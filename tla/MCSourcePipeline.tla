-------------------------- MODULE MCSourcePipeline --------------------------
(* The wrapper on a C file, LLVM IR of the same name, and a header. *)
EXTENDS SourcePipeline

A   == [stem |-> <<"a">>, suffix |-> ".c"]
ALl == [stem |-> <<"a">>, suffix |-> ".ll"]
H   == [stem |-> <<"h">>, suffix |-> ".h"]

SmallSources == {A, ALl, H}

SmallArguments ==
  {[files |-> <<H, A>>, ape_only |-> FALSE], [files |-> <<A, ALl>>, ape_only |-> FALSE],
   [files |-> <<A>>, ape_only |-> TRUE]}

\* Runs by hand, their options in all orders: with and without a directory, of a
\* file the plugin may have written.
ApexCache == <<Word("apex-cache")>>
RunA      == ApexCache \o <<Word("run"), <<"a", "g", "ape">>>>
CacheOpt  == <<Option("cache"), Word("c.yaml")>>
Meant(to) == [runs |-> TRUE, input |-> <<"a", "g", "ape">>, cache |-> Word("c.yaml"), output |-> to]

ToOut ==
  {[argv  |-> RunA \o FlattenSeq([k \in 1..3 |-> options[k]]), meant |-> Meant(Word("out"))] :
     options \in {o \in [1..3 -> {CacheOpt, <<Option("output"), Word("out")>>, <<Option("quiet")>>}] :
                    IsInjective(o)}}

SmallCommandLines ==
  ToOut \cup {[argv |-> RunA \o CacheOpt, meant |-> Meant(Word("results"))]} \cup
  {[argv |-> argv, meant |-> NothingMeant] :
     argv \in {ApexCache, ApexCache \o <<Word("help")>>, ApexCache \o <<Word("simulate")>>, ApexCache \o <<Word("run")>>,
               RunA, RunA \o CacheOpt \o <<Option("help")>>}}
=============================================================================
