------------------------------ MODULE ApLoader ------------------------------
(***************************************************************************)
(* ApLoader: an APE JSON document becomes the ApProgram that EventBuilder    *)
(* unrolls.  A JSON object is a record, a JSON array a sequence, a key that  *)
(* is not there is not in the DOMAIN; Malformed is a value of another kind   *)
(* than the one asked for.                                                   *)
(***************************************************************************)
EXTENDS EventBuilder

CONSTANTS Documents,  \* the documents there may be
          Malformed,  \* a value no conversion takes
          Depth       \* how deep nodes nest in each other, of each node of a document

VARIABLES document  \* the document loaded, fixed

loaderVars == <<builderVars, document>>

-----------------------------------------------------------------------------
(* What the JSON library does, as the loader uses it. *)

\* j.value(key, default).
ValueOr(j, key, default) == IF key \in DOMAIN j THEN j[key] ELSE default

\* The required keys are there, and what is there of the keys read converts.
Reads(j, required, optional) ==
  /\ required \subseteq DOMAIN j
  /\ \A key \in (required \cup optional) \cap DOMAIN j : j[key] # Malformed

-----------------------------------------------------------------------------
(* Layouts. *)

LayoutParses(j) ==
  /\ Reads(j, {}, {"elem_size", "shape", "elem_type"})
  /\ \A d \in Range(ValueOr(j, "shape", << >>)) : d # Malformed

StructParses(j) ==
  /\ Reads(j, {"fields"}, {"size", "align"})
  /\ \A f \in Range(j.fields) : Reads(f, {}, {"offset"}) /\ LayoutParses(f)

\* A variant of StructTypeOf: only a single structure is of its type.
StructTypeOfSingle(j, struct_names) ==
  LET type == ValueOr(j, "elem_type", NoName)
  IN  IF type \in struct_names /\ "shape" \notin DOMAIN j THEN type ELSE NoName

\* The structure an element is, if its type is the name of one.
StructTypeOf(j, struct_names) ==
  LET type == ValueOr(j, "elem_type", NoName)
  IN  IF type \in struct_names THEN type ELSE NoName

parse_object_layout(j, struct_names) ==
  [shape       |-> ValueOr(j, "shape", << >>),
   elem_size   |-> ValueOr(j, "elem_size", 0),
   struct_type |-> StructTypeOf(j, struct_names)]

parse_struct_layout(j, struct_names) ==
  [size   |-> ValueOr(j, "size", 0),
   align  |-> ValueOr(j, "align", 0),
   fields |-> [k \in DOMAIN j.fields |->
                 LET layout == parse_object_layout(j.fields[k], struct_names)
                 IN  [offset      |-> ValueOr(j.fields[k], "offset", 0),
                      shape       |-> layout.shape,
                      elem_size   |-> layout.elem_size,
                      struct_type |-> layout.struct_type]]]

-----------------------------------------------------------------------------
(* Nodes. *)

Nodes == DOMAIN Depth

StepParses(s) == Reads(s, {"kind"}, {}) /\ IF s.kind = "field" THEN Reads(s, {}, {"index"})
                                           ELSE Reads(s, {"value"}, {})

parse_step(s) ==
  IF s.kind = "field" THEN [field |-> ValueOr(s, "index", 0)] ELSE [expr |-> s.value]

NoObject == <<NoName, NoName>>

\* A node is of one of the types, and none of its own keys is missing or of
\* another kind.
KeysParse(j) ==
  /\ Reads(j, {"type"}, {})
  /\ CASE j.type = "Loop"   -> Reads(j, {"var", "start", "bound", "body"}, {"depth"})
       [] j.type = "Array"  ->
            /\ Reads(j, {}, {"object", "op", "access_path"})
            /\ \A s \in Range(ValueOr(j, "access_path", << >>)) : StepParses(s)
       [] j.type = "Scalar" ->
            Reads(j, {}, {"op", IF "object" \in DOMAIN j THEN "object" ELSE "name"})
       [] j.type = "Call"   ->
            /\ Reads(j, {"callee"}, {"args", "arg_objects"})
            /\ \A a \in Range(ValueOr(j, "args", << >>) \o ValueOr(j, "arg_objects", << >>)) :
                 a # Malformed
       [] OTHER -> FALSE

\* The nodes in a node.
Body(j) == IF j.type = "Loop" THEN j.body ELSE << >>

\* The node of a JSON node and of what the nodes in it became.
NodeOf(j, body) ==
  CASE j.type = "Loop"   ->
         [kind |-> "Loop", var |-> j.var, start |-> j.start, bound |-> j.bound, body |-> body]
    [] j.type = "Array"  ->
         LET path == ValueOr(j, "access_path", << >>)
         IN  [kind |-> "Array", object |-> ValueOr(j, "object", NoObject),
              op |-> ValueOr(j, "op", NoName), access_path |-> [k \in DOMAIN path |-> parse_step(path[k])]]
    [] j.type = "Scalar" ->
         [kind |-> "Scalar", object |-> ValueOr(j, "object", ValueOr(j, "name", NoObject)),
          op |-> ValueOr(j, "op", NoName)]
    [] j.type = "Call"   ->
         [kind |-> "Call", callee |-> j.callee, arg_objects |-> ValueOr(j, "arg_objects", << >>)]

Thrown == [kind |-> "Thrown"]

\* The node, or Thrown at the first key in it that does not parse.
parse_node_v2[j \in Nodes] ==
  LET body == [k \in DOMAIN Body(j) |-> parse_node_v2[Body(j)[k]]]
  IN  IF ~KeysParse(j) \/ Thrown \in Range(body) THEN Thrown ELSE NodeOf(j, body)

-----------------------------------------------------------------------------
(* load_program_string. *)

FunctionParses(fn) ==
  /\ Reads(fn, {"function", "body"}, {"params", "annotations"})
  /\ \A node_json \in Range(fn.body) : parse_node_v2[node_json] # Thrown
  /\ \A p \in Range(ValueOr(fn, "params", << >>)) : p # Malformed
  /\ LET annotations == ValueOr(fn, "annotations", << >>)  \* read up to the first that counts
     IN  \A k \in DOMAIN annotations :
           annotations[k] # Malformed \/ \E i \in 1 .. (k - 1) : annotations[i] = "yard.analyze"

Structs(meta) == ValueOr(meta, "structs", << >>)
Objects(meta) == ValueOr(meta, "objects", << >>)

\* load_program_string returns.
Loads(doc) ==
  /\ {"metadata", "functions"} \subseteq DOMAIN doc
  /\ \A name \in DOMAIN Structs(doc.metadata) : StructParses(doc.metadata.structs[name])
  /\ \A id \in DOMAIN Objects(doc.metadata) : LayoutParses(doc.metadata.objects[id])
  /\ \A fn \in Range(doc.functions) : FunctionParses(fn)

IsRoot(fn) == Contains(ValueOr(fn, "annotations", << >>), "yard.analyze")

\* A variant of Defining: the first definition stays.
DefiningFirst(functions, name) ==
  functions[Min({k \in DOMAIN functions : functions[k].function = name})]

\* A function given twice is the last one given.
Defining(functions, name) ==
  functions[Max({k \in DOMAIN functions : functions[k].function = name})]

\* The names of the functions to analyze, from each of the functions on.
RootsFrom(functions) ==
  LET from[k \in 1 .. (Len(functions) + 1)] ==
        IF k > Len(functions) THEN << >>
        ELSE IF IsRoot(functions[k]) THEN <<functions[k].function>> \o from[k + 1] ELSE from[k + 1]
  IN  from

load_program_string(doc) ==
  LET names        == {fn.function : fn \in Range(doc.functions)}
      struct_names == DOMAIN Structs(doc.metadata)
      BodyOf(fn)   == [k \in DOMAIN fn.body |-> parse_node_v2[fn.body[k]]]
  IN  [functions |-> [name \in names |-> BodyOf(Defining(doc.functions, name))],
       params    |-> [name \in names |-> ValueOr(Defining(doc.functions, name), "params", << >>)],
       roots     |-> RootsFrom(doc.functions)[1],
       objects   |-> [id \in DOMAIN Objects(doc.metadata) |->
                        parse_object_layout(doc.metadata.objects[id], struct_names)],
       structs   |-> [name \in struct_names |->
                        parse_struct_layout(doc.metadata.structs[name], struct_names)]]

-----------------------------------------------------------------------------
IsArray(s) == s \in Seq(Range(s))

\* What is not Malformed is of the kind asked for; documents are finite, a node is
\* deeper than those in it.
ASSUME JsonAssumption ==
  /\ Depth \in [Nodes -> Nat]
  /\ \A j \in Nodes :
       KeysParse(j) =>
         /\ Body(j) \in Seq(Nodes) /\ \A child \in Range(Body(j)) : Depth[child] < Depth[j]
         /\ j.type = "Loop" => {j.start, j.bound} \subseteq Int
         /\ j.type = "Array" => IsArray(ValueOr(j, "access_path", << >>))
         /\ j.type = "Call" => IsArray(ValueOr(j, "arg_objects", << >>))
  /\ \A doc \in Documents :
       "functions" \in DOMAIN doc =>
         /\ IsArray(doc.functions)
         /\ \A fn \in Range(doc.functions) :
              Reads(fn, {"body"}, {"params"}) =>
                fn.body \in Seq(Nodes) /\ IsArray(ValueOr(fn, "params", << >>))

-----------------------------------------------------------------------------
LoaderInit == BuilderInit /\ document \in Documents

\* The program is loaded and handed to build_program, or the run ends.
Load ==
  /\ IF Loads(document) THEN Begin(load_program_string(document))
     ELSE status = "loading" /\ Throw
  /\ UNCHANGED document

LoaderNext == Load \/ (BuilderStep /\ UNCHANGED document)

\* Loading and building are one sequential call, which goes on until it is done.
LoaderSpec == LoaderInit /\ [][LoaderNext]_loaderVars /\ WF_loaderVars(LoaderNext)
=============================================================================
