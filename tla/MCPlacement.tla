---------------------------- MODULE MCPlacement -----------------------------
(* Placement of documents of three objects, of scalars, arrays and structures,
   whose every element the root accesses. *)
EXTENDS Elements, Bitwise

\* Inner { byte x; byte y[2]; }, Outer { byte tag; Inner items[2]; Later last; }, with
\* padding; Zone comes after Outer and has no fields of its own type.
SmallStructs ==
  [Inner |-> [size |-> 4, align |-> 1,
              fields |-> <<[offset |-> 0, elem_size |-> 1, elem_type |-> "i8"],
                           [offset |-> 2, elem_size |-> 1, elem_type |-> "i8", shape |-> <<2>>]>>],
   Outer |-> [size |-> 12,
              fields |-> <<[offset |-> 0, elem_size |-> 1],
                           [offset |-> 2, elem_size |-> 4, elem_type |-> "Inner", shape |-> <<2>>],
                           [offset |-> 10, elem_size |-> 2, elem_type |-> "Zone"]>>],
   Zone  |-> [size |-> 2, fields |-> <<[offset |-> 1, elem_size |-> 1]>>]]

Plain(size, dims)  == [elem_size |-> size, elem_type |-> "i8", shape |-> dims]
Unsized            == [elem_type |-> "void"]
Single(size, name) == [elem_size |-> size, elem_type |-> name]

PlainTypes ==
  {Single(1, "i8"), Unsized, Plain(2, <<3>>), Plain(1, <<2, 3>>), Plain(2, <<2, 1, 2>>),
   Single(4, "Inner"), Single(12, "Outer")}

\* An array of structures.
StructArray == [elem_size |-> 4, elem_type |-> "Inner", shape |-> <<3>>]

Expr(var, lit) == <<[sign |-> 1, var |-> var, lit |-> lit]>>

Written(step) ==
  IF ~IsField(step) THEN [kind |-> "index", value |-> Expr("", step.index)]
  ELSE IF step.field = 0 THEN [kind |-> "field"] ELSE [kind |-> "field", index |-> step.field]

Access(id, path) == [type |-> "Array", object |-> id, op |-> "load", access_path |-> path]

Index(var) == [kind |-> "index", value |-> Expr(var, 0)]

\* Every element is accessed, in some order; then, from one before the object to
\* one after it, an element of every object of a pointer's, and of an array.
AccessesOf(id, type) ==
  LET elements == {[k \in DOMAIN e.path |-> Written(e.path[k])] : e \in Elements(type, SmallStructs)}
      one      == CHOOSE path \in elements : TRUE
  IN  FoldSet(LAMBDA path, seq : Append(seq, Access(id, path)), << >>, elements) \o
      <<[type |-> "Loop", var |-> "i", start |-> -1, bound |-> 2,
         body |-> <<Access(id, <<Index("i")>> \o one)>> \o
                  (IF "shape" \in DOMAIN type THEN <<Access(id, <<Index("i")>> \o Tail(one))>>
                   ELSE << >>)]>>

DocumentOf(types, more) ==
  LET id == <<"a", "b", "c">>
  IN  [metadata  |-> [structs |-> SmallStructs,
                      objects |-> [o \in {id[k] : k \in DOMAIN types} |->
                                     types[CHOOSE k \in DOMAIN types : id[k] = o]]],
       functions |-> <<[function |-> "m", annotations |-> <<"yard.analyze">>,
                        body |-> FlattenSeq([k \in DOMAIN types |-> AccessesOf(id[k], types[k])])
                                   \o more]>>]

\* Accesses to a field there is not, of a scalar and of a structure, to an object
\* without an entry in the metadata, in two ways, and by a variable there is not.
BadAccesses ==
  {Access("a", <<[kind |-> "field"]>>), Access("c", <<[kind |-> "field", index |-> 2]>>),
   Access("b", <<[kind |-> "field", index |-> 0], [kind |-> "field", index |-> 0]>>),
   Access("d", << >>), Access("d", <<[kind |-> "field"]>>), Access("b", <<Index("j")>>)}

PlainDocuments ==
  {DocumentOf(<<a, b, a>>, << >>) : a \in PlainTypes, b \in PlainTypes} \cup
  {DocumentOf(<<Single(1, "i8"), Plain(2, <<3>>), Single(4, "Inner")>>, <<bad>>) : bad \in BadAccesses}

StructArrayDocuments == {DocumentOf(<<StructArray, b>>, << >>) : b \in PlainTypes}

SmallIds == <<"a", "b", "c">>

\* The first L1 decides, wherever it is listed; without one it is 32 bytes.
L1(size)  == [role |-> "L1", line_size |-> size]
LLC(size) == [role |-> "LLC", line_size |-> size]
SmallHierarchies == {<<LLC(8), L1(4), L1(2)>>, <<L1(8)>>, <<L1(1), LLC(4)>>, <<LLC(4)>>}

\* The masks of align_up keep what AlignUp takes the remainder to be.
ASSUME \A k \in 0 .. 5, v \in 0 .. 70 : (v & (2 ^ k - 1)) = v % 2 ^ k

SmallDepth ==
  LET Bodies(docs) == UNION {Range(doc.functions[1].body) : doc \in docs}
      top_nodes    == Bodies(PlainDocuments \cup StructArrayDocuments)
  IN  [n \in top_nodes \cup UNION {Range(ValueOr(n, "body", << >>)) : n \in top_nodes} |->
         IF "body" \in DOMAIN n THEN 1 ELSE 0]
=============================================================================
