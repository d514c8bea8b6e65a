-------------------------- MODULE AddressResolver ---------------------------
(***************************************************************************)
(* resolve_offset: the bytes from the base of an object to what an access    *)
(* path names.  A layout says what is left to step into: the dimensions, the *)
(* size of an element and, when that is a structure, its name.  A step is an *)
(* index, [index |-> i], or a field, [field |-> k], numbered from 0.         *)
(***************************************************************************)
EXTENDS Integers, SequencesExt

NoName == ""

\* An object without an entry in the metadata is a byte-less scalar.
NoLayout == [shape |-> << >>, elem_size |-> 0, struct_type |-> NoName]

\* The product of the dimensions from one on.
Product(dims) ==
  LET from[k \in 1 .. (Len(dims) + 1)] == IF k > Len(dims) THEN 1 ELSE dims[k] * from[k + 1]
  IN  from[1]

IsField(step) == "field" \in DOMAIN step

\* How many index steps of the same run follow the one at position i.
Following(path, i) ==
  Cardinality({k \in (i + 1) .. Len(path) : \A j \in (i + 1) .. k : ~IsField(path[j])})

\* A variant of Stride: the first index of a run meets the last dimension.
StrideReversed(path, i, context) ==
  context.elem_size * Product(SubSeq(context.shape, 2, Len(context.shape) - Following(path, i)))

\* Indices are aligned to the last dimensions; one more than there are
\* dimensions, of a pointer, strides over the whole array.
Stride(path, i, context) ==
  LET dims == Min({Following(path, i), Len(context.shape)})
  IN  context.elem_size * Product(SubSeq(context.shape, Len(context.shape) - dims + 1,
                                         Len(context.shape)))

HasField(context, step, structs) ==
  /\ context.struct_type \in DOMAIN structs
  /\ step.field + 1 \in DOMAIN structs[context.struct_type].fields

\* The context and the offset after the step at position i.  A run of indices
\* uses the dimensions up; a field replaces the context.
Step(path, i, at, structs) ==
  LET step == path[i]
  IN  IF IsField(step)
      THEN LET f == structs[at.context.struct_type].fields[step.field + 1]
           IN  [offset |-> at.offset + f.offset, context |-> f, thrown |-> FALSE]
      ELSE [offset  |-> at.offset + step.index * Stride(path, i, at.context),
            context |-> IF Following(path, i) = 0 THEN [at.context EXCEPT !.shape = << >>]
                        ELSE at.context,
            thrown  |-> FALSE]

\* The same, unless an exception has stopped the walk or does now.
Walked(path, i, at, structs) ==
  IF at.thrown \/ (IsField(path[i]) /\ ~HasField(at.context, path[i], structs))
  THEN [at EXCEPT !.thrown = TRUE]
  ELSE Step(path, i, at, structs)

\* The walk along a path, up to where an exception stops it.
Walk(object, path, structs) ==
  LET after[i \in 0 .. Len(path)] ==
        IF i = 0 THEN [offset |-> 0, context |-> object, thrown |-> FALSE]
        ELSE Walked(path, i, after[i - 1], structs)
  IN  after[Len(path)]

Resolves(object, path, structs) == ~Walk(object, path, structs).thrown

resolve_offset(object, path, structs) == Walk(object, path, structs).offset
=============================================================================
