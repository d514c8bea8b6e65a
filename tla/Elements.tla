------------------------------ MODULE Elements -------------------------------
(***************************************************************************)
(* The elements of an object as the document types it: an array is its first  *)
(* dimension times the rest, a structure its fields, at any depth.  Loader,    *)
(* resolver and placement are held against it.                                 *)
(***************************************************************************)
EXTENDS Placement, Unrolling

Dims(type) == ValueOr(type, "shape", << >>)

SizeOf(type) == Product(Dims(type)) * ValueOr(type, "elem_size", 0)

ElementOf(type) == [type EXCEPT !.shape = Tail(@)]

IsStructure(type, structs) == ValueOr(type, "elem_type", NoName) \in DOMAIN structs
FieldsOf(type, structs)    == structs[ValueOr(type, "elem_type", NoName)].fields

\* A place below a type: [type, at], a type and how far it is from the start.

\* Where a step leads from a place, if it leads anywhere: to an element of an
\* array, its index in or out of the bounds, or to a field of a structure.
StepInto(place, step, structs) ==
  LET type   == place.type
      fields == FieldsOf(type, structs)
  IN  IF Dims(type) # << >>
      THEN IF IsField(step) THEN {}
           ELSE {[type |-> ElementOf(type), at |-> place.at + step.index * SizeOf(ElementOf(type))]}
      ELSE IF IsStructure(type, structs) /\ IsField(step)
      THEN {[type |-> fields[k], at |-> place.at + ValueOr(fields[k], "offset", 0)] :
              k \in {step.field + 1} \cap DOMAIN fields}
      ELSE {}

\* Where a path leads from some places.
Reached(places, path, structs) ==
  LET after[k \in 0 .. Len(path)] ==
        IF k = 0 THEN places
        ELSE UNION {StepInto(place, path[k], structs) : place \in after[k - 1]}
  IN  after[Len(path)]

IsElement(type, structs) == Dims(type) = << >> /\ ~IsStructure(type, structs)

\* The places of the element that a path names, in an object of a type; the first
\* index of a pointer's path is of whole objects.
Places(type, path, structs) ==
  LET start  == [type |-> type, at |-> 0]
      within == Reached({start}, path, structs)
      whole  == IF path = << >> \/ IsField(Head(path)) THEN {}
                ELSE Reached({[start EXCEPT !.at = @ + Head(path).index * SizeOf(type)]},
                             Tail(path), structs)
  IN  {p.at : p \in {p \in within \cup whole : IsElement(p.type, structs)}}

\* The steps into a type that stay within its bounds.
StepsInto(type, structs) ==
  IF Dims(type) # << >> THEN {[index |-> i] : i \in 0 .. (Head(type.shape) - 1)}
  ELSE IF IsStructure(type, structs)
  THEN {[field |-> k - 1] : k \in DOMAIN FieldsOf(type, structs)}
  ELSE {}

\* All elements below a type: the path to each, its place and its bytes.
Elements(type, structs) ==
  LET parts[d \in 0 .. Deepest] ==
        IF d = 0 THEN {[path |-> << >>, place |-> [type |-> type, at |-> 0]]}
        ELSE UNION {UNION {{[path |-> Append(p.path, s), place |-> q] :
                              q \in StepInto(p.place, s, structs)} :
                             s \in StepsInto(p.place.type, structs)} : p \in parts[d - 1]}
      elements == {p \in UNION {parts[d] : d \in 0 .. Deepest} : IsElement(p.place.type, structs)}
  IN  {[path |-> e.path, at |-> e.place.at, bytes |-> ValueOr(e.place.type, "elem_size", 0)] :
         e \in elements}

-----------------------------------------------------------------------------
\* The types in a document are those of a compiler: nothing is negative, and a
\* structure has room for each of its fields.
ASSUME TypesAssumption ==
  \A doc \in Documents :
    Loads(doc) =>
      LET structs == Structs(doc.metadata)
          types   == Range(Objects(doc.metadata)) \cup
                     UNION {Range(structs[name].fields) : name \in DOMAIN structs}
      IN  \A type \in types :
            /\ Dims(type) \in Seq(Nat) /\ ValueOr(type, "elem_size", 0) \in Nat
            /\ IsStructure(type, structs) =>
                 \A field \in Range(FieldsOf(type, structs)) :
                   /\ ValueOr(field, "offset", 0) \in Nat
                   /\ ValueOr(field, "offset", 0) + SizeOf(field) <= ValueOr(type, "elem_size", 0)

TypeOf(id)     == document.metadata.objects[id]
ElementsOf(id) == Elements(TypeOf(id), Structs(document.metadata))

IsRegistered(id) == id \in DOMAIN Objects(document.metadata)

PlacesOf(access) == Places(TypeOf(access.object_name), access.path, Structs(document.metadata))

\* An array of structures is given too little room, see ObjectsGetTheirBytes.
NoStructArrays ==
  \A id \in DOMAIN Objects(document.metadata) :
    IsStructure(TypeOf(id), Structs(document.metadata)) => Dims(TypeOf(id)) = << >>

\* The lines the elements of a placed object are in.
LinesOf(id) ==
  UNION {CacheLine(bases[id] + e.at) .. CacheLine(bases[id] + e.at + e.bytes - 1) :
           e \in ElementsOf(id)}

\* Where the object after an object starts.
After(id) ==
  LET later == {bases[other] : other \in DOMAIN bases \ {id}} \cup {next_base}
  IN  Min({b \in later : b > bases[id]} \cup {next_base})

-----------------------------------------------------------------------------
\* A document whose accesses all are of elements of registered objects is placed
\* and mapped to the end: no field is refused and no object unknown, in whatever
\* order structures refer to each other, inside arrays or on their own, below the
\* object or handed to a parameter (resolve_offset, base_of, ApLoader).
AccessesResolve ==
  status = "failed" /\ Loads(document) /\ ProgramIsScoped =>
    \E t \in AccessTrails :
      ~IsRegistered(AccessOf(t).object_name) \/ PlacesOf(AccessOf(t)) = {}

\* An access lands on the element its path names: indices count from the last
\* dimension, one more strides over a pointer's array, what a field names is
\* measured by that field's own type, at any depth, and an index below its bounds
\* counts back (resolve_offset).
OffsetIsElement ==
  out # << >> /\ IsRegistered(Last(out).object_name) =>
    PlacesOf(Last(out)) \subseteq {Last(out).byte_offset}

\* An access is charged to the line its byte is in.  Inside its object that is a
\* line of no other object's, so every miss is rightly that object's; past either
\* end it is the line of whatever is there, and before the first address a line no
\* object has (run and align_up), in an address space that holds all of it.
OwnLines ==
  lines # << >> /\ NoStructArrays =>
    LET access == out[Len(lines)]
        id     == access.object_name
        Others == DOMAIN bases \ {id}
    IN  \A at \in PlacesOf(access) :
          bases[id] + at \in (next_base - AddressSpace) .. (AddressSpace - 1) =>
            /\ IF bases[id] + at >= 0
               THEN (bases[id] + at) - Last(lines) * line_size \in 0 .. (line_size - 1)
               ELSE \A placed \in DOMAIN bases : Last(lines) \notin LinesOf(placed)
            /\ (\E e \in ElementsOf(id) : e.path = access.path /\ e.bytes > 0)
                 => \A other \in Others : Last(lines) \notin LinesOf(other)

\* Every object starts a line, and the next one the line after its last: it takes
\* as few lines as its size allows, and placement adds no miss (align_up).
LinesAreFilled ==
  NoStructArrays =>
    \A id \in DOMAIN bases :
      /\ bases[id] % line_size = 0
      /\ SizeOf(TypeOf(id)) > 0 => After(id) - bases[id] - SizeOf(TypeOf(id)) \in 0 .. (line_size - 1)

-----------------------------------------------------------------------------
\* What the documentation says, and the code does not do.  AccessLayout.hpp: the
\* total bytes of an array are those of all its elements.
ObjectsGetTheirBytes ==
  \A id \in DOMAIN bases : After(id) >= bases[id] + SizeOf(TypeOf(id))
=============================================================================
