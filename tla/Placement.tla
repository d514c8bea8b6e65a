----------------------------- MODULE Placement ------------------------------
(***************************************************************************)
(* Pipeline::run before the simulation: the objects of the program are laid   *)
(* out one after the other from the start of a line each, the program is       *)
(* unrolled, and every event is turned into the cache line it falls in.        *)
(* MemoryLayout gives an object's base, AddressMapper an address's line.       *)
(***************************************************************************)
EXTENDS ApLoader

CONSTANTS Ids,          \* the ids there may be, in the order of the map of objects
          Hierarchies,  \* the caches of the configurations, in their order
          AddressSpace  \* addresses are taken modulo this, 2^64 in the program

VARIABLES line_size,  \* the line size everything is placed by, fixed
          bases,      \* base address of every object placed so far
          next_base,  \* where the next object goes
          lines       \* the cache lines of the events mapped so far

placementVars == <<loaderVars, line_size, bases, next_base, lines>>

-----------------------------------------------------------------------------
\* The size of an object: of a structure its own, of an array its elements'.
TotalBytes(object) ==
  IF object.struct_type # NoName THEN object.elem_size
  ELSE Product(object.shape) * object.elem_size

\* A variant of AlignUp: always past the next boundary.
AlignPast(value, alignment) == value + alignment - (value % alignment)

\* align_up clears the bits of the mask alignment - 1 of a power of two.
AlignUp(value, alignment) ==
  LET above == value + alignment - 1
  IN  above - (above % alignment)

CacheLine(byte_addr) == byte_addr \div line_size

\* The line size of the first L1, or 32 without one.
LineSize(caches) ==
  LET l1s == {k \in DOMAIN caches : caches[k].role = "L1"}
  IN  IF l1s = {} THEN 32 ELSE caches[Min(l1s)].line_size

\* The caches are those align_up is meant for, and every object there may be has
\* an id.
ASSUME PlacementAssumption ==
  /\ Ids \in Seq(Range(Ids)) /\ AddressSpace \in Nat \ {0}
  /\ \A caches \in Hierarchies :
       LineSize(caches) \in Nat \ {0} /\ \E k \in 0 .. 31 : LineSize(caches) = 2 ^ k
  /\ \A doc \in Documents : Loads(doc) => DOMAIN Objects(doc.metadata) \subseteq Range(Ids)

-----------------------------------------------------------------------------
PlacementInit ==
  /\ LoaderInit
  /\ line_size \in {LineSize(caches) : caches \in Hierarchies}
  /\ bases = << >> /\ next_base = 0 /\ lines = << >>

LoadProgram == Load /\ UNCHANGED <<line_size, bases, next_base, lines>>

\* The objects still to place, by the places of their ids in the order of the map.
Unplaced == {k \in DOMAIN Ids : Ids[k] \in DOMAIN program.objects \ DOMAIN bases}

\* The layout's loop, one object an iteration.
AddObject ==
  /\ status = "running" /\ Unplaced # {}
  /\ LET id == Ids[Min(Unplaced)]
     IN  /\ bases' = [o \in DOMAIN bases \cup {id} |-> IF o = id THEN next_base ELSE bases[o]]
         /\ next_base' = AlignUp(next_base + TotalBytes(program.objects[id]), line_size)
  /\ UNCHANGED <<loaderVars, line_size, lines>>

BuildEvents ==
  /\ Unplaced = {} /\ BuilderStep
  /\ UNCHANGED <<document, line_size, bases, next_base, lines>>

\* The loop over the events, once all of them are built.
Mapping == status = "done" /\ Len(lines) < Len(out)

\* A variant of MapEvent: an access before its object is taken to be at its base.
MapEventFromBase ==
  LET e == out[Len(lines) + 1]
  IN  /\ Mapping /\ e.object_name \in DOMAIN bases
      /\ lines' = Append(lines, CacheLine(bases[e.object_name] + Max({e.byte_offset, 0})))
      /\ UNCHANGED <<loaderVars, line_size, bases, next_base>>

\* The offset is added as an unsigned number, a negative one wraps around.
MapEvent ==
  LET e == out[Len(lines) + 1]
  IN  /\ Mapping /\ e.object_name \in DOMAIN bases
      /\ lines' = Append(lines, CacheLine((bases[e.object_name] + e.byte_offset) % AddressSpace))
      /\ UNCHANGED <<loaderVars, line_size, bases, next_base>>

\* base_of throws on an object that was never placed.
UnknownObject ==
  /\ Mapping /\ out[Len(lines) + 1].object_name \notin DOMAIN bases
  /\ Throw
  /\ UNCHANGED <<document, line_size, bases, next_base, lines>>

PlacementNext == LoadProgram \/ AddObject \/ BuildEvents \/ MapEvent \/ UnknownObject

PlacementSpec == PlacementInit /\ [][PlacementNext]_placementVars
=============================================================================
