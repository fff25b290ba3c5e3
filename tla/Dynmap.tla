------------------------------- MODULE Dynmap --------------------------------
(***************************************************************************)
(* The table of labels, Assemble/dynmap.c: an array of entries that grows  *)
(* by DYNMAP_DEFAULT_LIMIT when it is full.  Its functions are called one  *)
(* after the other by one thread, and are operators on the table here.     *)
(***************************************************************************)
EXTENDS Integers, Sequences, FiniteSetsExt

CONSTANTS DYNMAP_DEFAULT_LIMIT,
          ValueLimit     \* dynmap_add takes a uint8_t: 256

ASSUME DynmapAssumption ==
  DYNMAP_DEFAULT_LIMIT \in Nat \ {0} /\ ValueLimit \in Nat \ {0}

dynmap_create == [entries |-> << >>, cap |-> DYNMAP_DEFAULT_LIMIT]

dynmap_rebuild(map) == [map EXCEPT !.cap = @ + DYNMAP_DEFAULT_LIMIT]

(* Rebuilt one entry too late.                                             *)
dynmap_add_late(map, key, value) ==
  LET roomy == IF Len(map.entries) > map.cap THEN dynmap_rebuild(map) ELSE map
  IN  [roomy EXCEPT !.entries =
         Append(@, [key |-> key, value |-> value % ValueLimit])]

dynmap_add(map, key, value) ==
  LET roomy == IF Len(map.entries) >= map.cap THEN dynmap_rebuild(map) ELSE map
  IN  [roomy EXCEPT !.entries =
         Append(@, [key |-> key, value |-> value % ValueLimit])]

(* The entries dynmap_get would stop at.                                   *)
Matches(map, key) == {j \in 1 .. Len(map.entries) : map.entries[j].key = key}
dynmap_has(map, key) == Matches(map, key) # {}
dynmap_get(map, key) == map.entries[Min(Matches(map, key))].value

=============================================================================
