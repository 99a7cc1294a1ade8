------------------------------ MODULE MapStore ------------------------------
(***************************************************************************)
(* What the info tables of NMBM are for: a store of one block map that     *)
(* power cuts do not tear.  The driver works on a map in memory; the store *)
(* holds what the driver last saved, replaces it in one step, and hands it *)
(* to the driver at the next start.  While the store keeps a spare copy it *)
(* is never empty.                                                         *)
(***************************************************************************)
CONSTANTS Map,     \* the maps
          NoMap    \* the driver is not running

VARIABLES
    saved,     \* the map that a start would find: {m}, or {} when there is none
    memory,    \* the map that the driver uses
    spare,     \* there is a second copy of the saved map
    void       \* something happened for which nothing is promised

vars == <<saved, memory, spare, void>>

Init ==
    /\ saved = {} \/ \E m \in Map : saved = {m}
    /\ memory = NoMap
    /\ spare = FALSE
    /\ void = FALSE

\* The driver starts from the saved map, or with a new one when there is none.
Start ==
    /\ memory = NoMap
    /\ memory' \in IF saved = {} THEN Map ELSE saved
    /\ saved' = saved

\* The driver changes its map.
Change ==
    /\ memory # NoMap
    /\ memory' \in Map
    /\ saved' = saved

\* The map becomes the saved one.
Commit ==
    /\ memory # NoMap
    /\ memory' = memory
    /\ saved' = {memory}

\* Writing the only copy again begins with erasing it.
Erase ==
    /\ memory # NoMap
    /\ ~spare
    /\ memory' = memory
    /\ saved' = {}

\* The driver stops, at worst while it commits or erases.
Stop ==
    /\ memory' = NoMap
    /\ \/ saved' = saved
       \/ memory # NoMap /\ saved' = {memory}
       \/ memory # NoMap /\ ~spare /\ saved' = {}

\* The number of copies may change with every step.
Next ==
    \/ /\ Start \/ Change \/ Commit \/ Erase \/ Stop
       /\ spare' \in BOOLEAN
       /\ void' = FALSE
    \/ void' = TRUE

Spec == Init /\ [][Next]_vars
=============================================================================
