------------------------------- MODULE MCNMBM -------------------------------
EXTENDS NMBM

\* Factory marks: none; in the data area and among the spare blocks; at the end
\* of the data area; no room for a backup table; replacements run out; no room
\* for a table.
BadsCreate == {{}, {1, 8}, {2}, {1, 4, 5, 6, 7}, {0, 1, 5, 6, 7, 8}, {4, 5, 6, 7, 8, 9}}
\* One bad block among the spare ones.
BadsSpare == {{8}}

\* A chip as nmbm_create_new leaves it when nothing is bad, powered off, with
\* data in every logical block.
FormattedTable(bads) == [wc |-> 0, bad |-> bads, map |-> [lb \in Logical |-> lb]]
FormattedBackup ==
    LET top == BlockCount - 2
    IN  IF MgmtStart + 3 < top - 1 THEN MgmtStart + 3 ELSE top - 2
Formatted(bads) ==
    [b \in Blocks |->
        CASE b \in Logical -> DataOf(b)
          [] b \in {MgmtStart, FormattedBackup} -> TableOf(FormattedTable(bads))
          [] b = BlockCount - 1 -> Holds("sig")
          [] OTHER -> Holds("erased")]

\* Chips in use, one of them with one replacement left, and new ones, on which fewer
\* failures suffice.
LastTwo == {BlockCount - 4, BlockCount - 3}
InitMain ==
    /\ cuts = MaxCuts
    /\ \/ /\ \E bads \in {{}, LastTwo} : InitOff(Formatted(bads), bads, Logical)
          /\ faults = MaxFaults
       \/ /\ \E f \in FactoryBads : InitOff([b \in Blocks |-> Holds("erased")], f, {})
          /\ faults = 1
SpecMain == InitMain /\ [][Next]_vars

\* A chip in use, but the spare blocks between the tables could not be erased when
\* the tables were created (nmbm_erase_range): they are marked, and both tables,
\* written once more at the end of the creation, say so.
Spares == (MgmtStart + 1)..(FormattedBackup - 1)
Worn ==
    [b \in Blocks |->
        CASE b \in Logical -> DataOf(b)
          [] b \in {MgmtStart, FormattedBackup} ->
                 TableOf([FormattedTable({}) EXCEPT !.wc = 1, !.bad = Spares])
          [] b = BlockCount - 1 -> Holds("sig")
          [] OTHER -> Holds("erased")]

InitWorn == InitWith(Worn, Spares, Logical)
FairWorn == InitWorn /\ [][Next]_vars /\ Fairness
=============================================================================
