------------------------------ MODULE MCBMTv2 ------------------------------
EXTENDS BMTv2

\* Factory marks: in the data area and at the end; a run longer than BbMax in the
\* pool; a pool of two blocks; too many in the data area; no good block for a pool.
Bads == {{2, 9}, {5, 6, 7}, {1, 3, 5, 9}, {1, 2, 3}, {4, 5, 6, 7, 8, 9}}

\* A chip without bad blocks as mtk_bmt_init_v2 leaves it, powered off, with data in
\* every block of the user.
FormattedTable ==
    [bb |-> [lb \in Logical |-> lb],
     pool |-> [i \in Blocks |->
        [block  |-> IF PoolLba + i < TotalBlks THEN PoolLba + i ELSE 0,
         mapped |-> IF PoolLba + i = TotalBlks - 1 THEN "bmt" ELSE "no"]]]
Formatted ==
    [b \in Blocks |-> IF b \in User THEN DataOf(b)
                      ELSE IF b = TotalBlks - 1 THEN TableOf(FormattedTable)
                      ELSE Holds("erased")]
InitFormatted == InitWith(Formatted, {}, NoTable.bb, User)
SpecFormatted == InitFormatted /\ [][Next]_vars
SpecBoth == (Init \/ InitFormatted) /\ [][Next]_vars
=============================================================================
