---------------------------- MODULE MCImageSlots ----------------------------
EXTENDS ImageSlots

\* Settings of each slot's own, shared ones that an upgrade makes anew (limited or filling the
\* chip), and shared ones that it keeps.
AllBoards == {[shared |-> FALSE, reserve |-> FALSE, limit |-> 2],
              [shared |-> TRUE,  reserve |-> FALSE, limit |-> 2],
              [shared |-> TRUE,  reserve |-> FALSE, limit |-> 0],
              [shared |-> TRUE,  reserve |-> TRUE,  limit |-> 2]}
=============================================================================
