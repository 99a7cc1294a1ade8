--------------------------- MODULE MCFlowOffload ---------------------------
EXTENDS FlowOffload

CONSTANTS f1, h1

\* A flow to one neighbour, in the first slot: the scans go on behind it.
Hash    == [f \in {f1} |-> 1]
NextHop == [f \in {f1} |-> h1]
=============================================================================
