------------------------------- MODULE MCBBT -------------------------------
EXTENDS BBT

\* One range that leaves the first logical block alone.
OneRange == {<<1, 4>>}
=============================================================================
