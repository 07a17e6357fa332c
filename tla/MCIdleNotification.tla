------------------------- MODULE MCIdleNotification -------------------------
EXTENDS IdleNotification

CONSTANTS g1, g2, r1, r2

\* One runner for two programs that make three calls, one runner for one program that makes
\* four, or two runners that check at the same time, for one program that makes two.
TheSituations == {
    [runners |-> {r1}, programs |-> {g1, g2}, calls |-> 3],
    [runners |-> {r1}, programs |-> {g1}, calls |-> 4],
    [runners |-> {r1, r2}, programs |-> {g1}, calls |-> 2] }
=============================================================================
