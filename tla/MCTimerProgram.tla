--------------------------- MODULE MCTimerProgram ---------------------------
EXTENDS TimerProgram, TLC

CONSTANTS p, q

Of(kind, program, id, duration) == [kind |-> kind, program |-> program, id |-> id, duration |-> duration]

\* A timer and a repeating timer with the same number, which a third request cancels, a
\* repeating timer for another program, and one that repeats without delay.
TheRequests == {Of("CallAfter", p, 1, 2), Of("CallEvery", p, 1, 2), Of("CallEvery", q, 2, 1),
                Of("CallEvery", q, 1, 0), Of("Cancel", p, 1, 0)}
=============================================================================
