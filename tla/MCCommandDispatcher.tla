------------------------ MODULE MCCommandDispatcher ------------------------
EXTENDS CommandDispatcher, TLC

CONSTANTS d, p, q, n, m

\* Two launchers share a command, and one has another of its own.
ThePrograms == {d, p, q} \cup 1..2
TheTasks == 1..2
TheFirst == <<p, q>>
TheOffers == (p :> {n, m}) @@ (q :> {n})
=============================================================================
