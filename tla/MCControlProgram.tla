-------------------------- MODULE MCControlProgram --------------------------
EXTENDS ControlProgram, TLC

CONSTANTS a, s, w

Of(kind, program) == [kind |-> kind, program |-> program]

\* s subscribes, a asks what runs, and both may be closed and started again.
TheRequests ==
    {Of("Start", a), Of("Close", a), Of("Close", s), Of("Subscribe", s), Of("Query", a),
     [kind |-> "Connect", program |-> a, target |-> Disconnected], [kind |-> "StopSceneWhenIdle"]}

TheConnections == {<<a, s>>}
=============================================================================
