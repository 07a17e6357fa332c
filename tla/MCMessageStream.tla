-------------------------- MODULE MCMessageStream --------------------------
(* Instances of MessageStream: whose sink is attached to which core, and    *)
(* who uses send_immediate.                                                 *)
EXTENDS MessageStream

CONSTANTS c1, c2

OwnCore == [s \in Senders |-> IF s = CHOOSE t \in Senders : TRUE THEN c1 ELSE c2]
NoneOrOne == {{}, {s \in Senders : CoreOf[s] = c2}}
OneCore == [s \in Senders |-> c1]
=============================================================================
