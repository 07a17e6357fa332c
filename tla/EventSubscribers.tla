-------------------------- MODULE EventSubscribers --------------------------
(***************************************************************************)
(* EventSubscribers (programs/subscription.rs): the list of output sinks   *)
(* to which a program publishes its events, all of them at once (send).    *)
(*                                                                         *)
(* A sink is known by its target: all sinks of the program for one target  *)
(* share a core, sink[p].  The input stream of a target is "open",         *)
(* "closed" (it still exists, but takes no messages) or "gone".  An event  *)
(* is a number; inbox[p] counts the events p has not read.                 *)
(***************************************************************************)
EXTENDS Integers, Sequences, SequencesExt, FiniteSets, FiniteSetsExt

CONSTANTS Subscribers,  \* programs that subscribe
          Capacity,     \* length at which the input stream of a subscriber is full
          Discard,      \* a sink whose target is StreamTarget::None
          Disconnected, \* the target of a sink without an input
          Nothing

ASSUME SubscribersAssumption ==
    /\ Capacity \in Nat \ {0}
    /\ Discard \notin Subscribers /\ Nothing \notin {Disconnected, "input"} /\ Disconnected # "input"

VARIABLES receivers,     \* EventSubscribers::receivers
          sink,          \* per subscriber: Nothing, Disconnected or "input"
          stream,        \* per subscriber: its input stream
          inbox,         \* per subscriber: number of unread events
          sending,       \* indexes of receivers for which join_all waits
          refused        \* indexes of receivers whose send ended in an error

subscriberVars == <<receivers, sink, stream, inbox, sending, refused>>

SubscribersTypeOK ==
    /\ receivers \in Seq(Subscribers \cup {Discard})
    /\ sink \in [Subscribers -> {Nothing, Disconnected, "input"}]
    /\ stream \in [Subscribers -> {"open", "closed", "gone"}]
    /\ inbox \in [Subscribers -> 0..Capacity]
    /\ sending \cup refused \subseteq DOMAIN receivers /\ sending \cap refused = {}

\* No program has subscribed yet; the input streams of some are open.
NoSubscribers(list, running) ==
    /\ receivers = list /\ sending = {} /\ refused = {}
    /\ sink = [p \in Subscribers |-> Nothing]
    /\ stream = [p \in Subscribers |-> IF p \in running THEN "open" ELSE "gone"]
    /\ inbox = [p \in Subscribers |-> 0]

----------------------------------------------------------------------------
\* OutputSink::is_attached
IsAttached(p) == p # Discard => sink[p] = "input" /\ stream[p] = "open"

\* Those of the first n receivers that are retained, and all of them.
Retained[n \in 0..Len(receivers)] ==
    IF n = 0 THEN <<>>
    ELSE IF IsAttached(receivers[n]) THEN Append(Retained[n - 1], receivers[n]) ELSE Retained[n - 1]
Attached == Retained[Len(receivers)]

\* Mutant: it is not noticed that the stream was closed.
Refuses_Gone(p) == p # Discard /\ sink[p] = "input" /\ stream[p] = "gone"

\* What a poll of sink.send() does: it is done, it returns an error, or it waits.
Accepts(p) == p # Discard => sink[p] = "input" /\ stream[p] = "open" /\ inbox[p] < Capacity
Refuses(p) == p # Discard /\ sink[p] = "input" /\ stream[p] # "open"

InboxAfter(p) == IF p = Discard THEN inbox ELSE [inbox EXCEPT ![p] = @ + 1]

\* An input stream that is gone leaves the sink disconnected; one that is closed does not.
SinkAfterRefusal(p) == IF stream[p] = "gone" THEN [sink EXCEPT ![p] = Disconnected] ELSE sink

\* The program's sink for p exists, or context.send can create it.
SinkAfterContextSend(p) ==
    IF sink[p] # Nothing THEN sink
    ELSE [sink EXCEPT ![p] = IF stream[p] = "gone" THEN Disconnected ELSE "input"]

\* subscribe: target p, for which context.send succeeds or not.
SubscribeTo(p, succeeds) ==
    /\ receivers' = IF succeeds THEN Append(Attached, p) ELSE Attached
    /\ sink' = IF succeeds THEN SinkAfterContextSend(p) ELSE sink
    /\ UNCHANGED <<stream, inbox, sending, refused>>

\* send: every attached receiver is sent to at once.
BeginSend ==
    /\ receivers' = Attached
    /\ sending' = DOMAIN Attached /\ refused' = {}
    /\ UNCHANGED <<sink, stream, inbox>>

\* Receiver number i takes the event.
DeliverTo(i) ==
    /\ i \in sending /\ Accepts(receivers[i])
    /\ inbox' = InboxAfter(receivers[i])
    /\ sending' = sending \ {i}
    /\ UNCHANGED <<receivers, sink, stream, refused>>

\* Sending to receiver number i fails.
RefusedBy(i) ==
    /\ i \in sending /\ Refuses(receivers[i])
    /\ sink' = SinkAfterRefusal(receivers[i])
    /\ sending' = sending \ {i} /\ refused' = refused \cup {i}
    /\ UNCHANGED <<receivers, stream, inbox>>

\* The receivers that returned an error are removed, last to first: what is left after the last
\* n results were looked at, and after all of them.
Removed[n \in 0..Len(receivers)] ==
    IF n = 0 THEN receivers
    ELSE IF Len(receivers) + 1 - n \in refused THEN RemoveAt(Removed[n - 1], Len(receivers) + 1 - n)
    ELSE Removed[n - 1]
WithoutRefused == Removed[Len(receivers)]

\* join_all is done.
EndSend ==
    /\ sending = {}
    /\ receivers' = WithoutRefused /\ refused' = {}
    /\ UNCHANGED <<sink, stream, inbox, sending>>

----------------------------------------------------------------------------
(***************************************************************************)
(* The subscribers                                                         *)
(***************************************************************************)
\* p reads an event.
ReadEvent(p) ==
    /\ stream[p] # "gone" /\ inbox[p] > 0
    /\ inbox' = [inbox EXCEPT ![p] = @ - 1]
    /\ UNCHANGED <<receivers, sink, stream, sending, refused>>

\* p starts, and the sinks for it are connected to its new input.
OpenStream(p) ==
    /\ stream' = [stream EXCEPT ![p] = "open"]
    /\ inbox' = [inbox EXCEPT ![p] = 0]
    /\ sink' = [sink EXCEPT ![p] = IF @ = Nothing THEN Nothing ELSE "input"]
    /\ UNCHANGED <<receivers, sending, refused>>

\* p's input stream is closed, or dropped with all it holds.
CloseStream(p, keeps) ==
    /\ stream' = [stream EXCEPT ![p] = "closed"]
    /\ inbox' = IF keeps THEN inbox ELSE [inbox EXCEPT ![p] = 0]
    /\ UNCHANGED <<receivers, sink, sending, refused>>

\* p leaves the scene.
RemoveStream(p) ==
    /\ stream' = [stream EXCEPT ![p] = "gone"]
    /\ UNCHANGED <<receivers, sink, inbox, sending, refused>>
=============================================================================
