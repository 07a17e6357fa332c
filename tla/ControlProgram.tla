--------------------------- MODULE ControlProgram ---------------------------
(***************************************************************************)
(* The scene control program (programs/control.rs): it starts, connects    *)
(* and closes programs on request, stops the scene, and tells subscribers  *)
(* which programs run and what they are connected to.                      *)
(*                                                                         *)
(* It does not look at the scene for that, but keeps its own view, which   *)
(* it builds from the SceneUpdates that programs and connections queue     *)
(* when they change: the view is behind the scene.  An action is the work  *)
(* of one critical section, or of one sink.  Which sinks a connection      *)
(* changes is the subject of Connections: here a request to connect has    *)
(* some outcome, and programs and other threads connect when they like.    *)
(***************************************************************************)
EXTENDS SubProgramTable, EventSubscribers

CONSTANTS Requests,    \* what the control program is asked: see RequestOK
          Connectable, \* <<source, target>> that programs and other threads connect
          Control,     \* SCENE_CONTROL_PROGRAM
          First,       \* the program that runs already when the behaviour begins
          Stopper,     \* the program that StopSceneWhenIdle starts
          MaxRequests, \* bound: requests other than Subscribe
          MaxSubscribes, \* bound: Subscribe requests
          MaxStarts,   \* bound: starts of programs
          MaxChanges   \* bound: connections that are changed

\* Requests name a program, or are "StopSceneWhenIdle" and "StopScene"; Connect has a
\* source, and a target that is a program or Disconnected.
RequestOK(r) ==
    \/ r.kind \in {"Start", "Close"} /\ r.program \in Programs
    \/ r.kind \in {"Subscribe", "Query"} /\ r.program \in Subscribers
    \/ r.kind = "Connect" /\ r.program \in Programs /\ r.target \in Programs \cup {Disconnected}
    \/ r.kind \in {"StopSceneWhenIdle", "StopScene"}

ASSUME ControlAssumption ==
    /\ \A r \in Requests : RequestOK(r)
    /\ Subscribers \subseteq Programs /\ Stopper \in Programs \ Subscribers /\ Control \notin Programs
    /\ First \in Programs \ {Stopper} /\ Nothing \notin Programs
    /\ Connectable \subseteq Programs \X (Programs \cup {Disconnected})
    /\ {MaxRequests, MaxSubscribes, MaxStarts, MaxChanges} \subseteq Nat

VARIABLES life,          \* per program: how far its process is
          control_input, \* requests in the control program's input stream
          updates,       \* SceneUpdates in its update stream
          started_subprograms, active_connections, \* the view it keeps
          pc,            \* what it does: "idle", "sending" an update, or the "state" of the scene
          target,        \*   the subscriber that it sends the state to
          to_start, to_connect, \* what is left to send of the state
          message,       \*   the update it sends
          stopped,       \* SceneCore::stopped
          subscribed,    \* history: programs whose subscription was taken in this life
          known,         \* history, per subscriber: the view that its updates add up to
          requests, subscribes, starts, changes \* number of requests, starts, changed connections

controlVars == <<control_input, updates, started_subprograms, active_connections, pc, target,
                 to_start, to_connect, message>>
history == <<subscribed, known>>
counters == <<requests, subscribes, starts, changes>>
controlProgramVars == <<vars, subscriberVars, life, controlVars, stopped, history, counters>>

\* A SceneUpdate.  The source of a connection is a program, which has one output here, or the
\* control program's output for one subscriber.
Update(kind, source, t) == [kind |-> kind, source |-> source, target |-> t]
ConnectionUpdate(source, t) ==
    IF t = Disconnected THEN Update("Disconnected", source, Nothing) ELSE Update("Connected", source, t)
OutputOf(g) == <<g>>
ControlOutput(p) == <<Control, p>>

Kinds == {"Started", "Stopped", "Connected", "Disconnected", "FailedConnection", "QueryResponse"}
Sources == Programs \cup {OutputOf(g) : g \in Programs} \cup {ControlOutput(p) : p \in Programs}
           \cup {Nothing}
Targets == Programs \cup {Disconnected, Nothing}
ASSUME NothingAssumption == Nothing \notin [kind : Kinds, source : Sources, target : Targets]

ControlTypeOK ==
    /\ life \in [Programs -> {"none", "started", "running", "stopping", "stopped"}]
    /\ Len(control_input) <= 1
    /\ \A i \in DOMAIN updates : updates[i].kind \in Kinds
    /\ started_subprograms \cup to_start \subseteq Programs
    /\ pc \in {"idle", "sending", "state"}
    /\ target \in Programs \cup {Nothing}
    /\ target # Nothing <=> pc = "state"
    /\ message # Nothing => pc # "idle" /\ message.kind \in Kinds
    /\ sending # {} => pc = "sending"
    /\ stopped \in BOOLEAN /\ subscribed \subseteq Subscribers
    /\ requests \in 0..MaxRequests /\ subscribes \in 0..MaxSubscribes
    /\ starts \in 0..MaxStarts /\ changes \in 0..MaxChanges

EmptyView == [programs |-> {}, connections |-> {}]
View == [programs |-> started_subprograms, connections |-> active_connections]

\* The first program has been started, and its start was told.
ControlInit ==
    /\ sub_programs = [h \in Handles |-> IF h = 0 THEN First ELSE None]
    /\ next_subprogram = 1 /\ panicked = None
    /\ handle_of = [g \in Programs |-> IF g = First THEN 0 ELSE None]
    /\ program_indexes = handle_of
    /\ life = [g \in Programs |-> IF g = First THEN "running" ELSE "none"]
    /\ NoSubscribers(<<Discard>>, {First} \cap Subscribers)
    /\ control_input = <<>> /\ updates = <<>>
    /\ started_subprograms = {First} /\ active_connections = {}
    /\ pc = "idle" /\ target = Nothing /\ to_start = {} /\ to_connect = {} /\ message = Nothing
    /\ stopped = FALSE /\ subscribed = {} /\ known = [p \in Subscribers |-> EmptyView]
    /\ requests = 0 /\ subscribes = 0 /\ starts = 0 /\ changes = 0

Able == panicked = None /\ ~stopped

----------------------------------------------------------------------------
(***************************************************************************)
(* The programs of the scene                                               *)
(***************************************************************************)
\* The input stream of a program that subscribes is open from its start to its end.
StreamOpens(g) == IF g \in Subscribers THEN OpenStream(g) ELSE UNCHANGED subscriberVars
StreamCloses(g, keeps) ==
    IF g \in Subscribers /\ stream[g] = "open" THEN CloseStream(g, keeps) ELSE UNCHANGED subscriberVars
StreamGoes(g) == IF g \in Subscribers THEN RemoveStream(g) ELSE UNCHANGED subscriberVars

\* start_subprogram, called by the control program or by a thread outside of the scene.
Started(g) ==
    /\ StartSubprogram(g) /\ StreamOpens(g)
    /\ life' = [life EXCEPT ![g] = "started"]
    /\ subscribed' = subscribed \ {g}
    /\ known' = [p \in Subscribers |-> IF p = g THEN EmptyView ELSE known[p]]

StartOutside(g) ==
    /\ Able /\ g # Stopper /\ starts < MaxStarts /\ starts' = starts + 1
    /\ Started(g)
    /\ UNCHANGED <<controlVars, stopped, requests, subscribes, changes>>

\* The first poll of the program's process tells that it has started.
Announce(g) ==
    /\ Able /\ life[g] = "started"
    /\ life' = [life EXCEPT ![g] = "running"]
    /\ updates' = Append(updates, Update("Started", g, Nothing))
    /\ UNCHANGED <<vars, subscriberVars, control_input, started_subprograms, active_connections, pc,
                   target, to_start, to_connect, message, stopped, history, counters>>

\* The program's future ends and drops its input stream.
EndProgram(g) ==
    /\ Able /\ life[g] = "running" /\ g # Stopper
    /\ life' = [life EXCEPT ![g] = "stopping"]
    /\ StreamCloses(g, FALSE)
    /\ UNCHANGED <<vars, controlVars, stopped, history, counters>>

\* The process then waits until it can tell that the program has stopped, ...
SendStopped(g) ==
    /\ Able /\ life[g] = "stopping" /\ updates = <<>>
    /\ life' = [life EXCEPT ![g] = "stopped"]
    /\ updates' = <<Update("Stopped", g, Nothing)>>
    /\ UNCHANGED <<vars, subscriberVars, control_input, started_subprograms, active_connections, pc,
                   target, to_start, to_connect, message, stopped, history, counters>>

\* Mutant: it does not wait.
MayLeave_Early(g) == life[g] \in {"stopping", "stopped"}

MayLeave(g) == life[g] = "stopped"

\* ... and only then leaves the scene.
LeaveScene(g) ==
    /\ Able /\ MayLeave(g)
    /\ FinishSubprogram(g) /\ StreamGoes(g)
    /\ life' = [life EXCEPT ![g] = "none"]
    /\ UNCHANGED <<controlVars, stopped, history, counters>>

\* The program that stops the scene is notified that it is idle, and asks for the stop.
NotifyStopper ==
    /\ Able /\ life[Stopper] = "running" /\ pc = "idle" /\ control_input = <<>> /\ updates = <<>>
    /\ life' = [life EXCEPT ![Stopper] = "stopping"]
    /\ control_input' = <<[kind |-> "StopScene"]>>
    /\ UNCHANGED <<vars, subscriberVars, updates, started_subprograms, active_connections, pc, target,
                   to_start, to_connect, message, stopped, history, counters>>

\* A running program connects its output, or another thread does.
ChangeConnection(g, t) ==
    /\ Able /\ changes < MaxChanges /\ life[g] = "running"
    /\ changes' = changes + 1
    /\ updates' = Append(updates, ConnectionUpdate(OutputOf(g), t))
    /\ UNCHANGED <<vars, subscriberVars, life, control_input, started_subprograms, active_connections,
                   pc, target, to_start, to_connect, message, stopped, history, requests, subscribes, starts>>

\* A request, if no other one is waiting; StopSceneWhenIdle is only the last (two bounds).
Request ==
    /\ Able /\ control_input = <<>>
    /\ \E r \in Requests :
           /\ control_input' = <<r>>
           /\ IF r.kind = "Subscribe"
              THEN subscribes < MaxSubscribes /\ subscribes' = subscribes + 1 /\ UNCHANGED requests
              ELSE requests < MaxRequests /\ requests' = requests + 1 /\ UNCHANGED subscribes
           /\ r.kind = "StopSceneWhenIdle" => requests' = MaxRequests
    /\ UNCHANGED <<vars, subscriberVars, life, updates, started_subprograms, active_connections, pc,
                   target, to_start, to_connect, message, stopped, history, starts, changes>>

\* A program that subscribed reads.
ReadUpdate(p) ==
    /\ Able /\ life[p] = "running" /\ ReadEvent(p)
    /\ UNCHANGED <<vars, life, controlVars, stopped, history, counters>>

----------------------------------------------------------------------------
(***************************************************************************)
(* The requests.  The control program takes one when it is idle.           *)
(***************************************************************************)
Takes(r) == Able /\ pc = "idle" /\ control_input # <<>> /\ Head(control_input) = r
            /\ control_input' = Tail(control_input)
StaysIdle == UNCHANGED <<pc, target, to_start, to_connect, message>>
ViewKept == UNCHANGED <<started_subprograms, active_connections>>

TakeStart(r) ==
    /\ r.kind = "Start" /\ Takes(r) /\ StaysIdle /\ ViewKept
    /\ \/ Started(r.program)
       \/ StartRefused(r.program) /\ UNCHANGED <<subscriberVars, life, history>>
    /\ UNCHANGED <<updates, stopped, counters>>

\* connect_programs succeeds: an update tells of the sink of the source, if there is one.
TakeConnect(r) ==
    /\ r.kind = "Connect" /\ Takes(r) /\ StaysIdle /\ ViewKept
    /\ updates' = IF life[r.program] = "none" THEN updates
                  ELSE Append(updates, ConnectionUpdate(OutputOf(r.program), r.target))
    /\ UNCHANGED <<vars, subscriberVars, life, stopped, history, counters>>

\* It fails: the failure is queued as an update and is also sent right away.
TakeFailingConnect(r) ==
    /\ r.kind = "Connect" /\ Takes(r) /\ ViewKept
    /\ BeginSend
    /\ pc' = "sending" /\ message' = Update("FailedConnection", r.program, r.target)
    /\ updates' = Append(updates, message')
    /\ UNCHANGED <<vars, life, target, to_start, to_connect, stopped, history, counters>>

\* The program that has the handle of r.program is the one whose input stream is closed.
TakeClose(r) ==
    /\ r.kind = "Close" /\ Takes(r) /\ StaysIdle /\ ViewKept
    /\ IF GetSubProgram(r.program) = None THEN UNCHANGED subscriberVars
       ELSE StreamCloses(GetSubProgram(r.program), TRUE)
    /\ UNCHANGED <<vars, life, updates, stopped, history, counters>>

TakeStopWhenIdle(r) ==
    /\ r.kind = "StopSceneWhenIdle" /\ Takes(r) /\ StaysIdle /\ ViewKept
    /\ Started(Stopper)
    /\ UNCHANGED <<updates, stopped, counters>>

TakeStop(r) ==
    /\ r.kind = "StopScene" /\ Takes(r) /\ StaysIdle /\ ViewKept
    /\ stopped' = TRUE
    /\ UNCHANGED <<vars, subscriberVars, life, updates, history, counters>>

\* context.send(p) fails if p has left the scene and the control program has no sink for it.
Reachable(p) == sink[p] # Nothing \/ program_indexes[p] = None \/ GetSubProgram(p) # None

\* A new sink is reported like that of any program.
UpdatesAfterContextSend(p) ==
    IF sink[p] # Nothing THEN updates
    ELSE Append(updates, ConnectionUpdate(ControlOutput(p), IF stream[p] = "gone" THEN Disconnected ELSE p))

\* Mutant: the state is that of the scene, not of the view.
ProgramsToSend_Scene == GetRunningSubprograms

ProgramsToSend == started_subprograms

\* Subscribe: the subscriber is added before it is sent the state.
TakeSubscribe(r) ==
    /\ r.kind = "Subscribe" /\ Takes(r) /\ ViewKept
    /\ SubscribeTo(r.program, Reachable(r.program))
    /\ IF Reachable(r.program)
       THEN /\ pc' = "state" /\ target' = r.program
            /\ to_start' = ProgramsToSend /\ to_connect' = active_connections
            /\ updates' = UpdatesAfterContextSend(r.program)
       ELSE UNCHANGED <<pc, target, to_start, to_connect, updates>>
    /\ subscribed' = IF stream[r.program] = "open" THEN subscribed \cup {r.program} ELSE subscribed
    /\ UNCHANGED <<vars, life, message, stopped, known, counters>>

\* Query: the response, which is read from the scene itself, is one message.
TakeQuery(r) ==
    /\ r.kind = "Query" /\ Takes(r) /\ ViewKept
    /\ IF Reachable(r.program)
       THEN /\ pc' = "state" /\ target' = r.program /\ message' = Update("QueryResponse", Nothing, Nothing)
            /\ sink' = SinkAfterContextSend(r.program)
            /\ updates' = UpdatesAfterContextSend(r.program)
       ELSE UNCHANGED <<pc, target, message, sink, updates>>
    /\ UNCHANGED <<vars, receivers, stream, inbox, sending, refused, life, to_start,
                   to_connect, stopped, history, counters>>

----------------------------------------------------------------------------
(***************************************************************************)
(* Sending the state of the scene, and updates                             *)
(***************************************************************************)
\* A view after an update.
Keyed(connections, source) == {c \in connections : c[1] = source}
ProgramsAfter(programs, u) ==
    CASE u.kind = "Started" -> programs \cup {u.source}
      [] u.kind = "Stopped" -> programs \ {u.source}
      [] OTHER -> programs
ConnectionsAfter(connections, u) ==
    CASE u.kind = "Connected" -> (connections \ Keyed(connections, u.source)) \cup {<<u.source, u.target>>}
      [] u.kind = "Disconnected" -> connections \ Keyed(connections, u.source)
      [] OTHER -> connections
Updated(view, u) ==
    [programs |-> ProgramsAfter(view.programs, u), connections |-> ConnectionsAfter(view.connections, u)]

KnownAfter(p) == IF p = Discard THEN known ELSE [known EXCEPT ![p] = Updated(@, message)]

\* A program of the view is looked up before the subscriber is told of it.
NextProgram(g) ==
    /\ Able /\ pc = "state" /\ message = Nothing /\ g \in to_start
    /\ to_start' = to_start \ {g}
    /\ message' = IF GetSubProgram(g) = None THEN Nothing ELSE Update("Started", g, Nothing)
    /\ UNCHANGED <<vars, subscriberVars, life, control_input, updates, started_subprograms,
                   active_connections, pc, target, to_connect, stopped, history, counters>>

NextConnection(c) ==
    /\ Able /\ pc = "state" /\ message = Nothing /\ to_start = {} /\ c \in to_connect
    /\ to_connect' = to_connect \ {c}
    /\ message' = Update("Connected", c[1], c[2])
    /\ UNCHANGED <<vars, subscriberVars, life, control_input, updates, started_subprograms,
                   active_connections, pc, target, to_start, stopped, history, counters>>

\* The subscriber takes the message, or the error is ignored.
SendState ==
    /\ Able /\ pc = "state" /\ message # Nothing
    /\ \/ Accepts(target) /\ inbox' = InboxAfter(target) /\ known' = KnownAfter(target) /\ UNCHANGED sink
       \/ Refuses(target) /\ sink' = SinkAfterRefusal(target) /\ UNCHANGED <<inbox, known>>
    /\ message' = Nothing
    /\ UNCHANGED <<vars, receivers, stream, sending, refused, life, control_input, updates,
                   started_subprograms, active_connections, pc, target, to_start, to_connect, stopped,
                   subscribed, counters>>

StateSent ==
    /\ Able /\ pc = "state" /\ message = Nothing /\ to_start = {} /\ to_connect = {}
    /\ pc' = "idle" /\ target' = Nothing
    /\ UNCHANGED <<vars, subscriberVars, life, control_input, updates, started_subprograms,
                   active_connections, to_start, to_connect, message, stopped, history, counters>>

\* An update changes the view and is sent on.
TakeUpdate ==
    /\ Able /\ pc = "idle" /\ updates # <<>>
    /\ message' = Head(updates) /\ updates' = Tail(updates) /\ pc' = "sending"
    /\ started_subprograms' = Updated(View, Head(updates)).programs
    /\ active_connections' = Updated(View, Head(updates)).connections
    /\ BeginSend
    /\ UNCHANGED <<vars, life, control_input, target, to_start, to_connect, stopped, history, counters>>

SendUpdate(i) ==
    /\ Able /\ pc = "sending"
    /\ \/ DeliverTo(i) /\ known' = KnownAfter(receivers[i])
       \/ RefusedBy(i) /\ UNCHANGED known
    /\ UNCHANGED <<vars, life, controlVars, stopped, subscribed, counters>>

UpdateSent ==
    /\ Able /\ pc = "sending" /\ EndSend
    /\ pc' = "idle" /\ message' = Nothing
    /\ UNCHANGED <<vars, life, control_input, updates, started_subprograms, active_connections, target,
                   to_start, to_connect, stopped, history, counters>>

----------------------------------------------------------------------------
TakeRequest(r) == \/ TakeStart(r) \/ TakeConnect(r) \/ TakeFailingConnect(r) \/ TakeClose(r)
                  \/ TakeStopWhenIdle(r) \/ TakeStop(r) \/ TakeSubscribe(r) \/ TakeQuery(r)

ControlStep ==
    \/ \E r \in Requests \cup {[kind |-> "StopScene"]} : TakeRequest(r)
    \/ \E g \in to_start : NextProgram(g)
    \/ \E c \in to_connect : NextConnection(c)
    \/ SendState \/ StateSent \/ TakeUpdate \/ UpdateSent
    \/ \E i \in sending : SendUpdate(i)

ProcessStep(g) == Announce(g) \/ SendStopped(g) \/ LeaveScene(g)

ControlNext ==
    \/ ControlStep \/ Request \/ NotifyStopper
    \/ \E g \in Programs : ProcessStep(g) \/ StartOutside(g) \/ EndProgram(g)
    \/ \E c \in Connectable : ChangeConnection(c[1], c[2])
    \/ \E p \in Subscribers : ReadUpdate(p)

ControlSpec == ControlInit /\ [][ControlNext]_controlProgramVars

\* The processes of programs that are awake are polled, and subscribers read.
FairControlSpec ==
    /\ ControlSpec /\ WF_controlProgramVars(ControlStep)
    /\ \A g \in Programs : WF_controlProgramVars(ProcessStep(g))
    /\ \A p \in Subscribers : WF_controlProgramVars(ReadUpdate(p))

----------------------------------------------------------------------------
(***************************************************************************)
(* Properties                                                              *)
(***************************************************************************)
\* The updates add up (scene_control_program, "so that if we're starting a subscription we won't
\* send a pending update more than once"): whenever the control program is idle, what a running
\* subscriber has been told, by the state it was sent and the updates after it, is the control
\* program's view, up to programs that had left the scene already when the state was sent and
\* whose end is still to be told.
SubscriberIsCurrent ==
    pc = "idle" => \A p \in subscribed : stream[p] = "open" =>
        /\ known[p].connections = active_connections
        /\ known[p].programs \subseteq started_subprograms
        /\ \A g \in started_subprograms \ known[p].programs :
               \E i \in DOMAIN updates : updates[i] = Update("Stopped", g, Nothing)

\* What the control program knows of its subscribers, and they of it, in every state.
SubscriptionsAreSound ==
    TypeOK /\ SubscribersTypeOK /\ ControlTypeOK /\ SubscriberIsCurrent

\* When no update is waiting, the view is true: the programs in it are those that told of
\* their start and not of their end, however often they were stopped and started again, and
\* whatever the control program was busy with meanwhile.
ViewIsTrue ==
    Able /\ updates = <<>> => started_subprograms = {g \in Programs : life[g] \in {"running", "stopping"}}

WaitsForTheDead ==
    \/ pc = "state" /\ target # Nothing /\ sink[target] = Disconnected
    \/ pc = "sending" /\ \E i \in sending : receivers[i] # Discard /\ sink[receivers[i]] = Disconnected

\* The control program comes back to its input, and a program that ends gets out of the scene,
\* unless the control program waits for a subscriber that has ended: then the sink is
\* disconnected, and the send waits until that subscriber is started again.
ControlReturns ==
    /\ pc # "idle" ~> pc = "idle" \/ WaitsForTheDead \/ ~Able
    /\ \A g \in Programs : life[g] = "stopping" ~> life[g] = "none" \/ WaitsForTheDead \/ ~Able
=============================================================================
