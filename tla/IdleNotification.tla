-------------------------- MODULE IdleNotification --------------------------
(***************************************************************************)
(* How a scene finds out that it is idle, and tells the programs that want *)
(* to know: SceneCore::check_if_idle and notify_on_next_idle, the program  *)
(* idle_subprogram (idle_request.rs) and SceneContext::wait_for_idle.      *)
(*                                                                         *)
(* Runner threads poll the programs' processes and check for idleness when *)
(* no process is awake; a thread outside of the scene may poll a program's *)
(* process too (OutputSink::try_flush_immediate).  check_if_idle releases  *)
(* the core's lock between its steps, so the scene moves on under it: each *)
(* of its critical sections is an action.  The scheduler and the streams   *)
(* are reduced to what the check looks at: processes that are awake or     *)
(* being polled, queues (without back pressure) and their idle flags.      *)
(*                                                                         *)
(* The notifiers are `futures' channels.  check_if_idle sends to a fresh   *)
(* clone of the Sender, which has a slot of its own, so they never fill.   *)
(***************************************************************************)
EXTENDS Integers, Sequences, FiniteSets

CONSTANTS Programs,      \* programs other than the idle program
          IdleProgram,   \* IDLE_NOTIFICATION_PROGRAM
          Runners,       \* threads that run the scene
          Outside,       \* threads that do not
          Situations,    \* scenes to begin with: their runners, programs, and bound on calls
          None

All == Programs \cup {IdleProgram}
Threads == Runners \cup Outside

ASSUME IdleAssumption ==
    /\ IdleProgram \notin Programs /\ Runners \cap Outside = {}
    /\ Situations \subseteq [runners : SUBSET Runners, programs : SUBSET Programs, calls : Nat]
    /\ None \notin Threads \cup Nat \cup Seq(Nat)

VARIABLES
    is_awake,         \* SceneProcess::is_awake, per program
    polled_by,        \* the thread polling the program's process, or None
    queue,            \* InputStreamCore::waiting_messages
    idle,             \* InputStreamCore::idle; also: the reader's waker is registered
    waiting_for_idle, \* the program's input stream is marked as waiting for idle
    state,            \* what the program's code is doing
    notify_when_idle, \* SceneCore
    idle_count,       \* SceneCore
    when_idle,        \* SceneCore: <<program, channel number>> pairs
    channel,          \* per program: number of the channel it created last
    recv,             \* per program: the counts in that channel; None if it was dropped
    asked,            \* wait_for_idle's idle_count
    pending_notifications, \* idle_subprogram: the requests not yet answered, <<count, program>>.
                           \* No two have the same count: asking for a notification increments it.
    suppressions,     \* idle_subprogram
    runner,           \* what each runner is doing
    parked, woken,    \* its thread waker is stored; was invoked
    check,            \* per thread: its check_if_idle in progress
    calls,            \* calls that the programs, and outside threads, may still make
    idle_seen,        \* history: threads whose check has lasted through an idle moment
    has_awaited,      \* history: a program has awaited something else than input or idleness
    unchecked         \* history: a stolen poll has returned since the last check began

processVars == <<is_awake, polled_by, runner, parked, woken>>
inputVars == <<queue, idle>>
waitVars == <<waiting_for_idle, asked>>
coreVars == <<notify_when_idle, idle_count, when_idle>>
channelVars == <<channel, recv>>
idleProgramVars == <<pending_notifications, suppressions>>
stepVars == <<processVars, inputVars, waitVars, state, coreVars, channelVars, idleProgramVars,
              check, calls>>
vars == <<stepVars, idle_seen, has_awaited, unchecked>>

Requests == [kind : {"when_idle", "suppress", "resume"}, from : Programs]
Work == [kind |-> "work"]
Notification == [kind |-> "IdleNotification"]
MessagesTo(g) == IF g = IdleProgram THEN Requests ELSE {Work, Notification}
NoCheck == [pc |-> "none"]
Checks == {NoCheck} \cup [pc : {"inputs"}, count : Nat, todo : SUBSET All]
          \cup [pc : {"claim"}, count : Nat] \cup [pc : {"notify"}, count : Nat, to : SUBSET (All \X Nat)]

TypeOK ==
    /\ is_awake \in [All -> BOOLEAN] /\ idle \in [All -> BOOLEAN]
    /\ polled_by \in [All -> Threads \cup {None}]
    /\ DOMAIN queue = All /\ \A g \in All : queue[g] \in Seq(MessagesTo(g))
    /\ waiting_for_idle \in [All -> BOOLEAN]
    /\ state \in [All -> {"absent", "starting", "reading", "handling", "away", "wait_register", "wait_check",
                          "waiting"}]
    /\ notify_when_idle \in BOOLEAN /\ idle_count \in Nat
    /\ when_idle \in SUBSET (All \X Nat)
    /\ channel \in [All -> Nat] /\ recv \in [All -> Seq(Nat) \cup {None}]
    /\ asked \in [Programs -> Nat \cup {None}]
    /\ pending_notifications \subseteq Nat \X Programs /\ IsFiniteSet(pending_notifications)
    /\ suppressions \in [Programs -> Nat]
    /\ runner \in [Runners -> {"loop", "check", "asleep"}]
    /\ parked \in [Runners -> BOOLEAN] /\ woken \in [Runners -> BOOLEAN]
    /\ check \in [Threads -> Checks]
    /\ calls \in Nat
    /\ idle_seen \subseteq Threads /\ {has_awaited, unchecked} \subseteq BOOLEAN

----------------------------------------------------------------------------
(***************************************************************************)
(* The scene around the check                                              *)
(***************************************************************************)
Suppressed == \E g \in Programs : suppressions[g] > 0

\* Mutant: a program that waits for idleness is not idle itself.
IsIdle_NotWaiting(g) == idle[g] /\ queue[g] = <<>>

\* InputStreamCore::is_idle
IsIdle(g) == (idle[g] /\ queue[g] = <<>>) \/ waiting_for_idle[g]

Asleep(g) == ~is_awake[g] /\ polled_by[g] = None

\* The processes of the programs in S are woken.  Each wake takes one stored thread waker.
Wake(S) ==
    /\ is_awake' = [g \in All |-> is_awake[g] \/ g \in S]
    /\ \E T \in SUBSET {t \in Runners : parked[t]} :
          /\ \/ Cardinality(T) = Cardinality(S)
             \/ Cardinality(T) < Cardinality(S) /\ T = {t \in Runners : parked[t]}
          /\ parked' = [t \in Runners |-> parked[t] /\ t \notin T]
          /\ woken' = [t \in Runners |-> woken[t] \/ t \in T]

\* Messages are queued: m[g] for each program g in DOMAIN m.
SendEach(m) ==
    /\ queue' = [g \in All |-> IF g \in DOMAIN m THEN queue[g] \o m[g] ELSE queue[g]]
    /\ idle' = [g \in All |-> idle[g] /\ g \notin DOMAIN m]
    /\ Wake({g \in DOMAIN m : idle[g]})

Call == calls > 0 /\ calls' = calls - 1

\* Thread a runs the code of g.
Runs(a, g) == polled_by[g] = a /\ check[a] = NoCheck

\* g's poll by thread a returns Pending.  A runner goes back to its loop; a thief
\* wakes the process if it is awake.
ReturnPending(a, g) ==
    /\ polled_by' = [polled_by EXCEPT ![g] = None]
    /\ IF a \in Outside /\ is_awake[g]
       THEN Wake({g})
       ELSE UNCHANGED <<is_awake, parked, woken>>
    /\ UNCHANGED runner

NotifyOnNextIdle ==
    /\ notify_when_idle' = TRUE
    /\ idle_count' = idle_count + 1

----------------------------------------------------------------------------
(***************************************************************************)
(* Programs                                                                *)
(***************************************************************************)
\* poll_next of g's input stream returns a message.
Receive(a, g) ==
    /\ Runs(a, g) /\ state[g] = "reading" /\ queue[g] # <<>>
    /\ queue' = [queue EXCEPT ![g] = Tail(@)]
    /\ idle' = [idle EXCEPT ![g] = FALSE]
    /\ state' = [state EXCEPT ![g] = "handling"]
    /\ UNCHANGED <<processVars, waitVars, coreVars, channelVars, idleProgramVars, check, calls>>

\* Mutant: the stream is not marked as idle.
IdleAfterPending_Kept(g) == idle

IdleAfterPending(g) == [idle EXCEPT ![g] = TRUE]

\* g waits for a message (and IdleProgram for a notification as well).
PollNextPending(a, g) ==
    /\ Runs(a, g) /\ state[g] = "reading" /\ queue[g] = <<>>
    /\ g = IdleProgram => recv[g] = <<>>
    /\ idle' = IdleAfterPending(g)
    /\ ReturnPending(a, g)
    /\ UNCHANGED <<queue, waitVars, state, coreVars, channelVars, idleProgramVars, check, calls>>

Handled(a, g) ==
    /\ Runs(a, g) /\ state[g] = "handling"
    /\ state' = [state EXCEPT ![g] = "reading"]
    /\ UNCHANGED <<processVars, inputVars, waitVars, coreVars, channelVars, idleProgramVars, check, calls>>

\* The code of g sends a message to another program, or a request to the idle program.
Send(a, g) ==
    /\ Runs(a, g) /\ state[g] = "handling" /\ Call
    /\ \/ \E h \in Programs \ {g} : state[h] # "absent" /\ SendEach([x \in {h} |-> <<Work>>])
       \/ \E r \in Requests : r.from = g /\ SendEach([x \in {IdleProgram} |-> <<r>>])
    /\ UNCHANGED <<polled_by, runner, waitVars, state, coreVars, channelVars, idleProgramVars, check>>

\* g awaits something else, a timer say, which comes to an end later.
AwaitOther(a, g) ==
    /\ Runs(a, g) /\ state[g] = "handling" /\ Call
    /\ state' = [state EXCEPT ![g] = "away"]
    /\ ReturnPending(a, g)
    /\ UNCHANGED <<inputVars, waitVars, coreVars, channelVars, idleProgramVars, check>>

OtherHappens(g) ==
    /\ state[g] = "away" /\ polled_by[g] = None
    /\ state' = [state EXCEPT ![g] = "handling"]
    /\ Wake({g})
    /\ UNCHANGED <<polled_by, runner, inputVars, waitVars, coreVars, channelVars, idleProgramVars, check, calls>>

\* A poll that finds nothing to do.
StillAway(a, g) ==
    /\ Runs(a, g) /\ \/ state[g] = "away"
                     \/ state[g] = "waiting" /\ recv[g] = <<>>
    /\ ReturnPending(a, g)
    /\ UNCHANGED <<inputVars, waitVars, state, coreVars, channelVars, idleProgramVars, check, calls>>

----------------------------------------------------------------------------
(***************************************************************************)
(* SceneContext::wait_for_idle                                             *)
(***************************************************************************)
\* The input is marked as waiting, and the sender of a new channel is left with the core.
WaitForIdle(a, g) ==
    /\ Runs(a, g) /\ state[g] = "handling" /\ Call
    /\ waiting_for_idle' = [waiting_for_idle EXCEPT ![g] = TRUE]
    /\ channel' = [channel EXCEPT ![g] = @ + 1]
    /\ recv' = [recv EXCEPT ![g] = <<>>]
    /\ when_idle' = when_idle \cup {<<g, channel[g] + 1>>}
    /\ state' = [state EXCEPT ![g] = "wait_register"]
    /\ UNCHANGED <<processVars, inputVars, asked, notify_when_idle, idle_count,
                   idleProgramVars, check>>

\* A notification is asked for.
WaitAsks(a, g) ==
    /\ Runs(a, g) /\ state[g] = "wait_register"
    /\ NotifyOnNextIdle
    /\ asked' = [asked EXCEPT ![g] = idle_count]
    /\ state' = [state EXCEPT ![g] = "wait_check"]
    /\ UNCHANGED <<processVars, inputVars, waiting_for_idle, when_idle, channelVars,
                   idleProgramVars, check, calls>>

\* A count arrives.  One that is too old is answered by asking again.
WaitReceives(a, g) ==
    /\ Runs(a, g) /\ state[g] = "waiting" /\ recv[g] # <<>>
    /\ IF Head(recv[g]) >= asked[g]
       THEN /\ waiting_for_idle' = [waiting_for_idle EXCEPT ![g] = FALSE]
            /\ recv' = [recv EXCEPT ![g] = None]
            /\ state' = [state EXCEPT ![g] = "handling"]
            /\ UNCHANGED <<notify_when_idle, idle_count>>
       ELSE /\ recv' = [recv EXCEPT ![g] = Tail(@)]
            /\ NotifyOnNextIdle
            /\ UNCHANGED <<waiting_for_idle, state>>
    /\ UNCHANGED <<processVars, inputVars, asked, when_idle, channel, idleProgramVars, check, calls>>

----------------------------------------------------------------------------
(***************************************************************************)
(* idle_subprogram                                                         *)
(***************************************************************************)
\* The first poll creates the channel on which the core sends its notifications.
IdleProgramStarts(a) ==
    /\ Runs(a, IdleProgram) /\ state[IdleProgram] = "starting"
    /\ state' = [state EXCEPT ![IdleProgram] = "reading"]
    /\ channel' = [channel EXCEPT ![IdleProgram] = 1]
    /\ recv' = [recv EXCEPT ![IdleProgram] = <<>>]
    /\ when_idle' = when_idle \cup {<<IdleProgram, 1>>}
    /\ UNCHANGED <<processVars, inputVars, waitVars, notify_when_idle, idle_count,
                   idleProgramVars, check, calls>>

\* stream::select polls the requests first and finds none.
IdleProgramPollsInput(a) ==
    /\ Runs(a, IdleProgram) /\ state[IdleProgram] = "reading" /\ queue[IdleProgram] = <<>>
    /\ ~idle[IdleProgram]
    /\ idle' = IdleAfterPending(IdleProgram)
    /\ UNCHANGED <<processVars, queue, waitVars, state, coreVars, channelVars, idleProgramVars,
                   check, calls>>

WhenIdle(r) ==
    /\ r.kind = "when_idle"
    /\ NotifyOnNextIdle
    /\ pending_notifications' = pending_notifications \cup {<<idle_count, r.from>>}
    /\ UNCHANGED suppressions

SuppressNotifications(r) ==
    /\ r.kind = "suppress"
    /\ suppressions' = [suppressions EXCEPT ![r.from] = @ + 1]
    /\ UNCHANGED <<notify_when_idle, idle_count, pending_notifications>>

\* Mutant: the last suppression ends without a new notification being asked for.
AskAfterResume_Never(r) == UNCHANGED <<notify_when_idle, idle_count>>

AskAfterResume(r) == IF suppressions[r.from] = 1 THEN NotifyOnNextIdle
                     ELSE UNCHANGED <<notify_when_idle, idle_count>>

SuppressionsAfterResume(r) == [suppressions EXCEPT ![r.from] = IF @ > 0 THEN @ - 1 ELSE @]

ResumeNotifications(r) ==
    /\ r.kind = "resume"
    /\ suppressions' = SuppressionsAfterResume(r)
    /\ AskAfterResume(r)
    /\ UNCHANGED pending_notifications

IdleProgramRequest(a) ==
    /\ Runs(a, IdleProgram) /\ state[IdleProgram] = "reading" /\ queue[IdleProgram] # <<>>
    /\ queue' = [queue EXCEPT ![IdleProgram] = Tail(@)]
    /\ idle' = [idle EXCEPT ![IdleProgram] = FALSE]
    /\ LET r == Head(queue[IdleProgram])
       IN WhenIdle(r) \/ SuppressNotifications(r) \/ ResumeNotifications(r)
    /\ UNCHANGED <<processVars, waitVars, state, when_idle, channelVars, check, calls>>

Before(count) == {n \in pending_notifications : n[1] < count}
NotBefore(count) == {n \in pending_notifications : n[1] >= count}

\* CoreIsIdle(count): the requests made before that count are answered, unless suppressed.
CoreIsIdle(a) ==
    LET count == Head(recv[IdleProgram])
        ready == Before(count)
    IN
    /\ Runs(a, IdleProgram) /\ state[IdleProgram] = "reading" /\ recv[IdleProgram] # <<>>
    /\ recv' = [recv EXCEPT ![IdleProgram] = Tail(@)]
    /\ IF Suppressed
       THEN UNCHANGED <<pending_notifications, notify_when_idle, idle_count, inputVars,
                        is_awake, parked, woken>>
       ELSE /\ pending_notifications' = NotBefore(count)
            /\ IF NotBefore(count) # {} THEN NotifyOnNextIdle
               ELSE UNCHANGED <<notify_when_idle, idle_count>>
            /\ SendEach([g \in {n[2] : n \in ready} |->
                            [i \in 1..Cardinality({n \in ready : n[2] = g}) |-> Notification]])
    /\ UNCHANGED <<polled_by, runner, waitVars, state, when_idle, channel, suppressions, check, calls>>

----------------------------------------------------------------------------
(***************************************************************************)
(* SceneCore::check_if_idle, by thread a                                   *)
(***************************************************************************)
\* The runners that poll nothing and find no process awake, after storing their
\* thread waker; and the programs in wait_for_idle.
AboutToCheck(a) ==
    /\ check[a] = NoCheck
    /\ \/ a \in Runners /\ runner[a] = "check"
       \/ \E g \in All : polled_by[g] = a /\ state[g] = "wait_check"

\* What the caller does when check_if_idle has returned.
CheckReturns(a, notified) ==
    /\ check' = [check EXCEPT ![a] = NoCheck]
    /\ IF a \in Runners /\ runner[a] = "check"
       THEN /\ runner' = [runner EXCEPT ![a] = IF notified THEN "loop" ELSE "asleep"]
            /\ UNCHANGED state
       ELSE /\ state' = [g \in All |-> IF polled_by[g] = a THEN "waiting" ELSE state[g]]
            /\ UNCHANGED runner

CheckStart(a) ==
    /\ AboutToCheck(a)
    /\ IF notify_when_idle
       THEN /\ idle_count' = idle_count + 1
            /\ check' = [check EXCEPT ![a] = [pc |-> "inputs", count |-> idle_count + 1,
                                             todo |-> {g \in All : state[g] # "absent"}]]
            /\ UNCHANGED <<runner, state>>
       ELSE /\ CheckReturns(a, FALSE)
            /\ UNCHANGED idle_count
    /\ UNCHANGED <<is_awake, polled_by, parked, woken, inputVars, waitVars, notify_when_idle,
                   when_idle, channelVars, idleProgramVars, calls>>

\* One input is looked at, under its own lock.  (Its place in the table is arbitrary.)
CheckInput(a, g) ==
    /\ check[a].pc = "inputs" /\ g \in check[a].todo
    /\ IF IsIdle(g)
       THEN /\ check' = [check EXCEPT ![a].todo = @ \ {g}]
            /\ UNCHANGED <<runner, state>>
       ELSE CheckReturns(a, FALSE)
    /\ UNCHANGED <<is_awake, polled_by, parked, woken, inputVars, waitVars, coreVars, channelVars,
                   idleProgramVars, calls>>

\* Mutant: a process that is being polled counts as idle.
AllProcessesIdle_Awake == \A g \in All : ~is_awake[g]

AllProcessesIdle == \A g \in All : Asleep(g)

CheckProcesses(a) ==
    /\ check[a].pc = "inputs" /\ check[a].todo = {}
    /\ IF AllProcessesIdle
       THEN /\ check' = [check EXCEPT ![a] = [pc |-> "claim", count |-> check[a].count]]
            /\ UNCHANGED <<runner, state>>
       ELSE CheckReturns(a, FALSE)
    /\ UNCHANGED <<is_awake, polled_by, parked, woken, inputVars, waitVars, coreVars, channelVars,
                   idleProgramVars, calls>>

\* Nothing else has asked or checked since: the notification is ours to send.
CheckClaim(a) ==
    /\ check[a].pc = "claim"
    /\ IF idle_count = check[a].count /\ notify_when_idle
       THEN /\ notify_when_idle' = FALSE
            /\ check' = [check EXCEPT ![a] = [pc |-> "notify", count |-> check[a].count, to |-> when_idle]]
            /\ UNCHANGED <<runner, state>>
       ELSE /\ CheckReturns(a, FALSE)
            /\ UNCHANGED notify_when_idle
    /\ UNCHANGED <<is_awake, polled_by, parked, woken, inputVars, waitVars, idle_count, when_idle,
                   channelVars, idleProgramVars, calls>>

\* The count is sent on one channel, if its receiver still exists.
CheckNotify(a) ==
    \E n \in (IF check[a].pc = "notify" THEN check[a].to ELSE {}) :
        /\ check' = [check EXCEPT ![a].to = @ \ {n}]
        /\ IF channel[n[1]] = n[2] /\ recv[n[1]] # None
           THEN /\ recv' = [recv EXCEPT ![n[1]] = Append(@, check[a].count)]
                /\ Wake({n[1]} \cap {g \in All : state[g] \in {"reading", "waiting"}})
           ELSE UNCHANGED <<recv, is_awake, parked, woken>>
        /\ UNCHANGED <<polled_by, runner, inputVars, waitVars, state, coreVars, channel,
                       idleProgramVars, calls>>

\* The channels found closed are removed from the core.
CheckDone(a) ==
    /\ check[a].pc = "notify" /\ check[a].to = {}
    /\ when_idle' = {n \in when_idle : channel[n[1]] = n[2] /\ recv[n[1]] # None}
    /\ CheckReturns(a, TRUE)
    /\ UNCHANGED <<is_awake, polled_by, parked, woken, inputVars, waitVars, notify_when_idle,
                   idle_count, channelVars, idleProgramVars, calls>>

----------------------------------------------------------------------------
(***************************************************************************)
(* The threads                                                             *)
(***************************************************************************)
Polling(a) == \E g \in All : polled_by[g] = a

AtLoop(t) == runner[t] = "loop" /\ ~Polling(t)

RunnerPolls(t, g) ==
    /\ AtLoop(t) /\ is_awake[g] /\ polled_by[g] = None
    /\ is_awake' = [is_awake EXCEPT ![g] = FALSE]
    /\ polled_by' = [polled_by EXCEPT ![g] = t]
    /\ UNCHANGED <<runner, parked, woken, inputVars, waitVars, state, coreVars, channelVars,
                   idleProgramVars, check, calls>>

\* The awake list is empty: the runner's waker is stored, and it checks for idleness.
RunnerParks(t) ==
    /\ AtLoop(t) /\ \A g \in All : is_awake[g] => polled_by[g] # None
    /\ runner' = [runner EXCEPT ![t] = "check"]
    /\ parked' = [parked EXCEPT ![t] = TRUE]
    /\ UNCHANGED <<is_awake, polled_by, woken, inputVars, waitVars, state, coreVars, channelVars,
                   idleProgramVars, check, calls>>

RunnerResumes(t) ==
    /\ runner[t] = "asleep" /\ woken[t]
    /\ runner' = [runner EXCEPT ![t] = "loop"]
    /\ woken' = [woken EXCEPT ![t] = FALSE]
    /\ UNCHANGED <<is_awake, polled_by, parked, inputVars, waitVars, state, coreVars, channelVars,
                   idleProgramVars, check, calls>>

\* A message comes from outside of the scene.
OutsideSend(g) ==
    /\ Outside # {} /\ state[g] # "absent" /\ Call
    /\ SendEach([x \in {g} |-> <<Work>>])
    /\ UNCHANGED <<polled_by, runner, waitVars, state, coreVars, channelVars, idleProgramVars, check>>

\* try_flush_immediate, called by a thread outside of the scene: is_awake stays as it is.
OutsideSteal(o, g) ==
    /\ state[g] # "absent" /\ ~Polling(o) /\ polled_by[g] = None /\ Call
    /\ polled_by' = [polled_by EXCEPT ![g] = o]
    /\ UNCHANGED <<is_awake, runner, parked, woken, inputVars, waitVars, state, coreVars, channelVars,
                   idleProgramVars, check>>

----------------------------------------------------------------------------
\* A program that is not in the scene is idle, and a runner that is not there never wakes.
Present(s, g) == g \in s.programs \cup {IdleProgram}
Init ==
    \E s \in Situations :
    /\ is_awake = [g \in All |-> Present(s, g)]
    /\ polled_by = [g \in All |-> None]
    /\ queue = [g \in All |-> <<>>]
    /\ idle = [g \in All |-> ~Present(s, g)]
    /\ waiting_for_idle = [g \in All |-> FALSE]
    /\ state = [g \in All |-> IF g = IdleProgram THEN "starting"
                             ELSE IF Present(s, g) THEN "handling" ELSE "absent"]
    /\ notify_when_idle = FALSE /\ idle_count = 0 /\ when_idle = {}
    /\ channel = [g \in All |-> 0] /\ recv = [g \in All |-> None]
    /\ asked = [g \in Programs |-> None]
    /\ pending_notifications = {} /\ suppressions = [g \in Programs |-> 0]
    /\ runner = [t \in Runners |-> IF t \in s.runners THEN "loop" ELSE "asleep"]
    /\ parked = [t \in Runners |-> FALSE] /\ woken = [t \in Runners |-> FALSE]
    /\ check = [a \in Threads |-> NoCheck]
    /\ calls = s.calls
    /\ idle_seen = {} /\ has_awaited = FALSE /\ unchecked = FALSE

\* What the code of a program does while thread a polls it.
ProgramStep(a) ==
    \/ \E g \in Programs : \/ Receive(a, g) \/ Handled(a, g) \/ Send(a, g) \/ AwaitOther(a, g)
                           \/ StillAway(a, g)
                           \/ WaitForIdle(a, g) \/ WaitAsks(a, g) \/ WaitReceives(a, g)
    \/ \E g \in All : PollNextPending(a, g)
    \/ IdleProgramStarts(a) \/ IdleProgramPollsInput(a) \/ IdleProgramRequest(a) \/ CoreIsIdle(a)

CheckStep(a) ==
    \/ CheckStart(a) \/ CheckProcesses(a) \/ CheckClaim(a) \/ CheckNotify(a) \/ CheckDone(a)
    \/ \E g \in All : CheckInput(a, g)

RunnerStep(t) == RunnerParks(t) \/ RunnerResumes(t) \/ \E g \in All : RunnerPolls(t, g)

Step ==
    \/ \E a \in Threads : ProgramStep(a) \/ CheckStep(a)
    \/ \E t \in Runners : RunnerStep(t)
    \/ \E g \in Programs : OtherHappens(g) \/ OutsideSend(g)
    \/ \E o \in Outside, g \in All : OutsideSteal(o, g)

\* The scene is idle: no message is waiting or being handled, except by programs that
\* wait for idleness, and no process can run.
SceneIsIdle == \A g \in All : IsIdle(g) /\ Asleep(g)

\* The history variables follow every step.
Remember ==
    /\ has_awaited' = (has_awaited \/ \E g \in Programs : state'[g] = "away")
    /\ unchecked' =
          /\ \A a \in Threads : check'[a] # NoCheck => check[a] # NoCheck
          /\ unchecked \/ \E g \in All : polled_by[g] \in Outside /\ polled_by'[g] = None
    /\ idle_seen' = {a \in Threads : check'[a] # NoCheck /\ (a \in idle_seen \/ SceneIsIdle')}

Next == Step /\ Remember

Spec == Init /\ [][Next]_vars

\* A thread goes on with what it is doing, a woken runner is resumed, and what a
\* program awaits comes to an end.
FairSpec ==
    /\ Spec
    /\ \A a \in Threads : WF_vars((ProgramStep(a) \/ CheckStep(a)) /\ Remember)
    /\ \A t \in Runners : WF_vars(RunnerStep(t) /\ Remember)
    /\ \A g \in Programs : WF_vars(OtherHappens(g) /\ Remember)

(***************************************************************************)
(* Properties                                                              *)
(***************************************************************************)
\* check_if_idle notifies only if the scene has been idle at a moment of the check,
\* although the scene is not locked while the inputs are looked at one by one.
NotifiesOnlyWhenIdle ==
    ~has_awaited => \A a \in Threads : check[a].pc = "notify" => a \in idle_seen

\* A request to be told when the scene is idle is not forgotten: until it is answered, and
\* unless notifications are suppressed, the core has been asked for a notification, or
\* one is on its way to the idle program.
RequestNotForgotten ==
    pending_notifications # {} /\ ~Suppressed =>
        \/ notify_when_idle
        \/ recv[IdleProgram] # <<>>
        \/ \E a \in Threads : check[a].pc = "notify" /\ <<IdleProgram, 1>> \in check[a].to

\* The core's and the idle program's records of requests and suppressions agree.
RequestsAreKept == TypeOK /\ RequestNotForgotten

\* A runner sleeps through the end of a stolen poll and nobody else checks after it
\* (steal_thread_for_program only queues the process if it was woken meanwhile).  The
\* promises below are for a scene where, sooner or later, something runs again.
StolenPollsAreChecked == []<>~unchecked

\* `When the scene next becomes idle, send a message to the specified subprogram ID':
\* every request is answered, unless notifications are suppressed.
RequestIsAnswered ==
    StolenPollsAreChecked =>
        (pending_notifications # {} ~> (pending_notifications = {} \/ Suppressed))

\* A program that waits for the scene to be idle, or several of them, goes on in the end.
WaitEnds ==
    StolenPollsAreChecked => \A g \in Programs : state[g] = "waiting" ~> state[g] # "waiting"
=============================================================================
