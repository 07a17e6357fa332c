-------------------------- MODULE Programs_proofs --------------------------
(***************************************************************************)
(* Proofs about two parts of the scene that programs rely on: idle         *)
(* notifications (IdleNotification) and the timer program (TimerProgram).  *)
(*                                                                         *)
(* A notification means that the scene was idle, and no request for one is *)
(* forgotten, for any programs, runners and threads outside of the scene.  *)
(* The check looks at one input after the other, so by itself it says      *)
(* nothing about one moment.  What makes it right is that a process which  *)
(* sleeps has nothing to do (SleepersAreIdle): a message wakes its reader  *)
(* or finds it awake, and a poll ends only when the input is empty.  So at *)
(* the moment at which all processes are found asleep, all inputs are      *)
(* empty, the ones that were looked at before included.  A request is kept *)
(* because a check that clears notify_when_idle has the idle program's     *)
(* channel among those it notifies (IdleProgramListens).                   *)
(*                                                                         *)
(* The timer never sleeps through a timer, and its repeating timers keep   *)
(* to their beat, for any requests and any bounds.  The Delay is right     *)
(* because a timer that is put back after the poll has looked at the first *)
(* one finds the waker there, and so wakes the task (DelayIsSet); a timer  *)
(* has one turn because a request sets one, and a turn that is sent leaves *)
(* the list before it comes back (SerialsDiffer).                          *)
(***************************************************************************)
EXTENDS IdleNotification, TimerProgram, NaturalsInduction, FiniteSetTheorems, SequenceTheorems, TLAPS


\* A thread polls one process at a time, and none while it parks.
PollsAreExclusive ==
    /\ \A g, h \in All : polled_by[g] # None /\ polled_by[g] = polled_by[h] => g = h
    /\ \A t \in Runners : runner[t] = "check" => \A g \in All : polled_by[g] # t

Waiting == {"wait_register", "wait_check", "waiting"}

\* A check belongs to a runner that parks, or to a program that begins to wait.
ChecksHaveCallers ==
    \A a \in Threads : check[a] # NoCheck =>
        \/ a \in Runners /\ runner[a] = "check"
        \/ \E g \in All : polled_by[g] = a /\ state[g] = "wait_check"

\* A program that waits for idleness has told its input stream, and has its channel.
WaitersAreMarked ==
    \A g \in All : state[g] \in Waiting =>
        g \in Programs /\ waiting_for_idle[g] /\ recv[g] \in Seq(Nat)

\* The idle program has left the core the sender of its channel before it has requests.
IdleProgramListens ==
    \/ state[IdleProgram] = "starting" /\ pending_notifications = {}
    \/ /\ state[IdleProgram] = "reading"
       /\ channel[IdleProgram] = 1 /\ recv[IdleProgram] \in Seq(Nat)
       /\ <<IdleProgram, 1>> \in when_idle

\* A process that sleeps has nothing to do, or awaits something else.
SleepersAreIdle ==
    /\ \A g \in All : state[g] = "away" => has_awaited
    /\ ~has_awaited => \A g \in All : Asleep(g) => IsIdle(g)

\* From the moment all processes were found asleep, a check has seen the scene idle.
ClaimsSawIdle ==
    ~has_awaited => \A a \in Threads : check[a].pc \in {"claim", "notify"} => a \in idle_seen

IdleInv ==
    /\ TypeOK /\ PollsAreExclusive /\ ChecksHaveCallers /\ WaitersAreMarked
    /\ IdleProgramListens /\ SleepersAreIdle /\ ClaimsSawIdle /\ RequestNotForgotten

----------------------------------------------------------------------------
(* What the helpers leave behind. *)

\* A wake leaves every process awake that was, or that it is for.
LEMMA WakeAwakes ==
  ASSUME TypeOK, NEW S, Wake(S)
  PROVE  /\ is_awake' \in [All -> BOOLEAN]
         /\ parked' \in [Runners -> BOOLEAN] /\ woken' \in [Runners -> BOOLEAN]
         /\ \A g \in All : is_awake'[g] <=> is_awake[g] \/ g \in S
  BY DEF TypeOK, Wake

\* Messages of the type their readers expect are queued.
LEMMA SendEachQueues ==
  ASSUME TypeOK, NEW m, SendEach(m), \A g \in All \cap DOMAIN m : m[g] \in Seq(MessagesTo(g))
  PROVE  /\ is_awake' \in [All -> BOOLEAN]
         /\ parked' \in [Runners -> BOOLEAN] /\ woken' \in [Runners -> BOOLEAN]
         /\ DOMAIN queue' = All /\ \A g \in All : queue'[g] \in Seq(MessagesTo(g))
         /\ idle' \in [All -> BOOLEAN]
<1>1. Wake({g \in DOMAIN m : idle[g]})
  BY DEF SendEach
<1>2. \A g \in All : queue'[g] \in Seq(MessagesTo(g))
  <2> SUFFICES ASSUME NEW g \in All PROVE queue'[g] \in Seq(MessagesTo(g))
    OBVIOUS
  <2> DEFINE M == MessagesTo(g)
  <2>1. queue[g] \in Seq(M)
    BY DEF TypeOK
  <2>2. CASE g \in DOMAIN m
    <3>1. m[g] \in Seq(M) /\ queue'[g] = queue[g] \o m[g]
      BY <2>2 DEF SendEach
    <3> HIDE DEF M
    <3>2. queue[g] \o m[g] \in Seq(M)
      BY <2>1, <3>1
    <3> QED BY <3>1, <3>2 DEF M
  <2>3. CASE g \notin DOMAIN m
    BY <2>1, <2>3 DEF SendEach
  <2> QED BY <2>2, <2>3
<1>3. DOMAIN queue' = All /\ idle' \in [All -> BOOLEAN]
  BY DEF SendEach, TypeOK
<1> QED BY <1>1, <1>2, <1>3, WakeAwakes

\* What a process finds when a message has come: it wakes, or has not been idle.
LEMMA SendEachWakes ==
  ASSUME TypeOK, NEW m, SendEach(m), NEW g \in All
  PROVE  /\ is_awake[g] => is_awake'[g]
         /\ idle[g] /\ g \in DOMAIN m => is_awake'[g]
         /\ g \notin DOMAIN m => idle'[g] = idle[g] /\ queue'[g] = queue[g]
<1>1. Wake({h \in DOMAIN m : idle[h]})
  BY DEF SendEach
<1>2. g \notin DOMAIN m => idle'[g] = idle[g] /\ queue'[g] = queue[g]
  BY DEF SendEach, TypeOK
<1> QED BY <1>1, <1>2, WakeAwakes

\* A poll that returns leaves the processes as awake as they were, and one not polled.
LEMMA ReturnPendingTypes ==
  ASSUME TypeOK, NEW a \in Threads, NEW g \in All, ReturnPending(a, g)
  PROVE  /\ is_awake' \in [All -> BOOLEAN]
         /\ parked' \in [Runners -> BOOLEAN] /\ woken' \in [Runners -> BOOLEAN]
         /\ polled_by' \in [All -> Threads \cup {None}]
         /\ runner' = runner
         /\ polled_by' = [polled_by EXCEPT ![g] = None]
         /\ \A h \in All : is_awake'[h] = is_awake[h]
<1>1. CASE a \in Outside /\ is_awake[g]
  <2>1. Wake({g})
    BY <1>1 DEF ReturnPending
  <2>2. \A h \in All : h \in {g} => is_awake[h]
    BY <1>1
  <2>3. \A h \in All : is_awake[h] \in BOOLEAN /\ is_awake'[h] \in BOOLEAN
    BY <2>1, WakeAwakes DEF TypeOK
  <2>4. \A h \in All : is_awake'[h] <=> is_awake[h]
    BY <2>1, <2>2, WakeAwakes
  <2> QED BY <2>1, <2>3, <2>4, WakeAwakes DEF ReturnPending, TypeOK
<1>2. CASE ~(a \in Outside /\ is_awake[g])
  BY <1>2 DEF ReturnPending, TypeOK
<1> QED BY <1>1, <1>2

\* A check returns to its caller: the runner that parks, or the only program that waits.
LEMMA CheckReturnsTo ==
  ASSUME TypeOK, PollsAreExclusive, ChecksHaveCallers, NEW a \in Threads, NEW b \in BOOLEAN,
         CheckReturns(a, b), AboutToCheck(a) \/ check[a] # NoCheck
  PROVE  /\ check' = [check EXCEPT ![a] = NoCheck]
         /\ runner' \in [Runners -> {"loop", "check", "asleep"}]
         /\ \A t \in Runners : runner'[t] = "check" => t # a /\ runner[t] = "check"
         /\ \A t \in Runners \ {a} : runner'[t] = runner[t]
         /\ DOMAIN state' = All
         /\ \A g \in All : \/ state'[g] = state[g] /\ (state[g] = "wait_check" => polled_by[g] # a)
                           \/ state'[g] = "waiting" /\ state[g] = "wait_check" /\ polled_by[g] = a
<1>1. CASE a \in Runners /\ runner[a] = "check"
  <2>1. runner' = [runner EXCEPT ![a] = IF b THEN "loop" ELSE "asleep"] /\ state' = state
    BY <1>1 DEF CheckReturns
  <2>2. \A g \in All : polled_by[g] # a
    BY <1>1 DEF PollsAreExclusive
  <2> QED BY <1>1, <2>1, <2>2 DEF CheckReturns, TypeOK
<1>2. CASE ~(a \in Runners /\ runner[a] = "check")
  <2>1. PICK g \in All : polled_by[g] = a /\ state[g] = "wait_check"
    BY <1>2 DEF AboutToCheck, ChecksHaveCallers
  <2>2. \A h \in All : polled_by[h] = a => h = g
    BY <2>1, IdleAssumption DEF PollsAreExclusive, Threads
  <2>3. state' = [h \in All |-> IF polled_by[h] = a THEN "waiting" ELSE state[h]] /\ runner' = runner
    BY <1>2 DEF CheckReturns
  <2>4. \A h \in All : \/ state'[h] = state[h] /\ (state[h] = "wait_check" => polled_by[h] # a)
                       \/ state'[h] = "waiting" /\ state[h] = "wait_check" /\ polled_by[h] = a
    BY <2>1, <2>2, <2>3
  <2> QED BY <1>2, <2>3, <2>4 DEF CheckReturns, TypeOK
<1> QED BY <1>1, <1>2

\* What a check knows at each of its steps.
LEMMA CheckKinds ==
  ASSUME TypeOK, NEW a \in Threads
  PROVE  /\ check[a].pc = "inputs" => check[a].count \in Nat /\ check[a].todo \in SUBSET All
                                      /\ check[a] = [pc |-> "inputs", count |-> check[a].count,
                                                     todo |-> check[a].todo]
         /\ check[a].pc = "claim" => check[a].count \in Nat
         /\ check[a].pc = "notify" => check[a].count \in Nat /\ check[a].to \in SUBSET (All \X Nat)
                                      /\ check[a] = [pc |-> "notify", count |-> check[a].count,
                                                     to |-> check[a].to]
         /\ check[a].pc = "none" => check[a] = NoCheck
         /\ NoCheck.pc = "none"
  BY DEF TypeOK, Checks, NoCheck

\* A check that goes on to its next critical section, or returns.
LEMMA CheckTypes ==
  ASSUME TypeOK, NEW a \in Threads, NEW c \in Checks, check' = [check EXCEPT ![a] = c]
  PROVE  check' \in [Threads -> Checks]
  BY DEF TypeOK

\* The checks that the steps make.
LEMMA SomeChecks ==
  /\ NoCheck \in Checks
  /\ \A n \in Nat, S \in SUBSET All : [pc |-> "inputs", count |-> n, todo |-> S] \in Checks
  /\ \A n \in Nat : [pc |-> "claim", count |-> n] \in Checks
  /\ \A n \in Nat, S \in SUBSET (All \X Nat) : [pc |-> "notify", count |-> n, to |-> S] \in Checks
  BY DEF Checks, NoCheck

\* The history variables keep their types.
LEMMA HistoryTypes ==
  ASSUME TypeOK, Remember
  PROVE  idle_seen' \subseteq Threads /\ {has_awaited', unchecked'} \subseteq BOOLEAN
  BY DEF TypeOK, Remember

\* Asking for a notification keeps the types of the core.
LEMMA NotifyTypes ==
  ASSUME TypeOK, NotifyOnNextIdle \/ UNCHANGED <<notify_when_idle, idle_count>>
  PROVE  notify_when_idle' \in BOOLEAN /\ idle_count' \in Nat
<1>1. CASE NotifyOnNextIdle
  <2>1. notify_when_idle' \in BOOLEAN
    BY <1>1 DEF NotifyOnNextIdle
  <2>2. idle_count' \in Nat
    BY <1>1 DEF NotifyOnNextIdle, TypeOK
  <2> QED BY <2>1, <2>2
<1>2. CASE UNCHANGED <<notify_when_idle, idle_count>>
  BY <1>2 DEF TypeOK
<1> QED BY <1>1, <1>2

\* The messages that are sent have the type their reader expects.
LEMMA RequestTypes ==
  ASSUME NEW r \in Requests
  PROVE  r.from \in Programs /\ <<r>> \in Seq(MessagesTo(IdleProgram))
  BY DEF Requests, MessagesTo

\* Ordinary work is a message that every program expects.
LEMMA WorkTypes ==
  ASSUME NEW g \in Programs
  PROVE  <<Work>> \in Seq(MessagesTo(g))
<1>1. MessagesTo(g) = {Work, Notification}
  BY IdleAssumption DEF MessagesTo
<1>2. <<Work>> \in Seq({Work, Notification})
  OBVIOUS
<1> QED BY <1>1, <1>2

\* One message to one program.
LEMMA OneMessage ==
  ASSUME NEW h, NEW e, <<e>> \in Seq(MessagesTo(h)), SendEach([x \in {h} |-> <<e>>])
  PROVE  \E m : SendEach(m) /\ \A g \in All \cap DOMAIN m : m[g] \in Seq(MessagesTo(g))
<1> DEFINE m == [x \in {h} |-> <<e>>]
<1>1. \A g \in All \cap DOMAIN m : g = h /\ m[g] = <<e>>
  OBVIOUS
<1>2. SendEach(m) /\ \A g \in All \cap DOMAIN m : m[g] \in Seq(MessagesTo(g))
  BY <1>1
<1> QED BY <1>2

----------------------------------------------------------------------------
(* Every step preserves the types. *)

\* The code of a program: only a program that waits, and the idle program, read from channels,
\* and theirs are there.
LEMMA TypeOfProgramStep ==
  ASSUME TypeOK, WaitersAreMarked, IdleProgramListens, Remember, NEW a \in Threads, ProgramStep(a)
  PROVE  TypeOK'
<1>h. idle_seen' \subseteq Threads /\ {has_awaited', unchecked'} \subseteq BOOLEAN
  BY HistoryTypes
<1>p. \A g \in Programs : g \in All
  BY DEF All
<1> USE DEF processVars, inputVars, waitVars, coreVars, channelVars, idleProgramVars
<1>1. ASSUME NEW g \in Programs, Receive(a, g) PROVE TypeOK'
  <2>1. queue[g] \in Seq(MessagesTo(g)) /\ queue[g] # <<>>
    BY <1>1, <1>p DEF Receive, TypeOK
  <2>2. Tail(queue[g]) \in Seq(MessagesTo(g))
    BY <2>1
  <2>3. DOMAIN queue' = All /\ \A h \in All : queue'[h] \in Seq(MessagesTo(h))
    BY <1>1, <1>p, <2>2 DEF Receive, TypeOK
  <2> QED BY <1>1, <1>h, <1>p, <2>3 DEF Receive, TypeOK
<1>2. ASSUME NEW g \in Programs, Handled(a, g) PROVE TypeOK'
  BY <1>2, <1>h, <1>p DEF Handled, TypeOK
<1>3. ASSUME NEW g \in Programs, Send(a, g) PROVE TypeOK'
  <2>1. PICK m : SendEach(m) /\ \A h \in All \cap DOMAIN m : m[h] \in Seq(MessagesTo(h))
    <3>1. CASE \E h \in Programs \ {g} : state[h] # "absent" /\ SendEach([x \in {h} |-> <<Work>>])
      BY <3>1, WorkTypes, OneMessage
    <3>2. CASE \E r \in Requests : r.from = g /\ SendEach([x \in {IdleProgram} |-> <<r>>])
      BY <3>2, RequestTypes, OneMessage
    <3> QED BY <1>3, <3>1, <3>2 DEF Send
  <2>2. /\ is_awake' \in [All -> BOOLEAN] /\ idle' \in [All -> BOOLEAN]
        /\ parked' \in [Runners -> BOOLEAN] /\ woken' \in [Runners -> BOOLEAN]
        /\ DOMAIN queue' = All /\ \A h \in All : queue'[h] \in Seq(MessagesTo(h))
    BY <2>1, SendEachQueues
  <2>3. /\ UNCHANGED <<polled_by, runner, waitVars, state, coreVars, channelVars, idleProgramVars, check>>
        /\ calls' \in Nat
    BY <1>3 DEF Send, Call, TypeOK
  <2> QED BY <1>h, <2>2, <2>3 DEF TypeOK
<1>r. ASSUME NEW g \in Programs, ReturnPending(a, g)
      PROVE  /\ is_awake' \in [All -> BOOLEAN] /\ polled_by' \in [All -> Threads \cup {None}]
             /\ parked' \in [Runners -> BOOLEAN] /\ woken' \in [Runners -> BOOLEAN]
             /\ runner' = runner
  BY <1>p, <1>r, ReturnPendingTypes
<1>4. ASSUME NEW g \in Programs, AwaitOther(a, g) PROVE TypeOK'
  <2>1. ReturnPending(a, g)
    BY <1>4 DEF AwaitOther
  <2>2. /\ UNCHANGED <<inputVars, waitVars, coreVars, channelVars, idleProgramVars, check>>
        /\ state' = [state EXCEPT ![g] = "away"] /\ calls' \in Nat
    BY <1>4 DEF AwaitOther, Call, TypeOK
  <2> QED BY <1>h, <1>r, <2>1, <2>2 DEF TypeOK
<1>5. ASSUME NEW g \in Programs, StillAway(a, g) PROVE TypeOK'
  <2>1. ReturnPending(a, g)
    BY <1>5 DEF StillAway
  <2>2. UNCHANGED <<inputVars, waitVars, state, coreVars, channelVars, idleProgramVars, check, calls>>
    BY <1>5 DEF StillAway
  <2> QED BY <1>h, <1>r, <2>1, <2>2 DEF TypeOK
<1>6. ASSUME NEW g \in Programs, WaitForIdle(a, g) PROVE TypeOK'
  BY <1>6, <1>h, <1>p DEF WaitForIdle, Call, TypeOK
<1>7. ASSUME NEW g \in Programs, WaitAsks(a, g) PROVE TypeOK'
  BY <1>7, <1>h, <1>p DEF WaitAsks, NotifyOnNextIdle, TypeOK
<1>8. ASSUME NEW g \in Programs, WaitReceives(a, g) PROVE TypeOK'
  <2>1. recv[g] \in Seq(Nat) /\ recv[g] # <<>>
    BY <1>8, <1>p DEF WaitReceives, WaitersAreMarked, Waiting
  <2>2. Tail(recv[g]) \in Seq(Nat)
    BY <2>1
  <2>3. recv' \in [All -> Seq(Nat) \cup {None}]
    BY <1>8, <2>2 DEF WaitReceives, TypeOK
  <2>4. notify_when_idle' \in BOOLEAN /\ idle_count' \in Nat
    BY <1>8, NotifyTypes DEF WaitReceives
  <2>5. waiting_for_idle' \in [All -> BOOLEAN]
        /\ state' \in [All -> {"absent", "starting", "reading", "handling", "away", "wait_register",
                               "wait_check", "waiting"}]
    BY <1>8 DEF WaitReceives, TypeOK
  <2> QED BY <1>8, <1>h, <2>3, <2>4, <2>5 DEF WaitReceives, TypeOK
<1>9. ASSUME NEW g \in All, PollNextPending(a, g) PROVE TypeOK'
  BY <1>9, <1>h, ReturnPendingTypes DEF PollNextPending, IdleAfterPending, TypeOK
<1>10. ASSUME IdleProgramStarts(a) PROVE TypeOK'
  BY <1>10, <1>h DEF IdleProgramStarts, TypeOK, All
<1>11. ASSUME IdleProgramPollsInput(a) PROVE TypeOK'
  BY <1>11, <1>h DEF IdleProgramPollsInput, IdleAfterPending, TypeOK, All
<1>12. ASSUME IdleProgramRequest(a) PROVE TypeOK'
  <2>1. queue[IdleProgram] \in Seq(Requests) /\ queue[IdleProgram] # <<>>
    BY <1>12 DEF IdleProgramRequest, TypeOK, All, MessagesTo
  <2> DEFINE r == Head(queue[IdleProgram])
  <2>2. r \in Requests /\ r.from \in Programs /\ Tail(queue[IdleProgram]) \in Seq(Requests)
    BY <2>1, RequestTypes
  <2>3. DOMAIN queue' = All /\ \A h \in All : queue'[h] \in Seq(MessagesTo(h))
    BY <1>12, <2>2 DEF IdleProgramRequest, TypeOK, MessagesTo
  <2>4. idle' \in [All -> BOOLEAN]
    BY <1>12 DEF IdleProgramRequest, TypeOK
  <2>5. /\ pending_notifications' \subseteq Nat \X Programs /\ IsFiniteSet(pending_notifications')
        /\ suppressions' \in [Programs -> Nat]
        /\ notify_when_idle' \in BOOLEAN /\ idle_count' \in Nat
    <3>1. CASE WhenIdle(r)
      <4>1. IsFiniteSet(pending_notifications \cup {<<idle_count, r.from>>})
        BY FS_AddElement DEF TypeOK
      <4>2. idle_count \in Nat /\ idle_count + 1 \in Nat /\ pending_notifications \subseteq Nat \X Programs
        BY DEF TypeOK
      <4> HIDE DEF r
      <4> QED BY <2>2, <3>1, <4>1, <4>2 DEF WhenIdle, NotifyOnNextIdle, TypeOK
    <3>2. CASE SuppressNotifications(r)
      BY <2>2, <3>2 DEF SuppressNotifications, TypeOK
    <3>3. CASE ResumeNotifications(r)
      <4> HIDE DEF r
      <4>1. suppressions' \in [Programs -> Nat]
        BY <2>2, <3>3 DEF ResumeNotifications, SuppressionsAfterResume, TypeOK
      <4>2. notify_when_idle' \in BOOLEAN /\ idle_count' \in Nat
        BY <3>3, NotifyTypes DEF ResumeNotifications, AskAfterResume
      <4> QED BY <3>3, <4>1, <4>2 DEF ResumeNotifications, TypeOK
    <3> QED BY <1>12, <3>1, <3>2, <3>3 DEF IdleProgramRequest
  <2> QED BY <1>12, <1>h, <2>3, <2>4, <2>5 DEF IdleProgramRequest, TypeOK
<1>13. ASSUME CoreIsIdle(a) PROVE TypeOK'
  <2>1. recv[IdleProgram] \in Seq(Nat) /\ recv[IdleProgram] # <<>>
    BY <1>13 DEF CoreIsIdle, IdleProgramListens
  <2> DEFINE count == Head(recv[IdleProgram])
  <2>2. count \in Nat /\ Tail(recv[IdleProgram]) \in Seq(Nat)
    BY <2>1
  <2>3. recv' \in [All -> Seq(Nat) \cup {None}]
    BY <1>13, <2>2 DEF CoreIsIdle, TypeOK
  <2>4. CASE Suppressed
    BY <1>13, <1>h, <2>3, <2>4 DEF CoreIsIdle, TypeOK
  <2>5. CASE ~Suppressed
    <3> DEFINE ready == Before(count)
               m == [g \in {n[2] : n \in ready} |->
                        [i \in 1..Cardinality({n \in ready : n[2] = g}) |-> Notification]]
    <3>1. NotBefore(count) \subseteq pending_notifications /\ ready \subseteq pending_notifications
      BY DEF NotBefore, Before
    <3>2. IsFiniteSet(NotBefore(count)) /\ IsFiniteSet(ready)
      BY <3>1, FS_Subset DEF TypeOK
    <3>3. SendEach(m)
      BY <1>13, <2>5 DEF CoreIsIdle
    <3>4. \A g \in All \cap DOMAIN m : m[g] \in Seq(MessagesTo(g))
      <4> SUFFICES ASSUME NEW g \in All \cap DOMAIN m PROVE m[g] \in Seq(MessagesTo(g))
        OBVIOUS
      <4>1. g \in Programs
        BY <3>1 DEF TypeOK
      <4> DEFINE S == {n \in ready : n[2] = g}
      <4>2. Cardinality(S) \in Nat
        <5>1. S \subseteq ready
          OBVIOUS
        <5> QED BY <3>2, <5>1, FS_Subset, FS_CardinalityType
      <4>3. m[g] = [i \in 1..Cardinality(S) |-> Notification]
        OBVIOUS
      <4> HIDE DEF S, m
      <4>4. m[g] \in Seq({Work, Notification})
        BY <4>2, <4>3
      <4> QED BY <4>1, <4>4, IdleAssumption DEF MessagesTo
    <3> HIDE DEF m
    <3>5. /\ is_awake' \in [All -> BOOLEAN]
          /\ parked' \in [Runners -> BOOLEAN] /\ woken' \in [Runners -> BOOLEAN]
          /\ DOMAIN queue' = All /\ \A g \in All : queue'[g] \in Seq(MessagesTo(g))
          /\ idle' \in [All -> BOOLEAN]
      BY <3>3, <3>4, SendEachQueues
    <3>6. pending_notifications' \subseteq Nat \X Programs /\ IsFiniteSet(pending_notifications')
      BY <1>13, <2>5, <3>1, <3>2 DEF CoreIsIdle, TypeOK
    <3>7. notify_when_idle' \in BOOLEAN /\ idle_count' \in Nat
      <4>1. (NotifyOnNextIdle \/ UNCHANGED <<notify_when_idle, idle_count>>)
        BY <1>13, <2>5 DEF CoreIsIdle
      <4> QED BY <4>1, NotifyTypes
    <3> QED BY <1>13, <1>h, <2>3, <3>5, <3>6, <3>7 DEF CoreIsIdle, TypeOK
  <2> QED BY <2>4, <2>5
<1> QED BY <1>1, <1>2, <1>3, <1>4, <1>5, <1>6, <1>7, <1>8, <1>9, <1>10, <1>11, <1>12, <1>13 DEF ProgramStep

\* check_if_idle, and its return to a runner or to a program.
LEMMA TypeOfCheckStep ==
  ASSUME TypeOK, PollsAreExclusive, ChecksHaveCallers, Remember, NEW a \in Threads, CheckStep(a)
  PROVE  TypeOK'
<1>h. idle_seen' \subseteq Threads /\ {has_awaited', unchecked'} \subseteq BOOLEAN
  BY HistoryTypes
<1> USE DEF processVars, inputVars, waitVars, coreVars, channelVars, idleProgramVars
<1>r. ASSUME NEW b \in BOOLEAN, CheckReturns(a, b), AboutToCheck(a) \/ check[a] # NoCheck
      PROVE  /\ check' \in [Threads -> Checks] /\ runner' \in [Runners -> {"loop", "check", "asleep"}]
             /\ state' \in [All -> {"absent", "starting", "reading", "handling", "away", "wait_register",
                                    "wait_check", "waiting"}]
  <2>1. check' \in [Threads -> Checks]
    BY <1>r, CheckTypes, SomeChecks DEF CheckReturns
  <2>2. runner' \in [Runners -> {"loop", "check", "asleep"}]
    BY <1>r, CheckReturnsTo
  <2>3. state' \in [All -> {"absent", "starting", "reading", "handling", "away", "wait_register",
                            "wait_check", "waiting"}]
    BY <1>r DEF CheckReturns, TypeOK
  <2> QED BY <2>1, <2>2, <2>3
<1>1. ASSUME CheckStart(a) PROVE TypeOK'
  <2>1. CASE notify_when_idle
    <3>1. idle_count + 1 \in Nat /\ {g \in All : state[g] # "absent"} \in SUBSET All
      BY DEF TypeOK
    <3>2. check' \in [Threads -> Checks]
      <4> DEFINE started == [pc |-> "inputs", count |-> idle_count + 1,
                             todo |-> {g \in All : state[g] # "absent"}]
      <4>1. check' = [check EXCEPT ![a] = started]
        BY <1>1, <2>1 DEF CheckStart
      <4>2. started \in Checks
        BY <3>1, SomeChecks
      <4> HIDE DEF started
      <4> QED BY <4>1, <4>2 DEF TypeOK
    <3> QED BY <1>1, <1>h, <2>1, <3>1, <3>2 DEF CheckStart, TypeOK
  <2>2. CASE ~notify_when_idle
    BY <1>1, <1>h, <1>r, <2>2 DEF CheckStart, TypeOK
  <2> QED BY <2>1, <2>2
<1>2. ASSUME NEW g \in All, CheckInput(a, g) PROVE TypeOK'
  <2>1. check[a] # NoCheck
    BY <1>2, CheckKinds DEF CheckInput
  <2>2. CASE IsIdle(g)
    <3>1. check' = [check EXCEPT ![a].todo = @ \ {g}]
      BY <1>2, <2>2 DEF CheckInput
    <3>2. check[a].pc = "inputs"
      BY <1>2 DEF CheckInput
    <3>3. [check[a] EXCEPT !.todo = @ \ {g}] \in Checks
      <4>1. check[a] = [pc |-> "inputs", count |-> check[a].count, todo |-> check[a].todo]
        BY <3>2, CheckKinds
      <4>2. [check[a] EXCEPT !.todo = @ \ {g}]
              = [pc |-> "inputs", count |-> check[a].count, todo |-> check[a].todo \ {g}]
        BY <4>1
      <4>3. check[a].count \in Nat /\ check[a].todo \ {g} \in SUBSET All
        BY <3>2, CheckKinds
      <4> QED BY <4>2, <4>3, SomeChecks
    <3>4. check' \in [Threads -> Checks]
      BY <3>1, <3>3 DEF TypeOK
    <3> QED BY <1>2, <1>h, <2>2, <3>4 DEF CheckInput, TypeOK
  <2>3. CASE ~IsIdle(g)
    BY <1>2, <1>h, <1>r, <2>1, <2>3 DEF CheckInput, TypeOK
  <2> QED BY <2>2, <2>3
<1>3. ASSUME CheckProcesses(a) PROVE TypeOK'
  <2>1. check[a] # NoCheck /\ check[a].count \in Nat
    BY <1>3, CheckKinds DEF CheckProcesses
  <2>2. CASE AllProcessesIdle
    <3>1. check' \in [Threads -> Checks]
      BY <1>3, <2>1, <2>2, SomeChecks DEF CheckProcesses, TypeOK
    <3> QED BY <1>3, <1>h, <2>2, <3>1 DEF CheckProcesses, TypeOK
  <2>3. CASE ~AllProcessesIdle
    BY <1>3, <1>h, <1>r, <2>1, <2>3 DEF CheckProcesses, TypeOK
  <2> QED BY <2>2, <2>3
<1>4. ASSUME CheckClaim(a) PROVE TypeOK'
  <2>1. check[a] # NoCheck /\ check[a].count \in Nat
    BY <1>4, CheckKinds DEF CheckClaim
  <2>2. CASE idle_count = check[a].count /\ notify_when_idle
    <3>1. check' \in [Threads -> Checks]
      <4>1. when_idle \in SUBSET (All \X Nat)
        BY DEF TypeOK
      <4>2. [pc |-> "notify", count |-> check[a].count, to |-> when_idle] \in Checks
        BY <2>1, <4>1, SomeChecks
      <4> QED BY <1>4, <2>2, <4>2, CheckTypes DEF CheckClaim
    <3> QED BY <1>4, <1>h, <2>2, <3>1 DEF CheckClaim, TypeOK
  <2>3. CASE ~(idle_count = check[a].count /\ notify_when_idle)
    BY <1>4, <1>h, <1>r, <2>1, <2>3 DEF CheckClaim, TypeOK
  <2> QED BY <2>2, <2>3
<1>5. ASSUME CheckNotify(a) PROVE TypeOK'
  <2>1. PICK n \in (IF check[a].pc = "notify" THEN check[a].to ELSE {}) :
          /\ check' = [check EXCEPT ![a].to = @ \ {n}]
          /\ IF channel[n[1]] = n[2] /\ recv[n[1]] # None
             THEN /\ recv' = [recv EXCEPT ![n[1]] = Append(@, check[a].count)]
                  /\ Wake({n[1]} \cap {g \in All : state[g] \in {"reading", "waiting"}})
             ELSE UNCHANGED <<recv, is_awake, parked, woken>>
          /\ UNCHANGED <<polled_by, runner, inputVars, waitVars, state, coreVars, channel,
                         idleProgramVars, calls>>
    BY <1>5 DEF CheckNotify
  <2>2. check[a].pc = "notify" /\ check[a].count \in Nat /\ n \in All \X Nat
    BY <2>1, CheckKinds
  <2>3. [check[a] EXCEPT !.to = @ \ {n}] \in Checks
    <3>1. check[a] = [pc |-> "notify", count |-> check[a].count, to |-> check[a].to]
      BY <2>2, CheckKinds
    <3>2. [check[a] EXCEPT !.to = @ \ {n}]
            = [pc |-> "notify", count |-> check[a].count, to |-> check[a].to \ {n}]
      BY <3>1
    <3>3. check[a].to \ {n} \in SUBSET (All \X Nat)
      BY <2>2, CheckKinds
    <3> QED BY <2>2, <3>2, <3>3, SomeChecks
  <2>4. check' \in [Threads -> Checks]
    BY <2>1, <2>3 DEF TypeOK
  <2>5. CASE channel[n[1]] = n[2] /\ recv[n[1]] # None
    <3>1. recv[n[1]] \in Seq(Nat)
      BY <2>2, <2>5 DEF TypeOK
    <3>2. Append(recv[n[1]], check[a].count) \in Seq(Nat)
      BY <2>2, <3>1
    <3>3. recv' \in [All -> Seq(Nat) \cup {None}]
      BY <2>1, <2>5, <3>2 DEF TypeOK
    <3> QED BY <1>h, <2>1, <2>4, <2>5, <3>3, WakeAwakes DEF TypeOK
  <2>6. CASE ~(channel[n[1]] = n[2] /\ recv[n[1]] # None)
    BY <1>h, <2>1, <2>4, <2>6 DEF TypeOK
  <2> QED BY <2>5, <2>6
<1>6. ASSUME CheckDone(a) PROVE TypeOK'
  <2>1. check[a] # NoCheck /\ TRUE \in BOOLEAN
    BY <1>6, CheckKinds DEF CheckDone
  <2> QED BY <1>6, <1>h, <1>r, <2>1 DEF CheckDone, TypeOK
<1> QED BY <1>1, <1>2, <1>3, <1>4, <1>5, <1>6 DEF CheckStep

\* Runners, what programs await, and threads outside of the scene.
LEMMA TypeOfOtherSteps ==
  ASSUME TypeOK, Remember,
         \/ \E t \in Runners : RunnerStep(t)
         \/ \E g \in Programs : OtherHappens(g) \/ OutsideSend(g)
         \/ \E o \in Outside, g \in All : OutsideSteal(o, g)
  PROVE  TypeOK'
<1>h. idle_seen' \subseteq Threads /\ {has_awaited', unchecked'} \subseteq BOOLEAN
  BY HistoryTypes
<1> USE DEF processVars, inputVars, waitVars, coreVars, channelVars, idleProgramVars
<1>1. ASSUME NEW t \in Runners, RunnerStep(t) PROVE TypeOK'
  <2>1. CASE RunnerParks(t)
    BY <1>h, <2>1 DEF RunnerParks, TypeOK
  <2>2. CASE RunnerResumes(t)
    BY <1>h, <2>2 DEF RunnerResumes, TypeOK
  <2>3. ASSUME NEW g \in All, RunnerPolls(t, g) PROVE TypeOK'
    BY <1>h, <2>3 DEF RunnerPolls, TypeOK, Threads
  <2> QED BY <1>1, <2>1, <2>2, <2>3 DEF RunnerStep
<1>2. ASSUME NEW g \in Programs, OtherHappens(g) PROVE TypeOK'
  BY <1>2, <1>h, WakeAwakes DEF OtherHappens, TypeOK, All
<1>3. ASSUME NEW g \in Programs, OutsideSend(g) PROVE TypeOK'
  <2>1. PICK m : SendEach(m) /\ \A h \in All \cap DOMAIN m : m[h] \in Seq(MessagesTo(h))
    BY <1>3, WorkTypes, OneMessage DEF OutsideSend
  <2>2. /\ is_awake' \in [All -> BOOLEAN] /\ idle' \in [All -> BOOLEAN]
        /\ parked' \in [Runners -> BOOLEAN] /\ woken' \in [Runners -> BOOLEAN]
        /\ DOMAIN queue' = All /\ \A h \in All : queue'[h] \in Seq(MessagesTo(h))
    BY <2>1, SendEachQueues
  <2> QED BY <1>3, <1>h, <2>2 DEF OutsideSend, Call, TypeOK
<1>4. ASSUME NEW o \in Outside, NEW g \in All, OutsideSteal(o, g) PROVE TypeOK'
  BY <1>4, <1>h DEF OutsideSteal, Call, TypeOK, Threads
<1> QED BY <1>1, <1>2, <1>3, <1>4

----------------------------------------------------------------------------
(* Who polls, and who checks. *)

\* A program's code changes the place of that program alone, while no check of its thread is
\* under way.
LEMMA ProgramStepKeeps ==
  ASSUME TypeOK, NEW a \in Threads, ProgramStep(a)
  PROVE  /\ check[a] = NoCheck /\ check' = check /\ runner' = runner
         /\ \A g \in All : polled_by'[g] \in {polled_by[g], None}
         /\ \A g \in All : polled_by[g] # a => state'[g] = state[g] /\ polled_by'[g] = polled_by[g]
<1>p. \A g \in Programs : g \in All
  BY DEF All
<1>i. IdleProgram \in All
  BY DEF All
<1> USE DEF processVars, inputVars, waitVars, coreVars, channelVars, idleProgramVars, Runs
<1>1. ASSUME NEW g \in Programs, Receive(a, g) \/ Handled(a, g) \/ Send(a, g)
                                 \/ WaitForIdle(a, g) \/ WaitAsks(a, g) \/ WaitReceives(a, g)
      PROVE  /\ check[a] = NoCheck /\ check' = check /\ runner' = runner /\ polled_by' = polled_by
             /\ \A h \in All : polled_by[h] # a => state'[h] = state[h]
  BY <1>1, <1>p DEF Receive, Handled, Send, WaitForIdle, WaitAsks, WaitReceives, TypeOK
<1>2. ASSUME NEW g \in Programs, AwaitOther(a, g) \/ StillAway(a, g)
      PROVE  /\ check[a] = NoCheck /\ check' = check /\ runner' = runner /\ polled_by[g] = a
             /\ polled_by' = [polled_by EXCEPT ![g] = None]
             /\ \A h \in All \ {g} : state'[h] = state[h]
  BY <1>2, <1>p DEF AwaitOther, StillAway, ReturnPending, TypeOK
<1>3. ASSUME NEW g \in All, PollNextPending(a, g)
      PROVE  /\ check[a] = NoCheck /\ check' = check /\ runner' = runner /\ polled_by[g] = a
             /\ polled_by' = [polled_by EXCEPT ![g] = None] /\ state' = state
  BY <1>3 DEF PollNextPending, ReturnPending
<1>4. ASSUME \/ IdleProgramStarts(a) \/ IdleProgramPollsInput(a) \/ IdleProgramRequest(a)
             \/ CoreIsIdle(a)
      PROVE  /\ check[a] = NoCheck /\ check' = check /\ runner' = runner /\ polled_by' = polled_by
             /\ \A h \in All : polled_by[h] # a => state'[h] = state[h]
  BY <1>4, <1>i DEF IdleProgramStarts, IdleProgramPollsInput, IdleProgramRequest, CoreIsIdle, TypeOK
<1> HIDE DEF Runs
<1>5. CASE \E g \in Programs : Receive(a, g) \/ Handled(a, g) \/ Send(a, g)
                                 \/ WaitForIdle(a, g) \/ WaitAsks(a, g) \/ WaitReceives(a, g)
  BY <1>1, <1>5
<1>6. CASE \E g \in Programs : AwaitOther(a, g) \/ StillAway(a, g)
  <2>1. PICK g \in Programs : AwaitOther(a, g) \/ StillAway(a, g)
    BY <1>6
  <2> QED BY <1>2, <1>p, <2>1 DEF TypeOK
<1>7. CASE \E g \in All : PollNextPending(a, g)
  <2>1. PICK g \in All : PollNextPending(a, g)
    BY <1>7
  <2> QED BY <1>3, <2>1 DEF TypeOK
<1> QED BY <1>4, <1>5, <1>6, <1>7 DEF ProgramStep

\* A check moves on, or returns to its caller; the rest of the scene stays where it is.
LEMMA CheckStepKeeps ==
  ASSUME TypeOK, NEW a \in Threads, CheckStep(a)
  PROVE  /\ polled_by' = polled_by
         /\ AboutToCheck(a) \/ check[a] # NoCheck
         /\ \A b \in Threads \ {a} : check'[b] = check[b]
         /\ \/ runner' = runner /\ state' = state
            \/ \E b \in BOOLEAN : CheckReturns(a, b)
<1> USE DEF processVars, inputVars, waitVars, coreVars, channelVars, idleProgramVars
<1>k. check[a].pc \in {"inputs", "claim", "notify"} => check[a] # NoCheck
  BY CheckKinds
<1>r. ASSUME NEW b \in BOOLEAN, CheckReturns(a, b) PROVE \A c \in Threads \ {a} : check'[c] = check[c]
  BY <1>r DEF CheckReturns, TypeOK
<1>1. CASE CheckStart(a)
  BY <1>1, <1>r DEF CheckStart, TypeOK
<1>2. CASE \E g \in All : CheckInput(a, g)
  BY <1>2, <1>k, <1>r DEF CheckInput, TypeOK
<1>3. CASE CheckProcesses(a)
  BY <1>3, <1>k, <1>r DEF CheckProcesses, TypeOK
<1>4. CASE CheckClaim(a)
  BY <1>4, <1>k, <1>r DEF CheckClaim, TypeOK
<1>5. CASE CheckNotify(a)
  BY <1>5, <1>k DEF CheckNotify, TypeOK
<1>6. CASE CheckDone(a)
  BY <1>6, <1>k, <1>r DEF CheckDone, TypeOK
<1> QED BY <1>1, <1>2, <1>3, <1>4, <1>5, <1>6 DEF CheckStep

\* A thread begins to poll a process that nobody polls.
LEMMA PollBegins ==
  ASSUME TypeOK, PollsAreExclusive, ChecksHaveCallers, NEW a \in Threads, NEW g \in All,
         a \in Runners => runner[a] # "check", ~Polling(a), polled_by[g] = None,
         polled_by' = [polled_by EXCEPT ![g] = a], UNCHANGED <<runner, state, check>>
  PROVE  PollsAreExclusive' /\ ChecksHaveCallers'
<1>1. \A h \in All : polled_by[h] # a /\ polled_by'[h] = IF h = g THEN a ELSE polled_by[h]
  BY DEF TypeOK, Polling
<1>2. PollsAreExclusive'
  BY <1>1 DEF PollsAreExclusive
<1>3. ChecksHaveCallers'
  BY <1>1, IdleAssumption DEF ChecksHaveCallers
<1> QED BY <1>2, <1>3

\* Polls stay exclusive, and every check has its caller.
LEMMA PollsAndChecks ==
  ASSUME TypeOK, PollsAreExclusive, ChecksHaveCallers, Step
  PROVE  PollsAreExclusive' /\ ChecksHaveCallers'
<1> USE DEF processVars, inputVars, waitVars, coreVars, channelVars, idleProgramVars
<1>1. ASSUME NEW a \in Threads, ProgramStep(a) PROVE PollsAreExclusive' /\ ChecksHaveCallers'
  <2>1. /\ check[a] = NoCheck /\ check' = check /\ runner' = runner
        /\ \A g \in All : polled_by'[g] \in {polled_by[g], None}
        /\ \A g \in All : polled_by[g] # a => state'[g] = state[g] /\ polled_by'[g] = polled_by[g]
    BY <1>1, ProgramStepKeeps
  <2>2. \A t \in Runners : t # None
    BY IdleAssumption DEF Threads
  <2>3. PollsAreExclusive'
    BY <2>1, <2>2 DEF PollsAreExclusive
  <2>4. ChecksHaveCallers'
    BY <2>1 DEF ChecksHaveCallers
  <2> QED BY <2>3, <2>4
<1>2. ASSUME NEW a \in Threads, CheckStep(a) PROVE PollsAreExclusive' /\ ChecksHaveCallers'
  <2>1. /\ polled_by' = polled_by
        /\ AboutToCheck(a) \/ check[a] # NoCheck
        /\ \A b \in Threads \ {a} : check'[b] = check[b]
    BY <1>2, CheckStepKeeps
  <2>2. CASE runner' = runner /\ state' = state
    <3>1. PollsAreExclusive'
      BY <2>1, <2>2 DEF PollsAreExclusive
    <3>2. ChecksHaveCallers'
      BY <2>1, <2>2 DEF ChecksHaveCallers, AboutToCheck
    <3> QED BY <3>1, <3>2
  <2>3. ASSUME NEW b \in BOOLEAN, CheckReturns(a, b) PROVE PollsAreExclusive' /\ ChecksHaveCallers'
    <3>1. /\ check' = [check EXCEPT ![a] = NoCheck]
          /\ \A t \in Runners : runner'[t] = "check" => t # a /\ runner[t] = "check"
          /\ \A t \in Runners \ {a} : runner'[t] = runner[t]
          /\ \A g \in All : \/ state'[g] = state[g] /\ (state[g] = "wait_check" => polled_by[g] # a)
                            \/ state'[g] = "waiting" /\ state[g] = "wait_check" /\ polled_by[g] = a
      BY <2>1, <2>3, CheckReturnsTo
    <3>2. PollsAreExclusive'
      BY <2>1, <3>1 DEF PollsAreExclusive
    <3>3. check'[a] = NoCheck
      BY <3>1 DEF TypeOK
    <3>4. ChecksHaveCallers'
      BY <2>1, <3>1, <3>3 DEF ChecksHaveCallers
    <3> QED BY <3>2, <3>4
  <2> QED BY <1>2, <2>2, <2>3, CheckStepKeeps
<1>3. ASSUME NEW t \in Runners, RunnerStep(t) PROVE PollsAreExclusive' /\ ChecksHaveCallers'
  <2>1. CASE RunnerParks(t)
    <3>1. \A g \in All : polled_by[g] # t
      BY <2>1 DEF RunnerParks, AtLoop, Polling
    <3>2. runner' = [runner EXCEPT ![t] = "check"] /\ UNCHANGED <<polled_by, check, state>>
      BY <2>1 DEF RunnerParks
    <3> QED BY <3>1, <3>2 DEF PollsAreExclusive, ChecksHaveCallers, TypeOK
  <2>2. CASE RunnerResumes(t)
    <3>1. /\ runner[t] = "asleep" /\ runner' = [runner EXCEPT ![t] = "loop"]
          /\ UNCHANGED <<polled_by, check, state>>
      BY <2>2 DEF RunnerResumes
    <3> QED BY <3>1 DEF PollsAreExclusive, ChecksHaveCallers, TypeOK
  <2>3. ASSUME NEW g \in All, RunnerPolls(t, g) PROVE PollsAreExclusive' /\ ChecksHaveCallers'
    BY <2>3, PollBegins DEF RunnerPolls, AtLoop, Threads
  <2> QED BY <1>3, <2>1, <2>2, <2>3 DEF RunnerStep
<1>4. ASSUME NEW g \in Programs, OtherHappens(g) PROVE PollsAreExclusive' /\ ChecksHaveCallers'
  <2>1. /\ state[g] = "away" /\ state' = [state EXCEPT ![g] = "handling"]
        /\ UNCHANGED <<polled_by, runner, check>>
    BY <1>4 DEF OtherHappens
  <2> QED BY <2>1 DEF PollsAreExclusive, ChecksHaveCallers, TypeOK
<1>5. ASSUME NEW g \in Programs, OutsideSend(g) PROVE PollsAreExclusive' /\ ChecksHaveCallers'
  BY <1>5 DEF OutsideSend, PollsAreExclusive, ChecksHaveCallers
<1>6. ASSUME NEW o \in Outside, NEW g \in All, OutsideSteal(o, g)
      PROVE  PollsAreExclusive' /\ ChecksHaveCallers'
  <2>1. o \in Threads /\ o \notin Runners
    BY IdleAssumption DEF Threads
  <2> QED BY <1>6, <2>1, PollBegins DEF OutsideSteal
<1> QED BY <1>1, <1>2, <1>3, <1>4, <1>5, <1>6 DEF Step

----------------------------------------------------------------------------
(* The programs that wait, and the idle program. *)

\* A check that returns leaves the programs that wait as they are, or as they were to be.
LEMMA ReturnsKeepPlaces ==
  ASSUME TypeOK, PollsAreExclusive, ChecksHaveCallers, WaitersAreMarked, NEW a \in Threads, CheckStep(a)
  PROVE  \A g \in All : \/ state'[g] = state[g]
                        \/ g \in Programs /\ state[g] = "wait_check" /\ state'[g] = "waiting"
<1>1. CASE state' = state
  BY <1>1
<1>2. ASSUME NEW b \in BOOLEAN, CheckReturns(a, b)
      PROVE  \A g \in All : \/ state'[g] = state[g]
                            \/ g \in Programs /\ state[g] = "wait_check" /\ state'[g] = "waiting"
  <2>1. AboutToCheck(a) \/ check[a] # NoCheck
    BY CheckStepKeeps
  <2>2. \A g \in All : \/ state'[g] = state[g]
                       \/ state'[g] = "waiting" /\ state[g] = "wait_check"
    BY <1>2, <2>1, CheckReturnsTo
  <2> QED BY <2>2 DEF WaitersAreMarked, Waiting
<1> QED BY <1>1, <1>2, CheckStepKeeps

\* A notification is appended to a channel that is there.
LEMMA ChannelsFill ==
  ASSUME TypeOK, NEW a \in Threads, CheckStep(a)
  PROVE  /\ UNCHANGED <<waiting_for_idle, channel, pending_notifications, suppressions>>
         /\ \A g \in All : recv[g] \in Seq(Nat) =>
               recv'[g] \in Seq(Nat) /\ (recv[g] # <<>> => recv'[g] # <<>>)
<1> USE DEF processVars, inputVars, waitVars, coreVars, channelVars, idleProgramVars
<1>1. CASE CheckNotify(a)
  <2>1. PICK n \in (IF check[a].pc = "notify" THEN check[a].to ELSE {}) :
          /\ IF channel[n[1]] = n[2] /\ recv[n[1]] # None
             THEN recv' = [recv EXCEPT ![n[1]] = Append(@, check[a].count)]
             ELSE UNCHANGED recv
          /\ UNCHANGED <<waitVars, channel, idleProgramVars>>
    BY <1>1 DEF CheckNotify
  <2>2. check[a].count \in Nat
    BY <2>1, CheckKinds
  <2>3. ASSUME NEW g \in All, recv[g] \in Seq(Nat)
        PROVE  recv'[g] \in Seq(Nat) /\ (recv[g] # <<>> => recv'[g] # <<>>)
    <3>1. recv'[g] = recv[g] \/ recv'[g] = Append(recv[g], check[a].count)
      BY <2>1 DEF TypeOK
    <3>2. Append(recv[g], check[a].count) \in Seq(Nat) /\ Append(recv[g], check[a].count) # <<>>
      BY <2>2, <2>3
    <3> QED BY <2>3, <3>1, <3>2
  <2> QED BY <2>1, <2>3
<1>2. CASE CheckStart(a) \/ CheckProcesses(a) \/ CheckClaim(a) \/ CheckDone(a) \/ \E g \in All : CheckInput(a, g)
  BY <1>2 DEF CheckStart, CheckProcesses, CheckClaim, CheckDone, CheckInput
<1> QED BY <1>1, <1>2 DEF CheckStep

\* What the other steps leave alone.
LEMMA OtherStepsKeep ==
  ASSUME TypeOK,
         \/ \E t \in Runners : RunnerStep(t)
         \/ \E g \in Programs : OtherHappens(g) \/ OutsideSend(g)
         \/ \E o \in Outside, g \in All : OutsideSteal(o, g)
  PROVE  /\ UNCHANGED <<waiting_for_idle, channel, recv, pending_notifications, suppressions,
                        notify_when_idle, when_idle, check>>
         /\ \A g \in All : \/ state'[g] = state[g]
                           \/ g \in Programs /\ state[g] = "away" /\ state'[g] = "handling"
<1> USE DEF processVars, inputVars, waitVars, coreVars, channelVars, idleProgramVars
<1>1. CASE \E t \in Runners : RunnerStep(t)
  BY <1>1 DEF RunnerStep, RunnerParks, RunnerResumes, RunnerPolls
<1>2. CASE \E g \in Programs : OtherHappens(g)
  BY <1>2 DEF OtherHappens, TypeOK, All
<1>3. CASE \E g \in Programs : OutsideSend(g)
  BY <1>3 DEF OutsideSend
<1>4. CASE \E o \in Outside, g \in All : OutsideSteal(o, g)
  BY <1>4 DEF OutsideSteal
<1> QED BY <1>1, <1>2, <1>3, <1>4

\* A program is in wait_for_idle exactly as long as its input says so and its channel exists.
LEMMA WaitersStayMarked ==
  ASSUME TypeOK, PollsAreExclusive, ChecksHaveCallers, WaitersAreMarked, IdleProgramListens, Step
  PROVE  WaitersAreMarked'
<1> USE DEF processVars, inputVars, waitVars, coreVars, channelVars, idleProgramVars
<1>p. Programs \subseteq All /\ IdleProgram \in All /\ IdleProgram \notin Programs
  BY IdleAssumption DEF All
<1>1. ASSUME NEW a \in Threads, ProgramStep(a) PROVE WaitersAreMarked'
  <2>1. ASSUME NEW g \in Programs, \/ Receive(a, g) \/ Handled(a, g) \/ Send(a, g)
                                   \/ AwaitOther(a, g) \/ StillAway(a, g)
        PROVE  WaitersAreMarked'
    BY <2>1, <1>p DEF Receive, Handled, Send, AwaitOther, StillAway, WaitersAreMarked, Waiting, TypeOK
  <2>2. ASSUME NEW g \in Programs, WaitForIdle(a, g) PROVE WaitersAreMarked'
    <3>1. <<>> \in Seq(Nat)
      OBVIOUS
    <3> QED BY <2>2, <1>p, <3>1 DEF WaitForIdle, WaitersAreMarked, Waiting, TypeOK
  <2>3. ASSUME NEW g \in Programs, WaitAsks(a, g) PROVE WaitersAreMarked'
    BY <2>3, <1>p DEF WaitAsks, WaitersAreMarked, Waiting, TypeOK
  <2>4. ASSUME NEW g \in Programs, WaitReceives(a, g) PROVE WaitersAreMarked'
    <3>1. recv[g] \in Seq(Nat) /\ recv[g] # <<>>
      BY <2>4, <1>p DEF WaitReceives, WaitersAreMarked, Waiting
    <3>2. Tail(recv[g]) \in Seq(Nat)
      BY <3>1
    <3>3. CASE Head(recv[g]) >= asked[g]
      <4>1. /\ waiting_for_idle' = [waiting_for_idle EXCEPT ![g] = FALSE]
            /\ recv' = [recv EXCEPT ![g] = None]
            /\ state' = [state EXCEPT ![g] = "handling"]
        BY <2>4, <3>3 DEF WaitReceives
      <4> QED BY <4>1, <1>p DEF WaitersAreMarked, Waiting, TypeOK
    <3>4. CASE ~(Head(recv[g]) >= asked[g])
      <4>1. recv' = [recv EXCEPT ![g] = Tail(@)] /\ UNCHANGED <<waiting_for_idle, state>>
        BY <2>4, <3>4 DEF WaitReceives
      <4> QED BY <4>1, <1>p, <3>2 DEF WaitersAreMarked, TypeOK
    <3> QED BY <3>3, <3>4
  <2>5. ASSUME NEW g \in All, PollNextPending(a, g) PROVE WaitersAreMarked'
    BY <2>5 DEF PollNextPending, WaitersAreMarked
  <2>6. CASE IdleProgramStarts(a)
    BY <2>6, <1>p DEF IdleProgramStarts, WaitersAreMarked, Waiting, TypeOK
  <2>7. CASE IdleProgramPollsInput(a) \/ IdleProgramRequest(a)
    BY <2>7 DEF IdleProgramPollsInput, IdleProgramRequest, WaitersAreMarked
  <2>8. CASE CoreIsIdle(a)
    BY <2>8, <1>p DEF CoreIsIdle, WaitersAreMarked, Waiting, TypeOK
  <2> QED BY <1>1, <2>1, <2>2, <2>3, <2>4, <2>5, <2>6, <2>7, <2>8 DEF ProgramStep
<1>2. ASSUME NEW a \in Threads, CheckStep(a) PROVE WaitersAreMarked'
  BY <1>2, ReturnsKeepPlaces, ChannelsFill DEF WaitersAreMarked, Waiting
<1>3. CASE \/ \E t \in Runners : RunnerStep(t)
           \/ \E g \in Programs : OtherHappens(g) \/ OutsideSend(g)
           \/ \E o \in Outside, g \in All : OutsideSteal(o, g)
  BY <1>3, OtherStepsKeep DEF WaitersAreMarked, Waiting
<1> QED BY <1>1, <1>2, <1>3 DEF Step

\* The idle program's channel stays with the core; a check that is done removes closed ones only.
LEMMA IdleProgramStillListens ==
  ASSUME TypeOK, PollsAreExclusive, ChecksHaveCallers, WaitersAreMarked, IdleProgramListens, Step
  PROVE  IdleProgramListens'
<1> USE DEF processVars, inputVars, waitVars, coreVars, channelVars, idleProgramVars
<1>p. Programs \subseteq All /\ IdleProgram \in All /\ IdleProgram \notin Programs
  BY IdleAssumption DEF All
<1>1. ASSUME NEW a \in Threads, ProgramStep(a) PROVE IdleProgramListens'
  <2>1. ASSUME NEW g \in Programs, \/ Receive(a, g) \/ Handled(a, g) \/ Send(a, g)
                                   \/ AwaitOther(a, g) \/ StillAway(a, g)
                                   \/ WaitForIdle(a, g) \/ WaitAsks(a, g) \/ WaitReceives(a, g)
        PROVE  IdleProgramListens'
    <3>1. /\ state'[IdleProgram] = state[IdleProgram] /\ pending_notifications' = pending_notifications
          /\ channel'[IdleProgram] = channel[IdleProgram] /\ recv'[IdleProgram] = recv[IdleProgram]
          /\ when_idle \subseteq when_idle'
      BY <2>1, <1>p DEF Receive, Handled, Send, AwaitOther, StillAway, WaitForIdle, WaitAsks,
                        WaitReceives, TypeOK
    <3> QED BY <3>1 DEF IdleProgramListens
  <2>2. ASSUME NEW g \in All, PollNextPending(a, g) PROVE IdleProgramListens'
    BY <2>2 DEF PollNextPending, IdleProgramListens
  <2>3. CASE IdleProgramStarts(a)
    <3>1. <<>> \in Seq(Nat)
      OBVIOUS
    <3> QED BY <2>3, <1>p, <3>1 DEF IdleProgramStarts, IdleProgramListens, TypeOK
  <2>4. CASE IdleProgramPollsInput(a) \/ IdleProgramRequest(a)
    BY <2>4 DEF IdleProgramPollsInput, IdleProgramRequest, IdleProgramListens
  <2>5. CASE CoreIsIdle(a)
    <3>1. recv[IdleProgram] \in Seq(Nat) /\ recv[IdleProgram] # <<>> /\ state[IdleProgram] = "reading"
      BY <2>5 DEF CoreIsIdle, IdleProgramListens
    <3>2. recv'[IdleProgram] = Tail(recv[IdleProgram]) /\ Tail(recv[IdleProgram]) \in Seq(Nat)
      BY <2>5, <1>p, <3>1 DEF CoreIsIdle, TypeOK
    <3>3. UNCHANGED <<state, channel, when_idle>>
      BY <2>5 DEF CoreIsIdle
    <3> QED BY <3>1, <3>2, <3>3 DEF IdleProgramListens
  <2> QED BY <1>1, <2>1, <2>2, <2>3, <2>4, <2>5 DEF ProgramStep
<1>2. ASSUME NEW a \in Threads, CheckStep(a) PROVE IdleProgramListens'
  <2>1. /\ state'[IdleProgram] = state[IdleProgram]
        /\ UNCHANGED <<channel, pending_notifications>>
        /\ recv[IdleProgram] \in Seq(Nat) => recv'[IdleProgram] \in Seq(Nat)
    BY <1>2, <1>p, ReturnsKeepPlaces, ChannelsFill
  <2>2. CASE CheckDone(a)
    <3>1. when_idle' = {n \in when_idle : channel[n[1]] = n[2] /\ recv[n[1]] # None}
      BY <2>2 DEF CheckDone
    <3>2. recv[IdleProgram] \in Seq(Nat) => recv[IdleProgram] # None
      BY IdleAssumption
    <3>3. <<IdleProgram, 1>> \in when_idle /\ channel[IdleProgram] = 1 /\ recv[IdleProgram] # None
             => <<IdleProgram, 1>> \in when_idle'
      BY <3>1
    <3> QED BY <2>1, <3>2, <3>3 DEF IdleProgramListens
  <2>3. CASE ~CheckDone(a)
    <3>1. when_idle' = when_idle
      BY <1>2, <2>3 DEF CheckStep, CheckStart, CheckProcesses, CheckClaim, CheckNotify, CheckInput
    <3> QED BY <2>1, <3>1 DEF IdleProgramListens
  <2> QED BY <2>2, <2>3
<1>3. CASE \/ \E t \in Runners : RunnerStep(t)
           \/ \E g \in Programs : OtherHappens(g) \/ OutsideSend(g)
           \/ \E o \in Outside, g \in All : OutsideSteal(o, g)
  BY <1>3, <1>p, OtherStepsKeep DEF IdleProgramListens
<1> QED BY <1>1, <1>2, <1>3 DEF Step

----------------------------------------------------------------------------
(* Processes that sleep. *)

\* A message wakes its reader, unless the reader has not been idle.
LEMMA SendKeepsIdle ==
  ASSUME TypeOK, NEW m, SendEach(m), UNCHANGED waiting_for_idle, NEW g \in All
  PROVE  /\ is_awake[g] => is_awake'[g]
         /\ IsIdle(g) => IsIdle(g)' \/ is_awake'[g]
  BY SendEachWakes DEF IsIdle

\* No step leaves a process asleep with something to do.
LEMMA SleeperIsIdle ==
  ASSUME TypeOK, WaitersAreMarked, Step, NEW g \in All, Asleep(g) => IsIdle(g),
         Asleep(g)', state[g] # "away", state'[g] # "away"
  PROVE  IsIdle(g)'
<1> USE DEF processVars, inputVars, waitVars, coreVars, channelVars, idleProgramVars
<1>p. Programs \subseteq All /\ IdleProgram \in All
  BY DEF All
<1>n. \A a \in Threads : a # None
  BY IdleAssumption
<1>1. ASSUME NEW a \in Threads, ProgramStep(a) PROVE IsIdle(g)'
  <2>1. ASSUME NEW h \in Programs, \/ Receive(a, h) \/ Handled(a, h) \/ WaitForIdle(a, h)
                                   \/ WaitAsks(a, h) \/ WaitReceives(a, h)
        PROVE  IsIdle(g)'
    <3>1. polled_by[h] = a /\ UNCHANGED <<is_awake, polled_by>>
      BY <2>1 DEF Receive, Handled, WaitForIdle, WaitAsks, WaitReceives, Runs
    <3>2. g # h
      BY <1>n, <3>1 DEF Asleep
    <3>3. /\ queue'[g] = queue[g] /\ idle'[g] = idle[g]
          /\ waiting_for_idle'[g] = waiting_for_idle[g]
      BY <1>p, <2>1, <3>2 DEF Receive, Handled, WaitForIdle, WaitAsks, WaitReceives, TypeOK
    <3> QED BY <3>1, <3>3 DEF Asleep, IsIdle
  <2>2. ASSUME NEW h \in Programs, Send(a, h) PROVE IsIdle(g)'
    <3>1. PICK m : SendEach(m)
      BY <2>2 DEF Send
    <3>2. UNCHANGED <<waiting_for_idle, polled_by>>
      BY <2>2 DEF Send
    <3> QED BY <3>1, <3>2, SendKeepsIdle DEF Asleep
  <2>3. ASSUME NEW h \in Programs, AwaitOther(a, h) \/ StillAway(a, h) PROVE IsIdle(g)'
    <3>1. /\ UNCHANGED <<queue, idle, waiting_for_idle>> /\ ReturnPending(a, h)
          /\ state'[h] = "away" \/ state[h] = "away" \/ state[h] = "waiting"
      BY <1>p, <2>3 DEF AwaitOther, StillAway, TypeOK
    <3>2. is_awake'[g] = is_awake[g] /\ (g # h => polled_by'[g] = polled_by[g])
      <4>1. polled_by' = [polled_by EXCEPT ![h] = None] /\ \A x \in All : is_awake'[x] = is_awake[x]
        BY <1>p, <3>1, ReturnPendingTypes
      <4>2. DOMAIN polled_by = All
        BY DEF TypeOK
      <4> QED BY <1>p, <4>1, <4>2
    <3>3. CASE g = h
      BY <3>1, <3>3 DEF WaitersAreMarked, Waiting, IsIdle
    <3>4. CASE g # h
      BY <3>1, <3>2, <3>4 DEF Asleep, IsIdle
    <3> QED BY <3>3, <3>4
  <2>4. ASSUME NEW h \in All, PollNextPending(a, h) PROVE IsIdle(g)'
    <3>1. /\ UNCHANGED <<queue, waiting_for_idle>> /\ ReturnPending(a, h)
          /\ queue[h] = <<>> /\ idle' = [idle EXCEPT ![h] = TRUE]
      BY <2>4 DEF PollNextPending, IdleAfterPending
    <3>2. is_awake'[g] = is_awake[g] /\ (g # h => polled_by'[g] = polled_by[g])
      BY <3>1, ReturnPendingTypes DEF TypeOK
    <3>3. CASE g = h
      BY <3>1, <3>3 DEF IsIdle, TypeOK
    <3>4. CASE g # h
      BY <3>1, <3>2, <3>4 DEF Asleep, IsIdle, TypeOK
    <3> QED BY <3>3, <3>4
  <2>5. CASE IdleProgramStarts(a)
    BY <2>5 DEF IdleProgramStarts, Asleep, IsIdle
  <2>6. CASE IdleProgramPollsInput(a) \/ IdleProgramRequest(a)
    <3>1. polled_by[IdleProgram] = a /\ UNCHANGED <<is_awake, polled_by, waiting_for_idle>>
      BY <2>6 DEF IdleProgramPollsInput, IdleProgramRequest, Runs
    <3>2. g # IdleProgram
      BY <1>n, <3>1 DEF Asleep
    <3>3. queue'[g] = queue[g] /\ idle'[g] = idle[g]
      BY <1>p, <2>6, <3>2 DEF IdleProgramPollsInput, IdleProgramRequest, IdleAfterPending, TypeOK
    <3> QED BY <3>1, <3>3 DEF Asleep, IsIdle
  <2>7. CASE CoreIsIdle(a)
    <3>1. UNCHANGED <<waiting_for_idle, polled_by>>
      BY <2>7 DEF CoreIsIdle
    <3>2. UNCHANGED <<inputVars, is_awake>> \/ \E m : SendEach(m)
      BY <2>7 DEF CoreIsIdle
    <3>3. CASE UNCHANGED <<inputVars, is_awake>>
      BY <3>1, <3>3 DEF Asleep, IsIdle
    <3>4. CASE \E m : SendEach(m)
      BY <3>1, <3>4, SendKeepsIdle DEF Asleep
    <3> QED BY <3>2, <3>3, <3>4
  <2> QED BY <1>1, <2>1, <2>2, <2>3, <2>4, <2>5, <2>6, <2>7 DEF ProgramStep
<1>2. ASSUME NEW a \in Threads, CheckStep(a) PROVE IsIdle(g)'
  <2>1. UNCHANGED <<queue, idle, waiting_for_idle, polled_by>>
    BY <1>2 DEF CheckStep, CheckStart, CheckProcesses, CheckClaim, CheckNotify, CheckDone, CheckInput
  <2>2. UNCHANGED is_awake \/ \E S : Wake(S)
    BY <1>2 DEF CheckStep, CheckStart, CheckProcesses, CheckClaim, CheckNotify, CheckDone, CheckInput
  <2>3. is_awake[g] => is_awake'[g]
    BY <2>2, WakeAwakes
  <2> QED BY <2>1, <2>3 DEF Asleep, IsIdle
<1>3. ASSUME NEW t \in Runners, RunnerStep(t) PROVE IsIdle(g)'
  <2>1. CASE RunnerParks(t) \/ RunnerResumes(t)
    BY <2>1 DEF RunnerParks, RunnerResumes, Asleep, IsIdle
  <2>2. ASSUME NEW h \in All, RunnerPolls(t, h) PROVE IsIdle(g)'
    <3>1. /\ is_awake' = [is_awake EXCEPT ![h] = FALSE] /\ polled_by' = [polled_by EXCEPT ![h] = t]
          /\ UNCHANGED <<queue, idle, waiting_for_idle>>
      BY <2>2 DEF RunnerPolls
    <3>2. t # None
      BY <1>n DEF Threads
    <3> QED BY <3>1, <3>2 DEF Asleep, IsIdle, TypeOK
  <2> QED BY <1>3, <2>1, <2>2 DEF RunnerStep
<1>4. ASSUME NEW h \in Programs, OtherHappens(h) PROVE IsIdle(g)'
  <2>1. Wake({h}) /\ UNCHANGED <<queue, idle, waiting_for_idle, polled_by>>
    BY <1>4 DEF OtherHappens
  <2>2. is_awake[g] => is_awake'[g]
    BY <2>1, WakeAwakes
  <2> QED BY <2>1, <2>2 DEF Asleep, IsIdle
<1>5. ASSUME NEW h \in Programs, OutsideSend(h) PROVE IsIdle(g)'
  <2>1. PICK m : SendEach(m)
    BY <1>5 DEF OutsideSend
  <2>2. UNCHANGED <<waiting_for_idle, polled_by>>
    BY <1>5 DEF OutsideSend
  <2> QED BY <2>1, <2>2, SendKeepsIdle DEF Asleep
<1>6. ASSUME NEW o \in Outside, NEW h \in All, OutsideSteal(o, h) PROVE IsIdle(g)'
  <2>1. /\ polled_by' = [polled_by EXCEPT ![h] = o]
        /\ UNCHANGED <<is_awake, queue, idle, waiting_for_idle>>
    BY <1>6 DEF OutsideSteal
  <2>2. o # None
    BY <1>n DEF Threads
  <2> QED BY <2>1, <2>2 DEF Asleep, IsIdle, TypeOK
<1> QED BY <1>1, <1>2, <1>3, <1>4, <1>5, <1>6 DEF Step

\* The same for all processes, unless something else has been awaited.
LEMMA SleepersStayIdle ==
  ASSUME TypeOK, WaitersAreMarked, SleepersAreIdle, IdleProgramListens', Next
  PROVE  SleepersAreIdle'
<1>1. has_awaited' = (has_awaited \/ \E g \in Programs : state'[g] = "away")
  BY DEF Next, Remember
<1>2. \A g \in All : state'[g] = "away" => has_awaited'
  BY <1>1 DEF IdleProgramListens, All
<1>3. ASSUME ~has_awaited', NEW g \in All, Asleep(g)' PROVE IsIdle(g)'
  <2>1. ~has_awaited
    BY <1>1, <1>3
  <2>2. state[g] # "away" /\ state'[g] # "away" /\ (Asleep(g) => IsIdle(g))
    BY <1>2, <1>3, <2>1 DEF SleepersAreIdle
  <2> QED BY <1>3, <2>2, SleeperIsIdle DEF Next
<1> QED BY <1>2, <1>3 DEF SleepersAreIdle

----------------------------------------------------------------------------
(* Checks that claim the notification. *)

\* A check that finds all processes asleep sees an idle scene, whatever it saw before.
LEMMA ClaimsHaveSeenIdle ==
  ASSUME TypeOK, SleepersAreIdle, ClaimsSawIdle, Next
  PROVE  ClaimsSawIdle'
<1> USE DEF processVars, inputVars, waitVars, coreVars, channelVars, idleProgramVars
<1>h. /\ has_awaited => has_awaited'
      /\ \A b \in Threads : check'[b] # NoCheck /\ (b \in idle_seen \/ SceneIsIdle') => b \in idle_seen'
  BY DEF Next, Remember
<1>n. \A b \in Threads : check'[b].pc \in {"claim", "notify"} => check'[b] # NoCheck
  BY DEF NoCheck
<1> SUFFICES ASSUME ~has_awaited', NEW b \in Threads, check'[b].pc \in {"claim", "notify"}
             PROVE  b \in idle_seen'
  BY DEF ClaimsSawIdle
<1>1. CASE check[b].pc \in {"claim", "notify"}
  BY <1>1, <1>h, <1>n DEF ClaimsSawIdle
<1>2. CASE check[b].pc \notin {"claim", "notify"}
  <2>1. check'[b] # check[b]
    BY <1>2
  <2>2. CheckStep(b)
    <3>1. ~(check' = check)
      BY <2>1
    <3>2. ASSUME NEW a \in Threads, ProgramStep(a) PROVE FALSE
      BY <3>1, <3>2, ProgramStepKeeps
    <3>3. ASSUME \/ \E t \in Runners : RunnerStep(t)
                 \/ \E g \in Programs : OtherHappens(g) \/ OutsideSend(g)
                 \/ \E o \in Outside, g \in All : OutsideSteal(o, g)
          PROVE FALSE
      BY <3>1, <3>3, OtherStepsKeep
    <3>4. PICK a \in Threads : CheckStep(a)
      BY <3>2, <3>3 DEF Next, Step
    <3> QED BY <2>1, <3>4, CheckStepKeeps
  <2>r. ASSUME NEW c \in BOOLEAN, CheckReturns(b, c) PROVE FALSE
    BY <2>r DEF CheckReturns, NoCheck, TypeOK
  <2>3. ~CheckStart(b)
    <3> SUFFICES ASSUME CheckStart(b) PROVE FALSE
      OBVIOUS
    <3>1. check' = [check EXCEPT ![b] = [pc |-> "inputs", count |-> idle_count + 1,
                                         todo |-> {g \in All : state[g] # "absent"}]]
      BY <2>r DEF CheckStart
    <3>2. check'[b].pc = "inputs"
      BY <3>1 DEF TypeOK
    <3> QED BY <3>2
  <2>4. ASSUME NEW g \in All, CheckInput(b, g) PROVE FALSE
    <3>1. check' = [check EXCEPT ![b].todo = @ \ {g}] /\ check[b].pc = "inputs"
      BY <2>4, <2>r DEF CheckInput
    <3>2. check[b] = [pc |-> "inputs", count |-> check[b].count, todo |-> check[b].todo]
      BY <3>1, CheckKinds
    <3>3. check'[b] = [check[b] EXCEPT !.todo = @ \ {g}]
      BY <3>1 DEF TypeOK
    <3>4. check'[b].pc = "inputs"
      BY <3>2, <3>3
    <3> QED BY <3>4
  <2>5. ~CheckClaim(b) /\ ~CheckNotify(b) /\ ~CheckDone(b)
    BY <1>2 DEF CheckClaim, CheckNotify, CheckDone
  <2>6. CheckProcesses(b)
    BY <2>2, <2>3, <2>4, <2>5 DEF CheckStep
  <2>7. AllProcessesIdle /\ UNCHANGED <<is_awake, polled_by, queue, idle, waiting_for_idle>>
    BY <2>6, <2>r DEF CheckProcesses
  <2>8. \A g \in All : IsIdle(g) /\ Asleep(g)
    BY <1>h, <2>7 DEF AllProcessesIdle, SleepersAreIdle
  <2>9. SceneIsIdle'
    BY <2>7, <2>8 DEF SceneIsIdle, IsIdle, Asleep
  <2> QED BY <1>h, <1>n, <2>9
<1> QED BY <1>1, <1>2

----------------------------------------------------------------------------
(* Requests that are not answered yet. *)

\* A check that is about to tell the idle program.
Telling(a) == check[a].pc = "notify" /\ <<IdleProgram, 1>> \in check[a].to

\* A step that takes nothing back keeps the promise.
LEMMA RequestsStay ==
  ASSUME RequestNotForgotten,
         UNCHANGED <<pending_notifications, suppressions>>,
         notify_when_idle => notify_when_idle',
         recv[IdleProgram] # <<>> => recv'[IdleProgram] # <<>>,
         \A a \in Threads : Telling(a) => Telling(a)' \/ recv'[IdleProgram] # <<>>
  PROVE  RequestNotForgotten'
  BY DEF RequestNotForgotten, Telling, Suppressed

\* Requests, suppressions and answers: the last suppression that ends asks again.
LEMMA ProgramsForgetNoRequest ==
  ASSUME TypeOK, IdleProgramListens, RequestNotForgotten, NEW a \in Threads, ProgramStep(a)
  PROVE  RequestNotForgotten'
<1> USE DEF processVars, inputVars, waitVars, coreVars, channelVars, idleProgramVars
<1>p. Programs \subseteq All /\ IdleProgram \in All /\ IdleProgram \notin Programs
  BY IdleAssumption DEF All
<1>c. check' = check
  BY ProgramStepKeeps
<1>1. ASSUME NEW g \in Programs, \/ Receive(a, g) \/ Handled(a, g) \/ Send(a, g)
                                 \/ AwaitOther(a, g) \/ StillAway(a, g)
                                 \/ WaitForIdle(a, g) \/ WaitAsks(a, g) \/ WaitReceives(a, g)
      PROVE  RequestNotForgotten'
  <2>1. /\ UNCHANGED <<pending_notifications, suppressions>>
        /\ recv'[IdleProgram] = recv[IdleProgram]
    BY <1>p, <1>1 DEF Receive, Handled, Send, AwaitOther, StillAway, WaitForIdle, WaitAsks,
                      WaitReceives, TypeOK
  <2>2. notify_when_idle => notify_when_idle'
    BY <1>1 DEF Receive, Handled, Send, AwaitOther, StillAway, WaitForIdle, WaitAsks,
                WaitReceives, NotifyOnNextIdle
  <2> QED BY <1>c, <2>1, <2>2, RequestsStay DEF Telling
<1>2. ASSUME NEW g \in All, PollNextPending(a, g) PROVE RequestNotForgotten'
  BY <1>2, <1>c, RequestsStay DEF PollNextPending, Telling
<1>3. CASE IdleProgramStarts(a)
  BY <1>3 DEF IdleProgramStarts, IdleProgramListens, RequestNotForgotten
<1>4. CASE IdleProgramPollsInput(a)
  BY <1>4, <1>c, RequestsStay DEF IdleProgramPollsInput, Telling
<1>5. CASE IdleProgramRequest(a)
  <2> DEFINE r == Head(queue[IdleProgram])
  <2>1. queue[IdleProgram] \in Seq(Requests) /\ queue[IdleProgram] # <<>>
    BY <1>5, <1>p DEF IdleProgramRequest, TypeOK, MessagesTo
  <2>2. r.from \in Programs
    BY <2>1, RequestTypes
  <2>3. UNCHANGED recv
    BY <1>5 DEF IdleProgramRequest
  <2> HIDE DEF r
  <2>4. CASE WhenIdle(r)
    BY <2>4 DEF WhenIdle, NotifyOnNextIdle, RequestNotForgotten
  <2>5. CASE SuppressNotifications(r)
    <3>1. suppressions'[r.from] > 0
      BY <2>2, <2>5 DEF SuppressNotifications, TypeOK
    <3> QED BY <2>2, <3>1 DEF RequestNotForgotten, Suppressed
  <2>6. CASE ResumeNotifications(r)
    <3>1. CASE suppressions[r.from] = 1
      BY <2>6, <3>1 DEF ResumeNotifications, AskAfterResume, NotifyOnNextIdle, RequestNotForgotten
    <3>2. CASE suppressions[r.from] # 1
      <4>1. suppressions' = [suppressions EXCEPT ![r.from] = IF @ > 0 THEN @ - 1 ELSE @]
        BY <2>6 DEF ResumeNotifications, SuppressionsAfterResume
      <4>2. \A g \in Programs : suppressions[g] > 0 => suppressions'[g] > 0
        BY <2>2, <3>2, <4>1 DEF TypeOK
      <4>3. UNCHANGED <<pending_notifications, notify_when_idle>>
        BY <2>6, <3>2 DEF ResumeNotifications, AskAfterResume
      <4> QED BY <1>c, <2>3, <4>2, <4>3 DEF RequestNotForgotten, Suppressed
    <3> QED BY <3>1, <3>2
  <2> QED BY <1>5, <2>4, <2>5, <2>6 DEF IdleProgramRequest, r
<1>6. CASE CoreIsIdle(a)
  <2>1. UNCHANGED suppressions
    BY <1>6 DEF CoreIsIdle
  <2>2. CASE Suppressed
    BY <2>1, <2>2 DEF RequestNotForgotten, Suppressed
  <2>3. CASE ~Suppressed
    BY <1>6, <2>3 DEF CoreIsIdle, NotifyOnNextIdle, RequestNotForgotten
  <2> QED BY <2>2, <2>3
<1> QED BY <1>1, <1>2, <1>3, <1>4, <1>5, <1>6 DEF ProgramStep

\* A check that clears notify_when_idle has the idle program to tell.
LEMMA ChecksForgetNoRequest ==
  ASSUME TypeOK, IdleProgramListens, RequestNotForgotten, NEW a \in Threads, CheckStep(a)
  PROVE  RequestNotForgotten'
<1> USE DEF processVars, inputVars, waitVars, coreVars, channelVars, idleProgramVars
<1>1. /\ UNCHANGED <<pending_notifications, suppressions>>
      /\ \A b \in Threads \ {a} : check'[b] = check[b]
  BY ChannelsFill, CheckStepKeeps
<1>2. CASE CheckStart(a) \/ CheckProcesses(a) \/ CheckDone(a) \/ \E g \in All : CheckInput(a, g)
  <2>1. ~Telling(a)
    BY <1>2, CheckKinds DEF CheckStart, AboutToCheck, CheckProcesses, CheckDone, CheckInput, Telling
  <2>2. UNCHANGED <<recv, notify_when_idle>>
    BY <1>2 DEF CheckStart, CheckProcesses, CheckDone, CheckInput
  <2>3. \A b \in Threads : Telling(b) => Telling(b)'
    BY <1>1, <2>1 DEF Telling
  <2> QED BY <1>1, <2>2, <2>3, RequestsStay
<1>3. CASE CheckClaim(a)
  <2>1. ~Telling(a) /\ UNCHANGED recv
    BY <1>3 DEF CheckClaim, Telling
  <2>2. CASE idle_count = check[a].count /\ notify_when_idle
    <3>1. check' = [check EXCEPT ![a] = [pc |-> "notify", count |-> check[a].count, to |-> when_idle]]
      BY <1>3, <2>2 DEF CheckClaim
    <3>2. check'[a].pc = "notify" /\ check'[a].to = when_idle
      BY <3>1 DEF TypeOK
    <3>3. pending_notifications # {} => <<IdleProgram, 1>> \in check'[a].to
      BY <3>2 DEF IdleProgramListens
    <3> QED BY <1>1, <3>2, <3>3 DEF RequestNotForgotten
  <2>3. CASE ~(idle_count = check[a].count /\ notify_when_idle)
    <3>1. UNCHANGED notify_when_idle
      BY <1>3, <2>3 DEF CheckClaim
    <3>2. \A b \in Threads : Telling(b) => Telling(b)'
      BY <1>1, <2>1 DEF Telling
    <3> QED BY <1>1, <2>1, <3>1, <3>2, RequestsStay
  <2> QED BY <2>2, <2>3
<1>4. CASE CheckNotify(a)
  <2>1. PICK n \in (IF check[a].pc = "notify" THEN check[a].to ELSE {}) :
          /\ check' = [check EXCEPT ![a].to = @ \ {n}]
          /\ IF channel[n[1]] = n[2] /\ recv[n[1]] # None
             THEN recv' = [recv EXCEPT ![n[1]] = Append(@, check[a].count)]
             ELSE UNCHANGED recv
          /\ UNCHANGED coreVars
    BY <1>4 DEF CheckNotify
  <2>2. /\ check[a].count \in Nat
        /\ check[a] = [pc |-> "notify", count |-> check[a].count, to |-> check[a].to]
    BY <2>1, CheckKinds
  <2>3. check'[a].pc = "notify" /\ check'[a].to = check[a].to \ {n}
    <3>1. check'[a] = [check[a] EXCEPT !.to = @ \ {n}]
      BY <2>1 DEF TypeOK
    <3> QED BY <2>2, <3>1
  <2>4. CASE pending_notifications = {}
    BY <1>1, <2>4 DEF RequestNotForgotten
  <2>5. CASE pending_notifications # {}
    <3>1. channel[IdleProgram] = 1 /\ recv[IdleProgram] \in Seq(Nat)
      BY <2>5 DEF IdleProgramListens
    <3>2. recv[IdleProgram] # None
      BY <3>1, IdleAssumption
    <3>3. Append(recv[IdleProgram], check[a].count) # <<>>
      BY <2>2, <3>1
    <3>4. CASE n = <<IdleProgram, 1>>
      <4>1. recv'[IdleProgram] = Append(recv[IdleProgram], check[a].count)
        BY <2>1, <3>1, <3>2, <3>4 DEF TypeOK, All
      <4> QED BY <3>3, <4>1 DEF RequestNotForgotten
    <3>5. CASE n # <<IdleProgram, 1>>
      <4>1. \A b \in Threads : Telling(b) => Telling(b)'
        BY <1>1, <2>1, <2>3, <3>5 DEF Telling
      <4>2. recv[IdleProgram] # <<>> => recv'[IdleProgram] # <<>>
        BY <3>1, ChannelsFill DEF All
      <4> QED BY <1>1, <2>1, <4>1, <4>2, RequestsStay
    <3> QED BY <3>4, <3>5
  <2> QED BY <2>4, <2>5
<1> QED BY <1>2, <1>3, <1>4 DEF CheckStep

----------------------------------------------------------------------------
(* The theorems. *)

\* In the beginning every process is awake, and nobody waits or checks.
LEMMA IdleInit == Init => IdleInv
<1> SUFFICES ASSUME Init PROVE IdleInv
  OBVIOUS
<1>1. PICK s \in Situations :
        /\ is_awake = [g \in All |-> Present(s, g)]
        /\ idle = [g \in All |-> ~Present(s, g)]
        /\ state = [g \in All |-> IF g = IdleProgram THEN "starting"
                                  ELSE IF Present(s, g) THEN "handling" ELSE "absent"]
        /\ runner = [t \in Runners |-> IF t \in s.runners THEN "loop" ELSE "asleep"]
        /\ calls = s.calls
  BY DEF Init
<1>2. /\ polled_by = [g \in All |-> None] /\ queue = [g \in All |-> <<>>]
      /\ waiting_for_idle = [g \in All |-> FALSE]
      /\ notify_when_idle = FALSE /\ idle_count = 0 /\ when_idle = {}
      /\ channel = [g \in All |-> 0] /\ recv = [g \in All |-> None]
      /\ asked = [g \in Programs |-> None]
      /\ pending_notifications = {} /\ suppressions = [g \in Programs |-> 0]
      /\ parked = [t \in Runners |-> FALSE] /\ woken = [t \in Runners |-> FALSE]
      /\ check = [a \in Threads |-> NoCheck]
      /\ idle_seen = {} /\ has_awaited = FALSE /\ unchecked = FALSE
  BY DEF Init
<1>3. TypeOK
  <2>1. IsFiniteSet(pending_notifications)
    BY <1>2, FS_EmptySet
  <2>2. DOMAIN queue = All /\ \A g \in All : queue[g] \in Seq(MessagesTo(g))
    BY <1>2
  <2>3. calls \in Nat
    BY <1>1, IdleAssumption
  <2>4. check \in [Threads -> Checks]
    BY <1>2, SomeChecks
  <2>5. /\ is_awake \in [All -> BOOLEAN] /\ idle \in [All -> BOOLEAN]
    BY <1>1 DEF Present
  <2> QED BY <1>1, <1>2, <2>1, <2>2, <2>3, <2>4, <2>5 DEF TypeOK
<1>4. PollsAreExclusive /\ ChecksHaveCallers
  BY <1>1, <1>2 DEF PollsAreExclusive, ChecksHaveCallers, Threads
<1>5. WaitersAreMarked /\ IdleProgramListens
  BY <1>1, <1>2 DEF WaitersAreMarked, Waiting, IdleProgramListens, All
<1>6. SleepersAreIdle
  BY <1>1, <1>2 DEF SleepersAreIdle, Asleep, IsIdle
<1>7. ClaimsSawIdle
  BY <1>2 DEF ClaimsSawIdle, NoCheck
<1>8. RequestNotForgotten
  BY <1>2 DEF RequestNotForgotten
<1> QED BY <1>3, <1>4, <1>5, <1>6, <1>7, <1>8 DEF IdleInv

\* Every step keeps the invariant.
LEMMA IdleStep == IdleInv /\ [Next]_vars => IdleInv'
<1> SUFFICES ASSUME IdleInv, [Next]_vars PROVE IdleInv'
  OBVIOUS
<1> USE DEF IdleInv
<1>1. CASE Next
  <2>1. Step /\ Remember
    BY <1>1 DEF Next
  <2>2. TypeOK'
    BY <2>1, TypeOfProgramStep, TypeOfCheckStep, TypeOfOtherSteps DEF Step
  <2>3. PollsAreExclusive' /\ ChecksHaveCallers'
    BY <2>1, PollsAndChecks
  <2>4. WaitersAreMarked' /\ IdleProgramListens'
    BY <2>1, WaitersStayMarked, IdleProgramStillListens
  <2>5. SleepersAreIdle' /\ ClaimsSawIdle'
    BY <1>1, <2>4, SleepersStayIdle, ClaimsHaveSeenIdle
  <2>6. RequestNotForgotten'
    <3>1. ASSUME \/ \E t \in Runners : RunnerStep(t)
                 \/ \E g \in Programs : OtherHappens(g) \/ OutsideSend(g)
                 \/ \E o \in Outside, g \in All : OutsideSteal(o, g)
          PROVE  RequestNotForgotten'
      BY <3>1, OtherStepsKeep, RequestsStay DEF Telling
    <3> QED BY <2>1, <3>1, ProgramsForgetNoRequest, ChecksForgetNoRequest DEF Step
  <2> QED BY <2>2, <2>3, <2>4, <2>5, <2>6
<1>2. CASE UNCHANGED vars
  <2> USE <1>2 DEF vars, stepVars, processVars, inputVars, waitVars, coreVars, channelVars, idleProgramVars
  <2>1. TypeOK'
    BY DEF TypeOK
  <2>2. PollsAreExclusive' /\ ChecksHaveCallers' /\ WaitersAreMarked' /\ IdleProgramListens'
    BY DEF PollsAreExclusive, ChecksHaveCallers, WaitersAreMarked, IdleProgramListens
  <2>3. SleepersAreIdle' /\ ClaimsSawIdle' /\ RequestNotForgotten'
    BY DEF SleepersAreIdle, Asleep, IsIdle, ClaimsSawIdle, RequestNotForgotten, Suppressed
  <2> QED BY <2>1, <2>2, <2>3
<1> QED BY <1>1, <1>2

\* The invariant holds in every state.
LEMMA IdleInvHolds == Spec => []IdleInv
  BY IdleInit, IdleStep, PTL DEF Spec

\* SceneCore::check_if_idle looks at the inputs and the processes one by one while the scene
\* runs on.  Yet it sends a notification only if all inputs were empty and all processes
\* asleep at one moment of the check, with any number of programs and threads.
THEOREM ChecksAreRight == Spec => []NotifiesOnlyWhenIdle
<1>1. IdleInv => NotifiesOnlyWhenIdle
  BY DEF IdleInv, ClaimsSawIdle, NotifiesOnlyWhenIdle
<1> QED BY <1>1, IdleInvHolds, PTL

\* A request that idle_subprogram has taken is never left with nobody to answer it: the core
\* has been asked, or a notification is on its way, unless notifications are suppressed.
THEOREM NoRequestIsForgotten == Spec => []RequestsAreKept
<1>1. IdleInv => RequestsAreKept
  BY DEF IdleInv, RequestsAreKept
<1> QED BY <1>1, IdleInvHolds, PTL

----------------------------------------------------------------------------
(* The timer program: lists of timers. *)

\* Induction over the numbers, for a set.
LEMMA NatSetInduction ==
  ASSUME NEW S, 0 \in S, \A n \in Nat : n \in S => n + 1 \in S
  PROVE  Nat \subseteq S
<1> SUFFICES ASSUME Nat \ S # {} PROVE FALSE
  OBVIOUS
<1> DEFINE R == {ss \in Nat \X Nat : ss[1] < ss[2]}
<1>1. IsWellFoundedOn(R, Nat)
  BY NatLessThanWellFounded DEF OpToRel
<1>2. \A m, n \in Nat : m < n => <<m, n>> \in R
  OBVIOUS
<1> HIDE DEF R
<1>3. PICK n \in Nat \ S : \A m \in Nat \ S : <<m, n>> \notin R
  BY <1>1, WFMin
<1>4. n - 1 \in Nat \ S /\ n - 1 < n
  OBVIOUS
<1> QED BY <1>2, <1>3, <1>4

\* No two timers of a list, or of two lists, were set by the same request.
Distinct(s) == \A i, j \in DOMAIN s : s[i].serial = s[j].serial => i = j
Apart(s, u) == \A i \in DOMAIN s, j \in DOMAIN u : s[i].serial # u[j].serial

\* u has some of the timers of s, each of them once.
Chooses(u, s, f) ==
    /\ f \in [DOMAIN u -> DOMAIN s]
    /\ \A i, j \in DOMAIN u : f[i] = f[j] => i = j
    /\ \A i \in DOMAIN u : u[i].serial = s[f[i]].serial
Thinned(u, s) == \E f : Chooses(u, s, f)

\* What is left of a list is distinct when the list is.
LEMMA ThinnedDistinct ==
  ASSUME NEW u, NEW s, Thinned(u, s), Distinct(s)
  PROVE  Distinct(u)
<1>1. PICK f : Chooses(u, s, f)
  BY DEF Thinned
<1> QED BY <1>1 DEF Chooses, Distinct

\* What is left of two lists is apart when they are.
LEMMA ThinnedApart ==
  ASSUME NEW u, NEW s, NEW v, NEW w, Thinned(u, s), Thinned(v, w), Apart(s, w)
  PROVE  Apart(u, v)
<1>1. PICK f : Chooses(u, s, f)
  BY DEF Thinned
<1>2. PICK g : Chooses(v, w, g)
  BY DEF Thinned
<1> QED BY <1>1, <1>2 DEF Chooses, Apart

\* A list whose timers keep their places and numbers.
LEMMA ThinnedSame ==
  ASSUME NEW u, NEW s, DOMAIN u = DOMAIN s, \A i \in DOMAIN u : u[i].serial = s[i].serial
  PROVE  Thinned(u, s)
<1> DEFINE f == [i \in DOMAIN u |-> i]
<1>1. Chooses(u, s, f)
  BY DEF Chooses
<1> HIDE DEF f
<1> QED BY <1>1 DEF Thinned

\* The front of a list, and what comes after it.
LEMMA FrontIs ==
  ASSUME NEW S, NEW s \in Seq(S), NEW n \in 0..Len(s)
  PROVE  /\ SubSeq(s, 1, n) \in Seq(S) /\ DOMAIN SubSeq(s, 1, n) = 1..n
         /\ \A i \in 1..n : SubSeq(s, 1, n)[i] = s[i]
<1>1. n \in Nat /\ Len(s) \in Nat /\ \A i \in 1..n : s[i] \in S
  OBVIOUS
<1>2. /\ SubSeq(s, 1, n) \in Seq(S) /\ Len(SubSeq(s, 1, n)) = IF 1 <= n THEN n - 1 + 1 ELSE 0
      /\ \A i \in 1..n - 1 + 1 : SubSeq(s, 1, n)[i] = s[1 + i - 1]
  BY <1>1, SubSeqProperties
<1>3. (IF 1 <= n THEN n - 1 + 1 ELSE 0) = n /\ \A i \in 1..n : i \in 1..n - 1 + 1 /\ 1 + i - 1 = i
  BY <1>1
<1>4. DOMAIN SubSeq(s, 1, n) = 1..Len(SubSeq(s, 1, n))
  BY <1>2
<1> QED BY <1>2, <1>3, <1>4

\* What comes after the front.
LEMMA BackIs ==
  ASSUME NEW S, NEW s \in Seq(S), NEW n \in 0..Len(s)
  PROVE  /\ SubSeq(s, n + 1, Len(s)) \in Seq(S) /\ DOMAIN SubSeq(s, n + 1, Len(s)) = 1..Len(s) - n
         /\ \A i \in 1..Len(s) - n : n + i \in 1..Len(s) /\ SubSeq(s, n + 1, Len(s))[i] = s[n + i]
<1>1. PICK L \in Nat, m \in Nat : L = Len(s) /\ m = n + 1 /\ n \in Nat /\ n <= L
  OBVIOUS
<1>2. \A i \in m..L : s[i] \in S
  BY <1>1
<1>3. /\ SubSeq(s, m, L) \in Seq(S) /\ Len(SubSeq(s, m, L)) = IF m <= L THEN L - m + 1 ELSE 0
      /\ \A i \in 1..L - m + 1 : SubSeq(s, m, L)[i] = s[m + i - 1]
  BY <1>1, <1>2, SubSeqProperties
<1>4. /\ (IF m <= L THEN L - m + 1 ELSE 0) = L - n
      /\ \A i \in 1..L - n : i \in 1..L - m + 1 /\ m + i - 1 = n + i /\ n + i \in 1..L
  BY <1>1
<1>5. DOMAIN SubSeq(s, m, L) = 1..Len(SubSeq(s, m, L))
  BY <1>3
<1>6. DOMAIN SubSeq(s, m, L) = 1..L - n
  BY <1>3, <1>4, <1>5
<1>7. \A i \in 1..L - n : n + i \in 1..L /\ SubSeq(s, m, L)[i] = s[n + i]
  BY <1>3, <1>4
<1> QED BY <1>1, <1>3, <1>6, <1>7

\* Lists joined.
LEMMA JoinIs ==
  ASSUME NEW S, NEW a \in Seq(S), NEW b \in Seq(S)
  PROVE  /\ a \o b \in Seq(S) /\ Len(a \o b) = Len(a) + Len(b)
         /\ \A i \in 1..Len(a) : (a \o b)[i] = a[i]
         /\ \A i \in 1..Len(b) : (a \o b)[Len(a) + i] = b[i]
         /\ \A i \in 1..Len(a \o b) : i \notin 1..Len(a) => i - Len(a) \in 1..Len(b) /\ (a \o b)[i] = b[i - Len(a)]
<1>1. Len(a) \in Nat /\ Len(b) \in Nat
  OBVIOUS
<1>2. a \o b \in Seq(S) /\ Len(a \o b) = Len(a) + Len(b)
  BY ConcatProperties
<1>3. \A i \in 1..Len(a) + Len(b) : (a \o b)[i] = IF i <= Len(a) THEN a[i] ELSE b[i - Len(a)]
  BY ConcatProperties
<1>4. ASSUME NEW i \in 1..Len(a) PROVE (a \o b)[i] = a[i]
  <2>1. i \in 1..Len(a) + Len(b) /\ i <= Len(a)
    BY <1>1
  <2> QED BY <1>3, <2>1
<1>5. ASSUME NEW i \in 1..Len(b) PROVE (a \o b)[Len(a) + i] = b[i]
  <2>1. Len(a) + i \in 1..Len(a) + Len(b) /\ ~(Len(a) + i <= Len(a)) /\ Len(a) + i - Len(a) = i
    BY <1>1
  <2> QED BY <1>3, <2>1
<1>6. ASSUME NEW i \in 1..Len(a \o b), i \notin 1..Len(a)
      PROVE  i - Len(a) \in 1..Len(b) /\ (a \o b)[i] = b[i - Len(a)]
  <2>1. i \in 1..Len(a) + Len(b)
    BY <1>2
  <2>2. ~(i <= Len(a)) /\ i - Len(a) \in 1..Len(b)
    BY <1>1, <1>6, <2>1
  <2> QED BY <1>3, <2>1, <2>2
<1> QED BY <1>2, <1>4, <1>5, <1>6

\* Two lists that are distinct and apart are distinct together.
LEMMA JoinDistinct ==
  ASSUME NEW S, NEW a \in Seq(S), NEW b \in Seq(S)
  PROVE  Distinct(a \o b) <=> Distinct(a) /\ Distinct(b) /\ Apart(a, b)
<1>1. PICK m \in Nat, n \in Nat : m = Len(a) /\ n = Len(b)
  OBVIOUS
<1>2. PICK c \in Seq(S) : c = a \o b
  BY JoinIs
<1>3. /\ DOMAIN a = 1..m /\ DOMAIN b = 1..n /\ DOMAIN c = 1..m + n
      /\ \A i \in 1..m : c[i] = a[i]
      /\ \A i \in 1..n : c[m + i] = b[i]
  <2>1. /\ Len(a \o b) = Len(a) + Len(b)
        /\ \A i \in 1..Len(a) : (a \o b)[i] = a[i]
        /\ \A i \in 1..Len(b) : (a \o b)[Len(a) + i] = b[i]
    BY JoinIs
  <2>2. DOMAIN c = 1..Len(c) /\ DOMAIN a = 1..Len(a) /\ DOMAIN b = 1..Len(b)
    OBVIOUS
  <2> QED BY <1>1, <1>2, <2>1, <2>2
<1>4. ASSUME NEW i \in 1..m + n, i \notin 1..m PROVE \E k \in 1..n : i = m + k
  <2>1. i - m \in 1..n /\ i = m + (i - m)
    BY <1>4
  <2> QED BY <2>1
<1>5. /\ \A i \in 1..m : i \in 1..m + n
      /\ \A i \in 1..n : m + i \in 1..m + n
      /\ \A i \in 1..m, j \in 1..n : i # m + j
      /\ \A i, j \in 1..n : m + i = m + j => i = j
  OBVIOUS
<1>6. ASSUME Distinct(a), Distinct(b), Apart(a, b) PROVE Distinct(c)
  <2> SUFFICES ASSUME NEW i \in 1..m + n, NEW j \in 1..m + n, c[i].serial = c[j].serial PROVE i = j
    BY <1>3 DEF Distinct
  <2>1. CASE i \in 1..m /\ j \in 1..m
    BY <1>3, <1>6, <2>1 DEF Distinct
  <2>2. ASSUME NEW k \in 1..m, NEW l \in 1..n PROVE c[k].serial # c[m + l].serial
    <3>1. a[k].serial # b[l].serial
      BY <1>3, <1>6 DEF Apart
    <3>2. c[k] = a[k] /\ c[m + l] = b[l]
      BY <1>3
    <3> QED BY <3>1, <3>2
  <2>3. CASE i \in 1..m /\ j \notin 1..m
    BY <1>4, <2>2, <2>3
  <2>4. CASE i \notin 1..m /\ j \in 1..m
    BY <1>4, <2>2, <2>4
  <2>5. CASE i \notin 1..m /\ j \notin 1..m
    <3>1. PICK k \in 1..n, l \in 1..n : i = m + k /\ j = m + l
      BY <1>4, <2>5
    <3>2. c[i] = b[k] /\ c[j] = b[l]
      BY <1>3, <3>1
    <3>3. k \in DOMAIN b /\ l \in DOMAIN b /\ b[k].serial = b[l].serial
      BY <1>3, <3>2
    <3>4. k = l
      BY <1>6, <3>3 DEF Distinct
    <3> QED BY <3>1, <3>4
  <2> QED BY <2>1, <2>3, <2>4, <2>5
<1>7. ASSUME Distinct(c) PROVE Distinct(a) /\ Distinct(b) /\ Apart(a, b)
  <2>1. Distinct(a)
    BY <1>3, <1>5, <1>7 DEF Distinct
  <2>2. Distinct(b)
    <3> SUFFICES ASSUME NEW i \in 1..n, NEW j \in 1..n, b[i].serial = b[j].serial PROVE i = j
      BY <1>3 DEF Distinct
    <3>1. c[m + i] = b[i] /\ c[m + j] = b[j] /\ m + i \in 1..m + n /\ m + j \in 1..m + n
      BY <1>3, <1>5
    <3>2. m + i = m + j
      BY <1>3, <1>7, <3>1 DEF Distinct
    <3> QED BY <3>2
  <2>3. Apart(a, b)
    <3> SUFFICES ASSUME NEW i \in 1..m, NEW j \in 1..n, a[i].serial = b[j].serial PROVE FALSE
      BY <1>3 DEF Apart
    <3>1. c[i] = a[i] /\ c[m + j] = b[j] /\ i \in 1..m + n /\ m + j \in 1..m + n
      BY <1>3, <1>5
    <3>2. i = m + j
      BY <1>3, <1>7, <3>1 DEF Distinct
    <3> QED BY <1>2, <3>2
  <2> QED BY <2>1, <2>2, <2>3
<1> QED BY <1>2, <1>6, <1>7

\* Any list is its front and its back, which are apart if it is distinct.
LEMMA CutIs ==
  ASSUME NEW S, NEW s \in Seq(S), NEW n \in 0..Len(s)
  PROVE  \E a, b \in Seq(S) :
            /\ a = SubSeq(s, 1, n) /\ b = SubSeq(s, n + 1, Len(s)) /\ a \o b = s
<1>1. PICK L \in Nat : L = Len(s) /\ n \in Nat /\ n <= L
  OBVIOUS
<1>2. PICK a \in Seq(S) : a = SubSeq(s, 1, n) /\ DOMAIN a = 1..n /\ \A i \in 1..n : a[i] = s[i]
  BY FrontIs
<1>3. PICK b \in Seq(S) : /\ b = SubSeq(s, n + 1, Len(s)) /\ DOMAIN b = 1..L - n
                          /\ \A i \in 1..L - n : b[i] = s[n + i]
  <2>1. /\ SubSeq(s, n + 1, Len(s)) \in Seq(S) /\ DOMAIN SubSeq(s, n + 1, Len(s)) = 1..Len(s) - n
        /\ \A i \in 1..Len(s) - n : n + i \in 1..Len(s) /\ SubSeq(s, n + 1, Len(s))[i] = s[n + i]
    BY BackIs
  <2> QED BY <1>1, <2>1, Zenon
<1>4. Len(a) = n /\ Len(b) = L - n
  <2>1. Len(a) \in Nat /\ DOMAIN a = 1..Len(a) /\ Len(b) \in Nat /\ DOMAIN b = 1..Len(b)
    OBVIOUS
  <2>2. \A x, y \in Nat : 1..x = 1..y => x = y
    OBVIOUS
  <2>3. n \in Nat /\ L - n \in Nat
    BY <1>1
  <2> QED BY <1>2, <1>3, <2>1, <2>2, <2>3
<1>5. PICK c \in Seq(S) : /\ c = a \o b /\ Len(c) = n + (L - n)
                          /\ \A i \in 1..n : c[i] = a[i]
                          /\ \A i \in 1..Len(c) : i \notin 1..n => i - n \in 1..L - n /\ c[i] = b[i - n]
  <2>1. /\ a \o b \in Seq(S) /\ Len(a \o b) = Len(a) + Len(b)
        /\ \A i \in 1..Len(a) : (a \o b)[i] = a[i]
        /\ \A i \in 1..Len(a \o b) :
              i \notin 1..Len(a) => i - Len(a) \in 1..Len(b) /\ (a \o b)[i] = b[i - Len(a)]
    BY JoinIs
  <2> QED BY <1>4, <2>1, Zenon
<1>6. Len(c) = L
  BY <1>1, <1>5
<1>7. ASSUME NEW i \in 1..L PROVE c[i] = s[i]
  <2>1. CASE i \in 1..n
    BY <1>2, <1>5, <2>1
  <2>2. CASE i \notin 1..n
    <3>1. i - n \in 1..L - n /\ c[i] = b[i - n]
      BY <1>5, <1>6, <2>2
    <3>2. n + (i - n) = i
      BY <1>1
    <3> QED BY <1>3, <3>1, <3>2
  <2> QED BY <2>1, <2>2
<1>8. c = s
  BY <1>1, <1>6, <1>7, SeqEqual
<1> QED BY <1>2, <1>3, <1>5, <1>8

\* A timer is put into a list of others.
LEMMA SortedIs ==
  ASSUME NEW S, NEW s \in Seq(S), NEW t \in S
  PROVE  /\ Sorted(s, t) \in Seq(S) /\ Sorted(s, t) # <<>>
         /\ \A i \in DOMAIN Sorted(s, t) :
               Sorted(s, t)[i] = t \/ \E j \in DOMAIN s : Sorted(s, t)[i] = s[j]
         /\ Distinct(s) /\ (\A j \in DOMAIN s : s[j].serial # t.serial) => Distinct(Sorted(s, t))
<1> DEFINE E == {i \in DOMAIN s : s[i].callback_offset <= t.callback_offset}
<1>1. PICK L \in Nat : L = Len(s) /\ DOMAIN s = 1..L
  OBVIOUS
<1>2. PICK n \in 0..Len(s) : n = Cardinality(E)
  <2>1. IsFiniteSet(1..L) /\ Cardinality(1..L) = L
    <3>1. 1 \in Int /\ L \in Int
      OBVIOUS
    <3>2. IsFiniteSet(1..L) /\ Cardinality(1..L) = IF 1 > L THEN 0 ELSE L - 1 + 1
      BY <3>1, FS_Interval, Zenon
    <3>3. \A x : x = (IF 1 > L THEN 0 ELSE L - 1 + 1) => x = L
      OBVIOUS
    <3> QED BY <3>2, <3>3
  <2>2. E \in SUBSET (1..L)
    BY <1>1
  <2> HIDE DEF E
  <2>3. IsFiniteSet(E) /\ Cardinality(E) <= L /\ Cardinality(E) \in Nat
    BY <2>1, <2>2, FS_Subset, FS_CardinalityType
  <2> QED BY <1>1, <2>3
<1>3. PICK a \in Seq(S), b \in Seq(S) : a = SubSeq(s, 1, n) /\ b = SubSeq(s, n + 1, Len(s)) /\ a \o b = s
  BY CutIs
<1>4. Sorted(s, t) = (a \o <<t>>) \o b
  BY <1>2, <1>3, Zenon DEF Sorted
<1>5. <<t>> \in Seq(S) /\ Len(<<t>>) = 1 /\ <<t>>[1] = t /\ DOMAIN <<t>> = {1}
  OBVIOUS
<1>6. PICK c \in Seq(S), d \in Seq(S) : c = a \o <<t>> /\ d = c \o b
  BY <1>5, JoinIs
<1>7. Len(a) \in Nat /\ Len(b) \in Nat /\ DOMAIN a = 1..Len(a) /\ DOMAIN b = 1..Len(b) /\ DOMAIN d = 1..Len(d) /\ DOMAIN c = 1..Len(c)
  OBVIOUS
<1>8. /\ Len(c) = Len(a) + 1 /\ c[Len(a) + 1] = t
      /\ \A i \in 1..Len(a) : c[i] = a[i]
      /\ \A i \in 1..Len(c) : i \notin 1..Len(a) => c[i] = t
  <2>1. /\ Len(c) = Len(a) + 1
        /\ \A i \in 1..Len(a) : c[i] = a[i]
        /\ \A i \in 1..1 : c[Len(a) + i] = <<t>>[i]
        /\ \A i \in 1..Len(c) : i \notin 1..Len(a) => i - Len(a) \in 1..1 /\ c[i] = <<t>>[i - Len(a)]
    BY <1>5, <1>6, JoinIs
  <2>2. \A x \in 1..1 : x = 1
    OBVIOUS
  <2>3. 1 \in 1..1
    OBVIOUS
  <2> QED BY <1>5, <2>1, <2>2, <2>3
<1>9. /\ Len(d) = Len(c) + Len(b)
      /\ \A i \in 1..Len(c) : d[i] = c[i]
      /\ \A i \in 1..Len(d) : i \notin 1..Len(c) => i - Len(c) \in 1..Len(b) /\ d[i] = b[i - Len(c)]
  BY <1>6, JoinIs
<1>10. /\ \A i \in 1..Len(a) : \E j \in DOMAIN s : a[i] = s[j]
       /\ \A i \in 1..Len(b) : \E j \in DOMAIN s : b[i] = s[j]
  <2>1. /\ Len(a \o b) = Len(a) + Len(b)
        /\ \A i \in 1..Len(a) : (a \o b)[i] = a[i]
        /\ \A i \in 1..Len(b) : (a \o b)[Len(a) + i] = b[i]
    BY JoinIs
  <2>2. L = Len(a) + Len(b)
    BY <1>1, <1>3, <2>1
  <2>3. /\ \A i \in 1..Len(a) : i \in 1..L
        /\ \A i \in 1..Len(b) : Len(a) + i \in 1..L
    BY <1>7, <2>2
  <2>4. ASSUME NEW i \in 1..Len(a) PROVE \E j \in DOMAIN s : a[i] = s[j]
    <3>1. a[i] = s[i] /\ i \in DOMAIN s
      BY <1>1, <1>3, <2>1, <2>3
    <3> QED BY <3>1
  <2>5. ASSUME NEW i \in 1..Len(b) PROVE \E j \in DOMAIN s : b[i] = s[j]
    <3>1. b[i] = s[Len(a) + i] /\ Len(a) + i \in DOMAIN s
      BY <1>1, <1>3, <2>1, <2>3
    <3> QED BY <3>1
  <2> QED BY <2>4, <2>5
<1>11. d # <<>>
  <2>1. Len(d) # 0
    BY <1>7, <1>8, <1>9
  <2> QED BY <2>1
<1>12. ASSUME NEW i \in DOMAIN d PROVE d[i] = t \/ \E j \in DOMAIN s : d[i] = s[j]
  <2>1. CASE i \in 1..Len(c)
    <3>1. d[i] = c[i]
      BY <1>9, <2>1
    <3>2. CASE i \in 1..Len(a)
      BY <1>8, <1>10, <3>1, <3>2
    <3>3. CASE i \notin 1..Len(a)
      BY <1>8, <2>1, <3>1, <3>3
    <3> QED BY <3>2, <3>3
  <2>2. CASE i \notin 1..Len(c)
    <3>1. i \in 1..Len(d)
      BY <1>7
    <3>2. i - Len(c) \in 1..Len(b) /\ d[i] = b[i - Len(c)]
      BY <1>9, <2>2, <3>1
    <3>3. PICK j \in DOMAIN s : b[i - Len(c)] = s[j]
      BY <1>10, <3>2
    <3> QED BY <3>2, <3>3
  <2> QED BY <2>1, <2>2
<1>13. ASSUME Distinct(s), \A j \in DOMAIN s : s[j].serial # t.serial PROVE Distinct(d)
  <2>1. Distinct(a) /\ Distinct(b) /\ Apart(a, b)
    <3>1. Distinct(a \o b)
      BY <1>3, <1>13
    <3> QED BY <3>1, JoinDistinct
  <2>2. Distinct(<<t>>) /\ Apart(a, <<t>>)
    <3>1. \A i \in DOMAIN <<t>> : i = 1
      BY <1>5
    <3>2. \A i \in 1..Len(a) : a[i].serial # t.serial
      BY <1>10, <1>13
    <3> QED BY <1>5, <1>7, <3>1, <3>2, Zenon DEF Distinct, Apart
  <2>3. Distinct(c)
    BY <1>5, <1>6, <2>1, <2>2, JoinDistinct
  <2>4. Apart(c, b)
    <3> SUFFICES ASSUME NEW i \in 1..Len(c), NEW j \in 1..Len(b) PROVE c[i].serial # b[j].serial
      BY <1>7 DEF Apart
    <3>1. CASE i \in 1..Len(a)
      <4>1. c[i] = a[i] /\ a[i].serial # b[j].serial
        BY <1>7, <1>8, <2>1, <3>1 DEF Apart
      <4> QED BY <4>1
    <3>2. CASE i \notin 1..Len(a)
      <4>1. c[i] = t
        BY <1>8, <3>2
      <4>2. b[j].serial # t.serial
        BY <1>10, <1>13
      <4> QED BY <4>1, <4>2
    <3> QED BY <3>1, <3>2
  <2> QED BY <1>6, <2>1, <2>3, <2>4, JoinDistinct
<1> QED BY <1>4, <1>6, <1>11, <1>12, <1>13

\* One timer is removed: the others keep apart, also from it.
LEMMA RemoveAtIs ==
  ASSUME NEW S, NEW s \in Seq(S), NEW k \in 1..Len(s)
  PROVE  /\ RemoveAt(s, k) \in Seq(S) /\ Thinned(RemoveAt(s, k), s)
         /\ \A i \in DOMAIN RemoveAt(s, k) : \E j \in DOMAIN s : j # k /\ RemoveAt(s, k)[i] = s[j]
<1>1. PICK L \in Nat, m \in Nat : L = Len(s) /\ DOMAIN s = 1..L /\ m = k - 1 /\ k \in 1..L
  OBVIOUS
<1>2. PICK a \in Seq(S) : a = SubSeq(s, 1, m) /\ DOMAIN a = 1..m /\ \A i \in 1..m : a[i] = s[i]
  <2>1. m \in 0..Len(s)
    BY <1>1
  <2> QED BY <2>1, FrontIs
<1>3. PICK b \in Seq(S) : /\ b = SubSeq(s, k + 1, Len(s)) /\ DOMAIN b = 1..L - k
                          /\ \A i \in 1..L - k : b[i] = s[k + i]
  <2>1. k \in 0..Len(s)
    BY <1>1
  <2>2. /\ SubSeq(s, k + 1, Len(s)) \in Seq(S) /\ DOMAIN SubSeq(s, k + 1, Len(s)) = 1..Len(s) - k
        /\ \A i \in 1..Len(s) - k : k + i \in 1..Len(s) /\ SubSeq(s, k + 1, Len(s))[i] = s[k + i]
    BY <2>1, BackIs
  <2> QED BY <1>1, <2>2, Zenon
<1>4. PICK r \in Seq(S) : r = RemoveAt(s, k) /\ r = a \o b
  <2>1. RemoveAt(s, k) = a \o b
    BY <1>1, <1>2, <1>3, Zenon DEF RemoveAt
  <2>2. a \o b \in Seq(S)
    BY JoinIs
  <2> QED BY <2>1, <2>2
<1>5. Len(a) = m /\ Len(b) = L - k
  <2>1. Len(a) \in Nat /\ DOMAIN a = 1..Len(a) /\ Len(b) \in Nat /\ DOMAIN b = 1..Len(b)
    OBVIOUS
  <2>2. \A x, y \in Nat : 1..x = 1..y => x = y
    OBVIOUS
  <2>3. m \in Nat /\ L - k \in Nat
    BY <1>1
  <2> QED BY <1>2, <1>3, <2>1, <2>2, <2>3
<1>6. /\ DOMAIN r = 1..m + (L - k)
      /\ \A i \in 1..m : r[i] = a[i]
      /\ \A i \in 1..m + (L - k) : i \notin 1..m => i - m \in 1..L - k /\ r[i] = b[i - m]
  <2>1. Len(a \o b) = m + (L - k)
    BY <1>5, JoinIs
  <2>2. DOMAIN r = 1..Len(r)
    OBVIOUS
  <2>3. /\ \A i \in 1..m : (a \o b)[i] = a[i]
        /\ \A i \in 1..Len(a \o b) : i \notin 1..m => i - m \in 1..L - k /\ (a \o b)[i] = b[i - m]
    <3>1. /\ \A i \in 1..Len(a) : (a \o b)[i] = a[i]
          /\ \A i \in 1..Len(a \o b) : i \notin 1..Len(a) => /\ i - Len(a) \in 1..Len(b)
                                                            /\ (a \o b)[i] = b[i - Len(a)]
      BY JoinIs
    <3> QED BY <1>5, <3>1
  <2> QED BY <1>4, <2>1, <2>2, <2>3
<1> DEFINE f == [i \in DOMAIN r |-> IF i \in 1..m THEN i ELSE i + 1]
<1>7. ASSUME NEW i \in DOMAIN r PROVE f[i] \in 1..L /\ f[i] # k /\ r[i] = s[f[i]]
  <2>1. CASE i \in 1..m
    <3>1. f[i] = i /\ i \in 1..L /\ i # k
      BY <1>1, <2>1
    <3> QED BY <1>2, <1>6, <2>1, <3>1
  <2>2. CASE i \notin 1..m
    <3>1. i - m \in 1..L - k /\ r[i] = b[i - m] /\ i \in Nat
      BY <1>6, <2>2
    <3>2. m = k - 1 /\ k \in 1..L /\ i \in Int /\ k \in Int /\ L \in Nat /\ m \in Int
      BY <1>1, <3>1
    <3>3. k + (i - m) = i + 1 /\ i + 1 \in 1..L /\ i + 1 # k
      BY <3>1, <3>2
    <3>4. f[i] = i + 1
      BY <2>2
    <3>5. b[i - m] = s[k + (i - m)]
      BY <1>3, <3>1
    <3> QED BY <3>1, <3>3, <3>4, <3>5
  <2> QED BY <2>1, <2>2
<1>8. \A i, j \in DOMAIN r : f[i] = f[j] => i = j
  BY <1>1, <1>6
<1>9. f \in [DOMAIN r -> DOMAIN s]
  BY <1>1, <1>7
<1> HIDE DEF f
<1>10. Chooses(r, s, f)
  BY <1>7, <1>8, <1>9 DEF Chooses
<1>11. Thinned(r, s)
  BY <1>10 DEF Thinned
<1> QED BY <1>1, <1>4, <1>7, <1>11

\* u has those of the elements of s that f says, which are at places of D.
Picks(u, s, f, D) ==
    /\ f \in [DOMAIN u -> D]
    /\ \A i, j \in DOMAIN u : f[i] = f[j] => i = j
    /\ \A i \in DOMAIN u : u[i] = s[f[i]]

\* One more element of s.
LEMMA OneMorePick ==
  ASSUME NEW S, NEW s, NEW u \in Seq(S), NEW f, NEW D, NEW k, Picks(u, s, f, D), k \notin D, s[k] \in S
  PROVE  \E g : Picks(Append(u, s[k]), s, g, D \cup {k})
<1>1. PICK n \in Nat, v \in Seq(S) : n = Len(u) /\ DOMAIN u = 1..n /\ v = Append(u, s[k])
  <2>1. Append(u, s[k]) \in Seq(S) /\ Len(u) \in Nat /\ DOMAIN u = 1..Len(u)
    OBVIOUS
  <2> QED BY <2>1, Zenon
<1>2. DOMAIN v = 1..n+1 /\ v[n + 1] = s[k] /\ \A i \in 1..n : v[i] = u[i]
  BY <1>1
<1> DEFINE g == [i \in 1..n+1 |-> IF i = n + 1 THEN k ELSE f[i]]
<1>3. g[n + 1] = k /\ \A i \in 1..n : g[i] = f[i]
  OBVIOUS
<1>4. g \in [1..n+1 -> D \cup {k}]
  <2>1. \A i \in 1..n+1 : i # n + 1 => f[i] \in D
    BY <1>1 DEF Picks
  <2> QED BY <2>1
<1> HIDE DEF g
<1>5. \A i \in 1..n+1 : i = n + 1 \/ (i \in 1..n /\ f[i] \in D)
  BY <1>1 DEF Picks
<1>6. \A i, j \in 1..n+1 : g[i] = g[j] => i = j
  BY <1>1, <1>3, <1>5 DEF Picks
<1>7. \A i \in 1..n+1 : v[i] = s[g[i]]
  BY <1>1, <1>2, <1>3, <1>5 DEF Picks
<1>8. Picks(v, s, g, D \cup {k})
  BY <1>2, <1>4, <1>6, <1>7 DEF Picks
<1> QED BY <1>1, <1>8

\* The definition of Retained has a solution, ...
LEMMA RetainedExists ==
  ASSUME NEW S, NEW s \in Seq(S), NEW kept
  PROVE  \E f : f = [i \in 0..Len(s) |->
                        IF i = 0 THEN <<>>
                        ELSE IF i \in kept THEN Append(f[i - 1], s[i]) ELSE f[i - 1]]
<1> DEFINE L == Len(s)
           Is(n, f) == /\ f \in [0..n -> Seq(S)] /\ f[0] = <<>>
                       /\ \A i \in 1..n : f[i] = IF i \in kept THEN Append(f[i - 1], s[i]) ELSE f[i - 1]
           D == {n \in Nat : n <= L => \E f : Is(n, f)}
<1>1. L \in Nat /\ \A i \in 1..L : s[i] \in S
  OBVIOUS
<1> HIDE DEF Is, L
<1>2. 0 \in D
  <2> DEFINE g == [i \in 0..0 |-> <<>>]
  <2>1. <<>> \in Seq(S)
    OBVIOUS
  <2>2. g \in [0..0 -> Seq(S)] /\ g[0] = <<>>
    BY <2>1
  <2>3. \A i \in 1..0 : FALSE
    OBVIOUS
  <2>4. Is(0, g)
    BY <2>2, <2>3 DEF Is
  <2> HIDE DEF g
  <2> QED BY <2>4
<1>3. ASSUME NEW m \in Nat, m \in D PROVE m + 1 \in D
  <2> SUFFICES ASSUME m + 1 <= L PROVE \E f : Is(m + 1, f)
    OBVIOUS
  <2>1. PICK f : Is(m, f)
    BY <1>1, <1>3
  <2> DEFINE x == IF m + 1 \in kept THEN Append(f[m], s[m + 1]) ELSE f[m]
             g == [i \in 0..m+1 |-> IF i = m + 1 THEN x ELSE f[i]]
  <2>2. m + 1 \in 1..L /\ m \in 0..m
    BY <1>1
  <2>3. f[m] \in Seq(S) /\ s[m + 1] \in S
    BY <1>1, <2>1, <2>2 DEF Is
  <2>4. x \in Seq(S)
    BY <2>3
  <2> HIDE DEF x
  <2>5. g \in [0..m+1 -> Seq(S)] /\ g[m + 1] = x /\ \A i \in 0..m : g[i] = f[i]
    BY <2>1, <2>4 DEF Is
  <2> HIDE DEF g
  <2>6. g[0] = <<>>
    BY <2>1, <2>5 DEF Is
  <2>7. ASSUME NEW i \in 1..m+1 PROVE g[i] = IF i \in kept THEN Append(g[i - 1], s[i]) ELSE g[i - 1]
    <3>1. CASE i = m + 1
      <4>1. i - 1 = m /\ g[i - 1] = f[m]
        BY <2>5, <3>1
      <4> QED BY <2>5, <3>1, <4>1 DEF x
    <3>2. CASE i # m + 1
      <4>1. i \in 1..m /\ i \in 0..m /\ i - 1 \in 0..m
        BY <3>2
      <4> QED BY <2>1, <2>5, <4>1 DEF Is
    <3> QED BY <3>1, <3>2
  <2>8. Is(m + 1, g)
    BY <2>5, <2>6, <2>7 DEF Is
  <2> QED BY <2>8
<1> HIDE DEF D
<1>4. Nat \subseteq D
  BY <1>2, <1>3, NatSetInduction
<1>5. PICK f : Is(L, f)
  <2>1. L \in D /\ L <= L
    BY <1>1, <1>4
  <2> QED BY <2>1 DEF D
<1>6. f = [i \in 0..L |-> f[i]]
  BY <1>5 DEF Is
<1>7. \A i \in 0..L : f[i] = IF i = 0 THEN <<>> ELSE IF i \in kept THEN Append(f[i - 1], s[i]) ELSE f[i - 1]
  <2> SUFFICES ASSUME NEW i \in 0..L, i # 0
               PROVE  f[i] = IF i \in kept THEN Append(f[i - 1], s[i]) ELSE f[i - 1]
    BY <1>5 DEF Is
  <2>1. i \in 1..L
    BY <1>1
  <2> QED BY <1>5, <2>1 DEF Is
<1> QED BY <1>6, <1>7 DEF L

\* ... and retains some of the elements whose places are kept, each of them once.
LEMMA RetainedIs ==
  ASSUME NEW S, NEW s \in Seq(S), NEW kept
  PROVE  Retained(s, kept) \in Seq(S) /\ \E f : Picks(Retained(s, kept), s, f, kept \cap DOMAIN s)
<1> DEFINE L == Len(s)
           Eq(f) == [i \in 0..Len(s) |->
                        IF i = 0 THEN <<>>
                        ELSE IF i \in kept THEN Append(f[i - 1], s[i]) ELSE f[i - 1]]
           h == CHOOSE f : f = Eq(f)
           Good(n) == h[n] \in Seq(S) /\ \E f : Picks(h[n], s, f, kept \cap 1..n)
           D == {n \in Nat : n <= L => Good(n)}
<1>1. L \in Nat /\ DOMAIN s = 1..L /\ \A i \in 1..L : s[i] \in S
  OBVIOUS
<1>2. h = Eq(h)
  <2>1. \E f : f = Eq(f)
    BY RetainedExists
  <2> QED BY <2>1
<1>3. Retained(s, kept) = h[L]
  BY Zenon DEF Retained
<1> HIDE DEF h
<1>4. \A i \in 0..L : h[i] = IF i = 0 THEN <<>> ELSE IF i \in kept THEN Append(h[i - 1], s[i]) ELSE h[i - 1]
  BY <1>2
<1> HIDE DEF L
<1>5. Good(0)
  <2>1. h[0] = <<>>
    BY <1>1, <1>4
  <2>2. <<>> \in Seq(S) /\ DOMAIN <<>> = {}
    OBVIOUS
  <2>3. Picks(h[0], s, [i \in {} |-> i], kept \cap 1..0)
    BY <2>1, <2>2 DEF Picks
  <2> QED BY <2>1, <2>2, <2>3
<1>6. ASSUME NEW n \in Nat, n <= L => Good(n), n + 1 <= L PROVE Good(n + 1)
  <2>1. n + 1 \in 0..L /\ n + 1 # 0 /\ n + 1 \in 1..L /\ n + 1 - 1 = n /\ n <= L
    BY <1>1, <1>6
  <2>2. h[n + 1] = IF n + 1 \in kept THEN Append(h[n], s[n + 1]) ELSE h[n]
    BY <1>4, <2>1
  <2>3. PICK f : h[n] \in Seq(S) /\ Picks(h[n], s, f, kept \cap 1..n)
    BY <1>6, <2>1
  <2>4. s[n + 1] \in S /\ n + 1 \notin kept \cap 1..n
    BY <1>1, <2>1
  <2>5. CASE n + 1 \in kept
    <3>1. PICK k : k = n + 1
      OBVIOUS
    <3>2. h[n + 1] = Append(h[n], s[k])
      BY <2>2, <2>5, <3>1
    <3>3. PICK g : Picks(Append(h[n], s[k]), s, g, (kept \cap 1..n) \cup {k})
      BY <2>3, <2>4, <3>1, OneMorePick
    <3>4. (kept \cap 1..n) \cup {k} = kept \cap 1..n+1
      BY <2>5, <3>1
    <3>5. h[n + 1] \in Seq(S)
      BY <2>3, <2>4, <3>1, <3>2
    <3> QED BY <3>2, <3>3, <3>4, <3>5
  <2>6. CASE n + 1 \notin kept
    <3>1. kept \cap 1..n = kept \cap 1..n+1
      BY <2>6
    <3> QED BY <2>2, <2>3, <2>6, <3>1
  <2> QED BY <2>5, <2>6
<1> HIDE DEF Good
<1>7. Nat \subseteq D
  <2>1. 0 \in D
    BY <1>5
  <2>2. ASSUME NEW n \in Nat, n \in D PROVE n + 1 \in D
    BY <1>6, <2>2
  <2> HIDE DEF D
  <2> QED BY <2>1, <2>2, NatSetInduction
<1>8. Good(L)
  BY <1>1, <1>7
<1> QED BY <1>1, <1>3, <1>8 DEF Good

\* Lists whose elements are elements of another are thinned lists of it.
LEMMA PicksThinned ==
  ASSUME NEW u, NEW s, NEW D, NEW f, Picks(u, s, f, D), D \subseteq DOMAIN s
  PROVE  Thinned(u, s)
<1>1. Chooses(u, s, f)
  BY DEF Picks, Chooses
<1> QED BY <1>1 DEF Thinned

\* The timers of the front that are retained, and what comes after the front.
LEMMA FrontRetained ==
  ASSUME NEW S, NEW s \in Seq(S), NEW n \in 0..Len(s), NEW kept, kept \subseteq 1..n
  PROVE  /\ Retained(s, kept) \in Seq(S) /\ Thinned(Retained(s, kept), s)
         /\ \A i \in DOMAIN Retained(s, kept) : \E j \in DOMAIN s : Retained(s, kept)[i] = s[j]
         /\ Distinct(s) => Apart(SubSeq(s, n + 1, Len(s)), Retained(s, kept))
<1>1. PICK L \in Nat : L = Len(s) /\ DOMAIN s = 1..L /\ n \in Nat /\ n <= L
  OBVIOUS
<1>2. PICK r, f : r \in Seq(S) /\ r = Retained(s, kept) /\ Picks(r, s, f, kept \cap DOMAIN s)
  BY RetainedIs
<1>3. kept \cap DOMAIN s \subseteq DOMAIN s
  OBVIOUS
<1>4. Thinned(r, s)
  BY <1>2, <1>3, PicksThinned
<1>5. \A i \in DOMAIN r : f[i] \in 1..L /\ f[i] \in 1..n /\ r[i] = s[f[i]]
  BY <1>1, <1>2 DEF Picks
<1>6. PICK b : /\ b = SubSeq(s, n + 1, Len(s)) /\ DOMAIN b = 1..L - n
               /\ \A i \in 1..L - n : n + i \in 1..L /\ b[i] = s[n + i]
  <2>1. /\ SubSeq(s, n + 1, Len(s)) \in Seq(S) /\ DOMAIN SubSeq(s, n + 1, Len(s)) = 1..Len(s) - n
        /\ \A i \in 1..Len(s) - n : n + i \in 1..Len(s) /\ SubSeq(s, n + 1, Len(s))[i] = s[n + i]
    BY BackIs
  <2> QED BY <1>1, <2>1, Zenon
<1>7. ASSUME Distinct(s) PROVE Apart(b, r)
  <2> SUFFICES ASSUME NEW i \in 1..L - n, NEW j \in DOMAIN r PROVE b[i].serial # r[j].serial
    BY <1>6 DEF Apart
  <2>1. n + i # f[j]
    BY <1>1, <1>5
  <2>2. b[i] = s[n + i] /\ n + i \in 1..L
    BY <1>6
  <2>3. r[j] = s[f[j]] /\ f[j] \in 1..L
    BY <1>5
  <2> QED BY <1>1, <1>7, <2>1, <2>2, <2>3 DEF Distinct
<1> QED BY <1>1, <1>2, <1>4, <1>5, <1>6, <1>7

----------------------------------------------------------------------------
(* The timer program: times and turns. *)

\* What divides a product.
LEMMA MultipleOf ==
  ASSUME NEW a \in Int, NEW p \in Nat \ {0}
  PROVE  a % p = 0 <=> \E m \in Int : a = m * p
<1>1. \A k \in Int : (k >= 1 => k * p >= p) /\ (k <= -1 => k * p <= -p)
  OBVIOUS
<1>2. a \div p \in Int /\ a % p \in 0..p-1 /\ a = p * (a \div p) + (a % p)
  OBVIOUS
<1>3. ASSUME a % p = 0 PROVE \E m \in Int : a = m * p
  <2>1. PICK d \in Int : d = a \div p
    BY <1>2
  <2>2. a = d * p
    BY <1>2, <1>3, <2>1
  <2> QED BY <2>2
<1>4. ASSUME NEW m \in Int, a = m * p PROVE a % p = 0
  <2>1. PICK d \in Int, r \in 0..p-1 : d = a \div p /\ r = a % p /\ a = p * d + r
    BY <1>2
  <2>2. PICK k \in Int : k = m - d
    OBVIOUS
  <2>3. k * p = r
    BY <1>4, <2>1, <2>2
  <2>4. r = 0
    <3>1. CASE k >= 1
      BY <1>1, <2>3, <3>1
    <3>2. CASE k <= -1
      BY <1>1, <2>3, <3>2
    <3>3. CASE k = 0
      BY <2>3, <3>3
    <3> QED BY <3>1, <3>2, <3>3
  <2> QED BY <2>1, <2>4
<1> QED BY <1>3, <1>4

\* A beat is kept by times that change by nothing or a whole period.
LEMMA MultiplesKept ==
  ASSUME NEW a \in Int, NEW b \in Int, NEW k \in Int, NEW p \in Nat \ {0}, a % p = 0, b = a + k * p
  PROVE  b % p = 0
<1>1. PICK m \in Int : a = m * p
  BY MultipleOf
<1>2. b = (m + k) * p /\ m + k \in Int
  BY <1>1
<1> QED BY <1>2, MultipleOf

\* The greater of nothing and a time.
LEMMA MaxIs ==
  ASSUME NEW c \in Int
  PROVE  Max({0, c}) = IF c > 0 THEN c ELSE 0
<1> DEFINE m == IF c > 0 THEN c ELSE 0
<1>1. m \in {0, c} /\ \A y \in {0, c} : m >= y
  OBVIOUS
<1>2. \A x \in {0, c} : (\A y \in {0, c} : x >= y) => x = m
  OBVIOUS
<1> HIDE DEF m
<1>3. Max({0, c}) = m
  BY <1>1, <1>2 DEF Max
<1> QED BY <1>3 DEF m

OnBeat(t) == Requeues(t) => (t.callback_offset - t.origin) % t.repeating = 0
GoodTimers == {t \in Timers : t.repeating \in 0..MaxLate \cup {Unset} /\ OnBeat(t)}

\* What a timer is.
LEMMA TimerIs ==
  ASSUME NEW t \in GoodTimers
  PROVE  /\ t \in Timers /\ t.program \in Clients /\ t.callback_offset \in Times /\ t.origin \in Times
         /\ t.repeating \in 0..MaxLate \cup {Unset} /\ t.serial \in 1..MaxRequests
         /\ t.sent \in {"no", "yielding", "yes"} /\ OnBeat(t)
         /\ t.callback_offset \in Int /\ t.origin \in Int /\ t.serial \in Nat
         /\ Requeues(t) => t.repeating \in Nat \ {0} /\ t.repeating <= MaxLate
<1>1. MaxLate \in Nat /\ MaxRequests \in Nat /\ Unset \notin Nat
  BY TimerAssumption
<1>2. /\ t \in Timers /\ t.program \in Clients /\ t.callback_offset \in Times /\ t.origin \in Times
      /\ t.repeating \in 0..MaxLate \cup {Unset} /\ t.serial \in 1..MaxRequests
      /\ t.sent \in {"no", "yielding", "yes"} /\ OnBeat(t)
  BY DEF GoodTimers, Timers
<1>3. t.callback_offset \in Int /\ t.origin \in Int /\ t.serial \in Nat
  BY <1>1, <1>2 DEF Times
<1>4. Requeues(t) => t.repeating \in Nat \ {0} /\ t.repeating <= MaxLate
  BY <1>1, <1>2 DEF Requeues
<1> QED BY <1>2, <1>3, <1>4

\* A tick keeps a time within its bounds, and moves it by one tick and perhaps a period.
LEMMA AgedIs ==
  ASSUME NEW time \in Times, NEW period \in 0..MaxLate \cup {Unset}
  PROVE  /\ Aged(time, period) \in Times
         /\ period \notin {Unset, 0} => \E k \in {0, 1} : Aged(time, period) = time - 1 + k * period
         /\ time > 0 => Aged(time, period) = time - 1
         /\ time <= 0 => Aged(time, period) <= 0
<1>1. MaxLate \in Nat /\ Unset \notin Nat /\ time \in Int /\ -MaxLate <= time /\ time <= MaxLate
  BY TimerAssumption DEF Times
<1>2. CASE time > -MaxLate
  <2>1. Aged(time, period) = time - 1
    BY <1>2 DEF Aged
  <2>2. time - 1 \in Times /\ (time <= 0 => time - 1 <= 0)
    BY <1>1, <1>2 DEF Times
  <2>3. ASSUME period \notin {Unset, 0} PROVE time - 1 = time - 1 + 0 * period
    <3>1. period \in Nat
      BY <1>1, <2>3
    <3> QED BY <1>1, <3>1
  <2> QED BY <2>1, <2>2, <2>3
<1>3. CASE ~(time > -MaxLate) /\ period \in {Unset, 0}
  <2>1. Aged(time, period) = time
    BY <1>3 DEF Aged
  <2>2. ~(time > 0)
    BY <1>1, <1>3
  <2> QED BY <1>3, <2>1, <2>2
<1>4. CASE ~(time > -MaxLate) /\ period \notin {Unset, 0}
  <2>1. Aged(time, period) = time - 1 + period
    BY <1>4 DEF Aged
  <2>2. period \in Nat \ {0} /\ period <= MaxLate
    BY <1>1, <1>4
  <2>3. time - 1 + period \in Times /\ ~(time > 0) /\ time - 1 + period <= 0
    BY <1>1, <1>4, <2>2 DEF Times
  <2>4. time - 1 + period = time - 1 + 1 * period
    BY <1>1, <2>2
  <2> QED BY <2>1, <2>3, <2>4
<1> QED BY <1>2, <1>3, <1>4

\* A tick of the clock keeps a timer on its beat.
LEMMA TickKeepsTimer ==
  ASSUME NEW t \in GoodTimers
  PROVE  /\ OneTickLater(t) \in GoodTimers /\ OneTickLater(t).serial = t.serial
         /\ OneTickLater(t).callback_offset = Aged(t.callback_offset, t.repeating)
<1> DEFINE u == OneTickLater(t)
           c == Aged(t.callback_offset, t.repeating)
           o == Aged(t.origin, t.repeating)
<1>1. /\ t \in Timers /\ t.callback_offset \in Times /\ t.origin \in Times
      /\ t.repeating \in 0..MaxLate \cup {Unset} /\ OnBeat(t)
      /\ t.callback_offset \in Int /\ t.origin \in Int
      /\ Requeues(t) => t.repeating \in Nat \ {0}
  BY TimerIs
<1>2. c \in Times /\ o \in Times
  BY <1>1, AgedIs
<1>3. u = [t EXCEPT !.callback_offset = c, !.origin = o]
  BY <1>1 DEF OneTickLater, Timers
<1>4. ASSUME Requeues(t) PROVE (c - o) % t.repeating = 0
  <2>1. PICK p \in Nat \ {0} : p = t.repeating
    BY <1>1, <1>4
  <2>2. t.repeating \notin {Unset, 0}
    BY <1>4 DEF Requeues
  <2>3. PICK k \in {0, 1}, l \in {0, 1} : c = t.callback_offset - 1 + k * p /\ o = t.origin - 1 + l * p
    <3>1. \E k \in {0, 1} : c = t.callback_offset - 1 + k * t.repeating
      BY <1>1, <2>2, AgedIs
    <3>2. \E l \in {0, 1} : o = t.origin - 1 + l * t.repeating
      BY <1>1, <2>2, AgedIs
    <3> QED BY <2>1, <3>1, <3>2, Zenon
  <2> HIDE DEF c, o
  <2>4. PICK a \in Int, b \in Int, m \in Int : a = t.callback_offset - t.origin /\ m = k - l /\ b = c - o
    <3>1. k \in Int /\ l \in Int
      OBVIOUS
    <3>2. k * p \in Int /\ l * p \in Int
      BY <3>1
    <3> QED BY <1>1, <2>3, <3>1, <3>2
  <2>5. b = a + m * p
    <3>1. \A x, y, z \in Int : (x - y) * z = x * z - y * z
      OBVIOUS
    <3>2. k \in Int /\ l \in Int /\ p \in Int
      OBVIOUS
    <3>3. m * p = k * p - l * p /\ k * p \in Int /\ l * p \in Int
      BY <2>4, <3>1, <3>2
    <3> QED BY <1>1, <2>3, <2>4, <3>3
  <2>6. a % p = 0
    BY <1>1, <1>4, <2>1, <2>4 DEF OnBeat
  <2>7. b % p = 0
    <3>1. a \in Int /\ b \in Int /\ m \in Int /\ p \in Nat \ {0}
      OBVIOUS
    <3>2. PICK x \in Int : a = x * p
      BY <2>6, <3>1, MultipleOf, Zenon
    <3>3. b = (x + m) * p /\ x + m \in Int
      BY <2>5, <3>1, <3>2
    <3> QED BY <3>1, <3>3, MultipleOf, Zenon
  <2> QED BY <2>1, <2>4, <2>7
<1> HIDE DEF c, o, u
<1>5. u \in Timers /\ u.serial = t.serial /\ u.callback_offset = c /\ u.origin = o /\ u.repeating = t.repeating
  BY <1>1, <1>2, <1>3 DEF Timers
<1>6. u \in GoodTimers
  BY <1>1, <1>4, <1>5 DEF GoodTimers, OnBeat, Requeues
<1> QED BY <1>5, <1>6 DEF u, c

\* The next turn of a timer is on its beat.
LEMMA NextTurnIsGood ==
  ASSUME NEW t \in GoodTimers, Requeues(t)
  PROVE  /\ [t EXCEPT !.callback_offset = NextOffset(t), !.sent = "no"] \in GoodTimers
         /\ [t EXCEPT !.callback_offset = NextOffset(t), !.sent = "no"].serial = t.serial
<1> DEFINE c == NextOffset(t)
           u == [t EXCEPT !.callback_offset = c, !.sent = "no"]
<1>1. /\ t \in Timers /\ t.callback_offset \in Times
      /\ t.repeating \in 0..MaxLate \cup {Unset} /\ OnBeat(t)
      /\ t.callback_offset \in Int /\ t.origin \in Int
      /\ t.repeating \in Nat \ {0} /\ t.repeating <= MaxLate
  BY TimerIs
<1>2. PICK p \in Nat \ {0}, x \in Int, o \in Int : p = t.repeating /\ x = t.callback_offset /\ o = t.origin
  BY <1>1
<1>3. (x - o) % p = 0
  BY <1>1, <1>2 DEF OnBeat
<1>4. c \in Times /\ c \in Int /\ (c - o) % p = 0
  <2>1. CASE x >= 0
    <3>1. c = x
      BY <1>2, <2>1 DEF NextOffset
    <3> QED BY <1>1, <1>2, <1>3, <3>1
  <2>2. CASE ~(x >= 0)
    <3>1. PICK y \in Int : y = p - 1 - x
      OBVIOUS
    <3>2. PICK q \in Int, r \in 0..p-1 : q = y \div p /\ y = p * q + r
      <4>1. y \div p \in Int /\ y % p \in 0..p-1 /\ y = p * (y \div p) + (y % p)
        OBVIOUS
      <4> QED BY <4>1
    <3>3. c = x + p * q
      BY <1>2, <2>2, <3>1, <3>2 DEF NextOffset
    <3>4. c = p - 1 - r
      BY <3>1, <3>2, <3>3
    <3>5. MaxLate \in Nat /\ p <= MaxLate
      BY <1>1, <1>2, TimerAssumption
    <3>6. c \in Int /\ c \in Times
      BY <3>4, <3>5 DEF Times
    <3>7. PICK a \in Int, b \in Int : a = x - o /\ b = c - o
      BY <3>6
    <3>8. b = a + q * p
      BY <3>3, <3>6, <3>7
    <3>9. a % p = 0
      BY <1>3, <3>7
    <3>10. \A e, f, k \in Int : e % p = 0 /\ f = e + k * p => f % p = 0
      BY MultiplesKept
    <3>11. b % p = 0
      BY <3>8, <3>9, <3>10, Zenon
    <3> QED BY <3>6, <3>7, <3>11
  <2> QED BY <2>1, <2>2
<1> HIDE DEF c
<1>5. u \in Timers /\ u.serial = t.serial /\ u.callback_offset = c /\ u.origin = o /\ u.repeating = t.repeating
  BY <1>1, <1>2, <1>4 DEF Timers
<1>6. u \in GoodTimers
  BY <1>1, <1>2, <1>4, <1>5 DEF GoodTimers, OnBeat, Requeues
<1> QED BY <1>5, <1>6 DEF c

\* The timers of s were set by the first n requests, and by none that is in the queue.
Told(s, unread, n) ==
    \A i \in DOMAIN s : s[i].serial <= n /\ \A j \in DOMAIN unread : unread[j][2] # s[i].serial

\* Every request has set one timer at most, which waits, is being sent, or is still to be set.
Serials(events, futures, unread, n) ==
    /\ Distinct(events) /\ Distinct(futures) /\ Apart(events, futures)
    /\ Told(events, unread, n) /\ Told(futures, unread, n)
    /\ \A i \in DOMAIN unread : unread[i][2] <= n
    /\ \A i, j \in DOMAIN unread : unread[i][2] = unread[j][2] => i = j

\* Timers that are taken out or keep their numbers.
LEMMA SerialsThinned ==
  ASSUME NEW events, NEW futures, NEW unread, NEW n, NEW u, NEW v,
         Serials(events, futures, unread, n), Thinned(u, events), Thinned(v, futures)
  PROVE  Serials(u, v, unread, n)
<1>1. PICK f : Chooses(u, events, f)
  BY DEF Thinned
<1>2. PICK g : Chooses(v, futures, g)
  BY DEF Thinned
<1>3. Distinct(u) /\ Distinct(v) /\ Apart(u, v)
  BY ThinnedDistinct, ThinnedApart DEF Serials
<1>4. Told(u, unread, n)
  BY <1>1 DEF Chooses, Told, Serials
<1>5. Told(v, unread, n)
  BY <1>2 DEF Chooses, Told, Serials
<1> QED BY <1>3, <1>4, <1>5 DEF Serials

\* A list has its own timers.
LEMMA ThinnedItself ==
  ASSUME NEW s
  PROVE  Thinned(s, s)
BY ThinnedSame

\* A request is made.
LEMMA SerialsRequest ==
  ASSUME NEW events, NEW futures, NEW R, NEW unread \in Seq(R), NEW n \in Nat, NEW r,
         events \in Seq(GoodTimers), futures \in Seq(GoodTimers), <<r, n + 1>> \in R,
         \A i \in DOMAIN unread : unread[i][2] \in Nat,
         Serials(events, futures, unread, n)
  PROVE  Serials(events, futures, Append(unread, <<r, n + 1>>), n + 1)
<1>1. PICK m \in Nat : m = Len(unread) /\ DOMAIN unread = 1..m
  OBVIOUS
<1>2. PICK q : q = Append(unread, <<r, n + 1>>)
  OBVIOUS
<1>3. DOMAIN q = 1..m+1 /\ q[m + 1] = <<r, n + 1>> /\ \A i \in 1..m : q[i] = unread[i]
  BY <1>1, <1>2
<1>4. q[m + 1][2] = n + 1
  BY <1>3
<1>5. \A i \in 1..m+1 : i = m + 1 \/ i \in 1..m
  OBVIOUS
<1>6. \A i \in 1..m : q[i][2] \in Nat /\ q[i][2] <= n
  BY <1>1, <1>3 DEF Serials
<1>7. ASSUME NEW s \in Seq(GoodTimers), Told(s, unread, n) PROVE Told(s, q, n + 1)
  <2> SUFFICES ASSUME NEW i \in DOMAIN s
               PROVE  s[i].serial <= n + 1 /\ \A j \in 1..m+1 : q[j][2] # s[i].serial
    BY <1>3 DEF Told
  <2>1. s[i] \in GoodTimers
    OBVIOUS
  <2>2. s[i].serial \in Nat /\ s[i].serial <= n
    BY <1>7, <2>1, TimerIs DEF Told
  <2>3. \A j \in 1..m : q[j][2] # s[i].serial
    BY <1>1, <1>3, <1>7 DEF Told
  <2>4. q[m + 1][2] # s[i].serial /\ s[i].serial <= n + 1
    BY <1>4, <2>2
  <2> QED BY <1>5, <2>3, <2>4
<1>8. Told(events, q, n + 1) /\ Told(futures, q, n + 1)
  BY <1>7 DEF Serials
<1>9. \A i \in 1..m+1 : q[i][2] <= n + 1
  BY <1>4, <1>5, <1>6
<1>10. \A i, j \in 1..m+1 : q[i][2] = q[j][2] => i = j
  <2>1. \A i \in 1..m : q[i][2] # n + 1
    BY <1>6
  <2>2. \A i, j \in 1..m : q[i][2] = q[j][2] => i = j
    BY <1>1, <1>3 DEF Serials
  <2> QED BY <1>4, <1>5, <2>1, <2>2
<1>11. Serials(events, futures, q, n + 1)
  BY <1>3, <1>8, <1>9, <1>10 DEF Serials
<1> QED BY <1>2, <1>11

\* The first request is read, ...
LEMMA SerialsRead ==
  ASSUME NEW events, NEW futures, NEW R, NEW unread \in Seq(R), NEW n, unread # <<>>,
         Serials(events, futures, unread, n)
  PROVE  /\ Serials(events, futures, Tail(unread), n)
         /\ \A i \in DOMAIN events : events[i].serial # Head(unread)[2]
         /\ \A i \in DOMAIN futures : futures[i].serial # Head(unread)[2]
         /\ Head(unread)[2] <= n /\ \A j \in DOMAIN Tail(unread) : Tail(unread)[j][2] # Head(unread)[2]
<1>1. PICK m \in Nat : m + 1 = Len(unread) /\ DOMAIN unread = 1..m+1
  <2>1. Len(unread) \in Nat \ {0} /\ DOMAIN unread = 1..Len(unread)
    OBVIOUS
  <2>2. Len(unread) - 1 \in Nat /\ Len(unread) - 1 + 1 = Len(unread)
    BY <2>1
  <2> QED BY <2>1, <2>2
<1>2. PICK q : q = Tail(unread)
  OBVIOUS
<1>3. DOMAIN q = 1..m /\ Head(unread) = unread[1] /\ \A i \in 1..m : q[i] = unread[i + 1]
  BY <1>1, <1>2
<1>4. 1 \in 1..m+1 /\ \A i \in 1..m : i + 1 \in 1..m+1 /\ i + 1 # 1
  OBVIOUS
<1>5. \A i, j \in 1..m : i + 1 = j + 1 => i = j
  OBVIOUS
<1>6. \A i \in DOMAIN q : i + 1 \in DOMAIN unread /\ q[i] = unread[i + 1]
  BY <1>1, <1>3, <1>4
<1>7. /\ Told(events, q, n) /\ Told(futures, q, n)
      /\ \A i \in DOMAIN q : q[i][2] <= n
      /\ \A i, j \in DOMAIN q : q[i][2] = q[j][2] => i = j
  <2>1. ASSUME NEW s, Told(s, unread, n) PROVE Told(s, q, n)
    <3> SUFFICES ASSUME NEW i \in DOMAIN s
                 PROVE  s[i].serial <= n /\ \A j \in DOMAIN q : q[j][2] # s[i].serial
      BY DEF Told
    <3>1. s[i].serial <= n
      BY <2>1 DEF Told
    <3>2. ASSUME NEW j \in DOMAIN q PROVE q[j][2] # s[i].serial
      <4>1. PICK k \in DOMAIN unread : q[j] = unread[k]
        BY <1>6
      <4> QED BY <2>1, <4>1 DEF Told
    <3> QED BY <3>1, <3>2
  <2>2. Told(events, q, n) /\ Told(futures, q, n)
    BY <2>1 DEF Serials
  <2>3. \A i \in DOMAIN q : q[i][2] <= n
    BY <1>6, Zenon DEF Serials
  <2>4. ASSUME NEW i \in DOMAIN q, NEW j \in DOMAIN q, q[i][2] = q[j][2] PROVE i = j
    <3>1. PICK k \in DOMAIN unread, l \in DOMAIN unread :
                  k = i + 1 /\ l = j + 1 /\ q[i] = unread[k] /\ q[j] = unread[l]
      BY <1>6
    <3>2. k = l
      BY <2>4, <3>1 DEF Serials
    <3> QED BY <1>3, <3>1, <3>2
  <2> QED BY <2>1, <2>2, <2>3, <2>4, Zenon
<1>8. Serials(events, futures, q, n)
  BY <1>7 DEF Serials
<1>9. /\ \A i \in DOMAIN events : events[i].serial # Head(unread)[2]
      /\ \A i \in DOMAIN futures : futures[i].serial # Head(unread)[2]
  BY <1>1, <1>3, <1>4 DEF Told, Serials
<1>10. Head(unread)[2] <= n /\ \A j \in DOMAIN q : q[j][2] # Head(unread)[2]
  BY <1>1, <1>3, <1>4 DEF Serials
<1> QED BY <1>2, <1>8, <1>9, <1>10

\* ... which may set a timer.
LEMMA SerialsSet ==
  ASSUME NEW events \in Seq(GoodTimers), NEW futures, NEW unread, NEW n, NEW t \in GoodTimers,
         Serials(events, futures, unread, n),
         \A i \in DOMAIN events : events[i].serial # t.serial,
         \A i \in DOMAIN futures : futures[i].serial # t.serial,
         t.serial <= n, \A j \in DOMAIN unread : unread[j][2] # t.serial
  PROVE  Sorted(events, t) \in Seq(GoodTimers) /\ Sorted(events, t) # <<>>
         /\ Serials(Sorted(events, t), futures, unread, n)
<1>1. PICK s \in Seq(GoodTimers) : s = Sorted(events, t) /\ s # <<>>
  BY SortedIs
<1>2. \A i \in DOMAIN s : s[i] = t \/ \E j \in DOMAIN events : s[i] = events[j]
  <2>1. \A i \in DOMAIN Sorted(events, t) :
           Sorted(events, t)[i] = t \/ \E j \in DOMAIN events : Sorted(events, t)[i] = events[j]
    BY SortedIs
  <2> QED BY <1>1, <2>1, Zenon
<1>3. Distinct(s)
  <2>1. Distinct(events)
    BY DEF Serials
  <2>2. Distinct(Sorted(events, t))
    BY <2>1, SortedIs
  <2> QED BY <1>1, <2>2
<1>4. Apart(s, futures)
  BY <1>2 DEF Apart, Serials
<1>5. Told(s, unread, n)
  BY <1>2 DEF Told, Serials
<1>6. Serials(s, futures, unread, n)
  BY <1>3, <1>4, <1>5 DEF Serials
<1> QED BY <1>1, <1>6

\* The timers that have expired are sent.
LEMMA SerialsFire ==
  ASSUME NEW events \in Seq(GoodTimers), NEW futures \in Seq(GoodTimers), NEW unread, NEW n,
         Serials(events, futures, unread, n), NEW k \in 0..Len(events), NEW kept, kept \subseteq 1..k
  PROVE  /\ SubSeq(events, k + 1, Len(events)) \in Seq(GoodTimers)
         /\ futures \o Retained(events, kept) \in Seq(GoodTimers)
         /\ Serials(SubSeq(events, k + 1, Len(events)), futures \o Retained(events, kept), unread, n)
<1>1. PICK r \in Seq(GoodTimers) : r = Retained(events, kept)
  BY FrontRetained
<1>2. PICK a \in Seq(GoodTimers), b \in Seq(GoodTimers) :
         a = SubSeq(events, 1, k) /\ b = SubSeq(events, k + 1, Len(events)) /\ a \o b = events
  BY CutIs
<1>3. Thinned(r, events) /\ (\A i \in DOMAIN r : \E j \in DOMAIN events : r[i] = events[j]) /\ Apart(b, r)
  <2>1. Distinct(events)
    BY DEF Serials
  <2>2. /\ Retained(events, kept) \in Seq(GoodTimers) /\ Thinned(Retained(events, kept), events)
        /\ \A i \in DOMAIN Retained(events, kept) : \E j \in DOMAIN events : Retained(events, kept)[i] = events[j]
        /\ Distinct(events) => Apart(SubSeq(events, k + 1, Len(events)), Retained(events, kept))
    BY FrontRetained
  <2> QED BY <1>1, <1>2, <2>1, <2>2, Zenon
<1>4. \A i \in DOMAIN b : \E j \in DOMAIN events : b[i] = events[j]
  <2>1. /\ DOMAIN SubSeq(events, k + 1, Len(events)) = 1..Len(events) - k
        /\ \A i \in 1..Len(events) - k : k + i \in 1..Len(events) /\ SubSeq(events, k + 1, Len(events))[i] = events[k + i]
    BY BackIs
  <2>2. DOMAIN events = 1..Len(events)
    OBVIOUS
  <2>3. ASSUME NEW i \in DOMAIN b PROVE \E j \in DOMAIN events : b[i] = events[j]
    <3>1. i \in 1..Len(events) - k
      BY <1>2, <2>1, <2>3, Zenon
    <3>2. k + i \in DOMAIN events /\ b[i] = events[k + i]
      BY <1>2, <2>1, <2>2, <3>1, Zenon
    <3> QED BY <3>2, Zenon
  <2> QED BY <2>3
<1>5. PICK v \in Seq(GoodTimers) : v = futures \o r
  BY JoinIs
<1>6. \A i \in DOMAIN v : \/ \E j \in DOMAIN futures : v[i] = futures[j]
                          \/ \E j \in DOMAIN r : v[i] = r[j]
  <2>1. /\ \A i \in 1..Len(futures) : (futures \o r)[i] = futures[i]
        /\ \A i \in 1..Len(futures \o r) : i \notin 1..Len(futures) =>
              i - Len(futures) \in 1..Len(r) /\ (futures \o r)[i] = r[i - Len(futures)]
    BY JoinIs
  <2>2. DOMAIN v = 1..Len(v) /\ DOMAIN r = 1..Len(r) /\ DOMAIN futures = 1..Len(futures)
    OBVIOUS
  <2> QED BY <1>5, <2>1, <2>2, Zenon
<1>7. Distinct(b)
  <2>1. Distinct(a \o b)
    BY <1>2 DEF Serials
  <2> QED BY <2>1, JoinDistinct
<1>8. Distinct(r) /\ Apart(futures, r)
  <2>1. Distinct(events) /\ Apart(events, futures)
    BY DEF Serials
  <2>2. Distinct(r)
    BY <1>3, <2>1, ThinnedDistinct
  <2>3. Apart(futures, r)
    BY <1>3, <2>1 DEF Apart
  <2> QED BY <2>2, <2>3
<1>9. Distinct(v)
  <2>1. Distinct(futures)
    BY DEF Serials
  <2> QED BY <1>5, <1>8, <2>1, JoinDistinct
<1>10. Apart(b, v)
  <2>1. Apart(b, futures)
    BY <1>4 DEF Serials, Apart
  <2> QED BY <1>3, <1>6, <2>1 DEF Apart
<1>11. Told(b, unread, n)
  BY <1>4 DEF Serials, Told
<1>12. Told(v, unread, n)
  <2>1. Told(r, unread, n)
    BY <1>3 DEF Serials, Told
  <2>2. Told(futures, unread, n)
    BY DEF Serials
  <2> QED BY <1>6, <2>1, <2>2 DEF Told
<1>13. Serials(b, v, unread, n)
  BY <1>7, <1>9, <1>10, <1>11, <1>12 DEF Serials
<1> QED BY <1>1, <1>2, <1>5, <1>13

\* A timer that was sent is removed, ...
LEMMA SerialsSent ==
  ASSUME NEW events \in Seq(GoodTimers), NEW futures \in Seq(GoodTimers), NEW unread, NEW n,
         Serials(events, futures, unread, n), NEW k \in 1..Len(futures)
  PROVE  /\ RemoveAt(futures, k) \in Seq(GoodTimers) /\ Serials(events, RemoveAt(futures, k), unread, n)
         /\ \A i \in DOMAIN RemoveAt(futures, k) : RemoveAt(futures, k)[i].serial # futures[k].serial
         /\ \A i \in DOMAIN events : events[i].serial # futures[k].serial
         /\ futures[k].serial <= n /\ \A j \in DOMAIN unread : unread[j][2] # futures[k].serial
<1>1. k \in DOMAIN futures
  OBVIOUS
<1>2. PICK v \in Seq(GoodTimers) : v = RemoveAt(futures, k)
  BY RemoveAtIs
<1>3. Thinned(v, futures) /\ \A i \in DOMAIN v : \E j \in DOMAIN futures : j # k /\ v[i] = futures[j]
  <2>1. /\ Thinned(RemoveAt(futures, k), futures)
        /\ \A i \in DOMAIN RemoveAt(futures, k) :
              \E j \in DOMAIN futures : j # k /\ RemoveAt(futures, k)[i] = futures[j]
    BY RemoveAtIs
  <2> QED BY <1>2, <2>1, Zenon
<1>4. Serials(events, v, unread, n)
  BY <1>3, ThinnedItself, SerialsThinned
<1>5. \A i \in DOMAIN v : v[i].serial # futures[k].serial
  BY <1>1, <1>3 DEF Serials, Distinct
<1>6. \A i \in DOMAIN events : events[i].serial # futures[k].serial
  BY <1>1 DEF Serials, Apart
<1>7. futures[k].serial <= n /\ \A j \in DOMAIN unread : unread[j][2] # futures[k].serial
  BY <1>1 DEF Serials, Told
<1> QED BY <1>2, <1>4, <1>5, <1>6, <1>7

----------------------------------------------------------------------------
(* The timer program: what always holds. *)

\* Every timer is one that a request sets, and on its beat.
TimersTyped ==
    /\ TimerTypeOK /\ at \in Nat \ {0}
    /\ timer_events \in Seq(GoodTimers) /\ extra_futures \in Seq(GoodTimers)

SerialsDiffer == Serials(timer_events, extra_futures, input, requests)

\* The time up to the first timer that waits.
FirstTimer(events) == IF events = <<>> THEN Unset ELSE Max({0, events[1].callback_offset})

\* In a poll, a timer that is put back wakes the task; when the task has looked at the timers,
\* nothing is left in the queue and the Delay runs up to the first timer, or the task is woken.
DelayIsSet ==
    /\ pc \in {"requests", "timers", "sends"} => waker \/ task_woken
    /\ pc = "timers" => input = <<>> \/ task_woken
    /\ pc \in {"sends", "asleep"} => task_woken \/ (input = <<>> /\ armed = FirstTimer(timer_events))

TimerInv == TimersTyped /\ SerialsDiffer /\ DelayIsSet

\* The queue holds requests.
LEMMA RequestsAre ==
  ASSUME input \in Seq(TimerRequests \X (1..MaxRequests))
  PROVE  /\ \A i \in DOMAIN input : /\ input[i] \in TimerRequests \X (1..MaxRequests)
                                    /\ input[i][1] \in TimerRequests /\ input[i][2] \in 1..MaxRequests
                                    /\ input[i][2] \in Nat
         /\ input # <<>> => /\ Head(input)[1] \in TimerRequests /\ Head(input)[2] \in 1..MaxRequests
                            /\ Tail(input) \in Seq(TimerRequests \X (1..MaxRequests))
<1>1. MaxRequests \in Nat
  BY TimerAssumption
<1>2. ASSUME NEW i \in DOMAIN input
      PROVE  /\ input[i] \in TimerRequests \X (1..MaxRequests)
             /\ input[i][1] \in TimerRequests /\ input[i][2] \in 1..MaxRequests /\ input[i][2] \in Nat
  <2>1. input[i] \in TimerRequests \X (1..MaxRequests)
    OBVIOUS
  <2> QED BY <1>1, <2>1
<1>3. ASSUME input # <<>>
      PROVE  /\ Head(input)[1] \in TimerRequests /\ Head(input)[2] \in 1..MaxRequests
             /\ Tail(input) \in Seq(TimerRequests \X (1..MaxRequests))
  <2>1. Head(input) \in TimerRequests \X (1..MaxRequests)
    BY <1>3
  <2>2. Tail(input) \in Seq(TimerRequests \X (1..MaxRequests))
    BY <1>3
  <2> QED BY <2>1, <2>2
<1> QED BY <1>2, <1>3

\* What a request sets is a timer.
LEMMA NewTimerIs ==
  ASSUME NEW r \in TimerRequests, NEW n \in 1..MaxRequests
  PROVE  /\ NewTimer(r, n) \in GoodTimers /\ NewTimer(r, n).serial = n
<1> DEFINE t == NewTimer(r, n)
<1>1. /\ r.program \in Clients /\ r.id \in Nat /\ r.duration \in Nat /\ r.duration <= MaxLate
      /\ MaxLate \in Nat /\ MaxRequests \in Nat /\ Unset \notin Nat
  BY TimerAssumption DEF RequestOK
<1>2. r.duration \in Times /\ 0 \in Times /\ r.duration \in 0..MaxLate
  BY <1>1 DEF Times
<1>3. /\ t.program = r.program /\ t.id = r.id /\ t.callback_offset = r.duration /\ t.sent = "no"
      /\ t.serial = n /\ t.origin = 0 /\ t.repeating \in {r.duration, Unset}
      /\ t.repeating # Unset => t.repeating = r.duration
  BY DEF NewTimer
<1>4. t \in Timers
  <2>1. r.kind = "CallEvery" \/ r.kind # "CallEvery"
    OBVIOUS
  <2> QED BY <1>1, <1>2 DEF NewTimer, Timers
<1>5. ASSUME Requeues(t) PROVE (t.callback_offset - t.origin) % t.repeating = 0
  <2>1. PICK d \in Nat \ {0} : d = r.duration /\ t.repeating = d /\ t.callback_offset = d
    BY <1>1, <1>3, <1>5 DEF Requeues
  <2>2. d - 0 = d /\ d = 1 * d /\ d \in Int
    OBVIOUS
  <2>3. d % d = 0
    BY <2>2, MultipleOf
  <2>4. t.callback_offset - t.origin = d
    BY <1>3, <2>1, <2>2
  <2> QED BY <2>1, <2>3, <2>4
<1>6. t.repeating \in 0..MaxLate \cup {Unset}
  BY <1>2, <1>3
<1> HIDE DEF t
<1>7. t \in GoodTimers
  BY <1>4, <1>5, <1>6 DEF GoodTimers, OnBeat
<1> QED BY <1>3, <1>7 DEF t

\* A list of timers, one tick later.
LEMMA LaterIs ==
  ASSUME NEW s \in Seq(GoodTimers)
  PROVE  /\ [i \in DOMAIN s |-> OneTickLater(s[i])] \in Seq(GoodTimers)
         /\ Thinned([i \in DOMAIN s |-> OneTickLater(s[i])], s)
         /\ [i \in DOMAIN s |-> OneTickLater(s[i])] = <<>> <=> s = <<>>
         /\ s # <<>> => /\ s[1] \in GoodTimers
                        /\ [i \in DOMAIN s |-> OneTickLater(s[i])][1].callback_offset =
                              Aged(s[1].callback_offset, s[1].repeating)
<1> DEFINE u == [i \in DOMAIN s |-> OneTickLater(s[i])]
<1>1. PICK n \in Nat : n = Len(s) /\ DOMAIN s = 1..n
  OBVIOUS
<1>2. ASSUME NEW i \in 1..n
      PROVE  /\ s[i] \in GoodTimers /\ u[i] \in GoodTimers /\ u[i].serial = s[i].serial
             /\ u[i].callback_offset = Aged(s[i].callback_offset, s[i].repeating)
  <2>1. s[i] \in GoodTimers
    BY <1>1
  <2>2. u[i] = OneTickLater(s[i])
    BY <1>1
  <2> QED BY <2>1, <2>2, TickKeepsTimer
<1>3. u = [i \in 1..n |-> u[i]] /\ DOMAIN u = 1..n
  BY <1>1
<1> HIDE DEF u
<1>4. u \in Seq(GoodTimers) /\ Len(u) = n
  <2>1. u \in [1..n -> GoodTimers]
    BY <1>2, <1>3
  <2> QED BY <2>1
<1>5. Thinned(u, s)
  BY <1>1, <1>2, <1>3, ThinnedSame
<1>6. (u = <<>> <=> n = 0) /\ (s = <<>> <=> n = 0)
  BY <1>1, <1>4
<1>7. s # <<>> => 1 \in 1..n
  BY <1>6
<1> QED BY <1>2, <1>4, <1>5, <1>6, <1>7 DEF u

\* A timer of a list whose TimeOut is handed over.
LEMMA SentIs ==
  ASSUME NEW s \in Seq(GoodTimers), NEW k \in 1..Len(s), NEW how \in {"yielding", "yes"}
  PROVE  /\ [s EXCEPT ![k].sent = how] \in Seq(GoodTimers)
         /\ Thinned([s EXCEPT ![k].sent = how], s)
<1> DEFINE v == [s[k] EXCEPT !.sent = how]
           u == [s EXCEPT ![k] = v]
<1>1. [s EXCEPT ![k].sent = how] = u
  OBVIOUS
<1>2. PICK n \in Nat : n = Len(s) /\ DOMAIN s = 1..n /\ k \in 1..n /\ s[k] \in GoodTimers
  OBVIOUS
<1>3. v \in GoodTimers /\ v.serial = s[k].serial
  <2>1. s[k] \in Timers /\ s[k].repeating \in 0..MaxLate \cup {Unset} /\ OnBeat(s[k])
    BY <1>2, TimerIs
  <2>2. /\ v \in Timers /\ v.serial = s[k].serial /\ v.repeating = s[k].repeating
        /\ v.callback_offset = s[k].callback_offset /\ v.origin = s[k].origin
    BY <2>1 DEF Timers
  <2> HIDE DEF v
  <2>3. OnBeat(v)
    BY <2>1, <2>2 DEF OnBeat, Requeues
  <2> QED BY <2>1, <2>2, <2>3 DEF GoodTimers
<1> HIDE DEF v
<1>4. DOMAIN u = 1..n /\ u[k] = v /\ \A i \in 1..n : i # k => u[i] = s[i]
  BY <1>2
<1>5. u \in Seq(GoodTimers)
  BY <1>2, <1>3
<1> HIDE DEF u
<1>6. Thinned(u, s)
  <2>1. \A i \in 1..n : u[i].serial = s[i].serial
    BY <1>3, <1>4
  <2> QED BY <1>2, <1>4, <2>1, ThinnedSame
<1> QED BY <1>1, <1>5, <1>6

\* The timers that have expired are counted.
LEMMA ExpiredIs ==
  ASSUME NEW S, timer_events \in Seq(S)
  PROVE  Cardinality(Expired) \in 0..Len(timer_events)
<1>1. PICK L \in Nat : L = Len(timer_events) /\ DOMAIN timer_events = 1..L
  OBVIOUS
<1>2. IsFiniteSet(1..L) /\ Cardinality(1..L) = L
  <2>1. 1 \in Int /\ L \in Int
    OBVIOUS
  <2>2. IsFiniteSet(1..L) /\ Cardinality(1..L) = IF 1 > L THEN 0 ELSE L - 1 + 1
    BY <2>1, FS_Interval, Zenon
  <2>3. \A x : x = (IF 1 > L THEN 0 ELSE L - 1 + 1) => x = L
    OBVIOUS
  <2> QED BY <2>2, <2>3
<1>3. Expired \in SUBSET (1..L)
  BY <1>1 DEF Expired
<1>4. IsFiniteSet(Expired) /\ Cardinality(Expired) <= L /\ Cardinality(Expired) \in Nat
  BY <1>2, <1>3, FS_Subset, FS_CardinalityType
<1> QED BY <1>1, <1>4

\* Lists of good timers are lists of timers.
LEMMA GoodLists == Seq(GoodTimers) \subseteq Seq(Timers)
<1>1. GoodTimers \subseteq Timers
  BY DEF GoodTimers
<1> QED BY <1>1

\* At the start.
LEMMA TimerInvInit == TimerInit => TimerInv
<1> SUFFICES ASSUME TimerInit PROVE TimerInv
  OBVIOUS
<1>1. /\ MaxLate \in Nat /\ MaxRequests \in Nat /\ Capacity \in Nat \ {0} /\ MaxStarts \in Nat
      /\ Unset \notin Nat
  BY TimerAssumption
<1>2. timer_events \in Seq(GoodTimers) /\ extra_futures \in Seq(GoodTimers)
  BY DEF TimerInit
<1>3. TimersTyped
  <2>1. input \in Seq(TimerRequests \X (1..MaxRequests))
    BY DEF TimerInit
  <2>2. timer_events \in Seq(Timers) /\ extra_futures \in Seq(Timers)
    BY <1>2, GoodLists
  <2>3. /\ sink \in [Clients -> {Unset, Disconnected, "input"}] /\ running \subseteq Clients
        /\ inbox \in [Clients -> 0..Capacity] /\ waiting \subseteq Clients
    BY <1>1 DEF TimerInit
  <2>4. /\ waker \in BOOLEAN /\ armed \in 0..MaxLate \cup {Unset} /\ task_woken \in BOOLEAN /\ closed \in BOOLEAN
        /\ pc \in {"asleep", "requests", "timers", "sends", "ended"} /\ at \in Nat \ {0}
        /\ requests \in 0..MaxRequests /\ starts \in 0..MaxStarts
    <3>1. requests \in 0..MaxRequests /\ starts \in 0..MaxStarts /\ at \in Nat \ {0}
      BY <1>1 DEF TimerInit
    <3>2. waker \in BOOLEAN /\ task_woken \in BOOLEAN /\ closed \in BOOLEAN
      BY Zenon DEF TimerInit
    <3>3. armed \in 0..MaxLate \cup {Unset} /\ pc \in {"asleep", "requests", "timers", "sends", "ended"}
      BY Zenon DEF TimerInit
    <3> QED BY <3>1, <3>2, <3>3
  <2> QED BY <1>2, <2>1, <2>2, <2>3, <2>4 DEF TimersTyped, TimerTypeOK
<1>4. SerialsDiffer
  <2>1. DOMAIN <<>> = {}
    OBVIOUS
  <2> QED BY <2>1, Zenon DEF SerialsDiffer, Serials, Distinct, Apart, Told, TimerInit
<1>5. DelayIsSet
  BY DEF DelayIsSet, TimerInit
<1> QED BY <1>3, <1>4, <1>5 DEF TimerInv

\* The lists that a step makes are lists of timers on their beat, and keep the numbers apart.
Lists == timer_events \in Seq(GoodTimers) /\ extra_futures \in Seq(GoodTimers)

\* No step sets a second timer for a request, or puts one off its beat.
LEMMA ListsKept ==
  TimerInv /\ TimerNext => Lists' /\ SerialsDiffer'
<1> SUFFICES ASSUME TimerInv, TimerNext PROVE Lists' /\ SerialsDiffer'
  OBVIOUS
<1>1. /\ timer_events \in Seq(GoodTimers) /\ extra_futures \in Seq(GoodTimers)
      /\ Serials(timer_events, extra_futures, input, requests)
      /\ input \in Seq(TimerRequests \X (1..MaxRequests)) /\ requests \in 0..MaxRequests /\ requests \in Nat
      /\ at \in Nat \ {0} /\ MaxRequests \in Nat
  BY TimerAssumption DEF TimerInv, TimersTyped, SerialsDiffer, TimerTypeOK
<1>2. CASE UNCHANGED <<timer_events, extra_futures, input, requests>>
  BY <1>1, <1>2, Zenon DEF Lists, SerialsDiffer
<1>3. CASE Tick
  <2>1. PICK u \in Seq(GoodTimers), v \in Seq(GoodTimers) :
           /\ timer_events' = u /\ Thinned(u, timer_events)
           /\ extra_futures' = v /\ Thinned(v, extra_futures)
    BY <1>1, <1>3, LaterIs DEF Tick
  <2>2. Serials(u, v, input, requests)
    BY <1>1, <2>1, SerialsThinned, Zenon
  <2> QED BY <1>3, <2>1, <2>2, Zenon DEF Lists, SerialsDiffer, Tick, counters
<1>4. CASE Request
  <2>1. PICK r \in TimerRequests : input' = Append(input, <<r, requests + 1>>)
    BY <1>4 DEF Request
  <2>2. /\ requests' = requests + 1 /\ requests + 1 \in 1..MaxRequests
        /\ timer_events' = timer_events /\ extra_futures' = extra_futures
    BY <1>1, <1>4 DEF Request, timerVars
  <2>3. <<r, requests + 1>> \in TimerRequests \X (1..MaxRequests)
    BY <2>2
  <2>4. \A i \in DOMAIN input : input[i][2] \in Nat
    BY <1>1, RequestsAre
  <2>5. Serials(timer_events, extra_futures, Append(input, <<r, requests + 1>>), requests + 1)
    BY <1>1, <2>3, <2>4, SerialsRequest
  <2> QED BY <1>1, <2>1, <2>2, <2>5, Zenon DEF Lists, SerialsDiffer
<1>5. CASE ReadRequest
  <2>1. /\ input # <<>> /\ input' = Tail(input) /\ extra_futures' = extra_futures /\ requests' = requests
    BY <1>5 DEF ReadRequest, counters
  <2>2. PICK r, n : r = Head(input)[1] /\ n = Head(input)[2] /\ r \in TimerRequests /\ n \in 1..MaxRequests
    BY <1>1, <2>1, RequestsAre
  <2>3. /\ Serials(timer_events, extra_futures, Tail(input), requests)
        /\ \A i \in DOMAIN timer_events : timer_events[i].serial # n
        /\ \A i \in DOMAIN extra_futures : extra_futures[i].serial # n
        /\ n <= requests /\ \A j \in DOMAIN Tail(input) : Tail(input)[j][2] # n
    <3>1. /\ Serials(timer_events, extra_futures, Tail(input), requests)
          /\ \A i \in DOMAIN timer_events : timer_events[i].serial # Head(input)[2]
          /\ \A i \in DOMAIN extra_futures : extra_futures[i].serial # Head(input)[2]
          /\ Head(input)[2] <= requests
          /\ \A j \in DOMAIN Tail(input) : Tail(input)[j][2] # Head(input)[2]
      BY <1>1, <2>1, SerialsRead
    <3> QED BY <2>2, <3>1, Zenon
  <2>4. CASE r.kind = "Cancel"
    <3>1. PICK kept : timer_events' = Retained(timer_events, kept)
      BY <1>5, <2>2, <2>4 DEF ReadRequest
    <3>2. PICK u, f : /\ u \in Seq(GoodTimers) /\ u = Retained(timer_events, kept)
                      /\ Picks(u, timer_events, f, kept \cap DOMAIN timer_events)
      BY <1>1, RetainedIs
    <3>3. Thinned(u, timer_events)
      <4>1. kept \cap DOMAIN timer_events \subseteq DOMAIN timer_events
        OBVIOUS
      <4> QED BY <3>2, <4>1, PicksThinned
    <3>4. Serials(u, extra_futures, Tail(input), requests)
      BY <2>3, <3>3, ThinnedItself, SerialsThinned, Zenon
    <3> QED BY <1>1, <2>1, <3>1, <3>2, <3>4, Zenon DEF Lists, SerialsDiffer
  <2>5. CASE r.kind # "Cancel"
    <3>1. timer_events' = Sorted(timer_events, NewTimer(r, n))
      BY <1>5, <2>2, <2>5 DEF ReadRequest
    <3>2. PICK t \in GoodTimers : t = NewTimer(r, n) /\ t.serial = n
      BY <2>2, NewTimerIs
    <3>3. /\ Sorted(timer_events, t) \in Seq(GoodTimers)
          /\ Serials(Sorted(timer_events, t), extra_futures, Tail(input), requests)
      BY <1>1, <2>3, <3>2, SerialsSet
    <3> QED BY <1>1, <2>1, <3>1, <3>2, <3>3, Zenon DEF Lists, SerialsDiffer
  <2> QED BY <2>4, <2>5
<1>6. CASE NoMoreRequests
  <2>1. CASE closed
    <3>1. timer_events' = <<>> /\ extra_futures' = <<>> /\ input' = input /\ requests' = requests
      BY <1>6, <2>1 DEF NoMoreRequests, counters
    <3>2. <<>> \in Seq(GoodTimers) /\ DOMAIN <<>> = {}
      OBVIOUS
    <3>3. Serials(<<>>, <<>>, input, requests)
      BY <1>1, <3>2, Zenon DEF Serials, Distinct, Apart, Told
    <3> QED BY <3>1, <3>2, <3>3, Zenon DEF Lists, SerialsDiffer
  <2>2. CASE ~closed
    BY <1>2, <1>6, <2>2 DEF NoMoreRequests, counters
  <2> QED BY <2>1, <2>2
<1>7. CASE FireTimers
  <2>1. PICK k \in 0..Len(timer_events) : k = Cardinality(Expired)
    BY <1>1, ExpiredIs
  <2>2. PICK kept : /\ kept \subseteq 1..k
                    /\ timer_events' = SubSeq(timer_events, k + 1, Len(timer_events))
                    /\ extra_futures' = extra_futures \o Retained(timer_events, kept)
    BY <1>7, <2>1 DEF FireTimers
  <2>3. /\ SubSeq(timer_events, k + 1, Len(timer_events)) \in Seq(GoodTimers)
        /\ extra_futures \o Retained(timer_events, kept) \in Seq(GoodTimers)
        /\ Serials(SubSeq(timer_events, k + 1, Len(timer_events)),
                   extra_futures \o Retained(timer_events, kept), input, requests)
    BY <1>1, <2>2, SerialsFire
  <2>4. input' = input /\ requests' = requests
    BY <1>7 DEF FireTimers, counters
  <2> QED BY <2>2, <2>3, <2>4, Zenon DEF Lists, SerialsDiffer
<1>8. ASSUME MayPoll PROVE at \in 1..Len(extra_futures) /\ Polled \in GoodTimers
  BY <1>1, <1>8 DEF MayPoll, Polled
<1>9. CASE SendTimeOut
  <2>1. at \in 1..Len(extra_futures)
    BY <1>8, <1>9 DEF SendTimeOut
  <2>2. PICK how \in {"yielding", "yes"} : extra_futures' = [extra_futures EXCEPT ![at].sent = how]
    BY <1>9 DEF SendTimeOut
  <2>3. PICK v \in Seq(GoodTimers) : extra_futures' = v /\ Thinned(v, extra_futures)
    <3>1. /\ [extra_futures EXCEPT ![at].sent = how] \in Seq(GoodTimers)
          /\ Thinned([extra_futures EXCEPT ![at].sent = how], extra_futures)
      BY <1>1, <2>1, SentIs
    <3> QED BY <2>2, <3>1
  <2>4. Serials(timer_events, v, input, requests)
    BY <1>1, <2>3, ThinnedItself, SerialsThinned, Zenon
  <2>5. timer_events' = timer_events /\ input' = input /\ requests' = requests
    BY <1>9 DEF SendTimeOut, counters
  <2> QED BY <1>1, <2>3, <2>4, <2>5, Zenon DEF Lists, SerialsDiffer
<1>10. CASE EndSend \/ SendFails
  <2>1. at \in 1..Len(extra_futures) /\ Polled \in GoodTimers
    BY <1>8, <1>10 DEF EndSend, SendFails
  <2>2. extra_futures' = RemoveAt(extra_futures, at) /\ input' = input /\ requests' = requests
    BY <1>10 DEF EndSend, SendFails, counters
  <2>3. PICK v \in Seq(GoodTimers) :
           /\ v = RemoveAt(extra_futures, at) /\ Serials(timer_events, v, input, requests)
           /\ \A i \in DOMAIN v : v[i].serial # Polled.serial
           /\ \A i \in DOMAIN timer_events : timer_events[i].serial # Polled.serial
           /\ Polled.serial <= requests /\ \A j \in DOMAIN input : input[j][2] # Polled.serial
    <3>1. /\ RemoveAt(extra_futures, at) \in Seq(GoodTimers)
          /\ Serials(timer_events, RemoveAt(extra_futures, at), input, requests)
          /\ \A i \in DOMAIN RemoveAt(extra_futures, at) :
                RemoveAt(extra_futures, at)[i].serial # extra_futures[at].serial
          /\ \A i \in DOMAIN timer_events : timer_events[i].serial # extra_futures[at].serial
          /\ extra_futures[at].serial <= requests
          /\ \A j \in DOMAIN input : input[j][2] # extra_futures[at].serial
      BY <1>1, <2>1, SerialsSent
    <3> QED BY <3>1, Zenon DEF Polled
  <2>4. CASE timer_events' = timer_events
    BY <1>1, <2>2, <2>3, <2>4, Zenon DEF Lists, SerialsDiffer
  <2>5. CASE EndSend /\ Requeues(Polled)
    <3>1. PICK t \in GoodTimers :
             /\ t = [Polled EXCEPT !.callback_offset = NextOffset(Polled), !.sent = "no"]
             /\ t.serial = Polled.serial
      BY <2>1, <2>5, NextTurnIsGood
    <3>2. timer_events' = Sorted(timer_events, t)
      BY <2>5, <3>1 DEF EndSend
    <3>3. /\ Sorted(timer_events, t) \in Seq(GoodTimers)
          /\ Serials(Sorted(timer_events, t), v, input, requests)
      BY <1>1, <2>3, <3>1, SerialsSet
    <3> QED BY <2>2, <2>3, <3>2, <3>3, Zenon DEF Lists, SerialsDiffer
  <2> QED BY <1>10, <2>4, <2>5 DEF EndSend, SendFails
<1>11. CASE BeginPoll \/ AwaitTimer \/ SendWaits \/ EndPoll
  BY <1>2, <1>11 DEF BeginPoll, AwaitTimer, SendWaits, EndPoll, timerVars, counters
<1>12. CASE DelayExpires \/ CloseInput
  BY <1>2, <1>12 DEF DelayExpires, CloseInput, timerVars, counters
<1>13. ASSUME NEW p \in Clients, Read(p) \/ End(p) \/ Start(p) PROVE Lists' /\ SerialsDiffer'
  BY <1>2, <1>13 DEF Read, End, Start, timerVars, counters
<1> QED BY <1>3, <1>4, <1>5, <1>6, <1>7, <1>9, <1>10, <1>11, <1>12, <1>13 DEF TimerNext, Task

\* The parts of the type that no list is in.
TargetsTyped ==
    /\ sink \in [Clients -> {Unset, Disconnected, "input"}] /\ running \subseteq Clients
    /\ inbox \in [Clients -> 0..Capacity] /\ waiting \subseteq Clients
    /\ closed \in BOOLEAN /\ requests \in 0..MaxRequests /\ starts \in 0..MaxStarts
TaskTyped ==
    /\ input \in Seq(TimerRequests \X (1..MaxRequests))
    /\ waker \in BOOLEAN /\ armed \in 0..MaxLate \cup {Unset}
    /\ pc \in {"asleep", "requests", "timers", "sends", "ended"} /\ at \in Nat \ {0} /\ task_woken \in BOOLEAN

\* The first timer that waits for its turn.
LEMMA FirstIs ==
  ASSUME timer_events \in Seq(GoodTimers), timer_events # <<>>
  PROVE  /\ timer_events[1] \in GoodTimers /\ timer_events[1].callback_offset \in Times
         /\ timer_events[1].callback_offset \in Int
<1>1. timer_events[1] \in GoodTimers
  OBVIOUS
<1> QED BY <1>1, TimerIs

\* No step breaks the type of what the timer sees of other programs.
LEMMA TargetsKept ==
  TimerInv /\ TimerNext => TargetsTyped'
<1> SUFFICES ASSUME TimerInv, TimerNext PROVE TargetsTyped'
  OBVIOUS
<1>1. /\ TargetsTyped /\ Capacity \in Nat \ {0} /\ MaxRequests \in Nat /\ MaxStarts \in Nat
      /\ Disconnected \notin {"input", Unset}
  BY TimerAssumption DEF TimerInv, TimersTyped, TargetsTyped, TimerTypeOK
<1>2. CASE UNCHANGED <<targetVars, closed, counters>>
  BY <1>1, <1>2 DEF TargetsTyped, targetVars, counters
<1>3. CASE Tick \/ DelayExpires \/ BeginPoll \/ ReadRequest \/ NoMoreRequests \/ AwaitTimer \/ EndSend \/ EndPoll
  BY <1>2, <1>3 DEF Tick, DelayExpires, BeginPoll, ReadRequest, NoMoreRequests, AwaitTimer, EndSend, EndPoll
<1>4. CASE Request
  BY <1>1, <1>4 DEF Request, TargetsTyped, targetVars
<1>5. CASE CloseInput
  BY <1>1, <1>5 DEF CloseInput, TargetsTyped, targetVars, counters
<1>6. CASE FireTimers
  BY <1>1, <1>6 DEF FireTimers, TargetsTyped, counters
<1>7. CASE SendTimeOut
  <2>1. PICK p \in Clients : inbox[p] < Capacity /\ inbox' = [inbox EXCEPT ![p] = @ + 1]
    <3>1. Polled \in GoodTimers
      BY <1>7 DEF SendTimeOut, MayPoll, Polled, TimerInv, TimersTyped
    <3>2. Polled.program \in Clients
      BY <3>1, TimerIs
    <3> QED BY <1>7, <3>2 DEF SendTimeOut
  <2>2. inbox' \in [Clients -> 0..Capacity]
    BY <1>1, <2>1 DEF TargetsTyped
  <2> QED BY <1>1, <1>7, <2>2 DEF SendTimeOut, TargetsTyped, counters
<1>8. CASE SendFails
  BY <1>1, <1>8 DEF SendFails, TargetsTyped, counters
<1>9. CASE SendWaits
  <2>1. waiting' = waiting \cup {Polled.program} \/ waiting' = waiting
    BY <1>9 DEF SendWaits
  <2>2. Polled.program \in Clients
    <3>1. Polled \in GoodTimers
      BY <1>9 DEF SendWaits, MayPoll, Polled, TimerInv, TimersTyped
    <3> QED BY <3>1, TimerIs
  <2> QED BY <1>1, <1>9, <2>1, <2>2 DEF SendWaits, TargetsTyped, counters
<1>10. ASSUME NEW p \in Clients, Read(p) PROVE TargetsTyped'
  <2>1. inbox' \in [Clients -> 0..Capacity]
    BY <1>1, <1>10 DEF Read, TargetsTyped
  <2> QED BY <1>1, <1>10, <2>1 DEF Read, WakeIfWaitingFor, TargetsTyped, counters
<1>11. ASSUME NEW p \in Clients, End(p) PROVE TargetsTyped'
  <2>1. inbox' \in [Clients -> 0..Capacity]
    BY <1>1, <1>11 DEF End, TargetsTyped
  <2> QED BY <1>1, <1>11, <2>1 DEF End, WakeIfWaitingFor, TargetsTyped, counters
<1>12. ASSUME NEW p \in Clients, Start(p) PROVE TargetsTyped'
  BY <1>1, <1>12 DEF Start, TargetsTyped
<1> QED BY <1>3, <1>4, <1>5, <1>6, <1>7, <1>8, <1>9, <1>10, <1>11, <1>12 DEF TimerNext, Task

\* No step breaks the type of the task.
LEMMA TaskKept ==
  TimerInv /\ TimerNext => TaskTyped'
<1> SUFFICES ASSUME TimerInv, TimerNext PROVE TaskTyped'
  OBVIOUS
<1>1. /\ TaskTyped /\ MaxRequests \in Nat /\ MaxLate \in Nat /\ Unset \notin Nat /\ requests \in 0..MaxRequests
      /\ timer_events \in Seq(GoodTimers)
  BY TimerAssumption DEF TimerInv, TimersTyped, TaskTyped, TimerTypeOK
<1>2. CASE Tick
  BY <1>1, <1>2 DEF Tick, TaskTyped
<1>3. CASE DelayExpires \/ CloseInput
  BY <1>1, <1>3 DEF DelayExpires, CloseInput, TaskTyped, timerVars
<1>4. CASE Request
  <2>1. PICK r \in TimerRequests : input' = Append(input, <<r, requests + 1>>)
    BY <1>4 DEF Request
  <2>2. <<r, requests + 1>> \in TimerRequests \X (1..MaxRequests)
    BY <1>1, <1>4 DEF Request
  <2>3. input' \in Seq(TimerRequests \X (1..MaxRequests))
    BY <1>1, <2>1, <2>2 DEF TaskTyped
  <2> QED BY <1>1, <1>4, <2>3 DEF Request, TaskTyped, timerVars
<1>5. CASE BeginPoll
  BY <1>1, <1>5 DEF BeginPoll, TaskTyped
<1>6. CASE ReadRequest
  <2>1. input' \in Seq(TimerRequests \X (1..MaxRequests))
    BY <1>1, <1>6, RequestsAre DEF ReadRequest, TaskTyped
  <2> QED BY <1>1, <1>6, <2>1 DEF ReadRequest, TaskTyped
<1>7. CASE NoMoreRequests
  BY <1>1, <1>7 DEF NoMoreRequests, TaskTyped
<1>8. CASE AwaitTimer
  <2>1. armed' \in 0..MaxLate \cup {Unset}
    <3>1. CASE timer_events = <<>>
      BY <1>8, <3>1 DEF AwaitTimer
    <3>2. CASE timer_events # <<>>
      <4>1. timer_events[1].callback_offset \in Times /\ ~(timer_events[1].callback_offset <= 0)
        BY <1>1, <1>8, <3>2, FirstIs DEF AwaitTimer, TimerExpired
      <4>2. armed' = timer_events[1].callback_offset
        BY <1>8, <3>2 DEF AwaitTimer, Deadline
      <4> QED BY <1>1, <4>1, <4>2 DEF Times
    <3> QED BY <3>1, <3>2
  <2> QED BY <1>1, <1>8, <2>1 DEF AwaitTimer, TaskTyped
<1>9. CASE FireTimers
  BY <1>1, <1>9 DEF FireTimers, TaskTyped
<1>10. CASE SendTimeOut
  <2>1. (at' = at \/ at' = at + 1) /\ (task_woken' = task_woken \/ task_woken' = TRUE)
    BY <1>10 DEF SendTimeOut
  <2>2. at' \in Nat \ {0}
    BY <1>1, <2>1 DEF TaskTyped
  <2>3. task_woken' \in BOOLEAN
    BY <1>1, <2>1, Zenon DEF TaskTyped
  <2>4. UNCHANGED <<input, waker, armed, pc>>
    BY <1>10 DEF SendTimeOut
  <2> QED BY <1>1, <2>2, <2>3, <2>4, Zenon DEF TaskTyped
<1>11. CASE EndSend
  <2>1. WokenByRequeue(Polled) \in BOOLEAN /\ Requeues(Polled) \in BOOLEAN
    BY Zenon DEF WokenByRequeue, Requeues
  <2>2. task_woken' \in BOOLEAN /\ waker' \in BOOLEAN
    BY <1>11, Zenon DEF EndSend
  <2> QED BY <1>1, <1>11, <2>2 DEF EndSend, TaskTyped
<1>12. CASE SendFails \/ SendWaits \/ EndPoll
  BY <1>1, <1>12 DEF SendFails, SendWaits, EndPoll, TaskTyped, timerVars
<1>13. ASSUME NEW p \in Clients, Read(p) \/ End(p) \/ Start(p) PROVE TaskTyped'
  <2>1. task_woken' \in BOOLEAN
    BY <1>13, Zenon DEF Read, End, Start, WakeIfWaitingFor
  <2> QED BY <1>1, <1>13, <2>1 DEF Read, End, Start, TaskTyped, timerVars
<1> QED BY <1>2, <1>3, <1>4, <1>5, <1>6, <1>7, <1>8, <1>9, <1>10, <1>11, <1>12, <1>13 DEF TimerNext, Task

\* No step leaves the task asleep without the Delay that it needs.
LEMMA DelayKept ==
  TimerInv /\ TimerNext => DelayIsSet'
<1> SUFFICES ASSUME TimerInv, TimerNext PROVE DelayIsSet'
  OBVIOUS
<1>1. /\ DelayIsSet /\ TaskTyped /\ timer_events \in Seq(GoodTimers)
      /\ MaxLate \in Nat /\ Unset \notin Nat
  BY TimerAssumption DEF TimerInv, TimersTyped, TaskTyped, TimerTypeOK
<1>2. CASE task_woken' /\ (pc' = "timers" => pc' = pc)
  BY <1>2 DEF DelayIsSet
<1>3. CASE UNCHANGED <<input, timerVars, pc>> /\ (task_woken => task_woken')
  BY <1>1, <1>3 DEF DelayIsSet, timerVars
<1>4. CASE Tick
  <2>1. /\ timer_events' = [i \in DOMAIN timer_events |-> OneTickLater(timer_events[i])]
        /\ armed' = IF armed \in {Unset, 0} THEN armed ELSE armed - 1
        /\ input' = input /\ waker' = waker /\ pc' = pc /\ task_woken' = task_woken
    BY <1>4 DEF Tick
  <2>2. ASSUME armed = FirstTimer(timer_events) PROVE armed' = FirstTimer(timer_events')
    <3>1. CASE timer_events = <<>>
      <4>1. timer_events' = <<>>
        BY <1>1, <2>1, <3>1, LaterIs
      <4> QED BY <2>1, <2>2, <3>1, <4>1 DEF FirstTimer
    <3>2. CASE timer_events # <<>>
      <4>1. PICK c \in Times, d \in Times, period \in 0..MaxLate \cup {Unset} :
               /\ c = timer_events[1].callback_offset /\ d = timer_events'[1].callback_offset
               /\ d = Aged(c, period)
        <5>1. /\ timer_events[1] \in GoodTimers
              /\ timer_events'[1].callback_offset = Aged(timer_events[1].callback_offset, timer_events[1].repeating)
          BY <1>1, <2>1, <3>2, LaterIs
        <5>2. timer_events[1].callback_offset \in Times /\ timer_events[1].repeating \in 0..MaxLate \cup {Unset}
          BY <5>1, TimerIs
        <5> QED BY <5>1, <5>2, AgedIs
      <4>2. timer_events' # <<>>
        BY <1>1, <2>1, <3>2, LaterIs
      <4>3. c \in Int /\ d \in Int
        BY <1>1 DEF Times
      <4>4. (c > 0 => d = c - 1) /\ (c <= 0 => d <= 0)
        BY <4>1, AgedIs
      <4>5. armed = Max({0, c}) /\ FirstTimer(timer_events') = Max({0, d})
        BY <2>2, <3>2, <4>1, <4>2, Zenon DEF FirstTimer
      <4>6. armed = (IF c > 0 THEN c ELSE 0) /\ FirstTimer(timer_events') = (IF d > 0 THEN d ELSE 0)
        BY <4>3, <4>5, MaxIs
      <4>7. armed \in Nat /\ armed # Unset
        BY <1>1, <4>3, <4>6
      <4> QED BY <2>1, <4>3, <4>4, <4>6, <4>7
    <3> QED BY <3>1, <3>2
  <2> QED BY <1>1, <2>1, <2>2, Zenon DEF DelayIsSet
<1>5. CASE DelayExpires \/ Request \/ CloseInput
  BY <1>2, <1>5 DEF DelayExpires, Request, CloseInput
<1>6. ASSUME NEW p \in Clients, Read(p) \/ End(p) \/ Start(p) PROVE DelayIsSet'
  BY <1>3, <1>6 DEF Read, End, Start, WakeIfWaitingFor
<1>7. CASE BeginPoll
  BY <1>7 DEF BeginPoll, DelayIsSet
<1>8. CASE ReadRequest
  BY <1>1, <1>8 DEF ReadRequest, DelayIsSet
<1>9. CASE NoMoreRequests
  BY <1>1, <1>9 DEF NoMoreRequests, DelayIsSet
<1>10. CASE AwaitTimer
  <2>1. armed' = FirstTimer(timer_events') /\ timer_events' = timer_events
    <3>1. timer_events' = timer_events
      BY <1>10 DEF AwaitTimer
    <3>2. CASE timer_events = <<>>
      BY <1>10, <3>1, <3>2 DEF AwaitTimer, FirstTimer
    <3>3. CASE timer_events # <<>>
      <4>1. PICK c \in Int : c = timer_events[1].callback_offset /\ ~(c <= 0)
        BY <1>1, <1>10, <3>3, FirstIs DEF AwaitTimer, TimerExpired
      <4>2. armed' = c
        BY <1>10, <3>3, <4>1 DEF AwaitTimer, Deadline
      <4>3. FirstTimer(timer_events') = Max({0, c})
        BY <3>1, <3>3, <4>1, Zenon DEF FirstTimer
      <4>4. Max({0, c}) = c
        BY <4>1, MaxIs
      <4> QED BY <3>1, <4>2, <4>3, <4>4
    <3> QED BY <3>2, <3>3
  <2>2. pc = "timers" /\ pc' = "sends" /\ UNCHANGED <<input, waker, task_woken>>
    BY <1>10 DEF AwaitTimer
  <2> QED BY <1>1, <2>1, <2>2 DEF DelayIsSet
<1>11. CASE FireTimers
  BY <1>1, <1>11 DEF FireTimers, DelayIsSet
<1>12. CASE SendTimeOut
  BY <1>1, <1>12 DEF SendTimeOut, MayPoll, DelayIsSet
<1>13. CASE EndSend
  <2>1. /\ pc = "sends" /\ pc' = pc /\ UNCHANGED <<input, armed>>
        /\ task_woken' = (task_woken \/ WokenByRequeue(Polled)) /\ waker' = (waker /\ ~Requeues(Polled))
    BY <1>13 DEF EndSend, MayPoll
  <2>2. CASE Requeues(Polled)
    BY <1>1, <2>1, <2>2, Zenon DEF DelayIsSet, WokenByRequeue
  <2>3. CASE ~Requeues(Polled)
    <3>1. timer_events' = timer_events
      BY <1>13, <2>3 DEF EndSend
    <3> QED BY <1>1, <2>1, <2>3, <3>1, Zenon DEF DelayIsSet
  <2> QED BY <2>2, <2>3
<1>14. CASE SendFails \/ SendWaits
  BY <1>1, <1>14 DEF SendFails, SendWaits, MayPoll, DelayIsSet, timerVars
<1>15. CASE EndPoll
  BY <1>1, <1>15 DEF EndPoll, DelayIsSet, timerVars
<1> QED BY <1>4, <1>5, <1>6, <1>7, <1>8, <1>9, <1>10, <1>11, <1>12, <1>13, <1>14, <1>15 DEF TimerNext, Task

\* Every step keeps the invariant.
LEMMA TimerInvKept == TimerInv /\ [TimerNext]_programVars => TimerInv'
<1> SUFFICES ASSUME TimerInv, [TimerNext]_programVars PROVE TimerInv'
  OBVIOUS
<1>1. CASE TimerNext
  <2>1. Lists' /\ SerialsDiffer' /\ TargetsTyped' /\ TaskTyped' /\ DelayIsSet'
    BY <1>1, ListsKept, TargetsKept, TaskKept, DelayKept
  <2>2. (timer_events \in Seq(Timers) /\ extra_futures \in Seq(Timers))'
    BY <2>1, GoodLists DEF Lists
  <2>3. TimersTyped'
    BY <2>1, <2>2 DEF Lists, TargetsTyped, TaskTyped, TimersTyped, TimerTypeOK
  <2> QED BY <2>1, <2>3 DEF TimerInv
<1>2. CASE UNCHANGED programVars
  BY <1>2 DEF programVars, timerVars, targetVars, counters, TimerInv, TimersTyped, TimerTypeOK,
              SerialsDiffer, DelayIsSet
<1> QED BY <1>1, <1>2

\* The timer's state is sound between its polls, and a timer that is to expire is waited for by a Delay
\* that runs up to it (TimerIsReady).
THEOREM TheTimerIsReady == TimerSpec => []TimerIsReady
<1>1. TimerInv => TimerIsReady
  <2> SUFFICES ASSUME TimerInv PROVE TimerIsReady
    OBVIOUS
  <2>1. TimerTypeOK
    BY DEF TimerInv, TimersTyped
  <2>2. SleepsUntilFirstTimer
    BY DEF TimerInv, DelayIsSet, SleepsUntilFirstTimer, FirstTimer
  <2> QED BY <2>1, <2>2 DEF TimerIsReady
<1> QED BY <1>1, TimerInvInit, TimerInvKept, PTL DEF TimerSpec

\* A timer has one turn at a time, and a repeating timer is due whole periods after its request
\* (TimersKeepTheirBeat).
THEOREM TheTimersKeepTheirBeat == TimerSpec => []TimersKeepTheirBeat
<1>1. TimerInv => TimersKeepTheirBeat
  <2> SUFFICES ASSUME TimerInv PROVE TimersKeepTheirBeat
    OBVIOUS
  <2>1. /\ timer_events \in Seq(GoodTimers) /\ extra_futures \in Seq(GoodTimers)
        /\ Distinct(timer_events) /\ Distinct(extra_futures) /\ Apart(timer_events, extra_futures)
    BY DEF TimerInv, TimersTyped, SerialsDiffer, Serials
  <2>2. PICK c \in Seq(GoodTimers) : c = Turns
    BY <2>1, JoinIs DEF Turns
  <2>3. Distinct(c)
    BY <2>1, <2>2, JoinDistinct DEF Turns
  <2>4. ASSUME NEW i \in DOMAIN c PROVE OnBeat(c[i])
    <3>1. c[i] \in GoodTimers
      OBVIOUS
    <3> QED BY <3>1, TimerIs
  <2> QED BY <2>2, <2>3, <2>4, Zenon DEF TimersKeepTheirBeat, Distinct, OnBeat
<1> QED BY <1>1, TimerInvInit, TimerInvKept, PTL DEF TimerSpec
=============================================================================
