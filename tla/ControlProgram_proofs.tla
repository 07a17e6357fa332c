------------------------ MODULE ControlProgram_proofs ------------------------
(***************************************************************************)
(* Proof that the view of the control program is true whenever no update   *)
(* is waiting, and that its subscribers share that view whenever it is     *)
(* idle, for any programs, requests, subscribers and bounds.               *)
(*                                                                         *)
(* The view lags behind the scene while updates are queued.  What holds in *)
(* every state is that the last update about a program, or the view if     *)
(* there is none, says whether it has told of its start and not of its end *)
(* (ViewFollows).  That depends on the table: a program that is started    *)
(* again must have left the scene, and have told so (LifeInv).             *)
(*                                                                         *)
(* A subscriber lags behind the view while something is sent.  What it     *)
(* will know when it has taken the update that is being sent (Effective)   *)
(* never exceeds the view (Knows), and, if it subscribed, lacks only what  *)
(* is in hand to be told it or a program whose end is still to be told     *)
(* (IsCurrent).  This is kept because an update that is sent twice changes *)
(* nothing, because the receivers that are dropped are those whose streams *)
(* are not open (StreamsOK), and because a program of the view that is no  *)
(* longer in the table has queued its end (EndIsToldOf).                   *)
(*                                                                         *)
(* Which receivers are kept is computed by recursion on their list.  What  *)
(* the recursion gives is proved by NatSetInduction, whose parameter is a  *)
(* set, not an operator: it follows from the well-foundedness of the       *)
(* naturals.                                                               *)
(***************************************************************************)
EXTENDS ControlProgram, SubProgramTable_proofs, SequenceTheorems, WellFoundedInduction

\* The programs whose start was told, and not their end.
Told == {g \in Programs : life[g] \in {"running", "stopping"}}

Tells(u) == u.kind \in {"Started", "Stopped"}
IsAbout(u, g) == Tells(u) /\ u.source = g

Updates == {u \in [kind : Kinds, source : Sources, target : Targets] :
               Tells(u) => u.source \in Programs /\ u.target = Nothing}

LifeInv ==
    /\ life \in [Programs -> {"none", "started", "running", "stopping", "stopped"}]
    /\ \A g \in Programs : life[g] = "none" <=> handle_of[g] = None

ViewFollows ==
    /\ updates \in Seq(Updates) /\ started_subprograms \subseteq Programs
    /\ \A g \in Programs :
        /\ (\A i \in 1..Len(updates) : ~IsAbout(updates[i], g)) => (g \in started_subprograms <=> g \in Told)
        /\ \A i \in 1..Len(updates) :
              IsAbout(updates[i], g) /\ (\A j \in i+1..Len(updates) : ~IsAbout(updates[j], g))
                  => (updates[i].kind = "Started" <=> g \in Told)

ControlInv == IInv /\ LifeInv /\ ViewFollows

viewVars == <<updates, started_subprograms>>

----------------------------------------------------------------------------
(* What the steps have in common. *)

LEMMA NothingTold ==
  ASSUME ControlInv, UNCHANGED <<vars, life, viewVars>> PROVE ControlInv'
<1>1. IInv'
  BY DEF ControlInv, IInv, TypeOK, NextSubprogramIsLowestFree, RunningProgramIsFound,
         EntriesAreOwned, Running, GetSubProgram, GetRunningSubprograms, vars
<1>2. LifeInv'
  BY DEF ControlInv, LifeInv, vars
<1>3. ViewFollows'
  BY DEF ControlInv, ViewFollows, viewVars, Told
<1> QED BY <1>1, <1>2, <1>3 DEF ControlInv

\* The view and the updates stay, and so does what they should say.
LEMMA SameView ==
  ASSUME ViewFollows, UNCHANGED viewVars, Told' = Told PROVE ViewFollows'
  BY DEF ViewFollows, viewVars

\* A program comes a step further in its life without telling of it.
LEMMA LifeGoesOn ==
  ASSUME ControlInv, NEW g \in Programs, UNCHANGED <<vars, viewVars>>,
         life[g] = "running", life' = [life EXCEPT ![g] = "stopping"]
  PROVE  ControlInv'
<1>1. IInv'
  BY DEF ControlInv, IInv, TypeOK, NextSubprogramIsLowestFree, RunningProgramIsFound,
         EntriesAreOwned, Running, GetSubProgram, GetRunningSubprograms, vars
<1>2. LifeInv'
  BY DEF ControlInv, LifeInv, vars
<1>3. Told' = Told
  BY DEF ControlInv, LifeInv, Told
<1> QED BY <1>1, <1>2, <1>3, SameView DEF ControlInv

\* A program is started only when it had left the scene.
LEMMA StartedKeeps ==
  ASSUME ControlInv, NEW g \in Programs, Started(g), UNCHANGED viewVars
  PROVE  ControlInv'
<1>1. StartSubprogram(g) /\ life' = [life EXCEPT ![g] = "started"]
  BY DEF Started
<1>2. handle_of[g] = None /\ life[g] = "none"
  BY <1>1, OnlyStoppedProgramsStart DEF StartSubprogram, ControlInv, LifeInv
<1>3. IInv'
  BY <1>1, StartStep DEF ControlInv
<1>4. next_subprogram # None
  BY <1>1, TableAssumption DEF StartSubprogram, Handles
<1>5. LifeInv'
  BY <1>1, <1>4 DEF StartSubprogram, ControlInv, LifeInv, IInv, TypeOK
<1>6. Told' = Told
  BY <1>1, <1>2 DEF ControlInv, LifeInv, Told
<1> QED BY <1>3, <1>5, <1>6, SameView DEF ControlInv

\* A start that is refused stops everything and changes nothing here.
LEMMA RefusedKeeps ==
  ASSUME ControlInv, NEW g \in Programs, StartRefused(g), UNCHANGED <<life, viewVars>>
  PROVE  ControlInv'
<1>1. IInv'
  BY NextIInv DEF ControlInv, Next
<1>2. LifeInv'
  BY DEF ControlInv, LifeInv, StartRefused
<1>3. Told' = Told
  BY DEF Told
<1> QED BY <1>1, <1>2, <1>3, SameView DEF ControlInv

\* An update of a connection says nothing about programs.
LEMMA OtherUpdate ==
  ASSUME ControlInv, UNCHANGED <<vars, life, started_subprograms>>,
         NEW u \in Updates, ~Tells(u), updates' = Append(updates, u)
  PROVE  ControlInv'
<1>1. IInv'
  BY DEF ControlInv, IInv, TypeOK, NextSubprogramIsLowestFree, RunningProgramIsFound,
         EntriesAreOwned, Running, GetSubProgram, GetRunningSubprograms, vars
<1>2. LifeInv'
  BY DEF ControlInv, LifeInv, vars
<1>3. /\ updates' \in Seq(Updates) /\ Len(updates') = Len(updates) + 1
      /\ \A i \in 1..Len(updates) : updates'[i] = updates[i]
      /\ updates'[Len(updates) + 1] = u /\ Len(updates) \in Nat
  BY DEF ControlInv, ViewFollows
<1>4. \A g : ~IsAbout(u, g)
  BY DEF IsAbout
<1>5. Told' = Told
  BY DEF Told
<1>6. ASSUME NEW g \in Programs, \A i \in 1..Len(updates') : ~IsAbout(updates'[i], g)
      PROVE  g \in started_subprograms' <=> g \in Told'
  <2>1. \A i \in 1..Len(updates) : ~IsAbout(updates[i], g)
    BY <1>3, <1>6
  <2> QED BY <1>5, <2>1 DEF ControlInv, ViewFollows
<1>7. ASSUME NEW g \in Programs, NEW i \in 1..Len(updates'), IsAbout(updates'[i], g),
             \A j \in i+1..Len(updates') : ~IsAbout(updates'[j], g)
      PROVE  updates'[i].kind = "Started" <=> g \in Told'
  <2>1. i \in 1..Len(updates) /\ updates'[i] = updates[i]
    BY <1>3, <1>4, <1>7
  <2>2. \A j \in i+1..Len(updates) : ~IsAbout(updates[j], g)
    <3>1. ASSUME NEW j \in i+1..Len(updates) PROVE ~IsAbout(updates[j], g)
      <4>1. j \in i+1..Len(updates') /\ j \in 1..Len(updates)
        BY <1>3, <2>1
      <4> QED BY <1>3, <1>7, <4>1
    <3> QED BY <3>1
  <2> QED BY <1>5, <1>7, <2>1, <2>2 DEF ControlInv, ViewFollows
<1>8. ViewFollows'
  BY <1>3, <1>6, <1>7 DEF ControlInv, ViewFollows
<1> QED BY <1>1, <1>2, <1>8 DEF ControlInv

(* Telling of a start or an end. *)

\* The last update is about g, and is right; what is said of others stays so.
LEMMA ProgramTells ==
  ASSUME ViewFollows, NEW g \in Programs, NEW kind \in {"Started", "Stopped"},
         updates' = Append(updates, Update(kind, g, Nothing)), UNCHANGED started_subprograms,
         kind = "Started" <=> g \in Told',
         \A h \in Programs \ {g} : h \in Told' <=> h \in Told
  PROVE  ViewFollows'
<1> DEFINE u == Update(kind, g, Nothing)
<1>1. u \in Updates /\ u.kind = kind /\ u.source = g
  BY DEF Update, Updates, Kinds, Sources, Targets, Tells
<1> HIDE DEF u
<1>2. /\ updates' \in Seq(Updates) /\ Len(updates') = Len(updates) + 1
      /\ \A i \in 1..Len(updates) : updates'[i] = updates[i]
      /\ updates'[Len(updates) + 1] = u /\ Len(updates) \in Nat
  BY <1>1 DEF ViewFollows, u
<1>3. \A h : IsAbout(u, h) <=> h = g
  BY <1>1 DEF IsAbout, Tells
<1>4. ASSUME NEW h \in Programs, \A i \in 1..Len(updates') : ~IsAbout(updates'[i], h)
      PROVE  h \in started_subprograms' <=> h \in Told'
  <2>1. \A i \in 1..Len(updates) : ~IsAbout(updates[i], h)
    BY <1>2, <1>4
  <2>2. h # g
    BY <1>2, <1>3, <1>4
  <2> QED BY <2>1, <2>2 DEF ViewFollows
<1>5. ASSUME NEW h \in Programs, NEW i \in 1..Len(updates'), IsAbout(updates'[i], h),
             \A j \in i+1..Len(updates') : ~IsAbout(updates'[j], h)
      PROVE  updates'[i].kind = "Started" <=> h \in Told'
  <2>1. CASE i = Len(updates) + 1
    BY <1>1, <1>2, <1>3, <1>5, <2>1
  <2>2. CASE i \in 1..Len(updates)
    <3>1. h # g
      <4>1. Len(updates) + 1 \in i+1..Len(updates')
        BY <1>2, <2>2
      <4> QED BY <1>2, <1>3, <1>5, <4>1
    <3>2. ASSUME NEW j \in i+1..Len(updates) PROVE ~IsAbout(updates[j], h)
      <4>1. j \in i+1..Len(updates') /\ j \in 1..Len(updates)
        BY <1>2, <2>2
      <4> QED BY <1>2, <1>5, <4>1
    <3> QED BY <1>2, <1>5, <2>2, <3>1, <3>2 DEF ViewFollows
  <2> QED BY <1>2, <2>1, <2>2
<1> QED BY <1>2, <1>4, <1>5 DEF ViewFollows

LEMMA AnnounceKeeps == ASSUME ControlInv, NEW g \in Programs, Announce(g) PROVE ControlInv'
<1>1. IInv'
  BY DEF Announce, ControlInv, IInv, TypeOK, NextSubprogramIsLowestFree, RunningProgramIsFound,
         EntriesAreOwned, Running, GetSubProgram, GetRunningSubprograms, vars
<1>2. LifeInv'
  BY DEF Announce, ControlInv, LifeInv, vars
<1>3. g \in Told' /\ \A h \in Programs \ {g} : h \in Told' <=> h \in Told
  BY DEF Announce, ControlInv, LifeInv, Told
<1>4. ViewFollows'
  BY <1>3, ProgramTells DEF Announce, ControlInv
<1> QED BY <1>1, <1>2, <1>4 DEF ControlInv

LEMMA SendStoppedKeeps == ASSUME ControlInv, NEW g \in Programs, SendStopped(g) PROVE ControlInv'
<1>1. IInv'
  BY DEF SendStopped, ControlInv, IInv, TypeOK, NextSubprogramIsLowestFree, RunningProgramIsFound,
         EntriesAreOwned, Running, GetSubProgram, GetRunningSubprograms, vars
<1>2. LifeInv'
  BY DEF SendStopped, ControlInv, LifeInv, vars
<1>3. g \notin Told' /\ \A h \in Programs \ {g} : h \in Told' <=> h \in Told
  BY DEF SendStopped, ControlInv, LifeInv, Told
<1>4. updates' = Append(updates, Update("Stopped", g, Nothing))
  BY DEF SendStopped
<1>5. ViewFollows'
  BY <1>3, <1>4, ProgramTells DEF SendStopped, ControlInv
<1> QED BY <1>1, <1>2, <1>5 DEF ControlInv

\* A program that leaves the scene has told so before.
LEMMA LeaveKeeps == ASSUME ControlInv, NEW g \in Programs, LeaveScene(g) PROVE ControlInv'
<1>1. life[g] = "stopped" /\ FinishSubprogram(g) /\ life' = [life EXCEPT ![g] = "none"]
  BY DEF LeaveScene, MayLeave
<1>2. IInv'
  BY <1>1, FinishStep DEF ControlInv
<1>3. LifeInv'
  BY <1>1 DEF FinishSubprogram, ControlInv, LifeInv, IInv, TypeOK
<1>4. Told' = Told
  BY <1>1 DEF ControlInv, LifeInv, Told
<1>5. UNCHANGED viewVars
  BY DEF LeaveScene, viewVars, controlVars
<1> QED BY <1>2, <1>3, <1>4, <1>5, SameView DEF ControlInv

----------------------------------------------------------------------------
(* Taking an update from the queue. *)

LEMMA TakeUpdateKeeps == ASSUME ControlInv, TakeUpdate PROVE ControlInv'
<1> DEFINE u == Head(updates)
<1>1. IInv'
  BY DEF TakeUpdate, ControlInv, IInv, TypeOK, NextSubprogramIsLowestFree, RunningProgramIsFound,
         EntriesAreOwned, Running, GetSubProgram, GetRunningSubprograms, vars
<1>2. LifeInv' /\ Told' = Told
  BY DEF TakeUpdate, ControlInv, LifeInv, vars, Told
<1>3. /\ updates # <<>> /\ updates \in Seq(Updates) /\ updates' = Tail(updates)
      /\ started_subprograms' = ProgramsAfter(started_subprograms, u)
  BY DEF TakeUpdate, Updated, View, ControlInv, ViewFollows
<1>4. /\ updates' \in Seq(Updates) /\ Len(updates) = Len(updates') + 1 /\ Len(updates') \in Nat
      /\ \A i \in 1..Len(updates') : updates'[i] = updates[i + 1]
      /\ u = updates[1] /\ u \in Updates
  BY <1>3
<1>5. ASSUME NEW i \in 1..Len(updates'), NEW g,
             \A j \in i+1..Len(updates') : ~IsAbout(updates'[j], g)
      PROVE  \A j \in i+2..Len(updates) : ~IsAbout(updates[j], g)
  <2>1. ASSUME NEW j \in i+2..Len(updates) PROVE ~IsAbout(updates[j], g)
    <3>1. j - 1 \in i+1..Len(updates') /\ j - 1 \in 1..Len(updates') /\ (j - 1) + 1 = j
      BY <1>4, <2>1
    <3> QED BY <1>4, <1>5, <3>1
  <2> QED BY <2>1
<1>6. ASSUME NEW g \in Programs, NEW i \in 1..Len(updates'), IsAbout(updates'[i], g),
             \A j \in i+1..Len(updates') : ~IsAbout(updates'[j], g)
      PROVE  updates'[i].kind = "Started" <=> g \in Told'
  <2>1. i + 1 \in 1..Len(updates) /\ updates'[i] = updates[i + 1] /\ (i + 1) + 1 = i + 2
    BY <1>4, <1>6
  <2>2. \A j \in (i+1)+1..Len(updates) : ~IsAbout(updates[j], g)
    BY <1>5, <1>6, <2>1
  <2> QED BY <1>2, <1>6, <2>1, <2>2 DEF ControlInv, ViewFollows
<1>7. ASSUME NEW g \in Programs, \A i \in 1..Len(updates') : ~IsAbout(updates'[i], g)
      PROVE  g \in started_subprograms' <=> g \in Told'
  <2>1. ASSUME NEW j \in 2..Len(updates) PROVE ~IsAbout(updates[j], g)
    <3>1. j - 1 \in 1..Len(updates') /\ (j - 1) + 1 = j
      BY <1>4, <2>1
    <3> QED BY <1>4, <1>7, <3>1
  <2>2. CASE IsAbout(u, g)
    <3>1. u.kind = "Started" <=> g \in Told
      <4>1. 1 \in 1..Len(updates) /\ \A j \in 1+1..Len(updates) : ~IsAbout(updates[j], g)
        BY <1>4, <2>1
      <4> QED BY <1>4, <2>2, <4>1 DEF ControlInv, ViewFollows
    <3>2. u.kind = "Started" <=> g \in started_subprograms'
      BY <1>3, <2>2 DEF IsAbout, Tells, ProgramsAfter
    <3> QED BY <1>2, <3>1, <3>2
  <2>3. CASE ~IsAbout(u, g)
    <3>1. g \in started_subprograms <=> g \in Told
      <4>1. \A j \in 1..Len(updates) : ~IsAbout(updates[j], g)
        BY <1>4, <2>1, <2>3
      <4> QED BY <4>1 DEF ControlInv, ViewFollows
    <3>2. g \in started_subprograms' <=> g \in started_subprograms
      BY <1>3, <2>3 DEF IsAbout, Tells, ProgramsAfter
    <3> QED BY <1>2, <3>1, <3>2
  <2> QED BY <2>2, <2>3
<1>8. started_subprograms' \subseteq Programs
  BY <1>3, <1>4 DEF ProgramsAfter, Updates, Tells, ControlInv, ViewFollows
<1>9. ViewFollows'
  BY <1>4, <1>6, <1>7, <1>8 DEF ViewFollows
<1> QED BY <1>1, <1>2, <1>9 DEF ControlInv

----------------------------------------------------------------------------
(* The requests. *)

LEMMA ConnectionUpdateOK ==
  ASSUME NEW g \in Programs, NEW t \in Programs \cup {Disconnected},
         NEW source \in {OutputOf(g), ControlOutput(g)}
  PROVE  ConnectionUpdate(source, t) \in Updates /\ ~Tells(ConnectionUpdate(source, t))
  BY DEF ConnectionUpdate, Update, Updates, Tells, Kinds, Sources, Targets

\* A context.send to p may add an update.
LEMMA ContextSendKeeps ==
  ASSUME ControlInv, NEW p \in Programs, UNCHANGED <<vars, life, started_subprograms>>,
         updates' = updates \/ updates' = UpdatesAfterContextSend(p)
  PROVE  ControlInv'
<1>1. CASE updates' = updates
  BY <1>1, NothingTold DEF viewVars
<1>2. CASE updates' # updates
  <2> DEFINE u == ConnectionUpdate(ControlOutput(p), IF stream[p] = "gone" THEN Disconnected ELSE p)
  <2>1. u \in Updates /\ ~Tells(u)
    BY ConnectionUpdateOK
  <2>2. updates' = Append(updates, u)
    BY <1>2 DEF UpdatesAfterContextSend
  <2> HIDE DEF u
  <2> QED BY <2>1, <2>2, OtherUpdate
<1> QED BY <1>1, <1>2

LEMMA RequestKeeps ==
  ASSUME ControlInv, NEW r \in Requests \cup {[kind |-> "StopScene"]}, TakeRequest(r)
  PROVE  ControlInv'
<1>1. RequestOK(r)
  BY ControlAssumption DEF RequestOK
<1>2. CASE TakeStart(r)
  <2>1. r.program \in Programs /\ UNCHANGED viewVars
    BY <1>1, <1>2 DEF TakeStart, RequestOK, ViewKept, viewVars
  <2>2. Started(r.program) \/ (StartRefused(r.program) /\ UNCHANGED life)
    BY <1>2 DEF TakeStart
  <2> QED BY <2>1, <2>2, StartedKeeps, RefusedKeeps
<1>3. CASE TakeConnect(r)
  <2>1. r.program \in Programs /\ r.target \in Programs \cup {Disconnected}
    BY <1>1, <1>3 DEF TakeConnect, RequestOK
  <2>2. UNCHANGED <<vars, life, started_subprograms>>
    BY <1>3 DEF TakeConnect, ViewKept
  <2>3. updates' = updates \/ updates' = Append(updates, ConnectionUpdate(OutputOf(r.program), r.target))
    BY <1>3 DEF TakeConnect
  <2>4. CASE updates' = updates
    BY <2>2, <2>4, NothingTold DEF viewVars
  <2> QED BY <2>1, <2>2, <2>3, <2>4, ConnectionUpdateOK, OtherUpdate
<1>4. CASE TakeFailingConnect(r)
  <2> DEFINE u == Update("FailedConnection", r.program, r.target)
  <2>1. r.program \in Programs /\ r.target \in Programs \cup {Disconnected}
    BY <1>1, <1>4 DEF TakeFailingConnect, RequestOK
  <2>2. UNCHANGED <<vars, life, started_subprograms>> /\ updates' = Append(updates, u)
    BY <1>4 DEF TakeFailingConnect, ViewKept
  <2>3. u \in Updates /\ ~Tells(u)
    BY <2>1 DEF Update, Updates, Tells, Kinds, Sources, Targets
  <2> HIDE DEF u
  <2> QED BY <2>2, <2>3, OtherUpdate
<1>5. CASE TakeClose(r)
  BY <1>5, NothingTold DEF TakeClose, ViewKept, viewVars
<1>6. CASE TakeStopWhenIdle(r)
  BY <1>6, StartedKeeps, ControlAssumption DEF TakeStopWhenIdle, ViewKept, viewVars
<1>7. CASE TakeStop(r)
  BY <1>7, NothingTold DEF TakeStop, ViewKept, viewVars
<1>8. CASE TakeSubscribe(r)
  <2>1. r.program \in Programs
    BY <1>1, <1>8, ControlAssumption DEF TakeSubscribe, RequestOK
  <2> QED BY <1>8, <2>1, ContextSendKeeps DEF TakeSubscribe, ViewKept
<1>9. CASE TakeQuery(r)
  <2>1. r.program \in Programs
    BY <1>1, <1>9, ControlAssumption DEF TakeQuery, RequestOK
  <2> QED BY <1>9, <2>1, ContextSendKeeps DEF TakeQuery, ViewKept
<1> QED BY <1>2, <1>3, <1>4, <1>5, <1>6, <1>7, <1>8, <1>9 DEF TakeRequest

\* What the control program does besides.
LEMMA ControlStepKeeps == ASSUME ControlInv, ControlStep PROVE ControlInv'
<1>1. ASSUME NEW g \in to_start, NextProgram(g) PROVE ControlInv'
  BY <1>1, NothingTold DEF NextProgram, viewVars
<1>2. ASSUME NEW c \in to_connect, NextConnection(c) PROVE ControlInv'
  BY <1>2, NothingTold DEF NextConnection, viewVars
<1>3. CASE SendState
  BY <1>3, NothingTold DEF SendState, viewVars
<1>4. CASE StateSent
  BY <1>4, NothingTold DEF StateSent, viewVars
<1>5. CASE UpdateSent
  BY <1>5, NothingTold DEF UpdateSent, viewVars
<1>6. ASSUME NEW i \in sending, SendUpdate(i) PROVE ControlInv'
  BY <1>6, NothingTold DEF SendUpdate, controlVars, viewVars
<1> QED BY <1>1, <1>2, <1>3, <1>4, <1>5, <1>6, RequestKeeps, TakeUpdateKeeps DEF ControlStep

----------------------------------------------------------------------------
LEMMA ControlInitInv == ControlInit => ControlInv
<1> SUFFICES ASSUME ControlInit PROVE ControlInv
  OBVIOUS
<1>1. IInv
  <2>1. /\ sub_programs = [h \in Handles |-> IF h = 0 THEN First ELSE None]
        /\ handle_of = [g \in Programs |-> IF g = First THEN 0 ELSE None]
        /\ next_subprogram = 1 /\ panicked = None /\ program_indexes = handle_of
    BY DEF ControlInit
  <2>2. First \in Programs /\ First # None /\ 0 \in Handles /\ 0 # None /\ 1 \in 0..MaxHandles
    BY TableAssumption, ControlAssumption DEF Handles
  <2>3. TypeOK
    BY <2>1, <2>2 DEF TypeOK
  <2>4. NextSubprogramIsLowestFree
    BY <2>1, <2>2 DEF NextSubprogramIsLowestFree, Handles
  <2>5. RunningProgramIsFound
    BY <2>1, <2>2 DEF RunningProgramIsFound, Running, GetSubProgram, GetRunningSubprograms
  <2>6. EntriesAreOwned
    BY <2>1, <2>2 DEF EntriesAreOwned
  <2> QED BY <2>3, <2>4, <2>5, <2>6 DEF IInv
<1>2. LifeInv
  BY TableAssumption DEF ControlInit, LifeInv
<1>3. ViewFollows
  <2>1. updates = <<>> /\ started_subprograms = {First} /\ First \in Programs /\ Told = {First}
    BY ControlAssumption DEF ControlInit, Told
  <2>2. Len(updates) = 0 /\ updates \in Seq(Updates)
    BY <2>1
  <2> QED BY <2>1, <2>2 DEF ViewFollows
<1> QED BY <1>1, <1>2, <1>3 DEF ControlInv

\* Every step keeps it.
LEMMA ControlKeeps == ASSUME ControlInv, [ControlNext]_controlProgramVars PROVE ControlInv'
<1>1. CASE UNCHANGED controlProgramVars
  BY <1>1, NothingTold DEF controlProgramVars, controlVars, viewVars
<1>2. CASE Request
  BY <1>2, NothingTold DEF Request, viewVars
<1>3. CASE NotifyStopper
  BY <1>3, LifeGoesOn, ControlAssumption DEF NotifyStopper, viewVars
<1>4. ASSUME NEW g \in Programs, ProcessStep(g) PROVE ControlInv'
  BY <1>4, AnnounceKeeps, SendStoppedKeeps, LeaveKeeps DEF ProcessStep
<1>5. ASSUME NEW g \in Programs, StartOutside(g) PROVE ControlInv'
  BY <1>5, StartedKeeps DEF StartOutside, controlVars, viewVars
<1>6. ASSUME NEW g \in Programs, EndProgram(g) PROVE ControlInv'
  BY <1>6, LifeGoesOn DEF EndProgram, controlVars, viewVars
<1>7. ASSUME NEW c \in Connectable, ChangeConnection(c[1], c[2]) PROVE ControlInv'
  <2>1. c[1] \in Programs /\ c[2] \in Programs \cup {Disconnected}
    BY ControlAssumption
  <2> QED BY <1>7, <2>1, ConnectionUpdateOK, OtherUpdate DEF ChangeConnection
<1>8. ASSUME NEW p \in Subscribers, ReadUpdate(p) PROVE ControlInv'
  BY <1>8, NothingTold DEF ReadUpdate, controlVars, viewVars
<1> QED BY <1>1, <1>2, <1>3, <1>4, <1>5, <1>6, <1>7, <1>8, ControlStepKeeps DEF ControlNext

\* In whatever order programs start, end, restart, connect and ask, and however long the
\* control program waits for its subscribers: when it has read all updates, the programs it
\* knows are those that told of their start and not of their end.
THEOREM ViewIsAlwaysTrue == ControlSpec => []ViewIsTrue
<1>1. ControlInv => ViewIsTrue
  BY DEF ControlInv, ViewFollows, ViewIsTrue, Told
<1> QED BY <1>1, ControlKeeps, ControlInitInv, PTL DEF ControlSpec

----------------------------------------------------------------------------
(* Sequences that are built by recursion. *)

\* Induction over the numbers, for a set.
LEMMA NatSetInduction ==
  ASSUME NEW S, 0 \in S, \A n \in Nat : n \in S => n + 1 \in S
  PROVE  Nat \subseteq S
<1> SUFFICES ASSUME Nat \ S # {} PROVE FALSE
  OBVIOUS
<1> DEFINE R == {ss \in Nat \X Nat : ss[1] < ss[2]}
<1>1. IsWellFoundedOn(R, Nat)
  BY NatLessThanWellFounded DEF OpToRel
<1>2. \A m, n \in Nat : m < n => <<m, n>> \in R
  OBVIOUS
<1> HIDE DEF R
<1>3. PICK n \in Nat \ S : \A m \in Nat \ S : <<m, n>> \notin R
  BY <1>1, WFMin
<1>4. n - 1 \in Nat \ S /\ n - 1 < n
  OBVIOUS
<1> QED BY <1>2, <1>3, <1>4

\* A function on the numbers can be defined by recursion, from its first value and a step.
IsDefined(S, a, t) == \E f \in [Nat -> S] : f[0] = a /\ \A n \in Nat : f[n + 1] = t[<<n, f[n]>>]
LEMMA RecursionExists ==
  ASSUME NEW S, NEW a \in S, NEW t \in [Nat \X S -> S]
  PROVE  IsDefined(S, a, t)
<1> DEFINE Is(n, f) == f \in [0..n -> S] /\ f[0] = a /\ \A i \in Nat : i < n => f[i + 1] = t[<<i, f[i]>>]
           D == {n \in Nat : \E f : Is(n, f)}
<1>1. Nat \subseteq D
  <2>1. 0 \in D
    <3>1. Is(0, [i \in 0..0 |-> a])
      OBVIOUS
    <3> QED BY <3>1
  <2>2. ASSUME NEW n \in Nat, n \in D PROVE n + 1 \in D
    <3>1. PICK f : Is(n, f)
      BY <2>2
    <3>2. PICK x \in S : x = t[<<n, f[n]>>]
      BY <3>1
    <3> DEFINE g == [i \in 0..n+1 |-> IF i = n + 1 THEN x ELSE f[i]]
    <3>3. \A i \in 0..n : g[i] = f[i] /\ f[i] \in S
      BY <3>1
    <3>4. g[n + 1] = x /\ g \in [0..n+1 -> S] /\ g[0] = a
      BY <3>1
    <3> HIDE DEF g
    <3>5. ASSUME NEW i \in Nat, i < n + 1 PROVE g[i + 1] = t[<<i, g[i]>>]
      <4>1. CASE i = n
        BY <3>2, <3>3, <3>4, <4>1
      <4>2. CASE i < n
        <5>1. i \in 0..n /\ i + 1 \in 0..n /\ f[i + 1] = t[<<i, f[i]>>]
          BY <3>1, <4>2
        <5> QED BY <3>3, <5>1
      <4> QED BY <3>5, <4>1, <4>2
    <3>6. Is(n + 1, g)
      BY <3>4, <3>5
    <3> QED BY <3>6
  <2> HIDE DEF D
  <2> QED BY <2>1, <2>2, NatSetInduction
<1> DEFINE Part(n) == CHOOSE f : Is(n, f)
           E == {n \in Nat : \A k, m \in Nat : n <= k /\ n <= m => Part(k)[n] = Part(m)[n]}
           F == [n \in Nat |-> Part(n)[n]]
<1>2. \A n \in Nat : Is(n, Part(n))
  BY <1>1
<1> HIDE DEF Part
<1>3. /\ \A n \in Nat : Part(n)[0] = a /\ Part(n)[n] \in S
      /\ \A n, i \in Nat : i < n => Part(n)[i + 1] = t[<<i, Part(n)[i]>>]
  BY <1>2
<1> HIDE DEF Is
<1>4. Nat \subseteq E
  <2>1. 0 \in E
    BY <1>3
  <2>2. ASSUME NEW n \in Nat, n \in E PROVE n + 1 \in E
    <3> SUFFICES ASSUME NEW k \in Nat, NEW m \in Nat, n + 1 <= k, n + 1 <= m
                 PROVE  Part(k)[n + 1] = Part(m)[n + 1]
      OBVIOUS
    <3>1. Part(k)[n] = Part(m)[n]
      BY <2>2
    <3>2. n < k /\ n < m
      OBVIOUS
    <3>3. Part(k)[n + 1] = t[<<n, Part(k)[n]>>] /\ Part(m)[n + 1] = t[<<n, Part(m)[n]>>]
      BY <1>3, <3>2
    <3> QED BY <3>1, <3>3
  <2> HIDE DEF E
  <2> QED BY <2>1, <2>2, NatSetInduction
<1>5. F \in [Nat -> S] /\ F[0] = a
  BY <1>3
<1>6. ASSUME NEW n \in Nat PROVE F[n + 1] = t[<<n, F[n]>>]
  <2>1. Part(n)[n] = Part(n + 1)[n]
    BY <1>4
  <2>2. Part(n + 1)[n + 1] = t[<<n, Part(n + 1)[n]>>]
    BY <1>3
  <2> QED BY <2>1, <2>2
<1> HIDE DEF F
<1> QED BY <1>5, <1>6 DEF IsDefined

\* What is removed from a sequence at one place.
LEMMA RemoveAtProperties ==
  ASSUME NEW S, NEW q \in Seq(S), NEW k \in 1..Len(q)
  PROVE  /\ RemoveAt(q, k) \in Seq(S) /\ Len(RemoveAt(q, k)) = Len(q) - 1
         /\ \A i \in 1..Len(q) - 1 : RemoveAt(q, k)[i] = IF i < k THEN q[i] ELSE q[i + 1]
<1> DEFINE u == SubSeq(q, 1, k - 1)
           v == SubSeq(q, k + 1, Len(q))
<1>1. Len(q) \in Nat /\ \A i \in 1..Len(q) : q[i] \in S
  OBVIOUS
<1>2. u \in Seq(S) /\ Len(u) = k - 1 /\ \A i \in 1..k - 1 : u[i] = q[i]
  BY <1>1, SubSeqProperties
<1>3. v \in Seq(S) /\ Len(v) = Len(q) - k /\ \A i \in 1..Len(q) - k : v[i] = q[k + i]
  <2>1. /\ v \in Seq(S) /\ Len(v) = IF k + 1 <= Len(q) THEN Len(q) - (k + 1) + 1 ELSE 0
        /\ \A i \in 1..Len(q) - (k + 1) + 1 : v[i] = q[(k + 1) + i - 1]
    BY <1>1, SubSeqProperties
  <2> QED BY <1>1, <2>1
<1> HIDE DEF u, v
<1>4. RemoveAt(q, k) = u \o v
  BY DEF RemoveAt, u, v
<1>5. /\ u \o v \in Seq(S) /\ Len(u \o v) = Len(u) + Len(v)
      /\ \A i \in 1..Len(u) + Len(v) : (u \o v)[i] = IF i <= Len(u) THEN u[i] ELSE v[i - Len(u)]
  BY <1>2, <1>3, ConcatProperties
<1>6. ASSUME NEW i \in 1..Len(q) - 1 PROVE (u \o v)[i] = IF i < k THEN q[i] ELSE q[i + 1]
  <2>1. CASE i < k
    BY <1>1, <1>2, <1>3, <1>5, <2>1
  <2>2. CASE ~(i < k)
    <3>1. i - (k - 1) \in 1..Len(q) - k /\ k + (i - (k - 1)) = i + 1
      BY <1>1, <2>2
    <3>2. (u \o v)[i] = v[i - (k - 1)]
      BY <1>1, <1>2, <1>3, <1>5, <2>2
    <3>3. v[i - (k - 1)] = q[i + 1]
      BY <1>3, <3>1
    <3> QED BY <2>2, <3>2, <3>3
  <2> QED BY <2>1, <2>2
<1> QED BY <1>1, <1>2, <1>3, <1>4, <1>5, <1>6

Receivers == Subscribers \cup {Discard}

\* How the receivers that are retained are found.
LEMMA RetainedSteps ==
  ASSUME receivers \in Seq(Receivers)
  PROVE  /\ Retained[0] = <<>>
         /\ \A n \in Nat : n < Len(receivers) =>
              Retained[n + 1] = IF IsAttached(receivers[n + 1]) THEN Append(Retained[n], receivers[n + 1])
                                ELSE Retained[n]
<1> DEFINE L == Len(receivers)
           T == [x \in Nat \X Seq(Receivers) |->
                    IF x[1] < L THEN IF IsAttached(receivers[x[1] + 1]) THEN Append(x[2], receivers[x[1] + 1])
                                     ELSE x[2]
                    ELSE x[2]]
           Eq(f) == [n \in 0..L |->
                        IF n = 0 THEN <<>>
                        ELSE IF IsAttached(receivers[n]) THEN Append(f[n - 1], receivers[n]) ELSE f[n - 1]]
<1>1. L \in Nat /\ \A i \in 1..L : receivers[i] \in Receivers
  OBVIOUS
<1>2. T \in [Nat \X Seq(Receivers) -> Seq(Receivers)]
  <2>1. ASSUME NEW x \in Nat \X Seq(Receivers), x[1] < L
        PROVE  x[2] \in Seq(Receivers) /\ Append(x[2], receivers[x[1] + 1]) \in Seq(Receivers)
    <3>1. x[1] + 1 \in 1..L /\ x[2] \in Seq(Receivers)
      BY <1>1, <2>1
    <3> QED BY <1>1, <3>1
  <2> QED BY <2>1
<1>3. <<>> \in Seq(Receivers)
  OBVIOUS
<1> HIDE DEF T
<1>4. PICK f \in [Nat -> Seq(Receivers)] : f[0] = <<>> /\ \A n \in Nat : f[n + 1] = T[<<n, f[n]>>]
  <2>1. IsDefined(Seq(Receivers), <<>>, T)
    BY <1>2, <1>3, RecursionExists
  <2> QED BY <2>1 DEF IsDefined
<1>5. ASSUME NEW n \in Nat, n < L
      PROVE  f[n + 1] = IF IsAttached(receivers[n + 1]) THEN Append(f[n], receivers[n + 1]) ELSE f[n]
  BY <1>4, <1>5 DEF T
<1> DEFINE g == [n \in 0..L |-> f[n]]
<1>6. g = Eq(g)
  <2>1. ASSUME NEW n \in 0..L PROVE g[n] = Eq(g)[n]
    <3>1. CASE n = 0
      BY <1>1, <1>4, <3>1
    <3>2. CASE n # 0
      <4>1. n - 1 \in Nat /\ n - 1 < L /\ (n - 1) + 1 = n /\ n - 1 \in 0..L
        BY <1>1, <3>2
      <4>2. f[n] = IF IsAttached(receivers[n]) THEN Append(f[n - 1], receivers[n]) ELSE f[n - 1]
        BY <1>5, <4>1
      <4>3. Eq(g)[n] = IF IsAttached(receivers[n]) THEN Append(g[n - 1], receivers[n]) ELSE g[n - 1]
        BY <3>2
      <4>4. g[n] = f[n] /\ g[n - 1] = f[n - 1]
        BY <4>1
      <4> HIDE DEF g
      <4> QED BY <4>2, <4>3, <4>4
    <3> QED BY <3>1, <3>2
  <2> QED BY <2>1
<1>7. Retained = CHOOSE h : h = Eq(h)
  BY DEF Retained
<1>8. Retained = Eq(Retained)
  BY <1>6, <1>7
<1>9. \A n \in 0..L : Retained[n] = IF n = 0 THEN <<>>
                        ELSE IF IsAttached(receivers[n]) THEN Append(Retained[n - 1], receivers[n])
                        ELSE Retained[n - 1]
  BY <1>8
<1>10. ASSUME NEW n \in Nat, n < L
       PROVE  Retained[n + 1] = IF IsAttached(receivers[n + 1]) THEN Append(Retained[n], receivers[n + 1])
                                ELSE Retained[n]
  <2>1. n + 1 \in 0..L /\ n + 1 # 0 /\ (n + 1) - 1 = n
    BY <1>1, <1>10
  <2> QED BY <1>9, <2>1
<1> QED BY <1>1, <1>9, <1>10

\* The receivers that are attached are retained, and no others.
LEMMA AttachedProperties ==
  ASSUME receivers \in Seq(Receivers)
  PROVE  /\ Attached \in Seq(Receivers)
         /\ \A i \in DOMAIN receivers : IsAttached(receivers[i]) =>
               \E j \in DOMAIN Attached : Attached[j] = receivers[i]
         /\ \A j \in DOMAIN Attached : \E i \in DOMAIN receivers : Attached[j] = receivers[i]
<1> DEFINE L == Len(receivers)
           Sound(n) == /\ Retained[n] \in Seq(Receivers)
                       /\ \A i \in 1..n : IsAttached(receivers[i]) =>
                             \E j \in DOMAIN Retained[n] : Retained[n][j] = receivers[i]
                       /\ \A j \in DOMAIN Retained[n] : \E i \in 1..n : Retained[n][j] = receivers[i]
           S == {n \in Nat : n <= L => Sound(n)}
<1>1. L \in Nat /\ DOMAIN receivers = 1..L /\ \A i \in 1..L : receivers[i] \in Receivers
  OBVIOUS
<1>2. /\ Retained[0] = <<>>
      /\ \A n \in Nat : n < L =>
           Retained[n + 1] = IF IsAttached(receivers[n + 1]) THEN Append(Retained[n], receivers[n + 1])
                             ELSE Retained[n]
  BY RetainedSteps
<1> HIDE DEF L
<1>3. 0 \in S
  <2>1. DOMAIN <<>> = {} /\ 1..0 = {} /\ <<>> \in Seq(Receivers)
    OBVIOUS
  <2> QED BY <1>2, <2>1
<1>4. ASSUME NEW n \in Nat, n \in S PROVE n + 1 \in S
  <2> SUFFICES ASSUME n + 1 <= L PROVE Sound(n + 1)
    OBVIOUS
  <2>1. n < L /\ n + 1 \in 1..L /\ \A i \in 1..n + 1 : i \in 1..n \/ i = n + 1
    BY <1>1
  <2>2. Sound(n)
    BY <1>4, <1>1, <2>1
  <2>3. CASE IsAttached(receivers[n + 1])
    <3> DEFINE q == Retained[n]
               e == receivers[n + 1]
    <3>1. Retained[n + 1] = Append(q, e) /\ q \in Seq(Receivers) /\ e \in Receivers
      BY <1>1, <1>2, <2>1, <2>2, <2>3
    <3> HIDE DEF q, e
    <3>2. /\ Append(q, e) \in Seq(Receivers) /\ DOMAIN Append(q, e) = 1..Len(q) + 1 /\ DOMAIN q = 1..Len(q)
          /\ Len(q) \in Nat /\ Append(q, e)[Len(q) + 1] = e /\ \A j \in 1..Len(q) : Append(q, e)[j] = q[j]
      BY <3>1
    <3>3. ASSUME NEW i \in 1..n + 1, IsAttached(receivers[i])
          PROVE  \E j \in DOMAIN Append(q, e) : Append(q, e)[j] = receivers[i]
      <4>1. CASE i = n + 1
        <5>1. Len(q) + 1 \in DOMAIN Append(q, e) /\ Append(q, e)[Len(q) + 1] = receivers[i]
          BY <3>2, <4>1 DEF e
        <5> QED BY <5>1
      <4>2. CASE i \in 1..n
        <5>1. PICK j \in DOMAIN q : q[j] = receivers[i]
          BY <2>2, <3>3, <4>2 DEF q
        <5>2. j \in DOMAIN Append(q, e) /\ Append(q, e)[j] = receivers[i]
          BY <3>2, <5>1
        <5> QED BY <5>2
      <4> QED BY <2>1, <4>1, <4>2
    <3>4. ASSUME NEW j \in DOMAIN Append(q, e)
          PROVE  \E i \in 1..n + 1 : Append(q, e)[j] = receivers[i]
      <4>1. CASE j = Len(q) + 1
        BY <3>2, <4>1 DEF e
      <4>2. CASE j \in 1..Len(q)
        <5>1. PICK i \in 1..n : q[j] = receivers[i]
          BY <2>2, <3>2, <4>2 DEF q
        <5> QED BY <3>2, <4>2, <5>1
      <4> QED BY <3>2, <4>1, <4>2
    <3> QED BY <3>1, <3>2, <3>3, <3>4
  <2>4. CASE ~IsAttached(receivers[n + 1])
    <3>1. Retained[n + 1] = Retained[n]
      BY <1>2, <2>1, <2>4
    <3> QED BY <2>1, <2>2, <2>4, <3>1
  <2> QED BY <2>3, <2>4
<1> HIDE DEF S, Sound
<1>5. Nat \subseteq S
  BY <1>3, <1>4, NatSetInduction
<1>6. Sound(L)
  BY <1>1, <1>5 DEF S
<1> QED BY <1>1, <1>6 DEF Attached, L, Sound


\* How the receivers that are removed are found.
LEMMA RemovedSteps ==
  ASSUME receivers \in Seq(Receivers)
  PROVE  /\ Removed[0] = receivers
         /\ \A n \in Nat : n < Len(receivers) =>
              Removed[n + 1] = IF Len(receivers) - n \in refused THEN RemoveAt(Removed[n], Len(receivers) - n)
                               ELSE Removed[n]
<1> DEFINE L == Len(receivers)
           T == [x \in Nat \X Seq(Receivers) |->
                    IF L - x[1] \in refused /\ L - x[1] \in 1..Len(x[2]) THEN RemoveAt(x[2], L - x[1])
                    ELSE x[2]]
           Eq(f) == [n \in 0..L |->
                        IF n = 0 THEN receivers
                        ELSE IF L + 1 - n \in refused THEN RemoveAt(f[n - 1], L + 1 - n) ELSE f[n - 1]]
<1>1. L \in Nat
  OBVIOUS
<1>2. T \in [Nat \X Seq(Receivers) -> Seq(Receivers)]
  <2>1. ASSUME NEW x \in Nat \X Seq(Receivers), L - x[1] \in 1..Len(x[2])
        PROVE  RemoveAt(x[2], L - x[1]) \in Seq(Receivers)
    BY <2>1, RemoveAtProperties
  <2> QED BY <2>1
<1> HIDE DEF T
<1>3. PICK f \in [Nat -> Seq(Receivers)] : f[0] = receivers /\ \A n \in Nat : f[n + 1] = T[<<n, f[n]>>]
  <2>1. IsDefined(Seq(Receivers), receivers, T)
    BY <1>2, RecursionExists
  <2> QED BY <2>1 DEF IsDefined
<1> DEFINE S == {n \in Nat : n <= L => Len(f[n]) >= L - n}
<1>4. ASSUME NEW n \in Nat
      PROVE  f[n + 1] = IF L - n \in refused /\ L - n \in 1..Len(f[n]) THEN RemoveAt(f[n], L - n) ELSE f[n]
  BY <1>3, <1>4 DEF T
<1>5. Nat \subseteq S
  <2>1. 0 \in S
    BY <1>1, <1>3
  <2>2. ASSUME NEW n \in Nat, n \in S PROVE n + 1 \in S
    <3> SUFFICES ASSUME n + 1 <= L PROVE Len(f[n + 1]) >= L - (n + 1)
      OBVIOUS
    <3>1. Len(f[n]) >= L - n /\ Len(f[n]) \in Nat
      BY <1>1, <2>2
    <3>2. CASE L - n \in refused /\ L - n \in 1..Len(f[n])
      <4>1. Len(f[n + 1]) = Len(f[n]) - 1
        <5>1. f[n + 1] = RemoveAt(f[n], L - n) /\ f[n] \in Seq(Receivers)
          BY <1>4, <3>2
        <5> QED BY <3>2, <5>1, RemoveAtProperties
      <4> QED BY <1>1, <3>1, <4>1
    <3>3. CASE ~(L - n \in refused /\ L - n \in 1..Len(f[n]))
      BY <1>1, <1>4, <3>1, <3>3
    <3> QED BY <3>2, <3>3
  <2> HIDE DEF S
  <2> QED BY <2>1, <2>2, NatSetInduction
<1>6. ASSUME NEW n \in Nat, n < L
      PROVE  f[n + 1] = IF L - n \in refused THEN RemoveAt(f[n], L - n) ELSE f[n]
  <2>1. n \in S
    BY <1>5
  <2>2. L - n \in 1..Len(f[n])
    BY <1>1, <1>6, <2>1
  <2>3. f[n + 1] = IF L - n \in refused /\ L - n \in 1..Len(f[n]) THEN RemoveAt(f[n], L - n) ELSE f[n]
    BY <1>4
  <2> QED BY <2>2, <2>3, Zenon
<1> DEFINE g == [n \in 0..L |-> f[n]]
<1>7. g = Eq(g)
  <2>1. ASSUME NEW n \in 0..L PROVE g[n] = Eq(g)[n]
    <3>1. CASE n = 0
      BY <1>1, <1>3, <3>1
    <3>2. CASE n # 0
      <4>1. n - 1 \in Nat /\ n - 1 < L /\ (n - 1) + 1 = n /\ n - 1 \in 0..L /\ L - (n - 1) = L + 1 - n
        BY <1>1, <3>2
      <4>2. f[n] = IF L + 1 - n \in refused THEN RemoveAt(f[n - 1], L + 1 - n) ELSE f[n - 1]
        BY <1>6, <4>1
      <4>3. Eq(g)[n] = IF L + 1 - n \in refused THEN RemoveAt(g[n - 1], L + 1 - n) ELSE g[n - 1]
        BY <3>2
      <4>4. g[n] = f[n] /\ g[n - 1] = f[n - 1]
        BY <4>1
      <4> HIDE DEF g
      <4> QED BY <4>2, <4>3, <4>4
    <3> QED BY <3>1, <3>2
  <2> QED BY <2>1
<1>8. Removed = CHOOSE h : h = Eq(h)
  BY DEF Removed
<1>9. Removed = Eq(Removed)
  BY <1>7, <1>8
<1>10. \A n \in 0..L : Removed[n] = IF n = 0 THEN receivers
                        ELSE IF L + 1 - n \in refused THEN RemoveAt(Removed[n - 1], L + 1 - n)
                        ELSE Removed[n - 1]
  BY <1>9
<1>11. ASSUME NEW n \in Nat, n < L
       PROVE  Removed[n + 1] = IF L - n \in refused THEN RemoveAt(Removed[n], L - n) ELSE Removed[n]
  <2>1. n + 1 \in 0..L /\ n + 1 # 0 /\ (n + 1) - 1 = n /\ L + 1 - (n + 1) = L - n
    BY <1>1, <1>11
  <2>2. Removed[n + 1] = IF n + 1 = 0 THEN receivers
                         ELSE IF L + 1 - (n + 1) \in refused THEN RemoveAt(Removed[(n + 1) - 1], L + 1 - (n + 1))
                         ELSE Removed[(n + 1) - 1]
    BY <1>10, <2>1, Zenon
  <2> QED BY <2>1, <2>2, Zenon
<1> QED BY <1>1, <1>10, <1>11

\* The receivers that returned an error are removed, and no others: those after the one that is
\* removed keep their places in the results, because the last is looked at first.
LEMMA WithoutRefusedProperties ==
  ASSUME receivers \in Seq(Receivers)
  PROVE  /\ WithoutRefused \in Seq(Receivers)
         /\ \A i \in DOMAIN receivers \ refused : \E j \in DOMAIN WithoutRefused : WithoutRefused[j] = receivers[i]
         /\ \A j \in DOMAIN WithoutRefused : \E i \in DOMAIN receivers \ refused : WithoutRefused[j] = receivers[i]
<1> DEFINE L == Len(receivers)
           Whole(n, q) == /\ q \in Seq(Receivers) /\ Len(q) >= L - n
                          /\ \A i \in 1..L - n : q[i] = receivers[i]
           Sound(n, q) == /\ \A i \in L - n + 1..L : i \notin refused => \E j \in L - n + 1..Len(q) : q[j] = receivers[i]
                          /\ \A j \in L - n + 1..Len(q) : \E i \in L - n + 1..L : i \notin refused /\ q[j] = receivers[i]
           S == {n \in Nat : n <= L => Whole(n, Removed[n]) /\ Sound(n, Removed[n])}
<1>1. L \in Nat /\ DOMAIN receivers = 1..L
  OBVIOUS
<1>2. /\ Removed[0] = receivers
      /\ \A n \in Nat : n < L => Removed[n + 1] = IF L - n \in refused THEN RemoveAt(Removed[n], L - n)
                                                  ELSE Removed[n]
  BY RemovedSteps
<1>3. 0 \in S
  BY <1>1, <1>2
<1> HIDE DEF L
<1>4. ASSUME NEW n \in Nat, n \in S PROVE n + 1 \in S
  <2> SUFFICES ASSUME n + 1 <= L PROVE Whole(n + 1, Removed[n + 1]) /\ Sound(n + 1, Removed[n + 1])
    OBVIOUS
  <2> DEFINE q == Removed[n]
             k == L - n
  <2>1. k \in 1..L /\ k + 1 = L - n + 1 /\ k = L - (n + 1) + 1 /\ k - 1 = L - (n + 1) /\ n < L /\ n <= L
    BY <1>1
  <2>2. Whole(n, q) /\ Sound(n, q)
    BY <1>4, <2>1
  <2> HIDE DEF q, k
  <2>3. /\ q \in Seq(Receivers) /\ Len(q) \in Nat /\ Len(q) >= k /\ \A i \in 1..k : q[i] = receivers[i]
        /\ \A i \in k + 1..L : i \notin refused => \E j \in k + 1..Len(q) : q[j] = receivers[i]
        /\ \A j \in k + 1..Len(q) : \E i \in k + 1..L : i \notin refused /\ q[j] = receivers[i]
    BY <2>1, <2>2 DEF k
  <2>4. CASE k \in refused
    <3> DEFINE r == RemoveAt(q, k)
    <3>1. k \in 1..Len(q)
      BY <2>1, <2>3
    <3>2. /\ r \in Seq(Receivers) /\ Len(r) = Len(q) - 1
          /\ \A i \in 1..Len(q) - 1 : r[i] = IF i < k THEN q[i] ELSE q[i + 1]
      BY <2>3, <3>1, RemoveAtProperties
    <3>3. Removed[n + 1] = r
      BY <1>2, <2>1, <2>4 DEF q, k
    <3> HIDE DEF r
    <3>4. ASSUME NEW i \in 1..k - 1 PROVE r[i] = receivers[i]
      <4>1. i \in 1..Len(q) - 1 /\ i < k /\ i \in 1..k
        BY <2>1, <2>3, <3>1
      <4> QED BY <2>3, <3>2, <4>1
    <3>5. ASSUME NEW j \in k..Len(r) PROVE j + 1 \in k + 1..Len(q) /\ r[j] = q[j + 1]
      <4>1. j \in 1..Len(q) - 1 /\ ~(j < k) /\ j + 1 \in k + 1..Len(q)
        BY <2>1, <2>3, <3>1, <3>2
      <4> QED BY <3>2, <4>1
    <3>6. ASSUME NEW i \in k..L, i \notin refused PROVE \E j \in k..Len(r) : r[j] = receivers[i]
      <4>1. i \in k + 1..L
        BY <1>1, <2>1, <2>4, <3>6
      <4>2. PICK j \in k + 1..Len(q) : q[j] = receivers[i]
        BY <2>3, <3>6, <4>1
      <4>3. j - 1 \in k..Len(r) /\ (j - 1) + 1 = j
        BY <2>1, <2>3, <3>2
      <4>4. r[j - 1] = receivers[i]
        BY <3>5, <4>2, <4>3
      <4> QED BY <4>3, <4>4
    <3>7. ASSUME NEW j \in k..Len(r) PROVE \E i \in k..L : i \notin refused /\ r[j] = receivers[i]
      <4>1. PICK i \in k + 1..L : i \notin refused /\ q[j + 1] = receivers[i]
        BY <2>3, <3>5
      <4>2. i \in k..L
        BY <1>1, <2>1
      <4> QED BY <3>5, <4>1, <4>2
    <3>8. Len(r) >= k - 1
      BY <2>1, <2>3, <3>2
    <3>9. Whole(n + 1, r)
      BY <2>1, <3>2, <3>4, <3>8
    <3>10. Sound(n + 1, r)
      BY <2>1, <3>6, <3>7
    <3> QED BY <3>3, <3>9, <3>10
  <2>5. CASE k \notin refused
    <3>1. Removed[n + 1] = q
      BY <1>2, <2>1, <2>5 DEF q, k
    <3>2. ASSUME NEW i \in k..L, i \notin refused PROVE \E j \in k..Len(q) : q[j] = receivers[i]
      <4>1. CASE i = k
        <5>1. k \in k..Len(q) /\ q[k] = receivers[k]
          BY <2>1, <2>3
        <5> QED BY <4>1, <5>1
      <4>2. CASE i # k
        <5>1. i \in k + 1..L
          BY <1>1, <2>1, <4>2
        <5>2. PICK j \in k + 1..Len(q) : q[j] = receivers[i]
          BY <2>3, <3>2, <5>1
        <5>3. j \in k..Len(q)
          BY <2>1, <2>3
        <5> QED BY <5>2, <5>3
      <4> QED BY <4>1, <4>2
    <3>3. ASSUME NEW j \in k..Len(q) PROVE \E i \in k..L : i \notin refused /\ q[j] = receivers[i]
      <4>1. CASE j = k
        <5>1. k \in k..L /\ q[k] = receivers[k]
          BY <1>1, <2>1, <2>3
        <5> QED BY <2>5, <4>1, <5>1
      <4>2. CASE j # k
        <5>1. j \in k + 1..Len(q)
          BY <2>1, <2>3, <4>2
        <5>2. PICK i \in k + 1..L : i \notin refused /\ q[j] = receivers[i]
          BY <2>3, <5>1
        <5>3. i \in k..L
          BY <1>1, <2>1
        <5> QED BY <5>2, <5>3
      <4> QED BY <4>1, <4>2
    <3>4. Len(q) >= k - 1 /\ \A i \in 1..k - 1 : q[i] = receivers[i]
      BY <2>1, <2>3
    <3>5. Whole(n + 1, q)
      BY <2>1, <2>3, <3>4
    <3>6. Sound(n + 1, q)
      BY <2>1, <3>2, <3>3
    <3> QED BY <3>1, <3>5, <3>6
  <2> QED BY <2>4, <2>5
<1> HIDE DEF S, Whole, Sound
<1>5. Nat \subseteq S
  BY <1>3, <1>4, NatSetInduction
<1>6. Whole(L, Removed[L]) /\ Sound(L, Removed[L])
  BY <1>1, <1>5 DEF S
<1>7. WithoutRefused = Removed[L] /\ L - L + 1 = 1
  BY <1>1 DEF WithoutRefused, L
<1> HIDE DEF L
<1> DEFINE w == WithoutRefused
<1>8. Whole(L, w) /\ Sound(L, w)
  BY <1>6, <1>7
<1> HIDE DEF w
<1>9. w \in Seq(Receivers) /\ DOMAIN w = 1..Len(w)
  BY <1>8 DEF Whole
<1>10. /\ \A i \in 1..L : i \notin refused => \E j \in 1..Len(w) : w[j] = receivers[i]
       /\ \A j \in 1..Len(w) : \E i \in 1..L : i \notin refused /\ w[j] = receivers[i]
  BY <1>7, <1>8 DEF Sound
<1> QED BY <1>1, <1>9, <1>10 DEF w

----------------------------------------------------------------------------
(* What holds of the subscribers. *)

Connections == Sources \X Targets
Views == [programs : SUBSET Programs, connections : SUBSET Connections]

AllRequests == Requests \cup {[kind |-> "StopScene"]}
ConnectionChanges(c) == ChangeConnection(c[1], c[2])

\* The streams, what the control program was asked, and what it knows and says, are well formed.
FormsOK ==
    /\ control_input \in Seq(AllRequests)
    /\ active_connections \subseteq Connections
    /\ message \in Updates \cup {Nothing}
    /\ known \in [Subscribers -> Views]

\* A program has one connection in the view.
OneConnectionEach == \A c, d \in active_connections : c[1] = d[1] => c = d

\* A subscriber whose stream is open is running, and its sink is connected if there is one.
StreamsOK ==
    /\ \A p \in Subscribers : stream[p] = "open" => life[p] \in {"started", "running"} /\ sink[p] # Disconnected
    /\ \A i \in DOMAIN receivers : receivers[i] # Discard => sink[receivers[i]] # Nothing

\* What the control program has in hand while it sends an update, or the state.
IsReceiver(p) == \E i \in DOMAIN receivers \ refused : receivers[i] = p
SaysNothing == message = Nothing \/ message.kind = "QueryResponse"
PhasesOK ==
    /\ pc # "sending" => sending = {} /\ refused = {}
    /\ pc = "sending" => message # Nothing /\ Updated(View, message) = View
    /\ pc # "state" => to_start = {} /\ to_connect = {}
    /\ pc = "idle" => message = Nothing
    /\ to_start \subseteq started_subprograms /\ to_connect \subseteq active_connections
    /\ pc = "state" =>
        /\ target \in Subscribers
        /\ \/ SaysNothing
           \/ \E g \in started_subprograms : message = Update("Started", g, Nothing)
           \/ \E c \in active_connections : message = Update("Connected", c[1], c[2])
        /\ IsReceiver(target) \/ (to_start = {} /\ to_connect = {} /\ SaysNothing)

\* The view of subscriber p when it has taken the update that is being sent.
WillTake(p) == \E i \in sending : receivers[i] = p
Effective(p) == IF WillTake(p) THEN Updated(known[p], message) ELSE known[p]

\* It knows nothing that the control program does not, ...
Knows(p) ==
    /\ Effective(p).connections \subseteq active_connections
    /\ Effective(p).programs \subseteq started_subprograms
    /\ known[p] # EmptyView => IsReceiver(p)

\* ... and, if it subscribed, whatever the control program does, up to what is still to be said.
ConnectionInHand(p, c) == target = p /\ (c \in to_connect \/ message = Update("Connected", c[1], c[2]))
StartInHand(p, g) == target = p /\ (g \in to_start \/ message = Update("Started", g, Nothing))
EndIsPending(g) == \E i \in DOMAIN updates : updates[i] = Update("Stopped", g, Nothing)
IsCurrent(p) ==
    /\ IsReceiver(p)
    /\ \A c \in active_connections : c \in Effective(p).connections \/ ConnectionInHand(p, c)
    /\ \A g \in started_subprograms : g \in Effective(p).programs \/ StartInHand(p, g) \/ EndIsPending(g)

SubscriberOK(p) ==
    /\ stream[p] = "open" => Knows(p)
    /\ p \in subscribed /\ stream[p] = "open" => IsCurrent(p)

SubscribersOK == \A p \in Subscribers : SubscriberOK(p)

Formed == SubscribersTypeOK /\ ControlTypeOK /\ FormsOK /\ OneConnectionEach
SubscriptionInv == ControlInv /\ Formed /\ StreamsOK /\ PhasesOK /\ SubscribersOK

(* The view after an update. *)

\* It is a view, and taking the update again changes nothing.
LEMMA UpdatedView ==
  ASSUME NEW v \in Views, NEW u \in Updates
  PROVE  /\ Updated(v, u) \in Views
         /\ Updated(Updated(v, u), u) = Updated(v, u)
<1> DEFINE w == Updated(v, u)
<1>1. /\ v.programs \subseteq Programs /\ v.connections \subseteq Connections
      /\ u.kind \in Kinds /\ <<u.source, u.target>> \in Connections
      /\ u.kind \in {"Started", "Stopped"} => u.source \in Programs
  BY DEF Views, Updates, Tells, Connections
<1>2. w = [programs |-> ProgramsAfter(v.programs, u), connections |-> ConnectionsAfter(v.connections, u)]
  BY DEF Updated
<1>3. w.programs = ProgramsAfter(v.programs, u) /\ w.connections = ConnectionsAfter(v.connections, u)
  BY <1>2
<1>4. ProgramsAfter(v.programs, u) \subseteq Programs
  BY <1>1 DEF ProgramsAfter
<1>5. ConnectionsAfter(v.connections, u) \subseteq Connections
  BY <1>1 DEF ConnectionsAfter, Keyed
<1>6. ProgramsAfter(ProgramsAfter(v.programs, u), u) = ProgramsAfter(v.programs, u)
  BY DEF ProgramsAfter
<1>7. ConnectionsAfter(ConnectionsAfter(v.connections, u), u) = ConnectionsAfter(v.connections, u)
  BY DEF ConnectionsAfter, Keyed
<1> HIDE DEF w
<1>8. Updated(w, u) = w
  BY <1>2, <1>3, <1>6, <1>7 DEF Updated
<1> QED BY <1>2, <1>4, <1>5, <1>8 DEF Views, w

\* It is greater for a greater view.
LEMMA UpdatedMonotone ==
  ASSUME NEW v, NEW w, NEW u, v.programs \subseteq w.programs, v.connections \subseteq w.connections
  PROVE  /\ Updated(v, u).programs \subseteq Updated(w, u).programs
         /\ Updated(v, u).connections \subseteq Updated(w, u).connections
<1>1. ProgramsAfter(v.programs, u) \subseteq ProgramsAfter(w.programs, u)
  BY DEF ProgramsAfter
<1>2. ConnectionsAfter(v.connections, u) \subseteq ConnectionsAfter(w.connections, u)
  BY DEF ConnectionsAfter, Keyed
<1> QED BY <1>1, <1>2 DEF Updated

\* A subscriber for which nothing is done stays as it is.
LEMMA SameSubscriber ==
  ASSUME SubscribersOK, NEW p \in Subscribers, stream'[p] = "open" => stream[p] = "open",
         known'[p] = known[p] \/ IsReceiver(p), Effective(p)' = Effective(p), IsReceiver(p) => IsReceiver(p)',
         UNCHANGED <<started_subprograms, active_connections>>, p \in subscribed' => p \in subscribed,
         \A c \in active_connections : ConnectionInHand(p, c) => ConnectionInHand(p, c)',
         \A g \in started_subprograms : StartInHand(p, g) => StartInHand(p, g)' \/ EndIsPending(g)',
         \A g \in started_subprograms : EndIsPending(g) => EndIsPending(g)'
  PROVE  SubscriberOK(p)'
<1>1. SubscriberOK(p)
  BY DEF SubscribersOK
<1>2. ASSUME stream'[p] = "open" PROVE Knows(p)'
  BY <1>1, <1>2 DEF SubscriberOK, Knows, EmptyView
<1>3. ASSUME p \in subscribed', stream'[p] = "open" PROVE IsCurrent(p)'
  BY <1>1, <1>3 DEF SubscriberOK, IsCurrent
<1> QED BY <1>2, <1>3 DEF SubscriberOK

----------------------------------------------------------------------------
(* What is known of the programs and updates. *)

\* If an update is about a program, one of them is the last.
LEMMA LastUpdateExists ==
  ASSUME updates \in Seq(Updates), NEW g, NEW k \in 1..Len(updates), IsAbout(updates[k], g)
  PROVE  \E i \in 1..Len(updates) :
            IsAbout(updates[i], g) /\ \A j \in i+1..Len(updates) : ~IsAbout(updates[j], g)
<1> DEFINE LastOf(n) == \E i \in 1..n : IsAbout(updates[i], g) /\ \A j \in i+1..n : ~IsAbout(updates[j], g)
           S == {n \in Nat : (\E i \in 1..n : IsAbout(updates[i], g)) => LastOf(n)}
<1>1. 0 \in S
  <2>1. 1..0 = {}
    OBVIOUS
  <2> QED BY <2>1
<1>2. ASSUME NEW n \in Nat, n \in S PROVE n + 1 \in S
  <2>1. SUFFICES ASSUME NEW i \in 1..(n + 1), IsAbout(updates[i], g) PROVE LastOf(n + 1)
    BY DEF S
  <2>2. CASE IsAbout(updates[n + 1], g)
    <3>1. n + 1 \in 1..(n + 1) /\ (n + 1)+1..(n + 1) = {}
      OBVIOUS
    <3> QED BY <2>2, <3>1
  <2>3. CASE ~IsAbout(updates[n + 1], g)
    <3>1. i \in 1..n
      BY <2>1, <2>3
    <3>2. PICK m \in 1..n : IsAbout(updates[m], g) /\ \A j \in m+1..n : ~IsAbout(updates[j], g)
      BY <1>2, <2>1, <3>1
    <3>3. m \in 1..(n + 1) /\ \A j \in m+1..(n + 1) : j \in m+1..n \/ j = n + 1
      BY <3>2
    <3> QED BY <2>3, <3>2, <3>3
  <2> QED BY <2>2, <2>3
<1>3. Len(updates) \in Nat
  OBVIOUS
<1> HIDE DEF S
<1>4. Nat \subseteq S
  BY <1>1, <1>2, NatSetInduction
<1> QED BY <1>3, <1>4 DEF S

\* The end of a program that the view holds and the table does not is still to be told.
LEMMA EndIsToldOf ==
  ASSUME ControlInv, NEW g \in started_subprograms, GetSubProgram(g) = None
  PROVE  EndIsPending(g)
<1>1. g \in Programs /\ g # None /\ updates \in Seq(Updates)
  BY TableAssumption DEF ControlInv, ViewFollows
<1>2. handle_of[g] = None
  BY <1>1 DEF ControlInv, IInv, RunningProgramIsFound, Running
<1>3. g \notin Told
  BY <1>1, <1>2 DEF ControlInv, LifeInv, Told
<1>4. PICK k \in 1..Len(updates) : IsAbout(updates[k], g)
  BY <1>1, <1>3 DEF ControlInv, ViewFollows
<1>5. PICK i \in 1..Len(updates) :
         IsAbout(updates[i], g) /\ \A j \in i+1..Len(updates) : ~IsAbout(updates[j], g)
  BY <1>1, <1>4, LastUpdateExists
<1>6. updates[i].kind # "Started"
  BY <1>1, <1>3, <1>5 DEF ControlInv, ViewFollows
<1>7. updates[i] \in Updates /\ i \in DOMAIN updates
  BY <1>1
<1>8. updates[i].kind = "Stopped" /\ updates[i].source = g /\ updates[i].target = Nothing
  BY <1>5, <1>6, <1>7 DEF IsAbout, Tells, Updates
<1>9. updates[i] = Update("Stopped", g, Nothing)
  BY <1>7, <1>8 DEF Updates, Update
<1> QED BY <1>7, <1>9 DEF EndIsPending

\* The control program reaches a subscriber whose stream is open.
LEMMA OpenIsReachable ==
  ASSUME ControlInv, StreamsOK, NEW p \in Subscribers, stream[p] = "open" PROVE Reachable(p)
<1>1. p \in Programs /\ p # None
  BY TableAssumption, ControlAssumption
<1>2. life[p] # "none"
  BY DEF StreamsOK
<1>3. p \in Running
  BY <1>1, <1>2 DEF ControlInv, LifeInv, Running
<1> QED BY <1>1, <1>3 DEF ControlInv, IInv, RunningProgramIsFound, Reachable

\* An update that is queued does not take another's place.
LEMMA EndsStayPending ==
  ASSUME updates \in Seq(Updates), updates' \in Seq(Updates), NEW g, EndIsPending(g),
         updates' = updates \/ \E u \in Updates : updates' = Append(updates, u)
  PROVE  EndIsPending(g)'
<1>1. PICK i \in DOMAIN updates : updates[i] = Update("Stopped", g, Nothing)
  BY DEF EndIsPending
<1>2. CASE updates' = updates
  BY <1>1, <1>2 DEF EndIsPending
<1>3. CASE \E u \in Updates : updates' = Append(updates, u)
  <2>1. PICK u \in Updates : updates' = Append(updates, u)
    BY <1>3
  <2>2. /\ Len(updates') = Len(updates) + 1 /\ Len(updates) \in Nat
        /\ \A m \in 1..Len(updates) : updates'[m] = updates[m]
    BY <2>1
  <2>3. DOMAIN updates = 1..Len(updates) /\ DOMAIN updates' = 1..Len(updates')
    OBVIOUS
  <2>4. i \in DOMAIN updates' /\ updates'[i] = updates[i]
    BY <2>2, <2>3
  <2> QED BY <1>1, <2>4 DEF EndIsPending, Update
<1> QED BY <1>2, <1>3

\* A receiver whose stream is open is attached.
LEMMA OpenReceiversAreAttached ==
  ASSUME SubscribersTypeOK, StreamsOK, NEW p \in Subscribers, stream[p] = "open", IsReceiver(p)
  PROVE  \E j \in DOMAIN Attached : Attached[j] = p
<1>1. receivers \in Seq(Receivers) /\ p # Discard /\ sink[p] \in {Nothing, Disconnected, "input"}
  BY SubscribersAssumption DEF SubscribersTypeOK, Receivers
<1>2. PICK i \in DOMAIN receivers : receivers[i] = p
  BY DEF IsReceiver
<1>3. IsAttached(receivers[i])
  BY <1>1, <1>2 DEF StreamsOK, IsAttached
<1> QED BY <1>1, <1>2, <1>3, AttachedProperties
----------------------------------------------------------------------------
(* The steps, one by one. *)

LEMMA NextCases ==
  ASSUME [ControlNext]_controlProgramVars
  PROVE  \/ \E r \in AllRequests : TakeStart(r)
         \/ \E r \in AllRequests : TakeConnect(r)
         \/ \E r \in AllRequests : TakeFailingConnect(r)
         \/ \E r \in AllRequests : TakeClose(r)
         \/ \E r \in AllRequests : TakeStopWhenIdle(r)
         \/ \E r \in AllRequests : TakeStop(r)
         \/ \E r \in AllRequests : TakeSubscribe(r)
         \/ \E r \in AllRequests : TakeQuery(r)
         \/ \E g \in to_start : NextProgram(g)
         \/ \E c \in to_connect : NextConnection(c)
         \/ SendState
         \/ StateSent
         \/ TakeUpdate
         \/ UpdateSent
         \/ \E i \in sending : SendUpdate(i)
         \/ Request
         \/ NotifyStopper
         \/ \E g \in Programs : Announce(g)
         \/ \E g \in Programs : SendStopped(g)
         \/ \E g \in Programs : LeaveScene(g)
         \/ \E g \in Programs : StartOutside(g)
         \/ \E g \in Programs : EndProgram(g)
         \/ \E c \in Connectable : ConnectionChanges(c)
         \/ \E p \in Subscribers : ReadUpdate(p)
         \/ UNCHANGED controlProgramVars
  BY DEF ControlNext, ControlStep, ProcessStep, TakeRequest, AllRequests, ConnectionChanges

\* At most one request is waiting.
LEMMA InputStep ==
  ASSUME FormsOK, ControlTypeOK, [ControlNext]_controlProgramVars
  PROVE  control_input' \in Seq(AllRequests) /\ Len(control_input') <= 1
<1>a. control_input \in Seq(AllRequests) /\ Len(control_input) <= 1
  BY DEF FormsOK, ControlTypeOK
<1>b. control_input # <<>> => Tail(control_input) \in Seq(AllRequests) /\ Len(Tail(control_input)) <= 1
  BY <1>a
<1>c. \A r \in AllRequests : <<r>> \in Seq(AllRequests) /\ Len(<<r>>) = 1
  OBVIOUS
<1> DEFINE Goal == control_input' \in Seq(AllRequests) /\ Len(control_input') <= 1
<1>1. CASE \/ (\E r \in AllRequests : TakeStart(r)) \/ (\E r \in AllRequests : TakeConnect(r))
          \/ (\E r \in AllRequests : TakeFailingConnect(r))
          \/ (\E r \in AllRequests : TakeClose(r))
          \/ (\E r \in AllRequests : TakeStopWhenIdle(r))
          \/ (\E r \in AllRequests : TakeStop(r)) \/ (\E r \in AllRequests : TakeSubscribe(r))
          \/ (\E r \in AllRequests : TakeQuery(r))
  BY <1>1, <1>b
     DEF TakeStart, Takes, TakeConnect, TakeFailingConnect, TakeClose, TakeStopWhenIdle, TakeStop,
         TakeSubscribe, TakeQuery
<1>2. CASE Request
  BY <1>2, <1>c DEF Request, AllRequests
<1>3. CASE NotifyStopper
  <2>1. control_input' = <<[kind |-> "StopScene"]>> /\ [kind |-> "StopScene"] \in AllRequests
    BY <1>3 DEF NotifyStopper, AllRequests
  <2> QED BY <1>c, <2>1
<1>4. CASE \/ SendState \/ StateSent \/ TakeUpdate \/ UpdateSent \/ UNCHANGED controlProgramVars
          \/ (\E g \in to_start : NextProgram(g)) \/ (\E c \in to_connect : NextConnection(c))
          \/ (\E i \in sending : SendUpdate(i)) \/ (\E g \in Programs : Announce(g))
          \/ (\E g \in Programs : SendStopped(g)) \/ (\E g \in Programs : LeaveScene(g))
          \/ (\E g \in Programs : StartOutside(g)) \/ (\E g \in Programs : EndProgram(g))
          \/ (\E c \in Connectable : ConnectionChanges(c))
          \/ (\E p \in Subscribers : ReadUpdate(p))
  BY <1>4, <1>a
     DEF NextProgram, NextConnection, SendState, StateSent, TakeUpdate, UpdateSent, SendUpdate, Announce,
         SendStopped, LeaveScene, StartOutside, EndProgram, ConnectionChanges, ChangeConnection,
         ReadUpdate, controlProgramVars, controlVars
<1> QED BY NextCases, <1>1, <1>2, <1>3, <1>4

\* What is said is an update, or nothing.
LEMMA MessageStep ==
  ASSUME ControlInv, FormsOK, PhasesOK, [ControlNext]_controlProgramVars
  PROVE  message' \in Updates \cup {Nothing}
<1>a. /\ message \in Updates \cup {Nothing} /\ updates \in Seq(Updates)
      /\ to_start \subseteq Programs /\ to_connect \subseteq Connections
  BY DEF FormsOK, PhasesOK, ControlInv, ViewFollows
<1>1. ASSUME NEW g \in to_start, NextProgram(g) PROVE message' \in Updates \cup {Nothing}
  BY <1>1, <1>a DEF NextProgram, Update, Updates, Kinds, Sources, Targets, Tells
<1>2. ASSUME NEW c \in to_connect, NextConnection(c) PROVE message' \in Updates \cup {Nothing}
  BY <1>2, <1>a DEF NextConnection, Update, Updates, Kinds, Tells, Connections
<1>3. ASSUME NEW r \in AllRequests, TakeFailingConnect(r) PROVE message' \in Updates \cup {Nothing}
  <2>1. r.kind = "Connect" /\ message' = Update("FailedConnection", r.program, r.target)
    BY <1>3 DEF TakeFailingConnect
  <2>2. r.program \in Programs /\ r.target \in Programs \cup {Disconnected}
    <3>1. r \in Requests
      BY <1>3, <2>1 DEF AllRequests
    <3> QED BY <2>1, <3>1, ControlAssumption DEF RequestOK
  <2>3. Update("FailedConnection", r.program, r.target) \in Updates
    BY <2>2 DEF Update, Updates, Kinds, Sources, Targets, Tells
  <2> QED BY <2>1, <2>3
<1>4. ASSUME NEW r \in AllRequests, TakeQuery(r) PROVE message' \in Updates \cup {Nothing}
  BY <1>4, <1>a DEF TakeQuery, Takes, Update, Updates, Kinds, Sources, Targets, Tells
<1>5. CASE TakeUpdate
  BY <1>5, <1>a DEF TakeUpdate
<1>6. CASE \/ SendState \/ UpdateSent
  BY <1>6, <1>a DEF SendState, UpdateSent
<1>7. CASE \/ StateSent \/ Request \/ NotifyStopper \/ UNCHANGED controlProgramVars
          \/ (\E r \in AllRequests : TakeStart(r)) \/ (\E r \in AllRequests : TakeConnect(r))
          \/ (\E r \in AllRequests : TakeClose(r))
          \/ (\E r \in AllRequests : TakeStopWhenIdle(r))
          \/ (\E r \in AllRequests : TakeStop(r)) \/ (\E r \in AllRequests : TakeSubscribe(r))
          \/ (\E i \in sending : SendUpdate(i)) \/ (\E g \in Programs : Announce(g))
          \/ (\E g \in Programs : SendStopped(g)) \/ (\E g \in Programs : LeaveScene(g))
          \/ (\E g \in Programs : StartOutside(g)) \/ (\E g \in Programs : EndProgram(g))
          \/ (\E c \in Connectable : ConnectionChanges(c))
          \/ (\E p \in Subscribers : ReadUpdate(p))
  BY <1>7, <1>a
     DEF TakeStart, Takes, TakeConnect, TakeClose, TakeStopWhenIdle, TakeStop, TakeSubscribe, StateSent,
         SendUpdate, Request, NotifyStopper, Announce, SendStopped, LeaveScene, StartOutside, EndProgram,
         ConnectionChanges, ChangeConnection, ReadUpdate, controlProgramVars, controlVars, StaysIdle
<1> QED BY NextCases, <1>1, <1>2, <1>3, <1>4, <1>5, <1>6, <1>7

\* Taking a message changes what one subscriber knows.
LEMMA KnownAfterOK ==
  ASSUME known \in [Subscribers -> Views], message \in Updates, NEW p \in Receivers
  PROVE  /\ KnownAfter(p) \in [Subscribers -> Views]
         /\ \A q \in Subscribers : KnownAfter(p)[q] = IF q = p THEN Updated(known[q], message) ELSE known[q]
<1>1. CASE p = Discard
  BY <1>1, SubscribersAssumption DEF KnownAfter
<1>2. CASE p # Discard
  <2>1. p \in Subscribers /\ known[p] \in Views
    BY <1>2 DEF Receivers
  <2>2. Updated(known[p], message) \in Views
    BY <2>1, UpdatedView
  <2> QED BY <1>2, <2>1, <2>2 DEF KnownAfter
<1> QED BY <1>1, <1>2

\* The one to whom a message is sent takes it.
LEMMA TakenStep ==
  ASSUME Formed, PhasesOK
  PROVE  /\ SendState => target \in Subscribers /\ message \in Updates
         /\ \A i \in sending : SendUpdate(i) => receivers[i] \in Receivers /\ message \in Updates
<1>1. message \in Updates \cup {Nothing} /\ receivers \in Seq(Receivers) /\ sending \subseteq DOMAIN receivers
  BY DEF Formed, FormsOK, SubscribersTypeOK, Receivers
<1>2. ASSUME SendState PROVE target \in Subscribers /\ message \in Updates
  BY <1>1, <1>2 DEF SendState, PhasesOK
<1>3. ASSUME NEW i \in sending, SendUpdate(i) PROVE receivers[i] \in Receivers /\ message \in Updates
  BY <1>1, <1>3 DEF SendUpdate, PhasesOK
<1> QED BY <1>2, <1>3

\* What the subscribers know are views.
LEMMA KnownStep ==
  ASSUME Formed, PhasesOK, [ControlNext]_controlProgramVars
  PROVE  known' \in [Subscribers -> Views]
<1>a. known \in [Subscribers -> Views]
  BY DEF Formed, FormsOK
<1>b. EmptyView \in Views
  BY DEF EmptyView, Views
<1>c. ASSUME NEW g, Started(g) PROVE known' \in [Subscribers -> Views]
  BY <1>a, <1>b, <1>c DEF Started
<1>1. ASSUME NEW r \in AllRequests, TakeStart(r) PROVE known' \in [Subscribers -> Views]
  BY <1>1, <1>a, <1>c DEF TakeStart, Takes, history
<1>2. CASE \/ (\E r \in AllRequests : TakeStopWhenIdle(r))
          \/ (\E g \in Programs : StartOutside(g))
  BY <1>2, <1>c DEF TakeStopWhenIdle, Takes, StartOutside
<1>3. CASE SendState
  <2>1. target \in Subscribers /\ message \in Updates
    BY <1>3, TakenStep
  <2>2. KnownAfter(target) \in [Subscribers -> Views]
    BY <1>a, <2>1, KnownAfterOK DEF Receivers
  <2> QED BY <1>3, <1>a, <2>2 DEF SendState
<1>4. ASSUME NEW i \in sending, SendUpdate(i) PROVE known' \in [Subscribers -> Views]
  <2>1. receivers[i] \in Receivers /\ message \in Updates
    BY <1>4, TakenStep
  <2>2. KnownAfter(receivers[i]) \in [Subscribers -> Views]
    BY <1>a, <2>1, KnownAfterOK
  <2> QED BY <1>4, <1>a, <2>2 DEF SendUpdate
<1>5. CASE \/ StateSent \/ TakeUpdate \/ UpdateSent \/ Request \/ NotifyStopper
          \/ UNCHANGED controlProgramVars \/ (\E r \in AllRequests : TakeConnect(r))
          \/ (\E r \in AllRequests : TakeFailingConnect(r))
          \/ (\E r \in AllRequests : TakeClose(r)) \/ (\E r \in AllRequests : TakeStop(r))
          \/ (\E r \in AllRequests : TakeSubscribe(r)) \/ (\E r \in AllRequests : TakeQuery(r))
          \/ (\E g \in to_start : NextProgram(g)) \/ (\E c \in to_connect : NextConnection(c))
          \/ (\E g \in Programs : Announce(g)) \/ (\E g \in Programs : SendStopped(g))
          \/ (\E g \in Programs : LeaveScene(g)) \/ (\E g \in Programs : EndProgram(g))
          \/ (\E c \in Connectable : ConnectionChanges(c))
          \/ (\E p \in Subscribers : ReadUpdate(p))
  BY <1>5, <1>a
     DEF TakeConnect, Takes, TakeFailingConnect, TakeClose, TakeStop, TakeSubscribe, TakeQuery,
         NextProgram, NextConnection, StateSent, TakeUpdate, UpdateSent, Request, NotifyStopper, Announce,
         SendStopped, LeaveScene, EndProgram, ConnectionChanges, ChangeConnection, ReadUpdate,
         controlProgramVars, history
<1> QED BY NextCases, <1>1, <1>2, <1>3, <1>4, <1>5

\* A program has one connection in the view, whatever is told of it.
LEMMA ConnectionsStep ==
  ASSUME ControlInv, Formed, [ControlNext]_controlProgramVars
  PROVE  active_connections' \subseteq Connections /\ OneConnectionEach'
<1>a. active_connections \subseteq Connections /\ OneConnectionEach
  BY DEF Formed, FormsOK
<1>b. active_connections' = active_connections => active_connections' \subseteq Connections /\ OneConnectionEach'
  BY <1>a DEF OneConnectionEach
<1>1. CASE TakeUpdate
  <2> DEFINE u == Head(updates)
  <2>1. active_connections' = ConnectionsAfter(active_connections, u)
    BY <1>1 DEF TakeUpdate, Updated, View
  <2>2. u \in Updates
    BY <1>1 DEF TakeUpdate, ControlInv, ViewFollows
  <2>3. <<u.source, u.target>> \in Connections
    BY <2>2 DEF Updates, Connections
  <2> HIDE DEF u
  <2>4. active_connections' \subseteq Connections
    BY <1>a, <2>1, <2>3 DEF ConnectionsAfter, Keyed
  <2>5. ASSUME NEW c \in active_connections', NEW d \in active_connections', c[1] = d[1] PROVE c = d
    BY <1>a, <2>1, <2>5 DEF ConnectionsAfter, Keyed, OneConnectionEach
  <2> QED BY <2>4, <2>5 DEF OneConnectionEach
<1>2. CASE \/ SendState \/ StateSent \/ UpdateSent \/ Request \/ NotifyStopper
          \/ (\E r \in AllRequests : TakeStart(r))
          \/ (\E r \in AllRequests : TakeConnect(r))
          \/ (\E r \in AllRequests : TakeFailingConnect(r))
          \/ (\E r \in AllRequests : TakeClose(r)) \/ (\E r \in AllRequests : TakeSubscribe(r))
          \/ (\E r \in AllRequests : TakeQuery(r)) \/ (\E g \in to_start : NextProgram(g))
          \/ (\E c \in to_connect : NextConnection(c)) \/ (\E g \in Programs : Announce(g))
          \/ (\E g \in Programs : SendStopped(g)) \/ (\E g \in Programs : LeaveScene(g))
          \/ (\E c \in Connectable : ConnectionChanges(c))
  BY <1>2, <1>b
     DEF TakeStart, Takes, TakeConnect, TakeFailingConnect, TakeClose, TakeSubscribe, TakeQuery,
         NextProgram, NextConnection, SendState, StateSent, UpdateSent, Request, NotifyStopper, Announce,
         SendStopped, LeaveScene, ConnectionChanges, ChangeConnection,
         ViewKept, controlVars
<1>3. CASE \/ (\E r \in AllRequests : TakeStopWhenIdle(r))
          \/ (\E r \in AllRequests : TakeStop(r)) \/ (\E p \in Subscribers : ReadUpdate(p))
          \/ (\E g \in Programs : StartOutside(g)) \/ (\E g \in Programs : EndProgram(g))
          \/ (\E i \in sending : SendUpdate(i)) \/ UNCHANGED controlProgramVars
  BY <1>3, <1>b
     DEF TakeStopWhenIdle, Takes, TakeStop, ReadUpdate, StartOutside, EndProgram, SendUpdate,
         controlProgramVars, ViewKept, controlVars
<1> QED BY NextCases, <1>1, <1>2, <1>3
----------------------------------------------------------------------------
(* The list of subscribers. *)

\* What happens to the stream of a subscriber keeps the types.
LEMMA StreamKeepsTypes ==
  ASSUME SubscribersTypeOK, NEW p \in Subscribers,
         \/ OpenStream(p) \/ RemoveStream(p) \/ ReadEvent(p)
         \/ \E keeps \in BOOLEAN : CloseStream(p, keeps)
  PROVE  SubscribersTypeOK'
<1>1. Capacity \in Nat /\ 0 \in 0..Capacity
  BY SubscribersAssumption
<1>2. CASE OpenStream(p)
  BY <1>1, <1>2 DEF SubscribersTypeOK, OpenStream
<1>3. CASE RemoveStream(p)
  BY <1>3 DEF SubscribersTypeOK, RemoveStream
<1>4. CASE ReadEvent(p)
  BY <1>1, <1>4 DEF SubscribersTypeOK, ReadEvent
<1>5. CASE \E keeps \in BOOLEAN : CloseStream(p, keeps)
  BY <1>1, <1>5 DEF SubscribersTypeOK, CloseStream
<1> QED BY <1>2, <1>3, <1>4, <1>5

\* A context.send changes no sink but the subscriber's.
LEMMA SinksKeepTypes ==
  ASSUME SubscribersTypeOK, NEW p \in Subscribers
  PROVE  /\ SinkAfterContextSend(p) \in [Subscribers -> {Nothing, Disconnected, "input"}]
         /\ SinkAfterRefusal(p) \in [Subscribers -> {Nothing, Disconnected, "input"}]
  BY DEF SubscribersTypeOK, SinkAfterContextSend, SinkAfterRefusal

\* So does sending to them.
LEMMA SendKeepsTypes ==
  ASSUME SubscribersTypeOK,
         \/ BeginSend \/ EndSend \/ \E i \in sending : DeliverTo(i) \/ RefusedBy(i)
         \/ sending = {} /\ refused = {} /\ \E p \in Subscribers : SubscribeTo(p, Reachable(p))
  PROVE  SubscribersTypeOK'
<1>1. /\ Capacity \in Nat /\ receivers \in Seq(Receivers) /\ inbox \in [Subscribers -> 0..Capacity]
      /\ sink \in [Subscribers -> {Nothing, Disconnected, "input"}]
      /\ sending \cup refused \subseteq DOMAIN receivers /\ sending \cap refused = {}
  BY SubscribersAssumption DEF SubscribersTypeOK, Receivers
<1>2. Attached \in Seq(Receivers) /\ WithoutRefused \in Seq(Receivers)
  BY <1>1, AttachedProperties, WithoutRefusedProperties
<1>3. CASE BeginSend
  BY <1>2, <1>3 DEF SubscribersTypeOK, BeginSend, Receivers
<1>4. CASE EndSend
  BY <1>2, <1>4 DEF SubscribersTypeOK, EndSend, Receivers
<1>5. ASSUME NEW i \in sending, DeliverTo(i) PROVE SubscribersTypeOK'
  <2>1. receivers[i] \in Receivers /\ Accepts(receivers[i]) /\ inbox' = InboxAfter(receivers[i])
    BY <1>1, <1>5 DEF DeliverTo
  <2>2. inbox' \in [Subscribers -> 0..Capacity]
    BY <1>1, <2>1 DEF Receivers, Accepts, InboxAfter
  <2> QED BY <1>5, <2>2 DEF SubscribersTypeOK, DeliverTo
<1>6. ASSUME NEW i \in sending, RefusedBy(i) PROVE SubscribersTypeOK'
  <2>1. receivers[i] \in Subscribers /\ sink' = SinkAfterRefusal(receivers[i])
    BY <1>1, <1>6 DEF RefusedBy, Refuses, Receivers
  <2>2. sink' \in [Subscribers -> {Nothing, Disconnected, "input"}]
    BY <2>1, SinksKeepTypes
  <2> QED BY <1>6, <2>2 DEF SubscribersTypeOK, RefusedBy
<1>7. ASSUME sending = {}, refused = {}, NEW p \in Subscribers, SubscribeTo(p, Reachable(p))
      PROVE  SubscribersTypeOK'
  <2>1. receivers' \in Seq(Receivers)
    BY <1>2, <1>7 DEF SubscribeTo, Receivers
  <2>2. sink' \in [Subscribers -> {Nothing, Disconnected, "input"}]
    BY <1>1, <1>7, SinksKeepTypes DEF SubscribeTo
  <2> QED BY <1>7, <2>1, <2>2 DEF SubscribersTypeOK, SubscribeTo, Receivers
<1> QED BY <1>3, <1>4, <1>5, <1>6, <1>7

\* The start and the end of a program do not change what is sent, and to whom.
LEMMA ProgramStreams ==
  ASSUME SubscribersTypeOK, NEW g \in Programs,
         \/ StreamOpens(g) \/ StreamGoes(g) \/ \E keeps \in BOOLEAN : StreamCloses(g, keeps)
  PROVE  SubscribersTypeOK' /\ UNCHANGED <<receivers, sending, refused>>
<1>1. CASE UNCHANGED subscriberVars
  BY <1>1 DEF subscriberVars, SubscribersTypeOK
<1>2. CASE ~UNCHANGED subscriberVars
  <2>1. g \in Subscribers
    BY <1>2 DEF StreamOpens, StreamGoes, StreamCloses
  <2>2. OpenStream(g) \/ RemoveStream(g) \/ \E keeps \in BOOLEAN : CloseStream(g, keeps)
    BY <1>2 DEF StreamOpens, StreamGoes, StreamCloses
  <2> QED BY <2>1, <2>2, StreamKeepsTypes DEF OpenStream, RemoveStream, CloseStream
<1> QED BY <1>1, <1>2

\* Only the start of a program opens a stream.
LEMMA StreamsOnlyClose ==
  ASSUME SubscribersTypeOK, NEW g \in Programs, StreamGoes(g) \/ \E keeps \in BOOLEAN : StreamCloses(g, keeps)
  PROVE  \A p \in Subscribers : stream'[p] = "open" => stream[p] = "open"
<1>1. CASE UNCHANGED subscriberVars
  BY <1>1 DEF subscriberVars
<1>2. CASE ~UNCHANGED subscriberVars
  <2>1. g \in Subscribers /\ (RemoveStream(g) \/ \E keeps \in BOOLEAN : CloseStream(g, keeps))
    BY <1>2 DEF StreamGoes, StreamCloses
  <2> QED BY <2>1 DEF SubscribersTypeOK, RemoveStream, CloseStream
<1> QED BY <1>1, <1>2

\* A request to close names a program, if it finds one.
LEMMA ClosedProgram ==
  ASSUME ControlInv, NEW r \in AllRequests, TakeClose(r)
  PROVE  UNCHANGED subscriberVars \/ \E g \in Programs, keeps \in BOOLEAN : StreamCloses(g, keeps)
<1>1. r.program \in Programs
  BY ControlAssumption DEF RequestOK, AllRequests, TakeClose
<1>2. GetSubProgram(r.program) \in Programs \cup {None}
  BY <1>1, TableAssumption DEF ControlInv, IInv, TypeOK, GetSubProgram
<1> QED BY <1>2 DEF TakeClose

\* Who subscribes, or asks, is a subscriber.
LEMMA AskerSubscribes ==
  ASSUME NEW r \in AllRequests, TakeSubscribe(r) \/ TakeQuery(r) PROVE r.program \in Subscribers
  BY ControlAssumption DEF RequestOK, AllRequests, TakeSubscribe, TakeQuery

\* The list of subscribers keeps its types.
LEMMA SubscribersTypeStep ==
  ASSUME ControlInv, Formed, PhasesOK, [ControlNext]_controlProgramVars
  PROVE  SubscribersTypeOK'
<1>a. SubscribersTypeOK
  BY DEF Formed
<1>b. UNCHANGED subscriberVars => SubscribersTypeOK'
  BY <1>a DEF subscriberVars, SubscribersTypeOK
<1>c. ASSUME NEW g \in Programs, Started(g) PROVE SubscribersTypeOK'
  BY <1>a, <1>c, ProgramStreams DEF Started
<1>d. pc = "idle" => sending = {} /\ refused = {}
  BY DEF PhasesOK
<1>1. ASSUME NEW r \in AllRequests, TakeStart(r) PROVE SubscribersTypeOK'
  <2>1. r.program \in Programs
    BY <1>1, ControlAssumption DEF TakeStart, RequestOK, AllRequests
  <2> QED BY <1>1, <1>b, <1>c, <2>1 DEF TakeStart
<1>2. ASSUME NEW r \in AllRequests, TakeStopWhenIdle(r) PROVE SubscribersTypeOK'
  BY <1>2, <1>c, ControlAssumption DEF TakeStopWhenIdle, Takes
<1>3. ASSUME NEW g \in Programs, StartOutside(g) PROVE SubscribersTypeOK'
  BY <1>3, <1>c DEF StartOutside
<1>4. ASSUME NEW g \in Programs, EndProgram(g) PROVE SubscribersTypeOK'
  BY <1>4, <1>a, ProgramStreams DEF EndProgram
<1>5. ASSUME NEW g \in Programs, LeaveScene(g) PROVE SubscribersTypeOK'
  BY <1>5, <1>a, ProgramStreams DEF LeaveScene
<1>6. ASSUME NEW r \in AllRequests, TakeClose(r) PROVE SubscribersTypeOK'
  BY <1>6, <1>a, <1>b, ClosedProgram, ProgramStreams DEF TakeClose, Takes
<1>7. ASSUME NEW p \in Subscribers, ReadUpdate(p) PROVE SubscribersTypeOK'
  BY <1>7, <1>a, StreamKeepsTypes DEF ReadUpdate
<1>8. CASE \/ TakeUpdate \/ UpdateSent \/ (\E r \in AllRequests : TakeFailingConnect(r))
  BY <1>8, <1>a, SendKeepsTypes DEF TakeFailingConnect, Takes, TakeUpdate, UpdateSent
<1>9. ASSUME NEW i \in sending, SendUpdate(i) PROVE SubscribersTypeOK'
  BY <1>9, <1>a, SendKeepsTypes DEF SendUpdate
<1>10. ASSUME NEW r \in AllRequests, TakeSubscribe(r) PROVE SubscribersTypeOK'
  BY <1>10, <1>a, <1>d, SendKeepsTypes, AskerSubscribes DEF TakeSubscribe, Takes
<1>11. ASSUME NEW r \in AllRequests, TakeQuery(r) PROVE SubscribersTypeOK'
  <2>1. r.program \in Subscribers
    BY <1>11, AskerSubscribes
  <2>2. sink' \in [Subscribers -> {Nothing, Disconnected, "input"}]
    BY <1>11, <1>a, <2>1, SinksKeepTypes DEF TakeQuery, SubscribersTypeOK
  <2> QED BY <1>11, <1>a, <2>2 DEF TakeQuery, SubscribersTypeOK
<1>12. CASE SendState
  <2>1. target \in Subscribers
    BY <1>12, TakenStep
  <2>2. inbox' \in [Subscribers -> 0..Capacity]
    BY <1>12, <1>a, <2>1, SubscribersAssumption DEF SendState, SubscribersTypeOK, Accepts, InboxAfter
  <2>3. sink' \in [Subscribers -> {Nothing, Disconnected, "input"}]
    BY <1>12, <1>a, <2>1, SinksKeepTypes DEF SendState, SubscribersTypeOK
  <2> QED BY <1>12, <1>a, <2>2, <2>3 DEF SendState, SubscribersTypeOK
<1>13. CASE \/ StateSent \/ Request \/ NotifyStopper \/ UNCHANGED controlProgramVars
          \/ (\E r \in AllRequests : TakeConnect(r)) \/ (\E r \in AllRequests : TakeStop(r))
          \/ (\E g \in to_start : NextProgram(g)) \/ (\E c \in to_connect : NextConnection(c))
          \/ (\E g \in Programs : Announce(g)) \/ (\E g \in Programs : SendStopped(g))
          \/ (\E c \in Connectable : ConnectionChanges(c))
  BY <1>13, <1>b
     DEF TakeConnect, Takes, TakeStop, NextProgram, NextConnection, StateSent, Request, NotifyStopper,
         Announce, SendStopped, ConnectionChanges, ChangeConnection, controlProgramVars
<1> QED BY NextCases, <1>1, <1>2, <1>3, <1>4, <1>5, <1>6, <1>7, <1>8, <1>9, <1>10, <1>11, <1>12, <1>13
----------------------------------------------------------------------------
(* The steps in which the control program sends nothing. *)

Aside == UNCHANGED <<receivers, sending, refused, pc, target, to_start, to_connect, message,
                     started_subprograms, active_connections>>
Queues == updates' = updates \/ \E u \in Updates : updates' = Append(updates, u)

\* Streams close, and updates are queued.
Quiet == /\ Aside /\ Queues /\ UNCHANGED history
         /\ \A p \in Subscribers : stream'[p] = "open" => stream[p] = "open"
Starts(g) == Aside /\ UNCHANGED updates /\ Started(g)
SendsNothing == Quiet \/ \E g \in Programs : Starts(g)

\* A program, or the control program, tells of a connection.
LEMMA ConnectionIsQueued ==
  ASSUME NEW g \in Programs, NEW t \in Programs \cup {Disconnected},
         NEW source \in {OutputOf(g), ControlOutput(g)},
         updates' = Append(updates, ConnectionUpdate(source, t))
  PROVE  Queues
<1> DEFINE u == ConnectionUpdate(source, t)
<1>1. u \in Updates
  BY ConnectionUpdateOK
<1>2. updates' = Append(updates, u)
  OBVIOUS
<1> QED BY <1>1, <1>2 DEF Queues

\* A program tells of its start, or of its end.
LEMMA LifeIsQueued ==
  ASSUME ControlInv, NEW g \in Programs, Announce(g) \/ SendStopped(g)
  PROVE  Queues
<1>1. \A kind \in {"Started", "Stopped"} : Update(kind, g, Nothing) \in Updates
  BY DEF Update, Updates, Kinds, Sources, Targets, Tells
<1>2. CASE Announce(g)
  BY <1>1, <1>2 DEF Announce, Queues
<1>3. CASE SendStopped(g)
  BY <1>1, <1>3 DEF SendStopped, Queues
<1> QED BY <1>2, <1>3

\* A step starts a program, is quiet, or sends.
LEMMA QuietCases ==
  ASSUME ControlInv, Formed, [ControlNext]_controlProgramVars
  PROVE  \/ SendsNothing
         \/ \E r \in AllRequests : TakeFailingConnect(r)
         \/ \E r \in AllRequests : TakeSubscribe(r)
         \/ \E r \in AllRequests : TakeQuery(r)
         \/ \E g \in to_start : NextProgram(g)
         \/ \E c \in to_connect : NextConnection(c)
         \/ SendState
         \/ StateSent
         \/ TakeUpdate
         \/ UpdateSent
         \/ \E i \in sending : SendUpdate(i)
<1> DEFINE OnlyClose == \A p \in Subscribers : stream'[p] = "open" => stream[p] = "open"
<1>a. SubscribersTypeOK
  BY DEF Formed
<1>b. UNCHANGED subscriberVars => OnlyClose /\ UNCHANGED <<receivers, sending, refused>>
  BY DEF subscriberVars
<1>c. \A g \in Programs : Started(g) => UNCHANGED <<receivers, sending, refused>>
  BY <1>a, ProgramStreams DEF Started
<1>d. \A g \in Programs : StreamGoes(g) \/ (\E keeps \in BOOLEAN : StreamCloses(g, keeps))
         => OnlyClose /\ UNCHANGED <<receivers, sending, refused>>
  BY <1>a, ProgramStreams, StreamsOnlyClose
<1> HIDE DEF OnlyClose
<1>1. ASSUME NEW r \in AllRequests, TakeStart(r) PROVE SendsNothing
  <2>1. r.program \in Programs
    BY <1>1, ControlAssumption DEF TakeStart, RequestOK, AllRequests
  <2>2. CASE Started(r.program)
    BY <1>1, <1>c, <2>1, <2>2 DEF TakeStart, ViewKept, StaysIdle, Aside, Starts, SendsNothing
  <2>3. CASE ~Started(r.program)
    BY <1>1, <1>b, <2>3 DEF TakeStart, ViewKept, StaysIdle, Aside, Quiet, Queues, SendsNothing, OnlyClose
  <2> QED BY <2>2, <2>3
<1>2. ASSUME NEW r \in AllRequests, TakeStopWhenIdle(r) PROVE SendsNothing
  BY <1>2, <1>c, ControlAssumption
     DEF TakeStopWhenIdle, Takes, ViewKept, StaysIdle, Aside, Starts, SendsNothing
<1>3. ASSUME NEW g \in Programs, StartOutside(g) PROVE SendsNothing
  BY <1>3, <1>c DEF StartOutside, controlVars, Aside, Starts, SendsNothing
<1>4. CASE \/ (\E g \in Programs : EndProgram(g)) \/ (\E g \in Programs : LeaveScene(g))
  BY <1>4, <1>d DEF EndProgram, LeaveScene, controlVars, Aside, Queues, Quiet, SendsNothing, OnlyClose
<1>5. ASSUME NEW r \in AllRequests, TakeClose(r) PROVE SendsNothing
  BY <1>5, <1>b, <1>d, ClosedProgram
     DEF TakeClose, Takes, ViewKept, StaysIdle, Aside, Queues, Quiet, SendsNothing, OnlyClose
<1>6. ASSUME NEW r \in AllRequests, TakeStop(r) PROVE SendsNothing
  BY <1>6, <1>b DEF TakeStop, Takes, ViewKept, StaysIdle, Aside, Queues, Quiet, SendsNothing, OnlyClose
<1>7. ASSUME NEW r \in AllRequests, TakeConnect(r) PROVE SendsNothing
  <2>1. r.program \in Programs /\ r.target \in Programs \cup {Disconnected}
    BY <1>7, ControlAssumption DEF TakeConnect, RequestOK, AllRequests
  <2>2. Queues
    BY <1>7, <2>1, ConnectionIsQueued DEF TakeConnect, Queues
  <2> QED BY <1>7, <1>b, <2>2 DEF TakeConnect, ViewKept, StaysIdle, Aside, Quiet, SendsNothing, OnlyClose
<1>8. CASE \/ (\E g \in Programs : Announce(g)) \/ (\E g \in Programs : SendStopped(g))
  BY <1>8, <1>b, LifeIsQueued DEF Announce, SendStopped, Aside, Quiet, SendsNothing, OnlyClose
<1>9. ASSUME NEW c \in Connectable, ConnectionChanges(c) PROVE SendsNothing
  <2>1. c[1] \in Programs /\ c[2] \in Programs \cup {Disconnected}
    BY ControlAssumption
  <2>2. Queues
    BY <1>9, <2>1, ConnectionIsQueued DEF ConnectionChanges, ChangeConnection
  <2> QED BY <1>9, <1>b, <2>2 DEF ConnectionChanges, ChangeConnection, Aside, Quiet, SendsNothing, OnlyClose
<1>10. CASE \/ Request \/ NotifyStopper \/ UNCHANGED controlProgramVars
  BY <1>10, <1>b
     DEF Request, NotifyStopper, controlProgramVars, controlVars, Aside, Queues, Quiet, SendsNothing,
         OnlyClose
<1>11. ASSUME NEW p \in Subscribers, ReadUpdate(p) PROVE SendsNothing
  BY <1>11 DEF ReadUpdate, ReadEvent, controlVars, Aside, Queues, Quiet, SendsNothing, OnlyClose
<1> QED BY NextCases, <1>1, <1>2, <1>3, <1>4, <1>5, <1>6, <1>7, <1>8, <1>9, <1>10, <1>11
----------------------------------------------------------------------------
(* The streams and sinks of the subscribers. *)

\* A subscriber that runs has an open stream, unless it is ending.
LEMMA StreamsKept ==
  ASSUME SubscribersTypeOK, LifeInv, StreamsOK, UNCHANGED <<receivers, stream, sink>>,
         \A p \in Subscribers : life[p] \in {"started", "running"} => life'[p] \in {"started", "running"}
  PROVE  StreamsOK'
  BY DEF StreamsOK

\* A stream is opened when its program starts, and the sinks for it are connected.
LEMMA OpenKept ==
  ASSUME SubscribersTypeOK, LifeInv, StreamsOK, NEW g \in Programs, Started(g)
  PROVE  StreamsOK'
<1>1. receivers \in Seq(Receivers)
  BY DEF SubscribersTypeOK, Receivers
<1>2. life' = [life EXCEPT ![g] = "started"]
  BY DEF Started
<1>3. CASE g \in Subscribers
  <2>1. OpenStream(g)
    BY <1>3 DEF Started, StreamOpens
  <2> QED BY <1>1, <1>2, <2>1, SubscribersAssumption, ControlAssumption
         DEF LifeInv, SubscribersTypeOK, StreamsOK, OpenStream, Receivers
<1>4. CASE g \notin Subscribers
  BY <1>2, <1>4, ControlAssumption DEF Started, StreamOpens, subscriberVars, LifeInv, StreamsOK
<1> QED BY <1>3, <1>4

\* It is closed before its program ends.
LEMMA CloseKept ==
  ASSUME SubscribersTypeOK, LifeInv, StreamsOK, NEW g \in Programs,
         \/ (\E keeps \in BOOLEAN : StreamCloses(g, keeps)) /\ (life' = life \/ life' = [life EXCEPT ![g] = "stopping"])
         \/ StreamGoes(g) /\ life' = [life EXCEPT ![g] = "none"]
  PROVE  StreamsOK'
<1>1. CASE g \in Subscribers
  <2>1. \/ \E keeps \in BOOLEAN : CloseStream(g, keeps)
        \/ RemoveStream(g)
        \/ UNCHANGED subscriberVars /\ stream[g] # "open"
    BY <1>1 DEF StreamCloses, StreamGoes
  <2>2. /\ receivers' = receivers /\ sink' = sink
        /\ \A p \in Subscribers : stream'[p] = "open" => p # g /\ stream[p] = "open"
    BY <1>1, <2>1 DEF SubscribersTypeOK, CloseStream, RemoveStream, subscriberVars
  <2>3. \A p \in Subscribers : p # g => life'[p] = life[p]
    BY ControlAssumption DEF LifeInv
  <2> QED BY <2>2, <2>3 DEF StreamsOK
<1>2. CASE g \notin Subscribers
  <2>1. UNCHANGED subscriberVars
    BY <1>2 DEF StreamCloses, StreamGoes
  <2> QED BY <1>2, <2>1, ControlAssumption DEF LifeInv, StreamsOK, subscriberVars
<1> QED BY <1>1, <1>2

\* The receivers are chosen from those there were, and a new one has a sink.
LEMMA ReceiversKept ==
  ASSUME SubscribersTypeOK, SubscribersTypeOK', StreamsOK, UNCHANGED <<stream, life>>,
         \A j \in DOMAIN receivers' : receivers'[j] # Discard => sink'[receivers'[j]] # Nothing,
         \A p \in Subscribers : stream[p] = "open" => sink'[p] = sink[p] \/ sink'[p] # Disconnected
  PROVE  StreamsOK'
  BY DEF StreamsOK

\* Who is attached, or is not refused, was a receiver.
LEMMA ReceiversHaveSinks ==
  ASSUME SubscribersTypeOK, StreamsOK
  PROVE  /\ \A j \in DOMAIN Attached : Attached[j] # Discard => sink[Attached[j]] # Nothing
         /\ \A j \in DOMAIN WithoutRefused : WithoutRefused[j] # Discard => sink[WithoutRefused[j]] # Nothing
<1>1. receivers \in Seq(Receivers)
  BY DEF SubscribersTypeOK, Receivers
<1>2. \A i \in DOMAIN receivers : receivers[i] # Discard => sink[receivers[i]] # Nothing
  BY DEF StreamsOK
<1>3. \A j \in DOMAIN Attached : \E i \in DOMAIN receivers : Attached[j] = receivers[i]
  BY <1>1, AttachedProperties
<1>4. \A j \in DOMAIN WithoutRefused : \E i \in DOMAIN receivers \ refused : WithoutRefused[j] = receivers[i]
  BY <1>1, WithoutRefusedProperties
<1> QED BY <1>2, <1>3, <1>4

\* A sink that is asked for or refused does not come to nothing, and is not disconnected from
\* an open stream.
LEMMA SinksKept ==
  ASSUME SubscribersTypeOK, NEW p \in Subscribers,
         NEW s \in {SinkAfterContextSend(p), SinkAfterRefusal(p)}
  PROVE  /\ \A q \in Subscribers : sink[q] # Nothing => s[q] # Nothing
         /\ \A q \in Subscribers : stream[q] = "open" => s[q] = sink[q] \/ s[q] # Disconnected
         /\ SinkAfterContextSend(p)[p] # Nothing
  BY SubscribersAssumption DEF SubscribersTypeOK, SinkAfterContextSend, SinkAfterRefusal

\* The streams of subscribers follow their programs, and the sinks their streams.
LEMMA StreamsStep ==
  ASSUME SubscriptionInv, [ControlNext]_controlProgramVars
  PROVE  StreamsOK'
<1>v. /\ SubscribersTypeOK /\ LifeInv /\ StreamsOK /\ Formed /\ PhasesOK /\ ControlInv
      /\ receivers \in Seq(Receivers)
  BY DEF SubscriptionInv, Formed, ControlInv, SubscribersTypeOK, Receivers
<1>b. UNCHANGED <<subscriberVars, life>> => StreamsOK'
  BY <1>v DEF subscriberVars, StreamsOK
<1>c. SubscribersTypeOK'
  BY <1>v, SubscribersTypeStep
<1>d. UNCHANGED <<stream, life, receivers>>
      /\ (\A q \in Subscribers : /\ sink[q] # Nothing => sink'[q] # Nothing
                                 /\ stream[q] = "open" => sink'[q] = sink[q] \/ sink'[q] # Disconnected)
      => StreamsOK'
  BY <1>v, <1>c DEF StreamsOK, Receivers
<1>1. ASSUME NEW r \in AllRequests, TakeStart(r) PROVE StreamsOK'
  <2>1. r.program \in Programs
    BY <1>1, ControlAssumption DEF TakeStart, RequestOK, AllRequests
  <2> QED BY <1>1, <1>v, <1>b, <2>1, OpenKept DEF TakeStart
<1>2. ASSUME NEW r \in AllRequests, TakeStopWhenIdle(r) PROVE StreamsOK'
  BY <1>2, <1>v, OpenKept, ControlAssumption DEF TakeStopWhenIdle, Takes
<1>3. ASSUME NEW g \in Programs, StartOutside(g) PROVE StreamsOK'
  BY <1>3, <1>v, OpenKept DEF StartOutside
<1>4. ASSUME NEW g \in Programs, EndProgram(g) PROVE StreamsOK'
  BY <1>4, <1>v, CloseKept DEF EndProgram
<1>5. ASSUME NEW g \in Programs, LeaveScene(g) PROVE StreamsOK'
  BY <1>5, <1>v, CloseKept DEF LeaveScene
<1>6. ASSUME NEW r \in AllRequests, TakeClose(r) PROVE StreamsOK'
  BY <1>6, <1>v, <1>b, ClosedProgram, CloseKept DEF TakeClose, Takes
<1>7. ASSUME NEW p \in Subscribers, ReadUpdate(p) PROVE StreamsOK'
  BY <1>7, <1>v, StreamsKept DEF ReadUpdate, ReadEvent
<1>8. ASSUME NEW g \in Programs, Announce(g) PROVE StreamsOK'
  BY <1>8, <1>v, StreamsKept DEF Announce, subscriberVars, LifeInv
<1>9. ASSUME NEW g \in Programs, SendStopped(g) PROVE StreamsOK'
  BY <1>9, <1>v, StreamsKept DEF SendStopped, subscriberVars, LifeInv
<1>10. CASE NotifyStopper
  BY <1>10, <1>v, StreamsKept, ControlAssumption DEF NotifyStopper, subscriberVars, LifeInv
<1>11. CASE \/ TakeUpdate \/ (\E r \in AllRequests : TakeFailingConnect(r))
  BY <1>11, <1>v, <1>c, ReceiversKept, ReceiversHaveSinks DEF TakeFailingConnect, Takes, TakeUpdate, BeginSend
<1>12. CASE UpdateSent
  BY <1>12, <1>v, <1>c, ReceiversKept, ReceiversHaveSinks DEF UpdateSent, EndSend
<1>13. ASSUME NEW r \in AllRequests, TakeSubscribe(r) PROVE StreamsOK'
  <2> DEFINE p == r.program
  <2>1. p \in Subscribers /\ UNCHANGED <<stream, life>> /\ Attached \in Seq(Receivers)
    BY <1>13, <1>v, AskerSubscribes, AttachedProperties DEF TakeSubscribe, SubscribeTo
  <2> HIDE DEF p
  <2>2. CASE Reachable(p)
    <3>1. receivers' = Append(Attached, p) /\ sink' = SinkAfterContextSend(p)
      BY <1>13, <2>2 DEF TakeSubscribe, SubscribeTo, p
    <3>2. ASSUME NEW j \in DOMAIN receivers', receivers'[j] # Discard PROVE sink'[receivers'[j]] # Nothing
      <4>1. (j \in DOMAIN Attached /\ receivers'[j] = Attached[j]) \/ receivers'[j] = p
        BY <2>1, <3>1, <3>2
      <4>2. CASE j \in DOMAIN Attached /\ receivers'[j] = Attached[j]
        <5>1. receivers'[j] \in Subscribers /\ sink[receivers'[j]] # Nothing
          BY <1>v, <2>1, <3>2, <4>2, ReceiversHaveSinks DEF Receivers
        <5> QED BY <1>v, <2>1, <3>1, <5>1, SinksKept
      <4>3. CASE receivers'[j] = p
        BY <1>v, <2>1, <3>1, <4>3, SinksKept
      <4> QED BY <4>1, <4>2, <4>3
    <3>3. \A q \in Subscribers : stream[q] = "open" => sink'[q] = sink[q] \/ sink'[q] # Disconnected
      BY <1>v, <2>1, <3>1, SinksKept
    <3> QED BY <1>v, <2>1, <3>2, <3>3, <1>c, ReceiversKept
  <2>3. CASE ~Reachable(p)
    <3>1. receivers' = Attached /\ sink' = sink
      BY <1>13, <2>3 DEF TakeSubscribe, SubscribeTo, p
    <3> QED BY <1>v, <1>c, <2>1, <3>1, ReceiversKept, ReceiversHaveSinks
  <2> QED BY <2>2, <2>3
<1>14. ASSUME NEW r \in AllRequests, TakeQuery(r) PROVE StreamsOK'
  <2>1. r.program \in Subscribers
    BY <1>14, AskerSubscribes
  <2>2. UNCHANGED <<stream, life, receivers>> /\ (sink' = sink \/ sink' = SinkAfterContextSend(r.program))
    BY <1>14 DEF TakeQuery
  <2>3. \A q \in Subscribers :
           /\ sink[q] # Nothing => sink'[q] # Nothing
           /\ stream[q] = "open" => sink'[q] = sink[q] \/ sink'[q] # Disconnected
    BY <1>v, <2>1, <2>2, SinksKept
  <2> QED BY <1>v, <1>d, <2>2, <2>3
<1>15. CASE SendState
  <2>1. target \in Subscribers
    BY <1>15, <1>v, TakenStep
  <2>2. UNCHANGED <<stream, life, receivers>> /\ (sink' = sink \/ sink' = SinkAfterRefusal(target))
    BY <1>15 DEF SendState
  <2>3. \A q \in Subscribers :
           /\ sink[q] # Nothing => sink'[q] # Nothing
           /\ stream[q] = "open" => sink'[q] = sink[q] \/ sink'[q] # Disconnected
    BY <1>v, <2>1, <2>2, SinksKept
  <2> QED BY <1>v, <1>d, <2>2, <2>3
<1>16. ASSUME NEW i \in sending, SendUpdate(i) PROVE StreamsOK'
  <2>1. receivers[i] \in Receivers
    BY <1>16, <1>v, TakenStep
  <2>2. /\ UNCHANGED <<stream, life, receivers>>
        /\ sink' = sink \/ (sink' = SinkAfterRefusal(receivers[i]) /\ receivers[i] # Discard)
    BY <1>16 DEF SendUpdate, DeliverTo, RefusedBy, Refuses
  <2>3. \A q \in Subscribers :
           /\ sink[q] # Nothing => sink'[q] # Nothing
           /\ stream[q] = "open" => sink'[q] = sink[q] \/ sink'[q] # Disconnected
    BY <1>v, <2>1, <2>2, SinksKept DEF Receivers
  <2> QED BY <1>v, <1>d, <2>2, <2>3
<1>17. CASE \/ StateSent \/ Request \/ UNCHANGED controlProgramVars
          \/ (\E r \in AllRequests : TakeConnect(r)) \/ (\E r \in AllRequests : TakeStop(r))
          \/ (\E g \in to_start : NextProgram(g)) \/ (\E c \in to_connect : NextConnection(c))
          \/ (\E c \in Connectable : ConnectionChanges(c))
  BY <1>17, <1>b
     DEF TakeConnect, Takes, TakeStop, NextProgram, NextConnection, StateSent, Request, ConnectionChanges,
         ChangeConnection, controlProgramVars
<1> QED BY NextCases, <1>1, <1>2, <1>3, <1>4, <1>5, <1>6, <1>7, <1>8, <1>9, <1>10, <1>11, <1>12, <1>13, <1>14,
            <1>15, <1>16, <1>17
\* What the control program has in hand fits what it does.
LEMMA PhasesStep ==
  ASSUME SubscriptionInv, [ControlNext]_controlProgramVars
  PROVE  PhasesOK'
<1>v. /\ PhasesOK /\ Formed /\ ControlInv /\ receivers \in Seq(Receivers)
      /\ started_subprograms \subseteq Programs /\ active_connections \subseteq Connections
  BY DEF SubscriptionInv, Formed, FormsOK, ControlInv, ViewFollows, SubscribersTypeOK, Receivers
<1>0. ASSUME SendsNothing PROVE PhasesOK'
  <2>1. Aside
    BY <1>0 DEF SendsNothing, Quiet, Starts
  <2> QED BY <1>v, <2>1 DEF Aside, PhasesOK, View, IsReceiver, SaysNothing
<1>1. ASSUME NEW r \in AllRequests, TakeFailingConnect(r) PROVE PhasesOK'
  <2>1. /\ pc = "idle" /\ pc' = "sending" /\ UNCHANGED <<target, to_start, to_connect, View>>
        /\ message' = Update("FailedConnection", r.program, r.target)
    BY <1>1 DEF TakeFailingConnect, Takes, ViewKept, View
  <2>2. Updated(View, message') = View
    BY <2>1 DEF Updated, Update, ProgramsAfter, ConnectionsAfter, View
  <2>3. message' # Nothing
    BY <1>1, <2>1, ControlAssumption, NothingAssumption
       DEF TakeFailingConnect, RequestOK, AllRequests, Update, Kinds, Sources, Targets
  <2> QED BY <1>1, <1>v, <2>1, <2>2, <2>3 DEF TakeFailingConnect, ViewKept, View, PhasesOK
<1>2. ASSUME NEW r \in AllRequests, TakeSubscribe(r) PROVE PhasesOK'
  <2> DEFINE p == r.program
  <2>1. /\ p \in Subscribers /\ Attached \in Seq(Receivers) /\ UNCHANGED <<sending, refused, message>>
        /\ pc = "idle"
    BY <1>2, <1>v, AskerSubscribes, AttachedProperties DEF TakeSubscribe, SubscribeTo, Takes
  <2> HIDE DEF p
  <2>2. CASE Reachable(p)
    <3>1. /\ receivers' = Append(Attached, p) /\ pc' = "state" /\ target' = p
          /\ to_start' = started_subprograms' /\ to_connect' = active_connections'
      BY <1>2, <2>2 DEF TakeSubscribe, SubscribeTo, ProgramsToSend, ViewKept, p
    <3>2. \E j \in DOMAIN receivers' : receivers'[j] = p
      <4>1. Len(Attached) + 1 \in DOMAIN receivers' /\ receivers'[Len(Attached) + 1] = p
        BY <2>1, <3>1
      <4> QED BY <4>1
    <3>3. IsReceiver(target)'
      BY <1>v, <2>1, <3>1, <3>2 DEF IsReceiver, PhasesOK
    <3> QED BY <1>v, <2>1, <3>1, <3>3 DEF PhasesOK, SaysNothing
  <2>3. CASE ~Reachable(p)
    BY <1>2, <1>v, <2>1, <2>3 DEF TakeSubscribe, ViewKept, View, PhasesOK, p
  <2> QED BY <2>2, <2>3
<1>3. ASSUME NEW r \in AllRequests, TakeQuery(r) PROVE PhasesOK'
  <2> DEFINE p == r.program
  <2>1. p \in Subscribers /\ UNCHANGED <<receivers, sending, refused, to_start, to_connect>> /\ pc = "idle"
    BY <1>3, AskerSubscribes DEF TakeQuery, Takes
  <2> HIDE DEF p
  <2>2. CASE Reachable(p)
    <3>1. pc' = "state" /\ target' = p /\ message'.kind = "QueryResponse"
      BY <1>3, <2>2 DEF TakeQuery, Update, p
    <3> QED BY <1>3, <1>v, <2>1, <3>1 DEF TakeQuery, ViewKept, PhasesOK, SaysNothing
  <2>3. CASE ~Reachable(p)
    BY <1>3, <1>v, <2>1, <2>3 DEF TakeQuery, ViewKept, View, PhasesOK, p
  <2> QED BY <2>2, <2>3
<1>4. ASSUME NEW g \in to_start, NextProgram(g) PROVE PhasesOK'
  BY <1>4, <1>v DEF NextProgram, PhasesOK, SaysNothing, IsReceiver, subscriberVars
<1>5. ASSUME NEW c \in to_connect, NextConnection(c) PROVE PhasesOK'
  BY <1>5, <1>v DEF NextConnection, PhasesOK, SaysNothing, IsReceiver, subscriberVars
<1>6. CASE SendState
  BY <1>6, <1>v DEF SendState, PhasesOK, SaysNothing, IsReceiver
<1>7. CASE StateSent
  BY <1>7, <1>v DEF StateSent, PhasesOK, subscriberVars
<1>8. CASE TakeUpdate
  <2>1. pc = "idle" /\ UNCHANGED <<target, to_start, to_connect>> /\ pc' = "sending"
    BY <1>8 DEF TakeUpdate
  <2>2. message' \in Updates /\ message' = Head(updates)
    BY <1>8 DEF TakeUpdate, ControlInv, ViewFollows, SubscriptionInv
  <2>3. View' = Updated(View, message')
    BY <1>8, <2>2 DEF TakeUpdate, View, Updated
  <2>4. View \in Views
    BY <1>v DEF View, Views
  <2>5. message' # Nothing
    BY <2>2, NothingAssumption DEF Updates
  <2>6. Updated(View', message') = View'
    BY <2>2, <2>3, <2>4, UpdatedView
  <2> QED BY <1>v, <2>1, <2>5, <2>6 DEF PhasesOK
<1>9. CASE UpdateSent
  BY <1>9, <1>v DEF UpdateSent, EndSend, PhasesOK
<1>10. ASSUME NEW i \in sending, SendUpdate(i) PROVE PhasesOK'
  BY <1>10, <1>v DEF SendUpdate, DeliverTo, RefusedBy, View, controlVars, PhasesOK
<1> QED BY QuietCases, <1>0, <1>v, <1>1, <1>2, <1>3, <1>4, <1>5, <1>6, <1>7, <1>8, <1>9, <1>10

\* It has a target while it sends the state.
LEMMA TargetStep ==
  ASSUME ControlInv, Formed, [ControlNext]_controlProgramVars
  PROVE  pc' \in {"idle", "sending", "state"} /\ target' \in Programs \cup {Nothing} /\ (target' # Nothing <=> pc' = "state")
<1> DEFINE TargetFits == /\ pc' \in {"idle", "sending", "state"} /\ target' \in Programs \cup {Nothing}
                         /\ target' # Nothing <=> pc' = "state"
<1>v. /\ pc \in {"idle", "sending", "state"} /\ target \in Programs \cup {Nothing}
      /\ (target # Nothing <=> pc = "state") /\ ControlInv /\ Formed
  BY DEF Formed, ControlTypeOK
<1>0. ASSUME SendsNothing PROVE TargetFits
  BY <1>0, <1>v DEF SendsNothing, Quiet, Starts, Aside
<1>1. ASSUME NEW r \in AllRequests, TakeFailingConnect(r) PROVE TargetFits
  BY <1>1, <1>v DEF TakeFailingConnect, Takes
<1>2. CASE \/ (\E r \in AllRequests : TakeSubscribe(r)) \/ (\E r \in AllRequests : TakeQuery(r))
  BY <1>2, <1>v, AskerSubscribes, ControlAssumption DEF TakeSubscribe, Takes, TakeQuery
<1>3. CASE \/ SendState \/ StateSent \/ TakeUpdate \/ UpdateSent
          \/ (\E g \in to_start : NextProgram(g)) \/ (\E c \in to_connect : NextConnection(c))
  BY <1>3, <1>v DEF NextProgram, NextConnection, SendState, StateSent, TakeUpdate, UpdateSent
<1>4. ASSUME NEW i \in sending, SendUpdate(i) PROVE TargetFits
  BY <1>4, <1>v DEF SendUpdate, controlVars
<1> QED BY QuietCases, <1>0, <1>v, <1>1, <1>2, <1>3, <1>4

\* Those who subscribed are subscribers.
LEMMA HistoryStep ==
  ASSUME ControlTypeOK, [ControlNext]_controlProgramVars
  PROVE  stopped' \in BOOLEAN /\ subscribed' \subseteq Subscribers
<1>v. stopped \in BOOLEAN /\ subscribed \subseteq Subscribers
  BY DEF ControlTypeOK
<1>1. ASSUME NEW r \in AllRequests, TakeStart(r)
      PROVE  stopped' \in BOOLEAN /\ subscribed' \subseteq Subscribers
  BY <1>1, <1>v DEF TakeStart, Takes, Started, history
<1>2. CASE \/ (\E r \in AllRequests : TakeStopWhenIdle(r))
          \/ (\E g \in Programs : StartOutside(g))
  BY <1>2, <1>v DEF TakeStopWhenIdle, Takes, StartOutside, Started
<1>3. ASSUME NEW r \in AllRequests, TakeStop(r)
      PROVE  stopped' \in BOOLEAN /\ subscribed' \subseteq Subscribers
  BY <1>3, <1>v DEF TakeStop, Takes, history
<1>4. ASSUME NEW r \in AllRequests, TakeSubscribe(r)
      PROVE  stopped' \in BOOLEAN /\ subscribed' \subseteq Subscribers
  BY <1>4, <1>v, AskerSubscribes DEF TakeSubscribe, Takes
<1>5. CASE \/ SendState \/ StateSent \/ TakeUpdate \/ UpdateSent \/ Request \/ NotifyStopper
          \/ UNCHANGED controlProgramVars \/ (\E r \in AllRequests : TakeConnect(r))
          \/ (\E r \in AllRequests : TakeFailingConnect(r))
          \/ (\E r \in AllRequests : TakeClose(r)) \/ (\E r \in AllRequests : TakeQuery(r))
          \/ (\E g \in to_start : NextProgram(g)) \/ (\E c \in to_connect : NextConnection(c))
          \/ (\E i \in sending : SendUpdate(i)) \/ (\E g \in Programs : Announce(g))
          \/ (\E g \in Programs : SendStopped(g)) \/ (\E g \in Programs : LeaveScene(g))
          \/ (\E g \in Programs : EndProgram(g))
          \/ (\E c \in Connectable : ConnectionChanges(c))
          \/ (\E p \in Subscribers : ReadUpdate(p))
  BY <1>5, <1>v
     DEF TakeConnect, Takes, TakeFailingConnect, TakeClose, TakeQuery, NextProgram, NextConnection,
         SendState, StateSent, TakeUpdate, UpdateSent, SendUpdate, Request, NotifyStopper, Announce,
         SendStopped, LeaveScene, EndProgram, ConnectionChanges, ChangeConnection, ReadUpdate,
         controlProgramVars, history
<1> QED BY NextCases, <1>1, <1>2, <1>3, <1>4, <1>5

\* The bounds are kept.
LEMMA CountersStep ==
  ASSUME ControlTypeOK, [ControlNext]_controlProgramVars
  PROVE  /\ requests' \in 0..MaxRequests /\ subscribes' \in 0..MaxSubscribes /\ starts' \in 0..MaxStarts
         /\ changes' \in 0..MaxChanges
<1> DEFINE CountersFit == /\ requests' \in 0..MaxRequests /\ subscribes' \in 0..MaxSubscribes /\ starts' \in 0..MaxStarts
                          /\ changes' \in 0..MaxChanges
<1>v. /\ {MaxRequests, MaxSubscribes, MaxStarts, MaxChanges} \subseteq Nat
      /\ requests \in 0..MaxRequests /\ subscribes \in 0..MaxSubscribes /\ starts \in 0..MaxStarts
      /\ changes \in 0..MaxChanges
  BY ControlAssumption DEF ControlTypeOK
<1>1. CASE Request
  BY <1>1, <1>v DEF Request
<1>2. ASSUME NEW g \in Programs, StartOutside(g) PROVE CountersFit
  BY <1>2, <1>v DEF StartOutside
<1>3. ASSUME NEW c \in Connectable, ConnectionChanges(c) PROVE CountersFit
  BY <1>3, <1>v DEF ConnectionChanges, ChangeConnection
<1>4. CASE \/ SendState \/ StateSent \/ TakeUpdate \/ UpdateSent \/ NotifyStopper
          \/ UNCHANGED controlProgramVars \/ (\E r \in AllRequests : TakeStart(r))
          \/ (\E r \in AllRequests : TakeConnect(r))
          \/ (\E r \in AllRequests : TakeFailingConnect(r))
          \/ (\E r \in AllRequests : TakeClose(r))
          \/ (\E r \in AllRequests : TakeStopWhenIdle(r))
          \/ (\E r \in AllRequests : TakeStop(r)) \/ (\E r \in AllRequests : TakeSubscribe(r))
          \/ (\E r \in AllRequests : TakeQuery(r)) \/ (\E g \in to_start : NextProgram(g))
          \/ (\E c \in to_connect : NextConnection(c)) \/ (\E i \in sending : SendUpdate(i))
          \/ (\E g \in Programs : Announce(g)) \/ (\E g \in Programs : SendStopped(g))
          \/ (\E g \in Programs : LeaveScene(g)) \/ (\E g \in Programs : EndProgram(g))
          \/ (\E p \in Subscribers : ReadUpdate(p))
  BY <1>4, <1>v
     DEF TakeStart, Takes, TakeConnect, TakeFailingConnect, TakeClose, TakeStopWhenIdle, TakeStop,
         TakeSubscribe, TakeQuery, NextProgram, NextConnection, SendState, StateSent, TakeUpdate,
         UpdateSent, SendUpdate, NotifyStopper, Announce, SendStopped, LeaveScene, EndProgram, ReadUpdate,
         controlProgramVars, counters
<1> QED BY NextCases, <1>1, <1>2, <1>3, <1>4

\* The variables keep their types.
LEMMA FormedStep ==
  ASSUME SubscriptionInv, [ControlNext]_controlProgramVars PROVE Formed'
<1>v. ControlInv /\ Formed /\ PhasesOK
  BY DEF SubscriptionInv
<1>u. ControlTypeOK /\ FormsOK
  BY <1>v DEF Formed
<1>1. ControlInv'
  BY <1>v, ControlKeeps
<1>2. SubscribersTypeOK'
  BY <1>v, SubscribersTypeStep
<1>3. control_input' \in Seq(AllRequests) /\ Len(control_input') <= 1
  BY <1>u, InputStep
<1>4. message' \in Updates \cup {Nothing}
  BY <1>u, <1>v, MessageStep
<1>5. known' \in [Subscribers -> Views]
  BY <1>v, KnownStep
<1>6. active_connections' \subseteq Connections /\ OneConnectionEach'
  BY <1>v, ConnectionsStep
<1>7. FormsOK'
  BY <1>3, <1>4, <1>5, <1>6 DEF FormsOK
<1>8. PhasesOK'
  BY PhasesStep
<1>9. ControlTypeOK'
  <2>1. /\ life' \in [Programs -> {"none", "started", "running", "stopping", "stopped"}]
        /\ started_subprograms' \subseteq Programs /\ updates' \in Seq(Updates)
    BY <1>1 DEF ControlInv, LifeInv, ViewFollows
  <2>2. \A u \in Updates : u.kind \in Kinds
    BY DEF Updates
  <2>3. \A i \in DOMAIN updates' : updates'[i].kind \in Kinds
    BY <2>1, <2>2
  <2>4. message' # Nothing => message'.kind \in Kinds
    BY <1>4, <2>2
  <2>5. /\ to_start' \subseteq started_subprograms' /\ (message' # Nothing => pc' # "idle")
        /\ sending' # {} => pc' = "sending"
    BY <1>8 DEF PhasesOK
  <2>6. pc' \in {"idle", "sending", "state"} /\ target' \in Programs \cup {Nothing}
        /\ (target' # Nothing <=> pc' = "state")
    BY <1>v, TargetStep
  <2>7. stopped' \in BOOLEAN /\ subscribed' \subseteq Subscribers
    BY <1>u, HistoryStep
  <2> QED BY <1>3, <1>u, <2>1, <2>3, <2>4, <2>5, <2>6, <2>7, CountersStep DEF ControlTypeOK
<1> QED BY <1>2, <1>6, <1>7, <1>9 DEF Formed
----------------------------------------------------------------------------
(* The subscribers. *)

\* While no state is sent, nothing is in hand for a subscriber.
LEMMA NothingInHand ==
  ASSUME Formed, NEW p \in Subscribers, pc # "state" \/ target # p
  PROVE  /\ \A c : ~ConnectionInHand(p, c)
         /\ \A g : ~StartInHand(p, g)
<1>1. p # Nothing
  BY ControlAssumption
<1>2. target # p
  BY <1>1 DEF Formed, ControlTypeOK
<1> QED BY <1>2 DEF ConnectionInHand, StartInHand

\* A receiver stays one as long as its stream is open.
LEMMA OpenReceiversStay ==
  ASSUME Formed, StreamsOK, NEW p \in Subscribers, stream[p] = "open", IsReceiver(p),
         receivers' = Attached, refused' = {}
  PROVE  IsReceiver(p)'
<1>1. \E j \in DOMAIN Attached : Attached[j] = p
  BY OpenReceiversAreAttached DEF Formed
<1> QED BY <1>1 DEF IsReceiver

\* Steps in which nothing is sent: streams close and updates are queued, ...
LEMMA QuietSubscribers == ASSUME SubscriptionInv, ControlInv', Quiet PROVE SubscribersOK'
<1>1. SubscribersOK /\ updates \in Seq(Updates) /\ updates' \in Seq(Updates)
  BY DEF SubscriptionInv, ControlInv, ViewFollows
<1>2. ASSUME NEW p \in Subscribers PROVE SubscriberOK(p)'
  <2>1. /\ UNCHANGED <<known, subscribed, started_subprograms, active_connections>>
        /\ stream'[p] = "open" => stream[p] = "open"
    BY DEF Quiet, Aside, history
  <2>2. Effective(p)' = Effective(p) /\ (IsReceiver(p) => IsReceiver(p)')
    BY DEF Quiet, Aside, history, Effective, WillTake, IsReceiver
  <2>3. /\ \A c : ConnectionInHand(p, c) => ConnectionInHand(p, c)'
        /\ \A g : StartInHand(p, g) => StartInHand(p, g)'
    BY DEF Quiet, Aside, ConnectionInHand, StartInHand
  <2>4. \A g : EndIsPending(g) => EndIsPending(g)'
    BY <1>1, EndsStayPending DEF Quiet, Queues
  <2> QED BY <1>1, <2>1, <2>2, <2>3, <2>4, SameSubscriber
<1> QED BY <1>2 DEF SubscribersOK

\* ... or a program starts, and knows nothing yet.
LEMMA StartsSubscribers ==
  ASSUME SubscriptionInv, NEW g \in Programs, Starts(g) PROVE SubscribersOK'
<1>1. /\ SubscribersOK /\ Formed /\ PhasesOK /\ started_subprograms \subseteq Programs
      /\ known \in [Subscribers -> Views] /\ SubscribersTypeOK
  BY DEF SubscriptionInv, ControlInv, ViewFollows, Formed, FormsOK
<1>2. /\ UNCHANGED <<started_subprograms, active_connections, updates, pc, message, sending, receivers, refused>>
      /\ subscribed' = subscribed \ {g}
      /\ \A p \in Subscribers : known'[p] = IF p = g THEN EmptyView ELSE known[p]
      /\ StreamOpens(g)
  BY DEF Starts, Aside, Started
<1>3. ASSUME NEW p \in Subscribers, p # g PROVE SubscriberOK(p)'
  <2>1. known'[p] = known[p] /\ (stream'[p] = "open" => stream[p] = "open")
    BY <1>1, <1>2, <1>3 DEF StreamOpens, OpenStream, subscriberVars, SubscribersTypeOK
  <2>2. Effective(p)' = Effective(p) /\ (IsReceiver(p) => IsReceiver(p)')
    BY <1>2, <2>1 DEF Effective, WillTake, IsReceiver
  <2>3. /\ \A c : ConnectionInHand(p, c) => ConnectionInHand(p, c)'
        /\ \A h : StartInHand(p, h) => StartInHand(p, h)'
        /\ \A h : EndIsPending(h) => EndIsPending(h)'
    BY <1>2 DEF Starts, Aside, ConnectionInHand, StartInHand, EndIsPending
  <2> QED BY <1>1, <1>2, <2>1, <2>2, <2>3, SameSubscriber
<1>4. ASSUME g \in Subscribers PROVE SubscriberOK(g)'
  <2>1. known'[g] = EmptyView /\ g \notin subscribed' /\ View' = View /\ WillTake(g)' = WillTake(g)
    BY <1>2, <1>4 DEF View, WillTake
  <2>2. CASE WillTake(g)
    <3>1. pc = "sending" /\ Updated(View, message) = View
      BY <1>1, <2>2 DEF WillTake, PhasesOK
    <3>2. Effective(g)' = Updated(EmptyView, message)
      BY <1>2, <2>1, <2>2 DEF Effective
    <3>3. /\ Updated(EmptyView, message).programs \subseteq Updated(View, message).programs
          /\ Updated(EmptyView, message).connections \subseteq Updated(View, message).connections
      BY UpdatedMonotone DEF EmptyView, View
    <3> QED BY <1>2, <2>1, <3>1, <3>2, <3>3 DEF SubscriberOK, Knows, View, EmptyView
  <2>3. CASE ~WillTake(g)
    <3>1. Effective(g)' = EmptyView
      BY <2>1, <2>3 DEF Effective
    <3> QED BY <2>1, <3>1 DEF SubscriberOK, Knows, EmptyView
  <2> QED BY <2>2, <2>3
<1> QED BY <1>3, <1>4 DEF SubscribersOK

\* The control program subscribes a program, and sends it what it knows.
LEMMA SubscribeSubscribers ==
  ASSUME SubscriptionInv, ControlInv', NEW r \in AllRequests, TakeSubscribe(r) PROVE SubscribersOK'
<1> DEFINE p == r.program
<1>1. /\ SubscribersOK /\ Formed /\ PhasesOK /\ StreamsOK /\ ControlInv /\ receivers \in Seq(Receivers)
      /\ updates \in Seq(Updates) /\ updates' \in Seq(Updates)
  BY DEF SubscriptionInv, ControlInv, ViewFollows, Formed, SubscribersTypeOK, Receivers
<1>2. /\ p \in Subscribers /\ Attached \in Seq(Receivers) /\ pc = "idle" /\ sending = {} /\ refused = {}
      /\ message = Nothing
  BY <1>1, AskerSubscribes, AttachedProperties DEF TakeSubscribe, Takes, PhasesOK
<1>3. /\ UNCHANGED <<started_subprograms, active_connections, known, stream, message, sending, refused>>
      /\ subscribed' = IF stream[p] = "open" THEN subscribed \cup {p} ELSE subscribed
  BY DEF TakeSubscribe, SubscribeTo, ViewKept
<1>4. \A g : EndIsPending(g) => EndIsPending(g)'
  <2>1. Queues
    <3>1. updates' = updates \/ updates' = UpdatesAfterContextSend(p)
      BY DEF TakeSubscribe
    <3>2. p \in Programs
      BY <1>2, ControlAssumption
    <3>3. IF stream[p] = "gone" THEN Disconnected \in Programs \cup {Disconnected} ELSE p \in Programs \cup {Disconnected}
      BY <3>2
    <3> HIDE DEF p
    <3> QED BY <3>1, <3>2, <3>3, ConnectionIsQueued DEF UpdatesAfterContextSend, Queues
  <2> QED BY <1>1, <2>1, EndsStayPending DEF Queues
<1>5. Reachable(p) =>
        /\ receivers' = Append(Attached, p) /\ pc' = "state" /\ target' = p
        /\ to_start' = started_subprograms /\ to_connect' = active_connections
  BY DEF TakeSubscribe, SubscribeTo, ProgramsToSend
<1>6. ~Reachable(p) => receivers' = Attached
  BY DEF TakeSubscribe, SubscribeTo
<1>7. stream[p] = "open" => Reachable(p)
  BY <1>1, <1>2, OpenIsReachable
<1> HIDE DEF p
<1>8. \A q \in Subscribers : stream[q] = "open" /\ IsReceiver(q) => IsReceiver(q)'
  <2>1. ASSUME NEW q \in Subscribers, stream[q] = "open", IsReceiver(q) PROVE IsReceiver(q)'
    <3>1. PICK j \in DOMAIN Attached : Attached[j] = q
      BY <1>1, <2>1, OpenReceiversAreAttached DEF Formed
    <3>2. j \in DOMAIN receivers' /\ receivers'[j] = q
      <4>1. CASE Reachable(p)
        BY <1>2, <1>5, <3>1, <4>1
      <4> QED BY <1>6, <3>1, <4>1
    <3> QED BY <1>2, <1>3, <3>2 DEF IsReceiver
  <2> QED BY <2>1
<1>9. Reachable(p) => IsReceiver(p)'
  <2>1. ASSUME Reachable(p) PROVE IsReceiver(p)'
    <3>1. Len(Attached) + 1 \in DOMAIN receivers' /\ receivers'[Len(Attached) + 1] = p
      BY <1>2, <1>5, <2>1
    <3> QED BY <1>2, <1>3, <3>1 DEF IsReceiver
  <2> QED BY <2>1
<1>10. \A q \in Subscribers : Effective(q) = known[q] /\ Effective(q)' = known[q]
  BY <1>2, <1>3 DEF Effective, WillTake
<1>11. ASSUME NEW q \in Subscribers PROVE SubscriberOK(q)'
  <2>1. SubscriberOK(q)
    BY <1>1 DEF SubscribersOK
  <2>2. ASSUME stream[q] = "open" PROVE Knows(q)'
    BY <1>3, <1>8, <1>10, <2>1, <2>2 DEF SubscriberOK, Knows, EmptyView
  <2>3. ASSUME stream[q] = "open", q \in subscribed' PROVE IsCurrent(q)'
    <3>1. CASE q = p
      <4>1. \A c \in active_connections : ConnectionInHand(p, c)'
        BY <1>5, <1>7, <2>3, <3>1 DEF ConnectionInHand
      <4>2. \A g \in started_subprograms : StartInHand(p, g)'
        BY <1>5, <1>7, <2>3, <3>1 DEF StartInHand
      <4> QED BY <1>3, <1>7, <1>9, <2>3, <3>1, <4>1, <4>2 DEF IsCurrent
    <3>2. CASE q # p
      <4>1. IsCurrent(q)
        BY <1>3, <2>1, <2>3, <3>2 DEF SubscriberOK
      <4>2. (\A c : ~ConnectionInHand(q, c)) /\ (\A g : ~StartInHand(q, g))
        BY <1>1, <1>2, NothingInHand
      <4> QED BY <1>3, <1>4, <1>8, <1>10, <2>3, <4>1, <4>2 DEF IsCurrent
    <3> QED BY <3>1, <3>2
  <2> QED BY <1>3, <2>2, <2>3 DEF SubscriberOK
<1> QED BY <1>11 DEF SubscribersOK

\* A subscriber that asks is told nothing new.
LEMMA QuerySubscribers ==
  ASSUME SubscriptionInv, ControlInv', NEW r \in AllRequests, TakeQuery(r) PROVE SubscribersOK'
<1> DEFINE p == r.program
<1>1. SubscribersOK /\ Formed /\ PhasesOK /\ updates \in Seq(Updates) /\ updates' \in Seq(Updates)
  BY DEF SubscriptionInv, ControlInv, ViewFollows
<1>2. p \in Subscribers /\ p \in Programs /\ pc = "idle" /\ sending = {} /\ refused = {}
  BY <1>1, AskerSubscribes, ControlAssumption DEF TakeQuery, Takes, PhasesOK
<1>3. UNCHANGED <<started_subprograms, active_connections, known, stream, sending, refused, receivers, subscribed>>
  BY DEF TakeQuery, ViewKept, history
<1>4. Queues
  <2>1. updates' = updates \/ updates' = UpdatesAfterContextSend(p)
    BY DEF TakeQuery
  <2>2. IF stream[p] = "gone" THEN Disconnected \in Programs \cup {Disconnected} ELSE p \in Programs \cup {Disconnected}
    BY <1>2
  <2> HIDE DEF p
  <2> QED BY <1>2, <2>1, <2>2, ConnectionIsQueued DEF UpdatesAfterContextSend, Queues
<1>5. \A g : EndIsPending(g) => EndIsPending(g)'
  BY <1>1, <1>4, EndsStayPending DEF Queues
<1>6. ASSUME NEW q \in Subscribers PROVE SubscriberOK(q)'
  <2>1. (\A c : ~ConnectionInHand(q, c)) /\ (\A g : ~StartInHand(q, g))
    BY <1>1, <1>2, NothingInHand
  <2>2. Effective(q)' = Effective(q) /\ (IsReceiver(q) => IsReceiver(q)')
    BY <1>2, <1>3 DEF Effective, WillTake, IsReceiver
  <2> QED BY <1>1, <1>3, <1>5, <2>1, <2>2, SameSubscriber
<1> QED BY <1>6 DEF SubscribersOK

\* A failure is sent to every subscriber, and tells nothing of the scene.
LEMMA FailureSubscribers ==
  ASSUME SubscriptionInv, ControlInv', NEW r \in AllRequests, TakeFailingConnect(r) PROVE SubscribersOK'
<1>1. /\ SubscribersOK /\ Formed /\ PhasesOK /\ StreamsOK /\ updates \in Seq(Updates) /\ updates' \in Seq(Updates)
      /\ known \in [Subscribers -> Views]
  BY DEF SubscriptionInv, ControlInv, ViewFollows, Formed, FormsOK
<1>2. /\ pc = "idle" /\ pc' = "sending" /\ sending = {} /\ receivers' = Attached /\ refused' = {}
      /\ UNCHANGED <<started_subprograms, active_connections, known, stream, subscribed, target>>
      /\ message' = Update("FailedConnection", r.program, r.target) /\ updates' = Append(updates, message')
  BY <1>1 DEF TakeFailingConnect, Takes, ViewKept, PhasesOK, BeginSend, history
<1>3. \A v \in Views : Updated(v, message') = v
  BY <1>2 DEF Updated, Update, ProgramsAfter, ConnectionsAfter, Views
<1>4. \A g : EndIsPending(g) => EndIsPending(g)'
  <2>1. message' \in Updates
    BY <1>2, ControlAssumption
       DEF TakeFailingConnect, RequestOK, AllRequests, Update, Updates, Kinds, Sources, Targets, Tells
  <2> QED BY <1>1, <1>2, <2>1, EndsStayPending
<1>5. ASSUME NEW q \in Subscribers PROVE SubscriberOK(q)'
  <2>1. CASE stream[q] = "open"
    <3>1. (\A c : ~ConnectionInHand(q, c)) /\ (\A g : ~StartInHand(q, g))
      BY <1>1, <1>2, NothingInHand
    <3>2. Effective(q) = known[q]
      BY <1>2 DEF Effective, WillTake
    <3>3. Effective(q)' = known[q]
      BY <1>1, <1>2, <1>3 DEF Effective
    <3>4. IsReceiver(q) => IsReceiver(q)'
      BY <1>1, <1>2, <2>1, OpenReceiversStay
    <3> QED BY <1>1, <1>2, <1>4, <3>1, <3>2, <3>3, <3>4, SameSubscriber
  <2>2. CASE stream[q] # "open"
    BY <1>2, <2>2 DEF SubscriberOK
  <2> QED BY <2>1, <2>2
<1> QED BY <1>5 DEF SubscribersOK
(* Sending the state. *)

\* The next program is told, unless its end is still to be told; the next connection is told.
LEMMA NextSubscribers ==
  ASSUME SubscriptionInv,
         (\E g \in to_start : NextProgram(g)) \/ (\E c \in to_connect : NextConnection(c)) \/ StateSent
  PROVE  SubscribersOK'
<1>1. SubscribersOK /\ Formed /\ PhasesOK /\ ControlInv /\ active_connections \subseteq Connections
  BY DEF SubscriptionInv, Formed, FormsOK
<1>2. /\ UNCHANGED <<subscriberVars, updates, started_subprograms, active_connections, known, subscribed>>
      /\ pc = "state" /\ message = Nothing
  BY DEF NextProgram, NextConnection, StateSent, history
<1>3. sending = {} /\ to_start \subseteq started_subprograms /\ to_connect \subseteq active_connections
  BY <1>1, <1>2 DEF PhasesOK
<1>4. ASSUME NEW g \in to_start, NextProgram(g) PROVE \A h \in started_subprograms, p \in Subscribers :
         StartInHand(p, h) => StartInHand(p, h)' \/ EndIsPending(h)'
  <2>1. to_start' = to_start \ {g} /\ target' = target
    BY <1>4 DEF NextProgram
  <2>2. CASE GetSubProgram(g) = None
    <3>1. EndIsPending(g) /\ UNCHANGED updates /\ message' = message
      BY <1>1, <1>2, <1>3, <1>4, <2>2, EndIsToldOf DEF NextProgram
    <3>2. EndIsPending(g)'
      BY <3>1 DEF EndIsPending, Update
    <3> QED BY <2>1, <3>1, <3>2 DEF StartInHand
  <2>3. CASE GetSubProgram(g) # None
    <3>1. message' = Update("Started", g, Nothing)
      BY <1>4, <2>3 DEF NextProgram
    <3>2. g \in Programs
      BY <1>1, <1>3 DEF ControlInv, ViewFollows
    <3>3. \A h : message # Update("Started", h, Nothing) \/ h \notin Programs
      BY <1>2, NothingAssumption DEF Update, Kinds, Sources, Targets
    <3>4. started_subprograms \subseteq Programs
      BY <1>1 DEF ControlInv, ViewFollows
    <3> QED BY <2>1, <3>1, <3>3, <3>4 DEF StartInHand
  <2> QED BY <2>2, <2>3
<1>5. ASSUME NEW g \in to_start, NextProgram(g) PROVE \A c \in active_connections, p \in Subscribers :
         ConnectionInHand(p, c) => ConnectionInHand(p, c)'
  <2>1. \A c \in active_connections : message # Update("Connected", c[1], c[2])
    BY <1>1, <1>2, NothingAssumption DEF Update, Kinds, Connections
  <2> QED BY <1>5, <2>1 DEF NextProgram, ConnectionInHand
<1>6. ASSUME NEW d \in to_connect, NextConnection(d) PROVE \A c \in active_connections, p \in Subscribers :
         ConnectionInHand(p, c) => ConnectionInHand(p, c)'
  <2>1. \A c \in active_connections : message # Update("Connected", c[1], c[2])
    BY <1>1, <1>2, NothingAssumption DEF Update, Kinds, Connections
  <2> QED BY <1>6, <2>1 DEF NextConnection, ConnectionInHand
<1>7. ASSUME StateSent \/ \E d \in to_connect : NextConnection(d)
      PROVE  \A h \in started_subprograms, p \in Subscribers : ~StartInHand(p, h)
  <2>1. started_subprograms \subseteq Programs /\ to_start = {}
    BY <1>1, <1>7 DEF ControlInv, ViewFollows, NextConnection, StateSent
  <2>2. \A h \in Programs : message # Update("Started", h, Nothing)
    BY <1>2, NothingAssumption DEF Update, Kinds, Sources, Targets
  <2> QED BY <2>1, <2>2 DEF StartInHand
<1>8. ASSUME StateSent PROVE \A c \in active_connections, p \in Subscribers : ~ConnectionInHand(p, c)
  <2>1. \A c \in active_connections : message # Update("Connected", c[1], c[2])
    BY <1>1, <1>2, NothingAssumption DEF Update, Kinds, Connections
  <2> QED BY <1>8, <2>1 DEF StateSent, ConnectionInHand
<1>9. ASSUME NEW p \in Subscribers PROVE SubscriberOK(p)'
  <2>1. Effective(p)' = Effective(p) /\ (IsReceiver(p) => IsReceiver(p)') /\ UNCHANGED stream
    BY <1>2, <1>3 DEF Effective, WillTake, IsReceiver, subscriberVars
  <2>2. \A g : EndIsPending(g) => EndIsPending(g)'
    BY <1>2 DEF EndIsPending, Update
  <2>3. \A c \in active_connections : ConnectionInHand(p, c) => ConnectionInHand(p, c)'
    BY <1>5, <1>6, <1>8
  <2>4. \A g \in started_subprograms : StartInHand(p, g) => StartInHand(p, g)' \/ EndIsPending(g)'
    BY <1>4, <1>7
  <2> QED BY <1>1, <1>2, <2>1, <2>2, <2>3, <2>4, SameSubscriber
<1> QED BY <1>9 DEF SubscribersOK

\* The subscriber takes what it is told, and knows it from then on.
LEMMA StateSubscribers == ASSUME SubscriptionInv, SendState PROVE SubscribersOK'
<1>1. /\ SubscribersOK /\ Formed /\ PhasesOK /\ OneConnectionEach /\ known \in [Subscribers -> Views]
      /\ active_connections \subseteq Connections
  BY DEF SubscriptionInv, Formed, FormsOK
<1>2. PICK t \in Subscribers : t = target
  BY <1>1, TakenStep
<1>3. /\ UNCHANGED <<stream, receivers, sending, refused, updates, started_subprograms, active_connections,
                     to_start, to_connect, target, subscribed>>
      /\ pc = "state" /\ message' = Nothing /\ sending = {} /\ t \in Subscribers /\ message \in Updates
      /\ t # Discard /\ t = target
  BY <1>1, <1>2, TakenStep, SubscribersAssumption DEF SendState, PhasesOK
<1>4. \A p \in Subscribers :
         /\ Effective(p) = known[p] /\ Effective(p)' = known'[p] /\ (IsReceiver(p) <=> IsReceiver(p)')
  BY <1>3 DEF Effective, WillTake, IsReceiver
<1>5. \A g : EndIsPending(g) => EndIsPending(g)'
  BY <1>3 DEF EndIsPending, Update
<1>6. ASSUME NEW p \in Subscribers, p # t PROVE SubscriberOK(p)'
  <2>1. (\A c : ~ConnectionInHand(p, c)) /\ (\A g : ~StartInHand(p, g))
    BY <1>1, <1>3, <1>6, NothingInHand
  <2>2. known'[p] = known[p]
    BY <1>1, <1>3, <1>6, KnownAfterOK DEF SendState, Receivers
  <2> QED BY <1>1, <1>3, <1>4, <1>5, <2>1, <2>2, SameSubscriber
<1>7. CASE Refuses(t)
  <2>1. stream'[t] # "open"
    BY <1>3, <1>7 DEF Refuses
  <2>2. SubscriberOK(t)'
    BY <2>1, <1>3 DEF SubscriberOK
  <2> QED BY <1>6, <2>2 DEF SubscribersOK
<1>8. CASE ~Refuses(t)
  <2> DEFINE k == known[t]
             l == Updated(k, message)
  <2>1. stream[t] = "open" /\ known'[t] = l
    <3>1. Accepts(t) /\ known' = KnownAfter(t)
      BY <1>3, <1>8 DEF SendState
    <3> QED BY <1>1, <1>3, <3>1, KnownAfterOK DEF Accepts, Receivers
  <2>2. /\ SubscriberOK(t) /\ Knows(t)
        /\ k.connections \subseteq active_connections /\ k.programs \subseteq started_subprograms
    BY <1>1, <1>3, <1>4, <2>1 DEF SubscribersOK, SubscriberOK, Knows
  <2>3. l.programs = ProgramsAfter(k.programs, message) /\ l.connections = ConnectionsAfter(k.connections, message)
    BY DEF Updated
  <2>4. k \in Views
    BY <1>1, <1>3
  <2> HIDE DEF k, l
  <2>5. /\ k.programs \subseteq l.programs /\ l.programs \subseteq started_subprograms
        /\ k.connections \subseteq l.connections /\ l.connections \subseteq active_connections
        /\ \A c \in active_connections : message = Update("Connected", c[1], c[2]) => c \in l.connections
        /\ \A g \in started_subprograms : message = Update("Started", g, Nothing) => g \in l.programs
        /\ l = k \/ IsReceiver(t)
    <3>1. CASE SaysNothing
      <4>1. message.kind = "QueryResponse"
        BY <1>3, <3>1, NothingAssumption DEF SaysNothing, Updates
      <4>2. l.programs = k.programs /\ l.connections = k.connections
        BY <2>3, <4>1 DEF ProgramsAfter, ConnectionsAfter
      <4>3. l = k
        BY <2>4, <4>2 DEF Views, Updated, l
      <4> QED BY <2>2, <4>1, <4>2, <4>3 DEF Update
    <3>2. CASE ~SaysNothing
      <4>1. IsReceiver(t)
        BY <1>1, <1>3, <3>2 DEF PhasesOK
      <4>2. CASE \E g \in started_subprograms : message = Update("Started", g, Nothing)
        BY <2>2, <2>3, <4>1, <4>2 DEF ProgramsAfter, ConnectionsAfter, Update
      <4>3. CASE \E c \in active_connections : message = Update("Connected", c[1], c[2])
        <5>1. PICK c \in active_connections : message = Update("Connected", c[1], c[2])
          BY <4>3
        <5>2. /\ message.kind = "Connected" /\ message.source = c[1] /\ message.target = c[2]
              /\ c = <<c[1], c[2]>>
          BY <1>1, <5>1 DEF Update, Connections
        <5>3. Keyed(k.connections, c[1]) \subseteq {c}
          BY <1>1, <2>2 DEF Keyed, OneConnectionEach
        <5>4. l.connections = (k.connections \ Keyed(k.connections, c[1])) \cup {c} /\ l.programs = k.programs
          BY <2>3, <5>2 DEF ProgramsAfter, ConnectionsAfter
        <5>5. \A d \in active_connections : message = Update("Connected", d[1], d[2]) => d = c
          BY <1>1, <5>2 DEF Update, Connections
        <5> QED BY <2>2, <4>1, <5>2, <5>3, <5>4, <5>5 DEF Update
      <4> QED BY <1>1, <1>3, <3>2, <4>2, <4>3 DEF PhasesOK
    <3> QED BY <3>1, <3>2
  <2>6. Knows(t)'
    BY <1>3, <1>4, <2>1, <2>2, <2>5 DEF Knows, EmptyView, k
  <2>7. ASSUME t \in subscribed' PROVE IsCurrent(t)'
    <3>1. IsCurrent(t)
      BY <1>3, <2>1, <2>2, <2>7 DEF SubscriberOK
    <3>2. ASSUME NEW c \in active_connections PROVE c \in l.connections \/ ConnectionInHand(t, c)'
      BY <1>3, <1>4, <2>5, <3>1 DEF IsCurrent, ConnectionInHand, k
    <3>3. ASSUME NEW g \in started_subprograms PROVE g \in l.programs \/ StartInHand(t, g)' \/ EndIsPending(g)'
      BY <1>3, <1>4, <1>5, <2>5, <3>1 DEF IsCurrent, StartInHand, k
    <3> QED BY <1>3, <1>4, <2>1, <3>1, <3>2, <3>3 DEF IsCurrent
  <2>8. SubscriberOK(t)'
    BY <2>6, <2>7 DEF SubscriberOK
  <2> QED BY <1>6, <2>8 DEF SubscribersOK
<1> QED BY <1>7, <1>8

(* Sending an update. *)

\* Every subscriber that is attached will take the update that changes the view.
LEMMA TakeUpdateSubscribers == ASSUME SubscriptionInv, TakeUpdate PROVE SubscribersOK'
<1> DEFINE u == Head(updates)
<1>1. /\ SubscribersOK /\ Formed /\ PhasesOK /\ StreamsOK /\ updates \in Seq(Updates)
      /\ receivers \in Seq(Receivers)
  BY DEF SubscriptionInv, ControlInv, ViewFollows, Formed, SubscribersTypeOK, Receivers
<1>2. /\ pc = "idle" /\ sending = {} /\ refused = {} /\ receivers' = Attached /\ refused' = {}
      /\ sending' = DOMAIN Attached /\ message' = u /\ UNCHANGED <<known, stream, subscribed>>
      /\ updates # <<>> /\ updates' = Tail(updates)
      /\ started_subprograms' = Updated(View, u).programs
      /\ active_connections' = Updated(View, u).connections
  BY <1>1 DEF TakeUpdate, BeginSend, PhasesOK, history
<1>3. /\ Len(updates) = Len(updates') + 1 /\ Len(updates') \in Nat /\ u = updates[1]
      /\ DOMAIN updates = 1..Len(updates) /\ DOMAIN updates' = 1..Len(updates')
      /\ \A i \in 1..Len(updates') : updates'[i] = updates[i + 1]
  BY <1>1, <1>2
<1> HIDE DEF u
<1>4. ASSUME NEW g, EndIsPending(g), u # Update("Stopped", g, Nothing) PROVE EndIsPending(g)'
  <2>1. PICK i \in DOMAIN updates : updates[i] = Update("Stopped", g, Nothing)
    BY <1>4 DEF EndIsPending
  <2>2. i - 1 \in DOMAIN updates' /\ (i - 1) + 1 = i
    BY <1>3, <1>4, <2>1
  <2> QED BY <1>3, <2>1, <2>2 DEF EndIsPending, Update
<1>5. ASSUME NEW p \in Subscribers, stream[p] = "open" PROVE WillTake(p)' <=> IsReceiver(p)
  <2>1. IsReceiver(p) => WillTake(p)'
    <3>1. IsReceiver(p) => \E j \in DOMAIN Attached : Attached[j] = p
      BY <1>1, <1>5, OpenReceiversAreAttached DEF Formed
    <3> QED BY <1>2, <3>1 DEF WillTake
  <2>2. WillTake(p)' => IsReceiver(p)
    <3>1. \A j \in DOMAIN Attached : \E i \in DOMAIN receivers : Attached[j] = receivers[i]
      BY <1>1, AttachedProperties
    <3> QED BY <1>2, <3>1 DEF WillTake, IsReceiver
  <2> QED BY <2>1, <2>2
<1>6. ASSUME NEW p \in Subscribers, stream[p] = "open" PROVE SubscriberOK(p)'
  <2>1. SubscriberOK(p) /\ Knows(p) /\ Effective(p) = known[p]
    BY <1>1, <1>2, <1>6 DEF SubscribersOK, SubscriberOK, Effective, WillTake
  <2>2. IsReceiver(p) => IsReceiver(p)'
    BY <1>1, <1>2, <1>6, OpenReceiversStay
  <2>3. CASE IsReceiver(p)
    <3> DEFINE k == known[p]
               l == Updated(k, u)
               v == Updated(View, u)
    <3>1. Effective(p)' = l
      BY <1>2, <1>5, <1>6, <2>3 DEF Effective
    <3>2. k.programs \subseteq View.programs /\ k.connections \subseteq View.connections
      BY <2>1 DEF Knows, View
    <3>3. l.programs \subseteq v.programs /\ l.connections \subseteq v.connections
      BY <3>2, UpdatedMonotone
    <3>4. Knows(p)'
      BY <1>2, <2>2, <2>3, <3>1, <3>3 DEF Knows
    <3>5. ASSUME p \in subscribed PROVE IsCurrent(p)'
      <4>1. IsCurrent(p) /\ (\A c : ~ConnectionInHand(p, c)) /\ (\A g : ~StartInHand(p, g))
        BY <1>1, <1>2, <1>6, <2>1, <3>5, NothingInHand DEF SubscriberOK
      <4>2. v.connections \subseteq l.connections
        <5>1. active_connections \subseteq k.connections
          BY <2>1, <4>1 DEF IsCurrent
        <5> QED BY <5>1 DEF Updated, View, ConnectionsAfter, Keyed
      <4>3. ASSUME NEW g \in v.programs PROVE g \in l.programs \/ EndIsPending(g)'
        <5>1. g \in ProgramsAfter(started_subprograms, u)
          BY <4>3 DEF Updated, View
        <5>2. u # Update("Stopped", g, Nothing)
          BY <5>1 DEF ProgramsAfter, Update
        <5>3. CASE g \in started_subprograms
          <6>1. g \in k.programs \/ EndIsPending(g)
            BY <2>1, <4>1, <5>3 DEF IsCurrent
          <6>2. CASE g \in k.programs
            BY <5>1, <6>2 DEF Updated, ProgramsAfter
          <6> QED BY <1>4, <5>2, <6>1, <6>2
        <5>4. CASE g \notin started_subprograms
          BY <5>1, <5>4 DEF Updated, ProgramsAfter
        <5> QED BY <5>3, <5>4
      <4> HIDE DEF l, v
      <4>4. active_connections' = v.connections /\ started_subprograms' = v.programs
        BY <1>2 DEF v
      <4> QED BY <2>2, <2>3, <3>1, <4>2, <4>3, <4>4 DEF IsCurrent
    <3> QED BY <1>2, <3>4, <3>5 DEF SubscriberOK
  <2>4. CASE ~IsReceiver(p)
    <3>1. known[p] = EmptyView /\ p \notin subscribed
      BY <1>6, <2>1, <2>4 DEF Knows, SubscriberOK, IsCurrent
    <3>2. Effective(p)' = EmptyView
      BY <1>2, <1>5, <1>6, <2>4, <3>1 DEF Effective
    <3> QED BY <1>2, <3>1, <3>2 DEF SubscriberOK, Knows, EmptyView
  <2> QED BY <2>3, <2>4
<1>7. ASSUME NEW p \in Subscribers, stream[p] # "open" PROVE SubscriberOK(p)'
  BY <1>2, <1>7 DEF SubscriberOK
<1> QED BY <1>6, <1>7 DEF SubscribersOK

\* A subscriber that takes the update knows what it was going to know.
LEMMA SendUpdateSubscribers ==
  ASSUME SubscriptionInv, NEW i \in sending, SendUpdate(i) PROVE SubscribersOK'
<1> DEFINE t == receivers[i]
<1>1. /\ SubscribersOK /\ Formed /\ PhasesOK /\ known \in [Subscribers -> Views]
      /\ sending \cup refused \subseteq DOMAIN receivers /\ sending \cap refused = {}
  BY DEF SubscriptionInv, Formed, FormsOK, SubscribersTypeOK
<1>2. /\ UNCHANGED <<updates, started_subprograms, active_connections, to_start, to_connect, target, message,
                     subscribed, stream, receivers>>
      /\ pc = "sending" /\ sending' = sending \ {i} /\ t \in Receivers /\ message \in Updates
  BY <1>1, TakenStep DEF SendUpdate, controlVars, DeliverTo, RefusedBy
<1>3. ASSUME NEW p \in Subscribers PROVE (\A c : ~ConnectionInHand(p, c)) /\ (\A g : ~StartInHand(p, g))
  BY <1>1, <1>2, NothingInHand
<1>4. \A g : EndIsPending(g) => EndIsPending(g)'
  BY <1>2 DEF EndIsPending, Update
<1>5. CASE DeliverTo(i)
  <2>1. known' = KnownAfter(t) /\ refused' = refused
    BY <1>5 DEF SendUpdate, DeliverTo, RefusedBy, Accepts, Refuses
  <2>2. ASSUME NEW p \in Subscribers PROVE SubscriberOK(p)'
    <3>1. known'[p] = IF p = t THEN Updated(known[p], message) ELSE known[p]
      BY <1>1, <1>2, <2>1, KnownAfterOK
    <3>2. IsReceiver(p) => IsReceiver(p)'
      BY <1>2, <2>1 DEF IsReceiver
    <3>3. CASE p = t
      <4>1. IsReceiver(p) /\ WillTake(p) /\ Effective(p) = Updated(known[p], message)
        BY <1>1, <3>3 DEF IsReceiver, WillTake, Effective
      <4>2. Updated(known'[p], message) = known'[p]
        BY <1>1, <1>2, <3>1, <3>3, UpdatedView
      <4>3. Effective(p)' = Effective(p)
        BY <1>2, <3>1, <3>3, <4>1, <4>2 DEF Effective
      <4> QED BY <1>1, <1>2, <1>3, <1>4, <3>2, <4>1, <4>3, SameSubscriber
    <3>4. CASE p # t
      <4>1. WillTake(p)' <=> WillTake(p)
        BY <1>2, <3>4 DEF WillTake
      <4>2. Effective(p)' = Effective(p)
        BY <1>2, <3>1, <3>4, <4>1 DEF Effective
      <4> QED BY <1>1, <1>2, <1>3, <1>4, <3>1, <3>2, <3>4, <4>2, SameSubscriber
    <3> QED BY <3>3, <3>4
  <2> QED BY <2>2 DEF SubscribersOK
<1>6. CASE ~DeliverTo(i)
  <2>1. refused' = refused \cup {i} /\ known' = known /\ stream[t] # "open"
    BY <1>6 DEF SendUpdate, RefusedBy, Refuses
  <2>2. ASSUME NEW p \in Subscribers PROVE SubscriberOK(p)'
    <3>1. CASE p = t
      BY <1>2, <2>1, <3>1 DEF SubscriberOK
    <3>2. CASE p # t
      <4>1. /\ WillTake(p)' <=> WillTake(p)
            /\ IsReceiver(p) => IsReceiver(p)'
        BY <1>2, <2>1, <3>2 DEF WillTake, IsReceiver
      <4>2. Effective(p)' = Effective(p)
        BY <1>2, <2>1, <4>1 DEF Effective
      <4> QED BY <1>1, <1>2, <1>3, <1>4, <2>1, <4>1, <4>2, SameSubscriber
    <3> QED BY <3>1, <3>2
  <2> QED BY <2>2 DEF SubscribersOK
<1> QED BY <1>5, <1>6

\* When all have taken it, those who refused it are dropped.
LEMMA UpdateSentSubscribers == ASSUME SubscriptionInv, UpdateSent PROVE SubscribersOK'
<1>1. SubscribersOK /\ Formed /\ PhasesOK /\ receivers \in Seq(Receivers)
  BY DEF SubscriptionInv, Formed, SubscribersTypeOK, Receivers
<1>2. /\ UNCHANGED <<updates, started_subprograms, active_connections, subscribed, stream, known>>
      /\ pc = "sending" /\ sending = {} /\ sending' = {} /\ receivers' = WithoutRefused /\ refused' = {}
  BY DEF UpdateSent, EndSend, history
<1>3. ASSUME NEW p \in Subscribers PROVE SubscriberOK(p)'
  <2>1. (\A c : ~ConnectionInHand(p, c)) /\ (\A g : ~StartInHand(p, g))
    BY <1>1, <1>2, NothingInHand
  <2>2. \A g : EndIsPending(g) => EndIsPending(g)'
    BY <1>2 DEF EndIsPending, Update
  <2>3. Effective(p)' = Effective(p)
    BY <1>2 DEF Effective, WillTake
  <2>4. IsReceiver(p) => IsReceiver(p)'
    <3>1. \A n \in DOMAIN receivers \ refused : \E j \in DOMAIN WithoutRefused : WithoutRefused[j] = receivers[n]
      BY <1>1, WithoutRefusedProperties
    <3> QED BY <1>2, <3>1 DEF IsReceiver
  <2> QED BY <1>1, <1>2, <2>1, <2>2, <2>3, <2>4, SameSubscriber
<1> QED BY <1>3 DEF SubscribersOK

----------------------------------------------------------------------------
LEMMA SubscriptionsKeep ==
  ASSUME SubscriptionInv, [ControlNext]_controlProgramVars PROVE SubscriptionInv'
<1>1. ControlInv /\ Formed
  BY DEF SubscriptionInv
<1>2. ControlInv'
  BY <1>1, ControlKeeps
<1>3. SubscribersOK'
  <2>1. CASE SendsNothing
    BY <1>2, <2>1, QuietSubscribers, StartsSubscribers DEF SendsNothing
  <2> QED BY <1>1, <1>2, <2>1, QuietCases, FailureSubscribers, SubscribeSubscribers, QuerySubscribers,
             NextSubscribers, StateSubscribers, TakeUpdateSubscribers, UpdateSentSubscribers,
             SendUpdateSubscribers
<1> QED BY <1>2, <1>3, FormedStep, StreamsStep, PhasesStep DEF SubscriptionInv

\* No one has subscribed at first, and the first program is known to run.
LEMMA SubscriptionInitInv == ControlInit => SubscriptionInv
<1> SUFFICES ASSUME ControlInit PROVE SubscriptionInv
  OBVIOUS
<1>1. ControlInv
  BY ControlInitInv
<1>2. /\ receivers = <<Discard>> /\ sending = {} /\ refused = {} /\ sink = [p \in Subscribers |-> Nothing]
      /\ stream = [p \in Subscribers |-> IF p \in {First} \cap Subscribers THEN "open" ELSE "gone"]
      /\ inbox = [p \in Subscribers |-> 0] /\ First \in Programs /\ 0 \in 0..Capacity
  BY SubscribersAssumption, ControlAssumption DEF ControlInit, NoSubscribers
<1>3. receivers \in Seq(Receivers) /\ DOMAIN receivers = {1} /\ receivers[1] = Discard
  BY <1>2 DEF Receivers
<1>4. SubscribersTypeOK
  BY <1>2, <1>3 DEF SubscribersTypeOK, Receivers
<1>5. /\ control_input = <<>> /\ updates = <<>> /\ started_subprograms = {First} /\ active_connections = {}
      /\ pc = "idle" /\ target = Nothing /\ to_start = {} /\ to_connect = {} /\ message = Nothing
      /\ stopped = FALSE /\ subscribed = {} /\ known = [p \in Subscribers |-> EmptyView]
      /\ requests = 0 /\ subscribes = 0 /\ starts = 0 /\ changes = 0
      /\ life = [g \in Programs |-> IF g = First THEN "running" ELSE "none"]
  BY DEF ControlInit
<1>6. EmptyView \in Views
  BY DEF EmptyView, Views
<1>7. FormsOK /\ OneConnectionEach
  BY <1>5, <1>6 DEF FormsOK, OneConnectionEach
<1>8. 0 \in 0..MaxRequests /\ 0 \in 0..MaxSubscribes /\ 0 \in 0..MaxStarts /\ 0 \in 0..MaxChanges
  BY ControlAssumption
<1>9. ControlTypeOK
  <2>1. Len(control_input) <= 1 /\ DOMAIN updates = {}
    BY <1>5
  <2>2. Nothing \notin Programs
    BY ControlAssumption
  <2> QED BY <1>2, <1>5, <1>8, <2>1, <2>2 DEF ControlTypeOK
<1>10. StreamsOK
  BY <1>2, <1>3, <1>5, SubscribersAssumption, ControlAssumption DEF StreamsOK
<1>11. PhasesOK
  BY <1>2, <1>5 DEF PhasesOK
<1>12. SubscribersOK
  BY <1>2, <1>5 DEF SubscribersOK, SubscriberOK, Knows, Effective, WillTake, EmptyView
<1> QED BY <1>1, <1>4, <1>7, <1>9, <1>10, <1>11, <1>12 DEF SubscriptionInv, Formed

\* What the control program is doing when it is idle leaves nothing in hand.
LEMMA IdleIsCurrent == ASSUME SubscriptionInv PROVE SubscriberIsCurrent
<1> SUFFICES ASSUME pc = "idle", NEW p \in subscribed, stream[p] = "open"
             PROVE  /\ known[p].connections = active_connections
                    /\ known[p].programs \subseteq started_subprograms
                    /\ \A g \in started_subprograms \ known[p].programs :
                           \E i \in DOMAIN updates : updates[i] = Update("Stopped", g, Nothing)
  BY DEF SubscriberIsCurrent
<1>1. Formed /\ SubscribersOK /\ p \in Subscribers /\ sending = {}
  BY DEF SubscriptionInv, Formed, ControlTypeOK, PhasesOK
<1>2. Knows(p) /\ IsCurrent(p) /\ Effective(p) = known[p]
  BY <1>1 DEF SubscribersOK, SubscriberOK, Effective, WillTake
<1>3. (\A c : ~ConnectionInHand(p, c)) /\ (\A g : ~StartInHand(p, g))
  BY <1>1, NothingInHand
<1> QED BY <1>2, <1>3 DEF Knows, IsCurrent, EndIsPending

\* However often subscribers are started, closed and started again while the control program
\* waits for others, and whatever changes meanwhile: when it is idle, the state that a running
\* subscriber was sent and the updates it took since add up to the control program's view.
THEOREM SubscriptionsStaySound == ControlSpec => []SubscriptionsAreSound
<1>1. SubscriptionInv => SubscriptionsAreSound
  BY IdleIsCurrent DEF SubscriptionInv, Formed, SubscriptionsAreSound, ControlInv, IInv
<1> QED BY <1>1, SubscriptionInitInv, SubscriptionsKeep, PTL DEF ControlSpec
=============================================================================
