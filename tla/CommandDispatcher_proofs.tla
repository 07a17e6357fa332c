------------------------ MODULE CommandDispatcher_proofs ------------------------
(***************************************************************************)
(* Proofs about CommandDispatcher, for any programs, commands and bounds.  *)
(*                                                                         *)
(* What the dispatcher must never do is reply that a command is unknown    *)
(* while the one program that offers it runs.  It replies so when it holds *)
(* no owner after it has asked everyone, so the invariant says what it     *)
(* knows of each launcher g.  As long as g runs, its place in the table    *)
(* leads from its id to g (IInv, of SubProgramTable_proofs), so a sink     *)
(* that was connected leads to g too (SinksAreRight).  A launcher in its   *)
(* first life has not ended, so the dispatcher never saw it disappear and  *)
(* its sink was never dropped (FirstSinkIsRight); before that life nothing *)
(* is known of it (NeverStartedIsUnknown).  Once it was seen, its commands *)
(* are in the cache (SeenIsKnown), and if nobody else offers them their    *)
(* owner's id leads to g (OwnerLeadsThere).  That an answer to the query   *)
(* is the answer of the program that was asked needs that there is at most *)
(* one query under way, where it was sent (QueryOK).                       *)
(*                                                                         *)
(* A second life breaks this: the id of a program that has ended stays in  *)
(* the cache and in the list of programs seen, hence Restarted in the      *)
(* property.                                                               *)
(*                                                                         *)
(* The places of a request are told apart as four cases (InPlace).         *)
(***************************************************************************)
EXTENDS CommandDispatcher, SubProgramTable_proofs, FiniteSetTheorems, SequenceTheorems

\* g runs, for the first time; it has never run.
FirstLife(g) == handle_of[g] # None /\ ~Restarted(g)
NeverStarted(g) == g \notin ToSet(First) /\ starts[g] = 0

\* The programs that have been seen, and asked for their commands if they could be.
Seen == subprograms \cup ((active \ to_ask) \ {asked})

\* What the dispatcher has at hand while it ...
PhasesOK ==
    /\ pc = "listing" => asked # None
    /\ pc \notin {"listing", "lost"} => asked = None /\ ~sent
    /\ pc \notin {"asking", "listing", "lost"} => active = {} /\ to_ask = {}
    /\ owner # None => pc = "forwarding" /\ current.name # List
    /\ pc \in {"asking", "listing"} => present \subseteq active

\* Programs that run, or are open.
RunningOK ==
    /\ panicked = None
    /\ present \subseteq Up
    /\ \A g \in closed : handle_of[g] # None
    /\ \A g \in Launchers : input[g] # <<>> => handle_of[g] # None
    /\ \A t \in Tasks : program_indexes[t] = handle_of[t]

\* The dispatcher's query and the clients' requests can be told apart, and ...
MessageOK(m) == (m.name = List /\ m.id = 0) \/ (m.name # List /\ m.id \in 1..requests)
MessagesOK ==
    /\ \A g \in Launchers : \A i \in DOMAIN input[g] : MessageOK(input[g][i])
    /\ \A i \in DOMAIN dispatcher_input : dispatcher_input[i].id \in 1..requests
    /\ current # None => current.id \in 1..requests

\* ... there is at most one query, at the program that it is meant for.
IsQuery(g, i) == i \in DOMAIN input[g] /\ input[g][i].name = List
QueryOK ==
    /\ \A g \in Launchers : \A i \in Nat : IsQuery(g, i) => pc = "listing" /\ sent /\ GetSubProgram(asked) = g
    /\ \A g, h \in Launchers : \A i, j \in Nat : IsQuery(g, i) /\ IsQuery(h, j) => g = h /\ i = j

\* A connected sink leads where the table does, ...
SinksAreRight == \A p \in Programs : sink[p] \in Programs => GetSubProgram(p) = sink[p] /\ sink[p] \notin Tasks

\* ... and that of a program in its first life is connected.
FirstSinkIsRight == \A g \in Launchers : FirstLife(g) => sink[g] \notin {Disconnected, Dead}

OffersAlone(g, n) == {h \in Launchers : n \in Offers[h]} = {g}

\* Nothing is known of a program that has never run.
NeverStartedIsUnknown ==
    \A g \in Launchers : NeverStarted(g) =>
        /\ handle_of[g] = None /\ program_indexes[g] = None /\ sink[g] = None
        /\ g \notin subprograms \cup active \cup to_ask /\ asked # g
        /\ \A n \in CommandNames : OffersAlone(g, n) => commands[n] = None

\* The commands of a program that was seen are known, ...
SeenIsKnown ==
    \A g \in Launchers : Open(g) /\ ~Restarted(g) /\ g \in Seen =>
        \A n \in CommandNames : OffersAlone(g, n) => commands[n] # None

\* ... and their owner's id leads to it.
OwnerLeadsThere ==
    \A g \in Launchers : FirstLife(g) =>
        \A n \in CommandNames : OffersAlone(g, n) /\ commands[n] # None => GetSubProgram(commands[n]) = g

\* Where request id waits, if it does.
InQueue(i, id) == i \in DOMAIN dispatcher_input /\ dispatcher_input[i].id = id
OneInQueue(id) == \E i \in Nat : \A j \in Nat : InQueue(j, id) <=> j = i
At(g, i, id) == i \in DOMAIN input[g] /\ input[g][i].id = id
OneAt(id) == \E g \in Launchers, i \in Nat : \A h \in Launchers, j \in Nat : At(h, j, id) <=> h = g /\ j = i

\* A request is in one place.
InPlace(id) ==
    LET NoneInQueue == \A i \in Nat : ~InQueue(i, id)
        NoneAt == \A g \in Launchers, i \in Nat : ~At(g, i, id)
    IN  \/ answers[id] = 1 /\ NoneInQueue /\ NoneAt /\ ~IsCurrent(id)
        \/ answers[id] = 0 /\ OneInQueue(id) /\ NoneAt /\ ~IsCurrent(id)
        \/ answers[id] = 0 /\ NoneInQueue /\ OneAt(id) /\ ~IsCurrent(id)
        \/ answers[id] = 0 /\ NoneInQueue /\ NoneAt /\ IsCurrent(id)

AllInPlace ==
    \A id \in 1..MaxRequests : IF id <= requests THEN InPlace(id) ELSE answers[id] = 0

TablesOK == IInv /\ DispatcherTypeOK /\ RunningOK

KnowledgeOK == /\ SinksAreRight /\ FirstSinkIsRight /\ NeverStartedIsUnknown
               /\ SeenIsKnown /\ OwnerLeadsThere

DispatcherInv == /\ TablesOK /\ PhasesOK /\ MessagesOK /\ QueryOK /\ KnowledgeOK
                 /\ OnlyOwnerIsFound /\ AllInPlace

----------------------------------------------------------------------------
\* The actions, one by one.
LEMMA NextCases ==
  ASSUME [DispatcherNext]_allVars
  PROVE  \/ TakeCommand \/ ReadStatus \/ SendQuery \/ SendQueryFails \/ AllAsked
         \/ Forward \/ CommandFailedToRespond \/ RespondList \/ CommandNotFound
         \/ (\E p \in to_ask : Ask(p)) \/ (\E n \in CommandNames \cup {List} : ClientRequests(n))
         \/ (\E g \in Launchers : StartLauncher(g)) \/ (\E g \in Launchers : CloseLauncher(g))
         \/ (\E g \in Launchers : EndLauncher(g)) \/ (\E g \in Launchers : LauncherRuns(g))
         \/ (\E g \in Launchers : LauncherLists(g)) \/ (\E t \in Tasks : EndTask(t))
         \/ UNCHANGED allVars
  BY Zenon DEF DispatcherNext, DispatcherStep

----------------------------------------------------------------------------
(* The table, and what its lookups return. *)

\* An id leads to a running program, at the handle that the id has.
LEMMA Lookup ==
  ASSUME IInv, NEW p \in Programs, GetSubProgram(p) # None
  PROVE  /\ GetSubProgram(p) \in Programs /\ program_indexes[p] \in Handles
         /\ handle_of[GetSubProgram(p)] = program_indexes[p]
         /\ p \in GetRunningSubprograms
  BY DEF IInv, TypeOK, EntriesAreOwned, GetSubProgram, GetRunningSubprograms

\* A running program's id leads to it.
LEMMA OwnLookup ==
  ASSUME IInv, NEW g \in Programs, handle_of[g] # None
  PROVE  GetSubProgram(g) = g
  BY DEF IInv, RunningProgramIsFound, Running

\* A program that starts was not running, and its id led to nothing.  What other ids lead to
\* stays.
LEMMA StartKeepsLookups ==
  ASSUME IInv, NEW g \in Programs, StartSubprogram(g)
  PROVE  /\ GetSubProgram(g) = None /\ handle_of[g] = None /\ GetSubProgram(g)' = g
         /\ \A p \in Programs : GetSubProgram(p) # None => GetSubProgram(p)' = GetSubProgram(p)
         /\ \A p \in Programs \ {g} :
              program_indexes'[p] = program_indexes[p] /\ handle_of'[p] = handle_of[p]
         /\ handle_of'[g] # None /\ program_indexes'[g] = handle_of'[g] /\ panicked' = None
<1>1. GetSubProgram(g) = None
  BY DEF StartSubprogram, Refused, GetSubProgram
<1>2. handle_of[g] = None
  BY OnlyStoppedProgramsStart DEF StartSubprogram
<1>3. /\ next_subprogram \in Handles /\ sub_programs[next_subprogram] = None
      /\ sub_programs' = [sub_programs EXCEPT ![next_subprogram] = g]
      /\ program_indexes' = [program_indexes EXCEPT ![g] = next_subprogram]
      /\ handle_of' = [handle_of EXCEPT ![g] = next_subprogram] /\ panicked' = None
  BY DEF StartSubprogram, IInv, NextSubprogramIsLowestFree, IndexesAfterStart
<1>4. next_subprogram # None /\ None \notin Programs
  BY <1>3, TableAssumption DEF Handles
<1>v. /\ DOMAIN handle_of = Programs /\ DOMAIN program_indexes = Programs /\ DOMAIN sub_programs = Handles
      /\ program_indexes \in [Programs -> Handles \cup {None}]
  BY DEF IInv, TypeOK
<1>5. GetSubProgram(g)' = g
  BY <1>3, <1>4, <1>v DEF GetSubProgram
<1>6. ASSUME NEW p \in Programs, GetSubProgram(p) # None PROVE GetSubProgram(p)' = GetSubProgram(p)
  BY <1>1, <1>3, <1>6, <1>v DEF GetSubProgram
<1> QED BY <1>1, <1>2, <1>3, <1>4, <1>5, <1>6, <1>v

\* When a program ends, or a task and its id with it, what leads to other programs stays.
LEMMA EndKeepsLookups ==
  ASSUME IInv, NEW g \in Programs, handle_of[g] # None,
         sub_programs' = [sub_programs EXCEPT ![handle_of[g]] = None],
         handle_of' = [handle_of EXCEPT ![g] = None],
         program_indexes' \in {program_indexes, [program_indexes EXCEPT ![g] = None]}
  PROVE  /\ \A p \in Programs : GetSubProgram(p) \notin {None, g} => GetSubProgram(p)' = GetSubProgram(p)
         /\ \A p \in Programs \ {g} : handle_of'[p] = handle_of[p] /\ program_indexes'[p] = program_indexes[p]
         /\ handle_of'[g] = None
<1>v. /\ DOMAIN handle_of = Programs /\ DOMAIN program_indexes = Programs /\ DOMAIN sub_programs = Handles
      /\ program_indexes \in [Programs -> Handles \cup {None}] /\ handle_of[g] \in Handles
  BY DEF IInv, TypeOK
<1>1. GetSubProgram(g) = g
  BY OwnLookup
<1>2. ASSUME NEW p \in Programs, GetSubProgram(p) \notin {None, g}
      PROVE  GetSubProgram(p)' = GetSubProgram(p)
  <2>1. p # g /\ program_indexes[p] # None /\ program_indexes'[p] = program_indexes[p]
    BY <1>1, <1>2, <1>v DEF GetSubProgram
  <2>2. sub_programs[handle_of[g]] = g
    BY DEF IInv, RunningProgramIsFound, Running
  <2>3. program_indexes[p] # handle_of[g]
    BY <1>2, <2>1, <2>2 DEF GetSubProgram
  <2> QED BY <1>v, <2>1, <2>3 DEF GetSubProgram
<1> QED BY <1>2, <1>v

\* A task that ends frees its handle as a program does.
LEMMA EndTaskKeepsTable ==
  ASSUME IInv, NEW t \in Programs, EndTask(t), panicked = None
  PROVE  IInv'
<1>1. PICK h \in Handles : h = handle_of[t]
  BY DEF IInv, TypeOK, EndTask
<1>2. /\ sub_programs' = [sub_programs EXCEPT ![h] = None]
      /\ next_subprogram' = IF h < next_subprogram THEN h ELSE next_subprogram
      /\ handle_of' = [handle_of EXCEPT ![t] = None]
      /\ program_indexes' = [program_indexes EXCEPT ![t] = None] /\ panicked' = panicked
  BY <1>1 DEF EndTask, NextAfterFinish
<1>3. sub_programs[h] = t
  BY <1>1, TableAssumption DEF IInv, TypeOK, RunningProgramIsFound, Running, Handles
<1>4. TypeOK'
  BY <1>2, TableAssumption DEF IInv, TypeOK, Handles
<1>5. NextSubprogramIsLowestFree'
  BY <1>2, TableAssumption DEF IInv, TypeOK, NextSubprogramIsLowestFree, Handles
<1>6. EntriesAreOwned'
  <2> SUFFICES ASSUME NEW k \in Handles, sub_programs'[k] # None
               PROVE  handle_of'[sub_programs'[k]] = k
    BY DEF EntriesAreOwned
  <2>1. k # h /\ sub_programs'[k] = sub_programs[k] /\ handle_of[sub_programs[k]] = k
    BY <1>2 DEF IInv, TypeOK, EntriesAreOwned
  <2> QED BY <1>1, <1>2, <2>1 DEF IInv, TypeOK
<1>7. RunningProgramIsFound'
  <2> SUFFICES ASSUME NEW k \in Programs, handle_of'[k] # None
               PROVE  /\ program_indexes'[k] # None /\ sub_programs'[program_indexes'[k]] = k
                      /\ sub_programs'[handle_of'[k]] = k
    BY DEF RunningProgramIsFound, Running, GetSubProgram, GetRunningSubprograms
  <2>1. k # t
    BY <1>2 DEF IInv, TypeOK
  <2>2. /\ program_indexes[k] # None /\ sub_programs[program_indexes[k]] = k
        /\ sub_programs[handle_of[k]] = k /\ handle_of[k] # None
    BY <1>2, <2>1, TableAssumption
       DEF IInv, TypeOK, RunningProgramIsFound, Running, GetSubProgram, GetRunningSubprograms
  <2>3. program_indexes[k] # h /\ handle_of[k] # h
    BY <1>3, <2>1, <2>2
  <2> QED BY <1>2, <2>1, <2>2, <2>3 DEF IInv, TypeOK
<1> QED BY <1>4, <1>5, <1>6, <1>7 DEF IInv

\* What a step does to the table: a launcher or a task starts or ends, or nothing.
LEMMA TableEffects ==
  ASSUME [DispatcherNext]_allVars
  PROVE  \/ UNCHANGED vars
         \/ \E g \in Launchers : StartLauncher(g) \/ EndLauncher(g)
         \/ \E t \in Tasks : StartSubprogram(t) \/ EndTask(t)
<1>1. CASE \/ TakeCommand \/ (\E p \in to_ask : Ask(p)) \/ (\E g \in Launchers : LauncherRuns(g))
  BY <1>1 DEF TakeCommand, Ask, LauncherRuns, Reads, SpawnQuery, StartTask
<1>2. CASE \/ ReadStatus \/ SendQuery \/ SendQueryFails \/ AllAsked \/ Forward
          \/ CommandFailedToRespond \/ RespondList \/ CommandNotFound \/ UNCHANGED allVars
          \/ (\E n \in CommandNames \cup {List} : ClientRequests(n))
          \/ (\E g \in Launchers : CloseLauncher(g)) \/ (\E g \in Launchers : LauncherLists(g))
  BY <1>2
     DEF ReadStatus, SendQuery, SendQueryFails, AllAsked, Forward, CommandFailedToRespond, Respond,
         RespondList, CommandNotFound, ClientRequests, CloseLauncher, LauncherLists, Reads, allVars
<1>3. CASE \/ (\E g \in Launchers : StartLauncher(g)) \/ (\E g \in Launchers : EndLauncher(g))
          \/ (\E t \in Tasks : EndTask(t))
  BY <1>3
<1> QED BY NextCases, <1>1, <1>2, <1>3

\* What the table does to the ids of launchers and tasks.
LEMMA TableStep ==
  ASSUME IInv, RunningOK, [DispatcherNext]_allVars
  PROVE  /\ IInv' /\ panicked' = None
         /\ \A t \in Tasks : program_indexes'[t] = handle_of'[t]
         /\ \A g \in Launchers : \/ handle_of'[g] = handle_of[g] /\ program_indexes'[g] = program_indexes[g]
                                 \/ StartLauncher(g) \/ EndLauncher(g)
         /\ \A p \in Programs : GetSubProgram(p) # None =>
              \/ GetSubProgram(p)' = GetSubProgram(p)
              \/ GetSubProgram(p) \in Launchers /\ EndLauncher(GetSubProgram(p))
              \/ GetSubProgram(p) \in Tasks
<1>v. /\ Launchers \subseteq Programs /\ Tasks \subseteq Programs /\ Launchers \cap Tasks = {}
      /\ panicked = None /\ \A t \in Tasks : program_indexes[t] = handle_of[t]
  BY DispatcherAssumption DEF RunningOK
<1>1. CASE UNCHANGED vars
  <2>1. IInv'
    BY <1>1, NextIInv
  <2>2. \A p \in Programs : GetSubProgram(p)' = GetSubProgram(p)
    BY <1>1 DEF vars, GetSubProgram
  <2> QED BY <1>1, <1>v, <2>1, <2>2 DEF vars
<1>2. ASSUME NEW x \in Launchers \cup Tasks, StartSubprogram(x), x \in Launchers => StartLauncher(x)
      PROVE  /\ IInv' /\ panicked' = None
             /\ \A t \in Tasks : program_indexes'[t] = handle_of'[t]
             /\ \A g \in Launchers : \/ handle_of'[g] = handle_of[g] /\ program_indexes'[g] = program_indexes[g]
                                     \/ StartLauncher(g) \/ EndLauncher(g)
             /\ \A p \in Programs : GetSubProgram(p) # None => GetSubProgram(p)' = GetSubProgram(p)
  <2>1. IInv'
    BY <1>2, <1>v, StartStep
  <2>2. /\ \A p \in Programs : GetSubProgram(p) # None => GetSubProgram(p)' = GetSubProgram(p)
        /\ \A p \in Programs \ {x} :
              program_indexes'[p] = program_indexes[p] /\ handle_of'[p] = handle_of[p]
        /\ program_indexes'[x] = handle_of'[x] /\ panicked' = None
    BY <1>2, <1>v, StartKeepsLookups
  <2>3. \A t \in Tasks : program_indexes'[t] = handle_of'[t]
    BY <2>2, <1>v
  <2>4. \A g \in Launchers : g # x => handle_of'[g] = handle_of[g] /\ program_indexes'[g] = program_indexes[g]
    BY <2>2, <1>v
  <2> QED BY <1>2, <2>1, <2>2, <2>3, <2>4
<1>3. ASSUME NEW x \in Launchers \cup Tasks, handle_of[x] # None, IInv', panicked' = panicked,
             sub_programs' = [sub_programs EXCEPT ![handle_of[x]] = None],
             handle_of' = [handle_of EXCEPT ![x] = None],
             program_indexes' = IF x \in Tasks THEN [program_indexes EXCEPT ![x] = None] ELSE program_indexes,
             x \in Launchers => EndLauncher(x)
      PROVE  /\ panicked' = None
             /\ \A t \in Tasks : program_indexes'[t] = handle_of'[t]
             /\ \A g \in Launchers : \/ handle_of'[g] = handle_of[g] /\ program_indexes'[g] = program_indexes[g]
                                     \/ StartLauncher(g) \/ EndLauncher(g)
             /\ \A p \in Programs : GetSubProgram(p) \notin {None, x} => GetSubProgram(p)' = GetSubProgram(p)
  <2>1. x \in Programs /\ program_indexes' \in {program_indexes, [program_indexes EXCEPT ![x] = None]}
    BY <1>3, <1>v
  <2>2. /\ \A p \in Programs : GetSubProgram(p) \notin {None, x} => GetSubProgram(p)' = GetSubProgram(p)
        /\ \A p \in Programs \ {x} : handle_of'[p] = handle_of[p] /\ program_indexes'[p] = program_indexes[p]
        /\ handle_of'[x] = None
    BY <1>3, <2>1, EndKeepsLookups
  <2>3. \A t \in Tasks : program_indexes'[t] = handle_of'[t]
    <3>1. x \in Tasks => program_indexes'[x] = None
      BY <1>3, <2>1 DEF IInv, TypeOK
    <3> QED BY <2>2, <3>1, <1>v
  <2>4. \A g \in Launchers : g # x => handle_of'[g] = handle_of[g] /\ program_indexes'[g] = program_indexes[g]
    BY <2>2, <1>v
  <2> QED BY <1>3, <1>v, <2>2, <2>3, <2>4
<1>4. ASSUME NEW g \in Launchers, EndLauncher(g) PROVE
        /\ handle_of[g] # None /\ IInv' /\ panicked' = panicked
        /\ sub_programs' = [sub_programs EXCEPT ![handle_of[g]] = None]
        /\ handle_of' = [handle_of EXCEPT ![g] = None] /\ program_indexes' = program_indexes
  <2>1. FinishSubprogram(g)
    BY <1>4 DEF EndLauncher
  <2>2. IInv'
    BY <2>1, <1>v, FinishStep
  <2> QED BY <2>1, <2>2 DEF FinishSubprogram
<1>5. ASSUME NEW t \in Tasks, EndTask(t) PROVE
        /\ handle_of[t] # None /\ IInv' /\ panicked' = panicked
        /\ sub_programs' = [sub_programs EXCEPT ![handle_of[t]] = None]
        /\ handle_of' = [handle_of EXCEPT ![t] = None]
        /\ program_indexes' = [program_indexes EXCEPT ![t] = None]
  BY <1>5, <1>v, EndTaskKeepsTable DEF EndTask
<1>6. ASSUME NEW g \in Launchers, StartLauncher(g) PROVE StartSubprogram(g)
  BY <1>6 DEF StartLauncher
<1>7. CASE \E g \in Launchers : StartLauncher(g)
  BY <1>7, <1>6, <1>2
<1>8. CASE \E g \in Launchers : EndLauncher(g)
  <2>1. PICK g \in Launchers : EndLauncher(g)
    BY <1>8
  <2>2. g \notin Tasks
    BY <1>v
  <2>3. \A p \in Programs : GetSubProgram(p) \notin {None, g} => GetSubProgram(p)' = GetSubProgram(p)
    BY <2>1, <2>2, <1>4, <1>3
  <2> QED BY <2>1, <2>2, <2>3, <1>4, <1>3
<1>9. CASE \E t \in Tasks : EndTask(t)
  <2>1. PICK t \in Tasks : EndTask(t)
    BY <1>9
  <2>2. t \notin Launchers
    BY <1>v
  <2>3. \A p \in Programs : GetSubProgram(p) \notin {None, t} => GetSubProgram(p)' = GetSubProgram(p)
    BY <2>1, <2>2, <1>5, <1>3
  <2> QED BY <2>1, <2>2, <2>3, <1>5, <1>3
<1>10. CASE \E t \in Tasks : StartSubprogram(t)
  BY <1>10, <1>2, <1>v
<1> QED BY TableEffects, <1>1, <1>7, <1>8, <1>9, <1>10

----------------------------------------------------------------------------
(* Types, and programs that run. *)

\* A sink leads to a program, or is disconnected or dead.
LEMMA SinkTypes ==
  ASSUME IInv, DispatcherTypeOK, NEW p \in Programs
  PROVE  SinkAfterSendTo(p) \in [Programs -> Programs \cup {None, Disconnected, Dead}]
<1>1. GetSubProgram(p) # None => GetSubProgram(p) \in Programs
  BY Lookup
<1> QED BY <1>1 DEF SinkAfterSendTo, DispatcherTypeOK

\* An owner is a program that can be sent to.
LEMMA OwnerTypes ==
  ASSUME DispatcherTypeOK, NEW n, OwnerOf(n) # None, n \in CommandNames \cup {List}
  PROVE  OwnerOf(n) \in Programs /\ n # List /\ CanSendTo(OwnerOf(n))
  BY DEF OwnerOf, CanSendTo, DispatcherTypeOK

\* A message that is read or sent is one.
LEMMA MessageTypes ==
  ASSUME DispatcherTypeOK
  PROVE  /\ Message(0, List) \in Messages /\ None \notin Messages
         /\ pc # "idle" => current \in Messages
         /\ dispatcher_input # <<>> =>
                Head(dispatcher_input) \in Messages /\ Tail(dispatcher_input) \in Seq(Messages)
         /\ \A g \in Launchers : input[g] # <<>> =>
                Head(input[g]) \in Messages /\ Tail(input[g]) \in Seq(Messages)
<1>1. [id : 0..MaxRequests, name : CommandNames \cup {List}] \subseteq [id : Nat, name : CommandNames \cup {List}]
  OBVIOUS
<1>2. None \notin Messages
  BY <1>1, DispatcherAssumption DEF Messages
<1>3. Message(0, List) \in Messages
  BY DispatcherAssumption DEF Message, Messages
<1>4. input \in [Launchers -> Seq(Messages)] /\ dispatcher_input \in Seq(Messages)
  BY DEF DispatcherTypeOK
<1>5. pc # "idle" => current \in Messages
  BY DEF DispatcherTypeOK
<1>6. dispatcher_input # <<>> =>
          Head(dispatcher_input) \in Messages /\ Tail(dispatcher_input) \in Seq(Messages)
  BY <1>4
<1>7. ASSUME NEW g \in Launchers, input[g] # <<>>
      PROVE  Head(input[g]) \in Messages /\ Tail(input[g]) \in Seq(Messages)
  <2>1. input[g] \in Seq(Messages)
    BY <1>4
  <2> QED BY <1>7, <2>1
<1> QED BY <1>2, <1>3, <1>5, <1>6, <1>7

\* What a step does to the input of a launcher.
LEMMA InputEffects ==
  ASSUME DispatcherTypeOK, [DispatcherNext]_allVars, NEW g \in Launchers
  PROVE  \/ input'[g] = input[g]
         \/ /\ g \in Up /\ SendQuery /\ sink[asked] = g /\ asked \in Programs \cup {None}
            /\ input'[g] = Append(input[g], Message(0, List))
         \/ g \in Up /\ Forward /\ sink[owner] = g /\ input'[g] = Append(input[g], current)
         \/ Reads(g) /\ input'[g] = Tail(input[g]) /\ (LauncherRuns(g) \/ LauncherLists(g))
<1>v. DOMAIN input = Launchers
  BY DEF DispatcherTypeOK
<1>1. CASE SendQuery
  BY <1>1, <1>v DEF SendQuery, DispatcherTypeOK, Takes
<1>2. CASE Forward
  BY <1>2, <1>v DEF Forward, Takes
<1>3. CASE \E h \in Launchers : LauncherRuns(h)
  BY <1>3, <1>v DEF LauncherRuns, Reads
<1>4. CASE \E h \in Launchers : LauncherLists(h)
  BY <1>4, <1>v DEF LauncherLists, Reads
<1>5. CASE \/ TakeCommand \/ ReadStatus \/ SendQueryFails \/ AllAsked \/ CommandFailedToRespond
          \/ RespondList \/ CommandNotFound \/ UNCHANGED allVars \/ (\E p \in to_ask : Ask(p))
          \/ (\E n \in CommandNames \cup {List} : ClientRequests(n))
          \/ (\E h \in Launchers : StartLauncher(h)) \/ (\E h \in Launchers : CloseLauncher(h))
          \/ (\E h \in Launchers : EndLauncher(h)) \/ (\E t \in Tasks : EndTask(t))
  BY <1>5
     DEF TakeCommand, ReadStatus, SendQueryFails, AllAsked, CommandFailedToRespond, Respond, RespondList,
         CommandNotFound, Ask, ClientRequests, StartLauncher, CloseLauncher, EndLauncher, EndTask,
         allVars, launcherVars
<1> QED BY NextCases, <1>1, <1>2, <1>3, <1>4, <1>5

\* While a launcher has the query, the dispatcher awaits the answer of that program.
LEMMA QueryAtHand ==
  ASSUME PhasesOK, QueryOK, DispatcherTypeOK, NEW g \in Launchers, LauncherLists(g)
  PROVE  pc = "listing" /\ sent /\ asked \in Programs /\ GetSubProgram(asked) = g
<1>1. input[g] \in Seq(Messages)
  BY DEF DispatcherTypeOK
<1>2. IsQuery(g, 1)
  BY <1>1 DEF LauncherLists, Reads, IsQuery
<1>3. pc = "listing" /\ sent /\ GetSubProgram(asked) = g
  BY <1>2 DEF QueryOK
<1> QED BY <1>3 DEF PhasesOK, DispatcherTypeOK

\* The inputs of the launchers hold messages.
LEMMA InputTypes ==
  ASSUME DispatcherTypeOK, [DispatcherNext]_allVars
  PROVE  input' \in [Launchers -> Seq(Messages)]
<1>v. input \in [Launchers -> Seq(Messages)]
  BY DEF DispatcherTypeOK
<1>m. /\ Message(0, List) \in Messages /\ None \notin Messages
      /\ pc # "idle" => current \in Messages
      /\ dispatcher_input # <<>> =>
             Head(dispatcher_input) \in Messages /\ Tail(dispatcher_input) \in Seq(Messages)
      /\ \A g \in Launchers : input[g] # <<>> =>
             Head(input[g]) \in Messages /\ Tail(input[g]) \in Seq(Messages)
  BY MessageTypes
<1>1. CASE SendQuery
  <2>1. sink[asked] \in Launchers
    BY <1>1 DEF SendQuery, Takes, Up
  <2>2. Append(input[sink[asked]], Message(0, List)) \in Seq(Messages)
    BY <1>v, <1>m, <2>1
  <2> QED BY <1>1, <1>v, <2>2 DEF SendQuery
<1>2. CASE Forward
  <2>1. sink[owner] \in Launchers /\ current \in Messages
    BY <1>2, <1>m DEF Forward, Takes, Up
  <2>2. Append(input[sink[owner]], current) \in Seq(Messages)
    BY <1>v, <2>1
  <2> QED BY <1>2, <1>v, <2>2 DEF Forward
<1>3. ASSUME NEW g \in Launchers, LauncherRuns(g) PROVE input' \in [Launchers -> Seq(Messages)]
  BY <1>3, <1>v, <1>m DEF LauncherRuns, Reads, launcherVars, dispatcherVars, clientVars
<1>4. ASSUME NEW g \in Launchers, LauncherLists(g) PROVE input' \in [Launchers -> Seq(Messages)]
  BY <1>4, <1>v, <1>m DEF LauncherLists, Reads, launcherVars, dispatcherVars, clientVars
<1>5. CASE \/ TakeCommand \/ ReadStatus \/ SendQueryFails \/ AllAsked \/ CommandFailedToRespond
          \/ RespondList \/ CommandNotFound \/ UNCHANGED allVars \/ (\E p \in to_ask : Ask(p))
          \/ (\E n \in CommandNames \cup {List} : ClientRequests(n))
          \/ (\E g \in Launchers : StartLauncher(g)) \/ (\E g \in Launchers : CloseLauncher(g))
          \/ (\E g \in Launchers : EndLauncher(g)) \/ (\E t \in Tasks : EndTask(t))
  BY <1>5, <1>v
     DEF TakeCommand, ReadStatus, SendQueryFails, AllAsked, CommandFailedToRespond, Respond, RespondList,
         CommandNotFound, Ask, ClientRequests, StartLauncher, CloseLauncher, EndLauncher, EndTask,
         allVars, launcherVars, dispatcherVars, clientVars
<1> QED BY NextCases, <1>1, <1>2, <1>3, <1>4, <1>5

\* The dispatcher's input holds messages.
LEMMA RequestTypes ==
  ASSUME DispatcherTypeOK, [DispatcherNext]_allVars
  PROVE  dispatcher_input' \in Seq(Messages) /\ requests' \in 0..MaxRequests
<1>v. dispatcher_input \in Seq(Messages) /\ requests \in 0..MaxRequests
  BY DEF DispatcherTypeOK
<1>m. /\ Message(0, List) \in Messages /\ None \notin Messages
      /\ pc # "idle" => current \in Messages
      /\ dispatcher_input # <<>> =>
             Head(dispatcher_input) \in Messages /\ Tail(dispatcher_input) \in Seq(Messages)
      /\ \A g \in Launchers : input[g] # <<>> =>
             Head(input[g]) \in Messages /\ Tail(input[g]) \in Seq(Messages)
  BY MessageTypes
<1>n. MaxRequests \in Nat
  BY DispatcherAssumption
<1>1. CASE TakeCommand
  BY <1>1, <1>v, <1>m DEF TakeCommand, launcherVars, dispatcherVars, clientVars
<1>2. ASSUME NEW n \in CommandNames \cup {List}, ClientRequests(n)
      PROVE  dispatcher_input' \in Seq(Messages) /\ requests' \in 0..MaxRequests
  BY <1>2, <1>v, <1>n DEF ClientRequests, Message, Messages, launcherVars, dispatcherVars, clientVars
<1>3. CASE \/ ReadStatus \/ SendQuery \/ SendQueryFails \/ AllAsked \/ Forward
          \/ CommandFailedToRespond \/ RespondList \/ CommandNotFound \/ UNCHANGED allVars
          \/ (\E p \in to_ask : Ask(p)) \/ (\E g \in Launchers : StartLauncher(g))
          \/ (\E g \in Launchers : CloseLauncher(g)) \/ (\E g \in Launchers : EndLauncher(g))
          \/ (\E g \in Launchers : LauncherRuns(g)) \/ (\E g \in Launchers : LauncherLists(g))
          \/ (\E t \in Tasks : EndTask(t))
  BY <1>3, <1>v
     DEF ReadStatus, SendQuery, SendQueryFails, AllAsked, Forward, CommandFailedToRespond, Respond,
         RespondList, CommandNotFound, Ask, StartLauncher, CloseLauncher, EndLauncher, LauncherRuns,
         Reads, LauncherLists, EndTask, allVars, launcherVars, dispatcherVars, clientVars
<1> QED BY NextCases, <1>1, <1>2, <1>3

\* The dispatcher has a request in hand unless it is idle.
LEMMA CurrentTypes ==
  ASSUME PhasesOK, QueryOK, DispatcherTypeOK, [DispatcherNext]_allVars
  PROVE  /\ pc' \in {"idle", "status", "asking", "listing", "forwarding", "lost"}
         /\ current' = None <=> pc' = "idle"
         /\ current' # None => current' \in Messages
<1>v. /\ pc \in {"idle", "status", "asking", "listing", "forwarding", "lost"}
      /\ current = None <=> pc = "idle"
      /\ current # None => current \in Messages
  BY DEF DispatcherTypeOK
<1>m. /\ Message(0, List) \in Messages /\ None \notin Messages
      /\ pc # "idle" => current \in Messages
      /\ dispatcher_input # <<>> =>
             Head(dispatcher_input) \in Messages /\ Tail(dispatcher_input) \in Seq(Messages)
      /\ \A g \in Launchers : input[g] # <<>> =>
             Head(input[g]) \in Messages /\ Tail(input[g]) \in Seq(Messages)
  BY MessageTypes
<1>1. CASE TakeCommand
  BY <1>1, <1>v, <1>m DEF TakeCommand, launcherVars, dispatcherVars, clientVars
<1>2. CASE \/ ReadStatus \/ SendQuery \/ SendQueryFails \/ AllAsked \/ (\E p \in to_ask : Ask(p))
  BY <1>2, <1>v
     DEF ReadStatus, SendQuery, SendQueryFails, AllAsked, Ask, launcherVars, dispatcherVars, clientVars
<1>3. ASSUME NEW g \in Launchers, LauncherLists(g)
      PROVE  /\ pc' \in {"idle", "status", "asking", "listing", "forwarding", "lost"}
             /\ (current' = None <=> pc' = "idle")
             /\ (current' # None => current' \in Messages)
  BY <1>3, <1>v, QueryAtHand DEF LauncherLists, Reads, launcherVars, dispatcherVars, clientVars
<1>4. CASE \/ Forward \/ CommandFailedToRespond \/ RespondList \/ CommandNotFound
  BY <1>4, <1>v
     DEF Forward, CommandFailedToRespond, Respond, RespondList, CommandNotFound, launcherVars,
         dispatcherVars, clientVars
<1>5. CASE \/ UNCHANGED allVars \/ (\E n \in CommandNames \cup {List} : ClientRequests(n))
          \/ (\E g \in Launchers : StartLauncher(g)) \/ (\E g \in Launchers : CloseLauncher(g))
          \/ (\E g \in Launchers : EndLauncher(g)) \/ (\E g \in Launchers : LauncherRuns(g))
          \/ (\E t \in Tasks : EndTask(t))
  BY <1>5, <1>v
     DEF ClientRequests, StartLauncher, CloseLauncher, EndLauncher, LauncherRuns, Reads, EndTask, allVars,
         launcherVars, dispatcherVars, clientVars
<1> QED BY NextCases, <1>1, <1>2, <1>3, <1>4, <1>5

\* The program that is asked, and the owner, are programs.
LEMMA HandTypes ==
  ASSUME IInv, DispatcherTypeOK, [DispatcherNext]_allVars
  PROVE  /\ {asked', owner'} \subseteq Programs \cup {None} /\ task' \in Tasks \cup {None}
         /\ sent' \in BOOLEAN
<1>v. /\ {asked, owner} \subseteq Programs \cup {None} /\ task \in Tasks \cup {None}
      /\ sent \in BOOLEAN
  BY DEF DispatcherTypeOK
<1>m. /\ Message(0, List) \in Messages /\ None \notin Messages
      /\ pc # "idle" => current \in Messages
      /\ dispatcher_input # <<>> =>
             Head(dispatcher_input) \in Messages /\ Tail(dispatcher_input) \in Seq(Messages)
      /\ \A g \in Launchers : input[g] # <<>> =>
             Head(input[g]) \in Messages /\ Tail(input[g]) \in Seq(Messages)
  BY MessageTypes
<1>o. \A n \in CommandNames \cup {List} : OwnerOf(n) \in Programs \cup {None}
  BY OwnerTypes
<1>a. to_ask \subseteq Programs
  BY DEF DispatcherTypeOK
<1>c. pc = "asking" => current.name \in CommandNames \cup {List}
  <2>1. pc = "asking" => current \in Messages
    BY <1>m
  <2> QED BY <2>1 DEF Messages
<1>1. CASE TakeCommand
  BY <1>1, <1>v, <1>o, <1>m
     DEF TakeCommand, SpawnQuery, Messages, launcherVars, dispatcherVars, clientVars
<1>2. CASE AllAsked
  BY <1>2, <1>v, <1>o, <1>c, <1>m DEF AllAsked, Messages, launcherVars, dispatcherVars, clientVars
<1>3. ASSUME NEW p \in to_ask, Ask(p)
      PROVE  /\ {asked', owner'} \subseteq Programs \cup {None}
             /\ task' \in Tasks \cup {None}
             /\ sent' \in BOOLEAN
  BY <1>3, <1>v, <1>a DEF Ask, SpawnQuery, launcherVars, dispatcherVars, clientVars
<1>4. CASE \/ ReadStatus \/ SendQuery \/ SendQueryFails
          \/ (\E g \in Launchers : LauncherLists(g))
  BY <1>4, <1>v
     DEF LauncherLists, Reads, ReadStatus, SendQuery, SendQueryFails, launcherVars, dispatcherVars,
         clientVars
<1>5. CASE \/ Forward \/ CommandFailedToRespond \/ RespondList \/ CommandNotFound
  BY <1>5, <1>v
     DEF Forward, CommandFailedToRespond, Respond, RespondList, CommandNotFound, launcherVars,
         dispatcherVars, clientVars
<1>6. CASE \/ UNCHANGED allVars \/ (\E n \in CommandNames \cup {List} : ClientRequests(n))
          \/ (\E g \in Launchers : StartLauncher(g)) \/ (\E g \in Launchers : CloseLauncher(g))
          \/ (\E g \in Launchers : EndLauncher(g)) \/ (\E g \in Launchers : LauncherRuns(g))
          \/ (\E t \in Tasks : EndTask(t))
  BY <1>6, <1>v
     DEF ClientRequests, StartLauncher, CloseLauncher, EndLauncher, LauncherRuns, Reads, EndTask, allVars,
         launcherVars, dispatcherVars, clientVars
<1> QED BY NextCases, <1>1, <1>2, <1>3, <1>4, <1>5, <1>6

\* Answers and starts are counted, and only launchers are closed.
LEMMA ClientTypes ==
  ASSUME DispatcherTypeOK, [DispatcherNext]_allVars
  PROVE  /\ closed' \subseteq Launchers /\ starts' \in [Launchers -> Nat]
         /\ answers' \in [1..MaxRequests -> Nat]
<1>v. /\ closed \subseteq Launchers /\ starts \in [Launchers -> Nat]
      /\ answers \in [1..MaxRequests -> Nat]
  BY DEF DispatcherTypeOK
<1>1. ASSUME NEW g \in Launchers, StartLauncher(g)
      PROVE  /\ closed' \subseteq Launchers
             /\ starts' \in [Launchers -> Nat]
             /\ answers' \in [1..MaxRequests -> Nat]
  BY <1>1, <1>v DEF StartLauncher, launcherVars, dispatcherVars, clientVars
<1>2. CASE \/ (\E g \in Launchers : CloseLauncher(g)) \/ (\E g \in Launchers : EndLauncher(g))
  BY <1>2, <1>v DEF CloseLauncher, EndLauncher, launcherVars, dispatcherVars, clientVars
<1>3. CASE \/ CommandFailedToRespond \/ RespondList \/ CommandNotFound
          \/ (\E g \in Launchers : LauncherRuns(g))
  BY <1>3, <1>v
     DEF LauncherRuns, Reads, CommandFailedToRespond, Respond, RespondList, CommandNotFound, Answered,
         dispatcherVars, launcherVars, clientVars
<1>4. CASE \/ TakeCommand \/ ReadStatus \/ SendQuery \/ SendQueryFails \/ AllAsked \/ Forward
          \/ UNCHANGED allVars \/ (\E p \in to_ask : Ask(p))
          \/ (\E n \in CommandNames \cup {List} : ClientRequests(n))
          \/ (\E g \in Launchers : LauncherLists(g)) \/ (\E t \in Tasks : EndTask(t))
  BY <1>4, <1>v
     DEF TakeCommand, ReadStatus, SendQuery, SendQueryFails, AllAsked, Forward, Ask, ClientRequests,
         LauncherLists, Reads, EndTask, allVars, launcherVars, dispatcherVars, clientVars
<1> QED BY NextCases, <1>1, <1>2, <1>3, <1>4

\* The cache is about programs.
LEMMA CacheTypes ==
  ASSUME IInv, PhasesOK, QueryOK, DispatcherTypeOK, [DispatcherNext]_allVars
  PROVE  /\ commands' \in [CommandNames -> Programs \cup {None}]
         /\ subprograms' \cup active' \cup to_ask' \subseteq Programs
         /\ present' \subseteq Launchers
<1>v. /\ commands \in [CommandNames -> Programs \cup {None}]
      /\ subprograms \cup active \cup to_ask \subseteq Programs
      /\ present \subseteq Launchers
  BY DEF DispatcherTypeOK
<1>1. CASE TakeCommand
  BY <1>1, <1>v DEF TakeCommand, Up, launcherVars, dispatcherVars, clientVars
<1>2. CASE ReadStatus
  BY <1>2, <1>v
     DEF ReadStatus, ActiveSubprograms, GetRunningSubprograms, Added, launcherVars, dispatcherVars,
         clientVars
<1>3. CASE \/ AllAsked \/ (\E p \in to_ask : Ask(p)) \/ (\E g \in Launchers : CloseLauncher(g))
  BY <1>3, <1>v DEF AllAsked, Ask, CloseLauncher, launcherVars, dispatcherVars, clientVars
<1>4. CASE \/ Forward \/ CommandFailedToRespond \/ RespondList \/ CommandNotFound
  BY <1>4, <1>v
     DEF Forward, CommandFailedToRespond, Respond, RespondList, CommandNotFound, launcherVars,
         dispatcherVars, clientVars
<1>5. ASSUME NEW g \in Launchers, LauncherLists(g)
      PROVE  /\ commands' \in [CommandNames -> Programs \cup {None}]
             /\ subprograms' \cup active' \cup to_ask' \subseteq Programs
             /\ present' \subseteq Launchers
  BY <1>5, <1>v, QueryAtHand
     DEF LauncherLists, Reads, CommandsAfter, launcherVars, dispatcherVars, clientVars
<1>6. CASE \/ SendQuery \/ SendQueryFails \/ UNCHANGED allVars
          \/ (\E n \in CommandNames \cup {List} : ClientRequests(n))
          \/ (\E g \in Launchers : StartLauncher(g)) \/ (\E g \in Launchers : EndLauncher(g))
          \/ (\E g \in Launchers : LauncherRuns(g)) \/ (\E t \in Tasks : EndTask(t))
  BY <1>6, <1>v
     DEF SendQuery, SendQueryFails, ClientRequests, StartLauncher, EndLauncher, LauncherRuns, Reads,
         EndTask, allVars, launcherVars, dispatcherVars, clientVars
<1> QED BY NextCases, <1>1, <1>2, <1>3, <1>4, <1>5, <1>6

\* Sinks lead to programs, or are disconnected or dead.
LEMMA SinkIsTyped ==
  ASSUME IInv, DispatcherTypeOK, [DispatcherNext]_allVars
  PROVE  sink' \in [Programs -> Programs \cup {None, Disconnected, Dead}]
<1>v. sink \in [Programs -> Programs \cup {None, Disconnected, Dead}]
  BY DEF DispatcherTypeOK
<1>a. to_ask \subseteq Programs
  BY DEF DispatcherTypeOK
<1>s. \A p \in Programs : SinkAfterSendTo(p) \in [Programs -> Programs \cup {None, Disconnected, Dead}]
  BY SinkTypes
<1>o. \A n \in CommandNames \cup {List} : OwnerOf(n) \in Programs \cup {None}
  BY OwnerTypes
<1>m. /\ dispatcher_input # <<>> => Head(dispatcher_input).name \in CommandNames \cup {List}
      /\ pc # "idle" => current.name \in CommandNames \cup {List}
  <2>1. /\ dispatcher_input # <<>> => Head(dispatcher_input) \in Messages
        /\ pc # "idle" => current \in Messages
    BY MessageTypes
  <2> QED BY <2>1 DEF Messages
<1>1. CASE TakeCommand
  BY <1>1, <1>v, <1>s, <1>o, <1>m DEF TakeCommand, launcherVars, dispatcherVars, clientVars
<1>2. CASE AllAsked
  BY <1>2, <1>v, <1>s, <1>o, <1>m DEF AllAsked, launcherVars, dispatcherVars, clientVars
<1>3. ASSUME NEW p \in to_ask, Ask(p)
      PROVE  sink' \in [Programs -> Programs \cup {None, Disconnected, Dead}]
  BY <1>3, <1>v, <1>s, <1>a DEF Ask, launcherVars, dispatcherVars, clientVars
<1>4. CASE SendQueryFails
  BY <1>4, <1>v DEF SendQueryFails, SinkAfterRefusal, launcherVars, dispatcherVars, clientVars
<1>5. CASE CommandFailedToRespond
  BY <1>5, <1>v
     DEF CommandFailedToRespond, Respond, SinkAfterRefusal, launcherVars, dispatcherVars, clientVars
<1>6. CASE \/ RespondList \/ CommandNotFound
  BY <1>6, <1>v DEF RespondList, Respond, CommandNotFound, launcherVars, dispatcherVars, clientVars
<1>7. ASSUME NEW g \in Launchers, StartLauncher(g)
      PROVE  sink' \in [Programs -> Programs \cup {None, Disconnected, Dead}]
  BY <1>7, <1>v DEF StartLauncher, launcherVars, dispatcherVars, clientVars
<1>8. ASSUME NEW g \in Launchers, EndLauncher(g)
      PROVE  sink' \in [Programs -> Programs \cup {None, Disconnected, Dead}]
  BY <1>8, <1>v DEF EndLauncher, launcherVars, dispatcherVars, clientVars
<1>9. CASE \/ ReadStatus \/ SendQuery \/ Forward \/ UNCHANGED allVars
          \/ (\E n \in CommandNames \cup {List} : ClientRequests(n))
          \/ (\E g \in Launchers : CloseLauncher(g)) \/ (\E g \in Launchers : LauncherRuns(g))
          \/ (\E g \in Launchers : LauncherLists(g)) \/ (\E t \in Tasks : EndTask(t))
  BY <1>9, <1>v
     DEF ReadStatus, SendQuery, Forward, ClientRequests, CloseLauncher, LauncherRuns, Reads,
         LauncherLists, EndTask, allVars, launcherVars, dispatcherVars, clientVars
<1> QED BY NextCases, <1>1, <1>2, <1>3, <1>4, <1>5, <1>6, <1>7, <1>8, <1>9

\* Types are kept.
LEMMA TypeStep ==
  ASSUME IInv, PhasesOK, QueryOK, DispatcherTypeOK, [DispatcherNext]_allVars
  PROVE  DispatcherTypeOK'
  BY InputTypes, RequestTypes, CurrentTypes, HandTypes, ClientTypes, CacheTypes, SinkIsTyped
     DEF DispatcherTypeOK

\* The dispatcher has at hand what it needs, at each of its steps.
LEMMA PhasesStep ==
  ASSUME IInv, RunningOK, DispatcherTypeOK, PhasesOK, QueryOK, [DispatcherNext]_allVars
  PROVE  PhasesOK'
<1>o. \A n \in CommandNames \cup {List} : OwnerOf(n) # None => n # List
  BY OwnerTypes
<1>m. /\ dispatcher_input # <<>> => Head(dispatcher_input).name \in CommandNames \cup {List}
      /\ pc # "idle" => current.name \in CommandNames \cup {List}
  <2>1. /\ dispatcher_input # <<>> => Head(dispatcher_input) \in Messages
        /\ pc # "idle" => current \in Messages
    BY MessageTypes
  <2> QED BY <2>1 DEF Messages
<1>u. present \subseteq ActiveSubprograms
  <2> SUFFICES ASSUME NEW g \in present PROVE g \in ActiveSubprograms
    OBVIOUS
  <2>1. g \in Programs /\ handle_of[g] # None
    BY DispatcherAssumption DEF RunningOK, Up, Open
  <2>2. GetSubProgram(g) = g /\ g # None
    BY <2>1, OwnLookup, TableAssumption
  <2> QED BY <2>1, <2>2, Lookup DEF ActiveSubprograms
<1>a. to_ask \subseteq Programs
  BY DEF DispatcherTypeOK
<1>1p. PhasesOK
  OBVIOUS
<1>1. CASE TakeCommand
  BY <1>1, <1>m, <1>1p, <1>o DEF TakeCommand, PhasesOK, clientVars, launcherVars, dispatcherVars
<1>2. CASE ReadStatus
  BY <1>2, <1>m, <1>1p, <1>u DEF ReadStatus, PhasesOK, Added, clientVars, launcherVars, dispatcherVars
<1>3. CASE AllAsked
  BY <1>3, <1>m, <1>1p, <1>o DEF AllAsked, PhasesOK, clientVars, launcherVars, dispatcherVars
<1>4. ASSUME NEW p \in to_ask, Ask(p) PROVE PhasesOK'
  BY <1>4, <1>m, <1>1p, <1>a, TableAssumption DEF Ask, PhasesOK, clientVars, launcherVars, dispatcherVars
<1>5. CASE \/ SendQuery \/ SendQueryFails
  BY <1>5, <1>m, <1>1p DEF SendQuery, SendQueryFails, PhasesOK, clientVars, launcherVars, dispatcherVars
<1>6. CASE \/ Forward \/ CommandFailedToRespond \/ RespondList \/ CommandNotFound
  BY <1>6, <1>m, <1>1p
     DEF Forward, CommandFailedToRespond, Respond, RespondList, CommandNotFound, PhasesOK, clientVars,
         launcherVars, dispatcherVars
<1>7. ASSUME NEW g \in Launchers, LauncherLists(g) PROVE PhasesOK'
  BY <1>7, <1>m, <1>1p, QueryAtHand
     DEF LauncherLists, Reads, PhasesOK, clientVars, launcherVars, dispatcherVars
<1>8. ASSUME NEW g \in Launchers, CloseLauncher(g) PROVE PhasesOK'
  BY <1>8, <1>m, <1>1p DEF CloseLauncher, PhasesOK, clientVars, launcherVars, dispatcherVars
<1>9. CASE \/ UNCHANGED allVars \/ (\E n \in CommandNames \cup {List} : ClientRequests(n))
          \/ (\E g \in Launchers : StartLauncher(g)) \/ (\E g \in Launchers : EndLauncher(g))
          \/ (\E g \in Launchers : LauncherRuns(g)) \/ (\E t \in Tasks : EndTask(t))
  BY <1>9, <1>m, <1>1p
     DEF ClientRequests, StartLauncher, EndLauncher, LauncherRuns, Reads, EndTask, allVars, PhasesOK,
         clientVars, launcherVars, dispatcherVars
<1> QED BY NextCases, <1>1, <1>2, <1>3, <1>4, <1>5, <1>6, <1>7, <1>8, <1>9

\* A launcher that is closed is no longer present, and only an open one is closed.
LEMMA PresentEffects ==
  ASSUME RunningOK, DispatcherTypeOK, [DispatcherNext]_allVars
  PROVE  /\ present' \subseteq Up /\ present' \cap closed' = {}
         /\ closed' \subseteq closed \cup Up
<1>v. /\ present \subseteq Up /\ Up \cap closed = {}
  BY DEF RunningOK, Up, Open
<1>1. CASE TakeCommand
  BY <1>1, <1>v DEF TakeCommand, Up, Open, launcherVars, dispatcherVars, clientVars
<1>2. CASE \/ Forward \/ CommandFailedToRespond \/ RespondList \/ CommandNotFound
  BY <1>2, <1>v
     DEF Forward, CommandFailedToRespond, Respond, RespondList, CommandNotFound, Up, Open, launcherVars,
         dispatcherVars, clientVars
<1>3. CASE \E g \in Launchers : CloseLauncher(g)
  BY <1>3, <1>v DEF CloseLauncher, Up, Open, launcherVars, dispatcherVars, clientVars
<1>4. CASE \E g \in Launchers : EndLauncher(g)
  BY <1>4, <1>v DEF EndLauncher, Up, Open, launcherVars, dispatcherVars, clientVars
<1>5. CASE \/ ReadStatus \/ SendQuery \/ SendQueryFails \/ AllAsked \/ UNCHANGED allVars
          \/ (\E p \in to_ask : Ask(p))
          \/ (\E n \in CommandNames \cup {List} : ClientRequests(n))
          \/ (\E g \in Launchers : StartLauncher(g)) \/ (\E g \in Launchers : LauncherRuns(g))
          \/ (\E g \in Launchers : LauncherLists(g)) \/ (\E t \in Tasks : EndTask(t))
  BY <1>5, <1>v
     DEF ReadStatus, SendQuery, SendQueryFails, AllAsked, Ask, ClientRequests, StartLauncher,
         LauncherRuns, Reads, LauncherLists, EndTask, allVars, Up, Open, launcherVars, dispatcherVars,
         clientVars
<1> QED BY NextCases, <1>1, <1>2, <1>3, <1>4, <1>5

\* Open launchers run, and so do those that have something to read.
LEMMA RunningStep ==
  ASSUME IInv, RunningOK, DispatcherTypeOK, [DispatcherNext]_allVars
  PROVE  RunningOK'
<1>t. /\ panicked' = None /\ \A t \in Tasks : program_indexes'[t] = handle_of'[t]
      /\ \A g \in Launchers : handle_of'[g] = handle_of[g] \/ StartLauncher(g) \/ EndLauncher(g)
  BY TableStep
<1>s. ASSUME NEW g \in Launchers, StartLauncher(g) PROVE handle_of'[g] # None
  BY <1>s, StartKeepsLookups, DispatcherAssumption DEF StartLauncher
<1>e. ASSUME NEW g \in Launchers, EndLauncher(g)
      PROVE  g \in closed \ closed' /\ input[g] = <<>> /\ input' = input
  BY <1>e DEF EndLauncher
<1>r. \A g \in Launchers : handle_of[g] # None => handle_of'[g] # None \/ EndLauncher(g)
  BY <1>t, <1>s
<1>c. closed \subseteq Launchers /\ present \subseteq Launchers
  BY DEF DispatcherTypeOK
<1>p. present' \subseteq Up /\ present' \cap closed' = {} /\ closed' \subseteq closed \cup Up
  BY PresentEffects
<1>1. present' \subseteq Up'
  BY <1>r, <1>e, <1>p, <1>c DEF Up, Open
<1>2. \A g \in closed' : handle_of'[g] # None
  <2>1. \A g \in closed \cup Up : g \in Launchers /\ handle_of[g] # None
    BY <1>c DEF RunningOK, Up, Open
  <2> QED BY <2>1, <1>r, <1>e, <1>p
<1>3. ASSUME NEW g \in Launchers, input'[g] # <<>> PROVE handle_of'[g] # None
  <2>1. input[g] # <<>> \/ g \in Up
    BY <1>3, InputEffects DEF Reads
  <2>2. handle_of[g] # None
    BY <2>1 DEF RunningOK, Up, Open
  <2>3. ~EndLauncher(g)
    BY <1>3, <1>e
  <2> QED BY <2>2, <2>3, <1>r
<1> QED BY <1>t, <1>1, <1>2, <1>3 DEF RunningOK

----------------------------------------------------------------------------
(* Sinks. *)

\* What a step that starts and ends no launcher does to the sink of p.
SinkEffect(p) ==
    \/ sink'[p] = sink[p] \/ sink'[p] = None
    \/ /\ sink[p] = None /\ GetSubProgram(p) # None
       /\ sink'[p] = IF GetSubProgram(p) \in Tasks THEN Disconnected ELSE GetSubProgram(p)
    \/ sink[p] = Dead /\ sink'[p] = Disconnected

\* What a step does to the sinks.
LEMMA SinkEffects ==
  ASSUME DispatcherTypeOK, [DispatcherNext]_allVars
  PROVE  \/ \E g \in Launchers : /\ StartLauncher(g)
                                    /\ sink' = [sink EXCEPT ![g] = IF @ = None THEN None ELSE g]
         \/ \E g \in Launchers : /\ EndLauncher(g)
                                    /\ sink' = [p \in Programs |-> IF sink[p] = g THEN Dead ELSE sink[p]]
         \/ closed \subseteq closed' /\ starts' = starts /\ \A p \in Programs : SinkEffect(p)
<1>v. sink \in [Programs -> Programs \cup {None, Disconnected, Dead}]
  BY DEF DispatcherTypeOK
<1>a. to_ask \subseteq Programs
  BY DEF DispatcherTypeOK
<1>s. ASSUME NEW q \in Programs, NEW p \in Programs
      PROVE  LET s == SinkAfterSendTo(q)
             IN  s[p] # sink[p] => /\ sink[p] = None /\ GetSubProgram(p) # None
                                   /\ s[p] = IF GetSubProgram(p) \in Tasks THEN Disconnected ELSE GetSubProgram(p)
  BY <1>v DEF SinkAfterSendTo
<1>o. \A n \in CommandNames \cup {List} : OwnerOf(n) \in Programs \cup {None}
  BY OwnerTypes DEF OwnerOf
<1>m. /\ dispatcher_input # <<>> => Head(dispatcher_input).name \in CommandNames \cup {List}
      /\ pc # "idle" => current.name \in CommandNames \cup {List}
  <2>1. /\ dispatcher_input # <<>> => Head(dispatcher_input) \in Messages
        /\ pc # "idle" => current \in Messages
    BY MessageTypes
  <2> QED BY <2>1 DEF Messages
<1> SUFFICES ASSUME ~ \E g \in Launchers : StartLauncher(g) \/ EndLauncher(g)
             PROVE  closed \subseteq closed' /\ starts' = starts /\ \A p \in Programs : SinkEffect(p)
  BY DEF StartLauncher, EndLauncher
<1>1. CASE TakeCommand
  BY <1>1, <1>v, <1>o, <1>m, <1>s DEF TakeCommand, SinkEffect, clientVars, launcherVars, dispatcherVars
<1>2. CASE AllAsked
  BY <1>2, <1>v, <1>o, <1>m, <1>s DEF AllAsked, SinkEffect, clientVars, launcherVars, dispatcherVars
<1>3. CASE \E p \in to_ask : Ask(p)
  BY <1>3, <1>v, <1>s, <1>a DEF Ask, SinkEffect, clientVars, launcherVars, dispatcherVars
<1>4. CASE SendQueryFails
  BY <1>4, <1>v DEF SendQueryFails, SinkEffect, SinkAfterRefusal, clientVars, launcherVars, dispatcherVars
<1>5. CASE CommandFailedToRespond
  BY <1>5, <1>v
     DEF CommandFailedToRespond, Respond, SinkEffect, SinkAfterRefusal, clientVars, launcherVars,
         dispatcherVars
<1>6. CASE \/ RespondList \/ CommandNotFound
  BY <1>6, <1>v
     DEF RespondList, Respond, CommandNotFound, SinkEffect, clientVars, launcherVars, dispatcherVars
<1>7. CASE \E g \in Launchers : CloseLauncher(g)
  BY <1>7, <1>v DEF CloseLauncher, SinkEffect, clientVars, launcherVars, dispatcherVars
<1>8. CASE \/ (\E g \in Launchers : StartLauncher(g)) \/ (\E g \in Launchers : EndLauncher(g))
  BY <1>8
<1>9. CASE \/ ReadStatus \/ SendQuery \/ Forward \/ UNCHANGED allVars
          \/ (\E n \in CommandNames \cup {List} : ClientRequests(n))
          \/ (\E g \in Launchers : LauncherRuns(g)) \/ (\E g \in Launchers : LauncherLists(g))
          \/ (\E t \in Tasks : EndTask(t))
  BY <1>9, <1>v
     DEF ReadStatus, SendQuery, Forward, ClientRequests, LauncherRuns, Reads, LauncherLists, EndTask,
         allVars, SinkEffect, clientVars, launcherVars, dispatcherVars
<1> QED BY NextCases, <1>1, <1>2, <1>3, <1>4, <1>5, <1>6, <1>7, <1>8, <1>9

\* Only one launcher ends in a step, and it was closed.
LEMMA EndsAlone ==
  ASSUME NEW g \in Launchers, EndLauncher(g)
  PROVE  /\ g \in closed \ closed' /\ starts' = starts
         /\ \A h \in Launchers : EndLauncher(h) => h = g
  BY DEF EndLauncher

\* A launcher that starts for the first time has never run before, and one that runs for
\* the first time either did so before or starts.
LEMMA FirstLives ==
  ASSUME IInv, RunningOK, DispatcherTypeOK, [DispatcherNext]_allVars, NEW g \in Launchers, ~Restarted(g)'
  PROVE  /\ ~Restarted(g)
         /\ NeverStarted(g)' => NeverStarted(g) /\ ~StartLauncher(g)
         /\ StartLauncher(g) => NeverStarted(g)
         /\ FirstLife(g)' => FirstLife(g) \/ StartLauncher(g)
         /\ FirstLife(g)' => ~EndLauncher(g)
<1>v. starts \in [Launchers -> Nat] /\ Launchers \subseteq Programs
  BY DispatcherAssumption DEF DispatcherTypeOK
<1>1. starts'[g] >= starts[g] /\ (StartLauncher(g) => starts'[g] = starts[g] + 1)
  <2>0. starts' = starts \/ \E h \in Launchers : StartLauncher(h)
    BY SinkEffects, EndsAlone
  <2>1. starts' = starts \/ \E h \in Launchers : starts' = [starts EXCEPT ![h] = @ + 1]
    BY <2>0 DEF StartLauncher
  <2> QED BY <2>1, <1>v DEF StartLauncher
<1>2. /\ handle_of'[g] = handle_of[g] \/ StartLauncher(g) \/ EndLauncher(g)
      /\ EndLauncher(g) => handle_of'[g] = None
  <2>1. DOMAIN handle_of = Programs
    BY DEF IInv, TypeOK
  <2> QED BY TableStep, <1>v, <2>1 DEF EndLauncher, FinishSubprogram
<1>3. ToSet(First)' = ToSet(First)
  BY DEF ToSet
<1>4. /\ starts'[g] \in Nat /\ starts[g] \in Nat
      /\ starts'[g] <= (IF g \in ToSet(First) THEN 0 ELSE 1)
  <2>1. starts' \in [Launchers -> Nat]
    BY ClientTypes
  <2> QED BY <1>3, <1>v, <2>1 DEF Restarted
<1>5. ~Restarted(g)
  BY <1>1, <1>4 DEF Restarted
<1>6. NeverStarted(g)' => NeverStarted(g) /\ ~StartLauncher(g)
  BY <1>1, <1>3, <1>4 DEF NeverStarted
<1>7. StartLauncher(g) => NeverStarted(g)
  BY <1>1, <1>4 DEF NeverStarted
<1>8. FirstLife(g)' => (FirstLife(g) \/ StartLauncher(g)) /\ ~EndLauncher(g)
  BY <1>2, <1>5 DEF FirstLife
<1> QED BY <1>5, <1>6, <1>7, <1>8

\* A connected sink leads where the table does.
LEMMA SinksStep ==
  ASSUME IInv, RunningOK, DispatcherTypeOK, SinksAreRight, [DispatcherNext]_allVars
  PROVE  SinksAreRight'
<1> SUFFICES ASSUME NEW p \in Programs, sink'[p] \in Programs
             PROVE  GetSubProgram(p)' = sink'[p] /\ sink'[p] \notin Tasks
  BY DEF SinksAreRight
<1>v. /\ {Disconnected, Dead, None} \cap Programs = {} /\ Launchers \subseteq Programs
      /\ Launchers \cap Tasks = {} /\ DOMAIN sink = Programs
  BY DispatcherAssumption DEF DispatcherTypeOK
<1>t. GetSubProgram(p) # None =>
        \/ GetSubProgram(p)' = GetSubProgram(p)
        \/ GetSubProgram(p) \in Launchers /\ EndLauncher(GetSubProgram(p))
        \/ GetSubProgram(p) \in Tasks
  BY TableStep
<1>s. sink[p] \in Programs => GetSubProgram(p) = sink[p] /\ sink[p] \notin Tasks
  BY DEF SinksAreRight
<1>1. ASSUME NEW g \in Launchers, StartLauncher(g), sink' = [sink EXCEPT ![g] = IF @ = None THEN None ELSE g]
      PROVE  GetSubProgram(p)' = sink'[p] /\ sink'[p] \notin Tasks
  <2>1. /\ GetSubProgram(g)' = g
        /\ GetSubProgram(p) # None => GetSubProgram(p)' = GetSubProgram(p)
    BY <1>1, <1>v, StartKeepsLookups DEF StartLauncher
  <2> QED BY <1>1, <1>v, <1>s, <2>1
<1>2. ASSUME NEW g \in Launchers, EndLauncher(g), sink' = [q \in Programs |-> IF sink[q] = g THEN Dead ELSE sink[q]]
      PROVE  GetSubProgram(p)' = sink'[p] /\ sink'[p] \notin Tasks
  <2>1. sink'[p] = sink[p] /\ sink[p] # g
    BY <1>2, <1>v
  <2>2. ~EndLauncher(sink[p]) \/ sink[p] \notin Launchers
    BY <1>2, <2>1, EndsAlone
  <2> QED BY <1>s, <1>t, <1>v, <2>1, <2>2
<1>3. CASE closed \subseteq closed' /\ SinkEffect(p)
  <2>1. \A g \in Launchers : ~EndLauncher(g)
    BY <1>3, EndsAlone
  <2>2. GetSubProgram(p) = sink'[p] /\ sink'[p] \notin Tasks
    BY <1>3, <1>s, <1>v DEF SinkEffect
  <2> QED BY <2>1, <2>2, <1>t, <1>v
<1> QED BY SinkEffects, <1>1, <1>2, <1>3

\* The sink for a program in its first life is connected.
LEMMA FirstSinkStep ==
  ASSUME IInv, RunningOK, DispatcherTypeOK, SinksAreRight, FirstSinkIsRight, NeverStartedIsUnknown,
         [DispatcherNext]_allVars
  PROVE  FirstSinkIsRight'
<1> SUFFICES ASSUME NEW g \in Launchers, FirstLife(g)' PROVE sink'[g] \notin {Disconnected, Dead}
  BY DEF FirstSinkIsRight
<1>v. /\ {Disconnected, Dead, None} \cap Programs = {} /\ Launchers \subseteq Programs
      /\ Launchers \cap Tasks = {} /\ DOMAIN sink = Programs /\ None \notin {Disconnected, Dead}
  BY DispatcherAssumption DEF DispatcherTypeOK
<1>r. ~Restarted(g)'
  BY DEF FirstLife
<1>f. /\ FirstLife(g) \/ StartLauncher(g)
      /\ StartLauncher(g) => NeverStarted(g)
      /\ ~EndLauncher(g)
  BY <1>r, FirstLives
<1>1. CASE StartLauncher(g)
  BY <1>1, <1>f, <1>v DEF StartLauncher, NeverStartedIsUnknown, FirstLife
<1>2. CASE FirstLife(g) /\ ~StartLauncher(g)
  <2>1. GetSubProgram(g) = g
    BY <1>2, <1>v, OwnLookup DEF FirstLife
  <2>2. sink[g] \notin {Disconnected, Dead} /\ (sink[g] \in Programs => sink[g] = g)
    BY <1>2, <2>1, <1>v DEF FirstSinkIsRight, SinksAreRight
  <2>3. \A h \in Launchers : h # g => sink[g] # h
    BY <2>2, <1>v
  <2> QED BY <1>2, <1>f, <1>v, <2>1, <2>2, <2>3, SinkEffects DEF SinkEffect
<1> QED BY <1>1, <1>2, <1>f

----------------------------------------------------------------------------
(* What the dispatcher knows. *)

\* The dispatcher's cache changes when an answer has come, or the list of programs.
LEMMA CacheEffects ==
  ASSUME DispatcherTypeOK, [DispatcherNext]_allVars, NEW n \in CommandNames
  PROVE  \/ commands'[n] = commands[n]
         \/ \E h \in Launchers : LauncherLists(h) /\ n \in Offers[h] /\ commands[n] = None /\ commands'[n] = asked
         \/ ReadStatus /\ commands[n] \in subprograms \ ActiveSubprograms /\ commands'[n] = None
<1>1. CASE \E g \in Launchers : LauncherLists(g)
  BY <1>1 DEF LauncherLists, CommandsAfter
<1>2. CASE ReadStatus
  BY <1>2 DEF ReadStatus, Kept
<1>3. CASE \/ TakeCommand \/ SendQuery \/ SendQueryFails \/ AllAsked \/ Forward
          \/ CommandFailedToRespond \/ RespondList \/ CommandNotFound \/ UNCHANGED allVars
          \/ (\E p \in to_ask : Ask(p))
          \/ (\E c \in CommandNames \cup {List} : ClientRequests(c))
          \/ (\E g \in Launchers : StartLauncher(g)) \/ (\E g \in Launchers : CloseLauncher(g))
          \/ (\E g \in Launchers : EndLauncher(g)) \/ (\E g \in Launchers : LauncherRuns(g))
          \/ (\E t \in Tasks : EndTask(t))
  BY <1>3
     DEF TakeCommand, SendQuery, SendQueryFails, AllAsked, Forward, CommandFailedToRespond, Respond,
         RespondList, CommandNotFound, Ask, ClientRequests, StartLauncher, CloseLauncher, EndLauncher,
         LauncherRuns, Reads, EndTask, allVars, clientVars, launcherVars, dispatcherVars
<1> QED BY NextCases, <1>1, <1>2, <1>3

\* The programs that the dispatcher has to do with come from the list of programs.
LEMMA KnownEffects ==
  ASSUME IInv, DispatcherTypeOK, PhasesOK, QueryOK, [DispatcherNext]_allVars, NEW g \in Launchers,
         g \in subprograms' \cup active' \cup to_ask' \/ asked' = g
  PROVE  g \in subprograms \cup active \cup to_ask \/ asked = g \/ g \in ActiveSubprograms
<1>n. g # None
  BY DispatcherAssumption
<1>1. CASE ReadStatus
  BY <1>1 DEF ReadStatus, Added
<1>2. CASE \/ AllAsked \/ (\E p \in to_ask : Ask(p))
  BY <1>2 DEF AllAsked, Ask
<1>3. CASE \E h \in Launchers : LauncherLists(h)
  BY <1>3, <1>n DEF LauncherLists, Reads
<1>4. CASE \/ Forward \/ CommandFailedToRespond \/ RespondList \/ CommandNotFound
  BY <1>4 DEF Forward, CommandFailedToRespond, Respond, RespondList, CommandNotFound
<1>5. CASE \/ TakeCommand \/ SendQuery \/ SendQueryFails \/ UNCHANGED allVars
          \/ (\E n \in CommandNames \cup {List} : ClientRequests(n))
          \/ (\E h \in Launchers : StartLauncher(h)) \/ (\E h \in Launchers : CloseLauncher(h))
          \/ (\E h \in Launchers : EndLauncher(h)) \/ (\E h \in Launchers : LauncherRuns(h))
          \/ (\E t \in Tasks : EndTask(t))
  BY <1>5
     DEF TakeCommand, SendQuery, SendQueryFails, ClientRequests, StartLauncher, CloseLauncher,
         EndLauncher, LauncherRuns, Reads, EndTask, allVars, clientVars, launcherVars, dispatcherVars
<1> QED BY NextCases, <1>1, <1>2, <1>3, <1>4, <1>5

\* A program that has been seen was asked, or could not be.
LEMMA SeenEffects ==
  ASSUME IInv, DispatcherTypeOK, PhasesOK, QueryOK, [DispatcherNext]_allVars, NEW g \in Launchers, g \in Seen'
  PROVE  \/ g \in Seen
         \/ g \in to_ask /\ Ask(g) /\ ~IsAttached(SinkAfterSendTo(g)[g])
         \/ asked = g /\ \E h \in Launchers : LauncherLists(h)
<1>n. g # None /\ g # Dispatcher
  BY DispatcherAssumption
<1>v. PhasesOK
  OBVIOUS
<1>1. CASE ReadStatus
  BY <1>1, <1>n, <1>v DEF ReadStatus, Added, Seen, PhasesOK
<1>2. CASE AllAsked
  BY <1>2, <1>n, <1>v DEF AllAsked, Seen, PhasesOK
<1>3. CASE \E p \in to_ask : Ask(p)
  BY <1>3, <1>n, <1>v DEF Ask, Seen, PhasesOK
<1>4. CASE \E h \in Launchers : LauncherLists(h)
  BY <1>4 DEF LauncherLists, Reads, Seen
<1>5. CASE \/ Forward \/ CommandFailedToRespond \/ RespondList \/ CommandNotFound
  BY <1>5 DEF Forward, CommandFailedToRespond, Respond, RespondList, CommandNotFound, Seen
<1>6. CASE \/ TakeCommand \/ SendQuery \/ SendQueryFails \/ UNCHANGED allVars
          \/ (\E n \in CommandNames \cup {List} : ClientRequests(n))
          \/ (\E h \in Launchers : StartLauncher(h)) \/ (\E h \in Launchers : CloseLauncher(h))
          \/ (\E h \in Launchers : EndLauncher(h)) \/ (\E h \in Launchers : LauncherRuns(h))
          \/ (\E t \in Tasks : EndTask(t))
  BY <1>6
     DEF TakeCommand, SendQuery, SendQueryFails, ClientRequests, StartLauncher, CloseLauncher,
         EndLauncher, LauncherRuns, Reads, EndTask, allVars, Seen, clientVars, launcherVars,
         dispatcherVars
<1> QED BY NextCases, <1>1, <1>2, <1>3, <1>4, <1>5, <1>6

\* Nothing is learnt of a program that never started.
LEMMA NeverStartedStep ==
  ASSUME IInv, RunningOK, DispatcherTypeOK, PhasesOK, QueryOK, NeverStartedIsUnknown,
         [DispatcherNext]_allVars
  PROVE  NeverStartedIsUnknown'
<1> SUFFICES ASSUME NEW g \in Launchers, NeverStarted(g)'
             PROVE  /\ handle_of'[g] = None /\ program_indexes'[g] = None /\ sink'[g] = None
                    /\ g \notin subprograms' \cup active' \cup to_ask' /\ asked' # g
                    /\ \A n \in CommandNames : OffersAlone(g, n)' => commands'[n] = None
  BY DEF NeverStartedIsUnknown
<1>v. /\ Launchers \subseteq Programs /\ DOMAIN sink = Programs
  BY DispatcherAssumption DEF DispatcherTypeOK
<1>r. ~Restarted(g)'
  <2>1. ToSet(First)' = ToSet(First)
    BY DEF ToSet
  <2> QED BY <2>1 DEF NeverStarted, Restarted
<1>1. NeverStarted(g) /\ ~StartLauncher(g)
  BY <1>r, FirstLives
<1>2. /\ handle_of[g] = None /\ program_indexes[g] = None /\ sink[g] = None
      /\ g \notin subprograms \cup active \cup to_ask /\ asked # g
      /\ \A n \in CommandNames : OffersAlone(g, n) => commands[n] = None
  BY <1>1 DEF NeverStartedIsUnknown
<1>3. ~EndLauncher(g)
  BY <1>2 DEF EndLauncher, FinishSubprogram
<1>4. handle_of'[g] = None /\ program_indexes'[g] = None
  BY <1>1, <1>2, <1>3, TableStep
<1>5. GetSubProgram(g) = None /\ g \notin ActiveSubprograms
  BY <1>2 DEF GetSubProgram, ActiveSubprograms, GetRunningSubprograms
<1>6. sink'[g] = None
  <2>1. \A h \in Launchers : EndLauncher(h) => h # None
    BY DispatcherAssumption
  <2> QED BY <1>1, <1>2, <1>5, <1>v, <2>1, SinkEffects, DispatcherAssumption DEF SinkEffect
<1>7. g \notin subprograms' \cup active' \cup to_ask' /\ asked' # g
  BY <1>2, <1>5, KnownEffects
<1>8. ASSUME NEW n \in CommandNames, OffersAlone(g, n) PROVE commands'[n] = None
  <2>1. ~LauncherLists(g)
    BY <1>2 DEF LauncherLists, Reads
  <2>2. \A h \in Launchers : LauncherLists(h) => n \notin Offers[h]
    BY <1>8, <2>1 DEF OffersAlone
  <2>3. commands[n] = None
    BY <1>2, <1>8
  <2> QED BY <2>2, <2>3, CacheEffects
<1>9. \A n \in CommandNames : OffersAlone(g, n)' => OffersAlone(g, n)
  BY DEF OffersAlone
<1> QED BY <1>4, <1>6, <1>7, <1>8, <1>9

\* The owner of a command that one launcher offers leads to it.
LEMMA OwnerStep ==
  ASSUME IInv, RunningOK, DispatcherTypeOK, PhasesOK, QueryOK, NeverStartedIsUnknown,
         OwnerLeadsThere, [DispatcherNext]_allVars
  PROVE  OwnerLeadsThere'
<1> SUFFICES ASSUME NEW g \in Launchers, FirstLife(g)', NEW n \in CommandNames, OffersAlone(g, n)',
                    commands'[n] # None
             PROVE  GetSubProgram(commands[n])' = g
  BY DEF OwnerLeadsThere
<1>v. Launchers \subseteq Programs /\ Launchers \cap Tasks = {} /\ None \notin Launchers
  BY DispatcherAssumption
<1>o. OffersAlone(g, n)
  BY DEF OffersAlone
<1>r. ~Restarted(g)'
  BY DEF FirstLife
<1>f. /\ FirstLife(g) \/ StartLauncher(g)
      /\ StartLauncher(g) => NeverStarted(g)
      /\ ~EndLauncher(g)
  BY <1>r, FirstLives
<1>t. \A p \in Programs : GetSubProgram(p) = g => GetSubProgram(p)' = g
  BY <1>f, <1>v, TableStep
<1>1. CASE StartLauncher(g)
  <2>1. commands' = commands
    BY <1>1 DEF StartLauncher
  <2> QED BY <1>1, <1>f, <1>o, <2>1 DEF NeverStartedIsUnknown
<1>2. CASE FirstLife(g) /\ commands'[n] = commands[n]
  <2>1. GetSubProgram(commands[n]) = g /\ commands[n] \in Programs
    BY <1>2, <1>o DEF OwnerLeadsThere, DispatcherTypeOK
  <2>2. PICK p \in Programs : p = commands[n] /\ p = commands'[n]
    BY <1>2, <2>1
  <2>3. GetSubProgram(p)' = g
    BY <1>t, <2>1, <2>2
  <2> QED BY <2>2, <2>3 DEF GetSubProgram
<1>3. ASSUME NEW h \in Launchers, LauncherLists(h), n \in Offers[h], commands'[n] = asked
      PROVE  GetSubProgram(commands[n])' = g
  <2>1. h = g
    BY <1>3, <1>o DEF OffersAlone
  <2>2. asked \in Programs /\ GetSubProgram(asked) = g
    BY <1>3, <2>1, QueryAtHand
  <2>3. PICK p \in Programs : p = asked /\ p = commands'[n]
    BY <1>3, <2>2
  <2>4. GetSubProgram(p)' = g
    BY <1>t, <2>2, <2>3
  <2> QED BY <2>3, <2>4 DEF GetSubProgram
<1> QED BY <1>1, <1>2, <1>3, <1>f, CacheEffects

\* Once a program has been seen, its commands are known.
LEMMA SeenStep ==
  ASSUME IInv, RunningOK, DispatcherTypeOK, PhasesOK, QueryOK, KnowledgeOK, [DispatcherNext]_allVars
  PROVE  SeenIsKnown'
<1> SUFFICES ASSUME NEW g \in Launchers, Open(g)', ~Restarted(g)', g \in Seen',
                    NEW n \in CommandNames, OffersAlone(g, n)'
             PROVE  commands'[n] # None
  BY DEF SeenIsKnown
<1>v. /\ Launchers \subseteq Programs /\ Launchers \cap Tasks = {}
      /\ {Disconnected, Dead, None} \cap Programs = {} /\ DOMAIN sink = Programs
  BY DispatcherAssumption DEF DispatcherTypeOK
<1>o. OffersAlone(g, n) /\ n \in Offers[g]
  BY DEF OffersAlone
<1>f. /\ FirstLife(g)' /\ ~Restarted(g)
      /\ FirstLife(g) \/ StartLauncher(g)
      /\ StartLauncher(g) => NeverStarted(g)
      /\ ~EndLauncher(g)
  BY FirstLives DEF FirstLife, Open
<1>1. ~StartLauncher(g)
  <2> SUFFICES ASSUME StartLauncher(g) PROVE FALSE
    OBVIOUS
  <2>1. Seen' = Seen
    BY DEF StartLauncher, Seen
  <2>2. g \in Seen
    BY <2>1
  <2> QED BY <1>f, <2>2 DEF KnowledgeOK, NeverStartedIsUnknown, Seen
<1>2. FirstLife(g) /\ GetSubProgram(g) = g
  BY <1>f, <1>1, <1>v, OwnLookup DEF FirstLife
<1>3. Open(g)
  <2>1. g \in closed => g \in closed'
    BY <1>f, SinkEffects DEF EndLauncher, StartLauncher
  <2> QED BY <1>2, <2>1 DEF Open, FirstLife
<1>4. CASE g \in Seen
  <2>1. commands[n] # None /\ GetSubProgram(commands[n]) = g /\ commands[n] \in Programs
    BY <1>2, <1>3, <1>4, <1>f, <1>o DEF KnowledgeOK, SeenIsKnown, OwnerLeadsThere, DispatcherTypeOK
  <2>2. commands[n] \in ActiveSubprograms
    BY <2>1, <1>v, Lookup DEF ActiveSubprograms
  <2> QED BY <2>1, <2>2, CacheEffects
<1>5. CASE Ask(g) /\ ~IsAttached(SinkAfterSendTo(g)[g])
  <2>1. sink[g] \notin {Disconnected, Dead} /\ sink[g] \in Programs \cup {None, Disconnected, Dead}
    BY <1>2, <1>v DEF KnowledgeOK, FirstSinkIsRight, DispatcherTypeOK
  <2>2. sink[g] # None => sink[g] = g
    BY <1>2, <1>v, <2>1 DEF KnowledgeOK, SinksAreRight
  <2>3. SinkAfterSendTo(g)[g] = g
    BY <1>2, <1>v, <2>2 DEF SinkAfterSendTo
  <2> QED BY <1>3, <1>5, <2>3 DEF IsAttached
<1>6. ASSUME asked = g, NEW h \in Launchers, LauncherLists(h) PROVE commands'[n] # None
  <2>1. h = g
    BY <1>2, <1>6, QueryAtHand
  <2> QED BY <1>6, <1>o, <1>v, <2>1 DEF LauncherLists, CommandsAfter
<1> QED BY <1>4, <1>5, <1>6, SeenEffects

----------------------------------------------------------------------------
(* Messages. *)

\* While the dispatcher awaits an answer, only that changes what it does.
LEMMA ListingStays ==
  ASSUME PhasesOK, pc = "listing", sent, [DispatcherNext]_allVars
  PROVE  \/ pc' = "listing" /\ sent' /\ asked' = asked
         \/ \E h \in Launchers : LauncherLists(h)
<1>1. CASE \E g \in Launchers : LauncherLists(g)
  BY <1>1
<1>2. CASE \/ TakeCommand \/ ReadStatus \/ SendQuery \/ SendQueryFails \/ AllAsked \/ Forward
          \/ CommandFailedToRespond \/ RespondList \/ CommandNotFound \/ UNCHANGED allVars
          \/ (\E p \in to_ask : Ask(p))
          \/ (\E n \in CommandNames \cup {List} : ClientRequests(n))
          \/ (\E g \in Launchers : StartLauncher(g)) \/ (\E g \in Launchers : CloseLauncher(g))
          \/ (\E g \in Launchers : EndLauncher(g)) \/ (\E g \in Launchers : LauncherRuns(g))
          \/ (\E t \in Tasks : EndTask(t))
  BY <1>2
     DEF TakeCommand, ReadStatus, SendQuery, SendQueryFails, AllAsked, Forward, CommandFailedToRespond,
         Respond, RespondList, CommandNotFound, Ask, ClientRequests, StartLauncher, CloseLauncher,
         EndLauncher, LauncherRuns, Reads, EndTask, allVars, clientVars, launcherVars, dispatcherVars
<1> QED BY NextCases, <1>1, <1>2

\* A query was sent in this step, or was there and moved on with the input.
LEMMA QueryOrigins ==
  ASSUME DispatcherTypeOK, PhasesOK, QueryOK, [DispatcherNext]_allVars,
         NEW g \in Launchers, NEW i \in Nat, IsQuery(g, i)'
  PROVE  \/ SendQuery /\ sink[asked] = g /\ i = Len(input[g]) + 1
         \/ IsQuery(g, i) /\ input'[g] = input[g]
         \/ IsQuery(g, i + 1) /\ LauncherRuns(g)
<1>v. input[g] \in Seq(Messages) /\ i \in DOMAIN input'[g] /\ input'[g][i].name = List
  BY DEF DispatcherTypeOK, IsQuery
<1>1. CASE input'[g] = input[g]
  BY <1>1, <1>v DEF IsQuery
<1>2. CASE SendQuery /\ sink[asked] = g /\ input'[g] = Append(input[g], Message(0, List))
  <2>1. ~IsQuery(g, i)
    BY <1>2 DEF QueryOK, SendQuery
  <2>2. i <= Len(input[g]) => IsQuery(g, i)
    BY <1>2, <1>v, MessageTypes DEF IsQuery
  <2> QED BY <1>2, <1>v, <2>1, <2>2, MessageTypes
<1>3. CASE Forward /\ input'[g] = Append(input[g], current)
  <2>1. ~IsQuery(g, i)
    BY <1>3 DEF QueryOK, Forward
  <2>2. current.name # List /\ current \in Messages
    BY <1>3, MessageTypes DEF Forward, PhasesOK
  <2> QED BY <1>3, <1>v, <2>1, <2>2 DEF IsQuery
<1>4. CASE Reads(g) /\ input'[g] = Tail(input[g]) /\ (LauncherRuns(g) \/ LauncherLists(g))
  <2>r. input[g] # <<>>
    BY <1>4 DEF Reads
  <2>1. IsQuery(g, i + 1)
    BY <1>4, <1>v, <2>r DEF IsQuery
  <2>2. ~LauncherLists(g)
    <3>1. LauncherLists(g) => IsQuery(g, 1)
      BY <1>4, <1>v DEF IsQuery, Reads, LauncherLists
    <3>2. i >= 1
      BY <1>4, <1>v
    <3> QED BY <2>1, <3>1, <3>2 DEF QueryOK
  <2> QED BY <1>4, <2>1, <2>2
<1> QED BY <1>1, <1>2, <1>3, <1>4, InputEffects

\* There is one query, and the dispatcher awaits its answer.
LEMMA QueryStep ==
  ASSUME IInv, RunningOK, DispatcherTypeOK, PhasesOK, QueryOK, SinksAreRight, [DispatcherNext]_allVars
  PROVE  QueryOK'
<1>v. Launchers \subseteq Programs /\ Launchers \cap Tasks = {} /\ None \notin Launchers
  BY DispatcherAssumption
<1>1. ASSUME NEW g \in Launchers, NEW i \in Nat, IsQuery(g, i), ~ \E h \in Launchers : LauncherLists(h)
      PROVE  pc' = "listing" /\ sent' /\ GetSubProgram(asked)' = g
  <2>1. pc = "listing" /\ sent /\ GetSubProgram(asked) = g
    BY <1>1 DEF QueryOK
  <2>2. pc' = "listing" /\ sent' /\ asked' = asked
    BY <1>1, <2>1, ListingStays
  <2>3. PICK p \in Programs : p = asked /\ p = asked'
    BY <2>1, <2>2 DEF PhasesOK, DispatcherTypeOK
  <2>4. ~EndLauncher(g)
    BY <1>1 DEF EndLauncher, IsQuery
  <2>5. GetSubProgram(p)' = g
    BY <1>v, <2>1, <2>3, <2>4, TableStep
  <2> QED BY <2>2, <2>3, <2>5 DEF GetSubProgram
<1>2. ASSUME NEW h \in Launchers, LauncherLists(h) PROVE IsQuery(h, 1) /\ input'[h] # input[h]
  BY <1>2 DEF LauncherLists, Reads, IsQuery, DispatcherTypeOK
<1>3. ASSUME NEW g \in Launchers, NEW i \in Nat, IsQuery(g, i)'
      PROVE  ~ \E h \in Launchers : LauncherLists(h)
  <2> SUFFICES ASSUME NEW h \in Launchers, LauncherLists(h) PROVE FALSE
    OBVIOUS
  <2>1. ~SendQuery
    BY <1>2 DEF LauncherLists, SendQuery, QueryOK
  <2>2. \E j \in Nat : IsQuery(g, j) /\ (g = h => j # 1)
    <3>1. ~LauncherRuns(h)
      BY <1>2 DEF LauncherRuns, LauncherLists, DispatcherTypeOK, dispatcherVars, QueryOK
    <3> QED BY <1>2, <1>3, <2>1, <3>1, QueryOrigins
  <2> QED BY <1>2, <2>2 DEF QueryOK
<1>4. ASSUME NEW g \in Launchers, NEW i \in Nat, IsQuery(g, i)'
      PROVE  pc' = "listing" /\ sent' /\ GetSubProgram(asked)' = g
  <2>1. CASE SendQuery /\ sink[asked] = g
    <3>1. asked \in Programs /\ pc' = "listing" /\ sent' /\ UNCHANGED <<vars, asked>>
      BY <2>1 DEF SendQuery, PhasesOK, DispatcherTypeOK
    <3>2. GetSubProgram(asked) = g
      BY <2>1, <3>1, <1>v DEF SinksAreRight
    <3> QED BY <3>1, <3>2 DEF vars, GetSubProgram
  <2>2. CASE \E j \in Nat : IsQuery(g, j)
    BY <2>2, <1>1, <1>3, <1>4
  <2> QED BY <1>4, <2>1, <2>2, QueryOrigins
<1>5. ASSUME NEW g \in Launchers, NEW h \in Launchers, NEW i \in Nat, NEW j \in Nat,
             IsQuery(g, i)', IsQuery(h, j)'
      PROVE  g = h /\ i = j
  <2>1. CASE SendQuery
    <3>1. \A k \in Launchers : \A n \in Nat : ~IsQuery(k, n)
      BY <2>1 DEF SendQuery, QueryOK
    <3> QED BY <1>5, <3>1, QueryOrigins
  <2>2. CASE ~SendQuery
    <3>1. /\ (IsQuery(g, i) /\ input'[g] = input[g]) \/ (IsQuery(g, i + 1) /\ LauncherRuns(g))
          /\ (IsQuery(h, j) /\ input'[h] = input[h]) \/ (IsQuery(h, j + 1) /\ LauncherRuns(h))
      BY <1>5, <2>2, QueryOrigins
    <3>2. g = h
      BY <3>1 DEF QueryOK
    <3>3. LauncherRuns(g) => input'[g] # input[g]
      BY DEF LauncherRuns, Reads, DispatcherTypeOK
    <3> QED BY <3>1, <3>2, <3>3 DEF QueryOK
  <2> QED BY <2>1, <2>2
<1> QED BY <1>4, <1>5 DEF QueryOK

\* Requests are numbered as they are made.
LEMMA RequestEffects ==
  ASSUME DispatcherTypeOK, [DispatcherNext]_allVars
  PROVE  \/ requests' = requests
         \/ /\ dispatcher_input = <<>> /\ requests' = requests + 1
            /\ \E n \in CommandNames \cup {List} : ClientRequests(n)
<1>1. CASE \E n \in CommandNames \cup {List} : ClientRequests(n)
  BY <1>1 DEF ClientRequests
<1>2. CASE \/ TakeCommand \/ ReadStatus \/ SendQuery \/ SendQueryFails \/ AllAsked \/ Forward
          \/ CommandFailedToRespond \/ RespondList \/ CommandNotFound \/ UNCHANGED allVars
          \/ (\E p \in to_ask : Ask(p)) \/ (\E g \in Launchers : StartLauncher(g))
          \/ (\E g \in Launchers : CloseLauncher(g)) \/ (\E g \in Launchers : EndLauncher(g))
          \/ (\E g \in Launchers : LauncherRuns(g)) \/ (\E g \in Launchers : LauncherLists(g))
          \/ (\E t \in Tasks : EndTask(t))
  BY <1>2
     DEF TakeCommand, ReadStatus, SendQuery, SendQueryFails, AllAsked, Forward, CommandFailedToRespond,
         Respond, RespondList, CommandNotFound, Ask, StartLauncher, CloseLauncher, EndLauncher,
         LauncherRuns, Reads, LauncherLists, EndTask, allVars, clientVars, launcherVars, dispatcherVars
<1> QED BY NextCases, <1>1, <1>2

\* The dispatcher takes requests in their order, and has one in hand until it passes it on
\* or replies.
LEMMA HandEffects ==
  ASSUME [DispatcherNext]_allVars
  PROVE  \/ UNCHANGED <<dispatcher_input, current>>
         \/ /\ TakeCommand /\ dispatcher_input # <<>>
            /\ current' = Head(dispatcher_input) /\ dispatcher_input' = Tail(dispatcher_input)
         \/ /\ \E n \in CommandNames \cup {List} : ClientRequests(n)
            /\ current' = current
         \/ /\ Forward \/ CommandFailedToRespond \/ RespondList \/ CommandNotFound
            /\ current' = None /\ dispatcher_input' = dispatcher_input
<1>1. CASE \/ TakeCommand \/ (\E n \in CommandNames \cup {List} : ClientRequests(n))
  BY <1>1 DEF ClientRequests, TakeCommand
<1>2. CASE \/ Forward \/ CommandFailedToRespond \/ RespondList \/ CommandNotFound
  BY <1>2 DEF Forward, CommandFailedToRespond, Respond, RespondList, CommandNotFound
<1>3. CASE \/ ReadStatus \/ SendQuery \/ SendQueryFails \/ AllAsked \/ UNCHANGED allVars
          \/ (\E p \in to_ask : Ask(p)) \/ (\E g \in Launchers : StartLauncher(g))
          \/ (\E g \in Launchers : CloseLauncher(g)) \/ (\E g \in Launchers : EndLauncher(g))
          \/ (\E g \in Launchers : LauncherRuns(g)) \/ (\E g \in Launchers : LauncherLists(g))
          \/ (\E t \in Tasks : EndTask(t))
  BY <1>3
     DEF ReadStatus, SendQuery, SendQueryFails, AllAsked, Ask, StartLauncher, CloseLauncher, EndLauncher,
         LauncherRuns, Reads, LauncherLists, EndTask, allVars, clientVars, launcherVars, dispatcherVars
<1> QED BY NextCases, <1>1, <1>2, <1>3

\* Messages keep their numbers.
LEMMA MessagesStep ==
  ASSUME DispatcherTypeOK, PhasesOK, MessagesOK, [DispatcherNext]_allVars
  PROVE  MessagesOK'
<1>v. /\ requests \in Nat /\ MaxRequests \in Nat /\ DOMAIN input = Launchers
      /\ dispatcher_input \in Seq(Messages) /\ \A g \in Launchers : input[g] \in Seq(Messages)
      /\ dispatcher_input' \in Seq(Messages)
      /\ current = None <=> pc = "idle"
  BY RequestTypes, DispatcherAssumption DEF DispatcherTypeOK
<1>1. requests' \in Nat /\ requests' >= requests
  BY <1>v, RequestEffects
<1>2. \A m \in Messages : MessageOK(m) => MessageOK(m)'
  BY <1>1, <1>v DEF MessageOK
<1>3. ASSUME NEW g \in Launchers, NEW i \in DOMAIN input'[g] PROVE MessageOK(input[g][i])'
  <2>1. \A j \in DOMAIN input[g] : input[g][j] \in Messages /\ MessageOK(input[g][j])
    BY <1>v DEF MessagesOK
  <2>2. \E m \in Messages : m = input'[g][i] /\ MessageOK(m)
    <3>1. CASE input'[g] = input[g]
      BY <2>1, <3>1
    <3>2. CASE input'[g] = Append(input[g], Message(0, List))
      <4>1. MessageOK(Message(0, List)) /\ Message(0, List) \in Messages
        BY MessageTypes DEF MessageOK, Message
      <4> QED BY <1>v, <2>1, <3>2, <4>1
    <3>3. CASE Forward /\ input'[g] = Append(input[g], current)
      <4>1. MessageOK(current) /\ current \in Messages
        BY <3>3, <1>v, MessageTypes DEF Forward, MessagesOK, MessageOK, PhasesOK
      <4> QED BY <1>v, <2>1, <3>3, <4>1
    <3>4. CASE Reads(g) /\ input'[g] = Tail(input[g])
      <4>1. input[g] # <<>>
        BY <3>4 DEF Reads
      <4> QED BY <1>v, <2>1, <3>4, <4>1
    <3> QED BY <3>1, <3>2, <3>3, <3>4, InputEffects
  <2> QED BY <2>2, <1>2 DEF MessageOK
<1>4. ASSUME NEW i \in DOMAIN dispatcher_input' PROVE dispatcher_input'[i].id \in 1..requests'
  <2>1. \A j \in DOMAIN dispatcher_input : dispatcher_input[j].id \in 1..requests'
    BY <1>v, <1>1 DEF MessagesOK
  <2>2. CASE dispatcher_input' = dispatcher_input
    BY <2>1, <2>2
  <2>3. CASE dispatcher_input # <<>> /\ dispatcher_input' = Tail(dispatcher_input)
    BY <2>1, <2>3, <1>v
  <2>4. CASE \E n \in CommandNames \cup {List} : ClientRequests(n)
    <3>1. PICK n \in CommandNames \cup {List} : ClientRequests(n)
      BY <2>4
    <3>2. /\ requests' = requests + 1 /\ dispatcher_input = <<>>
          /\ dispatcher_input' = <<[id |-> requests + 1, name |-> n]>>
      BY <3>1 DEF ClientRequests, Message
    <3> QED BY <1>v, <3>2
  <2> QED BY <2>2, <2>3, <2>4, HandEffects
<1>5. ASSUME current' # None PROVE current'.id \in 1..requests'
  <2>1. current' = current \/ (dispatcher_input # <<>> /\ current' = Head(dispatcher_input))
    BY <1>5, HandEffects
  <2>2. dispatcher_input # <<>> => Head(dispatcher_input).id \in 1..requests
    BY <1>v DEF MessagesOK
  <2> QED BY <1>5, <1>1, <1>v, <2>1, <2>2 DEF MessagesOK
<1> QED BY <1>3, <1>4, <1>5 DEF MessagesOK

\* The dispatcher comes to reply CommandNotFound when it has asked all programs.
LEMMA RepliesEffects ==
  ASSUME [DispatcherNext]_allVars, pc' = "forwarding", owner' = None
  PROVE  \/ AllAsked
         \/ pc = "forwarding" /\ owner = None /\ current' = current /\ present' \subseteq present
<1>1. CASE AllAsked
  BY <1>1
<1>2. CASE TakeCommand
  BY <1>2 DEF TakeCommand
<1>3. CASE \/ Forward \/ CommandFailedToRespond \/ RespondList \/ CommandNotFound
  BY <1>3 DEF Forward, CommandFailedToRespond, Respond, RespondList, CommandNotFound
<1>4. CASE \/ ReadStatus \/ SendQuery \/ SendQueryFails \/ UNCHANGED allVars
          \/ (\E p \in to_ask : Ask(p))
          \/ (\E n \in CommandNames \cup {List} : ClientRequests(n))
          \/ (\E g \in Launchers : StartLauncher(g)) \/ (\E g \in Launchers : CloseLauncher(g))
          \/ (\E g \in Launchers : EndLauncher(g)) \/ (\E g \in Launchers : LauncherRuns(g))
          \/ (\E g \in Launchers : LauncherLists(g)) \/ (\E t \in Tasks : EndTask(t))
  BY <1>4
     DEF ReadStatus, SendQuery, SendQueryFails, Ask, ClientRequests, StartLauncher, CloseLauncher,
         EndLauncher, LauncherRuns, Reads, LauncherLists, EndTask, allVars, clientVars, launcherVars,
         dispatcherVars
<1> QED BY NextCases, <1>1, <1>2, <1>3, <1>4

\* The reply CommandNotFound is right.
LEMMA OnlyOwnerStep ==
  ASSUME IInv, RunningOK, DispatcherTypeOK, PhasesOK, KnowledgeOK, OnlyOwnerIsFound,
         [DispatcherNext]_allVars
  PROVE  OnlyOwnerIsFound'
<1> SUFFICES ASSUME RepliesNotFound', NEW g \in present', Offering' = {g}, ~Restarted(g)'
             PROVE  FALSE
  BY DEF OnlyOwnerIsFound
<1>1. g \in Offering'
  OBVIOUS
<1>2. g \in Launchers /\ g \in Programs /\ None \notin Programs
  BY <1>1, DispatcherAssumption, TableAssumption DEF Offering
<1>3. ~Restarted(g)
  BY <1>2, FirstLives
<1>4. CASE pc = "forwarding" /\ owner = None /\ current' = current /\ present' \subseteq present
  BY <1>3, <1>4 DEF OnlyOwnerIsFound, RepliesNotFound, Offering
<1>5. CASE AllAsked
  <2>1. /\ current' = current /\ present' = present /\ to_ask = {} /\ asked = None
        /\ pc = "asking" /\ owner' = OwnerOf(current.name)
    BY <1>5 DEF AllAsked, PhasesOK
  <2>2. current \in Messages /\ current.name # List
    BY <2>1, MessageTypes DEF RepliesNotFound
  <2>3. PICK n \in CommandNames : n = current.name
    BY <2>2 DEF Messages
  <2>4. OffersAlone(g, n)
    BY <2>1, <2>3 DEF Offering, OffersAlone
  <2>5. g \in Seen /\ Open(g) /\ FirstLife(g)
    BY <1>2, <1>3, <2>1 DEF PhasesOK, RunningOK, Up, Open, Seen, FirstLife
  <2>6. commands[n] # None /\ GetSubProgram(commands[n]) = g
    BY <1>2, <1>3, <2>4, <2>5 DEF KnowledgeOK, SeenIsKnown, OwnerLeadsThere
  <2>7. OwnerOf(n) = commands[n]
    BY <1>2, <2>2, <2>3, <2>6 DEF OwnerOf, CanSendTo
  <2> QED BY <2>1, <2>3, <2>6, <2>7 DEF RepliesNotFound
<1> QED BY <1>4, <1>5, RepliesEffects DEF RepliesNotFound

----------------------------------------------------------------------------
(* Requests are in one place. *)

\* When a launcher reads a message, the others move on.
LEMMA ReadMoves ==
  ASSUME DispatcherTypeOK, NEW g \in Launchers, input[g] # <<>>, input' = [input EXCEPT ![g] = Tail(@)],
         NEW id \in Nat
  PROVE  /\ \A h \in Launchers, i \in Nat :
              At(h, i, id)' <=> IF h = g THEN At(g, i + 1, id) /\ i # 0 ELSE At(h, i, id)
         /\ At(g, 1, id) <=> Head(input[g]).id = id
         /\ \A h \in Launchers : ~At(h, 0, id)
<1>v. DOMAIN input = Launchers /\ \A h \in Launchers : input[h] \in Seq(Messages)
  BY DEF DispatcherTypeOK
<1>1. \A h \in Launchers : input'[h] = IF h = g THEN Tail(input[g]) ELSE input[h]
  BY <1>v
<1>2. ASSUME NEW h \in Launchers, NEW i \in Nat
      PROVE  At(h, i, id)' <=> IF h = g THEN At(g, i + 1, id) /\ i # 0 ELSE At(h, i, id)
  BY <1>1, <1>v DEF At
<1> QED BY <1>2, <1>v DEF At

\* A request that is not read stays in one place or in none, and one that is read is in none.
LEMMA ReadKeepsPlaces ==
  ASSUME DispatcherTypeOK, NEW g \in Launchers, input[g] # <<>>, input' = [input EXCEPT ![g] = Tail(@)],
         NEW id \in Nat
  PROVE  /\ (\A h \in Launchers, i \in Nat : ~At(h, i, id)) => \A h \in Launchers, i \in Nat : ~At(h, i, id)'
         /\ OneAt(id) => IF Head(input[g]).id = id THEN \A h \in Launchers, i \in Nat : ~At(h, i, id)'
                         ELSE OneAt(id)'
<1>m. /\ \A h \in Launchers, i \in Nat :
              At(h, i, id)' <=> IF h = g THEN At(g, i + 1, id) /\ i # 0 ELSE At(h, i, id)
      /\ At(g, 1, id) <=> Head(input[g]).id = id
      /\ \A h \in Launchers : ~At(h, 0, id)
  BY ReadMoves
<1>1. ASSUME \A h \in Launchers, i \in Nat : ~At(h, i, id)
      PROVE  \A h \in Launchers, i \in Nat : ~At(h, i, id)'
  BY <1>1, <1>m
<1>2. ASSUME OneAt(id)
      PROVE  IF Head(input[g]).id = id THEN \A h \in Launchers, i \in Nat : ~At(h, i, id)' ELSE OneAt(id)'
  <2>1. PICK k \in Launchers, n \in Nat : \A h \in Launchers, i \in Nat : At(h, i, id) <=> h = k /\ i = n
    BY <1>2 DEF OneAt
  <2>2. CASE Head(input[g]).id = id
    <3>1. k = g /\ n = 1
      BY <1>m, <2>1, <2>2
    <3> QED BY <1>m, <2>1, <2>2, <3>1
  <2>3. CASE Head(input[g]).id # id
    <3>1. n # 0 /\ (k = g => n # 1)
      BY <1>m, <2>1, <2>3
    <3>2. PICK j \in Nat : j = IF k = g THEN n - 1 ELSE n
      BY <3>1
    <3>3. \A h \in Launchers, i \in Nat : At(h, i, id)' <=> h = k /\ i = j
      BY <1>m, <2>1, <3>1, <3>2
    <3> QED BY <2>3, <3>3 DEF OneAt
  <2> QED BY <2>2, <2>3
<1> QED BY <1>1, <1>2

\* A message that is sent is in one place, and the others stay.
LEMMA SendKeepsPlaces ==
  ASSUME DispatcherTypeOK, NEW g \in Launchers, NEW m \in Messages,
         input' = [input EXCEPT ![g] = Append(@, m)], NEW id \in Nat
  PROVE  /\ m.id # id => \A h \in Launchers, i \in Nat : At(h, i, id)' <=> At(h, i, id)
         /\ (m.id = id /\ \A h \in Launchers, i \in Nat : ~At(h, i, id)) => OneAt(id)'
<1>v. DOMAIN input = Launchers /\ \A h \in Launchers : input[h] \in Seq(Messages)
  BY DEF DispatcherTypeOK
<1>1. \A h \in Launchers : input'[h] = IF h = g THEN Append(input[g], m) ELSE input[h]
  BY <1>v
<1>2. ASSUME NEW h \in Launchers, NEW i \in Nat
      PROVE  At(h, i, id)' <=> At(h, i, id) \/ (h = g /\ i = Len(input[g]) + 1 /\ m.id = id)
  BY <1>1, <1>v DEF At
<1>3. ASSUME m.id = id, \A h \in Launchers, i \in Nat : ~At(h, i, id)
      PROVE  OneAt(id)'
  <2>1. PICK n \in Nat : n = Len(input[g]) + 1
    BY <1>v
  <2>2. \A h \in Launchers, i \in Nat : At(h, i, id)' <=> h = g /\ i = n
    BY <1>2, <1>3, <2>1
  <2> QED BY <2>2 DEF OneAt
<1>4. ASSUME m.id # id
      PROVE  \A h \in Launchers, i \in Nat : At(h, i, id)' <=> At(h, i, id)
  BY <1>2, <1>4
<1> QED BY <1>3, <1>4

\* Answers are given by launchers that read a request, and by the dispatcher.
LEMMA AnswerEffects ==
  ASSUME DispatcherTypeOK, [DispatcherNext]_allVars
  PROVE  \/ answers' = answers
         \/ \E g \in Launchers : LauncherRuns(g)
         \/ CommandFailedToRespond \/ RespondList \/ CommandNotFound
<1>1. CASE \/ CommandFailedToRespond \/ RespondList \/ CommandNotFound
          \/ (\E g \in Launchers : LauncherRuns(g))
  BY <1>1
<1>2. CASE \/ TakeCommand \/ ReadStatus \/ SendQuery \/ SendQueryFails \/ AllAsked \/ Forward
          \/ UNCHANGED allVars \/ (\E p \in to_ask : Ask(p))
          \/ (\E n \in CommandNames \cup {List} : ClientRequests(n))
          \/ (\E g \in Launchers : StartLauncher(g)) \/ (\E g \in Launchers : CloseLauncher(g))
          \/ (\E g \in Launchers : EndLauncher(g)) \/ (\E g \in Launchers : LauncherLists(g))
          \/ (\E t \in Tasks : EndTask(t))
  BY <1>2
     DEF TakeCommand, ReadStatus, SendQuery, SendQueryFails, AllAsked, Forward, Ask, ClientRequests,
         StartLauncher, CloseLauncher, EndLauncher, LauncherLists, Reads, EndTask, allVars, clientVars,
         launcherVars, dispatcherVars
<1> QED BY NextCases, <1>1, <1>2

\* Where the requests are in the dispatcher's input does not change if that does not.
LEMMA SameQueue ==
  ASSUME dispatcher_input' = dispatcher_input, NEW id
  PROVE  /\ OneInQueue(id)' <=> OneInQueue(id)
         /\ \A i : InQueue(i, id)' <=> InQueue(i, id)
  BY DEF OneInQueue, InQueue

\* The same for the launchers' inputs.
LEMMA SamePlaces ==
  ASSUME NEW id, \A h \in Launchers, i \in Nat : At(h, i, id)' <=> At(h, i, id)
  PROVE  OneAt(id)' <=> OneAt(id)
<1>1. ASSUME OneAt(id) PROVE OneAt(id)'
  <2>1. PICK g \in Launchers, n \in Nat : \A h \in Launchers, i \in Nat : At(h, i, id) <=> h = g /\ i = n
    BY <1>1 DEF OneAt
  <2>2. \A h \in Launchers, i \in Nat : At(h, i, id)' <=> h = g /\ i = n
    BY <2>1
  <2> QED BY <2>2 DEF OneAt
<1>2. ASSUME OneAt(id)' PROVE OneAt(id)
  <2>1. PICK g \in Launchers, n \in Nat : \A h \in Launchers, i \in Nat : At(h, i, id)' <=> h = g /\ i = n
    BY <1>2 DEF OneAt
  <2>2. \A h \in Launchers, i \in Nat : At(h, i, id) <=> h = g /\ i = n
    BY <2>1
  <2> QED BY <2>2 DEF OneAt
<1> QED BY <1>1, <1>2

\* Every request stays in one place, or goes to another.
LEMMA PlacesStep ==
  ASSUME IInv, RunningOK, DispatcherTypeOK, PhasesOK, MessagesOK, QueryOK, AllInPlace,
         [DispatcherNext]_allVars
  PROVE  AllInPlace'
<1> SUFFICES ASSUME NEW id \in 1..MaxRequests
             PROVE  IF id <= requests' THEN InPlace(id)' ELSE answers'[id] = 0
  BY DEF AllInPlace
<1>v. /\ requests \in 0..MaxRequests /\ MaxRequests \in Nat /\ DOMAIN input = Launchers
      /\ dispatcher_input \in Seq(Messages) /\ \A g \in Launchers : input[g] \in Seq(Messages)
      /\ answers \in [1..MaxRequests -> Nat]
      /\ current = None <=> pc = "idle"
      /\ id \in Nat /\ id # 0
  BY DispatcherAssumption DEF DispatcherTypeOK
<1>p. IF id <= requests THEN InPlace(id) ELSE answers[id] = 0
  BY DEF AllInPlace
<1>1. CASE \E n \in CommandNames \cup {List} : ClientRequests(n)
  <2>1. PICK n \in CommandNames \cup {List} : ClientRequests(n)
    BY <1>1
  <2>2. /\ dispatcher_input = <<>> /\ requests' = requests + 1
        /\ dispatcher_input' = <<[id |-> requests + 1, name |-> n]>>
        /\ UNCHANGED <<input, current, answers>>
    BY <2>1 DEF ClientRequests, Message, launcherVars
  <2>3. \A i \in Nat : InQueue(i, id)' <=> i = 1 /\ id = requests + 1
    BY <2>2, <1>v DEF InQueue
  <2>4. \A i \in Nat : ~InQueue(i, id)
    BY <2>2 DEF InQueue
  <2>5. ~OneInQueue(id)
    BY <2>4 DEF OneInQueue
  <2>6. (\A g \in Launchers, i \in Nat : At(g, i, id)' <=> At(g, i, id)) /\ (IsCurrent(id)' <=> IsCurrent(id))
        /\ (OneAt(id)' <=> OneAt(id))
    BY <2>2 DEF At, OneAt, IsCurrent
  <2>7. CASE id <= requests
    BY <1>p, <1>v, <2>2, <2>3, <2>4, <2>5, <2>6, <2>7 DEF InPlace
  <2>8. CASE id = requests + 1
    <3>1. \A g \in Launchers, i \in Nat : ~At(g, i, id)
      BY <2>8, <1>v DEF At, MessagesOK, MessageOK
    <3>2. ~IsCurrent(id)
      BY <2>8, <1>v DEF IsCurrent, MessagesOK
    <3>3. OneInQueue(id)'
      BY <2>3, <2>8 DEF OneInQueue
    <3> QED BY <1>p, <1>v, <2>2, <2>6, <2>8, <3>1, <3>2, <3>3 DEF InPlace
  <2>9. CASE id > requests + 1
    BY <1>p, <1>v, <2>2, <2>9
  <2> QED BY <1>v, <2>7, <2>8, <2>9
<1>2. CASE TakeCommand
  <2>1. /\ dispatcher_input # <<>> /\ current' = Head(dispatcher_input)
        /\ dispatcher_input' = Tail(dispatcher_input)
        /\ UNCHANGED <<input, requests, answers>> /\ pc = "idle" /\ current' # None
    BY <1>2, MessageTypes DEF TakeCommand, launcherVars, clientVars
  <2>2. /\ \A i \in Nat : InQueue(i, id)' <=> InQueue(i + 1, id) /\ i # 0
        /\ InQueue(1, id) <=> Head(dispatcher_input).id = id
        /\ ~InQueue(0, id)
    BY <2>1, <1>v DEF InQueue
  <2>3. ~IsCurrent(id) /\ (IsCurrent(id)' <=> Head(dispatcher_input).id = id)
    BY <2>1, <1>v DEF IsCurrent
  <2>4. (\A g \in Launchers, i \in Nat : At(g, i, id)' <=> At(g, i, id)) /\ (OneAt(id)' <=> OneAt(id))
    BY <2>1 DEF At, OneAt
  <2>5. CASE ~(id <= requests)
    BY <1>p, <2>1, <2>5
  <2>6. CASE id <= requests /\ \A i \in Nat : ~InQueue(i, id)
    <3>1. ~OneInQueue(id)
      BY <2>6 DEF OneInQueue
    <3> QED BY <1>p, <2>1, <2>2, <2>3, <2>4, <2>6, <3>1 DEF InPlace
  <2>7. CASE id <= requests /\ OneInQueue(id)
    <3>1. PICK n \in Nat : \A j \in Nat : InQueue(j, id) <=> j = n
      BY <2>7 DEF OneInQueue
    <3>2. CASE n = 1
      BY <1>p, <2>1, <2>2, <2>3, <2>4, <2>7, <3>1, <3>2 DEF InPlace
    <3>3. CASE n # 1
      <4>1. n - 1 \in Nat /\ \A j \in Nat : InQueue(j, id)' <=> j = n - 1
        BY <2>2, <3>1, <3>3
      <4>2. OneInQueue(id)' /\ ~IsCurrent(id)'
        BY <2>2, <2>3, <3>1, <3>3, <4>1 DEF OneInQueue
      <4> QED BY <1>p, <2>1, <2>4, <2>7, <3>1, <4>2 DEF InPlace
    <3> QED BY <3>2, <3>3
  <2> QED BY <1>p, <2>5, <2>6, <2>7 DEF InPlace
<1>3. CASE Forward
  <2>1. PICK g \in Launchers : g = sink[owner]
    BY <1>3 DEF Forward, Takes, Up
  <2>2. /\ input' = [input EXCEPT ![g] = Append(@, current)] /\ current \in Messages /\ current # None
        /\ current' = None /\ UNCHANGED <<dispatcher_input, requests, answers>>
    BY <1>3, <1>v, <2>1, MessageTypes DEF Forward, clientVars
  <2>3. /\ current.id # id => \A h \in Launchers, i \in Nat : At(h, i, id)' <=> At(h, i, id)
        /\ (current.id = id /\ \A h \in Launchers, i \in Nat : ~At(h, i, id)) => OneAt(id)'
    BY <1>v, <2>2, SendKeepsPlaces
  <2>4. ~IsCurrent(id)' /\ (IsCurrent(id) <=> current.id = id)
    BY <2>2 DEF IsCurrent
  <2>5. ASSUME current.id # id PROVE OneAt(id)' <=> OneAt(id)
    <3>1. \A h \in Launchers, i \in Nat : At(h, i, id)' <=> At(h, i, id)
      BY <2>3, <2>5
    <3> QED BY <3>1, SamePlaces
  <2> QED BY <1>p, <2>2, <2>3, <2>4, <2>5, SameQueue DEF InPlace
<1>4. CASE CommandFailedToRespond \/ RespondList \/ CommandNotFound
  <2>1. /\ current # None /\ answers' = [answers EXCEPT ![current.id] = @ + 1]
        /\ current' = None /\ UNCHANGED <<dispatcher_input, requests, input>>
    BY <1>4, <1>v
       DEF CommandFailedToRespond, RespondList, CommandNotFound, Respond, Answered, launcherVars
  <2>2. ~IsCurrent(id)' /\ (IsCurrent(id) <=> current.id = id) /\ current.id \in 1..requests
    BY <2>1 DEF IsCurrent, MessagesOK
  <2>3. answers'[id] = IF current.id = id THEN answers[id] + 1 ELSE answers[id]
    BY <2>1, <1>v
  <2>4. (\A g \in Launchers, i \in Nat : At(g, i, id)' <=> At(g, i, id)) /\ (OneAt(id)' <=> OneAt(id))
    BY <2>1 DEF At, OneAt
  <2>5. /\ OneInQueue(id)' <=> OneInQueue(id)
        /\ \A i \in Nat : InQueue(i, id)' <=> InQueue(i, id)
    BY <2>1 DEF OneInQueue, InQueue
  <2>6. CASE current.id = id
    BY <1>p, <1>v, <2>1, <2>2, <2>3, <2>4, <2>5, <2>6 DEF InPlace
  <2>7. CASE current.id # id
    BY <1>p, <1>v, <2>1, <2>2, <2>3, <2>4, <2>5, <2>7 DEF InPlace
  <2> QED BY <2>6, <2>7
<1>5. ASSUME NEW g \in Launchers, LauncherRuns(g)
      PROVE  IF id <= requests' THEN InPlace(id)' ELSE answers'[id] = 0
  <2>1. /\ input[g] # <<>> /\ input' = [input EXCEPT ![g] = Tail(@)]
        /\ UNCHANGED <<dispatcher_input, current, requests>>
        /\ answers' = [answers EXCEPT ![Head(input[g]).id] = @ + 1] /\ Head(input[g]).name # List
    BY <1>5, DispatcherAssumption DEF LauncherRuns, Reads, Answered, dispatcherVars
  <2>2. Head(input[g]).id \in 1..requests
    BY <1>v, <2>1 DEF MessagesOK, MessageOK
  <2>3. answers'[id] = IF Head(input[g]).id = id THEN answers[id] + 1 ELSE answers[id]
    BY <2>1, <1>v
  <2>4. At(g, 1, id) <=> Head(input[g]).id = id
    BY <1>v, <2>1 DEF At
  <2>5. /\ (\A h \in Launchers, i \in Nat : ~At(h, i, id)) => \A h \in Launchers, i \in Nat : ~At(h, i, id)'
        /\ OneAt(id) => IF Head(input[g]).id = id THEN \A h \in Launchers, i \in Nat : ~At(h, i, id)'
                        ELSE OneAt(id)'
    BY <1>v, <2>1, ReadKeepsPlaces
  <2>6. IsCurrent(id)' <=> IsCurrent(id)
    BY <2>1 DEF IsCurrent
  <2>7. (OneInQueue(id)' <=> OneInQueue(id)) /\ \A i \in Nat : InQueue(i, id)' <=> InQueue(i, id)
    BY <2>1, SameQueue
  <2>8. CASE Head(input[g]).id = id
    <3>1. id <= requests /\ InPlace(id) /\ At(g, 1, id)
      BY <1>p, <1>v, <2>2, <2>4, <2>8
    <3>2. answers[id] = 0 /\ (\A i \in Nat : ~InQueue(i, id)) /\ OneAt(id) /\ ~IsCurrent(id)
      BY <3>1 DEF InPlace
    <3>3. answers'[id] = 1
      BY <2>3, <2>8, <3>2
    <3> QED BY <2>1, <2>5, <2>6, <2>7, <2>8, <3>1, <3>2, <3>3 DEF InPlace
  <2>9. CASE Head(input[g]).id # id
    <3>1. answers'[id] = answers[id] /\ (OneAt(id) => OneAt(id)') /\ requests' = requests
      BY <2>1, <2>3, <2>5, <2>9
    <3> QED BY <1>p, <2>5, <2>6, <2>7, <3>1 DEF InPlace
  <2> QED BY <2>8, <2>9
<1>6. CASE /\ UNCHANGED <<dispatcher_input, current, requests, answers>>
           /\ \/ input' = input
              \/ \E g \in Launchers : LauncherLists(g)
              \/ SendQuery
  <2>1. ASSUME NEW g \in Launchers, LauncherLists(g)
        PROVE  /\ (\A h \in Launchers, i \in Nat : ~At(h, i, id)) => \A h \in Launchers, i \in Nat : ~At(h, i, id)'
               /\ OneAt(id) => OneAt(id)'
    <3>1. /\ input[g] # <<>> /\ input' = [input EXCEPT ![g] = Tail(@)] /\ Head(input[g]).name = List
      BY <2>1 DEF LauncherLists, Reads
    <3>2. Head(input[g]).id # id
      BY <1>v, <3>1 DEF MessagesOK, MessageOK
    <3> QED BY <1>v, <3>1, <3>2, ReadKeepsPlaces
  <2>2. ASSUME SendQuery
        PROVE  /\ (\A h \in Launchers, i \in Nat : ~At(h, i, id)) => \A h \in Launchers, i \in Nat : ~At(h, i, id)'
               /\ OneAt(id) => OneAt(id)'
    <3>1. PICK g \in Launchers : g = sink[asked]
      BY <2>2 DEF SendQuery, Takes, Up
    <3>2. /\ input' = [input EXCEPT ![g] = Append(@, Message(0, List))] /\ Message(0, List).id = 0
      BY <2>2, <3>1 DEF SendQuery, Message
    <3>3. \A h \in Launchers, i \in Nat : At(h, i, id)' <=> At(h, i, id)
      BY <1>v, <3>2, MessageTypes, SendKeepsPlaces
    <3> QED BY <3>3 DEF OneAt
  <2>3. CASE input' = input
    <3>1. (\A g \in Launchers, i \in Nat : At(g, i, id)' <=> At(g, i, id)) /\ (OneAt(id)' <=> OneAt(id))
      BY <2>3 DEF At, OneAt
    <3> QED BY <1>p, <1>6, <3>1, SameQueue DEF InPlace, IsCurrent
  <2> QED BY <1>p, <1>6, <2>1, <2>2, <2>3, SameQueue DEF InPlace, IsCurrent
<1>7. ASSUME ~(\E n \in CommandNames \cup {List} : ClientRequests(n)), ~TakeCommand, ~Forward,
             ~(CommandFailedToRespond \/ RespondList \/ CommandNotFound),
             ~(\E g \in Launchers : LauncherRuns(g)), ~(\E g \in Launchers : LauncherLists(g)), ~SendQuery
      PROVE  UNCHANGED <<dispatcher_input, current, requests, answers, input>>
  BY <1>7, NextCases
     DEF ReadStatus, SendQueryFails, AllAsked, Ask, StartLauncher, CloseLauncher, EndLauncher, EndTask,
         allVars, clientVars, launcherVars, dispatcherVars
<1>8. UNCHANGED <<dispatcher_input, current, requests, answers>>
      \/ (\E n \in CommandNames \cup {List} : ClientRequests(n)) \/ TakeCommand \/ Forward
      \/ (CommandFailedToRespond \/ RespondList \/ CommandNotFound) \/ (\E g \in Launchers : LauncherRuns(g))
  BY HandEffects, RequestEffects, AnswerEffects
<1> QED BY <1>1, <1>2, <1>3, <1>4, <1>5, <1>6, <1>7, <1>8

----------------------------------------------------------------------------
(* The invariant. *)

\* It holds at the start: the launchers of First run, and nothing was asked or sent.
LEMMA InitDispatcherInv == DispatcherInit => DispatcherInv
<1> SUFFICES ASSUME DispatcherInit PROVE DispatcherInv
  OBVIOUS
<1>a. /\ Len(First) \in Nat /\ MaxHandles \in Nat /\ Len(First) < MaxHandles
      /\ \A i \in 1..Len(First) : First[i] \in Launchers
      /\ \A i, j \in 1..Len(First) : First[i] = First[j] => i = j
      /\ Dispatcher \in Programs \ Launchers /\ Launchers \subseteq Programs /\ None \notin Programs
      /\ Tasks \subseteq Programs /\ Dispatcher \notin Tasks /\ Launchers \cap Tasks = {}
      /\ None \notin Handles
  BY DispatcherAssumption, TableAssumption DEF IsInjective, Handles
<1>1. /\ DOMAIN sub_programs = Handles /\ DOMAIN handle_of = Programs
      /\ \A h \in Handles : sub_programs[h] = IF h = 0 THEN Dispatcher ELSE IF h <= Len(First) THEN First[h] ELSE None
  BY DEF DispatcherInit
<1>2. \A h, i \in Handles : sub_programs[h] # None /\ sub_programs[h] = sub_programs[i] => h = i
  BY <1>a, <1>1 DEF Handles
<1>3. ASSUME NEW g \in Programs
      PROVE  /\ handle_of[g] # None => handle_of[g] \in Handles /\ sub_programs[handle_of[g]] = g
             /\ \A h \in Handles : sub_programs[h] = g => handle_of[g] = h
  <2>1. handle_of[g] = IF \E h \in Handles : sub_programs[h] = g
                       THEN CHOOSE h \in Handles : sub_programs[h] = g ELSE None
    BY DEF DispatcherInit
  <2>2. CASE \E h \in Handles : sub_programs[h] = g
    <3>1. handle_of[g] \in Handles /\ sub_programs[handle_of[g]] = g
      BY <2>1, <2>2
    <3> QED BY <1>2, <1>a, <3>1
  <2>3. CASE ~\E h \in Handles : sub_programs[h] = g
    BY <2>1, <2>3
  <2> QED BY <2>2, <2>3
<1>4. /\ program_indexes = handle_of /\ panicked = None /\ next_subprogram = 1 + Len(First)
      /\ handle_of \in [Programs -> Handles \cup {None}]
      /\ sub_programs \in [Handles -> Programs \cup {None}]
  <2>1. handle_of = [g \in Programs |-> handle_of[g]] /\ sub_programs = [h \in Handles |-> sub_programs[h]]
    BY DEF DispatcherInit
  <2>2. \A h \in Handles : sub_programs[h] \in Programs \cup {None}
    BY <1>a, <1>1 DEF Handles
  <2>3. \A g \in Programs : handle_of[g] \in Handles \cup {None}
    BY <1>3
  <2> QED BY <2>1, <2>2, <2>3 DEF DispatcherInit
<1>5. IInv
  <2>1. TypeOK
    BY <1>4, <1>a, TableAssumption DEF TypeOK
  <2>2. NextSubprogramIsLowestFree
    BY <1>1, <1>4, <1>a DEF NextSubprogramIsLowestFree, Handles
  <2>3. RunningProgramIsFound
    BY <1>3, <1>4, <1>a DEF RunningProgramIsFound, Running, GetSubProgram, GetRunningSubprograms
  <2>4. EntriesAreOwned
    BY <1>1, <1>3, <1>4, <1>a DEF EntriesAreOwned
  <2> QED BY <2>1, <2>2, <2>3, <2>4 DEF IInv
<1>6. /\ input = [g \in Launchers |-> <<>>] /\ closed = {} /\ starts = [g \in Launchers |-> 0]
      /\ dispatcher_input = <<>> /\ requests = 0 /\ answers = [i \in 1..MaxRequests |-> 0]
      /\ pc = "idle" /\ current = None /\ commands = [n \in CommandNames |-> None]
      /\ subprograms = {} /\ active = {} /\ to_ask = {} /\ asked = None /\ task = None /\ sent = FALSE
      /\ owner = None /\ sink = [g \in Programs |-> None] /\ present = {}
  BY DEF DispatcherInit
<1>7. DispatcherTypeOK
  <2>1. /\ input \in [Launchers -> Seq(Messages)] /\ dispatcher_input \in Seq(Messages)
        /\ starts \in [Launchers -> Nat] /\ requests \in 0..MaxRequests
    BY <1>6, DispatcherAssumption
  <2>2. /\ answers \in [1..MaxRequests -> Nat] /\ commands \in [CommandNames -> Programs \cup {None}]
        /\ sink \in [Programs -> Programs \cup {None, Disconnected, Dead}]
    BY <1>6
  <2> QED BY <1>6, <2>1, <2>2 DEF DispatcherTypeOK
<1>8. RunningOK
  BY <1>4, <1>6 DEF RunningOK
<1>9. PhasesOK /\ MessagesOK /\ QueryOK /\ OnlyOwnerIsFound
  BY <1>6 DEF PhasesOK, MessagesOK, QueryOK, IsQuery, OnlyOwnerIsFound, RepliesNotFound
<1>10. SinksAreRight /\ FirstSinkIsRight /\ SeenIsKnown /\ OwnerLeadsThere
  BY <1>6, <1>a, DispatcherAssumption
     DEF SinksAreRight, FirstSinkIsRight, SeenIsKnown, OwnerLeadsThere, Seen, Open
<1>11. NeverStartedIsUnknown
  <2>1. ASSUME NEW g \in Launchers, g \notin ToSet(First) PROVE handle_of[g] = None
    <3>1. \A h \in Handles : sub_programs[h] # g
      BY <1>a, <1>1, <2>1 DEF ToSet, Handles
    <3> QED BY <1>3, <1>a, <3>1
  <2> QED BY <1>4, <1>6, <1>a, <2>1 DEF NeverStartedIsUnknown, NeverStarted
<1>12. AllInPlace
  BY <1>6, DispatcherAssumption DEF AllInPlace
<1> QED BY <1>5, <1>7, <1>8, <1>9, <1>10, <1>11, <1>12 DEF DispatcherInv, TablesOK, KnowledgeOK

\* Every step keeps it.
LEMMA DispatcherStepInv == DispatcherInv /\ [DispatcherNext]_allVars => DispatcherInv'
<1> SUFFICES ASSUME DispatcherInv, [DispatcherNext]_allVars PROVE DispatcherInv'
  OBVIOUS
<1>1. /\ IInv /\ DispatcherTypeOK /\ RunningOK /\ PhasesOK /\ MessagesOK /\ QueryOK /\ KnowledgeOK
      /\ SinksAreRight /\ FirstSinkIsRight /\ NeverStartedIsUnknown /\ SeenIsKnown /\ OwnerLeadsThere
      /\ OnlyOwnerIsFound /\ AllInPlace
  BY DEF DispatcherInv, TablesOK, KnowledgeOK
<1>2. TablesOK'
  BY <1>1, TableStep, TypeStep, RunningStep DEF TablesOK
<1>3. PhasesOK' /\ MessagesOK' /\ QueryOK'
  BY <1>1, PhasesStep, MessagesStep, QueryStep
<1>4. KnowledgeOK'
  BY <1>1, SinksStep, FirstSinkStep, NeverStartedStep, SeenStep, OwnerStep DEF KnowledgeOK
<1>5. OnlyOwnerIsFound' /\ AllInPlace'
  BY <1>1, OnlyOwnerStep, PlacesStep
<1> QED BY <1>2, <1>3, <1>4, <1>5 DEF DispatcherInv

\* DispatcherInv is an invariant of the dispatcher, its clients, launchers and tasks.
THEOREM DispatcherInvariance == DispatcherSpec => []DispatcherInv
  BY InitDispatcherInv, DispatcherStepInv, PTL DEF DispatcherSpec

\* What the dispatcher knows is always enough to reply: of the commands that exactly one program
\* offers, one that has been running since the request was taken, and runs for the first time, is
\* never said to be unknown.
THEOREM DispatcherStaysSound == DispatcherSpec => []DispatcherIsSound
<1>1. DispatcherInv => DispatcherIsSound
  BY DEF DispatcherInv, TablesOK, IInv, DispatcherIsSound
<1> QED BY <1>1, DispatcherInvariance, PTL

\* A request in one place is in the queue once, or in one launcher's input once.
LEMMA PlacesAreCounted ==
  ASSUME DispatcherTypeOK, NEW id \in Nat
  PROVE  /\ (\A i \in Nat : ~InQueue(i, id)) => Cardinality(Waiting(dispatcher_input, id)) = 0
         /\ OneInQueue(id) => Cardinality(Waiting(dispatcher_input, id)) = 1
         /\ (\A g \in Launchers, i \in Nat : ~At(g, i, id)) => Cardinality(Forwarded(id)) = 0
         /\ OneAt(id) => Cardinality(Forwarded(id)) = 1
<1>v. dispatcher_input \in Seq(Messages) /\ \A g \in Launchers : input[g] \in Seq(Messages)
  BY DEF DispatcherTypeOK
<1>1. \A i : i \in Waiting(dispatcher_input, id) <=> i \in Nat /\ InQueue(i, id)
  BY <1>v DEF Waiting, InQueue
<1>2. \A x : x \in Forwarded(id) <=> \E g \in Launchers, i \in Nat : At(g, i, id) /\ x = <<g, i>>
  <2>1. ASSUME NEW x, x \in Forwarded(id)
        PROVE  \E g \in Launchers, i \in Nat : At(g, i, id) /\ x = <<g, i>>
    <3>1. PICK g \in Launchers : x \in {g} \X Waiting(input[g], id)
      BY <2>1 DEF Forwarded
    <3>2. PICK i \in Waiting(input[g], id) : x = <<g, i>>
      BY <3>1
    <3>3. i \in Nat /\ At(g, i, id)
      BY <1>v, <3>2 DEF Waiting, At
    <3> QED BY <3>2, <3>3
  <2>2. ASSUME NEW g \in Launchers, NEW i \in Nat, At(g, i, id) PROVE <<g, i>> \in Forwarded(id)
    BY <2>2 DEF Forwarded, Waiting, At
  <2> QED BY <2>1, <2>2
<1>3. ASSUME \A i \in Nat : ~InQueue(i, id) PROVE Cardinality(Waiting(dispatcher_input, id)) = 0
  <2>1. Waiting(dispatcher_input, id) = {}
    BY <1>1, <1>3
  <2> QED BY <2>1, FS_EmptySet
<1>4. ASSUME OneInQueue(id) PROVE Cardinality(Waiting(dispatcher_input, id)) = 1
  <2>1. PICK n \in Nat : \A j \in Nat : InQueue(j, id) <=> j = n
    BY <1>4 DEF OneInQueue
  <2>2. Waiting(dispatcher_input, id) = {n}
    BY <1>1, <2>1
  <2> QED BY <2>2, FS_Singleton
<1>5. ASSUME \A g \in Launchers, i \in Nat : ~At(g, i, id) PROVE Cardinality(Forwarded(id)) = 0
  <2>1. Forwarded(id) = {}
    BY <1>2, <1>5
  <2> QED BY <2>1, FS_EmptySet
<1>6. ASSUME OneAt(id) PROVE Cardinality(Forwarded(id)) = 1
  <2>1. PICK g \in Launchers, n \in Nat : \A h \in Launchers, j \in Nat : At(h, j, id) <=> h = g /\ j = n
    BY <1>6 DEF OneAt
  <2>2. Forwarded(id) = {<<g, n>>}
    BY <1>2, <2>1
  <2> QED BY <2>2, FS_Singleton
<1> QED BY <1>3, <1>4, <1>5, <1>6

\* Each request has exactly one response, or is in exactly one place on the way to it: none is
\* lost, doubled or answered twice, whatever starts and ends meanwhile.
THEOREM RequestsAreKept == DispatcherSpec => []EveryRequestInOnePlace
<1>1. ASSUME DispatcherInv PROVE EveryRequestInOnePlace
  <2> SUFFICES ASSUME NEW id \in 1..requests
               PROVE  1 = answers[id] + Cardinality(Waiting(dispatcher_input, id)) + Cardinality(Forwarded(id))
                          + (IF IsCurrent(id) THEN 1 ELSE 0)
    BY DEF EveryRequestInOnePlace
  <2>1. DispatcherTypeOK /\ AllInPlace
    BY <1>1 DEF DispatcherInv, TablesOK
  <2>2. id \in Nat /\ id \in 1..MaxRequests /\ id <= requests
    BY <2>1, DispatcherAssumption DEF DispatcherTypeOK
  <2>3. InPlace(id)
    BY <2>1, <2>2 DEF AllInPlace
  <2>4. /\ (\A i \in Nat : ~InQueue(i, id)) => Cardinality(Waiting(dispatcher_input, id)) = 0
        /\ OneInQueue(id) => Cardinality(Waiting(dispatcher_input, id)) = 1
        /\ (\A g \in Launchers, i \in Nat : ~At(g, i, id)) => Cardinality(Forwarded(id)) = 0
        /\ OneAt(id) => Cardinality(Forwarded(id)) = 1
    BY <2>1, <2>2, PlacesAreCounted
  <2> QED BY <2>3, <2>4 DEF InPlace
<1> QED BY <1>1, DispatcherInvariance, PTL

=============================================================================
