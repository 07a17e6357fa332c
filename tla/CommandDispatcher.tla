------------------------- MODULE CommandDispatcher -------------------------
(***************************************************************************)
(* The command dispatcher (commands/dispatcher.rs) between clients that    *)
(* send RunCommand requests and the launchers (commands/launcher.rs) that  *)
(* offer the commands.  It keeps a cache of which program owns which       *)
(* command, and fills it by asking every program it has not seen before,   *)
(* each with a query that runs as a task of the scene (spawn_query).       *)
(*                                                                         *)
(* Launchers, and the tasks of queries and of commands, take and free      *)
(* places in the table of sub-programs: the list of programs that the      *)
(* dispatcher gets is what the table says at that moment, old ids that     *)
(* lead to reused places included.  The scene control program answers each *)
(* query for that list, and clients stay until they have their answer.     *)
(***************************************************************************)
EXTENDS SubProgramTable, Sequences, SequencesExt, FiniteSetsExt

CONSTANTS Dispatcher,   \* the dispatcher's program
          Launchers,    \* programs that accept RunCommand
          Tasks,        \* ids of tasks that run at a time (a bound), numbers
          First,        \* launchers that run when the behaviour begins, in their order in the table
          CommandNames,
          Offers,       \* per launcher: the names of its commands
          List,         \* LIST_COMMANDS
          Capacity,     \* length at which the input of a launcher is full
          Disconnected, \* a sink whose target is not known
          Dead,         \* a sink whose input was dropped
          MaxRequests,  \* bound: requests of clients
          MaxStarts,    \* bound: starts of launchers after that
          MaxEnds       \* bound: ends of launchers, as against their starts

ASSUME DispatcherAssumption ==
    /\ Dispatcher \in Programs /\ Launchers \subseteq Programs
    /\ Tasks \subseteq Programs /\ Tasks \subseteq Nat
    /\ First \in Seq(Launchers) /\ Len(First) < MaxHandles /\ IsInjective(First)
    /\ Dispatcher \notin Launchers \cup Tasks /\ Launchers \cap Tasks = {}
    /\ Offers \in [Launchers -> SUBSET CommandNames] /\ List \notin CommandNames
    /\ Capacity \in Nat \ {0} /\ {MaxRequests, MaxStarts, MaxEnds} \subseteq Nat
    /\ {Disconnected, Dead, None} \cap Programs = {}
    /\ Disconnected # Dead /\ None \notin {Disconnected, Dead}
    /\ None \notin [id : Nat, name : CommandNames \cup {List}]

VARIABLES input,      \* per launcher: the requests in its input stream
          closed,     \* launchers whose input stream was closed
          starts,     \* history: number of starts of each launcher after that
          dispatcher_input, requests, \* requests for the dispatcher; number of them
          answers,    \* history, per request: number of responses
          pc,         \* what the dispatcher does: "idle", "status", "asking", "listing",
                      \*   "forwarding", or "lost": it reads a stream that never ends
          current,    \* its request
          commands,   \* its cache: per command the owner, or None
          subprograms, active, to_ask, asked, \* programs: seen before, running, to ask, being asked
          task,       \* the task of its query
          sent,       \* the task has sent the query
          owner,      \* the owner that it holds a sink for, or None
          sink,       \* per program: its sink, None if there is none, or the program that reads it
          present     \* history: launchers that have been running since the request was taken

dispatcherVars == <<dispatcher_input, pc, current, commands, subprograms, active, to_ask, asked, task,
                    sent, owner, sink, present>>
launcherVars == <<input, closed, starts>>
clientVars == <<requests, answers>>
allVars == <<vars, dispatcherVars, launcherVars, clientVars>>

\* A request: the client's number, or 0 for the dispatcher's own query; and a name.
Message(id, name) == [id |-> id, name |-> name]
Messages == [id : 0..MaxRequests, name : CommandNames \cup {List}]

DispatcherTypeOK ==
    /\ input \in [Launchers -> Seq(Messages)] /\ dispatcher_input \in Seq(Messages)
    /\ closed \subseteq Launchers /\ starts \in [Launchers -> Nat]
    /\ requests \in 0..MaxRequests /\ answers \in [1..MaxRequests -> Nat]
    /\ pc \in {"idle", "status", "asking", "listing", "forwarding", "lost"}
    /\ current = None <=> pc = "idle"
    /\ current # None => current \in Messages
    /\ commands \in [CommandNames -> Programs \cup {None}]
    /\ subprograms \cup active \cup to_ask \subseteq Programs
    /\ {asked, owner} \subseteq Programs \cup {None} /\ task \in Tasks \cup {None} /\ sent \in BOOLEAN
    /\ sink \in [Programs -> Programs \cup {None, Disconnected, Dead}]
    /\ present \subseteq Launchers

DispatcherInit ==
    /\ sub_programs = [h \in Handles |-> IF h = 0 THEN Dispatcher ELSE IF h <= Len(First) THEN First[h] ELSE None]
    /\ next_subprogram = 1 + Len(First) /\ panicked = None
    /\ handle_of = [g \in Programs |-> IF \E h \in Handles : sub_programs[h] = g
                                      THEN CHOOSE h \in Handles : sub_programs[h] = g ELSE None]
    /\ program_indexes = handle_of
    /\ input = [g \in Launchers |-> <<>>] /\ closed = {} /\ starts = [g \in Launchers |-> 0]
    /\ dispatcher_input = <<>> /\ requests = 0 /\ answers = [i \in 1..MaxRequests |-> 0]
    /\ pc = "idle" /\ current = None /\ commands = [n \in CommandNames |-> None]
    /\ subprograms = {} /\ active = {} /\ to_ask = {} /\ asked = None /\ task = None /\ sent = FALSE
    /\ owner = None /\ sink = [g \in Programs |-> None] /\ present = {}

Started == MapThenSumSet(LAMBDA g : starts[g], Launchers)
Open(g) == g \in Launchers /\ handle_of[g] # None /\ g \notin closed
Up == {g \in Launchers : Open(g)}

----------------------------------------------------------------------------
(***************************************************************************)
(* Clients, launchers and tasks                                            *)
(***************************************************************************)
\* (A bound: one request waits at a time.)
ClientRequests(name) ==
    /\ dispatcher_input = <<>> /\ requests < MaxRequests /\ requests' = requests + 1
    /\ dispatcher_input' = Append(dispatcher_input, Message(requests', name))
    /\ UNCHANGED <<vars, launcherVars, answers, pc, current, commands, subprograms, active, to_ask,
                   asked, task, sent, owner, sink, present>>

\* A sink for a program that starts is connected to its input.  (The start of a program whose
\* old place is in use panics, see SubProgramTable.)
StartLauncher(g) ==
    /\ Started < MaxStarts /\ handle_of[g] = None
    /\ StartSubprogram(g)
    /\ starts' = [starts EXCEPT ![g] = @ + 1]
    /\ sink' = [sink EXCEPT ![g] = IF @ = None THEN None ELSE g]
    /\ UNCHANGED <<clientVars, input, closed, dispatcher_input, pc, current, commands, subprograms,
                   active, to_ask, asked, task, sent, owner, present>>

\* The control program is asked to close it.
CloseLauncher(g) ==
    /\ Open(g) /\ Cardinality(Up) + MaxEnds > Len(First) + Started
    /\ closed' = closed \cup {g} /\ present' = present \ {g}
    /\ UNCHANGED <<vars, clientVars, input, starts, dispatcher_input, pc, current, commands, subprograms,
                   active, to_ask, asked, task, sent, owner, sink>>

\* Its loop ends when it has read what is left; its input is dropped.
EndLauncher(g) ==
    /\ g \in closed /\ input[g] = <<>>
    /\ FinishSubprogram(g)
    /\ closed' = closed \ {g}
    /\ sink' = [p \in Programs |-> IF sink[p] = g THEN Dead ELSE sink[p]]
    /\ UNCHANGED <<clientVars, input, starts, dispatcher_input, pc, current, commands, subprograms,
                   active, to_ask, asked, task, sent, owner, present>>

Reads(g) == handle_of[g] # None /\ input[g] # <<>> /\ input' = [input EXCEPT ![g] = Tail(@)]

\* A task starts under an id that is not in use, here the lowest, ...
Fresh(t) == handle_of[t] = None /\ \A u \in Tasks : handle_of[u] = None => t <= u
StartTask(t) == Fresh(t) /\ StartSubprogram(t)

Answered(id) == answers' = [answers EXCEPT ![id] = @ + 1]

\* The launcher runs a command, as a task, or replies that it has no such command.
LauncherRuns(g) ==
    /\ Reads(g) /\ Head(input[g]).name \in CommandNames
    /\ IF Head(input[g]).name \in Offers[g] THEN \E t \in Tasks : StartTask(t)
       ELSE UNCHANGED vars
    /\ Answered(Head(input[g]).id)
    /\ UNCHANGED <<dispatcherVars, closed, starts, requests>>

CommandsAfter(p, names) ==
    [n \in CommandNames |-> IF n \in names /\ commands[n] = None THEN p ELSE commands[n]]

\* The launcher lists its commands: the query's task passes the list on to the dispatcher,
\* which notes the commands that it does not know.
LauncherLists(g) ==
    /\ Reads(g) /\ Head(input[g]).name = List
    /\ commands' = CommandsAfter(asked, Offers[g])
    /\ pc' = "asking" /\ task' = None /\ asked' = None /\ sent' = FALSE
    /\ UNCHANGED <<vars, clientVars, closed, starts, dispatcher_input, current, subprograms, active,
                   to_ask, owner, sink, present>>

\* ... and leaves the table some time after its work is done.  Its id is not used again, and is
\* forgotten here, although the table keeps it, to let another task have it.
EndTask(t) ==
    /\ handle_of[t] # None /\ t # task
    /\ sub_programs' = [sub_programs EXCEPT ![handle_of[t]] = None]
    /\ next_subprogram' = NextAfterFinish(handle_of[t])
    /\ handle_of' = [handle_of EXCEPT ![t] = None]
    /\ program_indexes' = [program_indexes EXCEPT ![t] = None]
    /\ UNCHANGED <<panicked, dispatcherVars, launcherVars, clientVars>>

----------------------------------------------------------------------------
(***************************************************************************)
(* The dispatcher                                                          *)
(***************************************************************************)
\* context.send(p): an old sink, or a new one for the input that the table has for p.  A task
\* is not sent RunCommands: that sink is disconnected.
CanSendTo(p) == p # None /\ (sink[p] # None \/ GetSubProgram(p) # None)
SinkAfterSendTo(p) ==
    IF sink[p] # None \/ GetSubProgram(p) = None THEN sink
    ELSE [sink EXCEPT ![p] = IF GetSubProgram(p) \in Tasks THEN Disconnected ELSE GetSubProgram(p)]

\* is_attached, for a sink.
IsAttached(s) == s = Dispatcher \/ Open(s)

OwnerOf(name) == IF name = List \/ ~CanSendTo(commands[name]) THEN None ELSE commands[name]

\* spawn_query: a task is started.
SpawnQuery == \E t \in Tasks : StartTask(t) /\ task' = t

\* A command with an owner is forwarded; for any other the scene is asked for its programs.
TakeCommand ==
    /\ pc = "idle" /\ dispatcher_input # <<>>
    /\ current' = Head(dispatcher_input) /\ dispatcher_input' = Tail(dispatcher_input)
    /\ present' = Up
    /\ \E o \in {OwnerOf(Head(dispatcher_input).name)} :
           /\ owner' = o
           /\ IF o = None THEN pc' = "status" /\ SpawnQuery /\ UNCHANGED sink
              ELSE pc' = "forwarding" /\ sink' = SinkAfterSendTo(o) /\ UNCHANGED <<vars, task>>
    /\ UNCHANGED <<launcherVars, clientVars, commands, subprograms, active, to_ask, asked, sent>>

\* What the control program says is running.
ActiveSubprograms == {g \in GetRunningSubprograms : GetSubProgram(g) # None}

\* Mutant: the test is inverted.
Kept_Inverted(p) == p \in subprograms \ ActiveSubprograms

\* A command is kept unless its owner was seen and is no longer listed.
Kept(p) == p \notin subprograms \ ActiveSubprograms

\* Mutant: it may ask itself.
Added_Self == ActiveSubprograms \ subprograms

\* The programs that were not seen before, but for the dispatcher itself.
Added == ActiveSubprograms \ (subprograms \cup {Dispatcher})

ReadStatus ==
    /\ pc = "status"
    /\ active' = ActiveSubprograms /\ to_ask' = Added
    /\ commands' = [n \in CommandNames |-> IF Kept(commands[n]) THEN commands[n] ELSE None]
    /\ pc' = "asking" /\ task' = None
    /\ UNCHANGED <<vars, launcherVars, clientVars, dispatcher_input, current, subprograms, asked, sent,
                   owner, sink, present>>

\* A program is asked for its commands, if it can be sent to.
Ask(p) ==
    /\ pc = "asking" /\ p \in to_ask
    /\ to_ask' = to_ask \ {p}
    /\ \E after \in {SinkAfterSendTo(p)} :
           /\ sink' = after
           /\ IF IsAttached(after[p]) THEN pc' = "listing" /\ asked' = p /\ SpawnQuery
              ELSE UNCHANGED <<vars, pc, asked, task>>
    /\ UNCHANGED <<launcherVars, clientVars, dispatcher_input, current, commands, subprograms, active,
                   sent, owner, present>>

\* A send to program p: it is taken, or refused, or waits.
Takes(p) == sink[p] \in Up /\ Len(input[sink[p]]) < Capacity
Refuses(p) == sink[p] = Dead \/ sink[p] \in Launchers \ Up
SinkAfterRefusal(p) == IF sink[p] = Dead THEN [sink EXCEPT ![p] = Disconnected] ELSE sink

\* The task sends the query.
SendQuery ==
    /\ pc = "listing" /\ ~sent /\ Takes(asked)
    /\ input' = [input EXCEPT ![sink[asked]] = Append(@, Message(0, List))]
    /\ sent' = TRUE
    /\ UNCHANGED <<vars, clientVars, closed, starts, dispatcher_input, pc, current, commands, subprograms,
                   active, to_ask, asked, task, owner, sink, present>>

\* It cannot: the task ends and leaves the stream, that the dispatcher reads, open.
SendQueryFails ==
    /\ pc = "listing" /\ ~sent /\ Refuses(asked)
    /\ sink' = SinkAfterRefusal(asked)
    /\ pc' = "lost" /\ task' = None
    /\ UNCHANGED <<vars, launcherVars, clientVars, dispatcher_input, current, commands, subprograms,
                   active, to_ask, asked, sent, owner, present>>

AllAsked ==
    /\ pc = "asking" /\ to_ask = {}
    /\ subprograms' = active
    /\ owner' = OwnerOf(current.name)
    /\ sink' = IF owner' = None THEN sink ELSE SinkAfterSendTo(owner')
    /\ pc' = "forwarding" /\ active' = {}
    /\ UNCHANGED <<vars, launcherVars, clientVars, dispatcher_input, current, commands, to_ask, asked,
                   task, sent, present>>

Forward ==
    /\ pc = "forwarding" /\ owner # None /\ Takes(owner)
    /\ input' = [input EXCEPT ![sink[owner]] = Append(@, current)]
    /\ pc' = "idle" /\ current' = None /\ owner' = None /\ present' = {}
    /\ UNCHANGED <<vars, clientVars, closed, starts, dispatcher_input, commands, subprograms, active,
                   to_ask, asked, task, sent, sink>>

\* A response is a new sink of the dispatcher, for which it may drop those not in use.
Respond(sinks) ==
    /\ Answered(current.id)
    /\ \/ sink' = sinks
       \/ sink' = [p \in Programs |-> IF p = owner THEN sinks[p] ELSE None]
    /\ pc' = "idle" /\ current' = None /\ owner' = None /\ present' = {}
    /\ UNCHANGED <<vars, launcherVars, requests, dispatcher_input, commands, subprograms, active, to_ask,
                   asked, task, sent>>

\* Mutant: nothing is replied.
CommandFailedToRespond_Silent ==
    /\ pc = "forwarding" /\ owner # None /\ Refuses(owner)
    /\ sink' = SinkAfterRefusal(owner)
    /\ pc' = "idle" /\ current' = None /\ owner' = None /\ present' = {}
    /\ UNCHANGED <<vars, launcherVars, clientVars, dispatcher_input, commands, subprograms, active,
                   to_ask, asked, task, sent>>

CommandFailedToRespond ==
    pc = "forwarding" /\ owner # None /\ Refuses(owner) /\ Respond(SinkAfterRefusal(owner))

\* A command without an owner: the list of commands, or the reply CommandNotFound.
RespondList == pc = "forwarding" /\ current.name = List /\ Respond(sink)
CommandNotFound == pc = "forwarding" /\ current.name # List /\ owner = None /\ Respond(sink)

DispatcherStep ==
    \/ TakeCommand \/ ReadStatus \/ SendQuery \/ SendQueryFails \/ AllAsked
    \/ Forward \/ CommandFailedToRespond \/ RespondList \/ CommandNotFound
    \/ \E p \in to_ask : Ask(p)

DispatcherNext ==
    \/ DispatcherStep
    \/ \E name \in CommandNames \cup {List} : ClientRequests(name)
    \/ \E g \in Launchers : StartLauncher(g) \/ CloseLauncher(g) \/ EndLauncher(g)
                            \/ LauncherRuns(g) \/ LauncherLists(g)
    \/ \E t \in Tasks : EndTask(t)

DispatcherSpec == DispatcherInit /\ [][DispatcherNext]_allVars

\* The dispatcher, the launchers and the tasks are polled when they can go on.
FairDispatcherSpec ==
    /\ DispatcherSpec /\ WF_allVars(DispatcherStep)
    /\ \A g \in Launchers : WF_allVars(EndLauncher(g) \/ LauncherRuns(g) \/ LauncherLists(g))
    /\ \A t \in Tasks : WF_allVars(EndTask(t))

----------------------------------------------------------------------------
(***************************************************************************)
(* Properties                                                              *)
(***************************************************************************)
Waiting(q, id) == {i \in DOMAIN q : q[i].id = id}
Forwarded(id) == UNION {{g} \X Waiting(input[g], id) : g \in Launchers}
IsCurrent(id) == current # None /\ current.id = id

\* Each request has one response, or is in one place on the way to it (QueryResponse: "each
\* query message should produce exactly one QueryResponse"), whatever ends or starts again
\* while it is cached, forwarded and run.
EveryRequestInOnePlace ==
    \A id \in 1..requests :
        1 = answers[id] + Cardinality(Waiting(dispatcher_input, id)) + Cardinality(Forwarded(id))
            + (IF IsCurrent(id) THEN 1 ELSE 0)

\* The dispatcher replies CommandNotFound: it has no owner for the command.
RepliesNotFound == pc = "forwarding" /\ owner = None /\ current.name # List
Offering == {g \in Launchers : current.name \in Offers[g]}

\* A running program's command is found ("it will scan the scene for any program that responds
\* to it") as long as that program is in its first life and the only one with that command.
Restarted(g) == starts[g] > (IF g \in ToSet(First) THEN 0 ELSE 1)
OnlyOwnerIsFound ==
    RepliesNotFound => \A g \in present : Offering = {g} => Restarted(g)

\* What the dispatcher knows is enough to reply, whatever it is in the middle of.
DispatcherIsSound == TypeOK /\ DispatcherTypeOK /\ OnlyOwnerIsFound

WaitsForTheEnded == pc = "lost" \/ (pc = "forwarding" /\ owner # None /\ sink[owner] = Disconnected)

\* A request is answered, unless the dispatcher waits for a program that has ended: it reads the
\* commands of a program that ended before it could be asked, or forwards a command to an owner
\* whose end it was told of by an error at the command before.
RequestIsAnswered ==
    \A id \in 1..MaxRequests : requests >= id ~> answers[id] > 0 \/ WaitsForTheEnded
=============================================================================
