# A verification project for flo_scene

flo_scene runs *sub-programs* (async Rust functions) that send each other messages inside a *scene*;
its `pipe` crate lets a person or a program on a socket run commands in one.  This directory holds
TLA+ models of both, the TLC runs that check them on small instances, and TLAPS proofs of some of
their properties for every size.  `PROJECT.json` maps each definition to the lines it models and
lists the runs, mutants, findings, hazards and theorems.

## The system

| part | state | operations | what is hard | module |
|---|---|---|---|---|
| process scheduler (`scene_core.rs`, `process_core.rs`, `thread_stealer.rs`, `scene.rs`) | process table, list of awake processes, one stored waker per runner thread | start a process, wake, poll, finish, stop; a thread that sends can *steal* itself to poll the target | several runners and outside threads; wakes during polls; slots reused under old wakers; runners that go to sleep | SceneScheduler |
| sub-program table (`scene_core.rs`) | vectors of programs and inputs, free index, map from ids to indexes | start, end, restart, look up | ids of ended programs, reused handles | SubProgramTable |
| input streams (`input_stream.rs`) | queue, wakers, blocked / closed / idle flags, limits | send, overfill, read, block, close, drop, wait for idle | back pressure; each change must wake the right tasks | MessageStream |
| output sinks (`output_sink.rs`) | target (shared by the sinks of a stream), one unsent message | `Sink`, `send_immediate`, change of target | lock released between reading the target, sending and registering wakers | MessageStream |
| idle notification (`scene_core.rs`, `idle_request.rs`, `scene_context.rs`) | flag and count, channels, requests, suppressions | request, suppress, resume, `wait_for_idle`, `check_if_idle` | the check is not atomic; checks invalidate each other | IdleNotification |
| connections (`scene_core.rs`, `subprogram_core.rs`, `stream_id.rs`, ...) and filters (`filter.rs`) | map from (source, stream) to target, conversions, output sinks per program | connect, resolve a target, open a sink, reconnect when a program starts | precedence of connections, programs not started yet, copies used unlocked | Connections |
| scene control (`control.rs`) | view of programs and connections built from updates, subscribers | start, connect, close, stop, stop when idle, query, subscribe | updates behind the actual state; awaits its subscribers | ControlProgram |
| event subscribers (`subscription.rs`) | list of sinks | subscribe, send to all | some of the sends fail, some wait | EventSubscribers |
| timers (`timer.rs`) | sorted list of timers, one delay, messages being sent | set, repeat, cancel, fire | a timer is out of the list while its message is sent | TimerProgram |
| command dispatcher (`commands/`) | cache of which program owns which command | list, run, forward | cache behind programs that end and restart | CommandDispatcher |
| tokenizer (`tokenizer.rs`, `internal_socket.rs`, `socket.rs`, the matchers) | bytes, characters, look-ahead, matchers that remain | read a token, hand over what is left | tokens and characters split between blocks; interactive input | Tokenizer, TokenStream |
| parsers (`parser.rs`, `parse_json.rs`, `parse_command.rs`) | stack, look-ahead, calls in progress | push, reduce, return | entries counted by hand through nested calls, two parsers on one input | CommandParser |
| command sessions (`command_socket.rs`, `command_program.rs`) | input read ahead, variables, background streams, mode | evaluate, assign, background, JSON and raw modes | one socket shared by requests, streams and commands | CommandSession |
| test program, text I/O, serialisation, ids and errors, JSON commands, sub-scenes | | | | not modelled |

Programs interact only through streams: a sink pushes into the target's input core and calls its
waker, which marks the target's process as awake and may wake a runner.  All cores (scene,
sub-program, input, sink) are mutexes of their own, and wakers are called with none of them held;
the interesting behaviour lies between two critical sections, or, for a program, between two awaits.

## Modules

An action is one critical section, or, in the models of single programs, what the task does between
two points at which others can act.  Each module says in its header what its state stands for and
what it leaves out.

**SceneScheduler**: `stack[a]` holds the polls that thread `a` is inside of, so stolen polls nest;
`future[p]` is `SceneProcessFuture`.  `needs_poll` is a history variable: the waker given to the
last poll has been invoked since it began.  What a program does is arbitrary: while it is polled it
may wake, start, steal and stop anything.

**SubProgramTable** models the table alone, with restarts of an id.  A refused start panics with the
core locked, so `panicked` ends the scene.  **Connections**, **ControlProgram** and
**CommandDispatcher** extend it and use its actions for every start and end.

**MessageStream** models sinks and input streams together.  A sender is at a `pc` between two
critical sections of its `send`; `via` is the input whose `Arc` it holds, `holding` says that it has
taken the reader's waker and not called it yet.  `ChangeTarget` is the effect of Connections on a
sink.

**IdleNotification** models `check_if_idle` with one action per critical section, per input even,
against programs that receive, send, request, suppress, wait for idle, or await something else.

**Connections**: `op[t]` is the operation thread `t` is in the middle of (connect, start, send),
with what it has read and has still to do.  The search for an input (`sink_for_target` and what it
calls) runs under the core's lock and is a set of operators; storing a connection, changing the
sinks of each program, reconnecting after a start and creating a sink are steps of their own.

**ControlProgram** receives requests and `SceneUpdate`s on one queue; `view` is its own picture of
the scene.  **EventSubscribers** is the list it sends its updates through, one sink at a time.
**TimerProgram** interleaves the three futures of its task with requests, readers and clock ticks;
all times are relative to now.  **CommandDispatcher** has the dispatcher's loop with its cache,
launchers that start, close and end, and the tasks of `spawn_query` that take places in the table.

**Tokenizer** runs `match_token` on bytes that arrive in blocks: `TryMatch` is the matchers' verdict
on a look-ahead, `DecodeCharacters` and `ReceiveBlock` the two layers that deliver it.
**TokenStream** is its abstract specification: tokens come off the front of the whole input,
whatever the blocks. **CommandParser** turns the recursive-descent functions into frames with their
entry counts, and compares what they return with what the tokens mean (`Meaning`, a recursive
definition of the language). **CommandSession** takes whole requests as items and models how they
are taken, evaluated, assigned and answered, while background streams, commands and other programs
act.

The `MC...` modules extend these for TLC.  Operators named `X_Y` with a comment "Mutant" are altered
copies of the definition `X` that follows; no specification uses them.  Substituting one for its
original must make TLC report the property named in `PROJECT.json`, so every property can fail.

## Runs

| run | instance | shows |
|---|---|---|
| `scheduler` | 2 runners, 1 outside thread, 1 slot, 1 program and background processes | exclusive polls, safe reuse of the slot, no lost wakes; a woken process is polled, a stop ends all runners |
| `stream` | 2 senders, both async or one in immediate mode, 1 input with a limit of 0, 2 messages each, at most 3 sends, a block | messages, back pressure, nobody sleeps without a cause; sends end and queued messages are received |
| `stream_reconnect` | 1 sender, 2 inputs (one read with sources), 3 messages, 2 changes of target, goes on after errors | no message lost, duplicated or reordered by reconnecting |
| `idle` | 1 runner, 2 programs, 3 calls; 1 runner, 1 program, 4 calls; 2 runners, 1 program, 2 calls; each with an outside thief | a notification means the scene was idle; requests are kept and answered, waits end |
| `connections` | 2 threads (symmetric), programs `p` and `r`, types A, B and one nobody reads, a filter A to B, 2 connects out of 6, `r` starts twice, 1 end, 2 sends | the table stays sound, no sink in use is released, types fit, general connections are made |
| `timer` | 2 programs, 2 of 5 requests (same number twice, repeat without delay, cancel), room for 1 message, 1 restart | the task never sleeps past a timer, repeating timers keep their beat, due timers fire |
| `control` | 3 programs (a subscriber, the one that stops the scene), 1 request, 1 subscription, 1 start, 1 change, room for 1 update | subscribers and view agree with the scene; the program comes back to its input |
| `dispatcher` | 2 launchers that share a command, 2 tasks at a time, 3 requests, 1 start, 1 end | each request in one place, owners found, requests answered |
| `tokenizer` | all texts up to 3 or 4 characters over five alphabets and 8 lines, cut into blocks at will; look-ahead 3, buffer 2, chunk 3 | refinement of TokenStream; nothing is held back or left over |
| `parser` | all inputs of up to 8 tokens, as commands and as JSON | the stack is sound, results are what was written, complete requests return |
| `session` | 6 scripts, cut at will, 1 call from outside, 2 messages of a stream | requests in order and once, assignments seen, output can be told apart, no starvation |
| `tokenizer_constants` | the 8 lines with the real sizes 32, 64 and 256 | violated: see the finding |

Why the bounds are enough.  One process slot makes every new process reuse the slot of an ended one,
which is where old wakers matter; two runners let one sleep while the other wakes.  A limit of 0
means that the second message waits; two senders compete for one slot, and `MaxWakers` only bounds
how often a waiting sender registers again.  A request, a suppression, a message and a resume
overlap in four calls.  Two connects, a restart and two threads make every pair of operations
overlap; a filter whose source and target types are both sent makes all branches of the search fire.
In `timer` a timer is more than one tick late only while its message cannot be sent, so `MaxLate` =
2 tells late from very late.  Capacity 1 makes the second update, command or TimeOut wait for its
reader.  A look-ahead of 3 bytes is less than a keyword, a buffer of two and chunks of three split
characters and tokens at different places, so all boundaries fall inside short texts.  Eight tokens
hold `$x = [1, 2]` with what follows, and nested arrays and objects.

Each passing run finishes within the state graph; a scene in which all programs wait for input, or
that has ended, stops properly, so TLC's deadlock check is off where that can happen, and that no
one waits *wrongly* is what the sleep and liveness properties state.

## Fairness

- A thread goes on with library code (no lock is held for ever), and the poll of a process returns.
  In SceneScheduler that is strong fairness per thread and process, as a poll may make any number of
  calls first.  A runner's executor polls it again after its waker was called (the contract of
  `Waker`).
- The models of streams and of programs assume that a woken task is polled, which `WokenIsPolled`
  shows of the scheduler, and that programs read their input.  It is weak fairness of the task as a
  whole: `Task`, `ControlStep`, `ProcessStep`, `DispatcherStep`, `SessionStep`, the peer's
  `PeerTakes`.
- `SendEnds` assumes that streams do not stay blocked or waiting for idle (`Quiet`).
- IdleNotification assumes that what a program awaits happens, and its promises exclude scenes in
  which the end of a stolen poll is never followed by another check (`StolenPollsAreChecked`): that
  is a weakness of the code, below.
- `ControlReturns` and `RequestIsAnswered` of the dispatcher except waits for a program that has
  ended; the code does wait then.
- In TimerProgram time passes and a `Delay` fires (`Tick`, `DelayExpires`).
- Nothing makes programs send, start, end, block or connect.

## Proofs

Some facts about the prover shaped the modules: an `IF`/`CASE` has an `OTHER` branch where the code
has a default, functions are written out instead of built with `:>` and `@@`, the type invariant of
a module is one operator, and recursion in a module with theorems is a recursive function (what a
step keeps of a list, in EventSubscribers) or `FlattenSeq`.  What such a function is follows by
induction on *sets* of numbers (`NatSetInduction`), as the library's induction takes an operator.
The assumptions on constants hold whatever the code does: they keep markers apart from values, bounds
natural, and say what kinds of things programs, requests, responses and scripts are.

`SceneScheduler_proofs`, for any numbers of runners, threads, programs and slots: `TypeOK`,
`PollExclusion`, `ProcessTableIsSound`, `WokenIsScheduled` and `SomeRunnerWillLook`.  The inductive
invariant `IInv` adds `WakeInv` (a wake is recorded or about to be; a process that is awake is
queued or about to be; `WokenIsScheduled` says nothing of a process being polled, so it is not
inductive), `RunnerShape` (who can be inside a poll) and `Parked` (a sleeping runner's waker is
stored, taken or invoked).  `SchedulerAssumption` only keeps the markers apart.

`SubProgramTable_proofs`, for any number of programs and handles: the four parts of `TableIsSound`.
The invariant adds that the table's entries are exactly the handles captured by live processes.

`Connections_proofs`, for any programs, types, filters, requests and threads:
- every step of Connections is a step of the table or leaves it alone (`ConnectionsUseTheTable`, a
  refinement), so `TableIsSound` holds there too, although three operations interleave;
- `HeldSinkIsRegistered`, by showing that all operations keep the streams a program has outputs for,
  except `SendCreate`, which only releases what is not held (`SinksInv`);
- `SinkTypesFit`: the search returns an error or a sink that fits the type asked for
  (`SinkForTargetFits`, following the search function by function), `finish_connecting_programs`
  stores a sink only when the types were compared, and since a send keeps what it found until it has
  the program's lock, the invariant speaks of that as well (`OutputsInv`, `OpInv`);
- `GeneralConnectionIsMade`, from `CalmInv`.  While operations do not overlap, one at most is in
  progress, and a sink that a connection for all programs decides is where it should be, or the
  operation has still to visit its program (`AllDone`).  What the operation has read is still true:
  the target that `finish_connecting_programs` looked up before it stored the connection, the copy
  that `reconnect_subprogram` works on, the sink that a send has found (`OperationFits`).  The
  lookups agree: from no target, from a target that has ended and from the program itself, each
  finds the connection (`RuleIsFound`).  For that the messages to this one program must not lead
  elsewhere, which is why the two connections of a filtered target are part of the invariant
  (`AllAloneFit`).  TLC had checked `CalmInv` on this run's instance, and in random runs of one with
  three programs, two filters and all connections between them.

`ControlProgram_proofs`, for any programs, requests, subscribers and bounds: `ViewIsTrue`.  While
updates are queued the view lags behind, so the invariant speaks of the queue: the last update about
a program, or the view if there is none, says whether the program told of its start and not of its
end (`ViewFollows`).  It rests on the table: only a program that has left the scene, and therefore
told of its end, can be started (`LifeInv`, with the table's `IInv`).

The same module proves `SubscriptionsAreSound`.  A subscriber lags behind the view while something is
sent, so the invariant speaks of what it will know when it has taken what is being sent
(`Effective`).  That never exceeds the view (`Knows`), and what a subscribed one lacks is in hand to
be told, or is a program whose end is still to be told (`IsCurrent`).  It is kept because an update
sent twice changes nothing, because `EventSubscribers` drops only receivers whose streams are not
open (`StreamsOK`, and what the recursive `Retained` yields), and because a program of the view that
has left the table has queued its end (`EndIsToldOf`).

`MessageStream_proofs`, for any senders, inputs, cores and limits: `EveryMessageInOnePlace`,
`MessagesInOrder`, `BackPressure`, and that no reader sleeps beside work it was not woken for, in any
scene, with sinks shared, reconnected and used after errors.  A step of a sender leaves the messages
it has begun to send where they are, begins with the next, or parts with the one in hand, to one
place (`SenderEffects`); that the places stay exclusive needs that a number not begun is nowhere and
that an input holds a sender's messages in order.  `WakeUpsAreKept`, which is also about senders, is
proved where the run checks it: without changes of target, with one sink per stream, and without
readers of `messages_with_sources` (`SendersUndisturbed`).  TLC finds a counterexample when any of
the three is left out, and each is a weakness of the code told below.

`CommandDispatcher_proofs`, for any programs, commands, starts and ends: `DispatcherIsSound`.  While
a program runs, its place in the table leads to it, so sinks that are connected lead there too
(`SinksAreRight`).  A launcher in its first life has never been seen to disappear: once it is seen
its commands are in the cache (`SeenIsKnown`), and if nobody else offers them the owner's id leads
to it (`OwnerLeadsThere`).  An answer is the answer of the program that was asked because at most one
query is under way (`QueryOK`).  `EveryRequestInOnePlace` tells the places of a request apart as four
cases (`InPlace`).

`Pipe_proofs`, of CommandSession, for any script, commands, variables, cuts and calls from outside:
- `RequestsSeeAssignments`: a variable has the value that the requests before the next one gave it,
  or was set from outside; "next" is the present request while its assignment goes on, since "Result
  assigned" is sent first (`Turn`).  That the first JSON result is the one assigned needs that the
  responses left are the last of the request's, with no result and no error before them
  (`SentWithoutValue`).
- `OutputIsFramed`: the numbers of `Start` and `EndMode` sent tell the mode, the last thing sent tells
  that the socket is at a prompt, and `told` counts what was said of a stream.
- `InputIsKept`: what is unread is the run of the numbers that come last, so what is taken from its
  front is greater than all that was taken before; the numbers in the pipe rise; the sizes of the
  places add up.  Chunks are flattened with `FlattenSeq`, whose definition is shown to have a
  solution (`FlattenJoins`) before anything is said of it.

The same module proves of Tokenizer, for any inputs and sizes of blocks, buffer and look-ahead, that
it implements TokenStream (`TokensOfTheWholeInput`), and `BufferIsSound`.  The mapping takes `rest` to
the look-ahead followed by what the bytes read and unread decode to.  The invariant (`TokenizerInv`)
says that the matches held while the tokenizer reads on are exactly those that the whole rest has, of
the matchers no longer tried, and that these come before all that are.  It stands on three lines of
lemmas:
- decoding a front of the bytes and then the others is decoding all (`DecodeJoined`), and what
  `to_u8_lookahead` encodes decodes to itself (`DecodeEncoded`);
- each of the fourteen matchers that decides on a look-ahead says the same of every text that begins
  with it, and those other than the string's decide once a line has ended (`VerdictSettles`);
- `max_by` returns the last of the longest, and "last found" is "last added" because whenever one
  matcher has matched and another waits, the first was added before (`WaitingComesLast`).  So the
  order in which matchers decide never shows; the proof is by the characters each can begin with,
  and a matcher added in another place may break it.
That a token can always be returned (`match_token`'s `matches` is never empty) follows on the way
(`LongestIs`).  `DecodeFrom`, `EncodeUpTo` and `Quoted` are recursive functions, which are shown to
exist before they are used.

`Programs_proofs`.  Idle notifications, for any programs, runners and outside threads: `NotifiesOnlyWhenIdle` and
`RequestsAreKept` (which includes `TypeOK`).  A check looks at one input after the other, so what it
has seen says nothing about one moment.  The invariant adds that a process that sleeps has nothing to
do (`SleepersAreIdle`); hence at the moment the check finds all processes asleep, all inputs are
empty.  A request is kept because the idle program's channel stays with the core
(`IdleProgramListens`), so a check that clears the flag tells the idle program.  Both need that polls
are exclusive and that each check returns to the one caller it has (`ChecksHaveCallers`).

The timer, for any requests, programs and bounds: `TimerIsReady` (which includes `TimerTypeOK`) and
`TimersKeepTheirBeat`.  The invariant has three parts.
- `TimersTyped`: every timer that waits or is sent is on its beat.  A tick moves both of its times,
  perhaps by a period, and the next turn lies a multiple of the period after the last
  (`NextTurnIsGood`), in the range the bounds allow.
- `SerialsDiffer`: a request sets one timer, which is still to be set, waits, or is being sent.
  Sorting, retaining, firing and removing keep the places of the others apart.
- `DelayIsSet`: once the poll has looked at the first timer, its `Delay` runs up to the first timer,
  or the task is woken.  A timer that a send puts back may be the new first one; it finds the waker
  there, since only the first timer put back in a poll takes it, and the task is woken by then.

Only model-checked: the properties of the parser, which compare recursive operators for what the
input means (the prover cannot use a module that declares them); and all liveness properties
(fairness and `ENABLED` are out of its reach).

## What the models show of the code

The finding, with its run:

- `true`, `false` and `null` can never be the argument of a command: the matcher of command names
  accepts them too, and of equal matches the last wins (`tokenizer_constants`;
  `command_stream.rs:40`).

Others that were met while modelling, for which no run is kept.  The properties state what holds in
spite of them; most have a hazard with a note in `PROJECT.json`.

*Scheduler and streams.*  The runner that sees the last program end wakes no other runner
(`scene_core.rs:1386`).  After a poll stolen by an outside thread nobody checks for idleness
(1064-1070). `program_indexes` keeps ended programs, so their id reaches whoever has the handle now
(958-961), they stay in `get_running_subprograms`, and one cannot be restarted while its old handle
is taken.  A target changed while `poll_flush` is between its locks wakes nobody
(`output_sink.rs:549`); after a failed flush the sink keeps its message and the next send waits for
ever (559).  Sends that wait on one disconnected stream share one waker slot.  An input that is read
with sources is dropped without waking the senders that wait for a slot in it.  `wait_for_idle`
accepts a count equal to the one it was given.  `NotifiesOnlyWhenIdle` is about programs that await
their input or idleness only.

*Connections.*  Operations that overlap may lose a connection: a connect while a program starts, or
between the two steps of `send`; hence "do not overlap" in `GeneralConnectionIsMade`.  Nor does it
hold for every stream, as a wider form of it showed in larger instances.  A connection for the
messages to one program redirects sinks that lead there by another connection, when they are
connected again after a restart (`scene_core.rs:773`): hence the condition on requests in
`IsGeneral`.  A filter whose connection is refused, or is for the messages to one program, becomes a
conversion all the same, but the sinks that now could use it are not connected again (449, 499):
hence the condition on filters in `IsDirect`.  Connecting to
a program whose input fits only through a conversion panics if there is a sink already, and a send
with a filtered target may keep a core of the wrong type and panic later; both set `broken`.
`reconnect_subprogram` looks only at connections for all sources (doc at 1228), takes locks in the
other order than `subprogram_core.rs:18` says, and tells no subscriber.  A sink whose target has
ended becomes `Discard` when it is reconnected.  Two threads may create one conversion filter twice
(`filter.rs:205`), and the process of a filter whose sink is moved stays (218).

*Programs.*  The control program waits for ever for a subscriber that has ended, and programs that
end wait for it; `FailedConnection` is sent twice; `Stopped` leaves connections in the view.  A
timer for a program that ended is cancelled by its first TimeOut, later ones wait; a timer that is
cancelled while its message is sent is queued again (the TODO at `timer.rs:206`); the Duration is
not measured from the first request (36).  The dispatcher asks a program once: after a failed query
it never asks again, a command two programs share is lost with the first, a restarted program may
not be found (doc at `dispatcher.rs:26-29`), and it waits for ever when it forwards to an owner that
ended.  The `send_round_robin` of subscribers counts a dead target as sent to.

*Pipe.*  A character of several bytes across the fifth byte of a word that begins like a constant
panics (the matchers slice by bytes); `1.` matches as a number and is refused by serde; a bad escape
in an object key panics (`parse_json.rs:514`); a comment on its own line ends the session.  "Result
assigned" is written before the variable is set (`command_program.rs:274`); JSON streams in the
background are not assigned (doc at 255); after an error later results are still shown (258).
Leaving JSON mode drops what was read ahead (the TODO at `command_socket.rs:512`).  Background
streams come before input, so one that is always ready starves it; the bound on their messages
excludes that.

## Not modelled, and why

- Text input and output, the system calls of sockets, serialisation formats, value types, formatting
  of responses: I/O and data.  Accepting connections hands each to the subscribers, which is one
  send.
- The test program, JSON commands and main scenes only wrap parts above; sub-scenes have no
  operations yet.
- Within modelled parts: `poll_close` (it is `poll_flush`), serialised sinks, `send_round_robin`
  (used by a test only), poisoned mutexes other than those named, a runner added to a running scene,
  programs that start or end during an idle check, `command_connection_program` beyond one session.

## What is left of the plan

- An abstract executor refined by SceneScheduler, and an abstract channel refined by MessageStream.
