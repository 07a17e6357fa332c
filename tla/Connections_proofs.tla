------------------------- MODULE Connections_proofs -------------------------
(***************************************************************************)
(* Proofs about Connections, for any programs, types, filters, requests    *)
(* and threads: it uses the table of programs as SubProgramTable allows,   *)
(* a sink that a program holds is never released, every sink leads to an   *)
(* input of its type, and a connection for all programs reaches its sinks  *)
(* when operations do not overlap.                                         *)
(***************************************************************************)
EXTENDS Connections, SubProgramTable_proofs, WellFoundedInduction

\* Every step of the operations changes the table as SubProgramTable allows, or not at all.
LEMMA TableStep == ConnectionsNext => [Next]_vars
<1> USE DEF vars, connectionVars, sinkVars
<1> SUFFICES ASSUME ConnectionsNext PROVE [Next]_vars
  OBVIOUS
<1>1. ASSUME NEW t \in Threads, NEW r \in Requests, ConnectPrograms(t, r[1], r[2], r[3])
      PROVE  UNCHANGED vars
  BY <1>1 DEF ConnectPrograms
<1>2. ASSUME NEW t \in Threads, ConnectStep(t)
      PROVE  UNCHANGED vars
  <2>1. CASE ConnectFilter(t)
    BY <2>1 DEF ConnectFilter
  <2>2. CASE ConnectLookup(t)
    BY <2>2 DEF ConnectLookup
  <2>3. CASE ConnectStore(t)
    BY <2>3 DEF ConnectStore
  <2>4. CASE ConnectApply(t)
    BY <2>4 DEF ConnectApply
  <2>5. CASE ConnectApplied(t)
    BY <2>5 DEF ConnectApplied
  <2>6. CASE ConnectConversions(t)
    BY <2>6 DEF ConnectConversions
  <2>7. CASE ConnectReconnect(t)
    BY <2>7 DEF ConnectReconnect
  <2> QED BY <1>2, <2>1, <2>2, <2>3, <2>4, <2>5, <2>6, <2>7 DEF ConnectStep
<1>3. ASSUME NEW t \in Threads, NEW g \in Programs, Start(t, g)
      PROVE  Next
  BY <1>3 DEF Start, Next
<1>4. ASSUME NEW t \in Threads, StartSnapshot(t) \/ StartReconnect(t) \/ SendCreate(t)
      PROVE  UNCHANGED vars
  BY <1>4 DEF StartSnapshot, StartReconnect, SendCreate
<1>5. ASSUME NEW t \in Threads, NEW x \in Sends, Send(t, x[1], x[2], x[3])
      PROVE  UNCHANGED vars
  BY <1>5 DEF Send
<1>6. ASSUME NEW g \in Programs, Stop(g)
      PROVE  Next
  BY <1>6 DEF Stop, Next
<1>7. ASSUME NEW g \in Programs, NEW s \in held[g], DropSink(g, s)
      PROVE  UNCHANGED vars
  BY <1>7 DEF DropSink
<1> QED BY <1>1, <1>2, <1>3, <1>4, <1>5, <1>6, <1>7 DEF ConnectionsNext

\* However the critical sections of connect_programs, start_subprogram and send interleave,
\* they change the tables of SceneCore only as SubProgramTable says.
THEOREM ConnectionsUseTheTable == ConnectionsSpec => Spec
<1>1. ConnectionsInit => Init
  BY DEF ConnectionsInit
<1>2. [ConnectionsNext]_allVars => [Next]_vars
  BY TableStep DEF allVars, vars
<1> QED BY <1>1, <1>2, PTL DEF ConnectionsSpec, Spec

\* So what is proved of the table holds while programs are connected: start_subprogram
\* overwrites no program, and running programs are found.
THEOREM TableStaysSound == ConnectionsSpec => []TableIsSound
BY ConnectionsUseTheTable, TableIsAlwaysSound, PTL

----------------------------------------------------------------------------
(***************************************************************************)
(* No sink that a program holds is released.  Every operation that changes *)
(* the outputs of a program keeps the streams they are kept under, but for *)
(* SendCreate, which may release some and says which.                      *)
(***************************************************************************)
SinksInv ==
    /\ DOMAIN outputs = Programs /\ DOMAIN held = Programs
    /\ \A g \in Programs : held[g] \subseteq DOMAIN outputs[g]

\* A change of the outputs under which no stream is lost.
KeepsStreams ==
    /\ DOMAIN outputs' = DOMAIN outputs
    /\ \A g \in Programs : DOMAIN outputs'[g] = DOMAIN outputs[g]

LEMMA StreamsKept == ASSUME SinksInv, KeepsStreams, UNCHANGED held PROVE SinksInv'
  BY DEF SinksInv, KeepsStreams

LEMMA SameSinks == ASSUME SinksInv, UNCHANGED <<outputs, held>> PROVE SinksInv'
  BY DEF SinksInv

\* Changing the targets of one program's outputs.
LEMMA OneProgramChanged ==
  ASSUME SinksInv, NEW g, NEW outs, DOMAIN outs = DOMAIN outputs[g],
         outputs' = [outputs EXCEPT ![g] = outs]
  PROVE  KeepsStreams
  BY DEF SinksInv, KeepsStreams

LEMMA ReconnectedDomain ==
  ASSUME NEW g, NEW type, NEW filter_runs
  PROVE  DOMAIN ReconnectDisconnectedOutputs(g, type, filter_runs) = DOMAIN outputs[g]
  BY DEF ReconnectDisconnectedOutputs

LEMMA AppliedDomain ==
  ASSUME NEW o, NEW g, NEW filter_runs
  PROVE  DOMAIN Applied(o, g, filter_runs) = DOMAIN outputs[g]
  BY ReconnectedDomain DEF Applied, WithTarget

\* connect_programs keeps all sinks.
LEMMA ConnectKeepsSinks == ASSUME SinksInv, NEW t \in Threads, ConnectStep(t) PROVE SinksInv'
<1>1. CASE ConnectFilter(t) \/ ConnectLookup(t) \/ ConnectStore(t) \/ ConnectApplied(t)
           \/ ConnectConversions(t)
  <2>1. ConnectFilter(t) => UNCHANGED sinkVars
    BY DEF ConnectFilter
  <2>2. ConnectLookup(t) => UNCHANGED sinkVars
    BY DEF ConnectLookup
  <2>3. ConnectStore(t) => UNCHANGED sinkVars
    BY DEF ConnectStore
  <2>4. ConnectApplied(t) => UNCHANGED sinkVars
    BY DEF ConnectApplied
  <2>5. ConnectConversions(t) => UNCHANGED sinkVars
    BY DEF ConnectConversions
  <2> QED BY <1>1, <2>1, <2>2, <2>3, <2>4, <2>5, SameSinks DEF sinkVars
<1>2. CASE ConnectApply(t)
  <2>1. UNCHANGED held /\ (UNCHANGED outputs \/ \E g, b : outputs' = [outputs EXCEPT ![g] = Applied(op[t], g, b)])
    BY <1>2 DEF ConnectApply
  <2> QED BY <2>1, SameSinks, StreamsKept, OneProgramChanged, AppliedDomain
<1>3. CASE ConnectReconnect(t)
  <2>1. UNCHANGED held
    BY <1>3 DEF ConnectReconnect
  <2>2. CASE UNCHANGED outputs
    BY <2>1, <2>2, SameSinks
  <2>3. CASE ~ UNCHANGED outputs
    <3>1. PICK x \in op[t].todo, b \in BOOLEAN :
              outputs' = [outputs EXCEPT ![x[2]] = ReconnectDisconnectedOutputs(x[2], x[4], b)]
      BY <1>3, <2>3 DEF ConnectReconnect
    <3>2. DOMAIN ReconnectDisconnectedOutputs(x[2], x[4], b) = DOMAIN outputs[x[2]]
      BY ReconnectedDomain
    <3>3. KeepsStreams
      BY <3>1, <3>2, OneProgramChanged
    <3> QED BY <2>1, <3>3, StreamsKept
  <2> QED BY <2>2, <2>3
<1> QED BY <1>1, <1>2, <1>3 DEF ConnectStep

\* A program starts and ends with no sinks.
LEMMA EmptySinks ==
  ASSUME SinksInv, NEW g \in Programs,
         outputs' = [outputs EXCEPT ![g] = <<>>], held' = [held EXCEPT ![g] = {}]
  PROVE  SinksInv'
  BY DEF SinksInv

LEMMA StartKeepsSinks ==
  ASSUME SinksInv, NEW t \in Threads, StartSnapshot(t) \/ StartReconnect(t)
  PROVE  SinksInv'
<1>1. CASE StartSnapshot(t)
  BY <1>1, SameSinks DEF StartSnapshot, sinkVars
<1>2. CASE StartReconnect(t)
  <2>1. UNCHANGED held /\ (UNCHANGED outputs
          \/ \E g : outputs' = [outputs EXCEPT ![g] =
                [s \in DOMAIN outputs[g] |-> IF IsForProgram(op[t], s)
                     THEN Reconnected(g, outputs[g][s], <<"Program", op[t].program>>) ELSE outputs[g][s]]])
    BY <1>2 DEF StartReconnect
  <2> QED BY <2>1, SameSinks, StreamsKept, OneProgramChanged
<1> QED BY <1>1, <1>2

\* send adds to the sinks that are held one that is there, or one that is created; what is
\* released then are sinks that nobody holds.
LEMMA SendKeepsSinks ==
  ASSUME SinksInv, NEW t \in Threads, NEW g, NEW target, NEW type, Send(t, g, target, type)
  PROVE  SinksInv'
<1>1. UNCHANGED outputs /\ g \in Programs
  BY DEF Send, Running
<1>2. CASE UNCHANGED held
  BY <1>1, <1>2, SameSinks
<1>3. CASE /\ HasCore(g, StreamOf(target, type), type)
           /\ held' = [held EXCEPT ![g] = @ \cup {StreamOf(target, type)}]
  BY <1>1, <1>3 DEF HasCore, HasOutput, SinksInv
<1> QED BY <1>2, <1>3 DEF Send

LEMMA CreateKeepsSinks == ASSUME SinksInv, NEW t \in Threads, SendCreate(t) PROVE SinksInv'
<1> DEFINE o == op[t]
           g == o.program
           s == o.stream
           created == [u \in DOMAIN outputs[g] \cup {s} |->
                         IF u = s THEN [type |-> o.type, target |-> o.sink] ELSE outputs[g][u]]
           release == Cardinality(DOMAIN created) > output_high_water[g] + NewSinksBeforeRelease
           kept == DOMAIN created \ (IF release THEN Unused(g, s) ELSE {})
<1>1. CASE UNCHANGED <<outputs, held>>
  BY <1>1, SameSinks
<1>2. CASE /\ HasOutput(g, s) /\ UNCHANGED outputs
           /\ held' = [held EXCEPT ![g] = @ \cup {s}]
  BY <1>2 DEF HasOutput, SinksInv
<1>3. CASE /\ g \in Programs
           /\ outputs' = [outputs EXCEPT ![g] = [u \in kept |-> created[u]]]
           /\ held' = [held EXCEPT ![g] = @ \cup {s}]
  <2>1. DOMAIN created = {s} \cup DOMAIN outputs[g]
    OBVIOUS
  <2>2. held[g] \cup {s} \subseteq kept
    BY <1>3, <2>1 DEF Unused, SinksInv
  <2> HIDE DEF kept, created
  <2> QED BY <1>3, <2>2 DEF SinksInv
<1>4. StillRuns(<<0, g, o.epoch>>) => g \in Programs
  BY DEF StillRuns, Running
<1>5. CASE ~StillRuns(<<0, g, o.epoch>>)
  <2>1. UNCHANGED sinkVars
    BY <1>5 DEF SendCreate
  <2> QED BY <1>1, <2>1 DEF sinkVars
<1>6. CASE StillRuns(<<0, g, o.epoch>>) /\ HasOutput(g, s)
  <2>1. UNCHANGED sinkVars \/ (UNCHANGED outputs /\ held' = [held EXCEPT ![g] = @ \cup {s}])
    BY <1>6 DEF SendCreate
  <2> QED BY <1>1, <1>2, <1>6, <2>1 DEF sinkVars
<1>7. CASE StillRuns(<<0, g, o.epoch>>) /\ ~HasOutput(g, s)
  <2>1. /\ outputs' = [outputs EXCEPT ![g] = [u \in kept |-> created[u]]]
        /\ held' = [held EXCEPT ![g] = @ \cup {s}]
    BY <1>7 DEF SendCreate
  <2> QED BY <1>3, <1>4, <1>7, <2>1
<1> QED BY <1>5, <1>6, <1>7

\* release_stale_output_sinks never releases an output that a program holds a sink for.
THEOREM HeldSinksStay == ConnectionsSpec => []HeldSinkIsRegistered
<1>1. ConnectionsInit => SinksInv
  BY DEF ConnectionsInit, SinksInv
<1>2. SinksInv /\ [ConnectionsNext]_allVars => SinksInv'
  <2> SUFFICES ASSUME SinksInv, [ConnectionsNext]_allVars PROVE SinksInv'
    OBVIOUS
  <2>1. CASE UNCHANGED allVars
    BY <2>1, SameSinks DEF allVars, sinkVars
  <2>2. ASSUME NEW t \in Threads, NEW r \in Requests, ConnectPrograms(t, r[1], r[2], r[3])
        PROVE  SinksInv'
    BY <2>2, SameSinks DEF ConnectPrograms, sinkVars
  <2>3. ASSUME NEW t \in Threads, NEW g \in Programs, Start(t, g)
        PROVE  SinksInv'
    BY <2>3, SameSinks, EmptySinks DEF Start, sinkVars
  <2>4. ASSUME NEW g \in Programs, Stop(g)
        PROVE  SinksInv'
    BY <2>4, EmptySinks DEF Stop
  <2>5. ASSUME NEW g \in Programs, NEW s \in held[g], DropSink(g, s)
        PROVE  SinksInv'
    BY <2>5 DEF DropSink, SinksInv
  <2> QED BY <2>1, <2>2, <2>3, <2>4, <2>5, ConnectKeepsSinks, StartKeepsSinks, SendKeepsSinks,
             CreateKeepsSinks DEF ConnectionsNext
<1>3. SinksInv => HeldSinkIsRegistered
  BY DEF SinksInv, HeldSinkIsRegistered, Running
<1> QED BY <1>1, <1>2, <1>3, PTL DEF ConnectionsSpec

----------------------------------------------------------------------------
(***************************************************************************)
(* The messages of a sink fit the input they reach.  Every way to find an  *)
(* input compares the types, or goes through a conversion; send keeps what *)
(* it found until it has the lock of the program, so the invariant speaks  *)
(* of the sinks on their way as well.                                      *)
(***************************************************************************)
Fit(sink, type) ==
    IsInput(sink) =>
        IF sink.via = <<>> THEN type = InputType[sink.program]
        ELSE /\ FilterSource[sink.via[1]] = type
             /\ FilterTarget[Last(sink.via)] = InputType[sink.program]

IsOutput(output) == {"type", "target"} \subseteq DOMAIN output /\ Fit(output.target, output.type)

OutputsInv ==
    /\ DOMAIN outputs = Programs
    /\ \A g \in Programs : \A s \in DOMAIN outputs[g] : IsOutput(outputs[g][s])

OperationInv(o) == "kind" \in DOMAIN o /\ (o.kind = "send" => Fit(o.sink, o.type))

OpInv == DOMAIN op = Threads /\ \A t \in Threads : OperationInv(op[t])

\* What a search for an input returns: an error, or a sink for messages of the type.
Found(sink, type) == sink \in Errors \/ Fit(sink, type)

LEMMA FilteredInputFits ==
  ASSUME NEW via, NEW owner, NEW close, NEW type,
         via \in Errors \/ (via # <<>> /\ FilterSource[via[1]] = type)
  PROVE  Found(FilteredInput(via, owner, close), type)
<1>1. FilteredInput(via, owner, close) \in Errors
      \/ /\ via # <<>> /\ FilterSource[via[1]] = type
         /\ FilterTarget[Last(via)] = InputType[owner]
         /\ FilteredInput(via, owner, close) = InputOf(via, owner, close)
  BY DEF FilteredInput, Errors
<1>2. /\ InputOf(via, owner, close).via = via
      /\ InputOf(via, owner, close).program = owner
  BY DEF InputOf
<1> QED BY <1>1, <1>2 DEF Found, Fit

LEMMA WithConversionReads ==
  ASSUME NEW f, NEW type
  PROVE  LET via == WithConversion(f, type, Conversion(type, FilterSource[f]))
         IN via \in Errors \/ (via # <<>> /\ FilterSource[via[1]] = type)
<1> DEFINE first == Conversion(type, FilterSource[f])
<1>1. CASE FilterSource[f] = type
  BY <1>1 DEF WithConversion
<1>2. CASE FilterSource[f] # type /\ first = {}
  BY <1>2 DEF WithConversion, Errors
<1>3. CASE FilterSource[f] # type /\ first # {}
  <2>1. (CHOOSE c \in first : TRUE) \in first
    BY <1>3
  <2>2. FilterSource[CHOOSE c \in first : TRUE] = type
    BY <2>1 DEF Conversion
  <2> HIDE DEF first
  <2>3. WithConversion(f, type, first) = <<CHOOSE c \in first : TRUE, f>>
    BY <1>3 DEF WithConversion
  <2> QED BY <2>2, <2>3 DEF first
<1> QED BY <1>1, <1>2, <1>3

LEMMA FilteredFits ==
  ASSUME NEW f, NEW type, NEW g, NEW close
  PROVE  Found(FilteredInputForProgram(f, type, g, close), type)
  BY FilteredInputFits, WithConversionReads DEF FilteredInputForProgram

LEMMA ChainFits ==
  ASSUME NEW f, NEW h, NEW type, NEW g, NEW close
  PROVE  Found(FilteredChainInputForProgram(f, h, type, g, close), type)
<1>1. Chained(<<f, h>>, type) \in Errors
      \/ (Chained(<<f, h>>, type) = <<f, h>> /\ FilterSource[f] = type)
  BY DEF Chained, Errors
<1> QED BY <1>1, FilteredInputFits DEF FilteredChainInputForProgram

LEMMA FilterSourceFits ==
  ASSUME NEW g, NEW type, NEW itype, NEW target
  PROVE  Found(FilterSourceForProgram(g, type, itype, target), type)
<1>1. WrongInputType \in Errors
  BY DEF Errors
<1>2. ASSUME NEW first, NEW connection
      PROVE  Found(ThroughConnection(first, type, connection), type)
  BY <1>1, FilteredFits, ChainFits DEF ThroughConnection, Found
<1> QED BY <1>1, <1>2, FilteredFits DEF FilterSourceForProgram, Found

LEMMA OrDisconnectedFits ==
  ASSUME NEW sink, NEW type, Found(sink, type) PROVE Found(OrDisconnected(sink), type)
  BY DEF OrDisconnected, Found, Fit, IsInput

LEMMA DirectFits ==
  ASSUME NEW g, NEW type, NEW target, NEW owner
  PROVE  Found(DirectSink(g, type, target, owner), type)
<1>1. Found(OrDisconnected(FilterSourceForProgram(g, type, InputType[owner], target)), type)
  BY FilterSourceFits, OrDisconnectedFits
<1>2. InputType[owner] = type => Found(InputOf(<<>>, owner, FALSE), type)
  BY DEF InputOf, Found, Fit
<1>3. Found(Disconnected, type) /\ Found(TargetNotInScene, type)
  BY DEF Found, Fit, IsInput, Errors
<1> QED BY <1>1, <1>2, <1>3 DEF DirectSink

LEMMA SinkForTargetFits ==
  ASSUME NEW g, NEW target, NEW type PROVE Found(SinkForTarget(g, target, type), type)
<1>1. Found(Disconnected, type) /\ Found(Discard, type)
  BY DEF Found, Fit, IsInput
<1>2. ASSUME NEW mapped PROVE Found(SinkForMapped(g, mapped, type), type)
  BY <1>1, DirectFits, FilteredFits, OrDisconnectedFits DEF SinkForMapped
<1>3. ASSUME NEW f, NEW mapped PROVE Found(FilteredSinkForMapped(f, mapped, type), type)
  BY <1>1, FilteredFits, ChainFits, OrDisconnectedFits DEF FilteredSinkForMapped
<1> QED BY <1>2, <1>3 DEF SinkForTarget

\* Reconnecting a sink keeps it fitting.
LEMMA ReconnectedFits ==
  ASSUME NEW g, NEW output, NEW target, IsOutput(output)
  PROVE  IsOutput(Reconnected(g, output, target))
<1> DEFINE sink == SinkForTarget(g, target, output.type)
<1>1. sink \in Errors \/ Fit(sink, output.type)
  BY SinkForTargetFits DEF Found
<1> HIDE DEF sink
<1>2. sink \notin Errors => IsOutput([output EXCEPT !.target = sink])
  BY <1>1 DEF IsOutput
<1> QED BY <1>2 DEF Reconnected, UnlessError, sink

LEMMA ReconnectFits ==
  ASSUME OutputsInv, NEW g \in Programs, NEW type, NEW filter_runs,
         NEW s \in DOMAIN ReconnectDisconnectedOutputs(g, type, filter_runs)
  PROVE  IsOutput(ReconnectDisconnectedOutputs(g, type, filter_runs)[s])
<1>1. s \in DOMAIN outputs[g]
  BY ReconnectedDomain
<1>2. IsOutput(outputs[g][s])
  BY <1>1 DEF OutputsInv
<1> QED BY <1>1, <1>2, ReconnectedFits DEF ReconnectDisconnectedOutputs

LEMMA OutputsOf ==
  ASSUME OutputsInv, NEW g, NEW outs, \A s \in DOMAIN outs : IsOutput(outs[s]),
         outputs' = [outputs EXCEPT ![g] = outs]
  PROVE  OutputsInv'
  BY DEF OutputsInv

LEMMA NoOutputs ==
  ASSUME OutputsInv, NEW g, outputs' = [outputs EXCEPT ![g] = <<>>]
  PROVE  OutputsInv'
<1>1. DOMAIN <<>> = {}
  OBVIOUS
<1> QED BY <1>1, OutputsOf

LEMMA OutputsKept == ASSUME OutputsInv, UNCHANGED outputs PROVE OutputsInv'
  BY DEF OutputsInv

\* Storing what connect_programs found in a sink.
LEMMA AppliedFits ==
  ASSUME OutputsInv, NEW o, NEW g \in Programs, NEW filter_runs,
         HasOutput(g, o.stream), FilterCreated(o), Fits(o, g),
         NEW s \in DOMAIN Applied(o, g, filter_runs)
  PROVE  IsOutput(Applied(o, g, filter_runs)[s])
<1>1. s \in DOMAIN outputs[g] /\ IsOutput(outputs[g][s]) /\ IsOutput(outputs[g][o.stream])
  BY AppliedDomain DEF OutputsInv, HasOutput
<1>2. ASSUME NEW sink, Fit(sink, outputs[g][o.stream].type)
      PROVE  IsOutput(WithTarget(outputs[g], o.stream, sink)[s])
  BY <1>1, <1>2 DEF WithTarget, IsOutput
<1>3. Fit(Disconnected, outputs[g][o.stream].type) /\ Fit(Discard, outputs[g][o.stream].type)
  BY DEF Fit, IsInput
<1>4. CASE o.how[1] = "input"
  <2> DEFINE sink == [via |-> o.how[2], program |-> o.how[3], epoch |-> o.how[4], close |-> o.how[2] # <<>>]
  <2>1. outputs[g][o.stream].type = IF o.how[2] = <<>> THEN InputType[o.how[3]] ELSE FilterSource[o.how[2][1]]
    BY <1>4 DEF Fits
  <2>2. o.how[2] # <<>> => FilterTarget[Last(o.how[2])] = InputType[o.how[3]]
    BY <1>4 DEF FilterCreated
  <2>3. Fit(sink, outputs[g][o.stream].type)
    BY <2>1, <2>2 DEF Fit
  <2> HIDE DEF sink
  <2>4. Applied(o, g, filter_runs) = WithTarget(outputs[g], o.stream, sink)
    BY <1>4 DEF Applied, sink
  <2> QED BY <1>2, <2>3, <2>4
<1>5. CASE o.how[1] = "reconnect"
  BY <1>5, ReconnectFits DEF Applied
<1> QED BY <1>2, <1>3, <1>4, <1>5 DEF Applied

\* What each operation does to the sinks.
LEMMA ConnectOutputs == ASSUME OutputsInv, NEW t \in Threads, ConnectStep(t) PROVE OutputsInv'
<1>1. ConnectFilter(t) \/ ConnectLookup(t) \/ ConnectStore(t) \/ ConnectApplied(t)
      \/ ConnectConversions(t) => UNCHANGED outputs
  <2>1. ConnectFilter(t) => UNCHANGED outputs
    BY DEF ConnectFilter, sinkVars
  <2>2. ConnectLookup(t) => UNCHANGED outputs
    BY DEF ConnectLookup, sinkVars
  <2>3. ConnectStore(t) => UNCHANGED outputs
    BY DEF ConnectStore, sinkVars
  <2>4. ConnectApplied(t) => UNCHANGED outputs
    BY DEF ConnectApplied, sinkVars
  <2>5. ConnectConversions(t) => UNCHANGED outputs
    BY DEF ConnectConversions, sinkVars
  <2> QED BY <2>1, <2>2, <2>3, <2>4, <2>5
<1>2. CASE ConnectApply(t) /\ ~ UNCHANGED outputs
  <2> DEFINE g == First(op[t].todo)[2]
  <2>1. PICK b : outputs' = [outputs EXCEPT ![g] = Applied(op[t], g, b)]
    BY <1>2 DEF ConnectApply
  <2>2. StillRuns(First(op[t].todo)) /\ HasOutput(g, op[t].stream) /\ FilterCreated(op[t]) /\ Fits(op[t], g)
    BY <1>2 DEF ConnectApply
  <2>3. g \in Programs
    BY <2>2 DEF StillRuns, Running
  <2> HIDE DEF g
  <2> QED BY <2>1, <2>2, <2>3, AppliedFits, OutputsOf
<1>3. CASE ConnectReconnect(t) /\ ~ UNCHANGED outputs
  <2>1. PICK x \in op[t].todo, b \in BOOLEAN :
            /\ StillRuns(x)
            /\ outputs' = [outputs EXCEPT ![x[2]] = ReconnectDisconnectedOutputs(x[2], x[4], b)]
    BY <1>3 DEF ConnectReconnect
  <2>2. x[2] \in Programs
    BY <2>1 DEF StillRuns, Running
  <2> QED BY <2>1, <2>2, ReconnectFits, OutputsOf
<1> QED BY <1>1, <1>2, <1>3, OutputsKept DEF ConnectStep

LEMMA StartOutputs ==
  ASSUME OutputsInv, NEW t \in Threads, StartReconnect(t)
  PROVE  OutputsInv'
<1> DEFINE g == First(op[t].todo)[2]
           outs == [s \in DOMAIN outputs[g] |->
                      IF IsForProgram(op[t], s)
                      THEN Reconnected(g, outputs[g][s], <<"Program", op[t].program>>) ELSE outputs[g][s]]
<1>1. CASE UNCHANGED outputs
  BY <1>1, OutputsKept
<1>2. CASE StillRuns(First(op[t].todo)) /\ outputs' = [outputs EXCEPT ![g] = outs]
  <2>1. g \in Programs
    BY <1>2 DEF StillRuns, Running
  <2>2. \A s \in DOMAIN outputs[g] : IsOutput(outputs[g][s])
    BY <2>1 DEF OutputsInv
  <2>3. \A s \in DOMAIN outs : IsOutput(outs[s])
    BY <2>2, ReconnectedFits
  <2> HIDE DEF g, outs
  <2> QED BY <1>2, <2>3, OutputsOf
<1> QED BY <1>1, <1>2 DEF StartReconnect

LEMMA CreateOutputs ==
  ASSUME OutputsInv, OpInv, NEW t \in Threads, SendCreate(t)
  PROVE  OutputsInv'
<1> DEFINE o == op[t]
           g == o.program
           s == o.stream
           created == [u \in DOMAIN outputs[g] \cup {s} |->
                         IF u = s THEN [type |-> o.type, target |-> o.sink] ELSE outputs[g][u]]
           release == Cardinality(DOMAIN created) > output_high_water[g] + NewSinksBeforeRelease
           kept == DOMAIN created \ (IF release THEN Unused(g, s) ELSE {})
           outs == [u \in kept |-> created[u]]
<1>1. CASE ~(StillRuns(<<0, g, o.epoch>>) /\ ~HasOutput(g, s))
  BY <1>1, OutputsKept DEF SendCreate, sinkVars
<1>2. CASE StillRuns(<<0, g, o.epoch>>) /\ ~HasOutput(g, s)
  <2>1. outputs' = [outputs EXCEPT ![g] = outs]
    BY <1>2 DEF SendCreate
  <2>2. g \in Programs
    BY <1>2 DEF StillRuns, Running
  <2>3. Fit(o.sink, o.type)
    BY DEF OpInv, OperationInv, SendCreate, Continue
  <2>4. IsOutput([type |-> o.type, target |-> o.sink])
    BY <2>3 DEF IsOutput
  <2>5. \A u \in DOMAIN outputs[g] : IsOutput(outputs[g][u])
    BY <2>2 DEF OutputsInv
  <2>6. \A u \in DOMAIN created : IsOutput(created[u])
    BY <2>4, <2>5
  <2>7. \A u \in DOMAIN outs : IsOutput(outs[u])
    <3> HIDE DEF created
    <3> QED BY <2>6
  <2> HIDE DEF outs
  <2> QED BY <2>1, <2>7, OutputsOf
<1> QED BY <1>1, <1>2

\* What each operation remembers.
LEMMA OpSet ==
  ASSUME OpInv, NEW t \in Threads, NEW o, OperationInv(o), op' = [op EXCEPT ![t] = o]
  PROVE  OpInv'
  BY DEF OpInv

LEMMA OpKept == ASSUME OpInv, UNCHANGED op PROVE OpInv'
  BY DEF OpInv

\* An operation that is not a send has no sink on its way.
NoSend(o) == "kind" \in DOMAIN o /\ o.kind # "send"

\* Each step of connect_programs goes on with the operation.
LEMMA ConnectGoesOn ==
  ASSUME NEW t, ConnectStep(t)
  PROVE  (\E pc : Continue(t, "connect", pc)) /\ UNCHANGED overlapped
<1>1. ConnectFilter(t) => Continue(t, "connect", "filter") /\ UNCHANGED overlapped
  BY DEF ConnectFilter, Goto
<1>2. ConnectLookup(t) => Continue(t, "connect", "lookup") /\ UNCHANGED overlapped
  BY DEF ConnectLookup, Goto
<1>3. ConnectStore(t) => Continue(t, "connect", "store") /\ UNCHANGED overlapped
  BY DEF ConnectStore, Goto
<1>4. ConnectApply(t) => Continue(t, "connect", "apply") /\ UNCHANGED overlapped
  BY DEF ConnectApply, Goto
<1>5. ConnectApplied(t) => Continue(t, "connect", "apply") /\ UNCHANGED overlapped
  BY DEF ConnectApplied, Goto
<1>6. ConnectConversions(t) => Continue(t, "connect", "conversions") /\ UNCHANGED overlapped
  BY DEF ConnectConversions, Goto
<1>7. ConnectReconnect(t) => Continue(t, "connect", "reconnect") /\ UNCHANGED overlapped
  BY DEF ConnectReconnect, Goto
<1> QED BY <1>1, <1>2, <1>3, <1>4, <1>5, <1>6, <1>7 DEF ConnectStep

LEMMA ConnectOp == ASSUME OpInv, NEW t \in Threads, ConnectStep(t) PROVE OpInv'
<1> DEFINE o == op[t]
<1>1. NoSend(o) /\ NoSend(Idle)
  <2>1. \E pc : Continue(t, "connect", pc)
    BY ConnectGoesOn
  <2> QED BY <2>1 DEF OpInv, OperationInv, NoSend, Idle, Continue
<1>2. \E next : NoSend(next) /\ op' = [op EXCEPT ![t] = next]
  <2> USE <1>1 DEF Goto
  <2>1. CASE ConnectFilter(t)
    BY <2>1 DEF ConnectFilter, NoSend
  <2>2. CASE ConnectLookup(t)
    BY <2>2 DEF ConnectLookup, AfterConnection, NoSend
  <2>3. CASE ConnectStore(t)
    BY <2>3 DEF ConnectStore, NoSend
  <2>4. CASE ConnectApply(t)
    BY <2>4 DEF ConnectApply, NoSend
  <2>5. CASE ConnectApplied(t)
    BY <2>5 DEF ConnectApplied, AfterConnection, NoSend
  <2>6. CASE ConnectConversions(t)
    <3> DEFINE convert == {f \in filter_conversions : FilterTarget[f] = o.stream[1]}
               todo == {<<x[1], x[2], x[3], FilterSource[f]>> : x \in CurrentPrograms, f \in convert}
    <3> HIDE DEF convert, todo
    <3>1. op' = [op EXCEPT ![t] = IF convert = {} THEN Idle ELSE [o EXCEPT !.pc = "reconnect", !.todo = todo]]
      BY <2>6 DEF ConnectConversions, convert, todo
    <3> QED BY <3>1 DEF NoSend
  <2>7. CASE ConnectReconnect(t)
    BY <2>7 DEF ConnectReconnect, NoSend
  <2> QED BY <2>1, <2>2, <2>3, <2>4, <2>5, <2>6, <2>7 DEF ConnectStep
<1> QED BY <1>2, OpSet DEF NoSend, OperationInv

LEMMA StartOp ==
  ASSUME OpInv, NEW t \in Threads, StartSnapshot(t) \/ StartReconnect(t) \/ SendCreate(t)
  PROVE  OpInv'
<1> DEFINE o == op[t]
<1>1. NoSend(Idle)
  BY DEF NoSend, Idle
<1>2. CASE SendCreate(t)
  BY <1>1, <1>2, OpSet DEF SendCreate, Goto, NoSend, OperationInv
<1>3. CASE StartSnapshot(t) \/ StartReconnect(t)
  <2>1. NoSend(o)
    BY <1>3 DEF OpInv, OperationInv, NoSend, StartSnapshot, StartReconnect, Continue
  <2>2. \E next : NoSend(next) /\ op' = [op EXCEPT ![t] = next]
    <3>1. CASE StartSnapshot(t)
      BY <1>1, <2>1, <3>1 DEF StartSnapshot, Goto, NoSend
    <3>2. CASE StartReconnect(t)
      BY <1>1, <2>1, <3>2 DEF StartReconnect, Goto, NoSend
    <3> QED BY <1>3, <3>1, <3>2
  <2> QED BY <2>2, OpSet DEF NoSend, OperationInv
<1> QED BY <1>2, <1>3

LEMMA SendOp ==
  ASSUME OpInv, NEW t \in Threads, NEW g, NEW target, NEW type, Send(t, g, target, type)
  PROVE  OpInv'
<1>1. CASE UNCHANGED op
  BY <1>1, OpKept
<1>2. CASE \E sink \in {SinkForTarget(g, target, type)} \ Errors :
              op' = [op EXCEPT ![t] = [kind |-> "send", pc |-> "create", program |-> g, epoch |-> epoch[g],
                                       stream |-> StreamOf(target, type), type |-> type, sink |-> sink]]
  <2>1. Fit(SinkForTarget(g, target, type), type) \/ SinkForTarget(g, target, type) \in Errors
    BY SinkForTargetFits DEF Found
  <2> DEFINE found == SinkForTarget(g, target, type)
             s == StreamOf(target, type)
             next == [kind |-> "send", pc |-> "create", program |-> g, epoch |-> epoch[g],
                      stream |-> s, type |-> type, sink |-> found]
  <2> HIDE DEF found, s
  <2>2. op' = [op EXCEPT ![t] = next] /\ Fit(found, type)
    BY <1>2, <2>1 DEF found, s
  <2>3. OperationInv(next)
    BY <2>2 DEF OperationInv
  <2> HIDE DEF next
  <2> QED BY <2>2, <2>3, OpSet
<1> QED BY <1>1, <1>2 DEF Send, Begin

\* What holds of the outputs and of the operations is kept by every step.
LEMMA SinksInit == ConnectionsInit => OutputsInv /\ OpInv
  BY DEF ConnectionsInit, OutputsInv, OpInv, OperationInv, Idle

LEMMA SinksStep == OutputsInv /\ OpInv /\ [ConnectionsNext]_allVars => OutputsInv' /\ OpInv'
<1> SUFFICES ASSUME OutputsInv, OpInv, [ConnectionsNext]_allVars PROVE OutputsInv' /\ OpInv'
  OBVIOUS
<1>1. CASE UNCHANGED allVars
  BY <1>1, OutputsKept, OpKept DEF allVars, sinkVars
<1>2. ASSUME NEW t \in Threads, NEW r \in Requests, ConnectPrograms(t, r[1], r[2], r[3])
      PROVE  OutputsInv' /\ OpInv'
  <2> DEFINE std == Standard(r[1], r[2])
             o == [kind |-> "connect", pc |-> IF std[1][1] = "Filtered" THEN "filter" ELSE "lookup",
                   source |-> std[1], target |-> std[2], stream |-> r[3], how |-> <<>>, todo |-> {}]
  <2>1. op' = [op EXCEPT ![t] = o]
    BY <1>2 DEF ConnectPrograms, Begin
  <2>2. UNCHANGED outputs
    BY <1>2 DEF ConnectPrograms, sinkVars
  <2>3. OperationInv(o)
    BY DEF OperationInv
  <2> HIDE DEF o
  <2> QED BY <2>1, <2>2, <2>3, OutputsKept, OpSet
<1>3. ASSUME NEW t \in Threads, NEW g \in Programs, Start(t, g)
      PROVE  OutputsInv' /\ OpInv'
  <2>1. CASE UNCHANGED <<outputs, op>>
    BY <2>1, OutputsKept, OpKept
  <2>2. CASE /\ outputs' = [outputs EXCEPT ![g] = <<>>]
             /\ \E o : o.kind = "start" /\ "kind" \in DOMAIN o /\ op' = [op EXCEPT ![t] = o]
    BY <2>2, NoOutputs, OpSet DEF OperationInv
  <2> QED BY <1>3, <2>1, <2>2 DEF Start, Begin, sinkVars
<1>4. ASSUME NEW g \in Programs, Stop(g)
      PROVE  OutputsInv' /\ OpInv'
  BY <1>4, NoOutputs, OpKept DEF Stop
<1>5. ASSUME NEW g \in Programs, NEW s \in held[g], DropSink(g, s)
      PROVE  OutputsInv' /\ OpInv'
  BY <1>5, OutputsKept, OpKept DEF DropSink
<1>6. ASSUME NEW t \in Threads, NEW x \in Sends, Send(t, x[1], x[2], x[3])
      PROVE  OutputsInv' /\ OpInv'
  BY <1>6, OutputsKept, SendOp DEF Send
<1>7. ASSUME NEW t \in Threads, StartSnapshot(t)
      PROVE  OutputsInv' /\ OpInv'
  BY <1>7, OutputsKept, StartOp DEF StartSnapshot, sinkVars
<1> QED BY <1>1, <1>2, <1>3, <1>4, <1>5, <1>6, <1>7, ConnectOutputs, ConnectOp, StartOutputs,
           StartOp, CreateOutputs DEF ConnectionsNext

\* Every sink that is connected leads to an input of its message type, directly or through
\* filters: what sink_for_target, reconnect_sink and finish_connecting_programs check.
THEOREM SinksAlwaysFit == ConnectionsSpec => []SinkTypesFit
<1>1. OutputsInv => SinkTypesFit
  BY DEF OutputsInv, IsOutput, Fit, SinkTypesFit, Running
<1> QED BY <1>1, SinksInit, SinksStep, PTL DEF ConnectionsSpec

----------------------------------------------------------------------------
(***************************************************************************)
(* Connections that are made for all programs reach their sinks.  While    *)
(* operations do not overlap, one of them is in progress at most, and a    *)
(* sink that a rule for all programs decides is where it should be, or the *)
(* operation has still to visit its program.  The invariant says what each *)
(* operation knows of what it has read (OperationFits), that no connection *)
(* for the messages to one program leads away from a rule that names it    *)
(* (AllAloneFit), and that what need not be visited is done (AllDone).     *)
(***************************************************************************)
Calm == Able /\ ~overlapped

\* No request is about the messages to h alone; filters of T go to programs, or convert.
Alone(T, h) == \A q \in Requests : q[3] # <<T, h>>
Plain(T) == \A q \in Requests : q[1][1] = "Filtered" /\ q[3][1] = T => q[2][1] \in {"Any", "Program"}

\* The connection for all programs from s to m is what decides the sink of g for s.
Rules(g, s, m) ==
    /\ s[2] = None
    /\ m \in Targets \ {<<"None">>, <<"Any">>}
    /\ Connection(<<"Program", g>>, s) = None
    /\ Connection(<<"All">>, s) = m
    /\ \A f \in Filters : Connection(<<"Filtered", f>>, s) \in {None, <<"Any">>}
    /\ Alone(s[1], TargetSubProgram(m))
    /\ m[1] = "Program" => Connection(<<"All">>, <<s[1], m[2]>>) = None

\* The program that m names is there, and messages of type T get to it.
Reaches(m, T) ==
    /\ OwnerOf(TargetSubProgram(m)) = TargetSubProgram(m)
    /\ m[1] = "Filtered" => FilterTarget[m[2]] = InputType[m[3]]
    /\ m[1] = "Program" => \/ InputType[m[2]] = T
                           \/ Conversion(T, InputType[m[2]]) # {} /\ Plain(T)

\* The filters on the way, and the sink that leads there.
Via(m, T) ==
    IF m[1] = "Filtered" THEN <<m[2]>>
    ELSE IF InputType[m[2]] = T THEN <<>>
    ELSE <<CHOOSE f \in Filters : FilterSource[f] = T /\ FilterTarget[f] = InputType[m[2]]>>
Goal(m, T) == InputOf(Via(m, T), TargetSubProgram(m), m[1] = "Filtered")

IsSink(m, T) ==
    /\ Via(m, T) = <<>> \/ Via(m, T) \notin Errors
    /\ Goal(m, T) \notin Errors /\ IsInput(Goal(m, T))

Wanted(g, s, m) == Rules(g, s, m) /\ Reaches(m, s[1]) /\ IsSink(m, s[1])

\* The operation o has still to visit g; and it will then connect the sink for s to m.
ToVisit(o, g) == \E x \in o.todo : x[2] = g /\ StillRuns(x)
Todo(o, g, s, m) ==
    \/ o.kind = "connect" /\ o.pc = "apply" /\ o.stream = s /\ o.source = <<"All">> /\ ToVisit(o, g)
    \/ /\ o.kind = "start" /\ TargetSubProgram(m) = o.program
       /\ o.pc = "snapshot" \/ ToVisit(o, g)

AllDone(o) ==
    \A g \in Running : \A s \in DOMAIN outputs[g] : \A m \in Targets :
        Wanted(g, s, m) /\ outputs[g][s].type = s[1] =>
            outputs[g][s].target = Goal(m, s[1]) \/ Todo(o, g, s, m)

\* Connections are typed, and the filters of those for all programs read their streams.
ConnectionsFit ==
    /\ DOMAIN connections \subseteq Sources \X Streams
    /\ \A k \in DOMAIN connections : connections[k] \in Targets
    /\ filter_conversions \subseteq Filters
    /\ \A k \in DOMAIN connections :
          k[1] = <<"All">> /\ connections[k][1] = "Filtered" => FilterSource[connections[k][2]] = k[2][1]

\* The operation o has made the first of the two connections of a filtered target.
Half(o, T, f, h) ==
    /\ o.kind = "connect" /\ o.source = <<"All">> /\ o.target = <<"Filtered", f, h>>
    /\ \/ o.pc = "apply" /\ o.stream = <<T, None>>
       \/ o.pc \in {"lookup", "store"} /\ o.stream = <<T, h>>

\* When no request is about the messages to h alone, the connections there are for them
\* come from filtered targets, and the second was made after the first.
AloneFit(o, T, h) ==
    /\ \A g \in Programs : Connection(<<"Program", g>>, <<T, h>>) # None
                              => Connection(<<"Program", g>>, <<T, None>>) # None
    /\ Connection(<<"All">>, <<T, h>>) # None => /\ Connection(<<"All">>, <<T, h>>)[1] = "Filtered"
                                                 /\ Connection(<<"All">>, <<T, h>>)[3] = h
    /\ \A f \in Filters : Connection(<<"All">>, <<T, None>>) = <<"Filtered", f, h>> =>
           Connection(<<"All">>, <<T, h>>) = <<"Filtered", f, h>> \/ Half(o, T, f, h)

AllAloneFit(o) == \A T \in Types, h \in Programs : Alone(T, h) => AloneFit(o, T, h)

\* What a connecting operation knows: what was asked for (q), which of its two connections
\* it makes, that the lookup still gives what it gave, and that the connection is stored.
How(o) == o.how = HowToConnect(o.source, o.target, o.stream) /\ o.how # <<"error">>
Stored(o, s) == <<o.source, s>> \in DOMAIN connections /\ connections[<<o.source, s>>] = o.target
Asked(o, q) == TypesFit(q[1], q[2], q[3]) /\ <<o.source, o.target>> = Standard(q[1], q[2])
FirstPart(o, q) == o.stream = q[3] /\ (o.pc \in {"filter", "lookup"} => o.how = <<>>)
SecondPart(o, q) ==
    /\ q[3][2] = None /\ o.target[1] = "Filtered" /\ o.stream = ForTarget(q[3], o.target[3])
    /\ o.pc # "filter" /\ Stored(o, q[3]) /\ How(o)

ConnectInv(o) ==
    /\ DOMAIN o = {"kind", "pc", "source", "target", "stream", "how", "todo"}
    /\ o.pc \in {"filter", "lookup", "store", "apply"} =>
          /\ \E q \in Requests : Asked(o, q) /\ (FirstPart(o, q) \/ SecondPart(o, q))
          /\ o.pc = "filter" => o.source[1] = "Filtered"
          /\ o.pc \in {"store", "apply"} => How(o)
          /\ o.pc # "filter" /\ o.source[1] = "Filtered" /\ o.target = <<"Any">>
                => <<<<"All">>, <<o.stream[1], None>>>> \notin DOMAIN connections
          /\ o.pc = "apply" => /\ Stored(o, o.stream)
                               /\ \A x \in o.todo : x[1] \in Handles /\ Matches(o.source, x[2])

\* A program that starts has no sinks yet, and its copy of the connections is right.
StartInv(o) ==
    /\ DOMAIN o = {"kind", "pc", "program", "connections", "todo"}
    /\ o.program \in Programs /\ DOMAIN outputs[o.program] = {}
    /\ o.pc \in {"snapshot", "reconnect"} /\ (o.pc = "reconnect" => o.connections = connections)

\* The sink that a send has found is still the one it should have.
SendInv(o) ==
    StillRuns(<<0, o.program, o.epoch>>) /\ o.type = o.stream[1] =>
        \A m \in Targets : Wanted(o.program, o.stream, m) => o.sink = Goal(m, o.type)

OperationFits(o) ==
    \/ o = Idle
    \/ o.kind = "connect" /\ ConnectInv(o)
    \/ o.kind = "start" /\ StartInv(o)
    \/ o.kind = "send" /\ SendInv(o)

Body(o) == OperationFits(o) /\ ConnectionsFit /\ AllAloneFit(o) /\ AllDone(o)

Only(t) == \A u \in Threads \ {t} : op[u] = Idle
OneOperation == \A t, u \in Threads : op[t] # Idle /\ op[u] # Idle => t = u

CalmInv ==
    Calm => /\ OneOperation
            /\ \A t \in Threads : Only(t) => Body(op[t])
            /\ Quiet => Body(Idle)

\* What holds whether operations overlap or not.
BaseInv == TableIsSound /\ OutputsInv /\ OpInv /\ DOMAIN epoch = Programs

----------------------------------------------------------------------------
\* The first of two or of three that is not None.
LEMMA FirstOfTwo ==
  ASSUME NEW a, NEW b
  PROVE  FirstOf(<<a, b>>) = IF a # None THEN a ELSE b
<1> DEFINE seq == <<a, b>>
<1>1. /\ DOMAIN seq = {1, 2} /\ seq[1] = a /\ seq[2] = b
  OBVIOUS
<1>2. 1..1-1 = {} /\ 1..2-1 = {1}
  OBVIOUS
<1> HIDE DEF seq
<1>3. CASE a = None /\ b = None
  BY <1>1, <1>3 DEF FirstOf, seq
<1>4. CASE a # None
  <2>1. (CHOOSE i \in DOMAIN seq : seq[i] # None /\ \A j \in 1..i-1 : seq[j] = None) = 1
    BY <1>1, <1>2, <1>4
  <2> QED BY <1>1, <1>4, <2>1 DEF FirstOf, seq
<1>5. CASE a = None /\ b # None
  <2>1. (CHOOSE i \in DOMAIN seq : seq[i] # None /\ \A j \in 1..i-1 : seq[j] = None) = 2
    BY <1>1, <1>2, <1>5
  <2> QED BY <1>1, <1>5, <2>1 DEF FirstOf, seq
<1> QED BY <1>3, <1>4, <1>5

LEMMA FirstOfThree ==
  ASSUME NEW a, NEW b, NEW c, a # None
  PROVE  FirstOf(<<a, b, c>>) = a
<1> DEFINE seq == <<a, b, c>>
<1>1. /\ DOMAIN seq = {1, 2, 3} /\ seq[1] = a
  OBVIOUS
<1>2. 1..1-1 = {} /\ 1 \in 1..2-1 /\ 1 \in 1..3-1
  OBVIOUS
<1> HIDE DEF seq
<1>3. (CHOOSE i \in DOMAIN seq : seq[i] # None /\ \A j \in 1..i-1 : seq[j] = None) = 1
  BY <1>1, <1>2
<1> QED BY <1>1, <1>3 DEF FirstOf, seq

\* The shapes of the targets that lead to a program.
LEMMA TargetShape ==
  ASSUME NEW m \in Targets \ {<<"None">>, <<"Any">>}
  PROVE  /\ TargetSubProgram(m) \in Programs
         /\ \/ m[1] = "Program" /\ m = <<"Program", m[2]>> /\ TargetSubProgram(m) = m[2]
            \/ /\ m[1] = "Filtered" /\ m[2] \in Filters /\ m = <<"Filtered", m[2], m[3]>>
               /\ TargetSubProgram(m) = m[3]
<1>1. CASE m \in {"Program"} \X Programs
  <2>1. m[1] = "Program" /\ m = <<"Program", m[2]>> /\ m[2] \in Programs
    BY <1>1
  <2>2. Len(m) = 2
    BY <2>1
  <2> QED BY <2>1, <2>2 DEF TargetSubProgram
<1>2. CASE m \in {"Filtered"} \X Filters \X Programs
  <2>1. m[1] = "Filtered" /\ m = <<"Filtered", m[2], m[3]>> /\ m[2] \in Filters /\ m[3] \in Programs
    BY <1>2
  <2>2. Len(m) = 3
    BY <2>1
  <2> QED BY <2>1, <2>2 DEF TargetSubProgram
<1> QED BY <1>1, <1>2 DEF Targets

LEMMA ConnectionIs ==
  ASSUME ConnectionsFit, NEW k1, NEW k2, Connection(k1, k2) # None
  PROVE  /\ k1 \in Sources /\ k2 \in Streams /\ Connection(k1, k2) \in Targets
         /\ k1 = <<"All">> /\ Connection(k1, k2)[1] = "Filtered" => FilterSource[Connection(k1, k2)[2]] = k2[1]
<1>1. <<k1, k2>> \in DOMAIN connections /\ Connection(k1, k2) = connections[<<k1, k2>>]
  BY DEF Connection
<1> QED BY <1>1 DEF ConnectionsFit

\* What the rule for all programs says of a stream.
LEMMA RuleIs ==
  ASSUME ConnectionsFit, NEW g, NEW s, NEW m, Rules(g, s, m)
  PROVE  /\ s = <<s[1], None>> /\ s[1] \in Types /\ m # None
         /\ m[1] = "Filtered" => FilterSource[m[2]] = s[1]
<1>1. m # None /\ Connection(<<"All">>, s) = m
  BY ConnectionsAssumption DEF Rules
<1>2. s \in Streams /\ (m[1] = "Filtered" => FilterSource[m[2]] = s[1])
  BY <1>1, ConnectionIs
<1>3. s[2] = None
  BY DEF Rules
<1> QED BY <1>1, <1>2, <1>3 DEF Streams

\* There is one conversion between two types.
LEMMA ConversionIs ==
  ASSUME ConnectionsFit, NEW type, NEW itype, Conversion(type, itype) # {}
  PROVE  (CHOOSE f \in Conversion(type, itype) : TRUE)
           = (CHOOSE f \in Filters : FilterSource[f] = type /\ FilterTarget[f] = itype)
<1> DEFINE c == CHOOSE f \in Conversion(type, itype) : TRUE
           d == CHOOSE f \in Filters : FilterSource[f] = type /\ FilterTarget[f] = itype
<1>1. c \in Conversion(type, itype)
  OBVIOUS
<1>2. c \in Filters /\ FilterSource[c] = type /\ FilterTarget[c] = itype
  BY <1>1 DEF Conversion, ConnectionsFit
<1>3. d \in Filters /\ FilterSource[d] = type /\ FilterTarget[d] = itype
  BY <1>2
<1> QED BY <1>2, <1>3, ConnectionsAssumption

\* The input that is found for what the rule names is the one the sink should have.
LEMMA SinkIsGoal ==
  ASSUME ConnectionsFit, NEW g, NEW s, NEW m, Wanted(g, s, m)
  PROVE  SinkForMapped(g, m, s[1]) = Goal(m, s[1])
<1> DEFINE T == s[1]
           h == TargetSubProgram(m)
           goal == Goal(m, T)
<1> USE DEF Wanted
<1>1. /\ h \in Programs /\ OwnerOf(h) = h /\ h \notin Errors
  BY TargetShape, ConnectionsAssumption DEF Rules, Reaches
<1>2. OrDisconnected(goal) = goal
  BY DEF OrDisconnected, IsSink, Errors
<1>3. CASE m[1] = "Program" /\ InputType[h] = T
  <2>1. SinkForMapped(g, m, T) = InputOf(<<>>, h, FALSE)
    BY <1>1, <1>3, TargetShape DEF SinkForMapped, DirectSink, Rules, Errors
  <2> QED BY <1>3, <2>1, TargetShape DEF Goal, Via, Rules
<1>4. CASE m[1] = "Program" /\ InputType[h] # T
  <2> DEFINE f == CHOOSE c \in Filters : FilterSource[c] = T /\ FilterTarget[c] = InputType[h]
  <2>1. m = <<"Program", h>> /\ Conversion(T, InputType[h]) # {}
    BY <1>4, TargetShape DEF Rules, Reaches
  <2>2. f \in Filters /\ FilterSource[f] = T /\ FilterTarget[f] = InputType[h]
    BY <2>1 DEF Conversion, ConnectionsFit
  <2>3. (CHOOSE c \in Conversion(T, InputType[h]) : TRUE) = f
    BY <2>1, ConversionIs
  <2>4. Via(m, T) = <<f>> /\ goal = InputOf(<<f>>, h, FALSE)
    <3>1. m[1] = "Program" /\ m[2] = h
      BY <2>1
    <3>2. Via(m, T) = <<f>>
      BY <1>4, <3>1, Zenon DEF Via
    <3>3. goal = InputOf(Via(m, T), h, FALSE)
      BY <3>1 DEF Goal
    <3> QED BY <3>2, <3>3
  <2> HIDE DEF f
  <2>5. FilteredInputForProgram(f, T, h, FALSE) = FilteredInput(<<f>>, h, FALSE)
    BY <1>1, <2>2 DEF FilteredInputForProgram, WithConversion
  <2>6. Last(<<f>>) = f
    BY DEF Last
  <2>7. FilteredInput(<<f>>, h, FALSE) = goal
    BY <1>1, <2>2, <2>4, <2>6 DEF FilteredInput, IsSink
  <2>8. FilterSourceForProgram(g, T, InputType[h], h) = goal
    BY <2>1, <2>3, <2>5, <2>7 DEF FilterSourceForProgram
  <2> DEFINE found == FilterSourceForProgram(g, T, InputType[h], h)
             direct == DirectSink(g, T, h, h)
  <2>9. SinkForMapped(g, m, T) = direct
    <3>1. m[1] = "Program" /\ m[2] = h /\ m[1] # "None" /\ m[1] # "Any"
      BY <2>1
    <3> QED BY <1>1, <3>1, Zenon DEF SinkForMapped
  <2>10. direct = OrDisconnected(found)
    <3>1. h # TargetNotInScene /\ h # TargetNotAvailable
      BY <1>1 DEF Errors
    <3> QED BY <1>4, <3>1, Zenon DEF DirectSink
  <2> HIDE DEF found, direct, goal
  <2> QED BY <1>2, <2>8, <2>9, <2>10 DEF found, goal
<1>5. CASE m[1] = "Filtered"
  <2> DEFINE f == m[2]
  <2>1. m[3] = h /\ FilterSource[f] = T /\ FilterTarget[f] = InputType[h]
    <3>1. m[1] = "Filtered" /\ h = m[3] /\ OwnerOf(h) = h
      BY <1>1, <1>5, TargetShape DEF Rules
    <3>2. FilterSource[m[2]] = T
      BY <3>1, RuleIs
    <3>3. FilterTarget[m[2]] = InputType[m[3]]
      BY <3>1 DEF Reaches
    <3> QED BY <3>1, <3>2, <3>3
  <2>2. Via(m, T) = <<f>> /\ goal = InputOf(<<f>>, h, TRUE)
    BY <1>5 DEF Via, Goal
  <2> HIDE DEF f
  <2>3. FilteredInputForProgram(f, T, h, TRUE) = FilteredInput(<<f>>, h, TRUE)
    BY <1>1, <2>1 DEF FilteredInputForProgram, WithConversion
  <2>4. Last(<<f>>) = f
    BY DEF Last
  <2>5. FilteredInput(<<f>>, h, TRUE) = goal
    BY <1>1, <2>1, <2>2, <2>4 DEF FilteredInput, IsSink
  <2> DEFINE found == FilteredInputForProgram(m[2], T, m[3], TRUE)
  <2>6. found = goal
    BY <2>1, <2>3, <2>5 DEF f
  <2>7. SinkForMapped(g, m, T) = OrDisconnected(goal)
    <3>1. m[1] # "None" /\ m[1] # "Any" /\ m[1] # "Program"
      BY <1>5
    <3>2. SinkForMapped(g, m, T) = OrDisconnected(found)
      BY <3>1, Zenon DEF SinkForMapped
    <3> HIDE DEF found, goal
    <3> QED BY <2>6, <3>2
  <2> QED BY <1>2, <2>7
<1> QED BY <1>3, <1>4, <1>5, TargetShape DEF Rules

\* No operation is between the two connections of a filtered target.
Whole(o) == o.kind = "connect" => o.pc \notin {"lookup", "store", "apply"}

\* A rule for all programs is found from a stream without target, and from the program
\* that it names.
LEMMA RuleIsFound ==
  ASSUME ConnectionsFit, NEW o, AllAloneFit(o), Whole(o), NEW g \in Programs, NEW s, NEW m,
         Rules(g, s, m),
         NEW target \in {<<"Any">>, <<"None">>, <<"Program", TargetSubProgram(m)>>}
  PROVE  MappedTarget(g, target, s[1]) = m
<1> DEFINE T == s[1]
           h == TargetSubProgram(m)
<1>1. s = <<T, None>> /\ T \in Types /\ m # None /\ (m[1] = "Filtered" => FilterSource[m[2]] = T)
  BY RuleIs
<1>2. /\ h \in Programs /\ h # None
      /\ \/ m[1] = "Program" /\ m = <<"Program", h>> /\ m[2] = h
         \/ m[1] = "Filtered" /\ m[2] \in Filters /\ m = <<"Filtered", m[2], h>>
  BY TargetShape, TableAssumption DEF Rules
<1>3. Connection(<<"Program", g>>, s) = None /\ Connection(<<"All">>, s) = m
  BY DEF Rules
<1>4. OwnOrGeneral(g, <<T, None>>) = m
  BY <1>1, <1>3, FirstOfTwo DEF OwnOrGeneral
<1>5. AddFilter(m, T) = m
  <2>1. CASE m[1] = "Program"
    <3>1. Connection(<<"All">>, <<T, h>>) = None
      BY <1>2, <2>1 DEF Rules
    <3> QED BY <3>1 DEF AddFilter, WithFilterOf
  <2>2. CASE m[1] = "Filtered"
    BY <2>2 DEF AddFilter, WithFilterOf
  <2> QED BY <1>2, <2>1, <2>2
<1>6. CASE target = <<"Any">>
  <2> DEFINE others == FilterMappedTarget(T)
  <2>1. FirstOf(<<m, others, DefaultTarget[T]>>) = m
    BY <1>1, FirstOfThree
  <2>2. target[1] = "Any" /\ target[1] # "Program" /\ target[1] # "Filtered"
    BY <1>6
  <2>3. RedirectedTarget(g, target, T) = m
    BY <1>4, <2>1, <2>2, Zenon DEF RedirectedTarget
  <2> QED BY <1>5, <2>3 DEF MappedTarget
<1>7. CASE target = <<"None">>
  <2> DEFINE others == FilterMappedTarget(T)
  <2>1. FirstOf(<<m, others, target>>) = m
    BY <1>1, FirstOfThree
  <2>2. target[1] # "Any" /\ target[1] # "Program" /\ target[1] # "Filtered"
    BY <1>7
  <2>3. RedirectedTarget(g, target, T) = m
    BY <1>4, <2>1, <2>2, Zenon DEF RedirectedTarget
  <2> QED BY <1>5, <2>3 DEF MappedTarget
<1>8. CASE target = <<"Program", h>>
  <2> DEFINE own == Connection(<<"Program", g>>, <<T, h>>)
             general == Connection(<<"All">>, <<T, h>>)
  <2>1. AloneFit(o, T, h)
    BY <1>1, <1>2 DEF Rules, AllAloneFit
  <2>2. own = None
    BY <1>1, <1>3, <2>1 DEF AloneFit
  <2>3. general = None \/ general = m
    <3>1. CASE m[1] = "Program"
      BY <1>2, <3>1 DEF Rules
    <3>2. CASE m[1] = "Filtered"
      <4>1. Connection(<<"All">>, <<T, None>>) = <<"Filtered", m[2], h>> /\ m[2] \in Filters
        BY <1>1, <1>2, <1>3, <3>2
      <4>2. ~Half(o, T, m[2], h)
        BY DEF Half, Whole
      <4> QED BY <1>2, <2>1, <3>2, <4>1, <4>2 DEF AloneFit
    <3> QED BY <1>2, <3>1, <3>2
  <2>4. general = None => m = <<"Program", h>>
    <3>1. CASE m[1] = "Filtered"
      <4>1. Connection(<<"All">>, <<T, None>>) = <<"Filtered", m[2], h>> /\ m[2] \in Filters
        BY <1>1, <1>2, <1>3, <3>1
      <4>2. ~Half(o, T, m[2], h)
        BY DEF Half, Whole
      <4> QED BY <1>1, <1>2, <2>1, <3>1, <4>1, <4>2 DEF AloneFit
    <3> QED BY <1>2, <3>1
  <2>5. OwnOrGeneral(g, <<T, h>>) = general
    BY <2>2, FirstOfTwo DEF OwnOrGeneral
  <2>6. target[1] = "Program" /\ target[2] = h
    BY <1>8
  <2> HIDE DEF own, general, h
  <2>7. Redirect(g, <<T, h>>) = m
    <3>1. Redirect(g, <<T, h>>) = FirstOf(<<general, <<"Program", h>>>>)
      BY <2>5 DEF Redirect, TargetProgram
    <3> QED BY <1>1, <2>3, <2>4, <3>1, FirstOfTwo
  <2>8. RedirectedTarget(g, target, T) = m
    BY <2>6, <2>7, Zenon DEF RedirectedTarget
  <2> QED BY <1>5, <2>8 DEF MappedTarget
<1> QED BY <1>6, <1>7, <1>8

\* So each of the searches that a sink is connected with finds what the sink should have.
LEMMA GoalIsFound ==
  ASSUME ConnectionsFit, NEW o, AllAloneFit(o), Whole(o), NEW g \in Programs, NEW s, NEW m,
         Wanted(g, s, m),
         NEW target \in {<<"Any">>, <<"None">>, <<"Program", TargetSubProgram(m)>>}
  PROVE  SinkForTarget(g, target, s[1]) = Goal(m, s[1])
<1>1. MappedTarget(g, target, s[1]) = m
  BY RuleIsFound DEF Wanted
<1>2. target[1] # "Filtered"
  OBVIOUS
<1>3. SinkForMapped(g, m, s[1]) = Goal(m, s[1])
  BY SinkIsGoal
<1> QED BY <1>1, <1>2, <1>3 DEF SinkForTarget

\* What a sink that a rule to m covers is connected from.
LeadingTo(m) == {<<"Any">>, <<"None">>, <<"Program", TargetSubProgram(m)>>}

\* A sink that is connected again gets what it should have.
LEMMA ReconnectedToGoal ==
  ASSUME ConnectionsFit, NEW o, AllAloneFit(o), Whole(o), NEW g \in Programs, NEW s, NEW m,
         Wanted(g, s, m), NEW output, IsOutput(output), output.type = s[1],
         NEW target \in LeadingTo(m)
  PROVE  /\ Reconnected(g, output, target).target = Goal(m, s[1])
         /\ Reconnected(g, output, target).type = s[1]
<1> DEFINE sink == SinkForTarget(g, target, output.type)
<1>1. sink = Goal(m, s[1]) /\ sink \notin Errors
  BY GoalIsFound DEF Wanted, IsSink, LeadingTo
<1> HIDE DEF sink
<1>2. Reconnected(g, output, target) = [output EXCEPT !.target = sink]
  BY <1>1 DEF Reconnected, UnlessError, sink
<1> QED BY <1>1, <1>2 DEF IsOutput

LEMMA ActiveTargetIs ==
  ASSUME NEW m, NEW T, IsSink(m, T), NEW b
  PROVE  ActiveTarget(Goal(m, T), b) \in {<<"None">>, <<"Program", TargetSubProgram(m)>>}
<1> DEFINE sink == Goal(m, T)
<1>1. sink # Disconnected /\ sink # Discard
  BY DEF IsSink, IsInput
<1>2. sink.program = TargetSubProgram(m)
  BY DEF Goal, InputOf
<1> HIDE DEF sink
<1>3. ActiveTarget(sink, b) = IF Alive(sink) \/ (sink.via # <<>> /\ b) THEN <<"Program", sink.program>> ELSE <<"None">>
  BY <1>1, Zenon DEF ActiveTarget
<1> QED BY <1>2, <1>3 DEF sink

\* What finish_connecting_programs stores in the sinks is what they should have.
LEMMA HowIsGoal ==
  ASSUME ConnectionsFit, NEW g, NEW s, NEW m, Wanted(g, s, m)
  PROVE  LET how == HowToConnect(<<"All">>, m, s) IN
         /\ how[1] = "input" /\ how[3] = TargetSubProgram(m) /\ how[4] = epoch[TargetSubProgram(m)]
         /\ how[2] = IF m[1] = "Filtered" THEN <<m[2]>> ELSE <<>>
<1> DEFINE T == s[1]
           h == TargetSubProgram(m)
<1>1. /\ h \in Programs /\ OwnerOf(h) = h /\ h \notin Errors
      /\ \/ m[1] = "Program" /\ m = <<"Program", h>>
         \/ m[1] = "Filtered" /\ m = <<"Filtered", m[2], h>> /\ FilterTarget[m[2]] = InputType[h]
  BY TargetShape, ConnectionsAssumption DEF Wanted, Rules, Reaches
<1>2. CASE m[1] = "Program"
  <2>1. GetTargetInput(h, T) = h
    <3>1. InputType[h] = T \/ Conversion(T, InputType[h]) # {}
      BY <1>1, <1>2 DEF Wanted, Reaches
    <3> QED BY <1>1, <3>1 DEF GetTargetInput, IfItReads
  <2>2. OrDisconnect(h) = <<"input", <<>>, h, epoch[h]>>
    BY <1>1 DEF OrDisconnect, InputFound, Errors
  <2>3. m[1] # "None" /\ m[1] # "Any" /\ m[2] = h /\ m[1] # "Filtered"
    BY <1>1, <1>2
  <2> HIDE DEF h, T
  <2>4. HowToConnect(<<"All">>, m, s) = OrDisconnect(GetTargetInput(h, T))
    BY <1>2, <2>3, Zenon DEF HowToConnect, T
  <2> QED BY <2>1, <2>2, <2>3, <2>4 DEF h
<1>3. CASE m[1] = "Filtered"
  <2>1. GetTargetInput(h, FilterTarget[m[2]]) = h
    BY <1>1, <1>3 DEF GetTargetInput, IfItReads
  <2>2. InputFound(<<m[2]>>, h) = <<"input", <<m[2]>>, h, epoch[h]>>
    BY <1>1 DEF InputFound
  <2>3. m[1] # "None" /\ m[1] # "Any" /\ m[3] = h /\ m[1] # "Program"
    BY <1>1, <1>3
  <2> HIDE DEF h, T
  <2>4. HowToConnect(<<"All">>, m, s) = InputFound(<<m[2]>>, GetTargetInput(h, FilterTarget[m[2]]))
    BY <2>3, Zenon DEF HowToConnect
  <2> QED BY <1>3, <2>1, <2>2, <2>4 DEF h
<1> QED BY <1>1, <1>2, <1>3

\* The first of some programs is one of them.
LEMMA FirstIsIn ==
  ASSUME NEW todo, todo # {}, \A x \in todo : x[1] \in Handles
  PROVE  First(todo) \in todo
<1> DEFINE R == {ss \in Nat \X Nat : ss[1] < ss[2]}
           handles == {x[1] : x \in todo}
<1>1. IsWellFoundedOn(R, Nat)
  BY NatLessThanWellFounded DEF OpToRel
<1>2. \A a, b \in Nat : a < b => <<a, b>> \in R
  OBVIOUS
<1>3. handles \subseteq Nat /\ handles # {}
  BY TableAssumption DEF Handles
<1> HIDE DEF R
<1>4. PICK a \in handles : \A b \in handles : <<b, a>> \notin R
  BY <1>1, <1>3, WFMin
<1>5. PICK x \in todo : x[1] = a
  OBVIOUS
<1>6. \A y \in todo : x[1] <= y[1]
  <2> SUFFICES ASSUME NEW y \in todo PROVE x[1] <= y[1]
    OBVIOUS
  <2>1. y[1] \in handles /\ a \in Nat /\ y[1] \in Nat
    BY <1>3
  <2> HIDE DEF handles
  <2>2. ~(y[1] < a)
    BY <1>2, <1>4, <2>1
  <2> QED BY <1>5, <2>1, <2>2
<1> QED BY <1>5, <1>6 DEF First

----------------------------------------------------------------------------
\* What the parts of the invariant depend on.
LEMMA SameConnections ==
  ASSUME UNCHANGED connections
  PROVE  /\ \A a, b : Connection(a, b)' = Connection(a, b)
         /\ \A g, s, m : Rules(g, s, m)' <=> Rules(g, s, m)
         /\ \A o : AllAloneFit(o)' <=> AllAloneFit(o)
<1>1. \A a, b : Connection(a, b)' = Connection(a, b)
  BY DEF Connection
<1>2. \A g, s, m : Rules(g, s, m)' <=> Rules(g, s, m)
  BY <1>1 DEF Rules
<1>3. \A o, T, h : AloneFit(o, T, h)' <=> AloneFit(o, T, h)
  BY <1>1 DEF AloneFit
<1>4. \A o : AllAloneFit(o)' <=> AllAloneFit(o)
  BY <1>3 DEF AllAloneFit
<1> QED BY <1>1, <1>2, <1>4

LEMMA SameTable ==
  ASSUME UNCHANGED <<vars, filter_conversions>>
  PROVE  /\ \A h : OwnerOf(h)' = OwnerOf(h)
         /\ \A a, b : Conversion(a, b)' = Conversion(a, b)
         /\ \A m, T : Reaches(m, T)' <=> Reaches(m, T)
         /\ \A h, T : GetTargetInput(h, T)' = GetTargetInput(h, T)
<1>1. \A h : OwnerOf(h)' = OwnerOf(h)
  BY DEF OwnerOf, vars
<1>2. \A a, b : Conversion(a, b)' = Conversion(a, b)
  BY DEF Conversion
<1>3. \A m, T : Reaches(m, T)' <=> Reaches(m, T)
  BY <1>1, <1>2 DEF Reaches
<1>4. \A h, T : GetTargetInput(h, T)' = GetTargetInput(h, T)
  BY <1>1, <1>2 DEF GetTargetInput, IfItReads
<1> QED BY <1>1, <1>2, <1>3, <1>4

LEMMA SameGoal ==
  ASSUME NEW m, epoch'[TargetSubProgram(m)] = epoch[TargetSubProgram(m)], NEW T
  PROVE  Goal(m, T)' = Goal(m, T) /\ (IsSink(m, T)' <=> IsSink(m, T))
<1>1. Goal(m, T)' = Goal(m, T)
  BY DEF Goal, InputOf
<1> QED BY <1>1 DEF IsSink

LEMMA SameWanted ==
  ASSUME UNCHANGED <<vars, connections, filter_conversions, epoch>>
  PROVE  /\ \A g, s, m : Wanted(g, s, m)' <=> Wanted(g, s, m)
         /\ \A m, T : Goal(m, T)' = Goal(m, T)
         /\ \A x : StillRuns(x)' <=> StillRuns(x)
         /\ \A o, g, s, m : Todo(o, g, s, m)' <=> Todo(o, g, s, m)
<1>1. \A m, T : Goal(m, T)' = Goal(m, T) /\ (IsSink(m, T)' <=> IsSink(m, T))
  BY SameGoal
<1>2. \A g, s, m : Wanted(g, s, m)' <=> Wanted(g, s, m)
  BY <1>1, SameConnections, SameTable DEF Wanted
<1>3. \A x : StillRuns(x)' <=> StillRuns(x)
  BY DEF StillRuns, Running, vars
<1>4. \A o, g, s, m : Todo(o, g, s, m)' <=> Todo(o, g, s, m)
  BY <1>3 DEF Todo, ToVisit
<1> QED BY <1>1, <1>2, <1>3, <1>4

LEMMA SameHow ==
  ASSUME UNCHANGED <<vars, filter_conversions, epoch>>
  PROVE  \A o : How(o)' <=> How(o)
<1>1. \A via, owner : InputFound(via, owner)' = InputFound(via, owner)
  BY DEF InputFound
<1>2. \A owner : OrDisconnect(owner)' = OrDisconnect(owner)
  BY <1>1 DEF OrDisconnect
<1>3. \A h, T : GetTargetInput(h, T)' = GetTargetInput(h, T)
  BY SameTable
<1>4. ASSUME NEW a, NEW b, NEW c PROVE HowToConnect(a, b, c)' = HowToConnect(a, b, c)
  BY <1>1, <1>2, <1>3 DEF HowToConnect
<1> QED BY <1>4 DEF How

LEMMA SameConnect ==
  ASSUME UNCHANGED <<vars, connections, filter_conversions, epoch>>, NEW o
  PROVE  ConnectInv(o)' <=> ConnectInv(o)
<1>1. \A q : SecondPart(o, q)' <=> SecondPart(o, q)
  BY SameHow DEF SecondPart, Stored
<1>2. How(o)' <=> How(o)
  BY SameHow
<1>3. Stored(o, o.stream)' <=> Stored(o, o.stream)
  BY DEF Stored
<1> QED BY <1>1, <1>2, <1>3 DEF ConnectInv

LEMMA SameFit ==
  ASSUME UNCHANGED <<connections, filter_conversions>>
  PROVE  ConnectionsFit' <=> ConnectionsFit
BY DEF ConnectionsFit

LEMMA SameBody ==
  ASSUME UNCHANGED <<vars, connections, filter_conversions, outputs, epoch>>, NEW o
  PROVE  Body(o)' <=> Body(o)
<1>1. ConnectInv(o)' <=> ConnectInv(o)
  BY SameConnect
<1>2. StartInv(o)' <=> StartInv(o)
  BY DEF StartInv
<1>3. SendInv(o)' <=> SendInv(o)
  BY SameWanted DEF SendInv
<1>4. OperationFits(o)' <=> OperationFits(o)
  BY <1>1, <1>2, <1>3 DEF OperationFits, Idle
<1>5. AllDone(o)' <=> AllDone(o)
  BY SameWanted DEF AllDone, Running, vars
<1> QED BY <1>4, <1>5, SameFit, SameConnections DEF Body

----------------------------------------------------------------------------
\* What the operation of a thread was asked for.
LEMMA AskedIs ==
  ASSUME NEW o, NEW q \in Requests, Asked(o, q)
  PROVE  /\ o.source \in Sources /\ o.target \in Targets /\ q[3] \in Streams
         /\ o.source = <<"All">> /\ o.target[1] = "Filtered" => FilterSource[o.target[2]] = q[3][1]
         /\ o.source[1] = "Filtered" => /\ o.source = q[1] /\ o.target = q[2] /\ q[2][1] # "Program"
                                        /\ o.source[2] \in Filters /\ FilterSource[o.source[2]] = q[3][1]
<1>1. q[1] \in Sources /\ q[2] \in Targets /\ q[3] \in Streams
  BY ConnectionsAssumption
<1>2. TypesFit(q[1], q[2], q[3]) /\ <<o.source, o.target>> = Standard(q[1], q[2])
  BY DEF Asked
<1>3. q[1][1] = "Filtered" => q[1] \in {"Filtered"} \X Filters
  BY <1>1 DEF Sources
<1>4. CASE q[1][1] = "Filtered" /\ q[2][1] = "Program"
  <2>1. /\ o.source = <<"All">> /\ o.target = <<"Filtered", q[1][2], q[2][2]>>
        /\ FilterSource[q[1][2]] = q[3][1]
    BY <1>2, <1>4 DEF Standard, TypesFit
  <2>2. q[2] \in {"Program"} \X Programs
    BY <1>1, <1>4 DEF Targets
  <2>3. o.source \in Sources /\ o.target \in Targets
    BY <1>3, <1>4, <2>1, <2>2 DEF Sources, Targets
  <2>4. o.source[1] = "All" /\ o.target[2] = q[1][2]
    BY <2>1
  <2> QED BY <1>1, <2>1, <2>3, <2>4
<1>5. CASE ~(q[1][1] = "Filtered" /\ q[2][1] = "Program")
  <2>1. o.source = q[1] /\ o.target = q[2]
    BY <1>2, <1>5 DEF Standard
  <2>2. o.source = <<"All">> => o.source[1] # "Filtered"
    BY <2>1
  <2> QED BY <1>1, <1>2, <1>3, <1>5, <2>1, <2>2 DEF TypesFit
<1> QED BY <1>4, <1>5

LEMMA ConnectIs == ASSUME NEW o, OperationFits(o), o.kind = "connect" PROVE ConnectInv(o)
  BY DEF OperationFits, Idle

\* What is true while nothing is under way.
LEMMA IdleFits ==
  ASSUME ConnectionsFit
  PROVE  /\ OperationFits(Idle)
         /\ \A g, s, m : ~Todo(Idle, g, s, m)
         /\ \A T, f, h : ~Half(Idle, T, f, h)
BY DEF OperationFits, Idle, Todo, Half

\* An operation that starts with nothing to visit changes nothing that was done.
LEMMA DoneAnyway ==
  ASSUME NEW o, NEW next, AllDone(o), \A g, s, m : ~Todo(o, g, s, m)
  PROVE  AllDone(next)
  BY DEF AllDone

LEMMA AloneAnyway ==
  ASSUME NEW o, NEW next, AllAloneFit(o),
         \A T, f, h : Alone(T, h) /\ Half(o, T, f, h) => Half(next, T, f, h)
  PROVE  AllAloneFit(next)
<1>1. \A T, h : Alone(T, h) /\ AloneFit(o, T, h) => AloneFit(next, T, h)
  BY DEF AloneFit
<1> QED BY <1>1 DEF AllAloneFit

LEMMA BodyOf ==
  ASSUME NEW o, NEW next, Body(o), OperationFits(next),
         \A g, s, m : ~Todo(o, g, s, m),
         \A T, f, h : Alone(T, h) /\ Half(o, T, f, h) => Half(next, T, f, h)
  PROVE  Body(next)
  BY DoneAnyway, AloneAnyway DEF Body

\* connect_programs begins.
LEMMA ConnectProgramsBody ==
  ASSUME BaseInv, NEW t \in Threads, Body(Idle), NEW q \in Requests, ConnectPrograms(t, q[1], q[2], q[3])
  PROVE  \E o : op' = [op EXCEPT ![t] = o] /\ Body(o)'
<1> DEFINE std == Standard(q[1], q[2])
           o == [kind |-> "connect", pc |-> IF std[1][1] = "Filtered" THEN "filter" ELSE "lookup",
                 source |-> std[1], target |-> std[2], stream |-> q[3], how |-> <<>>, todo |-> {}]
<1>1. op' = [op EXCEPT ![t] = o] /\ UNCHANGED <<vars, connections, filter_conversions, outputs, epoch>>
  BY DEF ConnectPrograms, Begin, connectionVars, sinkVars
<1>2. /\ o.kind = "connect" /\ DOMAIN o = {"kind", "pc", "source", "target", "stream", "how", "todo"}
      /\ o.pc \in {"filter", "lookup"} /\ (o.pc = "filter" <=> o.source[1] = "Filtered")
      /\ o.stream = q[3] /\ o.how = <<>> /\ o.source = std[1] /\ o.target = std[2]
  OBVIOUS
<1>3. TypesFit(q[1], q[2], q[3])
  BY DEF ConnectPrograms
<1>4. std = <<std[1], std[2]>>
  BY DEF Standard
<1> HIDE DEF o, std
<1>5. Asked(o, q) /\ FirstPart(o, q)
  BY <1>2, <1>3, <1>4 DEF Asked, FirstPart, std
<1>6. ConnectInv(o)
  BY <1>2, <1>5 DEF ConnectInv
<1>7. OperationFits(o)
  BY <1>2, <1>6 DEF OperationFits
<1>8. Body(o)
  BY <1>7, IdleFits, BodyOf DEF Body
<1> QED BY <1>1, <1>8, SameBody

LEMMA ConnectLookupBody ==
  ASSUME BaseInv, NEW t \in Threads, Body(op[t]), ConnectLookup(t)
  PROVE  \E o : op' = [op EXCEPT ![t] = o] /\ Body(o)'
<1> DEFINE o == op[t]
           how == HowToConnect(o.source, o.target, o.stream)
<1>1. o.kind = "connect" /\ o.pc = "lookup" /\ ConnectInv(o)
  BY ConnectIs DEF ConnectLookup, Continue, Body
<1>2. UNCHANGED <<vars, connections, filter_conversions, outputs, epoch>>
  BY DEF ConnectLookup, connectionVars, sinkVars
<1>3. \A g, s, m : ~Todo(o, g, s, m)
  BY <1>1 DEF Todo
<1>4. PICK q \in Requests : Asked(o, q) /\ (FirstPart(o, q) \/ SecondPart(o, q))
  BY <1>1 DEF ConnectInv
<1>5. DOMAIN o = {"kind", "pc", "source", "target", "stream", "how", "todo"}
  BY <1>1 DEF ConnectInv
<1>6. CASE how # <<"error">> /\ op' = [op EXCEPT ![t] = [o EXCEPT !.pc = "store", !.how = how]]
  <2> DEFINE next == [o EXCEPT !.pc = "store", !.how = how]
  <2> HIDE DEF how
  <2>1. /\ DOMAIN next = DOMAIN o /\ next.kind = "connect" /\ next.pc = "store" /\ next.how = how
        /\ next.source = o.source /\ next.target = o.target /\ next.stream = o.stream
    BY <1>1, <1>5
  <2> HIDE DEF next, o
  <2>2. How(next)
    BY <1>6, <2>1 DEF How, how
  <2>3. Asked(next, q) /\ (FirstPart(next, q) \/ SecondPart(next, q))
    BY <1>4, <2>1, <2>2 DEF Asked, FirstPart, SecondPart, Stored
  <2>4. next.source[1] = "Filtered" /\ next.target = <<"Any">>
            => <<<<"All">>, <<next.stream[1], None>>>> \notin DOMAIN connections
    BY <1>1, <2>1 DEF ConnectInv
  <2>5. ConnectInv(next)
    BY <1>5, <2>1, <2>2, <2>3, <2>4 DEF ConnectInv
  <2>6. OperationFits(next)
    BY <2>1, <2>5 DEF OperationFits
  <2>7. \A T, f, h : Half(o, T, f, h) => Half(next, T, f, h)
    BY <1>1, <2>1 DEF Half
  <2>8. Body(next)
    BY <1>3, <2>6, <2>7, BodyOf DEF o
  <2> QED BY <1>2, <1>6, <2>8, SameBody DEF next, o
<1>7. CASE how = <<"error">> /\ op' = [op EXCEPT ![t] = IF o.target[1] = "Filtered" /\ o.how # <<>>
                                                       THEN AfterConnection(o) ELSE Idle]
  <2>1. ~SecondPart(o, q)
    BY <1>7 DEF SecondPart, How
  <2>2. o.how = <<>> /\ o.stream = q[3]
    BY <1>1, <1>4, <2>1 DEF FirstPart
  <2>3. op' = [op EXCEPT ![t] = Idle]
    BY <1>7, <2>2
  <2>4. \A T, f, h : Alone(T, h) => ~Half(o, T, f, h)
    BY <1>1, <2>2 DEF Alone, Half
  <2>5. Body(Idle)
    BY <1>3, <2>4, IdleFits, BodyOf DEF Body
  <2> QED BY <1>2, <2>3, <2>5, SameBody
<1> QED BY <1>6, <1>7 DEF ConnectLookup, Goto

\* The second of the two connections of a filtered target follows the first.
LEMMA ConnectAppliedBody ==
  ASSUME BaseInv, NEW t \in Threads, Body(op[t]), ConnectApplied(t)
  PROVE  \E o : op' = [op EXCEPT ![t] = o] /\ Body(o)'
<1> DEFINE o == op[t]
<1>1. o.kind = "connect" /\ o.pc = "apply" /\ ConnectInv(o) /\ o.todo = {}
  BY ConnectIs DEF ConnectApplied, Continue, Body
<1>2. UNCHANGED <<vars, connections, filter_conversions, outputs, epoch>>
  BY DEF ConnectApplied, connectionVars, sinkVars
<1>3. \A g, s, m : ~Todo(o, g, s, m)
  BY <1>1 DEF Todo, ToVisit
<1>4. PICK q \in Requests : Asked(o, q) /\ (FirstPart(o, q) \/ SecondPart(o, q))
  BY <1>1 DEF ConnectInv
<1>5. DOMAIN o = {"kind", "pc", "source", "target", "stream", "how", "todo"}
  BY <1>1 DEF ConnectInv
<1>6. How(o) /\ Stored(o, o.stream)
  BY <1>1 DEF ConnectInv
<1>7. o.target \in Targets
  BY <1>4, AskedIs
<1>8. CASE /\ o.target[1] = "Filtered" /\ TargetProgram(o.stream) = None
           /\ op' = [op EXCEPT ![t] = [o EXCEPT !.pc = "lookup", !.stream = ForTarget(@, o.target[3])]]
  <2> DEFINE next == [o EXCEPT !.pc = "lookup", !.stream = ForTarget(o.stream, o.target[3])]
  <2>0. op' = [op EXCEPT ![t] = next]
    BY <1>8
  <2>1. /\ DOMAIN next = DOMAIN o /\ next.kind = "connect" /\ next.pc = "lookup" /\ next.how = o.how
        /\ next.source = o.source /\ next.target = o.target
        /\ next.stream = ForTarget(o.stream, o.target[3])
    BY <1>1, <1>5
  <2> HIDE DEF next, o
  <2>2. o.target[3] \in Programs /\ o.target[3] # None
    <3>1. o.target \in {"Filtered"} \X Filters \X Programs
      BY <1>7, <1>8 DEF Targets
    <3> QED BY <3>1, TableAssumption
  <2>3. FirstPart(o, q)
    <3>1. ~SecondPart(o, q)
      BY <1>8, <2>2 DEF SecondPart, TargetProgram, ForTarget
    <3> QED BY <1>4, <3>1
  <2>4. How(next)
    <3>1. \A s : HowToConnect(o.source, o.target, s) = InputFound(<<o.target[2]>>, GetTargetInput(o.target[3], FilterTarget[o.target[2]]))
      <4>1. o.target[1] # "None" /\ o.target[1] # "Any" /\ o.target[1] # "Program"
        BY <1>8
      <4> QED BY <4>1, Zenon DEF HowToConnect
    <3> QED BY <1>6, <2>1, <3>1 DEF How
  <2>5. SecondPart(next, q)
    BY <1>6, <1>8, <2>1, <2>3, <2>4 DEF SecondPart, FirstPart, TargetProgram, Stored
  <2>6. Asked(next, q)
    BY <1>4, <2>1 DEF Asked
  <2>7. next.target # <<"Any">>
    BY <1>8, <2>1
  <2>8. ConnectInv(next)
    BY <1>5, <2>1, <2>5, <2>6, <2>7 DEF ConnectInv
  <2>9. OperationFits(next)
    BY <2>1, <2>8 DEF OperationFits
  <2>10. \A T, f, h : Half(o, T, f, h) => Half(next, T, f, h)
    <3> SUFFICES ASSUME NEW T, NEW f, NEW h, Half(o, T, f, h) PROVE Half(next, T, f, h)
      OBVIOUS
    <3>1. o.stream = <<T, None>> /\ o.target = <<"Filtered", f, h>> /\ o.source = <<"All">>
      BY <1>1 DEF Half
    <3>2. next.stream = <<T, h>>
      BY <2>1, <3>1 DEF ForTarget
    <3> QED BY <2>1, <3>1, <3>2 DEF Half
  <2>11. Body(next)
    BY <1>3, <2>9, <2>10, BodyOf DEF o
  <2> QED BY <1>2, <2>0, <2>11, SameBody
<1>9. CASE /\ ~(o.target[1] = "Filtered" /\ TargetProgram(o.stream) = None)
           /\ op' = [op EXCEPT ![t] = AfterConnection(o)]
  <2> DEFINE next == AfterConnection(o)
  <2>1. DOMAIN next = DOMAIN o /\ next.kind = "connect" /\ next.pc = "conversions"
    BY <1>1, <1>5 DEF AfterConnection
  <2> HIDE DEF next, o
  <2>2. OperationFits(next)
    BY <1>5, <2>1 DEF OperationFits, ConnectInv
  <2>3. \A T, f, h : ~Half(o, T, f, h)
    BY <1>1, <1>9 DEF Half, TargetProgram
  <2>4. Body(next)
    BY <1>3, <2>2, <2>3, BodyOf DEF o
  <2> QED BY <1>2, <1>9, <2>4, SameBody DEF next, o
<1> QED BY <1>8, <1>9 DEF ConnectApplied, Goto

LEMMA ConnectConversionsBody ==
  ASSUME BaseInv, NEW t \in Threads, Body(op[t]), ConnectConversions(t)
  PROVE  \E o : op' = [op EXCEPT ![t] = o] /\ Body(o)'
<1> DEFINE o == op[t]
           convert == {f \in filter_conversions : FilterTarget[f] = o.stream[1]}
           todo == {<<x[1], x[2], x[3], FilterSource[f]>> : x \in CurrentPrograms, f \in convert}
           next == IF convert = {} THEN Idle ELSE [o EXCEPT !.pc = "reconnect", !.todo = todo]
<1>1. o.kind = "connect" /\ o.pc = "conversions" /\ ConnectInv(o)
  BY ConnectIs DEF ConnectConversions, Continue, Body
<1>2. UNCHANGED <<vars, connections, filter_conversions, outputs, epoch>>
  BY DEF ConnectConversions, connectionVars, sinkVars
<1>3. op' = [op EXCEPT ![t] = next]
  BY DEF ConnectConversions, Goto
<1>4. \A g, s, m : ~Todo(o, g, s, m)
  BY <1>1 DEF Todo
<1>5. \A T, f, h : ~Half(o, T, f, h)
  BY <1>1 DEF Half
<1> HIDE DEF convert, todo
<1>6. next = Idle \/ (next.kind = "connect" /\ next.pc = "reconnect" /\ DOMAIN next = DOMAIN o)
  BY <1>1 DEF ConnectInv
<1> HIDE DEF next
<1>7. OperationFits(next)
  BY <1>1, <1>6 DEF OperationFits, ConnectInv
<1>8. Body(next)
  BY <1>4, <1>5, <1>7, BodyOf
<1> QED BY <1>2, <1>3, <1>8, SameBody

\* A filter that becomes a conversion: no rule for its messages is left, if it is
\* connected as one.
LEMMA ConnectFilterBody ==
  ASSUME BaseInv, NEW t \in Threads, Body(op[t]), ConnectFilter(t)
  PROVE  \E o : op' = [op EXCEPT ![t] = o] /\ Body(o)'
<1> DEFINE o == op[t]
           c == o.source[2]
           from == FilterSource[c]
<1> PICK next : next = [o EXCEPT !.pc = "lookup"]
  OBVIOUS
<1>1. o.kind = "connect" /\ o.pc = "filter" /\ ConnectInv(o) /\ op' = [op EXCEPT ![t] = next]
  BY ConnectIs DEF ConnectFilter, Continue, Body, Goto
<1>2. UNCHANGED <<vars, outputs, epoch>> /\ filter_conversions' = filter_conversions \cup {c}
  BY DEF ConnectFilter, sinkVars
<1>3. /\ o.target[1] = "Any" => connections' = [k \in DOMAIN connections \ {<<<<"All">>, <<from, None>>>>} |-> connections[k]]
      /\ o.target[1] # "Any" => connections' = connections
  BY DEF ConnectFilter
<1>4. /\ DOMAIN o = {"kind", "pc", "source", "target", "stream", "how", "todo"}
      /\ o.source[1] = "Filtered"
  BY <1>1 DEF ConnectInv
<1>5. PICK q \in Requests : Asked(o, q) /\ FirstPart(o, q)
  BY <1>1 DEF ConnectInv, SecondPart
<1>6. /\ o.source = q[1] /\ o.target = q[2] /\ q[2][1] # "Program" /\ o.target \in Targets
      /\ c \in Filters /\ from = q[3][1] /\ o.stream = q[3]
  BY <1>4, <1>5, AskedIs DEF FirstPart
<1>7. /\ DOMAIN next = DOMAIN o /\ next.kind = "connect" /\ next.pc = "lookup" /\ next.how = o.how
      /\ next.source = o.source /\ next.target = o.target /\ next.stream = o.stream
  BY <1>1, <1>4
<1>8. /\ \A g, s, m : ~Todo(o, g, s, m)
      /\ \A T, f, h : ~Half(o, T, f, h)
  BY <1>1 DEF Todo, Half
<1>9. ConnectionsFit /\ AllAloneFit(o) /\ AllDone(o)
  BY DEF Body
<1>10. DOMAIN connections' \subseteq DOMAIN connections /\ \A k \in DOMAIN connections' : connections'[k] = connections[k]
  BY <1>3
<1>11. \A a, b : <<a, b>> # <<<<"All">>, <<from, None>>>> => Connection(a, b)' = Connection(a, b)
  <2> SUFFICES ASSUME NEW a, NEW b, <<a, b>> # <<<<"All">>, <<from, None>>>> PROVE Connection(a, b)' = Connection(a, b)
    OBVIOUS
  <2>1. <<a, b>> \in DOMAIN connections' <=> <<a, b>> \in DOMAIN connections
    BY <1>3
  <2> QED BY <1>10, <2>1 DEF Connection
<1>12. \A a, b : Connection(a, b)' # None => Connection(a, b)' = Connection(a, b)
  BY <1>10 DEF Connection
<1>13. o.target[1] = "Any" => <<<<"All">>, <<from, None>>>> \notin DOMAIN connections'
  BY <1>3
<1>14. ConnectionsFit'
  BY <1>2, <1>6, <1>9, <1>10 DEF ConnectionsFit
<1>15. OperationFits(next)'
  <2>1. Asked(next, q) /\ FirstPart(next, q)
    BY <1>1, <1>5, <1>7 DEF Asked, FirstPart
  <2>2. next.target = <<"Any">> => <<<<"All">>, <<next.stream[1], None>>>> \notin DOMAIN connections'
    BY <1>6, <1>7, <1>13
  <2>3. ConnectInv(next)'
    BY <1>4, <1>7, <2>1, <2>2 DEF ConnectInv
  <2> QED BY <1>7, <2>3 DEF OperationFits
<1>16. AllAloneFit(next)'
  <2> SUFFICES ASSUME NEW T \in Types, NEW h \in Programs, Alone(T, h) PROVE AloneFit(next, T, h)'
    BY DEF AllAloneFit
  <2>1. AloneFit(o, T, h) /\ h # None
    BY <1>9, TableAssumption DEF AllAloneFit
  <2>2. \A g \in Programs : /\ Connection(<<"Program", g>>, <<T, h>>)' = Connection(<<"Program", g>>, <<T, h>>)
                            /\ Connection(<<"Program", g>>, <<T, None>>)' = Connection(<<"Program", g>>, <<T, None>>)
    BY <1>11
  <2>3. Connection(<<"All">>, <<T, h>>)' = Connection(<<"All">>, <<T, h>>)
    BY <1>11, <2>1
  <2>4. ASSUME NEW f \in Filters, Connection(<<"All">>, <<T, None>>)' = <<"Filtered", f, h>>
        PROVE  Connection(<<"All">>, <<T, None>>) = <<"Filtered", f, h>>
    <3>1. <<"Filtered", f, h>> # None
      BY ConnectionsAssumption DEF Targets
    <3> QED BY <1>12, <2>4, <3>1
  <2> QED BY <1>8, <2>1, <2>2, <2>3, <2>4 DEF AloneFit
<1>17. AllDone(next)'
  <2> SUFFICES ASSUME NEW g \in Running, NEW s \in DOMAIN outputs[g], NEW m \in Targets,
                      Wanted(g, s, m)', outputs[g][s].type = s[1]
               PROVE  outputs[g][s].target = Goal(m, s[1])'
    BY <1>2 DEF AllDone, Running, vars
  <2>1. Goal(m, s[1])' = Goal(m, s[1]) /\ IsSink(m, s[1])
    BY <1>2, SameGoal DEF Wanted
  <2>2. m \in Targets \ {<<"None">>, <<"Any">>} /\ m # None /\ (m[1] = "Program" => m[2] # None) /\ s[2] = None
    <3>1. m \in Targets \ {<<"None">>, <<"Any">>} /\ s[2] = None
      BY DEF Wanted, Rules
    <3>2. m[1] = "Program" => m[2] \in Programs
      BY <3>1, TargetShape
    <3> QED BY <3>1, <3>2, TableAssumption, ConnectionsAssumption
  <2>3. Connection(<<"All">>, s)' = m /\ Connection(<<"All">>, s) = m
    BY <1>12, <2>2 DEF Wanted, Rules
  <2>4. s = <<s[1], None>>
    BY <1>9, <2>2, <2>3, ConnectionIs DEF Streams
  <2>5. Rules(g, s, m)
    <3>1. \A f : Connection(<<"Filtered", f>>, s)' = Connection(<<"Filtered", f>>, s)
      BY <1>11
    <3>2. Connection(<<"Program", g>>, s)' = Connection(<<"Program", g>>, s)
      BY <1>11
    <3>3. m[1] = "Program" => Connection(<<"All">>, <<s[1], m[2]>>)' = Connection(<<"All">>, <<s[1], m[2]>>)
      BY <1>11, <2>2
    <3> QED BY <2>3, <3>1, <3>2, <3>3 DEF Wanted, Rules
  <2>6. Reaches(m, s[1])
    <3>1. \A h : OwnerOf(h)' = OwnerOf(h)
      BY <1>2 DEF OwnerOf, vars
    <3>2. \A itype : Conversion(s[1], itype)' # {} /\ Plain(s[1]) => Conversion(s[1], itype) # {}
      <4> SUFFICES ASSUME NEW itype, NEW f \in Conversion(s[1], itype)', Plain(s[1]), f \notin Conversion(s[1], itype)
                   PROVE  FALSE
        OBVIOUS
      <4>1. f = c /\ FilterSource[f] = s[1]
        BY <1>2 DEF Conversion
      <4>2. q[2][1] = "Any"
        BY <1>4, <1>6, <4>1 DEF Plain
      <4>3. <<<<"All">>, s>> \notin DOMAIN connections'
        BY <1>6, <1>13, <2>4, <4>1, <4>2
      <4> QED BY <2>2, <2>3, <4>3 DEF Connection
    <3> QED BY <3>1, <3>2 DEF Wanted, Reaches
  <2> QED BY <1>8, <1>9, <2>1, <2>5, <2>6 DEF AllDone, Wanted
<1> QED BY <1>1, <1>14, <1>15, <1>16, <1>17 DEF Body

\* A running program is among those that are visited.
LEMMA RunningIsCurrent ==
  ASSUME BaseInv, NEW g \in Running
  PROVE  /\ <<handle_of[g], g, epoch[g]>> \in CurrentPrograms
         /\ StillRuns(<<handle_of[g], g, epoch[g]>>)
<1>1. sub_programs[handle_of[g]] = g /\ handle_of[g] \in Handles /\ g # None
  BY TableAssumption DEF BaseInv, TableIsSound, RunningProgramIsFound, TypeOK, Running
<1> QED BY <1>1 DEF CurrentPrograms, StillRuns

\* A connection is stored: if it is a rule, its sinks are visited next.
LEMMA ConnectStoreBody ==
  ASSUME BaseInv, NEW t \in Threads, Body(op[t]), ConnectStore(t)
  PROVE  \E o : op' = [op EXCEPT ![t] = o] /\ Body(o)'
<1> DEFINE o == op[t]
           key == <<o.source, o.stream>>
<1> PICK next : next = [o EXCEPT !.pc = "apply", !.todo = {x \in CurrentPrograms : Matches(o.source, x[2])}]
  OBVIOUS
<1>1. o.kind = "connect" /\ o.pc = "store" /\ ConnectInv(o) /\ op' = [op EXCEPT ![t] = next]
  BY ConnectIs DEF ConnectStore, Continue, Body, Goto
<1>2. UNCHANGED <<vars, filter_conversions, outputs, epoch>>
  BY DEF ConnectStore, sinkVars
<1>3. connections' = Insert(connections, key, o.target)
  BY DEF ConnectStore
<1>4. DOMAIN o = {"kind", "pc", "source", "target", "stream", "how", "todo"} /\ How(o)
  BY <1>1 DEF ConnectInv
<1>5. PICK q \in Requests : Asked(o, q) /\ (FirstPart(o, q) \/ SecondPart(o, q))
  BY <1>1 DEF ConnectInv
<1>6. /\ o.source \in Sources /\ o.target \in Targets /\ q[3] \in Streams
      /\ o.source = <<"All">> /\ o.target[1] = "Filtered" => FilterSource[o.target[2]] = q[3][1]
  BY <1>5, AskedIs
<1>7. /\ DOMAIN next = DOMAIN o /\ next.kind = "connect" /\ next.pc = "apply" /\ next.how = o.how
      /\ next.source = o.source /\ next.target = o.target /\ next.stream = o.stream
      /\ next.todo = {x \in CurrentPrograms : Matches(o.source, x[2])}
  BY <1>1, <1>4
<1>8. \A g, s, m : ~Todo(o, g, s, m)
  BY <1>1 DEF Todo
<1>9. ConnectionsFit /\ AllAloneFit(o) /\ AllDone(o) /\ o.target # None
  BY <1>6, ConnectionsAssumption DEF Body
<1>10. /\ DOMAIN connections' = DOMAIN connections \cup {key}
       /\ connections'[key] = o.target
       /\ \A k \in DOMAIN connections : k # key => connections'[k] = connections[k]
  <2> HIDE DEF key
  <2> QED BY <1>3 DEF Insert
<1>11. \A a, b : /\ <<a, b>> = key => Connection(a, b)' = o.target
                 /\ <<a, b>> # key => Connection(a, b)' = Connection(a, b)
  BY <1>10 DEF Connection
\* What is known of the second of two connections.
<1>12. /\ o.stream \in Streams /\ o.stream[1] = q[3][1]
       /\ \A T, h : Alone(T, h) /\ o.stream = <<T, h>> =>
             /\ o.target[1] = "Filtered" /\ o.target[3] = h
             /\ <<o.source, <<T, None>>>> \in DOMAIN connections
             /\ connections[<<o.source, <<T, None>>>>] = o.target
  <2>1. CASE FirstPart(o, q)
    BY <1>6, <2>1 DEF FirstPart, Alone
  <2>2. CASE SecondPart(o, q)
    <3>1. /\ q[3][2] = None /\ o.stream = <<q[3][1], o.target[3]>> /\ o.target[1] = "Filtered"
          /\ <<o.source, q[3]>> \in DOMAIN connections /\ connections[<<o.source, q[3]>>] = o.target
      BY <2>2 DEF SecondPart, ForTarget, Stored
    <3>2. q[3] = <<q[3][1], None>> /\ q[3][1] \in Types
      BY <1>6, <3>1 DEF Streams
    <3>3. o.target[3] \in Programs
      BY <1>6, <3>1, TargetShape DEF TargetSubProgram
    <3> QED BY <3>1, <3>2, <3>3 DEF Streams
  <2> QED BY <1>5, <2>1, <2>2
<1>13. ConnectionsFit'
  <2>1. DOMAIN connections' \subseteq Sources \X Streams
    BY <1>6, <1>9, <1>10, <1>12 DEF ConnectionsFit
  <2>2. \A k \in DOMAIN connections' : connections'[k] \in Targets
    BY <1>6, <1>9, <1>10 DEF ConnectionsFit
  <2>3. ASSUME NEW k \in DOMAIN connections', k[1] = <<"All">>, connections'[k][1] = "Filtered"
        PROVE  FilterSource[connections'[k][2]] = k[2][1]
    <3>1. CASE k = key
      BY <1>6, <1>10, <1>12, <2>3, <3>1
    <3>2. CASE k # key
      BY <1>9, <1>10, <2>3, <3>2 DEF ConnectionsFit
    <3> QED BY <3>1, <3>2
  <2> QED BY <1>2, <1>9, <2>1, <2>2, <2>3 DEF ConnectionsFit
<1>14. OperationFits(next)'
  <2>1. How(next)
    BY <1>4, <1>7 DEF How
  <2>2. How(next)'
    BY <1>2, <2>1, SameHow
  <2>3. Asked(next, q)
    BY <1>5, <1>7 DEF Asked
  <2>4. FirstPart(next, q) \/ SecondPart(next, q)'
    <3>1. CASE FirstPart(o, q)
      BY <1>7, <3>1 DEF FirstPart
    <3>2. CASE SecondPart(o, q)
      <4>1. Stored(next, q[3])'
        BY <1>7, <1>10, <3>2 DEF SecondPart, Stored
      <4> QED BY <1>7, <2>2, <3>2, <4>1 DEF SecondPart
    <3> QED BY <1>5, <3>1, <3>2
  <2>5. next.source[1] = "Filtered" /\ next.target = <<"Any">>
            => <<<<"All">>, <<next.stream[1], None>>>> \notin DOMAIN connections'
    <3>1. o.source[1] = "Filtered" => o.source # <<"All">>
      OBVIOUS
    <3>2. o.source[1] = "Filtered" /\ o.target = <<"Any">>
              => <<<<"All">>, <<o.stream[1], None>>>> \notin DOMAIN connections
      BY <1>1 DEF ConnectInv
    <3> QED BY <1>7, <1>10, <3>1, <3>2
  <2>6. Stored(next, next.stream)'
    BY <1>7, <1>10 DEF Stored
  <2>7. \A x \in next.todo : x[1] \in Handles /\ Matches(next.source, x[2])
    BY <1>7 DEF CurrentPrograms
  <2>8. ConnectInv(next)'
    BY <1>4, <1>7, <2>2, <2>3, <2>4, <2>5, <2>6, <2>7 DEF ConnectInv, FirstPart, Asked
  <2> QED BY <1>7, <2>8 DEF OperationFits
<1>15. AllAloneFit(next)'
  <2> SUFFICES ASSUME NEW T \in Types, NEW h \in Programs, Alone(T, h) PROVE AloneFit(next, T, h)'
    BY DEF AllAloneFit
  <2>1. AloneFit(o, T, h) /\ h # None
    BY <1>9, TableAssumption DEF AllAloneFit
  <2>2. \A a : <<a, <<T, h>>>> = key => Connection(a, <<T, None>>) = o.target /\ Connection(a, <<T, None>>)' = o.target
    <3> SUFFICES ASSUME NEW a, <<a, <<T, h>>>> = key
                 PROVE  Connection(a, <<T, None>>) = o.target /\ Connection(a, <<T, None>>)' = o.target
      OBVIOUS
    <3>1. Connection(a, <<T, None>>) = o.target
      BY <1>12 DEF Connection
    <3> QED BY <1>11, <2>1, <3>1
  <2>3. ASSUME NEW g \in Programs, Connection(<<"Program", g>>, <<T, h>>)' # None
        PROVE  Connection(<<"Program", g>>, <<T, None>>)' # None
    <3>1. CASE <<<<"Program", g>>, <<T, h>>>> = key
      BY <1>9, <2>2, <3>1
    <3>2. CASE <<<<"Program", g>>, <<T, h>>>> # key
      <4>1. Connection(<<"Program", g>>, <<T, None>>) # None
        BY <1>11, <2>1, <2>3, <3>2 DEF AloneFit
      <4> QED BY <1>9, <1>11, <4>1
    <3> QED BY <3>1, <3>2
  <2>4. ASSUME Connection(<<"All">>, <<T, h>>)' # None
        PROVE  Connection(<<"All">>, <<T, h>>)'[1] = "Filtered" /\ Connection(<<"All">>, <<T, h>>)'[3] = h
    <3>1. CASE <<<<"All">>, <<T, h>>>> = key
      BY <1>11, <1>12, <3>1
    <3>2. CASE <<<<"All">>, <<T, h>>>> # key
      BY <1>11, <2>1, <2>4, <3>2 DEF AloneFit
    <3> QED BY <3>1, <3>2
  <2>5. ASSUME NEW f \in Filters, Connection(<<"All">>, <<T, None>>)' = <<"Filtered", f, h>>
        PROVE  Connection(<<"All">>, <<T, h>>)' = <<"Filtered", f, h>> \/ Half(next, T, f, h)
    <3>1. CASE <<<<"All">>, <<T, None>>>> = key
      BY <1>7, <1>11, <2>5, <3>1 DEF Half
    <3>2. CASE <<<<"All">>, <<T, h>>>> = key
      BY <1>11, <2>2, <2>5, <3>2
    <3>3. CASE <<<<"All">>, <<T, None>>>> # key /\ <<<<"All">>, <<T, h>>>> # key
      <4>1. ~Half(o, T, f, h)
        BY <1>1, <3>3 DEF Half
      <4> QED BY <1>11, <2>1, <2>5, <3>3, <4>1 DEF AloneFit
    <3> QED BY <3>1, <3>2, <3>3
  <2> QED BY <2>3, <2>4, <2>5 DEF AloneFit, Half
<1>16. AllDone(next)'
  <2> SUFFICES ASSUME NEW g \in Running, NEW s \in DOMAIN outputs[g], NEW m \in Targets,
                      Wanted(g, s, m)', outputs[g][s].type = s[1]
               PROVE  outputs[g][s].target = Goal(m, s[1])' \/ Todo(next, g, s, m)'
    BY <1>2 DEF AllDone, Running, vars
  <2>1. Goal(m, s[1])' = Goal(m, s[1]) /\ IsSink(m, s[1]) /\ Reaches(m, s[1])
    BY <1>2, SameGoal, SameTable DEF Wanted
  <2>2. m \in Targets \ {<<"None">>, <<"Any">>} /\ m # None /\ s[2] = None /\ Connection(<<"All">>, s)' = m
    BY ConnectionsAssumption DEF Wanted, Rules
  <2>3. s = <<s[1], None>>
    <3>1. <<<<"All">>, s>> \in DOMAIN connections'
      BY <2>2 DEF Connection
    <3>2. s \in Streams
      BY <1>13, <3>1 DEF ConnectionsFit
    <3> QED BY <2>2, <3>2 DEF Streams
  <2>4. CASE <<<<"All">>, s>> = key
    <3>0. PICK x \in CurrentPrograms : x[2] = g /\ StillRuns(x)
      BY RunningIsCurrent
    <3>1. x \in next.todo
      BY <1>7, <2>4 DEF Matches
    <3>2. StillRuns(x)'
      BY <1>2, <3>0 DEF StillRuns, Running, vars
    <3>3. ToVisit(next, g)'
      BY <3>0, <3>1, <3>2 DEF ToVisit
    <3> QED BY <1>7, <2>4, <3>3 DEF Todo
  <2>5. CASE <<<<"All">>, s>> # key
    <3>1. Connection(<<"All">>, s) = m
      BY <1>11, <2>2, <2>5
    <3>2. Connection(<<"Program", g>>, s) = None
      BY <1>9, <1>11 DEF Wanted, Rules
    <3>3. ASSUME NEW f \in Filters PROVE Connection(<<"Filtered", f>>, s) \in {None, <<"Any">>}
      <4>1. CASE <<<<"Filtered", f>>, s>> = key
        <5>1. o.target = <<"Any">>
          BY <1>9, <1>11, <4>1 DEF Wanted, Rules
        <5>2. <<<<"All">>, s>> \notin DOMAIN connections
          BY <1>1, <2>3, <4>1, <5>1 DEF ConnectInv
        <5> QED BY <2>2, <3>1, <5>2 DEF Connection
      <4>2. CASE <<<<"Filtered", f>>, s>> # key
        BY <1>11, <4>2 DEF Wanted, Rules
      <4> QED BY <4>1, <4>2
    <3>4. m[1] = "Program" => Connection(<<"All">>, <<s[1], m[2]>>) = None
      BY <1>9, <1>11 DEF Wanted, Rules
    <3>5. Rules(g, s, m)
      BY <2>2, <3>1, <3>2, <3>3, <3>4 DEF Wanted, Rules
    <3> QED BY <1>8, <1>9, <2>1, <3>5 DEF AllDone, Wanted
  <2> QED BY <2>4, <2>5
<1> QED BY <1>1, <1>13, <1>14, <1>15, <1>16 DEF Body

\* Sinks are only connected again when a filter becomes a conversion.
LEMMA HowShape ==
  ASSUME NEW source, NEW target, NEW s, HowToConnect(source, target, s)[1] = "reconnect"
  PROVE  source[1] = "Filtered" /\ target[1] = "Any"
<1>1. \A via, owner : InputFound(via, owner)[1] # "reconnect"
  BY DEF InputFound
<1>2. \A owner : OrDisconnect(owner)[1] # "reconnect"
  BY <1>1 DEF OrDisconnect
<1>3. CASE target[1] = "Any"
  <2> SUFFICES ASSUME source[1] # "Filtered" PROVE FALSE
    BY <1>3
  <2>1. target[1] # "None" /\ target[1] # "Program"
    BY <1>3
  <2>2. HowToConnect(source, target, s) = <<"disconnect">>
    BY <1>3, <2>1, Zenon DEF HowToConnect
  <2> QED BY <2>2
<1>4. CASE target[1] = "None"
  <2>1. target[1] # "Any" /\ target[1] # "Program"
    BY <1>4
  <2>2. HowToConnect(source, target, s) = <<"discard">>
    BY <1>4, <2>1, Zenon DEF HowToConnect
  <2> QED BY <2>2
<1>5. CASE target[1] = "Program"
  <2>1. target[1] # "Any" /\ target[1] # "None"
    BY <1>5
  <2>2. HowToConnect(source, target, s) = OrDisconnect(GetTargetInput(target[2], s[1]))
    BY <1>5, <2>1, Zenon DEF HowToConnect
  <2> QED BY <1>2, <2>2
<1>6. CASE target[1] # "Any" /\ target[1] # "None" /\ target[1] # "Program"
  <2>1. HowToConnect(source, target, s)
          = InputFound(<<target[2]>>, GetTargetInput(target[3], FilterTarget[target[2]]))
    BY <1>6, Zenon DEF HowToConnect
  <2> QED BY <1>1, <2>1
<1> QED BY <1>3, <1>4, <1>5, <1>6

\* When the rule for a stream was looked up and stored, what was found is its goal.
LEMMA FoundIsGoal ==
  ASSUME BaseInv, NEW o, Body(o), ConnectInv(o), o.pc = "apply", o.source = <<"All">>,
         NEW g, NEW m, Wanted(g, o.stream, m)
  PROVE  /\ FilterCreated(o)
         /\ Fits(o, g) => /\ o.how[1] = "input"
                          /\ [via |-> o.how[2], program |-> o.how[3], epoch |-> o.how[4],
                              close |-> o.how[2] # <<>>] = Goal(m, o.stream[1])
<1> DEFINE T == o.stream[1]
           h == TargetSubProgram(m)
<1>1. How(o) /\ Stored(o, o.stream) /\ ConnectionsFit
  BY DEF ConnectInv, Body
<1>2. o.target = m
  BY <1>1 DEF Stored, Wanted, Rules, Connection
<1>3. /\ o.how[1] = "input" /\ o.how[3] = h /\ o.how[4] = epoch[h]
      /\ o.how[2] = IF m[1] = "Filtered" THEN <<m[2]>> ELSE <<>>
  BY <1>1, <1>2, HowIsGoal DEF How
<1>4. CASE m[1] = "Filtered"
  <2>1. o.how[2] = <<m[2]>> /\ o.how[2] # <<>> /\ Last(o.how[2]) = m[2]
    BY <1>3, <1>4 DEF Last
  <2>2. FilterTarget[m[2]] = InputType[h]
    BY <1>4, TargetShape DEF Wanted, Reaches, Rules
  <2>3. Goal(m, T) = [via |-> <<m[2]>>, program |-> h, epoch |-> epoch[h], close |-> TRUE]
    BY <1>4 DEF Goal, Via, InputOf
  <2> QED BY <1>3, <2>1, <2>2, <2>3 DEF FilterCreated
<1>5. CASE m[1] # "Filtered"
  <2>1. o.how[2] = <<>> /\ m[1] = "Program" /\ m[2] = h
    BY <1>3, <1>5, TargetShape DEF Wanted, Rules
  <2>2. Fits(o, g) => InputType[h] = T
    BY <1>3, <2>1 DEF Fits
  <2>3. InputType[h] = T => Goal(m, T) = [via |-> <<>>, program |-> h, epoch |-> epoch[h], close |-> FALSE]
    BY <1>5, <2>1 DEF Goal, Via, InputOf
  <2> QED BY <1>3, <2>1, <2>2, <2>3 DEF FilterCreated
<1> QED BY <1>4, <1>5

\* What a connection puts in the sinks of one program: those that its rule decides get
\* what they should have, others keep it.
LEMMA AppliedIsGoal ==
  ASSUME BaseInv, NEW o, Body(o), ConnectInv(o), o.pc = "apply", NEW g \in Programs, Matches(o.source, g),
         HasOutput(g, o.stream), FilterCreated(o), Fits(o, g), NEW b, NEW s \in DOMAIN outputs[g],
         NEW m \in Targets, Wanted(g, s, m), Applied(o, g, b)[s].type = s[1],
         outputs[g][s].type = s[1] => outputs[g][s].target = Goal(m, s[1]) \/ Todo(o, g, s, m)
  PROVE  Applied(o, g, b)[s].target = Goal(m, s[1])
<1>1. How(o) /\ Stored(o, o.stream) /\ ConnectionsFit /\ IsOutput(outputs[g][s])
  BY DEF ConnectInv, Body, BaseInv, OutputsInv
<1>2. PICK q \in Requests : Asked(o, q)
  BY DEF ConnectInv
<1>3. /\ o.source \in Sources /\ o.target \in Targets /\ o.target # None
      /\ Connection(o.source, o.stream) = o.target
  BY <1>1, <1>2, AskedIs, ConnectionsAssumption DEF Stored, Connection
<1>4. /\ s = <<s[1], None>> /\ m # None /\ Connection(<<"All">>, s) = m
      /\ <<<<"All">>, s>> \in DOMAIN connections
  BY <1>1, RuleIs, ConnectionsAssumption DEF Wanted, Rules, Connection
\* A filter is only connected as a conversion when there is no rule for its messages.
<1>5. o.source[1] = "Filtered" /\ o.target = <<"Any">> => s[1] # o.stream[1]
  BY <1>4 DEF ConnectInv
<1>6. CASE o.how[1] = "reconnect"
  <2>1. o.source[1] = "Filtered" /\ o.target[1] = "Any"
    BY <1>1, <1>6, HowShape DEF How
  <2>2. o.target = <<"Any">>
    BY <1>3, <2>1 DEF Targets
  <2>3. Applied(o, g, b)[s] = outputs[g][s]
    <3>1. Applied(o, g, b) = ReconnectDisconnectedOutputs(g, o.stream[1], b)
      BY <1>6 DEF Applied
    <3> QED BY <1>5, <2>1, <2>2, <3>1 DEF ReconnectDisconnectedOutputs
  <2>4. ~Todo(o, g, s, m)
    <3>1. o.source # <<"All">>
      BY <2>1
    <3>2. o.kind # "start"
      BY DEF ConnectInv, Body, OperationFits, StartInv, Idle
    <3> QED BY <3>1, <3>2 DEF Todo
  <2> QED BY <2>3, <2>4
<1>7. CASE o.how[1] # "reconnect"
  <2>1. PICK sink : /\ Applied(o, g, b) = WithTarget(outputs[g], o.stream, sink)
                    /\ o.how[1] = "input" => sink = [via |-> o.how[2], program |-> o.how[3],
                                                     epoch |-> o.how[4], close |-> o.how[2] # <<>>]
    BY <1>7 DEF Applied
  <2>2. CASE s # o.stream
    <3>1. Applied(o, g, b)[s] = outputs[g][s]
      BY <2>1, <2>2 DEF WithTarget
    <3>2. ~Todo(o, g, s, m)
      <4>1. o.kind # "start"
        BY DEF ConnectInv, Body, OperationFits, StartInv, Idle
      <4> QED BY <2>2, <4>1 DEF Todo
    <3> QED BY <3>1, <3>2
  <2>3. CASE s = o.stream
    <3>1. o.source = <<"All">>
      <4>1. CASE o.source \in {"Program"} \X Programs
        <5>1. o.source = <<"Program", g>>
          BY <4>1 DEF Matches
        <5> QED BY <1>3, <2>3, <5>1 DEF Wanted, Rules
      <4>2. CASE o.source \in {"Filtered"} \X Filters
        <5>1. o.source = <<"Filtered", o.source[2]>> /\ o.source[2] \in Filters /\ o.source[1] = "Filtered"
          BY <4>2
        <5>2. o.target = <<"Any">>
          BY <1>3, <2>3, <5>1 DEF Wanted, Rules
        <5> QED BY <1>5, <2>3, <5>1, <5>2
      <4> QED BY <1>3, <4>1, <4>2 DEF Sources
    <3>2. o.how[1] = "input" /\ sink = Goal(m, s[1])
      BY <2>1, <2>3, <3>1, FoundIsGoal
    <3>3. Applied(o, g, b)[s].target = sink
      BY <1>1, <2>1, <2>3 DEF WithTarget, IsOutput
    <3> QED BY <3>2, <3>3
  <2> QED BY <2>2, <2>3
<1> QED BY <1>6, <1>7

\* One program's sinks are connected: those of the rule are done, or still to be visited.
LEMMA ConnectApplyBody ==
  ASSUME BaseInv, NEW t \in Threads, Body(op[t]), ConnectApply(t), ~broken'
  PROVE  \E o : op' = [op EXCEPT ![t] = o] /\ Body(o)'
<1> DEFINE o == op[t]
           x == First(o.todo)
           g == x[2]
           concerns == StillRuns(x) /\ HasOutput(g, o.stream) /\ FilterCreated(o)
<1> PICK next : next = [o EXCEPT !.todo = @ \ {x}]
  OBVIOUS
<1>1. o.kind = "connect" /\ o.pc = "apply" /\ ConnectInv(o) /\ op' = [op EXCEPT ![t] = next] /\ o.todo # {}
  BY ConnectIs DEF ConnectApply, Continue, Body, Goto
<1>2. UNCHANGED <<vars, connections, filter_conversions, epoch>>
  BY DEF ConnectApply, connectionVars
<1>3. /\ concerns => Fits(o, g) /\ \E b : outputs' = [outputs EXCEPT ![g] = Applied(o, g, b)]
      /\ ~concerns => outputs' = outputs
  BY DEF ConnectApply
<1>4. DOMAIN o = {"kind", "pc", "source", "target", "stream", "how", "todo"}
  BY <1>1 DEF ConnectInv
<1>5. /\ DOMAIN next = DOMAIN o /\ next.kind = "connect" /\ next.pc = "apply" /\ next.how = o.how
      /\ next.source = o.source /\ next.target = o.target /\ next.stream = o.stream /\ next.todo = o.todo \ {x}
  BY <1>1, <1>4
<1>6. x \in o.todo /\ Matches(o.source, g)
  <2>1. \A y \in o.todo : y[1] \in Handles /\ Matches(o.source, y[2])
    BY <1>1 DEF ConnectInv
  <2>2. x \in o.todo
    BY <1>1, <2>1, FirstIsIn
  <2> QED BY <2>1, <2>2
<1>7. ConnectionsFit' /\ AllAloneFit(next)'
  <2>1. \A T, f, h : Half(o, T, f, h) => Half(next, T, f, h)
    BY <1>1, <1>5 DEF Half
  <2>2. AllAloneFit(next)
    BY <2>1, AloneAnyway DEF Body
  <2> QED BY <1>2, <2>2, SameFit, SameConnections DEF Body
<1>8. OperationFits(next)'
  <2>1. ConnectInv(next)
    BY <1>1, <1>5 DEF ConnectInv, Asked, FirstPart, SecondPart, How, Stored
  <2>2. ConnectInv(next)'
    BY <1>2, <2>1, SameConnect
  <2> QED BY <1>5, <2>2 DEF OperationFits
<1>9. AllDone(next)'
  <2> SUFFICES ASSUME NEW k \in Running, NEW s \in DOMAIN outputs'[k], NEW m \in Targets,
                      Wanted(k, s, m), outputs'[k][s].type = s[1]
               PROVE  outputs'[k][s].target = Goal(m, s[1]) \/ Todo(next, k, s, m)
    BY <1>2, SameWanted DEF AllDone, Running, vars
  <2>1. k \in Programs /\ DOMAIN outputs = Programs
    BY DEF Running, BaseInv, OutputsInv
  <2>2. CASE concerns /\ k = g
    <3>1. PICK b : outputs' = [outputs EXCEPT ![g] = Applied(o, g, b)]
      BY <1>3, <2>2
    <3>2. outputs'[k] = Applied(o, g, b)
      BY <2>1, <2>2, <3>1
    <3>3. s \in DOMAIN outputs[g]
      BY <3>2, AppliedDomain
    <3>4. outputs[g][s].type = s[1] => outputs[g][s].target = Goal(m, s[1]) \/ Todo(o, g, s, m)
      BY <2>2, <3>3 DEF Body, AllDone
    <3> HIDE DEF x, o
    <3>5. Applied(o, g, b)[s].target = Goal(m, s[1])
      BY <1>1, <1>3, <1>6, <2>1, <2>2, <3>2, <3>3, <3>4, AppliedIsGoal DEF o
    <3> QED BY <3>2, <3>5
  <2>3. CASE ~(concerns /\ k = g)
    <3>1. outputs'[k] = outputs[k]
      <4>1. CASE ~concerns
        BY <1>3, <4>1
      <4>2. CASE concerns /\ k # g
        <5>1. PICK b : outputs' = [outputs EXCEPT ![g] = Applied(o, g, b)]
          BY <1>3, <4>2
        <5>2. PICK y, v : y # k /\ outputs' = [outputs EXCEPT ![y] = v]
          <6> HIDE DEF o, x
          <6> QED BY <4>2, <5>1
        <5> QED BY <2>1, <5>2
      <4> QED BY <2>3, <4>1, <4>2
    <3>2. outputs[k][s].target = Goal(m, s[1]) \/ Todo(o, k, s, m)
      BY <3>1 DEF Body, AllDone
    <3>3. ASSUME Todo(o, k, s, m) PROVE Todo(next, k, s, m)
      <4>1. o.stream = s /\ o.source = <<"All">> /\ ToVisit(o, k)
        BY <1>1, <3>3 DEF Todo
      <4>2. PICK y \in o.todo : y[2] = k /\ StillRuns(y)
        BY <4>1 DEF ToVisit
      <4>3. CASE y = x
        <5>1. HasOutput(k, o.stream)
          BY <3>1, <4>1 DEF HasOutput
        <5>2. FilterCreated(o)
          BY <1>1, <4>1, FoundIsGoal
        <5> QED BY <2>3, <4>2, <4>3, <5>1, <5>2
      <4>4. CASE y # x
        <5>1. y \in next.todo
          BY <1>5, <4>4
        <5> QED BY <1>5, <4>1, <4>2, <5>1 DEF Todo, ToVisit
      <4> QED BY <4>3, <4>4
    <3> QED BY <3>1, <3>2, <3>3
  <2> QED BY <2>2, <2>3
<1> QED BY <1>1, <1>7, <1>8, <1>9 DEF Body

\* Connecting sinks again that were done leaves them done.
LEMMA ConnectReconnectBody ==
  ASSUME BaseInv, NEW t \in Threads, Body(op[t]), ConnectReconnect(t)
  PROVE  \E o : op' = [op EXCEPT ![t] = o] /\ Body(o)'
<1> DEFINE o == op[t]
<1>1. o.kind = "connect" /\ o.pc = "reconnect" /\ ConnectInv(o)
  BY ConnectIs DEF ConnectReconnect, Continue, Body
<1>2. UNCHANGED <<vars, connections, filter_conversions, epoch>>
  BY DEF ConnectReconnect, connectionVars
<1>3. PICK x \in o.todo :
         /\ op' = [op EXCEPT ![t] = IF o.todo = {x} THEN Idle ELSE [o EXCEPT !.todo = @ \ {x}]]
         /\ \/ outputs' = outputs
            \/ /\ StillRuns(x)
               /\ \E b : outputs' = [outputs EXCEPT ![x[2]] = ReconnectDisconnectedOutputs(x[2], x[4], b)]
  BY DEF ConnectReconnect, Goto
<1> PICK next : next = IF o.todo = {x} THEN Idle ELSE [o EXCEPT !.todo = @ \ {x}]
  OBVIOUS
<1>4. \/ next = Idle
      \/ next.kind = "connect" /\ next.pc = "reconnect" /\ DOMAIN next = DOMAIN o
  BY <1>1 DEF ConnectInv
<1>5. /\ \A g, s, m : ~Todo(o, g, s, m)
      /\ \A T, f, h : ~Half(o, T, f, h)
      /\ Whole(o)
  BY <1>1 DEF Todo, Half, Whole
<1>6. ConnectionsFit /\ AllAloneFit(o) /\ AllDone(o)
  BY DEF Body
<1>7. ConnectionsFit' /\ AllAloneFit(next)'
  <2>1. AllAloneFit(next)
    BY <1>5, <1>6, AloneAnyway
  <2> QED BY <1>2, <1>6, <2>1, SameFit, SameConnections
<1>8. OperationFits(next)'
  BY <1>1, <1>4 DEF OperationFits, ConnectInv
<1>9. AllDone(next)'
  <2> SUFFICES ASSUME NEW k \in Running, NEW s \in DOMAIN outputs'[k], NEW m \in Targets,
                      Wanted(k, s, m), outputs'[k][s].type = s[1]
               PROVE  outputs'[k][s].target = Goal(m, s[1])
    BY <1>2, SameWanted DEF AllDone, Running, vars
  <2>1. k \in Programs /\ DOMAIN outputs = Programs
    BY DEF Running, BaseInv, OutputsInv
  <2>2. CASE outputs'[k] = outputs[k]
    BY <1>5, <1>6, <2>2 DEF AllDone
  <2>3. CASE outputs'[k] # outputs[k]
    <3>1. PICK b : outputs' = [outputs EXCEPT ![x[2]] = ReconnectDisconnectedOutputs(x[2], x[4], b)]
      BY <1>3, <2>3
    <3>2. k = x[2] /\ outputs'[k] = ReconnectDisconnectedOutputs(k, x[4], b)
      BY <2>1, <2>3, <3>1
    <3>3. s \in DOMAIN outputs[k] /\ IsOutput(outputs[k][s])
      BY <2>1, <3>2, ReconnectedDomain DEF BaseInv, OutputsInv
    <3>4. CASE s[1] = x[4] /\ outputs[k][s].type = x[4]
      <4>1. outputs[k][s].target = Goal(m, s[1])
        BY <1>5, <1>6, <3>3, <3>4 DEF AllDone
      <4>2. ActiveTarget(outputs[k][s].target, b) \in {<<"None">>, <<"Program", TargetSubProgram(m)>>}
        BY <4>1, ActiveTargetIs DEF Wanted
      <4>3. outputs'[k][s] = Reconnected(k, outputs[k][s], ActiveTarget(outputs[k][s].target, b))
        BY <3>2, <3>3, <3>4 DEF ReconnectDisconnectedOutputs
      <4> DEFINE target == ActiveTarget(outputs[k][s].target, b)
      <4> HIDE DEF target
      <4>4. target \in LeadingTo(m)
        BY <4>2 DEF target, LeadingTo
      <4> PICK output : output = outputs[k][s]
        OBVIOUS
      <4>5. /\ ConnectionsFit /\ AllAloneFit(o) /\ Whole(o) /\ k \in Programs
            /\ Wanted(k, s, m) /\ IsOutput(output) /\ output.type = s[1]
        BY <1>5, <1>6, <2>1, <3>3, <3>4
      <4>6. Reconnected(k, output, target).target = Goal(m, s[1])
        <5> HIDE DEF o
        <5> QED BY <4>4, <4>5, ReconnectedToGoal
      <4> QED BY <4>3, <4>6 DEF target
    <3>5. CASE ~(s[1] = x[4] /\ outputs[k][s].type = x[4])
      <4>1. outputs'[k][s] = outputs[k][s]
        BY <3>2, <3>3, <3>5 DEF ReconnectDisconnectedOutputs
      <4> QED BY <1>5, <1>6, <3>3, <4>1 DEF AllDone
    <3> QED BY <3>4, <3>5
  <2> QED BY <2>2, <2>3
<1> QED BY <1>3, <1>7, <1>8, <1>9 DEF Body

----------------------------------------------------------------------------
\* A program is among the others from its start on: only sinks to the one that starts are
\* affected, and those are to be visited.
LEMMA StartBody ==
  ASSUME BaseInv, NEW t \in Threads, Body(Idle), NEW g \in Programs, Start(t, g), panicked' = None
  PROVE  \E o : op' = [op EXCEPT ![t] = o] /\ Body(o)'
<1> PICK next : next = [kind |-> "start", pc |-> "snapshot", program |-> g, connections |-> <<>>, todo |-> {}]
  OBVIOUS
<1>1. /\ StartSubprogram(g) /\ op' = [op EXCEPT ![t] = next]
      /\ epoch' = [epoch EXCEPT ![g] = @ + 1] /\ outputs' = [outputs EXCEPT ![g] = <<>>]
      /\ UNCHANGED <<connections, filter_conversions>>
  <2>1. ~StartRefused(g)
    BY TableAssumption DEF StartRefused
  <2> QED BY <2>1 DEF Start, Begin, connectionVars
<1>2. DOMAIN outputs = Programs /\ DOMAIN epoch = Programs
  BY DEF BaseInv, OutputsInv
<1>3. DOMAIN outputs'[g] = {}
  <2>1. DOMAIN <<>> = {}
    OBVIOUS
  <2> QED BY <1>1, <1>2, <2>1
<1>4. next.kind = "start" /\ next.pc = "snapshot" /\ next.program = g
  OBVIOUS
<1>5. DOMAIN next = {"kind", "pc", "program", "connections", "todo"}
  OBVIOUS
<1>6. OperationFits(next)'
  BY <1>3, <1>4, <1>5 DEF OperationFits, StartInv
<1>7. ConnectionsFit' /\ AllAloneFit(next)'
  <2>1. AllAloneFit(next)
    BY IdleFits, AloneAnyway DEF Body
  <2> QED BY <1>1, <2>1, SameFit, SameConnections DEF Body
<1>8. AllDone(next)'
  <2> SUFFICES ASSUME NEW k \in Running', NEW s \in DOMAIN outputs'[k], NEW m \in Targets,
                      Wanted(k, s, m)', outputs'[k][s].type = s[1], TargetSubProgram(m) # g
               PROVE  outputs'[k][s].target = Goal(m, s[1])'
    BY <1>4 DEF AllDone, Todo
  <2> DEFINE h == TargetSubProgram(m)
  <2>1. k # g /\ k \in Running /\ outputs'[k] = outputs[k]
    BY <1>1, <1>2, <1>3 DEF Running, StartSubprogram
  <2>2. h \in Programs /\ epoch'[h] = epoch[h]
    BY <1>1, <1>2, TargetShape DEF Wanted, Rules
  <2>3. OwnerOf(h)' = h
    BY DEF Wanted, Reaches
  <2>4. OwnerOf(h) = h
    <3>1. program_indexes'[h] = program_indexes[h] /\ program_indexes[h] \in Handles \cup {None}
      BY <1>1, <2>2 DEF StartSubprogram, IndexesAfterStart, BaseInv, TableIsSound, TypeOK
    <3>2. \A i \in Handles : sub_programs'[i] = sub_programs[i] \/ sub_programs'[i] = g
      BY <1>1 DEF StartSubprogram, BaseInv, TableIsSound, TypeOK
    <3>3. h # TargetNotInScene /\ h # TargetNotAvailable /\ g # None
      BY <2>2, ConnectionsAssumption, TableAssumption DEF Errors
    <3>4. program_indexes[h] # None /\ sub_programs'[program_indexes[h]] = h
      BY <2>3, <3>1, <3>3 DEF OwnerOf
    <3>5. sub_programs[program_indexes[h]] = h
      BY <3>1, <3>2, <3>4
    <3> QED BY <2>2, <3>4, <3>5, TableAssumption DEF OwnerOf
  <2>5. Reaches(m, s[1])
    <3>1. \A a, b : Conversion(a, b)' = Conversion(a, b)
      BY <1>1 DEF Conversion
    <3> QED BY <2>4, <3>1 DEF Wanted, Reaches
  <2>6. Wanted(k, s, m) /\ Goal(m, s[1])' = Goal(m, s[1])
    BY <1>1, <2>2, <2>5, SameConnections, SameGoal DEF Wanted
  <2> QED BY <2>1, <2>6, IdleFits DEF Body, AllDone
<1> QED BY <1>1, <1>6, <1>7, <1>8 DEF Body

\* The programs to visit are all that have sinks.
LEMMA StartSnapshotBody ==
  ASSUME BaseInv, NEW t \in Threads, Body(op[t]), StartSnapshot(t)
  PROVE  \E o : op' = [op EXCEPT ![t] = o] /\ Body(o)'
<1> DEFINE o == op[t]
           others == {x \in CurrentPrograms : x[2] # o.program}
<1> PICK next : next = IF others = {} THEN Idle
                       ELSE [o EXCEPT !.pc = "reconnect", !.connections = connections, !.todo = others]
  OBVIOUS
<1>1. op' = [op EXCEPT ![t] = next] /\ UNCHANGED <<vars, connections, filter_conversions, outputs, epoch>>
  BY DEF StartSnapshot, Goto, connectionVars, sinkVars
<1>2. o.kind = "start" /\ o.pc = "snapshot" /\ StartInv(o)
  BY DEF StartSnapshot, Continue, Body, OperationFits, Idle
<1> HIDE DEF others
<1>3. \/ others = {} /\ next = Idle
      \/ /\ next.kind = "start" /\ next.pc = "reconnect" /\ DOMAIN next = DOMAIN o
         /\ next.program = o.program /\ next.connections = connections /\ next.todo = others
  BY <1>2 DEF StartInv
<1>4. OperationFits(next)
  BY <1>2, <1>3 DEF OperationFits, StartInv
<1>5. ConnectionsFit /\ AllAloneFit(next)
  <2>1. \A T, f, h : ~Half(o, T, f, h)
    BY <1>2 DEF Half
  <2> QED BY <2>1, AloneAnyway DEF Body
<1>6. AllDone(next)
  <2> SUFFICES ASSUME NEW k \in Running, NEW s \in DOMAIN outputs[k], NEW m \in Targets,
                      Wanted(k, s, m), outputs[k][s].type = s[1]
               PROVE  outputs[k][s].target = Goal(m, s[1]) \/ Todo(next, k, s, m)
    BY DEF AllDone
  <2> DEFINE x == <<handle_of[k], k, epoch[k]>>
  <2>1. k # o.program
    BY <1>2 DEF StartInv
  <2>2. x[2] = k /\ x \in others /\ StillRuns(x)
    BY <2>1, RunningIsCurrent DEF others
  <2>3. outputs[k][s].target = Goal(m, s[1]) \/ Todo(o, k, s, m)
    BY DEF Body, AllDone
  <2>4. Todo(o, k, s, m) => TargetSubProgram(m) = o.program
    BY <1>2 DEF Todo
  <2> HIDE DEF x
  <2>5. /\ next.kind = "start" /\ next.program = o.program /\ next.todo = others
    BY <1>3, <2>2
  <2>6. Todo(o, k, s, m) => Todo(next, k, s, m)
    BY <2>2, <2>4, <2>5 DEF Todo, ToVisit
  <2> QED BY <2>3, <2>6
<1> QED BY <1>1, <1>4, <1>5, <1>6, SameBody DEF Body

\* The sinks of one program that lead to the one that starts are connected to it.
LEMMA StartReconnectBody ==
  ASSUME BaseInv, NEW t \in Threads, Body(op[t]), StartReconnect(t)
  PROVE  \E o : op' = [op EXCEPT ![t] = o] /\ Body(o)'
<1> DEFINE o == op[t]
           x == First(o.todo)
           outs(k) == [s \in DOMAIN outputs[k] |-> IF IsForProgram(o, s)
                                                 THEN Reconnected(k, outputs[k][s], <<"Program", o.program>>)
                                                 ELSE outputs[k][s]]
<1> PICK next : next = IF o.todo = {x} THEN Idle ELSE [o EXCEPT !.todo = @ \ {x}]
  OBVIOUS
<1>1. op' = [op EXCEPT ![t] = next] /\ UNCHANGED <<vars, connections, filter_conversions, epoch>>
  BY DEF StartReconnect, Goto, connectionVars
<1>2. o.kind = "start" /\ o.pc = "reconnect" /\ StartInv(o)
  BY DEF StartReconnect, Continue, Body, OperationFits, Idle
<1>3. o.connections = connections /\ o.program \in Programs /\ DOMAIN outputs[o.program] = {}
  BY <1>2 DEF StartInv
<1>4. \/ o.todo = {x} /\ next = Idle
      \/ /\ next.kind = "start" /\ next.pc = "reconnect" /\ DOMAIN next = DOMAIN o
         /\ next.program = o.program /\ next.connections = o.connections /\ next.todo = o.todo \ {x}
  BY <1>2 DEF StartInv
<1>5. DOMAIN outputs = Programs
  BY DEF BaseInv, OutputsInv
<1>6. /\ StillRuns(x) => outputs' = [outputs EXCEPT ![x[2]] = outs(x[2])]
      /\ ~StillRuns(x) => outputs' = outputs
  BY DEF StartReconnect
<1>7. \A k \in Programs : /\ k = x[2] /\ StillRuns(x) => outputs'[k] = outs(k)
                          /\ ~(k = x[2] /\ StillRuns(x)) => outputs'[k] = outputs[k]
  <2> HIDE DEF o, x, outs
  <2> QED BY <1>5, <1>6
<1>8. \A k \in Programs : DOMAIN outputs'[k] = DOMAIN outputs[k]
  BY <1>7
<1>9. OperationFits(next)'
  BY <1>1, <1>2, <1>3, <1>4, <1>8 DEF OperationFits, StartInv
<1>10. ConnectionsFit' /\ AllAloneFit(next)'
  <2>1. \A T, f, h : ~Half(o, T, f, h)
    BY <1>2 DEF Half
  <2>2. AllAloneFit(next)
    BY <2>1, AloneAnyway DEF Body
  <2> QED BY <1>1, <2>2, SameFit, SameConnections DEF Body
<1>11. AllDone(next)'
  <2> SUFFICES ASSUME NEW k \in Running, NEW s \in DOMAIN outputs[k], NEW m \in Targets,
                      Wanted(k, s, m), outputs'[k][s].type = s[1]
               PROVE  outputs'[k][s].target = Goal(m, s[1]) \/ Todo(next, k, s, m)
    <3>1. Running \subseteq Programs
      BY DEF Running
    <3> QED BY <1>1, <1>8, <3>1, SameWanted DEF AllDone, Running, vars
  <2>1. k \in Programs
    BY DEF Running
  <2>2. outputs[k][s].type = s[1] => outputs[k][s].target = Goal(m, s[1]) \/ Todo(o, k, s, m)
    BY DEF Body, AllDone
  <2>3. Todo(o, k, s, m) <=> TargetSubProgram(m) = o.program /\ ToVisit(o, k)
    BY <1>2 DEF Todo
  <2>4. CASE k = x[2] /\ StillRuns(x)
    <3>1. outputs'[k][s] = IF IsForProgram(o, s) THEN Reconnected(k, outputs[k][s], <<"Program", o.program>>)
                           ELSE outputs[k][s]
      <4>1. outputs'[k] = outs(k)
        <5> HIDE DEF o, x, outs
        <5> QED BY <1>7, <2>1, <2>4
      <4>2. outs(k)[s] = IF IsForProgram(o, s) THEN Reconnected(k, outputs[k][s], <<"Program", o.program>>)
                         ELSE outputs[k][s]
        <5> HIDE DEF o
        <5> QED OBVIOUS
      <4> HIDE DEF outs
      <4> QED BY <4>1, <4>2
    <3>2. IsForProgram(o, s) <=> TargetSubProgram(m) = o.program
      <4>1. /\ s[2] = None /\ <<<<"All">>, s>> \in DOMAIN connections
            /\ connections[<<<<"All">>, s>>] = m
        BY ConnectionsAssumption DEF Wanted, Rules, Connection
      <4> QED BY <1>3, <4>1 DEF IsForProgram, TargetProgram
    <3>3. CASE TargetSubProgram(m) = o.program
      <4> PICK output : output = outputs[k][s]
        OBVIOUS
      <4>1. outputs'[k][s] = Reconnected(k, output, <<"Program", o.program>>) /\ IsOutput(output)
        BY <2>1, <3>1, <3>2, <3>3 DEF BaseInv, OutputsInv
      <4>2. ConnectionsFit /\ AllAloneFit(o) /\ Whole(o)
        BY <1>2 DEF Body, Whole
      <4>3. output.type = s[1]
        BY <4>1 DEF Reconnected, UnlessError, IsOutput
      <4>4. Reconnected(k, output, <<"Program", TargetSubProgram(m)>>).target = Goal(m, s[1])
        <5>1. <<"Program", TargetSubProgram(m)>> \in LeadingTo(m)
          BY DEF LeadingTo
        <5> HIDE DEF o
        <5> QED BY <2>1, <4>1, <4>2, <4>3, <5>1, ReconnectedToGoal
      <4> QED BY <3>3, <4>1, <4>4
    <3>4. CASE TargetSubProgram(m) # o.program
      BY <2>2, <2>3, <3>1, <3>2, <3>4
    <3> QED BY <3>3, <3>4
  <2>5. CASE ~(k = x[2] /\ StillRuns(x))
    <3>1. outputs'[k] = outputs[k]
      BY <1>7, <2>1, <2>5
    <3>2. ASSUME Todo(o, k, s, m) PROVE Todo(next, k, s, m)
      <4>1. TargetSubProgram(m) = o.program
        BY <2>3, <3>2
      <4>2. PICK y \in o.todo : y[2] = k /\ StillRuns(y)
        BY <2>3, <3>2 DEF ToVisit
      <4>3. y # x
        BY <2>5, <4>2
      <4>4. y \in next.todo /\ next.kind = "start" /\ next.program = o.program
        BY <1>4, <4>2, <4>3
      <4> QED BY <4>1, <4>2, <4>4 DEF Todo, ToVisit
    <3> QED BY <2>2, <3>1, <3>2
  <2> QED BY <2>4, <2>5
<1> QED BY <1>1, <1>9, <1>10, <1>11 DEF Body

\* A program that ends takes its sinks with it, and no sink is to lead to it any more.
LEMMA StopBody ==
  ASSUME BaseInv, Body(Idle), NEW g \in Programs, Stop(g)
  PROVE  Body(Idle)' /\ UNCHANGED op
<1>1. /\ FinishSubprogram(g) /\ outputs' = [outputs EXCEPT ![g] = <<>>]
      /\ UNCHANGED <<connections, filter_conversions, epoch, op>>
  BY DEF Stop, connectionVars
<1>2. DOMAIN outputs = Programs
  BY DEF BaseInv, OutputsInv
<1>3. OperationFits(Idle)' /\ ConnectionsFit' /\ AllAloneFit(Idle)'
  BY <1>1, IdleFits, SameFit, SameConnections DEF Body, OperationFits, Idle
<1>4. AllDone(Idle)'
  <2> SUFFICES ASSUME NEW k \in Running', NEW s \in DOMAIN outputs'[k], NEW m \in Targets,
                      Wanted(k, s, m)', outputs'[k][s].type = s[1]
               PROVE  outputs'[k][s].target = Goal(m, s[1])'
    BY DEF AllDone
  <2> DEFINE h == TargetSubProgram(m)
  <2>1. k # g /\ k \in Running /\ outputs'[k] = outputs[k]
    <3>1. k # g /\ k \in Running
      BY <1>1 DEF Running, FinishSubprogram, BaseInv, TableIsSound, TypeOK
    <3> QED BY <1>1, <1>2, <3>1
  <2>2. h \in Programs /\ OwnerOf(h)' = h
    BY TargetShape DEF Wanted, Rules, Reaches
  <2>3. OwnerOf(h) = h
    <3>1. program_indexes' = program_indexes /\ program_indexes[h] \in Handles \cup {None}
      BY <1>1, <2>2 DEF FinishSubprogram, BaseInv, TableIsSound, TypeOK
    <3>2. \A i \in Handles : sub_programs'[i] = sub_programs[i] \/ sub_programs'[i] = None
      BY <1>1 DEF FinishSubprogram, BaseInv, TableIsSound, TypeOK
    <3>3. h # TargetNotInScene /\ h # TargetNotAvailable /\ h # None
      BY <2>2, ConnectionsAssumption, TableAssumption DEF Errors
    <3>4. program_indexes[h] # None /\ sub_programs'[program_indexes[h]] = h
      BY <2>2, <3>1, <3>3 DEF OwnerOf
    <3>5. sub_programs[program_indexes[h]] = h
      BY <3>1, <3>2, <3>3, <3>4
    <3> QED BY <3>3, <3>4, <3>5 DEF OwnerOf
  <2>4. Reaches(m, s[1])
    <3>1. \A a, b : Conversion(a, b)' = Conversion(a, b)
      BY <1>1 DEF Conversion
    <3> QED BY <2>3, <3>1 DEF Wanted, Reaches
  <2>5. Wanted(k, s, m) /\ Goal(m, s[1])' = Goal(m, s[1])
    BY <1>1, <2>4, SameConnections, SameGoal DEF Wanted
  <2> QED BY <2>1, <2>5, IdleFits DEF Body, AllDone
<1> QED BY <1>1, <1>3, <1>4 DEF Body

\* A send that needs a new sink has found the one it should have.
LEMMA SendBody ==
  ASSUME BaseInv, NEW t \in Threads, Body(Idle), NEW z \in Sends, Send(t, z[1], z[2], z[3]),
         ~HasCore(z[1], StreamOf(z[2], z[3]), z[3])
  PROVE  \E o : op' = [op EXCEPT ![t] = o] /\ Body(o)'
<1> DEFINE g == z[1]
           target == z[2]
           type == z[3]
           s == StreamOf(target, type)
<1>1. PICK sink \in {SinkForTarget(g, target, type)} \ Errors :
          op' = [op EXCEPT ![t] = [kind |-> "send", pc |-> "create", program |-> g, epoch |-> epoch[g],
                                   stream |-> s, type |-> type, sink |-> sink]]
  BY DEF Send, Begin
<1> PICK next : next = [kind |-> "send", pc |-> "create", program |-> g, epoch |-> epoch[g],
                        stream |-> s, type |-> type, sink |-> sink]
  OBVIOUS
<1>2. UNCHANGED <<vars, connections, filter_conversions, outputs, epoch>>
  BY DEF Send, connectionVars
<1>3. /\ next.kind = "send" /\ next.program = g /\ next.stream = s /\ next.type = type
      /\ next.sink = SinkForTarget(g, target, type)
  BY <1>1
<1>4. g \in Programs /\ target \in Targets
  BY ConnectionsAssumption
<1> HIDE DEF g, target, type
<1>5. SendInv(next)
  <2> SUFFICES ASSUME NEW m \in Targets, Wanted(g, s, m), type = s[1]
               PROVE  SinkForTarget(g, target, type) = Goal(m, type)
    BY <1>3 DEF SendInv
  <2>1. s[2] = None
    BY DEF Wanted, Rules
  <2>2. target \in {<<"Any">>, <<"None">>}
    <3>1. CASE target \in {"Program"} \X Programs
      <4>1. s = <<type, target[2]>> /\ target[2] \in Programs
        BY <3>1 DEF StreamOf
      <4> QED BY <2>1, <4>1, TableAssumption
    <3>2. CASE target \in {"Filtered"} \X Filters \X Programs
      <4>1. s = <<FilterTarget[target[2]], target[3]>> /\ target[3] \in Programs
        BY <3>2 DEF StreamOf
      <4> QED BY <2>1, <4>1, TableAssumption
    <3> QED BY <1>4, <3>1, <3>2 DEF Targets
  <2>3. ConnectionsFit /\ AllAloneFit(Idle) /\ Whole(Idle)
    BY DEF Body, Whole, Idle
  <2> HIDE DEF s
  <2> QED BY <1>4, <2>2, <2>3, GoalIsFound
<1>6. OperationFits(next)
  BY <1>3, <1>5 DEF OperationFits
<1>7. Body(next)
  BY <1>6, IdleFits, BodyOf DEF Body
<1>8. op' = [op EXCEPT ![t] = next]
  BY <1>1
<1> QED BY <1>2, <1>7, <1>8, SameBody

\* The new sink is put among the outputs; those that are released need not lead anywhere.
LEMMA SendCreateBody ==
  ASSUME BaseInv, NEW t \in Threads, Body(op[t]), SendCreate(t)
  PROVE  \E o : op' = [op EXCEPT ![t] = o] /\ Body(o)'
<1> DEFINE o == op[t]
           g == o.program
           s == o.stream
           created == [u \in DOMAIN outputs[g] \cup {s} |->
                         IF u = s THEN [type |-> o.type, target |-> o.sink] ELSE outputs[g][u]]
           release == Cardinality(DOMAIN created) > output_high_water[g] + NewSinksBeforeRelease
           kept == DOMAIN created \ (IF release THEN Unused(g, s) ELSE {})
<1>1. o.kind = "send" /\ SendInv(o)
  BY DEF SendCreate, Continue, Body, OperationFits, Idle
<1>2. op' = [op EXCEPT ![t] = Idle] /\ UNCHANGED <<vars, connections, filter_conversions, epoch>>
  BY DEF SendCreate, Goto, connectionVars
<1>3. \/ outputs' = outputs
      \/ /\ StillRuns(<<0, g, o.epoch>>)
         /\ outputs' = [outputs EXCEPT ![g] = [u \in kept |-> created[u]]]
  BY DEF SendCreate, sinkVars
<1>4. DOMAIN outputs = Programs
  BY DEF BaseInv, OutputsInv
<1>5. /\ \A a, b, m : ~Todo(o, a, b, m)
      /\ \A T, f, h : ~Half(o, T, f, h)
  BY <1>1 DEF Todo, Half
<1>6. OperationFits(Idle)' /\ ConnectionsFit' /\ AllAloneFit(Idle)'
  <2>1. AllAloneFit(Idle)
    BY <1>5, AloneAnyway DEF Body
  <2> QED BY <1>2, <2>1, SameFit, SameConnections DEF Body, OperationFits, Idle
<1>7. AllDone(Idle)'
  <2> SUFFICES ASSUME NEW k \in Running, NEW u \in DOMAIN outputs'[k], NEW m \in Targets,
                      Wanted(k, u, m), outputs'[k][u].type = u[1]
               PROVE  outputs'[k][u].target = Goal(m, u[1])
    BY <1>2, SameWanted DEF AllDone, Running, vars
  <2>1. k \in Programs
    BY DEF Running
  <2>2. u \in DOMAIN outputs[k] /\ outputs'[k][u] = outputs[k][u] => outputs'[k][u].target = Goal(m, u[1])
    BY <1>5 DEF Body, AllDone
  <2>3. CASE outputs'[k] = outputs[k]
    BY <2>2, <2>3
  <2>4. CASE outputs'[k] # outputs[k]
    <3> HIDE DEF created, kept
    <3>1. k = g /\ StillRuns(<<0, g, o.epoch>>) /\ outputs'[k] = [v \in kept |-> created[v]]
      <4> HIDE DEF o
      <4> QED BY <1>3, <1>4, <2>1, <2>4
    <3>2. u \in DOMAIN outputs[g] \cup {s} /\ outputs'[k][u] = created[u]
      BY <3>1 DEF kept, created
    <3>3. CASE u = s
      <4>1. outputs'[k][u] = [type |-> o.type, target |-> o.sink]
        BY <3>2, <3>3 DEF created
      <4>2. o.type = s[1] /\ outputs'[k][u].target = o.sink
        BY <3>3, <4>1
      <4> QED BY <1>1, <3>1, <3>3, <4>2 DEF SendInv
    <3>4. CASE u # s
      <4>1. u \in DOMAIN outputs[k] /\ outputs'[k][u] = outputs[k][u]
        BY <3>1, <3>2, <3>4 DEF created
      <4> QED BY <2>2, <4>1
    <3> QED BY <3>3, <3>4
  <2> QED BY <2>3, <2>4
<1> QED BY <1>2, <1>6, <1>7 DEF Body

----------------------------------------------------------------------------
\* What an operation of a thread has to show: nothing else is in progress.
LEMMA OnlyOne ==
  ASSUME NEW t \in Threads, DOMAIN op = Threads, Only(t),
         \E o : op' = [op EXCEPT ![t] = o] /\ Body(o)'
  PROVE  CalmInv'
<1>1. PICK o : op' = [op EXCEPT ![t] = o] /\ Body(o)'
  OBVIOUS
<1>2. op'[t] = o /\ \A u \in Threads \ {t} : op'[u] = Idle
  BY <1>1 DEF Only
<1>3. OneOperation'
  BY <1>2 DEF OneOperation, Idle
<1>4. ASSUME NEW u \in Threads, Only(u)' PROVE op'[u] = o
  <2>1. CASE u = t
    BY <1>2, <2>1
  <2>2. CASE u # t
    BY <1>2, <1>4, <2>2 DEF Only, Idle
  <2> QED BY <2>1, <2>2
<1>5. \A u \in Threads : Only(u)' => Body(op[u])'
  <2> SUFFICES ASSUME NEW u \in Threads, Only(u)' PROVE Body(op[u])'
    OBVIOUS
  <2>1. op'[u] = o
    BY <1>4
  <2> QED BY <1>1, <2>1
<1>6. Quiet' => Body(Idle)'
  <2> SUFFICES ASSUME Quiet' PROVE Body(Idle)'
    OBVIOUS
  <2>1. o = Idle
    BY <1>2 DEF Quiet, Idle
  <2> QED BY <1>1, <2>1
<1> QED BY <1>3, <1>5, <1>6 DEF CalmInv

\* An operation that begins or goes on is the only one, and what is known of it holds.
LEMMA BeginsAlone ==
  ASSUME CalmInv, NEW t \in Threads, NEW o, Begin(t, o), Calm'
  PROVE  Only(t) /\ Body(Idle)
<1>1. op[t] = Idle /\ Able /\ ~overlapped /\ \A u \in Threads \ {t} : op[u] = Idle
  BY DEF Begin, Calm
<1>2. Only(t) /\ Quiet /\ Calm
  BY <1>1 DEF Only, Quiet, Calm
<1> QED BY <1>2 DEF CalmInv

LEMMA GoesOnAlone ==
  ASSUME CalmInv, NEW t \in Threads, NEW kind, NEW pc, Continue(t, kind, pc), kind # "idle",
         UNCHANGED overlapped, Calm'
  PROVE  Only(t) /\ Body(op[t])
<1>1. Calm /\ op[t] # Idle
  BY DEF Continue, Calm, Idle
<1>2. Only(t)
  BY <1>1 DEF CalmInv, OneOperation, Only
<1> QED BY <1>1, <1>2 DEF CalmInv

LEMMA CalmKept ==
  ASSUME CalmInv, UNCHANGED <<vars, connections, filter_conversions, outputs, epoch, op>>, Calm
  PROVE  CalmInv'
<1>1. OneOperation'
  BY DEF CalmInv, OneOperation, Idle
<1>2. \A u \in Threads : Only(u)' => Body(op[u])'
  <2> SUFFICES ASSUME NEW u \in Threads, Only(u)' PROVE Body(op[u])'
    OBVIOUS
  <2>1. Body(op[u])
    BY DEF CalmInv, Only, Idle
  <2>2. PICK o : o = op[u]
    OBVIOUS
  <2>3. op'[u] = o
    BY <2>2
  <2>4. Body(o)'
    BY <2>1, <2>2, SameBody
  <2> QED BY <2>3, <2>4
<1>3. Quiet' => Body(Idle)'
  <2>1. Quiet' => Body(Idle)
    BY DEF CalmInv, Quiet, Idle
  <2> QED BY <2>1, SameBody
<1> QED BY <1>1, <1>2, <1>3 DEF CalmInv

LEMMA CalmStep ==
  ASSUME BaseInv, DOMAIN op = Threads, CalmInv, [ConnectionsNext]_allVars
  PROVE  CalmInv'
<1> SUFFICES ASSUME Calm' PROVE CalmInv'
  BY DEF CalmInv
<1>0. ~broken' /\ panicked' = None
  BY DEF Calm, Able
<1>1. ASSUME NEW t \in Threads, NEW q \in Requests, ConnectPrograms(t, q[1], q[2], q[3]) PROVE CalmInv'
  <2>1. \E o : Begin(t, o)
    BY <1>1 DEF ConnectPrograms
  <2>2. Only(t) /\ Body(Idle)
    BY <2>1, BeginsAlone
  <2> QED BY <1>1, <2>2, ConnectProgramsBody, OnlyOne
<1>2. ASSUME NEW t \in Threads, ConnectStep(t) PROVE CalmInv'
  <2>1. (\E pc : Continue(t, "connect", pc)) /\ UNCHANGED overlapped
    BY <1>2, ConnectGoesOn
  <2>2. Only(t) /\ Body(op[t])
    BY <2>1, GoesOnAlone
  <2>3. \E o : op' = [op EXCEPT ![t] = o] /\ Body(o)'
    BY <1>0, <1>2, <2>2, ConnectFilterBody, ConnectLookupBody, ConnectStoreBody, ConnectApplyBody,
       ConnectAppliedBody, ConnectConversionsBody, ConnectReconnectBody DEF ConnectStep
  <2> QED BY <2>2, <2>3, OnlyOne
<1>3. ASSUME NEW t \in Threads, NEW g \in Programs, Start(t, g) PROVE CalmInv'
  <2>1. \E o : Begin(t, o)
    BY <1>0, <1>3, TableAssumption DEF Start, StartRefused
  <2>2. Only(t) /\ Body(Idle)
    BY <2>1, BeginsAlone
  <2> QED BY <1>0, <1>3, <2>2, StartBody, OnlyOne
<1>4. ASSUME NEW t \in Threads, StartSnapshot(t) \/ StartReconnect(t) PROVE CalmInv'
  <2>1. (\E pc : Continue(t, "start", pc)) /\ UNCHANGED overlapped
    BY <1>4 DEF StartSnapshot, StartReconnect, Goto
  <2>2. Only(t) /\ Body(op[t])
    BY <2>1, GoesOnAlone
  <2> QED BY <1>4, <2>2, StartSnapshotBody, StartReconnectBody, OnlyOne
<1>5. ASSUME NEW t \in Threads, NEW z \in Sends, Send(t, z[1], z[2], z[3]) PROVE CalmInv'
  <2> DEFINE known == HasCore(z[1], StreamOf(z[2], z[3]), z[3])
  <2>1. CASE known
    <3>1. UNCHANGED <<vars, connections, filter_conversions, outputs, epoch, op, overlapped, broken>> /\ Able
      BY <1>5, <2>1 DEF Send, connectionVars
    <3>2. Calm
      BY <3>1 DEF Calm
    <3> QED BY <3>1, <3>2, CalmKept
  <2>2. CASE ~known
    <3>1. \E o : Begin(t, o)
      BY <1>5, <2>2 DEF Send
    <3>2. Only(t) /\ Body(Idle)
      BY <3>1, BeginsAlone
    <3> QED BY <1>5, <2>2, <3>2, SendBody, OnlyOne
  <2> QED BY <2>1, <2>2
<1>6. ASSUME NEW t \in Threads, SendCreate(t) PROVE CalmInv'
  <2>1. Continue(t, "send", "create") /\ UNCHANGED overlapped
    BY <1>6 DEF SendCreate, Goto
  <2>2. Only(t) /\ Body(op[t])
    BY <2>1, GoesOnAlone
  <2> QED BY <1>6, <2>2, SendCreateBody, OnlyOne
<1>7. ASSUME NEW g \in Programs, Stop(g) PROVE CalmInv'
  <2>1. Calm /\ Quiet
    BY <1>7 DEF Stop, FinishSubprogram, Calm, Able
  <2>2. Body(Idle)' /\ UNCHANGED op
    BY <1>7, <2>1, StopBody DEF CalmInv
  <2>3. \A u \in Threads : op'[u] = Idle
    BY <2>1, <2>2 DEF Quiet
  <2>4. \A u \in Threads : Body(op[u])'
    BY <2>2, <2>3
  <2>5. OneOperation'
    BY <2>3 DEF OneOperation, Idle
  <2> QED BY <2>2, <2>4, <2>5 DEF CalmInv
<1>8. ASSUME NEW g \in Programs, NEW s \in held[g], DropSink(g, s) PROVE CalmInv'
  <2>1. UNCHANGED <<vars, connections, filter_conversions, outputs, epoch, op, overlapped, broken>>
    BY <1>8 DEF DropSink, connectionVars
  <2>2. Calm
    BY <2>1 DEF Calm, Able, vars
  <2> QED BY <2>1, <2>2, CalmKept
<1>9. CASE UNCHANGED allVars
  <2>1. UNCHANGED <<vars, connections, filter_conversions, outputs, epoch, op, overlapped, broken>>
    BY <1>9 DEF allVars, connectionVars, sinkVars
  <2>2. Calm
    BY <2>1 DEF Calm, Able, vars
  <2> QED BY <2>1, <2>2, CalmKept
<1> QED BY <1>1, <1>2, <1>3, <1>4, <1>5, <1>6, <1>7, <1>8, <1>9 DEF ConnectionsNext

LEMMA CalmInit == ConnectionsInit => CalmInv
<1> SUFFICES ASSUME ConnectionsInit PROVE CalmInv
  OBVIOUS
<1>1. DOMAIN connections = {} /\ filter_conversions = {} /\ \A g \in Programs : DOMAIN outputs[g] = {}
  <2>1. DOMAIN <<>> = {}
    OBVIOUS
  <2> QED BY <2>1 DEF ConnectionsInit
<1>2. \A a, b : Connection(a, b) = None
  BY <1>1 DEF Connection
<1>3. ConnectionsFit
  BY <1>1 DEF ConnectionsFit
<1>4. AllAloneFit(Idle)
  <2>1. \A f \in Filters, h \in Programs : <<"Filtered", f, h>> # None
    BY ConnectionsAssumption DEF Targets
  <2> QED BY <1>2, <2>1 DEF AllAloneFit, AloneFit
<1>5. AllDone(Idle)
  BY <1>1 DEF AllDone, Running
<1>6. Body(Idle)
  BY <1>3, <1>4, <1>5, IdleFits DEF Body
<1>7. \A t \in Threads : op[t] = Idle
  BY DEF ConnectionsInit
<1>8. \A t \in Threads : Body(op[t])
  BY <1>6, <1>7
<1>9. OneOperation
  BY <1>7 DEF OneOperation
<1> QED BY <1>6, <1>8, <1>9 DEF CalmInv

----------------------------------------------------------------------------
\* The sink that is found for a general connection is the goal of the rule.
LEMMA FoundSinkIsGoal ==
  ASSUME ConnectionsFit, NEW g, NEW s, NEW m, Rules(g, s, m), TargetSubProgram(m) \in Running,
         BaseInv, IsDirect(m, s[1]), SinkForMapped(g, m, s[1]) \notin Errors,
         IsInput(SinkForMapped(g, m, s[1]))
  PROVE  Wanted(g, s, m)
<1> DEFINE T == s[1]
           h == TargetSubProgram(m)
           sink == SinkForMapped(g, m, T)
           goal == Goal(m, T)
<1>1. /\ h \in Programs /\ OwnerOf(h) = h /\ h \notin Errors
      /\ \/ m[1] = "Program" /\ m = <<"Program", h>>
         \/ m[1] = "Filtered" /\ m = <<"Filtered", m[2], h>>
  <2>1. h \in Programs /\ h \notin Errors
    BY TargetShape, ConnectionsAssumption DEF Rules
  <2>2. GetSubProgram(h) = h
    BY DEF BaseInv, TableIsSound, RunningProgramIsFound
  <2>3. OwnerOf(h) = h
    BY <2>1, <2>2, TableAssumption DEF GetSubProgram, OwnerOf
  <2> QED BY <2>1, <2>3, TargetShape DEF Rules
<1>2. ASSUME NEW found, sink = OrDisconnected(found)
      PROVE  sink = found /\ found \notin Errors /\ found # Disconnected
  BY <1>2 DEF OrDisconnected, IsInput
<1>3. ASSUME NEW f, NEW close, sink = OrDisconnected(FilteredInput(<<f>>, h, close))
      PROVE  <<f>> \notin Errors /\ FilterTarget[f] = InputType[h] /\ sink = InputOf(<<f>>, h, close)
  <2> DEFINE found == FilteredInput(<<f>>, h, close)
  <2>1. sink = found /\ found \notin Errors
    BY <1>2, <1>3
  <2>2. <<f>> \notin Errors
    BY <1>1, <2>1 DEF FilteredInput
  <2>3. Last(<<f>>) = f
    BY DEF Last
  <2>4. FilterTarget[f] = InputType[h]
    BY <1>1, <2>1, <2>2, <2>3 DEF FilteredInput, Errors
  <2> QED BY <1>1, <2>1, <2>2, <2>3, <2>4 DEF FilteredInput
<1>4. sink = goal => goal \notin Errors /\ IsInput(goal)
  OBVIOUS
<1>5. CASE m[1] = "Program" /\ InputType[h] = T
  <2>1. m[2] = h /\ m[1] # "Filtered" /\ m[1] # "None" /\ m[1] # "Any"
    BY <1>1, <1>5
  <2>2. sink = InputOf(<<>>, h, FALSE)
    BY <1>1, <1>5, <2>1 DEF SinkForMapped, DirectSink, Errors
  <2>3. Via(m, T) = <<>> /\ goal = InputOf(<<>>, h, FALSE)
    BY <1>5, <2>1 DEF Via, Goal
  <2>4. Reaches(m, T)
    BY <1>1, <1>5, <2>1 DEF Reaches
  <2> QED BY <1>4, <2>2, <2>3, <2>4 DEF Wanted, IsSink
<1>6. CASE m[1] = "Program" /\ InputType[h] # T
  <2> DEFINE f == CHOOSE c \in Filters : FilterSource[c] = T /\ FilterTarget[c] = InputType[h]
  <2>1. m[2] = h /\ m[1] # "Filtered" /\ m[1] # "None" /\ m[1] # "Any"
    BY <1>1, <1>6
  <2>2. Conversion(T, InputType[h]) # {} /\ Plain(T)
    BY <1>6, <2>1 DEF IsDirect, Plain
  <2>3. f \in Filters /\ FilterSource[f] = T /\ FilterTarget[f] = InputType[h]
    BY <2>2 DEF Conversion, ConnectionsFit
  <2>4. (CHOOSE c \in Conversion(T, InputType[h]) : TRUE) = f
    BY <2>2, ConversionIs
  <2>5. Via(m, T) = <<f>> /\ goal = InputOf(<<f>>, h, FALSE)
    BY <1>6, <2>1 DEF Via, Goal
  <2> HIDE DEF f
  <2>6. FilteredInputForProgram(f, T, h, FALSE) = FilteredInput(<<f>>, h, FALSE)
    BY <1>1, <2>3 DEF FilteredInputForProgram, WithConversion
  <2>7. FilterSourceForProgram(g, T, InputType[h], h) = FilteredInput(<<f>>, h, FALSE)
    BY <2>2, <2>4, <2>6 DEF FilterSourceForProgram
  <2> DEFINE found == FilterSourceForProgram(g, T, InputType[h], h)
             direct == DirectSink(g, T, h, h)
  <2>8. sink = direct
    BY <1>1, <1>6, <2>1, Zenon DEF SinkForMapped
  <2>9. direct = OrDisconnected(found)
    <3>1. h # TargetNotInScene /\ h # TargetNotAvailable
      BY <1>1 DEF Errors
    <3> QED BY <1>6, <3>1, Zenon DEF DirectSink
  <2> HIDE DEF found, direct, sink, goal
  <2>10. sink = OrDisconnected(FilteredInput(<<f>>, h, FALSE))
    BY <2>7, <2>8, <2>9 DEF found
  <2>11. <<f>> \notin Errors /\ sink = InputOf(<<f>>, h, FALSE)
    BY <1>3, <2>10
  <2>12. Reaches(m, T)
    BY <1>1, <2>1, <2>2 DEF Reaches
  <2> QED BY <1>4, <2>5, <2>11, <2>12 DEF Wanted, IsSink, goal
<1>7. CASE m[1] = "Filtered"
  <2> DEFINE f == m[2]
  <2>1. m[3] = h /\ FilterSource[f] = T /\ m[1] # "None" /\ m[1] # "Any" /\ m[1] # "Program"
    BY <1>1, <1>7, RuleIs
  <2>2. Via(m, T) = <<f>> /\ goal = InputOf(<<f>>, h, TRUE)
    BY <1>7 DEF Via, Goal
  <2> HIDE DEF f
  <2>3. FilteredInputForProgram(f, T, h, TRUE) = FilteredInput(<<f>>, h, TRUE)
    BY <1>1, <2>1 DEF FilteredInputForProgram, WithConversion
  <2> DEFINE found == FilteredInputForProgram(m[2], T, m[3], TRUE)
  <2>4. sink = OrDisconnected(found)
    BY <2>1, Zenon DEF SinkForMapped
  <2>5. found = FilteredInput(<<f>>, h, TRUE)
    BY <2>1, <2>3 DEF f
  <2> HIDE DEF found, sink, goal
  <2>6. sink = OrDisconnected(FilteredInput(<<f>>, h, TRUE))
    BY <2>4, <2>5
  <2>7. <<f>> \notin Errors /\ FilterTarget[f] = InputType[h] /\ sink = InputOf(<<f>>, h, TRUE)
    BY <1>3, <2>6
  <2>8. Reaches(m, T)
    BY <1>1, <2>1, <2>7 DEF Reaches, f
  <2> QED BY <1>4, <2>2, <2>7, <2>8 DEF Wanted, IsSink, goal
<1> QED BY <1>1, <1>5, <1>6, <1>7

\* A general connection is a rule.
LEMMA GeneralIsRule ==
  ASSUME ConnectionsFit, AllAloneFit(Idle), NEW g, NEW s,
         IsGeneral(g, s, MappedTarget(g, <<"Any">>, s[1]))
  PROVE  Rules(g, s, MappedTarget(g, <<"Any">>, s[1]))
<1> DEFINE T == s[1]
           found == MappedTarget(g, <<"Any">>, T)
<1> PICK m : m = found
  OBVIOUS
<1>1. /\ s[2] = None /\ Connection(<<"Program", g>>, s) = None /\ Connection(<<"All">>, s) = m
      /\ \A f \in Filters : Connection(<<"Filtered", f>>, s) \in {None, <<"Any">>}
      /\ m \in Targets \ {<<"None">>, <<"Any">>}
      /\ Alone(T, TargetSubProgram(m))
  BY DEF IsGeneral, TargetProgram, ForTarget, Alone
<1>2. m # None /\ s \in Streams
  BY <1>1, ConnectionIs, ConnectionsAssumption
<1>3. s = <<T, None>> /\ T \in Types
  BY <1>1, <1>2 DEF Streams
<1>4. m[1] = "Program" => Connection(<<"All">>, <<T, m[2]>>) = None
  <2> SUFFICES ASSUME m[1] = "Program" PROVE Connection(<<"All">>, <<T, m[2]>>) = None
    OBVIOUS
  <2> DEFINE h == m[2]
             general == Connection(<<"All">>, <<T, h>>)
  <2>1. TargetSubProgram(m) = h /\ h \in Programs
    BY <1>1, TargetShape
  <2>2. AloneFit(Idle, T, h)
    BY <1>1, <1>3, <2>1 DEF AllAloneFit
  <2>3. general # None => general[1] = "Filtered" /\ general[3] = h
    BY <2>2 DEF AloneFit
  <2>4. OwnOrGeneral(g, <<T, None>>) = m
    BY <1>1, <1>2, <1>3, FirstOfTwo DEF OwnOrGeneral
  <2> DEFINE others == FilterMappedTarget(T)
             any == <<"Any">>
  <2>5. FirstOf(<<m, others, DefaultTarget[T]>>) = m
    BY <1>2, FirstOfThree
  <2>6. any[1] = "Any" /\ any[1] # "Program" /\ any[1] # "Filtered"
    OBVIOUS
  <2> HIDE DEF any
  <2>7. RedirectedTarget(g, any, T) = m
    BY <2>4, <2>5, <2>6, Zenon DEF RedirectedTarget
  <2> HIDE DEF found
  <2>8. found = AddFilter(m, T)
    BY <2>7 DEF found, MappedTarget, any
  <2>9. AddFilter(m, T) = WithFilterOf(m, general)
    BY <2>1 DEF AddFilter
  <2> HIDE DEF general
  <2>10. general # None => WithFilterOf(m, general) = general
    BY <2>3 DEF WithFilterOf
  <2>11. general # None => m = general
    BY <2>8, <2>9, <2>10
  <2>12. "Program" # "Filtered"
    OBVIOUS
  <2>13. general = None
    BY <2>3, <2>11, <2>12
  <2> QED BY <2>13 DEF general
<1>5. Rules(g, s, m)
  BY <1>1, <1>4 DEF Rules
<1> QED BY <1>5

LEMMA CalmIsConnected == BaseInv /\ CalmInv => GeneralConnectionIsMade
<1> SUFFICES ASSUME BaseInv, CalmInv, Quiet, ~overlapped, Able,
                    NEW g \in Running, NEW s \in DOMAIN outputs[g],
                    NEW m, m = MappedTarget(g, <<"Any">>, s[1]),
                    IsGeneral(g, s, m), IsDirect(m, s[1]), TargetSubProgram(m) \in Running,
                    SinkForMapped(g, m, s[1]) \notin Errors, IsInput(SinkForMapped(g, m, s[1]))
             PROVE  outputs[g][s].target = SinkForMapped(g, m, s[1])
  BY DEF GeneralConnectionIsMade
<1>1. Body(Idle)
  BY DEF CalmInv, Calm
<1>2. ConnectionsFit /\ AllAloneFit(Idle) /\ AllDone(Idle)
  BY <1>1 DEF Body
<1>3. Rules(g, s, m)
  BY <1>2, GeneralIsRule
<1>4. Wanted(g, s, m)
  BY <1>2, <1>3, FoundSinkIsGoal
<1>5. SinkForMapped(g, m, s[1]) = Goal(m, s[1])
  BY <1>2, <1>4, SinkIsGoal
<1>6. outputs[g][s].type = s[1] /\ m \in Targets
  BY <1>3 DEF IsGeneral, Rules
<1> QED BY <1>2, <1>4, <1>5, <1>6, IdleFits DEF AllDone

\* The lives of programs are counted for every program.
LEMMA EpochsStep ==
  DOMAIN epoch = Programs /\ [ConnectionsNext]_allVars => DOMAIN epoch' = Programs
<1> SUFFICES ASSUME DOMAIN epoch = Programs, [ConnectionsNext]_allVars, epoch' # epoch
             PROVE  DOMAIN epoch' = Programs
  OBVIOUS
<1>1. ASSUME NEW t \in Threads, ConnectStep(t) PROVE UNCHANGED epoch
  <2>1. ConnectFilter(t) \/ ConnectLookup(t) \/ ConnectStore(t) => UNCHANGED epoch
    BY DEF ConnectFilter, ConnectLookup, ConnectStore
  <2>2. ConnectApply(t) \/ ConnectApplied(t) => UNCHANGED epoch
    BY DEF ConnectApply, ConnectApplied
  <2>3. ConnectConversions(t) => UNCHANGED epoch
    BY DEF ConnectConversions
  <2>4. ConnectReconnect(t) => UNCHANGED epoch
    BY DEF ConnectReconnect
  <2> QED BY <1>1, <2>1, <2>2, <2>3, <2>4 DEF ConnectStep
<1>2. PICK t \in Threads, g \in Programs : Start(t, g)
  BY <1>1 DEF ConnectionsNext, ConnectPrograms, StartSnapshot, StartReconnect, Send, SendCreate, Stop,
              DropSink, allVars
<1> QED BY <1>2 DEF Start

\* As long as connecting, starting and opening sinks do not overlap, the sinks of all
\* programs are where the connections for all programs say, whatever the order in which
\* connect_programs, reconnect_subprogram and send did it and programs were restarted.
THEOREM GeneralConnectionsAreMade == ConnectionsSpec => []GeneralConnectionIsMade
<1> DEFINE Kept == OutputsInv /\ OpInv /\ DOMAIN epoch = Programs
<1>1. ConnectionsInit => Kept
  BY SinksInit DEF ConnectionsInit
<1>2. Kept /\ [ConnectionsNext]_allVars => Kept'
  BY SinksStep, EpochsStep
<1>3. TableIsSound /\ Kept /\ CalmInv /\ [ConnectionsNext]_allVars => CalmInv'
  BY CalmStep DEF BaseInv, OpInv
<1>4. TableIsSound /\ Kept /\ CalmInv => GeneralConnectionIsMade
  BY CalmIsConnected DEF BaseInv
<1> HIDE DEF Kept
<1> QED BY <1>1, <1>2, <1>3, <1>4, CalmInit, TableStaysSound, PTL DEF ConnectionsSpec
=============================================================================
