---------------------------- MODULE Connections ----------------------------
(***************************************************************************)
(* How the output sinks of programs come to point at the inputs of others: *)
(* Scene::connect_programs and SceneContext::send (scene_core.rs,          *)
(* scene_context.rs, subprogram_core.rs, stream_id.rs), the reconnection   *)
(* of sinks when a program starts, and the conversion filters (filter.rs). *)
(*                                                                         *)
(* The operations run on any thread and take the locks of the scene core,  *)
(* of the sub-programs and of the sinks one after the other.  An action is *)
(* the work of one critical section of the scene core or of one            *)
(* sub-program: op[t] holds what the operation of thread t has read and    *)
(* still has to do.  Left out: the SceneUpdates that report the changes    *)
(* (ControlProgram takes them as inputs), the wakers (MessageStream), and  *)
(* the initialise hook of a message type, which is empty by default.       *)
(*                                                                         *)
(* A stream id is <<message type, target program or None>>, a source       *)
(* <<"All">>, <<"Program", g>> or <<"Filtered", f>>, a target <<"None">>,  *)
(* <<"Any">>, <<"Program", g>> or <<"Filtered", f, g>>.                    *)
(***************************************************************************)
EXTENDS SubProgramTable, Sequences, SequencesExt

CONSTANTS Types,         \* message types
          InputType,     \* per program: the type of its input stream
          Filters,       \* filter handles
          FilterSource,  \* per filter: the message type it reads
          FilterTarget,  \* per filter: the message type it produces
          DefaultTarget, \* per type: SceneMessage::default_target
          Threads,       \* threads that connect, start and send
          Requests,      \* the <<source, target, stream>> that are connected
          Sends,         \* the <<program, target, type>> that are sent to
          NewSinksBeforeRelease, \* NUM_NEW_SINKS_BEFORE_RELEASE
          Disconnected, Discard, \* values of OutputSinkTarget
          TargetNotInScene, TargetNotAvailable, WrongInputType, FilterMappingMissing,
          FilterOutputDoesNotMatch, FilterInputDoesNotMatch, \* values of ConnectionError
          MaxConnects,   \* bound: calls of connect_programs
          MaxStarts,     \* bound: starts of one program
          MaxStops,      \* bound: programs that end
          MaxSends       \* bound: calls of send

\* Stream ids, sources, targets, and the errors of a search for an input.
Streams == Types \X (Programs \cup {None})
Sources == {<<"All">>} \cup ({"Program"} \X Programs) \cup ({"Filtered"} \X Filters)
Targets == {<<"None">>, <<"Any">>} \cup ({"Program"} \X Programs) \cup ({"Filtered"} \X Filters \X Programs)
Errors == {TargetNotInScene, TargetNotAvailable, WrongInputType, FilterMappingMissing,
           FilterOutputDoesNotMatch, FilterInputDoesNotMatch}

ASSUME ConnectionsAssumption ==
    /\ InputType \in [Programs -> Types] /\ DefaultTarget \in [Types -> Seq(STRING)]
    /\ FilterSource \in [Filters -> Types] /\ FilterTarget \in [Filters -> Types]
    /\ \A f, h \in Filters : FilterSource[f] = FilterSource[h] /\ FilterTarget[f] = FilterTarget[h] => f = h
    /\ Requests \subseteq Sources \X Targets \X Streams /\ Sends \subseteq Programs \X Targets \X Types
    /\ None \notin Targets /\ Errors \cap Programs = {}
    /\ MaxStarts \in [Programs -> Nat]
    /\ {NewSinksBeforeRelease, MaxConnects, MaxStops, MaxSends} \subseteq Nat

VARIABLES connections,        \* SceneCore::connections, a partial function
          filter_conversions, \* the filters that were connected as a source
          filtered_targets,   \* per type: the types a source filter makes of it
          outputs,            \* SubProgramCore::outputs, a partial function per program
          output_high_water,  \* SubProgramCore::output_high_water
          held,               \* per program: streams of which it holds an OutputSink
          epoch,              \* per program: number of times it was started
          op,                 \* per thread: the operation it is in the middle of
          broken,             \* some thread panicked while it held a lock
          overlapped,         \* history: two operations were in progress at one time
          connects, sends, stops \* history: calls made, programs ended

connectionVars == <<connections, filter_conversions, filtered_targets>>
sinkVars == <<outputs, output_high_water, held>>
counters == <<connects, sends, stops>>
allVars == <<vars, connectionVars, sinkVars, epoch, op, broken, overlapped, counters>>

Idle == [kind |-> "idle"]
Quiet == \A t \in Threads : op[t] = Idle
Able == panicked = None /\ ~broken

\* A stream with a target program of its own (for_target).
ForTarget(s, g) == <<s[1], g>>
TargetProgram(s) == s[2]
TargetSubProgram(target) == IF target[1] \in {"Program", "Filtered"} THEN target[Len(target)] ELSE None

\* StreamSource::matches_subprogram
Matches(source, g) == source[1] = "Program" => source[2] = g

(***************************************************************************)
(* Sinks.  A sink that points at an input names the program that owns the  *)
(* input stream core, which life of that program it was, the filters the   *)
(* messages go through on the way, and whether the core is closed with it. *)
(***************************************************************************)
InputOf(via, g, close) == [via |-> via, program |-> g, epoch |-> epoch[g], close |-> close]
IsInput(sink) == sink \notin {Disconnected, Discard}
Alive(sink) == sink.program \in Running /\ sink.epoch = epoch[sink.program]

Connection(source, s) == IF <<source, s>> \in DOMAIN connections THEN connections[<<source, s>>] ELSE None
Conversion(from, to) ==
    {f \in filter_conversions : FilterSource[f] = from /\ FilterTarget[f] = to}

(***************************************************************************)
(* Finding the input of a target.  Each of these returns the owner of an   *)
(* input, a sink target or the name of a ConnectionError.                  *)
(***************************************************************************)
\* The owner of the input that is found for a program id.
OwnerOf(g) ==
    CASE program_indexes[g] = None -> TargetNotInScene
      [] program_indexes[g] # None -> IF sub_programs[program_indexes[g]] = None
                                      THEN TargetNotAvailable ELSE sub_programs[program_indexes[g]]

\* get_target_input
IfItReads(type, owner) ==
    IF owner \in Errors \/ InputType[owner] = type \/ Conversion(type, InputType[owner]) # {}
    THEN owner ELSE WrongInputType

GetTargetInput(g, type) == IfItReads(type, OwnerOf(g))

\* create_input_stream_core and chain_filters: every filter reads what the one before
\* it produces and the last one produces what the target reads.
Chained(via, type) ==
    CASE FilterSource[via[1]] # type -> FilterInputDoesNotMatch
      [] \E i \in 1..Len(via)-1 : FilterTarget[via[i]] # FilterSource[via[i+1]] -> FilterOutputDoesNotMatch
      [] OTHER -> via

FilteredInput(via, owner, close) ==
    CASE owner \in Errors -> TargetNotInScene
      [] via \in Errors -> via
      [] OTHER ->
             IF FilterTarget[Last(via)] # InputType[owner] THEN FilterOutputDoesNotMatch
             ELSE InputOf(via, owner, close)

\* A conversion is put before a filter that does not read the type itself.
WithConversion(f, type, first) ==
    CASE FilterSource[f] = type -> <<f>>
      [] FilterSource[f] # type /\ first = {} -> FilterMappingMissing
      [] OTHER -> <<CHOOSE c \in first : TRUE, f>>

\* filtered_input_for_program, filtered_chain_input_for_program
FilteredInputForProgram(f, type, g, close) ==
    FilteredInput(WithConversion(f, type, Conversion(type, FilterSource[f])), OwnerOf(g), close)
FilteredChainInputForProgram(f, h, type, g, close) ==
    FilteredInput(Chained(<<f, h>>, type), OwnerOf(g), close)

\* The first element of a sequence that is not None, or None.
FirstOf(seq) ==
    IF \A i \in DOMAIN seq : seq[i] = None THEN None
    ELSE seq[CHOOSE i \in DOMAIN seq : seq[i] # None /\ \A j \in 1..i-1 : seq[j] = None]

\* A connection of g's own, or else one of all programs.
OwnOrGeneral(g, s) == FirstOf(<<Connection(<<"Program", g>>, s), Connection(<<"All">>, s)>>)

\* filter_source_for_program: a conversion between the two types, or else a source
\* filter for whose result there is a connection to the target.
ThroughConnection(first, type, connection) ==
    CASE connection[1] \in {"None", "Any"} \/ first = {} -> WrongInputType
      [] connection[1] = "Program" /\ first # {} ->
             FilteredInputForProgram(CHOOSE f \in first : TRUE, type, connection[2], FALSE)
      [] OTHER ->
             FilteredChainInputForProgram(CHOOSE f \in first : TRUE, connection[2], type, connection[3], FALSE)

FilterSourceForProgram(g, type, itype, target) ==
    LET results == filtered_targets[type]
        found == [i \in DOMAIN results |-> OwnOrGeneral(g, <<results[i], target>>)]
        useful == {i \in DOMAIN results : found[i] # None}
        direct == Conversion(type, itype)
    IN IF direct # {} THEN FilteredInputForProgram(CHOOSE f \in direct : TRUE, type, target, FALSE)
       ELSE IF useful = {} THEN WrongInputType
       ELSE LET i == CHOOSE k \in useful : \A l \in useful : k <= l
            IN ThroughConnection(Conversion(type, results[i]), type, found[i])

\* filter_mapped_target
IfUseful(target) == IF target \in {<<"None">>, <<"Any">>} THEN None ELSE target
FilterMappedTarget(type) ==
    FirstOf([i \in DOMAIN filtered_targets[type] |->
                IfUseful(Connection(<<"All">>, <<filtered_targets[type][i], None>>))])

\* mapped_target_for_connection.  A connection for messages to one program may lead
\* elsewhere.
Redirect(g, s) == FirstOf(<<OwnOrGeneral(g, s), <<"Program", TargetProgram(s)>>>>)

RedirectedTarget(g, target, type) ==
    CASE target[1] = "Program" -> Redirect(g, <<type, target[2]>>)
      [] target[1] = "Filtered" -> Redirect(g, <<FilterTarget[target[2]], target[3]>>)
      [] target[1] = "Any" -> FirstOf(<<OwnOrGeneral(g, <<type, None>>), FilterMappedTarget(type),
                                        DefaultTarget[type]>>)
      [] OTHER -> FirstOf(<<OwnOrGeneral(g, <<type, None>>), FilterMappedTarget(type), target>>)

\* The filter that all messages to the program go through is added.
WithFilterOf(mapped, general) ==
    IF /\ mapped[1] = "Program" /\ general # None
       /\ general[1] = "Filtered" /\ general[3] = mapped[2]
    THEN general ELSE mapped
AddFilter(mapped, type) ==
    WithFilterOf(mapped, Connection(<<"All">>, <<type, TargetSubProgram(mapped)>>))
MappedTarget(g, target, type) == AddFilter(RedirectedTarget(g, target, type), type)

\* A target that is not there yet, or not of the right type yet, leaves the sink waiting.
OrDisconnected(result) ==
    IF result \in {WrongInputType, TargetNotInScene} THEN Disconnected ELSE result

\* Mutant: the input is used whatever it reads.
DirectSink_Unchecked(g, type, target, owner) ==
    CASE owner = TargetNotInScene -> Disconnected
      [] owner = TargetNotAvailable -> TargetNotInScene
      [] owner \notin Errors -> InputOf(<<>>, owner, FALSE)

\* sink_for_target, without and with a filter in the target that is asked for.
DirectSink(g, type, target, owner) ==
    CASE owner = TargetNotInScene -> Disconnected
      [] owner = TargetNotAvailable -> TargetNotInScene
      [] OTHER -> IF InputType[owner] = type THEN InputOf(<<>>, owner, FALSE)
                  ELSE OrDisconnected(FilterSourceForProgram(g, type, InputType[owner], target))

SinkForMapped(g, mapped, type) ==
    CASE mapped[1] = "None" -> Discard
      [] mapped[1] = "Any" -> Disconnected
      [] mapped[1] = "Program" -> DirectSink(g, type, mapped[2], OwnerOf(mapped[2]))
      [] OTHER -> OrDisconnected(FilteredInputForProgram(mapped[2], type, mapped[3], TRUE))

FilteredSinkForMapped(f, mapped, type) ==
    CASE mapped[1] = "None" -> Discard
      [] mapped[1] = "Any" -> Disconnected
      [] mapped[1] = "Program" -> OrDisconnected(FilteredInputForProgram(f, type, mapped[2], TRUE))
      [] OTHER ->
             OrDisconnected(FilteredChainInputForProgram(f, mapped[2], type, mapped[3], TRUE))

SinkForTarget(g, target, type) ==
    IF target[1] = "Filtered" THEN FilteredSinkForMapped(target[2], MappedTarget(g, target, type), type)
    ELSE SinkForMapped(g, MappedTarget(g, target, type), type)

(***************************************************************************)
(* Changing sinks                                                          *)
(***************************************************************************)
HasOutput(g, s) == s \in DOMAIN outputs[g]
WithTarget(outs, s, sink) == [outs EXCEPT ![s].target = sink]

\* active_target: what a sink points at.  Whether the process of a filter whose
\* target has ended has noticed that is not known (filter_runs).
ActiveTarget(sink, filter_runs) ==
    CASE sink = Disconnected -> <<"Any">>
      [] sink = Discard -> <<"None">>
      [] OTHER -> IF Alive(sink) \/ (sink.via # <<>> /\ filter_runs)
                  THEN <<"Program", sink.program>> ELSE <<"None">>

\* reconnect_sink: an error leaves the sink as it is.
UnlessError(output, sink) == IF sink \in Errors THEN output ELSE [output EXCEPT !.target = sink]
Reconnected(g, output, target) == UnlessError(output, SinkForTarget(g, target, output.type))

\* reconnect_disconnected_outputs: in spite of its name, every sink for the type is
\* connected again, from what it points at now.
ReconnectDisconnectedOutputs(g, type, filter_runs) ==
    [s \in DOMAIN outputs[g] |->
        IF s[1] = type /\ outputs[g][s].type = type
        THEN Reconnected(g, outputs[g][s], ActiveTarget(outputs[g][s].target, filter_runs))
        ELSE outputs[g][s]]

\* The sub-programs in the table, with their handles and lives.
CurrentPrograms == {<<h, sub_programs[h], epoch[sub_programs[h]]>> :
                       h \in {i \in Handles : sub_programs[i] # None}}
First(todo) == CHOOSE x \in todo : \A y \in todo : x[1] <= y[1]
StillRuns(x) == x[2] \in Running /\ epoch[x[2]] = x[3]

(***************************************************************************)
(* connect_programs                                                        *)
(***************************************************************************)
Begin(t, operation) ==
    /\ Able /\ op[t] = Idle
    /\ op' = [op EXCEPT ![t] = operation]
    /\ overlapped' = (overlapped \/ \E u \in Threads \ {t} : op[u] # Idle)

Continue(t, kind, pc) == Able /\ op[t].kind = kind /\ op[t].pc = pc
Goto(t, operation) == op' = [op EXCEPT ![t] = operation] /\ UNCHANGED overlapped

\* Whether the types of the filters fit the stream.
TypesFit(source, target, s) ==
    /\ source[1] = "Filtered" => FilterSource[source[2]] = s[1]
    /\ target[1] = "Filtered" =>
           FilterSource[target[2]] = IF source[1] = "Filtered" THEN FilterTarget[source[2]] ELSE s[1]

\* A filter as the source of a program is the same as a filtered target for everything.
Standard(source, target) ==
    IF source[1] = "Filtered" /\ target[1] = "Program"
    THEN <<<<"All">>, <<"Filtered", source[2], target[2]>>>> ELSE <<source, target>>

ConnectPrograms(t, source, target, s) ==
    LET std == Standard(source, target) IN
    /\ connects < MaxConnects /\ connects' = connects + 1
    /\ TypesFit(source, target, s)
    /\ Begin(t, [kind |-> "connect", pc |-> IF std[1][1] = "Filtered" THEN "filter" ELSE "lookup",
                 source |-> std[1], target |-> std[2], stream |-> s, how |-> <<>>, todo |-> {}])
    /\ UNCHANGED <<vars, connectionVars, sinkVars, epoch, broken, sends, stops>>

\* finish_connecting_programs: a source filter becomes a possible conversion.
ConnectFilter(t) ==
    LET o == op[t]
        f == o.source[2]
        from == FilterSource[f]
        others == Remove(filtered_targets[from], FilterTarget[f])
    IN
    /\ Continue(t, "connect", "filter")
    /\ filter_conversions' = filter_conversions \cup {f}
    /\ IF o.target[1] = "Any"
       THEN /\ filtered_targets' = [filtered_targets EXCEPT ![from] = Append(others, FilterTarget[f])]
            /\ connections' = [k \in DOMAIN connections \ {<<<<"All">>, <<from, None>>>>} |-> connections[k]]
       ELSE UNCHANGED <<filtered_targets, connections>>
    /\ Goto(t, [o EXCEPT !.pc = "lookup"])
    /\ UNCHANGED <<vars, sinkVars, epoch, broken, counters>>

\* What will be done to the sinks: the target is looked up before the connection is
\* stored, and the lock released in between.
InputFound(via, owner) == IF owner \in Errors THEN <<"error">> ELSE <<"input", via, owner, epoch[owner]>>
OrDisconnect(owner) ==
    IF owner \in {TargetNotInScene, WrongInputType} THEN <<"disconnect">> ELSE InputFound(<<>>, owner)

HowToConnect(source, target, s) ==
    CASE target[1] = "None" -> <<"discard">>
      [] target[1] = "Any" -> IF source[1] = "Filtered" THEN <<"reconnect">> ELSE <<"disconnect">>
      [] target[1] = "Program" -> OrDisconnect(GetTargetInput(target[2], s[1]))
      [] OTHER ->
             InputFound(<<target[2]>>, GetTargetInput(target[3], FilterTarget[target[2]]))

\* After the second of the two connections made for a filtered target, or the only one.
AfterConnection(o) == [o EXCEPT !.pc = "conversions", !.todo = {}]

ConnectLookup(t) ==
    LET o == op[t] IN
    /\ Continue(t, "connect", "lookup")
    /\ \E how \in {HowToConnect(o.source, o.target, o.stream)} :
          \/ /\ how # <<"error">>
             /\ Goto(t, [o EXCEPT !.pc = "store", !.how = how])
          \/ /\ how = <<"error">>  \* the connection fails, unless it is the second of two
             /\ Goto(t, IF o.target[1] = "Filtered" /\ o.how # <<>> THEN AfterConnection(o) ELSE Idle)
    /\ UNCHANGED <<vars, connectionVars, sinkVars, epoch, broken, counters>>

\* HashMap::insert
Insert(map, k, v) == [j \in DOMAIN map \cup {k} |-> IF j = k THEN v ELSE map[j]]

ConnectStore(t) ==
    LET o == op[t] IN
    /\ Continue(t, "connect", "store")
    /\ connections' = Insert(connections, <<o.source, o.stream>>, o.target)
    /\ Goto(t, [o EXCEPT !.pc = "apply", !.todo = {x \in CurrentPrograms : Matches(o.source, x[2])}])
    /\ UNCHANGED <<vars, filter_conversions, filtered_targets, sinkVars, epoch, broken, counters>>

\* The outputs of g once the connection is made; its lock is held.  A sink or an input of
\* another type than the stream's is a panic.
Fits(o, g) ==
    \/ o.how[1] = "reconnect"
    \/ /\ outputs[g][o.stream].type = o.stream[1]
       /\ o.how[1] = "input" => o.stream[1] = IF o.how[2] = <<>> THEN InputType[o.how[3]]
                                              ELSE FilterSource[o.how[2][1]]

\* The filter of a filtered target cannot be created for an input of another type.
FilterCreated(o) == o.how[1] = "input" /\ o.how[2] # <<>> =>
                        FilterTarget[Last(o.how[2])] = InputType[o.how[3]]

Applied(o, g, filter_runs) ==
    CASE o.how[1] = "input" ->
             WithTarget(outputs[g], o.stream,
                        [via |-> o.how[2], program |-> o.how[3], epoch |-> o.how[4], close |-> o.how[2] # <<>>])
      [] o.how[1] = "disconnect" -> WithTarget(outputs[g], o.stream, Disconnected)
      [] o.how[1] = "reconnect" -> ReconnectDisconnectedOutputs(g, o.stream[1], filter_runs)
      [] OTHER -> WithTarget(outputs[g], o.stream, Discard)

ConnectApply(t) ==
    LET o == op[t]
        x == First(o.todo)
        g == x[2]
        concerns == StillRuns(x) /\ HasOutput(g, o.stream)
    IN
    /\ Continue(t, "connect", "apply") /\ o.todo # {}
    /\ IF concerns /\ FilterCreated(o)
       THEN IF Fits(o, g)
            THEN /\ \E filter_runs \in BOOLEAN :
                        outputs' = [outputs EXCEPT ![g] = Applied(o, g, filter_runs)]
                 /\ UNCHANGED broken
            ELSE broken' = TRUE /\ UNCHANGED outputs
       ELSE UNCHANGED <<outputs, broken>>
    /\ Goto(t, [o EXCEPT !.todo = @ \ {x}])
    /\ UNCHANGED <<vars, connectionVars, output_high_water, held, epoch, counters>>

\* A filtered target is also connected for the streams that name its program.
ConnectApplied(t) ==
    LET o == op[t] IN
    /\ Continue(t, "connect", "apply") /\ o.todo = {}
    /\ Goto(t, IF o.target[1] = "Filtered" /\ TargetProgram(o.stream) = None
               THEN [o EXCEPT !.pc = "lookup", !.stream = ForTarget(@, o.target[3])]
               ELSE AfterConnection(o))
    /\ UNCHANGED <<vars, connectionVars, sinkVars, epoch, broken, counters>>

\* Sinks that reach the type of the stream through a conversion are connected again.
ConnectConversions(t) ==
    LET convert == {f \in filter_conversions : FilterTarget[f] = op[t].stream[1]} IN
    /\ Continue(t, "connect", "conversions")
    /\ Goto(t, IF convert = {} THEN Idle
               ELSE [op[t] EXCEPT !.pc = "reconnect",
                         !.todo = {<<x[1], x[2], x[3], FilterSource[f]>> : x \in CurrentPrograms, f \in convert}])
    /\ UNCHANGED <<vars, connectionVars, sinkVars, epoch, broken, counters>>

ConnectReconnect(t) ==
    /\ Continue(t, "connect", "reconnect")
    /\ \E x \in op[t].todo :
         /\ IF StillRuns(x) /\ HasOutput(x[2], <<x[4], None>>)
            THEN \E filter_runs \in BOOLEAN :
                     outputs' = [outputs EXCEPT ![x[2]] = ReconnectDisconnectedOutputs(x[2], x[4], filter_runs)]
            ELSE UNCHANGED outputs
         /\ Goto(t, IF op[t].todo = {x} THEN Idle ELSE [op[t] EXCEPT !.todo = @ \ {x}])
    /\ UNCHANGED <<vars, connectionVars, output_high_water, held, epoch, broken, counters>>

(***************************************************************************)
(* start_subprogram and reconnect_subprogram, and the end of a program     *)
(***************************************************************************)
Start(t, g) ==
    /\ epoch[g] < MaxStarts[g]
    /\ \/ /\ StartSubprogram(g)
          /\ Begin(t, [kind |-> "start", pc |-> "snapshot", program |-> g, connections |-> <<>>, todo |-> {}])
          /\ epoch' = [epoch EXCEPT ![g] = @ + 1]
          /\ outputs' = [outputs EXCEPT ![g] = <<>>]
          /\ output_high_water' = [output_high_water EXCEPT ![g] = 0]
          /\ held' = [held EXCEPT ![g] = {}]
       \/ StartRefused(g) /\ op[t] = Idle /\ ~broken /\ UNCHANGED <<sinkVars, epoch, op, overlapped>>
    /\ UNCHANGED <<connectionVars, broken, counters>>

StartSnapshot(t) ==
    LET others == {x \in CurrentPrograms : x[2] # op[t].program} IN
    /\ Continue(t, "start", "snapshot")
    /\ Goto(t, IF others = {} THEN Idle ELSE [op[t] EXCEPT !.pc = "reconnect", !.connections = connections, !.todo = others])
    /\ UNCHANGED <<vars, connectionVars, sinkVars, epoch, broken, counters>>

\* Mutant: a connection made for all programs is not looked for.
IsForProgram_TargetedOnly(o, s) == TargetProgram(s) = o.program

\* Whether the output for the stream s may now be connected to the program that starts,
\* according to the copy of the connections.  (For a stream with a target the key is
\* the target, not the source, of the stream.)
IsForProgram(o, s) ==
    LET key == IF TargetProgram(s) = None THEN <<<<"All">>, s>>
               ELSE <<<<"Program", TargetProgram(s)>>, s>>
    IN IF key \in DOMAIN o.connections
       THEN TargetSubProgram(o.connections[key]) = o.program
       ELSE TargetProgram(s) = o.program

\* The lock of the program whose sinks are connected is held throughout, so no other
\* operation changes its outputs meanwhile.
StartReconnect(t) ==
    LET o == op[t]
        x == First(o.todo)
        g == x[2]
    IN
    /\ Continue(t, "start", "reconnect")
    /\ IF StillRuns(x)
       THEN outputs' = [outputs EXCEPT ![g] =
                          [s \in DOMAIN @ |-> IF IsForProgram(o, s)
                                              THEN Reconnected(g, @[s], <<"Program", o.program>>) ELSE @[s]]]
       ELSE UNCHANGED outputs
    /\ Goto(t, IF o.todo = {x} THEN Idle ELSE [o EXCEPT !.todo = @ \ {x}])
    /\ UNCHANGED <<vars, connectionVars, output_high_water, held, epoch, broken, counters>>

Stop(g) ==
    /\ ~broken /\ stops < MaxStops /\ stops' = stops + 1
    /\ FinishSubprogram(g)
    /\ outputs' = [outputs EXCEPT ![g] = <<>>]
    /\ held' = [held EXCEPT ![g] = {}]
    /\ overlapped' = (overlapped \/ ~Quiet)
    /\ UNCHANGED <<connectionVars, output_high_water, epoch, op, broken, connects, sends>>

(***************************************************************************)
(* SceneContext::send                                                      *)
(***************************************************************************)
\* The stream an output is kept under: for a filter, the type that it produces.
StreamOf(target, type) ==
    CASE target[1] = "Program" -> <<type, target[2]>>
      [] target[1] = "Filtered" -> <<FilterTarget[target[2]], target[3]>>
      [] OTHER -> <<type, None>>

\* output_core: there is a sink for the stream already, of the right message type.
HasCore(g, s, type) == HasOutput(g, s) /\ outputs[g][s].type = type

Send(t, g, target, type) ==
    LET s == StreamOf(target, type) IN
    /\ g \in Running /\ sends < MaxSends /\ sends' = sends + 1
    /\ \/ /\ HasCore(g, s, type) /\ Able /\ op[t] = Idle
          /\ held' = [held EXCEPT ![g] = @ \cup {s}]
          /\ UNCHANGED <<op, overlapped>>
       \/ /\ ~HasCore(g, s, type)
          /\ \E sink \in {SinkForTarget(g, target, type)} \ Errors :
                Begin(t, [kind |-> "send", pc |-> "create", program |-> g, epoch |-> epoch[g],
                          stream |-> s, type |-> type, sink |-> sink])
          /\ UNCHANGED held
    /\ UNCHANGED <<vars, connectionVars, outputs, output_high_water, epoch, broken, connects, stops>>

\* Mutant: sinks are released that are still in use.
Unused_Any(g, s) == {u \in DOMAIN outputs[g] : u # s}

\* release_all_unused_output_sinks: the outputs only the program core refers to.
Unused(g, s) == DOMAIN outputs[g] \ (held[g] \cup {s})

\* try_create_output_target, then release_stale_output_sinks.
SendCreate(t) ==
    LET o == op[t]
        g == o.program
        s == o.stream
        created == [u \in DOMAIN outputs[g] \cup {s} |->
                      IF u = s THEN [type |-> o.type, target |-> o.sink] ELSE outputs[g][u]]
        release == Cardinality(DOMAIN created) > output_high_water[g] + NewSinksBeforeRelease
        kept == DOMAIN created \ (IF release THEN Unused(g, s) ELSE {})
    IN
    /\ Continue(t, "send", "create")
    /\ CASE ~StillRuns(<<0, g, o.epoch>>) -> UNCHANGED <<sinkVars, broken>>
         [] StillRuns(<<0, g, o.epoch>>) /\ HasOutput(g, s) ->
                IF HasCore(g, s, o.type)
                THEN held' = [held EXCEPT ![g] = @ \cup {s}] /\ UNCHANGED <<outputs, output_high_water, broken>>
                ELSE broken' = TRUE /\ UNCHANGED sinkVars
         [] StillRuns(<<0, g, o.epoch>>) /\ ~HasOutput(g, s) ->
                /\ outputs' = [outputs EXCEPT ![g] = [u \in kept |-> created[u]]]
                /\ held' = [held EXCEPT ![g] = @ \cup {s}]
                /\ output_high_water' = IF release THEN [output_high_water EXCEPT ![g] = Cardinality(kept)]
                                        ELSE output_high_water
                /\ UNCHANGED broken
    /\ Goto(t, Idle)
    /\ UNCHANGED <<vars, connectionVars, epoch, counters>>

\* The program drops the last OutputSink it has for a stream.
DropSink(g, s) ==
    /\ Able /\ s \in held[g]
    /\ held' = [held EXCEPT ![g] = @ \ {s}]
    /\ UNCHANGED <<vars, connectionVars, outputs, output_high_water, epoch, op, broken, overlapped, counters>>

----------------------------------------------------------------------------
ConnectionsInit ==
    /\ Init
    /\ connections = <<>> /\ filter_conversions = {} /\ filtered_targets = [u \in Types |-> <<>>]
    /\ outputs = [g \in Programs |-> <<>>] /\ output_high_water = [g \in Programs |-> 0]
    /\ held = [g \in Programs |-> {}] /\ epoch = [g \in Programs |-> 0]
    /\ op = [t \in Threads |-> Idle]
    /\ broken = FALSE /\ overlapped = FALSE /\ connects = 0 /\ sends = 0 /\ stops = 0

ConnectStep(t) == \/ ConnectFilter(t) \/ ConnectLookup(t) \/ ConnectStore(t) \/ ConnectApply(t)
                  \/ ConnectApplied(t) \/ ConnectConversions(t) \/ ConnectReconnect(t)

ConnectionsNext ==
    \/ \E t \in Threads :
          \/ \E r \in Requests : ConnectPrograms(t, r[1], r[2], r[3])
          \/ ConnectStep(t)
          \/ \E g \in Programs : Start(t, g)
          \/ StartSnapshot(t) \/ StartReconnect(t)
          \/ \E x \in Sends : Send(t, x[1], x[2], x[3])
          \/ SendCreate(t)
    \/ \E g \in Programs : Stop(g) \/ \E s \in held[g] : DropSink(g, s)

ConnectionsSpec == ConnectionsInit /\ [][ConnectionsNext]_allVars

(***************************************************************************)
(* Properties                                                              *)
(***************************************************************************)
\* A program that holds an OutputSink finds it in its outputs, where connections change
\* it: release_stale_output_sinks never releases a sink that is in use.
HeldSinkIsRegistered == \A g \in Running : held[g] \subseteq DOMAIN outputs[g]

\* The messages of a sink have, after the filters, the type the program at its end reads.
SinkTypesFit ==
    \A g \in Running : \A s \in DOMAIN outputs[g] :
        LET sink == outputs[g][s].target IN
        IsInput(sink) =>
            IF sink.via = <<>> THEN outputs[g][s].type = InputType[sink.program]
            ELSE /\ FilterSource[sink.via[1]] = outputs[g][s].type
                 /\ FilterTarget[Last(sink.via)] = InputType[sink.program]

\* A sink of g for a stream without target that the connections for all programs decide:
\* neither g nor a filter is connected elsewhere, no filter of the target is added, and
\* no request is about the messages to that one program alone.
IsGeneral(g, s, mapped) ==
    /\ TargetProgram(s) = None /\ outputs[g][s].type = s[1]
    /\ Connection(<<"Program", g>>, s) = None /\ Connection(<<"All">>, s) = mapped
    /\ \A f \in Filters : Connection(<<"Filtered", f>>, s) \in {None, <<"Any">>}
    /\ mapped \in Targets \ {<<"None">>, <<"Any">>}
    /\ \A q \in Requests : q[3] # ForTarget(s, TargetSubProgram(mapped))

\* The program at the end reads the messages, or they are converted by one filter, and
\* filters of the type are only connected to programs or as conversions.
IsDirect(mapped, type) ==
    mapped[1] = "Program" =>
        \/ InputType[mapped[2]] = type
        \/ /\ Conversion(type, InputType[mapped[2]]) # {}
           /\ \A q \in Requests : q[1][1] = "Filtered" /\ q[3][1] = type => q[2][1] \in {"Any", "Program"}

\* Whatever the order in which programs start and stop, open their sinks and are connected,
\* as long as these operations do not overlap, a sink points at the program that the
\* connection for all programs names, in that program's present life, if it runs.
GeneralConnectionIsMade ==
    Quiet /\ ~overlapped /\ Able =>
        \A g \in Running : \A s \in DOMAIN outputs[g] :
            \A mapped \in {MappedTarget(g, <<"Any">>, s[1])} :
                IsGeneral(g, s, mapped) /\ IsDirect(mapped, s[1]) /\ TargetSubProgram(mapped) \in Running =>
                    \A sink \in {SinkForMapped(g, mapped, s[1])} \ Errors :
                        IsInput(sink) => outputs[g][s].target = sink
=============================================================================
