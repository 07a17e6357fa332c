--------------------------- MODULE CommandSession ---------------------------
(***************************************************************************)
(* A command session: a socket (command_socket.rs) whose requests are      *)
(* evaluated one after another (command_program.rs), with variables that   *)
(* other programs may set, streams that go on in the background, and       *)
(* commands that take the socket over for JSON values or raw data.         *)
(*                                                                         *)
(* What the peer writes is a sequence of items, each a request, a JSON     *)
(* value (also a request), or the end of a JSON stream; it arrives in      *)
(* chunks, and an item is never split (Tokenizer.tla is about that).  An   *)
(* item is named by its position.  The commands themselves are external:   *)
(* a command is the sequence of its responses.  Left out: assignments of   *)
(* an assignment's result.                                                 *)
(***************************************************************************)
EXTENDS Integers, Sequences, FiniteSets, SequencesExt

CONSTANTS
    Scripts,            \* what a peer may write: a set of sequences of items
    Variables,          \* the names variables have; commands may share them
    Responses,          \* [command -> the sequence of its responses]
    OutsideValues,      \* the values other programs set variables to
    MaxOutsideCalls,    \* bound on their calls
    MaxStreamMessages,  \* bound on the messages of one background stream
    MaxEmitted,         \* bound on what a command sends while it has the socket
    Undefined, None

(***************************************************************************)
(* Requests (CommandRequest) and responses (CommandResponse)               *)
(***************************************************************************)
Assign(v, request) == [kind |-> "Assign", variable |-> v, from |-> request]
Command(c)         == [kind |-> "Command", name |-> c]
Variable(v)        == [kind |-> "Variable", name |-> v]
Value(w)           == [kind |-> "Value", value |-> w]
EndOfValues        == [kind |-> "EndOfValues"]

Json(w)          == [kind |-> "Json", value |-> w]
Failure          == [kind |-> "Error"]
Message          == [kind |-> "Message"]
BackgroundStream == [kind |-> "Background"]
IoStream         == [kind |-> "Io"]
InteractiveStream == [kind |-> "Raw"]

IsValue(w) == w \notin {Undefined, None}
ResponseOK(response) ==
    /\ response.kind \in {"Json", "Error", "Message", "Background", "Io", "Raw"}
    /\ response.kind = "Json" => IsValue(response.value)
IsSource(item) ==
    \/ item.kind = "Command" /\ item.name \in DOMAIN Responses
    \/ item.kind = "Variable" /\ item.name \in Variables
    \/ item.kind = "Value" /\ IsValue(item.value)
ItemOK(item) ==
    \/ IsSource(item)
    \/ item.kind = "Assign" /\ item.variable \in Variables /\ IsSource(item.from)
    \/ item.kind = "EndOfValues"

ASSUME SessionAssumption ==
    /\ \A s \in Scripts : s \in Seq(ToSet(s)) /\ \A item \in ToSet(s) : ItemOK(item)
    /\ \A c \in DOMAIN Responses :
          /\ Responses[c] \in Seq(ToSet(Responses[c]))
          /\ \A response \in ToSet(Responses[c]) : ResponseOK(response)
    /\ \A w \in OutsideValues : IsValue(w)
    /\ {MaxOutsideCalls, MaxStreamMessages, MaxEmitted} \subseteq Nat
    /\ Undefined # None /\ None \notin Variables

VARIABLES
    script, sent, inbound, inputClosed, \* the peer's side of the input
    slot, outputClosed, outputs,        \* the output channel, all that was put in it
    pc, buffer,                         \* CommandSocket: what it does, what it has read
    held, pipe, reader, emitted,        \* a command that has taken over the socket
    evaluated, consumed, lost,          \* history: where the items went
    responses, assigning, pending,      \* the request that is evaluated
    variables, setOutside, calls, replying, \* the session's variables
    streams, nextHandle                 \* background_json_streams

peerVars   == <<script, sent, inbound, inputClosed>>
outVars    == <<slot, outputClosed, outputs>>
modeVars   == <<held, pipe, reader, emitted>>
pastVars   == <<evaluated, consumed, lost>>
evalVars   == <<responses, assigning, pending>>
nameVars   == <<variables, setOutside, calls, replying>>
streamVars == <<streams, nextHandle>>
vars == <<peerVars, outVars, pc, buffer, modeVars, pastVars, evalVars, nameVars, streamVars>>

Items == 1..Len(script)

TypeOK ==
    /\ script \in Scripts /\ sent \in 0..Len(script)
    /\ inbound \in Seq(Seq(Items)) /\ pipe \in Seq(Seq(Items))
    /\ buffer \in Seq(Items) /\ held \in Seq(Items)
    /\ inputClosed \in BOOLEAN /\ outputClosed \in BOOLEAN /\ replying \in BOOLEAN
    /\ pc \in {"prompt", "reading", "responding", "enterJson", "enterRaw", "json", "raw",
               "leaveMode", "ended"}
    /\ reader \in [accepts : BOOLEAN, relaying : BOOLEAN, parsing : BOOLEAN]
    /\ pc # "json" => held = <<>> \/ pc = "ended"
    /\ emitted \in 0..MaxEmitted /\ calls \in 0..MaxOutsideCalls
    /\ consumed \cup lost \subseteq Items
    /\ assigning \in Variables \cup {None} /\ DOMAIN variables = Variables
    /\ pending # None => assigning # None /\ pc \in {"responding", "ended"}
    /\ nextHandle \in Nat /\ DOMAIN streams \subseteq 0..nextHandle-1
    /\ \A h \in DOMAIN streams :
          streams[h].told <= streams[h].produced /\ streams[h].produced <= MaxStreamMessages

Init ==
    /\ script \in Scripts
    /\ sent = 0 /\ inbound = <<>> /\ inputClosed = FALSE
    /\ slot = None /\ outputClosed = FALSE /\ outputs = <<>>
    /\ pc = "prompt" /\ buffer = <<>>
    /\ held = <<>> /\ pipe = <<>> /\ emitted = 0
    /\ reader = [accepts |-> FALSE, relaying |-> FALSE, parsing |-> FALSE]
    /\ evaluated = <<>> /\ consumed = {} /\ lost = {}
    /\ responses = <<>> /\ assigning = None /\ pending = None
    /\ variables = [v \in Variables |-> Undefined]
    /\ setOutside = [v \in Variables |-> {}] /\ calls = 0 /\ replying = FALSE
    /\ streams = <<>> /\ nextHandle = 0

(***************************************************************************)
(* The output channel has no buffer: send puts the data in the slot of its *)
(* sender and waits until it has been taken.  So every step that follows a *)
(* send waits for the empty slot.                                          *)
(***************************************************************************)
SlotIsFree == slot = None

Output(o) ==
    /\ slot' = o
    /\ outputs' = Append(outputs, o)
    /\ UNCHANGED outputClosed

\* A notification whose failure is ignored
Notify(o) == IF outputClosed THEN UNCHANGED outVars ELSE Output(o)

\* A notification whose failure ends the session
NotifyOrEnd(o, next) ==
    IF outputClosed THEN pc' = "ended" /\ UNCHANGED outVars
                    ELSE pc' = next /\ Output(o)

(***************************************************************************)
(* The peer.  Nothing that happens after the end of the session matters.   *)
(***************************************************************************)
PeerWrites ==
    /\ pc # "ended"
    /\ ~inputClosed
    /\ \E upTo \in (sent + 1)..Len(script) :
          /\ inbound' = Append(inbound, [i \in 1..(upTo - sent) |-> sent + i])
          /\ sent' = upTo
    /\ UNCHANGED <<script, inputClosed, outVars, pc, buffer, modeVars, pastVars,
                   evalVars, nameVars, streamVars>>

PeerCloses ==
    /\ pc # "ended"
    /\ ~inputClosed
    /\ inputClosed' = TRUE
    /\ UNCHANGED <<script, sent, inbound, outVars, pc, buffer, modeVars, pastVars,
                   evalVars, nameVars, streamVars>>

PeerTakes ==
    /\ pc # "ended"
    /\ slot # None
    /\ slot' = None
    /\ UNCHANGED <<peerVars, outputClosed, outputs, pc, buffer, modeVars, pastVars,
                   evalVars, nameVars, streamVars>>

PeerHangsUp ==
    /\ pc # "ended"
    /\ ~outputClosed
    /\ outputClosed' = TRUE
    /\ slot' = None
    /\ UNCHANGED <<peerVars, outputs, pc, buffer, modeVars, pastVars,
                   evalVars, nameVars, streamVars>>

(***************************************************************************)
(* next_request: a prompt, then the background streams until none has      *)
(* anything to say, then the input                                         *)
(***************************************************************************)
Prompt ==
    /\ pc = "prompt"
    /\ SlotIsFree
    /\ Notify([kind |-> "Prompt"])
    /\ pc' = "reading"
    /\ UNCHANGED <<peerVars, buffer, modeVars, pastVars, evalVars, nameVars, streamVars>>

Handles == DOMAIN streams
HasMessage(h) == streams[h].told < streams[h].produced
HasEnded(h) == streams[h].closed /\ ~HasMessage(h)

\* mutant: the streams are polled while a command has the socket too
WatchesStreams_Always == pc \in {"reading", "json"}
\* While the socket is used for anything else the streams are not polled
WatchesStreams == pc = "reading"

TellMessage(h) ==
    /\ WatchesStreams
    /\ SlotIsFree
    /\ HasMessage(h)
    /\ streams' = [streams EXCEPT ![h].told = @ + 1]
    /\ Notify([kind |-> "Stream", handle |-> h, message |-> streams[h].told + 1])
    /\ UNCHANGED <<peerVars, pc, buffer, modeVars, pastVars, evalVars, nameVars, nextHandle>>

TellEnd(h) ==
    /\ WatchesStreams
    /\ SlotIsFree
    /\ HasEnded(h)
    /\ streams' = [x \in Handles \ {h} |-> streams[x]]
    /\ Notify([kind |-> "End", handle |-> h])
    /\ UNCHANGED <<peerVars, pc, buffer, modeVars, pastVars, evalVars, nameVars, nextHandle>>

\* mutant: a stream that waits for its next message is waited for
IsQuiet_Never(h) == FALSE
IsQuiet(h) == ~HasMessage(h) /\ ~HasEnded(h)

ReadsInput ==
    /\ pc = "reading"
    /\ SlotIsFree
    /\ \A h \in Handles : IsQuiet(h)

\* The input is the buffer, then what the peer has sent
NextChunk == IF buffer # <<>> THEN buffer ELSE Head(inbound)
InboundAfterChunk == IF buffer # <<>> THEN inbound ELSE Tail(inbound)
HasInput == buffer # <<>> \/ inbound # <<>>

\* mutant: what has been read ahead is dropped with the tokenizer
LeftOver_Dropped(chunk) == <<>>
\* What the tokenizer has read beyond the request goes back into the buffer
LeftOver(chunk) == Tail(chunk)

\* substitute_variables: a JSON value, or the value of a variable that must be defined
Evaluated(item) ==
    CASE item.kind = "Value" -> <<Json(item.value)>>
      [] item.kind = "Variable" ->
            IF variables[item.name] = Undefined THEN <<Failure>> ELSE <<Json(variables[item.name])>>
      [] OTHER ->
            \* a variable replaces the command of the same name
            IF item.name \in Variables /\ variables[item.name] # Undefined
            THEN <<Json(variables[item.name])>>
            ELSE Responses[item.name]

\* evaluate_request
TakeRequest ==
    /\ ReadsInput
    /\ HasInput
    /\ buffer' = LeftOver(NextChunk)
    /\ inbound' = InboundAfterChunk
    /\ \E item \in {script[Head(NextChunk)]} :
        /\ item.kind # "EndOfValues"
        /\ \E answer \in {Evaluated(IF item.kind = "Assign" THEN item.from ELSE item)} :
            /\ responses' = answer
            /\ evaluated' = Append(evaluated, [item |-> Head(NextChunk), responses |-> answer])
        /\ assigning' = IF item.kind = "Assign" THEN item.variable ELSE None
    /\ pc' = "responding"
    /\ UNCHANGED <<script, sent, inputClosed, outVars, modeVars, consumed, lost, pending,
                   nameVars, streamVars>>

\* What is not a request ends the session, as the end of the input does
TakeNoRequest ==
    /\ ReadsInput
    /\ IF HasInput THEN script[Head(NextChunk)].kind = "EndOfValues" ELSE inputClosed
    /\ pc' = "ended"
    /\ UNCHANGED <<peerVars, outVars, buffer, modeVars, pastVars, evalVars, nameVars, streamVars>>

(***************************************************************************)
(* send_responses, of a stream of responses that assign may have wrapped   *)
(***************************************************************************)
Responds ==
    /\ pc = "responding"
    /\ SlotIsFree
    /\ pending = None

\* assign goes on when the message that it yielded has been sent
AssignVariable ==
    /\ pc = "responding"
    /\ SlotIsFree
    /\ pending # None
    /\ variables' = [variables EXCEPT ![assigning] = pending]
    /\ pending' = None
    /\ assigning' = None
    /\ UNCHANGED <<peerVars, outVars, pc, buffer, modeVars, pastVars, responses,
                   setOutside, calls, replying, streamVars>>

IsText(response) == response.kind \in {"Json", "Error", "Message"}

\* mutant: an error does not end the assignment
AssigningAfter_Kept(response) == assigning
\* assign: the first JSON response is assigned, unless an error comes before it
AssigningAfter(response) == IF response.kind = "Error" THEN None ELSE assigning

SendText ==
    /\ Responds
    /\ responses # <<>>
    /\ \E response \in {Head(responses)} :
        /\ IsText(response)
        /\ IF assigning # None /\ response.kind = "Json"
           THEN /\ NotifyOrEnd([kind |-> "Message"], "responding")
                /\ pending' = response.value
                /\ UNCHANGED assigning
           ELSE /\ NotifyOrEnd([kind |-> response.kind], "responding")
                /\ assigning' = AssigningAfter(response)
                /\ UNCHANGED pending
    /\ responses' = Tail(responses)
    /\ UNCHANGED <<peerVars, buffer, modeVars, pastVars, nameVars, streamVars>>

SendBackground ==
    /\ Responds
    /\ responses # <<>>
    /\ Head(responses).kind = "Background"
    /\ streams' = [h \in Handles \cup {nextHandle} |->
                     IF h = nextHandle THEN [produced |-> 0, told |-> 0, closed |-> FALSE]
                                       ELSE streams[h]]
    /\ nextHandle' = nextHandle + 1
    /\ NotifyOrEnd([kind |-> "New", handle |-> nextHandle], "responding")
    /\ responses' = Tail(responses)
    /\ UNCHANGED <<peerVars, buffer, modeVars, pastVars, assigning, pending, nameVars>>

StartMode ==
    /\ Responds
    /\ responses # <<>>
    /\ Head(responses).kind \in {"Io", "Raw"}
    /\ NotifyOrEnd([kind |-> "Start"], IF Head(responses).kind = "Io" THEN "enterJson" ELSE "enterRaw")
    /\ responses' = Tail(responses)
    /\ UNCHANGED <<peerVars, buffer, modeVars, pastVars, assigning, pending, nameVars, streamVars>>

SendNothingToAssign ==
    /\ Responds
    /\ responses = <<>>
    /\ assigning # None
    /\ NotifyOrEnd([kind |-> "Error"], "responding")
    /\ assigning' = None
    /\ UNCHANGED <<peerVars, buffer, modeVars, pastVars, responses, pending, nameVars, streamVars>>

EndResponses ==
    /\ Responds
    /\ responses = <<>>
    /\ assigning = None
    /\ pc' = "prompt"
    /\ UNCHANGED <<peerVars, outVars, buffer, modeVars, pastVars, evalVars, nameVars, streamVars>>

(***************************************************************************)
(* stream_json and stream_raw: a command has the socket.  What is read     *)
(* goes to the command through channels without a buffer: in JSON mode the *)
(* parser has one and the relay another, in raw mode there is only the     *)
(* relay's.                                                                *)
(***************************************************************************)
EnterMode ==
    /\ pc \in {"enterJson", "enterRaw"}
    /\ SlotIsFree
    /\ pc' = IF pc = "enterJson" THEN "json" ELSE "raw"
    /\ reader' = [accepts |-> TRUE, relaying |-> TRUE, parsing |-> pc = "enterJson"]
    /\ emitted' = 0
    \* the buffer is read before the command's stream can end
    /\ buffer' = <<>>
    /\ IF pc = "enterJson"
       THEN held' = buffer /\ UNCHANGED pipe
       ELSE pipe' = (IF buffer = <<>> THEN <<>> ELSE <<buffer>>) /\ UNCHANGED held
    /\ UNCHANGED <<peerVars, outVars, pastVars, evalVars, nameVars, streamVars>>

JsonReadsChunk ==
    /\ pc = "json"
    /\ reader.parsing
    /\ Len(pipe) < 2
    /\ held = <<>>
    /\ inbound # <<>>
    /\ held' = Head(inbound)
    /\ inbound' = Tail(inbound)
    /\ UNCHANGED <<script, sent, inputClosed, outVars, pc, buffer, pipe, reader, emitted, pastVars,
                   evalVars, nameVars, streamVars>>

\* A value goes into the pipe.  When the command has dropped its input, the relay loses the
\* value it was given and ends; then the parser's next send fails, and the parser ends too.
JsonParsesValue ==
    /\ pc = "json"
    /\ reader.parsing
    /\ Len(pipe) < 2
    /\ held # <<>>
    /\ script[Head(held)].kind = "Value"
    /\ IF reader.accepts
       THEN /\ pipe' = Append(pipe, <<Head(held)>>)
            /\ held' = Tail(held)
            /\ UNCHANGED <<reader, lost>>
       ELSE /\ reader' = [reader EXCEPT !.relaying = FALSE, !.parsing = reader.relaying]
            /\ held' = IF reader.relaying THEN Tail(held) ELSE <<>>
            /\ lost' = lost \cup (IF reader.relaying THEN {Head(held)} ELSE ToSet(held))
            /\ UNCHANGED pipe
    /\ UNCHANGED <<peerVars, outVars, pc, buffer, emitted, evaluated, consumed,
                   evalVars, nameVars, streamVars>>

\* Anything else ends the parser, and with it goes the rest of what its tokenizer has read
JsonParserEnds ==
    /\ pc = "json"
    /\ reader.parsing
    /\ Len(pipe) < 2
    /\ IF held # <<>> THEN script[Head(held)].kind # "Value" ELSE inputClosed /\ inbound = <<>>
    /\ reader' = [reader EXCEPT !.parsing = FALSE]
    /\ lost' = lost \cup ToSet(held)
    /\ held' = <<>>
    /\ UNCHANGED <<peerVars, outVars, pc, buffer, pipe, emitted, evaluated, consumed,
                   evalVars, nameVars, streamVars>>

RawReadsChunk ==
    /\ pc = "raw"
    /\ reader.relaying
    /\ pipe = <<>>
    /\ inbound # <<>>
    /\ IF reader.accepts
       THEN pipe' = <<Head(inbound)>> /\ UNCHANGED <<reader, lost>>
       ELSE /\ reader' = [reader EXCEPT !.relaying = FALSE]
            /\ lost' = lost \cup ToSet(Head(inbound))
            /\ UNCHANGED pipe
    /\ inbound' = Tail(inbound)
    /\ UNCHANGED <<script, sent, inputClosed, outVars, pc, buffer, held, emitted, evaluated,
                   consumed, evalVars, nameVars, streamVars>>

HasSocket == pc \in {"json", "raw"}
InPipe == FlattenSeq(pipe)

CommandReads ==
    /\ HasSocket
    /\ reader.accepts
    /\ pipe # <<>>
    /\ consumed' = consumed \cup ToSet(Head(pipe))
    /\ pipe' = Tail(pipe)
    /\ UNCHANGED <<peerVars, outVars, pc, buffer, held, reader, emitted, evaluated, lost,
                   evalVars, nameVars, streamVars>>

\* What is in the pipe is lost; the relay notices if it still has something to send
CommandDropsInput ==
    /\ HasSocket
    /\ reader.accepts
    /\ reader' = [reader EXCEPT !.accepts = FALSE, !.relaying = Len(pipe) < 2]
    /\ lost' = lost \cup ToSet(InPipe)
    /\ pipe' = <<>>
    /\ UNCHANGED <<peerVars, outVars, pc, buffer, held, emitted, evaluated, consumed,
                   evalVars, nameVars, streamVars>>

CommandWrites ==
    /\ HasSocket
    /\ SlotIsFree
    /\ ~outputClosed
    /\ emitted < MaxEmitted
    /\ emitted' = emitted + 1
    /\ Output([kind |-> "FromCommand"])
    /\ UNCHANGED <<peerVars, pc, buffer, held, pipe, reader, pastVars, evalVars, nameVars, streamVars>>

\* The mode ends with the command's output, or when that can no longer be written
CommandEnds ==
    /\ HasSocket
    /\ lost' = lost \cup ToSet(held) \cup ToSet(InPipe)
    /\ held' = <<>>
    /\ pipe' = <<>>
    /\ pc' = "leaveMode"
    /\ UNCHANGED <<peerVars, outVars, buffer, reader, emitted, evaluated, consumed,
                   evalVars, nameVars, streamVars>>

EndMode ==
    /\ pc = "leaveMode"
    /\ SlotIsFree
    /\ NotifyOrEnd([kind |-> "EndMode"], "responding")
    /\ UNCHANGED <<peerVars, buffer, modeVars, pastVars, evalVars, nameVars, streamVars>>

(***************************************************************************)
(* The background streams, and process_input, which runs beside the        *)
(* commands: other programs set and query variables, and the end of its    *)
(* input ends the session.  A reply waits for its target.                  *)
(***************************************************************************)
StreamProduces(h) ==
    /\ pc # "ended"
    /\ ~streams[h].closed
    /\ streams[h].produced < MaxStreamMessages
    /\ streams' = [streams EXCEPT ![h].produced = @ + 1]
    /\ UNCHANGED <<peerVars, outVars, pc, buffer, modeVars, pastVars, evalVars, nameVars, nextHandle>>

StreamCloses(h) ==
    /\ pc # "ended"
    /\ ~streams[h].closed
    /\ streams' = [streams EXCEPT ![h].closed = TRUE]
    /\ UNCHANGED <<peerVars, outVars, pc, buffer, modeVars, pastVars, evalVars, nameVars, nextHandle>>

SetVariable ==
    /\ pc # "ended"
    /\ ~replying
    /\ calls < MaxOutsideCalls
    /\ calls' = calls + 1
    /\ \E v \in Variables, w \in OutsideValues :
        /\ variables' = [variables EXCEPT ![v] = w]
        /\ setOutside' = [setOutside EXCEPT ![v] = @ \cup {w}]
    /\ UNCHANGED <<peerVars, outVars, pc, buffer, modeVars, pastVars, evalVars, replying, streamVars>>

QueryVariable ==
    /\ pc # "ended"
    /\ ~replying
    /\ calls < MaxOutsideCalls
    /\ calls' = calls + 1
    /\ replying' = TRUE
    /\ UNCHANGED <<peerVars, outVars, pc, buffer, modeVars, pastVars, evalVars,
                   variables, setOutside, streamVars>>

ReplyTaken ==
    /\ pc # "ended"
    /\ replying
    /\ replying' = FALSE
    /\ UNCHANGED <<peerVars, outVars, pc, buffer, modeVars, pastVars, evalVars,
                   variables, setOutside, calls, streamVars>>

RequestsEnd ==
    /\ pc # "ended"
    /\ ~replying
    /\ pc' = "ended"
    /\ UNCHANGED <<peerVars, outVars, buffer, modeVars, pastVars, evalVars, nameVars, streamVars>>

BackgroundStep == \E h \in Handles : TellMessage(h) \/ TellEnd(h)
ModeStep == JsonReadsChunk \/ JsonParsesValue \/ JsonParserEnds \/ RawReadsChunk
SessionStep ==
    \/ Prompt \/ BackgroundStep \/ TakeRequest \/ TakeNoRequest
    \/ SendText \/ AssignVariable \/ SendBackground \/ SendNothingToAssign \/ EndResponses
    \/ StartMode \/ EnterMode \/ ModeStep \/ EndMode

Next ==
    \/ SessionStep
    \/ PeerWrites \/ PeerCloses \/ PeerTakes \/ PeerHangsUp
    \/ CommandReads \/ CommandDropsInput \/ CommandWrites \/ CommandEnds
    \/ \E h \in Handles : StreamProduces(h) \/ StreamCloses(h)
    \/ SetVariable \/ QueryVariable \/ ReplyTaken \/ RequestsEnd

Spec == Init /\ [][Next]_vars

\* The session's program is polled when it is woken; the peer reads what it is sent, and a
\* command that has taken over the socket ends.
FairSpec == Spec /\ WF_vars(SessionStep) /\ WF_vars(PeerTakes) /\ WF_vars(CommandEnds)

----------------------------------------------------------------------------
(***************************************************************************)
(* Properties                                                              *)
(***************************************************************************)
\* What the peer writes is evaluated in its order and once, however it is cut into chunks and
\* whatever is read ahead: an item that is not on its way has been a request, or has been given
\* to a command that took over the socket, or was lost with one.
Unread == held \o buffer \o FlattenSeq(inbound)
RequestItems == {evaluated[i].item : i \in DOMAIN evaluated}
Past == RequestItems \cup consumed \cup lost
HadSocket == \E i \in DOMAIN outputs : outputs[i].kind = "Start"
EveryItemInOnePlace ==
    pc # "ended" =>
        /\ Unread = [i \in 1..Len(Unread) |-> sent - Len(Unread) + i]
        /\ Past \cup ToSet(InPipe) = 1..(sent - Len(Unread))
        /\ Len(evaluated) + Cardinality(consumed) + Cardinality(lost) + Len(InPipe)
                = sent - Len(Unread)
        /\ \A i, j \in DOMAIN evaluated : i < j => evaluated[i].item < evaluated[j].item
        /\ \A i \in DOMAIN InPipe :
              \A n \in consumed \cup ToSet(SubSeq(InPipe, 1, i - 1)) : n < InPipe[i]
        /\ consumed \cup lost # {} => HadSocket

\* The session's state, and where the items of its input are, in every step.
InputIsKept == TypeOK /\ EveryItemInOnePlace

FirstValue(answer) ==
    LET jsons == {k \in DOMAIN answer : answer[k].kind = "Json"}
    IN  IF jsons # {} /\ \A k \in 1..Min(jsons) : answer[k].kind # "Error"
        THEN answer[Min(jsons)].value ELSE Undefined
AssignedBy(i) == FirstValue(evaluated[i].responses)
Assigns(i, v) ==
    /\ script[evaluated[i].item].kind = "Assign"
    /\ script[evaluated[i].item].variable = v
    /\ AssignedBy(i) # Undefined
Expected(v, i) ==
    LET earlier == {j \in 1..(i - 1) : Assigns(j, v)}
    IN  IF earlier = {} THEN Undefined ELSE AssignedBy(Max(earlier))
ReadsVariable(i) ==
    LET item == script[evaluated[i].item] IN
    item.kind = "Variable" \/ (item.kind = "Command" /\ item.name \in Variables)

\* A request sees the variables as the requests before it have left them: the first JSON result
\* of the last assignment ("A JSON result will just assign that value straight to the variable"),
\* none if an error came first ("Errors will short-circuit the assignment").  Only a value set
\* from outside may take its place.
SeesAssignments(i) ==
    \E item \in {script[evaluated[i].item]} :
    \E w \in {Expected(item.name, i)} \cup setOutside[item.name] :
        evaluated[i].responses =
            IF w # Undefined THEN <<Json(w)>>
            ELSE IF item.kind = "Variable" THEN <<Failure>> ELSE Responses[item.name]
RequestsSeeAssignments == \A i \in DOMAIN evaluated : ReadsVariable(i) => SeesAssignments(i)

Kind(i) == outputs[i].kind
OfStream(i) == Kind(i) \in {"Stream", "End"}
Count(kind, i) == Cardinality({j \in 1..(i - 1) : Kind(j) = kind})
InMode(i) == Count("Start", i) > Count("EndMode", i)
TellsOf(h, i) == {j \in 1..(i - 1) : OfStream(j) /\ outputs[j].handle = h}

\* The peer can tell the parts of the output from each other: while a command has the socket
\* only its data is sent; a background stream says something only at a prompt, after it was
\* announced, each message once and in order, and its end after the last of them.
IsFramed(i) ==
    /\ Kind(i) \in {"FromCommand", "EndMode"} <=> InMode(i)
    /\ OfStream(i) =>
        /\ OfStream(i - 1) \/ Kind(i - 1) = "Prompt"
        /\ \E j \in 1..(i - 1) : Kind(j) = "New" /\ outputs[j].handle = outputs[i].handle
        /\ \A j \in TellsOf(outputs[i].handle, i) : Kind(j) = "Stream"
        /\ Kind(i) = "Stream" =>
               outputs[i].message = Cardinality(TellsOf(outputs[i].handle, i)) + 1
OutputIsFramed == \A i \in DOMAIN outputs : IsFramed(i)

\* No stream in the background and no call from outside keeps a request from being taken.
RequestIsTaken ==
    \A n \in 1..(CHOOSE m \in {Len(s) : s \in Scripts} : \A s \in Scripts : Len(s) <= m) :
        (sent >= n) ~> (n \in Past \/ pc = "ended")
=============================================================================
