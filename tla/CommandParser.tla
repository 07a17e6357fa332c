--------------------------- MODULE CommandParser ---------------------------
(***************************************************************************)
(* The parsers of flo_scene_pipe: Parser (parser.rs), the JSON parser      *)
(* (parse_json.rs) and the command parser (parse_command.rs).              *)
(*                                                                         *)
(* They are recursive functions that read tokens when they look ahead,     *)
(* push them on the parser's stack and reduce the entries they counted to  *)
(* one node.  Here the calls in progress are a stack of frames, with the   *)
(* entries each has counted (num_tokens), and a token arrives whenever a   *)
(* frame looks further ahead than the tokens there are.                    *)
(***************************************************************************)
EXTENDS Integers, Sequences, FiniteSets

CONSTANTS
    Modes,       \* what is parsed: "command" (next_request) or "json" (stream_json)
    MaxTokens    \* bound: tokens of an input

VARIABLES
    mode,        \* which parser runs
    frames,      \* calls in progress, the innermost last: [at, n]
    lookahead,   \* Parser.lookahead of the parser that runs
    stack,       \* stack of the command parser
    jsonStack,   \* stack of the JSON parser
    used,        \* history: the tokens read from the tokenizer
    ended,       \* the tokenizer has returned None
    outcome,     \* "parsing", "ok", "error" or "panic"
    result       \* the node that finish() returned

vars == <<mode, frames, lookahead, stack, jsonStack, used, ended, outcome, result>>

-----------------------------------------------------------------------------
(* Tokens.  "bad string" and "bad number" are tokens that serde_json       *)
(* rejects; the tokenizer of commands never returns a constant, which it   *)
(* takes for the name of a command.                                        *)

Strings == {"string", "other string"}
Scalars == Strings \cup {"number", "constant"}
Brackets == {"{", "}", "[", "]", ",", ":"}
JsonTokens == Scalars \cup Brackets \cup {"bad string", "bad number"}
CommandTokens ==
    (JsonTokens \ {"constant"})
        \cup {"command", "variable", "=", ";", "|", "newline", "comment"}
TokensOf == IF mode = "json" THEN JsonTokens ELSE CommandTokens

\* json_read_token skips what TryInto<JsonToken> makes whitespace.
SkippedByJson == {"newline", "comment"}

Token(t) == [entry |-> "Token", value |-> t]
Node(v) == [entry |-> "Node", value |-> v]
NotParsed == <<"none">>
NoArgument == <<"constant">>

Top == frames[Len(frames)]
Outer == SubSeq(frames, 1, Len(frames) - 1)
Frame(at, n) == [at |-> at, n |-> n]
GoTo(f) == Append(Outer, f)
JsonFrames == {"value", "object", "colon", "after field", "array", "after item"}

CommandFrames == {"line", "variable", "assignment", "assigned", "name", "argument",
                  "with argument", "raw"}

TypeOK ==
    /\ mode \in Modes /\ ended \in BOOLEAN
    /\ outcome \in {"parsing", "ok", "error", "panic"}
    /\ frames \in Seq([at : JsonFrames \cup CommandFrames, n : Nat])
    /\ used \in Seq(TokensOf) /\ lookahead \in Seq(TokensOf)
    /\ \A i \in DOMAIN stack : stack[i].entry \in {"Token", "Node"}
    /\ \A i \in DOMAIN jsonStack : jsonStack[i].entry \in {"Token", "Node"}
    /\ result # NotParsed => outcome = "ok"

-----------------------------------------------------------------------------
(* Parser                                                                  *)

Front(s, n) == SubSeq(s, 1, Len(s) - n)
Back(s, n) == SubSeq(s, Len(s) - n + 1, Len(s))

\* Mutant: every line is looked at two tokens ahead, for an '='.
Needed_TwoForLines ==
    IF Top.at \in {"line", "variable"} THEN 2
    ELSE IF Top.at \in {"assigned", "raw", "with argument"} THEN 0 ELSE 1

\* The tokens a frame looks ahead by before it goes on.
Needed == IF Top.at = "variable" THEN 2
          ELSE IF Top.at \in {"assigned", "raw", "with argument"} THEN 0 ELSE 1
Looked == Len(lookahead) >= Needed \/ ended
Ahead(k) == IF Len(lookahead) >= k THEN lookahead[k] ELSE "none"

Parsing == outcome = "parsing" /\ frames # <<>>

\* Parser::lookahead reads a token with the reader of the parser that runs.
LookAhead ==
    /\ Parsing /\ ~Looked
    /\ Len(used) < MaxTokens
    /\ \E t \in TokensOf :
        /\ used' = Append(used, t)
        /\ lookahead' = IF Top.at \in JsonFrames /\ t \in SkippedByJson
                        THEN lookahead ELSE Append(lookahead, t)
    /\ UNCHANGED <<mode, frames, stack, jsonStack, ended, outcome, result>>

EndOfInput ==
    /\ Parsing /\ ~Looked
    /\ ended' = TRUE
    /\ UNCHANGED <<mode, frames, lookahead, stack, jsonStack, used, outcome, result>>

\* What every step of a parser that runs leaves alone.
At(at) == Parsing /\ Top.at = at /\ Looked
Steady == UNCHANGED <<mode, used, ended>>
KeepParsing == UNCHANGED <<outcome, result>>

\* The function returns an error, which every caller passes on.
Fail ==
    /\ outcome' = "error"
    /\ UNCHANGED <<frames, lookahead, stack, jsonStack, result>>

\* accept_token on the JSON parser, and the frame that goes on.
AcceptJson(f) ==
    /\ jsonStack' = Append(jsonStack, Token(Ahead(1)))
    /\ lookahead' = Tail(lookahead)
    /\ frames' = GoTo(f)
    /\ KeepParsing /\ UNCHANGED stack

\* accept_token and reduce(n) to the node v: the function returns.
AcceptAndReduce(n, v) ==
    /\ jsonStack' = Append(Front(Append(jsonStack, Token(Ahead(1))), n), Node(v))
    /\ lookahead' = Tail(lookahead)
    /\ frames' = Outer
    /\ KeepParsing /\ UNCHANGED stack

\* Parser::finish: exactly one node.
Finish(s) == IF Len(s) = 1 /\ s[1].entry = "Node" THEN s[1].value ELSE NotParsed

-----------------------------------------------------------------------------
(* The JSON parser                                                         *)

\* json_parse_value, json_parse_string and json_parse_number.
ParseValue ==
    /\ At("value")
    /\ IF Ahead(1) \in Scalars \cup {"variable"}
       THEN AcceptAndReduce(1, <<Ahead(1)>>)
       ELSE IF Ahead(1) = "{" THEN AcceptJson(Frame("object", 1))
       ELSE IF Ahead(1) = "[" THEN AcceptJson(Frame("array", 1))
       ELSE Fail
    /\ Steady

\* A map of the fields: of two with the same key the last one stays.
MapOf(fields) ==
    [k \in {fields[i][1] : i \in DOMAIN fields} |->
        fields[CHOOSE i \in DOMAIN fields :
            /\ fields[i][1] = k
            /\ \A j \in DOMAIN fields : fields[j][1] = k => j <= i][2]]

\* The reduction of an object: after "{", groups of key, colon, value and
\* comma or brace; a group that is not complete is left out.
ObjectOf(entries) ==
    <<"object", MapOf([i \in 1..((Len(entries) - 1) \div 4) |->
                    <<entries[4 * i - 2].value, entries[4 * i].value>>])>>

ArrayOf(entries) ==
    <<"array", [i \in 1..((Len(entries) - 1) \div 2) |-> entries[2 * i].value]>>

Entries(n) == Back(Append(jsonStack, Token(Ahead(1))), n)

\* json_parse_object: the start of the loop.  A key that serde_json rejects
\* is unwrapped.
ParseObject ==
    /\ At("object")
    /\ CASE Ahead(1) = "}" -> AcceptAndReduce(Top.n + 1, ObjectOf(Entries(Top.n + 1)))
         [] Ahead(1) \in Strings ->
                /\ jsonStack' = Append(jsonStack, Node(<<Ahead(1)>>))
                /\ lookahead' = Tail(lookahead)
                /\ frames' = GoTo(Frame("colon", Top.n + 1))
                /\ KeepParsing /\ UNCHANGED stack
         [] Ahead(1) = "bad string" ->
                /\ outcome' = "panic"
                /\ UNCHANGED <<frames, lookahead, stack, jsonStack, result>>
         [] OTHER -> Fail
    /\ Steady

\* Mutant: the colon is not counted.
ParseColon_NotCounted ==
    /\ At("colon")
    /\ IF Ahead(1) = ":"
       THEN /\ jsonStack' = Append(jsonStack, Token(":"))
            /\ lookahead' = Tail(lookahead)
            /\ frames' = Append(GoTo(Frame("after field", Top.n + 1)), Frame("value", 0))
            /\ KeepParsing /\ UNCHANGED stack
       ELSE Fail
    /\ Steady

\* ... ':' and the value.
ParseColon ==
    /\ At("colon")
    /\ IF Ahead(1) = ":"
       THEN /\ jsonStack' = Append(jsonStack, Token(":"))
            /\ lookahead' = Tail(lookahead)
            /\ frames' = Append(GoTo(Frame("after field", Top.n + 2)), Frame("value", 0))
            /\ KeepParsing /\ UNCHANGED stack
       ELSE Fail
    /\ Steady

\* ',' or '}'.
ParseAfterField ==
    /\ At("after field")
    /\ CASE Ahead(1) = "}" -> AcceptAndReduce(Top.n + 1, ObjectOf(Entries(Top.n + 1)))
         [] Ahead(1) = "," -> AcceptJson(Frame("object", Top.n + 1))
         [] OTHER -> Fail
    /\ Steady

\* json_parse_array: the start of the loop.
ParseArray ==
    /\ At("array")
    /\ CASE Ahead(1) = "]" -> AcceptAndReduce(Top.n + 1, ArrayOf(Entries(Top.n + 1)))
         [] Ahead(1) = "none" -> Fail
         [] OTHER ->
                /\ frames' = Append(GoTo(Frame("after item", Top.n + 1)), Frame("value", 0))
                /\ KeepParsing /\ UNCHANGED <<lookahead, stack, jsonStack>>
    /\ Steady

ParseAfterItem ==
    /\ At("after item")
    /\ CASE Ahead(1) = "," -> AcceptJson(Frame("array", Top.n + 1))
         [] Ahead(1) = "]" -> AcceptAndReduce(Top.n + 1, ArrayOf(Entries(Top.n + 1)))
         [] OTHER -> Fail
    /\ Steady

-----------------------------------------------------------------------------
(* The command parser                                                      *)

\* Mutant: the JSON parser starts with an empty lookahead.
StartJson_FreshParser(f) ==
    /\ frames' = Append(GoTo(f), Frame("value", 0))
    /\ jsonStack' = <<>>
    /\ lookahead' = <<>>
    /\ KeepParsing /\ UNCHANGED stack

\* A JSON parser takes the lookahead over (with_lookahead_from) and gives it
\* back when it is done (take_lookahead_from).
StartJson(f) ==
    /\ frames' = Append(GoTo(f), Frame("value", 0))
    /\ jsonStack' = <<>>
    /\ KeepParsing /\ UNCHANGED <<lookahead, stack>>

Become(at) ==
    /\ frames' = GoTo(Frame(at, 0))
    /\ KeepParsing /\ UNCHANGED <<lookahead, stack, jsonStack>>

\* The loop of command_parse.
ParseCommandLine ==
    /\ At("line")
    /\ CASE Ahead(1) = "newline" ->
                /\ lookahead' = Tail(lookahead)
                /\ KeepParsing /\ UNCHANGED <<frames, stack, jsonStack>>
         [] Ahead(1) = "command" -> Become("name")
         [] Ahead(1) = "variable" -> Become("variable")
         [] Ahead(1) \in JsonTokens -> StartJson(Frame("raw", 0))
         [] OTHER -> Fail
    /\ Steady

\* A variable is assigned to if it is followed by '='.
ParseVariable ==
    /\ At("variable")
    /\ Become(IF Ahead(2) = "=" THEN "assignment" ELSE "name")
    /\ Steady

\* command_parse_assignment: 'variable =' and then another command.
ParseAssignment ==
    /\ At("assignment")
    /\ stack' = stack \o <<Token(Ahead(1)), Token(Ahead(2))>>
    /\ lookahead' = SubSeq(lookahead, 3, Len(lookahead))
    /\ frames' = Append(GoTo(Frame("assigned", 0)), Frame("line", 0))
    /\ KeepParsing /\ UNCHANGED jsonStack
    /\ Steady

\* ... and its reduction.
ReduceAssignment ==
    /\ At("assigned")
    /\ stack' = Append(Front(stack, 3),
                       Node(<<"assign", stack[Len(stack)].value>>))
    /\ frames' = Outer
    /\ KeepParsing /\ UNCHANGED <<lookahead, jsonStack>>
    /\ Steady

\* command_parse_command: the name.
ParseName ==
    /\ At("name")
    /\ stack' = Append(stack, Token(Ahead(1)))
    /\ lookahead' = Tail(lookahead)
    /\ frames' = GoTo(Frame("argument", 0))
    /\ KeepParsing /\ UNCHANGED jsonStack
    /\ Steady

\* The function returns with the last n entries reduced to the node v; its
\* JSON parser is dropped.
ReturnNode(s, n, v) ==
    /\ stack' = Append(Front(s, n), Node(v))
    /\ jsonStack' = <<>>
    /\ frames' = Outer
    /\ KeepParsing

\* What follows the name decides on the kind of command.
ParseArgument ==
    /\ At("argument")
    /\ CASE Ahead(1) \in JsonTokens \cup {"variable"} ->
                StartJson(Frame("with argument", 0))
         [] Ahead(1) \in {"newline", ";"} ->
                /\ ReturnNode(Append(stack, Token(Ahead(1))), 2,
                              <<"run", stack[Len(stack)].value, NoArgument>>)
                /\ lookahead' = Tail(lookahead)
         [] Ahead(1) = "none" ->
                /\ ReturnNode(stack, 1,
                              <<"run", stack[Len(stack)].value, NoArgument>>)
                /\ UNCHANGED lookahead
         [] OTHER -> Fail
    /\ Steady

\* command_parse_argument adds a nameless command with the JSON value, and
\* the reduction puts the name and the argument together.
ReduceArgument ==
    /\ At("with argument")
    /\ IF Finish(jsonStack) # NotParsed
       THEN /\ ReturnNode(Append(stack, Node(Finish(jsonStack))), 2,
                          <<"run", stack[Len(stack)].value, Finish(jsonStack)>>)
            /\ UNCHANGED lookahead
       ELSE Fail
    /\ Steady

ReduceRawJson ==
    /\ At("raw")
    /\ IF Finish(jsonStack) # NotParsed
       THEN /\ ReturnNode(stack, 0, <<"raw", Finish(jsonStack)>>)
            /\ UNCHANGED lookahead
       ELSE Fail
    /\ Steady

\* next_request and stream_json: the parser has returned and finish() is
\* called, which pops the node.
FinishParser ==
    /\ outcome = "parsing" /\ frames = <<>>
    /\ \E s \in {IF mode = "json" THEN jsonStack ELSE stack} :
        /\ outcome' = IF Finish(s) # NotParsed THEN "ok" ELSE "error"
        /\ result' = Finish(s)
        /\ IF mode = "json"
           THEN jsonStack' = Front(s, 1) /\ UNCHANGED stack
           ELSE stack' = Front(s, 1) /\ jsonStack' = <<>>
    /\ UNCHANGED <<frames, lookahead>>
    /\ Steady

-----------------------------------------------------------------------------
Init ==
    /\ mode \in Modes
    /\ frames = <<Frame(IF mode = "json" THEN "value" ELSE "line", 0)>>
    /\ lookahead = <<>> /\ stack = <<>> /\ jsonStack = <<>> /\ used = <<>>
    /\ ended = FALSE
    /\ outcome = "parsing"
    /\ result = NotParsed

Next ==
    \/ LookAhead
    \/ EndOfInput
    \/ ParseValue
    \/ ParseObject
    \/ ParseColon
    \/ ParseAfterField
    \/ ParseArray
    \/ ParseAfterItem
    \/ ParseCommandLine
    \/ ParseVariable
    \/ ParseAssignment
    \/ ReduceAssignment
    \/ ParseName
    \/ ParseArgument
    \/ ReduceArgument
    \/ ReduceRawJson
    \/ FinishParser

Spec == Init /\ [][Next]_vars

-----------------------------------------------------------------------------
(* The language, as a definition over complete sequences of tokens.        *)

Inner(ts) == SubSeq(ts, 2, Len(ts) - 1)

\* The brackets open after the first i tokens.
Depth(ts, i) == Cardinality({j \in 1..i : ts[j] \in {"{", "["}})
                - Cardinality({j \in 1..i : ts[j] \in {"}", "]"}})

\* The sequences between the commas that are in no bracket.
Parts(ts) ==
    LET commas == {i \in DOMAIN ts : ts[i] = "," /\ Depth(ts, i) = 0}
        cuts == {0, Len(ts) + 1} \cup commas
        nth(k) == CHOOSE i \in cuts : Cardinality({j \in cuts : j < i}) = k
    IN [k \in 1..(Cardinality(commas) + 1) |->
            SubSeq(ts, nth(k - 1) + 1, nth(k) - 1)]

\* The value that a sequence of tokens is, or NotParsed.  A comma may follow
\* the last item of an array or field of an object.
RECURSIVE ValueOf(_)
ValueOf(ts) ==
    LET parts == Parts(Inner(ts))
        items == IF parts[Len(parts)] = <<>> THEN Front(parts, 1) ELSE parts
        closed == \A i \in 1..(Len(ts) - 1) : Depth(ts, i) > 0
        field(p) == /\ Len(p) > 2 /\ p[1] \in Strings /\ p[2] = ":"
                    /\ ValueOf(SubSeq(p, 3, Len(p))) # NotParsed
    IN CASE ts = <<>> -> NotParsed
         [] Len(ts) = 1 ->
                IF ts[1] \in Scalars \cup {"variable"} THEN ts ELSE NotParsed
         [] Len(ts) > 1 /\ ts[1] = "[" /\ ts[Len(ts)] = "]" /\ closed ->
                IF \A i \in DOMAIN items : ValueOf(items[i]) # NotParsed
                THEN <<"array", [i \in DOMAIN items |-> ValueOf(items[i])]>>
                ELSE NotParsed
         [] Len(ts) > 1 /\ ts[1] = "{" /\ ts[Len(ts)] = "}" /\ closed ->
                IF \A i \in DOMAIN items : field(items[i])
                THEN <<"object", MapOf([i \in DOMAIN items |->
                        <<<<items[i][1]>>,
                          ValueOf(SubSeq(items[i], 3, Len(items[i])))>>])>>
                ELSE NotParsed
         [] OTHER -> NotParsed

WithoutSpace(ts) == SelectSeq(ts, LAMBDA t : t \notin SkippedByJson)

\* The request that a sequence of tokens is: newlines, variables to assign
\* the result to, and a value or a name with an argument or a terminator.
RECURSIVE RequestOf(_)
RequestOf(ts) ==
    LET name == Len(ts) > 0 /\ ts[1] \in {"command", "variable"}
        argument == WithoutSpace(Tail(ts))
    IN CASE ts = <<>> -> NotParsed
         [] Len(ts) > 0 /\ ts[1] = "newline" -> RequestOf(Tail(ts))
         [] Len(ts) > 1 /\ ts[1] = "variable" /\ ts[2] = "=" ->
                IF RequestOf(SubSeq(ts, 3, Len(ts))) = NotParsed THEN NotParsed
                ELSE <<"assign", RequestOf(SubSeq(ts, 3, Len(ts)))>>
         [] name /\ Tail(ts) \in {<<>>, <<"newline">>, <<";">>} ->
                <<"run", ts[1], NoArgument>>
         [] name /\ Len(ts) > 1 /\ ts[2] \notin SkippedByJson \cup {";", "="} ->
                IF ValueOf(argument) = NotParsed THEN NotParsed
                ELSE <<"run", ts[1], ValueOf(argument)>>
         [] ~name /\ Len(ts) > 0 /\ ts[1] \in JsonTokens ->
                IF ValueOf(WithoutSpace(ts)) = NotParsed THEN NotParsed
                ELSE <<"raw", ValueOf(WithoutSpace(ts))>>
         [] OTHER -> NotParsed

Meaning(ts) == IF mode = "json" THEN ValueOf(ts) ELSE RequestOf(ts)

-----------------------------------------------------------------------------
(* Properties.                                                             *)

\* The entries that the frames have counted; one that waits for a value has
\* counted it already.
Counted ==
    LET sum[i \in 0..Len(frames)] ==
            IF i = 0 THEN 0
            ELSE sum[i - 1] + frames[i].n
                 - (IF i < Len(frames) /\ frames[i].n > 0 THEN 1 ELSE 0)
    IN sum[Len(frames)]

HoldsValue == IF frames = <<>> THEN mode = "json"
              ELSE Top.at \in {"raw", "with argument"}

Returned(at) == Cardinality({i \in DOMAIN frames : frames[i].at = at})

\* While a parser runs its stack holds exactly the entries that its frames
\* will reduce, however deep the value is: no reduce takes an entry of an
\* enclosing array, object or assignment, or finds too few.
StackHoldsOpenValues ==
    outcome = "parsing" =>
        /\ Len(jsonStack) = Counted + (IF HoldsValue THEN 1 ELSE 0)
        /\ mode = "command" =>
            Len(stack) = 2 * Returned("assigned") + Returned("argument")
                + Returned("with argument")
                + (IF frames = <<>> THEN 1
                   ELSE IF Top.at = "assigned" THEN 1 ELSE 0)

\* The parser's state in every step.
StackIsSound == TypeOK /\ StackHoldsOpenValues

\* The request or value returned is the one its tokens spell, what is
\* refused spells none, and nothing read with it is lost with the parser.
RequestIsWhatWasWritten ==
    /\ outcome = "ok" => /\ result = Meaning(used)
                         /\ lookahead = <<>> /\ stack = <<>> /\ jsonStack = <<>>
    /\ outcome = "error" => Meaning(used) = NotParsed

\* The session is interactive: a request that is complete is not held back
\* until the next one arrives; only a name waits for what follows it.
CompleteRequestIsNotHeld ==
    outcome = "parsing" /\ frames # <<>> =>
        \/ Looked
        \/ Meaning(used) = NotParsed
        \/ used[Len(used)] \in {"command", "variable"}
=============================================================================
