----------------------------- MODULE Tokenizer -----------------------------
(***************************************************************************)
(* The tokenizer of flo_scene_pipe (tokenizer.rs) with the matchers of the *)
(* JSON and command languages (parse_json.rs, parse_command.rs), reading   *)
(* the bytes of a socket through StreamReader (internal_socket.rs) and     *)
(* create_reader_stream (socket.rs).                                       *)
(*                                                                         *)
(* match_token keeps the matchers that may still match, tries them on the  *)
(* characters read so far, and reads more while one of them says that the  *)
(* lookahead is a prefix of its token.  Bytes arrive in blocks of any      *)
(* size, characters may be split between blocks, and the tokenizer is      *)
(* replaced between two requests, handing its lookahead to the next one.   *)
(***************************************************************************)
EXTENDS Integers, Sequences, FiniteSets

CONSTANTS
    Inputs,       \* the byte sequences a client may send
    ReadAhead,    \* bytes of lookahead read before matching (32 in the code)
    ReadBuffer,   \* bytes create_reader_stream reads at once (64 in the code)
    ChunkBytes    \* bytes StreamReader takes from its source at once (256)

ASSUME TokenizerAssumption ==
    /\ {ReadAhead, ReadBuffer, ChunkBytes} \subseteq Nat \ {0}
    /\ \A input \in Inputs : input \in Seq({input[i] : i \in DOMAIN input})

VARIABLES
    matchers,     \* Tokenizer.matchers, in the order they were added
    wire,         \* bytes of the client that StreamReader has not taken
    reader_pending, \* StreamReader.pending
    open,         \* source_stream is Some
    bytes,        \* lookahead_bytes
    chars,        \* lookahead_chars
    possible,     \* possible_matches, as indices of matchers
    matches,      \* matches: [token, length], in the order they were found
    eof,          \* eof
    stage,        \* where match_token is
    tokens        \* history: the tokens returned

tokenizerVars == <<matchers, wire, reader_pending, open, bytes, chars, possible, matches,
          eof, stage, tokens>>

-----------------------------------------------------------------------------
(* Bytes and characters.  "lead2" and "lead3" start characters of two and  *)
(* three bytes, "cont" continues one; every other byte is an ASCII         *)
(* character.  The decoded characters are "wide2" and "wide3", and "nul"   *)
(* stands for what could not be decoded.                                   *)

ExtraBytes == [lead2 |-> 1, lead3 |-> 2]
Decoded == [lead2 |-> "wide2", lead3 |-> "wide3"]
Encoded == [wide2 |-> <<"lead2", "cont">>, wide3 |-> <<"lead3", "cont", "cont">>]
Encode(c) == IF c \in DOMAIN Encoded THEN Encoded[c] ELSE <<c>>

\* What read_lookahead_character takes from the front of b: the number of
\* bytes it removes (0: it needs more of them) and the character it adds.
FirstCharacter(b) ==
    CASE b = <<>> -> [taken |-> 0, char |-> "nul"]
      [] b # <<>> /\ b[1] = "cont" -> [taken |-> 1, char |-> "nul"]
      [] b # <<>> /\ b[1] \in DOMAIN ExtraBytes ->
            LET extra == ExtraBytes[b[1]]
            IN IF Len(b) < 1 + extra THEN [taken |-> 0, char |-> "nul"]
               ELSE IF \E p \in 2..(1 + extra) : b[p] # "cont"
               THEN [taken |-> 1, char |-> "nul"]
               ELSE [taken |-> 1 + extra, char |-> Decoded[b[1]]]
      [] OTHER -> [taken |-> 1, char |-> b[1]]

\* The loop of read_more_characters over read_lookahead_character: the
\* characters that b holds from each of its places on, and where it stops.
DecodeFrom(b) ==
    LET from[i \in 1..(Len(b) + 1)] ==
            LET first == FirstCharacter(SubSeq(b, i, Len(b)))
            IN IF first.taken = 0 THEN [chars |-> <<>>, left |-> i]
               ELSE LET others == from[i + first.taken]
                    IN [chars |-> <<first.char>> \o others.chars,
                        left |-> others.left]
    IN from

\* The characters that b holds and the bytes left over.
DecodeAll(b) ==
    LET all == DecodeFrom(b)[1]
    IN [chars |-> all.chars, bytes |-> SubSeq(b, all.left, Len(b))]

\* str.bytes() and str.len() of a text.
EncodeUpTo(text) ==
    LET to[i \in 0..Len(text)] ==
            IF i = 0 THEN <<>> ELSE to[i - 1] \o Encode(text[i])
    IN to
EncodeAll(text) == EncodeUpTo(text)[Len(text)]
ByteLen(text) == Len(EncodeAll(text))

-----------------------------------------------------------------------------
(* The matchers.  la is the lookahead, never empty.                        *)

Newlines == {"\n", "\r"}
Blanks == {" ", "\t"}
Digits == {"0", "1"}
Letters == {"a", "e", "E", "f", "l", "n", "r", "s", "t", "u", "wide2", "wide3"}
NameChars == Letters \cup Digits \cup {"_", ":"}

Matches(n) == [result |-> "Matches", length |-> n]
Prefix == [result |-> "LookaheadIsPrefix", length |-> 0]
CannotMatch == [result |-> "LookaheadCannotMatch", length |-> 0]
Panics == [result |-> "Panics", length |-> 0]

\* Where the run of characters of S that starts at i ends.
RunEnd(la, i, S) ==
    CHOOSE j \in i..(Len(la) + 1) :
        /\ \A k \in i..(j - 1) : la[k] \in S
        /\ j <= Len(la) => la[j] \notin S

\* A token of every character read: it may go on unless the input has ended.
UpToTheEnd(la, eof0) == IF eof0 THEN Matches(Len(la)) ELSE Prefix
NothingAtEnd(eof0) == IF eof0 THEN CannotMatch ELSE Prefix

MatchCharacter(la) == Matches(1)

\* Mutant: whitespace runs over the ends of lines.
MatchWhitespace_OverNewlines(la, eof0) ==
    LET j == RunEnd(la, 2, Blanks \cup Newlines)
    IN IF la[1] \notin Newlines \cup Blanks THEN CannotMatch
       ELSE IF j > Len(la) THEN UpToTheEnd(la, eof0)
       ELSE Matches(j - 1)

MatchWhitespace(la, eof0) ==
    LET j == RunEnd(la, 2, Blanks)
    IN CASE la[1] \in Newlines -> Matches(1)
         [] la[1] \notin Newlines \cup Blanks -> CannotMatch
         [] OTHER -> IF j > Len(la) THEN UpToTheEnd(la, eof0)
                     ELSE IF la[j] \in Newlines THEN Matches(j)
                     ELSE Matches(j - 1)

MatchExponent(la, j, eof0) ==
    LET k == RunEnd(la, j + 2, Digits)
    IN CASE la[j] \notin {"e", "E"} -> Matches(j - 1)
         [] la[j] \in {"e", "E"} /\ j = Len(la) ->
                IF eof0 THEN Matches(j - 1) ELSE Prefix
         [] OTHER -> IF la[j + 1] \notin {"+", "-"} \cup Digits
                     THEN Matches(j - 1)
                     ELSE IF k > Len(la) THEN UpToTheEnd(la, eof0)
                     ELSE Matches(k - 1)

MatchNumber(la, eof0) ==
    LET int == RunEnd(la, IF la[1] = "-" THEN 3 ELSE 2, Digits)
        frac == IF la[int] = "." THEN RunEnd(la, int + 1, Digits) ELSE int
    IN CASE la[1] \notin Digits \cup {"-"} -> CannotMatch
         [] la = <<"-">> -> NothingAtEnd(eof0)
         [] la[1] = "-" /\ Len(la) > 1 /\ la[2] \notin Digits -> CannotMatch
         [] OTHER -> IF int > Len(la) THEN UpToTheEnd(la, eof0)
                     ELSE IF frac > Len(la) THEN UpToTheEnd(la, eof0)
                     ELSE MatchExponent(la, frac, eof0)

\* Whether each character of a string comes after a backslash.
Quoted(la) ==
    LET quoted[k \in 1..Len(la)] ==
            k > 2 /\ la[k - 1] = "\\" /\ ~quoted[k - 1]
    IN quoted

MatchString(la, eof0) ==
    LET quoted == Quoted(la)
        closing == {k \in 2..Len(la) : la[k] = "\"" /\ ~quoted[k]}
    IN IF la[1] # "\"" THEN CannotMatch
       ELSE IF closing = {} THEN NothingAtEnd(eof0)
       ELSE Matches(CHOOSE k \in closing : \A l \in closing : k <= l)

\* match_true, match_false and match_null compare bytes: slicing the text in
\* the middle of a character is a panic.
MatchKeyword(la, word) ==
    LET n == Len(word)
        boundary == {i \in 0..Len(la) : ByteLen(SubSeq(la, 1, i)) = n}
    IN IF ByteLen(la) < n
       THEN IF la = SubSeq(word, 1, Len(la)) THEN Prefix ELSE CannotMatch
       ELSE IF boundary = {} THEN Panics
       ELSE IF \E i \in boundary : SubSeq(la, 1, i) = word THEN Matches(n)
       ELSE CannotMatch

MatchCommand(la, eof0) ==
    LET j == RunEnd(la, 2, NameChars)
    IN IF la[1] \notin Letters \cup {"_", ":"} THEN CannotMatch
       ELSE IF j > Len(la) THEN UpToTheEnd(la, eof0)
       ELSE IF la[1] # ":" \/ j > 2 THEN Matches(j - 1) ELSE CannotMatch

MatchVariable(la, eof0) ==
    LET j == RunEnd(la, 2, NameChars)
    IN IF la[1] \notin {":", "$", "_"} THEN CannotMatch
       ELSE IF j > Len(la) THEN UpToTheEnd(la, eof0)
       ELSE IF j > 2 THEN Matches(j - 1) ELSE CannotMatch

MatchComment(la, eof0) ==
    LET ends == {k \in 3..Len(la) : la[k] \in Newlines}
    IN CASE la[1] # "/" -> CannotMatch
         [] la = <<"/">> -> NothingAtEnd(eof0)
         [] la[1] = "/" /\ Len(la) > 1 /\ la[2] # "/" -> CannotMatch
         [] OTHER -> IF ends = {} THEN UpToTheEnd(la, eof0)
                     ELSE Matches(CHOOSE k \in ends : \A l \in ends : k <= l)

MatchSymbol(la, c) == IF la[1] = c THEN Matches(1) ELSE CannotMatch

MatchNewline(la, eof0) ==
    LET space == MatchWhitespace(la, eof0)
    IN IF space.result = "Matches" /\ la[space.length] \notin Newlines
       THEN CannotMatch ELSE space

JsonMatchers ==
    <<"Character", "Whitespace", "Number", "String", "True", "False", "Null">>
CommandMatchers ==
    JsonMatchers \o <<"Command", "Variable", "Comment", "Pipe", "SemiColon",
                      "Equals", "Newline">>

TryMatch(matcher, la, eof0) ==
    CASE matcher = "Character"  -> MatchCharacter(la)
      [] matcher = "Whitespace" -> MatchWhitespace(la, eof0)
      [] matcher = "Number"     -> MatchNumber(la, eof0)
      [] matcher = "String"     -> MatchString(la, eof0)
      [] matcher = "True"       -> MatchKeyword(la, <<"t", "r", "u", "e">>)
      [] matcher = "False"      -> MatchKeyword(la, <<"f", "a", "l", "s", "e">>)
      [] matcher = "Null"       -> MatchKeyword(la, <<"n", "u", "l", "l">>)
      [] matcher = "Command"    -> MatchCommand(la, eof0)
      [] matcher = "Variable"   -> MatchVariable(la, eof0)
      [] matcher = "Comment"    -> MatchComment(la, eof0)
      [] matcher = "Pipe"       -> MatchSymbol(la, "|")
      [] matcher = "SemiColon"  -> MatchSymbol(la, ";")
      [] matcher = "Equals"     -> MatchSymbol(la, "=")
      [] matcher = "Newline"    -> MatchNewline(la, eof0)

\* The k-th of the matchers in S, which are tried in order.
Nth(S, k) == CHOOSE i \in S : Cardinality({j \in S : j <= i}) = k

\* Iterator::max_by: the last of the longest matches.
Longest(found) ==
    found[CHOOSE i \in DOMAIN found : \A j \in DOMAIN found :
            \/ found[j].length < found[i].length
            \/ found[j].length = found[i].length /\ j <= i]

-----------------------------------------------------------------------------
TokenizerInit ==
    /\ matchers \in {JsonMatchers, CommandMatchers}
    /\ wire \in Inputs
    /\ reader_pending = <<>>
    /\ open = TRUE
    /\ bytes = <<>>
    /\ chars = <<>>
    /\ possible = {}
    /\ matches = <<>>
    /\ eof = FALSE
    /\ stage = "idle"
    /\ tokens = <<>>

\* match_token is called: every matcher may match, and they are tried before
\* anything is read if there are characters left from the last token.
StartToken ==
    /\ stage = "idle"
    /\ possible' = DOMAIN matchers
    /\ matches' = <<>>
    /\ eof' = FALSE
    /\ stage' = IF chars = <<>> THEN "read" ELSE "match"
    /\ UNCHANGED <<matchers, wire, reader_pending, open, bytes, chars, tokens>>

\* One round of 'match_tokens: try the possible matchers on the lookahead,
\* keep those that have not decided, and return the longest match once none
\* is left or the input has ended.
TryMatchers ==
    /\ stage = "match"
    /\ \E result \in {[i \in possible |-> TryMatch(matchers[i], chars, eof)]} :
       LET undecided == {i \in possible : result[i].result = "LookaheadIsPrefix"}
           matched == {i \in possible : result[i].result = "Matches"}
           found == matches \o [k \in 1..Cardinality(matched) |->
                        [token |-> matchers[Nth(matched, k)],
                         length |-> result[Nth(matched, k)].length]]
       IN /\ ~\E i \in possible : result[i].result = "Panics"
          /\ possible' = undecided
          /\ IF undecided # {} /\ ~eof
             THEN /\ stage' = "read"
                  /\ matches' = found
                  /\ UNCHANGED <<chars, tokens>>
             ELSE /\ found # <<>>
                  /\ \E best \in {Longest(found)} :
                      /\ tokens' = Append(tokens,
                            [token |-> best.token,
                             text |-> SubSeq(chars, 1, best.length)])
                      /\ chars' = SubSeq(chars, best.length + 1, Len(chars))
                  /\ stage' = "idle"
                  /\ matches' = <<>>
    /\ UNCHANGED <<matchers, wire, reader_pending, open, bytes, eof>>

\* A matcher slices the lookahead inside a character: the task panics.
SliceInsideCharacter ==
    /\ stage = "match"
    /\ \E i \in possible :
        TryMatch(matchers[i], chars, eof).result = "Panics"
    /\ stage' = "panicked"
    /\ UNCHANGED <<matchers, wire, reader_pending, open, bytes, chars, possible,
                   matches, eof, tokens>>

\* read_more_characters finds characters in the bytes it has: the lookahead
\* is tried again once a line has ended or it is long enough.
DecodeCharacters ==
    /\ stage = "read"
    /\ \E read \in {DecodeAll(bytes)} :
        /\ read.chars # <<>>
        /\ chars' = chars \o read.chars
        /\ bytes' = read.bytes
        /\ stage' = IF \/ \E i \in DOMAIN read.chars :
                            read.chars[i] \in Newlines \cup {";"}
                    \/ ByteLen(chars') >= ReadAhead
                 THEN "match" ELSE "read"
    /\ UNCHANGED <<matchers, wire, reader_pending, open, possible, matches, eof, tokens>>

NeedsBytes == stage = "read" /\ FirstCharacter(bytes).taken = 0

\* Mutant: StreamReader polls its source even if it has bytes pending.
ReceiveBlock_AlwaysPolls ==
    /\ NeedsBytes /\ open
    /\ \E n \in 1..ChunkBytes :
        /\ n <= Len(wire)
        /\ \E ready \in {reader_pending \o SubSeq(wire, 1, n)} :
           LET copied == IF Len(ready) < ReadBuffer THEN Len(ready) ELSE ReadBuffer
           IN /\ bytes' = bytes \o SubSeq(ready, 1, copied)
              /\ reader_pending' = SubSeq(ready, copied + 1, Len(ready))
        /\ wire' = SubSeq(wire, n + 1, Len(wire))
    /\ UNCHANGED <<matchers, open, chars, possible, matches, eof, stage, tokens>>

\* read_more_characters waits for a block.  create_reader_stream reads one
\* buffer from StreamReader, which takes the bytes that are ready, n of them,
\* from its source only when it has none pending.
ReceiveBlock ==
    /\ NeedsBytes /\ open
    /\ \E n \in 0..ChunkBytes :
        /\ IF reader_pending = <<>> THEN n > 0 /\ n <= Len(wire) ELSE n = 0
        /\ \E ready \in {reader_pending \o SubSeq(wire, 1, n)} :
           LET copied == IF Len(ready) < ReadBuffer THEN Len(ready) ELSE ReadBuffer
           IN /\ bytes' = bytes \o SubSeq(ready, 1, copied)
              /\ reader_pending' = SubSeq(ready, copied + 1, Len(ready))
        /\ wire' = SubSeq(wire, n + 1, Len(wire))
    /\ UNCHANGED <<matchers, open, chars, possible, matches, eof, stage, tokens>>

\* The client has closed: StreamReader reads 0 bytes, which ends the stream.
SourceEnds ==
    /\ NeedsBytes /\ open
    /\ wire = <<>> /\ reader_pending = <<>>
    /\ open' = FALSE
    /\ UNCHANGED <<matchers, wire, reader_pending, bytes, chars, possible, matches,
                   eof, stage, tokens>>

\* Nothing more can be read: the matchers that are left are tried with eof
\* set; with no lookahead at all match_token returns None.
ReachEndOfInput ==
    /\ NeedsBytes /\ ~open
    /\ eof' = TRUE
    /\ stage' = IF chars = <<>> THEN "ended" ELSE "match"
    /\ UNCHANGED <<matchers, wire, reader_pending, open, bytes, chars, possible,
                   matches, tokens>>

\* Mutant: to_u8_lookahead returns the characters without the bytes after them.
HandOver_WithoutBytes ==
    /\ stage = "idle"
    /\ chars # <<>>
    /\ bytes' = EncodeAll(chars)
    /\ chars' = <<>>
    /\ UNCHANGED <<matchers, wire, reader_pending, open, possible, matches, eof, stage,
                   tokens>>

\* CommandSocket::next_request returns a request: the lookahead becomes the
\* buffer (to_u8_lookahead) that the next request's tokenizer reads first.
HandOver ==
    /\ stage = "idle"
    /\ chars # <<>>
    /\ bytes' = EncodeAll(chars) \o bytes
    /\ chars' = <<>>
    /\ UNCHANGED <<matchers, wire, reader_pending, open, possible, matches, eof, stage,
                   tokens>>

TokenizerNext ==
    \/ StartToken
    \/ TryMatchers
    \/ SliceInsideCharacter
    \/ DecodeCharacters
    \/ ReceiveBlock
    \/ SourceEnds
    \/ ReachEndOfInput
    \/ HandOver

TokenizerSpec == TokenizerInit /\ [][TokenizerNext]_tokenizerVars

\* The parser keeps asking for tokens and the client keeps sending; nothing
\* is assumed of when a request ends.
FairTokenizerSpec ==
    /\ TokenizerSpec
    /\ WF_tokenizerVars(StartToken \/ TryMatchers \/ SliceInsideCharacter
               \/ DecodeCharacters \/ ReceiveBlock \/ SourceEnds
               \/ ReachEndOfInput)

-----------------------------------------------------------------------------
(* Properties.                                                             *)

Steps == {"idle", "match", "read", "panicked", "ended"}

\* Every variable has its type; only undecided matchers stay possible.
TokenizerTypeOK ==
    /\ matchers \in {JsonMatchers, CommandMatchers}
    /\ stage \in Steps
    /\ open \in BOOLEAN /\ eof \in BOOLEAN
    /\ possible \subseteq DOMAIN matchers
    /\ \A i \in DOMAIN matches : matches[i].length \in 1..Len(chars)
    /\ ~open => wire = <<>> /\ reader_pending = <<>>

\* The characters that have not been returned in a token.
Rest == chars \o DecodeAll(bytes \o reader_pending \o wire).chars

\* The token at the front of a text that is there in full.
WholeMatch(language, text) ==
    LET results == [i \in DOMAIN language |-> TryMatch(language[i], text, TRUE)]
        matched == {i \in DOMAIN language : results[i].result = "Matches"}
        longest == CHOOSE i \in matched : \A j \in matched :
                    \/ results[j].length < results[i].length
                    \/ results[j].length = results[i].length /\ j <= i
    IN [token |-> language[longest], length |-> results[longest].length]

Stream == INSTANCE TokenStream WITH
    language <- matchers,
    rest <- Rest,
    tokens <- tokens,
    Languages <- {JsonMatchers, CommandMatchers},
    Texts <- {DecodeAll(i).chars : i \in Inputs},
    TokenAt <- WholeMatch

\* However the bytes are cut into blocks, wherever a request ends and however
\* little is read ahead, the tokens are those of the whole input: no byte is
\* lost, and no matcher decides on a part of its token.
TokensOfTheWholeInput == Stream!Spec

\* The tokenizer is used interactively: once a line has arrived, only an open
\* string may make the tokenizer wait for the next one.
OnlyAStringWaitsForMore ==
    stage = "read" /\ (\E i \in DOMAIN chars : chars[i] \in Newlines) =>
        \A i \in possible : matchers[i] = "String"

\* The tokenizer's state whenever it looks for a token.
BufferIsSound == TokenizerTypeOK /\ OnlyAStringWaitsForMore

\* The whole input becomes tokens, unless a matcher panics; only bytes that
\* wait for the rest of their character can be left at its end.
InputIsConsumed == <>(stage = "panicked" \/ (stage = "ended" /\ Rest = <<>>))

\* A constant of the JSON language followed by the end of its line is that
\* constant, and can be the argument of a command.
ConstantsAreJson ==
    \A i \in DOMAIN tokens :
        tokens[i].text = <<"t", "r", "u", "e">> => tokens[i].token = "True"
=============================================================================
