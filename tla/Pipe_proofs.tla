---------------------------- MODULE Pipe_proofs ----------------------------
(***************************************************************************)
(* Proofs of the safety properties of CommandSession.tla and of            *)
(* Tokenizer.tla, which reads a session's input, each from an inductive    *)
(* invariant that TLC has found to hold first.  The lemmas about sequences *)
(* and sets of numbers serve both.                                         *)
(*                                                                         *)
(* Types.  Typed is TypeOK with what a step needs besides: chunks are not  *)
(* empty, the responses of a request are responses, and nothing but the    *)
(* result of an assignment is pending.                                     *)
(*                                                                         *)
(* Values.  A variable has the value that the requests before the next one *)
(* gave it, or was set from outside; while an assignment goes on, "next"   *)
(* is the present request (Turn), since its value is not there yet.  That  *)
(* the value assigned is the first JSON result needs to know how far the   *)
(* responses have been sent: those left are the last of the request's, and *)
(* there was no result and no error before them (SentWithoutValue).        *)
(*                                                                         *)
(* Frames.  The Start and EndMode that were sent tell the mode the socket  *)
(* is in, the last thing sent tells that it is at a prompt, and what is    *)
(* noted as told of a stream is what was sent of it.                       *)
(*                                                                         *)
(* Items.  What is unread is the run of the numbers that come last, so     *)
(* what is taken from its front is new, and greater than all that was      *)
(* taken before; in the pipe the numbers rise, so what is read from it is  *)
(* new to the command.  The pipe and the unread items are flattened        *)
(* sequences: FlattenJoins shows that the recursive definition of          *)
(* FlattenSeq has a solution, and what it is for one chunk more or less    *)
(* follows by induction, stated for sets of numbers (NatSetInduction).     *)
(*                                                                         *)
(* Tokens.  What is decoded from a front of the input stays (DecodeJoined) *)
(* and what is encoded decodes to itself (DecodeEncoded), so the           *)
(* characters that are left (Rest) do not depend on how the bytes arrive.  *)
(* A matcher that decides on a lookahead has decided on the whole of Rest  *)
(* (Settles, shown of each matcher), so what the tokenizer has found is    *)
(* what the matchers it has dropped find in Rest (MatchesAreWhole).  It    *)
(* takes the last of the longest matches; "last" is by the order of the    *)
(* matchers because a matcher that still waits comes after those that have *)
(* matched (WaitingComesLast).                                             *)
(***************************************************************************)
EXTENDS CommandSession, Tokenizer, NaturalsInduction, FiniteSetTheorems, SequenceTheorems, TLAPS

\* s is a sequence.
IsSeq(s) == s \in Seq(ToSet(s))

\* What the program waits for, and has, is of the kinds that follow, ...
PeerOK ==
    /\ script \in Scripts /\ sent \in 0..Len(script)
    /\ inbound \in Seq(Seq(Items) \ {<<>>}) /\ inputClosed \in BOOLEAN /\ outputClosed \in BOOLEAN
ModeOK ==
    /\ pipe \in Seq(Seq(Items)) /\ buffer \in Seq(Items) /\ held \in Seq(Items)
    /\ reader \in [accepts : BOOLEAN, relaying : BOOLEAN, parsing : BOOLEAN]
    /\ emitted \in 0..MaxEmitted /\ consumed \cup lost \subseteq Items
    /\ pc # "json" => held = <<>> \/ pc = "ended"
StreamsOK ==
    /\ nextHandle \in Nat /\ Handles \subseteq 0..nextHandle-1
    /\ \A h \in Handles :
          /\ streams[h] \in [produced : Nat, told : Nat, closed : BOOLEAN]
          /\ streams[h].told <= streams[h].produced /\ streams[h].produced <= MaxStreamMessages
NamesOK ==
    /\ DOMAIN variables = Variables /\ DOMAIN setOutside = Variables
    /\ \A v \in Variables : variables[v] # None /\ Undefined \notin setOutside[v]
    /\ calls \in 0..MaxOutsideCalls /\ replying \in BOOLEAN
PhaseOK ==
    /\ pc \in {"prompt", "reading", "responding", "enterJson", "enterRaw", "json", "raw",
               "leaveMode", "ended"}
    /\ assigning \in Variables \cup {None}
    /\ pending # None => assigning # None /\ pc \in {"responding", "ended"}
    /\ pc \in {"prompt", "reading"} => assigning = None

\* ... and a request that was taken has a sequence of responses.
AnswerOK(answer) == IsSeq(answer) /\ \A k \in DOMAIN answer : ResponseOK(answer[k])
EvaluatedOK ==
    /\ IsSeq(evaluated) /\ AnswerOK(responses)
    /\ \A i \in DOMAIN evaluated : evaluated[i].item \in Items /\ AnswerOK(evaluated[i].responses)

Typed == PeerOK /\ ModeOK /\ StreamsOK /\ NamesOK /\ PhaseOK /\ EvaluatedOK

----------------------------------------------------------------------------
\* The request that is evaluated now.
Now == Len(evaluated)

\* The first k responses of the request have been sent, and nothing of it was assigned yet.
SentWithoutValue(k) ==
    /\ Len(responses) = Len(evaluated[Now].responses) - k
    /\ \A l \in 1..Len(responses) : responses[l] = evaluated[Now].responses[k + l]
    /\ \A l \in 1..k : evaluated[Now].responses[l].kind \notin {"Json", "Error"}

\* What is assigned is the result of the request that is evaluated.
AssignmentOK ==
    assigning # None /\ pc # "ended" =>
        /\ Now > 0 /\ script[evaluated[Now].item].kind = "Assign"
        /\ script[evaluated[Now].item].variable = assigning
        /\ pending # None => pending = AssignedBy(Now) /\ pending # Undefined
        /\ pending = None => \E k \in 0..Len(evaluated[Now].responses) : SentWithoutValue(k)

\* A variable has the value that the requests before the next one gave it, or, as long as an
\* assignment goes on, those before the present one; or it was set from outside.
Turn == IF assigning = None THEN Now + 1 ELSE Now
VariablesOK ==
    pc # "ended" => \A v \in Variables : variables[v] \in {Expected(v, Turn)} \cup setOutside[v]

ValuesInv == Typed /\ AssignmentOK /\ VariablesOK /\ RequestsSeeAssignments

----------------------------------------------------------------------------
InModes == {"enterJson", "enterRaw", "json", "raw", "leaveMode"}
OutLen == Len(outputs)

\* As long as something may be sent: a Start was sent for every EndMode, ...
MarksOK == Count("Start", OutLen + 1) = Count("EndMode", OutLen + 1) + (IF pc \in InModes THEN 1 ELSE 0)
\* ... only streams spoke since the prompt, ...
PromptOK == pc = "reading" => OutLen > 0 /\ (OfStream(OutLen) \/ Kind(OutLen) = "Prompt")
\* ... and every stream that goes on was announced, and told of what it produced.
TellsOK ==
    /\ \A h \in Handles :
          /\ \E j \in 1..OutLen : Kind(j) = "New" /\ outputs[j].handle = h
          /\ \A j \in TellsOf(h, OutLen + 1) : Kind(j) = "Stream"
          /\ streams[h].told = Cardinality(TellsOf(h, OutLen + 1))
    /\ \A j \in 1..OutLen : OfStream(j) => outputs[j].handle \in 0..nextHandle-1

FramesInv ==
    /\ Typed /\ IsSeq(outputs) /\ OutputIsFramed
    /\ ~outputClosed /\ pc # "ended" => MarksOK /\ PromptOK /\ TellsOK
----------------------------------------------------------------------------
(* Sequences of anything. *)

\* Joining is associative: for any sequences, and for those of item numbers.
Associates(x, y, z) == (x \o y) \o z = x \o (y \o z)

LEMMA AllJoined == ASSUME NEW S PROVE \A x, y, z \in Seq(S) : Associates(x, y, z)
BY ConcatAssociative, SMT DEF Associates

LEMMA NumbersJoined == \A x, y, z \in Seq(Nat) : Associates(x, y, z)
BY AllJoined, Zenon

\* The length and the places of a sequence.
LEMMA SeqOK ==
  ASSUME NEW s, IsSeq(s)
  PROVE  /\ Len(s) \in Nat /\ DOMAIN s = 1..Len(s)
         /\ s = <<>> <=> Len(s) = 0
         /\ s # <<>> => Head(s) = s[1] /\ 1 \in DOMAIN s
<1>1. s \in Seq(ToSet(s))
  BY DEF IsSeq
<1>2. Len(s) \in Nat /\ DOMAIN s = 1..Len(s)
  BY <1>1
<1>3. s = <<>> <=> Len(s) = 0
  BY <1>1, EmptySeq
<1> QED BY <1>1, <1>2, <1>3

\* A sequence over any set is one over its own elements.
LEMMA SeqIs ==
  ASSUME NEW S, NEW s \in Seq(S)
  PROVE  IsSeq(s)
<1>1. Len(s) \in Nat /\ s \in [1..Len(s) -> S] /\ DOMAIN s = 1..Len(s)
  OBVIOUS
<1>2. ToSet(s) = {s[i] : i \in 1..Len(s)}
  BY <1>1 DEF ToSet
<1>3. s \in [1..Len(s) -> ToSet(s)]
  BY <1>1, <1>2
<1>4. s \in Seq(ToSet(s))
  BY <1>1, <1>3
<1> QED BY <1>4 DEF IsSeq

\* What is appended comes last, and the rest stays.
LEMMA SeqAppend ==
  ASSUME NEW s, IsSeq(s), NEW e
  PROVE  /\ IsSeq(Append(s, e)) /\ Len(Append(s, e)) = Len(s) + 1
         /\ \A i \in 1..Len(s) : Append(s, e)[i] = s[i]
         /\ Append(s, e)[Len(s) + 1] = e
<1> DEFINE T == ToSet(s) \cup {e}
<1>1. Len(s) \in Nat /\ s \in [1..Len(s) -> ToSet(s)]
  BY DEF IsSeq
<1>2. s \in [1..Len(s) -> T]
  BY <1>1
<1>3. s \in Seq(T) /\ e \in T
  BY <1>1, <1>2
<1> HIDE DEF T
<1>4. Append(s, e) \in Seq(T)
  BY <1>3
<1>5. IsSeq(Append(s, e))
  BY <1>4, SeqIs
<1>6. Len(Append(s, e)) = Len(s) + 1 /\ Append(s, e)[Len(s) + 1] = e
  BY <1>3, AppendProperties
<1>7. \A i \in 1..Len(s) : Append(s, e)[i] = s[i]
  BY <1>3, AppendProperties
<1> QED BY <1>5, <1>6, <1>7

\* What is left without the first.
LEMMA SeqTail ==
  ASSUME NEW s, IsSeq(s), s # <<>>
  PROVE  /\ IsSeq(Tail(s)) /\ Len(Tail(s)) = Len(s) - 1 /\ Len(s) \in Nat \ {0}
         /\ \A i \in 1..Len(s)-1 : Tail(s)[i] = s[i + 1]
<1>1. s \in Seq(ToSet(s))
  BY DEF IsSeq
<1>2. Tail(s) \in Seq(ToSet(s)) /\ Len(Tail(s)) = Len(s) - 1 /\ Len(s) \in Nat \ {0}
  BY <1>1, HeadTailProperties, EmptySeq
<1>3. \A i \in 1..Len(s)-1 : Tail(s)[i] = s[i + 1]
  BY <1>1, <1>2, HeadTailProperties
<1> QED BY <1>2, <1>3, SeqIs

\* The first chunk of the input, and the others.
LEMMA FirstChunk ==
  ASSUME NEW S, NEW c \in Seq(Seq(S) \ {<<>>}), c # <<>>
  PROVE  /\ Head(c) \in Seq(S) \ {<<>>} /\ Tail(c) \in Seq(Seq(S) \ {<<>>})
  BY HeadTailProperties

\* The first of a sequence, and the others.
LEMMA FirstOf ==
  ASSUME NEW S, NEW c \in Seq(S), c # <<>>
  PROVE  /\ Head(c) \in S /\ Tail(c) \in Seq(S) /\ Len(Tail(c)) = Len(c) - 1
         /\ Head(c) = c[1] /\ Len(c) \in Nat \ {0}
         /\ \A i \in 1..Len(c)-1 : Tail(c)[i] = c[i + 1]
  BY HeadTailProperties

\* The elements of a sequence over a set.
LEMMA ElementsOf ==
  ASSUME NEW S, NEW c \in Seq(S)
  PROVE  ToSet(c) \subseteq S
  BY DEF ToSet

----------------------------------------------------------------------------
(* Sequences of chunks. *)

\* Induction over the numbers, for a set.
LEMMA NatSetInduction ==
  ASSUME NEW S, 0 \in S, \A n \in Nat : n \in S => n + 1 \in S
  PROVE  Nat \subseteq S
<1> SUFFICES ASSUME Nat \ S # {} PROVE FALSE
  OBVIOUS
<1> DEFINE R == {ss \in Nat \X Nat : ss[1] < ss[2]}
<1>1. IsWellFoundedOn(R, Nat)
  BY NatLessThanWellFounded DEF OpToRel
<1>2. \A m, n \in Nat : m < n => <<m, n>> \in R
  OBVIOUS
<1> HIDE DEF R
<1>3. PICK n \in Nat \ S : \A m \in Nat \ S : <<m, n>> \notin R
  BY <1>1, WFMin
<1>4. n - 1 \in Nat \ S /\ n - 1 < n
  OBVIOUS
<1> QED BY <1>2, <1>3, <1>4

\* f joins the chunks one by one.
Joins(f, c, S) ==
    /\ \A n \in 0..Len(c) : f[n] \in Seq(S)
    /\ f[0] = <<>>
    /\ \A n \in Nat : n < Len(c) => f[n + 1] = f[n] \o c[n + 1]

\* The definition of FlattenSeq has a solution, ...
LEMMA JoinExists ==
  ASSUME NEW S, NEW c \in Seq(Seq(S)), c # <<>>
  PROVE  \E f : f = [i \in 1..Len(c) |-> IF i = 1 THEN c[i] ELSE f[i - 1] \o c[i]]
<1> DEFINE L == Len(c)
           Is(n, f) == /\ f \in [1..n -> Seq(S)] /\ f[1] = c[1]
                       /\ \A i \in 2..n : f[i] = f[i - 1] \o c[i]
           D == {n \in Nat : 1 <= n /\ n <= L => \E f : Is(n, f)}
<1>1. L \in Nat \ {0} /\ \A i \in 1..L : c[i] \in Seq(S)
  BY FirstOf
<1> HIDE DEF Is, L
<1>2. 0 \in D
  OBVIOUS
<1>3. ASSUME NEW m \in Nat, m \in D PROVE m + 1 \in D
  <2> SUFFICES ASSUME m + 1 <= L PROVE \E f : Is(m + 1, f)
    OBVIOUS
  <2>1. CASE m = 0
    <3> DEFINE g == [i \in 1..1 |-> c[1]]
    <3>1. m + 1 = 1 /\ Is(1, g)
      BY <1>1, <2>1 DEF Is
    <3> HIDE DEF g
    <3> QED BY <3>1
  <2>2. CASE m # 0
    <3>1. PICK f : Is(m, f)
      BY <1>1, <1>3, <2>2
    <3> DEFINE x == f[m] \o c[m + 1]
               g == [i \in 1..m+1 |-> IF i = m + 1 THEN x ELSE f[i]]
    <3>2. m + 1 \in 1..L /\ 1 \in 1..m /\ m \in 1..m
      BY <1>1, <2>2
    <3>3. f[m] \in Seq(S) /\ c[m + 1] \in Seq(S)
      BY <1>1, <3>1, <3>2 DEF Is
    <3>4. x \in Seq(S)
      BY <3>3, ConcatProperties
    <3> HIDE DEF x
    <3>5. g \in [1..m+1 -> Seq(S)] /\ g[m + 1] = x /\ \A i \in 1..m : g[i] = f[i]
      BY <3>1, <3>4 DEF Is
    <3> HIDE DEF g
    <3>6. g[1] = c[1]
      BY <3>1, <3>2, <3>5 DEF Is
    <3>7. ASSUME NEW i \in 2..m+1 PROVE g[i] = g[i - 1] \o c[i]
      <4>1. CASE i = m + 1
        <5>1. i - 1 = m
          BY <4>1
        <5> QED BY <3>2, <3>5, <4>1, <5>1 DEF x
      <4>2. CASE i # m + 1
        <5>1. i \in 2..m /\ i \in 1..m /\ i - 1 \in 1..m
          BY <4>2
        <5> QED BY <3>1, <3>5, <5>1 DEF Is
      <4> QED BY <4>1, <4>2
    <3>8. Is(m + 1, g)
      BY <3>5, <3>6, <3>7 DEF Is
    <3> QED BY <3>8
  <2> QED BY <2>1, <2>2
<1> HIDE DEF D
<1>4. Nat \subseteq D
  BY <1>2, <1>3, NatSetInduction
<1>5. PICK f : Is(L, f)
  <2>1. L \in D /\ 1 <= L /\ L <= L
    BY <1>1, <1>4
  <2> QED BY <2>1 DEF D
<1>6. f = [i \in 1..L |-> f[i]]
  BY <1>5 DEF Is
<1>7. \A i \in 1..L : f[i] = IF i = 1 THEN c[i] ELSE f[i - 1] \o c[i]
  <2> SUFFICES ASSUME NEW i \in 1..L, i # 1 PROVE f[i] = f[i - 1] \o c[i]
    BY <1>5 DEF Is
  <2>1. i \in 2..L
    BY <1>1
  <2> QED BY <1>5, <2>1 DEF Is
<1> QED BY <1>6, <1>7 DEF L

\* ... which joins the chunks one by one, ...
LEMMA FlattenJoins ==
  ASSUME NEW S, NEW c \in Seq(Seq(S))
  PROVE  \E f : Joins(f, c, S) /\ FlattenSeq(c) = f[Len(c)]
<1>1. CASE c = <<>>
  <2> DEFINE f == [n \in {0} |-> <<>>]
  <2>1. Len(c) = 0 /\ FlattenSeq(c) = <<>>
    BY <1>1 DEF FlattenSeq
  <2>2. Joins(f, c, S) /\ FlattenSeq(c) = f[Len(c)]
    BY <2>1 DEF Joins
  <2> QED BY <2>2
<1>2. CASE c # <<>>
  <2> DEFINE L == Len(c)
             Eq(f) == [i \in 1..Len(c) |-> IF i = 1 THEN c[i] ELSE f[i - 1] \o c[i]]
             h == CHOOSE f : f = Eq(f)
             g == [n \in 0..L |-> IF n = 0 THEN <<>> ELSE h[n]]
  <2>1. L \in Nat \ {0} /\ \A i \in 1..L : c[i] \in Seq(S)
    BY <1>2, FirstOf
  <2>2. h = Eq(h)
    BY <1>2, JoinExists
  <2>3. FlattenSeq(c) = h[L]
    BY <2>1 DEF FlattenSeq
  <2> HIDE DEF h
  <2>4. \A i \in 1..L : h[i] = IF i = 1 THEN c[i] ELSE h[i - 1] \o c[i]
    BY <2>2
  <2> HIDE DEF L
  <2>5. g[0] = <<>> /\ \A n \in 1..L : g[n] = h[n] /\ g[n] = g[n]
    BY <2>1
  <2> HIDE DEF g
  <2>6. ASSUME NEW n \in Nat, n < L PROVE g[n + 1] = g[n] \o c[n + 1]
    <3>1. n + 1 \in 1..L /\ c[n + 1] \in Seq(S)
      BY <2>1, <2>6
    <3>2. CASE n = 0
      <4>1. g[1] = c[1]
        BY <2>4, <2>5, <3>1, <3>2
      <4>2. <<>> \o c[1] = c[1]
        BY <3>1, <3>2, ConcatEmptySeq
      <4>3. n + 1 = 1 /\ g[n] = <<>>
        BY <2>5, <3>2
      <4> QED BY <4>1, <4>2, <4>3
    <3>3. CASE n # 0
      <4>1. n \in 1..L /\ (n + 1) - 1 = n /\ n + 1 # 1
        BY <2>1, <2>6, <3>3
      <4>2. h[n + 1] = h[n] \o c[n + 1]
        BY <2>4, <3>1, <4>1
      <4> QED BY <2>5, <3>1, <4>1, <4>2
    <3> QED BY <3>2, <3>3
  <2> DEFINE D == {n \in Nat : n <= L => g[n] \in Seq(S)}
  <2>7. Nat \subseteq D
    <3>1. 0 \in D
      <4>1. <<>> \in Seq(S)
        OBVIOUS
      <4> QED BY <2>5, <4>1
    <3>2. ASSUME NEW n \in Nat, n \in D PROVE n + 1 \in D
      <4> SUFFICES ASSUME n + 1 <= L PROVE g[n + 1] \in Seq(S)
        OBVIOUS
      <4>1. n < L /\ g[n] \in Seq(S) /\ c[n + 1] \in Seq(S)
        BY <2>1, <3>2
      <4> QED BY <2>6, <4>1, ConcatProperties
    <3> HIDE DEF D
    <3> QED BY <3>1, <3>2, NatSetInduction
  <2>8. \A n \in 0..L : g[n] \in Seq(S)
    BY <2>1, <2>7
  <2>9. L \in 1..L
    BY <2>1
  <2>10. Joins(g, c, S)
    BY <2>5, <2>6, <2>8 DEF Joins, L
  <2> QED BY <2>3, <2>5, <2>9, <2>10 DEF L
<1> QED BY <1>1, <1>2

\* ... and so gives a sequence of what they consist of.
LEMMA FlattenType ==
  ASSUME NEW S, NEW c \in Seq(Seq(S))
  PROVE  FlattenSeq(c) \in Seq(S)
<1>1. PICK f : Joins(f, c, S) /\ FlattenSeq(c) = f[Len(c)]
  BY FlattenJoins
<1>2. Len(c) \in 0..Len(c)
  OBVIOUS
<1> QED BY <1>1, <1>2 DEF Joins

\* No chunks hold nothing.
LEMMA FlattenEmpty == FlattenSeq(<<>>) = <<>>
  BY DEF FlattenSeq

\* The chunks end with one more, ...
LEMMA FlattenAppend ==
  ASSUME NEW S, NEW c \in Seq(Seq(S)), NEW x \in Seq(S)
  PROVE  FlattenSeq(Append(c, x)) = FlattenSeq(c) \o x
<1> DEFINE L == Len(c)
           d == Append(c, x)
<1>1. L \in Nat /\ d \in Seq(Seq(S)) /\ Len(d) = L + 1 /\ d[L + 1] = x /\ \A i \in 1..L : d[i] = c[i]
  OBVIOUS
<1> HIDE DEF d
<1>2. PICK f : Joins(f, c, S) /\ FlattenSeq(c) = f[Len(c)]
  BY FlattenJoins
<1>3. PICK g : Joins(g, d, S) /\ FlattenSeq(d) = g[Len(d)]
  BY <1>1, FlattenJoins
<1>4. /\ f[0] = <<>> /\ \A n \in Nat : n < L => f[n + 1] = f[n] \o c[n + 1]
      /\ g[0] = <<>> /\ \A n \in Nat : n < L + 1 => g[n + 1] = g[n] \o d[n + 1]
  BY <1>1, <1>2, <1>3 DEF Joins
<1> DEFINE D == {n \in Nat : n <= L => g[n] = f[n]}
<1>5. Nat \subseteq D
  <2>1. 0 \in D
    BY <1>4
  <2>2. ASSUME NEW n \in Nat, n \in D PROVE n + 1 \in D
    <3> SUFFICES ASSUME n + 1 <= L PROVE g[n + 1] = f[n + 1]
      OBVIOUS
    <3>1. n < L /\ n < L + 1 /\ n + 1 \in 1..L /\ g[n] = f[n]
      BY <1>1, <2>2
    <3> QED BY <1>1, <1>4, <3>1
  <2> HIDE DEF D
  <2> QED BY <2>1, <2>2, NatSetInduction
<1>6. g[L] = f[L]
  BY <1>1, <1>5
<1>7. g[L + 1] = g[L] \o x
  <2>1. L < L + 1
    BY <1>1
  <2> QED BY <1>1, <1>4, <2>1
<1> QED BY <1>1, <1>2, <1>3, <1>6, <1>7 DEF d

\* ... and begin with the first.
LEMMA FlattenTail ==
  ASSUME NEW S, NEW c \in Seq(Seq(S)), c # <<>>
  PROVE  /\ FlattenSeq(c) = Head(c) \o FlattenSeq(Tail(c))
         /\ Head(c) \in Seq(S) /\ Tail(c) \in Seq(Seq(S)) /\ FlattenSeq(Tail(c)) \in Seq(S)
<1> DEFINE L == Len(c)
           d == Tail(c)
           h == Head(c)
<1>1. /\ L \in Nat \ {0} /\ h \in Seq(S) /\ d \in Seq(Seq(S)) /\ Len(d) = L - 1 /\ h = c[1]
      /\ \A i \in 1..L : c[i] \in Seq(S)
      /\ \A i \in 1..L-1 : d[i] = c[i + 1]
  BY FirstOf
<1> HIDE DEF d, h
<1>2. PICK f : Joins(f, c, S) /\ FlattenSeq(c) = f[Len(c)]
  BY FlattenJoins
<1>3. PICK g : Joins(g, d, S) /\ FlattenSeq(d) = g[Len(d)]
  BY <1>1, FlattenJoins
<1>4. /\ f[0] = <<>> /\ \A n \in Nat : n < L => f[n + 1] = f[n] \o c[n + 1]
      /\ g[0] = <<>> /\ \A n \in Nat : n < L - 1 => g[n + 1] = g[n] \o d[n + 1]
      /\ \A n \in 0..L-1 : g[n] \in Seq(S)
  BY <1>1, <1>2, <1>3 DEF Joins
<1> DEFINE hg(n) == h \o g[n]
           D == {n \in Nat : 1 <= n /\ n <= L => f[n] = hg(n - 1)}
<1> HIDE DEF hg, L
<1>5. Nat \subseteq D
  <2>1. 0 \in D
    OBVIOUS
  <2>2. ASSUME NEW n \in Nat, n \in D PROVE n + 1 \in D
    <3>1. (n + 1) - 1 = n
      OBVIOUS
    <3> SUFFICES ASSUME n + 1 <= L PROVE f[n + 1] = hg(n)
      BY <3>1
    <3>2. n < L /\ n + 1 \in 1..L /\ f[n + 1] = f[n] \o c[n + 1] /\ c[n + 1] \in Seq(S)
      <4>1. n < L /\ n + 1 \in 1..L
        BY <1>1
      <4>2. c[n + 1] \in Seq(S)
        BY <1>1, <4>1
      <4>3. f[n + 1] = f[n] \o c[n + 1]
        BY <1>4, <4>1, Zenon
      <4> QED BY <4>1, <4>2, <4>3
    <3>3. CASE n = 0
      <4>1. f[n] = <<>> /\ g[n] = <<>> /\ c[n + 1] = h
        BY <1>1, <1>4, <3>3
      <4>2. <<>> \o h = h /\ h \o <<>> = h
        BY <1>1, ConcatEmptySeq
      <4> QED BY <3>2, <4>1, <4>2 DEF hg
    <3>4. CASE n # 0
      <4> DEFINE k == n - 1
      <4>1. k \in Nat /\ k < L - 1 /\ k + 1 = n /\ n \in 1..L-1 /\ k \in 0..L-1
        BY <1>1, <3>2, <3>4
      <4>2. f[n] = hg(k)
        BY <1>1, <2>2, <3>2, <3>4, <4>1
      <4> HIDE DEF k
      <4>3. g[k + 1] = g[k] \o d[k + 1] /\ g[k] \in Seq(S)
        BY <1>4, <4>1
      <4>4. g[n] = g[k] \o c[n + 1]
        BY <1>1, <4>1, <4>3
      <4>5. ASSUME NEW x \in Seq(S), NEW y \in Seq(S) PROVE (h \o x) \o y = h \o (x \o y)
        <5>1. h \in Seq(S) /\ x \in Seq(S) /\ y \in Seq(S)
          BY <1>1
        <5>2. Associates(h, x, y)
          BY <5>1, AllJoined, Zenon
        <5> QED BY <5>2, Zenon DEF Associates
      <4>6. (h \o g[k]) \o c[n + 1] = h \o (g[k] \o c[n + 1])
        BY <3>2, <4>3, <4>5
      <4> QED BY <3>2, <4>2, <4>4, <4>6 DEF hg
    <3> QED BY <3>3, <3>4
  <2> HIDE DEF D
  <2> QED BY <2>1, <2>2, NatSetInduction
<1>7. f[L] = h \o g[L - 1]
  <2>1. L \in D /\ 1 <= L /\ L <= L
    BY <1>1, <1>5
  <2> QED BY <2>1 DEF D, hg
<1>8. FlattenSeq(d) \in Seq(S)
  BY <1>1, FlattenType
<1> QED BY <1>1, <1>2, <1>3, <1>7, <1>8 DEF d, h, L
----------------------------------------------------------------------------
(* Which steps change what. *)

PeerChanges ==
    \/ UNCHANGED <<sent, inbound, inputClosed>>
    \/ PeerWrites \/ PeerCloses \/ TakeRequest \/ JsonReadsChunk \/ RawReadsChunk
OutputChanges ==
    \/ UNCHANGED <<outputs, outputClosed>>
    \/ Prompt \/ (\E h \in Handles : TellMessage(h)) \/ (\E h \in Handles : TellEnd(h))
    \/ SendText \/ SendBackground \/ SendNothingToAssign \/ StartMode \/ EndMode \/ PeerHangsUp
    \/ CommandWrites
PhaseChanges ==
    \/ UNCHANGED <<pc, assigning, pending>>
    \/ Prompt \/ TakeRequest \/ TakeNoRequest \/ SendText \/ AssignVariable \/ SendBackground
    \/ SendNothingToAssign \/ EndResponses \/ StartMode \/ EnterMode \/ EndMode \/ CommandEnds
    \/ RequestsEnd
ModeChanges ==
    \/ UNCHANGED <<buffer, held, pipe, reader, emitted, consumed, lost>>
    \/ TakeRequest \/ EnterMode \/ JsonReadsChunk \/ JsonParsesValue \/ JsonParserEnds
    \/ RawReadsChunk \/ CommandReads \/ CommandDropsInput \/ CommandWrites \/ CommandEnds
AnswerChanges ==
    \/ UNCHANGED <<evaluated, responses>>
    \/ TakeRequest \/ SendText \/ SendBackground \/ StartMode
NameChanges ==
    \/ UNCHANGED <<variables, setOutside, calls, replying>>
    \/ AssignVariable \/ SetVariable \/ QueryVariable \/ ReplyTaken
StreamChanges ==
    \/ UNCHANGED <<streams, nextHandle>>
    \/ (\E h \in Handles : TellMessage(h)) \/ (\E h \in Handles : TellEnd(h)) \/ SendBackground
    \/ (\E h \in Handles : StreamProduces(h)) \/ (\E h \in Handles : StreamCloses(h))

\* The steps, one by one.
LEMMA NextCases ==
  Next =>
    \/ Prompt \/ (\E h \in Handles : TellMessage(h)) \/ (\E h \in Handles : TellEnd(h))
    \/ TakeRequest \/ TakeNoRequest \/ SendText \/ AssignVariable \/ SendBackground
    \/ SendNothingToAssign \/ EndResponses \/ StartMode \/ EnterMode \/ JsonReadsChunk
    \/ JsonParsesValue \/ JsonParserEnds \/ RawReadsChunk \/ EndMode \/ PeerWrites \/ PeerCloses
    \/ PeerTakes \/ PeerHangsUp \/ CommandReads \/ CommandDropsInput \/ CommandWrites
    \/ CommandEnds \/ (\E h \in Handles : StreamProduces(h))
    \/ (\E h \in Handles : StreamCloses(h)) \/ SetVariable \/ QueryVariable \/ ReplyTaken
    \/ RequestsEnd
  BY DEF Next, SessionStep, BackgroundStep, ModeStep

\* A step changes only what its action names.
LEMMA WhatChanges ==
  Next => /\ UNCHANGED script
          /\ PeerChanges
          /\ OutputChanges
          /\ PhaseChanges
          /\ ModeChanges
          /\ AnswerChanges
          /\ NameChanges
          /\ StreamChanges
<1> SUFFICES ASSUME Next PROVE /\ UNCHANGED script
                               /\ PeerChanges
                               /\ OutputChanges
                               /\ PhaseChanges
                               /\ ModeChanges
                               /\ AnswerChanges
                               /\ NameChanges
                               /\ StreamChanges
  OBVIOUS
<1>1. CASE Prompt
  BY <1>1 DEF Prompt, Notify, Output, peerVars, outVars, modeVars, pastVars, evalVars, nameVars,
  streamVars, PeerChanges, OutputChanges, PhaseChanges, ModeChanges, AnswerChanges, NameChanges,
  StreamChanges
<1>2. CASE \E h \in Handles : TellMessage(h)
  BY <1>2 DEF TellMessage, Notify, Output, peerVars, outVars, modeVars, pastVars, evalVars,
  nameVars, streamVars, PeerChanges, OutputChanges, PhaseChanges, ModeChanges, AnswerChanges,
  NameChanges, StreamChanges
<1>3. CASE \E h \in Handles : TellEnd(h)
  BY <1>3 DEF TellEnd, Notify, Output, peerVars, outVars, modeVars, pastVars, evalVars, nameVars,
  streamVars, PeerChanges, OutputChanges, PhaseChanges, ModeChanges, AnswerChanges, NameChanges,
  StreamChanges
<1>4. CASE TakeRequest
  BY <1>4 DEF TakeRequest, peerVars, outVars, modeVars, pastVars, evalVars, nameVars, streamVars,
  PeerChanges, OutputChanges, PhaseChanges, ModeChanges, AnswerChanges, NameChanges, StreamChanges
<1>5. CASE TakeNoRequest
  BY <1>5 DEF TakeNoRequest, peerVars, outVars, modeVars, pastVars, evalVars, nameVars,
  streamVars, PeerChanges, OutputChanges, PhaseChanges, ModeChanges, AnswerChanges, NameChanges,
  StreamChanges
<1>6. CASE SendText
  BY <1>6 DEF SendText, NotifyOrEnd, Output, peerVars, outVars, modeVars, pastVars, evalVars,
  nameVars, streamVars, PeerChanges, OutputChanges, PhaseChanges, ModeChanges, AnswerChanges,
  NameChanges, StreamChanges
<1>7. CASE AssignVariable
  BY <1>7 DEF AssignVariable, peerVars, outVars, modeVars, pastVars, evalVars, nameVars,
  streamVars, PeerChanges, OutputChanges, PhaseChanges, ModeChanges, AnswerChanges, NameChanges,
  StreamChanges
<1>8. CASE SendBackground
  BY <1>8 DEF SendBackground, NotifyOrEnd, Output, peerVars, outVars, modeVars, pastVars,
  evalVars, nameVars, streamVars, PeerChanges, OutputChanges, PhaseChanges, ModeChanges,
  AnswerChanges, NameChanges, StreamChanges
<1>9. CASE SendNothingToAssign
  BY <1>9 DEF SendNothingToAssign, NotifyOrEnd, Output, peerVars, outVars, modeVars, pastVars,
  evalVars, nameVars, streamVars, PeerChanges, OutputChanges, PhaseChanges, ModeChanges,
  AnswerChanges, NameChanges, StreamChanges
<1>10. CASE EndResponses
  BY <1>10 DEF EndResponses, peerVars, outVars, modeVars, pastVars, evalVars, nameVars,
  streamVars, PeerChanges, OutputChanges, PhaseChanges, ModeChanges, AnswerChanges, NameChanges,
  StreamChanges
<1>11. CASE StartMode
  BY <1>11 DEF StartMode, NotifyOrEnd, Output, peerVars, outVars, modeVars, pastVars, evalVars,
  nameVars, streamVars, PeerChanges, OutputChanges, PhaseChanges, ModeChanges, AnswerChanges,
  NameChanges, StreamChanges
<1>12. CASE EnterMode
  BY <1>12 DEF EnterMode, peerVars, outVars, modeVars, pastVars, evalVars, nameVars, streamVars,
  PeerChanges, OutputChanges, PhaseChanges, ModeChanges, AnswerChanges, NameChanges, StreamChanges
<1>13. CASE JsonReadsChunk
  BY <1>13 DEF JsonReadsChunk, peerVars, outVars, modeVars, pastVars, evalVars, nameVars,
  streamVars, PeerChanges, OutputChanges, PhaseChanges, ModeChanges, AnswerChanges, NameChanges,
  StreamChanges
<1>14. CASE JsonParsesValue
  BY <1>14 DEF JsonParsesValue, peerVars, outVars, modeVars, pastVars, evalVars, nameVars,
  streamVars, PeerChanges, OutputChanges, PhaseChanges, ModeChanges, AnswerChanges, NameChanges,
  StreamChanges
<1>15. CASE JsonParserEnds
  BY <1>15 DEF JsonParserEnds, peerVars, outVars, modeVars, pastVars, evalVars, nameVars,
  streamVars, PeerChanges, OutputChanges, PhaseChanges, ModeChanges, AnswerChanges, NameChanges,
  StreamChanges
<1>16. CASE RawReadsChunk
  BY <1>16 DEF RawReadsChunk, peerVars, outVars, modeVars, pastVars, evalVars, nameVars,
  streamVars, PeerChanges, OutputChanges, PhaseChanges, ModeChanges, AnswerChanges, NameChanges,
  StreamChanges
<1>17. CASE EndMode
  BY <1>17 DEF EndMode, NotifyOrEnd, Output, peerVars, outVars, modeVars, pastVars, evalVars,
  nameVars, streamVars, PeerChanges, OutputChanges, PhaseChanges, ModeChanges, AnswerChanges,
  NameChanges, StreamChanges
<1>18. CASE PeerWrites
  BY <1>18 DEF PeerWrites, peerVars, outVars, modeVars, pastVars, evalVars, nameVars, streamVars,
  PeerChanges, OutputChanges, PhaseChanges, ModeChanges, AnswerChanges, NameChanges, StreamChanges
<1>19. CASE PeerCloses
  BY <1>19 DEF PeerCloses, peerVars, outVars, modeVars, pastVars, evalVars, nameVars, streamVars,
  PeerChanges, OutputChanges, PhaseChanges, ModeChanges, AnswerChanges, NameChanges, StreamChanges
<1>20. CASE PeerTakes
  BY <1>20 DEF PeerTakes, peerVars, outVars, modeVars, pastVars, evalVars, nameVars, streamVars,
  PeerChanges, OutputChanges, PhaseChanges, ModeChanges, AnswerChanges, NameChanges, StreamChanges
<1>21. CASE PeerHangsUp
  BY <1>21 DEF PeerHangsUp, peerVars, outVars, modeVars, pastVars, evalVars, nameVars,
  streamVars, PeerChanges, OutputChanges, PhaseChanges, ModeChanges, AnswerChanges, NameChanges,
  StreamChanges
<1>22. CASE CommandReads
  BY <1>22 DEF CommandReads, peerVars, outVars, modeVars, pastVars, evalVars, nameVars,
  streamVars, PeerChanges, OutputChanges, PhaseChanges, ModeChanges, AnswerChanges, NameChanges,
  StreamChanges
<1>23. CASE CommandDropsInput
  BY <1>23 DEF CommandDropsInput, peerVars, outVars, modeVars, pastVars, evalVars, nameVars,
  streamVars, PeerChanges, OutputChanges, PhaseChanges, ModeChanges, AnswerChanges, NameChanges,
  StreamChanges
<1>24. CASE CommandWrites
  BY <1>24 DEF CommandWrites, Output, peerVars, outVars, modeVars, pastVars, evalVars, nameVars,
  streamVars, PeerChanges, OutputChanges, PhaseChanges, ModeChanges, AnswerChanges, NameChanges,
  StreamChanges
<1>25. CASE CommandEnds
  BY <1>25 DEF CommandEnds, peerVars, outVars, modeVars, pastVars, evalVars, nameVars,
  streamVars, PeerChanges, OutputChanges, PhaseChanges, ModeChanges, AnswerChanges, NameChanges,
  StreamChanges
<1>26. CASE \E h \in Handles : StreamProduces(h)
  BY <1>26 DEF StreamProduces, peerVars, outVars, modeVars, pastVars, evalVars, nameVars,
  streamVars, PeerChanges, OutputChanges, PhaseChanges, ModeChanges, AnswerChanges, NameChanges,
  StreamChanges
<1>27. CASE \E h \in Handles : StreamCloses(h)
  BY <1>27 DEF StreamCloses, peerVars, outVars, modeVars, pastVars, evalVars, nameVars,
  streamVars, PeerChanges, OutputChanges, PhaseChanges, ModeChanges, AnswerChanges, NameChanges,
  StreamChanges
<1>28. CASE SetVariable
  BY <1>28 DEF SetVariable, peerVars, outVars, modeVars, pastVars, evalVars, nameVars,
  streamVars, PeerChanges, OutputChanges, PhaseChanges, ModeChanges, AnswerChanges, NameChanges,
  StreamChanges
<1>29. CASE QueryVariable
  BY <1>29 DEF QueryVariable, peerVars, outVars, modeVars, pastVars, evalVars, nameVars,
  streamVars, PeerChanges, OutputChanges, PhaseChanges, ModeChanges, AnswerChanges, NameChanges,
  StreamChanges
<1>30. CASE ReplyTaken
  BY <1>30 DEF ReplyTaken, peerVars, outVars, modeVars, pastVars, evalVars, nameVars, streamVars,
  PeerChanges, OutputChanges, PhaseChanges, ModeChanges, AnswerChanges, NameChanges, StreamChanges
<1>31. CASE RequestsEnd
  BY <1>31 DEF RequestsEnd, peerVars, outVars, modeVars, pastVars, evalVars, nameVars,
  streamVars, PeerChanges, OutputChanges, PhaseChanges, ModeChanges, AnswerChanges, NameChanges,
  StreamChanges
<1> QED BY NextCases, <1>1, <1>2, <1>3, <1>4, <1>5, <1>6, <1>7, <1>8, <1>9, <1>10, <1>11, <1>12, <1>13, <1>14, <1>15,
  <1>16, <1>17, <1>18, <1>19, <1>20, <1>21, <1>22, <1>23, <1>24, <1>25, <1>26, <1>27, <1>28,
  <1>29, <1>30, <1>31

----------------------------------------------------------------------------
(* The types. *)

\* What the peer may write consists of items.
LEMMA ScriptOK ==
  ASSUME PeerOK
  PROVE  /\ IsSeq(script) /\ Len(script) \in Nat /\ Items = DOMAIN script /\ sent \in Nat
         /\ \A n \in Items : ItemOK(script[n])
<1>1. IsSeq(script) /\ \A item \in ToSet(script) : ItemOK(item)
  BY SessionAssumption DEF PeerOK, IsSeq
<1>2. Len(script) \in Nat /\ DOMAIN script = 1..Len(script)
  BY <1>1, SeqOK
<1>3. \A n \in DOMAIN script : script[n] \in ToSet(script)
  BY DEF ToSet
<1> QED BY <1>1, <1>2, <1>3 DEF Items, PeerOK

\* The peer's side of the input stays of its kind, ...
LEMMA PeerStep ==
  ASSUME Typed, Next
  PROVE  PeerOK' /\ Items' = Items
<1>1. script' = script /\ PeerChanges
  BY WhatChanges
<1>2. Items' = Items
  BY <1>1 DEF Items
<1>3. outputClosed' \in BOOLEAN
  <2>1. OutputChanges /\ outputClosed \in BOOLEAN
    BY WhatChanges DEF Typed, PeerOK
  <2> QED BY <2>1 DEF OutputChanges, Prompt, TellMessage, TellEnd, SendText, SendBackground,
        SendNothingToAssign, StartMode, EndMode, PeerHangsUp, CommandWrites, Notify, NotifyOrEnd,
        Output, outVars
<1> DEFINE C == Seq(Seq(Items) \ {<<>>})
<1>4. inbound \in C /\ inputClosed \in BOOLEAN /\ sent \in 0..Len(script) /\ Len(script) \in Nat
  BY ScriptOK DEF Typed, PeerOK
<1>5. inbound # <<>> => Tail(inbound) \in C
  BY <1>4, FirstChunk
<1>6. inbound' \in C /\ inputClosed' \in BOOLEAN /\ sent' \in 0..Len(script)
  <2>1. CASE UNCHANGED <<sent, inbound, inputClosed>>
    BY <2>1, <1>4
  <2>2. CASE PeerWrites
    <3>1. PICK upTo \in (sent + 1)..Len(script) :
              /\ inbound' = Append(inbound, [i \in 1..(upTo - sent) |-> sent + i])
              /\ sent' = upTo
      BY <2>2 DEF PeerWrites
    <3> DEFINE new == [i \in 1..(upTo - sent) |-> sent + i]
    <3>2. upTo - sent \in Nat \ {0} /\ \A i \in 1..(upTo - sent) : sent + i \in Items
      BY <1>4 DEF Items
    <3>3. new \in Seq(Items)
      BY <3>2
    <3>4. Len(new) = upTo - sent
      BY <3>2, <3>3
    <3>5. new \in Seq(Items) \ {<<>>}
      BY <3>2, <3>3, <3>4
    <3> HIDE DEF new
    <3>6. Append(inbound, new) \in C
      BY <3>5, <1>4
    <3>7. inbound' = Append(inbound, new)
      BY <3>1 DEF new
    <3> QED BY <3>1, <3>6, <3>7, <1>4, <2>2 DEF PeerWrites
  <2>3. CASE PeerCloses
    BY <2>3, <1>4 DEF PeerCloses
  <2>4. CASE TakeRequest
    <3>1. inbound' = inbound \/ (inbound # <<>> /\ inbound' = Tail(inbound))
      BY <2>4 DEF TakeRequest, InboundAfterChunk, HasInput
    <3> QED BY <3>1, <2>4, <1>4, <1>5 DEF TakeRequest
  <2>5. CASE JsonReadsChunk
    BY <2>5, <1>4, <1>5 DEF JsonReadsChunk
  <2>6. CASE RawReadsChunk
    BY <2>6, <1>4, <1>5 DEF RawReadsChunk
  <2> QED BY <1>1, <2>1, <2>2, <2>3, <2>4, <2>5, <2>6 DEF PeerChanges
<1> QED BY <1>1, <1>2, <1>3, <1>6 DEF PeerOK, Typed

\* The next chunk of the input is not empty, and what is left of it and of the input is input.
LEMMA ChunkOK ==
  ASSUME Typed, HasInput
  PROVE  /\ NextChunk \in Seq(Items) /\ NextChunk # <<>>
         /\ Head(NextChunk) \in Items /\ Tail(NextChunk) \in Seq(Items)
         /\ Len(NextChunk) \in Nat \ {0} /\ Len(Tail(NextChunk)) = Len(NextChunk) - 1
<1>1. inbound \in Seq(Seq(Items) \ {<<>>}) /\ buffer \in Seq(Items)
  BY DEF Typed, PeerOK, ModeOK
<1>2. NextChunk \in Seq(Items) /\ NextChunk # <<>>
  BY <1>1, FirstChunk DEF NextChunk, HasInput
<1> QED BY <1>2, FirstOf

\* What is in the pipe, and its first chunk.
LEMMA PipeOK ==
  ASSUME Typed
  PROVE  /\ ToSet(InPipe) \subseteq Items
         /\ ToSet(held) \subseteq Items
         /\ pipe # <<>> => ToSet(Head(pipe)) \subseteq Items /\ Tail(pipe) \in Seq(Seq(Items))
         /\ held # <<>> => Head(held) \in Items /\ Tail(held) \in Seq(Items)
<1>1. pipe \in Seq(Seq(Items)) /\ held \in Seq(Items)
  BY DEF Typed, ModeOK
<1>2. InPipe \in Seq(Items)
  BY <1>1, FlattenType DEF InPipe
<1>3. ToSet(InPipe) \subseteq Items
  BY <1>2, ElementsOf
<1>4. pipe # <<>> => Head(pipe) \in Seq(Items) /\ Tail(pipe) \in Seq(Seq(Items))
  BY <1>1, FirstOf
<1> QED BY <1>1, <1>3, <1>4, ElementsOf, FirstOf

\* ... and what a command with the socket has, ...
LEMMA ModeStepOK ==
  ASSUME Typed, Next
  PROVE  ModeOK'
<1>1. Items' = Items /\ ModeChanges
  BY WhatChanges, PeerStep
<1>2. /\ pipe \in Seq(Seq(Items)) /\ buffer \in Seq(Items) /\ held \in Seq(Items)
      /\ reader \in [accepts : BOOLEAN, relaying : BOOLEAN, parsing : BOOLEAN]
      /\ emitted \in 0..MaxEmitted /\ consumed \cup lost \subseteq Items
      /\ pc # "json" => held = <<>> \/ pc = "ended"
      /\ inbound \in Seq(Seq(Items) \ {<<>>}) /\ MaxEmitted \in Nat
  BY SessionAssumption DEF Typed, ModeOK, PeerOK
<1>3. inbound # <<>> => Head(inbound) \in Seq(Items) /\ ToSet(Head(inbound)) \subseteq Items
  BY <1>2, FirstChunk, ElementsOf
<1>4. /\ pipe' \in Seq(Seq(Items)) /\ buffer' \in Seq(Items) /\ held' \in Seq(Items)
      /\ reader' \in [accepts : BOOLEAN, relaying : BOOLEAN, parsing : BOOLEAN]
      /\ emitted' \in 0..MaxEmitted /\ consumed' \cup lost' \subseteq Items
  <2>1. CASE UNCHANGED <<buffer, held, pipe, reader, emitted, consumed, lost>>
    BY <2>1, <1>2
  <2>2. CASE TakeRequest
    <3>1. Tail(NextChunk) \in Seq(Items)
      BY <2>2, ChunkOK DEF TakeRequest
    <3> QED BY <2>2, <3>1, <1>2 DEF TakeRequest, LeftOver, modeVars
  <2>3. CASE EnterMode
    <3>1. <<>> \in Seq(Items) /\ <<>> \in Seq(Seq(Items)) /\ <<buffer>> \in Seq(Seq(Items))
      BY <1>2
    <3>2. pipe' \in {pipe, <<>>, <<buffer>>} /\ buffer' = <<>> /\ held' \in {held, buffer}
      BY <2>3 DEF EnterMode
    <3>3. reader' \in [accepts : BOOLEAN, relaying : BOOLEAN, parsing : BOOLEAN]
      BY <2>3 DEF EnterMode
    <3>4. emitted' = 0 /\ consumed' = consumed /\ lost' = lost
      BY <2>3 DEF EnterMode, pastVars
    <3>5. pipe' \in Seq(Seq(Items)) /\ held' \in Seq(Items) /\ buffer' \in Seq(Items)
      BY <3>1, <3>2, <1>2
    <3> QED BY <3>3, <3>4, <3>5, <1>2
  <2>4. CASE JsonReadsChunk
    BY <2>4, <1>2, <1>3 DEF JsonReadsChunk, pastVars
  <2>5. CASE JsonParsesValue
    <3>1. Head(held) \in Items /\ Tail(held) \in Seq(Items) /\ ToSet(held) \subseteq Items
      BY <2>5, PipeOK DEF JsonParsesValue
    <3>2. <<Head(held)>> \in Seq(Items) /\ <<>> \in Seq(Items)
      BY <3>1
    <3>3. Append(pipe, <<Head(held)>>) \in Seq(Seq(Items))
      BY <3>2, <1>2
    <3>4. CASE reader.accepts
      BY <3>1, <3>3, <3>4, <2>5, <1>2 DEF JsonParsesValue
    <3>5. CASE ~reader.accepts
      <4>1. reader' \in [accepts : BOOLEAN, relaying : BOOLEAN, parsing : BOOLEAN]
        BY <2>5, <3>5, <1>2 DEF JsonParsesValue
      <4>2. held' \in {Tail(held), <<>>} /\ pipe' = pipe
        BY <2>5, <3>5 DEF JsonParsesValue
      <4>3. lost' \subseteq Items
        BY <2>5, <3>5, <3>1, <1>2 DEF JsonParsesValue
      <4> QED BY <4>1, <4>2, <4>3, <2>5, <3>1, <3>2, <1>2 DEF JsonParsesValue
    <3> QED BY <3>4, <3>5
  <2>6. CASE JsonParserEnds
    <3>1. reader' \in [accepts : BOOLEAN, relaying : BOOLEAN, parsing : BOOLEAN]
      BY <2>6, <1>2 DEF JsonParserEnds
    <3>2. held' \in Seq(Items)
      BY <2>6 DEF JsonParserEnds
    <3> QED BY <2>6, <3>1, <3>2, <1>2, PipeOK DEF JsonParserEnds
  <2>7. CASE RawReadsChunk
    <3>1. reader' \in [accepts : BOOLEAN, relaying : BOOLEAN, parsing : BOOLEAN]
      BY <2>7, <1>2 DEF RawReadsChunk
    <3>2. <<Head(inbound)>> \in Seq(Seq(Items))
      BY <2>7, <1>3 DEF RawReadsChunk
    <3>3. pipe' \in {pipe, <<Head(inbound)>>} /\ lost' \subseteq Items
      BY <2>7, <1>2, <1>3 DEF RawReadsChunk
    <3> QED BY <2>7, <3>1, <3>2, <3>3, <1>2 DEF RawReadsChunk
  <2>8. CASE CommandReads
    BY <2>8, <1>2, PipeOK DEF CommandReads
  <2>9. CASE CommandDropsInput
    <3>1. reader' \in [accepts : BOOLEAN, relaying : BOOLEAN, parsing : BOOLEAN]
      <4> DEFINE few == Len(pipe) < 2
      <4>1. reader' = [reader EXCEPT !.accepts = FALSE, !.relaying = few]
        BY <2>9 DEF CommandDropsInput
      <4>2. few \in BOOLEAN
        <5>1. Len(pipe) \in Nat
          BY <1>2
        <5> QED BY <5>1
      <4> HIDE DEF few
      <4> QED BY <4>1, <4>2, <1>2
    <3>2. pipe' \in Seq(Seq(Items)) /\ lost' \subseteq Items
      BY <2>9, <1>2, PipeOK DEF CommandDropsInput
    <3> QED BY <2>9, <3>1, <3>2, <1>2 DEF CommandDropsInput
  <2>10. CASE CommandWrites
    BY <2>10, <1>2 DEF CommandWrites, pastVars
  <2>11. CASE CommandEnds
    <3>1. pipe' \in Seq(Seq(Items)) /\ held' \in Seq(Items) /\ lost' \subseteq Items
      BY <2>11, <1>2, PipeOK DEF CommandEnds
    <3> QED BY <2>11, <3>1, <1>2 DEF CommandEnds
  <2> QED BY <1>1, <2>1, <2>2, <2>3, <2>4, <2>5, <2>6, <2>7, <2>8, <2>9, <2>10, <2>11
        DEF ModeChanges
<1>5. pc' # "json" => held' = <<>> \/ pc' = "ended"
  <2>1. held' # held => pc' = "json" \/ held' = <<>>
    BY <1>1 DEF ModeChanges, TakeRequest, EnterMode, JsonReadsChunk, JsonParsesValue, JsonParserEnds,
      RawReadsChunk, CommandReads, CommandDropsInput, CommandWrites, CommandEnds, modeVars
  <2>2. pc = "json" => pc' = "json" \/ pc' = "ended" \/ held' = <<>>
    BY WhatChanges DEF PhaseChanges, Prompt, TakeRequest, TakeNoRequest, SendText, AssignVariable,
      SendBackground, SendNothingToAssign, EndResponses, StartMode, EnterMode, EndMode, CommandEnds,
      RequestsEnd, Responds, ReadsInput
  <2>3. pc = "ended" => pc' = "ended"
    BY WhatChanges DEF PhaseChanges, Prompt, TakeRequest, TakeNoRequest, SendText, AssignVariable,
      SendBackground, SendNothingToAssign, EndResponses, StartMode, EnterMode, EndMode, CommandEnds,
      RequestsEnd, Responds, ReadsInput, HasSocket
  <2> QED BY <2>1, <2>2, <2>3, <1>2
<1> QED BY <1>1, <1>4, <1>5 DEF ModeOK

\* ... and the streams in the background, ...
LEMMA StreamsStepOK ==
  ASSUME Typed, Next
  PROVE  StreamsOK'
<1>1. StreamChanges
  BY WhatChanges
<1>2. /\ nextHandle \in Nat /\ Handles \subseteq 0..nextHandle-1 /\ MaxStreamMessages \in Nat
      /\ \A h \in Handles :
          /\ streams[h] \in [produced : Nat, told : Nat, closed : BOOLEAN]
          /\ streams[h].told <= streams[h].produced /\ streams[h].produced <= MaxStreamMessages
  BY SessionAssumption DEF Typed, StreamsOK
<1>3. CASE UNCHANGED <<streams, nextHandle>>
  BY <1>2, <1>3 DEF StreamsOK, Handles
<1>4. CASE SendBackground
  BY <1>2, <1>4 DEF StreamsOK, Handles, SendBackground
<1>5. ASSUME NEW x \in Handles,
             TellMessage(x) \/ TellEnd(x) \/ StreamProduces(x) \/ StreamCloses(x)
      PROVE  StreamsOK'
  <2>1. nextHandle' = nextHandle
    BY <1>5 DEF TellMessage, TellEnd, StreamProduces, StreamCloses, streamVars
  <2>2. DOMAIN streams' \subseteq DOMAIN streams
    BY <1>5 DEF TellMessage, TellEnd, StreamProduces, StreamCloses, Handles
  <2>3. ASSUME NEW h \in DOMAIN streams'
        PROVE  \/ streams'[h] = streams[h]
               \/ h = x /\ streams[x].told < streams[x].produced
                   /\ streams'[h] = [streams[x] EXCEPT !.told = @ + 1]
               \/ h = x /\ streams[x].produced < MaxStreamMessages
                   /\ streams'[h] = [streams[x] EXCEPT !.produced = @ + 1]
               \/ h = x /\ streams'[h] = [streams[x] EXCEPT !.closed = TRUE]
    <3>1. CASE TellMessage(x)
      BY <3>1, <2>3 DEF TellMessage, HasMessage
    <3>2. CASE TellEnd(x)
      BY <3>2, <2>3 DEF TellEnd
    <3>3. CASE StreamProduces(x)
      BY <3>3, <2>3 DEF StreamProduces
    <3>4. CASE StreamCloses(x)
      BY <3>4, <2>3 DEF StreamCloses
    <3> QED BY <1>5, <3>1, <3>2, <3>3, <3>4
  <2>4. ASSUME NEW h \in DOMAIN streams'
        PROVE  /\ streams'[h] \in [produced : Nat, told : Nat, closed : BOOLEAN]
               /\ streams'[h].told <= streams'[h].produced
               /\ streams'[h].produced <= MaxStreamMessages
    <3>1. h \in Handles /\ streams[h] \in [produced : Nat, told : Nat, closed : BOOLEAN]
      BY <1>2, <2>2, <2>4 DEF Handles
    <3>2. /\ streams[h].told <= streams[h].produced /\ streams[h].produced <= MaxStreamMessages
          /\ MaxStreamMessages \in Nat
      BY <1>2, <3>1
    <3>3. CASE streams'[h] = streams[h]
      BY <3>1, <3>2, <3>3
    <3>4. CASE streams[h].told < streams[h].produced /\ streams'[h] = [streams[h] EXCEPT !.told = @ + 1]
      BY <3>1, <3>2, <3>4
    <3>5. CASE /\ streams[h].produced < MaxStreamMessages
               /\ streams'[h] = [streams[h] EXCEPT !.produced = @ + 1]
      BY <3>1, <3>2, <3>5
    <3>6. CASE streams'[h] = [streams[h] EXCEPT !.closed = TRUE]
      BY <3>1, <3>2, <3>6
    <3> QED BY <2>3, <3>3, <3>4, <3>5, <3>6
  <2> QED BY <1>2, <2>1, <2>2, <2>4 DEF StreamsOK, Handles
<1> QED BY <1>1, <1>3, <1>4, <1>5 DEF StreamChanges

\* ... and what the session does, ...
LEMMA PhaseStepOK ==
  ASSUME Typed, Next
  PROVE  PhaseOK'
<1>1. PhaseChanges
  BY WhatChanges
<1>2. PhaseOK /\ \A k \in DOMAIN responses : ResponseOK(responses[k])
  BY DEF Typed, EvaluatedOK, AnswerOK
<1>3. CASE UNCHANGED <<pc, assigning, pending>>
  BY <1>2, <1>3 DEF PhaseOK
<1>4. CASE TakeRequest
  <2>1. Head(NextChunk) \in Items /\ ItemOK(script[Head(NextChunk)])
    BY <1>4, ChunkOK, ScriptOK DEF TakeRequest, Typed
  <2>2. assigning' \in Variables \cup {None}
    BY <1>4, <2>1 DEF TakeRequest, ItemOK, IsSource
  <2> QED BY <1>2, <1>4, <2>2 DEF PhaseOK, TakeRequest, ReadsInput
<1>5. CASE SendText
  <2>1. pc = "responding" /\ pending = None /\ pc' \in {"responding", "ended"}
    BY <1>5 DEF SendText, Responds, NotifyOrEnd
  <2>2. \/ assigning' = assigning /\ assigning # None
        \/ pending' = pending /\ assigning' \in {assigning, None}
    BY <1>5 DEF SendText, AssigningAfter
  <2> QED BY <1>2, <2>1, <2>2 DEF PhaseOK
<1>6. CASE Prompt \/ TakeNoRequest \/ AssignVariable \/ EndResponses \/ CommandEnds \/ RequestsEnd
  BY <1>2, <1>6 DEF PhaseOK, Prompt, TakeNoRequest, AssignVariable, EndResponses, CommandEnds,
     RequestsEnd, evalVars, Responds, ReadsInput, HasSocket
<1>7. CASE SendBackground \/ SendNothingToAssign \/ StartMode \/ EnterMode \/ EndMode
  BY <1>2, <1>7 DEF PhaseOK, SendBackground, SendNothingToAssign, StartMode, EnterMode, EndMode,
     NotifyOrEnd, Responds, evalVars
<1> QED BY <1>1, <1>3, <1>4, <1>5, <1>6, <1>7 DEF PhaseChanges

\* The result of a request is a sequence of responses.
LEMMA OneResponse ==
  ASSUME NEW response, ResponseOK(response)
  PROVE  AnswerOK(<<response>>)
<1>1. <<response>> \in Seq({response})
  OBVIOUS
<1>2. IsSeq(<<response>>)
  BY <1>1, SeqIs
<1>3. DOMAIN <<response>> = {1} /\ <<response>>[1] = response
  OBVIOUS
<1> QED BY <1>2, <1>3 DEF AnswerOK

\* What is evaluated has responses.
LEMMA AnswerIsOK ==
  ASSUME Typed, NEW item, IsSource(item)
  PROVE  AnswerOK(Evaluated(item))
<1>1. AnswerOK(<<Failure>>)
  BY OneResponse DEF ResponseOK, Failure
<1>2. \A v \in Variables : variables[v] # Undefined => AnswerOK(<<Json(variables[v])>>)
  BY OneResponse DEF Typed, NamesOK, IsValue, ResponseOK, Json
<1>3. CASE item.kind = "Value" /\ IsValue(item.value)
  BY <1>3, OneResponse DEF Evaluated, ResponseOK, Json
<1>4. CASE item.kind = "Variable" /\ item.name \in Variables
  BY <1>1, <1>2, <1>4 DEF Evaluated
<1>5. CASE item.kind = "Command" /\ item.name \in DOMAIN Responses
  <2>1. AnswerOK(Responses[item.name])
    BY <1>5, SessionAssumption DEF AnswerOK, IsSeq, ToSet
  <2> QED BY <1>2, <1>5, <2>1 DEF Evaluated
<1> QED BY <1>3, <1>4, <1>5 DEF IsSource

\* ... and its variables, ...
LEMMA NamesStepOK ==
  ASSUME Typed, Next
  PROVE  NamesOK'
<1>1. NameChanges
  BY WhatChanges
<1>2. NamesOK /\ (pending # None => assigning # None) /\ assigning \in Variables \cup {None}
  BY DEF Typed, PhaseOK
<1>3. MaxOutsideCalls \in Nat /\ \A w \in OutsideValues : w \notin {Undefined, None}
  BY SessionAssumption DEF IsValue
<1>4. CASE UNCHANGED <<variables, setOutside, calls, replying>>
  BY <1>2, <1>4 DEF NamesOK
<1>5. CASE AssignVariable
  BY <1>2, <1>5 DEF NamesOK, AssignVariable
<1>6. CASE SetVariable
  BY <1>2, <1>3, <1>6 DEF NamesOK, SetVariable
<1>7. CASE QueryVariable
  BY <1>2, <1>3, <1>7 DEF NamesOK, QueryVariable
<1>8. CASE ReplyTaken
  BY <1>2, <1>8 DEF NamesOK, ReplyTaken
<1> QED BY <1>1, <1>4, <1>5, <1>6, <1>7, <1>8 DEF NameChanges

\* A request that is taken: the item it is, what is assigned, and its responses.
SourceOf(item) == IF item.kind = "Assign" THEN item.from ELSE item
\* The request that is taken has responses, ...
LEMMA TakenOK ==
  ASSUME Typed, TakeRequest
  PROVE  LET n == Head(NextChunk)
             answer == Evaluated(SourceOf(script[n]))
         IN  /\ n \in Items /\ IsSource(SourceOf(script[n])) /\ AnswerOK(answer)
             /\ responses' = answer
             /\ evaluated' = Append(evaluated, [item |-> n, responses |-> answer])
             /\ assigning' = IF script[n].kind = "Assign" THEN script[n].variable ELSE None
             /\ script[n].kind = "Assign" => script[n].variable \in Variables
<1> DEFINE n == Head(NextChunk)
           answer == Evaluated(SourceOf(script[n]))
<1>1. n \in Items /\ ItemOK(script[n]) /\ script[n].kind # "EndOfValues"
  BY ChunkOK, ScriptOK DEF TakeRequest, Typed
<1>2. IsSource(SourceOf(script[n])) /\ (script[n].kind = "Assign" => script[n].variable \in Variables)
  BY <1>1 DEF ItemOK, IsSource, SourceOf
<1>3. AnswerOK(answer)
  BY <1>2, AnswerIsOK
<1>4. /\ responses' = answer
      /\ evaluated' = Append(evaluated, [item |-> n, responses |-> answer])
      /\ assigning' = IF script[n].kind = "Assign" THEN script[n].variable ELSE None
  BY DEF TakeRequest, SourceOf
<1> QED BY <1>1, <1>2, <1>3, <1>4

\* ... and the requests that were evaluated, ...
LEMMA EvaluatedStepOK ==
  ASSUME Typed, Next
  PROVE  EvaluatedOK'
<1>1. AnswerChanges /\ Items' = Items
  BY WhatChanges, PeerStep
<1>2. EvaluatedOK
  BY DEF Typed
<1>3. CASE UNCHANGED <<evaluated, responses>>
  BY <1>1, <1>2, <1>3 DEF EvaluatedOK
<1>4. CASE TakeRequest
  <2>1. PICK n, answer :
          /\ n \in Items /\ AnswerOK(answer) /\ responses' = answer
          /\ evaluated' = Append(evaluated, [item |-> n, responses |-> answer])
    BY <1>4, TakenOK
  <2> DEFINE e == [item |-> n, responses |-> answer]
  <2>2. IsSeq(evaluated) /\ evaluated' = Append(evaluated, e) /\ e.item \in Items /\ AnswerOK(e.responses)
    BY <2>1, <1>2 DEF EvaluatedOK
  <2> HIDE DEF e
  <2>3. /\ IsSeq(evaluated') /\ Len(evaluated') = Len(evaluated) + 1 /\ evaluated'[Len(evaluated) + 1] = e
        /\ \A i \in 1..Len(evaluated) : evaluated'[i] = evaluated[i]
    BY <2>2, SeqAppend
  <2>4. /\ Len(evaluated) \in Nat /\ DOMAIN evaluated = 1..Len(evaluated)
        /\ DOMAIN evaluated' = 1..Len(evaluated')
    BY <2>2, <2>3, SeqOK
  <2> QED BY <1>1, <1>2, <2>1, <2>2, <2>3, <2>4 DEF EvaluatedOK
<1>5. CASE SendText \/ SendBackground \/ StartMode
  <2>1. evaluated' = evaluated /\ responses # <<>> /\ responses' = Tail(responses)
    BY <1>5 DEF SendText, SendBackground, StartMode, pastVars
  <2>2. IsSeq(responses) /\ \A k \in DOMAIN responses : ResponseOK(responses[k])
    BY <1>2 DEF EvaluatedOK, AnswerOK
  <2>3. /\ IsSeq(responses') /\ Len(responses') = Len(responses) - 1 /\ Len(responses) \in Nat \ {0}
        /\ \A k \in 1..Len(responses)-1 : responses'[k] = responses[k + 1]
    BY <2>1, <2>2, SeqTail
  <2>4. DOMAIN responses = 1..Len(responses) /\ DOMAIN responses' = 1..Len(responses')
    BY <2>2, <2>3, SeqOK
  <2>5. AnswerOK(responses')
    BY <2>2, <2>3, <2>4 DEF AnswerOK
  <2> QED BY <1>1, <1>2, <2>1, <2>5 DEF EvaluatedOK
<1> QED BY <1>1, <1>3, <1>4, <1>5 DEF AnswerChanges

\* ... so a step keeps the kind of everything.
LEMMA TypedStep == Typed /\ [Next]_vars => Typed'
<1>1. ASSUME Typed, Next PROVE Typed'
  BY <1>1, PeerStep, ModeStepOK, StreamsStepOK, NamesStepOK, PhaseStepOK, EvaluatedStepOK DEF Typed
<1>2. ASSUME Typed, UNCHANGED vars PROVE Typed'
  BY <1>2 DEF Typed, PeerOK, ModeOK, StreamsOK, NamesOK, PhaseOK, EvaluatedOK, Items, Handles, vars,
     peerVars, outVars, modeVars, pastVars, evalVars, nameVars, streamVars
<1> QED BY <1>1, <1>2

\* Nothing is a sequence.
LEMMA EmptyIsSeq == IsSeq(<<>>) /\ AnswerOK(<<>>) /\ DOMAIN <<>> = {} /\ Len(<<>>) = 0
<1>1. <<>> \in Seq({}) /\ DOMAIN <<>> = {} /\ Len(<<>>) = 0
  OBVIOUS
<1> QED BY <1>1, SeqIs DEF AnswerOK

\* At first everything is of its kind.
LEMMA TypedInit == Init => Typed
<1> SUFFICES ASSUME Init PROVE Typed
  OBVIOUS
<1>1. /\ IsSeq(script) /\ Len(script) \in Nat
      /\ MaxOutsideCalls \in Nat /\ MaxStreamMessages \in Nat /\ MaxEmitted \in Nat
      /\ Undefined # None
  BY SessionAssumption, SeqOK DEF Init, IsSeq
<1>2. PeerOK
  <2>1. <<>> \in Seq(Seq(Items) \ {<<>>})
    OBVIOUS
  <2>2. script \in Scripts /\ sent = 0 /\ inbound = <<>> /\ inputClosed = FALSE /\ outputClosed = FALSE
    BY DEF Init
  <2>3. sent \in 0..Len(script)
    BY <1>1, <2>2
  <2>4. inbound \in Seq(Seq(Items) \ {<<>>})
    BY <2>1, <2>2
  <2>5. inputClosed \in BOOLEAN /\ outputClosed \in BOOLEAN
    BY <2>2
  <2> QED BY <2>2, <2>3, <2>4, <2>5 DEF PeerOK
<1>5. ModeOK
  BY <1>1 DEF Init, ModeOK
<1>3. StreamsOK
  BY <1>1, EmptyIsSeq DEF Init, StreamsOK, Handles
<1>6. NamesOK
  <2>1. /\ variables = [v \in Variables |-> Undefined] /\ setOutside = [v \in Variables |-> {}]
        /\ calls = 0 /\ replying = FALSE
    BY DEF Init
  <2>2. DOMAIN variables = Variables /\ DOMAIN setOutside = Variables
    BY <2>1
  <2>3. \A v \in Variables : variables[v] # None /\ Undefined \notin setOutside[v]
    <3>1. Undefined # None
      BY <1>1
    <3> QED BY <2>1, <3>1
  <2>4. calls \in 0..MaxOutsideCalls
    BY <1>1, <2>1
  <2>5. replying \in BOOLEAN
    BY <2>1
  <2> QED BY <2>2, <2>3, <2>4, <2>5 DEF NamesOK
<1>7. PhaseOK
  BY <1>1 DEF Init, PhaseOK
<1>4. EvaluatedOK
  BY EmptyIsSeq DEF Init, EvaluatedOK
<1> QED BY <1>2, <1>3, <1>4, <1>5, <1>6, <1>7 DEF Typed

----------------------------------------------------------------------------
(* Variables and assignments. *)

\* The least of a set of numbers, ...
LEMMA MinIs ==
  ASSUME NEW S, S \subseteq Nat, S # {}
  PROVE  Min(S) \in S /\ \A m \in S : Min(S) <= m
<1> DEFINE R == {ss \in Nat \X Nat : ss[1] < ss[2]}
<1>1. IsWellFoundedOn(R, Nat)
  BY NatLessThanWellFounded DEF OpToRel
<1>2. \A m, n \in Nat : m < n => <<m, n>> \in R
  OBVIOUS
<1> HIDE DEF R
<1>3. PICK n \in S : \A m \in S : <<m, n>> \notin R
  BY <1>1, WFMin
<1>4. ASSUME NEW m \in S PROVE n <= m
  <2>1. m \in Nat /\ n \in Nat /\ ~(m < n)
    BY <1>2, <1>3
  <2> QED BY <2>1
<1>5. \E x \in S : \A y \in S : x <= y
  BY <1>3, <1>4
<1> QED BY <1>5 DEF Min

\* ... and the greatest, ...
LEMMA MaxIs ==
  ASSUME NEW S, S \subseteq Int, NEW n \in S, \A m \in S : m <= n
  PROVE  Max(S) = n
<1>1. \E x \in S : \A y \in S : x >= y
  OBVIOUS
<1>2. Max(S) \in S /\ \A y \in S : Max(S) >= y
  BY <1>1 DEF Max
<1>3. Max(S) \in Int /\ n \in Int /\ Max(S) >= n /\ Max(S) <= n
  BY <1>2
<1> QED BY <1>3

\* ... which a set of numbers up to n has.
LEMMA MaxExists ==
  ASSUME NEW n \in Nat, NEW S, S \subseteq 1..n, S # {}
  PROVE  Max(S) \in S
<1> DEFINE D == {n - m : m \in S}
<1>1. D \subseteq Nat /\ D # {}
  <2>1. \A m \in S : m \in 1..n /\ n - m \in Nat
    OBVIOUS
  <2>2. PICK m : m \in S
    OBVIOUS
  <2>3. n - m \in D
    BY <2>2
  <2> QED BY <2>1, <2>3
<1>2. Min(D) \in D /\ \A d \in D : Min(D) <= d
  <2> HIDE DEF D
  <2> QED BY <1>1, MinIs
<1>3. PICK x \in S : Min(D) = n - x
  BY <1>2
<1>4. \A y \in S : y <= x
  <2>1. \A y \in S : n - x <= n - y
    BY <1>2, <1>3
  <2> QED BY <2>1
<1>5. Max(S) = x
  <2>1. S \subseteq Int
    OBVIOUS
  <2> QED BY <2>1, <1>4, MaxIs
<1> QED BY <1>3, <1>5

\* What is assigned depends on what the first responses are.
LEMMA FirstValueIs ==
  ASSUME NEW a, AnswerOK(a), NEW k \in 0..Len(a), \A l \in 1..k : a[l].kind \notin {"Json", "Error"}
  PROVE  /\ k < Len(a) /\ a[k + 1].kind = "Json" => FirstValue(a) = a[k + 1].value
         /\ (k < Len(a) /\ a[k + 1].kind = "Error") \/ k = Len(a) => FirstValue(a) = Undefined
<1> DEFINE jsons == {l \in DOMAIN a : a[l].kind = "Json"}
<1>1. Len(a) \in Nat /\ DOMAIN a = 1..Len(a)
  BY SeqOK DEF AnswerOK
<1>2. jsons # {} => /\ Min(jsons) \in 1..Len(a) /\ a[Min(jsons)].kind = "Json"
                    /\ \A l \in jsons : Min(jsons) <= l
  <2>1. jsons \subseteq Nat
    BY <1>1
  <2>2. jsons # {} => Min(jsons) \in jsons /\ \A l \in jsons : Min(jsons) <= l
    <3> HIDE DEF jsons
    <3> QED BY <2>1, MinIs
  <2> QED BY <2>2, <1>1
<1>3. FirstValue(a) = IF jsons # {} /\ \A l \in 1..Min(jsons) : a[l].kind # "Error"
                      THEN a[Min(jsons)].value ELSE Undefined
  BY DEF FirstValue
<1>4. ASSUME k < Len(a), a[k + 1].kind = "Json" PROVE FirstValue(a) = a[k + 1].value
  <2>1. k + 1 \in jsons
    BY <1>1, <1>4
  <2>2. Min(jsons) <= k + 1 /\ Min(jsons) \in 1..Len(a) /\ a[Min(jsons)].kind = "Json"
    BY <1>2, <2>1
  <2>3. Min(jsons) = k + 1
    BY <1>1, <2>2
  <2>4. \A l \in 1..(k + 1) : a[l].kind # "Error"
    BY <1>4
  <2> HIDE DEF jsons
  <2> QED BY <1>3, <2>1, <2>3, <2>4
<1>5. ASSUME k < Len(a), a[k + 1].kind = "Error" PROVE FirstValue(a) = Undefined
  <2>1. jsons # {} => k + 1 \in 1..Min(jsons)
    <3> SUFFICES ASSUME jsons # {} PROVE k + 1 \in 1..Min(jsons)
      OBVIOUS
    <3>1. Min(jsons) \in 1..Len(a) /\ a[Min(jsons)].kind = "Json"
      BY <1>2
    <3> QED BY <1>1, <1>5, <3>1
  <2> HIDE DEF jsons
  <2> QED BY <1>3, <1>5, <2>1
<1>6. ASSUME k = Len(a) PROVE FirstValue(a) = Undefined
  <2>1. jsons = {}
    BY <1>1, <1>6
  <2> HIDE DEF jsons
  <2> QED BY <1>3, <2>1
<1> QED BY <1>4, <1>5, <1>6

\* What a variable is expected to be depends on the requests before.
LEMMA ExpectedKept ==
  ASSUME NEW v, NEW i \in Nat, script' = script, \A j \in 1..(i - 1) : evaluated'[j] = evaluated[j]
  PROVE  Expected(v, i)' = Expected(v, i)
<1> DEFINE E == {j \in 1..(i - 1) : Assigns(j, v)}
           F == {j \in 1..(i - 1) : Assigns(j, v)'}
<1>1. \A j \in 1..(i - 1) : AssignedBy(j)' = AssignedBy(j)
  BY DEF AssignedBy
<1>2. \A j \in 1..(i - 1) : Assigns(j, v)' <=> Assigns(j, v)
  BY <1>1 DEF Assigns
<1>3. E = F
  BY <1>2
<1>4. Expected(v, i) = IF E = {} THEN Undefined ELSE AssignedBy(Max(E))
  BY DEF Expected
<1>5. Expected(v, i)' = IF F = {} THEN Undefined ELSE FirstValue(evaluated'[Max(F)].responses)
  BY DEF Expected, AssignedBy
<1>6. F # {} => Max(F) \in 1..(i - 1)
  <2>1. CASE i = 0
    BY <2>1
  <2>2. CASE i - 1 \in Nat /\ F # {}
    <3>1. F \subseteq 1..(i - 1)
      OBVIOUS
    <3> HIDE DEF F
    <3> QED BY <3>1, <2>2, MaxExists
  <2> QED BY <2>1, <2>2
<1> HIDE DEF E, F
<1> QED BY <1>3, <1>4, <1>5, <1>6 DEF AssignedBy

\* The set of requests that count grows with the request that is evaluated.
LEMMA ExpectedAfter ==
  ASSUME Typed, NEW v, Now > 0
  PROVE  /\ Assigns(Now, v) => Expected(v, Now + 1) = AssignedBy(Now)
         /\ ~Assigns(Now, v) => Expected(v, Now + 1) = Expected(v, Now)
<1> DEFINE E == {j \in 1..(Now - 1) : Assigns(j, v)}
           F == {j \in 1..Now : Assigns(j, v)}
<1>1. Now \in Nat \ {0} /\ Now + 1 - 1 = Now
  BY SeqOK DEF Typed, EvaluatedOK, Now
<1>2. Expected(v, Now + 1) = IF F = {} THEN Undefined ELSE AssignedBy(Max(F))
  BY <1>1 DEF Expected
<1>3. Expected(v, Now) = IF E = {} THEN Undefined ELSE AssignedBy(Max(E))
  BY DEF Expected
<1>4. ASSUME Assigns(Now, v) PROVE Expected(v, Now + 1) = AssignedBy(Now)
  <2>1. F \subseteq Int /\ Now \in F /\ \A j \in F : j <= Now
    BY <1>1, <1>4
  <2>2. Max(F) = Now /\ F # {}
    <3> HIDE DEF F
    <3> QED BY <2>1, MaxIs
  <2> HIDE DEF F
  <2> QED BY <1>2, <2>2
<1>5. ASSUME ~Assigns(Now, v) PROVE Expected(v, Now + 1) = Expected(v, Now)
  <2>1. E = F
    BY <1>1, <1>5
  <2> HIDE DEF E, F
  <2> QED BY <1>2, <1>3, <2>1
<1> QED BY <1>4, <1>5

\* What was evaluated stays as it was, and so do the values that were set from outside.
LEMMA PastStays ==
  ASSUME Typed, Next
  PROVE  /\ script' = script /\ Now \in Nat /\ DOMAIN evaluated = 1..Now
         /\ \A j \in 1..Now : evaluated'[j] = evaluated[j]
         /\ evaluated' = evaluated \/ TakeRequest
         /\ setOutside' = setOutside \/ SetVariable
         /\ \A v \in Variables : setOutside[v] \subseteq setOutside'[v]
         /\ pc' # "ended" => pc # "ended"
<1>1. script' = script /\ AnswerChanges /\ NameChanges
  BY WhatChanges
<1>2. IsSeq(evaluated) /\ Now \in Nat /\ DOMAIN evaluated = 1..Now
  BY SeqOK DEF Typed, EvaluatedOK, Now
<1>3. evaluated' = evaluated \/ TakeRequest
  BY <1>1 DEF AnswerChanges, SendText, SendBackground, StartMode, pastVars
<1>4. ASSUME TakeRequest PROVE \A j \in 1..Now : evaluated'[j] = evaluated[j]
  <2>1. PICK e : evaluated' = Append(evaluated, e)
    BY <1>4 DEF TakeRequest
  <2> QED BY <1>2, <2>1, SeqAppend DEF Now
<1>5. setOutside' = setOutside \/ SetVariable
  BY <1>1 DEF NameChanges, AssignVariable, QueryVariable, ReplyTaken
<1>6. SetVariable => \A v \in Variables : setOutside[v] \subseteq setOutside'[v]
  BY DEF SetVariable, Typed, NamesOK
<1>7. pc = "ended" => pc' = "ended"
  BY WhatChanges DEF PhaseChanges, Prompt, TakeRequest, TakeNoRequest, SendText, AssignVariable,
     SendBackground, SendNothingToAssign, EndResponses, StartMode, EnterMode, EndMode, CommandEnds,
     RequestsEnd, Responds, ReadsInput, HasSocket
<1> QED BY <1>1, <1>2, <1>3, <1>4, <1>5, <1>6, <1>7

\* What a request saw does not change, ...
LEMMA SeenStays ==
  ASSUME Typed, Next, NEW i \in DOMAIN evaluated, ReadsVariable(i) => SeesAssignments(i)
  PROVE  (ReadsVariable(i) => SeesAssignments(i))'
<1> SUFFICES ASSUME ReadsVariable(i)' PROVE SeesAssignments(i)'
  OBVIOUS
<1>1. /\ script' = script /\ i \in 1..Now /\ Now \in Nat /\ evaluated'[i] = evaluated[i]
      /\ \A j \in 1..(i - 1) : evaluated'[j] = evaluated[j]
      /\ \A v \in Variables : setOutside[v] \subseteq setOutside'[v]
  BY PastStays
<1>2. ReadsVariable(i)
  BY <1>1 DEF ReadsVariable
<1> DEFINE item == script[evaluated[i].item]
<1>3. item.name \in Variables
  <2>1. ItemOK(item)
    BY ScriptOK DEF Typed, EvaluatedOK
  <2> QED BY <2>1, <1>2 DEF ReadsVariable, ItemOK, IsSource
<1>4. PICK w \in {Expected(item.name, i)} \cup setOutside[item.name] :
        evaluated[i].responses =
            IF w # Undefined THEN <<Json(w)>>
            ELSE IF item.kind = "Variable" THEN <<Failure>> ELSE Responses[item.name]
  BY <1>2 DEF SeesAssignments
<1>5. Expected(item.name, i)' = Expected(item.name, i)
  <2>1. PICK x : x = item.name
    OBVIOUS
  <2>2. Expected(x, i)' = Expected(x, i)
    BY <1>1, ExpectedKept
  <2>3. item' = item
    BY <1>1
  <2> QED BY <1>1, <2>1, <2>2, <2>3
<1>6. w \in {Expected(item.name, i)'} \cup setOutside'[item.name]
  BY <1>1, <1>3, <1>4, <1>5
<1>7. item' = item
  BY <1>1
<1> QED BY <1>1, <1>4, <1>6, <1>7 DEF SeesAssignments

\* ... and a request that is taken sees the variables as they are.
LEMMA TakenSees ==
  ASSUME Typed, AssignmentOK, VariablesOK, TakeRequest, NEW k, k = Now + 1
  PROVE  /\ Len(evaluated') = k
         /\ (ReadsVariable(k) => SeesAssignments(k))'
<1> DEFINE n == Head(NextChunk)
           answer == Evaluated(SourceOf(script[n]))
           item == script[n]
<1>1. /\ n \in Items /\ IsSource(SourceOf(item))
      /\ evaluated' = Append(evaluated, [item |-> n, responses |-> answer])
  BY TakenOK
<1>2. Next
  BY DEF Next, SessionStep
<1>3. script' = script /\ Now \in Nat /\ \A j \in 1..Now : evaluated'[j] = evaluated[j]
  BY <1>2, PastStays
<1>4. Len(evaluated') = Now + 1 /\ evaluated'[Now + 1] = [item |-> n, responses |-> answer]
  BY <1>1, SeqAppend DEF Typed, EvaluatedOK, Now
<1>5. pc = "reading" /\ assigning = None /\ setOutside' = setOutside
  BY DEF TakeRequest, ReadsInput, nameVars, Typed, PhaseOK
<1>6. \A v \in Variables : variables[v] \in {Expected(v, Now + 1)} \cup setOutside[v]
  BY <1>5 DEF VariablesOK, Turn
<1>8. ASSUME ReadsVariable(k)' PROVE SeesAssignments(k)'
  <2>1. script'[evaluated'[k].item] = item /\ evaluated'[k].responses = answer
    BY <1>3, <1>4
  <2>2. item.kind = "Variable" \/ (item.kind = "Command" /\ item.name \in Variables)
    BY <1>8, <2>1 DEF ReadsVariable
  <2>3. item.name \in Variables /\ SourceOf(item) = item
    BY <1>1, <2>2 DEF IsSource, SourceOf
  <2>4. answer = IF variables[item.name] # Undefined THEN <<Json(variables[item.name])>>
                 ELSE IF item.kind = "Variable" THEN <<Failure>> ELSE Responses[item.name]
    BY <2>2, <2>3 DEF Evaluated
  <2>5. PICK x : x = item.name
    OBVIOUS
  <2>6. Expected(x, k)' = Expected(x, k)
    BY <1>3, ExpectedKept
  <2>7. variables[x] \in {Expected(x, k)'} \cup setOutside'[x]
    BY <1>5, <1>6, <2>3, <2>5, <2>6
  <2> QED BY <2>1, <2>4, <2>5, <2>7 DEF SeesAssignments
<1> QED BY <1>4, <1>8

\* The history of RequestsSeeAssignments.
LEMMA RequestsSeeStep ==
  ASSUME Typed, AssignmentOK, VariablesOK, RequestsSeeAssignments, Next
  PROVE  RequestsSeeAssignments'
<1>1. /\ Now \in Nat /\ DOMAIN evaluated = 1..Now
      /\ evaluated' = evaluated \/ TakeRequest
  BY PastStays
<1>2. \A i \in 1..Now : (ReadsVariable(i) => SeesAssignments(i))'
  BY <1>1, SeenStays DEF RequestsSeeAssignments
<1>3. CASE evaluated' = evaluated
  BY <1>1, <1>2, <1>3 DEF RequestsSeeAssignments
<1>4. CASE TakeRequest
  <2>1. PICK k : k = Now + 1
    OBVIOUS
  <2>2. Len(evaluated') = k /\ (ReadsVariable(k) => SeesAssignments(k))'
    BY <1>4, <2>1, TakenSees
  <2>3. DOMAIN evaluated' = 1..k
    <3>1. IsSeq(evaluated')
      BY EvaluatedStepOK DEF EvaluatedOK
    <3> QED BY <3>1, <2>2, SeqOK
  <2> QED BY <1>1, <1>2, <2>1, <2>2, <2>3 DEF RequestsSeeAssignments
<1> QED BY <1>1, <1>3, <1>4

\* Unless a request is taken, what was expected still is.
LEMMA SameRequest ==
  ASSUME Typed, Next, evaluated' = evaluated
  PROVE  /\ Now' = Now /\ Turn \in Nat /\ script' = script
         /\ \A v : \A i \in {Now, Now + 1} : Expected(v, i)' = Expected(v, i)
         /\ AssignedBy(Now)' = AssignedBy(Now)
         /\ \A v : Assigns(Now, v)' <=> Assigns(Now, v)
<1>1. script' = script /\ Now \in Nat /\ Now' = Now
  BY PastStays DEF Now
<1>2. ASSUME NEW v, NEW i \in {Now, Now + 1} PROVE Expected(v, i)' = Expected(v, i)
  <2>1. i \in Nat
    BY <1>1
  <2> QED BY <1>1, <2>1, ExpectedKept
<1>3. AssignedBy(Now)' = AssignedBy(Now)
  BY <1>1 DEF AssignedBy
<1>4. ASSUME NEW v PROVE Assigns(Now, v)' <=> Assigns(Now, v)
  BY <1>1, <1>3 DEF Assigns
<1> QED BY <1>1, <1>2, <1>3, <1>4 DEF Turn

\* A response that is neither a value nor an error leaves the assignment as it is.
LEMMA NextResponse ==
  ASSUME Typed, Next, evaluated' = evaluated, NEW k \in 0..Len(evaluated[Now].responses),
         SentWithoutValue(k), Now > 0, responses # <<>>, responses' = Tail(responses)
  PROVE  /\ k < Len(evaluated[Now].responses) /\ Head(responses) = evaluated[Now].responses[k + 1]
         /\ Head(responses).kind \notin {"Json", "Error"} => SentWithoutValue(k + 1)'
<1> DEFINE R == evaluated[Now].responses
<1>1. /\ Len(R) \in Nat /\ IsSeq(responses) /\ Len(responses) = Len(R) - k
      /\ \A l \in 1..Len(responses) : responses[l] = R[k + l]
      /\ \A l \in 1..k : R[l].kind \notin {"Json", "Error"}
  <2>1. Now \in DOMAIN evaluated
    BY PastStays
  <2>2. AnswerOK(R) /\ AnswerOK(responses)
    BY <2>1 DEF Typed, EvaluatedOK
  <2>3. Len(R) \in Nat
    BY <2>2, SeqOK DEF AnswerOK
  <2> QED BY <2>2, <2>3 DEF SentWithoutValue, AnswerOK
<1>2. /\ Len(Tail(responses)) = Len(responses) - 1 /\ Len(responses) \in Nat \ {0}
      /\ \A l \in 1..Len(responses)-1 : Tail(responses)[l] = responses[l + 1]
      /\ Head(responses) = responses[1]
  BY <1>1, SeqTail, SeqOK
<1>3. k < Len(R) /\ Head(responses) = R[k + 1]
  BY <1>1, <1>2
<1>4. ASSUME Head(responses).kind \notin {"Json", "Error"} PROVE SentWithoutValue(k + 1)'
  <2> DEFINE T == Tail(responses)
  <2>1. evaluated'[Now'].responses = R
    BY SameRequest
  <2>2. \A l \in 1..(k + 1) : R[l].kind \notin {"Json", "Error"}
    <3>1. \A l \in 1..(k + 1) : l \in 1..k \/ l = k + 1
      OBVIOUS
    <3>2. R[k + 1].kind \notin {"Json", "Error"}
      BY <1>3, <1>4
    <3>3. \A l \in 1..k : R[l].kind \notin {"Json", "Error"}
      BY <1>1
    <3> HIDE DEF R
    <3> QED BY <3>1, <3>2, <3>3, Zenon
  <2>3. Len(T) = Len(R) - (k + 1)
    BY <1>1, <1>2
  <2>4. \A l \in 1..Len(T) : T[l] = R[(k + 1) + l]
    <3> SUFFICES ASSUME NEW l \in 1..Len(T) PROVE T[l] = R[(k + 1) + l]
      OBVIOUS
    <3>1. T[l] = responses[l + 1] /\ l + 1 \in 1..Len(responses)
      BY <1>1, <1>2
    <3>2. responses[l + 1] = R[k + (l + 1)] /\ k + (l + 1) = (k + 1) + l
      BY <1>1, <3>1
    <3> QED BY <3>1, <3>2
  <2> HIDE DEF R, T
  <2>5. responses' = T
    BY DEF T
  <2> QED BY <2>1, <2>2, <2>3, <2>4, <2>5 DEF SentWithoutValue
<1> QED BY <1>3, <1>4

\* A step keeps what is known of the assignment that goes on, ...
LEMMA AssignmentStep ==
  ASSUME Typed, AssignmentOK, Next
  PROVE  AssignmentOK'
<1> SUFFICES ASSUME assigning' # None, pc' # "ended" PROVE AssignmentOK'
  BY DEF AssignmentOK
<1>1. PhaseChanges /\ AnswerChanges /\ script' = script /\ pc # "ended" /\ Now \in Nat
  BY WhatChanges, PastStays
<1>2. CASE TakeRequest
  <2>1. PICK k : k = Now + 1
    OBVIOUS
  <2> DEFINE n == Head(NextChunk)
             answer == Evaluated(SourceOf(script[n]))
  <2>2. /\ n \in Items /\ AnswerOK(answer) /\ responses' = answer
        /\ evaluated' = Append(evaluated, [item |-> n, responses |-> answer])
        /\ assigning' = IF script[n].kind = "Assign" THEN script[n].variable ELSE None
    BY <1>2, TakenOK
  <2> HIDE DEF n, answer
  <2>3. Now' = k /\ evaluated'[k] = [item |-> n, responses |-> answer] /\ k > 0
    BY <2>1, <2>2, <1>1, SeqAppend DEF Typed, EvaluatedOK, Now
  <2>4. script[n].kind = "Assign" /\ script[n].variable = assigning'
    BY <2>2
  <2>5. pending' = None
    BY <1>2 DEF TakeRequest, ReadsInput, Typed, PhaseOK
  <2>6. Len(answer) \in Nat /\ 0 \in 0..Len(answer)
    BY <2>2, SeqOK DEF AnswerOK
  <2>7. SentWithoutValue(0)'
    <3>1. responses' = answer /\ evaluated'[Now'].responses = answer
      <4>1. evaluated'[Now'] = [item |-> n, responses |-> answer]
        BY <2>3
      <4>2. evaluated'[Now'].responses = answer
        BY <4>1
      <4>3. responses' = answer
        BY <2>2, Zenon
      <4> QED BY <4>2, <4>3, Zenon
    <3>2. \A l \in 1..Len(answer) : answer[l] = answer[0 + l]
      BY <2>6
    <3>3. Len(answer) = Len(answer) - 0
      BY <2>6
    <3> QED BY <3>1, <3>2, <3>3 DEF SentWithoutValue
  <2> QED BY <1>1, <2>3, <2>4, <2>5, <2>6, <2>7 DEF AssignmentOK
<1> SUFFICES ASSUME ~TakeRequest PROVE AssignmentOK'
  BY <1>2
<1>3. /\ evaluated' = evaluated /\ Now' = Now /\ AssignedBy(Now)' = AssignedBy(Now)
  BY PastStays, SameRequest
<1>4. ASSUME UNCHANGED <<assigning, pending>>, pending # None => responses' = responses,
             responses' = responses \/ (responses # <<>> /\ responses' = Tail(responses)
                                        /\ Head(responses).kind \notin {"Json", "Error"})
      PROVE  AssignmentOK'
  <2>1. /\ Now > 0 /\ script[evaluated[Now].item].kind = "Assign"
        /\ script[evaluated[Now].item].variable = assigning
        /\ pending # None => pending = AssignedBy(Now) /\ pending # Undefined
    BY <1>1, <1>4 DEF AssignmentOK
  <2>2. ASSUME pending = None
        PROVE  \E k \in 0..Len(evaluated[Now].responses) : SentWithoutValue(k)'
    <3>1. PICK k \in 0..Len(evaluated[Now].responses) : SentWithoutValue(k)
      BY <1>1, <1>4, <2>2 DEF AssignmentOK
    <3>2. CASE responses' = responses
      BY <1>3, <3>1, <3>2 DEF SentWithoutValue
    <3>3. CASE responses' # responses
      <4>1. k < Len(evaluated[Now].responses) /\ SentWithoutValue(k + 1)'
        BY <1>3, <1>4, <2>1, <3>1, <3>3, NextResponse
      <4>2. Len(evaluated[Now].responses) \in Nat
        BY <2>1, <1>1, PastStays, SeqOK DEF Typed, EvaluatedOK, AnswerOK
      <4>3. k + 1 \in 0..Len(evaluated[Now].responses)
        BY <4>1, <4>2
      <4> QED BY <4>1, <4>3
    <3> QED BY <3>2, <3>3
  <2> QED BY <1>1, <1>3, <1>4, <2>1, <2>2 DEF AssignmentOK
<1>5. CASE SendText
  <2>1. /\ pc = "responding" /\ pending = None /\ responses # <<>> /\ responses' = Tail(responses)
        /\ \/ assigning # None /\ Head(responses).kind = "Json" /\ assigning' = assigning
              /\ pending' = Head(responses).value
           \/ ~(assigning # None /\ Head(responses).kind = "Json")
              /\ assigning' = AssigningAfter(Head(responses)) /\ pending' = pending
    BY <1>5 DEF SendText, Responds
  <2>2. assigning' = assigning /\ (Head(responses).kind = "Error" => pending' # pending)
    BY <2>1 DEF AssigningAfter
  <2>3. CASE Head(responses).kind = "Json"
    <3>1. assigning' = assigning /\ pending' = Head(responses).value
      BY <2>1, <2>2, <2>3
    <3>2. /\ Now > 0 /\ script[evaluated[Now].item].kind = "Assign"
          /\ script[evaluated[Now].item].variable = assigning
          /\ \E k \in 0..Len(evaluated[Now].responses) : SentWithoutValue(k)
      BY <1>1, <2>1, <3>1 DEF AssignmentOK
    <3>3. PICK k \in 0..Len(evaluated[Now].responses) : SentWithoutValue(k)
      BY <3>2
    <3>4. k < Len(evaluated[Now].responses) /\ Head(responses) = evaluated[Now].responses[k + 1]
      BY <1>3, <2>1, <3>2, <3>3, NextResponse
    <3>5. AnswerOK(evaluated[Now].responses) /\ ResponseOK(Head(responses))
      <4>1. Now \in DOMAIN evaluated
        BY <1>1, <3>2, PastStays
      <4> QED BY <2>1, <4>1, SeqOK DEF Typed, EvaluatedOK, AnswerOK
    <3>6. FirstValue(evaluated[Now].responses) = Head(responses).value
      BY <2>3, <3>3, <3>4, <3>5, FirstValueIs DEF SentWithoutValue
    <3>7. pending' = AssignedBy(Now)' /\ pending' # Undefined /\ pending' # None
      BY <1>3, <2>3, <3>1, <3>5, <3>6 DEF AssignedBy, ResponseOK, IsValue
    <3> QED BY <1>1, <1>3, <3>1, <3>2, <3>7 DEF AssignmentOK
  <2>4. CASE Head(responses).kind # "Json"
    BY <1>4, <2>1, <2>2, <2>4
  <2> QED BY <2>3, <2>4
<1>6. CASE SendBackground \/ StartMode
  <2>1. /\ UNCHANGED <<assigning, pending>> /\ pending = None /\ responses # <<>>
        /\ responses' = Tail(responses) /\ Head(responses).kind \notin {"Json", "Error"}
    BY <1>6 DEF SendBackground, StartMode, Responds
  <2> QED BY <1>4, <2>1
<1>7. CASE AssignVariable \/ SendNothingToAssign
  BY <1>7 DEF AssignVariable, SendNothingToAssign
<1>8. CASE ~(SendText \/ SendBackground \/ StartMode \/ AssignVariable \/ SendNothingToAssign)
  <2>1. UNCHANGED <<assigning, pending>>
    BY <1>1, <1>8 DEF PhaseChanges, Prompt, TakeNoRequest, EndResponses, EnterMode, EndMode,
       CommandEnds, RequestsEnd, evalVars
  <2>2. responses' = responses
    BY <1>1, <1>8 DEF AnswerChanges
  <2> QED BY <1>4, <2>1, <2>2
<1> QED BY <1>5, <1>6, <1>7, <1>8

\* ... and of the variables.
LEMMA VariablesStep ==
  ASSUME Typed, AssignmentOK, VariablesOK, Next
  PROVE  VariablesOK'
<1> SUFFICES ASSUME pc' # "ended" PROVE VariablesOK'
  BY DEF VariablesOK
<1>1. /\ PhaseChanges /\ NameChanges /\ AnswerChanges /\ script' = script /\ pc # "ended" /\ Now \in Nat
      /\ \A v \in Variables : setOutside[v] \subseteq setOutside'[v]
  BY WhatChanges, PastStays
<1>2. \A v \in Variables : variables[v] \in {Expected(v, Turn)} \cup setOutside[v]
  BY <1>1 DEF VariablesOK
<1>3. CASE TakeRequest
  <2>1. PICK k : k = Now + 1
    OBVIOUS
  <2> DEFINE n == Head(NextChunk)
             answer == Evaluated(SourceOf(script[n]))
  <2>2. /\ evaluated' = Append(evaluated, [item |-> n, responses |-> answer])
        /\ assigning' = IF script[n].kind = "Assign" THEN script[n].variable ELSE None
        /\ script[n].kind = "Assign" => script[n].variable \in Variables
    BY <1>3, TakenOK
  <2> HIDE DEF n, answer
  <2>3. Now' = k /\ evaluated'[k] = [item |-> n, responses |-> answer] /\ k \in Nat
    BY <2>1, <2>2, <1>1, SeqAppend DEF Typed, EvaluatedOK, Now
  <2>4. assigning = None /\ Turn = k /\ variables' = variables
    BY <1>3, <2>1 DEF TakeRequest, ReadsInput, Typed, PhaseOK, Turn, nameVars
  <2>5. \A j \in 1..(k - 1) : evaluated'[j] = evaluated[j]
    BY <1>1, <2>1, PastStays
  <2>6. \A v \in Variables : variables'[v] \in {Expected(v, k)'} \cup setOutside'[v]
    <3> SUFFICES ASSUME NEW v \in Variables
                 PROVE  variables'[v] \in {Expected(v, k)'} \cup setOutside'[v]
      OBVIOUS
    <3>1. Expected(v, k)' = Expected(v, k)
      BY <1>1, <2>3, <2>5, ExpectedKept
    <3> QED BY <1>1, <1>2, <2>4, <3>1
  <2>7. CASE assigning' # None
    BY <2>3, <2>6, <2>7 DEF VariablesOK, Turn
  <2>8. CASE assigning' = None
    <3>1. PICK m : m = k + 1
      OBVIOUS
    <3>2. Turn' = m
      BY <2>3, <2>8, <3>1 DEF Turn
    <3>3. script[n].kind # "Assign"
      BY <2>2, <2>8, SessionAssumption
    <3>4. \A v : ~Assigns(k, v)'
      BY <1>1, <2>3, <3>3 DEF Assigns
    <3>5. \A v \in Variables : Expected(v, m)' = Expected(v, k)'
      <4> SUFFICES ASSUME NEW v \in Variables PROVE Expected(v, m)' = Expected(v, k)'
        OBVIOUS
      <4> DEFINE E == {j \in 1..(k - 1) : Assigns(j, v)'}
                 F == {j \in 1..(m - 1) : Assigns(j, v)'}
      <4>1. E = F
        BY <2>3, <3>1, <3>4
      <4>2. Expected(v, k)' = IF E = {} THEN Undefined ELSE FirstValue(evaluated'[Max(E)].responses)
        BY DEF Expected, AssignedBy
      <4>3. Expected(v, m)' = IF F = {} THEN Undefined ELSE FirstValue(evaluated'[Max(F)].responses)
        BY DEF Expected, AssignedBy
      <4> HIDE DEF E, F
      <4> QED BY <4>1, <4>2, <4>3
    <3> QED BY <2>6, <3>2, <3>5 DEF VariablesOK
  <2> QED BY <2>7, <2>8
<1> SUFFICES ASSUME ~TakeRequest PROVE VariablesOK'
  BY <1>3
<1>4. /\ evaluated' = evaluated /\ Now' = Now
      /\ \A v : \A i \in {Now, Now + 1} : Expected(v, i)' = Expected(v, i)
  BY PastStays, SameRequest
<1>5. ASSUME assigning' = assigning,
             \A v \in Variables : variables'[v] \in {variables[v]} \cup setOutside'[v]
      PROVE  VariablesOK'
  <2>1. Turn' = Turn /\ Turn \in {Now, Now + 1}
    BY <1>4, <1>5 DEF Turn
  <2>2. PICK i : i = Turn
    OBVIOUS
  <2>3. \A v \in Variables : variables'[v] \in {Expected(v, i)'} \cup setOutside'[v]
    BY <1>1, <1>2, <1>4, <1>5, <2>1, <2>2
  <2> QED BY <2>1, <2>2, <2>3 DEF VariablesOK
<1>6. ASSUME assigning # None, assigning' = None, NEW x \in Variables \cup {None},
             \A v \in Variables : variables'[v] = IF v = x THEN AssignedBy(Now) ELSE variables[v],
             \A v \in Variables : IF v = x THEN Assigns(Now, v) ELSE ~Assigns(Now, v)
      PROVE  VariablesOK'
  <2>1. PICK k : k = Now + 1
    OBVIOUS
  <2>2. Turn = Now /\ Turn' = k /\ Now > 0
    BY <1>1, <1>4, <1>6, <2>1 DEF Turn, AssignmentOK
  <2>3. ASSUME NEW v \in Variables PROVE variables'[v] \in {Expected(v, k)'} \cup setOutside'[v]
    <3>1. Expected(v, k)' = Expected(v, k)
      BY <1>4, <2>1
    <3>2. Expected(v, k) = IF v = x THEN AssignedBy(Now) ELSE Expected(v, Now)
      BY <1>6, <2>1, <2>2, ExpectedAfter
    <3> QED BY <1>1, <1>2, <1>6, <2>2, <3>1, <3>2
  <2> QED BY <2>2, <2>3 DEF VariablesOK
\* An assignment that ends without a value leaves what was expected.
<1>7. ASSUME assigning # None, assigning' = None, variables' = variables,
             AssignedBy(Now) = Undefined
      PROVE  VariablesOK'
  <2>1. \A v \in Variables : ~Assigns(Now, v)
    BY <1>7 DEF Assigns
  <2>2. None \notin Variables
    BY SessionAssumption
  <2> QED BY <1>6, <1>7, <2>1, <2>2
<1>8. ASSUME assigning # None, pending = None
      PROVE  /\ Now > 0 /\ AnswerOK(evaluated[Now].responses)
             /\ \E k \in 0..Len(evaluated[Now].responses) : SentWithoutValue(k)
  <2>1. Now > 0 /\ \E k \in 0..Len(evaluated[Now].responses) : SentWithoutValue(k)
    BY <1>1, <1>8 DEF AssignmentOK
  <2>2. Now \in DOMAIN evaluated
    BY <1>1, <2>1, PastStays
  <2> QED BY <2>1, <2>2 DEF Typed, EvaluatedOK
<1>9. CASE AssignVariable
  <2>1. /\ pending # None /\ assigning # None /\ assigning \in Variables /\ assigning' = None
        /\ variables' = [variables EXCEPT ![assigning] = pending] /\ DOMAIN variables = Variables
    BY <1>9 DEF AssignVariable, Typed, PhaseOK, NamesOK
  <2>2. /\ script[evaluated[Now].item].kind = "Assign"
        /\ script[evaluated[Now].item].variable = assigning
        /\ pending = AssignedBy(Now) /\ pending # Undefined
    BY <1>1, <2>1 DEF AssignmentOK
  <2>3. \A v \in Variables : variables'[v] = IF v = assigning THEN AssignedBy(Now) ELSE variables[v]
    BY <2>1, <2>2
  <2>4. \A v \in Variables : IF v = assigning THEN Assigns(Now, v) ELSE ~Assigns(Now, v)
    BY <2>2 DEF Assigns
  <2> QED BY <1>6, <2>1, <2>3, <2>4
<1>10. CASE SendText
  <2>1. /\ pending = None /\ responses # <<>> /\ responses' = Tail(responses) /\ variables' = variables
        /\ assigning' = assigning \/ (assigning' = None /\ Head(responses).kind = "Error")
    BY <1>10 DEF SendText, Responds, AssigningAfter, nameVars
  <2>2. CASE assigning' = assigning
    BY <1>5, <2>1, <2>2
  <2>3. CASE assigning' # assigning
    <3>1. assigning # None /\ assigning' = None /\ Head(responses).kind = "Error"
      BY <2>1, <2>3
    <3>2. PICK k \in 0..Len(evaluated[Now].responses) : SentWithoutValue(k)
      BY <1>8, <2>1, <3>1
    <3>3. k < Len(evaluated[Now].responses) /\ evaluated[Now].responses[k + 1].kind = "Error"
      BY <1>4, <1>8, <2>1, <3>1, <3>2, NextResponse
    <3>4. AssignedBy(Now) = Undefined
      BY <1>8, <2>1, <3>1, <3>2, <3>3, FirstValueIs DEF AssignedBy, SentWithoutValue
    <3> QED BY <1>7, <2>1, <3>1, <3>4
  <2> QED BY <2>2, <2>3
<1>11. CASE SendNothingToAssign
  <2>1. pending = None /\ responses = <<>> /\ assigning # None /\ assigning' = None /\ variables' = variables
    BY <1>11 DEF SendNothingToAssign, Responds, nameVars
  <2>2. PICK k \in 0..Len(evaluated[Now].responses) : SentWithoutValue(k)
    BY <1>8, <2>1
  <2>3. k = Len(evaluated[Now].responses)
    <3>1. Len(responses) = 0
      BY <2>1
    <3>2. AnswerOK(evaluated[Now].responses)
      BY <1>8, <2>1
    <3>3. Len(evaluated[Now].responses) \in Nat
      BY <3>2, SeqOK DEF AnswerOK
    <3> QED BY <2>2, <3>1, <3>3 DEF SentWithoutValue
  <2>4. AssignedBy(Now) = Undefined
    BY <1>8, <2>1, <2>2, <2>3, FirstValueIs DEF AssignedBy, SentWithoutValue
  <2> QED BY <1>7, <2>1, <2>4
<1>12. CASE SetVariable
  <2>1. PICK x \in Variables, w \in OutsideValues :
          /\ variables' = [variables EXCEPT ![x] = w]
          /\ setOutside' = [setOutside EXCEPT ![x] = @ \cup {w}]
    BY <1>12 DEF SetVariable
  <2>2. DOMAIN variables = Variables /\ DOMAIN setOutside = Variables /\ assigning' = assigning
    BY <1>12 DEF SetVariable, evalVars, Typed, NamesOK
  <2>3. \A v \in Variables : variables'[v] \in {variables[v]} \cup setOutside'[v]
    BY <2>1, <2>2
  <2> QED BY <1>5, <2>2, <2>3
<1>13. CASE ~(SendText \/ AssignVariable \/ SendNothingToAssign \/ SetVariable)
  <2>1. assigning' = assigning
    BY <1>1, <1>13 DEF PhaseChanges, Prompt, TakeNoRequest, SendBackground, StartMode, EndResponses,
       EnterMode, EndMode, CommandEnds, RequestsEnd, evalVars
  <2>2. variables' = variables
    BY <1>1, <1>13 DEF NameChanges, QueryVariable, ReplyTaken
  <2> QED BY <1>5, <2>1, <2>2
<1> QED BY <1>9, <1>10, <1>11, <1>12, <1>13

\* A request sees the variables as the requests before it have left them, for any scripts,
\* commands and variables, however the input is cut and whatever is set from outside.
LEMMA ValuesStep == ValuesInv /\ [Next]_vars => ValuesInv'
<1>1. ASSUME ValuesInv, Next PROVE ValuesInv'
  BY <1>1, TypedStep, AssignmentStep, VariablesStep, RequestsSeeStep DEF ValuesInv
<1>2. ASSUME ValuesInv, UNCHANGED vars PROVE ValuesInv'
  <2>1. Typed'
    BY <1>2, TypedStep DEF ValuesInv
  <2>2. /\ script' = script /\ evaluated' = evaluated /\ variables' = variables
        /\ setOutside' = setOutside /\ responses' = responses /\ assigning' = assigning
        /\ pending' = pending /\ pc' = pc
    BY <1>2 DEF vars, peerVars, pastVars, nameVars, evalVars
  <2>3. Now \in Nat
    BY <1>2, SeqOK DEF ValuesInv, Typed, EvaluatedOK, Now
  <2>4. \A v : \A i \in Nat : Expected(v, i)' = Expected(v, i)
    BY <2>2, ExpectedKept
  <2>5. AssignmentOK'
    BY <1>2, <2>2 DEF ValuesInv, AssignmentOK, SentWithoutValue, Now, AssignedBy
  <2>6. VariablesOK'
    <3>1. Turn' = Turn /\ Turn \in Nat
      BY <2>2, <2>3 DEF Turn, Now
    <3>2. PICK i : i = Turn
      OBVIOUS
    <3> QED BY <1>2, <2>2, <2>4, <3>1, <3>2 DEF ValuesInv, VariablesOK
  <2>7. RequestsSeeAssignments'
    <3>1. \A i \in DOMAIN evaluated : i \in Nat
      BY <1>2, SeqOK DEF ValuesInv, Typed, EvaluatedOK
    <3> SUFFICES ASSUME NEW i \in DOMAIN evaluated, ReadsVariable(i)' PROVE SeesAssignments(i)'
      BY <2>2 DEF RequestsSeeAssignments
    <3>2. SeesAssignments(i)
      BY <1>2, <2>2 DEF ValuesInv, RequestsSeeAssignments, ReadsVariable
    <3> QED BY <2>2, <2>4, <3>1, <3>2 DEF SeesAssignments
  <2> QED BY <2>1, <2>5, <2>6, <2>7 DEF ValuesInv
<1> QED BY <1>1, <1>2

\* At first no variable has a value, and none was assigned.
LEMMA ValuesInit == Init => ValuesInv
<1> SUFFICES ASSUME Init PROVE ValuesInv
  OBVIOUS
<1>1. Typed
  BY TypedInit
<1>2. AssignmentOK /\ RequestsSeeAssignments
  BY EmptyIsSeq DEF Init, AssignmentOK, RequestsSeeAssignments
<1>3. VariablesOK
  <2>1. \A v \in Variables : Expected(v, 1) = Undefined
    BY DEF Expected
  <2>2. Turn = 1 /\ \A v \in Variables : variables[v] = Undefined
    BY EmptyIsSeq DEF Init, Turn, Now
  <2> QED BY <2>1, <2>2 DEF VariablesOK
<1> QED BY <1>1, <1>2, <1>3 DEF ValuesInv

\* A request that reads a variable sees the result of the last assignment before it, or a
\* value that was set from outside, for any scripts, commands and variables.
THEOREM RequestsAlwaysSeeAssignments == Spec => []RequestsSeeAssignments
<1>1. ValuesInv => RequestsSeeAssignments
  BY DEF ValuesInv
<1> QED BY <1>1, ValuesInit, ValuesStep, PTL DEF Spec

----------------------------------------------------------------------------
(* The output. *)

\* What was sent is a sequence.
LEMMA OutputsOK ==
  ASSUME IsSeq(outputs)
  PROVE  OutLen \in Nat /\ DOMAIN outputs = 1..OutLen
  BY SeqOK DEF OutLen

\* What is counted up to a place depends on what was sent before it.
LEMMA CountsKept ==
  ASSUME NEW i \in Nat, \A j \in 1..(i - 1) : outputs'[j] = outputs[j]
  PROVE  /\ \A kind : Count(kind, i)' = Count(kind, i)
         /\ InMode(i)' <=> InMode(i)
         /\ \A h : TellsOf(h, i)' = TellsOf(h, i)
<1>1. ASSUME NEW kind PROVE Count(kind, i)' = Count(kind, i)
  <2> DEFINE C == {j \in 1..(i - 1) : Kind(j) = kind}
             D == {j \in 1..(i - 1) : Kind(j)' = kind}
  <2>1. C = D
    BY DEF Kind
  <2>2. Count(kind, i) = Cardinality(C) /\ Count(kind, i)' = Cardinality(D)
    BY DEF Count
  <2> HIDE DEF C, D
  <2> QED BY <2>1, <2>2
<1>2. InMode(i)' <=> InMode(i)
  BY <1>1 DEF InMode
<1>3. \A h : TellsOf(h, i)' = TellsOf(h, i)
  BY DEF TellsOf, OfStream, Kind
<1> QED BY <1>1, <1>2, <1>3

\* So is whether something that was sent is where it belongs.
LEMMA FramedKept ==
  ASSUME NEW i \in Nat \ {0}, \A j \in 1..i : outputs'[j] = outputs[j], IsFramed(i)
  PROVE  IsFramed(i)'
<1>1. \A h : TellsOf(h, i)' = TellsOf(h, i)
  BY CountsKept
<1>2. InMode(i)' <=> InMode(i)
  BY CountsKept
<1>3. Kind(i)' = Kind(i) /\ outputs'[i] = outputs[i] /\ (OfStream(i)' <=> OfStream(i))
  BY DEF Kind, OfStream
<1>4. Kind(i) \in {"FromCommand", "EndMode"} <=> InMode(i)
  BY DEF IsFramed
<1>5. ASSUME OfStream(i)
      PROVE  /\ (OfStream(i - 1) \/ Kind(i - 1) = "Prompt")'
             /\ \E j \in 1..(i - 1) : Kind(j)' = "New" /\ outputs'[j].handle = outputs'[i].handle
             /\ \A j \in TellsOf(outputs[i].handle, i) : Kind(j)' = "Stream"
             /\ Kind(i) = "Stream" =>
                   outputs[i].message = Cardinality(TellsOf(outputs[i].handle, i)) + 1
  <2>1. /\ OfStream(i - 1) \/ Kind(i - 1) = "Prompt"
        /\ \E j \in 1..(i - 1) : Kind(j) = "New" /\ outputs[j].handle = outputs[i].handle
        /\ \A j \in TellsOf(outputs[i].handle, i) : Kind(j) = "Stream"
        /\ Kind(i) = "Stream" =>
               outputs[i].message = Cardinality(TellsOf(outputs[i].handle, i)) + 1
    BY <1>5 DEF IsFramed
  <2>2. i - 1 \in 1..i
    BY <2>1
  <2>3. \A j \in 1..(i - 1) : Kind(j)' = Kind(j) /\ outputs'[j] = outputs[j]
    BY DEF Kind
  <2>4. \A j \in TellsOf(outputs[i].handle, i) : j \in 1..(i - 1)
    BY DEF TellsOf
  <2>5. (OfStream(i - 1) \/ Kind(i - 1) = "Prompt")'
    BY <2>1, <2>2 DEF OfStream, Kind
  <2> QED BY <1>3, <2>1, <2>3, <2>4, <2>5
<1> QED BY <1>1, <1>2, <1>3, <1>4, <1>5 DEF IsFramed

\* What the counts are when something was sent.
LEMMA CountsOf ==
  ASSUME IsSeq(outputs), NEW o, outputs' = Append(outputs, o), NEW n, n = OutLen + 1
  PROVE  /\ OutLen' = n /\ IsSeq(outputs') /\ outputs'[n] = o /\ n \in Nat \ {0}
         /\ \A j \in 1..(n - 1) : outputs'[j] = outputs[j]
         /\ \A kind : Count(kind, n) \in Nat
         /\ \A kind : Count(kind, n + 1)' = IF o.kind = kind THEN Count(kind, n) + 1 ELSE Count(kind, n)
         /\ \A h : TellsOf(h, n + 1)' = IF o.kind \in {"Stream", "End"} /\ o.handle = h
                                        THEN TellsOf(h, n) \cup {n} ELSE TellsOf(h, n)
         /\ \A h : IsFiniteSet(TellsOf(h, n)) /\ n \notin TellsOf(h, n)
<1>1. /\ OutLen' = n /\ IsSeq(outputs') /\ outputs'[n] = o /\ n \in Nat \ {0}
      /\ \A j \in 1..(n - 1) : outputs'[j] = outputs[j]
  BY OutputsOK, SeqAppend DEF OutLen
<1> DEFINE m == n - 1
<1>4. m \in Nat /\ m = n - 1 /\ n = m + 1 /\ (n + 1) - 1 = n /\ 1..n = 1..m \cup {n} /\ n \notin 1..m
  BY <1>1
<1>5. IsFiniteSet(1..m)
  BY <1>4, FS_Interval
<1> HIDE DEF m
<1>6. \A j \in 1..m : Kind(j)' = Kind(j) /\ outputs'[j] = outputs[j]
  BY <1>1, <1>4 DEF Kind
<1>2. ASSUME NEW kind
      PROVE  /\ Count(kind, n) \in Nat
             /\ Count(kind, n + 1)' = IF o.kind = kind THEN Count(kind, n) + 1 ELSE Count(kind, n)
  <2> DEFINE C == {j \in 1..m : Kind(j) = kind}
             D == {j \in 1..n : Kind(j)' = kind}
  <2>1. IsFiniteSet(C)
    <3>1. C \subseteq 1..m
      OBVIOUS
    <3> HIDE DEF C
    <3> QED BY <1>5, <3>1, FS_Subset
  <2>2. D = IF o.kind = kind THEN C \cup {n} ELSE C
    BY <1>1, <1>4, <1>6 DEF Kind
  <2>3. n \notin C
    BY <1>4
  <2>4. Count(kind, n) = Cardinality(C) /\ Count(kind, n + 1)' = Cardinality(D)
    BY <1>4 DEF Count
  <2> HIDE DEF C, D
  <2>5. Cardinality(C) \in Nat /\ Cardinality(C \cup {n}) = Cardinality(C) + 1
    BY <2>1, <2>3, FS_CardinalityType, FS_AddElement
  <2> QED BY <2>2, <2>4, <2>5
<1>3. ASSUME NEW h
      PROVE  /\ TellsOf(h, n + 1)' = IF o.kind \in {"Stream", "End"} /\ o.handle = h
                                     THEN TellsOf(h, n) \cup {n} ELSE TellsOf(h, n)
             /\ IsFiniteSet(TellsOf(h, n)) /\ n \notin TellsOf(h, n)
  <2>1. TellsOf(h, n + 1)' = {j \in 1..n : outputs'[j].kind \in {"Stream", "End"} /\ outputs'[j].handle = h}
    BY <1>4 DEF TellsOf, OfStream, Kind
  <2>2. TellsOf(h, n) = {j \in 1..m : outputs[j].kind \in {"Stream", "End"} /\ outputs[j].handle = h}
    BY <1>4 DEF TellsOf, OfStream, Kind
  <2>3. n \notin TellsOf(h, n) /\ TellsOf(h, n) \subseteq 1..m
    BY <1>4, <2>2
  <2>4. IsFiniteSet(TellsOf(h, n))
    BY <1>5, <2>3, FS_Subset
  <2>5. TellsOf(h, n + 1)' = IF o.kind \in {"Stream", "End"} /\ o.handle = h
                             THEN TellsOf(h, n) \cup {n} ELSE TellsOf(h, n)
    <3> DEFINE A == TellsOf(h, n + 1)'
               B == TellsOf(h, n)
    <3>1. \A j \in 1..m : j \in A <=> j \in B
      BY <1>4, <1>6, <2>1, <2>2
    <3>2. n \in A <=> (o.kind \in {"Stream", "End"} /\ o.handle = h)
      BY <1>1, <1>4, <2>1
    <3>3. A \subseteq 1..n /\ B \subseteq 1..m
      BY <2>1, <2>2
    <3> HIDE DEF A, B
    <3>4. A = IF o.kind \in {"Stream", "End"} /\ o.handle = h THEN B \cup {n} ELSE B
      <4>1. \A j : j \in A => j \in 1..m \/ j = n
        BY <1>4, <3>3
      <4>2. \A j : j \in B => j \in 1..m
        BY <3>3
      <4>3. CASE o.kind \in {"Stream", "End"} /\ o.handle = h
        <5>1. \A j : j \in A <=> j \in B \cup {n}
          BY <4>1, <4>2, <4>3, <3>1, <3>2
        <5> QED BY <4>3, <5>1
      <4>4. CASE ~(o.kind \in {"Stream", "End"} /\ o.handle = h)
        <5>1. \A j : j \in A <=> j \in B
          BY <4>1, <4>2, <4>4, <3>1, <3>2
        <5> QED BY <4>4, <5>1
      <4> QED BY <4>3, <4>4
    <3> QED BY <3>4 DEF A, B
  <2> QED BY <2>3, <2>4, <2>5
<1> QED BY <1>1, <1>2, <1>3

\* What may be sent next.
MaySend(o) ==
    /\ o.kind \in {"FromCommand", "EndMode"} <=> pc \in InModes
    /\ o.kind \in {"Stream", "End"} =>
          /\ pc = "reading" /\ o.handle \in Handles
          /\ o.kind = "Stream" => o.message = streams[o.handle].told + 1

\* What may be sent next is where it belongs.
LEMMA SentIsFramed ==
  ASSUME IsSeq(outputs), OutputIsFramed, MarksOK, PromptOK, TellsOK,
         NEW o, outputs' = Append(outputs, o), MaySend(o)
  PROVE  OutputIsFramed'
<1>1. PICK n : n = OutLen + 1
  OBVIOUS
<1>2. /\ OutLen' = n /\ IsSeq(outputs') /\ outputs'[n] = o /\ n \in Nat \ {0}
      /\ \A j \in 1..(n - 1) : outputs'[j] = outputs[j]
      /\ \A kind : Count(kind, n) \in Nat
  BY <1>1, CountsOf
<1>3. DOMAIN outputs = 1..(n - 1) /\ DOMAIN outputs' = 1..n /\ OutLen = n - 1
  BY <1>1, <1>2, OutputsOK, SeqOK DEF OutLen
<1>4. ASSUME NEW i \in 1..(n - 1) PROVE IsFramed(i)'
  <2>1. IsFramed(i) /\ i \in Nat \ {0} /\ \A j \in 1..i : outputs'[j] = outputs[j]
    BY <1>2, <1>3 DEF OutputIsFramed
  <2> QED BY <2>1, FramedKept
<1>5. IsFramed(n)'
  <2>1. /\ InMode(n)' <=> InMode(n)
        /\ \A h : TellsOf(h, n)' = TellsOf(h, n)
    BY <1>2, CountsKept
  <2>2. InMode(n) <=> pc \in InModes
    BY <1>1, <1>2 DEF MarksOK, InMode
  <2>3. Kind(n)' = o.kind /\ (OfStream(n)' <=> o.kind \in {"Stream", "End"})
    BY <1>2 DEF Kind, OfStream
  <2>4. Kind(n)' \in {"FromCommand", "EndMode"} <=> InMode(n)'
    BY <2>1, <2>2, <2>3 DEF MaySend
  <2>5. ASSUME o.kind \in {"Stream", "End"}
        PROVE  /\ (OfStream(n - 1) \/ Kind(n - 1) = "Prompt")'
               /\ \E j \in 1..(n - 1) : Kind(j)' = "New" /\ outputs'[j].handle = o.handle
               /\ \A j \in TellsOf(o.handle, n) : Kind(j)' = "Stream"
               /\ o.kind = "Stream" => o.message = Cardinality(TellsOf(o.handle, n)) + 1
    <3>1. n - 1 \in 1..(n - 1) /\ (OfStream(n - 1) \/ Kind(n - 1) = "Prompt")
      BY <1>2, <1>3, <2>5 DEF MaySend, PromptOK
    <3>2. \A j \in 1..(n - 1) : Kind(j)' = Kind(j) /\ outputs'[j] = outputs[j]
      BY <1>2 DEF Kind
    <3>3. (OfStream(n - 1) \/ Kind(n - 1) = "Prompt")'
      BY <3>1, <3>2 DEF OfStream
    <3>4. /\ \E j \in 1..(n - 1) : Kind(j) = "New" /\ outputs[j].handle = o.handle
          /\ \A j \in TellsOf(o.handle, n) : Kind(j) = "Stream"
          /\ streams[o.handle].told = Cardinality(TellsOf(o.handle, n))
      BY <1>1, <1>3, <2>5 DEF MaySend, TellsOK
    <3>5. \A j \in TellsOf(o.handle, n) : j \in 1..(n - 1)
      BY DEF TellsOf
    <3> QED BY <2>5, <3>2, <3>3, <3>4, <3>5 DEF MaySend
  <2> QED BY <1>2, <2>1, <2>3, <2>4, <2>5 DEF IsFramed
<1>6. \A i \in 1..n : i \in 1..(n - 1) \/ i = n
  BY <1>2
<1>7. \A i \in 1..n : IsFramed(i)'
  BY <1>4, <1>5, <1>6
<1> QED BY <1>3, <1>7 DEF OutputIsFramed

\* The marks tell the mode that the session is in then, ...
LEMMA MarksAfter ==
  ASSUME IsSeq(outputs), MarksOK, NEW o, outputs' = Append(outputs, o),
         \/ o.kind = "Start" /\ pc \notin InModes /\ pc' \in InModes
         \/ o.kind = "EndMode" /\ pc \in InModes /\ pc' \notin InModes
         \/ o.kind \notin {"Start", "EndMode"} /\ (pc' \in InModes <=> pc \in InModes)
  PROVE  MarksOK'
<1>1. PICK n : n = OutLen + 1
  OBVIOUS
<1>2. PICK m : m = n + 1
  OBVIOUS
<1>3. /\ OutLen' = n /\ n \in Nat
      /\ \A kind : Count(kind, n) \in Nat
      /\ \A kind : Count(kind, m)' = IF o.kind = kind THEN Count(kind, n) + 1 ELSE Count(kind, n)
  BY <1>1, <1>2, CountsOf
<1>4. Count("Start", n) = Count("EndMode", n) + (IF pc \in InModes THEN 1 ELSE 0)
  BY <1>1 DEF MarksOK
<1>5. InModes' = InModes
  BY DEF InModes
<1>6. Count("Start", m)' = Count("EndMode", m)' + (IF pc' \in InModes THEN 1 ELSE 0)
  BY <1>3, <1>4
<1> QED BY <1>2, <1>3, <1>5, <1>6 DEF MarksOK

\* What is told of a stream once more is sent.
TellsGrown(o, h, n, m) ==
    /\ TellsOf(h, m)' = IF o.kind \in {"Stream", "End"} /\ o.handle = h
                        THEN TellsOf(h, n) \cup {n} ELSE TellsOf(h, n)
    /\ IsFiniteSet(TellsOf(h, n)) /\ n \notin TellsOf(h, n)

LEMMA TellsGrow ==
  ASSUME IsSeq(outputs), NEW o, outputs' = Append(outputs, o)
  PROVE  \A h, n, m : n = OutLen + 1 /\ m = n + 1 => TellsGrown(o, h, n, m)
<1> SUFFICES ASSUME NEW h, NEW n, NEW m, n = OutLen + 1, m = n + 1 PROVE TellsGrown(o, h, n, m)
  BY Zenon
<1>1. /\ TellsOf(h, n + 1)' = IF o.kind \in {"Stream", "End"} /\ o.handle = h
                              THEN TellsOf(h, n) \cup {n} ELSE TellsOf(h, n)
      /\ IsFiniteSet(TellsOf(h, n)) /\ n \notin TellsOf(h, n)
  BY CountsOf, Zenon
<1> QED BY <1>1, Zenon DEF TellsGrown

\* ... and what was said of the streams is noted.
LEMMA TellsAfter ==
  ASSUME IsSeq(outputs), StreamsOK, TellsOK, NEW o, outputs' = Append(outputs, o),
         nextHandle' \in Nat, nextHandle <= nextHandle',
         o.kind \in {"Stream", "End"} => o.handle \in Handles,
         \A h \in Handles' :
            \/ /\ h \in Handles /\ ~(o.kind = "End" /\ o.handle = h)
               /\ streams'[h].told = IF o.kind = "Stream" /\ o.handle = h THEN streams[h].told + 1
                                     ELSE streams[h].told
            \/ h = nextHandle /\ o.kind = "New" /\ o.handle = h /\ streams'[h].told = 0
  PROVE  TellsOK'
<1>1. PICK n : n = OutLen + 1
  OBVIOUS
<1>2. PICK m : m = n + 1
  OBVIOUS
<1>3. /\ OutLen' = n /\ outputs'[n] = o /\ n \in Nat \ {0}
      /\ \A j \in 1..(n - 1) : outputs'[j] = outputs[j]
      /\ \A h : TellsOf(h, m)' = IF o.kind \in {"Stream", "End"} /\ o.handle = h
                                 THEN TellsOf(h, n) \cup {n} ELSE TellsOf(h, n)
      /\ \A h : IsFiniteSet(TellsOf(h, n)) /\ n \notin TellsOf(h, n)
  <2>1. /\ OutLen' = n /\ outputs'[n] = o /\ n \in Nat \ {0}
        /\ \A j \in 1..(n - 1) : outputs'[j] = outputs[j]
    BY <1>1, CountsOf
  <2>2. ASSUME NEW h
        PROVE  /\ TellsOf(h, m)' = IF o.kind \in {"Stream", "End"} /\ o.handle = h
                                   THEN TellsOf(h, n) \cup {n} ELSE TellsOf(h, n)
               /\ IsFiniteSet(TellsOf(h, n)) /\ n \notin TellsOf(h, n)
    <3>1. TellsGrown(o, h, n, m)
      BY <1>1, <1>2, TellsGrow, Zenon
    <3> QED BY <3>1, Zenon DEF TellsGrown
  <2> QED BY <2>1, <2>2
<1>7. OutLen = n - 1 /\ 1..n = 1..(n - 1) \cup {n}
  BY <1>1, <1>3, OutputsOK
<1>4. /\ \A j \in 1..(n - 1) : Kind(j)' = Kind(j) /\ (OfStream(j)' <=> OfStream(j))
      /\ Kind(n)' = o.kind /\ (OfStream(n)' <=> o.kind \in {"Stream", "End"})
  BY <1>3 DEF Kind, OfStream
<1>5. \A j \in 1..n : OfStream(j)' => outputs'[j].handle \in 0..nextHandle'-1
  <2> SUFFICES ASSUME NEW j \in 1..n, OfStream(j)' PROVE outputs'[j].handle \in 0..nextHandle'-1
    OBVIOUS
  <2>1. nextHandle \in Nat /\ \A h \in Handles : h \in 0..nextHandle-1
    BY DEF StreamsOK
  <2>2. CASE j = n
    <3>1. outputs'[j] = o /\ o.kind \in {"Stream", "End"} /\ o.handle \in 0..nextHandle-1
      BY <1>3, <1>4, <2>1, <2>2
    <3> QED BY <2>1, <3>1
  <2>3. CASE j \in 1..(n - 1)
    <3>1. outputs'[j] = outputs[j] /\ OfStream(j) /\ outputs[j].handle \in 0..nextHandle-1
      BY <1>3, <1>4, <1>7, <2>3 DEF TellsOK
    <3> QED BY <2>1, <3>1
  <2> QED BY <1>3, <1>7, <2>2, <2>3
<1>6. ASSUME NEW h \in Handles'
      PROVE  /\ \E j \in 1..n : Kind(j)' = "New" /\ outputs'[j].handle = h
             /\ \A j \in TellsOf(h, m)' : Kind(j)' = "Stream"
             /\ streams'[h].told = Cardinality(TellsOf(h, m)')
  <2>1. \A j \in TellsOf(h, n) : j \in 1..(n - 1)
    BY DEF TellsOf
  <2>2. CASE h = nextHandle /\ o.kind = "New" /\ o.handle = h /\ streams'[h].told = 0
    <3>1. TellsOf(h, n) = {}
      <4>1. \A j \in 1..(n - 1) : OfStream(j) => outputs[j].handle \in 0..nextHandle-1
        BY <1>3, <1>7 DEF TellsOK
      <4>2. nextHandle \in Nat
        BY DEF StreamsOK
      <4> QED BY <2>2, <4>1, <4>2 DEF TellsOf
    <3>2. TellsOf(h, m)' = {}
      BY <1>3, <2>2, <3>1
    <3>3. n \in 1..n /\ Kind(n)' = "New" /\ outputs'[n].handle = h
      BY <1>3, <1>4, <2>2
    <3>4. Cardinality({}) = 0
      BY FS_EmptySet
    <3> QED BY <2>2, <3>2, <3>3, <3>4
  <2>3. CASE /\ h \in Handles /\ ~(o.kind = "End" /\ o.handle = h)
             /\ streams'[h].told = IF o.kind = "Stream" /\ o.handle = h THEN streams[h].told + 1
                                   ELSE streams[h].told
    <3>1. /\ \E j \in 1..(n - 1) : Kind(j) = "New" /\ outputs[j].handle = h
          /\ \A j \in TellsOf(h, n) : Kind(j) = "Stream"
          /\ streams[h].told = Cardinality(TellsOf(h, n))
      BY <1>1, <1>3, <1>7, <2>3 DEF TellsOK
    <3>2. \E j \in 1..n : Kind(j)' = "New" /\ outputs'[j].handle = h
      <4>1. PICK j \in 1..(n - 1) : Kind(j) = "New" /\ outputs[j].handle = h
        BY <3>1
      <4>2. j \in 1..n /\ Kind(j)' = "New" /\ outputs'[j].handle = h
        BY <1>3, <1>4, <1>7, <4>1
      <4> QED BY <4>2
    <3>3. CASE o.kind = "Stream" /\ o.handle = h
      <4>1. TellsOf(h, m)' = TellsOf(h, n) \cup {n}
        BY <1>3, <3>3
      <4>2. Cardinality(TellsOf(h, n) \cup {n}) = Cardinality(TellsOf(h, n)) + 1
        BY <1>3, FS_AddElement
      <4> QED BY <1>4, <2>1, <2>3, <3>1, <3>2, <3>3, <4>1, <4>2
    <3>4. CASE ~(o.kind = "Stream" /\ o.handle = h)
      <4>1. TellsOf(h, m)' = TellsOf(h, n)
        BY <1>3, <2>3, <3>4
      <4> QED BY <1>4, <2>1, <2>3, <3>1, <3>2, <3>4, <4>1
    <3> QED BY <3>3, <3>4
  <2> QED BY <2>2, <2>3
<1> QED BY <1>2, <1>3, <1>5, <1>6 DEF TellsOK

----------------------------------------------------------------------------
(* A step sends nothing, or one thing. *)

SaysNothing ==
    /\ outputs' = outputs
    /\ \/ outputClosed' \/ pc' = "ended"
       \/ /\ outputClosed' = outputClosed /\ pc # "ended"
          /\ pc' \in InModes <=> pc \in InModes
          /\ pc' = "reading" => pc = "reading"
          /\ Handles' = Handles /\ nextHandle' = nextHandle
          /\ \A h \in Handles : streams'[h].told = streams[h].told

Says(o) ==
    /\ outputs' = Append(outputs, o) /\ ~outputClosed /\ pc # "ended"
    /\ MaySend(o)
    /\ \/ o.kind = "Start" /\ pc \notin InModes /\ pc' \in InModes
       \/ o.kind = "EndMode" /\ pc \in InModes /\ pc' \notin InModes
       \/ o.kind \notin {"Start", "EndMode"} /\ (pc' \in InModes <=> pc \in InModes)
    /\ pc' = "reading" => o.kind \in {"Prompt", "Stream", "End"}
    /\ nextHandle' \in Nat /\ nextHandle <= nextHandle'
    /\ \A h \in Handles' :
          \/ /\ h \in Handles /\ ~(o.kind = "End" /\ o.handle = h)
             /\ streams'[h].told = IF o.kind = "Stream" /\ o.handle = h THEN streams[h].told + 1
                                   ELSE streams[h].told
          \/ h = nextHandle /\ o.kind = "New" /\ o.handle = h /\ streams'[h].told = 0

\* At a prompt, ...
LEMMA PromptSays == Prompt /\ Typed => SaysNothing \/ \E o : Says(o)
<1> SUFFICES ASSUME Prompt, Typed PROVE SaysNothing \/ \E o : Says(o)
  OBVIOUS
<1>1. nextHandle \in Nat
  BY DEF Typed, StreamsOK
<1>2. CASE outputClosed
  BY <1>2 DEF Prompt, Notify, SaysNothing, outVars
<1>3. CASE ~outputClosed
  <2> DEFINE o == [kind |-> "Prompt"]
  <2>1. outputs' = Append(outputs, o) /\ o.kind = "Prompt"
    BY <1>3 DEF Prompt, Notify, Output
  <2> HIDE DEF o
  <2>2. Says(o)
    BY <1>1, <1>3, <2>1 DEF Prompt, Says, MaySend, InModes, streamVars, Handles
  <2> QED BY <2>2
<1> QED BY <1>2, <1>3

\* ... and of a stream, what has not been said of it, ...
LEMMA TellMessageSays ==
  ASSUME Typed, NEW h \in Handles, TellMessage(h) PROVE SaysNothing \/ \E o : Says(o)
<1>1. nextHandle \in Nat /\ \A x \in Handles : streams[x] \in [produced : Nat, told : Nat, closed : BOOLEAN]
  BY DEF Typed, StreamsOK
<1>2. CASE outputClosed
  BY <1>2 DEF TellMessage, Notify, SaysNothing, outVars
<1>3. CASE ~outputClosed
  <2> DEFINE o == [kind |-> "Stream", handle |-> h, message |-> streams[h].told + 1]
  <2>1. outputs' = Append(outputs, o) /\ o.kind = "Stream" /\ o.handle = h /\ o.message = streams[h].told + 1
    BY <1>3 DEF TellMessage, Notify, Output
  <2> HIDE DEF o
  <2>2. pc = "reading" /\ pc' = pc /\ nextHandle' = nextHandle
    BY DEF TellMessage, WatchesStreams
  <2>3. Handles' = Handles /\ \A x \in Handles : streams'[x].told = IF x = h THEN streams[x].told + 1 ELSE streams[x].told
    BY <1>1 DEF TellMessage, Handles
  <2>4. Says(o)
    BY <1>1, <1>3, <2>1, <2>2, <2>3 DEF Says, MaySend, InModes
  <2> QED BY <2>4
<1> QED BY <1>2, <1>3

\* ... and its end, ...
LEMMA TellEndSays ==
  ASSUME Typed, NEW h \in Handles, TellEnd(h) PROVE SaysNothing \/ \E o : Says(o)
<1>1. nextHandle \in Nat
  BY DEF Typed, StreamsOK
<1>2. CASE outputClosed
  BY <1>2 DEF TellEnd, Notify, SaysNothing, outVars
<1>3. CASE ~outputClosed
  <2> DEFINE o == [kind |-> "End", handle |-> h]
  <2>1. outputs' = Append(outputs, o) /\ o.kind = "End" /\ o.handle = h
    BY <1>3 DEF TellEnd, Notify, Output
  <2> HIDE DEF o
  <2>2. pc = "reading" /\ pc' = pc /\ nextHandle' = nextHandle
    BY DEF TellEnd, WatchesStreams
  <2>3. Handles' = Handles \ {h} /\ \A x \in Handles' : streams'[x] = streams[x]
    BY DEF TellEnd, Handles
  <2>4. Says(o)
    BY <1>1, <1>3, <2>1, <2>2, <2>3 DEF Says, MaySend, InModes
  <2> QED BY <2>4
<1> QED BY <1>2, <1>3


\* ... and in the answer to a request, ...
LEMMA NotifyOrEndSays ==
  ASSUME Typed, NEW o, NEW next, NotifyOrEnd(o, next),
         pc \in {"responding", "leaveMode"}, UNCHANGED streamVars,
         \/ pc = "responding" /\ next = "responding" /\ o.kind \in {"Message", "Json", "Error"}
         \/ pc = "responding" /\ next \in {"enterJson", "enterRaw"} /\ o.kind = "Start"
         \/ pc = "leaveMode" /\ next = "responding" /\ o.kind = "EndMode"
  PROVE  SaysNothing \/ \E x : Says(x)
<1>1. nextHandle \in Nat
  BY DEF Typed, StreamsOK
<1>2. CASE outputClosed
  BY <1>2 DEF NotifyOrEnd, SaysNothing, outVars
<1>3. CASE ~outputClosed
  <2>1. outputs' = Append(outputs, o) /\ pc' = next
    BY <1>3 DEF NotifyOrEnd, Output
  <2>2. Says(o)
    BY <1>1, <1>3, <2>1 DEF Says, MaySend, InModes, streamVars, Handles
  <2> QED BY <2>2
<1> QED BY <1>2, <1>3

\* ... its text, ...
LEMMA SendTextSays == Typed /\ SendText => SaysNothing \/ \E o : Says(o)
<1> SUFFICES ASSUME Typed, SendText PROVE SaysNothing \/ \E o : Says(o)
  OBVIOUS
<1>1. pc = "responding" /\ UNCHANGED streamVars
  BY DEF SendText, Responds
<1>2. \/ NotifyOrEnd([kind |-> "Message"], "responding")
      \/ NotifyOrEnd([kind |-> Head(responses).kind], "responding") /\ Head(responses).kind \in {"Json", "Error", "Message"}
  BY DEF SendText, IsText
<1>3. CASE NotifyOrEnd([kind |-> "Message"], "responding")
  BY <1>1, <1>3, NotifyOrEndSays
<1>4. CASE NotifyOrEnd([kind |-> Head(responses).kind], "responding") /\ Head(responses).kind \in {"Json", "Error", "Message"}
  BY <1>1, <1>4, NotifyOrEndSays
<1> QED BY <1>2, <1>3, <1>4

\* ... and a new stream, ...
LEMMA SendBackgroundSays == Typed /\ SendBackground => SaysNothing \/ \E o : Says(o)
<1> SUFFICES ASSUME Typed, SendBackground PROVE SaysNothing \/ \E o : Says(o)
  OBVIOUS
<1>1. nextHandle \in Nat /\ Handles \subseteq 0..nextHandle-1
  BY DEF Typed, StreamsOK
<1>2. CASE outputClosed
  BY <1>2 DEF SendBackground, NotifyOrEnd, SaysNothing, outVars
<1>3. CASE ~outputClosed
  <2> DEFINE o == [kind |-> "New", handle |-> nextHandle]
  <2>1. outputs' = Append(outputs, o) /\ pc' = "responding" /\ o.kind = "New" /\ o.handle = nextHandle
    BY <1>3 DEF SendBackground, NotifyOrEnd, Output
  <2> HIDE DEF o
  <2>2. pc = "responding" /\ nextHandle' = nextHandle + 1
    BY DEF SendBackground, Responds
  <2>3. Handles' = Handles \cup {nextHandle} /\ nextHandle \notin Handles
    BY <1>1 DEF SendBackground, Handles
  <2>4. streams'[nextHandle].told = 0 /\ \A h \in Handles : streams'[h] = streams[h]
    BY <2>3 DEF SendBackground
  <2>5. \A h \in Handles' :
          \/ /\ h \in Handles /\ ~(o.kind = "End" /\ o.handle = h)
             /\ streams'[h].told = IF o.kind = "Stream" /\ o.handle = h THEN streams[h].told + 1
                                   ELSE streams[h].told
          \/ h = nextHandle /\ o.kind = "New" /\ o.handle = h /\ streams'[h].told = 0
    <3> SUFFICES ASSUME NEW h \in Handles'
                 PROVE  \/ h \in Handles /\ streams'[h].told = streams[h].told
                        \/ h = nextHandle /\ streams'[h].told = 0
      BY <2>1
    <3>1. h \in Handles \/ h = nextHandle
      BY <2>3
    <3> QED BY <2>4, <3>1
  <2>6. MaySend(o)
    BY <2>1, <2>2 DEF MaySend, InModes
  <2>7. nextHandle' \in Nat /\ nextHandle <= nextHandle'
    BY <1>1, <2>2
  <2>8. Says(o)
    BY <1>3, <2>1, <2>2, <2>5, <2>6, <2>7 DEF Says, InModes
  <2> QED BY <2>8
<1> QED BY <1>2, <1>3

\* ... and what the command says that has the socket.
LEMMA CommandWritesSays == Typed /\ CommandWrites => \E o : Says(o)
<1> SUFFICES ASSUME Typed, CommandWrites PROVE \E o : Says(o)
  OBVIOUS
<1>1. nextHandle \in Nat
  BY DEF Typed, StreamsOK
<1> DEFINE o == [kind |-> "FromCommand"]
<1>2. outputs' = Append(outputs, o) /\ ~outputClosed /\ o.kind = "FromCommand"
  BY DEF CommandWrites, Output
<1>3. pc \in {"json", "raw"} /\ pc' = pc /\ UNCHANGED streamVars
  BY DEF CommandWrites, HasSocket
<1> HIDE DEF o
<1>4. Says(o)
  BY <1>1, <1>2, <1>3 DEF Says, MaySend, InModes, streamVars, Handles
<1> QED BY <1>4

\* That a stream goes on is not sent at once.
LEMMA StreamsGoOn ==
  ASSUME Typed, NEW h \in Handles, StreamProduces(h) \/ StreamCloses(h) PROVE SaysNothing
<1>1. \A x \in Handles : streams[x] \in [produced : Nat, told : Nat, closed : BOOLEAN]
  BY DEF Typed, StreamsOK
<1>2. outputs' = outputs /\ outputClosed' = outputClosed /\ pc' = pc /\ pc # "ended" /\ nextHandle' = nextHandle
  BY DEF StreamProduces, StreamCloses, outVars
<1>3. Handles' = Handles
  BY DEF StreamProduces, StreamCloses, Handles
<1>4. \A x \in Handles : streams'[x].told = streams[x].told
  BY <1>1 DEF StreamProduces, StreamCloses, Handles
<1> QED BY <1>2, <1>3, <1>4 DEF SaysNothing

\* The other steps send nothing.
LEMMA OthersSayNothing ==
  \/ TakeRequest \/ TakeNoRequest \/ AssignVariable \/ EndResponses \/ EnterMode \/ JsonReadsChunk
  \/ JsonParsesValue \/ JsonParserEnds \/ RawReadsChunk \/ PeerWrites \/ PeerCloses
  \/ PeerTakes \/ PeerHangsUp \/ CommandReads \/ CommandDropsInput
  \/ CommandEnds \/ SetVariable \/ QueryVariable \/ ReplyTaken \/ RequestsEnd
  => SaysNothing
<1>1. TakeRequest => SaysNothing
  BY DEF TakeRequest, ReadsInput, SaysNothing, InModes, outVars, streamVars, Handles
<1>2. TakeNoRequest \/ RequestsEnd \/ PeerHangsUp => SaysNothing
  BY DEF TakeNoRequest, RequestsEnd, PeerHangsUp, SaysNothing, outVars
<1>3. AssignVariable \/ EndResponses => SaysNothing
  BY DEF AssignVariable, EndResponses, Responds, SaysNothing, InModes, outVars, streamVars, Handles
<1>4. EnterMode \/ CommandEnds => SaysNothing
  BY DEF EnterMode, CommandEnds, HasSocket, SaysNothing, InModes, outVars, streamVars, Handles
<1>5. JsonReadsChunk \/ JsonParsesValue \/ JsonParserEnds => SaysNothing
  BY DEF JsonReadsChunk, JsonParsesValue, JsonParserEnds, SaysNothing, outVars, streamVars, Handles
<1>6. RawReadsChunk \/ CommandReads \/ CommandDropsInput => SaysNothing
  BY DEF RawReadsChunk, CommandReads, CommandDropsInput, HasSocket, SaysNothing, outVars, streamVars, Handles
<1>7. PeerWrites \/ PeerCloses \/ PeerTakes => SaysNothing
  BY DEF PeerWrites, PeerCloses, PeerTakes, SaysNothing, outVars, streamVars, Handles
<1>8. SetVariable \/ QueryVariable \/ ReplyTaken => SaysNothing
  BY DEF SetVariable, QueryVariable, ReplyTaken, SaysNothing, outVars, streamVars, Handles
<1> QED BY <1>1, <1>2, <1>3, <1>4, <1>5, <1>6, <1>7, <1>8

\* So a step sends nothing, or what may be sent.
LEMMA StepSays == Typed /\ Next => SaysNothing \/ \E o : Says(o)
<1> SUFFICES ASSUME Typed, Next PROVE SaysNothing \/ \E o : Says(o)
  OBVIOUS
<1>1. SendNothingToAssign => SaysNothing \/ \E o : Says(o)
  <2> SUFFICES ASSUME SendNothingToAssign PROVE SaysNothing \/ \E o : Says(o)
    OBVIOUS
  <2>1. pc = "responding" /\ NotifyOrEnd([kind |-> "Error"], "responding") /\ UNCHANGED streamVars
    BY DEF SendNothingToAssign, Responds
  <2> QED BY <2>1, NotifyOrEndSays
<1>2. EndMode => SaysNothing \/ \E o : Says(o)
  <2> SUFFICES ASSUME EndMode PROVE SaysNothing \/ \E o : Says(o)
    OBVIOUS
  <2>1. pc = "leaveMode" /\ NotifyOrEnd([kind |-> "EndMode"], "responding") /\ UNCHANGED streamVars
    BY DEF EndMode
  <2> QED BY <2>1, NotifyOrEndSays
<1>3. StartMode => SaysNothing \/ \E o : Says(o)
  <2> SUFFICES ASSUME StartMode PROVE SaysNothing \/ \E o : Says(o)
    OBVIOUS
  <2>1. PICK next \in {"enterJson", "enterRaw"} : NotifyOrEnd([kind |-> "Start"], next)
    BY DEF StartMode
  <2>2. pc = "responding" /\ UNCHANGED streamVars
    BY DEF StartMode, Responds
  <2> QED BY <2>1, <2>2, NotifyOrEndSays
<1> QED BY NextCases, PromptSays, TellMessageSays, TellEndSays, SendTextSays, SendBackgroundSays,
        CommandWritesSays, StreamsGoOn, OthersSayNothing, <1>1, <1>2, <1>3
----------------------------------------------------------------------------
(* The frames stay. *)

\* A step that sends nothing ...
LEMMA SilenceIsFramed ==
  ASSUME FramesInv, SaysNothing, Typed' PROVE FramesInv'
<1>1. IsSeq(outputs) /\ OutputIsFramed /\ outputs' = outputs
  BY DEF FramesInv, SaysNothing
<1>2. IsSeq(outputs') /\ OutLen' = OutLen /\ OutLen \in Nat /\ DOMAIN outputs = 1..OutLen
  BY <1>1, OutputsOK DEF IsSeq, OutLen
<1>3. OutputIsFramed'
  <2> SUFFICES ASSUME NEW i \in 1..OutLen PROVE IsFramed(i)'
    BY <1>1, <1>2 DEF OutputIsFramed
  <2>1. IsFramed(i) /\ i \in Nat \ {0}
    BY <1>1, <1>2 DEF OutputIsFramed
  <2> QED BY <1>1, <2>1, FramedKept
<1>4. ASSUME ~outputClosed', pc' # "ended" PROVE MarksOK' /\ PromptOK' /\ TellsOK'
  <2>1. /\ ~outputClosed /\ pc # "ended"
        /\ pc' \in InModes <=> pc \in InModes
        /\ pc' = "reading" => pc = "reading"
        /\ Handles' = Handles /\ nextHandle' = nextHandle
        /\ \A h \in Handles : streams'[h].told = streams[h].told
    BY <1>4 DEF SaysNothing
  <2>2. MarksOK /\ PromptOK /\ TellsOK
    BY <2>1 DEF FramesInv
  <2>3. PICK n : n = OutLen + 1
    OBVIOUS
  <2>4. /\ \A kind : Count(kind, n)' = Count(kind, n)
        /\ \A h : TellsOf(h, n)' = TellsOf(h, n)
    BY <1>1, <1>2, <2>3, CountsKept
  <2>5. InModes' = InModes /\ \A j : Kind(j)' = Kind(j) /\ (OfStream(j)' <=> OfStream(j))
    BY <1>1 DEF InModes, Kind, OfStream
  <2>6. MarksOK'
    <3>1. Count("Start", n) = Count("EndMode", n) + (IF pc \in InModes THEN 1 ELSE 0)
      BY <2>2, <2>3 DEF MarksOK
    <3>2. Count("Start", n)' = Count("EndMode", n)' + (IF pc' \in InModes THEN 1 ELSE 0)
      BY <3>1, <2>1, <2>4
    <3> QED BY <1>2, <2>3, <2>5, <3>2 DEF MarksOK
  <2>7. PromptOK'
    BY <1>2, <2>1, <2>2, <2>5 DEF PromptOK
  <2>8. TellsOK'
    <3>1. \A h \in Handles :
            /\ \E j \in 1..OutLen : Kind(j) = "New" /\ outputs[j].handle = h
            /\ \A j \in TellsOf(h, n) : Kind(j) = "Stream"
            /\ streams[h].told = Cardinality(TellsOf(h, n))
      BY <2>2, <2>3 DEF TellsOK
    <3>2. \A h \in Handles' :
            /\ \E j \in 1..OutLen : Kind(j)' = "New" /\ outputs'[j].handle = h
            /\ \A j \in TellsOf(h, n)' : Kind(j)' = "Stream"
            /\ streams'[h].told = Cardinality(TellsOf(h, n)')
      BY <1>1, <2>1, <2>4, <2>5, <3>1
    <3>3. \A j \in 1..OutLen : OfStream(j)' => outputs'[j].handle \in 0..nextHandle'-1
      BY <1>1, <2>1, <2>2, <2>5 DEF TellsOK
    <3> QED BY <1>2, <2>3, <3>2, <3>3 DEF TellsOK
  <2> QED BY <2>6, <2>7, <2>8
<1> QED BY <1>2, <1>3, <1>4 DEF FramesInv

\* ... and one that sends what may be sent keep the frames, ...
LEMMA SayingIsFramed ==
  ASSUME FramesInv, NEW o, Says(o), Typed' PROVE FramesInv'
<1>1. IsSeq(outputs) /\ OutputIsFramed /\ StreamsOK
  BY DEF FramesInv, Typed
<1>2. MarksOK /\ PromptOK /\ TellsOK
  BY DEF FramesInv, Says
<1>3. outputs' = Append(outputs, o) /\ MaySend(o)
  BY DEF Says
<1>4. PICK n : n = OutLen + 1
  OBVIOUS
<1>5. OutLen' = n /\ IsSeq(outputs') /\ outputs'[n] = o /\ n \in Nat \ {0}
  BY <1>1, <1>3, <1>4, CountsOf
<1>6. OutputIsFramed'
  BY <1>1, <1>2, <1>3, SentIsFramed
<1>7. MarksOK'
  BY <1>1, <1>2, <1>3, MarksAfter DEF Says
<1>8. PromptOK'
  BY <1>5 DEF Says, PromptOK, OfStream, Kind
<1>9. TellsOK'
  <2>1. nextHandle' \in Nat /\ nextHandle <= nextHandle'
    BY DEF Says
  <2>2. o.kind \in {"Stream", "End"} => o.handle \in Handles
    BY <1>3 DEF MaySend
  <2>3. \A h \in Handles' :
            \/ /\ h \in Handles /\ ~(o.kind = "End" /\ o.handle = h)
               /\ streams'[h].told = IF o.kind = "Stream" /\ o.handle = h THEN streams[h].told + 1
                                     ELSE streams[h].told
            \/ h = nextHandle /\ o.kind = "New" /\ o.handle = h /\ streams'[h].told = 0
    BY DEF Says
  <2> QED BY <1>1, <1>2, <1>3, <2>1, <2>2, <2>3, TellsAfter
<1> QED BY <1>5, <1>6, <1>7, <1>8, <1>9 DEF FramesInv

\* ... which hold at first, ...
LEMMA FramesInit == Init => FramesInv
<1> SUFFICES ASSUME Init PROVE FramesInv
  OBVIOUS
<1>1. outputs = <<>> /\ pc = "prompt" /\ Handles = {} /\ nextHandle = 0
  BY DEF Init, Handles
<1>2. IsSeq(outputs) /\ DOMAIN outputs = {} /\ OutLen = 0
  BY <1>1, EmptyIsSeq DEF OutLen
<1>3. OutputIsFramed
  BY <1>2 DEF OutputIsFramed
<1>4. MarksOK
  <2>1. \A kind : Count(kind, 1) = 0
    <3> SUFFICES ASSUME NEW kind PROVE Cardinality({j \in 1..0 : Kind(j) = kind}) = 0
      BY DEF Count
    <3>1. {j \in 1..0 : Kind(j) = kind} = {}
      OBVIOUS
    <3> QED BY <3>1, FS_EmptySet
  <2> QED BY <1>1, <1>2, <2>1 DEF MarksOK, InModes
<1>5. PromptOK /\ TellsOK
  BY <1>1, <1>2 DEF PromptOK, TellsOK
<1> QED BY <1>2, <1>3, <1>4, <1>5, TypedInit DEF FramesInv

\* ... so every step keeps them.
LEMMA FramesStep == FramesInv /\ [Next]_vars => FramesInv'
<1> SUFFICES ASSUME FramesInv, [Next]_vars PROVE FramesInv'
  OBVIOUS
<1>1. Typed /\ Typed'
  BY TypedStep DEF FramesInv
<1>2. CASE Next
  <2>1. SaysNothing \/ \E o : Says(o)
    BY <1>1, <1>2, StepSays
  <2> QED BY <1>1, <2>1, SilenceIsFramed, SayingIsFramed
<1>3. CASE UNCHANGED vars
  <2>1. /\ outputs' = outputs /\ outputClosed' = outputClosed /\ pc' = pc /\ UNCHANGED streamVars
    BY <1>3 DEF vars, outVars
  <2>2. SaysNothing \/ outputClosed \/ pc = "ended"
    BY <2>1 DEF SaysNothing, streamVars, Handles
  <2>3. outputClosed \/ pc = "ended" => SaysNothing
    BY <2>1 DEF SaysNothing
  <2> QED BY <1>1, <2>2, <2>3, SilenceIsFramed
<1> QED BY <1>2, <1>3

\* The peer can tell the parts of the output from each other: between the start and the end of
\* a mode there is only what the command sends, and a stream in the background speaks at a
\* prompt, after it was announced, and says each of its messages once and in order, and then
\* its end (command_socket.rs and command_program.rs: next_request, send_response).
THEOREM OutputIsAlwaysFramed == Spec => []OutputIsFramed
<1>1. FramesInv => OutputIsFramed
  BY DEF FramesInv
<1> QED BY FramesInit, FramesStep, <1>1, PTL DEF Spec
----------------------------------------------------------------------------
(* The places of the items, as sequences and sets of numbers. *)

\* A sequence is its first element and the others.
LEMMA HeadAndTail ==
  ASSUME NEW S, NEW x \in Seq(S), x # <<>>
  PROVE  x = <<Head(x)>> \o Tail(x) /\ Head(x) \in S /\ Tail(x) \in Seq(S)
<1>1. /\ Head(x) = x[1] /\ x[1] \in S /\ Tail(x) \in Seq(S) /\ Len(Tail(x)) = Len(x) - 1
      /\ Len(x) \in Nat \ {0} /\ \A i \in 1..Len(x)-1 : Tail(x)[i] = x[i + 1]
  BY FirstOf
<1> DEFINE a == <<Head(x)>>
           b == Tail(x)
           y == a \o b
<1>2. a \in Seq(S) /\ Len(a) = 1 /\ a[1] = x[1]
  BY <1>1
<1>3. b \in Seq(S) /\ Len(b) = Len(x) - 1 /\ \A i \in 1..Len(x)-1 : b[i] = x[i + 1]
  BY <1>1
<1> HIDE DEF a, b
<1>4. /\ y \in Seq(S) /\ Len(y) = Len(a) + Len(b)
      /\ \A i \in 1..Len(a) + Len(b) : y[i] = IF i <= Len(a) THEN a[i] ELSE b[i - Len(a)]
  <2>1. a \in Seq(S) /\ b \in Seq(S)
    BY <1>2, <1>3
  <2> QED BY <2>1, ConcatProperties
<1> HIDE DEF y
<1>5. Len(y) = Len(x)
  BY <1>1, <1>2, <1>3, <1>4
<1>6. ASSUME NEW i \in 1..Len(x) PROVE y[i] = x[i]
  <2>1. y[i] = IF i <= 1 THEN a[i] ELSE b[i - 1]
    BY <1>1, <1>2, <1>3, <1>4
  <2>2. CASE i = 1
    BY <1>2, <2>1, <2>2
  <2>3. CASE i # 1
    <3>1. i - 1 \in 1..Len(x)-1 /\ (i - 1) + 1 = i /\ ~(i <= 1)
      BY <1>1, <2>3
    <3> QED BY <1>3, <2>1, <3>1
  <2> QED BY <2>2, <2>3
<1>7. x = y
  BY <1>4, <1>5, <1>6, SeqEqual
<1> QED BY <1>1, <1>7 DEF y, a, b

\* u has the numbers after s.
IsRun(u, s) == u \in Seq(Nat) /\ \A i \in 1..Len(u) : u[i] = s + i

\* The parts of a run are runs, ...
LEMMA RunSplit ==
  ASSUME NEW s \in Nat, NEW c \in Seq(Nat), NEW v \in Seq(Nat), IsRun(c \o v, s)
  PROVE  IsRun(c, s) /\ IsRun(v, s + Len(c)) /\ Len(c \o v) = Len(c) + Len(v)
<1>1. /\ Len(c) \in Nat /\ Len(v) \in Nat /\ Len(c \o v) = Len(c) + Len(v)
      /\ \A i \in 1..Len(c) + Len(v) : (c \o v)[i] = IF i <= Len(c) THEN c[i] ELSE v[i - Len(c)]
  BY ConcatProperties
<1> DEFINE w == c \o v
           m == Len(c)
           n == Len(v)
<1>2. \A i \in 1..m + n : w[i] = s + i /\ w[i] = IF i <= m THEN c[i] ELSE v[i - m]
  BY <1>1 DEF IsRun
<1>3. m \in Nat /\ n \in Nat
  BY <1>1
<1> HIDE DEF w, m, n
<1>4. \A i \in 1..m : c[i] = s + i
  BY <1>2, <1>3
<1>5. ASSUME NEW i \in 1..n PROVE v[i] = (s + m) + i
  <2>1. m + i \in 1..m + n /\ ~(m + i <= m) /\ (m + i) - m = i /\ s + (m + i) = (s + m) + i
    BY <1>3
  <2> QED BY <1>2, <2>1
<1> QED BY <1>1, <1>4, <1>5 DEF IsRun, m, n

\* ... and so are two of them that follow each other, ...
LEMMA RunJoin ==
  ASSUME NEW s \in Nat, NEW u, NEW v, IsRun(u, s), IsRun(v, s + Len(u))
  PROVE  IsRun(u \o v, s) /\ Len(u \o v) = Len(u) + Len(v)
<1>1. u \in Seq(Nat) /\ v \in Seq(Nat)
  BY DEF IsRun
<1>2. /\ Len(u) \in Nat /\ Len(v) \in Nat /\ Len(u \o v) = Len(u) + Len(v) /\ u \o v \in Seq(Nat)
      /\ \A i \in 1..Len(u) + Len(v) : (u \o v)[i] = IF i <= Len(u) THEN u[i] ELSE v[i - Len(u)]
  BY <1>1, ConcatProperties
<1>3. ASSUME NEW i \in 1..Len(u \o v) PROVE (u \o v)[i] = s + i
  <2>1. CASE i <= Len(u)
    BY <1>2, <2>1 DEF IsRun
  <2>2. CASE ~(i <= Len(u))
    <3>1. i - Len(u) \in 1..Len(v) /\ (s + Len(u)) + (i - Len(u)) = s + i
      BY <1>2, <2>2
    <3>2. (u \o v)[i] = v[i - Len(u)] /\ v[i - Len(u)] = (s + Len(u)) + (i - Len(u))
      BY <1>2, <2>2, <3>1 DEF IsRun
    <3> QED BY <3>1, <3>2
  <2> QED BY <2>1, <2>2
<1> QED BY <1>2, <1>3 DEF IsRun

\* ... and its elements are an interval.
LEMMA RunSet ==
  ASSUME NEW s \in Nat, NEW c, IsRun(c, s)
  PROVE  /\ c \in Seq(Nat) /\ Len(c) \in Nat
         /\ ToSet(c) = (s + 1)..(s + Len(c))
         /\ IsFiniteSet(ToSet(c)) /\ Cardinality(ToSet(c)) = Len(c)
<1>1. c \in Seq(Nat) /\ Len(c) \in Nat /\ DOMAIN c = 1..Len(c) /\ \A i \in 1..Len(c) : c[i] = s + i
  BY DEF IsRun
<1>2. ToSet(c) = (s + 1)..(s + Len(c))
  <2>1. ASSUME NEW k \in (s + 1)..(s + Len(c)) PROVE k \in ToSet(c)
    <3>1. k - s \in 1..Len(c) /\ s + (k - s) = k
      BY <1>1
    <3> QED BY <1>1, <3>1 DEF ToSet
  <2>2. ASSUME NEW i \in 1..Len(c) PROVE c[i] \in (s + 1)..(s + Len(c))
    BY <1>1
  <2> QED BY <1>1, <2>1, <2>2 DEF ToSet
<1>3. IsFiniteSet((s + 1)..(s + Len(c))) /\ Cardinality((s + 1)..(s + Len(c))) = Len(c)
  <2>1. s + 1 \in Int /\ s + Len(c) \in Int
    BY <1>1
  <2>2. /\ IsFiniteSet((s + 1)..(s + Len(c)))
        /\ Cardinality((s + 1)..(s + Len(c))) = IF s + 1 > s + Len(c) THEN 0 ELSE (s + Len(c)) - (s + 1) + 1
    BY <2>1, FS_Interval
  <2> QED BY <1>1, <2>2
<1> QED BY <1>1, <1>2, <1>3

\* A sequence that rises has as many elements as places.
Rises(p) == p \in Seq(Nat) /\ \A i, j \in 1..Len(p) : i < j => p[i] < p[j]

\* The size of its set of elements.
LEMMA RisingSet ==
  ASSUME NEW p, Rises(p)
  PROVE  Len(p) \in Nat /\ IsFiniteSet(ToSet(p)) /\ Cardinality(ToSet(p)) = Len(p) /\ ToSet(p) \subseteq Nat
<1>1. p \in Seq(Nat) /\ Len(p) \in Nat /\ DOMAIN p = 1..Len(p) /\ \A i \in 1..Len(p) : p[i] \in Nat
  BY DEF Rises
<1> DEFINE f == [i \in 1..Len(p) |-> p[i]]
<1>2. ToSet(p) = {p[i] : i \in 1..Len(p)} /\ ToSet(p) \subseteq Nat
  BY <1>1 DEF ToSet
<1>3. \A i, j \in 1..Len(p) : i # j => p[i] # p[j]
  <2> SUFFICES ASSUME NEW i \in 1..Len(p), NEW j \in 1..Len(p), i # j PROVE p[i] # p[j]
    OBVIOUS
  <2>1. i < j \/ j < i
    BY <1>1
  <2> QED BY <1>1, <2>1 DEF Rises
<1>4. f \in Bijection(1..Len(p), ToSet(p))
  BY <1>2, <1>3 DEF Bijection, Injection, Surjection, IsInjective
<1>5. ExistsBijection(1..Len(p), ToSet(p))
  BY <1>4 DEF ExistsBijection
<1>6. IsFiniteSet(1..Len(p)) /\ Cardinality(1..Len(p)) = Len(p)
  <2>1. /\ IsFiniteSet(1..Len(p))
        /\ Cardinality(1..Len(p)) = IF 1 > Len(p) THEN 0 ELSE Len(p) - 1 + 1
    BY <1>1, FS_Interval
  <2> QED BY <1>1, <2>1
<1>7. IsFiniteSet(ToSet(p)) /\ Cardinality(ToSet(p)) = Cardinality(1..Len(p))
  <2> DEFINE D == 1..Len(p)
             T == ToSet(p)
  <2>1. IsFiniteSet(D) /\ ExistsBijection(D, T)
    BY <1>5, <1>6
  <2> HIDE DEF D, T
  <2>2. IsFiniteSet(T) /\ Cardinality(T) = Cardinality(D)
    BY <2>1, FS_Bijection
  <2> QED BY <2>2 DEF D, T
<1> QED BY <1>1, <1>2, <1>6, <1>7

\* The items up to s are in the past or in the pipe p, and those after s are unread in u.
AllPlaced(u, s, p, n, req, con, lo) ==
    /\ s \in Nat /\ n \in Nat
    /\ IsRun(u, s) /\ Rises(p)
    /\ \A k \in con, i \in 1..Len(p) : k < p[i]
    /\ lo \cap ToSet(p) = {}
    /\ req \cup con \cup lo \cup ToSet(p) = 1..s
    /\ n + Cardinality(con) + Cardinality(lo) + Len(p) = s

\* The sets are finite, and their elements have been sent.
LEMMA PlacedSets ==
  ASSUME NEW u, NEW s, NEW p, NEW n, NEW req, NEW con, NEW lo, AllPlaced(u, s, p, n, req, con, lo)
  PROVE  /\ s \in Nat /\ n \in Nat /\ p \in Seq(Nat) /\ Len(p) \in Nat
         /\ req \subseteq 1..s /\ con \subseteq 1..s /\ lo \subseteq 1..s /\ ToSet(p) \subseteq 1..s
         /\ IsFiniteSet(con) /\ IsFiniteSet(lo) /\ IsFiniteSet(ToSet(p))
         /\ Cardinality(con) \in Nat /\ Cardinality(lo) \in Nat
         /\ Cardinality(ToSet(p)) = Len(p)
<1>1. s \in Nat /\ n \in Nat /\ req \cup con \cup lo \cup ToSet(p) = 1..s /\ Rises(p)
  BY DEF AllPlaced
<1>2. req \subseteq 1..s /\ con \subseteq 1..s /\ lo \subseteq 1..s /\ ToSet(p) \subseteq 1..s
  BY <1>1
<1>3. IsFiniteSet(1..s)
  BY <1>1, FS_Interval
<1>4. IsFiniteSet(con) /\ IsFiniteSet(lo)
  BY <1>2, <1>3, FS_Subset
<1>5. Cardinality(con) \in Nat /\ Cardinality(lo) \in Nat
  BY <1>4, FS_CardinalityType
<1> QED BY <1>1, <1>2, <1>4, <1>5, RisingSet DEF Rises

\* A union of sets that have no element in common.
LEMMA SumOf ==
  ASSUME NEW A, NEW B, IsFiniteSet(A), IsFiniteSet(B), A \cap B = {}
  PROVE  Cardinality(A \cup B) = Cardinality(A) + Cardinality(B)
<1>1. /\ Cardinality(A \cup B) = Cardinality(A) + Cardinality(B) - Cardinality(A \cap B)
      /\ Cardinality(A) \in Nat /\ Cardinality(B) \in Nat
  BY FS_Union, FS_CardinalityType
<1>2. Cardinality(A \cap B) = 0
  BY FS_EmptySet
<1> QED BY <1>1, <1>2

\* The next item becomes a request, ...
LEMMA RequestPlaced ==
  ASSUME NEW v \in Seq(Nat), NEW k \in Nat, NEW s, NEW p, NEW n, NEW req, NEW con, NEW lo,
         AllPlaced(<<k>> \o v, s, p, n, req, con, lo)
  PROVE  /\ AllPlaced(v, s + 1, p, n + 1, req \cup {k}, con, lo)
         /\ \A j \in req : j < k
<1>1. PICK c : c = <<k>>
  OBVIOUS
<1>2. c \in Seq(Nat) /\ Len(c) = 1 /\ c[1] = k
  BY <1>1
<1>3. IsRun(c \o v, s) /\ s \in Nat /\ n \in Nat
  BY <1>1 DEF AllPlaced
<1>4. IsRun(c, s) /\ IsRun(v, s + Len(c))
  BY <1>2, <1>3, RunSplit
<1>5. k = s + 1 /\ IsRun(v, s + 1)
  BY <1>2, <1>4 DEF IsRun
<1>6. req \cup con \cup lo \cup ToSet(p) = 1..s
  BY DEF AllPlaced
<1>7. (req \cup {k}) \cup con \cup lo \cup ToSet(p) = 1..(s + 1)
  BY <1>3, <1>5, <1>6
<1>8. (n + 1) + Cardinality(con) + Cardinality(lo) + Len(p) = s + 1
  <2>1. n + Cardinality(con) + Cardinality(lo) + Len(p) = s
    BY DEF AllPlaced
  <2>2. n \in Nat /\ Cardinality(con) \in Nat /\ Cardinality(lo) \in Nat /\ Len(p) \in Nat /\ s \in Nat
    BY PlacedSets
  <2> QED BY <2>1, <2>2
<1>9. \A j \in req : j < k
  BY <1>3, <1>5, <1>6
<1> QED BY <1>3, <1>5, <1>7, <1>8, <1>9 DEF AllPlaced

\* ... or the next ones are put into the pipe, ...
LEMMA PipePlaced ==
  ASSUME NEW c \in Seq(Nat), NEW v \in Seq(Nat), NEW s, NEW p, NEW n, NEW req, NEW con, NEW lo,
         AllPlaced(c \o v, s, p, n, req, con, lo)
  PROVE  AllPlaced(v, s + Len(c), p \o c, n, req, con, lo)
<1>1. IsRun(c \o v, s) /\ s \in Nat /\ n \in Nat /\ Rises(p)
  BY DEF AllPlaced
<1>2. IsRun(c, s) /\ IsRun(v, s + Len(c))
  BY <1>1, RunSplit
<1>3. /\ Len(c) \in Nat /\ ToSet(c) = (s + 1)..(s + Len(c)) /\ DOMAIN c = 1..Len(c)
      /\ \A i \in 1..Len(c) : c[i] = s + i
  BY <1>1, <1>2, RunSet DEF IsRun
<1>4. /\ p \in Seq(Nat) /\ Len(p) \in Nat /\ DOMAIN p = 1..Len(p)
      /\ con \subseteq 1..s /\ lo \subseteq 1..s /\ ToSet(p) \subseteq 1..s
  BY PlacedSets
<1> DEFINE q == p \o c
<1>5. /\ q \in Seq(Nat) /\ Len(q) = Len(p) + Len(c) /\ DOMAIN q = 1..Len(q)
      /\ \A i \in 1..Len(p) + Len(c) : q[i] = IF i <= Len(p) THEN p[i] ELSE c[i - Len(p)]
  BY <1>4, ConcatProperties
<1> HIDE DEF q
<1>6. /\ \A i \in 1..Len(p) : q[i] = p[i] /\ p[i] \in 1..s
      /\ \A i \in Len(p)+1..Len(q) : q[i] = s + (i - Len(p))
  <2>1. \A i \in 1..Len(p) : q[i] = p[i] /\ p[i] \in 1..s
    <3> SUFFICES ASSUME NEW i \in 1..Len(p) PROVE q[i] = p[i] /\ p[i] \in ToSet(p)
      BY <1>4
    <3>1. i \in 1..Len(p) + Len(c) /\ i <= Len(p) /\ i \in DOMAIN p
      BY <1>3, <1>4
    <3>2. p[i] \in ToSet(p)
      BY <3>1 DEF ToSet
    <3>3. q[i] = p[i]
      BY <1>5, <3>1
    <3> QED BY <3>2, <3>3
  <2>2. ASSUME NEW i \in Len(p)+1..Len(q) PROVE q[i] = s + (i - Len(p))
    <3>1. i - Len(p) \in 1..Len(c) /\ i \in 1..Len(p) + Len(c) /\ ~(i <= Len(p))
      BY <1>3, <1>4, <1>5
    <3> QED BY <1>3, <1>5, <3>1
  <2> QED BY <2>1, <2>2
<1>7. Rises(q)
  <2> SUFFICES ASSUME NEW i \in 1..Len(q), NEW j \in 1..Len(q), i < j PROVE q[i] < q[j]
    BY <1>5 DEF Rises
  <2>1. CASE j <= Len(p)
    <3>1. i \in 1..Len(p) /\ j \in 1..Len(p)
      BY <1>4, <1>5, <2>1
    <3> QED BY <1>1, <1>6, <3>1 DEF Rises
  <2>2. CASE j > Len(p) /\ i <= Len(p)
    <3>1. i \in 1..Len(p) /\ j \in Len(p)+1..Len(q) /\ j - Len(p) >= 1
      BY <1>4, <1>5, <2>2
    <3>2. q[i] \in 1..s /\ q[j] = s + (j - Len(p))
      BY <1>6, <3>1
    <3> QED BY <1>1, <1>4, <3>1, <3>2
  <2>3. CASE i > Len(p)
    <3>1. i \in Len(p)+1..Len(q) /\ j \in Len(p)+1..Len(q)
      BY <1>3, <1>4, <1>5, <2>3
    <3>2. q[i] = s + (i - Len(p)) /\ q[j] = s + (j - Len(p))
      BY <1>6, <3>1
    <3> QED BY <1>1, <1>4, <3>1, <3>2
  <2> QED BY <1>4, <1>5, <2>1, <2>2, <2>3
<1>8. \A k \in con, i \in 1..Len(q) : k < q[i]
  <2> SUFFICES ASSUME NEW k \in con, NEW i \in 1..Len(q) PROVE k < q[i]
    OBVIOUS
  <2>1. CASE i <= Len(p)
    <3>1. i \in 1..Len(p)
      BY <1>4, <2>1
    <3> QED BY <1>6, <3>1 DEF AllPlaced
  <2>2. CASE i > Len(p)
    <3>1. i \in Len(p)+1..Len(q) /\ i - Len(p) >= 1
      BY <1>4, <1>5, <2>2
    <3>2. q[i] = s + (i - Len(p)) /\ k \in 1..s
      BY <1>4, <1>6, <3>1
    <3> QED BY <1>1, <1>4, <3>1, <3>2
  <2> QED BY <1>4, <2>1, <2>2
<1>9. ToSet(q) = ToSet(p) \cup ToSet(c)
  <2>1. \A i \in 1..Len(q) : q[i] \in ToSet(p) \cup ToSet(c)
    <3> SUFFICES ASSUME NEW i \in 1..Len(q) PROVE q[i] \in ToSet(p) \cup ToSet(c)
      OBVIOUS
    <3>1. CASE i <= Len(p)
      <4>1. i \in DOMAIN p /\ q[i] = p[i]
        BY <1>4, <1>6, <3>1
      <4> QED BY <4>1 DEF ToSet
    <3>2. CASE ~(i <= Len(p))
      <4>1. i - Len(p) \in 1..Len(c) /\ q[i] = c[i - Len(p)]
        BY <1>3, <1>4, <1>5, <3>2
      <4> QED BY <1>3, <4>1 DEF ToSet
    <3> QED BY <3>1, <3>2
  <2>2. \A i \in 1..Len(p) : p[i] \in ToSet(q)
    <3> SUFFICES ASSUME NEW i \in 1..Len(p) PROVE p[i] \in ToSet(q)
      OBVIOUS
    <3>1. i \in 1..Len(q) /\ q[i] = p[i]
      BY <1>3, <1>4, <1>5
    <3> QED BY <1>5, <3>1 DEF ToSet
  <2>3. \A i \in 1..Len(c) : c[i] \in ToSet(q)
    <3> SUFFICES ASSUME NEW i \in 1..Len(c) PROVE c[i] \in ToSet(q)
      OBVIOUS
    <3>1. Len(p) + i \in 1..Len(q) /\ ~(Len(p) + i <= Len(p)) /\ (Len(p) + i) - Len(p) = i
      BY <1>3, <1>4, <1>5
    <3>2. q[Len(p) + i] = c[i]
      BY <1>5, <3>1
    <3> QED BY <1>5, <3>1, <3>2 DEF ToSet
  <2> QED BY <1>3, <1>4, <1>5, <2>1, <2>2, <2>3 DEF ToSet
<1>10. lo \cap ToSet(q) = {}
  BY <1>1, <1>3, <1>4, <1>9 DEF AllPlaced
<1>11. req \cup con \cup lo \cup ToSet(q) = 1..(s + Len(c))
  <2>1. req \cup con \cup lo \cup ToSet(p) = 1..s
    BY DEF AllPlaced
  <2>2. 1..s \cup (s + 1)..(s + Len(c)) = 1..(s + Len(c))
    BY <1>1, <1>3
  <2> QED BY <1>3, <1>9, <2>1, <2>2
<1>12. n + Cardinality(con) + Cardinality(lo) + Len(q) = s + Len(c)
  <2>1. n + Cardinality(con) + Cardinality(lo) + Len(p) = s
    BY DEF AllPlaced
  <2>2. n \in Nat /\ Cardinality(con) \in Nat /\ Cardinality(lo) \in Nat /\ Len(p) \in Nat /\ s \in Nat
    BY PlacedSets
  <2>3. Len(c) \in Nat /\ Len(q) = Len(p) + Len(c)
    BY <1>3, <1>5
  <2>4. PICK a, l, k : a = n + Cardinality(con) + Cardinality(lo) /\ l = Len(p) /\ k = Len(c)
    OBVIOUS
  <2>5. a \in Nat
    BY <2>2, <2>4
  <2>6. l \in Nat /\ k \in Nat /\ s \in Nat /\ a + l = s /\ Len(q) = l + k
    BY <2>1, <2>2, <2>3, <2>4, Zenon
  <2>7. a + (l + k) = s + k
    BY <2>5, <2>6
  <2> QED BY <2>4, <2>6, <2>7, Zenon
<1> QED BY <1>1, <1>2, <1>3, <1>7, <1>8, <1>10, <1>11, <1>12 DEF AllPlaced, q

\* ... or they are lost, ...
LEMMA LostPlaced ==
  ASSUME NEW c \in Seq(Nat), NEW v \in Seq(Nat), NEW s, NEW p, NEW n, NEW req, NEW con, NEW lo,
         AllPlaced(c \o v, s, p, n, req, con, lo)
  PROVE  AllPlaced(v, s + Len(c), p, n, req, con, lo \cup ToSet(c))
<1>1. IsRun(c \o v, s) /\ s \in Nat /\ n \in Nat /\ Rises(p)
  BY DEF AllPlaced
<1>2. IsRun(c, s) /\ IsRun(v, s + Len(c))
  BY <1>1, RunSplit
<1>3. /\ Len(c) \in Nat /\ ToSet(c) = (s + 1)..(s + Len(c))
      /\ IsFiniteSet(ToSet(c)) /\ Cardinality(ToSet(c)) = Len(c)
  BY <1>1, <1>2, RunSet
<1>4. lo \subseteq 1..s /\ ToSet(p) \subseteq 1..s /\ IsFiniteSet(lo)
  BY PlacedSets
<1>5. lo \cap ToSet(c) = {} /\ (lo \cup ToSet(c)) \cap ToSet(p) = {}
  BY <1>1, <1>3, <1>4 DEF AllPlaced
<1>6. Cardinality(lo \cup ToSet(c)) = Cardinality(lo) + Len(c)
  BY <1>3, <1>4, <1>5, SumOf
<1>7. req \cup con \cup (lo \cup ToSet(c)) \cup ToSet(p) = 1..(s + Len(c))
  <2>1. req \cup con \cup lo \cup ToSet(p) = 1..s
    BY DEF AllPlaced
  <2>2. 1..s \cup (s + 1)..(s + Len(c)) = 1..(s + Len(c))
    BY <1>1, <1>3
  <2> QED BY <1>3, <2>1, <2>2
<1>8. n + Cardinality(con) + Cardinality(lo \cup ToSet(c)) + Len(p) = s + Len(c)
  <2>1. n + Cardinality(con) + Cardinality(lo) + Len(p) = s
    BY DEF AllPlaced
  <2>2. n \in Nat /\ Cardinality(con) \in Nat /\ Cardinality(lo) \in Nat /\ Len(p) \in Nat /\ s \in Nat
    BY PlacedSets
  <2>3. PICK a, b, l, k : a = n + Cardinality(con) /\ b = Cardinality(lo) /\ l = Len(p) /\ k = Len(c)
    OBVIOUS
  <2>4. a \in Nat
    BY <2>2, <2>3
  <2>5. b \in Nat /\ l \in Nat /\ k \in Nat /\ s \in Nat /\ a + b + l = s /\ Cardinality(lo \cup ToSet(c)) = b + k
    BY <2>1, <2>2, <2>3, <1>3, <1>6, Zenon
  <2>6. a + (b + k) + l = s + k
    BY <2>4, <2>5
  <2> QED BY <2>3, <2>5, <2>6, Zenon
<1>9. s + Len(c) \in Nat
  BY <1>1, <1>3
<1> QED BY <1>1, <1>2, <1>5, <1>7, <1>8, <1>9 DEF AllPlaced

\* ... and so is the whole pipe, ...
LEMMA DropPlaced ==
  ASSUME NEW u, NEW s, NEW p, NEW n, NEW req, NEW con, NEW lo,
         AllPlaced(u, s, p, n, req, con, lo)
  PROVE  AllPlaced(u, s, <<>>, n, req, con, lo \cup ToSet(p))
<1>1. IsFiniteSet(lo) /\ IsFiniteSet(ToSet(p)) /\ Cardinality(ToSet(p)) = Len(p)
  BY PlacedSets
<1>2. Cardinality(lo \cup ToSet(p)) = Cardinality(lo) + Len(p)
  BY <1>1, SumOf DEF AllPlaced
<1>3. Rises(<<>>) /\ Len(<<>>) = 0 /\ ToSet(<<>>) = {}
  BY DEF Rises, ToSet
<1>4. n + Cardinality(con) + Cardinality(lo \cup ToSet(p)) + 0 = s
  <2>1. n + Cardinality(con) + Cardinality(lo) + Len(p) = s
    BY DEF AllPlaced
  <2>2. n \in Nat /\ Cardinality(con) \in Nat /\ Cardinality(lo) \in Nat /\ Len(p) \in Nat /\ s \in Nat
    BY PlacedSets
  <2> QED BY <2>1, <2>2, <1>2
<1>5. req \cup con \cup (lo \cup ToSet(p)) \cup {} = 1..s
  BY DEF AllPlaced
<1> QED BY <1>3, <1>4, <1>5 DEF AllPlaced

\* ... or its first items are read.
LEMMA ReadPlaced ==
  ASSUME NEW c \in Seq(Nat), NEW q \in Seq(Nat), NEW u, NEW s, NEW n, NEW req, NEW con, NEW lo,
         AllPlaced(u, s, c \o q, n, req, con, lo)
  PROVE  AllPlaced(u, s, q, n, req, con \cup ToSet(c), lo)
<1> DEFINE p == c \o q
<1>1. /\ Len(c) \in Nat /\ Len(q) \in Nat /\ DOMAIN c = 1..Len(c) /\ DOMAIN q = 1..Len(q)
      /\ p \in Seq(Nat) /\ Len(p) = Len(c) + Len(q) /\ DOMAIN p = 1..Len(p)
      /\ \A i \in 1..Len(c) + Len(q) : p[i] = IF i <= Len(c) THEN c[i] ELSE q[i - Len(c)]
  BY ConcatProperties
<1>2. /\ s \in Nat /\ n \in Nat /\ Rises(p) /\ lo \cap ToSet(p) = {}
      /\ \A k \in con, i \in 1..Len(p) : k < p[i]
      /\ req \cup con \cup lo \cup ToSet(p) = 1..s
      /\ n + Cardinality(con) + Cardinality(lo) + Len(p) = s
  BY DEF AllPlaced
<1>3. IsFiniteSet(con) /\ con \subseteq 1..s /\ Cardinality(con) \in Nat /\ Cardinality(lo) \in Nat
  BY PlacedSets
<1> HIDE DEF p
<1>4. /\ \A i \in 1..Len(c) : i \in 1..Len(p) /\ p[i] = c[i]
      /\ \A i \in 1..Len(q) : Len(c) + i \in 1..Len(p) /\ p[Len(c) + i] = q[i]
  <2>1. \A i \in 1..Len(c) : i \in 1..Len(p) /\ p[i] = c[i]
    BY <1>1
  <2>2. ASSUME NEW i \in 1..Len(q) PROVE Len(c) + i \in 1..Len(p) /\ p[Len(c) + i] = q[i]
    <3>1. Len(c) + i \in 1..Len(c) + Len(q) /\ ~(Len(c) + i <= Len(c)) /\ (Len(c) + i) - Len(c) = i
      BY <1>1
    <3> QED BY <1>1, <3>1
  <2> QED BY <2>1, <2>2
<1>5. Rises(c)
  BY <1>1, <1>2, <1>4 DEF Rises
<1>6. Rises(q)
  <2> SUFFICES ASSUME NEW i \in 1..Len(q), NEW j \in 1..Len(q), i < j PROVE q[i] < q[j]
    BY DEF Rises
  <2>1. Len(c) + i < Len(c) + j
    BY <1>1
  <2> QED BY <1>2, <1>4, <2>1 DEF Rises
<1>7. ToSet(p) = ToSet(c) \cup ToSet(q)
  <2>1. \A i \in 1..Len(p) : p[i] \in ToSet(c) \cup ToSet(q)
    <3> SUFFICES ASSUME NEW i \in 1..Len(p) PROVE p[i] \in ToSet(c) \cup ToSet(q)
      OBVIOUS
    <3>1. CASE i <= Len(c)
      <4>1. i \in 1..Len(c)
        BY <1>1, <3>1
      <4>2. i \in DOMAIN c /\ p[i] = c[i]
        BY <1>1, <1>4, <4>1
      <4> QED BY <4>2 DEF ToSet
    <3>2. CASE ~(i <= Len(c))
      <4>1. i - Len(c) \in 1..Len(q) /\ p[i] = q[i - Len(c)]
        <5>1. Len(c) \in Nat /\ Len(q) \in Nat /\ Len(p) = Len(c) + Len(q)
          BY <1>1
        <5>2. i - Len(c) \in 1..Len(q) /\ i \in 1..Len(c) + Len(q)
          BY <3>2, <5>1
        <5>3. \A j \in 1..Len(c) + Len(q) : p[j] = IF j <= Len(c) THEN c[j] ELSE q[j - Len(c)]
          BY <1>1
        <5> QED BY <3>2, <5>2, <5>3
      <4>2. i - Len(c) \in DOMAIN q
        BY <1>1, <4>1
      <4> QED BY <4>1, <4>2 DEF ToSet
    <3> QED BY <3>1, <3>2
  <2>2. \A i \in 1..Len(c) : c[i] \in ToSet(p)
    BY <1>1, <1>4 DEF ToSet
  <2>3. \A i \in 1..Len(q) : q[i] \in ToSet(p)
    <3> SUFFICES ASSUME NEW i \in 1..Len(q) PROVE q[i] \in ToSet(p)
      OBVIOUS
    <3>1. Len(c) + i \in DOMAIN p /\ p[Len(c) + i] = q[i]
      BY <1>1, <1>4
    <3> QED BY <3>1 DEF ToSet
  <2> QED BY <1>1, <2>1, <2>2, <2>3 DEF ToSet
<1>8. con \cap ToSet(c) = {}
  <2> SUFFICES ASSUME NEW i \in 1..Len(c), c[i] \in con PROVE FALSE
    BY <1>1 DEF ToSet
  <2>1. c[i] < c[i] /\ c[i] \in 1..s
    BY <1>2, <1>3, <1>4
  <2> QED BY <1>2, <2>1
<1>9. Cardinality(con \cup ToSet(c)) = Cardinality(con) + Len(c)
  BY <1>3, <1>5, <1>8, RisingSet, SumOf
<1>10. ASSUME NEW k \in con \cup ToSet(c), NEW i \in 1..Len(q) PROVE k < q[i]
  <2>1. CASE k \in con
    BY <1>2, <1>4, <2>1
  <2>2. CASE k \in ToSet(c)
    <3>1. PICK j \in 1..Len(c) : k = c[j]
      BY <1>1, <2>2 DEF ToSet
    <3>2. j < Len(c) + i
      BY <1>1
    <3> QED BY <1>2, <1>4, <3>1, <3>2 DEF Rises
  <2> QED BY <2>1, <2>2
<1>11. lo \cap ToSet(q) = {} /\ req \cup (con \cup ToSet(c)) \cup lo \cup ToSet(q) = 1..s
  BY <1>2, <1>7
<1>12. n + Cardinality(con \cup ToSet(c)) + Cardinality(lo) + Len(q) = s
  BY <1>1, <1>2, <1>3, <1>9
<1>13. IsRun(u, s)
  BY DEF AllPlaced
<1> QED BY <1>2, <1>6, <1>10, <1>11, <1>12, <1>13 DEF AllPlaced

\* What was read ahead is in one place, and nothing was given away before a mode started.
PlacesOK ==
    /\ pc \in {"json", "raw", "leaveMode"} => buffer = <<>>
    /\ pc \notin {"json", "raw"} => held = <<>> /\ pipe = <<>>
Placed ==
    AllPlaced(Unread, sent - Len(Unread), InPipe, Len(evaluated), RequestItems, consumed, lost)
InOrder == \A i, j \in DOMAIN evaluated : i < j => evaluated[i].item < evaluated[j].item
ModeSeen == pc \in InModes \/ consumed \cup lost # {} => HadSocket

ItemsInv ==
    /\ Typed /\ IsSeq(outputs)
    /\ pc # "ended" => PlacesOK /\ Placed /\ InOrder /\ ModeSeen

\* It says where the items are ...
LEMMA ItemsInPlace == ItemsInv => InputIsKept
<1> SUFFICES ASSUME ItemsInv PROVE InputIsKept
  OBVIOUS
<1>1. TypeOK
  <2>1. Typed
    BY DEF ItemsInv
  <2>2. inbound \in Seq(Seq(Items))
    <3>1. inbound \in Seq(Seq(Items) \ {<<>>})
      BY <2>1 DEF Typed, PeerOK
    <3> QED BY <3>1, SeqMonotonic
  <2>3. \A h \in DOMAIN streams : streams[h].told <= streams[h].produced /\ streams[h].produced <= MaxStreamMessages
    BY <2>1 DEF Typed, StreamsOK, Handles
  <2>4. nextHandle \in Nat /\ DOMAIN streams \subseteq 0..nextHandle-1
    BY <2>1 DEF Typed, StreamsOK, Handles
  <2> QED BY <2>1, <2>2, <2>3, <2>4 DEF Typed, PeerOK, ModeOK, NamesOK, PhaseOK, TypeOK
<1>2. ASSUME pc # "ended" PROVE EveryItemInOnePlace
  <2>1. PICK u : u = Unread
    OBVIOUS
  <2>2. PICK p : p = InPipe
    OBVIOUS
  <2>3. PICK s : s = sent - Len(u)
    OBVIOUS
  <2>4. AllPlaced(u, s, p, Len(evaluated), RequestItems, consumed, lost) /\ InOrder /\ ModeSeen
    BY <1>2, <2>1, <2>2, <2>3 DEF ItemsInv, Placed
  <2>5. u = [i \in 1..Len(u) |-> s + i]
    <3>1. u \in Seq(Nat) /\ \A i \in 1..Len(u) : u[i] = s + i
      BY <2>4 DEF AllPlaced, IsRun
    <3>2. u = [i \in 1..Len(u) |-> u[i]]
      BY <3>1
    <3> QED BY <3>1, <3>2
  <2>6. Past \cup ToSet(p) = 1..s
    BY <2>4 DEF AllPlaced, Past
  <2>7. Len(evaluated) + Cardinality(consumed) + Cardinality(lost) + Len(p) = s
    BY <2>4 DEF AllPlaced
  <2>8. p \in Seq(Nat) /\ Len(p) \in Nat /\ DOMAIN p = 1..Len(p)
    BY <2>4 DEF AllPlaced, Rises
  <2>9. ASSUME NEW i \in DOMAIN p, NEW n \in consumed \cup ToSet(SubSeq(p, 1, i - 1)) PROVE n < p[i]
    <3>1. CASE n \in consumed
      BY <2>4, <2>8, <3>1 DEF AllPlaced
    <3>2. CASE n \in ToSet(SubSeq(p, 1, i - 1))
      <4>1. i \in 1..Len(p) /\ i - 1 \in 0..Len(p)
        BY <2>8
      <4>2. PICK k \in DOMAIN SubSeq(p, 1, i - 1) : n = SubSeq(p, 1, i - 1)[k]
        BY <3>2 DEF ToSet
      <4>3. k \in 1..i-1 /\ SubSeq(p, 1, i - 1)[k] = p[k]
        BY <2>8, <4>1, <4>2, SubSeqProperties
      <4>4. k \in 1..Len(p) /\ k < i
        BY <4>1, <4>3
      <4> QED BY <2>4, <4>1, <4>2, <4>3, <4>4 DEF AllPlaced, Rises
    <3> QED BY <3>1, <3>2
  <2> QED BY <2>1, <2>2, <2>3, <2>4, <2>5, <2>6, <2>7, <2>9 DEF EveryItemInOnePlace, InOrder, ModeSeen
<1> QED BY <1>1, <1>2 DEF InputIsKept, EveryItemInOnePlace

\* ... and it holds at first.
LEMMA ItemsInit == Init => ItemsInv
<1> SUFFICES ASSUME Init PROVE ItemsInv
  OBVIOUS
<1>1. /\ held = <<>> /\ buffer = <<>> /\ inbound = <<>> /\ pipe = <<>> /\ sent = 0 /\ evaluated = <<>>
      /\ consumed = {} /\ lost = {} /\ pc = "prompt" /\ outputs = <<>>
  BY DEF Init
<1>2. Unread = <<>> /\ InPipe = <<>>
  BY <1>1, FlattenEmpty DEF Unread, InPipe
<1>3. Len(<<>>) = 0 /\ <<>> \in Seq(Nat) /\ ToSet(<<>>) = {} /\ DOMAIN <<>> = {} /\ Cardinality({}) = 0
  BY FS_EmptySet DEF ToSet
<1>4. RequestItems = {}
  BY <1>1, <1>3 DEF RequestItems
<1>5. Placed
  BY <1>1, <1>2, <1>3, <1>4 DEF Placed, AllPlaced, IsRun, Rises
<1>6. PlacesOK /\ InOrder /\ ModeSeen
  BY <1>1, <1>3 DEF PlacesOK, InOrder, ModeSeen, InModes
<1> QED BY <1>1, <1>5, <1>6, TypedInit, EmptyIsSeq DEF ItemsInv

----------------------------------------------------------------------------
(* Where the items go. *)

\* What is unread are numbers, and so is what is in the pipe.
LEMMA NumbersOf ==
  ASSUME Typed
  PROVE  /\ held \in Seq(Nat) /\ buffer \in Seq(Nat) /\ inbound \in Seq(Seq(Nat)) /\ pipe \in Seq(Seq(Nat))
         /\ FlattenSeq(inbound) \in Seq(Nat) /\ InPipe \in Seq(Nat) /\ sent \in Nat
         /\ inbound # <<>> => Head(inbound) # <<>>
         /\ Unread \in Seq(Nat) /\ Len(Unread) \in Nat
<1>1. Items \subseteq Nat /\ sent \in Nat
  <2>1. Len(script) \in Nat
    BY ScriptOK, SeqOK DEF Typed, PeerOK
  <2> QED BY <2>1 DEF Items, Typed, PeerOK
<1>2. Seq(Items) \subseteq Seq(Nat)
  BY <1>1, SeqMonotonic
<1>3. held \in Seq(Nat) /\ buffer \in Seq(Nat)
  BY <1>2 DEF Typed, ModeOK
<1>4. pipe \in Seq(Seq(Nat))
  <2>1. pipe \in Seq(Seq(Items))
    BY DEF Typed, ModeOK
  <2> QED BY <1>2, <2>1, SeqMonotonic
<1>5. inbound \in Seq(Seq(Items) \ {<<>>})
  BY DEF Typed, PeerOK
<1>6. inbound \in Seq(Seq(Nat))
  <2>1. Seq(Items) \ {<<>>} \subseteq Seq(Nat)
    BY <1>2
  <2> QED BY <1>5, <2>1, SeqMonotonic
<1>7. inbound # <<>> => Head(inbound) # <<>>
  BY <1>5, FirstChunk
<1>8. FlattenSeq(inbound) \in Seq(Nat) /\ InPipe \in Seq(Nat)
  BY <1>4, <1>6, FlattenType DEF InPipe
<1>9. Unread \in Seq(Nat)
  <2>1. held \o buffer \in Seq(Nat)
    BY <1>3, ConcatProperties
  <2> QED BY <1>8, <2>1, ConcatProperties DEF Unread
<1> QED BY <1>1, <1>3, <1>4, <1>6, <1>7, <1>8, <1>9

\* Three parts of which the first or the second is empty.
LEMMA PartsOf ==
  ASSUME NEW h \in Seq(Nat), NEW b \in Seq(Nat), NEW f \in Seq(Nat)
  PROVE  /\ h = <<>> => h \o b \o f = b \o f
         /\ b = <<>> => h \o b \o f = h \o f
         /\ <<>> \o f = f /\ f \o <<>> = f
  BY ConcatEmptySeq

Parts ==
    /\ held = <<>> => Unread = buffer \o FlattenSeq(inbound)
    /\ buffer = <<>> => Unread = held \o FlattenSeq(inbound)
    /\ held = <<>> /\ buffer = <<>> => Unread = FlattenSeq(inbound)
    /\ Unread \in Seq(Nat) /\ Len(Unread) \in Nat

\* What is unread consists of the parts that are not empty, ...
LEMMA PartsOfUnread == Typed => Parts
<1> SUFFICES ASSUME Typed PROVE Parts
  OBVIOUS
<1>1. /\ held \in Seq(Nat) /\ buffer \in Seq(Nat) /\ FlattenSeq(inbound) \in Seq(Nat)
      /\ Unread \in Seq(Nat) /\ Len(Unread) \in Nat
  BY NumbersOf
<1>2. Unread = held \o buffer \o FlattenSeq(inbound)
  BY DEF Unread
<1> QED BY <1>1, <1>2, PartsOf DEF Parts

\* ... after a step as before it.
LEMMA PartsAfter == Typed' => Parts'
  BY PartsOfUnread, PTL

\* Nothing goes anywhere, ...
LEMMA StaysPlaced ==
  ASSUME Placed, Unread' = Unread, sent' = sent, InPipe' = InPipe, UNCHANGED <<evaluated, consumed, lost>>
  PROVE  Placed'
<1>1. RequestItems' = RequestItems
  BY DEF RequestItems
<1> QED BY <1>1 DEF Placed

\* ... or what was unread first goes away, ...
LEMMA Moved ==
  ASSUME Typed, Typed', NEW c \in Seq(Nat), Unread = c \o Unread', sent' = sent
  PROVE  /\ (sent - Len(Unread))' = (sent - Len(Unread)) + Len(c)
         /\ Unread' \in Seq(Nat)
<1>1. Unread' \in Seq(Nat) /\ Len(Unread') \in Nat
  BY PartsAfter DEF Parts
<1>2. Len(c) \in Nat /\ Len(Unread) = Len(c) + Len(Unread')
  BY <1>1, ConcatProperties
<1>3. sent \in Nat
  BY NumbersOf
<1> QED BY <1>1, <1>2, <1>3

\* ... into the pipe, ...
LEMMA MovedToPipe ==
  ASSUME Typed, Typed', NEW c \in Seq(Nat), Unread = c \o Unread', sent' = sent,
         Placed, InPipe' = InPipe \o c, UNCHANGED <<evaluated, consumed, lost>>
  PROVE  Placed'
<1>1. PICK v : v = Unread'
  OBVIOUS
<1>2. PICK s : s = sent - Len(Unread)
  OBVIOUS
<1>3. AllPlaced(c \o v, s, InPipe, Len(evaluated), RequestItems, consumed, lost)
  BY <1>1, <1>2 DEF Placed
<1>4. v \in Seq(Nat) /\ (sent - Len(Unread))' = s + Len(c)
  BY <1>1, <1>2, Moved
<1>5. AllPlaced(v, s + Len(c), InPipe \o c, Len(evaluated), RequestItems, consumed, lost)
  BY <1>3, <1>4, PipePlaced
<1>6. RequestItems' = RequestItems
  BY DEF RequestItems
<1> QED BY <1>1, <1>4, <1>5, <1>6 DEF Placed

\* ... or is lost, ...
LEMMA MovedToLost ==
  ASSUME Typed, Typed', NEW c \in Seq(Nat), Unread = c \o Unread', sent' = sent,
         Placed, InPipe' = InPipe, lost' = lost \cup ToSet(c), UNCHANGED <<evaluated, consumed>>
  PROVE  Placed'
<1>1. PICK v : v = Unread'
  OBVIOUS
<1>2. PICK s : s = sent - Len(Unread)
  OBVIOUS
<1>3. AllPlaced(c \o v, s, InPipe, Len(evaluated), RequestItems, consumed, lost)
  BY <1>1, <1>2 DEF Placed
<1>4. v \in Seq(Nat) /\ (sent - Len(Unread))' = s + Len(c)
  BY <1>1, <1>2, Moved
<1>5. AllPlaced(v, s + Len(c), InPipe, Len(evaluated), RequestItems, consumed, lost \cup ToSet(c))
  BY <1>3, <1>4, LostPlaced
<1>6. RequestItems' = RequestItems
  BY DEF RequestItems
<1> QED BY <1>1, <1>4, <1>5, <1>6 DEF Placed

\* ... with the pipe or without it.
LEMMA AllLost ==
  ASSUME Typed, Typed', NEW c \in Seq(Nat), Unread = c \o Unread', sent' = sent,
         Placed, InPipe' = <<>>, lost' = lost \cup ToSet(c) \cup ToSet(InPipe),
         UNCHANGED <<evaluated, consumed>>
  PROVE  Placed'
<1>1. PICK v : v = Unread'
  OBVIOUS
<1>2. PICK s : s = sent - Len(Unread)
  OBVIOUS
<1>3. AllPlaced(c \o v, s, InPipe, Len(evaluated), RequestItems, consumed, lost)
  BY <1>1, <1>2 DEF Placed
<1>4. v \in Seq(Nat) /\ (sent - Len(Unread))' = s + Len(c)
  BY <1>1, <1>2, Moved
<1>5. AllPlaced(v, s + Len(c), InPipe, Len(evaluated), RequestItems, consumed, lost \cup ToSet(c))
  BY <1>3, <1>4, LostPlaced
<1>6. AllPlaced(v, s + Len(c), <<>>, Len(evaluated), RequestItems, consumed, (lost \cup ToSet(c)) \cup ToSet(InPipe))
  BY <1>5, DropPlaced
<1>7. RequestItems' = RequestItems
  BY DEF RequestItems
<1> QED BY <1>1, <1>4, <1>6, <1>7 DEF Placed

\* A request is taken from what was read ahead, or from the next chunk.
LEMMA ChunkTaken ==
  ASSUME Typed, Typed', held = <<>>, held' = held, HasInput,
         buffer' = LeftOver(NextChunk), inbound' = InboundAfterChunk
  PROVE  Head(NextChunk) \in Nat /\ Unread = <<Head(NextChunk)>> \o Unread'
<1> DEFINE F == FlattenSeq(inbound)
<1>1. /\ buffer \in Seq(Nat) /\ inbound \in Seq(Seq(Nat)) /\ F \in Seq(Nat)
      /\ inbound # <<>> => Head(inbound) # <<>>
  BY NumbersOf
<1>2. Unread = buffer \o F /\ (buffer = <<>> => Unread = F)
  BY PartsOfUnread DEF Parts
<1>3. Unread' = buffer' \o FlattenSeq(inbound')
  BY PartsAfter DEF Parts
<1> HIDE DEF F
<1>4. CASE buffer # <<>>
  <2> DEFINE k == Head(buffer)
             b == Tail(buffer)
  <2>1. buffer = <<k>> \o b /\ k \in Nat /\ b \in Seq(Nat) /\ <<k>> \in Seq(Nat)
    BY <1>1, <1>4, HeadAndTail
  <2>2. buffer' = b /\ inbound' = inbound /\ Head(NextChunk) = k
    BY <1>4 DEF NextChunk, LeftOver, InboundAfterChunk
  <2> HIDE DEF k, b
  <2>3. (<<k>> \o b) \o F = <<k>> \o (b \o F)
    <3>1. Associates(<<k>>, b, F)
      BY <1>1, <2>1, NumbersJoined, Zenon
    <3> QED BY <3>1, Zenon DEF Associates
  <2>4. Unread' = b \o F
    BY <1>3, <2>2 DEF F
  <2> QED BY <1>2, <2>1, <2>2, <2>3, <2>4
<1>5. CASE buffer = <<>>
  <2> DEFINE x == Head(inbound)
             k == Head(x)
             b == Tail(x)
             G == FlattenSeq(Tail(inbound))
  <2>1. inbound # <<>> /\ x # <<>>
    BY <1>1, <1>5 DEF HasInput
  <2>2. F = x \o G /\ x \in Seq(Nat) /\ G \in Seq(Nat)
    BY <1>1, <2>1, FlattenTail DEF F
  <2>3. buffer' = b /\ inbound' = Tail(inbound) /\ Head(NextChunk) = k
    BY <1>5 DEF NextChunk, LeftOver, InboundAfterChunk
  <2>4. Unread' = b \o G
    BY <1>3, <2>3
  <2> HIDE DEF x, G
  <2>5. x = <<k>> \o b /\ k \in Nat /\ b \in Seq(Nat) /\ <<k>> \in Seq(Nat)
    BY <2>1, <2>2, HeadAndTail
  <2> HIDE DEF k, b
  <2>6. (<<k>> \o b) \o G = <<k>> \o (b \o G)
    <3>1. Associates(<<k>>, b, G)
      BY <2>2, <2>5, NumbersJoined, Zenon
    <3> QED BY <3>1, Zenon DEF Associates
  <2> QED BY <1>2, <1>5, <2>2, <2>3, <2>4, <2>5, <2>6
<1> QED BY <1>4, <1>5

\* What a request, ...
LEMMA TakePlaced ==
  ASSUME Typed, Typed', PlacesOK, Placed, InOrder, TakeRequest
  PROVE  PlacesOK' /\ Placed' /\ InOrder'
<1>1. pc = "reading" /\ held = <<>> /\ pipe = <<>> /\ held' = held /\ pipe' = pipe /\ pc' = "responding"
  BY DEF TakeRequest, ReadsInput, PlacesOK, modeVars
<1>2. PICK k : k = Head(NextChunk)
  OBVIOUS
<1>3. k \in Nat /\ Unread = <<k>> \o Unread'
  BY <1>1, <1>2, ChunkTaken DEF TakeRequest
<1>4. sent' = sent /\ InPipe' = InPipe /\ consumed' = consumed /\ lost' = lost
  BY <1>1 DEF TakeRequest, InPipe
<1>5. PICK answer : evaluated' = Append(evaluated, [item |-> k, responses |-> answer])
  BY <1>2 DEF TakeRequest
<1>6. PICK n : n = Len(evaluated)
  OBVIOUS
<1>7. PICK e : e = [item |-> k, responses |-> answer]
  OBVIOUS
<1>8. /\ n \in Nat /\ DOMAIN evaluated = 1..n /\ DOMAIN evaluated' = 1..n+1 /\ Len(evaluated') = n + 1
      /\ \A i \in 1..n : evaluated'[i] = evaluated[i]
      /\ evaluated'[n + 1] = e /\ e.item = k
  <2>1. IsSeq(evaluated)
    BY DEF Typed, EvaluatedOK
  <2>2. n \in Nat /\ DOMAIN evaluated = 1..n
    BY <1>6, <2>1, SeqOK
  <2>3. /\ IsSeq(evaluated') /\ Len(evaluated') = n + 1 /\ evaluated'[n + 1] = e
        /\ \A i \in 1..n : evaluated'[i] = evaluated[i]
    BY <1>5, <1>6, <1>7, <2>1, SeqAppend
  <2>4. DOMAIN evaluated' = 1..n+1
    BY <2>3, SeqOK
  <2> QED BY <1>7, <2>2, <2>3, <2>4
<1>9. RequestItems' = RequestItems \cup {k}
  BY <1>8 DEF RequestItems
<1>10. PICK v : v = Unread'
  OBVIOUS
<1>11. PICK s : s = sent - Len(Unread)
  OBVIOUS
<1>12. <<k>> \in Seq(Nat) /\ Len(<<k>>) = 1
  BY <1>3
<1>13. v \in Seq(Nat) /\ (sent - Len(Unread))' = s + 1
  <2>1. v \in Seq(Nat) /\ (sent - Len(Unread))' = s + Len(<<k>>)
    BY <1>3, <1>4, <1>10, <1>11, <1>12, Moved
  <2> QED BY <1>12, <2>1
<1>14. AllPlaced(<<k>> \o v, s, InPipe, n, RequestItems, consumed, lost)
  BY <1>3, <1>6, <1>10, <1>11 DEF Placed
<1>15. /\ AllPlaced(v, s + 1, InPipe, n + 1, RequestItems \cup {k}, consumed, lost)
       /\ \A j \in RequestItems : j < k
  BY <1>3, <1>13, <1>14, RequestPlaced
<1>16. Placed'
  BY <1>4, <1>8, <1>9, <1>10, <1>13, <1>15 DEF Placed
<1>17. InOrder'
  <2> SUFFICES ASSUME NEW i \in 1..n+1, NEW j \in 1..n+1, i < j PROVE evaluated'[i].item < evaluated'[j].item
    BY <1>8 DEF InOrder
  <2>1. i \in 1..n
    BY <1>8
  <2>2. CASE j \in 1..n
    BY <1>8, <2>1, <2>2 DEF InOrder
  <2>3. CASE j = n + 1
    <3>1. evaluated[i].item \in RequestItems
      BY <1>8, <2>1 DEF RequestItems
    <3> QED BY <1>8, <1>15, <2>1, <2>3, <3>1
  <2> QED BY <1>8, <2>2, <2>3
<1>18. PlacesOK'
  BY <1>1 DEF PlacesOK
<1> QED BY <1>16, <1>17, <1>18

\* ... a command that gets the socket, ...
LEMMA EnterPlaced ==
  ASSUME Typed, Typed', PlacesOK, Placed, EnterMode
  PROVE  PlacesOK' /\ Placed'
<1>1. /\ pc \in {"enterJson", "enterRaw"} /\ held = <<>> /\ pipe = <<>> /\ buffer' = <<>>
      /\ sent' = sent /\ inbound' = inbound /\ UNCHANGED <<evaluated, consumed, lost>>
  BY DEF EnterMode, PlacesOK, peerVars, pastVars
<1>2. PlacesOK'
  BY <1>1 DEF EnterMode, PlacesOK
<1>3. Unread = buffer \o FlattenSeq(inbound) /\ Unread' = held' \o FlattenSeq(inbound)
  BY <1>1, PartsOfUnread, PartsAfter DEF Parts
<1>4. CASE pc = "enterJson"
  <2>1. held' = buffer /\ pipe' = pipe
    BY <1>4 DEF EnterMode
  <2> QED BY <1>1, <1>2, <1>3, <2>1, StaysPlaced DEF InPipe
<1>5. CASE pc = "enterRaw"
  <2>1. held' = held /\ pipe' = IF buffer = <<>> THEN <<>> ELSE <<buffer>>
    BY <1>5 DEF EnterMode
  <2>2. buffer \in Seq(Nat) /\ <<>> \in Seq(Seq(Nat)) /\ <<buffer>> = Append(<<>>, buffer)
    BY NumbersOf
  <2>3. FlattenSeq(<<buffer>>) = <<>> \o buffer /\ <<>> \o buffer = buffer
    BY <2>2, FlattenAppend, FlattenEmpty, ConcatEmptySeq
  <2>4. InPipe' = InPipe \o buffer
    BY <1>1, <2>1, <2>3, FlattenEmpty DEF InPipe
  <2>5. Unread = buffer \o Unread'
    BY <1>1, <1>3, <2>1, PartsAfter DEF Parts
  <2> QED BY <1>1, <1>2, <2>2, <2>4, <2>5, MovedToPipe
<1> QED BY <1>1, <1>4, <1>5

\* ... its reader, ...
LEMMA ReadsPlaced ==
  ASSUME Typed, Typed', PlacesOK, Placed, JsonReadsChunk \/ RawReadsChunk
  PROVE  PlacesOK' /\ Placed'
<1>1. /\ pc \in {"json", "raw"} /\ pc' = pc /\ buffer = <<>> /\ held = <<>> /\ buffer' = buffer
      /\ inbound # <<>> /\ inbound' = Tail(inbound) /\ sent' = sent /\ UNCHANGED <<evaluated, consumed>>
  BY DEF JsonReadsChunk, RawReadsChunk, PlacesOK, Typed, ModeOK, pastVars
<1>2. PlacesOK'
  BY <1>1 DEF PlacesOK
<1>3. PICK c : c = Head(inbound)
  OBVIOUS
<1>4. /\ FlattenSeq(inbound) = c \o FlattenSeq(inbound') /\ c \in Seq(Nat)
  BY <1>1, <1>3, NumbersOf, FlattenTail
<1>5. Unread = c \o FlattenSeq(inbound')
  BY <1>1, <1>4, PartsOfUnread DEF Parts
<1>6. Unread' = held' \o FlattenSeq(inbound')
  BY <1>1, PartsAfter DEF Parts
<1>7. CASE JsonReadsChunk
  <2>1. held' = c /\ pipe' = pipe /\ lost' = lost
    BY <1>3, <1>7 DEF JsonReadsChunk, pastVars
  <2> QED BY <1>1, <1>2, <1>5, <1>6, <2>1, StaysPlaced DEF InPipe
<1>8. CASE RawReadsChunk
  <2>1. held' = <<>> /\ pipe = <<>>
    BY <1>1, <1>8 DEF RawReadsChunk
  <2>2. Unread = c \o Unread'
    BY <1>1, <1>5, <2>1, PartsAfter DEF Parts
  <2>3. CASE reader.accepts
    <3>1. pipe' = <<c>> /\ lost' = lost
      BY <1>3, <1>8, <2>3 DEF RawReadsChunk
    <3>2. <<>> \in Seq(Seq(Nat)) /\ <<c>> = Append(<<>>, c)
      OBVIOUS
    <3>3. FlattenSeq(<<c>>) = FlattenSeq(<<>>) \o c
      BY <1>4, <3>2, FlattenAppend
    <3>4. InPipe' = InPipe \o c
      BY <2>1, <3>1, <3>3 DEF InPipe
    <3> QED BY <1>1, <1>2, <1>4, <2>2, <3>1, <3>4, MovedToPipe
  <2>4. CASE ~reader.accepts
    <3>1. pipe' = pipe /\ lost' = lost \cup ToSet(c)
      BY <1>3, <1>8, <2>4 DEF RawReadsChunk
    <3> QED BY <1>1, <1>2, <1>4, <2>2, <3>1, MovedToLost DEF InPipe
  <2> QED BY <2>3, <2>4
<1> QED BY <1>7, <1>8

\* ... its parser, ...
LEMMA ParsesPlaced ==
  ASSUME Typed, Typed', PlacesOK, Placed, JsonParsesValue \/ JsonParserEnds
  PROVE  PlacesOK' /\ Placed'
<1>1. /\ pc = "json" /\ pc' = pc /\ buffer = <<>> /\ buffer' = buffer
      /\ inbound' = inbound /\ sent' = sent /\ UNCHANGED <<evaluated, consumed>>
  BY DEF JsonParsesValue, JsonParserEnds, PlacesOK, peerVars
<1>2. PlacesOK'
  BY <1>1 DEF PlacesOK
<1>3. held \in Seq(Nat) /\ FlattenSeq(inbound) \in Seq(Nat)
  BY NumbersOf
<1>4. Unread = held \o FlattenSeq(inbound) /\ Unread' = held' \o FlattenSeq(inbound)
  BY <1>1, PartsOfUnread, PartsAfter DEF Parts
<1>5. ASSUME held' = <<>>, pipe' = pipe, lost' = lost \cup ToSet(held) PROVE Placed'
  <2>1. Unread = held \o Unread'
    BY <1>1, <1>4, <1>5, PartsAfter DEF Parts
  <2> QED BY <1>1, <1>3, <1>5, <2>1, MovedToLost DEF InPipe
<1>6. CASE JsonParserEnds
  <2>1. held' = <<>> /\ pipe' = pipe /\ lost' = lost \cup ToSet(held)
    BY <1>6 DEF JsonParserEnds
  <2> QED BY <1>2, <1>5, <2>1
<1>7. CASE JsonParsesValue
  <2>1. CASE ~reader.accepts /\ ~reader.relaying
    <3>1. held' = <<>> /\ pipe' = pipe /\ lost' = lost \cup ToSet(held)
      BY <1>7, <2>1 DEF JsonParsesValue
    <3> QED BY <1>2, <1>5, <3>1
  <2>2. CASE reader.accepts \/ reader.relaying
    <3>1. PICK k : k = Head(held)
      OBVIOUS
    <3>2. PICK c : c = <<k>>
      OBVIOUS
    <3>3. held # <<>> /\ held' = Tail(held)
      BY <1>7, <2>2 DEF JsonParsesValue
    <3>4. k \in Nat /\ held = c \o held' /\ held' \in Seq(Nat) /\ c \in Seq(Nat)
      BY <1>3, <3>1, <3>2, <3>3, HeadAndTail
    <3>5. Unread = c \o Unread'
      <4>1. (c \o held') \o FlattenSeq(inbound) = c \o (held' \o FlattenSeq(inbound))
        <5>1. c \in Seq(Nat) /\ held' \in Seq(Nat) /\ FlattenSeq(inbound) \in Seq(Nat)
          BY <1>3, <3>4
        <5>2. Associates(c, held', FlattenSeq(inbound))
          BY <5>1, NumbersJoined, Zenon
        <5> QED BY <5>2, Zenon DEF Associates
      <4> QED BY <1>4, <3>4, <4>1
    <3>6. CASE reader.accepts
      <4>1. pipe' = Append(pipe, c) /\ lost' = lost
        BY <1>7, <3>1, <3>2, <3>6 DEF JsonParsesValue
      <4>2. InPipe' = InPipe \o c
        BY <3>4, <4>1, NumbersOf, FlattenAppend DEF InPipe
      <4> QED BY <1>1, <1>2, <3>4, <3>5, <4>1, <4>2, MovedToPipe
    <3>7. CASE ~reader.accepts
      <4>1. pipe' = pipe /\ lost' = lost \cup {k}
        BY <1>7, <2>2, <3>1, <3>7 DEF JsonParsesValue
      <4>2. ToSet(c) = {k}
        BY <3>2 DEF ToSet
      <4> QED BY <1>1, <1>2, <3>4, <3>5, <4>1, <4>2, MovedToLost DEF InPipe
    <3> QED BY <3>6, <3>7
  <2> QED BY <2>1, <2>2
<1> QED BY <1>6, <1>7

\* ... the command itself, ...
LEMMA CommandReadsPlaced ==
  ASSUME Typed, Typed', PlacesOK, Placed, CommandReads
  PROVE  PlacesOK' /\ Placed'
<1>1. /\ pc \in {"json", "raw"} /\ pc' = pc /\ buffer' = buffer /\ held' = held /\ inbound' = inbound /\ sent' = sent
      /\ UNCHANGED <<evaluated, lost>> /\ pipe # <<>> /\ pipe' = Tail(pipe)
      /\ consumed' = consumed \cup ToSet(Head(pipe))
  BY DEF CommandReads, HasSocket, peerVars
<1>2. PlacesOK'
  BY <1>1 DEF PlacesOK
<1>3. PICK c : c = Head(pipe)
  OBVIOUS
<1>4. PICK q : q = InPipe'
  OBVIOUS
<1>5. InPipe = c \o q /\ c \in Seq(Nat) /\ q \in Seq(Nat)
  BY <1>1, <1>3, <1>4, NumbersOf, FlattenTail DEF InPipe
<1>6. PICK u : u = Unread
  OBVIOUS
<1>7. PICK s : s = sent - Len(u)
  OBVIOUS
<1>8. Unread' = u /\ RequestItems' = RequestItems /\ (sent - Len(Unread))' = s
  BY <1>1, <1>6, <1>7 DEF Unread, RequestItems
<1>9. AllPlaced(u, s, c \o q, Len(evaluated), RequestItems, consumed, lost)
  BY <1>5, <1>6, <1>7 DEF Placed
<1>10. AllPlaced(u, s, q, Len(evaluated), RequestItems, consumed \cup ToSet(c), lost)
  BY <1>5, <1>9, ReadPlaced
<1>11. Placed'
  BY <1>1, <1>3, <1>4, <1>8, <1>10 DEF Placed
<1> QED BY <1>2, <1>11

\* ... its end, ...
LEMMA CommandLeavesPlaced ==
  ASSUME Typed, Typed', PlacesOK, Placed, CommandDropsInput \/ CommandEnds
  PROVE  PlacesOK' /\ Placed'
<1>1. /\ pc \in {"json", "raw"} /\ buffer = <<>> /\ buffer' = buffer /\ inbound' = inbound /\ sent' = sent
      /\ UNCHANGED <<evaluated, consumed>> /\ pipe' = <<>>
  BY DEF CommandDropsInput, CommandEnds, HasSocket, PlacesOK, peerVars
<1>2. PlacesOK'
  BY <1>1 DEF PlacesOK, CommandDropsInput, CommandEnds
<1>3. held \in Seq(Nat) /\ FlattenSeq(inbound) \in Seq(Nat) /\ Unread \in Seq(Nat) /\ <<>> \in Seq(Nat)
  BY NumbersOf
<1>4. InPipe' = <<>>
  BY <1>1, FlattenEmpty DEF InPipe
<1>5. CASE CommandDropsInput
  <2>1. held' = held /\ lost' = lost \cup ToSet(InPipe)
    BY <1>5 DEF CommandDropsInput
  <2>2. Unread' = Unread
    BY <1>1, <2>1 DEF Unread
  <2>3. Unread = <<>> \o Unread'
    BY <1>3, <2>2, ConcatEmptySeq
  <2>4. lost' = lost \cup ToSet(<<>>) \cup ToSet(InPipe)
    BY <2>1 DEF ToSet
  <2> QED BY <1>1, <1>2, <1>3, <1>4, <2>3, <2>4, AllLost
<1>6. CASE CommandEnds
  <2>1. held' = <<>> /\ lost' = lost \cup ToSet(held) \cup ToSet(InPipe)
    BY <1>6 DEF CommandEnds
  <2>2. Unread = held \o Unread'
    BY <1>1, <2>1, PartsOfUnread, PartsAfter DEF Parts
  <2> QED BY <1>1, <1>2, <1>3, <1>4, <2>1, <2>2, AllLost
<1> QED BY <1>5, <1>6

\* ... and the peer do to the items.
LEMMA PeerWritesPlaced ==
  ASSUME Typed, Typed', PlacesOK, Placed, PeerWrites
  PROVE  PlacesOK' /\ Placed'
<1>1. /\ pc' = pc /\ buffer' = buffer /\ held' = held /\ pipe' = pipe
      /\ UNCHANGED <<evaluated, consumed, lost>>
  BY DEF PeerWrites, modeVars, pastVars
<1>2. PlacesOK'
  BY <1>1 DEF PlacesOK
<1>3. PICK upTo \in (sent + 1)..Len(script) :
        inbound' = Append(inbound, [i \in 1..(upTo - sent) |-> sent + i]) /\ sent' = upTo
  BY DEF PeerWrites
<1>4. PICK v : v = [i \in 1..(upTo - sent) |-> sent + i]
  OBVIOUS
<1>5. sent \in Nat /\ Len(script) \in Nat
  BY ScriptOK, SeqOK, NumbersOf DEF Typed, PeerOK
<1>6. v \in Seq(Nat) /\ Len(v) = upTo - sent /\ upTo \in Nat /\ upTo - sent \in Nat
  BY <1>4, <1>5
<1>7. PICK u : u = Unread
  OBVIOUS
<1>8. PICK s : s = sent - Len(u)
  OBVIOUS
<1>9. Unread' = u \o v
  <2> DEFINE h == held \o buffer
             F == FlattenSeq(inbound)
  <2>1. held \in Seq(Nat) /\ buffer \in Seq(Nat) /\ F \in Seq(Nat) /\ inbound \in Seq(Seq(Nat))
    BY NumbersOf
  <2>2. h \in Seq(Nat)
    BY <2>1, ConcatProperties
  <2>3. FlattenSeq(inbound') = F \o v
    BY <1>3, <1>4, <1>6, <2>1, FlattenAppend
  <2>4. Unread' = h \o (F \o v) /\ u = h \o F
    BY <1>1, <1>7, <2>3 DEF Unread
  <2> HIDE DEF h, F
  <2>5. (h \o F) \o v = h \o (F \o v)
    <3>1. h \in Seq(Nat) /\ F \in Seq(Nat) /\ v \in Seq(Nat)
      BY <1>6, <2>1, <2>2
    <3>2. Associates(h, F, v)
      BY <3>1, NumbersJoined, Zenon
    <3> QED BY <3>2, Zenon DEF Associates
  <2> QED BY <2>4, <2>5
<1>10. AllPlaced(u, s, InPipe, Len(evaluated), RequestItems, consumed, lost)
  BY <1>7, <1>8 DEF Placed
<1>11. s \in Nat /\ IsRun(u, s) /\ u \in Seq(Nat) /\ Len(u) \in Nat
  BY <1>10 DEF AllPlaced, IsRun
<1>12. s + Len(u) = sent
  BY <1>5, <1>8, <1>11
<1>13. IsRun(v, s + Len(u))
  <2>1. \A i \in 1..Len(v) : v[i] = sent + i
    BY <1>4, <1>6
  <2> QED BY <1>6, <1>12, <2>1 DEF IsRun
<1>14. IsRun(u \o v, s) /\ Len(u \o v) = Len(u) + Len(v)
  BY <1>11, <1>13, RunJoin
<1>15. (sent - Len(Unread))' = s
  <2>1. (sent - Len(Unread))' = upTo - (Len(u) + (upTo - sent))
    BY <1>3, <1>6, <1>9, <1>14
  <2>2. upTo \in Int /\ sent \in Int /\ Len(u) \in Int /\ s \in Int
    BY <1>5, <1>6, <1>11
  <2>3. \A a, b, c, d \in Int : d + c = b => a - (c + (a - b)) = d
    OBVIOUS
  <2>4. upTo - (Len(u) + (upTo - sent)) = s
    BY <1>12, <2>2, <2>3
  <2> QED BY <2>1, <2>4
<1>16. AllPlaced(u \o v, s, InPipe, Len(evaluated), RequestItems, consumed, lost)
  BY <1>10, <1>14 DEF AllPlaced
<1>17. InPipe' = InPipe /\ RequestItems' = RequestItems
  BY <1>1 DEF InPipe, RequestItems
<1>18. Placed'
  BY <1>1, <1>9, <1>15, <1>16, <1>17 DEF Placed
<1> QED BY <1>2, <1>18

\* The other steps move nothing.
Still == UNCHANGED <<sent, inbound, buffer, held, pipe, evaluated, consumed, lost>>

\* There is one step for each of those.
LEMMA StillCases ==
  Next => \/ Still
          \/ PeerWrites \/ TakeRequest \/ EnterMode \/ JsonReadsChunk \/ JsonParsesValue
          \/ JsonParserEnds \/ RawReadsChunk \/ CommandReads \/ CommandDropsInput \/ CommandEnds
<1> SUFFICES ASSUME Next, ~PeerWrites, ~TakeRequest, ~EnterMode, ~JsonReadsChunk, ~JsonParsesValue,
                    ~JsonParserEnds, ~RawReadsChunk, ~CommandReads, ~CommandDropsInput, ~CommandEnds
             PROVE  Still
  OBVIOUS
<1>1. UNCHANGED <<sent, inbound>>
  BY WhatChanges DEF PeerChanges, PeerCloses
<1>2. UNCHANGED <<buffer, held, pipe, consumed, lost>>
  BY WhatChanges DEF ModeChanges, CommandWrites, pastVars
<1>3. UNCHANGED evaluated
  BY WhatChanges DEF AnswerChanges, SendText, SendBackground, StartMode, pastVars
<1> QED BY <1>1, <1>2, <1>3 DEF Still

\* A mode is entered, and left, by the steps that do that.
LEMMA ModeKept ==
  ASSUME Next, pc' # "ended"
  PROVE  /\ pc' \in {"json", "raw", "leaveMode"} => pc' = pc \/ EnterMode \/ CommandEnds
         /\ pc \in {"json", "raw"} => pc' = pc \/ CommandEnds
         /\ pc' \in InModes => pc \in InModes \/ StartMode
<1>1. PhaseChanges
  BY WhatChanges
<1>2. CASE UNCHANGED <<pc, assigning, pending>>
  BY <1>2
<1>3. CASE TakeRequest \/ TakeNoRequest \/ AssignVariable \/ EndResponses \/ RequestsEnd \/ Prompt
  BY <1>3 DEF TakeRequest, TakeNoRequest, AssignVariable, EndResponses, RequestsEnd, Prompt, ReadsInput,
              Responds, InModes
<1>4. CASE SendText \/ SendBackground \/ SendNothingToAssign \/ EndMode
  BY <1>4 DEF SendText, SendBackground, SendNothingToAssign, EndMode, NotifyOrEnd, Responds, InModes
<1>5. CASE StartMode
  BY <1>5 DEF StartMode, NotifyOrEnd, Responds, InModes
<1>6. CASE EnterMode \/ CommandEnds
  BY <1>6 DEF EnterMode, CommandEnds, HasSocket, InModes
<1> QED BY <1>1, <1>2, <1>3, <1>4, <1>5, <1>6 DEF PhaseChanges

\* What was sent stays sent, ...
LEMMA OutputsStay ==
  ASSUME Typed, IsSeq(outputs), Next
  PROVE  IsSeq(outputs') /\ (HadSocket => HadSocket')
<1>1. SaysNothing \/ \E o : Says(o)
  BY StepSays
<1>2. CASE SaysNothing
  <2>1. outputs' = outputs
    BY <1>2 DEF SaysNothing
  <2> QED BY <2>1 DEF IsSeq, HadSocket
<1>3. CASE \E o : Says(o)
  <2>1. PICK o : outputs' = Append(outputs, o)
    BY <1>3 DEF Says
  <2>2. /\ IsSeq(outputs') /\ Len(outputs') = Len(outputs) + 1 /\ Len(outputs) \in Nat
        /\ \A i \in 1..Len(outputs) : outputs'[i] = outputs[i]
        /\ DOMAIN outputs = 1..Len(outputs)
    BY <2>1, SeqAppend, SeqOK
  <2>3. DOMAIN outputs' = 1..Len(outputs) + 1
    BY <2>2, SeqOK
  <2>4. HadSocket => HadSocket'
    <3> SUFFICES ASSUME NEW i \in DOMAIN outputs, outputs[i].kind = "Start" PROVE HadSocket'
      BY DEF HadSocket
    <3>1. i \in DOMAIN outputs' /\ outputs'[i] = outputs[i]
      BY <2>2, <2>3
    <3> QED BY <3>1 DEF HadSocket
  <2> QED BY <2>2, <2>4
<1> QED BY <1>1, <1>2, <1>3

\* ... and only a mode gives items away.
LEMMA ModeSeenStays ==
  ASSUME Typed, IsSeq(outputs), ModeSeen, Next, pc' # "ended"
  PROVE  ModeSeen'
<1>1. HadSocket => HadSocket'
  BY OutputsStay
<1>2. CASE StartMode
  <2> DEFINE o == [kind |-> "Start"]
  <2>1. outputs' = Append(outputs, o) /\ o.kind = "Start"
    BY <1>2 DEF StartMode, NotifyOrEnd, Output
  <2> HIDE DEF o
  <2>2. /\ IsSeq(outputs') /\ Len(outputs') = Len(outputs) + 1 /\ Len(outputs) \in Nat
        /\ outputs'[Len(outputs) + 1] = o
    BY <2>1, SeqAppend, SeqOK
  <2>3. DOMAIN outputs' = 1..Len(outputs) + 1
    BY <2>2, SeqOK
  <2>4. Len(outputs) + 1 \in DOMAIN outputs' /\ outputs'[Len(outputs) + 1].kind = "Start"
    BY <2>1, <2>2, <2>3
  <2> QED BY <2>4 DEF ModeSeen, HadSocket
<1>3. CASE ~StartMode
  <2>1. pc' \in InModes => pc \in InModes
    BY <1>3, ModeKept
  <2>2. UNCHANGED <<consumed, lost>> \/ pc \in InModes
    BY WhatChanges DEF ModeChanges, TakeRequest, EnterMode, JsonReadsChunk, JsonParsesValue,
       JsonParserEnds, RawReadsChunk, CommandReads, CommandDropsInput, CommandWrites, CommandEnds,
       HasSocket, InModes, pastVars
  <2>3. InModes' = InModes
    BY DEF InModes
  <2>4. CASE pc \in InModes
    BY <1>1, <2>4 DEF ModeSeen
  <2>5. CASE pc \notin InModes
    BY <1>1, <2>1, <2>2, <2>3, <2>5 DEF ModeSeen
  <2> QED BY <2>4, <2>5
<1> QED BY <1>2, <1>3

\* So a step leaves every item in one place, ...
LEMMA PlacesStep ==
  ASSUME Typed, Typed', PlacesOK, Placed, InOrder, Next, pc' # "ended"
  PROVE  PlacesOK' /\ Placed' /\ InOrder'
<1>1. CASE TakeRequest
  BY <1>1, TakePlaced
<1>2. ASSUME evaluated' = evaluated PROVE InOrder'
  BY <1>2 DEF InOrder
<1>3. CASE Still
  <2>1. InOrder'
    BY <1>2, <1>3 DEF Still
  <2>2. Placed'
    <3>1. Unread' = Unread /\ InPipe' = InPipe
      BY <1>3 DEF Still, Unread, InPipe
    <3> QED BY <1>3, <3>1, StaysPlaced DEF Still
  <2>3. CASE EnterMode \/ CommandEnds
    BY <2>1, <2>3, EnterPlaced, CommandLeavesPlaced
  <2>4. CASE ~EnterMode /\ ~CommandEnds
    <3>1. /\ pc' \in {"json", "raw", "leaveMode"} => pc' = pc
          /\ pc \in {"json", "raw"} => pc' = pc
      BY <2>4, ModeKept
    <3>2. PlacesOK'
      BY <1>3, <3>1 DEF Still, PlacesOK
    <3> QED BY <2>1, <2>2, <3>2
  <2> QED BY <2>3, <2>4
<1>4. CASE PeerWrites \/ EnterMode \/ JsonReadsChunk \/ RawReadsChunk
  <2>1. evaluated' = evaluated
    BY <1>4 DEF PeerWrites, EnterMode, JsonReadsChunk, RawReadsChunk, pastVars
  <2> QED BY <1>2, <1>4, <2>1, PeerWritesPlaced, EnterPlaced, ReadsPlaced
<1>5. CASE JsonParsesValue \/ JsonParserEnds
  <2>1. evaluated' = evaluated
    BY <1>5 DEF JsonParsesValue, JsonParserEnds
  <2> QED BY <1>2, <1>5, <2>1, ParsesPlaced
<1>6. CASE CommandReads \/ CommandDropsInput \/ CommandEnds
  <2>1. evaluated' = evaluated
    BY <1>6 DEF CommandReads, CommandDropsInput, CommandEnds
  <2> QED BY <1>2, <1>6, <2>1, CommandReadsPlaced, CommandLeavesPlaced
<1> QED BY StillCases, <1>1, <1>3, <1>4, <1>5, <1>6

\* ... and keeps the whole invariant.
LEMMA ItemsStep == ItemsInv /\ [Next]_vars => ItemsInv'
<1> SUFFICES ASSUME ItemsInv, [Next]_vars PROVE ItemsInv'
  OBVIOUS
<1>1. Typed /\ Typed' /\ IsSeq(outputs)
  BY TypedStep DEF ItemsInv
<1>2. CASE Next
  <2>1. pc # "ended"
    BY <1>2, NextCases DEF Prompt, TellMessage, TellEnd, WatchesStreams, TakeRequest, TakeNoRequest,
       ReadsInput, SendText, AssignVariable, SendBackground, SendNothingToAssign, EndResponses, Responds,
       StartMode, EnterMode, JsonReadsChunk, JsonParsesValue, JsonParserEnds, RawReadsChunk, EndMode,
       PeerWrites, PeerCloses, PeerTakes, PeerHangsUp, CommandReads, CommandDropsInput, CommandWrites,
       CommandEnds, HasSocket, StreamProduces, StreamCloses, SetVariable, QueryVariable, ReplyTaken,
       RequestsEnd
  <2>2. PlacesOK /\ Placed /\ InOrder /\ ModeSeen
    BY <2>1 DEF ItemsInv
  <2>3. IsSeq(outputs')
    BY <1>1, <1>2, OutputsStay
  <2>4. ASSUME pc' # "ended" PROVE PlacesOK' /\ Placed' /\ InOrder' /\ ModeSeen'
    BY <1>1, <1>2, <2>2, <2>4, PlacesStep, ModeSeenStays
  <2> QED BY <1>1, <2>3, <2>4 DEF ItemsInv
<1>3. CASE UNCHANGED vars
  <2>1. UNCHANGED <<outputs, pc, sent, inbound, buffer, held, pipe, evaluated, consumed, lost>>
    BY <1>3 DEF vars, outVars, peerVars, modeVars, pastVars
  <2>2. Unread' = Unread /\ InPipe' = InPipe
    BY <2>1 DEF Unread, InPipe
  <2>3. Placed => Placed'
    BY <2>1, <2>2, StaysPlaced
  <2>4. /\ PlacesOK => PlacesOK'
        /\ InOrder => InOrder'
        /\ ModeSeen => ModeSeen'
    BY <2>1 DEF PlacesOK, InOrder, ModeSeen, HadSocket, InModes
  <2> QED BY <1>1, <2>1, <2>3, <2>4 DEF ItemsInv
<1> QED BY <1>2, <1>3

\* However the peer cuts what it writes into chunks, whatever is read ahead and whatever a
\* command does with the socket: an item that is not on its way was evaluated, in the peer's
\* order and once, or was given to a command or lost with one (command_socket.rs: next_request,
\* stream_json, stream_raw).
THEOREM InputIsAlwaysKept == Spec => []InputIsKept
<1> QED BY ItemsInit, ItemsStep, ItemsInPlace, PTL DEF Spec

\* Bytes, characters, and the bytes that start or continue others.
Leads == {"lead2", "lead3", "cont"}
InputBytes == UNION {ToSet(input) : input \in Inputs}
Symbols == InputBytes \cup Leads \cup {"nul", "wide2", "wide3"} \cup Letters
Chars == Symbols \ Leads

\* What a sequence holds from a place on.
From(s, i) == SubSeq(s, i, Len(s))

\* Joining of bytes, and of characters.
LEMMA BytesJoined == \A x, y, z \in Seq(Symbols) : Associates(x, y, z)
BY ConcatAssociative, SMT DEF Associates

LEMMA CharactersJoined == \A x, y, z \in Seq(Chars) : Associates(x, y, z)
BY ConcatAssociative, SMT DEF Associates

\* What is left of a sequence from a place on.
LEMMA FromIs ==
  ASSUME NEW S, NEW s \in Seq(S), NEW i \in 1..Len(s)+1
  PROVE  /\ From(s, i) \in Seq(S) /\ Len(From(s, i)) = Len(s) - i + 1
         /\ \A j \in 1..Len(s)-i+1 : From(s, i)[j] = s[i + j - 1]
<1>1. Len(s) \in Nat /\ \A k \in i..Len(s) : s[k] \in S
  OBVIOUS
<1> QED BY <1>1, SubSeqProperties DEF From

\* From a place of what is left.
LEMMA FromFrom ==
  ASSUME NEW S, NEW s \in Seq(S), NEW i \in 1..Len(s)+1, NEW j \in 1..Len(s)-i+2
  PROVE  From(From(s, i), j) = From(s, i + j - 1)
<1>1. /\ From(s, i) \in Seq(S) /\ Len(From(s, i)) = Len(s) - i + 1
      /\ \A k \in 1..Len(s)-i+1 : From(s, i)[k] = s[i + k - 1]
  BY FromIs
<1>2. PICK t \in Seq(S) : t = From(s, i)
  BY <1>1
<1>3. Len(t) = Len(s) - i + 1 /\ \A k \in 1..Len(s)-i+1 : t[k] = s[i + k - 1]
  BY <1>1, <1>2
<1>4. PICK m \in 1..Len(s)+1 : m = i + j - 1 /\ Len(t) - j = Len(s) - m /\ j \in 1..Len(t)+1
  <2>1. Len(s) \in Nat /\ j \in 1..Len(t)+1 /\ i + j - 1 \in 1..Len(s)+1 /\ Len(t) - j = Len(s) - (i + j - 1)
    BY <1>3
  <2> QED BY <2>1
<1>5. \A k \in 1..Len(t)-j+1 : t[j + k - 1] = s[m + k - 1]
  <2> SUFFICES ASSUME NEW k \in 1..Len(t)-j+1 PROVE t[j + k - 1] = s[m + k - 1]
    OBVIOUS
  <2>1. j + k - 1 \in 1..Len(s)-i+1 /\ i + (j + k - 1) - 1 = m + k - 1
    BY <1>3, <1>4
  <2> QED BY <1>3, <2>1
<1>6. From(t, j) = From(s, m)
  <2>1. /\ From(t, j) \in Seq(S) /\ Len(From(t, j)) = Len(t) - j + 1
        /\ \A k \in 1..Len(t)-j+1 : From(t, j)[k] = t[j + k - 1]
    BY <1>4, FromIs
  <2>2. /\ From(s, m) \in Seq(S) /\ Len(From(s, m)) = Len(s) - m + 1
        /\ \A k \in 1..Len(s)-m+1 : From(s, m)[k] = s[m + k - 1]
    BY <1>4, FromIs
  <2>3. Len(From(t, j)) = Len(From(s, m)) /\ \A k \in 1..Len(From(t, j)) : From(t, j)[k] = From(s, m)[k]
    BY <1>3, <1>4, <1>5, <2>1, <2>2
  <2> QED BY <2>1, <2>2, <2>3, SeqEqual
<1> QED BY <1>2, <1>4, <1>6

----------------------------------------------------------------------------
(* The first character. *)

\* The symbols that the code itself tells apart.
LEMMA SymbolsAre ==
  /\ {"nul", "wide2", "wide3"} \cup Letters \subseteq Chars /\ Leads \subseteq Symbols
  /\ Chars \subseteq Symbols /\ \A c \in Symbols : c \in Chars <=> c \notin Leads
<1>1. {"nul", "wide2", "wide3"} \cup Letters \subseteq Symbols /\ Leads \subseteq Symbols
  BY DEF Symbols
<1>2. ({"nul", "wide2", "wide3"} \cup Letters) \cap Leads = {}
  BY DEF Leads, Letters
<1> QED BY <1>1, <1>2 DEF Chars

\* The bytes that start a character of two or three bytes.
LEMMA ExtrasAre ==
  /\ DOMAIN ExtraBytes = {"lead2", "lead3"} /\ ExtraBytes["lead2"] = 1 /\ ExtraBytes["lead3"] = 2
  /\ Decoded["lead2"] = "wide2" /\ Decoded["lead3"] = "wide3"
  BY DEF ExtraBytes, Decoded

\* What the first character of some bytes is, by the first of them.
LEMMA FirstNone ==
  ASSUME NEW b, b = <<>>
  PROVE  FirstCharacter(b) = [taken |-> 0, char |-> "nul"]
  BY DEF FirstCharacter

\* A byte that continues a character, with none before it, is read as a nul.
LEMMA FirstCont ==
  ASSUME NEW b, b # <<>>, b[1] = "cont"
  PROVE  FirstCharacter(b) = [taken |-> 1, char |-> "nul"]
<1>1. "cont" \notin DOMAIN ExtraBytes
  BY ExtrasAre
<1> QED BY <1>1 DEF FirstCharacter

\* A byte that starts no longer character is a character.
LEMMA FirstPlain ==
  ASSUME NEW b, b # <<>>, b[1] \notin Leads
  PROVE  FirstCharacter(b) = [taken |-> 1, char |-> b[1]]
<1>1. b[1] # "cont" /\ b[1] \notin DOMAIN ExtraBytes
  BY ExtrasAre DEF Leads
<1> QED BY <1>1 DEF FirstCharacter

\* A byte that starts a longer character waits for the rest of it, or is read as a nul.
LEMMA FirstLead ==
  ASSUME NEW b, b # <<>>, b[1] \in DOMAIN ExtraBytes
  PROVE  FirstCharacter(b) = IF Len(b) < 1 + ExtraBytes[b[1]] THEN [taken |-> 0, char |-> "nul"]
                             ELSE IF \E p \in 2..(1 + ExtraBytes[b[1]]) : b[p] # "cont"
                             THEN [taken |-> 1, char |-> "nul"]
                             ELSE [taken |-> 1 + ExtraBytes[b[1]], char |-> Decoded[b[1]]]
<1>1. b[1] # "cont"
  BY ExtrasAre
<1> QED BY <1>1 DEF FirstCharacter

\* It takes some of the bytes and gives a character.
LEMMA FirstIs ==
  ASSUME NEW b \in Seq(Symbols)
  PROVE  /\ FirstCharacter(b).taken \in 0..Len(b) /\ FirstCharacter(b).char \in Chars
         /\ b = <<>> => FirstCharacter(b).taken = 0
<1>1. Len(b) \in Nat /\ (b # <<>> => Len(b) >= 1 /\ b[1] \in Symbols)
  BY EmptySeq
<1>2. CASE b = <<>>
  BY <1>1, <1>2, FirstNone, SymbolsAre
<1>3. CASE b # <<>> /\ b[1] = "cont"
  BY <1>1, <1>3, FirstCont, SymbolsAre
<1>4. CASE b # <<>> /\ b[1] \notin Leads
  BY <1>1, <1>4, FirstPlain, SymbolsAre
<1>5. CASE b # <<>> /\ b[1] \in DOMAIN ExtraBytes
  <2>1. ExtraBytes[b[1]] \in Nat /\ Decoded[b[1]] \in Chars
    BY <1>5, ExtrasAre, SymbolsAre
  <2> DEFINE extra == ExtraBytes[b[1]]
             wide == Decoded[b[1]]
  <2>2. FirstCharacter(b) = IF Len(b) < 1 + extra THEN [taken |-> 0, char |-> "nul"]
                            ELSE IF \E p \in 2..(1 + extra) : b[p] # "cont" THEN [taken |-> 1, char |-> "nul"]
                            ELSE [taken |-> 1 + extra, char |-> wide]
    BY <1>5, FirstLead
  <2>3. extra \in Nat /\ wide \in Chars
    BY <2>1
  <2> HIDE DEF extra, wide
  <2> QED BY <1>1, <1>5, <2>2, <2>3, SymbolsAre
<1> QED BY <1>2, <1>3, <1>4, <1>5, ExtrasAre DEF Leads

\* A character that is there in full does not depend on the bytes after it.
LEMMA FirstStays ==
  ASSUME NEW b \in Seq(Symbols), NEW x \in Seq(Symbols), FirstCharacter(b).taken # 0
  PROVE  FirstCharacter(b \o x) = FirstCharacter(b)
<1>1. b # <<>> /\ Len(b) \in Nat /\ Len(b) >= 1 /\ Len(x) \in Nat
  BY FirstNone, EmptySeq
<1>2. /\ b \o x \in Seq(Symbols) /\ Len(b \o x) = Len(b) + Len(x)
      /\ \A i \in 1..Len(b) : (b \o x)[i] = b[i]
  <2>1. b \o x \in Seq(Symbols) /\ Len(b \o x) = Len(b) + Len(x)
    BY ConcatProperties
  <2>2. ASSUME NEW i \in 1..Len(b) PROVE (b \o x)[i] = b[i]
    BY <1>1, ConcatProperties
  <2> QED BY <2>1, <2>2
<1> DEFINE y == b \o x
<1>3. y # <<>> /\ y[1] = b[1]
  BY <1>1, <1>2, EmptySeq
<1>4. CASE b[1] = "cont"
  BY <1>1, <1>3, <1>4, FirstCont
<1>5. CASE b[1] \notin Leads
  BY <1>1, <1>3, <1>5, FirstPlain
<1>6. CASE b[1] \in DOMAIN ExtraBytes
  <2> DEFINE extra == ExtraBytes[b[1]]
             wide == Decoded[b[1]]
             Is(z) == FirstCharacter(z) = IF Len(z) < 1 + extra THEN [taken |-> 0, char |-> "nul"]
                            ELSE IF \E p \in 2..(1 + extra) : z[p] # "cont" THEN [taken |-> 1, char |-> "nul"]
                            ELSE [taken |-> 1 + extra, char |-> wide]
  <2>1. Is(b)
    BY <1>1, <1>6, FirstLead
  <2>2. Is(y)
    BY <1>3, <1>6, FirstLead
  <2>3. extra \in Nat
    BY <1>6, ExtrasAre
  <2> HIDE DEF extra, wide, y
  <2>4. ~(Len(b) < 1 + extra)
    BY <2>1
  <2>5. ~(Len(y) < 1 + extra)
    BY <1>1, <1>2, <2>3, <2>4 DEF y
  <2>6. \A p \in 2..(1 + extra) : y[p] = b[p]
    BY <1>1, <1>2, <2>3, <2>4 DEF y
  <2>7. (\E p \in 2..(1 + extra) : y[p] # "cont") <=> (\E p \in 2..(1 + extra) : b[p] # "cont")
    BY <2>6
  <2>8. FirstCharacter(y) = FirstCharacter(b)
    BY <2>1, <2>2, <2>4, <2>5, <2>7
  <2> QED BY <2>8 DEF y
<1> QED BY <1>4, <1>5, <1>6, ExtrasAre DEF Leads

(* Decoding. *)

\* What the bytes from a place on begin with, ...
FirstFrom(b, i) == FirstCharacter(From(b, i))

\* ... and one step of the recursion of DecodeFrom.
DecodeStep(b, f, i) ==
    IF FirstFrom(b, i).taken = 0 THEN [chars |-> <<>>, left |-> i]
    ELSE [chars |-> <<FirstFrom(b, i).char>> \o f[i + FirstFrom(b, i).taken].chars,
          left |-> f[i + FirstFrom(b, i).taken].left]
DecodesFrom(b, f, n) == \A i \in n..Len(b)+1 : f[i] = DecodeStep(b, f, i)

\* It takes no more than there is, and something unless it takes none.
LEMMA FirstFromIs ==
  ASSUME NEW b \in Seq(Symbols), NEW i \in 1..Len(b)+1
  PROVE  /\ FirstFrom(b, i).taken \in Nat /\ FirstFrom(b, i).char \in Chars
         /\ i + FirstFrom(b, i).taken \in i..Len(b)+1
         /\ i = Len(b)+1 => FirstFrom(b, i).taken = 0
<1>1. From(b, i) \in Seq(Symbols) /\ Len(From(b, i)) = Len(b) - i + 1
  BY FromIs
<1>2. Len(b) \in Nat
  OBVIOUS
<1>3. FirstFrom(b, i).taken \in 0..Len(From(b, i)) /\ FirstFrom(b, i).char \in Chars
  BY <1>1, FirstIs DEF FirstFrom
<1>4. FirstFrom(b, i).taken \in 0..(Len(b) - i + 1)
  BY <1>1, <1>3
<1> HIDE DEF FirstFrom
<1>5. \A k \in 0..(Len(b) - i + 1) : k \in Nat /\ i + k \in i..Len(b)+1 /\ (i = Len(b)+1 => k = 0)
  BY <1>2
<1> QED BY <1>3, <1>4, <1>5

\* A step of the recursion gives characters and a place.
LEMMA StepDecodes ==
  ASSUME NEW b \in Seq(Symbols), NEW f, NEW i \in 1..Len(b)+1,
         \A k \in i+1..Len(b)+1 : f[k].chars \in Seq(Chars) /\ f[k].left \in k..Len(b)+1
  PROVE  DecodeStep(b, f, i).chars \in Seq(Chars) /\ DecodeStep(b, f, i).left \in i..Len(b)+1
<1> DEFINE t == FirstFrom(b, i).taken
           c == FirstFrom(b, i).char
<1>1. t \in Nat /\ c \in Chars /\ i + t \in i..Len(b)+1
  BY FirstFromIs
<1>2. Len(b) \in Nat
  OBVIOUS
<1> HIDE DEF t, c
<1>3. CASE t = 0
  <2>1. DecodeStep(b, f, i) = [chars |-> <<>>, left |-> i]
    BY <1>3 DEF DecodeStep, t
  <2> QED BY <1>2, <2>1
<1>4. CASE t # 0
  <2>1. PICK k \in i+1..Len(b)+1 : k = i + t
    BY <1>1, <1>2, <1>4
  <2>2. DecodeStep(b, f, i) = [chars |-> <<c>> \o f[k].chars, left |-> f[k].left]
    BY <1>4, <2>1 DEF DecodeStep, t, c
  <2>3. f[k].chars \in Seq(Chars) /\ f[k].left \in i..Len(b)+1
    BY <1>2, <2>1
  <2>4. <<c>> \in Seq(Chars)
    BY <1>1
  <2>5. <<c>> \o f[k].chars \in Seq(Chars)
    BY <2>3, <2>4, ConcatProperties
  <2> QED BY <2>2, <2>3, <2>5
<1> QED BY <1>3, <1>4

\* The definition of DecodeFrom has a solution, ...
LEMMA DecodeExists ==
  ASSUME NEW b \in Seq(Symbols)
  PROVE  \E f : f = [i \in 1..(Len(b) + 1) |-> DecodeStep(b, f, i)]
<1> DEFINE L == Len(b)
           Is(n, f) == DecodesFrom(b, f, L + 1 - n)
           D == {n \in Nat : n <= L => \E f : Is(n, f)}
<1>1. L \in Nat
  OBVIOUS
<1>2. 0 \in D
  <2> DEFINE f == [i \in {L + 1} |-> [chars |-> <<>>, left |-> L + 1]]
  <2>1. L + 1 \in 1..L+1 /\ FirstFrom(b, L + 1).taken = 0
    BY <1>1, FirstFromIs
  <2>2. DecodeStep(b, f, L + 1) = [chars |-> <<>>, left |-> L + 1]
    BY <2>1 DEF DecodeStep
  <2>3. f[L + 1] = [chars |-> <<>>, left |-> L + 1]
    BY <1>1
  <2> HIDE DEF f
  <2>5. \A i \in L+1..L+1 : i = L + 1 /\ L + 1 - 0 = L + 1
    BY <1>1
  <2>6. f[L + 1] = DecodeStep(b, f, L + 1)
    BY <2>2, <2>3
  <2>7. Is(0, f)
    BY <1>1, <2>5, <2>6 DEF DecodesFrom
  <2> QED BY <2>7
<1>3. ASSUME NEW n \in Nat, n \in D PROVE n + 1 \in D
  <2> SUFFICES ASSUME n + 1 <= L PROVE \E f : Is(n + 1, f)
    OBVIOUS
  <2>1. PICK f : Is(n, f)
    BY <1>1, <1>3
  <2> DEFINE i == L - n
             x == DecodeStep(b, f, i)
             g == [k \in i..L+1 |-> IF k = i THEN x ELSE f[k]]
  <2>2. i \in 1..L+1 /\ i + 1 = L + 1 - n /\ i = L + 1 - (n + 1) /\ i \in i..L+1
    BY <1>1
  <2> HIDE DEF i
  <2>3. \A k \in i+1..L+1 : f[k] = DecodeStep(b, f, k)
    BY <2>1, <2>2 DEF DecodesFrom
  <2> HIDE DEF x
  <2>5. g[i] = x /\ \A k \in i+1..L+1 : g[k] = f[k]
    BY <1>1, <2>2
  <2> HIDE DEF g
  <2>6. ASSUME NEW k \in i..L+1 PROVE DecodeStep(b, g, k) = DecodeStep(b, f, k)
    <3> DEFINE t == FirstFrom(b, k).taken
    <3>1. k \in 1..L+1
      BY <1>1, <2>2
    <3>2. t \in Nat /\ k + t \in k..L+1
      BY <3>1, FirstFromIs
    <3> HIDE DEF t
    <3>3. t # 0 => k + t \in i+1..L+1
      BY <1>1, <2>2, <3>2
    <3>4. t # 0 => g[k + t] = f[k + t]
      BY <2>5, <3>3
    <3> QED BY <3>4 DEF DecodeStep, t
  <2>7. ASSUME NEW k \in i..L+1 PROVE g[k] = DecodeStep(b, g, k)
    <3>1. CASE k = i
      BY <2>5, <2>6, <3>1 DEF x
    <3>2. CASE k # i
      <4>1. k \in i+1..L+1
        BY <1>1, <2>2, <3>2
      <4> QED BY <2>3, <2>5, <2>6, <4>1
    <3> QED BY <3>1, <3>2
  <2>8. Is(n + 1, g)
    BY <2>2, <2>7 DEF DecodesFrom
  <2> QED BY <2>8
<1> HIDE DEF D
<1>4. Nat \subseteq D
  BY <1>2, <1>3, NatSetInduction
<1>5. PICK f : DecodesFrom(b, f, 1)
  <2>1. L \in D /\ L <= L /\ L + 1 - L = 1
    BY <1>1, <1>4
  <2> QED BY <2>1 DEF D
<1> DEFINE h == [i \in 1..(Len(b) + 1) |-> f[i]]
<1>6. \A i \in 1..(Len(b) + 1) : h[i] = f[i]
  OBVIOUS
<1>7. ASSUME NEW k \in 1..L+1 PROVE DecodeStep(b, h, k) = DecodeStep(b, f, k)
  <2> DEFINE t == FirstFrom(b, k).taken
  <2>1. t \in Nat /\ k + t \in 1..L+1
    BY <1>1, FirstFromIs
  <2>2. h[k + t] = f[k + t]
    BY <1>6, <2>1
  <2> HIDE DEF t, h
  <2> QED BY <2>2 DEF DecodeStep, t
<1>8. h = [i \in 1..(Len(b) + 1) |-> DecodeStep(b, h, i)]
  <2>1. \A i \in 1..(Len(b) + 1) : f[i] = DecodeStep(b, h, i)
    BY <1>5, <1>7 DEF DecodesFrom
  <2> QED BY <2>1
<1> QED BY <1>8

\* ... which is the function that it is: of characters and places.
LEMMA DecodeFromIs ==
  ASSUME NEW b \in Seq(Symbols)
  PROVE  /\ DecodesFrom(b, DecodeFrom(b), 1)
         /\ \A i \in 1..Len(b)+1 :
               DecodeFrom(b)[i].chars \in Seq(Chars) /\ DecodeFrom(b)[i].left \in i..Len(b)+1
<1> DEFINE Eq(f) == [i \in 1..(Len(b) + 1) |-> DecodeStep(b, f, i)]
           h == CHOOSE f : f = Eq(f)
           L == Len(b)
<1>1. PICK g : g = Eq(g)
  BY DecodeExists
<1>2. h = Eq(h)
  BY <1>1
<1>3. DecodeFrom(b) = h
  BY Zenon DEF DecodeFrom, DecodeStep, FirstFrom, From
<1> HIDE DEF h
<1>4. DecodesFrom(b, h, 1)
  BY <1>2 DEF DecodesFrom
<1> DEFINE OK(i) == h[i].chars \in Seq(Chars) /\ h[i].left \in i..L+1
           D == {n \in Nat : \A i \in 1..L+1 : i >= L + 1 - n => OK(i)}
<1>5. L \in Nat
  OBVIOUS
<1>6. ASSUME NEW i \in 1..L+1, \A k \in i+1..L+1 : OK(k) PROVE OK(i)
  <2>1. h[i] = DecodeStep(b, h, i)
    BY <1>4 DEF DecodesFrom
  <2> QED BY <1>6, <2>1, StepDecodes
<1> HIDE DEF OK
<1>7. 0 \in D
  <2> SUFFICES ASSUME NEW i \in 1..L+1, i >= L + 1 - 0 PROVE OK(i)
    OBVIOUS
  <2>1. \A k \in i+1..L+1 : OK(k)
    BY <1>5
  <2> QED BY <1>6, <2>1
<1>8. ASSUME NEW n \in Nat, n \in D PROVE n + 1 \in D
  <2> SUFFICES ASSUME NEW i \in 1..L+1, i >= L + 1 - (n + 1) PROVE OK(i)
    OBVIOUS
  <2>1. \A k \in i+1..L+1 : OK(k)
    <3> SUFFICES ASSUME NEW k \in i+1..L+1 PROVE OK(k)
      OBVIOUS
    <3>1. k \in 1..L+1 /\ k >= L + 1 - n
      BY <1>5
    <3> QED BY <1>8, <3>1
  <2> QED BY <1>6, <2>1
<1> HIDE DEF D
<1>9. Nat \subseteq D
  BY <1>7, <1>8, NatSetInduction
<1>10. \A i \in 1..L+1 : OK(i)
  <2>1. L \in D
    BY <1>5, <1>9
  <2>2. \A i \in 1..L+1 : i >= L + 1 - L
    BY <1>5
  <2> QED BY <2>1, <2>2 DEF D
<1> QED BY <1>3, <1>4, <1>10 DEF OK

\* What bytes are decoded to: characters, and bytes that are left.
LEMMA DecodeType ==
  ASSUME NEW b \in Seq(Symbols)
  PROVE  DecodeAll(b).chars \in Seq(Chars) /\ DecodeAll(b).bytes \in Seq(Symbols)
<1> DEFINE all == DecodeFrom(b)[1]
<1>1. Len(b) \in Nat /\ 1 \in 1..Len(b)+1
  OBVIOUS
<1>2. all.chars \in Seq(Chars) /\ all.left \in 1..Len(b)+1
  BY <1>1, DecodeFromIs
<1> HIDE DEF all
<1>3. From(b, all.left) \in Seq(Symbols)
  BY <1>2, FromIs
<1>4. DecodeAll(b) = [chars |-> all.chars, bytes |-> From(b, all.left)]
  BY DEF DecodeAll, all, From
<1> QED BY <1>2, <1>3, <1>4

\* Where no character is there in full, nothing is decoded; ...
LEMMA DecodeNone ==
  ASSUME NEW b \in Seq(Symbols), FirstCharacter(b).taken = 0
  PROVE  DecodeAll(b) = [chars |-> <<>>, bytes |-> b]
<1>1. Len(b) \in Nat /\ 1 \in 1..Len(b)+1
  OBVIOUS
<1>2. From(b, 1) = b
  BY SubSeqFull DEF From
<1>3. FirstFrom(b, 1).taken = 0
  BY <1>2 DEF FirstFrom
<1>4. DecodeFrom(b)[1] = [chars |-> <<>>, left |-> 1]
  BY <1>1, <1>3, DecodeFromIs DEF DecodesFrom, DecodeStep
<1>5. DecodeAll(b) = [chars |-> <<>>, bytes |-> From(b, 1)]
  BY <1>4 DEF DecodeAll, From
<1> QED BY <1>2, <1>5

\* ... otherwise, the first character, and then what the bytes after it are decoded to.
LEMMA DecodeFirst ==
  ASSUME NEW b \in Seq(Symbols), FirstCharacter(b).taken # 0
  PROVE  LET r == From(b, FirstCharacter(b).taken + 1)
         IN /\ r \in Seq(Symbols) /\ Len(r) < Len(b)
            /\ DecodeAll(b) = [chars |-> <<FirstCharacter(b).char>> \o DecodeAll(r).chars, bytes |-> DecodeAll(r).bytes]
<1> DEFINE L == Len(b)
           h == DecodeFrom(b)
           u == DecodeFrom(From(b, FirstCharacter(b).taken + 1))
<1>1. L \in Nat
  OBVIOUS
<1>2. PICK t \in 1..L : t = FirstCharacter(b).taken
  BY <1>1, FirstIs
<1>3. PICK r : r = From(b, t + 1)
  OBVIOUS
<1>4. t + 1 \in 1..L+1
  BY <1>1
<1>5. r \in Seq(Symbols) /\ Len(r) = L - t
  BY <1>1, <1>3, <1>4, FromIs
<1>6. DecodesFrom(b, h, 1) /\ DecodesFrom(r, u, 1) /\ u = DecodeFrom(r)
  BY <1>2, <1>3, <1>5, DecodeFromIs
<1>7. \A i \in 1..Len(r)+1 : u[i].left \in i..Len(r)+1
  BY <1>5, <1>6, DecodeFromIs
<1> HIDE DEF h, u
<1> DEFINE Same(i) == u[i].chars = h[i + t].chars /\ u[i].left + t = h[i + t].left
           D == {n \in Nat : \A i \in 1..Len(r)+1 : i >= Len(r) + 1 - n => Same(i)}
<1>8. ASSUME NEW i \in 1..Len(r)+1, \A k \in i+1..Len(r)+1 : Same(k) PROVE Same(i)
  <2>1. t + i \in 1..L+1 /\ i + t = t + i /\ (t + 1) + i - 1 = t + i /\ i \in 1..L-(t+1)+2
    BY <1>1, <1>5
  <2>2. From(r, i) = From(b, i + t)
    <3>1. From(From(b, t + 1), i) = From(b, (t + 1) + i - 1)
      BY <1>4, <2>1, FromFrom
    <3> QED BY <1>3, <2>1, <3>1
  <2>3. FirstFrom(r, i) = FirstFrom(b, i + t)
    BY <2>2 DEF FirstFrom
  <2>4. u[i] = DecodeStep(r, u, i) /\ h[i + t] = DecodeStep(b, h, i + t)
    BY <1>6, <2>1 DEF DecodesFrom, L
  <2> DEFINE n == FirstFrom(r, i).taken
             c == FirstFrom(r, i).char
  <2>5. n \in Nat /\ i + n \in i..Len(r)+1
    BY <1>5, FirstFromIs
  <2>6. u[i] = (IF n = 0 THEN [chars |-> <<>>, left |-> i]
                ELSE [chars |-> <<c>> \o u[i + n].chars, left |-> u[i + n].left])
    BY <2>4 DEF DecodeStep
  <2>7. h[i + t] = (IF n = 0 THEN [chars |-> <<>>, left |-> i + t]
                    ELSE [chars |-> <<c>> \o h[i + t + n].chars, left |-> h[i + t + n].left])
    BY <2>3, <2>4 DEF DecodeStep
  <2> HIDE DEF n, c
  <2>8. CASE n = 0
    BY <2>6, <2>7, <2>8
  <2>9. CASE n # 0
    <3>1. i + n \in i+1..Len(r)+1 /\ i + t + n = (i + n) + t
      BY <1>1, <1>5, <2>5, <2>9
    <3>2. Same(i + n)
      BY <1>8, <3>1
    <3> QED BY <2>6, <2>7, <2>9, <3>1, <3>2
  <2> QED BY <2>8, <2>9
<1> HIDE DEF Same
<1>9. 0 \in D
  <2> SUFFICES ASSUME NEW i \in 1..Len(r)+1, i >= Len(r) + 1 - 0 PROVE Same(i)
    OBVIOUS
  <2>1. \A k \in i+1..Len(r)+1 : Same(k)
    BY <1>1, <1>5
  <2> QED BY <1>8, <2>1
<1>10. ASSUME NEW n \in Nat, n \in D PROVE n + 1 \in D
  <2> SUFFICES ASSUME NEW i \in 1..Len(r)+1, i >= Len(r) + 1 - (n + 1) PROVE Same(i)
    OBVIOUS
  <2>1. \A k \in i+1..Len(r)+1 : Same(k)
    <3> SUFFICES ASSUME NEW k \in i+1..Len(r)+1 PROVE Same(k)
      OBVIOUS
    <3>1. k \in 1..Len(r)+1 /\ k >= Len(r) + 1 - n
      BY <1>1, <1>5
    <3> QED BY <1>10, <3>1
  <2> QED BY <1>8, <2>1
<1> HIDE DEF D
<1>11. Nat \subseteq D
  BY <1>9, <1>10, NatSetInduction
<1>12. Same(1)
  <2>1. Len(r) \in D /\ 1 \in 1..Len(r)+1 /\ 1 >= Len(r) + 1 - Len(r)
    BY <1>1, <1>5, <1>11
  <2> QED BY <2>1 DEF D
<1>13. h[1] = [chars |-> <<FirstCharacter(b).char>> \o h[1 + t].chars, left |-> h[1 + t].left]
  <2>1. From(b, 1) = b
    BY SubSeqFull DEF From
  <2>2. FirstFrom(b, 1) = FirstCharacter(b) /\ FirstFrom(b, 1).taken = t /\ t # 0 /\ 1 \in 1..L+1
    BY <1>1, <1>2, <2>1 DEF FirstFrom
  <2> QED BY <1>6, <2>2 DEF DecodesFrom, DecodeStep, L
<1>14. From(r, u[1].left) = From(b, h[1].left)
  <2>1. u[1].left \in 1..Len(r)+1
    BY <1>1, <1>5, <1>7
  <2>2. PICK k \in 1..Len(r)+1 : k = u[1].left
    BY <2>1
  <2>3. (t + 1) + k - 1 = k + t /\ k \in 1..L-(t+1)+2 /\ t + 1 = 1 + t
    BY <1>1, <1>5
  <2>4. h[1].left = h[1 + t].left /\ u[1].left + t = h[1 + t].left
    BY <1>12, <1>13 DEF Same
  <2>5. h[1].left = k + t
    BY <2>2, <2>4
  <2>6. From(From(b, t + 1), k) = From(b, (t + 1) + k - 1)
    BY <1>4, <2>3, FromFrom
  <2> QED BY <1>3, <2>2, <2>3, <2>6, <2>5
<1>15. DecodeAll(b) = [chars |-> h[1].chars, bytes |-> From(b, h[1].left)]
  BY DEF DecodeAll, h, From
<1>16. DecodeAll(r) = [chars |-> u[1].chars, bytes |-> From(r, u[1].left)]
  BY <1>6 DEF DecodeAll, From
<1>17. DecodeAll(b) = [chars |-> <<FirstCharacter(b).char>> \o DecodeAll(r).chars, bytes |-> DecodeAll(r).bytes]
  BY <1>12, <1>13, <1>14, <1>15, <1>16 DEF Same
<1>18. Len(r) < L
  BY <1>1, <1>5
<1> QED BY <1>2, <1>3, <1>5, <1>17, <1>18

\* ... which is read off the first character's length and value.
LEMMA FirstDecoded ==
  ASSUME NEW b \in Seq(Symbols), FirstCharacter(b).taken # 0
  PROVE  DecodeAll(b).chars = <<FirstCharacter(b).char>> \o DecodeAll(From(b, FirstCharacter(b).taken + 1)).chars
<1>1. DecodeAll(b) = [chars |-> <<FirstCharacter(b).char>> \o DecodeAll(From(b, FirstCharacter(b).taken + 1)).chars,
                      bytes |-> DecodeAll(From(b, FirstCharacter(b).taken + 1)).bytes]
  BY DecodeFirst
<1> QED BY <1>1

\* Sequences joined: their places, and where the second begins.
LEMMA JoinIs ==
  ASSUME NEW S, NEW a \in Seq(S), NEW b \in Seq(S)
  PROVE  /\ a \o b \in Seq(S) /\ Len(a \o b) = Len(a) + Len(b)
         /\ \A i \in 1..Len(a) : (a \o b)[i] = a[i]
         /\ \A i \in 1..Len(b) : (a \o b)[Len(a) + i] = b[i]
<1>1. Len(a) \in Nat /\ Len(b) \in Nat
  OBVIOUS
<1>2. a \o b \in Seq(S) /\ Len(a \o b) = Len(a) + Len(b)
  BY ConcatProperties
<1>3. \A i \in 1..Len(a) + Len(b) : (a \o b)[i] = IF i <= Len(a) THEN a[i] ELSE b[i - Len(a)]
  BY ConcatProperties
<1>4. ASSUME NEW i \in 1..Len(a) PROVE (a \o b)[i] = a[i]
  <2>1. i \in 1..Len(a) + Len(b) /\ i <= Len(a)
    BY <1>1
  <2> QED BY <1>3, <2>1
<1>5. ASSUME NEW i \in 1..Len(b) PROVE (a \o b)[Len(a) + i] = b[i]
  <2>1. Len(a) + i \in 1..Len(a) + Len(b) /\ ~(Len(a) + i <= Len(a)) /\ (Len(a) + i) - Len(a) = i
    BY <1>1
  <2>2. PICK k \in 1..Len(a) + Len(b) : k = Len(a) + i
    BY <2>1
  <2> QED BY <1>3, <2>1, <2>2
<1> QED BY <1>2, <1>4, <1>5

\* What is joined from a place of the first on.
LEMMA FromJoined ==
  ASSUME NEW S, NEW a \in Seq(S), NEW b \in Seq(S), NEW i \in 1..Len(a)+1
  PROVE  From(a \o b, i) = From(a, i) \o b
<1>1. /\ a \o b \in Seq(S) /\ Len(a \o b) = Len(a) + Len(b)
      /\ \A k \in 1..Len(a) : (a \o b)[k] = a[k]
      /\ \A k \in 1..Len(b) : (a \o b)[Len(a) + k] = b[k]
  BY JoinIs
<1>2. PICK y \in Seq(S) : y = a \o b
  BY <1>1
<1>3. Len(a) \in Nat /\ Len(b) \in Nat
  OBVIOUS
<1>4. i \in 1..Len(y)+1
  BY <1>1, <1>2, <1>3
<1>5. /\ From(y, i) \in Seq(S) /\ Len(From(y, i)) = Len(y) - i + 1
      /\ \A k \in 1..Len(y)-i+1 : From(y, i)[k] = y[i + k - 1]
  BY <1>4, FromIs
<1>6. /\ From(a, i) \in Seq(S) /\ Len(From(a, i)) = Len(a) - i + 1
      /\ \A k \in 1..Len(a)-i+1 : From(a, i)[k] = a[i + k - 1]
  BY FromIs
<1>7. PICK f \in Seq(S) : f = From(a, i)
  BY <1>6
<1>8. /\ f \o b \in Seq(S) /\ Len(f \o b) = Len(f) + Len(b)
      /\ \A k \in 1..Len(f) : (f \o b)[k] = f[k]
      /\ \A k \in 1..Len(b) : (f \o b)[Len(f) + k] = b[k]
  BY JoinIs
<1>9. Len(From(y, i)) = Len(f \o b)
  BY <1>1, <1>2, <1>3, <1>5, <1>6, <1>7, <1>8
<1>10. ASSUME NEW k \in 1..Len(From(y, i)) PROVE From(y, i)[k] = (f \o b)[k]
  <2>1. PICK p \in Nat, q \in Nat : p = Len(a) /\ q = Len(b) /\ i \in 1..p+1
    BY <1>3
  <2>2. k \in 1..(p + q) - i + 1 /\ Len(f) = p - i + 1
    BY <1>1, <1>2, <1>5, <1>6, <1>7, <2>1
  <2>3. From(y, i)[k] = y[i + k - 1]
    BY <1>1, <1>2, <1>5, <2>1, <2>2
  <2>4. CASE k <= p - i + 1
    <3>1. k \in 1..p-i+1 /\ i + k - 1 \in 1..p
      BY <2>1, <2>2, <2>4
    <3>2. y[i + k - 1] = a[i + k - 1] /\ f[k] = a[i + k - 1]
      BY <1>1, <1>2, <1>6, <1>7, <2>1, <3>1
    <3>3. (f \o b)[k] = f[k]
      BY <1>8, <2>2, <3>1
    <3> QED BY <2>3, <3>2, <3>3
  <2>5. CASE k > p - i + 1
    <3>1. PICK m \in 1..q : m = k - (p - i + 1)
      <4>1. p \in Nat /\ q \in Nat /\ i \in Nat /\ k \in Nat /\ k <= (p + q) - i + 1 /\ k > p - i + 1
        BY <2>1, <2>2, <2>5
      <4>2. k - (p - i + 1) \in 1..q
        BY <4>1
      <4> QED BY <4>2
    <3>2. i + k - 1 = p + m /\ k = (p - i + 1) + m
      <4>1. p \in Int /\ i \in Int /\ k \in Int /\ m = k - (p - i + 1)
        BY <2>1, <2>2, <3>1
      <4> QED BY <4>1
    <3>3. y[p + m] = b[m]
      BY <1>1, <1>2, <2>1
    <3>4. (f \o b)[(p - i + 1) + m] = b[m]
      BY <1>8, <2>1, <2>2
    <3> QED BY <2>3, <3>2, <3>3, <3>4
  <2>6. k <= p - i + 1 \/ k > p - i + 1
    BY <2>1
  <2> QED BY <2>4, <2>5, <2>6
<1>11. From(y, i) = f \o b
  BY <1>5, <1>8, <1>9, <1>10, SeqEqual
<1> QED BY <1>2, <1>7, <1>11

\* What is decoded of joined bytes: the first of them, and then what was left with the others.
LEMMA DecodeJoined ==
  ASSUME NEW b \in Seq(Symbols), NEW x \in Seq(Symbols)
  PROVE  DecodeAll(b \o x).chars = DecodeAll(b).chars \o DecodeAll(DecodeAll(b).bytes \o x).chars
<1> DEFINE OK(s) == DecodeAll(s \o x).chars = DecodeAll(s).chars \o DecodeAll(DecodeAll(s).bytes \o x).chars
           D == {n \in Nat : \A s \in Seq(Symbols) : Len(s) < n => OK(s)}
<1> HIDE DEF OK
<1>1. 0 \in D
  <2>1. \A s \in Seq(Symbols) : Len(s) \in Nat /\ ~(Len(s) < 0)
    OBVIOUS
  <2> QED BY <2>1
<1>2. ASSUME NEW n \in Nat, n \in D PROVE n + 1 \in D
  <2> SUFFICES ASSUME NEW s \in Seq(Symbols), Len(s) < n + 1 PROVE OK(s)
    OBVIOUS
  <2>1. \A r \in Seq(Symbols) : Len(r) < n => OK(r)
    BY <1>2
  <2>2. CASE FirstCharacter(s).taken = 0
    <3>1. DecodeAll(s) = [chars |-> <<>>, bytes |-> s]
      BY <2>2, DecodeNone
    <3>2. s \o x \in Seq(Symbols)
      BY JoinIs
    <3>3. DecodeAll(s \o x).chars \in Seq(Chars)
      BY <3>2, DecodeType
    <3>4. <<>> \o DecodeAll(s \o x).chars = DecodeAll(s \o x).chars
      BY <3>3, ConcatEmptySeq
    <3>5. DecodeAll(s).chars = <<>> /\ DecodeAll(s).bytes = s
      BY <3>1
    <3> QED BY <3>4, <3>5, Zenon DEF OK
  <2>3. CASE FirstCharacter(s).taken # 0
    <3>1. PICK t \in 0..Len(s) : t = FirstCharacter(s).taken
      BY FirstIs
    <3>2. PICK c \in Chars : c = FirstCharacter(s).char
      BY FirstIs
    <3>3. PICK r : r = From(s, t + 1)
      OBVIOUS
    <3>4. /\ r \in Seq(Symbols) /\ Len(r) < Len(s)
          /\ DecodeAll(s) = [chars |-> <<c>> \o DecodeAll(r).chars, bytes |-> DecodeAll(r).bytes]
      BY <2>3, <3>1, <3>2, <3>3, DecodeFirst
    <3>5. s \o x \in Seq(Symbols) /\ FirstCharacter(s \o x) = FirstCharacter(s)
      BY <2>3, FirstStays, JoinIs
    <3>6. From(s \o x, t + 1) = r \o x
      <4>1. Len(s) \in Nat /\ t + 1 \in 1..Len(s)+1
        OBVIOUS
      <4>2. From(s \o x, t + 1) = From(s, t + 1) \o x
        BY <4>1, FromJoined
      <4> QED BY <3>3, <4>2
    <3>7. DecodeAll(s \o x) = [chars |-> <<c>> \o DecodeAll(r \o x).chars, bytes |-> DecodeAll(r \o x).bytes]
      BY <2>3, <3>1, <3>2, <3>5, <3>6, DecodeFirst
    <3>8. Len(r) < n
      <4>1. Len(r) \in Nat /\ Len(s) \in Nat
        BY <3>4
      <4> QED BY <3>4, <4>1
    <3>9. OK(r)
      BY <2>1, <3>4, <3>8
    <3>10. /\ DecodeAll(r).chars \in Seq(Chars) /\ <<c>> \in Seq(Chars)
           /\ DecodeAll(DecodeAll(r).bytes \o x).chars \in Seq(Chars)
      <4>1. DecodeAll(r).chars \in Seq(Chars) /\ DecodeAll(r).bytes \in Seq(Symbols)
        BY <3>4, DecodeType
      <4>2. DecodeAll(r).bytes \o x \in Seq(Symbols)
        BY <4>1, JoinIs
      <4>3. <<c>> \in Seq(Chars)
        OBVIOUS
      <4> QED BY <4>1, <4>2, <4>3, DecodeType
    <3>11. <<c>> \o (DecodeAll(r).chars \o DecodeAll(DecodeAll(r).bytes \o x).chars)
           = (<<c>> \o DecodeAll(r).chars) \o DecodeAll(DecodeAll(r).bytes \o x).chars
      <4> DEFINE u == DecodeAll(r).chars
                 v == DecodeAll(DecodeAll(r).bytes \o x).chars
      <4>1. u \in Seq(Chars) /\ v \in Seq(Chars) /\ <<c>> \in Seq(Chars)
        BY <3>10
      <4> HIDE DEF u, v
      <4>2. Associates(<<c>>, u, v)
        BY <4>1, CharactersJoined, Zenon
      <4>3. <<c>> \o (u \o v) = (<<c>> \o u) \o v
        BY <4>2, Zenon DEF Associates
      <4> QED BY <4>3, Zenon DEF u, v
    <3>12. DecodeAll(s \o x).chars = <<c>> \o DecodeAll(r \o x).chars
      BY <3>7
    <3>13. DecodeAll(s).chars = <<c>> \o DecodeAll(r).chars /\ DecodeAll(s).bytes = DecodeAll(r).bytes
      BY <3>4
    <3> QED BY <3>9, <3>11, <3>12, <3>13 DEF OK
  <2> QED BY <2>2, <2>3
<1> HIDE DEF D
<1>3. Nat \subseteq D
  BY <1>1, <1>2, NatSetInduction
<1>4. Len(b) + 1 \in D /\ Len(b) < Len(b) + 1
  <2>1. Len(b) \in Nat
    OBVIOUS
  <2> QED BY <1>3, <2>1
<1> QED BY <1>4 DEF D, OK

----------------------------------------------------------------------------
(* Encoding. *)

\* The bytes of a character.
LEMMA EncodeIs ==
  ASSUME NEW c \in Chars
  PROVE  /\ Encode(c) \in Seq(Symbols) /\ Len(Encode(c)) \in Nat \ {0}
         /\ c \notin {"wide2", "wide3"} => Encode(c) = <<c>>
         /\ c = "wide2" => Encode(c) = <<"lead2", "cont">>
         /\ c = "wide3" => Encode(c) = <<"lead3", "cont", "cont">>
<1>1. DOMAIN Encoded = {"wide2", "wide3"}
  BY DEF Encoded
<1>2. Encoded["wide2"] = <<"lead2", "cont">> /\ Encoded["wide3"] = <<"lead3", "cont", "cont">>
  BY DEF Encoded
<1>3. c \in Symbols /\ "lead2" \in Symbols /\ "lead3" \in Symbols /\ "cont" \in Symbols
  BY SymbolsAre DEF Leads
<1>4. /\ <<c>> \in Seq(Symbols) /\ Len(<<c>>) = 1
      /\ <<"lead2", "cont">> \in Seq(Symbols) /\ Len(<<"lead2", "cont">>) = 2
      /\ <<"lead3", "cont", "cont">> \in Seq(Symbols) /\ Len(<<"lead3", "cont", "cont">>) = 3
  BY <1>3
<1>5. CASE c \notin {"wide2", "wide3"}
  <2>1. Encode(c) = <<c>>
    BY <1>1, <1>5 DEF Encode
  <2> QED BY <1>4, <1>5, <2>1
<1>6. CASE c = "wide2"
  <2>1. Encode(c) = <<"lead2", "cont">>
    BY <1>1, <1>2, <1>6 DEF Encode
  <2>2. Encode(c) \in Seq(Symbols) /\ Len(Encode(c)) \in Nat \ {0}
    BY <1>4, <2>1
  <2>3. c # "wide3"
    BY <1>6
  <2> QED BY <1>6, <2>1, <2>2, <2>3, Zenon
<1>7. CASE c = "wide3"
  <2>1. Encode(c) = <<"lead3", "cont", "cont">>
    BY <1>1, <1>2, <1>7 DEF Encode
  <2>2. Encode(c) \in Seq(Symbols) /\ Len(Encode(c)) \in Nat \ {0}
    BY <1>4, <2>1
  <2>3. c # "wide2"
    BY <1>7
  <2> QED BY <1>7, <2>1, <2>2, <2>3, Zenon
<1> QED BY <1>5, <1>6, <1>7

\* They are decoded to it.
LEMMA FirstEncoded ==
  ASSUME NEW c \in Chars
  PROVE  FirstCharacter(Encode(c)) = [taken |-> Len(Encode(c)), char |-> c]
<1>1. CASE c \notin {"wide2", "wide3"}
  <2>1. Encode(c) = <<c>> /\ c \notin Leads
    BY <1>1, EncodeIs, SymbolsAre DEF Chars
  <2>2. Encode(c) # <<>> /\ Encode(c)[1] = c /\ Len(Encode(c)) = 1
    BY <2>1
  <2> QED BY <2>1, <2>2, FirstPlain
<1>2. CASE c = "wide2"
  <2>1. Encode(c) = <<"lead2", "cont">>
    BY <1>2, EncodeIs
  <2>2. Encode(c) # <<>> /\ Encode(c)[1] = "lead2" /\ Len(Encode(c)) = 2 /\ Encode(c)[2] = "cont"
    BY <2>1
  <2>3. \A p \in 2..(1 + 1) : Encode(c)[p] = "cont"
    BY <2>2
  <2>4. PICK e : e = Encode(c)
    OBVIOUS
  <2>5. e[1] \in DOMAIN ExtraBytes /\ ExtraBytes[e[1]] = 1 /\ Decoded[e[1]] = "wide2" /\ e # <<>>
    BY <2>2, <2>4, ExtrasAre
  <2>6. FirstCharacter(e) = IF Len(e) < 1 + 1 THEN [taken |-> 0, char |-> "nul"]
                            ELSE IF \E p \in 2..(1 + 1) : e[p] # "cont" THEN [taken |-> 1, char |-> "nul"]
                            ELSE [taken |-> 1 + 1, char |-> "wide2"]
    BY <2>5, FirstLead, Zenon
  <2>7. ~(Len(e) < 1 + 1) /\ ~(\E p \in 2..(1 + 1) : e[p] # "cont") /\ 1 + 1 = Len(e)
    BY <2>2, <2>3, <2>4
  <2> QED BY <1>2, <2>4, <2>6, <2>7, Zenon
<1>3. CASE c = "wide3"
  <2>1. Encode(c) = <<"lead3", "cont", "cont">>
    BY <1>3, EncodeIs
  <2>2. /\ Encode(c) # <<>> /\ Encode(c)[1] = "lead3" /\ Len(Encode(c)) = 3
        /\ Encode(c)[2] = "cont" /\ Encode(c)[3] = "cont"
    BY <2>1
  <2>3. \A p \in 2..(1 + 2) : Encode(c)[p] = "cont"
    BY <2>2
  <2>4. PICK e : e = Encode(c)
    OBVIOUS
  <2>5. e[1] \in DOMAIN ExtraBytes /\ ExtraBytes[e[1]] = 2 /\ Decoded[e[1]] = "wide3" /\ e # <<>>
    BY <2>2, <2>4, ExtrasAre
  <2>6. FirstCharacter(e) = IF Len(e) < 1 + 2 THEN [taken |-> 0, char |-> "nul"]
                            ELSE IF \E p \in 2..(1 + 2) : e[p] # "cont" THEN [taken |-> 1, char |-> "nul"]
                            ELSE [taken |-> 1 + 2, char |-> "wide3"]
    BY <2>5, FirstLead, Zenon
  <2>7. ~(Len(e) < 1 + 2) /\ ~(\E p \in 2..(1 + 2) : e[p] # "cont") /\ 1 + 2 = Len(e)
    BY <2>2, <2>3, <2>4
  <2> QED BY <1>3, <2>4, <2>6, <2>7, Zenon
<1> QED BY <1>1, <1>2, <1>3

\* One step of the recursion of EncodeUpTo.
EncodeStep(text, f, i) == IF i = 0 THEN <<>> ELSE f[i - 1] \o Encode(text[i])

\* Its definition has a solution.
LEMMA EncodeExists ==
  ASSUME NEW text \in Seq(Chars)
  PROVE  \E f : f = [i \in 0..Len(text) |-> EncodeStep(text, f, i)]
<1> DEFINE L == Len(text)
           Is(n, f) == \A i \in 0..n : f[i] = EncodeStep(text, f, i)
           D == {n \in Nat : \E f : Is(n, f)}
<1>1. L \in Nat
  OBVIOUS
<1>2. 0 \in D
  <2> DEFINE f == [i \in {0} |-> <<>>]
  <2>1. \A i \in 0..0 : i = 0 /\ f[i] = <<>>
    OBVIOUS
  <2> HIDE DEF f
  <2>2. Is(0, f)
    BY <2>1 DEF EncodeStep
  <2> QED BY <2>2
<1>3. ASSUME NEW n \in Nat, n \in D PROVE n + 1 \in D
  <2>1. PICK f : Is(n, f)
    BY <1>3
  <2> DEFINE x == f[n] \o Encode(text[n + 1])
             g == [k \in 0..n+1 |-> IF k = n + 1 THEN x ELSE f[k]]
  <2> HIDE DEF x
  <2>2. g[n + 1] = x /\ \A k \in 0..n : g[k] = f[k]
    OBVIOUS
  <2> HIDE DEF g
  <2>3. ASSUME NEW k \in 0..n+1 PROVE g[k] = EncodeStep(text, g, k)
    <3>1. CASE k = n + 1
      <4>1. k - 1 = n /\ k # 0 /\ n \in 0..n
        BY <3>1
      <4> QED BY <2>2, <3>1, <4>1 DEF EncodeStep, x
    <3>2. CASE k # n + 1
      <4>1. k \in 0..n /\ (k # 0 => k - 1 \in 0..n)
        BY <3>2
      <4>2. g[k] = f[k] /\ (k # 0 => g[k - 1] = f[k - 1])
        BY <2>2, <4>1
      <4>3. f[k] = EncodeStep(text, f, k)
        BY <2>1, <4>1
      <4> QED BY <4>2, <4>3 DEF EncodeStep
    <3> QED BY <3>1, <3>2
  <2>4. Is(n + 1, g)
    BY <2>3
  <2> HIDE DEF Is
  <2> QED BY <2>4
<1> HIDE DEF D
<1>4. Nat \subseteq D
  BY <1>2, <1>3, NatSetInduction
<1>5. PICK f : Is(L, f)
  BY <1>1, <1>4 DEF D
<1> DEFINE h == [i \in 0..Len(text) |-> f[i]]
<1>6. \A i \in 0..Len(text) : h[i] = f[i]
  OBVIOUS
<1>7. ASSUME NEW k \in 0..L PROVE EncodeStep(text, h, k) = EncodeStep(text, f, k)
  <2>1. k # 0 => k - 1 \in 0..L
    BY <1>1
  <2> HIDE DEF h
  <2> QED BY <1>6, <2>1 DEF EncodeStep
<1>8. \A i \in 0..Len(text) : f[i] = EncodeStep(text, h, i)
  BY <1>5, <1>7
<1>9. h = [i \in 0..Len(text) |-> EncodeStep(text, h, i)]
  BY <1>8
<1> QED BY <1>9

\* The bytes of no character, and of one more.
LEMMA EncodeUpToIs ==
  ASSUME NEW text \in Seq(Chars)
  PROVE  /\ EncodeUpTo(text)[0] = <<>>
         /\ \A i \in 1..Len(text) : EncodeUpTo(text)[i] = EncodeUpTo(text)[i - 1] \o Encode(text[i])
<1> DEFINE Eq(f) == [i \in 0..Len(text) |-> EncodeStep(text, f, i)]
           h == CHOOSE f : f = Eq(f)
<1>1. h = Eq(h)
  BY EncodeExists
<1>2. EncodeUpTo(text) = h
  BY Zenon DEF EncodeUpTo, EncodeStep
<1> HIDE DEF h
<1>3. Len(text) \in Nat
  OBVIOUS
<1>4. \A i \in 0..Len(text) : h[i] = EncodeStep(text, h, i)
  BY <1>1
<1>5. h[0] = <<>>
  BY <1>3, <1>4 DEF EncodeStep
<1>6. ASSUME NEW i \in 1..Len(text) PROVE h[i] = h[i - 1] \o Encode(text[i])
  <2>1. i \in 0..Len(text) /\ i # 0
    BY <1>3
  <2>2. h[i] = EncodeStep(text, h, i)
    BY <1>4, <2>1
  <2> QED BY <2>1, <2>2 DEF EncodeStep
<1> QED BY <1>2, <1>5, <1>6

\* What characters are encoded to is decoded to them, whatever comes after it.
LEMMA DecodeEncoded ==
  ASSUME NEW text \in Seq(Chars), NEW x \in Seq(Symbols)
  PROVE  /\ EncodeAll(text) \in Seq(Symbols)
         /\ DecodeAll(EncodeAll(text) \o x).chars = text \o DecodeAll(x).chars
<1> DEFINE L == Len(text)
           to == EncodeUpTo(text)
           Part(n) == SubSeq(text, 1, n)
           OK(n) == /\ to[n] \in Seq(Symbols)
                    /\ \A y \in Seq(Symbols) : DecodeAll(to[n] \o y).chars = Part(n) \o DecodeAll(y).chars
           D == {n \in Nat : n <= L => OK(n)}
<1>0. L \in Nat
  OBVIOUS
<1>1. L \in Nat /\ to[0] = <<>> /\ \A i \in 1..L : to[i] = to[i - 1] \o Encode(text[i])
  BY <1>0, EncodeUpToIs, Zenon
<1> HIDE DEF to, OK
<1>2. 0 \in D
  <2>1. Part(0) = <<>> /\ <<>> \in Seq(Symbols)
    BY SubSeqEmpty
  <2>2. ASSUME NEW y \in Seq(Symbols) PROVE DecodeAll(to[0] \o y).chars = Part(0) \o DecodeAll(y).chars
    <3>1. <<>> \o y = y
      BY ConcatEmptySeq
    <3>2. DecodeAll(y).chars \in Seq(Chars)
      BY DecodeType
    <3>3. <<>> \o DecodeAll(y).chars = DecodeAll(y).chars
      BY <3>2, ConcatEmptySeq
    <3> QED BY <1>1, <2>1, <3>1, <3>3
  <2>3. OK(0)
    BY <1>1, <2>1, <2>2 DEF OK
  <2> QED BY <2>3
<1>3. ASSUME NEW n \in Nat, n \in D PROVE n + 1 \in D
  <2> SUFFICES ASSUME n + 1 <= L PROVE OK(n + 1)
    OBVIOUS
  <2>1. n <= L /\ n + 1 \in 1..L /\ (n + 1) - 1 = n
    BY <1>1
  <2>2. OK(n)
    BY <1>3, <2>1
  <2>3. PICK c \in Chars : c = text[n + 1]
    BY <2>1
  <2>4. PICK e \in Seq(Symbols) : e = Encode(c) /\ Len(e) # 0
    BY EncodeIs
  <2>5. to[n + 1] = to[n] \o e /\ to[n] \in Seq(Symbols)
    BY <1>1, <2>1, <2>2, <2>3, <2>4 DEF OK
  <2>6. PICK b \in Seq(Symbols) : b = to[n]
    BY <2>5
  <2>7. Part(n) \in Seq(Chars) /\ Part(n + 1) = Part(n) \o <<c>> /\ <<c>> \in Seq(Chars)
    <3>1. n + 1 \in 1..n+1 /\ n + 1 \in 1..Len(text) /\ 1 \in 1..Len(text) /\ n + 1 \in 1..Len(text)
      BY <1>1, <2>1
    <3>2. SubSeq(text, 1, n + 1) = SubSeq(text, 1, (n + 1) - 1) \o <<text[n + 1]>>
      BY <3>1, SubSeqRecursiveSecond
    <3>3. \A i \in 1..n : text[i] \in Chars
      BY <1>1, <2>1
    <3>4. Part(n) \in Seq(Chars)
      BY <3>3, SubSeqProperties
    <3> QED BY <2>1, <2>3, <3>2, <3>4
  <2>8. ASSUME NEW y \in Seq(Symbols) PROVE DecodeAll(to[n + 1] \o y).chars = Part(n + 1) \o DecodeAll(y).chars
    <3>1. e \o y \in Seq(Symbols)
      BY JoinIs
    <3>2. (b \o e) \o y = b \o (e \o y)
      <4>1. Associates(b, e, y)
        BY BytesJoined, Zenon
      <4> QED BY <4>1, Zenon DEF Associates
    <3>3. DecodeAll(b \o (e \o y)).chars = Part(n) \o DecodeAll(e \o y).chars
      BY <2>2, <2>6, <3>1 DEF OK
    <3>4. FirstCharacter(e) = [taken |-> Len(e), char |-> c]
      BY <2>4, FirstEncoded
    <3>5. FirstCharacter(e \o y) = [taken |-> Len(e), char |-> c]
      BY <2>4, <3>4, FirstStays
    <3>6. DecodeAll(e \o y).chars = <<c>> \o DecodeAll(From(e \o y, Len(e) + 1)).chars
      <4>1. PICK s \in Seq(Symbols) : s = e \o y
        BY <3>1
      <4>2. FirstCharacter(s).taken = Len(e) /\ FirstCharacter(s).char = c /\ FirstCharacter(s).taken # 0
        BY <2>4, <3>5, <4>1
      <4>4. DecodeAll(s).chars = <<c>> \o DecodeAll(From(s, Len(e) + 1)).chars
        BY <4>2, FirstDecoded, Zenon
      <4> QED BY <4>1, <4>4
    <3>7. From(e \o y, Len(e) + 1) = y
      <4>1. Len(e) \in Nat /\ Len(e) + 1 \in 1..Len(e)+1
        OBVIOUS
      <4>2. From(e \o y, Len(e) + 1) = From(e, Len(e) + 1) \o y
        BY <4>1, FromJoined
      <4>3. From(e, Len(e) + 1) = <<>>
        BY <4>1, SubSeqEmpty DEF From
      <4> QED BY <4>2, <4>3, ConcatEmptySeq
    <3>8. DecodeAll(e \o y).chars = <<c>> \o DecodeAll(y).chars
      BY <3>6, <3>7
    <3> DEFINE u == DecodeAll(y).chars
               p == Part(n)
    <3>9. u \in Seq(Chars) /\ p \in Seq(Chars) /\ <<c>> \in Seq(Chars)
      BY <2>7, DecodeType
    <3>10. Part(n + 1) = p \o <<c>>
      BY <2>7
    <3>11. DecodeAll(to[n + 1] \o y).chars = p \o (<<c>> \o u)
      BY <2>5, <2>6, <3>2, <3>3, <3>8, Zenon
    <3> HIDE DEF u, p, Part
    <3>12. (p \o <<c>>) \o u = p \o (<<c>> \o u)
      <4>1. Associates(p, <<c>>, u)
        BY <3>9, CharactersJoined, Zenon
      <4> QED BY <4>1, Zenon DEF Associates
    <3> QED BY <3>10, <3>11, <3>12 DEF u
  <2>9. to[n + 1] \in Seq(Symbols)
    BY <2>5, JoinIs
  <2> QED BY <2>8, <2>9 DEF OK
<1> HIDE DEF D
<1>4. Nat \subseteq D
  BY <1>2, <1>3, NatSetInduction
<1>5. OK(L)
  <2>1. L \in D /\ L <= L
    BY <1>1, <1>4
  <2> QED BY <2>1 DEF D
<1>6. Part(L) = text
  BY SubSeqFull
<1>7. EncodeAll(text) = to[L]
  BY DEF EncodeAll, to
<1> QED BY <1>5, <1>6, <1>7 DEF OK

(* Matchers. *)

\* la is what y begins with, and is not empty.
Begins(la, y) ==
    /\ la \in Seq(Chars) /\ y \in Seq(Chars)
    /\ Len(la) >= 1 /\ Len(la) <= Len(y) /\ \A k \in 1..Len(la) : y[k] = la[k]

\* What a verdict r on the first characters says of the verdict w on all of them, ...
Settles(r, w, n) ==
    /\ r.result \in {"Matches", "LookaheadIsPrefix", "LookaheadCannotMatch", "Panics"}
    /\ r.result = "Matches" => w = r /\ r.length \in 1..n
    /\ r.result \in {"LookaheadCannotMatch", "Panics"} => w.result # "Matches"
\* ... that a token is not longer than what there is, ...
Within(w, n) == w.result = "Matches" => w.length \in 1..n
\* ... and that a line that has ended leaves nothing open.
EndsWithLine(r, la) ==
    r.result = "LookaheadIsPrefix" => \A k \in 1..Len(la) : la[k] \notin Newlines

\* What the verdicts of a matcher say.
LEMMA VerdictsAre ==
  /\ \A n : Matches(n).result = "Matches" /\ Matches(n).length = n
  /\ Prefix.result = "LookaheadIsPrefix" /\ CannotMatch.result = "LookaheadCannotMatch"
  /\ Panics.result = "Panics"
  BY DEF Matches, Prefix, CannotMatch, Panics

\* What a matcher says that has read to the end.
LEMMA EndsAre ==
  ASSUME NEW la
  PROVE  /\ UpToTheEnd(la, FALSE) = Prefix /\ UpToTheEnd(la, TRUE) = Matches(Len(la))
         /\ NothingAtEnd(FALSE) = Prefix /\ NothingAtEnd(TRUE) = CannotMatch
  BY Zenon DEF UpToTheEnd, NothingAtEnd

\* What each verdict settles.
LEMMA MatchSettles ==
  ASSUME NEW n \in Nat, NEW m \in 1..n, NEW la
  PROVE  Settles(Matches(m), Matches(m), n) /\ Within(Matches(m), n) /\ EndsWithLine(Matches(m), la)
  BY VerdictsAre DEF Settles, Within, EndsWithLine
\* A matcher that cannot match stays so ...
LEMMA CannotSettles ==
  ASSUME NEW n, NEW la
  PROVE  /\ Settles(CannotMatch, CannotMatch, n) /\ Within(CannotMatch, n) /\ Within(Prefix, n)
         /\ EndsWithLine(CannotMatch, la) /\ EndsWithLine(Panics, la) /\ Within(Panics, n)
         /\ Settles(Panics, Panics, n)
  BY VerdictsAre DEF Settles, Within, EndsWithLine
\* ... and one that says the lookahead is a prefix may become anything within the text.
LEMMA PrefixSettles ==
  ASSUME NEW n, NEW w
  PROVE  Settles(Prefix, w, n)
  BY VerdictsAre DEF Settles

\* Where a run of characters ends.
LEMMA RunEndIs ==
  ASSUME NEW la \in Seq(Chars), NEW i \in 1..Len(la)+1, NEW T
  PROVE  /\ RunEnd(la, i, T) \in i..Len(la)+1
         /\ \A k \in i..RunEnd(la, i, T)-1 : la[k] \in T
         /\ RunEnd(la, i, T) <= Len(la) => la[RunEnd(la, i, T)] \notin T
<1> DEFINE L == Len(la)
           Ends(j) == (\A k \in i..(j - 1) : la[k] \in T) /\ (j <= L => la[j] \notin T)
           B == {j \in i..L : la[j] \notin T}
<1>1. L \in Nat
  OBVIOUS
<1>2. \E j \in i..L+1 : Ends(j)
  <2>1. CASE B = {}
    <3>1. L + 1 \in i..L+1 /\ ~(L + 1 <= L) /\ i..(L + 1 - 1) = i..L
      BY <1>1
    <3>2. Ends(L + 1)
      BY <2>1, <3>1
    <3> QED BY <3>1, <3>2
  <2>2. CASE B # {}
    <3>1. B \subseteq Nat
      BY <1>1
    <3>2. PICK j \in B : \A m \in B : j <= m
      BY <2>2, <3>1, MinIs
    <3>3. j \in i..L /\ la[j] \notin T
      BY <3>2
    <3>4. ASSUME NEW k \in i..(j - 1) PROVE la[k] \in T
      <4>1. k \in i..L /\ ~(j <= k)
        BY <1>1, <3>3
      <4> QED BY <3>2, <4>1
    <3>5. j \in i..L+1 /\ Ends(j)
      BY <1>1, <3>3, <3>4
    <3> QED BY <3>5
  <2> QED BY <2>1, <2>2
<1>3. RunEnd(la, i, T) = CHOOSE j \in i..L+1 : Ends(j)
  BY DEF RunEnd
<1> HIDE DEF Ends
<1>4. RunEnd(la, i, T) \in i..L+1 /\ Ends(RunEnd(la, i, T))
  BY <1>2, <1>3
<1> QED BY <1>4 DEF Ends

\* There is one such place.
LEMMA RunEndUnique ==
  ASSUME NEW la \in Seq(Chars), NEW i \in 1..Len(la)+1, NEW T, NEW j \in i..Len(la)+1,
         \A k \in i..j-1 : la[k] \in T, j <= Len(la) => la[j] \notin T
  PROVE  RunEnd(la, i, T) = j
<1>1. Len(la) \in Nat
  OBVIOUS
<1>2. PICK e \in i..Len(la)+1 : /\ e = RunEnd(la, i, T) /\ \A k \in i..e-1 : la[k] \in T
                                /\ e <= Len(la) => la[e] \notin T
  BY RunEndIs
<1>3. ~(e < j)
  <2> SUFFICES ASSUME e < j PROVE FALSE
    OBVIOUS
  <2>1. e \in i..j-1 /\ e <= Len(la)
    BY <1>1
  <2> QED BY <1>2, <2>1
<1>4. ~(j < e)
  <2> SUFFICES ASSUME j < e PROVE FALSE
    OBVIOUS
  <2>1. j \in i..e-1 /\ j <= Len(la)
    BY <1>1
  <2> QED BY <1>2, <2>1
<1>5. e = j
  BY <1>1, <1>3, <1>4
<1> QED BY <1>2, <1>5

\* A run that has ended is not changed by what comes after it.
LEMMA RunEndStays ==
  ASSUME NEW la, NEW y, Begins(la, y), NEW i \in 1..Len(la)+1, NEW T, RunEnd(la, i, T) <= Len(la)
  PROVE  RunEnd(y, i, T) = RunEnd(la, i, T)
<1>1. la \in Seq(Chars) /\ y \in Seq(Chars) /\ Len(la) \in Nat /\ Len(y) \in Nat
  BY DEF Begins
<1>2. PICK e \in i..Len(la)+1 : /\ e = RunEnd(la, i, T) /\ \A k \in i..e-1 : la[k] \in T
                                /\ e <= Len(la) => la[e] \notin T
  BY <1>1, RunEndIs
<1>3. e <= Len(la) /\ e \in 1..Len(la) /\ i \in 1..Len(y)+1 /\ e \in i..Len(y)+1
  BY <1>1, <1>2 DEF Begins
<1>4. y[e] \notin T /\ \A k \in i..e-1 : y[k] \in T
  <2>1. \A k \in i..e-1 : k \in 1..Len(la)
    BY <1>1, <1>3
  <2> QED BY <1>2, <1>3, <2>1 DEF Begins
<1>5. RunEnd(y, i, T) = e
  BY <1>1, <1>3, <1>4, RunEndUnique
<1> QED BY <1>2, <1>5

\* The same first character, and the second if there is one.
LEMMA BeginsSame ==
  ASSUME NEW la, NEW y, Begins(la, y)
  PROVE  /\ la \in Seq(Chars) /\ y \in Seq(Chars) /\ Len(la) \in Nat /\ Len(y) \in Nat
         /\ Len(la) >= 1 /\ Len(y) >= Len(la) /\ y[1] = la[1] /\ la[1] \in Chars
         /\ 2 \in 1..Len(la)+1 /\ \A k \in 1..Len(la) : y[k] = la[k]
         /\ Len(la) > 1 => y[2] = la[2]
  BY DEF Begins

----------------------------------------------------------------------------
(* Whitespace and the ends of lines. *)

\* The cases of match_whitespace, one by one.
LEMMA WhitespaceArms ==
  ASSUME NEW la, NEW e
  PROVE  /\ la[1] \in Newlines => MatchWhitespace(la, e) = Matches(1)
         /\ la[1] \notin Newlines \cup Blanks => MatchWhitespace(la, e) = CannotMatch
         /\ la[1] \in Blanks => MatchWhitespace(la, e) = IF RunEnd(la, 2, Blanks) > Len(la) THEN UpToTheEnd(la, e)
                                                         ELSE IF la[RunEnd(la, 2, Blanks)] \in Newlines THEN Matches(RunEnd(la, 2, Blanks))
                                                         ELSE Matches(RunEnd(la, 2, Blanks) - 1)
<1>1. Newlines \cap Blanks = {}
  BY DEF Newlines, Blanks
<1>2. la[1] \in Newlines => MatchWhitespace(la, e) = Matches(1)
  BY Zenon DEF MatchWhitespace
<1>3. la[1] \notin Newlines \cup Blanks => MatchWhitespace(la, e) = CannotMatch
  BY Zenon DEF MatchWhitespace
<1>4. la[1] \in Blanks => la[1] \notin Newlines /\ la[1] \in Newlines \cup Blanks
  BY <1>1
<1>5. la[1] \in Blanks => MatchWhitespace(la, e) = IF RunEnd(la, 2, Blanks) > Len(la) THEN UpToTheEnd(la, e)
                                                   ELSE IF la[RunEnd(la, 2, Blanks)] \in Newlines THEN Matches(RunEnd(la, 2, Blanks))
                                                   ELSE Matches(RunEnd(la, 2, Blanks) - 1)
  BY <1>4, Zenon DEF MatchWhitespace
<1> QED BY <1>2, <1>3, <1>5

\* Whitespace that has decided on the lookahead has decided on the whole text.
LEMMA WhitespaceSettles ==
  ASSUME NEW la, NEW y, Begins(la, y)
  PROVE  /\ Settles(MatchWhitespace(la, FALSE), MatchWhitespace(y, TRUE), Len(la))
         /\ Within(MatchWhitespace(la, TRUE), Len(la))
         /\ EndsWithLine(MatchWhitespace(la, FALSE), la)
         /\ MatchWhitespace(la, FALSE).result # "LookaheadCannotMatch" => la[1] \in Newlines \cup Blanks
<1>1. /\ la \in Seq(Chars) /\ y \in Seq(Chars) /\ Len(la) \in Nat /\ Len(y) \in Nat
      /\ Len(la) >= 1 /\ Len(y) >= Len(la) /\ y[1] = la[1] /\ 2 \in 1..Len(la)+1
      /\ \A k \in 1..Len(la) : y[k] = la[k]
  BY BeginsSame
<1>2. CASE la[1] \in Newlines
  <2>1. /\ MatchWhitespace(la, FALSE) = Matches(1) /\ MatchWhitespace(la, TRUE) = Matches(1)
        /\ MatchWhitespace(y, TRUE) = Matches(1)
    BY <1>1, <1>2, WhitespaceArms, Zenon
  <2>2. 1 \in 1..Len(la)
    BY <1>1
  <2> QED BY <1>1, <1>2, <2>1, <2>2, MatchSettles
<1>3. CASE la[1] \notin Newlines \cup Blanks
  <2>1. /\ MatchWhitespace(la, FALSE) = CannotMatch /\ MatchWhitespace(la, TRUE) = CannotMatch
        /\ MatchWhitespace(y, TRUE) = CannotMatch
    BY <1>1, <1>3, WhitespaceArms
  <2> QED BY <2>1, CannotSettles, VerdictsAre
<1>4. CASE la[1] \in Blanks
  <2>1. PICK j \in 2..Len(la)+1 : /\ j = RunEnd(la, 2, Blanks) /\ \A k \in 2..j-1 : la[k] \in Blanks
                                  /\ j <= Len(la) => la[j] \notin Blanks
    BY <1>1, RunEndIs
  <2>2. \A e : MatchWhitespace(la, e) = IF j > Len(la) THEN UpToTheEnd(la, e)
                                        ELSE IF la[j] \in Newlines THEN Matches(j) ELSE Matches(j - 1)
    BY <1>4, <2>1, WhitespaceArms, Zenon
  <2>3. CASE j > Len(la)
    <3>1. MatchWhitespace(la, FALSE) = Prefix /\ MatchWhitespace(la, TRUE) = Matches(Len(la))
      BY <2>2, <2>3, EndsAre, Zenon
    <3>4. Len(la) \in 1..Len(la)
      BY <1>1
    <3>2. \A k \in 1..Len(la) : la[k] \in Blanks
      BY <1>1, <1>4, <2>1, <2>3
    <3>3. EndsWithLine(MatchWhitespace(la, FALSE), la)
      BY <3>2 DEF EndsWithLine, Newlines, Blanks
    <3> QED BY <1>1, <1>4, <3>1, <3>3, <3>4, MatchSettles, PrefixSettles
  <2>4. CASE j <= Len(la)
    <3>1. RunEnd(y, 2, Blanks) = j /\ y[j] = la[j] /\ ~(j > Len(la)) /\ ~(j > Len(y)) /\ j \in 1..Len(la)
      BY <1>1, <2>1, <2>4, RunEndStays
    <3>2. PICK n \in 1..Len(la) : n = IF la[j] \in Newlines THEN j ELSE j - 1
      BY <1>1, <2>1, <2>4
    <3>3. MatchWhitespace(la, FALSE) = Matches(n) /\ MatchWhitespace(la, TRUE) = Matches(n)
      BY <2>2, <3>1, <3>2, Zenon
    <3>4. MatchWhitespace(y, TRUE) = Matches(n)
      <4>1. MatchWhitespace(y, TRUE) = IF j > Len(y) THEN UpToTheEnd(y, TRUE)
                                       ELSE IF y[j] \in Newlines THEN Matches(j) ELSE Matches(j - 1)
        BY <1>1, <1>4, <3>1, WhitespaceArms, Zenon
      <4>2. MatchWhitespace(y, TRUE) = IF la[j] \in Newlines THEN Matches(j) ELSE Matches(j - 1)
        BY <3>1, <4>1, Zenon
      <4> QED BY <3>2, <4>2, Zenon
    <3> QED BY <1>1, <1>4, <3>3, <3>4, MatchSettles
  <2>5. j <= Len(la) \/ j > Len(la)
    BY <1>1
  <2> QED BY <2>3, <2>4, <2>5
<1> QED BY <1>2, <1>3, <1>4

\* The end of a line with the spaces before it.
LEMMA NewlineSettles ==
  ASSUME NEW la, NEW y, Begins(la, y)
  PROVE  /\ Settles(MatchNewline(la, FALSE), MatchNewline(y, TRUE), Len(la))
         /\ Within(MatchNewline(la, TRUE), Len(la))
         /\ EndsWithLine(MatchNewline(la, FALSE), la)
         /\ MatchNewline(la, FALSE).result # "LookaheadCannotMatch" => la[1] \in Newlines \cup Blanks
<1> DEFINE Line(s, x) == IF x.result = "Matches" /\ s[x.length] \notin Newlines THEN CannotMatch ELSE x
<1>1. \A s, e : MatchNewline(s, e) = Line(s, MatchWhitespace(s, e))
  BY Zenon DEF MatchNewline
<1>2. PICK r, w, z : r = MatchWhitespace(la, FALSE) /\ w = MatchWhitespace(y, TRUE) /\ z = MatchWhitespace(la, TRUE)
  OBVIOUS
<1>3. /\ Settles(r, w, Len(la)) /\ Within(z, Len(la)) /\ EndsWithLine(r, la)
      /\ r.result # "LookaheadCannotMatch" => la[1] \in Newlines \cup Blanks
  BY <1>2, WhitespaceSettles
<1>4. MatchNewline(la, FALSE) = Line(la, r) /\ MatchNewline(y, TRUE) = Line(y, w) /\ MatchNewline(la, TRUE) = Line(la, z)
  BY <1>1, <1>2, Zenon
<1>5. Len(la) \in Nat /\ \A k \in 1..Len(la) : y[k] = la[k]
  BY BeginsSame
<1>6. CASE r.result = "Matches"
  <2>1. w = r /\ r.length \in 1..Len(la) /\ y[r.length] = la[r.length]
    BY <1>3, <1>5, <1>6 DEF Settles
  <2>2. CASE la[r.length] \in Newlines
    <3>1. Line(la, r) = r /\ Line(y, w) = r
      BY <2>1, <2>2, Zenon
    <3> QED BY <1>3, <1>4, <2>1, <3>1, CannotSettles DEF Within
  <2>3. CASE la[r.length] \notin Newlines
    <3>1. Line(la, r) = CannotMatch /\ Line(y, w) = CannotMatch
      BY <1>6, <2>1, <2>3, Zenon
    <3> QED BY <1>3, <1>4, <3>1, CannotSettles, VerdictsAre DEF Within
  <2> QED BY <2>2, <2>3
<1>7. CASE r.result # "Matches"
  <2>1. Line(la, r) = r
    BY <1>7, Zenon
  <2>2. Settles(r, Line(y, w), Len(la))
    <3>1. Line(y, w) = w \/ Line(y, w) = CannotMatch
      BY Zenon
    <3> QED BY <1>3, <1>7, <3>1, VerdictsAre DEF Settles
  <2>3. Within(Line(la, z), Len(la))
    <3>1. Line(la, z) = z \/ Line(la, z) = CannotMatch
      BY Zenon
    <3> QED BY <1>3, <3>1, CannotSettles
  <2> QED BY <1>3, <1>4, <2>1, <2>2, <2>3
<1> QED BY <1>6, <1>7

----------------------------------------------------------------------------
(* Numbers. *)

NumberStart(la) == IF la[1] = "-" THEN 3 ELSE 2
IntegerEnd(la) == RunEnd(la, NumberStart(la), Digits)
FractionEnd(la) == IF la[IntegerEnd(la)] = "." THEN RunEnd(la, IntegerEnd(la) + 1, Digits) ELSE IntegerEnd(la)
Numeral == Digits \cup {"-", "+", ".", "e", "E"}

\* No character of a number ends a line.
LEMMA NumeralsAre == Numeral \cap Newlines = {} /\ Digits \subseteq Numeral /\ "-" \notin Digits
  BY DEF Numeral, Newlines, Digits

\* The cases of an exponent, one by one.
LEMMA ExponentArms ==
  ASSUME NEW la, NEW j, NEW e
  PROVE  /\ la[j] \notin {"e", "E"} => MatchExponent(la, j, e) = Matches(j - 1)
         /\ la[j] \in {"e", "E"} /\ j = Len(la) => MatchExponent(la, j, e) = IF e THEN Matches(j - 1) ELSE Prefix
         /\ la[j] \in {"e", "E"} /\ j # Len(la) =>
               MatchExponent(la, j, e) = IF la[j + 1] \notin {"+", "-"} \cup Digits THEN Matches(j - 1)
                                         ELSE IF RunEnd(la, j + 2, Digits) > Len(la) THEN UpToTheEnd(la, e)
                                         ELSE Matches(RunEnd(la, j + 2, Digits) - 1)
<1>1. la[j] \notin {"e", "E"} => MatchExponent(la, j, e) = Matches(j - 1)
  BY Zenon DEF MatchExponent
<1>2. la[j] \in {"e", "E"} /\ j = Len(la) => MatchExponent(la, j, e) = IF e THEN Matches(j - 1) ELSE Prefix
  BY Zenon DEF MatchExponent
<1>3. la[j] \in {"e", "E"} /\ j # Len(la) =>
        MatchExponent(la, j, e) = IF la[j + 1] \notin {"+", "-"} \cup Digits THEN Matches(j - 1)
                                  ELSE IF RunEnd(la, j + 2, Digits) > Len(la) THEN UpToTheEnd(la, e)
                                  ELSE Matches(RunEnd(la, j + 2, Digits) - 1)
  BY Zenon DEF MatchExponent
<1> QED BY <1>1, <1>2, <1>3

\* The exponent after a number that ends before j.
LEMMA ExponentSettles ==
  ASSUME NEW la, NEW y, Begins(la, y), NEW j \in 2..Len(la), \A k \in 1..j-1 : la[k] \in Numeral
  PROVE  /\ Settles(MatchExponent(la, j, FALSE), MatchExponent(y, j, TRUE), Len(la))
         /\ Within(MatchExponent(la, j, TRUE), Len(la))
         /\ EndsWithLine(MatchExponent(la, j, FALSE), la)
<1>1. /\ la \in Seq(Chars) /\ y \in Seq(Chars) /\ Len(la) \in Nat /\ Len(y) \in Nat
      /\ Len(y) >= Len(la) /\ \A k \in 1..Len(la) : y[k] = la[k]
  BY BeginsSame
<1>2. j - 1 \in 1..Len(la) /\ j \in 1..Len(la) /\ y[j] = la[j]
  BY <1>1
<1>3. CASE la[j] \notin {"e", "E"}
  <2>1. /\ MatchExponent(la, j, FALSE) = Matches(j - 1) /\ MatchExponent(la, j, TRUE) = Matches(j - 1)
        /\ MatchExponent(y, j, TRUE) = Matches(j - 1)
    BY <1>2, <1>3, ExponentArms, Zenon
  <2> QED BY <1>1, <1>2, <2>1, MatchSettles
<1>4. CASE la[j] \in {"e", "E"} /\ j = Len(la)
  <2>1. MatchExponent(la, j, FALSE) = Prefix /\ MatchExponent(la, j, TRUE) = Matches(j - 1)
    BY <1>4, ExponentArms, Zenon
  <2>2. \A k \in 1..Len(la) : la[k] \in Numeral
    <3>1. la[j] \in Numeral
      BY <1>4 DEF Numeral
    <3> QED BY <1>1, <1>2, <1>4, <3>1
  <2>3. EndsWithLine(MatchExponent(la, j, FALSE), la)
    BY <2>2, NumeralsAre DEF EndsWithLine
  <2> QED BY <1>1, <1>2, <2>1, <2>3, PrefixSettles, MatchSettles
<1>5. CASE la[j] \in {"e", "E"} /\ j # Len(la)
  <2>1. j + 1 \in 1..Len(la) /\ y[j + 1] = la[j + 1] /\ j # Len(y) /\ j + 2 \in 1..Len(la)+1
    BY <1>1, <1>5
  <2>2. CASE la[j + 1] \notin {"+", "-"} \cup Digits
    <3>1. /\ MatchExponent(la, j, FALSE) = Matches(j - 1) /\ MatchExponent(la, j, TRUE) = Matches(j - 1)
          /\ MatchExponent(y, j, TRUE) = Matches(j - 1)
      BY <1>2, <1>5, <2>1, <2>2, ExponentArms, Zenon
    <3> QED BY <1>1, <1>2, <3>1, MatchSettles
  <2>3. CASE la[j + 1] \in {"+", "-"} \cup Digits
    <3>1. PICK k \in j+2..Len(la)+1 : /\ k = RunEnd(la, j + 2, Digits) /\ \A n \in j+2..k-1 : la[n] \in Digits
                                      /\ k <= Len(la) => la[k] \notin Digits
      BY <1>1, <2>1, RunEndIs
    <3>2. \A e : MatchExponent(la, j, e) = IF k > Len(la) THEN UpToTheEnd(la, e) ELSE Matches(k - 1)
      BY <1>5, <2>3, <3>1, ExponentArms, Zenon
    <3>3. CASE k > Len(la)
      <4>1. MatchExponent(la, j, FALSE) = Prefix /\ MatchExponent(la, j, TRUE) = Matches(Len(la))
        BY <3>2, <3>3, EndsAre, Zenon
      <4>2. \A n \in 1..Len(la) : la[n] \in Numeral
        <5> SUFFICES ASSUME NEW n \in 1..Len(la) PROVE la[n] \in Numeral
          OBVIOUS
        <5>1. n \in 1..j-1 \/ n = j \/ n = j + 1 \/ n \in j+2..k-1
          BY <1>1, <3>1, <3>3
        <5>2. la[j] \in Numeral /\ la[j + 1] \in Numeral
          BY <1>5, <2>3 DEF Numeral
        <5> QED BY <3>1, <5>1, <5>2, NumeralsAre
      <4>3. EndsWithLine(MatchExponent(la, j, FALSE), la)
        BY <4>2, NumeralsAre DEF EndsWithLine
      <4>4. Len(la) \in 1..Len(la)
        BY <1>1, <1>2
      <4> QED BY <1>1, <4>1, <4>3, <4>4, PrefixSettles, MatchSettles
    <3>4. CASE ~(k > Len(la))
      <4>1. RunEnd(y, j + 2, Digits) = k /\ ~(k > Len(y)) /\ k - 1 \in 1..Len(la)
        BY <1>1, <2>1, <3>1, <3>4, RunEndStays
      <4>2. MatchExponent(la, j, FALSE) = Matches(k - 1) /\ MatchExponent(la, j, TRUE) = Matches(k - 1)
        BY <3>2, <3>4, Zenon
      <4>3. MatchExponent(y, j, TRUE) = Matches(k - 1)
        <5>1. y[j] \in {"e", "E"} /\ j # Len(y) /\ ~(y[j + 1] \notin {"+", "-"} \cup Digits)
          BY <1>2, <1>5, <2>1, <2>3, Zenon
        <5>2. MatchExponent(y, j, TRUE) = IF RunEnd(y, j + 2, Digits) > Len(y) THEN UpToTheEnd(y, TRUE)
                                          ELSE Matches(RunEnd(y, j + 2, Digits) - 1)
          BY <5>1, ExponentArms, Zenon
        <5> QED BY <4>1, <5>2, Zenon
      <4> QED BY <1>1, <4>1, <4>2, <4>3, MatchSettles
    <3> QED BY <3>3, <3>4
  <2> QED BY <2>2, <2>3
<1> QED BY <1>3, <1>4, <1>5

\* The cases of match_number, one by one.
LEMMA NumberArms ==
  ASSUME NEW la, NEW e
  PROVE  /\ la[1] \notin Digits \cup {"-"} => MatchNumber(la, e) = CannotMatch
         /\ la = <<"-">> => MatchNumber(la, e) = NothingAtEnd(e)
         /\ la[1] = "-" /\ Len(la) > 1 /\ la[2] \notin Digits => MatchNumber(la, e) = CannotMatch
         /\ la[1] \in Digits \cup {"-"} /\ la # <<"-">> /\ ~(la[1] = "-" /\ Len(la) > 1 /\ la[2] \notin Digits) =>
               MatchNumber(la, e) = IF IntegerEnd(la) > Len(la) THEN UpToTheEnd(la, e)
                                    ELSE IF FractionEnd(la) > Len(la) THEN UpToTheEnd(la, e)
                                    ELSE MatchExponent(la, FractionEnd(la), e)
<1>1. la[1] \notin Digits \cup {"-"} => la # <<"-">> /\ la[1] # "-"
  OBVIOUS
<1>2. la[1] \notin Digits \cup {"-"} => MatchNumber(la, e) = CannotMatch
  BY <1>1, Zenon DEF MatchNumber
<1>3. la = <<"-">> => la[1] = "-" /\ ~(Len(la) > 1)
  OBVIOUS
<1>4. la = <<"-">> => MatchNumber(la, e) = NothingAtEnd(e)
  BY <1>3, Zenon DEF MatchNumber
<1>5. la[1] = "-" /\ Len(la) > 1 /\ la[2] \notin Digits => MatchNumber(la, e) = CannotMatch
  BY <1>3, Zenon DEF MatchNumber
<1>6. la[1] \in Digits \cup {"-"} /\ la # <<"-">> /\ ~(la[1] = "-" /\ Len(la) > 1 /\ la[2] \notin Digits) =>
        MatchNumber(la, e) = IF IntegerEnd(la) > Len(la) THEN UpToTheEnd(la, e)
                             ELSE IF FractionEnd(la) > Len(la) THEN UpToTheEnd(la, e)
                             ELSE MatchExponent(la, FractionEnd(la), e)
  BY Zenon DEF MatchNumber, IntegerEnd, FractionEnd, NumberStart
<1> QED BY <1>2, <1>4, <1>5, <1>6

\* A number that has decided on the lookahead has decided on the whole text.
LEMMA NumberSettles ==
  ASSUME NEW la, NEW y, Begins(la, y)
  PROVE  /\ Settles(MatchNumber(la, FALSE), MatchNumber(y, TRUE), Len(la))
         /\ Within(MatchNumber(la, TRUE), Len(la))
         /\ EndsWithLine(MatchNumber(la, FALSE), la)
         /\ MatchNumber(la, FALSE).result # "LookaheadCannotMatch" => la[1] \in Digits \cup {"-"}
<1>1. /\ la \in Seq(Chars) /\ y \in Seq(Chars) /\ Len(la) \in Nat /\ Len(y) \in Nat
      /\ Len(la) >= 1 /\ Len(y) >= Len(la) /\ y[1] = la[1] /\ \A k \in 1..Len(la) : y[k] = la[k]
      /\ Len(la) > 1 => y[2] = la[2]
  BY BeginsSame
<1>2. CASE la[1] \notin Digits \cup {"-"}
  <2>1. /\ MatchNumber(la, FALSE) = CannotMatch /\ MatchNumber(la, TRUE) = CannotMatch
        /\ MatchNumber(y, TRUE) = CannotMatch
    BY <1>1, <1>2, NumberArms, Zenon
  <2> QED BY <2>1, CannotSettles, VerdictsAre
<1>3. CASE la = <<"-">>
  <2>1. MatchNumber(la, FALSE) = Prefix /\ MatchNumber(la, TRUE) = CannotMatch
    BY <1>3, NumberArms, EndsAre, Zenon
  <2>2. la[1] = "-" /\ Len(la) = 1
    BY <1>3
  <2>3. EndsWithLine(MatchNumber(la, FALSE), la)
    BY <2>2 DEF EndsWithLine, Newlines
  <2> QED BY <2>1, <2>2, <2>3, CannotSettles, PrefixSettles
<1>4. CASE la[1] = "-" /\ Len(la) > 1 /\ la[2] \notin Digits
  <2>1. y[1] = "-" /\ Len(y) > 1 /\ y[2] \notin Digits
    BY <1>1, <1>4
  <2>2. /\ MatchNumber(la, FALSE) = CannotMatch /\ MatchNumber(la, TRUE) = CannotMatch
        /\ MatchNumber(y, TRUE) = CannotMatch
    BY <1>4, <2>1, NumberArms, Zenon
  <2> QED BY <2>2, CannotSettles, VerdictsAre
<1>5. CASE la[1] \in Digits \cup {"-"} /\ la # <<"-">> /\ ~(la[1] = "-" /\ Len(la) > 1 /\ la[2] \notin Digits)
  <2>1. la[1] = "-" => Len(la) > 1 /\ la[2] \in Digits
    <3>1. Len(la) = 1 \/ Len(la) > 1
      <4>1. Len(la) \in Nat /\ Len(la) >= 1
        BY <1>1
      <4>2. \A n \in Nat : n >= 1 => n = 1 \/ n > 1
        OBVIOUS
      <4> QED BY <4>1, <4>2
    <3>2. la[1] = "-" /\ Len(la) = 1 => la = <<"-">>
      BY <1>1
    <3> QED BY <1>5, <3>1, <3>2
  <2>2. y[1] \in Digits \cup {"-"} /\ y # <<"-">> /\ ~(y[1] = "-" /\ Len(y) > 1 /\ y[2] \notin Digits)
    <3>1. y[1] = "-" => Len(y) > 1 /\ y[2] \in Digits
      BY <1>1, <2>1
    <3>2. y # <<"-">>
      BY <3>1
    <3> QED BY <1>1, <1>5, <3>1, <3>2
  <2> DEFINE s == NumberStart(la)
  <2>3. NumberStart(y) = s /\ s \in 1..Len(la)+1 /\ s >= 2 /\ \A k \in 1..s-1 : la[k] \in Numeral
    <3>1. CASE la[1] = "-"
      <4>1. s = 3 /\ NumberStart(y) = 3 /\ Len(la) > 1 /\ la[2] \in Digits
        BY <1>1, <2>1, <3>1 DEF NumberStart
      <4>2. \A k \in 1..2 : k = 1 \/ k = 2
        OBVIOUS
      <4>3. la[1] \in Numeral /\ la[2] \in Numeral
        BY <3>1, <4>1, NumeralsAre DEF Numeral
      <4> QED BY <1>1, <4>1, <4>2, <4>3
    <3>2. CASE la[1] # "-"
      <4>1. s = 2 /\ NumberStart(y) = 2
        BY <1>1, <3>2 DEF NumberStart
      <4>2. la[1] \in Numeral
        BY <1>5, <3>2, NumeralsAre
      <4> QED BY <1>1, <4>1, <4>2
    <3> QED BY <3>1, <3>2
  <2> HIDE DEF s
  <2>4. PICK i \in s..Len(la)+1 : /\ i = IntegerEnd(la) /\ \A n \in s..i-1 : la[n] \in Digits
                                  /\ i <= Len(la) => la[i] \notin Digits
    BY <1>1, <2>3, RunEndIs DEF IntegerEnd, s
  <2>5. \A e : MatchNumber(la, e) = IF i > Len(la) THEN UpToTheEnd(la, e)
                                    ELSE IF FractionEnd(la) > Len(la) THEN UpToTheEnd(la, e)
                                    ELSE MatchExponent(la, FractionEnd(la), e)
    BY <1>5, <2>4, NumberArms, Zenon
  <2>6. MatchNumber(y, TRUE) = IF IntegerEnd(y) > Len(y) THEN UpToTheEnd(y, TRUE)
                               ELSE IF FractionEnd(y) > Len(y) THEN UpToTheEnd(y, TRUE)
                               ELSE MatchExponent(y, FractionEnd(y), TRUE)
    BY <2>2, NumberArms, Zenon
  <2>7. \A n \in 1..i-1 : la[n] \in Numeral
    <3> SUFFICES ASSUME NEW n \in 1..i-1 PROVE la[n] \in Numeral
      OBVIOUS
    <3>1. n \in 1..s-1 \/ n \in s..i-1
      BY <1>1, <2>3, <2>4
    <3> QED BY <2>3, <2>4, <3>1, NumeralsAre
  <2>8. ASSUME MatchNumber(la, FALSE) = Prefix, MatchNumber(la, TRUE) = Matches(Len(la)),
               \A n \in 1..Len(la) : la[n] \in Numeral
        PROVE  /\ Settles(MatchNumber(la, FALSE), MatchNumber(y, TRUE), Len(la))
               /\ Within(MatchNumber(la, TRUE), Len(la)) /\ EndsWithLine(MatchNumber(la, FALSE), la)
    <3>1. EndsWithLine(MatchNumber(la, FALSE), la)
      BY <2>8, NumeralsAre DEF EndsWithLine
    <3>2. Len(la) \in 1..Len(la)
      BY <1>1
    <3> QED BY <1>1, <2>8, <3>1, <3>2, PrefixSettles, MatchSettles
  <2>9. CASE i > Len(la)
    <3>1. MatchNumber(la, FALSE) = Prefix /\ MatchNumber(la, TRUE) = Matches(Len(la))
      BY <2>5, <2>9, EndsAre, Zenon
    <3>2. \A n \in 1..Len(la) : la[n] \in Numeral
      BY <1>1, <2>4, <2>7, <2>9
    <3> QED BY <1>5, <2>8, <3>1, <3>2
  <2>10. CASE ~(i > Len(la))
    <3>1. IntegerEnd(y) = i /\ ~(i > Len(y)) /\ i \in 1..Len(la) /\ y[i] = la[i] /\ i >= 2
      <4>1. i <= Len(la) /\ RunEnd(la, s, Digits) = i
        BY <1>1, <2>3, <2>4, <2>10 DEF IntegerEnd, s
      <4>2. RunEnd(y, s, Digits) = i
        BY <2>3, <4>1, RunEndStays
      <4>3. i \in 1..Len(la) /\ ~(i > Len(y)) /\ i >= 2
        BY <1>1, <2>3, <2>4, <4>1
      <4> QED BY <1>1, <2>3, <4>2, <4>3 DEF IntegerEnd
    <3>2. CASE la[i] # "."
      <4>1. FractionEnd(la) = i /\ FractionEnd(y) = i
        BY <2>4, <3>1, <3>2 DEF FractionEnd
      <4>2. \A e : MatchNumber(la, e) = MatchExponent(la, i, e)
        BY <2>5, <2>10, <4>1, Zenon
      <4>3. MatchNumber(y, TRUE) = MatchExponent(y, i, TRUE)
        BY <2>6, <3>1, <4>1, Zenon
      <4>4. i \in 2..Len(la)
        BY <1>1, <3>1
      <4>5. /\ Settles(MatchExponent(la, i, FALSE), MatchExponent(y, i, TRUE), Len(la))
            /\ Within(MatchExponent(la, i, TRUE), Len(la)) /\ EndsWithLine(MatchExponent(la, i, FALSE), la)
        BY <2>7, <4>4, ExponentSettles
      <4> QED BY <1>5, <4>2, <4>3, <4>5, Zenon
    <3>3. CASE la[i] = "."
      <4>1. i + 1 \in 1..Len(la)+1 /\ FractionEnd(la) = RunEnd(la, i + 1, Digits) /\ FractionEnd(y) = RunEnd(y, i + 1, Digits)
        BY <1>1, <2>4, <3>1, <3>3 DEF FractionEnd
      <4>2. PICK j \in i+1..Len(la)+1 : /\ j = RunEnd(la, i + 1, Digits) /\ \A n \in i+1..j-1 : la[n] \in Digits
                                        /\ j <= Len(la) => la[j] \notin Digits
        BY <1>1, <4>1, RunEndIs
      <4>3. \A n \in 1..j-1 : la[n] \in Numeral
        <5> SUFFICES ASSUME NEW n \in 1..j-1 PROVE la[n] \in Numeral
          OBVIOUS
        <5>1. n \in 1..i-1 \/ n = i \/ n \in i+1..j-1
          BY <1>1, <3>1, <4>2
        <5>2. la[i] \in Numeral
          BY <3>3 DEF Numeral
        <5> QED BY <2>7, <4>2, <5>1, <5>2, NumeralsAre
      <4>4. \A e : MatchNumber(la, e) = IF j > Len(la) THEN UpToTheEnd(la, e) ELSE MatchExponent(la, j, e)
        BY <2>5, <2>10, <4>1, <4>2, Zenon
      <4>5. CASE j > Len(la)
        <5>1. MatchNumber(la, FALSE) = Prefix /\ MatchNumber(la, TRUE) = Matches(Len(la))
          BY <4>4, <4>5, EndsAre, Zenon
        <5>2. \A n \in 1..Len(la) : la[n] \in Numeral
          BY <1>1, <4>2, <4>3, <4>5
        <5> QED BY <1>5, <2>8, <5>1, <5>2
      <4>6. CASE ~(j > Len(la))
        <5>1. j <= Len(la) /\ j \in 2..Len(la) /\ ~(j > Len(y))
          BY <1>1, <3>1, <4>2, <4>6
        <5>2. FractionEnd(y) = j
          BY <4>1, <4>2, <5>1, RunEndStays
        <5>3. MatchNumber(la, FALSE) = MatchExponent(la, j, FALSE) /\ MatchNumber(la, TRUE) = MatchExponent(la, j, TRUE)
          BY <4>4, <4>6, Zenon
        <5>4. MatchNumber(y, TRUE) = MatchExponent(y, j, TRUE)
          BY <2>6, <3>1, <5>1, <5>2, Zenon
        <5>5. /\ Settles(MatchExponent(la, j, FALSE), MatchExponent(y, j, TRUE), Len(la))
              /\ Within(MatchExponent(la, j, TRUE), Len(la)) /\ EndsWithLine(MatchExponent(la, j, FALSE), la)
          BY <4>3, <5>1, ExponentSettles
        <5> QED BY <1>5, <5>3, <5>4, <5>5, Zenon
      <4> QED BY <4>5, <4>6
    <3> QED BY <3>2, <3>3
  <2> QED BY <2>9, <2>10
<1> QED BY <1>2, <1>3, <1>4, <1>5

(* Strings. *)

\* One step of the recursion of Quoted.
QuotedStep(la, f, k) == k > 2 /\ la[k - 1] = "\\" /\ ~f[k - 1]

\* Its definition has a solution, ...
LEMMA QuotedExists ==
  ASSUME NEW la \in Seq(Chars)
  PROVE  \E f : f = [k \in 1..Len(la) |-> QuotedStep(la, f, k)]
<1> DEFINE L == Len(la)
           Is(n, f) == \A k \in 1..n : f[k] = QuotedStep(la, f, k)
           D == {n \in Nat : \E f : Is(n, f)}
<1>1. L \in Nat
  OBVIOUS
<1> HIDE DEF L
<1>2. 0 \in D
  <2>1. 1..0 = {}
    OBVIOUS
  <2> DEFINE f == <<>>
  <2> HIDE DEF f
  <2>2. Is(0, f)
    BY <2>1, Zenon
  <2> HIDE DEF Is
  <2> QED BY <2>2
<1>3. ASSUME NEW n \in Nat, n \in D PROVE n + 1 \in D
  <2>1. PICK f : Is(n, f)
    BY <1>3
  <2> DEFINE x == QuotedStep(la, f, n + 1)
             g == [k \in 1..n+1 |-> IF k = n + 1 THEN x ELSE f[k]]
  <2>2. n + 1 \in 1..n+1 /\ \A k \in 1..n : k \in 1..n+1 /\ k # n + 1
    OBVIOUS
  <2>3. g[n + 1] = x /\ \A k \in 1..n : g[k] = f[k]
    BY <2>2, Zenon
  <2> HIDE DEF g, Is
  <2>4. ASSUME NEW k \in 1..n+1 PROVE g[k] = QuotedStep(la, g, k)
    <3>1. k > 2 => k - 1 \in 1..n
      OBVIOUS
    <3>2. k > 2 => g[k - 1] = f[k - 1]
      BY <2>3, <3>1
    <3>3. QuotedStep(la, g, k) = QuotedStep(la, f, k)
      BY <3>2, Zenon DEF QuotedStep
    <3>4. CASE k = n + 1
      BY <2>3, <3>3, <3>4, Zenon
    <3>5. CASE k # n + 1
      <4>1. k \in 1..n
        BY <3>5
      <4> QED BY <2>1, <2>3, <3>3, <4>1, Zenon DEF Is
    <3> QED BY <3>4, <3>5
  <2>5. Is(n + 1, g)
    BY <2>4, Zenon DEF Is
  <2> QED BY <2>5
<1> HIDE DEF D
<1>4. Nat \subseteq D
  BY <1>2, <1>3, NatSetInduction
<1>5. PICK f : Is(L, f)
  BY <1>1, <1>4 DEF D
<1> DEFINE h == [k \in 1..L |-> f[k]]
<1>6. \A k \in 1..L : h[k] = f[k]
  OBVIOUS
<1>7. ASSUME NEW k \in 1..L PROVE QuotedStep(la, h, k) = QuotedStep(la, f, k)
  <2>1. k > 2 => k - 1 \in 1..L
    BY <1>1
  <2>2. k > 2 => h[k - 1] = f[k - 1]
    BY <1>6, <2>1
  <2> HIDE DEF h
  <2> QED BY <2>2, Zenon DEF QuotedStep
<1>8. \A k \in 1..L : f[k] = QuotedStep(la, h, k)
  BY <1>5, <1>7, Zenon
<1>9. h = [k \in 1..L |-> QuotedStep(la, h, k)]
  BY <1>8, Zenon
<1> QED BY <1>9 DEF L

\* ... which is the function that it is.
LEMMA QuotedIs ==
  ASSUME NEW la \in Seq(Chars)
  PROVE  \A k \in 1..Len(la) : Quoted(la)[k] = QuotedStep(la, Quoted(la), k)
<1> DEFINE Eq(f) == [k \in 1..Len(la) |-> QuotedStep(la, f, k)]
           h == CHOOSE f : f = Eq(f)
<1>1. h = Eq(h)
  BY QuotedExists
<1>2. Quoted(la) = h
  BY Zenon DEF Quoted, QuotedStep
<1> HIDE DEF h
<1>3. \A k \in 1..Len(la) : h[k] = QuotedStep(la, h, k)
  BY <1>1, Zenon
<1> QED BY <1>2, <1>3, Zenon

\* Whether a character is quoted does not depend on what comes after it.
LEMMA QuotedStays ==
  ASSUME NEW la, NEW y, Begins(la, y)
  PROVE  \A k \in 1..Len(la) : Quoted(y)[k] = Quoted(la)[k]
<1> DEFINE p == Quoted(la)
           q == Quoted(y)
           D == {n \in Nat : \A k \in 1..Len(la) : k <= n => q[k] = p[k]}
<1>1. /\ la \in Seq(Chars) /\ y \in Seq(Chars) /\ Len(la) \in Nat /\ Len(y) \in Nat
      /\ Len(y) >= Len(la) /\ \A k \in 1..Len(la) : y[k] = la[k]
  BY BeginsSame
<1>2. \A k \in 1..Len(la) : p[k] = QuotedStep(la, p, k)
  BY <1>1, QuotedIs
<1>3. \A k \in 1..Len(la) : q[k] = QuotedStep(y, q, k)
  BY <1>1, QuotedIs
<1> HIDE DEF p, q
<1>4. 0 \in D
  <2>1. \A k \in 1..Len(la) : ~(k <= 0)
    OBVIOUS
  <2> QED BY <2>1
<1>5. ASSUME NEW n \in Nat, n \in D PROVE n + 1 \in D
  <2>1. ASSUME NEW k \in 1..Len(la), k <= n + 1 PROVE q[k] = p[k]
    <3>1. k > 2 => k - 1 \in 1..Len(la) /\ k - 1 <= n
      BY <1>1, <2>1
    <3>2. k > 2 => q[k - 1] = p[k - 1] /\ y[k - 1] = la[k - 1]
      BY <1>1, <1>5, <3>1
    <3>3. QuotedStep(y, q, k) = QuotedStep(la, p, k)
      BY <3>2, Zenon DEF QuotedStep
    <3> QED BY <1>2, <1>3, <3>3, Zenon
  <2>2. n + 1 \in Nat
    OBVIOUS
  <2> QED BY <2>1, <2>2, Zenon
<1> HIDE DEF D
<1>6. Nat \subseteq D
  BY <1>4, <1>5, NatSetInduction
<1>7. Len(la) \in D /\ \A k \in 1..Len(la) : k <= Len(la)
  BY <1>1, <1>6
<1> QED BY <1>7 DEF D, p, q

\* What ends a string: the first quote that is not quoted.
Closing(la) == {k \in 2..Len(la) : la[k] = "\"" /\ ~Quoted(la)[k]}

\* The cases of match_string, one by one.
LEMMA StringArms ==
  ASSUME NEW la, NEW e
  PROVE  /\ la[1] # "\"" => MatchString(la, e) = CannotMatch
         /\ la[1] = "\"" /\ Closing(la) = {} => MatchString(la, e) = NothingAtEnd(e)
         /\ la[1] = "\"" /\ Closing(la) # {} =>
               MatchString(la, e) = Matches(CHOOSE k \in Closing(la) : \A l \in Closing(la) : k <= l)
  BY Zenon DEF MatchString, Closing

\* The least of a set of numbers is the one that is chosen.
LEMMA LeastIs ==
  ASSUME NEW S, S \subseteq Nat, NEW n \in S, \A l \in S : n <= l
  PROVE  (CHOOSE k \in S : \A l \in S : k <= l) = n
<1> DEFINE c == CHOOSE k \in S : \A l \in S : k <= l
<1>1. c \in S /\ \A l \in S : c <= l
  <2>1. \E k \in S : \A l \in S : k <= l
    OBVIOUS
  <2> QED BY <2>1
<1> HIDE DEF c
<1>2. c \in Nat /\ n \in Nat /\ c <= n /\ n <= c
  BY <1>1
<1>3. c = n
  BY <1>2
<1> QED BY <1>3 DEF c

\* The first of the characters that end a token in la is the first in y.
LEMMA LeastStays ==
  ASSUME NEW la, NEW y, Begins(la, y), NEW A, NEW B, A \subseteq 1..Len(la), B \subseteq Nat \ {0},
         A # {}, \A k \in 1..Len(la) : k \in A <=> k \in B
  PROVE  \E n \in 1..Len(la) : /\ n \in A /\ (CHOOSE k \in A : \A l \in A : k <= l) = n
                               /\ (CHOOSE k \in B : \A l \in B : k <= l) = n
<1>1. Len(la) \in Nat
  BY BeginsSame
<1>2. A \subseteq Nat
  BY <1>1
<1>3. PICK n \in A : \A l \in A : n <= l
  BY <1>2, MinIs
<1>4. n \in B /\ n \in 1..Len(la) /\ n \in Nat
  BY <1>2, <1>3
<1>5. ASSUME NEW l \in B PROVE n <= l
  <2>1. CASE l \in 1..Len(la)
    BY <1>3, <2>1
  <2>2. CASE l \notin 1..Len(la)
    <3>1. PICK m \in Nat \ {0} : m = l /\ m \in B /\ m \notin 1..Len(la)
      BY <2>2
    <3>2. m > Len(la)
      BY <1>1, <3>1
    <3> QED BY <1>1, <1>4, <3>1, <3>2
  <2> QED BY <2>1, <2>2
<1>6. (CHOOSE k \in A : \A l \in A : k <= l) = n
  BY <1>2, <1>3, LeastIs
<1>7. (CHOOSE k \in B : \A l \in B : k <= l) = n
  BY Nat \ {0} \subseteq Nat, <1>4, <1>5, LeastIs
<1> QED BY <1>3, <1>4, <1>6, <1>7

\* A string that has decided on the lookahead has decided on the whole text.
LEMMA StringSettles ==
  ASSUME NEW la, NEW y, Begins(la, y)
  PROVE  /\ Settles(MatchString(la, FALSE), MatchString(y, TRUE), Len(la))
         /\ Within(MatchString(la, TRUE), Len(la))
         /\ MatchString(la, FALSE).result # "LookaheadCannotMatch" => la[1] = "\""
<1>1. /\ la \in Seq(Chars) /\ y \in Seq(Chars) /\ Len(la) \in Nat /\ Len(y) \in Nat
      /\ Len(y) >= Len(la) /\ y[1] = la[1] /\ \A k \in 1..Len(la) : y[k] = la[k]
  BY BeginsSame
<1>2. CASE la[1] # "\""
  <2>1. /\ MatchString(la, FALSE) = CannotMatch /\ MatchString(la, TRUE) = CannotMatch
        /\ MatchString(y, TRUE) = CannotMatch
    BY <1>1, <1>2, StringArms, Zenon
  <2> QED BY <2>1, CannotSettles, VerdictsAre
<1>3. CASE la[1] = "\"" /\ Closing(la) = {}
  <2>1. MatchString(la, FALSE) = Prefix /\ MatchString(la, TRUE) = CannotMatch
    BY <1>3, StringArms, EndsAre, Zenon
  <2> QED BY <1>3, <2>1, PrefixSettles, CannotSettles
<1>4. CASE la[1] = "\"" /\ Closing(la) # {}
  <2>1. Closing(la) \subseteq 1..Len(la) /\ Closing(y) \subseteq Nat \ {0}
    <3>1. \A k \in 2..Len(la) : k \in 1..Len(la)
      BY <1>1
    <3>2. \A k \in 2..Len(y) : k \in Nat \ {0}
      BY <1>1
    <3> QED BY <3>1, <3>2, Zenon DEF Closing
  <2>2. ASSUME NEW k \in 1..Len(la) PROVE k \in Closing(la) <=> k \in Closing(y)
    <3>1. y[k] = la[k] /\ Quoted(y)[k] = Quoted(la)[k]
      BY <1>1, QuotedStays
    <3>2. k \in 2..Len(la) <=> k \in 2..Len(y)
      BY <1>1
    <3> QED BY <3>1, <3>2, Zenon DEF Closing
  <2>3. PICK n \in 1..Len(la) : /\ n \in Closing(la) /\ (CHOOSE k \in Closing(la) : \A l \in Closing(la) : k <= l) = n
                                /\ (CHOOSE k \in Closing(y) : \A l \in Closing(y) : k <= l) = n
    BY <1>4, <2>1, <2>2, LeastStays
  <2>4. Closing(y) # {}
    BY <2>2, <2>3
  <2>5. MatchString(la, FALSE) = Matches(n) /\ MatchString(la, TRUE) = Matches(n)
    BY <1>4, <2>3, StringArms, Zenon
  <2>6. MatchString(y, TRUE) = Matches(n)
    BY <1>1, <1>4, <2>3, <2>4, StringArms, Zenon
  <2> QED BY <1>1, <1>4, <2>5, <2>6, MatchSettles
<1> QED BY <1>2, <1>3, <1>4

----------------------------------------------------------------------------
(* The constants of the JSON language. *)

\* The length of a text in bytes.
LEMMA ByteLenIs ==
  ASSUME NEW text \in Seq(Chars)
  PROVE  /\ ByteLen(text) \in Nat /\ ByteLen(text) >= Len(text)
         /\ (\A k \in 1..Len(text) : text[k] \notin {"wide2", "wide3"}) => ByteLen(text) = Len(text)
<1> DEFINE L == Len(text)
           to == EncodeUpTo(text)
           narrow == \A k \in 1..L : text[k] \notin {"wide2", "wide3"}
           OK(n) == /\ to[n] \in Seq(Symbols) /\ Len(to[n]) >= n
                    /\ narrow => Len(to[n]) = n
           D == {n \in Nat : n <= L => OK(n)}
<1>1. L \in Nat
  OBVIOUS
<1>2. to[0] = <<>> /\ \A i \in 1..L : to[i] = to[i - 1] \o Encode(text[i])
  BY EncodeUpToIs, Zenon
<1> HIDE DEF to
<1>3. 0 \in D
  <2>1. <<>> \in Seq(Symbols) /\ Len(<<>>) = 0
    OBVIOUS
  <2>2. OK(0)
    BY <1>2, <2>1
  <2> HIDE DEF OK
  <2> QED BY <2>2
<1>4. ASSUME NEW n \in Nat, n \in D PROVE n + 1 \in D
  <2> SUFFICES ASSUME n + 1 <= L PROVE OK(n + 1)
    OBVIOUS
  <2>1. n <= L /\ n + 1 \in 1..L /\ (n + 1) - 1 = n
    BY <1>1
  <2>2. OK(n)
    <3> HIDE DEF OK
    <3> QED BY <1>4, <2>1
  <2>3. PICK c \in Chars : c = text[n + 1]
    BY <2>1
  <2>4. PICK e \in Seq(Symbols) : e = Encode(c) /\ Len(e) \in Nat \ {0} /\ (c \notin {"wide2", "wide3"} => e = <<c>>)
    BY EncodeIs
  <2>5. to[n + 1] = to[n] \o e
    BY <1>2, <2>1, <2>3, <2>4
  <2>6. PICK b \in Seq(Symbols) : b = to[n]
    BY <2>2
  <2>7. b \o e \in Seq(Symbols) /\ Len(b \o e) = Len(b) + Len(e)
    BY JoinIs
  <2>8. narrow => Len(e) = 1
    BY <2>1, <2>3, <2>4
  <2>9. Len(b) \in Nat /\ Len(b) >= n /\ (narrow => Len(b) = n)
    BY <2>2, <2>6
  <2> HIDE DEF narrow
  <2>10. Len(b \o e) >= n + 1 /\ (narrow => Len(b \o e) = n + 1)
    <3>1. PICK p \in Nat, q \in Nat : p = Len(b) /\ q = Len(e)
      BY <2>4, <2>9
    <3>2. p >= n /\ q >= 1 /\ Len(b \o e) = p + q /\ (narrow => p = n /\ q = 1)
      BY <2>4, <2>7, <2>8, <2>9, <3>1
    <3>3. p + q >= n + 1 /\ (p = n /\ q = 1 => p + q = n + 1)
      BY <3>2
    <3> QED BY <3>2, <3>3
  <2> QED BY <2>5, <2>6, <2>7, <2>10
<1> HIDE DEF D, OK
<1>5. Nat \subseteq D
  BY <1>3, <1>4, NatSetInduction
<1>6. OK(L)
  <2>1. L \in D /\ L <= L
    BY <1>1, <1>5
  <2> QED BY <2>1 DEF D
<1>7. ByteLen(text) = Len(to[L])
  BY DEF ByteLen, EncodeAll, to
<1>8. Len(to[L]) \in Nat
  BY <1>6 DEF OK
<1> QED BY <1>6, <1>7, <1>8 DEF OK

\* A word of letters that are one byte each.
IsWord(word) ==
    /\ word \in Seq(Chars) /\ Len(word) >= 1
    /\ \A k \in 1..Len(word) : word[k] \in Letters \ {"wide2", "wide3"}
Heads(word, la) == Len(la) >= Len(word) /\ SubSeq(la, 1, Len(word)) = word

\* The verdicts on a word, ...
LEMMA KeywordIs ==
  ASSUME NEW la \in Seq(Chars), Len(la) >= 1, NEW word, IsWord(word)
  PROVE  /\ Heads(word, la) => MatchKeyword(la, word) = Matches(Len(word))
         /\ MatchKeyword(la, word).result = "Matches" => Heads(word, la)
         /\ MatchKeyword(la, word).result = "LookaheadIsPrefix" =>
               Len(la) < Len(word) /\ \A k \in 1..Len(la) : la[k] = word[k]
         /\ Len(la) < Len(word) /\ (\A k \in 1..Len(la) : la[k] = word[k]) => MatchKeyword(la, word) = Prefix
         /\ MatchKeyword(la, word) \in {Matches(Len(word)), Prefix, CannotMatch, Panics}
<1> DEFINE n == Len(word)
           boundary == {i \in 0..Len(la) : ByteLen(SubSeq(la, 1, i)) = n}
           bl == ByteLen(la)
<1>1. /\ word \in Seq(Chars) /\ n \in Nat /\ n >= 1 /\ Len(la) \in Nat
      /\ \A k \in 1..n : word[k] \notin {"wide2", "wide3"} /\ word[k] \in Chars
  BY DEF IsWord
<1>2. bl \in Nat /\ bl >= Len(la) /\ ByteLen(word) = n
  <2>1. ByteLen(word) = n
    BY <1>1, ByteLenIs
  <2> QED BY <2>1, ByteLenIs
<1>3. MatchKeyword(la, word) = IF bl < n THEN IF la = SubSeq(word, 1, Len(la)) THEN Prefix ELSE CannotMatch
                               ELSE IF boundary = {} THEN Panics
                               ELSE IF \E i \in boundary : SubSeq(la, 1, i) = word THEN Matches(n) ELSE CannotMatch
  BY Zenon DEF MatchKeyword
<1> HIDE DEF bl
<1>4. Heads(word, la) => MatchKeyword(la, word) = Matches(n)
  <2> SUFFICES ASSUME Heads(word, la) PROVE MatchKeyword(la, word) = Matches(n)
    OBVIOUS
  <2>1. Len(la) >= n /\ SubSeq(la, 1, n) = word
    BY DEF Heads
  <2>2. ~(bl < n) /\ n \in 0..Len(la)
    BY <1>1, <1>2, <2>1
  <2>3. ByteLen(SubSeq(la, 1, n)) = n
    BY <1>2, <2>1
  <2>4. n \in boundary
    BY <2>2, <2>3
  <2> HIDE DEF boundary
  <2> QED BY <1>3, <2>1, <2>2, <2>4, Zenon
<1>5. ASSUME NEW i \in boundary, SubSeq(la, 1, i) = word PROVE Heads(word, la)
  <2>1. i \in 0..Len(la)
    OBVIOUS
  <2>2. \A k \in 1..i : la[k] \in Chars
    BY <1>1, <2>1
  <2>3. Len(SubSeq(la, 1, i)) = IF 1 <= i THEN i - 1 + 1 ELSE 0
    BY <2>1, <2>2, SubSeqProperties
  <2>4. i = n
    BY <1>1, <1>5, <2>1, <2>3
  <2> QED BY <1>1, <1>5, <2>1, <2>4 DEF Heads
<1>6. MatchKeyword(la, word).result = "Matches" => Heads(word, la)
  <2> HIDE DEF boundary
  <2>1. MatchKeyword(la, word) \in {Prefix, CannotMatch, Panics} \/ Heads(word, la)
    BY <1>3, <1>5, Zenon
  <2> QED BY <2>1, VerdictsAre
<1>7. la = SubSeq(word, 1, Len(la)) /\ bl < n => Len(la) < n /\ \A k \in 1..Len(la) : la[k] = word[k]
  <2> SUFFICES ASSUME la = SubSeq(word, 1, Len(la)), bl < n PROVE Len(la) < n /\ \A k \in 1..Len(la) : la[k] = word[k]
    OBVIOUS
  <2>1. Len(la) < n
    BY <1>1, <1>2
  <2>2. \A k \in 1..Len(la) : word[k] \in Chars
    BY <1>1, <2>1
  <2>3. \A k \in 1..Len(la) - 1 + 1 : SubSeq(word, 1, Len(la))[k] = word[1 + k - 1]
    BY <1>1, <2>2, SubSeqProperties
  <2>4. ASSUME NEW k \in 1..Len(la) PROVE la[k] = word[k]
    <3>1. k \in 1..Len(la) - 1 + 1 /\ 1 + k - 1 = k
      BY <1>1
    <3>2. SubSeq(word, 1, Len(la))[k] = word[k]
      BY <2>3, <3>1
    <3> QED BY <3>2
  <2> QED BY <2>1, <2>4
<1>8. MatchKeyword(la, word).result = "LookaheadIsPrefix" =>
        Len(la) < n /\ \A k \in 1..Len(la) : la[k] = word[k]
  <2> HIDE DEF boundary
  <2>1. MatchKeyword(la, word) \in {Matches(n), CannotMatch, Panics} \/ (la = SubSeq(word, 1, Len(la)) /\ bl < n)
    BY <1>3, Zenon
  <2> QED BY <1>7, <2>1, VerdictsAre
<1>9. Len(la) < n /\ (\A k \in 1..Len(la) : la[k] = word[k]) => MatchKeyword(la, word) = Prefix
  <2> SUFFICES ASSUME Len(la) < n, \A k \in 1..Len(la) : la[k] = word[k] PROVE MatchKeyword(la, word) = Prefix
    OBVIOUS
  <2>1. \A k \in 1..Len(la) : k \in 1..n /\ la[k] \notin {"wide2", "wide3"} /\ word[k] \in Chars
    BY <1>1
  <2>2. bl = Len(la)
    BY <2>1, ByteLenIs DEF bl
  <2>3. la = SubSeq(word, 1, Len(la))
    <3>1. /\ SubSeq(word, 1, Len(la)) \in Seq(Chars) /\ Len(SubSeq(word, 1, Len(la))) = IF 1 <= Len(la) THEN Len(la) - 1 + 1 ELSE 0
          /\ \A k \in 1..Len(la) - 1 + 1 : SubSeq(word, 1, Len(la))[k] = word[1 + k - 1]
      BY <1>1, <2>1, SubSeqProperties
    <3>2. Len(SubSeq(word, 1, Len(la))) = Len(la)
      BY <1>1, <3>1
    <3>3. ASSUME NEW k \in 1..Len(la) PROVE SubSeq(word, 1, Len(la))[k] = la[k]
      <4>1. k \in 1..Len(la) - 1 + 1 /\ 1 + k - 1 = k
        BY <1>1
      <4> QED BY <3>1, <4>1
    <3> QED BY <3>1, <3>2, <3>3, SeqEqual
  <2>4. bl < n
    BY <2>2
  <2> QED BY <1>3, <2>3, <2>4, Zenon
<1>10. MatchKeyword(la, word) \in {Matches(n), Prefix, CannotMatch, Panics}
  <2> HIDE DEF boundary
  <2> QED BY <1>3, Zenon
<1> QED BY <1>4, <1>6, <1>8, <1>9, <1>10

\* A text begins with a word if it has the word's characters, ...
LEMMA HeadsIs ==
  ASSUME NEW s \in Seq(Chars), NEW word, IsWord(word)
  PROVE  Heads(word, s) <=> Len(s) >= Len(word) /\ \A k \in 1..Len(word) : s[k] = word[k]
<1>1. /\ word \in Seq(Chars) /\ Len(word) \in Nat /\ Len(word) >= 1 /\ Len(s) \in Nat
  BY DEF IsWord
<1>2. PICK n \in Nat : n = Len(word) /\ n >= 1
  BY <1>1
<1>3. SUFFICES ASSUME Len(s) >= n PROVE Heads(word, s) <=> \A k \in 1..n : s[k] = word[k]
  BY <1>1, <1>2 DEF Heads
<1>4. \A k \in 1..n : s[k] \in Chars
  BY <1>1, <1>3
<1>5. PICK t \in Seq(Chars) : /\ t = SubSeq(s, 1, n) /\ Len(t) = IF 1 <= n THEN n - 1 + 1 ELSE 0
                              /\ \A k \in 1..n - 1 + 1 : t[k] = s[1 + k - 1]
  <2>1. SubSeq(s, 1, n) \in Seq(Chars)
    BY <1>2, <1>4, SubSeqProperties
  <2>2. /\ Len(SubSeq(s, 1, n)) = IF 1 <= n THEN n - 1 + 1 ELSE 0
        /\ \A k \in 1..n - 1 + 1 : SubSeq(s, 1, n)[k] = s[1 + k - 1]
    BY <1>2, <1>4, SubSeqProperties
  <2> QED BY <2>1, <2>2
<1>6. Len(t) = n /\ \A k \in 1..n : t[k] = s[k]
  <2>1. \A k \in 1..n : k \in 1..n - 1 + 1 /\ 1 + k - 1 = k
    BY <1>2
  <2> QED BY <1>2, <1>5, <2>1
<1>7. t = word <=> \A k \in 1..n : t[k] = word[k]
  BY <1>1, <1>2, <1>6, SeqEqual
<1> QED BY <1>2, <1>3, <1>5, <1>6, <1>7 DEF Heads

\* ... which its first characters settle.
LEMMA KeywordSettles ==
  ASSUME NEW la, NEW y, Begins(la, y), NEW word, IsWord(word)
  PROVE  /\ Settles(MatchKeyword(la, word), MatchKeyword(y, word), Len(la))
         /\ Within(MatchKeyword(la, word), Len(la))
         /\ EndsWithLine(MatchKeyword(la, word), la)
         /\ MatchKeyword(la, word).result \in {"Matches", "LookaheadIsPrefix"} => la[1] = word[1]
<1> DEFINE n == Len(word)
<1>1. /\ la \in Seq(Chars) /\ y \in Seq(Chars) /\ Len(la) \in Nat /\ Len(y) \in Nat
      /\ Len(la) >= 1 /\ Len(y) >= Len(la) /\ \A k \in 1..Len(la) : y[k] = la[k]
  BY BeginsSame
<1>2. Len(y) >= 1 /\ n \in Nat /\ n >= 1 /\ word \in Seq(Chars) /\ \A k \in 1..n : word[k] \in Letters
  BY <1>1 DEF IsWord
<1>3. PICK r : r = MatchKeyword(la, word)
  OBVIOUS
<1>4. PICK w : w = MatchKeyword(y, word)
  OBVIOUS
<1>5. /\ r.result = "Matches" => Heads(word, la)
      /\ r.result = "LookaheadIsPrefix" => Len(la) < n /\ \A k \in 1..Len(la) : la[k] = word[k]
      /\ Len(la) < n /\ (\A k \in 1..Len(la) : la[k] = word[k]) => r = Prefix
      /\ r \in {Matches(n), Prefix, CannotMatch, Panics}
  BY <1>1, <1>3, KeywordIs
<1>6. Heads(word, la) => r = Matches(n)
  BY <1>1, <1>3, KeywordIs
<1>7. /\ Heads(word, y) => w = Matches(n)
      /\ w.result = "Matches" => Heads(word, y)
  BY <1>1, <1>2, <1>4, KeywordIs
<1>8. /\ Heads(word, la) <=> Len(la) >= n /\ \A k \in 1..n : la[k] = word[k]
      /\ Heads(word, y) <=> Len(y) >= n /\ \A k \in 1..n : y[k] = word[k]
  BY <1>1, HeadsIs
<1>9. CASE r.result = "Matches"
  <2>1. Heads(word, la) /\ r = Matches(n) /\ n \in 1..Len(la)
    BY <1>1, <1>2, <1>5, <1>6, <1>8, <1>9
  <2>2. Heads(word, y)
    <3>1. \A k \in 1..n : k \in 1..Len(la)
      BY <1>1, <2>1
    <3> QED BY <1>1, <1>2, <1>8, <2>1, <3>1
  <2>3. w = Matches(n)
    BY <1>7, <2>2
  <2>4. la[1] = word[1]
    BY <1>2, <1>8, <2>1
  <2> QED BY <1>1, <1>3, <1>4, <2>1, <2>3, <2>4, MatchSettles
<1>10. CASE r.result # "Matches"
  <2>1. r \in {Prefix, CannotMatch, Panics}
    BY <1>5, <1>10, VerdictsAre
  <2>2. r # Prefix => w.result # "Matches"
    <3> SUFFICES ASSUME r # Prefix, w.result = "Matches" PROVE FALSE
      OBVIOUS
    <3>1. Len(y) >= n /\ \A k \in 1..n : y[k] = word[k]
      BY <1>7, <1>8
    <3>2. CASE Len(la) >= n
      <4>1. \A k \in 1..n : k \in 1..Len(la)
        BY <1>1, <1>2, <3>2
      <4>2. Heads(word, la)
        BY <1>1, <1>8, <3>1, <3>2, <4>1
      <4> QED BY <1>6, <1>10, <4>2, VerdictsAre
    <3>3. CASE ~(Len(la) >= n)
      <4>1. Len(la) < n /\ \A k \in 1..Len(la) : k \in 1..n
        BY <1>1, <1>2, <3>3
      <4> QED BY <1>1, <1>5, <3>1, <4>1
    <3> QED BY <3>2, <3>3
  <2>3. Settles(r, w, Len(la))
    BY <1>10, <2>1, <2>2, VerdictsAre DEF Settles
  <2>4. Within(r, Len(la))
    BY <1>10 DEF Within
  <2>5. r.result = "LookaheadIsPrefix" => la[1] = word[1] /\ \A k \in 1..Len(la) : la[k] \in Letters
    <3>1. \A k \in 1..Len(la) : Len(la) < n => k \in 1..n
      BY <1>1, <1>2
    <3> QED BY <1>1, <1>2, <1>5, <3>1
  <2>6. EndsWithLine(r, la)
    <3>1. Letters \cap Newlines = {}
      BY DEF Letters, Newlines
    <3> QED BY <2>5, <3>1 DEF EndsWithLine
  <2> QED BY <1>3, <1>4, <1>10, <2>3, <2>4, <2>5, <2>6
<1> QED BY <1>9, <1>10

----------------------------------------------------------------------------
(* Names: commands and variables. *)

\* A name that starts with one of F, and is a token of one character only if that is one of G.
Named(la, e, F, G) ==
    IF la[1] \notin F THEN CannotMatch
    ELSE IF RunEnd(la, 2, NameChars) > Len(la) THEN UpToTheEnd(la, e)
    ELSE IF la[1] \in G \/ RunEnd(la, 2, NameChars) > 2 THEN Matches(RunEnd(la, 2, NameChars) - 1)
    ELSE CannotMatch
CommandStarts == Letters \cup {"_", ":"}
VariableStarts == {":", "$", "_"}

\* What the first characters of a name settle.
LEMMA NamedSettles ==
  ASSUME NEW la, NEW y, Begins(la, y), NEW F, NEW G, F \cap Newlines = {}
  PROVE  /\ Settles(Named(la, FALSE, F, G), Named(y, TRUE, F, G), Len(la))
         /\ Within(Named(la, TRUE, F, G), Len(la))
         /\ EndsWithLine(Named(la, FALSE, F, G), la)
         /\ Named(la, FALSE, F, G).result # "LookaheadCannotMatch" => la[1] \in F
         /\ Named(la, FALSE, F, G).result = "LookaheadIsPrefix" => la[1] \in F /\ RunEnd(la, 2, NameChars) > Len(la)
<1>1. /\ la \in Seq(Chars) /\ y \in Seq(Chars) /\ Len(la) \in Nat /\ Len(y) \in Nat
      /\ Len(la) >= 1 /\ Len(y) >= Len(la) /\ y[1] = la[1] /\ 2 \in 1..Len(la)+1
      /\ \A k \in 1..Len(la) : y[k] = la[k]
  BY BeginsSame
<1>2. CASE la[1] \notin F
  <2>1. /\ Named(la, FALSE, F, G) = CannotMatch /\ Named(la, TRUE, F, G) = CannotMatch
        /\ Named(y, TRUE, F, G) = CannotMatch
    BY <1>1, <1>2, Zenon DEF Named
  <2> QED BY <2>1, CannotSettles, VerdictsAre
<1>3. CASE la[1] \in F
  <2>1. PICK j \in 2..Len(la)+1 : /\ j = RunEnd(la, 2, NameChars) /\ \A k \in 2..j-1 : la[k] \in NameChars
                                  /\ j <= Len(la) => la[j] \notin NameChars
    BY <1>1, RunEndIs
  <2>2. \A e : Named(la, e, F, G) = IF j > Len(la) THEN UpToTheEnd(la, e)
                                    ELSE IF la[1] \in G \/ j > 2 THEN Matches(j - 1) ELSE CannotMatch
    BY <1>3, <2>1, Zenon DEF Named
  <2>3. CASE j > Len(la)
    <3>1. Named(la, FALSE, F, G) = Prefix /\ Named(la, TRUE, F, G) = Matches(Len(la))
      BY <2>2, <2>3, EndsAre, Zenon
    <3>2. Len(la) \in 1..Len(la)
      BY <1>1
    <3>3. \A k \in 1..Len(la) : la[k] \notin Newlines
      <4>1. NameChars \cap Newlines = {}
        BY DEF NameChars, Letters, Digits, Newlines
      <4>2. \A k \in 1..Len(la) : k = 1 \/ k \in 2..j-1
        BY <1>1, <2>3
      <4> QED BY <1>3, <2>1, <4>1, <4>2
    <3>4. EndsWithLine(Named(la, FALSE, F, G), la)
      BY <3>3 DEF EndsWithLine
    <3> QED BY <1>1, <1>3, <2>1, <2>3, <3>1, <3>2, <3>4, MatchSettles, PrefixSettles
  <2>4. CASE ~(j > Len(la))
    <3>1. RunEnd(y, 2, NameChars) = j /\ ~(j > Len(y)) /\ j - 1 \in 1..Len(la)
      <4>1. j <= Len(la) /\ ~(j > Len(y)) /\ j - 1 \in 1..Len(la)
        BY <1>1, <2>1, <2>4
      <4> QED BY <1>1, <2>1, <4>1, RunEndStays
    <3>2. PICK v : v = IF la[1] \in G \/ j > 2 THEN Matches(j - 1) ELSE CannotMatch
      OBVIOUS
    <3>3. Named(la, FALSE, F, G) = v /\ Named(la, TRUE, F, G) = v
      BY <2>2, <2>4, <3>2, Zenon
    <3>4. Named(y, TRUE, F, G) = v
      BY <1>1, <1>3, <3>1, <3>2, Zenon DEF Named
    <3>5. Settles(v, v, Len(la)) /\ Within(v, Len(la)) /\ EndsWithLine(v, la) /\ v.result # "LookaheadIsPrefix"
      <4>1. v = Matches(j - 1) \/ v = CannotMatch
        BY <3>2
      <4> QED BY <1>1, <3>1, <4>1, MatchSettles, CannotSettles, VerdictsAre
    <3> QED BY <1>3, <3>3, <3>4, <3>5
  <2> QED BY <2>3, <2>4
<1> QED BY <1>2, <1>3

\* The cases of match_command, ...
LEMMA CommandIs ==
  ASSUME NEW la, NEW e
  PROVE  MatchCommand(la, e) = Named(la, e, CommandStarts, Letters \cup {"_"})
<1>1. ":" \notin Letters \cup {"_"}
  BY DEF Letters
<1>2. la[1] \in CommandStarts => (la[1] # ":" <=> la[1] \in Letters \cup {"_"})
  BY <1>1 DEF CommandStarts
<1>3. CASE la[1] \in CommandStarts
  BY <1>2, <1>3, Zenon DEF MatchCommand, Named, CommandStarts
<1>4. CASE la[1] \notin CommandStarts
  BY <1>4, Zenon DEF MatchCommand, Named, CommandStarts
<1> QED BY <1>3, <1>4

\* ... of match_variable, ...
LEMMA VariableIs ==
  ASSUME NEW la, NEW e
  PROVE  MatchVariable(la, e) = Named(la, e, VariableStarts, {})
<1>1. la[1] \notin {}
  OBVIOUS
<1> QED BY <1>1, Zenon DEF MatchVariable, Named, VariableStarts

\* Commands, ...
LEMMA CommandSettles ==
  ASSUME NEW la, NEW y, Begins(la, y)
  PROVE  /\ Settles(MatchCommand(la, FALSE), MatchCommand(y, TRUE), Len(la))
         /\ Within(MatchCommand(la, TRUE), Len(la))
         /\ EndsWithLine(MatchCommand(la, FALSE), la)
         /\ MatchCommand(la, FALSE).result # "LookaheadCannotMatch" => la[1] \in CommandStarts
         /\ MatchCommand(la, FALSE).result = "LookaheadIsPrefix" => RunEnd(la, 2, NameChars) > Len(la)
<1>1. CommandStarts \cap Newlines = {}
  BY DEF CommandStarts, Letters, Newlines
<1>2. PICK F, G : F = CommandStarts /\ G = Letters \cup {"_"}
  OBVIOUS
<1>3. /\ MatchCommand(la, FALSE) = Named(la, FALSE, F, G) /\ MatchCommand(la, TRUE) = Named(la, TRUE, F, G)
      /\ MatchCommand(y, TRUE) = Named(y, TRUE, F, G)
  BY <1>2, CommandIs, Zenon
<1>4. F \cap Newlines = {}
  BY <1>1, <1>2, Zenon
<1>5. /\ Settles(Named(la, FALSE, F, G), Named(y, TRUE, F, G), Len(la)) /\ Within(Named(la, TRUE, F, G), Len(la))
      /\ EndsWithLine(Named(la, FALSE, F, G), la)
      /\ Named(la, FALSE, F, G).result # "LookaheadCannotMatch" => la[1] \in F
      /\ Named(la, FALSE, F, G).result = "LookaheadIsPrefix" => RunEnd(la, 2, NameChars) > Len(la)
  BY <1>4, NamedSettles, Zenon
<1> QED BY <1>2, <1>3, <1>5, Zenon

\* ... and variables.
LEMMA VariableSettles ==
  ASSUME NEW la, NEW y, Begins(la, y)
  PROVE  /\ Settles(MatchVariable(la, FALSE), MatchVariable(y, TRUE), Len(la))
         /\ Within(MatchVariable(la, TRUE), Len(la))
         /\ EndsWithLine(MatchVariable(la, FALSE), la)
         /\ MatchVariable(la, FALSE).result # "LookaheadCannotMatch" => la[1] \in VariableStarts
         /\ RunEnd(la, 2, NameChars) > Len(la) /\ la[1] \in VariableStarts => MatchVariable(la, FALSE) = Prefix
<1>1. VariableStarts \cap Newlines = {}
  BY DEF VariableStarts, Newlines
<1>2. PICK F, G : F = VariableStarts /\ G = {}
  OBVIOUS
<1>3. /\ MatchVariable(la, FALSE) = Named(la, FALSE, F, G) /\ MatchVariable(la, TRUE) = Named(la, TRUE, F, G)
      /\ MatchVariable(y, TRUE) = Named(y, TRUE, F, G)
  BY <1>2, VariableIs, Zenon
<1>4. RunEnd(la, 2, NameChars) > Len(la) /\ la[1] \in F => Named(la, FALSE, F, G) = Prefix
  BY EndsAre, Zenon DEF Named
<1> QED BY <1>1, <1>2, <1>3, <1>4, NamedSettles

----------------------------------------------------------------------------
(* Comments, symbols and characters. *)

Ending(la) == {k \in 3..Len(la) : la[k] \in Newlines}

\* ... and of match_comment, one by one.
LEMMA CommentArms ==
  ASSUME NEW la, NEW e
  PROVE  /\ la[1] # "/" => MatchComment(la, e) = CannotMatch
         /\ la = <<"/">> => MatchComment(la, e) = NothingAtEnd(e)
         /\ la[1] = "/" /\ Len(la) > 1 /\ la[2] # "/" => MatchComment(la, e) = CannotMatch
         /\ la[1] = "/" /\ Len(la) > 1 /\ la[2] = "/" /\ Ending(la) = {} => MatchComment(la, e) = UpToTheEnd(la, e)
         /\ la[1] = "/" /\ Len(la) > 1 /\ la[2] = "/" /\ Ending(la) # {} =>
               MatchComment(la, e) = Matches(CHOOSE k \in Ending(la) : \A l \in Ending(la) : k <= l)
<1>1. la[1] # "/" => la # <<"/">>
  OBVIOUS
<1>2. la = <<"/">> => la[1] = "/" /\ ~(Len(la) > 1)
  OBVIOUS
<1>3. la[1] # "/" => MatchComment(la, e) = CannotMatch
  BY <1>1, Zenon DEF MatchComment
<1>4. la = <<"/">> => MatchComment(la, e) = NothingAtEnd(e)
  BY <1>2, Zenon DEF MatchComment
<1>5. la[1] = "/" /\ Len(la) > 1 /\ la[2] # "/" => MatchComment(la, e) = CannotMatch
  BY <1>2, Zenon DEF MatchComment
<1>6. la[1] = "/" /\ Len(la) > 1 /\ la[2] = "/" /\ Ending(la) = {} => MatchComment(la, e) = UpToTheEnd(la, e)
  BY <1>2, Zenon DEF MatchComment, Ending
<1>7. la[1] = "/" /\ Len(la) > 1 /\ la[2] = "/" /\ Ending(la) # {} =>
        MatchComment(la, e) = Matches(CHOOSE k \in Ending(la) : \A l \in Ending(la) : k <= l)
  BY <1>2, Zenon DEF MatchComment, Ending
<1> QED BY <1>3, <1>4, <1>5, <1>6, <1>7

\* What the first characters of a comment settle.
LEMMA CommentSettles ==
  ASSUME NEW la, NEW y, Begins(la, y)
  PROVE  /\ Settles(MatchComment(la, FALSE), MatchComment(y, TRUE), Len(la))
         /\ Within(MatchComment(la, TRUE), Len(la))
         /\ EndsWithLine(MatchComment(la, FALSE), la)
         /\ MatchComment(la, FALSE).result # "LookaheadCannotMatch" => la[1] = "/"
<1>1. /\ la \in Seq(Chars) /\ y \in Seq(Chars) /\ Len(la) \in Nat /\ Len(y) \in Nat
      /\ Len(la) >= 1 /\ Len(y) >= Len(la) /\ y[1] = la[1] /\ \A k \in 1..Len(la) : y[k] = la[k]
      /\ Len(la) > 1 => y[2] = la[2]
  BY BeginsSame
<1>2. Len(la) > 1 => Len(y) > 1
  BY <1>1
<1>3. "/" \notin Newlines
  BY DEF Newlines
<1>4. CASE la[1] # "/"
  <2>1. /\ MatchComment(la, FALSE) = CannotMatch /\ MatchComment(la, TRUE) = CannotMatch
        /\ MatchComment(y, TRUE) = CannotMatch
    BY <1>1, <1>4, CommentArms, Zenon
  <2> QED BY <2>1, CannotSettles, VerdictsAre
<1>5. CASE la[1] = "/" /\ ~(Len(la) > 1)
  <2>1. Len(la) = 1
    <3>1. Len(la) \in Nat /\ Len(la) >= 1 /\ ~(Len(la) > 1)
      BY <1>1, <1>5
    <3>2. \A n \in Nat : n >= 1 /\ ~(n > 1) => n = 1
      OBVIOUS
    <3> QED BY <3>1, <3>2
  <2>2. la = <<"/">>
    BY <1>1, <1>5, <2>1
  <2>3. MatchComment(la, FALSE) = Prefix /\ MatchComment(la, TRUE) = CannotMatch
    BY <2>2, CommentArms, EndsAre, Zenon
  <2>4. EndsWithLine(MatchComment(la, FALSE), la)
    BY <1>3, <1>5, <2>1 DEF EndsWithLine
  <2> QED BY <1>5, <2>3, <2>4, PrefixSettles, CannotSettles
<1>6. CASE la[1] = "/" /\ Len(la) > 1 /\ la[2] # "/"
  <2>1. /\ MatchComment(la, FALSE) = CannotMatch /\ MatchComment(la, TRUE) = CannotMatch
        /\ MatchComment(y, TRUE) = CannotMatch
    BY <1>1, <1>2, <1>6, CommentArms, Zenon
  <2> QED BY <2>1, CannotSettles, VerdictsAre
<1>7. CASE la[1] = "/" /\ Len(la) > 1 /\ la[2] = "/" /\ Ending(la) = {}
  <2>1. MatchComment(la, FALSE) = Prefix /\ MatchComment(la, TRUE) = Matches(Len(la))
    BY <1>7, CommentArms, EndsAre, Zenon
  <2>2. Len(la) \in 1..Len(la)
    BY <1>1
  <2>3. ASSUME NEW k \in 1..Len(la) PROVE la[k] \notin Newlines
    <3>1. k = 1 \/ k = 2 \/ k \in 3..Len(la)
      BY <1>1
    <3>2. k \in 3..Len(la) => la[k] \notin Newlines
      BY <1>7, Zenon DEF Ending
    <3> QED BY <1>3, <1>7, <3>1, <3>2
  <2>4. EndsWithLine(MatchComment(la, FALSE), la)
    BY <2>3 DEF EndsWithLine
  <2> QED BY <1>1, <1>7, <2>1, <2>2, <2>4, PrefixSettles, MatchSettles
<1>8. CASE la[1] = "/" /\ Len(la) > 1 /\ la[2] = "/" /\ Ending(la) # {}
  <2>1. Ending(la) \subseteq 1..Len(la) /\ Ending(y) \subseteq Nat \ {0}
    <3>1. \A k \in 3..Len(la) : k \in 1..Len(la)
      BY <1>1
    <3>2. \A k \in 3..Len(y) : k \in Nat \ {0}
      BY <1>1
    <3> QED BY <3>1, <3>2, Zenon DEF Ending
  <2>2. ASSUME NEW k \in 1..Len(la) PROVE k \in Ending(la) <=> k \in Ending(y)
    <3>1. y[k] = la[k] /\ (k \in 3..Len(la) <=> k \in 3..Len(y))
      BY <1>1
    <3> QED BY <3>1, Zenon DEF Ending
  <2>3. PICK n \in 1..Len(la) : /\ n \in Ending(la) /\ (CHOOSE k \in Ending(la) : \A l \in Ending(la) : k <= l) = n
                                /\ (CHOOSE k \in Ending(y) : \A l \in Ending(y) : k <= l) = n
    BY <1>8, <2>1, <2>2, LeastStays
  <2>4. Ending(y) # {}
    BY <2>2, <2>3
  <2>5. MatchComment(la, FALSE) = Matches(n) /\ MatchComment(la, TRUE) = Matches(n)
    BY <1>8, <2>3, CommentArms, Zenon
  <2>6. MatchComment(y, TRUE) = Matches(n)
    BY <1>1, <1>2, <1>8, <2>3, <2>4, CommentArms, Zenon
  <2> QED BY <1>1, <1>8, <2>5, <2>6, MatchSettles
<1> QED BY <1>4, <1>5, <1>6, <1>7, <1>8

\* The symbols that are a token of their own, and the character that any token can be.
LEMMA SymbolSettles ==
  ASSUME NEW la, NEW y, Begins(la, y), NEW c
  PROVE  /\ Settles(MatchSymbol(la, c), MatchSymbol(y, c), Len(la)) /\ Within(MatchSymbol(la, c), Len(la))
         /\ MatchSymbol(la, c).result # "LookaheadIsPrefix" /\ MatchSymbol(la, c) \in {Matches(1), CannotMatch}
         /\ MatchSymbol(la, c).result # "LookaheadCannotMatch" => la[1] = c
         /\ Settles(MatchCharacter(la), MatchCharacter(y), Len(la)) /\ Within(MatchCharacter(la), Len(la))
         /\ MatchCharacter(la).result = "Matches"
<1>1. Len(la) \in Nat /\ 1 \in 1..Len(la) /\ y[1] = la[1]
  <2>1. Len(la) \in Nat /\ Len(la) >= 1 /\ y[1] = la[1]
    BY BeginsSame
  <2> QED BY <2>1
<1>2. MatchSymbol(y, c) = MatchSymbol(la, c)
  BY <1>1, Zenon DEF MatchSymbol
<1>3. la[1] = c => MatchSymbol(la, c) = Matches(1)
  BY Zenon DEF MatchSymbol
<1>4. la[1] # c => MatchSymbol(la, c) = CannotMatch
  BY Zenon DEF MatchSymbol
<1>5. MatchCharacter(la) = Matches(1) /\ MatchCharacter(y) = Matches(1)
  BY Zenon DEF MatchCharacter
<1> QED BY <1>1, <1>2, <1>3, <1>4, <1>5, MatchSettles, CannotSettles, VerdictsAre

----------------------------------------------------------------------------
(* The matchers together.  The JSON language has the first seven of those  *)
(* of the command language.                                                *)

\* The verdict of the i-th matcher.
Verdict(i, la, e) == TryMatch(CommandMatchers[i], la, e)

\* The matchers in their order.
LEMMA MatchersAre ==
  /\ Len(CommandMatchers) = 14 /\ DOMAIN CommandMatchers = 1..14 /\ DOMAIN JsonMatchers = 1..7
  /\ \A i \in 1..7 : CommandMatchers[i] = JsonMatchers[i]
  /\ CommandMatchers[1] = "Character" /\ CommandMatchers[2] = "Whitespace" /\ CommandMatchers[3] = "Number"
  /\ CommandMatchers[4] = "String" /\ CommandMatchers[5] = "True" /\ CommandMatchers[6] = "False"
  /\ CommandMatchers[7] = "Null" /\ CommandMatchers[8] = "Command" /\ CommandMatchers[9] = "Variable"
  /\ CommandMatchers[10] = "Comment" /\ CommandMatchers[11] = "Pipe" /\ CommandMatchers[12] = "SemiColon"
  /\ CommandMatchers[13] = "Equals" /\ CommandMatchers[14] = "Newline"
<1> DEFINE S == {"Character", "Whitespace", "Number", "String", "True", "False", "Null", "Command", "Variable",
                 "Comment", "Pipe", "SemiColon", "Equals", "Newline"}
           more == <<"Command", "Variable", "Comment", "Pipe", "SemiColon", "Equals", "Newline">>
<1>1. /\ JsonMatchers \in Seq(S) /\ Len(JsonMatchers) = 7
      /\ JsonMatchers[1] = "Character" /\ JsonMatchers[2] = "Whitespace" /\ JsonMatchers[3] = "Number"
      /\ JsonMatchers[4] = "String" /\ JsonMatchers[5] = "True" /\ JsonMatchers[6] = "False" /\ JsonMatchers[7] = "Null"
  BY DEF JsonMatchers
<1>2. /\ more \in Seq(S) /\ Len(more) = 7 /\ more[1] = "Command" /\ more[2] = "Variable" /\ more[3] = "Comment"
      /\ more[4] = "Pipe" /\ more[5] = "SemiColon" /\ more[6] = "Equals" /\ more[7] = "Newline"
  OBVIOUS
<1>3. CommandMatchers = JsonMatchers \o more
  BY DEF CommandMatchers
<1> HIDE DEF more, S
<1>4. PICK a \in Seq(S), b \in Seq(S) : a = JsonMatchers /\ b = more
  BY <1>1, <1>2
<1>5. /\ Len(a) = 7 /\ Len(b) = 7 /\ Len(a \o b) = 14 /\ a \o b \in Seq(S)
      /\ \A i \in 1..7 : (a \o b)[i] = a[i]
      /\ \A i \in 8..14 : (a \o b)[i] = b[i - 7]
  <2>1. Len(a) = 7 /\ Len(b) = 7
    BY <1>1, <1>2, <1>4
  <2>2. /\ a \o b \in Seq(S) /\ Len(a \o b) = Len(a) + Len(b)
        /\ \A i \in 1..Len(a) + Len(b) : (a \o b)[i] = IF i <= Len(a) THEN a[i] ELSE b[i - Len(a)]
    BY ConcatProperties
  <2>3. \A i \in 1..7 : i \in 1..7 + 7 /\ i <= 7
    OBVIOUS
  <2>4. \A i \in 8..14 : i \in 1..7 + 7 /\ ~(i <= 7)
    OBVIOUS
  <2> QED BY <2>1, <2>2, <2>3, <2>4
<1>6. CommandMatchers = a \o b
  BY <1>3, <1>4
<1>7. /\ Len(CommandMatchers) = 14 /\ DOMAIN CommandMatchers = 1..14 /\ DOMAIN JsonMatchers = 1..7
      /\ \A i \in 1..7 : CommandMatchers[i] = JsonMatchers[i]
      /\ \A i \in 8..14 : CommandMatchers[i] = more[i - 7]
  BY <1>1, <1>4, <1>5, <1>6
<1>8. /\ 8 \in 8..14 /\ 8 - 7 = 1 /\ 9 \in 8..14 /\ 9 - 7 = 2 /\ 10 \in 8..14 /\ 10 - 7 = 3 /\ 11 \in 8..14 /\ 11 - 7 = 4
      /\ 12 \in 8..14 /\ 12 - 7 = 5 /\ 13 \in 8..14 /\ 13 - 7 = 6 /\ 14 \in 8..14 /\ 14 - 7 = 7
  OBVIOUS
<1> QED BY <1>1, <1>2, <1>7, <1>8

\* ... and what each of them is.
LEMMA VerdictIs ==
  ASSUME NEW la, NEW e
  PROVE  /\ Verdict(1, la, e) = MatchCharacter(la) /\ Verdict(2, la, e) = MatchWhitespace(la, e)
         /\ Verdict(3, la, e) = MatchNumber(la, e) /\ Verdict(4, la, e) = MatchString(la, e)
         /\ Verdict(5, la, e) = MatchKeyword(la, <<"t", "r", "u", "e">>)
         /\ Verdict(6, la, e) = MatchKeyword(la, <<"f", "a", "l", "s", "e">>)
         /\ Verdict(7, la, e) = MatchKeyword(la, <<"n", "u", "l", "l">>)
         /\ Verdict(8, la, e) = MatchCommand(la, e) /\ Verdict(9, la, e) = MatchVariable(la, e)
         /\ Verdict(10, la, e) = MatchComment(la, e) /\ Verdict(11, la, e) = MatchSymbol(la, "|")
         /\ Verdict(12, la, e) = MatchSymbol(la, ";") /\ Verdict(13, la, e) = MatchSymbol(la, "=")
         /\ Verdict(14, la, e) = MatchNewline(la, e)
<1>1. TryMatch("Character", la, e) = MatchCharacter(la)
  BY Zenon DEF TryMatch
<1>2. TryMatch("Whitespace", la, e) = MatchWhitespace(la, e)
  BY Zenon DEF TryMatch
<1>3. TryMatch("Number", la, e) = MatchNumber(la, e)
  BY Zenon DEF TryMatch
<1>4. TryMatch("String", la, e) = MatchString(la, e)
  BY Zenon DEF TryMatch
<1>5. TryMatch("True", la, e) = MatchKeyword(la, <<"t", "r", "u", "e">>)
  BY Zenon DEF TryMatch
<1>6. TryMatch("False", la, e) = MatchKeyword(la, <<"f", "a", "l", "s", "e">>)
  BY Zenon DEF TryMatch
<1>7. TryMatch("Null", la, e) = MatchKeyword(la, <<"n", "u", "l", "l">>)
  BY Zenon DEF TryMatch
<1>8. TryMatch("Command", la, e) = MatchCommand(la, e)
  BY Zenon DEF TryMatch
<1>9. TryMatch("Variable", la, e) = MatchVariable(la, e)
  BY Zenon DEF TryMatch
<1>10. TryMatch("Comment", la, e) = MatchComment(la, e)
  BY Zenon DEF TryMatch
<1>11. TryMatch("Pipe", la, e) = MatchSymbol(la, "|")
  BY Zenon DEF TryMatch
<1>12. TryMatch("SemiColon", la, e) = MatchSymbol(la, ";")
  BY Zenon DEF TryMatch
<1>13. TryMatch("Equals", la, e) = MatchSymbol(la, "=")
  BY Zenon DEF TryMatch
<1>14. TryMatch("Newline", la, e) = MatchNewline(la, e)
  BY Zenon DEF TryMatch
<1> QED BY <1>1, <1>2, <1>3, <1>4, <1>5, <1>6, <1>7, <1>8, <1>9, <1>10, <1>11, <1>12, <1>13, <1>14,
           MatchersAre, Zenon DEF Verdict

\* The constants of JSON are words.
LEMMA WordsAre ==
  /\ IsWord(<<"t", "r", "u", "e">>) /\ IsWord(<<"f", "a", "l", "s", "e">>) /\ IsWord(<<"n", "u", "l", "l">>)
<1>1. Letters \subseteq Chars /\ {"t", "r", "u", "e", "f", "a", "l", "s", "n"} \subseteq Letters \ {"wide2", "wide3"}
  BY SymbolsAre DEF Letters
<1>2. {"t", "r", "u", "e", "f", "a", "l", "s", "n"} \subseteq Chars
  BY <1>1
<1>3. IsWord(<<"t", "r", "u", "e">>)
  <2>1. <<"t", "r", "u", "e">> \in Seq(Chars)
    BY <1>2
  <2> QED BY <1>1, <2>1 DEF IsWord
<1>4. IsWord(<<"f", "a", "l", "s", "e">>)
  <2>1. <<"f", "a", "l", "s", "e">> \in Seq(Chars)
    BY <1>2
  <2> QED BY <1>1, <2>1 DEF IsWord
<1>5. IsWord(<<"n", "u", "l", "l">>)
  <2>1. <<"n", "u", "l", "l">> \in Seq(Chars)
    BY <1>2
  <2> QED BY <1>1, <2>1 DEF IsWord
<1> QED BY <1>3, <1>4, <1>5

\* A text that is, or begins, one of them starts with its first letter.
LEMMA KeywordStarts ==
  ASSUME NEW la, Begins(la, la)
  PROVE  /\ MatchKeyword(la, <<"t", "r", "u", "e">>).result \in {"Matches", "LookaheadIsPrefix"} => la[1] = "t"
         /\ MatchKeyword(la, <<"f", "a", "l", "s", "e">>).result \in {"Matches", "LookaheadIsPrefix"} => la[1] = "f"
         /\ MatchKeyword(la, <<"n", "u", "l", "l">>).result \in {"Matches", "LookaheadIsPrefix"} => la[1] = "n"
<1>1. ASSUME NEW word, IsWord(word)
      PROVE  MatchKeyword(la, word).result \in {"Matches", "LookaheadIsPrefix"} => la[1] = word[1]
  BY <1>1, KeywordSettles, Zenon
<1>2. IsWord(<<"t", "r", "u", "e">>) /\ IsWord(<<"f", "a", "l", "s", "e">>) /\ IsWord(<<"n", "u", "l", "l">>)
  BY WordsAre, Zenon
<1>3. <<"t", "r", "u", "e">>[1] = "t" /\ <<"f", "a", "l", "s", "e">>[1] = "f" /\ <<"n", "u", "l", "l">>[1] = "n"
  OBVIOUS
<1> QED BY <1>1, <1>2, <1>3, Zenon

\* What any matcher says of the first characters is settled, and once a line
\* has ended only a string can want more of them.
LEMMA VerdictSettles ==
  ASSUME NEW la, NEW y, Begins(la, y), NEW i \in 1..14
  PROVE  /\ Settles(Verdict(i, la, FALSE), Verdict(i, y, TRUE), Len(la))
         /\ Within(Verdict(i, la, TRUE), Len(la))
         /\ i # 4 => EndsWithLine(Verdict(i, la, FALSE), la)
<1> DEFINE Fine(j) == /\ Settles(Verdict(j, la, FALSE), Verdict(j, y, TRUE), Len(la))
                      /\ Within(Verdict(j, la, TRUE), Len(la))
                      /\ j # 4 => EndsWithLine(Verdict(j, la, FALSE), la)
<1>1. ASSUME NEW j, NEW r, NEW z, NEW w, r = Verdict(j, la, FALSE), z = Verdict(j, la, TRUE), w = Verdict(j, y, TRUE),
             Settles(r, w, Len(la)), Within(z, Len(la)), j # 4 => EndsWithLine(r, la)
      PROVE  Fine(j)
  BY <1>1, Zenon
<1>0. /\ \A r : r.result # "LookaheadIsPrefix" => EndsWithLine(r, la)
      /\ 5 # 4 /\ 6 # 4 /\ 7 # 4
  BY DEF EndsWithLine
<1>2. Fine(1)
  <2>1. /\ MatchCharacter(la) = Verdict(1, la, FALSE) /\ MatchCharacter(la) = Verdict(1, la, TRUE)
        /\ MatchCharacter(y) = Verdict(1, y, TRUE)
    BY VerdictIs, Zenon
  <2>2. /\ Settles(MatchCharacter(la), MatchCharacter(y), Len(la)) /\ Within(MatchCharacter(la), Len(la))
        /\ MatchCharacter(la).result # "LookaheadIsPrefix"
    <3>1. /\ Settles(MatchCharacter(la), MatchCharacter(y), Len(la)) /\ Within(MatchCharacter(la), Len(la))
          /\ MatchCharacter(la).result = "Matches"
      BY SymbolSettles, Zenon
    <3> QED BY <3>1
  <2> QED BY <1>0, <1>1, <2>1, <2>2
<1>3. Fine(2)
  <2>1. /\ MatchWhitespace(la, FALSE) = Verdict(2, la, FALSE) /\ MatchWhitespace(la, TRUE) = Verdict(2, la, TRUE)
        /\ MatchWhitespace(y, TRUE) = Verdict(2, y, TRUE)
    BY VerdictIs, Zenon
  <2>2. /\ Settles(MatchWhitespace(la, FALSE), MatchWhitespace(y, TRUE), Len(la)) /\ Within(MatchWhitespace(la, TRUE), Len(la))
        /\ EndsWithLine(MatchWhitespace(la, FALSE), la)
    BY WhitespaceSettles, Zenon
  <2> QED BY <1>1, <2>1, <2>2, Zenon
<1>4. Fine(3)
  <2>1. /\ MatchNumber(la, FALSE) = Verdict(3, la, FALSE) /\ MatchNumber(la, TRUE) = Verdict(3, la, TRUE)
        /\ MatchNumber(y, TRUE) = Verdict(3, y, TRUE)
    BY VerdictIs, Zenon
  <2>2. /\ Settles(MatchNumber(la, FALSE), MatchNumber(y, TRUE), Len(la)) /\ Within(MatchNumber(la, TRUE), Len(la))
        /\ EndsWithLine(MatchNumber(la, FALSE), la)
    BY NumberSettles, Zenon
  <2> QED BY <1>1, <2>1, <2>2, Zenon
<1>5. Fine(4)
  <2>1. /\ MatchString(la, FALSE) = Verdict(4, la, FALSE) /\ MatchString(la, TRUE) = Verdict(4, la, TRUE)
        /\ MatchString(y, TRUE) = Verdict(4, y, TRUE)
    BY VerdictIs, Zenon
  <2>2. /\ Settles(MatchString(la, FALSE), MatchString(y, TRUE), Len(la)) /\ Within(MatchString(la, TRUE), Len(la))
    BY StringSettles, Zenon
  <2> QED BY <1>1, <2>1, <2>2, Zenon
<1>6. Fine(5)
  <2>1. /\ MatchKeyword(la, <<"t", "r", "u", "e">>) = Verdict(5, la, FALSE) /\ MatchKeyword(la, <<"t", "r", "u", "e">>) = Verdict(5, la, TRUE)
        /\ MatchKeyword(y, <<"t", "r", "u", "e">>) = Verdict(5, y, TRUE)
    BY VerdictIs, Zenon
  <2>2. /\ Settles(MatchKeyword(la, <<"t", "r", "u", "e">>), MatchKeyword(y, <<"t", "r", "u", "e">>), Len(la)) /\ Within(MatchKeyword(la, <<"t", "r", "u", "e">>), Len(la))
        /\ EndsWithLine(MatchKeyword(la, <<"t", "r", "u", "e">>), la)
    <3>1. IsWord(<<"t", "r", "u", "e">>)
      BY WordsAre, Zenon
    <3> QED BY <3>1, KeywordSettles, Zenon
  <2> QED BY <1>0, <1>1, <2>1, <2>2, Zenon
<1>7. Fine(6)
  <2>1. /\ MatchKeyword(la, <<"f", "a", "l", "s", "e">>) = Verdict(6, la, FALSE) /\ MatchKeyword(la, <<"f", "a", "l", "s", "e">>) = Verdict(6, la, TRUE)
        /\ MatchKeyword(y, <<"f", "a", "l", "s", "e">>) = Verdict(6, y, TRUE)
    BY VerdictIs, Zenon
  <2>2. /\ Settles(MatchKeyword(la, <<"f", "a", "l", "s", "e">>), MatchKeyword(y, <<"f", "a", "l", "s", "e">>), Len(la)) /\ Within(MatchKeyword(la, <<"f", "a", "l", "s", "e">>), Len(la))
        /\ EndsWithLine(MatchKeyword(la, <<"f", "a", "l", "s", "e">>), la)
    <3>1. IsWord(<<"f", "a", "l", "s", "e">>)
      BY WordsAre, Zenon
    <3> QED BY <3>1, KeywordSettles, Zenon
  <2> QED BY <1>0, <1>1, <2>1, <2>2, Zenon
<1>8. Fine(7)
  <2>1. /\ MatchKeyword(la, <<"n", "u", "l", "l">>) = Verdict(7, la, FALSE) /\ MatchKeyword(la, <<"n", "u", "l", "l">>) = Verdict(7, la, TRUE)
        /\ MatchKeyword(y, <<"n", "u", "l", "l">>) = Verdict(7, y, TRUE)
    BY VerdictIs, Zenon
  <2>2. /\ Settles(MatchKeyword(la, <<"n", "u", "l", "l">>), MatchKeyword(y, <<"n", "u", "l", "l">>), Len(la)) /\ Within(MatchKeyword(la, <<"n", "u", "l", "l">>), Len(la))
        /\ EndsWithLine(MatchKeyword(la, <<"n", "u", "l", "l">>), la)
    <3>1. IsWord(<<"n", "u", "l", "l">>)
      BY WordsAre, Zenon
    <3> QED BY <3>1, KeywordSettles, Zenon
  <2> QED BY <1>0, <1>1, <2>1, <2>2, Zenon
<1>9. Fine(8)
  <2>1. /\ MatchCommand(la, FALSE) = Verdict(8, la, FALSE) /\ MatchCommand(la, TRUE) = Verdict(8, la, TRUE)
        /\ MatchCommand(y, TRUE) = Verdict(8, y, TRUE)
    BY VerdictIs, Zenon
  <2>2. /\ Settles(MatchCommand(la, FALSE), MatchCommand(y, TRUE), Len(la)) /\ Within(MatchCommand(la, TRUE), Len(la))
        /\ EndsWithLine(MatchCommand(la, FALSE), la)
    BY CommandSettles, Zenon
  <2> QED BY <1>1, <2>1, <2>2, Zenon
<1>10. Fine(9)
  <2>1. /\ MatchVariable(la, FALSE) = Verdict(9, la, FALSE) /\ MatchVariable(la, TRUE) = Verdict(9, la, TRUE)
        /\ MatchVariable(y, TRUE) = Verdict(9, y, TRUE)
    BY VerdictIs, Zenon
  <2>2. /\ Settles(MatchVariable(la, FALSE), MatchVariable(y, TRUE), Len(la)) /\ Within(MatchVariable(la, TRUE), Len(la))
        /\ EndsWithLine(MatchVariable(la, FALSE), la)
    BY VariableSettles, Zenon
  <2> QED BY <1>1, <2>1, <2>2, Zenon
<1>11. Fine(10)
  <2>1. /\ MatchComment(la, FALSE) = Verdict(10, la, FALSE) /\ MatchComment(la, TRUE) = Verdict(10, la, TRUE)
        /\ MatchComment(y, TRUE) = Verdict(10, y, TRUE)
    BY VerdictIs, Zenon
  <2>2. /\ Settles(MatchComment(la, FALSE), MatchComment(y, TRUE), Len(la)) /\ Within(MatchComment(la, TRUE), Len(la))
        /\ EndsWithLine(MatchComment(la, FALSE), la)
    BY CommentSettles, Zenon
  <2> QED BY <1>1, <2>1, <2>2, Zenon
<1>12. Fine(11)
  <2>1. /\ MatchSymbol(la, "|") = Verdict(11, la, FALSE) /\ MatchSymbol(la, "|") = Verdict(11, la, TRUE)
        /\ MatchSymbol(y, "|") = Verdict(11, y, TRUE)
    BY VerdictIs, Zenon
  <2>2. /\ Settles(MatchSymbol(la, "|"), MatchSymbol(y, "|"), Len(la)) /\ Within(MatchSymbol(la, "|"), Len(la))
        /\ MatchSymbol(la, "|").result # "LookaheadIsPrefix"
    BY SymbolSettles, Zenon
  <2> QED BY <1>0, <1>1, <2>1, <2>2, Zenon
<1>13. Fine(12)
  <2>1. /\ MatchSymbol(la, ";") = Verdict(12, la, FALSE) /\ MatchSymbol(la, ";") = Verdict(12, la, TRUE)
        /\ MatchSymbol(y, ";") = Verdict(12, y, TRUE)
    BY VerdictIs, Zenon
  <2>2. /\ Settles(MatchSymbol(la, ";"), MatchSymbol(y, ";"), Len(la)) /\ Within(MatchSymbol(la, ";"), Len(la))
        /\ MatchSymbol(la, ";").result # "LookaheadIsPrefix"
    BY SymbolSettles, Zenon
  <2> QED BY <1>0, <1>1, <2>1, <2>2, Zenon
<1>14. Fine(13)
  <2>1. /\ MatchSymbol(la, "=") = Verdict(13, la, FALSE) /\ MatchSymbol(la, "=") = Verdict(13, la, TRUE)
        /\ MatchSymbol(y, "=") = Verdict(13, y, TRUE)
    BY VerdictIs, Zenon
  <2>2. /\ Settles(MatchSymbol(la, "="), MatchSymbol(y, "="), Len(la)) /\ Within(MatchSymbol(la, "="), Len(la))
        /\ MatchSymbol(la, "=").result # "LookaheadIsPrefix"
    BY SymbolSettles, Zenon
  <2> QED BY <1>0, <1>1, <2>1, <2>2, Zenon
<1>15. Fine(14)
  BY VerdictIs, NewlineSettles, Zenon
<1>16. \/ i = 1 \/ i = 2 \/ i = 3 \/ i = 4 \/ i = 5 \/ i = 6 \/ i = 7 \/ i = 8 \/ i = 9 \/ i = 10 \/ i = 11 \/ i = 12
       \/ i = 13 \/ i = 14
  OBVIOUS
<1> HIDE DEF Fine
<1>17. Fine(i)
  BY <1>2, <1>3, <1>4, <1>5, <1>6, <1>7, <1>8, <1>9, <1>10, <1>11, <1>12, <1>13, <1>14, <1>15, <1>16
<1> QED BY <1>17, Zenon DEF Fine

----------------------------------------------------------------------------
(* The order of the matchers. *)

\* A text of letters alone may be the start of a command.
LEMMA LettersWait ==
  ASSUME NEW la \in Seq(Chars), Len(la) >= 1, \A k \in 1..Len(la) : la[k] \in Letters
  PROVE  MatchCommand(la, FALSE) = Prefix
<1> DEFINE L == Len(la)
<1>0. L \in Nat /\ L >= 1 /\ Letters \subseteq NameChars
  <2>1. L \in Nat
    OBVIOUS
  <2>2. L >= 1
    OBVIOUS
  <2>3. Letters \subseteq NameChars
    BY DEF NameChars
  <2> QED BY <2>1, <2>2, <2>3
<1> HIDE DEF L
<1>1. L \in Nat /\ 2 \in 1..L+1 /\ L+1 \in 2..L+1 /\ Letters \subseteq NameChars /\ L = Len(la) /\ 1 \in 1..L
  BY <1>0 DEF L
<1>2. ~(L + 1 <= L) /\ \A k \in 2..L+1-1 : la[k] \in NameChars
  <2>1. \A n \in Nat : ~(n + 1 <= n) /\ \A k \in 2..n+1-1 : k \in 1..n
    OBVIOUS
  <2>2. \A k \in 1..L : la[k] \in NameChars
    BY <1>1, Zenon
  <2> QED BY <1>1, <2>1, <2>2, Zenon
<1>3. RunEnd(la, 2, NameChars) = Len(la) + 1
  <2>1. PICK i \in 1..Len(la)+1, e \in 2..Len(la)+1 : i = 2 /\ e = Len(la) + 1
    BY <1>1, Zenon
  <2>2. e \in i..Len(la)+1 /\ ~(e <= Len(la)) /\ \A k \in i..e-1 : la[k] \in NameChars
    <3>1. e = L + 1 /\ Len(la) = L /\ e \in i..Len(la)+1
      BY <1>1, <2>1, Zenon
    <3>2. ~(e <= Len(la))
      BY <1>2, <3>1, Zenon
    <3>3. \A k \in i..e-1 : la[k] \in NameChars
      <4>1. i..e-1 = 2..L+1-1
        BY <2>1, <3>1
      <4> QED BY <1>2, <4>1, Zenon
    <3> QED BY <3>1, <3>2, <3>3, Zenon
  <2>3. RunEnd(la, i, NameChars) = e
    BY <2>2, RunEndUnique, Zenon
  <2> QED BY <2>1, <2>3, Zenon
<1>4. RunEnd(la, 2, NameChars) > Len(la)
  BY <1>1, <1>3
<1>5. la[1] \in CommandStarts
  BY <1>1 DEF CommandStarts
<1>6. Named(la, FALSE, CommandStarts, Letters \cup {"_"}) = UpToTheEnd(la, FALSE)
  BY <1>4, <1>5, Zenon DEF Named
<1> QED BY <1>6, CommandIs, EndsAre, Zenon

\* Which matchers a character can be the start for.
FirstKind(c) ==
    IF c \in Newlines \cup Blanks THEN 2
    ELSE IF c \in Digits \cup {"-"} THEN 3
    ELSE IF c = "\"" THEN 4
    ELSE IF c = "t" THEN 5
    ELSE IF c = "f" THEN 6
    ELSE IF c = "n" THEN 7
    ELSE IF c \in VariableStarts THEN 9
    ELSE IF c \in CommandStarts THEN 8
    ELSE IF c = "/" THEN 10
    ELSE IF c = "|" THEN 11
    ELSE IF c = ";" THEN 12
    ELSE 13

\* Which kinds of token may begin with a character.
LEMMA FirstKindIs ==
  ASSUME NEW c
  PROVE  /\ c \in Newlines \cup Blanks => FirstKind(c) = 2
         /\ c \in Digits \cup {"-"} => FirstKind(c) = 3
         /\ c \in CommandStarts => FirstKind(c) \in {5, 6, 7, 8, 9}
         /\ c \in VariableStarts => FirstKind(c) = 9
         /\ c = "\"" => FirstKind(c) = 4
         /\ c = "t" => FirstKind(c) = 5
         /\ c = "f" => FirstKind(c) = 6
         /\ c = "n" => FirstKind(c) = 7
         /\ c = "/" => FirstKind(c) = 10
         /\ c = "|" => FirstKind(c) = 11
         /\ c = ";" => FirstKind(c) = 12
         /\ c = "=" => FirstKind(c) = 13
  BY DEF FirstKind, Newlines, Blanks, Digits, VariableStarts, CommandStarts, Letters

\* A matcher that waits for more comes after those that have matched.
LEMMA WaitingComesLast ==
  ASSUME NEW la \in Seq(Chars), Len(la) >= 1, NEW i \in 1..14, NEW j \in 1..14,
         Verdict(i, la, FALSE).result = "Matches", Verdict(j, la, FALSE).result = "LookaheadIsPrefix"
  PROVE  i < j
<1> DEFINE R(n) == Verdict(n, la, FALSE).result
           Live(n) == R(n) \in {"Matches", "LookaheadIsPrefix"}
<1>1. Begins(la, la)
  <2>1. Len(la) \in Nat
    OBVIOUS
  <2> QED BY <2>1 DEF Begins
<1>2. PICK c \in Chars : c = la[1]
  <2>1. 1 \in 1..Len(la)
    OBVIOUS
  <2> QED BY <2>1
<1>3. /\ R(1) = "Matches" /\ R(11) # "LookaheadIsPrefix" /\ R(12) # "LookaheadIsPrefix" /\ R(13) # "LookaheadIsPrefix"
      /\ Live(11) => c = "|"
      /\ Live(12) => c = ";"
      /\ Live(13) => c = "="
  <2>1. /\ Verdict(1, la, FALSE) = MatchCharacter(la) /\ Verdict(11, la, FALSE) = MatchSymbol(la, "|")
        /\ Verdict(12, la, FALSE) = MatchSymbol(la, ";") /\ Verdict(13, la, FALSE) = MatchSymbol(la, "=")
    BY VerdictIs, Zenon
  <2>2. ASSUME NEW d PROVE /\ MatchSymbol(la, d).result # "LookaheadIsPrefix" /\ MatchCharacter(la).result = "Matches"
                           /\ MatchSymbol(la, d).result # "LookaheadCannotMatch" => la[1] = d
    BY <1>1, SymbolSettles
  <2> QED BY <1>2, <2>1, <2>2
<1>4. Live(2) => c \in Newlines \cup Blanks
  <2>1. Verdict(2, la, FALSE) = MatchWhitespace(la, FALSE)
    BY VerdictIs, Zenon
  <2>2. MatchWhitespace(la, FALSE).result # "LookaheadCannotMatch" => la[1] \in Newlines \cup Blanks
    BY <1>1, WhitespaceSettles, Zenon
  <2> QED BY <1>2, <2>1, <2>2
<1>5. Live(3) => c \in Digits \cup {"-"}
  <2>1. Verdict(3, la, FALSE) = MatchNumber(la, FALSE)
    BY VerdictIs, Zenon
  <2>2. MatchNumber(la, FALSE).result # "LookaheadCannotMatch" => la[1] \in Digits \cup {"-"}
    BY <1>1, NumberSettles, Zenon
  <2> QED BY <1>2, <2>1, <2>2
<1>6. Live(4) => c = "\""
  <2>1. Verdict(4, la, FALSE) = MatchString(la, FALSE)
    BY VerdictIs, Zenon
  <2>2. MatchString(la, FALSE).result # "LookaheadCannotMatch" => la[1] = "\""
    BY <1>1, StringSettles, Zenon
  <2> QED BY <1>2, <2>1, <2>2
<1>7. Live(5) => c = "t"
  <2>1. Verdict(5, la, FALSE) = MatchKeyword(la, <<"t", "r", "u", "e">>)
    BY VerdictIs, Zenon
  <2> QED BY <1>1, <1>2, <2>1, KeywordStarts, Zenon
<1>8. Live(6) => c = "f"
  <2>1. Verdict(6, la, FALSE) = MatchKeyword(la, <<"f", "a", "l", "s", "e">>)
    BY VerdictIs, Zenon
  <2> QED BY <1>1, <1>2, <2>1, KeywordStarts, Zenon
<1>9. Live(7) => c = "n"
  <2>1. Verdict(7, la, FALSE) = MatchKeyword(la, <<"n", "u", "l", "l">>)
    BY VerdictIs, Zenon
  <2> QED BY <1>1, <1>2, <2>1, KeywordStarts, Zenon
<1>10. Live(8) => c \in CommandStarts
  <2>1. Verdict(8, la, FALSE) = MatchCommand(la, FALSE)
    BY VerdictIs, Zenon
  <2>2. MatchCommand(la, FALSE).result # "LookaheadCannotMatch" => la[1] \in CommandStarts
    BY <1>1, CommandSettles, Zenon
  <2> QED BY <1>2, <2>1, <2>2
<1>11. Live(9) => c \in VariableStarts
  <2>1. Verdict(9, la, FALSE) = MatchVariable(la, FALSE)
    BY VerdictIs, Zenon
  <2>2. MatchVariable(la, FALSE).result # "LookaheadCannotMatch" => la[1] \in VariableStarts
    BY <1>1, VariableSettles, Zenon
  <2> QED BY <1>2, <2>1, <2>2
<1>12. Live(10) => c = "/"
  <2>1. Verdict(10, la, FALSE) = MatchComment(la, FALSE)
    BY VerdictIs, Zenon
  <2>2. MatchComment(la, FALSE).result # "LookaheadCannotMatch" => la[1] = "/"
    BY <1>1, CommentSettles, Zenon
  <2> QED BY <1>2, <2>1, <2>2
<1>13. Live(14) => c \in Newlines \cup Blanks
  <2>1. Verdict(14, la, FALSE) = MatchNewline(la, FALSE)
    BY VerdictIs, Zenon
  <2>2. MatchNewline(la, FALSE).result # "LookaheadCannotMatch" => la[1] \in Newlines \cup Blanks
    BY <1>1, NewlineSettles, Zenon
  <2> QED BY <1>2, <2>1, <2>2
<1>14. R(2) = "LookaheadIsPrefix" => R(14) = "LookaheadIsPrefix"
  <2>1. MatchWhitespace(la, FALSE).result = "LookaheadIsPrefix" => MatchNewline(la, FALSE) = MatchWhitespace(la, FALSE)
    BY Zenon DEF MatchNewline
  <2> QED BY <2>1, VerdictIs, Zenon
<1>15. ASSUME NEW word, IsWord(word), MatchKeyword(la, word).result = "LookaheadIsPrefix"
       PROVE  R(8) = "LookaheadIsPrefix"
  <2>1. Len(la) < Len(word) /\ \A k \in 1..Len(la) : la[k] = word[k]
    BY <1>15, KeywordIs
  <2>2. \A k \in 1..Len(la) : la[k] \in Letters
    <3>1. Len(la) \in Nat /\ Len(word) \in Nat /\ \A k \in 1..Len(word) : word[k] \in Letters
      BY <1>15 DEF IsWord
    <3>2. \A k \in 1..Len(la) : k \in 1..Len(word)
      BY <2>1, <3>1
    <3> QED BY <2>1, <3>1, <3>2
  <2>3. MatchCommand(la, FALSE) = Prefix
    BY <2>2, LettersWait
  <2>4. Verdict(8, la, FALSE) = MatchCommand(la, FALSE)
    BY VerdictIs, Zenon
  <2> QED BY <2>3, <2>4, VerdictsAre
<1>16. R(5) = "LookaheadIsPrefix" \/ R(6) = "LookaheadIsPrefix" \/ R(7) = "LookaheadIsPrefix" => R(8) = "LookaheadIsPrefix"
  <2>1. IsWord(<<"t", "r", "u", "e">>) /\ IsWord(<<"f", "a", "l", "s", "e">>) /\ IsWord(<<"n", "u", "l", "l">>)
    BY WordsAre, Zenon
  <2>2. /\ Verdict(5, la, FALSE) = MatchKeyword(la, <<"t", "r", "u", "e">>)
        /\ Verdict(6, la, FALSE) = MatchKeyword(la, <<"f", "a", "l", "s", "e">>)
        /\ Verdict(7, la, FALSE) = MatchKeyword(la, <<"n", "u", "l", "l">>)
    BY VerdictIs, Zenon
  <2> QED BY <1>15, <2>1, <2>2, Zenon
<1>17. R(8) = "LookaheadIsPrefix" /\ c \in VariableStarts => R(9) = "LookaheadIsPrefix"
  <2> SUFFICES ASSUME R(8) = "LookaheadIsPrefix", c \in VariableStarts PROVE R(9) = "LookaheadIsPrefix"
    OBVIOUS
  <2>1. RunEnd(la, 2, NameChars) > Len(la)
    <3>1. Verdict(8, la, FALSE) = MatchCommand(la, FALSE)
      BY VerdictIs, Zenon
    <3>2. MatchCommand(la, FALSE).result = "LookaheadIsPrefix" => RunEnd(la, 2, NameChars) > Len(la)
      BY <1>1, CommandSettles, Zenon
    <3> QED BY <3>1, <3>2, Zenon
  <2>2. MatchVariable(la, FALSE) = Prefix
    <3>1. RunEnd(la, 2, NameChars) > Len(la) /\ la[1] \in VariableStarts => MatchVariable(la, FALSE) = Prefix
      BY <1>1, VariableSettles, Zenon
    <3> QED BY <1>2, <2>1, <3>1, Zenon
  <2>3. Verdict(9, la, FALSE) = MatchVariable(la, FALSE)
    BY VerdictIs, Zenon
  <2> QED BY <2>2, <2>3, VerdictsAre
<1>18. R(i) = "Matches" /\ R(j) = "LookaheadIsPrefix" /\ Live(i) /\ Live(j) /\ i # j
  BY Zenon
<1> HIDE DEF R
<1>19. /\ j \notin {1, 11, 12, 13}
       /\ i = 14 => j # 2
       /\ i = 8 => j \notin {5, 6, 7}
       /\ i = 9 => j # 8
  BY <1>3, <1>11, <1>14, <1>16, <1>17, <1>18
<1>20. /\ c \in Newlines \cup Blanks => FirstKind(c) = 2
       /\ c \in Digits \cup {"-"} => FirstKind(c) = 3
       /\ c \in CommandStarts => FirstKind(c) \in {5, 6, 7, 8, 9}
       /\ c \in VariableStarts => FirstKind(c) = 9
       /\ c = "\"" => FirstKind(c) = 4
       /\ c = "t" => FirstKind(c) = 5
       /\ c = "f" => FirstKind(c) = 6
       /\ c = "n" => FirstKind(c) = 7
       /\ c = "/" => FirstKind(c) = 10
       /\ c = "|" => FirstKind(c) = 11
       /\ c = ";" => FirstKind(c) = 12
       /\ c = "=" => FirstKind(c) = 13
  BY FirstKindIs
<1> PICK K : K = FirstKind(c)
  OBVIOUS
<1>21. ASSUME NEW n \in 1..14, Live(n)
       PROVE  /\ n = 2 \/ n = 14 => K = 2
              /\ n \in {3, 4, 5, 6, 7, 9, 10, 11, 12, 13} => K = n
              /\ n = 8 => K \in {5, 6, 7, 8, 9}
  <2> HIDE DEF Live
  <2>1. n = 2 \/ n = 14 => K = 2
    BY <1>4, <1>13, <1>20, <1>21
  <2>2. /\ n = 3 => K = 3
        /\ n = 4 => K = 4
        /\ n = 5 => K = 5
        /\ n = 6 => K = 6
        /\ n = 7 => K = 7
    <3>1. n = 3 => K = 3
      BY <1>5, <1>20, <1>21
    <3>2. n = 4 => K = 4
      BY <1>6, <1>20, <1>21
    <3>3. n = 5 => K = 5
      BY <1>7, <1>20, <1>21
    <3>4. n = 6 => K = 6
      BY <1>8, <1>20, <1>21
    <3>5. n = 7 => K = 7
      BY <1>9, <1>20, <1>21
    <3> QED BY <3>1, <3>2, <3>3, <3>4, <3>5
  <2>3. /\ n = 9 => K = 9
        /\ n = 10 => K = 10
        /\ n = 11 => K = 11
        /\ n = 12 => K = 12
        /\ n = 13 => K = 13
    <3>1. n = 9 => K = 9
      BY <1>11, <1>20, <1>21
    <3>2. n = 10 => K = 10
      BY <1>12, <1>20, <1>21
    <3>3. n = 11 => K = 11
      BY <1>3, <1>20, <1>21
    <3>4. n = 12 => K = 12
      BY <1>3, <1>20, <1>21
    <3>5. n = 13 => K = 13
      BY <1>3, <1>20, <1>21
    <3> QED BY <3>1, <3>2, <3>3, <3>4, <3>5
  <2>5. n = 8 => K \in {5, 6, 7, 8, 9}
    BY <1>10, <1>20, <1>21
  <2> QED BY <2>1, <2>2, <2>3, <2>5
<1> HIDE DEF Live
<1>22. /\ i = 2 \/ i = 14 => K = 2
       /\ i \in {3, 4, 5, 6, 7, 9, 10, 11, 12, 13} => K = i
       /\ i = 8 => K \in {5, 6, 7, 8, 9}
  BY <1>18, <1>21
<1>23. /\ j = 2 \/ j = 14 => K = 2
       /\ j \in {3, 4, 5, 6, 7, 9, 10, 11, 12, 13} => K = j
       /\ j = 8 => K \in {5, 6, 7, 8, 9}
  BY <1>18, <1>21
<1> QED BY <1>18, <1>19, <1>22, <1>23

----------------------------------------------------------------------------
(* Matches are found in the order of the matchers. *)

\* How many of S come up to i.
Rank(S, i) == Cardinality({j \in S : j <= i})

\* Ranks are counted from one, and rise with the matchers.
LEMMA RankIs ==
  ASSUME NEW S \in SUBSET (1..14)
  PROVE  /\ IsFiniteSet(S) /\ Cardinality(S) \in Nat
         /\ \A i \in 1..14 : Rank(S, i) \in 0..Cardinality(S)
         /\ \A i \in S : Rank(S, i) \in 1..Cardinality(S)
         /\ \A i \in 1..14, j \in S : i < j => Rank(S, i) < Rank(S, j)
         /\ \A i \in 1..14 : (\A j \in S : j <= i) => Rank(S, i) = Cardinality(S)
<1>0. \A m \in S : m \in 1..14
  OBVIOUS
<1>1. IsFiniteSet(1..14)
  <2>1. 1 \in Int /\ 14 \in Int
    OBVIOUS
  <2> QED BY <2>1, FS_Interval, Zenon
<1>2. ASSUME NEW T \in SUBSET (1..14) PROVE IsFiniteSet(T) /\ Cardinality(T) \in Nat
  BY <1>1, FS_Subset, FS_CardinalityType
<1>3. \A i \in 1..14 : Rank(S, i) \in 0..Cardinality(S)
  <2> SUFFICES ASSUME NEW i \in 1..14 PROVE Rank(S, i) \in 0..Cardinality(S)
    OBVIOUS
  <2>1. {j \in S : j <= i} \in SUBSET S
    OBVIOUS
  <2>2. Cardinality({j \in S : j <= i}) \in Nat /\ Cardinality(S) \in Nat
    BY <1>2
  <2>3. Cardinality({j \in S : j <= i}) <= Cardinality(S)
    BY <1>2, <2>1, FS_Subset
  <2> QED BY <2>2, <2>3 DEF Rank
<1>4. ASSUME NEW i \in 1..14, NEW j \in S, i < j PROVE Rank(S, i) < Rank(S, j)
  <2> DEFINE A == {m \in S : m <= i}
             B == {m \in S : m <= j}
  <2>0. i \in 1..14 /\ j \in 1..14 /\ j <= j /\ ~(j <= i) /\ \A m \in 1..14 : m <= i => m <= j
    BY <1>0, <1>4
  <2>1. A \in SUBSET B /\ j \in B /\ j \notin A /\ B \in SUBSET (1..14)
    BY <1>0, <1>4, <2>0
  <2>2. IsFiniteSet(B) /\ Cardinality(A) \in Nat /\ Cardinality(B) \in Nat
    BY <1>2, <2>1
  <2> HIDE DEF A, B
  <2>3. Cardinality(A) <= Cardinality(B) /\ Cardinality(A) # Cardinality(B)
    BY <2>1, <2>2, FS_Subset
  <2>4. Cardinality(A) < Cardinality(B)
    BY <2>2, <2>3
  <2> QED BY <2>4 DEF Rank, A, B
<1>5. ASSUME NEW i \in S PROVE Rank(S, i) \in 1..Cardinality(S)
  <2> DEFINE A == {m \in S : m <= i}
  <2>0. i \in 1..14 /\ i <= i
    BY <1>0
  <2>1. A \in SUBSET (1..14) /\ i \in A
    BY <1>0, <2>0
  <2>2. Cardinality(A) # 0
    BY <1>2, <2>1, FS_EmptySet
  <2>3. Cardinality(A) \in 0..Cardinality(S) /\ Cardinality(S) \in Nat
    BY <1>2, <1>3 DEF Rank
  <2> HIDE DEF A
  <2>4. Cardinality(A) \in 1..Cardinality(S)
    BY <2>2, <2>3
  <2> QED BY <2>4 DEF Rank, A
<1>6. ASSUME NEW i \in 1..14, \A j \in S : j <= i PROVE Rank(S, i) = Cardinality(S)
  <2>1. {j \in S : j <= i} = S
    BY <1>6
  <2> QED BY <2>1 DEF Rank
<1> QED BY <1>2, <1>3, <1>4, <1>5, <1>6

\* Nth is the inverse of Rank.
LEMMA NthIs ==
  ASSUME NEW S \in SUBSET (1..14)
  PROVE  /\ \A k \in 1..Cardinality(S) : Nth(S, k) \in S /\ Rank(S, Nth(S, k)) = k
         /\ \A i \in S : Nth(S, Rank(S, i)) = i
<1> DEFINE n == Cardinality(S)
           f == [i \in S |-> Rank(S, i)]
<1>1. /\ IsFiniteSet(S) /\ n \in Nat /\ \A i \in S : Rank(S, i) \in 1..n
      /\ \A i \in 1..14, j \in S : i < j => Rank(S, i) < Rank(S, j)
  BY RankIs
<1>2. ASSUME NEW i \in S, NEW j \in S, Rank(S, i) = Rank(S, j) PROVE i = j
  <2>1. Rank(S, i) \in 1..n /\ ~(i < j) /\ ~(j < i)
    BY <1>1, <1>2
  <2> QED BY <2>1
<1>3. IsFiniteSet(1..n) /\ Cardinality(1..n) = n
  BY <1>1, FS_Interval
<1>4. f \in Injection(S, 1..n)
  BY <1>1, <1>2 DEF Injection, IsInjective
<1> HIDE DEF f
<1>5. f \in Surjection(S, 1..n)
  <2>1. Cardinality(S) = Cardinality(1..n)
    BY <1>3
  <2> QED BY <1>3, <1>4, <2>1, FS_Injection
<1>6. ASSUME NEW k \in 1..n PROVE \E i \in S : Rank(S, i) = k
  BY <1>5 DEF Surjection, f
<1>7. ASSUME NEW k PROVE Nth(S, k) = CHOOSE i \in S : Rank(S, i) = k
  BY DEF Nth, Rank
<1>8. \A k \in 1..n : Nth(S, k) \in S /\ Rank(S, Nth(S, k)) = k
  BY <1>6, <1>7
<1>9. ASSUME NEW i \in S PROVE Nth(S, Rank(S, i)) = i
  <2>1. Rank(S, i) \in 1..n
    BY <1>1
  <2>2. Nth(S, Rank(S, i)) \in S /\ Rank(S, Nth(S, Rank(S, i))) = Rank(S, i)
    BY <1>8, <2>1
  <2> QED BY <1>2, <2>2
<1> QED BY <1>8, <1>9

\* The places in two sets, one before the other.
LEMMA NthJoined ==
  ASSUME NEW S \in SUBSET (1..14), NEW T \in SUBSET (1..14), \A i \in S, j \in T : i < j
  PROVE  /\ Cardinality(S \cup T) = Cardinality(S) + Cardinality(T)
         /\ \A k \in 1..Cardinality(S) : Nth(S \cup T, k) = Nth(S, k)
         /\ \A k \in 1..Cardinality(T) : Nth(S \cup T, Cardinality(S) + k) = Nth(T, k)
<1> DEFINE U == S \cup T
<1>1. U \in SUBSET (1..14) /\ S \cap T = {}
  OBVIOUS
<1>2. /\ IsFiniteSet(S) /\ IsFiniteSet(T) /\ Cardinality(S) \in Nat /\ Cardinality(T) \in Nat
      /\ Cardinality(S \cap T) = 0
  BY <1>1, RankIs, FS_EmptySet
<1>3. ASSUME NEW A \in SUBSET S, NEW B \in SUBSET T
      PROVE  Cardinality(A \cup B) = Cardinality(A) + Cardinality(B)
  <2>1. /\ A \cap B = {} /\ IsFiniteSet(A) /\ IsFiniteSet(B)
        /\ Cardinality(A) \in Nat /\ Cardinality(B) \in Nat
    <3>1. A \in SUBSET (1..14) /\ B \in SUBSET (1..14)
      OBVIOUS
    <3> QED BY <1>1, <3>1, RankIs
  <2>2. Cardinality(A \cup B) = Cardinality(A) + Cardinality(B) - Cardinality(A \cap B)
    BY <2>1, FS_Union
  <2>3. Cardinality(A \cap B) = 0
    BY <2>1, FS_EmptySet
  <2> QED BY <2>1, <2>2, <2>3
<1>4. Cardinality(U) = Cardinality(S) + Cardinality(T)
  BY <1>3
<1>5. ASSUME NEW i \in S PROVE Rank(U, i) = Rank(S, i)
  <2>1. {j \in U : j <= i} = {j \in S : j <= i}
    <3>1. \A j \in T : i \in 1..14 /\ j \in 1..14 /\ ~(j <= i)
      OBVIOUS
    <3> QED BY <3>1, Zenon
  <2> QED BY <2>1 DEF Rank
<1>6. ASSUME NEW i \in T PROVE Rank(U, i) = Cardinality(S) + Rank(T, i)
  <2>1. {j \in U : j <= i} = S \cup {j \in T : j <= i}
    <3>1. \A j \in S : i \in 1..14 /\ j \in 1..14 /\ j <= i
      OBVIOUS
    <3> QED BY <3>1, Zenon
  <2>2. {j \in T : j <= i} \in SUBSET T /\ S \in SUBSET S
    OBVIOUS
  <2>3. Cardinality(S \cup {j \in T : j <= i}) = Cardinality(S) + Cardinality({j \in T : j <= i})
    BY <1>3, <2>2
  <2> QED BY <2>1, <2>3 DEF Rank
<1> HIDE DEF U
<1>7. ASSUME NEW k \in 1..Cardinality(S) PROVE Nth(U, k) = Nth(S, k)
  <2>1. Nth(S, k) \in S /\ Rank(S, Nth(S, k)) = k
    BY NthIs
  <2>2. Nth(S, k) \in U /\ Rank(U, Nth(S, k)) = k
    BY <1>5, <2>1 DEF U
  <2> QED BY <1>1, <2>2, NthIs
<1>8. ASSUME NEW k \in 1..Cardinality(T) PROVE Nth(U, Cardinality(S) + k) = Nth(T, k)
  <2>1. Nth(T, k) \in T /\ Rank(T, Nth(T, k)) = k
    BY NthIs
  <2>2. Nth(T, k) \in U /\ Rank(U, Nth(T, k)) = Cardinality(S) + k
    BY <1>6, <2>1 DEF U
  <2> QED BY <1>1, <2>2, NthIs
<1> QED BY <1>4, <1>7, <1>8 DEF U

----------------------------------------------------------------------------
(* The matches of a text that is there in full. *)

\* The matchers of a language that have a token at the front of a text, ...
Winners(L, y) == {i \in DOMAIN L : Verdict(i, y, TRUE).result = "Matches"}
\* ... and the matches that those in S find, in order.
Found(y, S) ==
    [k \in 1..Cardinality(S) |-> [token |-> CommandMatchers[Nth(S, k)], length |-> Verdict(Nth(S, k), y, TRUE).length]]

\* The matches of one set of matchers and then those of another.
LEMMA FoundJoined ==
  ASSUME NEW y, NEW S \in SUBSET (1..14), NEW T \in SUBSET (1..14), \A i \in S, j \in T : i < j
  PROVE  Found(y, S) \o Found(y, T) = Found(y, S \cup T)
<1> DEFINE m == Cardinality(S)
           n == Cardinality(T)
           Entry(i) == [token |-> CommandMatchers[i], length |-> Verdict(i, y, TRUE).length]
           All == {Entry(i) : i \in 1..14}
<1>1. /\ m \in Nat /\ n \in Nat /\ Cardinality(S \cup T) = m + n
      /\ \A k \in 1..m : Nth(S \cup T, k) = Nth(S, k)
      /\ \A k \in 1..n : Nth(S \cup T, m + k) = Nth(T, k)
  BY RankIs, NthJoined
<1>2. /\ \A k \in 1..m : Nth(S, k) \in 1..14
      /\ \A k \in 1..n : Nth(T, k) \in 1..14
      /\ \A k \in 1..m + n : Nth(S \cup T, k) \in 1..14
  <2>1. S \cup T \in SUBSET (1..14)
    OBVIOUS
  <2> QED BY <1>1, <2>1, NthIs
<1>3. /\ Found(y, S) = [k \in 1..m |-> Entry(Nth(S, k))] /\ Found(y, T) = [k \in 1..n |-> Entry(Nth(T, k))]
      /\ Found(y, S \cup T) = [k \in 1..m + n |-> Entry(Nth(S \cup T, k))]
  BY <1>1, Zenon DEF Found
<1> HIDE DEF m, n, Entry
<1>4. /\ Found(y, S) \in Seq(All) /\ Len(Found(y, S)) = m
      /\ Found(y, T) \in Seq(All) /\ Len(Found(y, T)) = n
      /\ Found(y, S \cup T) \in Seq(All) /\ Len(Found(y, S \cup T)) = m + n
  <2>1. ASSUME NEW p \in Nat, NEW f, \A k \in 1..p : f[k] \in 1..14
        PROVE  /\ [k \in 1..p |-> Entry(f[k])] \in Seq(All) /\ Len([k \in 1..p |-> Entry(f[k])]) = p
    BY <2>1
  <2> HIDE DEF All
  <2>2. \A R \in SUBSET (1..14), p \in Nat :
           (\A k \in 1..p : Nth(R, k) \in 1..14) =>
             /\ [k \in 1..p |-> Entry(Nth(R, k))] \in Seq(All)
             /\ Len([k \in 1..p |-> Entry(Nth(R, k))]) = p
    <3> SUFFICES ASSUME NEW R \in SUBSET (1..14), NEW p \in Nat, \A k \in 1..p : Nth(R, k) \in 1..14
                 PROVE  /\ [k \in 1..p |-> Entry(Nth(R, k))] \in Seq(All)
                        /\ Len([k \in 1..p |-> Entry(Nth(R, k))]) = p
      OBVIOUS
    <3> DEFINE f == [k \in 1..p |-> Nth(R, k)]
    <3>1. \A k \in 1..p : f[k] \in 1..14 /\ Entry(f[k]) = Entry(Nth(R, k))
      OBVIOUS
    <3>2. [k \in 1..p |-> Entry(f[k])] = [k \in 1..p |-> Entry(Nth(R, k))]
      BY <3>1, Zenon
    <3> HIDE DEF f
    <3> QED BY <2>1, <3>1, <3>2
  <2>3. S \cup T \in SUBSET (1..14) /\ m + n \in Nat
    BY <1>1
  <2> QED BY <1>1, <1>2, <1>3, <2>2, <2>3
<1>5. PICK a \in Seq(All), b \in Seq(All), c \in Seq(All) : a = Found(y, S) /\ b = Found(y, T) /\ c = Found(y, S \cup T)
  BY <1>4
<1>6. /\ Len(a) = m /\ Len(b) = n /\ Len(c) = m + n
      /\ \A k \in 1..m : a[k] = Entry(Nth(S, k))
      /\ \A k \in 1..n : b[k] = Entry(Nth(T, k))
      /\ \A k \in 1..m + n : c[k] = Entry(Nth(S \cup T, k))
  BY <1>3, <1>4, <1>5
<1> HIDE DEF All
<1>7. /\ a \o b \in Seq(All) /\ Len(a \o b) = m + n
      /\ \A k \in 1..m : (a \o b)[k] = a[k]
      /\ \A k \in 1..n : (a \o b)[m + k] = b[k]
  <2>1. /\ a \o b \in Seq(All) /\ Len(a \o b) = Len(a) + Len(b)
        /\ \A k \in 1..Len(a) : (a \o b)[k] = a[k]
        /\ \A k \in 1..Len(b) : (a \o b)[Len(a) + k] = b[k]
    BY JoinIs
  <2> QED BY <1>6, <2>1
<1>8. ASSUME NEW k \in 1..m + n PROVE (a \o b)[k] = c[k]
  <2>1. CASE k \in 1..m
    BY <1>1, <1>6, <1>7, <2>1
  <2>2. CASE k \notin 1..m
    <3>1. PICK p \in 1..n : k = m + p
      <4>1. k - m \in 1..n /\ k = m + (k - m)
        BY <1>1, <2>2
      <4> QED BY <4>1
    <3> QED BY <1>1, <1>6, <1>7, <3>1
  <2> QED BY <2>1, <2>2
<1>9. a \o b = c
  BY <1>6, <1>7, <1>8, SeqEqual
<1> QED BY <1>5, <1>9

\* A language is the command language or the front of it.
LEMMA LanguageIs ==
  ASSUME NEW L \in {JsonMatchers, CommandMatchers}
  PROVE  /\ DOMAIN L \in SUBSET (1..14) /\ 1 \in DOMAIN L
         /\ \A i \in DOMAIN L : L[i] = CommandMatchers[i]
         /\ \A i \in DOMAIN L : L[i] = "String" <=> i = 4
<1>1. /\ DOMAIN L \in SUBSET (1..14) /\ 1 \in DOMAIN L
      /\ \A i \in DOMAIN L : L[i] = CommandMatchers[i]
  BY MatchersAre
<1>2. \A i \in 1..14 : CommandMatchers[i] = "String" <=> i = 4
  BY MatchersAre
<1> QED BY <1>1, <1>2

\* The winners of a text that is not empty: any character is a token.
LEMMA WinnersAre ==
  ASSUME NEW L \in {JsonMatchers, CommandMatchers}, NEW y \in Seq(Chars), Len(y) >= 1
  PROVE  /\ Winners(L, y) \in SUBSET (1..14) /\ Winners(L, y) # {} /\ Winners(L, y) \subseteq DOMAIN L
         /\ \A i \in Winners(L, y) : Verdict(i, y, TRUE).length \in 1..Len(y)
<1>1. Begins(y, y)
  <2>1. Len(y) \in Nat
    OBVIOUS
  <2> QED BY <2>1 DEF Begins
<1>2. Winners(L, y) \subseteq DOMAIN L /\ \A i \in Winners(L, y) : Verdict(i, y, TRUE).result = "Matches"
  BY Zenon DEF Winners
<1>3. Winners(L, y) \in SUBSET (1..14) /\ 1 \in DOMAIN L
  BY <1>2, LanguageIs
<1>4. 1 \in Winners(L, y)
  <2>1. Verdict(1, y, TRUE) = MatchCharacter(y)
    BY VerdictIs, Zenon
  <2>2. MatchCharacter(y).result = "Matches"
    BY <1>1, SymbolSettles
  <2> QED BY <1>3, <2>1, <2>2, Zenon DEF Winners
<1>5. ASSUME NEW i \in Winners(L, y) PROVE Verdict(i, y, TRUE).length \in 1..Len(y)
  <2>1. i \in 1..14 /\ Verdict(i, y, TRUE).result = "Matches"
    BY <1>2, <1>3
  <2>2. Within(Verdict(i, y, TRUE), Len(y))
    BY <1>1, <2>1, VerdictSettles
  <2> QED BY <2>1, <2>2 DEF Within
<1> QED BY <1>2, <1>3, <1>4, <1>5

\* The last of the longest, in a set of matchers with lengths.
LEMMA LastLongest ==
  ASSUME NEW S \in SUBSET (1..14), S # {}, NEW n \in Nat, NEW size, \A i \in S : size[i] \in 1..n
  PROVE  \E i \in S : \A j \in S : size[j] < size[i] \/ (size[j] = size[i] /\ j <= i)
<1> DEFINE Sizes == {size[i] : i \in S}
<1>1. Sizes \subseteq 1..n /\ Sizes # {}
  OBVIOUS
<1>2. PICK m \in 1..n : m \in Sizes /\ \A k \in Sizes : k <= m
  <2> DEFINE D == {n - k : k \in Sizes}
  <2>1. D \subseteq Nat /\ D # {}
    <3>1. \A k \in Sizes : k \in 1..n /\ n - k \in Nat
      BY <1>1
    <3> HIDE DEF Sizes
    <3> QED BY <1>1, <3>1
  <2>2. PICK d \in D : \A e \in D : d <= e
    BY <2>1, MinIs
  <2> HIDE DEF Sizes
  <2>3. PICK m \in Sizes : d = n - m
    BY <2>2
  <2>4. ASSUME NEW k \in Sizes PROVE k <= m
    <3>1. n - m <= n - k /\ k \in 1..n /\ m \in 1..n
      BY <1>1, <2>2, <2>3
    <3> QED BY <3>1
  <2> QED BY <1>1, <2>3, <2>4
<1> DEFINE T == {14 - i : i \in {j \in S : size[j] = m}}
<1>3. T \subseteq Nat /\ T # {}
  <2>1. \A i \in S : i \in 1..14 /\ 14 - i \in Nat
    OBVIOUS
  <2>2. PICK i \in S : size[i] = m
    BY <1>2
  <2> QED BY <2>1, <2>2
<1>4. PICK t \in T : \A u \in T : t <= u
  BY <1>3, MinIs
<1>5. PICK i \in S : size[i] = m /\ t = 14 - i
  BY <1>4
<1>6. ASSUME NEW j \in S PROVE size[j] < size[i] \/ (size[j] = size[i] /\ j <= i)
  <2>1. size[j] <= m /\ size[j] \in 1..n
    BY <1>2
  <2>2. CASE size[j] = m
    <3>1. 14 - i <= 14 - j /\ i \in 1..14 /\ j \in 1..14
      BY <1>4, <1>5, <2>2
    <3> QED BY <1>5, <2>2, <3>1
  <2>3. CASE size[j] # m
    BY <1>5, <2>1, <2>3
  <2> QED BY <2>2, <2>3
<1> QED BY <1>6

\* The longest of the matches found is the token of the whole text.
LEMMA LongestIs ==
  ASSUME NEW L \in {JsonMatchers, CommandMatchers}, NEW y \in Seq(Chars), Len(y) >= 1
  PROVE  /\ Found(y, Winners(L, y)) # <<>>
         /\ Longest(Found(y, Winners(L, y))) = WholeMatch(L, y)
         /\ \E i \in Winners(L, y) : WholeMatch(L, y) = [token |-> CommandMatchers[i], length |-> Verdict(i, y, TRUE).length]
<1> DEFINE W == Winners(L, y)
           n == Cardinality(W)
           F == Found(y, W)
           size == [i \in W |-> Verdict(i, y, TRUE).length]
           Foremost(i) == \A j \in W : size[j] < size[i] \/ (size[j] = size[i] /\ j <= i)
           Entry(i) == [token |-> CommandMatchers[i], length |-> size[i]]
           Best(k) == \A j \in 1..n : F[j].length < F[k].length \/ (F[j].length = F[k].length /\ j <= k)
<1>1. /\ W \in SUBSET (1..14) /\ W # {} /\ W \subseteq DOMAIN L
      /\ \A i \in W : size[i] \in 1..Len(y) /\ size[i] = Verdict(i, y, TRUE).length
  BY WinnersAre
<1>2. Len(y) \in Nat /\ n \in Nat /\ \A i \in W : i \in 1..14 /\ size[i] \in Nat
  <2>1. Len(y) \in Nat
    OBVIOUS
  <2>2. n \in Nat
    BY <1>1, RankIs
  <2> HIDE DEF n, size, W
  <2>3. \A i \in W : i \in 1..14
    BY <1>1
  <2>4. \A i \in W : size[i] \in Nat
    <3>1. \A k \in 1..Len(y) : k \in Nat
      BY <2>1
    <3>2. \A i \in W : size[i] \in 1..Len(y)
      BY <1>1, Zenon
    <3> QED BY <3>1, <3>2, Zenon
  <2> QED BY <2>1, <2>2, <2>3, <2>4
<1>3. /\ \A k \in 1..n : Nth(W, k) \in W /\ Rank(W, Nth(W, k)) = k
      /\ \A i \in W : Nth(W, Rank(W, i)) = i /\ Rank(W, i) \in 1..n
      /\ \A i \in 1..14, j \in W : i < j => Rank(W, i) < Rank(W, j)
  BY <1>1, NthIs, RankIs
<1>4. DOMAIN F = 1..n /\ \A k \in 1..n : F[k] = Entry(Nth(W, k))
  <2>1. F = [k \in 1..n |-> [token |-> CommandMatchers[Nth(W, k)], length |-> Verdict(Nth(W, k), y, TRUE).length]]
    BY Zenon DEF Found
  <2>2. \A k \in 1..n : size[Nth(W, k)] = Verdict(Nth(W, k), y, TRUE).length
    BY <1>1, <1>3
  <2> HIDE DEF F, n, W, size
  <2> QED BY <2>1, <2>2
<1> HIDE DEF W, n, F, size
<1>5. PICK l \in W : Foremost(l)
  BY <1>1, <1>2, LastLongest
<1>6. ASSUME NEW i \in W, Foremost(i) PROVE i = l
  <2>1. /\ size[l] < size[i] \/ (size[l] = size[i] /\ l <= i)
        /\ size[i] < size[l] \/ (size[i] = size[l] /\ i <= l)
        /\ size[i] \in Nat /\ size[l] \in Nat /\ i \in 1..14 /\ l \in 1..14
    BY <1>2, <1>5, <1>6
  <2> QED BY <2>1
<1>7. WholeMatch(L, y) = Entry(l)
  <2> DEFINE results == [i \in DOMAIN L |-> TryMatch(L[i], y, TRUE)]
             matched == {i \in DOMAIN L : results[i].result = "Matches"}
             longest == CHOOSE i \in matched : \A j \in matched :
                           \/ results[j].length < results[i].length
                           \/ results[j].length = results[i].length /\ j <= i
  <2>1. WholeMatch(L, y) = [token |-> L[longest], length |-> results[longest].length]
    BY Zenon DEF WholeMatch
  <2>2. \A i \in DOMAIN L : results[i] = Verdict(i, y, TRUE) /\ L[i] = CommandMatchers[i]
    <3>1. \A i \in DOMAIN L : L[i] = CommandMatchers[i]
      BY LanguageIs
    <3> QED BY <3>1, Zenon DEF Verdict
  <2> HIDE DEF results
  <2>3. matched = W
    BY <2>2, Zenon DEF Winners, W
  <2>4. \A i \in W : results[i].length = size[i]
    BY <1>1, <2>2
  <2>5. longest = CHOOSE i \in W : Foremost(i)
    <3>1. \A i \in W : (\A j \in W : results[j].length < results[i].length \/ (results[j].length = results[i].length /\ j <= i)) <=> Foremost(i)
      BY <2>4, Zenon
    <3> HIDE DEF Foremost, matched
    <3> QED BY <2>3, <3>1, Zenon
  <2> HIDE DEF longest, Foremost
  <2>6. longest = l
    BY <1>5, <1>6, <2>5, Zenon
  <2> QED BY <1>1, <2>1, <2>2, <2>4, <2>6
<1> HIDE DEF Foremost
<1>8. PICK k \in 1..n : k = Rank(W, l) /\ Nth(W, k) = l
  BY <1>3
<1>9. Best(k)
  <2> SUFFICES ASSUME NEW j \in 1..n PROVE F[j].length < F[k].length \/ (F[j].length = F[k].length /\ j <= k)
    OBVIOUS
  <2>1. PICK i \in W : i = Nth(W, j) /\ Rank(W, i) = j
    BY <1>3
  <2>2. F[j].length = size[i] /\ F[k].length = size[l]
    BY <1>4, <1>8, <2>1
  <2>3. size[i] < size[l] \/ (size[i] = size[l] /\ i <= l)
    BY <1>5 DEF Foremost
  <2>4. i <= l => j <= k
    <3>1. i \in 1..14 /\ l \in 1..14 /\ (i < l => j < k) /\ (i = l => j = k)
      BY <1>2, <1>3, <1>8, <2>1
    <3>2. j \in Nat /\ k \in Nat
      BY <1>2
    <3> QED BY <3>1, <3>2
  <2> QED BY <2>2, <2>3, <2>4
<1>10. ASSUME NEW m \in 1..n, Best(m) PROVE m = k
  <2>1. PICK a \in Nat, b \in Nat : a = F[m].length /\ b = F[k].length
    <3>1. Nth(W, m) \in W /\ F[m].length = size[Nth(W, m)] /\ F[k].length = size[l]
      BY <1>3, <1>4, <1>8
    <3> QED BY <1>2, <3>1
  <2>2. /\ a < b \/ (a = b /\ m <= k)
        /\ b < a \/ (b = a /\ k <= m)
    BY <1>9, <1>10, <2>1
  <2>3. m \in Nat /\ k \in Nat
    BY <1>2
  <2> QED BY <2>2, <2>3
<1>11. Longest(F) = F[CHOOSE m \in 1..n : Best(m)]
  BY <1>4, Zenon DEF Longest
<1> HIDE DEF Best
<1>12. (CHOOSE m \in 1..n : Best(m)) = k
  BY <1>9, <1>10, Zenon
<1>13. Longest(F) = Entry(l)
  BY <1>4, <1>8, <1>11, <1>12
<1>14. F # <<>>
  <2>1. k \in DOMAIN F /\ DOMAIN <<>> = {}
    BY <1>4, <1>8
  <2> QED BY <2>1
<1> QED BY <1>1, <1>7, <1>13, <1>14 DEF F, W

----------------------------------------------------------------------------
(* The invariant of the tokenizer. *)

\* The types of what is read and of where the tokenizer is.
TokenizerTyped ==
    /\ matchers \in {JsonMatchers, CommandMatchers}
    /\ stage \in Steps /\ open \in BOOLEAN /\ eof \in BOOLEAN
    /\ possible \subseteq DOMAIN matchers
    /\ chars \in Seq(Chars) /\ bytes \in Seq(Symbols) /\ reader_pending \in Seq(Symbols) /\ wire \in Seq(Symbols)
    /\ ~open => wire = <<>> /\ reader_pending = <<>>
    /\ stage = "match" => chars # <<>>
    /\ stage = "read" => ~eof
\* The characters that are not in the lookahead yet.
Coming == DecodeAll(bytes \o reader_pending \o wire).chars
\* The matchers that have a token at the front of the input.
Winning == Winners(matchers, Rest)

\* At the end of the input there is nothing to come, and the matches found so far are those that
\* the whole input has, of matchers that come before all that may still match.
MatchesAreWhole ==
    /\ eof /\ stage = "match" => Coming = <<>>
    /\ \A k \in DOMAIN matches : matches[k].length \in 1..Len(chars)
    /\ stage = "idle" => matches = <<>>
    /\ stage \in {"match", "read"} =>
          /\ matches = Found(Rest, Winning \ possible)
          /\ \A i \in Winning \ possible, j \in possible : i < j

TokenizerInv == TokenizerTyped /\ MatchesAreWhole /\ OnlyAStringWaitsForMore

\* What is to come is characters, and the rest begins with the lookahead.
LEMMA RestIs ==
  TokenizerTyped =>
    /\ Rest = chars \o Coming /\ Coming \in Seq(Chars) /\ Rest \in Seq(Chars)
    /\ bytes \o reader_pending \o wire \in Seq(Symbols)
    /\ chars # <<>> => Begins(chars, Rest) /\ Len(chars) >= 1 /\ Rest # <<>>
    /\ Coming = <<>> => Rest = chars
<1> SUFFICES ASSUME TokenizerTyped
             PROVE  /\ Rest = chars \o Coming /\ Coming \in Seq(Chars) /\ Rest \in Seq(Chars)
                    /\ bytes \o reader_pending \o wire \in Seq(Symbols)
                    /\ chars # <<>> => Begins(chars, Rest) /\ Len(chars) >= 1 /\ Rest # <<>>
                    /\ Coming = <<>> => Rest = chars
  OBVIOUS
<1>1. PICK c \in Seq(Chars), b \in Seq(Symbols), p \in Seq(Symbols), w \in Seq(Symbols) :
         c = chars /\ b = bytes /\ p = reader_pending /\ w = wire
  BY DEF TokenizerTyped
<1>2. (b \o p) \o w \in Seq(Symbols)
  <2>1. b \o p \in Seq(Symbols)
    BY JoinIs
  <2> QED BY <2>1, JoinIs
<1>3. bytes \o reader_pending \o wire \in Seq(Symbols)
  BY <1>1, <1>2
<1>4. Coming \in Seq(Chars)
  BY <1>3, DecodeType DEF Coming
<1>5. Rest = chars \o Coming
  BY Zenon DEF Rest, Coming
<1>6. PICK d \in Seq(Chars) : d = Coming
  BY <1>4
<1>7. /\ c \o d \in Seq(Chars) /\ Len(c \o d) = Len(c) + Len(d)
      /\ \A i \in 1..Len(c) : (c \o d)[i] = c[i]
  BY JoinIs
<1>8. Rest = c \o d
  BY <1>1, <1>5, <1>6
<1>9. ASSUME c # <<>> PROVE Begins(c, c \o d) /\ Len(c) >= 1 /\ c \o d # <<>>
  <2>1. Len(c) \in Nat /\ Len(d) \in Nat /\ Len(c) # 0
    BY <1>9
  <2>2. Len(c) >= 1 /\ Len(c) <= Len(c \o d) /\ Len(c \o d) # 0
    BY <1>7, <2>1
  <2>3. c \o d # <<>>
    BY <2>2
  <2> QED BY <1>7, <2>2, <2>3 DEF Begins
<1>10. d = <<>> => c \o d = c
  OBVIOUS
<1> QED BY <1>1, <1>3, <1>4, <1>5, <1>6, <1>7, <1>8, <1>9, <1>10

\* A round of matching: the results, who has not decided, who has a match, and all that is found.
Round(r, undecided, matched, found) ==
    /\ r = [i \in possible |-> TryMatch(matchers[i], chars, eof)]
    /\ ~\E i \in possible : r[i].result = "Panics"
    /\ undecided = {i \in possible : r[i].result = "LookaheadIsPrefix"}
    /\ matched = {i \in possible : r[i].result = "Matches"}
    /\ found = matches \o [k \in 1..Cardinality(matched) |->
                              [token |-> matchers[Nth(matched, k)], length |-> r[Nth(matched, k)].length]]

\* What a round of matching finds.
LEMMA RoundFinds ==
  ASSUME TokenizerInv, stage = "match", NEW r, NEW undecided, NEW matched, NEW found,
         Round(r, undecided, matched, found)
  PROVE  /\ \A k \in DOMAIN found : found[k].length \in 1..Len(chars)
         /\ ~eof => /\ found = Found(Rest, Winning \ undecided)
                    /\ \A i \in Winning \ undecided, j \in undecided : i < j
                    /\ \A j \in undecided : j # 4 => \A k \in 1..Len(chars) : chars[k] \notin Newlines
         /\ eof \/ undecided = {} => found = Found(Rest, Winning)
<1> USE DEF Round
<1> DEFINE W == Winning
           P == possible
           more == [k \in 1..Cardinality(matched) |->
                      [token |-> matchers[Nth(matched, k)], length |-> r[Nth(matched, k)].length]]
<1>1. /\ matchers \in {JsonMatchers, CommandMatchers} /\ P \subseteq DOMAIN matchers /\ eof \in BOOLEAN
      /\ chars \in Seq(Chars) /\ chars # <<>> /\ Len(chars) \in Nat
  BY DEF TokenizerInv, TokenizerTyped
<1>2. P \in SUBSET (1..14) /\ \A i \in P : matchers[i] = CommandMatchers[i] /\ i \in 1..14
  BY <1>1, LanguageIs
<1>3. PICK y : y = Rest
  OBVIOUS
<1>4. /\ Begins(chars, y) /\ y \in Seq(Chars) /\ Len(y) >= 1 /\ Len(y) \in Nat /\ Len(chars) >= 1
      /\ Coming = <<>> => y = chars
  <2>1. Begins(chars, y) /\ Len(chars) >= 1 /\ (Coming = <<>> => y = chars)
    BY <1>1, <1>3, RestIs DEF TokenizerInv
  <2> QED BY <2>1 DEF Begins
<1>5. /\ W \in SUBSET (1..14) /\ W \subseteq DOMAIN matchers
      /\ \A i \in W : Verdict(i, y, TRUE).length \in 1..Len(y)
      /\ W = {i \in DOMAIN matchers : Verdict(i, y, TRUE).result = "Matches"}
  <2>1. W = Winners(matchers, y)
    BY <1>3 DEF Winning
  <2> QED BY <1>1, <1>4, <2>1, WinnersAre DEF Winners
<1>6. /\ matches = Found(y, W \ P) /\ \A i \in W \ P, j \in P : i < j
      /\ \A k \in DOMAIN matches : matches[k].length \in 1..Len(chars)
      /\ eof => y = chars
  BY <1>3, <1>4 DEF TokenizerInv, MatchesAreWhole
<1>7. \A i \in P : r[i] = Verdict(i, chars, eof)
  BY <1>2, Zenon DEF Verdict
<1> HIDE DEF W, more
<1>8. \A i \in P : ~eof => r[i] = Verdict(i, chars, FALSE)
  BY <1>1, <1>7, Zenon
<1>9. \A i \in P : eof => r[i] = Verdict(i, y, TRUE)
  BY <1>1, <1>6, <1>7, Zenon
<1>10. ASSUME ~eof, NEW i \in P
       PROVE  /\ Settles(r[i], Verdict(i, y, TRUE), Len(chars))
              /\ i # 4 => EndsWithLine(r[i], chars)
  BY <1>2, <1>4, <1>8, <1>10, VerdictSettles
<1>11. ASSUME NEW i \in matched
       PROVE  i \in W /\ i \in P /\ r[i] = Verdict(i, y, TRUE) /\ r[i].length \in 1..Len(chars)
  <2>1. i \in P /\ r[i].result = "Matches" /\ i \in DOMAIN matchers
    BY <1>1
  <2>2. CASE ~eof
    <3>1. Verdict(i, y, TRUE) = r[i] /\ r[i].length \in 1..Len(chars)
      BY <1>10, <2>1, <2>2 DEF Settles
    <3> QED BY <1>5, <2>1, <3>1
  <2>3. CASE eof
    <3>1. r[i] = Verdict(i, y, TRUE) /\ y = chars
      BY <1>6, <1>9, <2>1, <2>3
    <3>2. i \in W
      BY <1>5, <2>1, <3>1
    <3> QED BY <1>5, <2>1, <3>1, <3>2
  <2> QED BY <2>2, <2>3
<1>12. matched \in SUBSET (1..14) /\ W \ P \in SUBSET (1..14) /\ \A i \in W \ P, j \in matched : i < j
  BY <1>2, <1>5, <1>6, <1>11
<1>13. more = Found(y, matched)
  <2>1. \A k \in 1..Cardinality(matched) : Nth(matched, k) \in matched
    BY <1>12, NthIs
  <2>2. \A k \in 1..Cardinality(matched) : /\ matchers[Nth(matched, k)] = CommandMatchers[Nth(matched, k)]
                                           /\ r[Nth(matched, k)] = Verdict(Nth(matched, k), y, TRUE)
    BY <1>2, <1>11, <2>1
  <2> QED BY <2>2, Zenon DEF more, Found
<1>14. found = Found(y, (W \ P) \cup matched)
  <2>1. Found(y, W \ P) \o Found(y, matched) = Found(y, (W \ P) \cup matched)
    <3>1. PICK S \in SUBSET (1..14), T \in SUBSET (1..14) : S = W \ P /\ T = matched
      BY <1>12
    <3>2. \A i \in S, j \in T : i < j
      BY <1>12, <3>1
    <3>3. Found(y, S) \o Found(y, T) = Found(y, S \cup T)
      BY <3>2, FoundJoined
    <3> QED BY <3>1, <3>3
  <2> QED BY <1>6, <1>13, <2>1, Zenon DEF more
<1>15. ASSUME ~eof PROVE (W \ P) \cup matched = W \ undecided
  <2>1. ASSUME NEW i \in W, i \in P, i \notin undecided PROVE i \in matched
    <3>1. Settles(r[i], Verdict(i, y, TRUE), Len(chars)) /\ Verdict(i, y, TRUE).result = "Matches"
      BY <1>5, <1>10, <1>15, <2>1
    <3>2. r[i].result \notin {"LookaheadCannotMatch", "Panics"}
      BY <3>1 DEF Settles
    <3>3. r[i].result = "Matches"
      BY <2>1, <3>1, <3>2 DEF Settles
    <3> QED BY <2>1, <3>3
  <2>2. ASSUME NEW i \in matched PROVE i \in W /\ i \notin undecided
    BY <1>11
  <2>3. undecided \subseteq P
    OBVIOUS
  <2> QED BY <2>1, <2>2, <2>3
<1>16. ASSUME eof PROVE (W \ P) \cup matched = W
  <2>1. ASSUME NEW i \in W, i \in P PROVE i \in matched
    <3>1. r[i].result = "Matches"
      BY <1>5, <1>9, <1>16, <2>1
    <3> QED BY <2>1, <3>1
  <2> QED BY <1>11, <2>1
<1>17. \A k \in DOMAIN found : found[k].length \in 1..Len(chars)
  <2> DEFINE T == (W \ P) \cup matched
  <2>1. T \in SUBSET (1..14)
    BY <1>12
  <2>2. ASSUME NEW i \in T PROVE Verdict(i, y, TRUE).length \in 1..Len(chars)
    <3>1. CASE i \in matched
      BY <1>11, <3>1
    <3>2. CASE i \in W \ P
      <4>1. PICK k \in 1..Cardinality(W \ P) : Nth(W \ P, k) = i
        BY <1>12, <3>2, NthIs, RankIs
      <4>2. DOMAIN matches = 1..Cardinality(W \ P) /\ matches[k].length = Verdict(i, y, TRUE).length
        BY <1>6, <4>1 DEF Found
      <4> QED BY <1>6, <4>2
    <3> QED BY <3>1, <3>2
  <2>3. \A k \in 1..Cardinality(T) : Nth(T, k) \in T
    BY <2>1, NthIs
  <2>4. /\ DOMAIN found = 1..Cardinality(T)
        /\ \A k \in 1..Cardinality(T) : found[k].length = Verdict(Nth(T, k), y, TRUE).length
    <3>1. \A U : /\ DOMAIN Found(y, U) = 1..Cardinality(U)
                 /\ \A k \in 1..Cardinality(U) : Found(y, U)[k].length = Verdict(Nth(U, k), y, TRUE).length
      BY Zenon DEF Found
    <3>2. found = Found(y, T)
      BY <1>14
    <3> HIDE DEF T
    <3> QED BY <3>1, <3>2, Zenon
  <2> HIDE DEF T
  <2> QED BY <2>2, <2>3, <2>4
<1>18. ASSUME ~eof
       PROVE  /\ found = Found(y, W \ undecided)
              /\ \A i \in W \ undecided, j \in undecided : i < j
              /\ \A j \in undecided : j # 4 => \A k \in 1..Len(chars) : chars[k] \notin Newlines
  <2>1. found = Found(y, W \ undecided)
    BY <1>14, <1>15, <1>18
  <2>2. ASSUME NEW i \in W \ undecided, NEW j \in undecided PROVE i < j
    <3>1. j \in P /\ r[j].result = "LookaheadIsPrefix"
      OBVIOUS
    <3>2. CASE i \in W \ P
      BY <1>6, <3>1, <3>2, Zenon
    <3>3. CASE i \notin W \ P
      <4>1. i \in matched
        BY <1>15, <1>18, <3>3
      <4>2. i \in P /\ r[i].result = "Matches"
        BY <4>1
      <4>3. /\ Verdict(i, chars, FALSE).result = "Matches" /\ Verdict(j, chars, FALSE).result = "LookaheadIsPrefix"
            /\ i \in 1..14 /\ j \in 1..14
        BY <1>2, <1>8, <1>18, <3>1, <4>2
      <4> QED BY <1>1, <1>4, <4>3, WaitingComesLast
    <3> QED BY <3>2, <3>3
  <2>3. ASSUME NEW j \in undecided, j # 4, NEW k \in 1..Len(chars) PROVE chars[k] \notin Newlines
    <3>1. j \in P /\ r[j].result = "LookaheadIsPrefix"
      OBVIOUS
    <3>2. EndsWithLine(r[j], chars)
      BY <1>10, <1>18, <2>3, <3>1, Zenon
    <3> QED BY <3>1, <3>2 DEF EndsWithLine
  <2> QED BY <2>1, <2>2, <2>3
<1>19. eof \/ undecided = {} => found = Found(y, W)
  <2>1. CASE eof
    BY <1>14, <1>16, <2>1
  <2>2. CASE ~eof /\ undecided = {}
    <3>1. W \ undecided = W
      BY <2>2
    <3> QED BY <1>18, <2>2, <3>1
  <2> QED BY <2>1, <2>2, Zenon
<1> QED BY <1>3, <1>17, <1>18, <1>19, Zenon DEF W

----------------------------------------------------------------------------
(* The steps of the tokenizer. *)

\* The front of a sequence that another follows.
LEMMA FrontJoined ==
  ASSUME NEW S, NEW a \in Seq(S), NEW b \in Seq(S), NEW n \in 0..Len(a)
  PROVE  SubSeq(a \o b, 1, n) = SubSeq(a, 1, n)
<1>1. /\ a \o b \in Seq(S) /\ Len(a \o b) = Len(a) + Len(b) /\ Len(a) \in Nat /\ Len(b) \in Nat
      /\ \A k \in 1..Len(a) : (a \o b)[k] = a[k]
  BY JoinIs
<1>2. PICK c \in Seq(S) : c = a \o b
  BY <1>1
<1>3. /\ n \in Nat /\ \A k \in 1..n : k \in 1..Len(a)
  BY <1>1
<1>4. \A k \in 1..n : a[k] \in S /\ c[k] = a[k]
  BY <1>1, <1>2, <1>3
<1>5. ASSUME NEW s, \A k \in 1..n : s[k] \in S
      PROVE  /\ SubSeq(s, 1, n) \in Seq(S) /\ Len(SubSeq(s, 1, n)) = n
             /\ \A k \in 1..n : SubSeq(s, 1, n)[k] = s[k]
  <2>1. /\ SubSeq(s, 1, n) \in Seq(S) /\ Len(SubSeq(s, 1, n)) = IF 1 <= n THEN n - 1 + 1 ELSE 0
        /\ \A k \in 1..n - 1 + 1 : SubSeq(s, 1, n)[k] = s[1 + k - 1]
    BY <1>3, <1>5, SubSeqProperties
  <2>2. \A k \in 1..n : k \in 1..n - 1 + 1 /\ 1 + k - 1 = k
    BY <1>3
  <2>3. (IF 1 <= n THEN n - 1 + 1 ELSE 0) = n
    BY <1>3
  <2> QED BY <2>1, <2>2, <2>3
<1>6. PICK p \in Seq(S) : p = SubSeq(a, 1, n) /\ Len(p) = n /\ \A k \in 1..n : p[k] = a[k]
  BY <1>4, <1>5
<1>7. PICK q \in Seq(S) : q = SubSeq(c, 1, n) /\ Len(q) = n /\ \A k \in 1..n : q[k] = c[k]
  BY <1>4, <1>5
<1>8. p = q
  BY <1>4, <1>6, <1>7, SeqEqual
<1> QED BY <1>2, <1>6, <1>7, <1>8

\* A sequence is its front and what is left from there on.
LEMMA SplitIs ==
  ASSUME NEW S, NEW s \in Seq(S), NEW n \in 0..Len(s)
  PROVE  \E a, b \in Seq(S) : a = SubSeq(s, 1, n) /\ b = From(s, n + 1) /\ a \o b = s
<1>1. PICK L \in Nat : L = Len(s)
  OBVIOUS
<1>2. n \in Nat /\ n <= L /\ n + 1 \in 1..L+1 /\ \A k \in 1..n : k \in 1..L
  BY <1>1
<1>3. \A k \in 1..n : s[k] \in S
  BY <1>1, <1>2
<1>4. PICK a \in Seq(S) : a = SubSeq(s, 1, n) /\ Len(a) = n /\ \A k \in 1..n : a[k] = s[k]
  <2>1. /\ SubSeq(s, 1, n) \in Seq(S) /\ Len(SubSeq(s, 1, n)) = IF 1 <= n THEN n - 1 + 1 ELSE 0
        /\ \A k \in 1..n - 1 + 1 : SubSeq(s, 1, n)[k] = s[1 + k - 1]
    BY <1>2, <1>3, SubSeqProperties
  <2>2. \A k \in 1..n : k \in 1..n - 1 + 1 /\ 1 + k - 1 = k
    BY <1>2
  <2>3. (IF 1 <= n THEN n - 1 + 1 ELSE 0) = n
    BY <1>2
  <2> QED BY <2>1, <2>2, <2>3
<1>5. PICK b \in Seq(S) : /\ b = From(s, n + 1) /\ Len(b) = L - (n + 1) + 1
                          /\ \A j \in 1..L-(n+1)+1 : b[j] = s[(n + 1) + j - 1]
  <2>1. PICK m \in 1..Len(s)+1 : m = n + 1
    BY <1>1, <1>2
  <2>2. /\ From(s, m) \in Seq(S) /\ Len(From(s, m)) = Len(s) - m + 1
        /\ \A j \in 1..Len(s)-m+1 : From(s, m)[j] = s[m + j - 1]
    BY FromIs
  <2> QED BY <1>1, <2>1, <2>2, Zenon
<1>6. Len(b) = L - n /\ \A j \in 1..L-n : b[j] = s[n + j]
  <2>1. L - (n + 1) + 1 = L - n /\ \A j \in 1..L-n : (n + 1) + j - 1 = n + j
    BY <1>2
  <2> QED BY <1>5, <2>1
<1>7. /\ a \o b \in Seq(S) /\ Len(a \o b) = n + (L - n)
      /\ \A i \in 1..n : (a \o b)[i] = a[i]
      /\ \A i \in 1..L-n : (a \o b)[n + i] = b[i]
  <2>1. /\ a \o b \in Seq(S) /\ Len(a \o b) = Len(a) + Len(b)
        /\ \A i \in 1..Len(a) : (a \o b)[i] = a[i]
        /\ \A i \in 1..Len(b) : (a \o b)[Len(a) + i] = b[i]
    BY JoinIs
  <2> QED BY <1>4, <1>6, <2>1
<1>8. n + (L - n) = L
  BY <1>2
<1>9. ASSUME NEW k \in 1..L PROVE (a \o b)[k] = s[k]
  <2>1. CASE k \in 1..n
    BY <1>4, <1>7, <2>1
  <2>2. CASE k \notin 1..n
    <3>1. PICK j \in 1..L-n : k = n + j
      <4>1. k - n \in 1..L-n /\ k = n + (k - n)
        BY <1>2, <2>2
      <4> QED BY <4>1
    <3> QED BY <1>6, <1>7, <3>1
  <2> QED BY <2>1, <2>2
<1>10. a \o b = s
  BY <1>1, <1>7, <1>8, <1>9, SeqEqual
<1> QED BY <1>4, <1>5, <1>10

\* No matchers, no matches.
LEMMA FoundNone ==
  ASSUME NEW y
  PROVE  Found(y, {}) = <<>>
<1>1. Cardinality({}) = 0 /\ 1..0 = {}
  BY FS_EmptySet
<1>2. \A S : DOMAIN Found(y, S) = 1..Cardinality(S) /\ Found(y, S) = [k \in DOMAIN Found(y, S) |-> Found(y, S)[k]]
  BY Zenon DEF Found
<1>3. DOMAIN Found(y, {}) = {}
  BY <1>1, <1>2
<1>4. Found(y, {}) = [k \in {} |-> Found(y, {})[k]]
  BY <1>2, <1>3, Zenon
<1> QED BY <1>4

\* What is found of the rest changes only with it.
LEMMA WinningSame ==
  matchers' = matchers /\ Rest' = Rest => Winning' = Winning
BY DEF Winning

\* A matcher of a language is one of its matchers.
LEMMA WinningIsOf == Winning \subseteq DOMAIN matchers
BY Zenon DEF Winning, Winners

\* The first round begins.
LEMMA StartTokenStep ==
  TokenizerInv /\ StartToken => TokenizerInv' /\ UNCHANGED <<matchers, Rest, tokens>>
<1> SUFFICES ASSUME TokenizerInv, StartToken PROVE TokenizerInv' /\ UNCHANGED <<matchers, Rest, tokens>>
  OBVIOUS
<1>1. /\ stage = "idle" /\ possible' = DOMAIN matchers /\ matches' = <<>> /\ eof' = FALSE
      /\ stage' = IF chars = <<>> THEN "read" ELSE "match"
      /\ UNCHANGED <<matchers, wire, reader_pending, open, bytes, chars, tokens>>
  BY DEF StartToken
<1>2. Coming' = Coming /\ Rest' = Rest
  BY <1>1 DEF Coming, Rest
<1>3. TokenizerTyped'
  BY <1>1 DEF TokenizerInv, TokenizerTyped, Steps
<1>4. Winning' = Winning /\ Winning \ possible' = {}
  BY <1>1, <1>2, WinningSame, WinningIsOf
<1>5. MatchesAreWhole'
  <2>1. matches' = Found(Rest', Winning' \ possible')
    BY <1>1, <1>4, FoundNone
  <2>2. \A i \in Winning' \ possible', j \in possible' : i < j
    BY <1>4
  <2>3. ~eof' /\ \A k \in DOMAIN matches' : matches'[k].length \in 1..Len(chars')
    <3>1. DOMAIN <<>> = {}
      OBVIOUS
    <3> QED BY <1>1, <3>1
  <2> QED BY <1>1, <2>1, <2>2, <2>3 DEF MatchesAreWhole
<1>6. OnlyAStringWaitsForMore'
  BY <1>1 DEF OnlyAStringWaitsForMore
<1> QED BY <1>1, <1>2, <1>3, <1>5, <1>6 DEF TokenizerInv

\* Steps that change neither the lookahead nor the matches, while the tokenizer reads.
LEMMA ReadingStep ==
  TokenizerInv /\ stage = "read" /\ stage' = "read" /\ TokenizerTyped' /\ Rest' = Rest
    /\ UNCHANGED <<matchers, chars, possible, matches, eof, tokens>>
    => TokenizerInv'
<1> SUFFICES ASSUME TokenizerInv, stage = "read", stage' = "read", TokenizerTyped', Rest' = Rest,
                    UNCHANGED <<matchers, chars, possible, matches, eof, tokens>>
             PROVE  TokenizerInv'
  OBVIOUS
<1>1. Winning' = Winning
  BY WinningSame
<1>2. MatchesAreWhole'
  BY <1>1 DEF TokenizerInv, MatchesAreWhole
<1>3. OnlyAStringWaitsForMore'
  BY DEF TokenizerInv, OnlyAStringWaitsForMore
<1> QED BY <1>2, <1>3 DEF TokenizerInv

\* A block moves bytes that are still to come.
LEMMA ReceiveBlockStep ==
  TokenizerInv /\ ReceiveBlock => TokenizerInv' /\ UNCHANGED <<matchers, Rest, tokens>>
<1> SUFFICES ASSUME TokenizerInv, ReceiveBlock PROVE TokenizerInv' /\ UNCHANGED <<matchers, Rest, tokens>>
  OBVIOUS
<1>1. PICK b \in Seq(Symbols), p \in Seq(Symbols), w \in Seq(Symbols) : b = bytes /\ p = reader_pending /\ w = wire
  BY DEF TokenizerInv, TokenizerTyped
<1>2. PICK n \in 0..ChunkBytes :
        /\ IF reader_pending = <<>> THEN n > 0 /\ n <= Len(wire) ELSE n = 0
        /\ \E ready \in {reader_pending \o SubSeq(wire, 1, n)} :
           LET copied == IF Len(ready) < ReadBuffer THEN Len(ready) ELSE ReadBuffer
           IN /\ bytes' = bytes \o SubSeq(ready, 1, copied)
              /\ reader_pending' = SubSeq(ready, copied + 1, Len(ready))
        /\ wire' = SubSeq(wire, n + 1, Len(wire))
  BY DEF ReceiveBlock
<1>3. /\ stage = "read" /\ open
      /\ UNCHANGED <<matchers, open, chars, possible, matches, eof, stage, tokens>>
  BY DEF ReceiveBlock, NeedsBytes
<1>4. n \in 0..Len(w) /\ Len(w) \in Nat /\ Len(p) \in Nat /\ ChunkBytes \in Nat /\ ReadBuffer \in Nat
  <2>1. Len(w) \in Nat /\ Len(p) \in Nat /\ ChunkBytes \in Nat /\ ReadBuffer \in Nat
    BY TokenizerAssumption
  <2>2. n = 0 \/ n <= Len(w)
    BY <1>1, <1>2
  <2> QED BY <2>1, <2>2
<1>5. PICK u \in Seq(Symbols), v \in Seq(Symbols) : u = SubSeq(w, 1, n) /\ v = From(w, n + 1) /\ u \o v = w
  BY <1>4, SplitIs
<1>6. PICK r \in Seq(Symbols) : r = p \o u
  BY JoinIs
<1>7. PICK c \in 0..Len(r) : c = IF Len(r) < ReadBuffer THEN Len(r) ELSE ReadBuffer
  <2>1. Len(r) \in Nat
    OBVIOUS
  <2> QED BY <1>4, <2>1
<1>8. PICK s \in Seq(Symbols), t \in Seq(Symbols) : s = SubSeq(r, 1, c) /\ t = From(r, c + 1) /\ s \o t = r
  BY SplitIs
<1>9. bytes' = b \o s /\ reader_pending' = t /\ wire' = v
  <2>1. /\ bytes' = b \o SubSeq(r, 1, c) /\ reader_pending' = SubSeq(r, c + 1, Len(r))
        /\ wire' = SubSeq(w, n + 1, Len(w))
    BY <1>1, <1>2, <1>5, <1>6, <1>7, Zenon
  <2> QED BY <1>5, <1>8, <2>1 DEF From
<1>10. (bytes \o reader_pending \o wire)' = bytes \o reader_pending \o wire
  <2>1. ((b \o s) \o t) \o v = (b \o p) \o w
    <3>0. Associates(b, s, t) /\ Associates(b, r, v) /\ Associates(p, u, v) /\ Associates(b, p, w)
      BY BytesJoined
    <3>1. (b \o s) \o t = b \o r
      BY <1>8, <3>0, Zenon DEF Associates
    <3>2. (b \o r) \o v = b \o (r \o v)
      BY <3>0, Zenon DEF Associates
    <3>3. r \o v = p \o w
      BY <1>5, <1>6, <3>0, Zenon DEF Associates
    <3>4. (b \o p) \o w = b \o (p \o w)
      BY <3>0, Zenon DEF Associates
    <3> QED BY <3>1, <3>2, <3>3, <3>4, Zenon
  <2> QED BY <1>1, <1>9, <2>1
<1>11. Rest' = Rest
  BY <1>3, <1>10, Zenon DEF Rest
<1>12. TokenizerTyped'
  <2>1. b \o s \in Seq(Symbols)
    BY JoinIs
  <2>2. /\ bytes' \in Seq(Symbols) /\ reader_pending' \in Seq(Symbols) /\ wire' \in Seq(Symbols)
    BY <1>9, <2>1
  <2> QED BY <1>3, <2>2 DEF TokenizerInv, TokenizerTyped
<1> QED BY <1>3, <1>11, <1>12, ReadingStep

\* Bytes become characters.
LEMMA DecodeCharactersStep ==
  TokenizerInv /\ DecodeCharacters => TokenizerInv' /\ UNCHANGED <<matchers, Rest, tokens>>
<1> SUFFICES ASSUME TokenizerInv, DecodeCharacters PROVE TokenizerInv' /\ UNCHANGED <<matchers, Rest, tokens>>
  OBVIOUS
<1>1. PICK h \in Seq(Chars), b \in Seq(Symbols), p \in Seq(Symbols), w \in Seq(Symbols) :
         h = chars /\ b = bytes /\ p = reader_pending /\ w = wire
  BY DEF TokenizerInv, TokenizerTyped
<1>2. PICK c \in Seq(Chars), d \in Seq(Symbols) : c = DecodeAll(b).chars /\ d = DecodeAll(b).bytes
  BY DecodeType
<1>3. /\ stage = "read" /\ c # <<>> /\ chars' = h \o c /\ bytes' = d
      /\ stage' = IF (\E i \in DOMAIN c : c[i] \in Newlines \cup {";"}) \/ ByteLen(chars') >= ReadAhead
                  THEN "match" ELSE "read"
      /\ UNCHANGED <<matchers, wire, reader_pending, open, possible, matches, eof, tokens>>
  BY <1>1, <1>2, Zenon DEF DecodeCharacters
<1>4. p \o w \in Seq(Symbols) /\ h \o c \in Seq(Chars)
  BY JoinIs
<1>5. Rest' = Rest
  <2>1. DecodeAll(b \o (p \o w)).chars = c \o DecodeAll(d \o (p \o w)).chars
    BY <1>2, <1>4, DecodeJoined
  <2>2. d \o (p \o w) \in Seq(Symbols)
    BY <1>4, JoinIs
  <2>3. PICK e \in Seq(Chars) : e = DecodeAll(d \o (p \o w)).chars
    BY <2>2, DecodeType
  <2>4. h \o (c \o e) = (h \o c) \o e
    <3>1. Associates(h, c, e)
      BY CharactersJoined
    <3> QED BY <3>1, Zenon DEF Associates
  <2>5. (b \o p) \o w = b \o (p \o w) /\ (d \o p) \o w = d \o (p \o w)
    <3>1. Associates(b, p, w) /\ Associates(d, p, w)
      BY BytesJoined
    <3> QED BY <3>1, Zenon DEF Associates
  <2>6. Rest = h \o DecodeAll((b \o p) \o w).chars
    BY <1>1, Zenon DEF Rest
  <2>7. Rest' = (h \o c) \o DecodeAll((d \o p) \o w).chars
    BY <1>1, <1>3, Zenon DEF Rest
  <2> QED BY <2>1, <2>3, <2>4, <2>5, <2>6, <2>7
<1>6. /\ Len(h \o c) >= Len(h) /\ h \o c # <<>> /\ Len(h) \in Nat /\ Len(c) \in Nat /\ Len(h \o c) = Len(h) + Len(c)
      /\ \A i \in 1..Len(h) : (h \o c)[i] = h[i]
      /\ \A i \in 1..Len(c) : (h \o c)[Len(h) + i] = c[i]
  <2>1. /\ Len(h \o c) = Len(h) + Len(c)
        /\ \A i \in 1..Len(h) : (h \o c)[i] = h[i]
        /\ \A i \in 1..Len(c) : (h \o c)[Len(h) + i] = c[i]
    BY JoinIs
  <2>2. Len(h) \in Nat /\ Len(c) \in Nat /\ Len(c) # 0
    <3>1. Len(c) = 0 => c = <<>>
      OBVIOUS
    <3>2. Len(h) \in Nat /\ Len(c) \in Nat
      OBVIOUS
    <3> QED BY <1>3, <3>1, <3>2, Zenon
  <2>3. Len(h \o c) >= Len(h) /\ Len(h \o c) # 0
    BY <2>1, <2>2
  <2>4. h \o c # <<>>
    BY <2>3
  <2> QED BY <2>1, <2>2, <2>3, <2>4
<1>7. stage' \in {"match", "read"} /\ ~eof /\ stage # "match"
  BY <1>3 DEF TokenizerInv, TokenizerTyped
<1>8. TokenizerTyped'
  BY <1>1, <1>2, <1>3, <1>4, <1>6, <1>7 DEF TokenizerInv, TokenizerTyped, Steps
<1>9. MatchesAreWhole'
  <2>1. Winning' = Winning
    BY <1>3, <1>5, WinningSame
  <2>2. /\ matches' = Found(Rest', Winning' \ possible')
        /\ \A i \in Winning' \ possible', j \in possible' : i < j
    BY <1>3, <1>5, <2>1 DEF TokenizerInv, MatchesAreWhole
  <2>3. \A k \in DOMAIN matches' : matches'[k].length \in 1..Len(chars')
    <3>1. \A k \in DOMAIN matches : matches[k].length \in 1..Len(h)
      BY <1>1 DEF TokenizerInv, MatchesAreWhole
    <3>2. \A n \in 1..Len(h) : n \in 1..Len(h \o c)
      BY <1>6
    <3> QED BY <1>3, <3>1, <3>2
  <2> QED BY <1>3, <1>7, <2>2, <2>3 DEF MatchesAreWhole
<1>10. OnlyAStringWaitsForMore'
  <2> SUFFICES ASSUME stage' = "read", NEW i \in DOMAIN chars', chars'[i] \in Newlines
               PROVE  \A j \in possible' : matchers'[j] = "String"
    BY DEF OnlyAStringWaitsForMore
  <2>0. DOMAIN (h \o c) = 1..Len(h \o c) /\ DOMAIN h = 1..Len(h) /\ DOMAIN c = 1..Len(c)
    BY <1>4
  <2>1. i \in 1..Len(h) + Len(c)
    BY <1>3, <1>6, <2>0, Zenon
  <2>2. \A k \in 1..Len(c) : c[k] \notin Newlines
    <3>1. "match" # "read"
      OBVIOUS
    <3>2. ~\E k \in DOMAIN c : c[k] \in Newlines \cup {";"}
      BY <1>3, <3>1, Zenon
    <3> QED BY <2>0, <3>2
  <2>3. i \in 1..Len(h)
    <3> SUFFICES ASSUME i \notin 1..Len(h) PROVE FALSE
      OBVIOUS
    <3>1. PICK k \in 1..Len(c) : i = Len(h) + k
      <4>1. PICK m \in Nat, n \in Nat : m = Len(h) /\ n = Len(c)
        BY <1>6
      <4>2. i - m \in 1..n /\ i = m + (i - m)
        BY <2>1, <4>1
      <4> QED BY <4>1, <4>2
    <3>2. chars'[i] = c[k]
      BY <1>3, <1>6, <3>1, Zenon
    <3> QED BY <2>2, <3>2
  <2>4. i \in DOMAIN chars /\ chars[i] \in Newlines
    <3>1. chars'[i] = h[i]
      BY <1>3, <1>6, <2>3, Zenon
    <3> QED BY <1>1, <2>0, <2>3, <3>1
  <2> QED BY <1>3, <2>4 DEF TokenizerInv, OnlyAStringWaitsForMore
<1> QED BY <1>3, <1>5, <1>8, <1>9, <1>10 DEF TokenizerInv

\* A matcher panics: nothing is taken.
LEMMA SliceInsideCharacterStep ==
  TokenizerInv /\ SliceInsideCharacter => TokenizerInv' /\ UNCHANGED <<matchers, Rest, tokens>>
<1> SUFFICES ASSUME TokenizerInv, SliceInsideCharacter PROVE TokenizerInv' /\ UNCHANGED <<matchers, Rest, tokens>>
  OBVIOUS
<1>1. /\ stage' = "panicked"
      /\ UNCHANGED <<matchers, wire, reader_pending, open, bytes, chars, possible, matches, eof, tokens>>
  BY DEF SliceInsideCharacter
<1>2. Rest' = Rest
  BY <1>1 DEF Rest
<1>3. TokenizerTyped'
  BY <1>1 DEF TokenizerInv, TokenizerTyped, Steps
<1>4. MatchesAreWhole'
  BY <1>1 DEF TokenizerInv, MatchesAreWhole
<1>5. OnlyAStringWaitsForMore'
  BY <1>1 DEF OnlyAStringWaitsForMore
<1> QED BY <1>1, <1>2, <1>3, <1>4, <1>5 DEF TokenizerInv

\* The source ends when nothing is left in it.
LEMMA SourceEndsStep ==
  TokenizerInv /\ SourceEnds => TokenizerInv' /\ UNCHANGED <<matchers, Rest, tokens>>
<1> SUFFICES ASSUME TokenizerInv, SourceEnds PROVE TokenizerInv' /\ UNCHANGED <<matchers, Rest, tokens>>
  OBVIOUS
<1>1. /\ stage = "read" /\ wire = <<>> /\ reader_pending = <<>> /\ open' = FALSE
      /\ UNCHANGED <<matchers, wire, reader_pending, bytes, chars, possible, matches, eof, stage, tokens>>
  BY DEF SourceEnds, NeedsBytes
<1>2. Rest' = Rest
  BY <1>1 DEF Rest
<1>3. TokenizerTyped'
  BY <1>1 DEF TokenizerInv, TokenizerTyped
<1> QED BY <1>1, <1>2, <1>3, ReadingStep

\* At the end of the input nothing is left to come: the bytes left hold no character.
LEMMA ReachEndOfInputStep ==
  TokenizerInv /\ ReachEndOfInput => TokenizerInv' /\ UNCHANGED <<matchers, Rest, tokens>>
<1> SUFFICES ASSUME TokenizerInv, ReachEndOfInput PROVE TokenizerInv' /\ UNCHANGED <<matchers, Rest, tokens>>
  OBVIOUS
<1>1. /\ stage = "read" /\ FirstCharacter(bytes).taken = 0 /\ ~open /\ eof' = TRUE
      /\ stage' = IF chars = <<>> THEN "ended" ELSE "match"
      /\ UNCHANGED <<matchers, wire, reader_pending, open, bytes, chars, possible, matches, tokens>>
  BY DEF ReachEndOfInput, NeedsBytes
<1>2. Rest' = Rest /\ Coming' = Coming
  BY <1>1 DEF Rest, Coming
<1>3. Coming = <<>>
  <2>1. PICK b \in Seq(Symbols) : b = bytes
    BY DEF TokenizerInv, TokenizerTyped
  <2>2. wire = <<>> /\ reader_pending = <<>>
    BY <1>1 DEF TokenizerInv, TokenizerTyped
  <2>3. (b \o <<>>) \o <<>> = b
    OBVIOUS
  <2>4. DecodeAll(b).chars = <<>>
    BY <1>1, <2>1, DecodeNone
  <2>5. Coming = DecodeAll((b \o <<>>) \o <<>>).chars
    BY <2>1, <2>2, Zenon DEF Coming
  <2> QED BY <2>3, <2>4, <2>5, Zenon
<1>4. TokenizerTyped'
  BY <1>1 DEF TokenizerInv, TokenizerTyped, Steps
<1>5. MatchesAreWhole'
  <2>1. Winning' = Winning
    BY <1>1, <1>2, WinningSame
  <2> QED BY <1>1, <1>2, <1>3, <2>1 DEF TokenizerInv, MatchesAreWhole
<1>6. OnlyAStringWaitsForMore'
  BY <1>1 DEF OnlyAStringWaitsForMore
<1> QED BY <1>1, <1>2, <1>4, <1>5, <1>6 DEF TokenizerInv

\* The lookahead becomes bytes that hold the same characters.
LEMMA HandOverStep ==
  TokenizerInv /\ HandOver => TokenizerInv' /\ UNCHANGED <<matchers, Rest, tokens>>
<1> SUFFICES ASSUME TokenizerInv, HandOver PROVE TokenizerInv' /\ UNCHANGED <<matchers, Rest, tokens>>
  OBVIOUS
<1>1. PICK h \in Seq(Chars), b \in Seq(Symbols), p \in Seq(Symbols), w \in Seq(Symbols) :
         h = chars /\ b = bytes /\ p = reader_pending /\ w = wire
  BY DEF TokenizerInv, TokenizerTyped
<1>2. PICK e \in Seq(Symbols) : e = EncodeAll(h)
  BY <1>1, DecodeEncoded, EmptySeq
<1>3. /\ stage = "idle" /\ bytes' = e \o b /\ chars' = <<>>
      /\ UNCHANGED <<matchers, wire, reader_pending, open, possible, matches, eof, stage, tokens>>
  BY <1>1, <1>2, Zenon DEF HandOver
<1>4. PICK q \in Seq(Symbols) : q = b \o p
  BY JoinIs
<1>5. PICK x \in Seq(Symbols) : x = q \o w
  BY JoinIs
<1>6. ((e \o b) \o p) \o w = e \o x
  <2>1. Associates(e, b, p) /\ Associates(e, q, w)
    BY BytesJoined
  <2>2. (e \o b) \o p = e \o q
    BY <1>4, <2>1, Zenon DEF Associates
  <2>3. (e \o q) \o w = e \o x
    BY <1>5, <2>1, Zenon DEF Associates
  <2> QED BY <2>2, <2>3, Zenon
<1>7. Rest' = Rest
  <2>1. DecodeAll(e \o x).chars = h \o DecodeAll(x).chars
    BY <1>2, DecodeEncoded, Zenon
  <2>2. Rest = h \o DecodeAll(x).chars
    BY <1>1, <1>4, <1>5, Zenon DEF Rest
  <2>3. Rest' = <<>> \o DecodeAll(((e \o b) \o p) \o w).chars
    BY <1>1, <1>3, Zenon DEF Rest
  <2>4. DecodeAll(x).chars \in Seq(Chars)
    BY DecodeType
  <2>5. PICK d \in Seq(Chars) : d = DecodeAll(x).chars
    BY <2>4
  <2>6. h \o d \in Seq(Chars)
    BY JoinIs
  <2>7. <<>> \o (h \o d) = h \o d
    BY <2>6, ConcatEmptySeq
  <2> QED BY <1>6, <2>1, <2>2, <2>3, <2>5, <2>7, Zenon
<1>8. TokenizerTyped'
  <2>1. e \o b \in Seq(Symbols) /\ <<>> \in Seq(Chars)
    BY JoinIs
  <2>2. bytes' \in Seq(Symbols) /\ chars' \in Seq(Chars)
    BY <1>3, <2>1, Zenon
  <2> QED BY <1>3, <2>2 DEF TokenizerInv, TokenizerTyped
<1>9. MatchesAreWhole'
  <2>1. matches = <<>> /\ DOMAIN <<>> = {}
    BY <1>3 DEF TokenizerInv, MatchesAreWhole
  <2> QED BY <1>3, <2>1 DEF MatchesAreWhole
<1>10. OnlyAStringWaitsForMore'
  BY <1>3 DEF OnlyAStringWaitsForMore
<1> QED BY <1>3, <1>7, <1>8, <1>9, <1>10 DEF TokenizerInv

\* A round of matching: the tokenizer reads on, or takes the token that is at the front of all
\* that is left.
LEMMA TryMatchersStep ==
  TokenizerInv /\ TryMatchers => TokenizerInv' /\ (UNCHANGED <<matchers, Rest, tokens>> \/ Stream!TakeToken)
<1> SUFFICES ASSUME TokenizerInv, TryMatchers
             PROVE  TokenizerInv' /\ (UNCHANGED <<matchers, Rest, tokens>> \/ Stream!TakeToken)
  OBVIOUS
<1>1. stage = "match" /\ UNCHANGED <<matchers, wire, reader_pending, open, bytes, eof>>
  BY DEF TryMatchers
<1>2. PICK r : r = [i \in possible |-> TryMatch(matchers[i], chars, eof)]
  OBVIOUS
<1>3. PICK undecided : undecided = {i \in possible : r[i].result = "LookaheadIsPrefix"}
  OBVIOUS
<1>4. PICK matched : matched = {i \in possible : r[i].result = "Matches"}
  OBVIOUS
<1>5. PICK found : found = matches \o [k \in 1..Cardinality(matched) |->
                                         [token |-> matchers[Nth(matched, k)], length |-> r[Nth(matched, k)].length]]
  OBVIOUS
<1>6. /\ ~\E i \in possible : r[i].result = "Panics"
      /\ possible' = undecided
      /\ IF undecided # {} /\ ~eof
         THEN /\ stage' = "read"
              /\ matches' = found
              /\ UNCHANGED <<chars, tokens>>
         ELSE /\ found # <<>>
              /\ \E best \in {Longest(found)} :
                  /\ tokens' = Append(tokens, [token |-> best.token, text |-> SubSeq(chars, 1, best.length)])
                  /\ chars' = SubSeq(chars, best.length + 1, Len(chars))
              /\ stage' = "idle"
              /\ matches' = <<>>
  <2>1. \E result \in {r} :
       LET undecided1 == {i \in possible : result[i].result = "LookaheadIsPrefix"}
           matched1 == {i \in possible : result[i].result = "Matches"}
           found1 == matches \o [k \in 1..Cardinality(matched1) |->
                        [token |-> matchers[Nth(matched1, k)],
                         length |-> result[Nth(matched1, k)].length]]
       IN /\ ~\E i \in possible : result[i].result = "Panics"
          /\ possible' = undecided1
          /\ IF undecided1 # {} /\ ~eof
             THEN /\ stage' = "read"
                  /\ matches' = found1
                  /\ UNCHANGED <<chars, tokens>>
             ELSE /\ found1 # <<>>
                  /\ \E best \in {Longest(found1)} :
                      /\ tokens' = Append(tokens,
                            [token |-> best.token,
                             text |-> SubSeq(chars, 1, best.length)])
                      /\ chars' = SubSeq(chars, best.length + 1, Len(chars))
                  /\ stage' = "idle"
                  /\ matches' = <<>>
    BY <1>2, Zenon DEF TryMatchers
  <2> QED BY <1>3, <1>4, <1>5, <2>1, Zenon
<1>7. /\ \A k \in DOMAIN found : found[k].length \in 1..Len(chars)
      /\ ~eof => /\ found = Found(Rest, Winning \ undecided)
                 /\ \A i \in Winning \ undecided, j \in undecided : i < j
                 /\ \A j \in undecided : j # 4 => \A k \in 1..Len(chars) : chars[k] \notin Newlines
      /\ eof \/ undecided = {} => found = Found(Rest, Winning)
  <2>1. stage = "match"
    BY <1>1
  <2>2. Round(r, undecided, matched, found)
    BY <1>2, <1>3, <1>4, <1>5, <1>6, Zenon DEF Round
  <2> QED BY <2>1, <2>2, RoundFinds, Zenon
<1>8. /\ matchers \in {JsonMatchers, CommandMatchers} /\ chars \in Seq(Chars) /\ chars # <<>> /\ eof \in BOOLEAN
      /\ undecided \subseteq DOMAIN matchers
  BY <1>1, <1>3 DEF TokenizerInv, TokenizerTyped
<1>9. CASE undecided # {} /\ ~eof
  <2>1. stage' = "read" /\ matches' = found /\ UNCHANGED <<chars, tokens>>
    BY <1>6, <1>9
  <2>2. Rest' = Rest /\ Winning' = Winning
    <3>1. Rest' = Rest
      BY <1>1, <2>1 DEF Rest
    <3> QED BY <1>1, <3>1, WinningSame
  <2>3. TokenizerTyped'
    BY <1>1, <1>6, <1>8, <1>9, <2>1 DEF TokenizerInv, TokenizerTyped, Steps
  <2>4. MatchesAreWhole'
    BY <1>1, <1>6, <1>7, <1>9, <2>1, <2>2 DEF MatchesAreWhole
  <2>5. OnlyAStringWaitsForMore'
    <3> SUFFICES ASSUME NEW i \in DOMAIN chars', chars'[i] \in Newlines, NEW j \in possible'
                 PROVE  matchers'[j] = "String"
      BY DEF OnlyAStringWaitsForMore
    <3>1. i \in 1..Len(chars) /\ chars[i] \in Newlines
      BY <1>8, <2>1
    <3>2. j = 4
      BY <1>6, <1>7, <1>9, <3>1
    <3>3. j \in DOMAIN matchers
      BY <1>6, <1>8
    <3> QED BY <1>1, <1>8, <3>2, <3>3, LanguageIs
  <2> QED BY <1>1, <2>1, <2>2, <2>3, <2>4, <2>5 DEF TokenizerInv
<1>10. CASE ~(undecided # {} /\ ~eof)
  <2>1. /\ found = Found(Rest, Winning) /\ stage' = "idle" /\ matches' = <<>> /\ found # <<>>
        /\ tokens' = Append(tokens, [token |-> Longest(found).token, text |-> SubSeq(chars, 1, Longest(found).length)])
        /\ chars' = SubSeq(chars, Longest(found).length + 1, Len(chars))
    BY <1>6, <1>7, <1>8, <1>10
  <2>2. PICK h \in Seq(Chars), c \in Seq(Chars), y \in Seq(Chars) :
           /\ h = chars /\ c = Coming /\ y = Rest /\ y = h \o c /\ Len(y) \in Nat /\ Len(y) >= 1 /\ y # <<>>
    <3>1. /\ Rest = chars \o Coming /\ Coming \in Seq(Chars) /\ Rest \in Seq(Chars) /\ Rest # <<>>
      BY <1>8, RestIs DEF TokenizerInv
    <3>2. \A y \in Seq(Chars) : y # <<>> => Len(y) \in Nat /\ Len(y) >= 1
      BY EmptySeq
    <3> QED BY <1>8, <3>1, <3>2
  <2>3. Longest(found) = WholeMatch(matchers, y)
    <3>1. Longest(Found(y, Winners(matchers, y))) = WholeMatch(matchers, y)
      BY <1>8, <2>2, LongestIs
    <3> QED BY <2>1, <2>2, <3>1, Zenon DEF Winning
  <2>4. PICK n \in 1..Len(h) : n = Longest(found).length
    <3>1. \E k \in DOMAIN found : found[k].length = Longest(found).length
      <4>1. PICK i \in Winners(matchers, y) : WholeMatch(matchers, y) = [token |-> CommandMatchers[i], length |-> Verdict(i, y, TRUE).length]
        BY <1>8, <2>2, LongestIs
      <4>2. Winners(matchers, y) \in SUBSET (1..14) /\ \A m \in Winners(matchers, y) : m \in 1..14
        BY <1>8, <2>2, WinnersAre
      <4>3. PICK W \in SUBSET (1..14) : W = Winners(matchers, y) /\ i \in W
        BY <4>2
      <4>4. PICK k \in 1..Cardinality(W) : Nth(W, k) = i
        BY <4>3, NthIs, RankIs
      <4>5. /\ DOMAIN Found(y, W) = 1..Cardinality(W)
            /\ Found(y, W)[k].length = Verdict(Nth(W, k), y, TRUE).length
        BY Zenon DEF Found
      <4>6. found = Found(y, W)
        BY <2>1, <2>2, <4>3, Zenon DEF Winning
      <4>7. k \in DOMAIN found /\ found[k].length = Verdict(i, y, TRUE).length
        BY <4>3, <4>4, <4>5, <4>6, Zenon
      <4>8. Longest(found).length = Verdict(i, y, TRUE).length
        BY <2>3, <4>1
      <4> QED BY <4>7, <4>8
    <3> QED BY <1>7, <2>2, <3>1
  <2>5. chars' = From(h, n + 1) /\ tokens' = Append(tokens, [token |-> Longest(found).token, text |-> SubSeq(h, 1, n)])
    BY <2>1, <2>2, <2>4, Zenon DEF From
  <2>6. Coming' = Coming
    BY <1>1 DEF Coming
  <2>7. n \in 0..Len(h) /\ n + 1 \in 1..Len(h)+1
    <3>1. Len(h) \in Nat
      OBVIOUS
    <3> QED BY <3>1
  <2>8. SubSeq(h, 1, n) = SubSeq(y, 1, n)
    BY <2>2, <2>7, FrontJoined
  <2>9. Rest' = From(y, n + 1)
    <3>1. PICK m \in 1..Len(h)+1 : m = n + 1
      BY <2>7
    <3>2. From(h \o c, m) = From(h, m) \o c
      BY FromJoined
    <3>3. Rest' = chars' \o Coming'
      BY Zenon DEF Rest, Coming
    <3> QED BY <2>2, <2>5, <2>6, <3>1, <3>2, <3>3, Zenon
  <2>10. Stream!TakeToken
    <3>1. tokens' = Append(tokens, [token |-> WholeMatch(matchers, Rest).token,
                                    text |-> SubSeq(Rest, 1, WholeMatch(matchers, Rest).length)])
      BY <2>2, <2>3, <2>4, <2>5, <2>8, Zenon
    <3>2. Rest' = SubSeq(Rest, WholeMatch(matchers, Rest).length + 1, Len(Rest))
      BY <2>2, <2>3, <2>4, <2>9, Zenon DEF From
    <3> QED BY <1>1, <2>2, <3>1, <3>2, Zenon DEF Stream!TakeToken
  <2>11. TokenizerTyped'
    <3>1. chars' \in Seq(Chars)
      <4>1. PICK m \in 1..Len(h)+1 : m = n + 1
        BY <2>7
      <4> QED BY <2>5, <4>1, FromIs
    <3> QED BY <1>1, <1>6, <1>8, <2>1, <3>1 DEF TokenizerInv, TokenizerTyped, Steps
  <2>12. MatchesAreWhole'
    <3>1. DOMAIN <<>> = {}
      OBVIOUS
    <3> QED BY <2>1, <3>1 DEF MatchesAreWhole
  <2>13. OnlyAStringWaitsForMore'
    BY <2>1 DEF OnlyAStringWaitsForMore
  <2> QED BY <2>10, <2>11, <2>12, <2>13 DEF TokenizerInv
<1> QED BY <1>9, <1>10

\* Every step keeps the invariant, and takes a token of the whole input or none.
LEMMA TokenizerStep ==
  TokenizerInv /\ [TokenizerNext]_tokenizerVars
    => TokenizerInv' /\ (UNCHANGED <<matchers, Rest, tokens>> \/ Stream!TakeToken)
<1> SUFFICES ASSUME TokenizerInv, [TokenizerNext]_tokenizerVars
             PROVE  TokenizerInv' /\ (UNCHANGED <<matchers, Rest, tokens>> \/ Stream!TakeToken)
  OBVIOUS
<1>1. CASE UNCHANGED tokenizerVars
  <2>1. Rest' = Rest /\ Coming' = Coming
    BY <1>1 DEF tokenizerVars, Rest, Coming
  <2>2. Winning' = Winning
    BY <1>1, <2>1, WinningSame DEF tokenizerVars
  <2>3. TokenizerTyped' /\ MatchesAreWhole' /\ OnlyAStringWaitsForMore'
    BY <1>1, <2>1, <2>2 DEF TokenizerInv, TokenizerTyped, MatchesAreWhole, OnlyAStringWaitsForMore, tokenizerVars
  <2> QED BY <1>1, <2>1, <2>3 DEF TokenizerInv, tokenizerVars
<1>2. CASE TokenizerNext
  BY <1>2, StartTokenStep, TryMatchersStep, SliceInsideCharacterStep, DecodeCharactersStep, ReceiveBlockStep,
     SourceEndsStep, ReachEndOfInputStep, HandOverStep DEF TokenizerNext
<1> QED BY <1>1, <1>2

\* The tokenizer starts with nothing read.
LEMMA TokenizerStarts == TokenizerInit => TokenizerInv /\ Stream!Init
<1> SUFFICES ASSUME TokenizerInit PROVE TokenizerInv /\ Stream!Init
  OBVIOUS
<1>1. /\ matchers \in {JsonMatchers, CommandMatchers} /\ wire \in Inputs /\ reader_pending = <<>> /\ open = TRUE
      /\ bytes = <<>> /\ chars = <<>> /\ possible = {} /\ matches = <<>> /\ eof = FALSE /\ stage = "idle"
      /\ tokens = <<>>
  BY DEF TokenizerInit
<1>2. wire \in Seq(Symbols)
  <2>1. InputBytes \subseteq Symbols
    BY DEF Symbols
  <2>2. PICK T : T = {wire[i] : i \in DOMAIN wire}
    OBVIOUS
  <2>3. wire \in Seq(T) /\ \A i \in DOMAIN wire : wire[i] \in InputBytes
    <3>1. wire \in Seq({wire[i] : i \in DOMAIN wire})
      BY <1>1, TokenizerAssumption, Zenon
    <3>3. \A i \in DOMAIN wire : wire[i] \in InputBytes
      BY <1>1 DEF InputBytes, ToSet
    <3> QED BY <2>2, <3>1, <3>3, Zenon
  <2>4. wire \in Seq(InputBytes)
    BY <2>3
  <2> QED BY <2>1, <2>4
<1>3. Rest = DecodeAll(wire).chars
  <2>1. PICK w \in Seq(Symbols) : w = wire
    BY <1>2
  <2>2. (<<>> \o <<>>) \o w = w
    OBVIOUS
  <2>3. PICK d \in Seq(Chars) : d = DecodeAll(w).chars
    BY DecodeType
  <2>4. <<>> \o d = d
    OBVIOUS
  <2>5. Rest = <<>> \o DecodeAll((<<>> \o <<>>) \o w).chars
    BY <1>1, <2>1, Zenon DEF Rest
  <2> QED BY <2>1, <2>2, <2>3, <2>4, <2>5, Zenon
<1>4. TokenizerTyped
  <2>1. <<>> \in Seq(Chars) /\ <<>> \in Seq(Symbols)
    OBVIOUS
  <2>2. chars \in Seq(Chars) /\ bytes \in Seq(Symbols) /\ reader_pending \in Seq(Symbols)
    BY <1>1, <2>1
  <2> QED BY <1>1, <1>2, <2>2 DEF TokenizerTyped, Steps
<1>5. MatchesAreWhole
  BY <1>1 DEF MatchesAreWhole
<1>6. OnlyAStringWaitsForMore
  BY <1>1 DEF OnlyAStringWaitsForMore
<1>7. Stream!Init
  BY <1>1, <1>3, Zenon DEF Stream!Init
<1> QED BY <1>4, <1>5, <1>6, <1>7 DEF TokenizerInv

\* The tokenizer's invariant: what it has read, and every match it holds, is of the whole input.
THEOREM MatchesAreOfTheWholeInput == TokenizerSpec => []TokenizerInv
<1>1. TokenizerInit => TokenizerInv
  BY TokenizerStarts
<1>2. TokenizerInv /\ [TokenizerNext]_tokenizerVars => TokenizerInv'
  BY TokenizerStep
<1> QED BY <1>1, <1>2, PTL DEF TokenizerSpec

\* Whenever it looks for a token the tokenizer's state is sound: lengths lie within the lookahead,
\* nothing is left in a source that has ended, and after a line only an open string waits for more.
THEOREM TheBufferIsSound == TokenizerSpec => []BufferIsSound
<1>1. TokenizerInv => BufferIsSound
  BY DEF TokenizerInv, TokenizerTyped, MatchesAreWhole, BufferIsSound, TokenizerTypeOK
<1> QED BY <1>1, MatchesAreOfTheWholeInput, PTL

\* match_token returns the tokens of the whole input, however its bytes are cut into blocks and
\* wherever the tokenizer is replaced: the tokenizer implements the abstract stream of tokens.
THEOREM TheTokensAreOfTheWholeInput == TokenizerSpec => TokensOfTheWholeInput
<1>1. TokenizerInit => Stream!Init
  BY TokenizerStarts
<1>2. TokenizerInv /\ [TokenizerNext]_tokenizerVars => [Stream!TakeToken]_<<matchers, Rest, tokens>>
  BY TokenizerStep
<1> QED BY <1>1, <1>2, MatchesAreOfTheWholeInput, PTL DEF TokenizerSpec, TokensOfTheWholeInput, Stream!Spec
=============================================================================
