---------------------------- MODULE TokenStream ----------------------------
(***************************************************************************)
(* What a tokenizer promises to the parser that reads from it: the input   *)
(* is a sequence of characters, each step takes one token from its front,  *)
(* and which token that is depends on the language and the characters and  *)
(* on nothing else.  Nothing is said of blocks, of buffers or of when the  *)
(* characters arrive.                                                      *)
(***************************************************************************)
EXTENDS Naturals, Sequences

CONSTANTS
    Languages,    \* the sets of matchers
    Texts,        \* the inputs
    TokenAt(_, _) \* the token of a language at the front of a text:
                  \* [token, length]

VARIABLES language, rest, tokens

Init ==
    /\ language \in Languages
    /\ rest \in Texts
    /\ tokens = <<>>

TakeToken ==
    /\ rest # <<>>
    /\ \E t \in {TokenAt(language, rest)} :
        /\ tokens' = Append(tokens, [token |-> t.token,
                                     text |-> SubSeq(rest, 1, t.length)])
        /\ rest' = SubSeq(rest, t.length + 1, Len(rest))
    /\ UNCHANGED language

Spec == Init /\ [][TakeToken]_<<language, rest, tokens>>
=============================================================================
