---------------------------- MODULE MCTokenizer ----------------------------
(***************************************************************************)
(* Instances of Tokenizer: every short text over a few alphabets, and some *)
(* lines of commands and JSON.                                             *)
(***************************************************************************)
EXTENDS Tokenizer

Upto(n, S) == UNION {[1..k -> S] : k \in 0..n}

ShortTexts ==
    UNION {Upto(3, {"t", "1", "\"", "\n", ":", "/", " "}),
           Upto(4, {"1", "-", ".", "e"}),
           Upto(4, {"\"", "\\", "\n"}),
           Upto(3, {"lead2", "lead3", "cont", "a"}),
           Upto(4, {"lead2", "cont", "a", "\n"})}

Lines == {
    <<"t", "r", "u", "e", "\n">>,
    <<"f", "a", "l", "s", "e", "]">>,
    <<"$", "a", "=", "n", "u", "l", "l", ";", "a">>,
    <<"a", ":", "a", " ", "[", "1", ",", "1", "]", "\n", "a">>,
    <<"a", " ", "\t", "\r", "\n", "_", "a", "|", "1", "E", "+", "1">>,
    <<"/", "/", "a", ";", "a", "\n", "{", "}">>,
    <<"\"", "lead2", "cont", "\n", "\"", "1">>,
    <<"t", "r", "u", "lead2", "cont", "\n">>}

MCInputs == ShortTexts \cup Lines
LineInputs == Lines
=============================================================================
