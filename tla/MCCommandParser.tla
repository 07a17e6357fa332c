-------------------------- MODULE MCCommandParser --------------------------
(***************************************************************************)
(* An instance of CommandParser: both parsers, every sequence of tokens    *)
(* that one of them reads up to MaxTokens.                                 *)
(***************************************************************************)
EXTENDS CommandParser

BothModes == {"command", "json"}
=============================================================================
