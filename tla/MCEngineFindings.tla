-------------------------- MODULE MCEngineFindings --------------------------
(***************************************************************************)
(* The engine's sources and templates for TLC: one shell, one command      *)
(* after the other, none killed, nothing edited by hand.                   *)
(***************************************************************************)
EXTENDS EngineSource

AllCommands == [dev |-> {"fetch", "build", "export"}]
TwoBases    == <<"b1", "b1">>
TwoSeries   == << <<"p", "q">>, <<"p", "r">> >>
OnePort     == <<"e1", "e1">>
=============================================================================
