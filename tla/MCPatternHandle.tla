--------------------------- MODULE MCPatternHandle ---------------------------
(***************************************************************************)
(* PatternHandle for TLC: patterns of two packets (the names n0 and n1     *)
(* stand for the decimal texts of the counters) below one prefix.          *)
(***************************************************************************)
EXTENDS PatternHandle

CONSTANTS a, n0, n1      \* name components

MCComponent == {a, n0, n1}
MCRenamePrefix == << >>
MCCounterEnd == 2
MCCounterText == (0 :> n0) @@ (1 :> n1)
MCPackets == { <<a, n>> : n \in {n0, n1} }
MCOnePrefix == { <<a>> }
MCPutOutcomes == {TRUE}
=============================================================================
