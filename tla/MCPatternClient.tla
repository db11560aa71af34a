--------------------------- MODULE MCPatternClient ---------------------------
(***************************************************************************)
(* PatternClient for TLC: counter patterns of two packets and recorders    *)
(* below one prefix, asked for and cancelled by three clients.             *)
(***************************************************************************)
EXTENDS PatternClient

CONSTANTS a, n0, n1      \* name components

MCComponent == {a, n0, n1}
MCRenamePrefix == << >>
MCCounterEnd == 2
MCCounterText == (0 :> n0) @@ (1 :> n1)
MCPackets == { <<a, n>> : n \in {n0, n1} }
MCFetchPrefixes == { <<a>> }
MCPutOutcomes == {TRUE}
=============================================================================
