---------------------------- MODULE MCWriteHandle ----------------------------
(***************************************************************************)
(* WriteHandle for TLC: two packets to ask for, one more that continues    *)
(* the first, everything renamed under <<r>>.                              *)
(***************************************************************************)
EXTENDS WriteHandle

CONSTANTS a, b, r       \* name components

MCComponent == {a, b, r}
MCRenamePrefix == <<r>>
MCPackets == { <<a>>, <<a, b>>, <<b>> }
MCInsertNames == { <<a>>, <<b>> }
MCPutOutcomes == BOOLEAN
=============================================================================
