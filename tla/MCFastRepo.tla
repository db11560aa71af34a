------------------------------ MODULE MCFastRepo ------------------------------
(***************************************************************************)
(* FastRepo for TLC: one command prefix, one process id, patterns of one   *)
(* packet.                                                                 *)
(***************************************************************************)
EXTENDS FastRepo

CONSTANTS a, b, c, r, n0        \* name components

MCComponent == {a, b, c, r, n0}
MCRenamePrefix == <<r>>
MCCounterText == 0 :> n0
MCConfigPrefixes == { <<r, a, b>> }
MCPutOutcomes == BOOLEAN
MCPutSucceeds == {TRUE}
MCModes == BOOLEAN

(***************************************************************************)
(* The keys of the safety run: r/a is an inner node of the trie.  Of the   *)
(* branches below it, the first has an insert and is served by the         *)
(* configuration, the second has the packet of a pattern.                  *)
(***************************************************************************)
MCInsertNames == { <<a>> }
MCFetchPrefixes == { <<a, c>> }
MCPackets == { <<a>>, <<a, b>>, <<a, c, n0>> }
=============================================================================
