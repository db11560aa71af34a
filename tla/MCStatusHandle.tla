---------------------------- MODULE MCStatusHandle ----------------------------
(***************************************************************************)
(* StatusHandle for TLC: an insert of r is answered by r/a or r/b; r, the  *)
(* prefix of both, is also asked for with the patterns that the model of   *)
(* FastRepo in MCFastRepo leaves out, a recorder without a stream and a    *)
(* generalized object; two command prefixes.                               *)
(***************************************************************************)
EXTENDS StatusHandle

CONSTANTS a, b, r       \* name components

MCComponent == {a, b, r}
MCRenamePrefix == << >>
MCCounterText == 0 :> a
MCNoPrefixes == {}
MCPutSucceeds == {TRUE}
MCModes == BOOLEAN
MCInsertNames == { <<r>> }
MCFetchPrefixes == { <<r>> }
MCPackets == { <<r, a>>, <<r, b>> }
=============================================================================
