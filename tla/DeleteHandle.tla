----------------------------- MODULE DeleteHandle -----------------------------
(***************************************************************************)
(* DeleteHandle, between `#if 0` and `#endif` as well, on the storage that *)
(* WatchHandle fills.  It keeps nothing of its own: a command deletes and  *)
(* is answered in one step, also when it names a range of segments.  The   *)
(* answers are left out: 403 for a command without a process id, although  *)
(* the packets are gone, and a number of packets in which a failure, -1,   *)
(* counts as a segment that was deleted.                                   *)
(***************************************************************************)
EXTENDS WatchHandle

CONSTANT Ranges     \* first and last segment of segmented deletions

ASSUME RangesAssumption == Ranges \subseteq (0..MaxSegment) \X (0..MaxSegment)

VARIABLE deleted    \* not in the program: packets that were deleted

deleteVars == <<vars, deleted>>

Below(n) == {d \in stored : d.name = n}

(***************************************************************************)
(* deleteData of the storage, of which only the result is known here: it   *)
(* deletes the packets that are asked for and returns their number, or     *)
(* fails, having deleted some, and returns -1.                             *)
(***************************************************************************)
DeleteData(gone) ==
    /\ stored' = stored \ gone
    /\ deleted' = deleted \cup gone

(***************************************************************************)
(* processSingleDeleteCommand; processSelectorDeleteCommand, where the     *)
(* selectors choose the packets.  When either fails, some are deleted.     *)
(***************************************************************************)
DeleteSingle(n) == DeleteData(Below(n))

DeleteSelected(n) == \E gone \in SUBSET Below(n) : DeleteData(gone)

(***************************************************************************)
(* processSegmentDeleteCommand for a range of segments.                    *)
(***************************************************************************)
InRange(n, first, last) == {d \in Below(n) : first <= d.child /\ d.child <= last}

DeleteSegments(n, first, last) ==
    /\ first <= last /\ last < MaxSegment
    /\ \E gone \in SUBSET InRange(n, first, last) : DeleteData(gone)
    /\ UNCHANGED state

(***************************************************************************)
(* Without a last segment it is not implemented: BOOST_ASSERT(false) ends  *)
(* the process, or, in a build without assertions, the command is lost.    *)
(***************************************************************************)
DeleteSegmentsUnbounded ==
    /\ state' \in {state, "aborted"}
    /\ UNCHANGED <<stored, deleted>>

(***************************************************************************)
(* No SegmentNo is greater than the largest, so the loop to it goes on     *)
(* from 0 and never ends, and with it the process is lost.                 *)
(***************************************************************************)
DeleteSegmentsHangs(n, first, last) ==
    /\ first <= last /\ last = MaxSegment
    /\ \E gone \in SUBSET InRange(n, 0, MaxSegment) : DeleteData(gone)
    /\ state' = "hangs"

DeleteStep ==
    /\ UNCHANGED watchVars
    /\ \/ /\ UNCHANGED state
          /\ \E n \in Names : DeleteSingle(n) \/ DeleteSelected(n)
       \/ \E n \in Names, range \in Ranges :
             \/ DeleteSegments(n, range[1], range[2])
             \/ DeleteSegmentsHangs(n, range[1], range[2])
       \/ DeleteSegmentsUnbounded

-----------------------------------------------------------------------------
DeleteInit == WatchInit /\ deleted = {}

DeleteNext ==
    /\ state = "up"
    /\ \/ WatchStep /\ UNCHANGED deleted
       \/ DeleteStep

(***************************************************************************)
(* The Face ends every Interest, by data or by the timeout, and time       *)
(* passes.                                                                 *)
(***************************************************************************)
DeleteSpec ==
    /\ DeleteInit
    /\ [][DeleteNext]_deleteVars
    /\ \A i \in Chains : WF_deleteVars(state = "up" /\ Callback(i) /\ UNCHANGED deleted)
    /\ WF_deleteVars(state = "up" /\ TimePasses /\ UNCHANGED deleted)

-----------------------------------------------------------------------------
(***************************************************************************)
(* PROPERTIES                                                              *)
(***************************************************************************)

(***************************************************************************)
(* What was deleted stays deleted while the watch that stored it goes on:  *)
(* only another watch of the name can bring it back.                       *)
(***************************************************************************)
DeletedStaysDeleted ==
    \A d \in deleted \cap stored : history[d.name].starts > 1
=============================================================================
