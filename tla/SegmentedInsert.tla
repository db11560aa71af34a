--------------------------- MODULE SegmentedInsert ---------------------------
(***************************************************************************)
(* One process of the segmented insert of WriteHandle: the part of the     *)
(* handler that is in the source between `#if 0` and `#endif` and waits to *)
(* be ported to StorageEngine and ndn-cpp.  The process fetches the        *)
(* segments start..end of a packet name with at most m_credit Interests in *)
(* flight; without an end it goes on until a packet names the final block. *)
(* Processes share nothing but the storage, so there is one of them.       *)
(***************************************************************************)
EXTENDS Integers, Sequences, Bags, SequencesExt

CONSTANTS
    MaxSegment,     \* the largest SegmentNo: 2^64 - 1
    MaxCredit,      \* m_credit (DEFAULT_CREDIT)
    RetryTime,      \* m_retryTime (RETRY_TIMEOUT)
    Commands,       \* what insert commands ask for: start and end
    Produced,       \* the segments the network can deliver
    FinalBlocks     \* FinalBlockIds in the packets; NoBlock stands for none

Segment == 0..MaxSegment
NoBlock == -1

ASSUME SegmentAssumption ==
    /\ MaxSegment \in Nat /\ MaxCredit \in Nat \ {0} /\ RetryTime \in Nat
    /\ Commands \subseteq [start : Segment, end : Segment \cup {NoBlock}]
    /\ Produced \subseteq Segment
    /\ FinalBlocks \subseteq Segment \cup {NoBlock}

(***************************************************************************)
(* Objects are smaller than SegmentNo allows, and a FinalBlockId is the    *)
(* number of the last segment or of a later one.                           *)
(***************************************************************************)
ASSUME ObjectAssumption ==
    /\ \A s \in Produced : s + MaxCredit < MaxSegment
    /\ \A f \in FinalBlocks \ {NoBlock} : f < MaxSegment /\ \A s \in Produced : s <= f

VARIABLES
    process,    \* the ProcessInfo, or None before the command and Gone after
    pending,    \* Interests in flight: a bag of segments
    deleting,   \* deferredDeleteProcess has scheduled deleteProcess
    stored,     \* segments in the storage
    reply,      \* the last reply to an insert or to an insert check command
    command,    \* not in the program: the command the process is for
    invalid,    \* not in the program: segments that failed validation
    refused     \* not in the program: segments that the storage did not insert

programVars == <<process, pending, deleting, stored, reply>>
vars == <<programVars, command, invalid, refused>>

None == [code |-> 0]
Gone == [code |-> -1]
Present == process \notin {None, Gone}

(***************************************************************************)
(* Arithmetic on SegmentNo wraps around.                                   *)
(***************************************************************************)
Plus(s, n) == (s + n) % (MaxSegment + 1)
Between(first, last) == Plus(last - first, 1)

HasEnd(p) == p.end # NoBlock

Forgotten(s) == pending (-) SetToBag({s})

Reply(verb, code) == reply' = [verb |-> verb, code |-> code]

-----------------------------------------------------------------------------
(***************************************************************************)
(* processSegmentedInsertCommand and segInit: reply 100, express as many   *)
(* Interests as there are credits, queue the next segment.  The loop       *)
(* compares the segment with start + initialCredit, which may wrap.        *)
(***************************************************************************)
InitialCredit(c) ==
    IF c.end = NoBlock THEN MaxCredit
    ELSE LET n == Between(c.start, c.end) IN IF n < MaxCredit THEN n ELSE MaxCredit

FirstSegments(c) ==
    {s \in Segment : c.start <= s /\ s < Plus(c.start, InitialCredit(c))}

SegInit(c) ==
    LET first == FirstSegments(c)
        next == Plus(c.start, Cardinality(first))
    IN  /\ process' = [code |-> 300, start |-> c.start, end |-> c.end, insertNum |-> 0,
                       credit |-> InitialCredit(c) - Cardinality(first),
                       nextSegment |-> next, queue |-> <<next>>,
                       retryCounts |-> [s \in first |-> 0], expired |-> FALSE]
        /\ pending' = SetToBag(first)

InsertSegments(c) ==
    /\ process = None
    /\ c.end # NoBlock => c.start <= c.end
    /\ SegInit(c)
    /\ Reply("insert", 100)
    /\ command' = c
    /\ UNCHANGED <<deleting, stored, invalid, refused>>

InsertRefused(c) ==
    /\ c.end # NoBlock /\ c.start > c.end
    /\ Reply("insert", 403)
    /\ UNCHANGED <<process, pending, deleting, stored, command, invalid, refused>>

-----------------------------------------------------------------------------
(***************************************************************************)
(* onSegmentDataValidated: the packet may lower the end or set it, and is  *)
(* inserted; insertData is false when the storage has it or fails.         *)
(***************************************************************************)
Refreshed(p, final) ==
    IF final # NoBlock /\ (HasEnd(p) => final < p.end)
    THEN [p EXCEPT !.end = final] ELSE p

(***************************************************************************)
(* Mutant: a packet counts whether or not it was inserted.                 *)
(***************************************************************************)
ReceivedCountsAll(p, final, inserted) ==
    [Refreshed(p, final) EXCEPT !.credit = @ + 1, !.insertNum = @ + 1]

Received(p, final, inserted) ==
    [Refreshed(p, final) EXCEPT !.credit = @ + 1,
                                !.insertNum = @ + (IF inserted THEN 1 ELSE 0)]

Inserts(s, inserted) ==
    /\ inserted => s \notin stored
    /\ stored' = stored \cup (IF inserted THEN {s} ELSE {})
    /\ refused' = refused \cup (IF inserted THEN {} ELSE {s})

(***************************************************************************)
(* onSegmentDataControl, branch by branch; p is the process as above.      *)
(***************************************************************************)
TimedOut(p) == ~HasEnd(p) /\ p.expired
Complete(p) == HasEnd(p) /\ p.insertNum >= Between(p.start, p.end)
Idles(p) == p.credit = 0 \/ p.queue = << >>

(***************************************************************************)
(* Mutant: the end itself is taken to exceed the range.                    *)
(***************************************************************************)
ExceedsAtEnd(p) == HasEnd(p) /\ Head(p.queue) >= p.end

Exceeds(p) == HasEnd(p) /\ Head(p.queue) > p.end

Closes(p, code) ==
    /\ process' = [p EXCEPT !.code = code]
    /\ deleting' = TRUE

(***************************************************************************)
(* Mutant: the segment after the next is never the last.                   *)
(***************************************************************************)
AdvanceStopsShort(p) ==
    IF ~HasEnd(p) \/ Plus(p.nextSegment, 1) < p.end
    THEN [p EXCEPT !.nextSegment = Plus(@, 1), !.queue = Append(@, Plus(p.nextSegment, 1))]
    ELSE p

Advance(p) ==
    IF ~HasEnd(p) \/ Plus(p.nextSegment, 1) <= p.end
    THEN [p EXCEPT !.nextSegment = Plus(@, 1), !.queue = Append(@, Plus(p.nextSegment, 1))]
    ELSE p

Popped(p) == [p EXCEPT !.queue = Tail(@)]

RetryCount(counts, s) == IF s \in DOMAIN counts THEN counts[s] ELSE 0

(***************************************************************************)
(* retryCounts[s] = n, for a segment that has an entry or not.             *)
(***************************************************************************)
SetCount(counts, s, n) ==
    [t \in DOMAIN counts \cup {s} |-> IF t = s THEN n ELSE counts[t]]

(***************************************************************************)
(* Mutant: the sending segment is not entered.                             *)
(***************************************************************************)
CountSendingForgets(p, fetched, sending) ==
    [p EXCEPT !.retryCounts = [s \in DOMAIN @ \ {fetched} |-> p.retryCounts[s]]]

(***************************************************************************)
(* The fetched segment leaves retryCounts, the sending one enters it.      *)
(***************************************************************************)
CountSending(p, fetched, sending) ==
    LET counts == [s \in DOMAIN p.retryCounts \ {fetched} |-> p.retryCounts[s]]
    IN  [p EXCEPT !.retryCounts =
            SetCount(counts, sending,
                     IF sending \in DOMAIN counts THEN counts[sending] + 1 ELSE 0)]

(***************************************************************************)
(* Mutant: the credit of the next Interest is not taken.                   *)
(***************************************************************************)
SendsForFree(p, fetched) ==
    LET sending == Head(p.queue)
    IN  /\ pending' = Forgotten(fetched) (+) SetToBag({sending})
        /\ process' = Advance(CountSending(Popped(p), fetched, sending))

Sends(p, fetched) ==
    LET sending == Head(p.queue)
    IN  /\ pending' = Forgotten(fetched) (+) SetToBag({sending})
        /\ process' = Advance(CountSending([Popped(p) EXCEPT !.credit = @ - 1],
                                           fetched, sending))

Control(p, s) ==
    \/ TimedOut(p) /\ Closes(p, 405) /\ pending' = Forgotten(s)
    \/ Complete(p) /\ Closes(p, 200) /\ pending' = Forgotten(s)
    \/ /\ ~TimedOut(p) /\ ~Complete(p)
       /\ UNCHANGED deleting
       /\ \/ Idles(p) /\ process' = p /\ pending' = Forgotten(s)
          \/ ~Idles(p) /\ Exceeds(p) /\ process' = Popped(p) /\ pending' = Forgotten(s)
          \/ ~Idles(p) /\ ~Exceeds(p) /\ Sends(p, s)

OnSegmentData(s, final, inserted) ==
    /\ Present
    /\ Inserts(s, inserted)
    /\ Control(Received(process, final, inserted), s)
    /\ UNCHANGED <<reply, command, invalid>>

(***************************************************************************)
(* onSegmentDataValidated when the process has left the table.             *)
(***************************************************************************)
DropSegmentData(s) ==
    /\ ~Present
    /\ pending' = Forgotten(s)
    /\ UNCHANGED <<process, deleting, stored, reply, command, invalid, refused>>

(***************************************************************************)
(* onDataValidationFailed only logs: the Interest's credit does not return.*)
(***************************************************************************)
OnDataValidationFailed(s) ==
    /\ pending' = Forgotten(s)
    /\ invalid' = invalid \cup {s}
    /\ UNCHANGED <<process, deleting, stored, reply, command, refused>>

(***************************************************************************)
(* Mutant: one timeout more than RetryTime is retried.                     *)
(***************************************************************************)
SegmentRetryOnceMore(s) ==
    /\ Present
    /\ RetryCount(process.retryCounts, s) <= RetryTime
    /\ process' = [process EXCEPT !.retryCounts =
                      SetCount(@, s, RetryCount(@, s) + 1)]
    /\ UNCHANGED <<pending, deleting, stored, reply, command, invalid, refused>>

(***************************************************************************)
(* onSegmentTimeout, the callback for a timeout and for a nack: express    *)
(* the Interest again, or fail the process after RetryTime of them.        *)
(***************************************************************************)
SegmentRetry(s) ==
    /\ Present
    /\ RetryCount(process.retryCounts, s) < RetryTime
    /\ process' = [process EXCEPT !.retryCounts =
                      SetCount(@, s, RetryCount(@, s) + 1)]
    /\ UNCHANGED <<pending, deleting, stored, reply, command, invalid, refused>>

SegmentFails(s) ==
    /\ Present
    /\ RetryCount(process.retryCounts, s) >= RetryTime
    /\ process' = Gone
    /\ pending' = Forgotten(s)
    /\ UNCHANGED <<deleting, stored, reply, command, invalid, refused>>

DropSegmentTimeout(s) ==
    /\ ~Present
    /\ pending' = Forgotten(s)
    /\ UNCHANGED <<process, deleting, stored, reply, command, invalid, refused>>

SegmentTimeout(s) == SegmentRetry(s) \/ SegmentFails(s) \/ DropSegmentTimeout(s)

(***************************************************************************)
(* deleteProcess, 10 s after it was scheduled.                             *)
(***************************************************************************)
DeleteProcess ==
    /\ deleting
    /\ process' = Gone
    /\ deleting' = FALSE
    /\ UNCHANGED <<pending, stored, reply, command, invalid, refused>>

(***************************************************************************)
(* The clock passes noEndTime.                                             *)
(***************************************************************************)
NoEndTimePasses ==
    /\ Present /\ command.end = NoBlock
    /\ process' = [process EXCEPT !.expired = TRUE]
    /\ UNCHANGED <<pending, deleting, stored, reply, command, invalid, refused>>

(***************************************************************************)
(* extendNoEndTime moves a time that has not passed, which the model does  *)
(* not see, or sets the code.  onCheckValidated replies the code.          *)
(***************************************************************************)
ExtendNoEndTime(p) == IF TimedOut(p) THEN [p EXCEPT !.code = 405] ELSE p

Check ==
    /\ Present
    /\ process' = ExtendNoEndTime(process)
    /\ Reply("check", process'.code)
    /\ UNCHANGED <<pending, deleting, stored, command, invalid, refused>>

CheckUnknown ==
    /\ ~Present
    /\ Reply("check", 404)
    /\ UNCHANGED <<process, pending, deleting, stored, command, invalid, refused>>

MalformedCheck ==
    /\ Reply("check", 403)
    /\ UNCHANGED <<process, pending, deleting, stored, command, invalid, refused>>

-----------------------------------------------------------------------------
(***************************************************************************)
(* The storage may hold some of the segments already.                      *)
(***************************************************************************)
SegmentedInit ==
    /\ process = None /\ pending = EmptyBag /\ deleting = FALSE
    /\ stored \in {{}} \cup {{s} : s \in Produced}
    /\ reply = [verb |-> "none", code |-> 0]
    /\ command = [start |-> 0, end |-> NoBlock]
    /\ invalid = {} /\ refused = {}

SegmentArrives(s) ==
    \/ \E final \in FinalBlocks, inserted \in BOOLEAN : OnSegmentData(s, final, inserted)
    \/ DropSegmentData(s)
    \/ OnDataValidationFailed(s)

FetchEnds(s) ==
    /\ BagIn(s, pending)
    /\ SegmentTimeout(s) \/ (s \in Produced /\ SegmentArrives(s))

SegmentedNext ==
    \/ \E c \in Commands : InsertSegments(c) \/ InsertRefused(c)
    \/ \E s \in Segment : FetchEnds(s)
    \/ DeleteProcess
    \/ NoEndTimePasses
    \/ Check \/ CheckUnknown \/ MalformedCheck

(***************************************************************************)
(* The Face calls back for each Interest, the scheduler runs what is due.  *)
(* Nothing is assumed of noEndTime: checks can put it off for ever.        *)
(***************************************************************************)
SegmentedSpec ==
    /\ SegmentedInit
    /\ [][SegmentedNext]_vars
    /\ \A s \in Segment : WF_vars(FetchEnds(s))
    /\ WF_vars(DeleteProcess)

-----------------------------------------------------------------------------
(***************************************************************************)
(* PROPERTIES                                                              *)
(***************************************************************************)

SegmentedTypeOK ==
    /\ process \in {None, Gone} \/
          /\ process.code \in {300, 200, 405}
          /\ process.end \in Segment \cup {NoBlock}
          /\ process.nextSegment \in Segment
          /\ process.queue \in Seq(Segment)
          /\ process.retryCounts \in [DOMAIN process.retryCounts -> 0..RetryTime]
    /\ BagToSet(pending) \subseteq Segment
    /\ stored \subseteq Segment /\ invalid \subseteq Segment /\ refused \subseteq Segment
    /\ deleting \in BOOLEAN

(***************************************************************************)
(* Credits are neither made nor lost: those of a process are in its hand,  *)
(* in flight, or with a packet whose validation failed (which              *)
(* onDataValidationFailed does not give back).  Each Interest in flight is *)
(* for another segment.                                                    *)
(***************************************************************************)
CreditConserved ==
    Present =>
        /\ process.credit + Cardinality(BagToSet(pending)) + Cardinality(invalid)
              = InitialCredit(command)
        /\ \A s \in BagToSet(pending) : pending[s] = 1

(***************************************************************************)
(* The BOOST_ASSERTs of both control functions: an Interest in flight has  *)
(* its segment in retryCounts, so its answer or timeout finds it there.    *)
(***************************************************************************)
AssertionsHold ==
    Present => BagToSet(pending) \subseteq DOMAIN process.retryCounts

(***************************************************************************)
(* No segment is passed over: each one up to nextSegment and not beyond    *)
(* the end is queued, is being fetched, was inserted, or came and was not  *)
(* inserted.                                                               *)
(***************************************************************************)
NoSegmentSkipped ==
    Present =>
        \A s \in process.start..process.nextSegment :
            \/ HasEnd(process) /\ s > process.end
            \/ s \in ToSet(process.queue)
            \/ s \in stored \cup invalid \cup refused
            \/ BagIn(s, pending)

(***************************************************************************)
(* What 200 means ("All the data has been inserted"): when a check was     *)
(* answered 200, every segment from the start to the end the command gave  *)
(* (or to the final block, if it is lower) is stored.                      *)
(***************************************************************************)
LastSegment ==
    LET ends == ({command.end} \cup FinalBlocks) \ {NoBlock}
    IN  CHOOSE s \in ends : \A other \in ends : s <= other

CheckedIsStored ==
    reply = [verb |-> "check", code |-> 200] =>
        command.start..LastSegment \subseteq stored

(***************************************************************************)
(* The command stays clear of the end of SegmentNo; otherwise start +      *)
(* initialCredit wraps, no Interest is sent, and the process stays.        *)
(***************************************************************************)
Fits ==
    /\ command.start + MaxCredit <= MaxSegment
    /\ command.end < MaxSegment

(***************************************************************************)
(* A process ends, whatever is lost, late or never produced and however    *)
(* often it is checked, unless a packet came and was not inserted: then    *)
(* insertNum never reaches the number of segments, and nothing removes the *)
(* process.                                                                *)
(***************************************************************************)
SegmentedEnds ==
    Present /\ Fits ~> ~Present \/ invalid \cup refused # {}
=============================================================================
