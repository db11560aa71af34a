---------------------------- MODULE PatternHandle ----------------------------
(***************************************************************************)
(* PatternHandle and the fetch patterns.  A command Interest starts a      *)
(* pattern for a prefix, another one cancels it.  A CounterPattern fetches *)
(* prefix/0, prefix/1, ... one after the other, stores what it gets, and   *)
(* stops after CounterEnd packets.  The patterns of optional libraries     *)
(* leave the fetching to the library: an NdnrtcPattern hands it the        *)
(* function that stores a packet, a GeneralizedObjectPattern does nothing  *)
(* (the lines that would are commented out).                               *)
(*                                                                         *)
(* The table patterns_ owns the pattern objects.  The callbacks a pattern  *)
(* leaves with the Face (its delayed doFetch, the onData of its Interest)  *)
(* are bound to `this`, a raw pointer, and nothing withdraws them when the *)
(* pattern is cancelled and freed.  Such a callback then runs on freed     *)
(* memory, for which this module allows what a build can produce: the      *)
(* process ends, or the callback sees the old contents, or it acts on the  *)
(* next CounterPattern, allocated at the same address.                     *)
(***************************************************************************)
EXTENDS StorageEngine, Face

CONSTANTS
    FetchPrefixes,  \* prefixes that pattern and cancel commands name
    CounterEnd,     \* 10 in the code
    CounterText,    \* std::to_string of a counter, as a name component
    OptionalKinds,  \* kinds of patterns that the build has besides counter
    StreamNames,    \* names in which extractInfo finds an ndnrtc stream
    MaxCalls        \* bound: a pattern starts only where fewer calls are due

ASSUME FetchPrefixesAssumption == FetchPrefixes \subseteq Name
ASSUME CounterEndAssumption == CounterEnd \in Nat \ {0}
ASSUME CounterTextAssumption ==
    /\ CounterText \in [0..(CounterEnd - 1) -> Component]
    /\ IsInjective(CounterText)
ASSUME MaxCallsAssumption == MaxCalls \in Nat
ASSUME OptionalKindsAssumption == OptionalKinds \subseteq {"ndnrtc", "gobj"}

VARIABLES
    patterns,   \* patterns_: its counters, pairs of fetch prefix and object
    others,     \* patterns_: the rest, pairs of fetch prefix and kind
    heap,       \* contents of the memory at each address
    allocated,  \* addresses of live CounterPattern objects
    history     \* of the last object at each address; see below

counterVars == <<patterns, heap, allocated, history>>
patternVars == <<counterVars, others>>

(***************************************************************************)
(* history is not part of the program.  clean: no callback of an earlier   *)
(* object was due when the object was allocated; lost: an Interest of the  *)
(* object has timed out.                                                   *)
(***************************************************************************)
Pattern == [prefix : FetchPrefixes, obj : Address]
Other == [prefix : FetchPrefixes, kind : OptionalKinds]
Object == [prefix : Name, counter : Nat, running : BOOLEAN]
History == [clean : BOOLEAN, lost : BOOLEAN]

Active(p) == \E x \in patterns \cup others : x.prefix = p

(***************************************************************************)
(* NdnrtcPattern has a streamRecorder_ only if fetch found a stream in the *)
(* prefix; PatternHandle enters it into the table in any case.             *)
(***************************************************************************)
Recorder(x) == x.kind = "ndnrtc" /\ x.prefix \in StreamNames
NullRecorder(x) == x.kind = "ndnrtc" /\ x.prefix \notin StreamNames

PatternFetches == {e \in pit : e.handle = "pattern"}
FetchesOf(a) == {e \in PatternFetches : e.ctx = a}
NoCallback(a) == calls[a] = 0 /\ FetchesOf(a) = {}

FetchName(a, n) == Append(heap[a].prefix, CounterText[n])

CallLater(a) == calls' = [calls EXCEPT ![a] = @ + 1]

-----------------------------------------------------------------------------
(***************************************************************************)
(* PatternHandle::onInterest, the four ways it ends.                       *)
(***************************************************************************)
Refuse(verb, code) ==
    /\ up
    /\ Reply(verb, code)
    /\ UNCHANGED <<engineVars, up, pit, calls, patternVars>>

MalformedPattern == Refuse("pattern", 403)
DuplicatePattern(p) == Active(p) /\ Refuse("pattern", 402)
UnknownPattern(p) == ~Active(p) /\ Refuse("pattern", 404)

(***************************************************************************)
(* create, fetch (prefix, counter 0, a call of doFetch in 1 ms, running),  *)
(* enter into the table, reply 100.  The handler also emits                *)
(* onDataInsertion(RenamePrefix \o p): module FastRepo.                    *)
(***************************************************************************)
StartPattern(p, a) ==
    /\ up
    /\ ~Active(p)
    /\ a \notin allocated
    /\ calls[a] < MaxCalls
    /\ allocated' = allocated \cup {a}
    /\ heap' = [heap EXCEPT ![a] = [prefix |-> p, counter |-> 0, running |-> TRUE]]
    /\ CallLater(a)
    /\ patterns' = patterns \cup {[prefix |-> p, obj |-> a]}
    /\ Reply("pattern", 100)
    /\ history' = [history EXCEPT ![a] = [clean |-> NoCallback(a), lost |-> FALSE]]
    /\ UNCHANGED <<engineVars, up, pit, others>>

(***************************************************************************)
(* PatternHandle::onCancelRequest.                                         *)
(***************************************************************************)
MalformedCancel == Refuse("cancel", 403)
CancelUnknown(p) == ~Active(p) /\ Refuse("cancel", 402)

(***************************************************************************)
(* Mutant: the pattern is cancelled but its entry stays in the table.      *)
(***************************************************************************)
CancelKeepsEntry(p) ==
    \E x \in patterns :
        /\ up
        /\ x.prefix = p
        /\ heap' = [heap EXCEPT ![x.obj].running = FALSE]
        /\ allocated' = allocated \ {x.obj}
        /\ Reply("cancel", 101)
        /\ UNCHANGED <<engineVars, up, pit, calls, patterns, history, others>>

(***************************************************************************)
(* cancel() clears running_; erasing the entry drops the last reference,   *)
(* so the object is freed with that value in it.                           *)
(***************************************************************************)
CancelPattern(p) ==
    \E x \in patterns :
        /\ up
        /\ x.prefix = p
        /\ heap' = [heap EXCEPT ![x.obj].running = FALSE]
        /\ patterns' = patterns \ {x}
        /\ allocated' = allocated \ {x.obj}
        /\ Reply("cancel", 101)
        /\ UNCHANGED <<engineVars, up, pit, calls, history, others>>

-----------------------------------------------------------------------------
(***************************************************************************)
(* The same two handlers for the other kinds.  What is announced and what  *)
(* is replied is the same, a prefix without a stream included.             *)
(***************************************************************************)
StartOther(p, kind) ==
    /\ up
    /\ ~Active(p)
    /\ others' = others \cup {[prefix |-> p, kind |-> kind]}
    /\ Reply("pattern", 100)
    /\ UNCHANGED <<engineVars, up, pit, calls, counterVars>>

CancelOther(p) ==
    \E x \in others :
        /\ up
        /\ x.prefix = p
        /\ others' = others \ {x}
        /\ Reply("cancel", 101)
        /\ UNCHANGED <<engineVars, up, pit, calls, counterVars>>

(***************************************************************************)
(* The StreamRecorder of libndnrtc hands a packet of its stream to         *)
(* StorageEngine::put; after stop() it hands over nothing.  The names it   *)
(* asks for are its own business: the packet is one below the prefix.      *)
(***************************************************************************)
RecorderData(x, d, ok) ==
    /\ up
    /\ Recorder(x)
    /\ IsPrefix(x.prefix, d)
    /\ Put(d, ok)
    /\ UNCHANGED <<keysTrieBuilt, scanned, faceVars, patternVars>>

-----------------------------------------------------------------------------
(***************************************************************************)
(* CounterPattern::doFetch, called from the io_service: nothing when the   *)
(* pattern is no longer running, else the Interest for the next name.      *)
(* expressInterest is given no timeout callback.                           *)
(***************************************************************************)
DoFetchNothing(a) ==
    /\ up
    /\ calls[a] > 0
    /\ calls' = [calls EXCEPT ![a] = @ - 1]
    /\ ~heap[a].running
    /\ UNCHANGED <<engineVars, up, pit, reply, patternVars>>

(***************************************************************************)
(* Mutant: doFetch also schedules itself again.                            *)
(***************************************************************************)
DoFetchRearms(a, f) ==
    /\ up
    /\ calls[a] > 0
    /\ heap[a].running
    /\ ExpressInterest(f, FetchName(a, heap[a].counter), "pattern", a)
    /\ UNCHANGED <<engineVars, up, calls, reply, patternVars>>

DoFetch(a, f) ==
    /\ up
    /\ calls[a] > 0
    /\ calls' = [calls EXCEPT ![a] = @ - 1]
    /\ heap[a].running
    /\ ExpressInterest(f, FetchName(a, heap[a].counter), "pattern", a)
    /\ UNCHANGED <<engineVars, up, reply, patternVars>>

(***************************************************************************)
(* CounterPattern::onData: store, whatever the outcome; count; call        *)
(* doFetch again in 2 s, or stop.  running_ is not looked at.              *)
(***************************************************************************)
AfterData(a, next, more) ==
    IF more
      THEN /\ CallLater(a)
           /\ heap' = [heap EXCEPT ![a].counter = next]
      ELSE /\ heap' = [heap EXCEPT ![a].counter = next, ![a].running = FALSE]
           /\ UNCHANGED calls

PatternAnswer(e, d, ok, next, more) ==
    /\ up
    /\ Put(d, ok)
    /\ Forget(e)
    /\ AfterData(e.ctx, next, more)
    /\ UNCHANGED <<keysTrieBuilt, scanned, up, reply, patterns, allocated, history, others>>

(***************************************************************************)
(* Mutants: the counter is not incremented; it is compared with CounterEnd *)
(* before it is incremented.                                               *)
(***************************************************************************)
PatternDataRefetches(e, d, ok) ==
    PatternAnswer(e, d, ok, heap[e.ctx].counter, heap[e.ctx].counter < CounterEnd)

PatternDataOneMore(e, d, ok) ==
    PatternAnswer(e, d, ok, heap[e.ctx].counter + 1, heap[e.ctx].counter < CounterEnd)

PatternData(e, d, ok) ==
    PatternAnswer(e, d, ok, heap[e.ctx].counter + 1, heap[e.ctx].counter + 1 < CounterEnd)

(***************************************************************************)
(* The Interest times out or is nacked: the Face forgets it and calls      *)
(* nobody.                                                                 *)
(***************************************************************************)
PatternTimeout(e) ==
    /\ up
    /\ Forget(e)
    /\ history' = [history EXCEPT ![e.ctx].lost = TRUE]
    /\ UNCHANGED <<engineVars, up, calls, reply, patterns, heap, allocated, others>>

(***************************************************************************)
(* A callback on freed memory ends the process.                            *)
(***************************************************************************)
DanglingCallbackCrash(a) ==
    /\ up
    /\ a \notin allocated
    /\ ~NoCallback(a)
    /\ up' = FALSE
    /\ UNCHANGED <<engineVars, pit, calls, reply, patternVars>>

NoObjects == [a \in Address |-> [prefix |-> << >>, counter |-> 0, running |-> FALSE]]
NoHistory == [a \in Address |-> [clean |-> FALSE, lost |-> FALSE]]

PatternInit ==
    /\ patterns = {} /\ others = {}
    /\ allocated = {} /\ heap = NoObjects /\ history = NoHistory

PatternLost ==
    /\ patterns' = {} /\ others' = {}
    /\ allocated' = {} /\ heap' = NoObjects /\ history' = NoHistory

PatternTypeOK ==
    /\ patterns \subseteq Pattern
    /\ others \subseteq Other
    /\ heap \in [Address -> Object]
    /\ allocated \subseteq Address
    /\ history \in [Address -> History]

-----------------------------------------------------------------------------
(***************************************************************************)
(* The handler on its own, in a process that is up, on an empty database.  *)
(***************************************************************************)
patternAloneVars == <<engineVars, faceVars, patternVars>>

PatternAloneInit ==
    /\ db = {} /\ keysTrieBuilt = TRUE /\ scanned = {}
    /\ up = TRUE
    /\ FaceInit
    /\ PatternInit

PatternCommand ==
    \/ MalformedPattern
    \/ MalformedCancel
    \/ \E p \in FetchPrefixes :
          \/ DuplicatePattern(p)
          \/ UnknownPattern(p)
          \/ \E a \in Address : StartPattern(p, a)
          \/ \E kind \in OptionalKinds : StartOther(p, kind)
          \/ CancelUnknown(p)
          \/ CancelPattern(p)
          \/ CancelOther(p)

TimerFires(a) == DoFetchNothing(a) \/ \E f \in FreeIds : DoFetch(a, f)

PatternFetchEnds(e) ==
    \/ PatternTimeout(e)
    \/ \E d \in Packets, ok \in PutOutcomes : Answers(d, e) /\ PatternData(e, d, ok)

PatternCallback ==
    \/ \E a \in Address : TimerFires(a) \/ DanglingCallbackCrash(a)
    \/ \E e \in PatternFetches : PatternFetchEnds(e)
    \/ \E x \in others, d \in Packets, ok \in PutOutcomes : RecorderData(x, d, ok)

(***************************************************************************)
(* A delayed call is made, and an Interest is answered or times out.       *)
(***************************************************************************)
PatternAloneSpec ==
    /\ PatternAloneInit
    /\ [][PatternCommand \/ PatternCallback]_patternAloneVars
    /\ \A a \in Address : WF_patternAloneVars(TimerFires(a))
    /\ \A f \in FetchIds : WF_patternAloneVars(
          \E e \in PatternFetches : e.id = f /\ PatternFetchEnds(e))

-----------------------------------------------------------------------------
(***************************************************************************)
(* PROPERTIES                                                              *)
(***************************************************************************)
PatternAloneTypeOK == EngineTypeOK /\ FaceTypeOK /\ PatternTypeOK

(***************************************************************************)
(* patterns_ is a map from prefixes, whatever the kind, to distinct live   *)
(* objects, it owns all of them, and each object fetches the prefix it is  *)
(* filed under.                                                            *)
(***************************************************************************)
TableOwnsObjects ==
    /\ \A x, y \in others : x.prefix = y.prefix => x = y
    /\ \A x \in patterns, y \in others : x.prefix # y.prefix
    /\ \A x, y \in patterns : x.prefix = y.prefix \/ x.obj = y.obj => x = y
    /\ allocated = {x.obj : x \in patterns}
    /\ \A x \in patterns : heap[x.obj].prefix = x.prefix

Clean(a) == a \in allocated /\ history[a].clean

(***************************************************************************)
(* The loop doFetch - onData - doFetch of a live pattern that has not      *)
(* inherited a predecessor's callbacks is a single one: at most one        *)
(* callback is due, and while the pattern runs there is one unless an      *)
(* Interest was lost.                                                      *)
(***************************************************************************)
OneFetchLoop ==
    \A a \in Address : Clean(a) =>
        /\ calls[a] \in {0, 1}
        /\ \A e1, e2 \in FetchesOf(a) : e1 = e2
        /\ calls[a] = 1 => FetchesOf(a) = {}
        /\ NoCallback(a) => history[a].lost \/ ~heap[a].running

(***************************************************************************)
(* No gap: when the storage accepts every packet, prefix/0 .. prefix/(c-1) *)
(* are all in it once the counter of such a pattern is c; it stops when c  *)
(* is CounterEnd and not before.                                           *)
(***************************************************************************)
CountedIsStored ==
    /\ \A a \in Address : heap[a].running => heap[a].counter < CounterEnd
    /\ \A a \in Address : Clean(a) =>
        /\ heap[a].running \/ heap[a].counter = CounterEnd
        /\ PutOutcomes = {TRUE} =>
              \A i \in 0..(heap[a].counter - 1) :
                  \E k \in db : IsPrefix(KeyOf(FetchName(a, i)), k)

(***************************************************************************)
(* A pattern does not run for ever: it finishes, is cancelled, or has no   *)
(* callback left after a lost Interest (there is no retry).                *)
(***************************************************************************)
RunningEnds ==
    \A a \in Address : heap[a].running ~> ~heap[a].running \/ NoCallback(a) \/ ~up

(***************************************************************************)
(* What the documentation says and the code does not do.                   *)
(*                                                                         *)
(* base-pattern.hpp: cancel() is for when "(ongoing) fetching must be      *)
(* cancelled immediately" - so nothing is stored for a prefix whose        *)
(* pattern is no longer in the table.                                      *)
(***************************************************************************)
CancelStopsFetching ==
    [][\A k \in db' \ db : \E x \in patterns : IsPrefix(KeyOf(x.prefix), k)
      ]_patternAloneVars
=============================================================================
