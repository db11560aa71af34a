-------------------------- MODULE PatternHandle_proofs --------------------------
(***************************************************************************)
(* Invariants of the pattern handler, for every set of prefixes, addresses *)
(* and packets and every number of packets of a pattern: on its own, and   *)
(* under the commands of any number of clients.                            *)
(***************************************************************************)
EXTENDS PatternClient, StorageEngine_proofs, FiniteSetTheorems

HandlerStep == PatternCommand \/ PatternCallback

(***************************************************************************)
(* The cases of a step of the handler.                                     *)
(***************************************************************************)
LEMMA HandlerCases ==
    ASSUME HandlerStep
    PROVE  \/ \E verb \in Verbs, code \in Codes : Refuse(verb, code)
           \/ \E p \in FetchPrefixes : CancelPattern(p)
           \/ \E p \in FetchPrefixes, a \in Address : StartPattern(p, a)
           \/ \E a \in Address : DoFetchNothing(a)
           \/ \E a \in Address, f \in FreeIds : DoFetch(a, f)
           \/ \E e \in PatternFetches : PatternTimeout(e)
           \/ \E e \in PatternFetches, d \in Packets, ok \in PutOutcomes :
                 Answers(d, e) /\ PatternData(e, d, ok)
           \/ \E p \in FetchPrefixes, kind \in OptionalKinds : StartOther(p, kind)
           \/ \E p \in FetchPrefixes : CancelOther(p)
           \/ \E x \in others, d \in Packets, ok \in PutOutcomes : RecorderData(x, d, ok)
           \/ \E a \in Address : DanglingCallbackCrash(a)
  <1>1. {"pattern", "cancel"} \subseteq Verbs /\ {402, 403, 404} \subseteq Codes
    BY DEF Verbs, Codes
  <1> QED BY <1>1 DEF HandlerStep, PatternCommand, PatternCallback, MalformedPattern,
                      MalformedCancel, DuplicatePattern, UnknownPattern, CancelUnknown,
                      TimerFires, PatternFetchEnds

-----------------------------------------------------------------------------
(***************************************************************************)
(* Type correctness.  A running pattern has names left.                    *)
(***************************************************************************)
NamesLeft == \A a \in Address : heap[a].running => heap[a].counter < CounterEnd

HandlerType == PatternAloneTypeOK /\ NamesLeft

LEMMA HandlerTypeInit == PatternAloneInit => HandlerType
  <1> SUFFICES ASSUME PatternAloneInit PROVE HandlerType
    OBVIOUS
  <1> USE DEF PatternAloneInit, FaceInit, PatternInit, NoCalls, NoReply, NoObjects, NoHistory
  <1>1. EngineTypeOK /\ FaceTypeOK
    BY DEF EngineTypeOK, FaceTypeOK, Verbs, Codes
  <1>2. PatternTypeOK
    <2>1. << >> \in Name
      BY DEF Name
    <2> QED BY <2>1 DEF PatternTypeOK, Object, History
  <1> QED BY <1>1, <1>2 DEF HandlerType, PatternAloneTypeOK, NamesLeft

LEMMA StoredType ==
    ASSUME HandlerType, NEW d \in Packets, NEW ok \in PutOutcomes, Put(d, ok)
    PROVE  db' \subseteq Name
  <1>1. d \in Name /\ db \subseteq Name
    BY PacketsAssumption DEF HandlerType, PatternAloneTypeOK, EngineTypeOK
  <1> QED BY <1>1, KeyIsName DEF Put

(***************************************************************************)
(* What onData leaves in the object.                                       *)
(***************************************************************************)
LEMMA HeapAfterData ==
    ASSUME HandlerType, NEW e \in PatternFetches, NEW d \in Packets, NEW ok \in PutOutcomes,
           PatternData(e, d, ok)
    PROVE  /\ e.ctx \in Address
           /\ \A b \in Address \ {e.ctx} : heap'[b] = heap[b] /\ calls'[b] = calls[b]
           /\ heap'[e.ctx].prefix = heap[e.ctx].prefix
           /\ heap'[e.ctx].counter = heap[e.ctx].counter + 1
           /\ heap[e.ctx].counter + 1 < CounterEnd =>
                 /\ heap'[e.ctx].running = heap[e.ctx].running
                 /\ calls'[e.ctx] = calls[e.ctx] + 1
           /\ ~(heap[e.ctx].counter + 1 < CounterEnd) =>
                 /\ heap'[e.ctx].running = FALSE
                 /\ calls'[e.ctx] = calls[e.ctx]
           /\ heap' \in [Address -> Object]
           /\ calls' \in [Address -> Nat]
  <1> USE DEF HandlerType, PatternAloneTypeOK, FaceTypeOK, PatternTypeOK
  <1>1. e.ctx \in Address
    BY DEF PatternFetches, WriteFetch, PatternFetch
  <1>2. heap[e.ctx] \in Object /\ heap[e.ctx].counter + 1 \in Nat
    BY <1>1 DEF Object
  <1>3. CASE heap[e.ctx].counter + 1 < CounterEnd
    <2>1. /\ heap' = [heap EXCEPT ![e.ctx].counter = heap[e.ctx].counter + 1]
          /\ calls' = [calls EXCEPT ![e.ctx] = @ + 1]
      BY <1>3 DEF PatternData, PatternAnswer, AfterData, CallLater
    <2> QED BY <1>1, <1>2, <1>3, <2>1 DEF Object
  <1>4. CASE ~(heap[e.ctx].counter + 1 < CounterEnd)
    <2>1. /\ heap' = [heap EXCEPT ![e.ctx].counter = heap[e.ctx].counter + 1,
                                  ![e.ctx].running = FALSE]
          /\ calls' = calls
      BY <1>4 DEF PatternData, PatternAnswer, AfterData
    <2> QED BY <1>1, <1>2, <1>4, <2>1 DEF Object
  <1> QED BY <1>3, <1>4

LEMMA HandlerTypeStep ==
    ASSUME HandlerType, HandlerStep
    PROVE  HandlerType'
  <1> USE DEF HandlerType, PatternAloneTypeOK, EngineTypeOK, FaceTypeOK, PatternTypeOK, NamesLeft
  <1>1. ASSUME NEW verb \in Verbs, NEW code \in Codes, Refuse(verb, code)
        PROVE  HandlerType'
    BY <1>1 DEF Refuse, Reply, engineVars, patternVars, counterVars
  <1>2. ASSUME NEW p \in FetchPrefixes, CancelPattern(p)
        PROVE  HandlerType'
    <2>1. PICK x \in patterns :
             /\ heap' = [heap EXCEPT ![x.obj].running = FALSE]
             /\ patterns' = patterns \ {x}
             /\ allocated' = allocated \ {x.obj}
             /\ Reply("cancel", 101)
             /\ UNCHANGED <<engineVars, up, pit, calls, history, others>>
      BY <1>2 DEF CancelPattern
    <2>2. x.obj \in Address
      BY DEF Pattern
    <2>3. heap' \in [Address -> Object] /\ NamesLeft'
      BY <2>1, <2>2 DEF Object
    <2> QED BY <2>1, <2>3 DEF Reply, engineVars, Verbs, Codes
  <1>3. ASSUME NEW p \in FetchPrefixes, NEW a \in Address, StartPattern(p, a)
        PROVE  HandlerType'
    <2>1. p \in Name
      BY FetchPrefixesAssumption
    <2>2. heap' \in [Address -> Object] /\ NamesLeft'
      BY <1>3, <2>1, CounterEndAssumption DEF StartPattern, Object
    <2>3. patterns' \subseteq Pattern /\ others' \subseteq Other /\ allocated' \subseteq Address
      BY <1>3 DEF StartPattern, Pattern
    <2>4. history' \in [Address -> History]
      BY <1>3 DEF StartPattern, History, NoCallback
    <2>5. calls' \in [Address -> Nat]
      BY <1>3 DEF StartPattern, CallLater
    <2> QED BY <1>3, <2>2, <2>3, <2>4, <2>5 DEF StartPattern, engineVars, Reply, Verbs, Codes
  <1>4. ASSUME NEW a \in Address, DoFetchNothing(a)
        PROVE  HandlerType'
    BY <1>4 DEF DoFetchNothing, engineVars, patternVars, counterVars
  <1>5. ASSUME NEW a \in Address, NEW f \in FreeIds, DoFetch(a, f)
        PROVE  HandlerType'
    <2>1. heap[a].counter \in 0..(CounterEnd - 1) /\ heap[a].prefix \in Name
      BY <1>5, CounterEndAssumption DEF DoFetch, Object
    <2>2. FetchName(a, heap[a].counter) \in Name
      BY <2>1, CounterTextAssumption DEF FetchName, Name
    <2>3. f \in FetchIds
      BY DEF FreeIds
    <2>4. pit' \subseteq WriteFetch \cup PatternFetch
      BY <1>5, <2>2, <2>3 DEF DoFetch, ExpressInterest, PatternFetch
    <2> QED BY <1>5, <2>4 DEF DoFetch, engineVars, patternVars, counterVars
  <1>6. ASSUME NEW e \in PatternFetches, PatternTimeout(e)
        PROVE  HandlerType'
    <2>1. e.ctx \in Address
      BY DEF PatternFetches, WriteFetch, PatternFetch
    <2>2. history' \in [Address -> History]
      BY <1>6, <2>1 DEF PatternTimeout, History
    <2> QED BY <1>6, <2>2 DEF PatternTimeout, Forget, engineVars
  <1>7. ASSUME NEW e \in PatternFetches, NEW d \in Packets, NEW ok \in PutOutcomes,
               PatternData(e, d, ok)
        PROVE  HandlerType'
    <2>1. db' \subseteq Name
      BY <1>7, StoredType DEF PatternData, PatternAnswer
    <2>2. heap' \in [Address -> Object] /\ calls' \in [Address -> Nat]
      BY <1>7, HeapAfterData
    <2>3. NamesLeft'
      BY <1>7, HeapAfterData DEF Object
    <2> QED BY <1>7, <2>1, <2>2, <2>3 DEF PatternData, PatternAnswer, Forget
  <1>8. ASSUME NEW p \in FetchPrefixes, NEW kind \in OptionalKinds, StartOther(p, kind)
        PROVE  HandlerType'
    BY <1>8 DEF StartOther, Other, Reply, engineVars, counterVars, Verbs, Codes
  <1>9. ASSUME NEW p \in FetchPrefixes, CancelOther(p)
        PROVE  HandlerType'
    BY <1>9 DEF CancelOther, Reply, engineVars, counterVars, Verbs, Codes
  <1>10. ASSUME NEW x \in others, NEW d \in Packets, NEW ok \in PutOutcomes, RecorderData(x, d, ok)
         PROVE  HandlerType'
    <2>1. db' \subseteq Name
      BY <1>10, StoredType DEF RecorderData
    <2> QED BY <1>10, <2>1 DEF RecorderData, faceVars, patternVars, counterVars
  <1>11. ASSUME NEW a \in Address, DanglingCallbackCrash(a)
         PROVE  HandlerType'
    BY <1>11 DEF DanglingCallbackCrash, engineVars, patternVars, counterVars
  <1> QED BY <1>1, <1>2, <1>3, <1>4, <1>5, <1>6, <1>7, <1>8, <1>9, <1>10, <1>11, HandlerCases

-----------------------------------------------------------------------------
(***************************************************************************)
(* The table.  TableOwnsObjects is inductive.                              *)
(***************************************************************************)
LEMMA TableStep ==
    ASSUME HandlerType, TableOwnsObjects, HandlerStep
    PROVE  TableOwnsObjects'
  <1> USE DEF HandlerType, PatternAloneTypeOK, PatternTypeOK, TableOwnsObjects
  <1>0. ASSUME UNCHANGED <<patterns, heap, allocated, others>>
        PROVE  TableOwnsObjects'
    BY <1>0
  <1>1. ASSUME NEW verb \in Verbs, NEW code \in Codes, Refuse(verb, code)
        PROVE  TableOwnsObjects'
    BY <1>0, <1>1 DEF Refuse, patternVars, counterVars
  <1>2. ASSUME NEW p \in FetchPrefixes, CancelPattern(p)
        PROVE  TableOwnsObjects'
    <2>1. PICK x \in patterns :
             /\ heap' = [heap EXCEPT ![x.obj].running = FALSE]
             /\ patterns' = patterns \ {x}
             /\ allocated' = allocated \ {x.obj}
             /\ UNCHANGED others
      BY <1>2 DEF CancelPattern
    <2>2. \A y \in patterns' : y \in patterns /\ y.obj # x.obj /\ heap'[y.obj] = heap[y.obj]
      BY <2>1 DEF Pattern
    <2>3. allocated' = {y.obj : y \in patterns'}
      BY <2>1, <2>2
    <2> QED BY <2>1, <2>2, <2>3
  <1>3. ASSUME NEW p \in FetchPrefixes, NEW a \in Address, StartPattern(p, a)
        PROVE  TableOwnsObjects'
    <2> DEFINE new == [prefix |-> p, obj |-> a]
    <2>1. /\ patterns' = patterns \cup {new} /\ allocated' = allocated \cup {a}
          /\ others' = others /\ a \notin allocated
          /\ heap' = [heap EXCEPT ![a] = [prefix |-> p, counter |-> 0, running |-> TRUE]]
      BY <1>3 DEF StartPattern
    <2>2. \A x \in patterns : x.prefix # p /\ x.obj # a
      BY <1>3, <2>1 DEF StartPattern, Active
    <2>3. \A y \in others : y.prefix # p
      BY <1>3 DEF StartPattern, Active
    <2>4. \A x \in patterns : heap'[x.obj].prefix = x.prefix
      BY <2>1, <2>2 DEF Pattern
    <2>5. heap'[new.obj].prefix = new.prefix
      BY <2>1
    <2>6. allocated' = {x.obj : x \in patterns'}
      <3>1. \A x \in patterns' : x \in patterns \/ x.obj = a
        BY <2>1
      <3>2. new \in patterns' /\ new.obj = a /\ patterns \subseteq patterns'
        BY <2>1
      <3>3. \A b : b \in allocated <=> \E x \in patterns : x.obj = b
        OBVIOUS
      <3>4. \A b : b \in allocated' <=> \E x \in patterns' : x.obj = b
        BY <2>1, <3>1, <3>2, <3>3
      <3> QED BY <3>4
    <2> QED BY <2>1, <2>2, <2>3, <2>4, <2>5, <2>6
  <1>4. ASSUME NEW a \in Address, DoFetchNothing(a)
        PROVE  TableOwnsObjects'
    BY <1>0, <1>4 DEF DoFetchNothing, patternVars, counterVars
  <1>5. ASSUME NEW a \in Address, NEW f \in FreeIds, DoFetch(a, f)
        PROVE  TableOwnsObjects'
    BY <1>0, <1>5 DEF DoFetch, patternVars, counterVars
  <1>6. ASSUME NEW e \in PatternFetches, PatternTimeout(e)
        PROVE  TableOwnsObjects'
    BY <1>0, <1>6 DEF PatternTimeout
  <1>7. ASSUME NEW e \in PatternFetches, NEW d \in Packets, NEW ok \in PutOutcomes,
               PatternData(e, d, ok)
        PROVE  TableOwnsObjects'
    <2>1. \A b \in Address : heap'[b].prefix = heap[b].prefix
      BY <1>7, HeapAfterData
    <2>2. UNCHANGED <<patterns, allocated, others>>
      BY <1>7 DEF PatternData, PatternAnswer
    <2> QED BY <2>1, <2>2 DEF Pattern
  <1>8. ASSUME NEW p \in FetchPrefixes, NEW kind \in OptionalKinds, StartOther(p, kind)
        PROVE  TableOwnsObjects'
    <2>1. /\ others' = others \cup {[prefix |-> p, kind |-> kind]}
          /\ UNCHANGED <<patterns, heap, allocated>>
      BY <1>8 DEF StartOther, counterVars
    <2>2. \A x \in patterns \cup others : x.prefix # p
      BY <1>8 DEF StartOther, Active
    <2> QED BY <2>1, <2>2
  <1>9. ASSUME NEW p \in FetchPrefixes, CancelOther(p)
        PROVE  TableOwnsObjects'
    BY <1>9 DEF CancelOther, counterVars
  <1>10. ASSUME NEW x \in others, NEW d \in Packets, NEW ok \in PutOutcomes, RecorderData(x, d, ok)
         PROVE  TableOwnsObjects'
    BY <1>0, <1>10 DEF RecorderData, patternVars, counterVars
  <1>11. ASSUME NEW a \in Address, DanglingCallbackCrash(a)
         PROVE  TableOwnsObjects'
    BY <1>0, <1>11 DEF DanglingCallbackCrash, patternVars, counterVars
  <1> QED BY <1>1, <1>2, <1>3, <1>4, <1>5, <1>6, <1>7, <1>8, <1>9, <1>10, <1>11, HandlerCases

-----------------------------------------------------------------------------
(***************************************************************************)
(* The fetch loop.  Neither OneFetchLoop nor CountedIsStored is inductive: *)
(* they need to know that the Interest in flight is for the name that the  *)
(* counter says, and that its pattern still runs.                          *)
(***************************************************************************)
StoredBelow(a) ==
    PutOutcomes = {TRUE} =>
        \A i \in 0..(heap[a].counter - 1) :
            \E k \in db : IsPrefix(KeyOf(FetchName(a, i)), k)

LoopOf(a) ==
    /\ calls[a] \in {0, 1}
    /\ \A e1, e2 \in FetchesOf(a) : e1 = e2
    /\ calls[a] = 1 => FetchesOf(a) = {}
    /\ NoCallback(a) => history[a].lost \/ ~heap[a].running
    /\ \A e \in FetchesOf(a) : e.name = FetchName(a, heap[a].counter) /\ heap[a].running
    /\ heap[a].running \/ heap[a].counter = CounterEnd
    /\ StoredBelow(a)

LoopInv == \A a \in Address : Clean(a) => LoopOf(a)

(***************************************************************************)
(* A step that leaves an object and its callbacks alone leaves its loop.   *)
(***************************************************************************)
LEMMA LoopFrame ==
    ASSUME NEW b \in Address, LoopOf(b), heap'[b] = heap[b], calls'[b] = calls[b],
           history'[b] = history[b], FetchesOf(b)' = FetchesOf(b), db \subseteq db'
    PROVE  LoopOf(b)'
  <1>1. StoredBelow(b)'
    BY DEF LoopOf, StoredBelow, FetchName, KeyOf
  <1> QED BY <1>1 DEF LoopOf, NoCallback, FetchName

(***************************************************************************)
(* The steps that leave all loops alone.                                   *)
(***************************************************************************)
LEMMA LoopsUntouched ==
    ASSUME LoopInv, allocated' \subseteq allocated, history' = history, calls' = calls,
           pit' = pit, \A b \in allocated' : heap'[b] = heap[b], db \subseteq db'
    PROVE  LoopInv'
  <1> SUFFICES ASSUME NEW b \in Address, Clean(b)' PROVE LoopOf(b)'
    BY DEF LoopInv
  <1>1. Clean(b) /\ b \in allocated'
    BY DEF Clean
  <1>2. FetchesOf(b)' = FetchesOf(b)
    BY DEF FetchesOf, PatternFetches
  <1> QED BY <1>1, <1>2, LoopFrame DEF LoopInv

LEMMA LoopOfStarted ==
    ASSUME HandlerType, LoopInv, NEW p \in FetchPrefixes, NEW a \in Address, StartPattern(p, a)
    PROVE  LoopInv'
  <1> USE DEF HandlerType, PatternAloneTypeOK, FaceTypeOK, PatternTypeOK
  <1> SUFFICES ASSUME NEW b \in Address, Clean(b)' PROVE LoopOf(b)'
    BY DEF LoopInv
  <1>1. FetchesOf(b)' = FetchesOf(b)
    BY DEF StartPattern, FetchesOf, PatternFetches
  <1>2. CASE b # a
    <2>1. /\ heap'[b] = heap[b] /\ calls'[b] = calls[b] /\ history'[b] = history[b]
          /\ b \in allocated /\ db' = db
      BY <1>2 DEF StartPattern, CallLater, Clean, engineVars
    <2> QED BY <1>1, <2>1, LoopFrame DEF LoopInv, Clean
  <1>3. CASE b = a
    <2>1. /\ heap'[a] = [prefix |-> p, counter |-> 0, running |-> TRUE]
          /\ calls'[a] = calls[a] + 1
          /\ history'[a].clean = NoCallback(a)
      BY DEF StartPattern, CallLater
    <2>2. calls[a] = 0 /\ FetchesOf(a) = {}
      BY <1>3, <2>1 DEF Clean, NoCallback
    <2>3. StoredBelow(a)'
      BY <2>1 DEF StoredBelow
    <2> QED BY <1>1, <1>3, <2>1, <2>2, <2>3 DEF LoopOf, NoCallback
  <1> QED BY <1>2, <1>3

LEMMA LoopOfFetching ==
    ASSUME HandlerType, LoopInv, NEW a \in Address, NEW f \in FreeIds, DoFetch(a, f)
    PROVE  LoopInv'
  <1> USE DEF HandlerType, PatternAloneTypeOK, FaceTypeOK, PatternTypeOK
  <1> SUFFICES ASSUME NEW b \in Address, Clean(b)' PROVE LoopOf(b)'
    BY DEF LoopInv
  <1> DEFINE new == [id |-> f, name |-> FetchName(a, heap[a].counter), handle |-> "pattern",
                     ctx |-> a]
  <1>1. /\ pit' = pit \cup {new} /\ calls' = [calls EXCEPT ![a] = @ - 1]
        /\ calls[a] > 0 /\ heap[a].running
        /\ UNCHANGED <<heap, allocated, history, db>>
    BY DEF DoFetch, ExpressInterest, patternVars, counterVars, engineVars
  <1>2. Clean(b) /\ LoopOf(b)
    BY <1>1 DEF Clean, LoopInv
  <1>3. CASE b # a
    <2>1. FetchesOf(b)' = FetchesOf(b)
      BY <1>1, <1>3 DEF FetchesOf, PatternFetches
    <2> QED BY <1>1, <1>2, <1>3, <2>1, LoopFrame
  <1>4. CASE b = a
    <2>1. calls[a] = 1 /\ FetchesOf(a) = {}
      BY <1>1, <1>2, <1>4 DEF LoopOf
    <2>2. FetchesOf(a)' = {new}
      BY <1>1, <2>1 DEF FetchesOf, PatternFetches
    <2>3. calls'[a] = 0
      BY <1>1, <2>1
    <2>4. \A e \in FetchesOf(a)' :
              e.name = FetchName(a, heap[a].counter)' /\ heap'[a].running
      BY <1>1, <2>2 DEF FetchName
    <2>5. StoredBelow(a)' /\ (heap'[a].running \/ heap'[a].counter = CounterEnd)
      BY <1>1, <1>2, <1>4 DEF LoopOf, StoredBelow, FetchName, KeyOf
    <2>6. ~NoCallback(a)'
      BY <2>2 DEF NoCallback
    <2>7. \A e1, e2 \in FetchesOf(a)' : e1 = e2
      BY <2>2
    <2>8. LoopOf(a)'
      BY <2>3, <2>4, <2>5, <2>6, <2>7 DEF LoopOf
    <2> QED BY <1>4, <2>8
  <1> QED BY <1>3, <1>4

LEMMA LoopOfIdleCall ==
    ASSUME HandlerType, LoopInv, NEW a \in Address, DoFetchNothing(a)
    PROVE  LoopInv'
  <1> USE DEF HandlerType, PatternAloneTypeOK, FaceTypeOK, PatternTypeOK
  <1> SUFFICES ASSUME NEW b \in Address, Clean(b)' PROVE LoopOf(b)'
    BY DEF LoopInv
  <1>1. /\ calls' = [calls EXCEPT ![a] = @ - 1] /\ calls[a] > 0 /\ ~heap[a].running
        /\ UNCHANGED <<heap, allocated, history, db, pit>>
    BY DEF DoFetchNothing, patternVars, counterVars, engineVars
  <1>2. Clean(b) /\ LoopOf(b) /\ FetchesOf(b)' = FetchesOf(b)
    BY <1>1 DEF Clean, LoopInv, FetchesOf, PatternFetches
  <1>3. CASE b # a
    BY <1>1, <1>2, <1>3, LoopFrame
  <1>4. CASE b = a
    <2>1. calls'[a] = 0 /\ FetchesOf(a) = {}
      BY <1>1, <1>2, <1>4 DEF LoopOf
    <2>2. StoredBelow(a)'
      BY <1>1, <1>2, <1>4 DEF LoopOf, StoredBelow, FetchName, KeyOf
    <2> QED BY <1>1, <1>2, <1>4, <2>1, <2>2 DEF LoopOf
  <1> QED BY <1>3, <1>4

LEMMA LoopOfTimedOut ==
    ASSUME HandlerType, LoopInv, NEW e \in PatternFetches, PatternTimeout(e)
    PROVE  LoopInv'
  <1> USE DEF HandlerType, PatternAloneTypeOK, FaceTypeOK, PatternTypeOK
  <1> SUFFICES ASSUME NEW b \in Address, Clean(b)' PROVE LoopOf(b)'
    BY DEF LoopInv
  <1>1. e.ctx \in Address
    BY DEF PatternFetches, WriteFetch, PatternFetch
  <1>2. /\ pit' = pit \ {e} /\ history' = [history EXCEPT ![e.ctx].lost = TRUE]
        /\ UNCHANGED <<heap, allocated, calls, db>>
    BY DEF PatternTimeout, Forget, engineVars
  <1>3. Clean(b) /\ LoopOf(b)
    BY <1>1, <1>2 DEF Clean, LoopInv, History
  <1>4. CASE b # e.ctx
    <2>1. FetchesOf(b)' = FetchesOf(b) /\ history'[b] = history[b]
      BY <1>1, <1>2, <1>4 DEF FetchesOf, PatternFetches
    <2> QED BY <1>2, <1>3, <2>1, LoopFrame
  <1>5. CASE b = e.ctx
    <2>1. FetchesOf(b)' \subseteq FetchesOf(b) /\ e \in FetchesOf(b)
      BY <1>2, <1>5 DEF FetchesOf, PatternFetches
    <2>2. history'[b].lost
      BY <1>1, <1>2, <1>5 DEF History
    <2>3. FetchesOf(b)' = {}
      BY <1>2, <1>3, <2>1 DEF LoopOf, FetchesOf, PatternFetches
    <2>4. StoredBelow(b)'
      BY <1>2, <1>3 DEF LoopOf, StoredBelow, FetchName, KeyOf
    <2> QED BY <1>2, <1>3, <2>2, <2>3, <2>4 DEF LoopOf, FetchName
  <1> QED BY <1>4, <1>5

(***************************************************************************)
(* The packet that answers the Interest of a loop fills the next gap.      *)
(***************************************************************************)
LEMMA NextIsStored ==
    ASSUME HandlerType, NEW e \in PatternFetches, NEW d \in Packets, NEW ok \in PutOutcomes,
           Answers(d, e), PatternData(e, d, ok), LoopOf(e.ctx)
    PROVE  StoredBelow(e.ctx)'
  <1> DEFINE a == e.ctx
  <1> DEFINE c == heap[a].counter
  <1> USE DEF HandlerType, PatternAloneTypeOK, FaceTypeOK, PatternTypeOK
  <1>1. a \in Address /\ e \in FetchesOf(a) /\ e.name \in Name
    BY DEF FetchesOf, PatternFetches, WriteFetch, PatternFetch
  <1>2. heap'[a].prefix = heap[a].prefix /\ heap'[a].counter = c + 1 /\ c \in Nat
    BY <1>1, HeapAfterData DEF Object
  <1>3. e.name = FetchName(a, c)
    BY <1>1 DEF LoopOf
  <1>4. \A i : KeyOf(FetchName(a, i))' = KeyOf(FetchName(a, i))
    BY <1>2 DEF FetchName, KeyOf
  <1>5. SUFFICES ASSUME PutOutcomes = {TRUE}
                 PROVE  \A i \in 0..c : \E k \in db' : IsPrefix(KeyOf(FetchName(a, i)), k)
    BY <1>2, <1>4 DEF StoredBelow
  <1>6. db' = db \cup {KeyOf(d)}
    BY <1>5 DEF PatternData, PatternAnswer, Put
  <1>7. IsPrefix(KeyOf(FetchName(a, c)), KeyOf(d))
    BY <1>1, <1>3, PacketsAssumption, KeyBelow DEF Answers
  <1>8. \A i \in 0..(c - 1) : \E k \in db : IsPrefix(KeyOf(FetchName(a, i)), k)
    BY <1>5 DEF LoopOf, StoredBelow
  <1>9. \A i \in 0..c : i = c \/ i \in 0..(c - 1)
    BY <1>2
  <1> QED BY <1>6, <1>7, <1>8, <1>9

LEMMA LoopOfAnswered ==
    ASSUME HandlerType, LoopInv, NEW e \in PatternFetches, NEW d \in Packets,
           NEW ok \in PutOutcomes, Answers(d, e), PatternData(e, d, ok)
    PROVE  LoopInv'
  <1> USE DEF HandlerType, PatternAloneTypeOK, FaceTypeOK, PatternTypeOK
  <1> SUFFICES ASSUME NEW b \in Address, Clean(b)' PROVE LoopOf(b)'
    BY DEF LoopInv
  <1>1. e.ctx \in Address
    BY HeapAfterData
  <1>2. pit' = pit \ {e} /\ UNCHANGED <<allocated, history>> /\ db \subseteq db'
    BY DEF PatternData, PatternAnswer, Forget, Put
  <1>3. Clean(b) /\ LoopOf(b)
    BY <1>2 DEF Clean, LoopInv
  <1>4. CASE b # e.ctx
    <2>1. FetchesOf(b)' = FetchesOf(b)
      BY <1>2, <1>4 DEF FetchesOf, PatternFetches
    <2>2. heap'[b] = heap[b] /\ calls'[b] = calls[b] /\ history'[b] = history[b]
      BY <1>2, <1>4, HeapAfterData
    <2> QED BY <1>2, <1>3, <2>1, <2>2, LoopFrame
  <1>5. CASE b = e.ctx
    <2>1. e \in FetchesOf(b)
      BY <1>5 DEF FetchesOf
    <2>2. FetchesOf(b)' = {}
      BY <1>2, <1>3, <2>1 DEF LoopOf, FetchesOf, PatternFetches
    <2>3. calls[b] = 0 /\ heap[b].running /\ heap[b].counter < CounterEnd
      BY <1>3, <2>1 DEF LoopOf, NamesLeft
    <2>4. StoredBelow(b)'
      BY <1>3, <1>5, NextIsStored
    <2>5. /\ heap[b].counter \in Nat
          /\ heap'[b].counter = heap[b].counter + 1
          /\ heap[b].counter + 1 < CounterEnd =>
                heap'[b].running = heap[b].running /\ calls'[b] = calls[b] + 1
          /\ ~(heap[b].counter + 1 < CounterEnd) =>
                heap'[b].running = FALSE /\ calls'[b] = calls[b]
      <3>1. heap[b].counter \in Nat
        BY DEF Object
      <3> QED BY <1>5, <3>1, HeapAfterData
    <2>6. CASE heap[b].counter + 1 < CounterEnd
      <3>1. calls'[b] = calls[b] + 1 /\ heap'[b].running
        BY <2>3, <2>5, <2>6, Zenon
      <3>2. calls'[b] = 1
        BY <2>3, <3>1
      <3> QED BY <2>2, <2>4, <3>1, <3>2 DEF LoopOf, NoCallback
    <2>7. CASE ~(heap[b].counter + 1 < CounterEnd)
      <3>0. heap[b].counter + 1 = CounterEnd
        BY <2>3, <2>5, <2>7, CounterEndAssumption
      <3>1. calls'[b] = 0 /\ heap'[b].running = FALSE /\ heap'[b].counter = CounterEnd
        BY <2>3, <2>5, <2>7, <3>0, Zenon
      <3> QED BY <2>2, <2>4, <3>1 DEF LoopOf, NoCallback
    <2> QED BY <2>6, <2>7
  <1> QED BY <1>4, <1>5

LEMMA LoopStep ==
    ASSUME HandlerType, TableOwnsObjects, LoopInv, HandlerStep
    PROVE  LoopInv'
  <1> USE DEF HandlerType, PatternAloneTypeOK, PatternTypeOK
  <1>1. ASSUME NEW verb \in Verbs, NEW code \in Codes, Refuse(verb, code)
        PROVE  LoopInv'
    BY <1>1, LoopsUntouched DEF Refuse, engineVars, patternVars, counterVars
  <1>2. ASSUME NEW p \in FetchPrefixes, CancelPattern(p)
        PROVE  LoopInv'
    <2>1. PICK x \in patterns :
             /\ heap' = [heap EXCEPT ![x.obj].running = FALSE]
             /\ allocated' = allocated \ {x.obj}
             /\ UNCHANGED <<engineVars, up, pit, calls, history, others>>
      BY <1>2 DEF CancelPattern
    <2>2. \A b \in allocated' : heap'[b] = heap[b]
      BY <2>1
    <2> QED BY <2>1, <2>2, LoopsUntouched DEF engineVars
  <1>3. ASSUME NEW p \in FetchPrefixes, NEW a \in Address, StartPattern(p, a)
        PROVE  LoopInv'
    BY <1>3, LoopOfStarted
  <1>4. ASSUME NEW a \in Address, DoFetchNothing(a)
        PROVE  LoopInv'
    BY <1>4, LoopOfIdleCall
  <1>5. ASSUME NEW a \in Address, NEW f \in FreeIds, DoFetch(a, f)
        PROVE  LoopInv'
    BY <1>5, LoopOfFetching
  <1>6. ASSUME NEW e \in PatternFetches, PatternTimeout(e)
        PROVE  LoopInv'
    BY <1>6, LoopOfTimedOut
  <1>7. ASSUME NEW e \in PatternFetches, NEW d \in Packets, NEW ok \in PutOutcomes,
               Answers(d, e), PatternData(e, d, ok)
        PROVE  LoopInv'
    BY <1>7, LoopOfAnswered
  <1>8. ASSUME NEW p \in FetchPrefixes, NEW kind \in OptionalKinds, StartOther(p, kind)
        PROVE  LoopInv'
    BY <1>8, LoopsUntouched DEF StartOther, engineVars, counterVars
  <1>9. ASSUME NEW p \in FetchPrefixes, CancelOther(p)
        PROVE  LoopInv'
    BY <1>9, LoopsUntouched DEF CancelOther, engineVars, counterVars
  <1>10. ASSUME NEW x \in others, NEW d \in Packets, NEW ok \in PutOutcomes, RecorderData(x, d, ok)
         PROVE  LoopInv'
    BY <1>10, LoopsUntouched DEF RecorderData, Put, faceVars, patternVars, counterVars
  <1>11. ASSUME NEW a \in Address, DanglingCallbackCrash(a)
         PROVE  LoopInv'
    BY <1>11, LoopsUntouched DEF DanglingCallbackCrash, engineVars, patternVars, counterVars
  <1> QED BY <1>1, <1>2, <1>3, <1>4, <1>5, <1>6, <1>7, <1>8, <1>9, <1>10, <1>11, HandlerCases

-----------------------------------------------------------------------------
(***************************************************************************)
(* The three together, from the first state of the handler and kept by     *)
(* every step of it.                                                       *)
(***************************************************************************)
HandlerInv == HandlerType /\ TableOwnsObjects /\ LoopInv

LEMMA HandlerInvInit == PatternAloneInit => HandlerInv
  <1> SUFFICES ASSUME PatternAloneInit PROVE HandlerInv
    OBVIOUS
  <1>1. TableOwnsObjects /\ LoopInv
    BY DEF PatternAloneInit, PatternInit, TableOwnsObjects, LoopInv, Clean
  <1> QED BY <1>1, HandlerTypeInit DEF HandlerInv

LEMMA HandlerInvStep ==
    ASSUME HandlerInv, HandlerStep
    PROVE  HandlerInv'
  BY HandlerTypeStep, TableStep, LoopStep DEF HandlerInv

LEMMA HandlerInvStutter ==
    ASSUME HandlerInv, UNCHANGED patternAloneVars
    PROVE  HandlerInv'
  <1> USE DEF patternAloneVars, engineVars, faceVars, patternVars, counterVars
  <1>1. HandlerType' /\ TableOwnsObjects'
    BY DEF HandlerInv, HandlerType, PatternAloneTypeOK, NamesLeft, EngineTypeOK, FaceTypeOK,
           PatternTypeOK, TableOwnsObjects
  <1>2. LoopInv'
    BY LoopsUntouched DEF HandlerInv
  <1> QED BY <1>1, <1>2 DEF HandlerInv

LEMMA LoopInvMeans ==
    ASSUME HandlerInv
    PROVE  OneFetchLoop /\ CountedIsStored
  <1>1. OneFetchLoop
    BY DEF HandlerInv, LoopInv, LoopOf, OneFetchLoop
  <1>2. \A a \in Address : heap[a].running => heap[a].counter < CounterEnd
    BY DEF HandlerInv, HandlerType, NamesLeft
  <1>3. ASSUME NEW a \in Address, Clean(a)
        PROVE  /\ heap[a].running \/ heap[a].counter = CounterEnd
               /\ StoredBelow(a)
    BY <1>3 DEF HandlerInv, LoopInv, LoopOf
  <1> QED BY <1>1, <1>2, <1>3 DEF CountedIsStored, StoredBelow

LEMMA HandlerAlone == PatternAloneSpec => []HandlerInv
  <1>1. HandlerInv /\ [PatternCommand \/ PatternCallback]_patternAloneVars => HandlerInv'
    BY HandlerInvStep, HandlerInvStutter DEF HandlerStep
  <1> QED BY <1>1, HandlerInvInit, PTL DEF PatternAloneSpec

(***************************************************************************)
(* The type invariant of the handler on its own.                           *)
(***************************************************************************)
THEOREM HandlerTypeCorrect == PatternAloneSpec => []PatternAloneTypeOK
  <1>1. HandlerInv => PatternAloneTypeOK
    BY DEF HandlerInv, HandlerType
  <1> QED BY <1>1, HandlerAlone, PTL

(***************************************************************************)
(* The map patterns_ owns the live objects, whatever is started, cancelled *)
(* and answered in whatever order, callbacks on freed memory included.     *)
(***************************************************************************)
THEOREM TableIsConsistent == PatternAloneSpec => []TableOwnsObjects
  <1>1. HandlerInv => TableOwnsObjects
    BY DEF HandlerInv
  <1> QED BY <1>1, HandlerAlone, PTL

(***************************************************************************)
(* The loop of doFetch and onData of a clean object is single, and stops   *)
(* only when it is through, lost an Interest, or is cancelled.             *)
(***************************************************************************)
THEOREM FetchLoopIsSingle == PatternAloneSpec => []OneFetchLoop
  <1>1. HandlerInv => OneFetchLoop
    BY LoopInvMeans
  <1> QED BY <1>1, HandlerAlone, PTL

(***************************************************************************)
(* What a clean object has counted is in the database, without a gap, and  *)
(* it counts to CounterEnd.                                                *)
(***************************************************************************)
THEOREM CountHasNoGap == PatternAloneSpec => []CountedIsStored
  <1>1. HandlerInv => CountedIsStored
    BY LoopInvMeans
  <1> QED BY <1>1, HandlerAlone, PTL

-----------------------------------------------------------------------------
(***************************************************************************)
(* The clients.  AcceptedBalance needs the handler's invariant (a prefix   *)
(* has one entry, so a cancel empties it), and that the handler decides    *)
(* once for each client: a command in transit is undecided, and so is a    *)
(* client that has not sent one.                                           *)
(***************************************************************************)
Started(p) == {c \in Asked("pattern", p) : decided[c] = 100}
Cancelled(p) == {c \in Asked("cancel", p) : decided[c] = 101}

Undecided ==
    /\ requests \subseteq Clients
    /\ DOMAIN clients = Clients /\ DOMAIN decided = Clients
    /\ \A c \in Clients : c \in requests \/ clients[c] = Idle => decided[c] = 0
    /\ \A c \in requests : clients[c] # Idle /\ clients[c].prefix \in FetchPrefixes

Balance ==
    \A p \in FetchPrefixes :
        Cardinality(Started(p)) = Cardinality(Cancelled(p)) + (IF Active(p) THEN 1 ELSE 0)

ClientInv == HandlerInv /\ Undecided /\ Balance

LEMMA ClientInvInit == ClientInit => ClientInv
  <1> SUFFICES ASSUME ClientInit PROVE ClientInv
    OBVIOUS
  <1>1. HandlerInv
    BY HandlerInvInit DEF ClientInit
  <1>2. Undecided
    BY DEF ClientInit, Undecided
  <1>3. \A p \in FetchPrefixes : Started(p) = {} /\ Cancelled(p) = {} /\ ~Active(p)
    BY DEF ClientInit, PatternAloneInit, PatternInit, Started, Cancelled, Asked, Active
  <1>4. Balance
    BY <1>3, FS_EmptySet DEF Balance
  <1> QED BY <1>1, <1>2, <1>4 DEF ClientInv

(***************************************************************************)
(* A step after which the same clients have started and cancelled, and the *)
(* same prefixes are active.                                               *)
(***************************************************************************)
LEMMA BalanceKept ==
    ASSUME Balance,
           \A p \in FetchPrefixes : /\ Started(p)' = Started(p)
                                    /\ Cancelled(p)' = Cancelled(p)
                                    /\ Active(p)' <=> Active(p)
    PROVE  Balance'
  BY DEF Balance

LEMMA AskedFinite ==
    ASSUME NEW p
    PROVE  IsFiniteSet(Started(p)) /\ IsFiniteSet(Cancelled(p))
  <1>1. Started(p) \subseteq Clients /\ Cancelled(p) \subseteq Clients
    BY DEF Started, Cancelled, Asked
  <1> QED BY <1>1, ClientsAssumption, FS_Subset

(***************************************************************************)
(* The client sends its command.                                           *)
(***************************************************************************)
LEMMA BalanceRequest ==
    ASSUME ClientInv, NEW c \in Clients, NEW verb \in {"pattern", "cancel"},
           NEW q \in FetchPrefixes, Request(c, verb, q)
    PROVE  Undecided' /\ Balance'
  <1>1. /\ decided[c] = 0 /\ decided' = decided /\ requests' = requests \cup {c}
        /\ DOMAIN clients' = Clients
        /\ clients'[c] # Idle /\ clients'[c].prefix = q
        /\ \A b \in Clients \ {c} : clients'[b] = clients[b]
    BY DEF ClientInv, Undecided, Request, Idle
  <1>2. Undecided'
    BY <1>1 DEF ClientInv, Undecided, Idle
  <1>3. \A p \in FetchPrefixes : Started(p)' = Started(p) /\ Cancelled(p)' = Cancelled(p)
    BY <1>1 DEF Started, Cancelled, Asked
  <1>4. \A p : Active(p)' <=> Active(p)
    BY DEF Request, patternAloneVars, patternVars, counterVars, Active
  <1> QED BY <1>2, <1>3, <1>4, BalanceKept DEF ClientInv

(***************************************************************************)
(* The steps that decide nothing and leave the table alone.                *)
(***************************************************************************)
LEMMA BalanceQuiet ==
    ASSUME ClientInv, decided' = decided, patterns' = patterns, others' = others,
           requests' \subseteq requests, DOMAIN clients' = Clients,
           \A c \in Clients : /\ clients'[c].verb = clients[c].verb
                              /\ clients'[c].prefix = clients[c].prefix
                              /\ clients'[c] = Idle <=> clients[c] = Idle
    PROVE  Undecided' /\ Balance'
  <1>1. Undecided'
    BY DEF ClientInv, Undecided, Idle
  <1>2. \A p \in FetchPrefixes : Started(p)' = Started(p) /\ Cancelled(p)' = Cancelled(p)
    BY DEF Started, Cancelled, Asked
  <1>3. \A p : Active(p)' <=> Active(p)
    BY DEF Active
  <1> QED BY <1>1, <1>2, <1>3, BalanceKept DEF ClientInv

(***************************************************************************)
(* The handler decides: a refusal, a start, a cancel.                      *)
(***************************************************************************)
Decides(c, code) ==
    /\ requests' = requests \ {c}
    /\ decided' = [decided EXCEPT ![c] = code]
    /\ UNCHANGED clients

LEMMA UndecidedKept ==
    ASSUME Undecided, NEW c \in requests, NEW code, Decides(c, code)
    PROVE  Undecided'
  BY DEF Undecided, Decides

LEMMA BalanceRefused ==
    ASSUME ClientInv, NEW c \in requests, NEW code \in {402, 404}, Decides(c, code),
           UNCHANGED patternVars
    PROVE  Balance'
  <1>1. /\ c \in Clients /\ decided[c] = 0 /\ decided'[c] = code
        /\ \A b \in Clients \ {c} : decided'[b] = decided[b]
    BY DEF ClientInv, Undecided, Decides
  <1>2. \A p \in FetchPrefixes : Started(p)' = Started(p) /\ Cancelled(p)' = Cancelled(p)
    BY <1>1 DEF Started, Cancelled, Asked, Decides
  <1>3. \A p : Active(p)' <=> Active(p)
    BY DEF patternVars, counterVars, Active
  <1> QED BY <1>2, <1>3, BalanceKept DEF ClientInv

LEMMA BalanceStarted ==
    ASSUME ClientInv, NEW c \in requests, Decides(c, 100), NEW q \in FetchPrefixes,
           clients[c].verb = "pattern", clients[c].prefix = q,
           ~Active(q), Active(q)',
           \A p \in FetchPrefixes : p # q => (Active(p)' <=> Active(p))
    PROVE  Balance'
  <1>1. /\ c \in Clients /\ decided[c] = 0 /\ decided'[c] = 100 /\ clients' = clients
        /\ \A b \in Clients \ {c} : decided'[b] = decided[b]
    BY DEF ClientInv, Undecided, Decides
  <1>2. \A p \in FetchPrefixes : Cancelled(p)' = Cancelled(p)
    BY <1>1 DEF Cancelled, Asked
  <1>3. \A p \in FetchPrefixes : p # q => Started(p)' = Started(p)
    BY <1>1 DEF Started, Asked
  <1>4. Started(q)' = Started(q) \cup {c} /\ c \notin Started(q)
    BY <1>1 DEF Started, Asked
  <1>5. Cardinality(Started(q)') = Cardinality(Started(q)) + 1
    BY <1>4, AskedFinite, FS_AddElement
  <1>6. q \in FetchPrefixes /\ Cardinality(Cancelled(q)) \in Nat
    BY AskedFinite, FS_CardinalityType DEF ClientInv, Undecided
  <1>7. Cardinality(Started(q)) = Cardinality(Cancelled(q))
    BY <1>6 DEF ClientInv, Balance
  <1>8. SUFFICES ASSUME NEW p \in FetchPrefixes
                 PROVE  Cardinality(Started(p)') =
                            Cardinality(Cancelled(p)') + (IF Active(p)' THEN 1 ELSE 0)
    BY DEF Balance
  <1>9. CASE p = q
    BY <1>2, <1>5, <1>6, <1>7, <1>9
  <1>10. CASE p # q
    BY <1>2, <1>3, <1>10 DEF ClientInv, Balance
  <1> QED BY <1>9, <1>10

LEMMA BalanceCancelled ==
    ASSUME ClientInv, NEW c \in requests, Decides(c, 101), NEW q \in FetchPrefixes,
           clients[c].verb = "cancel", clients[c].prefix = q,
           Active(q), ~Active(q)',
           \A p \in FetchPrefixes : p # q => (Active(p)' <=> Active(p))
    PROVE  Balance'
  <1>1. /\ c \in Clients /\ decided[c] = 0 /\ decided'[c] = 101 /\ clients' = clients
        /\ \A b \in Clients \ {c} : decided'[b] = decided[b]
    BY DEF ClientInv, Undecided, Decides
  <1>2. \A p \in FetchPrefixes : Started(p)' = Started(p)
    BY <1>1 DEF Started, Asked
  <1>3. \A p \in FetchPrefixes : p # q => Cancelled(p)' = Cancelled(p)
    BY <1>1 DEF Cancelled, Asked
  <1>4. Cancelled(q)' = Cancelled(q) \cup {c} /\ c \notin Cancelled(q)
    BY <1>1 DEF Cancelled, Asked
  <1>5. Cardinality(Cancelled(q)') = Cardinality(Cancelled(q)) + 1
    BY <1>4, AskedFinite, FS_AddElement
  <1>6. q \in FetchPrefixes /\ Cardinality(Cancelled(q)) \in Nat
    BY AskedFinite, FS_CardinalityType DEF ClientInv, Undecided
  <1>7. Cardinality(Started(q)) = Cardinality(Cancelled(q)) + 1
    BY <1>6 DEF ClientInv, Balance
  <1>8. SUFFICES ASSUME NEW p \in FetchPrefixes
                 PROVE  Cardinality(Started(p)') =
                            Cardinality(Cancelled(p)') + (IF Active(p)' THEN 1 ELSE 0)
    BY DEF Balance
  <1>9. CASE p = q
    BY <1>2, <1>5, <1>6, <1>7, <1>9
  <1>10. CASE p # q
    BY <1>2, <1>3, <1>10 DEF ClientInv, Balance
  <1> QED BY <1>9, <1>10

LEMMA BalanceDeliver ==
    ASSUME ClientInv, NEW c \in Clients, Deliver(c)
    PROVE  HandlerStep /\ Undecided' /\ Balance'
  <1>0. c \in requests /\ clients[c].prefix \in FetchPrefixes
    BY DEF Deliver, ClientInv, Undecided
  <1> PICK q \in FetchPrefixes : clients[c].prefix = q
    BY <1>0
  <1>1. \A code : reply'.code = code => Decides(c, code)
    BY DEF Deliver, Decides
  <1>2. Undecided'
    BY <1>0 DEF Deliver, Undecided, ClientInv
  <1>3. CASE clients[c].verb = "pattern" /\ FetchCommand(q)
    <2>1. HandlerStep
      BY <1>3 DEF FetchCommand, HandlerStep, PatternCommand
    <2>2. CASE DuplicatePattern(q) \/ UnknownPattern(q)
      BY <1>0, <1>1, <1>2, <2>1, <2>2, BalanceRefused DEF DuplicatePattern, UnknownPattern, Refuse, Reply
    <2>3. CASE \E a \in Address : StartPattern(q, a)
      <3>1. PICK a \in Address : StartPattern(q, a)
        BY <2>3
      <3>2. /\ ~Active(q) /\ patterns' = patterns \cup {[prefix |-> q, obj |-> a]}
            /\ others' = others /\ reply'.code = 100
        BY <3>1 DEF StartPattern, Reply
      <3>3. Active(q)'
        <4>1. [prefix |-> q, obj |-> a] \in patterns' \cup others' /\ [prefix |-> q, obj |-> a].prefix = q
          BY <3>2
        <4> QED BY <4>1 DEF Active
      <3>4. \A p \in FetchPrefixes : p # q => (Active(p)' <=> Active(p))
        <4>1. \A x \in patterns' \cup others' : x \in patterns \cup others \/ x.prefix = q
          BY <3>2
        <4>2. patterns \cup others \subseteq patterns' \cup others'
          BY <3>2
        <4> QED BY <4>1, <4>2 DEF Active
      <3> QED BY <1>0, <1>1, <1>2, <1>3, <2>1, <3>2, <3>3, <3>4, BalanceStarted
    <2>4. CASE \E kind \in OptionalKinds : StartOther(q, kind)
      <3>1. PICK kind \in OptionalKinds : StartOther(q, kind)
        BY <2>4
      <3>2. /\ ~Active(q) /\ others' = others \cup {[prefix |-> q, kind |-> kind]}
            /\ patterns' = patterns /\ reply'.code = 100
        BY <3>1 DEF StartOther, Reply, counterVars
      <3>3. Active(q)'
        <4>1. [prefix |-> q, kind |-> kind] \in patterns' \cup others' /\ [prefix |-> q, kind |-> kind].prefix = q
          BY <3>2
        <4> QED BY <4>1 DEF Active
      <3>4. \A p \in FetchPrefixes : p # q => (Active(p)' <=> Active(p))
        <4>1. \A x \in patterns' \cup others' : x \in patterns \cup others \/ x.prefix = q
          BY <3>2
        <4>2. patterns \cup others \subseteq patterns' \cup others'
          BY <3>2
        <4> QED BY <4>1, <4>2 DEF Active
      <3> QED BY <1>0, <1>1, <1>2, <1>3, <2>1, <3>2, <3>3, <3>4, BalanceStarted
    <2> QED BY <1>2, <1>3, <2>1, <2>2, <2>3, <2>4 DEF FetchCommand
  <1>4. CASE clients[c].verb = "cancel" /\ CancelCommand(q)
    <2>1. HandlerStep
      BY <1>4 DEF CancelCommand, HandlerStep, PatternCommand
    <2>2. CASE CancelUnknown(q)
      BY <1>0, <1>1, <1>2, <2>1, <2>2, BalanceRefused DEF CancelUnknown, Refuse, Reply
    <2>3. CASE CancelPattern(q)
      <3>1. PICK x \in patterns : /\ x.prefix = q /\ patterns' = patterns \ {x}
                                  /\ others' = others /\ reply'.code = 101
        BY <2>3 DEF CancelPattern, Reply
      <3>2. Active(q) /\ \A p \in FetchPrefixes : p # q => (Active(p)' <=> Active(p))
        BY <3>1 DEF Active
      <3>3. ~Active(q)'
        BY <3>1 DEF Active, ClientInv, HandlerInv, TableOwnsObjects
      <3> QED BY <1>0, <1>1, <1>2, <1>4, <2>1, <3>1, <3>2, <3>3, BalanceCancelled
    <2>4. CASE CancelOther(q)
      <3>1. PICK x \in others : /\ x.prefix = q /\ others' = others \ {x}
                                /\ patterns' = patterns /\ reply'.code = 101
        BY <2>4 DEF CancelOther, Reply, counterVars
      <3>2. Active(q) /\ \A p \in FetchPrefixes : p # q => (Active(p)' <=> Active(p))
        BY <3>1 DEF Active
      <3>3. ~Active(q)'
        BY <3>1 DEF Active, ClientInv, HandlerInv, TableOwnsObjects
      <3> QED BY <1>0, <1>1, <1>2, <1>4, <2>1, <3>1, <3>2, <3>3, BalanceCancelled
    <2> QED BY <1>2, <1>4, <2>1, <2>2, <2>3, <2>4 DEF CancelCommand
  <1> QED BY <1>3, <1>4 DEF Deliver

(***************************************************************************)
(* A callback of the handler leaves the table alone.                       *)
(***************************************************************************)
LEMMA CallbackKeepsTable ==
    ASSUME PatternCallback
    PROVE  patterns' = patterns /\ others' = others
  BY DEF PatternCallback, TimerFires, PatternFetchEnds, DoFetchNothing, DoFetch, PatternTimeout,
         PatternData, PatternAnswer, RecorderData, DanglingCallbackCrash, patternVars, counterVars

LEMMA ClientInvStep ==
    ASSUME ClientInv, [ClientNext]_systemVars
    PROVE  ClientInv'
  <1>0. requests \subseteq Clients /\ DOMAIN clients = Clients
    BY DEF ClientInv, Undecided
  <1>1. ASSUME UNCHANGED patternAloneVars PROVE HandlerInv' /\ UNCHANGED <<patterns, others>>
    BY <1>1, HandlerInvStutter DEF ClientInv, patternAloneVars, patternVars, counterVars
  <1>2. ASSUME NEW c \in Clients, NEW q \in FetchPrefixes,
               RequestFetch(c, q) \/ RequestCancel(c, q)
        PROVE  ClientInv'
    <2>1. PICK verb \in {"pattern", "cancel"} : Request(c, verb, q)
      BY <1>2 DEF RequestFetch, RequestCancel
    <2> QED BY <1>1, <2>1, BalanceRequest DEF Request, ClientInv
  <1>3. ASSUME NEW c \in Clients, Deliver(c)
        PROVE  ClientInv'
    BY <1>3, BalanceDeliver, HandlerInvStep DEF ClientInv
  <1>4. ASSUME NEW c \in Clients, LoseRequest(c)
        PROVE  ClientInv'
    BY <1>0, <1>1, <1>4, BalanceQuiet DEF LoseRequest, ClientInv
  <1>5. ASSUME NEW c \in Clients, ClientEnds(c)
        PROVE  ClientInv'
    <2>1. PICK state \in ClientStates \ {"idle"} :
             /\ clients[c].state = "waiting"
             /\ clients' = [clients EXCEPT ![c].state = state]
             /\ UNCHANGED <<patternAloneVars, requests, decided>>
      BY <1>5 DEF ClientEnds, OnTimeout, FetchOnData, CancelOnData, GetReply, ClientStates
    <2>2. \A b \in Clients : /\ clients'[b].verb = clients[b].verb
                             /\ clients'[b].prefix = clients[b].prefix
                             /\ clients'[b] = Idle <=> clients[b] = Idle
      BY <1>0, <2>1 DEF Idle
    <2> QED BY <1>0, <1>1, <2>1, <2>2, BalanceQuiet DEF ClientInv
  <1>6. ASSUME NEW r \in replies, LoseReply(r)
        PROVE  ClientInv'
    BY <1>0, <1>1, <1>6, BalanceQuiet DEF LoseReply, ClientInv
  <1>7. CASE PatternCallback /\ UNCHANGED clientVars
    <2>1. HandlerInv'
      BY <1>7, HandlerInvStep DEF HandlerStep, ClientInv
    <2> QED BY <1>0, <1>7, <2>1, CallbackKeepsTable, BalanceQuiet DEF clientVars, ClientInv
  <1>8. CASE UNCHANGED systemVars
    BY <1>0, <1>1, <1>8, BalanceQuiet DEF systemVars, clientVars, ClientInv
  <1> QED BY <1>2, <1>3, <1>4, <1>5, <1>6, <1>7, <1>8 DEF ClientNext

LEMMA ClientInvariant == ClientSpec => []ClientInv
  <1>1. ClientInv /\ [ClientNext]_systemVars => ClientInv'
    BY ClientInvStep
  <1> QED BY <1>1, ClientInvInit, PTL DEF ClientSpec

(***************************************************************************)
(* Whatever the network loses or delays and whoever gives up, the handler  *)
(* has accepted as many fetch commands for a prefix as cancel commands, or *)
(* one more while it is in the table.                                      *)
(***************************************************************************)
THEOREM ClientsBalance == ClientSpec => []AcceptedBalance
  <1>1. ClientInv => AcceptedBalance
    BY DEF ClientInv, Balance, AcceptedBalance, Started, Cancelled
  <1> QED BY <1>1, ClientInvariant, PTL

(***************************************************************************)
(* What is proved of the handler alone holds when its commands come from   *)
(* such clients.                                                           *)
(***************************************************************************)
THEOREM HandlerServesClients ==
    ClientSpec => [](TableOwnsObjects /\ OneFetchLoop /\ CountedIsStored)
  <1>1. ClientInv => TableOwnsObjects /\ OneFetchLoop /\ CountedIsStored
    BY LoopInvMeans DEF ClientInv, HandlerInv
  <1> QED BY <1>1, ClientInvariant, PTL

-----------------------------------------------------------------------------
(***************************************************************************)
(* The types of the clients' variables.  The code of a reply is one that   *)
(* the handler has just put into its own reply.                            *)
(***************************************************************************)
Client == [verb : Verbs, prefix : FetchPrefixes \cup {<< >>}, state : ClientStates]

ClientTypes ==
    /\ clients \in [Clients -> Client]
    /\ requests \subseteq Clients
    /\ replies \subseteq [client : Clients, code : Codes]
    /\ decided \in [Clients -> Codes]

LEMMA ClientTypesStep ==
    ASSUME ClientTypes, ClientInv', [ClientNext]_systemVars
    PROVE  ClientTypes'
  <1> USE DEF ClientTypes
  <1>1. ASSUME NEW c \in Clients, NEW q \in FetchPrefixes, NEW verb \in {"pattern", "cancel"},
               Request(c, verb, q)
        PROVE  ClientTypes'
    <2>1. [verb |-> verb, prefix |-> q, state |-> "waiting"] \in Client
      BY DEF Client, Verbs, ClientStates
    <2> QED BY <1>1, <2>1 DEF Request
  <1>2. ASSUME NEW c \in Clients, NEW state \in ClientStates,
               clients' = [clients EXCEPT ![c].state = state],
               replies' \subseteq replies, UNCHANGED <<requests, decided>>
        PROVE  ClientTypes'
    BY <1>2 DEF Client
  <1>3. ASSUME NEW c \in Clients, Deliver(c)
        PROVE  ClientTypes'
    <2>1. reply'.code \in Codes
      BY DEF ClientInv, HandlerInv, HandlerType, PatternAloneTypeOK, FaceTypeOK
    <2>2. [client |-> c, code |-> reply'.code] \in [client : Clients, code : Codes]
      BY <2>1
    <2> QED BY <1>3, <2>1, <2>2 DEF Deliver
  <1>4. CASE UNCHANGED clients /\ decided' = decided /\ requests' \subseteq requests
             /\ replies' \subseteq replies
    BY <1>4
  <1>5. ASSUME NEW c \in Clients, ClientEnds(c)
        PROVE  ClientTypes'
    BY <1>2, <1>5 DEF ClientEnds, OnTimeout, FetchOnData, CancelOnData, GetReply, ClientStates
  <1> QED BY <1>1, <1>3, <1>4, <1>5
          DEF ClientNext, RequestFetch, RequestCancel, LoseRequest, LoseReply, clientVars,
              systemVars

(***************************************************************************)
(* Every variable of the handler and of the clients has its type; in       *)
(* particular every reply has one of the codes.                            *)
(***************************************************************************)
THEOREM ClientTypeCorrect == ClientSpec => []ClientTypeOK
  <1>1. ClientInit => ClientTypes
    BY DEF ClientInit, ClientTypes, Client, Idle, Verbs, Codes, ClientStates
  <1>2. ClientTypes /\ ClientInv' /\ [ClientNext]_systemVars => ClientTypes'
    BY ClientTypesStep
  <1>3. ClientInv /\ ClientTypes => ClientTypeOK
    BY DEF ClientInv, HandlerInv, HandlerType, ClientTypes, Client, ClientTypeOK
  <1> QED BY <1>1, <1>2, <1>3, ClientInvariant, PTL DEF ClientSpec

-----------------------------------------------------------------------------
(***************************************************************************)
(* What a client that was answered knows: the code in its state, and in    *)
(* the reply on its way to it, is the one that the handler decided on, and *)
(* there is no reply before there is a decision.                           *)
(***************************************************************************)
Told(c) ==
    /\ clients[c].state = "started" => clients[c].verb = "pattern" /\ decided[c] = 100
    /\ clients[c].state = "cancelled" => clients[c].verb = "cancel" /\ decided[c] = 101
    /\ clients[c].state = "refused" =>
          /\ decided[c] # 0
          /\ clients[c].verb = "pattern" => decided[c] # 100
          /\ clients[c].verb = "cancel" => decided[c] # 101

RepliesDecided == \A r \in replies : r.code # 0 /\ decided[r.client] = r.code

Knowledge == RepliesDecided /\ \A c \in Clients : Told(c)

(***************************************************************************)
(* A command is always answered with a code.                               *)
(***************************************************************************)
LEMMA DeliverDecides ==
    ASSUME NEW c \in Clients, Deliver(c)
    PROVE  reply'.code # 0
  <1>1. \A p : FetchCommand(p) => reply'.code # 0
    BY DEF FetchCommand, DuplicatePattern, UnknownPattern, StartPattern, StartOther, Refuse, Reply
  <1>2. ASSUME NEW p, CancelCommand(p) PROVE reply'.code # 0
    <2>1. CancelUnknown(p) => reply'.code # 0
      BY DEF CancelUnknown, Refuse, Reply
    <2>2. CancelPattern(p) => reply'.code # 0
      BY DEF CancelPattern, Reply
    <2>3. CancelOther(p) => reply'.code # 0
      BY DEF CancelOther, Reply
    <2> QED BY <1>2, <2>1, <2>2, <2>3 DEF CancelCommand
  <1> QED BY <1>1, <1>2 DEF Deliver

LEMMA KnowledgeStep ==
    ASSUME ClientTypes, ClientInv, Knowledge, [ClientNext]_systemVars
    PROVE  Knowledge'
  <1> USE DEF ClientTypes, Client, Knowledge, RepliesDecided, Told
  <1>1. ASSUME NEW c \in Clients, NEW q \in FetchPrefixes, NEW verb \in {"pattern", "cancel"},
               Request(c, verb, q)
        PROVE  Knowledge'
    BY <1>1 DEF Request
  <1>2. ASSUME NEW c \in Clients, Deliver(c)
        PROVE  Knowledge'
    <2>1. c \in requests /\ decided[c] = 0 /\ reply'.code # 0
      BY <1>2, DeliverDecides DEF Deliver, ClientInv, Undecided
    <2>2. \A r \in replies : r.client # c
      BY <2>1
    <2>3. RepliesDecided'
      BY <1>2, <2>1, <2>2 DEF Deliver
    <2>4. \A b \in Clients : Told(b)'
      BY <1>2, <2>1 DEF Deliver
    <2> QED BY <2>3, <2>4
  <1>3. ASSUME NEW c \in Clients, ClientEnds(c)
        PROVE  Knowledge'
    <2>1. UNCHANGED decided /\ replies' \subseteq replies
      BY <1>3 DEF ClientEnds, OnTimeout, FetchOnData, CancelOnData, GetReply
    <2>2. CASE OnTimeout(c)
      <3>1. Told(c)' /\ \A b \in Clients \ {c} : clients'[b] = clients[b]
        BY <2>1, <2>2 DEF OnTimeout
      <3> QED BY <2>1, <3>1
    <2>3. ASSUME NEW r \in replies, FetchOnData(c, r.code) \/ CancelOnData(c, r.code)
          PROVE  Knowledge'
      <3>1. /\ r.code # 0 /\ decided[c] = r.code
            /\ clients[c].verb \in {"pattern", "cancel"}
        BY <2>3 DEF FetchOnData, CancelOnData, GetReply
      <3>2. Told(c)'
        BY <2>1, <2>3, <3>1 DEF FetchOnData, CancelOnData, GetReply
      <3>3. \A b \in Clients \ {c} : clients'[b] = clients[b]
        BY <2>3 DEF FetchOnData, CancelOnData, GetReply
      <3> QED BY <2>1, <3>2, <3>3
    <2> QED BY <1>3, <2>2, <2>3 DEF ClientEnds
  <1>4. CASE UNCHANGED <<clients, decided>> /\ replies' \subseteq replies
    BY <1>4
  <1> QED BY <1>1, <1>2, <1>3, <1>4
          DEF ClientNext, RequestFetch, RequestCancel, LoseRequest, LoseReply, clientVars,
              systemVars

(***************************************************************************)
(* When every client was answered, the clients that have started a pattern *)
(* are the commands that the handler has accepted; likewise cancels.       *)
(***************************************************************************)
LEMMA AnsweredKnow ==
    ASSUME ClientTypes, ClientInv, Knowledge
    PROVE  ClientsKnow
  <1> SUFFICES ASSUME \A c \in Clients : Ended(c) /\ clients[c].state # "unanswered",
                      NEW p \in FetchPrefixes
               PROVE  Active(p) <=>
                        Cardinality({c \in Asked("pattern", p) : clients[c].state = "started"})
                          > Cardinality({c \in Asked("cancel", p) : clients[c].state = "cancelled"})
    BY DEF ClientsKnow
  <1>1. \A c \in Clients : clients[c].state \in {"started", "cancelled", "refused"}
    BY DEF ClientTypes, Client, ClientStates, Ended
  <1>2. {c \in Asked("pattern", p) : clients[c].state = "started"} = Started(p)
    <2>1. \A c \in Clients : clients[c].verb = "pattern" =>
             (clients[c].state = "started" <=> decided[c] = 100)
      BY <1>1 DEF Knowledge, Told
    <2>2. \A c \in Asked("pattern", p) : c \in Clients /\ clients[c].verb = "pattern"
      BY DEF Asked
    <2> QED BY <2>1, <2>2 DEF Started
  <1>3. {c \in Asked("cancel", p) : clients[c].state = "cancelled"} = Cancelled(p)
    <2>1. \A c \in Clients : clients[c].verb = "cancel" =>
             (clients[c].state = "cancelled" <=> decided[c] = 101)
      BY <1>1 DEF Knowledge, Told
    <2>2. \A c \in Asked("cancel", p) : c \in Clients /\ clients[c].verb = "cancel"
      BY DEF Asked
    <2> QED BY <2>1, <2>2 DEF Cancelled
  <1>4. Cardinality(Started(p)) \in Nat /\ Cardinality(Cancelled(p)) \in Nat
    BY AskedFinite, FS_CardinalityType
  <1>5. Cardinality(Started(p)) = Cardinality(Cancelled(p)) + (IF Active(p) THEN 1 ELSE 0)
    BY DEF ClientInv, Balance
  <1>6. Active(p) <=> Cardinality(Started(p)) > Cardinality(Cancelled(p))
    <2>1. CASE Active(p)
      BY <1>4, <1>5, <2>1
    <2>2. CASE ~Active(p)
      BY <1>4, <1>5, <2>2
    <2> QED BY <2>1, <2>2
  <1> QED BY <1>2, <1>3, <1>6

(***************************************************************************)
(* The answers of any number of clients, none of which had to give up,     *)
(* tell which patterns are in the handler's table.                         *)
(***************************************************************************)
THEOREM AnswersTellTable == ClientSpec => []ClientsKnow
  <1>1. ClientInit => ClientTypes /\ Knowledge
    BY DEF ClientInit, ClientTypes, Client, Idle, Verbs, Codes, ClientStates, Knowledge,
           RepliesDecided, Told
  <1>2. ClientTypes /\ ClientInv' /\ [ClientNext]_systemVars => ClientTypes'
    BY ClientTypesStep
  <1>3. ClientTypes /\ ClientInv /\ Knowledge /\ [ClientNext]_systemVars => Knowledge'
    BY KnowledgeStep
  <1>4. ClientTypes /\ ClientInv /\ Knowledge => ClientsKnow
    BY AnsweredKnow
  <1> QED BY <1>1, <1>2, <1>3, <1>4, ClientInvariant, PTL DEF ClientSpec
=============================================================================
