---------------------------- MODULE FastRepo_proofs ----------------------------
(***************************************************************************)
(* Invariants of the repository process, for every set of names, packets,  *)
(* prefixes, ids and addresses, and every number of packets of a pattern.  *)
(***************************************************************************)
EXTENDS FastRepo, StorageEngine_proofs

(***************************************************************************)
(* Type correctness.  doFetch turns the counter into a name component,     *)
(* which is only possible because a running pattern has names left.        *)
(***************************************************************************)
RunningHasNames == \A a \in Address : heap[a].running => heap[a].counter < CounterEnd

TypeInv == TypeOK /\ RunningHasNames

LEMMA PutType ==
    ASSUME db \subseteq Name, NEW d \in Packets, NEW ok \in PutOutcomes, Put(d, ok)
    PROVE  db' \subseteq Name /\ PutResult(d, ok) \in Name
  <1>1. d \in Name /\ << >> \in Name
    BY PacketsAssumption DEF Name
  <1> QED BY <1>1, KeyIsName DEF Put, PutResult

LEMMA AnnounceType ==
    ASSUME dataPrefixes \subseteq Name, pendingReg \subseteq Name, NEW n \in Name, Announce(n)
    PROVE  dataPrefixes' \subseteq Name /\ pendingReg' \subseteq Name
  BY DEF Announce, OnDataInsertion

LEMMA InitTypeInv == FastRepoInit => TypeInv
  <1> SUFFICES ASSUME FastRepoInit PROVE TypeInv
    OBVIOUS
  <1> USE DEF FastRepoInit, FaceInit, WriteInit, PatternInit, NoCalls, NoReply, NoObjects,
              NoHistory, NotAsked
  <1>1. EngineTypeOK
    BY DEF EngineTypeOK
  <1>2. FaceTypeOK
    BY DEF FaceTypeOK, Verbs, Codes
  <1>3. WriteTypeOK /\ PatternTypeOK
    <2>1. << >> \in Name
      BY DEF Name
    <2> QED BY <2>1 DEF WriteTypeOK, PatternTypeOK, Object, History
  <1> QED BY <1>1, <1>2, <1>3 DEF TypeInv, TypeOK, RunningHasNames, CmdStates

(***************************************************************************)
(* The steps of the process, with WriteStep and PatternStep split into     *)
(* what the two handlers do.                                               *)
(***************************************************************************)
RepoStep ==
    \/ \E readOnly \in Modes : Start(readOnly)
    \/ Stop
    \/ RunScan
    \/ \E i \in RepoPrefixes : RunListen(i)
    \/ Registration

LEMMA TypeRepoStep ==
    ASSUME TypeInv, RepoStep
    PROVE  TypeInv'
  <1> USE DEF TypeInv, TypeOK, EngineTypeOK, FaceTypeOK, WriteTypeOK, PatternTypeOK,
              RunningHasNames, processVars
  <1>1. ASSUME NEW readOnly \in Modes, Start(readOnly) PROVE TypeInv'
    BY <1>1, ConfigPrefixesAssumption DEF Start, LoadConfig, engineVars, patternVars, counterVars, CmdStates
  <1>2. CASE Stop
    <2>1. << >> \in Name
      BY DEF Name
    <2>2. WriteTypeOK' /\ PatternTypeOK' /\ RunningHasNames'
      BY <1>2, <2>1 DEF Stop, WriteLost, PatternLost, NoObjects, NoHistory, Object, History
    <2>3. EngineTypeOK' /\ FaceTypeOK'
      BY <1>2 DEF Stop, FaceLost, NoCalls, NoReply, Verbs, Codes
    <2> QED BY <1>2, <2>2, <2>3 DEF Stop, NotAsked, CmdStates
  <1>3. CASE RunScan
    <2>1. keysTrie' = TrieNodes(db) /\ scanned' = db /\ db' = db
      BY <1>3 DEF RunScan, BuildKeyTrie, keysTrie
    <2>2. LongestPrefixes(keysTrie') \subseteq Name
      BY <2>1, LongestPrefixesAreNames
    <2> QED BY <1>3, <2>1, <2>2 DEF RunScan, BuildKeyTrie, faceVars, patternVars, counterVars
  <1>4. ASSUME NEW i \in RepoPrefixes, RunListen(i) PROVE TypeInv'
    BY <1>4 DEF RunListen, engineVars, faceVars, patternVars, counterVars, CmdStates
  <1>5. ASSUME NEW p \in pendingReg, RegisterData(p) \/ RegisterDataFails(p) PROVE TypeInv'
    BY <1>5 DEF RegisterData, RegisterDataFails, engineVars, faceVars, patternVars, counterVars
  <1>6. ASSUME NEW i \in RepoPrefixes, NEW outcome \in {"registered", "failed"},
               RegisterCommand(i, outcome)
        PROVE  TypeInv'
    BY <1>6 DEF RegisterCommand, engineVars, faceVars, patternVars, counterVars, CmdStates
  <1> QED BY <1>1, <1>2, <1>3, <1>4, <1>5, <1>6 DEF RepoStep, Registration

LEMMA TypeWriteStep ==
    ASSUME TypeInv, WriteStep
    PROVE  TypeInv'
  <1> USE DEF TypeInv, TypeOK, EngineTypeOK, FaceTypeOK, WriteTypeOK, RunningHasNames,
              processVars
  <1>0. /\ PatternTypeOK' /\ RunningHasNames'
        /\ cmd' = cmd /\ registered' = registered /\ faceUp' = faceUp
    BY DEF WriteStep, patternVars, counterVars, PatternTypeOK
  <1>1. CASE MalformedInsert /\ Silent
    BY <1>0, <1>1 DEF MalformedInsert, Silent, Reply, engineVars, Verbs, Codes
  <1>2. ASSUME NEW f \in FreeIds, NEW pid \in ProcessIds, NEW n \in InsertNames,
               InsertCommand(f, pid, n), Silent
        PROVE  TypeInv'
    <2>1. f \in FetchIds /\ pid \in ProcessIds /\ n \in Name
      BY InsertNamesAssumption DEF FreeIds
    <2>2. [id |-> f, name |-> n, handle |-> "write", ctx |-> pid] \in WriteFetch
      BY <2>1 DEF WriteFetch
    <2> QED BY <1>0, <1>2, <2>1, <2>2
            DEF InsertCommand, GenerateProcessId, ExpressInterest, Silent, Reply, engineVars, Verbs, Codes
  <1>3. ASSUME NEW e \in WriteFetches, InsertTimeout(e) \/ InsertDataDropped(e), Silent
        PROVE  TypeInv'
    BY <1>0, <1>3 DEF InsertTimeout, InsertDataDropped, Forget, Silent, engineVars
  <1>4. ASSUME NEW e \in WriteFetches, NEW d \in Packets, NEW ok \in PutOutcomes,
               InsertData(e, d, ok), Announce(PutResult(d, ok))
        PROVE  TypeInv'
    <2>1. db' \subseteq Name /\ PutResult(d, ok) \in Name
      BY <1>4, PutType DEF InsertData
    <2>2. dataPrefixes' \subseteq Name /\ pendingReg' \subseteq Name
      BY <1>4, <2>1, AnnounceType
    <2> QED BY <1>0, <1>4, <2>1, <2>2 DEF InsertData, Forget
  <1> QED BY <1>1, <1>2, <1>3, <1>4 DEF WriteStep

LEMMA PatternCases ==
    ASSUME PatternStep
    PROVE  \/ \E verb \in Verbs, code \in Codes : Refuse(verb, code) /\ Silent
           \/ \E p \in FetchPrefixes : CancelPattern(p) /\ Silent
           \/ \E p \in FetchPrefixes, a \in Address :
                 StartPattern(p, a) /\ Announce(KeyOf(p)) /\ faceUp
           \/ \E a \in Address : DoFetchNothing(a) /\ Silent
           \/ \E a \in Address, f \in FreeIds : DoFetch(a, f) /\ Silent
           \/ \E e \in PatternFetches : PatternTimeout(e) /\ Silent
           \/ \E e \in PatternFetches, d \in Packets, ok \in PutOutcomes :
                 Answers(d, e) /\ PatternData(e, d, ok) /\ Silent /\ faceUp
           \/ \E p \in FetchPrefixes, kind \in OptionalKinds :
                 StartOther(p, kind) /\ Announce(KeyOf(p)) /\ faceUp
           \/ \E p \in FetchPrefixes : CancelOther(p) /\ Silent
           \/ \E x \in others, d \in Packets, ok \in PutOutcomes :
                 RecorderData(x, d, ok) /\ Silent /\ faceUp
  <1>1. {"pattern", "cancel"} \subseteq Verbs /\ {402, 403, 404} \subseteq Codes
    BY DEF Verbs, Codes
  <1> QED BY <1>1 DEF PatternStep, MalformedPattern, MalformedCancel, DuplicatePattern,
                      UnknownPattern, CancelUnknown, CommandArrives

LEMMA TypePatternStep ==
    ASSUME TypeInv, PatternStep
    PROVE  TypeInv'
  <1> USE DEF TypeInv, TypeOK, EngineTypeOK, FaceTypeOK, PatternTypeOK, RunningHasNames
  <1>0. /\ WriteTypeOK'
        /\ cmd' = cmd /\ registered' = registered /\ faceUp' = faceUp
    BY DEF PatternStep, WriteTypeOK, processVars
  <1>1. ASSUME NEW verb \in Verbs, NEW code \in Codes, Refuse(verb, code), Silent
        PROVE  TypeInv'
    BY <1>0, <1>1 DEF Refuse, Reply, Silent, engineVars, patternVars, counterVars
  <1>2. ASSUME NEW p \in FetchPrefixes, CancelPattern(p), Silent
        PROVE  TypeInv'
    <2>1. PICK x \in patterns :
             /\ heap' = [heap EXCEPT ![x.obj].running = FALSE]
             /\ patterns' = patterns \ {x}
             /\ allocated' = allocated \ {x.obj}
             /\ Reply("cancel", 101)
             /\ UNCHANGED <<engineVars, up, pit, calls, history, others>>
      BY <1>2 DEF CancelPattern
    <2>2. x.obj \in Address
      BY DEF Pattern
    <2>3. heap' \in [Address -> Object] /\ RunningHasNames'
      BY <2>1, <2>2 DEF Object
    <2> QED BY <1>0, <1>2, <2>1, <2>3 DEF Silent, Reply, engineVars, Verbs, Codes
  <1>3. ASSUME NEW p \in FetchPrefixes, NEW a \in Address, StartPattern(p, a), Announce(KeyOf(p))
        PROVE  TypeInv'
    <2>1. p \in Name /\ KeyOf(p) \in Name
      BY FetchPrefixesAssumption, KeyIsName
    <2>2. dataPrefixes' \subseteq Name /\ pendingReg' \subseteq Name
      BY <1>3, <2>1, AnnounceType
    <2>3. heap' \in [Address -> Object] /\ RunningHasNames'
      BY <1>3, <2>1, CounterEndAssumption DEF StartPattern, Object
    <2>4. patterns' \subseteq Pattern /\ others' \subseteq Other /\ allocated' \subseteq Address
      BY <1>3 DEF StartPattern, Pattern
    <2>5. history' \in [Address -> History]
      BY <1>3 DEF StartPattern, History, NoCallback
    <2>6. calls' \in [Address -> Nat]
      BY <1>3 DEF StartPattern, CallLater
    <2>7. db' = db /\ keysTrieBuilt' = keysTrieBuilt /\ scanned' = scanned
          /\ up' = up /\ pit' = pit /\ reply' \in [verb : Verbs, code : Codes]
      BY <1>3 DEF StartPattern, engineVars, Reply, Verbs, Codes
    <2> QED BY <1>0, <2>2, <2>3, <2>4, <2>5, <2>6, <2>7
  <1>4. ASSUME NEW a \in Address, DoFetchNothing(a), Silent
        PROVE  TypeInv'
    BY <1>0, <1>4 DEF DoFetchNothing, Silent, engineVars, patternVars, counterVars
  <1>5. ASSUME NEW a \in Address, NEW f \in FreeIds, DoFetch(a, f), Silent
        PROVE  TypeInv'
    <2>1. heap[a].counter \in 0..(CounterEnd - 1) /\ heap[a].prefix \in Name
      BY <1>5, CounterEndAssumption DEF DoFetch, Object
    <2>2. FetchName(a, heap[a].counter) \in Name
      BY <2>1, CounterTextAssumption DEF FetchName, Name
    <2>3. f \in FetchIds
      BY DEF FreeIds
    <2>4. pit' \subseteq WriteFetch \cup PatternFetch
      BY <1>5, <2>2, <2>3 DEF DoFetch, ExpressInterest, PatternFetch
    <2> QED BY <1>0, <1>5, <2>4 DEF DoFetch, Silent, engineVars, patternVars, counterVars
  <1>6. ASSUME NEW e \in PatternFetches, PatternTimeout(e), Silent
        PROVE  TypeInv'
    <2>1. e.ctx \in Address
      BY DEF PatternFetches, WriteFetch, PatternFetch
    <2>2. history' \in [Address -> History]
      BY <1>6, <2>1 DEF PatternTimeout, History
    <2> QED BY <1>0, <1>6, <2>2 DEF PatternTimeout, Forget, Silent, engineVars
  <1>7. ASSUME NEW e \in PatternFetches, NEW d \in Packets, NEW ok \in PutOutcomes,
               PatternData(e, d, ok), Silent
        PROVE  TypeInv'
    <2>1. e.ctx \in Address
      BY DEF PatternFetches, WriteFetch, PatternFetch
    <2>2. db' \subseteq Name
      BY <1>7, PutType DEF PatternData, PatternAnswer
    <2>3. heap' \in [Address -> Object] /\ RunningHasNames'
      <3>1. heap[e.ctx].counter + 1 \in Nat
        BY <2>1 DEF Object
      <3>2. CASE heap[e.ctx].counter + 1 < CounterEnd
        <4>1. heap' = [heap EXCEPT ![e.ctx].counter = heap[e.ctx].counter + 1]
          BY <1>7, <3>2 DEF PatternData, PatternAnswer, AfterData
        <4> QED BY <2>1, <3>1, <3>2, <4>1 DEF Object
      <3>3. CASE ~(heap[e.ctx].counter + 1 < CounterEnd)
        <4>1. heap' = [heap EXCEPT ![e.ctx].counter = heap[e.ctx].counter + 1,
                                   ![e.ctx].running = FALSE]
          BY <1>7, <3>3 DEF PatternData, PatternAnswer, AfterData
        <4> QED BY <2>1, <3>1, <4>1 DEF Object
      <3> QED BY <3>2, <3>3
    <2>4. calls' \in [Address -> Nat]
      BY <1>7, <2>1 DEF PatternData, PatternAnswer, AfterData, CallLater
    <2> QED BY <1>0, <1>7, <2>2, <2>3, <2>4 DEF PatternData, PatternAnswer, Forget, Silent
  <1>8. ASSUME NEW p \in FetchPrefixes, NEW kind \in OptionalKinds,
               StartOther(p, kind), Announce(KeyOf(p))
        PROVE  TypeInv'
    <2>1. KeyOf(p) \in Name
      BY FetchPrefixesAssumption, KeyIsName
    <2>2. dataPrefixes' \subseteq Name /\ pendingReg' \subseteq Name
      BY <1>8, <2>1, AnnounceType
    <2>3. others' \subseteq Other
      BY <1>8 DEF StartOther, Other
    <2> QED BY <1>0, <1>8, <2>2, <2>3
            DEF StartOther, Reply, engineVars, counterVars, Verbs, Codes
  <1>9. ASSUME NEW p \in FetchPrefixes, CancelOther(p), Silent
        PROVE  TypeInv'
    BY <1>0, <1>9 DEF CancelOther, Silent, Reply, engineVars, counterVars, Verbs, Codes
  <1>10. ASSUME NEW x \in others, NEW d \in Packets, NEW ok \in PutOutcomes,
                RecorderData(x, d, ok), Silent
        PROVE  TypeInv'
    <2>1. db' \subseteq Name
      BY <1>10, PutType DEF RecorderData
    <2> QED BY <1>0, <1>10, <2>1 DEF RecorderData, Silent, faceVars, patternVars, counterVars
  <1> QED BY <1>1, <1>2, <1>3, <1>4, <1>5, <1>6, <1>7, <1>8, <1>9, <1>10, PatternCases

LEMMA TypeStutter ==
    ASSUME TypeInv, UNCHANGED vars
    PROVE  TypeInv'
  BY DEF vars, engineVars, faceVars, processVars, patternVars, counterVars, repoVars, TypeInv, TypeOK, EngineTypeOK,
         FaceTypeOK, WriteTypeOK, PatternTypeOK, RunningHasNames

(***************************************************************************)
(* The type invariant of every run of FastRepo.                            *)
(***************************************************************************)
THEOREM TypeCorrect == FastRepoSpec => []TypeOK
  <1>1. FastRepoInit => TypeInv
    BY InitTypeInv
  <1>2. TypeInv /\ [FastRepoNext]_vars => TypeInv'
    <2> SUFFICES ASSUME TypeInv, [FastRepoNext]_vars PROVE TypeInv'
      OBVIOUS
    <2>1. CASE RepoStep
      BY <2>1, TypeRepoStep
    <2>2. CASE WriteStep
      BY <2>2, TypeWriteStep
    <2>3. CASE PatternStep
      BY <2>3, TypePatternStep
    <2>4. CASE UNCHANGED vars
      BY <2>4, TypeStutter
    <2> QED BY <2>1, <2>2, <2>3, <2>4 DEF FastRepoNext, Work, RepoStep
  <1>3. TypeInv => TypeOK
    BY DEF TypeInv
  <1> QED BY <1>1, <1>2, <1>3, PTL DEF FastRepoSpec

-----------------------------------------------------------------------------
(***************************************************************************)
(* Coverage.  NewKeysCovered is not inductive: the packet of a pattern is  *)
(* stored without an announcement, so what it needs is that whatever may   *)
(* still be fetched for a pattern lies below a data prefix, even after the *)
(* pattern was cancelled (PatternsCovered); and the list of data prefixes  *)
(* is replaced when a process starts, so nothing may be due before the     *)
(* scan, which finds the configured prefixes in it (BeforeScan).           *)
(***************************************************************************)
PatternsCovered ==
    /\ \A a \in Address : heap[a].running => Covered(dataPrefixes, KeyOf(heap[a].prefix))
    /\ \A e \in PatternFetches : Covered(dataPrefixes, KeyOf(e.name))
    /\ \A x \in others : Covered(dataPrefixes, KeyOf(x.prefix))

BeforeScan ==
    ~keysTrieBuilt =>
        /\ pit = {} /\ scanned = {} /\ registered = {} /\ others = {}
        /\ \A a \in Address : ~heap[a].running
        /\ up => faceUp /\ dataPrefixes = ConfigPrefixes

ScanWhileUp == keysTrieBuilt => up

CoverInv ==
    /\ PatternsCovered
    /\ BeforeScan
    /\ ScanWhileUp
    /\ NewKeysCovered
    /\ LeafKeysCovered
    /\ ListenedOrPending

LEMMA CoveredMonotone ==
    ASSUME NEW P, NEW Q, P \subseteq Q, NEW n, Covered(P, n)
    PROVE  Covered(Q, n)
  BY DEF Covered

LEMMA CoveredBelow ==
    ASSUME NEW P \in SUBSET Name, NEW n \in Name, NEW k \in Name,
           Covered(P, n), IsPrefix(n, k)
    PROVE  Covered(P, k)
  <1>1. PICK p \in P : IsPrefix(p, n)
    BY DEF Covered
  <1>2. IsPrefix(p, k)
    BY <1>1, PrefixTransitive DEF Name
  <1> QED BY <1>2 DEF Covered

LEMMA AnnounceCovers ==
    ASSUME NEW n \in Name, Announce(n)
    PROVE  /\ dataPrefixes \subseteq dataPrefixes'
           /\ Covered(dataPrefixes', n)
           /\ \E new : /\ dataPrefixes' = dataPrefixes \cup new
                       /\ pendingReg' = pendingReg \cup new
  <1>1. CASE Covered(dataPrefixes, n)
    <2>1. dataPrefixes' = dataPrefixes \cup {} /\ pendingReg' = pendingReg \cup {}
      BY <1>1 DEF Announce, OnDataInsertion
    <2> QED BY <1>1, <2>1
  <1>2. CASE ~Covered(dataPrefixes, n)
    <2>1. dataPrefixes' = dataPrefixes \cup {n} /\ pendingReg' = pendingReg \cup {n}
      BY <1>2 DEF Announce, OnDataInsertion
    <2>2. IsPrefix(n, n)
      BY PrefixReflexive DEF Name
    <2> QED BY <2>1, <2>2 DEF Covered
  <1> QED BY <1>1, <1>2

(***************************************************************************)
(* What a handler owes the invariant: its new keys and what is left to     *)
(* fetch for patterns lie below the data prefixes it leaves.               *)
(***************************************************************************)
LEMMA HandlerKeepsCover ==
    ASSUME CoverInv, Running,
           UNCHANGED <<keysTrieBuilt, scanned, up, registered, faceUp>>,
           NEW new, dataPrefixes' = dataPrefixes \cup new, pendingReg' = pendingReg \cup new,
           \A k \in db' \ db : Covered(dataPrefixes', k),
           PatternsCovered'
    PROVE  CoverInv'
  <1>1. keysTrieBuilt
    BY DEF Running
  <1>2. BeforeScan' /\ ScanWhileUp'
    BY <1>1 DEF CoverInv, BeforeScan, ScanWhileUp
  <1>3. \A n : Covered(dataPrefixes, n) => Covered(dataPrefixes', n)
    BY DEF Covered
  <1>4. NewKeysCovered' /\ LeafKeysCovered'
    BY <1>3 DEF CoverInv, NewKeysCovered, LeafKeysCovered
  <1>5. ListenedOrPending'
    BY DEF CoverInv, ListenedOrPending
  <1> QED BY <1>2, <1>4, <1>5 DEF CoverInv

(***************************************************************************)
(* ... which costs nothing when it stores nothing and adds no work.        *)
(***************************************************************************)
LEMMA QuietHandlerKeepsCover ==
    ASSUME CoverInv, Running, Silent,
           UNCHANGED <<db, keysTrieBuilt, scanned, up, registered, faceUp>>,
           \A a \in Address : heap'[a].running =>
               heap[a].running /\ heap'[a].prefix = heap[a].prefix,
           \A e \in PatternFetches' : e \in PatternFetches,
           others' \subseteq others
    PROVE  CoverInv'
  <1>1. dataPrefixes' = dataPrefixes \cup {} /\ pendingReg' = pendingReg \cup {}
    BY DEF Silent
  <1>2. PatternsCovered'
    BY DEF CoverInv, PatternsCovered, Silent, KeyOf
  <1> QED BY <1>1, <1>2, HandlerKeepsCover

LEMMA CoverRepoStep ==
    ASSUME TypeInv, CoverInv, RepoStep
    PROVE  CoverInv'
  <1> USE DEF CoverInv
  <1>1. ASSUME NEW readOnly \in Modes, Start(readOnly) PROVE CoverInv'
    <2>1. ~keysTrieBuilt
      BY <1>1 DEF Start, ScanWhileUp
    <2>2. /\ ~keysTrieBuilt' /\ pit' = {} /\ scanned' = {} /\ registered' = {} /\ others' = {}
          /\ \A a \in Address : ~heap'[a].running
          /\ faceUp' /\ dataPrefixes' = ConfigPrefixes
      BY <1>1, <2>1 DEF Start, LoadConfig, BeforeScan, engineVars, patternVars, counterVars
    <2> QED BY <2>2 DEF PatternsCovered, PatternFetches, BeforeScan, ScanWhileUp,
                        NewKeysCovered, LeafKeysCovered, ListenedOrPending
  <1>2. CASE Stop
    <2>1. ~keysTrieBuilt' /\ pit' = {} /\ scanned' = {} /\ registered' = {} /\ others' = {}
          /\ ~up' /\ \A a \in Address : ~heap'[a].running
      BY <1>2 DEF Stop, FaceLost, PatternLost, NoObjects
    <2> QED BY <2>1 DEF PatternsCovered, PatternFetches, BeforeScan, ScanWhileUp,
                        NewKeysCovered, LeafKeysCovered, ListenedOrPending
  <1>3. CASE RunScan
    <2>1. /\ up' = up /\ up /\ keysTrieBuilt' /\ db' = db /\ scanned' = db
          /\ pit' = pit /\ pit = {} /\ registered' = registered /\ registered = {}
          /\ others' = others /\ others = {}
          /\ heap' = heap /\ \A a \in Address : ~heap[a].running
      BY <1>3 DEF RunScan, BuildKeyTrie, BeforeScan, faceVars, patternVars, counterVars
    <2>2. LongestPrefixes(TrieNodes(db)) \subseteq dataPrefixes' /\ pendingReg' = dataPrefixes'
      BY <1>3, <2>1 DEF RunScan, keysTrie
    <2>3. LeafKeysCovered'
      <3> SUFFICES ASSUME NEW k \in db, k # << >>, \A other \in db : ~IsStrictPrefix(k, other)
                   PROVE  Covered(dataPrefixes', k)
        BY <2>1 DEF LeafKeysCovered
      <3>1. Covered(LongestPrefixes(TrieNodes(db)), k)
        BY LeafKeyCovered DEF TypeInv, TypeOK, EngineTypeOK
      <3> QED BY <2>2, <3>1, CoveredMonotone
    <2>4. PatternsCovered' /\ BeforeScan' /\ ScanWhileUp'
      BY <2>1 DEF PatternsCovered, PatternFetches, BeforeScan, ScanWhileUp
    <2>5. NewKeysCovered' /\ ListenedOrPending'
      BY <2>1, <2>2 DEF NewKeysCovered, ListenedOrPending
    <2> QED BY <2>3, <2>4, <2>5
  <1>4. ASSUME NEW i \in RepoPrefixes, RunListen(i) PROVE CoverInv'
    BY <1>4 DEF RunListen, engineVars, faceVars, patternVars, counterVars, PatternsCovered, PatternFetches,
                BeforeScan, ScanWhileUp, NewKeysCovered, LeafKeysCovered, ListenedOrPending, KeyOf
  <1>5. ASSUME NEW p \in pendingReg, RegisterData(p) \/ RegisterDataFails(p) PROVE CoverInv'
    <2>1. /\ UNCHANGED <<engineVars, faceVars, patternVars, dataPrefixes>>
          /\ keysTrieBuilt
      BY <1>5 DEF RegisterData, RegisterDataFails, Running
    <2>2. ListenedOrPending'
      BY <1>5, <2>1 DEF RegisterData, RegisterDataFails, ListenedOrPending, engineVars
    <2> QED BY <2>1, <2>2 DEF engineVars, faceVars, patternVars, counterVars, PatternsCovered, PatternFetches,
                BeforeScan, ScanWhileUp, NewKeysCovered, LeafKeysCovered, KeyOf
  <1>6. ASSUME NEW i \in RepoPrefixes, NEW outcome \in {"registered", "failed"},
               RegisterCommand(i, outcome)
        PROVE  CoverInv'
    BY <1>6 DEF RegisterCommand, engineVars, faceVars, patternVars, counterVars, PatternsCovered,
                PatternFetches, BeforeScan, ScanWhileUp, NewKeysCovered, LeafKeysCovered,
                ListenedOrPending, KeyOf
  <1> QED BY <1>1, <1>2, <1>3, <1>4, <1>5, <1>6 DEF RepoStep, Registration

LEMMA CoverWriteStep ==
    ASSUME TypeInv, CoverInv, WriteStep
    PROVE  CoverInv'
  <1>0. UNCHANGED <<heap, others, registered, faceUp>> /\ Running
    BY DEF WriteStep, patternVars, counterVars, CommandArrives
  <1>1. CASE MalformedInsert /\ Silent
    BY <1>0, <1>1, QuietHandlerKeepsCover DEF MalformedInsert, engineVars, PatternFetches
  <1>2. ASSUME NEW f \in FreeIds, NEW pid \in ProcessIds, NEW n \in InsertNames,
               InsertCommand(f, pid, n), Silent
        PROVE  CoverInv'
    <2>1. \A e \in PatternFetches' : e \in PatternFetches
      BY <1>2 DEF InsertCommand, ExpressInterest, PatternFetches
    <2> QED BY <1>0, <1>2, <2>1, QuietHandlerKeepsCover DEF InsertCommand, engineVars
  <1>3. ASSUME NEW e \in WriteFetches, InsertTimeout(e) \/ InsertDataDropped(e), Silent
        PROVE  CoverInv'
    <2>1. \A x \in PatternFetches' : x \in PatternFetches
      BY <1>3 DEF InsertTimeout, InsertDataDropped, Forget, PatternFetches
    <2> QED BY <1>0, <1>3, <2>1, QuietHandlerKeepsCover
            DEF InsertTimeout, InsertDataDropped, engineVars
  <1>4. ASSUME NEW e \in WriteFetches, NEW d \in Packets, NEW ok \in PutOutcomes,
               InsertData(e, d, ok), Announce(PutResult(d, ok))
        PROVE  CoverInv'
    <2>1. PutResult(d, ok) \in Name
      BY <1>4, PutType DEF InsertData, TypeInv, TypeOK, EngineTypeOK
    <2>2. dataPrefixes \subseteq dataPrefixes' /\ Covered(dataPrefixes', PutResult(d, ok))
      BY <1>4, <2>1, AnnounceCovers
    <2>3. PICK new : dataPrefixes' = dataPrefixes \cup new /\ pendingReg' = pendingReg \cup new
      BY <1>4, <2>1, AnnounceCovers
    <2>4. \A k \in db' \ db : Covered(dataPrefixes', k)
      BY <1>4, <2>2 DEF InsertData, Put, PutResult
    <2>5. PatternFetches' \subseteq PatternFetches
      BY <1>4 DEF InsertData, Forget, PatternFetches
    <2>6. PatternsCovered'
      BY <1>0, <2>2, <2>5, CoveredMonotone DEF CoverInv, PatternsCovered, KeyOf
    <2> QED BY <1>0, <1>4, <2>3, <2>4, <2>6, HandlerKeepsCover DEF InsertData
  <1> QED BY <1>1, <1>2, <1>3, <1>4 DEF WriteStep

(***************************************************************************)
(* What a pattern stores lies below the prefix announced when it started.  *)
(***************************************************************************)
LEMMA PacketBelowCovered ==
    ASSUME TypeInv, NEW n \in Name, Covered(dataPrefixes, KeyOf(n)),
           NEW d \in Packets, IsPrefix(n, d)
    PROVE  Covered(dataPrefixes, KeyOf(d))
  <1>1. d \in Name /\ dataPrefixes \in SUBSET Name
    BY PacketsAssumption DEF TypeInv, TypeOK
  <1>2. IsPrefix(KeyOf(n), KeyOf(d))
    BY <1>1, KeyBelow
  <1> QED BY <1>1, <1>2, CoveredBelow, KeyIsName

LEMMA FetchedPacketCovered ==
    ASSUME TypeInv, CoverInv, NEW e \in PatternFetches, NEW d \in Packets, Answers(d, e)
    PROVE  Covered(dataPrefixes, KeyOf(d))
  <1>1. e.name \in Name
    BY DEF TypeInv, TypeOK, FaceTypeOK, PatternFetches, WriteFetch, PatternFetch
  <1> QED BY <1>1, PacketBelowCovered DEF CoverInv, PatternsCovered, Answers

LEMMA RecordedPacketCovered ==
    ASSUME TypeInv, CoverInv, NEW x \in others, NEW d \in Packets, IsPrefix(x.prefix, d)
    PROVE  Covered(dataPrefixes, KeyOf(d))
  <1>1. x.prefix \in Name
    BY FetchPrefixesAssumption DEF TypeInv, TypeOK, PatternTypeOK, Other
  <1> QED BY <1>1, PacketBelowCovered DEF CoverInv, PatternsCovered

LEMMA CoverPatternStep ==
    ASSUME TypeInv, CoverInv, PatternStep
    PROVE  CoverInv'
  <1>0. UNCHANGED <<registered, faceUp>> /\ Running
    BY DEF PatternStep, CommandArrives
  <1>1. ASSUME NEW verb \in Verbs, NEW code \in Codes, Refuse(verb, code), Silent
        PROVE  CoverInv'
    BY <1>0, <1>1, QuietHandlerKeepsCover DEF Refuse, engineVars, patternVars, counterVars, PatternFetches
  <1>2. ASSUME NEW p \in FetchPrefixes, CancelPattern(p), Silent
        PROVE  CoverInv'
    <2>1. PICK x \in patterns : heap' = [heap EXCEPT ![x.obj].running = FALSE]
      BY <1>2 DEF CancelPattern
    <2>2. heap \in [Address -> Object] /\ x.obj \in Address
      BY DEF TypeInv, TypeOK, PatternTypeOK, Pattern
    <2>3. \A a \in Address : heap'[a].running =>
             heap[a].running /\ heap'[a].prefix = heap[a].prefix
      BY <2>1, <2>2 DEF Object
    <2>4. UNCHANGED <<db, keysTrieBuilt, scanned, up, pit, others>>
      BY <1>2 DEF CancelPattern, engineVars
    <2> QED BY <1>0, <1>2, <2>3, <2>4, QuietHandlerKeepsCover DEF PatternFetches
  <1>3. ASSUME NEW p \in FetchPrefixes, NEW a \in Address, StartPattern(p, a), Announce(KeyOf(p))
        PROVE  CoverInv'
    <2>1. KeyOf(p) \in Name
      BY FetchPrefixesAssumption, KeyIsName
    <2>2. dataPrefixes \subseteq dataPrefixes' /\ Covered(dataPrefixes', KeyOf(p))
      BY <1>3, <2>1, AnnounceCovers
    <2>3. PICK new : dataPrefixes' = dataPrefixes \cup new /\ pendingReg' = pendingReg \cup new
      BY <1>3, <2>1, AnnounceCovers
    <2>4. UNCHANGED <<db, keysTrieBuilt, scanned, up, pit, others>>
      BY <1>3 DEF StartPattern, engineVars
    <2>5. \A b \in Address : heap'[b] = heap[b] \/ heap'[b].prefix = p
      <3>1. heap' = [heap EXCEPT ![a] = [prefix |-> p, counter |-> 0, running |-> TRUE]]
        BY <1>3 DEF StartPattern
      <3> QED BY <3>1 DEF TypeInv, TypeOK, PatternTypeOK
    <2>6. PatternsCovered'
      BY <2>2, <2>4, <2>5, CoveredMonotone DEF CoverInv, PatternsCovered, PatternFetches, KeyOf
    <2> QED BY <1>0, <2>3, <2>4, <2>6, HandlerKeepsCover
  <1>4. ASSUME NEW a \in Address, DoFetchNothing(a), Silent
        PROVE  CoverInv'
    BY <1>0, <1>4, QuietHandlerKeepsCover
    DEF DoFetchNothing, engineVars, patternVars, counterVars, PatternFetches
  <1>5. ASSUME NEW a \in Address, NEW f \in FreeIds, DoFetch(a, f), Silent
        PROVE  CoverInv'
    <2> DEFINE name == FetchName(a, heap[a].counter)
    <2>1. heap[a].running /\ heap[a].prefix \in Name
          /\ heap[a].counter \in 0..(CounterEnd - 1)
      BY <1>5, CounterEndAssumption
      DEF DoFetch, TypeInv, TypeOK, PatternTypeOK, Object, RunningHasNames
    <2>2. name \in Name /\ IsPrefix(heap[a].prefix, name)
      BY <2>1, CounterTextAssumption, PrefixAppend DEF FetchName, Name
    <2>3. Covered(dataPrefixes, KeyOf(name))
      <3>1. Covered(dataPrefixes, KeyOf(heap[a].prefix))
        BY <2>1 DEF CoverInv, PatternsCovered
      <3>2. IsPrefix(KeyOf(heap[a].prefix), KeyOf(name))
        BY <2>1, <2>2, KeyBelow
      <3>3. KeyOf(heap[a].prefix) \in Name /\ KeyOf(name) \in Name
        BY <2>1, <2>2, KeyIsName
      <3>4. dataPrefixes \in SUBSET Name
        BY DEF TypeInv, TypeOK
      <3> QED BY <3>1, <3>2, <3>3, <3>4, CoveredBelow
    <2>4. \A e \in PatternFetches' : e \in PatternFetches \/ e.name = name
      BY <1>5 DEF DoFetch, ExpressInterest, PatternFetches
    <2>5. UNCHANGED <<db, keysTrieBuilt, scanned, up, heap, others>>
      BY <1>5 DEF DoFetch, engineVars, patternVars, counterVars
    <2>6. PatternsCovered'
      BY <1>5, <2>3, <2>4, <2>5 DEF Silent, CoverInv, PatternsCovered, KeyOf
    <2>7. dataPrefixes' = dataPrefixes \cup {} /\ pendingReg' = pendingReg \cup {}
      BY <1>5 DEF Silent
    <2> QED BY <1>0, <2>5, <2>6, <2>7, HandlerKeepsCover
  <1>6. ASSUME NEW e \in PatternFetches, PatternTimeout(e), Silent
        PROVE  CoverInv'
    BY <1>0, <1>6, QuietHandlerKeepsCover
    DEF PatternTimeout, Forget, engineVars, PatternFetches
  <1>7. ASSUME NEW e \in PatternFetches, NEW d \in Packets, NEW ok \in PutOutcomes,
               Answers(d, e), PatternData(e, d, ok), Silent
        PROVE  CoverInv'
    <2>1. e.ctx \in Address
      BY DEF TypeInv, TypeOK, FaceTypeOK, PatternFetches, WriteFetch, PatternFetch
    <2>2. Covered(dataPrefixes, KeyOf(d))
      BY <1>7, FetchedPacketCovered
    <2>3. \A k \in db' \ db : Covered(dataPrefixes', k)
      BY <1>7, <2>2 DEF PatternData, PatternAnswer, Put, Silent
    <2>4. \A a \in Address : heap'[a].running =>
             heap[a].running /\ heap'[a].prefix = heap[a].prefix
      <3>1. heap \in [Address -> Object]
        BY DEF TypeInv, TypeOK, PatternTypeOK
      <3> QED BY <1>7, <2>1, <3>1 DEF PatternData, PatternAnswer, AfterData, Object
    <2>5. PatternFetches' \subseteq PatternFetches
      BY <1>7 DEF PatternData, PatternAnswer, Forget, PatternFetches
    <2>6. PatternsCovered'
      BY <1>7, <2>4, <2>5 DEF PatternData, PatternAnswer, Silent, CoverInv, PatternsCovered, KeyOf
    <2>7. dataPrefixes' = dataPrefixes \cup {} /\ pendingReg' = pendingReg \cup {}
      BY <1>7 DEF Silent
    <2> QED BY <1>0, <1>7, <2>3, <2>6, <2>7, HandlerKeepsCover DEF PatternData, PatternAnswer
  <1>8. ASSUME NEW p \in FetchPrefixes, NEW kind \in OptionalKinds,
               StartOther(p, kind), Announce(KeyOf(p))
        PROVE  CoverInv'
    <2>1. KeyOf(p) \in Name
      BY FetchPrefixesAssumption, KeyIsName
    <2>2. dataPrefixes \subseteq dataPrefixes' /\ Covered(dataPrefixes', KeyOf(p))
      BY <1>8, <2>1, AnnounceCovers
    <2>3. PICK new : dataPrefixes' = dataPrefixes \cup new /\ pendingReg' = pendingReg \cup new
      BY <1>8, <2>1, AnnounceCovers
    <2>4. /\ UNCHANGED <<db, keysTrieBuilt, scanned, up, pit, heap>>
          /\ \A x \in others' : x \in others \/ x.prefix = p
      BY <1>8 DEF StartOther, engineVars, counterVars
    <2>5. PatternsCovered'
      BY <2>2, <2>4, CoveredMonotone DEF CoverInv, PatternsCovered, PatternFetches, KeyOf
    <2> QED BY <1>0, <2>3, <2>4, <2>5, HandlerKeepsCover
  <1>9. ASSUME NEW p \in FetchPrefixes, CancelOther(p), Silent
        PROVE  CoverInv'
    BY <1>0, <1>9, QuietHandlerKeepsCover
    DEF CancelOther, engineVars, counterVars, PatternFetches
  <1>10. ASSUME NEW x \in others, NEW d \in Packets, NEW ok \in PutOutcomes,
                RecorderData(x, d, ok), Silent
         PROVE  CoverInv'
    <2>2. Covered(dataPrefixes, KeyOf(d))
      BY <1>10, RecordedPacketCovered DEF RecorderData
    <2>3. \A k \in db' \ db : Covered(dataPrefixes', k)
      BY <1>10, <2>2 DEF RecorderData, Put, Silent
    <2>4. UNCHANGED <<keysTrieBuilt, scanned, up, pit, heap, others>>
      BY <1>10 DEF RecorderData, faceVars, patternVars, counterVars
    <2>5. PatternsCovered'
      BY <1>10, <2>4 DEF Silent, CoverInv, PatternsCovered, PatternFetches, KeyOf
    <2>6. dataPrefixes' = dataPrefixes \cup {} /\ pendingReg' = pendingReg \cup {}
      BY <1>10 DEF Silent
    <2> QED BY <1>0, <2>3, <2>4, <2>5, <2>6, HandlerKeepsCover
  <1> QED BY <1>1, <1>2, <1>3, <1>4, <1>5, <1>6, <1>7, <1>8, <1>9, <1>10, PatternCases

LEMMA InitCoverInv == FastRepoInit => CoverInv
  BY DEF FastRepoInit, FaceInit, PatternInit, NoObjects, CoverInv, PatternsCovered, PatternFetches,
         BeforeScan, ScanWhileUp, NewKeysCovered, LeafKeysCovered, ListenedOrPending

LEMMA CoverStutter ==
    ASSUME CoverInv, UNCHANGED vars
    PROVE  CoverInv'
  BY DEF vars, engineVars, faceVars, patternVars, counterVars, repoVars, CoverInv, PatternsCovered,
         PatternFetches, BeforeScan, ScanWhileUp, NewKeysCovered, LeafKeysCovered,
         ListenedOrPending, KeyOf

LEMMA CoverInvariant == FastRepoSpec => [](TypeInv /\ CoverInv)
  <1>1. FastRepoInit => TypeInv /\ CoverInv
    BY InitTypeInv, InitCoverInv
  <1>2. TypeInv /\ CoverInv /\ [FastRepoNext]_vars => TypeInv' /\ CoverInv'
    <2> SUFFICES ASSUME TypeInv, CoverInv, [FastRepoNext]_vars PROVE TypeInv' /\ CoverInv'
      OBVIOUS
    <2>1. CASE RepoStep
      BY <2>1, TypeRepoStep, CoverRepoStep
    <2>2. CASE WriteStep
      BY <2>2, TypeWriteStep, CoverWriteStep
    <2>3. CASE PatternStep
      BY <2>3, TypePatternStep, CoverPatternStep
    <2>4. CASE UNCHANGED vars
      BY <2>4, TypeStutter, CoverStutter
    <2> QED BY <2>1, <2>2, <2>3, <2>4 DEF FastRepoNext, Work, RepoStep
  <1> QED BY <1>1, <1>2, PTL DEF FastRepoSpec

(***************************************************************************)
(* Every key that this process has stored is below a data prefix.          *)
(***************************************************************************)
THEOREM NewKeysAreCovered == FastRepoSpec => []NewKeysCovered
  <1>1. CoverInv => NewKeysCovered
    BY DEF CoverInv
  <1> QED BY <1>1, CoverInvariant, PTL

(***************************************************************************)
(* Of the keys found by the scan, those that no other continues are, too.  *)
(***************************************************************************)
THEOREM LeafKeysAreCovered == FastRepoSpec => []LeafKeysCovered
  <1>1. CoverInv => LeafKeysCovered
    BY DEF CoverInv
  <1> QED BY <1>1, CoverInvariant, PTL

(***************************************************************************)
(* The data prefixes are those registered or about to be, while the Face   *)
(* is up.                                                                  *)
(***************************************************************************)
THEOREM DataPrefixesListened == FastRepoSpec => []ListenedOrPending
  <1>1. CoverInv => ListenedOrPending
    BY DEF CoverInv
  <1> QED BY <1>1, CoverInvariant, PTL

-----------------------------------------------------------------------------
(***************************************************************************)
(* The processes of WriteHandle, which nothing outside it touches.         *)
(***************************************************************************)
ProcessInv == ProcessHasFetch /\ FetchHasProcess

LEMMA ProcessKept ==
    ASSUME ProcessInv, UNCHANGED processVars, WriteFetches' = WriteFetches
    PROVE  ProcessInv'
  BY DEF ProcessInv, ProcessHasFetch, FetchHasProcess, processVars

LEMMA ProcessRepoStep ==
    ASSUME ProcessInv, RepoStep
    PROVE  ProcessInv'
  <1>1. CASE Stop
    BY <1>1 DEF Stop, FaceLost, WriteLost, WriteFetches, ProcessInv, ProcessHasFetch,
                FetchHasProcess
  <1>2. CASE ~Stop
    <2>1. UNCHANGED processVars /\ pit' = pit
      BY <1>2 DEF RepoStep, Registration, Start, RunScan, RunListen, RegisterData,
                  RegisterDataFails, RegisterCommand, faceVars
    <2> QED BY <2>1, ProcessKept DEF WriteFetches
  <1> QED BY <1>1, <1>2

InsertStep ==
    \/ MalformedInsert
    \/ \E f \in FreeIds, pid \in ProcessIds, n \in InsertNames : InsertCommand(f, pid, n)
    \/ \E e \in WriteFetches :
          \/ InsertTimeout(e) \/ InsertDataDropped(e)
          \/ \E d \in Packets, ok \in PutOutcomes : InsertData(e, d, ok)

LEMMA ProcessInsertStep ==
    ASSUME ProcessInv, InsertStep
    PROVE  ProcessInv'
  <1> USE DEF ProcessInv, ProcessHasFetch, FetchHasProcess
  <1>1. CASE MalformedInsert
    BY <1>1, ProcessKept DEF MalformedInsert, WriteFetches
  <1>2. ASSUME NEW f \in FreeIds, NEW pid \in ProcessIds, NEW n \in InsertNames,
               InsertCommand(f, pid, n)
        PROVE  ProcessInv'
    <2> DEFINE new == [id |-> f, name |-> n, handle |-> "write", ctx |-> pid]
    <2>1. processes' = processes \cup {pid} /\ WriteFetches' = WriteFetches \cup {new}
      BY <1>2 DEF InsertCommand, ExpressInterest, WriteFetches
    <2>2. collided' = IF \E e \in WriteFetches : e.ctx = pid
                        THEN collided \cup {pid} ELSE collided
      BY <1>2 DEF InsertCommand, GenerateProcessId, InUse
    <2>3. new.ctx = pid
      OBVIOUS
    <2> HIDE DEF new
    <2>4. ProcessHasFetch'
      BY <2>1, <2>3
    <2>5. FetchHasProcess'
      BY <2>1, <2>2, <2>3
    <2> QED BY <2>4, <2>5
  <1>3. ASSUME NEW e \in WriteFetches, WriteFetches' = WriteFetches \ {e},
               processes' = processes \ {e.ctx}, collided' = collided
        PROVE  ProcessInv'
    BY <1>3
  <1>4. ASSUME NEW e \in WriteFetches, InsertDataDropped(e)
        PROVE  ProcessInv'
    <2>1. UNCHANGED processVars /\ e.ctx \notin processes /\ WriteFetches' = WriteFetches \ {e}
      BY <1>4 DEF InsertDataDropped, Forget, WriteFetches
    <2> QED BY <2>1 DEF processVars
  <1>5. ASSUME NEW e \in WriteFetches, InsertTimeout(e)
        PROVE  ProcessInv'
    BY <1>3, <1>5 DEF InsertTimeout, Forget, WriteFetches
  <1>6. ASSUME NEW e \in WriteFetches, NEW d \in Packets, NEW ok \in PutOutcomes,
               InsertData(e, d, ok)
        PROVE  ProcessInv'
    BY <1>3, <1>6 DEF InsertData, Forget, WriteFetches
  <1> QED BY <1>1, <1>2, <1>4, <1>5, <1>6 DEF InsertStep

LEMMA ProcessWriteStep ==
    ASSUME ProcessInv, WriteStep
    PROVE  ProcessInv'
  BY ProcessInsertStep DEF WriteStep, InsertStep

LEMMA ProcessPatternStep ==
    ASSUME ProcessInv, PatternStep
    PROVE  ProcessInv'
  <1>1. UNCHANGED processVars
    BY DEF PatternStep
  <1>2. ASSUME NEW a \in Address, NEW f \in FreeIds, DoFetch(a, f) PROVE WriteFetches' = WriteFetches
    BY <1>2 DEF DoFetch, ExpressInterest, WriteFetches
  <1>3. ASSUME NEW e \in PatternFetches, Forget(e) PROVE WriteFetches' = WriteFetches
    BY <1>3 DEF Forget, WriteFetches, PatternFetches
  <1>4. ASSUME pit' = pit PROVE WriteFetches' = WriteFetches
    BY <1>4 DEF WriteFetches
  <1>5. WriteFetches' = WriteFetches
    BY <1>2, <1>3, <1>4, PatternCases
    DEF Refuse, CancelPattern, StartPattern, DoFetchNothing, PatternTimeout, PatternData,
        PatternAnswer, StartOther, CancelOther, RecorderData, faceVars
  <1> QED BY <1>1, <1>5, ProcessKept

LEMMA ProcessInvariant == FastRepoSpec => []ProcessInv
  <1>1. FastRepoInit => ProcessInv
    BY DEF FastRepoInit, FaceInit, WriteInit, WriteFetches, ProcessInv, ProcessHasFetch,
           FetchHasProcess
  <1>2. ProcessInv /\ [FastRepoNext]_vars => ProcessInv'
    <2> SUFFICES ASSUME ProcessInv, [FastRepoNext]_vars PROVE ProcessInv'
      OBVIOUS
    <2>1. CASE UNCHANGED vars
      BY <2>1, ProcessKept DEF vars, faceVars, WriteFetches
    <2> QED BY <2>1, ProcessRepoStep, ProcessWriteStep, ProcessPatternStep
            DEF FastRepoNext, Work, RepoStep
  <1> QED BY <1>1, <1>2, PTL DEF FastRepoSpec

(***************************************************************************)
(* No process is left in the table without an Interest that will end it.   *)
(***************************************************************************)
THEOREM NoProcessLeaks == FastRepoSpec => []ProcessHasFetch
  <1>1. ProcessInv => ProcessHasFetch
    BY DEF ProcessInv
  <1> QED BY <1>1, ProcessInvariant, PTL

(***************************************************************************)
(* The process of an id that is drawn once stays in the table until its    *)
(* Interest is answered or has timed out.                                  *)
(***************************************************************************)
THEOREM AcceptedInsertKeepsProcess == FastRepoSpec => []FetchHasProcess
  <1>1. ProcessInv => FetchHasProcess
    BY DEF ProcessInv
  <1> QED BY <1>1, ProcessInvariant, PTL

-----------------------------------------------------------------------------
(***************************************************************************)
(* The write handler on its own (WriteAloneSpec), where nothing ends the   *)
(* process.                                                                *)
(***************************************************************************)
LEMMA WriteAloneCases ==
    ASSUME [WriteAloneNext]_writeAloneVars
    PROVE  InsertStep \/ UNCHANGED writeAloneVars
  BY DEF WriteAloneNext, WriteAnswer, InsertStep

LEMMA WriteAloneTypeStep ==
    ASSUME WriteAloneTypeOK, InsertStep
    PROVE  WriteAloneTypeOK'
  <1> USE DEF WriteAloneTypeOK, EngineTypeOK, FaceTypeOK, WriteTypeOK, processVars
  <1>1. CASE MalformedInsert
    BY <1>1 DEF MalformedInsert, Reply, engineVars, Verbs, Codes
  <1>2. ASSUME NEW f \in FreeIds, NEW pid \in ProcessIds, NEW n \in InsertNames,
               InsertCommand(f, pid, n)
        PROVE  WriteAloneTypeOK'
    <2>1. f \in FetchIds /\ pid \in ProcessIds /\ n \in Name
      BY InsertNamesAssumption DEF FreeIds
    <2>2. [id |-> f, name |-> n, handle |-> "write", ctx |-> pid] \in WriteFetch
      BY <2>1 DEF WriteFetch
    <2> QED BY <1>2, <2>1, <2>2
            DEF InsertCommand, GenerateProcessId, ExpressInterest, Reply, engineVars, Verbs, Codes
  <1>3. ASSUME NEW e \in WriteFetches, InsertTimeout(e) \/ InsertDataDropped(e)
        PROVE  WriteAloneTypeOK'
    BY <1>3 DEF InsertTimeout, InsertDataDropped, Forget, engineVars
  <1>4. ASSUME NEW e \in WriteFetches, NEW d \in Packets, NEW ok \in PutOutcomes,
               InsertData(e, d, ok)
        PROVE  WriteAloneTypeOK'
    <2>1. db' \subseteq Name
      BY <1>4, PutType DEF InsertData
    <2> QED BY <1>4, <2>1 DEF InsertData, Forget
  <1> QED BY <1>1, <1>2, <1>3, <1>4 DEF InsertStep

(***************************************************************************)
(* The variables of the write handler have their types.                    *)
(***************************************************************************)
THEOREM WriteTypeCorrect == WriteAloneSpec => []WriteAloneTypeOK
  <1>1. WriteAloneInit => WriteAloneTypeOK
    BY DEF WriteAloneInit, FaceInit, WriteInit, NoCalls, NoReply, WriteAloneTypeOK, EngineTypeOK,
           FaceTypeOK, WriteTypeOK, Verbs, Codes
  <1>2. WriteAloneTypeOK /\ [WriteAloneNext]_writeAloneVars => WriteAloneTypeOK'
    <2> SUFFICES ASSUME WriteAloneTypeOK, [WriteAloneNext]_writeAloneVars
                 PROVE  WriteAloneTypeOK'
      OBVIOUS
    <2>1. CASE UNCHANGED writeAloneVars
      BY <2>1 DEF writeAloneVars, engineVars, faceVars, processVars, WriteAloneTypeOK,
                  EngineTypeOK, FaceTypeOK, WriteTypeOK
    <2> QED BY <2>1, WriteAloneCases, WriteAloneTypeStep
  <1> QED BY <1>1, <1>2, PTL DEF WriteAloneSpec

(***************************************************************************)
(* Alone as in the process, no entry of m_processes is left without an     *)
(* Interest, nor an Interest, whose id was drawn once, without its entry.  *)
(***************************************************************************)
THEOREM ProcessesMatchFetches == WriteAloneSpec => [](ProcessHasFetch /\ FetchHasProcess)
  <1>1. WriteAloneInit => ProcessInv
    BY DEF WriteAloneInit, FaceInit, WriteInit, WriteFetches, ProcessInv, ProcessHasFetch,
           FetchHasProcess
  <1>2. ProcessInv /\ [WriteAloneNext]_writeAloneVars => ProcessInv'
    <2> SUFFICES ASSUME ProcessInv, [WriteAloneNext]_writeAloneVars PROVE ProcessInv'
      OBVIOUS
    <2>1. CASE UNCHANGED writeAloneVars
      BY <2>1, ProcessKept DEF writeAloneVars, faceVars, WriteFetches
    <2> QED BY <2>1, WriteAloneCases, ProcessInsertStep
  <1>3. ProcessInv => ProcessHasFetch /\ FetchHasProcess
    BY DEF ProcessInv
  <1> QED BY <1>1, <1>2, <1>3, PTL DEF WriteAloneSpec
===============================================================================
