--------------------------- MODULE Refinement_proofs ---------------------------
(***************************************************************************)
(* The repository process implements module Repository, for every value of *)
(* the constants.  The steps use the invariants of FastRepo_proofs:        *)
(* BeforeScan for the scan, which opens the repository, ListenedOrPending  *)
(* for the answers of the forwarder, PatternsCovered for the packets that  *)
(* are stored without an announcement.                                     *)
(***************************************************************************)
EXTENDS FastRepo_proofs

Inv == TypeInv /\ CoverInv

RNext == [R!RepositoryNext]_(R!repositoryVars)

(***************************************************************************)
(* Both modules mean the same by a prefix.                                 *)
(***************************************************************************)
LEMMA SameNames ==
    /\ \A P, n : R!Covered(P, n) = Covered(P, n)
    /\ \A m, n : R!IsStrictPrefix(m, n) = IsStrictPrefix(m, n)
  BY DEF Covered, R!Covered, IsPrefix, R!IsPrefix, IsStrictPrefix, R!IsStrictPrefix

(***************************************************************************)
(* A step that leaves alone what Repository sees.                          *)
(***************************************************************************)
LEMMA HiddenStep ==
    ASSUME UNCHANGED <<db, keysTrieBuilt, dataPrefixes, registered, faceUp>>
    PROVE  RNext
  BY DEF RNext, R!repositoryVars, Phase

(***************************************************************************)
(* A handler that may store one key and may announce one name.             *)
(***************************************************************************)
LEMMA HandlerAccepts ==
    ASSUME Running, faceUp,
           UNCHANGED <<keysTrieBuilt, registered, faceUp>>,
           NEW k, db' = db \/ db' = db \cup {k},
           NEW n, dataPrefixes' = dataPrefixes \/ dataPrefixes' = dataPrefixes \cup {n},
           \A key \in db' \ db : Covered(dataPrefixes', key)
    PROVE  RNext
  <1>1. Phase = "open" /\ Phase' = "open" /\ keysTrieBuilt /\ keysTrieBuilt'
    BY DEF Phase, Running
  <1>2. R!Accept
    BY <1>1, SameNames DEF R!Accept
  <1> QED BY <1>2 DEF RNext, R!RepositoryNext

LEMMA RepoStepRefines ==
    ASSUME Inv, RepoStep
    PROVE  RNext
  <1>1. ASSUME NEW readOnly \in Modes, Start(readOnly) PROVE RNext
    <2>1. ~keysTrieBuilt /\ ~keysTrieBuilt' /\ db' = db /\ registered' = registered
      BY <1>1 DEF Start, Inv, CoverInv, ScanWhileUp, engineVars
    <2> QED BY <2>1 DEF RNext, R!repositoryVars, Phase
  <1>2. CASE Stop
    <2>1. /\ ~keysTrieBuilt' /\ db' = db /\ registered' = {}
          /\ ~keysTrieBuilt => registered = {}
      BY <1>2 DEF Stop, Inv, CoverInv, BeforeScan
    <2>2. CASE ~keysTrieBuilt
      BY <2>1, <2>2 DEF RNext, R!repositoryVars, Phase
    <2>3. CASE keysTrieBuilt
      <3>1. Phase # "closed" /\ Phase' = "closed"
        BY <2>1, <2>3 DEF Phase
      <3>2. R!Close
        BY <2>1, <3>1 DEF R!Close
      <3> QED BY <3>2 DEF RNext, R!RepositoryNext
    <2> QED BY <2>2, <2>3
  <1>3. CASE RunScan
    <2>1. /\ ~keysTrieBuilt /\ keysTrieBuilt' /\ faceUp /\ faceUp' = faceUp
          /\ dataPrefixes = ConfigPrefixes
          /\ db' = db /\ scanned' = db /\ registered' = registered
      BY <1>3 DEF RunScan, BuildKeyTrie, Inv, CoverInv, BeforeScan
    <2>2. Phase = "closed" /\ Phase' = "open"
      BY <2>1 DEF Phase
    <2>3. ConfigPrefixes \subseteq dataPrefixes'
      BY <1>3, <2>1 DEF RunScan
    <2>4. ASSUME NEW k \in db, R!Leaf(k) PROVE Covered(dataPrefixes', k)
      <3>1. LeafKeysCovered'
        BY CoverRepoStep DEF Inv, CoverInv
      <3> QED BY <2>1, <2>4, <3>1, SameNames DEF R!Leaf, LeafKeysCovered
    <2>5. R!Open
      BY <2>1, <2>2, <2>3, <2>4, SameNames DEF R!Open
    <2> QED BY <2>5 DEF RNext, R!RepositoryNext
  <1>4. ASSUME NEW i \in RepoPrefixes, RunListen(i) PROVE RNext
    BY <1>4, HiddenStep DEF RunListen, engineVars
  <1>5. ASSUME NEW p \in pendingReg, RegisterData(p) PROVE RNext
    <2>1. /\ keysTrieBuilt /\ faceUp /\ registered' = registered \cup {p}
          /\ UNCHANGED <<db, keysTrieBuilt, dataPrefixes, faceUp>>
      BY <1>5 DEF RegisterData, Running, engineVars
    <2>2. p \in dataPrefixes
      BY <2>1 DEF Inv, CoverInv, ListenedOrPending
    <2>3. Phase = "open" /\ Phase' = Phase
      BY <2>1 DEF Phase
    <2>4. R!Serve
      BY <2>1, <2>2, <2>3 DEF R!Serve
    <2> QED BY <2>4 DEF RNext, R!RepositoryNext
  <1>6. ASSUME NEW p \in pendingReg, RegisterDataFails(p) PROVE RNext
    <2>1. /\ keysTrieBuilt /\ faceUp /\ ~faceUp'
          /\ UNCHANGED <<db, keysTrieBuilt, dataPrefixes, registered>>
      BY <1>6 DEF RegisterDataFails, Running, engineVars
    <2>2. Phase = "open" /\ Phase' = "cut off"
      BY <2>1 DEF Phase
    <2>3. R!CutOff
      BY <2>1, <2>2 DEF R!CutOff
    <2> QED BY <2>3 DEF RNext, R!RepositoryNext
  <1>7. ASSUME NEW i \in RepoPrefixes, NEW outcome \in {"registered", "failed"},
               RegisterCommand(i, outcome)
        PROVE  RNext
    BY <1>7, HiddenStep DEF RegisterCommand, engineVars
  <1> QED BY <1>1, <1>2, <1>3, <1>4, <1>5, <1>6, <1>7 DEF RepoStep, Registration

LEMMA WriteStepRefines ==
    ASSUME Inv, WriteStep
    PROVE  RNext
  <1>0. registered' = registered /\ faceUp' = faceUp
    BY DEF WriteStep
  <1>1. CASE Silent /\ UNCHANGED <<db, keysTrieBuilt>>
    BY <1>0, <1>1, HiddenStep DEF Silent
  <1>2. ASSUME NEW e \in WriteFetches, NEW d \in Packets, NEW ok \in PutOutcomes,
               Running, faceUp, InsertData(e, d, ok), Announce(PutResult(d, ok))
        PROVE  RNext
    <2> DEFINE n == PutResult(d, ok)
    <2>1. n \in Name
      BY <1>2, PutType DEF InsertData, Inv, TypeInv, TypeOK, EngineTypeOK
    <2>2. dataPrefixes' = dataPrefixes \/ dataPrefixes' = dataPrefixes \cup {n}
      BY <1>2 DEF Announce, OnDataInsertion
    <2>3. db' = db \/ db' = db \cup {KeyOf(d)}
      BY <1>2 DEF InsertData, Put
    <2>4. \A key \in db' \ db : Covered(dataPrefixes', key)
      BY <1>2, <2>1, AnnounceCovers DEF InsertData, Put, PutResult
    <2> HIDE DEF n
    <2> QED BY <1>0, <1>2, <2>2, <2>3, <2>4, HandlerAccepts DEF InsertData
  <1> QED BY <1>1, <1>2 DEF WriteStep, MalformedInsert, InsertCommand, InsertTimeout,
                            InsertDataDropped, engineVars

LEMMA PatternStepRefines ==
    ASSUME Inv, PatternStep
    PROVE  RNext
  <1>0. registered' = registered /\ faceUp' = faceUp /\ Running
    BY DEF PatternStep, CommandArrives
  <1>1. CASE Silent /\ UNCHANGED <<db, keysTrieBuilt>>
    BY <1>0, <1>1, HiddenStep DEF Silent
  <1>2. ASSUME faceUp, NEW p \in FetchPrefixes, Announce(KeyOf(p)),
               UNCHANGED <<db, keysTrieBuilt>>
        PROVE  RNext
    <2>1. \/ dataPrefixes' = dataPrefixes
          \/ dataPrefixes' = dataPrefixes \cup {KeyOf(p)}
      BY <1>2 DEF Announce, OnDataInsertion
    <2> QED BY <1>0, <1>2, <2>1, HandlerAccepts
  <1>3. ASSUME faceUp, NEW d \in Packets, NEW ok \in PutOutcomes, Put(d, ok), Silent,
               keysTrieBuilt' = keysTrieBuilt, Covered(dataPrefixes, KeyOf(d))
        PROVE  RNext
    <2>1. db' = db \/ db' = db \cup {KeyOf(d)}
      BY <1>3 DEF Put
    <2>2. \A key \in db' \ db : Covered(dataPrefixes', key)
      BY <1>3, <2>1 DEF Silent
    <2> QED BY <1>0, <1>3, <2>1, <2>2, HandlerAccepts DEF Silent
  <1>4. ASSUME NEW p \in FetchPrefixes, Announce(KeyOf(p)), faceUp,
               \/ \E a \in Address : StartPattern(p, a)
               \/ \E kind \in OptionalKinds : StartOther(p, kind)
        PROVE  RNext
    <2>1. UNCHANGED <<db, keysTrieBuilt>>
      BY <1>4 DEF StartPattern, StartOther, engineVars
    <2> QED BY <1>2, <1>4, <2>1
  <1>5. ASSUME NEW e \in PatternFetches, NEW d \in Packets, NEW ok \in PutOutcomes,
               Answers(d, e), PatternData(e, d, ok), Silent, faceUp
        PROVE  RNext
    <2>1. Covered(dataPrefixes, KeyOf(d))
      BY <1>5, FetchedPacketCovered DEF Inv
    <2> QED BY <1>3, <1>5, <2>1 DEF PatternData, PatternAnswer
  <1>6. ASSUME NEW x \in others, NEW d \in Packets, NEW ok \in PutOutcomes,
               RecorderData(x, d, ok), Silent, faceUp
        PROVE  RNext
    <2>1. Covered(dataPrefixes, KeyOf(d))
      BY <1>6, RecordedPacketCovered DEF Inv, RecorderData
    <2> QED BY <1>3, <1>6, <2>1 DEF RecorderData
  <1>7. ASSUME \/ \E verb \in Verbs, code \in Codes : Refuse(verb, code)
               \/ \E p \in FetchPrefixes : CancelPattern(p) \/ CancelOther(p)
               \/ \E a \in Address : DoFetchNothing(a) \/ \E f \in FreeIds : DoFetch(a, f)
               \/ \E e \in PatternFetches : PatternTimeout(e)
        PROVE  UNCHANGED <<db, keysTrieBuilt>>
    BY <1>7 DEF Refuse, CancelPattern, CancelOther, DoFetchNothing, DoFetch, PatternTimeout,
                engineVars
  <1> QED BY <1>1, <1>4, <1>5, <1>6, <1>7, PatternCases

(***************************************************************************)
(* The process implements the abstract repository.                         *)
(***************************************************************************)
THEOREM Refinement == FastRepoSpec => ImplementsRepository
  <1>1. FastRepoInit => R!RepositoryInit
    BY DEF FastRepoInit, R!RepositoryInit, Phase
  <1>2. TypeInv /\ CoverInv /\ [FastRepoNext]_vars => [R!RepositoryNext]_(R!repositoryVars)
    <2> SUFFICES ASSUME Inv, [FastRepoNext]_vars PROVE RNext
      BY DEF Inv, RNext
    <2>1. CASE RepoStep
      BY <2>1, RepoStepRefines
    <2>2. CASE WriteStep
      BY <2>2, WriteStepRefines
    <2>3. CASE PatternStep
      BY <2>3, PatternStepRefines
    <2>4. CASE UNCHANGED vars
      BY <2>4, HiddenStep DEF vars, engineVars, repoVars
    <2> QED BY <2>1, <2>2, <2>3, <2>4 DEF FastRepoNext, Work, RepoStep
  <1> QED BY <1>1, <1>2, CoverInvariant, PTL
          DEF FastRepoSpec, ImplementsRepository, R!RepositorySpec
=============================================================================
