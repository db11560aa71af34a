-------------------------- MODULE StatusHandle_proofs --------------------------
(***************************************************************************)
(* Proofs about StatusHandle: what a published status says remains true of *)
(* the process for as long as it lives.                                    *)
(*                                                                         *)
(* The invariant adds to those of FastRepo that the database is finite and *)
(* contains the keys of the scan - so that the number of keys reported is  *)
(* a number, and a bound from below - and that a status is only published  *)
(* by a process whose scan is done.                                        *)
(***************************************************************************)
EXTENDS StatusHandle, FastRepo_proofs, FiniteSetTheorems

FiniteStorage == IsFiniteSet(db) /\ scanned \subseteq db

StatusInv ==
    /\ StatusTypeOK
    /\ Published =>
           /\ keysTrieBuilt
           /\ status.data \subseteq dataPrefixes
           /\ status.nKeys <= Cardinality(db)
    /\ CountedKeysListed

Inv == TypeInv /\ CoverInv /\ FiniteStorage /\ StatusInv

-----------------------------------------------------------------------------
(***************************************************************************)
(* The steps of the process only add to the data prefixes and to the       *)
(* database once the scan is done, and leave what it has found.            *)
(***************************************************************************)
Grows ==
    /\ db \subseteq db' /\ FiniteStorage'
    /\ keysTrieBuilt => /\ keysTrieBuilt' /\ scanned' = scanned
                        /\ dataPrefixes \subseteq dataPrefixes'

LEMMA PutGrows ==
    ASSUME FiniteStorage, NEW d, NEW ok, Put(d, ok), UNCHANGED <<keysTrieBuilt, scanned>>
    PROVE  db \subseteq db' /\ FiniteStorage'
  <1>1. IsFiniteSet(db \cup {KeyOf(d)})
    BY FS_AddElement DEF FiniteStorage
  <1> QED BY <1>1 DEF Put, FiniteStorage

LEMMA StorageKept ==
    ASSUME FiniteStorage, UNCHANGED engineVars
    PROVE  db \subseteq db' /\ FiniteStorage' /\ UNCHANGED <<keysTrieBuilt, scanned>>
  BY DEF FiniteStorage, engineVars

LEMMA AnnounceGrows ==
    ASSUME NEW n, Announce(n) \/ Silent
    PROVE  dataPrefixes \subseteq dataPrefixes'
  BY DEF Announce, OnDataInsertion, Silent

LEMMA RepoGrows ==
    ASSUME CoverInv, FiniteStorage, Work, ~WriteStep, ~PatternStep
    PROVE  Grows
  <1>1. ASSUME NEW readOnly \in Modes, Start(readOnly) PROVE Grows
    BY <1>1, StorageKept DEF Start, Grows, CoverInv, ScanWhileUp
  <1>2. CASE RunScan
    BY <1>2 DEF RunScan, BuildKeyTrie, Grows, FiniteStorage
  <1>3. ASSUME NEW i \in RepoPrefixes, RunListen(i) PROVE Grows
    BY <1>3, StorageKept DEF RunListen, Grows
  <1>4. CASE Registration
    BY <1>4, StorageKept
    DEF Registration, RegisterData, RegisterDataFails, RegisterCommand, Grows
  <1> QED BY <1>1, <1>2, <1>3, <1>4 DEF Work

LEMMA WriteGrows ==
    ASSUME FiniteStorage, WriteStep
    PROVE  Grows
  <1>1. dataPrefixes \subseteq dataPrefixes'
    BY AnnounceGrows DEF WriteStep
  <1>2. CASE UNCHANGED engineVars
    BY <1>1, <1>2, StorageKept DEF Grows
  <1>3. ASSUME NEW e \in WriteFetches, NEW d \in Packets, NEW ok \in PutOutcomes,
               InsertData(e, d, ok)
        PROVE  Grows
    BY <1>1, <1>3, PutGrows DEF InsertData, Grows
  <1> QED BY <1>2, <1>3
          DEF WriteStep, MalformedInsert, InsertCommand, InsertTimeout, InsertDataDropped

LEMMA PatternGrows ==
    ASSUME FiniteStorage, PatternStep
    PROVE  Grows
  <1>1. dataPrefixes \subseteq dataPrefixes'
    BY AnnounceGrows, PatternCases
  <1>2. CASE UNCHANGED engineVars
    BY <1>1, <1>2, StorageKept DEF Grows
  <1>3. ASSUME NEW d, NEW ok, Put(d, ok), UNCHANGED <<keysTrieBuilt, scanned>>
        PROVE  Grows
    BY <1>1, <1>3, PutGrows DEF Grows
  <1> QED BY <1>2, <1>3, PatternCases
          DEF Refuse, CancelPattern, StartPattern, DoFetchNothing, DoFetch, PatternTimeout,
              PatternData, PatternAnswer, StartOther, CancelOther, RecorderData

-----------------------------------------------------------------------------
LEMMA PublishedStaysTrue ==
    ASSUME StatusInv, FiniteStorage, Grows, UNCHANGED status, TypeInv'
    PROVE  StatusInv'
  <1>1. Cardinality(db) <= Cardinality(db') /\ Cardinality(db) \in Nat /\ Cardinality(db') \in Nat
    BY FS_Subset, FS_CardinalityType DEF Grows, FiniteStorage
  <1>2. StatusTypeOK'
    BY DEF StatusInv, StatusTypeOK, TypeInv
  <1>3. status.nKeys \in Nat
    BY DEF StatusInv, StatusTypeOK
  <1>4. Published' = Published
    BY DEF Published
  <1>5. Published => status.nKeys <= Cardinality(db')
    BY <1>1, <1>3 DEF StatusInv
  <1>6. CountedKeysListed'
    BY <1>4 DEF StatusInv, Grows, CountedKeysListed
  <1> QED BY <1>2, <1>4, <1>5, <1>6 DEF StatusInv, Grows

LEMMA StopKeepsInv ==
    ASSUME Inv, Stop, status'.outcome \in {"none", "crashed"},
           status' = [NoStatus EXCEPT !.outcome = status'.outcome]
    PROVE  Inv'
  <1>1. TypeInv' /\ CoverInv'
    BY TypeRepoStep, CoverRepoStep DEF Inv, RepoStep
  <1>2. FiniteStorage'
    BY DEF Inv, FiniteStorage, Stop
  <1>3. StatusTypeOK' /\ ~Published'
    BY <1>1 DEF StatusTypeOK, TypeInv, Published, NoStatus
  <1> QED BY <1>1, <1>2, <1>3 DEF Inv, StatusInv, CountedKeysListed

LEMMA PublishKeepsInv ==
    ASSUME Inv, PublishStatus, Running, UNCHANGED vars
    PROVE  Inv'
  <1>1. TypeInv' /\ CoverInv' /\ FiniteStorage'
    BY TypeStutter, CoverStutter DEF Inv, vars, engineVars, FiniteStorage
  <1>2. UNCHANGED <<db, keysTrieBuilt, scanned, dataPrefixes>>
    BY DEF vars, engineVars, repoVars
  <1>3. CASE status' = [NoStatus EXCEPT !.outcome = "thrown"]
    BY <1>1, <1>3
    DEF Inv, StatusInv, StatusTypeOK, TypeInv, Published, NoStatus, CountedKeysListed
  <1>4. CASE status' = Report
    <2>1. Cardinality(scanned) \in Nat /\ Cardinality(scanned) <= Cardinality(db)
      BY FS_Subset, FS_CardinalityType DEF Inv, FiniteStorage
    <2>2. dataPrefixes \subseteq Name
      BY DEF Inv, TypeInv, TypeOK
    <2>3. StatusTypeOK'
      BY <1>1, <1>4, <2>1, <2>2 DEF StatusTypeOK, TypeInv, Report
    <2>4. CountedKeysListed'
      BY <1>2, <1>4 DEF Inv, CoverInv, LeafKeysCovered, CountedKeysListed, Report
    <2> QED BY <1>1, <1>2, <1>4, <2>1, <2>3, <2>4 DEF Inv, StatusInv, Report, Running
  <1> QED BY <1>3, <1>4 DEF PublishStatus

LEMMA StatusInvariant == StatusSpec => []Inv
  <1>1. StatusInit => Inv
    <2> SUFFICES ASSUME StatusInit PROVE Inv
      OBVIOUS
    <2>1. TypeInv /\ CoverInv
      BY InitTypeInv, InitCoverInv DEF StatusInit
    <2>2. FiniteStorage
      BY FS_EmptySet DEF StatusInit, FastRepoInit, FiniteStorage
    <2>3. StatusTypeOK /\ ~Published
      BY <2>1 DEF StatusInit, NoStatus, StatusTypeOK, TypeInv, Published
    <2> QED BY <2>1, <2>2, <2>3 DEF Inv, StatusInv, CountedKeysListed
  <1>2. Inv /\ [StatusNext]_statusVars => Inv'
    <2> SUFFICES ASSUME Inv, [StatusNext]_statusVars PROVE Inv'
      OBVIOUS
    <2>1. CASE Stop /\ status' = NoStatus
      BY <2>1, StopKeepsInv DEF NoStatus
    <2>2. CASE Work /\ UNCHANGED status
      <3>1. TypeInv' /\ CoverInv' /\ Grows
        <4>1. CASE WriteStep
          BY <4>1, TypeWriteStep, CoverWriteStep, WriteGrows DEF Inv
        <4>2. CASE PatternStep
          BY <4>2, TypePatternStep, CoverPatternStep, PatternGrows DEF Inv
        <4>3. CASE ~WriteStep /\ ~PatternStep
          <5>1. RepoStep
            BY <2>2, <4>3 DEF Work, RepoStep
          <5> QED BY <2>2, <4>3, <5>1, TypeRepoStep, CoverRepoStep, RepoGrows DEF Inv
        <4> QED BY <4>1, <4>2, <4>3
      <3> QED BY <2>2, <3>1, PublishedStaysTrue DEF Inv, Grows
    <2>3. ASSUME NEW i \in RepoPrefixes, OnObjectNeeded(i) PROVE Inv'
      BY <2>3, PublishKeepsInv DEF OnObjectNeeded, StatusInterest
    <2>4. ASSUME NEW i \in RepoPrefixes, OnObjectNeededCrashes(i) PROVE Inv'
      BY <2>4, StopKeepsInv DEF OnObjectNeededCrashes, NoStatus
    <2>5. CASE UNCHANGED statusVars
      <3>1. TypeInv' /\ CoverInv' /\ UNCHANGED engineVars
        BY <2>5, TypeStutter, CoverStutter DEF Inv, statusVars, vars
      <3>2. Grows
        BY <2>5, <3>1, StorageKept DEF Grows, Inv, statusVars, vars, repoVars
      <3> QED BY <2>5, <3>1, <3>2, PublishedStaysTrue DEF Inv, Grows, statusVars
    <2> QED BY <2>1, <2>2, <2>3, <2>4, <2>5 DEF StatusNext
  <1> QED BY <1>1, <1>2, PTL DEF StatusSpec

(***************************************************************************)
(* Every variable, the published status included, has its type.            *)
(***************************************************************************)
THEOREM StatusTypeCorrect == StatusSpec => []StatusTypeOK
  <1>1. Inv => StatusTypeOK
    BY DEF Inv, StatusInv
  <1> QED BY <1>1, StatusInvariant, PTL

(***************************************************************************)
(* Each leaf key that a published status counts is below one of the        *)
(* prefixes it lists, for as long as the process lives.                    *)
(***************************************************************************)
THEOREM ListCoversCount == StatusSpec => []CountedKeysListed
  <1>1. Inv => CountedKeysListed
    BY DEF Inv, StatusInv
  <1> QED BY <1>1, StatusInvariant, PTL

(***************************************************************************)
(* What a published status lists is still served, or about to be, and the  *)
(* keys it counts are still there, whatever the process does afterwards.   *)
(***************************************************************************)
THEOREM PublishedRemainsTrue == StatusSpec => []StatusStaysTrue
  <1>1. Inv => StatusStaysTrue
    BY DEF Inv, StatusInv, StatusStaysTrue, CoverInv, ListenedOrPending
  <1> QED BY <1>1, StatusInvariant, PTL
===============================================================================
