----------------------------- MODULE StatusHandle -----------------------------
(***************************************************************************)
(* StatusHandle: an Interest for <command prefix>/status makes the         *)
(* repository poll its status sources and publish what they report as one  *)
(* JSON dictionary.                                                        *)
(*                                                                         *)
(* The status says which data prefixes the repository serves and how many  *)
(* keys it has; it is read by somebody else, later, so what matters is     *)
(* what remains true of it.                                                *)
(***************************************************************************)
EXTENDS FastRepo

ASSUME RepoPrefixesAssumption == RepoPrefixes \subseteq Nat

VARIABLE status     \* what came of the last Interest for the status

statusVars == <<vars, status>>

(***************************************************************************)
(* listen() overwrites statusNamespace_, with which the callback compares  *)
(* the namespace it is called for: only the last command prefix is served. *)
(***************************************************************************)
ServesStatus(i) == \A j \in RepoPrefixes : j <= i

(***************************************************************************)
(* The report of PatternHandle parses the report of every pattern in the   *)
(* table.  That of a CounterPattern or a GeneralizedObjectPattern is not   *)
(* JSON: json::parse throws.  That of an NdnrtcPattern without a recorder  *)
(* dereferences a null pointer, which ends the process.                    *)
(***************************************************************************)
Throws == patterns # {} \/ \E x \in others : x.kind = "gobj"

Crashes == \E x \in others : NullRecorder(x)

NoStatus == [outcome |-> "none", data |-> {}, nKeys |-> 0]

(***************************************************************************)
(* Mutant: the repository reports the prefixes that the forwarder has      *)
(* accepted so far.                                                        *)
(***************************************************************************)
ReportServed ==
    [outcome |-> "published", data |-> registered, nKeys |-> Cardinality(scanned)]

(***************************************************************************)
(* getStatusReport of the repository (without what never changes).  Both   *)
(* sources are added once for every command prefix; one that is polled     *)
(* again overwrites its own report.                                        *)
(***************************************************************************)
Report ==
    [outcome |-> "published", data |-> dataPrefixes, nKeys |-> Cardinality(scanned)]

(***************************************************************************)
(* publishStatus catches std::runtime_error, which nlohmann's parse_error  *)
(* is not: nothing is published.                                           *)
(***************************************************************************)
PublishStatus ==
    status' = IF Throws THEN [NoStatus EXCEPT !.outcome = "thrown"] ELSE Report

StatusInterest(i) == Running /\ faceUp /\ cmd[i] # "off" /\ ServesStatus(i)

(***************************************************************************)
(* The table is walked in the order of the prefixes: where one pattern     *)
(* throws and another crashes, either can be the first.                    *)
(***************************************************************************)
OnObjectNeeded(i) ==
    /\ StatusInterest(i)
    /\ Crashes => Throws
    /\ PublishStatus
    /\ UNCHANGED vars

OnObjectNeededCrashes(i) ==
    /\ StatusInterest(i)
    /\ Crashes
    /\ Stop
    /\ status' = [NoStatus EXCEPT !.outcome = "crashed"]

StatusInit == FastRepoInit /\ status = NoStatus

StatusNext ==
    \/ Stop /\ status' = NoStatus
    \/ Work /\ UNCHANGED status
    \/ \E i \in RepoPrefixes : OnObjectNeeded(i) \/ OnObjectNeededCrashes(i)

(***************************************************************************)
(* With the fairness of the process.                                       *)
(***************************************************************************)
StatusSpec ==
    /\ StatusInit
    /\ [][StatusNext]_statusVars
    /\ WF_statusVars(RunScan /\ UNCHANGED status)
    /\ \A i \in RepoPrefixes : WF_statusVars(RunListen(i) /\ UNCHANGED status)
    /\ WF_statusVars(Registration /\ UNCHANGED status)

-----------------------------------------------------------------------------
(***************************************************************************)
(* PROPERTIES                                                              *)
(***************************************************************************)
StatusTypeOK ==
    /\ TypeOK
    /\ status \in [outcome : {"none", "thrown", "crashed", "published"}, data : SUBSET Name,
                   nKeys : Nat]

Published == status.outcome = "published"

(***************************************************************************)
(* The number of keys and the prefixes of a status go together: each key   *)
(* that was counted, which is those of the scan, can be fetched through a  *)
(* prefix in the list, also when that is not registered yet, unless        *)
(* another key continues it (RestartCoversKeys says why).                  *)
(***************************************************************************)
CountedKeysListed ==
    Published =>
        /\ status.nKeys = Cardinality(scanned)
        /\ \A k \in scanned :
              \/ k = << >>
              \/ \E other \in scanned : IsStrictPrefix(k, other)
              \/ Covered(status.data, k)

(***************************************************************************)
(* A status remains true while the process lives: the prefixes it lists    *)
(* are still served or on their way to be, and it does not promise keys    *)
(* that are not there.                                                     *)
(***************************************************************************)
StatusStaysTrue ==
    Published =>
        /\ status.data \subseteq dataPrefixes
        /\ faceUp => status.data \subseteq pendingReg \cup registered
        /\ status.nKeys <= Cardinality(db)

(***************************************************************************)
(* What the documentation says and the code does not do.                   *)
(*                                                                         *)
(* base-pattern.hpp, getStatusReport: "This method shall return JSON       *)
(* dictionary containing status of the current pattern" - so a poll gets   *)
(* the report of every pattern in the table.                               *)
(***************************************************************************)
PollReports == status.outcome \in {"none", "published"}
=============================================================================
