------------------------------- MODULE FastRepo -------------------------------
(***************************************************************************)
(* The repository process: main(), FastRepoImpl and the handlers it owns,  *)
(* on a database that outlives the process.  One thread runs the           *)
(* io_service, so every handler is one step.                               *)
(*                                                                         *)
(* The repository's own job is to make its data reachable: it registers    *)
(* with the local forwarder a prefix of every key it holds, for the keys   *)
(* found by the scan at start, and for each new key when the write and     *)
(* pattern handlers emit onDataInsertion.                                  *)
(***************************************************************************)
EXTENDS WriteHandle, PatternHandle

CONSTANTS
    RepoPrefixes,   \* indices of the command prefixes (config and command line)
    ConfigPrefixes, \* the data prefixes of the configuration file
    Modes           \* values of readOnly with which the process is started

ASSUME ConfigPrefixesAssumption == ConfigPrefixes \subseteq Name
ASSUME ModesAssumption == Modes \subseteq BOOLEAN

VARIABLES
    cmd,            \* for each command prefix, how far its registration is
    dataPrefixes,   \* config_.dataPrefixes, order and repetitions aside
    pendingReg,     \* data prefixes whose registration is under way
    registered,     \* data prefixes the forwarder has accepted
    faceUp          \* Face::shutdown has not been called

repoVars == <<cmd, dataPrefixes, pendingReg, registered, faceUp>>
vars == <<engineVars, faceVars, processVars, patternVars, repoVars>>

(***************************************************************************)
(* off: not asked for; posted: enableListening has posted it to the        *)
(* io_service, which does not run yet.                                     *)
(***************************************************************************)
CmdStates == {"off", "posted", "pending", "registered", "failed"}

NotAsked == [i \in RepoPrefixes |-> "off"]

FastRepoInit ==
    /\ up = FALSE
    /\ db = {} /\ keysTrieBuilt = FALSE /\ scanned = {}
    /\ FaceInit /\ WriteInit /\ PatternInit
    /\ cmd = NotAsked
    /\ dataPrefixes = {} /\ pendingReg = {} /\ registered = {}
    /\ faceUp = FALSE

-----------------------------------------------------------------------------
(***************************************************************************)
(* parseConfig.  Each call of Start is given a value of readOnly; a file   *)
(* that cannot be read ends main() before the process is up.               *)
(***************************************************************************)
LoadConfig == dataPrefixes' = ConfigPrefixes

(***************************************************************************)
(* main(): read the configuration, construct FastRepo, which posts the     *)
(* scan (io_service::dispatch before run()), and, unless read-only,        *)
(* enableListening, which posts the registration of each command prefix;   *)
(* then run().                                                             *)
(***************************************************************************)
Start(readOnly) ==
    /\ ~up
    /\ up' = TRUE
    /\ faceUp' = TRUE
    /\ LoadConfig
    /\ cmd' = [i \in RepoPrefixes |-> IF readOnly THEN "off" ELSE "posted"]
    /\ UNCHANGED <<engineVars, pit, calls, reply, processVars, patternVars,
                   pendingReg, registered>>

(***************************************************************************)
(* terminate() on a signal, an exception that escapes run(), a crash.  All *)
(* that is left is what Put has stored in the database.                    *)
(***************************************************************************)
Stop ==
    /\ up /\ up' = FALSE
    /\ keysTrieBuilt' = FALSE /\ scanned' = {}
    /\ FaceLost /\ WriteLost /\ PatternLost
    /\ cmd' = NotAsked
    /\ dataPrefixes' = {} /\ pendingReg' = {} /\ registered' = {}
    /\ faceUp' = FALSE
    /\ UNCHANGED db

(***************************************************************************)
(* Mutant: listen only to the prefixes that the scan has found.            *)
(***************************************************************************)
RunScanForgetsConfig ==
    /\ up
    /\ ~keysTrieBuilt
    /\ BuildKeyTrie
    /\ dataPrefixes' = dataPrefixes \cup LongestPrefixes(keysTrie')
    /\ pendingReg' = LongestPrefixes(keysTrie')
    /\ UNCHANGED <<faceVars, processVars, patternVars, cmd, registered, faceUp>>

(***************************************************************************)
(* The posted scan and its onCompleted callback.  It was posted first, so  *)
(* it runs before everything else.                                         *)
(***************************************************************************)
RunScan ==
    /\ up
    /\ ~keysTrieBuilt
    /\ BuildKeyTrie
    /\ dataPrefixes' = dataPrefixes \cup LongestPrefixes(keysTrie')
    /\ pendingReg' = dataPrefixes'
    /\ UNCHANGED <<faceVars, processVars, patternVars, cmd, registered, faceUp>>

(***************************************************************************)
(* The posted registrations of the command prefixes.                       *)
(***************************************************************************)
RunListen(i) ==
    /\ up
    /\ keysTrieBuilt
    /\ cmd[i] = "posted"
    /\ cmd' = [cmd EXCEPT ![i] = "pending"]
    /\ UNCHANGED <<engineVars, faceVars, processVars, patternVars,
                   dataPrefixes, pendingReg, registered, faceUp>>

(***************************************************************************)
(* The forwarder and the timers are served once what was posted before     *)
(* run() is done.                                                          *)
(***************************************************************************)
Running == up /\ keysTrieBuilt /\ \A i \in RepoPrefixes : cmd[i] # "posted"

(***************************************************************************)
(* The forwarder's answer to a registration.  A failed data prefix shuts   *)
(* the Face down; a failed command prefix throws out of the callback,      *)
(* which ends the process (Stop) unless the library catches it.            *)
(***************************************************************************)
RegisterData(p) ==
    /\ Running /\ faceUp
    /\ p \in pendingReg
    /\ pendingReg' = pendingReg \ {p}
    /\ registered' = registered \cup {p}
    /\ UNCHANGED <<engineVars, faceVars, processVars, patternVars,
                   cmd, dataPrefixes, faceUp>>

RegisterDataFails(p) ==
    /\ Running /\ faceUp
    /\ p \in pendingReg
    /\ pendingReg' = pendingReg \ {p}
    /\ faceUp' = FALSE
    /\ UNCHANGED <<engineVars, faceVars, processVars, patternVars,
                   cmd, dataPrefixes, registered>>

RegisterCommand(i, outcome) ==
    /\ Running /\ faceUp
    /\ cmd[i] = "pending"
    /\ cmd' = [cmd EXCEPT ![i] = outcome]
    /\ UNCHANGED <<engineVars, faceVars, processVars, patternVars,
                   dataPrefixes, pendingReg, registered, faceUp>>

-----------------------------------------------------------------------------
(***************************************************************************)
(* Mutants: the prefix test the wrong way round; a new prefix is noted but *)
(* not handed to ReadHandle::listen; it replaces the prefixes below it.    *)
(***************************************************************************)
OnDataInsertionReversed(n) ==
    IF \E p \in dataPrefixes : IsPrefix(n, p)
      THEN UNCHANGED <<dataPrefixes, pendingReg>>
      ELSE /\ dataPrefixes' = dataPrefixes \cup {n}
           /\ pendingReg' = pendingReg \cup {n}

OnDataInsertionNotListening(n) ==
    /\ dataPrefixes' = IF Covered(dataPrefixes, n) THEN dataPrefixes ELSE dataPrefixes \cup {n}
    /\ UNCHANGED pendingReg

OnDataInsertionReplaces(n) ==
    IF Covered(dataPrefixes, n)
      THEN UNCHANGED <<dataPrefixes, pendingReg>>
      ELSE /\ dataPrefixes' = {p \in dataPrefixes : ~IsPrefix(n, p)} \cup {n}
           /\ pendingReg' = pendingReg \cup {n}

(***************************************************************************)
(* FastRepoImpl::onDataInsertion.  enableListening connects it to the      *)
(* signals once for every command prefix; the second call in a row finds   *)
(* the prefix of the first and does nothing.                               *)
(***************************************************************************)
OnDataInsertion(n) ==
    IF Covered(dataPrefixes, n)
      THEN UNCHANGED <<dataPrefixes, pendingReg>>
      ELSE /\ dataPrefixes' = dataPrefixes \cup {n}
           /\ pendingReg' = pendingReg \cup {n}

Silent == UNCHANGED <<dataPrefixes, pendingReg>>
Announce(n) == OnDataInsertion(n)

(***************************************************************************)
(* A command Interest reaches a handler when the forwarder routes some     *)
(* command prefix here.                                                    *)
(***************************************************************************)
CommandArrives == Running /\ faceUp /\ \E i \in RepoPrefixes : cmd[i] = "registered"

WriteStep ==
    /\ UNCHANGED <<patternVars, cmd, registered, faceUp>>
    /\ \/ CommandArrives /\ MalformedInsert /\ Silent
       \/ /\ CommandArrives
          /\ \E f \in FreeIds, pid \in ProcessIds, n \in InsertNames :
                InsertCommand(f, pid, n)
          /\ Silent
       \/ Running /\ (\E e \in WriteFetches : InsertTimeout(e)) /\ Silent
       \/ /\ Running /\ faceUp
          /\ \E e \in WriteFetches, d \in Packets : Answers(d, e) /\ InsertDataDropped(e)
          /\ Silent
       \/ /\ Running /\ faceUp
          /\ \E e \in WriteFetches, d \in Packets, ok \in PutOutcomes :
                Answers(d, e) /\ InsertData(e, d, ok) /\ Announce(PutResult(d, ok))

PatternStep ==
    /\ UNCHANGED <<processVars, cmd, registered, faceUp>>
    /\ \/ CommandArrives /\ (MalformedPattern \/ MalformedCancel) /\ Silent
       \/ /\ CommandArrives
          /\ \E p \in FetchPrefixes :
                \/ DuplicatePattern(p) \/ UnknownPattern(p) \/ CancelUnknown(p)
                \/ CancelPattern(p) \/ CancelOther(p)
          /\ Silent
       \/ /\ CommandArrives
          /\ \E p \in FetchPrefixes, a \in Address : StartPattern(p, a) /\ Announce(KeyOf(p))
       \/ /\ CommandArrives
          /\ \E p \in FetchPrefixes, kind \in OptionalKinds :
                StartOther(p, kind) /\ Announce(KeyOf(p))
       \/ /\ Running
          /\ \E a \in Address : DoFetchNothing(a) \/ \E f \in FreeIds : DoFetch(a, f)
          /\ Silent
       \/ Running /\ (\E e \in PatternFetches : PatternTimeout(e)) /\ Silent
       \/ /\ Running /\ faceUp
          /\ \E e \in PatternFetches, d \in Packets, ok \in PutOutcomes :
                Answers(d, e) /\ PatternData(e, d, ok)
          /\ Silent
       \/ /\ Running /\ faceUp
          /\ \E x \in others, d \in Packets, ok \in PutOutcomes : RecorderData(x, d, ok)
          /\ Silent

Registration ==
    \/ \E p \in pendingReg : RegisterData(p) \/ RegisterDataFails(p)
    \/ \E i \in RepoPrefixes, outcome \in {"registered", "failed"} :
          RegisterCommand(i, outcome)

Work ==
    \/ \E readOnly \in Modes : Start(readOnly)
    \/ RunScan
    \/ \E i \in RepoPrefixes : RunListen(i)
    \/ Registration
    \/ WriteStep
    \/ PatternStep

FastRepoNext == Stop \/ Work

(***************************************************************************)
(* The io_service runs what was posted, and the Face calls one of the two  *)
(* callbacks of every registration.                                        *)
(***************************************************************************)
FastRepoSpec ==
    /\ FastRepoInit
    /\ [][FastRepoNext]_vars
    /\ WF_vars(RunScan)
    /\ \A i \in RepoPrefixes : WF_vars(RunListen(i))
    /\ WF_vars(Registration)

-----------------------------------------------------------------------------
(***************************************************************************)
(* PROPERTIES                                                              *)
(***************************************************************************)
TypeOK ==
    /\ EngineTypeOK
    /\ FaceTypeOK
    /\ WriteTypeOK
    /\ PatternTypeOK
    /\ cmd \in [RepoPrefixes -> CmdStates]
    /\ dataPrefixes \subseteq Name
    /\ pendingReg \subseteq Name
    /\ registered \subseteq Name
    /\ faceUp \in BOOLEAN

(***************************************************************************)
(* Every key stored since the scan of this process is below a data prefix: *)
(* an insert announces its key, and a pattern announced its prefix when it *)
(* started - also for the packets that arrive after it was cancelled.      *)
(***************************************************************************)
NewKeysCovered == \A k \in db \ scanned : up /\ keysTrieBuilt => Covered(dataPrefixes, k)

(***************************************************************************)
(* Of the keys the scan has found, those that no other key continues are   *)
(* below one of the longest prefixes it computes.                          *)
(***************************************************************************)
LeafKeysCovered ==
    \A k \in scanned :
        \/ k = << >>
        \/ \E other \in scanned : IsStrictPrefix(k, other)
        \/ Covered(dataPrefixes, k)

(***************************************************************************)
(* The list of data prefixes that suppresses further registrations tells   *)
(* the truth: each one is registered or about to be, or the Face is down.  *)
(***************************************************************************)
ListenedOrPending ==
    keysTrieBuilt /\ faceUp => dataPrefixes = pendingReg \cup registered

(***************************************************************************)
(* A key stored by this process becomes reachable through a registered     *)
(* prefix, unless a registration fails or the process stops.               *)
(***************************************************************************)
Reachable(k) == Covered(registered, k)

NewKeysReachable ==
    \A d \in Packets :
        KeyOf(d) \in db \ scanned /\ up /\ keysTrieBuilt
            ~> Reachable(KeyOf(d)) \/ ~faceUp \/ ~up

(***************************************************************************)
(* So does, after every start, each key of the database that no other key  *)
(* continues.                                                              *)
(***************************************************************************)
LeafKey(k) == k \in db /\ \A other \in db : ~IsStrictPrefix(k, other)

LeafKeysReachable ==
    \A d \in Packets :
        up /\ ~keysTrieBuilt /\ LeafKey(KeyOf(d))
            ~> Reachable(KeyOf(d)) \/ ~faceUp \/ ~up

(***************************************************************************)
(* The process implements module Repository.  It is open from the scan to  *)
(* the end of the process, or to Face::shutdown; the list it promises to   *)
(* listen to is config_.dataPrefixes, as extended by the scan and by       *)
(* onDataInsertion.                                                        *)
(***************************************************************************)
Phase ==
    CASE ~keysTrieBuilt -> "closed"
      [] keysTrieBuilt /\ faceUp -> "open"
      [] keysTrieBuilt /\ ~faceUp -> "cut off"

R == INSTANCE Repository WITH
        stored <- db,
        phase <- Phase,
        promised <- IF keysTrieBuilt THEN dataPrefixes ELSE {},
        serving <- registered

ImplementsRepository == R!RepositorySpec

(***************************************************************************)
(* What the documentation says and the code does not do.                   *)
(*                                                                         *)
(* README.md: "Upon start, repo automatically registers prefixes for the   *)
(* data it has".                                                           *)
(***************************************************************************)
RestartCoversKeys == keysTrieBuilt => \A k \in db : Covered(dataPrefixes, k)

(***************************************************************************)
(* storage-engine.hpp, put: "Name of the key, under which data was         *)
(* inserted" - so the names announced on the strength of its result, that  *)
(* is all but those of pattern commands, are keys of the database.         *)
(***************************************************************************)
AnnouncedIsKey ==
    \A p \in dataPrefixes \ (ConfigPrefixes \cup LongestPrefixes(keysTrie)) :
        p \in db \/ \E q \in FetchPrefixes : p = KeyOf(q)
=============================================================================
