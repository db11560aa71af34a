----------------------------- MODULE WriteHandle -----------------------------
(***************************************************************************)
(* WriteHandle: the repository is told by a command Interest to insert one *)
(* packet.  It replies at once with a process id, fetches the packet, puts *)
(* it into the storage and announces the new key (signal onDataInsertion). *)
(*                                                                         *)
(* m_processes maps a process id to the response of its process.  Between  *)
(* two handlers every response in the map has status 300 and insert_num 0  *)
(* (the only handler that sets insert_num to 1 erases the entry before it  *)
(* returns), so the map is modelled by its set of keys.                    *)
(***************************************************************************)
EXTENDS StorageEngine, Face

CONSTANT InsertNames    \* names that insert commands ask for

ASSUME InsertNamesAssumption == InsertNames \subseteq Name

VARIABLES
    processes,  \* the keys of m_processes
    collided    \* not in the program: the ids drawn while an Interest had them

processVars == <<processes, collided>>

WriteFetches == {e \in pit : e.handle = "write"}

InUse(pid) == \E e \in WriteFetches : e.ctx = pid

(***************************************************************************)
(* generateProcessId(): 64 random bits, not compared with the ids in use.  *)
(***************************************************************************)
GenerateProcessId(pid) ==
    /\ pid \in ProcessIds
    /\ collided' = IF InUse(pid) THEN collided \cup {pid} ELSE collided

(***************************************************************************)
(* onValidated when the parameter component cannot be decoded.             *)
(***************************************************************************)
MalformedInsert ==
    /\ up
    /\ Reply("insert", 403)
    /\ UNCHANGED <<engineVars, up, pit, calls, processVars>>

(***************************************************************************)
(* Mutant: the process is a local variable instead of an entry of the map. *)
(***************************************************************************)
InsertCommandUntabled(f, pid, n) ==
    /\ up
    /\ GenerateProcessId(pid)
    /\ Reply("insert", 100)
    /\ ExpressInterest(f, n, "write", pid)
    /\ UNCHANGED <<engineVars, up, calls, processes>>

(***************************************************************************)
(* processSingleInsertCommand: reply 100, then express the Interest.       *)
(***************************************************************************)
InsertCommand(f, pid, n) ==
    /\ up
    /\ GenerateProcessId(pid)
    /\ processes' = processes \cup {pid}
    /\ Reply("insert", 100)
    /\ ExpressInterest(f, n, "write", pid)
    /\ UNCHANGED <<engineVars, up, calls>>

(***************************************************************************)
(* Mutant: onTimeout only logs.                                            *)
(***************************************************************************)
InsertTimeoutLeaks(e) ==
    /\ up
    /\ Forget(e)
    /\ UNCHANGED <<engineVars, up, calls, reply, processVars>>

(***************************************************************************)
(* onTimeout, which is also the callback for a network nack.               *)
(***************************************************************************)
InsertTimeout(e) ==
    /\ up
    /\ Forget(e)
    /\ processes' = processes \ {e.ctx}
    /\ UNCHANGED <<engineVars, up, calls, reply, collided>>

(***************************************************************************)
(* onData when the process is no longer in the table.                      *)
(***************************************************************************)
InsertDataDropped(e) ==
    /\ up
    /\ e.ctx \notin processes
    /\ Forget(e)
    /\ UNCHANGED <<engineVars, up, calls, reply, processVars>>

(***************************************************************************)
(* onData, onDataValidated: put the packet, erase the process.  What the   *)
(* signal onDataInsertion(PutResult(d, ok)) does is up to the repository   *)
(* (module FastRepo).                                                      *)
(***************************************************************************)
InsertData(e, d, ok) ==
    /\ up
    /\ e.ctx \in processes
    /\ Put(d, ok)
    /\ Forget(e)
    /\ processes' = processes \ {e.ctx}
    /\ UNCHANGED <<keysTrieBuilt, scanned, up, calls, reply, collided>>

WriteInit == processes = {} /\ collided = {}
WriteLost == processes' = {} /\ collided' = {}

WriteTypeOK == processes \subseteq ProcessIds /\ collided \subseteq ProcessIds

-----------------------------------------------------------------------------
(***************************************************************************)
(* The handler on its own, in a process that is up, on an empty database.  *)
(***************************************************************************)
writeAloneVars == <<engineVars, faceVars, processVars>>

WriteAloneInit ==
    /\ db = {} /\ keysTrieBuilt = TRUE /\ scanned = {}
    /\ up = TRUE
    /\ FaceInit
    /\ WriteInit

WriteAnswer(e) ==
    \/ InsertDataDropped(e) /\ \E d \in Packets : Answers(d, e)
    \/ \E d \in Packets, ok \in PutOutcomes : Answers(d, e) /\ InsertData(e, d, ok)

WriteAloneNext ==
    \/ MalformedInsert
    \/ \E f \in FreeIds, pid \in ProcessIds, n \in InsertNames :
          InsertCommand(f, pid, n)
    \/ \E e \in WriteFetches : InsertTimeout(e) \/ WriteAnswer(e)

(***************************************************************************)
(* An Interest is answered or it times out after 4 s: the Face always      *)
(* calls one of the two callbacks.                                         *)
(***************************************************************************)
FetchEnds(f) ==
    \E e \in WriteFetches : e.id = f /\ (InsertTimeout(e) \/ WriteAnswer(e))

WriteAloneSpec ==
    /\ WriteAloneInit
    /\ [][WriteAloneNext]_writeAloneVars
    /\ \A f \in FetchIds : WF_writeAloneVars(FetchEnds(f))

-----------------------------------------------------------------------------
(***************************************************************************)
(* PROPERTIES                                                              *)
(***************************************************************************)
WriteAloneTypeOK == EngineTypeOK /\ FaceTypeOK /\ WriteTypeOK

(***************************************************************************)
(* A process in m_processes always has an Interest outstanding that will   *)
(* erase it: no entry is leaked, even when two processes draw the same id  *)
(* and share an entry (write-handle.cpp never checks for that).            *)
(***************************************************************************)
ProcessHasFetch == \A pid \in processes : \E e \in WriteFetches : e.ctx = pid

(***************************************************************************)
(* An id that was never drawn twice is safe: its Interest is the only one  *)
(* with it, and the process is in the table for as long as the Interest is *)
(* pending, so the check `m_processes.count(processId) == 0` of onData     *)
(* drops the packet of a collided id only.                                 *)
(***************************************************************************)
FetchHasProcess ==
    \A e \in WriteFetches : e.ctx \notin collided =>
        /\ e.ctx \in processes
        /\ \A other \in WriteFetches : other.ctx = e.ctx => other = e

(***************************************************************************)
(* Every process leaves the table.                                         *)
(***************************************************************************)
ProcessEnds == \A pid \in ProcessIds : pid \in processes ~> pid \notin processes
=============================================================================
