-------------------------------- MODULE Face --------------------------------
(***************************************************************************)
(* What the handlers use of ndn::Face and of the io_service it runs on     *)
(* (both outside src/): Interests the repository has expressed and is      *)
(* waiting for, delayed calls, and the last Data put in reply to a command *)
(* Interest.  Everything runs on the one thread that calls                 *)
(* io_service::run(), so a callback is one step.                           *)
(***************************************************************************)
EXTENDS NdnNames

CONSTANTS
    FetchIds,       \* identities of pending Interests; bounds how many there are
    ProcessIds,     \* values generateProcessId() can return
    Address,        \* places where a CounterPattern object can be allocated
    Packets         \* names of the Data packets the network can deliver

ASSUME PacketsAssumption == Packets \subseteq Name

VARIABLES
    up,             \* the process exists and is inside io_service::run()
    pit,            \* Interests expressed and not yet answered
    calls,          \* callLater: outstanding calls of doFetch, for each object
    reply           \* the last command reply: the command's verb and the code

faceVars == <<up, pit, calls, reply>>

(***************************************************************************)
(* A pending Interest remembers the callback it was expressed with: a bind *)
(* to WriteHandle and a process id, or to a CounterPattern by its raw      *)
(* address.                                                                *)
(***************************************************************************)
WriteFetch == [id : FetchIds, name : Name, handle : {"write"}, ctx : ProcessIds]
PatternFetch == [id : FetchIds, name : Name, handle : {"pattern"}, ctx : Address]

FreeIds == FetchIds \ {e.id : e \in pit}

ExpressInterest(f, n, h, c) ==
    /\ f \in FreeIds
    /\ pit' = pit \cup {[id |-> f, name |-> n, handle |-> h, ctx |-> c]}

(***************************************************************************)
(* The entry is removed when its Interest is satisfied, times out or is    *)
(* nacked; each entry calls back once.                                     *)
(***************************************************************************)
Forget(e) == pit' = pit \ {e}

Verbs == {"none", "insert", "pattern", "cancel"}
Codes == {0, 100, 101, 402, 403, 404}

(***************************************************************************)
(* ndn-cpp hands a Data packet to the pending Interests whose name is a    *)
(* prefix of its own (CanBePrefix is left at its default, true).           *)
(***************************************************************************)
Answers(d, e) == IsPrefix(e.name, d)

Reply(verb, code) == reply' = [verb |-> verb, code |-> code]

NoCalls == [a \in Address |-> 0]
NoReply == [verb |-> "none", code |-> 0]

FaceInit == pit = {} /\ calls = NoCalls /\ reply = NoReply

FaceLost == pit' = {} /\ calls' = NoCalls /\ reply' = NoReply

FaceTypeOK ==
    /\ up \in BOOLEAN
    /\ pit \subseteq WriteFetch \cup PatternFetch
    /\ calls \in [Address -> Nat]
    /\ reply \in [verb : Verbs, code : Codes]
=============================================================================
