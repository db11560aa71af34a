---------------------------- MODULE PatternClient ----------------------------
(***************************************************************************)
(* The programs pattern-fetch and pattern-cancel of src/examples, and the  *)
(* pattern handler they command.  A client sends one signed Interest and   *)
(* waits for the reply or for the timeout.  The network can lose or delay  *)
(* the Interest and the reply, so a client that gives up does not know     *)
(* what the repository did, or will do when the Interest arrives late.     *)
(* (A lost Interest is not sent again, and the forwarder drops a second    *)
(* copy.)                                                                  *)
(***************************************************************************)
EXTENDS PatternHandle

CONSTANT Clients    \* runs of the two programs

ASSUME ClientsAssumption == IsFiniteSet(Clients)

VARIABLES
    clients,    \* what each client asks for and how far it is
    requests,   \* clients whose command Interest is on its way
    replies,    \* replies on their way: pairs of client and code
    decided     \* not in the programs: the code the handler replied to each

clientVars == <<clients, requests, replies, decided>>
systemVars == <<patternAloneVars, clientVars>>

ClientStates == {"idle", "waiting", "started", "cancelled", "refused", "unanswered"}

Idle == [verb |-> "none", prefix |-> << >>, state |-> "idle"]

Ended(c) == clients[c].state \notin {"idle", "waiting"}

-----------------------------------------------------------------------------
(***************************************************************************)
(* The two programs: encode the command, sign it, express the Interest.    *)
(***************************************************************************)
Request(c, verb, p) ==
    /\ clients[c] = Idle
    /\ clients' = [clients EXCEPT ![c] = [verb |-> verb, prefix |-> p, state |-> "waiting"]]
    /\ requests' = requests \cup {c}
    /\ UNCHANGED <<patternAloneVars, replies, decided>>

RequestFetch(c, p) == Request(c, "pattern", p)
RequestCancel(c, p) == Request(c, "cancel", p)

(***************************************************************************)
(* The reply arrives while the client waits (one that has quit is gone).   *)
(***************************************************************************)
GetReply(c, verb, code, state) ==
    /\ clients[c].verb = verb /\ clients[c].state = "waiting"
    /\ [client |-> c, code |-> code] \in replies
    /\ replies' = replies \ {[client |-> c, code |-> code]}
    /\ clients' = [clients EXCEPT ![c].state = state]
    /\ UNCHANGED <<patternAloneVars, requests, decided>>

(***************************************************************************)
(* Mutant: the duplicate code is taken for a start.                        *)
(***************************************************************************)
FetchOnDataDuplicateStarts(c, code) ==
    GetReply(c, "pattern", code, IF code \in {100, 402} THEN "started" ELSE "refused")

(***************************************************************************)
(* requestFetchOnData, and requestCancelOnData of the other program.       *)
(***************************************************************************)
FetchOnData(c, code) ==
    GetReply(c, "pattern", code, IF code = 100 THEN "started" ELSE "refused")

CancelOnData(c, code) ==
    GetReply(c, "cancel", code, IF code = 101 THEN "cancelled" ELSE "refused")

(***************************************************************************)
(* Mutant: the timeout only prints a message.                              *)
(***************************************************************************)
OnTimeoutPrints(c) ==
    /\ clients[c].state = "waiting"
    /\ UNCHANGED systemVars

(***************************************************************************)
(* requestFetchOnTimeout, requestCancelOnTimeout, printAndQuit.  The       *)
(* Interest can still be on its way.                                       *)
(***************************************************************************)
OnTimeout(c) ==
    /\ clients[c].state = "waiting"
    /\ clients' = [clients EXCEPT ![c].state = "unanswered"]
    /\ UNCHANGED <<patternAloneVars, requests, replies, decided>>

-----------------------------------------------------------------------------
(***************************************************************************)
(* The command Interest reaches PatternHandle, whose reply is sent back.   *)
(* pattern-fetch itself always names the pattern "ndnrtc3"; here a command *)
(* names any pattern, as clients for the other ones would.                 *)
(***************************************************************************)
FetchCommand(p) ==
    \/ DuplicatePattern(p)
    \/ UnknownPattern(p)
    \/ \E a \in Address : StartPattern(p, a)
    \/ \E kind \in OptionalKinds : StartOther(p, kind)

CancelCommand(p) == CancelUnknown(p) \/ CancelPattern(p) \/ CancelOther(p)

Deliver(c) ==
    /\ c \in requests
    /\ \/ clients[c].verb = "pattern" /\ FetchCommand(clients[c].prefix)
       \/ clients[c].verb = "cancel" /\ CancelCommand(clients[c].prefix)
    /\ requests' = requests \ {c}
    /\ replies' = replies \cup {[client |-> c, code |-> reply'.code]}
    /\ decided' = [decided EXCEPT ![c] = reply'.code]
    /\ UNCHANGED clients

LoseRequest(c) ==
    /\ c \in requests
    /\ requests' = requests \ {c}
    /\ UNCHANGED <<patternAloneVars, clients, replies, decided>>

LoseReply(r) ==
    /\ replies' = replies \ {r}
    /\ UNCHANGED <<patternAloneVars, clients, requests, decided>>

-----------------------------------------------------------------------------
ClientInit ==
    /\ PatternAloneInit
    /\ clients = [c \in Clients |-> Idle]
    /\ requests = {} /\ replies = {}
    /\ decided = [c \in Clients |-> 0]

ClientEnds(c) ==
    \/ OnTimeout(c)
    \/ \E r \in replies : FetchOnData(c, r.code) \/ CancelOnData(c, r.code)

ClientNext ==
    \/ \E c \in Clients, p \in FetchPrefixes : RequestFetch(c, p) \/ RequestCancel(c, p)
    \/ \E c \in Clients : Deliver(c) \/ LoseRequest(c) \/ ClientEnds(c)
    \/ \E r \in replies : LoseReply(r)
    \/ PatternCallback /\ UNCHANGED clientVars

(***************************************************************************)
(* The fairness of the handler's callbacks, and the client's: the Face     *)
(* calls one of the two callbacks of its Interest.                         *)
(***************************************************************************)
ClientSpec ==
    /\ ClientInit
    /\ [][ClientNext]_systemVars
    /\ \A a \in Address : WF_systemVars(TimerFires(a) /\ UNCHANGED clientVars)
    /\ \A f \in FetchIds : WF_systemVars(
          \E e \in PatternFetches : e.id = f /\ PatternFetchEnds(e) /\ UNCHANGED clientVars)
    /\ \A c \in Clients : WF_systemVars(ClientEnds(c))

-----------------------------------------------------------------------------
(***************************************************************************)
(* PROPERTIES                                                              *)
(***************************************************************************)
ClientTypeOK ==
    /\ PatternAloneTypeOK
    /\ clients \in [Clients -> [verb : Verbs, prefix : FetchPrefixes \cup {<< >>},
                                state : ClientStates]]
    /\ requests \subseteq Clients
    /\ replies \subseteq [client : Clients, code : Codes]
    /\ decided \in [Clients -> Codes]

Asked(verb, p) == {c \in Clients : clients[c].verb = verb /\ clients[c].prefix = p}

(***************************************************************************)
(* The books balance: of a prefix the handler has accepted as many fetch   *)
(* commands as cancel commands, or one more, and then a pattern for it is  *)
(* in the table.  So a fetch command is never accepted twice in a row, and *)
(* each cancel that was reported to succeed undid exactly one start.       *)
(***************************************************************************)
AcceptedBalance ==
    up => \A p \in FetchPrefixes :
        Cardinality({c \in Asked("pattern", p) : decided[c] = 100})
          = Cardinality({c \in Asked("cancel", p) : decided[c] = 101})
            + (IF Active(p) THEN 1 ELSE 0)

(***************************************************************************)
(* What the clients know is enough when none had to give up: when all      *)
(* have ended, their answers tell which patterns are in the table.         *)
(***************************************************************************)
ClientsKnow ==
    up /\ (\A c \in Clients : Ended(c) /\ clients[c].state # "unanswered") =>
        \A p \in FetchPrefixes :
            Active(p) <=>
                Cardinality({c \in Asked("pattern", p) : clients[c].state = "started"})
                  > Cardinality({c \in Asked("cancel", p) : clients[c].state = "cancelled"})

(***************************************************************************)
(* A client that was run ends, whatever is lost and whether or not the     *)
(* repository is still there.                                              *)
(***************************************************************************)
ClientsEnd == \A c \in Clients : clients[c].state = "waiting" ~> Ended(c)
=============================================================================
