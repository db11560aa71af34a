------------------------------ MODULE WatchHandle ------------------------------
(***************************************************************************)
(* WatchHandle, which the source keeps between `#if 0` and `#endif` like   *)
(* the segmented insert: it stores whatever appears below a name.  A watch *)
(* is a chain of Interests: each one is expressed by the callback of the   *)
(* one before, and excludes what the chain has received so far.            *)
(*                                                                         *)
(* The table of watches is kept by name, but the limits of a watch - how   *)
(* many Interests, for how long - and the count of the Interests are       *)
(* members of the handler, which all watches share.                        *)
(*                                                                         *)
(* The replies are left out, and with them the commands that are refused:  *)
(* what a reply says is in the table, or in nothing the handler keeps.     *)
(***************************************************************************)
EXTENDS Integers, Bags, SequencesExt

CONSTANTS
    Names,          \* names that commands give; no one continues another
    MaxSegment,     \* the largest component that follows a name in a packet
    Commands,       \* what watch commands ask for
    Produced,       \* the packets the network can deliver
    Chains,         \* bound: at most so many Interests are in flight
    MaxStarts,      \* bound: so many watches are started
    MaxCount        \* the largest limit; counts above it are one value

Itself == -1
Child == {Itself} \cup 0..MaxSegment

(***************************************************************************)
(* A packet is told apart by the name it is below and by its component     *)
(* after that name; Itself is for the packet with just the name.  A limit  *)
(* of 0 stands for none.                                                   *)
(***************************************************************************)
Packet == [name : Names, child : Child]

ASSUME WatchAssumption ==
    /\ MaxSegment \in Nat /\ MaxStarts \in Nat /\ MaxCount \in Nat
    /\ Produced \subseteq Packet
    /\ Commands \subseteq [name : Names, limit : 0..MaxCount, timed : BOOLEAN]

VARIABLES
    state,          \* up, or how it ended: threw (an exception left a callback),
                    \* hangs (in a loop), aborted (by an assertion)
    watches,        \* m_processes: code and running, of some names
    interestNum,    \* m_interestNum
    maxInterestNum, \* m_maxInterestNum
    timed,          \* m_watchTimeout is not 0
    elapsed,        \* more than m_watchTimeout since m_startTime
    pending,        \* Interests in flight
    deleting,       \* deferredDeleteProcess: a bag of names
    stored,         \* packets in the storage
    history         \* not in the program; see below

limitVars == <<interestNum, maxInterestNum, timed, elapsed>>
watchVars == <<watches, limitVars, pending, deleting, history>>
vars == <<state, stored, watchVars>>

(***************************************************************************)
(* Of the last watch of each name: starts, how many there were; sent, its  *)
(* Interests; limited, limit, as the command said; wanted, nothing has     *)
(* ended it; clean, no deleteProcess was due when it started; disturbed,   *)
(* another watch has started or stopped since.                             *)
(***************************************************************************)
NoHistory == [starts |-> 0, sent |-> 0, limit |-> 0, limited |-> FALSE,
              wanted |-> FALSE, clean |-> FALSE, disturbed |-> FALSE]

Process == [code : {0, 101, 300}, running : BOOLEAN]
Interests == [chain : Chains, name : Names, excluded : Child, minSuffix : 1..2]

Bump(n) == IF n <= MaxCount THEN n + 1 ELSE n

(***************************************************************************)
(* m_processes[name] enters a default pair where there is none.            *)
(***************************************************************************)
Entered(n) ==
    [m \in DOMAIN watches \cup {n} |->
        IF m \in DOMAIN watches THEN watches[m] ELSE [code |-> 0, running |-> FALSE]]
Watching(n) == n \in DOMAIN watches /\ watches[n].running

-----------------------------------------------------------------------------
(***************************************************************************)
(* Which packets answer an Interest, and the selectors of the next one.    *)
(* excludeBefore excludes the component and all before it; the digest      *)
(* counts as a suffix component, so with MinSuffixComponents 2 the packet  *)
(* with just the name does not match.                                      *)
(***************************************************************************)
Matches(d, e) ==
    /\ d.name = e.name
    /\ IF d.child = Itself THEN e.minSuffix = 1 ELSE d.child > e.excluded

(***************************************************************************)
(* Mutant: the exclusion is computed for every packet, and so does not     *)
(* exclude the one with just the name.                                     *)
(***************************************************************************)
NextInterestExcludes(e, d) == [e EXCEPT !.excluded = d.child]

NextInterest(e, d) ==
    IF d.child = Itself THEN [e EXCEPT !.minSuffix = 2] ELSE [e EXCEPT !.excluded = d.child]

-----------------------------------------------------------------------------
(***************************************************************************)
(* watchStop, for a name that is watched or not.                           *)
(***************************************************************************)
StoppedHistory(n) ==
    [m \in Names |-> IF m = n THEN [history[m] EXCEPT !.wanted = FALSE]
                              ELSE [history[m] EXCEPT !.disturbed = TRUE]]

(***************************************************************************)
(* Mutant: all watches are stopped.                                        *)
(***************************************************************************)
WatchStopAll(n) ==
    /\ watches' = [m \in DOMAIN Entered(n) |-> [Entered(n)[m] EXCEPT !.running = FALSE]]
    /\ interestNum' = 0 /\ maxInterestNum' = 0
    /\ timed' = FALSE /\ elapsed' = FALSE
    /\ history' = StoppedHistory(n)

WatchStop(n) ==
    /\ watches' = [Entered(n) EXCEPT ![n].running = FALSE]
    /\ interestNum' = 0 /\ maxInterestNum' = 0
    /\ timed' = FALSE /\ elapsed' = FALSE
    /\ history' = StoppedHistory(n)

(***************************************************************************)
(* processWatchCommand; the number of Interests is not reset.              *)
(***************************************************************************)
WatchCommand(c, i) ==
    /\ MapThenSumSet(LAMBDA n : history[n].starts, Names) < MaxStarts
    /\ \A e \in pending : e.chain # i
    /\ maxInterestNum' = c.limit
    /\ timed' = c.timed /\ elapsed' = FALSE
    /\ watches' = [Entered(c.name) EXCEPT ![c.name] = [code |-> 300, running |-> TRUE]]
    /\ interestNum' = Bump(interestNum)
    /\ pending' = pending \cup {[chain |-> i, name |-> c.name, excluded |-> Itself, minSuffix |-> 1]}
    /\ history' = [m \in Names |->
           IF m = c.name
             THEN [starts |-> history[m].starts + 1, sent |-> 1, limit |-> c.limit,
                   limited |-> c.limit # 0 \/ c.timed, wanted |-> TRUE,
                   clean |-> ~BagIn(m, deleting), disturbed |-> FALSE]
             ELSE [history[m] EXCEPT !.disturbed = TRUE]]
    /\ UNCHANGED <<state, stored, deleting>>

(***************************************************************************)
(* onStopValidated.                                                        *)
(***************************************************************************)
StopCommand(n) ==
    /\ WatchStop(n)
    /\ UNCHANGED <<state, stored, pending, deleting>>

(***************************************************************************)
(* Mutant: a stopped watch is reported as done, with the code of an insert.*)
(***************************************************************************)
CheckCommandDone(n) ==
    /\ n \in DOMAIN watches
    /\ watches' = [watches EXCEPT ![n].code = IF watches[n].running THEN @ ELSE 200]
    /\ UNCHANGED <<state, stored, limitVars, pending, deleting, history>>

(***************************************************************************)
(* onCheckValidated for a name in the table: the code it replies is        *)
(* entered there.                                                          *)
(***************************************************************************)
CheckCommand(n) ==
    /\ n \in DOMAIN watches
    /\ watches' = [watches EXCEPT ![n].code = IF watches[n].running THEN @ ELSE 101]
    /\ UNCHANGED <<state, stored, limitVars, pending, deleting, history>>

-----------------------------------------------------------------------------
(***************************************************************************)
(* Mutant: the limit can be passed by one.                                 *)
(***************************************************************************)
OverByOne == (timed /\ elapsed) \/ (maxInterestNum # 0 /\ interestNum > maxInterestNum)

(***************************************************************************)
(* onRunning.                                                              *)
(***************************************************************************)
Over == (timed /\ elapsed) \/ (maxInterestNum # 0 /\ interestNum >= maxInterestNum)

(***************************************************************************)
(* What the three callbacks do with Interest e and, while its watch goes   *)
(* on, with the next one.                                                  *)
(***************************************************************************)
Dropped(e) ==
    /\ ~Watching(e.name)
    /\ watches' = Entered(e.name)
    /\ pending' = pending \ {e}
    /\ UNCHANGED <<limitVars, deleting, history>>

WatchEnded(e) ==
    /\ Watching(e.name) /\ Over
    /\ deleting' = deleting (+) SetToBag({e.name})
    /\ WatchStop(e.name)
    /\ pending' = pending \ {e}

(***************************************************************************)
(* Mutant: the Interest is not expressed again.                            *)
(***************************************************************************)
GoesOnWithout(e, next) ==
    /\ Watching(e.name) /\ ~Over
    /\ interestNum' = Bump(interestNum)
    /\ pending' = pending \ {e}
    /\ history' = [history EXCEPT ![e.name].sent = Bump(@)]
    /\ UNCHANGED <<watches, maxInterestNum, timed, elapsed, deleting>>

(***************************************************************************)
(* Mutant: the Interest is not counted.                                    *)
(***************************************************************************)
GoesOnUncounted(e, next) ==
    /\ Watching(e.name) /\ ~Over
    /\ pending' = (pending \ {e}) \cup {next}
    /\ history' = [history EXCEPT ![e.name].sent = Bump(@)]
    /\ UNCHANGED <<watches, limitVars, deleting>>

GoesOn(e, next) ==
    /\ Watching(e.name) /\ ~Over
    /\ interestNum' = Bump(interestNum)
    /\ pending' = (pending \ {e}) \cup {next}
    /\ history' = [history EXCEPT ![e.name].sent = Bump(@)]
    /\ UNCHANGED <<watches, maxInterestNum, timed, elapsed, deleting>>

(***************************************************************************)
(* onDataValidated, onDataValidationFailed, onTimeout (also for a nack).   *)
(* insertData refuses a packet that the storage has, and fails when the    *)
(* storage does; either way the handler throws.                            *)
(***************************************************************************)
OnDataValidated(e, d) ==
    /\ d \notin stored \/ ~Watching(e.name)
    /\ Dropped(e) \/ WatchEnded(e) \/ GoesOn(e, NextInterest(e, d))
    /\ stored' = IF Watching(e.name) THEN stored \cup {d} ELSE stored
    /\ UNCHANGED state

OnDataThrows(e) ==
    /\ Watching(e.name)
    /\ state' = "threw"
    /\ pending' = pending \ {e}
    /\ UNCHANGED <<stored, watches, limitVars, deleting, history>>

OnDataValidationFailed(e, d) ==
    /\ Dropped(e) \/ WatchEnded(e) \/ GoesOn(e, NextInterest(e, d))
    /\ UNCHANGED <<state, stored>>

OnTimeout(e) ==
    /\ Dropped(e) \/ WatchEnded(e) \/ GoesOn(e, e)
    /\ UNCHANGED <<state, stored>>

(***************************************************************************)
(* deleteProcess, 10 s after it was scheduled, whatever the name is used   *)
(* for by then.                                                            *)
(***************************************************************************)
DeleteProcess(n) ==
    /\ BagIn(n, deleting)
    /\ watches' = [m \in DOMAIN watches \ {n} |-> watches[m]]
    /\ deleting' = deleting (-) SetToBag({n})
    /\ UNCHANGED <<state, stored, limitVars, pending, history>>

TimePasses ==
    /\ timed /\ ~elapsed
    /\ elapsed' = TRUE
    /\ UNCHANGED <<state, stored, watches, interestNum, maxInterestNum, timed, pending,
                   deleting, history>>

-----------------------------------------------------------------------------
(***************************************************************************)
(* The storage is empty at first: a watch for what is already stored is    *)
(* the second one of a name.                                               *)
(***************************************************************************)
WatchInit ==
    /\ state = "up"
    /\ watches = << >>
    /\ interestNum = 0 /\ maxInterestNum = 0 /\ timed = FALSE /\ elapsed = FALSE
    /\ pending = {} /\ deleting = EmptyBag
    /\ stored = {}
    /\ history = [n \in Names |-> NoHistory]

Callback(i) ==
    \E e \in pending :
        /\ e.chain = i
        /\ \/ OnTimeout(e)
           \/ \E d \in Produced : /\ Matches(d, e)
                                /\ \/ OnDataValidated(e, d) \/ OnDataThrows(e)
                                   \/ OnDataValidationFailed(e, d)

WatchStep ==
    \/ \E c \in Commands, i \in Chains : WatchCommand(c, i)
    \/ \E n \in Names : StopCommand(n) \/ CheckCommand(n) \/ DeleteProcess(n)
    \/ \E i \in Chains : Callback(i)
    \/ TimePasses

-----------------------------------------------------------------------------
(***************************************************************************)
(* PROPERTIES                                                              *)
(***************************************************************************)
WatchTypeOK ==
    /\ state \in {"up", "threw", "hangs", "aborted"}
    /\ DOMAIN watches \subseteq Names
    /\ watches \in [DOMAIN watches -> Process]
    /\ interestNum \in 0..(MaxCount + 1) /\ maxInterestNum \in 0..MaxCount
    /\ timed \in BOOLEAN /\ elapsed \in BOOLEAN
    /\ pending \subseteq Interests
    /\ BagToSet(deleting) \subseteq Names
    /\ stored \subseteq Packet

(***************************************************************************)
(* No watch stalls: while the process lives, one that a check reports as   *)
(* running has an Interest in flight, whichever callback came last.        *)
(***************************************************************************)
WatchingHasInterest ==
    state = "up" => \A n \in Names : Watching(n) => \E e \in pending : e.name = n

(***************************************************************************)
(* A watch that was accepted runs until its limit, its timeout or a stop   *)
(* command ends it, unless it was started when deleteProcess was due for   *)
(* an earlier watch of the name, which then removes it.                    *)
(***************************************************************************)
AcceptedWatchRuns ==
    \A n \in Names : history[n].wanted /\ history[n].clean => Watching(n)

(***************************************************************************)
(* A watch sends at most as many Interests as its command allows, on one   *)
(* chain or two, unless another watch was started or stopped meanwhile:    *)
(* that replaces or clears the limit.                                      *)
(***************************************************************************)
LimitKept ==
    \A n \in Names :
        LET h == history[n]
        IN  h.limit # 0 /\ ~h.disturbed => h.sent <= h.limit

(***************************************************************************)
(* An Interest asks for nothing that the storage has, which insertData     *)
(* would refuse, ending the process, unless another watch of the name was  *)
(* started: then one chain stores what the other asks for.                 *)
(***************************************************************************)
AsksForNews ==
    \A e \in pending, d \in stored : Matches(d, e) => history[e.name].starts > 1

(***************************************************************************)
(* A watch with a limit or a timeout ends, whatever is lost or invalid,    *)
(* again unless another one is started or stopped meanwhile.               *)
(***************************************************************************)
Limited(n) == Watching(n) /\ history[n].limited

WatchEnds ==
    \A n \in Names :
        Limited(n) ~> ~Limited(n) \/ history[n].disturbed \/ state # "up"
=============================================================================
