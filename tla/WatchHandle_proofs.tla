--------------------------- MODULE WatchHandle_proofs ---------------------------
(***************************************************************************)
(* Invariants of the watches and of the deletions, for every set of names, *)
(* packets and commands, and any number of watches.                        *)
(***************************************************************************)
EXTENDS DeleteHandle, TLAPS

(***************************************************************************)
(* The Interest that follows one that was answered: it is for the same     *)
(* name, the packet does not answer it, and it asks for nothing that the   *)
(* one before did not ask for.                                             *)
(***************************************************************************)
Narrower(next, e, got) ==
    /\ next.name = e.name
    /\ \A d \in Packet : Matches(d, next) => Matches(d, e)
    /\ \A d \in got : ~Matches(d, next)

LEMMA NextIsNarrower ==
    ASSUME NEW e \in Interests, NEW d \in Packet, Matches(d, e)
    PROVE  NextInterest(e, d) \in Interests /\ Narrower(NextInterest(e, d), e, {d})
  <1>1. CASE d.child = Itself
    <2>1. NextInterest(e, d) = [e EXCEPT !.minSuffix = 2]
      BY <1>1 DEF NextInterest
    <2> QED BY <1>1, <2>1 DEF Interests, Packet, Matches, Narrower
  <1>2. CASE d.child # Itself
    <2>1. NextInterest(e, d) = [e EXCEPT !.excluded = d.child]
      BY <1>2 DEF NextInterest
    <2>2. d.child \in Nat /\ e.excluded \in Int /\ d.child > e.excluded
      BY <1>2 DEF Packet, Child, Itself, Interests, Matches
    <2>3. NextInterest(e, d) \in Interests
      BY <2>1 DEF Interests, Packet
    <2>4. \A f \in Packet : f.child \in Int
      BY WatchAssumption DEF Packet, Child, Itself
    <2>5. \A f \in Packet : Matches(f, NextInterest(e, d)) => Matches(f, e)
      BY <2>1, <2>2, <2>4 DEF Interests, Matches
    <2>6. ~Matches(d, NextInterest(e, d)) /\ NextInterest(e, d).name = e.name
      BY <1>2, <2>1, <2>2 DEF Interests, Matches
    <2> QED BY <2>3, <2>5, <2>6 DEF Narrower
  <1> QED BY <1>1, <1>2

(***************************************************************************)
(* What a callback does, got being the packet that was inserted, if one    *)
(* was: it throws, drops the Interest, ends the watch, or goes on with a   *)
(* narrower Interest.                                                      *)
(***************************************************************************)
Ends(e, got) ==
    /\ \A d \in got : Matches(d, e)
    /\ stored' = stored \cup got /\ state' = state /\ deleted' = deleted
    /\ \/ Dropped(e) /\ got = {}
       \/ WatchEnded(e)
       \/ \E next \in Interests : Narrower(next, e, got) /\ GoesOn(e, next)

Throws(e) ==
    /\ state' = "threw"
    /\ pending' = pending \ {e}
    /\ UNCHANGED <<stored, watches, limitVars, deleting, history, deleted>>

LEMMA CallbackCases ==
    ASSUME pending \subseteq Interests, NEW i \in Chains, Callback(i), UNCHANGED deleted
    PROVE  \E e \in pending : Throws(e) \/ \E got \in SUBSET Produced : Ends(e, got)
  <1>1. PICK e \in pending :
           \/ OnTimeout(e)
           \/ \E d \in Produced : /\ Matches(d, e)
                                  /\ \/ OnDataValidated(e, d) \/ OnDataThrows(e)
                                     \/ OnDataValidationFailed(e, d)
    BY DEF Callback
  <1>2. e \in Interests /\ Narrower(e, e, {})
    BY DEF Narrower
  <1>3. CASE OnTimeout(e)
    <2>1. Ends(e, {})
      BY <1>2, <1>3 DEF OnTimeout, Ends
    <2> QED BY <2>1
  <1>4. ASSUME NEW d \in Produced, Matches(d, e),
               OnDataValidated(e, d) \/ OnDataThrows(e) \/ OnDataValidationFailed(e, d)
        PROVE  Throws(e) \/ \E got \in SUBSET Produced : Ends(e, got)
    <2>1. NextInterest(e, d) \in Interests /\ Narrower(NextInterest(e, d), e, {d})
      BY <1>2, <1>4, NextIsNarrower, WatchAssumption
    <2>2. Narrower(NextInterest(e, d), e, {})
      BY <2>1 DEF Narrower
    <2>3. CASE OnDataThrows(e)
      BY <1>4, <2>3 DEF OnDataThrows, Throws
    <2>4. CASE OnDataValidationFailed(e, d)
      <3>1. Ends(e, {})
        BY <2>1, <2>2, <2>4 DEF OnDataValidationFailed, Ends
      <3> QED BY <3>1
    <2>5. CASE OnDataValidated(e, d) /\ Watching(e.name)
      <3>1. ~Dropped(e) /\ stored' = stored \cup {d}
        BY <2>5 DEF OnDataValidated, Dropped
      <3>2. Ends(e, {d})
        BY <1>4, <2>1, <2>5, <3>1 DEF OnDataValidated, Ends
      <3> QED BY <3>2
    <2>6. CASE OnDataValidated(e, d) /\ ~Watching(e.name)
      <3>1. Ends(e, {})
        BY <2>6 DEF OnDataValidated, WatchEnded, GoesOn, Ends
      <3> QED BY <3>1
    <2> QED BY <1>4, <2>3, <2>4, <2>5, <2>6
  <1> QED BY <1>1, <1>3, <1>4

(***************************************************************************)
(* Packets move from the storage to the deleted ones.                      *)
(***************************************************************************)
Deletes(gone) ==
    /\ stored' = stored \ gone /\ deleted' = deleted \cup gone
    /\ state' \in {state, "hangs", "aborted"}
    /\ UNCHANGED watchVars

LEMMA DeleteCases ==
    ASSUME DeleteStep
    PROVE  \E gone \in SUBSET stored : Deletes(gone)
  <1>1. PICK gone : gone \in SUBSET stored /\ DeleteData(gone)
    <2>1. \A n, first, last : Below(n) \subseteq stored /\ InRange(n, first, last) \subseteq stored
      BY DEF Below, InRange
    <2>2. CASE DeleteSegmentsUnbounded
      <3>1. DeleteData({})
        BY <2>2 DEF DeleteSegmentsUnbounded, DeleteData
      <3> QED BY <3>1
    <2> QED BY <2>1, <2>2 DEF DeleteStep, DeleteSingle, DeleteSelected, DeleteSegments,
                              DeleteSegmentsHangs
  <1>2. state' \in {state, "hangs", "aborted"}
    BY DEF DeleteStep, DeleteSegments, DeleteSegmentsHangs, DeleteSegmentsUnbounded
  <1> QED BY <1>1, <1>2 DEF DeleteStep, DeleteData, Deletes

(***************************************************************************)
(* The cases of a step.                                                    *)
(***************************************************************************)
LEMMA WatchCases ==
    ASSUME pending \subseteq Interests, [DeleteNext]_deleteVars
    PROVE  \/ \E c \in Commands, i \in Chains : WatchCommand(c, i) /\ UNCHANGED deleted
           \/ \E n \in Names : StopCommand(n) /\ UNCHANGED deleted
           \/ \E n \in Names : CheckCommand(n) /\ UNCHANGED deleted
           \/ \E n \in Names : DeleteProcess(n) /\ UNCHANGED deleted
           \/ \E e \in pending : Throws(e)
           \/ \E e \in pending, got \in SUBSET Produced : Ends(e, got)
           \/ TimePasses /\ UNCHANGED deleted
           \/ \E gone \in SUBSET stored : Deletes(gone)
           \/ UNCHANGED deleteVars
  <1>1. CASE WatchStep /\ UNCHANGED deleted
    BY <1>1, CallbackCases DEF WatchStep
  <1>2. CASE DeleteStep
    BY <1>2, DeleteCases
  <1> QED BY <1>1, <1>2 DEF DeleteNext

-----------------------------------------------------------------------------
(***************************************************************************)
(* Bags and tables.                                                        *)
(***************************************************************************)
LEMMA BagAdded ==
    ASSUME NEW n, NEW m
    PROVE  BagIn(m, deleting (+) SetToBag({n})) <=> m = n \/ BagIn(m, deleting)
  BY DEF BagIn, BagToSet, SetToBag, (+)

LEMMA BagRemoved ==
    ASSUME NEW n, NEW m, BagIn(m, deleting (-) SetToBag({n}))
    PROVE  BagIn(m, deleting)
  BY DEF BagIn, BagToSet, SetToBag, (-)

(***************************************************************************)
(* Entering a name makes a pair for it and leaves the others.              *)
(***************************************************************************)
LEMMA EnteredTable ==
    ASSUME WatchTypeOK, NEW n \in Names
    PROVE  /\ DOMAIN Entered(n) = DOMAIN watches \cup {n}
           /\ Entered(n) \in [DOMAIN watches \cup {n} -> Process]
           /\ \A m \in DOMAIN watches : Entered(n)[m] = watches[m]
           /\ n \notin DOMAIN watches => ~Entered(n)[n].running
  BY DEF WatchTypeOK, Entered, Process

LEMMA RunningCleared ==
    ASSUME NEW D, NEW n \in D, NEW f \in [D -> Process]
    PROVE  /\ [f EXCEPT ![n].running = FALSE] \in [D -> Process]
           /\ ~[f EXCEPT ![n].running = FALSE][n].running
           /\ \A m \in D \ {n} : [f EXCEPT ![n].running = FALSE][m] = f[m]
  <1>1. \A r \in Process : /\ [r EXCEPT !.running = FALSE] \in Process
                            /\ ~[r EXCEPT !.running = FALSE].running
    BY DEF Process
  <1>2. f[n] \in Process
    OBVIOUS
  <1> QED BY <1>1, <1>2

LEMMA StoppedTable ==
    ASSUME WatchTypeOK, NEW n \in Names, WatchStop(n)
    PROVE  /\ watches' \in [DOMAIN watches \cup {n} -> Process]
           /\ ~watches'[n].running
           /\ \A m \in DOMAIN watches \ {n} : watches'[m] = watches[m]
  <1>1. /\ n \in DOMAIN watches \cup {n}
        /\ Entered(n) \in [DOMAIN watches \cup {n} -> Process]
        /\ watches' = [Entered(n) EXCEPT ![n].running = FALSE]
    BY EnteredTable DEF WatchStop
  <1> QED BY <1>1, EnteredTable, RunningCleared

LEMMA StartedTable ==
    ASSUME WatchTypeOK, NEW c \in Commands, NEW i \in Chains, WatchCommand(c, i)
    PROVE  /\ c.name \in Names
           /\ watches' \in [DOMAIN watches \cup {c.name} -> Process]
           /\ watches'[c.name].running
           /\ \A m \in DOMAIN watches \ {c.name} : watches'[m] = watches[m]
  <1>1. /\ c.name \in Names
        /\ Entered(c.name) \in [DOMAIN watches \cup {c.name} -> Process]
        /\ watches' = [Entered(c.name) EXCEPT ![c.name] = [code |-> 300, running |-> TRUE]]
    BY EnteredTable, WatchAssumption DEF WatchCommand
  <1>2. [code |-> 300, running |-> TRUE] \in Process
    BY DEF Process
  <1> QED BY <1>1, <1>2, EnteredTable

LEMMA CheckedTable ==
    ASSUME WatchTypeOK, NEW n \in Names, CheckCommand(n)
    PROVE  /\ watches' \in [DOMAIN watches -> Process]
           /\ \A m \in DOMAIN watches : watches'[m].running <=> watches[m].running
  <1>1. PICK code \in {0, 101, 300} : watches' = [watches EXCEPT ![n].code = code]
    <2>1. n \in DOMAIN watches /\ watches[n] \in Process
      BY DEF CheckCommand, WatchTypeOK
    <2> QED BY <2>1 DEF CheckCommand, Process
  <1>2. watches \in [DOMAIN watches -> Process]
    BY DEF WatchTypeOK
  <1>3. n \in DOMAIN watches
    BY DEF CheckCommand
  <1>4. watches'[n] = [watches[n] EXCEPT !.code = code]
    BY <1>1, <1>2, <1>3
  <1>5. watches[n] \in Process
    BY <1>2, <1>3
  <1>6. watches'[n] \in Process /\ (watches'[n].running <=> watches[n].running)
    BY <1>4, <1>5 DEF Process
  <1>7. DOMAIN watches' = DOMAIN watches /\ \A m \in DOMAIN watches \ {n} : watches'[m] = watches[m]
    BY <1>1, <1>2
  <1>8. watches' \in [DOMAIN watches -> Process]
    BY <1>1, <1>2, <1>6, <1>7
  <1> QED BY <1>6, <1>7, <1>8

(***************************************************************************)
(* Which names are watched, after each way to change the table.            *)
(***************************************************************************)
LEMMA WatchingEntered ==
    ASSUME WatchTypeOK, NEW n \in Names, watches' = Entered(n)
    PROVE  \A m \in Names : Watching(m)' <=> Watching(m)
  BY EnteredTable DEF Watching

LEMMA WatchingStopped ==
    ASSUME WatchTypeOK, NEW n \in Names, WatchStop(n)
    PROVE  \A m \in Names : Watching(m)' <=> m # n /\ Watching(m)
  BY StoppedTable DEF Watching

LEMMA WatchingStarted ==
    ASSUME WatchTypeOK, NEW c \in Commands, NEW i \in Chains, WatchCommand(c, i)
    PROVE  \A m \in Names : Watching(m)' <=> m = c.name \/ Watching(m)
  BY StartedTable DEF Watching

LEMMA WatchingChecked ==
    ASSUME WatchTypeOK, NEW n \in Names, CheckCommand(n)
    PROVE  \A m \in Names : Watching(m)' <=> Watching(m)
  BY CheckedTable DEF Watching

LEMMA WatchingDeleted ==
    ASSUME WatchTypeOK, NEW n \in Names, DeleteProcess(n)
    PROVE  \A m \in Names : Watching(m)' <=> m # n /\ Watching(m)
  BY DEF WatchTypeOK, Watching, DeleteProcess

-----------------------------------------------------------------------------
(***************************************************************************)
(* Type correctness, with the types of the histories.                      *)
(***************************************************************************)
HistoryType ==
    [starts : Nat, sent : 0..(MaxCount + 1), limit : 0..MaxCount, limited : BOOLEAN,
     wanted : BOOLEAN, clean : BOOLEAN, disturbed : BOOLEAN]

WatchType == WatchTypeOK /\ history \in [Names -> HistoryType]

LEMMA Bumped ==
    ASSUME NEW n \in 0..(MaxCount + 1)
    PROVE  Bump(n) \in 0..(MaxCount + 1) /\ Bump(n) \in {n, n + 1} /\ (n <= MaxCount => Bump(n) = n + 1)
  BY WatchAssumption DEF Bump

LEMMA StoppedType ==
    ASSUME WatchType, NEW n \in Names, WatchStop(n)
    PROVE  /\ DOMAIN watches' \subseteq Names
           /\ watches' \in [DOMAIN watches' -> Process]
           /\ interestNum' \in 0..(MaxCount + 1) /\ maxInterestNum' \in 0..MaxCount
           /\ timed' \in BOOLEAN /\ elapsed' \in BOOLEAN
           /\ history' \in [Names -> HistoryType]
  <1>1. DOMAIN watches' \subseteq Names /\ watches' \in [DOMAIN watches' -> Process]
    BY StoppedTable DEF WatchType, WatchTypeOK
  <1>2. history' \in [Names -> HistoryType]
    BY DEF WatchType, HistoryType, WatchStop, StoppedHistory
  <1>3. /\ interestNum' \in 0..(MaxCount + 1) /\ maxInterestNum' \in 0..MaxCount
        /\ timed' \in BOOLEAN /\ elapsed' \in BOOLEAN
    <2>1. interestNum' = 0 /\ maxInterestNum' = 0
      BY DEF WatchStop
    <2>2. timed' \in BOOLEAN /\ elapsed' \in BOOLEAN
      BY Zenon DEF WatchStop
    <2>3. 0 \in 0..(MaxCount + 1) /\ 0 \in 0..MaxCount
      BY WatchAssumption
    <2> QED BY <2>1, <2>2, <2>3
  <1> QED BY <1>1, <1>2, <1>3

LEMMA WatchTypeStep ==
    ASSUME WatchType, [DeleteNext]_deleteVars
    PROVE  WatchType'
  <1> USE DEF WatchType, WatchTypeOK, watchVars, limitVars
  <1>1. ASSUME NEW c \in Commands, NEW i \in Chains, WatchCommand(c, i)
        PROVE  WatchType'
    <2>1. c.name \in Names /\ c.limit \in 0..MaxCount /\ c.timed \in BOOLEAN
      BY WatchAssumption
    <2>2. DOMAIN watches' \subseteq Names /\ watches' \in [DOMAIN watches' -> Process]
      BY <1>1, StartedTable
    <2>3. [chain |-> i, name |-> c.name, excluded |-> Itself, minSuffix |-> 1] \in Interests
      BY <2>1 DEF Interests, Child
    <2>4. pending' \subseteq Interests
      BY <1>1, <2>3 DEF WatchCommand
    <2>5. history' \in [Names -> HistoryType]
      <3>1. 1 \in 0..(MaxCount + 1) /\ (c.limit # 0 \/ c.timed) \in BOOLEAN
        BY WatchAssumption
      <3>2. \A m : (~BagIn(m, deleting)) \in BOOLEAN
        BY DEF BagIn
      <3>3. ASSUME NEW m \in Names
            PROVE  /\ [history[m] EXCEPT !.disturbed = TRUE] \in HistoryType
                   /\ [starts |-> history[m].starts + 1, sent |-> 1, limit |-> c.limit,
                       limited |-> c.limit # 0 \/ c.timed, wanted |-> TRUE,
                       clean |-> ~BagIn(m, deleting), disturbed |-> FALSE] \in HistoryType
        <4>1. history[m] \in HistoryType
          OBVIOUS
        <4>2. [history[m] EXCEPT !.disturbed = TRUE] \in HistoryType
          BY <4>1 DEF HistoryType
        <4>3. history[m].starts + 1 \in Nat
          BY <4>1 DEF HistoryType
        <4> QED BY Zenon, <2>1, <3>1, <3>2, <4>2, <4>3 DEF HistoryType
      <3> QED BY <1>1, <3>3 DEF WatchCommand
    <2> QED BY <1>1, <2>1, <2>2, <2>4, <2>5, Bumped DEF WatchCommand
  <1>2. ASSUME NEW n \in Names, StopCommand(n)
        PROVE  WatchType'
    BY <1>2, StoppedType DEF StopCommand
  <1>3. ASSUME NEW n \in Names, CheckCommand(n)
        PROVE  WatchType'
    BY <1>3, CheckedTable DEF CheckCommand
  <1>4. ASSUME NEW n \in Names, DeleteProcess(n)
        PROVE  WatchType'
    <2>1. BagToSet(deleting') \subseteq Names
      BY <1>4, BagRemoved DEF DeleteProcess, BagIn
    <2> QED BY <1>4, <2>1 DEF DeleteProcess
  <1>5. ASSUME NEW e \in pending, Throws(e)
        PROVE  WatchType'
    BY <1>5 DEF Throws
  <1>6. ASSUME NEW e \in pending, NEW got \in SUBSET Produced, Ends(e, got)
        PROVE  WatchType'
    <2>1. e \in Interests /\ e.name \in Names
      BY DEF Interests
    <2>2. stored' \subseteq Packet /\ state' \in {"up", "threw", "hangs", "aborted"}
      BY <1>6, WatchAssumption DEF Ends
    <2>3. CASE Dropped(e)
      <3>1. DOMAIN watches' \subseteq Names /\ watches' \in [DOMAIN watches' -> Process]
        <4>1. WatchTypeOK /\ watches' = Entered(e.name)
          BY <2>3 DEF Dropped
        <4>2. /\ DOMAIN Entered(e.name) = DOMAIN watches \cup {e.name}
              /\ Entered(e.name) \in [DOMAIN watches \cup {e.name} -> Process]
          BY <2>1, <4>1, EnteredTable
        <4>3. DOMAIN watches \subseteq Names
          OBVIOUS
        <4> QED BY <2>1, <4>1, <4>2, <4>3
      <3> QED BY <2>2, <2>3, <3>1 DEF Dropped
    <2>4. CASE WatchEnded(e)
      <3>1. BagToSet(deleting') \subseteq Names
        <4>1. \A m : BagIn(m, deleting') => m = e.name \/ BagIn(m, deleting)
          BY <2>4, BagAdded DEF WatchEnded
        <4> QED BY <2>1, <4>1 DEF BagIn
      <3> QED BY <2>1, <2>2, <2>4, <3>1, StoppedType DEF WatchEnded
    <2>5. ASSUME NEW next \in Interests, GoesOn(e, next)
          PROVE  WatchType'
      <3>1. history' \in [Names -> HistoryType]
        BY <2>1, <2>5, Bumped DEF GoesOn, HistoryType
      <3> QED BY <2>2, <2>5, <3>1, Bumped DEF GoesOn
    <2> QED BY <1>6, <2>3, <2>4, <2>5 DEF Ends
  <1>7. CASE TimePasses
    BY <1>7 DEF TimePasses
  <1>8. ASSUME NEW gone \in SUBSET stored, Deletes(gone)
        PROVE  WatchType'
    BY <1>8 DEF Deletes
  <1>9. CASE UNCHANGED deleteVars
    BY <1>9 DEF deleteVars, vars
  <1> QED BY <1>1, <1>2, <1>3, <1>4, <1>5, <1>6, <1>7, <1>8, <1>9, WatchCases

-----------------------------------------------------------------------------
(***************************************************************************)
(* The steps that change neither the table, the limits nor the histories.  *)
(***************************************************************************)
Rests == UNCHANGED <<watches, interestNum, maxInterestNum, deleting, history>>

LEMMA WatchRests ==
    ASSUME \/ \E e \in pending : Throws(e)
           \/ TimePasses
           \/ \E gone \in SUBSET stored : Deletes(gone)
           \/ UNCHANGED deleteVars
    PROVE  Rests
  BY DEF Throws, TimePasses, Deletes, deleteVars, vars, watchVars, limitVars, Rests

-----------------------------------------------------------------------------
(***************************************************************************)
(* A watch has an Interest in flight.                                      *)
(***************************************************************************)
LEMMA HasInterestStep ==
    ASSUME WatchType, WatchingHasInterest, [DeleteNext]_deleteVars
    PROVE  WatchingHasInterest'
  <1>0. WatchTypeOK /\ pending \subseteq Interests
    BY DEF WatchType, WatchTypeOK
  <1> SUFFICES ASSUME state' = "up", NEW m \in Names, Watching(m)'
               PROVE  \E f \in pending' : f.name = m
    BY DEF WatchingHasInterest
  <1>8. \A n \in Names : Watching(n) => \E f \in pending : f.name = n
    <2>1. state = "up" \/ UNCHANGED deleteVars
      BY DEF DeleteNext
    <2>2. state = "up"
      BY <2>1 DEF deleteVars, vars
    <2> QED BY <2>2 DEF WatchingHasInterest
  <1>1. ASSUME NEW c \in Commands, NEW i \in Chains, WatchCommand(c, i)
        PROVE  \E f \in pending' : f.name = m
    <2>1. CASE m = c.name
      <3>1. [chain |-> i, name |-> c.name, excluded |-> Itself, minSuffix |-> 1] \in pending'
        BY <1>1 DEF WatchCommand
      <3> QED BY <2>1, <3>1
    <2>2. CASE m # c.name
      <3>1. Watching(m) /\ pending \subseteq pending'
        BY <1>0, <1>1, <2>2, WatchingStarted DEF WatchCommand
      <3> QED BY <1>8, <3>1
    <2> QED BY <2>1, <2>2
  <1>2. ASSUME Watching(m), pending' = pending
        PROVE  \E f \in pending' : f.name = m
    BY <1>8, <1>2
  <1>3. ASSUME NEW n \in Names, StopCommand(n) \/ CheckCommand(n) \/ DeleteProcess(n)
        PROVE  \E f \in pending' : f.name = m
    <2>1. Watching(m)
      BY <1>0, <1>3, WatchingStopped, WatchingChecked, WatchingDeleted DEF StopCommand
    <2> QED BY <1>2, <1>3, <2>1 DEF StopCommand, CheckCommand, DeleteProcess
  <1>4. ASSUME NEW e \in pending, NEW got \in SUBSET Produced, Ends(e, got)
        PROVE  \E f \in pending' : f.name = m
    <2>1. e.name \in Names
      BY <1>0 DEF Interests
    <2>2. CASE Dropped(e) \/ WatchEnded(e)
      <3>1. Watching(m) /\ m # e.name
        BY <1>0, <2>1, <2>2, WatchingEntered, WatchingStopped DEF Dropped, WatchEnded
      <3>2. pending' = pending \ {e}
        BY <2>2 DEF Dropped, WatchEnded
      <3> QED BY <1>8, <3>1, <3>2
    <2>3. ASSUME NEW next \in Interests, Narrower(next, e, got), GoesOn(e, next)
          PROVE  \E f \in pending' : f.name = m
      <3>1. Watching(m) /\ pending' = (pending \ {e}) \cup {next} /\ next.name = e.name
        BY <2>3 DEF GoesOn, Watching, Narrower
      <3> QED BY <1>8, <3>1
    <2> QED BY <1>4, <2>2, <2>3 DEF Ends
  <1>5. ASSUME NEW e \in pending, Throws(e)
        PROVE  FALSE
    BY <1>5 DEF Throws
  <1>6. ASSUME UNCHANGED <<watches, pending>>
        PROVE  \E f \in pending' : f.name = m
    BY <1>2, <1>6 DEF Watching
  <1>7. CASE TimePasses \/ (\E gone \in SUBSET stored : Deletes(gone)) \/ UNCHANGED deleteVars
    BY <1>6, <1>7 DEF TimePasses, Deletes, deleteVars, vars, watchVars
  <1> QED BY <1>0, <1>1, <1>3, <1>4, <1>5, <1>7, WatchCases

-----------------------------------------------------------------------------
(***************************************************************************)
(* A wanted watch, started when no removal was due, has no removal due:    *)
(* with that, AcceptedWatchRuns is inductive.                              *)
(***************************************************************************)
NoRemovalDue ==
    \A n \in Names : history[n].wanted /\ history[n].clean => ~BagIn(n, deleting)

LEMMA AcceptedStep ==
    ASSUME WatchType, AcceptedWatchRuns, NoRemovalDue, [DeleteNext]_deleteVars
    PROVE  (AcceptedWatchRuns /\ NoRemovalDue)'
  <1>0. WatchTypeOK /\ pending \subseteq Interests /\ history \in [Names -> HistoryType]
    BY DEF WatchType, WatchTypeOK
  <1> SUFFICES ASSUME NEW m \in Names, history'[m].wanted, history'[m].clean
               PROVE  Watching(m)' /\ ~BagIn(m, deleting')
    BY DEF AcceptedWatchRuns, NoRemovalDue
  <1>1. ASSUME NEW c \in Commands, NEW i \in Chains, WatchCommand(c, i)
        PROVE  Watching(m)' /\ ~BagIn(m, deleting')
    <2>1. deleting' = deleting
      BY <1>1 DEF WatchCommand
    <2>2. CASE m = c.name
      <3>1. history'[m].clean <=> ~BagIn(m, deleting)
        BY <1>1, <2>2 DEF WatchCommand
      <3> QED BY <1>0, <1>1, <2>1, <2>2, <3>1, WatchingStarted
    <2>3. CASE m # c.name
      <3>1. history'[m] = [history[m] EXCEPT !.disturbed = TRUE]
        BY <1>1, <2>3 DEF WatchCommand
      <3>2. history[m].wanted /\ history[m].clean
        BY <1>0, <3>1 DEF HistoryType
      <3> QED BY <1>0, <1>1, <2>1, <3>2, WatchingStarted DEF AcceptedWatchRuns, NoRemovalDue
    <2> QED BY <2>2, <2>3
  <1>2. ASSUME NEW n \in Names, WatchStop(n)
        PROVE  m # n /\ Watching(m)' /\ ~BagIn(m, deleting)
    <2>1. history'[m] = IF m = n THEN [history[m] EXCEPT !.wanted = FALSE]
                                 ELSE [history[m] EXCEPT !.disturbed = TRUE]
      BY <1>2 DEF WatchStop, StoppedHistory
    <2>2. m # n /\ history[m].wanted /\ history[m].clean
      BY <1>0, <2>1 DEF HistoryType
    <2> QED BY <1>0, <1>2, <2>2, WatchingStopped DEF AcceptedWatchRuns, NoRemovalDue
  <1>3. ASSUME NEW n \in Names, StopCommand(n)
        PROVE  Watching(m)' /\ ~BagIn(m, deleting')
    BY <1>2, <1>3 DEF StopCommand
  <1>4. ASSUME NEW n \in Names, CheckCommand(n)
        PROVE  Watching(m)' /\ ~BagIn(m, deleting')
    BY <1>0, <1>4, WatchingChecked DEF CheckCommand, AcceptedWatchRuns, NoRemovalDue
  <1>5. ASSUME NEW n \in Names, DeleteProcess(n)
        PROVE  Watching(m)' /\ ~BagIn(m, deleting')
    <2>1. Watching(m) /\ ~BagIn(m, deleting) /\ BagIn(n, deleting)
      BY <1>5 DEF DeleteProcess, AcceptedWatchRuns, NoRemovalDue
    <2>2. ~BagIn(m, deleting')
      BY <1>5, <2>1, BagRemoved DEF DeleteProcess
    <2> QED BY <1>0, <1>5, <2>1, <2>2, WatchingDeleted
  <1>6. ASSUME NEW e \in pending, NEW got \in SUBSET Produced, Ends(e, got)
        PROVE  Watching(m)' /\ ~BagIn(m, deleting')
    <2>1. e.name \in Names
      BY <1>0 DEF Interests
    <2>2. CASE Dropped(e)
      BY <1>0, <2>1, <2>2, WatchingEntered DEF Dropped, AcceptedWatchRuns, NoRemovalDue
    <2>3. CASE WatchEnded(e)
      <3>1. m # e.name /\ Watching(m)' /\ ~BagIn(m, deleting)
        BY <1>2, <2>1, <2>3 DEF WatchEnded
      <3> QED BY <2>3, <3>1, BagAdded DEF WatchEnded
    <2>4. ASSUME NEW next \in Interests, GoesOn(e, next)
          PROVE  Watching(m)' /\ ~BagIn(m, deleting')
      <3>1. UNCHANGED <<watches, deleting>>
        BY <2>4 DEF GoesOn
      <3>2. history[m].wanted /\ history[m].clean
        BY <1>0, <2>1, <2>4 DEF GoesOn, HistoryType
      <3> QED BY <3>1, <3>2 DEF Watching, AcceptedWatchRuns, NoRemovalDue
    <2> QED BY <1>6, <2>2, <2>3, <2>4 DEF Ends
  <1>7. CASE Rests
    BY <1>7 DEF Rests, Watching, AcceptedWatchRuns, NoRemovalDue
  <1> QED BY <1>0, <1>1, <1>3, <1>4, <1>5, <1>6, <1>7, WatchCases, WatchRests

-----------------------------------------------------------------------------
(***************************************************************************)
(* The limit.  While a watch goes on undisturbed, the handler's limit is   *)
(* the one of its command, and the handler has counted its Interests, if   *)
(* perhaps more than those.                                                *)
(***************************************************************************)
LimitCounts ==
    \A n \in Names : Watching(n) /\ ~history[n].disturbed =>
        maxInterestNum = history[n].limit /\ history[n].sent <= interestNum

LEMMA LimitStep ==
    ASSUME WatchType, LimitKept, LimitCounts, [DeleteNext]_deleteVars
    PROVE  (LimitKept /\ LimitCounts)'
  <1>0. /\ WatchTypeOK /\ pending \subseteq Interests /\ history \in [Names -> HistoryType]
        /\ interestNum \in 0..(MaxCount + 1) /\ maxInterestNum \in 0..MaxCount
    BY DEF WatchType, WatchTypeOK
  <1> DEFINE Kept(m) == history[m].limit # 0 => history[m].sent <= history[m].limit
             Counts(m) == Watching(m) =>
                 maxInterestNum = history[m].limit /\ history[m].sent <= interestNum
  <1> SUFFICES ASSUME NEW m \in Names, ~history'[m].disturbed
               PROVE  Kept(m)' /\ Counts(m)'
    BY DEF LimitKept, LimitCounts
  <1> HIDE DEF Kept, Counts
  <1>1. ~history[m].disturbed => Kept(m) /\ Counts(m)
    BY DEF LimitKept, LimitCounts, Kept, Counts
  <1>2. ASSUME NEW c \in Commands, NEW i \in Chains, WatchCommand(c, i)
        PROVE  Kept(m)' /\ Counts(m)'
    <2>1. CASE m = c.name
      <3>1. /\ history'[m].sent = 1 /\ history'[m].limit = c.limit
            /\ maxInterestNum' = c.limit /\ interestNum' = Bump(interestNum)
        BY <1>2, <2>1 DEF WatchCommand
      <3>2. c.limit \in 0..MaxCount /\ 1 <= Bump(interestNum)
        BY <1>0, WatchAssumption DEF Bump
      <3> QED BY <3>1, <3>2, WatchAssumption DEF Kept, Counts
    <2>2. CASE m # c.name
      <3>1. history'[m] = [history[m] EXCEPT !.disturbed = TRUE]
        BY <1>2, <2>2 DEF WatchCommand
      <3>2. history'[m].disturbed
        BY <1>0, <3>1 DEF HistoryType
      <3> QED BY <3>2
    <2> QED BY <2>1, <2>2
  <1>3. ASSUME NEW n \in Names, WatchStop(n)
        PROVE  Kept(m)' /\ Counts(m)'
    <2>1. history'[m] = IF m = n THEN [history[m] EXCEPT !.wanted = FALSE]
                                 ELSE [history[m] EXCEPT !.disturbed = TRUE]
      BY <1>3 DEF WatchStop, StoppedHistory
    <2>2. /\ m = n /\ ~history[m].disturbed
          /\ history'[m].sent = history[m].sent /\ history'[m].limit = history[m].limit
      BY <1>0, <2>1 DEF HistoryType
    <2>3. ~Watching(m)'
      BY <1>0, <1>3, <2>2, WatchingStopped
    <2> QED BY <1>1, <2>2, <2>3 DEF Kept, Counts
  <1>4. ASSUME NEW n \in Names, StopCommand(n)
        PROVE  Kept(m)' /\ Counts(m)'
    BY <1>3, <1>4 DEF StopCommand
  <1>5. ASSUME history' = history, interestNum' = interestNum,
               maxInterestNum' = maxInterestNum, Watching(m)' => Watching(m)
        PROVE  Kept(m)' /\ Counts(m)'
    BY <1>1, <1>5 DEF Kept, Counts
  <1>6. ASSUME NEW n \in Names, CheckCommand(n) \/ DeleteProcess(n)
        PROVE  Kept(m)' /\ Counts(m)'
    BY <1>0, <1>5, <1>6, WatchingChecked, WatchingDeleted DEF CheckCommand, DeleteProcess, limitVars
  <1>7. ASSUME NEW e \in pending, NEW got \in SUBSET Produced, Ends(e, got)
        PROVE  Kept(m)' /\ Counts(m)'
    <2>1. e.name \in Names
      BY <1>0 DEF Interests
    <2>2. CASE Dropped(e)
      BY <1>0, <1>5, <2>1, <2>2, WatchingEntered DEF Dropped, limitVars
    <2>3. CASE WatchEnded(e)
      BY <1>3, <2>1, <2>3 DEF WatchEnded
    <2>4. ASSUME NEW next \in Interests, GoesOn(e, next)
          PROVE  Kept(m)' /\ Counts(m)'
      <3>1. /\ Watching(e.name) /\ ~Over /\ UNCHANGED <<watches, maxInterestNum>>
            /\ interestNum' = Bump(interestNum)
            /\ history' = [history EXCEPT ![e.name].sent = Bump(@)]
        BY <2>4 DEF GoesOn
      <3>2. Watching(m)' <=> Watching(m)
        BY <3>1 DEF Watching
      <3>3. interestNum <= interestNum'
        BY <1>0, <3>1 DEF Bump
      <3>4. CASE m # e.name
        <4>1. history'[m] = history[m]
          BY <1>0, <2>1, <3>1, <3>4
        <4>2. history[m].sent \in Int /\ ~history[m].disturbed
          BY <1>0, <4>1 DEF HistoryType
        <4>3. interestNum \in Int /\ interestNum' \in Int
          BY <1>0, <3>1 DEF Bump
        <4>4. Kept(m)'
          BY <1>1, <4>1, <4>2 DEF Kept
        <4>5. Counts(m)'
          <5>1. Watching(m) => maxInterestNum = history[m].limit /\ history[m].sent <= interestNum
            BY <1>1, <4>2 DEF Counts
          <5>2. maxInterestNum' = maxInterestNum
            BY <3>1
          <5>3. ASSUME Watching(m)
                PROVE  maxInterestNum' = history'[m].limit /\ history'[m].sent <= interestNum'
            BY <3>3, <4>1, <4>2, <4>3, <5>1, <5>2, <5>3
          <5> QED BY <3>2, <5>3 DEF Counts
        <4> QED BY <4>4, <4>5
      <3>5. CASE m = e.name
        <4>1. /\ history'[m].sent = Bump(history[m].sent) /\ history'[m].limit = history[m].limit
              /\ ~history[m].disturbed
          BY <1>0, <2>1, <3>1, <3>5 DEF HistoryType
        <4>2. history[m].sent \in 0..(MaxCount + 1) /\ history[m].limit \in 0..MaxCount
          BY <1>0 DEF HistoryType
        <4>3. /\ maxInterestNum = history[m].limit /\ history[m].sent <= interestNum
              /\ maxInterestNum # 0 => interestNum < maxInterestNum
          BY <1>0, <1>1, <3>1, <3>5, <4>1 DEF Counts, Over
        <4> QED BY <1>0, <3>1, <3>2, <4>1, <4>2, <4>3, WatchAssumption DEF Kept, Counts, Bump
      <3> QED BY <3>4, <3>5
    <2> QED BY <1>7, <2>2, <2>3, <2>4 DEF Ends
  <1>8. CASE Rests
    BY <1>5, <1>8 DEF Rests, Watching
  <1> QED BY <1>0, <1>2, <1>4, <1>6, <1>7, <1>8, WatchCases, WatchRests

-----------------------------------------------------------------------------
(***************************************************************************)
(* One chain.  A name that was watched at most once has one Interest in    *)
(* flight at most, which no packet answers that the watch has inserted,    *)
(* deleted since or not; one that was never watched has neither.           *)
(***************************************************************************)
Seen == stored \cup deleted

OneChain(n) ==
    /\ \A e1, e2 \in pending : e1.name = n /\ e2.name = n => e1 = e2
    /\ \A e \in pending, d \in Seen : e.name = n => ~Matches(d, e)

NothingYet(n) ==
    /\ \A e \in pending : e.name # n
    /\ \A d \in Seen : d.name # n

ChainInv ==
    /\ deleted \subseteq Packet
    /\ \A n \in Names : history[n].starts <= 1 => OneChain(n)
    /\ \A n \in Names : history[n].starts = 0 => NothingYet(n)
    /\ DeletedStaysDeleted

(***************************************************************************)
(* The steps that express no Interest and store nothing keep it.           *)
(***************************************************************************)
LEMMA ChainRests ==
    ASSUME ChainInv, pending' \subseteq pending, Seen' \subseteq Seen, deleted' \subseteq Packet,
           \A n \in Names : history'[n].starts = history[n].starts,
           \A d \in deleted' \cap stored' : d \in deleted \cap stored,
           \A d \in deleted' : d.name \in Names
    PROVE  ChainInv'
  <1>1. \A n \in Names : OneChain(n) => OneChain(n)'
    BY DEF OneChain, Matches
  <1>2. \A n \in Names : NothingYet(n) => NothingYet(n)'
    BY DEF NothingYet
  <1>3. DeletedStaysDeleted'
    BY DEF ChainInv, DeletedStaysDeleted
  <1> QED BY <1>1, <1>2, <1>3 DEF ChainInv

LEMMA StartsKept ==
    ASSUME history \in [Names -> HistoryType], NEW n \in Names
    PROVE  /\ \A m \in Names : StoppedHistory(n)[m].starts = history[m].starts
           /\ \A m \in Names :
                 [history EXCEPT ![n].sent = Bump(@)][m].starts = history[m].starts
  BY DEF StoppedHistory, HistoryType

LEMMA ChainStep ==
    ASSUME WatchType, ChainInv, [DeleteNext]_deleteVars
    PROVE  ChainInv'
  <1>0. /\ WatchTypeOK /\ pending \subseteq Interests /\ history \in [Names -> HistoryType]
        /\ stored \subseteq Packet /\ deleted \subseteq Packet
        /\ \A m \in Names : history[m].starts \in Nat
        /\ \A d \in Seen : d.name \in Names
    BY DEF WatchType, WatchTypeOK, ChainInv, HistoryType, Seen, Packet
  <1>1. ASSUME NEW c \in Commands, NEW i \in Chains, WatchCommand(c, i), UNCHANGED deleted
        PROVE  ChainInv'
    <2> DEFINE new == [chain |-> i, name |-> c.name, excluded |-> Itself, minSuffix |-> 1]
    <2>1. /\ c.name \in Names /\ pending' = pending \cup {new} /\ new.name = c.name
          /\ Seen' = Seen /\ stored' = stored /\ state' = state
      BY <1>1, WatchAssumption DEF WatchCommand, Seen
    <2>2. \A m \in Names : history'[m].starts =
              IF m = c.name THEN history[m].starts + 1 ELSE history[m].starts
      BY <1>0, <1>1 DEF WatchCommand, HistoryType
    <2>3. ASSUME NEW m \in Names, history'[m].starts <= 1
          PROVE  OneChain(m)'
      <3>1. CASE m = c.name
        <4>1. NothingYet(m)
          BY <1>0, <2>2, <2>3, <3>1 DEF ChainInv
        <4>2. \A d \in Seen : ~Matches(d, new)
          BY <2>1, <3>1, <4>1 DEF NothingYet, Matches
        <4>3. \A d, e : Matches(d, e)' <=> Matches(d, e)
          BY DEF Matches
        <4> QED BY <2>1, <4>1, <4>2, <4>3 DEF OneChain, NothingYet
      <3>2. CASE m # c.name
        <4>1. OneChain(m)
          BY <2>2, <2>3, <3>2 DEF ChainInv
        <4> QED BY <2>1, <3>2, <4>1 DEF OneChain, Matches
      <3> QED BY <3>1, <3>2
    <2>4. ASSUME NEW m \in Names, history'[m].starts = 0
          PROVE  NothingYet(m)'
      <3>1. m # c.name /\ NothingYet(m)
        BY <1>0, <2>2, <2>4 DEF ChainInv
      <3> QED BY <2>1, <3>1 DEF NothingYet
    <2>5. \A m \in Names : history[m].starts > 1 => history'[m].starts > 1
      BY <1>0, <2>2
    <2>6. DeletedStaysDeleted'
      BY <1>0, <1>1, <2>1, <2>5 DEF DeletedStaysDeleted, ChainInv, Seen
    <2> QED BY <1>0, <1>1, <2>3, <2>4, <2>6 DEF ChainInv
  <1>2. ASSUME \A m \in Names : history'[m].starts = history[m].starts,
               pending' \subseteq pending, UNCHANGED <<stored, deleted>>
        PROVE  ChainInv'
    BY <1>0, <1>2, ChainRests DEF Seen
  <1>3. ASSUME NEW n \in Names, StopCommand(n) \/ CheckCommand(n) \/ DeleteProcess(n),
               UNCHANGED deleted
        PROVE  ChainInv'
    <2>1. \A m \in Names : history'[m].starts = history[m].starts
      BY <1>0, <1>3, StartsKept DEF StopCommand, WatchStop, CheckCommand, DeleteProcess
    <2> QED BY <1>2, <1>3, <2>1 DEF StopCommand, CheckCommand, DeleteProcess
  <1>4. ASSUME NEW e \in pending, Throws(e)
        PROVE  ChainInv'
    BY <1>2, <1>4 DEF Throws
  <1>5. ASSUME NEW e \in pending, NEW got \in SUBSET Produced, Ends(e, got)
        PROVE  ChainInv'
    <2>1. e \in Interests /\ e.name \in Names
      BY <1>0 DEF Interests
    <2>2. /\ \A d \in got : Matches(d, e) /\ d.name = e.name /\ d \in Packet
          /\ stored' = stored \cup got /\ deleted' = deleted /\ state' = state
          /\ Seen' = Seen \cup got
      BY <1>5, WatchAssumption DEF Ends, Matches, Seen
    <2>3. \A m \in Names : history'[m].starts = history[m].starts
      <3>1. \/ history' = history \/ history' = StoppedHistory(e.name)
            \/ history' = [history EXCEPT ![e.name].sent = Bump(@)]
        BY <1>5 DEF Ends, Dropped, WatchEnded, WatchStop, GoesOn
      <3>2. /\ \A m \in Names : StoppedHistory(e.name)[m].starts = history[m].starts
            /\ \A m \in Names :
                  [history EXCEPT ![e.name].sent = Bump(@)][m].starts = history[m].starts
        BY <1>0, <2>1, StartsKept
      <3> QED BY <3>1, <3>2
    <2>4. \A f \in pending' : \/ f \in pending /\ f # e
                             \/ Narrower(f, e, got)
      BY <1>5 DEF Ends, Dropped, WatchEnded, GoesOn
    <2>5. ASSUME NEW f1 \in pending', NEW f2 \in pending', Narrower(f1, e, got), Narrower(f2, e, got),
                 f1 \notin pending \/ f1 = e, f2 \notin pending \/ f2 = e
          PROVE  f1 = f2
      BY <1>5, <2>5 DEF Ends, Dropped, WatchEnded, GoesOn
    <2>6. history[e.name].starts # 0
      BY <1>0, <2>1 DEF ChainInv, NothingYet
    <2>7. ASSUME NEW m \in Names, history[m].starts <= 1
          PROVE  OneChain(m)'
      <3>1. OneChain(m)
        BY <2>7 DEF ChainInv
      <3>2. CASE m # e.name
        <4>1. \A f \in pending' : f.name = m => f \in pending
          BY <2>4, <3>2 DEF Narrower
        <4>2. \A f \in pending', d \in Seen' : f.name = m => ~Matches(d, f)
          BY <2>2, <3>1, <3>2, <4>1 DEF OneChain, Matches
        <4> QED BY <3>1, <4>1, <4>2 DEF OneChain, Matches
      <3>3. CASE m = e.name
        <4>1. \A f \in pending' : f.name = m => Narrower(f, e, got) /\ (f \notin pending \/ f = e)
          BY <2>4, <3>1, <3>3 DEF OneChain
        <4>2. \A f \in pending', d \in Seen' : f.name = m => ~Matches(d, f)
          BY <1>0, <2>2, <3>1, <3>3, <4>1 DEF OneChain, Narrower, Seen
        <4>3. \A f1, f2 \in pending' : f1.name = m /\ f2.name = m => f1 = f2
          BY <2>5, <4>1
        <4> QED BY <4>2, <4>3 DEF OneChain, Matches
      <3> QED BY <3>2, <3>3
    <2>8. ASSUME NEW m \in Names, history[m].starts = 0
          PROVE  NothingYet(m)'
      <3>1. m # e.name /\ NothingYet(m)
        BY <2>6, <2>8 DEF ChainInv
      <3> QED BY <2>2, <2>4, <3>1 DEF NothingYet, Narrower
    <2>9. DeletedStaysDeleted'
      <3>1. \A d \in deleted \cap got : history[d.name].starts > 1
        BY <1>0, <2>1, <2>2 DEF ChainInv, OneChain, Seen
      <3> QED BY <1>0, <2>2, <2>3, <3>1 DEF DeletedStaysDeleted, ChainInv, Seen
    <2> QED BY <1>0, <2>2, <2>3, <2>7, <2>8, <2>9 DEF ChainInv
  <1>6. ASSUME NEW gone \in SUBSET stored, Deletes(gone)
        PROVE  ChainInv'
    BY <1>0, <1>6, ChainRests DEF Deletes, watchVars, Seen
  <1>7. CASE TimePasses /\ UNCHANGED deleted
    BY <1>2, <1>7 DEF TimePasses
  <1>8. CASE UNCHANGED deleteVars
    BY <1>2, <1>8 DEF deleteVars, vars, watchVars
  <1> QED BY <1>0, <1>1, <1>3, <1>4, <1>5, <1>6, <1>7, <1>8, WatchCases

-----------------------------------------------------------------------------
(***************************************************************************)
(* Initially nothing is watched, in flight, due, stored or deleted.        *)
(***************************************************************************)
LEMMA InitType == DeleteInit => WatchType
  <1> SUFFICES ASSUME DeleteInit PROVE WatchType
    OBVIOUS
  <1>1. DOMAIN watches \subseteq Names /\ watches \in [DOMAIN watches -> Process]
    BY DEF DeleteInit, WatchInit
  <1>2. interestNum \in 0..(MaxCount + 1) /\ maxInterestNum \in 0..MaxCount
    BY WatchAssumption DEF DeleteInit, WatchInit
  <1>3. state \in {"up", "threw", "hangs", "aborted"} /\ timed \in BOOLEAN /\ elapsed \in BOOLEAN
    BY Zenon DEF DeleteInit, WatchInit
  <1>4. pending \subseteq Interests /\ stored \subseteq Packet
    BY DEF DeleteInit, WatchInit
  <1>5. BagToSet(deleting) \subseteq Names
    BY DEF DeleteInit, WatchInit, EmptyBag, SetToBag, BagToSet
  <1>6. NoHistory \in HistoryType
    BY WatchAssumption DEF NoHistory, HistoryType
  <1>7. history \in [Names -> HistoryType]
    BY <1>6 DEF DeleteInit, WatchInit
  <1> QED BY <1>1, <1>2, <1>3, <1>4, <1>5, <1>7 DEF WatchType, WatchTypeOK

LEMMA InitQuiet ==
    ASSUME DeleteInit, NEW n \in Names
    PROVE  /\ ~Watching(n) /\ history[n] = NoHistory
           /\ pending = {} /\ stored = {} /\ deleted = {} /\ state = "up"
  BY DEF DeleteInit, WatchInit, Watching

LEMMA InitInv ==
    DeleteInit => /\ WatchingHasInterest /\ AcceptedWatchRuns /\ NoRemovalDue
                  /\ LimitKept /\ LimitCounts /\ ChainInv
  <1> SUFFICES ASSUME DeleteInit
               PROVE  /\ WatchingHasInterest /\ AcceptedWatchRuns /\ NoRemovalDue
                      /\ LimitKept /\ LimitCounts /\ ChainInv
    OBVIOUS
  <1>1. WatchingHasInterest /\ LimitCounts
    BY InitQuiet DEF WatchingHasInterest, LimitCounts
  <1>2. \A n \in Names : ~history[n].wanted /\ history[n].limit = 0
    BY InitQuiet DEF NoHistory
  <1>3. AcceptedWatchRuns /\ NoRemovalDue /\ LimitKept
    BY <1>2 DEF AcceptedWatchRuns, NoRemovalDue, LimitKept
  <1>4. pending = {} /\ stored = {} /\ deleted = {} /\ state = "up"
    BY DEF DeleteInit, WatchInit
  <1>5. ChainInv
    BY <1>4 DEF ChainInv, OneChain, NothingYet, Seen, DeletedStaysDeleted
  <1> QED BY <1>1, <1>3, <1>5

(***************************************************************************)
(* Every variable of the watches has its type, whatever arrives, and in    *)
(* particular the counts stay within the bound at which they saturate.     *)
(***************************************************************************)
THEOREM WatchTypeCorrect == DeleteSpec => []WatchTypeOK
  <1>1. WatchType /\ [DeleteNext]_deleteVars => WatchType'
    BY WatchTypeStep
  <1>2. WatchType => WatchTypeOK
    BY DEF WatchType
  <1> QED BY <1>1, <1>2, InitType, PTL DEF DeleteSpec

LEMMA WatchTyped == DeleteSpec => []WatchType
  <1>1. WatchType /\ [DeleteNext]_deleteVars => WatchType'
    BY WatchTypeStep
  <1> QED BY <1>1, InitType, PTL DEF DeleteSpec

(***************************************************************************)
(* No watch stalls: a name that a check reports as running always has an   *)
(* Interest in flight, for any number of watches and chains.               *)
(***************************************************************************)
THEOREM NoWatchStalls == DeleteSpec => []WatchingHasInterest
  <1>1. WatchType /\ WatchingHasInterest /\ [DeleteNext]_deleteVars => WatchingHasInterest'
    BY HasInterestStep
  <1> QED BY <1>1, InitInv, WatchTyped, PTL DEF DeleteSpec

(***************************************************************************)
(* Only its limit, its timeout or a stop command ends an accepted watch    *)
(* that did not inherit the removal of an earlier one.                     *)
(***************************************************************************)
THEOREM WatchesRun == DeleteSpec => []AcceptedWatchRuns
  <1>1. WatchType /\ AcceptedWatchRuns /\ NoRemovalDue /\ [DeleteNext]_deleteVars
            => (AcceptedWatchRuns /\ NoRemovalDue)'
    BY AcceptedStep
  <1> QED BY <1>1, InitInv, WatchTyped, PTL DEF DeleteSpec

(***************************************************************************)
(* An undisturbed watch sends no more Interests than its command allows,   *)
(* for every limit, although all watches count with the same counter.      *)
(***************************************************************************)
THEOREM WatchLimit == DeleteSpec => []LimitKept
  <1>1. WatchType /\ LimitKept /\ LimitCounts /\ [DeleteNext]_deleteVars
            => (LimitKept /\ LimitCounts)'
    BY LimitStep
  <1> QED BY <1>1, InitInv, WatchTyped, PTL DEF DeleteSpec

(***************************************************************************)
(* One chain of Interests never asks twice for a packet: the Interest in   *)
(* flight of a name watched once matches none that the chain has brought,  *)
(* whether it was deleted since or not.                                    *)
(***************************************************************************)
LEMMA ChainAlways == DeleteSpec => []ChainInv
  <1>1. WatchType /\ ChainInv /\ [DeleteNext]_deleteVars => ChainInv'
    BY ChainStep
  <1> QED BY <1>1, InitInv, WatchTyped, PTL DEF DeleteSpec

(***************************************************************************)
(* So an Interest asks for something the storage has - which insertData    *)
(* would refuse, and the handler throw - only after a second start of the  *)
(* name, for any number of names, packets and chains.                      *)
(***************************************************************************)
THEOREM OneChainAsksForNews == DeleteSpec => []AsksForNews
  <1>1. WatchType /\ ChainInv => AsksForNews
    <2> SUFFICES ASSUME WatchType, ChainInv, NEW e \in pending, NEW d \in stored, Matches(d, e)
                 PROVE  history[e.name].starts > 1
      BY DEF AsksForNews
    <2>1. e.name \in Names /\ d \in Seen
      BY DEF WatchType, WatchTypeOK, Interests, Seen
    <2>2. history[e.name].starts \in Nat
      BY <2>1 DEF WatchType, HistoryType
    <2>3. ~OneChain(e.name)
      BY <2>1 DEF OneChain
    <2> QED BY <2>1, <2>2, <2>3 DEF ChainInv
  <1> QED BY <1>1, ChainAlways, WatchTyped, PTL

(***************************************************************************)
(* The packets that DeleteHandle deleted.                                  *)
(***************************************************************************)
THEOREM DeletionLasts == DeleteSpec => []DeletedStaysDeleted
  <1>1. ChainInv => DeletedStaysDeleted
    BY DEF ChainInv
  <1> QED BY <1>1, ChainAlways, PTL
=============================================================================
