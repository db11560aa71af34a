# A TLA+ model of fast-repo

fast-repo is a repository of NDN data packets on top of RocksDB.  It fetches
packets when it is told to (commands), stores them under their names, and serves
them to whoever asks.  This directory holds TLA+ modules of it, TLC
configurations that check them on small instances, and theorems that TLAPS has
checked for all instances.

    tlc -config MCFastRepo.cfg MCFastRepo        # one of the runs below
    tlapm FastRepo_proofs.tla                    # the proofs about the process

Paths below are relative to `src/` of the repository's tree
(`storage/storage-engine.cpp` is `src/src/storage/storage-engine.cpp` in
`PROJECT.json`).

## 1. The system

One process, one thread: `main()` constructs everything, then calls
`io_service::run()`.  Every callback of the Face (Interest, Data, timeout,
answer to a registration), every delayed call and everything posted is executed
by that thread, one after the other.  So a handler is one atomic step, and all
the concurrency is in the order of the steps.

| Component | State it keeps | Operations | Talks to |
|---|---|---|---|
| `FastRepo` (`main.cpp`, `repo/fast-repo.*`) | `config_.dataPrefixes`, what is posted | start, scan, `enableListening`, `onDataInsertion`, `terminate` | all; the forwarder through `registerPrefix` |
| `StorageEngine` (`storage/`) | the database (outlives the process), `keysTrie_`, `keysTrieBuilt_`, `stats_` | `put`, `get`, `read`, `scanForLongestPrefixes` | RocksDB |
| `WriteHandle` | `m_processes` | insert command, data, timeout | storage, Face, signal `onDataInsertion` |
| `PatternHandle`, `CounterPattern` | `patterns_`, and in each object `running_`, `counter_`, `fetchPrefix_` | pattern command, cancel command, `doFetch`, `onData` | storage, Face (`callLater`, `expressInterest`), signal `onDataInsertion` |
| `ReadHandle` | none | `onInterest`, `listen`, `onRegisterFailed` | storage, Face |
| `StatusHandle` | the sources, `statusNamespace_` | poll the sources, publish | repository, pattern handler, CNL |
| `BaseHandle` | none | `reply`, `negativeReply`, `generateProcessId`, `extractParameter` | Face |
| `PatternFactory` | the known patterns | `create` | |
| `NdnrtcPattern`, `GeneralizedObjectPattern` | `streamRecorder_`; nothing | `fetch`, `cancel`, `getStatusReport` | libndnrtc |
| `examples/pattern-fetch.cpp`, `pattern-cancel.cpp` | whether they wait | send a command, take the reply or the timeout | `PatternHandle`, over the network |
| segmented insert of `WriteHandle` (`#if 0`) | for each process: credit, queue of segments, retries, end | insert and check commands, segment data, timeout | storage, Face, scheduler |
| `WatchHandle` (`#if 0`) | the watches; for all of them together: limits, number of Interests | start, stop, check, data, timeout, delayed removal | storage, Face, scheduler |
| `DeleteHandle` (`#if 0`) | none | three forms of deletion | storage |

What is hard in it:

* **Callbacks that outlive what they refer to.**  `CounterPattern` binds `this`
  into delayed calls and Interests; a cancel frees the object while they are due.
  The next pattern may be allocated at the same address.
* **Loss.**  A pattern's Interest has no timeout callback and no retry; an
  insert's Interest has one handler for timeout and nack.
* **Partial failure.**  A put can fail after the client was told 100; a
  registration can fail after the key was stored.
* **Restart.**  Which prefixes to register is recomputed from the keys alone.
* **A list that suppresses work.**  `onDataInsertion` registers nothing for a name
  below a prefix in `dataPrefixes`, whatever became of that prefix.
* **Text against components.**  The database is ordered by, and searched with,
  the text of names.
* **Clients that give up.**  A command or its reply can be lost or late; the
  repository then does what nobody waits for any more.
* **Exceptions out of callbacks.**  The status report of a pattern is parsed as
  JSON, which that of a `CounterPattern` is not, and dereferences a recorder that
  need not exist.  The dormant watch handler throws when an insertion fails.
* **Flow control.**  A segmented insert has a number of credits, a queue, a table of
  retries and an end that packets can lower; all four must agree.
* **Shared limits.**  All watches share one limit, one clock and one count.

What makes each component correct: every stored key is, or becomes, reachable
through a registered prefix (`FastRepo`); the trie's prefixes cover the keys
(`StorageEngine`); a process is in the table exactly as long as it can still do
something (`WriteHandle`); the table, the objects and the callbacks of patterns
agree, and a pattern fetches its names in order without a gap (`PatternHandle`); a
read returns what the Interest matches (`ReadHandle`); the parts of a status agree
and stay true (`StatusHandle`); clients that got an answer know what is in the table
(the two programs); a segmented insert passes over no segment, reports success only
when all is stored, and ends; a watch keeps an Interest in flight until something
ends it, and asks for nothing twice.  `PROJECT.json` lists the hazards one by one, with
the property that guards each or the reason why there is none.

## 2. The modules

    NdnNames <- NameTrie <- StorageEngine <- ReadHandle
    NdnNames <- Face

    StorageEngine, Face <- WriteHandle ------.
    StorageEngine, Face <- PatternHandle <---+-- FastRepo <- StatusHandle
                                ^                   |
                           PatternClient            | implements
                                                    v
                                               Repository

    SegmentedInsert            WatchHandle <- DeleteHandle

    StorageEngine_proofs <- FastRepo_proofs <- Refinement_proofs
                                           <- StatusHandle_proofs
    StorageEngine_proofs <- PatternHandle_proofs
    StorageEngine_proofs <- ReadHandle_proofs

    SegmentedInsert_proofs     WatchHandle_proofs

(`A <- B`: B extends A.  Each proof module also extends the module it proves about;
`PatternHandle_proofs` that is `PatternClient`, `WatchHandle_proofs` `DeleteHandle`.)

* **NdnNames** - names as sequences of components; `Covered` is the loop of
  `onDataInsertion` over `isPrefixOf`.
* **NameTrie** - the trie of keys.  A node is the path to it.  `Descend` is the
  loop of `getLongestPrefixes`; `LongestPrefixes` is the same set without the
  loop, and is what the other modules use.
* **StorageEngine** - `db` is the set of keys; payloads matter to nothing
  modelled.  `Put(d, ok)` is `put` with the status of `DB::Put`, `PutResult` the
  name it returns, `BuildKeyTrie` the scan.
* **Face** - the part of `ndn::Face` the handlers rely on: `pit`, the Interests
  they have expressed, each with the callback it was given; `calls`, how many
  delayed `doFetch` are due for each object; `reply`, the last command reply.
* **WriteHandle** - one action for each outcome of a handler: `MalformedInsert`,
  `InsertCommand`, `InsertTimeout`, `InsertDataDropped`, `InsertData`.
* **PatternHandle** - commands, the fetch loop, and memory: `heap` holds the
  fields of the object at each address, also after it was freed, and `allocated`
  says which are alive.  A callback on a freed object either ends the process
  (`DanglingCallbackCrash`) or acts on what is at the address: the fields as they
  were when the object was freed, or those of a later object.  The patterns of
  optional libraries are in the same table (`others`): an `NdnrtcPattern` may have
  a recorder, which hands packets to the storage whenever it likes
  (`RecorderData`), or none; a `GeneralizedObjectPattern` does nothing.
* **PatternClient** - the two programs that command the pattern handler, and a
  network that delays and loses commands and replies.
* **FastRepo** - the process.  `Start` and `Stop` (signal, crash, escaping
  exception), the posted scan and registrations, the forwarder's answers, and the
  steps of the two handlers composed with `onDataInsertion`.
* **Repository** - what the whole promises, without handlers: stored keys, promised
  prefixes, served prefixes, and whether it is connected.  `FastRepo` says under which
  mapping it implements it (`R`): `db` are the stored keys, `dataPrefixes` the
  promises once the scan has run, `registered` what is served, and the phase comes
  from the scan and the Face.
* **ReadHandle** - the read path.  Alone among the modules it gives components a
  text, because the database is ordered by text.
* **StatusHandle** - a poll of the status on top of `FastRepo`.
* **SegmentedInsert** - a process of the segmented insert, from its command to its
  removal, with `SegmentNo` as numbers that wrap.  `ObjectAssumption` says what producers
  are trusted with (section 4).
* **WatchHandle**, **DeleteHandle** - the other two handlers inherited from repo-ng.
  A watch is a chain of Interests, each with what it excludes.  The two modules have
  one next-state relation, because what matters of a deletion is what the watch
  does afterwards.  `state` says whether the process lives or how it ended: by the
  exception that follows an insertion which failed, because the storage has the packet
  or for a reason of its own (`OnDataThrows`); in the loop over segments that does not
  end (`DeleteSegmentsHangs`); or by the assertion for a segmented deletion without a
  last segment (`DeleteSegmentsUnbounded`), which a build may also leave out.
* **MC*** - instances for TLC.  **`*_proofs`** - theorems.

`SegmentedInsert`, `WatchHandle` and `DeleteHandle` model code between `#if 0` and
`#endif`: repo-ng functionality that, says the README of the repository (lines 13-29),
is still to be ported.  The models are there to know, before that, what it does.

In each module a definition marked *Mutant* is a changed version of the one that
follows it.  No specification uses it; substituted for the original it makes the
property named in `PROJECT.json` fail, which shows that the property depends on
that code.

Variables that are not in the program, and are there to state properties:
`history` (PatternHandle: was an address free of old callbacks when the object was
allocated; has an Interest of it been lost), `collided` (WriteHandle: ids drawn
while in use), `decided` (PatternClient: what the handler replied), `command`,
`invalid`, `refused` (SegmentedInsert: the command, and the packets that came and
were not inserted), `history` (WatchHandle: what the last watch of a name was
promised) and `deleted` (DeleteHandle).  None enables or disables an action, with two
exceptions that bound an instance: `history` of WatchHandle counts the starts
against `MaxStarts`, and `command` says whether a segmented insert has a time limit.

## 3. The runs

| Run | What is asked | Bounds |
|---|---|---|
| `write` | no process leaks, even when ids collide; a packet is only dropped for a collided id; each process ends | 3 Interests, 2 ids, 3 packets, one of which continues another; puts may fail |
| `client` | table, objects and prefixes agree; the fetch loop is single and leaves no gap; starts and cancels balance; clients that got answers know the table; patterns and clients end | 3 clients, 1 prefix, 1 address, so that a new pattern always gets the old one's callbacks; 2 Interests, 2 packets a pattern, a start is allowed while one call is due; recorders |
| `repo` | new keys and leaf keys are covered; the list of prefixes tells the truth; `Repository` is implemented | 1 command prefix, 1 insert name, 1 prefix for patterns of two kinds, crashes, failing puts and registrations |
| `status` | the list of a status covers the keys it counts, and stays true; a stored key becomes reachable, also after a restart | 2 command prefixes; the patterns' name is above the insert's; recorders without a stream and generalized objects; puts succeed |
| `read` | at most one answer, an answer when there is one, and the right one; the loop of the trie computes `LongestPrefixes` | 7 names over 4 components whose texts overlap before and after the slash; 19 Interests |
| `segmented` | credits, assertions, no gap, 200 means stored, ends | 8 segment numbers, 4 of which are produced, credit 2, one retry |
| `watch` | a watch has an Interest, runs, keeps its limit, ends; nothing is asked for or fetched twice | any insertion may fail; 2 names, 2 starts in all, 2 chains, limits 1 and 2, a timeout, 3 packets |

Why these bounds are enough: the properties relate one key to one prefix, one
process to one Interest, one object to its callbacks, or one watch to another that
shares its limits; two of each (three Interests, for two processes that share an id
while a third is separate; three clients, for a start, a cancel and a start again)
show every conflict between them.  A pattern of two packets has a first, a next and
a last one.  Seven names give each of the cases of the text comparison: equal,
longer by components, longer by text before the slash, and after it.  Eight segment
numbers are the object, two numbers behind it for a command that asks for too much,
and two at the end of the range where the arithmetic wraps; a credit of 2 leaves
both a segment in flight and one to be sent.  The proofs remove the bounds for the
safety properties of all seven runs (section 4).

Five runs are meant to fail.  Each checks what the repository's own words say,
and TLC's counterexample is what the code does instead:

| Run | The words | The code |
|---|---|---|
| `restart` | README.md:7, "automatically registers prefixes for the data it has" | `isLeaf` is never set (`storage-engine.cpp:123`), so the descent goes past a key with one continuation; after a restart that key is below no registered prefix |
| `failed_put` | `storage-engine.hpp:39`, put returns "Name of the key, under which data was inserted" | a failed put returns `Name()`, which `write-handle.cpp:125` announces: the repository registers `/` and announces nothing more |
| `pattern_cancel` | `base-pattern.hpp:48`, "fetching must be cancelled immediately" | `onData` does not read `running_`; a late packet is stored, through a freed object |
| `read_text` | README.md:5, "performs longest prefix match" | `starts_with` compares texts (`storage-engine.cpp:338`): `/x` is answered with `/xy` |
| `status_poll` | `base-pattern.hpp:54`, `getStatusReport` "shall return JSON dictionary" | that of a `CounterPattern` is a line of text (`counter-pattern.cpp:62`), so while one is in the table - it stays there when it has finished - `json::parse` throws an exception that `publishStatus` does not catch, and no status is published |

Smaller disagreements seen while reading, for which no run is kept:

* when an Interest gives both suffix limits, one satisfied limit is enough
  (`storage-engine.cpp:347-352`; `ReadMatchesWhenApart` therefore speaks of Interests
  with at most one);
* the cancel of an unknown prefix answers 402 where the comment says 404
  (`pattern-handle.cpp:179-182`); a duplicate is refused as "already active" although
  the pattern may have finished (`pattern-handle.cpp:125`);
* `getKeysNum` promises the "total number of keys" and gives that of the last scan
  (`storage-engine.hpp:77`);
* a fetch command for a prefix that is no ndnrtc stream is answered 100, and the
  status report then dereferences a null pointer (`ndnrtc-pattern.cpp:53` and `71`;
  `StatusHandle!OnObjectNeededCrashes`);
* `watch-handle.hpp:37-39` lets each watch stop at its own number of Interests or time;
  both are members of the handler, which the start of another watch replaces and the
  stop of any name, watched or not, clears;
* `watch-handle.cpp:165` means to exclude only the packet that failed validation and
  excludes all before it as well (`excludeBefore`); the number of packets that a check
  reports counts those of all watches, and misses the last one, `onRunning` returning
  first (`watch-handle.cpp:104` and `136`);
* a deletion up to the largest segment number never ends (`delete-handle.cpp:156`), one
  without a last segment ends the process by an assertion (`delete-handle.cpp:167`), a
  segment whose deletion failed counts as deleted (`delete-handle.cpp:159`, -1 is true),
  and a command without a process id is carried out and answered 403;
* a segmented insert whose start is within a credit of the largest segment number
  sends nothing and stays (`write-handle.cpp:326`), as does one that received a packet
  it could not insert (`write-handle.cpp:270`); one without an end that sends an
  Interest beyond the final block before it learns of it is failed by that Interest's
  timeouts, with everything stored.

### Fairness

* `write`, `client`: the Face ends every pending Interest, by an answer or
  by the timeout of 4 s, and makes every delayed call.  This is weak fairness of
  *ending* the Interest: nothing is assumed about which way.  In particular no
  Interest has to be answered and no command has to arrive.  For a client the same
  is assumed of its one Interest: it gets the reply or the timeout.
* `status`: the io_service runs what was posted, and the Face calls one of the
  two callbacks of each registration.  Weak fairness of `Registration` as a whole
  suffices, because nothing adds registrations for ever: there are finitely many
  names.  Success is not assumed, and the process may stop at any time.
* `segmented`: the Face ends the Interests for each segment, and the scheduler
  calls `deleteProcess`.  The time limit of an insert without an end is not assumed
  to pass: check commands can put it off for ever.
* `watch`: the Face ends the Interest of each chain, and time passes; the scheduler
  is not assumed to run.

`CHECK_DEADLOCK` is off where the system may stop: in `client` and `pattern_cancel`
the process may crash, and the clients are finitely many; in `watch` the process may
end by an exception or an assertion, or hang in a loop.

## 4. The proofs

Every invariant that a passing run checks is also a theorem, for every value of the
constants.  Assumed are the named assumptions on the constants, which say that names
are sequences of components, that a pattern fetches at least one packet, that
different counters have different texts, that the kinds of optional patterns are the
two there are, that there are finitely many clients, that the texts of components are
not empty, differ and have no slash, and what commands can ask for.  Nothing is
assumed of how many names, packets, Interests, ids, addresses, command prefixes,
segments and watches there are.

One assumption, `ObjectAssumption` of `SegmentedInsert`, is about the producers and not
about this program: a FinalBlockId is not below the number of a packet that exists, nor
the largest SegmentNo, and no packet is within a credit of that.  NDN's naming of
segments means as much, but nothing in the code enforces it, and it is needed: the
handler trusts each FinalBlockId that arrives, so one that lies below other packets
makes it answer 200 for less than was produced, and segment numbers near 2^64 - 1
would wrap around in `++nextSegment`.

`StorageEngine_proofs` proves facts about prefixes of sequences and two theorems about
the trie, for any set of keys (the second for a finite one).

* `LeafKeyCovered`: a non-empty name that no other continues is below one of the
  longest prefixes.  Such a name is a leaf, so it does not have exactly one child;
  among the nodes on its path that do not, the shortest one (it exists because
  lengths are natural numbers) is a longest prefix.
* `LoopMeetsDescription`: the loop of `getLongestPrefixes` computes `LongestPrefixes`.
  `EndsAt` says where a descent ends: at a node without an only child, past none but
  nodes that have one.  A node with an only child has the ends of that child, any
  other only itself; so each node has exactly one end (otherwise take the longest
  node that has not, the lengths being bounded because the keys are finite), and the
  function that gives it is what the loop's equation says.

`FastRepo_proofs` proves of the process:

* `TypeCorrect`.  Needs `RunningHasNames` besides the types: a running pattern,
  and so every call of `doFetch` that does something, has a counter below
  `CounterEnd`.
* `NewKeysAreCovered`, `LeafKeysAreCovered`, `DataPrefixesListened`.
  `NewKeysCovered` is not inductive.  An insert announces its key in the step that
  stores it, but a packet of a pattern is stored without an announcement, possibly
  after the pattern was cancelled and the prefix forgotten.  What holds, and is
  enough, is `PatternsCovered`: the prefix of every running object, of every recorder
  *and* the name of every Interest that a pattern has pending lie below a data prefix.
  `BeforeScan` and `ScanWhileUp` say that nothing is due until the scan has run, so
  that the new list of prefixes with which a process starts does not uncover anything.
* `NoProcessLeaks`, `AcceptedInsertKeepsProcess`, from their conjunction: a process
  that leaves the table takes its Interest along, and two Interests share an id
  only if it is collided.  `WriteTypeCorrect` and `ProcessesMatchFetches` say the same of
  the write handler on its own, the specification of the `write` run.

Each invariant is proved by one lemma for the steps of the process itself, one for
those of the write handler and one for those of the pattern handler; `PatternCases`
lists what a step of the pattern handler can be.

`Refinement_proofs` proves `Refinement`: the process implements `Repository`.  The
initial states map; each step maps, under the invariant above, to one step of
`Repository` or to none: the scan to `Open` (by `LeafKeyCovered`), an insert or a
pattern's packet to `Accept` (a key with a prefix already promised, or promised in
the same step), an accepted registration to `Serve`, a refused one to `CutOff`, a stop
to `Close`.  That `Accept` never adds a key without a prefix is where the invariant is
needed, for the packets of patterns.

`PatternHandle_proofs` proves of the pattern handler, for any prefixes, addresses and
Interests, `TableIsConsistent`, `FetchLoopIsSingle` and `CountHasNoGap`.  They are one
inductive invariant together with a fact no run states by itself: the Interest that an
object without inherited callbacks has in flight asks for the name of its present
counter, and the pattern still runs.  `ClientsBalance` proves the balance of accepted
commands with clients, by what a delivered command does to the set of clients counted
and to the table (cardinalities of finite sets, which is why the clients must be
finitely many), and `HandlerServesClients` carries the handler's invariants over to that
specification.

`StatusHandle_proofs` proves `StatusTypeCorrect`, `ListCoversCount` and
`PublishedRemainsTrue` from the invariants of the process and two of its own: the
database is finite (one key is stored in a step), so that its number of keys is a
number, and the keys of the last scan are still in it.  What the list of a status covers
when it is published (`LeafKeysAreCovered`) it covers as long as the process lives, for
there is one scan in a life.

`ReadHandle_proofs` proves the read path right for any components, texts and
Interests.  Its subject is `toUri`: `Builds` describes the texts of the beginnings of a
name, each a slash and the next component longer; `UriSpells` says where in the whole
text each component stands, and that a slash or the end follows it.  From that:

* a prefix of a name has a textual prefix (`UriOfPrefix`), so the walk visits every
  match;
* the converse where no component's text continues another's (`PrefixWhenApart`): at
  the first component where two names would differ, both texts spell a component at
  the same place, and one continues the other;
* names with the same text are the same (`UriInjective`): two components spelled at one
  place of one text end at the same place, because a slash ends each.  This is also why
  the model may take the database, which is keyed by texts, as a set of names;
* the byte order is a strict total order (`PrecedesAsymmetric`, `PrecedesTransitive`,
  `PrecedesTotal`), decided at the first place where two texts differ, so that a
  finite walk has exactly one last key (`OneLastKey`, `SomeLastKey`).

`EveryReadAnswersOnce`, `NoMatchFollows` and `MatchesWhenApart` put these together under
the invariant `FiniteStore`: the database is a finite set of names.  `LoopAgrees` applies
`LoopMeetsDescription` to it.

`PatternHandle_proofs` also proves `AnswersTellTable`: when every client has its answer,
the answers are the decisions of the handler, and the balance of these tells the table.

`SegmentedInsert_proofs` proves the five invariants of the segmented insert from one,
`SegmentedInv`.  None of the five is inductive.  What makes them so is the bookkeeping:

* `BooksBalance`: the segments asked for are those from the start up to the one that
  the queue holds, or up to the last one sent when the queue is empty.  They are in
  flight, failed validation, were refused by the storage or were inserted, each of them
  one of these; `insertNum` is the number of inserted ones, `retryCounts` knows those in
  flight, and the credit in hand, the flight and the invalid packets add up.
* `RoomToSend`: segment numbers do not wrap while a segment is sent.  The last
  `m_credit` numbers belong to no packet, so those of them that were asked for are still
  in flight; with a credit free they are fewer than `m_credit`, and one number is left.
* `InsertedMeansStored` and `CompleteIsStored`: when `insertNum` reaches the length of
  the range, the inserted segments are as many as the range and lie in it, so they are
  the range (`Cardinality` of finite sets), and each of them is stored.

`WatchHandle_proofs` proves the six invariants of the watch and delete handlers.  Beside
the types, `WatchingHasInterest` is inductive (it speaks of a process that lives: the
exception of a failed insertion leaves a watch without its Interest); the others need
more:

* `WatchesRun`: a removal that is due for a name (`deleting`) belongs to an earlier watch
  of it (`NoRemovalDue`), which `clean` rules out.
* `WatchLimit`: the handler counts for all watches, so the count is that of the undisturbed
  one at least, and the last Interest is sent at the limit and not after it
  (`LimitCounts`).
* `OneChainAsksForNews`, `DeletionLasts`: with one start of a name there is one Interest
  in flight, and it matches no packet of the name that was stored, those deleted since
  included (`ChainInv`).  So of a watch started once, only a failure of the storage can
  make the handler throw.

Only model-checked: liveness (`ProcessEnds`, `RunningEnds`, `ClientsEnd`,
`NewKeysReachable`, `LeafKeysReachable`, `SegmentedEnds`, `WatchEnds`), which is out of the
prover's reach; and the five disagreements, which are counterexamples.

## 5. What is not modelled

* The bytes: encodings of commands and packets, signatures, the protobuf
  messages.  A command is well formed or not.
* Validation of packets and commands: there is none in the code (TODO).  The dormant
  handlers have it for packets, where it may succeed or fail.
* RocksDB: a put that returned `ok` is durable.  The default write options do not
  sync, so a crash of the machine can lose the last puts.
* The library: that a Face matches Data by prefix, calls one callback for each
  Interest and registration and ends an Interest at its timeout; and the cache of
  the CNL library in front of the status.
* What a recorder of libndnrtc asks for.  The model lets it deliver any packet below the
  prefix of the fetch command.  The code hands the library the stream prefix that it
  extracts from that name (`ndnrtc-pattern.cpp:35-48`); that the packets then lie below
  the command's prefix, which is the one announced, is an assumption about the library
  and the client, on which `NewKeysCovered` and the refinement rest for recorders.
* The stream pattern of `gobj-stream-pattern.*`: an empty class.
* The replies of the watch and delete handlers, and the counts of packets in them.
* The sizes in the status report, logging, the command line beyond what `Start`
  takes from it.
* The read path composed with the process: a read changes nothing, and what it
  finds depends on the database alone, which the `read` run takes from every set.

The patterns are checked with their clients rather than by themselves as well: the
handler's invariants are theorems of both specifications.

## 6. What could come next

The names, the storage, the two command handlers, the process with its restarts, the
read path, the status, the clients, the refinement and the dormant handlers are done,
with the theorems above.  What would add to it:

1. Abstract specifications of the read path and of the segmented insert, with proofs
   that these modules implement them.
2. Several segmented inserts at once over one storage, which would change what
   `refused` can be.
3. Puts that are lost in a crash, with a scan that finds fewer keys than were
   announced.
