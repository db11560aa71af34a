---------------------------- MODULE StorageEngine ----------------------------
(***************************************************************************)
(* StorageEngine: the wrapper of RocksDB.  The database maps the text of a *)
(* packet's name to the packet; a packet is stored under its own name, so  *)
(* the set of keys says everything about the contents except the payload   *)
(* bytes, which nothing here depends on.                                   *)
(***************************************************************************)
EXTENDS NameTrie

CONSTANTS
    RenamePrefix,   \* --rename-prefix, << >> when the option is absent
    PutOutcomes     \* the statuses DB::Put can return: TRUE for ok()

ASSUME RenamePrefixAssumption == RenamePrefix \in Name
ASSUME PutOutcomesAssumption == PutOutcomes \subseteq BOOLEAN

VARIABLES
    db,             \* keys in RocksDB; outlives the process
    keysTrieBuilt,  \* keysTrieBuilt_: buildKeyTrie has run in this process
    scanned         \* the keys buildKeyTrie has put into keysTrie_ and counted

engineVars == <<db, keysTrieBuilt, scanned>>

(***************************************************************************)
(* Mutant: the option is appended as one component instead of being parsed *)
(* as a name.                                                              *)
(***************************************************************************)
KeyUnparsedPrefix(d) == << RenamePrefix >> \o d

(***************************************************************************)
(* put() re-packages the packet under RenamePrefix when there is one.      *)
(***************************************************************************)
KeyOf(d) == RenamePrefix \o d

(***************************************************************************)
(* put(): DB::Put either succeeds, and the key is in the database and is   *)
(* returned, or returns an error status, and the caller is handed the      *)
(* empty name Name().                                                      *)
(***************************************************************************)
Put(d, ok) == db' = IF ok THEN db \cup {KeyOf(d)} ELSE db

PutResult(d, ok) == IF ok THEN KeyOf(d) ELSE << >>

(***************************************************************************)
(* keysTrie_ as buildKeyTrie leaves it.  Nothing else writes it, nor the   *)
(* count stats_.nKeys_ of its keys.                                        *)
(***************************************************************************)
keysTrie == TrieNodes(scanned)

BuildKeyTrie ==
    /\ scanned' = db
    /\ keysTrieBuilt' = TRUE
    /\ UNCHANGED db

EngineTypeOK ==
    /\ db \subseteq Name
    /\ keysTrieBuilt \in BOOLEAN
    /\ scanned \subseteq Name

-----------------------------------------------------------------------------
(***************************************************************************)
(* The loop of getLongestPrefixes: over a trie of the keys of the database *)
(* its descent ends at the nodes that LongestPrefixes describes, one for   *)
(* each first component.                                                   *)
(***************************************************************************)
LoopComputesLongestPrefixes ==
    DescentEnds(TrieNodes(db)) = LongestPrefixes(TrieNodes(db))
=============================================================================
