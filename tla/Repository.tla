------------------------------ MODULE Repository ------------------------------
(***************************************************************************)
(* What the repository promises, without its handlers: it keeps keys       *)
(* across restarts, and before a key is stored it has undertaken to        *)
(* listen to a prefix of it.  Prefixes are served one at a time, as the    *)
(* forwarder accepts them; a refusal cuts the repository off from the      *)
(* forwarder, and nothing is stored or served any more until a restart.    *)
(*                                                                         *)
(* Module FastRepo is shown to implement this one.                         *)
(***************************************************************************)
EXTENDS NdnNames

CONSTANT ConfigPrefixes     \* the data prefixes of the configuration file

VARIABLES
    stored,     \* the keys in the database
    phase,      \* of the connection to the forwarder
    promised,   \* prefixes the repository has undertaken to listen to
    serving     \* those the forwarder has accepted

repositoryVars == <<stored, phase, promised, serving>>

Phases == {"closed", "open", "cut off"}

RepositoryInit ==
    stored = {} /\ phase = "closed" /\ promised = {} /\ serving = {}

(***************************************************************************)
(* A key that no other key continues.  The name "/" is a key like another, *)
(* but no prefix is ever derived from it.                                  *)
(***************************************************************************)
Leaf(k) == k # << >> /\ \A other \in stored : ~IsStrictPrefix(k, other)

(***************************************************************************)
(* A start: whatever was stored before, the repository undertakes to       *)
(* listen to the configured prefixes and to a prefix of every leaf key.    *)
(***************************************************************************)
Open ==
    /\ phase = "closed" /\ phase' = "open"
    /\ ConfigPrefixes \subseteq promised'
    /\ \A k \in stored : Leaf(k) => Covered(promised', k)
    /\ UNCHANGED <<stored, serving>>

(***************************************************************************)
(* One more key, or one more prefix, or both: never a key without a        *)
(* prefix.                                                                 *)
(***************************************************************************)
Accept ==
    /\ phase = "open"
    /\ stored \subseteq stored' /\ promised \subseteq promised'
    /\ \A k, l \in stored' \ stored : k = l
    /\ \A p, q \in promised' \ promised : p = q
    /\ \A k \in stored' \ stored : Covered(promised', k)
    /\ UNCHANGED <<phase, serving>>

Serve ==
    /\ phase = "open"
    /\ \E p \in promised : serving' = serving \cup {p}
    /\ UNCHANGED <<stored, phase, promised>>

CutOff ==
    /\ phase = "open" /\ phase' = "cut off"
    /\ UNCHANGED <<stored, promised, serving>>

(***************************************************************************)
(* The process ends, in order or not: the keys remain.                     *)
(***************************************************************************)
Close ==
    /\ phase # "closed" /\ phase' = "closed"
    /\ promised' = {} /\ serving' = {}
    /\ UNCHANGED stored

RepositoryNext == Open \/ Accept \/ Serve \/ CutOff \/ Close

RepositorySpec == RepositoryInit /\ [][RepositoryNext]_repositoryVars
=============================================================================
