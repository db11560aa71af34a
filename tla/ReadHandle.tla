------------------------------ MODULE ReadHandle ------------------------------
(***************************************************************************)
(* The read path: ReadHandle::onInterest and StorageEngineImpl::read.      *)
(*                                                                         *)
(* The database is ordered by the text of the names, and a prefix read is  *)
(* a walk over the keys whose text starts with the text of the Interest's  *)
(* name.  Whether that is what the Interest asked for depends on how the   *)
(* texts of components compare, so this module, alone among the modules,   *)
(* gives components a text: a sequence of characters, numbered in byte     *)
(* order.                                                                  *)
(***************************************************************************)
EXTENDS StorageEngine

CONSTANTS
    Text,           \* the escaped text of each component
    Slash,          \* the character '/'
    Interests,      \* Interests the forwarder can pass on
    Packets         \* names of the packets that can be stored

ASSUME TextAssumption ==
    /\ Slash \in Nat
    /\ Text \in [Component -> Seq(Nat \ {Slash}) \ {<< >>}]
    /\ IsInjective(Text)

(***************************************************************************)
(* getMinSuffixComponents() and getMaxSuffixComponents() are -1 when the   *)
(* Interest does not limit them.                                           *)
(***************************************************************************)
Interest == [name : Name, canBePrefix : BOOLEAN, mustBeFresh : BOOLEAN,
             min : Nat \cup {-1}, max : Nat \cup {-1}]

ASSUME InterestsAssumption == Interests \subseteq Interest
ASSUME PacketsAssumption == Packets \subseteq Name

VARIABLE answer     \* the last Interest and the set of the names sent back

readVars == <<engineVars, answer>>

(***************************************************************************)
(* Name::toUri, and the order of BytewiseComparator.                       *)
(***************************************************************************)
ToUri(n) ==
    IF n = << >> THEN << Slash >>
    ELSE FlattenSeq([i \in DOMAIN n |-> << Slash >> \o Text[n[i]]])

Precedes(s, t) ==
    \/ IsStrictPrefix(s, t)
    \/ \E i \in DOMAIN s \cap DOMAIN t :
          s[i] < t[i] /\ \A j \in 1..(i - 1) : s[j] = t[j]

(***************************************************************************)
(* Mutants: the first key of the walk; the comparison made strict.         *)
(***************************************************************************)
FirstKey(keys) == {k \in keys : \A m \in keys \ {k} : Precedes(ToUri(k), ToUri(m))}

PassesStrict(i, k) ==
    LET nSuffixComponents == Len(k) - Len(i.name) IN
    \/ i.max = -1 /\ i.min = -1
    \/ i.max # -1 /\ nSuffixComponents < i.max
    \/ i.min # -1 /\ nSuffixComponents > i.min

(***************************************************************************)
(* Of the keys of a walk the one visited last (at most one).               *)
(***************************************************************************)
LastKey(keys) == {k \in keys : \A m \in keys \ {k} : Precedes(ToUri(m), ToUri(k))}

(***************************************************************************)
(* passCheck: of two limits one that is satisfied is enough.               *)
(***************************************************************************)
Passes(i, k) ==
    LET nSuffixComponents == Len(k) - Len(i.name) IN
    \/ i.max = -1 /\ i.min = -1
    \/ i.max # -1 /\ nSuffixComponents <= i.max
    \/ i.min # -1 /\ nSuffixComponents >= i.min

(***************************************************************************)
(* Mutant: the walk does not stop where the keys no longer start with the  *)
(* name's text.                                                            *)
(***************************************************************************)
WalkToTheEnd(i) == {k \in db : ~Precedes(ToUri(k), ToUri(i.name)) /\ Passes(i, k)}

(***************************************************************************)
(* Seek to the text of the name and walk while the key starts with it; the *)
(* last key that passes is the result.                                     *)
(***************************************************************************)
Walk(i) == {k \in db : IsPrefix(ToUri(i.name), ToUri(k)) /\ Passes(i, k)}

Get(n) == {n} \cap db

Read(i) == IF i.canBePrefix THEN LastKey(Walk(i)) ELSE Get(i.name)

(***************************************************************************)
(* ReadHandle::onInterest: Interests that must be fresh are ignored, and   *)
(* so is one that finds nothing.                                           *)
(***************************************************************************)
OnInterest(i) ==
    /\ answer' = [interest |-> i, sent |-> IF i.mustBeFresh THEN {} ELSE Read(i)]
    /\ UNCHANGED engineVars

Store(d, ok) ==
    /\ Put(d, ok)
    /\ UNCHANGED <<keysTrieBuilt, scanned, answer>>

ReadInit ==
    /\ db = {} /\ keysTrieBuilt = TRUE /\ scanned = {}
    /\ \E i \in Interests : answer = [interest |-> i, sent |-> {}]

ReadNext ==
    \/ \E i \in Interests : OnInterest(i)
    \/ \E d \in Packets, ok \in PutOutcomes : Store(d, ok)

ReadSpec == ReadInit /\ [][ReadNext]_readVars

-----------------------------------------------------------------------------
(***************************************************************************)
(* PROPERTIES                                                              *)
(***************************************************************************)
ReadTypeOK ==
    /\ EngineTypeOK
    /\ answer \in [interest : Interests, sent : SUBSET Name]

(***************************************************************************)
(* What an Interest asks for, in components.                               *)
(***************************************************************************)
WithinLimits(i, k) ==
    LET nSuffixComponents == Len(k) - Len(i.name) IN
    /\ i.max # -1 => nSuffixComponents <= i.max
    /\ i.min # -1 => nSuffixComponents >= i.min

Matches(i, k) ==
    IF i.canBePrefix THEN IsPrefix(i.name, k) /\ WithinLimits(i, k) ELSE k = i.name

(***************************************************************************)
(* A handler never sends two packets, nor one that is not in the database, *)
(* and an Interest that some stored packet matches is answered, if it need *)
(* not be fresh.                                                           *)
(***************************************************************************)
ReadAnswersOnce ==
    \A i \in Interests :
        /\ Cardinality(Read(i)) <= 1
        /\ Read(i) \subseteq db
        /\ (\E k \in db : Matches(i, k)) => Read(i) # {}

(***************************************************************************)
(* Without limits a prefix read returns a key that no match follows in     *)
(* text order, whatever else shares the text.                              *)
(***************************************************************************)
ReadIsLast ==
    \A i \in Interests :
        i.canBePrefix /\ i.min = -1 /\ i.max = -1 =>
            \A sent \in Read(i), k \in db :
                Matches(i, k) => k = sent \/ Precedes(ToUri(k), ToUri(sent))

(***************************************************************************)
(* When no component's text continues another's, and at most one of the    *)
(* limits is given, the answer is one the Interest matches.                *)
(***************************************************************************)
TextsApart(k, n) ==
    \A x, y \in Range(k) \cup Range(n) : IsPrefix(Text[x], Text[y]) => x = y

ReadMatchesWhenApart ==
    \A i \in Interests :
        (i.min = -1 \/ i.max = -1) =>
            \A sent \in Read(i) : TextsApart(sent, i.name) => Matches(i, sent)

(***************************************************************************)
(* What the documentation says and the code does not do.                   *)
(* README.md: for an Interest with CanBePrefix the repository "performs    *)
(* longest prefix match" - so what it sends continues the Interest's name. *)
(***************************************************************************)
SentContinuesName == \A sent \in answer.sent : IsPrefix(answer.interest.name, sent)
=============================================================================
