-------------------------- MODULE StorageEngine_proofs --------------------------
(***************************************************************************)
(* Facts about names, about the prefixes that the scan computes, and about *)
(* the keys that put() makes of the names of packets.                      *)
(***************************************************************************)
EXTENDS StorageEngine, SequenceTheorems, FiniteSetTheorems, WellFoundedInduction, TLAPS

(***************************************************************************)
(* IsPrefix, component by component.                                       *)
(***************************************************************************)
LEMMA PrefixComponents ==
    ASSUME NEW S, NEW p \in Seq(S), NEW n \in Seq(S)
    PROVE  IsPrefix(p, n) <=> Len(p) <= Len(n) /\ \A i \in 1..Len(p) : p[i] = n[i]
  BY DEF IsPrefix

(***************************************************************************)
(* isPrefixOf is reflexive and transitive, and is preserved when both      *)
(* names are put behind the same rename prefix.                            *)
(***************************************************************************)
LEMMA PrefixReflexive ==
    ASSUME NEW S, NEW n \in Seq(S)
    PROVE  IsPrefix(n, n)
  BY PrefixComponents

LEMMA PrefixTransitive ==
    ASSUME NEW S, NEW p \in Seq(S), NEW q \in Seq(S), NEW n \in Seq(S),
           IsPrefix(p, q), IsPrefix(q, n)
    PROVE  IsPrefix(p, n)
  BY PrefixComponents

LEMMA PrefixConcat ==
    ASSUME NEW S, NEW r \in Seq(S), NEW p \in Seq(S), NEW n \in Seq(S), IsPrefix(p, n)
    PROVE  IsPrefix(r \o p, r \o n)
  <1>1. Len(p) <= Len(n) /\ \A i \in 1..Len(p) : p[i] = n[i]
    BY PrefixComponents
  <1>2. /\ r \o p \in Seq(S) /\ Len(r \o p) = Len(r) + Len(p)
        /\ \A i \in 1..(Len(r) + Len(p)) :
              (r \o p)[i] = IF i <= Len(r) THEN r[i] ELSE p[i - Len(r)]
    BY ConcatProperties
  <1>3. /\ r \o n \in Seq(S) /\ Len(r \o n) = Len(r) + Len(n)
        /\ \A i \in 1..(Len(r) + Len(n)) :
              (r \o n)[i] = IF i <= Len(r) THEN r[i] ELSE n[i - Len(r)]
    BY ConcatProperties
  <1>4. Len(r) \in Nat /\ Len(p) \in Nat /\ Len(n) \in Nat
    OBVIOUS
  <1>5. Len(r \o p) <= Len(r \o n)
    BY <1>1, <1>2, <1>3, <1>4
  <1>6. ASSUME NEW i \in 1..Len(r \o p)
        PROVE  (r \o p)[i] = (r \o n)[i]
    <2>1. i \in 1..(Len(r) + Len(p)) /\ i \in 1..(Len(r) + Len(n))
      BY <1>1, <1>2, <1>4
    <2>2. i <= Len(r) \/ i - Len(r) \in 1..Len(p)
      BY <1>4, <2>1
    <2> QED BY <1>1, <1>2, <1>3, <2>1, <2>2
  <1> QED BY <1>2, <1>3, <1>5, <1>6, PrefixComponents

LEMMA PrefixAppend ==
    ASSUME NEW S, NEW p \in Seq(S), NEW x \in S
    PROVE  Append(p, x) \in Seq(S) /\ IsPrefix(p, Append(p, x))
  <1>1. /\ Append(p, x) \in Seq(S) /\ Len(Append(p, x)) = Len(p) + 1
        /\ \A i \in 1..Len(p) : Append(p, x)[i] = p[i]
    BY AppendProperties
  <1>2. \A q \in Seq(S) :
            Len(q) = Len(p) + 1 /\ (\A i \in 1..Len(p) : q[i] = p[i]) => IsPrefix(p, q)
    BY PrefixComponents
  <1> QED BY <1>1, <1>2, Zenon

LEMMA SubSeqPrefix ==
    ASSUME NEW S, NEW n \in Seq(S), NEW i \in 1..Len(n)
    PROVE  /\ SubSeq(n, 1, i) \in Seq(S) /\ Len(SubSeq(n, 1, i)) = i
           /\ IsPrefix(SubSeq(n, 1, i), n)
  <1>1. \A j \in 1..i : n[j] \in S
    OBVIOUS
  <1>2. /\ SubSeq(n, 1, i) \in Seq(S) /\ Len(SubSeq(n, 1, i)) = i
        /\ \A j \in 1..i : SubSeq(n, 1, i)[j] = n[j]
    BY <1>1, SubSeqProperties
  <1>3. \A q \in Seq(S) :
            Len(q) = i /\ (\A j \in 1..i : q[j] = n[j]) => IsPrefix(q, n)
    BY PrefixComponents
  <1> QED BY <1>2, <1>3, Zenon

LEMMA PrefixIsSubSeq ==
    ASSUME NEW S, NEW p \in Seq(S), NEW n \in Seq(S), IsPrefix(p, n)
    PROVE  p = SubSeq(n, 1, Len(p))
  <1>1. Len(p) <= Len(n) /\ \A i \in 1..Len(p) : p[i] = n[i]
    BY PrefixComponents
  <1>2. CASE p = << >>
    BY <1>2
  <1>3. CASE p # << >>
    <2>1. Len(p) \in 1..Len(n)
      BY <1>1, <1>3, EmptySeq
    <2>2. /\ SubSeq(n, 1, Len(p)) \in Seq(S)
          /\ Len(SubSeq(n, 1, Len(p))) = Len(p)
          /\ \A j \in 1..Len(p) : SubSeq(n, 1, Len(p))[j] = n[j]
      <3>1. \A j \in 1..Len(p) : n[j] \in S
        BY <2>1
      <3> QED BY <2>1, <3>1, SubSeqProperties
    <2> QED BY <1>1, <2>2, SeqEqual
  <1> QED BY <1>2, <1>3

-----------------------------------------------------------------------------
(***************************************************************************)
(* The nodes of the trie are names, and so are the prefixes it reports.    *)
(***************************************************************************)
LEMMA TrieNodesAreNames ==
    ASSUME NEW keys \in SUBSET Name
    PROVE  TrieNodes(keys) \subseteq Name
  <1>1. \A k \in keys : \A i \in 1..Len(k) : SubSeq(k, 1, i) \in Name
    BY SubSeqPrefix DEF Name
  <1> SUFFICES ASSUME NEW m \in TrieNodes(keys)
               PROVE  m \in Name
    OBVIOUS
  <1>2. PICK k \in keys : \E i \in 1..Len(k) : m = SubSeq(k, 1, i)
    BY DEF TrieNodes
  <1> QED BY <1>1, <1>2, Zenon

LEMMA LongestPrefixesAreNames ==
    ASSUME NEW keys \in SUBSET Name
    PROVE  LongestPrefixes(TrieNodes(keys)) \subseteq Name
  BY TrieNodesAreNames DEF LongestPrefixes

(***************************************************************************)
(* The prefixes of a node, the empty one aside, are nodes, and are the     *)
(* first components of the node.                                           *)
(***************************************************************************)
LEMMA NodePrefixes ==
    ASSUME NEW keys \in SUBSET Name, NEW k \in keys,
           NEW m \in TrieNodes(keys), IsPrefix(m, k)
    PROVE  Len(m) \in 1..Len(k) /\ m = SubSeq(k, 1, Len(m))
  <1>1. PICK l \in keys : \E i \in 1..Len(l) : m = SubSeq(l, 1, i)
    BY DEF TrieNodes
  <1> PICK i \in 1..Len(l) : m = SubSeq(l, 1, i)
    BY <1>1
  <1>2. m \in Seq(Component) /\ Len(m) = i /\ k \in Seq(Component) /\ l \in Seq(Component)
    BY <1>1, SubSeqPrefix DEF Name
  <1>3. Len(m) <= Len(k) /\ m = SubSeq(k, 1, Len(m))
    BY <1>2, PrefixComponents, PrefixIsSubSeq
  <1> QED BY <1>2, <1>3

(***************************************************************************)
(* A key that no other key continues has no child in the trie.             *)
(***************************************************************************)
LEMMA LeafHasNoChild ==
    ASSUME NEW keys \in SUBSET Name, NEW k \in keys,
           \A other \in keys : ~IsStrictPrefix(k, other)
    PROVE  Children(TrieNodes(keys), k) = {}
  <1> SUFFICES ASSUME NEW m \in TrieNodes(keys), Len(m) = Len(k) + 1, IsPrefix(k, m)
               PROVE  FALSE
    BY DEF Children
  <1>1. PICK l \in keys : \E i \in 1..Len(l) : m = SubSeq(l, 1, i)
    BY DEF TrieNodes
  <1> PICK i \in 1..Len(l) : m = SubSeq(l, 1, i)
    BY <1>1
  <1>2. m \in Seq(Component) /\ IsPrefix(m, l) /\ k \in Seq(Component) /\ l \in Seq(Component)
    BY <1>1, SubSeqPrefix DEF Name
  <1>3. IsPrefix(k, l) /\ Len(m) <= Len(l)
    BY <1>2, PrefixTransitive, PrefixComponents
  <1>4. k # l
    BY <1>2, <1>3
  <1> QED BY <1>3, <1>4 DEF IsStrictPrefix

(***************************************************************************)
(* getLongestPrefixes covers every key that no other key continues: on the *)
(* path from the head to it there is a first node without an only child,   *)
(* the key itself at the latest, and that node is reported.                *)
(***************************************************************************)
THEOREM LeafKeyCovered ==
    ASSUME NEW keys \in SUBSET Name, NEW k \in keys, k # << >>,
           \A other \in keys : ~IsStrictPrefix(k, other)
    PROVE  Covered(LongestPrefixes(TrieNodes(keys)), k)
  <1> DEFINE nodes == TrieNodes(keys)
             at(i) == SubSeq(k, 1, i)
             Stops == {i \in 1..Len(k) : ~HasOnlyChild(nodes, at(i))}
  <1>1. k \in Seq(Component) /\ Len(k) \in Nat /\ Len(k) >= 1
    BY EmptySeq DEF Name
  <1>2. \A i \in 1..Len(k) : at(i) \in nodes /\ Len(at(i)) = i /\ IsPrefix(at(i), k)
    BY <1>1, SubSeqPrefix DEF TrieNodes
  <1>3. Len(k) \in Stops
    <2>1. at(Len(k)) = k
      BY <1>1, SubSeqFull
    <2>2. Children(nodes, k) = {}
      BY LeafHasNoChild
    <2>3. ~HasOnlyChild(nodes, k)
      BY <2>2 DEF HasOnlyChild
    <2>4. ~HasOnlyChild(nodes, at(Len(k)))
      BY <2>1, <2>3, Zenon
    <2>5. Len(k) \in 1..Len(k)
      BY <1>1
    <2> QED BY <2>4, <2>5, Zenon
  <1>4. PICK i \in Stops : \A j \in Stops : ~(j < i)
    <2>1. Stops \subseteq Nat /\ Stops # {}
      BY <1>3
    <2>2. PICK i \in Stops : \A j \in Stops : ~(<<j, i>> \in OpToRel(<, Nat))
      BY <2>1, NatLessThanWellFounded, WFMin
    <2>3. \A j \in Stops : j < i => <<j, i>> \in OpToRel(<, Nat)
      BY <2>1 DEF OpToRel
    <2> QED BY <2>2, <2>3
  <1>5. at(i) \in LongestPrefixes(nodes)
    <2> SUFFICES ASSUME NEW m \in nodes, IsStrictPrefix(m, at(i))
                 PROVE  HasOnlyChild(nodes, m)
      BY <1>2 DEF LongestPrefixes
    <2>1. m \in Seq(Component) /\ at(i) \in Seq(Component)
      BY <1>2, TrieNodesAreNames DEF Name
    <2>2. IsPrefix(m, at(i)) /\ m # at(i)
      BY DEF IsStrictPrefix
    <2>3. IsPrefix(m, k)
      BY <1>1, <1>2, <2>1, <2>2, PrefixTransitive
    <2>4. Len(m) \in 1..Len(k) /\ m = at(Len(m))
      BY <2>3, NodePrefixes
    <2>5. Len(m) < i
      <3>1. i \in 1..Len(k) /\ Len(at(i)) = i
        BY <1>2
      <3>2. Len(m) <= Len(at(i))
        BY <2>1, <2>2, PrefixComponents
      <3>3. Len(m) # i
        BY <2>2, <2>4
      <3> HIDE DEF at
      <3> QED BY <1>1, <2>4, <3>1, <3>2, <3>3
    <2> QED BY <1>4, <2>4, <2>5
  <1> QED BY <1>2, <1>5 DEF Covered

-----------------------------------------------------------------------------
(***************************************************************************)
(* Well-founded arguments: a set of naturals has a least member, and of a  *)
(* finite set of names none is longer than some bound, so of any of the    *)
(* nodes of its trie one is longest.                                       *)
(***************************************************************************)
LEMMA LeastNat ==
    ASSUME NEW T, T \subseteq Nat, T # {}
    PROVE  \E n \in T : \A m \in T : n <= m
  <1>1. PICK n \in T : \A m \in T : ~(<<m, n>> \in OpToRel(<, Nat))
    BY NatLessThanWellFounded, WFMin
  <1>2. \A m \in T : ~(m < n)
    BY <1>1 DEF OpToRel
  <1>3. n \in Nat /\ \A m \in T : m \in Nat /\ n <= m
    BY <1>2
  <1> QED BY <1>3

LEMMA NamesBounded ==
    ASSUME NEW keys \in SUBSET Name, IsFiniteSet(keys)
    PROVE  \E most \in Nat : \A k \in keys : Len(k) <= most
  <1> DEFINE Bounded(s) == \E most \in Nat : \A k \in s : Len(k) <= most
             Bad == {s \in FiniteSubsetsOf(Name) : ~Bounded(s)}
  <1> SUFFICES ASSUME ~Bounded(keys) PROVE FALSE
    OBVIOUS
  <1>1. keys \in Bad
    BY DEF FiniteSubsetsOf
  <1>2. PICK s \in Bad : \A r \in Bad : ~(<<r, s>> \in StrictSubsetOrdering(Name))
    <2>1. IsWellFoundedOn(StrictSubsetOrdering(Name), FiniteSubsetsOf(Name))
      BY FS_StrictSubsetOrderingWellFounded
    <2>2. Bad \subseteq FiniteSubsetsOf(Name) /\ Bad # {}
      BY <1>1
    <2> HIDE DEF Bad
    <2> QED BY <2>1, <2>2, WFMin, Zenon
  <1>3. s \subseteq Name /\ IsFiniteSet(s) /\ ~Bounded(s)
    BY <1>2 DEF FiniteSubsetsOf
  <1>4. PICK x \in s : TRUE
    <2>1. s = {} => Bounded(s)
      OBVIOUS
    <2> QED BY <1>3, <2>1
  <1> DEFINE rest == s \ {x}
  <1>5. rest \in FiniteSubsetsOf(Name) /\ <<rest, s>> \in StrictSubsetOrdering(Name)
    BY <1>3, <1>4, FS_RemoveElement DEF FiniteSubsetsOf, StrictSubsetOrdering
  <1>6. PICK most \in Nat : \A k \in rest : Len(k) <= most
    <2>1. Bounded(rest)
      BY <1>2, <1>5
    <2> QED BY <2>1
  <1> DEFINE longer == IF Len(x) <= most THEN most ELSE Len(x)
  <1>7. \A k \in s : Len(k) \in Nat
    BY <1>3, LenProperties DEF Name
  <1>8. longer \in Nat /\ Len(x) <= longer /\ most <= longer
    BY <1>4, <1>7
  <1>9. \A k \in s : Len(k) <= longer
    <2> HIDE DEF longer
    <2> SUFFICES ASSUME NEW k \in s PROVE Len(k) <= longer
      OBVIOUS
    <2>1. CASE k = x
      BY <1>8, <2>1
    <2>2. CASE Len(k) <= most
      <3>1. Len(k) \in Nat
        BY <1>7
      <3> QED BY <1>8, <2>2, <3>1
    <2> QED BY <1>6, <2>1, <2>2
  <1> QED BY <1>3, <1>8, <1>9

LEMMA PrefixNode ==
    ASSUME NEW keys \in SUBSET Name, NEW n \in TrieNodes(keys),
           NEW p \in Seq(Component), p # << >>, IsPrefix(p, n)
    PROVE  p \in TrieNodes(keys)
  <1>1. PICK k \in keys : \E i \in 1..Len(k) : n = SubSeq(k, 1, i)
    BY DEF TrieNodes
  <1>2. k \in Seq(Component) /\ n \in Seq(Component) /\ IsPrefix(n, k)
    BY <1>1, SubSeqPrefix DEF Name
  <1>3. IsPrefix(p, k)
    BY <1>2, PrefixTransitive
  <1>4. p = SubSeq(k, 1, Len(p)) /\ Len(p) \in 1..Len(k)
    BY <1>2, <1>3, PrefixIsSubSeq, PrefixComponents, EmptySeq
  <1>5. PICK j \in 1..Len(k) : p = SubSeq(k, 1, j)
    BY <1>4, Zenon
  <1> QED BY <1>5 DEF TrieNodes

LEMMA LongestNode ==
    ASSUME NEW keys \in SUBSET Name, IsFiniteSet(keys),
           NEW T, T \subseteq TrieNodes(keys), T # {}
    PROVE  \E n \in T : \A m \in T : Len(m) <= Len(n)
  <1>1. PICK most \in Nat : \A k \in keys : Len(k) <= most
    BY NamesBounded
  <1>2. \A n \in T : Len(n) \in Nat /\ Len(n) <= most
    <2> SUFFICES ASSUME NEW n \in T PROVE Len(n) \in Nat /\ Len(n) <= most
      OBVIOUS
    <2>1. PICK k \in keys : \E i \in 1..Len(k) : n = SubSeq(k, 1, i)
      BY DEF TrieNodes
    <2>2. n \in Seq(Component) /\ k \in Seq(Component) /\ IsPrefix(n, k)
      BY <2>1, SubSeqPrefix DEF Name
    <2>3. Len(n) \in Nat /\ Len(k) \in Nat /\ Len(n) <= Len(k)
      BY <2>2, PrefixComponents, LenProperties
    <2> QED BY <1>1, <2>3
  <1> DEFINE D == {most - Len(n) : n \in T}
  <1>3. PICK d \in D : \A other \in D : d <= other
    <2>1. D \subseteq Nat /\ D # {}
      BY <1>2
    <2> HIDE DEF D
    <2> QED BY <2>1, LeastNat
  <1>4. PICK n \in T : d = most - Len(n)
    BY <1>3
  <1>5. \A m \in T : most - Len(n) <= most - Len(m)
    BY <1>3, <1>4
  <1>6. \A m \in T : Len(m) <= Len(n)
    BY <1>2, <1>5
  <1> QED BY <1>6

LEMMA BothPrefixes ==
    ASSUME NEW p \in Seq(Component), NEW q \in Seq(Component), NEW n \in Seq(Component),
           IsPrefix(p, n), IsPrefix(q, n), Len(p) <= Len(q)
    PROVE  IsPrefix(p, q)
  <1>1. /\ Len(p) \in Nat /\ Len(q) \in Nat
        /\ \A i \in 1..Len(p) : p[i] = n[i]
        /\ \A i \in 1..Len(q) : q[i] = n[i]
    BY PrefixComponents, LenProperties
  <1>2. \A i \in 1..Len(p) : p[i] = q[i]
    BY <1>1
  <1> QED BY <1>2, PrefixComponents

LEMMA StrictIsShorter ==
    ASSUME NEW p \in Seq(Component), NEW n \in Seq(Component)
    PROVE  /\ Len(p) \in Nat /\ Len(n) \in Nat
           /\ IsStrictPrefix(p, n) <=> IsPrefix(p, n) /\ Len(p) < Len(n)
           /\ IsPrefix(p, n) /\ ~(Len(p) < Len(n)) => p = n
  <1>1. Len(p) \in Nat /\ Len(n) \in Nat
    BY LenProperties
  <1>2. ASSUME IsPrefix(p, n), ~(Len(p) < Len(n)) PROVE p = n
    <2>1. Len(p) = Len(n) /\ \A i \in 1..Len(p) : p[i] = n[i]
      BY <1>1, <1>2, PrefixComponents
    <2> QED BY <2>1, SeqEqual
  <1>3. ASSUME IsPrefix(p, n), Len(p) < Len(n) PROVE p # n
    BY <1>1, <1>3
  <1> QED BY <1>1, <1>2, <1>3 DEF IsStrictPrefix

(***************************************************************************)
(* The descent from a node ends at a node without an only child, past      *)
(* none but nodes that have one; there is exactly one such end, for a node *)
(* with an only child the one of that child.                               *)
(***************************************************************************)
EndsAt(nodes, n, e) ==
    /\ e \in nodes /\ IsPrefix(n, e) /\ ~HasOnlyChild(nodes, e)
    /\ \A m \in nodes : IsPrefix(n, m) /\ IsStrictPrefix(m, e) => HasOnlyChild(nodes, m)

LEMMA OnlyChildEnd ==
    ASSUME NEW keys \in SUBSET Name, NEW nodes, nodes = TrieNodes(keys),
           NEW n \in nodes, NEW c, Children(nodes, n) = {c}
    PROVE  c \in nodes /\ Len(n) < Len(c) /\ \A e : EndsAt(nodes, n, e) <=> EndsAt(nodes, c, e)
  <1>1. c \in nodes /\ Len(c) = Len(n) + 1 /\ IsPrefix(n, c) /\ HasOnlyChild(nodes, n)
    BY DEF Children, HasOnlyChild
  <1>2. \A m \in nodes : m \in Seq(Component) /\ Len(m) \in Nat
    BY TrieNodesAreNames, LenProperties DEF Name
  <1>3. ASSUME NEW e, EndsAt(nodes, n, e) PROVE EndsAt(nodes, c, e)
    <2>1. e \in nodes /\ IsPrefix(n, e) /\ e # n
      BY <1>1, <1>3 DEF EndsAt
    <2>2. Len(n) < Len(e)
      BY <1>2, <2>1, StrictIsShorter
    <2> DEFINE p == SubSeq(e, 1, Len(n) + 1)
    <2>3. p \in Seq(Component) /\ Len(p) = Len(n) + 1 /\ IsPrefix(p, e)
      <3>1. Len(n) + 1 \in 1..Len(e)
        BY <1>2, <2>1, <2>2
      <3> QED BY <1>2, <2>1, <3>1, SubSeqPrefix
    <2> HIDE DEF p
    <2>4. p \in nodes
      <3>1. p # << >>
        BY <1>2, <2>3, EmptySeq
      <3> QED BY <2>1, <2>3, <3>1, PrefixNode
    <2>5. IsPrefix(n, p)
      <3>1. Len(n) <= Len(p)
        BY <1>2, <2>3
      <3> QED BY <1>2, <2>1, <2>3, <3>1, BothPrefixes
    <2>6. p = c
      BY <2>3, <2>4, <2>5 DEF Children
    <2>7. ASSUME NEW m \in nodes, IsPrefix(c, m), IsStrictPrefix(m, e)
          PROVE  HasOnlyChild(nodes, m)
      <3>1. IsPrefix(n, m)
        BY <1>1, <1>2, <2>7, PrefixTransitive
      <3> QED BY <1>3, <2>7, <3>1 DEF EndsAt
    <2> QED BY <1>3, <2>3, <2>6, <2>7 DEF EndsAt
  <1>4. ASSUME NEW e, EndsAt(nodes, c, e) PROVE EndsAt(nodes, n, e)
    <2>1. e \in nodes /\ IsPrefix(c, e)
      BY <1>4 DEF EndsAt
    <2>2. IsPrefix(n, e)
      BY <1>1, <1>2, <2>1, PrefixTransitive
    <2>3. ASSUME NEW m \in nodes, IsPrefix(n, m), IsStrictPrefix(m, e)
          PROVE  HasOnlyChild(nodes, m)
      <3>1. CASE m = n
        BY <1>1, <3>1
      <3>2. CASE m # n
        <4>1. Len(n) < Len(m)
          BY <1>2, <2>3, <3>2, StrictIsShorter
        <4>2. Len(c) <= Len(m)
          BY <1>1, <1>2, <4>1
        <4>3. IsPrefix(m, e)
          BY <2>3 DEF IsStrictPrefix
        <4>4. IsPrefix(c, m)
          BY <1>1, <1>2, <2>1, <4>2, <4>3, BothPrefixes
        <4> QED BY <1>4, <2>3, <4>4 DEF EndsAt
      <3> QED BY <3>1, <3>2
    <2> QED BY <1>4, <2>2, <2>3 DEF EndsAt
  <1>5. Len(n) < Len(c)
    BY <1>1, <1>2
  <1> QED BY <1>1, <1>3, <1>4, <1>5

LEMMA NoOnlyChildEnd ==
    ASSUME NEW keys \in SUBSET Name, NEW nodes, nodes = TrieNodes(keys),
           NEW n \in nodes, ~HasOnlyChild(nodes, n)
    PROVE  EndsAt(nodes, n, n) /\ \A e : EndsAt(nodes, n, e) => e = n
  <1>1. \A m \in nodes : m \in Seq(Component) /\ Len(m) \in Nat
    BY TrieNodesAreNames, LenProperties DEF Name
  <1>2. IsPrefix(n, n)
    BY <1>1, PrefixReflexive
  <1>3. EndsAt(nodes, n, n)
    <2>1. ASSUME NEW m \in nodes, IsPrefix(n, m), IsStrictPrefix(m, n) PROVE FALSE
      <3>1. Len(n) <= Len(m) /\ Len(m) < Len(n)
        BY <1>1, <2>1, StrictIsShorter, PrefixComponents
      <3> QED BY <1>1, <3>1
    <2> QED BY <1>2, <2>1 DEF EndsAt
  <1>4. ASSUME NEW e, EndsAt(nodes, n, e), e # n PROVE FALSE
    <2>1. IsStrictPrefix(n, e)
      BY <1>4 DEF EndsAt, IsStrictPrefix
    <2> QED BY <1>2, <1>4, <2>1 DEF EndsAt
  <1> QED BY <1>3, <1>4

OneEndAt(nodes, n) ==
    \E e : EndsAt(nodes, n, e) /\ \A x : EndsAt(nodes, n, x) => x = e

LEMMA OneEnd ==
    ASSUME NEW keys \in SUBSET Name, IsFiniteSet(keys), NEW nodes, nodes = TrieNodes(keys),
           NEW n \in nodes
    PROVE  OneEndAt(nodes, n)
  <1> DEFINE Bad == {m \in nodes : ~OneEndAt(nodes, m)}
  <1> SUFFICES ASSUME ~OneEndAt(nodes, n) PROVE FALSE
    OBVIOUS
  <1>1. PICK m \in Bad : \A other \in Bad : Len(other) <= Len(m)
    <2>1. Bad \subseteq TrieNodes(keys) /\ Bad # {}
      OBVIOUS
    <2> HIDE DEF Bad
    <2> QED BY <2>1, LongestNode
  <1>2. m \in nodes /\ ~OneEndAt(nodes, m) /\ Len(m) \in Nat
    BY <1>1, TrieNodesAreNames, LenProperties DEF Name
  <1>3. CASE HasOnlyChild(nodes, m)
    <2>1. PICK c \in nodes : Children(nodes, m) = {c}
      BY <1>3 DEF HasOnlyChild
    <2>2. Len(m) < Len(c) /\ \A e : EndsAt(nodes, m, e) <=> EndsAt(nodes, c, e)
      BY <1>2, <2>1, OnlyChildEnd
    <2>3. Len(c) \in Nat
      BY TrieNodesAreNames, LenProperties DEF Name
    <2>4. OneEndAt(nodes, c)
      BY <1>1, <1>2, <2>2, <2>3
    <2> QED BY <1>2, <2>2, <2>4, Zenon DEF OneEndAt
  <1>4. CASE ~HasOnlyChild(nodes, m)
    <2>1. EndsAt(nodes, m, m) /\ \A e : EndsAt(nodes, m, e) => e = m
      BY <1>2, <1>4, NoOnlyChildEnd
    <2> QED BY <1>2, <2>1, Zenon DEF OneEndAt
  <1> QED BY <1>3, <1>4

(***************************************************************************)
(* The loop finds it.                                                      *)
(***************************************************************************)
Descent(nodes) ==
    CHOOSE go : go = [n \in nodes |->
        IF HasOnlyChild(nodes, n) THEN go[CHOOSE m \in Children(nodes, n) : TRUE] ELSE n]

LEMMA DescendIs ==
    ASSUME NEW nodes, NEW c
    PROVE  Descend(nodes, c) = Descent(nodes)[c]
  BY DEF Descend, Descent

LEMMA DescendEnds ==
    ASSUME NEW keys \in SUBSET Name, IsFiniteSet(keys), NEW nodes, nodes = TrieNodes(keys),
           NEW c \in nodes
    PROVE  EndsAt(nodes, c, Descend(nodes, c))
  <1> DEFINE OnlyChild(n) == CHOOSE m \in Children(nodes, n) : TRUE
             Step(g, n) == IF HasOnlyChild(nodes, n) THEN g[OnlyChild(n)] ELSE n
             Solves(g) == g = [n \in nodes |-> Step(g, n)]
             h == [n \in nodes |-> CHOOSE e : EndsAt(nodes, n, e)]
             g == Descent(nodes)
  <1>1. ASSUME NEW n \in nodes, HasOnlyChild(nodes, n)
        PROVE  /\ OnlyChild(n) \in nodes /\ Len(n) < Len(OnlyChild(n))
               /\ \A e : EndsAt(nodes, n, e) <=> EndsAt(nodes, OnlyChild(n), e)
    <2>1. PICK m \in nodes : Children(nodes, n) = {m}
      BY <1>1 DEF HasOnlyChild
    <2>2. OnlyChild(n) = m
      BY <2>1
    <2> QED BY <2>1, <2>2, OnlyChildEnd
  <1> HIDE DEF OnlyChild
  <1>2. Solves(h)
    <2>1. ASSUME NEW n \in nodes
          PROVE  EndsAt(nodes, n, h[n]) /\ \A e : EndsAt(nodes, n, e) => e = h[n]
      <3>1. PICK e : EndsAt(nodes, n, e) /\ \A x : EndsAt(nodes, n, x) => x = e
        BY OneEnd DEF OneEndAt
      <3>2. EndsAt(nodes, n, CHOOSE x : EndsAt(nodes, n, x))
        BY <3>1, Zenon
      <3>3. h[n] = CHOOSE x : EndsAt(nodes, n, x)
        OBVIOUS
      <3> HIDE DEF h
      <3>4. EndsAt(nodes, n, h[n])
        BY <3>2, <3>3, Zenon
      <3>5. h[n] = e
        BY <3>1, <3>4, Zenon
      <3> QED BY <3>1, <3>4, <3>5
    <2>2. ASSUME NEW n \in nodes PROVE h[n] = Step(h, n)
      <3> HIDE DEF h
      <3>1. CASE HasOnlyChild(nodes, n)
        <4>1. EndsAt(nodes, OnlyChild(n), h[n]) /\ OnlyChild(n) \in nodes
          BY <1>1, <2>1, <3>1
        <4>2. h[n] = h[OnlyChild(n)]
          BY <2>1, <4>1
        <4> QED BY <3>1, <4>2
      <3>2. CASE ~HasOnlyChild(nodes, n)
        <4>1. h[n] = n
          BY <2>1, <3>2, NoOnlyChildEnd
        <4> QED BY <3>2, <4>1
      <3> QED BY <3>1, <3>2
    <2> HIDE DEF Step
    <2>3. h = [n \in nodes |-> h[n]]
      OBVIOUS
    <2> HIDE DEF h
    <2> QED BY <2>2, <2>3
  <1>3. Solves(g)
    <2>1. g = CHOOSE go : Solves(go)
      BY DEF Descent, OnlyChild
    <2> HIDE DEF g, h, Solves
    <2> QED BY <1>2, <2>1
  <1>4. \A n \in nodes : g[n] = Step(g, n)
    <2> HIDE DEF g, Step
    <2> QED BY <1>3
  <1> HIDE DEF g, h
  <1> DEFINE Bad == {n \in nodes : ~EndsAt(nodes, n, g[n])}
  <1>5. ASSUME Bad # {} PROVE FALSE
    <2>1. PICK n \in Bad : \A other \in Bad : Len(other) <= Len(n)
      <3>1. Bad \subseteq TrieNodes(keys)
        OBVIOUS
      <3> HIDE DEF Bad
      <3> QED BY <1>5, <3>1, LongestNode
    <2>2. n \in nodes /\ ~EndsAt(nodes, n, g[n])
      BY <2>1
    <2>3. \A m \in nodes : Len(m) \in Nat
      BY TrieNodesAreNames, LenProperties DEF Name
    <2>4. CASE HasOnlyChild(nodes, n)
      <3> DEFINE m == OnlyChild(n)
      <3>1. m \in nodes /\ Len(n) < Len(m) /\ \A e : EndsAt(nodes, n, e) <=> EndsAt(nodes, m, e)
        BY <1>1, <2>2, <2>4
      <3>2. g[n] = g[m]
        BY <1>4, <2>2, <2>4
      <3> HIDE DEF m
      <3>3. m \notin Bad
        BY <2>1, <2>2, <2>3, <3>1
      <3> QED BY <2>2, <3>1, <3>2, <3>3
    <2>5. CASE ~HasOnlyChild(nodes, n)
      <3>1. g[n] = n
        BY <1>4, <2>2, <2>5
      <3> QED BY <2>2, <2>5, <3>1, NoOnlyChildEnd
    <2> QED BY <2>4, <2>5
  <1>6. EndsAt(nodes, c, g[c])
    BY <1>5
  <1> QED BY <1>6, DescendIs DEF g

(***************************************************************************)
(* The loop of getLongestPrefixes computes what LongestPrefixes says       *)
(* without it, for any finite set of keys.                                 *)
(***************************************************************************)
THEOREM LoopMeetsDescription ==
    ASSUME NEW keys \in SUBSET Name, IsFiniteSet(keys)
    PROVE  DescentEnds(TrieNodes(keys)) = LongestPrefixes(TrieNodes(keys))
  <1> DEFINE nodes == TrieNodes(keys)
  <1>1. \A m \in nodes : m \in Seq(Component) /\ Len(m) \in Nat /\ Len(m) >= 1
    <2> SUFFICES ASSUME NEW m \in nodes
                 PROVE  m \in Seq(Component) /\ Len(m) \in Nat /\ Len(m) >= 1
      OBVIOUS
    <2>1. PICK k \in keys : \E i \in 1..Len(k) : m = SubSeq(k, 1, i)
      BY DEF TrieNodes
    <2>2. \E i \in 1..Len(k) : m \in Seq(Component) /\ Len(m) = i
      BY <2>1, SubSeqPrefix DEF Name
    <2> QED BY <2>2
  <1>2. ASSUME NEW c \in Children(nodes, << >>)
        PROVE  Descend(nodes, c) \in LongestPrefixes(nodes)
    <2> DEFINE e == Descend(nodes, c)
    <2>1. c \in nodes /\ Len(c) = 1
      BY EmptySeq DEF Children
    <2>2. EndsAt(nodes, c, e)
      BY <2>1, DescendEnds
    <2> HIDE DEF e
    <2>3. ASSUME NEW m \in nodes, IsStrictPrefix(m, e) PROVE HasOnlyChild(nodes, m)
      <3>1. IsPrefix(m, e) /\ IsPrefix(c, e) /\ e \in nodes
        BY <2>2, <2>3 DEF EndsAt, IsStrictPrefix
      <3>2. Len(c) <= Len(m)
        BY <1>1, <2>1
      <3>3. IsPrefix(c, m)
        BY <1>1, <2>1, <3>1, <3>2, BothPrefixes
      <3> QED BY <2>2, <2>3, <3>3 DEF EndsAt
    <2>4. e \in LongestPrefixes(nodes)
      BY <2>2, <2>3 DEF EndsAt, LongestPrefixes
    <2> QED BY <2>4 DEF e
  <1>3. ASSUME NEW e \in LongestPrefixes(nodes)
        PROVE  \E c \in Children(nodes, << >>) : e = Descend(nodes, c)
    <2>1. e \in nodes /\ ~HasOnlyChild(nodes, e)
          /\ \A m \in nodes : IsStrictPrefix(m, e) => HasOnlyChild(nodes, m)
      BY DEF LongestPrefixes
    <2> DEFINE c == SubSeq(e, 1, 1)
    <2>2. c \in Seq(Component) /\ Len(c) = 1 /\ IsPrefix(c, e)
      <3>1. 1 \in 1..Len(e)
        BY <1>1, <2>1
      <3> QED BY <1>1, <2>1, <3>1, SubSeqPrefix
    <2> HIDE DEF c
    <2>3. c \in nodes
      <3>1. c # << >>
        BY <2>2, EmptySeq
      <3> QED BY <2>1, <2>2, <3>1, PrefixNode
    <2>4. c \in Children(nodes, << >>)
      <3>1. << >> \in Seq(Component) /\ Len(<< >>) = 0
        BY EmptySeq
      <3> DEFINE head == << >>
      <3>2. head \in Seq(Component) /\ Len(head) = 0
        BY <3>1
      <3> HIDE DEF head
      <3>3. IsPrefix(head, c)
        <4>1. Len(head) <= Len(c) /\ \A i \in 1..Len(head) : head[i] = c[i]
          BY <2>2, <3>2
        <4> QED BY <2>2, <3>2, <4>1, PrefixComponents
      <3> QED BY <2>2, <2>3, <3>1, <3>3 DEF Children, head
    <2>5. EndsAt(nodes, c, e)
      BY <2>1, <2>2 DEF EndsAt
    <2>6. EndsAt(nodes, c, Descend(nodes, c))
      BY <2>3, DescendEnds
    <2>7. PICK end : \A x : EndsAt(nodes, c, x) => x = end
      BY <2>3, OneEnd DEF OneEndAt
    <2>8. e = Descend(nodes, c)
      BY <2>5, <2>6, <2>7, Zenon
    <2> QED BY <2>4, <2>8
  <1> HIDE DEF nodes
  <1>4. DescentEnds(nodes) = LongestPrefixes(nodes)
    BY <1>2, <1>3 DEF DescentEnds
  <1> QED BY <1>4 DEF nodes

-----------------------------------------------------------------------------
(***************************************************************************)
(* put() returns a name.                                                   *)
(***************************************************************************)
LEMMA KeyIsName ==
    ASSUME NEW d \in Name
    PROVE  KeyOf(d) \in Name
  BY RenamePrefixAssumption DEF KeyOf, Name

(***************************************************************************)
(* A packet below a name has a key below the key of that name, because     *)
(* put() renames both under the same prefix.                               *)
(***************************************************************************)
LEMMA KeyBelow ==
    ASSUME NEW n \in Name, NEW d \in Name, IsPrefix(n, d)
    PROVE  IsPrefix(KeyOf(n), KeyOf(d))
  BY PrefixConcat, RenamePrefixAssumption DEF KeyOf, Name
=============================================================================
