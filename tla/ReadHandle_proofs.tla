-------------------------- MODULE ReadHandle_proofs --------------------------
(***************************************************************************)
(* The read path for every set of components, packets and Interests, and   *)
(* every text of the components.                                           *)
(***************************************************************************)
EXTENDS ReadHandle, StorageEngine_proofs

-----------------------------------------------------------------------------
(***************************************************************************)
(* toUri of one component: the slash and its text.                         *)
(***************************************************************************)
Piece(c) == << Slash >> \o Text[c]

Size(c) == Len(Text[c])

LEMMA TextType ==
    ASSUME NEW c \in Component
    PROVE  /\ Text[c] \in Seq(Nat) /\ Len(Text[c]) = Size(c) /\ Size(c) \in Nat /\ Size(c) >= 1
           /\ \A p \in 1..Size(c) : Text[c][p] \in Nat /\ Text[c][p] # Slash
  <1>1. Text[c] \in Seq(Nat \ {Slash}) /\ Text[c] # << >>
    BY TextAssumption
  <1>2. \A p \in 1..Len(Text[c]) : Text[c][p] \in Nat \ {Slash}
    BY <1>1
  <1>3. Text[c] \in Seq(Nat)
    BY <1>1, SeqMonotonic
  <1> QED BY <1>1, <1>2, <1>3, EmptySeq, LenProperties DEF Size

LEMMA PieceType ==
    ASSUME NEW c \in Component
    PROVE  /\ Piece(c) \in Seq(Nat) /\ Len(Piece(c)) = Size(c) + 1
           /\ Piece(c)[1] = Slash
           /\ \A p \in 1..Size(c) : Piece(c)[p + 1] = Text[c][p]
  <1> DEFINE t == Text[c]
  <1>1. << Slash >> \in Seq(Nat) /\ Len(<< Slash >>) = 1 /\ << Slash >>[1] = Slash
    BY TextAssumption
  <1>2. t \in Seq(Nat) /\ Len(t) = Size(c) /\ Size(c) \in Nat
    BY TextType
  <1>3. Piece(c) = << Slash >> \o t
    BY DEF Piece
  <1> HIDE DEF t
  <1>4. /\ Piece(c) \in Seq(Nat) /\ Len(Piece(c)) = 1 + Size(c)
        /\ \A i \in 1..(1 + Size(c)) :
              Piece(c)[i] = IF i <= 1 THEN << Slash >>[i] ELSE t[i - 1]
    BY <1>1, <1>2, <1>3, ConcatProperties
  <1>5. Piece(c)[1] = Slash
    BY <1>1, <1>2, <1>4
  <1>6. ASSUME NEW p \in 1..Size(c) PROVE Piece(c)[p + 1] = t[p]
    <2>1. p + 1 \in 1..(1 + Size(c)) /\ ~(p + 1 <= 1) /\ (p + 1) - 1 = p
      BY <1>2
    <2> QED BY <1>4, <2>1
  <1> QED BY <1>2, <1>4, <1>5, <1>6 DEF t

(***************************************************************************)
(* The texts of the beginnings of a name, one component after the other.   *)
(***************************************************************************)
Builds(f, n, m) ==
    /\ f \in [0..m -> Seq(Nat)] /\ f[0] = << >>
    /\ \A i \in 1..m : f[i] = f[i - 1] \o Piece(n[i])

LEMMA BuilderExists ==
    ASSUME NEW n \in Name
    PROVE  \E f : Builds(f, n, Len(n))
  <1> DEFINE Bad == {m \in 0..Len(n) : ~\E f : Builds(f, n, m)}
  <1>1. n \in Seq(Component) /\ Len(n) \in Nat
    BY LenProperties DEF Name
  <1>2. CASE Bad = {}
    BY <1>1, <1>2
  <1>3. CASE Bad # {}
    <2>1. PICK m \in Bad : \A other \in Bad : m <= other
      <3>1. Bad \subseteq Nat
        BY <1>1
      <3> HIDE DEF Bad
      <3> QED BY <1>3, <3>1, LeastNat
    <2>2. CASE m = 0
      <3>1. [i \in 0..0 |-> << >>] \in [0..0 -> Seq(Nat)]
        OBVIOUS
      <3>2. Builds([i \in 0..0 |-> << >>], n, 0)
        BY <3>1 DEF Builds
      <3> QED BY <2>1, <2>2, <3>2
    <2>3. CASE m # 0
      <3>1. m \in 1..Len(n) /\ m - 1 \in 0..Len(n) /\ m - 1 \notin Bad
        BY <1>1, <2>1, <2>3
      <3>2. PICK f : Builds(f, n, m - 1)
        BY <3>1
      <3> DEFINE next == f[m - 1] \o Piece(n[m])
                 g == [i \in 0..m |-> IF i = m THEN next ELSE f[i]]
      <3>3. n[m] \in Component
        BY <1>1, <3>1
      <3>4. next \in Seq(Nat)
        BY <3>1, <3>2, <3>3, PieceType, ConcatProperties DEF Builds
      <3> HIDE DEF next
      <3>5. g \in [0..m -> Seq(Nat)]
        BY <3>1, <3>2, <3>4 DEF Builds
      <3>6. ASSUME NEW i \in 1..m PROVE g[i] = g[i - 1] \o Piece(n[i])
        <4>1. i - 1 \in 0..m /\ i \in 0..m /\ i - 1 # m /\ g[i - 1] = f[i - 1]
          BY <1>1, <3>1
        <4>2. CASE i = m
          BY <4>1, <4>2 DEF next
        <4>3. CASE i # m
          <5>1. i \in 1..(m - 1) /\ g[i] = f[i]
            BY <1>1, <3>1, <4>1, <4>3
          <5> QED BY <3>2, <4>1, <5>1 DEF Builds
        <4> QED BY <4>2, <4>3
      <3>7. g[0] = << >>
        BY <1>1, <3>1, <3>2 DEF Builds
      <3>8. Builds(g, n, m)
        BY <3>5, <3>6, <3>7 DEF Builds
      <3> QED BY <2>1, <3>8
    <2> QED BY <2>2, <2>3
  <1> QED BY <1>2, <1>3

(***************************************************************************)
(* toUri is the last of them.                                              *)
(***************************************************************************)
Flattening(s) ==
    CHOOSE flatten : flatten =
        [i \in 1..Len(s) |-> IF i = 1 THEN s[i] ELSE flatten[i - 1] \o s[i]]

LEMMA FlattenIs ==
    ASSUME NEW s, Len(s) # 0
    PROVE  FlattenSeq(s) = Flattening(s)[Len(s)]
  BY DEF FlattenSeq, Flattening

LEMMA UriIsBuilt ==
    ASSUME NEW n \in Name, n # << >>, NEW f, Builds(f, n, Len(n))
    PROVE  ToUri(n) = f[Len(n)]
  <1> DEFINE s == [i \in DOMAIN n |-> << Slash >> \o Text[n[i]]]
             fl == Flattening(s)
  <1>1. n \in Seq(Component) /\ Len(n) \in Nat /\ Len(n) >= 1 /\ DOMAIN n = 1..Len(n)
    BY EmptySeq, LenProperties DEF Name
  <1>2. Len(s) = Len(n) /\ \A i \in 1..Len(n) : s[i] = Piece(n[i])
    BY <1>1 DEF Piece
  <1>3. ToUri(n) = FlattenSeq(s)
    BY DEF ToUri
  <1> HIDE DEF s
  <1>4. ToUri(n) = fl[Len(n)]
    BY <1>1, <1>2, <1>3, FlattenIs
  <1>5. fl = [i \in 1..Len(s) |-> IF i = 1 THEN s[i] ELSE fl[i - 1] \o s[i]]
    <2> DEFINE Solves(g) == g = [i \in 1..Len(s) |-> IF i = 1 THEN s[i] ELSE g[i - 1] \o s[i]]
               h == [i \in 1..Len(n) |-> f[i]]
    <2>1. ASSUME NEW i \in 1..Len(n) PROVE h[i] = IF i = 1 THEN s[i] ELSE h[i - 1] \o s[i]
      <3>1. n[i] \in Component /\ s[i] = Piece(n[i]) /\ h[i] = f[i - 1] \o s[i]
        <4>1. n[i] \in Component /\ s[i] = Piece(n[i])
          BY <1>1, <1>2
        <4>2. f[i] = f[i - 1] \o Piece(n[i])
          BY DEF Builds
        <4> QED BY <4>1, <4>2
      <3>2. CASE i = 1
        <4>1. f[i - 1] = << >> /\ s[i] \in Seq(Nat)
          <5>1. i - 1 = 0
            BY <3>2
          <5> QED BY <3>1, <5>1, PieceType DEF Builds
        <4>2. << >> \o s[i] = s[i]
          BY <4>1, ConcatEmptySeq
        <4> HIDE DEF h
        <4> QED BY <3>1, <3>2, <4>1, <4>2
      <3>3. CASE i # 1
        <4>1. i - 1 \in 1..Len(n)
          BY <1>1, <3>3
        <4> QED BY <3>1, <3>3, <4>1
      <3> QED BY <3>2, <3>3
    <2>2. h = [i \in 1..Len(s) |-> IF i = 1 THEN s[i] ELSE h[i - 1] \o s[i]]
      BY <1>2, <2>1
    <2> HIDE DEF h
    <2>3. \E g : Solves(g)
      BY <2>2
    <2>4. fl = CHOOSE g : Solves(g)
      BY DEF Flattening
    <2> HIDE DEF Solves, fl
    <2>5. Solves(fl)
      BY <2>3, <2>4
    <2> QED BY <2>5 DEF Solves
  <1> HIDE DEF fl
  <1> DEFINE Bad == {i \in 1..Len(n) : fl[i] # f[i]}
  <1>6. CASE Bad = {}
    BY <1>1, <1>4, <1>6
  <1>7. CASE Bad # {}
    <2>1. PICK i \in Bad : \A other \in Bad : i <= other
      <3>1. Bad \subseteq Nat
        BY <1>1
      <3> HIDE DEF Bad
      <3> QED BY <1>7, <3>1, LeastNat
    <2>2. i \in 1..Len(n) /\ s[i] = Piece(n[i]) /\ n[i] \in Component
          /\ f[i] = f[i - 1] \o s[i] /\ fl[i] = IF i = 1 THEN s[i] ELSE fl[i - 1] \o s[i]
      <3>1. i \in 1..Len(n) /\ s[i] = Piece(n[i]) /\ n[i] \in Component
        BY <1>1, <1>2, <2>1
      <3>2. f[i] = f[i - 1] \o Piece(n[i])
        BY <3>1 DEF Builds
      <3>3. fl[i] = IF i = 1 THEN s[i] ELSE fl[i - 1] \o s[i]
        BY <1>2, <1>5, <3>1, Zenon
      <3> QED BY <3>1, <3>2, <3>3
    <2>3. CASE i = 1
      <3>1. f[i - 1] = << >> /\ s[i] \in Seq(Nat)
        <4>1. i - 1 = 0
          BY <2>3
        <4> QED BY <2>2, <4>1, PieceType DEF Builds
      <3>2. << >> \o s[i] = s[i]
        BY <3>1, ConcatEmptySeq
      <3>3. f[i] = s[i]
        BY <2>2, <3>1, <3>2
      <3> QED BY <2>1, <2>2, <2>3, <3>3
    <2>4. CASE i # 1
      <3>1. i - 1 \in 1..Len(n) /\ i - 1 \notin Bad
        BY <1>1, <2>1, <2>2, <2>4
      <3>2. fl[i - 1] = f[i - 1]
        BY <3>1
      <3> QED BY <2>1, <2>2, <2>4, <3>2
    <2> QED BY <2>3, <2>4
  <1> QED BY <1>6, <1>7

(***************************************************************************)
(* u has the text of the component c behind its first o characters.        *)
(***************************************************************************)
Spells(u, o, c) ==
    /\ o + 1 + Size(c) <= Len(u) /\ u[o + 1] = Slash
    /\ \A p \in 1..Size(c) : u[o + 1 + p] = Text[c][p]

LEMMA ConcatAt ==
    ASSUME NEW u \in Seq(Nat), NEW v \in Seq(Nat),
           NEW a \in Nat, a = Len(u), NEW b \in Nat, b = Len(v)
    PROVE  /\ u \o v \in Seq(Nat) /\ Len(u \o v) = a + b
           /\ \A i \in 1..a : (u \o v)[i] = u[i]
           /\ \A j \in 1..b : (u \o v)[a + j] = v[j]
  <1> DEFINE w == u \o v
  <1>1. /\ w \in Seq(Nat) /\ Len(w) = a + b
        /\ \A i \in 1..(a + b) : w[i] = IF i <= a THEN u[i] ELSE v[i - a]
    BY ConcatProperties
  <1> HIDE DEF w
  <1>2. ASSUME NEW i \in 1..a PROVE w[i] = u[i]
    <2>1. i \in 1..(a + b) /\ i <= a
      OBVIOUS
    <2> QED BY <1>1, <2>1
  <1>3. ASSUME NEW j \in 1..b PROVE w[a + j] = v[j]
    <2>1. a + j \in 1..(a + b) /\ ~(a + j <= a) /\ (a + j) - a = j
      OBVIOUS
    <2> QED BY <1>1, <2>1
  <1> QED BY <1>1, <1>2, <1>3 DEF w

LEMMA PieceSums ==
    ASSUME NEW o \in Nat, NEW t \in Nat
    PROVE  o + (t + 1) = o + 1 + t /\ o <= o + (t + 1)
  OBVIOUS

LEMMA PieceSpells ==
    ASSUME NEW u \in Seq(Nat), NEW c \in Component, NEW o \in Nat, o = Len(u)
    PROVE  /\ u \o Piece(c) \in Seq(Nat) /\ Len(u \o Piece(c)) = o + 1 + Size(c)
           /\ IsPrefix(u, u \o Piece(c)) /\ Spells(u \o Piece(c), o, c)
  <1> DEFINE w == u \o Piece(c)
             b == Size(c) + 1
  <1>0. Size(c) \in Nat /\ b \in Nat /\ b = Size(c) + 1
    BY TextType
  <1>1. Piece(c) \in Seq(Nat) /\ Len(Piece(c)) = b
    BY PieceType
  <1> HIDE DEF b
  <1>2. /\ w \in Seq(Nat) /\ Len(w) = o + b
        /\ \A i \in 1..o : w[i] = u[i]
        /\ \A j \in 1..b : w[o + j] = Piece(c)[j]
    <2> DEFINE v == Piece(c)
    <2>1. v \in Seq(Nat) /\ b = Len(v) /\ b \in Nat
      BY <1>0, <1>1
    <2> HIDE DEF v, w
    <2>2. /\ u \o v \in Seq(Nat) /\ Len(u \o v) = o + b
          /\ \A i \in 1..o : (u \o v)[i] = u[i]
          /\ \A j \in 1..b : (u \o v)[o + j] = v[j]
      BY <2>1, ConcatAt
    <2> QED BY <2>2, Zenon DEF v, w
  <1> HIDE DEF w
  <1>3. Len(w) = o + 1 + Size(c) /\ Len(u) <= Len(w)
    <2>1. Len(w) = o + b
      BY <1>2
    <2>2. o + (Size(c) + 1) = o + 1 + Size(c) /\ o <= o + (Size(c) + 1)
      BY <1>0, PieceSums, Zenon
    <2>3. Len(w) = o + (Size(c) + 1)
      BY <1>0, <2>1, Zenon
    <2> QED BY <2>2, <2>3, Zenon
  <1>4. IsPrefix(u, w)
    <2>1. \A i \in 1..Len(u) : u[i] = w[i]
      BY <1>2
    <2> QED BY <1>2, <1>3, <2>1, PrefixComponents
  <1>5. w[o + 1] = Slash
    <2>1. 1 \in 1..b
      BY <1>0
    <2>2. Piece(c)[1] = Slash
      BY PieceType
    <2> QED BY <1>2, <2>1, <2>2
  <1>6. ASSUME NEW p \in 1..Size(c) PROVE w[o + 1 + p] = Text[c][p]
    <2>1. p + 1 \in 1..b /\ o + (p + 1) = o + 1 + p
      BY <1>0
    <2>2. Piece(c)[p + 1] = Text[c][p]
      BY PieceType
    <2>3. w[o + (p + 1)] = Piece(c)[p + 1]
      BY <1>2, <2>1
    <2> QED BY <2>1, <2>2, <2>3
  <1>7. o + 1 + Size(c) <= Len(w)
    BY <1>0, <1>3
  <1> QED BY <1>2, <1>3, <1>4, <1>5, <1>6, <1>7 DEF Spells, w

(***************************************************************************)
(* The length of the text of the first i components.                       *)
(***************************************************************************)
Offset(f, i) == Len(f[i])

Whole(f, n) == f[Len(n)]

LEMMA BuildsStep ==
    ASSUME NEW n \in Name, NEW f, Builds(f, n, Len(n)), NEW i \in 1..Len(n)
    PROVE  /\ n[i] \in Component /\ f[i] \in Seq(Nat) /\ f[i - 1] \in Seq(Nat)
           /\ Offset(f, i - 1) \in Nat /\ Size(n[i]) \in Nat /\ Size(n[i]) >= 1
           /\ Offset(f, i) = Offset(f, i - 1) + 1 + Size(n[i])
           /\ IsPrefix(f[i - 1], f[i]) /\ Spells(f[i], Offset(f, i - 1), n[i])
  <1> DEFINE c == n[i]
             u == f[i - 1]
  <1>1. c \in Component /\ i \in 0..Len(n) /\ i - 1 \in 0..Len(n)
    BY LenProperties DEF Name
  <1>2. u \in Seq(Nat) /\ f[i] = u \o Piece(c)
    BY <1>1 DEF Builds
  <1>3. Offset(f, i - 1) = Len(u)
    BY DEF Offset
  <1> HIDE DEF c, u
  <1>4. Offset(f, i - 1) \in Nat /\ Size(c) \in Nat /\ Size(c) >= 1
    BY <1>1, <1>2, <1>3, TextType, LenProperties
  <1>5. /\ Len(u \o Piece(c)) = Offset(f, i - 1) + 1 + Size(c)
        /\ u \o Piece(c) \in Seq(Nat) /\ IsPrefix(u, u \o Piece(c))
        /\ Spells(u \o Piece(c), Offset(f, i - 1), c)
    BY <1>1, <1>2, <1>3, <1>4, PieceSpells
  <1> QED BY <1>1, <1>2, <1>4, <1>5, Zenon DEF Offset, c, u

(***************************************************************************)
(* The text of the beginning of a name is the beginning of its text.       *)
(***************************************************************************)
LEMMA BuildsPrefix ==
    ASSUME NEW n \in Name, NEW f, Builds(f, n, Len(n)), NEW i \in 0..Len(n)
    PROVE  \A j \in i..Len(n) : f[j] \in Seq(Nat) /\ IsPrefix(f[i], f[j])
  <1> DEFINE Bad == {j \in i..Len(n) : ~IsPrefix(f[i], f[j])}
  <1>1. Len(n) \in Nat /\ \A j \in 0..Len(n) : f[j] \in Seq(Nat)
    BY LenProperties DEF Name, Builds
  <1>2. CASE Bad = {}
    BY <1>1, <1>2
  <1>3. CASE Bad # {}
    <2>1. PICK j \in Bad : \A other \in Bad : j <= other
      <3>1. Bad \subseteq Nat
        BY <1>1
      <3> HIDE DEF Bad
      <3> QED BY <1>3, <3>1, LeastNat
    <2>2. j # i
      BY <1>1, <2>1, PrefixReflexive
    <2>3. j \in 1..Len(n) /\ j - 1 \in i..Len(n) /\ j - 1 \in 0..Len(n) /\ j - 1 \notin Bad
      BY <1>1, <2>1, <2>2
    <2>4. IsPrefix(f[i], f[j - 1])
      BY <2>3
    <2>5. IsPrefix(f[j - 1], f[j])
      BY <2>3, BuildsStep
    <2>6. f[i] \in Seq(Nat) /\ f[j - 1] \in Seq(Nat) /\ f[j] \in Seq(Nat)
      BY <1>1, <2>3
    <2>7. IsPrefix(f[i], f[j])
      BY <2>4, <2>5, <2>6, PrefixTransitive
    <2> QED BY <2>1, <2>7
  <1> QED BY <1>2, <1>3

(***************************************************************************)
(* Names that begin alike have texts that begin alike.                     *)
(***************************************************************************)
LEMMA BuildsAgree ==
    ASSUME NEW n \in Name, NEW f, Builds(f, n, Len(n)),
           NEW k \in Name, NEW g, Builds(g, k, Len(k)),
           NEW m \in 0..Len(n), m <= Len(k), \A i \in 1..m : n[i] = k[i]
    PROVE  f[m] = g[m]
  <1> DEFINE Bad == {i \in 0..m : f[i] # g[i]}
  <1>1. Len(n) \in Nat /\ Len(k) \in Nat /\ m \in Nat
    BY LenProperties DEF Name
  <1>2. CASE Bad = {}
    BY <1>1, <1>2
  <1>3. CASE Bad # {}
    <2>1. PICK i \in Bad : \A other \in Bad : i <= other
      <3>1. Bad \subseteq Nat
        BY <1>1
      <3> HIDE DEF Bad
      <3> QED BY <1>3, <3>1, LeastNat
    <2>2. i # 0
      BY <2>1 DEF Builds
    <2>3. i \in 1..m /\ i \in 1..Len(n) /\ i \in 1..Len(k) /\ i - 1 \in 0..m /\ i - 1 \notin Bad
      BY <1>1, <2>1, <2>2
    <2>4. f[i - 1] = g[i - 1] /\ n[i] = k[i]
      BY <2>3
    <2>5. f[i] = f[i - 1] \o Piece(n[i]) /\ g[i] = g[i - 1] \o Piece(k[i])
      BY <2>3 DEF Builds
    <2> QED BY <2>1, <2>4, <2>5
  <1> QED BY <1>2, <1>3

(***************************************************************************)
(* The whole text spells every component, followed by a slash or nothing.  *)
(***************************************************************************)
LEMMA UriSpells ==
    ASSUME NEW n \in Name, NEW f, Builds(f, n, Len(n)), NEW i \in 1..Len(n),
           NEW u, u = Whole(f, n), NEW o, o = Offset(f, i - 1)
    PROVE  /\ u \in Seq(Nat) /\ o \in Nat /\ n[i] \in Component
           /\ Size(n[i]) \in Nat /\ Size(n[i]) >= 1 /\ Spells(u, o, n[i])
           /\ i = Len(n) => Len(u) = o + 1 + Size(n[i])
           /\ i < Len(n) => u[o + 1 + Size(n[i]) + 1] = Slash
  <1> DEFINE c == n[i]
             v == f[i]
             next == o + 1 + Size(c)
  <1>1. /\ Len(n) \in Nat /\ i \in 0..Len(n) /\ Len(n) \in i..Len(n)
    BY LenProperties DEF Name
  <1>2. u \in Seq(Nat) /\ IsPrefix(v, u)
    BY <1>1, BuildsPrefix DEF Whole
  <1>3. /\ v \in Seq(Nat) /\ o \in Nat /\ Size(c) \in Nat /\ Size(c) >= 1 /\ c \in Component
        /\ Len(v) = next /\ Spells(v, o, c)
    BY BuildsStep, Zenon DEF Offset
  <1> HIDE DEF v, c
  <1>4. next \in Nat /\ o + 1 \in 1..next /\ \A p \in 1..Size(c) : o + 1 + p \in 1..next
    <2>1. o \in Nat /\ Size(c) \in Nat
      BY <1>3
    <2> QED BY <2>1
  <1> HIDE DEF next
  <1>5. next <= Len(u) /\ \A p \in 1..next : v[p] = u[p]
    BY <1>2, <1>3, PrefixComponents
  <1>6. Spells(u, o, c)
    BY <1>3, <1>4, <1>5 DEF Spells, next
  <1>7. i = Len(n) => Len(u) = next
    BY <1>3 DEF v, Whole
  <1>8. ASSUME i < Len(n) PROVE u[next + 1] = Slash
    <2> DEFINE w == f[i + 1]
               d == n[i + 1]
    <2>1. i + 1 \in 1..Len(n) /\ (i + 1) - 1 = i /\ i + 1 \in 0..Len(n)
          /\ Len(n) \in (i + 1)..Len(n)
      BY <1>1, <1>8
    <2>2. /\ w \in Seq(Nat) /\ Spells(w, Offset(f, (i + 1) - 1), d) /\ Size(d) \in Nat
          /\ Offset(f, i + 1) = Offset(f, (i + 1) - 1) + 1 + Size(d)
      BY <2>1, BuildsStep
    <2>3. Offset(f, (i + 1) - 1) = next /\ Offset(f, i + 1) = Len(w)
      BY <1>3, <2>1 DEF Offset, v
    <2>4. IsPrefix(w, u)
      BY <2>1, BuildsPrefix DEF Whole
    <2> HIDE DEF w, d
    <2>5. Spells(w, next, d) /\ Len(w) = next + 1 + Size(d)
      BY <2>2, <2>3
    <2>6. \A p \in 1..Len(w) : w[p] = u[p]
      BY <1>2, <2>2, <2>4, PrefixComponents
    <2>7. next + 1 \in 1..Len(w)
      BY <1>4, <2>2, <2>5
    <2> QED BY <2>5, <2>6, <2>7 DEF Spells
  <1> QED BY <1>2, <1>3, <1>6, <1>7, <1>8 DEF next, c

-----------------------------------------------------------------------------
(***************************************************************************)
(* When one text is the beginning of another, the components they spell at *)
(* the same place have texts of which one continues the other.             *)
(***************************************************************************)
LEMMA SpelledAlike ==
    ASSUME NEW u \in Seq(Nat), NEW w \in Seq(Nat), IsPrefix(u, w), NEW o \in Nat,
           NEW c \in Component, NEW d \in Component, Spells(u, o, c), Spells(w, o, d)
    PROVE  IsPrefix(Text[c], Text[d]) \/ IsPrefix(Text[d], Text[c])
  <1>1. /\ Text[c] \in Seq(Nat) /\ Len(Text[c]) = Size(c) /\ Size(c) \in Nat
        /\ Text[d] \in Seq(Nat) /\ Len(Text[d]) = Size(d) /\ Size(d) \in Nat
    BY TextType
  <1>2. \A p \in 1..Len(u) : u[p] = w[p]
    BY PrefixComponents
  <1>3. ASSUME NEW p \in 1..Size(c), p <= Size(d) PROVE Text[c][p] = Text[d][p]
    <2>1. p \in 1..Size(d)
      BY <1>1, <1>3
    <2>2. Text[c][p] = u[o + 1 + p] /\ Text[d][p] = w[o + 1 + p]
      BY <2>1 DEF Spells
    <2>3. o + 1 + p \in 1..Len(u)
      <3>1. Len(u) \in Nat /\ o + 1 + Size(c) <= Len(u)
        BY LenProperties DEF Spells
      <3> QED BY <1>1, <3>1
    <2> QED BY <1>2, <2>2, <2>3
  <1>4. CASE Size(c) <= Size(d)
    <2>1. \A p \in 1..Size(c) : Text[c][p] = Text[d][p]
      BY <1>1, <1>3, <1>4
    <2>2. Len(Text[c]) <= Len(Text[d]) /\ \A p \in 1..Len(Text[c]) : Text[c][p] = Text[d][p]
      BY <1>1, <1>4, <2>1, Zenon
    <2> QED BY <1>1, <2>2, PrefixComponents, Zenon
  <1>5. CASE Size(d) <= Size(c)
    <2>1. \A p \in 1..Size(d) : Text[d][p] = Text[c][p]
      BY <1>1, <1>3, <1>5
    <2>2. Len(Text[d]) <= Len(Text[c]) /\ \A p \in 1..Len(Text[d]) : Text[d][p] = Text[c][p]
      BY <1>1, <1>5, <2>1, Zenon
    <2> QED BY <1>1, <2>2, PrefixComponents, Zenon
  <1> QED BY <1>1, <1>4, <1>5

(***************************************************************************)
(* Where the text of a component ends the next one begins, or the text     *)
(* ends: so of two components spelled at the same place of one text, none  *)
(* is the shorter.                                                         *)
(***************************************************************************)
Ends(u, o, c) == Len(u) = o + 1 + Size(c) \/ u[o + 1 + Size(c) + 1] = Slash

LEMMA NoneShorter ==
    ASSUME NEW u \in Seq(Nat), NEW o \in Nat, NEW c \in Component, NEW d \in Component,
           Spells(u, o, c), Ends(u, o, c), Spells(u, o, d)
    PROVE  ~(Size(c) < Size(d))
  <1>1. Size(c) \in Nat /\ Size(d) \in Nat /\ Len(u) \in Nat
    BY TextType, LenProperties
  <1> SUFFICES ASSUME Size(c) < Size(d) PROVE FALSE
    OBVIOUS
  <1>2. Size(c) + 1 \in 1..Size(d) /\ o + 1 + Size(c) + 1 = o + 1 + (Size(c) + 1)
    BY <1>1
  <1>3. Len(u) # o + 1 + Size(c)
    <2>1. o + 1 + Size(d) <= Len(u)
      BY DEF Spells
    <2> QED BY <1>1, <2>1
  <1>4. u[o + 1 + (Size(c) + 1)] = Slash
    BY <1>2, <1>3 DEF Ends
  <1>5. u[o + 1 + (Size(c) + 1)] = Text[d][Size(c) + 1] /\ Text[d][Size(c) + 1] # Slash
    BY <1>2, TextType DEF Spells
  <1> QED BY <1>4, <1>5

LEMMA SpelledOnce ==
    ASSUME NEW u \in Seq(Nat), NEW o \in Nat, NEW c \in Component, NEW d \in Component,
           Spells(u, o, c), Ends(u, o, c), Spells(u, o, d), Ends(u, o, d)
    PROVE  c = d
  <1>1. /\ Text[c] \in Seq(Nat) /\ Len(Text[c]) = Size(c) /\ Size(c) \in Nat
        /\ Text[d] \in Seq(Nat) /\ Len(Text[d]) = Size(d) /\ Size(d) \in Nat
    BY TextType
  <1>2. Size(c) = Size(d)
    <2>1. ~(Size(c) < Size(d)) /\ ~(Size(d) < Size(c))
      BY NoneShorter
    <2> QED BY <1>1, <2>1
  <1>3. \A p \in 1..Size(c) : Text[c][p] = Text[d][p]
    BY <1>2 DEF Spells
  <1>4. Text[c] = Text[d]
    <2>1. Len(Text[c]) = Len(Text[d]) /\ \A p \in 1..Len(Text[c]) : Text[c][p] = Text[d][p]
      BY <1>1, <1>2, <1>3, Zenon
    <2> QED BY <1>1, <2>1, SeqEqual, Zenon
  <1> QED BY <1>4, TextAssumption DEF IsInjective

(***************************************************************************)
(* Of two names of which the texts begin alike, the first begins the       *)
(* second, if their components agree wherever their beginnings do.         *)
(***************************************************************************)
LEMMA TextPrefix ==
    ASSUME NEW n \in Name, NEW f, Builds(f, n, Len(n)),
           NEW k \in Name, NEW g, Builds(g, k, Len(k)),
           IsPrefix(Whole(f, n), Whole(g, k)),
           \A j \in 1..Len(n) : j <= Len(k) /\ f[j - 1] = g[j - 1] => n[j] = k[j]
    PROVE  IsPrefix(n, k)
  <1> DEFINE Bad == {j \in 1..Len(n) : ~(j <= Len(k)) \/ n[j] # k[j]}
  <1>1. n \in Seq(Component) /\ k \in Seq(Component) /\ Len(n) \in Nat /\ Len(k) \in Nat
    BY LenProperties DEF Name
  <1>2. CASE Bad = {}
    <2>1. \A j \in 1..Len(n) : j <= Len(k) /\ n[j] = k[j]
      BY <1>2
    <2>2. Len(n) <= Len(k)
      BY <1>1, <2>1
    <2> QED BY <1>1, <2>1, <2>2, PrefixComponents
  <1>3. CASE Bad # {}
    <2>1. PICK j \in Bad : \A other \in Bad : j <= other
      <3>1. Bad \subseteq Nat
        BY <1>1
      <3> HIDE DEF Bad
      <3> QED BY <1>3, <3>1, LeastNat
    <2>2. j \in 1..Len(n) /\ j - 1 \in 0..Len(n) /\ \A i \in 1..(j - 1) : i \in 1..Len(n) /\ i \notin Bad
      BY <1>1, <2>1
    <2>3. \A i \in 1..(j - 1) : i <= Len(k) /\ n[i] = k[i]
      BY <2>2
    <2>4. j - 1 <= Len(k)
      BY <1>1, <2>2, <2>3
    <2>5. f[j - 1] = g[j - 1]
      BY <2>2, <2>3, <2>4, BuildsAgree
    <2>6. ~(j <= Len(k))
      BY <2>1, <2>5
    <2>7. j - 1 = Len(k)
      BY <1>1, <2>2, <2>4, <2>6
    <2> DEFINE u == Whole(f, n)
               w == Whole(g, k)
               o == Offset(f, j - 1)
    <2>8. /\ u \in Seq(Nat) /\ o \in Nat /\ Size(n[j]) \in Nat /\ Spells(u, o, n[j])
      BY <2>2, UriSpells
    <2>9. w \in Seq(Nat) /\ Len(w) = o
      BY <1>1, <2>5, <2>7 DEF Builds, Whole, Offset
    <2> HIDE DEF u, w, o
    <2>10. Len(u) <= Len(w)
      BY <2>8, <2>9, PrefixComponents DEF u, w
    <2>11. o + 1 + Size(n[j]) <= Len(u)
      BY <2>8 DEF Spells
    <2> QED BY <2>8, <2>9, <2>10, <2>11
  <1> QED BY <1>2, <1>3

-----------------------------------------------------------------------------
(***************************************************************************)
(* The text of a name that has a component is longer than that of "/".     *)
(***************************************************************************)
LEMMA RootUri ==
    ToUri(<< >>) = << Slash >> /\ << Slash >> \in Seq(Nat) /\ Len(<< Slash >>) = 1
    /\ << Slash >>[1] = Slash
  BY TextAssumption DEF ToUri

LEMMA LongerUri ==
    ASSUME NEW n \in Name, n # << >>
    PROVE  \E f : /\ Builds(f, n, Len(n)) /\ ToUri(n) = Whole(f, n)
                  /\ ToUri(n) \in Seq(Nat) /\ Len(ToUri(n)) >= 2 /\ ToUri(n)[1] = Slash
  <1>1. PICK f : Builds(f, n, Len(n))
    BY BuilderExists
  <1>2. ToUri(n) = Whole(f, n)
    BY <1>1, UriIsBuilt DEF Whole
  <1> DEFINE u == Whole(f, n)
  <1>3. Len(n) \in Nat /\ 1 \in 1..Len(n) /\ 1 - 1 = 0
    BY EmptySeq, LenProperties DEF Name
  <1>4. Offset(f, 1 - 1) = 0
    BY <1>1, <1>3, EmptySeq DEF Builds, Offset
  <1>5. u \in Seq(Nat) /\ Size(n[1]) \in Nat /\ Size(n[1]) >= 1 /\ Spells(u, 0, n[1])
    BY <1>1, <1>3, <1>4, UriSpells
  <1> HIDE DEF u
  <1>6. Len(u) >= 2 /\ u[1] = Slash
    <2>1. 0 + 1 + Size(n[1]) <= Len(u) /\ u[0 + 1] = Slash
      BY <1>5 DEF Spells
    <2> QED BY <1>5, <2>1, LenProperties
  <1> QED BY <1>1, <1>2, <1>5, <1>6 DEF u

LEMMA UriType ==
    ASSUME NEW n \in Name
    PROVE  ToUri(n) \in Seq(Nat) /\ Len(ToUri(n)) \in Nat /\ Len(ToUri(n)) >= 1
           /\ ToUri(n)[1] = Slash
  <1>1. CASE n = << >>
    <2> DEFINE u == ToUri(n)
    <2>1. u = << Slash >>
      BY <1>1, RootUri
    <2> HIDE DEF u
    <2>2. u \in Seq(Nat) /\ Len(u) = 1 /\ u[1] = Slash
      BY <2>1, RootUri
    <2> QED BY <2>2 DEF u
  <1>2. CASE n # << >>
    <2>1. ToUri(n) \in Seq(Nat) /\ Len(ToUri(n)) >= 2 /\ ToUri(n)[1] = Slash
      BY <1>2, LongerUri
    <2> QED BY <2>1, LenProperties
  <1> QED BY <1>1, <1>2

(***************************************************************************)
(* The text of a prefix is the beginning of the text ...                   *)
(***************************************************************************)
LEMMA UriOfPrefix ==
    ASSUME NEW n \in Name, NEW k \in Name, IsPrefix(n, k)
    PROVE  IsPrefix(ToUri(n), ToUri(k))
  <1>1. /\ n \in Seq(Component) /\ k \in Seq(Component) /\ Len(n) \in Nat /\ Len(k) \in Nat
        /\ Len(n) <= Len(k) /\ \A i \in 1..Len(n) : n[i] = k[i]
    BY LenProperties, PrefixComponents DEF Name
  <1>2. CASE n = << >>
    <2>1. ToUri(k) \in Seq(Nat) /\ Len(ToUri(k)) >= 1 /\ ToUri(k)[1] = Slash
      BY UriType
    <2> DEFINE u == ToUri(n)
               w == ToUri(k)
    <2>2. u \in Seq(Nat) /\ Len(u) = 1 /\ u[1] = Slash
      BY <1>2, RootUri
    <2> HIDE DEF u, w
    <2>3. Len(u) <= Len(w) /\ \A i \in 1..Len(u) : u[i] = w[i]
      BY <2>1, <2>2 DEF w
    <2> QED BY <2>1, <2>2, <2>3, PrefixComponents DEF u, w
  <1>3. CASE n # << >>
    <2>1. k # << >>
      BY <1>1, <1>3, EmptySeq
    <2>2. PICK f : Builds(f, n, Len(n)) /\ ToUri(n) = Whole(f, n)
      BY <1>3, LongerUri
    <2>3. PICK g : Builds(g, k, Len(k)) /\ ToUri(k) = Whole(g, k)
      BY <2>1, LongerUri
    <2>4. Len(n) \in 0..Len(n) /\ Len(n) \in 0..Len(k) /\ Len(k) \in Len(n)..Len(k)
      BY <1>1
    <2>5. f[Len(n)] = g[Len(n)]
      BY <1>1, <2>2, <2>3, <2>4, BuildsAgree
    <2>6. IsPrefix(g[Len(n)], g[Len(k)])
      BY <2>3, <2>4, BuildsPrefix
    <2> QED BY <2>2, <2>3, <2>5, <2>6, Zenon DEF Whole
  <1> QED BY <1>2, <1>3

(***************************************************************************)
(* ... and the other way about when no component's text continues          *)
(* another's.                                                              *)
(***************************************************************************)
LEMMA PrefixWhenApart ==
    ASSUME NEW n \in Name, NEW k \in Name, TextsApart(k, n), IsPrefix(ToUri(n), ToUri(k))
    PROVE  IsPrefix(n, k)
  <1>1. n \in Seq(Component) /\ k \in Seq(Component) /\ Len(n) \in Nat /\ Len(k) \in Nat
    BY LenProperties DEF Name
  <1>2. CASE n = << >>
    <2>1. Len(n) = 0 /\ n \in Seq(Component)
      BY <1>1, <1>2, EmptySeq
    <2>2. Len(n) <= Len(k) /\ \A i \in 1..Len(n) : n[i] = k[i]
      BY <1>1, <2>1
    <2> QED BY <1>1, <2>2, PrefixComponents
  <1>3. CASE n # << >>
    <2>1. PICK f : /\ Builds(f, n, Len(n)) /\ ToUri(n) = Whole(f, n)
                   /\ ToUri(n) \in Seq(Nat) /\ Len(ToUri(n)) >= 2
      BY <1>3, LongerUri
    <2>2. k # << >>
      <3> DEFINE u == ToUri(n)
                 w == ToUri(k)
      <3>1. w \in Seq(Nat) /\ u \in Seq(Nat) /\ Len(u) >= 2 /\ IsPrefix(u, w)
        BY <2>1, UriType
      <3> HIDE DEF u, w
      <3>2. Len(w) # 1
        BY <3>1, PrefixComponents
      <3> QED BY <3>2, RootUri DEF w
    <2>3. PICK g : Builds(g, k, Len(k)) /\ ToUri(k) = Whole(g, k)
      BY <2>2, LongerUri
    <2>4. ASSUME NEW j \in 1..Len(n), j <= Len(k), f[j - 1] = g[j - 1]
          PROVE  n[j] = k[j]
      <3>1. j \in 1..Len(k)
        BY <1>1, <2>4
      <3> DEFINE u == Whole(f, n)
                 w == Whole(g, k)
                 o == Offset(f, j - 1)
      <3>2. u \in Seq(Nat) /\ o \in Nat /\ n[j] \in Component /\ Spells(u, o, n[j])
        BY <2>1, UriSpells
      <3>3. o = Offset(g, j - 1)
        BY <2>4 DEF Offset
      <3>4. w \in Seq(Nat) /\ k[j] \in Component /\ Spells(w, o, k[j])
        BY <2>3, <3>1, <3>3, UriSpells
      <3>5. IsPrefix(u, w)
        BY <2>1, <2>3
      <3> HIDE DEF u, w, o
      <3>6. IsPrefix(Text[n[j]], Text[k[j]]) \/ IsPrefix(Text[k[j]], Text[n[j]])
        BY <3>2, <3>4, <3>5, SpelledAlike
      <3>7. n[j] \in Range(n) /\ k[j] \in Range(k)
        BY <1>1, <3>1 DEF Range
      <3> QED BY <3>6, <3>7 DEF TextsApart
    <2>5. IsPrefix(Whole(f, n), Whole(g, k))
      BY <2>1, <2>3, Zenon
    <2> QED BY <2>1, <2>3, <2>4, <2>5, TextPrefix
  <1> QED BY <1>2, <1>3

LEMMA SpellsWithEnd ==
    ASSUME NEW n \in Name, NEW f, Builds(f, n, Len(n)), NEW i \in 1..Len(n)
    PROVE  Ends(Whole(f, n), Offset(f, i - 1), n[i])
  <1>1. Len(n) \in Nat /\ (i = Len(n) \/ i < Len(n))
    BY LenProperties DEF Name
  <1> QED BY <1>1, UriSpells DEF Ends

LEMMA SameUriPrefix ==
    ASSUME NEW n \in Name, NEW k \in Name, n # << >>, k # << >>, ToUri(n) = ToUri(k)
    PROVE  IsPrefix(n, k)
  <1>1. PICK f : /\ Builds(f, n, Len(n)) /\ ToUri(n) = Whole(f, n) /\ ToUri(n) \in Seq(Nat)
    BY LongerUri
  <1>2. PICK g : Builds(g, k, Len(k)) /\ ToUri(k) = Whole(g, k)
    BY LongerUri
  <1>3. ASSUME NEW j \in 1..Len(n), j <= Len(k), f[j - 1] = g[j - 1]
        PROVE  n[j] = k[j]
    <2>1. j \in 1..Len(k)
      BY <1>3, LenProperties DEF Name
    <2> DEFINE u == Whole(f, n)
               o == Offset(f, j - 1)
    <2>2. /\ u \in Seq(Nat) /\ o \in Nat /\ n[j] \in Component /\ Spells(u, o, n[j])
          /\ Ends(u, o, n[j])
      BY <1>1, UriSpells, SpellsWithEnd
    <2>3. o = Offset(g, j - 1) /\ u = Whole(g, k)
      BY <1>1, <1>2, <1>3 DEF Offset
    <2>4. k[j] \in Component /\ Spells(u, o, k[j]) /\ Ends(u, o, k[j])
      BY <1>2, <2>1, <2>3, UriSpells, SpellsWithEnd
    <2> HIDE DEF u, o
    <2> QED BY <2>2, <2>4, SpelledOnce
  <1>4. IsPrefix(Whole(f, n), Whole(g, k))
    BY <1>1, <1>2, PrefixReflexive
  <1> QED BY <1>1, <1>2, <1>3, <1>4, TextPrefix

(***************************************************************************)
(* Different names have different texts, so that the database, whose keys  *)
(* are texts, may be taken as a set of names.                              *)
(***************************************************************************)
THEOREM UriInjective ==
    ASSUME NEW n \in Name, NEW k \in Name, ToUri(n) = ToUri(k)
    PROVE  n = k
  <1>1. CASE n = << >> \/ k = << >>
    <2>1. ASSUME NEW m \in Name, ToUri(m) = ToUri(<< >>) PROVE m = << >>
      <3>1. Len(ToUri(m)) = 1
        BY <2>1, RootUri
      <3>2. m # << >> => Len(ToUri(m)) >= 2
        BY LongerUri
      <3> QED BY <3>1, <3>2
    <2> QED BY <1>1, <2>1
  <1>2. CASE n # << >> /\ k # << >>
    <2>1. IsPrefix(n, k) /\ IsPrefix(k, n)
      BY <1>2, SameUriPrefix
    <2>2. n \in Seq(Component) /\ k \in Seq(Component)
      BY DEF Name
    <2>3. Len(n) = Len(k) /\ \A i \in 1..Len(n) : n[i] = k[i]
      BY <2>1, <2>2, PrefixComponents, LenProperties
    <2> QED BY <2>2, <2>3, SeqEqual
  <1> QED BY <1>1, <1>2

-----------------------------------------------------------------------------
(***************************************************************************)
(* The byte order of texts is a strict total order.  Two texts are decided *)
(* at the first place where they differ, the end of a text included.       *)
(***************************************************************************)
DecidedAt(s, t, i) ==
    /\ \A j \in 1..(i - 1) : s[j] = t[j]
    /\ i = Len(s) + 1 \/ (i <= Len(s) /\ s[i] < t[i])

LEMMA PlaceBehind ==
    /\ \A a, b \in Nat : a <= b /\ a # b => a + 1 \in 1..b /\ (a + 1) - 1 = a
    /\ \A a, b \in Nat : \A i \in 1..b : i = a + 1 => a <= b /\ a # b /\ i - 1 = a
  OBVIOUS

LEMMA DecidedByEnd ==
    ASSUME NEW s, NEW t, NEW i, i = Len(s) + 1, \A j \in 1..(i - 1) : s[j] = t[j]
    PROVE  DecidedAt(s, t, i)
  <1>1. i = Len(s) + 1 \/ (i <= Len(s) /\ s[i] < t[i])
    OBVIOUS
  <1> QED BY <1>1, Zenon DEF DecidedAt

LEMMA PrecedesAt ==
    ASSUME NEW s \in Seq(Nat), NEW t \in Seq(Nat)
    PROVE  Precedes(s, t) <=> \E i \in 1..Len(t) : DecidedAt(s, t, i)
  <1>1. /\ Len(s) \in Nat /\ Len(t) \in Nat /\ DOMAIN s = 1..Len(s) /\ DOMAIN t = 1..Len(t)
    BY LenProperties
  <1>2. ASSUME IsStrictPrefix(s, t) PROVE \E i \in 1..Len(t) : DecidedAt(s, t, i)
    <2>1. Len(s) <= Len(t) /\ \A i \in 1..Len(s) : s[i] = t[i]
      BY <1>2, PrefixComponents DEF IsStrictPrefix
    <2>2. Len(s) # Len(t)
      BY <1>2, <2>1, SeqEqual DEF IsStrictPrefix
    <2>3. Len(s) + 1 \in 1..Len(t) /\ (Len(s) + 1) - 1 = Len(s)
      BY <1>1, <2>1, <2>2, PlaceBehind, Zenon
    <2> DEFINE i == Len(s) + 1
    <2>4. i \in 1..Len(t) /\ i - 1 = Len(s) /\ i = Len(s) + 1
      BY <2>3, Zenon
    <2> HIDE DEF i
    <2>5. \A j \in 1..(i - 1) : s[j] = t[j]
      BY <2>1, <2>4
    <2>6. DecidedAt(s, t, i)
      BY <2>4, <2>5, DecidedByEnd, Zenon
    <2> QED BY <2>4, <2>6, Zenon
  <1>3. ASSUME NEW i \in DOMAIN s \cap DOMAIN t, s[i] < t[i], \A j \in 1..(i - 1) : s[j] = t[j]
        PROVE  \E n \in 1..Len(t) : DecidedAt(s, t, n)
    <2>1. i \in 1..Len(s) /\ i \in 1..Len(t)
      BY <1>1, <1>3, Zenon
    <2>2. i <= Len(s)
      BY <1>1, <2>1
    <2>3. DecidedAt(s, t, i)
      BY <1>3, <2>2, Zenon DEF DecidedAt
    <2> QED BY <2>1, <2>3, Zenon
  <1>4. ASSUME NEW i \in 1..Len(t), DecidedAt(s, t, i) PROVE Precedes(s, t)
    <2>1. CASE i = Len(s) + 1
      <3>1. Len(s) <= Len(t) /\ Len(s) # Len(t) /\ i - 1 = Len(s)
        BY <1>1, <2>1, PlaceBehind, Zenon
      <3>2. \A j \in 1..Len(s) : s[j] = t[j]
        BY <1>4, <3>1, Zenon DEF DecidedAt
      <3>3. IsPrefix(s, t)
        BY <3>1, <3>2, PrefixComponents
      <3> QED BY <3>1, <3>3 DEF Precedes, IsStrictPrefix
    <2>2. CASE i <= Len(s) /\ s[i] < t[i]
      <3>1. i \in DOMAIN s \cap DOMAIN t
        BY <1>1, <2>2
      <3> QED BY <1>4, <2>2, <3>1 DEF Precedes, DecidedAt
    <2> QED BY <1>4, <2>1, <2>2 DEF DecidedAt
  <1> QED BY <1>2, <1>3, <1>4 DEF Precedes

LEMMA PrecedesAsymmetric ==
    ASSUME NEW s \in Seq(Nat), NEW t \in Seq(Nat), Precedes(s, t)
    PROVE  ~Precedes(t, s)
  <1> SUFFICES ASSUME Precedes(t, s) PROVE FALSE
    OBVIOUS
  <1>1. PICK i \in 1..Len(t) : DecidedAt(s, t, i)
    BY PrecedesAt
  <1>2. PICK j \in 1..Len(s) : DecidedAt(t, s, j)
    BY PrecedesAt
  <1>3. /\ Len(s) \in Nat /\ Len(t) \in Nat
        /\ \A x \in 1..Len(s) : s[x] \in Nat
        /\ \A x \in 1..Len(t) : t[x] \in Nat
    BY LenProperties
  <1>4. CASE i < j
    <2>1. i \in 1..(j - 1) /\ i # Len(s) + 1 /\ i \in 1..Len(s)
      BY <1>3, <1>4
    <2>2. s[i] < t[i] /\ t[i] = s[i]
      BY <1>1, <1>2, <2>1 DEF DecidedAt
    <2> QED BY <1>3, <2>1, <2>2
  <1>5. CASE j < i
    <2>1. j \in 1..(i - 1) /\ j # Len(t) + 1 /\ j \in 1..Len(t)
      BY <1>3, <1>5
    <2>2. t[j] < s[j] /\ s[j] = t[j]
      BY <1>1, <1>2, <2>1 DEF DecidedAt
    <2> QED BY <1>3, <2>1, <2>2
  <1>6. CASE i = j
    <2>1. i # Len(s) + 1 /\ i # Len(t) + 1 /\ i \in 1..Len(s)
      BY <1>3, <1>6
    <2>2. s[i] < t[i] /\ t[i] < s[i]
      BY <1>1, <1>2, <1>6, <2>1 DEF DecidedAt
    <2> QED BY <1>3, <2>1, <2>2
  <1> QED BY <1>3, <1>4, <1>5, <1>6

LEMMA PrecedesTransitive ==
    ASSUME NEW s \in Seq(Nat), NEW t \in Seq(Nat), NEW r \in Seq(Nat),
           Precedes(s, t), Precedes(t, r)
    PROVE  Precedes(s, r)
  <1>1. PICK i \in 1..Len(t) : DecidedAt(s, t, i)
    BY PrecedesAt
  <1>2. PICK j \in 1..Len(r) : DecidedAt(t, r, j)
    BY PrecedesAt
  <1>3. /\ Len(s) \in Nat /\ Len(t) \in Nat /\ Len(r) \in Nat
        /\ \A x \in 1..Len(s) : s[x] \in Nat
        /\ \A x \in 1..Len(t) : t[x] \in Nat
        /\ \A x \in 1..Len(r) : r[x] \in Nat
    BY LenProperties
  <1>4. CASE i <= j
    <2>1. i \in 1..Len(r) /\ \A x \in 1..(i - 1) : x \in 1..(j - 1)
      BY <1>3, <1>4
    <2>2. \A x \in 1..(i - 1) : s[x] = r[x]
      BY <1>1, <1>2, <2>1 DEF DecidedAt
    <2>3. t[i] <= r[i]
      <3>1. CASE i = j
        <4>1. j # Len(t) + 1
          BY <1>3, <3>1
        <4>2. t[j] < r[j]
          BY <1>2, <4>1 DEF DecidedAt
        <4> QED BY <1>3, <2>1, <3>1, <4>2
      <3>2. CASE i # j
        <4>1. i \in 1..(j - 1)
          BY <1>3, <1>4, <3>2
        <4>2. t[i] = r[i]
          BY <1>2, <4>1 DEF DecidedAt
        <4> QED BY <1>3, <2>1, <4>2
      <3> QED BY <3>1, <3>2
    <2>4. i = Len(s) + 1 \/ (i <= Len(s) /\ s[i] < r[i])
      <3>1. CASE i <= Len(s) /\ s[i] < t[i]
        <4>1. i \in 1..Len(s)
          BY <1>3, <3>1
        <4>2. s[i] \in Nat /\ t[i] \in Nat /\ r[i] \in Nat
          BY <1>3, <2>1, <4>1
        <4>3. s[i] < r[i]
          <5>1. \A x, y, z \in Nat : x < y /\ y <= z => x < z
            OBVIOUS
          <5> QED BY <2>3, <3>1, <4>2, <5>1, Zenon
        <4> QED BY <3>1, <4>3
      <3>2. i = Len(s) + 1 \/ (i <= Len(s) /\ s[i] < t[i])
        BY <1>1, Zenon DEF DecidedAt
      <3> QED BY <3>1, <3>2, Zenon
    <2> QED BY <2>1, <2>2, <2>4, PrecedesAt DEF DecidedAt
  <1>5. CASE j < i
    <2>1. j \in 1..(i - 1) /\ j \in 1..Len(t) /\ j # Len(t) + 1
          /\ \A x \in 1..(j - 1) : x \in 1..(i - 1)
      BY <1>3, <1>5
    <2>2. \A x \in 1..(j - 1) : s[x] = r[x]
      BY <1>1, <1>2, <2>1 DEF DecidedAt
    <2>3. t[j] < r[j] /\ s[j] = t[j]
      BY <1>1, <1>2, <2>1 DEF DecidedAt
    <2>4. j <= Len(s)
      <3>1. i = Len(s) + 1 \/ i <= Len(s)
        BY <1>1 DEF DecidedAt
      <3> QED BY <1>3, <1>5, <3>1
    <2> QED BY <2>2, <2>3, <2>4, PrecedesAt DEF DecidedAt
  <1> QED BY <1>3, <1>4, <1>5

LEMMA PrecedesTotal ==
    ASSUME NEW s \in Seq(Nat), NEW t \in Seq(Nat), s # t
    PROVE  Precedes(s, t) \/ Precedes(t, s)
  <1> DEFINE Bad == {i \in Nat : i >= 1 /\ (i > Len(s) \/ i > Len(t) \/ s[i] # t[i])}
  <1>1. /\ Len(s) \in Nat /\ Len(t) \in Nat
        /\ \A x \in 1..Len(s) : s[x] \in Nat
        /\ \A x \in 1..Len(t) : t[x] \in Nat
    BY LenProperties
  <1>2. PICK i \in Bad : \A other \in Bad : i <= other
    <2>1. Len(s) + 1 \in Bad
      BY <1>1
    <2>2. Bad \subseteq Nat /\ Bad # {}
      BY <2>1
    <2> HIDE DEF Bad
    <2> QED BY <2>2, LeastNat
  <1>3. i \in Nat /\ i >= 1 /\ (i > Len(s) \/ i > Len(t) \/ s[i] # t[i])
    BY <1>2
  <1>4. \A j \in 1..(i - 1) : j <= Len(s) /\ j <= Len(t) /\ s[j] = t[j]
    <2> TAKE j \in 1..(i - 1)
    <2>1. j \in Nat /\ j >= 1 /\ ~(i <= j)
      BY <1>3
    <2>2. j \notin Bad
      BY <1>2, <2>1
    <2> QED BY <1>1, <2>1, <2>2
  <1>5. i - 1 <= Len(s) /\ i - 1 <= Len(t)
    BY <1>1, <1>3, <1>4
  <1>6. i <= Len(s) \/ i <= Len(t)
    <2>1. ASSUME i > Len(s), i > Len(t) PROVE s = t
      <3>1. Len(s) = i - 1 /\ Len(t) = i - 1
        BY <1>1, <1>3, <1>5, <2>1
      <3>2. Len(s) = Len(t) /\ \A j \in 1..Len(s) : s[j] = t[j]
        BY <1>4, <3>1
      <3> QED BY <3>2, SeqEqual
    <2> QED BY <1>1, <1>3, <2>1
  <1>7. CASE i > Len(s)
    <2>1. i \in 1..Len(t) /\ i = Len(s) + 1
      BY <1>1, <1>3, <1>5, <1>6, <1>7
    <2>2. DecidedAt(s, t, i)
      <3>1. \A j \in 1..(i - 1) : s[j] = t[j]
        BY <1>4, Zenon
      <3> QED BY <2>1, <3>1, DecidedByEnd, Zenon
    <2> QED BY <2>1, <2>2, PrecedesAt, Zenon
  <1>8. CASE i > Len(t)
    <2>1. i \in 1..Len(s) /\ i = Len(t) + 1
      BY <1>1, <1>3, <1>5, <1>6, <1>8
    <2>2. DecidedAt(t, s, i)
      <3>1. \A j \in 1..(i - 1) : t[j] = s[j]
        BY <1>4, Zenon
      <3> QED BY <2>1, <3>1, DecidedByEnd, Zenon
    <2> QED BY <2>1, <2>2, PrecedesAt, Zenon
  <1>9. CASE i <= Len(s) /\ i <= Len(t)
    <2>1. i \in 1..Len(s) /\ i \in 1..Len(t) /\ s[i] # t[i]
      BY <1>1, <1>3, <1>9
    <2>2. s[i] < t[i] \/ t[i] < s[i]
      BY <1>1, <2>1
    <2> QED BY <1>4, <1>9, <2>1, <2>2, PrecedesAt DEF DecidedAt
  <1> QED BY <1>1, <1>3, <1>7, <1>8, <1>9

(***************************************************************************)
(* So of the keys of a walk exactly one is visited last.                   *)
(***************************************************************************)
LEMMA KeysOrdered ==
    ASSUME NEW k \in Name, NEW m \in Name, k # m
    PROVE  /\ Precedes(ToUri(k), ToUri(m)) \/ Precedes(ToUri(m), ToUri(k))
           /\ ~(Precedes(ToUri(k), ToUri(m)) /\ Precedes(ToUri(m), ToUri(k)))
  <1>1. ToUri(k) \in Seq(Nat) /\ ToUri(m) \in Seq(Nat) /\ ToUri(k) # ToUri(m)
    BY UriType, UriInjective
  <1> QED BY <1>1, PrecedesTotal, PrecedesAsymmetric, Zenon

LEMMA OneLastKey ==
    ASSUME NEW keys, keys \subseteq Name, NEW k \in LastKey(keys), NEW m \in LastKey(keys)
    PROVE  k = m
  <1> SUFFICES ASSUME k # m PROVE FALSE
    OBVIOUS
  <1>1. k \in keys /\ m \in keys /\ k \in Name /\ m \in Name
    BY DEF LastKey
  <1>2. Precedes(ToUri(m), ToUri(k)) /\ Precedes(ToUri(k), ToUri(m))
    BY <1>1 DEF LastKey
  <1> QED BY <1>1, <1>2, KeysOrdered

LEMMA SomeLastKey ==
    ASSUME NEW keys, keys \subseteq Name, IsFiniteSet(keys), keys # {}
    PROVE  LastKey(keys) # {}
  <1> DEFINE Bad == {s \in FiniteSubsetsOf(Name) : s # {} /\ LastKey(s) = {}}
  <1> SUFFICES ASSUME LastKey(keys) = {} PROVE FALSE
    OBVIOUS
  <1>1. keys \in Bad
    BY DEF FiniteSubsetsOf
  <1>2. PICK s \in Bad : \A r \in Bad : ~(<<r, s>> \in StrictSubsetOrdering(Name))
    <2>1. IsWellFoundedOn(StrictSubsetOrdering(Name), FiniteSubsetsOf(Name))
      BY FS_StrictSubsetOrderingWellFounded
    <2>2. Bad \subseteq FiniteSubsetsOf(Name) /\ Bad # {}
      BY <1>1
    <2> HIDE DEF Bad
    <2> QED BY <2>1, <2>2, WFMin, Zenon
  <1>3. s \subseteq Name /\ IsFiniteSet(s) /\ s # {} /\ LastKey(s) = {}
    BY <1>2 DEF FiniteSubsetsOf
  <1>4. PICK x \in s : TRUE
    BY <1>3
  <1> DEFINE rest == s \ {x}
  <1>5. rest \subseteq Name /\ IsFiniteSet(rest) /\ x \in Name
    BY <1>3, FS_RemoveElement
  <1>6. rest # {}
    <2>1. ASSUME rest = {} PROVE x \in LastKey(s)
      BY <2>1 DEF LastKey
    <2> QED BY <1>3, <2>1
  <1>7. LastKey(rest) # {}
    <2>1. rest \in FiniteSubsetsOf(Name) /\ <<rest, s>> \in StrictSubsetOrdering(Name)
      BY <1>3, <1>4, <1>5 DEF FiniteSubsetsOf, StrictSubsetOrdering
    <2>2. rest \notin Bad
      BY <1>2, <2>1
    <2> QED BY <1>6, <2>1, <2>2
  <1>8. PICK y \in LastKey(rest) : TRUE
    BY <1>7
  <1>9. y \in s /\ y # x /\ y \in Name /\ \A m \in rest \ {y} : Precedes(ToUri(m), ToUri(y))
    BY <1>3, <1>8 DEF LastKey
  <1>10. CASE Precedes(ToUri(x), ToUri(y))
    <2>1. y \in LastKey(s)
      BY <1>9, <1>10 DEF LastKey
    <2> QED BY <1>3, <2>1
  <1>11. CASE Precedes(ToUri(y), ToUri(x))
    <2>1. ASSUME NEW m \in s \ {x} PROVE Precedes(ToUri(m), ToUri(x))
      <3>1. m = y \/ Precedes(ToUri(m), ToUri(y))
        BY <1>9, <2>1
      <3>2. ToUri(m) \in Seq(Nat) /\ ToUri(x) \in Seq(Nat) /\ ToUri(y) \in Seq(Nat)
        BY <1>3, <1>5, <1>9, <2>1, UriType
      <3> QED BY <1>11, <3>1, <3>2, PrecedesTransitive
    <2>2. x \in LastKey(s)
      BY <2>1 DEF LastKey
    <2> QED BY <1>3, <2>2
  <1> QED BY <1>5, <1>9, <1>10, <1>11, KeysOrdered

-----------------------------------------------------------------------------
(***************************************************************************)
(* Type correctness, for Interests and packets of any number: only names   *)
(* are stored and only names are sent.                                     *)
(***************************************************************************)
LEMMA LastKeyIsKey ==
    ASSUME NEW keys
    PROVE  LastKey(keys) \subseteq keys
  BY DEF LastKey

LEMMA ReadIsStored ==
    ASSUME NEW i
    PROVE  Read(i) \subseteq db
  <1>1. Walk(i) \subseteq db /\ Get(i.name) \subseteq db
    BY DEF Walk, Get
  <1> QED BY <1>1, LastKeyIsKey, Zenon DEF Read

THEOREM ReadTypeCorrect == ReadSpec => []ReadTypeOK
  <1>1. ReadInit => ReadTypeOK
    <2> SUFFICES ASSUME ReadInit PROVE ReadTypeOK
      OBVIOUS
    <2>1. EngineTypeOK
      BY DEF ReadInit, EngineTypeOK
    <2>2. PICK i \in Interests : answer = [interest |-> i, sent |-> {}]
      BY DEF ReadInit
    <2>3. answer \in [interest : Interests, sent : SUBSET Name]
      BY <2>2
    <2> QED BY <2>1, <2>3 DEF ReadTypeOK
  <1>2. ReadTypeOK /\ [ReadNext]_readVars => ReadTypeOK'
    <2> SUFFICES ASSUME ReadTypeOK, [ReadNext]_readVars PROVE ReadTypeOK'
      OBVIOUS
    <2>1. ASSUME NEW i \in Interests, OnInterest(i) PROVE ReadTypeOK'
      <3>1. EngineTypeOK'
        BY <2>1 DEF OnInterest, ReadTypeOK, EngineTypeOK, engineVars
      <3>2. PICK sent \in SUBSET Name : answer' = [interest |-> i, sent |-> sent]
        <4>1. Read(i) \in SUBSET Name
          BY ReadIsStored DEF ReadTypeOK, EngineTypeOK
        <4> QED BY <2>1, <4>1 DEF OnInterest
      <3>3. answer' \in [interest : Interests, sent : SUBSET Name]
        BY <3>2
      <3> QED BY <3>1, <3>3 DEF ReadTypeOK
    <2>2. ASSUME NEW d \in Packets, NEW ok \in PutOutcomes, Store(d, ok) PROVE ReadTypeOK'
      <3>1. KeyOf(d) \in Name
        BY PacketsAssumption, KeyIsName
      <3>2. db' \subseteq Name
        BY <2>2, <3>1 DEF Store, Put, ReadTypeOK, EngineTypeOK
      <3> QED BY <2>2, <3>2 DEF Store, ReadTypeOK, EngineTypeOK
    <2>3. CASE UNCHANGED readVars
      BY <2>3 DEF readVars, engineVars, ReadTypeOK, EngineTypeOK
    <2> QED BY <2>1, <2>2, <2>3 DEF ReadNext
  <1> QED BY <1>1, <1>2, PTL DEF ReadSpec

(***************************************************************************)
(* What is sent depends on the database only through its being a finite    *)
(* set of names, which it is in every state: keys come one by one.         *)
(***************************************************************************)
FiniteStore == db \subseteq Name /\ IsFiniteSet(db)

LEMMA StoreIsFinite == ReadSpec => []FiniteStore
  <1>1. ReadInit => FiniteStore
    BY FS_EmptySet DEF ReadInit, FiniteStore
  <1>2. FiniteStore /\ [ReadNext]_readVars => FiniteStore'
    <2> SUFFICES ASSUME FiniteStore, [ReadNext]_readVars PROVE FiniteStore'
      OBVIOUS
    <2>1. ASSUME NEW i \in Interests, OnInterest(i) PROVE FiniteStore'
      BY <2>1 DEF OnInterest, engineVars, FiniteStore
    <2>2. ASSUME NEW d \in Packets, NEW ok \in PutOutcomes, Store(d, ok) PROVE FiniteStore'
      <3>1. KeyOf(d) \in Name
        BY PacketsAssumption, KeyIsName
      <3>2. IsFiniteSet(db \cup {KeyOf(d)})
        BY FS_AddElement DEF FiniteStore
      <3> QED BY <2>2, <3>1, <3>2 DEF Store, Put, FiniteStore
    <2>3. CASE UNCHANGED readVars
      BY <2>3 DEF readVars, engineVars, FiniteStore
    <2> QED BY <2>1, <2>2, <2>3 DEF ReadNext
  <1> QED BY <1>1, <1>2, PTL DEF ReadSpec

(***************************************************************************)
(* A key of the database that an Interest matches is visited by its walk.  *)
(***************************************************************************)
LEMMA MatchIsVisited ==
    ASSUME FiniteStore, NEW i \in Interests, i.canBePrefix, NEW k \in db, Matches(i, k)
    PROVE  k \in Walk(i)
  <1>1. i.name \in Name /\ k \in Name
    BY InterestsAssumption DEF Interest, FiniteStore
  <1>2. IsPrefix(i.name, k) /\ WithinLimits(i, k)
    BY DEF Matches
  <1>3. IsPrefix(ToUri(i.name), ToUri(k))
    BY <1>1, <1>2, UriOfPrefix
  <1>4. Passes(i, k)
    BY <1>2, Zenon DEF WithinLimits, Passes
  <1> QED BY <1>3, <1>4 DEF Walk

(***************************************************************************)
(* An Interest that some stored packet matches is answered with exactly    *)
(* one packet of the database, whatever the texts of the components are.   *)
(***************************************************************************)
THEOREM EveryReadAnswersOnce == ReadSpec => []ReadAnswersOnce
  <1>1. FiniteStore => ReadAnswersOnce
    <2> SUFFICES ASSUME FiniteStore, NEW i \in Interests
                 PROVE  /\ Cardinality(Read(i)) <= 1
                        /\ Read(i) \subseteq db
                        /\ (\E k \in db : Matches(i, k)) => Read(i) # {}
      BY DEF ReadAnswersOnce
    <2>1. Read(i) \subseteq db
      BY ReadIsStored
    <2>2. Walk(i) \subseteq Name /\ IsFiniteSet(Walk(i))
      <3>1. Walk(i) \in SUBSET db
        BY DEF Walk
      <3> QED BY <3>1, FS_Subset DEF FiniteStore
    <2>3. \A k, m \in Read(i) : k = m
      <3>1. CASE i.canBePrefix
        BY <2>2, <3>1, OneLastKey DEF Read
      <3>2. CASE ~i.canBePrefix
        BY <3>2 DEF Read, Get
      <3> QED BY <3>1, <3>2
    <2>4. Cardinality(Read(i)) <= 1
      <3> DEFINE sent == Read(i)
      <3>1. sent = {} \/ \E k : sent = {k}
        BY <2>3
      <3> HIDE DEF sent
      <3>2. CASE sent = {}
        <4>1. Cardinality(sent) = 0
          BY <3>2, FS_EmptySet, Zenon
        <4> QED BY <4>1 DEF sent
      <3>3. CASE \E k : sent = {k}
        <4>1. Cardinality(sent) = 1
          BY <3>3, FS_Singleton, Zenon
        <4> QED BY <4>1 DEF sent
      <3> QED BY <3>1, <3>2, <3>3
    <2>5. ASSUME NEW k \in db, Matches(i, k) PROVE Read(i) # {}
      <3>1. CASE i.canBePrefix
        <4>1. Walk(i) # {}
          BY <2>5, <3>1, MatchIsVisited
        <4>2. LastKey(Walk(i)) # {}
          BY <2>2, <4>1, SomeLastKey
        <4> QED BY <3>1, <4>2 DEF Read
      <3>2. CASE ~i.canBePrefix
        BY <2>5, <3>2 DEF Read, Get, Matches
      <3> QED BY <3>1, <3>2
    <2> QED BY <2>1, <2>4, <2>5
  <1> QED BY <1>1, StoreIsFinite, PTL

(***************************************************************************)
(* A prefix read without limits returns a key that no match follows.       *)
(***************************************************************************)
THEOREM NoMatchFollows == ReadSpec => []ReadIsLast
  <1>1. FiniteStore => ReadIsLast
    <2> SUFFICES ASSUME FiniteStore, NEW i \in Interests, i.canBePrefix,
                        NEW sent \in Read(i), NEW k \in db, Matches(i, k)
                 PROVE  k = sent \/ Precedes(ToUri(k), ToUri(sent))
      BY DEF ReadIsLast
    <2>1. k \in Walk(i)
      BY MatchIsVisited
    <2>2. sent \in LastKey(Walk(i))
      BY DEF Read
    <2> QED BY <2>1, <2>2 DEF LastKey
  <1> QED BY <1>1, StoreIsFinite, PTL

(***************************************************************************)
(* When no component's text continues another's and one of the limits is   *)
(* absent, what is sent is what the Interest asked for.                    *)
(***************************************************************************)
THEOREM MatchesWhenApart == ReadSpec => []ReadMatchesWhenApart
  <1>1. FiniteStore => ReadMatchesWhenApart
    <2> SUFFICES ASSUME FiniteStore, NEW i \in Interests, i.min = -1 \/ i.max = -1,
                        NEW sent \in Read(i), TextsApart(sent, i.name)
                 PROVE  Matches(i, sent)
      BY DEF ReadMatchesWhenApart
    <2>1. i.name \in Name /\ sent \in Name
      BY ReadIsStored, InterestsAssumption DEF Interest, FiniteStore
    <2>2. CASE ~i.canBePrefix
      BY <2>2 DEF Read, Get, Matches
    <2>3. CASE i.canBePrefix
      <3>1. IsPrefix(ToUri(i.name), ToUri(sent)) /\ Passes(i, sent)
        BY <2>3, LastKeyIsKey DEF Read, Walk
      <3>2. IsPrefix(i.name, sent)
        BY <2>1, <3>1, PrefixWhenApart
      <3>3. WithinLimits(i, sent)
        BY <3>1, Zenon DEF WithinLimits, Passes
      <3> QED BY <2>3, <3>2, <3>3 DEF Matches
    <2> QED BY <2>2, <2>3
  <1> QED BY <1>1, StoreIsFinite, PTL

(***************************************************************************)
(* The loop of getLongestPrefixes and its description agree on whatever    *)
(* put() may have stored.                                                  *)
(***************************************************************************)
THEOREM LoopAgrees == ReadSpec => []LoopComputesLongestPrefixes
  <1>1. FiniteStore => LoopComputesLongestPrefixes
    <2> SUFFICES ASSUME FiniteStore PROVE LoopComputesLongestPrefixes
      OBVIOUS
    <2>1. db \in SUBSET Name /\ IsFiniteSet(db)
      BY DEF FiniteStore
    <2> QED BY <2>1, LoopMeetsDescription, Zenon DEF LoopComputesLongestPrefixes
  <1> QED BY <1>1, StoreIsFinite, PTL
=============================================================================
