----------------------------- MODULE TextsProofs -----------------------------
(***************************************************************************)
(* Proofs about Texts: its invariants on tags, digests and hashes, for     *)
(* every set of characters that are typed, every bound on the length of a  *)
(* text and every length of a digest. What counts as a digit, a hex digit  *)
(* or a letter is ASCII's, as in the code.                                 *)
(*                                                                         *)
(* No character enters a text that is not of Alphabet, and that is all the *)
(* induction there is. Each property is a lemma about every sequence,      *)
(* from what the operators of Texts do to the positions of one: they cut   *)
(* it, at places that a quantifier names.                                  *)
(***************************************************************************)
EXTENDS Texts, SequenceTheorems, FiniteSetTheorems, WellFoundedInduction, TLAPS

-----------------------------------------------------------------------------
(* What the operations on texts do to positions *)

LEMMA SubSeqFacts ==
  ASSUME NEW C, NEW s \in Seq(C), NEW a \in Nat \ {0}, NEW b \in 0..Len(s)
  PROVE  /\ SubSeq(s, a, b) \in Seq(C)
         /\ Len(SubSeq(s, a, b)) = (IF a <= b THEN b - a + 1 ELSE 0)
         /\ \A i \in 1..b - a + 1 : SubSeq(s, a, b)[i] = s[a + i - 1]
<1>1. \A i \in a..b : s[i] \in C
  OBVIOUS
<1> QED BY <1>1, SubSeqProperties

LEMMA DropFacts ==
  ASSUME NEW C, NEW s \in Seq(C), NEW n \in 0..Len(s)
  PROVE  /\ Drop(s, n) \in Seq(C)
         /\ Len(Drop(s, n)) = Len(s) - n
         /\ \A i \in 1..Len(s) - n : Drop(s, n)[i] = s[n + i]
BY SubSeqFacts, SMTT(20) DEF Drop

LEMMA PrefixFacts ==
  ASSUME NEW C, NEW s \in Seq(C), NEW D, NEW p \in Seq(D)
  PROVE  IsPrefix(p, s) <=> Len(p) <= Len(s) /\ \A i \in 1..Len(p) : p[i] = s[i]
<1>1. SubSeq(p, 1, Len(p)) = p
  BY SubSeqFull
<1>2. ASSUME Len(p) <= Len(s)
      PROVE  /\ SubSeq(s, 1, Len(p)) \in Seq(C)
             /\ Len(SubSeq(s, 1, Len(p))) = Len(p)
             /\ \A i \in 1..Len(p) : SubSeq(s, 1, Len(p))[i] = s[i]
  BY <1>2, SubSeqFacts
<1> QED BY <1>1, <1>2, SeqEqual, SeqMonotonic DEF IsPrefix

LEMMA Prefix2 ==
  ASSUME NEW C, NEW s \in Seq(C), NEW a, NEW b
  PROVE  IsPrefix(<<a, b>>, s) <=> Len(s) >= 2 /\ s[1] = a /\ s[2] = b
<1>1. <<a, b>> \in Seq({a, b}) /\ Len(<<a, b>>) = 2
  OBVIOUS
<1>2. <<a, b>>[1] = a /\ <<a, b>>[2] = b
  OBVIOUS
<1> DEFINE p == <<a, b>>
           D == {a, b}
<1> HIDE DEF p, D
<1>3. p \in Seq(D) /\ Len(p) = 2 /\ p[1] = a /\ p[2] = b
  BY <1>1, <1>2 DEF p, D
<1>4. IsPrefix(p, s) <=> Len(p) <= Len(s) /\ \A i \in 1..Len(p) : p[i] = s[i]
  BY <1>3, PrefixFacts, Zenon
<1>5. IsPrefix(p, s) <=> Len(s) >= 2 /\ s[1] = a /\ s[2] = b
  BY <1>3, <1>4
<1> QED BY <1>5 DEF p

LEMMA Prefix3 ==
  ASSUME NEW C, NEW s \in Seq(C), NEW a, NEW b, NEW c
  PROVE  IsPrefix(<<a, b, c>>, s) <=> Len(s) >= 3 /\ s[1] = a /\ s[2] = b /\ s[3] = c
<1>1. <<a, b, c>> \in Seq({a, b, c}) /\ Len(<<a, b, c>>) = 3
  OBVIOUS
<1>2. <<a, b, c>>[1] = a /\ <<a, b, c>>[2] = b /\ <<a, b, c>>[3] = c
  OBVIOUS
<1> DEFINE p == <<a, b, c>>
           D == {a, b, c}
<1> HIDE DEF p, D
<1>3. p \in Seq(D) /\ Len(p) = 3 /\ p[1] = a /\ p[2] = b /\ p[3] = c
  BY <1>1, <1>2 DEF p, D
<1>4. IsPrefix(p, s) <=> Len(p) <= Len(s) /\ \A i \in 1..Len(p) : p[i] = s[i]
  BY <1>3, PrefixFacts, Zenon
<1>5. IsPrefix(p, s) <=> Len(s) >= 3 /\ s[1] = a /\ s[2] = b /\ s[3] = c
  BY <1>3, <1>4
<1> QED BY <1>5 DEF p

(* Two texts are equal if they agree at every position. *)
LEMMA SameText ==
  ASSUME NEW C, NEW s \in Seq(C), NEW D, NEW t \in Seq(D), Len(s) = Len(t),
         \A i \in 1..Len(s) : s[i] = t[i]
  PROVE  s = t
BY SeqEqual, SeqMonotonic

LEMMA AllFacts ==
  ASSUME NEW C, NEW s \in Seq(C), NEW S
  PROVE  All(s, S) <=> \A i \in 1..Len(s) : s[i] \in S
BY DEF All

-----------------------------------------------------------------------------
(* The state *)

Chars == UNION {Alphabet[k] : k \in DOMAIN Alphabet}

TypeOK ==
  /\ kind \in DOMAIN Alphabet
  /\ text \in Seq(Chars)

(* What is typed is a sequence of characters of the alphabets. *)
THEOREM TextIsTyped == Spec => []TypeOK
<1>1. Init => TypeOK
  BY DEF Init, TypeOK
<1>2. TypeOK /\ [Next]_vars => TypeOK'
  <2> SUFFICES ASSUME TypeOK, [Next]_vars PROVE TypeOK'
    OBVIOUS
  <2>1. ASSUME NEW c \in Alphabet[kind], Type(c) PROVE TypeOK'
    <3>1. c \in Chars
      BY DEF TypeOK, Chars
    <3> QED BY <2>1, <3>1 DEF TypeOK, Type
  <2>2. CASE Done \/ UNCHANGED vars
    BY <2>2 DEF Done, vars, TypeOK
  <2> QED BY <2>1, <2>2 DEF Next
<1> QED BY <1>1, <1>2, PTL DEF Spec

-----------------------------------------------------------------------------
(* The least and the greatest of a set of positions *)

LEMMA Least ==
  ASSUME NEW S, S \subseteq Nat, S # {}
  PROVE  \E m \in S : \A n \in S : m <= n
<1> DEFINE R == OpToRel(<, Nat)
<1>1. IsWellFoundedOn(R, Nat)
  BY NatLessThanWellFounded
<1>2. \A a, b \in Nat : a < b => <<a, b>> \in R
  BY DEF OpToRel
<1> HIDE DEF R
<1>3. PICK m \in S : \A n \in S : ~ (<<n, m>> \in R)
  BY <1>1, WFMin, Zenon
<1>4. \A n \in S : n \in Nat /\ m \in Nat /\ ~ (n < m)
  BY <1>2, <1>3
<1>5. \A n \in S : m <= n
  BY <1>4
<1> QED BY <1>5

LEMMA Greatest ==
  ASSUME NEW N \in Nat, NEW S, S \subseteq 0..N, S # {}
  PROVE  \E m \in S : \A n \in S : n <= m
<1> DEFINE T == {N - n : n \in S}
<1>0. \A n \in S : n \in 0..N /\ N - n \in Nat
  OBVIOUS
<1>1. T \subseteq Nat /\ T # {}
  BY <1>0
<1> HIDE DEF T
<1>2. PICK t \in T : \A n \in T : t <= n
  BY <1>1, Least
<1>3. PICK m \in S : t = N - m
  BY DEF T
<1>4. \A n \in S : N - m <= N - n
  BY <1>2, <1>3 DEF T
<1>5. \A n \in S : n \in 0..N /\ m \in 0..N
  OBVIOUS
<1>6. \A n \in S : n <= m
  BY <1>4, <1>5
<1> QED BY <1>6

-----------------------------------------------------------------------------
(* Release tags *)

(* The core of a version ends before its first dash, or with it. *)
LEMMA CoreFacts ==
  ASSUME NEW C, NEW v \in Seq(C), NEW core, core = Core(v)
  PROVE  /\ core \in Seq(C)
         /\ Len(core) \in 0..Len(v)
         /\ \A m \in 1..Len(core) : core[m] = v[m] /\ v[m] # "-"
         /\ Len(core) < Len(v) => v[Len(core) + 1] = "-"
         /\ core = v <=> Len(core) = Len(v)
<1>0. Len(v) \in Nat /\ DOMAIN v = 1..Len(v)
  OBVIOUS
<1>1. CASE Dashes(v) = {}
  <2>1. core = v
    BY <1>1 DEF Core
  <2>2. \A m \in 1..Len(v) : v[m] # "-"
    BY <1>0, <1>1 DEF Dashes
  <2> QED BY <1>0, <2>1, <2>2
<1>2. CASE Dashes(v) # {}
  <2> DEFINE f == FirstDash(v)
  <2>1. Dashes(v) \subseteq Nat
    BY <1>0 DEF Dashes
  <2>2. f \in Dashes(v) /\ \A j \in Dashes(v) : f <= j
    BY <1>2, <2>1, Least DEF FirstDash
  <2> HIDE DEF f
  <2>3. f \in 1..Len(v) /\ v[f] = "-"
    BY <1>0, <2>2 DEF Dashes
  <2>4. \A m \in 1..f - 1 : v[m] # "-"
    BY <1>0, <2>2, <2>3 DEF Dashes
  <2>5. core = SubSeq(v, 1, f - 1)
    BY <1>2 DEF Core, f
  <2>6. f - 1 \in 0..Len(v)
    BY <1>0, <2>3
  <2>7. /\ core \in Seq(C)
        /\ Len(core) = (IF 1 <= f - 1 THEN f - 1 - 1 + 1 ELSE 0)
        /\ \A i \in 1..f - 1 - 1 + 1 : core[i] = v[1 + i - 1]
    BY <2>5, <2>6, SubSeqFacts
  <2>8. Len(core) = f - 1
    BY <1>0, <2>3, <2>7
  <2>9. \A i \in 1..f - 1 : core[i] = v[i]
    BY <1>0, <2>3, <2>7
  <2> QED BY <1>0, <2>3, <2>4, <2>6, <2>7, <2>8, <2>9
<1> QED BY <1>1, <1>2

LEMMA OneMore ==
  ASSUME NEW S, NEW x, IsFiniteSet(S), x \notin S
  PROVE  IsFiniteSet(S \cup {x}) /\ Cardinality(S \cup {x}) = Cardinality(S) + 1
BY FS_AddElement, Zenon

LEMMA OneLess ==
  ASSUME NEW S, NEW x \in S, IsFiniteSet(S)
  PROVE  IsFiniteSet(S \ {x}) /\ Cardinality(S \ {x}) = Cardinality(S) - 1
BY FS_RemoveElement, Zenon

Places(s, d) == {i \in DOMAIN s : s[i] = d}

(* A text that is cut at a separator in three has two of them. *)
LEMMA TwoCuts ==
  ASSUME NEW C, NEW c \in Seq(C), NEW d, NEW D, D = Places(c, d)
  PROVE  Cardinality(Cuts(c, d)) - 1 = 3 <=> \E i, j \in 1..Len(c) : i < j /\ D = {i, j}
<1>0. Len(c) \in Nat /\ DOMAIN c = 1..Len(c)
  OBVIOUS
<1>1. IsFiniteSet(D) /\ D \subseteq 1..Len(c) /\ Cardinality(D) \in Nat
  <2>1. D \subseteq 1..Len(c)
    BY <1>0 DEF Places
  <2>2. IsFiniteSet(1..Len(c))
    BY <1>0, FS_Interval
  <2>3. IsFiniteSet(D)
    BY <2>1, <2>2, FS_Subset, Zenon
  <2> QED BY <2>1, <2>3, FS_CardinalityType, Zenon
<1>2. Cardinality(Cuts(c, d)) = Cardinality(D) + 2
  <2>1. IsFiniteSet(D \cup {0}) /\ Cardinality(D \cup {0}) = Cardinality(D) + 1
    <3>1. 0 \notin D
      BY <1>0, <1>1
    <3> QED BY <1>1, <3>1, OneMore, Zenon
  <2>2. Cardinality((D \cup {0}) \cup {Len(c) + 1}) = Cardinality(D) + 1 + 1
    <3>1. Len(c) + 1 \notin D \cup {0}
      BY <1>0, <1>1
    <3> QED BY <2>1, <3>1, OneMore, Zenon
  <2>3. Cuts(c, d) = (D \cup {0}) \cup {Len(c) + 1}
    BY DEF Cuts, Places
  <2> QED BY <1>1, <2>2, <2>3
<1>3. ASSUME Cardinality(D) = 2
      PROVE  \E i, j \in 1..Len(c) : i < j /\ D = {i, j}
  <2>1. D # {}
    <3>1. Cardinality({}) = 0
      BY FS_EmptySet
    <3>2. Cardinality(D) # Cardinality({})
      BY <1>3, <3>1
    <3> QED BY <3>2
  <2>2. PICK x \in D : TRUE
    BY <2>1
  <2>3. IsFiniteSet(D \ {x}) /\ Cardinality(D \ {x}) = 1
    <3>1. IsFiniteSet(D \ {x}) /\ Cardinality(D \ {x}) = Cardinality(D) - 1
      BY <1>1, <2>2, OneLess, Zenon
    <3> QED BY <1>3, <3>1
  <2>4. PICK y : D \ {x} = {y}
    BY <2>3, FS_Singleton
  <2>5. D = {x, y} /\ x # y
    BY <2>4
  <2>6. x \in 1..Len(c) /\ y \in 1..Len(c)
    BY <1>1, <2>5
  <2>7. CASE x < y
    BY <2>5, <2>6, <2>7
  <2>8. CASE y < x
    BY <2>5, <2>6, <2>8
  <2> QED BY <1>0, <2>5, <2>6, <2>7, <2>8
<1>4. ASSUME NEW i \in 1..Len(c), NEW j \in 1..Len(c), i < j, D = {i, j}
      PROVE  Cardinality(D) = 2
  <2>1. IsFiniteSet({i}) /\ Cardinality({i}) = 1
    BY FS_Singleton
  <2>2. j \notin {i}
    BY <1>0, <1>4
  <2>3. Cardinality({i} \cup {j}) = Cardinality({i}) + 1
    BY <2>1, <2>2, OneMore, Zenon
  <2>4. D = {i} \cup {j}
    BY <1>4
  <2>5. Cardinality(D) = Cardinality({i}) + 1
    BY <2>3, <2>4, Zenon
  <2> QED BY <2>1, <2>5
<1>5. Cardinality(Cuts(c, d)) - 1 = 3 <=> Cardinality(D) = 2
  BY <1>1, <1>2
<1> QED BY <1>3, <1>4, <1>5

(* The pieces of a text with two separators. *)
Parts(c, i, j) ==
  {SubSeq(c, 1, i - 1), SubSeq(c, i + 1, j - 1), SubSeq(c, j + 1, Len(c))}

LEMMA ThreePieces ==
  ASSUME NEW C, NEW c \in Seq(C), NEW d,
         NEW i \in 1..Len(c), NEW j \in 1..Len(c), i < j,
         Places(c, d) = {i, j}
  PROVE  Pieces(c, d) = Parts(c, i, j)
<1> DEFINE n == Len(c) + 1
           cuts == {0, i, j, n}
           Next2(x) == x[1] < x[2] /\ \A k \in cuts : k <= x[1] \/ x[2] <= k
           pairs == {x \in cuts \X cuts : Next2(x)}
           Piece(x) == SubSeq(c, x[1] + 1, x[2] - 1)
<1>1. Cuts(c, d) = cuts
  BY DEF Cuts, Places
<1>2. Pieces(c, d) = {Piece(x) : x \in pairs}
  BY <1>1, Zenon DEF Pieces
<1>3. /\ i \in Nat /\ j \in Nat /\ n \in Nat
      /\ 0 < i /\ i < j /\ j < n
  OBVIOUS
<1> HIDE DEF n
<1>4. pairs = {<<0, i>>, <<i, j>>, <<j, n>>}
  <2>1. ASSUME NEW a \in cuts, NEW b \in cuts, Next2(<<a, b>>)
        PROVE  <<a, b>> \in {<<0, i>>, <<i, j>>, <<j, n>>}
    <3>1. a < b /\ (i <= a \/ b <= i) /\ (j <= a \/ b <= j)
      BY <2>1
    <3> QED BY <1>3, <3>1
  <2>2. Next2(<<0, i>>) /\ Next2(<<i, j>>) /\ Next2(<<j, n>>)
    BY <1>3
  <2>3. {0, i, j, n} = cuts
    OBVIOUS
  <2> HIDE DEF Next2, cuts
  <2>4. ASSUME NEW x \in pairs PROVE x \in {<<0, i>>, <<i, j>>, <<j, n>>}
    <3>1. PICK a \in cuts, b \in cuts : x = <<a, b>>
      OBVIOUS
    <3> QED BY <2>1, <3>1
  <2>5. <<0, i>> \in pairs /\ <<i, j>> \in pairs /\ <<j, n>> \in pairs
    BY <2>2, <2>3
  <2> HIDE DEF pairs
  <2> QED BY <2>4, <2>5
<1>5. /\ Piece(<<0, i>>) = SubSeq(c, 1, i - 1)
      /\ Piece(<<i, j>>) = SubSeq(c, i + 1, j - 1)
      /\ Piece(<<j, n>>) = SubSeq(c, j + 1, Len(c))
  BY <1>3 DEF n
<1> HIDE DEF pairs, Piece
<1>6. {Piece(x) : x \in pairs} = {Piece(<<0, i>>), Piece(<<i, j>>), Piece(<<j, n>>)}
  BY <1>4
<1> QED BY <1>2, <1>5, <1>6 DEF Parts

IsNumber(p) == p # <<>> /\ All(p, Digit)

LEMMA NumberIsPiece ==
  ASSUME NEW C, NEW c \in Seq(C), NEW a \in Nat \ {0}, NEW b \in 0..Len(c)
  PROVE  IsNumber(SubSeq(c, a, b)) <=> Number(c, a, b)
<1> DEFINE p == SubSeq(c, a, b)
<1>1. /\ p \in Seq(C)
      /\ Len(p) = (IF a <= b THEN b - a + 1 ELSE 0)
      /\ \A m \in 1..b - a + 1 : p[m] = c[a + m - 1]
  BY SubSeqFacts
<1>2. p # <<>> <=> Len(p) # 0
  BY <1>1, EmptySeq
<1>3. All(p, Digit) <=> \A m \in 1..Len(p) : p[m] \in Digit
  BY <1>1, AllFacts
<1>0. a \in Nat /\ b \in Nat
  OBVIOUS
<1> HIDE DEF p
<1>4. CASE ~ (a <= b)
  BY <1>0, <1>1, <1>2, <1>4 DEF IsNumber, Number, p
<1>5. CASE a <= b
  <2>1. Len(p) = b - a + 1 /\ Len(p) # 0
    BY <1>0, <1>1, <1>5
  <2>2. ASSUME \A m \in 1..Len(p) : p[m] \in Digit, NEW k \in a..b
        PROVE  c[k] \in Digit
    <3>1. k - a + 1 \in 1..Len(p) /\ a + (k - a + 1) - 1 = k
      BY <1>0, <2>1
    <3> QED BY <1>1, <2>1, <2>2, <3>1
  <2>3. ASSUME \A k \in a..b : c[k] \in Digit, NEW m \in 1..Len(p)
        PROVE  p[m] \in Digit
    <3>1. a + m - 1 \in a..b
      BY <1>0, <2>1
    <3> QED BY <1>1, <2>1, <2>3, <3>1
  <2> QED BY <1>2, <1>3, <1>5, <2>1, <2>2, <2>3 DEF IsNumber, Number, p
<1> QED BY <1>4, <1>5

(* A core is three numbers with two dots between them. *)
Numbered(c, i, j) ==
  /\ i < j
  /\ c[i] = "." /\ c[j] = "."
  /\ Number(c, 1, i - 1) /\ Number(c, i + 1, j - 1) /\ Number(c, j + 1, Len(c))

LEMMA NumberedCore ==
  ASSUME NEW C, NEW c \in Seq(C)
  PROVE  (/\ Cardinality(Cuts(c, ".")) - 1 = 3
          /\ \A p \in Pieces(c, ".") : IsNumber(p))
         <=> \E i, j \in 1..Len(c) : Numbered(c, i, j)
<1> DEFINE D == Places(c, ".")
<1>0. Len(c) \in Nat /\ DOMAIN c = 1..Len(c)
  OBVIOUS
<1>1. Cardinality(Cuts(c, ".")) - 1 = 3 <=> \E i, j \in 1..Len(c) : i < j /\ D = {i, j}
  BY TwoCuts
<1>2. ASSUME NEW i \in 1..Len(c), NEW j \in 1..Len(c), i < j, D = {i, j}
      PROVE  (\A p \in Pieces(c, ".") : IsNumber(p)) <=> Numbered(c, i, j)
  <2>1. Pieces(c, ".") = Parts(c, i, j)
    <3>1. i < j /\ Places(c, ".") = {i, j}
      BY <1>2
    <3> QED BY <3>1, ThreePieces, Zenon
  <2>2. /\ 1 \in Nat \ {0} /\ i + 1 \in Nat \ {0} /\ j + 1 \in Nat \ {0}
        /\ i - 1 \in 0..Len(c) /\ j - 1 \in 0..Len(c) /\ Len(c) \in 0..Len(c)
    BY <1>0, <1>2
  <2>3. /\ IsNumber(SubSeq(c, 1, i - 1)) <=> Number(c, 1, i - 1)
        /\ IsNumber(SubSeq(c, i + 1, j - 1)) <=> Number(c, i + 1, j - 1)
        /\ IsNumber(SubSeq(c, j + 1, Len(c))) <=> Number(c, j + 1, Len(c))
    BY <2>2, NumberIsPiece, Zenon
  <2>4. c[i] = "." /\ c[j] = "."
    BY <1>2 DEF Places
  <2> HIDE DEF D
  <2> QED BY <1>2, <2>1, <2>3, <2>4 DEF Numbered, Parts
<1>3. ASSUME NEW i \in 1..Len(c), NEW j \in 1..Len(c), Numbered(c, i, j)
      PROVE  i < j /\ D = {i, j}
  <2>1. i < j /\ c[i] = "." /\ c[j] = "."
    BY <1>3 DEF Numbered
  <2>2. ASSUME NEW m \in 1..Len(c), c[m] = ".", m # i, m # j
        PROVE  FALSE
    <3>1. m \in 1..i - 1 \/ m \in i + 1..j - 1 \/ m \in j + 1..Len(c)
      BY <1>0, <2>2
    <3>2. c[m] \in Digit
      BY <1>3, <3>1 DEF Numbered, Number
    <3> QED BY <2>2, <3>2 DEF Digit
  <2> QED BY <1>0, <2>1, <2>2 DEF Places
<1> HIDE DEF D
<1> QED BY <1>1, <1>2, <1>3

LEMMA NumberShift ==
  ASSUME NEW c, NEW s, NEW K \in Nat, \A m \in 1..K : c[m] = s[m + 1],
         NEW a \in Nat \ {0}, NEW b \in Int, b <= K
  PROVE  Number(c, a, b) <=> Number(s, a + 1, b + 1)
<1>1. ASSUME Number(c, a, b), NEW k \in a + 1..b + 1 PROVE s[k] \in Digit
  <2>1. k - 1 \in a..b /\ k - 1 \in 1..K /\ (k - 1) + 1 = k
    OBVIOUS
  <2> QED BY <1>1, <2>1 DEF Number
<1>2. ASSUME Number(s, a + 1, b + 1), NEW k \in a..b PROVE c[k] \in Digit
  <2>1. k + 1 \in a + 1..b + 1 /\ k \in 1..K
    OBVIOUS
  <2> QED BY <1>2, <2>1 DEF Number
<1>3. a <= b <=> a + 1 <= b + 1
  OBVIOUS
<1> QED BY <1>1, <1>2, <1>3 DEF Number

Suffix == Alnum \cup {".", "-"}

NumberedTag(s, i, j, k) ==
  /\ i < j
  /\ s[i] = "." /\ s[j] = "."
  /\ Number(s, 2, i - 1) /\ Number(s, i + 1, j - 1) /\ Number(s, j + 1, k - 1)

SuffixFrom(s, k) == k < Len(s) /\ \A m \in k + 1..Len(s) : s[m] \in Suffix

LEMMA ReleaseTagIsSemver ==
  ASSUME NEW C, NEW s \in Seq(C)
  PROVE  IsReleaseTag(s) <=> SemverTag(s)
<1>0. Len(s) \in Nat
  OBVIOUS
<1>1. CASE s = <<>>
  <2>1. Len(s) = 0
    BY <1>1
  <2> QED BY <1>1, <2>1 DEF IsReleaseTag, SemverTag
<1>2. CASE s # <<>>
  <2> DEFINE n == Len(s)
             v == Drop(s, 1)
             core == Core(v)
             K == Len(core)
             pre == Drop(v, K + 1)
  <2>1. n \in Nat /\ n >= 1
    BY <1>0, <1>2, EmptySeq
  <2>2. v \in Seq(C) /\ Len(v) = n - 1 /\ \A i \in 1..n - 1 : v[i] = s[1 + i]
    <3>1. 1 \in 0..Len(s)
      BY <2>1
    <3> QED BY <3>1, DropFacts, Zenon
  <2> HIDE DEF v
  <2>3. /\ core \in Seq(C)
        /\ K \in 0..Len(v)
        /\ \A m \in 1..K : core[m] = v[m] /\ v[m] # "-"
        /\ K < Len(v) => v[K + 1] = "-"
        /\ core = v <=> K = Len(v)
    BY <2>2, CoreFacts, Zenon
  <2> HIDE DEF core
  <2>4. K \in Nat /\ K <= n - 1
    BY <2>1, <2>2, <2>3
  <2>5. \A m \in 1..K : core[m] = s[m + 1] /\ s[m + 1] # "-"
    BY <2>1, <2>2, <2>3, <2>4
  <2>6. K < n - 1 => s[K + 2] = "-"
    <3>1. K < n - 1 => K + 1 \in 1..n - 1 /\ 1 + (K + 1) = K + 2
      BY <2>1, <2>4
    <3> QED BY <2>2, <2>3, <3>1
  <2> HIDE DEF K, n
  <2>7. ASSUME K < n - 1
        PROVE  pre # <<>> /\ All(pre, Suffix) <=> SuffixFrom(s, K + 2)
    <3>1. K + 1 \in 0..Len(v)
      BY <2>1, <2>2, <2>4, <2>7
    <3>2. /\ pre \in Seq(C)
          /\ Len(pre) = Len(v) - (K + 1)
          /\ \A i \in 1..Len(v) - (K + 1) : pre[i] = v[K + 1 + i]
      <4>1. v \in Seq(C)
        BY <2>2
      <4> QED BY <3>1, <4>1, DropFacts, Zenon
    <3> HIDE DEF pre
    <3>3. Len(pre) = n - K - 2
      BY <2>1, <2>2, <2>4, <3>2
    <3>4. \A i \in 1..n - K - 2 : pre[i] = s[K + 2 + i]
      <4> TAKE i \in 1..n - K - 2
      <4>1. i \in 1..Len(v) - (K + 1) /\ K + 1 + i \in 1..n - 1 /\ 1 + (K + 1 + i) = K + 2 + i
        BY <2>1, <2>2, <2>4
      <4> QED BY <2>2, <3>2, <4>1
    <3>5. pre # <<>> <=> K + 2 < n
      BY <2>1, <2>4, <3>2, <3>3, EmptySeq
    <3>6. All(pre, Suffix) <=> \A i \in 1..n - K - 2 : pre[i] \in Suffix
      BY <3>2, <3>3, AllFacts
    <3>7. (\A i \in 1..n - K - 2 : pre[i] \in Suffix)
          <=> \A m \in K + 3..n : s[m] \in Suffix
      <4>1. ASSUME \A i \in 1..n - K - 2 : pre[i] \in Suffix, NEW m \in K + 3..n
            PROVE  s[m] \in Suffix
        <5>1. m - K - 2 \in 1..n - K - 2 /\ K + 2 + (m - K - 2) = m
          BY <2>1, <2>4
        <5> QED BY <3>4, <4>1, <5>1
      <4>2. ASSUME \A m \in K + 3..n : s[m] \in Suffix, NEW i \in 1..n - K - 2
            PROVE  pre[i] \in Suffix
        <5>1. K + 2 + i \in K + 3..n
          BY <2>1, <2>4
        <5> QED BY <3>4, <4>2, <5>1
      <4> QED BY <4>1, <4>2
    <3>8. (K + 2) + 1 = K + 3
      BY <2>4
    <3> QED BY <3>5, <3>6, <3>7, <3>8 DEF SuffixFrom, n
  <2>8. IsReleaseTag(s) <=>
          /\ s[1] = "v"
          /\ \E i, j \in 1..K : Numbered(core, i, j)
          /\ K < n - 1 => SuffixFrom(s, K + 2)
    <3>1. (/\ Cardinality(Cuts(core, ".")) - 1 = 3
           /\ \A p \in Pieces(core, ".") : IsNumber(p))
          <=> \E i, j \in 1..K : Numbered(core, i, j)
      BY <2>3, NumberedCore, Zenon DEF K
    <3>2. core # v <=> K < n - 1
      BY <2>1, <2>2, <2>3, <2>4
    <3> HIDE DEF pre
    <3>3. IsReleaseTag(s) <=>
            /\ s[1] = "v"
            /\ /\ Cardinality(Cuts(core, ".")) - 1 = 3
               /\ \A p \in Pieces(core, ".") : IsNumber(p)
            /\ core # v => pre # <<>> /\ All(pre, Suffix)
      BY <1>2, Zenon DEF IsReleaseTag, IsNumber, Suffix, pre, K, core, v
    <3> QED BY <2>7, <3>1, <3>2, <3>3
  <2>9. ASSUME NEW i \in 1..K, NEW j \in 1..K
        PROVE  Numbered(core, i, j) <=> NumberedTag(s, i + 1, j + 1, K + 2)
    <3>1. /\ Number(core, 1, i - 1) <=> Number(s, 1 + 1, (i - 1) + 1)
          /\ Number(core, i + 1, j - 1) <=> Number(s, (i + 1) + 1, (j - 1) + 1)
          /\ Number(core, j + 1, K) <=> Number(s, (j + 1) + 1, K + 1)
      <4>1. /\ 1 \in Nat \ {0} /\ i + 1 \in Nat \ {0} /\ j + 1 \in Nat \ {0}
            /\ i - 1 \in Int /\ j - 1 \in Int /\ K \in Int
            /\ i - 1 <= K /\ j - 1 <= K /\ K <= K
        BY <2>4
      <4>2. \A m \in 1..K : core[m] = s[m + 1]
        BY <2>5
      <4> QED BY <2>4, <4>1, <4>2, NumberShift, Zenon
    <3>2. /\ 1 + 1 = 2 /\ (i - 1) + 1 = (i + 1) - 1 /\ (j - 1) + 1 = (j + 1) - 1
          /\ K + 1 = (K + 2) - 1 /\ (i < j <=> i + 1 < j + 1)
      BY <2>4
    <3>3. core[i] = s[i + 1] /\ core[j] = s[j + 1]
      BY <2>5
    <3> QED BY <3>1, <3>2, <3>3 DEF Numbered, NumberedTag, K
  <2>10. ASSUME IsReleaseTag(s) PROVE SemverTag(s)
    <3>1. PICK i \in 1..K, j \in 1..K : NumberedTag(s, i + 1, j + 1, K + 2)
      BY <2>8, <2>9, <2>10
    <3>2. /\ i + 1 \in 1..n + 1 /\ j + 1 \in 1..n + 1 /\ K + 2 \in 1..n + 1
          /\ i + 1 < j + 1 /\ j + 1 < K + 2
      BY <2>1, <2>4, <3>1 DEF NumberedTag
    <3>3. \/ K + 2 = n + 1
          \/ /\ K + 2 < n
             /\ s[K + 2] = "-"
             /\ \A m \in K + 2 + 1..n : s[m] \in Suffix
      BY <2>1, <2>4, <2>6, <2>8, <2>10 DEF SuffixFrom, n
    <3>4. s[1] = "v" /\ n > 0
      BY <2>1, <2>8, <2>10
    <3> QED BY <3>1, <3>2, <3>3, <3>4 DEF SemverTag, NumberedTag, Suffix, n
  <2>11. ASSUME SemverTag(s) PROVE IsReleaseTag(s)
    <3>1. PICK i \in 1..n + 1, j \in 1..n + 1, k \in 1..n + 1 :
            /\ i < j /\ j < k
            /\ NumberedTag(s, i, j, k)
            /\ \/ k = n + 1
               \/ /\ k < n
                  /\ s[k] = "-"
                  /\ \A m \in k + 1..n : s[m] \in Suffix
      BY <2>11 DEF SemverTag, NumberedTag, Suffix, n
    <3>2. i \in Nat /\ j \in Nat /\ k \in Nat /\ 2 <= i - 1
      BY <2>1, <3>1 DEF NumberedTag, Number
    <3>3. ASSUME NEW m \in 2..k - 1 PROVE s[m] # "-"
      <4>1. m = i \/ m = j \/ m \in 2..i - 1 \/ m \in i + 1..j - 1 \/ m \in j + 1..k - 1
        BY <3>1, <3>2
      <4>2. s[m] = "." \/ s[m] \in Digit
        BY <3>1, <4>1 DEF NumberedTag, Number
      <4> QED BY <4>2 DEF Digit
    <3>4. ~ (K + 2 < k)
      <4> SUFFICES ASSUME K + 2 < k PROVE FALSE
        OBVIOUS
      <4>1. K < n - 1 /\ K + 2 \in 2..k - 1
        BY <2>1, <2>4, <3>1, <3>2
      <4> QED BY <2>6, <3>3, <4>1
    <3>5. ~ (k < K + 2)
      <4> SUFFICES ASSUME k < K + 2 PROVE FALSE
        OBVIOUS
      <4>1. k # n + 1 /\ k - 1 \in 1..K /\ (k - 1) + 1 = k
        BY <2>1, <2>4, <3>1, <3>2
      <4> QED BY <2>5, <3>1, <4>1
    <3>6. k = K + 2
      BY <2>4, <3>2, <3>4, <3>5
    <3>7. i - 1 \in 1..K /\ j - 1 \in 1..K /\ (i - 1) + 1 = i /\ (j - 1) + 1 = j
      BY <2>4, <3>1, <3>2, <3>6
    <3>8. Numbered(core, i - 1, j - 1)
      BY <2>9, <3>1, <3>6, <3>7
    <3>9. K < n - 1 => SuffixFrom(s, K + 2)
      BY <2>1, <2>4, <3>1, <3>6 DEF SuffixFrom, n
    <3>10. s[1] = "v"
      BY <2>11 DEF SemverTag
    <3> QED BY <2>8, <3>7, <3>8, <3>9, <3>10
  <2> QED BY <2>10, <2>11
<1> QED BY <1>1, <1>2

(* TagIsSemver, of every text: splitting at the first dash and at every dot*)
(* of what is before it takes exactly the tags of the documented shape.    *)
THEOREM TagsAreSemver == Spec => []TagIsSemver
<1>1. TypeOK => TagIsSemver
  BY ReleaseTagIsSemver DEF TypeOK, TagIsSemver
<1> QED BY <1>1, TextIsTyped, PTL

-----------------------------------------------------------------------------
(* What is rendered into scripts and pages *)

LEMMA Characters ==
  /\ LowerHex \subseteq Suffix /\ UpperHex \subseteq Suffix /\ Digit \subseteq Suffix
  /\ {"v", "x", "0", ".", "-"} \subseteq Suffix
  /\ LowerHex \cap UpperHex = {}
  /\ ":" \notin LowerHex \cup UpperHex
  /\ "x" \notin LowerHex \cup UpperHex
  /\ " " \notin LowerHex \cup UpperHex
  /\ "refused" \notin LowerHex
BY DEF Suffix, Alnum, LowerHex, UpperHex, Digit

LEMMA Strip0x ==
  ASSUME NEW C, NEW s \in Seq(C)
  PROVE  \/ /\ Len(s) >= 2 /\ s[1] = "0" /\ s[2] = "x"
            /\ StripPrefix(s, <<"0", "x">>) = Drop(s, 2)
         \/ /\ ~ (Len(s) >= 2 /\ s[1] = "0" /\ s[2] = "x")
            /\ StripPrefix(s, <<"0", "x">>) = s
<1>1. IsPrefix(<<"0", "x">>, s) <=> Len(s) >= 2 /\ s[1] = "0" /\ s[2] = "x"
  BY Prefix2, Zenon
<1>2. Len(<<"0", "x">>) = 2
  OBVIOUS
<1>3. CASE IsPrefix(<<"0", "x">>, s)
  BY <1>1, <1>2, <1>3 DEF StripPrefix
<1>4. CASE ~ IsPrefix(<<"0", "x">>, s)
  BY <1>1, <1>4 DEF StripPrefix
<1> QED BY <1>3, <1>4

LEMMA TagIsPlain ==
  ASSUME NEW C, NEW s \in Seq(C), IsReleaseTag(s)
  PROVE  All(s, Suffix)
<1>1. SemverTag(s)
  BY ReleaseTagIsSemver
<1>2. PICK i \in 1..Len(s) + 1, j \in 1..Len(s) + 1, k \in 1..Len(s) + 1 :
        /\ i < j /\ j < k
        /\ NumberedTag(s, i, j, k)
        /\ \/ k = Len(s) + 1
           \/ /\ k < Len(s)
              /\ s[k] = "-"
              /\ \A m \in k + 1..Len(s) : s[m] \in Suffix
  BY <1>1 DEF SemverTag, NumberedTag, Suffix
<1>3. Len(s) \in Nat
  OBVIOUS
<1>4. ASSUME NEW m \in 1..Len(s) PROVE s[m] \in Suffix
  <2>1. \/ m = 1 \/ m = i \/ m = j \/ m = k
        \/ m \in 2..i - 1 \/ m \in i + 1..j - 1 \/ m \in j + 1..k - 1 \/ m \in k + 1..Len(s)
    BY <1>2, <1>3
  <2>2. CASE m = 1
    BY <1>1, <2>2, Characters DEF SemverTag
  <2>3. CASE m = i \/ m = j
    BY <1>2, <2>3, Characters DEF NumberedTag
  <2>4. CASE m \in 2..i - 1 \/ m \in i + 1..j - 1 \/ m \in j + 1..k - 1
    BY <1>2, <2>4, Characters DEF NumberedTag, Number
  <2>5. CASE m = k
    <3>1. k # Len(s) + 1
      BY <1>3, <2>5
    <3> QED BY <1>2, <2>5, <3>1, Characters
  <2>6. CASE m \in k + 1..Len(s)
    <3>1. k # Len(s) + 1
      BY <1>3, <2>6
    <3> QED BY <1>2, <2>6, <3>1
  <2> QED BY <2>1, <2>2, <2>3, <2>4, <2>5, <2>6
<1> QED BY <1>4, AllFacts

LEMMA ClientIsPlain ==
  ASSUME NEW C, NEW s \in Seq(C), NEW n, IsHexOfLen(s, n)
  PROVE  All(s, Suffix)
<1> DEFINE d == StripPrefix(s, <<"0", "x">>)
<1>1. All(d, LowerHex \cup UpperHex)
  BY DEF IsHexOfLen
<1>2. Len(s) \in Nat
  OBVIOUS
<1>3. CASE d = s
  <2>1. \A m \in 1..Len(s) : s[m] \in LowerHex \cup UpperHex
    BY <1>1, <1>3, AllFacts
  <2> QED BY <2>1, Characters, AllFacts
<1>4. CASE Len(s) >= 2 /\ s[1] = "0" /\ s[2] = "x" /\ d = Drop(s, 2)
  <2> HIDE DEF d
  <2>1. 2 \in 0..Len(s)
    BY <1>2, <1>4
  <2>2. d \in Seq(C) /\ Len(d) = Len(s) - 2 /\ \A m \in 1..Len(s) - 2 : d[m] = s[2 + m]
    BY <1>4, <2>1, DropFacts, Zenon
  <2>3. \A m \in 1..Len(d) : d[m] \in LowerHex \cup UpperHex
    BY <1>1, <2>2, AllFacts
  <2>4. ASSUME NEW m \in 1..Len(s) PROVE s[m] \in Suffix
    <3>1. m = 1 \/ m = 2 \/ (m - 2 \in 1..Len(s) - 2 /\ 2 + (m - 2) = m)
      BY <1>2
    <3>2. CASE m = 1 \/ m = 2
      BY <1>4, <3>2, Characters
    <3>3. CASE m - 2 \in 1..Len(s) - 2 /\ 2 + (m - 2) = m
      BY <2>2, <2>3, <3>3, Characters
    <3> QED BY <3>1, <3>2, <3>3
  <2> QED BY <2>4, AllFacts
<1> QED BY <1>3, <1>4, Strip0x

(* NothingToEscape, of every text: what is rendered unescaped into the     *)
(* scripts and the page has no character with a meaning there.             *)
THEOREM NothingIsEscaped == Spec => []NothingToEscape
<1>1. TypeOK => NothingToEscape
  <2> SUFFICES ASSUME TypeOK PROVE NothingToEscape
    OBVIOUS
  <2>1. text \in Seq(Chars)
    BY DEF TypeOK
  <2>2. IsReleaseTag(text) => All(text, Suffix)
    BY <2>1, TagIsPlain
  <2>3. IsDigest(text) => All(text, Suffix)
    BY Characters DEF IsDigest, All
  <2>4. IsHexOfLen(text, HashLen) => All(text, Suffix)
    BY <2>1, ClientIsPlain
  <2> QED BY <2>2, <2>3, <2>4 DEF NothingToEscape, Suffix
<1> QED BY <1>1, TextIsTyped, PTL

-----------------------------------------------------------------------------
(* Bundle hashes *)

Hex == LowerHex \cup UpperHex

Solid(s) == {i \in DOMAIN s : s[i] # " "}
Initial(S) == CHOOSE i \in S : \A j \in S : i <= j
Final(S)   == CHOOSE i \in S : \A j \in S : j <= i

LEMMA TrimIs ==
  ASSUME NEW C, NEW s \in Seq(C)
  PROVE  /\ Solid(s) = {i \in 1..Len(s) : s[i] # " "}
         /\ Solid(s) = {} => Trim(s) = <<>>
         /\ Solid(s) # {} => Trim(s) = SubSeq(s, Initial(Solid(s)), Final(Solid(s)))
<1>1. DOMAIN s = 1..Len(s)
  BY LenProperties
<1> QED BY <1>1 DEF Solid, Initial, Final, Trim

LEMMA FirstLast ==
  ASSUME NEW N \in Nat, NEW S, S \subseteq 1..N, S # {}
  PROVE  /\ Initial(S) \in S /\ \A j \in S : Initial(S) <= j
         /\ Final(S) \in S /\ \A j \in S : j <= Final(S)
<1>1. S \subseteq Nat /\ S \subseteq 0..N
  OBVIOUS
<1>2. Initial(S) \in S /\ \A j \in S : Initial(S) <= j
  BY <1>1, Least DEF Initial
<1>3. Final(S) \in S /\ \A j \in S : j <= Final(S)
  BY <1>1, Greatest DEF Final
<1> QED BY <1>2, <1>3

LEMMA TrimCuts ==
  ASSUME NEW C, NEW s \in Seq(C)
  PROVE  \E a \in 1..Len(s) + 1 : \E z \in a - 1..Len(s) : Trim(s) = SubSeq(s, a, z)
<1>0. Len(s) \in Nat /\ Solid(s) \subseteq 1..Len(s)
  <2>1. Len(s) \in Nat
    BY LenProperties
  <2>2. Solid(s) = {i \in 1..Len(s) : s[i] # " "}
    BY TrimIs
  <2> QED BY <2>1, <2>2, Zenon
<1>1. CASE Solid(s) = {}
  <2>1. Trim(s) = <<>>
    BY <1>1, TrimIs
  <2>2. SubSeq(s, 1, 0) = <<>>
    BY SubSeqEmpty
  <2>3. 1 \in 1..Len(s) + 1 /\ 0 \in 1 - 1..Len(s)
    BY <1>0
  <2> QED BY <2>1, <2>2, <2>3
<1>2. CASE Solid(s) # {}
  <2> DEFINE first == Initial(Solid(s))
             last == Final(Solid(s))
  <2>1. Trim(s) = SubSeq(s, first, last)
    BY <1>2, TrimIs
  <2>2. first \in Solid(s) /\ last \in Solid(s) /\ first <= last
    BY <1>0, <1>2, FirstLast
  <2> HIDE DEF first, last
  <2>3. first \in 1..Len(s) + 1 /\ last \in first - 1..Len(s)
    BY <1>0, <2>2
  <2> QED BY <2>1, <2>3
<1> QED BY <1>1, <1>2

LEMMA TrimOfSolid ==
  ASSUME NEW C, NEW s \in Seq(C), Solid(s) = 1..Len(s)
  PROVE  Trim(s) = s
<1>0. Len(s) \in Nat
  BY LenProperties
<1>1. Solid(s) = 1..Len(s)
  OBVIOUS
<1>2. CASE Len(s) = 0
  <2>1. Solid(s) = {}
    BY <1>1, <1>2
  <2>2. s = <<>>
    BY <1>2, EmptySeq
  <2> QED BY <2>1, <2>2, TrimIs
<1>3. CASE Len(s) # 0
  <2> DEFINE first == Initial(Solid(s))
             last == Final(Solid(s))
  <2>1. 1 \in Solid(s) /\ Len(s) \in Solid(s)
    <3> DEFINE n == Len(s)
    <3> HIDE DEF n
    <3>1. 1 \in 1..n /\ n \in 1..n
      BY <1>0, <1>3 DEF n
    <3> QED BY <1>1, <3>1 DEF n
  <2>2. Trim(s) = SubSeq(s, first, last)
    BY <2>1, TrimIs
  <2>3. /\ first \in Solid(s) /\ \A j \in Solid(s) : first <= j
        /\ last \in Solid(s) /\ \A j \in Solid(s) : j <= last
    BY <1>0, <1>1, <2>1, FirstLast
  <2> HIDE DEF first, last
  <2>4. first = 1 /\ last = Len(s)
    <3>1. first \in 1..Len(s) /\ last \in 1..Len(s) /\ first <= 1 /\ Len(s) <= last
      BY <1>1, <2>1, <2>3
    <3> DEFINE n == Len(s)
    <3>2. n \in Nat /\ first \in 1..n /\ last \in 1..n /\ first <= 1 /\ n <= last
      BY <1>0, <3>1
    <3> HIDE DEF n
    <3>3. first = 1 /\ last = n
      BY <3>2
    <3> QED BY <3>3 DEF n
  <2> QED BY <2>2, <2>4, SubSeqFull
<1> QED BY <1>2, <1>3

LEMMA LowerFacts ==
  ASSUME NEW C, NEW s \in Seq(C)
  PROVE  /\ ToLower(s) \in Seq(C \cup LowerHex)
         /\ Len(ToLower(s)) = Len(s)
         /\ \A i \in 1..Len(s) :
              ToLower(s)[i] = IF s[i] \in UpperHex THEN Lower[s[i]] ELSE s[i]
<1>1. \A c \in UpperHex : Lower[c] \in LowerHex
  BY DEF UpperHex, Lower, LowerHex
<1>2. Len(s) \in Nat /\ DOMAIN s = 1..Len(s) /\ \A i \in 1..Len(s) : s[i] \in C
  OBVIOUS
<1>3. ToLower(s) = [i \in 1..Len(s) |-> IF s[i] \in UpperHex THEN Lower[s[i]] ELSE s[i]]
  BY <1>2 DEF ToLower
<1>4. \A i \in 1..Len(s) : (IF s[i] \in UpperHex THEN Lower[s[i]] ELSE s[i]) \in C \cup LowerHex
  BY <1>1, <1>2
<1>5. ToLower(s) \in [1..Len(s) -> C \cup LowerHex]
  BY <1>3, <1>4
<1>6. ToLower(s) \in Seq(C \cup LowerHex)
  BY <1>2, <1>5, SeqDef
<1>7. Len(ToLower(s)) = Len(s)
  BY <1>2, <1>5, <1>6
<1> QED BY <1>3, <1>6, <1>7

LEMMA LowerIsHex ==
  ASSUME NEW C, NEW s \in Seq(C)
  PROVE  All(ToLower(s), LowerHex) <=> All(s, Hex)
<1>1. \A c \in UpperHex : Lower[c] \in LowerHex
  BY DEF UpperHex, Lower, LowerHex
<1> DEFINE t == ToLower(s)
<1>2. /\ t \in Seq(C \cup LowerHex)
      /\ Len(t) = Len(s)
      /\ \A i \in 1..Len(s) : t[i] = IF s[i] \in UpperHex THEN Lower[s[i]] ELSE s[i]
  BY LowerFacts
<1> HIDE DEF t
<1>3. All(t, LowerHex) <=> \A i \in 1..Len(s) : t[i] \in LowerHex
  BY <1>2, AllFacts
<1>4. All(s, Hex) <=> \A i \in 1..Len(s) : s[i] \in Hex
  BY AllFacts
<1>5. \A i \in 1..Len(s) : t[i] \in LowerHex <=> s[i] \in Hex
  BY <1>1, <1>2 DEF Hex
<1> QED BY <1>3, <1>4, <1>5 DEF t

LEMMA LowerOfLower ==
  ASSUME NEW C, NEW s \in Seq(C), All(s, LowerHex)
  PROVE  ToLower(s) = s
<1> DEFINE t == ToLower(s)
<1>1. /\ t \in Seq(C \cup LowerHex)
      /\ Len(t) = Len(s)
      /\ \A i \in 1..Len(s) : t[i] = IF s[i] \in UpperHex THEN Lower[s[i]] ELSE s[i]
  BY LowerFacts
<1> HIDE DEF t
<1>2. \A i \in 1..Len(s) : s[i] \in LowerHex
  BY AllFacts
<1>3. \A i \in 1..Len(s) : t[i] = s[i]
  BY <1>1, <1>2, Characters
<1> QED BY <1>1, <1>3, SameText DEF t

(* Hex characters alone have no blank and no prefix. *)
LEMMA HexIsBare ==
  ASSUME NEW C, NEW s \in Seq(C), All(s, Hex)
  PROVE  Trim(s) = s /\ BareHash(s) = s
<1>1. \A i \in 1..Len(s) : s[i] \in Hex
  BY AllFacts
<1>2. Solid(s) = 1..Len(s)
  <2>1. \A i \in 1..Len(s) : s[i] # " "
    BY <1>1, Characters DEF Hex
  <2>2. Solid(s) = {i \in 1..Len(s) : s[i] # " "}
    BY TrimIs
  <2> QED BY <2>1, <2>2
<1>3. Len(s) \in Nat
  BY LenProperties
<1>4. ~ IsPrefix(<<"b", "3", ":">>, s)
  <2>1. IsPrefix(<<"b", "3", ":">>, s) => Len(s) >= 3 /\ s[3] = ":"
    BY Prefix3
  <2>2. Len(s) >= 3 => s[3] \in Hex
    BY <1>1, <1>3
  <2> QED BY <2>1, <2>2, Characters DEF Hex
<1>5. StripPrefix(s, <<"0", "x">>) = s
  <2>1. Len(s) >= 2 => s[2] \in Hex
    BY <1>1, <1>3
  <2>2. ~ (Len(s) >= 2 /\ s[1] = "0" /\ s[2] = "x")
    BY <2>1, Characters DEF Hex
  <2> QED BY <2>2, Strip0x
<1> QED BY <1>2, <1>4, <1>5, TrimOfSolid DEF BareHash

(* Two texts, one after the other. *)
LEMMA AfterPrefix ==
  ASSUME NEW C, NEW p \in Seq(C), NEW h \in Seq(C)
  PROVE  /\ p \o h \in Seq(C)
         /\ Len(p \o h) = Len(p) + Len(h)
         /\ \A i \in 1..Len(p) : (p \o h)[i] = p[i]
         /\ Drop(p \o h, Len(p)) = h
<1> DEFINE t == p \o h
           n == Len(p)
<1>1. /\ t \in Seq(C)
      /\ Len(t) = Len(p) + Len(h)
      /\ \A i \in 1..Len(p) + Len(h) : t[i] = IF i <= Len(p) THEN p[i] ELSE h[i - Len(p)]
  BY ConcatProperties
<1>2. n \in Nat /\ Len(h) \in Nat
  BY LenProperties
<1> HIDE DEF t
<1>3. n \in 0..Len(t)
  BY <1>1, <1>2
<1>4. t \in Seq(C)
  BY <1>1
<1> HIDE DEF n
<1>5. /\ Drop(t, n) \in Seq(C)
      /\ Len(Drop(t, n)) = Len(t) - n
      /\ \A i \in 1..Len(t) - n : Drop(t, n)[i] = t[n + i]
  BY <1>3, <1>4, DropFacts, Zenon
<1>6. Len(Drop(t, n)) = Len(h)
  BY <1>1, <1>2, <1>5 DEF n
<1>7. ASSUME NEW i \in 1..Len(h) PROVE Drop(t, n)[i] = h[i]
  <2>1. i \in 1..Len(t) - n
    BY <1>1, <1>2 DEF n
  <2>2. n + i \in 1..n + Len(h) /\ ~ (n + i <= n) /\ (n + i) - n = i
    BY <1>2
  <2>3. t[n + i] = h[(n + i) - n]
    BY <1>1, <2>2 DEF n
  <2> QED BY <1>5, <2>1, <2>2, <2>3
<1>8. Drop(t, n) = h
  BY <1>5, <1>6, <1>7, SameText
<1>9. \A i \in 1..n : t[i] = p[i]
  BY <1>1, <1>2 DEF n
<1> QED BY <1>1, <1>8, <1>9 DEF t, n

LEMMA SplitAt ==
  ASSUME NEW C, NEW t \in Seq(C), NEW D, NEW p \in Seq(D), IsPrefix(p, t)
  PROVE  p \o Drop(t, Len(p)) = t
<1> DEFINE n == Len(p)
           S == C \cup D
           d == Drop(t, n)
           u == p \o d
<1>1. n \in Nat /\ Len(t) \in Nat
  BY LenProperties
<1>2. n <= Len(t) /\ \A i \in 1..n : p[i] = t[i]
  BY PrefixFacts
<1> HIDE DEF n
<1>3. n \in 0..Len(t)
  BY <1>1, <1>2
<1>4. d \in Seq(C) /\ Len(d) = Len(t) - n /\ \A i \in 1..Len(t) - n : d[i] = t[n + i]
  BY <1>3, DropFacts, Zenon
<1> HIDE DEF d
<1>5. p \in Seq(S) /\ d \in Seq(S)
  BY <1>4, SeqMonotonic
<1> HIDE DEF S
<1>6. /\ u \in Seq(S)
      /\ Len(u) = Len(p) + Len(d)
      /\ \A i \in 1..Len(p) + Len(d) : u[i] = IF i <= Len(p) THEN p[i] ELSE d[i - Len(p)]
  BY <1>5, ConcatProperties, Zenon
<1> HIDE DEF u
<1>7. Len(u) = Len(t)
  BY <1>1, <1>3, <1>4, <1>6 DEF n
<1>8. ASSUME NEW i \in 1..Len(t) PROVE u[i] = t[i]
  <2>1. u[i] = IF i <= n THEN p[i] ELSE d[i - n]
    BY <1>1, <1>3, <1>4, <1>6 DEF n
  <2>2. CASE i <= n
    BY <1>1, <1>2, <2>1, <2>2
  <2>3. CASE ~ (i <= n)
    <3>1. i - n \in 1..Len(t) - n /\ n + (i - n) = i
      BY <1>1, <1>3, <2>3
    <3> QED BY <1>4, <2>1, <2>3, <3>1
  <2> QED BY <2>2, <2>3
<1>9. u = t
  BY <1>6, <1>7, <1>8, SameText
<1> QED BY <1>9 DEF u, d, n

(* What BareHash removes is one of the spellings' prefixes. *)
LEMMA BareCuts ==
  ASSUME NEW C, NEW t \in Seq(C)
  PROVE  \E c \in 0..Len(t) : BareHash(t) = Drop(t, c) /\ t \in Spelling(Drop(t, c))
<1>0. Len(t) \in Nat
  BY LenProperties
<1>1. CASE IsPrefix(<<"b", "3", ":">>, t)
  <2>1. <<"b", "3", ":">> \in Seq({"b", "3", ":"}) /\ Len(<<"b", "3", ":">>) = 3
    OBVIOUS
  <2>2. 3 \in 0..Len(t)
    BY <1>0, <1>1, Prefix3
  <2>3. <<"b", "3", ":">> \o Drop(t, Len(<<"b", "3", ":">>)) = t
    BY <1>1, <2>1, SplitAt, Zenon
  <2>4. t \in Spelling(Drop(t, 3))
    BY <2>1, <2>3 DEF Spelling
  <2>5. BareHash(t) = Drop(t, 3)
    BY <1>1 DEF BareHash
  <2> QED BY <2>2, <2>4, <2>5
<1>2. CASE ~ IsPrefix(<<"b", "3", ":">>, t) /\ IsPrefix(<<"0", "x">>, t)
  <2>1. <<"0", "x">> \in Seq({"0", "x"}) /\ Len(<<"0", "x">>) = 2
    OBVIOUS
  <2>2. 2 \in 0..Len(t)
    BY <1>0, <1>2, Prefix2
  <2>3. <<"0", "x">> \o Drop(t, Len(<<"0", "x">>)) = t
    BY <1>2, <2>1, SplitAt, Zenon
  <2>4. t \in Spelling(Drop(t, 2))
    BY <2>1, <2>3 DEF Spelling
  <2>5. BareHash(t) = Drop(t, 2)
    BY <1>2, <2>1 DEF BareHash, StripPrefix
  <2> QED BY <2>2, <2>4, <2>5
<1>3. CASE ~ IsPrefix(<<"b", "3", ":">>, t) /\ ~ IsPrefix(<<"0", "x">>, t)
  <2>1. Drop(t, 0) = t
    BY <1>0, SubSeqFull DEF Drop
  <2>2. t \in Spelling(t)
    BY DEF Spelling
  <2>3. BareHash(t) = t
    BY <1>3 DEF BareHash, StripPrefix
  <2>4. 0 \in 0..Len(t)
    BY <1>0
  <2> QED BY <2>1, <2>2, <2>3, <2>4
<1> QED BY <1>1, <1>2, <1>3

(* Every spelling of a hash is taken for it. *)
LEMMA BareOfSpelling ==
  ASSUME NEW C, NEW h \in Seq(C), All(h, Hex), NEW t \in Spelling(h)
  PROVE  BareHash(t) = h
<1> DEFINE S == C \cup {"b", "3", ":", "0", "x"}
<1>0. h \in Seq(S)
  BY SeqMonotonic
<1>1. CASE t = h
  BY <1>1, HexIsBare
<1>2. CASE t = <<"b", "3", ":">> \o h
  <2> DEFINE p == <<"b", "3", ":">>
  <2>1. p \in Seq(S) /\ Len(p) = 3 /\ p[1] = "b" /\ p[2] = "3" /\ p[3] = ":"
    <3>1. p \in Seq({"b", "3", ":"}) /\ Len(p) = 3
      OBVIOUS
    <3>2. p[1] = "b" /\ p[2] = "3" /\ p[3] = ":"
      OBVIOUS
    <3> QED BY <3>1, <3>2, SeqMonotonic
  <2> HIDE DEF S
  <2>2. t = p \o h
    BY <1>2
  <2> HIDE DEF p
  <2>3. /\ t \in Seq(S)
        /\ Len(t) = Len(p) + Len(h)
        /\ \A i \in 1..Len(p) : t[i] = p[i]
        /\ Drop(t, Len(p)) = h
    BY <1>0, <2>1, <2>2, AfterPrefix, Zenon
  <2>4. Len(h) \in Nat
    BY LenProperties
  <2>5. Len(t) >= 3 /\ t[1] = "b" /\ t[2] = "3" /\ t[3] = ":"
    BY <2>1, <2>3, <2>4
  <2>6. IsPrefix(<<"b", "3", ":">>, t)
    BY <2>3, <2>5, Prefix3
  <2> QED BY <2>1, <2>3, <2>6 DEF BareHash
<1>3. CASE t = <<"0", "x">> \o h
  <2> DEFINE p == <<"0", "x">>
  <2>1. p \in Seq(S) /\ Len(p) = 2 /\ p[1] = "0" /\ p[2] = "x"
    <3>1. p \in Seq({"0", "x"}) /\ Len(p) = 2
      OBVIOUS
    <3>2. p[1] = "0" /\ p[2] = "x"
      OBVIOUS
    <3> QED BY <3>1, <3>2, SeqMonotonic
  <2> HIDE DEF S
  <2>2. t = p \o h
    BY <1>3
  <2> HIDE DEF p
  <2>3. /\ t \in Seq(S)
        /\ Len(t) = Len(p) + Len(h)
        /\ \A i \in 1..Len(p) : t[i] = p[i]
        /\ Drop(t, Len(p)) = h
    BY <1>0, <2>1, <2>2, AfterPrefix, Zenon
  <2>4. Len(h) \in Nat
    BY LenProperties
  <2>5. Len(t) >= 2 /\ t[1] = "0" /\ t[2] = "x"
    BY <2>1, <2>3, <2>4
  <2>6. ~ IsPrefix(<<"b", "3", ":">>, t)
    BY <2>3, <2>5, Prefix3
  <2>7. StripPrefix(t, <<"0", "x">>) = Drop(t, 2)
    BY <2>3, <2>5, Strip0x
  <2> QED BY <2>1, <2>3, <2>6, <2>7 DEF BareHash
<1> QED BY <1>1, <1>2, <1>3 DEF Spelling

LEMMA HashNamesDirectory ==
  ASSUME NEW C, NEW s \in Seq(C)
  PROVE  LET h == NormalizeHash(s) IN
         IF h = Refused
           THEN \A i, j \in 0..Len(s) :
                  LET hex == SubSeq(s, i + 1, j) IN
                  Len(hex) = HashLen /\ All(hex, Hex) => Trim(s) \notin Spelling(hex)
           ELSE /\ IsDigest(h)
                /\ NormalizeHash(h) = h
                /\ \E i \in 0..Len(s) :
                     LET hex == SubSeq(s, i + 1, i + HashLen) IN
                     ToLower(hex) = h /\ Trim(s) \in Spelling(hex)
<1> DEFINE t == Trim(s)
           b == BareHash(t)
           h == ToLower(b)
           Taken == Len(h) = HashLen /\ All(h, LowerHex)
<1>0. Len(s) \in Nat /\ HashLen \in Nat
  BY LenProperties, TextsAssumption
<1>1. PICK a \in 1..Len(s) + 1 : \E z \in a - 1..Len(s) : t = SubSeq(s, a, z)
  BY TrimCuts
<1>2. PICK z \in a - 1..Len(s) : t = SubSeq(s, a, z)
  BY <1>1
<1> HIDE DEF t
<1>3. a \in Nat \ {0} /\ z \in 0..Len(s) /\ z - a + 1 \in Nat
  BY <1>0
<1>4. t \in Seq(C) /\ Len(t) = z - a + 1 /\ \A i \in 1..z - a + 1 : t[i] = s[a + i - 1]
  <2>1. /\ t \in Seq(C)
        /\ Len(t) = (IF a <= z THEN z - a + 1 ELSE 0)
        /\ \A i \in 1..z - a + 1 : t[i] = s[a + i - 1]
    BY <1>2, <1>3, SubSeqFacts
  <2>2. ~ (a <= z) => z - a + 1 = 0
    BY <1>0
  <2> QED BY <2>1, <2>2
<1>5. PICK c \in 0..Len(t) : b = Drop(t, c) /\ t \in Spelling(Drop(t, c))
  BY <1>4, BareCuts
<1> HIDE DEF b
<1>6. b \in Seq(C) /\ Len(b) = Len(t) - c /\ \A i \in 1..Len(t) - c : b[i] = t[c + i]
  BY <1>4, <1>5, DropFacts
<1>7. h \in Seq(C \cup LowerHex) /\ Len(h) = Len(b) /\ (All(h, LowerHex) <=> All(b, Hex))
  BY <1>6, LowerFacts, LowerIsHex
<1>8. NormalizeHash(s) = IF Taken THEN h ELSE Refused
  BY DEF NormalizeHash, t, b
<1> HIDE DEF h
<1>9. Taken => h # Refused
  <2>1. Refused[1] = "refused" /\ Len(Refused) = 1
    BY DEF Refused
  <2>2. All(h, LowerHex) /\ Len(h) = 1 => h[1] \in LowerHex
    BY <1>7, AllFacts
  <2> QED BY <2>1, <2>2, Characters
<1>10. ASSUME ~ Taken, NEW i \in 0..Len(s), NEW j \in 0..Len(s),
              Len(SubSeq(s, i + 1, j)) = HashLen, All(SubSeq(s, i + 1, j), Hex),
              t \in Spelling(SubSeq(s, i + 1, j))
       PROVE  FALSE
  <2> DEFINE hex == SubSeq(s, i + 1, j)
  <2>1. hex \in Seq(C)
    BY <1>0, SubSeqFacts
  <2>2. b = hex
    BY <1>10, <2>1, BareOfSpelling DEF b
  <2> QED BY <1>7, <1>10, <2>2
<1>11. ASSUME Taken
       PROVE  IsDigest(h) /\ NormalizeHash(h) = h
  <2>1. All(h, Hex)
    BY <1>7, <1>11, AllFacts DEF Hex
  <2>2. Trim(h) = h /\ BareHash(h) = h
    BY <1>7, <2>1, HexIsBare
  <2>3. ToLower(h) = h
    BY <1>7, <1>11, LowerOfLower
  <2> QED BY <1>11, <2>2, <2>3 DEF NormalizeHash, IsDigest
<1>12. ASSUME Taken
       PROVE  \E i \in 0..Len(s) :
                LET hex == SubSeq(s, i + 1, i + HashLen) IN
                ToLower(hex) = h /\ t \in Spelling(hex)
  <2> DEFINE i == a + c - 1
             hex == SubSeq(s, i + 1, i + HashLen)
  <2>1. HashLen = z - a + 1 - c /\ c \in Nat
    BY <1>3, <1>4, <1>6, <1>7, <1>12
  <2>2. i \in 0..Len(s) /\ i + 1 \in Nat \ {0} /\ i + HashLen = z
    BY <1>0, <1>3, <1>4, <2>1
  <2>3. /\ hex \in Seq(C)
        /\ Len(hex) = (IF i + 1 <= z THEN z - (i + 1) + 1 ELSE 0)
        /\ \A m \in 1..z - (i + 1) + 1 : hex[m] = s[i + 1 + m - 1]
    BY <1>3, <2>2, SubSeqFacts
  <2> HIDE DEF hex
  <2>4. Len(hex) = Len(b)
    BY <1>0, <1>3, <1>4, <1>6, <2>1, <2>2, <2>3
  <2>5. ASSUME NEW m \in 1..Len(b) PROVE hex[m] = b[m]
    <3>1. /\ m \in 1..z - (i + 1) + 1 /\ m \in 1..Len(t) - c /\ c + m \in 1..z - a + 1
          /\ i + 1 + m - 1 = a + (c + m) - 1
      BY <1>0, <1>3, <1>4, <1>6, <2>1, <2>2
    <3> QED BY <1>4, <1>6, <2>3, <3>1
  <2>6. hex = b
    BY <1>6, <2>3, <2>4, <2>5, SameText
  <2>7. ToLower(hex) = h /\ t \in Spelling(hex)
    BY <1>5, <2>6 DEF h
  <2> HIDE DEF i
  <2> QED BY <2>2, <2>7 DEF hex
<1>13. CASE Taken
  <2> HIDE DEF Taken
  <2>1. NormalizeHash(s) = h /\ h # Refused
    BY <1>8, <1>9, <1>13
  <2> QED BY <1>11, <1>12, <1>13, <2>1 DEF t
<1>14. CASE ~ Taken
  <2> HIDE DEF Taken
  <2>1. NormalizeHash(s) = Refused
    BY <1>8, <1>14
  <2> QED BY <1>10, <1>14, <2>1 DEF t
<1> QED BY <1>13, <1>14

(* OneDirectoryPerHash, of every text: all spellings of a hash, and nothing*)
(* else, are taken, and name one directory.                                *)
THEOREM HashesHaveOneDirectory == Spec => []OneDirectoryPerHash
<1>1. TypeOK => OneDirectoryPerHash
  BY HashNamesDirectory DEF TypeOK, OneDirectoryPerHash, Hex
<1> QED BY <1>1, TextIsTyped, PTL
=============================================================================
