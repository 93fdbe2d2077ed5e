--------------------------- MODULE FileEntryProofs ---------------------------
(***************************************************************************)
(* Facts about the operators of FileEntry, and the least elements that     *)
(* stand in for induction in the proofs about files and listings.          *)
(***************************************************************************)
EXTENDS FileEntry, FiniteSetTheorems, SequenceTheorems, WellFoundedInduction, TLAPS

-----------------------------------------------------------------------------
(* Numbers.                                                                *)

(* A set of naturals that has a member has a least one.                    *)
LEMMA LeastNatural ==
  ASSUME NEW S, S \subseteq Nat, S # {}
  PROVE  \E x \in S : \A y \in S : x <= y
<1> DEFINE R == {ss \in Nat \X Nat : ss[1] < ss[2]}
<1>1. IsWellFoundedOn(R, Nat)
  BY NatLessThanWellFounded, Zenon DEF OpToRel
<1>2. PICK x \in S : \A y \in S : ~(<<y, x>> \in R)
  BY <1>1, WFMin
<1>3. ASSUME NEW y \in S PROVE x <= y
  <2>1. <<y, x>> \in Nat \X Nat /\ <<y, x>>[1] = y /\ <<y, x>>[2] = x
    OBVIOUS
  <2>2. ~(y < x)
    BY <1>2, <2>1
  <2> QED BY <2>2
<1> QED BY <1>3

LEMMA MinIs ==
  ASSUME NEW S, S \subseteq Nat, S # {}
  PROVE  Min(S) \in S /\ \A y \in S : Min(S) <= y
<1>1. \E x \in S : \A y \in S : x <= y
  BY LeastNatural
<1> QED BY <1>1 DEF Min

LEMMA MaxIs ==
  ASSUME NEW m \in Nat, NEW S, S \subseteq 0..m, S # {}
  PROVE  Max(S) \in S /\ \A y \in S : Max(S) >= y
<1> DEFINE T == {m - x : x \in S}
<1>1. T \subseteq Nat /\ T # {}
  <2>1. \A x \in S : m - x \in Nat
    OBVIOUS
  <2>2. PICK x \in S : TRUE
    OBVIOUS
  <2>3. m - x \in T
    BY <2>2
  <2> QED BY <2>1, <2>3
<1>2. PICK t \in T : \A y \in T : t <= y
  <2> HIDE DEF T
  <2> QED BY <1>1, LeastNatural
<1>3. PICK x \in S : t = m - x
  BY <1>2
<1>4. \A y \in S : x >= y
  <2> TAKE y \in S
  <2>1. m - x <= m - y
    BY <1>2, <1>3
  <2> QED BY <2>1
<1> QED BY <1>4 DEF Max

(* What holds of 0, and of n + 1 when it holds of n, holds up to m.        *)
LEMMA UpTo ==
  ASSUME NEW m \in Nat, NEW S, 0 \in S, \A n \in 0..m : n \in S /\ n < m => n + 1 \in S
  PROVE  \A n \in 0..m : n \in S
<1> DEFINE Bad == {n \in 0..m : n \notin S}
<1> SUFFICES ASSUME Bad # {} PROVE FALSE
  OBVIOUS
<1>1. Bad \subseteq Nat
  OBVIOUS
<1>2. PICK n \in Bad : \A k \in Bad : n <= k
  <2> HIDE DEF Bad
  <2> QED BY <1>1, LeastNatural
<1>3. n # 0 /\ n - 1 \in 0..m /\ n - 1 \notin Bad
  BY <1>2
<1> QED BY <1>2, <1>3

(* A function whose value at n comes from the one at n - 1.                *)
Recurs(g, S, a, m, step) ==
  /\ g \in [0..m -> S] /\ g[0] = a
  /\ \A n \in 1..m : g[n] = step[<<n, g[n - 1]>>]

LEMMA Recursion ==
  ASSUME NEW S, NEW a \in S, NEW m \in Nat, NEW step \in [(1..m) \X S -> S]
  PROVE  \E g : Recurs(g, S, a, m, step)
<1> DEFINE Until(g, n) == /\ g \in [0..n -> S] /\ g[0] = a
                          /\ \A i \in 1..n : g[i] = step[<<i, g[i - 1]>>]
           Good == {n \in 0..m : \E g : Until(g, n)}
<1>1. 0 \in Good
  <2> DEFINE g == [i \in 0..0 |-> a]
  <2>1. g \in [0..0 -> S] /\ g[0] = a
    OBVIOUS
  <2> HIDE DEF g
  <2>2. Until(g, 0) /\ 0 \in 0..m
    BY <2>1
  <2> HIDE DEF Until
  <2> QED BY <2>2
<1>2. ASSUME NEW n \in 0..m, n \in Good, n < m
      PROVE  n + 1 \in Good
  <2>1. PICK h : Until(h, n)
    BY <1>2
  <2> DEFINE v == step[<<n + 1, h[n]>>]
             g == [i \in 0..n+1 |-> IF i = n + 1 THEN v ELSE h[i]]
  <2>2. n + 1 \in 1..m /\ h[n] \in S
    BY <1>2, <2>1
  <2>3. v \in S
    BY <2>2
  <2>4. \A i \in 0..n : i \in 0..n+1 /\ i # n + 1 /\ h[i] \in S
    BY <2>1
  <2> HIDE DEF v
  <2>5. g \in [0..n+1 -> S]
    BY <2>3, <2>4
  <2>6. (\A i \in 0..n : g[i] = h[i]) /\ g[n + 1] = v
    BY <2>4
  <2> HIDE DEF g
  <2>7. g[0] = a
    BY <2>1, <2>6
  <2>8. ASSUME NEW i \in 1..n+1 PROVE g[i] = step[<<i, g[i - 1]>>]
    <3>1. i - 1 \in 0..n /\ g[i - 1] = h[i - 1]
      BY <2>6
    <3>2. CASE i = n + 1
      BY <2>6, <3>1, <3>2 DEF v
    <3>3. CASE i # n + 1
      <4>1. i \in 1..n /\ i \in 0..n
        BY <3>3
      <4> QED BY <2>1, <2>6, <3>1, <4>1
    <3> QED BY <3>2, <3>3
  <2>9. Until(g, n + 1)
    BY <2>5, <2>7, <2>8
  <2>10. n + 1 \in 0..m
    BY <1>2
  <2> HIDE DEF Until
  <2> QED BY <2>9, <2>10
<1> HIDE DEF Good
<1>3. m \in Good
  <2>1. \A n \in 0..m : n \in Good
    BY <1>1, <1>2, UpTo
  <2> QED BY <2>1
<1> QED BY <1>3 DEF Good, Recurs

(* Two such functions agree as far as their steps do.                      *)
Agree(s1, s2, S, n) == \A i \in 1..n, x \in S : s1[<<i, x>>] = s2[<<i, x>>]

LEMMA RecursSame ==
  ASSUME NEW S, NEW a, NEW m \in Nat, NEW n \in 0..m, NEW g, NEW h, NEW s1, NEW s2,
         Recurs(g, S, a, m, s1), Recurs(h, S, a, n, s2), Agree(s1, s2, S, n)
  PROVE  \A i \in 0..n : g[i] = h[i]
<1> DEFINE Same == {i \in 0..n : g[i] = h[i]}
<1>1. 0 \in Same
  BY DEF Recurs
<1>2. ASSUME NEW i \in 0..n, i \in Same, i < n
      PROVE  i + 1 \in Same
  <2>1. i + 1 \in 1..n /\ i + 1 \in 1..m /\ i \in 0..m /\ i + 1 - 1 = i
    BY <1>2
  <2>2. g[i + 1] = s1[<<i + 1, g[i]>>] /\ h[i + 1] = s2[<<i + 1, h[i]>>] /\ g[i] \in S
    BY <2>1 DEF Recurs
  <2>3. g[i + 1] = h[i + 1]
    BY <1>2, <2>1, <2>2 DEF Agree
  <2> QED BY <2>1, <2>3
<1> HIDE DEF Same
<1>3. \A i \in 0..n : i \in Same
  BY <1>1, <1>2, UpTo
<1> QED BY <1>3 DEF Same

(* What is defined in that way is such a function.                         *)
LEMMA Recursive ==
  ASSUME NEW S, NEW a \in S, NEW m \in Nat, NEW step \in [(1..m) \X S -> S], NEW g,
         g = [i \in 0..m |-> g[i]], g[0] = a,
         \A i \in 1..m : g[i - 1] \in S => g[i] = step[<<i, g[i - 1]>>]
  PROVE  Recurs(g, S, a, m, step)
<1> DEFINE Good == {i \in 0..m : g[i] \in S}
<1>1. 0 \in Good
  OBVIOUS
<1>2. ASSUME NEW i \in 0..m, i \in Good, i < m PROVE i + 1 \in Good
  <2>1. i + 1 \in 1..m /\ (i + 1) - 1 = i /\ g[i] \in S
    BY <1>2
  <2>2. g[i + 1] = step[<<i + 1, g[i]>>]
    BY <2>1
  <2>3. g[i + 1] \in S
    BY <2>1, <2>2
  <2> QED BY <2>1, <2>3
<1> HIDE DEF Good
<1>3. \A i \in 0..m : g[i] \in S
  <2>1. \A i \in 0..m : i \in Good
    BY <1>1, <1>2, UpTo
  <2> QED BY <2>1 DEF Good
<1>4. \A i \in 1..m : g[i] = step[<<i, g[i - 1]>>]
  <2> TAKE i \in 1..m
  <2>1. i - 1 \in 0..m
    OBVIOUS
  <2> QED BY <1>3, <2>1
<1>5. g \in [0..m -> S]
  BY <1>3
<1> QED BY <1>4, <1>5 DEF Recurs

-----------------------------------------------------------------------------
(* Sequences.                                                              *)

LEMMA SubSeqFacts ==
  ASSUME NEW S, NEW s \in Seq(S), NEW m \in 1..Len(s) + 1, NEW n \in m - 1 .. Len(s)
  PROVE  /\ SubSeq(s, m, n) \in Seq(S)
         /\ Len(SubSeq(s, m, n)) = n - m + 1
         /\ \A i \in 1..n - m + 1 : SubSeq(s, m, n)[i] = s[m + i - 1]
<1>1. Len(s) \in Nat /\ m \in Int /\ n \in Int
  BY LenProperties
<1>2. \A i \in m..n : s[i] \in S
  BY <1>1, ElementOfSeq
<1>3. /\ SubSeq(s, m, n) \in Seq(S)
      /\ Len(SubSeq(s, m, n)) = IF m <= n THEN n - m + 1 ELSE 0
      /\ \A i \in 1..n - m + 1 : SubSeq(s, m, n)[i] = s[m + i - 1]
  BY <1>1, <1>2, SubSeqProperties
<1>4. m <= n \/ n - m + 1 = 0
  BY <1>1
<1> QED BY <1>1, <1>3, <1>4

LEMMA EqualSeqs ==
  ASSUME NEW S, NEW s \in Seq(S), NEW t \in Seq(S), Len(s) = Len(t),
         \A i \in 1..Len(s) : s[i] = t[i]
  PROVE  s = t
BY SeqEqual

LEMMA FunctionSeq ==
  ASSUME NEW S, NEW n \in Nat, NEW f \in [1..n -> S]
  PROVE  f \in Seq(S) /\ Len(f) = n
BY SeqDef, LenProperties

LEMMA Associates ==
  \A x, y, z \in Seq(Nat) : (x \o y) \o z = x \o (y \o z)
<1>1. ASSUME NEW x \in Seq(Nat), NEW y \in Seq(Nat), NEW z \in Seq(Nat)
      PROVE  (x \o y) \o z = x \o (y \o z)
  <2>1. PICK S : S = Nat
    OBVIOUS
  <2>2. x \in Seq(S) /\ y \in Seq(S) /\ z \in Seq(S)
    BY <2>1, Zenon
  <2> QED BY ONLY <2>2, ConcatAssociative, SMTT(30)
<1> QED BY ONLY <1>1, Zenon

-----------------------------------------------------------------------------
(* Concat: the prefixes of the concatenation.                              *)

Bytes == Seq(Nat)

InputHeads(g, s) ==
  /\ g \in [0..Len(s) -> Bytes] /\ g[0] = <<>>
  /\ \A i \in 1..Len(s) : g[i] = g[i - 1] \o s[i]

Joins(s) == [p \in (1..Len(s)) \X Bytes |-> p[2] \o s[p[1]]]

LEMMA JoinsIs ==
  ASSUME NEW s \in Seq(Bytes)
  PROVE  /\ Joins(s) \in [(1..Len(s)) \X Bytes -> Bytes]
         /\ \A i \in 1..Len(s), x \in Bytes : Joins(s)[<<i, x>>] = x \o s[i]
<1>1. ASSUME NEW p \in (1..Len(s)) \X Bytes PROVE p[2] \o s[p[1]] \in Bytes
  <2>1. p[1] \in 1..Len(s) /\ p[2] \in Bytes
    OBVIOUS
  <2> HIDE DEF Bytes
  <2>2. s[p[1]] \in Bytes
    BY <2>1, ElementOfSeq
  <2> QED BY <2>1, <2>2, ConcatProperties DEF Bytes
<1> HIDE DEF Bytes
<1> QED BY <1>1 DEF Joins

LEMMA PrefixesRecur ==
  ASSUME NEW s \in Seq(Bytes), NEW g
  PROVE  InputHeads(g, s) <=> Recurs(g, Bytes, <<>>, Len(s), Joins(s))
<1>1. ASSUME g \in [0..Len(s) -> Bytes]
      PROVE  \A i \in 1..Len(s) : Joins(s)[<<i, g[i - 1]>>] = g[i - 1] \o s[i]
  <2> TAKE i \in 1..Len(s)
  <2>1. i - 1 \in 0..Len(s)
    BY LenProperties
  <2>2. g[i - 1] \in Bytes
    BY <1>1, <2>1
  <2> QED BY <2>2, JoinsIs
<1> QED BY <1>1 DEF InputHeads, Recurs

LEMMA ConcatIs ==
  ASSUME NEW s \in Seq(Bytes)
  PROVE  \E g : InputHeads(g, s) /\ Concat(s) = g[Len(s)]
<1> DEFINE Turn(h) == [i \in 0..Len(s) |-> IF i = 0 THEN <<>> ELSE h[i - 1] \o s[i]]
           g == CHOOSE h : h = Turn(h)
<1>1. <<>> \in Bytes /\ Len(s) \in Nat
  BY EmptySeq, LenProperties DEF Bytes
<1>2. PICK h : Recurs(h, Bytes, <<>>, Len(s), Joins(s))
  <2> HIDE DEF Bytes
  <2> QED BY <1>1, JoinsIs, Recursion
<1>3. InputHeads(h, s)
  BY <1>2, PrefixesRecur
<1>4. h = Turn(h)
  <2>1. h = [i \in 0..Len(s) |-> h[i]]
    BY <1>3 DEF InputHeads
  <2>2. \A i \in 0..Len(s) : h[i] = IF i = 0 THEN <<>> ELSE h[i - 1] \o s[i]
    BY <1>1, <1>3 DEF InputHeads
  <2> QED BY <2>1, <2>2
<1>5. g = Turn(g)
  <2>1. \E k : k = Turn(k)
    BY <1>4
  <2> HIDE DEF Turn
  <2> QED BY <2>1, Zenon
<1>6. Concat(s) = g[Len(s)]
  BY Zenon DEF Concat
<1> HIDE DEF g
<1>7. g = [i \in 0..Len(s) |-> g[i]] /\ g[0] = <<>>
      /\ \A i \in 1..Len(s) : g[i] = g[i - 1] \o s[i]
  BY <1>1, <1>5
<1>8. Recurs(g, Bytes, <<>>, Len(s), Joins(s))
  <2>1. \A i \in 1..Len(s) : g[i - 1] \in Bytes => g[i] = Joins(s)[<<i, g[i - 1]>>]
    BY <1>7, JoinsIs
  <2> HIDE DEF Bytes
  <2> QED BY <1>1, <1>7, <2>1, JoinsIs, Recursive
<1> QED BY <1>6, <1>8, PrefixesRecur

-----------------------------------------------------------------------------
(* Decode: what the decoder has after each byte.                           *)

State == [out : Bytes, dle : BOOLEAN]
Start == [out |-> <<>>, dle |-> FALSE]

Decodes(g, x) ==
  /\ g \in [0..Len(x) -> State] /\ g[0] = Start
  /\ \A i \in 1..Len(x) : g[i] = DecodeByte(g[i - 1], x[i])

Spaces(n) == [i \in 1..n |-> Blank]

LEMMA SpacesIs ==
  ASSUME NEW n \in Nat
  PROVE  Spaces(n) \in Bytes /\ Len(Spaces(n)) = n /\ \A i \in 1..n : Spaces(n)[i] = Blank
<1>1. Spaces(n) \in [1..n -> Nat]
  BY DEF Spaces, Blank
<1>2. Spaces(n) \in Seq(Nat) /\ Len(Spaces(n)) = n
  BY <1>1, FunctionSeq
<1> QED BY <1>2 DEF Spaces, Bytes

LEMMA DecodeByteIs ==
  ASSUME NEW a \in State, NEW c \in Nat
  PROVE  DecodeByte(a, c) \in State
<1>1. a.out \in Bytes /\ a.dle \in BOOLEAN /\ a = [out |-> a.out, dle |-> a.dle]
  BY DEF State
<1>2. CASE c = Nul
  BY <1>2 DEF DecodeByte
<1>3. CASE c # Nul /\ a.dle
  <2> DEFINE n == IF c > Blank THEN c - Blank ELSE 0
  <2>1. n \in Nat
    BY DEF Blank
  <2>2. DecodeByte(a, c) = [out |-> a.out \o Spaces(n), dle |-> FALSE]
    BY <1>3 DEF DecodeByte, Spaces
  <2> HIDE DEF n
  <2>3. a.out \o Spaces(n) \in Bytes
    BY <1>1, <2>1, SpacesIs, ConcatProperties DEF Bytes
  <2> QED BY <2>2, <2>3 DEF State
<1>4. CASE c # Nul /\ ~a.dle /\ c = Dle
  <2>1. DecodeByte(a, c) = [out |-> a.out, dle |-> TRUE]
    BY <1>1, <1>4 DEF DecodeByte
  <2> QED BY <1>1, <2>1 DEF State
<1>5. CASE c # Nul /\ ~a.dle /\ c # Dle
  <2> DEFINE b == IF c = Return THEN LineFeed ELSE c
  <2>1. b \in Nat
    BY DEF LineFeed
  <2>2. DecodeByte(a, c) = [out |-> Append(a.out, b), dle |-> a.dle]
    BY <1>1, <1>5 DEF DecodeByte
  <2> HIDE DEF b
  <2>3. Append(a.out, b) \in Bytes
    BY <1>1, <2>1, AppendProperties DEF Bytes
  <2> QED BY <1>1, <2>2, <2>3 DEF State
<1> QED BY <1>2, <1>3, <1>4, <1>5

Turns(x) == [p \in (1..Len(x)) \X State |-> DecodeByte(p[2], x[p[1]])]

LEMMA TurnsIs ==
  ASSUME NEW x \in Bytes
  PROVE  /\ Turns(x) \in [(1..Len(x)) \X State -> State]
         /\ \A i \in 1..Len(x), a \in State : Turns(x)[<<i, a>>] = DecodeByte(a, x[i])
<1>1. ASSUME NEW p \in (1..Len(x)) \X State PROVE DecodeByte(p[2], x[p[1]]) \in State
  <2>1. p[1] \in 1..Len(x) /\ p[2] \in State
    OBVIOUS
  <2>2. x[p[1]] \in Nat
    BY <2>1 DEF Bytes
  <2> QED BY <2>1, <2>2, DecodeByteIs
<1> QED BY <1>1 DEF Turns

LEMMA DecodesRecur ==
  ASSUME NEW x \in Bytes, NEW g
  PROVE  Decodes(g, x) <=> Recurs(g, State, Start, Len(x), Turns(x))
<1>1. ASSUME g \in [0..Len(x) -> State]
      PROVE  \A i \in 1..Len(x) : Turns(x)[<<i, g[i - 1]>>] = DecodeByte(g[i - 1], x[i])
  <2> TAKE i \in 1..Len(x)
  <2>1. i - 1 \in 0..Len(x)
    BY LenProperties DEF Bytes
  <2>2. g[i - 1] \in State
    BY <1>1, <2>1
  <2> QED BY <2>2, TurnsIs
<1> QED BY <1>1 DEF Decodes, Recurs

LEMMA StartIs == Start \in State /\ Start.out = <<>> /\ ~Start.dle
<1>1. <<>> \in Bytes
  BY EmptySeq DEF Bytes
<1> QED BY <1>1 DEF Start, State

LEMMA DecodeIs ==
  ASSUME NEW x \in Bytes
  PROVE  \E g : Decodes(g, x) /\ Decode(x) = g[Len(x)].out
<1> DEFINE Turn(h) == [i \in 0..Len(x) |-> IF i = 0 THEN Start
                                            ELSE DecodeByte(h[i - 1], x[i])]
           g == CHOOSE h : h = Turn(h)
<1>1. Len(x) \in Nat
  BY LenProperties DEF Bytes
<1>2. PICK h : Recurs(h, State, Start, Len(x), Turns(x))
  BY <1>1, StartIs, TurnsIs, Recursion
<1>3. Decodes(h, x)
  BY <1>2, DecodesRecur
<1>4. h = Turn(h)
  <2>1. h = [i \in 0..Len(x) |-> h[i]]
    BY <1>3 DEF Decodes
  <2>2. \A i \in 0..Len(x) : h[i] = IF i = 0 THEN Start ELSE DecodeByte(h[i - 1], x[i])
    BY <1>1, <1>3 DEF Decodes
  <2> QED BY <2>1, <2>2
<1>5. g = Turn(g)
  <2>1. \E k : k = Turn(k)
    BY <1>4
  <2> HIDE DEF Turn
  <2> QED BY <2>1, Zenon
<1>6. Decode(x) = g[Len(x)].out
  BY Zenon DEF Decode, Start
<1> HIDE DEF g
<1>7. g = [i \in 0..Len(x) |-> g[i]] /\ g[0] = Start
      /\ \A i \in 1..Len(x) : g[i] = DecodeByte(g[i - 1], x[i])
  BY <1>1, <1>5
<1>8. Recurs(g, State, Start, Len(x), Turns(x))
  <2>1. \A i \in 1..Len(x) : g[i - 1] \in State => g[i] = Turns(x)[<<i, g[i - 1]>>]
    BY <1>7, TurnsIs
  <2> QED BY <1>1, <1>7, <2>1, StartIs, TurnsIs, Recursive
<1> QED BY <1>6, <1>8, DecodesRecur

LEMMA DecodesSame ==
  ASSUME NEW x \in Bytes, NEW g, NEW h, Decodes(g, x), Decodes(h, x)
  PROVE  \A i \in 0..Len(x) : g[i] = h[i]
<1>1. Len(x) \in Nat /\ Len(x) \in 0..Len(x)
  BY LenProperties DEF Bytes
<1>2. Recurs(g, State, Start, Len(x), Turns(x)) /\ Recurs(h, State, Start, Len(x), Turns(x))
  BY DecodesRecur
<1>3. Agree(Turns(x), Turns(x), State, Len(x))
  BY DEF Agree
<1> QED BY <1>1, <1>2, <1>3, RecursSame

(* No DLE is left waiting for its count.                                   *)
Clean(x) == \E g : Decodes(g, x) /\ ~g[Len(x)].dle

(* The rest of the bytes, after those that came to a.                      *)
After(a, b) == [out |-> a \o b.out, dle |-> b.dle]

LEMMA AfterIs ==
  ASSUME NEW a, NEW b
  PROVE  After(a, b).out = a \o b.out /\ After(a, b).dle = b.dle
BY Zenon DEF After

LEMMA DecodeByteAfter ==
  ASSUME NEW a \in Bytes, NEW b \in State, NEW c \in Nat
  PROVE  DecodeByte(After(a, b), c) = After(a, DecodeByte(b, c))
<1>1. b.out \in Bytes /\ b.dle \in BOOLEAN /\ b = [out |-> b.out, dle |-> b.dle]
  BY DEF State
<1>2. CASE c = Nul
  BY <1>2 DEF DecodeByte
<1>3. CASE c # Nul /\ b.dle
  <2> DEFINE n == IF c > Blank THEN c - Blank ELSE 0
  <2>1. n \in Nat
    BY DEF Blank
  <2>2. DecodeByte(b, c) = [out |-> b.out \o Spaces(n), dle |-> FALSE]
    BY <1>3 DEF DecodeByte, Spaces
  <2>3. DecodeByte(After(a, b), c) = [out |-> (a \o b.out) \o Spaces(n), dle |-> FALSE]
    BY <1>3 DEF DecodeByte, Spaces, After
  <2> HIDE DEF n
  <2>4. (a \o b.out) \o Spaces(n) = a \o (b.out \o Spaces(n))
    <3>1. Spaces(n) \in Seq(Nat) /\ a \in Seq(Nat) /\ b.out \in Seq(Nat)
      BY <1>1, <2>1, SpacesIs DEF Bytes
    <3> QED BY <3>1, Associates, Zenon
  <2> QED BY <2>2, <2>3, <2>4 DEF After
<1>4. CASE c # Nul /\ ~b.dle /\ c = Dle
  <2>1. DecodeByte(b, c) = [out |-> b.out, dle |-> TRUE]
    BY <1>1, <1>4 DEF DecodeByte
  <2>2. DecodeByte(After(a, b), c) = [out |-> a \o b.out, dle |-> TRUE]
    BY <1>1, <1>4 DEF DecodeByte, After
  <2> QED BY <2>1, <2>2 DEF After
<1>5. CASE c # Nul /\ ~b.dle /\ c # Dle
  <2> DEFINE d == IF c = Return THEN LineFeed ELSE c
  <2>1. d \in Nat
    BY DEF LineFeed
  <2>2. DecodeByte(b, c) = [out |-> Append(b.out, d), dle |-> b.dle]
    BY <1>1, <1>5 DEF DecodeByte
  <2>3. DecodeByte(After(a, b), c) = [out |-> Append(a \o b.out, d), dle |-> b.dle]
    BY <1>1, <1>5 DEF DecodeByte, After
  <2> HIDE DEF d
  <2>4. Append(a \o b.out, d) = a \o Append(b.out, d)
    <3>1. a \in Seq(Nat) /\ b.out \in Seq(Nat) /\ <<d>> \in Seq(Nat)
      BY <1>1, <2>1 DEF Bytes
    <3>2. a \o b.out \in Seq(Nat)
      BY <3>1, ConcatProperties
    <3>3. Append(a \o b.out, d) = (a \o b.out) \o <<d>>
      BY <2>1, <3>2, AppendIsConcat
    <3>4. Append(b.out, d) = b.out \o <<d>>
      BY <2>1, <3>1, AppendIsConcat
    <3>5. (a \o b.out) \o <<d>> = a \o (b.out \o <<d>>)
      BY <3>1, Associates, Zenon
    <3> QED BY <3>3, <3>4, <3>5
  <2> QED BY <2>2, <2>3, <2>4 DEF After
<1> QED BY <1>2, <1>3, <1>4, <1>5

LEMMA DecodeConcat ==
  ASSUME NEW x \in Bytes, NEW y \in Bytes, Clean(x)
  PROVE  /\ Decode(x \o y) = Decode(x) \o Decode(y)
         /\ Clean(y) => Clean(x \o y)
<1> DEFINE z == x \o y
           m == Len(x)
           n == Len(y)
<1>1. /\ z \in Bytes /\ m \in Nat /\ n \in Nat /\ Len(z) = m + n
      /\ \A i \in 1..m : i \in 1..m+n /\ z[i] = x[i]
      /\ \A i \in 1..n : m + i \in 1..m+n /\ z[m + i] = y[i]
  BY DEF Bytes
<1>2. PICK g : Decodes(g, x) /\ Decode(x) = g[m].out
  BY DecodeIs
<1>3. PICK h : Decodes(h, y) /\ Decode(y) = h[n].out
  BY DecodeIs
<1> HIDE DEF z
<1>4. PICK k : Decodes(k, z) /\ Decode(z) = k[m + n].out
  BY <1>1, DecodeIs
<1>5. ~g[m].dle
  <2>1. PICK f : Decodes(f, x) /\ ~f[m].dle
    BY DEF Clean
  <2>2. m \in 0..m
    BY <1>1
  <2> QED BY <1>2, <2>1, <2>2, DecodesSame
<1>6. k[m] = g[m]
  <2>1. Recurs(k, State, Start, m + n, Turns(z)) /\ Recurs(g, State, Start, m, Turns(x))
    BY <1>1, <1>2, <1>4, DecodesRecur
  <2>2. Agree(Turns(z), Turns(x), State, m)
    <3> SUFFICES ASSUME NEW i \in 1..m, NEW a \in State
                 PROVE  Turns(z)[<<i, a>>] = Turns(x)[<<i, a>>]
      BY DEF Agree
    <3>1. i \in 1..Len(z) /\ i \in 1..Len(x) /\ z[i] = x[i]
      BY <1>1
    <3>2. Turns(z)[<<i, a>>] = DecodeByte(a, z[i])
      BY <1>1, <3>1, TurnsIs
    <3>3. Turns(x)[<<i, a>>] = DecodeByte(a, x[i])
      BY <3>1, TurnsIs
    <3> QED BY <3>1, <3>2, <3>3
  <2>3. m + n \in Nat /\ m \in 0..m+n /\ m \in 0..m
    BY <1>1
  <2> HIDE DEF m, n
  <2> QED BY <2>1, <2>2, <2>3, RecursSame
<1> DEFINE a == g[m].out
           Same == {i \in 0..n : k[m + i] = After(a, h[i])}
<1>7. g[m] \in State /\ a \in Bytes
  BY <1>1, <1>2 DEF Decodes, State
<1>8. 0 \in Same
  <2>1. h[0] = Start /\ g[m] = [out |-> a, dle |-> FALSE]
    BY <1>3, <1>5, <1>7 DEF Decodes, State
  <2>2. a \o <<>> = a
    BY <1>7, ConcatEmptySeq DEF Bytes
  <2>3. After(a, Start) = [out |-> a, dle |-> FALSE]
    BY <2>2 DEF After, Start
  <2>4. m + 0 = m /\ 0 \in 0..n
    BY <1>1
  <2> HIDE DEF a
  <2> QED BY <1>6, <2>1, <2>3, <2>4
<1>9. ASSUME NEW i \in 0..n, i \in Same, i < n PROVE i + 1 \in Same
  <2>1. /\ i + 1 \in 1..n /\ m + (i + 1) \in 1..m+n /\ (i + 1) - 1 = i
        /\ (m + (i + 1)) - 1 = m + i
    BY <1>1, <1>9
  <2>2. k[m + (i + 1)] = DecodeByte(k[m + i], z[m + (i + 1)])
    BY <1>1, <1>4, <2>1 DEF Decodes
  <2>3. h[i + 1] = DecodeByte(h[i], y[i + 1]) /\ h[i] \in State
    BY <1>1, <1>3, <2>1 DEF Decodes
  <2>4. y[i + 1] \in Nat /\ z[m + (i + 1)] = y[i + 1]
    BY <1>1, <2>1, SMTT(30) DEF Bytes
  <2>5. k[m + i] = After(a, h[i])
    BY <1>9
  <2> HIDE DEF a
  <2>6. k[m + (i + 1)] = After(a, h[i + 1])
    BY <1>7, <2>2, <2>3, <2>4, <2>5, DecodeByteAfter
  <2> QED BY <2>1, <2>6
<1> HIDE DEF Same
<1>10. \A i \in 0..n : i \in Same
  BY <1>1, <1>8, <1>9, UpTo
<1>11. k[m + n] = After(a, h[n])
  BY <1>1, <1>10 DEF Same
<1>12. Decode(z) = Decode(x) \o Decode(y)
  <2>1. k[m + n].out = a \o h[n].out
    <3>1. After(a, h[n]).out = a \o h[n].out
      BY AfterIs
    <3> QED BY <1>11, <3>1, Zenon
  <2> QED BY <1>2, <1>3, <1>4, <2>1, Zenon
<1>13. ASSUME Clean(y) PROVE Clean(z)
  <2>1. PICK f : Decodes(f, y) /\ ~f[n].dle
    BY <1>13 DEF Clean
  <2>2. ~h[n].dle
    BY <1>1, <1>3, <2>1, DecodesSame
  <2> QED BY <1>1, <1>4, <1>11, <2>2 DEF Clean, After
<1> QED BY <1>12, <1>13 DEF z

LEMMA DleByte ==
  ASSUME NEW o
  PROVE  DecodeByte([out |-> o, dle |-> FALSE], Dle) = [out |-> o, dle |-> TRUE]
<1>1. Dle # Nul
  BY DEF Dle, Nul
<1> QED BY <1>1 DEF DecodeByte

LEMMA CountByte ==
  ASSUME NEW o, NEW n \in Nat
  PROVE  DecodeByte([out |-> o, dle |-> TRUE], Blank + n) = [out |-> o \o Spaces(n), dle |-> FALSE]
<1>1. Blank + n # Nul
  BY DEF Blank, Nul
<1>2. (IF Blank + n > Blank THEN (Blank + n) - Blank ELSE 0) = n
  BY DEF Blank
<1> DEFINE k == IF Blank + n > Blank THEN (Blank + n) - Blank ELSE 0
<1>3. DecodeByte([out |-> o, dle |-> TRUE], Blank + n) = [out |-> o \o Spaces(k), dle |-> FALSE]
  BY <1>1 DEF DecodeByte, Spaces
<1> QED BY <1>2, <1>3

Unixed(c) == IF c = Return THEN LineFeed ELSE c
LEMMA PlainByte ==
  ASSUME NEW o, NEW c, c # Nul, c # Dle
  PROVE  DecodeByte([out |-> o, dle |-> FALSE], c) = [out |-> Append(o, Unixed(c)), dle |-> FALSE]
BY DEF DecodeByte, Unixed

Plainly(x) == [i \in 1..Len(x) |-> Unixed(x[i])]

LEMMA PlainlyIs ==
  ASSUME NEW x \in Bytes
  PROVE  /\ Plainly(x) \in Bytes /\ Len(Plainly(x)) = Len(x)
         /\ \A i \in 1..Len(x) : Plainly(x)[i] = Unixed(x[i])
<1>1. Plainly(x) \in [1..Len(x) -> Nat] /\ Len(x) \in Nat
  BY DEF Plainly, Unixed, LineFeed, Bytes
<1>2. Plainly(x) \in Seq(Nat) /\ Len(Plainly(x)) = Len(x)
  BY <1>1, FunctionSeq
<1> QED BY <1>2 DEF Plainly, Bytes

(* Bytes that are neither NUL nor DLE decode to themselves.                *)
LEMMA DecodePlain ==
  ASSUME NEW x \in Bytes, \A i \in 1..Len(x) : x[i] \notin {Nul, Dle}
  PROVE  Clean(x) /\ Decode(x) = Plainly(x)
<1> DEFINE n == Len(x)
<1>1. PICK g : Decodes(g, x) /\ Decode(x) = g[n].out
  BY DecodeIs
<1> DEFINE p == Plainly(x)
           Same == {i \in 0..n : g[i] = [out |-> SubSeq(p, 1, i), dle |-> FALSE]}
<1>2. n \in Nat /\ p \in Seq(Nat) /\ Len(p) = n /\ \A i \in 1..n : p[i] = Unixed(x[i])
  BY PlainlyIs, LenProperties DEF Bytes
<1> HIDE DEF p
<1>3. 0 \in Same
  <2>1. SubSeq(p, 1, 0) = <<>>
    BY SubSeqEmpty
  <2>2. g[0] = [out |-> <<>>, dle |-> FALSE] /\ 0 \in 0..n
    BY <1>1, <1>2 DEF Decodes, Start
  <2> QED BY <2>1, <2>2, Zenon
<1>4. ASSUME NEW i \in 0..n, i \in Same, i < n PROVE i + 1 \in Same
  <2>1. i + 1 \in 1..n /\ (i + 1) - 1 = i
    BY <1>2, <1>4
  <2>2. g[i + 1] = DecodeByte(g[i], x[i + 1])
    BY <1>1, <2>1 DEF Decodes
  <2>3. x[i + 1] # Nul /\ x[i + 1] # Dle
    BY <2>1
  <2>4. g[i] = [out |-> SubSeq(p, 1, i), dle |-> FALSE]
    BY <1>4
  <2>5. g[i + 1] = [out |-> Append(SubSeq(p, 1, i), Unixed(x[i + 1])), dle |-> FALSE]
    BY <2>2, <2>3, <2>4, PlainByte
  <2>6. Append(SubSeq(p, 1, i), p[i + 1]) = SubSeq(p, 1, i + 1)
    <3>1. 1 \in 1..Len(p) /\ i + 1 \in 1..Len(p)
      BY <1>2, <2>1
    <3>2. SubSeq(p, 1, i + 1) = SubSeq(p, 1, (i + 1) - 1) \o <<p[i + 1]>>
      BY <1>2, <3>1, SubSeqRecursiveSecond
    <3>3. 1 \in 1..Len(p) + 1 /\ i \in 1 - 1 .. Len(p)
      BY <1>2, <1>4
    <3>4. SubSeq(p, 1, i) \in Seq(Nat) /\ p[i + 1] \in Nat
      BY <1>2, <3>1, <3>3, SubSeqFacts, ElementOfSeq
    <3> QED BY <2>1, <3>2, <3>4, AppendIsConcat
  <2>7. p[i + 1] = Unixed(x[i + 1]) /\ i + 1 \in 0..n
    BY <1>2, <2>1
  <2> QED BY <2>5, <2>6, <2>7, Zenon
<1> HIDE DEF Same
<1>5. \A i \in 0..n : i \in Same
  BY <1>2, <1>3, <1>4, UpTo
<1>6. g[n] = [out |-> SubSeq(p, 1, n), dle |-> FALSE]
  BY <1>2, <1>5 DEF Same
<1>7. SubSeq(p, 1, n) = p
  BY <1>2, SubSeqFull
<1> QED BY <1>1, <1>6, <1>7 DEF Clean, p

(* NULs decode to nothing.                                                 *)
LEMMA DecodeNuls ==
  ASSUME NEW x \in Bytes, \A i \in 1..Len(x) : x[i] = Nul
  PROVE  Clean(x) /\ Decode(x) = <<>>
<1> DEFINE n == Len(x)
<1>1. PICK g : Decodes(g, x) /\ Decode(x) = g[n].out
  BY DecodeIs
<1> DEFINE Same == {i \in 0..n : g[i] = Start}
<1>2. n \in Nat
  BY LenProperties DEF Bytes
<1>3. 0 \in Same
  BY <1>1, <1>2 DEF Decodes
<1>4. ASSUME NEW i \in 0..n, i \in Same, i < n PROVE i + 1 \in Same
  <2>1. i + 1 \in 1..n /\ (i + 1) - 1 = i
    BY <1>2, <1>4
  <2>2. g[i + 1] = DecodeByte(g[i], x[i + 1])
    BY <1>1, <2>1 DEF Decodes
  <2> QED BY <1>2, <1>4, <2>1, <2>2 DEF DecodeByte
<1> HIDE DEF Same
<1>5. \A i \in 0..n : i \in Same
  BY <1>2, <1>3, <1>4, UpTo
<1>6. g[n] = Start
  BY <1>2, <1>5 DEF Same
<1> QED BY <1>1, <1>6, StartIs DEF Clean

(* A DLE and its count decode to blanks.                                   *)
LEMMA DecodeDle ==
  ASSUME NEW n \in Nat
  PROVE  LET x == <<Dle, Blank + n>> IN Clean(x) /\ Decode(x) = Spaces(n) /\ x \in Bytes
<1> DEFINE x == <<Dle, Blank + n>>
<1>1. x \in Bytes /\ Len(x) = 2 /\ x[1] = Dle /\ x[2] = Blank + n
  BY DEF Bytes, Dle, Blank
<1> HIDE DEF x
<1>2. PICK g : Decodes(g, x) /\ Decode(x) = g[2].out
  BY <1>1, DecodeIs
<1>3. g[0] = Start /\ g[1] = DecodeByte(g[0], x[1]) /\ g[2] = DecodeByte(g[1], x[2])
  BY <1>1, <1>2 DEF Decodes
<1>4. g[1] = [out |-> <<>>, dle |-> TRUE]
  BY <1>1, <1>3, DleByte DEF Start
<1>6. g[2] = [out |-> <<>> \o Spaces(n), dle |-> FALSE]
  BY <1>1, <1>3, <1>4, CountByte
<1>7. <<>> \o Spaces(n) = Spaces(n)
  BY SpacesIs, ConcatEmptySeq DEF Bytes
<1> QED BY <1>1, <1>2, <1>6, <1>7 DEF Clean, x

-----------------------------------------------------------------------------
(* A line as it is stored, and what it decodes to.                         *)

LineOf(c, out) ==
  /\ c \in Bytes /\ Len(c) >= 1 /\ c[Len(c)] = Return
  /\ \A i \in 1..Len(c) : c[i] # Nul
  /\ Clean(c) /\ Decode(c) = out

LEMMA LeadingIs ==
  ASSUME NEW x \in Bytes, NEW k \in 1..Len(x), x[k] # Blank
  PROVE  /\ LeadingBlanks(x) \in 0..Len(x)-1
         /\ \A i \in 1..LeadingBlanks(x) : x[i] = Blank
<1> DEFINE J == {i \in DOMAIN x : x[i] # Blank}
<1>1. DOMAIN x = 1..Len(x) /\ Len(x) \in Nat
  BY LenProperties DEF Bytes
<1>2. J \subseteq Nat /\ J # {} /\ J \subseteq 1..Len(x)
  BY <1>1
<1>3. LeadingBlanks(x) = Min(J) - 1
  BY <1>2 DEF LeadingBlanks
<1>4. \A i \in 1..Len(x) : i \notin J => x[i] = Blank
  BY <1>1
<1> HIDE DEF J
<1>5. Min(J) \in J /\ \A y \in J : Min(J) <= y
  BY <1>2, MinIs
<1>6. PICK j : j = Min(J)
  OBVIOUS
<1>7. j \in 1..Len(x) /\ \A i \in 1..j-1 : i \in 1..Len(x) /\ i \notin J
  <2>1. j \in J /\ \A y \in J : j <= y
    BY ONLY <1>5, <1>6
  <2>2. j \in 1..Len(x)
    BY ONLY <1>2, <2>1
  <2> QED BY ONLY <1>1, <2>1, <2>2
<1>8. LeadingBlanks(x) = j - 1
  BY <1>3, <1>6
<1>9. \A i \in 1..j-1 : x[i] = Blank
  BY <1>4, <1>7
<1>10. j - 1 \in 0..Len(x)-1
  BY <1>1, <1>7
<1> QED BY <1>8, <1>9, <1>10

LEMMA CompressIs ==
  ASSUME NEW x \in Bytes, Len(x) >= 1, x[Len(x)] = Return,
         \A i \in 1..Len(x) : x[i] \notin {Nul, Dle}
  PROVE  LineOf(Compress(x), Plainly(x))
<1> DEFINE n == Len(x)
           lead == LeadingBlanks(x)
           count == Smaller(lead, MaxBlanks)
           rest == SubSeq(x, count + 1, n)
           mark == <<Dle, Blank + count>>
<1>1. n \in Nat /\ n \in 1..n /\ x[n] # Blank
  BY LenProperties DEF Bytes, Return, Blank
<1>2. lead \in 0..n-1 /\ \A i \in 1..lead : x[i] = Blank
  BY <1>1, LeadingIs
<1>3. CASE lead < 3
  <2>1. Compress(x) = x
    BY <1>3 DEF Compress
  <2>2. \A i \in 1..n : x[i] # Nul
    OBVIOUS
  <2> QED BY <2>1, <2>2, DecodePlain DEF LineOf
<1>4. CASE ~(lead < 3)
  <2>1. Compress(x) = mark \o rest
    BY <1>4 DEF Compress
  <2> HIDE DEF lead
  <2>2. count \in 1..n-1 /\ \A i \in 1..count : x[i] = Blank
    BY <1>1, <1>2, <1>4, FileEntryAssumption DEF Smaller
  <2> HIDE DEF count
  <2>3. mark \in Bytes /\ Clean(mark) /\ Decode(mark) = Spaces(count)
    BY <2>2, DecodeDle
  <2>4. /\ rest \in Bytes /\ Len(rest) = n - count
        /\ \A i \in 1..n-count : i + count \in 1..n /\ rest[i] = x[i + count]
    <3>1. count + 1 \in 1..Len(x) + 1 /\ n \in (count + 1) - 1 .. Len(x)
      BY <1>1, <2>2
    <3>2. /\ rest \in Seq(Nat) /\ Len(rest) = n - (count + 1) + 1
          /\ \A i \in 1..n - (count + 1) + 1 : rest[i] = x[(count + 1) + i - 1]
      BY <3>1, SubSeqFacts, SMTT(30) DEF Bytes
    <3> HIDE DEF rest
    <3>3. n - (count + 1) + 1 = n - count
      BY <1>1, <2>2
    <3>4. \A i \in 1..n-count : (count + 1) + i - 1 = i + count /\ i + count \in 1..n
      BY <1>1, <2>2
    <3> QED BY <3>2, <3>3, <3>4 DEF Bytes
  <2> HIDE DEF rest
  <2>5. \A i \in 1..Len(rest) : rest[i] \notin {Nul, Dle}
    BY <2>4
  <2>6. Clean(rest) /\ Decode(rest) = Plainly(rest)
    BY <2>4, <2>5, DecodePlain
  <2>7. Len(mark) = 2 /\ mark[1] = Dle /\ mark[2] = Blank + count
    OBVIOUS
  <2> HIDE DEF mark
  <2>8. Clean(mark \o rest) /\ Decode(mark \o rest) = Spaces(count) \o Plainly(rest)
    BY <2>3, <2>4, <2>6, DecodeConcat
  <2>9. Spaces(count) \o Plainly(rest) = Plainly(x)
    <3>1. /\ Spaces(count) \in Seq(Nat) /\ Len(Spaces(count)) = count
          /\ \A i \in 1..count : Spaces(count)[i] = Blank
      BY <2>2, SpacesIs DEF Bytes
    <3>2. /\ Plainly(rest) \in Seq(Nat) /\ Len(Plainly(rest)) = n - count
          /\ \A i \in 1..n-count : Plainly(rest)[i] = Unixed(x[i + count])
      BY <2>4, PlainlyIs DEF Bytes
    <3>3. Plainly(x) \in Seq(Nat) /\ Len(Plainly(x)) = n
          /\ \A i \in 1..n : Plainly(x)[i] = Unixed(x[i])
      BY PlainlyIs DEF Bytes
    <3>4. Unixed(Blank) = Blank
      BY DEF Unixed, Blank, Return
    <3> DEFINE s == Spaces(count)
               p == Plainly(rest)
    <3> HIDE DEF s, p
    <3>5. /\ s \o p \in Seq(Nat) /\ Len(s \o p) = Len(s) + Len(p)
          /\ \A i \in 1..Len(s) + Len(p) :
               (s \o p)[i] = IF i <= Len(s) THEN s[i] ELSE p[i - Len(s)]
      <4>1. s \in Seq(Nat) /\ p \in Seq(Nat)
        BY <3>1, <3>2 DEF s, p
      <4> QED BY ONLY <4>1, ConcatProperties
    <3>6. Len(s \o p) = n
      BY <1>1, <2>2, <3>1, <3>2, <3>5 DEF s, p
    <3>7. ASSUME NEW i \in 1..n PROVE (s \o p)[i] = Plainly(x)[i]
      <4>1. i \in 1..Len(s) + Len(p)
        BY <3>5, <3>6
      <4>2. CASE i <= count
        <5>1. x[i] = Blank /\ s[i] = Blank
          BY <2>2, <3>1, <4>2 DEF s
        <5> QED BY <3>1, <3>3, <3>4, <3>5, <4>1, <4>2, <5>1 DEF s
      <4>3. CASE i > count
        <5>1. i - count \in 1..n-count /\ (i - count) + count = i
          BY <1>1, <2>2, <4>3
        <5>2. p[i - count] = Unixed(x[i])
          BY <3>2, <5>1 DEF p
        <5>3. (s \o p)[i] = p[i - count]
          BY <2>2, <3>1, <3>5, <4>1, <4>3 DEF s
        <5> QED BY <3>3, <5>2, <5>3
      <4>4. i \in Int /\ count \in Int
        BY <1>1, <2>2
      <4>5. i <= count \/ i > count
        BY ONLY <4>4
      <4> QED BY ONLY <4>2, <4>3, <4>5
    <3> QED BY <3>3, <3>5, <3>6, <3>7, EqualSeqs DEF s, p
  <2>10. /\ mark \o rest \in Bytes /\ Len(mark \o rest) = n - count + 2
         /\ \A i \in 1..n-count+2 :
              (mark \o rest)[i] = IF i <= 2 THEN mark[i] ELSE rest[i - 2]
    <3>1. /\ mark \o rest \in Seq(Nat) /\ Len(mark \o rest) = Len(mark) + Len(rest)
          /\ \A i \in 1..Len(mark) + Len(rest) :
               (mark \o rest)[i] = IF i <= Len(mark) THEN mark[i] ELSE rest[i - Len(mark)]
      <4>1. mark \in Seq(Nat) /\ rest \in Seq(Nat)
        BY <2>3, <2>4 DEF Bytes
      <4> QED BY ONLY <4>1, ConcatProperties
    <3>2. Len(mark) + Len(rest) = n - count + 2
      BY <1>1, <2>2, <2>4, <2>7
    <3> QED BY <2>7, <3>1, <3>2 DEF Bytes
  <2> DEFINE c == mark \o rest
  <2> HIDE DEF c
  <2>11. Len(c) >= 1 /\ c[Len(c)] = Return
    <3> DEFINE m == n - count + 2
    <3>1. m \in 1..m /\ ~(m <= 2) /\ m - 2 = n - count /\ n - count \in 1..n-count
          /\ (n - count) + count = n
      BY <1>1, <2>2
    <3>2. Len(c) = m /\ \A i \in 1..m : c[i] = IF i <= 2 THEN mark[i] ELSE rest[i - 2]
      BY <2>10 DEF c
    <3> HIDE DEF m
    <3>3. c[m] = rest[n - count]
      BY <3>1, <3>2
    <3>4. rest[n - count] = x[n] /\ x[n] = Return
      BY <2>4, <3>1
    <3>5. m \in Nat /\ m >= 1
      BY <3>1
    <3> QED BY <3>2, <3>3, <3>4, <3>5
  <2>12. ASSUME NEW i \in 1..Len(c) PROVE c[i] # Nul
    <3>1. i \in 1..n-count+2
      BY <2>10 DEF c
    <3>2. CASE i <= 2
      <4>1. i = 1 \/ i = 2
        BY <3>1, <3>2
      <4>2. Dle # Nul /\ Blank + count # Nul
        BY <2>2 DEF Dle, Nul, Blank
      <4> QED BY <2>7, <2>10, <3>1, <3>2, <4>1, <4>2 DEF c
    <3>3. CASE ~(i <= 2)
      <4>1. i - 2 \in 1..Len(rest)
        BY <1>1, <2>2, <2>4, <3>1, <3>3
      <4> QED BY <2>5, <2>10, <3>1, <3>3, <4>1 DEF c
    <3> QED BY <3>2, <3>3
  <2> QED BY <2>1, <2>8, <2>9, <2>10, <2>11, <2>12 DEF LineOf, c
<1> QED BY <1>3, <1>4

(* writeLine(), of a line without its end.                                 *)
LEMMA StoredIs ==
  ASSUME NEW line \in Bytes, \A i \in 1..Len(line) : line[i] \notin {Nul, Dle, Return, LineFeed}
  PROVE  LineOf(Stored(line), Append(line, LineFeed))
<1> DEFINE n == Len(line)
           x == Append(line, Return)
<1>1. /\ n \in Nat /\ x \in Bytes /\ Len(x) = n + 1 /\ x[n + 1] = Return
      /\ \A i \in 1..n : x[i] = line[i]
  BY AppendProperties, LenProperties DEF Bytes, Return
<1>2. Plainly(x) = Append(line, LineFeed)
  <2>1. /\ Append(line, LineFeed) \in Seq(Nat) /\ Len(Append(line, LineFeed)) = n + 1
        /\ Append(line, LineFeed)[n + 1] = LineFeed
        /\ \A i \in 1..n : Append(line, LineFeed)[i] = line[i]
    BY AppendProperties DEF Bytes, LineFeed
  <2> DEFINE y == Append(line, LineFeed)
  <2> HIDE DEF x, y
  <2>2. /\ Plainly(x) \in Seq(Nat) /\ Len(Plainly(x)) = n + 1
        /\ \A i \in 1..n+1 : Plainly(x)[i] = Unixed(x[i])
    BY <1>1, PlainlyIs DEF Bytes
  <2>3. ASSUME NEW i \in 1..n+1 PROVE Plainly(x)[i] = y[i]
    <3>1. CASE i = n + 1
      BY <1>1, <2>1, <2>2, <3>1 DEF y, Unixed
    <3>2. CASE i # n + 1
      <4>1. i \in 1..n
        BY <1>1, <3>2
      <4>2. Unixed(line[i]) = line[i]
        BY <4>1 DEF Unixed
      <4> QED BY <1>1, <2>1, <2>2, <4>1, <4>2 DEF y
    <3> QED BY <3>1, <3>2
  <2> QED BY <2>1, <2>2, <2>3, EqualSeqs DEF y
<1> HIDE DEF x
<1>3. \A i \in 1..Len(x) : x[i] \notin {Nul, Dle}
  <2> TAKE i \in 1..Len(x)
  <2>1. CASE i = n + 1
    BY <1>1, <2>1 DEF Return, Nul, Dle
  <2>2. CASE i # n + 1
    <3>1. i \in 1..n
      BY <1>1, <2>2
    <3> QED BY <1>1, <3>1
  <2> QED BY <2>1, <2>2
<1>4. Len(x) >= 1 /\ x[Len(x)] = Return
  BY <1>1
<1>5. LineOf(Compress(x), Append(line, LineFeed))
  BY <1>1, <1>2, <1>3, <1>4, CompressIs
<1>6. CASE n = 0
  <2>1. Stored(line) = <<Return>>
    BY <1>6 DEF Stored
  <2>2. line = <<>>
    BY <1>6, EmptySeq DEF Bytes
  <2>3. x = <<Return>>
    BY <2>2 DEF x
  <2>4. LeadingBlanks(x) < 3
    <3>1. 1 \in 1..Len(x) /\ x[1] # Blank
      BY <1>1, <1>6 DEF Return, Blank
    <3>2. LeadingBlanks(x) \in 0..Len(x)-1
      BY <1>1, <3>1, LeadingIs
    <3> QED BY <1>1, <1>6, <3>2
  <2>5. Compress(x) = x
    BY <2>4 DEF Compress
  <2> QED BY <1>5, <2>1, <2>3, <2>5
<1>7. CASE n # 0
  <2>1. n \in 1..n
    BY <1>1, <1>7
  <2>2. Stored(line) = Compress(x)
    BY <1>7, <2>1 DEF Stored, x
  <2> QED BY <1>5, <2>2
<1> QED BY <1>6, <1>7

-----------------------------------------------------------------------------
(* Pieces of sequences.                                                    *)

LEMMA Joined ==
  ASSUME NEW x \in Bytes, NEW y \in Bytes
  PROVE  /\ x \o y \in Bytes /\ Len(x) \in Nat /\ Len(y) \in Nat
         /\ Len(x \o y) = Len(x) + Len(y)
         /\ \A i \in 1..Len(x) : (x \o y)[i] = x[i]
         /\ \A i \in 1..Len(y) : (x \o y)[Len(x) + i] = y[i]
BY DEF Bytes

LEMMA Halves ==
  ASSUME NEW x \in Bytes, NEW n \in 0..Len(x)
  PROVE  SubSeq(x, 1, n) \o SubSeq(x, n + 1, Len(x)) = x
<1>1. Len(x) \in Nat /\ x \in Seq(Nat)
  BY LenProperties DEF Bytes
<1>2. 1 \in 1..Len(x) + 1 /\ n \in 1 - 1 .. Len(x) /\ Len(x) \in n..Len(x)
  BY <1>1
<1>3. SubSeq(x, 1, n) \o SubSeq(x, n + 1, Len(x)) = SubSeq(x, 1, Len(x))
  BY <1>1, <1>2, ConcatAdjacentSubSeq
<1> QED BY <1>1, <1>3, SubSeqFull

(* The bytes from offset o on.                                             *)
Drop(x, o) == SubSeq(x, o + 1, Len(x))

LEMMA DropIs ==
  ASSUME NEW x \in Bytes, NEW o \in 0..Len(x)
  PROVE  /\ Drop(x, o) \in Bytes /\ Len(Drop(x, o)) = Len(x) - o
         /\ \A i \in 1..Len(x) - o : Drop(x, o)[i] = x[o + i]
<1>1. Len(x) \in Nat /\ x \in Seq(Nat)
  BY LenProperties DEF Bytes
<1>2. o + 1 \in 1..Len(x) + 1 /\ Len(x) \in (o + 1) - 1 .. Len(x)
  BY <1>1
<1>3. /\ Drop(x, o) \in Seq(Nat) /\ Len(Drop(x, o)) = Len(x) - (o + 1) + 1
      /\ \A i \in 1..Len(x) - (o + 1) + 1 : Drop(x, o)[i] = x[(o + 1) + i - 1]
  BY <1>1, <1>2, SubSeqFacts DEF Drop
<1>4. Len(x) - (o + 1) + 1 = Len(x) - o /\ \A i \in 1..Len(x) - o : (o + 1) + i - 1 = o + i
  BY <1>1
<1> QED BY <1>3, <1>4 DEF Bytes

LEMMA DropJoined ==
  ASSUME NEW x \in Bytes, NEW y \in Bytes, NEW o \in 0..Len(x)
  PROVE  Drop(x \o y, o) = Drop(x, o) \o y
<1> DEFINE m == Len(x)
           n == Len(y)
           z == x \o y
           d == Drop(x, o)
           e == Drop(z, o)
<1>1. /\ z \in Bytes /\ m \in Nat /\ n \in Nat /\ Len(z) = m + n
      /\ \A i \in 1..m : z[i] = x[i]
      /\ \A i \in 1..n : z[m + i] = y[i]
  BY Joined
<1>2. d \in Bytes /\ Len(d) = m - o /\ \A i \in 1..m-o : d[i] = x[o + i]
  BY DropIs
<1> HIDE DEF z, d
<1>3. o \in 0..Len(z)
  BY <1>1
<1>4. e \in Bytes /\ Len(e) = (m + n) - o /\ \A i \in 1..(m+n)-o : e[i] = z[o + i]
  BY <1>1, <1>3, DropIs
<1>5. /\ d \o y \in Bytes /\ Len(d \o y) = Len(d) + n
      /\ \A i \in 1..Len(d) : (d \o y)[i] = d[i]
      /\ \A i \in 1..n : (d \o y)[Len(d) + i] = y[i]
  BY <1>2, Joined
<1> HIDE DEF e, m, n
<1>6. Len(e) = Len(d \o y) /\ o \in Nat
  BY <1>1, <1>2, <1>4, <1>5
<1>7. ASSUME NEW i \in 1..Len(e) PROVE e[i] = (d \o y)[i]
  <2>1. i \in 1..(m+n)-o /\ e[i] = z[o + i]
    BY <1>4
  <2>2. CASE i <= m - o
    <3>1. i \in 1..m-o /\ o + i \in 1..m
      BY <1>1, <1>6, <2>1, <2>2
    <3> QED BY <1>1, <1>2, <1>5, <2>1, <3>1
  <2>3. CASE i > m - o
    <3> DEFINE j == i - (m - o)
    <3>1. j \in 1..n /\ o + i = m + j /\ (m - o) + j = i
      BY <1>1, <1>6, <2>1, <2>3
    <3> HIDE DEF j
    <3> QED BY <1>1, <1>2, <1>5, <2>1, <3>1
  <2>4. i <= m - o \/ i > m - o
    BY <1>1, <1>6, <2>1
  <2> QED BY <2>2, <2>3, <2>4
<1> QED BY <1>4, <1>5, <1>6, <1>7, EqualSeqs DEF Bytes, e, z, d

LEMMA SliceDropped ==
  ASSUME NEW x \in Bytes, NEW o \in 0..Len(x), NEW n \in 0..Len(x) - o
  PROVE  SubSeq(Drop(x, o), 1, n) = SubSeq(x, o + 1, o + n)
<1> DEFINE d == Drop(x, o)
<1>1. Len(x) \in Nat /\ x \in Seq(Nat) /\ o \in Nat /\ n \in Nat
  BY LenProperties DEF Bytes
<1>2. d \in Seq(Nat) /\ Len(d) = Len(x) - o /\ \A i \in 1..Len(x)-o : d[i] = x[o + i]
  BY DropIs DEF Bytes
<1> HIDE DEF d
<1>3. 1 \in 1..Len(d) + 1 /\ n \in 1 - 1 .. Len(d)
  BY <1>1, <1>2
<1>4. /\ SubSeq(d, 1, n) \in Seq(Nat) /\ Len(SubSeq(d, 1, n)) = n - 1 + 1
      /\ \A i \in 1..n - 1 + 1 : SubSeq(d, 1, n)[i] = d[1 + i - 1]
  BY <1>2, <1>3, SubSeqFacts
<1>5. o + 1 \in 1..Len(x) + 1 /\ o + n \in (o + 1) - 1 .. Len(x)
  BY <1>1
<1>6. /\ SubSeq(x, o + 1, o + n) \in Seq(Nat) /\ Len(SubSeq(x, o + 1, o + n)) = (o + n) - (o + 1) + 1
      /\ \A i \in 1..(o + n) - (o + 1) + 1 : SubSeq(x, o + 1, o + n)[i] = x[(o + 1) + i - 1]
  BY <1>1, <1>5, SubSeqFacts
<1>7. n - 1 + 1 = n /\ (o + n) - (o + 1) + 1 = n
  BY <1>1
<1>8. \A i \in 1..n : 1 + i - 1 = i /\ (o + 1) + i - 1 = o + i /\ i \in 1..Len(x) - o
  BY <1>1
<1> DEFINE a == SubSeq(d, 1, n)
           b == SubSeq(x, o + 1, o + n)
<1>9. a \in Seq(Nat) /\ Len(a) = n /\ \A i \in 1..n : a[i] = x[o + i]
  BY <1>2, <1>4, <1>7, <1>8
<1>10. b \in Seq(Nat) /\ Len(b) = n /\ \A i \in 1..n : b[i] = x[o + i]
  BY <1>6, <1>7, <1>8
<1> HIDE DEF a, b
<1>11. a = b
  BY <1>9, <1>10, EqualSeqs
<1> QED BY <1>11 DEF a, b, d

-----------------------------------------------------------------------------
(* What Concat puts where.                                                 *)

LEMMA ConcatBytes ==
  ASSUME NEW s \in Seq(Bytes)
  PROVE  Concat(s) \in Bytes
<1>1. PICK g : InputHeads(g, s) /\ Concat(s) = g[Len(s)]
  BY ConcatIs
<1>2. Len(s) \in 0..Len(s)
  BY LenProperties
<1> QED BY <1>1, <1>2 DEF InputHeads

(* Two sequences that begin alike have the same prefixes there.            *)
LEMMA PrefixesAgree ==
  ASSUME NEW s \in Seq(Bytes), NEW t \in Seq(Bytes), NEW n \in 0..Len(t), n <= Len(s),
         \A i \in 1..n : s[i] = t[i], NEW g, NEW h, InputHeads(g, s), InputHeads(h, t)
  PROVE  g[n] = h[n]
<1>1. n \in Nat /\ Len(s) \in Nat /\ Len(t) \in Nat
  BY LenProperties
<1> DEFINE Same == {i \in 0..n : g[i] = h[i]}
<1>2. 0 \in Same
  BY <1>1 DEF InputHeads
<1>3. ASSUME NEW i \in 0..n, i \in Same, i < n PROVE i + 1 \in Same
  <2>1. i + 1 \in 1..n /\ i + 1 \in 1..Len(s) /\ i + 1 \in 1..Len(t) /\ (i + 1) - 1 = i
    BY <1>1, <1>3
  <2>2. g[i + 1] = g[i] \o s[i + 1] /\ h[i + 1] = h[i] \o t[i + 1]
    BY <2>1 DEF InputHeads
  <2>3. g[i] = h[i] /\ s[i + 1] = t[i + 1] /\ i + 1 \in 0..n
    BY <1>1, <1>3, <2>1
  <2>4. g[i + 1] = h[i + 1]
    BY <2>2, <2>3, Zenon
  <2> QED BY <2>3, <2>4
<1> HIDE DEF Same
<1>4. \A i \in 0..n : i \in Same
  BY <1>1, <1>2, <1>3, UpTo
<1> QED BY <1>1, <1>4 DEF Same

LEMMA ConcatAppend ==
  ASSUME NEW s \in Seq(Bytes), NEW x \in Bytes
  PROVE  Concat(Append(s, x)) = Concat(s) \o x
<1> DEFINE t == Append(s, x)
           n == Len(s)
<1>1. t \in Seq(Bytes) /\ Len(t) = n + 1 /\ n \in Nat /\ t[n + 1] = x /\ \A i \in 1..n : t[i] = s[i]
  <2> HIDE DEF Bytes
  <2> QED BY AppendProperties, LenProperties
<1> HIDE DEF t
<1>2. PICK g : InputHeads(g, s) /\ Concat(s) = g[n]
  BY ConcatIs
<1>3. PICK h : InputHeads(h, t) /\ Concat(t) = h[n + 1]
  BY <1>1, ConcatIs
<1>4. g[n] = h[n]
  BY <1>1, <1>2, <1>3, PrefixesAgree
<1>5. n + 1 \in 1..Len(t) /\ (n + 1) - 1 = n
  BY <1>1
<1>6. h[n + 1] = h[n] \o x
  BY <1>1, <1>3, <1>5 DEF InputHeads
<1> QED BY <1>2, <1>3, <1>4, <1>6 DEF t

(* Whichever prefixes are picked, the last is the whole.                   *)
LEMMA ConcatLast ==
  ASSUME NEW s \in Seq(Bytes), NEW g, InputHeads(g, s)
  PROVE  Concat(s) = g[Len(s)]
<1>1. PICK h : InputHeads(h, s) /\ Concat(s) = h[Len(s)]
  BY ConcatIs
<1>2. Len(s) \in 0..Len(s) /\ Len(s) <= Len(s)
  BY LenProperties
<1> QED BY <1>1, <1>2, PrefixesAgree

(* A prefix is where the whole begins.                                     *)
LEMMA PrefixesBegin ==
  ASSUME NEW s \in Seq(Bytes), NEW g, InputHeads(g, s), NEW m \in 0..Len(s)
  PROVE  \A n \in m..Len(s) : /\ g[n] \in Bytes /\ Len(g[m]) \in Nat /\ Len(g[m]) <= Len(g[n])
                              /\ \A i \in 1..Len(g[m]) : g[n][i] = g[m][i]
<1>1. m \in Nat /\ Len(s) \in Nat
  BY LenProperties
<1>2. g[m] \in Bytes /\ Len(g[m]) \in Nat
  BY LenProperties DEF InputHeads, Bytes
<1> DEFINE Begun(x) == x \in Bytes /\ Len(g[m]) <= Len(x) /\ \A i \in 1..Len(g[m]) : x[i] = g[m][i]
           Good == {k \in 0..Len(s)-m : Begun(g[m + k])}
<1>3. 0 \in Good
  BY <1>1, <1>2
<1>4. ASSUME NEW k \in 0..Len(s)-m, k \in Good, k < Len(s) - m PROVE k + 1 \in Good
  <2>1. m + (k + 1) \in 1..Len(s) /\ (m + (k + 1)) - 1 = m + k /\ k + 1 \in 0..Len(s)-m
    BY <1>1, <1>4
  <2>2. g[m + (k + 1)] = g[m + k] \o s[m + (k + 1)]
    BY <2>1 DEF InputHeads
  <2>3. Begun(g[m + k])
    BY <1>4
  <2>4. s[m + (k + 1)] \in Bytes
    <3> HIDE DEF Bytes
    <3> QED BY <2>1, ElementOfSeq
  <2>5. PICK x, y : x = g[m + k] /\ y = s[m + (k + 1)]
    OBVIOUS
  <2>6. /\ x \o y \in Bytes /\ Len(x \o y) = Len(x) + Len(y) /\ Len(x) \in Nat /\ Len(y) \in Nat
        /\ \A i \in 1..Len(x) : (x \o y)[i] = x[i]
    BY <2>3, <2>4, <2>5, Joined
  <2>7. PICK z : z = x \o y
    OBVIOUS
  <2>8. Len(g[m]) <= Len(x) /\ \A i \in 1..Len(g[m]) : x[i] = g[m][i]
    BY <2>3, <2>5
  <2>9. Len(g[m]) <= Len(z) /\ \A i \in 1..Len(g[m]) : i \in 1..Len(x)
    BY <1>2, <2>6, <2>7, <2>8
  <2>10. \A i \in 1..Len(g[m]) : z[i] = g[m][i]
    BY <2>6, <2>7, <2>8, <2>9
  <2>11. Begun(z)
    BY <2>6, <2>7, <2>9, <2>10
  <2>12. g[m + (k + 1)] = z
    BY <2>2, <2>5, <2>7
  <2> QED BY <2>1, <2>11, <2>12
<1> HIDE DEF Good
<1>5. \A k \in 0..Len(s)-m : k \in Good
  <2>1. Len(s) - m \in Nat
    BY <1>1
  <2> QED BY <2>1, <1>3, <1>4, UpTo
<1>6. ASSUME NEW n \in m..Len(s) PROVE Begun(g[n])
  <2>1. n - m \in 0..Len(s)-m /\ m + (n - m) = n
    BY <1>1
  <2> QED BY <1>5, <2>1 DEF Good
<1> QED BY <1>2, <1>6

LEMMA Products ==
  /\ \A k, m \in Nat : k * m \in Nat /\ (k + 1) * m = k * m + m
  /\ \A k, l, m \in Nat : (k + l) * m = k * m + l * m
  /\ \A k, l, m \in Nat : k <= l => k * m <= l * m
  /\ \A k, l, m \in Nat : k < l => k * m + m <= l * m
<1>1. \A k, m \in Nat : k * m \in Nat /\ (k + 1) * m = k * m + m
  OBVIOUS
<1>2. \A k, l, m \in Nat : (k + l) * m = k * m + l * m
  OBVIOUS
<1>3. ASSUME NEW k \in Nat, NEW l \in Nat, NEW m \in Nat, k <= l PROVE k * m <= l * m
  <2>1. l - k \in Nat /\ k + (l - k) = l
    BY <1>3
  <2>2. (k + (l - k)) * m = k * m + (l - k) * m /\ (l - k) * m \in Nat /\ k * m \in Nat
    BY <1>1, <1>2, <2>1
  <2> QED BY <2>1, <2>2
<1>4. ASSUME NEW k \in Nat, NEW l \in Nat, NEW m \in Nat, k < l PROVE k * m + m <= l * m
  <2>1. k + 1 \in Nat /\ k + 1 <= l
    BY <1>4
  <2> QED BY <1>1, <1>3, <2>1
<1> QED BY <1>1, <1>2, <1>3, <1>4

(* Sequences that are all m long.                                          *)
LEMMA ConcatEven ==
  ASSUME NEW s \in Seq(Bytes), NEW m \in Nat, \A i \in 1..Len(s) : Len(s[i]) = m
  PROVE  /\ Concat(s) \in Bytes /\ Len(Concat(s)) = Len(s) * m
         /\ \A k \in 0..Len(s)-1, j \in 1..m :
              k * m + j \in 1..Len(s) * m /\ Concat(s)[k * m + j] = s[k + 1][j]
<1> DEFINE n == Len(s)
<1>1. n \in Nat
  BY LenProperties
<1>2. PICK g : InputHeads(g, s) /\ Concat(s) = g[n]
  BY ConcatIs
<1> DEFINE Good == {k \in 0..n : Len(g[k]) = k * m}
<1>3. 0 \in Good
  <2>1. g[0] = <<>> /\ Len(<<>>) = 0 /\ 0 * m = 0
    BY <1>2, EmptySeq DEF InputHeads
  <2> QED BY <1>1, <2>1
<1>4. ASSUME NEW k \in 0..n, k < n
      PROVE  /\ g[k + 1] \in Bytes /\ Len(g[k]) \in Nat
             /\ Len(g[k + 1]) = Len(g[k]) + m
             /\ \A j \in 1..m : g[k + 1][Len(g[k]) + j] = s[k + 1][j]
  <2>1. k + 1 \in 1..Len(s) /\ (k + 1) - 1 = k
    BY <1>1, <1>4
  <2>2. g[k + 1] = g[k] \o s[k + 1] /\ g[k] \in Bytes
    BY <1>2, <1>4, <2>1 DEF InputHeads
  <2>3. s[k + 1] \in Bytes /\ Len(s[k + 1]) = m
    <3>1. s[k + 1] \in Bytes
      <4> HIDE DEF Bytes
      <4> QED BY <2>1, ElementOfSeq
    <3> QED BY <2>1, <3>1
  <2>4. PICK x, y : x = g[k] /\ y = s[k + 1]
    OBVIOUS
  <2>5. /\ x \o y \in Bytes /\ Len(x) \in Nat /\ Len(x \o y) = Len(x) + Len(y)
        /\ \A i \in 1..Len(y) : (x \o y)[Len(x) + i] = y[i]
    BY <2>2, <2>3, <2>4, Joined
  <2>6. g[k + 1] = x \o y
    BY <2>2, <2>4
  <2>7. Len(y) = m
    BY <2>3, <2>4
  <2> QED BY <2>4, <2>5, <2>6, <2>7
<1>5. ASSUME NEW k \in 0..n, k \in Good, k < n PROVE k + 1 \in Good
  <2>1. Len(g[k + 1]) = Len(g[k]) + m /\ Len(g[k]) = k * m /\ k + 1 \in 0..n
    BY <1>1, <1>4, <1>5
  <2>2. (k + 1) * m = k * m + m
    BY <1>1, Products
  <2> QED BY <2>1, <2>2
<1> HIDE DEF Good
<1>6. \A k \in 0..n : k \in Good
  BY <1>1, <1>3, <1>5, UpTo
<1>7. Len(g[n]) = n * m /\ g[n] \in Bytes
  BY <1>1, <1>2, <1>6 DEF Good, InputHeads
<1>8. ASSUME NEW k \in 0..n-1, NEW j \in 1..m
      PROVE  k * m + j \in 1..n * m /\ g[n][k * m + j] = s[k + 1][j]
  <2>1. k \in 0..n /\ k < n /\ k + 1 \in 0..n /\ n \in (k + 1)..n
    BY <1>1
  <2>2. Len(g[k]) = k * m /\ g[k + 1][Len(g[k]) + j] = s[k + 1][j]
    BY <1>4, <1>6, <2>1 DEF Good
  <2>3. k * m \in Nat /\ (k + 1) * m = k * m + m
    BY <2>1, Products
  <2>4. Len(g[k + 1]) = k * m + m
    BY <1>6, <2>1, <2>3 DEF Good
  <2>5. k * m + j \in 1..Len(g[k + 1])
    BY <2>3, <2>4
  <2>6. \A i \in 1..Len(g[k + 1]) : g[n][i] = g[k + 1][i]
    BY <1>1, <1>2, <2>1, PrefixesBegin
  <2>7. g[n][k * m + j] = s[k + 1][j]
    BY <2>2, <2>5, <2>6
  <2>8. k * m + m <= n * m
    BY <1>1, <2>1, Products
  <2>9. n * m \in Nat
    BY <1>1, Products
  <2> QED BY <2>3, <2>7, <2>8, <2>9
<1> QED BY <1>2, <1>7, <1>8

(* Pages of which only the last may leave a DLE without its count decode   *)
(* one by one as they do at one go.                                        *)
Decoded(s) == [i \in 1..Len(s) |-> Decode(s[i])]

LEMMA DecodeBytes ==
  ASSUME NEW x \in Bytes
  PROVE  Decode(x) \in Bytes
<1>1. PICK g : Decodes(g, x) /\ Decode(x) = g[Len(x)].out
  BY DecodeIs
<1>2. Len(x) \in 0..Len(x)
  BY LenProperties DEF Bytes
<1>3. g[Len(x)] \in State
  BY <1>1, <1>2 DEF Decodes
<1> QED BY <1>1, <1>3 DEF State

LEMMA DecodedIs ==
  ASSUME NEW s \in Seq(Bytes)
  PROVE  /\ Decoded(s) \in Seq(Bytes) /\ Len(Decoded(s)) = Len(s)
         /\ \A i \in 1..Len(s) : Decoded(s)[i] = Decode(s[i])
<1> HIDE DEF Bytes
<1>1. Len(s) \in Nat
  BY LenProperties
<1>2. \A i \in 1..Len(s) : Decode(s[i]) \in Bytes
  BY ElementOfSeq, DecodeBytes
<1>3. Decoded(s) \in [1..Len(s) -> Bytes]
  BY <1>2 DEF Decoded
<1>4. Decoded(s) \in Seq(Bytes) /\ Len(Decoded(s)) = Len(s)
  BY <1>1, <1>3, FunctionSeq
<1> QED BY <1>4 DEF Decoded

LEMMA CleanEmpty == Clean(<<>>) /\ Decode(<<>>) = <<>>
<1>1. <<>> \in Bytes /\ \A i \in 1..Len(<<>>) : <<>>[i] = Nul
  BY EmptySeq DEF Bytes
<1> QED BY <1>1, DecodeNuls

LEMMA DecodePages ==
  ASSUME NEW s \in Seq(Bytes), \A i \in 1..Len(s)-1 : Clean(s[i])
  PROVE  /\ Decode(Concat(s)) = Concat(Decoded(s))
         /\ (Len(s) = 0 \/ Clean(s[Len(s)])) => Clean(Concat(s))
<1> DEFINE n == Len(s)
           d == Decoded(s)
<1>1. n \in Nat /\ d \in Seq(Bytes) /\ Len(d) = n /\ \A i \in 1..n : d[i] = Decode(s[i])
  BY DecodedIs, LenProperties
<1> HIDE DEF d
<1>2. PICK g : InputHeads(g, s) /\ Concat(s) = g[n]
  BY ConcatIs
<1>3. PICK h : InputHeads(h, d) /\ Concat(d) = h[n]
  BY <1>1, ConcatIs
<1> DEFINE CleanTo(i) == \A k \in 1..i : Clean(s[k])
           Good == {i \in 0..n : Decode(g[i]) = h[i] /\ (CleanTo(i) => Clean(g[i]))}
<1>4. 0 \in Good
  <2>1. g[0] = <<>> /\ h[0] = <<>> /\ 0 \in 0..n
    BY <1>1, <1>2, <1>3 DEF InputHeads
  <2> QED BY <2>1, CleanEmpty
<1>5. ASSUME NEW i \in 0..n, i \in Good, i < n PROVE i + 1 \in Good
  <2>1. i + 1 \in 1..n /\ (i + 1) - 1 = i /\ i + 1 \in 0..n
    BY <1>1, <1>5
  <2>2. g[i + 1] = g[i] \o s[i + 1] /\ g[i] \in Bytes /\ h[i + 1] = h[i] \o d[i + 1]
    BY <1>1, <1>2, <1>3, <1>5, <2>1 DEF InputHeads
  <2>3. s[i + 1] \in Bytes
    <3> HIDE DEF Bytes
    <3> QED BY <2>1, ElementOfSeq
  <2>4. CleanTo(i)
    <3>1. \A k \in 1..i : k \in 1..n-1
      BY <1>1, <1>5
    <3> QED BY <3>1
  <2>5. Clean(g[i]) /\ Decode(g[i]) = h[i]
    BY <1>5, <2>4
  <2>6. PICK x, y : x = g[i] /\ y = s[i + 1]
    OBVIOUS
  <2>7. Decode(x \o y) = Decode(x) \o Decode(y) /\ (Clean(y) => Clean(x \o y))
    BY <2>2, <2>3, <2>5, <2>6, DecodeConcat
  <2>8. Decode(g[i + 1]) = h[i + 1]
    BY <1>1, <2>1, <2>2, <2>5, <2>6, <2>7
  <2>9. ASSUME CleanTo(i + 1) PROVE Clean(g[i + 1])
    <3>1. i + 1 \in 1..i+1
      BY <2>1
    <3>2. Clean(s[i + 1])
      BY <2>9, <3>1
    <3> QED BY <2>2, <2>6, <2>7, <3>2
  <2> QED BY <2>1, <2>8, <2>9
<1> HIDE DEF Good
<1>6. \A i \in 0..n : i \in Good
  BY <1>1, <1>4, <1>5, UpTo
<1>7. n \in Good
  BY <1>1, <1>6
<1>8. ASSUME n = 0 \/ Clean(s[n]) PROVE CleanTo(n)
  <2> TAKE k \in 1..n
  <2>1. k \in 1..n-1 \/ k = n
    BY <1>1
  <2> QED BY <1>1, <1>8, <2>1
<1>9. Decode(g[n]) = h[n] /\ (CleanTo(n) => Clean(g[n]))
  BY <1>7 DEF Good
<1> QED BY <1>2, <1>3, <1>8, <1>9 DEF d

-----------------------------------------------------------------------------
(* The TextWriter: pages that end with the end of a line.                  *)

(* The last byte of a page that is not NUL is a CR.                        *)
LineEnded(page) ==
  LET I == {i \in DOMAIN page : page[i] # Nul}
  IN  I # {} => page[Max(I)] = Return

LEMMA LineEndedIs ==
  ASSUME NEW x \in Bytes
  PROVE  LineEnded(x) <=> \/ \A i \in 1..Len(x) : x[i] = Nul
                          \/ \E k \in 1..Len(x) : /\ x[k] = Return
                                                  /\ \A i \in k+1..Len(x) : x[i] = Nul
<1> DEFINE I == {i \in DOMAIN x : x[i] # Nul}
<1>1. Len(x) \in Nat /\ DOMAIN x = 1..Len(x)
  BY LenProperties DEF Bytes
<1>2. I \subseteq 0..Len(x) /\ I \subseteq 1..Len(x)
      /\ \A i \in 1..Len(x) : i \in I <=> x[i] # Nul
  BY <1>1
<1>3. LineEnded(x) <=> (I # {} => x[Max(I)] = Return)
  BY DEF LineEnded
<1> HIDE DEF I
<1>4. CASE I = {}
  <2>1. \A i \in 1..Len(x) : x[i] = Nul
    BY <1>2, <1>4
  <2> QED BY <1>3, <1>4, <2>1
<1>5. CASE I # {}
  <2>1. Max(I) \in I /\ \A y \in I : Max(I) >= y
    BY <1>1, <1>2, <1>5, MaxIs
  <2>2. PICK m : m = Max(I)
    OBVIOUS
  <2>3. m \in 1..Len(x) /\ x[m] # Nul /\ \A y \in I : m >= y
    BY <1>2, <2>1, <2>2
  <2>4. \A i \in m+1..Len(x) : x[i] = Nul
    <3> TAKE i \in m+1..Len(x)
    <3>1. i \in 1..Len(x) /\ ~(m >= i)
      BY <1>1, <2>3
    <3> QED BY <1>2, <2>3, <3>1
  <2>5. ASSUME NEW k \in 1..Len(x), x[k] = Return, \A i \in k+1..Len(x) : x[i] = Nul
        PROVE  m = k
    <3>1. x[k] # Nul
      BY <2>5 DEF Return, Nul
    <3>2. m >= k
      BY <1>2, <2>3, <3>1
    <3>3. ~(m \in k+1..Len(x))
      BY <2>3, <2>5
    <3> QED BY <1>1, <2>3, <3>2, <3>3
  <2>6. LineEnded(x) <=> x[m] = Return
    BY <1>3, <1>5, <2>2
  <2> QED BY <2>3, <2>4, <2>5, <2>6
<1> QED BY <1>4, <1>5

GoodPage(page) == page \in Bytes /\ Clean(page) /\ LineEnded(page)

GoodWriter(w) ==
  /\ w = [pages |-> w.pages, current |-> w.current]
  /\ w.pages \in Seq(Bytes) /\ Len(w.pages) >= 1 /\ w.pages[1] = Zeros(PageSize)
  /\ \A i \in 1..Len(w.pages) : GoodPage(w.pages[i]) /\ Len(w.pages[i]) = PageSize
  /\ GoodPage(w.current) /\ Len(w.current) <= PageSize

(* All that is written.                                                    *)
RawText(w) == Concat(w.pages) \o w.current

LEMMA PageSizeIs == BlockSize \in Nat \ {0} /\ PageSize \in Nat \ {0} /\ PageSize = BlockSize + BlockSize
BY FileEntryAssumption DEF PageSize

LEMMA ZerosIs ==
  ASSUME NEW n \in Nat
  PROVE  /\ Zeros(n) \in Bytes /\ Len(Zeros(n)) = n /\ \A i \in 1..n : Zeros(n)[i] = Nul
         /\ GoodPage(Zeros(n)) /\ Decode(Zeros(n)) = <<>>
<1>1. Zeros(n) \in [1..n -> Nat] /\ \A i \in 1..n : Zeros(n)[i] = Nul
  BY DEF Zeros, Nul
<1>2. Zeros(n) \in Bytes /\ Len(Zeros(n)) = n
  BY <1>1, FunctionSeq DEF Bytes
<1> QED BY <1>1, <1>2, DecodeNuls, LineEndedIs DEF GoodPage

LEMMA EmptyPage == GoodPage(<<>>) /\ Decode(<<>>) = <<>> /\ Len(<<>>) = 0
<1>1. <<>> \in Bytes /\ Len(<<>>) = 0
  BY EmptySeq DEF Bytes
<1>2. LineEnded(<<>>)
  BY <1>1, LineEndedIs
<1> QED BY <1>1, <1>2, CleanEmpty DEF GoodPage

(* A page and the NULs after it, a page and a line after it.               *)
LEMMA PageGrows ==
  ASSUME NEW x \in Bytes, NEW y \in Bytes, GoodPage(x), Clean(y),
         \/ \A i \in 1..Len(y) : y[i] = Nul
         \/ Len(y) >= 1 /\ y[Len(y)] = Return
  PROVE  GoodPage(x \o y) /\ Decode(x \o y) = Decode(x) \o Decode(y)
<1> DEFINE z == x \o y
           m == Len(x)
           n == Len(y)
<1>1. /\ z \in Bytes /\ m \in Nat /\ n \in Nat /\ Len(z) = m + n
      /\ \A i \in 1..m : z[i] = x[i]
      /\ \A i \in 1..n : z[m + i] = y[i]
  BY Joined
<1>2. Clean(z) /\ Decode(z) = Decode(x) \o Decode(y)
  BY DecodeConcat DEF GoodPage
<1> HIDE DEF z
<1>3. LineEnded(z)
  <2>1. CASE Len(y) >= 1 /\ y[Len(y)] = Return
    <3>1. m + n \in 1..Len(z) /\ z[m + n] = Return /\ \A i \in (m+n)+1..Len(z) : z[i] = Nul
      BY <1>1, <2>1
    <3> QED BY <1>1, <3>1, LineEndedIs
  <2>2. CASE \A i \in 1..Len(y) : y[i] = Nul
    <3>1. ASSUME NEW i \in m+1..m+n PROVE z[i] = Nul
      <4> DEFINE j == i - m
      <4>1. j \in 1..n /\ m + j = i
        BY <1>1
      <4> HIDE DEF j
      <4> QED BY <1>1, <2>2, <4>1
    <3>2. CASE \A i \in 1..Len(x) : x[i] = Nul
      <4>1. ASSUME NEW i \in 1..Len(z) PROVE z[i] = Nul
        <5>1. i \in 1..m \/ i \in m+1..m+n
          BY <1>1
        <5> QED BY <1>1, <3>1, <3>2, <5>1
      <4> QED BY <1>1, <4>1, LineEndedIs
    <3>3. CASE ~ \A i \in 1..Len(x) : x[i] = Nul
      <4>1. PICK k \in 1..Len(x) : x[k] = Return /\ \A i \in k+1..Len(x) : x[i] = Nul
        BY <3>3, LineEndedIs DEF GoodPage
      <4>2. k \in 1..Len(z) /\ z[k] = Return
        BY <1>1, <4>1
      <4>3. ASSUME NEW i \in k+1..Len(z) PROVE z[i] = Nul
        <5>1. i \in k+1..m \/ i \in m+1..m+n
          BY <1>1, <4>1
        <5>2. ASSUME i \in k+1..m PROVE z[i] = Nul
          <6>1. i \in 1..m
            BY <1>1, <5>2
          <6> QED BY <1>1, <4>1, <5>2, <6>1
        <5> QED BY <3>1, <5>1, <5>2
      <4> QED BY <1>1, <4>2, <4>3, LineEndedIs
    <3> QED BY <3>2, <3>3
  <2> QED BY <2>1, <2>2
<1> QED BY <1>1, <1>2, <1>3 DEF GoodPage, z

LEMMA PaddedIs ==
  ASSUME NEW x, GoodPage(x), Len(x) <= PageSize
  PROVE  /\ GoodPage(Padded(x)) /\ Len(Padded(x)) = PageSize
         /\ Padded(x) = x \o Zeros(PageSize - Len(x)) /\ Decode(Padded(x)) = Decode(x)
<1>1. x \in Bytes /\ Len(x) \in Nat
  BY LenProperties DEF GoodPage, Bytes
<1>2. PageSize - Len(x) \in Nat
  BY <1>1, PageSizeIs
<1> DEFINE z == Zeros(PageSize - Len(x))
<1>3. /\ z \in Bytes /\ Len(z) = PageSize - Len(x) /\ Clean(z) /\ Decode(z) = <<>>
      /\ \A i \in 1..Len(z) : z[i] = Nul
  BY <1>2, ZerosIs DEF GoodPage
<1>4. Padded(x) = x \o z
  BY DEF Padded
<1> HIDE DEF z
<1>5. GoodPage(x \o z) /\ Decode(x \o z) = Decode(x) \o Decode(z)
  BY <1>1, <1>3, PageGrows
<1>6. Len(x \o z) = PageSize
  BY <1>1, <1>3, Joined, PageSizeIs
<1>7. Decode(x) \o <<>> = Decode(x)
  <2>1. Decode(x) \in Seq(Nat)
    BY <1>1, DecodeBytes DEF Bytes
  <2> QED BY <2>1, ConcatEmptySeq
<1> QED BY <1>3, <1>4, <1>5, <1>6, <1>7 DEF z

LEMMA NewWriterIs ==
  /\ GoodWriter(NewWriter) /\ Decode(RawText(NewWriter)) = <<>>
<1> DEFINE z == Zeros(PageSize)
           s == <<z>>
<1>1. z \in Bytes /\ GoodPage(z) /\ Len(z) = PageSize /\ Decode(z) = <<>>
  BY PageSizeIs, ZerosIs
<1> HIDE DEF z
<1>2. s \in Seq(Bytes) /\ Len(s) = 1 /\ s[1] = z
  <2> HIDE DEF Bytes
  <2> QED BY <1>1
<1>3. NewWriter = [pages |-> s, current |-> <<>>]
  BY DEF NewWriter, z
<1> HIDE DEF s
<1>4. GoodWriter(NewWriter)
  <2>1. NewWriter.pages = s /\ NewWriter.current = <<>>
    BY <1>3
  <2>2. \A i \in 1..Len(s) : GoodPage(s[i]) /\ Len(s[i]) = PageSize
    BY <1>1, <1>2
  <2>3. Len(<<>>) <= PageSize
    BY EmptyPage, PageSizeIs
  <2>4. PICK w : w = NewWriter
    OBVIOUS
  <2>5. w.pages = s /\ w.current = <<>>
    BY <2>1, <2>4
  <2>6. w = [pages |-> w.pages, current |-> w.current]
    BY <1>3, <2>4, <2>5, Zenon
  <2>7. w.pages[1] = Zeros(PageSize) /\ w.pages \in Seq(Bytes) /\ Len(w.pages) >= 1
    <3>1. w.pages[1] = z /\ Len(w.pages) = 1 /\ w.pages \in Seq(Bytes)
      <4> HIDE DEF Bytes
      <4> QED BY <1>2, <2>5
    <3> QED BY <3>1 DEF z
  <2>8. \A i \in 1..Len(w.pages) : GoodPage(w.pages[i]) /\ Len(w.pages[i]) = PageSize
    BY <2>2, <2>5
  <2>9. GoodPage(w.current) /\ Len(w.current) <= PageSize
    BY <2>3, <2>5, EmptyPage
  <2>10. GoodWriter(w)
    BY <2>6, <2>7, <2>8, <2>9 DEF GoodWriter
  <2> QED BY <2>4, <2>10
<1>5. Decode(RawText(NewWriter)) = <<>>
  <2>1. PICK g : InputHeads(g, s) /\ Concat(s) = g[1]
    BY <1>2, ConcatIs
  <2>2. g[1] = g[0] \o s[1] /\ g[0] = <<>>
    <3>1. 1 \in 1..Len(s) /\ 1 - 1 = 0
      BY <1>2
    <3>2. g[1] = g[1 - 1] \o s[1]
      BY <2>1, <3>1 DEF InputHeads
    <3> QED BY <2>1, <3>1, <3>2 DEF InputHeads
  <2>3. <<>> \o z = z /\ z \o <<>> = z
    BY <1>1, ConcatEmptySeq DEF Bytes
  <2>4. RawText(NewWriter) = z
    BY <1>2, <1>3, <2>1, <2>2, <2>3 DEF RawText
  <2> QED BY <1>1, <2>4
<1> QED BY <1>4, <1>5

LEMMA RawTextIs ==
  ASSUME NEW w, GoodWriter(w)
  PROVE  Concat(w.pages) \in Bytes /\ Clean(Concat(w.pages)) /\ RawText(w) \in Bytes /\ Clean(RawText(w))
<1>1. w.pages \in Seq(Bytes) /\ w.current \in Bytes /\ Clean(w.current)
  BY DEF GoodWriter, GoodPage
<1>2. \A i \in 1..Len(w.pages) : Clean(w.pages[i])
  BY DEF GoodWriter, GoodPage
<1>3. Len(w.pages) \in 1..Len(w.pages) /\ \A i \in 1..Len(w.pages)-1 : i \in 1..Len(w.pages)
  BY <1>1, LenProperties DEF GoodWriter
<1>4. Clean(Concat(w.pages)) /\ Concat(w.pages) \in Bytes
  BY <1>1, <1>2, <1>3, DecodePages, ConcatBytes
<1> QED BY <1>1, <1>4, DecodeConcat, Joined DEF RawText

(* writeLine() adds what the line decodes to.                              *)
LEMMA LineWrittenIs ==
  ASSUME NEW w, GoodWriter(w), NEW c, NEW out, LineOf(c, out), Len(c) <= PageSize
  PROVE  /\ GoodWriter(LineWritten(w, c)) /\ LineWritten(w, c).current # <<>>
         /\ Decode(RawText(LineWritten(w, c))) = Decode(RawText(w)) \o out
<1> DEFINE p == w.pages
           x == w.current
           v == LineWritten(w, c)
           n == Len(p)
<1>1. /\ w = [pages |-> p, current |-> x] /\ p \in Seq(Bytes) /\ n \in Nat /\ n >= 1
      /\ p[1] = Zeros(PageSize) /\ \A i \in 1..n : GoodPage(p[i]) /\ Len(p[i]) = PageSize
      /\ GoodPage(x) /\ x \in Bytes /\ Len(x) \in Nat /\ Len(x) <= PageSize
  BY LenProperties DEF GoodWriter, GoodPage, Bytes
<1>2. /\ c \in Bytes /\ Len(c) \in Nat /\ Len(c) >= 1 /\ c[Len(c)] = Return
      /\ Clean(c) /\ Decode(c) = out
  BY LenProperties DEF LineOf, Bytes
<1>3. GoodPage(c)
  <2>1. Len(c) \in 1..Len(c) /\ \A i \in Len(c)+1..Len(c) : c[i] = Nul
    BY <1>2
  <2>2. LineEnded(c)
    BY <1>2, <2>1, LineEndedIs
  <2> QED BY <1>2, <2>2 DEF GoodPage
<1>4. /\ Concat(p) \in Bytes /\ RawText(w) = Concat(p) \o x /\ Clean(RawText(w)) /\ RawText(w) \in Bytes
  BY RawTextIs DEF RawText
<1>5. CASE Len(x) + Len(c) > PageSize
  <2> DEFINE q == Padded(x)
             s == Append(p, q)
             z == Zeros(PageSize - Len(x))
  <2>1. v = [pages |-> s, current |-> c]
    BY <1>5 DEF LineWritten
  <2>2. GoodPage(q) /\ Len(q) = PageSize /\ q = x \o z /\ q \in Bytes
    BY <1>1, PaddedIs DEF GoodPage
  <2>3. PageSize - Len(x) \in Nat
    BY <1>1, PageSizeIs
  <2>4. z \in Bytes /\ Clean(z) /\ Decode(z) = <<>>
    BY <2>3, ZerosIs DEF GoodPage
  <2> HIDE DEF q, z, v
  <2>5. s \in Seq(Bytes) /\ Len(s) = n + 1 /\ s[n + 1] = q /\ \A i \in 1..n : s[i] = p[i]
    <3> HIDE DEF Bytes
    <3> QED BY <1>1, <2>2, AppendProperties
  <2>6. Concat(s) = Concat(p) \o q
    BY <1>1, <2>2, ConcatAppend
  <2> HIDE DEF s
  <2>7. GoodWriter(v)
    <3>1. v.pages = s /\ v.current = c
      BY <2>1
    <3>2. \A i \in 1..Len(s) : GoodPage(s[i]) /\ Len(s[i]) = PageSize
      <4> TAKE i \in 1..Len(s)
      <4>1. i \in 1..n \/ i = n + 1
        BY <1>1, <2>5
      <4>2. CASE i \in 1..n
        <5>1. s[i] = p[i]
          BY <2>5, <4>2
        <5> QED BY <1>1, <4>2, <5>1
      <4>3. CASE i = n + 1
        BY <2>2, <2>5, <4>3
      <4> QED BY <4>1, <4>2, <4>3
    <3>3. Len(s) >= 1 /\ s[1] = Zeros(PageSize)
      <4>1. 1 \in 1..n
        BY <1>1
      <4> QED BY <1>1, <2>5, <4>1
    <3> QED BY <1>3, <2>1, <2>5, <3>1, <3>2, <3>3 DEF GoodWriter
  <2>8. Decode(RawText(v)) = Decode(RawText(w)) \o out
    <3>1. RawText(v) = (Concat(p) \o q) \o c
      BY <2>1, <2>6 DEF RawText
    <3>2. Concat(p) \o q = RawText(w) \o z
      <4>1. Concat(p) \in Seq(Nat) /\ x \in Seq(Nat) /\ z \in Seq(Nat)
        BY <1>1, <1>4, <2>4 DEF Bytes
      <4>2. (Concat(p) \o x) \o z = Concat(p) \o (x \o z)
        BY <4>1, Associates, Zenon
      <4> QED BY <1>4, <2>2, <4>2
    <3>3. /\ Decode(RawText(w) \o z) = Decode(RawText(w)) \o Decode(z)
          /\ Clean(RawText(w) \o z) /\ RawText(w) \o z \in Bytes
      BY <1>4, <2>4, DecodeConcat, Joined
    <3> DEFINE r == RawText(w) \o z
    <3> HIDE DEF r
    <3>4. Decode(r \o c) = Decode(r) \o Decode(c)
      BY <1>2, <3>3, DecodeConcat DEF r
    <3>5. Decode(RawText(w)) \o <<>> = Decode(RawText(w))
      <4>1. Decode(RawText(w)) \in Seq(Nat)
        BY <1>4, DecodeBytes DEF Bytes
      <4> QED BY <4>1, ConcatEmptySeq
    <3>6. Decode(r) = Decode(RawText(w))
      BY <2>4, <3>3, <3>5 DEF r
    <3>7. RawText(v) = r \o c
      BY <3>1, <3>2 DEF r
    <3> QED BY <1>2, <3>4, <3>6, <3>7
  <2>9. v.current # <<>>
    <3>1. c # <<>>
      BY <1>2, EmptyPage
    <3> QED BY <2>1, <3>1
  <2> QED BY <2>7, <2>8, <2>9 DEF v
<1>6. CASE ~(Len(x) + Len(c) > PageSize)
  <2> DEFINE y == x \o c
  <2>1. v = [pages |-> p, current |-> y]
    BY <1>1, <1>6 DEF LineWritten
  <2>2. GoodPage(y)
    BY <1>1, <1>2, PageGrows
  <2>3. Len(y) = Len(x) + Len(c) /\ y \in Bytes
    BY <1>1, <1>2, Joined
  <2>4. Len(y) <= PageSize /\ Len(y) # 0
    BY <1>1, <1>2, <1>6, <2>3, PageSizeIs
  <2> HIDE DEF y, v
  <2>5. v.pages = p /\ v.current = y
    BY <2>1
  <2>6. GoodWriter(v)
    BY <1>1, <2>1, <2>2, <2>4, <2>5 DEF GoodWriter
  <2>7. y # <<>>
    BY <2>4, EmptyPage
  <2>8. RawText(v) = RawText(w) \o c
    <3>1. Concat(p) \in Seq(Nat) /\ x \in Seq(Nat) /\ c \in Seq(Nat)
      BY <1>1, <1>2, <1>4 DEF Bytes
    <3>2. (Concat(p) \o x) \o c = Concat(p) \o (x \o c)
      BY <3>1, Associates, Zenon
    <3> QED BY <1>4, <2>5, <3>2 DEF RawText, y
  <2>9. Decode(RawText(w) \o c) = Decode(RawText(w)) \o Decode(c)
    BY <1>2, <1>4, DecodeConcat
  <2> QED BY <1>2, <2>5, <2>6, <2>7, <2>8, <2>9 DEF v
<1> QED BY <1>5, <1>6

-----------------------------------------------------------------------------
(* Reading a text through the sizes of its pages.                          *)

LEMMA DropSecond ==
  ASSUME NEW x \in Bytes, NEW y \in Bytes, NEW o \in 0..Len(y)
  PROVE  Drop(x \o y, Len(x) + o) = Drop(y, o)
<1> DEFINE m == Len(x)
           n == Len(y)
           z == x \o y
           d == Drop(z, m + o)
           e == Drop(y, o)
<1>1. /\ z \in Bytes /\ m \in Nat /\ n \in Nat /\ Len(z) = m + n
      /\ \A i \in 1..n : z[m + i] = y[i]
  BY Joined
<1>2. e \in Bytes /\ Len(e) = n - o /\ \A i \in 1..n-o : e[i] = y[o + i]
  BY DropIs
<1> HIDE DEF z, e
<1>3. m + o \in 0..Len(z)
  BY <1>1
<1>4. /\ d \in Bytes /\ Len(d) = Len(z) - (m + o)
      /\ \A i \in 1..Len(z)-(m+o) : d[i] = z[(m + o) + i]
  BY <1>1, <1>3, DropIs
<1> HIDE DEF d, m, n
<1>5. Len(z) - (m + o) = n - o /\ \A i \in 1..n-o : (m + o) + i = m + (o + i) /\ o + i \in 1..n
  BY <1>1 DEF n
<1>6. \A i \in 1..n-o : d[i] = e[i]
  BY <1>1, <1>2, <1>4, <1>5
<1>7. d = e
  BY <1>2, <1>4, <1>5, <1>6, EqualSeqs DEF Bytes
<1> QED BY <1>7 DEF d, e, z, m

LEMMA DropAll ==
  ASSUME NEW x \in Bytes, NEW y \in Bytes
  PROVE  Drop(x \o y, Len(x)) = y
<1>1. Len(x) \in Nat /\ 0 \in 0..Len(y) /\ Len(x) + 0 = Len(x)
  BY Joined
<1>2. Drop(x \o y, Len(x) + 0) = Drop(y, 0)
  BY <1>1, DropSecond
<1>3. Drop(y, 0) = y
  <2>1. Drop(y, 0) = SubSeq(y, 1, Len(y))
    BY DEF Drop
  <2>2. y \in Seq(Nat)
    BY DEF Bytes
  <2> QED BY <2>1, <2>2, SubSeqFull
<1> QED BY <1>1, <1>2, <1>3

(* Where the pages end.                                                    *)
LEMMA PageEndIs ==
  ASSUME NEW f, f.pages \in Seq(Nat)
  PROVE  /\ PageEnd(f) \in [0..Len(f.pages) -> Nat] /\ PageEnd(f)[0] = 0
         /\ \A p \in 1..Len(f.pages) : PageEnd(f)[p] = PageEnd(f)[p - 1] + f.pages[p]
<1> DEFINE m == Len(f.pages)
           step == [r \in (1..m) \X Nat |-> r[2] + f.pages[r[1]]]
           Turn(h) == [p \in 0..m |-> IF p = 0 THEN 0 ELSE h[p - 1] + f.pages[p]]
           g == CHOOSE h : h = Turn(h)
<1>1. m \in Nat /\ \A p \in 1..m : f.pages[p] \in Nat
  BY LenProperties, ElementOfSeq
<1>2. step \in [(1..m) \X Nat -> Nat]
  BY <1>1
<1>3. \A i \in 1..m, x \in Nat : step[<<i, x>>] = x + f.pages[i]
  BY <1>1
<1> HIDE DEF step
<1>4. PICK h : Recurs(h, Nat, 0, m, step)
  BY <1>1, <1>2, Recursion
<1>5. h = Turn(h)
  <2>1. h = [p \in 0..m |-> h[p]]
    BY <1>4 DEF Recurs
  <2>2. h \in [0..m -> Nat] /\ h[0] = 0 /\ \A p \in 1..m : h[p] = step[<<p, h[p - 1]>>]
    BY <1>4 DEF Recurs
  <2> HIDE DEF m
  <2>3. ASSUME NEW p \in 0..m, p # 0 PROVE h[p] = h[p - 1] + f.pages[p]
    <3>1. p \in 1..m /\ p - 1 \in 0..m
      BY <1>1, <2>3
    <3>2. h[p - 1] \in Nat
      BY <2>2, <3>1
    <3>3. step[<<p, h[p - 1]>>] = h[p - 1] + f.pages[p]
      BY <1>3, <3>1, <3>2
    <3> QED BY <2>2, <3>1, <3>3
  <2>4. \A p \in 0..m : h[p] = IF p = 0 THEN 0 ELSE h[p - 1] + f.pages[p]
    BY <2>2, <2>3
  <2> QED BY <2>1, <2>4
<1>6. g = Turn(g)
  <2>1. \E k : k = Turn(k)
    BY <1>5
  <2> HIDE DEF Turn
  <2> QED BY <2>1, Zenon
<1>7. PageEnd(f) = g
  BY Zenon DEF PageEnd
<1> HIDE DEF g
<1>8. g = [p \in 0..m |-> g[p]] /\ g[0] = 0 /\ \A p \in 1..m : g[p] = g[p - 1] + f.pages[p]
  <2> HIDE DEF m
  <2>1. g = [p \in 0..m |-> g[p]]
    BY <1>6
  <2>2. \A p \in 0..m : g[p] = IF p = 0 THEN 0 ELSE g[p - 1] + f.pages[p]
    BY <1>6
  <2>3. 0 \in 0..m /\ \A p \in 1..m : p \in 0..m /\ p # 0
    BY <1>1
  <2> QED BY <2>1, <2>2, <2>3
<1>9. \A p \in 1..m : g[p - 1] \in Nat => g[p] = step[<<p, g[p - 1]>>]
  BY <1>3, <1>8
<1>10. Recurs(g, Nat, 0, m, step)
  BY <1>1, <1>2, <1>8, <1>9, Recursive
<1> QED BY <1>7, <1>8, <1>10 DEF Recurs

(* The entry's pages are as long as the sequences of d, which the pages    *)
(* decode to.                                                              *)
Indexes(blocks, f, d) ==
  /\ f.pages \in Seq(Nat) /\ d \in Seq(Bytes) /\ Len(f.pages) = Len(d)
  /\ \A p \in 1..Len(d) : /\ f.pages[p] = Len(d[p])
                          /\ TextDecodePage(blocks, f, f.first + 2 * p) = d[p]

LEMMA PageEndLen ==
  ASSUME NEW blocks, NEW f, NEW d, Indexes(blocks, f, d), NEW g, InputHeads(g, d)
  PROVE  \A p \in 0..Len(d) : PageEnd(f)[p] = Len(g[p])
<1> DEFINE e == PageEnd(f)
           n == Len(d)
           Good == {p \in 0..n : e[p] = Len(g[p])}
<1>1. /\ f.pages \in Seq(Nat) /\ d \in Seq(Bytes) /\ Len(f.pages) = n /\ n \in Nat
      /\ \A p \in 1..n : f.pages[p] = Len(d[p])
  BY LenProperties DEF Indexes
<1>2. e[0] = 0 /\ \A p \in 1..n : e[p] = e[p - 1] + f.pages[p]
  BY <1>1, PageEndIs
<1> HIDE DEF e
<1>3. 0 \in Good
  BY <1>1, <1>2, EmptyPage DEF InputHeads
<1>4. ASSUME NEW p \in 0..n, p \in Good, p < n PROVE p + 1 \in Good
  <2>1. p + 1 \in 1..n /\ (p + 1) - 1 = p /\ p + 1 \in 0..n
    BY <1>1, <1>4
  <2>2. g[p + 1] = g[p] \o d[p + 1] /\ g[p] \in Bytes
    BY <1>4, <2>1 DEF InputHeads
  <2>3. d[p + 1] \in Bytes
    <3> HIDE DEF Bytes
    <3> QED BY <1>1, <2>1, ElementOfSeq
  <2>4. Len(g[p + 1]) = Len(g[p]) + Len(d[p + 1])
    BY <2>2, <2>3, Joined
  <2>5. e[p + 1] = e[p] + Len(d[p + 1]) /\ e[p] = Len(g[p])
    BY <1>1, <1>2, <1>4, <2>1
  <2> QED BY <2>1, <2>4, <2>5
<1> HIDE DEF Good
<1>5. \A p \in 0..n : p \in Good
  BY <1>1, <1>3, <1>4, UpTo
<1> QED BY <1>5 DEF Good, e

LEMMA TextReadIs ==
  ASSUME NEW blocks, NEW f, NEW d, Indexes(blocks, f, d),
         NEW offset \in 0..Len(Concat(d))-1, NEW size \in 0..Len(Concat(d))-offset
  PROVE  TextRead(blocks, f, size, offset) = SubSeq(Concat(d), offset + 1, offset + size)
<1> DEFINE n == Len(d)
           all == Concat(d)
           end == PageEnd(f)
           S == {p \in DOMAIN f.pages : end[p] > offset}
           page == Min(S)
           skipped == offset - end[page - 1]
           s == PagesFrom(blocks, f, offset)
<1>1. /\ f.pages \in Seq(Nat) /\ d \in Seq(Bytes) /\ Len(f.pages) = n /\ n \in Nat
      /\ DOMAIN f.pages = 1..n
      /\ \A p \in 1..n : f.pages[p] = Len(d[p]) /\ TextDecodePage(blocks, f, f.first + 2 * p) = d[p]
  BY LenProperties DEF Indexes
<1>2. PICK g : InputHeads(g, d) /\ all = g[n]
  BY <1>1, ConcatIs
<1>3. \A p \in 0..n : end[p] = Len(g[p]) /\ g[p] \in Bytes /\ Len(g[p]) \in Nat
  <2>1. \A p \in 0..n : end[p] = Len(g[p])
    BY <1>2, PageEndLen
  <2> HIDE DEF end
  <2>2. ASSUME NEW p \in 0..n PROVE g[p] \in Bytes /\ Len(g[p]) \in Nat
    BY <1>2, LenProperties DEF InputHeads, Bytes
  <2> QED BY <2>1, <2>2
<1>4. s = [i \in 1..n-page+1 |->
             SubSeq(TextDecodePage(blocks, f, f.first + 2 * (page + i - 1)),
                    IF i = 1 THEN skipped + 1 ELSE 1, f.pages[page + i - 1])]
  BY <1>1 DEF PagesFrom
<1>5. TextRead(blocks, f, size, offset) = SubSeq(Concat(s), 1, size)
  BY DEF TextRead
<1> HIDE DEF s, end, all
<1>6. all \in Bytes /\ Len(all) \in Nat /\ offset \in Nat /\ offset < Len(all)
  <2>1. n \in 0..n
    BY <1>1
  <2>2. all \in Bytes /\ Len(all) \in Nat
    BY <1>2, <1>3, <2>1
  <2> QED BY <2>2 DEF all
<1>7. n \in S
  <2>1. n # 0
    <3>1. g[0] = <<>> /\ Len(<<>>) = 0
      BY <1>2, EmptyPage DEF InputHeads
    <3> QED BY <1>2, <1>6, <3>1
  <2>2. n \in 1..n /\ n \in 0..n
    BY <1>1, <2>1
  <2> QED BY <1>1, <1>2, <1>3, <1>6, <2>2
<1>8. /\ page \in 1..n /\ end[page] > offset
      /\ \A p \in 1..n : end[p] > offset => page <= p
  <2>1. S \subseteq Nat /\ S \subseteq 1..n
    BY <1>1
  <2>2. page \in S /\ \A p \in S : page <= p
    <3> HIDE DEF S
    <3> QED BY <1>7, <2>1, MinIs
  <2> QED BY <1>1, <2>2
<1> HIDE DEF S, page
<1>9. page - 1 \in 0..n /\ end[page - 1] <= offset
  <2>1. CASE page = 1
    <3>1. end[0] = 0
      BY <1>1, PageEndIs DEF end
    <3> QED BY <1>1, <1>6, <2>1, <3>1
  <2>2. CASE page # 1
    <3>1. page - 1 \in 1..n /\ page - 1 \in 0..n /\ ~(page <= page - 1)
      BY <1>1, <1>8, <2>2
    <3>2. ~(end[page - 1] > offset) /\ end[page - 1] \in Nat
      BY <1>3, <1>8, <3>1
    <3> QED BY <1>6, <3>1, <3>2
  <2> QED BY <2>1, <2>2
<1>10. \A p \in 1..n : d[p] \in Bytes /\ Len(d[p]) \in Nat
  <2> TAKE p \in 1..n
  <2>1. d[p] \in Bytes
    <3> HIDE DEF Bytes
    <3> QED BY <1>1, ElementOfSeq
  <2> QED BY <2>1, LenProperties DEF Bytes
<1>11. /\ g[page] = g[page - 1] \o d[page]
       /\ end[page] = end[page - 1] + Len(d[page])
       /\ \A p \in page+1..n : g[p] = g[p - 1] \o d[p]
  <2>1. g[page] = g[page - 1] \o d[page]
    BY <1>2, <1>8 DEF InputHeads
  <2>2. Len(g[page]) = Len(g[page - 1]) + Len(d[page])
    BY <1>3, <1>8, <1>9, <1>10, <2>1, Joined
  <2>3. page \in 0..n
    BY <1>1, <1>8
  <2>4. \A p \in page+1..n : p \in 1..n
    BY <1>8
  <2> QED BY <1>2, <1>3, <1>9, <2>1, <2>2, <2>3, <2>4 DEF InputHeads
<1>12. skipped \in 0..Len(d[page]) /\ Len(g[page - 1]) + skipped = offset
  <2>1. page \in 0..n /\ end[page - 1] = Len(g[page - 1]) /\ end[page - 1] \in Nat
    BY <1>1, <1>3, <1>8, <1>9
  <2>2. Len(d[page]) \in Nat /\ end[page] = end[page - 1] + Len(d[page])
    BY <1>8, <1>10, <1>11
  <2>3. PICK a, l : a = end[page - 1] /\ l = Len(d[page])
    OBVIOUS
  <2>4. a \in Nat /\ l \in Nat /\ a <= offset /\ a + l > offset /\ offset \in Nat
    BY <1>6, <1>8, <1>9, <2>1, <2>2, <2>3
  <2>5. offset - a \in 0..l /\ a + (offset - a) = offset
    BY ONLY <2>4
  <2>6. skipped = offset - a
    BY <2>3
  <2> HIDE DEF skipped
  <2> QED BY <2>1, <2>3, <2>5, <2>6
<1> HIDE DEF skipped
<1> DEFINE m == (n - page) + 1
<1>13. /\ s \in Seq(Bytes) /\ Len(s) = m /\ m \in Nat /\ 1 \in 1..m
       /\ s[1] = Drop(d[page], skipped)
       /\ \A i \in 2..m : s[i] = d[(page + i) - 1]
  <2>1. m \in Nat /\ 1 \in 1..m /\ m = n - page + 1
    BY <1>1, <1>8
  <2>2. ASSUME NEW i \in 1..m
        PROVE  /\ (page + i) - 1 \in 1..n /\ page + i - 1 = (page + i) - 1
               /\ TextDecodePage(blocks, f, f.first + 2 * (page + i - 1)) = d[(page + i) - 1]
               /\ f.pages[page + i - 1] = Len(d[(page + i) - 1])
    <3>1. (page + i) - 1 \in 1..n /\ page + i - 1 = (page + i) - 1
      BY <1>1, <1>8
    <3> QED BY <1>1, <3>1
  <2>3. s[1] = Drop(d[page], skipped)
    <3>1. page + 1 - 1 = page
      BY <1>8
    <3>2. s[1] = SubSeq(TextDecodePage(blocks, f, f.first + 2 * (page + 1 - 1)), skipped + 1,
                        f.pages[page + 1 - 1])
      BY <1>4, <2>1
    <3>3. TextDecodePage(blocks, f, f.first + 2 * page) = d[page] /\ f.pages[page] = Len(d[page])
      BY <1>1, <1>8
    <3> QED BY <3>1, <3>2, <3>3 DEF Drop
  <2>4. ASSUME NEW i \in 2..m PROVE s[i] = d[(page + i) - 1]
    <3>1. i \in 1..m /\ i # 1
      BY <2>1
    <3>2. s[i] = SubSeq(TextDecodePage(blocks, f, f.first + 2 * (page + i - 1)), 1,
                        f.pages[page + i - 1])
      BY <1>4, <2>1, <3>1
    <3>3. d[(page + i) - 1] \in Seq(Nat)
      BY <1>10, <2>2, <3>1 DEF Bytes
    <3>4. SubSeq(d[(page + i) - 1], 1, Len(d[(page + i) - 1])) = d[(page + i) - 1]
      BY <3>3, SubSeqFull
    <3> QED BY <2>2, <3>1, <3>2, <3>4
  <2>5. \A i \in 1..m : s[i] \in Bytes
    <3> TAKE i \in 1..m
    <3>1. CASE i = 1
      BY <1>8, <1>10, <1>12, <2>3, <3>1, DropIs
    <3>2. CASE i # 1
      <4>1. i \in 2..m
        BY <2>1, <3>2
      <4> QED BY <1>10, <2>2, <2>4, <4>1
    <3> QED BY <3>1, <3>2
  <2>6. DOMAIN s = 1..m /\ s = [i \in 1..m |-> s[i]]
    BY <1>4, <2>1
  <2>7. s \in [1..m -> Bytes]
    BY <2>5, <2>6
  <2> HIDE DEF Bytes, m
  <2>8. s \in Seq(Bytes) /\ Len(s) = m
    BY <2>1, <2>7, FunctionSeq
  <2> QED BY <2>1, <2>3, <2>4, <2>8
<1> HIDE DEF m
<1>14. PICK h : InputHeads(h, s) /\ Concat(s) = h[m]
  BY <1>13, ConcatIs
<1> DEFINE Good == {i \in 0..m-1 : h[i + 1] = Drop(g[page + i], offset)}
<1>15. 0 \in Good
  <2>1. h[1] = s[1]
    <3>1. 1 \in 1..Len(s) /\ 1 - 1 = 0
      BY <1>13
    <3>2. h[1] = h[1 - 1] \o s[1] /\ h[0] = <<>>
      BY <1>14, <3>1 DEF InputHeads
    <3>3. s[1] \in Seq(Nat)
      BY <1>8, <1>10, <1>12, <1>13, DropIs DEF Bytes
    <3>4. <<>> \o s[1] = s[1]
      BY <3>3, ConcatEmptySeq
    <3> QED BY <3>1, <3>2, <3>4
  <2>2. Drop(g[page], offset) = Drop(d[page], skipped)
    <3>1. PICK x, y : x = g[page - 1] /\ y = d[page]
      OBVIOUS
    <3>2. Drop(x \o y, Len(x) + skipped) = Drop(y, skipped)
      BY <1>3, <1>8, <1>9, <1>10, <1>12, <3>1, DropSecond
    <3> QED BY <1>11, <1>12, <3>1, <3>2
  <2>3. page + 0 = page /\ 0 + 1 = 1 /\ 0 \in 0..m-1
    BY <1>8, <1>13
  <2> QED BY <1>13, <2>1, <2>2, <2>3
<1>16. ASSUME NEW i \in 0..m-1, i \in Good, i < m - 1 PROVE i + 1 \in Good
  <2>1. /\ i + 1 \in 0..m-1 /\ (i + 1) + 1 \in 2..m /\ (i + 1) + 1 \in 1..m
        /\ ((i + 1) + 1) - 1 = i + 1 /\ (page + ((i + 1) + 1)) - 1 = page + (i + 1)
        /\ page + (i + 1) \in page+1..n /\ (page + (i + 1)) - 1 = page + i
        /\ page + i \in 0..n /\ page \in 0..n /\ page + i \in page..n /\ page + (i + 1) \in 1..n
    <3>1. n \in Nat /\ page \in 1..n /\ i \in 0..m-1 /\ i < m - 1 /\ m = (n - page) + 1
      BY <1>1, <1>8, <1>16 DEF m
    <3>2. /\ i + 1 \in 0..m-1 /\ (i + 1) + 1 \in 2..m /\ (i + 1) + 1 \in 1..m
          /\ ((i + 1) + 1) - 1 = i + 1 /\ (page + ((i + 1) + 1)) - 1 = page + (i + 1)
      BY ONLY <3>1
    <3>3. /\ page + (i + 1) \in page+1..n /\ (page + (i + 1)) - 1 = page + i
          /\ page + i \in 0..n /\ page \in 0..n /\ page + i \in page..n /\ page + (i + 1) \in 1..n
      BY ONLY <3>1
    <3> QED BY <3>2, <3>3
  <2>2. h[(i + 1) + 1] = h[i + 1] \o d[page + (i + 1)]
    <3>1. h[(i + 1) + 1] = h[((i + 1) + 1) - 1] \o s[(i + 1) + 1]
      BY <1>13, <1>14, <2>1 DEF InputHeads
    <3>2. s[(i + 1) + 1] = d[(page + ((i + 1) + 1)) - 1]
      BY <1>13, <2>1
    <3> QED BY <2>1, <3>1, <3>2
  <2>3. h[i + 1] = Drop(g[page + i], offset)
    BY <1>16
  <2>4. g[page + (i + 1)] = g[page + i] \o d[page + (i + 1)]
    BY <1>11, <2>1
  <2>5. offset \in 0..Len(g[page + i])
    <3>1. Len(g[page]) <= Len(g[page + i])
      BY <1>1, <1>2, <2>1, PrefixesBegin
    <3>2. Len(g[page]) > offset
      BY <1>3, <1>8, <2>1
    <3> QED BY <1>3, <1>6, <2>1, <3>1, <3>2, SMTT(30)
  <2>6. PICK x, y : x = g[page + i] /\ y = d[page + (i + 1)]
    OBVIOUS
  <2>7. Drop(x \o y, offset) = Drop(x, offset) \o y
    BY <1>3, <1>10, <2>1, <2>5, <2>6, DropJoined
  <2>8. h[(i + 1) + 1] = Drop(g[page + (i + 1)], offset)
    BY <2>2, <2>3, <2>4, <2>6, <2>7
  <2> QED BY <2>1, <2>8
<1> HIDE DEF Good
<1>17. \A i \in 0..m-1 : i \in Good
  <2>1. m - 1 \in Nat
    BY <1>13
  <2> QED BY <2>1, <1>15, <1>16, UpTo
<1>18. Concat(s) = Drop(all, offset)
  <2>1. m - 1 \in 0..m-1 /\ (m - 1) + 1 = m /\ page + (m - 1) = n
    BY <1>1, <1>8, <1>13 DEF m
  <2>2. h[(m - 1) + 1] = Drop(g[page + (m - 1)], offset)
    BY <1>17, <2>1 DEF Good
  <2> QED BY <1>2, <1>14, <2>1, <2>2
<1>19. offset \in 0..Len(all) /\ size \in 0..Len(all)-offset
  BY <1>6 DEF all
<1>20. SubSeq(Drop(all, offset), 1, size) = SubSeq(all, offset + 1, offset + size)
  BY <1>6, <1>19, SliceDropped
<1> QED BY <1>5, <1>18, <1>20 DEF all

-----------------------------------------------------------------------------
(* The blocks of a text, as pages and as one sequence.                     *)

LEMMA PageCountIs ==
  ASSUME NEW f, f.first \in Nat, NEW k \in Nat,
         f.last = f.first + (2 * k + 1) \/ f.last = f.first + (2 * k + 2)
  PROVE  PageCount(f) = k
<1> DEFINE S == {b \in f.first + 2 .. f.last - 1 : (b - f.first) % 2 = 0}
           s == [p \in 1..k |-> f.first + 2 * p]
<1>1. PageCount(f) = Cardinality(S)
  BY DEF PageCount
<1>2. \A p \in 1..k : f.first + 2 * p \in S
  <2> TAKE p \in 1..k
  <2>1. f.first + 2 * p \in f.first + 2 .. f.last - 1
    OBVIOUS
  <2>2. (f.first + 2 * p) - f.first = 2 * p /\ (2 * p) % 2 = 0
    OBVIOUS
  <2> QED BY <2>1, <2>2
<1>3. \A b \in S : \E p \in 1..k : b = f.first + 2 * p
  <2> TAKE b \in S
  <2> DEFINE p == (b - f.first) \div 2
  <2>1. b - f.first \in 2..2*k+1 /\ b \in Int
    OBVIOUS
  <2>2. b - f.first = 2 * p /\ p \in 1..k
    BY <2>1
  <2>3. b = f.first + 2 * p
    BY <2>1, <2>2
  <2> QED BY <2>2, <2>3
<1> HIDE DEF S
<1>4. s \in Bijection(1..k, S)
  <2>1. s \in [1..k -> S]
    BY <1>2
  <2>2. \A a, b \in 1..k : s[a] = s[b] => a = b
    OBVIOUS
  <2>3. \A b \in S : \E p \in 1..k : s[p] = b
    BY <1>3
  <2> QED BY <2>1, <2>2, <2>3 DEF Bijection, Injection, Surjection, IsInjective
<1>5. ExistsBijection(1..k, S)
  BY <1>4 DEF ExistsBijection
<1> QED BY <1>1, <1>5, FS_CountingElements

LEMMA BlockBytes ==
  ASSUME NEW x \in Block
  PROVE  x \in Bytes /\ Len(x) = BlockSize
BY PageSizeIs, FunctionSeq DEF Block, Bytes

(* The blocks of a file, one after the other.                              *)
Run(blocks, f) == [i \in 1..f.last-f.first |-> blocks[f.first + i - 1]]

LEMMA RunIs ==
  ASSUME NEW blocks, NEW f, f.first \in Nat, NEW n \in Nat, f.last = f.first + n,
         \A i \in 0..n-1 : blocks[f.first + i] \in Block
  PROVE  /\ Run(blocks, f) \in Seq(Bytes) /\ Len(Run(blocks, f)) = n
         /\ \A i \in 0..n-1 : Run(blocks, f)[i + 1] = blocks[f.first + i]
         /\ \A i \in 1..n : Len(Run(blocks, f)[i]) = BlockSize
<1> DEFINE r == Run(blocks, f)
<1>1. r = [i \in 1..n |-> blocks[f.first + i - 1]]
  BY DEF Run
<1> HIDE DEF r
<1>2. \A i \in 0..n-1 : r[i + 1] = blocks[f.first + i]
  <2> TAKE i \in 0..n-1
  <2>1. i + 1 \in 1..n /\ f.first + (i + 1) - 1 = f.first + i
    OBVIOUS
  <2> QED BY <1>1, <2>1
<1>3. ASSUME NEW i \in 1..n PROVE r[i] \in Block
  <2>1. i - 1 \in 0..n-1 /\ (i - 1) + 1 = i
    OBVIOUS
  <2> QED BY <1>2, <2>1
<1>4. r \in [1..n -> Bytes] /\ \A i \in 1..n : Len(r[i]) = BlockSize
  BY <1>1, <1>3, BlockBytes
<1>5. r \in Seq(Bytes) /\ Len(r) = n
  <2> HIDE DEF Bytes
  <2> QED BY <1>4, FunctionSeq
<1> QED BY <1>2, <1>4, <1>5 DEF r

(* The pages of a text as they are read.                                   *)
Raws(blocks, f) == [p \in 1..PageCount(f) |-> TextReadPage(blocks, f, f.first + 2 * p)]

PageOf(w, i) == IF i < Len(w.pages) THEN w.pages[i + 1] ELSE Padded(w.current)

LEMMA WriterDataIs ==
  ASSUME NEW w, GoodWriter(w), NEW i \in Nat
  PROVE  /\ GoodPage(PageOf(w, i)) /\ Len(PageOf(w, i)) = PageSize
         /\ WriterData(w, 2 * i) = SubSeq(PageOf(w, i), 1, BlockSize)
         /\ WriterData(w, 2 * i + 1) = SubSeq(PageOf(w, i), BlockSize + 1, PageSize)
         /\ WriterData(w, 2 * i) \in Block /\ WriterData(w, 2 * i + 1) \in Block
         /\ WriterData(w, 2 * i) \o WriterData(w, 2 * i + 1) = PageOf(w, i)
<1> DEFINE x == PageOf(w, i)
<1>1. GoodPage(x) /\ Len(x) = PageSize
  <2>1. CASE i < Len(w.pages)
    <3>1. i + 1 \in 1..Len(w.pages)
      BY <2>1, LenProperties DEF GoodWriter
    <3> QED BY <2>1, <3>1 DEF PageOf, GoodWriter
  <2>2. CASE ~(i < Len(w.pages))
    BY <2>2, PaddedIs DEF PageOf, GoodWriter
  <2> QED BY <2>1, <2>2
<1>2. WriterData(w, 2 * i) = SubSeq(x, 1, BlockSize)
  <2>1. (2 * i) \div 2 = i /\ ((2 * i) % 2) * BlockSize = 0
    BY PageSizeIs
  <2>2. 0 + 1 = 1 /\ 0 + BlockSize = BlockSize
    BY PageSizeIs
  <2> QED BY <2>1, <2>2 DEF WriterData, PageOf
<1>3. WriterData(w, 2 * i + 1) = SubSeq(x, BlockSize + 1, PageSize)
  <2>1. (2 * i + 1) \div 2 = i /\ (2 * i + 1) % 2 = 1 /\ 1 * BlockSize = BlockSize
    BY PageSizeIs
  <2> QED BY <2>1, PageSizeIs DEF WriterData, PageOf
<1> HIDE DEF x
<1>4. x \in Bytes /\ x \in Seq(Nat)
  BY <1>1 DEF GoodPage, Bytes
<1>5. /\ SubSeq(x, 1, BlockSize) \in Block /\ SubSeq(x, BlockSize + 1, PageSize) \in Block
  <2>1. 1 \in 1..Len(x) + 1 /\ BlockSize \in 1 - 1 .. Len(x)
    BY <1>1, PageSizeIs
  <2>2. SubSeq(x, 1, BlockSize) \in Seq(Nat) /\ Len(SubSeq(x, 1, BlockSize)) = BlockSize - 1 + 1
    BY <1>4, <2>1, SubSeqFacts
  <2>3. BlockSize + 1 \in 1..Len(x) + 1 /\ PageSize \in (BlockSize + 1) - 1 .. Len(x)
    BY <1>1, PageSizeIs
  <2>4. SubSeq(x, BlockSize + 1, PageSize) \in Seq(Nat)
        /\ Len(SubSeq(x, BlockSize + 1, PageSize)) = PageSize - (BlockSize + 1) + 1
    BY <1>4, <2>3, SubSeqFacts
  <2>5. BlockSize - 1 + 1 = BlockSize /\ PageSize - (BlockSize + 1) + 1 = BlockSize
    BY PageSizeIs
  <2>6. \A y \in Seq(Nat) : Len(y) = BlockSize => y \in Block
    BY LenProperties DEF Block
  <2> HIDE DEF Block
  <2> QED BY <2>2, <2>4, <2>5, <2>6
<1>6. SubSeq(x, 1, BlockSize) \o SubSeq(x, BlockSize + 1, PageSize) = x
  <2>1. BlockSize \in 0..Len(x)
    BY <1>1, PageSizeIs
  <2> QED BY <1>1, <1>4, <2>1, Halves
<1> QED BY <1>1, <1>2, <1>3, <1>5, <1>6 DEF x

(* The first half of the page that is not full, when its text is no more.  *)
LEMMA FirstHalf ==
  ASSUME NEW x, GoodPage(x), Len(x) <= BlockSize
  PROVE  SubSeq(Padded(x), 1, BlockSize) = x \o Zeros(BlockSize - Len(x))
<1> DEFINE m == Len(x)
           z == Zeros(BlockSize - m)
           y == Zeros(PageSize - m)
           p == Padded(x)
<1>1. x \in Bytes /\ m \in Nat /\ m <= BlockSize /\ m <= PageSize
  BY LenProperties, PageSizeIs DEF GoodPage, Bytes
<1>2. BlockSize - m \in Nat /\ PageSize - m \in Nat
  BY <1>1, PageSizeIs
<1>3. /\ z \in Bytes /\ Len(z) = BlockSize - m /\ \A i \in 1..BlockSize-m : z[i] = Nul
  BY <1>2, ZerosIs
<1>4. /\ y \in Bytes /\ Len(y) = PageSize - m /\ \A i \in 1..PageSize-m : y[i] = Nul
  BY <1>2, ZerosIs
<1>5. p = x \o y
  BY DEF Padded
<1> HIDE DEF y, z, m
<1>6. /\ p \in Bytes /\ Len(p) = PageSize /\ \A i \in 1..m : p[i] = x[i]
      /\ \A i \in 1..PageSize-m : p[m + i] = Nul
  <2>1. /\ x \o y \in Bytes /\ Len(x \o y) = m + Len(y) /\ \A i \in 1..m : (x \o y)[i] = x[i]
        /\ \A i \in 1..Len(y) : (x \o y)[m + i] = y[i]
    BY <1>1, <1>4, Joined DEF m
  <2>2. m + (PageSize - m) = PageSize
    BY <1>1, PageSizeIs
  <2> QED BY <1>4, <1>5, <2>1, <2>2
<1> HIDE DEF p
<1> DEFINE q == SubSeq(p, 1, BlockSize)
<1>7. q \in Seq(Nat) /\ Len(q) = BlockSize /\ \A i \in 1..BlockSize : q[i] = p[i]
  <2>1. p \in Seq(Nat) /\ 1 \in 1..Len(p) + 1 /\ BlockSize \in 1 - 1 .. Len(p)
    BY <1>6, PageSizeIs DEF Bytes
  <2>2. /\ q \in Seq(Nat) /\ Len(q) = BlockSize - 1 + 1
        /\ \A i \in 1..BlockSize - 1 + 1 : q[i] = p[1 + i - 1]
    BY <2>1, SubSeqFacts
  <2>3. BlockSize - 1 + 1 = BlockSize /\ \A i \in 1..BlockSize : 1 + i - 1 = i
    BY PageSizeIs
  <2> HIDE DEF q
  <2> QED BY <2>2, <2>3
<1> DEFINE r == x \o z
<1>8. /\ r \in Seq(Nat) /\ Len(r) = BlockSize /\ \A i \in 1..m : r[i] = x[i]
      /\ \A i \in 1..BlockSize-m : r[m + i] = Nul
  <2>1. /\ r \in Bytes /\ Len(r) = m + Len(z) /\ \A i \in 1..m : r[i] = x[i]
        /\ \A i \in 1..Len(z) : r[m + i] = z[i]
    BY <1>1, <1>3, Joined DEF m
  <2>2. m + (BlockSize - m) = BlockSize
    BY <1>1, PageSizeIs
  <2> QED BY <1>3, <2>1, <2>2 DEF Bytes
<1> HIDE DEF q, r
<1>9. ASSUME NEW i \in 1..BlockSize PROVE q[i] = r[i]
  <2>1. CASE i <= m
    <3>1. i \in 1..m
      BY <1>1, <2>1
    <3> QED BY <1>6, <1>7, <1>8, <3>1
  <2>2. CASE i > m
    <3> DEFINE j == i - m
    <3>1. j \in 1..BlockSize-m /\ j \in 1..PageSize-m /\ m + j = i
      BY <1>1, <2>2, PageSizeIs
    <3> HIDE DEF j
    <3> QED BY <1>6, <1>7, <1>8, <3>1
  <2>3. i <= m \/ i > m
    BY <1>1
  <2> QED BY <2>1, <2>2, <2>3
<1>10. q = r
  BY <1>7, <1>8, <1>9, EqualSeqs
<1> QED BY <1>10 DEF q, r, z, m, p

(* The page that is not full, up to the end of a block.                    *)
Blocked(x) == x \o Zeros((IF Len(x) <= BlockSize THEN BlockSize ELSE PageSize) - Len(x))

LEMMA BlockedIs ==
  ASSUME NEW x, GoodPage(x), Len(x) <= PageSize
  PROVE  /\ Blocked(x) \in Bytes
         /\ Len(x) <= BlockSize => Blocked(x) = SubSeq(Padded(x), 1, BlockSize)
         /\ ~(Len(x) <= BlockSize) => Blocked(x) = Padded(x)
         /\ \E z \in Bytes : Blocked(x) = x \o z /\ Clean(z) /\ Decode(z) = <<>>
<1> DEFINE m == (IF Len(x) <= BlockSize THEN BlockSize ELSE PageSize) - Len(x)
           z == Zeros(m)
<1>1. x \in Bytes /\ Len(x) \in Nat
  BY LenProperties DEF GoodPage, Bytes
<1>2. m \in Nat
  BY <1>1, PageSizeIs
<1>3. Blocked(x) = x \o z
  BY DEF Blocked
<1>4. Len(x) <= BlockSize => z = Zeros(BlockSize - Len(x))
  OBVIOUS
<1>5. ~(Len(x) <= BlockSize) => z = Zeros(PageSize - Len(x))
  OBVIOUS
<1> HIDE DEF m
<1>6. z \in Bytes /\ Clean(z) /\ Decode(z) = <<>>
  BY <1>2, ZerosIs DEF GoodPage
<1> HIDE DEF z
<1>7. Len(x) <= BlockSize => Blocked(x) = SubSeq(Padded(x), 1, BlockSize)
  BY <1>3, <1>4, FirstHalf
<1>8. ~(Len(x) <= BlockSize) => Blocked(x) = Padded(x)
  BY <1>3, <1>5 DEF Padded
<1>9. Blocked(x) \in Bytes
  BY <1>1, <1>3, <1>6, Joined
<1> QED BY <1>3, <1>6, <1>7, <1>8, <1>9

LEMMA WriterBlocksIs ==
  ASSUME NEW w, GoodWriter(w), w.current # <<>>
  PROVE  /\ Len(w.pages) \in Nat /\ Len(w.pages) >= 1 /\ WriterBlocks(w) \in Nat
         /\ Len(w.current) <= BlockSize => WriterBlocks(w) = 2 * Len(w.pages) + 1
         /\ ~(Len(w.current) <= BlockSize) => WriterBlocks(w) = 2 * Len(w.pages) + 2
<1>1. Len(w.pages) \in Nat
  BY LenProperties DEF GoodWriter
<1>2. Len(w.pages) >= 1
  BY DEF GoodWriter
<1> QED BY <1>1, <1>2 DEF WriterBlocks

(* f is a text that put has written from w: its blocks, and one more.      *)
Laid(blocks, f, w, n) ==
  /\ GoodWriter(w) /\ w.current # <<>> /\ n = WriterBlocks(w)
  /\ f.first \in Nat /\ f.last = f.first + (n + 1) /\ f.lastByte = BlockSize
  /\ \A i \in 0..n-1 : blocks[f.first + i] = WriterData(w, i)
  /\ blocks[f.first + n] \in Block

LEMMA LaidBlocks ==
  ASSUME NEW blocks, NEW f, NEW w, NEW n, Laid(blocks, f, w, n)
  PROVE  /\ n \in Nat /\ \A i \in 0..n : blocks[f.first + i] \in Block
         /\ \A i \in 0..Len(w.pages)-1 :
              /\ 2 * i \in 0..n-1 /\ 2 * i + 1 \in 0..n-1
              /\ blocks[f.first + 2 * i] \in Bytes /\ blocks[f.first + (2 * i + 1)] \in Bytes
              /\ blocks[f.first + 2 * i] \o blocks[f.first + (2 * i + 1)] = w.pages[i + 1]
<1>1. /\ GoodWriter(w) /\ n \in Nat /\ Len(w.pages) \in Nat
      /\ n >= 2 * Len(w.pages)
  BY WriterBlocksIs DEF Laid
<1>2. \A i \in 0..n : blocks[f.first + i] \in Block
  <2> TAKE i \in 0..n
  <2>1. CASE i = n
    BY <2>1 DEF Laid
  <2>2. CASE i # n
    <3>1. i \in 0..n-1
      BY <1>1, <2>2
    <3>2. blocks[f.first + i] = WriterData(w, i)
      BY <3>1 DEF Laid
    <3> DEFINE k == i \div 2
    <3>3. k \in Nat /\ (i = 2 * k \/ i = 2 * k + 1)
      BY <3>1
    <3> HIDE DEF k
    <3> QED BY <1>1, <3>2, <3>3, WriterDataIs
  <2> QED BY <2>1, <2>2
<1>3. ASSUME NEW i \in 0..Len(w.pages)-1
      PROVE  /\ 2 * i \in 0..n-1 /\ 2 * i + 1 \in 0..n-1
             /\ blocks[f.first + 2 * i] \in Bytes /\ blocks[f.first + (2 * i + 1)] \in Bytes
             /\ blocks[f.first + 2 * i] \o blocks[f.first + (2 * i + 1)] = w.pages[i + 1]
  <2>1. 2 * i \in 0..n-1 /\ 2 * i + 1 \in 0..n-1 /\ i \in Nat /\ i < Len(w.pages)
    BY <1>1
  <2>2. /\ blocks[f.first + 2 * i] = WriterData(w, 2 * i)
        /\ blocks[f.first + (2 * i + 1)] = WriterData(w, 2 * i + 1)
    BY <2>1 DEF Laid
  <2>3. PageOf(w, i) = w.pages[i + 1]
    BY <2>1 DEF PageOf
  <2>4. /\ WriterData(w, 2 * i) \in Block /\ WriterData(w, 2 * i + 1) \in Block
        /\ WriterData(w, 2 * i) \o WriterData(w, 2 * i + 1) = w.pages[i + 1]
    BY <1>1, <2>1, <2>3, WriterDataIs
  <2> QED BY <2>1, <2>2, <2>4, BlockBytes
<1> QED BY <1>1, <1>2, <1>3

(* Its blocks one after the other are the writer's pages, the page that is *)
(* not full, and the block after them.                                     *)
LEMMA RunOfText ==
  ASSUME NEW blocks, NEW f, NEW w, NEW n, Laid(blocks, f, w, n)
  PROVE  /\ Concat(Run(blocks, f)) =
              (Concat(w.pages) \o Blocked(w.current)) \o blocks[f.first + n]
         /\ Len(Concat(Run(blocks, f))) = (n + 1) * BlockSize
<1> DEFINE L == Len(w.pages)
           c == w.current
           s == Run(blocks, f)
           o == blocks[f.first + n]
<1>1. /\ GoodWriter(w) /\ c # <<>> /\ n \in Nat /\ L \in Nat /\ L >= 1 /\ f.first \in Nat
      /\ f.last = f.first + (n + 1) /\ \A i \in 0..n-1 : blocks[f.first + i] = WriterData(w, i)
      /\ o \in Block /\ w.pages \in Seq(Bytes) /\ GoodPage(c) /\ Len(c) <= PageSize
  BY WriterBlocksIs DEF Laid, GoodWriter
<1>2. /\ s \in Seq(Bytes) /\ Len(s) = n + 1
      /\ \A i \in 0..n : s[i + 1] = blocks[f.first + i]
      /\ \A i \in 1..n+1 : Len(s[i]) = BlockSize
  <2>1. n + 1 \in Nat /\ (n + 1) - 1 = n
    BY <1>1
  <2>2. \A i \in 0..(n+1)-1 : blocks[f.first + i] \in Block
    BY <2>1, LaidBlocks
  <2> QED BY <1>1, <2>1, <2>2, RunIs
<1> HIDE DEF s
<1>3. PICK g : InputHeads(g, s) /\ Concat(s) = g[n + 1]
  BY <1>2, ConcatIs
<1>4. PICK h : InputHeads(h, w.pages) /\ Concat(w.pages) = h[L]
  BY <1>1, ConcatIs
<1>5. \A i \in 0..n : g[i] \in Bytes /\ g[i + 1] = g[i] \o blocks[f.first + i]
                      /\ blocks[f.first + i] \in Bytes
  <2> TAKE i \in 0..n
  <2>1. i + 1 \in 1..Len(s) /\ (i + 1) - 1 = i /\ i \in 0..Len(s)
    BY <1>1, <1>2
  <2>2. g[i + 1] = g[i] \o s[i + 1] /\ g[i] \in Bytes
    BY <1>3, <2>1 DEF InputHeads
  <2>3. blocks[f.first + i] \in Bytes
    BY LaidBlocks, BlockBytes
  <2> QED BY <1>2, <2>2, <2>3
<1> DEFINE Same == {i \in 0..L : g[2 * i] = h[i]}
<1>6. 0 \in Same
  BY <1>1, <1>3, <1>4 DEF InputHeads
<1>7. ASSUME NEW i \in 0..L, i \in Same, i < L PROVE i + 1 \in Same
  <2>1. /\ i \in 0..L-1 /\ i + 1 \in 1..L /\ (i + 1) - 1 = i /\ i + 1 \in 0..L
        /\ 2 * (i + 1) = (2 * i + 1) + 1
    BY <1>1, <1>7
  <2>2. /\ 2 * i \in 0..n-1 /\ 2 * i + 1 \in 0..n-1
        /\ blocks[f.first + 2 * i] \o blocks[f.first + (2 * i + 1)] = w.pages[i + 1]
    BY <2>1, LaidBlocks, ZenonT(60)
  <2>3. 2 * i \in 0..n /\ 2 * i + 1 \in 0..n
    BY <1>1, <2>2
  <2>4. PICK x, y, z : x = g[2 * i] /\ y = blocks[f.first + 2 * i] /\ z = blocks[f.first + (2 * i + 1)]
    OBVIOUS
  <2>5. x \in Seq(Nat) /\ y \in Seq(Nat) /\ z \in Seq(Nat)
    BY <1>5, <2>3, <2>4 DEF Bytes
  <2>6. g[2 * (i + 1)] = (x \o y) \o z
    BY <1>5, <2>1, <2>3, <2>4
  <2>7. (x \o y) \o z = x \o (y \o z)
    BY <2>5, Associates, Zenon
  <2>8. h[i + 1] = h[i] \o w.pages[i + 1] /\ g[2 * i] = h[i]
    BY <1>4, <1>7, <2>1 DEF InputHeads
  <2>9. g[2 * (i + 1)] = h[i + 1]
    BY <2>2, <2>4, <2>6, <2>7, <2>8
  <2> QED BY <2>1, <2>9
<1> HIDE DEF Same
<1>8. \A i \in 0..L : i \in Same
  BY <1>1, <1>6, <1>7, UpTo
<1>9. g[2 * L] = h[L] /\ h[L] \in Bytes
  BY <1>1, <1>4, <1>8 DEF Same, InputHeads
<1>10. PageOf(w, L) = Padded(c)
  BY <1>1 DEF PageOf
<1>11. g[n + 1] = (h[L] \o Blocked(c)) \o o
  <2>1. CASE Len(c) <= BlockSize
    <3>1. n = 2 * L + 1 /\ 2 * L \in 0..n /\ 2 * L \in 0..n-1 /\ n \in 0..n
      BY <1>1, <2>1, WriterBlocksIs DEF Laid
    <3>2. g[n] = g[2 * L] \o blocks[f.first + 2 * L]
      BY <1>5, <3>1
    <3>3. blocks[f.first + 2 * L] = WriterData(w, 2 * L)
      BY <1>1, <3>1
    <3>4. WriterData(w, 2 * L) = SubSeq(Padded(c), 1, BlockSize)
      BY <1>1, <1>10, WriterDataIs
    <3>5. Blocked(c) = SubSeq(Padded(c), 1, BlockSize)
      BY <1>1, <2>1, BlockedIs
    <3>6. g[n + 1] = g[n] \o o
      BY <1>5, <3>1
    <3> QED BY <1>9, <3>2, <3>3, <3>4, <3>5, <3>6
  <2>2. CASE ~(Len(c) <= BlockSize)
    <3>1. /\ n = (2 * L + 1) + 1 /\ 2 * L \in 0..n /\ 2 * L + 1 \in 0..n /\ n \in 0..n
          /\ 2 * L \in 0..n-1 /\ 2 * L + 1 \in 0..n-1
      BY <1>1, <2>2, WriterBlocksIs, SMTT(30) DEF Laid
    <3>2. PICK x, y, z : /\ x = g[2 * L] /\ y = blocks[f.first + 2 * L]
                         /\ z = blocks[f.first + (2 * L + 1)]
      OBVIOUS
    <3>3. x \in Seq(Nat) /\ y \in Seq(Nat) /\ z \in Seq(Nat)
      BY <1>5, <3>1, <3>2 DEF Bytes
    <3>4. g[n] = (x \o y) \o z
      BY <1>5, <3>1, <3>2
    <3>5. (x \o y) \o z = x \o (y \o z)
      BY <3>3, Associates, Zenon
    <3>6. y = WriterData(w, 2 * L) /\ z = WriterData(w, 2 * L + 1)
      BY <1>1, <3>1, <3>2
    <3>7. y \o z = Padded(c)
      BY <1>1, <1>10, <3>6, WriterDataIs
    <3>8. Blocked(c) = Padded(c)
      BY <1>1, <2>2, BlockedIs
    <3>9. g[n + 1] = g[n] \o o
      BY <1>5, <3>1
    <3> QED BY <1>9, <3>2, <3>4, <3>5, <3>7, <3>8, <3>9
  <2> QED BY <2>1, <2>2
<1>12. Len(Concat(s)) = (n + 1) * BlockSize
  BY <1>2, ConcatEven, PageSizeIs
<1> QED BY <1>3, <1>4, <1>11, <1>12 DEF s

(* Its pages as they are read: L full ones, the one of t that is not, and  *)
(* the block o, in that page or in one more.                               *)
PagesAre(r, pages, L, half, t, o) ==
  /\ r \in Seq(Bytes)
  /\ \A p \in 1..L-1 : r[p] = pages[p + 1]
  /\ half => Len(r) = L /\ r[L] = t \o o
  /\ ~half => Len(r) = L + 1 /\ r[L] = t /\ r[L + 1] = o

LEMMA PagesOfText ==
  ASSUME NEW blocks, NEW f, NEW w, NEW n, Laid(blocks, f, w, n)
  PROVE  /\ PagesAre(Raws(blocks, f), w.pages, Len(w.pages), Len(w.current) <= BlockSize,
                     Blocked(w.current), blocks[f.first + n])
         /\ Len(Raws(blocks, f)) = PageCount(f)
<1> DEFINE L == Len(w.pages)
           c == w.current
           o == blocks[f.first + n]
           r == Raws(blocks, f)
           K == IF Len(c) <= BlockSize THEN L ELSE L + 1
<1>1. /\ GoodWriter(w) /\ c # <<>> /\ n \in Nat /\ L \in Nat /\ L >= 1 /\ f.first \in Nat
      /\ f.last = f.first + (n + 1) /\ f.lastByte = BlockSize
      /\ \A i \in 0..n-1 : blocks[f.first + i] = WriterData(w, i)
      /\ o \in Block /\ w.pages \in Seq(Bytes) /\ GoodPage(c) /\ Len(c) <= PageSize
      /\ Len(c) \in Nat
  BY WriterBlocksIs, LenProperties DEF Laid, GoodWriter, GoodPage, Bytes
<1>2. /\ Len(c) <= BlockSize => n = 2 * L + 1
      /\ ~(Len(c) <= BlockSize) => n = 2 * L + 2
      /\ n >= 2 * L + 1
  BY <1>1, WriterBlocksIs DEF Laid
<1>20. /\ Len(c) <= BlockSize => K = L
       /\ ~(Len(c) <= BlockSize) => K = L + 1
       /\ n \in Nat /\ L \in Nat /\ L >= 1 /\ f.first \in Nat /\ f.last = f.first + (n + 1)
  BY <1>1
<1> HIDE DEF K, c, L
<1>3. K \in Nat /\ PageCount(f) = K
  <2>1. CASE Len(c) <= BlockSize
    <3>1. f.last = f.first + (2 * L + 2) /\ K = L
      BY ONLY <1>2, <1>20, <2>1
    <3> QED BY <1>20, <3>1, PageCountIs
  <2>2. CASE ~(Len(c) <= BlockSize)
    <3>1. f.last = f.first + (2 * (L + 1) + 1) /\ K = L + 1 /\ L + 1 \in Nat
      BY ONLY <1>2, <1>20, <2>2
    <3> QED BY <1>20, <3>1, PageCountIs
  <2> QED BY <2>1, <2>2
<1>4. r = [p \in 1..K |-> TextReadPage(blocks, f, f.first + 2 * p)]
  BY <1>3 DEF Raws
<1> HIDE DEF r
<1>5. o \in Bytes /\ SubSeq(o, 1, BlockSize) = o /\ Blocked(c) \in Bytes
  <2>1. o \in Bytes /\ o \in Seq(Nat) /\ Len(o) = BlockSize
    BY <1>1, BlockBytes DEF Bytes
  <2> HIDE DEF o
  <2>2. SubSeq(o, 1, Len(o)) = o
    BY <2>1, SubSeqFull
  <2> QED BY <1>1, <2>1, <2>2, BlockedIs
<1>6. ASSUME NEW p \in 1..L-1 PROVE r[p] = w.pages[p + 1]
  <2>1. /\ p \in 0..L-1 /\ p \in 1..K /\ f.first + 2 * p + 1 # f.last /\ f.first + 2 * p + 2 # f.last
        /\ f.first + 2 * p + 1 = f.first + (2 * p + 1)
    BY ONLY <1>2, <1>20, p \in 1..L-1
  <2>2. TextReadPage(blocks, f, f.first + 2 * p) =
          blocks[f.first + 2 * p] \o blocks[f.first + (2 * p + 1)]
    BY <2>1 DEF TextReadPage
  <2>3. blocks[f.first + 2 * p] \o blocks[f.first + (2 * p + 1)] = w.pages[p + 1]
    <3>1. \A i \in 0..L-1 :
            blocks[f.first + 2 * i] \o blocks[f.first + (2 * i + 1)] = w.pages[i + 1]
      BY LaidBlocks, ZenonT(60) DEF L
    <3> QED BY <2>1, <3>1
  <2> QED BY <1>4, <2>1, <2>2, <2>3
<1>7. PageOf(w, L) = Padded(c)
  BY <1>1 DEF PageOf, L, c
<1>8. ASSUME Len(c) <= BlockSize PROVE K = L /\ r[L] = Blocked(c) \o o
  <2>1. /\ n = 2 * L + 1 /\ L \in 1..K /\ K = L /\ f.first + 2 * L + 1 # f.last
        /\ f.first + 2 * L + 2 = f.last /\ 2 * L \in 0..n-1
        /\ f.first + 2 * L + 1 = f.first + n
    BY ONLY <1>2, <1>8, <1>20
  <2>2. TextReadPage(blocks, f, f.first + 2 * L) = blocks[f.first + 2 * L] \o SubSeq(o, 1, BlockSize)
    BY <1>1, <2>1 DEF TextReadPage
  <2>3. blocks[f.first + 2 * L] = WriterData(w, 2 * L)
    BY <1>1, <2>1
  <2>4. WriterData(w, 2 * L) = SubSeq(Padded(c), 1, BlockSize)
    BY <1>1, <1>7, WriterDataIs
  <2>5. Blocked(c) = SubSeq(Padded(c), 1, BlockSize)
    BY <1>1, <1>8, BlockedIs
  <2> QED BY <1>4, <1>5, <2>1, <2>2, <2>3, <2>4, <2>5
<1>9. ASSUME ~(Len(c) <= BlockSize) PROVE K = L + 1 /\ r[L] = Blocked(c) /\ r[L + 1] = o
  <2>1. /\ n = 2 * L + 2 /\ L \in 1..K /\ L + 1 \in 1..K /\ K = L + 1
        /\ f.first + 2 * L + 1 # f.last /\ f.first + 2 * L + 2 # f.last
        /\ 2 * L \in 0..n-1 /\ 2 * L + 1 \in 0..n-1
        /\ f.first + 2 * L + 1 = f.first + (2 * L + 1)
        /\ f.first + 2 * (L + 1) + 1 = f.last /\ f.first + 2 * (L + 1) = f.first + n
    BY ONLY <1>2, <1>9, <1>20
  <2>2. TextReadPage(blocks, f, f.first + 2 * L) =
          blocks[f.first + 2 * L] \o blocks[f.first + (2 * L + 1)]
    BY <2>1 DEF TextReadPage
  <2>3. /\ blocks[f.first + 2 * L] = WriterData(w, 2 * L)
        /\ blocks[f.first + (2 * L + 1)] = WriterData(w, 2 * L + 1)
    BY <1>1, <2>1
  <2>4. WriterData(w, 2 * L) \o WriterData(w, 2 * L + 1) = Padded(c)
    BY <1>1, <1>7, WriterDataIs
  <2>5. Blocked(c) = Padded(c)
    BY <1>1, <1>9, BlockedIs
  <2>6. TextReadPage(blocks, f, f.first + 2 * (L + 1)) = SubSeq(o, 1, BlockSize)
    BY <1>1, <2>1 DEF TextReadPage
  <2> QED BY <1>4, <1>5, <2>1, <2>2, <2>3, <2>4, <2>5, <2>6
<1>10. ASSUME NEW p \in 1..K PROVE r[p] \in Bytes
  <2>1. p \in 1..L-1 \/ p = L \/ (p = L + 1 /\ ~(Len(c) <= BlockSize))
    BY <1>20
  <2>2. ASSUME p \in 1..L-1 PROVE r[p] \in Bytes
    <3>1. p + 1 \in 1..L
      BY <1>1, <2>2
    <3>2. w.pages[p + 1] \in Bytes
      <4> HIDE DEF Bytes
      <4>1. w.pages \in Seq(Bytes) /\ p + 1 \in 1..Len(w.pages)
        BY <1>1, <3>1 DEF L
      <4> QED BY ONLY <4>1, ElementOfSeq
    <3> QED BY <1>6, <2>2, <3>2
  <2>3. ASSUME p = L PROVE r[p] \in Bytes
    <3>1. CASE Len(c) <= BlockSize
      <4>1. PICK x, y : x = Blocked(c) /\ y = o
        OBVIOUS
      <4>2. x \o y \in Bytes
        BY <1>5, <4>1, Joined
      <4> QED BY <1>8, <2>3, <3>1, <4>1, <4>2
    <3>2. CASE ~(Len(c) <= BlockSize)
      BY <1>5, <1>9, <2>3, <3>2
    <3> QED BY <3>1, <3>2
  <2>4. ASSUME p = L + 1, ~(Len(c) <= BlockSize) PROVE r[p] \in Bytes
    BY <1>5, <1>9, <2>4
  <2> QED BY <2>1, <2>2, <2>3, <2>4
<1>11. r \in Seq(Bytes) /\ Len(r) = K
  <2>1. r \in [1..K -> Bytes]
    BY <1>4, <1>10
  <2> HIDE DEF Bytes, K
  <2> QED BY <1>3, <2>1, FunctionSeq
<1>12. Len(r) = PageCount(f)
  BY <1>3, <1>11
<1>13. /\ Len(c) <= BlockSize => Len(r) = L /\ r[L] = Blocked(c) \o o
       /\ ~(Len(c) <= BlockSize) => Len(r) = L + 1 /\ r[L] = Blocked(c) /\ r[L + 1] = o
  BY <1>8, <1>9, <1>11
<1>14. PagesAre(r, w.pages, L, Len(c) <= BlockSize, Blocked(c), o)
  BY <1>6, <1>11, <1>13 DEF PagesAre
<1> QED BY <1>12, <1>14 DEF r, L, c

(* A text as put leaves it: page by page or at one go it decodes to what   *)
(* the writer was given, and then to what the block after it held.         *)
LEMMA TextLayout ==
  ASSUME NEW blocks, NEW f, NEW w, NEW n, Laid(blocks, f, w, n)
  PROVE  LET r == Raws(blocks, f)
         IN  /\ r \in Seq(Bytes) /\ Len(r) = PageCount(f)
             /\ \A p \in 1..Len(r)-1 : Clean(r[p])
             /\ Concat(Run(blocks, f)) = Zeros(PageSize) \o Concat(r)
             /\ Len(Concat(Run(blocks, f))) = (n + 1) * BlockSize
             /\ Decode(Concat(r)) = Decode(RawText(w)) \o Decode(blocks[f.first + n])
<1> DEFINE L == Len(w.pages)
           c == w.current
           o == blocks[f.first + n]
           t == Blocked(c)
           r == Raws(blocks, f)
           F == Concat(Run(blocks, f))
           Z == Zeros(PageSize)
<1>1. /\ GoodWriter(w) /\ L \in Nat /\ L >= 1 /\ o \in Bytes /\ w.pages \in Seq(Bytes)
      /\ GoodPage(c) /\ Len(c) <= PageSize /\ w.pages[1] = Z
      /\ \A i \in 1..L : GoodPage(w.pages[i])
  BY WriterBlocksIs, BlockBytes DEF Laid, GoodWriter
<1>2. /\ r \in Seq(Bytes) /\ Len(r) = PageCount(f)
      /\ \A p \in 1..L-1 : r[p] = w.pages[p + 1]
      /\ Len(c) <= BlockSize => Len(r) = L /\ r[L] = t \o o
      /\ ~(Len(c) <= BlockSize) => Len(r) = L + 1 /\ r[L] = t /\ r[L + 1] = o
  <2> DEFINE half == Len(c) <= BlockSize
  <2>1. PagesAre(r, w.pages, L, half, t, o) /\ Len(r) = PageCount(f)
    BY PagesOfText
  <2> HIDE DEF c, o, L, t, r, half
  <2>2. \A p \in 1..L-1 : r[p] = w.pages[p + 1]
    BY <2>1 DEF PagesAre
  <2>3. half => Len(r) = L /\ r[L] = t \o o
    BY <2>1 DEF PagesAre
  <2>4. ~half => Len(r) = L + 1 /\ r[L] = t /\ r[L + 1] = o
    BY <2>1 DEF PagesAre
  <2>5. r \in Seq(Bytes)
    BY <2>1 DEF PagesAre
  <2> QED BY <2>1, <2>2, <2>3, <2>4, <2>5 DEF half
<1>3. t \in Bytes
  BY <1>1, BlockedIs
<1>4. PICK z \in Bytes : t = c \o z /\ Clean(z) /\ Decode(z) = <<>>
  BY <1>1, BlockedIs
<1>5. F = (Concat(w.pages) \o t) \o o /\ Len(F) = (n + 1) * BlockSize
  BY RunOfText
<1>6. Z \in Bytes /\ Clean(Z) /\ Decode(Z) = <<>> /\ Z \o <<>> = Z /\ <<>> \o Z = Z
  <2>1. Z \in Bytes /\ Clean(Z) /\ Decode(Z) = <<>>
    BY PageSizeIs, ZerosIs DEF GoodPage
  <2> HIDE DEF Z
  <2> QED BY <2>1, ConcatEmptySeq DEF Bytes
<1> HIDE DEF F, r, t, Z
<1>7. Clean(c \o z) /\ c \in Bytes /\ Clean(c)
  BY <1>1, <1>4, DecodeConcat DEF GoodPage
<1>8. ASSUME NEW p \in 1..Len(r)-1 PROVE Clean(r[p])
  <2>1. p \in 1..L-1 \/ (p = L /\ ~(Len(c) <= BlockSize))
    BY <1>1, <1>2
  <2>2. ASSUME p \in 1..L-1 PROVE Clean(r[p])
    <3>1. p + 1 \in 1..L
      BY <1>1, <2>2
    <3> QED BY <1>1, <1>2, <2>2, <3>1 DEF GoodPage
  <2>3. ASSUME p = L, ~(Len(c) <= BlockSize) PROVE Clean(r[p])
    BY <1>2, <1>4, <1>7, <2>3
  <2> QED BY <2>1, <2>2, <2>3
<1>9. PICK g : InputHeads(g, w.pages) /\ Concat(w.pages) = g[L]
  BY <1>1, ConcatIs
<1>10. PICK h : InputHeads(h, r) /\ Concat(r) = h[Len(r)]
  BY <1>2, ConcatIs
<1>11. Len(r) \in Nat /\ L - 1 \in 0..Len(r) /\ L \in 1..Len(r)
  BY <1>1, <1>2
<1>12. /\ \A p \in 0..Len(r) : h[p] \in Bytes
       /\ \A p \in 1..Len(r) : h[p] = h[p - 1] \o r[p]
       /\ \A p \in 0..L : g[p] \in Bytes
       /\ \A p \in 1..L : g[p] = g[p - 1] \o w.pages[p]
       /\ g[0] = <<>> /\ h[0] = <<>>
  BY <1>9, <1>10 DEF InputHeads
<1> DEFINE Same == {p \in 0..L-1 : Z \o h[p] = g[p + 1]}
<1>13. 0 \in Same
  <2>1. 1 \in 1..L /\ 1 - 1 = 0 /\ 0 \in 0..L-1 /\ 0 + 1 = 1
    BY <1>1
  <2>2. g[1] = g[1 - 1] \o w.pages[1]
    BY <1>12, <2>1
  <2>3. g[1] = Z
    BY <1>1, <1>6, <1>12, <2>1, <2>2
  <2> QED BY <1>6, <1>12, <2>1, <2>3
<1>14. ASSUME NEW p \in 0..L-1, p \in Same, p < L - 1 PROVE p + 1 \in Same
  <2>1. /\ p + 1 \in 1..L-1 /\ p + 1 \in 1..Len(r) /\ (p + 1) - 1 = p /\ p \in 0..Len(r)
        /\ (p + 1) + 1 \in 1..L /\ ((p + 1) + 1) - 1 = p + 1 /\ p + 1 \in 0..L-1
    BY <1>1, <1>11, <1>14
  <2>2. h[p + 1] = h[p] \o r[p + 1]
    BY <1>12, <2>1
  <2>3. g[(p + 1) + 1] = g[p + 1] \o r[p + 1]
    BY <1>2, <1>12, <2>1
  <2>4. r[p + 1] \in Bytes /\ h[p] \in Bytes
    <3>1. r[p + 1] \in Bytes
      <4> HIDE DEF Bytes
      <4> QED BY <1>2, <2>1, ElementOfSeq
    <3> QED BY <1>12, <2>1, <3>1
  <2>5. PICK x, y : x = h[p] /\ y = r[p + 1]
    OBVIOUS
  <2>6. Z \in Seq(Nat) /\ x \in Seq(Nat) /\ y \in Seq(Nat)
    BY <1>6, <2>4, <2>5 DEF Bytes
  <2>7. (Z \o x) \o y = Z \o (x \o y)
    BY <2>6, Associates, Zenon
  <2>8. Z \o x = g[p + 1]
    BY <1>14, <2>5
  <2>9. Z \o h[p + 1] = g[(p + 1) + 1]
    BY <2>2, <2>3, <2>5, <2>7, <2>8
  <2> QED BY <2>1, <2>9
<1> HIDE DEF Same
<1>15. \A p \in 0..L-1 : p \in Same
  <2>1. L - 1 \in Nat
    BY <1>1
  <2> QED BY <2>1, <1>13, <1>14, UpTo
<1>16. Z \o h[L - 1] = Concat(w.pages)
  <2>1. L - 1 \in 0..L-1 /\ (L - 1) + 1 = L
    BY <1>1
  <2> QED BY <1>9, <1>15, <2>1 DEF Same
<1> DEFINE x == h[L - 1]
<1>17. x \in Bytes /\ Z \in Seq(Nat) /\ x \in Seq(Nat) /\ t \in Seq(Nat) /\ o \in Seq(Nat)
  BY <1>1, <1>3, <1>6, <1>11, <1>12 DEF Bytes
<1>18. Z \o Concat(r) = F
  <2>1. CASE Len(c) <= BlockSize
    <3>1. h[L] = x \o (t \o o) /\ Len(r) = L
      BY <1>2, <1>11, <1>12, <2>1
    <3> HIDE DEF x, o
    <3>2. t \o o \in Seq(Nat)
      BY <1>17, ConcatProperties
    <3>3. (Z \o x) \o (t \o o) = Z \o (x \o (t \o o))
      BY <1>17, <3>2, Associates, ZenonT(60)
    <3>4. Z \o x \in Seq(Nat)
      BY <1>17, ConcatProperties
    <3>5. ((Z \o x) \o t) \o o = (Z \o x) \o (t \o o)
      BY <1>17, <3>4, Associates, ZenonT(60)
    <3>6. Z \o x = Concat(w.pages)
      BY <1>16 DEF x
    <3> QED BY <1>5, <1>10, <3>1, <3>3, <3>5, <3>6
  <2>2. CASE ~(Len(c) <= BlockSize)
    <3>1. /\ Len(r) = L + 1 /\ L + 1 \in 1..Len(r) /\ (L + 1) - 1 = L
      BY <1>1, <1>2, <1>11, <2>2
    <3>2. h[L] = x \o t
      BY <1>2, <1>11, <1>12, <2>2
    <3>3. h[L + 1] = h[L] \o o
      BY <1>2, <1>12, <2>2, <3>1
    <3> HIDE DEF x, o
    <3>4. x \o t \in Seq(Nat)
      BY <1>17, ConcatProperties
    <3>5. (Z \o (x \o t)) \o o = Z \o ((x \o t) \o o)
      BY <1>17, <3>4, Associates, ZenonT(60)
    <3>6. (Z \o x) \o t = Z \o (x \o t)
      BY <1>17, Associates, Zenon
    <3>7. Z \o x = Concat(w.pages)
      BY <1>16 DEF x
    <3> QED BY <1>5, <1>10, <3>1, <3>2, <3>3, <3>5, <3>6, <3>7
  <2> QED BY <2>1, <2>2
<1>19. Decode(Concat(r)) = Decode(RawText(w)) \o Decode(o)
  <2> DEFINE a == RawText(w)
  <2>1. a \in Bytes /\ Clean(a) /\ a = Concat(w.pages) \o c /\ Concat(w.pages) \in Bytes
    BY <1>1, RawTextIs DEF RawText
  <2> HIDE DEF a
  <2>2. Concat(w.pages) \o t = a \o z
    <3>1. PICK u : u = Concat(w.pages)
      OBVIOUS
    <3>2. u \in Seq(Nat) /\ c \in Seq(Nat) /\ z \in Seq(Nat)
      BY <1>7, <2>1, <3>1 DEF Bytes
    <3>3. (u \o c) \o z = u \o (c \o z)
      BY <3>2, Associates, Zenon
    <3> QED BY <1>4, <2>1, <3>1, <3>3
  <2>3. /\ Decode(a \o z) = Decode(a) \o Decode(z) /\ Clean(a \o z) /\ a \o z \in Bytes
    BY <1>4, <2>1, DecodeConcat, Joined
  <2>4. Decode(a) \o <<>> = Decode(a)
    <3>1. Decode(a) \in Seq(Nat)
      BY <2>1, DecodeBytes DEF Bytes
    <3> QED BY <3>1, ConcatEmptySeq
  <2>5. PICK b : b = a \o z
    OBVIOUS
  <2>6. Decode(b \o o) = Decode(b) \o Decode(o)
    BY <1>1, <2>3, <2>5, DecodeConcat
  <2>7. F = b \o o
    BY <1>5, <2>2, <2>5
  <2>8. Decode(F) = Decode(a) \o Decode(o)
    BY <1>4, <2>3, <2>4, <2>5, <2>6, <2>7
  <2>9. Concat(r) \in Bytes
    BY <1>2, ConcatBytes
  <2>10. Decode(Z \o Concat(r)) = Decode(Z) \o Decode(Concat(r))
    BY <1>6, <2>9, DecodeConcat
  <2>11. <<>> \o Decode(Concat(r)) = Decode(Concat(r))
    <3>1. Decode(Concat(r)) \in Seq(Nat)
      BY <2>9, DecodeBytes DEF Bytes
    <3> QED BY <3>1, ConcatEmptySeq
  <2> QED BY <1>6, <1>18, <2>8, <2>10, <2>11 DEF a
<1> QED BY <1>2, <1>5, <1>8, <1>18, <1>19 DEF r, F, Z

-----------------------------------------------------------------------------
(* Reading data.                                                           *)

LEMMA Divided ==
  ASSUME NEW x \in Nat
  PROVE  /\ x \div BlockSize \in Nat /\ x % BlockSize \in 0..BlockSize-1
         /\ x = (x \div BlockSize) * BlockSize + (x % BlockSize)
BY PageSizeIs

LEMMA Multiple ==
  ASSUME NEW k \in Nat, NEW j \in 0..BlockSize-1
  PROVE  /\ k * BlockSize + j \in Nat
         /\ (k * BlockSize + j) \div BlockSize = k /\ (k * BlockSize + j) % BlockSize = j
BY PageSizeIs

(* The file f has n blocks.                                                *)
InBlocks(blocks, f, n) ==
  /\ f.first \in Nat /\ n \in Nat /\ f.last = f.first + n
  /\ \A i \in 0..n-1 : blocks[f.first + i] \in Block

LEMMA DataReadIs ==
  ASSUME NEW blocks, NEW f, NEW n, InBlocks(blocks, f, n),
         NEW offset \in Nat, offset % BlockSize = 0, NEW size \in Nat,
         offset + size <= n * BlockSize
  PROVE  DataRead(blocks, f, size, offset) =
           SubSeq(Concat(Run(blocks, f)), offset + 1, offset + size)
<1> DEFINE B == BlockSize
           q == offset \div B
           s == Run(blocks, f)
           F == Concat(s)
           d == DataRead(blocks, f, size, offset)
           e == SubSeq(F, offset + 1, offset + size)
<1>0. /\ f.first \in Nat /\ n \in Nat /\ f.last = f.first + n
      /\ \A i \in 0..n-1 : blocks[f.first + i] \in Block
  BY DEF InBlocks
<1> USE <1>0
<1>1. B \in Nat \ {0} /\ q \in Nat /\ offset = q * B /\ n * B \in Nat /\ f.first \in Nat
  BY <1>0, PageSizeIs, Divided, Products
<1>2. /\ s \in Seq(Bytes) /\ Len(s) = n /\ \A i \in 0..n-1 : s[i + 1] = blocks[f.first + i]
      /\ \A i \in 1..n : Len(s[i]) = B
  <2>1. /\ f.first \in Nat /\ n \in Nat /\ f.last = f.first + n
        /\ \A i \in 0..n-1 : blocks[f.first + i] \in Block
    OBVIOUS
  <2>2. /\ s \in Seq(Bytes) /\ Len(s) = n /\ \A i \in 0..n-1 : s[i + 1] = blocks[f.first + i]
        /\ \A i \in 1..n : Len(s[i]) = B
    BY ONLY <2>1, RunIs, SMTT(30)
  <2> QED BY <2>2
<1> HIDE DEF s
<1>3. /\ F \in Bytes /\ Len(F) = n * B
      /\ \A k \in 0..n-1, j \in 1..B : k * B + j \in 1..n*B /\ F[k * B + j] = s[k + 1][j]
  <2> HIDE DEF B
  <2>1. s \in Seq(Bytes) /\ Len(s) = n /\ \A i \in 1..Len(s) : Len(s[i]) = B
    BY <1>2
  <2>2. B \in Nat
    BY <1>1
  <2>3. /\ F \in Bytes /\ Len(F) = Len(s) * B
        /\ \A k \in 0..Len(s)-1, j \in 1..B :
             k * B + j \in 1..Len(s) * B /\ F[k * B + j] = s[k + 1][j]
    BY ONLY <2>1, <2>2, ConcatEven
  <2> QED BY ONLY <2>1, <2>3
<1>4. d = [k \in 1..size |-> blocks[(f.first + q) + ((k - 0 - 1) \div B)][((k - 0 - 1) % B) + 1]]
  <2>1. Smaller(0, size) = 0
    BY DEF Smaller
  <2>2. \A k \in 1..size : ~(k <= 0)
    OBVIOUS
  <2> QED BY <2>1, <2>2 DEF DataRead
<1> HIDE DEF s, F, d, q, B
<1>5. ASSUME NEW k \in 1..size
      PROVE  d[k] = F[offset + k] /\ offset + k \in 1..n*B
  <2> DEFINE x == (k - 1) \div B
             y == (k - 1) % B
  <2>1. x \in Nat /\ y \in 0..B-1 /\ k - 1 = x * B + y /\ k - 1 \in Nat
    <3>1. k - 1 \in Nat
      OBVIOUS
    <3> QED BY <3>1, Divided DEF B
  <2>2. k - 0 - 1 = k - 1
    OBVIOUS
  <2>3. d[k] = blocks[(f.first + q) + x][y + 1]
    BY <1>4, <2>2
  <2> HIDE DEF x, y
  <2>4. (q + x) * B = q * B + x * B /\ q * B \in Nat /\ x * B \in Nat
    BY <1>1, <2>1, Products
  <2>5. offset + k = (q + x) * B + (y + 1) /\ y + 1 \in 1..B
    BY <1>1, <2>1, <2>4
  <2>6. q + x \in 0..n-1
    <3>1. CASE n <= q + x
      <4>1. n * B <= (q + x) * B
        BY <1>1, <2>1, <3>1, Products
      <4>2. offset + k <= n * B
        BY <1>1 DEF B
      <4> QED BY <1>1, <2>1, <2>4, <2>5, <4>1, <4>2
    <3>2. CASE ~(n <= q + x)
      BY <1>1, <2>1, <3>2
    <3> QED BY <3>1, <3>2
  <2>7. /\ (q + x) * B + (y + 1) \in 1..n*B
        /\ F[(q + x) * B + (y + 1)] = s[(q + x) + 1][y + 1]
    BY <1>3, <2>5, <2>6
  <2>8. s[(q + x) + 1] = blocks[f.first + (q + x)]
    BY <1>2, <2>6
  <2>9. f.first + (q + x) = (f.first + q) + x
    BY ONLY <1>1, <2>1
  <2> QED BY <2>3, <2>5, <2>7, <2>8, <2>9
<1>6. ASSUME NEW i \in 1..n*B PROVE F[i] \in Nat
  <2>1. F \in Seq(Nat) /\ i \in 1..Len(F)
    BY <1>3 DEF Bytes
  <2> QED BY ONLY <2>1, ElementOfSeq
<1>7. d \in Seq(Nat) /\ Len(d) = size
  <2>1. d \in [1..size -> Nat]
    <3>1. \A k \in 1..size : d[k] \in Nat
      BY <1>5, <1>6
    <3>2. DOMAIN d = 1..size /\ d = [k \in 1..size |-> d[k]]
      BY <1>4
    <3> QED BY <3>1, <3>2
  <2> QED BY <2>1, FunctionSeq
<1>8. e \in Seq(Nat) /\ Len(e) = size /\ \A k \in 1..size : e[k] = F[offset + k]
  <2>1. F \in Seq(Nat) /\ offset + 1 \in 1..Len(F) + 1 /\ offset + size \in (offset + 1) - 1 .. Len(F)
    <3>1. F \in Seq(Nat)
      BY <1>3 DEF Bytes
    <3>2. offset + size <= n * B
      BY DEF B
    <3>3. n * B \in Nat /\ Len(F) = n * B /\ offset \in Nat /\ size \in Nat
      BY <1>1, <1>3
    <3> HIDE DEF B
    <3> QED BY ONLY <3>1, <3>2, <3>3
  <2>2. /\ e \in Seq(Nat) /\ Len(e) = (offset + size) - (offset + 1) + 1
        /\ \A k \in 1..(offset + size) - (offset + 1) + 1 : e[k] = F[(offset + 1) + k - 1]
    BY ONLY <2>1, SubSeqFacts DEF e
  <2> HIDE DEF e
  <2>3. (offset + size) - (offset + 1) + 1 = size /\ \A k \in 1..size : (offset + 1) + k - 1 = offset + k
    OBVIOUS
  <2> QED BY <2>2, <2>3
<1> HIDE DEF e
<1>9. d = e
  BY <1>5, <1>7, <1>8, EqualSeqs
<1> QED BY <1>9 DEF d, e, F, s

-----------------------------------------------------------------------------
(* What a file reads as.                                                   *)

FileEntries == [kind : {"untyped", "data", "text"}, first : Nat, last : Nat, lastByte : Nat,
                max : Nat, pages : Seq(Nat), indexed : BOOLEAN]

FlatOf(blocks, f) == Concat(Run(blocks, f))
WholeOf(blocks, f) ==
  LET n == (f.last - f.first) * BlockSize - BlockSize + f.lastByte
  IN  IF f.kind = "text" THEN Decode(SubSeq(FlatOf(blocks, f), 2 * BlockSize + 1, n))
      ELSE SubSeq(FlatOf(blocks, f), 1, n)

(* Every read is a slice of the bytes of all: at a multiple of the block's *)
(* size, or of a text, anywhere.                                           *)
ReadsAs(blocks, f, all) ==
  /\ all \in Bytes /\ FileSize(f) = Len(all)
  /\ \A size, offset \in Nat :
       f.kind = "text" \/ offset % BlockSize = 0 =>
         Read(blocks, f, size, offset) =
           IF offset >= Len(all) THEN <<>>
           ELSE SubSeq(all, offset + 1, IF offset + size > Len(all) THEN Len(all) ELSE offset + size)

LEMMA ReplacedIs ==
  ASSUME NEW f \in FileEntries, NEW s, NEW g, g = [f EXCEPT !.indexed = TRUE, !.pages = s]
  PROVE  g = [kind |-> f.kind, first |-> f.first, last |-> f.last, lastByte |-> f.lastByte,
              max |-> f.max, pages |-> s, indexed |-> TRUE]
  BY DEF FileEntries

LEMMA IndexedIs ==
  ASSUME NEW blocks, NEW f \in FileEntries, ~f.indexed
  PROVE  LET i == Indexed(blocks, f)
         IN  /\ i.kind = f.kind /\ i.first = f.first /\ i.last = f.last /\ i.lastByte = f.lastByte
             /\ f.kind # "text" => i = f
             /\ f.kind = "text" => i.pages = [p \in 1..PageCount(f) |->
                                                Len(TextDecodePage(blocks, f, f.first + 2 * p))]
<1> DEFINE s == [p \in 1..PageCount(f) |-> Len(TextDecodePage(blocks, f, f.first + 2 * p))]
<1>1. CASE f.kind # "text"
  BY <1>1 DEF Indexed
<1>2. CASE f.kind = "text"
  <2>1. Indexed(blocks, f) = [f EXCEPT !.indexed = TRUE, !.pages = s]
    BY <1>2 DEF Indexed, TextInit
  <2> HIDE DEF s
  <2>2. [f EXCEPT !.indexed = TRUE, !.pages = s] =
          [kind |-> f.kind, first |-> f.first, last |-> f.last, lastByte |-> f.lastByte,
           max |-> f.max, pages |-> s, indexed |-> TRUE]
    <3>1. PICK g : g = [f EXCEPT !.indexed = TRUE, !.pages = s]
      OBVIOUS
    <3>2. g = [kind |-> f.kind, first |-> f.first, last |-> f.last, lastByte |-> f.lastByte,
               max |-> f.max, pages |-> s, indexed |-> TRUE]
      BY <3>1, ReplacedIs
    <3> QED BY <3>1, <3>2, Zenon
  <2>3. PICK i : i = Indexed(blocks, f)
    OBVIOUS
  <2>4. i = [kind |-> f.kind, first |-> f.first, last |-> f.last, lastByte |-> f.lastByte,
             max |-> f.max, pages |-> s, indexed |-> TRUE]
    BY <2>1, <2>2, <2>3, Zenon
  <2>5. /\ i.kind = f.kind /\ i.first = f.first /\ i.last = f.last /\ i.lastByte = f.lastByte
        /\ i.pages = s
    BY <2>4
  <2> QED BY <1>2, <2>3, <2>5 DEF s
<1> QED BY <1>1, <1>2

LEMMA EmptyBytes == <<>> \in Bytes /\ Len(<<>>) = 0 /\ \A n \in Nat : SubSeq(<<>>, n + 1, n) = <<>>
<1>1. \A n \in Nat : n + 1 \in Int /\ n \in Int /\ n < n + 1
  OBVIOUS
<1> QED BY <1>1, EmptyPage, SubSeqEmpty DEF GoodPage

(* A file of data, or one put has not typed yet.                           *)
LEMMA DataReadsAs ==
  ASSUME NEW blocks, NEW f, f.first \in Nat, f.last \in Nat, f.lastByte \in Nat,
         f.kind # "text", f.last > f.first, f.lastByte <= BlockSize,
         \A b \in f.first..f.last-1 : blocks[b] \in Block
  PROVE  /\ ReadsAs(blocks, f, WholeOf(blocks, f))
         /\ FlatOf(blocks, f) \in Bytes /\ Len(FlatOf(blocks, f)) = (f.last - f.first) * BlockSize
<1> DEFINE n == f.last - f.first
           F == FlatOf(blocks, f)
           m == (f.last - f.first) * BlockSize - BlockSize + f.lastByte
           W == WholeOf(blocks, f)
           B == BlockSize
<1>1. /\ f.first \in Nat /\ n \in Nat /\ n >= 1 /\ f.last = f.first + n
      /\ f.lastByte \in Nat /\ f.lastByte <= B /\ B \in Nat \ {0} /\ n * B \in Nat /\ n * B >= B
  <2>1. f.first \in Nat /\ f.last \in Nat /\ f.lastByte \in Nat /\ n >= 1
    <3>1. f.first \in Nat /\ f.last \in Nat /\ f.lastByte \in Nat
      OBVIOUS
    <3>2. f.last > f.first
      OBVIOUS
    <3> QED BY ONLY <3>1, <3>2
  <2>2. B \in Nat \ {0} /\ n \in Nat /\ 1 \in Nat
    BY <2>1, PageSizeIs
  <2>3. n * B \in Nat /\ 1 * B <= n * B /\ 1 * B = B
    BY <2>1, <2>2, Products
  <2> QED BY <2>1, <2>2, <2>3
<1>2. \A i \in 0..n-1 : blocks[f.first + i] \in Block
  <2> TAKE i \in 0..n-1
  <2>1. f.first + i \in f.first..f.last-1
    BY <1>1
  <2> QED BY <2>1
<1> DEFINE s == Run(blocks, f)
<1>3. s \in Seq(Bytes) /\ Len(s) = n /\ \A i \in 1..Len(s) : Len(s[i]) = B
  <2>1. /\ s \in Seq(Bytes) /\ Len(s) = n /\ \A i \in 1..n : Len(s[i]) = B
    BY ONLY <1>1, <1>2, RunIs
  <2> QED BY <2>1
<1>4. F \in Bytes /\ Len(F) = n * B
  <2> HIDE DEF s
  <2>1. Concat(s) \in Bytes /\ Len(Concat(s)) = Len(s) * B
    BY <1>1, <1>3, ConcatEven
  <2> QED BY <1>3, <2>1 DEF FlatOf, s
<1>5. W = SubSeq(F, 1, m) /\ FileSize(f) = m /\ m = (n * B) - B + f.lastByte
  BY DEF WholeOf, FileSize, DataFileSize
<1>6. m \in 0..n*B
  <2> HIDE DEF n, B
  <2> QED BY <1>1, <1>5, SMTT(30)
<1> HIDE DEF W, F, m, s, n, B
<1>7. W \in Bytes /\ Len(W) = m /\ \A i \in 1..m : W[i] = F[i]
  <2>1. F \in Seq(Nat) /\ 1 \in 1..Len(F) + 1 /\ m \in 1 - 1 .. Len(F)
    BY <1>1, <1>4, <1>6 DEF Bytes
  <2>2. /\ SubSeq(F, 1, m) \in Seq(Nat) /\ Len(SubSeq(F, 1, m)) = m - 1 + 1
        /\ \A i \in 1..m - 1 + 1 : SubSeq(F, 1, m)[i] = F[1 + i - 1]
    BY <2>1, SubSeqFacts
  <2>3. m - 1 + 1 = m /\ \A i \in 1..m : 1 + i - 1 = i
    BY <1>1, <1>6
  <2> QED BY <1>5, <2>2, <2>3 DEF Bytes
<1>8. ASSUME NEW size \in Nat, NEW offset \in Nat, offset % BlockSize = 0
      PROVE  Read(blocks, f, size, offset) =
               IF offset >= m THEN <<>>
               ELSE SubSeq(W, offset + 1, IF offset + size > m THEN m ELSE offset + size)
  <2>1. CASE offset >= m
    BY <1>5, <2>1 DEF Read
  <2>2. CASE ~(offset >= m)
    <3> DEFINE count == IF offset + size > m THEN m - offset ELSE size
    <3>1. Read(blocks, f, size, offset) = DataRead(blocks, f, count, offset)
      BY <1>5, <2>2 DEF Read
    <3>2. /\ count \in Nat /\ offset + count <= m
          /\ (IF offset + size > m THEN m ELSE offset + size) = offset + count
      BY <1>1, <1>6, <2>2
    <3> HIDE DEF count
    <3>3. offset + count <= n * B
      BY <1>1, <1>6, <3>2
    <3>4. DataRead(blocks, f, count, offset) = SubSeq(F, offset + 1, offset + count)
      <4>1. /\ InBlocks(blocks, f, n) /\ offset \in Nat
            /\ offset % BlockSize = 0 /\ count \in Nat /\ offset + count <= n * BlockSize
        BY <1>1, <1>2, <1>8, <3>2, <3>3 DEF B, InBlocks
      <4>2. DataRead(blocks, f, count, offset) =
              SubSeq(Concat(Run(blocks, f)), offset + 1, offset + count)
        BY ONLY <4>1, DataReadIs
      <4> QED BY <4>2 DEF F, FlatOf
    <3>5. SubSeq(F, offset + 1, offset + count) = SubSeq(W, offset + 1, offset + count)
      <4> DEFINE a == SubSeq(F, offset + 1, offset + count)
                 b == SubSeq(W, offset + 1, offset + count)
      <4>1. /\ F \in Seq(Nat) /\ W \in Seq(Nat)
            /\ offset + 1 \in 1..Len(F) + 1 /\ offset + count \in (offset + 1) - 1 .. Len(F)
            /\ offset + 1 \in 1..Len(W) + 1 /\ offset + count \in (offset + 1) - 1 .. Len(W)
        BY <1>1, <1>4, <1>6, <1>7, <3>2, <3>3 DEF Bytes
      <4>2. (offset + count) - (offset + 1) + 1 = count
        BY <3>2
      <4>3. /\ a \in Seq(Nat) /\ Len(a) = (offset + count) - (offset + 1) + 1
            /\ \A i \in 1..(offset + count) - (offset + 1) + 1 : a[i] = F[(offset + 1) + i - 1]
        BY <4>1, SubSeqFacts
      <4>4. /\ b \in Seq(Nat) /\ Len(b) = (offset + count) - (offset + 1) + 1
            /\ \A i \in 1..(offset + count) - (offset + 1) + 1 : b[i] = W[(offset + 1) + i - 1]
        BY <4>1, SubSeqFacts
      <4>5. \A i \in 1..count : (offset + 1) + i - 1 \in 1..m
        BY <1>6, <3>2
      <4> HIDE DEF a, b
      <4>6. \A i \in 1..count : a[i] = b[i]
        BY <1>7, <4>2, <4>3, <4>4, <4>5
      <4>7. a = b
        <5>1. a \in Seq(Nat) /\ b \in Seq(Nat) /\ Len(a) = Len(b) /\ Len(a) = count
          BY <4>2, <4>3, <4>4
        <5> QED BY ONLY <4>6, <5>1, EqualSeqs
      <4> QED BY <4>7 DEF a, b
    <3> QED BY <2>2, <3>1, <3>2, <3>4, <3>5
  <2> QED BY <2>1, <2>2
<1>9. ReadsAs(blocks, f, W)
  <2>1. W \in Bytes /\ FileSize(f) = Len(W) /\ f.kind # "text"
    BY <1>5, <1>7
  <2>2. \A size, offset \in Nat :
          offset % BlockSize = 0 =>
            Read(blocks, f, size, offset) =
              IF offset >= Len(W) THEN <<>>
              ELSE SubSeq(W, offset + 1, IF offset + size > Len(W) THEN Len(W) ELSE offset + size)
    BY <1>7, <1>8
  <2> QED BY <2>1, <2>2, Zenon DEF ReadsAs
<1> QED BY <1>4, <1>9 DEF W, F, n, B

LEMMA DataReads ==
  ASSUME NEW blocks, NEW f \in FileEntries, f.kind # "text", f.last > f.first,
         f.lastByte <= BlockSize,
         \A b \in f.first..f.last-1 : blocks[b] \in Block
  PROVE  /\ ReadsAs(blocks, f, WholeOf(blocks, f))
         /\ FlatOf(blocks, f) \in Bytes /\ Len(FlatOf(blocks, f)) = (f.last - f.first) * BlockSize
<1>1. f.first \in Nat /\ f.last \in Nat /\ f.lastByte \in Nat
  BY DEF FileEntries
<1> QED BY <1>1, DataReadsAs

(* A text of indexed pages.                                                *)
LEMMA IndexedReads ==
  ASSUME NEW blocks, NEW f, f.kind = "text", NEW d, Indexes(blocks, f, d)
  PROVE  ReadsAs(blocks, f, Concat(d))
<1> DEFINE W == Concat(d)
           m == Len(W)
<1>1. d \in Seq(Bytes) /\ f.pages \in Seq(Nat) /\ Len(f.pages) = Len(d)
  BY DEF Indexes
<1>2. W \in Bytes /\ m \in Nat
  <2>1. W \in Bytes
    BY <1>1, ConcatBytes
  <2> HIDE DEF W
  <2> QED BY <2>1 DEF Bytes
<1>3. FileSize(f) = m
  <2>1. PICK g : InputHeads(g, d) /\ Concat(d) = g[Len(d)]
    BY <1>1, ConcatIs
  <2>2. Len(d) \in 0..Len(d)
    BY <1>1
  <2>3. PageEnd(f)[Len(d)] = Len(g[Len(d)])
    BY <2>1, <2>2, PageEndLen
  <2> QED BY <1>1, <2>1, <2>3 DEF FileSize
<1> HIDE DEF W, m
<1>4. ASSUME NEW size \in Nat, NEW offset \in Nat
      PROVE  Read(blocks, f, size, offset) =
               IF offset >= m THEN <<>>
               ELSE SubSeq(W, offset + 1, IF offset + size > m THEN m ELSE offset + size)
  <2>1. CASE offset >= m
    BY <1>3, <2>1 DEF Read
  <2>2. CASE ~(offset >= m)
    <3> DEFINE count == IF offset + size > m THEN m - offset ELSE size
    <3>1. Read(blocks, f, size, offset) = TextRead(blocks, f, count, offset)
      BY <1>3, <2>2 DEF Read
    <3>2. /\ offset \in 0..m-1 /\ count \in 0..m-offset
          /\ (IF offset + size > m THEN m ELSE offset + size) = offset + count
      BY <1>2, <2>2
    <3> HIDE DEF count
    <3>3. TextRead(blocks, f, count, offset) = SubSeq(W, offset + 1, offset + count)
      <4>1. offset \in 0..Len(Concat(d))-1 /\ count \in 0..Len(Concat(d))-offset
        BY <3>2 DEF m, W
      <4>2. TextRead(blocks, f, count, offset) = SubSeq(Concat(d), offset + 1, offset + count)
        BY ONLY <4>1, Indexes(blocks, f, d), TextReadIs
      <4> QED BY <4>2 DEF W
    <3> QED BY <2>2, <3>1, <3>2, <3>3
  <2> QED BY <2>1, <2>2
<1>5. \A size, offset \in Nat :
        Read(blocks, f, size, offset) =
          IF offset >= Len(W) THEN <<>>
          ELSE SubSeq(W, offset + 1, IF offset + size > Len(W) THEN Len(W) ELSE offset + size)
  BY <1>4 DEF m
<1>6. ReadsAs(blocks, f, W)
  BY <1>2, <1>3, <1>5 DEF ReadsAs, m
<1> QED BY <1>6 DEF W

(* The pages fileSize() has cached are those the blocks decode to.         *)
LEMMA TextIndexedAs ==
  ASSUME NEW blocks, NEW f, NEW i, Raws(blocks, f) \in Seq(Bytes),
         i.first = f.first, i.last = f.last, i.lastByte = f.lastByte,
         i.pages = [p \in 1..PageCount(f) |-> Len(TextDecodePage(blocks, f, f.first + 2 * p))]
  PROVE  Indexes(blocks, i, Decoded(Raws(blocks, f)))
<1>2. PICK r : r = Raws(blocks, f)
  OBVIOUS
<1>3. PICK d : d = Decoded(r)
  OBVIOUS
<1>4. /\ i.first = f.first /\ i.last = f.last /\ i.lastByte = f.lastByte
      /\ i.pages = [p \in 1..PageCount(f) |-> Len(TextDecodePage(blocks, f, f.first + 2 * p))]
  OBVIOUS
<1>5. r \in Seq(Bytes) /\ r = [p \in 1..PageCount(f) |-> TextReadPage(blocks, f, f.first + 2 * p)]
  BY <1>2 DEF Raws
<1>6. Len(r) \in Nat /\ 1..Len(r) = 1..PageCount(f) /\ DOMAIN r = 1..Len(r)
  <2>1. DOMAIN r = 1..PageCount(f) /\ DOMAIN r = 1..Len(r) /\ Len(r) \in Nat
    <3> HIDE DEF Bytes
    <3> QED BY <1>5, LenProperties
  <2> QED BY <2>1
<1>7. d \in Seq(Bytes) /\ Len(d) = Len(r) /\ \A p \in 1..Len(r) : d[p] = Decode(r[p])
  BY <1>3, <1>5, DecodedIs
<1>8. \A p \in 1..Len(r) : /\ TextDecodePage(blocks, f, f.first + 2 * p) = d[p]
                           /\ Len(d[p]) \in Nat
  <2> TAKE p \in 1..Len(r)
  <2>1. r[p] = TextReadPage(blocks, f, f.first + 2 * p)
    BY <1>5, <1>6
  <2>2. d[p] \in Bytes
    <3> HIDE DEF Bytes
    <3> QED BY <1>7, ElementOfSeq
  <2>3. Len(d[p]) \in Nat
    BY <2>2 DEF Bytes
  <2> QED BY <1>7, <2>1, <2>3 DEF TextDecodePage
<1>9. \A p \in 1..Len(r) : TextDecodePage(blocks, i, i.first + 2 * p) = d[p]
  BY <1>4, <1>8 DEF TextDecodePage, TextReadPage
<1>10. i.pages \in [1..Len(r) -> Nat] /\ \A p \in 1..Len(r) : i.pages[p] = Len(d[p])
  BY <1>4, <1>6, <1>8
<1>11. i.pages \in Seq(Nat) /\ Len(i.pages) = Len(r)
  <2>1. Len(r) \in Nat /\ i.pages \in [1..Len(r) -> Nat]
    BY <1>6, <1>10
  <2> QED BY ONLY <2>1, FunctionSeq
<1>12. Indexes(blocks, i, d)
  BY <1>7, <1>9, <1>10, <1>11 DEF Indexes
<1> QED BY <1>2, <1>3, <1>12

LEMMA TextIndexed ==
  ASSUME NEW blocks, NEW f \in FileEntries, f.kind = "text", ~f.indexed,
         Raws(blocks, f) \in Seq(Bytes)
  PROVE  Indexes(blocks, Indexed(blocks, f), Decoded(Raws(blocks, f)))
<1>1. PICK i : i = Indexed(blocks, f)
  OBVIOUS
<1>2. /\ i.first = f.first /\ i.last = f.last /\ i.lastByte = f.lastByte
      /\ i.pages = [p \in 1..PageCount(f) |-> Len(TextDecodePage(blocks, f, f.first + 2 * p))]
  BY <1>1, IndexedIs
<1>3. Indexes(blocks, i, Decoded(Raws(blocks, f)))
  BY <1>2, TextIndexedAs
<1> QED BY <1>1, <1>3

(* A text of put reads as what its writer was given, and what the block    *)
(* after it decodes to.                                                    *)
LEMMA TextReads ==
  ASSUME NEW blocks, NEW f \in FileEntries, f.kind = "text", ~f.indexed,
         NEW w, NEW n, Laid(blocks, f, w, n)
  PROVE  LET i == Indexed(blocks, f)
         IN  /\ ReadsAs(blocks, i, WholeOf(blocks, i))
             /\ WholeOf(blocks, i) = Decode(RawText(w)) \o Decode(blocks[f.first + n])
<1>1. PICK i : i = Indexed(blocks, f)
  OBVIOUS
<1>2. PICK r : r = Raws(blocks, f)
  OBVIOUS
<1>3. /\ r \in Seq(Bytes) /\ \A p \in 1..Len(r)-1 : Clean(r[p])
      /\ Concat(Run(blocks, f)) = Zeros(PageSize) \o Concat(r)
      /\ Len(Concat(Run(blocks, f))) = (n + 1) * BlockSize
      /\ Decode(Concat(r)) = Decode(RawText(w)) \o Decode(blocks[f.first + n])
  BY <1>2, TextLayout
<1>4. Indexes(blocks, i, Decoded(r))
  BY <1>1, <1>2, <1>3, TextIndexed
<1>5. /\ i.kind = "text" /\ i.first = f.first /\ i.last = f.last /\ i.lastByte = f.lastByte
  BY <1>1, IndexedIs
<1>6. ReadsAs(blocks, i, Concat(Decoded(r)))
  BY <1>4, <1>5, IndexedReads
<1>7. Decode(Concat(r)) = Concat(Decoded(r))
  BY <1>3, DecodePages
<1>8. FlatOf(blocks, i) = Zeros(PageSize) \o Concat(r)
  BY <1>3, <1>5 DEF FlatOf, Run
<1>9. (i.last - i.first) * BlockSize - BlockSize + i.lastByte = Len(FlatOf(blocks, i))
  <2>1. n \in Nat /\ f.first \in Nat /\ f.last = f.first + (n + 1) /\ f.lastByte = BlockSize
    BY LaidBlocks DEF Laid
  <2>2. i.last - i.first = n + 1
    BY <1>5, <2>1
  <2>3. (n + 1) * BlockSize \in Nat /\ BlockSize \in Nat
    BY <2>1, Products, PageSizeIs
  <2>4. (n + 1) * BlockSize - BlockSize + BlockSize = (n + 1) * BlockSize
    BY ONLY <2>3
  <2>5. Len(FlatOf(blocks, i)) = (n + 1) * BlockSize
    BY <1>3, <1>8
  <2> QED BY <1>5, <2>1, <2>2, <2>4, <2>5
<1>10. WholeOf(blocks, i) = Decode(SubSeq(FlatOf(blocks, i), 2 * BlockSize + 1, Len(FlatOf(blocks, i))))
  BY <1>5, <1>9 DEF WholeOf
<1>11. SubSeq(FlatOf(blocks, i), 2 * BlockSize + 1, Len(FlatOf(blocks, i))) = Concat(r)
  <2>1. Concat(r) \in Bytes
    BY <1>3, ConcatBytes
  <2>2. PICK z : z = Zeros(PageSize) /\ z \in Bytes /\ Len(z) = 2 * BlockSize
    BY PageSizeIs, ZerosIs DEF PageSize
  <2>3. Drop(z \o Concat(r), Len(z)) = Concat(r)
    BY <2>1, <2>2, DropAll
  <2> QED BY <1>8, <2>2, <2>3 DEF Drop
<1>12. WholeOf(blocks, i) = Concat(Decoded(r))
  BY <1>7, <1>10, <1>11
<1> QED BY <1>1, <1>3, <1>6, <1>7, <1>12

(* A text that put has not written to yet has a block and no bytes.        *)
LEMMA EmptyTextReads ==
  ASSUME NEW blocks, NEW f \in FileEntries, f.kind = "text", ~f.indexed,
         f.last = f.first + 1, f.lastByte = 0, blocks[f.first] \in Block
  PROVE  LET i == Indexed(blocks, f)
         IN  ReadsAs(blocks, i, WholeOf(blocks, i)) /\ WholeOf(blocks, i) = <<>>
<1>1. PICK i : i = Indexed(blocks, f)
  OBVIOUS
<1>2. /\ f.first \in Nat /\ BlockSize \in Nat \ {0}
  BY PageSizeIs DEF FileEntries
<1>3. PageCount(f) = 0
  <2>1. 0 \in Nat /\ f.last = f.first + (2 * 0 + 1)
    BY <1>2
  <2> QED BY <1>2, <2>1, PageCountIs
<1>4. Raws(blocks, f) \in Seq(Bytes) /\ Raws(blocks, f) = <<>>
  <2>1. Raws(blocks, f) = <<>>
    BY <1>3 DEF Raws
  <2> HIDE DEF Bytes
  <2> QED BY <2>1, EmptySeq
<1>5. Decoded(<<>>) = <<>> /\ Concat(<<>>) = <<>>
  <2>1. Decoded(<<>>) = <<>>
    BY DEF Decoded
  <2>2. <<>> \in Seq(Bytes) /\ Len(<<>>) = 0
    <3> HIDE DEF Bytes
    <3> QED BY EmptySeq
  <2>3. PICK g : InputHeads(g, <<>>) /\ Concat(<<>>) = g[Len(<<>>)]
    BY <2>2, ConcatIs
  <2>4. g[0] = <<>>
    BY <2>3 DEF InputHeads
  <2> QED BY <2>1, <2>2, <2>3, <2>4
<1>6. i.kind = "text" /\ i.first = f.first /\ i.last = f.last /\ i.lastByte = f.lastByte
  BY <1>1, IndexedIs
<1>7. ReadsAs(blocks, i, <<>>)
  <2>1. Indexes(blocks, i, Decoded(Raws(blocks, f)))
    BY <1>1, <1>4, TextIndexed
  <2>2. Indexes(blocks, i, <<>>)
    BY <1>4, <1>5, <2>1
  <2> QED BY <1>5, <1>6, <2>2, IndexedReads
<1>8. WholeOf(blocks, i) = <<>>
  <2>1. (i.last - i.first) * BlockSize - BlockSize + i.lastByte = 0
    <3>1. i.last - i.first = 1
      BY <1>2, <1>6
    <3>2. 1 * BlockSize - BlockSize + 0 = 0
      BY <1>2
    <3> QED BY <1>6, <3>1, <3>2
  <2>2. PICK F : F = FlatOf(blocks, i)
    OBVIOUS
  <2>3. SubSeq(F, 2 * BlockSize + 1, 0) = <<>>
    <3>1. 2 * BlockSize + 1 \in Int /\ 0 \in Int /\ 0 < 2 * BlockSize + 1
      BY <1>2
    <3>2. F \in Seq(Nat)
      <4>1. InBlocks(blocks, i, 1)
        BY <1>2, <1>6 DEF InBlocks
      <4>2. i.first \in Nat /\ 1 \in Nat /\ i.last = i.first + 1 /\ \A k \in 0..1-1 : blocks[i.first + k] \in Block
        BY <4>1 DEF InBlocks
      <4>3. Run(blocks, i) \in Seq(Bytes)
        BY <4>2, RunIs
      <4> QED BY <2>2, <4>3, ConcatBytes DEF FlatOf, Bytes
    <3> QED BY <3>1, <3>2, SubSeqEmpty
  <2>4. WholeOf(blocks, i) = Decode(SubSeq(F, 2 * BlockSize + 1, 0))
    BY <1>6, <2>1, <2>2 DEF WholeOf
  <2> QED BY <2>3, <2>4, CleanEmpty
<1> QED BY <1>1, <1>7, <1>8

-----------------------------------------------------------------------------
(* A text of any origin.                                                   *)

(* The byte of the file's blocks at each place.                            *)
LEMMA RunBytes ==
  ASSUME NEW blocks, NEW f, NEW n, InBlocks(blocks, f, n)
  PROVE  /\ FlatOf(blocks, f) \in Bytes /\ Len(FlatOf(blocks, f)) = n * BlockSize
         /\ \A k \in 0..n-1, j \in 1..BlockSize :
              FlatOf(blocks, f)[k * BlockSize + j] = blocks[f.first + k][j]
<1>1. /\ f.first \in Nat /\ n \in Nat /\ f.last = f.first + n
      /\ \A i \in 0..n-1 : blocks[f.first + i] \in Block
  BY DEF InBlocks
<1>2. PICK s : s = Run(blocks, f)
  OBVIOUS
<1>3. /\ s \in Seq(Bytes) /\ Len(s) = n /\ \A i \in 0..n-1 : s[i + 1] = blocks[f.first + i]
      /\ \A i \in 1..Len(s) : Len(s[i]) = BlockSize
  <2>1. /\ s \in Seq(Bytes) /\ Len(s) = n /\ \A i \in 0..n-1 : s[i + 1] = blocks[f.first + i]
        /\ \A i \in 1..n : Len(s[i]) = BlockSize
    BY ONLY <1>1, <1>2, RunIs
  <2> QED BY <2>1
<1>4. BlockSize \in Nat
  BY PageSizeIs
<1>5. /\ Concat(s) \in Bytes /\ Len(Concat(s)) = Len(s) * BlockSize
      /\ \A k \in 0..Len(s)-1, j \in 1..BlockSize :
           Concat(s)[k * BlockSize + j] = s[k + 1][j]
  BY <1>3, <1>4, ConcatEven
<1> QED BY <1>2, <1>3, <1>5 DEF FlatOf

(* A page of two blocks.                                                   *)
LEMMA PairIs ==
  ASSUME NEW x \in Block, NEW y \in Block
  PROVE  /\ x \o y \in Bytes /\ Len(x \o y) = PageSize
         /\ \A j \in 1..BlockSize : (x \o y)[j] = x[j] /\ (x \o y)[BlockSize + j] = y[j]
<1>1. x \in Bytes /\ y \in Bytes /\ Len(x) = BlockSize /\ Len(y) = BlockSize
  BY BlockBytes
<1>2. PICK z : z = x \o y
  OBVIOUS
<1>3. /\ z \in Bytes /\ Len(z) = BlockSize + BlockSize
      /\ \A j \in 1..BlockSize : z[j] = x[j] /\ z[BlockSize + j] = y[j]
  <2>1. /\ z \in Bytes /\ Len(z) = Len(x) + Len(y)
        /\ \A j \in 1..Len(x) : z[j] = x[j]
        /\ \A j \in 1..Len(y) : z[Len(x) + j] = y[j]
    BY <1>1, <1>2, Joined, Zenon
  <2> QED BY <1>1, <2>1, Zenon
<1>4. PageSize = BlockSize + BlockSize
  BY PageSizeIs
<1> QED BY <1>2, <1>3, <1>4

(* The beginning of a block.                                               *)
LEMMA CutIs ==
  ASSUME NEW x \in Block, NEW m \in 0..BlockSize
  PROVE  /\ SubSeq(x, 1, m) \in Bytes /\ Len(SubSeq(x, 1, m)) = m
         /\ \A j \in 1..m : SubSeq(x, 1, m)[j] = x[j]
<1>1. x \in Seq(Nat) /\ Len(x) = BlockSize /\ BlockSize \in Nat
  BY BlockBytes, PageSizeIs DEF Bytes
<1>2. 1 \in 1..Len(x) + 1 /\ m \in 1 - 1 .. Len(x) /\ m - 1 + 1 = m
  BY <1>1
<1>3. /\ SubSeq(x, 1, m) \in Seq(Nat) /\ Len(SubSeq(x, 1, m)) = m - 1 + 1
      /\ \A i \in 1..m - 1 + 1 : SubSeq(x, 1, m)[i] = x[1 + i - 1]
  BY <1>1, <1>2, SubSeqFacts
<1>4. \A i \in 1..m : 1 + i - 1 = i
  OBVIOUS
<1> QED BY <1>2, <1>3, <1>4 DEF Bytes

(* The pages of a text as they are read: k - 1 whole ones, and one that    *)
(* ends where the file does.                                               *)
LastPage(blocks, f, k, half) ==
  IF half THEN SubSeq(blocks[f.first + 2 * k], 1, f.lastByte)
  ELSE blocks[f.first + 2 * k] \o SubSeq(blocks[f.first + (2 * k + 1)], 1, f.lastByte)

FullPages(blocks, f, k) ==
  [p \in 1..k |-> blocks[f.first + 2 * p] \o blocks[f.first + (2 * p + 1)]]

LEMMA RawsAre ==
  ASSUME NEW blocks, NEW f, NEW n, InBlocks(blocks, f, n), f.lastByte \in 0..BlockSize,
         NEW k \in Nat, k >= 1, NEW half \in BOOLEAN,
         n = IF half THEN 2 * k + 1 ELSE 2 * k + 2
  PROVE  /\ FullPages(blocks, f, k - 1) \in Seq(Bytes) /\ Len(FullPages(blocks, f, k - 1)) = k - 1
         /\ \A p \in 1..k-1 : /\ blocks[f.first + 2 * p] \in Block
                              /\ blocks[f.first + (2 * p + 1)] \in Block
                              /\ Len(FullPages(blocks, f, k - 1)[p]) = PageSize
         /\ LastPage(blocks, f, k, half) \in Bytes
         /\ Raws(blocks, f) = Append(FullPages(blocks, f, k - 1), LastPage(blocks, f, k, half))
<1>1. /\ f.first \in Nat /\ n \in Nat /\ f.last = f.first + n
      /\ \A i \in 0..n-1 : blocks[f.first + i] \in Block
  BY DEF InBlocks
<1>2. \A p \in 1..k : 2 * p \in 0..n-1 /\ (p < k \/ ~half => 2 * p + 1 \in 0..n-1)
  OBVIOUS
<1>3. \A p \in 1..k-1 : blocks[f.first + 2 * p] \in Block /\ blocks[f.first + (2 * p + 1)] \in Block
  <2> TAKE p \in 1..k-1
  <2>1. p \in 1..k /\ p < k
    OBVIOUS
  <2>2. 2 * p \in 0..n-1 /\ 2 * p + 1 \in 0..n-1
    BY <1>2, <2>1
  <2> QED BY <1>1, <2>2
<1> DEFINE full == FullPages(blocks, f, k - 1)
           l == LastPage(blocks, f, k, half)
           r == Raws(blocks, f)
<1>4. full \in Seq(Bytes) /\ Len(full) = k - 1 /\ \A p \in 1..k-1 : Len(full[p]) = PageSize
  <2>1. \A p \in 1..k-1 : /\ blocks[f.first + 2 * p] \o blocks[f.first + (2 * p + 1)] \in Bytes
                          /\ Len(blocks[f.first + 2 * p] \o blocks[f.first + (2 * p + 1)]) = PageSize
    BY <1>3, PairIs
  <2>2. full \in [1..k-1 -> Bytes] /\ \A p \in 1..k-1 : Len(full[p]) = PageSize
    BY <2>1 DEF FullPages
  <2>3. k - 1 \in Nat
    OBVIOUS
  <2> HIDE DEF full, Bytes
  <2> QED BY <2>2, <2>3, FunctionSeq
<1>5. l \in Bytes
  <2>1. blocks[f.first + 2 * k] \in Block /\ (~half => blocks[f.first + (2 * k + 1)] \in Block)
    <3>1. k \in 1..k
      OBVIOUS
    <3> QED BY <1>1, <1>2, <3>1
  <2>2. CASE half
    BY <2>1, <2>2, CutIs DEF LastPage
  <2>3. CASE ~half
    <3>1. SubSeq(blocks[f.first + (2 * k + 1)], 1, f.lastByte) \in Bytes
      BY <2>1, <2>3, CutIs
    <3>2. blocks[f.first + 2 * k] \in Bytes
      BY <2>1, BlockBytes
    <3> QED BY <2>3, <3>1, <3>2, Joined DEF LastPage
  <2> QED BY <2>2, <2>3
<1>6. r = [p \in 1..k |-> TextReadPage(blocks, f, f.first + 2 * p)]
  <2>1. f.last = f.first + (2 * k + 1) \/ f.last = f.first + (2 * k + 2)
    BY <1>1
  <2>2. PageCount(f) = k
    BY <1>1, <2>1, PageCountIs
  <2> QED BY <2>2 DEF Raws
<1>7. ASSUME NEW p \in 1..k-1 PROVE r[p] = full[p]
  <2>1. /\ (f.first + 2 * p) + 1 # f.last /\ (f.first + 2 * p) + 2 # f.last
        /\ (f.first + 2 * p) + 1 = f.first + (2 * p + 1)
    BY <1>1
  <2>2. r[p] = TextReadPage(blocks, f, f.first + 2 * p)
    BY <1>6
  <2>3. full[p] = blocks[f.first + 2 * p] \o blocks[f.first + (2 * p + 1)]
    BY DEF FullPages
  <2> QED BY <2>1, <2>2, <2>3 DEF TextReadPage
<1>8. r[k] = l
  <2>1. r[k] = TextReadPage(blocks, f, f.first + 2 * k)
    BY <1>6
  <2>2. (f.first + 2 * k) + 1 = f.first + (2 * k + 1)
    BY <1>1
  <2>3. CASE half
    <3>1. (f.first + 2 * k) + 1 = f.last
      BY <1>1, <2>3
    <3> QED BY <2>1, <2>3, <3>1 DEF TextReadPage, LastPage
  <2>4. CASE ~half
    <3>1. (f.first + 2 * k) + 1 # f.last /\ (f.first + 2 * k) + 2 = f.last
      BY <1>1, <2>4
    <3> QED BY <2>1, <2>2, <2>4, <3>1 DEF TextReadPage, LastPage
  <2> QED BY <2>3, <2>4
<1> HIDE DEF full, l
<1>9. r = Append(full, l)
  <2>1. r = [p \in 1..k |-> r[p]]
    BY <1>6
  <2> HIDE DEF r, Bytes
  <2>2. /\ Append(full, l) \in Seq(Bytes) /\ Len(Append(full, l)) = k
        /\ \A p \in 1..k-1 : Append(full, l)[p] = full[p]
        /\ Append(full, l)[k] = l
    BY <1>4, <1>5
  <2>3. \A p \in 1..k : r[p] = Append(full, l)[p]
    BY <1>7, <1>8, <2>2
  <2>4. Append(full, l) = [p \in 1..k |-> Append(full, l)[p]]
    <3>1. Append(full, l) \in [1..Len(Append(full, l)) -> Bytes]
      BY <2>2, LenProperties
    <3>2. Append(full, l) \in [1..k -> Bytes]
      BY <2>2, <3>1
    <3> QED BY <3>2
  <2> QED BY <2>1, <2>3, <2>4, Zenon
<1> QED BY <1>3, <1>4, <1>5, <1>9 DEF full, l

LEMMA PagesTwice ==
  ASSUME NEW c \in Nat
  PROVE  /\ c * PageSize \in Nat /\ c * PageSize = (2 * c) * BlockSize
         /\ (2 * c + 1) * BlockSize = c * PageSize + BlockSize
         /\ (c + 1) * PageSize = c * PageSize + PageSize
<1>1. PICK b : b = BlockSize /\ b \in Nat
  BY PageSizeIs
<1>2. PICK p : p = PageSize /\ p \in Nat /\ p = 2 * b
  BY <1>1, PageSizeIs DEF PageSize
<1>3. c * p = (2 * c) * b /\ c * p \in Nat
  BY ONLY c \in Nat, <1>1, <1>2
<1>4. (2 * c + 1) * b = (2 * c) * b + b
  BY ONLY c \in Nat, <1>1, Products
<1>5. (c + 1) * p = c * p + p
  BY ONLY c \in Nat, <1>2, Products
<1> QED BY <1>1, <1>2, <1>3, <1>4, <1>5

LEMMA LastPageIs ==
  ASSUME NEW blocks, NEW f, f.lastByte \in 0..BlockSize, NEW k, NEW half \in BOOLEAN,
         blocks[f.first + 2 * k] \in Block,
         ~half => blocks[f.first + (2 * k + 1)] \in Block
  PROVE  /\ half => /\ Len(LastPage(blocks, f, k, half)) = f.lastByte
                    /\ \A j \in 1..f.lastByte :
                         LastPage(blocks, f, k, half)[j] = blocks[f.first + 2 * k][j]
         /\ ~half => /\ Len(LastPage(blocks, f, k, half)) = BlockSize + f.lastByte
                     /\ \A j \in 1..BlockSize :
                          LastPage(blocks, f, k, half)[j] = blocks[f.first + 2 * k][j]
                     /\ \A j \in 1..f.lastByte :
                          LastPage(blocks, f, k, half)[BlockSize + j]
                            = blocks[f.first + (2 * k + 1)][j]
<1>1. PICK l : l = LastPage(blocks, f, k, half)
  OBVIOUS
<1>2. CASE half
  BY <1>2, CutIs DEF LastPage
<1>3. CASE ~half
  <2>1. PICK x : x = blocks[f.first + 2 * k]
    OBVIOUS
  <2>2. PICK y : y = SubSeq(blocks[f.first + (2 * k + 1)], 1, f.lastByte)
    OBVIOUS
  <2>3. x \in Bytes /\ Len(x) = BlockSize
    BY <2>1, BlockBytes
  <2>4. /\ y \in Bytes /\ Len(y) = f.lastByte
        /\ \A j \in 1..f.lastByte : y[j] = blocks[f.first + (2 * k + 1)][j]
    BY <1>3, <2>2, CutIs
  <2>5. l = x \o y
    BY <1>1, <1>3, <2>1, <2>2 DEF LastPage
  <2>6. /\ Len(l) = Len(x) + Len(y)
        /\ \A i \in 1..Len(x) : l[i] = x[i]
        /\ \A i \in 1..Len(y) : l[Len(x) + i] = y[i]
    BY <2>3, <2>4, <2>5, Joined, Zenon
  <2>7. /\ Len(l) = BlockSize + f.lastByte
        /\ \A j \in 1..BlockSize : l[j] = x[j]
        /\ \A j \in 1..f.lastByte : l[BlockSize + j] = y[j]
    BY <2>3, <2>4, <2>6, Zenon
  <2> QED BY <1>1, <1>3, <2>1, <2>4, <2>7, Zenon
<1> QED BY <1>2, <1>3

(* Where each byte of the pages is in the file's blocks.                   *)
LEMMA RawBytes ==
  ASSUME NEW blocks, NEW f, NEW n, InBlocks(blocks, f, n), f.lastByte \in 0..BlockSize,
         NEW k \in Nat, k >= 1, NEW half \in BOOLEAN,
         n = IF half THEN 2 * k + 1 ELSE 2 * k + 2
  PROVE  /\ Raws(blocks, f) \in Seq(Bytes) /\ Concat(Raws(blocks, f)) \in Bytes
         /\ Len(Concat(Raws(blocks, f))) = (n * BlockSize - BlockSize + f.lastByte) - PageSize
         /\ \A c \in Nat, j \in 1..BlockSize :
              c * BlockSize + j <= Len(Concat(Raws(blocks, f))) =>
                /\ c + 2 \in 0..n-1
                /\ Concat(Raws(blocks, f))[c * BlockSize + j] = blocks[f.first + (c + 2)][j]
<1>1. PICK full : full = FullPages(blocks, f, k - 1)
  OBVIOUS
<1>2. PICK l : l = LastPage(blocks, f, k, half)
  OBVIOUS
<1>3. PICK X : X = Concat(full)
  OBVIOUS
<1>4. PICK Y : Y = Concat(Raws(blocks, f))
  OBVIOUS
<1>5. PICK B : B = BlockSize
  OBVIOUS
<1>6. PICK P : P = PageSize
  OBVIOUS
<1>7. PICK e : e = f.lastByte
  OBVIOUS
<1>8. B \in Nat \ {0} /\ P = B + B /\ P \in Nat /\ e \in 0..B
  BY <1>5, <1>6, <1>7, PageSizeIs
<1>9. /\ full \in Seq(Bytes) /\ Len(full) = k - 1
      /\ \A p \in 1..k-1 : /\ blocks[f.first + 2 * p] \in Block
                           /\ blocks[f.first + (2 * p + 1)] \in Block
                           /\ Len(full[p]) = P
      /\ l \in Bytes /\ Raws(blocks, f) = Append(full, l)
  BY <1>1, <1>2, <1>6, RawsAre
<1>10. Raws(blocks, f) \in Seq(Bytes)
  <2> HIDE DEF Bytes
  <2> QED BY <1>9, AppendProperties
<1>11. /\ f.first \in Nat /\ n \in Nat /\ \A i \in 0..n-1 : blocks[f.first + i] \in Block
  BY DEF InBlocks
<1>12. blocks[f.first + 2 * k] \in Block /\ (~half => blocks[f.first + (2 * k + 1)] \in Block)
  <2>1. 2 * k \in 0..n-1 /\ (~half => 2 * k + 1 \in 0..n-1)
    OBVIOUS
  <2> QED BY <1>11, <2>1
<1>13. /\ half => Len(l) = e /\ \A j \in 1..e : l[j] = blocks[f.first + 2 * k][j]
       /\ ~half => /\ Len(l) = B + e
                   /\ \A j \in 1..B : l[j] = blocks[f.first + 2 * k][j]
                   /\ \A j \in 1..e : l[B + j] = blocks[f.first + (2 * k + 1)][j]
  BY <1>2, <1>5, <1>7, <1>12, LastPageIs, SMTT(30)
<1>14. /\ X \in Bytes /\ Len(X) = (k - 1) * P
       /\ \A c \in 0..k-2, j \in 1..P :
            c * P + j \in 1..(k - 1) * P /\ X[c * P + j] = full[c + 1][j]
  <2>1. \A i \in 1..Len(full) : Len(full[i]) = P
    BY <1>9
  <2>2. /\ X \in Bytes /\ Len(X) = Len(full) * P
        /\ \A c \in 0..Len(full)-1, j \in 1..P :
             c * P + j \in 1..Len(full) * P /\ X[c * P + j] = full[c + 1][j]
    <3>1. full \in Seq(Bytes) /\ P \in Nat
      BY <1>8, <1>9
    <3>2. /\ Concat(full) \in Bytes /\ Len(Concat(full)) = Len(full) * P
          /\ \A c \in 0..Len(full)-1, j \in 1..P :
               c * P + j \in 1..Len(full) * P /\ Concat(full)[c * P + j] = full[c + 1][j]
      BY ONLY <2>1, <3>1, ConcatEven
    <3> QED BY <1>3, <3>2
  <2>3. \A c \in 0..k-2 : c \in 0..Len(full)-1
    BY <1>9
  <2> QED BY <1>9, <2>2, <2>3
<1>15. Y = X \o l
  BY <1>3, <1>4, <1>9, ConcatAppend
<1>16. /\ Y \in Bytes /\ Len(X) \in Nat /\ Len(l) \in Nat /\ Len(Y) = Len(X) + Len(l)
       /\ \A i \in 1..Len(X) : Y[i] = X[i]
       /\ \A i \in 1..Len(l) : Y[Len(X) + i] = l[i]
  BY <1>9, <1>14, <1>15, Joined, Zenon
<1>17. PICK L : L = Len(X)
  OBVIOUS
<1>18. L \in Nat /\ L = (k - 1) * P
  BY <1>14, <1>16, <1>17
<1>19. /\ (2 * k) * B = L + P /\ (2 * k + 1) * B = (L + P) + B
       /\ (2 * k + 2) * B = (L + P) + P
  <2>1. k - 1 \in Nat /\ k + 1 \in Nat /\ (k - 1) + 1 = k /\ 2 * (k + 1) = 2 * k + 2
    OBVIOUS
  <2>2. k * P = (k - 1) * P + P
    BY <1>6, <2>1, PagesTwice
  <2>3. (k + 1) * P = k * P + P /\ (k + 1) * P = (2 * (k + 1)) * B
    BY <1>5, <1>6, <2>1, PagesTwice
  <2>4. k * P = (2 * k) * B /\ (2 * k + 1) * B = k * P + B
    BY <1>5, <1>6, PagesTwice
  <2> QED BY <1>18, <2>1, <2>2, <2>3, <2>4
<1>20. Len(Y) = (n * B - B + e) - P
  <2>1. CASE half
    <3>1. n * B = (L + P) + B
      BY <1>19, <2>1
    <3>2. Len(Y) = L + e
      BY <1>13, <1>16, <1>17, <2>1
    <3> QED BY ONLY <3>1, <3>2, <1>8, <1>18
  <2>2. CASE ~half
    <3>1. n * B = (L + P) + P
      BY <1>19, <2>2
    <3>2. Len(Y) = L + (B + e)
      BY <1>13, <1>16, <1>17, <2>2
    <3> QED BY ONLY <3>1, <3>2, <1>8, <1>18
  <2> QED BY <2>1, <2>2
<1>21. ASSUME NEW c \in Nat, NEW j \in 1..B, c * B + j <= Len(Y)
       PROVE  c + 2 \in 0..n-1 /\ Y[c * B + j] = blocks[f.first + (c + 2)][j]
  <2>1. PICK d \in Nat, b \in {0, 1} : c = 2 * d + b
    <3>1. c \div 2 \in Nat /\ c % 2 \in {0, 1} /\ c = 2 * (c \div 2) + (c % 2)
      BY <1>21
    <3> QED BY <3>1
  <2>2. PICK D : D = d * P
    OBVIOUS
  <2>3. D \in Nat /\ (2 * d) * B = D /\ (2 * d + 1) * B = D + B
    BY <1>5, <1>6, <2>1, <2>2, PagesTwice
  <2>4. PICK i : i = IF b = 0 THEN j ELSE B + j
    OBVIOUS
  <2>5. i \in 1..P /\ c * B + j = D + i
    <3>1. i \in 1..P
      BY <1>8, <1>21, <2>1, <2>4
    <3>2. c * B + j = D + i
      <4>1. CASE b = 0
        <5>1. c = 2 * d
          BY <2>1, <4>1
        <5> QED BY <1>8, <1>21, <2>3, <2>4, <4>1, <5>1
      <4>2. CASE b = 1
        <5>1. c = 2 * d + 1
          BY <2>1, <4>2
        <5> QED BY <1>8, <1>21, <2>3, <2>4, <4>2, <5>1
      <4> QED BY <2>1, <4>1, <4>2
    <3> QED BY <3>1, <3>2
  <2>6. CASE d < k - 1
    <3>1. d \in 0..k-2 /\ d + 1 \in 1..k-1
      BY <2>1, <2>6
    <3>2. D + i \in 1..L /\ X[D + i] = full[d + 1][i]
      BY <1>14, <1>18, <2>2, <2>5, <3>1
    <3>3. PICK x : x = blocks[f.first + 2 * (d + 1)]
      OBVIOUS
    <3>4. PICK y : y = blocks[f.first + (2 * (d + 1) + 1)]
      OBVIOUS
    <3>5. x \in Block /\ y \in Block /\ full[d + 1] = x \o y
      BY <1>1, <1>9, <3>1, <3>3, <3>4 DEF FullPages
    <3>6. full[d + 1][i] = IF b = 0 THEN x[j] ELSE y[j]
      <4>1. \A q \in 1..B : (x \o y)[q] = x[q] /\ (x \o y)[B + q] = y[q]
        BY <1>5, <3>5, PairIs
      <4>2. i = IF b = 0 THEN j ELSE B + j
        BY <2>4
      <4> QED BY <1>21, <3>5, <4>1, <4>2, Zenon
    <3>7. c + 2 = IF b = 0 THEN 2 * (d + 1) ELSE 2 * (d + 1) + 1
      BY <2>1
    <3>8. c + 2 \in 0..n-1
      BY <2>1, <2>6, <1>11
    <3>9. Y[D + i] = X[D + i]
      BY <1>16, <1>17, <3>2
    <3> QED BY <2>1, <2>5, <3>2, <3>3, <3>4, <3>6, <3>7, <3>8, <3>9
  <2>7. CASE d = k - 1
    <3>1. D = L
      BY <1>18, <2>2, <2>7
    <3>2. i \in 1..Len(l) /\ Y[D + i] = l[i]
      <4>1. D + i <= L + Len(l)
        BY <1>16, <1>17, <1>21, <2>5
      <4>2. i \in 1..Len(l)
        BY <1>16, <1>18, <2>5, <3>1, <4>1
      <4> QED BY <1>16, <1>17, <3>1, <4>2
    <3>3. CASE b = 0
      <4>1. i = j /\ c + 2 = 2 * k
        BY <2>1, <2>4, <2>7, <3>3
      <4>2. l[j] = blocks[f.first + 2 * k][j]
        <5>1. CASE half
          BY <1>13, <3>2, <4>1, <5>1
        <5>2. CASE ~half
          BY <1>13, <1>21, <5>2
        <5> QED BY <5>1, <5>2
      <4>3. c + 2 \in 0..n-1
        BY <4>1, <1>11
      <4> QED BY <2>5, <3>2, <4>1, <4>2, <4>3
    <3>4. CASE b = 1
      <4>1. i = B + j /\ c + 2 = 2 * k + 1
        BY <2>1, <2>4, <2>7, <3>4
      <4>2. ~half /\ j \in 1..e
        <5>1. B + j <= Len(l)
          BY <3>2, <4>1
        <5>2. CASE half
          <6>1. B + j <= e
            BY <1>13, <5>1, <5>2
          <6> QED BY <1>8, <1>21, <6>1
        <5>3. CASE ~half
          <6>1. B + j <= B + e
            BY <1>13, <5>1, <5>3
          <6> QED BY <1>8, <1>21, <5>3, <6>1
        <5> QED BY <5>2, <5>3
      <4>3. l[B + j] = blocks[f.first + (2 * k + 1)][j]
        BY <1>13, <4>2
      <4>4. c + 2 \in 0..n-1
        BY <4>1, <4>2, <1>11
      <4> QED BY <2>5, <3>2, <4>1, <4>3, <4>4
    <3> QED BY <2>1, <3>3, <3>4
  <2>8. CASE ~(d <= k - 1)
    <3>1. k <= d
      BY <2>1, <2>8
    <3>2. k * P <= D
      BY <1>8, <2>1, <2>2, <3>1, Products
    <3>3. k * P = L + P
      BY <1>5, <1>6, <1>19, PagesTwice
    <3>4. Len(l) <= P
      <4>1. CASE half
        BY <1>8, <1>13, <4>1
      <4>2. CASE ~half
        BY <1>8, <1>13, <4>2
      <4> QED BY <4>1, <4>2
    <3>5. D + i <= L + Len(l)
      BY <1>16, <1>17, <1>21, <2>5
    <3> QED BY <1>8, <1>16, <1>18, <2>3, <2>5, <3>2, <3>3, <3>4, <3>5
  <2>9. d < k - 1 \/ d = k - 1 \/ ~(d <= k - 1)
    BY <2>1
  <2> QED BY <2>6, <2>7, <2>8, <2>9
<1> QED BY <1>4, <1>5, <1>6, <1>7, <1>10, <1>16, <1>20, <1>21

(* Page by page or at one go, a text is the bytes of its blocks from the   *)
(* third on, up to its last byte.                                          *)
LEMMA TextCut ==
  ASSUME NEW blocks, NEW f, NEW n, InBlocks(blocks, f, n), n >= 1,
         f.lastByte \in 0..BlockSize
  PROVE  /\ Raws(blocks, f) \in Seq(Bytes)
         /\ Concat(Raws(blocks, f))
              = SubSeq(FlatOf(blocks, f), 2 * BlockSize + 1, n * BlockSize - BlockSize + f.lastByte)
<1>1. PICK B : B = BlockSize
  OBVIOUS
<1>2. PICK e : e = f.lastByte
  OBVIOUS
<1>3. PICK F : F = FlatOf(blocks, f)
  OBVIOUS
<1>4. PICK R : R = Raws(blocks, f)
  OBVIOUS
<1>5. PICK Y : Y = Concat(R)
  OBVIOUS
<1>6. /\ f.first \in Nat /\ n \in Nat /\ f.last = f.first + n
      /\ \A i \in 0..n-1 : blocks[f.first + i] \in Block
  BY DEF InBlocks
<1>7. B \in Nat \ {0} /\ e \in 0..B /\ PageSize = B + B /\ 2 * B = B + B
  BY <1>1, <1>2, PageSizeIs
<1>8. /\ F \in Bytes /\ Len(F) = n * B
      /\ \A k \in 0..n-1, j \in 1..B : F[k * B + j] = blocks[f.first + k][j]
  BY <1>1, <1>3, RunBytes
<1>9. PICK m : m = n * B - B + e
  OBVIOUS
<1>10. n * B \in Nat /\ B <= n * B /\ m \in 0..n * B
  <2>1. n * B \in Nat /\ 1 * B <= n * B /\ 1 * B = B
    BY <1>6, <1>7, Products
  <2> QED BY <1>7, <1>9, <2>1
<1>11. CASE n <= 2
  <2>1. PageCount(f) = 0
    <3>1. 0 \in Nat /\ (f.last = f.first + (2 * 0 + 1) \/ f.last = f.first + (2 * 0 + 2))
      BY <1>6, <1>11
    <3> QED BY <1>6, <3>1, PageCountIs
  <2>2. R = <<>>
    BY <1>4, <2>1 DEF Raws
  <2>3. R \in Seq(Bytes) /\ Y = <<>>
    <3>1. R \in Seq(Bytes) /\ Len(R) = 0
      <4> HIDE DEF Bytes
      <4> QED BY <2>2
    <3>2. PICK g : InputHeads(g, R) /\ Concat(R) = g[Len(R)]
      BY <3>1, ConcatIs
    <3> QED BY <1>5, <3>1, <3>2 DEF InputHeads
  <2>4. m <= B + B
    <3>1. CASE n = 1
      <4>1. n * B = B
        BY <1>7, <3>1
      <4> QED BY <1>7, <1>9, <4>1
    <3>2. CASE n = 2
      <4>1. n * B = B + B
        BY <1>7, <3>2
      <4> QED BY <1>7, <1>9, <4>1
    <3> QED BY <1>6, <1>11, <3>1, <3>2
  <2>5. SubSeq(F, 2 * B + 1, m) = <<>>
    <3>1. 2 * B + 1 \in Int /\ m \in Int /\ m < 2 * B + 1
      BY <1>7, <1>10, <2>4
    <3>2. F \in Seq(Nat)
      BY <1>8 DEF Bytes
    <3> QED BY <3>1, <3>2, SubSeqEmpty
  <2> QED BY <1>1, <1>2, <1>3, <1>4, <1>5, <1>9, <2>3, <2>5
<1>12. CASE n > 2
  <2>1. PICK k \in Nat, half \in BOOLEAN :
          k >= 1 /\ n = IF half THEN 2 * k + 1 ELSE 2 * k + 2
    <3>1. PICK k : k = (n - 1) \div 2
      OBVIOUS
    <3>2. k \in Nat /\ k >= 1 /\ (n = 2 * k + 1 \/ n = 2 * k + 2)
      BY <1>6, <1>12, <3>1
    <3>3. PICK half \in BOOLEAN : half <=> n = 2 * k + 1
      OBVIOUS
    <3> QED BY <3>2, <3>3
  <2>2. /\ R \in Seq(Bytes) /\ Y \in Bytes
        /\ Len(Y) = (n * BlockSize - BlockSize + f.lastByte) - PageSize
        /\ \A c \in Nat, j \in 1..BlockSize :
             c * BlockSize + j <= Len(Y) =>
               c + 2 \in 0..n-1 /\ Y[c * BlockSize + j] = blocks[f.first + (c + 2)][j]
    <3>1. /\ Raws(blocks, f) \in Seq(Bytes) /\ Concat(Raws(blocks, f)) \in Bytes
          /\ Len(Concat(Raws(blocks, f))) = (n * BlockSize - BlockSize + f.lastByte) - PageSize
          /\ \A c \in Nat, j \in 1..BlockSize :
               c * BlockSize + j <= Len(Concat(Raws(blocks, f))) =>
                 /\ c + 2 \in 0..n-1
                 /\ Concat(Raws(blocks, f))[c * BlockSize + j] = blocks[f.first + (c + 2)][j]
      BY <2>1, RawBytes
    <3>2. Raws(blocks, f) = R /\ Concat(Raws(blocks, f)) = Y
      BY <1>4, <1>5
    <3> QED BY ONLY <3>1, <3>2
  <2>3. /\ Len(Y) = m - 2 * B
        /\ \A c \in Nat, j \in 1..B :
             c * B + j <= Len(Y) =>
               c + 2 \in 0..n-1 /\ Y[c * B + j] = blocks[f.first + (c + 2)][j]
    BY <1>1, <1>2, <1>7, <1>9, <2>2
  <2>4. Len(Y) \in Nat
    BY <2>2 DEF Bytes
  <2>5. PICK Z : Z = SubSeq(F, 2 * B + 1, m)
    OBVIOUS
  <2>6. /\ Z \in Seq(Nat) /\ Len(Z) = Len(Y)
        /\ \A i \in 1..Len(Y) : Z[i] = F[2 * B + i]
    <3>1. F \in Seq(Nat) /\ 2 * B + 1 \in 1..Len(F) + 1 /\ m \in (2 * B + 1) - 1 .. Len(F)
      BY <1>7, <1>8, <1>10, <2>3, <2>4 DEF Bytes
    <3>2. /\ Z \in Seq(Nat) /\ Len(Z) = m - (2 * B + 1) + 1
          /\ \A i \in 1..m - (2 * B + 1) + 1 : Z[i] = F[(2 * B + 1) + i - 1]
      BY <2>5, <3>1, SubSeqFacts
    <3>3. m - (2 * B + 1) + 1 = Len(Y) /\ \A i \in 1..Len(Y) : (2 * B + 1) + i - 1 = 2 * B + i
      BY <1>7, <1>10, <2>3
    <3> QED BY <3>2, <3>3
  <2>7. ASSUME NEW x \in 1..Len(Y) PROVE Y[x] = Z[x]
    <3>1. PICK c : c = (x - 1) \div BlockSize
      OBVIOUS
    <3>2. PICK j : j = ((x - 1) % BlockSize) + 1
      OBVIOUS
    <3>3. c \in Nat /\ j \in 1..B /\ x = c * B + j
      <4>1. x - 1 \in Nat
        BY <2>4
      <4>2. c \in Nat /\ (x - 1) % BlockSize \in 0..BlockSize-1
            /\ x - 1 = c * BlockSize + ((x - 1) % BlockSize)
        BY <3>1, <4>1, Divided
      <4>3. c * B \in Nat
        BY <1>7, <4>2, Products
      <4> QED BY <1>1, <1>7, <2>4, <3>2, <4>1, <4>2, <4>3
    <3>4. c + 2 \in 0..n-1 /\ Y[x] = blocks[f.first + (c + 2)][j]
      BY <2>3, <2>4, <3>3
    <3>5. F[(c + 2) * B + j] = blocks[f.first + (c + 2)][j]
      BY <1>8, <3>3, <3>4
    <3>6. (c + 2) * B + j = 2 * B + x
      <4>1. 2 \in Nat /\ (c + 2) * B = c * B + 2 * B /\ c * B \in Nat
        BY <1>7, <3>3, Products
      <4> QED BY <1>7, <3>3, <4>1
    <3>7. Z[x] = F[2 * B + x]
      BY <2>6
    <3> QED BY <3>4, <3>5, <3>6, <3>7
  <2>8. Y = Z
    <3>1. Y \in Seq(Nat) /\ Z \in Seq(Nat) /\ Len(Y) = Len(Z)
      BY <2>2, <2>6 DEF Bytes
    <3> QED BY <2>7, <3>1, EqualSeqs
  <2> QED BY <1>1, <1>2, <1>3, <1>4, <1>5, <1>9, <2>2, <2>5, <2>8
<1> QED BY <1>6, <1>11, <1>12

(* A text whoever wrote it, when no page but the last ends in the middle   *)
(* of a DLE and its count: it reads as its decoded bytes.                  *)
LEMMA TextAnyReads ==
  ASSUME NEW blocks, NEW f, NEW n, InBlocks(blocks, f, n), n >= 1,
         f.lastByte \in 0..BlockSize,
         \A p \in 1..Len(Raws(blocks, f)) - 1 : Clean(Raws(blocks, f)[p]),
         NEW i, i.kind = "text", i.first = f.first, i.last = f.last, i.lastByte = f.lastByte,
         i.pages = [p \in 1..PageCount(f) |-> Len(TextDecodePage(blocks, f, f.first + 2 * p))]
  PROVE  ReadsAs(blocks, i, WholeOf(blocks, i))
<1>1. PICK r : r = Raws(blocks, f)
  OBVIOUS
<1>2. r \in Seq(Bytes) /\ Concat(r) = SubSeq(FlatOf(blocks, f), 2 * BlockSize + 1,
                                            n * BlockSize - BlockSize + f.lastByte)
  BY <1>1, TextCut
<1>3. Indexes(blocks, i, Decoded(r))
  BY <1>1, <1>2, TextIndexedAs
<1>4. ReadsAs(blocks, i, Concat(Decoded(r)))
  BY <1>3, IndexedReads
<1>5. Concat(Decoded(r)) = Decode(Concat(r))
  BY <1>1, <1>2, DecodePages
<1>6. WholeOf(blocks, i) = Decode(Concat(r))
  <2>1. f.first \in Nat /\ n \in Nat /\ f.last = f.first + n
    BY DEF InBlocks
  <2>2. i.last - i.first = n /\ i.lastByte = f.lastByte /\ i.last - i.first = f.last - f.first
    BY <2>1
  <2>3. Run(blocks, i) = Run(blocks, f)
    BY <2>2 DEF Run
  <2>4. FlatOf(blocks, i) = FlatOf(blocks, f)
    BY <2>3 DEF FlatOf
  <2> QED BY <1>2, <2>2, <2>4 DEF WholeOf
<1> QED BY <1>4, <1>5, <1>6
=============================================================================
