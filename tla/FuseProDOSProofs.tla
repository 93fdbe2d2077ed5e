---------------------------- MODULE FuseProDOSProofs ----------------------------
(***************************************************************************)
(* What holds of the ProDOS mount for any disks, healthy or damaged, and   *)
(* any requests.  The operators of ProDOSDisk first, over any disk d, then *)
(* what every walk, every open file and every answer are.                  *)
(***************************************************************************)
EXTENDS FuseProDOS, FiniteSetTheorems, SequenceTheorems, WellFoundedInduction, TLAPS

-----------------------------------------------------------------------------
(* Numbers.                                                                *)

(* A set of naturals that has a member has a least one.                    *)
LEMMA LeastNatural ==
  ASSUME NEW S, S \subseteq Nat, S # {}
  PROVE  \E x \in S : \A y \in S : x <= y
<1> DEFINE R == {ss \in Nat \X Nat : ss[1] < ss[2]}
<1>1. IsWellFoundedOn(R, Nat)
  BY NatLessThanWellFounded, Zenon DEF OpToRel
<1>2. PICK x \in S : \A y \in S : ~(<<y, x>> \in R)
  BY <1>1, WFMin
<1>3. ASSUME NEW y \in S PROVE x <= y
  <2>1. <<y, x>> \in Nat \X Nat /\ <<y, x>>[1] = y /\ <<y, x>>[2] = x
    OBVIOUS
  <2>2. ~(y < x)
    BY <1>2, <2>1
  <2> QED BY <2>2
<1> QED BY <1>3

LEMMA MinIs ==
  ASSUME NEW S, S \subseteq Nat, S # {}
  PROVE  Min(S) \in S /\ \A y \in S : Min(S) <= y
<1>1. \E x \in S : \A y \in S : x <= y
  BY LeastNatural
<1> QED BY <1>1 DEF Min

(* What holds of 0, and of n + 1 when it holds of n, holds up to m.        *)
LEMMA UpTo ==
  ASSUME NEW m \in Nat, NEW S, 0 \in S, \A n \in 0..m : n \in S /\ n < m => n + 1 \in S
  PROVE  \A n \in 0..m : n \in S
<1> DEFINE Wrong == {n \in 0..m : n \notin S}
<1> SUFFICES ASSUME Wrong # {} PROVE FALSE
  OBVIOUS
<1>1. Wrong \subseteq Nat
  OBVIOUS
<1>2. PICK n \in Wrong : \A k \in Wrong : n <= k
  <2> HIDE DEF Wrong
  <2> QED BY <1>1, LeastNatural
<1>3. n # 0 /\ n - 1 \in 0..m /\ n - 1 \notin Wrong
  BY <1>2
<1> QED BY <1>2, <1>3

(* A function whose value at n comes from the one at n - 1.                *)
Recurs(g, S, a, m, step) ==
  /\ g \in [0..m -> S] /\ g[0] = a
  /\ \A n \in 1..m : g[n] = step[<<n, g[n - 1]>>]

LEMMA Recursion ==
  ASSUME NEW S, NEW a \in S, NEW m \in Nat, NEW step \in [(1..m) \X S -> S]
  PROVE  \E g : Recurs(g, S, a, m, step)
<1> DEFINE Until(g, n) == /\ g \in [0..n -> S] /\ g[0] = a
                          /\ \A i \in 1..n : g[i] = step[<<i, g[i - 1]>>]
           Good == {n \in 0..m : \E g : Until(g, n)}
<1>1. 0 \in Good
  <2> DEFINE g == [i \in 0..0 |-> a]
  <2>1. g \in [0..0 -> S] /\ g[0] = a
    OBVIOUS
  <2> HIDE DEF g
  <2>2. Until(g, 0) /\ 0 \in 0..m
    BY <2>1
  <2> HIDE DEF Until
  <2> QED BY <2>2
<1>2. ASSUME NEW n \in 0..m, n \in Good, n < m
      PROVE  n + 1 \in Good
  <2>1. PICK h : Until(h, n)
    BY <1>2
  <2> DEFINE v == step[<<n + 1, h[n]>>]
             g == [i \in 0..n+1 |-> IF i = n + 1 THEN v ELSE h[i]]
  <2>2. n + 1 \in 1..m /\ h[n] \in S
    BY <1>2, <2>1
  <2>3. v \in S
    BY <2>2
  <2>4. \A i \in 0..n : i \in 0..n+1 /\ i # n + 1 /\ h[i] \in S
    BY <2>1
  <2> HIDE DEF v
  <2>5. g \in [0..n+1 -> S]
    BY <2>3, <2>4
  <2>6. (\A i \in 0..n : g[i] = h[i]) /\ g[n + 1] = v
    BY <2>4
  <2> HIDE DEF g
  <2>7. g[0] = a
    BY <2>1, <2>6
  <2>8. ASSUME NEW i \in 1..n+1 PROVE g[i] = step[<<i, g[i - 1]>>]
    <3>1. i - 1 \in 0..n /\ g[i - 1] = h[i - 1]
      BY <2>6
    <3>2. CASE i = n + 1
      BY <2>6, <3>1, <3>2 DEF v
    <3>3. CASE i # n + 1
      <4>1. i \in 1..n /\ i \in 0..n
        BY <3>3
      <4> QED BY <2>1, <2>6, <3>1, <4>1
    <3> QED BY <3>2, <3>3
  <2>9. Until(g, n + 1)
    BY <2>5, <2>7, <2>8
  <2>10. n + 1 \in 0..m
    BY <1>2
  <2> HIDE DEF Until
  <2> QED BY <2>9, <2>10
<1> HIDE DEF Good
<1>3. m \in Good
  <2>1. \A n \in 0..m : n \in Good
    BY <1>1, <1>2, UpTo
  <2> QED BY <2>1
<1> QED BY <1>3 DEF Good, Recurs

LEMMA Products ==
  /\ \A k, m \in Nat : k * m \in Nat /\ (k + 1) * m = k * m + m
  /\ \A k, l, m \in Nat : (k + l) * m = k * m + l * m
  /\ \A k, l, m \in Nat : k <= l => k * m <= l * m
  /\ \A k, l, m \in Nat : k < l => k * m + m <= l * m
<1>1. \A k, m \in Nat : k * m \in Nat /\ (k + 1) * m = k * m + m
  OBVIOUS
<1>2. \A k, l, m \in Nat : (k + l) * m = k * m + l * m
  OBVIOUS
<1>3. ASSUME NEW k \in Nat, NEW l \in Nat, NEW m \in Nat, k <= l PROVE k * m <= l * m
  <2>1. l - k \in Nat /\ k + (l - k) = l
    BY <1>3
  <2>2. (k + (l - k)) * m = k * m + (l - k) * m /\ (l - k) * m \in Nat /\ k * m \in Nat
    BY <1>1, <1>2, <2>1
  <2> QED BY <2>1, <2>2
<1>4. ASSUME NEW k \in Nat, NEW l \in Nat, NEW m \in Nat, k < l PROVE k * m + m <= l * m
  <2>1. k + 1 \in Nat /\ k + 1 <= l
    BY <1>4
  <2> QED BY <1>1, <1>3, <2>1
<1> QED BY <1>1, <1>2, <1>3, <1>4

-----------------------------------------------------------------------------
(* Sequences.                                                              *)

LEMMA SubSeqFacts ==
  ASSUME NEW S, NEW s \in Seq(S), NEW m \in 1..Len(s) + 1, NEW n \in m - 1 .. Len(s)
  PROVE  /\ SubSeq(s, m, n) \in Seq(S)
         /\ Len(SubSeq(s, m, n)) = n - m + 1
         /\ \A i \in 1..n - m + 1 : SubSeq(s, m, n)[i] = s[m + i - 1]
<1>1. Len(s) \in Nat /\ m \in Int /\ n \in Int
  BY LenProperties
<1>2. \A i \in m..n : s[i] \in S
  BY <1>1, ElementOfSeq
<1>3. /\ SubSeq(s, m, n) \in Seq(S)
      /\ Len(SubSeq(s, m, n)) = IF m <= n THEN n - m + 1 ELSE 0
      /\ \A i \in 1..n - m + 1 : SubSeq(s, m, n)[i] = s[m + i - 1]
  BY <1>1, <1>2, SubSeqProperties
<1>4. m <= n \/ n - m + 1 = 0
  BY <1>1
<1> QED BY <1>1, <1>3, <1>4

LEMMA EqualSeqs ==
  ASSUME NEW S, NEW s \in Seq(S), NEW t \in Seq(S), Len(s) = Len(t),
         \A i \in 1..Len(s) : s[i] = t[i]
  PROVE  s = t
BY SeqEqual

LEMMA FunctionSeq ==
  ASSUME NEW S, NEW n \in Nat, NEW f \in [1..n -> S]
  PROVE  f \in Seq(S) /\ Len(f) = n
BY SeqDef, LenProperties

-----------------------------------------------------------------------------
(* What a disk is, block by block.                                         *)

LEMMA DiskIs ==
  ASSUME NEW d, IsDisk(d)
  PROVE  /\ d.blocks \in Nat /\ 2 < d.blocks /\ DOMAIN d.content = 0..d.blocks-1
         /\ d.content[2].storage = "volume"
BY DEF IsDisk

LEMMA HeadIs ==
  ASSUME NEW d, IsDisk(d), NEW b \in 0..d.blocks-1, d.content[b].storage \in {"volume", "subdir"}
  PROVE  /\ b \in DirBlocks(d)
         /\ d.content[b].head.count \in Nat /\ d.content[b].head.perBlock \in Nat \ {0, 1}
         /\ \A o \in DirBlocks(d) :
              0..d.content[b].head.perBlock-1 \subseteq DOMAIN d.content[o].entries
BY DEF IsDisk, DirBlocks

LEMMA DirIs ==
  ASSUME NEW d, IsDisk(d), NEW b \in DirBlocks(d)
  PROVE  /\ b \in 0..d.blocks-1 /\ d.content[b].kind = "dir" /\ d.content[b].next \in Nat
         /\ d.content[b].next \in 1..d.blocks-1 => d.content[b].next \in DirBlocks(d)
         /\ \A i \in DOMAIN d.content[b].entries : i \in Nat
BY DEF IsDisk, DirBlocks

LEMMA EntryIs ==
  ASSUME NEW d, IsDisk(d), NEW b \in DirBlocks(d), NEW i \in DOMAIN d.content[b].entries
  PROVE  /\ d.content[b].entries[i] \in Entry /\ KeyBlock(d, d.content[b].entries[i])
         /\ d.content[b].entries[i].storage = "extended"
              /\ d.content[b].entries[i].key < d.blocks =>
              /\ d.content[b].entries[i].key \in 0..d.blocks-1
              /\ d.content[d.content[b].entries[i].key].kind = "extended"
<1>1. PICK e : e = d.content[b].entries[i]
  OBVIOUS
<1>2. /\ e \in Entry /\ KeyBlock(d, e)
      /\ e.storage = "extended" /\ e.key < d.blocks => d.content[e.key].kind = "extended"
  <2>1. b \in 0..d.blocks-1 /\ d.content[b].kind = "dir"
    BY DirIs
  <2>2. \A o \in 0..d.blocks-1 : d.content[o].kind = "dir" =>
          \A j \in DOMAIN d.content[o].entries :
            /\ d.content[o].entries[j] \in Entry /\ KeyBlock(d, d.content[o].entries[j])
            /\ d.content[o].entries[j].storage = "extended" /\ d.content[o].entries[j].key < d.blocks =>
                 d.content[d.content[o].entries[j].key].kind = "extended"
    BY DEF IsDisk
  <2>3. \A j \in DOMAIN d.content[b].entries :
          /\ d.content[b].entries[j] \in Entry /\ KeyBlock(d, d.content[b].entries[j])
          /\ d.content[b].entries[j].storage = "extended" /\ d.content[b].entries[j].key < d.blocks =>
               d.content[d.content[b].entries[j].key].kind = "extended"
    BY <2>1, <2>2
  <2> QED BY <1>1, <2>3
<1>3. e.key \in Nat /\ d.blocks \in Nat
  BY <1>2, DiskIs DEF Entry
<1> QED BY ONLY <1>1, <1>2, <1>3

LEMMA MiniIs ==
  ASSUME NEW d, IsDisk(d), NEW b \in 0..d.blocks-1, d.content[b].kind = "extended",
         NEW f \in {"data", "resource"}
  PROVE  d.content[b][f] \in MiniEntry /\ KeyBlock(d, d.content[b][f])
BY DEF IsDisk

LEMMA DataIs ==
  ASSUME NEW d, IsDisk(d), NEW b \in 0..d.blocks-1, d.content[b].kind = "data"
  PROVE  d.content[b].bytes \in [1..BlockSize -> Nat]
BY DEF IsDisk

LEMMA IndexIs ==
  ASSUME NEW d, IsDisk(d), NEW b \in 0..d.blocks-1, d.content[b].kind = "index"
  PROVE  d.content[b].keys \in [0..Pointers-1 -> Nat]
BY DEF IsDisk

LEMMA ReadBlockIs ==
  ASSUME NEW d, IsDisk(d), NEW b \in Nat
  PROVE  /\ b > d.blocks => ReadBlock(d, b) = Failed
         /\ b = d.blocks => ReadBlock(d, b) = Throws
         /\ b < d.blocks => b \in 0..d.blocks-1 /\ ReadBlock(d, b) = [status |-> "ok", content |-> d.content[b]]
         /\ ReadBlock(d, b).status = "ok" <=> b < d.blocks
         /\ ReadBlock(d, b).status = "throws" <=> b = d.blocks
         /\ ReadBlock(d, b).status = "error" <=> b > d.blocks
         /\ ReadBlock(d, b).status \in {"ok", "throws", "error"}
<1>1. d.blocks \in Nat
  BY DiskIs
<1>2. /\ b > d.blocks => ReadBlock(d, b) = Failed
      /\ b = d.blocks => ReadBlock(d, b) = Throws
      /\ b < d.blocks => b \in 0..d.blocks-1 /\ ReadBlock(d, b) = [status |-> "ok", content |-> d.content[b]]
  BY <1>1 DEF ReadBlock
<1>3. /\ Failed.status = "error" /\ Throws.status = "throws"
      /\ [status |-> "ok", content |-> d.content[b]].status = "ok"
  BY DEF Failed, Throws
<1>4. b > d.blocks \/ b = d.blocks \/ b < d.blocks
  BY <1>1
<1> QED BY <1>1, <1>2, <1>3, <1>4

(* A pointer to the block after the last.                                  *)
PointsPast(d) ==
  \E b \in DOMAIN d.content :
    LET c == d.content[b]
    IN  \/ c.kind = "dir" /\ c.next = d.blocks
        \/ c.kind = "dir" /\ \E i \in DOMAIN c.entries : c.entries[i].key = d.blocks
        \/ c.kind = "extended" /\ d.blocks \in {c.data.key, c.resource.key}
        \/ c.kind = "index" /\ \E i \in 0..Pointers-1 : c.keys[i] = d.blocks

LEMMA PastEnd ==
  ASSUME NEW d, IsDisk(d), NEW b \in 0..d.blocks-1
  PROVE  /\ d.content[b].kind = "dir" /\ d.content[b].next = d.blocks => PointsPast(d)
         /\ \A i \in DOMAIN d.content[b].entries :
              d.content[b].kind = "dir" /\ d.content[b].entries[i].key = d.blocks => PointsPast(d)
         /\ \A f \in {"data", "resource"} :
              d.content[b].kind = "extended" /\ d.content[b][f].key = d.blocks => PointsPast(d)
         /\ \A i \in 0..Pointers-1 :
              d.content[b].kind = "index" /\ d.content[b].keys[i] = d.blocks => PointsPast(d)
<1>1. b \in DOMAIN d.content
  BY DiskIs
<1> QED BY <1>1 DEF PointsPast

-----------------------------------------------------------------------------
(* Chains.                                                                 *)

(* nth is the chain of blocks of a directory, whose first block is key.    *)
Chain(d, key, nth) ==
  /\ nth[0] = key
  /\ \A n \in 0..d.blocks : nth[n] \in Nat
  /\ \A n \in 0..d.blocks : nth[n] < d.blocks /\ (n = 0 \/ nth[n] # 0) => nth[n] \in DirBlocks(d)
  /\ \A n \in 0..d.blocks-1 :
       nth[n + 1] = IF nth[n] < d.blocks /\ (n = 0 \/ nth[n] # 0)
                      THEN d.content[nth[n]].next ELSE nth[n]

LEMMA ChainIs ==
  ASSUME NEW d, IsDisk(d), NEW key \in DirBlocks(d)
  PROVE  Chain(d, key, ChainFrom(d, key))
<1>1. PICK m : m = d.blocks /\ m \in Nat
  BY DiskIs
<1> DEFINE Turn(g) ==
             [n \in 0..d.blocks |->
                IF n = 0 THEN key
                ELSE LET b == g[n-1]
                     IN  IF b < d.blocks /\ (n = 1 \/ b # 0) THEN d.content[b].next ELSE b]
           nth == CHOOSE g : g = Turn(g)
           S == DirBlocks(d) \union {b \in Nat : b >= m} \union {0}
           step == [p \in (1..m) \X S |->
                      IF p[2] \in DirBlocks(d) /\ (p[1] = 1 \/ p[2] # 0)
                        THEN d.content[p[2]].next ELSE p[2]]
<1>2. DirBlocks(d) \subseteq 0..m-1 /\ S \subseteq Nat /\ key \in S
  BY <1>1, DirIs
<1>3. \A b \in DirBlocks(d) : d.content[b].next \in S
  <2> TAKE b \in DirBlocks(d)
  <2>1. /\ d.content[b].next \in Nat
        /\ d.content[b].next \in 1..m-1 => d.content[b].next \in DirBlocks(d)
    BY <1>1, DirIs
  <2>2. d.content[b].next \in 1..m-1 \/ d.content[b].next = 0 \/ d.content[b].next >= m
    BY <1>1, <2>1
  <2> QED BY <2>1, <2>2
<1>4. step \in [(1..m) \X S -> S]
  <2>1. ASSUME NEW p \in (1..m) \X S
        PROVE  (IF p[2] \in DirBlocks(d) /\ (p[1] = 1 \/ p[2] # 0)
                  THEN d.content[p[2]].next ELSE p[2]) \in S
    <3>1. p[2] \in S
      OBVIOUS
    <3> QED BY <1>3, <3>1
  <2> QED BY <2>1
<1>5. \A n \in 1..m, b \in S :
        step[<<n, b>>] = IF b \in DirBlocks(d) /\ (n = 1 \/ b # 0) THEN d.content[b].next ELSE b
  <2> TAKE n \in 1..m, b \in S
  <2>1. <<n, b>> \in (1..m) \X S /\ <<n, b>>[1] = n /\ <<n, b>>[2] = b
    OBVIOUS
  <2> QED BY <2>1
<1>6. \A b \in S : b < m /\ b # 0 => b \in DirBlocks(d)
  BY <1>1, <1>2
<1> HIDE DEF step, S
<1>7. PICK h : Recurs(h, S, key, m, step)
  BY ONLY <1>1, <1>2, <1>4, Recursion
<1>8. \A n \in 1..m : n - 1 \in 0..m /\ h[n - 1] \in S /\ h[n] \in S
  BY <1>1, <1>7 DEF Recurs
<1>9. \A n \in 0..m : h[n] = IF n = 0 THEN key
                             ELSE IF h[n-1] < m /\ (n = 1 \/ h[n-1] # 0)
                               THEN d.content[h[n-1]].next ELSE h[n-1]
  <2> SUFFICES ASSUME NEW n \in 1..m
               PROVE  h[n] = IF h[n-1] < m /\ (n = 1 \/ h[n-1] # 0)
                               THEN d.content[h[n-1]].next ELSE h[n-1]
    BY <1>1, <1>7 DEF Recurs
  <2>1. h[n] = IF h[n-1] \in DirBlocks(d) /\ (n = 1 \/ h[n-1] # 0)
                 THEN d.content[h[n-1]].next ELSE h[n-1]
    BY <1>5, <1>7, <1>8 DEF Recurs
  <2>2. h[n-1] \in S
    BY <1>8
  <2>3. h[n-1] \in DirBlocks(d) => h[n-1] < m
    BY <1>1, <1>2
  <2>4. n = 1 => h[n-1] \in DirBlocks(d)
    BY <1>7 DEF Recurs
  <2> QED BY <1>6, <2>1, <2>2, <2>3, <2>4
<1>10. h = Turn(h)
  <2>1. h = [n \in 0..m |-> h[n]]
    BY <1>7 DEF Recurs
  <2> QED BY <1>1, <1>9, <2>1
<1>11. nth = Turn(nth)
  BY <1>10, Zenon
<1>12. ChainFrom(d, key) = nth
  BY DEF ChainFrom
<1> HIDE DEF nth
<1>13. \A n \in 0..m : nth[n] = IF n = 0 THEN key
                               ELSE IF nth[n-1] < m /\ (n = 1 \/ nth[n-1] # 0)
                                 THEN d.content[nth[n-1]].next ELSE nth[n-1]
  BY <1>1, <1>11
<1> DEFINE Good == {n \in 0..m : nth[n] \in S /\ (n = 0 => nth[n] \in DirBlocks(d))}
<1>14. 0 \in Good
  BY <1>1, <1>2, <1>13
<1>15. \A n \in 0..m : n \in Good /\ n < m => n + 1 \in Good
  <2> SUFFICES ASSUME NEW n \in 0..m, n \in Good, n < m PROVE n + 1 \in Good
    OBVIOUS
  <2>1. n + 1 \in 0..m /\ n + 1 # 0 /\ (n + 1) - 1 = n /\ (n + 1 = 1 <=> n = 0)
    BY <1>1
  <2>2. nth[n + 1] = IF nth[n] < m /\ (n = 0 \/ nth[n] # 0)
                       THEN d.content[nth[n]].next ELSE nth[n]
    BY <1>13, <2>1
  <2>3. nth[n] \in S /\ (n = 0 => nth[n] \in DirBlocks(d))
    OBVIOUS
  <2>4. nth[n + 1] \in S
    BY <1>3, <1>6, <2>2, <2>3
  <2> QED BY <2>1, <2>4
<1>16. \A n \in 0..m : n \in Good
  <2> HIDE DEF Good
  <2> QED BY ONLY <1>1, <1>14, <1>15, UpTo
<1>17. \A n \in 0..m : nth[n] \in Nat /\ (nth[n] < m /\ (n = 0 \/ nth[n] # 0) => nth[n] \in DirBlocks(d))
  BY <1>2, <1>6, <1>16
<1>18. \A n \in 0..m-1 : nth[n + 1] = IF nth[n] < m /\ (n = 0 \/ nth[n] # 0)
                                        THEN d.content[nth[n]].next ELSE nth[n]
  <2> TAKE n \in 0..m-1
  <2>1. n + 1 \in 0..m /\ n + 1 # 0 /\ (n + 1) - 1 = n /\ (n + 1 = 1 <=> n = 0)
    BY <1>1
  <2> QED BY <1>13, <2>1
<1>19. nth[0] = key
  BY <1>1, <1>13
<1> QED BY <1>1, <1>12, <1>17, <1>18, <1>19 DEF Chain

(* A chain that has come to its end stays there.                           *)
LEMMA ChainEnds ==
  ASSUME NEW d, IsDisk(d), NEW key, NEW nth, Chain(d, key, nth),
         NEW n \in 1..d.blocks, nth[n] = 0
  PROVE  \A m \in n..d.blocks : nth[m] = 0
<1>1. PICK size : size = d.blocks /\ size \in Nat
  BY DiskIs
<1> DEFINE Good == {k \in 0..size-n : nth[n + k] = 0}
<1>2. 0 \in Good
  BY <1>1
<1>3. \A k \in 0..size-n : k \in Good /\ k < size-n => k + 1 \in Good
  <2> SUFFICES ASSUME NEW k \in 0..size-n, k \in Good, k < size-n PROVE k + 1 \in Good
    OBVIOUS
  <2>1. n + k \in 0..size-1 /\ n + (k + 1) = (n + k) + 1 /\ k + 1 \in 0..size-n /\ n + k # 0
    BY <1>1
  <2>2. nth[(n + k) + 1] = nth[n + k]
    BY <1>1, <2>1 DEF Chain
  <2> QED BY <2>1, <2>2
<1>4. \A k \in 0..size-n : k \in Good
  <2>1. size - n \in Nat
    BY <1>1
  <2> HIDE DEF Good
  <2> QED BY <1>2, <1>3, <2>1, UpTo
<1>5. ASSUME NEW m \in n..size PROVE nth[m] = 0
  <2>1. m - n \in 0..size-n /\ n + (m - n) = m
    BY <1>1
  <2> QED BY <1>4, <2>1
<1> QED BY <1>1, <1>5

(* A chain that comes back to a block, or leads out of the disk, has none. *)
LEMMA ChainGoesOn ==
  ASSUME NEW d, IsDisk(d), NEW key, NEW nth, Chain(d, key, nth), NEW n \in 0..d.blocks-1,
         \A m \in 0..n : nth[m] < d.blocks /\ (m = 0 \/ nth[m] # 0),
         d.content[nth[n]].next # 0,
         \/ d.content[nth[n]].next >= d.blocks
         \/ \E m \in 0..n : d.content[nth[n]].next = nth[m]
  PROVE  ~\E m \in 1..d.blocks : nth[m] = 0
<1>1. PICK size : size = d.blocks /\ size \in Nat
  BY DiskIs
<1>2. PICK next : next = d.content[nth[n]].next
  OBVIOUS
<1>3. next # 0 /\ (next >= size \/ \E m \in 0..n : next = nth[m])
  BY <1>1, <1>2
<1>4. \A m \in 0..n : nth[m] < size /\ (m = 0 \/ nth[m] # 0)
  BY <1>1
<1>5. nth[n + 1] = next
  BY <1>2, <1>4, <1>1 DEF Chain
<1>6. \A m \in 0..size-1 : nth[m + 1] = IF nth[m] < size /\ (m = 0 \/ nth[m] # 0)
                                          THEN d.content[nth[m]].next ELSE nth[m]
  BY <1>1 DEF Chain
<1> DEFINE Met(b) == b = next \/ \E l \in 0..n : b = nth[l]
           Good == {m \in 0..size : Met(nth[m]) /\ (m = 0 \/ nth[m] # 0)}
<1>7. 0 \in Good
  BY <1>1
<1>8. \A m \in 0..size : m \in Good /\ m < size => m + 1 \in Good
  <2> SUFFICES ASSUME NEW m \in 0..size, m \in Good, m < size PROVE m + 1 \in Good
    OBVIOUS
  <2>1. m \in 0..size-1 /\ m + 1 \in 0..size /\ m + 1 # 0
    BY <1>1
  <2>2. Met(nth[m]) /\ (m = 0 \/ nth[m] # 0)
    OBVIOUS
  <2>3. CASE \E l \in 0..n : nth[m] = nth[l]
    <3>1. PICK l \in 0..n : nth[m] = nth[l]
      BY <2>3
    <3>2. nth[m + 1] = d.content[nth[l]].next
      BY <1>4, <1>6, <2>1, <2>2, <3>1
    <3>3. CASE l = n
      BY <1>2, <1>3, <2>1, <3>2, <3>3
    <3>4. CASE l # n
      <4>1. l \in 0..size-1 /\ l + 1 \in 0..n /\ l + 1 # 0
        BY <1>1, <3>4
      <4>2. nth[l + 1] = d.content[nth[l]].next
        BY <1>4, <1>6, <4>1
      <4> QED BY <1>4, <2>1, <3>2, <4>1, <4>2
    <3> QED BY <3>3, <3>4
  <2>4. CASE nth[m] = next /\ ~\E l \in 0..n : nth[m] = nth[l]
    <3>1. next >= size
      BY <1>3, <2>4
    <3>2. next \in Nat
      BY <1>1, <1>5 DEF Chain
    <3>3. nth[m + 1] = nth[m]
      BY <1>1, <1>6, <2>1, <2>4, <3>1, <3>2
    <3> QED BY <1>3, <2>1, <2>4, <3>3
  <2> QED BY <2>2, <2>3, <2>4
<1>9. \A m \in 0..size : m \in Good
  <2> HIDE DEF Good
  <2> QED BY ONLY <1>1, <1>7, <1>8, UpTo
<1>10. ASSUME NEW m \in 1..size PROVE nth[m] # 0
  <2>1. m \in 0..size /\ m # 0
    BY <1>1
  <2> QED BY <1>9, <2>1
<1> QED BY <1>1, <1>10

-----------------------------------------------------------------------------
(* Walks.                                                                  *)

(* n blocks of the chain nth have been left, each another one.             *)
Path(d, key, nth, n) ==
  /\ Chain(d, key, nth) /\ n \in 0..d.blocks-1
  /\ \A m \in 0..n : nth[m] \in DirBlocks(d) /\ (m = 0 \/ nth[m] # 0)
  /\ \A k, m \in 0..n : nth[k] = nth[m] => k = m

(* Slot j of block m is an entry, and was there before the index-th slot   *)
(* of block n.                                                             *)
Past(n, index, m, j) == (m # 0 \/ j # 0) /\ (m < n \/ j < index)

(* i comes before j in the first blocks, up to n.                          *)
Earlier(nth, n, i, j) ==
  \E k \in 0..n : \E m \in 0..k : nth[m] = i[1] /\ nth[k] = j[1] /\ (m < k \/ i[2] < j[2])

(* The files taken from the slots of p each before the index-th of block n.*)
Taking(d, nth, n, index, p, files) ==
  /\ files \in Seq(Inodes(d)) /\ Len(files) <= n * p + index
  /\ \A a \in 1..Len(files) : \E m \in 0..n, j \in 0..p-1 :
       files[a] = <<nth[m], j>> /\ Past(n, index, m, j) /\ ~Deleted(EntryAt(d, <<nth[m], j>>))
  /\ \A m \in 0..n, j \in 0..p-1 :
       Past(n, index, m, j) /\ ~Deleted(EntryAt(d, <<nth[m], j>>)) =>
         \E a \in 1..Len(files) : files[a] = <<nth[m], j>>
  /\ \A a, b \in 1..Len(files) : a < b => Earlier(nth, n, files[a], files[b])

LEMMA InodeIs ==
  ASSUME NEW d, IsDisk(d), NEW i \in Inodes(d), i # Root
  PROVE  /\ i[1] \in DirBlocks(d) /\ i[2] \in DOMAIN d.content[i[1]].entries /\ i = <<i[1], i[2]>>
         /\ EntryAt(d, i) = d.content[i[1]].entries[i[2]] /\ ~Deleted(EntryAt(d, i))
BY DEF Inodes, EntryAt

LEMMA SlotInode ==
  ASSUME NEW d, IsDisk(d), NEW key, NEW nth, NEW n, Path(d, key, nth, n),
         d.content[key].storage \in {"volume", "subdir"},
         NEW m \in 0..n, NEW j \in 0..d.content[key].head.perBlock-1, m # 0 \/ j # 0,
         ~Deleted(EntryAt(d, <<nth[m], j>>))
  PROVE  <<nth[m], j>> \in Inodes(d) /\ <<nth[m], j>> # Root
<1>1. PICK x : x = nth[m]
  OBVIOUS
<1>2. x \in DirBlocks(d)
  BY <1>1 DEF Path
<1>3. j \in DOMAIN d.content[x].entries
  <2>1. key \in 0..d.blocks-1
    <3>1. n \in Nat /\ 0 \in 0..n /\ nth[0] = key
      BY DiskIs DEF Path, Chain
    <3>2. nth[0] \in DirBlocks(d)
      BY <3>1 DEF Path
    <3> QED BY <3>1, <3>2, DirIs
  <2> QED BY <1>2, <2>1, HeadIs
<1>4. j \in Nat
  BY <1>2, <1>3, DirIs
<1>5. j = 0 => \E b \in DirBlocks(d) : d.content[b].next = x
  <2> SUFFICES ASSUME m # 0 PROVE \E b \in DirBlocks(d) : d.content[b].next = x
    BY <1>4
  <2>1. n \in 0..d.blocks-1 /\ d.blocks \in Nat
    BY DiskIs DEF Path
  <2>2. m - 1 \in 0..n /\ m - 1 \in 0..d.blocks-1 /\ (m - 1) + 1 = m
    BY <2>1
  <2>3. nth[m - 1] \in DirBlocks(d) /\ (m - 1 = 0 \/ nth[m - 1] # 0)
    BY <2>2 DEF Path
  <2>4. nth[m - 1] < d.blocks
    BY <2>1, <2>3, DirIs
  <2>5. nth[(m - 1) + 1] = d.content[nth[m - 1]].next
    BY <2>2, <2>3, <2>4 DEF Path, Chain
  <2> QED BY <1>1, <2>2, <2>3, <2>5
<1>6. PICK i : i = <<x, j>>
  OBVIOUS
<1>7. i[1] = x /\ i[2] = j
  BY <1>6
<1>8. i \in UNION {{b} \X DOMAIN d.content[b].entries : b \in DirBlocks(d)}
  BY <1>2, <1>3, <1>6
<1>9. EntryAt(d, i).storage = "header" =>
        i[2] # 0 \/ \E b \in DirBlocks(d) : d.content[b].next = i[1]
  BY <1>5, <1>7
<1>10. ~Deleted(EntryAt(d, i))
  BY <1>1, <1>6
<1>11. i \in Inodes(d)
  BY <1>8, <1>9, <1>10 DEF Inodes
<1>12. i # Root
  BY <1>4, <1>7 DEF Root
<1> QED BY <1>1, <1>6, <1>11, <1>12

(* One more entry.                                                         *)
LEMMA TakesEntry ==
  ASSUME NEW d, IsDisk(d), NEW key, NEW nth, NEW n, Path(d, key, nth, n),
         d.content[key].storage \in {"volume", "subdir"},
         NEW p, p = d.content[key].head.perBlock, NEW index \in 0..p-1, n = 0 => index # 0,
         NEW files, Taking(d, nth, n, index, p, files)
  PROVE  Taking(d, nth, n, index + 1, p,
                IF Deleted(EntryAt(d, <<nth[n], index>>)) THEN files
                ELSE Append(files, <<nth[n], index>>))
<1>1. /\ n \in Nat /\ p \in Nat /\ index \in Nat /\ n * p \in Nat /\ n \in 0..n
      /\ files \in Seq(Inodes(d)) /\ Len(files) \in Nat
  <2>1. key \in 0..d.blocks-1 /\ n \in Nat
    <3>1. n \in Nat /\ 0 \in 0..n /\ nth[0] = key
      BY DiskIs DEF Path, Chain
    <3>2. nth[0] \in DirBlocks(d)
      BY <3>1 DEF Path
    <3> QED BY <3>1, <3>2, DirIs
  <2>2. p \in Nat
    BY <2>1, HeadIs
  <2>3. files \in Seq(Inodes(d)) /\ Len(files) \in Nat
    BY LenProperties DEF Taking
  <2>4. n * p \in Nat
    BY ONLY <2>1, <2>2, Products
  <2>5. index \in Nat /\ n \in 0..n
    BY ONLY <2>1, <2>2, index \in 0..p-1
  <2> QED BY ONLY <2>1, <2>2, <2>3, <2>4, <2>5
<1>2. PICK slot : slot = <<nth[n], index>>
  OBVIOUS
<1>3. \A m \in 0..n, j \in 0..p-1 : Past(n, index + 1, m, j) <=> (Past(n, index, m, j) \/ (m = n /\ j = index))
  BY <1>1 DEF Past
<1>4. Len(files) <= n * p + index /\ Len(files) <= n * p + (index + 1)
  <2>1. Len(files) <= n * p + index
    BY DEF Taking
  <2>2. PICK x : x = n * p
    OBVIOUS
  <2> QED BY ONLY <1>1, <2>1, <2>2
<1>5. CASE Deleted(EntryAt(d, slot))
  <2>1. \A a \in 1..Len(files) : \E m \in 0..n, j \in 0..p-1 :
          files[a] = <<nth[m], j>> /\ Past(n, index + 1, m, j) /\ ~Deleted(EntryAt(d, <<nth[m], j>>))
    BY <1>3 DEF Taking
  <2>2. \A m \in 0..n, j \in 0..p-1 :
          Past(n, index + 1, m, j) /\ ~Deleted(EntryAt(d, <<nth[m], j>>)) =>
            \E a \in 1..Len(files) : files[a] = <<nth[m], j>>
    BY <1>2, <1>3, <1>5 DEF Taking
  <2> QED BY <1>1, <1>2, <1>4, <1>5, <2>1, <2>2 DEF Taking
<1>6. CASE ~Deleted(EntryAt(d, slot))
  <2>1. slot \in Inodes(d)
    BY <1>1, <1>2, <1>6, SlotInode
  <2>2. PICK more : more = Append(files, slot)
    OBVIOUS
  <2>3. /\ more \in Seq(Inodes(d)) /\ Len(more) = Len(files) + 1
        /\ \A a \in 1..Len(files) : more[a] = files[a]
        /\ more[Len(files) + 1] = slot
    BY <1>1, <2>1, <2>2, AppendProperties
  <2>4. \A a \in 1..Len(more) : a \in 1..Len(files) \/ a = Len(files) + 1
    BY <1>1, <2>3
  <2>5. ASSUME NEW a \in 1..Len(more)
        PROVE  \E m \in 0..n, j \in 0..p-1 :
          more[a] = <<nth[m], j>> /\ Past(n, index + 1, m, j) /\ ~Deleted(EntryAt(d, <<nth[m], j>>))
    <3>1. CASE a \in 1..Len(files)
      BY <1>3, <2>3, <3>1 DEF Taking
    <3>2. CASE a = Len(files) + 1
      <4>1. Past(n, index + 1, n, index)
        BY <1>1 DEF Past
      <4> QED BY <1>1, <1>2, <1>6, <2>3, <3>2, <4>1
    <3> QED BY <2>4, <3>1, <3>2
  <2>6. ASSUME NEW m \in 0..n, NEW j \in 0..p-1, Past(n, index + 1, m, j),
               ~Deleted(EntryAt(d, <<nth[m], j>>))
        PROVE  \E a \in 1..Len(more) : more[a] = <<nth[m], j>>
    <3>1. CASE Past(n, index, m, j)
      <4>1. PICK a \in 1..Len(files) : files[a] = <<nth[m], j>>
        BY <2>6, <3>1 DEF Taking
      <4>2. a \in 1..Len(more)
        BY <1>1, <2>3
      <4> QED BY <2>3, <4>1, <4>2
    <3>2. CASE m = n /\ j = index
      <4>1. Len(files) + 1 \in 1..Len(more)
        BY <1>1, <2>3
      <4> QED BY <1>2, <2>3, <3>2, <4>1
    <3> QED BY <1>3, <2>6, <3>1, <3>2
  <2>7. ASSUME NEW a \in 1..Len(more), NEW b \in 1..Len(more), a < b
        PROVE  Earlier(nth, n, more[a], more[b])
    <3>1. a \in 1..Len(files)
      BY <1>1, <2>3, <2>7
    <3>2. CASE b \in 1..Len(files)
      BY <2>3, <2>7, <3>1, <3>2 DEF Taking
    <3>3. CASE b = Len(files) + 1
      <4>1. PICK m \in 0..n, j \in 0..p-1 : files[a] = <<nth[m], j>> /\ Past(n, index, m, j)
        BY <3>1 DEF Taking
      <4>2. more[a][1] = nth[m] /\ more[a][2] = j /\ more[b][1] = nth[n] /\ more[b][2] = index
        BY <1>2, <2>3, <3>1, <3>3, <4>1
      <4>3. m < n \/ j < index
        BY <4>1 DEF Past
      <4> QED BY <1>1, <4>2, <4>3 DEF Earlier
    <3> QED BY <2>4, <3>2, <3>3
  <2>8. Len(more) <= n * p + (index + 1)
    <3>1. PICK x : x = n * p
      OBVIOUS
    <3> QED BY ONLY <1>1, <1>4, <2>3, <3>1
  <2>9. Taking(d, nth, n, index + 1, p, more)
    BY <2>3, <2>5, <2>6, <2>7, <2>8 DEF Taking
  <2> QED BY <1>2, <1>6, <2>2, <2>9
<1> QED BY <1>5, <1>6

(* The block is left for the next.                                         *)
LEMMA TakesBlock ==
  ASSUME NEW d, NEW nth, NEW n \in Nat, NEW p \in Nat, NEW files, Taking(d, nth, n, p, p, files)
  PROVE  Taking(d, nth, n + 1, 0, p, files)
<1>1. \A m \in 0..n, j \in 0..p-1 : m \in 0..n+1 /\ (Past(n, p, m, j) <=> Past(n + 1, 0, m, j))
  BY DEF Past
<1>2. \A m \in 0..n+1, j \in 0..p-1 : Past(n + 1, 0, m, j) => m \in 0..n
  BY DEF Past
<1>3. Len(files) <= (n + 1) * p + 0
  BY Products DEF Taking
<1>4. \A a \in 1..Len(files) : \E m \in 0..n+1, j \in 0..p-1 :
        files[a] = <<nth[m], j>> /\ Past(n + 1, 0, m, j) /\ ~Deleted(EntryAt(d, <<nth[m], j>>))
  BY <1>1 DEF Taking
<1>5. \A m \in 0..n+1, j \in 0..p-1 :
        Past(n + 1, 0, m, j) /\ ~Deleted(EntryAt(d, <<nth[m], j>>)) =>
          \E a \in 1..Len(files) : files[a] = <<nth[m], j>>
  BY <1>1, <1>2 DEF Taking
<1>6. ASSUME NEW i, NEW j, Earlier(nth, n, i, j) PROVE Earlier(nth, n + 1, i, j)
  <2>1. \A k \in 0..n : k \in 0..n+1
    OBVIOUS
  <2> QED BY <1>6, <2>1 DEF Earlier
<1> QED BY <1>3, <1>4, <1>5, <1>6 DEF Taking

(* What every walk of the directory from key is.                           *)
Walks(d) ==
  [status : {"walking", "ok", "error", "throws"}, block : Nat, index : Nat,
   visited : SUBSET Nat, perBlock : Nat, files : Seq(Inodes(d))]

(* The walk w is in the n-th block, or has left its last slot for good.    *)
OnBlock(d, key, w, n) ==
  LET nth == ChainFrom(d, key)
      p == d.content[key].head.perBlock
      next == d.content[nth[n]].next
  IN  /\ Path(d, key, nth, n) /\ w.block = nth[n]
      /\ w.visited = {nth[m] : m \in 0..n} /\ IsFiniteSet(w.visited)
      /\ Cardinality(w.visited) = n + 1
      /\ w.perBlock = p /\ (n = 0 => w.index # 0)
      /\ Taking(d, nth, n, w.index, p, w.files)
      /\ \/ w.status = "walking" /\ w.index \in 0..p-1
         \/ /\ w.status # "walking" /\ w.index = p
            /\ w.status = "ok" <=> next = 0
            /\ w.status # "ok" => next >= d.blocks \/ \E m \in 0..n : next = nth[m]

Walked(d, key, storage, w) ==
  /\ w \in Walks(d) /\ IsFiniteSet(w.visited) /\ (w.status = "throws" => PointsPast(d))
  /\ \/ ~HasHeader(d, key, storage) /\ w.status \in {"error", "throws"} /\ w.files = <<>>
     \/ /\ HasHeader(d, key, storage) /\ d.content[key].head.count = 0
        /\ w.status = "ok" /\ w.files = <<>>
     \/ /\ HasHeader(d, key, storage) /\ d.content[key].head.count # 0
        /\ \E n \in 0..d.blocks-1 : OnBlock(d, key, w, n)

LEMMA HeaderIs ==
  ASSUME NEW d, IsDisk(d), NEW key \in Nat, NEW storage \in {"volume", "subdir"},
         HasHeader(d, key, storage)
  PROVE  /\ key \in 0..d.blocks-1 /\ key \in DirBlocks(d)
         /\ d.content[key].storage \in {"volume", "subdir"}
         /\ d.content[key].head.count \in Nat /\ d.content[key].head.perBlock \in Nat \ {0, 1}
         /\ Chain(d, key, ChainFrom(d, key))
<1>1. key \in 0..d.blocks-1 /\ d.content[key].storage \in {"volume", "subdir"}
  BY DiskIs DEF HasHeader
<1>2. /\ key \in DirBlocks(d) /\ d.content[key].head.count \in Nat
      /\ d.content[key].head.perBlock \in Nat \ {0, 1}
  BY <1>1, HeadIs
<1> QED BY <1>1, <1>2, ChainIs

LEMMA DirectoryIs ==
  ASSUME NEW d, IsDisk(d), NEW key \in Nat, NEW storage \in {"volume", "subdir"}
  PROVE  /\ HasHeader(d, key, storage) =>
              Directory(d, key, storage) = [status |-> "ok", head |-> d.content[key].head]
         /\ ~HasHeader(d, key, storage) =>
              /\ Directory(d, key, storage).status \in {"error", "throws"}
              /\ Directory(d, key, storage).status = "throws" => key = d.blocks
<1>1. PICK r : r = ReadBlock(d, key)
  OBVIOUS
<1>2. CASE key < d.blocks
  <2>1. r = [status |-> "ok", content |-> d.content[key]]
    BY <1>1, <1>2, ReadBlockIs
  <2>2. r.status = "ok" /\ r.content = d.content[key]
    BY <2>1
  <2>3. Directory(d, key, storage) =
          IF d.content[key].storage # storage THEN Failed
          ELSE [status |-> "ok", head |-> d.content[key].head]
    BY <1>1, <2>2 DEF Directory
  <2> QED BY <1>2, <2>3 DEF HasHeader, Failed
<1>3. CASE ~(key < d.blocks)
  <2>1. r.status \in {"error", "throws"} /\ (r.status = "throws" => key = d.blocks)
    BY <1>1, <1>3, ReadBlockIs
  <2>2. Directory(d, key, storage) = r
    BY <1>1, <2>1 DEF Directory
  <2> QED BY <1>3, <2>1, <2>2 DEF HasHeader
<1> QED BY <1>2, <1>3

LEMMA EnterWalks ==
  ASSUME NEW d, IsDisk(d), NEW key \in Nat, NEW storage \in {"volume", "subdir"},
         key = d.blocks => PointsPast(d)
  PROVE  /\ Walked(d, key, storage, Enter(d, key, storage))
<1>1. PICK w : w = [status |-> "walking", block |-> key, index |-> 1, visited |-> {key},
                    perBlock |-> 0, files |-> <<>>]
  OBVIOUS
<1>2. PICK r : r = Directory(d, key, storage)
  OBVIOUS
<1>3. Enter(d, key, storage) =
        IF r.status # "ok" THEN [w EXCEPT !.status = r.status]
        ELSE IF r.head.count = 0 THEN [w EXCEPT !.status = "ok"]
        ELSE [w EXCEPT !.perBlock = r.head.perBlock]
  BY <1>1, <1>2 DEF Enter, Finished
<1>4. <<>> \in Seq(Inodes(d)) /\ Len(<<>>) = 0
  BY EmptySeq
<1>5. CASE ~HasHeader(d, key, storage)
  <2>1. r.status \in {"error", "throws"} /\ (r.status = "throws" => key = d.blocks)
    BY <1>2, <1>5, DirectoryIs
  <2>2. PICK st : st = r.status
    OBVIOUS
  <2>3. Enter(d, key, storage) = [status |-> st, block |-> key, index |-> 1, visited |-> {key},
                                  perBlock |-> 0, files |-> <<>>]
    BY <1>1, <1>3, <2>1, <2>2
  <2>4. PICK x : x = Enter(d, key, storage)
    OBVIOUS
  <2>5. x \in Walks(d) /\ x.status = st /\ x.files = <<>> /\ x.visited = {key}
    BY <1>4, <2>1, <2>2, <2>3, <2>4 DEF Walks
  <2>6. IsFiniteSet(x.visited)
    BY <2>5, FS_Singleton
  <2> QED BY <1>5, <2>1, <2>2, <2>4, <2>5, <2>6 DEF Walked
<1>6. CASE HasHeader(d, key, storage)
  <2>1. r.status = "ok" /\ r.head = d.content[key].head
    BY <1>2, <1>6, DirectoryIs
  <2>2. PICK h : h = d.content[key].head
    OBVIOUS
  <2>3. h.count \in Nat /\ h.perBlock \in Nat \ {0, 1}
    BY <1>6, <2>2, HeaderIs
  <2>4. PICK x : x = Enter(d, key, storage)
    OBVIOUS
  <2>5. CASE h.count = 0
    <3>1. x = [status |-> "ok", block |-> key, index |-> 1, visited |-> {key},
               perBlock |-> 0, files |-> <<>>]
      BY <1>1, <1>3, <2>1, <2>2, <2>4, <2>5
    <3>2. x \in Walks(d) /\ x.status = "ok" /\ x.files = <<>> /\ x.visited = {key}
      BY <1>4, <3>1 DEF Walks
    <3>3. IsFiniteSet(x.visited)
      BY <3>2, FS_Singleton
    <3> QED BY <1>6, <2>2, <2>4, <2>5, <3>2, <3>3 DEF Walked
  <2>6. CASE h.count # 0
    <3>1. PICK p : p = h.perBlock
      OBVIOUS
    <3>2. x = [status |-> "walking", block |-> key, index |-> 1, visited |-> {key},
               perBlock |-> p, files |-> <<>>]
      BY <1>1, <1>3, <2>1, <2>2, <2>4, <2>6, <3>1
    <3>3. p \in Nat /\ p # 0 /\ p # 1 /\ 1 \in 0..p-1
      BY <2>3, <3>1
    <3>4. /\ x \in Walks(d) /\ x.status = "walking" /\ x.files = <<>> /\ x.block = key
          /\ x.index = 1 /\ x.visited = {key} /\ x.perBlock = p
      BY <1>4, <3>2, <3>3 DEF Walks
    <3>5. PICK nth : nth = ChainFrom(d, key)
      OBVIOUS
    <3>6. Chain(d, key, nth) /\ key \in DirBlocks(d) /\ nth[0] = key /\ 0 \in 0..d.blocks-1
      <4>1. Chain(d, key, nth) /\ key \in DirBlocks(d)
        BY <1>6, <3>5, HeaderIs
      <4>2. 0 \in 0..d.blocks-1
        BY DiskIs
      <4> QED BY <4>1, <4>2 DEF Chain
    <3>7. Path(d, key, nth, 0)
      BY <3>6 DEF Path
    <3>8. x.visited = {nth[m] : m \in 0..0} /\ IsFiniteSet(x.visited) /\ Cardinality(x.visited) = 0 + 1
      <4>1. x.visited = {nth[m] : m \in 0..0}
        BY <3>4, <3>6
      <4>2. IsFiniteSet({key}) /\ Cardinality({key}) = 1
        BY FS_Singleton
      <4> QED BY ONLY <3>4, <4>1, <4>2
    <3>9. Taking(d, nth, 0, 1, p, <<>>)
      <4>1. \A m \in 0..0, j \in 0..p-1 : ~Past(0, 1, m, j)
        BY <3>3 DEF Past
      <4>2. 0 <= 0 * p + 1
        BY <3>3
      <4>3. \A a \in 1..0 : FALSE
        OBVIOUS
      <4> QED BY <1>4, <4>1, <4>2, <4>3 DEF Taking
    <3>10. OnBlock(d, key, x, 0)
      BY <2>2, <3>1, <3>3, <3>4, <3>5, <3>6, <3>7, <3>8, <3>9 DEF OnBlock
    <3> QED BY <1>6, <2>2, <2>4, <2>6, <3>4, <3>6, <3>8, <3>10 DEF Walked
  <2> QED BY <2>5, <2>6
<1> QED BY <1>5, <1>6

LEMMA StepWalks ==
  ASSUME NEW d, IsDisk(d), NEW key \in Nat, NEW storage \in {"volume", "subdir"},
         NEW w, Walked(d, key, storage, w), w.status = "walking"
  PROVE  Walked(d, key, storage, Step(d, w))
<1>1. /\ HasHeader(d, key, storage) /\ d.content[key].head.count # 0 /\ w \in Walks(d)
      /\ \E n \in 0..d.blocks-1 : OnBlock(d, key, w, n)
  BY DEF Walked
<1>2. PICK n \in 0..d.blocks-1 : OnBlock(d, key, w, n)
  BY <1>1
<1>3. PICK nth : nth = ChainFrom(d, key)
  OBVIOUS
<1>4. PICK p : p = d.content[key].head.perBlock
  OBVIOUS
<1>5. PICK size : size = d.blocks /\ size \in Nat
  BY DiskIs
<1>6. PICK next : next = d.content[nth[n]].next
  OBVIOUS
<1>7. /\ Path(d, key, nth, n) /\ w.block = nth[n]
      /\ w.visited = {nth[m] : m \in 0..n} /\ IsFiniteSet(w.visited)
      /\ Cardinality(w.visited) = n + 1
      /\ w.perBlock = p /\ (n = 0 => w.index # 0)
      /\ Taking(d, nth, n, w.index, p, w.files) /\ w.index \in 0..p-1
  BY <1>2, <1>3, <1>4 DEF OnBlock
<1>8. p \in Nat /\ n \in Nat /\ d.content[key].storage \in {"volume", "subdir"}
  BY <1>1, <1>4, <1>5, HeaderIs
<1>9. PICK files : files = IF Deleted(EntryAt(d, <<nth[n], w.index>>)) THEN w.files
                           ELSE Append(w.files, <<nth[n], w.index>>)
  OBVIOUS
<1>10. Taking(d, nth, n, w.index + 1, p, files)
  BY <1>4, <1>7, <1>8, <1>9, TakesEntry
<1>11. files \in Seq(Inodes(d))
  BY <1>10 DEF Taking
<1>12. PICK t : t = [w EXCEPT !.files = files, !.index = w.index + 1]
  OBVIOUS
<1>13. /\ t \in Walks(d) /\ t.status = "walking" /\ t.block = nth[n] /\ t.index = w.index + 1
       /\ t.visited = w.visited /\ t.perBlock = p /\ t.files = files
  <2>1. w.index + 1 \in Nat
    BY <1>7, <1>8
  <2>2. PICK k : k = w.index + 1
    OBVIOUS
  <2>3. t = [w EXCEPT !.files = files, !.index = k]
    BY <1>12, <2>2
  <2>4. k \in Nat /\ w \in Walks(d) /\ files \in Seq(Inodes(d))
    BY <1>1, <1>11, <2>1, <2>2
  <2>5. /\ t \in Walks(d) /\ t.status = w.status /\ t.block = w.block /\ t.index = k
        /\ t.visited = w.visited /\ t.perBlock = w.perBlock /\ t.files = files
    BY ONLY <2>3, <2>4 DEF Walks
  <2> QED BY <1>7, <2>2, <2>5
<1>14. Step(d, w) = IF t.index >= p THEN Follow(d, t) ELSE t
  <2>1. t = [w EXCEPT !.files = IF Deleted(d.content[w.block].entries[w.index]) THEN @
                                ELSE Append(@, <<w.block, w.index>>),
                      !.index = @ + 1]
    <3>1. EntryAt(d, <<nth[n], w.index>>) = d.content[w.block].entries[w.index]
      BY <1>7 DEF EntryAt
    <3> QED BY <1>1, <1>7, <1>9, <1>12, <3>1 DEF Walks
  <2> QED BY <1>13, <2>1 DEF Step
<1>15. CASE ~(t.index >= p)
  <2>1. t.index \in 0..p-1 /\ t.index # 0
    BY <1>7, <1>8, <1>13, <1>15
  <2>2. OnBlock(d, key, t, n)
    BY <1>3, <1>4, <1>7, <1>10, <1>13, <2>1 DEF OnBlock
  <2> QED BY <1>1, <1>7, <1>13, <1>14, <1>15, <2>2 DEF Walked
<1>16. CASE t.index >= p
  <2>1. t.index = p /\ w.index + 1 = p /\ t.index # 0
    BY <1>7, <1>8, <1>13, <1>16
  <2>2. Taking(d, nth, n, p, p, files)
    BY <1>10, <2>1
  <2>3. nth[n] \in DirBlocks(d) /\ n \in 0..n
    BY <1>7, <1>8 DEF Path
  <2>4. next \in Nat /\ (next \in 1..size-1 => next \in DirBlocks(d))
    BY <1>5, <1>6, <2>3, DirIs
  <2>5. Follow(d, t) = IF next = 0 THEN Finished(t, "ok")
                       ELSE IF next \in w.visited THEN Finished(t, "error")
                       ELSE IF ReadBlock(d, next).status # "ok"
                         THEN Finished(t, ReadBlock(d, next).status)
                       ELSE [t EXCEPT !.block = next, !.index = 0,
                                      !.visited = @ \union {next}]
    BY <1>6, <1>13 DEF Follow
  <2>6. ASSUME NEW st \in {"ok", "error", "throws"}, (st = "ok") <=> (next = 0),
               st # "ok" => next >= size \/ \E m \in 0..n : next = nth[m],
               st = "throws" => PointsPast(d)
        PROVE  Walked(d, key, storage, Finished(t, st))
    <3>1. PICK x : x = Finished(t, st)
      OBVIOUS
    <3>2. /\ x \in Walks(d) /\ x.status = st /\ x.block = nth[n] /\ x.index = p
          /\ x.visited = w.visited /\ x.perBlock = p /\ x.files = files
      BY <1>13, <2>1, <3>1 DEF Finished, Walks
    <3>3. OnBlock(d, key, x, n)
      BY <1>3, <1>4, <1>5, <1>6, <1>7, <2>1, <2>2, <2>6, <3>2 DEF OnBlock
    <3> QED BY <1>1, <1>7, <2>6, <3>1, <3>2, <3>3 DEF Walked
  <2>7. CASE next = 0
    BY <1>14, <1>16, <2>5, <2>6, <2>7
  <2>8. CASE next # 0 /\ next \in w.visited
    <3>1. \E m \in 0..n : next = nth[m]
      BY <1>7, <2>8
    <3> QED BY <1>14, <1>16, <2>5, <2>6, <2>8, <3>1
  <2>9. CASE next # 0 /\ next \notin w.visited /\ ReadBlock(d, next).status # "ok"
    <3>1. PICK st : st = ReadBlock(d, next).status
      OBVIOUS
    <3>2. st \in {"error", "throws"} /\ next >= size /\ (st = "throws" => next = size)
      BY <1>5, <2>4, <2>9, <3>1, ReadBlockIs
    <3>3. st = "throws" => PointsPast(d)
      BY <1>5, <1>6, <2>3, <3>2, DirIs, PastEnd
    <3> QED BY <1>14, <1>16, <2>5, <2>6, <2>9, <3>1, <3>2, <3>3
  <2>10. CASE next # 0 /\ next \notin w.visited /\ ReadBlock(d, next).status = "ok"
    <3>1. next \in 1..size-1 /\ next \in DirBlocks(d)
      BY <1>5, <2>4, <2>10, ReadBlockIs
    <3>2. PICK x : x = [t EXCEPT !.block = next, !.index = 0, !.visited = @ \union {next}]
      OBVIOUS
    <3>3. /\ x \in Walks(d) /\ x.status = "walking" /\ x.block = next /\ x.index = 0
          /\ x.visited = w.visited \union {next} /\ x.perBlock = p /\ x.files = files
      BY <1>13, <2>4, <3>2 DEF Walks
    <3>4. IsFiniteSet(x.visited) /\ Cardinality(x.visited) = n + 1 + 1
      <4>1. IsFiniteSet(w.visited) /\ next \notin w.visited /\ Cardinality(w.visited) = n + 1
        BY <1>7, <2>10
      <4>2. /\ IsFiniteSet(w.visited \union {next})
            /\ Cardinality(w.visited \union {next}) = n + 1 + 1
        BY ONLY <4>1, FS_AddElement
      <4> QED BY <3>3, <4>2
    <3>5. nth[n + 1] = next
      <4>1. nth[n] < size /\ (n = 0 \/ nth[n] # 0) /\ n \in 0..size-1
        <5>1. nth[n] \in 0..d.blocks-1
          BY ONLY <2>3, IsDisk(d), DirIs
        <5>2. n = 0 \/ nth[n] # 0
          BY <1>7, <2>3 DEF Path
        <5> QED BY ONLY <1>5, <1>8, <5>1, <5>2, n \in 0..d.blocks-1
      <4> QED BY <1>5, <1>6, <1>7, <4>1 DEF Path, Chain
    <3>6. \A m \in 0..n+1 : m \in 0..n \/ m = n + 1
      BY <1>8
    <3>7. x.visited = {nth[m] : m \in 0..n+1}
      <4>1. \A m \in 0..n : m \in 0..n+1
        BY <1>8
      <4>2. n + 1 \in 0..n+1
        BY <1>8
      <4> QED BY <1>7, <3>3, <3>5, <3>6, <4>1, <4>2
    <3>8. n + 1 \in 0..size-1
      <4>1. x.visited \subseteq 0..size-1
        <5>1. \A m \in 0..n : nth[m] \in DirBlocks(d)
          BY <1>7 DEF Path
        <5>2. \A b \in DirBlocks(d) : b \in 0..size-1
          BY <1>5, DirIs
        <5>3. \A b \in w.visited : b \in 0..size-1
          BY <1>7, <5>1, <5>2
        <5> QED BY <3>1, <3>3, <5>2, <5>3
      <4>2. IsFiniteSet(0..size-1) /\ Cardinality(0..size-1) = size
        <5>1. 0 \in Int /\ size - 1 \in Int /\ 2 < size
          BY <1>5, DiskIs
        <5>2. /\ IsFiniteSet(0..size-1)
              /\ Cardinality(0..size-1) = IF 0 > size - 1 THEN 0 ELSE size - 1 - 0 + 1
          BY ONLY <5>1, FS_Interval
        <5> QED BY <1>5, <5>1, <5>2
      <4>3. n + 1 + 1 <= size
        <5>1. Cardinality(x.visited) <= Cardinality(0..size-1)
          BY ONLY <4>1, <4>2, FS_Subset
        <5> QED BY ONLY <3>4, <4>2, <5>1
      <4> QED BY <1>5, <1>8, <4>3
    <3>9. Path(d, key, nth, n + 1)
      <4>1. \A m \in 0..n+1 : nth[m] \in DirBlocks(d) /\ (m = 0 \/ nth[m] # 0)
        BY <1>7, <3>1, <3>5, <3>6, <2>10 DEF Path
      <4>2. \A m \in 0..n : nth[m] # nth[n + 1]
        BY <1>7, <2>10, <3>5
      <4>3. \A k, m \in 0..n+1 : nth[k] = nth[m] => k = m
        BY <1>7, <3>6, <4>2 DEF Path
      <4> QED BY <1>5, <1>7, <3>8, <4>1, <4>3 DEF Path
    <3>10. Taking(d, nth, n + 1, 0, p, files)
      BY <1>8, <2>2, TakesBlock
    <3>11. 0 \in 0..p-1 /\ n + 1 # 0
      BY <1>8, <2>1, <1>7
    <3>12. OnBlock(d, key, x, n + 1)
      BY <1>3, <1>4, <3>3, <3>4, <3>5, <3>7, <3>9, <3>10, <3>11 DEF OnBlock
    <3>13. Walked(d, key, storage, x)
      BY <1>1, <1>5, <3>3, <3>4, <3>8, <3>12 DEF Walked
    <3> QED BY <1>14, <1>16, <2>5, <2>10, <3>2, <3>13
  <2> QED BY <2>7, <2>8, <2>9, <2>10
<1> QED BY <1>15, <1>16

(* A walk is no longer than the blocks it visited.                         *)
LEMMA WalkIs ==
  ASSUME NEW d, IsDisk(d), NEW key \in Nat, NEW storage \in {"volume", "subdir"},
         NEW w, Walked(d, key, storage, w)
  PROVE  /\ w.status \in {"walking", "ok", "error", "throws"}
         /\ w.status = "walking" =>
              w.index \in 0..w.perBlock-1 /\ w.visited \subseteq 0..d.blocks-1
         /\ Len(w.files) <= w.perBlock * Cardinality(w.visited)
<1>1. w \in Walks(d) /\ IsFiniteSet(w.visited)
  BY DEF Walked
<1>2. /\ w.status \in {"walking", "ok", "error", "throws"} /\ w.perBlock \in Nat
      /\ w.files \in Seq(Inodes(d)) /\ Len(w.files) \in Nat /\ Cardinality(w.visited) \in Nat
  BY <1>1, FS_CardinalityType, LenProperties DEF Walks
<1>3. CASE w.files = <<>> /\ w.status # "walking"
  <2>1. Len(w.files) = 0
    BY <1>3, EmptySeq
  <2>2. w.perBlock * Cardinality(w.visited) \in Nat
    BY ONLY <1>2, Products
  <2> QED BY <1>2, <1>3, <2>1, <2>2
<1>4. CASE HasHeader(d, key, storage) /\ \E n \in 0..d.blocks-1 : OnBlock(d, key, w, n)
  <2>1. PICK n \in 0..d.blocks-1 : OnBlock(d, key, w, n)
    BY <1>4
  <2>2. PICK nth : nth = ChainFrom(d, key)
    OBVIOUS
  <2>3. PICK p : p = d.content[key].head.perBlock
    OBVIOUS
  <2>4. /\ Path(d, key, nth, n) /\ w.visited = {nth[m] : m \in 0..n}
        /\ Cardinality(w.visited) = n + 1 /\ w.perBlock = p
        /\ Taking(d, nth, n, w.index, p, w.files)
        /\ (w.status = "walking" /\ w.index \in 0..p-1) \/ (w.status # "walking" /\ w.index = p)
    BY <2>1, <2>2, <2>3 DEF OnBlock
  <2>5. w.visited \subseteq 0..d.blocks-1
    <3>1. \A m \in 0..n : nth[m] \in DirBlocks(d)
      BY <2>4 DEF Path
    <3>2. \A b \in DirBlocks(d) : b \in 0..d.blocks-1
      BY DirIs
    <3> QED BY <2>4, <3>1, <3>2
  <2>6. n \in Nat /\ p \in Nat /\ w.index <= p /\ w.index \in Nat
    BY <1>2, <2>1, <2>4, DiskIs
  <2>7. Len(w.files) <= n * p + w.index
    BY <2>4 DEF Taking
  <2>8. (n + 1) * p = n * p + p /\ n * p \in Nat
    BY ONLY <2>6, Products
  <2>9. p * (n + 1) = (n + 1) * p
    BY ONLY <2>6
  <2>10. PICK x : x = n * p
    OBVIOUS
  <2>11. Len(w.files) <= x + p
    BY ONLY <1>2, <2>6, <2>7, <2>8, <2>10
  <2>12. Len(w.files) <= w.perBlock * Cardinality(w.visited)
    BY ONLY <2>4, <2>8, <2>9, <2>10, <2>11
  <2> QED BY <1>2, <2>4, <2>5, <2>12
<1> QED BY <1>3, <1>4 DEF Walked

(* What a finished walk has, and an open directory keeps.                  *)
Listing(d, key, storage, files) ==
  /\ files \in Seq(Inodes(d)) /\ IsInjective(files)
  /\ \A a \in DOMAIN files : files[a] # Root
  /\ ToSet(files) = IF HasHeader(d, key, storage) THEN ActiveEntries(d, key) ELSE {}
  /\ \A i, j \in DOMAIN files : i < j => Before(d, key, files[i], files[j])

LEMMA EmptyListing ==
  ASSUME NEW d, NEW key, NEW storage,
         ~HasHeader(d, key, storage) \/ ActiveEntries(d, key) = {}
  PROVE  Listing(d, key, storage, <<>>)
<1>1. <<>> \in Seq(Inodes(d)) /\ DOMAIN <<>> = {}
  BY EmptySeq
<1>2. ToSet(<<>>) = {}
  BY <1>1 DEF ToSet
<1> QED BY <1>1, <1>2 DEF Listing, IsInjective

LEMMA WalkLists ==
  ASSUME NEW d, IsDisk(d), NEW key \in Nat, NEW storage \in {"volume", "subdir"},
         NEW w, Walked(d, key, storage, w), w.status # "walking"
  PROVE  /\ Listing(d, key, storage, w.files)
         /\ w.status = "ok" => HasHeader(d, key, storage)
         /\ w.status # "ok" => ~Sound(d, key, storage)
<1>1. CASE ~HasHeader(d, key, storage)
  <2>1. w.files = <<>> /\ w.status # "ok"
    BY <1>1 DEF Walked
  <2>2. ~Sound(d, key, storage)
    BY <1>1 DEF Sound
  <2> QED BY <1>1, <2>1, <2>2, EmptyListing
<1>2. CASE HasHeader(d, key, storage) /\ d.content[key].head.count = 0
  <2>1. w.files = <<>> /\ w.status = "ok"
    BY <1>2 DEF Walked
  <2>2. ActiveEntries(d, key) = {}
    BY <1>2 DEF ActiveEntries
  <2> QED BY <1>2, <2>1, <2>2, EmptyListing
<1>3. CASE HasHeader(d, key, storage) /\ d.content[key].head.count # 0
  <2>1. PICK n \in 0..d.blocks-1 : OnBlock(d, key, w, n)
    BY <1>3 DEF Walked
  <2>2. PICK nth : nth = ChainFrom(d, key)
    OBVIOUS
  <2>3. PICK p : p = d.content[key].head.perBlock
    OBVIOUS
  <2>4. PICK files : files = w.files
    OBVIOUS
  <2>5. PICK size : size = d.blocks /\ size \in Nat
    BY DiskIs
  <2>6. PICK next : next = d.content[nth[n]].next
    OBVIOUS
  <2>7. /\ Path(d, key, nth, n) /\ Taking(d, nth, n, p, p, files)
        /\ w.status = "ok" <=> next = 0
        /\ w.status # "ok" => next >= size \/ \E m \in 0..n : next = nth[m]
    BY <2>1, <2>2, <2>3, <2>4, <2>5, <2>6 DEF OnBlock
  <2>8. /\ Chain(d, key, nth) /\ n \in 0..size-1 /\ n \in Nat /\ p \in Nat
        /\ \A m \in 0..n : nth[m] \in DirBlocks(d) /\ nth[m] < size /\ (m = 0 \/ nth[m] # 0)
        /\ \A k, m \in 0..n : nth[k] = nth[m] => k = m
    <3>1. \A b \in DirBlocks(d) : b < size
      BY <2>5, DirIs
    <3>2. p \in Nat
      BY <1>3, <2>3, HeaderIs
    <3> QED BY <2>5, <2>7, <3>1, <3>2 DEF Path
  <2>9. files \in Seq(Inodes(d)) /\ DOMAIN files = 1..Len(files) /\ Len(files) \in Nat
    BY <2>7, LenProperties DEF Taking
  <2>10. ASSUME NEW a \in 1..Len(files)
         PROVE  \E m \in 0..n, j \in 0..p-1 :
                  /\ files[a] = <<nth[m], j>> /\ files[a][1] = nth[m] /\ files[a][2] = j
                  /\ m # 0 \/ j # 0
                  /\ ~Deleted(EntryAt(d, <<nth[m], j>>))
    <3>1. PICK m \in 0..n, j \in 0..p-1 :
            files[a] = <<nth[m], j>> /\ Past(n, p, m, j) /\ ~Deleted(EntryAt(d, <<nth[m], j>>))
      BY <2>7 DEF Taking
    <3>2. m # 0 \/ j # 0
      BY <3>1 DEF Past
    <3>3. files[a][1] = nth[m] /\ files[a][2] = j
      BY <3>1
    <3> QED BY <3>1, <3>2, <3>3
  <2>11. \A m \in 0..n, j \in 0..p-1 :
           (m # 0 \/ j # 0) /\ ~Deleted(EntryAt(d, <<nth[m], j>>)) =>
             \E a \in 1..Len(files) : files[a] = <<nth[m], j>>
    <3>1. \A m \in 0..n, j \in 0..p-1 : m # 0 \/ j # 0 => Past(n, p, m, j)
      BY <2>8 DEF Past
    <3> QED BY <2>7, <3>1 DEF Taking
  <2>12. ASSUME NEW a \in 1..Len(files), NEW b \in 1..Len(files), a < b
         PROVE  Earlier(nth, n, files[a], files[b])
    BY <2>7, <2>12 DEF Taking
  <2>13. \A a \in DOMAIN files : files[a] # Root
    <3> TAKE a \in DOMAIN files
    <3>1. PICK m \in 0..n, j \in 0..p-1 : files[a][2] = j
      BY <2>9, <2>10
    <3>2. j # -1
      BY <2>8
    <3> QED BY <3>1, <3>2 DEF Root
  <2>14. ASSUME NEW a \in 1..Len(files), NEW b \in 1..Len(files), a < b
         PROVE  files[a] # files[b]
    <3>1. PICK k \in 0..n : \E m \in 0..k :
            nth[m] = files[a][1] /\ nth[k] = files[b][1] /\ (m < k \/ files[a][2] < files[b][2])
      BY <2>12, <2>14 DEF Earlier
    <3>2. PICK m \in 0..k :
            nth[m] = files[a][1] /\ nth[k] = files[b][1] /\ (m < k \/ files[a][2] < files[b][2])
      BY <3>1
    <3>3. PICK j \in 0..p-1 : files[a][2] = j
      BY <2>10
    <3>4. m \in 0..n /\ ~(j < j)
      BY <2>8, <3>2
    <3> SUFFICES ASSUME files[a] = files[b] PROVE FALSE
      OBVIOUS
    <3>5. m = k
      BY <2>8, <3>2, <3>4
    <3>6. ~(m < k)
      BY <2>8, <3>5
    <3> QED BY <3>2, <3>3, <3>4, <3>6
  <2>15. IsInjective(files)
    <3>1. \A a, b \in 1..Len(files) : a < b \/ b < a \/ a = b
      BY <2>9
    <3> QED BY <2>9, <2>14, <3>1 DEF IsInjective
  <2>16. ASSUME w.status # "ok" PROVE ~Sound(d, key, storage)
    <3>1. next # 0 /\ (next >= size \/ \E m \in 0..n : next = nth[m])
      BY <2>7, <2>16
    <3>2. ~\E m \in 1..size : nth[m] = 0
      BY <2>5, <2>6, <2>8, <3>1, ChainGoesOn
    <3>3. ~Sound(d, key, storage)
      BY <2>2, <2>5, <3>2 DEF Sound
    <3> QED BY <3>3
  <2>17. Listing(d, key, storage, files)
    <3>1. n + 1 \in Nat /\ n < size /\ (n + 1 # 0) /\ n \in 0..n
      BY <2>5, <2>8
    <3>2. nth[n + 1] = next
      BY <2>5, <2>6, <2>8, <3>1 DEF Chain
    <3>3. next = 0 \/ next >= size \/ \E m \in 0..n : next = nth[m]
      BY <2>7
    <3>4. Reached(d, key) =
            {l \in 0..size-1 : \A m \in 0..l :
               /\ nth[m] < size /\ (m = 0 \/ nth[m] # 0)
               /\ \A k \in 0..m-1 : nth[k] # nth[m]}
      BY <2>2, <2>5 DEF Reached
    <3>5. \A l \in 0..n : l \in Reached(d, key)
      <4> SUFFICES ASSUME NEW l \in 0..n PROVE l \in Reached(d, key)
        OBVIOUS
      <4>1. l \in 0..size-1 /\ \A m \in 0..l : m \in 0..n
        BY <2>5, <2>8
      <4>2. ASSUME NEW m \in 0..n, NEW k \in 0..m-1 PROVE nth[k] # nth[m]
        <5>1. k \in 0..n /\ k # m
          BY <2>8
        <5> QED BY <2>8, <5>1
      <4> QED BY <2>8, <3>4, <4>1, <4>2
    <3>6. \A l \in Reached(d, key) : l \in 0..n
      <4> SUFFICES ASSUME NEW l \in Reached(d, key), l \notin 0..n PROVE FALSE
        OBVIOUS
      <4>1. l \in 0..size-1
        BY <3>4
      <4>2. n + 1 \in 0..l
        BY <2>5, <2>8, <4>1
      <4>3. /\ nth[n + 1] < size /\ (n + 1 = 0 \/ nth[n + 1] # 0)
            /\ \A k \in 0..(n + 1)-1 : nth[k] # nth[n + 1]
        BY <3>4, <4>2
      <4>4. \A k \in 0..n : k \in 0..(n + 1)-1
        BY <2>8
      <4>5. next \in Nat
        BY <2>6, <2>8, <3>1, DirIs
      <4>6. ~(next >= size)
        BY <2>5, <3>2, <4>3, <4>5
      <4> QED BY <3>1, <3>2, <3>3, <4>3, <4>4, <4>6
    <3> DEFINE slots == {s \in Reached(d, key) \X (0..p-1) : s # <<0, 0>>}
    <3>7. ActiveEntries(d, key) =
            {i \in {<<nth[s[1]], s[2]>> : s \in slots} : ~Deleted(EntryAt(d, i))}
      BY <1>3, <2>2, <2>3 DEF ActiveEntries
    <3>8. ASSUME NEW a \in 1..Len(files) PROVE files[a] \in ActiveEntries(d, key)
      <4>1. PICK m \in 0..n, j \in 0..p-1 :
              files[a] = <<nth[m], j>> /\ (m # 0 \/ j # 0) /\ ~Deleted(EntryAt(d, <<nth[m], j>>))
        BY <2>10
      <4>2. PICK s : s = <<m, j>>
        OBVIOUS
      <4>3. m \in Reached(d, key) /\ s[1] = m /\ s[2] = j /\ s # <<0, 0>>
        BY <3>5, <4>1, <4>2
      <4>4. s \in slots
        BY <4>2, <4>3
      <4>5. files[a] = <<nth[s[1]], s[2]>>
        BY <4>1, <4>3
      <4> HIDE DEF slots
      <4> QED BY <3>7, <4>1, <4>4, <4>5
    <3>9. ASSUME NEW i \in ActiveEntries(d, key) PROVE \E a \in 1..Len(files) : files[a] = i
      <4>1. PICK s \in slots : i = <<nth[s[1]], s[2]>> /\ ~Deleted(EntryAt(d, i))
        <5> HIDE DEF slots
        <5> QED BY <3>7
      <4>2. s[1] \in Reached(d, key) /\ s[2] \in 0..p-1 /\ s = <<s[1], s[2]>>
        OBVIOUS
      <4>3. s[1] \in 0..n /\ (s[1] # 0 \/ s[2] # 0)
        BY <3>6, <4>1, <4>2
      <4>4. PICK m \in 0..n, j \in 0..p-1 : m = s[1] /\ j = s[2] /\ (m # 0 \/ j # 0)
        BY <4>2, <4>3
      <4>5. ~Deleted(EntryAt(d, <<nth[m], j>>)) /\ i = <<nth[m], j>>
        BY <4>1, <4>4
      <4> HIDE DEF slots
      <4> QED BY <2>11, <4>4, <4>5
    <3>10. ToSet(files) = ActiveEntries(d, key)
      BY <2>9, <3>8, <3>9 DEF ToSet
    <3>11. \A i, j \in DOMAIN files : i < j => Before(d, key, files[i], files[j])
      <4> SUFFICES ASSUME NEW i \in 1..Len(files), NEW j \in 1..Len(files), i < j
                   PROVE  Before(d, key, files[i], files[j])
        BY <2>9
      <4>1. Earlier(nth, n, files[i], files[j])
        BY <2>12
      <4> QED BY <2>2, <3>5, <4>1 DEF Earlier, Before
    <3> QED BY <1>3, <2>9, <2>13, <2>15, <3>10, <3>11 DEF Listing
  <2> QED BY <1>3, <2>4, <2>16, <2>17
<1> QED BY <1>1, <1>2, <1>3

-----------------------------------------------------------------------------
(* Quotients.                                                              *)

LEMMA Divided ==
  \A m \in Nat \ {0}, x \in Nat :
    /\ x \div m \in Nat /\ x % m \in 0..m-1 /\ (x \div m) * m \in Nat
    /\ x = (x \div m) * m + (x % m)
<1> TAKE m \in Nat \ {0}, x \in Nat
<1>1. x \div m \in Nat /\ x % m \in 0..m-1 /\ x = (x \div m) * m + (x % m)
  OBVIOUS
<1> QED BY ONLY <1>1, Products

LEMMA Multiple ==
  \A m \in Nat \ {0}, k \in Nat : \A j \in 0..m-1 :
    /\ k * m + j \in Nat /\ (k * m + j) \div m = k /\ (k * m + j) % m = j
OBVIOUS

(* A number below a product.                                               *)
LEMMA Below ==
  \A m \in Nat \ {0}, k \in Nat, x \in Nat : x < k * m => x \div m < k
<1> SUFFICES ASSUME NEW m \in Nat \ {0}, NEW k \in Nat, NEW x \in Nat, x < k * m, k <= x \div m
             PROVE  FALSE
  BY Divided
<1>1. PICK y \in Nat : y = x \div m
  BY Divided
<1>2. y * m <= x
  <2>1. PICK z : z = y * m
    OBVIOUS
  <2>2. x = y * m + (x % m) /\ x % m \in 0..m-1 /\ y * m \in Nat
    BY <1>1, Divided
  <2> QED BY ONLY <2>1, <2>2, x \in Nat, m \in Nat
<1>3. k * m <= y * m /\ k * m \in Nat /\ y * m \in Nat
  <2>1. k <= y
    BY <1>1
  <2> QED BY ONLY <2>1, <1>1, Products, k \in Nat, m \in Nat
<1> QED BY ONLY <1>2, <1>3, x < k * m, x \in Nat

(* How many times m it takes to reach x.                                   *)
LEMMA Rounded ==
  \A m \in Nat \ {0}, x \in Nat :
    LET n == (x + m - 1) \div m
    IN  /\ n \in Nat /\ x <= n * m /\ n * m < x + m /\ n * m \in Nat
        /\ n = 0 => x = 0
<1> SUFFICES ASSUME NEW m \in Nat \ {0}, NEW x \in Nat
             PROVE  LET n == (x + m - 1) \div m
                    IN  /\ n \in Nat /\ x <= n * m /\ n * m < x + m /\ n * m \in Nat
                        /\ n = 0 => x = 0
  OBVIOUS
<1>1. PICK y : y = x + m - 1
  OBVIOUS
<1>2. y \in Nat /\ y = x + m - 1
  BY <1>1
<1>3. PICK n : n = y \div m
  OBVIOUS
<1>4. n \in Nat /\ y % m \in 0..m-1 /\ n * m \in Nat /\ y = n * m + (y % m)
  BY <1>2, <1>3, Divided
<1>5. PICK z, v : z = n * m /\ v = y % m
  OBVIOUS
<1>6. x <= z /\ z < x + m
  BY ONLY <1>2, <1>4, <1>5, m \in Nat, x \in Nat
<1>7. n = 0 => z = 0
  BY ONLY <1>4, <1>5, m \in Nat
<1> QED BY <1>1, <1>3, <1>4, <1>5, <1>6, <1>7

LEMMA SizesAre == BlockSize \in Nat \ {0} /\ Pointers \in Nat \ {0} /\ BlockSize * Pointers \in Nat \ {0}
<1>1. BlockSize \in Nat \ {0} /\ Pointers \in Nat \ {0}
  BY ProDOSDiskAssumption
<1>2. PICK b \in Nat \ {0}, p \in Nat \ {0} : b = BlockSize /\ p = Pointers
  BY <1>1
<1>3. b * p \in Nat /\ 1 * p <= b * p /\ 1 * p = p
  <2>1. 1 \in Nat /\ 1 <= b
    BY <1>2
  <2> QED BY ONLY <2>1, b \in Nat, p \in Nat, Products
<1>4. PICK x : x = b * p
  OBVIOUS
<1>5. x \in Nat /\ x # 0
  BY <1>2, <1>3, <1>4
<1> QED BY <1>1, <1>2, <1>4, <1>5

-----------------------------------------------------------------------------
(* Reading.                                                                *)

(* The j-th byte of a block, one of a hole is 0.                           *)
ByteAt(d, block, j) == IF block = 0 THEN 0 ELSE d.content[block].bytes[j]

LEMMA ReadDataIs ==
  ASSUME NEW d, IsDisk(d), NEW p \in Nat, DataBlock(d, p)
  PROVE  /\ ReadData(d, p).status \in {"ok", "error", "throws"}
         /\ ReadData(d, p).status = "throws" => p = d.blocks
         /\ ReadData(d, p).status = "ok" =>
              /\ ReadData(d, p).bytes \in [1..BlockSize -> Nat]
              /\ \A j \in 1..BlockSize : ReadData(d, p).bytes[j] = ByteAt(d, p, j)
<1>1. PICK r : r = ReadBlock(d, p)
  OBVIOUS
<1>2. CASE p = 0
  <2>1. ReadData(d, p) = [status |-> "ok", bytes |-> Zeros]
    BY <1>2 DEF ReadData
  <2>2. Zeros \in [1..BlockSize -> Nat] /\ \A j \in 1..BlockSize : Zeros[j] = 0
    BY DEF Zeros
  <2>3. \A j \in 1..BlockSize : ByteAt(d, p, j) = 0
    BY <1>2 DEF ByteAt
  <2>4. ReadData(d, p).status = "ok" /\ ReadData(d, p).bytes = Zeros
    BY <2>1
  <2> QED BY ONLY <2>2, <2>3, <2>4
<1>3. CASE p # 0 /\ p < d.blocks
  <2>1. p \in 1..d.blocks-1 /\ p \in 0..d.blocks-1
    BY <1>3, DiskIs
  <2>2. r = [status |-> "ok", content |-> d.content[p]]
    BY <1>1, <1>3, ReadBlockIs
  <2>3. ReadData(d, p) = [status |-> "ok", bytes |-> d.content[p].bytes]
    BY <1>1, <1>3, <2>2 DEF ReadData
  <2>4. d.content[p].bytes \in [1..BlockSize -> Nat]
    BY <2>1, DataIs DEF DataBlock
  <2> QED BY <1>3, <2>3, <2>4 DEF ByteAt
<1>4. CASE p # 0 /\ ~(p < d.blocks)
  <2>1. r.status \in {"error", "throws"} /\ (r.status = "throws" => p = d.blocks)
    BY <1>1, <1>4, ReadBlockIs
  <2>2. ReadData(d, p) = r
    BY <1>1, <1>4, <2>1 DEF ReadData
  <2> QED BY <2>1, <2>2
<1> QED BY <1>2, <1>3, <1>4

LEMMA ReadKeysIs ==
  ASSUME NEW d, IsDisk(d), NEW p \in Nat, p \in 1..d.blocks-1 => d.content[p].kind = "index"
  PROVE  /\ ReadKeys(d, p).status \in {"ok", "error", "throws"}
         /\ ReadKeys(d, p).status = "throws" => p = d.blocks
         /\ ReadKeys(d, p).status = "ok" =>
              /\ p = 0 \/ p \in 1..d.blocks-1
              /\ \A i \in 0..Pointers-1 : /\ ReadKeys(d, p).keys[i] = Pointed(d, p, i)
                                          /\ Pointed(d, p, i) \in Nat
                                          /\ Pointed(d, p, i) = d.blocks => PointsPast(d)
<1>1. PICK r : r = ReadBlock(d, p)
  OBVIOUS
<1>2. CASE p = 0
  <2>1. PICK keys : keys = [i \in 0..Pointers-1 |-> 0]
    OBVIOUS
  <2>2. ReadKeys(d, p) = [status |-> "ok", keys |-> keys]
    BY <1>2, <2>1 DEF ReadKeys
  <2>3. \A i \in 0..Pointers-1 : keys[i] = 0 /\ Pointed(d, p, i) = 0
    BY <1>2, <2>1 DEF Pointed
  <2>4. d.blocks # 0
    BY DiskIs
  <2> QED BY <1>2, <2>2, <2>3, <2>4
<1>3. CASE p # 0 /\ p < d.blocks
  <2>1. p \in 1..d.blocks-1 /\ p \in 0..d.blocks-1
    BY <1>3, DiskIs
  <2>2. r = [status |-> "ok", content |-> d.content[p]]
    BY <1>1, <1>3, ReadBlockIs
  <2>3. ReadKeys(d, p) = [status |-> "ok", keys |-> d.content[p].keys]
    BY <1>1, <1>3, <2>2 DEF ReadKeys
  <2>4. d.content[p].keys \in [0..Pointers-1 -> Nat]
    BY <2>1, IndexIs
  <2>5. \A i \in 0..Pointers-1 : Pointed(d, p, i) = d.content[p].keys[i]
    BY <1>3 DEF Pointed
  <2>6. \A i \in 0..Pointers-1 : d.content[p].keys[i] = d.blocks => PointsPast(d)
    BY <2>1, PastEnd
  <2>7. ReadKeys(d, p).status = "ok" /\ ReadKeys(d, p).keys = d.content[p].keys
    BY <2>3
  <2> QED BY ONLY <2>1, <2>4, <2>5, <2>6, <2>7
<1>4. CASE p # 0 /\ ~(p < d.blocks)
  <2>1. r.status \in {"error", "throws"} /\ (r.status = "throws" => p = d.blocks)
    BY <1>1, <1>4, ReadBlockIs
  <2>2. ReadKeys(d, p) = r
    BY <1>1, <1>4, <2>1 DEF ReadKeys
  <2> QED BY <2>1, <2>2
<1> QED BY <1>2, <1>3, <1>4

(* Pieces that are all there, or one that is not.                          *)
LEMMA JoinedIs ==
  ASSUME NEW n \in Nat, NEW pieces, DOMAIN pieces = 1..n, NEW stride, NEW size,
         NEW r, r = Joined(pieces, stride, size)
  PROVE  \/ \E i \in 1..n : pieces[i].status # "ok" /\ r = pieces[i]
         \/ /\ \A i \in 1..n : pieces[i].status = "ok"
            /\ r.status = "ok" /\ r.bytes = [k \in 1..size |-> r.bytes[k]]
            /\ \A k \in 1..size :
                 r.bytes[k] = pieces[(k-1) \div stride + 1].bytes[((k-1) % stride) + 1]
<1> DEFINE Lost == {i \in DOMAIN pieces : pieces[i].status # "ok"}
<1>1. CASE Lost = {}
  <2>1. PICK bytes : bytes = [k \in 1..size |->
                                pieces[(k-1) \div stride + 1].bytes[((k-1) % stride) + 1]]
    OBVIOUS
  <2>2. r = [status |-> "ok", bytes |-> bytes]
    BY <1>1, <2>1 DEF Joined
  <2>3. r.status = "ok" /\ r.bytes = bytes
    BY <2>2
  <2> QED BY <1>1, <2>1, <2>3
<1>2. CASE Lost # {}
  <2>1. Lost \subseteq Nat
    OBVIOUS
  <2>2. Joined(pieces, stride, size) = pieces[Min(Lost)]
    BY <1>2 DEF Joined
  <2>3. Min(Lost) \in Lost
    <3> HIDE DEF Lost
    <3> QED BY <1>2, <2>1, MinIs
  <2> QED BY <2>2, <2>3
<1> QED BY <1>1, <1>2

(* `blocks' blocks that an index points to.                                *)
LEMMA ReadPointedIs ==
  ASSUME NEW d, IsDisk(d), NEW p \in Nat, IndexBlock(d, p), NEW first \in Nat, NEW blocks \in Nat
  PROVE  LET r == ReadPointed(d, p, first, blocks)
         IN  /\ r.status \in {"ok", "error", "throws", "undefined"}
             /\ r.status = "throws" => p = d.blocks \/ PointsPast(d)
             /\ r.status = "undefined" => first + blocks > Pointers
             /\ r.status = "ok" =>
                  /\ r.bytes \in [1..blocks * BlockSize -> Nat]
                  /\ p = 0 \/ p \in 1..d.blocks-1
                  /\ blocks = 0 \/ first + blocks <= Pointers
                  /\ \A v \in 0..blocks-1, j \in 0..BlockSize-1 :
                       r.bytes[v * BlockSize + j + 1] = ByteAt(d, Pointed(d, p, first + v), j + 1)
<1>1. PICK keys : keys = ReadKeys(d, p)
  OBVIOUS
<1>2. PICK r : r = ReadPointed(d, p, first, blocks)
  OBVIOUS
<1>3. /\ keys.status \in {"ok", "error", "throws"}
      /\ keys.status = "throws" => p = d.blocks
      /\ keys.status = "ok" =>
           /\ p = 0 \/ p \in 1..d.blocks-1
           /\ \A i \in 0..Pointers-1 : /\ keys.keys[i] = Pointed(d, p, i) /\ Pointed(d, p, i) \in Nat
                                       /\ Pointed(d, p, i) = d.blocks => PointsPast(d)
  BY <1>1, ReadKeysIs DEF IndexBlock
<1>4. CASE keys.status # "ok"
  <2>1. r = keys
    BY <1>1, <1>2, <1>4 DEF ReadPointed
  <2> QED BY <1>2, <1>3, <1>4, <2>1
<1>5. CASE keys.status = "ok"
  <2>1. PICK pieces : pieces = [i \in 1..blocks |-> IF first + i - 1 >= Pointers THEN Undefined
                                                    ELSE ReadData(d, keys.keys[first + i - 1])]
    OBVIOUS
  <2>2. r = Joined(pieces, BlockSize, blocks * BlockSize)
    BY <1>1, <1>2, <1>5, <2>1 DEF ReadPointed
  <2>3. DOMAIN pieces = 1..blocks
    BY <2>1
  <2>4. Pointers \in Nat \ {0} /\ BlockSize \in Nat \ {0}
    BY SizesAre
  <2>5. ASSUME NEW i \in 1..blocks, first + i - 1 >= Pointers
        PROVE  pieces[i].status = "undefined" /\ first + blocks > Pointers
    BY <2>1, <2>4, <2>5 DEF Undefined
  <2>6. \A i \in 0..Pointers-1 : DataBlock(d, Pointed(d, p, i))
    BY <1>3, <1>5, DiskIs DEF IndexBlock, DataBlock, Pointed
  <2>7. ASSUME NEW i \in 1..blocks, ~(first + i - 1 >= Pointers)
        PROVE  /\ pieces[i].status \in {"ok", "error", "throws"}
               /\ pieces[i].status = "throws" => PointsPast(d)
               /\ pieces[i].status = "ok" =>
                    /\ pieces[i].bytes \in [1..BlockSize -> Nat]
                    /\ \A j \in 1..BlockSize : pieces[i].bytes[j] = ByteAt(d, Pointed(d, p, first + i - 1), j)
    <3>1. first + i - 1 \in 0..Pointers-1
      BY <2>4, <2>7
    <3>2. PICK q : q = Pointed(d, p, first + i - 1)
      OBVIOUS
    <3>3. q \in Nat /\ (q = d.blocks => PointsPast(d)) /\ DataBlock(d, q)
          /\ keys.keys[first + i - 1] = q
      BY <1>3, <1>5, <2>6, <3>1, <3>2
    <3>4. pieces[i] = ReadData(d, q)
      BY <2>1, <2>7, <3>3
    <3> QED BY <3>2, <3>3, <3>4, ReadDataIs
  <2>8. CASE \E i \in 1..blocks : pieces[i].status # "ok" /\ r = pieces[i]
    <3>1. PICK i \in 1..blocks : pieces[i].status # "ok" /\ r = pieces[i]
      BY <2>8
    <3> QED BY <1>2, <2>5, <2>7, <3>1
  <2>9. CASE /\ \A i \in 1..blocks : pieces[i].status = "ok"
             /\ r.status = "ok" /\ r.bytes = [k \in 1..blocks * BlockSize |-> r.bytes[k]]
             /\ \A k \in 1..blocks * BlockSize :
                  r.bytes[k] = pieces[(k-1) \div BlockSize + 1].bytes[((k-1) % BlockSize) + 1]
    <3>1. PICK bytes : bytes = r.bytes
      OBVIOUS
    <3>2. r.status = "ok" /\ r.bytes = bytes
      BY <2>9, <3>1
    <3>3. \A i \in 1..blocks : ~(first + i - 1 >= Pointers)
      BY <2>5, <2>9
    <3>4. blocks = 0 \/ first + blocks <= Pointers
      <4>1. blocks # 0 => blocks \in 1..blocks
        OBVIOUS
      <4> QED BY <2>4, <3>3, <4>1
    <3>5. \A i \in 1..blocks :
            /\ pieces[i].bytes \in [1..BlockSize -> Nat]
            /\ \A j \in 1..BlockSize : pieces[i].bytes[j] = ByteAt(d, Pointed(d, p, first + i - 1), j)
      BY <2>7, <2>9, <3>3
    <3>6. PICK total : total = blocks * BlockSize
      OBVIOUS
    <3>7. total \in Nat
      BY ONLY <2>4, <3>6, blocks \in Nat, Products
    <3>8. ASSUME NEW k \in 1..total
          PROVE  (k-1) \div BlockSize + 1 \in 1..blocks /\ ((k-1) % BlockSize) + 1 \in 1..BlockSize
      <4>1. PICK x : x = k - 1
        OBVIOUS
      <4>2. x \in Nat /\ x < total
        BY <3>7, <4>1
      <4>3. x \div BlockSize \in Nat /\ x % BlockSize \in 0..BlockSize-1
        BY <2>4, <4>2, Divided
      <4>4. x \div BlockSize < blocks
        BY <2>4, <3>6, <4>2, Below
      <4>5. PICK y, z : y = x \div BlockSize /\ z = x % BlockSize
        OBVIOUS
      <4>6. y + 1 \in 1..blocks /\ z + 1 \in 1..BlockSize
        BY ONLY <2>4, <4>3, <4>4, <4>5, blocks \in Nat
      <4> QED BY <4>1, <4>5, <4>6
    <3>9. bytes \in [1..total -> Nat]
      <4>1. \A k \in 1..total : pieces[(k-1) \div BlockSize + 1].bytes[((k-1) % BlockSize) + 1] \in Nat
        BY <3>5, <3>8
      <4>2. \A k \in 1..total : bytes[k] \in Nat
        BY <2>9, <3>1, <3>6, <4>1
      <4> QED BY <2>9, <3>1, <3>6, <4>2
    <3>10. ASSUME NEW v \in 0..blocks-1, NEW j \in 0..BlockSize-1
           PROVE  bytes[v * BlockSize + j + 1] = ByteAt(d, Pointed(d, p, first + v), j + 1)
      <4>1. PICK x : x = v * BlockSize + j
        OBVIOUS
      <4>2. x \in Nat /\ x \div BlockSize = v /\ x % BlockSize = j
        BY <2>4, <4>1, Multiple
      <4>3. x + 1 \in 1..total
        <5>1. PICK y : y = v * BlockSize
          OBVIOUS
        <5>2. y + BlockSize <= total /\ y \in Nat
          BY ONLY <2>4, <3>6, <5>1, Products, blocks \in Nat, v \in 0..blocks-1
        <5> QED BY ONLY <2>4, <4>1, <4>2, <5>1, <5>2, <3>7, j \in 0..BlockSize-1
      <4>4. (x + 1) - 1 = x
        BY <4>2
      <4>5. bytes[x + 1] = pieces[v + 1].bytes[j + 1]
        BY <2>9, <3>1, <3>6, <4>2, <4>3, <4>4
      <4>6. v + 1 \in 1..blocks /\ j + 1 \in 1..BlockSize /\ first + (v + 1) - 1 = first + v
        BY <2>4
      <4>7. pieces[v + 1].bytes[j + 1] = ByteAt(d, Pointed(d, p, first + v), j + 1)
        BY <3>5, <4>6
      <4> QED BY <4>1, <4>5, <4>7
    <3> QED BY <1>2, <1>3, <1>5, <3>2, <3>4, <3>6, <3>9, <3>10
  <2>10. \/ \E i \in 1..blocks : pieces[i].status # "ok" /\ r = pieces[i]
         \/ /\ \A i \in 1..blocks : pieces[i].status = "ok"
            /\ r.status = "ok" /\ r.bytes = [k \in 1..blocks * BlockSize |-> r.bytes[k]]
            /\ \A k \in 1..blocks * BlockSize :
                 r.bytes[k] = pieces[(k-1) \div BlockSize + 1].bytes[((k-1) % BlockSize) + 1]
    BY ONLY <2>2, <2>3, JoinedIs, blocks \in Nat
  <2> QED BY ONLY <2>8, <2>9, <2>10, Zenon
<1> QED BY <1>4, <1>5

(* The blocks of a tree, P to an index.                                    *)
LEMMA Nested ==
  \A v \in Nat, j \in 0..BlockSize-1 :
    /\ (v * BlockSize + j) \div (BlockSize * Pointers) = v \div Pointers
    /\ (v * BlockSize + j) % (BlockSize * Pointers) = (v % Pointers) * BlockSize + j
<1> TAKE v \in Nat, j \in 0..BlockSize-1
<1>1. PICK b \in Nat \ {0}, p \in Nat \ {0} : b = BlockSize /\ p = Pointers
  BY SizesAre
<1>2. PICK s : s = b * p /\ s \in Nat \ {0}
  BY <1>1, SizesAre
<1>3. PICK c, u : c = v \div p /\ u = v % p
  OBVIOUS
<1>4. c \in Nat /\ u \in 0..p-1 /\ v = c * p + u /\ c * p \in Nat
  BY <1>3, Divided
<1>5. PICK x : x = u * b + j
  OBVIOUS
<1>6. x \in 0..s-1
  <2>1. PICK y : y = u * b
    OBVIOUS
  <2>2. y \in Nat /\ y + b <= p * b
    BY ONLY <1>4, <2>1, b \in Nat \ {0}, p \in Nat \ {0}, Products
  <2>3. p * b = s
    BY <1>2
  <2> QED BY ONLY <1>1, <1>2, <1>5, <2>1, <2>2, <2>3, j \in 0..BlockSize-1, b \in Nat \ {0}
<1>7. v * b + j = c * s + x
  <2>1. (c * p + u) * b = (c * p) * b + u * b
    BY ONLY <1>4, b \in Nat \ {0}, Products
  <2>2. (c * p) * b = c * (b * p)
    BY ONLY <1>4, b \in Nat \ {0}, p \in Nat \ {0}
  <2>3. PICK y, z : y = (c * p) * b /\ z = u * b
    OBVIOUS
  <2>4. y \in Nat /\ z \in Nat
    BY ONLY <1>4, <2>3, b \in Nat \ {0}, p \in Nat \ {0}, Products
  <2>5. v * b = y + z /\ c * s = y /\ x = z + j
    BY ONLY <1>2, <1>4, <1>5, <2>1, <2>2, <2>3
  <2> QED BY ONLY <1>1, <2>4, <2>5, j \in 0..BlockSize-1, b \in Nat \ {0}
<1>8. (c * s + x) \div s = c /\ (c * s + x) % s = x
  BY ONLY <1>2, <1>4, <1>6, Multiple
<1> QED BY <1>1, <1>2, <1>3, <1>5, <1>7, <1>8

LEMMA ReadTreeIs ==
  ASSUME NEW d, IsDisk(d), NEW p \in Nat, TreeBlock(d, p), NEW offset \in Nat, NEW blocks \in Nat,
         NEW first, first = (offset \div (BlockSize * Pointers)) % Pointers,
         NEW start, start = (offset \div BlockSize) % Pointers
  PROVE  LET r == ReadTree(d, p, offset, blocks)
         IN  /\ r.status \in {"ok", "error", "throws", "undefined"}
             /\ r.status = "throws" => p = d.blocks \/ PointsPast(d)
             /\ r.status = "undefined" => start + blocks > Pointers
             /\ r.status = "ok" =>
                  /\ r.bytes \in [1..blocks * BlockSize -> Nat]
                  /\ p = 0 \/ p \in 1..d.blocks-1
                  /\ start = 0 \/ start + blocks <= Pointers
                  /\ \A v \in 0..blocks-1, j \in 0..BlockSize-1 :
                       r.bytes[v * BlockSize + j + 1] =
                         ByteAt(d, Pointed(d, Pointed(d, p, first + ((start + v) \div Pointers)),
                                           (start + v) % Pointers), j + 1)
<1>1. PICK P \in Nat \ {0}, B \in Nat \ {0} : P = Pointers /\ B = BlockSize
  BY SizesAre
<1>2. PICK keys : keys = ReadKeys(d, p)
  OBVIOUS
<1>3. PICK r : r = ReadTree(d, p, offset, blocks)
  OBVIOUS
<1>4. first \in 0..P-1 /\ start \in 0..P-1
  <2>1. offset \div BlockSize \in Nat /\ offset \div (BlockSize * Pointers) \in Nat
    BY SizesAre, Divided
  <2> QED BY <1>1, <2>1, Divided
<1>5. /\ keys.status \in {"ok", "error", "throws"}
      /\ keys.status = "throws" => p = d.blocks
      /\ keys.status = "ok" =>
           /\ p = 0 \/ p \in 1..d.blocks-1
           /\ \A i \in 0..P-1 : /\ keys.keys[i] = Pointed(d, p, i) /\ Pointed(d, p, i) \in Nat
                                /\ Pointed(d, p, i) = d.blocks => PointsPast(d)
  BY <1>1, <1>2, ReadKeysIs DEF TreeBlock
<1>6. CASE keys.status # "ok"
  <2>1. r = keys
    BY <1>2, <1>3, <1>6 DEF ReadTree
  <2> QED BY <1>3, <1>5, <1>6, <2>1
<1>7. CASE keys.status = "ok"
  <2>1. PICK chunks : chunks = (blocks + P - 1) \div P
    OBVIOUS
  <2> DEFINE Count(c) == Smaller(blocks - (c-1) * P, P)
             From(c) == IF c = 1 THEN start ELSE 0
  <2>2. PICK pieces : pieces = [c \in 1..chunks |->
                                  IF first + c - 1 >= P THEN Undefined
                                  ELSE ReadPointed(d, keys.keys[first + c - 1], From(c), Count(c))]
    OBVIOUS
  <2>3. PICK total : total = blocks * B
    OBVIOUS
  <2>4. PICK S : S = B * P
    OBVIOUS
  <2>5. r = Joined(pieces, S, total)
    BY <1>1, <1>2, <1>3, <1>7, <2>1, <2>2, <2>3, <2>4 DEF ReadTree
  <2>6. chunks \in Nat /\ blocks <= chunks * P /\ chunks * P < blocks + P /\ chunks * P \in Nat
    BY <1>1, <2>1, Rounded
  <2>7. total \in Nat /\ S \in Nat \ {0}
    <3>1. total \in Nat
      BY ONLY <2>3, blocks \in Nat, B \in Nat \ {0}, Products
    <3> QED BY <1>1, <2>4, <3>1, SizesAre
  <2>8. ASSUME NEW c \in 1..chunks
        PROVE  /\ (c - 1) * P \in Nat /\ (c - 1) * P < blocks
               /\ Count(c) \in 1..P /\ Count(c) <= blocks - (c - 1) * P
               /\ Count(c) = P \/ Count(c) = blocks - (c - 1) * P
               /\ c # 1 => P < blocks
               /\ c = 1 => (c - 1) * P = 0
    <3>1. PICK k \in Nat : k = c - 1
      BY <2>6
    <3>2. PICK y : y = k * P
      OBVIOUS
    <3>3. PICK z : z = chunks * P
      OBVIOUS
    <3>4. y \in Nat /\ y + P <= z
      <4>1. k < chunks
        BY <2>6, <3>1
      <4> QED BY ONLY <2>6, <3>2, <3>3, <4>1, Products, k \in Nat, P \in Nat \ {0}
    <3>5. y < blocks
      BY ONLY <2>6, <3>3, <3>4, blocks \in Nat, P \in Nat \ {0}
    <3>6. c # 1 => P <= y
      <4>1. c # 1 => 1 <= k /\ 1 \in Nat
        BY <3>1
      <4>2. 1 <= k => 1 * P <= y
        BY ONLY <3>2, Products, k \in Nat, P \in Nat \ {0}, 1 \in Nat
      <4> QED BY <3>4, <4>1, <4>2
    <3>7. c = 1 => y = 0
      BY <3>1, <3>2
    <3>8. Count(c) = IF blocks - y <= P THEN blocks - y ELSE P
      BY <3>1, <3>2 DEF Smaller
    <3> HIDE DEF Count
    <3> QED BY ONLY <3>1, <3>2, <3>4, <3>5, <3>6, <3>7, <3>8, blocks \in Nat, P \in Nat \ {0}
  <2> HIDE DEF Count
  <2>9. ASSUME NEW c \in 1..chunks, first + c - 1 >= P
        PROVE  pieces[c].status = "undefined" /\ start + blocks > P
    <3>1. pieces[c].status = "undefined"
      BY <2>2, <2>9 DEF Undefined
    <3>2. c # 1
      BY <1>4, <2>9
    <3>3. P < blocks
      BY <2>8, <3>2
    <3> QED BY <1>4, <3>1, <3>3
  <2>10. \A i \in 0..P-1 : IndexBlock(d, Pointed(d, p, i))
    BY <1>1, <1>5, <1>7, DiskIs DEF TreeBlock, IndexBlock, Pointed
  <2>11. ASSUME NEW c \in 1..chunks, ~(first + c - 1 >= P)
         PROVE  /\ pieces[c].status \in {"ok", "error", "throws", "undefined"}
                /\ pieces[c].status = "throws" => PointsPast(d)
                /\ pieces[c].status = "undefined" => From(c) + Count(c) > P
                /\ pieces[c].status = "ok" =>
                     /\ pieces[c].bytes \in [1..Count(c) * B -> Nat]
                     /\ From(c) + Count(c) <= P
                     /\ \A v \in 0..Count(c)-1, j \in 0..B-1 :
                          pieces[c].bytes[v * B + j + 1] =
                            ByteAt(d, Pointed(d, Pointed(d, p, first + c - 1), From(c) + v), j + 1)
    <3>1. first + c - 1 \in 0..P-1
      BY <1>4, <2>11
    <3>2. PICK q : q = Pointed(d, p, first + c - 1)
      OBVIOUS
    <3>3. q \in Nat /\ (q = d.blocks => PointsPast(d)) /\ IndexBlock(d, q)
          /\ keys.keys[first + c - 1] = q
      BY <1>5, <1>7, <2>10, <3>1, <3>2
    <3>4. PICK n \in Nat, f \in Nat : n = Count(c) /\ f = From(c) /\ n # 0
      BY <1>4, <2>8
    <3>5. pieces[c] = ReadPointed(d, q, f, n)
      BY <2>2, <2>11, <3>3, <3>4
    <3>6. PICK piece : piece = ReadPointed(d, q, f, n)
      OBVIOUS
    <3>7. /\ piece.status \in {"ok", "error", "throws", "undefined"}
          /\ piece.status = "throws" => q = d.blocks \/ PointsPast(d)
          /\ piece.status = "undefined" => f + n > P
          /\ piece.status = "ok" =>
               /\ piece.bytes \in [1..n * B -> Nat]
               /\ n = 0 \/ f + n <= P
               /\ \A v \in 0..n-1, j \in 0..B-1 :
                    piece.bytes[v * B + j + 1] = ByteAt(d, Pointed(d, q, f + v), j + 1)
      <4>1. /\ piece.status \in {"ok", "error", "throws", "undefined"}
            /\ piece.status = "throws" => q = d.blocks \/ PointsPast(d)
            /\ piece.status = "undefined" => f + n > Pointers
            /\ piece.status = "ok" =>
                 /\ piece.bytes \in [1..n * BlockSize -> Nat]
                 /\ n = 0 \/ f + n <= Pointers
                 /\ \A v \in 0..n-1, j \in 0..BlockSize-1 :
                      piece.bytes[v * BlockSize + j + 1] = ByteAt(d, Pointed(d, q, f + v), j + 1)
        BY ONLY <3>3, <3>6, IsDisk(d), f \in Nat, n \in Nat, ReadPointedIs
      <4> QED BY ONLY <1>1, <4>1
    <3> HIDE DEF From
    <3> QED BY ONLY <3>2, <3>3, <3>4, <3>5, <3>6, <3>7
  <2>12. CASE \E c \in 1..chunks : pieces[c].status # "ok" /\ r = pieces[c]
    <3>1. PICK c \in 1..chunks : pieces[c].status # "ok" /\ r = pieces[c]
      BY <2>12
    <3>2. ~(first + c - 1 >= P) /\ r.status = "undefined" => start + blocks > P
      <4>1. PICK y : y = (c - 1) * P
        OBVIOUS
      <4>2. PICK n : n = Count(c)
        OBVIOUS
      <4>3. y \in Nat /\ n \in 1..P /\ n <= blocks - y /\ (c = 1 => y = 0)
        BY ONLY <2>8, <4>1, <4>2, c \in 1..chunks
      <4>4. ~(first + c - 1 >= P) /\ r.status = "undefined" => From(c) + n > P
        BY <2>11, <3>1, <4>2
      <4>5. c # 1 => ~(From(c) + n > P)
        BY <4>3
      <4>6. c = 1 => From(c) = start
        OBVIOUS
      <4> HIDE DEF From
      <4> QED BY ONLY <1>4, <4>3, <4>4, <4>5, <4>6, blocks \in Nat, P \in Nat \ {0}
    <3> HIDE DEF From
    <3> QED BY <1>1, <1>3, <2>9, <2>11, <3>1, <3>2
  <2>13. CASE /\ \A c \in 1..chunks : pieces[c].status = "ok"
              /\ r.status = "ok" /\ r.bytes = [k \in 1..total |-> r.bytes[k]]
              /\ \A k \in 1..total : r.bytes[k] = pieces[(k-1) \div S + 1].bytes[((k-1) % S) + 1]
    <3>1. \A c \in 1..chunks : ~(first + c - 1 >= P)
      BY <2>9, <2>13
    <3>2. \A c \in 1..chunks :
            /\ pieces[c].bytes \in [1..Count(c) * B -> Nat]
            /\ From(c) + Count(c) <= P
            /\ \A v \in 0..Count(c)-1, j \in 0..B-1 :
                 pieces[c].bytes[v * B + j + 1] =
                   ByteAt(d, Pointed(d, Pointed(d, p, first + c - 1), From(c) + v), j + 1)
      <4> HIDE DEF From
      <4> QED BY <2>11, <2>13, <3>1
    <3>3. start = 0 \/ start + blocks <= P
      <4>1. CASE chunks = 0
        <5>1. blocks = 0
          BY <2>6, <4>1
        <5> QED BY <1>4, <5>1
      <4>2. CASE chunks # 0
        <5>1. 1 \in 1..chunks
          BY <2>6, <4>2
        <5>2. PICK n, y : n = Count(1) /\ y = (1 - 1) * P
          OBVIOUS
        <5>3. (n = P \/ n = blocks - y) /\ y = 0
          BY ONLY <2>8, <5>1, <5>2
        <5>4. start + n <= P
          BY <3>2, <5>1, <5>2
        <5> QED BY ONLY <1>4, <5>3, <5>4, blocks \in Nat, P \in Nat \ {0}
      <4> QED BY <4>1, <4>2
    <3>4. ASSUME NEW v \in 0..blocks-1, NEW j \in 0..B-1
          PROVE  /\ v * B + j + 1 \in 1..total
                 /\ r.bytes[v * B + j + 1] =
                      ByteAt(d, Pointed(d, Pointed(d, p, first + ((start + v) \div P)),
                                        (start + v) % P), j + 1)
                 /\ r.bytes[v * B + j + 1] \in Nat
      <4>1. PICK x : x = v * B + j
        OBVIOUS
      <4>2. x \in Nat /\ x + 1 \in 1..total
        <5>1. PICK y : y = v * B
          OBVIOUS
        <5>2. y + B <= total /\ y \in Nat
          BY ONLY <2>3, <5>1, Products, blocks \in Nat, v \in 0..blocks-1, B \in Nat \ {0}
        <5> QED BY ONLY <2>7, <4>1, <5>1, <5>2, j \in 0..B-1, B \in Nat \ {0}
      <4>3. PICK k, u : k = v \div P /\ u = v % P
        OBVIOUS
      <4>4. k \in Nat /\ u \in 0..P-1 /\ v = k * P + u /\ k * P \in Nat /\ v \in Nat
        <5>1. v \in Nat
          OBVIOUS
        <5> QED BY ONLY <4>3, <5>1, Divided, P \in Nat \ {0}
      <4>5. x \div S = k /\ x % S = u * B + j
        BY <1>1, <2>4, <4>1, <4>3, <4>4, Nested
      <4>6. k + 1 \in 1..chunks
        <5>1. v < chunks * P
          <6>1. PICK z : z = chunks * P
            OBVIOUS
          <6> QED BY ONLY <2>6, <6>1, v \in 0..blocks-1, blocks \in Nat
        <5>2. k < chunks
          BY ONLY <2>6, <4>3, <4>4, <5>1, Below, P \in Nat \ {0}
        <5> QED BY <2>6, <4>4, <5>2
      <4>7. u \in 0..Count(k + 1)-1
        <5>1. PICK y, n : y = k * P /\ n = Count(k + 1)
          OBVIOUS
        <5>2. (k + 1) - 1 = k
          BY <4>4
        <5>3. n \in 1..P /\ (n = P \/ n = blocks - y)
          BY ONLY <2>8, <4>6, <5>1, <5>2
        <5> QED BY ONLY <4>4, <5>1, <5>3, v \in 0..blocks-1, blocks \in Nat, P \in Nat \ {0}
      <4>8. r.bytes[x + 1] = pieces[k + 1].bytes[(u * B + j) + 1]
        <5>1. (x + 1) - 1 = x
          BY <4>2
        <5> QED BY <2>13, <4>2, <4>5, <5>1
      <4>9. first + (k + 1) - 1 = first + k
        BY <1>4, <4>4
      <4>10. pieces[k + 1].bytes[u * B + j + 1] =
               ByteAt(d, Pointed(d, Pointed(d, p, first + k), From(k + 1) + u), j + 1)
        <5> HIDE DEF From
        <5> QED BY ONLY <3>2, <4>6, <4>7, <4>9, j \in 0..B-1
      <4>11. pieces[k + 1].bytes[u * B + j + 1] \in Nat
        <5>1. PICK n \in Nat : n = Count(k + 1) /\ u \in 0..n-1
          BY <2>8, <4>6, <4>7
        <5>2. u * B + j + 1 \in 1..n * B
          <6>1. PICK y, z : y = u * B /\ z = n * B
            OBVIOUS
          <6>2. y + B <= z /\ y \in Nat /\ z \in Nat
            BY ONLY <5>1, <6>1, Products, n \in Nat, B \in Nat \ {0}
          <6> QED BY ONLY <6>1, <6>2, j \in 0..B-1, B \in Nat \ {0}
        <5> QED BY <3>2, <4>6, <5>1, <5>2
      <4>12. (start + v) \div P = k /\ (start + v) % P = From(k + 1) + u
        <5>1. CASE start = 0
          <6>1. start + v = v /\ From(k + 1) + u = u
            BY <4>4, <5>1
          <6> QED BY <4>3, <6>1
        <5>2. CASE start # 0
          <6>1. start + v < P /\ start + v \in Nat /\ v < P
            BY <1>4, <3>3, <4>4, <5>2
          <6>2. k = 0 /\ u = v
            <7>1. v = 0 * P + v /\ v \in 0..P-1
              BY <4>4, <6>1
            <7> QED BY ONLY <4>3, <7>1, Multiple, P \in Nat \ {0}, 0 \in Nat
          <6>3. (start + v) \div P = 0 /\ (start + v) % P = start + v
            <7>1. PICK y : y = start + v
              OBVIOUS
            <7>2. y = 0 * P + y /\ y \in 0..P-1
              BY <6>1, <7>1
            <7>3. y \div P = 0 /\ y % P = y
              BY ONLY <7>2, Multiple, P \in Nat \ {0}, 0 \in Nat
            <7> QED BY <7>1, <7>3
          <6> QED BY <6>2, <6>3
        <5> QED BY <5>1, <5>2
      <4> HIDE DEF From
      <4> QED BY ONLY <4>1, <4>2, <4>8, <4>10, <4>11, <4>12
    <3>5. r.bytes \in [1..total -> Nat]
      <4>1. ASSUME NEW k \in 1..total PROVE r.bytes[k] \in Nat
        <5>1. PICK x : x = k - 1
          OBVIOUS
        <5>2. x \in Nat /\ x < total /\ k = x + 1
          BY <2>7, <5>1
        <5>3. PICK v, j : v = x \div B /\ j = x % B
          OBVIOUS
        <5>4. v \in Nat /\ j \in 0..B-1 /\ x = v * B + j /\ v * B \in Nat
          BY ONLY <5>2, <5>3, Divided, B \in Nat \ {0}
        <5>5. v < blocks
          BY ONLY <2>3, <5>2, <5>3, Below, B \in Nat \ {0}, blocks \in Nat
        <5>6. v \in 0..blocks-1 /\ k = v * B + j + 1
          BY ONLY <5>2, <5>4, <5>5, blocks \in Nat
        <5> QED BY <3>4, <5>4, <5>6
      <4> QED BY <2>13, <4>1
    <3> HIDE DEF From
    <3> QED BY ONLY <1>1, <1>3, <1>5, <1>7, <2>3, <2>13, <3>3, <3>4, <3>5
  <2>14. DOMAIN pieces = 1..chunks
    BY <2>2
  <2>15. \/ \E c \in 1..chunks : pieces[c].status # "ok" /\ r = pieces[c]
         \/ /\ \A c \in 1..chunks : pieces[c].status = "ok"
            /\ r.status = "ok" /\ r.bytes = [k \in 1..total |-> r.bytes[k]]
            /\ \A k \in 1..total : r.bytes[k] = pieces[(k-1) \div S + 1].bytes[((k-1) % S) + 1]
    BY ONLY <2>5, <2>6, <2>14, JoinedIs
  <2> QED BY ONLY <2>12, <2>13, <2>15, Zenon
<1> QED BY <1>6, <1>7

(* A file as an open handle keeps it, or the fork of one.                  *)
Kept(d, f) ==
  /\ f.storage \in FileTypes /\ f.key \in Nat /\ f.eof \in Nat /\ KeyBlock(d, f)
  /\ f.key = d.blocks => PointsPast(d)

(* The blocks that a file's pointers can lead to.                          *)
Reach(storage) == CASE storage = "seedling" -> 1 [] storage = "sapling" -> Pointers
                    [] storage = "tree" -> Pointers * Pointers

LEMMA CapacityIs ==
  ASSUME NEW storage \in FileTypes
  PROVE  Reach(storage) \in Nat /\ Capacity(storage) = Reach(storage) * BlockSize
<1>1. Reach(storage) \in Nat
  BY SizesAre, Products DEF Reach, FileTypes
<1>2. Capacity(storage) = BlockSize * Reach(storage)
  BY DEF Capacity, Reach
<1> QED BY ONLY <1>1, <1>2, SizesAre

LEMMA ReadIndexIs ==
  ASSUME NEW d, IsDisk(d), NEW f, Kept(d, f), NEW offset \in Nat, NEW blocks \in Nat,
         NEW q, q = offset \div BlockSize
  PROVE  LET r == ReadIndex(d, f.key, Level(f.storage), offset, blocks)
             n == IF f.storage = "seedling" THEN 1 ELSE blocks
         IN  /\ r.status \in {"ok", "error", "throws", "undefined"}
             /\ r.status = "throws" => PointsPast(d)
             /\ r.status = "undefined" =>
                  f.storage # "seedling" /\ (q % Pointers) + blocks > Pointers
             /\ r.status = "ok" =>
                  /\ r.bytes \in [1..n * BlockSize -> Nat]
                  /\ \A v \in 0..n-1, j \in 0..BlockSize-1 : q + v < Reach(f.storage) =>
                       r.bytes[v * BlockSize + j + 1] = ByteOf(d, f, (q + v) * BlockSize + j)
<1>1. PICK P \in Nat \ {0}, B \in Nat \ {0} : P = Pointers /\ B = BlockSize
  BY SizesAre
<1>2. PICK r : r = ReadIndex(d, f.key, Level(f.storage), offset, blocks)
  OBVIOUS
<1>3. f.key \in Nat /\ KeyBlock(d, f) /\ (f.key = d.blocks => PointsPast(d)) /\ f.storage \in FileTypes
  BY DEF Kept
<1>4. q \in Nat /\ q % P \in 0..P-1 /\ q \div P \in Nat /\ q = (q \div P) * P + (q % P)
  <2>1. q \in Nat
    BY ONLY <1>1, q = offset \div BlockSize, Divided, offset \in Nat
  <2> QED BY ONLY <1>1, <2>1, Divided
<1>5. ASSUME NEW n \in Nat, NEW j \in 0..B-1
      PROVE  (n * B + j) \div BlockSize = n /\ (n * B + j) % BlockSize = j
  BY ONLY <1>1, Multiple, n \in Nat, j \in 0..B-1
<1>6. CASE f.storage = "seedling"
  <2>1. r = ReadData(d, f.key)
    BY <1>2, <1>6 DEF ReadIndex, Level
  <2>2. DataBlock(d, f.key)
    BY <1>3, <1>6 DEF KeyBlock
  <2>3. /\ r.status \in {"ok", "error", "throws"}
        /\ r.status = "throws" => PointsPast(d)
        /\ r.status = "ok" =>
             /\ r.bytes \in [1..B -> Nat]
             /\ \A j \in 1..B : r.bytes[j] = ByteAt(d, f.key, j)
    BY <1>1, <1>3, <2>1, <2>2, ReadDataIs
  <2>4. 1 * BlockSize = B
    BY <1>1
  <2>5. ASSUME r.status = "ok", NEW v \in 0..0, NEW j \in 0..B-1, q + v < Reach(f.storage)
        PROVE  r.bytes[v * BlockSize + j + 1] = ByteOf(d, f, (q + v) * BlockSize + j)
    <3>1. q = 0 /\ v = 0
      BY <1>4, <1>6, <2>5 DEF Reach
    <3>2. v * BlockSize + j + 1 = j + 1 /\ (q + v) * BlockSize + j = j
      BY <1>1, <3>1
    <3>3. j % BlockSize = j
      BY <1>1
    <3>4. ByteOf(d, f, j) = ByteAt(d, f.key, j + 1)
      BY <1>6, <3>3 DEF ByteOf, ByteAt
    <3>5. j + 1 \in 1..B
      BY <1>1
    <3> QED BY <2>3, <2>5, <3>2, <3>4, <3>5
  <2>6. 1 - 1 = 0
    OBVIOUS
  <2> QED BY <1>1, <1>2, <1>6, <2>3, <2>4, <2>5, <2>6
<1>7. CASE f.storage = "sapling"
  <2>1. PICK first : first = q % P
    OBVIOUS
  <2>2. r = ReadPointed(d, f.key, first, blocks)
    BY <1>1, <1>2, <1>7, <2>1 DEF ReadIndex, Level
  <2>3. IndexBlock(d, f.key)
    BY <1>3, <1>7 DEF KeyBlock
  <2>4. first \in Nat /\ f.key \in Nat
    BY <1>3, <1>4, <2>1
  <2>5. PICK key \in Nat : key = f.key
    BY <2>4
  <2>6. /\ r.status \in {"ok", "error", "throws", "undefined"}
        /\ r.status = "throws" => key = d.blocks \/ PointsPast(d)
        /\ r.status = "undefined" => first + blocks > Pointers
        /\ r.status = "ok" =>
             /\ r.bytes \in [1..blocks * BlockSize -> Nat]
             /\ \A v \in 0..blocks-1, j \in 0..BlockSize-1 :
                  r.bytes[v * BlockSize + j + 1] = ByteAt(d, Pointed(d, key, first + v), j + 1)
    BY ONLY <2>2, <2>3, <2>4, <2>5, IsDisk(d), blocks \in Nat, ReadPointedIs
  <2>7. ASSUME NEW v \in 0..blocks-1, NEW j \in 0..B-1, q + v < Reach(f.storage)
        PROVE  ByteAt(d, Pointed(d, key, first + v), j + 1) = ByteOf(d, f, (q + v) * BlockSize + j)
    <3>1. q + v < P /\ q + v \in Nat
      <4>1. Reach(f.storage) = P
        BY <1>1, <1>7 DEF Reach
      <4>2. q \in Nat /\ v \in Nat
        BY <1>4
      <4> QED BY ONLY <2>7, <4>1, <4>2
    <3>2. first = q
      <4>1. q \in 0..P-1 /\ q = 0 * P + q
        <5>1. q \in Nat /\ v \in Nat
          BY <1>4
        <5> QED BY ONLY <3>1, <5>1, P \in Nat \ {0}
      <4> QED BY ONLY <2>1, <4>1, Multiple, P \in Nat \ {0}, 0 \in Nat
    <3>3. PICK k : k = (q + v) * BlockSize + j
      OBVIOUS
    <3>4. k \div BlockSize = q + v /\ k % BlockSize = j
      BY <1>1, <1>5, <3>1, <3>3
    <3> QED BY <1>7, <2>5, <3>2, <3>3, <3>4 DEF ByteOf, ByteAt
  <2> QED BY <1>1, <1>2, <1>3, <1>7, <2>1, <2>5, <2>6, <2>7
<1>8. CASE f.storage = "tree"
  <2>1. PICK first : first = (offset \div (BlockSize * Pointers)) % Pointers
    OBVIOUS
  <2>2. PICK start : start = q % P
    OBVIOUS
  <2>3. PICK key \in Nat : key = f.key
    BY <1>3
  <2>4. r = ReadTree(d, key, offset, blocks)
    BY <1>2, <1>8, <2>3 DEF ReadIndex, Level
  <2>5. TreeBlock(d, key)
    BY <1>3, <1>8, <2>3 DEF KeyBlock
  <2>6. start = (offset \div BlockSize) % Pointers
    BY <1>1, <2>2
  <2>7. /\ r.status \in {"ok", "error", "throws", "undefined"}
        /\ r.status = "throws" => key = d.blocks \/ PointsPast(d)
        /\ r.status = "undefined" => start + blocks > Pointers
        /\ r.status = "ok" =>
             /\ r.bytes \in [1..blocks * BlockSize -> Nat]
             /\ \A v \in 0..blocks-1, j \in 0..BlockSize-1 :
                  r.bytes[v * BlockSize + j + 1] =
                    ByteAt(d, Pointed(d, Pointed(d, key, first + ((start + v) \div Pointers)),
                                      (start + v) % Pointers), j + 1)
    BY ONLY <2>1, <2>4, <2>5, <2>6, IsDisk(d), blocks \in Nat, key \in Nat, offset \in Nat, ReadTreeIs
  <2>8. offset \div (BlockSize * Pointers) = q \div P
    <3>1. PICK skip : skip = offset % BlockSize
      OBVIOUS
    <3>2. skip \in 0..BlockSize-1 /\ offset = q * BlockSize + skip
      BY ONLY <1>1, <3>1, Divided, offset \in Nat, q = offset \div BlockSize
    <3>3. (q * BlockSize + skip) \div (BlockSize * Pointers) = q \div Pointers
      BY ONLY <1>4, <3>2, Nested
    <3> QED BY <1>1, <3>2, <3>3
  <2>9. ASSUME NEW v \in 0..blocks-1, NEW j \in 0..B-1, q + v < Reach(f.storage)
        PROVE  ByteAt(d, Pointed(d, Pointed(d, key, first + ((start + v) \div Pointers)),
                                      (start + v) % Pointers), j + 1)
                 = ByteOf(d, f, (q + v) * BlockSize + j)
    <3>1. q + v < P * P /\ q + v \in Nat /\ v \in Nat
      <4>1. Reach(f.storage) = P * P
        BY <1>1, <1>8 DEF Reach
      <4>2. q \in Nat /\ v \in Nat
        BY <1>4
      <4> QED BY ONLY <2>9, <4>1, <4>2
    <3>2. PICK a : a = q \div P
      OBVIOUS
    <3>3. a \in Nat /\ q = a * P + start /\ start \in 0..P-1 /\ a * P \in Nat
      <4>1. a \in Nat
        BY <1>4, <3>2
      <4>2. a * P \in Nat
        BY ONLY <4>1, Products, P \in Nat \ {0}
      <4> QED BY <1>4, <2>2, <3>2, <4>1, <4>2
    <3>4. a < P
      <4>1. q < P * P
        <5>1. PICK x : x = P * P
          OBVIOUS
        <5>2. x \in Nat
          BY ONLY <5>1, Products, P \in Nat \ {0}
        <5> QED BY ONLY <1>4, <3>1, <5>1, <5>2
      <4> QED BY ONLY <1>4, <3>2, <4>1, Below, P \in Nat \ {0}
    <3>5. first = a
      <4>1. first = a % P
        BY <1>1, <2>1, <2>8, <3>2
      <4>2. a \in 0..P-1 /\ a = 0 * P + a
        BY <3>3, <3>4
      <4> QED BY ONLY <4>1, <4>2, Multiple, P \in Nat \ {0}, 0 \in Nat
    <3>6. PICK w \in Nat : w = start + v
      BY <3>1, <3>3
    <3>7. PICK c, u : c = w \div P /\ u = w % P
      OBVIOUS
    <3>8. c \in Nat /\ u \in 0..P-1 /\ w = c * P + u /\ c * P \in Nat
      BY ONLY <3>7, Divided, P \in Nat \ {0}, w \in Nat
    <3>9. q + v = (a + c) * P + u
      <4>1. (a + c) * P = a * P + c * P
        BY ONLY <3>3, <3>8, Products, P \in Nat \ {0}
      <4>2. PICK x, y : x = a * P /\ y = c * P
        OBVIOUS
      <4> QED BY ONLY <3>1, <3>3, <3>6, <3>8, <4>1, <4>2
    <3>10. (q + v) \div P = a + c /\ (q + v) % P = u
      <4>1. a + c \in Nat
        BY <3>3, <3>8
      <4> QED BY ONLY <3>8, <3>9, <4>1, Multiple, P \in Nat \ {0}
    <3>11. PICK k : k = (q + v) * BlockSize + j
      OBVIOUS
    <3>12. k \div BlockSize = q + v /\ k % BlockSize = j
      BY <1>1, <1>5, <3>1, <3>11
    <3>13. ByteOf(d, f, k) = ByteAt(d, Pointed(d, Pointed(d, key, a + c), u), j + 1)
      BY <1>1, <1>8, <2>3, <3>10, <3>12 DEF ByteOf, ByteAt
    <3> QED BY <1>1, <3>5, <3>6, <3>7, <3>11, <3>13
  <2> QED BY <1>1, <1>2, <1>3, <1>8, <2>2, <2>3, <2>7, <2>9
<1> QED BY <1>3, <1>6, <1>7, <1>8 DEF FileTypes

(* A read of `size' bytes of a file, from offset on.                       *)
LEMMA BytesIs ==
  ASSUME NEW d, IsDisk(d), NEW f, Kept(d, f), NEW offset \in Nat, NEW size \in Nat
  PROVE  LET a == Bytes(d, f, size, offset)
             n == Smaller(size, f.eof - offset)
             start == (offset \div BlockSize) % Pointers
         IN  /\ a.op \in {"data", "undefined"} \/ a = Error("EIO") \/ (a = Dead /\ PointsPast(d))
             /\ a.op = "data" =>
                  /\ a.bytes \in Seq(Nat \union {Unset}) /\ Len(a.bytes) = size
                  /\ \A k \in 1..size : a.bytes[k] = Unset <=>
                                        f.storage = "seedling" /\ (offset % BlockSize) + k > BlockSize
                  /\ offset < f.eof /\ f.eof <= Capacity(f.storage) =>
                       \A k \in 1..n : /\ a.bytes[k] = ByteOf(d, f, offset + k - 1)
                                       /\ a.bytes[k] \in Nat
             /\ a.op = "undefined" =>
                  \/ f.storage = "seedling" /\ size = 0
                  \/ /\ f.storage # "seedling"
                     /\ start * BlockSize + (offset % BlockSize) + size > Pointers * BlockSize
<1>1. PICK P \in Nat \ {0}, B \in Nat \ {0} : P = Pointers /\ B = BlockSize
  BY SizesAre
<1>2. PICK a : a = Bytes(d, f, size, offset)
  OBVIOUS
<1>3. PICK q, skip : q = offset \div B /\ skip = offset % B
  OBVIOUS
<1>4. q \in Nat /\ skip \in 0..B-1 /\ offset = q * B + skip /\ q * B \in Nat
  BY ONLY <1>3, Divided, B \in Nat \ {0}, offset \in Nat
<1>5. PICK x \in Nat : x = size + skip
  BY <1>4
<1>6. PICK blocks : blocks = (x + B - 1) \div B
  OBVIOUS
<1>7. /\ blocks \in Nat /\ x <= blocks * B /\ blocks * B < x + B /\ blocks * B \in Nat
      /\ blocks = 0 => x = 0
  BY ONLY <1>6, Rounded, B \in Nat \ {0}, x \in Nat
<1>8. PICK r : r = IF blocks = 0 /\ f.storage = "seedling" THEN Undefined
                   ELSE ReadIndex(d, f.key, Level(f.storage), offset, blocks)
  OBVIOUS
<1>9. a = IF r.status = "ok"
            THEN [op |-> "data",
                  bytes |-> [k \in 1..size |-> IF skip + k <= Len(r.bytes) THEN r.bytes[skip + k]
                                               ELSE Unset]]
          ELSE IF r.status = "undefined" THEN [op |-> "undefined"]
          ELSE Bad(r.status, "EIO")
  <2>1. (size + skip + B - 1) \div B = blocks
    BY <1>5, <1>6
  <2> QED BY <1>1, <1>2, <1>3, <1>8, <2>1 DEF Bytes
<1>10. f.storage \in FileTypes /\ f.eof \in Nat
  BY DEF Kept
<1>11. CASE blocks = 0 /\ f.storage = "seedling"
  <2>1. r.status = "undefined"
    BY <1>8, <1>11 DEF Undefined
  <2>2. a.op = "undefined"
    BY <1>9, <2>1
  <2>3. size = 0
    BY <1>4, <1>5, <1>7, <1>11
  <2> QED BY <1>2, <1>11, <2>2, <2>3
<1>12. CASE ~(blocks = 0 /\ f.storage = "seedling")
  <2>1. r = ReadIndex(d, f.key, Level(f.storage), offset, blocks)
    BY <1>8, <1>12
  <2>2. PICK n \in Nat : n = IF f.storage = "seedling" THEN 1 ELSE blocks
    BY <1>7
  <2>3. /\ r.status \in {"ok", "error", "throws", "undefined"}
        /\ r.status = "throws" => PointsPast(d)
        /\ r.status = "undefined" => f.storage # "seedling" /\ (q % Pointers) + blocks > Pointers
        /\ r.status = "ok" =>
             /\ r.bytes \in [1..n * BlockSize -> Nat]
             /\ \A v \in 0..n-1, j \in 0..BlockSize-1 : q + v < Reach(f.storage) =>
                  r.bytes[v * BlockSize + j + 1] = ByteOf(d, f, (q + v) * BlockSize + j)
    <3>1. q = offset \div BlockSize
      BY <1>1, <1>3
    <3> QED BY ONLY <2>1, <2>2, <1>7, <3>1, IsDisk(d), Kept(d, f), offset \in Nat, ReadIndexIs
  <2>4. CASE r.status \in {"error", "throws"}
    <3>1. a = Bad(r.status, "EIO")
      BY <1>9, <2>4
    <3>2. a = Error("EIO") \/ (a = Dead /\ PointsPast(d))
      BY <2>3, <2>4, <3>1 DEF Bad
    <3>3. a.op \notin {"data", "undefined"}
      BY <3>2 DEF Error, Dead
    <3> QED BY <1>2, <3>2, <3>3
  <2>5. CASE r.status = "undefined"
    <3>1. a.op = "undefined"
      BY <1>9, <2>5
    <3>2. PICK start \in 0..P-1 : start = q % P
      BY ONLY <1>4, Divided, P \in Nat \ {0}
    <3>3. f.storage # "seedling" /\ start + blocks > P
      BY <1>1, <2>3, <2>5, <3>2
    <3>4. start * B + skip + size > P * B
      <4>1. PICK u, y, z, t : u = start * B /\ y = blocks * B /\ z = P * B /\ t = (start + blocks) * B
        OBVIOUS
      <4>2. t = u + y /\ u \in Nat /\ y \in Nat /\ z \in Nat
        BY ONLY <1>7, <4>1, Products, start \in 0..P-1, P \in Nat \ {0}, B \in Nat \ {0}
      <4>3. z + B <= t
        <5>1. start + blocks \in Nat /\ P \in Nat /\ P < start + blocks
          BY ONLY <1>7, <3>3, start \in 0..P-1, P \in Nat \ {0}
        <5> QED BY ONLY <4>1, <5>1, Products, B \in Nat \ {0}
      <4> QED BY ONLY <1>4, <1>5, <1>7, <4>1, <4>2, <4>3, size \in Nat, B \in Nat \ {0}
    <3>5. /\ (offset \div BlockSize) % Pointers = start /\ offset % BlockSize = skip
          /\ BlockSize = B /\ Pointers = P
      BY <1>1, <1>3, <3>2
    <3> QED BY ONLY <1>2, <3>1, <3>3, <3>4, <3>5
  <2>6. CASE r.status = "ok"
    <3>1. PICK s : s = r.bytes
      OBVIOUS
    <3>2. PICK total : total = n * B
      OBVIOUS
    <3>3. total \in Nat /\ (n = 1 => total = B) /\ (n = blocks => total = blocks * B)
      BY ONLY <3>2, Products, n \in Nat, B \in Nat \ {0}
    <3>4. s \in [1..total -> Nat]
      BY <1>1, <2>3, <2>6, <3>1, <3>2
    <3>5. s \in Seq(Nat) /\ Len(s) = total
      BY ONLY <3>3, <3>4, FunctionSeq
    <3>6. PICK bytes : bytes = [k \in 1..size |-> IF skip + k <= total THEN s[skip + k] ELSE Unset]
      OBVIOUS
    <3>7. n = blocks => skip + size <= total
      <4>1. PICK y : y = blocks * B
        OBVIOUS
      <4> QED BY ONLY <1>4, <1>5, <1>7, <3>3, <4>1, size \in Nat
    <3>8. ASSUME NEW k \in 1..size
          PROVE  /\ skip + k <= total => bytes[k] = s[skip + k] /\ bytes[k] \in Nat
                 /\ skip + k > total => bytes[k] = Unset
      <4>1. skip + k <= total => skip + k \in 1..total
        BY ONLY <1>4, <3>3, k \in 1..size, size \in Nat
      <4>2. skip + k <= total => s[skip + k] \in Nat
        BY ONLY <3>4, <4>1
      <4>3. skip + k > total => ~(skip + k <= total)
        BY ONLY <1>4, <3>3, k \in 1..size, size \in Nat
      <4> QED BY ONLY <3>6, <4>2, <4>3, k \in 1..size
    <3>9. bytes \in Seq(Nat \union {Unset}) /\ Len(bytes) = size
      <4>1. \A k \in 1..size : skip + k <= total \/ skip + k > total
        BY ONLY <1>4, <3>3, size \in Nat
      <4>2. \A k \in 1..size : bytes[k] \in Nat \union {Unset}
        BY ONLY <3>8, <4>1
      <4>3. bytes \in [1..size -> Nat \union {Unset}]
        BY ONLY <3>6, <4>2
      <4> QED BY ONLY <4>3, FunctionSeq, size \in Nat
    <3>10. ASSUME NEW k \in 1..size
           PROVE  bytes[k] = Unset <=> f.storage = "seedling" /\ skip + k > B
      <4>1. bytes[k] \in Nat => bytes[k] # Unset
        BY DEF Unset
      <4>2. CASE f.storage = "seedling"
        <5>1. total = B
          BY <2>2, <3>3, <4>2
        <5>2. skip + k <= total \/ skip + k > total
          BY ONLY <1>4, <3>3, k \in 1..size, size \in Nat
        <5>3. skip + k <= total => ~(skip + k > B)
          BY ONLY <1>4, <5>1, k \in 1..size, size \in Nat, B \in Nat \ {0}
        <5> QED BY ONLY <3>8, <4>1, <4>2, <5>1, <5>2, <5>3
      <4>3. CASE f.storage # "seedling"
        <5>1. skip + size <= total
          BY <2>2, <3>7, <4>3
        <5>2. skip + k <= total
          BY ONLY <1>4, <3>3, <5>1, k \in 1..size, size \in Nat
        <5> QED BY ONLY <3>8, <4>1, <4>3, <5>2
      <4> QED BY <4>2, <4>3
    <3>11. a = [op |-> "data", bytes |-> bytes]
      BY <1>9, <2>6, <3>1, <3>5, <3>6
    <3>12. a.op = "data" /\ a.bytes = bytes
      BY <3>11
    <3>14. ASSUME offset < f.eof, f.eof <= Capacity(f.storage)
           PROVE  \A k \in 1..Smaller(size, f.eof - offset) :
                    bytes[k] = ByteOf(d, f, offset + k - 1) /\ bytes[k] \in Nat
      <4>1. PICK l : l = Smaller(size, f.eof - offset)
        OBVIOUS
      <4>2. PICK eof \in Nat : eof = f.eof
        BY <1>10
      <4>3. l \in Nat /\ l <= size /\ l <= eof - offset
        BY ONLY <3>14, <4>1, <4>2, offset \in Nat, size \in Nat DEF Smaller
      <4>4. PICK reach \in Nat : reach = Reach(f.storage)
        BY <1>10, CapacityIs
      <4>5. eof <= reach * B /\ reach * B \in Nat
        <5>1. reach * B \in Nat
          BY ONLY Products, reach \in Nat, B \in Nat \ {0}
        <5> QED BY <1>1, <1>10, <3>14, <4>2, <4>4, <5>1, CapacityIs
      <4>6. skip + l <= total
        <5>1. CASE n = 1 /\ f.storage = "seedling"
          <6>1. reach * B = B
            BY <4>4, <5>1 DEF Reach
          <6>2. total = B
            BY <3>3, <5>1
          <6>3. PICK y : y = q * B
            OBVIOUS
          <6>4. skip <= offset
            BY ONLY <1>4, <6>3, offset \in Nat
          <6>5. q = 0
            <7>1. offset < 1 * B
              BY ONLY <3>14, <4>2, <4>5, <6>1, offset \in Nat, B \in Nat \ {0}
            <7>2. q < 1
              BY ONLY <1>3, <7>1, Below, offset \in Nat, B \in Nat \ {0}, 1 \in Nat
            <7> QED BY <1>4, <7>2
          <6>6. offset = skip
            BY ONLY <1>4, <6>5, B \in Nat \ {0}
          <6> QED BY ONLY <4>3, <4>5, <6>1, <6>2, <6>6, offset \in Nat, eof \in Nat
        <5>2. CASE n = blocks
          BY ONLY <1>4, <3>3, <3>7, <4>3, <5>2, size \in Nat
        <5> QED BY <2>2, <5>1, <5>2
      <4>7. ASSUME NEW k \in 1..l
            PROVE  bytes[k] = ByteOf(d, f, offset + k - 1) /\ bytes[k] \in Nat
        <5>1. PICK t \in Nat : t = skip + k - 1
          BY <1>4, <4>3
        <5>2. k \in 1..size /\ t < total /\ skip + k = t + 1 /\ skip + k <= total
          BY ONLY <1>4, <3>3, <4>3, <4>6, <5>1, k \in 1..l, size \in Nat
        <5>3. PICK v, j : v = t \div B /\ j = t % B
          OBVIOUS
        <5>4. v \in Nat /\ j \in 0..B-1 /\ t = v * B + j /\ v * B \in Nat
          BY ONLY <5>3, Divided, B \in Nat \ {0}, t \in Nat
        <5>5. v < n
          BY ONLY <3>2, <5>2, <5>3, Below, B \in Nat \ {0}, t \in Nat, n \in Nat
        <5>6. PICK o \in Nat : o = offset + k - 1
          BY <4>3
        <5>7. o = (q + v) * B + j
          <6>1. PICK y, z : y = q * B /\ z = v * B
            OBVIOUS
          <6>2. (q + v) * B = y + z
            BY ONLY <1>4, <5>4, <6>1, Products, B \in Nat \ {0}
          <6> QED BY ONLY <1>4, <4>3, <5>1, <5>4, <5>6, <6>1, <6>2, offset \in Nat, k \in 1..l
        <5>8. q + v < reach
          <6>1. q + v \in Nat
            BY <1>4, <5>4
          <6>2. PICK z : z = reach * B
            OBVIOUS
          <6>3. o < z
            BY ONLY <4>3, <4>5, <5>6, <6>2, offset \in Nat, k \in 1..l, eof \in Nat
          <6>4. o \div B < reach
            BY ONLY <6>2, <6>3, Below, B \in Nat \ {0}, o \in Nat, reach \in Nat
          <6>5. o \div B = q + v
            BY ONLY <5>4, <5>7, <6>1, Multiple, B \in Nat \ {0}
          <6> QED BY <6>4, <6>5
        <5>9. v \in 0..n-1
          BY <5>4, <5>5
        <5>10. s[v * B + j + 1] = ByteOf(d, f, (q + v) * B + j)
          BY <1>1, <2>3, <2>6, <3>1, <4>4, <5>4, <5>8, <5>9
        <5>11. bytes[k] = s[t + 1] /\ bytes[k] \in Nat
          BY ONLY <3>8, <5>2
        <5> QED BY ONLY <5>4, <5>6, <5>7, <5>10, <5>11
      <4> QED BY ONLY <4>1, <4>7
    <3>15. skip = offset % BlockSize /\ BlockSize = B
      BY <1>1, <1>3
    <3> QED BY ONLY <1>2, <3>9, <3>10, <3>12, <3>14, <3>15
  <2> QED BY <2>3, <2>4, <2>5, <2>6
<1> QED BY <1>11, <1>12

-----------------------------------------------------------------------------
(* Answers.                                                                *)

LEMMA ErrorsAre ==
  /\ \A e : Error(e).op = "error" /\ Error(e).error = e
  /\ Dead.op = "dead" /\ None.op = "none"
BY DEF Error, Dead, None

LEMMA NormalizeIs ==
  ASSUME NEW d, IsDisk(d), NEW i \in Inodes(d), i # Root, NEW fork \in {"data", "resource"},
         NEW e, e = EntryAt(d, i)
  PROVE  LET n == Normalize(d, e, fork)
             f == Fork(d, e, fork)
         IN  /\ n.status \in {"ok", "error", "throws"} /\ (n.status = "throws" => PointsPast(d))
             /\ n.status = "ok" =>
                  /\ n.entry.storage = f.storage /\ n.entry.key = f.key /\ n.entry.eof = f.eof
                  /\ n.entry.key \in Nat /\ (n.entry.key = d.blocks => PointsPast(d))
                  /\ f.storage \in FileTypes => Kept(d, n.entry)
             /\ e.storage # "extended" /\ fork = "data" => n.status = "ok"
             /\ e.storage # "extended" /\ fork = "resource" => n.status = "error"
<1>1. PICK r : r = ReadBlock(d, e.key)
  OBVIOUS
<1>2. PICK n : n = Normalize(d, e, fork)
  OBVIOUS
<1>3. PICK f : f = Fork(d, e, fork)
  OBVIOUS
<1>4. /\ i[1] \in DirBlocks(d) /\ i[2] \in DOMAIN d.content[i[1]].entries
      /\ e = d.content[i[1]].entries[i[2]]
  BY InodeIs
<1>5. /\ e \in Entry /\ KeyBlock(d, e)
      /\ e.storage = "extended" /\ e.key < d.blocks =>
           e.key \in 0..d.blocks-1 /\ d.content[e.key].kind = "extended"
  BY <1>4, EntryIs
<1>6. e.key = d.blocks => PointsPast(d)
  <2>1. i[1] \in 0..d.blocks-1 /\ d.content[i[1]].kind = "dir"
    BY <1>4, DirIs
  <2> QED BY ONLY <1>4, <2>1, IsDisk(d), PastEnd
<1>7. e.storage \in STRING /\ e.key \in Nat /\ e.eof \in Nat
  BY <1>5 DEF Entry
<1>8. CASE e.storage # "extended" /\ fork = "resource"
  <2>1. n = Failed
    BY <1>2, <1>8 DEF Normalize
  <2>2. n.status = "error"
    BY <2>1 DEF Failed
  <2> QED BY <1>2, <1>8, <2>2
<1>9. CASE e.storage # "extended" /\ fork = "data"
  <2>1. n = [status |-> "ok", entry |-> e]
    BY <1>2, <1>9 DEF Normalize
  <2>2. n.status = "ok" /\ n.entry = e
    BY <2>1
  <2>3. f = e
    BY <1>3, <1>9 DEF Fork
  <2>4. f.storage \in FileTypes => Kept(d, n.entry)
    BY <1>5, <1>6, <1>7, <2>2, <2>3 DEF Kept
  <2> QED BY <1>2, <1>3, <1>6, <1>7, <1>9, <2>2, <2>3, <2>4
<1>10. CASE e.storage = "extended" /\ ~(e.key < d.blocks)
  <2>1. r.status \in {"error", "throws"} /\ (r.status = "throws" => e.key = d.blocks)
    BY <1>1, <1>7, <1>10, ReadBlockIs
  <2>2. n = r
    BY <1>1, <1>2, <1>10, <2>1 DEF Normalize
  <2> QED BY <1>2, <1>6, <1>10, <2>1, <2>2
<1>11. CASE e.storage = "extended" /\ e.key < d.blocks
  <2>1. r = [status |-> "ok", content |-> d.content[e.key]]
    BY <1>1, <1>7, <1>11, ReadBlockIs
  <2>2. r.status = "ok" /\ r.content = d.content[e.key]
    BY <2>1
  <2>3. PICK mini : mini = d.content[e.key][fork]
    OBVIOUS
  <2>4. mini \in MiniEntry /\ KeyBlock(d, mini)
    BY <1>5, <1>11, <2>3, MiniIs
  <2>5. f = mini
    BY <1>3, <1>11, <2>3 DEF Fork
  <2>6. PICK entry : entry = [e EXCEPT !.storage = mini.storage, !.key = mini.key, !.eof = mini.eof]
    OBVIOUS
  <2>7. n = [status |-> "ok", finder |-> r.content.finder, entry |-> entry]
    BY <1>1, <1>2, <1>11, <2>2, <2>3, <2>6 DEF Normalize
  <2>8. n.status = "ok" /\ n.entry = entry
    BY <2>7
  <2>9. mini.storage \in STRING /\ mini.key \in Nat /\ mini.eof \in Nat
    BY <2>4 DEF MiniEntry
  <2>10. entry.storage = mini.storage /\ entry.key = mini.key /\ entry.eof = mini.eof
    BY <1>5, <2>6 DEF Entry
  <2>11. KeyBlock(d, entry)
    BY <2>4, <2>10 DEF KeyBlock
  <2>12. mini.key = d.blocks => PointsPast(d)
    <3>1. e.key \in 0..d.blocks-1 /\ d.content[e.key].kind = "extended"
      BY <1>5, <1>11
    <3> QED BY ONLY <2>3, <3>1, IsDisk(d), fork \in {"data", "resource"}, PastEnd
  <2>13. f.storage \in FileTypes => Kept(d, n.entry)
    BY <2>5, <2>8, <2>9, <2>10, <2>11, <2>12 DEF Kept
  <2> QED BY <1>2, <1>3, <1>11, <2>5, <2>8, <2>9, <2>10, <2>12, <2>13
<1> QED BY <1>8, <1>9, <1>10, <1>11

LEMMA StatIs ==
  ASSUME NEW d, IsDisk(d), NEW i \in Inodes(d), i # Root
  PROVE  LET a == Stat(d, i, EntryAt(d, i))
             f == Fork(d, EntryAt(d, i), "data")
         IN  \/ a = Error("EIO") \/ (a = Dead /\ PointsPast(d))
             \/ /\ a.op = "attr" /\ a.inode = i
                /\ f.storage # "directory" => a.size = f.eof
<1>1. PICK e : e = EntryAt(d, i)
  OBVIOUS
<1>2. PICK n : n = Normalize(d, e, "data")
  OBVIOUS
<1>3. PICK f : f = Fork(d, e, "data")
  OBVIOUS
<1>4. PICK a : a = Stat(d, i, e)
  OBVIOUS
<1>5. /\ n.status \in {"ok", "error", "throws"} /\ (n.status = "throws" => PointsPast(d))
      /\ n.status = "ok" =>
           /\ n.entry.storage = f.storage /\ n.entry.eof = f.eof
           /\ n.entry.key \in Nat /\ (n.entry.key = d.blocks => PointsPast(d))
  BY <1>1, <1>2, <1>3, NormalizeIs
<1>6. PICK h : h = Directory(d, n.entry.key, "subdir")
  OBVIOUS
<1>7. n.status = "ok" =>
        h.status \in {"ok", "error", "throws"} /\ (h.status = "throws" => PointsPast(d))
  BY <1>5, <1>6, DirectoryIs
<1>8. a = IF n.status # "ok" THEN Bad(n.status, "EIO")
          ELSE IF n.entry.storage = "directory"
            THEN IF h.status # "ok" THEN Bad(h.status, "EIO")
                 ELSE Attr(i, BlockSize, h.head.count + 1)
          ELSE IF n.entry.storage \in FileTypes THEN Attr(i, n.entry.eof, 1)
          ELSE Error("EIO")
  BY <1>2, <1>4, <1>6 DEF Stat
<1>9. \A size, links : /\ Attr(i, size, links).op = "attr" /\ Attr(i, size, links).inode = i
                       /\ Attr(i, size, links).size = size
  BY DEF Attr
<1>10. \A st : Bad(st, "EIO") = Error("EIO") \/ (Bad(st, "EIO") = Dead /\ st = "throws")
  BY DEF Bad
<1>11. CASE n.status # "ok"
  BY <1>1, <1>3, <1>4, <1>5, <1>8, <1>10, <1>11
<1>12. CASE n.status = "ok" /\ n.entry.storage = "directory" /\ h.status # "ok"
  BY <1>1, <1>3, <1>4, <1>7, <1>8, <1>10, <1>12
<1>13. CASE n.status = "ok" /\ n.entry.storage = "directory" /\ h.status = "ok"
  BY <1>1, <1>3, <1>4, <1>5, <1>8, <1>9, <1>13
<1>14. CASE n.status = "ok" /\ n.entry.storage # "directory"
  BY <1>1, <1>3, <1>4, <1>5, <1>8, <1>9, <1>14
<1> QED BY <1>11, <1>12, <1>13, <1>14

(* ReadsFlat and AttributesAgree, of a request q and its answer a.         *)
Flat(d, q, hs, a) ==
  LET f == IF q.op = "read" THEN hs[q.handle].entry ELSE Fork(d, EntryAt(d, q.inode), "resource")
      from == IF q.op = "read" THEN q.offset ELSE 0
      start == (from \div BlockSize) % Pointers
      expected == IF from >= f.eof THEN <<>> ELSE Slice(d, f, from, q.size)
      length == IF q.op # "read" THEN Smaller(q.size, f.eof)
                ELSE IF from >= f.eof THEN 0 ELSE q.size
  IN  /\ a.op = "data" /\ f.eof <= Capacity(f.storage) =>
           /\ Len(a.bytes) = length /\ SubSeq(a.bytes, 1, Len(expected)) = expected
           /\ \A k \in 1..length : a.bytes[k] = Unset <=>
                                   f.storage = "seedling" /\ (from % BlockSize) + k > BlockSize
      /\ a.op = "undefined" =>
           \/ f.storage = "seedling" /\ f.eof = 0
           \/ /\ f.storage # "seedling"
              /\ start * BlockSize + (from % BlockSize) + q.size > Pointers * BlockSize

Agree(d, q, a) ==
  LET key == KeyOf(d, q.inode)
      Named == {i \in ActiveEntries(d, key) : EntryAt(d, i).name = q.name}
      Unread == {Error("EIO"), Dead}
  IN  /\ a.op = "attr" /\ q.op = "lookup" =>
           /\ EntryAt(d, a.inode).name = q.name
           /\ IsDirectory(d, q.inode) /\ HasHeader(d, key, HeaderOf(q.inode))
      /\ a.op = "attr" /\ a.inode # Root =>
           LET f == Fork(d, EntryAt(d, a.inode), "data")
           IN  f.storage # "directory" => a.size = f.eof
      /\ a = Error("ENOENT") /\ q.name \notin Invalid /\ IsDirectory(d, q.inode)
           /\ Sound(d, key, HeaderOf(q.inode)) =>
           \A i \in Named : Getattr(d, i) = Error("EIO") \/ \E j \in Named : Before(d, key, j, i)
      /\ a.op = "names" /\ a.names # <<>> =>
           \A x \in DOMAIN AttributeSize :
             LET v == Getxattr(d, q.inode, x, 0)
             IN  /\ v.op = "length" => x \in ToSet(a.names)
                 /\ x \in ToSet(a.names) => v.op = "length" \/ v \in Unread
      /\ a.op = "length" /\ a.length # 0 =>
           IF q.op = "listxattr" THEN Listxattr(d, q.inode, a.length).op = "names"
           ELSE LET v == Getxattr(d, q.inode, q.name, a.length)
                IN  \/ v.op \in {"value", "data", "undefined"}
                    \/ q.name = "ResourceFork" /\ v \in Unread

Right(d, q, hs, a) == Flat(d, q, hs, a) /\ Agree(d, q, a)

(* And the answer of a device that does not fail.                          *)
Fine(d, q, hs, a) == Flat(d, q, hs, a) /\ Agree(d, q, a) /\ (a = Dead => PointsPast(d))

LEMMA PlainFine ==
  ASSUME NEW d, NEW q, NEW hs, NEW a,
         a.op \notin {"data", "undefined", "attr", "names", "length", "dead"}, a # Error("ENOENT")
  PROVE  Fine(d, q, hs, a)
<1>1. a # Dead
  BY ErrorsAre
<1> QED BY <1>1 DEF Fine, Flat, Agree

LEMMA FailureFine ==
  ASSUME NEW d, NEW q, NEW hs, NEW a,
         a \in {Error("EIO"), Error("ERANGE"), Error("ENOATTR"), Error("EISDIR"), Error("EACCES"),
                Error("ENOTDIR")}
           \/ (a = Dead /\ PointsPast(d))
  PROVE  Fine(d, q, hs, a)
<1>1. CASE a = Dead /\ PointsPast(d)
  <2>1. a.op = "dead" /\ a # Error("ENOENT")
    BY <1>1, ErrorsAre
  <2> QED BY <1>1, <2>1 DEF Fine, Flat, Agree
<1>2. CASE a \in {Error("EIO"), Error("ERANGE"), Error("ENOATTR"), Error("EISDIR"), Error("EACCES"),
                  Error("ENOTDIR")}
  <2>1. a.op = "error" /\ a.error # "ENOENT"
    BY <1>2, ErrorsAre
  <2>2. a # Error("ENOENT")
    BY <2>1, ErrorsAre
  <2> QED BY <2>1, <2>2, PlainFine
<1> QED BY <1>1, <1>2

(* What an answer with the attributes of a file must be.                   *)
LEMMA AttrFine ==
  ASSUME NEW d, NEW q, NEW hs, NEW a, a.op = "attr",
         q.op = "lookup" => /\ EntryAt(d, a.inode).name = q.name /\ IsDirectory(d, q.inode)
                            /\ HasHeader(d, KeyOf(d, q.inode), HeaderOf(q.inode)),
         a.inode # Root /\ Fork(d, EntryAt(d, a.inode), "data").storage # "directory" =>
           a.size = Fork(d, EntryAt(d, a.inode), "data").eof
  PROVE  Fine(d, q, hs, a)
<1>1. a # Dead /\ a # Error("ENOENT")
  BY ErrorsAre
<1>2. Flat(d, q, hs, a)
  BY DEF Flat
<1>3. Agree(d, q, a)
  BY <1>1 DEF Agree
<1> QED BY <1>1, <1>2, <1>3 DEF Fine

LEMMA GetattrFine ==
  ASSUME NEW d, IsDisk(d), NEW q, NEW hs, q.op = "getattr", q.inode \in Inodes(d)
  PROVE  Fine(d, q, hs, Getattr(d, q.inode))
<1>1. PICK a : a = Getattr(d, q.inode)
  OBVIOUS
<1>2. CASE q.inode = Root
  <2>1. a = Attr(Root, BlockSize, Volume(d).count + 1)
    BY <1>1, <1>2 DEF Getattr
  <2>2. a.op = "attr" /\ a.inode = Root
    BY <2>1 DEF Attr
  <2> QED BY <1>1, <2>2, AttrFine
<1>3. CASE q.inode # Root
  <2>1. a = Stat(d, q.inode, EntryAt(d, q.inode))
    BY <1>1, <1>3 DEF Getattr
  <2>2. \/ a = Error("EIO") \/ (a = Dead /\ PointsPast(d))
        \/ /\ a.op = "attr" /\ a.inode = q.inode
           /\ Fork(d, EntryAt(d, q.inode), "data").storage # "directory" =>
                a.size = Fork(d, EntryAt(d, q.inode), "data").eof
    BY <1>3, <2>1, StatIs
  <2>3. CASE a = Error("EIO") \/ (a = Dead /\ PointsPast(d))
    BY <1>1, <2>3, FailureFine
  <2>4. CASE /\ a.op = "attr" /\ a.inode = q.inode
             /\ Fork(d, EntryAt(d, q.inode), "data").storage # "directory" =>
                  a.size = Fork(d, EntryAt(d, q.inode), "data").eof
    BY <1>1, <2>4, AttrFine
  <2> QED BY <2>2, <2>3, <2>4
<1> QED BY <1>2, <1>3

LEMMA StatfsFine ==
  ASSUME NEW d, NEW q, NEW hs
  PROVE  Fine(d, q, hs, Statfs(d))
<1>1. Statfs(d).op = "statfs"
  BY DEF Statfs
<1>2. Statfs(d) # Error("ENOENT")
  BY <1>1, ErrorsAre
<1> QED BY <1>1, <1>2, PlainFine

(* There is no such file.                                                  *)
LEMMA NoEntryFine ==
  ASSUME NEW d, NEW q, NEW hs,
         q.name \notin Invalid /\ IsDirectory(d, q.inode)
           /\ Sound(d, KeyOf(d, q.inode), HeaderOf(q.inode)) =>
           \A i \in ActiveEntries(d, KeyOf(d, q.inode)) : EntryAt(d, i).name = q.name =>
             \/ Getattr(d, i) = Error("EIO")
             \/ \E j \in ActiveEntries(d, KeyOf(d, q.inode)) :
                  EntryAt(d, j).name = q.name /\ Before(d, KeyOf(d, q.inode), j, i)
  PROVE  Fine(d, q, hs, Error("ENOENT"))
<1>1. PICK a : a = Error("ENOENT")
  OBVIOUS
<1>2. a.op = "error" /\ a # Dead
  BY <1>1, ErrorsAre
<1>3. Flat(d, q, hs, a)
  BY <1>2 DEF Flat
<1>4. Agree(d, q, a)
  BY <1>2 DEF Agree
<1> QED BY <1>1, <1>2, <1>3, <1>4 DEF Fine

(* What a walk that ends well lets lookup answer.                          *)
LEMMA FoundFine ==
  ASSUME NEW d, IsDisk(d), NEW q, NEW hs, q.op = "lookup", IsDirectory(d, q.inode),
         NEW key, key = KeyOf(d, q.inode), HasHeader(d, key, HeaderOf(q.inode)),
         NEW files, Listing(d, key, HeaderOf(q.inode), files)
  PROVE  Fine(d, q, hs, Found(d, files, q.name))
<1>1. PICK a : a = Found(d, files, q.name)
  OBVIOUS
<1>2. files \in Seq(Inodes(d)) /\ DOMAIN files = 1..Len(files) /\ Len(files) \in Nat
  BY DEF Listing
<1>3. \A k \in DOMAIN files : files[k] \in Inodes(d) /\ files[k] # Root
  BY <1>2 DEF Listing
<1>4. PICK I : I = {k \in DOMAIN files : EntryAt(d, files[k]).name = q.name}
  OBVIOUS
<1>5. PICK m : m = Min(I)
  OBVIOUS
<1>6. PICK stat : stat = Stat(d, files[m], EntryAt(d, files[m]))
  OBVIOUS
<1>7. a = IF I = {} THEN Error("ENOENT") ELSE IF stat.op = "error" THEN Error("ENOENT") ELSE stat
  BY <1>1, <1>4, <1>5, <1>6 DEF Found
<1>8. /\ \A i \in ActiveEntries(d, key) : \E k \in DOMAIN files : i = files[k]
      /\ \A k \in DOMAIN files : files[k] \in ActiveEntries(d, key)
      /\ \A k, l \in DOMAIN files : k < l => Before(d, key, files[k], files[l])
  BY DEF Listing, ToSet
<1>9. CASE I = {}
  <2>1. Sound(d, key, HeaderOf(q.inode)) =>
          \A i \in ActiveEntries(d, key) : EntryAt(d, i).name # q.name
    BY <1>4, <1>8, <1>9
  <2> QED BY <1>1, <1>7, <1>9, <2>1, NoEntryFine
<1>10. CASE I # {}
  <2>1. I \subseteq Nat
    BY <1>2, <1>4
  <2>2. m \in I /\ \A k \in I : m <= k
    BY <1>5, <1>10, <2>1, MinIs
  <2>3. m \in DOMAIN files /\ EntryAt(d, files[m]).name = q.name
    BY <1>4, <2>2
  <2>4. PICK i : i = files[m] /\ i \in Inodes(d) /\ i # Root
    BY <1>3, <2>3
  <2>5. stat = Stat(d, i, EntryAt(d, i))
    BY <1>6, <2>4
  <2>6. \/ stat = Error("EIO") \/ (stat = Dead /\ PointsPast(d))
        \/ /\ stat.op = "attr" /\ stat.inode = i
           /\ Fork(d, EntryAt(d, i), "data").storage # "directory" =>
                stat.size = Fork(d, EntryAt(d, i), "data").eof
    BY <2>4, <2>5, StatIs
  <2>7. CASE stat = Error("EIO")
    <3>1. a = Error("ENOENT")
      BY <1>7, <2>7, ErrorsAre
    <3>2. Getattr(d, i) = Error("EIO")
      BY <2>4, <2>5, <2>7 DEF Getattr
    <3>3. ASSUME Sound(d, key, HeaderOf(q.inode)), NEW j \in ActiveEntries(d, key),
                 EntryAt(d, j).name = q.name
          PROVE  \/ Getattr(d, j) = Error("EIO")
                 \/ \E l \in ActiveEntries(d, key) :
                      EntryAt(d, l).name = q.name /\ Before(d, key, l, j)
      <4>1. PICK k \in DOMAIN files : j = files[k]
        BY <1>8, <3>3
      <4>2. k \in I /\ m <= k
        BY <1>4, <2>2, <3>3, <4>1
      <4>3. CASE k = m
        BY <2>4, <3>2, <4>1, <4>3
      <4>4. CASE k # m
        <5>1. m < k
          BY <1>2, <2>3, <4>1, <4>2, <4>4
        <5>2. i \in ActiveEntries(d, key) /\ Before(d, key, i, j)
          BY <1>8, <2>3, <2>4, <3>3, <4>1, <5>1
        <5> QED BY <2>3, <2>4, <5>2
      <4> QED BY <4>3, <4>4
    <3> QED BY <1>1, <3>1, <3>3, NoEntryFine
  <2>8. CASE stat = Dead /\ PointsPast(d)
    <3>1. a = Dead
      BY <1>7, <1>10, <2>8, ErrorsAre
    <3> QED BY <1>1, <2>8, <3>1, FailureFine
  <2>9. CASE /\ stat.op = "attr" /\ stat.inode = i
             /\ Fork(d, EntryAt(d, i), "data").storage # "directory" =>
                  stat.size = Fork(d, EntryAt(d, i), "data").eof
    <3>1. a = stat
      BY <1>7, <1>10, <2>9
    <3> QED BY <1>1, <2>3, <2>4, <2>9, <3>1, AttrFine
  <2> QED BY <2>6, <2>7, <2>8, <2>9
<1> QED BY <1>9, <1>10

-----------------------------------------------------------------------------
(* Attributes.                                                             *)

NamedAttributes ==
  {"FileType", "AuxType", "ResourceFork", "FinderInfo", "TextEncoding", "charset", "mime_type"}

(* The attributes an entry has.                                            *)
Has(e, x) ==
  \/ x \in {"FileType", "AuxType", "FinderInfo"}
  \/ x = "ResourceFork" /\ e.storage = "extended"
  \/ x \in {"TextEncoding", "charset"} /\ IsTextFile(e.type)
  \/ x = "mime_type" /\ MimeType(e.type)

LEMMA NamesLengthIs ==
  ASSUME NEW s \in Seq(NamedAttributes)
  PROVE  NamesLength(s) \in Nat
<1> DEFINE Turn(g) == [i \in 0..Len(s) |-> IF i = 0 THEN 0 ELSE g[i-1] + NameSize[s[i]]]
           sum == CHOOSE g : g = Turn(g)
<1>1. PICK n : n = Len(s) /\ n \in Nat
  OBVIOUS
<1>2. \A i \in 1..n : NameSize[s[i]] \in Nat
  <2> SUFFICES ASSUME NEW i \in 1..n PROVE NameSize[s[i]] \in Nat
    OBVIOUS
  <2>1. s[i] \in NamedAttributes
    BY <1>1
  <2> QED BY <2>1, FuseProDOSAssumption DEF NamedAttributes
<1>3. \E g \in [0..n -> Nat] : g = Turn(g)
  <2> DEFINE add == [p \in (1..n) \X Nat |-> p[2] + NameSize[s[p[1]]]]
  <2>1. add \in [(1..n) \X Nat -> Nat]
    <3>1. ASSUME NEW p \in (1..n) \X Nat PROVE p[2] + NameSize[s[p[1]]] \in Nat
      <4>1. p[1] \in 1..n /\ p[2] \in Nat
        OBVIOUS
      <4>2. NameSize[s[p[1]]] \in Nat
        BY <1>2, <4>1
      <4> QED BY <4>1, <4>2
    <3> QED BY <3>1
  <2>2. \A i \in 1..n, k \in Nat : add[<<i, k>>] = k + NameSize[s[i]]
    OBVIOUS
  <2> HIDE DEF add
  <2>3. PICK h : Recurs(h, Nat, 0, n, add)
    <3>1. 0 \in Nat
      OBVIOUS
    <3> QED BY ONLY <1>1, <2>1, <3>1, Recursion
  <2>4. \A i \in 0..n : h[i] = IF i = 0 THEN 0 ELSE h[i - 1] + NameSize[s[i]]
    <3> SUFFICES ASSUME NEW i \in 0..n, i # 0
                 PROVE  h[i] = h[i - 1] + NameSize[s[i]]
      BY <2>3 DEF Recurs
    <3>1. i \in 1..n /\ i - 1 \in 0..n
      BY <1>1
    <3>2. h[i - 1] \in Nat
      BY <2>3, <3>1 DEF Recurs
    <3> QED BY <2>2, <2>3, <3>1, <3>2 DEF Recurs
  <2>5. h = [i \in 0..n |-> h[i]] /\ h \in [0..n -> Nat]
    BY <2>3 DEF Recurs
  <2>6. h = Turn(h)
    BY <1>1, <2>4, <2>5
  <2> QED BY <2>5, <2>6
<1>4. sum = Turn(sum)
  BY <1>3, Zenon
<1>5. NamesLength(s) = sum[n]
  BY <1>1 DEF NamesLength
<1> HIDE DEF sum
<1>6. \A i \in 0..n : sum[i] = IF i = 0 THEN 0 ELSE sum[i - 1] + NameSize[s[i]]
  BY <1>1, <1>4
<1> DEFINE S == {m \in 0..n : sum[m] \in Nat}
<1>7. 0 \in S
  BY <1>1, <1>6
<1>8. \A m \in 0..n : m \in S /\ m < n => m + 1 \in S
  <2> SUFFICES ASSUME NEW m \in 0..n, m \in S, m < n PROVE m + 1 \in S
    OBVIOUS
  <2>1. m + 1 \in 0..n /\ m + 1 # 0 /\ (m + 1) - 1 = m /\ m + 1 \in 1..n
    BY <1>1
  <2>2. sum[m + 1] = sum[m] + NameSize[s[m + 1]]
    BY <1>6, <2>1
  <2>3. NameSize[s[m + 1]] \in Nat
    BY <1>2, <2>1
  <2> QED BY <2>1, <2>2, <2>3
<1> HIDE DEF S
<1>9. n \in S
  <2>1. \A m \in 0..n : m \in S
    BY <1>1, <1>7, <1>8, UpTo
  <2> QED BY <1>1, <2>1
<1> QED BY <1>5, <1>9 DEF S

LEMMA Concatenated ==
  ASSUME NEW S, NEW s \in Seq(S), NEW t \in Seq(S)
  PROVE  s \o t \in Seq(S) /\ \A x : x \in ToSet(s \o t) <=> x \in ToSet(s) \/ x \in ToSet(t)
<1>1. PICK u : u = s \o t
  OBVIOUS
<1>2. u \in Seq(S) /\ Len(u) = Len(s) + Len(t) /\ Len(s) \in Nat /\ Len(t) \in Nat
  BY <1>1
<1>3. /\ \A i \in 1..Len(s) : u[i] = s[i]
      /\ \A i \in Len(s)+1..Len(u) : u[i] = t[i - Len(s)]
  BY <1>1, <1>2
<1>4. /\ \A x : x \in ToSet(u) <=> \E i \in 1..Len(u) : x = u[i]
      /\ \A x : x \in ToSet(s) <=> \E i \in 1..Len(s) : x = s[i]
      /\ \A x : x \in ToSet(t) <=> \E i \in 1..Len(t) : x = t[i]
  BY <1>2 DEF ToSet
<1>5. ASSUME NEW x, x \in ToSet(u) PROVE x \in ToSet(s) \/ x \in ToSet(t)
  <2>1. PICK i \in 1..Len(u) : x = u[i]
    BY <1>4, <1>5
  <2>2. CASE i <= Len(s)
    <3>1. i \in 1..Len(s)
      BY <1>2, <2>2
    <3> QED BY <1>3, <1>4, <2>1, <3>1
  <2>3. CASE ~(i <= Len(s))
    <3>1. i \in Len(s)+1..Len(u) /\ i - Len(s) \in 1..Len(t)
      BY <1>2, <2>3
    <3> QED BY <1>3, <1>4, <2>1, <3>1
  <2> QED BY <2>2, <2>3
<1>6. ASSUME NEW x, x \in ToSet(s) PROVE x \in ToSet(u)
  <2>1. PICK i \in 1..Len(s) : x = s[i]
    BY <1>4, <1>6
  <2>2. i \in 1..Len(u)
    BY <1>2
  <2> QED BY <1>3, <1>4, <2>1, <2>2
<1>7. ASSUME NEW x, x \in ToSet(t) PROVE x \in ToSet(u)
  <2>1. PICK i \in 1..Len(t) : x = t[i]
    BY <1>4, <1>7
  <2>2. i + Len(s) \in Len(s)+1..Len(u) /\ i + Len(s) \in 1..Len(u) /\ (i + Len(s)) - Len(s) = i
    BY <1>2
  <2> QED BY <1>3, <1>4, <2>1, <2>2
<1> QED BY <1>1, <1>2, <1>5, <1>6, <1>7

(* A piece of the list that is there only when c holds.                    *)
LEMMA Optional ==
  ASSUME NEW S, NEW s \in Seq(S), NEW c
  PROVE  /\ (IF c THEN s ELSE <<>>) \in Seq(S)
         /\ \A x : x \in ToSet(IF c THEN s ELSE <<>>) <=> c /\ x \in ToSet(s)
<1>1. CASE c
  BY <1>1
<1>2. CASE ~c
  <2>1. <<>> \in Seq(S) /\ DOMAIN <<>> = {}
    BY EmptySeq
  <2>2. ToSet(<<>>) = {}
    BY <2>1 DEF ToSet
  <2> QED BY <1>2, <2>1, <2>2
<1> QED BY <1>1, <1>2

LEMMA ListedIs ==
  ASSUME NEW e
  PROVE  /\ Listed(e) \in Seq(NamedAttributes) /\ Listed(e) # <<>>
         /\ \A x : x \in ToSet(Listed(e)) <=> Has(e, x)
<1>1. PICK A : A = <<"FileType", "AuxType">>
  OBVIOUS
<1>2. PICK R : R = IF e.storage = "extended" THEN <<"ResourceFork">> ELSE <<>>
  OBVIOUS
<1>3. PICK F : F = <<"FinderInfo">>
  OBVIOUS
<1>4. PICK T : T = IF IsTextFile(e.type) THEN <<"TextEncoding", "charset">> ELSE <<>>
  OBVIOUS
<1>5. PICK M : M = IF MimeType(e.type) THEN <<"mime_type">> ELSE <<>>
  OBVIOUS
<1>6. A \in Seq(NamedAttributes) /\ \A x : x \in ToSet(A) <=> x \in {"FileType", "AuxType"}
  <2>1. A \in Seq(NamedAttributes) /\ DOMAIN A = {1, 2} /\ A[1] = "FileType" /\ A[2] = "AuxType"
    BY <1>1 DEF NamedAttributes
  <2> QED BY <2>1 DEF ToSet
<1>7. F \in Seq(NamedAttributes) /\ \A x : x \in ToSet(F) <=> x = "FinderInfo"
  <2>1. F \in Seq(NamedAttributes) /\ DOMAIN F = {1} /\ F[1] = "FinderInfo"
    BY <1>3 DEF NamedAttributes
  <2> QED BY <2>1 DEF ToSet
<1>8. /\ R \in Seq(NamedAttributes)
      /\ \A x : x \in ToSet(R) <=> e.storage = "extended" /\ x = "ResourceFork"
  <2>1. PICK s : s = <<"ResourceFork">>
    OBVIOUS
  <2>2. s \in Seq(NamedAttributes) /\ DOMAIN s = {1} /\ s[1] = "ResourceFork"
    BY <2>1 DEF NamedAttributes
  <2>3. \A x : x \in ToSet(s) <=> x = "ResourceFork"
    BY <2>2 DEF ToSet
  <2>4. /\ (IF e.storage = "extended" THEN s ELSE <<>>) \in Seq(NamedAttributes)
        /\ \A x : x \in ToSet(IF e.storage = "extended" THEN s ELSE <<>>)
                    <=> e.storage = "extended" /\ x \in ToSet(s)
    BY ONLY <2>2, Optional
  <2> QED BY <1>2, <2>1, <2>3, <2>4
<1>9. /\ T \in Seq(NamedAttributes)
      /\ \A x : x \in ToSet(T) <=> IsTextFile(e.type) /\ x \in {"TextEncoding", "charset"}
  <2>1. PICK s : s = <<"TextEncoding", "charset">>
    OBVIOUS
  <2>2. s \in Seq(NamedAttributes) /\ DOMAIN s = {1, 2} /\ s[1] = "TextEncoding" /\ s[2] = "charset"
    BY <2>1 DEF NamedAttributes
  <2>3. \A x : x \in ToSet(s) <=> x \in {"TextEncoding", "charset"}
    BY <2>2 DEF ToSet
  <2>4. /\ (IF IsTextFile(e.type) THEN s ELSE <<>>) \in Seq(NamedAttributes)
        /\ \A x : x \in ToSet(IF IsTextFile(e.type) THEN s ELSE <<>>)
                    <=> IsTextFile(e.type) /\ x \in ToSet(s)
    BY ONLY <2>2, Optional
  <2> QED BY <1>4, <2>1, <2>3, <2>4
<1>10. /\ M \in Seq(NamedAttributes)
       /\ \A x : x \in ToSet(M) <=> MimeType(e.type) /\ x = "mime_type"
  <2>1. PICK s : s = <<"mime_type">>
    OBVIOUS
  <2>2. s \in Seq(NamedAttributes) /\ DOMAIN s = {1} /\ s[1] = "mime_type"
    BY <2>1 DEF NamedAttributes
  <2>3. \A x : x \in ToSet(s) <=> x = "mime_type"
    BY <2>2 DEF ToSet
  <2>4. /\ (IF MimeType(e.type) THEN s ELSE <<>>) \in Seq(NamedAttributes)
        /\ \A x : x \in ToSet(IF MimeType(e.type) THEN s ELSE <<>>)
                    <=> MimeType(e.type) /\ x \in ToSet(s)
    BY ONLY <2>2, Optional
  <2> QED BY <1>5, <2>1, <2>3, <2>4
<1>11. PICK AR : AR = A \o R
  OBVIOUS
<1>12. PICK ARF : ARF = AR \o F
  OBVIOUS
<1>13. PICK ARFT : ARFT = ARF \o T
  OBVIOUS
<1>14. PICK L : L = ARFT \o M
  OBVIOUS
<1>15. Listed(e) = L
  BY ONLY <1>1, <1>2, <1>3, <1>4, <1>5, <1>11, <1>12, <1>13, <1>14 DEF Listed
<1>16. AR \in Seq(NamedAttributes) /\ \A x : x \in ToSet(AR) <=> x \in ToSet(A) \/ x \in ToSet(R)
  BY ONLY <1>6, <1>8, <1>11, Concatenated
<1>17. ARF \in Seq(NamedAttributes) /\ \A x : x \in ToSet(ARF) <=> x \in ToSet(AR) \/ x \in ToSet(F)
  BY ONLY <1>7, <1>12, <1>16, Concatenated
<1>18. ARFT \in Seq(NamedAttributes) /\ \A x : x \in ToSet(ARFT) <=> x \in ToSet(ARF) \/ x \in ToSet(T)
  BY ONLY <1>9, <1>13, <1>17, Concatenated
<1>19. L \in Seq(NamedAttributes) /\ \A x : x \in ToSet(L) <=> x \in ToSet(ARFT) \/ x \in ToSet(M)
  BY ONLY <1>10, <1>14, <1>18, Concatenated
<1>20. \A x : x \in ToSet(L) <=> Has(e, x)
  BY ONLY <1>6, <1>7, <1>8, <1>9, <1>10, <1>16, <1>17, <1>18, <1>19 DEF Has
<1>21. L # <<>>
  <2>1. "FileType" \in ToSet(L)
    BY <1>20 DEF Has
  <2>2. DOMAIN <<>> = {}
    BY EmptySeq
  <2> QED BY <2>1, <2>2 DEF ToSet
<1> QED BY <1>15, <1>19, <1>20, <1>21

(* The bytes answered to a request for `asked' bytes of f, which g keeps.  *)
LEMMA BytesFlat ==
  ASSUME NEW d, IsDisk(d), NEW g, Kept(d, g),
         NEW f, f.storage = g.storage, f.key = g.key, f.eof = g.eof,
         NEW from \in Nat, NEW asked \in Nat \ {0}, NEW size \in Nat,
         \/ size = asked /\ from < f.eof
         \/ size = Smaller(asked, f.eof) /\ from = 0,
         NEW expected, expected = IF from >= f.eof THEN <<>> ELSE Slice(d, f, from, asked),
         NEW a, a = Bytes(d, g, size, from)
  PROVE  /\ a.op \in {"data", "undefined"} \/ a = Error("EIO") \/ (a = Dead /\ PointsPast(d))
         /\ a.op = "data" /\ f.eof <= Capacity(f.storage) =>
              /\ Len(a.bytes) = size /\ SubSeq(a.bytes, 1, Len(expected)) = expected
              /\ \A k \in 1..size : a.bytes[k] = Unset <=>
                                    f.storage = "seedling" /\ (from % BlockSize) + k > BlockSize
         /\ a.op = "undefined" =>
              \/ f.storage = "seedling" /\ f.eof = 0
              \/ /\ f.storage # "seedling"
                 /\ ((from \div BlockSize) % Pointers) * BlockSize + (from % BlockSize) + asked
                      > Pointers * BlockSize
<1>1. PICK n : n = Smaller(size, g.eof - from)
  OBVIOUS
<1>2. PICK start : start = (from \div BlockSize) % Pointers
  OBVIOUS
<1>3. /\ a.op \in {"data", "undefined"} \/ a = Error("EIO") \/ (a = Dead /\ PointsPast(d))
      /\ a.op = "data" =>
           /\ a.bytes \in Seq(Nat \union {Unset}) /\ Len(a.bytes) = size
           /\ \A k \in 1..size : a.bytes[k] = Unset <=>
                                 g.storage = "seedling" /\ (from % BlockSize) + k > BlockSize
           /\ from < g.eof /\ g.eof <= Capacity(g.storage) =>
                \A k \in 1..n : a.bytes[k] = ByteOf(d, g, from + k - 1) /\ a.bytes[k] \in Nat
      /\ a.op = "undefined" =>
           \/ g.storage = "seedling" /\ size = 0
           \/ /\ g.storage # "seedling"
              /\ start * BlockSize + (from % BlockSize) + size > Pointers * BlockSize
  BY <1>1, <1>2, BytesIs
<1>4. f.eof \in Nat /\ g.eof = f.eof
  BY DEF Kept
<1>5. size <= asked /\ (size = 0 => f.eof = 0)
  BY ONLY <1>4, asked \in Nat \ {0}, size \in Nat,
          \/ size = asked /\ from < f.eof
          \/ size = Smaller(asked, f.eof) /\ from = 0 DEF Smaller
<1>6. from < f.eof => n = Smaller(asked, f.eof - from) /\ n \in Nat /\ n <= size
  BY ONLY <1>1, <1>4, asked \in Nat \ {0}, size \in Nat, from \in Nat,
          \/ size = asked /\ from < f.eof
          \/ size = Smaller(asked, f.eof) /\ from = 0 DEF Smaller
<1>7. ASSUME a.op = "data", f.eof <= Capacity(f.storage)
      PROVE  SubSeq(a.bytes, 1, Len(expected)) = expected
  <2>1. a.bytes \in Seq(Nat \union {Unset}) /\ Len(a.bytes) = size
    BY <1>3, <1>7
  <2>2. CASE from >= f.eof
    <3>1. expected = <<>> /\ Len(expected) = 0
      BY <2>2
    <3>2. SubSeq(a.bytes, 1, 0) = <<>>
      BY <2>1
    <3> QED BY ONLY <3>1, <3>2
  <2>3. CASE ~(from >= f.eof)
    <3>1. from < f.eof
      BY <1>4, <2>3
    <3>2. /\ n <= size /\ n \in Nat /\ n = Smaller(asked, f.eof - from)
          /\ \A k \in 1..n : a.bytes[k] = ByteOf(d, g, from + k - 1) /\ a.bytes[k] \in Nat
      BY <1>3, <1>4, <1>6, <1>7, <3>1
    <3>3. expected = [k \in 1..n |-> ByteOf(d, f, from + k - 1)]
      BY <2>3, <3>2 DEF Slice
    <3>4. \A k : ByteOf(d, f, k) = ByteOf(d, g, k)
      BY DEF ByteOf
    <3>5. \A k \in 1..n : expected[k] = a.bytes[k] /\ a.bytes[k] \in Nat
      BY <3>2, <3>3, <3>4
    <3>6. expected \in [1..n -> Nat]
      BY <3>3, <3>5
    <3>7. expected \in Seq(Nat \union {Unset}) /\ Len(expected) = n
      <4>1. expected \in [1..n -> Nat \union {Unset}]
        BY ONLY <3>6
      <4> QED BY ONLY <3>2, <4>1, FunctionSeq
    <3>8. PICK s : s = SubSeq(a.bytes, 1, n)
      OBVIOUS
    <3>9. s \in Seq(Nat \union {Unset}) /\ Len(s) = n /\ \A k \in 1..n : s[k] = a.bytes[k]
      <4>1. 1 \in 1..Len(a.bytes) + 1 /\ n \in 1 - 1 .. Len(a.bytes)
        BY ONLY <2>1, <3>2, size \in Nat
      <4>2. /\ SubSeq(a.bytes, 1, n) \in Seq(Nat \union {Unset}) /\ Len(SubSeq(a.bytes, 1, n)) = n - 1 + 1
            /\ \A k \in 1..n - 1 + 1 : SubSeq(a.bytes, 1, n)[k] = a.bytes[1 + k - 1]
        BY ONLY <2>1, <4>1, SubSeqFacts
      <4>3. n - 1 + 1 = n /\ \A k \in 1..n : 1 + k - 1 = k
        BY ONLY <3>2
      <4> QED BY ONLY <3>8, <4>2, <4>3
    <3>10. s = expected
      BY ONLY <3>5, <3>7, <3>9, EqualSeqs
    <3> QED BY ONLY <3>7, <3>8, <3>10
  <2> QED BY <2>2, <2>3
<1>8. ASSUME a.op = "undefined"
      PROVE  \/ f.storage = "seedling" /\ f.eof = 0
             \/ /\ f.storage # "seedling"
                /\ start * BlockSize + (from % BlockSize) + asked > Pointers * BlockSize
  <2>1. PICK x : x = start * BlockSize + (from % BlockSize)
    OBVIOUS
  <2>2. PICK y : y = Pointers * BlockSize
    OBVIOUS
  <2>3. x \in Nat /\ y \in Nat
    <3>1. start \in Nat /\ from % BlockSize \in Nat /\ BlockSize \in Nat /\ Pointers \in Nat
      <4>1. from \div BlockSize \in Nat /\ from % BlockSize \in 0..BlockSize-1
        BY ONLY Divided, SizesAre, from \in Nat
      <4>2. start \in 0..Pointers-1
        BY ONLY <1>2, <4>1, Divided, SizesAre
      <4> QED BY ONLY <4>1, <4>2, SizesAre
    <3>2. start * BlockSize \in Nat /\ Pointers * BlockSize \in Nat
      BY ONLY <3>1, Products
    <3> QED BY ONLY <2>1, <2>2, <3>1, <3>2
  <2>4. \/ g.storage = "seedling" /\ size = 0
        \/ g.storage # "seedling" /\ x + size > y
    BY <1>3, <1>8, <2>1, <2>2
  <2>5. x + size > y => x + asked > y
    BY ONLY <1>5, <2>3, size \in Nat, asked \in Nat \ {0}
  <2> QED BY <1>5, <2>1, <2>2, <2>4, <2>5
<1> QED BY <1>2, <1>3, <1>7, <1>8

LEMMA ReadFine ==
  ASSUME NEW d, IsDisk(d), NEW q, NEW hs, q.op = "read", Kept(d, hs[q.handle].entry),
         q.offset \in Nat, q.size \in Nat \ {0}
  PROVE  Fine(d, q, hs, Read(d, hs[q.handle].entry, q.size, q.offset))
<1>1. PICK f : f = hs[q.handle].entry
  OBVIOUS
<1>2. PICK a : a = Read(d, f, q.size, q.offset)
  OBVIOUS
<1>3. PICK expected :
        expected = IF q.offset >= f.eof THEN <<>> ELSE Slice(d, f, q.offset, q.size)
  OBVIOUS
<1>4. f.eof \in Nat /\ Kept(d, f)
  BY <1>1 DEF Kept
<1>5. Agree(d, q, a) \/ a.op \notin {"data", "undefined"}
  <2>1. a.op \in {"data", "undefined"} => a # Error("ENOENT")
    BY ErrorsAre
  <2> QED BY <2>1 DEF Agree
<1>6. CASE q.offset >= f.eof
  <2>1. a = [op |-> "data", bytes |-> <<>>]
    BY <1>2, <1>6 DEF Read
  <2>2. a.op = "data" /\ a.bytes = <<>> /\ a # Dead /\ expected = <<>>
    BY <1>3, <1>6, <2>1, ErrorsAre
  <2>3. Len(a.bytes) = 0 /\ Len(expected) = 0 /\ SubSeq(a.bytes, 1, 0) = <<>>
    BY <2>2
  <2>4. 1..0 = {}
    OBVIOUS
  <2>5. Flat(d, q, hs, a)
    BY <1>1, <1>3, <1>6, <2>2, <2>3, <2>4 DEF Flat
  <2> QED BY <1>1, <1>2, <1>5, <2>2, <2>5 DEF Fine
<1>7. CASE ~(q.offset >= f.eof)
  <2>1. q.offset < f.eof
    BY ONLY <1>4, <1>7, q.offset \in Nat
  <2>2. a = Bytes(d, f, q.size, q.offset)
    BY <1>2, <1>7 DEF Read
  <2>3. /\ a.op \in {"data", "undefined"} \/ a = Error("EIO") \/ (a = Dead /\ PointsPast(d))
        /\ a.op = "data" /\ f.eof <= Capacity(f.storage) =>
             /\ Len(a.bytes) = q.size /\ SubSeq(a.bytes, 1, Len(expected)) = expected
             /\ \A k \in 1..q.size : a.bytes[k] = Unset <=>
                  f.storage = "seedling" /\ (q.offset % BlockSize) + k > BlockSize
        /\ a.op = "undefined" =>
             \/ f.storage = "seedling" /\ f.eof = 0
             \/ /\ f.storage # "seedling"
                /\ ((q.offset \div BlockSize) % Pointers) * BlockSize + (q.offset % BlockSize) + q.size
                     > Pointers * BlockSize
    <3>1. q.size \in Nat
      BY q.size \in Nat \ {0}
    <3> QED BY ONLY <1>3, <1>4, <2>1, <2>2, <3>1, IsDisk(d), q.offset \in Nat,
                    q.size \in Nat \ {0}, BytesFlat
  <2>4. Flat(d, q, hs, a)
    BY <1>1, <1>3, <1>7, <2>3 DEF Flat
  <2>5. CASE a.op \in {"data", "undefined"}
    <3>1. a # Dead
      BY <2>5, ErrorsAre
    <3> QED BY <1>1, <1>2, <1>5, <2>4, <2>5, <3>1 DEF Fine
  <2>6. CASE a = Error("EIO") \/ (a = Dead /\ PointsPast(d))
    BY <1>1, <1>2, <2>6, FailureFine
  <2> QED BY <2>3, <2>5, <2>6
<1> QED BY <1>6, <1>7

LEMMA SizedIs ==
  ASSUME NEW size, NEW length, NEW answer
  PROVE  /\ size = 0 => /\ Sized(size, length, answer).op = "length"
                        /\ Sized(size, length, answer).length = length
         /\ size # 0 => Sized(size, length, answer) \in {Error("ERANGE"), answer}
         /\ ~(size < length) /\ size # 0 => Sized(size, length, answer) = answer
BY DEF Sized

(* A resource fork, that is there or not.                                  *)
LEMMA ForkIs ==
  ASSUME NEW d, IsDisk(d), NEW i \in Inodes(d), i # Root, NEW e, e = EntryAt(d, i),
         e.storage = "extended"
  PROVE  \/ \A s : ResourceFork(d, e, s) = Error("EIO")
         \/ PointsPast(d) /\ \A s : ResourceFork(d, e, s) = Dead
         \/ \E g : /\ Kept(d, g) /\ g.storage = Fork(d, e, "resource").storage
                   /\ g.key = Fork(d, e, "resource").key /\ g.eof = Fork(d, e, "resource").eof
                   /\ ResourceFork(d, e, 0) = [op |-> "length", length |-> g.eof]
                   /\ \A s : s # 0 => ResourceFork(d, e, s) = Bytes(d, g, Smaller(s, g.eof), 0)
<1>1. PICK n : n = Normalize(d, e, "resource")
  OBVIOUS
<1>2. PICK f : f = Fork(d, e, "resource")
  OBVIOUS
<1>3. /\ n.status \in {"ok", "error", "throws"} /\ (n.status = "throws" => PointsPast(d))
      /\ n.status = "ok" =>
           /\ n.entry.storage = f.storage /\ n.entry.key = f.key /\ n.entry.eof = f.eof
           /\ f.storage \in FileTypes => Kept(d, n.entry)
  BY <1>1, <1>2, NormalizeIs
<1>4. \A s : ResourceFork(d, e, s) =
               IF n.status # "ok" THEN Bad(n.status, "EIO")
               ELSE IF n.entry.storage \notin FileTypes THEN Error("EIO")
               ELSE IF s = 0 THEN [op |-> "length", length |-> n.entry.eof]
               ELSE Bytes(d, n.entry, Smaller(s, n.entry.eof), 0)
  BY <1>1 DEF ResourceFork
<1>5. CASE n.status # "ok"
  <2>1. \A s : ResourceFork(d, e, s) = Bad(n.status, "EIO")
    BY <1>4, <1>5
  <2>2. Bad(n.status, "EIO") = IF n.status = "throws" THEN Dead ELSE Error("EIO")
    BY DEF Bad
  <2> QED BY <1>3, <2>1, <2>2
<1>6. CASE n.status = "ok" /\ n.entry.storage \notin FileTypes
  BY <1>4, <1>6
<1>7. CASE n.status = "ok" /\ n.entry.storage \in FileTypes
  <2>1. PICK g : g = n.entry
    OBVIOUS
  <2>2. /\ Kept(d, g) /\ g.storage = f.storage /\ g.key = f.key /\ g.eof = f.eof
    BY <1>3, <1>7, <2>1
  <2>3. /\ ResourceFork(d, e, 0) = [op |-> "length", length |-> g.eof]
        /\ \A s : s # 0 => ResourceFork(d, e, s) = Bytes(d, g, Smaller(s, g.eof), 0)
    BY <1>4, <1>7, <2>1
  <2> QED BY <1>2, <2>2, <2>3
<1> QED BY <1>3, <1>5, <1>6, <1>7

(* Finder information: always a value or, of an extended file, none.       *)
LEMMA FinderIs ==
  ASSUME NEW d, IsDisk(d), NEW i \in Inodes(d), i # Root, NEW e, e = EntryAt(d, i),
         NEW length, length = AttributeSize["FinderInfo"]
  PROVE  \/ \A s : FinderInfo(d, e, s) = Error("EIO")
         \/ PointsPast(d) /\ \A s : FinderInfo(d, e, s) = Dead
         \/ /\ FinderInfo(d, e, 0) = [op |-> "length", length |-> length]
            /\ \A s : s # 0 =>
                 \/ FinderInfo(d, e, s).op = "value"
                 \/ s < length /\ FinderInfo(d, e, s) = Error("ERANGE")
<1>1. PICK n : n = Normalize(d, e, "resource")
  OBVIOUS
<1>2. n.status \in {"ok", "error", "throws"} /\ (n.status = "throws" => PointsPast(d))
  BY <1>1, NormalizeIs
<1>3. PICK stored : stored = [op |-> "value", value |-> IF n.finder THEN "stored" ELSE "creator"]
  OBVIOUS
<1>4. PICK creator : creator = [op |-> "value", value |-> "creator"]
  OBVIOUS
<1>5. creator.op = "value" /\ stored.op = "value"
  BY <1>3, <1>4
<1>6. \A s : FinderInfo(d, e, s) =
               IF e.storage \in FileTypes
                 THEN IF s = 0 THEN [op |-> "length", length |-> length] ELSE creator
               ELSE IF n.status # "ok" THEN Bad(n.status, "EIO")
               ELSE IF n.entry.storage \notin FileTypes THEN Error("EIO")
               ELSE Sized(s, length, stored)
  BY <1>1, <1>3, <1>4 DEF FinderInfo
<1>7. CASE e.storage \in FileTypes
  BY <1>5, <1>6, <1>7
<1>8. CASE e.storage \notin FileTypes /\ n.status # "ok"
  <2>1. \A s : FinderInfo(d, e, s) = Bad(n.status, "EIO")
    BY <1>6, <1>8
  <2>2. Bad(n.status, "EIO") = IF n.status = "throws" THEN Dead ELSE Error("EIO")
    BY DEF Bad
  <2> QED BY <1>2, <2>1, <2>2
<1>9. CASE e.storage \notin FileTypes /\ n.status = "ok" /\ n.entry.storage \notin FileTypes
  BY <1>6, <1>9
<1>10. CASE e.storage \notin FileTypes /\ n.status = "ok" /\ n.entry.storage \in FileTypes
  <2>1. \A s : FinderInfo(d, e, s) = Sized(s, length, stored)
    BY <1>6, <1>10
  <2>2. \A s : Sized(s, length, stored) =
                 IF s = 0 THEN [op |-> "length", length |-> length]
                 ELSE IF s < length THEN Error("ERANGE") ELSE stored
    BY DEF Sized
  <2> QED BY <1>5, <2>1, <2>2
<1> QED BY <1>7, <1>8, <1>9, <1>10

(* Every attribute: none, a value that is made up of the entry, or one of  *)
(* the two that a fork may hold.                                           *)
LEMMA GetxattrIs ==
  ASSUME NEW d, NEW i, NEW e, e = EntryAt(d, i), NEW x
  PROVE  \/ /\ i = Root \/ ~HasAttributes(e) \/ ~Has(e, x)
            /\ \A s : Getxattr(d, i, x, s) = Error("ENOATTR")
         \/ /\ i # Root /\ HasAttributes(e) /\ Has(e, x)
            /\ \A s : Getxattr(d, i, x, s) =
                        Sized(s, AttributeSize[x], [op |-> "value", value |-> e.type])
         \/ /\ i # Root /\ x = "ResourceFork" /\ e.storage = "extended" /\ Has(e, x)
            /\ \A s : Getxattr(d, i, x, s) = ResourceFork(d, e, s)
         \/ /\ i # Root /\ x = "FinderInfo" /\ Has(e, x)
            /\ \A s : Getxattr(d, i, x, s) = FinderInfo(d, e, s)
<1>1. \A s : Getxattr(d, i, x, s) =
        LET value == Sized(s, AttributeSize[x], [op |-> "value", value |-> e.type])
        IN IF i = Root \/ ~HasAttributes(e) THEN Error("ENOATTR")
           ELSE IF x \in {"FileType", "AuxType"} THEN value
           ELSE IF x \in {"TextEncoding", "charset"} /\ IsTextFile(e.type) THEN value
           ELSE IF x = "mime_type" /\ MimeType(e.type) THEN value
           ELSE IF x = "ResourceFork" /\ e.storage = "extended" THEN ResourceFork(d, e, s)
           ELSE IF x = "FinderInfo" THEN FinderInfo(d, e, s)
           ELSE Error("ENOATTR")
  BY DEF Getxattr
<1>2. CASE i = Root \/ ~HasAttributes(e)
  BY <1>1, <1>2
<1>3. CASE ~(i = Root \/ ~HasAttributes(e))
  <2>1. CASE \/ x \in {"FileType", "AuxType"}
             \/ x \in {"TextEncoding", "charset"} /\ IsTextFile(e.type)
             \/ x = "mime_type" /\ MimeType(e.type)
    <3>1. \A s : Getxattr(d, i, x, s) =
                   Sized(s, AttributeSize[x], [op |-> "value", value |-> e.type])
      BY <1>1, <1>3, <2>1
    <3> QED BY <1>3, <2>1, <3>1 DEF Has
  <2>2. CASE x = "ResourceFork" /\ e.storage = "extended"
    <3>1. \A s : Getxattr(d, i, x, s) = ResourceFork(d, e, s)
      BY <1>1, <1>3, <2>2
    <3> QED BY <1>3, <2>2, <3>1 DEF Has
  <2>3. CASE x = "FinderInfo"
    <3>1. \A s : Getxattr(d, i, x, s) = FinderInfo(d, e, s)
      BY <1>1, <1>3, <2>3
    <3> QED BY <1>3, <2>3, <3>1 DEF Has
  <2>4. CASE /\ x \notin {"FileType", "AuxType", "FinderInfo"}
             /\ ~(x \in {"TextEncoding", "charset"} /\ IsTextFile(e.type))
             /\ ~(x = "mime_type" /\ MimeType(e.type))
             /\ ~(x = "ResourceFork" /\ e.storage = "extended")
    <3>1. \A s : Getxattr(d, i, x, s) = Error("ENOATTR")
      BY <1>1, <1>3, <2>4
    <3> QED BY <2>4, <3>1 DEF Has
  <2> QED BY <2>1, <2>2, <2>3, <2>4
<1> QED BY <1>2, <1>3

(* The length of a value is the size it takes to ask for it.               *)
LEMMA LengthFine ==
  ASSUME NEW d, NEW q, NEW hs, q.op = "getxattr", NEW a, a.op = "length",
         a.length # 0 =>
           \/ Getxattr(d, q.inode, q.name, a.length).op \in {"value", "data", "undefined"}
           \/ /\ q.name = "ResourceFork"
              /\ Getxattr(d, q.inode, q.name, a.length) \in {Error("EIO"), Dead}
  PROVE  Fine(d, q, hs, a)
<1>1. a # Dead /\ a # Error("ENOENT")
  BY ErrorsAre
<1>2. Flat(d, q, hs, a)
  BY DEF Flat
<1>3. Agree(d, q, a)
  BY <1>1 DEF Agree
<1> QED BY <1>1, <1>2, <1>3 DEF Fine

LEMMA ForkFine ==
  ASSUME NEW d, IsDisk(d), NEW q, NEW hs, q.op = "getxattr", q.inode \in Inodes(d), q.inode # Root,
         q.size \in Nat, NEW e, e = EntryAt(d, q.inode), e.storage = "extended",
         q.name = "ResourceFork",
         \A s : Getxattr(d, q.inode, q.name, s) = ResourceFork(d, e, s)
  PROVE  Fine(d, q, hs, Getxattr(d, q.inode, q.name, q.size))
<1>1. PICK a : a = ResourceFork(d, e, q.size)
  OBVIOUS
<1>2. Getxattr(d, q.inode, q.name, q.size) = a
  BY <1>1
<1>3. PICK f : f = Fork(d, e, "resource")
  OBVIOUS
<1>4. CASE \/ \A s : ResourceFork(d, e, s) = Error("EIO")
           \/ PointsPast(d) /\ \A s : ResourceFork(d, e, s) = Dead
  BY <1>1, <1>2, <1>4, FailureFine
<1>5. CASE \E g : /\ Kept(d, g) /\ g.storage = f.storage /\ g.key = f.key /\ g.eof = f.eof
                  /\ ResourceFork(d, e, 0) = [op |-> "length", length |-> g.eof]
                  /\ \A s : s # 0 => ResourceFork(d, e, s) = Bytes(d, g, Smaller(s, g.eof), 0)
  <2>1. PICK g : /\ Kept(d, g) /\ g.storage = f.storage /\ g.key = f.key /\ g.eof = f.eof
                 /\ ResourceFork(d, e, 0) = [op |-> "length", length |-> g.eof]
                 /\ \A s : s # 0 => ResourceFork(d, e, s) = Bytes(d, g, Smaller(s, g.eof), 0)
    BY <1>5
  <2>2. g.eof \in Nat
    BY <2>1 DEF Kept
  <2>3. CASE q.size = 0
    <3>1. a.op = "length" /\ a.length = g.eof
      BY <1>1, <2>1, <2>3
    <3>2. ASSUME g.eof # 0
          PROVE  \/ Getxattr(d, q.inode, q.name, g.eof).op \in {"value", "data", "undefined"}
                 \/ Getxattr(d, q.inode, q.name, g.eof) \in {Error("EIO"), Dead}
      <4>1. Getxattr(d, q.inode, q.name, g.eof) = Bytes(d, g, Smaller(g.eof, g.eof), 0)
        BY <2>1, <3>2
      <4>2. Smaller(g.eof, g.eof) \in Nat /\ 0 \in Nat
        BY <2>2 DEF Smaller
      <4>3. PICK v : v = Bytes(d, g, Smaller(g.eof, g.eof), 0)
        OBVIOUS
      <4>4. v.op \in {"data", "undefined"} \/ v = Error("EIO") \/ (v = Dead /\ PointsPast(d))
        BY <2>1, <4>2, <4>3, BytesIs
      <4> QED BY <4>1, <4>3, <4>4
    <3> QED BY <1>2, <3>1, <3>2, LengthFine
  <2>4. CASE q.size # 0
    <3>1. PICK size : size = Smaller(q.size, f.eof)
      OBVIOUS
    <3>2. PICK expected : expected = IF 0 >= f.eof THEN <<>> ELSE Slice(d, f, 0, q.size)
      OBVIOUS
    <3>3. a = Bytes(d, g, size, 0)
      BY <1>1, <2>1, <2>4, <3>1
    <3>4. size \in Nat /\ 0 \in Nat /\ q.size \in Nat \ {0}
      BY <2>1, <2>2, <2>4, <3>1 DEF Smaller
    <3>5. /\ a.op \in {"data", "undefined"} \/ a = Error("EIO") \/ (a = Dead /\ PointsPast(d))
          /\ a.op = "data" /\ f.eof <= Capacity(f.storage) =>
               /\ Len(a.bytes) = size /\ SubSeq(a.bytes, 1, Len(expected)) = expected
               /\ \A k \in 1..size : a.bytes[k] = Unset <=>
                                     f.storage = "seedling" /\ (0 % BlockSize) + k > BlockSize
          /\ a.op = "undefined" =>
               \/ f.storage = "seedling" /\ f.eof = 0
               \/ /\ f.storage # "seedling"
                  /\ ((0 \div BlockSize) % Pointers) * BlockSize + (0 % BlockSize) + q.size
                       > Pointers * BlockSize
      BY ONLY IsDisk(d), <2>1, <3>1, <3>2, <3>3, <3>4, BytesFlat
    <3>6. Flat(d, q, hs, a)
      BY <1>3, <3>1, <3>2, <3>5 DEF Flat
    <3>7. CASE a.op \in {"data", "undefined"}
      <4>1. a # Dead /\ a # Error("ENOENT")
        BY <3>7, ErrorsAre
      <4>2. Agree(d, q, a)
        BY <3>7, <4>1 DEF Agree
      <4> QED BY <1>2, <3>6, <4>1, <4>2 DEF Fine
    <3>8. CASE a = Error("EIO") \/ (a = Dead /\ PointsPast(d))
      BY <1>2, <3>8, FailureFine
    <3> QED BY <3>5, <3>7, <3>8
  <2> QED BY <2>3, <2>4
<1>6. \/ \A s : ResourceFork(d, e, s) = Error("EIO")
      \/ PointsPast(d) /\ \A s : ResourceFork(d, e, s) = Dead
      \/ \E g : /\ Kept(d, g) /\ g.storage = f.storage /\ g.key = f.key /\ g.eof = f.eof
                /\ ResourceFork(d, e, 0) = [op |-> "length", length |-> g.eof]
                /\ \A s : s # 0 => ResourceFork(d, e, s) = Bytes(d, g, Smaller(s, g.eof), 0)
  BY <1>3, ForkIs
<1> QED BY <1>4, <1>5, <1>6

LEMMA AttributeSizes ==
  ASSUME NEW x \in DOMAIN AttributeSize
  PROVE  AttributeSize[x] \in Nat
BY FuseProDOSAssumption

(* The kernel asks only for attributes that have a size, known or not.     *)
LEMMA GetxattrFine ==
  ASSUME NEW d, IsDisk(d), NEW q, NEW hs, q.op = "getxattr", q.inode \in Inodes(d),
         q.name \in DOMAIN AttributeSize, q.size \in Nat
  PROVE  Fine(d, q, hs, Getxattr(d, q.inode, q.name, q.size))
<1>1. PICK e : e = EntryAt(d, q.inode)
  OBVIOUS
<1>2. PICK a : a = Getxattr(d, q.inode, q.name, q.size)
  OBVIOUS
<1>3. PICK length : length = AttributeSize[q.name] /\ length \in Nat
  BY AttributeSizes
<1>4. CASE \A s : Getxattr(d, q.inode, q.name, s) = Error("ENOATTR")
  BY <1>4, FailureFine
<1>5. CASE \A s : Getxattr(d, q.inode, q.name, s) =
                    Sized(s, length, [op |-> "value", value |-> e.type])
  <2>1. PICK v : v = [op |-> "value", value |-> e.type]
    OBVIOUS
  <2>2. v.op = "value" /\ v # Error("ENOENT")
    BY <2>1, ErrorsAre
  <2>3. \A s : Getxattr(d, q.inode, q.name, s) = Sized(s, length, v)
    BY <1>5, <2>1
  <2>4. CASE q.size = 0
    <3>1. a.op = "length" /\ a.length = length
      BY <1>2, <2>3, <2>4, SizedIs
    <3>2. length # 0 => Getxattr(d, q.inode, q.name, length) = v
      <4>1. ~(length < length)
        BY <1>3
      <4> QED BY <2>3, <4>1, SizedIs
    <3> QED BY <1>2, <2>2, <3>1, <3>2, LengthFine
  <2>5. CASE q.size # 0
    <3>1. a \in {Error("ERANGE"), v}
      BY <1>2, <2>3, <2>5, SizedIs
    <3>2. CASE a = Error("ERANGE")
      BY <1>2, <3>2, FailureFine
    <3>3. CASE a = v
      BY <1>2, <2>2, <3>3, PlainFine
    <3> QED BY <3>1, <3>2, <3>3
  <2> QED BY <2>4, <2>5
<1>6. CASE q.inode # Root /\ \A s : Getxattr(d, q.inode, q.name, s) = FinderInfo(d, e, s)
             /\ q.name = "FinderInfo"
  <2>1. \/ \A s : FinderInfo(d, e, s) = Error("EIO")
        \/ PointsPast(d) /\ \A s : FinderInfo(d, e, s) = Dead
        \/ /\ FinderInfo(d, e, 0) = [op |-> "length", length |-> length]
           /\ \A s : s # 0 =>
                \/ FinderInfo(d, e, s).op = "value"
                \/ s < length /\ FinderInfo(d, e, s) = Error("ERANGE")
    BY <1>1, <1>3, <1>6, FinderIs
  <2>2. CASE \/ \A s : FinderInfo(d, e, s) = Error("EIO")
             \/ PointsPast(d) /\ \A s : FinderInfo(d, e, s) = Dead
    BY <1>6, <2>2, FailureFine
  <2>3. CASE /\ FinderInfo(d, e, 0) = [op |-> "length", length |-> length]
             /\ \A s : s # 0 =>
                  \/ FinderInfo(d, e, s).op = "value"
                  \/ s < length /\ FinderInfo(d, e, s) = Error("ERANGE")
    <3>1. CASE q.size = 0
      <4>1. a.op = "length" /\ a.length = length
        BY <1>2, <1>6, <2>3, <3>1
      <4>2. length # 0 => Getxattr(d, q.inode, q.name, length).op = "value"
        <5>1. ~(length < length)
          BY <1>3
        <5> QED BY <1>6, <2>3, <5>1
      <4> QED BY <1>2, <4>1, <4>2, LengthFine
    <3>2. CASE q.size # 0
      <4>1. a.op = "value" \/ a = Error("ERANGE")
        BY <1>2, <1>6, <2>3, <3>2
      <4>2. CASE a.op = "value"
        <5>1. a # Error("ENOENT")
          BY <4>2, ErrorsAre
        <5> QED BY <1>2, <4>2, <5>1, PlainFine
      <4>3. CASE a = Error("ERANGE")
        BY <1>2, <4>3, FailureFine
      <4> QED BY <4>1, <4>2, <4>3
    <3> QED BY <3>1, <3>2
  <2> QED BY <2>1, <2>2, <2>3
<1>7. CASE /\ q.inode # Root /\ q.name = "ResourceFork" /\ e.storage = "extended"
           /\ \A s : Getxattr(d, q.inode, q.name, s) = ResourceFork(d, e, s)
  BY <1>1, <1>7, ForkFine
<1>8. \/ \A s : Getxattr(d, q.inode, q.name, s) = Error("ENOATTR")
      \/ \A s : Getxattr(d, q.inode, q.name, s) =
                  Sized(s, AttributeSize[q.name], [op |-> "value", value |-> e.type])
      \/ /\ q.inode # Root /\ q.name = "ResourceFork" /\ e.storage = "extended"
         /\ \A s : Getxattr(d, q.inode, q.name, s) = ResourceFork(d, e, s)
      \/ /\ q.inode # Root /\ q.name = "FinderInfo"
         /\ \A s : Getxattr(d, q.inode, q.name, s) = FinderInfo(d, e, s)
  BY <1>1, GetxattrIs
<1> QED BY <1>3, <1>4, <1>5, <1>6, <1>7, <1>8

(* A list names what has a value, or a fork that may have been damaged.    *)
LEMMA NamesAgree ==
  ASSUME NEW d, IsDisk(d), NEW i \in Inodes(d), i # Root, NEW e, e = EntryAt(d, i),
         HasAttributes(e), NEW x
  PROVE  LET v == Getxattr(d, i, x, 0)
         IN  /\ v.op = "length" => Has(e, x)
             /\ Has(e, x) => v.op = "length" \/ v \in {Error("EIO"), Dead}
<1>1. PICK v : v = Getxattr(d, i, x, 0)
  OBVIOUS
<1>2. CASE ~Has(e, x) /\ \A s : Getxattr(d, i, x, s) = Error("ENOATTR")
  <2>1. v.op = "error"
    BY <1>1, <1>2, ErrorsAre
  <2> QED BY <1>1, <1>2, <2>1
<1>3. CASE /\ Has(e, x)
           /\ \A s : Getxattr(d, i, x, s) =
                       Sized(s, AttributeSize[x], [op |-> "value", value |-> e.type])
  <2>1. v.op = "length"
    BY <1>1, <1>3, SizedIs
  <2> QED BY <1>1, <1>3, <2>1
<1>4. CASE /\ x = "ResourceFork" /\ e.storage = "extended" /\ Has(e, x)
           /\ \A s : Getxattr(d, i, x, s) = ResourceFork(d, e, s)
  <2>1. v = ResourceFork(d, e, 0)
    BY <1>1, <1>4
  <2>2. \/ v = Error("EIO") \/ v = Dead
        \/ \E g : ResourceFork(d, e, 0) = [op |-> "length", length |-> g.eof]
    BY <1>4, <2>1, ForkIs
  <2>3. v.op = "length" \/ v \in {Error("EIO"), Dead}
    BY <2>1, <2>2
  <2> QED BY <1>1, <1>4, <2>3
<1>5. CASE x = "FinderInfo" /\ Has(e, x) /\ \A s : Getxattr(d, i, x, s) = FinderInfo(d, e, s)
  <2>1. v = FinderInfo(d, e, 0)
    BY <1>1, <1>5
  <2>2. \/ v = Error("EIO") \/ v = Dead
        \/ FinderInfo(d, e, 0) = [op |-> "length", length |-> AttributeSize["FinderInfo"]]
    BY <2>1, FinderIs
  <2>3. v.op = "length" \/ v \in {Error("EIO"), Dead}
    BY <2>1, <2>2
  <2> QED BY <1>1, <1>5, <2>3
<1>6. \/ ~Has(e, x) /\ \A s : Getxattr(d, i, x, s) = Error("ENOATTR")
      \/ /\ Has(e, x)
         /\ \A s : Getxattr(d, i, x, s) =
                     Sized(s, AttributeSize[x], [op |-> "value", value |-> e.type])
      \/ /\ x = "ResourceFork" /\ e.storage = "extended" /\ Has(e, x)
         /\ \A s : Getxattr(d, i, x, s) = ResourceFork(d, e, s)
      \/ x = "FinderInfo" /\ Has(e, x) /\ \A s : Getxattr(d, i, x, s) = FinderInfo(d, e, s)
  BY GetxattrIs
<1> QED BY <1>2, <1>3, <1>4, <1>5, <1>6

LEMMA ListxattrFine ==
  ASSUME NEW d, IsDisk(d), NEW q, NEW hs, q.op = "listxattr", q.inode \in Inodes(d), q.size \in Nat
  PROVE  Fine(d, q, hs, Listxattr(d, q.inode, q.size))
<1>1. PICK e : e = EntryAt(d, q.inode)
  OBVIOUS
<1>2. PICK a : a = Listxattr(d, q.inode, q.size)
  OBVIOUS
<1>3. PICK names : names = IF q.inode # Root /\ HasAttributes(e) THEN Listed(e) ELSE <<>>
  OBVIOUS
<1>4. PICK length : length = NamesLength(names)
  OBVIOUS
<1>5. length \in Nat
  <2>1. names \in Seq(NamedAttributes)
    BY <1>3, ListedIs, EmptySeq
  <2> QED BY <1>4, <2>1, NamesLengthIs
<1>6. PICK v : v = [op |-> "names", names |-> names]
  OBVIOUS
<1>7. v.op = "names" /\ v.names = names
  BY <1>6
<1>8. \A s : Listxattr(d, q.inode, s) = Sized(s, length, v)
  BY <1>1, <1>3, <1>4, <1>6 DEF Listxattr
<1>9. CASE q.size = 0
  <2>1. a.op = "length" /\ a.length = length
    BY <1>2, <1>8, <1>9, SizedIs
  <2>2. length # 0 => Listxattr(d, q.inode, length).op = "names"
    <3>1. ~(length < length)
      BY <1>5
    <3> QED BY <1>7, <1>8, <3>1, SizedIs
  <2>3. a # Dead /\ a # Error("ENOENT")
    BY <2>1, ErrorsAre
  <2>4. Flat(d, q, hs, a)
    BY <2>1 DEF Flat
  <2>5. Agree(d, q, a)
    BY <2>1, <2>2, <2>3 DEF Agree
  <2> QED BY <1>2, <2>3, <2>4, <2>5 DEF Fine
<1>10. CASE q.size # 0
  <2>1. a \in {Error("ERANGE"), v}
    BY <1>2, <1>8, <1>10, SizedIs
  <2>2. CASE a = Error("ERANGE")
    BY <1>2, <2>2, FailureFine
  <2>3. CASE a = v
    <3>1. a # Dead /\ a # Error("ENOENT")
      BY <1>7, <2>3, ErrorsAre
    <3>2. Flat(d, q, hs, a)
      BY <1>7, <2>3 DEF Flat
    <3>3. ASSUME a.names # <<>>, NEW x \in DOMAIN AttributeSize
          PROVE  LET w == Getxattr(d, q.inode, x, 0)
                 IN  /\ w.op = "length" => x \in ToSet(a.names)
                     /\ x \in ToSet(a.names) => w.op = "length" \/ w \in {Error("EIO"), Dead}
      <4>1. q.inode # Root /\ HasAttributes(e) /\ a.names = Listed(e)
        BY <1>3, <1>7, <2>3, <3>3
      <4>2. x \in ToSet(a.names) <=> Has(e, x)
        BY <4>1, ListedIs
      <4> QED BY <1>1, <4>1, <4>2, NamesAgree
    <3>4. Agree(d, q, a)
      BY <1>7, <2>3, <3>1, <3>3 DEF Agree
    <3> QED BY <1>2, <3>1, <3>2, <3>4 DEF Fine
  <2> QED BY <2>1, <2>2, <2>3
<1> QED BY <1>9, <1>10

(* What an open keeps, or why it keeps nothing.                            *)
LEMMA OpeningIs ==
  ASSUME NEW d, IsDisk(d), NEW q, NEW hs, q.inode \in Inodes(d), NEW readOnly
  PROVE  LET a == Opening(d, q.inode, readOnly)
         IN  Fine(d, q, hs, a) /\ (a.op = "opened" => Kept(d, a.entry))
<1>1. PICK a : a = Opening(d, q.inode, readOnly)
  OBVIOUS
<1>2. PICK e : e = EntryAt(d, q.inode)
  OBVIOUS
<1>3. PICK n : n = Normalize(d, e, "data")
  OBVIOUS
<1>4. a = IF q.inode = Root THEN Error("EISDIR")
          ELSE IF n.status # "ok" THEN Bad(n.status, "EIO")
          ELSE IF n.entry.storage = "directory" THEN Error("EISDIR")
          ELSE IF n.entry.storage \notin FileTypes THEN Error("EIO")
          ELSE IF ~readOnly THEN Error("EACCES")
          ELSE [op |-> "opened", entry |-> n.entry]
  BY <1>1, <1>2, <1>3 DEF Opening
<1>5. q.inode # Root =>
        /\ n.status = "throws" => PointsPast(d)
        /\ n.status = "ok" /\ n.entry.storage \in FileTypes => Kept(d, n.entry)
  BY <1>2, <1>3, NormalizeIs
<1>6. Bad(n.status, "EIO") = IF n.status = "throws" THEN Dead ELSE Error("EIO")
  BY DEF Bad
<1>7. CASE \/ a \in {Error("EISDIR"), Error("EIO"), Error("EACCES")}
           \/ a = Dead /\ PointsPast(d)
  <2>1. a.op # "opened"
    BY <1>7, ErrorsAre
  <2> QED BY <1>1, <1>7, <2>1, FailureFine
<1>8. CASE /\ q.inode # Root /\ n.status = "ok" /\ n.entry.storage \in FileTypes
           /\ a = [op |-> "opened", entry |-> n.entry]
  <2>1. a.op = "opened" /\ a.entry = n.entry
    BY <1>8
  <2>2. a # Error("ENOENT")
    BY <2>1, ErrorsAre
  <2> QED BY <1>1, <1>5, <1>8, <2>1, <2>2, PlainFine
<1> QED BY <1>4, <1>5, <1>6, <1>7, <1>8

-----------------------------------------------------------------------------
(* The inductive invariant.                                                *)

(* The request q, with the handles, the directory and the answer there are.*)
AskedIs(d, q, hs, dr, a) ==
  /\ q.op \in {"getattr", "lookup", "listxattr", "getxattr", "open", "opendir"} =>
       q.inode \in Inodes(d)
  /\ q.op \in {"listxattr", "getxattr"} => q.size \in Sizes
  /\ q.op = "getxattr" => q.name \in DOMAIN AttributeSize
  /\ q.op \in {"open", "read", "release"} => q.handle \in Handles
  /\ q.op = "read" =>
       hs[q.handle].open /\ q.size \in Sizes \ {0} /\ q.offset \in Offsets
  /\ q.op = "readdir" =>
       dr.open /\ q.size \in Sizes \ {0} /\ (a = None => q.offset = dr.offset)
  /\ q = None => a = None

(* A walk is on behalf of a lookup or opendir of a directory.              *)
WalkingIs(d, q, w, a) ==
  w # NoWalk =>
    /\ q.op \in {"lookup", "opendir"} /\ a = None /\ IsDirectory(d, q.inode)
    /\ Walked(d, KeyOf(d, q.inode), HeaderOf(q.inode), w)

OpenIs(d, hs) ==
  DOMAIN hs = Handles /\ \A h \in Handles : hs[h].open => Kept(d, hs[h].entry)

(* The kernel has seen the files before the offset.                        *)
OpenDirIs(d, dr) ==
  dr.open =>
    /\ dr = [open |-> TRUE, inode |-> dr.inode, files |-> dr.files, offset |-> dr.offset,
             seen |-> dr.seen, done |-> dr.done]
    /\ Listing(d, KeyOf(d, dr.inode), HeaderOf(dr.inode), dr.files)
    /\ dr.offset \in 0..Len(dr.files) /\ dr.seen = SubSeq(dr.files, 1, dr.offset)
    /\ dr.done => dr.offset = Len(dr.files)

(* What the mount of an image may die of.                                  *)
MayDie(i) == i \in RawImages \/ PointsPast(Disks[i])

IInv ==
  /\ image \in DOMAIN Disks /\ running \in BOOLEAN /\ (~running => MayDie(image))
  /\ AskedIs(disk, request, handle, dir, reply) /\ WalkingIs(disk, request, walk, reply)
  /\ OpenIs(disk, handle) /\ OpenDirIs(disk, dir)
  /\ Right(disk, request, handle, reply)

LEMMA DiskOfImage ==
  ASSUME image \in DOMAIN Disks
  PROVE  IsDisk(disk)
BY FuseProDOSAssumption DEF disk

(* Where a walk begins.                                                    *)
LEMMA KeyIs ==
  ASSUME NEW d, IsDisk(d), NEW i \in Inodes(d)
  PROVE  /\ KeyOf(d, i) \in Nat /\ HeaderOf(i) \in {"volume", "subdir"}
         /\ KeyOf(d, i) = d.blocks => PointsPast(d)
<1>1. HeaderOf(i) \in {"volume", "subdir"}
  BY DEF HeaderOf
<1>2. CASE i = Root
  <2>1. KeyOf(d, i) = 2 /\ d.blocks \in Nat /\ 2 < d.blocks
    BY <1>2, DiskIs DEF KeyOf
  <2>2. KeyOf(d, i) \in Nat /\ KeyOf(d, i) # d.blocks
    BY ONLY <2>1
  <2> QED BY <1>1, <2>2
<1>3. CASE i # Root
  <2>1. PICK e : e = EntryAt(d, i)
    OBVIOUS
  <2>2. KeyOf(d, i) = e.key
    BY <1>3, <2>1 DEF KeyOf
  <2>3. i[1] \in DirBlocks(d) /\ i[2] \in DOMAIN d.content[i[1]].entries
        /\ e = d.content[i[1]].entries[i[2]]
    BY <1>3, <2>1, InodeIs
  <2>4. e.key \in Nat
    BY <2>3, EntryIs DEF Entry
  <2>5. i[1] \in 0..d.blocks-1 /\ d.content[i[1]].kind = "dir"
    BY <2>3, DirIs
  <2>6. e.key = d.blocks => PointsPast(d)
    BY ONLY <2>3, <2>5, IsDisk(d), PastEnd
  <2> QED BY <1>1, <2>2, <2>4, <2>6
<1> QED BY <1>2, <1>3

LEMMA NothingWrong ==
  ASSUME NEW d, NEW q, NEW hs
  PROVE  Right(d, q, hs, None)
<1>1. None.op = "none" /\ None # Error("ENOENT")
  BY ErrorsAre
<1>2. Fine(d, q, hs, None)
  BY <1>1, PlainFine
<1> QED BY <1>2 DEF Fine, Right

LEMMA NotWalking ==
  ASSUME NEW d, NEW q, NEW a
  PROVE  WalkingIs(d, q, NoWalk, a)
BY DEF WalkingIs

(* Nothing is open.                                                        *)
LEMMA AllClosed ==
  ASSUME NEW d
  PROVE  OpenIs(d, [h \in Handles |-> Closed]) /\ OpenDirIs(d, NoDir)
BY DEF OpenIs, OpenDirIs, Closed, NoDir

LEMMA NothingAsked ==
  ASSUME NEW d, NEW hs, NEW dr
  PROVE  AskedIs(d, None, hs, dr, None)
BY DEF AskedIs, None

LEMMA Starts ==
  ASSUME Init
  PROVE  IInv
<1>1. image \in DOMAIN Disks /\ running = TRUE /\ request = None /\ walk = NoWalk /\ reply = None
      /\ handle = [h \in Handles |-> Closed] /\ dir = NoDir
  BY DEF Init
<1>2. /\ AskedIs(disk, request, handle, dir, reply) /\ WalkingIs(disk, request, walk, reply)
      /\ OpenIs(disk, handle) /\ OpenDirIs(disk, dir) /\ Right(disk, request, handle, reply)
  BY <1>1, NothingAsked, NotWalking, AllClosed, NothingWrong
<1> QED BY <1>1, <1>2 DEF IInv

(* A request.                                                              *)
LEMMA AskSteps ==
  ASSUME IInv, NEW r, Ask(r), AskedIs(disk, r, handle, dir, None)
  PROVE  IInv'
<1>1. /\ image' = image /\ running' = running /\ request' = r /\ walk' = walk /\ reply' = reply
      /\ handle' = handle /\ dir' = dir /\ request = None
  BY DEF Ask
<1>2. disk' = disk
  BY <1>1 DEF disk
<1>3. reply = None
  BY <1>1 DEF IInv, AskedIs
<1>4. walk = NoWalk
  BY <1>1, ErrorsAre DEF IInv, WalkingIs
<1>5. /\ AskedIs(disk', request', handle', dir', reply') /\ WalkingIs(disk', request', walk', reply')
      /\ Right(disk', request', handle', reply')
  BY <1>1, <1>2, <1>3, <1>4, NotWalking, NothingWrong
<1>6. OpenIs(disk', handle') /\ OpenDirIs(disk', dir')
  BY <1>1, <1>2 DEF IInv
<1>7. image' \in DOMAIN Disks /\ running' \in BOOLEAN /\ (~running' => MayDie(image'))
  BY <1>1, <1>2 DEF IInv
<1> QED BY <1>5, <1>6, <1>7 DEF IInv

(* An answer, of a device that fails or not.                               *)
LEMMA AnySteps ==
  ASSUME IInv, NEW a, Answer(a), image' = image, OpenIs(disk, handle'), OpenDirIs(disk, dir'),
         Right(disk, request, handle', a), a = Dead => MayDie(image),
         AskedIs(disk, request, handle', dir', a)
  PROVE  IInv'
<1>1. /\ reply' = a /\ walk' = NoWalk /\ request' = request /\ running' = (a # Dead)
  BY DEF Answer
<1>2. disk' = disk
  BY DEF disk
<1>4. running' \in BOOLEAN /\ (~running' => MayDie(image'))
  BY <1>1
<1>5. WalkingIs(disk', request', walk', reply')
  BY <1>1, NotWalking
<1>6. /\ AskedIs(disk', request', handle', dir', reply') /\ Right(disk', request', handle', reply')
      /\ OpenIs(disk', handle') /\ OpenDirIs(disk', dir')
  BY <1>1, <1>2
<1>7. image' \in DOMAIN Disks
  BY DEF IInv
<1> QED BY <1>4, <1>5, <1>6, <1>7 DEF IInv

LEMMA AnswerSteps ==
  ASSUME IInv, NEW a, Answer(a), image' = image, OpenIs(disk, handle'), OpenDirIs(disk, dir'),
         Fine(disk, request, handle', a), AskedIs(disk, request, handle', dir', a)
  PROVE  IInv'
<1>1. Right(disk, request, handle', a) /\ (a = Dead => MayDie(image))
  BY DEF Fine, Right, MayDie, disk
<1> QED BY <1>1, AnySteps

(* A request keeps its form when it is answered.                           *)
LEMMA AskedStays ==
  ASSUME NEW d, NEW q, NEW hs, NEW dr, AskedIs(d, q, hs, dr, None), q # None, NEW a
  PROVE  AskedIs(d, q, hs, dr, a)
BY DEF AskedIs

LEMMA TakenStep ==
  ASSUME IInv, Taken
  PROVE  IInv'
<1>1. /\ image' = image /\ running' = running /\ request' = None /\ walk' = walk /\ reply' = None
      /\ handle' = handle /\ dir' = dir /\ reply # None
  BY DEF Taken
<1>2. disk' = disk
  BY <1>1 DEF disk
<1>3. walk = NoWalk
  BY <1>1 DEF IInv, WalkingIs
<1>4. /\ AskedIs(disk', request', handle', dir', reply') /\ WalkingIs(disk', request', walk', reply')
      /\ Right(disk', request', handle', reply')
  BY <1>1, <1>3, NothingAsked, NotWalking, NothingWrong
<1>5. OpenIs(disk', handle') /\ OpenDirIs(disk', dir')
  BY <1>1, <1>2 DEF IInv
<1>6. image' \in DOMAIN Disks /\ running' \in BOOLEAN /\ (~running' => MayDie(image'))
  BY <1>1, <1>2 DEF IInv
<1> QED BY <1>4, <1>5, <1>6 DEF IInv

LEMMA UnmountStep ==
  ASSUME IInv, Unmount
  PROVE  IInv'
<1>1. /\ image' = image /\ running' = TRUE /\ request' = None /\ walk' = NoWalk /\ reply' = None
      /\ handle' = [h \in Handles |-> Closed] /\ dir' = NoDir
  BY DEF Unmount
<1>2. /\ AskedIs(disk', request', handle', dir', reply') /\ WalkingIs(disk', request', walk', reply')
      /\ OpenIs(disk', handle') /\ OpenDirIs(disk', dir') /\ Right(disk', request', handle', reply')
  BY <1>1, NothingAsked, NotWalking, AllClosed, NothingWrong
<1>3. image' \in DOMAIN Disks /\ running' \in BOOLEAN /\ (~running' => MayDie(image'))
  BY <1>1 DEF IInv
<1> QED BY <1>2, <1>3 DEF IInv

LEMMA AskAboutStep ==
  ASSUME IInv, AskAbout
  PROVE  IInv'
<1>1. CASE Ask([op |-> "statfs"])
  <2>1. AskedIs(disk, [op |-> "statfs"], handle, dir, None)
    BY DEF AskedIs, None
  <2> QED BY <1>1, <2>1, AskSteps
<1>2. ASSUME NEW i \in Inodes(disk), Ask([op |-> "getattr", inode |-> i]) PROVE IInv'
  <2>1. AskedIs(disk, [op |-> "getattr", inode |-> i], handle, dir, None)
    BY DEF AskedIs, None
  <2> QED BY <1>2, <2>1, AskSteps
<1>3. ASSUME NEW i \in Inodes(disk), NEW n \in Names,
             Ask([op |-> "lookup", inode |-> i, name |-> n]) PROVE IInv'
  <2>1. AskedIs(disk, [op |-> "lookup", inode |-> i, name |-> n], handle, dir, None)
    BY DEF AskedIs, None
  <2> QED BY <1>3, <2>1, AskSteps
<1>4. ASSUME NEW i \in Inodes(disk), NEW s \in Sizes,
             Ask([op |-> "listxattr", inode |-> i, size |-> s]) PROVE IInv'
  <2>1. AskedIs(disk, [op |-> "listxattr", inode |-> i, size |-> s], handle, dir, None)
    BY DEF AskedIs, None
  <2> QED BY <1>4, <2>1, AskSteps
<1>5. ASSUME NEW i \in Inodes(disk), NEW s \in Sizes, NEW n \in DOMAIN AttributeSize,
             Ask([op |-> "getxattr", inode |-> i, name |-> n, size |-> s]) PROVE IInv'
  <2>1. AskedIs(disk, [op |-> "getxattr", inode |-> i, name |-> n, size |-> s], handle, dir, None)
    BY DEF AskedIs, None
  <2> QED BY <1>5, <2>1, AskSteps
<1> QED BY <1>1, <1>2, <1>3, <1>4, <1>5 DEF AskAbout

LEMMA AskFileStep ==
  ASSUME IInv, NEW h \in Handles, AskFile(h)
  PROVE  IInv'
<1>1. ASSUME NEW i \in Inodes(disk), NEW readOnly \in BOOLEAN,
             Ask([op |-> "open", handle |-> h, inode |-> i, readOnly |-> readOnly])
      PROVE  IInv'
  <2>1. AskedIs(disk, [op |-> "open", handle |-> h, inode |-> i, readOnly |-> readOnly], handle, dir,
                None)
    BY DEF AskedIs, None
  <2> QED BY <1>1, <2>1, AskSteps
<1>2. ASSUME handle[h].open, NEW s \in Sizes \ {0}, NEW o \in Offsets,
             Ask([op |-> "read", handle |-> h, size |-> s, offset |-> o])
      PROVE  IInv'
  <2>1. AskedIs(disk, [op |-> "read", handle |-> h, size |-> s, offset |-> o], handle, dir, None)
    BY <1>2 DEF AskedIs, None
  <2> QED BY <1>2, <2>1, AskSteps
<1>3. ASSUME Ask([op |-> "release", handle |-> h]) PROVE IInv'
  <2>1. AskedIs(disk, [op |-> "release", handle |-> h], handle, dir, None)
    BY DEF AskedIs, None
  <2> QED BY <1>3, <2>1, AskSteps
<1> QED BY <1>1, <1>2, <1>3 DEF AskFile

LEMMA AskDirectoryStep ==
  ASSUME IInv, AskDirectory
  PROVE  IInv'
<1>1. ASSUME NEW i \in Inodes(disk), Ask([op |-> "opendir", inode |-> i]) PROVE IInv'
  <2>1. AskedIs(disk, [op |-> "opendir", inode |-> i], handle, dir, None)
    BY DEF AskedIs, None
  <2> QED BY <1>1, <2>1, AskSteps
<1>2. ASSUME dir.open, NEW s \in Sizes \ {0},
             Ask([op |-> "readdir", size |-> s, offset |-> dir.offset])
      PROVE  IInv'
  <2>1. AskedIs(disk, [op |-> "readdir", size |-> s, offset |-> dir.offset], handle, dir, None)
    BY <1>2 DEF AskedIs, None
  <2> QED BY <1>2, <2>1, AskSteps
<1>3. ASSUME Ask([op |-> "releasedir"]) PROVE IInv'
  <2>1. AskedIs(disk, [op |-> "releasedir"], handle, dir, None)
    BY DEF AskedIs, None
  <2> QED BY <1>3, <2>1, AskSteps
<1> QED BY <1>1, <1>2, <1>3 DEF AskDirectory

-----------------------------------------------------------------------------
(* The handlers keep the invariant.                                        *)

(* An answer that neither opens nor closes anything.                       *)
LEMMA PlainAnswer ==
  ASSUME IInv, request.op # "none", reply = None, NEW a, Answer(a),
         image' = image, handle' = handle, dir' = dir, Fine(disk, request, handle, a)
  PROVE  IInv'
<1>1. image' = image /\ handle' = handle /\ dir' = dir
  OBVIOUS
<1>2. reply = None /\ request # None
  BY ErrorsAre
<1>3. /\ AskedIs(disk, request, handle, dir, None)
      /\ OpenIs(disk, handle) /\ OpenDirIs(disk, dir)
  BY <1>2 DEF IInv
<1>4. AskedIs(disk, request, handle, dir, a)
  BY <1>2, <1>3, AskedStays
<1>5. /\ OpenIs(disk, handle') /\ OpenDirIs(disk, dir') /\ Fine(disk, request, handle', a)
      /\ AskedIs(disk, request, handle', dir', a)
  BY <1>1, <1>3, <1>4
<1> QED BY ONLY IInv, Answer(a), <1>1, <1>5, AnswerSteps

LEMMA AboutStep ==
  ASSUME IInv, About
  PROVE  IInv'
<1>1. IsDisk(disk) /\ AskedIs(disk, request, handle, dir, reply)
  BY DiskOfImage DEF IInv
<1>2. Sizes \subseteq Nat /\ image' = image /\ handle' = handle /\ dir' = dir
  BY FuseProDOSAssumption DEF About
<1>3. CASE Asked("statfs") /\ Answer(Statfs(disk))
  BY <1>2, <1>3, StatfsFine, PlainAnswer DEF Asked
<1>4. CASE Asked("getattr") /\ Answer(Getattr(disk, request.inode))
  <2>1. Fine(disk, request, handle, Getattr(disk, request.inode))
    BY <1>1, <1>4, GetattrFine DEF AskedIs, Asked
  <2> QED BY <1>2, <1>4, <2>1, PlainAnswer DEF Asked
<1>5. CASE Asked("listxattr") /\ Answer(Listxattr(disk, request.inode, request.size))
  <2>1. Fine(disk, request, handle, Listxattr(disk, request.inode, request.size))
    BY <1>1, <1>2, <1>5, ListxattrFine DEF AskedIs, Asked
  <2> QED BY <1>2, <1>5, <2>1, PlainAnswer DEF Asked
<1>6. CASE /\ Asked("getxattr")
           /\ Answer(Getxattr(disk, request.inode, request.name, request.size))
  <2>1. Fine(disk, request, handle, Getxattr(disk, request.inode, request.name, request.size))
    BY <1>1, <1>2, <1>6, GetxattrFine DEF AskedIs, Asked
  <2> QED BY <1>2, <1>6, <2>1, PlainAnswer DEF Asked
<1> QED BY <1>3, <1>4, <1>5, <1>6 DEF About

LEMMA OpenStep ==
  ASSUME IInv, Open
  PROVE  IInv'
<1>1. PICK a : a = Opening(disk, request.inode, request.readOnly)
  OBVIOUS
<1>2. /\ Asked("open") /\ Answer(a) /\ image' = image /\ dir' = dir
      /\ IF a.op = "opened"
           THEN handle' = [handle EXCEPT ![request.handle] =
                             [open |-> TRUE, inode |-> request.inode, entry |-> a.entry]]
           ELSE handle' = handle
  BY <1>1 DEF Open
<1>3. request.op = "open" /\ reply = None
  BY <1>2 DEF Asked
<1>4. IsDisk(disk) /\ AskedIs(disk, request, handle, dir, None) /\ OpenDirIs(disk, dir)
      /\ DOMAIN handle = Handles /\ \A h \in Handles : handle[h].open => Kept(disk, handle[h].entry)
  BY <1>3, DiskOfImage DEF IInv, OpenIs
<1>5. request.inode \in Inodes(disk) /\ request.handle \in Handles
  BY <1>3, <1>4 DEF AskedIs
<1>6. a.op = "opened" => Kept(disk, a.entry)
  BY <1>1, <1>4, <1>5, OpeningIs
<1>7. Fine(disk, request, handle', a)
  BY <1>1, <1>4, <1>5, OpeningIs
<1>8. OpenIs(disk, handle')
  <2>1. CASE a.op = "opened"
    <3>1. PICK r : r = [open |-> TRUE, inode |-> request.inode, entry |-> a.entry]
      OBVIOUS
    <3>2. r.entry = a.entry
      BY <3>1
    <3>3. handle' = [handle EXCEPT ![request.handle] = r]
      BY <1>2, <2>1, <3>1
    <3>4. DOMAIN handle' = Handles
          /\ \A h \in Handles : handle'[h] = IF h = request.handle THEN r ELSE handle[h]
      BY <1>4, <3>3
    <3>5. ASSUME NEW h \in Handles, handle'[h].open PROVE Kept(disk, handle'[h].entry)
      <4>1. CASE h = request.handle
        BY <1>6, <2>1, <3>2, <3>4, <4>1
      <4>2. CASE h # request.handle
        <5>1. handle'[h] = handle[h]
          BY <3>4, <4>2
        <5> QED BY <1>4, <3>5, <5>1
      <4> QED BY <4>1, <4>2
    <3> QED BY <3>4, <3>5 DEF OpenIs
  <2>2. CASE a.op # "opened"
    BY <1>2, <1>4, <2>2 DEF OpenIs
  <2> QED BY <2>1, <2>2
<1>9. AskedIs(disk, request, handle', dir', a)
  BY <1>2, <1>3, <1>4, ErrorsAre DEF AskedIs
<1> QED BY <1>2, <1>4, <1>7, <1>8, <1>9, AnswerSteps

LEMMA ReleaseStep ==
  ASSUME IInv, Release
  PROVE  IInv'
<1>1. PICK a : a = [op |-> "ok"]
  OBVIOUS
<1>2. /\ Asked("release") /\ Answer(a) /\ image' = image /\ dir' = dir
      /\ handle' = [handle EXCEPT ![request.handle] = Closed]
  BY <1>1 DEF Release
<1>3. request.op = "release" /\ reply = None
  BY <1>2 DEF Asked
<1>4. AskedIs(disk, request, handle, dir, None) /\ OpenDirIs(disk, dir)
      /\ DOMAIN handle = Handles /\ \A h \in Handles : handle[h].open => Kept(disk, handle[h].entry)
  BY <1>3 DEF IInv, OpenIs
<1>5. Closed.open = FALSE
  BY DEF Closed
<1>6. OpenIs(disk, handle')
  <2>1. DOMAIN handle' = Handles
        /\ \A h \in Handles : handle'[h] = Closed \/ handle'[h] = handle[h]
    BY <1>2, <1>4
  <2> QED BY <1>4, <1>5, <2>1 DEF OpenIs
<1>7. AskedIs(disk, request, handle', dir', a)
  BY <1>2, <1>3, <1>4, ErrorsAre DEF AskedIs
<1>8. Fine(disk, request, handle', a)
  <2>1. a.op = "ok" /\ a # Error("ENOENT")
    BY <1>1, ErrorsAre
  <2> QED BY <2>1, PlainFine
<1> QED BY <1>2, <1>4, <1>6, <1>7, <1>8, AnswerSteps

LEMMA ReadFileStep ==
  ASSUME IInv, ReadFile
  PROVE  IInv'
<1>1. PICK a : a = Read(disk, handle[request.handle].entry, request.size, request.offset)
  OBVIOUS
<1>2. Asked("read") /\ Answer(a) /\ image' = image /\ handle' = handle /\ dir' = dir
  BY <1>1 DEF ReadFile
<1>3. IsDisk(disk) /\ request.op = "read"
  BY <1>2, DiskOfImage DEF IInv, Asked
<1>4. Kept(disk, handle[request.handle].entry)
  BY <1>3 DEF IInv, AskedIs, OpenIs
<1>5. request.offset \in Nat /\ request.size \in Nat \ {0}
  BY <1>3, FuseProDOSAssumption DEF IInv, AskedIs
<1>6. Fine(disk, request, handle, a)
  BY <1>1, <1>3, <1>4, <1>5, ReadFine
<1> QED BY <1>2, <1>6, PlainAnswer DEF Asked

LEMMA RefusedWalkStep ==
  ASSUME IInv, RefusedWalk
  PROVE  IInv'
<1>1. image' = image /\ handle' = handle /\ dir' = dir
  BY DEF RefusedWalk
<1>2. CASE /\ Asked("lookup") /\ request.name \in Invalid
           /\ Answer(Error("ENOENT"))
  <2>1. Fine(disk, request, handle, Error("ENOENT"))
    BY <1>2, NoEntryFine
  <2> QED BY <1>1, <1>2, <2>1, PlainAnswer DEF Asked
<1>3. CASE /\ request.inode # Root /\ EntryAt(disk, request.inode).storage # "directory"
           /\ Answer(Error(IF Asked("lookup") THEN "ENOENT" ELSE "ENOTDIR"))
  <2>1. ~IsDirectory(disk, request.inode)
    BY <1>3 DEF IsDirectory
  <2>2. CASE Asked("lookup")
    <3>1. Fine(disk, request, handle, Error("ENOENT"))
      BY <2>1, NoEntryFine
    <3>2. Answer(Error("ENOENT"))
      BY <1>3, <2>2
    <3> QED BY <1>1, <2>2, <3>1, <3>2, PlainAnswer DEF Asked
  <2>3. CASE ~Asked("lookup")
    <3>1. Asked("opendir")
      BY <2>3 DEF RefusedWalk, Walking
    <3>2. Answer(Error("ENOTDIR"))
      BY <1>3, <2>3
    <3>3. Fine(disk, request, handle, Error("ENOTDIR"))
      BY FailureFine
    <3> QED BY <1>1, <3>1, <3>2, <3>3, PlainAnswer DEF Asked
  <2> QED BY <2>2, <2>3
<1> QED BY <1>2, <1>3 DEF RefusedWalk

(* The walk goes on, nothing else changes.                                 *)
LEMMA WalkSteps ==
  ASSUME IInv, UNCHANGED <<image, running, request, reply, handle, dir>>,
         WalkingIs(disk, request, walk', reply)
  PROVE  IInv'
<1>1. /\ image' = image /\ running' = running /\ request' = request /\ reply' = reply
      /\ handle' = handle /\ dir' = dir
  OBVIOUS
<1>2. disk' = disk
  BY <1>1 DEF disk
<1>3. /\ image' \in DOMAIN Disks /\ running' \in BOOLEAN /\ (~running' => MayDie(image'))
      /\ AskedIs(disk', request', handle', dir', reply')
      /\ OpenIs(disk', handle') /\ OpenDirIs(disk', dir') /\ Right(disk', request', handle', reply')
  BY <1>1, <1>2 DEF IInv
<1>4. WalkingIs(disk', request', walk', reply')
  BY <1>1, <1>2
<1> QED BY <1>3, <1>4 DEF IInv

LEMMA EnterDirectoryStep ==
  ASSUME IInv, EnterDirectory
  PROVE  IInv'
<1>1. /\ UNCHANGED <<image, running, request, reply, handle, dir>>
      /\ request.op \in {"lookup", "opendir"} /\ reply = None
  BY DEF EnterDirectory, Walking, Asked
<1>2. IsDisk(disk) /\ request.inode \in Inodes(disk)
  BY <1>1, DiskOfImage DEF IInv, AskedIs
<1>3. /\ walk' = Enter(disk, KeyOf(disk, request.inode), HeaderOf(request.inode))
      /\ IsDirectory(disk, request.inode)
  BY DEF EnterDirectory, KeyOf, HeaderOf, IsDirectory
<1>4. Walked(disk, KeyOf(disk, request.inode), HeaderOf(request.inode), walk')
  BY <1>2, <1>3, KeyIs, EnterWalks
<1>5. WalkingIs(disk, request, walk', reply)
  BY <1>1, <1>3, <1>4 DEF WalkingIs
<1> QED BY <1>1, <1>5, WalkSteps

(* What there is while a walk goes on.                                     *)
LEMMA OnWalk ==
  ASSUME IInv, walk.status # "none"
  PROVE  /\ IsDisk(disk) /\ request.inode \in Inodes(disk) /\ IsDirectory(disk, request.inode)
         /\ request.op \in {"lookup", "opendir"} /\ reply = None
         /\ KeyOf(disk, request.inode) \in Nat
         /\ HeaderOf(request.inode) \in {"volume", "subdir"}
         /\ Walked(disk, KeyOf(disk, request.inode), HeaderOf(request.inode), walk)
<1>1. walk # NoWalk
  BY DEF NoWalk
<1>2. /\ request.op \in {"lookup", "opendir"} /\ reply = None /\ IsDirectory(disk, request.inode)
      /\ Walked(disk, KeyOf(disk, request.inode), HeaderOf(request.inode), walk)
  BY <1>1 DEF IInv, WalkingIs
<1>3. IsDisk(disk) /\ request.inode \in Inodes(disk)
  BY <1>2, DiskOfImage DEF IInv, AskedIs
<1> QED BY <1>2, <1>3, KeyIs

LEMMA NextEntryStep ==
  ASSUME IInv, NextEntry
  PROVE  IInv'
<1>1. /\ UNCHANGED <<image, running, request, reply, handle, dir>>
      /\ walk.status = "walking" /\ walk' = Step(disk, walk)
  BY DEF NextEntry
<1>2. Walked(disk, KeyOf(disk, request.inode), HeaderOf(request.inode), walk')
  BY <1>1, OnWalk, StepWalks
<1>3. WalkingIs(disk, request, walk', reply)
  BY <1>1, <1>2, OnWalk DEF WalkingIs
<1> QED BY <1>1, <1>3, WalkSteps

(* An answer at the end of a walk.                                         *)
LEMMA EndOfWalk ==
  ASSUME IInv, walk.status # "none", NEW a, Answer(a), image' = image, handle' = handle,
         dir' = dir, Fine(disk, request, handle, a)
  PROVE  IInv'
<1>1. request.op # "none" /\ reply = None
  BY OnWalk
<1> QED BY <1>1, PlainAnswer

LEMMA WalkThrowsStep ==
  ASSUME IInv, WalkThrows
  PROVE  IInv'
<1>1. walk.status = "throws" /\ Answer(Dead) /\ image' = image /\ handle' = handle /\ dir' = dir
  BY DEF WalkThrows
<1>2. PointsPast(disk)
  BY <1>1, OnWalk DEF Walked
<1>3. Fine(disk, request, handle, Dead)
  BY <1>2, FailureFine
<1> QED BY <1>1, <1>3, EndOfWalk

LEMMA LookupEndsStep ==
  ASSUME IInv, LookupEnds
  PROVE  IInv'
<1>1. /\ request.op = "lookup" /\ walk.status \in {"ok", "error"}
      /\ image' = image /\ handle' = handle /\ dir' = dir
      /\ Answer(IF walk.status = "ok" THEN Found(disk, walk.files, request.name) ELSE Error("EIO"))
  BY DEF LookupEnds, Asked
<1>2. CASE walk.status = "ok"
  <2>1. PICK key : key = KeyOf(disk, request.inode)
    OBVIOUS
  <2>2. /\ Listing(disk, key, HeaderOf(request.inode), walk.files)
        /\ HasHeader(disk, key, HeaderOf(request.inode))
    BY <1>2, <2>1, OnWalk, WalkLists
  <2>3. Fine(disk, request, handle, Found(disk, walk.files, request.name))
    BY <1>1, <1>2, <2>1, <2>2, OnWalk, FoundFine
  <2>4. Answer(Found(disk, walk.files, request.name))
    BY <1>1, <1>2
  <2> QED BY <1>1, <1>2, <2>3, <2>4, EndOfWalk
<1>3. CASE walk.status = "error"
  <2>1. Answer(Error("EIO"))
    BY <1>1, <1>3
  <2>2. Fine(disk, request, handle, Error("EIO"))
    BY FailureFine
  <2> QED BY <1>1, <1>3, <2>1, <2>2, EndOfWalk
<1> QED BY <1>1, <1>2, <1>3

LEMMA OpendirEndsStep ==
  ASSUME IInv, OpendirEnds
  PROVE  IInv'
<1>1. PICK a : a = [op |-> "opened"]
  OBVIOUS
<1>2. PICK r : r = [open |-> TRUE, inode |-> request.inode, files |-> walk.files,
                    offset |-> 0, seen |-> <<>>, done |-> FALSE]
  OBVIOUS
<1>3. /\ request.op = "opendir" /\ reply = None /\ walk.status \in {"ok", "error"} /\ Answer(a)
      /\ image' = image /\ handle' = handle /\ dir' = r
  BY <1>1, <1>2 DEF OpendirEnds, Asked
<1>4. Listing(disk, KeyOf(disk, request.inode), HeaderOf(request.inode), walk.files)
  BY <1>3, OnWalk, WalkLists
<1>5. /\ r.inode = request.inode /\ r.files = walk.files /\ r.offset = 0 /\ r.seen = <<>>
      /\ r.done = FALSE
  BY <1>2
<1>6. /\ r = [open |-> TRUE, inode |-> r.inode, files |-> r.files, offset |-> r.offset,
              seen |-> r.seen, done |-> r.done]
  BY ONLY <1>2, <1>5
<1>7. r.offset \in 0..Len(r.files) /\ r.seen = SubSeq(r.files, 1, r.offset)
  <2>1. walk.files \in Seq(Inodes(disk))
    BY <1>4 DEF Listing
  <2>2. Len(walk.files) \in Nat /\ SubSeq(walk.files, 1, 0) = <<>>
    BY ONLY <2>1
  <2> QED BY ONLY <1>5, <2>2
<1>8. OpenDirIs(disk, dir')
  BY ONLY <1>3, <1>4, <1>5, <1>6, <1>7 DEF OpenDirIs
<1>9. AskedIs(disk, request, handle, dir, None) /\ OpenIs(disk, handle)
  BY <1>3 DEF IInv
<1>10. AskedIs(disk, request, handle', dir', a)
  BY <1>3, <1>9, ErrorsAre DEF AskedIs
<1>11. Fine(disk, request, handle', a)
  <2>1. a.op = "opened" /\ a # Error("ENOENT")
    BY <1>1, ErrorsAre
  <2> QED BY <2>1, PlainFine
<1> QED BY <1>3, <1>8, <1>9, <1>10, <1>11, AnswerSteps

(* One reading of a directory after another.                               *)
LEMMA TwoPieces ==
  ASSUME NEW S, NEW s \in Seq(S), NEW m \in 0..Len(s), NEW n \in m..Len(s)
  PROVE  SubSeq(s, 1, m) \o SubSeq(s, m + 1, n) = SubSeq(s, 1, n)
<1>1. PICK a : a = SubSeq(s, 1, m)
  OBVIOUS
<1>2. PICK b : b = SubSeq(s, m + 1, n)
  OBVIOUS
<1>3. PICK c : c = SubSeq(s, 1, n)
  OBVIOUS
<1>4. Len(s) \in Nat
  OBVIOUS
<1>5. 1 \in 1..Len(s) + 1 /\ m + 1 \in 1..Len(s) + 1
      /\ m \in 1 - 1 .. Len(s) /\ n \in 1 - 1 .. Len(s) /\ n \in (m + 1) - 1 .. Len(s)
  BY <1>4
<1>6. a \in Seq(S) /\ Len(a) = m /\ \A i \in 1..m : a[i] = s[i]
  <2>1. /\ a \in Seq(S) /\ Len(a) = m - 1 + 1
        /\ \A i \in 1..m - 1 + 1 : a[i] = s[1 + i - 1]
    BY ONLY s \in Seq(S), <1>1, <1>5, SubSeqFacts
  <2>2. m - 1 + 1 = m /\ \A i \in 1..m : 1 + i - 1 = i
    BY <1>4
  <2> QED BY ONLY <2>1, <2>2
<1>7. c \in Seq(S) /\ Len(c) = n /\ \A i \in 1..n : c[i] = s[i]
  <2>1. /\ c \in Seq(S) /\ Len(c) = n - 1 + 1
        /\ \A i \in 1..n - 1 + 1 : c[i] = s[1 + i - 1]
    BY ONLY s \in Seq(S), <1>3, <1>5, SubSeqFacts
  <2>2. n - 1 + 1 = n /\ \A i \in 1..n : 1 + i - 1 = i
    BY <1>4
  <2> QED BY ONLY <2>1, <2>2
<1>8. b \in Seq(S) /\ Len(b) = n - m /\ \A i \in 1..n - m : b[i] = s[m + i]
  <2>1. /\ b \in Seq(S) /\ Len(b) = n - (m + 1) + 1
        /\ \A i \in 1..n - (m + 1) + 1 : b[i] = s[(m + 1) + i - 1]
    BY ONLY s \in Seq(S), <1>2, <1>5, SubSeqFacts
  <2>2. n - (m + 1) + 1 = n - m /\ \A i \in 1..n - m : (m + 1) + i - 1 = m + i
    BY <1>4
  <2> QED BY ONLY <2>1, <2>2
<1>9. PICK u : u = a \o b
  OBVIOUS
<1>10. u \in Seq(S) /\ Len(u) = n
  <2>1. u \in Seq(S) /\ Len(u) = Len(a) + Len(b)
    <3>1. a \in Seq(S) /\ b \in Seq(S)
      BY <1>6, <1>8
    <3> QED BY ONLY <1>9, <3>1, ConcatProperties
  <2>2. m + (n - m) = n
    BY <1>4
  <2> QED BY ONLY <1>6, <1>8, <2>1, <2>2
<1>11. ASSUME NEW i \in 1..n PROVE u[i] = c[i]
  <2>1. CASE i <= m
    <3>1. i \in 1..m
      BY <1>4, <2>1
    <3>2. u[i] = a[i]
      BY ONLY <1>6, <1>8, <1>9, <3>1
    <3> QED BY <1>6, <1>7, <3>1, <3>2
  <2>2. CASE ~(i <= m)
    <3>1. i - m \in 1..n - m /\ m + (i - m) = i /\ i \in m + 1 .. n
      BY <1>4, <2>2
    <3>2. u[i] = b[i - m]
      BY ONLY <1>4, <1>6, <1>8, <1>9, <3>1, m \in 0..Len(s), n \in m..Len(s)
    <3>3. b[i - m] = s[i] /\ c[i] = s[i]
      BY <1>7, <1>8, <3>1
    <3> QED BY <3>2, <3>3
  <2> QED BY <2>1, <2>2
<1>12. u = c
  BY ONLY <1>7, <1>10, <1>11, EqualSeqs
<1> QED BY <1>1, <1>2, <1>3, <1>9, <1>12

(* The entries of one reading, none only at the end.                       *)
Portion(files, offset, names) ==
  \E m \in offset..Len(files) :
    /\ names = SubSeq(files, offset + 1, m) /\ Len(names) = m - offset
    /\ names = <<>> => offset = Len(files) /\ m = offset

LEMMA FittingIs ==
  ASSUME NEW S, NEW files \in Seq(S), NEW offset \in 0..Len(files), NEW size \in Sizes \ {0},
         NEW names, names = Fitting(files, offset, size)
  PROVE  Portion(files, offset, names)
<1>1. PICK k : k = (size - 1) \div EntrySize
  OBVIOUS
<1>2. size \in Nat /\ size > EntrySize /\ EntrySize \in Nat \ {0}
  BY FuseProDOSAssumption
<1>3. k \in Nat /\ k # 0
  <2>1. size - 1 \in Nat /\ size - 1 >= EntrySize
    BY ONLY <1>2
  <2>2. PICK x : x = size - 1
    OBVIOUS
  <2>3. /\ x \div EntrySize \in Nat /\ x % EntrySize \in 0..EntrySize-1
        /\ (x \div EntrySize) * EntrySize \in Nat
        /\ x = (x \div EntrySize) * EntrySize + (x % EntrySize)
    BY ONLY <1>2, <2>1, <2>2, Divided
  <2>4. k = 0 => (x \div EntrySize) * EntrySize = 0
    BY ONLY <1>1, <1>2, <2>2
  <2> QED BY ONLY <1>1, <1>2, <2>1, <2>2, <2>3, <2>4
<1>4. PICK m : m = Smaller(Len(files), offset + k)
  OBVIOUS
<1>5. Len(files) \in Nat
  OBVIOUS
<1>6. m \in offset..Len(files) /\ (m = offset => offset = Len(files))
  BY ONLY <1>3, <1>4, <1>5, offset \in 0..Len(files) DEF Smaller
<1>7. names = SubSeq(files, offset + 1, m)
  BY <1>1, <1>4 DEF Fitting
<1>8. Len(names) = m - offset
  <2>1. offset + 1 \in 1..Len(files) + 1 /\ m \in (offset + 1) - 1 .. Len(files)
    BY ONLY <1>5, <1>6, offset \in 0..Len(files)
  <2>2. Len(names) = m - (offset + 1) + 1
    BY ONLY <1>7, <2>1, files \in Seq(S), SubSeqFacts
  <2> QED BY ONLY <1>5, <1>6, <2>2, offset \in 0..Len(files)
<1>9. names = <<>> => m = offset
  <2>1. Len(<<>>) = 0
    OBVIOUS
  <2> QED BY ONLY <1>5, <1>6, <1>8, <2>1, offset \in 0..Len(files)
<1> QED BY <1>6, <1>7, <1>8, <1>9 DEF Portion

LEMMA ReaddirStep ==
  ASSUME IInv, Readdir
  PROVE  IInv'
<1>1. PICK names : names = Fitting(dir.files, request.offset, request.size)
  OBVIOUS
<1>2. PICK a : a = [op |-> "entries", names |-> names]
  OBVIOUS
<1>3. /\ request.op = "readdir" /\ reply = None /\ Answer(a) /\ image' = image /\ handle' = handle
      /\ dir' = [dir EXCEPT !.seen = @ \o names, !.offset = @ + Len(names), !.done = (names = <<>>)]
  BY <1>1, <1>2 DEF Readdir, Asked
<1>4. AskedIs(disk, request, handle, dir, None) /\ OpenIs(disk, handle) /\ OpenDirIs(disk, dir)
  BY <1>3 DEF IInv
<1>5. dir.open /\ request.size \in Sizes \ {0} /\ request.offset = dir.offset
  BY <1>3, <1>4 DEF AskedIs
<1>6. /\ dir = [open |-> TRUE, inode |-> dir.inode, files |-> dir.files, offset |-> dir.offset,
                seen |-> dir.seen, done |-> dir.done]
      /\ Listing(disk, KeyOf(disk, dir.inode), HeaderOf(dir.inode), dir.files)
      /\ dir.offset \in 0..Len(dir.files) /\ dir.seen = SubSeq(dir.files, 1, dir.offset)
  BY <1>4, <1>5 DEF OpenDirIs
<1>7. PICK files, offset : files = dir.files /\ offset = dir.offset
  OBVIOUS
<1>8. files \in Seq(Inodes(disk))
  BY <1>6, <1>7 DEF Listing
<1> PICK size : size = request.size
  OBVIOUS
<1>9. /\ names = Fitting(files, offset, size) /\ offset \in 0..Len(files)
      /\ size \in Sizes \ {0}
  BY <1>1, <1>5, <1>6, <1>7
<1>10. PICK m \in offset..Len(files) :
         /\ names = SubSeq(files, offset + 1, m) /\ Len(names) = m - offset
         /\ names = <<>> => offset = Len(files) /\ m = offset
  <2>1. Portion(files, offset, names)
    BY ONLY <1>8, <1>9, FittingIs
  <2> QED BY <2>1 DEF Portion
<1>11. Len(files) \in Nat
  BY <1>8
<1>12. dir.offset + Len(names) = m
  BY ONLY <1>7, <1>9, <1>10, <1>11
<1>13. dir.seen \o names = SubSeq(files, 1, m)
  <2>1. SubSeq(files, 1, offset) \o SubSeq(files, offset + 1, m) = SubSeq(files, 1, m)
    BY ONLY <1>8, <1>9, <1>10, TwoPieces
  <2> QED BY <1>6, <1>7, <1>10, <2>1
<1>14. PICK r : r = [open |-> TRUE, inode |-> dir.inode, files |-> files, offset |-> m,
                     seen |-> SubSeq(files, 1, m), done |-> (names = <<>>)]
  OBVIOUS
<1>15. dir' = r
  <2>1. PICK seen, done : seen = dir.seen \o names /\ done = (names = <<>>)
    OBVIOUS
  <2>2. dir' = [dir EXCEPT !.seen = seen, !.offset = m, !.done = done]
    BY <1>3, <1>12, <2>1
  <2>3. PICK i, f, o, s, t : /\ i = dir.inode /\ f = dir.files /\ o = dir.offset /\ s = dir.seen
                             /\ t = dir.done
    OBVIOUS
  <2>4. dir = [open |-> TRUE, inode |-> i, files |-> f, offset |-> o, seen |-> s, done |-> t]
    BY ONLY <1>6, <2>3
  <2>5. dir' = [[open |-> TRUE, inode |-> i, files |-> f, offset |-> o, seen |-> s, done |-> t]
                 EXCEPT !.seen = seen, !.offset = m, !.done = done]
    BY ONLY <2>2, <2>4
  <2>6. dir' = [open |-> TRUE, inode |-> i, files |-> f, offset |-> m, seen |-> seen, done |-> done]
    BY ONLY <2>5
  <2> QED BY ONLY <1>7, <1>13, <1>14, <2>1, <2>3, <2>6
<1>16. /\ r.open /\ r.inode = dir.inode /\ r.files = files /\ r.offset = m
       /\ r.seen = SubSeq(files, 1, m) /\ r.done = (names = <<>>)
  BY ONLY <1>14
<1>17. r = [open |-> TRUE, inode |-> r.inode, files |-> r.files, offset |-> r.offset,
            seen |-> r.seen, done |-> r.done]
  BY ONLY <1>14, <1>16
<1>18. m \in 0..Len(files) /\ (names = <<>> => m = Len(files))
  BY ONLY <1>9, <1>10, <1>11
<1>19. Listing(disk, KeyOf(disk, r.inode), HeaderOf(r.inode), r.files)
  BY <1>6, <1>7, <1>16
<1>20. OpenDirIs(disk, dir')
  BY ONLY <1>15, <1>16, <1>17, <1>18, <1>19 DEF OpenDirIs
<1>21. a.op = "entries" /\ a # None /\ a # Error("ENOENT")
  BY <1>2, ErrorsAre
<1>22. AskedIs(disk, request, handle', dir', a)
  BY <1>3, <1>4, <1>15, <1>16, <1>21, ErrorsAre DEF AskedIs
<1>23. Fine(disk, request, handle', a)
  BY <1>21, PlainFine
<1>24. OpenIs(disk, handle')
  BY <1>3, <1>4
<1> QED BY <1>3, <1>20, <1>22, <1>23, <1>24, AnswerSteps

LEMMA ReleasedirStep ==
  ASSUME IInv, Releasedir
  PROVE  IInv'
<1>1. PICK a : a = [op |-> "ok"]
  OBVIOUS
<1>2. /\ request.op = "releasedir" /\ reply = None /\ Answer(a) /\ image' = image
      /\ handle' = handle /\ dir' = NoDir
  BY <1>1 DEF Releasedir, Asked
<1>3. AskedIs(disk, request, handle, dir, None) /\ OpenIs(disk, handle)
  BY <1>2 DEF IInv
<1>4. AskedIs(disk, request, handle', dir', a)
  BY <1>2, <1>3, ErrorsAre DEF AskedIs
<1>5. Fine(disk, request, handle', a)
  <2>1. a.op = "ok" /\ a # Error("ENOENT")
    BY <1>1, ErrorsAre
  <2> QED BY <2>1, PlainFine
<1>6. OpenIs(disk, handle') /\ OpenDirIs(disk, dir')
  BY <1>2, <1>3, AllClosed
<1> QED BY <1>2, <1>4, <1>5, <1>6, AnswerSteps

LEMMA DeviceThrowsStep ==
  ASSUME IInv, DeviceThrows
  PROVE  IInv'
<1>1. /\ image' = image /\ handle' = handle /\ dir' = dir /\ Answer(Dead) /\ image \in RawImages
      /\ reply = None
  BY DEF DeviceThrows, Reads, Asked
<1>2. request # None
  BY ErrorsAre DEF DeviceThrows, Reads, Asked
<1>3. /\ AskedIs(disk, request, handle, dir, None)
      /\ OpenIs(disk, handle) /\ OpenDirIs(disk, dir)
  BY <1>1 DEF IInv
<1>4. AskedIs(disk, request, handle, dir, Dead)
  BY <1>2, <1>3, AskedStays
<1>5. Dead.op = "dead" /\ Dead # Error("ENOENT")
  BY ErrorsAre
<1>6. Flat(disk, request, handle, Dead)
  BY <1>5 DEF Flat
<1>7. Agree(disk, request, Dead)
  BY <1>5 DEF Agree
<1>8. /\ OpenIs(disk, handle') /\ OpenDirIs(disk, dir') /\ AskedIs(disk, request, handle', dir', Dead)
      /\ Right(disk, request, handle', Dead) /\ MayDie(image)
  BY <1>1, <1>3, <1>4, <1>6, <1>7 DEF Right, MayDie
<1> QED BY ONLY IInv, <1>1, <1>8, AnySteps

LEMMA Steps ==
  ASSUME IInv, [Next]_vars
  PROVE  IInv'
<1>1. CASE Serves
  BY <1>1, AboutStep, OpenStep, ReleaseStep, ReadFileStep, RefusedWalkStep, EnterDirectoryStep,
     NextEntryStep, WalkThrowsStep, LookupEndsStep, OpendirEndsStep, ReaddirStep, ReleasedirStep,
     DeviceThrowsStep DEF Serves
<1>2. CASE UNCHANGED vars
  <2>1. /\ image' = image /\ running' = running /\ request' = request /\ walk' = walk
        /\ reply' = reply /\ handle' = handle /\ dir' = dir
    BY <1>2 DEF vars
  <2>2. disk' = disk
    BY <2>1 DEF disk
  <2> QED BY <2>1, <2>2 DEF IInv
<1>3. CASE \E h \in Handles : AskFile(h)
  BY <1>3, AskFileStep
<1> QED BY <1>1, <1>2, <1>3, AskAboutStep, AskDirectoryStep, TakenStep, UnmountStep DEF Next

LEMMA Invariant == Spec => []IInv
BY Starts, Steps, PTL DEF Spec

-----------------------------------------------------------------------------
(* Theorems.                                                               *)

(* TypeOK: a walk of any directory of any disk visits no block twice, so   *)
(* that it ends; the mount dies only of a device that fails or a pointer   *)
(* to the block after the last.                                            *)
THEOREM TypesAreRight == Spec => []TypeOK
<1>1. ASSUME IInv PROVE TypeOK
  <2>1. walk # NoWalk =>
          /\ walk.status \in {"walking", "ok", "error", "throws"}
          /\ walk.status = "walking" =>
               walk.index \in 0..walk.perBlock-1 /\ walk.visited \subseteq 0..disk.blocks-1
          /\ Len(walk.files) <= walk.perBlock * Cardinality(walk.visited)
    <3> SUFFICES ASSUME walk # NoWalk
                 PROVE  /\ walk.status \in {"walking", "ok", "error", "throws"}
                        /\ walk.status = "walking" =>
                             /\ walk.index \in 0..walk.perBlock-1
                             /\ walk.visited \subseteq 0..disk.blocks-1
                        /\ Len(walk.files) <= walk.perBlock * Cardinality(walk.visited)
      OBVIOUS
    <3>1. walk.status # "none"
      BY <1>1 DEF IInv, WalkingIs, Walked, Walks
    <3> QED BY <1>1, <3>1, OnWalk, WalkIs
  <2>2. \A h \in Handles : handle[h].open => handle[h].entry.storage \in FileTypes
    BY <1>1 DEF IInv, OpenIs, Kept
  <2>3. dir.open => dir.offset \in 0..Len(dir.files)
    BY <1>1 DEF IInv, OpenDirIs
  <2>4. image \in DOMAIN Disks /\ running \in BOOLEAN /\ (~running => MayDie(image))
    BY <1>1 DEF IInv
  <2> QED BY ONLY <2>1, <2>2, <2>3, <2>4 DEF TypeOK, MayDie, PointsPast, disk
<1> QED BY <1>1, Invariant, PTL

(* ListingRight: what an open directory holds, and what a reader of it has *)
(* had at the end, of any disk, damaged or not, and with any sizes of      *)
(* buffers.                                                                *)
THEOREM ListingsAreRight == Spec => []ListingRight
<1>1. ASSUME IInv PROVE ListingRight
  <2> SUFFICES ASSUME dir.open
               PROVE  /\ ToSet(dir.files) =
                           IF HasHeader(disk, KeyOf(disk, dir.inode), HeaderOf(dir.inode))
                             THEN ActiveEntries(disk, KeyOf(disk, dir.inode)) ELSE {}
                      /\ \A i, j \in DOMAIN dir.files : i < j =>
                           Before(disk, KeyOf(disk, dir.inode), dir.files[i], dir.files[j])
                      /\ dir.done => dir.seen = dir.files
    BY DEF ListingRight
  <2>1. /\ Listing(disk, KeyOf(disk, dir.inode), HeaderOf(dir.inode), dir.files)
        /\ dir.offset \in 0..Len(dir.files) /\ dir.seen = SubSeq(dir.files, 1, dir.offset)
        /\ dir.done => dir.offset = Len(dir.files)
    BY <1>1 DEF IInv, OpenDirIs
  <2>2. dir.files \in Seq(Inodes(disk))
    BY <2>1 DEF Listing
  <2>3. SubSeq(dir.files, 1, Len(dir.files)) = dir.files
    BY ONLY <2>2
  <2> QED BY <2>1, <2>3 DEF Listing
<1> QED BY <1>1, Invariant, PTL

(* ReadsFlat: a read of any file of any disk, at any offset and of any     *)
(* size, returns the bytes its pointers lead to.                           *)
THEOREM ReadsAreFlat == Spec => []ReadsFlat
<1>1. ASSUME IInv PROVE ReadsFlat
  BY <1>1 DEF IInv, Right, Flat, ReadsFlat
<1> QED BY <1>1, Invariant, PTL

(* AttributesAgree: what the kernel is told of a file fits together.       *)
THEOREM AnswersAgree == Spec => []AttributesAgree
<1>1. ASSUME IInv PROVE AttributesAgree
  BY <1>1 DEF IInv, Right, Agree, AttributesAgree
<1> QED BY <1>1, Invariant, PTL
=============================================================================
