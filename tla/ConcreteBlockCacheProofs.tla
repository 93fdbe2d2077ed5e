----------------------- MODULE ConcreteBlockCacheProofs -----------------------
(***************************************************************************)
(* What holds of the buffer pool for any number of blocks, values, frames  *)
(* and buffers, whatever the device fails to do, as long as nobody asks    *)
(* for block 0 and nobody goes on after a failed write-back; and that it   *)
(* then implements BlockStore: each action is one operation of the store,  *)
(* or changes nothing it shows.                                            *)
(***************************************************************************)
EXTENDS ConcreteBlockCache, FiniteSetTheorems, SequenceTheorems, WellFoundedInduction, TLAPS

-----------------------------------------------------------------------------
(* The inductive invariant.                                                *)

Pointers == Buffers \cup {0}

Lists == [first : Pointers, last : Pointers,
          next : [Buffers -> Pointers], prev : [Buffers -> Pointers]]

(* Link by link, l is a double-linked list over buffers of F: only the     *)
(* ends lack a link, each link has its counterpart, and some rank grows    *)
(* along next, so that no links form a ring apart from the list.           *)
Ends(l, F) ==
  /\ (l.first = 0) <=> (l.last = 0)
  /\ l.first # 0 => l.first \in F /\ l.prev[l.first] = 0
  /\ l.last # 0 => l.last \in F /\ l.next[l.last] = 0
  /\ \A e \in F : l.prev[e] = 0 => e = l.first
  /\ \A e \in F : l.next[e] = 0 => e = l.last

NextLinks(l, F) ==
  \A e \in Buffers : l.next[e] # 0 =>
    e \in F /\ l.next[e] \in F /\ l.prev[l.next[e]] = e

PrevLinks(l, F) ==
  \A e \in Buffers : l.prev[e] # 0 =>
    e \in F /\ l.prev[e] \in F /\ l.next[l.prev[e]] = e

Ranks(r, l) ==
  /\ r \in [Buffers -> Nat]
  /\ \A e \in Buffers : l.next[e] # 0 => r[e] < r[l.next[e]]

ListOver(l, F) ==
  /\ l \in Lists
  /\ Ends(l, F) /\ NextLinks(l, F) /\ PrevLinks(l, F)
  /\ \E r : Ranks(r, l)

LEMMA PointerFacts == 0 \notin Buffers /\ Pointers = 0..MaxBuffers
BY CacheAssumption DEF Buffers, Pointers

LEMMA ListFields ==
  ASSUME NEW l \in Lists
  PROVE  /\ l.first \in Pointers /\ l.last \in Pointers
         /\ l.next \in [Buffers -> Pointers]
         /\ l.prev \in [Buffers -> Pointers]
         /\ \A e \in Buffers : l.next[e] \in Pointers /\ l.prev[e] \in Pointers
         /\ l = [first |-> l.first, last |-> l.last, next |-> l.next, prev |-> l.prev]
BY DEF Lists

LEMMA SetLastLists ==
  ASSUME NEW F \in SUBSET Buffers, NEW l, ListOver(l, F),
         NEW e \in Buffers, e \notin F
  PROVE  ListOver(SetLast(l, e), F \cup {e})
<1> DEFINE m == SetLast(l, e)
           G == F \cup {e}
<1> USE PointerFacts DEF NULL
<1>1. l \in Lists
  BY DEF ListOver
<1>2. l.next[e] = 0 /\ l.prev[e] = 0
  BY DEF ListOver, NextLinks, PrevLinks
<1>3. CASE l.last = 0
  <2>1. m = [first |-> e, last |-> e, next |-> l.next, prev |-> l.prev]
    BY <1>1, <1>3 DEF SetLast, Lists
  <2> HIDE DEF m
  <2>2. m.first = e /\ m.last = e /\ m.next = l.next /\ m.prev = l.prev
    BY <2>1
  <2>3. m \in Lists
    BY <1>1, <2>1, ListFields DEF Lists, Pointers
  <2>4. \E r : Ranks(r, m)
    BY <2>2 DEF ListOver, Ranks
  <2>5. ListOver(m, G)
    BY <1>2, <1>3, <2>2, <2>3, <2>4 DEF ListOver, Ends, NextLinks, PrevLinks
  <2> QED BY <2>5 DEF m
<1>4. CASE l.last # 0
  <2>1. m = [first |-> l.first, last |-> e,
             next |-> [l.next EXCEPT ![l.last] = e],
             prev |-> [l.prev EXCEPT ![e] = l.last]]
    BY <1>1, <1>4 DEF SetLast, Lists
  <2> HIDE DEF m
  <2>2. /\ m.first = l.first /\ m.last = e
        /\ m.next = [l.next EXCEPT ![l.last] = e]
        /\ m.prev = [l.prev EXCEPT ![e] = l.last]
    BY <2>1
  <2>3. l.last \in F /\ l.last # e
    BY <1>4 DEF ListOver, Ends
  <2>4. m \in Lists
    BY <1>1, <2>1, <2>3, ListFields DEF Lists, Pointers
  <2>5. \A x \in Buffers : m.next[x] = IF x = l.last THEN e ELSE l.next[x]
    BY <1>1, <2>2, ListFields
  <2>6. \A x \in Buffers : m.prev[x] = IF x = e THEN l.last ELSE l.prev[x]
    BY <1>1, <2>2, ListFields
  <2>7. Ends(m, G)
    BY <1>2, <1>4, <2>2, <2>3, <2>5, <2>6 DEF ListOver, Ends
  <2>8. NextLinks(m, G)
    BY <1>2, <1>4, <2>3, <2>5, <2>6 DEF ListOver, Ends, NextLinks
  <2>9. PrevLinks(m, G)
    BY <1>2, <1>4, <2>3, <2>5, <2>6 DEF ListOver, Ends, PrevLinks
  <2>10. \E r : Ranks(r, m)
    <3>1. PICK r : Ranks(r, l)
      BY DEF ListOver
    <3>2. Ranks([r EXCEPT ![e] = r[l.last] + 1], m)
      <4> DEFINE q == [r EXCEPT ![e] = r[l.last] + 1]
      <4>1. r \in [Buffers -> Nat] /\ l.last \in Buffers
        BY <2>3, <3>1 DEF Ranks
      <4>2. q \in [Buffers -> Nat] /\ \A x \in Buffers : q[x] = IF x = e THEN r[l.last] + 1 ELSE r[x]
        BY <4>1
      <4>3. \A x \in Buffers : l.next[x] # 0 => l.next[x] # e /\ r[x] < r[l.next[x]] /\ x # e /\ l.next[x] \in Buffers
        BY <1>2, <3>1 DEF ListOver, NextLinks, Ranks
      <4> HIDE DEF q
      <4>4. ASSUME NEW x \in Buffers, m.next[x] # 0
            PROVE  q[x] < q[m.next[x]]
        <5>1. CASE x = l.last
          BY <2>3, <2>5, <4>1, <4>2, <5>1
        <5>2. CASE x # l.last
          BY <2>5, <4>2, <4>3, <4>4, <5>2
        <5> QED BY <5>1, <5>2
      <4> QED BY <4>2, <4>4 DEF Ranks, q
    <3> QED BY <3>2
  <2> QED BY <2>4, <2>7, <2>8, <2>9, <2>10 DEF m, ListOver
<1> QED BY <1>3, <1>4

LEMMA UnlinkDelists ==
  ASSUME NEW F \in SUBSET Buffers, NEW l, ListOver(l, F), NEW e \in F
  PROVE  ListOver(Unlink(l, e), F \ {e})
<1> DEFINE m == Unlink(l, e)
           G == F \ {e}
           p == l.prev[e]
           n == l.next[e]
<1> USE PointerFacts DEF NULL
<1>1. l \in Lists /\ p \in Pointers /\ n \in Pointers
  BY ListFields DEF ListOver
<1>2. m = [first |-> IF l.first = e THEN n ELSE l.first,
           last  |-> IF l.last = e THEN p ELSE l.last,
           next  |-> [x \in Buffers |-> IF x = p THEN n
                                        ELSE IF x = e THEN 0 ELSE l.next[x]],
           prev  |-> [x \in Buffers |-> IF x = n THEN p
                                        ELSE IF x = e THEN 0 ELSE l.prev[x]]]
  BY DEF Unlink
<1> HIDE DEF m, p, n
<1>3. /\ m.first = IF l.first = e THEN n ELSE l.first
      /\ m.last = IF l.last = e THEN p ELSE l.last
  BY <1>2
<1>4. \A x \in Buffers : m.next[x] = IF x = p THEN n ELSE IF x = e THEN 0 ELSE l.next[x]
  BY <1>2
<1>5. \A x \in Buffers : m.prev[x] = IF x = n THEN p ELSE IF x = e THEN 0 ELSE l.prev[x]
  BY <1>2
<1>6. m \in Lists
  BY <1>1, <1>2, ListFields DEF Lists, Pointers
<1>7. PICK r : Ranks(r, l)
  BY DEF ListOver
<1>8. /\ p # 0 => p \in G /\ l.next[p] = e /\ r[p] < r[e]
      /\ n # 0 => n \in G /\ l.prev[n] = e /\ r[e] < r[n]
      /\ p \in Buffers \/ p = 0
      /\ n \in Buffers \/ n = 0
  BY <1>1, <1>7 DEF ListOver, NextLinks, PrevLinks, Ranks, p, n
<1>9. Ends(m, G)
  BY <1>3, <1>4, <1>5, <1>8 DEF ListOver, Ends, NextLinks, PrevLinks, p, n
<1>10. NextLinks(m, G)
  BY <1>4, <1>5, <1>8 DEF ListOver, NextLinks, PrevLinks, p, n
<1>11. PrevLinks(m, G)
  BY <1>4, <1>5, <1>8 DEF ListOver, NextLinks, PrevLinks, p, n
<1>12. Ranks(r, m)
  BY <1>4, <1>7, <1>8 DEF Ranks
<1> QED BY <1>6, <1>9, <1>10, <1>11, <1>12 DEF m, ListOver

LEMMA ClearLinksValue ==
  ASSUME NEW l \in Lists, NEW e \in Buffers
  PROVE  ClearLinks(l, e) =
           [first |-> l.first, last |-> l.last,
            next |-> [l.next EXCEPT ![e] = 0], prev |-> [l.prev EXCEPT ![e] = 0]]
<1> DEFINE b == [l EXCEPT !.next[e] = 0]
           c == [b EXCEPT !.prev[e] = 0]
<1>1. b = [first |-> l.first, last |-> l.last,
           next |-> [l.next EXCEPT ![e] = 0], prev |-> l.prev]
  BY DEF Lists
<1>2. b \in Lists
  BY <1>1, ListFields DEF Lists, Pointers
<1> HIDE DEF b
<1>3. c = [first |-> b.first, last |-> b.last,
           next |-> b.next, prev |-> [b.prev EXCEPT ![e] = 0]]
  BY <1>2 DEF Lists
<1>4. c = ClearLinks(l, e)
  BY DEF b, ClearLinks, NULL
<1> QED BY <1>1, <1>3, <1>4

(* Taking the first buffer and clearing its links takes it off the list.   *)
LEMMA ClearedFirst ==
  ASSUME NEW F \in SUBSET Buffers, NEW l, ListOver(l, F), l.first # 0
  PROVE  /\ ListOver(ClearLinks(PopFirst(l), l.first), F \ {l.first})
         /\ ClearLinks(PopFirst(l), l.first) = Unlink(l, l.first)
<1> DEFINE e == l.first
           n == l.next[e]
           k == PopFirst(l)
           m == ClearLinks(k, e)
<1> USE PointerFacts DEF NULL
<1>1. l \in Lists /\ e \in F /\ l.prev[e] = 0
  BY DEF ListOver, Ends
<1>2. /\ n # 0 => n \in Buffers /\ n # e /\ l.last # e
      /\ n = 0 => l.last = e
  BY <1>1 DEF ListOver, Ends, NextLinks
<1>3. k = [first |-> n, last |-> IF n = 0 THEN 0 ELSE l.last, next |-> l.next,
           prev |-> IF n = 0 THEN l.prev ELSE [l.prev EXCEPT ![n] = 0]]
  BY <1>1, <1>2 DEF PopFirst, Lists
<1> HIDE DEF k
<1>4. /\ k.first = n /\ k.last = (IF n = 0 THEN 0 ELSE l.last)
      /\ k.next = l.next
      /\ k.prev = (IF n = 0 THEN l.prev ELSE [l.prev EXCEPT ![n] = 0])
  BY <1>3
<1>5. m = [first |-> n, last |-> IF n = 0 THEN 0 ELSE l.last,
           next |-> [k.next EXCEPT ![e] = 0],
           prev |-> [k.prev EXCEPT ![e] = 0]]
  <2>1. k \in Lists
    BY <1>1, <1>2, <1>3, ListFields DEF Lists, Pointers
  <2> QED BY <1>1, <1>4, <2>1, ClearLinksValue
<1>6. [k.next EXCEPT ![e] = 0] =
        [x \in Buffers |-> IF x = 0 THEN n ELSE IF x = e THEN 0 ELSE l.next[x]]
  <2>1. l.next \in [Buffers -> Pointers]
    BY <1>1, ListFields
  <2> QED BY <1>4, <2>1
<1>7. [k.prev EXCEPT ![e] = 0] =
        [x \in Buffers |-> IF x = n THEN 0 ELSE IF x = e THEN 0 ELSE l.prev[x]]
  BY <1>1, <1>2, <1>4, ListFields
<1>8. m = Unlink(l, e)
  BY <1>1, <1>2, <1>5, <1>6, <1>7 DEF Unlink
<1> QED BY <1>1, <1>8, UnlinkDelists DEF k

-----------------------------------------------------------------------------
(* The hash table.                                                         *)

Chains == 0..(HashTableSize - 1)

(* Every buffer of h stands in the chain of the block it caches, and no    *)
(* chain has two buffers for one block.                                    *)
WellHashed(h, en) ==
  /\ h \in [Chains -> Seq(Buffers)]
  /\ \A c \in Chains : \A i \in 1..Len(h[c]) :
       en[h[c][i]].block \in Blocks /\ hashFunction(en[h[c][i]].block) = c
  /\ \A c \in Chains : \A i, j \in 1..Len(h[c]) :
       en[h[c][i]].block = en[h[c][j]].block => i = j

Hashed(h) == {e \in Buffers : \E c \in Chains : \E i \in 1..Len(h[c]) : h[c][i] = e}

LEMMA ChainOfBlock == \A b \in Blocks : hashFunction(b) \in Chains
BY CacheAssumption DEF hashFunction, Chains

LEMMA PositionFacts ==
  ASSUME NEW chain \in Seq(Buffers), NEW b,
         \A i, j \in 1..Len(chain) :
           entry[chain[i]].block = entry[chain[j]].block => i = j
  PROVE  LET p == Position(chain, b) IN
         \/ p = 0 /\ \A i \in 1..Len(chain) : entry[chain[i]].block # b
         \/ p \in 1..Len(chain) /\ entry[chain[p]].block = b
<1> DEFINE hit(i) == entry[chain[i]].block = b
           first(i) == hit(i) /\ \A j \in 1..(i - 1) : ~hit(j)
<1>1. CASE \A i \in 1..Len(chain) : ~hit(i)
  BY <1>1 DEF Position
<1>2. CASE \E i \in 1..Len(chain) : hit(i)
  <2>1. PICK i \in 1..Len(chain) : hit(i)
    BY <1>2
  <2>2. first(i)
    BY <2>1
  <2>3. Position(chain, b) = CHOOSE j \in 1..Len(chain) : first(j)
    BY <1>2 DEF Position
  <2>4. /\ (CHOOSE j \in 1..Len(chain) : first(j)) \in 1..Len(chain)
        /\ first(CHOOSE j \in 1..Len(chain) : first(j))
    BY <2>1, <2>2, Zenon
  <2> QED BY <2>3, <2>4
<1> QED BY <1>1, <1>2

(* Two buffers of the table never cache the same block.                    *)
LEMMA OneBufferPerBlock ==
  ASSUME NEW h, NEW en, WellHashed(h, en), NEW x \in Hashed(h), NEW y \in Hashed(h),
         en[x].block = en[y].block
  PROVE  x = y
BY DEF WellHashed, Hashed

LEMMA FindEntryFacts ==
  ASSUME WellHashed(hash, entry), NEW b \in Blocks
  PROVE  \/ FindEntry(b) = 0 /\ \A e \in Hashed(hash) : entry[e].block # b
         \/ FindEntry(b) \in Hashed(hash) /\ entry[FindEntry(b)].block = b
<1> DEFINE chain == hash[hashFunction(b)]
           p == Position(chain, b)
<1>1. hashFunction(b) \in Chains /\ chain \in Seq(Buffers)
  BY ChainOfBlock DEF WellHashed
<1>2. \/ p = 0 /\ \A i \in 1..Len(chain) : entry[chain[i]].block # b
      \/ p \in 1..Len(chain) /\ entry[chain[p]].block = b
  BY <1>1, PositionFacts DEF WellHashed
<1>3. FindEntry(b) = IF p = 0 THEN 0 ELSE chain[p]
  BY DEF FindEntry, NULL
<1> HIDE DEF p
<1> QED BY <1>1, <1>2, <1>3, ElementOfSeq DEF Hashed, WellHashed

LEMMA RemoveAtFacts ==
  ASSUME NEW S, NEW s \in Seq(S), NEW p \in 1..Len(s)
  PROVE  LET r == RemoveAt(s, p) IN
         /\ r \in Seq(S)
         /\ Len(r) = Len(s) - 1
         /\ \A i \in 1..Len(r) : r[i] = IF i < p THEN s[i] ELSE s[i + 1]
<1> DEFINE a == SubSeq(s, 1, p - 1)
           z == SubSeq(s, p + 1, Len(s))
           r == RemoveAt(s, p)
<1>1. Len(s) \in Nat
  BY LenProperties
<1>2. /\ a \in Seq(S) /\ Len(a) = p - 1
      /\ \A i \in 1..(p - 1) : a[i] = s[i]
  BY <1>1, SubSeqProperties
<1>3. /\ z \in Seq(S) /\ Len(z) = Len(s) - p
      /\ \A i \in 1..(Len(s) - p) : z[i] = s[p + i]
  BY <1>1, SubSeqProperties
<1>4. r = a \o z
  BY DEF RemoveAt
<1> HIDE DEF a, z, r
<1>5. /\ r \in Seq(S) /\ Len(r) = Len(s) - 1
      /\ \A i \in 1..(Len(s) - 1) : r[i] = IF i <= p - 1 THEN a[i] ELSE z[i - (p - 1)]
  <2>1. /\ r \in Seq(S) /\ Len(r) = Len(a) + Len(z)
        /\ \A i \in 1..(Len(a) + Len(z)) :
             r[i] = IF i <= Len(a) THEN a[i] ELSE z[i - Len(a)]
    BY <1>2, <1>3, <1>4, ConcatProperties
  <2>2. Len(a) + Len(z) = Len(s) - 1
    BY <1>1, <1>2, <1>3
  <2> QED BY <1>2, <2>1, <2>2
<1>6. ASSUME NEW i \in 1..(Len(s) - 1)
      PROVE  r[i] = IF i < p THEN s[i] ELSE s[i + 1]
  <2>1. CASE i < p
    BY <1>1, <1>2, <1>5, <2>1
  <2>2. CASE i >= p
    <3>1. i - (p - 1) \in 1..(Len(s) - p) /\ p + (i - (p - 1)) = i + 1
      BY <1>1, <2>2
    <3>2. r[i] = z[i - (p - 1)]
      BY <1>1, <1>5, <2>2
    <3>3. z[i - (p - 1)] = s[i + 1]
      BY <1>3, <3>1
    <3> QED BY <2>2, <3>2, <3>3
  <2> QED BY <1>1, <2>1, <2>2
<1> QED BY <1>5, <1>6 DEF r

(* A table that differs from another in one chain, which is in order.      *)
LEMMA ChainReplaced ==
  ASSUME NEW h, NEW en, WellHashed(h, en),
         NEW new, \A x \in Hashed(h) : new[x] = en[x],
         NEW g \in [Chains -> Seq(Buffers)], NEW c \in Chains,
         \A d \in Chains \ {c} : g[d] = h[d],
         \A i \in 1..Len(g[c]) :
           new[g[c][i]].block \in Blocks /\ hashFunction(new[g[c][i]].block) = c,
         \A i, j \in 1..Len(g[c]) :
           new[g[c][i]].block = new[g[c][j]].block => i = j
  PROVE  /\ WellHashed(g, new)
         /\ \A e \in Buffers : e \in Hashed(g) <=>
              \/ e \in Hashed(h) /\ \A i \in 1..Len(h[c]) : h[c][i] # e
              \/ \E i \in 1..Len(g[c]) : g[c][i] = e
<1>2. \A d \in Chains : \A i \in 1..Len(h[d]) :
        h[d][i] \in Hashed(h) /\ new[h[d][i]] = en[h[d][i]]
  BY ElementOfSeq DEF WellHashed, Hashed
<1>3. ASSUME NEW d \in Chains
      PROVE  /\ \A i \in 1..Len(g[d]) :
                  new[g[d][i]].block \in Blocks /\ hashFunction(new[g[d][i]].block) = d
             /\ \A i, j \in 1..Len(g[d]) :
                  new[g[d][i]].block = new[g[d][j]].block => i = j
  <2>1. CASE d = c
    BY <2>1
  <2>2. CASE d # c
    <3>1. g[d] = h[d]
      BY <2>2
    <3>2. /\ \A i \in 1..Len(h[d]) :
               en[h[d][i]].block \in Blocks /\ hashFunction(en[h[d][i]].block) = d
          /\ \A i, j \in 1..Len(h[d]) :
               en[h[d][i]].block = en[h[d][j]].block => i = j
      BY DEF WellHashed
    <3>3. ASSUME NEW i \in 1..Len(g[d])
          PROVE  new[g[d][i]].block \in Blocks /\ hashFunction(new[g[d][i]].block) = d
      BY <1>2, <3>1, <3>2
    <3>4. ASSUME NEW i \in 1..Len(g[d]), NEW j \in 1..Len(g[d]),
                 new[g[d][i]].block = new[g[d][j]].block
          PROVE  i = j
      BY <1>2, <3>1, <3>2, <3>4
    <3> QED BY <3>3, <3>4
  <2> QED BY <2>1, <2>2
<1>4. WellHashed(g, new)
  BY <1>3 DEF WellHashed
<1>5. ASSUME NEW e \in Buffers
      PROVE  e \in Hashed(g) <=>
               \/ e \in Hashed(h) /\ \A i \in 1..Len(h[c]) : h[c][i] # e
               \/ \E i \in 1..Len(g[c]) : g[c][i] = e
  <2>1. ASSUME NEW d \in Chains \ {c}, NEW i \in 1..Len(h[d]), h[d][i] = e
        PROVE  \A k \in 1..Len(h[c]) : h[c][k] # e
    <3>1. hashFunction(en[e].block) = d
      BY <2>1 DEF WellHashed
    <3>2. \A k \in 1..Len(h[c]) : hashFunction(en[h[c][k]].block) = c
      BY DEF WellHashed
    <3> QED BY <3>1, <3>2
  <2>2. e \in Hashed(g) <=>
          \/ \E d \in Chains \ {c} : \E i \in 1..Len(h[d]) : h[d][i] = e
          \/ \E i \in 1..Len(g[c]) : g[c][i] = e
    <3>1. e \in Hashed(g) <=> \E d \in Chains : \E i \in 1..Len(g[d]) : g[d][i] = e
      BY Zenon DEF Hashed
    <3>2. ASSUME NEW d \in Chains, d # c
          PROVE  (\E i \in 1..Len(g[d]) : g[d][i] = e)
                   <=> \E i \in 1..Len(h[d]) : h[d][i] = e
      <4>1. g[d] = h[d]
        BY <3>2
      <4> QED BY <4>1, Zenon
    <3> QED BY <3>1, <3>2, Zenon
  <2>3. e \in Hashed(h) <=>
          \/ \E d \in Chains \ {c} : \E i \in 1..Len(h[d]) : h[d][i] = e
          \/ \E i \in 1..Len(h[c]) : h[c][i] = e
    BY DEF Hashed
  <2> QED BY <2>1, <2>2, <2>3
<1> QED BY <1>4, <1>5

(* removeEntry() takes the buffer of the block out, and nothing else.      *)
LEMMA RemoveEntryFacts ==
  ASSUME WellHashed(hash, entry), NEW b \in Blocks
  PROVE  /\ WellHashed(RemoveEntry(b), entry)
         /\ Hashed(RemoveEntry(b)) = Hashed(hash) \ {FindEntry(b)}
<1>1. PICK c \in Chains : c = hashFunction(b)
  BY ChainOfBlock
<1>2. PICK chain \in Seq(Buffers) : chain = hash[c]
  BY DEF WellHashed
<1>3. /\ \A i \in 1..Len(chain) :
            entry[chain[i]].block \in Blocks /\ hashFunction(entry[chain[i]].block) = c
      /\ \A i, j \in 1..Len(chain) : entry[chain[i]].block = entry[chain[j]].block => i = j
  BY <1>2 DEF WellHashed
<1> DEFINE p == Position(chain, b)
           r == RemoveAt(chain, p)
<1>4. \/ p = 0 /\ \A i \in 1..Len(chain) : entry[chain[i]].block # b
      \/ p \in 1..Len(chain) /\ entry[chain[p]].block = b
  BY <1>3, PositionFacts
<1>5. /\ FindEntry(b) = IF p = 0 THEN 0 ELSE chain[p]
      /\ RemoveEntry(b) = IF p = 0 THEN hash ELSE [hash EXCEPT ![c] = r]
  BY <1>1, <1>2 DEF FindEntry, RemoveEntry, NULL
<1>6. CASE p = 0
  BY <1>5, <1>6, PointerFacts DEF Hashed
<1>7. CASE p # 0
  <2>0. p \in 1..Len(chain) /\ Len(chain) \in Nat /\ chain[p] \in Buffers
    BY <1>4, <1>7, LenProperties, ElementOfSeq
  <2>1. /\ r \in Seq(Buffers) /\ Len(r) = Len(chain) - 1
        /\ \A i \in 1..Len(r) : r[i] = IF i < p THEN chain[i] ELSE chain[i + 1]
    BY <2>0, RemoveAtFacts
  <2> HIDE DEF p, r
  <2> DEFINE k(i) == IF i < p THEN i ELSE i + 1
  <2>2. /\ \A i \in 1..Len(r) : k(i) \in 1..Len(chain) /\ k(i) # p /\ r[i] = chain[k(i)]
        /\ \A i, j \in 1..Len(r) : k(i) = k(j) => i = j
    BY <2>0, <2>1
  <2>3. ASSUME NEW e \in Buffers
        PROVE  (\E i \in 1..Len(r) : r[i] = e)
                 <=> e # chain[p] /\ \E i \in 1..Len(chain) : chain[i] = e
    <3>1. ASSUME NEW i \in 1..Len(chain), i # p PROVE \E j \in 1..Len(r) : r[j] = chain[i]
      <4>1. CASE i < p
        BY <2>0, <2>1, <3>1, <4>1
      <4>2. CASE i > p
        <5>1. i - 1 \in 1..Len(r) /\ k(i - 1) = i
          BY <2>0, <2>1, <4>2
        <5> QED BY <2>2, <5>1
      <4> QED BY <2>0, <3>1, <4>1, <4>2
    <3>2. ASSUME NEW i \in 1..Len(r)
          PROVE  r[i] # chain[p] /\ \E j \in 1..Len(chain) : chain[j] = r[i]
      <4>1. k(i) \in 1..Len(chain) /\ k(i) # p /\ r[i] = chain[k(i)]
        BY <2>2
      <4> HIDE DEF k
      <4>2. chain[k(i)] # chain[p]
        BY <1>3, <2>0, <4>1
      <4> QED BY <4>1, <4>2
    <3> QED BY <3>1, <3>2
  <2> HIDE DEF k
  <2>4. /\ \A i \in 1..Len(r) :
              entry[r[i]].block \in Blocks /\ hashFunction(entry[r[i]].block) = c
        /\ \A i, j \in 1..Len(r) : entry[r[i]].block = entry[r[j]].block => i = j
    <3>1. ASSUME NEW i \in 1..Len(r)
          PROVE  entry[r[i]].block \in Blocks /\ hashFunction(entry[r[i]].block) = c
      BY <1>3, <2>2
    <3>2. ASSUME NEW i \in 1..Len(r), NEW j \in 1..Len(r),
                 entry[r[i]].block = entry[r[j]].block
          PROVE  i = j
      <4>1. /\ k(i) \in 1..Len(chain) /\ k(j) \in 1..Len(chain)
            /\ entry[chain[k(i)]].block = entry[chain[k(j)]].block
        BY <2>2, <3>2
      <4>2. k(i) = k(j)
        BY <1>3, <4>1
      <4> QED BY <2>2, <4>2
    <3> QED BY <3>1, <3>2
  <2>5. /\ WellHashed(RemoveEntry(b), entry)
        /\ \A e \in Buffers : e \in Hashed(RemoveEntry(b)) <=>
             \/ e \in Hashed(hash) /\ \A i \in 1..Len(chain) : chain[i] # e
             \/ \E i \in 1..Len(r) : r[i] = e
    <3>1. PICK g \in [Chains -> Seq(Buffers)] : g = [hash EXCEPT ![c] = r]
      BY <2>1 DEF WellHashed
    <3>2. g[c] = r /\ \A d \in Chains \ {c} : g[d] = hash[d]
      BY <3>1 DEF WellHashed
    <3>3. g = RemoveEntry(b)
      BY <1>5, <1>7, <3>1
    <3>4. /\ \A i \in 1..Len(g[c]) :
                entry[g[c][i]].block \in Blocks /\ hashFunction(entry[g[c][i]].block) = c
          /\ \A i, j \in 1..Len(g[c]) :
                entry[g[c][i]].block = entry[g[c][j]].block => i = j
      BY <2>4, <3>2
    <3>5. /\ WellHashed(g, entry)
          /\ \A e \in Buffers : e \in Hashed(g) <=>
               \/ e \in Hashed(hash) /\ \A i \in 1..Len(hash[c]) : hash[c][i] # e
               \/ \E i \in 1..Len(g[c]) : g[c][i] = e
      <4>1. \A x \in Hashed(hash) : entry[x] = entry[x]
        OBVIOUS
      <4> QED BY <3>2, <3>4, <4>1, ChainReplaced, SMTT(20)
    <3> QED BY <1>2, <3>2, <3>3, <3>5
  <2>6. \A i \in 1..Len(chain) : chain[i] \in Hashed(hash)
    BY <1>2, ElementOfSeq DEF Hashed
  <2>7. Hashed(RemoveEntry(b)) \subseteq Buffers /\ Hashed(hash) \subseteq Buffers
    BY DEF Hashed
  <2>8. ASSUME NEW e \in Buffers
        PROVE  e \in Hashed(RemoveEntry(b)) <=> e \in Hashed(hash) /\ e # chain[p]
    <3>1. e = chain[p] => \E i \in 1..Len(chain) : chain[i] = e
      BY <2>0
    <3>2. (\E i \in 1..Len(chain) : chain[i] = e) => e \in Hashed(hash)
      BY <2>6
    <3> QED BY <2>3, <2>5, <3>1, <3>2
  <2> QED BY <1>5, <1>7, <2>5, <2>7, <2>8
<1> QED BY <1>6, <1>7

(* A new buffer at the head of the chain of a block no buffer caches.      *)
LEMMA AddEntryFacts ==
  ASSUME NEW h, NEW en, WellHashed(h, en), NEW e \in Buffers, e \notin Hashed(h),
         NEW b \in Blocks, \A x \in Hashed(h) : en[x].block # b,
         NEW new, new[e].block = b, \A x \in Buffers \ {e} : new[x] = en[x]
  PROVE  /\ WellHashed(AddEntry(h, e, b), new)
         /\ Hashed(AddEntry(h, e, b)) = Hashed(h) \cup {e}
<1>1. PICK c \in Chains : c = hashFunction(b)
  BY ChainOfBlock
<1>2. PICK chain \in Seq(Buffers) : chain = h[c]
  BY DEF WellHashed
<1> DEFINE s == <<e>> \o chain
<1>3. Len(chain) \in Nat /\ \A i \in 1..Len(chain) : chain[i] \in Hashed(h)
  BY <1>2, LenProperties, ElementOfSeq DEF Hashed
<1>4. /\ s \in Seq(Buffers) /\ Len(s) = Len(chain) + 1
      /\ s[1] = e /\ \A i \in 1..Len(chain) : s[i + 1] = chain[i]
  <2>1. <<e>> \in Seq(Buffers) /\ Len(<<e>>) = 1 /\ <<e>>[1] = e
    OBVIOUS
  <2> QED BY <1>3, <2>1, ConcatProperties
<1>5. AddEntry(h, e, b) = [h EXCEPT ![c] = s]
  BY <1>1, <1>2 DEF AddEntry
<1> HIDE DEF s
<1>6. \A i \in 1..Len(s) : i = 1 \/ \E k \in 1..Len(chain) : i = k + 1 /\ s[i] = chain[k]
  <2>1. ASSUME NEW i \in 1..Len(s), i # 1
        PROVE  i - 1 \in 1..Len(chain) /\ i = (i - 1) + 1
    BY <1>3, <1>4, <2>1
  <2> QED BY <1>4, <2>1
<1>7. \A x \in Hashed(h) : new[x] = en[x] /\ new[x].block # b /\ x \in Buffers
  BY DEF Hashed
<1>8. \A i \in 1..Len(chain) : /\ new[chain[i]].block \in Blocks
                               /\ hashFunction(new[chain[i]].block) = c
                               /\ new[chain[i]].block # b
  BY <1>2, <1>3, <1>7 DEF WellHashed
<1>9. \A i, j \in 1..Len(chain) : new[chain[i]].block = new[chain[j]].block => i = j
  BY <1>2, <1>3, <1>7 DEF WellHashed
<1>10. \A i \in 1..Len(s) :
         new[s[i]].block \in Blocks /\ hashFunction(new[s[i]].block) = c
  BY <1>1, <1>4, <1>6, <1>8
<1>11. \A i, j \in 1..Len(s) : new[s[i]].block = new[s[j]].block => i = j
  <2> SUFFICES ASSUME NEW i \in 1..Len(s), NEW j \in 1..Len(s),
                      new[s[i]].block = new[s[j]].block
               PROVE  i = j
    OBVIOUS
  <2>1. CASE i = 1 \/ j = 1
    BY <1>4, <1>6, <1>8, <2>1
  <2>2. CASE i # 1 /\ j # 1
    BY <1>6, <1>9, <2>2
  <2> QED BY <2>1, <2>2
<1>12. /\ WellHashed(AddEntry(h, e, b), new)
       /\ \A x \in Buffers : x \in Hashed(AddEntry(h, e, b)) <=>
            \/ x \in Hashed(h) /\ \A i \in 1..Len(chain) : chain[i] # x
            \/ \E i \in 1..Len(s) : s[i] = x
  <2>1. PICK g \in [Chains -> Seq(Buffers)] : g = [h EXCEPT ![c] = s]
    BY <1>4 DEF WellHashed
  <2>2. g[c] = s /\ \A d \in Chains \ {c} : g[d] = h[d]
    BY <2>1 DEF WellHashed
  <2>3. g = AddEntry(h, e, b)
    BY <1>5, <2>1
  <2>4. /\ \A i \in 1..Len(g[c]) :
              new[g[c][i]].block \in Blocks /\ hashFunction(new[g[c][i]].block) = c
        /\ \A i, j \in 1..Len(g[c]) : new[g[c][i]].block = new[g[c][j]].block => i = j
    BY <1>10, <1>11, <2>2
  <2>5. /\ WellHashed(g, new)
        /\ \A x \in Buffers : x \in Hashed(g) <=>
             \/ x \in Hashed(h) /\ \A i \in 1..Len(h[c]) : h[c][i] # x
             \/ \E i \in 1..Len(g[c]) : g[c][i] = x
    BY <1>7, <2>2, <2>4, ChainReplaced, SMTT(20)
  <2> QED BY <1>2, <2>2, <2>3, <2>5
<1>13. \A x \in Buffers : (\E i \in 1..Len(s) : s[i] = x)
         <=> x = e \/ \E i \in 1..Len(chain) : chain[i] = x
  <2>1. 1 \in 1..Len(s) /\ \A i \in 1..Len(chain) : i + 1 \in 1..Len(s)
    BY <1>3, <1>4
  <2>2. ASSUME NEW x \in Buffers, NEW i \in 1..Len(s), s[i] = x
        PROVE  x = e \/ \E k \in 1..Len(chain) : chain[k] = x
    BY <1>4, <1>6, <2>2
  <2>3. ASSUME NEW k \in 1..Len(chain) PROVE \E i \in 1..Len(s) : s[i] = chain[k]
    BY <1>4, <2>1
  <2>4. \E i \in 1..Len(s) : s[i] = e
    BY <1>4, <2>1
  <2> QED BY <2>2, <2>3, <2>4
<1>14. Hashed(AddEntry(h, e, b)) \subseteq Buffers /\ Hashed(h) \subseteq Buffers
  BY DEF Hashed
<1>15. ASSUME NEW x \in Buffers
       PROVE  x \in Hashed(AddEntry(h, e, b)) <=> x \in Hashed(h) \/ x = e
  <2>1. (\E i \in 1..Len(chain) : chain[i] = x) => x \in Hashed(h)
    BY <1>3
  <2> QED BY <1>12, <1>13, <2>1
<1> QED BY <1>12, <1>14, <1>15

(* Nothing but the blocks of its buffers makes a table well hashed.        *)
LEMMA SameBlocks ==
  ASSUME NEW h, NEW en, WellHashed(h, en),
         NEW new, \A x \in Hashed(h) : new[x].block = en[x].block
  PROVE  WellHashed(h, new)
<1>1. \A d \in Chains : \A i \in 1..Len(h[d]) :
        h[d][i] \in Hashed(h) /\ new[h[d][i]].block = en[h[d][i]].block
  BY ElementOfSeq DEF WellHashed, Hashed
<1>2. ASSUME NEW d \in Chains, NEW i \in 1..Len(h[d])
      PROVE  new[h[d][i]].block \in Blocks /\ hashFunction(new[h[d][i]].block) = d
  BY <1>1 DEF WellHashed
<1>3. ASSUME NEW d \in Chains, NEW i \in 1..Len(h[d]), NEW j \in 1..Len(h[d]),
             new[h[d][i]].block = new[h[d][j]].block
      PROVE  i = j
  BY <1>1, <1>3 DEF WellHashed
<1> QED BY <1>2, <1>3 DEF WellHashed

-----------------------------------------------------------------------------
(* Who holds a buffer.                                                     *)

Holders(fr, e) == {f \in Frames : fr[f].buf = e}

LEMMA HoldersCount ==
  ASSUME NEW fr, NEW e
  PROVE  /\ IsFiniteSet(Holders(fr, e))
         /\ Cardinality(Holders(fr, e)) \in Nat
         /\ Cardinality(Holders(fr, e)) = 0 <=> \A f \in Frames : fr[f].buf # e
<1>1. IsFiniteSet(Frames) /\ Holders(fr, e) \in SUBSET Frames
  BY CacheAssumption DEF Holders
<1>2. IsFiniteSet(Holders(fr, e))
  BY <1>1, FS_Subset
<1> QED BY <1>2, FS_CardinalityType, FS_EmptySet DEF Holders

-----------------------------------------------------------------------------
(* The inductive invariant.                                                *)

Typed ==
  /\ open \in BOOLEAN
  /\ disk \in [Blocks -> Values]
  /\ pool \in PoolSize..MaxBuffers
  /\ entry \in [Buffers -> [block : Blocks \cup {0}, count : 0..CountMax,
                            dirty : BOOLEAN, data : Values]]
  /\ frame \in [Frames -> [buf : 0..pool, block : Blocks \cup {NoBlock},
                           poked : BOOLEAN]]

(* The list holds unused buffers only, all of its links in order.          *)
FreeOK == ListOver(free, Unused)

HashOK == WellHashed(hash, entry) /\ Hashed(hash) \subseteq 1..pool

(* An unused buffer is in the table, or was never used and says 0.         *)
UnusedOK == \A e \in Unused : e \in Hashed(hash) \/ entry[e].block = 0

(* What a frame holds is in the table, under the block it asked for.       *)
HeldOK ==
  \A f \in Frames : frame[f] # Idle =>
    /\ frame[f].buf \in Hashed(hash)
    /\ entry[frame[f].buf].block = frame[f].block

CountOK == \A e \in Buffers : Cardinality(Holders(frame, e)) <= entry[e].count

DirtyOK == \A e \in Buffers : entry[e].dirty => e \in Hashed(hash)

PokedIn(e) == \E f \in Frames : frame[f].poked /\ frame[f].buf = e

CleanOK ==
  \A e \in Hashed(hash) :
    entry[e].dirty \/ PokedIn(e) \/ entry[e].data = disk[entry[e].block]

IInv == /\ Typed /\ FreeOK /\ HashOK /\ UnusedOK
        /\ HeldOK /\ CountOK /\ DirtyOK /\ CleanOK

LEMMA ConstantFacts ==
  /\ MaxBuffers \in Nat /\ PoolSize \in Nat /\ CountMax \in Nat /\ CountMax >= 1
  /\ PoolSize >= 1 /\ PoolSize <= MaxBuffers
  /\ Zero \in Values /\ Blocks \subseteq Nat
  /\ NoBlock \notin Blocks
BY CacheAssumption DEF NoBlock

LEMMA UnusedBuffers ==
  ASSUME Typed
  PROVE  Unused \in SUBSET Buffers /\ 1..pool \subseteq Buffers
BY ConstantFacts DEF Typed, Unused, Buffers

(* A list over buffers that have been made has its links within the pool.  *)
LEMMA InvImpliesTypeOK == IInv => TypeOK
<1> SUFFICES ASSUME IInv PROVE TypeOK
  OBVIOUS
<1>1. free \in [first : 0..pool, last : 0..pool,
                next : [Buffers -> 0..pool], prev : [Buffers -> 0..pool]]
  <2>1. ListOver(free, Unused) /\ free \in Lists
    BY DEF IInv, FreeOK, ListOver
  <2>2. Unused \cup {0} \subseteq 0..pool
    BY ConstantFacts DEF IInv, Typed, Unused
  <2>3. free.first \in Unused \cup {0} /\ free.last \in Unused \cup {0}
    BY <2>1 DEF ListOver, Ends
  <2>4. \A e \in Buffers : free.next[e] \in Unused \cup {0}
    BY <2>1 DEF ListOver, NextLinks
  <2>5. \A e \in Buffers : free.prev[e] \in Unused \cup {0}
    BY <2>1 DEF ListOver, PrevLinks
  <2>6. free.next \in [Buffers -> 0..pool] /\ free.prev \in [Buffers -> 0..pool]
    BY <2>1, <2>2, <2>4, <2>5, ListFields
  <2> QED BY <2>1, <2>2, <2>3, <2>6, ListFields
<1>2. hash \in [Chains -> Seq(1..pool)]
  <2>1. ASSUME NEW c \in Chains PROVE hash[c] \in Seq(1..pool)
    <3>1. hash[c] \in Seq(Buffers) /\ \A i \in 1..Len(hash[c]) : hash[c][i] \in Hashed(hash)
      BY ElementOfSeq DEF IInv, HashOK, WellHashed, Hashed
    <3>2. \A i \in 1..Len(hash[c]) : hash[c][i] \in 1..pool
      BY <3>1 DEF IInv, HashOK
    <3>3. Len(hash[c]) \in Nat /\ hash[c] \in [1..Len(hash[c]) -> Buffers]
      BY <3>1, LenProperties
    <3>4. hash[c] \in [1..Len(hash[c]) -> 1..pool]
      BY <3>2, <3>3
    <3> QED BY <3>3, <3>4, SeqDef
  <2> QED BY <2>1 DEF IInv, HashOK, WellHashed
<1> QED BY <1>1, <1>2 DEF IInv, Typed, TypeOK, Chains

-----------------------------------------------------------------------------
(* What the invariant says of a lookup and of a held pointer.              *)

LEMMA FoundFacts ==
  ASSUME IInv, NEW b \in Blocks
  PROVE  /\ FindEntry(b) = 0 => \A x \in Hashed(hash) : entry[x].block # b
         /\ FindEntry(b) # 0 =>
              /\ FindEntry(b) \in Hashed(hash) /\ FindEntry(b) \in 1..pool
              /\ FindEntry(b) \in Buffers
              /\ entry[FindEntry(b)].block = b
         /\ \A x \in Hashed(hash) : entry[x].block = b => x = FindEntry(b)
<1>1. \/ FindEntry(b) = 0 /\ \A e \in Hashed(hash) : entry[e].block # b
      \/ FindEntry(b) \in Hashed(hash) /\ entry[FindEntry(b)].block = b
  BY FindEntryFacts DEF IInv, HashOK
<1>2. Hashed(hash) \subseteq Buffers /\ Hashed(hash) \subseteq 1..pool
  BY DEF Hashed, IInv, HashOK
<1>3. \A x \in Hashed(hash) : entry[x].block = b => x = FindEntry(b)
  BY <1>1, OneBufferPerBlock DEF IInv, HashOK
<1> QED BY <1>1, <1>2, <1>3, PointerFacts

LEMMA HeldFacts ==
  ASSUME IInv, NEW f \in Frames, frame[f] # Idle
  PROVE  /\ frame[f].block \in Blocks
         /\ FindEntry(frame[f].block) = frame[f].buf
         /\ frame[f].buf \in Hashed(hash) /\ frame[f].buf \in Buffers
         /\ frame[f].buf \in 1..pool
         /\ entry[frame[f].buf].block = frame[f].block
         /\ entry[frame[f].buf].count \in 1..CountMax
<1>1. /\ frame[f].buf \in Hashed(hash)
      /\ entry[frame[f].buf].block = frame[f].block
  BY DEF IInv, HeldOK
<1>2. frame[f].buf \in Buffers /\ frame[f].buf \in 1..pool
  BY <1>1 DEF Hashed, IInv, HashOK
<1>3. frame[f].block \in Blocks
  BY <1>1 DEF IInv, HashOK, WellHashed, Hashed
<1>4. FindEntry(frame[f].block) = frame[f].buf
  BY <1>1, <1>3, FoundFacts
<1>5. Cardinality(Holders(frame, frame[f].buf)) \in Nat \ {0}
  BY HoldersCount
<1>6. entry[frame[f].buf].count \in 1..CountMax
  BY <1>2, <1>5, ConstantFacts DEF IInv, CountOK, Typed
<1> QED BY <1>1, <1>2, <1>3, <1>4, <1>6

(* A step that leaves the table and the blocks of its buffers alone.       *)
LEMMA TableKept ==
  ASSUME IInv, hash' = hash, pool' = pool,
         \A x \in Buffers : entry'[x].block = entry[x].block
  PROVE  HashOK'
<1>1. WellHashed(hash, entry')
  BY SameBlocks DEF IInv, HashOK, Hashed
<1> QED BY <1>1 DEF IInv, HashOK

(* A step that changes no count, and no link of the list.                  *)
LEMMA ListKept ==
  ASSUME IInv, free' = free, pool' = pool,
         \A x \in Buffers : entry'[x].count = entry[x].count
  PROVE  FreeOK' /\ Unused' = Unused
<1>1. Unused' = Unused
  BY UnusedBuffers DEF IInv, Unused
<1> QED BY <1>1 DEF IInv, FreeOK

(* A frame that held nothing takes a buffer.                               *)
LEMMA FrameTakes ==
  ASSUME NEW f \in Frames, NEW e \in Buffers, NEW x \in Buffers,
         frame[f].buf = 0, frame'[f].buf = e,
         \A g \in Frames \ {f} : frame'[g].buf = frame[g].buf,
         NEW n \in Nat, n = Cardinality(Holders(frame, x))
  PROVE  Cardinality(Holders(frame', x)) = IF x = e THEN n + 1 ELSE n
<1>1. f \notin Holders(frame, x)
  BY PointerFacts DEF Holders
<1>2. Holders(frame', x) = IF x = e THEN Holders(frame, x) \cup {f} ELSE Holders(frame, x)
  BY PointerFacts DEF Holders
<1>3. IsFiniteSet(Holders(frame, x))
  BY HoldersCount
<1>4. Cardinality(Holders(frame, x) \cup {f}) = n + 1
  BY <1>1, <1>3, FS_AddElement
<1> QED BY <1>2, <1>4

LEMMA AcquireHitKeeps ==
  ASSUME IInv, NEW f \in Frames, NEW b \in Blocks, AcquireHit(f, b)
  PROVE  IInv'
<1> DEFINE e == FindEntry(b)
<1>1. /\ e \in Hashed(hash) /\ e \in 1..pool /\ e \in Buffers
      /\ entry[e].block = b /\ frame[f] = Idle /\ e # 0
  BY FoundFacts, PointerFacts DEF AcquireHit, NULL
<1>2. /\ entry' = [entry EXCEPT ![e].count = @ + 1]
      /\ entry[e].count < CountMax
      /\ free' = FreeAfterIncrement(free, e)
      /\ frame' = [frame EXCEPT ![f] = [buf |-> e, block |-> b, poked |-> FALSE]]
      /\ open' = open /\ disk' = disk /\ pool' = pool /\ hash' = hash
  BY DEF AcquireHit
<1> HIDE DEF e
<1>3. \A x \in Buffers :
        /\ entry'[x].block = entry[x].block /\ entry'[x].dirty = entry[x].dirty
        /\ entry'[x].data = entry[x].data
        /\ entry'[x].count = IF x = e THEN entry[x].count + 1 ELSE entry[x].count
  BY <1>1, <1>2 DEF IInv, Typed
<1>4. Typed'
  BY <1>1, <1>2, ConstantFacts DEF IInv, Typed
<1>5. Unused' = Unused \ {e}
  BY <1>1, <1>2, <1>3, UnusedBuffers DEF IInv, Typed, Unused
<1>6. FreeOK'
  <2>1. CASE e \in Unused
    <3>1. free' = Unlink(free, e)
      BY <1>2, <2>1 DEF FreeAfterIncrement, Unused
    <3>2. ListOver(Unlink(free, e), Unused \ {e})
      BY <2>1, UnlinkDelists, UnusedBuffers DEF IInv, FreeOK
    <3> QED BY <1>5, <3>1, <3>2 DEF FreeOK
  <2>2. CASE e \notin Unused
    <3>1. free' = free /\ Unused' = Unused
      BY <1>1, <1>2, <1>5, <2>2 DEF FreeAfterIncrement, Unused
    <3> QED BY <3>1 DEF IInv, FreeOK
  <2> QED BY <2>1, <2>2
<1>7. HashOK' /\ UnusedOK' /\ DirtyOK'
  BY <1>2, <1>3, <1>5, TableKept, UnusedBuffers DEF IInv, UnusedOK, DirtyOK
<1>8. HeldOK'
  <2> SUFFICES ASSUME NEW g \in Frames, frame'[g] # Idle
               PROVE  /\ frame'[g].buf \in Hashed(hash)
                      /\ entry'[frame'[g].buf].block = frame'[g].block
    BY <1>2 DEF HeldOK
  <2>1. CASE g = f
    BY <1>1, <1>2, <1>3, <2>1 DEF IInv, Typed
  <2>2. CASE g # f
    <3>1. frame'[g] = frame[g]
      BY <1>2, <2>2 DEF IInv, Typed
    <3> QED BY <1>3, <3>1 DEF IInv, HeldOK, Hashed
  <2> QED BY <2>1, <2>2
<1>9. CountOK'
  <2>1. ASSUME NEW x \in Buffers
        PROVE  Cardinality(Holders(frame', x)) <= entry'[x].count
    <3>1. PICK n \in Nat : n = Cardinality(Holders(frame, x))
      BY HoldersCount
    <3>2. n <= entry[x].count /\ entry[x].count \in Nat
      BY <3>1, ConstantFacts DEF IInv, CountOK, Typed
    <3>3. /\ frame[f].buf = 0 /\ frame'[f].buf = e
          /\ \A g \in Frames \ {f} : frame'[g].buf = frame[g].buf
      BY <1>1, <1>2 DEF IInv, Typed, Idle, NULL
    <3>4. Cardinality(Holders(frame', x)) = IF x = e THEN n + 1 ELSE n
      BY <1>1, <3>1, <3>3, FrameTakes
    <3> QED BY <1>3, <3>2, <3>4
  <2> QED BY <2>1 DEF CountOK
<1>10. CleanOK'
  <2>1. \A x \in Buffers : PokedIn(x) => PokedIn(x)'
    BY <1>1, <1>2 DEF PokedIn, Idle, IInv, Typed
  <2> QED BY <1>2, <1>3, <2>1 DEF IInv, CleanOK, Hashed
<1> QED BY <1>4, <1>6, <1>7, <1>8, <1>9, <1>10 DEF IInv

LEMMA PokeKeeps ==
  ASSUME IInv, NEW f \in Frames, NEW v \in Values, Poke(f, v)
  PROVE  IInv'
<1> DEFINE e == frame[f].buf
<1>1. /\ frame[f].block \in Blocks /\ e \in Hashed(hash) /\ e \in Buffers
      /\ entry[e].block = frame[f].block /\ frame[f] # Idle
  BY HeldFacts DEF Poke
<1>2. /\ entry' = [entry EXCEPT ![e].data = v]
      /\ frame' = [frame EXCEPT ![f].poked = TRUE]
      /\ open' = open /\ disk' = disk /\ pool' = pool /\ hash' = hash /\ free' = free
  BY DEF Poke
<1>3. \A x \in Buffers :
        /\ entry'[x].block = entry[x].block /\ entry'[x].dirty = entry[x].dirty
        /\ entry'[x].count = entry[x].count
        /\ x # e => entry'[x].data = entry[x].data
  BY <1>1, <1>2 DEF IInv, Typed
<1>4. \A g \in Frames :
        /\ frame'[g].buf = frame[g].buf /\ frame'[g].block = frame[g].block
        /\ frame'[g].poked = IF g = f THEN TRUE ELSE frame[g].poked
  BY <1>2 DEF IInv, Typed
<1>5. Typed'
  <2> DEFINE R == [block : Blocks \cup {0}, count : 0..CountMax,
                    dirty : BOOLEAN, data : Values]
  <2>1. entry \in [Buffers -> R]
    BY DEF IInv, Typed
  <2>2. entry[e] \in R
    BY <1>1, <2>1
  <2>3. [entry[e] EXCEPT !.data = v] \in R
    BY <2>2
  <2>4. entry' \in [Buffers -> R]
    BY <1>1, <1>2, <2>1, <2>3
  <2>5. frame' \in [Frames -> [buf : 0..pool', block : Blocks \cup {NoBlock}, poked : BOOLEAN]]
    BY <1>2 DEF IInv, Typed
  <2> QED BY <1>2, <2>4, <2>5 DEF IInv, Typed
<1>6. FreeOK' /\ Unused' = Unused /\ HashOK'
  BY <1>2, <1>3, ListKept, TableKept
<1>7. UnusedOK' /\ DirtyOK'
  BY <1>2, <1>3, <1>6, UnusedBuffers DEF IInv, UnusedOK, DirtyOK
<1>8. HeldOK'
  <2>1. \A g \in Frames : frame'[g] # Idle => frame[g] # Idle
    BY <1>1, <1>2 DEF IInv, Typed
  <2> QED BY <1>2, <1>3, <1>4, <2>1 DEF IInv, HeldOK, Hashed
<1>9. CountOK'
  <2>1. \A x \in Buffers : Holders(frame', x) = Holders(frame, x)
    BY <1>4 DEF Holders
  <2> QED BY <1>3, <2>1 DEF IInv, CountOK
<1>10. CleanOK'
  <2>1. PokedIn(e)' /\ \A x \in Buffers : PokedIn(x) => PokedIn(x)'
    BY <1>4 DEF PokedIn
  <2> QED BY <1>2, <1>3, <2>1 DEF IInv, CleanOK, Hashed
<1> QED BY <1>5, <1>6, <1>7, <1>8, <1>9, <1>10 DEF IInv

LEMMA MarkDirtyKeeps ==
  ASSUME IInv, NEW f \in Frames, MarkDirty(f)
  PROVE  IInv'
<1> DEFINE e == frame[f].buf
<1>1. /\ frame[f].block \in Blocks /\ FindEntry(frame[f].block) = e
      /\ e \in Hashed(hash) /\ e \in Buffers /\ e # 0 /\ frame[f] # Idle
  BY HeldFacts, PointerFacts DEF MarkDirty
<1>2. /\ entry' = [entry EXCEPT ![e].dirty = TRUE]
      /\ frame' = [frame EXCEPT ![f].poked = FALSE]
      /\ open' = open /\ disk' = disk /\ pool' = pool /\ hash' = hash /\ free' = free
  BY <1>1 DEF MarkDirty, NULL
<1>3. \A x \in Buffers :
        /\ entry'[x].block = entry[x].block /\ entry'[x].data = entry[x].data
        /\ entry'[x].count = entry[x].count
        /\ entry'[x].dirty = IF x = e THEN TRUE ELSE entry[x].dirty
  BY <1>1, <1>2 DEF IInv, Typed
<1>4. \A g \in Frames :
        /\ frame'[g].buf = frame[g].buf /\ frame'[g].block = frame[g].block
        /\ frame'[g].poked = IF g = f THEN FALSE ELSE frame[g].poked
  BY <1>2 DEF IInv, Typed
<1>5. Typed'
  <2> DEFINE R == [block : Blocks \cup {0}, count : 0..CountMax,
                    dirty : BOOLEAN, data : Values]
  <2>1. entry \in [Buffers -> R]
    BY DEF IInv, Typed
  <2>2. entry[e] \in R
    BY <1>1, <2>1
  <2>3. [entry[e] EXCEPT !.dirty = TRUE] \in R
    BY <2>2
  <2>4. entry' \in [Buffers -> R]
    BY <1>1, <1>2, <2>1, <2>3
  <2>5. frame' \in [Frames -> [buf : 0..pool', block : Blocks \cup {NoBlock}, poked : BOOLEAN]]
    BY <1>2 DEF IInv, Typed
  <2> QED BY <1>2, <2>4, <2>5 DEF IInv, Typed
<1>6. FreeOK' /\ Unused' = Unused /\ HashOK'
  BY <1>2, <1>3, ListKept, TableKept
<1>7. UnusedOK' /\ DirtyOK'
  BY <1>1, <1>2, <1>3, <1>6, UnusedBuffers DEF IInv, UnusedOK, DirtyOK
<1>8. HeldOK'
  <2>1. \A g \in Frames : frame'[g] # Idle => frame[g] # Idle
    BY <1>1, <1>2 DEF IInv, Typed
  <2> QED BY <1>2, <1>3, <1>4, <2>1 DEF IInv, HeldOK, Hashed
<1>9. CountOK'
  <2>1. \A x \in Buffers : Holders(frame', x) = Holders(frame, x)
    BY <1>4 DEF Holders
  <2> QED BY <1>3, <2>1 DEF IInv, CountOK
<1>10. CleanOK'
  <2>1. \A x \in Buffers : x # e /\ PokedIn(x) => PokedIn(x)'
    BY <1>4 DEF PokedIn
  <2>2. CleanOK /\ Hashed(hash) \subseteq Buffers
    BY DEF IInv, Hashed
  <2>3. Hashed(hash') = Hashed(hash) /\ disk' = disk
    BY <1>2
  <2> QED BY <1>3, <2>1, <2>2, <2>3 DEF CleanOK
<1> QED BY <1>5, <1>6, <1>7, <1>8, <1>9, <1>10 DEF IInv

(* What release() and a failed commit both do: give a buffer back.         *)
LEMMA GivenBack ==
  ASSUME IInv, NEW f \in Frames, NEW e, e = frame[f].buf, frame[f] # Idle,
         entry' \in [Buffers -> [block : Blocks \cup {0}, count : 0..CountMax,
                                 dirty : BOOLEAN, data : Values]],
         \A x \in Buffers :
           /\ entry'[x].block = entry[x].block
           /\ entry'[x].count = IF x = e THEN entry[x].count - 1 ELSE entry[x].count
           /\ entry'[x].dirty => entry[x].dirty \/ x = e,
         free' = FreeAfterDecrement(free, e), pool' = pool, hash' = hash,
         frame'[f] = Idle,
         \A g \in Frames \ {f} : frame'[g] = frame[g] \/ frame'[g] = Idle
  PROVE  FreeOK' /\ HashOK' /\ UnusedOK' /\ HeldOK' /\ CountOK' /\ DirtyOK'
<1>1. /\ e \in Hashed(hash) /\ e \in Buffers /\ e \in 1..pool /\ e # 0
      /\ entry[e].count \in 1..CountMax
  BY HeldFacts, PointerFacts
<1>2. HashOK'
  BY TableKept
<1>3. Unused' = IF entry[e].count = 1 THEN Unused \cup {e} ELSE Unused
  BY <1>1, UnusedBuffers, ConstantFacts DEF IInv, Typed, Unused
<1>4. FreeOK'
  <2>1. CASE entry[e].count = 1
    <3>1. e \notin Unused
      BY <1>1, <2>1 DEF Unused
    <3>2. ListOver(SetLast(free, e), Unused \cup {e})
      BY <1>1, <3>1, SetLastLists, UnusedBuffers DEF IInv, FreeOK
    <3> QED BY <1>3, <2>1, <3>2 DEF FreeOK, FreeAfterDecrement
  <2>2. CASE entry[e].count # 1
    BY <1>3, <2>2 DEF IInv, FreeOK, FreeAfterDecrement
  <2> QED BY <2>1, <2>2
<1>5. UnusedOK' /\ DirtyOK'
  BY <1>1, <1>3, UnusedBuffers DEF IInv, UnusedOK, DirtyOK
<1>6. HeldOK'
  <2>1. ASSUME NEW g \in Frames, frame'[g] # Idle
        PROVE  frame'[g].buf \in Hashed(hash) /\ entry'[frame'[g].buf].block = frame'[g].block
    <3>1. frame'[g] = frame[g]
      BY <2>1
    <3> QED BY <2>1, <3>1 DEF IInv, HeldOK, Hashed
  <2> QED BY <2>1 DEF HeldOK
<1>7. CountOK'
  <2>1. ASSUME NEW x \in Buffers
        PROVE  Cardinality(Holders(frame', x)) <= entry'[x].count
    <3>1. PICK n \in Nat : n = Cardinality(Holders(frame, x))
      BY HoldersCount
    <3>2. n <= entry[x].count /\ entry[x].count \in Nat
      BY <3>1, ConstantFacts DEF IInv, CountOK, Typed
    <3>3. Holders(frame', x) \in SUBSET (Holders(frame, x) \ {f})
      BY PointerFacts DEF Holders, Idle, NULL
    <3>4. IsFiniteSet(Holders(frame, x))
      BY HoldersCount
    <3>5. /\ IsFiniteSet(Holders(frame, x) \ {f})
          /\ Cardinality(Holders(frame, x) \ {f}) =
               IF f \in Holders(frame, x) THEN n - 1 ELSE n
      BY <3>1, <3>4, FS_RemoveElement
    <3>6. f \in Holders(frame, x) <=> x = e
      BY DEF Holders
    <3>7. Cardinality(Holders(frame', x)) <= Cardinality(Holders(frame, x) \ {f})
      BY <3>3, <3>5, FS_Subset
    <3>8. Cardinality(Holders(frame', x)) \in Nat
      BY HoldersCount
    <3> QED BY <3>1, <3>2, <3>5, <3>6, <3>7, <3>8
  <2> QED BY <2>1 DEF CountOK
<1> QED BY <1>2, <1>4, <1>5, <1>6, <1>7

LEMMA ReleaseKeeps ==
  ASSUME IInv, NEW f \in Frames, NEW flags \in {{}, {"dirty"}, {"commit"}},
         Release(f, flags)
  PROVE  IInv'
<1> DEFINE b == frame[f].block
<1>1. PICK e \in Buffers : e = frame[f].buf
  BY HeldFacts DEF Release
<1>2. /\ b \in Blocks /\ FindEntry(b) = e /\ e \in Hashed(hash)
      /\ entry[e].block = b /\ e # 0 /\ frame[f] # Idle
      /\ entry[e].count \in 1..CountMax
  BY <1>1, HeldFacts, PointerFacts DEF Release
<1>3. /\ frame[f].poked => flags # {}
      /\ entry' = [entry EXCEPT ![e].count = Decrement(@),
                                ![e].dirty = (@ \/ flags # {}) /\ "commit" \notin flags]
      /\ free' = FreeAfterDecrement(free, e)
      /\ disk' = IF "commit" \in flags THEN [disk EXCEPT ![b] = entry[e].data] ELSE disk
      /\ frame' = [frame EXCEPT ![f] = Idle]
      /\ open' = open /\ pool' = pool /\ hash' = hash
  BY <1>2 DEF Release, NULL
<1> HIDE DEF b
<1>4. Decrement(entry[e].count) = entry[e].count - 1
      /\ entry[e].count - 1 \in 0..CountMax
  BY <1>2, ConstantFacts DEF Decrement
<1>5. \A x \in Buffers :
        /\ entry'[x].block = entry[x].block /\ entry'[x].data = entry[x].data
        /\ entry'[x].count = IF x = e THEN entry[x].count - 1 ELSE entry[x].count
        /\ entry'[x].dirty = IF x = e
             THEN (entry[x].dirty \/ flags # {}) /\ "commit" \notin flags
             ELSE entry[x].dirty
  BY <1>3, <1>4 DEF IInv, Typed
<1>6. entry' \in [Buffers -> [block : Blocks \cup {0}, count : 0..CountMax,
                              dirty : BOOLEAN, data : Values]]
  <2> DEFINE R == [block : Blocks \cup {0}, count : 0..CountMax,
                    dirty : BOOLEAN, data : Values]
  <2>1. entry \in [Buffers -> R] /\ entry[e] \in R
    BY DEF IInv, Typed
  <2>2. [entry[e] EXCEPT !.count = entry[e].count - 1, !.dirty = (entry[e].dirty \/ flags # {}) /\ "commit" \notin flags] \in R
    BY <1>4, <2>1
  <2> QED BY <1>3, <1>4, <2>1, <2>2
<1>7. frame' \in [Frames -> [buf : 0..pool, block : Blocks \cup {NoBlock},
                             poked : BOOLEAN]]
  BY <1>3, ConstantFacts DEF IInv, Typed, Idle, NULL
<1>8. Typed'
  BY <1>2, <1>3, <1>6, <1>7 DEF IInv, Typed
<1>9. frame'[f] = Idle /\ \A g \in Frames \ {f} : frame'[g] = frame[g]
  BY <1>3 DEF IInv, Typed
<1>10. \A x \in Buffers : entry'[x].dirty => entry[x].dirty \/ x = e
  BY <1>5
<1>11. FreeOK' /\ HashOK' /\ UnusedOK' /\ HeldOK' /\ CountOK' /\ DirtyOK'
  <2>1. \A x \in Buffers :
          /\ entry'[x].block = entry[x].block
          /\ entry'[x].count = IF x = e THEN entry[x].count - 1 ELSE entry[x].count
          /\ entry'[x].dirty => entry[x].dirty \/ x = e
    BY <1>5, <1>10
  <2>2. \A g \in Frames \ {f} : frame'[g] = frame[g] \/ frame'[g] = Idle
    BY <1>9
  <2>3. e = frame[f].buf /\ frame[f] # Idle /\ frame'[f] = Idle
    BY <1>1, <1>2, <1>9
  <2>4. free' = FreeAfterDecrement(free, e) /\ pool' = pool /\ hash' = hash
    BY <1>3
  <2> QED BY <1>6, <2>1, <2>2, <2>3, <2>4, GivenBack
<1>12. CleanOK'
  <2> SUFFICES ASSUME NEW x \in Hashed(hash)
               PROVE  \/ entry'[x].dirty \/ PokedIn(x)'
                      \/ entry'[x].data = disk'[entry'[x].block]
    BY <1>3 DEF CleanOK
  <2>1. x \in Buffers /\ entry[x].block \in Blocks
    BY DEF Hashed, IInv, HashOK, WellHashed
  <2>2. entry[x].dirty \/ PokedIn(x) \/ entry[x].data = disk[entry[x].block]
    BY DEF IInv, CleanOK
  <2>3. CASE x # e
    <3>1. entry[x].block # b
      BY <1>2, <2>3, OneBufferPerBlock DEF IInv, HashOK
    <3>2. disk'[entry[x].block] = disk[entry[x].block]
      BY <1>2, <1>3, <2>1, <3>1 DEF IInv, Typed
    <3>3. PokedIn(x) => PokedIn(x)'
      BY <1>1, <1>9, <2>3 DEF PokedIn
    <3> QED BY <1>5, <2>1, <2>2, <2>3, <3>2, <3>3
  <2>4. CASE x = e /\ flags = {"commit"}
    BY <1>2, <1>3, <1>5, <2>1, <2>4 DEF IInv, Typed
  <2>5. CASE x = e /\ flags = {"dirty"}
    BY <1>5, <2>1, <2>5
  <2>6. CASE x = e /\ flags = {}
    <3>1. PokedIn(x) => PokedIn(x)'
      BY <1>3, <1>9, <2>6 DEF PokedIn
    <3> QED BY <1>3, <1>5, <2>1, <2>2, <2>6, <3>1
  <2> QED BY <2>3, <2>4, <2>5, <2>6
<1> QED BY <1>8, <1>11, <1>12 DEF IInv

LEMMA ReadHitKeeps ==
  ASSUME IInv, NEW b \in Blocks, ReadHit(b)
  PROVE  IInv'
<1>1. PICK e \in Buffers : e = FindEntry(b) /\ e \in 1..pool
  BY FoundFacts DEF ReadHit, NULL
<1>2. /\ free' = IF entry[e].count = 0 THEN SetLast(Unlink(free, e), e) ELSE free
      /\ UNCHANGED <<open, disk, pool, entry, hash, frame>>
  BY <1>1 DEF ReadHit
<1>3. Unused' = Unused
  BY <1>2 DEF Unused
<1>4. FreeOK'
  <2>1. CASE entry[e].count = 0
    <3>1. e \in Unused /\ Unused \in SUBSET Buffers
      BY <1>1, <2>1, UnusedBuffers DEF Unused, IInv
    <3>2. ListOver(Unlink(free, e), Unused \ {e})
      BY <3>1, UnlinkDelists DEF IInv, FreeOK
    <3>3. ListOver(SetLast(Unlink(free, e), e), (Unused \ {e}) \cup {e})
      BY <3>1, <3>2, SetLastLists
    <3>4. (Unused \ {e}) \cup {e} = Unused
      BY <3>1
    <3> QED BY <1>2, <1>3, <2>1, <3>3, <3>4 DEF FreeOK
  <2>2. CASE entry[e].count # 0
    BY <1>2, <1>3, <2>2 DEF IInv, FreeOK
  <2> QED BY <2>1, <2>2
<1>5. Typed' /\ HashOK' /\ HeldOK' /\ CountOK' /\ DirtyOK' /\ CleanOK'
  BY <1>2 DEF IInv, Typed, HashOK, HeldOK, CountOK, DirtyOK, CleanOK, PokedIn
<1>6. UnusedOK'
  BY <1>2, <1>3 DEF IInv, UnusedOK
<1> QED BY <1>4, <1>5, <1>6 DEF IInv

LEMMA WriteHitKeeps ==
  ASSUME IInv, NEW b \in Blocks, NEW v \in Values, WriteHit(b, v)
  PROVE  IInv'
<1>1. PICK e \in Buffers : e = FindEntry(b) /\ e \in Hashed(hash)
  BY FoundFacts DEF WriteHit, NULL
<1>2. /\ entry' = [entry EXCEPT ![e].dirty = TRUE, ![e].data = v]
      /\ UNCHANGED <<open, disk, pool, hash, free, frame>>
  BY <1>1 DEF WriteHit
<1>3. \A x \in Buffers :
        /\ entry'[x].block = entry[x].block /\ entry'[x].count = entry[x].count
        /\ entry'[x].data = IF x = e THEN v ELSE entry[x].data
        /\ entry'[x].dirty = IF x = e THEN TRUE ELSE entry[x].dirty
  BY <1>1, <1>2 DEF IInv, Typed
<1>4. Typed'
  <2> DEFINE R == [block : Blocks \cup {0}, count : 0..CountMax,
                    dirty : BOOLEAN, data : Values]
  <2>1. entry \in [Buffers -> R]
    BY DEF IInv, Typed
  <2>2. entry[e] \in R
    BY <1>1, <2>1
  <2>3. [entry[e] EXCEPT !.dirty = TRUE, !.data = v] \in R
    BY <2>2
  <2>4. entry' \in [Buffers -> R]
    BY <1>1, <1>2, <2>1, <2>3
  <2> QED BY <1>2, <2>4 DEF IInv, Typed
<1>5. FreeOK' /\ Unused' = Unused /\ HashOK'
  BY <1>2, <1>3, ListKept, TableKept
<1>6. UnusedOK' /\ DirtyOK'
  <2>1. UnusedOK /\ DirtyOK /\ Unused \subseteq Buffers /\ Hashed(hash') = Hashed(hash)
    BY <1>2, UnusedBuffers DEF IInv
  <2> QED BY <1>1, <1>3, <1>5, <2>1 DEF UnusedOK, DirtyOK
<1>7. HeldOK' /\ CountOK' /\ CleanOK'
  <2>1. HeldOK'
    <3>1. HeldOK /\ Hashed(hash) \subseteq Buffers /\ Hashed(hash') = Hashed(hash)
      BY <1>2 DEF IInv, Hashed
    <3>2. frame' = frame /\ disk' = disk
      BY <1>2
    <3> QED BY <1>3, <3>1, <3>2 DEF HeldOK
  <2>2. CountOK'
    BY <1>2, <1>3 DEF IInv, CountOK
  <2>3. CleanOK'
    <3>1. CleanOK /\ Hashed(hash) \subseteq Buffers /\ Hashed(hash') = Hashed(hash)
      BY <1>2 DEF IInv, Hashed
    <3>2. frame' = frame /\ disk' = disk
      BY <1>2
    <3> QED BY <1>3, <3>1, <3>2 DEF CleanOK, PokedIn
  <2> QED BY <2>1, <2>2, <2>3
<1> QED BY <1>4, <1>5, <1>6, <1>7 DEF IInv

-----------------------------------------------------------------------------
(* Misses.                                                                 *)

(* The buffer a miss gets is nobody's and leaves nothing of itself behind: *)
(* its old content is on the device, its old block is not in the table and *)
(* it is not on the list.                                                  *)
LEMMA VictimFacts ==
  ASSUME IInv, 0 \notin Blocks, HasVictim
  PROVE  /\ Victim \in Buffers
         /\ \A f \in Frames : frame[f].buf # Victim
         /\ WellHashed(HashWithoutVictim, entry)
         /\ Hashed(HashWithoutVictim) = Hashed(hash) \ {Victim}
         /\ ListOver(FreeWithoutVictim, Unused \ {Victim})
         /\ WrittenBack \in [Blocks -> Values]
         /\ \A x \in Hashed(hash) \ {Victim} :
              WrittenBack[entry[x].block] = disk[entry[x].block]
<1>1. CASE Reused
  <2>1. PICK e \in Unused : e = free.first
    BY <1>1 DEF Reused, NULL, IInv, FreeOK, ListOver, Ends
  <2>2. Victim = e /\ e \in Buffers /\ entry[e].count = 0
    BY <1>1, <2>1, UnusedBuffers DEF Victim, Unused, IInv
  <2>3. \A f \in Frames : frame[f].buf # e
    <3>1. Cardinality(Holders(frame, e)) \in Nat /\ Cardinality(Holders(frame, e)) <= 0
      BY <2>2, HoldersCount DEF IInv, CountOK
    <3> QED BY <3>1, HoldersCount
  <2>4. ListOver(FreeWithoutVictim, Unused \ {e})
    BY <1>1, <2>1, UnusedBuffers, ClearedFirst
    DEF FreeWithoutVictim, Reused, NULL, IInv, FreeOK
  <2>5. /\ WellHashed(HashWithoutVictim, entry)
        /\ Hashed(HashWithoutVictim) = Hashed(hash) \ {e}
    <3>1. HashWithoutVictim = RemoveEntry(entry[e].block)
      BY <1>1, <2>1 DEF HashWithoutVictim
    <3>2. CASE e \in Hashed(hash)
      <4>1. entry[e].block \in Blocks
        BY <3>2 DEF IInv, HashOK, WellHashed, Hashed
      <4>2. FindEntry(entry[e].block) = e
        BY <3>2, <4>1, FoundFacts
      <4> QED BY <3>1, <4>1, <4>2, RemoveEntryFacts DEF IInv, HashOK
    <3>3. CASE e \notin Hashed(hash)
      <4>1. entry[e].block = 0
        BY <2>1, <3>3 DEF IInv, UnusedOK
      <4>2. PICK c \in Chains : c = hashFunction(0)
        BY CacheAssumption DEF hashFunction, Chains
      <4>3. PICK chain \in Seq(Buffers) : chain = hash[c]
        BY DEF IInv, HashOK, WellHashed
      <4>4. /\ \A i \in 1..Len(chain) : entry[chain[i]].block # 0
            /\ \A i, j \in 1..Len(chain) :
                 entry[chain[i]].block = entry[chain[j]].block => i = j
        BY <4>3 DEF IInv, HashOK, WellHashed
      <4>5. Position(chain, 0) = 0
        BY <4>4, PositionFacts
      <4>6. RemoveEntry(0) = hash
        BY <4>2, <4>3, <4>5 DEF RemoveEntry
      <4> QED BY <3>1, <3>3, <4>1, <4>6 DEF IInv, HashOK
    <3> QED BY <3>2, <3>3
  <2>6. CASE entry[e].dirty
    <3>1. e \in Hashed(hash) /\ entry[e].block \in Blocks
      BY <2>2, <2>6 DEF IInv, DirtyOK, HashOK, WellHashed, Hashed
    <3>2. WrittenBack = [disk EXCEPT ![entry[e].block] = entry[e].data]
      BY <1>1, <2>1, <2>6 DEF WrittenBack
    <3>3. WrittenBack \in [Blocks -> Values]
      BY <2>2, <3>1, <3>2 DEF IInv, Typed
    <3>4. \A x \in Hashed(hash) \ {e} :
            entry[x].block \in Blocks /\ entry[x].block # entry[e].block
      BY <3>1, OneBufferPerBlock DEF IInv, HashOK, WellHashed, Hashed
    <3> QED BY <2>2, <2>3, <2>4, <2>5, <3>2, <3>3, <3>4 DEF IInv, Typed
  <2>7. CASE ~entry[e].dirty
    BY <2>1, <2>2, <2>3, <2>4, <2>5, <2>7 DEF WrittenBack, IInv, Typed
  <2> QED BY <2>6, <2>7
<1>2. CASE ~Reused
  <2>1. Victim = pool + 1 /\ pool + 1 \in Buffers /\ pool + 1 \notin 1..pool
    BY <1>2, ConstantFacts DEF Victim, HasVictim, IInv, Typed, Buffers
  <2>2. /\ WrittenBack = disk /\ HashWithoutVictim = hash /\ FreeWithoutVictim = free
    BY <1>2 DEF WrittenBack, HashWithoutVictim, FreeWithoutVictim
  <2>3. Hashed(hash) = Hashed(hash) \ {pool + 1} /\ Unused = Unused \ {pool + 1}
    BY <2>1 DEF IInv, HashOK, Unused
  <2>4. \A f \in Frames : frame[f].buf # pool + 1
    BY <2>1, ConstantFacts DEF IInv, Typed
  <2> QED BY <2>1, <2>2, <2>3, <2>4 DEF IInv, Typed, HashOK, FreeOK
<1> QED BY <1>1, <1>2

(* What a miss makes of its buffer, when the device call succeeds.         *)
LEMMA MissKeeps ==
  ASSUME IInv, 0 \notin Blocks, NEW b \in Blocks, FindEntry(b) = 0, NewEntry,
         NEW n \in {0, 1}, NEW d \in BOOLEAN, NEW w \in Values, d \/ w = WrittenBack[b],
         entry' = Filled(b, n, d, w), open' = open,
         hash' = AddEntry(HashWithoutVictim, Victim, b),
         free' = IF n = 0 THEN SetLast(FreeWithoutVictim, Victim) ELSE FreeWithoutVictim,
         \/ n = 0 /\ frame' = frame
         \/ n = 1 /\ \E f \in Frames : frame[f] = Idle /\
              frame' = [frame EXCEPT ![f] = [buf |-> Victim, block |-> b, poked |-> FALSE]]
  PROVE  IInv'
<1>1. PICK v \in Buffers : v = Victim
  BY VictimFacts DEF NewEntry
<1>2. PICK h : h = HashWithoutVictim
  OBVIOUS
<1>3. /\ \A f \in Frames : frame[f].buf # v
      /\ WellHashed(h, entry) /\ Hashed(h) = Hashed(hash) \ {v}
      /\ ListOver(FreeWithoutVictim, Unused \ {v})
      /\ WrittenBack \in [Blocks -> Values]
      /\ \A x \in Hashed(hash) \ {v} : WrittenBack[entry[x].block] = disk[entry[x].block]
  BY <1>1, <1>2, VictimFacts DEF NewEntry
<1>4. /\ disk' = WrittenBack /\ pool' \in PoolSize..MaxBuffers
      /\ v \in 1..pool' /\ pool' = (IF v \in 1..pool THEN pool ELSE pool + 1)
      /\ 1..pool' = 1..pool \cup {v} /\ 0..pool \subseteq 0..pool'
  <2>1. CASE Reused
    <3>1. v \in Unused
      BY <1>1, <2>1 DEF Victim, Reused, NULL, IInv, FreeOK, ListOver, Ends
    <3> QED BY <2>1, <3>1, ConstantFacts DEF NewEntry, IInv, Typed, Unused
  <2>2. CASE ~Reused
    <3>1. v = pool + 1 /\ pool < MaxBuffers /\ pool' = pool + 1 /\ disk' = WrittenBack
      BY <1>1, <2>2 DEF NewEntry, HasVictim, Victim
    <3>2. pool \in Nat /\ pool >= PoolSize
      BY ConstantFacts DEF IInv, Typed
    <3>3. v \notin 1..pool /\ v \in 1..pool' /\ pool' \in PoolSize..MaxBuffers
      BY <3>1, <3>2, ConstantFacts
    <3>4. 1..pool' = 1..pool \cup {v} /\ 0..pool \subseteq 0..pool'
      BY <3>1, <3>2
    <3> QED BY <3>1, <3>3, <3>4
  <2> QED BY <2>1, <2>2
<1>5. /\ entry'[v] = [block |-> b, count |-> n, dirty |-> d, data |-> w]
      /\ \A x \in Buffers \ {v} : entry'[x] = entry[x]
      /\ entry' \in [Buffers -> [block : Blocks \cup {0}, count : 0..CountMax,
                                 dirty : BOOLEAN, data : Values]]
  BY <1>1, ConstantFacts DEF Filled, IInv, Typed
<1>6. \A x \in Hashed(hash) : entry[x].block # b
  BY FoundFacts
<1>7. WellHashed(hash', entry') /\ Hashed(hash') = Hashed(hash) \cup {v}
  <2>1. v \notin Hashed(h) /\ \A x \in Hashed(h) : entry[x].block # b
    BY <1>3, <1>6
  <2>2. entry'[v].block = b
    BY <1>5
  <2>3. hash' = AddEntry(h, v, b)
    BY <1>1, <1>2
  <2>4. WellHashed(AddEntry(h, v, b), entry') /\ Hashed(AddEntry(h, v, b)) = Hashed(h) \cup {v}
    BY <1>3, <1>5, <2>1, <2>2, AddEntryFacts
  <2> QED BY <1>3, <2>3, <2>4
<1>8. HashOK'
  BY <1>4, <1>7 DEF IInv, HashOK
<1>9. Unused' = IF n = 0 THEN (Unused \ {v}) \cup {v} ELSE Unused \ {v}
  <2>1. entry'[v].count = n
    BY <1>5
  <2>2. \A x \in 1..pool' : x \in Buffers
    BY <1>4, ConstantFacts DEF Buffers
  <2>3. \A x \in 1..pool' : x # v => x \in 1..pool /\ entry'[x].count = entry[x].count
    BY <1>4, <1>5, <2>2
  <2>4. \A x \in 1..pool : x \in 1..pool'
    BY <1>4
  <2> QED BY <1>4, <2>1, <2>3, <2>4 DEF Unused
<1>10. FreeOK'
  <2>1. Unused \ {v} \in SUBSET Buffers
    BY UnusedBuffers DEF IInv
  <2>2. CASE n = 0
    BY <1>1, <1>3, <1>9, <2>1, <2>2, SetLastLists DEF FreeOK
  <2>3. CASE n = 1
    BY <1>3, <1>9, <2>3 DEF FreeOK
  <2> QED BY <2>2, <2>3
<1>11. UnusedOK'
  <2>1. ASSUME NEW x \in Unused', x # v PROVE x \in Hashed(hash') \/ entry'[x].block = 0
    <3>1. x \in Unused /\ x \in Buffers
      BY <1>9, <2>1, UnusedBuffers DEF IInv
    <3> QED BY <1>5, <1>7, <2>1, <3>1 DEF IInv, UnusedOK
  <2> QED BY <1>7, <2>1 DEF UnusedOK
<1>12. DirtyOK'
  BY <1>5, <1>7 DEF IInv, DirtyOK
<1>13. Typed'
  <2>1. frame' \in [Frames -> [buf : 0..pool', block : Blocks \cup {NoBlock},
                               poked : BOOLEAN]]
    <3>1. frame \in [Frames -> [buf : 0..pool', block : Blocks \cup {NoBlock},
                                poked : BOOLEAN]]
      <4> SUFFICES ASSUME NEW g \in Frames
                   PROVE  frame[g] \in [buf : 0..pool', block : Blocks \cup {NoBlock},
                                       poked : BOOLEAN]
        BY DEF IInv, Typed
      <4>1. frame[g] \in [buf : 0..pool, block : Blocks \cup {NoBlock}, poked : BOOLEAN]
        BY DEF IInv, Typed
      <4>2. 0..pool \subseteq 0..pool'
        BY <1>4
      <4> QED BY <4>1, <4>2
    <3>2. v \in 0..pool'
      BY <1>4
    <3>3. [buf |-> v, block |-> b, poked |-> FALSE]
            \in [buf : 0..pool', block : Blocks \cup {NoBlock}, poked : BOOLEAN]
      BY <3>2
    <3>4. CASE frame' = frame
      BY <3>1, <3>4
    <3>5. CASE \E f \in Frames :
                 frame' = [frame EXCEPT ![f] = [buf |-> v, block |-> b, poked |-> FALSE]]
      BY <3>1, <3>3, <3>5
    <3> QED BY <1>1, <3>4, <3>5
  <2>2. disk' \in [Blocks -> Values] /\ open' \in BOOLEAN
    BY <1>3, <1>4 DEF IInv, Typed
  <2> QED BY <1>4, <1>5, <2>1, <2>2 DEF Typed
<1>14. HeldOK'
  <2>1. ASSUME NEW g \in Frames, frame[g] # Idle, frame'[g] = frame[g]
        PROVE  frame'[g].buf \in Hashed(hash') /\ entry'[frame'[g].buf].block = frame'[g].block
    <3>1. frame[g].buf \in Hashed(hash) /\ frame[g].buf \in Buffers \ {v}
      BY <1>3, <2>1 DEF IInv, HeldOK, Hashed
    <3> QED BY <1>5, <1>7, <2>1, <3>1 DEF IInv, HeldOK
  <2>2. ASSUME NEW g \in Frames,
               frame'[g] = [buf |-> v, block |-> b, poked |-> FALSE]
        PROVE  frame'[g].buf \in Hashed(hash') /\ entry'[frame'[g].buf].block = frame'[g].block
    BY <1>5, <1>7, <2>2
  <2>3. \A g \in Frames : \/ frame'[g] = frame[g]
                           \/ frame'[g] = [buf |-> v, block |-> b, poked |-> FALSE]
    BY <1>1 DEF IInv, Typed
  <2> QED BY <2>1, <2>2, <2>3 DEF HeldOK
<1>15. CountOK'
  <2> SUFFICES ASSUME NEW x \in Buffers
               PROVE  Cardinality(Holders(frame', x)) <= entry'[x].count
    BY DEF CountOK
  <2>1. PICK m \in Nat : m = Cardinality(Holders(frame, x))
    BY HoldersCount
  <2>2. m <= entry[x].count /\ entry[x].count \in Nat
    BY <2>1, ConstantFacts DEF IInv, CountOK, Typed
  <2>3. x = v => m = 0
    BY <1>3, <2>1, HoldersCount
  <2>4. entry'[x].count = IF x = v THEN n ELSE entry[x].count
    BY <1>5
  <2>5. CASE n = 0 /\ frame' = frame
    BY <2>1, <2>2, <2>3, <2>4, <2>5
  <2>6. CASE n = 1
    <3>1. PICK f \in Frames : frame[f] = Idle /\
            frame' = [frame EXCEPT ![f] = [buf |-> v, block |-> b, poked |-> FALSE]]
      BY <1>1, <2>6
    <3>2. /\ frame[f].buf = 0 /\ frame'[f].buf = v
          /\ \A g \in Frames \ {f} : frame'[g].buf = frame[g].buf
      BY <3>1 DEF IInv, Typed, Idle, NULL
    <3>3. Cardinality(Holders(frame', x)) = IF x = v THEN m + 1 ELSE m
      BY <2>1, <3>2, FrameTakes
    <3> QED BY <2>2, <2>3, <2>4, <2>6, <3>3
  <2> QED BY <2>5, <2>6
<1>16. CleanOK'
  <2> SUFFICES ASSUME NEW x \in Hashed(hash')
               PROVE  \/ entry'[x].dirty \/ PokedIn(x)'
                      \/ entry'[x].data = disk'[entry'[x].block]
    BY DEF CleanOK
  <2>1. CASE x = v
    BY <1>4, <1>5, <2>1
  <2>2. CASE x # v
    <3>1. x \in Hashed(hash) /\ x \in Buffers
      BY <1>7, <2>2 DEF Hashed
    <3>2. entry[x].dirty \/ PokedIn(x) \/ entry[x].data = disk[entry[x].block]
      BY <3>1 DEF IInv, CleanOK
    <3>3. disk'[entry[x].block] = disk[entry[x].block]
      BY <1>3, <1>4, <2>2, <3>1
    <3>4. PokedIn(x) => PokedIn(x)'
      <4>1. \A g \in Frames : frame[g].poked => frame'[g] = frame[g]
        BY DEF IInv, Typed, Idle
      <4> QED BY <4>1 DEF PokedIn
    <3> QED BY <1>5, <2>2, <3>1, <3>2, <3>3, <3>4
  <2> QED BY <2>1, <2>2
<1> QED BY <1>8, <1>10, <1>11, <1>12, <1>13, <1>14, <1>15, <1>16 DEF IInv

LEMMA MissesKeep ==
  ASSUME IInv, 0 \notin Blocks, NEW b \in Blocks,
         \/ \E f \in Frames : AcquireMiss(f, b)
         \/ ReadMiss(b)
         \/ \E v \in Values : WriteMiss(b, v)
  PROVE  IInv'
<1>1. WrittenBack \in [Blocks -> Values]
  <2>1. HasVictim
    BY DEF AcquireMiss, ReadMiss, WriteMiss, NewEntry
  <2> QED BY <2>1, VictimFacts
<1>2. WrittenBack[b] \in Values
  BY <1>1
<1>3. ASSUME NEW f \in Frames, AcquireMiss(f, b) PROVE IInv'
  <2>1. /\ FindEntry(b) = 0 /\ NewEntry /\ frame[f] = Idle /\ open' = open
        /\ entry' = Filled(b, 1, FALSE, WrittenBack[b])
        /\ hash' = AddEntry(HashWithoutVictim, Victim, b) /\ free' = FreeWithoutVictim
        /\ frame' = [frame EXCEPT ![f] = [buf |-> Victim, block |-> b, poked |-> FALSE]]
    BY <1>3 DEF AcquireMiss, NULL
  <2>2. \E g \in Frames : frame[g] = Idle /\
          frame' = [frame EXCEPT ![g] = [buf |-> Victim, block |-> b, poked |-> FALSE]]
    BY <2>1
  <2>3. free' = IF 1 = 0 THEN SetLast(FreeWithoutVictim, Victim) ELSE FreeWithoutVictim
    BY <2>1
  <2> QED BY <1>2, <2>1, <2>2, <2>3, MissKeeps
<1>4. CASE ReadMiss(b)
  <2>1. /\ FindEntry(b) = 0 /\ NewEntry /\ open' = open /\ frame' = frame
        /\ entry' = Filled(b, 0, FALSE, WrittenBack[b])
        /\ hash' = AddEntry(HashWithoutVictim, Victim, b)
        /\ free' = SetLast(FreeWithoutVictim, Victim)
    BY <1>4 DEF ReadMiss, NULL
  <2> QED BY <1>2, <2>1, MissKeeps
<1>5. ASSUME NEW v \in Values, WriteMiss(b, v) PROVE IInv'
  <2>1. /\ FindEntry(b) = 0 /\ NewEntry /\ open' = open /\ frame' = frame
        /\ entry' = Filled(b, 0, TRUE, v)
        /\ hash' = AddEntry(HashWithoutVictim, Victim, b)
        /\ free' = SetLast(FreeWithoutVictim, Victim)
    BY <1>5 DEF WriteMiss, NULL
  <2> QED BY <2>1, MissKeeps
<1> QED BY <1>3, <1>4, <1>5

-----------------------------------------------------------------------------
(* Flushing, and the frames an exception unwinds.                          *)

(* The device after buffers 1..n were written if dirty: no two of them     *)
(* have the same block.                                                    *)
LEMMA FlushFacts ==
  ASSUME IInv, NEW n \in 0..pool
  PROVE  /\ FlushUpTo(n) \in [Blocks -> Values]
         /\ \A x \in Hashed(hash) :
              FlushUpTo(n)[entry[x].block] =
                IF entry[x].dirty /\ x <= n THEN entry[x].data ELSE disk[entry[x].block]
<1> DEFINE D(b) == {e \in 1..n : entry[e].dirty /\ entry[e].block = b}
<1>1. 1..n \subseteq Buffers /\ n \in Nat
  BY ConstantFacts DEF IInv, Typed, Buffers
<1>2. ASSUME NEW b \in Blocks, NEW x \in D(b)
      PROVE  /\ D(b) = {x} /\ Max(D(b)) = x
             /\ x \in Hashed(hash) /\ entry[x].data \in Values
  <2>1. \A y \in D(b) : y \in Hashed(hash) /\ entry[y].block = b
    BY <1>1 DEF IInv, DirtyOK
  <2>2. D(b) = {x}
    BY <2>1, OneBufferPerBlock DEF IInv, HashOK
  <2>3. Max({x}) = x
    BY DEF Max
  <2> QED BY <1>1, <2>1, <2>2, <2>3 DEF IInv, Typed
<1>3. \A b \in Blocks : FlushUpTo(n)[b] = IF D(b) = {} THEN disk[b] ELSE entry[Max(D(b))].data
  BY DEF FlushUpTo
<1>4. ASSUME NEW b \in Blocks
      PROVE  (IF D(b) = {} THEN disk[b] ELSE entry[Max(D(b))].data) \in Values
  <2>1. CASE D(b) = {}
    BY <2>1 DEF IInv, Typed
  <2>2. CASE D(b) # {}
    BY <1>2, <2>2
  <2> QED BY <2>1, <2>2
<1>5. FlushUpTo(n) \in [Blocks -> Values]
  BY <1>4 DEF FlushUpTo
<1>6. ASSUME NEW x \in Hashed(hash)
      PROVE  FlushUpTo(n)[entry[x].block] =
               IF entry[x].dirty /\ x <= n THEN entry[x].data ELSE disk[entry[x].block]
  <2>1. entry[x].block \in Blocks /\ x \in Buffers /\ x \in 1..pool
    BY DEF IInv, HashOK, WellHashed, Hashed
  <2>2. CASE entry[x].dirty /\ x <= n
    <3>1. x \in D(entry[x].block)
      BY <1>1, <2>1, <2>2
    <3> QED BY <1>2, <1>3, <2>1, <2>2, <3>1
  <2>3. CASE ~(entry[x].dirty /\ x <= n)
    <3>1. ASSUME NEW y \in D(entry[x].block) PROVE FALSE
      <4>1. y \in Hashed(hash) /\ entry[y].block = entry[x].block
        BY <1>2, <2>1
      <4>2. y = x
        BY <4>1, OneBufferPerBlock DEF IInv, HashOK
      <4> QED BY <2>3, <4>2
    <3>2. D(entry[x].block) = {}
      BY <3>1
    <3> QED BY <1>3, <2>1, <2>3, <3>2
  <2> QED BY <2>2, <2>3
<1> QED BY <1>5, <1>6

LEMMA FramesDropped ==
  ASSUME frame' = [f \in Frames |-> Idle], pool' \in Nat,
         entry' \in [Buffers -> [block : Blocks \cup {0}, count : 0..CountMax,
                                 dirty : BOOLEAN, data : Values]]
  PROVE  /\ HeldOK' /\ CountOK'
         /\ frame' \in [Frames -> [buf : 0..pool', block : Blocks \cup {NoBlock},
                                  poked : BOOLEAN]]
<1>1. HeldOK'
  BY DEF HeldOK
<1>2. CountOK'
  <2>1. ASSUME NEW x \in Buffers
        PROVE  Cardinality(Holders(frame', x)) <= entry'[x].count
    <3>1. Holders(frame', x) = {}
      BY PointerFacts DEF Holders, Idle, NULL
    <3>2. entry'[x].count \in Nat
      BY ConstantFacts
    <3> QED BY <3>1, <3>2, FS_EmptySet
  <2> QED BY <2>1 DEF CountOK
<1>3. Idle \in [buf : 0..pool', block : Blocks \cup {NoBlock}, poked : BOOLEAN]
  BY DEF Idle, NULL
<1> QED BY <1>1, <1>2, <1>3

LEMMA FlushKeeps ==
  ASSUME IInv, NEW n \in 0..pool, disk' = FlushUpTo(n), entry' = CleanUpTo(n),
         UNCHANGED <<open, pool, hash, free>>,
         \/ frame' = frame
         \/ /\ frame' = [f \in Frames |-> Idle]
            /\ \A f \in Frames : ~frame[f].poked
  PROVE  IInv'
<1>1. \A x \in Buffers :
        /\ entry'[x].block = entry[x].block /\ entry'[x].count = entry[x].count
        /\ entry'[x].data = entry[x].data
        /\ entry'[x].dirty = IF x <= n THEN FALSE ELSE entry[x].dirty
  BY DEF CleanUpTo, IInv, Typed
<1>2. entry' \in [Buffers -> [block : Blocks \cup {0}, count : 0..CountMax,
                              dirty : BOOLEAN, data : Values]]
  <2>1. \A x \in Buffers :
          entry[x] \in [block : Blocks \cup {0}, count : 0..CountMax,
                        dirty : BOOLEAN, data : Values]
    BY DEF IInv, Typed
  <2>2. \A x \in Buffers :
          [entry[x] EXCEPT !.dirty = FALSE]
             \in [block : Blocks \cup {0}, count : 0..CountMax,
                  dirty : BOOLEAN, data : Values]
    BY <2>1
  <2> QED BY <2>1, <2>2 DEF CleanUpTo
<1>3. FreeOK' /\ Unused' = Unused /\ HashOK'
  BY <1>1, ListKept, TableKept
<1>4. UnusedOK' /\ DirtyOK'
  BY <1>1, <1>3, UnusedBuffers DEF IInv, UnusedOK, DirtyOK
<1>5. /\ HeldOK' /\ CountOK'
      /\ frame' \in [Frames -> [buf : 0..pool', block : Blocks \cup {NoBlock},
                               poked : BOOLEAN]]
  <2>1. CASE frame' = frame
    <3>1. HeldOK'
      BY <1>1, <2>1 DEF IInv, HeldOK, Hashed
    <3>2. CountOK'
      BY <1>1, <2>1 DEF IInv, CountOK
    <3> QED BY <2>1, <3>1, <3>2 DEF IInv, Typed
  <2>2. CASE frame' = [f \in Frames |-> Idle]
    <3>1. pool' \in Nat
      BY ConstantFacts DEF IInv, Typed
    <3> QED BY <1>2, <2>2, <3>1, FramesDropped
  <2> QED BY <2>1, <2>2
<1>6. Typed'
  BY <1>2, <1>5, FlushFacts DEF IInv, Typed
<1>7. CleanOK'
  <2> SUFFICES ASSUME NEW x \in Hashed(hash)
               PROVE  \/ entry'[x].dirty \/ PokedIn(x)'
                      \/ entry'[x].data = disk'[entry'[x].block]
    BY DEF CleanOK
  <2>1. x \in Buffers
    BY DEF Hashed
  <2>2. entry[x].dirty \/ PokedIn(x) \/ entry[x].data = disk[entry[x].block]
    BY DEF IInv, CleanOK
  <2>3. disk'[entry[x].block] =
          IF entry[x].dirty /\ x <= n THEN entry[x].data ELSE disk[entry[x].block]
    BY FlushFacts
  <2>4. PokedIn(x) => PokedIn(x)'
    BY DEF PokedIn
  <2> QED BY <1>1, <2>1, <2>2, <2>3, <2>4
<1> QED BY <1>3, <1>4, <1>5, <1>6, <1>7 DEF IInv

-----------------------------------------------------------------------------
(* Device errors.                                                          *)

LEMMA ReadFailsKeeps ==
  ASSUME IInv, 0 \notin Blocks, NEW b \in Blocks, ReadFails(b)
  PROVE  IInv'
<1>1. PICK v \in Buffers : v = Victim
  BY VictimFacts DEF ReadFails, NewEntry
<1>2. PICK h : h = HashWithoutVictim
  OBVIOUS
<1>3. /\ WellHashed(h, entry) /\ Hashed(h) = Hashed(hash) \ {v}
      /\ ListOver(FreeWithoutVictim, Unused \ {v})
      /\ WrittenBack \in [Blocks -> Values]
      /\ \A x \in Hashed(hash) \ {v} : WrittenBack[entry[x].block] = disk[entry[x].block]
  BY <1>1, <1>2, VictimFacts DEF ReadFails, NewEntry
<1>4. /\ disk' = WrittenBack /\ pool' = (IF Reused THEN pool ELSE pool + 1) /\ HasVictim
      /\ free' = FreeWithoutVictim /\ hash' = h /\ open' = open
      /\ entry' = Filled(b, 1, FALSE, entry[v].data)
      /\ frame' = [f \in Frames |-> Idle] /\ \A f \in Frames : ~frame[f].poked
  BY <1>1, <1>2 DEF ReadFails, NewEntry, Throws, Unwound
<1>5. /\ entry'[v] = [block |-> b, count |-> 1, dirty |-> FALSE, data |-> entry[v].data]
      /\ \A x \in Buffers \ {v} : entry'[x] = entry[x]
      /\ entry' \in [Buffers -> [block : Blocks \cup {0}, count : 0..CountMax,
                                 dirty : BOOLEAN, data : Values]]
  BY <1>1, <1>4, ConstantFacts DEF Filled, IInv, Typed
<1>6. /\ pool' \in PoolSize..MaxBuffers /\ pool' \in Nat /\ 1..pool \subseteq 1..pool'
      /\ \A x \in 1..pool' : x # v => x \in 1..pool
  <2>1. pool \in Nat /\ pool >= PoolSize /\ pool <= MaxBuffers
    BY ConstantFacts DEF IInv, Typed
  <2>2. CASE Reused
    BY <1>4, <2>1, <2>2, ConstantFacts
  <2>3. CASE ~Reused
    BY <1>1, <1>4, <2>1, <2>3, ConstantFacts DEF HasVictim, Victim
  <2> QED BY <2>2, <2>3
<1>7. Unused' = Unused \ {v}
  <2>1. \A x \in 1..pool' : x \in Buffers
    BY <1>6, ConstantFacts DEF Buffers
  <2> QED BY <1>5, <1>6, <2>1 DEF Unused
<1>8. FreeOK'
  BY <1>3, <1>4, <1>7 DEF FreeOK
<1>9. HashOK'
  <2>1. \A x \in Hashed(h) : entry'[x].block = entry[x].block
    BY <1>3, <1>5 DEF Hashed
  <2>2. WellHashed(h, entry')
    BY <1>3, <2>1, SameBlocks
  <2> QED BY <1>3, <1>4, <1>6, <2>2 DEF IInv, HashOK
<1>10. UnusedOK'
  <2>1. \A x \in Unused' : x \in Unused /\ x \in Buffers \ {v}
    BY <1>7, UnusedBuffers DEF IInv
  <2> QED BY <1>3, <1>4, <1>5, <2>1 DEF IInv, UnusedOK
<1>11. DirtyOK'
  <2>1. ASSUME NEW x \in Buffers, entry'[x].dirty PROVE x \in Hashed(hash')
    <3>1. x # v
      BY <1>5, <2>1
    <3>2. x \in Hashed(hash)
      BY <1>5, <2>1, <3>1 DEF IInv, DirtyOK
    <3>3. Hashed(hash') = Hashed(hash) \ {v}
      BY <1>3, <1>4
    <3> QED BY <3>1, <3>2, <3>3
  <2> QED BY <2>1 DEF DirtyOK
<1>12. Typed' /\ HeldOK' /\ CountOK'
  BY <1>3, <1>4, <1>5, <1>6, FramesDropped DEF IInv, Typed
<1>13. CleanOK'
  <2>1. ASSUME NEW x \in Hashed(hash')
        PROVE  entry'[x].dirty \/ entry'[x].data = disk'[entry'[x].block]
    <3>0. Hashed(hash') = Hashed(hash) \ {v} /\ x \in Buffers
      BY <1>3, <1>4 DEF Hashed
    <3>1. x \in Hashed(hash) /\ x # v /\ entry'[x] = entry[x]
      BY <1>5, <3>0
    <3>2. entry[x].dirty \/ entry[x].data = disk[entry[x].block]
      BY <1>4, <3>1 DEF IInv, CleanOK, PokedIn
    <3> QED BY <1>3, <1>4, <3>1, <3>2
  <2> QED BY <2>1 DEF CleanOK
<1> QED BY <1>8, <1>9, <1>10, <1>11, <1>12, <1>13 DEF IInv

LEMMA CommitFailsKeeps ==
  ASSUME IInv, NEW f \in Frames, CommitFails(f)
  PROVE  IInv'
<1>1. PICK e \in Buffers : e = frame[f].buf
  BY HeldFacts DEF CommitFails
<1>2. /\ FindEntry(frame[f].block) = e /\ frame[f] # Idle
      /\ entry[e].count \in 1..CountMax
  BY <1>1, HeldFacts DEF CommitFails
<1>3. /\ entry' = [entry EXCEPT ![e].count = Decrement(@), ![e].dirty = TRUE]
      /\ free' = FreeAfterDecrement(free, e)
      /\ disk' = disk /\ pool' = pool /\ hash' = hash /\ open' = open
      /\ frame' = [g \in Frames |-> Idle]
      /\ \A g \in Frames \ {f} : ~frame[g].poked
  BY <1>2 DEF CommitFails, Throws, Unwound
<1>4. Decrement(entry[e].count) = entry[e].count - 1
      /\ entry[e].count - 1 \in 0..CountMax
  BY <1>2, ConstantFacts DEF Decrement
<1>5. \A x \in Buffers :
        /\ entry'[x].block = entry[x].block /\ entry'[x].data = entry[x].data
        /\ entry'[x].count = IF x = e THEN entry[x].count - 1 ELSE entry[x].count
        /\ entry'[x].dirty = IF x = e THEN TRUE ELSE entry[x].dirty
  BY <1>3, <1>4 DEF IInv, Typed
<1>6. entry' \in [Buffers -> [block : Blocks \cup {0}, count : 0..CountMax,
                              dirty : BOOLEAN, data : Values]]
  <2> DEFINE R == [block : Blocks \cup {0}, count : 0..CountMax,
                    dirty : BOOLEAN, data : Values]
  <2>1. entry \in [Buffers -> R] /\ entry[e] \in R
    BY DEF IInv, Typed
  <2>2. [entry[e] EXCEPT !.count = entry[e].count - 1, !.dirty = TRUE] \in R
    BY <1>4, <2>1
  <2> QED BY <1>3, <1>4, <2>1, <2>2
<1>7. FreeOK' /\ HashOK' /\ UnusedOK' /\ HeldOK' /\ CountOK' /\ DirtyOK'
  <2>1. \A x \in Buffers :
          /\ entry'[x].block = entry[x].block
          /\ entry'[x].count = IF x = e THEN entry[x].count - 1 ELSE entry[x].count
          /\ entry'[x].dirty => entry[x].dirty \/ x = e
    BY <1>5
  <2>2. frame'[f] = Idle /\ \A g \in Frames \ {f} : frame'[g] = frame[g] \/ frame'[g] = Idle
    BY <1>3
  <2>3. free' = FreeAfterDecrement(free, e) /\ pool' = pool /\ hash' = hash
    BY <1>3
  <2> QED BY <1>1, <1>2, <1>6, <2>1, <2>2, <2>3, GivenBack
<1>8. Typed'
  <2>1. pool' \in Nat
    BY <1>3, ConstantFacts DEF IInv, Typed
  <2> QED BY <1>3, <1>6, <2>1, FramesDropped DEF IInv, Typed
<1>9. CleanOK'
  <2>1. ASSUME NEW x \in Hashed(hash), x # e
        PROVE  entry'[x].dirty \/ entry'[x].data = disk'[entry'[x].block]
    <3>1. x \in Buffers /\ ~PokedIn(x)
      BY <1>1, <1>3, <2>1 DEF Hashed, PokedIn
    <3> QED BY <1>3, <1>5, <2>1, <3>1 DEF IInv, CleanOK
  <2> QED BY <1>3, <1>5, <2>1 DEF CleanOK
<1> QED BY <1>7, <1>8, <1>9 DEF IInv

-----------------------------------------------------------------------------
(* A new cache.                                                            *)

(* The list the constructor links holds every buffer it made.              *)
LEMMA FreshPoolLists == ListOver(FreshPool, 1..PoolSize)
<1> DEFINE l == FreshPool
<1>1. /\ l.first = 1 /\ l.last = PoolSize
      /\ l.next = [e \in Buffers |-> IF e < PoolSize THEN e + 1 ELSE 0]
      /\ l.prev = [e \in Buffers |-> IF e <= PoolSize THEN e - 1 ELSE 0]
  BY DEF FreshPool, NULL
<1>2. l \in Lists
  BY ConstantFacts DEF FreshPool, Lists, Pointers, Buffers, NULL
<1> HIDE DEF l
<1>3. 1..PoolSize \subseteq Buffers
  BY ConstantFacts DEF Buffers
<1>4. Ends(l, 1..PoolSize)
  BY <1>1, <1>3, ConstantFacts DEF Ends, Buffers
<1>5. NextLinks(l, 1..PoolSize)
  BY <1>1, <1>3, ConstantFacts DEF NextLinks, Buffers
<1>6. PrevLinks(l, 1..PoolSize)
  BY <1>1, <1>3, ConstantFacts DEF PrevLinks, Buffers
<1>7. Ranks([e \in Buffers |-> e], l)
  BY <1>1, <1>3, ConstantFacts DEF Ranks, Buffers
<1> QED BY <1>2, <1>4, <1>5, <1>6, <1>7 DEF ListOver, l

LEMMA FreshInv ==
  /\ pool = PoolSize /\ entry = FreshEntry /\ hash = FreshHash /\ free = FreshPool
  /\ frame = [f \in Frames |-> Idle]
  /\ open \in BOOLEAN /\ disk \in [Blocks -> Values]
  => IInv
<1> SUFFICES ASSUME pool = PoolSize, entry = FreshEntry, hash = FreshHash,
                    free = FreshPool, frame = [f \in Frames |-> Idle],
                    open \in BOOLEAN, disk \in [Blocks -> Values]
             PROVE  IInv
  OBVIOUS
<1>1. \A x \in Buffers : entry[x] = [block |-> 0, count |-> 0, dirty |-> FALSE, data |-> Zero]
  BY DEF FreshEntry, Blank
<1>2. Hashed(hash) = {} /\ WellHashed(hash, entry)
  <2>1. \A c \in Chains : hash[c] = <<>>
    BY DEF FreshHash, Chains
  <2>2. \A c \in Chains : 1..Len(hash[c]) = {}
    BY <2>1
  <2>3. hash \in [Chains -> Seq(Buffers)]
    BY DEF FreshHash, Chains
  <2> QED BY <2>2, <2>3 DEF Hashed, WellHashed
<1>3. Unused = 1..PoolSize /\ 1..PoolSize \subseteq Buffers
  BY <1>1, ConstantFacts DEF Unused, Buffers
<1>4. Typed
  <2>1. frame \in [Frames -> [buf : 0..pool, block : Blocks \cup {NoBlock}, poked : BOOLEAN]]
    BY ConstantFacts DEF Idle, NULL
  <2>2. entry \in [Buffers -> [block : Blocks \cup {0}, count : 0..CountMax,
                               dirty : BOOLEAN, data : Values]]
    BY ConstantFacts DEF FreshEntry, Blank
  <2> QED BY <2>1, <2>2, ConstantFacts DEF Typed
<1>5. FreeOK
  BY <1>3, FreshPoolLists DEF FreeOK
<1>6. HashOK /\ UnusedOK /\ DirtyOK /\ CleanOK
  BY <1>1, <1>2, <1>3 DEF HashOK, UnusedOK, DirtyOK, CleanOK
<1>7. HeldOK
  BY DEF HeldOK
<1>8. CountOK
  <2>1. ASSUME NEW x \in Buffers PROVE Cardinality(Holders(frame, x)) <= entry[x].count
    <3>1. Holders(frame, x) = {}
      BY PointerFacts DEF Holders, Idle, NULL
    <3> QED BY <1>1, <3>1, FS_EmptySet
  <2> QED BY <2>1 DEF CountOK
<1> QED BY <1>4, <1>5, <1>6, <1>7, <1>8 DEF IInv

(* A cache that is destroyed, wherever its destructor stops.               *)
LEMMA GoneKeeps ==
  ASSUME IInv, NEW n \in 0..pool, Gone(n)
  PROVE  IInv'
<1>1. FlushUpTo(n) \in [Blocks -> Values]
  BY FlushFacts
<1>2. /\ pool' = PoolSize /\ entry' = FreshEntry /\ hash' = FreshHash /\ free' = FreshPool
      /\ frame' = [f \in Frames |-> Idle] /\ open' \in BOOLEAN
      /\ disk' \in [Blocks -> Values]
  BY <1>1 DEF Gone
<1>3. FreshInv'
  BY FreshInv, PTL
<1> QED BY <1>2, <1>3

LEMMA PoolBounds ==
  ASSUME IInv
  PROVE  /\ pool \in Nat /\ pool \in 0..pool
         /\ \A e \in 1..(pool + 1) : e - 1 \in 0..pool
BY ConstantFacts DEF IInv, Typed

-----------------------------------------------------------------------------
(* Every step keeps the invariant.                                         *)

LEMMA NextKeeps ==
  ASSUME IInv, 0 \notin Blocks, ~EvictErrorCaught, [Next]_vars
  PROVE  IInv'
<1>1. ASSUME NEW f \in Frames, NEW b \in Blocks, AcquireHit(f, b) PROVE IInv'
  BY <1>1, AcquireHitKeeps
<1>2. ASSUME NEW f \in Frames, NEW b \in Blocks, AcquireMiss(f, b) PROVE IInv'
  BY <1>2, MissesKeep
<1>3. ASSUME NEW f \in Frames, NEW v \in Values, Poke(f, v) PROVE IInv'
  BY <1>3, PokeKeeps
<1>4. ASSUME NEW f \in Frames, NEW flags \in {{}, {"dirty"}, {"commit"}}, Release(f, flags)
      PROVE  IInv'
  BY <1>4, ReleaseKeeps
<1>5. ASSUME NEW f \in Frames, MarkDirty(f) PROVE IInv'
  BY <1>5, MarkDirtyKeeps
<1>6. ASSUME NEW f \in Frames, CommitFails(f) PROVE IInv'
  BY <1>6, CommitFailsKeeps
<1>7. ASSUME NEW b \in Blocks, ReadHit(b) PROVE IInv'
  BY <1>7, ReadHitKeeps
<1>8. ASSUME NEW b \in Blocks, ReadMiss(b) PROVE IInv'
  BY <1>8, MissesKeep
<1>9. ASSUME NEW b \in Blocks, EvictFails(b) PROVE IInv'
  BY <1>9, PoolBounds, GoneKeeps DEF EvictFails
<1>10. ASSUME NEW b \in Blocks, ReadFails(b) PROVE IInv'
  BY <1>10, ReadFailsKeeps
<1>11. ASSUME NEW b \in Blocks, NEW v \in Values, WriteHit(b, v) PROVE IInv'
  BY <1>11, WriteHitKeeps
<1>12. ASSUME NEW b \in Blocks, NEW v \in Values, WriteMiss(b, v) PROVE IInv'
  BY <1>12, MissesKeep
<1>13. ASSUME NEW e \in 1..(pool + 1), SyncFails(e) PROVE IInv'
  <2>1. e - 1 \in 0..pool
    BY PoolBounds
  <2> QED BY <1>13, <2>1, FlushKeeps DEF SyncFails, Throws, Unwound
<1>14. CASE Sync
  <2>1. pool \in 0..pool
    BY ConstantFacts DEF IInv, Typed
  <2> QED BY <1>14, <2>1, FlushKeeps DEF Sync
<1>15. CASE Close
  BY <1>15, PoolBounds, GoneKeeps DEF Close
<1>18. ASSUME NEW e \in 1..pool, CloseFails(e) PROVE IInv'
  <2>1. e \in 1..(pool + 1)
    BY PoolBounds
  <2> QED BY <1>18, <2>1, PoolBounds, GoneKeeps DEF CloseFails
<1>16. CASE Create
  BY <1>16 DEF Create, IInv, Typed, FreeOK, Unused, HashOK, UnusedOK, HeldOK, CountOK,
               DirtyOK, CleanOK, PokedIn
<1>17. CASE UNCHANGED vars
  BY <1>17 DEF vars, IInv, Typed, FreeOK, Unused, HashOK, UnusedOK, HeldOK, CountOK,
               DirtyOK, CleanOK, PokedIn
<1> QED
  BY <1>1, <1>2, <1>3, <1>4, <1>5, <1>6, <1>7, <1>8, <1>9, <1>10, <1>11, <1>12,
     <1>13, <1>14, <1>15, <1>16, <1>17, <1>18 DEF Next

(* The invariant holds as long as nobody asks for block 0, which a buffer  *)
(* that was never used claims to hold, and nobody goes on after an evicted *)
(* buffer failed to be written back, which leaves its stale links behind.  *)
THEOREM Invariance ==
  ASSUME 0 \notin Blocks, ~EvictErrorCaught
  PROVE  Spec => []IInv
<1>1. Init => IInv
  BY FreshInv DEF Init
<1>2. IInv /\ [Next]_vars => IInv'
  BY NextKeeps
<1> QED BY <1>1, <1>2, PTL DEF Spec

-----------------------------------------------------------------------------
(* What follows from it.                                                   *)

(* Every field of the pool stays within its type, for pools, chains and    *)
(* callers of any size.                                                    *)
THEOREM TypeCorrect ==
  ASSUME 0 \notin Blocks, ~EvictErrorCaught
  PROVE  Spec => []TypeOK
BY Invariance, InvImpliesTypeOK, PTL

(* acquire(), release() and eviction never leave a frame with a pointer to *)
(* a buffer that the table does not find for its block, or that counts     *)
(* fewer holders than it has ("any updates will be shared", line 25).      *)
THEOREM PointersShared ==
  ASSUME 0 \notin Blocks, ~EvictErrorCaught
  PROVE  Spec => []HeldPointersShared
<1>1. IInv => HeldPointersShared
  <2> SUFFICES ASSUME IInv, NEW f \in Frames, frame[f] # Idle
               PROVE  /\ FindEntry(frame[f].block) = frame[f].buf
                      /\ entry[frame[f].buf].count
                           >= Cardinality({g \in Frames : frame[g].buf = frame[f].buf})
    BY DEF HeldPointersShared
  <2>1. FindEntry(frame[f].block) = frame[f].buf /\ frame[f].buf \in Buffers
        /\ entry[frame[f].buf].count \in Nat
    BY HeldFacts, ConstantFacts
  <2>2. Cardinality(Holders(frame, frame[f].buf)) <= entry[frame[f].buf].count
    BY <2>1 DEF IInv, CountOK
  <2>3. Cardinality(Holders(frame, frame[f].buf)) \in Nat
    BY HoldersCount
  <2> QED BY <2>1, <2>2, <2>3 DEF Holders
<1> QED BY <1>1, Invariance, PTL

(* Reusing a buffer, syncing, committing, and each of them failing half    *)
(* way, loses nothing while the cache exists: a cached block whose content *)
(* the device lacks is dirty, or is about to be declared so.  What happens *)
(* when the cache is destroyed is StoreImplemented's to say.               *)
THEOREM NothingLost ==
  ASSUME 0 \notin Blocks, ~EvictErrorCaught
  PROVE  Spec => []CleanMeansOnDisk
<1>1. IInv => CleanMeansOnDisk
  <2> SUFFICES ASSUME IInv, NEW b \in Blocks, FindEntry(b) # 0
               PROVE  \/ entry[FindEntry(b)].dirty
                      \/ \E f \in Frames : frame[f].poked /\ frame[f].block = b
                      \/ entry[FindEntry(b)].data = disk[b]
    BY DEF CleanMeansOnDisk, NULL
  <2>1. PICK e \in Hashed(hash) : e = FindEntry(b) /\ entry[e].block = b
    BY FoundFacts
  <2>2. ASSUME NEW f \in Frames, frame[f].poked, frame[f].buf = e PROVE frame[f].block = b
    <3>1. frame[f] # Idle
      BY <2>2 DEF Idle
    <3> QED BY <2>1, <2>2, <3>1, HeldFacts
  <2> QED BY <2>1, <2>2 DEF IInv, CleanOK, PokedIn
<1> QED BY <1>1, Invariance, PTL

-----------------------------------------------------------------------------
(* The list of unused buffers as a sequence: followed either way it holds  *)
(* each unused buffer once, and an operation moves one buffer at most, to  *)
(* the end.  Least elements stand in for induction.                        *)

(* A set of naturals that has a member has a least one.                    *)
LEMMA LeastNatural ==
  ASSUME NEW S, S \subseteq Nat, S # {}
  PROVE  \E x \in S : \A y \in S : x <= y
<1> DEFINE R == {ss \in Nat \X Nat : ss[1] < ss[2]}
<1>1. IsWellFoundedOn(R, Nat)
  BY NatLessThanWellFounded, Zenon DEF OpToRel
<1>2. PICK x \in S : \A y \in S : ~(<<y, x>> \in R)
  BY <1>1, WFMin
<1>3. ASSUME NEW y \in S PROVE x <= y
  <2>1. <<y, x>> \in Nat \X Nat /\ <<y, x>>[1] = y /\ <<y, x>>[2] = x
    OBVIOUS
  <2>2. ~(y < x)
    BY <1>2, <2>1
  <2> QED BY <2>2
<1> QED BY <1>3

-----------------------------------------------------------------------------
(* Following links.                                                        *)

Beyond(link, e) == IF e = 0 THEN 0 ELSE link[e]

(* g is the path from a buffer, for m steps.                               *)
PathTo(link, from, g, m) ==
  /\ g \in [0..m -> Pointers]
  /\ g[0] = from
  /\ \A n \in 1..m : g[n] = Beyond(link, g[n - 1])

LEMMA PathExists ==
  ASSUME NEW link \in [Buffers -> Pointers], NEW from \in Pointers, NEW m \in Nat
  PROVE  \E g : PathTo(link, from, g, m)
<1> DEFINE Bad == {n \in Nat : ~ \E g : PathTo(link, from, g, n)}
<1> SUFFICES ASSUME Bad # {} PROVE FALSE
  OBVIOUS
<1>1. PICK n \in Bad : \A k \in Bad : n <= k
  BY LeastNatural
<1>2. CASE n = 0
  <2>1. PathTo(link, from, [i \in 0..0 |-> from], 0)
    BY DEF PathTo
  <2> QED BY <1>1, <1>2, <2>1
<1>3. CASE n # 0
  <2>1. n - 1 \in Nat /\ ~(n <= n - 1)
    BY <1>3
  <2>2. n - 1 \notin Bad
    BY <1>1, <2>1
  <2>3. PICK h : PathTo(link, from, h, n - 1)
    BY <2>1, <2>2
  <2> DEFINE g == [i \in 0..n |-> IF i = n THEN Beyond(link, h[n - 1]) ELSE h[i]]
  <2>4. \A e \in Pointers : Beyond(link, e) \in Pointers
    BY DEF Beyond, Pointers
  <2>5. \A i \in 0..(n - 1) : g[i] = h[i] /\ h[i] \in Pointers
    BY <2>3 DEF PathTo
  <2>6. g[n] = Beyond(link, g[n - 1]) /\ g[n] \in Pointers
    BY <1>3, <2>4, <2>5
  <2>7. g \in [0..n -> Pointers]
    <3>1. \A i \in 0..n : i = n \/ i \in 0..(n - 1)
      BY <2>1
    <3>2. \A i \in 0..n : g[i] \in Pointers
      BY <2>5, <2>6, <3>1
    <3>3. g = [i \in 0..n |-> g[i]]
      OBVIOUS
    <3> HIDE DEF g
    <3> QED BY <3>2, <3>3
  <2>8. g[0] = from
    BY <1>3, <2>3, <2>5 DEF PathTo
  <2>9. ASSUME NEW i \in 1..n PROVE g[i] = Beyond(link, g[i - 1])
    <3>1. CASE i = n
      BY <2>6, <3>1
    <3>2. CASE i # n
      <4>1. i \in 1..(n - 1) /\ i \in 0..(n - 1) /\ i - 1 \in 0..(n - 1)
        BY <3>2
      <4> QED BY <2>3, <2>5, <4>1 DEF PathTo
    <3> QED BY <3>1, <3>2
  <2> HIDE DEF g
  <2>10. PathTo(link, from, g, n)
    BY <2>7, <2>8, <2>9 DEF PathTo
  <2> QED BY <1>1, <2>10
<1> QED BY <1>2, <1>3

(* s is what following link from a buffer meets.                           *)
Along(link, from, s) ==
  /\ s \in Seq(Buffers) /\ Len(s) <= MaxBuffers
  /\ from = IF Len(s) = 0 THEN 0 ELSE s[1]
  /\ \A i \in 1..Len(s) : link[s[i]] = IF i = Len(s) THEN 0 ELSE s[i + 1]

LEMMA FollowIs ==
  ASSUME NEW link, NEW from, NEW s, Along(link, from, s)
  PROVE  Follow(link, from) = s
<1> DEFINE Step(h) == [n \in 0..MaxBuffers |-> IF n = 0 THEN from ELSE Beyond(link, h[n - 1])]
           g == [n \in 0..MaxBuffers |-> IF n < Len(s) THEN s[n + 1] ELSE 0]
           at == CHOOSE h : h = Step(h)
           met == {n \in 0..MaxBuffers : at[n] # 0}
<1>1. /\ Len(s) \in Nat /\ Len(s) <= MaxBuffers /\ MaxBuffers \in Nat
      /\ \A i \in 1..Len(s) : s[i] \in Buffers /\ s[i] # 0
  BY ConstantFacts, PointerFacts, ElementOfSeq, LenProperties DEF Along
<1>2. \A n \in 0..MaxBuffers : g[n] = IF n = 0 THEN from ELSE Beyond(link, g[n - 1])
  <2> SUFFICES ASSUME NEW n \in 0..MaxBuffers
               PROVE  g[n] = IF n = 0 THEN from ELSE Beyond(link, g[n - 1])
    OBVIOUS
  <2>1. CASE n = 0
    BY <1>1, <2>1 DEF Along
  <2>2. CASE n # 0 /\ n <= Len(s)
    <3>1. g[n - 1] = s[n] /\ s[n] # 0 /\ n \in 1..Len(s)
      BY <1>1, <2>2
    <3> QED BY <1>1, <2>2, <3>1 DEF Along, Beyond
  <2>3. CASE n # 0 /\ n > Len(s)
    BY <1>1, <2>3 DEF Beyond
  <2> QED BY <1>1, <2>1, <2>2, <2>3
<1>3. g = Step(g)
  BY <1>2
<1>4. at = Step(at)
  BY <1>3, Zenon
<1>5. \A n \in 0..MaxBuffers : at[n] = IF n = 0 THEN from ELSE Beyond(link, at[n - 1])
  <2> HIDE DEF at
  <2> QED BY <1>4
<1>6. Follow(link, from) = [i \in 1..Cardinality(met) |-> at[i - 1]]
  BY Zenon DEF Follow, NULL, Beyond
<1> HIDE DEF at, g
<1>7. \A n \in 0..MaxBuffers : at[n] = g[n]
  <2> DEFINE Bad == {n \in 0..MaxBuffers : at[n] # g[n]}
  <2> SUFFICES ASSUME Bad # {} PROVE FALSE
    OBVIOUS
  <2>0. Bad \subseteq Nat
    BY <1>1
  <2>1. PICK n \in Bad : \A k \in Bad : n <= k
    <3> HIDE DEF Bad
    <3> QED BY <2>0, LeastNatural
  <2>2. n # 0 => n - 1 \in 0..MaxBuffers /\ n - 1 \notin Bad
    BY <1>1, <2>1
  <2> QED BY <1>2, <1>5, <2>1, <2>2
<1>8. \A n \in 0..MaxBuffers : at[n] = IF n < Len(s) THEN s[n + 1] ELSE 0
  BY <1>7 DEF g
<1>9. met = 0..(Len(s) - 1)
  BY <1>1, <1>8
<1>10. Cardinality(met) = Len(s)
  <2>1. Len(s) - 1 \in Int /\ 0 \in Int
    BY <1>1
  <2>2. Cardinality(0..(Len(s) - 1)) = IF 0 > Len(s) - 1 THEN 0 ELSE Len(s) - 1 - 0 + 1
    BY <2>1, FS_Interval
  <2> HIDE DEF met
  <2> QED BY <1>1, <1>9, <2>2
<1>11. s = [i \in 1..Len(s) |-> s[i]]
  BY LenProperties DEF Along
<1>12. \A i \in 1..Len(s) : at[i - 1] = s[i]
  BY <1>1, <1>8
<1> QED BY <1>6, <1>10, <1>11, <1>12

-----------------------------------------------------------------------------
(* The list, in order.                                                     *)

(* s is the list l over the buffers of F, each once, either way.           *)
InOrder(l, F, s) ==
  /\ Along(l.next, l.first, s)
  /\ Along(l.prev, l.last, Reverse(s))
  /\ \A i, j \in 1..Len(s) : s[i] = s[j] => i = j
  /\ F = {s[i] : i \in 1..Len(s)}
  /\ Len(s) = Cardinality(F)

(* The links of a list lead through all its buffers, as the ranks say.     *)
LEMMA ListInOrder ==
  ASSUME NEW F \in SUBSET Buffers, NEW l, ListOver(l, F)
  PROVE  \E s : InOrder(l, F, s)
<1> DEFINE M == MaxBuffers
<1> USE PointerFacts, ConstantFacts
<1>1. PICK r : Ranks(r, l)
  BY DEF ListOver
<1>2. /\ l.first \in F \cup {0} /\ l.last \in F \cup {0}
      /\ l.next \in [Buffers -> Pointers] /\ l.prev \in [Buffers -> Pointers]
      /\ l.first \in Pointers
  BY ListFields DEF ListOver, Ends
<1>3. PICK at : PathTo(l.next, l.first, at, M)
  BY <1>2, PathExists
<1>4. \A n \in 0..M : at[n] \in F \cup {0}
  <2>1. \A n \in 1..M : at[n - 1] \in Pointers
    BY <1>3 DEF PathTo
  <2>2. \A e \in Pointers : Beyond(l.next, e) \in F \cup {0}
    BY <1>2 DEF Beyond, Pointers, ListOver, NextLinks
  <2> SUFFICES ASSUME NEW n \in 0..M PROVE at[n] \in F \cup {0}
    OBVIOUS
  <2>3. CASE n = 0
    BY <1>2, <1>3, <2>3 DEF PathTo
  <2>4. CASE n # 0
    <3>1. n \in 1..M /\ at[n] = Beyond(l.next, at[n - 1])
      BY <1>3, <2>4 DEF PathTo
    <3> QED BY <2>1, <2>2, <3>1
  <2> QED BY <2>3, <2>4
<1>5. ASSUME NEW i \in 0..M, NEW j \in 0..M, i < j, at[j] # 0
      PROVE  at[i] # 0 /\ r[at[i]] < r[at[j]]
  <2> DEFINE Bad == {n \in 0..M : i < n /\ at[n] # 0 /\ ~(at[i] # 0 /\ r[at[i]] < r[at[n]])}
  <2> SUFFICES ASSUME Bad # {} PROVE FALSE
    BY <1>5
  <2>1. Bad \subseteq Nat
    OBVIOUS
  <2>2. PICK n \in Bad : \A k \in Bad : n <= k
    <3> HIDE DEF Bad
    <3> QED BY <2>1, LeastNatural
  <2>3. n - 1 \in 0..M /\ n \in 1..M /\ n - 1 \notin Bad
    BY <2>2
  <2>4. at[n] = Beyond(l.next, at[n - 1]) /\ at[n] # 0
    BY <1>3, <2>2, <2>3 DEF PathTo
  <2>5. at[n - 1] # 0 /\ at[n - 1] \in Buffers /\ l.next[at[n - 1]] = at[n]
    BY <1>4, <2>3, <2>4 DEF Beyond
  <2>6. /\ r[at[n - 1]] < r[at[n]] /\ r[at[n - 1]] \in Nat /\ r[at[n]] \in Nat
    BY <1>1, <1>4, <2>4, <2>5 DEF Ranks
  <2>7. CASE n - 1 = i
    BY <2>2, <2>5, <2>6, <2>7
  <2>8. CASE n - 1 # i
    <3>1. at[i] # 0 /\ r[at[i]] < r[at[n - 1]] /\ at[i] \in Buffers
      BY <1>4, <2>2, <2>3, <2>5, <2>8
    <3>2. r[at[i]] \in Nat
      BY <1>1, <3>1 DEF Ranks
    <3> QED BY <2>2, <2>6, <3>1, <3>2
  <2> QED BY <2>7, <2>8
<1>6. \A i, j \in 0..M : at[i] = at[j] /\ at[i] # 0 => i = j
  <2> SUFFICES ASSUME NEW i \in 0..M, NEW j \in 0..M, at[i] = at[j], at[i] # 0, i < j PROVE FALSE
    OBVIOUS
  <2>1. r[at[i]] < r[at[j]] /\ at[i] \in Buffers
    BY <1>4, <1>5
  <2> QED BY <1>1, <2>1 DEF Ranks
(* More steps than buffers would meet one twice.                           *)
<1>7. \E n \in 0..M : at[n] = 0
  <2> SUFFICES ASSUME \A n \in 0..M : at[n] # 0 PROVE FALSE
    OBVIOUS
  <2>1. at \in [0..M -> Buffers]
    BY <1>3, <1>4 DEF PathTo
  <2>2. IsFiniteSet(0..M) /\ Cardinality(0..M) = M + 1
    <3>1. M \in Int /\ 0 \in Int
      OBVIOUS
    <3>2. IsFiniteSet(0..M) /\ Cardinality(0..M) = IF 0 > M THEN 0 ELSE M - 0 + 1
      BY <3>1, FS_Interval
    <3> QED BY <3>2
  <2>3. IsFiniteSet(Buffers) /\ Cardinality(Buffers) = M
    <3>1. M \in Int /\ 1 \in Int
      OBVIOUS
    <3>2. IsFiniteSet(1..M) /\ Cardinality(1..M) = IF 1 > M THEN 0 ELSE M - 1 + 1
      BY <3>1, FS_Interval
    <3> QED BY <3>2 DEF Buffers
  <2>4. \E x, y \in 0..M : x # y /\ at[x] = at[y]
    BY <2>1, <2>2, <2>3, FS_PigeonHole
  <2> QED BY <1>6, <2>4
<1>8. PICK k \in 0..M : at[k] = 0 /\ \A n \in 0..(k - 1) : at[n] # 0
  <2> DEFINE Ended == {n \in 0..M : at[n] = 0}
  <2>1. Ended \subseteq Nat /\ Ended # {}
    BY <1>7
  <2>2. PICK k \in Ended : \A n \in Ended : k <= n
    <3> HIDE DEF Ended
    <3> QED BY <2>1, LeastNatural
  <2>3. \A n \in 0..(k - 1) : n \in 0..M /\ ~(k <= n)
    BY <2>2
  <2> QED BY <2>2, <2>3
<1> DEFINE s == [i \in 1..k |-> at[i - 1]]
<1>9. /\ k \in Nat /\ k <= M
      /\ \A i \in 1..k : i - 1 \in 0..M /\ s[i] = at[i - 1] /\ s[i] \in F /\ s[i] \in Buffers
  BY <1>4, <1>8
<1>10. s \in Seq(Buffers) /\ Len(s) = k
  <2>1. s \in [1..k -> Buffers]
    BY <1>9
  <2> HIDE DEF s
  <2> QED BY <1>9, <2>1, SeqDef, LenProperties
<1> HIDE DEF s
<1>11. l.first = IF k = 0 THEN 0 ELSE s[1]
  BY <1>3, <1>8, <1>9 DEF PathTo
<1>12. ASSUME NEW i \in 1..k PROVE l.next[s[i]] = IF i = k THEN 0 ELSE s[i + 1]
  <2>1. i \in 1..M /\ at[i] = Beyond(l.next, at[i - 1]) /\ at[i - 1] # 0
    BY <1>3, <1>8, <1>9, SMTT(30) DEF PathTo
  <2>2. l.next[s[i]] = at[i]
    BY <1>9, <2>1 DEF Beyond
  <2> QED BY <1>8, <1>9, <2>2
<1>13. Along(l.next, l.first, s)
  BY <1>9, <1>10, <1>11, <1>12 DEF Along
<1>14. \A i, j \in 1..k : s[i] = s[j] => i = j
  <2> SUFFICES ASSUME NEW i \in 1..k, NEW j \in 1..k, s[i] = s[j] PROVE i = j
    OBVIOUS
  <2>1. at[i - 1] = at[j - 1] /\ at[i - 1] # 0 /\ i - 1 \in 0..M /\ j - 1 \in 0..M
    BY <1>9
  <2>2. i - 1 = j - 1
    BY <1>6, <2>1
  <2> QED BY <2>2
(* A buffer of the least rank among those not met would follow one met.    *)
<1>15. \A e \in F : \E i \in 1..k : s[i] = e
  <2> DEFINE Missed == {e \in F : \A i \in 1..k : s[i] # e}
             Low == {r[e] : e \in Missed}
  <2> SUFFICES ASSUME Missed # {} PROVE FALSE
    OBVIOUS
  <2>1. Low \subseteq Nat /\ Low # {}
    BY <1>1 DEF Ranks
  <2>2. PICK x \in Low : \A y \in Low : x <= y
    <3> HIDE DEF Low
    <3> QED BY <2>1, LeastNatural
  <2>3. PICK e \in Missed : r[e] = x /\ e \in F /\ e \in Buffers /\ e # 0
    BY <2>2
  <2>4. e # l.first
    BY <1>9, <1>11, <2>3
  <2>5. PICK p : p = l.prev[e]
    OBVIOUS
  <2>6. p # 0 /\ p \in F /\ p \in Buffers /\ l.next[p] = e
    BY <2>3, <2>4, <2>5 DEF ListOver, Ends, PrevLinks
  <2>7. r[p] < r[e] /\ r[p] \in Nat /\ r[e] \in Nat
    BY <1>1, <2>3, <2>6 DEF Ranks
  <2>8. p \notin Missed
    <3>1. ASSUME p \in Missed PROVE FALSE
      <4>1. r[p] \in Low
        BY <3>1
      <4>2. x <= r[p]
        BY <2>2, <4>1
      <4> QED BY <2>3, <2>7, <4>2
    <3> QED BY <3>1
  <2>9. PICK i \in 1..k : s[i] = p
    BY <2>6, <2>8
  <2>10. e = IF i = k THEN 0 ELSE s[i + 1]
    BY <1>12, <2>6, <2>9
  <2>11. i # k => i + 1 \in 1..k
    BY <1>9
  <2> QED BY <2>3, <2>10, <2>11
<1>16. F = {s[i] : i \in 1..k}
  BY <1>9, <1>15
<1>17. Cardinality(F) = k
  <2>1. s \in [1..k -> F]
    BY <1>9, <1>10, LenProperties
  <2>2. IsInjective(s)
    BY <1>14, <2>1 DEF IsInjective
  <2>3. s \in Bijection(1..k, F)
    BY <1>15, <2>1, <2>2 DEF Bijection, Injection, Surjection
  <2>4. ExistsBijection(1..k, F)
    BY <2>3 DEF ExistsBijection
  <2> QED BY <1>9, <2>4, FS_CountingElements
<1>18. Along(l.prev, l.last, Reverse(s))
  <2> DEFINE t == Reverse(s)
  <2>1. \A i \in 1..k : t[i] = s[k - i + 1] /\ k - i + 1 \in 1..k
    BY <1>9, <1>10 DEF Reverse
  <2>2. t \in Seq(Buffers) /\ Len(t) = k
    <3>1. t = [i \in 1..k |-> s[k - i + 1]]
      BY <1>9, <1>10 DEF Reverse
    <3>2. t \in [1..k -> Buffers]
      BY <1>9, <3>1
    <3> HIDE DEF t
    <3> QED BY <1>9, <3>2, SeqDef, LenProperties
  <2> HIDE DEF t
  <2>3. l.last = IF k = 0 THEN 0 ELSE t[1]
    <3>1. CASE k = 0
      BY <1>9, <1>16, <3>1 DEF ListOver, Ends
    <3>2. CASE k # 0
      <4>1. s[k] \in F /\ l.next[s[k]] = 0 /\ t[1] = s[k]
        BY <1>9, <1>12, <2>1, <3>2
      <4> QED BY <3>2, <4>1 DEF ListOver, Ends
    <3> QED BY <3>1, <3>2
  <2>4. ASSUME NEW i \in 1..k PROVE l.prev[t[i]] = IF i = k THEN 0 ELSE t[i + 1]
    <3>1. CASE i = k
      <4>1. t[i] = s[1] /\ s[1] = l.first /\ l.first # 0
        BY <1>9, <1>11, <2>1, <3>1
      <4> QED BY <3>1, <4>1 DEF ListOver, Ends
    <3>2. CASE i # k
      <4>1. PICK j : j = k - i
        OBVIOUS
      <4>2. j \in 1..k /\ j + 1 \in 1..k /\ j # k /\ t[i] = s[j + 1] /\ t[i + 1] = s[j]
        <5>1. i + 1 \in 1..k
          BY <1>9, <3>2
        <5>2. t[i] = s[k - i + 1] /\ t[i + 1] = s[k - (i + 1) + 1]
          BY <2>1, <5>1
        <5>3. k - i + 1 = j + 1 /\ k - (i + 1) + 1 = j
          BY <1>9, <4>1
        <5> QED BY <1>9, <3>2, <4>1, <5>2, <5>3
      <4>3. l.next[s[j]] = s[j + 1] /\ s[j + 1] # 0 /\ s[j] \in Buffers
        BY <1>9, <1>12, <4>2
      <4> QED BY <3>2, <4>2, <4>3 DEF ListOver, NextLinks
    <3> QED BY <3>1, <3>2
  <2>5. Along(l.prev, l.last, t)
    BY <1>9, <2>2, <2>3, <2>4 DEF Along
  <2> QED BY <2>5 DEF t
<1> QED BY <1>10, <1>13, <1>14, <1>16, <1>17, <1>18 DEF InOrder

(* The list of unused buffers, least recently used first.                  *)
Order(l) == Follow(l.next, l.first)

LEMMA OrderIs ==
  ASSUME NEW F \in SUBSET Buffers, NEW l, ListOver(l, F)
  PROVE  InOrder(l, F, Order(l)) /\ Follow(l.prev, l.last) = Reverse(Order(l))
<1>1. PICK s : InOrder(l, F, s)
  BY ListInOrder
<1>2. Order(l) = s
  BY <1>1, FollowIs, Zenon DEF InOrder, Order
<1>3. Follow(l.prev, l.last) = Reverse(s)
  BY <1>1, FollowIs, Zenon DEF InOrder
<1> QED BY <1>1, <1>2, <1>3

(* What a buffer that is not on the list changes by leaving it.            *)
LEMMA RestWithout ==
  ASSUME NEW F \in SUBSET Buffers, NEW l, ListOver(l, F), NEW e, e \notin F
  PROVE  Rest(Order(l), e) = Order(l)
<1> DEFINE s == Order(l)
<1>0. InOrder(l, F, s)
  BY OrderIs
<1> HIDE DEF s
<1>1. F = {s[i] : i \in 1..Len(s)}
  BY <1>0 DEF InOrder
<1>2. ~Contains(s, e)
  BY <1>1 DEF Contains
<1>3. Rest(s, e) = s
  BY <1>2 DEF Rest
<1> QED BY <1>3 DEF s

(* setLast() puts a buffer at the end.                                     *)
LEMMA AppendedLast ==
  ASSUME NEW F \in SUBSET Buffers, NEW l, ListOver(l, F),
         NEW e \in Buffers, e \notin F
  PROVE  Order(SetLast(l, e)) = Append(Order(l), e)
<1> DEFINE s == Order(l)
           m == SetLast(l, e)
           t == Append(s, e)
           k == Len(s)
<1> USE PointerFacts, ConstantFacts DEF NULL
<1>0. InOrder(l, F, s)
  BY OrderIs
<1> HIDE DEF s
<1>1. /\ Along(l.next, l.first, s)
      /\ F = {s[i] : i \in 1..k} /\ k = Cardinality(F)
      /\ \A i, j \in 1..k : s[i] = s[j] => i = j
  BY <1>0 DEF InOrder
<1>2. l \in Lists /\ l.next[e] = 0
  BY DEF ListOver, NextLinks
<1>3. s \in Seq(Buffers) /\ k \in Nat
  BY <1>1, LenProperties DEF Along
<1>4. /\ t \in Seq(Buffers) /\ Len(t) = k + 1
      /\ \A i \in 1..k : t[i] = s[i]
      /\ t[k + 1] = e
  BY <1>3, AppendProperties
<1> HIDE DEF t
<1>5. k + 1 <= MaxBuffers
  <2>1. IsFiniteSet(Buffers) /\ Cardinality(Buffers) = MaxBuffers
    <3>1. MaxBuffers \in Int /\ 1 \in Int
      OBVIOUS
    <3>2. IsFiniteSet(1..MaxBuffers)
          /\ Cardinality(1..MaxBuffers) = IF 1 > MaxBuffers THEN 0 ELSE MaxBuffers - 1 + 1
      BY <3>1, FS_Interval
    <3> QED BY <3>2 DEF Buffers
  <2>2. F \cup {e} \in SUBSET Buffers /\ IsFiniteSet(F)
    BY <2>1, FS_Subset
  <2>3. Cardinality(F \cup {e}) <= MaxBuffers
    BY <2>1, <2>2, FS_Subset
  <2>4. Cardinality(F \cup {e}) = Cardinality(F) + 1
    BY <2>2, FS_AddElement
  <2> QED BY <1>1, <1>3, <2>3, <2>4
<1>6. k = 0 => l.last = 0 /\ l.first = 0
  <2>1. k = 0 => l.first = 0
    BY <1>1 DEF Along
  <2> QED BY <2>1 DEF ListOver, Ends
<1>7. k # 0 => l.last = s[k] /\ l.last # 0 /\ l.first # 0
  <2> SUFFICES ASSUME k # 0 PROVE l.last = s[k] /\ l.last # 0 /\ l.first # 0
    OBVIOUS
  <2>0. k \in 1..k
    BY <1>3
  <2>1. s[k] \in F /\ s[k] # 0 /\ l.next[s[k]] = 0
    BY <1>1, <2>0 DEF Along
  <2>2. l.last = s[k]
    BY <2>1 DEF ListOver, Ends
  <2> QED BY <2>1, <2>2 DEF ListOver, Ends
<1>8. /\ m.first = IF k = 0 THEN e ELSE l.first
      /\ \A x \in Buffers : m.next[x] = IF k # 0 /\ x = l.last THEN e ELSE l.next[x]
  <2>1. CASE k = 0
    <3>1. m = [first |-> e, last |-> e, next |-> l.next, prev |-> l.prev]
      BY <1>2, <1>6, <2>1 DEF SetLast, Lists
    <3> QED BY <2>1, <3>1
  <2>2. CASE k # 0
    <3>1. m = [first |-> l.first, last |-> e,
               next |-> [l.next EXCEPT ![l.last] = e],
               prev |-> [l.prev EXCEPT ![e] = l.last]]
      BY <1>2, <1>7, <2>2 DEF SetLast, Lists
    <3> HIDE DEF m
    <3>2. m.first = l.first /\ m.next = [l.next EXCEPT ![l.last] = e]
      BY <3>1
    <3> QED BY <1>2, <2>2, <3>2, ListFields
  <2> QED BY <2>1, <2>2
<1> HIDE DEF m
<1>9. m.first = t[1]
  <2>1. CASE k = 0
    BY <1>4, <1>8, <2>1
  <2>2. CASE k # 0
    <3>1. 1 \in 1..k /\ l.first = s[1]
      BY <1>1, <1>3, <2>2 DEF Along
    <3> QED BY <1>4, <1>8, <2>2, <3>1
  <2> QED BY <2>1, <2>2
<1>10. ASSUME NEW i \in 1..(k + 1)
       PROVE  m.next[t[i]] = IF i = k + 1 THEN 0 ELSE t[i + 1]
  <2>1. CASE i = k + 1
    <3>1. t[i] = e
      BY <1>4, <2>1
    <3>2. k # 0 => e # l.last
      BY <1>7 DEF ListOver, Ends
    <3> QED BY <1>2, <1>8, <2>1, <3>1, <3>2
  <2>2. CASE i = k
    <3>1. k # 0 /\ t[i] = s[k] /\ s[k] \in Buffers /\ t[i + 1] = e /\ s[k] = l.last
      BY <1>1, <1>3, <1>4, <1>7, <2>2
    <3> QED BY <1>3, <1>8, <2>2, <3>1
  <2>3. CASE i < k
    <3>1. i \in 1..k /\ i + 1 \in 1..k /\ k \in 1..k /\ k # 0
      BY <1>3, <2>3
    <3>2. t[i] = s[i] /\ t[i + 1] = s[i + 1] /\ s[i] # s[k] /\ s[i] \in Buffers
      BY <1>1, <1>4, <2>3, <3>1
    <3>3. l.next[s[i]] = IF i = k THEN 0 ELSE s[i + 1]
      BY <1>1, <3>1 DEF Along
    <3>4. i # k /\ i # k + 1 /\ s[i] # l.last
      BY <1>3, <1>7, <2>3, <3>1, <3>2
    <3> QED BY <1>8, <3>2, <3>3, <3>4
  <2> QED BY <1>3, <2>1, <2>2, <2>3
<1>11. Along(m.next, m.first, t)
  BY <1>3, <1>4, <1>5, <1>9, <1>10 DEF Along
<1>12. Follow(m.next, m.first) = t
  BY <1>11, FollowIs
<1> QED BY <1>12 DEF Order, s, m, t

(* Unlinking a buffer leaves the others as they stood.                     *)
LEMMA UnlinkedRest ==
  ASSUME NEW F \in SUBSET Buffers, NEW l, ListOver(l, F), NEW e \in F
  PROVE  Order(Unlink(l, e)) = Rest(Order(l), e)
<1> DEFINE s == Order(l)
           m == Unlink(l, e)
           k == Len(s)
<1> USE PointerFacts, ConstantFacts DEF NULL
<1>0. InOrder(l, F, s)
  BY OrderIs
<1> HIDE DEF s
<1>1. /\ Along(l.next, l.first, s)
      /\ F = {s[i] : i \in 1..k}
      /\ \A i, j \in 1..k : s[i] = s[j] => i = j
  BY <1>0 DEF InOrder
<1>2. s \in Seq(Buffers) /\ k \in Nat /\ k <= MaxBuffers
  BY <1>1, LenProperties DEF Along
<1>3. PICK p \in 1..k : s[p] = e
  BY <1>1
<1>4. Rest(s, e) = RemoveAt(s, p)
  <2>1. (CHOOSE i \in 1..Len(s) : s[i] = e) = p
    BY <1>1, <1>3
  <2>2. Contains(s, e)
    BY <1>3 DEF Contains
  <2> QED BY <2>1, <2>2 DEF Rest
<1> DEFINE t == RemoveAt(s, p)
<1>5. /\ t \in Seq(Buffers) /\ Len(t) = k - 1
      /\ \A i \in 1..(k - 1) : t[i] = IF i < p THEN s[i] ELSE s[i + 1]
  BY <1>2, <1>3, RemoveAtFacts
<1> HIDE DEF t
<1>6. \A i \in 1..k : /\ s[i] \in Buffers /\ s[i] # 0
                      /\ l.next[s[i]] = IF i = k THEN 0 ELSE s[i + 1]
  BY <1>1 DEF Along
<1>7. l.first = s[1]
  BY <1>1, <1>2, <1>3 DEF Along
<1>8. l.prev[e] = IF p = 1 THEN 0 ELSE s[p - 1]
  <2>1. CASE p = 1
    BY <1>3, <1>7, <1>6, <2>1 DEF ListOver, Ends
  <2>2. CASE p # 1
    <3>1. p - 1 \in 1..k /\ p - 1 # k /\ (p - 1) + 1 = p
      BY <1>2, <1>3, <2>2
    <3>2. l.next[s[p - 1]] = s[p] /\ s[p] # 0 /\ s[p - 1] \in Buffers
      BY <1>6, <3>1
    <3>3. l.prev[s[p]] = s[p - 1]
      BY <3>2 DEF ListOver, NextLinks
    <3> QED BY <1>3, <2>2, <3>3
  <2> QED BY <2>1, <2>2
<1>9. l.next[e] = IF p = k THEN 0 ELSE s[p + 1]
  BY <1>3, <1>6
<1>10. /\ m.first = IF p = 1 THEN l.next[e] ELSE l.first
       /\ \A x \in Buffers : m.next[x] = IF x = l.prev[e] THEN l.next[e]
                                         ELSE IF x = e THEN 0 ELSE l.next[x]
  <2>1. l.first = e <=> p = 1
    BY <1>1, <1>2, <1>3, <1>7
  <2> QED BY <2>1 DEF Unlink
<1> HIDE DEF m
<1>11. m.first = IF k - 1 = 0 THEN 0 ELSE t[1]
  <2>1. CASE k = 1
    BY <1>9, <1>10, <2>1
  <2>2. CASE k # 1
    <3>1. 1 \in 1..(k - 1) /\ t[1] = IF 1 < p THEN s[1] ELSE s[2]
      BY <1>2, <1>3, <1>5, <2>2
    <3> QED BY <1>2, <1>3, <1>7, <1>9, <1>10, <2>2, <3>1
  <2> QED BY <1>2, <2>1, <2>2
<1>12. ASSUME NEW i \in 1..(k - 1)
       PROVE  m.next[t[i]] = IF i = k - 1 THEN 0 ELSE t[i + 1]
  <2>0. i \in 1..k /\ i + 1 \in 1..k /\ i # k
    BY <1>2
  <2>1. CASE i + 1 < p
    <3>1. i + 1 \in 1..(k - 1) /\ t[i] = s[i] /\ t[i + 1] = s[i + 1]
      BY <1>2, <1>3, <1>5, <2>1
    <3>2. p - 1 \in 1..k /\ i # p - 1 /\ i # p /\ p # 1
      BY <1>2, <1>3, <2>1
    <3>3. s[i] # s[p - 1] /\ s[i] # e
      BY <1>1, <1>3, <2>0, <3>2
    <3>4. m.next[s[i]] = l.next[s[i]]
      BY <1>6, <1>8, <1>10, <2>0, <3>2, <3>3
    <3>5. i # k - 1
      BY <3>1
    <3>6. l.next[s[i]] = s[i + 1]
      BY <1>6, <2>0
    <3> QED BY <3>1, <3>4, <3>5, <3>6
  <2>2. CASE i + 1 = p
    <3>1. t[i] = s[i] /\ l.prev[e] = s[i]
      BY <1>2, <1>3, <1>5, <1>8, <2>2
    <3>2. m.next[t[i]] = l.next[e]
      BY <1>6, <1>10, <2>0, <3>1
    <3>3. CASE p = k
      BY <1>2, <1>9, <2>2, <3>2, <3>3
    <3>4. CASE p # k
      <4>1. i + 1 \in 1..(k - 1) /\ t[i + 1] = s[i + 2] /\ i + 2 = p + 1 /\ i # k - 1
        BY <1>2, <1>3, <1>5, <2>2, <3>4
      <4> QED BY <1>9, <3>2, <3>4, <4>1
    <3> QED BY <3>3, <3>4
  <2>3. CASE i + 1 > p
    <3>1. t[i] = s[i + 1] /\ i + 1 # p
      BY <1>2, <1>3, <1>5, <2>3
    <3>2. s[i + 1] # e
      BY <1>1, <1>3, <2>0, <3>1
    <3>3. s[i + 1] # l.prev[e]
      <4>1. CASE p = 1
        BY <1>6, <1>8, <2>0, <4>1
      <4>2. CASE p # 1
        <5>1. p - 1 \in 1..k /\ p - 1 # i + 1
          BY <1>2, <1>3, <2>3, <4>2
        <5> QED BY <1>1, <1>8, <2>0, <4>2, <5>1
      <4> QED BY <4>1, <4>2
    <3>4. m.next[s[i + 1]] = l.next[s[i + 1]]
      BY <1>6, <1>10, <2>0, <3>2, <3>3
    <3>5. l.next[s[i + 1]] = IF i + 1 = k THEN 0 ELSE s[i + 2]
      <4>1. (i + 1) + 1 = i + 2
        OBVIOUS
      <4> QED BY <1>6, <2>0, <4>1
    <3>6. i # k - 1 => t[i + 1] = s[i + 2]
      BY <1>2, <1>3, <1>5, <2>3
    <3> QED BY <1>2, <3>1, <3>4, <3>5, <3>6
  <2> QED BY <1>3, <2>1, <2>2, <2>3
<1>13. k - 1 \in Nat /\ k - 1 <= MaxBuffers
  BY <1>2, <1>3
<1>14. Along(m.next, m.first, t)
  BY <1>5, <1>11, <1>12, <1>13 DEF Along
<1>15. Follow(m.next, m.first) = t
  BY <1>14, FollowIs
<1> QED BY <1>4, <1>15 DEF Order, s, m, t

-----------------------------------------------------------------------------
(* What the list is, and what a step does to it.                           *)

(* "_first and _last are a double-linked list of unused blocks" (line 37): *)
(* whatever acquire(), release(), read(), write() and their failures did   *)
(* before, following next from _first meets each buffer nobody holds once  *)
(* and no other, and following prev from _last meets them the other way.   *)
THEOREM ListIsExact ==
  ASSUME 0 \notin Blocks, ~EvictErrorCaught
  PROVE  Spec => []FreeListExact
<1>1. IInv => FreeListExact
  <2> SUFFICES ASSUME IInv PROVE FreeListExact
    OBVIOUS
  <2>1. InOrder(free, Unused, Order(free)) /\ Follow(free.prev, free.last) = Reverse(Order(free))
    BY OrderIs, UnusedBuffers DEF IInv, FreeOK
  <2> DEFINE s == Order(free)
  <2>2. /\ s \in Seq(Buffers) /\ Len(s) = Cardinality(Unused)
        /\ Unused = {s[i] : i \in 1..Len(s)}
    BY <2>1, SMTT(30) DEF InOrder, Along
  <2>3. ToSet(s) = Unused
    <3> HIDE DEF s
    <3>1. DOMAIN s = 1..Len(s)
      BY <2>2, LenProperties
    <3> QED BY <2>2, <3>1, ZenonT(60) DEF ToSet
  <2> QED BY <2>1, <2>2, <2>3 DEF FreeListExact, Order
<1> QED BY <1>1, Invariance, PTL

(* newEntry() takes buffers from a list that holds none a frame still has  *)
(* a pointer into.                                                         *)
THEOREM ListedAreUnused ==
  ASSUME 0 \notin Blocks, ~EvictErrorCaught
  PROVE  Spec => []ListedBuffersUnused
<1>1. FreeListExact => ListedBuffersUnused
  BY DEF FreeListExact, ListedBuffersUnused
<1> QED BY <1>1, ListIsExact, PTL

(* What a step may do to the order of the list.                            *)
Moved(l, m, e) == Order(m) \in {Rest(Order(l), e), Append(Rest(Order(l), e), e)}

LEMMA MissMoves ==
  ASSUME IInv, 0 \notin Blocks, HasVictim
  PROVE  /\ Moved(free, FreeWithoutVictim, Victim)
         /\ Moved(free, SetLast(FreeWithoutVictim, Victim), Victim)
         /\ Victim = IF Reused THEN free.first ELSE pool + 1
         /\ Victim \in 1..(IF Reused THEN pool ELSE pool + 1)
<1>1. ListOver(free, Unused) /\ Unused \in SUBSET Buffers /\ Unused \subseteq 1..pool
  BY UnusedBuffers DEF IInv, FreeOK, Unused
<1>2. /\ Victim \in Buffers
      /\ ListOver(FreeWithoutVictim, Unused \ {Victim})
      /\ Unused \ {Victim} \in SUBSET Buffers
  BY <1>1, VictimFacts
<1>3. Victim = IF Reused THEN free.first ELSE pool + 1
  BY DEF Victim
<1>4. pool \in Nat
  BY ConstantFacts DEF IInv, Typed
<1>5. Order(FreeWithoutVictim) = Rest(Order(free), Victim)
  <2>1. CASE Reused
    <3>1. free.first # 0 /\ free.first \in Unused /\ Victim = free.first
      BY <1>1, <1>3, <2>1 DEF Reused, NULL, ListOver, Ends
    <3>2. FreeWithoutVictim = Unlink(free, Victim)
      BY <1>1, <2>1, <3>1, ClearedFirst DEF FreeWithoutVictim
    <3> QED BY <1>1, <3>1, <3>2, UnlinkedRest
  <2>2. CASE ~Reused
    <3>1. FreeWithoutVictim = free /\ Victim \notin Unused
      BY <1>1, <1>3, <1>4, <2>2 DEF FreeWithoutVictim
    <3> QED BY <1>1, <3>1, RestWithout
  <2> QED BY <2>1, <2>2
<1>6. Order(SetLast(FreeWithoutVictim, Victim)) = Append(Order(FreeWithoutVictim), Victim)
  <2>1. Victim \notin Unused \ {Victim}
    OBVIOUS
  <2> QED BY <1>2, <2>1, AppendedLast
<1>7. Victim \in 1..(IF Reused THEN pool ELSE pool + 1)
  <2>1. CASE Reused
    BY <1>1, <1>3, <2>1 DEF Reused, NULL, ListOver, Ends
  <2>2. CASE ~Reused
    BY <1>3, <1>4, <2>2
  <2> QED BY <2>1, <2>2
<1> QED BY <1>3, <1>5, <1>6, <1>7 DEF Moved

(* acquire() and read() of a cached block, when nobody holds its buffer.   *)
LEMMA HitMoves ==
  ASSUME IInv, NEW e \in Unused
  PROVE  /\ e \in 1..pool
         /\ Moved(free, Unlink(free, e), e)
         /\ Moved(free, SetLast(Unlink(free, e), e), e)
<1>1. ListOver(free, Unused) /\ Unused \in SUBSET Buffers /\ Unused \subseteq 1..pool
  BY UnusedBuffers DEF IInv, FreeOK, Unused
<1>2. ListOver(Unlink(free, e), Unused \ {e}) /\ Unused \ {e} \in SUBSET Buffers
  BY <1>1, UnlinkDelists
<1>3. Order(Unlink(free, e)) = Rest(Order(free), e)
  BY <1>1, UnlinkedRest
<1>4. e \in Buffers /\ e \notin Unused \ {e}
  BY <1>1
<1>5. Order(SetLast(Unlink(free, e), e)) = Append(Order(Unlink(free, e)), e)
  BY <1>2, <1>4, AppendedLast
<1> QED BY <1>1, <1>3, <1>5 DEF Moved

(* release(), when it gives back the last pointer to its buffer.           *)
LEMMA ReleaseMoves ==
  ASSUME IInv, NEW e \in 1..pool, e \notin Unused
  PROVE  Moved(free, SetLast(free, e), e)
<1>1. ListOver(free, Unused) /\ Unused \in SUBSET Buffers /\ e \in Buffers
  BY UnusedBuffers DEF IInv, FreeOK
<1>2. Order(SetLast(free, e)) = Append(Order(free), e)
  BY <1>1, AppendedLast
<1>3. Rest(Order(free), e) = Order(free)
  BY <1>1, RestWithout
<1> QED BY <1>2, <1>3 DEF Moved

LEMMA StepMoves ==
  ASSUME IInv, 0 \notin Blocks, ~EvictErrorCaught, [Next]_vars,
         open, open', free' # free
  PROVE  \E e \in 1..pool' : Moved(free, free', e)
<1>1. ASSUME NEW f \in Frames, NEW b \in Blocks, AcquireHit(f, b)
      PROVE  \E e \in 1..pool' : Moved(free, free', e)
  <2>1. PICK e \in Buffers : e = FindEntry(b) /\ e \in 1..pool
    BY <1>1, FoundFacts DEF AcquireHit, NULL
  <2>2. free' = FreeAfterIncrement(free, e) /\ pool' = pool
    BY <1>1, <2>1 DEF AcquireHit
  <2>3. e \in Unused /\ free' = Unlink(free, e)
    BY <2>1, <2>2 DEF FreeAfterIncrement, Unused
  <2> QED BY <2>2, <2>3, HitMoves
<1>2. ASSUME NEW b \in Blocks, ReadHit(b)
      PROVE  \E e \in 1..pool' : Moved(free, free', e)
  <2>1. PICK e \in Buffers : e = FindEntry(b) /\ e \in 1..pool
    BY <1>2, FoundFacts DEF ReadHit, NULL
  <2>2. /\ free' = IF entry[e].count = 0 THEN SetLast(Unlink(free, e), e) ELSE free
        /\ pool' = pool
    BY <1>2, <2>1 DEF ReadHit
  <2>3. e \in Unused /\ free' = SetLast(Unlink(free, e), e)
    BY <2>1, <2>2 DEF Unused
  <2> QED BY <2>2, <2>3, HitMoves
<1>3. ASSUME NewEntry, free' \in {FreeWithoutVictim, SetLast(FreeWithoutVictim, Victim)}
      PROVE  \E e \in 1..pool' : Moved(free, free', e)
  <2>1. HasVictim /\ pool' = IF Reused THEN pool ELSE pool + 1
    BY <1>3 DEF NewEntry
  <2>2. Victim \in 1..pool' /\ Moved(free, free', Victim)
    BY <1>3, <2>1, MissMoves
  <2> QED BY <2>2
<1>4. ASSUME NEW f \in Frames, frame[f] # Idle, pool' = pool,
             free' = FreeAfterDecrement(free, FindEntry(frame[f].block))
      PROVE  \E e \in 1..pool' : Moved(free, free', e)
  <2>1. PICK e \in 1..pool : e = FindEntry(frame[f].block) /\ e \in Buffers
    BY <1>4, HeldFacts
  <2>2. entry[e].count = 1 /\ free' = SetLast(free, e)
    BY <1>4, <2>1 DEF FreeAfterDecrement
  <2>3. e \notin Unused
    BY <2>2 DEF Unused
  <2> QED BY <1>4, <2>2, <2>3, ReleaseMoves
<1>5. ASSUME NEW f \in Frames, NEW flags, Release(f, flags)
      PROVE  \E e \in 1..pool' : Moved(free, free', e)
  BY <1>4, <1>5 DEF Release
<1>6. ASSUME NEW f \in Frames, CommitFails(f)
      PROVE  \E e \in 1..pool' : Moved(free, free', e)
  BY <1>4, <1>6 DEF CommitFails
<1>7. ASSUME NEW f \in Frames, NEW b \in Blocks, AcquireMiss(f, b)
      PROVE  \E e \in 1..pool' : Moved(free, free', e)
  BY <1>3, <1>7 DEF AcquireMiss
<1>8. ASSUME NEW b \in Blocks, ReadMiss(b)
      PROVE  \E e \in 1..pool' : Moved(free, free', e)
  BY <1>3, <1>8 DEF ReadMiss
<1>9. ASSUME NEW b \in Blocks, NEW v \in Values, WriteMiss(b, v)
      PROVE  \E e \in 1..pool' : Moved(free, free', e)
  BY <1>3, <1>9 DEF WriteMiss
<1>10. ASSUME NEW b \in Blocks, ReadFails(b)
       PROVE  \E e \in 1..pool' : Moved(free, free', e)
  BY <1>3, <1>10 DEF ReadFails
<1>11. ASSUME NEW b \in Blocks, EvictFails(b) PROVE FALSE
  BY <1>11 DEF EvictFails, Gone
<1>12. ASSUME NEW f \in Frames, \/ MarkDirty(f) \/ \E v \in Values : Poke(f, v) PROVE FALSE
  BY <1>12 DEF MarkDirty, Poke
<1>13. ASSUME NEW b \in Blocks, NEW v \in Values, WriteHit(b, v) PROVE FALSE
  BY <1>13 DEF WriteHit
<1>14. ASSUME NEW e \in 1..(pool + 1), SyncFails(e) PROVE FALSE
  BY <1>14 DEF SyncFails
<1>15. ~Sync /\ ~Close /\ ~Create /\ ~UNCHANGED vars
  BY DEF Sync, Close, Gone, Create, vars
<1>16. ASSUME NEW e \in 1..pool, CloseFails(e) PROVE FALSE
  BY <1>16 DEF CloseFails, Gone
<1> QED
  BY <1>1, <1>2, <1>5, <1>6, <1>7, <1>8, <1>9, <1>10, <1>11, <1>12, <1>13, <1>14, <1>15,
     <1>16
  DEF Next

(* The first buffer of the list is the one that _first points to.          *)
LEMMA OrderStarts ==
  ASSUME IInv
  PROVE  /\ Reused => Order(free) # <<>> /\ Head(Order(free)) = free.first
         /\ ~Reused => Order(free) = <<>>
<1> DEFINE s == Order(free)
<1>1. InOrder(free, Unused, s)
  BY OrderIs, UnusedBuffers DEF IInv, FreeOK
<1> HIDE DEF s
<1>2. /\ s \in Seq(Buffers)
      /\ free.first = IF Len(s) = 0 THEN 0 ELSE s[1]
  BY <1>1 DEF InOrder, Along
<1>3. CASE Len(s) = 0
  <2>1. s = <<>>
    BY <1>2, <1>3, EmptySeq
  <2> QED BY <1>2, <1>3, <2>1 DEF s, Reused, NULL
<1>4. CASE Len(s) # 0
  <2>1. s # <<>> /\ Head(s) = s[1]
    BY <1>2, <1>4, HeadTailProperties
  <2>2. s[1] \in Buffers
    BY <1>2, <1>4, ElementOfSeq
  <2> QED BY <1>2, <1>4, <2>1, <2>2, PointerFacts DEF s, Reused, NULL
<1> QED BY <1>3, <1>4 DEF s

(* Only a miss gives a buffer to another block or makes one.               *)
LEMMA StepTakesFirst ==
  ASSUME IInv, 0 \notin Blocks, ~EvictErrorCaught, [Next]_vars, open'
  PROVE  /\ \A e \in 1..pool : entry'[e].block # entry[e].block =>
               Reused /\ e = free.first
         /\ pool' # pool => ~Reused
<1> DEFINE Same == pool' = pool /\ \A e \in 1..pool : entry'[e].block = entry[e].block
           Goal == /\ \A e \in 1..pool : entry'[e].block # entry[e].block =>
                        Reused /\ e = free.first
                   /\ pool' # pool => ~Reused
<1>0. /\ 1..pool \subseteq Buffers /\ pool \in Nat
      /\ entry \in [Buffers -> [block : Blocks \cup {0}, count : 0..CountMax,
                               dirty : BOOLEAN, data : Values]]
  BY PoolBounds, UnusedBuffers DEF IInv, Typed
<1>1. ASSUME NEW b, NEW n, NEW d, NEW v, NewEntry, entry' = Filled(b, n, d, v) PROVE Goal
  <2>1. \A e \in Buffers : e # Victim => entry'[e] = entry[e]
    BY <1>0, <1>1 DEF Filled
  <2>2. ~Reused => Victim \notin 1..pool
    BY <1>0 DEF Victim
  <2>3. Reused => pool' = pool /\ Victim = free.first
    BY <1>1 DEF NewEntry, Victim
  <2> QED BY <1>0, <2>1, <2>2, <2>3
<1>2. ASSUME NEW f \in Frames, NEW b \in Blocks, AcquireMiss(f, b) PROVE Goal
  BY <1>1, <1>2 DEF AcquireMiss
<1>3. ASSUME NEW b \in Blocks, ReadMiss(b) PROVE Goal
  BY <1>1, <1>3 DEF ReadMiss
<1>4. ASSUME NEW b \in Blocks, NEW v \in Values, WriteMiss(b, v) PROVE Goal
  BY <1>1, <1>4 DEF WriteMiss
<1>5. ASSUME NEW b \in Blocks, ReadFails(b) PROVE Goal
  BY <1>1, <1>5 DEF ReadFails
<1>6. ASSUME NEW f \in Frames, NEW b \in Blocks, AcquireHit(f, b) PROVE Same
  BY <1>0, <1>6 DEF AcquireHit
<1>7. ASSUME NEW f \in Frames, NEW v \in Values, Poke(f, v) PROVE Same
  BY <1>0, <1>7 DEF Poke
<1>8. ASSUME NEW f \in Frames, NEW flags, Release(f, flags) PROVE Same
  BY <1>0, <1>8 DEF Release
<1>9. ASSUME NEW f \in Frames, MarkDirty(f) PROVE Same
  BY <1>0, <1>9 DEF MarkDirty
<1>10. ASSUME NEW f \in Frames, CommitFails(f) PROVE Same
  BY <1>0, <1>10 DEF CommitFails
<1>11. ASSUME NEW b \in Blocks, ReadHit(b) PROVE Same
  BY <1>11 DEF ReadHit
<1>12. ASSUME NEW b \in Blocks, NEW v \in Values, WriteHit(b, v) PROVE Same
  BY <1>0, <1>12 DEF WriteHit
<1>13. ASSUME NEW e, SyncFails(e) PROVE Same
  BY <1>0, <1>13 DEF SyncFails, CleanUpTo
<1>14. CASE Sync
  BY <1>0, <1>14 DEF Sync, CleanUpTo
<1>15. ASSUME NEW b \in Blocks, EvictFails(b) PROVE FALSE
  BY <1>15 DEF EvictFails, Gone
<1>16. ASSUME NEW e, CloseFails(e) PROVE FALSE
  BY <1>16 DEF CloseFails, Gone
<1>17. ~Close
  BY DEF Close, Gone
<1>18. CASE Create \/ UNCHANGED vars
  BY <1>18 DEF Create, vars
<1> QED
  BY <1>2, <1>3, <1>4, <1>5, <1>6, <1>7, <1>8, <1>9, <1>10, <1>11, <1>12, <1>13, <1>14,
     <1>15, <1>16, <1>17, <1>18 DEF Next

(* The list is "stored in lru order" (line 38), for pools of any size: an  *)
(* operation takes at most one buffer out of it, from wherever it stands,  *)
(* and puts at most that one back, at the end; the rest keep their turn; a *)
(* miss takes the one that has waited longest, and makes a buffer only     *)
(* when none waits.                                                        *)
THEOREM OrderIsKept ==
  ASSUME 0 \notin Blocks, ~EvictErrorCaught
  PROVE  Spec => LruOrder
<1>1. IInv /\ [Next]_vars =>
        [open /\ open' =>
           LET before == Follow(free.next, free.first)
               after  == Follow(free'.next, free'.first)
           IN  /\ free' # free =>
                    \E e \in 1..pool' :
                      after \in {Rest(before, e), Append(Rest(before, e), e)}
               /\ \A e \in 1..pool :
                    entry'[e].block # entry[e].block => before # <<>> /\ e = Head(before)
               /\ pool' # pool => before = <<>>]_vars
  <2> SUFFICES ASSUME IInv, [Next]_vars, open, open'
               PROVE  /\ free' # free =>
                           \E e \in 1..pool' :
                             Order(free') \in {Rest(Order(free), e),
                                                Append(Rest(Order(free), e), e)}
                      /\ \A e \in 1..pool : entry'[e].block # entry[e].block =>
                           Order(free) # <<>> /\ e = Head(Order(free))
                      /\ pool' # pool => Order(free) = <<>>
    BY DEF Order
  <2>1. free' # free => \E e \in 1..pool' :
          Order(free') \in {Rest(Order(free), e), Append(Rest(Order(free), e), e)}
    BY StepMoves DEF Moved
  <2>2. /\ \A e \in 1..pool : entry'[e].block # entry[e].block => Reused /\ e = free.first
        /\ pool' # pool => ~Reused
    BY StepTakesFirst
  <2> QED BY <2>1, <2>2, OrderStarts
<1> QED BY <1>1, Invariance, PTL DEF Spec, LruOrder

-----------------------------------------------------------------------------
(* What the mapping shows of a state.                                      *)

Held == [f \in Frames |-> frame[f].block]
Pending == {f \in Frames : frame[f].poked}
View == [f \in Frames |-> IF frame[f] = Idle THEN Zero ELSE entry[frame[f].buf].data]

Mapped == <<Contents, disk, Held, Pending, View>>

Uncached(b) == \A x \in Hashed(hash) : entry[x].block # b

(* Buffer by buffer, what the content of a block is.                       *)
ContentsOK ==
  /\ Contents \in [Blocks -> Values]
  /\ \A x \in Hashed(hash) :
       entry[x].block \in Blocks /\ Contents[entry[x].block] = entry[x].data
  /\ \A b \in Blocks : Uncached(b) => Contents[b] = disk[b]

LEMMA ContentsAre == IInv => ContentsOK
<1> SUFFICES ASSUME IInv PROVE ContentsOK
  OBVIOUS
<1>1. \A b \in Blocks :
        Contents[b] = IF FindEntry(b) = 0 THEN disk[b] ELSE entry[FindEntry(b)].data
  BY DEF Contents, NULL
<1>2. ASSUME NEW b \in Blocks PROVE Contents[b] \in Values
  <2>1. FindEntry(b) # 0 => FindEntry(b) \in Buffers
    BY FoundFacts
  <2> QED BY <1>1, <2>1 DEF IInv, Typed
<1>3. Contents \in [Blocks -> Values]
  <2>1. Contents = [b \in Blocks |-> Contents[b]]
    BY DEF Contents
  <2> QED BY <1>2, <2>1
<1>4. ASSUME NEW x \in Hashed(hash)
      PROVE  entry[x].block \in Blocks /\ Contents[entry[x].block] = entry[x].data
  <2>1. entry[x].block \in Blocks
    BY DEF IInv, HashOK, WellHashed, Hashed
  <2>2. x = FindEntry(entry[x].block) /\ x # 0
    BY <2>1, FoundFacts, PointerFacts DEF Hashed
  <2> QED BY <1>1, <2>1, <2>2
<1>5. ASSUME NEW b \in Blocks, Uncached(b) PROVE Contents[b] = disk[b]
  <2>1. FindEntry(b) = 0
    BY <1>5, FoundFacts DEF Uncached
  <2> QED BY <1>1, <2>1
<1> QED BY <1>3, <1>4, <1>5 DEF ContentsOK

LEMMA ContentsWillBe == IInv' => ContentsOK'
BY ContentsAre, PTL

(* A frame sees the content of the block it holds.                         *)
ViewOK == View = Promise!Seen(Contents, Held)

LEMMA ViewIs == IInv => ViewOK
<1> SUFFICES ASSUME IInv, NEW f \in Frames
             PROVE  (IF frame[f] = Idle THEN Zero ELSE entry[frame[f].buf].data)
                      = (IF Held[f] = -1 THEN Zero ELSE Contents[Held[f]])
  BY DEF ViewOK, View, Promise!Seen, Promise!NoBlock
<1>1. CASE frame[f] = Idle
  BY <1>1 DEF Idle, Held, NoBlock
<1>2. CASE frame[f] # Idle
  <2>1. /\ frame[f].block \in Blocks /\ frame[f].buf \in Hashed(hash)
        /\ entry[frame[f].buf].block = frame[f].block
    BY <1>2, HeldFacts
  <2>2. frame[f].block # -1
    BY <2>1, ConstantFacts DEF NoBlock
  <2> QED BY <1>2, <2>1, <2>2, ContentsAre DEF ContentsOK, Held
<1> QED BY <1>1, <1>2

LEMMA ViewWillBe == IInv' => ViewOK'
BY ViewIs, PTL

-----------------------------------------------------------------------------
(* The operations of the store, in terms of the pool's variables.          *)

WritesBack ==
  \/ disk' = disk
  \/ \E b \in Blocks \ {Held[f] : f \in Frames} : disk' = [disk EXCEPT ![b] = Contents[b]]

LEMMA IsAcquire ==
  ASSUME IInv', NEW f \in Frames, NEW b \in Blocks,
         Held[f] = NoBlock, Held' = [Held EXCEPT ![f] = b],
         Pending' = Pending, Contents' = Contents, WritesBack
  PROVE  Promise!Next
<1>1. Promise!Acquire(f, b)
  BY DEF Promise!Acquire, Promise!WriteBack, Promise!NoBlock, WritesBack, Held, Pending, NoBlock
<1> QED BY <1>1, ViewWillBe DEF Promise!Next, ViewOK, View, Held

LEMMA IsAccess ==
  ASSUME IInv', NEW b \in Blocks, NEW v \in Values,
         Held' = Held, Pending' = Pending, Contents' = [Contents EXCEPT ![b] = v], WritesBack
  PROVE  Promise!Next
<1>1. Contents'[b] \in Values /\ Contents' = [Contents EXCEPT ![b] = Contents'[b]]
  BY ContentsWillBe DEF ContentsOK
<1>2. Promise!Access
  BY <1>1 DEF Promise!Access, Promise!Change, Promise!WriteBack, WritesBack, Held, Pending
<1> QED BY <1>2, ViewWillBe DEF Promise!Next, ViewOK, View, Held

LEMMA IsPoke ==
  ASSUME IInv', NEW f \in Frames, NEW b \in Blocks, Held[f] = b, NEW v \in Values,
         Held' = Held, Pending' = Pending \cup {f},
         Contents' = [Contents EXCEPT ![b] = v], disk' = disk
  PROVE  Promise!Next
<1>1. Contents'[b] \in Values /\ Contents' = [Contents EXCEPT ![b] = Contents'[b]]
  BY ContentsWillBe DEF ContentsOK
<1>2. Held[f] # -1
  BY ConstantFacts DEF NoBlock
<1>3. Promise!Poke(f)
  BY <1>1, <1>2 DEF Promise!Poke, Promise!Change, Promise!NoBlock, Held, Pending
<1> QED BY <1>3, ViewWillBe DEF Promise!Next, ViewOK, View, Held

LEMMA IsMarkDirty ==
  ASSUME IInv', NEW f \in Frames, Held[f] # NoBlock,
         Held' = Held, Pending' = Pending \ {f}, Contents' = Contents, disk' = disk
  PROVE  Promise!Next
<1>1. Promise!MarkDirty(f)
  BY DEF Promise!MarkDirty, Promise!NoBlock, Held, Pending, NoBlock
<1> QED BY <1>1, ViewWillBe DEF Promise!Next, ViewOK, View, Held

LEMMA IsRelease ==
  ASSUME IInv', NEW f \in Frames, Held[f] # NoBlock,
         Held' = [Held EXCEPT ![f] = NoBlock], Pending' = Pending \ {f},
         Contents' = Contents,
         disk' = disk \/ disk' = [disk EXCEPT ![Held[f]] = Contents[Held[f]]]
  PROVE  Promise!Next
<1>1. Promise!Release(f)
  BY DEF Promise!Release, Promise!NoBlock, Held, Pending, NoBlock
<1> QED BY <1>1, ViewWillBe DEF Promise!Next, ViewOK, View, Held

(* A block that is synced to something else than its content is held by a  *)
(* frame that has yet to declare its store.                                *)
LEMMA IsSync ==
  ASSUME IInv', Held' = Held, Pending' = Pending, Contents' = Contents,
         disk \in [Blocks -> Values], disk' \in [Blocks -> Values],
         \A b \in Blocks : disk'[b] # Contents[b] =>
           disk'[b] = disk[b] /\ b \in {Held[f] : f \in Pending}
  PROVE  Promise!Next
<1> DEFINE S == {b \in Blocks : disk'[b] # Contents[b]}
<1>1. S \in SUBSET {Held[f] : f \in Pending}
  OBVIOUS
<1>2. disk' = [b \in Blocks |-> IF b \in S THEN disk[b] ELSE Contents[b]]
  OBVIOUS
<1>3. Promise!Sync
  BY <1>1, <1>2, Zenon DEF Promise!Sync, Held, Pending
<1> QED BY <1>3, ViewWillBe DEF Promise!Next, ViewOK, View, Held

LEMMA IsFail ==
  ASSUME IInv', NEW f, Pending \subseteq {f},
         frame' = [g \in Frames |-> Idle], Contents' = Contents,
         disk \in [Blocks -> Values], disk' \in [Blocks -> Values],
         \A b \in Blocks : disk'[b] \in {disk[b], Contents[b]}
  PROVE  Promise!Next
<1> DEFINE S == {b \in Blocks : disk'[b] = Contents[b]}
<1>1. S \in SUBSET Blocks
  OBVIOUS
<1>2. disk' = [b \in Blocks |-> IF b \in S THEN Contents[b] ELSE disk[b]]
  OBVIOUS
<1>3. \A g, h \in Pending : g = h
  OBVIOUS
<1>4. Held' = [g \in Frames |-> -1] /\ Pending' = {}
  BY DEF Held, Pending, Idle, NoBlock
<1>5. \E T \in SUBSET Blocks :
        disk' = [b \in Blocks |-> IF b \in T THEN Contents[b] ELSE disk[b]]
  BY <1>1, <1>2, Zenon
<1>6. Promise!Fail
  BY <1>3, <1>4, <1>5 DEF Promise!Fail, Promise!NoBlock, Held, Pending
<1> QED BY <1>6, ViewWillBe DEF Promise!Next, ViewOK, View, Held

LEMMA IsClose ==
  ASSUME IInv', Pending = {}, frame' = [g \in Frames |-> Idle],
         Contents' = Contents, disk' = Contents
  PROVE  Promise!Next
<1>1. Held' = [g \in Frames |-> -1] /\ Pending' = {}
  BY DEF Held, Pending, Idle, NoBlock
<1>2. Promise!Close
  BY <1>1 DEF Promise!Close, Promise!NoBlock, Held, Pending
<1> QED BY <1>2, ViewWillBe DEF Promise!Next, ViewOK, View, Held

LEMMA IsCloseFails ==
  ASSUME IInv', Pending = {}, frame' = [g \in Frames |-> Idle], "close" \in Faults,
         Contents' = disk', disk \in [Blocks -> Values], disk' \in [Blocks -> Values],
         \A b \in Blocks : disk'[b] \in {disk[b], Contents[b]}
  PROVE  Promise!Next
<1> DEFINE S == {b \in Blocks : disk'[b] = Contents[b]}
<1>1. S \in SUBSET Blocks
  OBVIOUS
<1>2. disk' = [b \in Blocks |-> IF b \in S THEN Contents[b] ELSE disk[b]]
  OBVIOUS
<1>3. Held' = [g \in Frames |-> -1] /\ Pending' = {}
  BY DEF Held, Pending, Idle, NoBlock
<1>4. \E U \in SUBSET Blocks :
        disk' = [b \in Blocks |-> IF b \in U THEN Contents[b] ELSE disk[b]]
  BY <1>1, <1>2, Zenon
<1>5. Promise!CloseFails
  BY <1>3, <1>4 DEF Promise!CloseFails, Promise!NoBlock, Held, Pending
<1> QED BY <1>5, ViewWillBe DEF Promise!Next, ViewOK, View, Held

-----------------------------------------------------------------------------
(* How a step changes what the store shows.                                *)

LEMMA TableContents ==
  ASSUME IInv, IInv', hash' = hash,
         \A x \in Buffers : entry'[x].block = entry[x].block,
         NEW b \in Blocks
  PROVE  \/ \E x \in Hashed(hash) : /\ x \in Buffers /\ entry[x].block = b
                                   /\ Contents[b] = entry[x].data
                                   /\ Contents'[b] = entry'[x].data
         \/ Uncached(b) /\ Contents[b] = disk[b] /\ Contents'[b] = disk'[b]
<1>1. Hashed(hash') = Hashed(hash) /\ Hashed(hash) \subseteq Buffers
  BY DEF Hashed
<1>2. ContentsOK /\ ContentsOK'
  BY ContentsAre, ContentsWillBe
<1>3. ASSUME NEW x \in Hashed(hash), entry[x].block = b
      PROVE  Contents[b] = entry[x].data /\ Contents'[b] = entry'[x].data
  <2>1. x \in Hashed(hash)' /\ entry'[x].block = b
    BY <1>1, <1>3
  <2> QED BY <1>2, <1>3, <2>1 DEF ContentsOK
<1>4. ASSUME Uncached(b)
      PROVE  Contents[b] = disk[b] /\ Contents'[b] = disk'[b]
  <2>1. Uncached(b)'
    BY <1>1, <1>4 DEF Uncached
  <2> QED BY <1>2, <1>4, <2>1 DEF ContentsOK
<1> QED BY <1>1, <1>3, <1>4 DEF Uncached

LEMMA ContentsKept ==
  ASSUME IInv, IInv', hash' = hash,
         \A x \in Buffers : entry'[x].block = entry[x].block,
         \A x \in Buffers : entry'[x].data = entry[x].data,
         \A b \in Blocks : Uncached(b) => disk'[b] = disk[b]
  PROVE  Contents' = Contents
<1>1. Contents \in [Blocks -> Values] /\ Contents' \in [Blocks -> Values]
  BY ContentsAre, ContentsWillBe DEF ContentsOK
<1>2. \A b \in Blocks : Contents'[b] = Contents[b]
  BY TableContents
<1> QED BY <1>1, <1>2

LEMMA ContentsChange ==
  ASSUME IInv, IInv', hash' = hash, disk' = disk,
         \A x \in Buffers : entry'[x].block = entry[x].block,
         NEW e \in Hashed(hash), NEW v \in Values, entry'[e].data = v,
         \A x \in Buffers \ {e} : entry'[x].data = entry[x].data
  PROVE  Contents' = [Contents EXCEPT ![entry[e].block] = v]
<1>1. Contents \in [Blocks -> Values] /\ Contents' \in [Blocks -> Values]
  BY ContentsAre, ContentsWillBe DEF ContentsOK
<1>2. \A b \in Blocks : Contents'[b] = IF b = entry[e].block THEN v ELSE Contents[b]
  BY TableContents, OneBufferPerBlock DEF IInv, HashOK, Uncached
<1> QED BY <1>1, <1>2

-----------------------------------------------------------------------------
(* Each action is an operation of the store.                               *)

LEMMA FrameTakenShows ==
  ASSUME IInv, NEW f \in Frames, frame[f] = Idle, NEW e, NEW b,
         frame' = [frame EXCEPT ![f] = [buf |-> e, block |-> b, poked |-> FALSE]]
  PROVE  /\ Held[f] = NoBlock
         /\ Held' = [Held EXCEPT ![f] = b]
         /\ Pending' = Pending
<1>1. \A g \in Frames :
        /\ frame'[g].block = IF g = f THEN b ELSE frame[g].block
        /\ frame'[g].poked <=> frame[g].poked
  <2>1. PICK r : r = [buf |-> e, block |-> b, poked |-> FALSE]
    OBVIOUS
  <2>2. r.block = b /\ ~r.poked
    BY <2>1
  <2>3. \A g \in Frames : frame'[g] = IF g = f THEN r ELSE frame[g]
    BY <2>1 DEF IInv, Typed
  <2>4. ~frame[f].poked
    BY DEF Idle
  <2> QED BY <2>2, <2>3, <2>4
<1>2. Held' = [Held EXCEPT ![f] = b]
  BY <1>1 DEF Held
<1>3. Pending' = Pending
  BY <1>1 DEF Pending
<1> QED BY <1>2, <1>3 DEF Held, Idle

LEMMA AcquireHitRefines ==
  ASSUME IInv, NEW f \in Frames, NEW b \in Blocks, AcquireHit(f, b)
  PROVE  Promise!Next
<1>1. IInv'
  BY AcquireHitKeeps
<1>2. PICK e \in Buffers : e = FindEntry(b)
  BY FoundFacts DEF AcquireHit, NULL
<1>3. /\ frame[f] = Idle /\ entry' = [entry EXCEPT ![e].count = @ + 1]
      /\ frame' = [frame EXCEPT ![f] = [buf |-> e, block |-> b, poked |-> FALSE]]
      /\ hash' = hash /\ disk' = disk
  BY <1>2 DEF AcquireHit
<1>4. \A x \in Buffers : /\ entry'[x].block = entry[x].block
                         /\ entry'[x].data = entry[x].data
  BY <1>3 DEF IInv, Typed
<1>5. Contents' = Contents
  BY <1>1, <1>3, <1>4, ContentsKept
<1> QED BY <1>1, <1>3, <1>5, FrameTakenShows, IsAcquire DEF WritesBack

LEMMA PokeRefines ==
  ASSUME IInv, NEW f \in Frames, NEW v \in Values, Poke(f, v)
  PROVE  Promise!Next
<1>1. IInv'
  BY PokeKeeps
<1>2. PICK e \in Buffers : e = frame[f].buf
  BY HeldFacts DEF Poke
<1>3. /\ e \in Hashed(hash) /\ entry[e].block = frame[f].block /\ frame[f].block \in Blocks
      /\ entry' = [entry EXCEPT ![e].data = v]
      /\ frame' = [frame EXCEPT ![f].poked = TRUE]
      /\ hash' = hash /\ disk' = disk
  BY <1>2, HeldFacts DEF Poke
<1>4. /\ \A x \in Buffers : entry'[x].block = entry[x].block
      /\ \A x \in Buffers \ {e} : entry'[x].data = entry[x].data
      /\ entry'[e].data = v
  BY <1>3 DEF IInv, Typed
<1>5. Contents' = [Contents EXCEPT ![frame[f].block] = v]
  BY <1>1, <1>3, <1>4, ContentsChange
<1>6. Held[f] = frame[f].block /\ Held' = Held /\ Pending' = Pending \cup {f}
  BY <1>3 DEF Held, Pending, IInv, Typed
<1> QED BY <1>1, <1>3, <1>5, <1>6, IsPoke

LEMMA MarkDirtyRefines ==
  ASSUME IInv, NEW f \in Frames, MarkDirty(f)
  PROVE  Promise!Next
<1>1. IInv'
  BY MarkDirtyKeeps
<1>2. PICK e \in Buffers : e = frame[f].buf
  BY HeldFacts DEF MarkDirty
<1>3. /\ frame[f].block \in Blocks
      /\ entry' = [entry EXCEPT ![e].dirty = TRUE]
      /\ frame' = [frame EXCEPT ![f].poked = FALSE]
      /\ hash' = hash /\ disk' = disk
  BY <1>2, HeldFacts, PointerFacts DEF MarkDirty, NULL
<1>4. \A x \in Buffers : /\ entry'[x].block = entry[x].block
                         /\ entry'[x].data = entry[x].data
  BY <1>3 DEF IInv, Typed
<1>5. Contents' = Contents
  BY <1>1, <1>3, <1>4, ContentsKept
<1>6. Held[f] # NoBlock /\ Held' = Held /\ Pending' = Pending \ {f}
  BY <1>3, ConstantFacts DEF Held, Pending, IInv, Typed
<1> QED BY <1>1, <1>3, <1>5, <1>6, IsMarkDirty

LEMMA ReleaseRefines ==
  ASSUME IInv, NEW f \in Frames, NEW flags \in {{}, {"dirty"}, {"commit"}}, Release(f, flags)
  PROVE  Promise!Next
<1>1. IInv'
  BY ReleaseKeeps
<1>2. PICK e \in Buffers : e = frame[f].buf
  BY HeldFacts DEF Release
<1>3. PICK b \in Blocks : b = frame[f].block
  BY HeldFacts DEF Release
<1>4. /\ e \in Hashed(hash) /\ entry[e].block = b /\ e # 0
      /\ entry' = [entry EXCEPT ![e].count = Decrement(@),
                                ![e].dirty = (@ \/ flags # {}) /\ "commit" \notin flags]
      /\ disk' = IF "commit" \in flags THEN [disk EXCEPT ![b] = entry[e].data] ELSE disk
      /\ frame' = [frame EXCEPT ![f] = Idle]
      /\ hash' = hash
  BY <1>2, <1>3, HeldFacts, PointerFacts DEF Release, NULL
<1>5. \A x \in Buffers : /\ entry'[x].block = entry[x].block
                         /\ entry'[x].data = entry[x].data
  BY <1>4 DEF IInv, Typed
<1>6. \A c \in Blocks : Uncached(c) => disk'[c] = disk[c]
  BY <1>4 DEF Uncached, IInv, Typed
<1>7. Contents' = Contents
  BY <1>1, <1>4, <1>5, <1>6, ContentsKept
<1>8. Contents[b] = entry[e].data
  BY <1>4, ContentsAre DEF ContentsOK
<1>9. /\ Held[f] = b /\ b # NoBlock
      /\ Held' = [Held EXCEPT ![f] = NoBlock] /\ Pending' = Pending \ {f}
  BY <1>3, <1>4, ConstantFacts DEF Held, Pending, Idle, IInv, Typed
<1> QED BY <1>1, <1>4, <1>7, <1>8, <1>9, IsRelease

LEMMA WriteHitRefines ==
  ASSUME IInv, NEW b \in Blocks, NEW v \in Values, WriteHit(b, v)
  PROVE  Promise!Next
<1>1. IInv'
  BY WriteHitKeeps
<1>2. PICK e \in Buffers : e = FindEntry(b)
  BY FoundFacts DEF WriteHit, NULL
<1>3. /\ e \in Hashed(hash) /\ entry[e].block = b
      /\ entry' = [entry EXCEPT ![e].dirty = TRUE, ![e].data = v]
      /\ frame' = frame /\ hash' = hash /\ disk' = disk
  BY <1>2, FoundFacts, PointerFacts DEF WriteHit
<1>4. /\ \A x \in Buffers : entry'[x].block = entry[x].block
      /\ \A x \in Buffers \ {e} : entry'[x].data = entry[x].data
      /\ entry'[e].data = v
  BY <1>3 DEF IInv, Typed
<1>5. Contents' = [Contents EXCEPT ![b] = v]
  BY <1>1, <1>3, <1>4, ContentsChange
<1>6. Held' = Held /\ Pending' = Pending
  BY <1>3 DEF Held, Pending
<1> QED BY <1>1, <1>3, <1>5, <1>6, IsAccess DEF WritesBack

(* What a miss does to the table and to the device: the buffer's old block *)
(* leaves the table, written back if it was dirty, and nobody holds it.    *)
LEMMA VictimContents ==
  ASSUME IInv, 0 \notin Blocks, HasVictim, disk' = WrittenBack
  PROVE  /\ WritesBack
         /\ disk' \in [Blocks -> Values]
         /\ \A b \in Blocks : disk'[b] \in {disk[b], Contents[b]}
         /\ \A b \in Blocks : Uncached(b) => disk'[b] = disk[b]
         /\ Victim \in Hashed(hash) =>
              disk'[entry[Victim].block] = Contents[entry[Victim].block]
<1>1. PICK v \in Buffers : v = Victim
  BY VictimFacts
<1>2. ContentsOK
  BY ContentsAre
<1>3. disk' \in [Blocks -> Values]
  BY VictimFacts
<1>4. ASSUME Reused, entry[free.first].dirty
      PROVE  /\ v \in Hashed(hash) /\ entry[v].block \in Blocks
             /\ disk' = [disk EXCEPT ![entry[v].block] = Contents[entry[v].block]]
             /\ \A f \in Frames : Held[f] # entry[v].block
  <2>1. v = free.first
    BY <1>1, <1>4 DEF Victim
  <2>2. v \in Hashed(hash)
    BY <1>4, <2>1 DEF IInv, DirtyOK
  <2>3. entry[v].block \in Blocks /\ Contents[entry[v].block] = entry[v].data
    BY <1>2, <2>2 DEF ContentsOK
  <2>4. ASSUME NEW f \in Frames, Held[f] = entry[v].block PROVE FALSE
    <3>1. frame[f].block \in Blocks /\ frame[f] # Idle
      BY <2>3, <2>4, ConstantFacts DEF Held, Idle
    <3>2. frame[f].buf \in Hashed(hash) /\ entry[frame[f].buf].block = entry[v].block
      BY <2>4, <3>1, HeldFacts DEF Held
    <3>3. frame[f].buf = v
      BY <2>2, <3>2, OneBufferPerBlock DEF IInv, HashOK
    <3> QED BY <1>1, <3>3, VictimFacts
  <2> QED BY <1>4, <2>1, <2>2, <2>3, <2>4 DEF WrittenBack
<1>5. ASSUME ~(Reused /\ entry[free.first].dirty)
      PROVE  disk' = disk
  BY <1>5 DEF WrittenBack
<1>6. WritesBack
  BY <1>4, <1>5 DEF WritesBack
<1>7. \A b \in Blocks : disk'[b] \in {disk[b], Contents[b]}
  BY <1>4, <1>5 DEF IInv, Typed
<1>8. \A b \in Blocks : Uncached(b) => disk'[b] = disk[b]
  BY <1>4, <1>5 DEF IInv, Typed, Uncached
<1>9. ASSUME v \in Hashed(hash) PROVE disk'[entry[v].block] = Contents[entry[v].block]
  <2>1. entry[v].block \in Blocks /\ Contents[entry[v].block] = entry[v].data
    BY <1>2, <1>9 DEF ContentsOK
  <2>2. CASE Reused /\ entry[free.first].dirty
    BY <1>4, <2>1, <2>2 DEF IInv, Typed
  <2>3. CASE ~(Reused /\ entry[free.first].dirty)
    <3>1. ~PokedIn(v)
      BY <1>1, VictimFacts DEF PokedIn
    <3>2. ~Reused => v \notin 1..pool
      BY <1>1, ConstantFacts DEF Victim, IInv, Typed
    <3>3. ~entry[v].dirty
      BY <1>1, <1>9, <2>3, <3>2 DEF Victim, IInv, HashOK
    <3> QED BY <1>5, <1>9, <2>1, <2>3, <3>1, <3>3 DEF IInv, CleanOK
  <2> QED BY <2>2, <2>3
<1> QED BY <1>1, <1>3, <1>6, <1>7, <1>8, <1>9

(* A miss changes the content of the block it was asked for alone.         *)
LEMMA MissContents ==
  ASSUME IInv, IInv', 0 \notin Blocks, NEW b \in Blocks, FindEntry(b) = 0, NewEntry,
         NEW n, NEW d, NEW w \in Values, entry' = Filled(b, n, d, w),
         hash' = AddEntry(HashWithoutVictim, Victim, b)
  PROVE  /\ WritesBack
         /\ Contents' = [Contents EXCEPT ![b] = w]
         /\ WrittenBack[b] = Contents[b]
<1>1. PICK v \in Buffers : v = Victim
  BY VictimFacts DEF NewEntry
<1>2. PICK h : h = HashWithoutVictim
  OBVIOUS
<1>3. /\ WellHashed(h, entry) /\ Hashed(h) = Hashed(hash) \ {v}
      /\ HasVictim /\ disk' = WrittenBack
  BY <1>1, <1>2, VictimFacts DEF NewEntry
<1>4. /\ entry'[v] = [block |-> b, count |-> n, dirty |-> d, data |-> w]
      /\ \A x \in Buffers \ {v} : entry'[x] = entry[x]
  BY <1>1 DEF Filled, IInv, Typed
<1>5. Uncached(b)
  BY FoundFacts DEF Uncached
<1>6. Hashed(hash') = Hashed(hash) \cup {v}
  <2>1. v \notin Hashed(h) /\ \A x \in Hashed(h) : entry[x].block # b
    BY <1>3, <1>5 DEF Uncached
  <2>2. entry'[v].block = b /\ hash' = AddEntry(h, v, b)
    BY <1>1, <1>2, <1>4
  <2>3. Hashed(AddEntry(h, v, b)) = Hashed(h) \cup {v}
    BY <1>3, <1>4, <2>1, <2>2, AddEntryFacts
  <2> QED BY <1>3, <2>2, <2>3
<1>7. ContentsOK /\ ContentsOK'
  BY ContentsAre, ContentsWillBe
<1>8. Contents'[b] = w
  <2>1. v \in Hashed(hash)' /\ entry'[v].block = b /\ entry'[v].data = w
    BY <1>4, <1>6
  <2> QED BY <1>7, <2>1 DEF ContentsOK
<1>9. ASSUME NEW c \in Blocks, c # b PROVE Contents'[c] = Contents[c]
  <2>1. ASSUME NEW x \in Hashed(hash), x # v, entry[x].block = c
        PROVE  Contents'[c] = Contents[c]
    <3>1. x \in Buffers /\ x \in Hashed(hash)'
      BY <1>6 DEF Hashed
    <3>2. entry'[x].block = c /\ entry'[x].data = entry[x].data
      BY <1>4, <2>1, <3>1
    <3> QED BY <1>7, <2>1, <3>1, <3>2 DEF ContentsOK
  <2>2. ASSUME \A x \in Hashed(hash) : x # v => entry[x].block # c
        PROVE  Contents'[c] = Contents[c]
    <3>1. \A x \in Hashed(hash)' : x \in Buffers /\ (x # v => x \in Hashed(hash))
      BY <1>6 DEF Hashed
    <3>2. Uncached(c)'
      BY <1>4, <1>9, <2>2, <3>1 DEF Uncached
    <3>3. Contents'[c] = disk'[c]
      BY <1>7, <3>2 DEF ContentsOK
    <3>4. CASE v \in Hashed(hash) /\ entry[v].block = c
      BY <1>1, <1>3, <3>3, <3>4, VictimContents
    <3>5. CASE Uncached(c)
      BY <1>3, <1>7, <3>3, <3>5, VictimContents DEF ContentsOK
    <3> QED BY <2>2, <3>4, <3>5 DEF Uncached
  <2> QED BY <2>1, <2>2
<1>10. Contents' = [Contents EXCEPT ![b] = w]
  BY <1>7, <1>8, <1>9 DEF ContentsOK
<1>11. WrittenBack[b] = Contents[b]
  BY <1>3, <1>5, <1>7, VictimContents DEF ContentsOK
<1> QED BY <1>3, <1>10, <1>11, VictimContents

LEMMA MissRefines ==
  ASSUME IInv, 0 \notin Blocks, NEW b \in Blocks,
         \/ \E f \in Frames : AcquireMiss(f, b)
         \/ ReadMiss(b)
         \/ \E v \in Values : WriteMiss(b, v)
  PROVE  Promise!Next
<1>1. IInv'
  BY MissesKeep
<1>2. Contents \in [Blocks -> Values]
  BY ContentsAre DEF ContentsOK
<1>3. NewEntry => WrittenBack[b] \in Values
  BY VictimFacts DEF NewEntry
<1>4. ASSUME NEW f \in Frames, AcquireMiss(f, b) PROVE Promise!Next
  <2>1. /\ FindEntry(b) = 0 /\ NewEntry /\ frame[f] = Idle
        /\ entry' = Filled(b, 1, FALSE, WrittenBack[b])
        /\ hash' = AddEntry(HashWithoutVictim, Victim, b)
        /\ frame' = [frame EXCEPT ![f] = [buf |-> Victim, block |-> b, poked |-> FALSE]]
    BY <1>4 DEF AcquireMiss, NULL
  <2>2. /\ WritesBack /\ WrittenBack[b] = Contents[b]
        /\ Contents' = [Contents EXCEPT ![b] = WrittenBack[b]]
    BY <1>1, <1>3, <2>1, MissContents
  <2>3. Contents' = Contents
    BY <1>2, <2>2
  <2>4. Held[f] = NoBlock /\ Held' = [Held EXCEPT ![f] = b] /\ Pending' = Pending
    BY <2>1, FrameTakenShows
  <2> QED BY <1>1, <2>2, <2>3, <2>4, IsAcquire
<1>5. CASE ReadMiss(b)
  <2>1. /\ FindEntry(b) = 0 /\ NewEntry /\ frame' = frame
        /\ entry' = Filled(b, 0, FALSE, WrittenBack[b])
        /\ hash' = AddEntry(HashWithoutVictim, Victim, b)
    BY <1>5 DEF ReadMiss, NULL
  <2>2. WritesBack /\ Contents' = [Contents EXCEPT ![b] = WrittenBack[b]]
    BY <1>1, <1>3, <2>1, MissContents
  <2>3. Held' = Held /\ Pending' = Pending
    BY <2>1 DEF Held, Pending
  <2> QED BY <1>1, <1>3, <2>1, <2>2, <2>3, IsAccess
<1>6. ASSUME NEW v \in Values, WriteMiss(b, v) PROVE Promise!Next
  <2>1. /\ FindEntry(b) = 0 /\ NewEntry /\ frame' = frame
        /\ entry' = Filled(b, 0, TRUE, v)
        /\ hash' = AddEntry(HashWithoutVictim, Victim, b)
    BY <1>6 DEF WriteMiss, NULL
  <2>2. WritesBack /\ Contents' = [Contents EXCEPT ![b] = v]
    BY <1>1, <2>1, MissContents
  <2>3. Held' = Held /\ Pending' = Pending
    BY <2>1 DEF Held, Pending
  <2> QED BY <1>1, <2>2, <2>3, IsAccess
<1> QED BY <1>4, <1>5, <1>6

(* Flushing writes contents, and leaves out only what a frame has yet to   *)
(* declare.                                                                *)
LEMMA FlushContents ==
  ASSUME IInv, NEW n \in 0..pool
  PROVE  /\ FlushUpTo(n) \in [Blocks -> Values]
         /\ \A b \in Blocks : FlushUpTo(n)[b] \in {disk[b], Contents[b]}
         /\ \A b \in Blocks : Uncached(b) => FlushUpTo(n)[b] = disk[b]
         /\ n = pool => \A b \in Blocks : FlushUpTo(n)[b] # Contents[b] =>
              b \in {Held[f] : f \in Pending}
<1>1. ContentsOK /\ pool \in Nat /\ pool <= MaxBuffers
  BY ContentsAre, ConstantFacts DEF IInv, Typed
<1>2. ASSUME NEW b \in Blocks, Uncached(b) PROVE FlushUpTo(n)[b] = disk[b]
  <2>1. \A x \in 1..n : ~(entry[x].dirty /\ entry[x].block = b)
    <3>1. \A x \in 1..n : x \in Buffers
      BY <1>1, ConstantFacts DEF Buffers
    <3>2. \A x \in 1..n : entry[x].dirty => x \in Hashed(hash)
      BY <3>1 DEF IInv, DirtyOK
    <3> QED BY <1>2, <3>2 DEF Uncached
  <2>2. {x \in 1..n : entry[x].dirty /\ entry[x].block = b} = {}
    BY <2>1
  <2> QED BY <2>2 DEF FlushUpTo
<1>3. ASSUME NEW x \in Hashed(hash)
      PROVE  /\ FlushUpTo(n)[entry[x].block] \in {disk[entry[x].block], Contents[entry[x].block]}
             /\ n = pool /\ FlushUpTo(n)[entry[x].block] # Contents[entry[x].block] =>
                  entry[x].block \in {Held[f] : f \in Pending}
  <2>1. /\ FlushUpTo(n)[entry[x].block] =
             IF entry[x].dirty /\ x <= n THEN entry[x].data ELSE disk[entry[x].block]
        /\ Contents[entry[x].block] = entry[x].data
    BY <1>1, FlushFacts DEF ContentsOK
  <2>2. ASSUME n = pool, FlushUpTo(n)[entry[x].block] # Contents[entry[x].block]
        PROVE  entry[x].block \in {Held[f] : f \in Pending}
    <3>1. x \in 1..pool
      BY DEF IInv, HashOK
    <3>2. ~entry[x].dirty /\ disk[entry[x].block] # entry[x].data
      BY <1>1, <2>1, <2>2, <3>1
    <3>3. PICK f \in Frames : frame[f].poked /\ frame[f].buf = x
      BY <3>2 DEF IInv, CleanOK, PokedIn
    <3>4. frame[f] # Idle
      BY <3>3 DEF Idle
    <3>5. frame[f].block = entry[x].block
      BY <3>3, <3>4, HeldFacts
    <3> QED BY <3>3, <3>5 DEF Held, Pending
  <2> QED BY <2>1, <2>2
<1>4. \A b \in Blocks : Uncached(b) \/ \E x \in Hashed(hash) : entry[x].block = b
  BY DEF Uncached
<1>5. \A b \in Blocks : FlushUpTo(n)[b] \in {disk[b], Contents[b]}
  BY <1>2, <1>3, <1>4
<1>6. ASSUME n = pool, NEW b \in Blocks, FlushUpTo(n)[b] # Contents[b]
      PROVE  b \in {Held[f] : f \in Pending}
  BY <1>1, <1>2, <1>3, <1>4, <1>6 DEF ContentsOK
<1> QED BY <1>2, <1>5, <1>6, FlushFacts

LEMMA CleanedKeep ==
  ASSUME IInv, NEW n \in 0..pool, entry' = CleanUpTo(n)
  PROVE  \A x \in Buffers : /\ entry'[x].block = entry[x].block
                            /\ entry'[x].data = entry[x].data
BY DEF CleanUpTo, IInv, Typed

LEMMA SyncRefines ==
  ASSUME IInv, Sync
  PROVE  Promise!Next
<1>1. pool \in 0..pool
  BY ConstantFacts DEF IInv, Typed
<1>2. /\ disk' = FlushUpTo(pool) /\ entry' = CleanUpTo(pool)
      /\ frame' = frame /\ hash' = hash
  BY DEF Sync
<1>3. IInv'
  BY <1>1, FlushKeeps DEF Sync
<1>4. Contents' = Contents
  BY <1>1, <1>2, <1>3, FlushContents, CleanedKeep, ContentsKept
<1>5. Held' = Held /\ Pending' = Pending
  BY <1>2 DEF Held, Pending
<1>6. \A b \in Blocks : disk'[b] # Contents[b] =>
        disk'[b] = disk[b] /\ b \in {Held[f] : f \in Pending}
  BY <1>1, <1>2, FlushContents
<1>7. disk \in [Blocks -> Values] /\ disk' \in [Blocks -> Values]
  BY <1>1, <1>2, FlushContents DEF IInv, Typed
<1> QED BY <1>3, <1>4, <1>5, <1>6, <1>7, IsSync

LEMMA SyncFailsRefines ==
  ASSUME IInv, NEW e \in 1..(pool + 1), SyncFails(e)
  PROVE  Promise!Next
<1>1. e - 1 \in 0..pool
  BY PoolBounds
<1>2. /\ disk' = FlushUpTo(e - 1) /\ entry' = CleanUpTo(e - 1)
      /\ frame' = [f \in Frames |-> Idle] /\ hash' = hash
      /\ \A f \in Frames : ~frame[f].poked
  BY DEF SyncFails, Throws, Unwound
<1>3. IInv'
  BY <1>1, FlushKeeps DEF SyncFails, Throws, Unwound
<1>4. Contents' = Contents
  BY <1>1, <1>2, <1>3, FlushContents, CleanedKeep, ContentsKept
<1>5. Pending \subseteq {e}
  BY <1>2 DEF Pending
<1>6. \A b \in Blocks : disk'[b] \in {disk[b], Contents[b]}
  BY <1>1, <1>2, FlushContents
<1>7. disk \in [Blocks -> Values] /\ disk' \in [Blocks -> Values]
  BY <1>1, <1>2, FlushContents DEF IInv, Typed
<1> QED BY <1>2, <1>3, <1>4, <1>5, <1>6, <1>7, IsFail

(* The block of the buffer a failed read gives up is on the device.        *)
LEMMA ReadFailsRefines ==
  ASSUME IInv, 0 \notin Blocks, NEW b \in Blocks, ReadFails(b)
  PROVE  Promise!Next
<1>1. IInv'
  BY ReadFailsKeeps
<1>2. PICK v \in Buffers : v = Victim
  BY VictimFacts DEF ReadFails, NewEntry
<1>3. /\ disk' = WrittenBack /\ HasVictim /\ Hashed(hash') = Hashed(hash) \ {v}
      /\ entry' = Filled(b, 1, FALSE, entry[v].data)
      /\ frame' = [f \in Frames |-> Idle] /\ \A f \in Frames : ~frame[f].poked
  BY <1>2, VictimFacts DEF ReadFails, NewEntry, Throws, Unwound
<1>4. \A x \in Buffers \ {v} : entry'[x] = entry[x]
  BY <1>2, <1>3 DEF Filled, IInv, Typed
<1>5. ContentsOK /\ ContentsOK'
  BY <1>1, ContentsAre, ContentsWillBe
<1>6. ASSUME NEW c \in Blocks PROVE Contents'[c] = Contents[c]
  <2>1. ASSUME NEW x \in Hashed(hash), x # v, entry[x].block = c
        PROVE  Contents'[c] = Contents[c]
    <3>1. x \in Buffers /\ x \in Hashed(hash)'
      BY <1>3, <2>1 DEF Hashed
    <3>2. entry'[x] = entry[x]
      BY <1>4, <2>1, <3>1
    <3> QED BY <1>5, <2>1, <3>1, <3>2 DEF ContentsOK
  <2>2. ASSUME \A x \in Hashed(hash) : x # v => entry[x].block # c
        PROVE  Contents'[c] = Contents[c]
    <3>1. \A x \in Hashed(hash)' : x \in Buffers \ {v} /\ x \in Hashed(hash)
      BY <1>3 DEF Hashed
    <3>2. Uncached(c)'
      BY <1>4, <2>2, <3>1 DEF Uncached
    <3>3. Contents'[c] = disk'[c]
      BY <1>5, <3>2 DEF ContentsOK
    <3>4. CASE v \in Hashed(hash) /\ entry[v].block = c
      BY <1>2, <1>3, <3>3, <3>4, VictimContents
    <3>5. CASE Uncached(c)
      BY <1>3, <1>5, <3>3, <3>5, VictimContents DEF ContentsOK
    <3> QED BY <2>2, <3>4, <3>5 DEF Uncached
  <2> QED BY <2>1, <2>2
<1>7. Contents' = Contents
  BY <1>5, <1>6 DEF ContentsOK
<1>8. Pending \subseteq {v}
  BY <1>3 DEF Pending
<1>9. /\ disk \in [Blocks -> Values] /\ disk' \in [Blocks -> Values]
      /\ \A c \in Blocks : disk'[c] \in {disk[c], Contents[c]}
  BY <1>3, VictimContents DEF IInv, Typed
<1> QED BY <1>1, <1>3, <1>7, <1>8, <1>9, IsFail

LEMMA CommitFailsRefines ==
  ASSUME IInv, NEW f \in Frames, CommitFails(f)
  PROVE  Promise!Next
<1>1. IInv'
  BY CommitFailsKeeps
<1>2. PICK e \in Buffers : e = frame[f].buf
  BY HeldFacts DEF CommitFails
<1>3. /\ entry' = [entry EXCEPT ![e].count = Decrement(@), ![e].dirty = TRUE]
      /\ disk' = disk /\ hash' = hash
      /\ frame' = [g \in Frames |-> Idle]
      /\ \A g \in Frames \ {f} : ~frame[g].poked
  BY <1>2, HeldFacts DEF CommitFails, Throws, Unwound
<1>4. \A x \in Buffers : /\ entry'[x].block = entry[x].block
                         /\ entry'[x].data = entry[x].data
  BY <1>3 DEF IInv, Typed
<1>5. Contents' = Contents
  BY <1>1, <1>3, <1>4, ContentsKept
<1>6. Pending \subseteq {f}
  BY <1>3 DEF Pending
<1>7. disk \in [Blocks -> Values]
  BY DEF IInv, Typed
<1> QED BY <1>1, <1>3, <1>5, <1>6, <1>7, IsFail

(* An empty table shows the device.                                        *)
LEMMA FreshContents ==
  ASSUME IInv, hash = FreshHash
  PROVE  Contents = disk
<1>1. Hashed(hash) = {}
  <2>1. \A c \in Chains : Len(hash[c]) = 0
    BY DEF FreshHash, Chains
  <2> QED BY <2>1 DEF Hashed
<1> QED BY <1>1, ContentsAre DEF ContentsOK, Uncached, IInv, Typed

(* A destructor that writes every dirty buffer leaves the contents on the  *)
(* device; one that stops on the way does so in "close" faults only.       *)
LEMMA GoneRefines ==
  ASSUME IInv, NEW n \in 0..pool, Gone(n), \A f \in Frames : ~frame[f].poked,
         n = pool \/ "close" \in Faults
  PROVE  Promise!Next
<1>1. IInv'
  BY GoneKeeps
<1>2. /\ disk' = FlushUpTo(n) /\ hash' = FreshHash
      /\ frame' = [f \in Frames |-> Idle] /\ Pending = {}
  BY DEF Gone, Pending
<1>3. (IInv /\ hash = FreshHash => Contents = disk)'
  BY FreshContents, PTL
<1>4. Contents' = disk'
  BY <1>1, <1>2, <1>3 DEF FreshHash
<1>5. CASE n = pool
  <2>1. disk' = Contents
    <3>1. \A b \in Blocks : FlushUpTo(n)[b] = Contents[b]
      BY <1>2, <1>5, FlushContents
    <3> QED BY <1>2, <3>1, FlushContents, ContentsAre DEF ContentsOK
  <2> QED BY <1>1, <1>2, <1>4, <2>1, IsClose
<1>6. CASE "close" \in Faults
  <2>1. \A b \in Blocks : disk'[b] \in {disk[b], Contents[b]}
    BY <1>2, FlushContents
  <2>2. disk \in [Blocks -> Values] /\ disk' \in [Blocks -> Values]
    BY <1>2, FlushContents DEF IInv, Typed
  <2> QED BY <1>1, <1>2, <1>4, <1>6, <2>1, <2>2, IsCloseFails
<1> QED BY <1>5, <1>6

(* A step that changes nothing the mapping reads.                          *)
LEMMA Stutters ==
  ASSUME UNCHANGED <<disk, entry, hash, frame>>
  PROVE  UNCHANGED Mapped
BY DEF Mapped, Contents, FindEntry, Position, Held, Pending, View

-----------------------------------------------------------------------------
(* The refinement.                                                         *)

LEMMA InitRefines == Init => Promise!Init
<1> SUFFICES ASSUME Init PROVE Promise!Init
  OBVIOUS
<1>1. IInv
  BY FreshInv DEF Init
<1>2. Contents = disk
  BY <1>1, FreshContents DEF Init
<1>3. Held = [f \in Frames |-> -1] /\ Pending = {}
  BY DEF Init, Held, Pending, Idle, NoBlock
<1>4. ViewOK /\ disk \in [Blocks -> Values]
  BY <1>1, ViewIs DEF Init
<1> QED BY <1>2, <1>3, <1>4 DEF Promise!Init, Promise!NoBlock, ViewOK, View, Held, Pending

LEMMA StepRefines ==
  ASSUME IInv, 0 \notin Blocks, ~EvictErrorCaught, [Next]_vars
  PROVE  Promise!Next \/ UNCHANGED Mapped
<1>1. ASSUME NEW f \in Frames, NEW b \in Blocks, AcquireHit(f, b) PROVE Promise!Next
  BY <1>1, AcquireHitRefines
<1>2. ASSUME NEW f \in Frames, NEW b \in Blocks, AcquireMiss(f, b) PROVE Promise!Next
  BY <1>2, MissRefines
<1>3. ASSUME NEW f \in Frames, NEW v \in Values, Poke(f, v) PROVE Promise!Next
  BY <1>3, PokeRefines
<1>4. ASSUME NEW f \in Frames, NEW flags \in {{}, {"dirty"}, {"commit"}}, Release(f, flags)
      PROVE  Promise!Next
  BY <1>4, ReleaseRefines
<1>5. ASSUME NEW f \in Frames, MarkDirty(f) PROVE Promise!Next
  BY <1>5, MarkDirtyRefines
<1>6. ASSUME NEW f \in Frames, CommitFails(f) PROVE Promise!Next
  BY <1>6, CommitFailsRefines
<1>7. ASSUME NEW b \in Blocks, ReadHit(b) PROVE UNCHANGED Mapped
  BY <1>7, Stutters DEF ReadHit
<1>8. ASSUME NEW b \in Blocks, ReadMiss(b) PROVE Promise!Next
  BY <1>8, MissRefines
<1>9. ASSUME NEW b \in Blocks, EvictFails(b) PROVE Promise!Next
  BY <1>9, PoolBounds, GoneRefines DEF EvictFails, Throws
<1>10. ASSUME NEW b \in Blocks, ReadFails(b) PROVE Promise!Next
  BY <1>10, ReadFailsRefines
<1>11. ASSUME NEW b \in Blocks, NEW v \in Values, WriteHit(b, v) PROVE Promise!Next
  BY <1>11, WriteHitRefines
<1>12. ASSUME NEW b \in Blocks, NEW v \in Values, WriteMiss(b, v) PROVE Promise!Next
  BY <1>12, MissRefines
<1>13. ASSUME NEW e \in 1..(pool + 1), SyncFails(e) PROVE Promise!Next
  BY <1>13, SyncFailsRefines
<1>14. CASE Sync
  BY <1>14, SyncRefines
<1>15. CASE Close
  BY <1>15, PoolBounds, GoneRefines DEF Close
<1>18. ASSUME NEW e \in 1..pool, CloseFails(e) PROVE Promise!Next
  <2>1. e \in 1..(pool + 1)
    BY PoolBounds
  <2> QED BY <1>18, <2>1, PoolBounds, GoneRefines DEF CloseFails, Throws
<1>16. CASE Create
  BY <1>16, Stutters DEF Create
<1>17. CASE UNCHANGED vars
  BY <1>17, Stutters DEF vars
<1> QED
  BY <1>1, <1>2, <1>3, <1>4, <1>5, <1>6, <1>7, <1>8, <1>9, <1>10, <1>11, <1>12,
     <1>13, <1>14, <1>15, <1>16, <1>17, <1>18 DEF Next

(* The pool keeps the promise of BlockCache.h: every block has one content *)
(* that all pointers and reads share, and that the device has when a block *)
(* is written back, committed, synced or closed, whatever acquire(),       *)
(* release(), eviction and the device's errors do in between.  The device  *)
(* lacks a declared store after the cache only if it failed under the      *)
(* destructor.                                                             *)
THEOREM StoreImplemented ==
  ASSUME 0 \notin Blocks, ~EvictErrorCaught
  PROVE  Spec => ImplementsBlockStore
<1>1. Init => Promise!Init
  BY InitRefines
<1>2. IInv /\ [Next]_vars => [Promise!Next]_(Promise!vars)
  BY StepRefines DEF Promise!vars, Mapped, Held, Pending, View
<1> QED BY <1>1, <1>2, Invariance, PTL DEF Spec, ImplementsBlockStore, Promise!Spec
=============================================================================
