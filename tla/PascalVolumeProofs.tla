-------------------------- MODULE PascalVolumeProofs --------------------------
(***************************************************************************)
(* The directory of the Pascal volume is kept, for a volume of any size,   *)
(* any names and any commands, but mv of a file onto itself.  (That breaks *)
(* it: PascalMoveSelf.cfg.)                                                *)
(***************************************************************************)
EXTENDS PascalVolume, SequenceTheorems, WellFoundedInduction, TLAPS

-----------------------------------------------------------------------------
(* Lists.                                                                  *)

LEMMA ListOf ==
  ASSUME NEW T, NEW n \in Nat, NEW f \in [1..n -> T]
  PROVE  f \in Seq(T) /\ Len(f) = n
BY SeqDef, LenProperties

(* A set of naturals that has a member has a least one.                    *)
LEMMA MinFacts ==
  ASSUME NEW S, S \subseteq Nat, S # {}
  PROVE  Min(S) \in S /\ \A x \in S : Min(S) <= x
<1> DEFINE R == {ss \in Nat \X Nat : ss[1] < ss[2]}
<1>0. IsWellFoundedOn(R, Nat)
  BY NatLessThanWellFounded, Zenon DEF OpToRel
<1>1. PICK x \in S : \A y \in S : ~(<<y, x>> \in R)
  BY <1>0, WFMin
<1>2. \A y \in S : x <= y
  <2> SUFFICES ASSUME NEW y \in S PROVE x <= y
    OBVIOUS
  <2>1. <<y, x>> \in Nat \X Nat /\ <<y, x>>[1] = y /\ <<y, x>>[2] = x
    OBVIOUS
  <2>2. ~(y < x)
    BY <1>1, <2>1
  <2> QED
    BY <2>2
<1> QED
  BY <1>2 DEF Min

LEMMA RemoveAtFacts ==
  ASSUME NEW T, NEW s \in Seq(T), NEW i \in 1..Len(s)
  PROVE  /\ RemoveAt(s, i) \in Seq(T)
         /\ Len(RemoveAt(s, i)) = Len(s) - 1
         /\ \A j \in 1..Len(s)-1 :
              RemoveAt(s, i)[j] = IF j < i THEN s[j] ELSE s[j+1]
<1> DEFINE a == SubSeq(s, 1, i-1)
           b == SubSeq(s, i+1, Len(s))
<1>1. a \in Seq(T) /\ Len(a) = i - 1 /\ \A j \in 1..i-1 : a[j] = s[j]
  BY SubSeqProperties
<1>2. b \in Seq(T) /\ Len(b) = Len(s) - i /\ \A j \in 1..Len(s)-i : b[j] = s[i+j]
  BY SubSeqProperties
<1> HIDE DEF a, b
<1>3. /\ a \o b \in Seq(T) /\ Len(a \o b) = Len(s) - 1
      /\ \A j \in 1..Len(s)-1 :
           (a \o b)[j] = IF j <= Len(a) THEN a[j] ELSE b[j - Len(a)]
  <2>1. /\ a \o b \in Seq(T) /\ Len(a \o b) = Len(a) + Len(b)
        /\ \A j \in 1..Len(a)+Len(b) :
             (a \o b)[j] = IF j <= Len(a) THEN a[j] ELSE b[j - Len(a)]
    BY <1>1, <1>2, ConcatProperties
  <2> QED
    BY <1>1, <1>2, <2>1
<1>4. \A j \in 1..Len(s)-1 : (a \o b)[j] = IF j < i THEN s[j] ELSE s[j+1]
  <2> TAKE j \in 1..Len(s)-1
  <2>1. CASE j < i
    BY <1>1, <1>3, <2>1
  <2>2. CASE ~(j < i)
    BY <1>1, <1>2, <1>3, <2>2
  <2> QED
    BY <2>1, <2>2
<1> QED
  BY <1>3, <1>4 DEF RemoveAt, a, b

LEMMA InsertAtFacts ==
  ASSUME NEW T, NEW s \in Seq(T), NEW i \in 1..Len(s)+1, NEW e \in T
  PROVE  /\ InsertAt(s, i, e) \in Seq(T)
         /\ Len(InsertAt(s, i, e)) = Len(s) + 1
         /\ \A j \in 1..Len(s)+1 :
              InsertAt(s, i, e)[j] = IF j < i THEN s[j]
                                     ELSE IF j = i THEN e ELSE s[j-1]
<1> DEFINE a == SubSeq(s, 1, i-1)
           b == SubSeq(s, i, Len(s))
           d == <<e>>
           c == a \o d
<1>1. a \in Seq(T) /\ Len(a) = i - 1 /\ \A j \in 1..i-1 : a[j] = s[j]
  BY SubSeqProperties
<1>2. b \in Seq(T) /\ Len(b) = Len(s) - i + 1 /\ \A j \in 1..Len(s)-i+1 : b[j] = s[i+j-1]
  BY SubSeqProperties
<1>3. d \in Seq(T) /\ Len(d) = 1 /\ d[1] = e
  OBVIOUS
<1> HIDE DEF a, b, d
<1>4. /\ c \in Seq(T) /\ Len(c) = i
      /\ \A j \in 1..i : c[j] = IF j < i THEN s[j] ELSE e
  <2>1. /\ c \in Seq(T) /\ Len(c) = Len(a) + Len(d)
        /\ \A j \in 1..Len(a)+Len(d) :
             c[j] = IF j <= Len(a) THEN a[j] ELSE d[j - Len(a)]
    BY <1>1, <1>3, ConcatProperties
  <2> HIDE DEF c
  <2> QED
    BY <1>1, <1>3, <2>1
<1> HIDE DEF c
<1>5. /\ c \o b \in Seq(T) /\ Len(c \o b) = Len(s) + 1
      /\ \A j \in 1..Len(s)+1 :
           (c \o b)[j] = IF j <= Len(c) THEN c[j] ELSE b[j - Len(c)]
  <2>1. /\ c \o b \in Seq(T) /\ Len(c \o b) = Len(c) + Len(b)
        /\ \A j \in 1..Len(c)+Len(b) :
             (c \o b)[j] = IF j <= Len(c) THEN c[j] ELSE b[j - Len(c)]
    BY <1>2, <1>4, ConcatProperties
  <2> QED
    BY <1>2, <1>4, <2>1
<1>6. \A j \in 1..Len(s)+1 :
        (c \o b)[j] = IF j < i THEN s[j] ELSE IF j = i THEN e ELSE s[j-1]
  <2> TAKE j \in 1..Len(s)+1
  <2>1. CASE j <= i
    BY <1>4, <1>5, <2>1
  <2>2. CASE ~(j <= i)
    <3>1. (c \o b)[j] = b[j - i] /\ j - i \in 1..Len(s)-i+1
      BY <1>4, <1>5, <2>2
    <3> QED
      BY <1>2, <2>2, <3>1
  <2> QED
    BY <2>1, <2>2
<1> QED
  BY <1>5, <1>6 DEF InsertAt, a, b, c, d
-----------------------------------------------------------------------------
(* What every operation keeps, of a volume v.                              *)

Entries ==
  [name : Names \union {None}, kind : Kinds, first : Nat, last : Nat,
   lastByte : 0..BlockSize, max : Nat, slot : Nat]

Volumes ==
  [files : Seq(Entries), header : Nat, slot : [Slots -> EntriesOnDisk]]

(* The disk says what the list says.                                       *)
Agrees(v) ==
  /\ v.header = Len(v.files) /\ Len(v.files) <= MaxFiles
  /\ \A i \in 1..Len(v.files) :
       v.files[i].slot = i /\ v.slot[i] = OnDisk(v.files[i])

Room(fs) ==
  \A i \in 1..Len(fs) : fs[i].max = (StartAt(fs, i+1) - fs[i].first) * BlockSize

Unique(fs) ==
  \A i, j \in 1..Len(fs) : fs[i].name = fs[j].name => i = j

Ordered(fs) ==
  \A i \in 1..Len(fs) :
    /\ FirstData <= fs[i].first /\ fs[i].first < fs[i].last
    /\ fs[i].first < StartAt(fs, i+1) /\ fs[i].last <= StartAt(fs, i+1) + 1

(* What the constructor checks: no file runs into the next.                *)
Apart(fs) ==
  \A i \in 1..Len(fs) : fs[i].last <= StartAt(fs, i+1)

Good(v) ==
  v \in Volumes /\ Agrees(v) /\ Room(v.files) /\ Unique(v.files) /\ Ordered(v.files)

-----------------------------------------------------------------------------
(* Names.                                                                  *)

(* With unique names, a name has the position of the one file with it.     *)
LEMMA ByNameFacts ==
  ASSUME NEW fs \in Seq(Entries), NEW n
  PROVE  /\ FileByName(fs, n) \in 0..Len(fs)
         /\ FileByName(fs, n) = 0 <=> \A i \in 1..Len(fs) : fs[i].name # n
         /\ FileByName(fs, n) # 0 => fs[FileByName(fs, n)].name = n
<1> DEFINE I == {i \in DOMAIN fs : fs[i].name = n}
<1>1. DOMAIN fs = 1..Len(fs) /\ Len(fs) \in Nat
  BY LenProperties
<1>2. I \subseteq Nat /\ \A i \in I : i \in 1..Len(fs) /\ fs[i].name = n
  BY <1>1
<1>3. FileByName(fs, n) = IF I = {} THEN 0 ELSE Min(I)
  BY DEF FileByName
<1>4. CASE I = {}
  BY <1>1, <1>3, <1>4
<1>5. CASE I # {}
  <2>1. Min(I) \in I
    BY <1>2, <1>5, MinFacts
  <2> QED
    BY <1>1, <1>2, <1>3, <1>5, <2>1
<1> QED
  BY <1>4, <1>5

-----------------------------------------------------------------------------
(* unlink().                                                               *)

Widened(e, room) == [e EXCEPT !.max = room]
MovedTo(e, s) == [e EXCEPT !.slot = s]

LEMMA WidenedFacts ==
  ASSUME NEW e \in Entries, NEW x \in Nat
  PROVE  /\ Widened(e, x) \in Entries /\ OnDisk(Widened(e, x)) = OnDisk(e)
         /\ Widened(e, x).first = e.first /\ Widened(e, x).last = e.last
         /\ Widened(e, x).name = e.name /\ Widened(e, x).slot = e.slot
         /\ Widened(e, x).max = x
BY DEF Entries, EntriesOnDisk, Widened, OnDisk

LEMMA MovedToFacts ==
  ASSUME NEW e \in Entries, NEW x \in Nat
  PROVE  /\ MovedTo(e, x) \in Entries /\ OnDisk(MovedTo(e, x)) = OnDisk(e)
         /\ MovedTo(e, x).first = e.first /\ MovedTo(e, x).last = e.last
         /\ MovedTo(e, x).name = e.name /\ MovedTo(e, x).slot = x
         /\ MovedTo(e, x).max = e.max
BY DEF Entries, EntriesOnDisk, MovedTo, OnDisk

LEMMA OnDiskFacts ==
  ASSUME NEW e \in Entries
  PROVE  OnDisk(e) \in EntriesOnDisk
BY DEF Entries, EntriesOnDisk, OnDisk

LEMMA FilesFacts ==
  ASSUME NEW fs \in Seq(Entries)
  PROVE  /\ Len(fs) \in Nat /\ DOMAIN fs = 1..Len(fs)
         /\ \A k \in 1..Len(fs) :
              /\ fs[k] \in Entries /\ fs[k].first \in Nat /\ fs[k].last \in Nat
              /\ fs[k].max \in Nat /\ fs[k].slot \in Nat
<1>1. Len(fs) \in Nat /\ DOMAIN fs = 1..Len(fs)
  BY LenProperties
<1>2. \A k \in 1..Len(fs) : fs[k] \in Entries
  BY ElementOfSeq
<1>3. \A e \in Entries : e.first \in Nat /\ e.last \in Nat /\ e.max \in Nat /\ e.slot \in Nat
  BY DEF Entries
<1> QED
  BY <1>1, <1>2, <1>3

LEMMA WithoutFacts ==
  ASSUME NEW v \in Volumes, NEW i \in 1..Len(v.files),
         \A k \in 1..Len(v.files) : v.files[k].slot = k
  PROVE  /\ FilesWithout(v, i) \in Seq(Entries)
         /\ Len(FilesWithout(v, i)) = Len(v.files) - 1
         /\ \A k \in 1..Len(v.files)-1 :
              FilesWithout(v, i)[k] =
                IF k + 1 = i THEN Widened(v.files[k], v.files[k].max + v.files[i].max)
                ELSE IF k < i THEN v.files[k]
                ELSE MovedTo(v.files[k+1], k)
<1> DEFINE fs == v.files
           rest == RemoveAt(fs, i)
           n == Len(fs) - 1
           gs == FilesWithout(v, i)
<1>1. fs \in Seq(Entries) /\ Len(fs) \in Nat /\ n \in Nat
  BY LenProperties DEF Volumes
<1>2. /\ rest \in Seq(Entries) /\ Len(rest) = n
      /\ \A k \in 1..n : rest[k] = IF k < i THEN fs[k] ELSE fs[k+1]
  BY <1>1, RemoveAtFacts
<1>3. DOMAIN rest = 1..n
  BY <1>2, LenProperties
<1>4. \A k \in 1..Len(fs) : fs[k] \in Entries /\ fs[k].max \in Nat
  BY <1>1, FilesFacts
<1>5. gs = [k \in 1..n |->
             IF k + 1 = i THEN Widened(rest[k], rest[k].max + fs[i].max)
             ELSE IF k < i THEN rest[k] ELSE MovedTo(rest[k], rest[k].slot - 1)]
  BY <1>3 DEF FilesWithout, Widened, MovedTo
<1> HIDE DEF gs, rest
<1>6. \A k \in 1..n :
        gs[k] = IF k + 1 = i THEN Widened(fs[k], fs[k].max + fs[i].max)
                ELSE IF k < i THEN fs[k] ELSE MovedTo(fs[k+1], k)
  <2> SUFFICES ASSUME NEW k \in 1..n
               PROVE  gs[k] = IF k + 1 = i THEN Widened(fs[k], fs[k].max + fs[i].max)
                              ELSE IF k < i THEN fs[k] ELSE MovedTo(fs[k+1], k)
    OBVIOUS
  <2>1. fs[k+1].slot = k + 1 /\ k + 1 - 1 = k
    BY <1>1
  <2> HIDE DEF fs
  <2>2. CASE k < i
    BY <1>2, <1>5, <2>2
  <2>3. CASE ~(k < i)
    <3>1. rest[k] = fs[k+1] /\ rest[k].slot - 1 = k
      BY <1>1, <1>2, <2>1, <2>3
    <3> QED
      BY <1>1, <1>5, <2>3, <3>1
  <2> QED
    BY <2>2, <2>3
<1>7. \A k \in 1..n : gs[k] \in Entries
  <2> TAKE k \in 1..n
  <2>1. /\ fs[k] \in Entries /\ fs[k+1] \in Entries /\ k \in Nat
        /\ fs[k].max + fs[i].max \in Nat
    <3>1. k \in 1..Len(fs) /\ k + 1 \in 1..Len(fs) /\ k \in Nat
      BY <1>1
    <3> HIDE DEF fs
    <3>2. fs[k].max \in Nat /\ fs[i].max \in Nat
      BY <1>4, <3>1 DEF fs
    <3>3. fs[k].max + fs[i].max \in Nat
      BY ONLY <3>2
    <3> QED BY <1>4, <3>1, <3>3
  <2> HIDE DEF fs
  <2> QED
    BY <1>6, <2>1, WidenedFacts, MovedToFacts, ZenonT(60)
<1>8. gs \in [1..n -> Entries]
  BY <1>5, <1>7
<1>9. gs \in Seq(Entries) /\ Len(gs) = n
  <2> HIDE DEF fs, n
  <2> QED
    BY <1>1, <1>8, ListOf
<1> QED
  BY <1>6, <1>9 DEF gs

LEMMA RoomsAdd ==
  ASSUME NEW a \in Int, NEW b \in Int, NEW c \in Int
  PROVE  (b - a) * BlockSize + (c - b) * BlockSize = (c - a) * BlockSize
BY VolumeAssumption

LEMMA StartFacts ==
  ASSUME NEW fs \in Seq(Entries), NEW k \in 1..Len(fs)
  PROVE  /\ StartAt(fs, k+1) \in Nat
         /\ StartAt(fs, k) = fs[k].first
         /\ k < Len(fs) => StartAt(fs, k+1) = fs[k+1].first
         /\ k = Len(fs) => StartAt(fs, k+1) = LastVolumeBlock
BY FilesFacts, VolumeAssumption DEF StartAt

LEMMA VolumeFacts ==
  ASSUME NEW v \in Volumes
  PROVE  v.files \in Seq(Entries) /\ v.header \in Nat /\ v.slot \in [Slots -> EntriesOnDisk]
BY DEF Volumes

LEMMA UnlinkFacts ==
  ASSUME NEW v, Good(v), NEW i \in 1..Len(v.files)
  PROVE  /\ Unlink(v, i).files = FilesWithout(v, i)
         /\ Unlink(v, i) \in Volumes
         /\ Agrees(Unlink(v, i))
<1> DEFINE fs == v.files
           gs == FilesWithout(v, i)
           n == Len(fs) - 1
           dir == [s \in Slots |-> IF s = n + 1 THEN Zeroed
                                   ELSE IF i <= s /\ s <= n THEN v.slot[s+1]
                                   ELSE v.slot[s]]
           u == Unlink(v, i)
<1>1. u = [files |-> gs, header |-> n, slot |-> dir]
  BY DEF Unlink
<1>2. v \in Volumes /\ Agrees(v)
  BY DEF Good
<1>3. /\ fs \in Seq(Entries) /\ Len(fs) \in Nat /\ n \in Nat /\ n + 1 <= MaxFiles
      /\ v.slot \in [Slots -> EntriesOnDisk]
      /\ \A k \in 1..Len(fs) : /\ fs[k] \in Entries /\ fs[k].slot = k
                                /\ v.slot[k] = OnDisk(fs[k])
  BY <1>2, VolumeFacts, FilesFacts DEF Agrees
<1>4. /\ gs \in Seq(Entries) /\ Len(gs) = n
      /\ \A k \in 1..n :
           gs[k] = IF k + 1 = i THEN Widened(fs[k], fs[k].max + fs[i].max)
                   ELSE IF k < i THEN fs[k] ELSE MovedTo(fs[k+1], k)
  BY <1>2, <1>3, WithoutFacts
<1> HIDE DEF gs
<1>5. dir \in [Slots -> EntriesOnDisk]
  <2>1. Zeroed \in EntriesOnDisk
    BY VolumeAssumption DEF Zeroed, EntriesOnDisk, Kinds
  <2>2. \A s \in Slots : i <= s /\ s <= n => s + 1 \in Slots
    BY <1>3, VolumeAssumption DEF Slots
  <2> HIDE DEF fs, n
  <2> QED
    BY <1>3, <2>1, <2>2
<1>6. ASSUME NEW k \in 1..n
      PROVE  gs[k].slot = k /\ dir[k] = OnDisk(gs[k])
  <2>1. k \in Nat /\ k \in Slots /\ k + 1 \in 1..Len(fs) /\ k \in 1..Len(fs) /\ k # n + 1 /\ k <= n
    BY <1>3, VolumeAssumption DEF Slots
  <2>2. fs[k].max + fs[i].max \in Nat
    BY <1>3, <2>1, FilesFacts
  <2>3. CASE k < i
    <3>1. dir[k] = v.slot[k]
      BY <2>1, <2>3
    <3>2. gs[k] = fs[k] \/ gs[k] = Widened(fs[k], fs[k].max + fs[i].max)
      BY <1>4, <2>3
    <3>3. /\ OnDisk(Widened(fs[k], fs[k].max + fs[i].max)) = OnDisk(fs[k])
          /\ Widened(fs[k], fs[k].max + fs[i].max).slot = fs[k].slot
      <4> HIDE DEF fs
      <4> QED
        BY <1>3, <2>1, <2>2, WidenedFacts, MovedToFacts
    <3>4. fs[k].slot = k /\ v.slot[k] = OnDisk(fs[k])
      BY <1>3, <2>1
    <3> HIDE DEF fs, n, dir
    <3> QED
      BY <3>1, <3>2, <3>3, <3>4
  <2>4. CASE ~(k < i)
    <3>1. dir[k] = v.slot[k+1]
      BY <2>1, <2>4
    <3>2. gs[k] = MovedTo(fs[k+1], k)
      BY <1>4, <2>1, <2>4
    <3>3. /\ OnDisk(MovedTo(fs[k+1], k)) = OnDisk(fs[k+1])
          /\ MovedTo(fs[k+1], k).slot = k
      <4> HIDE DEF fs
      <4> QED
        BY <1>3, <2>1, WidenedFacts, MovedToFacts
    <3>4. v.slot[k+1] = OnDisk(fs[k+1])
      BY <1>3, <2>1
    <3> HIDE DEF fs, n, dir
    <3> QED
      BY <3>1, <3>2, <3>3, <3>4
  <2> QED
    BY <2>3, <2>4
<1> HIDE DEF dir
<1>7. u.files = gs /\ u.header = n /\ u.slot = dir
  BY <1>1
<1>8. u \in Volumes
  <2> HIDE DEF n
  <2> QED
    BY <1>1, <1>3, <1>4, <1>5 DEF Volumes
<1>9. Agrees(u)
  <2> HIDE DEF u
  <2>1. \A k \in 1..n : gs[k].slot = k /\ dir[k] = OnDisk(gs[k])
    BY <1>6
  <2>2. n <= MaxFiles
    BY <1>3, VolumeAssumption
  <2> HIDE DEF n
  <2> QED
    BY <1>4, <1>7, <2>1, <2>2 DEF Agrees
<1> QED
  BY <1>7, <1>8, <1>9 DEF gs

LEMMA UnlinkKeeps ==
  ASSUME NEW v, Good(v), NEW i \in 1..Len(v.files)
  PROVE  /\ Good(Unlink(v, i))
         /\ Len(Unlink(v, i).files) = Len(v.files) - 1
         /\ \A k \in 1..Len(v.files)-1 :
              Unlink(v, i).files[k].name = v.files[IF k < i THEN k ELSE k + 1].name
<1> DEFINE fs == v.files
           gs == Unlink(v, i).files
           n == Len(fs) - 1
<1>1. /\ fs \in Seq(Entries) /\ Len(fs) \in Nat /\ n \in Nat
      /\ \A k \in 1..Len(fs) : /\ fs[k] \in Entries /\ fs[k].slot = k
                                /\ fs[k].first \in Nat /\ fs[k].last \in Nat
                                /\ fs[k].max \in Nat
  BY VolumeFacts, FilesFacts DEF Good, Agrees
<1>2. /\ Room(fs) /\ Unique(fs) /\ Ordered(fs)
  BY DEF Good
<1>3. /\ gs \in Seq(Entries) /\ Len(gs) = n
      /\ \A k \in 1..n :
           gs[k] = IF k + 1 = i THEN Widened(fs[k], fs[k].max + fs[i].max)
                   ELSE IF k < i THEN fs[k] ELSE MovedTo(fs[k+1], k)
  <2>1. v \in Volumes /\ gs = FilesWithout(v, i)
    BY UnlinkFacts DEF Good
  <2>2. \A k \in 1..Len(v.files) : v.files[k].slot = k
    BY <1>1
  <2> HIDE DEF gs
  <2> QED
    BY <2>1, <2>2, WithoutFacts
<1> HIDE DEF gs, fs
(* The file of fs that is the k-th of gs.                                  *)
<1> DEFINE of(k) == IF k < i THEN k ELSE k + 1
<1>4. ASSUME NEW k \in 1..n
      PROVE  /\ of(k) \in 1..Len(fs) /\ of(k) # i
             /\ gs[k].name = fs[of(k)].name /\ gs[k].first = fs[of(k)].first
             /\ gs[k].last = fs[of(k)].last
             /\ gs[k].max = IF k + 1 = i THEN fs[k].max + fs[i].max ELSE fs[of(k)].max
  <2>1. k \in Nat /\ k \in 1..Len(fs) /\ k + 1 \in 1..Len(fs) /\ i \in 1..Len(fs)
    BY <1>1 DEF fs
  <2>2. fs[k].max + fs[i].max \in Nat
    BY <1>1, <2>1
  <2>3. CASE k < i
    <3>1. gs[k] = IF k + 1 = i THEN Widened(fs[k], fs[k].max + fs[i].max) ELSE fs[k]
      BY <1>3, <2>3
    <3>2. of(k) = k /\ k # i
      BY <2>1, <2>3
    <3> HIDE DEF of
    <3>3. CASE k + 1 = i
      <4>1. gs[k] = Widened(fs[k], fs[k].max + fs[i].max) /\ fs[k] \in Entries
        BY <1>1, <2>1, <3>1, <3>3
      <4> DEFINE room == fs[k].max + fs[i].max
      <4>2. /\ gs[k].name = fs[k].name /\ gs[k].first = fs[k].first
            /\ gs[k].last = fs[k].last /\ gs[k].max = room
        <5>1. room \in Nat /\ gs[k] = Widened(fs[k], room) /\ fs[k] \in Entries
          BY <2>2, <4>1
        <5> HIDE DEF room
        <5>2. Widened(fs[k], room).max = room
          BY <5>1, WidenedFacts
        <5>3. Widened(fs[k], room).first = fs[k].first
          BY <5>1, WidenedFacts
        <5>4. Widened(fs[k], room).last = fs[k].last
          BY <5>1, WidenedFacts
        <5>5. Widened(fs[k], room).name = fs[k].name
          BY <5>1, WidenedFacts
        <5> QED
          BY <5>1, <5>2, <5>3, <5>4, <5>5
      <4> QED
        BY <2>1, <3>2, <3>3, <4>2
    <3>4. CASE k + 1 # i
      BY <2>1, <3>1, <3>2, <3>4
    <3> QED
      BY <3>3, <3>4
  <2>4. CASE ~(k < i)
    <3>1. gs[k] = MovedTo(fs[k+1], k) /\ k + 1 # i
      BY <1>3, <2>1, <2>4
    <3>2. of(k) = k + 1 /\ k + 1 # i /\ fs[k+1] \in Entries
      BY <1>1, <2>1, <2>4
    <3> HIDE DEF of
    <3> QED
      <4> DEFINE next == fs[k+1]
      <4>1. next \in Entries /\ gs[k] = MovedTo(next, k)
        BY <3>1, <3>2
      <4> HIDE DEF next
      <4>2. gs[k].name = next.name
        BY <2>1, <4>1, MovedToFacts
      <4>3. gs[k].first = next.first
        BY <2>1, <4>1, MovedToFacts
      <4>4. gs[k].last = next.last
        BY <2>1, <4>1, MovedToFacts
      <4>5. gs[k].max = next.max
        BY <2>1, <4>1, MovedToFacts
      <4> QED
        BY <2>1, <3>1, <3>2, <4>2, <4>3, <4>4, <4>5 DEF next
  <2> QED
    BY <2>3, <2>4
<1>5. ASSUME NEW k \in 1..n
      PROVE  /\ StartAt(gs, k+1) = IF k + 1 < i THEN StartAt(fs, k+1) ELSE StartAt(fs, k+2)
             /\ StartAt(gs, k+1) \in Nat /\ StartAt(fs, k+1) \in Nat /\ StartAt(fs, k+2) \in Nat
  <2>1. k \in Nat /\ k \in 1..Len(fs) /\ k + 1 \in 1..Len(fs) /\ i \in 1..Len(fs)
    BY <1>1 DEF fs
  <2>2. CASE k = n
    BY <1>1, <1>3, <2>1, <2>2, VolumeAssumption DEF StartAt
  <2>3. CASE k < n
    <3>1. gs[k+1].first = fs[of(k+1)].first /\ of(k+1) \in 1..Len(fs)
      BY <1>1, <1>4, <2>1, <2>3
    <3>2. StartAt(gs, k+1) = gs[k+1].first
      BY <1>1, <1>3, <2>3 DEF StartAt
    <3>3. StartAt(fs, k+1) = fs[k+1].first /\ StartAt(fs, k+2) = fs[k+2].first
      BY <1>1, <2>3 DEF StartAt
    <3> QED
      BY <1>1, <2>1, <2>3, <3>1, <3>2, <3>3
  <2> QED
    BY <1>1, <2>2, <2>3
<1>6. Room(gs)
  <2> SUFFICES ASSUME NEW k \in 1..n
               PROVE  gs[k].max = (StartAt(gs, k+1) - gs[k].first) * BlockSize
    BY <1>3 DEF Room
  <2>1. k \in Nat /\ k \in 1..Len(fs) /\ k + 1 \in 1..Len(fs) /\ i \in 1..Len(fs)
    BY <1>1 DEF fs
  <2>2. CASE k + 1 = i
    <3>1. /\ fs[k].max = (StartAt(fs, i) - fs[k].first) * BlockSize
          /\ fs[i].max = (StartAt(fs, i+1) - fs[i].first) * BlockSize
          /\ StartAt(fs, i) = fs[i].first
      BY <1>2, <2>1, <2>2, StartFacts, <1>1 DEF Room
    <3>2. StartAt(gs, k+1) = StartAt(fs, i+1) /\ StartAt(fs, i+1) \in Nat
      BY <1>5, <2>1, <2>2
    <3>3. fs[k].first \in Int /\ fs[i].first \in Int /\ StartAt(fs, i+1) \in Int
      BY <1>1, <2>1, <3>2
    <3>4. gs[k].first = fs[k].first /\ gs[k].max = fs[k].max + fs[i].max
      BY <1>4, <2>1, <2>2
    <3>5. (fs[i].first - fs[k].first) * BlockSize
            + (StartAt(fs, i+1) - fs[i].first) * BlockSize
          = (StartAt(fs, i+1) - fs[k].first) * BlockSize
      BY <3>3, RoomsAdd
    <3> QED
      BY <3>1, <3>2, <3>4, <3>5
  <2>3. CASE k + 1 < i
    BY <1>2, <1>4, <1>5, <2>1, <2>3 DEF Room
  <2>4. CASE k >= i
    <3>1. gs[k].max = fs[k+1].max /\ gs[k].first = fs[k+1].first
      BY <1>4, <2>1, <2>4
    <3>2. StartAt(gs, k+1) = StartAt(fs, k+2) /\ k + 1 + 1 = k + 2
      BY <1>5, <2>1, <2>4
    <3> QED
      BY <1>2, <2>1, <3>1, <3>2 DEF Room
  <2> QED
    BY <2>1, <2>2, <2>3, <2>4
<1>7. Unique(gs)
  <2> SUFFICES ASSUME NEW a \in 1..n, NEW b \in 1..n, gs[a].name = gs[b].name
               PROVE  a = b
    BY <1>3 DEF Unique
  <2>1. of(a) = of(b)
    BY <1>2, <1>4 DEF Unique
  <2> QED
    BY <1>1, <2>1
<1>8. Ordered(gs)
  <2> SUFFICES ASSUME NEW k \in 1..n
               PROVE  /\ FirstData <= gs[k].first /\ gs[k].first < gs[k].last
                      /\ gs[k].first < StartAt(gs, k+1)
                      /\ gs[k].last <= StartAt(gs, k+1) + 1
    BY <1>3 DEF Ordered
  <2>1. k \in Nat /\ k \in 1..Len(fs) /\ k + 1 \in 1..Len(fs) /\ i \in 1..Len(fs)
    BY <1>1 DEF fs
  <2>2. CASE k + 1 = i
    <3>1. StartAt(fs, i) = fs[i].first /\ StartAt(gs, k+1) = StartAt(fs, i+1)
      BY <1>1, <1>5, <2>1, <2>2, StartFacts
    <3>2. gs[k].first = fs[k].first /\ gs[k].last = fs[k].last
      BY <1>4, <2>1, <2>2
    <3>3. /\ FirstData <= fs[k].first /\ fs[k].first < fs[k].last
          /\ fs[k].first < StartAt(fs, i) /\ fs[k].last <= StartAt(fs, i) + 1
          /\ fs[i].first < StartAt(fs, i+1)
      BY <1>2, <2>1, <2>2 DEF Ordered
    <3>4. fs[k].first \in Nat /\ fs[k].last \in Nat /\ fs[i].first \in Nat /\ StartAt(fs, i+1) \in Nat
      BY <1>1, <1>5, <2>1, <2>2
    <3> QED
      BY <3>1, <3>2, <3>3, <3>4, SMTT(30)
  <2>3. CASE k + 1 < i
    <3>1. gs[k].last = fs[k].last /\ gs[k].first = fs[k].first
      BY <1>4, <2>1, <2>3
    <3>2. StartAt(gs, k+1) = StartAt(fs, k+1)
      BY <1>5, <2>1, <2>3
    <3> QED
      BY <1>2, <2>1, <3>1, <3>2 DEF Ordered
  <2>4. CASE k >= i
    <3>1. gs[k].last = fs[k+1].last /\ gs[k].first = fs[k+1].first
      BY <1>4, <2>1, <2>4
    <3>2. StartAt(gs, k+1) = StartAt(fs, k+2) /\ k + 1 + 1 = k + 2
      BY <1>5, <2>1, <2>4
    <3> QED
      BY <1>2, <2>1, <3>1, <3>2 DEF Ordered
  <2> QED
    BY <2>1, <2>2, <2>3, <2>4
<1>9. Good(Unlink(v, i))
  BY <1>6, <1>7, <1>8, UnlinkFacts DEF Good, gs
<1>10. \A k \in 1..n : gs[k].name = fs[IF k < i THEN k ELSE k + 1].name
  BY <1>4
<1> QED
  BY <1>3, <1>9, <1>10 DEF gs, fs

-----------------------------------------------------------------------------
(* create().                                                               *)

LEMMA PlaceFacts ==
  ASSUME NEW v \in Volumes, NEW n, NEW blocks \in Nat, CanCreate(v, n, blocks)
  PROVE  /\ PlaceFor(v, blocks) \in 1..Len(v.files)+1
         /\ FreeBefore(v.files, PlaceFor(v, blocks)) >= blocks
<1> DEFINE R == Roomy(v.files, blocks)
<1>1. Len(v.files) \in Nat
  BY VolumeFacts, FilesFacts
<1>2. R \subseteq 1..Len(v.files)+1 /\ R # {}
  BY DEF CanCreate, Roomy, Places
<1>3. R \subseteq Nat
  BY <1>1, <1>2
<1>4. Min(R) \in R
  BY <1>2, <1>3, MinFacts
<1> QED
  BY <1>2, <1>4 DEF PlaceFor, Roomy

(* The new file's entry.                                                   *)
Created(fs, i, n) ==
  [name |-> n, kind |-> "untyped", first |-> EndBefore(fs, i),
   last |-> EndBefore(fs, i) + 1, lastByte |-> 0,
   max |-> FreeBefore(fs, i) * BlockSize, slot |-> i]

LEMMA RoomNat ==
  ASSUME NEW a \in Nat
  PROVE  a * BlockSize \in Nat
BY VolumeAssumption

LEMMA BeforeFacts ==
  ASSUME NEW v, Good(v), NEW i \in 1..Len(v.files)+1
  PROVE  /\ EndBefore(v.files, i) \in Nat /\ StartAt(v.files, i) \in Nat
         /\ FirstData <= EndBefore(v.files, i)
         /\ i > 1 => /\ EndBefore(v.files, i) = v.files[i-1].last
                     /\ BlocksOf(v.files[i-1]) \in Nat
<1>1. v.files \in Seq(Entries) /\ Len(v.files) \in Nat
  BY VolumeFacts, FilesFacts DEF Good
<1>2. Ordered(v.files)
  BY DEF Good
<1>3. StartAt(v.files, i) \in Nat
  BY <1>1, FilesFacts, VolumeAssumption DEF StartAt
<1>4. CASE i = 1
  BY <1>3, <1>4, VolumeAssumption DEF EndBefore
<1>5. CASE i > 1
  <2>1. i - 1 \in 1..Len(v.files)
    BY <1>1, <1>5
  <2>2. v.files[i-1].first \in Nat /\ v.files[i-1].last \in Nat
    BY <1>1, <2>1, FilesFacts
  <2>3. FirstData <= v.files[i-1].first /\ v.files[i-1].first < v.files[i-1].last
    BY <1>2, <2>1 DEF Ordered
  <2>4. EndBefore(v.files, i) = v.files[i-1].last
    BY <1>5 DEF EndBefore
  <2> QED
    BY <1>3, <2>2, <2>3, <2>4, VolumeAssumption, SMTT(30) DEF BlocksOf
<1> QED
  BY <1>4, <1>5

LEMMA CreatedFacts ==
  ASSUME NEW v, Good(v), NEW n \in Names, NEW i \in 1..Len(v.files)+1,
         FreeBefore(v.files, i) >= 0
  PROVE  Created(v.files, i, n) \in Entries
<1>1. FreeBefore(v.files, i) \in Nat /\ EndBefore(v.files, i) \in Nat
  BY BeforeFacts DEF FreeBefore
<1>2. FreeBefore(v.files, i) * BlockSize \in Nat
  BY <1>1, RoomNat
<1>3. i \in Nat /\ 0 \in 0..BlockSize
  BY VolumeFacts, FilesFacts, VolumeAssumption DEF Good
<1> QED
  BY <1>1, <1>2, <1>3 DEF Created, Entries, Kinds

LEMMA CreateList ==
  ASSUME NEW v, Good(v), NEW n \in Names, NEW blocks \in Nat \ {0},
         CanCreate(v, n, blocks)
  PROVE  LET i == PlaceFor(v, blocks)
             gs == Create(v, n, blocks).files
         IN  /\ gs \in Seq(Entries) /\ Len(gs) = Len(v.files) + 1
             /\ Create(v, n, blocks) =
                  [files |-> gs, header |-> Len(v.files) + 1,
                   slot |-> [s \in Slots |->
                               IF s = i THEN OnDisk(Created(v.files, i, n))
                               ELSE IF i < s /\ s <= Len(v.files) + 1 THEN v.slot[s-1]
                               ELSE v.slot[s]]]
             /\ \A k \in 1..Len(v.files)+1 :
                  gs[k] = IF k = i THEN MovedTo(Created(v.files, i, n), k)
                          ELSE IF k > i THEN MovedTo(v.files[k-1], k)
                          ELSE IF k + 1 = i
                            THEN MovedTo(Widened(v.files[k],
                                           BlocksOf(v.files[k]) * BlockSize), k)
                          ELSE MovedTo(v.files[k], k)
<1> DEFINE i == PlaceFor(v, blocks)
           fs == v.files
           e == Created(fs, i, n)
           before == [k \in 1..Len(fs) |->
                        IF k + 1 = i THEN Widened(fs[k], BlocksOf(fs[k]) * BlockSize)
                        ELSE fs[k]]
           after == InsertAt(before, i, e)
           gs == [k \in 1..Len(fs)+1 |-> MovedTo(after[k], k)]
<1>1. /\ v \in Volumes /\ fs \in Seq(Entries) /\ Len(fs) \in Nat
      /\ DOMAIN fs = 1..Len(fs) /\ \A k \in 1..Len(fs) : fs[k] \in Entries
  BY VolumeFacts, FilesFacts DEF Good
<1>2. i \in 1..Len(fs)+1 /\ FreeBefore(fs, i) >= blocks /\ FreeBefore(fs, i) >= 0
  <2>1. i \in 1..Len(fs)+1 /\ FreeBefore(fs, i) >= blocks
    BY <1>1, PlaceFacts
  <2>2. FreeBefore(fs, i) \in Int
    BY <2>1, BeforeFacts DEF FreeBefore
  <2> QED
    BY <2>1, <2>2
<1> HIDE DEF i
<1>3. e \in Entries
  BY <1>2, CreatedFacts
<1>4. \A k \in 1..Len(fs) :
        k + 1 = i => BlocksOf(fs[k]) * BlockSize \in Nat
  <2> SUFFICES ASSUME NEW k \in 1..Len(fs), k + 1 = i
               PROVE  BlocksOf(fs[k]) * BlockSize \in Nat
    OBVIOUS
  <2>1. i > 1 /\ k = i - 1
    BY <1>1
  <2>2. BlocksOf(fs[k]) \in Nat
    BY <1>2, <2>1, BeforeFacts
  <2> QED
    BY <2>2, RoomNat
<1>5. \A k \in 1..Len(fs) : before[k] \in Entries
  <2> TAKE k \in 1..Len(fs)
  <2>1. CASE k + 1 = i
    <3>1. before[k] = Widened(fs[k], BlocksOf(fs[k]) * BlockSize)
      BY <2>1
    <3>2. BlocksOf(fs[k]) * BlockSize \in Nat /\ fs[k] \in Entries
      BY <1>1, <1>4, <2>1
    <3> QED
      BY <3>1, <3>2, WidenedFacts
  <2>2. CASE k + 1 # i
    BY <1>1, <2>2
  <2> QED
    BY <2>1, <2>2
<1>6. before \in Seq(Entries) /\ Len(before) = Len(fs) /\ DOMAIN before = 1..Len(fs)
  <2>1. before \in [1..Len(fs) -> Entries]
    BY <1>5
  <2> HIDE DEF before, fs
  <2> QED
    BY <1>1, <2>1, ListOf
<1>7. /\ after \in Seq(Entries) /\ Len(after) = Len(fs) + 1
      /\ \A k \in 1..Len(fs)+1 :
           after[k] = IF k < i THEN before[k] ELSE IF k = i THEN e ELSE before[k-1]
  <2> HIDE DEF before, fs, e
  <2>1. i \in 1..Len(before)+1
    BY <1>2, <1>6
  <2>2. /\ after \in Seq(Entries) /\ Len(after) = Len(before) + 1
        /\ \A k \in 1..Len(before)+1 :
             after[k] = IF k < i THEN before[k] ELSE IF k = i THEN e ELSE before[k-1]
    <3>1. before \in Seq(Entries) /\ e \in Entries
      BY <1>3, <1>6
    <3>2. InsertAt(before, i, e) \in Seq(Entries)
      BY <2>1, <3>1, InsertAtFacts
    <3>3. Len(InsertAt(before, i, e)) = Len(before) + 1
      BY <2>1, <3>1, InsertAtFacts
    <3>4. \A k \in 1..Len(before)+1 :
            InsertAt(before, i, e)[k] =
              IF k < i THEN before[k] ELSE IF k = i THEN e ELSE before[k-1]
      BY <2>1, <3>1, InsertAtFacts
    <3> QED
      BY <3>2, <3>3, <3>4
  <2> QED
    BY <1>6, <2>2
<1>8. DOMAIN after = 1..Len(fs)+1 /\ \A k \in 1..Len(fs)+1 : after[k] \in Entries
  BY <1>7, FilesFacts
<1> HIDE DEF after
<1>9. gs \in Seq(Entries) /\ Len(gs) = Len(fs) + 1
  <2>1. \A k \in 1..Len(fs)+1 : MovedTo(after[k], k) \in Entries
    BY <1>1, <1>8, MovedToFacts
  <2>2. gs \in [1..Len(fs)+1 -> Entries]
    BY <2>1
  <2> HIDE DEF gs, fs
  <2> QED
    BY <1>1, <2>2, ListOf
<1>10. Create(v, n, blocks) =
         [files |-> gs, header |-> Len(fs) + 1,
          slot |-> [s \in Slots |->
                      IF s = i THEN OnDisk(e)
                      ELSE IF i < s /\ s <= Len(fs) + 1 THEN v.slot[s-1]
                      ELSE v.slot[s]]]
  <2>1. [k \in DOMAIN fs |->
           IF k + 1 = i THEN [fs[k] EXCEPT !.max = BlocksOf(fs[k]) * BlockSize]
           ELSE fs[k]] = before
    BY <1>1 DEF Widened
  <2>2. [k \in DOMAIN after |-> [after[k] EXCEPT !.slot = k]] = gs
    BY <1>8 DEF MovedTo
  <2> DEFINE inserted ==
        InsertAt([k \in DOMAIN fs |->
                    IF k + 1 = i THEN [fs[k] EXCEPT !.max = BlocksOf(fs[k]) * BlockSize]
                    ELSE fs[k]], i, e)
  <2>3. inserted = after
    BY <2>1 DEF after
  <2>4. Create(v, n, blocks) =
          [files |-> IF i = Len(inserted) THEN inserted
                     ELSE [k \in DOMAIN inserted |-> [inserted[k] EXCEPT !.slot = k]],
           header |-> Len(inserted),
           slot |-> [s \in Slots |->
                       IF s = i THEN OnDisk(e)
                       ELSE IF i < s /\ s <= Len(inserted) THEN v.slot[s-1]
                       ELSE v.slot[s]]]
    BY Zenon DEF Create, Created, i
  <2>5. i = Len(after) => after = gs
    <3> SUFFICES ASSUME i = Len(after) PROVE after = gs
      OBVIOUS
    <3>1. i = Len(fs) + 1
      BY <1>7
    <3>2. ASSUME NEW k \in 1..Len(fs)+1 PROVE after[k] = MovedTo(after[k], k)
      <4>1. after[k].slot = k
        <5>1. CASE k = i
          <6>1. after[k] = IF k < i THEN before[k] ELSE IF k = i THEN e ELSE before[k-1]
            BY <1>7
          <6>2. ~(k < i)
            BY <1>1, <1>2, <5>1
          <6>3. after[k] = e
            BY <5>1, <6>1, <6>2
          <6> QED BY <5>1, <6>3 DEF Created
        <5>2. CASE k # i
          <6>1. k \in 1..Len(fs) /\ k < i
            BY <1>1, <3>1, <5>2
          <6>2. after[k] = before[k] /\ fs[k] \in Entries /\ fs[k].slot = k
            BY <1>1, <1>7, <6>1 DEF Good, Agrees
          <6>3. before[k] = IF k + 1 = i THEN Widened(fs[k], BlocksOf(fs[k]) * BlockSize) ELSE fs[k]
            BY <6>1
          <6>4. Widened(fs[k], BlocksOf(fs[k]) * BlockSize).slot = fs[k].slot
            BY <6>2 DEF Widened, Entries
          <6> QED BY <6>2, <6>3, <6>4
        <5> QED BY <5>1, <5>2
      <4>2. PICK x : x = after[k]
        OBVIOUS
      <4>3. x \in Entries /\ x.slot = k
        BY <1>8, <4>1, <4>2
      <4>4. [x EXCEPT !.slot = k] = x
        BY ONLY <4>3 DEF Entries
      <4> QED BY <4>2, <4>4 DEF MovedTo
    <3>3. after = [k \in 1..Len(fs)+1 |-> after[k]]
      <4>1. after \in [1..Len(fs)+1 -> Entries]
        BY <1>7
      <4> QED BY <4>1
    <3> QED BY <3>2, <3>3
  <2> HIDE DEF inserted, gs, e
  <2> QED
    BY <1>7, <2>2, <2>3, <2>4, <2>5, Zenon
<1>11. \A k \in 1..Len(fs)+1 :
         gs[k] = IF k = i THEN MovedTo(e, k)
                 ELSE IF k > i THEN MovedTo(fs[k-1], k)
                 ELSE IF k + 1 = i
                   THEN MovedTo(Widened(fs[k], BlocksOf(fs[k]) * BlockSize), k)
                 ELSE MovedTo(fs[k], k)
  <2> SUFFICES ASSUME NEW k \in 1..Len(fs)+1
               PROVE  after[k] = IF k = i THEN e
                                 ELSE IF k > i THEN fs[k-1]
                                 ELSE IF k + 1 = i
                                   THEN Widened(fs[k], BlocksOf(fs[k]) * BlockSize)
                                 ELSE fs[k]
    OBVIOUS
  <2>0. \A x \in 1..Len(fs) :
          before[x] = IF x + 1 = i THEN Widened(fs[x], BlocksOf(fs[x]) * BlockSize)
                      ELSE fs[x]
    OBVIOUS
  <2> HIDE DEF e, gs, before
  <2>1. CASE k = i
    BY <1>1, <1>2, <1>7, <2>1
  <2>2. CASE k > i
    <3>1. after[k] = before[k-1] /\ k - 1 \in 1..Len(fs) /\ k - 1 + 1 # i /\ k # i
      BY <1>1, <1>2, <1>7, <2>2
    <3>2. before[k-1] = fs[k-1]
      BY <2>0, <3>1
    <3> HIDE DEF fs
    <3> QED
      BY <2>2, <3>1, <3>2
  <2>3. CASE k < i
    <3>1. after[k] = before[k] /\ k \in 1..Len(fs) /\ k # i /\ ~(k > i)
      BY <1>1, <1>2, <1>7, <2>3
    <3>2. before[k] = IF k + 1 = i THEN Widened(fs[k], BlocksOf(fs[k]) * BlockSize)
                      ELSE fs[k]
      BY <2>0, <3>1
    <3> HIDE DEF fs
    <3> QED
      BY <2>3, <3>1, <3>2
  <2> QED
    BY <1>1, <1>2, <2>1, <2>2, <2>3
<1>12. Create(v, n, blocks).files = gs
  BY <1>10
<1> HIDE DEF gs, e
<1> QED
  BY <1>9, <1>10, <1>11, <1>12 DEF i, e

(* The file of the old list that is the k-th of the new one, but at i.     *)
OldPlace(i, k) == IF k > i THEN k - 1 ELSE k

LEMMA CreateFields ==
  ASSUME NEW v, Good(v), NEW n \in Names, NEW blocks \in Nat \ {0},
         CanCreate(v, n, blocks), NEW k \in 1..Len(v.files)+1
  PROVE  LET i == PlaceFor(v, blocks)
             fs == v.files
             gs == Create(v, n, blocks).files
             o == OldPlace(i, k)
         IN  /\ gs[k].slot = k
             /\ k = i => gs[k] = Created(fs, i, n)
             /\ k # i => /\ o \in 1..Len(fs) /\ OnDisk(gs[k]) = OnDisk(fs[o])
                         /\ gs[k].name = fs[o].name /\ gs[k].first = fs[o].first
                         /\ gs[k].last = fs[o].last
                         /\ gs[k].max = IF k + 1 = i THEN BlocksOf(fs[k]) * BlockSize
                                        ELSE fs[o].max
<1> DEFINE i == PlaceFor(v, blocks)
           fs == v.files
           gs == Create(v, n, blocks).files
           e == Created(fs, i, n)
<1>1. /\ v \in Volumes /\ fs \in Seq(Entries) /\ Len(fs) \in Nat
      /\ \A j \in 1..Len(fs) : fs[j] \in Entries
  BY VolumeFacts, FilesFacts DEF Good
<1>2. i \in 1..Len(fs)+1
  BY <1>1, PlaceFacts
<1>3. gs[k] = IF k = i THEN MovedTo(e, k)
              ELSE IF k > i THEN MovedTo(fs[k-1], k)
              ELSE IF k + 1 = i
                THEN MovedTo(Widened(fs[k], BlocksOf(fs[k]) * BlockSize), k)
              ELSE MovedTo(fs[k], k)
  BY CreateList
<1>4. k \in Nat
  BY <1>1
<1> HIDE DEF i, fs, gs
<1>5. CASE k = i
  <2>1. gs[k] = [e EXCEPT !.slot = k] /\ e.slot = k
    BY <1>3, <1>5 DEF Created, MovedTo
  <2>2. gs[k] = e
    BY <1>5, <2>1 DEF Created
  <2> QED
    BY <1>5, <2>1, <2>2 DEF i, fs, gs
<1>6. CASE k > i
  <2> DEFINE f == fs[k-1]
  <2>1. k - 1 \in 1..Len(fs) /\ k # i /\ k + 1 # i /\ OldPlace(i, k) = k - 1
    BY <1>1, <1>2, <1>6 DEF fs, OldPlace
  <2>2. f \in Entries /\ gs[k] = MovedTo(f, k)
    BY <1>1, <1>3, <1>6, <2>1
  <2> HIDE DEF f
  <2>3. gs[k].slot = k
    BY <1>4, <2>2, MovedToFacts
  <2>4. OnDisk(gs[k]) = OnDisk(f)
    BY <1>4, <2>2, MovedToFacts
  <2>5. gs[k].name = f.name
    BY <1>4, <2>2, MovedToFacts
  <2>6. gs[k].first = f.first
    BY <1>4, <2>2, MovedToFacts
  <2>7. gs[k].last = f.last
    BY <1>4, <2>2, MovedToFacts
  <2>8. gs[k].max = f.max
    BY <1>4, <2>2, MovedToFacts
  <2> QED
    BY <2>1, <2>3, <2>4, <2>5, <2>6, <2>7, <2>8 DEF i, fs, gs, f
<1>7. CASE k < i /\ k + 1 # i
  <2> DEFINE f == fs[k]
  <2>1. k \in 1..Len(fs) /\ k # i /\ ~(k > i) /\ OldPlace(i, k) = k
    BY <1>1, <1>2, <1>7 DEF fs, OldPlace
  <2>2. f \in Entries /\ gs[k] = MovedTo(f, k)
    BY <1>1, <1>3, <1>7, <2>1
  <2> HIDE DEF f
  <2>3. gs[k].slot = k
    BY <1>4, <2>2, MovedToFacts
  <2>4. OnDisk(gs[k]) = OnDisk(f)
    BY <1>4, <2>2, MovedToFacts
  <2>5. gs[k].name = f.name
    BY <1>4, <2>2, MovedToFacts
  <2>6. gs[k].first = f.first
    BY <1>4, <2>2, MovedToFacts
  <2>7. gs[k].last = f.last
    BY <1>4, <2>2, MovedToFacts
  <2>8. gs[k].max = f.max
    BY <1>4, <2>2, MovedToFacts
  <2> QED
    BY <1>7, <2>1, <2>3, <2>4, <2>5, <2>6, <2>7, <2>8 DEF i, fs, gs, f
<1>8. CASE k + 1 = i
  <2> DEFINE f == fs[k]
             room == BlocksOf(f) * BlockSize
             g == Widened(f, room)
  <2>1. k \in 1..Len(fs) /\ k # i /\ ~(k > i) /\ OldPlace(i, k) = k
    BY <1>1, <1>2, <1>8 DEF fs, OldPlace
  <2>2. room \in Nat
    <3>1. i > 1 /\ i - 1 = k
      BY <1>4, <1>8
    <3>2. BlocksOf(fs[k]) \in Nat
      BY <1>2, <3>1, BeforeFacts DEF fs
    <3> QED
      BY <3>2, RoomNat
  <2>3. f \in Entries /\ gs[k] = MovedTo(g, k)
    BY <1>1, <1>3, <1>8, <2>1
  <2> HIDE DEF f, room
  <2>4. g \in Entries
    BY <2>2, <2>3, WidenedFacts
  <2>5. OnDisk(g) = OnDisk(f)
    BY <2>2, <2>3, WidenedFacts
  <2>6. g.name = f.name
    BY <2>2, <2>3, WidenedFacts
  <2>7. g.first = f.first
    BY <2>2, <2>3, WidenedFacts
  <2>8. g.last = f.last
    BY <2>2, <2>3, WidenedFacts
  <2>9. g.max = room
    BY <2>2, <2>3, WidenedFacts
  <2> HIDE DEF g
  <2>10. gs[k].slot = k
    BY <1>4, <2>3, <2>4, MovedToFacts
  <2>11. OnDisk(gs[k]) = OnDisk(g)
    BY <1>4, <2>3, <2>4, MovedToFacts
  <2>12. gs[k].name = g.name
    BY <1>4, <2>3, <2>4, MovedToFacts
  <2>13. gs[k].first = g.first
    BY <1>4, <2>3, <2>4, MovedToFacts
  <2>14. gs[k].last = g.last
    BY <1>4, <2>3, <2>4, MovedToFacts
  <2>15. gs[k].max = g.max
    BY <1>4, <2>3, <2>4, MovedToFacts
  <2> QED
    BY <1>8, <2>1, <2>5, <2>6, <2>7, <2>8, <2>9, <2>10, <2>11, <2>12, <2>13,
       <2>14, <2>15 DEF i, fs, gs, f, room
<1> QED
  BY <1>2, <1>4, <1>5, <1>6, <1>7, <1>8 DEF i, fs

LEMMA CreateAgrees ==
  ASSUME NEW v, Good(v), NEW n \in Names, NEW blocks \in Nat \ {0},
         CanCreate(v, n, blocks)
  PROVE  Create(v, n, blocks) \in Volumes /\ Agrees(Create(v, n, blocks))
<1> DEFINE i == PlaceFor(v, blocks)
           fs == v.files
           w == Create(v, n, blocks)
           gs == w.files
           e == Created(fs, i, n)
           dir == [s \in Slots |->
                     IF s = i THEN OnDisk(e)
                     ELSE IF i < s /\ s <= Len(fs) + 1 THEN v.slot[s-1]
                     ELSE v.slot[s]]
<1>1. /\ v \in Volumes /\ Agrees(v) /\ Len(fs) \in Nat
      /\ v.slot \in [Slots -> EntriesOnDisk] /\ Len(fs) < MaxFiles
      /\ \A k \in 1..Len(fs) : v.slot[k] = OnDisk(fs[k])
  BY VolumeFacts, FilesFacts DEF Good, Agrees, CanCreate
<1>2. i \in 1..Len(fs)+1 /\ FreeBefore(fs, i) >= 0
  <2>1. i \in 1..Len(fs)+1 /\ FreeBefore(fs, i) >= blocks
    BY <1>1, PlaceFacts
  <2>2. FreeBefore(fs, i) \in Int
    BY <2>1, BeforeFacts DEF FreeBefore
  <2> QED
    BY <2>1, <2>2
<1>3. /\ gs \in Seq(Entries) /\ Len(gs) = Len(fs) + 1
      /\ w = [files |-> gs, header |-> Len(fs) + 1, slot |-> dir]
  BY CreateList
<1> HIDE DEF i
<1>4. dir \in [Slots -> EntriesOnDisk]
  <2>1. OnDisk(e) \in EntriesOnDisk
    BY <1>2, CreatedFacts, OnDiskFacts
  <2>2. \A s \in Slots : i < s => s - 1 \in Slots
    BY <1>1, <1>2, VolumeAssumption DEF Slots
  <2> HIDE DEF fs, e
  <2> QED
    BY <1>1, <2>1, <2>2
<1>5. w.files = gs /\ w.header = Len(fs) + 1 /\ w.slot = dir
  <2> HIDE DEF gs, dir, w
  <2> QED
    BY <1>3
<1>6. ASSUME NEW k \in 1..Len(fs)+1
      PROVE  gs[k].slot = k /\ dir[k] = OnDisk(gs[k])
  <2>1. /\ gs[k].slot = k
        /\ k = i => gs[k] = e
        /\ k # i => /\ OldPlace(i, k) \in 1..Len(fs)
                    /\ OnDisk(gs[k]) = OnDisk(fs[OldPlace(i, k)])
    BY CreateFields DEF i
  <2>2. k \in Slots /\ k \in Nat
    BY <1>1, VolumeAssumption DEF Slots
  <2> HIDE DEF gs, e
  <2>3. CASE k = i
    BY <2>1, <2>2, <2>3
  <2>4. CASE k # i
    <3>1. dir[k] = v.slot[OldPlace(i, k)]
      BY <1>1, <1>2, <2>2, <2>4 DEF OldPlace
    <3> HIDE DEF dir, fs
    <3> QED
      BY <1>1, <2>1, <2>4, <3>1
  <2> QED
    BY <2>3, <2>4
<1>7. w \in Volumes
  <2> HIDE DEF gs, dir, w, fs
  <2> QED
    BY <1>1, <1>3, <1>4 DEF Volumes
<1>8. Agrees(w)
  <2>1. Len(fs) + 1 <= MaxFiles
    BY <1>1, VolumeAssumption
  <2>2. \A k \in 1..Len(fs)+1 : gs[k].slot = k /\ dir[k] = OnDisk(gs[k])
    BY <1>6
  <2> HIDE DEF w, gs, dir
  <2> QED
    BY <1>3, <1>5, <2>1, <2>2 DEF Agrees
<1> QED
  BY <1>7, <1>8

LEMMA CreateKeeps ==
  ASSUME NEW v, Good(v), NEW n \in Names, NEW blocks \in Nat \ {0},
         CanCreate(v, n, blocks)
  PROVE  LET i == PlaceFor(v, blocks)
             gs == Create(v, n, blocks).files
         IN  /\ Good(Create(v, n, blocks))
             /\ Len(gs) = Len(v.files) + 1 /\ i \in 1..Len(gs)
             /\ gs[i] = Created(v.files, i, n)
             /\ FreeBefore(v.files, i) >= blocks
             /\ Apart(v.files) => Apart(gs)
<1> DEFINE i == PlaceFor(v, blocks)
           fs == v.files
           gs == Create(v, n, blocks).files
           e == Created(fs, i, n)
           o(k) == OldPlace(i, k)
<1>1. /\ v \in Volumes /\ fs \in Seq(Entries) /\ Len(fs) \in Nat
      /\ Room(fs) /\ Unique(fs) /\ Ordered(fs)
      /\ \A k \in 1..Len(fs) : fs[k].first \in Nat /\ fs[k].last \in Nat
  BY VolumeFacts, FilesFacts DEF Good
<1>2. FileByName(fs, n) = 0
  BY DEF CanCreate
<1>3. \A k \in 1..Len(fs) : fs[k].name # n
  BY <1>1, <1>2, ByNameFacts
<1>4. i \in 1..Len(fs)+1 /\ FreeBefore(fs, i) >= blocks
  BY <1>1, PlaceFacts
<1>5. /\ EndBefore(fs, i) \in Nat /\ StartAt(fs, i) \in Nat
      /\ FirstData <= EndBefore(fs, i)
      /\ i > 1 => EndBefore(fs, i) = fs[i-1].last
  BY <1>4, BeforeFacts
<1>6. EndBefore(fs, i) < StartAt(fs, i)
  BY <1>4, <1>5 DEF FreeBefore
<1>7. gs \in Seq(Entries) /\ Len(gs) = Len(fs) + 1
  BY CreateList
<1>8. ASSUME NEW k \in 1..Len(fs)+1
      PROVE  /\ k = i => gs[k] = e
             /\ k # i => /\ o(k) \in 1..Len(fs)
                         /\ gs[k].name = fs[o(k)].name /\ gs[k].first = fs[o(k)].first
                         /\ gs[k].last = fs[o(k)].last
                         /\ gs[k].max = IF k + 1 = i THEN BlocksOf(fs[k]) * BlockSize
                                        ELSE fs[o(k)].max
  BY CreateFields
<1>9. /\ e.name = n /\ e.first = EndBefore(fs, i) /\ e.last = EndBefore(fs, i) + 1
      /\ e.max = FreeBefore(fs, i) * BlockSize
  BY DEF Created
<1> HIDE DEF gs, i, e
<1>10. \A k \in 1..Len(fs)+1 :
         StartAt(gs, k+1) = IF k + 1 = i THEN EndBefore(fs, i)
                            ELSE IF k >= i THEN StartAt(fs, k) ELSE StartAt(fs, k+1)
  <2> SUFFICES ASSUME NEW k \in 1..Len(fs)+1
               PROVE  StartAt(gs, k+1) = IF k + 1 = i THEN EndBefore(fs, i)
                                         ELSE IF k >= i THEN StartAt(fs, k)
                                         ELSE StartAt(fs, k+1)
    OBVIOUS
  <2>1. k \in Nat
    BY <1>1
  <2>2. CASE k = Len(fs) + 1
    BY <1>1, <1>4, <1>7, <2>1, <2>2 DEF StartAt
  <2>3. CASE k < Len(fs) + 1
    <3>1. StartAt(gs, k+1) = gs[k+1].first /\ k + 1 \in 1..Len(fs)+1
      BY <1>1, <1>7, <2>1, <2>3 DEF StartAt
    <3>2. CASE k + 1 = i
      BY <1>8, <1>9, <3>1, <3>2
    <3>3. CASE k + 1 # i
      <4>1. gs[k+1].first = fs[o(k+1)].first
        BY <1>8, <3>1, <3>3
      <4>2. o(k+1) = IF k >= i THEN k ELSE k + 1
        BY <1>4, <2>1 DEF OldPlace
      <4>3. k >= i => StartAt(fs, k) = fs[k].first
        BY <1>1, <2>1, <2>3 DEF StartAt
      <4>4. k < i => StartAt(fs, k + 1) = fs[k+1].first
        BY <1>1, <1>4, <2>1, <3>3 DEF StartAt
      <4> QED
        BY <1>4, <2>1, <3>1, <3>3, <4>1, <4>2, <4>3, <4>4
    <3> QED
      BY <3>2, <3>3
  <2> QED
    BY <1>1, <2>1, <2>2, <2>3
<1>11. Room(gs)
  <2> SUFFICES ASSUME NEW k \in 1..Len(fs)+1
               PROVE  gs[k].max = (StartAt(gs, k+1) - gs[k].first) * BlockSize
    BY <1>7 DEF Room
  <2>1. k \in Nat
    BY <1>1
  <2>2. CASE k = i
    <3>1. gs[k].max = FreeBefore(fs, i) * BlockSize /\ gs[k].first = EndBefore(fs, i)
      BY <1>8, <1>9, <2>2
    <3>2. StartAt(gs, k+1) = StartAt(fs, i)
      BY <1>10, <2>1, <2>2
    <3> QED
      BY <3>1, <3>2 DEF FreeBefore
  <2>3. CASE k + 1 = i
    <3>1. /\ gs[k].max = BlocksOf(fs[k]) * BlockSize /\ gs[k].first = fs[k].first
          /\ o(k) = k
      <4>1. o(k) = k /\ k # i
        BY <2>1, <2>3 DEF OldPlace
      <4> QED
        BY <1>8, <2>3, <4>1
    <3>2. StartAt(gs, k+1) = fs[k].last
      BY <1>5, <1>10, <2>1, <2>3
    <3> QED
      BY <3>1, <3>2 DEF BlocksOf
  <2>4. CASE k # i /\ k + 1 # i
    <3>1. gs[k].max = fs[o(k)].max /\ gs[k].first = fs[o(k)].first /\ o(k) \in 1..Len(fs)
      BY <1>8, <2>4
    <3>2. StartAt(gs, k+1) = StartAt(fs, o(k) + 1)
      BY <1>4, <1>10, <2>1, <2>4 DEF OldPlace
    <3> QED
      BY <1>1, <3>1, <3>2 DEF Room
  <2> QED
    BY <2>2, <2>3, <2>4
<1>12. Unique(gs)
  <2> SUFFICES ASSUME NEW a \in 1..Len(fs)+1, NEW b \in 1..Len(fs)+1, gs[a].name = gs[b].name
               PROVE  a = b
    BY <1>7 DEF Unique
  <2>1. CASE a = i \/ b = i
    BY <1>3, <1>8, <1>9, <2>1
  <2>2. CASE a # i /\ b # i
    <3>1. o(a) \in 1..Len(fs) /\ gs[a].name = fs[o(a)].name
      BY <1>8, <2>2
    <3>2. o(b) \in 1..Len(fs) /\ gs[b].name = fs[o(b)].name
      BY <1>8, <2>2
    <3>3. o(a) = o(b)
      <4> HIDE DEF o, fs
      <4> QED
        BY <1>1, <3>1, <3>2 DEF Unique
    <3> QED
      BY <1>1, <1>4, <2>2, <3>3 DEF OldPlace
  <2> QED
    BY <2>1, <2>2
<1>13. Ordered(gs)
  <2> SUFFICES ASSUME NEW k \in 1..Len(fs)+1
               PROVE  /\ FirstData <= gs[k].first /\ gs[k].first < gs[k].last
                      /\ gs[k].first < StartAt(gs, k+1)
                      /\ gs[k].last <= StartAt(gs, k+1) + 1
    BY <1>7 DEF Ordered
  <2>1. k \in Nat
    BY <1>1
  <2>2. CASE k = i
    <3>1. gs[k].last = EndBefore(fs, i) + 1 /\ gs[k].first = EndBefore(fs, i)
      BY <1>8, <1>9, <2>2
    <3>2. StartAt(gs, k+1) = StartAt(fs, i)
      BY <1>10, <2>1, <2>2
    <3> QED
      BY <1>5, <1>6, <3>1, <3>2
  <2>3. CASE k + 1 = i
    <3>1. /\ gs[k].last = fs[k].last /\ gs[k].first = fs[k].first /\ k \in 1..Len(fs)
      <4>1. o(k) = k /\ k # i
        BY <2>1, <2>3 DEF OldPlace
      <4> QED
        BY <1>8, <2>3, <4>1
    <3>2. StartAt(gs, k+1) = fs[k].last
      BY <1>5, <1>10, <2>1, <2>3
    <3>3. FirstData <= fs[k].first /\ fs[k].first < fs[k].last /\ fs[k].last \in Nat
      BY <1>1, <3>1 DEF Ordered
    <3> QED
      BY <3>1, <3>2, <3>3
  <2>4. CASE k # i /\ k + 1 # i
    <3>1. gs[k].last = fs[o(k)].last /\ gs[k].first = fs[o(k)].first /\ o(k) \in 1..Len(fs)
      BY <1>8, <2>4
    <3>2. StartAt(gs, k+1) = StartAt(fs, o(k) + 1)
      BY <1>4, <1>10, <2>1, <2>4 DEF OldPlace
    <3> QED
      BY <1>1, <3>1, <3>2 DEF Ordered
  <2> QED
    BY <2>2, <2>3, <2>4
<1>14. Good(Create(v, n, blocks))
  BY <1>11, <1>12, <1>13, CreateAgrees DEF Good, gs
<1>15. Apart(fs) => Apart(gs)
  <2> SUFFICES ASSUME Apart(fs), NEW k \in 1..Len(fs)+1
               PROVE  gs[k].last <= StartAt(gs, k+1)
    BY <1>7 DEF Apart
  <2>1. k \in Nat
    BY <1>1
  <2>2. CASE k = i
    <3>1. gs[k].last = EndBefore(fs, i) + 1 /\ StartAt(gs, k+1) = StartAt(fs, i)
      BY <1>8, <1>9, <1>10, <2>1, <2>2
    <3> QED
      BY <1>5, <1>6, <3>1
  <2>3. CASE k + 1 = i
    <3>1. o(k) = k /\ k # i
      BY <2>1, <2>3 DEF OldPlace
    <3>2. gs[k].last = fs[k].last /\ fs[k].last \in Nat
      BY <1>1, <1>8, <2>3, <3>1
    <3>3. StartAt(gs, k+1) = fs[k].last
      BY <1>5, <1>10, <2>1, <2>3, SMTT(30)
    <3> QED
      BY <3>2, <3>3
  <2>4. CASE k # i /\ k + 1 # i
    <3>1. gs[k].last = fs[o(k)].last /\ o(k) \in 1..Len(fs)
      BY <1>8, <2>4
    <3>2. StartAt(gs, k+1) = StartAt(fs, o(k) + 1)
      BY <1>4, <1>10, <2>1, <2>4 DEF OldPlace
    <3> QED
      BY <3>1, <3>2 DEF Apart
  <2> QED
    BY <2>2, <2>3, <2>4
<1> QED
  BY <1>4, <1>7, <1>8, <1>14, <1>15 DEF gs, i, e

-----------------------------------------------------------------------------
(* A write of the entry at one place: rename(), setFileKind(), write().    *)

LEMMA SetKeeps ==
  ASSUME NEW v, Good(v), NEW i \in 1..Len(v.files), NEW e \in Entries,
         e.first = v.files[i].first, e.max = v.files[i].max, e.slot = i,
         e.first < e.last, e.last <= StartAt(v.files, i+1) + 1,
         \A k \in 1..Len(v.files) : k # i => v.files[k].name # e.name
  PROVE  LET w == WriteEntry([v EXCEPT !.files[i] = e], e)
         IN  /\ Good(w)
             /\ w = [files |-> [v.files EXCEPT ![i] = e], header |-> v.header,
                     slot |-> [v.slot EXCEPT ![i] = OnDisk(e)]]
             /\ Len(w.files) = Len(v.files)
<1> DEFINE fs == v.files
           gs == [fs EXCEPT ![i] = e]
           dir == [v.slot EXCEPT ![i] = OnDisk(e)]
           w == WriteEntry([v EXCEPT !.files[i] = e], e)
<1>1. /\ v \in Volumes /\ fs \in Seq(Entries) /\ Len(fs) \in Nat
      /\ v.header = Len(fs) /\ Len(fs) <= MaxFiles
      /\ v.slot \in [Slots -> EntriesOnDisk] /\ DOMAIN fs = 1..Len(fs)
      /\ \A k \in 1..Len(fs) : fs[k].slot = k /\ v.slot[k] = OnDisk(fs[k]) /\ fs[k] \in Entries
      /\ Room(fs) /\ Unique(fs) /\ Ordered(fs)
  BY VolumeFacts, FilesFacts DEF Good, Agrees
<1>2. v = [files |-> v.files, header |-> v.header, slot |-> v.slot]
  BY <1>1 DEF Volumes
<1>3. w = [files |-> gs, header |-> v.header, slot |-> dir]
  <2> DEFINE x == [v EXCEPT !.files[i] = e]
  <2>1. x = [files |-> gs, header |-> v.header, slot |-> v.slot]
    BY <1>2, SMTT(30)
  <2>2. w = [x EXCEPT !.slot[i] = OnDisk(e)]
    BY DEF WriteEntry
  <2> HIDE DEF x, w, gs
  <2> QED
    BY <2>1, <2>2
<1>4. w.files = gs /\ w.header = v.header /\ w.slot = dir
  BY <1>3
<1> HIDE DEF w
<1>6. /\ DOMAIN gs = 1..Len(fs)
      /\ \A k \in 1..Len(fs) : gs[k] = IF k = i THEN e ELSE fs[k]
  BY <1>1
<1>7. gs \in Seq(Entries) /\ Len(gs) = Len(fs)
  <2>1. gs \in [1..Len(fs) -> Entries]
    BY <1>1, <1>6
  <2> HIDE DEF gs, fs
  <2> QED
    BY <1>1, <2>1, ListOf
<1>8. \A k \in 1..Len(fs) : dir[k] = IF k = i THEN OnDisk(e) ELSE v.slot[k]
  BY <1>1, VolumeAssumption DEF Slots
<1>9. dir \in [Slots -> EntriesOnDisk]
  BY <1>1, OnDiskFacts
<1> HIDE DEF gs, dir
<1>10. w \in Volumes
  BY <1>1, <1>3, <1>7, <1>9 DEF Volumes
<1>11. Agrees(w)
  BY <1>1, <1>4, <1>6, <1>7, <1>8 DEF Agrees
<1>12. \A k \in 1..Len(fs) : StartAt(gs, k+1) = StartAt(fs, k+1)
  <2> TAKE k \in 1..Len(fs)
  <2>1. CASE k + 1 \in 1..Len(fs)
    <3>1. gs[k+1].first = fs[k+1].first
      BY <1>6, <2>1
    <3> QED
      BY <1>1, <1>7, <2>1, <3>1 DEF StartAt
  <2>2. CASE k + 1 \notin 1..Len(fs)
    BY <1>1, <1>7, <2>2 DEF StartAt
  <2> QED
    BY <2>1, <2>2
<1>13. \A k \in 1..Len(fs) : gs[k].first = fs[k].first /\ gs[k].max = fs[k].max
  BY <1>6
<1>14. Room(gs)
  <2> SUFFICES ASSUME NEW k \in 1..Len(fs)
               PROVE  gs[k].max = (StartAt(gs, k+1) - gs[k].first) * BlockSize
    BY <1>7 DEF Room
  <2> QED
    BY <1>1, <1>12, <1>13 DEF Room
<1>15. Unique(gs)
  <2> SUFFICES ASSUME NEW a \in 1..Len(fs), NEW b \in 1..Len(fs), gs[a].name = gs[b].name
               PROVE  a = b
    BY <1>7 DEF Unique
  <2> QED
    BY <1>1, <1>6 DEF Unique
<1>16. Ordered(gs)
  <2> SUFFICES ASSUME NEW k \in 1..Len(fs)
               PROVE  /\ FirstData <= gs[k].first /\ gs[k].first < gs[k].last
                      /\ gs[k].first < StartAt(gs, k+1)
                      /\ gs[k].last <= StartAt(gs, k+1) + 1
    BY <1>7 DEF Ordered
  <2> QED
    BY <1>1, <1>6, <1>12, <1>13 DEF Ordered
<1>17. Good(w)
  BY <1>4, <1>10, <1>11, <1>14, <1>15, <1>16 DEF Good
<1> QED
  BY <1>3, <1>4, <1>7, <1>17 DEF w, gs, dir

-----------------------------------------------------------------------------
(* rename() and copy().                                                    *)

HasName(fs, n) == \E i \in 1..Len(fs) : fs[i].name = n

LEMMA HasNameFacts ==
  ASSUME NEW fs \in Seq(Entries), NEW n
  PROVE  HasName(fs, n) <=> FileByName(fs, n) # 0
BY ByNameFacts DEF HasName

(* Without a file of the name: one less, and every other is left.          *)
LEMMA WithoutKeeps ==
  ASSUME NEW v, Good(v), NEW n
  PROVE  LET u == Without(v, FileByName(v.files, n))
         IN  /\ Good(u)
             /\ ~HasName(u.files, n)
             /\ \A m : m # n /\ HasName(v.files, m) => HasName(u.files, m)
<1> DEFINE k == FileByName(v.files, n)
           fs == v.files
           u == Without(v, k)
<1>1. fs \in Seq(Entries) /\ Len(fs) \in Nat /\ Unique(fs)
  BY VolumeFacts, FilesFacts DEF Good
<1>2. k \in 0..Len(fs) /\ (k = 0 <=> ~HasName(fs, n)) /\ (k # 0 => fs[k].name = n)
  BY <1>1, ByNameFacts, HasNameFacts
<1>3. CASE k = 0
  BY <1>2, <1>3 DEF Without
<1>4. CASE k # 0
  <2>1. k \in 1..Len(fs) /\ u = Unlink(v, k)
    BY <1>1, <1>2, <1>4 DEF Without
  <2> HIDE DEF k
  <2>2. /\ Good(u) /\ Len(u.files) = Len(fs) - 1
        /\ \A a \in 1..Len(fs)-1 : u.files[a].name = fs[IF a < k THEN a ELSE a + 1].name
    BY <2>1, UnlinkKeeps
  <2> HIDE DEF u, fs
  <2>3. ~HasName(u.files, n)
    <3> SUFFICES ASSUME NEW a \in 1..Len(fs)-1, u.files[a].name = n
                 PROVE  FALSE
      BY <2>2 DEF HasName
    <3> DEFINE b == IF a < k THEN a ELSE a + 1
    <3>1. b \in 1..Len(fs) /\ b # k
      BY <1>1, <2>1
    <3>2. fs[b].name = fs[k].name
      BY <1>2, <1>4, <2>2
    <3> HIDE DEF b
    <3> QED
      BY <1>1, <2>1, <3>1, <3>2 DEF Unique
  <2>4. ASSUME NEW m, m # n, HasName(fs, m)
        PROVE  HasName(u.files, m)
    <3>1. PICK b \in 1..Len(fs) : fs[b].name = m
      BY <2>4 DEF HasName
    <3>2. b # k
      BY <1>2, <1>4, <2>4, <3>1
    <3> DEFINE a == IF b < k THEN b ELSE b - 1
    <3>3. a \in 1..Len(fs)-1 /\ (IF a < k THEN a ELSE a + 1) = b
      BY <1>1, <2>1, <3>2
    <3> HIDE DEF a
    <3>4. u.files[a].name = m
      BY <2>2, <3>1, <3>3
    <3> QED
      BY <2>2, <3>3, <3>4 DEF HasName
  <2> QED
    BY <2>2, <2>3, <2>4 DEF u, fs, k
<1> QED
  BY <1>3, <1>4

LEMMA RenameKeeps ==
  ASSUME NEW v, Good(v), NEW old \in Names, NEW new \in Names, old # new,
         FileByName(v.files, old) # 0
  PROVE  Good(Rename(v, old, new))
<1> DEFINE k == FileByName(v.files, new)
           u == Without(v, k)
           j == FileByName(u.files, old)
           e == [u.files[j] EXCEPT !.name = new]
<1>1. /\ Good(u) /\ ~HasName(u.files, new) /\ HasName(u.files, old)
  <2>1. HasName(v.files, old)
    BY VolumeFacts, HasNameFacts DEF Good
  <2> QED
    BY <2>1, WithoutKeeps
<1>2. Rename(v, old, new) = IF j = 0 THEN WriteEntry(u, [v.files[FileByName(v.files, old)] EXCEPT !.name = new])
                            ELSE WriteEntry([u EXCEPT !.files[j] = e], e)
  BY DEF Rename, Without
<1> HIDE DEF u
<1>3. /\ u.files \in Seq(Entries) /\ Ordered(u.files)
      /\ \A i \in 1..Len(u.files) : u.files[i] \in Entries /\ u.files[i].slot = i
      /\ Len(u.files) \in Nat
  BY <1>1, VolumeFacts, FilesFacts DEF Good, Agrees
<1>4. j \in 1..Len(u.files)
  BY <1>1, <1>3, ByNameFacts, HasNameFacts
<1> HIDE DEF j
<1>5. /\ u.files[j] \in Entries /\ u.files[j].slot = j
      /\ u.files[j].first < u.files[j].last
      /\ u.files[j].last <= StartAt(u.files, j+1) + 1
  BY <1>3, <1>4 DEF Ordered
<1>6. /\ e \in Entries /\ e.first = u.files[j].first /\ e.max = u.files[j].max
      /\ e.slot = u.files[j].slot /\ e.last = u.files[j].last /\ e.name = new
  BY <1>5 DEF Entries
<1>7. \A i \in 1..Len(u.files) : i # j => u.files[i].name # e.name
  BY <1>1, <1>6 DEF HasName
<1> HIDE DEF e
<1>8. Good(WriteEntry([u EXCEPT !.files[j] = e], e))
  BY <1>1, <1>4, <1>5, <1>6, <1>7, SetKeeps
<1>9. j # 0
  BY <1>3, <1>4
<1> QED
  BY <1>2, <1>8, <1>9

(* No file starts past the volume: the last does not, and each starts      *)
(* before the next.                                                        *)
LEMMA StartBounded ==
  ASSUME NEW v, Good(v), NEW i \in 1..Len(v.files)+1
  PROVE  StartAt(v.files, i) <= LastVolumeBlock
<1> DEFINE fs == v.files
           n == Len(fs)
           Bad == {k \in 0..n : ~(StartAt(fs, n + 1 - k) <= LastVolumeBlock)}
<1>1. fs \in Seq(Entries) /\ n \in Nat /\ Ordered(fs)
  BY VolumeFacts, FilesFacts DEF Good
<1>2. \A k \in 1..n : StartAt(fs, k) \in Nat /\ StartAt(fs, k+1) \in Nat
                     /\ StartAt(fs, k) < StartAt(fs, k+1)
  <2> TAKE k \in 1..n
  <2>1. StartAt(fs, k+1) \in Nat /\ StartAt(fs, k) = fs[k].first
    BY <1>1, StartFacts
  <2>2. fs[k].first \in Nat /\ fs[k].first < StartAt(fs, k+1)
    BY <1>1, FilesFacts DEF Ordered
  <2> QED
    BY <2>1, <2>2
<1> HIDE DEF fs
<1>3. StartAt(fs, n + 1) = LastVolumeBlock /\ LastVolumeBlock \in Nat
  BY <1>1, VolumeAssumption DEF StartAt
<1> HIDE DEF n
<1>4. SUFFICES ASSUME Bad # {} PROVE FALSE
  <2>1. n + 1 - i \in 0..n /\ n + 1 - (n + 1 - i) = i
    BY <1>1 DEF n, fs
  <2> QED
    BY <1>4, <2>1 DEF fs
<1>5. Bad \subseteq Nat
  BY <1>1
<1> DEFINE m == Min(Bad)
<1>6. m \in Bad /\ \A k \in Bad : m <= k
  BY <1>4, <1>5, MinFacts
<1> HIDE DEF m
<1>7. m \in 1..n
  <2>1. m # 0
    BY <1>1, <1>3, <1>6
  <2> QED
    BY <1>1, <1>6, <2>1
<1>8. m - 1 \in 0..n /\ m - 1 \notin Bad
  <2>1. m - 1 \in 0..n /\ ~(m <= m - 1)
    BY <1>1, <1>7
  <2> HIDE DEF Bad
  <2> QED
    BY <1>6, <2>1
<1>9. n + 1 - m \in 1..n /\ n + 1 - (m - 1) = n + 1 - m + 1
  BY <1>1, <1>7
<1>10. StartAt(fs, n + 1 - m + 1) <= LastVolumeBlock
  BY <1>8, <1>9
<1> QED
  BY <1>2, <1>3, <1>6, <1>9, <1>10

LEMMA MaxContiguousFacts ==
  ASSUME NEW v, Good(v)
  PROVE  MaxContiguousBlocks(v.files) \in Int
<1> DEFINE fs == v.files
           S == {FreeBefore(fs, i) : i \in Places(fs)}
           R == {LastVolumeBlock - FreeBefore(fs, i) : i \in Places(fs)}
<1>1. Len(fs) \in Nat /\ LastVolumeBlock \in Nat
  BY VolumeFacts, FilesFacts, VolumeAssumption DEF Good
<1>2. \A i \in Places(fs) :
        FreeBefore(fs, i) \in Int /\ LastVolumeBlock - FreeBefore(fs, i) \in Nat
  <2> TAKE i \in Places(fs)
  <2>1. i \in 1..Len(fs)+1
    BY DEF Places
  <2>2. EndBefore(fs, i) \in Nat /\ StartAt(fs, i) \in Nat
    BY <2>1, BeforeFacts
  <2>3. StartAt(fs, i) <= LastVolumeBlock
    BY <2>1, StartBounded
  <2> QED
    BY <1>1, <2>2, <2>3 DEF FreeBefore
<1>3. R \subseteq Nat /\ R # {}
  BY <1>1, <1>2 DEF Places
<1>4. Min(R) \in R /\ \A x \in R : Min(R) <= x
  BY <1>3, MinFacts
<1>5. PICK i \in Places(fs) : Min(R) = LastVolumeBlock - FreeBefore(fs, i)
  BY <1>4
<1>6. \A y \in S : FreeBefore(fs, i) >= y
  <2> SUFFICES ASSUME NEW j \in Places(fs)
               PROVE  FreeBefore(fs, i) >= FreeBefore(fs, j)
    OBVIOUS
  <2>1. LastVolumeBlock - FreeBefore(fs, i) <= LastVolumeBlock - FreeBefore(fs, j)
    BY <1>4, <1>5
  <2>2. FreeBefore(fs, i) \in Int /\ FreeBefore(fs, j) \in Int
    BY <1>2
  <2> HIDE DEF fs
  <2> QED
    BY <1>1, <2>1, <2>2
<1>7. Max(S) \in S
  BY <1>6 DEF Max
<1> QED
  BY <1>2, <1>7 DEF MaxContiguousBlocks

LEMMA PreparedKeeps ==
  ASSUME NEW v, Good(v), NEW new \in Names, NEW blocks \in Nat \ {0}
  PROVE  LET k == FileByName(v.files, new)
             w == Prepared(v, k, new, blocks)
         IN  /\ Good(w)
             /\ CanCopy(v, k, new, blocks) => HasName(w.files, new)
<1> DEFINE k == FileByName(v.files, new)
           w == Prepared(v, k, new, blocks)
           u == Without(v, k)
<1>1. Good(u)
  BY WithoutKeeps
<1>2. k # 0 => HasName(v.files, new)
  BY VolumeFacts, HasNameFacts DEF Good
<1>3. CanCreate(u, new, blocks) =>
        Good(Create(u, new, blocks)) /\ HasName(Create(u, new, blocks).files, new)
  <2> SUFFICES ASSUME CanCreate(u, new, blocks)
               PROVE  Good(Create(u, new, blocks)) /\ HasName(Create(u, new, blocks).files, new)
    OBVIOUS
  <2> HIDE DEF u
  <2>1. /\ Good(Create(u, new, blocks))
        /\ PlaceFor(u, blocks) \in 1..Len(Create(u, new, blocks).files)
        /\ Create(u, new, blocks).files[PlaceFor(u, blocks)] = Created(u.files, PlaceFor(u, blocks), new)
    BY <1>1, CreateKeeps
  <2>2. Created(u.files, PlaceFor(u, blocks), new).name = new
    BY DEF Created
  <2> QED
    BY <2>1, <2>2 DEF HasName
<1>4. w = IF Fits(v, k, blocks) \/ MaxContiguousBlocks(v.files) < blocks THEN v
          ELSE IF CanCreate(u, new, blocks) THEN Create(u, new, blocks) ELSE u
  BY DEF Prepared
<1>5. Fits(v, k, blocks) => k # 0
  BY DEF Fits
<1>6. CanCopy(v, k, new, blocks) <=>
        \/ Fits(v, k, blocks)
        \/ MaxContiguousBlocks(v.files) >= blocks /\ CanCreate(u, new, blocks)
  BY DEF CanCopy
<1> HIDE DEF k, w, u
<1>7. Good(w)
  BY <1>1, <1>3, <1>4
<1>8. CASE Fits(v, k, blocks)
  BY <1>2, <1>4, <1>5, <1>7, <1>8 DEF k, w
<1>9. CASE ~Fits(v, k, blocks)
  <2>1. CASE CanCreate(u, new, blocks) /\ ~(MaxContiguousBlocks(v.files) < blocks)
    BY <1>3, <1>4, <1>7, <1>9, <2>1 DEF k, w
  <2>2. CASE ~CanCreate(u, new, blocks)
    BY <1>6, <1>7, <1>9, <2>2 DEF k, w
  <2>3. CASE MaxContiguousBlocks(v.files) < blocks
    <3>1. ~(MaxContiguousBlocks(v.files) >= blocks)
      BY <2>3, MaxContiguousFacts
    <3> QED
      BY <1>6, <1>7, <1>9, <3>1 DEF k, w
  <2> QED
    BY <2>1, <2>2, <2>3
<1> QED
  BY <1>8, <1>9

-----------------------------------------------------------------------------
(* Sizes.                                                                  *)

LEMMA DivideBy ==
  ASSUME NEW P \in Nat \ {0}, NEW x \in Nat
  PROVE  x \div P \in Nat /\ x % P \in 0..P-1 /\ x = P * (x \div P) + (x % P)
OBVIOUS

LEMMA DivideUniqueBy ==
  ASSUME NEW P \in Nat \ {0}, NEW q \in Nat, NEW r \in 0..P-1
  PROVE  (P * q + r) \div P = q
OBVIOUS

LEMMA DivideFacts ==
  ASSUME NEW x \in Nat
  PROVE  /\ x \div BlockSize \in Nat /\ x % BlockSize \in 0..BlockSize-1
         /\ x = (x \div BlockSize) * BlockSize + (x % BlockSize)
<1>1. /\ x \div BlockSize \in Nat /\ x % BlockSize \in 0..BlockSize-1
      /\ x = BlockSize * (x \div BlockSize) + (x % BlockSize)
  BY DivideBy, VolumeAssumption
<1> DEFINE q == x \div BlockSize
<1>2. BlockSize * q = q * BlockSize
  <2>1. q \in Nat /\ BlockSize \in Nat
    BY <1>1, VolumeAssumption
  <2> HIDE DEF q
  <2> QED
    BY <2>1
<1> QED
  BY <1>1, <1>2

LEMMA DivideUnique ==
  ASSUME NEW q \in Nat, NEW r \in 0..BlockSize-1
  PROVE  (q * BlockSize + r) \div BlockSize = q /\ (q * BlockSize + r) % BlockSize = r
<1> DEFINE x == BlockSize * q + r
<1>1. BlockSize \in Nat \ {0} /\ r \in 0..BlockSize-1
  BY VolumeAssumption
<1>2. q * BlockSize = BlockSize * q /\ x \in Nat /\ BlockSize * q \in Nat
  BY <1>1
<1>3. x \div BlockSize = q
  BY <1>1, DivideUniqueBy
<1> HIDE DEF x
<1>4. x = BlockSize * (x \div BlockSize) + (x % BlockSize) /\ x % BlockSize \in 0..BlockSize-1
  BY <1>1, <1>2, DivideBy
<1>5. x % BlockSize = r
  BY <1>1, <1>2, <1>3, <1>4 DEF x
<1> QED
  BY <1>2, <1>3, <1>5 DEF x

LEMMA MultipleFacts ==
  ASSUME NEW q \in Int, NEW m \in Int
  PROVE  /\ q * BlockSize \in Int /\ m * BlockSize \in Int
         /\ q * BlockSize < (m + 1) * BlockSize => q <= m
         /\ q <= m => q * BlockSize <= m * BlockSize
         /\ (m + 1) * BlockSize = m * BlockSize + BlockSize
<1>1. /\ q * BlockSize \in Int /\ m * BlockSize \in Int
      /\ (m + 1) * BlockSize = m * BlockSize + BlockSize
  BY VolumeAssumption
<1>2. ASSUME NEW a \in Int, NEW b \in Int, a <= b
      PROVE  a * BlockSize <= b * BlockSize
  <2>1. b - a \in Nat
    BY <1>2
  <2>2. (b - a) * BlockSize \in Nat
    BY <2>1, RoomNat
  <2>3. a * BlockSize + (b - a) * BlockSize = b * BlockSize
    BY <1>2, VolumeAssumption
  <2>4. a * BlockSize \in Int /\ b * BlockSize \in Int
    BY <1>2, VolumeAssumption
  <2> QED
    BY <2>2, <2>3, <2>4
<1>3. q * BlockSize < (m + 1) * BlockSize => q <= m
  <2> SUFFICES ASSUME ~(q <= m) PROVE ~(q * BlockSize < (m + 1) * BlockSize)
    OBVIOUS
  <2>1. m + 1 <= q /\ m + 1 \in Int
    OBVIOUS
  <2>2. (m + 1) * BlockSize <= q * BlockSize
    BY <1>2, <2>1
  <2>3. (m + 1) * BlockSize \in Int
    BY <2>1, VolumeAssumption
  <2> QED
    BY <1>1, <2>2, <2>3
<1> QED
  BY <1>1, <1>2, <1>3

(* setFileSize() keeps a file that has the room inside it, but for a block *)
(* too many; it is what DataFileSize() then answers, and a block more if   *)
(* the last block is full.                                                 *)
LEMMA SetFileSizeFacts ==
  ASSUME NEW e \in Entries, NEW x \in Nat \ {0}, NEW next \in Nat,
         e.max = (next - e.first) * BlockSize, x <= e.max
  PROVE  LET f == SetFileSize(e, x)
         IN  /\ f \in Entries
             /\ f.first = e.first /\ f.max = e.max /\ f.slot = e.slot /\ f.name = e.name
             /\ f.first < f.last /\ f.last <= next + 1
             /\ DataFileSize(f) = x + IF x % BlockSize = 0 THEN BlockSize ELSE 0
<1> DEFINE q == x \div BlockSize
           r == x % BlockSize
           byte == IF r = 0 THEN BlockSize ELSE r
           f == SetFileSize(e, x)
<1>1. /\ q \in Nat /\ r \in 0..BlockSize-1 /\ x = q * BlockSize + r
      /\ BlockSize \in Nat \ {0}
  BY DivideFacts, VolumeAssumption
<1>2. f = [e EXCEPT !.last = e.first + 1 + q, !.lastByte = byte]
  BY DEF SetFileSize
<1> HIDE DEF f, q, r
<1>3. e.first \in Nat /\ byte \in 0..BlockSize
  BY <1>1 DEF Entries
<1>4. e.first + 1 + q \in Nat
  BY <1>1, <1>3
<1>5. /\ f.first = e.first /\ f.max = e.max /\ f.slot = e.slot /\ f.name = e.name
      /\ f.last = e.first + 1 + q /\ f.lastByte = byte
  BY <1>2 DEF Entries
<1>6. f \in Entries
  BY <1>2, <1>3, <1>4 DEF Entries
<1>7. q <= next - e.first
  <2> DEFINE m == next - e.first
  <2>1. m \in Int
    BY <1>3
  <2> HIDE DEF m
  <2>2. /\ q * BlockSize \in Int /\ m * BlockSize \in Int
        /\ q * BlockSize < (m + 1) * BlockSize => q <= m
        /\ (m + 1) * BlockSize = m * BlockSize + BlockSize
    BY <1>1, <2>1, MultipleFacts
  <2>3. x <= m * BlockSize
    BY DEF m
  <2>4. q * BlockSize < (m + 1) * BlockSize
    BY <1>1, <2>2, <2>3
  <2> QED
    BY <2>2, <2>4 DEF m
<1>8. f.first < f.last /\ f.last <= next + 1
  BY <1>1, <1>3, <1>5, <1>7
<1>9. DataFileSize(f) = q * BlockSize + byte
  <2>1. BlocksOf(f) = q + 1
    BY <1>1, <1>3, <1>5 DEF BlocksOf
  <2>2. (q + 1) * BlockSize = q * BlockSize + BlockSize /\ q * BlockSize \in Int
    BY <1>1, MultipleFacts
  <2> QED
    BY <1>1, <1>3, <1>5, <2>1, <2>2 DEF DataFileSize
<1>10. DataFileSize(f) = x + IF r = 0 THEN BlockSize ELSE 0
  <2>1. q * BlockSize \in Nat
    BY <1>1, RoomNat
  <2> QED
    BY <1>1, <1>9, <2>1
<1> QED
  BY <1>5, <1>6, <1>8, <1>10 DEF f, r

-----------------------------------------------------------------------------
(* The inductive invariant.                                                *)

Ops == {"none", "open", "refused", "rm", "mv", "cp", "cp_failed", "krunch", "put"}

(* While the list and the disk agree; a cp ends with the new entry in the  *)
(* list alone.                                                             *)
Running == Ops \ {"none", "cp"}

(* A read-only device is never that of a put.                              *)
ReadOnlyOps == {"open", "refused", "krunch"}

Types ==
  /\ readOnly \in BOOLEAN
  /\ content \in [DataBlocks -> Data]
  /\ command.op \in Ops /\ command.names \subseteq Names
  /\ readOnly => command.op \in ReadOnlyOps

DiskIs(h, s) ==
  /\ h \in 0..MaxFiles /\ s \in [Slots -> EntriesOnDisk]
  /\ \A i, j \in 1..h : s[i].name = s[j].name => i = j
  /\ \A i \in 1..h :
       LET next == IF i = h THEN LastVolumeBlock ELSE s[i+1].first
       IN  /\ s[i].first >= FirstData /\ s[i].first < s[i].last
           /\ s[i].first < next /\ s[i].last <= next + 1

(* The list cp leaves behind.                                              *)
Copied ==
  /\ files \in Seq(Entries) /\ Len(files) <= MaxFiles /\ Room(files)
  /\ \A i \in 1..Len(files) : files[i].slot = i

(* A put p between two calls: the file it writes has room for the blocks   *)
(* it was created for; between two writes the offset is at the start of a  *)
(* block, and the size the file has is the offset or a block more.         *)
PutTypes ==
  [at : Nat, size : Nat \ {0}, offset : Nat, kind : {"data", "text"},
   set : BOOLEAN, data : Data]

HasRoom(p, max) ==
  \E n \in Nat : p.size <= n * BlockSize /\ n * BlockSize <= max

OffsetIs(p, size) ==
  /\ p.offset <= p.size /\ p.offset <= size
  /\ p.offset < p.size =>
       \E n \in Nat : /\ p.offset = n * BlockSize
                     /\ size \in {n * BlockSize, (n + 1) * BlockSize}

BlocksHold(p, first, c) ==
  \A b \in DataBlocks : (b - first) * BlockSize \in 0..p.offset-1 => c[b] = p.data

Writing(fs, p, c) ==
  /\ p \in PutTypes /\ p.at \in 1..Len(fs)
  /\ HasRoom(p, fs[p.at].max)
  /\ p.kind = "text" => \E n \in Nat : p.size = n * BlockSize
  /\ OffsetIs(p, DataFileSize(fs[p.at]))
  /\ BlocksHold(p, fs[p.at].first, c)
  /\ \A i \in 1..Len(fs) : i # p.at => fs[i].last <= StartAt(fs, i+1)

Putting == Writing(files, put, content)

IInv ==
  /\ Types
  /\ DiskIs(header, slot)
  /\ command.op \in Running => Good(Volume)
  /\ command.op = "none" => files = <<>>
  /\ command.op = "cp" => Copied
  /\ command.op = "open" => Apart(files)
  /\ command.op # "put" => put = NoPut
  /\ command.op = "put" => Putting

LEMMA DiskFollows ==
  ASSUME NEW v, Good(v)
  PROVE  DiskIs(v.header, v.slot)
<1> DEFINE fs == v.files
           h == v.header
           s == v.slot
<1>1. /\ s \in [Slots -> EntriesOnDisk] /\ fs \in Seq(Entries) /\ Len(fs) \in Nat
      /\ h = Len(fs) /\ Len(fs) <= MaxFiles
      /\ \A i \in 1..Len(fs) : s[i] = OnDisk(fs[i])
      /\ Unique(fs) /\ Ordered(fs)
  BY VolumeFacts, FilesFacts DEF Good, Agrees
<1>2. \A i \in 1..Len(fs) : /\ s[i].name = fs[i].name /\ s[i].first = fs[i].first
                            /\ s[i].last = fs[i].last
  <2> TAKE i \in 1..Len(fs)
  <2>1. s[i] = OnDisk(fs[i])
    BY <1>1
  <2> HIDE DEF s, fs
  <2> QED
    BY <2>1 DEF OnDisk
<1>3. h \in 0..MaxFiles
  BY <1>1, VolumeAssumption
<1>4. ASSUME NEW i \in 1..h, NEW j \in 1..h, s[i].name = s[j].name
      PROVE  i = j
  <2> HIDE DEF fs, s
  <2> QED
    BY <1>1, <1>2, <1>4 DEF Unique
<1>5. ASSUME NEW i \in 1..h
      PROVE  LET next == IF i = h THEN LastVolumeBlock ELSE s[i+1].first
             IN  /\ s[i].first >= FirstData /\ s[i].first < s[i].last
                 /\ s[i].first < next /\ s[i].last <= next + 1
  <2>1. StartAt(fs, i+1) = IF i = h THEN LastVolumeBlock ELSE s[i+1].first
    <3>1. i = h => StartAt(fs, i+1) = LastVolumeBlock
      BY <1>1, StartFacts
    <3>2. i # h => StartAt(fs, i+1) = fs[i+1].first /\ i + 1 \in 1..Len(fs)
      BY <1>1, StartFacts
    <3> QED
      BY <1>2, <3>1, <3>2
  <2>2. /\ FirstData <= fs[i].first /\ fs[i].first < fs[i].last
        /\ fs[i].first < StartAt(fs, i+1) /\ fs[i].last <= StartAt(fs, i+1) + 1
    BY <1>1 DEF Ordered
  <2>3. fs[i].first \in Nat /\ s[i].first = fs[i].first /\ s[i].last = fs[i].last
    BY <1>1, <1>2, FilesFacts
  <2> HIDE DEF fs, s, h
  <2> QED
    BY <2>1, <2>2, <2>3, VolumeAssumption
<1> QED
  BY <1>1, <1>3, <1>4, <1>5 DEF DiskIs

LEMMA VolumeIs ==
  ASSUME NEW w, w \in Volumes, SetVolume(w)
  PROVE  Volume' = w
BY DEF Volumes, SetVolume, Volume

(* A command but open, cp and put changed the volume to w.                 *)
LEMMA RunningKeeps ==
  ASSUME NEW w, Good(w), SetVolume(w), Types',
         command'.op \in Running \ {"open", "put"}, put' = NoPut
  PROVE  IInv'
<1>1. Volume' = w
  BY VolumeIs DEF Good
<1>2. header' = w.header /\ slot' = w.slot
  BY DEF SetVolume
<1>3. Good(Volume') /\ DiskIs(header', slot')
  BY <1>1, <1>2, DiskFollows
<1> QED
  BY <1>3 DEF IInv, Running

LEMMA PutKeeps ==
  ASSUME NEW w, Good(w), SetVolume(w), Types', command'.op = "put", Putting'
  PROVE  IInv'
<1>1. Volume' = w
  BY VolumeIs DEF Good
<1>2. header' = w.header /\ slot' = w.slot
  BY DEF SetVolume
<1>3. Good(Volume') /\ DiskIs(header', slot')
  BY <1>1, <1>2, DiskFollows
<1> QED
  BY <1>3 DEF IInv, Running

LEMMA InitHolds == Init => IInv
<1> SUFFICES ASSUME Init PROVE IInv
  OBVIOUS
<1>1. Types
  BY DEF Init, Types, Idle, Ops
<1>2. DiskIs(header, slot)
  <2>1. Zeroed \in EntriesOnDisk
    BY VolumeAssumption DEF Zeroed, EntriesOnDisk, Kinds
  <2>2. header = 0 /\ slot \in [Slots -> EntriesOnDisk]
    BY <2>1 DEF Init
  <2> QED
    BY <2>2, VolumeAssumption DEF DiskIs
<1>3. command.op = "none" /\ files = <<>> /\ put = NoPut
  BY DEF Init, Idle
<1> QED
  BY <1>1, <1>2, <1>3 DEF IInv, Running

LEMMA StutterKeeps == IInv /\ UNCHANGED vars => IInv'
<1> SUFFICES ASSUME IInv, UNCHANGED vars PROVE IInv'
  OBVIOUS
<1>1. /\ readOnly' = readOnly /\ header' = header /\ slot' = slot /\ content' = content
      /\ files' = files /\ command' = command /\ put' = put
  BY DEF vars
<1>2. Types' <=> Types
  BY <1>1 DEF Types
<1>3. Volume' = Volume
  BY <1>1 DEF Volume
<1>4. Copied' <=> Copied
  BY <1>1 DEF Copied
<1>5. Putting' <=> Putting
  BY <1>1 DEF Putting
<1> QED
  BY <1>1, <1>2, <1>3, <1>4, <1>5 DEF IInv

LEMMA ExitKeeps == IInv /\ Exit => IInv'
<1> SUFFICES ASSUME IInv, Exit PROVE IInv'
  OBVIOUS
<1>1. /\ readOnly' = FALSE /\ header' = header /\ slot' = slot /\ content' = content
      /\ files' = <<>> /\ command' = Idle /\ put' = NoPut
  BY DEF Exit
<1>2. command'.op = "none" /\ command'.names = {}
  BY <1>1 DEF Idle
<1>3. Types'
  BY <1>1, <1>2 DEF IInv, Types, Ops
<1> QED
  BY <1>1, <1>2, <1>3 DEF IInv, Running

(* What an opened process has, before it runs its command.                 *)
LEMMA OpenedFacts ==
  ASSUME IInv, command.op = "open"
  PROVE  /\ Good(Volume) /\ Apart(files) /\ put = NoPut /\ Types
         /\ Volume.files = files /\ Volume.header = header /\ Volume.slot = slot
BY DEF IInv, Running, Ops, Volume

(* A command that ends without changing anything.                          *)
LEMMA QuietKeeps ==
  ASSUME IInv, command.op = "open", command'.op \in {"refused", "krunch"},
         command'.names = {},
         UNCHANGED <<readOnly, header, slot, content, files, put>>
  PROVE  IInv'
<1>1. Good(Volume) /\ put' = NoPut /\ SetVolume(Volume)
  BY OpenedFacts DEF SetVolume
<1>2. Types'
  BY OpenedFacts DEF Types, Ops, ReadOnlyOps
<1>3. command'.op \in Running \ {"open", "put"}
  BY DEF Running, Ops
<1> QED
  BY <1>1, <1>2, <1>3, RunningKeeps

LEMMA RefusedKeeps == IInv /\ Refused => IInv'
BY QuietKeeps DEF Refused, Starts

LEMMA KrunchKeeps == IInv /\ Krunch => IInv'
BY QuietKeeps DEF Krunch, Starts

LEMMA PutRefusedKeeps ==
  ASSUME IInv, NEW n, NEW size, PutRefused(n, size)
  PROVE  IInv'
BY QuietKeeps DEF PutRefused, Starts

LEMMA RmKeeps ==
  ASSUME IInv, NEW n \in Names, Rm(n)
  PROVE  IInv'
<1> DEFINE i == FileByName(files, n)
           w == Unlink(Volume, i)
<1>1. /\ ~readOnly /\ command.op \in {"open", "rm"} /\ i # 0 /\ SetVolume(w)
      /\ command' = [op |-> "rm", names |-> {n}]
      /\ readOnly' = readOnly /\ content' = content /\ put' = put
  BY DEF Rm, Starts
<1>2. Good(Volume) /\ Volume.files = files /\ put = NoPut /\ Types
  BY <1>1 DEF IInv, Running, Ops, Volume
<1>3. i \in 1..Len(Volume.files)
  BY <1>1, <1>2, ByNameFacts, VolumeFacts, FilesFacts DEF Good
<1> HIDE DEF i
<1>4. Good(w)
  BY <1>2, <1>3, UnlinkKeeps
<1>5. Types' /\ put' = NoPut /\ command'.op \in Running \ {"open", "put"}
  BY <1>1, <1>2 DEF Types, Ops, Running
<1> HIDE DEF w
<1> QED
  BY <1>1, <1>4, <1>5, RunningKeeps

LEMMA MvKeeps ==
  ASSUME IInv, NEW old \in Names, NEW new \in Names, old # new, Mv(old, new)
  PROVE  IInv'
<1> DEFINE w == Rename(Volume, old, new)
<1>1. /\ ~readOnly /\ command.op = "open" /\ FileByName(files, old) # 0 /\ SetVolume(w)
      /\ command' = [op |-> "mv", names |-> {old, new}]
      /\ readOnly' = readOnly /\ content' = content /\ put' = put
  BY DEF Mv, Starts
<1>2. Good(Volume) /\ Volume.files = files /\ put = NoPut /\ Types
  BY <1>1, OpenedFacts
<1>3. Good(w)
  BY <1>1, <1>2, RenameKeeps
<1>4. Types' /\ put' = NoPut /\ command'.op \in Running \ {"open", "put"}
  BY <1>1, <1>2 DEF Types, Ops, Running
<1> HIDE DEF w
<1> QED
  BY <1>1, <1>3, <1>4, RunningKeeps

-----------------------------------------------------------------------------
(* open.                                                                   *)

LEMMA LoadedFacts ==
  ASSUME DiskIs(header, slot)
  PROVE  /\ Loaded \in Seq(Entries) /\ Len(Loaded) = header /\ header \in 0..MaxFiles
         /\ \A i \in 1..header : Loaded[i].slot = i /\ OnDisk(Loaded[i]) = slot[i]
         /\ Unique(Loaded) /\ Ordered(Loaded)
<1>1. /\ header \in 0..MaxFiles /\ slot \in [Slots -> EntriesOnDisk] /\ MaxFiles \in Nat
      /\ \A i \in 1..header : slot[i] \in EntriesOnDisk
  BY VolumeAssumption DEF DiskIs, Slots
<1>2. ASSUME NEW i \in 1..header
      PROVE  /\ Loaded[i] \in Entries /\ Loaded[i].slot = i /\ OnDisk(Loaded[i]) = slot[i]
             /\ Loaded[i].name = slot[i].name /\ Loaded[i].first = slot[i].first
             /\ Loaded[i].last = slot[i].last
  <2>1. Loaded[i] = [name |-> slot[i].name, kind |-> slot[i].kind, first |-> slot[i].first,
                     last |-> slot[i].last, lastByte |-> slot[i].lastByte, max |-> 0,
                     slot |-> i]
    BY DEF Loaded
  <2>2. slot[i] \in EntriesOnDisk /\ i \in Nat /\ 0 \in Nat
    BY <1>1
  <2> QED
    BY <2>1, <2>2 DEF Entries, EntriesOnDisk, OnDisk
<1>3. Loaded \in Seq(Entries) /\ Len(Loaded) = header
  <2>1. Loaded \in [1..header -> Entries]
    <3>1. Loaded = [i \in 1..header |-> Loaded[i]]
      BY DEF Loaded
    <3> QED
      BY <1>2, <3>1
  <2> QED
    BY <1>1, <2>1, ListOf
<1>4. Unique(Loaded)
  <2> SUFFICES ASSUME NEW a \in 1..header, NEW b \in 1..header,
                      Loaded[a].name = Loaded[b].name
               PROVE  a = b
    BY <1>3 DEF Unique
  <2>1. slot[a].name = slot[b].name
    BY <1>2
  <2> QED
    BY <2>1 DEF DiskIs
<1>5. Ordered(Loaded)
  <2> SUFFICES ASSUME NEW i \in 1..header
               PROVE  /\ FirstData <= Loaded[i].first /\ Loaded[i].first < Loaded[i].last
                      /\ Loaded[i].first < StartAt(Loaded, i+1)
                      /\ Loaded[i].last <= StartAt(Loaded, i+1) + 1
    BY <1>3 DEF Ordered
  <2> DEFINE next == IF i = header THEN LastVolumeBlock ELSE slot[i+1].first
  <2>1. /\ slot[i].first >= FirstData /\ slot[i].first < slot[i].last
        /\ slot[i].first < next /\ slot[i].last <= next + 1
    BY DEF DiskIs
  <2>2. StartAt(Loaded, i+1) = next
    <3>1. i # header => i + 1 \in 1..header
      BY <1>1
    <3> QED
      BY <1>1, <1>2, <1>3, <3>1 DEF StartAt
  <2>3. /\ Loaded[i].first = slot[i].first /\ Loaded[i].last = slot[i].last
        /\ slot[i].first \in Nat
    BY <1>1, <1>2 DEF EntriesOnDisk
  <2> HIDE DEF next
  <2> QED
    BY <2>1, <2>2, <2>3, VolumeAssumption
<1> QED
  BY <1>1, <1>2, <1>3, <1>4, <1>5

LEMMA CalcFacts ==
  ASSUME NEW fs \in Seq(Entries), Ordered(fs), Unique(fs)
  PROVE  LET gs == CalcMaxFileSize(fs)
         IN  /\ gs \in Seq(Entries) /\ Len(gs) = Len(fs)
             /\ \A i \in 1..Len(fs) : gs[i].slot = fs[i].slot /\ OnDisk(gs[i]) = OnDisk(fs[i])
             /\ Room(gs) /\ Ordered(gs) /\ Unique(gs)
             /\ Apart(fs) => Apart(gs)
<1> DEFINE gs == CalcMaxFileSize(fs)
           room(i) == (StartAt(fs, i+1) - fs[i].first) * BlockSize
<1>1. Len(fs) \in Nat /\ DOMAIN fs = 1..Len(fs) /\ \A i \in 1..Len(fs) : fs[i] \in Entries
  BY FilesFacts
<1>2. gs = [i \in 1..Len(fs) |-> Widened(fs[i], room(i))]
  BY <1>1 DEF CalcMaxFileSize, Widened
<1>3. ASSUME NEW i \in 1..Len(fs)
      PROVE  room(i) \in Nat
  <2>1. StartAt(fs, i+1) \in Nat /\ fs[i].first \in Nat /\ fs[i].first < StartAt(fs, i+1)
    BY StartFacts, FilesFacts DEF Ordered
  <2>2. StartAt(fs, i+1) - fs[i].first \in Nat
    BY <2>1
  <2> QED
    BY <2>2, RoomNat
<1> HIDE DEF gs, room
<1>4. ASSUME NEW i \in 1..Len(fs)
      PROVE  /\ gs[i] \in Entries /\ OnDisk(gs[i]) = OnDisk(fs[i])
             /\ gs[i].first = fs[i].first /\ gs[i].last = fs[i].last
             /\ gs[i].name = fs[i].name /\ gs[i].slot = fs[i].slot
             /\ gs[i].max = room(i)
  <2> DEFINE f == fs[i]
             m == room(i)
  <2>1. gs[i] = Widened(f, m) /\ f \in Entries /\ m \in Nat
    BY <1>1, <1>2, <1>3
  <2> HIDE DEF f, m
  <2>2. gs[i] \in Entries
    BY <2>1, WidenedFacts
  <2>3. OnDisk(gs[i]) = OnDisk(f)
    BY <2>1, WidenedFacts
  <2>4. gs[i].first = f.first
    BY <2>1, WidenedFacts
  <2>5. gs[i].last = f.last
    BY <2>1, WidenedFacts
  <2>6. gs[i].name = f.name
    BY <2>1, WidenedFacts
  <2>7. gs[i].slot = f.slot
    BY <2>1, WidenedFacts
  <2>8. gs[i].max = m
    BY <2>1, WidenedFacts
  <2> QED
    BY <2>2, <2>3, <2>4, <2>5, <2>6, <2>7, <2>8 DEF f, m
<1>5. gs \in Seq(Entries) /\ Len(gs) = Len(fs)
  <2>1. gs \in [1..Len(fs) -> Entries]
    BY <1>2, <1>4
  <2> QED
    BY <1>1, <2>1, ListOf
<1>6. \A i \in 1..Len(fs) : StartAt(gs, i+1) = StartAt(fs, i+1)
  <2> SUFFICES ASSUME NEW i \in 1..Len(fs)
               PROVE  StartAt(gs, i+1) = StartAt(fs, i+1)
    OBVIOUS
  <2>1. CASE i = Len(fs)
    <3>1. i + 1 > Len(fs) /\ i + 1 > Len(gs)
      BY <1>1, <1>5, <2>1
    <3> QED
      BY <3>1 DEF StartAt
  <2>2. CASE i # Len(fs)
    <3>0. Len(fs) \in Nat /\ Len(gs) = Len(fs)
      BY <1>1, <1>5
    <3>1. i + 1 \in 1..Len(fs) /\ ~(i + 1 > Len(fs)) /\ ~(i + 1 > Len(gs))
      BY <2>2, <3>0
    <3>2. gs[i+1].first = fs[i+1].first
      BY <1>4, <3>1
    <3> QED
      BY <3>1, <3>2 DEF StartAt
  <2> QED
    BY <2>1, <2>2
<1>7. Room(gs)
  <2> SUFFICES ASSUME NEW i \in 1..Len(fs)
               PROVE  gs[i].max = (StartAt(gs, i+1) - gs[i].first) * BlockSize
    BY <1>5 DEF Room
  <2> QED
    BY <1>4, <1>6 DEF room
<1>8. Ordered(gs)
  BY <1>4, <1>5, <1>6 DEF Ordered
<1>9. Unique(gs)
  <2> SUFFICES ASSUME NEW a \in 1..Len(fs), NEW b \in 1..Len(fs), gs[a].name = gs[b].name
               PROVE  a = b
    BY <1>5 DEF Unique
  <2>1. fs[a].name = fs[b].name
    BY <1>4
  <2> QED
    BY <2>1 DEF Unique
<1>10. Apart(fs) => Apart(gs)
  BY <1>4, <1>5, <1>6 DEF Apart
<1> QED
  BY <1>4, <1>5, <1>7, <1>8, <1>9, <1>10 DEF gs

LEMMA OpenKeeps == IInv /\ Open => IInv'
<1> SUFFICES ASSUME IInv, Open PROVE IInv'
  OBVIOUS
<1> DEFINE gs == CalcMaxFileSize(Loaded)
           w == [files |-> gs, header |-> header, slot |-> slot]
<1>1. /\ command.op = "none" /\ ValidFiles(Loaded) /\ files' = gs
      /\ readOnly' \in BOOLEAN /\ command' = [op |-> "open", names |-> {}]
      /\ header' = header /\ slot' = slot /\ content' = content /\ put' = put
  BY DEF Open, Starts
<1>2. DiskIs(header, slot) /\ Types /\ put = NoPut
  BY <1>1 DEF IInv
<1>3. /\ Loaded \in Seq(Entries) /\ Len(Loaded) = header /\ header \in 0..MaxFiles
      /\ \A i \in 1..header : Loaded[i].slot = i /\ OnDisk(Loaded[i]) = slot[i]
      /\ Unique(Loaded) /\ Ordered(Loaded)
  BY <1>2, LoadedFacts
<1>4. Apart(Loaded)
  <2> SUFFICES ASSUME NEW i \in 1..header
               PROVE  Loaded[i].last <= StartAt(Loaded, i+1)
    BY <1>3 DEF Apart
  <2>1. DOMAIN Loaded = 1..header
    BY <1>3, FilesFacts
  <2>2. CASE i = header
    BY <1>1, <1>3, <2>1, <2>2 DEF ValidFiles, StartAt
  <2>3. CASE i # header
    <3>1. i + 1 \in DOMAIN Loaded /\ i + 1 # 1 /\ i + 1 - 1 = i
      BY <1>3, <2>1, <2>3
    <3>2. Loaded[i+1].first >= EndBefore(Loaded, i+1)
      BY <1>1, <3>1 DEF ValidFiles
    <3>3. EndBefore(Loaded, i+1) = Loaded[i].last
      BY <3>1 DEF EndBefore
    <3>4. StartAt(Loaded, i+1) = Loaded[i+1].first
      BY <1>3, <2>3, StartFacts
    <3>5. Loaded[i].last \in Nat /\ Loaded[i+1].first \in Nat
      BY <1>3, <2>1, <3>1, FilesFacts
    <3> QED
      BY <3>2, <3>3, <3>4, <3>5
  <2> QED
    BY <2>2, <2>3
<1> HIDE DEF gs
<1>5. /\ gs \in Seq(Entries) /\ Len(gs) = header
      /\ \A i \in 1..header : gs[i].slot = i /\ slot[i] = OnDisk(gs[i])
      /\ Room(gs) /\ Ordered(gs) /\ Unique(gs) /\ Apart(gs)
  BY <1>3, <1>4, CalcFacts DEF gs
<1>6. w.files = gs /\ w.header = header /\ w.slot = slot
  OBVIOUS
<1>7. w \in Volumes
  BY <1>2, <1>3, <1>5 DEF Volumes, DiskIs
<1>8. Good(w)
  <2>1. Agrees(w)
    BY <1>3, <1>5, <1>6, VolumeAssumption DEF Agrees
  <2> QED
    BY <1>5, <1>6, <1>7, <2>1 DEF Good
<1>9. Volume' = w
  BY <1>1 DEF Volume
<1>10. Types'
  BY <1>1, <1>2 DEF Types, Ops, ReadOnlyOps
<1> HIDE DEF w
<1>11. DiskIs(header', slot') /\ Good(Volume') /\ Apart(files') /\ put' = NoPut
  BY <1>1, <1>2, <1>5, <1>8, <1>9
<1> QED
  BY <1>1, <1>10, <1>11 DEF IInv

-----------------------------------------------------------------------------
(* cp.                                                                     *)

(* The source of a cp: a file of the list, inside the volume.              *)
LEMMA SourceFacts ==
  ASSUME IInv, command.op = "open", NEW n, FileByName(files, n) # 0
  PROVE  LET e == files[FileByName(files, n)]
         IN  /\ FileByName(files, n) \in 1..Len(files)
             /\ e \in Entries /\ BlocksOf(e) \in Nat \ {0}
             /\ e.first \in Nat /\ e.last \in Nat /\ BlocksOf(e) = e.last - e.first
             /\ FirstData <= e.first /\ e.last <= LastVolumeBlock
<1> DEFINE i == FileByName(files, n)
           e == files[i]
<1>1. Good(Volume) /\ Apart(files) /\ Volume.files = files
  BY OpenedFacts
<1>2. files \in Seq(Entries) /\ Ordered(files) /\ Len(files) \in Nat
  BY <1>1, VolumeFacts, FilesFacts DEF Good
<1>3. i \in 1..Len(files)
  BY <1>2, ByNameFacts
<1>4. /\ e \in Entries /\ e.first \in Nat /\ e.last \in Nat
      /\ FirstData <= e.first /\ e.first < e.last /\ e.last <= StartAt(files, i+1)
  BY <1>1, <1>2, <1>3, FilesFacts DEF Ordered, Apart
<1>5. StartAt(files, i+1) <= LastVolumeBlock /\ StartAt(files, i+1) \in Nat
  <2>1. i + 1 \in 1..Len(files)+1
    BY <1>2, <1>3
  <2> QED
    BY <1>1, <1>2, <1>3, <2>1, StartBounded, StartFacts
<1> HIDE DEF i, e
<1> QED
  BY <1>3, <1>4, <1>5, VolumeAssumption DEF i, e, BlocksOf

(* What cp leaves in the list.                                             *)
LEMMA CopyIntoFacts ==
  ASSUME NEW v, Good(v), NEW new, HasName(v.files, new), NEW old \in Entries,
         BlocksOf(old) \in Nat
  PROVE  LET w == CopyInto(v, new, old)
             gs == w.files
             j == FileByName(v.files, new)
         IN  /\ gs \in Seq(Entries) /\ Len(gs) = Len(v.files) /\ Len(gs) <= MaxFiles
             /\ w.header = v.header /\ w.slot = v.slot
             /\ j \in 1..Len(gs)
             /\ \A k \in 1..Len(gs) : /\ gs[k].slot = k /\ gs[k].first = v.files[k].first
                                      /\ gs[k].max = v.files[k].max
                                      /\ gs[k].name = v.files[k].name
             /\ Room(gs)
<1> DEFINE fs == v.files
           j == FileByName(fs, new)
           e == fs[j]
           f == [e EXCEPT !.kind = old.kind, !.lastByte = old.lastByte,
                          !.last = e.first + BlocksOf(old)]
           gs == [fs EXCEPT ![j] = f]
           w == CopyInto(v, new, old)
<1>1. /\ v \in Volumes /\ fs \in Seq(Entries) /\ Len(fs) \in Nat /\ DOMAIN fs = 1..Len(fs)
      /\ \A k \in 1..Len(fs) : fs[k] \in Entries /\ fs[k].slot = k
      /\ Len(fs) <= MaxFiles /\ Room(fs)
  BY VolumeFacts, FilesFacts DEF Good, Agrees
<1>2. j \in 1..Len(fs)
  BY <1>1, ByNameFacts, HasNameFacts
<1>3. w = [v EXCEPT !.files[j] = f]
  BY DEF CopyInto
<1>4. w.files = gs /\ w.header = v.header /\ w.slot = v.slot
  <2>1. v = [files |-> v.files, header |-> v.header, slot |-> v.slot]
    BY <1>1 DEF Volumes
  <2> HIDE DEF w, f
  <2> QED
    BY <1>3, <2>1
<1> HIDE DEF w, j
<1>5. e \in Entries /\ e.first + BlocksOf(old) \in Nat
  <2>1. e \in Entries
    BY <1>1, <1>2
  <2>2. e.first \in Nat
    BY <2>1 DEF Entries
  <2> HIDE DEF e
  <2> QED
    BY <2>1, <2>2
<1>6. /\ f \in Entries /\ f.slot = e.slot /\ f.first = e.first /\ f.max = e.max
      /\ f.name = e.name
  <2> HIDE DEF e
  <2> QED
    BY <1>5 DEF Entries
<1> HIDE DEF f
<1>7. \A k \in 1..Len(fs) : gs[k] = IF k = j THEN f ELSE fs[k]
  BY <1>1
<1>8. gs \in Seq(Entries) /\ Len(gs) = Len(fs)
  <2>1. gs \in [1..Len(fs) -> Entries]
    BY <1>1, <1>6, <1>7
  <2> HIDE DEF gs, fs
  <2> QED
    BY <1>1, <2>1, ListOf
<1> HIDE DEF gs
<1>9. \A k \in 1..Len(fs) : /\ gs[k].slot = k /\ gs[k].first = fs[k].first
                            /\ gs[k].max = fs[k].max /\ gs[k].name = fs[k].name
  BY <1>1, <1>6, <1>7
<1>10. Room(gs)
  <2> SUFFICES ASSUME NEW k \in 1..Len(fs)
               PROVE  gs[k].max = (StartAt(gs, k+1) - gs[k].first) * BlockSize
    BY <1>8 DEF Room
  <2>1. StartAt(gs, k+1) = StartAt(fs, k+1)
    <3>0. Len(fs) \in Nat /\ Len(gs) = Len(fs)
      BY <1>1, <1>8
    <3>1. CASE k = Len(fs)
      BY <3>0, <3>1 DEF StartAt
    <3>2. CASE k # Len(fs)
      <4>1. k + 1 \in 1..Len(fs)
        BY <3>0, <3>2
      <4>2. gs[k+1].first = fs[k+1].first
        BY <1>9, <4>1
      <4> QED
        BY <3>0, <4>2 DEF StartAt
    <3> QED
      BY <3>1, <3>2
  <2> QED
    BY <1>1, <1>9, <2>1 DEF Room
<1> QED
  BY <1>1, <1>2, <1>4, <1>8, <1>9, <1>10 DEF w, gs, j

LEMMA CpKeeps ==
  ASSUME IInv, NEW old \in Names, NEW new \in Names, Cp(old, new)
  PROVE  IInv'
<1> DEFINE e == files[FileByName(files, old)]
           k == FileByName(files, new)
           blocks == BlocksOf(e)
           v == Prepared(Volume, k, new, blocks)
           w == CopyInto(v, new, e)
           to == w.files[FileByName(w.files, new)].first
<1>1. /\ ~readOnly /\ command.op = "open" /\ FileByName(files, old) # 0
      /\ readOnly' = readOnly /\ put' = put
  BY DEF Cp
<1>2. /\ Good(Volume) /\ Volume.files = files /\ put = NoPut /\ Types
  BY <1>1, OpenedFacts
<1>3. /\ e \in Entries /\ blocks \in Nat \ {0}
      /\ e.first \in Nat /\ e.last \in Nat /\ blocks = e.last - e.first
      /\ FirstData <= e.first /\ e.last <= LastVolumeBlock
  BY <1>1, SourceFacts
<1>4. Good(v) /\ (CanCopy(Volume, k, new, blocks) => HasName(v.files, new))
  BY <1>2, <1>3, PreparedKeeps
<1>5. CASE CanCopy(Volume, k, new, blocks)
  <2>1. /\ SetVolume(w) /\ content' = CopyBlocks(content, e.first, to, blocks)
        /\ command' = [op |-> "cp", names |-> {new}]
    BY <1>5 DEF Cp, Starts
  <2> HIDE DEF v
  <2>2. HasName(v.files, new)
    BY <1>4, <1>5
  <2> HIDE DEF e, blocks
  <2>3. /\ w.files \in Seq(Entries) /\ Len(w.files) <= MaxFiles /\ Room(w.files)
        /\ \A i \in 1..Len(w.files) : w.files[i].slot = i
        /\ w.header = v.header /\ w.slot = v.slot
        /\ HasName(w.files, new)
    <3>1. BlocksOf(e) \in Nat
      BY <1>3 DEF blocks
    <3> DEFINE j == FileByName(v.files, new)
    <3>2. /\ w.files \in Seq(Entries) /\ Len(w.files) <= MaxFiles /\ Room(w.files)
          /\ \A i \in 1..Len(w.files) : w.files[i].slot = i /\ w.files[i].name = v.files[i].name
          /\ w.header = v.header /\ w.slot = v.slot /\ j \in 1..Len(w.files)
      BY <1>3, <1>4, <2>2, <3>1, CopyIntoFacts
    <3>3. v.files[j].name = new
      BY <1>4, <2>2, ByNameFacts, HasNameFacts, VolumeFacts DEF Good
    <3> HIDE DEF j, w
    <3> QED
      BY <3>2, <3>3 DEF HasName
  <2> HIDE DEF w
  <2>4. to \in Nat
    <3>1. FileByName(w.files, new) \in 1..Len(w.files)
      BY <2>3, ByNameFacts, HasNameFacts, FilesFacts
    <3> QED
      BY <2>3, <3>1, FilesFacts
  <2> HIDE DEF to
  <2>5. content' \in [DataBlocks -> Data]
    <3>1. content \in [DataBlocks -> Data] /\ LastVolumeBlock \in Nat /\ FirstData \in Nat
      BY <1>2, VolumeAssumption DEF Types
    <3>2. ASSUME NEW b \in DataBlocks, to <= b /\ b < to + blocks
          PROVE  e.first + (b - to) \in DataBlocks
      BY <1>3, <2>4, <3>1, <3>2, SMTT(30) DEF DataBlocks
    <3> QED
      BY <2>1, <3>1, <3>2 DEF CopyBlocks
  <2>6. Types'
    BY <1>1, <1>2, <2>1, <2>5 DEF Types, Ops
  <2>7. files' = w.files /\ header' = v.header /\ slot' = v.slot
    BY <2>1, <2>3 DEF SetVolume
  <2>8. DiskIs(header', slot')
    BY <1>4, <2>7, DiskFollows
  <2>9. Copied'
    BY <2>3, <2>7 DEF Copied
  <2> QED
    BY <1>1, <1>2, <2>1, <2>6, <2>8, <2>9 DEF IInv, Running
<1>6. CASE ~CanCopy(Volume, k, new, blocks)
  <2>1. /\ SetVolume(v) /\ content' = content
        /\ command' = [op |-> "cp_failed", names |-> {}]
    BY <1>6 DEF Cp, Starts
  <2>2. Types' /\ put' = NoPut /\ command'.op \in Running \ {"open", "put"}
    BY <1>1, <1>2, <2>1 DEF Types, Ops, Running
  <2> HIDE DEF v
  <2> QED
    BY <1>4, <2>1, <2>2, RunningKeeps
<1> QED
  BY <1>5, <1>6

-----------------------------------------------------------------------------
(* put.                                                                    *)

(* The blocks create() is asked for are enough.                            *)
LEMMA BlocksNeeded ==
  ASSUME NEW size \in Nat \ {0}
  PROVE  LET blocks == (size + BlockSize - 1) \div BlockSize
         IN  blocks \in Nat \ {0} /\ size <= blocks * BlockSize
<1> DEFINE x == size + BlockSize - 1
           q == x \div BlockSize
<1>1. x \in Nat /\ BlockSize \in Nat \ {0}
  BY VolumeAssumption
<1>2. x = size + BlockSize - 1
  OBVIOUS
<1> HIDE DEF x
<1>3. q \in Nat /\ x % BlockSize \in 0..BlockSize-1 /\ x = q * BlockSize + (x % BlockSize)
  BY <1>1, DivideFacts
<1>4. q * BlockSize \in Nat
  BY <1>3, RoomNat
<1> HIDE DEF q
<1>5. size <= q * BlockSize
  BY <1>1, <1>2, <1>3, <1>4
<1>6. q # 0
  BY <1>1, <1>5
<1> QED
  BY <1>3, <1>5, <1>6 DEF q, x

LEMMA PutCreateKeeps ==
  ASSUME IInv, NEW n \in Names, NEW size \in Nat \ {0}, NEW kind \in {"data", "text"},
         NEW d \in Data, kind = "text" => \E m \in Nat : size = m * BlockSize,
         PutCreate(n, size, kind, d)
  PROVE  IInv'
<1> DEFINE blocks == (size + BlockSize - 1) \div BlockSize
           i == PlaceFor(Volume, blocks)
           w == Create(Volume, n, blocks)
           gs == w.files
           e == Created(files, i, n)
           p == [at |-> i, size |-> size, offset |-> 0, kind |-> kind, set |-> FALSE,
                 data |-> d]
<1>1. /\ ~readOnly /\ command.op = "open" /\ CanCreate(Volume, n, blocks)
      /\ SetVolume(w) /\ put' = p /\ command' = [op |-> "put", names |-> {n}]
      /\ readOnly' = readOnly /\ content' = content
  BY DEF PutCreate, Starts
<1>2. Good(Volume) /\ Volume.files = files /\ Types /\ Apart(files)
  BY <1>1, OpenedFacts
<1>3. blocks \in Nat \ {0} /\ size <= blocks * BlockSize
  BY BlocksNeeded
<1> HIDE DEF blocks
<1>4. /\ Good(w) /\ i \in 1..Len(gs) /\ gs[i] = e /\ Apart(gs)
      /\ FreeBefore(files, i) >= blocks /\ Len(gs) = Len(files) + 1
  BY <1>1, <1>2, <1>3, CreateKeeps
<1>5. FreeBefore(files, i) \in Int /\ EndBefore(files, i) \in Nat
  <2>1. i \in 1..Len(Volume.files)+1
    BY <1>2, <1>4
  <2>2. EndBefore(files, i) \in Nat /\ StartAt(files, i) \in Nat
    BY <1>2, <2>1, BeforeFacts
  <2> QED
    BY <2>2 DEF FreeBefore
<1>6. /\ e.first = EndBefore(files, i) /\ e.last = EndBefore(files, i) + 1
      /\ e.lastByte = 0 /\ e.max = FreeBefore(files, i) * BlockSize
  BY DEF Created
<1> HIDE DEF e, w, gs, i
<1>7. gs \in Seq(Entries) /\ Len(gs) \in Nat
  BY <1>4, VolumeFacts, FilesFacts DEF Good, gs
<1>8. HasRoom(p, gs[p.at].max)
  <2>1. blocks * BlockSize <= FreeBefore(files, i) * BlockSize
    BY <1>3, <1>4, <1>5, MultipleFacts
  <2>2. gs[p.at].max = FreeBefore(files, i) * BlockSize /\ p.size = size
    BY <1>4, <1>6
  <2> HIDE DEF p
  <2> QED
    BY <1>3, <2>1, <2>2 DEF HasRoom
<1>9. DataFileSize(gs[p.at]) = 0
  <2>1. gs[p.at] = e
    BY <1>4
  <2>2. BlocksOf(e) = 1 /\ 1 * BlockSize = BlockSize
    BY <1>5, <1>6, VolumeAssumption DEF BlocksOf
  <2> QED
    BY <1>6, <2>1, <2>2, VolumeAssumption DEF DataFileSize
<1>10. OffsetIs(p, DataFileSize(gs[p.at]))
  <2>1. 0 * BlockSize = 0 /\ 0 \in Nat
    BY VolumeAssumption
  <2>2. p.offset = 0 /\ p.size = size /\ 0 <= 0 /\ 0 <= size
    OBVIOUS
  <2> HIDE DEF p
  <2> QED
    BY <1>9, <2>1, <2>2 DEF OffsetIs
<1>11. BlocksHold(p, gs[p.at].first, content)
  BY DEF BlocksHold
<1>12. p \in PutTypes
  BY <1>4, <1>7 DEF PutTypes
<1>13. Writing(gs, p, content)
  BY <1>4, <1>8, <1>10, <1>11, <1>12 DEF Writing, Apart
<1>14. files' = gs
  BY <1>1 DEF SetVolume, gs
<1>15. Putting'
  BY <1>1, <1>13, <1>14 DEF Putting
<1>16. Types' /\ command'.op = "put"
  BY <1>1, <1>2 DEF Types, Ops
<1> QED
  BY <1>1, <1>4, <1>15, <1>16, PutKeeps

(* A call of a put that writes the entry e, at its place.                  *)
LEMMA UpdateKeeps ==
  ASSUME IInv, command.op = "put",
         NEW e \in Entries,
         e.first = files[put.at].first, e.max = files[put.at].max,
         e.slot = files[put.at].slot, e.name = files[put.at].name,
         e.first < e.last, e.last <= StartAt(files, put.at+1) + 1,
         Update(e), readOnly' = readOnly, command' = command,
         content' \in [DataBlocks -> Data],
         NEW p \in PutTypes, put' = p,
         p.at = put.at, p.size = put.size, p.kind = put.kind, p.data = put.data,
         OffsetIs(p, DataFileSize(e)), BlocksHold(p, e.first, content')
  PROVE  IInv'
<1> DEFINE i == put.at
           w == WriteEntry([Volume EXCEPT !.files[i] = e], e)
           gs == [files EXCEPT ![i] = e]
<1>1. SetVolume(w)
  BY DEF Update
<1>2. Good(Volume) /\ Volume.files = files /\ Types /\ Writing(files, put, content)
  BY DEF IInv, Running, Ops, Volume, Putting
<1>3. i \in 1..Len(files)
  BY <1>2 DEF Writing
<1>4. /\ files \in Seq(Entries) /\ Len(files) \in Nat /\ DOMAIN files = 1..Len(files)
      /\ Unique(files) /\ \A k \in 1..Len(files) : files[k].slot = k
  BY <1>2, VolumeFacts, FilesFacts DEF Good, Agrees
<1>5. e.slot = i /\ \A k \in 1..Len(files) : k # i => files[k].name # e.name
  BY <1>3, <1>4 DEF Unique
<1>6. Good(w) /\ w.files = gs /\ Len(w.files) = Len(files)
  <2> HIDE DEF w, gs
  <2>1. /\ Good(w) /\ Len(w.files) = Len(Volume.files)
        /\ w = [files |-> [Volume.files EXCEPT ![i] = e], header |-> Volume.header,
                slot |-> [Volume.slot EXCEPT ![i] = OnDisk(e)]]
    BY <1>2, <1>3, <1>5, SetKeeps DEF w
  <2> QED
    BY <1>2, <2>1 DEF gs
<1> HIDE DEF w
<1>7. \A k \in 1..Len(files) : gs[k] = IF k = i THEN e ELSE files[k]
  BY <1>4
<1>8. Len(gs) = Len(files)
  BY <1>6
<1> HIDE DEF gs
<1>9. \A k \in 1..Len(files) : StartAt(gs, k+1) = StartAt(files, k+1)
  <2> SUFFICES ASSUME NEW k \in 1..Len(files)
               PROVE  StartAt(gs, k+1) = StartAt(files, k+1)
    OBVIOUS
  <2>0. Len(files) \in Nat
    BY <1>4
  <2>1. CASE k = Len(files)
    BY <1>8, <2>0, <2>1 DEF StartAt
  <2>2. CASE k # Len(files)
    <3>1. k + 1 \in 1..Len(files)
      BY <2>0, <2>2
    <3>2. gs[k+1].first = files[k+1].first
      BY <1>7, <3>1
    <3> QED
      BY <1>8, <2>0, <3>2 DEF StartAt
  <2> QED
    BY <2>1, <2>2
<1>10. Writing(gs, p, content')
  <2>1. gs[i] = e /\ p.at = i /\ i \in 1..Len(gs)
    BY <1>3, <1>7, <1>8
  <2>2. HasRoom(p, e.max)
    BY <1>2 DEF Writing, HasRoom
  <2>3. p.kind = "text" => \E n \in Nat : p.size = n * BlockSize
    BY <1>2 DEF Writing
  <2>4. \A k \in 1..Len(gs) : k # p.at => gs[k].last <= StartAt(gs, k+1)
    BY <1>2, <1>7, <1>8, <1>9, <2>1 DEF Writing
  <2> QED
    BY <2>1, <2>2, <2>3, <2>4 DEF Writing
<1>11. Putting'
  BY <1>1, <1>6, <1>10 DEF SetVolume, Putting
<1>12. Types' /\ command'.op = "put"
  BY <1>2 DEF Types
<1> QED
  BY <1>1, <1>6, <1>11, <1>12, PutKeeps

(* The file a put writes.                                                  *)
LEMMA PutFile ==
  ASSUME IInv, command.op = "put"
  PROVE  LET f == files[put.at]
             next == StartAt(files, put.at+1)
         IN  /\ Writing(files, put, content) /\ put \in PutTypes /\ Types
             /\ f \in Entries /\ f.first \in Nat /\ next \in Nat
             /\ f.first < f.last /\ f.last <= next + 1
             /\ f.max = (next - f.first) * BlockSize
             /\ DataFileSize(f) \in Int
<1> DEFINE f == files[put.at]
           next == StartAt(files, put.at+1)
<1>1. Good(Volume) /\ Volume.files = files /\ Types /\ Writing(files, put, content)
  BY DEF IInv, Running, Ops, Volume, Putting
<1>2. put \in PutTypes /\ put.at \in 1..Len(files)
  BY <1>1 DEF Writing
<1>3. files \in Seq(Entries) /\ Room(files) /\ Ordered(files)
  BY <1>1, VolumeFacts DEF Good
<1>4. f \in Entries /\ f.first \in Nat /\ f.last \in Nat /\ next \in Nat
  BY <1>2, <1>3, FilesFacts, StartFacts
<1>5. /\ f.first < f.last /\ f.last <= next + 1 /\ f.max = (next - f.first) * BlockSize
  BY <1>2, <1>3 DEF Room, Ordered
<1> HIDE DEF f, next
<1>6. DataFileSize(f) \in Int
  <2>1. BlocksOf(f) \in Nat /\ f.lastByte \in Int
    BY <1>4, <1>5, VolumeAssumption DEF BlocksOf, Entries
  <2>2. BlocksOf(f) * BlockSize \in Nat
    BY <2>1, RoomNat
  <2> QED
    BY <2>1, <2>2, VolumeAssumption DEF DataFileSize
<1> QED
  BY <1>1, <1>2, <1>4, <1>5, <1>6 DEF f, next

LEMMA SetFileKindKeeps == IInv /\ SetFileKind => IInv'
<1> SUFFICES ASSUME IInv, SetFileKind PROVE IInv'
  OBVIOUS
<1> DEFINE f == files[put.at]
           e == [f EXCEPT !.kind = put.kind]
           p == [put EXCEPT !.set = TRUE]
<1>1. /\ command.op = "put" /\ Update(e) /\ put' = p
      /\ readOnly' = readOnly /\ content' = content /\ command' = command
  BY DEF SetFileKind
<1>2. /\ Writing(files, put, content) /\ put \in PutTypes /\ Types
      /\ f \in Entries
      /\ f.first < f.last /\ f.last <= StartAt(files, put.at+1) + 1
  BY <1>1, PutFile
<1>3. /\ p \in PutTypes /\ p.at = put.at /\ p.size = put.size /\ p.kind = put.kind
      /\ p.data = put.data /\ p.offset = put.offset
  BY <1>2 DEF PutTypes
<1>4. put.kind \in Kinds
  BY <1>2 DEF PutTypes, Kinds
<1> HIDE DEF p
<1>5. /\ e \in Entries /\ e.first = f.first /\ e.last = f.last /\ e.max = f.max
      /\ e.slot = f.slot /\ e.name = f.name /\ e.lastByte = f.lastByte
  <2> HIDE DEF f
  <2> QED
    BY <1>2, <1>4 DEF Entries
<1>6. DataFileSize(e) = DataFileSize(f)
  BY <1>5 DEF DataFileSize, BlocksOf
<1> HIDE DEF e
<1>7. OffsetIs(p, DataFileSize(e)) /\ BlocksHold(p, e.first, content')
  BY <1>1, <1>2, <1>3, <1>5, <1>6 DEF Writing, OffsetIs, BlocksHold
<1>8. content' \in [DataBlocks -> Data]
  BY <1>1, <1>2 DEF Types
<1> QED
  BY <1>1, <1>2, <1>3, <1>5, <1>7, <1>8, UpdateKeeps

LEMMA WriteKeeps == IInv /\ Write => IInv'
<1> SUFFICES ASSUME IInv, Write PROVE IInv'
  OBVIOUS
<1> DEFINE f == files[put.at]
           next == StartAt(files, put.at+1)
           size == DataFileSize(f)
           e == IF NextSize > size THEN SetFileSize(f, NextSize) ELSE f
           o == put.offset + NextCount
           p == [put EXCEPT !.offset = o]
           cell == f.first + put.offset \div BlockSize
<1>1. /\ command.op = "put" /\ put.offset < put.size /\ NextSize <= f.max
      /\ content' = [content EXCEPT ![cell] = put.data]
      /\ Update(e) /\ put' = p
      /\ readOnly' = readOnly /\ command' = command
  BY DEF Write, WriteData
<1>2. /\ Writing(files, put, content) /\ put \in PutTypes /\ Types
      /\ f \in Entries /\ f.first \in Nat /\ next \in Nat
      /\ f.first < f.last /\ f.last <= next + 1
      /\ f.max = (next - f.first) * BlockSize /\ size \in Int
  BY <1>1, PutFile
<1>3. put.size \in Nat \ {0} /\ put.offset \in Nat /\ put.data \in Data
  BY <1>2 DEF PutTypes
<1>4. PICK n \in Nat : put.offset = n * BlockSize /\ size \in {n * BlockSize, (n + 1) * BlockSize}
  BY <1>1, <1>2 DEF Writing, OffsetIs
<1>5. BlockSize \in Nat \ {0} /\ n * BlockSize \in Nat
      /\ (n + 1) * BlockSize = n * BlockSize + BlockSize
      /\ (n + 2) * BlockSize = (n + 1) * BlockSize + BlockSize
  BY <1>4, VolumeAssumption, RoomNat, MultipleFacts
<1>6. /\ NextCount \in 1..BlockSize /\ o <= put.size /\ o \in Nat
      /\ o < put.size => NextCount = BlockSize
      /\ NextSize = IF o >= size THEN o ELSE size
  BY <1>1, <1>3, <1>5 DEF NextCount, NextSize, LargerOf
<1> HIDE DEF f, size, next
<1>7. /\ p \in PutTypes /\ p.at = put.at /\ p.size = put.size /\ p.kind = put.kind
      /\ p.data = put.data /\ p.offset = o
  <2> HIDE DEF o
  <2> QED
    BY <1>2, <1>6 DEF PutTypes
<1>8. /\ e \in Entries /\ e.first = f.first /\ e.max = f.max /\ e.slot = f.slot
      /\ e.name = f.name /\ e.first < e.last /\ e.last <= next + 1
      /\ OffsetIs(p, DataFileSize(e))
  <2> HIDE DEF p
  <2>1. CASE size = n * BlockSize
    <3>1. NextSize = o /\ o > size /\ o \in Nat \ {0}
      BY <1>4, <1>5, <1>6, <2>1
    <3>2. e = SetFileSize(f, o)
      BY <3>1
    <3> HIDE DEF o, e
    <3>3. /\ e \in Entries /\ e.first = f.first /\ e.max = f.max /\ e.slot = f.slot
          /\ e.name = f.name /\ e.first < e.last /\ e.last <= next + 1
          /\ DataFileSize(e) = o + IF o % BlockSize = 0 THEN BlockSize ELSE 0
      BY <1>1, <1>2, <3>1, <3>2, SetFileSizeFacts
    <3>4. ASSUME o < put.size
          PROVE  o = (n + 1) * BlockSize /\ DataFileSize(e) = (n + 2) * BlockSize
      <4>1. o = (n + 1) * BlockSize + 0 /\ n + 1 \in Nat /\ 0 \in 0..BlockSize-1
        BY <1>4, <1>5, <1>6, <3>4 DEF o
      <4>2. o % BlockSize = 0
        BY <4>1, DivideUnique
      <4>3. (n + 1) * BlockSize \in Nat
        BY <1>5
      <4> QED
        BY <1>5, <3>3, <4>1, <4>2, <4>3
    <3>5. o <= DataFileSize(e)
      BY <1>5, <3>1, <3>3
    <3>6. OffsetIs(p, DataFileSize(e))
      <4> SUFFICES ASSUME p.offset < p.size
                   PROVE  \E m \in Nat : /\ p.offset = m * BlockSize
                                         /\ DataFileSize(e) \in {m * BlockSize, (m + 1) * BlockSize}
        BY <1>6, <1>7, <3>5 DEF OffsetIs
      <4>1. n + 1 \in Nat /\ n + 1 + 1 = n + 2
        OBVIOUS
      <4>2. p.offset = (n + 1) * BlockSize /\ DataFileSize(e) = (n + 1 + 1) * BlockSize
        BY <1>7, <3>4, <4>1
      <4> QED
        BY <4>1, <4>2
    <3> QED
      BY <3>3, <3>6
  <2>2. CASE size = (n + 1) * BlockSize
    <3>1. o <= size /\ e = f
      BY <1>4, <1>5, <1>6, <2>2
    <3>2. o < put.size => o = (n + 1) * BlockSize
      BY <1>4, <1>5, <1>6
    <3> HIDE DEF o, e
    <3>3. DataFileSize(e) = size
      BY <3>1 DEF size
    <3>4. OffsetIs(p, DataFileSize(e))
      <4> SUFFICES ASSUME p.offset < p.size
                   PROVE  \E m \in Nat : /\ p.offset = m * BlockSize
                                         /\ DataFileSize(e) \in {m * BlockSize, (m + 1) * BlockSize}
        BY <1>6, <1>7, <3>1, <3>3 DEF OffsetIs
      <4>1. n + 1 \in Nat /\ p.offset = (n + 1) * BlockSize
        BY <1>7, <3>2
      <4> QED
        BY <2>2, <3>3, <4>1
    <3> QED
      BY <1>2, <3>1, <3>4
  <2> QED
    BY <1>4, <2>1, <2>2
<1>9. cell = f.first + n
  <2>1. put.offset = n * BlockSize + 0 /\ 0 \in 0..BlockSize-1
    BY <1>4, <1>5
  <2> QED
    BY <2>1, DivideUnique
<1>10. BlocksHold(p, e.first, content')
  <2> HIDE DEF p, e, o, cell
  <2> SUFFICES ASSUME NEW b \in DataBlocks, (b - f.first) * BlockSize \in 0..o-1
               PROVE  content'[b] = put.data
    BY <1>7, <1>8 DEF BlocksHold
  <2>1. b \in Int /\ content \in [DataBlocks -> Data]
    BY <1>2, VolumeAssumption DEF DataBlocks, Types
  <2>2. CASE b = cell
    BY <1>1, <2>1, <2>2
  <2>3. CASE b # cell
    <3> DEFINE k == b - f.first
    <3>1. k \in Int /\ k # n
      BY <1>2, <1>9, <2>1, <2>3
    <3>2. k * BlockSize \in 0..o-1
      OBVIOUS
    <3> HIDE DEF k
    <3>3. o <= (n + 1) * BlockSize
      BY <1>4, <1>5, <1>6 DEF o
    <3>4. (n + 1) * BlockSize \in Nat /\ o \in Nat
      BY <1>5, <1>6
    <3>5. k * BlockSize < (n + 1) * BlockSize
      BY <3>2, <3>3, <3>4
    <3>6. k <= n
      BY <3>1, <3>5, MultipleFacts
    <3>7. k <= n - 1 /\ n - 1 \in Int /\ n - 1 + 1 = n
      BY <3>1, <3>6
    <3>8. k * BlockSize <= (n - 1) * BlockSize
      BY <3>1, <3>7, MultipleFacts
    <3>9. n * BlockSize = (n - 1) * BlockSize + BlockSize /\ (n - 1) * BlockSize \in Int
      BY <3>7, MultipleFacts
    <3>10. k * BlockSize \in 0..put.offset-1
      BY <1>4, <1>5, <3>2, <3>8, <3>9
    <3>11. content[b] = put.data
      BY <1>2, <3>10 DEF k, f, Writing, BlocksHold
    <3> QED
      BY <1>1, <2>1, <2>3, <3>11
  <2> QED
    BY <2>2, <2>3
<1>11. content' \in [DataBlocks -> Data]
  BY <1>1, <1>2, <1>3 DEF Types
<1> HIDE DEF e, p, o, cell
<1> QED
  BY <1>1, <1>7, <1>8, <1>10, <1>11, UpdateKeeps DEF f, next

LEMMA WriteTextKeeps == IInv /\ WriteText => IInv'
<1> SUFFICES ASSUME IInv, WriteText PROVE IInv'
  OBVIOUS
<1> DEFINE f == files[put.at]
           next == StartAt(files, put.at+1)
           e == SetFileSize(f, put.size)
           p == [put EXCEPT !.offset = put.size]
<1>1. /\ command.op = "put" /\ put.kind = "text" /\ put.size <= f.max
      /\ content' = [b \in DataBlocks |->
                       IF f.first <= b /\ b < f.first + put.size \div BlockSize
                         THEN put.data ELSE content[b]]
      /\ Update(e) /\ put' = p
      /\ readOnly' = readOnly /\ command' = command
  BY DEF WriteText
<1>2. /\ Writing(files, put, content) /\ put \in PutTypes /\ Types
      /\ f \in Entries /\ f.first \in Nat /\ next \in Nat
      /\ f.max = (next - f.first) * BlockSize
  BY <1>1, PutFile
<1>3. put.size \in Nat \ {0} /\ put.data \in Data
  BY <1>2 DEF PutTypes
<1>4. PICK n \in Nat : put.size = n * BlockSize
  BY <1>1, <1>2 DEF Writing
<1>5. put.size \div BlockSize = n /\ put.size % BlockSize = 0
  <2>1. put.size = n * BlockSize + 0 /\ 0 \in 0..BlockSize-1
    BY <1>3, <1>4, VolumeAssumption
  <2> QED
    BY <2>1, DivideUnique
<1> HIDE DEF f, next
<1>6. /\ p \in PutTypes /\ p.at = put.at /\ p.size = put.size /\ p.kind = put.kind
      /\ p.data = put.data /\ p.offset = put.size
  BY <1>2, <1>3 DEF PutTypes
<1> HIDE DEF p
<1>7. /\ e \in Entries /\ e.first = f.first /\ e.max = f.max /\ e.slot = f.slot
      /\ e.name = f.name /\ e.first < e.last /\ e.last <= next + 1
      /\ DataFileSize(e) = put.size + IF put.size % BlockSize = 0 THEN BlockSize ELSE 0
  BY <1>1, <1>2, <1>3, SetFileSizeFacts
<1> HIDE DEF e
<1>8. OffsetIs(p, DataFileSize(e))
  BY <1>3, <1>5, <1>6, <1>7, VolumeAssumption DEF OffsetIs
<1>9. BlocksHold(p, e.first, content')
  <2> SUFFICES ASSUME NEW b \in DataBlocks, (b - f.first) * BlockSize \in 0..put.size-1
               PROVE  content'[b] = put.data
    BY <1>6, <1>7 DEF BlocksHold
  <2> DEFINE k == b - f.first
  <2>1. b \in Int /\ k \in Int /\ -1 \in Int /\ n - 1 \in Int /\ n - 1 + 1 = n /\ -1 + 1 = 0
    BY <1>2, VolumeAssumption DEF DataBlocks
  <2>2. k * BlockSize \in 0..put.size-1
    OBVIOUS
  <2> HIDE DEF k
  <2>3. k * BlockSize < n * BlockSize /\ k * BlockSize >= 0
    BY <1>3, <1>4, <2>2
  <2>4. k <= n - 1
    BY <2>1, <2>3, MultipleFacts
  <2>5. ~(k <= -1)
    <3>1. k <= -1 => k * BlockSize <= (-1) * BlockSize
      BY <2>1, MultipleFacts
    <3>2. (-1) * BlockSize < 0 /\ (-1) * BlockSize \in Int
      BY VolumeAssumption
    <3> QED
      BY <1>3, <2>2, <2>3, <3>1, <3>2
  <2>6. f.first <= b /\ b < f.first + n
    BY <1>2, <2>1, <2>4, <2>5 DEF k
  <2> QED
    BY <1>1, <1>5, <2>6
<1>10. content' \in [DataBlocks -> Data]
  BY <1>1, <1>2, <1>3 DEF Types
<1> QED
  BY <1>1, <1>6, <1>7, <1>8, <1>9, <1>10, UpdateKeeps DEF f, next

-----------------------------------------------------------------------------
(* Every step, and what the invariant says.                                *)

LEMMA StepKeeps ==
  ASSUME \A m \in Moves : m[1] # m[2], IInv, [Next]_vars
  PROVE  IInv'
<1>1. ASSUME UNCHANGED vars PROVE IInv'
  BY <1>1, StutterKeeps
<1>2. ASSUME OpenThrows PROVE IInv'
  BY <1>2, StutterKeeps DEF OpenThrows
<1>3. ASSUME NEW m \in Moves, Mv(m[1], m[2]) PROVE IInv'
  <2>1. m[1] \in Names /\ m[2] \in Names /\ m[1] # m[2]
    BY VolumeAssumption
  <2> QED
    BY <1>3, <2>1, MvKeeps
<1>4. ASSUME NEW n \in Names, NEW size \in DataSizes, NEW d \in Data, PutCreate(n, size, "data", d)
      PROVE  IInv'
  BY <1>4, PutCreateKeeps, VolumeAssumption
<1>5. ASSUME NEW n \in Names, NEW blocks \in TextBlocks, NEW d \in Data,
             PutCreate(n, blocks * BlockSize, "text", d)
      PROVE  IInv'
  <2>1. blocks \in Nat \ {0} /\ BlockSize \in Nat \ {0}
    BY VolumeAssumption
  <2>2. blocks * BlockSize \in Nat \ {0}
    <3>1. /\ blocks * BlockSize \in Int /\ 1 * BlockSize <= blocks * BlockSize
      BY <2>1, MultipleFacts
    <3>2. 1 * BlockSize = BlockSize
      BY <2>1
    <3> QED
      BY <2>1, <3>1, <3>2
  <2>3. \E m \in Nat : blocks * BlockSize = m * BlockSize
    BY <2>1
  <2> DEFINE size == blocks * BlockSize
  <2>4. size \in Nat \ {0} /\ (\E m \in Nat : size = m * BlockSize) /\ PutCreate(n, size, "text", d)
    BY <1>5, <2>2, <2>3
  <2> HIDE DEF size
  <2> QED
    BY <2>4, PutCreateKeeps
<1> QED
  BY <1>1, <1>2, <1>3, <1>4, <1>5, OpenKeeps, ExitKeeps, RefusedKeeps, KrunchKeeps,
     RmKeeps, CpKeeps, PutRefusedKeeps, SetFileKindKeeps, WriteKeeps, WriteTextKeeps
     DEF Next

(* The list, whatever the command.                                         *)
LEMMA ListFacts ==
  ASSUME IInv
  PROVE  /\ files \in Seq(Entries) /\ Len(files) <= MaxFiles /\ Room(files)
         /\ \A i \in 1..Len(files) : files[i].slot = i
<1>1. CASE command.op = "none"
  <2>1. files = <<>>
    BY <1>1 DEF IInv
  <2>2. <<>> \in Seq(Entries) /\ Len(<<>>) = 0
    OBVIOUS
  <2> QED
    BY <2>1, <2>2, VolumeAssumption DEF Room
<1>2. CASE command.op = "cp"
  BY <1>2 DEF IInv, Copied
<1>3. CASE command.op \in Running
  BY <1>3, VolumeFacts DEF IInv, Good, Agrees, Volume
<1> QED
  BY <1>1, <1>2, <1>3 DEF IInv, Types, Running

LEMMA TypesHold == IInv => TypeOK
<1> SUFFICES ASSUME IInv PROVE TypeOK
  OBVIOUS
<1>1. /\ Types /\ DiskIs(header, slot)
  BY DEF IInv
<1>2. /\ files \in Seq(Entries) /\ Len(files) <= MaxFiles /\ Len(files) \in Nat
      /\ DOMAIN files = 1..Len(files)
      /\ \A i \in 1..Len(files) : files[i].slot = i /\ files[i] \in Entries
  BY ListFacts, FilesFacts
<1>3. ASSUME NEW i \in DOMAIN files
      PROVE  OnDisk(files[i]) \in EntriesOnDisk /\ files[i].max \in Nat /\ files[i].slot \in Slots
  <2>1. files[i] \in Entries /\ files[i].slot = i /\ i \in 1..MaxFiles
    BY <1>2, VolumeAssumption
  <2>2. files[i].max \in Nat
    BY <2>1 DEF Entries
  <2> QED
    BY <2>1, <2>2, OnDiskFacts DEF Slots
<1>4. put.offset \in 0..put.size /\ put.at \in 0..Len(files)
  <2>1. CASE command.op = "put"
    <3>1. Writing(files, put, content) /\ put \in PutTypes
      BY <2>1, PutFile
    <3>2. put.offset <= put.size /\ put.at \in 1..Len(files)
      BY <3>1 DEF Writing, OffsetIs
    <3>3. put.offset \in Nat /\ put.size \in Nat
      BY <3>1 DEF PutTypes
    <3> QED
      BY <1>2, <3>2, <3>3
  <2>2. CASE command.op # "put"
    <3>1. put.offset = 0 /\ put.size = 0 /\ put.at = 0
      BY <2>2 DEF IInv, NoPut
    <3> QED
      BY <1>2, <3>1
  <2> QED
    BY <2>1, <2>2
<1> QED
  BY <1>1, <1>2, <1>3, <1>4 DEF TypeOK, Types, DiskIs

LEMMA DirectoryHolds == IInv => DirectoryKept
<1> SUFFICES ASSUME IInv, command.op \in Running
             PROVE  /\ header = Len(files)
                    /\ \A i \in DOMAIN files : files[i].slot = i /\ slot[i] = OnDisk(files[i])
  BY DEF DirectoryKept, Running, IInv, Types
<1>1. Agrees(Volume) /\ files \in Seq(Entries)
  BY ListFacts DEF IInv, Good
<1>2. DOMAIN files = 1..Len(files)
  BY <1>1, FilesFacts
<1> QED
  BY <1>1, <1>2 DEF Agrees, Volume

LEMMA RoomHolds == IInv => RoomExact
<1> SUFFICES ASSUME IInv PROVE files = CalcMaxFileSize(files)
  BY DEF RoomExact
<1>1. /\ files \in Seq(Entries) /\ Room(files) /\ Len(files) \in Nat
      /\ DOMAIN files = 1..Len(files)
      /\ \A i \in 1..Len(files) : files[i] \in Entries
  BY ListFacts, FilesFacts
<1>2. ASSUME NEW i \in DOMAIN files
      PROVE  files[i] = [files[i] EXCEPT !.max = (StartAt(files, i+1) - files[i].first) * BlockSize]
  <2>1. files[i].max = (StartAt(files, i+1) - files[i].first) * BlockSize /\ files[i] \in Entries
    BY <1>1 DEF Room
  <2> DEFINE room == (StartAt(files, i+1) - files[i].first) * BlockSize
             f == files[i]
  <2>2. f.max = room /\ f \in Entries
    BY <2>1
  <2> HIDE DEF room, f
  <2>3. f = [f EXCEPT !.max = room]
    BY <2>2 DEF Entries
  <2> QED
    BY <2>3 DEF room, f
<1>3. files = [i \in DOMAIN files |-> files[i]]
  BY <1>1
<1> QED
  BY <1>2, <1>3 DEF CalcMaxFileSize

LEMMA DiskHolds == IInv => NamesUnique /\ ExtentsOrdered
BY DEF IInv, DiskIs, NamesUnique, ExtentsOrdered

LEMMA PutHolds == IInv => PutHasRoom /\ PutCovered
<1> SUFFICES ASSUME IInv, command.op = "put" PROVE PutHasRoom /\ PutCovered
  BY DEF PutHasRoom, PutCovered
<1> DEFINE f == files[put.at]
<1>1. /\ Writing(files, put, content) /\ put \in PutTypes /\ DataFileSize(f) \in Int
      /\ f \in Entries
  BY PutFile
<1>2. put.size \in Nat \ {0} /\ put.offset \in Nat /\ f.max \in Nat
  BY <1>1 DEF PutTypes, Entries
<1>3. PutHasRoom
  <2> SUFFICES ASSUME put.offset < put.size
               PROVE  (IF put.kind = "text" THEN put.size ELSE NextSize) <= f.max
    BY DEF PutHasRoom
  <2>1. PICK m \in Nat : put.size <= m * BlockSize /\ m * BlockSize <= f.max
    BY <1>1 DEF Writing, HasRoom
  <2>2. PICK n \in Nat : /\ put.offset = n * BlockSize
                        /\ DataFileSize(f) \in {n * BlockSize, (n + 1) * BlockSize}
    BY <1>1 DEF Writing, OffsetIs
  <2>3. /\ n * BlockSize \in Int /\ m * BlockSize \in Int /\ BlockSize \in Nat \ {0}
        /\ (n + 1) * BlockSize = n * BlockSize + BlockSize
    BY <2>1, <2>2, MultipleFacts, VolumeAssumption
  <2>4. n + 1 <= m
    <3>1. n * BlockSize < m * BlockSize
      BY <1>2, <2>1, <2>2, <2>3
    <3>2. n \in Int /\ m - 1 \in Int /\ m - 1 + 1 = m
      BY <2>1, <2>2
    <3>3. n <= m - 1
      BY <3>1, <3>2, MultipleFacts
    <3> QED
      BY <3>2, <3>3
  <2>5. (n + 1) * BlockSize <= m * BlockSize
    BY <2>1, <2>2, <2>4, MultipleFacts
  <2>6. NextSize \in {put.offset + NextCount, DataFileSize(f)} /\ put.offset + NextCount <= put.size
    BY <1>2, <2>3 DEF NextSize, NextCount, LargerOf
  <2>7. NextSize <= f.max
    <3>1. put.offset + NextCount \in Int
      BY <1>2, <2>3 DEF NextCount
    <3> HIDE DEF f
    <3> QED
      BY <1>1, <1>2, <2>1, <2>2, <2>3, <2>5, <2>6, <3>1
  <2> QED
    BY <1>2, <2>1, <2>3, <2>7
<1>4. PutCovered
  BY <1>1 DEF PutCovered, Writing, OffsetIs, BlocksHold
<1> QED
  BY <1>3, <1>4

-----------------------------------------------------------------------------
(* The theorems.  They assume that mv is never given one name twice.       *)

LEMMA Invariance ==
  ASSUME \A m \in Moves : m[1] # m[2]
  PROVE  Spec => []IInv
<1>1. IInv /\ [Next]_vars => IInv'
  BY StepKeeps
<1> QED
  BY <1>1, InitHolds, PTL DEF Spec

(* Every field keeps its type, and unlink(), create() and copy() never let *)
(* the list outgrow the directory.                                         *)
THEOREM TypesStay ==
  ASSUME \A m \in Moves : m[1] # m[2]
  PROVE  Spec => []TypeOK
BY TypesHold, Invariance, PTL

(* Memory and disk stay one directory: between two calls of rm, mv or put, *)
(* after a failed cp and after Open, the slots unlink() and create() shift *)
(* are the entries of _files at the addresses they keep.                   *)
THEOREM DirectoryStays ==
  ASSUME \A m \in Moves : m[1] # m[2]
  PROVE  Spec => []DirectoryKept
BY DirectoryHolds, Invariance, PTL

(* _maxFileSize, which unlink() and create() adjust one neighbour at a     *)
(* time, is the distance to the next file at every step of every command.  *)
THEOREM RoomStaysExact ==
  ASSUME \A m \in Moves : m[1] # m[2]
  PROVE  Spec => []RoomExact
BY RoomHolds, Invariance, PTL

(* Whatever puts, renames and copies onto existing names there were, no    *)
(* name is in the directory twice.                                         *)
THEOREM NamesStayUnique ==
  ASSUME \A m \in Moves : m[1] # m[2]
  PROVE  Spec => []NamesUnique
<1>1. IInv => NamesUnique
  BY DiskHolds
<1> QED BY <1>1, Invariance, PTL

(* The files stay in the order of their blocks, and none runs into the     *)
(* next or off the volume by more than the one block of setFileSize().     *)
THEOREM ExtentsStayOrdered ==
  ASSUME \A m \in Moves : m[1] # m[2]
  PROVE  Spec => []ExtentsOrdered
<1>1. IInv => ExtentsOrdered
  BY DiskHolds
<1> QED BY <1>1, Invariance, PTL

(* A put of any size finds the room create() was asked for at every write. *)
THEOREM PutSucceeds ==
  ASSUME \A m \in Moves : m[1] # m[2]
  PROVE  Spec => []PutHasRoom
<1>1. IInv => PutHasRoom
  BY PutHolds
<1> QED BY <1>1, Invariance, PTL

(* What a put has written so far is in the blocks of its file, and inside  *)
(* the size the file has by then.                                          *)
THEOREM PutStaysCovered ==
  ASSUME \A m \in Moves : m[1] # m[2]
  PROVE  Spec => []PutCovered
<1>1. IInv => PutCovered
  BY PutHolds
<1> QED BY <1>1, Invariance, PTL

(* Nothing a command does reaches a read-only device.                      *)
THEOREM ReadOnlyStays ==
  ASSUME \A m \in Moves : m[1] # m[2]
  PROVE  Spec => ReadOnlyKept
<1>1. IInv /\ [Next]_vars => [readOnly => UNCHANGED <<header, slot, content>>]_vars
  <2> SUFFICES ASSUME IInv, [Next]_vars, readOnly
               PROVE  UNCHANGED <<header, slot, content>>
    OBVIOUS
  <2>1. command.op \in ReadOnlyOps
    BY DEF IInv, Types
  <2> QED
    BY <2>1 DEF ReadOnlyOps, Next, vars, Open, OpenThrows, Exit, Refused, Krunch, Rm, Mv,
                Cp, PutCreate, PutRefused, SetFileKind, Write, WriteText
<1> QED
  BY <1>1, Invariance, PTL DEF Spec, ReadOnlyKept
=============================================================================
