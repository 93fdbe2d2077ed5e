--------------------------- MODULE PascalFilesProofs ---------------------------
(***************************************************************************)
(* A command changes only the files it names: neither the entry of another *)
(* file, which unlink() and create() move to another slot, nor a block of  *)
(* its.  On the inductive invariant of PascalVolumeProofs.                 *)
(***************************************************************************)
EXTENDS PascalVolumeProofs

-----------------------------------------------------------------------------
(* Entries on the disk.                                                    *)

(* The directory w has every entry of v, at whatever slot, but of the      *)
(* names N.                                                                *)
Spares(v, w, N) ==
  \A i \in 1..v.header :
    v.slot[i].name \notin N => \E j \in 1..w.header : w.slot[j] = v.slot[i]

LEMMA SparesTwice ==
  ASSUME NEW u, NEW v, NEW w, NEW M, NEW N, Spares(u, v, M), Spares(v, w, N)
  PROVE  Spares(u, w, M \union N)
<1> SUFFICES ASSUME NEW i \in 1..u.header, u.slot[i].name \notin M, u.slot[i].name \notin N
             PROVE  \E j \in 1..w.header : w.slot[j] = u.slot[i]
  BY DEF Spares
<1>1. PICK k \in 1..v.header : v.slot[k] = u.slot[i]
  BY DEF Spares
<1> QED
  BY <1>1 DEF Spares

LEMMA EntryFacts ==
  ASSUME NEW v, Good(v), NEW i \in 1..Len(v.files)
  PROVE  /\ v.header = Len(v.files) /\ v.slot[i] = OnDisk(v.files[i])
         /\ v.slot[i].name = v.files[i].name /\ v.slot[i].first = v.files[i].first
         /\ v.slot[i].last = v.files[i].last /\ i \in Slots
<1>1. v.header = Len(v.files) /\ v.slot[i] = OnDisk(v.files[i]) /\ Len(v.files) <= MaxFiles
  BY DEF Good, Agrees
<1>2. /\ OnDisk(v.files[i]).name = v.files[i].name
      /\ OnDisk(v.files[i]).first = v.files[i].first
      /\ OnDisk(v.files[i]).last = v.files[i].last
  BY DEF OnDisk
<1>3. i \in Slots
  BY <1>1, VolumeFacts, FilesFacts, VolumeAssumption DEF Good, Slots
<1> QED
  BY <1>1, <1>2, <1>3

LEMMA UnlinkSpares ==
  ASSUME NEW v, Good(v), NEW i \in 1..Len(v.files)
  PROVE  Spares(v, Unlink(v, i), {v.files[i].name})
<1> DEFINE n == Len(v.files) - 1
           u == Unlink(v, i)
<1>1. Len(v.files) \in Nat /\ v.header = Len(v.files) /\ n \in Nat
  BY VolumeFacts, FilesFacts, EntryFacts DEF Good
<1>2. /\ u.header = n
      /\ \A s \in Slots : u.slot[s] = IF s = n + 1 THEN Zeroed
                                      ELSE IF i <= s /\ s <= n THEN v.slot[s+1]
                                      ELSE v.slot[s]
  BY DEF Unlink
<1> HIDE DEF u
<1>3. ASSUME NEW k \in 1..Len(v.files), v.slot[k].name # v.files[i].name
      PROVE  \E j \in 1..n : u.slot[j] = v.slot[k]
  <2> DEFINE j == IF k < i THEN k ELSE k - 1
  <2>1. k # i
    BY <1>3, EntryFacts
  <2>2. j \in 1..n /\ j \in Slots /\ j # n + 1
    BY <1>1, <2>1, EntryFacts, VolumeAssumption DEF Slots
  <2>3. u.slot[j] = v.slot[k]
    <3>1. CASE k < i
      BY <1>1, <1>2, <2>2, <3>1
    <3>2. CASE ~(k < i)
      <4>1. j = k - 1 /\ i <= k - 1 /\ k - 1 <= n /\ k - 1 + 1 = k
        BY <1>1, <2>1, <3>2
      <4> QED
        BY <1>2, <2>2, <4>1
    <3> QED
      BY <3>1, <3>2
  <2> QED
    BY <2>2, <2>3
<1> QED
  BY <1>1, <1>2, <1>3 DEF Spares, u

LEMMA CreateSpares ==
  ASSUME NEW v, Good(v), NEW n \in Names, NEW blocks \in Nat \ {0},
         CanCreate(v, n, blocks)
  PROVE  Spares(v, Create(v, n, blocks), {})
<1> DEFINE i == PlaceFor(v, blocks)
           w == Create(v, n, blocks)
<1>1. /\ Len(v.files) \in Nat /\ v.header = Len(v.files) /\ Len(v.files) < MaxFiles
      /\ v \in Volumes
  BY VolumeFacts, FilesFacts DEF Good, Agrees, CanCreate
<1>2. i \in 1..Len(v.files)+1
  BY <1>1, PlaceFacts
<1>3. /\ w.header = Len(v.files) + 1
      /\ \A s \in Slots : i # s => w.slot[s] = IF i < s /\ s <= Len(v.files) + 1
                                                  THEN v.slot[s-1] ELSE v.slot[s]
  <2> DEFINE dir == [s \in Slots |->
                       IF s = i THEN OnDisk(Created(v.files, i, n))
                       ELSE IF i < s /\ s <= Len(v.files) + 1 THEN v.slot[s-1]
                       ELSE v.slot[s]]
  <2>1. w = [files |-> w.files, header |-> Len(v.files) + 1, slot |-> dir]
    BY CreateList
  <2>2. \A s \in Slots : i # s => dir[s] = IF i < s /\ s <= Len(v.files) + 1
                                              THEN v.slot[s-1] ELSE v.slot[s]
    OBVIOUS
  <2> HIDE DEF w, dir, i
  <2>3. w.header = Len(v.files) + 1 /\ w.slot = dir
    BY <2>1
  <2> QED
    BY <2>2, <2>3
<1> HIDE DEF w, i
<1>4. ASSUME NEW k \in 1..Len(v.files)
      PROVE  \E j \in 1..Len(v.files)+1 : w.slot[j] = v.slot[k]
  <2> DEFINE j == IF k < i THEN k ELSE k + 1
  <2>1. j \in 1..Len(v.files)+1 /\ j \in Slots /\ j # i
    BY <1>1, <1>2, VolumeAssumption DEF Slots
  <2>2. w.slot[j] = v.slot[k]
    <3>1. CASE k < i
      BY <1>1, <1>2, <1>3, <2>1, <3>1
    <3>2. CASE ~(k < i)
      <4>1. j = k + 1 /\ i < k + 1 /\ k + 1 <= Len(v.files) + 1 /\ k + 1 - 1 = k
        BY <1>1, <1>2, <3>2
      <4> QED
        BY <1>3, <2>1, <4>1
    <3> QED
      BY <3>1, <3>2
  <2> QED
    BY <2>1, <2>2
<1> QED
  BY <1>1, <1>3, <1>4 DEF Spares, w

LEMMA SparesSame ==
  ASSUME NEW v, NEW N
  PROVE  Spares(v, v, N)
BY DEF Spares

LEMMA WithoutSpares ==
  ASSUME NEW v, Good(v), NEW n
  PROVE  Spares(v, Without(v, FileByName(v.files, n)), {n})
<1> DEFINE k == FileByName(v.files, n)
<1>1. k \in 0..Len(v.files) /\ (k # 0 => v.files[k].name = n) /\ Len(v.files) \in Nat
  BY VolumeFacts, FilesFacts, ByNameFacts DEF Good
<1> HIDE DEF k
<1>2. CASE k = 0
  BY <1>2, SparesSame DEF Without, k
<1>3. CASE k # 0
  <2>1. k \in 1..Len(v.files) /\ Without(v, k) = Unlink(v, k)
    BY <1>1, <1>3 DEF Without
  <2>2. Spares(v, Unlink(v, k), {v.files[k].name})
    BY <2>1, UnlinkSpares
  <2> QED
    BY <1>1, <1>3, <2>1, <2>2 DEF k
<1> QED
  BY <1>2, <1>3

(* A write of one entry, at its place.                                     *)
LEMMA SetSpares ==
  ASSUME NEW v, Good(v), NEW i \in 1..Len(v.files), NEW w, w.header = v.header,
         \A k \in 1..Len(v.files) : k # i => w.slot[k] = v.slot[k]
  PROVE  Spares(v, w, {v.files[i].name})
<1> SUFFICES ASSUME NEW k \in 1..v.header, v.slot[k].name # v.files[i].name
             PROVE  \E j \in 1..w.header : w.slot[j] = v.slot[k]
  BY DEF Spares
<1>1. v.slot[i].name = v.files[i].name /\ k \in 1..Len(v.files)
  BY EntryFacts
<1>2. k # i
  BY <1>1
<1> QED
  BY <1>1, <1>2

-----------------------------------------------------------------------------
(* rename().                                                               *)

Renamed(d, n) == [d EXCEPT !.name = n]

NameMoved(v, w, old, new) ==
  /\ \E i \in 1..v.header, j \in 1..w.header :
       v.slot[i].name = old /\ w.slot[j] = Renamed(v.slot[i], new)
  /\ \A j \in 1..w.header : w.slot[j].name # old

(* The entry of old has the name new, and is otherwise what it was; every  *)
(* other entry is there.                                                   *)
LEMMA RenameSpares ==
  ASSUME NEW v, Good(v), NEW old \in Names, NEW new \in Names, old # new,
         FileByName(v.files, old) # 0
  PROVE  LET w == Rename(v, old, new)
         IN  /\ Spares(v, w, {old, new})
             /\ NameMoved(v, w, old, new)
<1> DEFINE k == FileByName(v.files, new)
           u == Without(v, k)
           j == FileByName(u.files, old)
           f == u.files[j]
           e == [f EXCEPT !.name = new]
           w == WriteEntry([u EXCEPT !.files[j] = e], e)
<1>1. Rename(v, old, new) = IF j = 0 THEN WriteEntry(u, [v.files[FileByName(v.files, old)] EXCEPT !.name = new])
                            ELSE w
  BY DEF Rename, Without
<1>2. Good(u) /\ ~HasName(u.files, new) /\ HasName(u.files, old)
  <2>1. HasName(v.files, old)
    BY VolumeFacts, HasNameFacts DEF Good
  <2> QED
    BY <2>1, WithoutKeeps
<1>3. Spares(v, u, {new})
  BY WithoutSpares
<1> HIDE DEF u
<1>4. /\ u.files \in Seq(Entries) /\ Ordered(u.files) /\ Unique(u.files)
      /\ \A i \in 1..Len(u.files) : u.files[i] \in Entries /\ u.files[i].slot = i
      /\ Len(u.files) \in Nat /\ u.header = Len(u.files)
  BY <1>2, VolumeFacts, FilesFacts DEF Good, Agrees
<1>5. j \in 1..Len(u.files) /\ f.name = old
  BY <1>2, <1>4, ByNameFacts, HasNameFacts
<1> HIDE DEF j
<1>6. /\ f \in Entries /\ f.slot = j /\ f.first < f.last
      /\ f.last <= StartAt(u.files, j+1) + 1
  BY <1>4, <1>5 DEF Ordered
<1>7. u.slot[j] = OnDisk(f) /\ \A i \in 1..Len(u.files) : u.slot[i].name = u.files[i].name
  BY <1>2, <1>5, EntryFacts
<1> HIDE DEF f
<1>8. /\ e \in Entries /\ e.first = f.first /\ e.max = f.max
      /\ e.slot = j /\ e.last = f.last /\ e.name = new
      /\ OnDisk(e) = Renamed(OnDisk(f), new)
  BY <1>6 DEF Entries, OnDisk, Renamed
<1>9. \A i \in 1..Len(u.files) : i # j => u.files[i].name # e.name
  BY <1>2, <1>8 DEF HasName
<1> HIDE DEF e
<1>10. w.header = u.header /\ w.slot = [u.slot EXCEPT ![j] = OnDisk(e)]
  <2>1. w = [files |-> [u.files EXCEPT ![j] = e], header |-> u.header,
             slot |-> [u.slot EXCEPT ![j] = OnDisk(e)]]
    <3>1. /\ e.first = u.files[j].first /\ e.max = u.files[j].max /\ e.first < e.last
          /\ e.last <= StartAt(u.files, j+1) + 1
      BY <1>6, <1>8 DEF f
    <3> QED
      BY <1>2, <1>5, <1>8, <1>9, <3>1, SetKeeps
  <2> HIDE DEF w
  <2> QED
    BY <2>1
<1> HIDE DEF w
<1>11. /\ Spares(u, w, {old}) /\ w.slot[j] = OnDisk(e)
       /\ \A i \in 1..Len(u.files) : i # j => w.slot[i] = u.slot[i]
  <2>1. u.files[j].name = old
    BY <1>5 DEF f
  <2> DEFINE d == OnDisk(e)
             dir == w.slot
             before == u.slot
  <2>2. dir = [before EXCEPT ![j] = d]
    BY <1>10
  <2>3. before \in [Slots -> EntriesOnDisk] /\ \A i \in 1..Len(u.files) : i \in Slots
    BY <1>2, VolumeFacts, EntryFacts DEF Good
  <2> HIDE DEF d, dir, before
  <2>4. dir[j] = d /\ \A i \in 1..Len(u.files) : i # j => dir[i] = before[i]
    BY <1>5, <2>2, <2>3
  <2>5. \A i \in 1..Len(u.files) : i # j => w.slot[i] = u.slot[i]
    BY <2>4 DEF dir, before
  <2>6. Spares(u, w, {u.files[j].name})
    BY <1>2, <1>5, <1>10, <2>5, SetSpares
  <2> QED
    BY <2>1, <2>4, <2>5, <2>6 DEF d, dir
<1>12. Spares(v, w, {old, new})
  <2>1. Spares(v, w, {new} \union {old})
    BY <1>3, <1>11, SparesTwice
  <2>2. {new} \union {old} = {old, new}
    OBVIOUS
  <2> QED
    BY <2>1, <2>2
<1>13. \A i \in 1..w.header : w.slot[i].name # old
  <2> SUFFICES ASSUME NEW i \in 1..Len(u.files) PROVE w.slot[i].name # old
    BY <1>4, <1>10
  <2>1. CASE i = j
    BY <1>8, <1>11, <2>1 DEF OnDisk
  <2>2. CASE i # j
    <3>1. u.files[i].name # old
      BY <1>4, <1>5, <2>2 DEF Unique, f
    <3> QED
      BY <1>7, <1>11, <2>2, <3>1
  <2> QED
    BY <2>1, <2>2
<1>14. PICK i \in 1..v.header : v.slot[i].name = old /\ u.slot[j] = v.slot[i]
  <2>1. PICK i \in 1..Len(v.files) : v.files[i].name = old
    <3>1. HasName(v.files, old)
      BY VolumeFacts, HasNameFacts DEF Good
    <3> QED
      BY <3>1 DEF HasName
  <2>2. v.slot[i].name = old /\ i \in 1..v.header
    BY <2>1, EntryFacts
  <2>3. PICK a \in 1..u.header : u.slot[a] = v.slot[i]
    BY <1>3, <2>2 DEF Spares
  <2>4. u.files[a].name = old /\ a \in 1..Len(u.files)
    BY <1>4, <1>7, <2>2, <2>3
  <2>5. a = j
    BY <1>4, <1>5, <2>4 DEF Unique, f
  <2> QED
    BY <2>2, <2>3, <2>5
<1>15. w.slot[j] = Renamed(v.slot[i], new)
  BY <1>7, <1>8, <1>11, <1>14
<1>16. j \in 1..w.header /\ j # 0
  BY <1>4, <1>5, <1>10
<1>17. Rename(v, old, new) = w
  BY <1>1, <1>16 DEF w
<1>18. NameMoved(v, w, old, new)
  BY <1>13, <1>14, <1>15, <1>16 DEF NameMoved
<1> QED
  BY <1>12, <1>17, <1>18

-----------------------------------------------------------------------------
(* Whose blocks a command writes.                                          *)

LEMMA StartsGrow ==
  ASSUME NEW v, Good(v), NEW i \in 1..Len(v.files)+1, NEW j \in 1..Len(v.files)+1, i <= j
  PROVE  StartAt(v.files, i) <= StartAt(v.files, j)
<1> DEFINE fs == v.files
           n == Len(fs)
           Bad == {k \in 0..j-1 : ~(StartAt(fs, j - k) <= StartAt(fs, j))}
<1>1. fs \in Seq(Entries) /\ n \in Nat /\ Ordered(fs)
  BY VolumeFacts, FilesFacts DEF Good
<1>2. \A k \in 1..n : StartAt(fs, k) \in Nat /\ StartAt(fs, k+1) \in Nat
                     /\ StartAt(fs, k) < StartAt(fs, k+1)
  <2> TAKE k \in 1..n
  <2>1. StartAt(fs, k+1) \in Nat /\ StartAt(fs, k) = fs[k].first
    BY <1>1, StartFacts
  <2>2. fs[k].first \in Nat /\ fs[k].first < StartAt(fs, k+1)
    BY <1>1, FilesFacts DEF Ordered
  <2> QED
    BY <2>1, <2>2
<1>3. StartAt(fs, j) \in Nat
  BY BeforeFacts
<1> HIDE DEF fs
<1>4. n \in Nat /\ j \in 1..n+1 /\ i \in 1..n+1
  BY <1>1 DEF fs
<1> HIDE DEF n
<1>5. SUFFICES ASSUME Bad # {} PROVE FALSE
  <2>1. j - i \in 0..j-1 /\ j - (j - i) = i
    BY <1>4
  <2> QED
    BY <1>5, <2>1 DEF fs
<1>6. Bad \subseteq Nat
  BY <1>4
<1> DEFINE m == Min(Bad)
<1>7. m \in Bad /\ \A k \in Bad : m <= k
  BY <1>5, <1>6, MinFacts
<1> HIDE DEF m
<1>8. m \in 1..j-1
  <2>1. m # 0
    <3>1. j - 0 = j /\ StartAt(fs, j) <= StartAt(fs, j)
      BY <1>3, <1>4
    <3> QED
      BY <1>7, <3>1
  <2> QED
    BY <1>4, <1>7, <2>1
<1>9. m - 1 \in 0..j-1 /\ m - 1 \notin Bad
  <2>1. m - 1 \in 0..j-1 /\ ~(m <= m - 1)
    BY <1>4, <1>8
  <2> HIDE DEF Bad
  <2> QED
    BY <1>7, <2>1
<1>10. j - m \in 1..n /\ j - (m - 1) = j - m + 1
  BY <1>4, <1>8
<1>11. StartAt(fs, j - m + 1) <= StartAt(fs, j)
  BY <1>9, <1>10
<1> QED
  BY <1>2, <1>3, <1>7, <1>10, <1>11

(* The blocks b of a file that has the room for them are no other file's,  *)
(* if no other file runs into the next.                                    *)
LEMMA BlocksAreOwn ==
  ASSUME NEW v, Good(v), NEW j \in 1..Len(v.files), NEW i \in 1..Len(v.files), i # j,
         \A k \in 1..Len(v.files) : k # j => v.files[k].last <= StartAt(v.files, k+1),
         NEW blocks \in Nat, blocks * BlockSize <= v.files[j].max,
         NEW b \in Nat, v.files[i].first <= b, b < v.files[i].last
  PROVE  ~(v.files[j].first <= b /\ b < v.files[j].first + blocks)
<1> DEFINE fs == v.files
<1>1. /\ fs \in Seq(Entries) /\ Len(fs) \in Nat /\ Room(fs)
      /\ fs[i].first \in Nat /\ fs[i].last \in Nat /\ fs[j].first \in Nat
  BY VolumeFacts, FilesFacts DEF Good
<1>2. /\ i \in 1..Len(fs)+1 /\ j \in 1..Len(fs)+1
      /\ i + 1 \in 1..Len(fs)+1 /\ j + 1 \in 1..Len(fs)+1
  BY <1>1, SMTT(30)
<1>3. /\ StartAt(fs, i) = fs[i].first /\ StartAt(fs, i+1) \in Nat
      /\ StartAt(fs, j) = fs[j].first /\ StartAt(fs, j+1) \in Nat
  BY <1>1, StartFacts
<1>4. CASE i < j
  <2>1. i + 1 <= j
    BY <1>1, <1>4
  <2>2. StartAt(fs, i+1) <= StartAt(fs, j)
    BY <1>2, <2>1, StartsGrow
  <2>3. fs[i].last <= StartAt(fs, i+1)
    OBVIOUS
  <2> HIDE DEF fs
  <2>4. fs[i].last <= fs[j].first
    BY <1>1, <1>3, <2>2, <2>3, SMTT(30)
  <2> QED
    BY <1>1, <2>4, SMTT(30) DEF fs
<1>5. CASE j < i
  <2>1. j + 1 <= i
    BY <1>1, <1>5
  <2>2. StartAt(fs, j+1) <= StartAt(fs, i)
    BY <1>2, <2>1, StartsGrow
  <2>3. fs[j].max = (StartAt(fs, j+1) - fs[j].first) * BlockSize
    BY <1>1 DEF Room
  <2>4. blocks <= StartAt(fs, j+1) - fs[j].first
    <3> DEFINE r == StartAt(fs, j+1) - fs[j].first
    <3>1. r \in Int /\ blocks \in Int /\ blocks * BlockSize <= r * BlockSize
      BY <1>1, <1>3, <2>3, SMTT(30)
    <3> HIDE DEF r
    <3>2. /\ blocks * BlockSize \in Int /\ r * BlockSize \in Int
          /\ (r + 1) * BlockSize = r * BlockSize + BlockSize
          /\ blocks * BlockSize < (r + 1) * BlockSize => blocks <= r
      BY <3>1, MultipleFacts
    <3>3. blocks * BlockSize < (r + 1) * BlockSize
      BY <3>1, <3>2, VolumeAssumption
    <3> QED
      BY <3>2, <3>3 DEF r
  <2> HIDE DEF fs
  <2>5. fs[j].first + blocks <= fs[i].first
    BY <1>1, <1>3, <2>2, <2>4, SMTT(30)
  <2> QED
    BY <1>1, <2>5 DEF fs
<1> QED
  BY <1>1, <1>4, <1>5

-----------------------------------------------------------------------------
(* What the disk holds under a name.                                       *)

Blocks(d) == {b \in DataBlocks : d.first <= b /\ b < d.last}

LEMMA StoredIs ==
  ASSUME NEW h, NEW s, DiskIs(h, s), NEW i \in 1..h
  PROVE  Min({k \in 1..h : s[k].name = s[i].name}) = i
<1> DEFINE I == {k \in 1..h : s[k].name = s[i].name}
<1>1. h \in Nat
  BY VolumeAssumption DEF DiskIs
<1>2. I = {i} /\ i \in Nat
  BY <1>1 DEF DiskIs
<1> HIDE DEF I
<1>3. Min(I) \in I
  BY <1>2, MinFacts
<1> QED
  BY <1>2, <1>3 DEF I

(* The i-th file is left: its entry is at a slot, and its blocks are as    *)
(* they were.                                                              *)
Left(i) ==
  /\ \E j \in 1..header' : slot'[j] = slot[i]
  /\ \A b \in Blocks(slot[i]) : content'[b] = content[b]

LEMMA LeftIsStored ==
  ASSUME DiskIs(header, slot), DiskIs(header', slot'), NEW i \in 1..header, Left(i),
         NEW n, slot[i].name = n
  PROVE  n \in NamesOnDisk' /\ Stored(n)' = Stored(n)
<1>1. PICK j \in 1..header' : slot'[j] = slot[i]
  BY DEF Left
<1> DEFINE d == slot[i]
<1>2. n \in NamesOnDisk'
  BY <1>1 DEF NamesOnDisk
<1>3. Min({k \in 1..header : slot[k].name = n}) = i
  BY StoredIs
<1>4. Min({k \in 1..header' : slot'[k].name = n}) = j
  <2>1. Min({k \in 1..header' : slot'[k].name = slot'[j].name}) = j
    BY <1>1, StoredIs
  <2> QED
    BY <1>1, <2>1
<1>5. Stored(n) = [entry |-> d, data |-> [b \in Blocks(d) |-> content[b]]]
  BY <1>3 DEF Stored, Blocks
<1>6. Stored(n)' = [entry |-> d, data |-> [b \in Blocks(d) |-> content'[b]]]
  BY <1>1, <1>4 DEF Stored, Blocks
<1>7. [b \in Blocks(d) |-> content'[b]] = [b \in Blocks(d) |-> content[b]]
  BY DEF Left
<1> QED
  BY <1>2, <1>5, <1>6, <1>7

(* A step leaves every file but those its command names.                   *)
OthersLeft ==
  \A i \in 1..header : slot[i].name \notin command'.names => Left(i)

LEMMA OthersStored ==
  ASSUME IInv, IInv', OthersLeft
  PROVE  \A n \in NamesOnDisk \ command'.names :
           n \in NamesOnDisk' /\ Stored(n)' = Stored(n)
<1> SUFFICES ASSUME NEW n \in NamesOnDisk, n \notin command'.names
             PROVE  n \in NamesOnDisk' /\ Stored(n)' = Stored(n)
  OBVIOUS
<1>3. PICK i \in 1..header : slot[i].name = n
  BY DEF NamesOnDisk
<1>1. DiskIs(header, slot) /\ DiskIs(header', slot')
  BY DEF IInv
<1>2. Left(i)
  BY <1>3 DEF OthersLeft
<1> QED
  BY <1>1, <1>2, <1>3, LeftIsStored

LEMMA SameDiskLeaves ==
  ASSUME UNCHANGED <<header, slot, content>>
  PROVE  OthersLeft
BY DEF OthersLeft, Left

LEMMA SparesLeaves ==
  ASSUME NEW w, SetVolume(w), UNCHANGED content, Spares(Volume, w, command'.names)
  PROVE  OthersLeft
<1>1. header' = w.header /\ slot' = w.slot
  BY DEF SetVolume
<1>2. Volume.header = header /\ Volume.slot = slot
  BY DEF Volume
<1> QED
  BY <1>1, <1>2 DEF OthersLeft, Left, Spares

-----------------------------------------------------------------------------
(* rm and mv.                                                              *)

LEMMA RmLeaves ==
  ASSUME IInv, NEW n \in Names, Rm(n)
  PROVE  OthersLeft
<1> DEFINE i == FileByName(files, n)
           w == Unlink(Volume, i)
<1>1. /\ command.op \in {"open", "rm"} /\ i # 0 /\ SetVolume(w)
      /\ command' = [op |-> "rm", names |-> {n}] /\ content' = content
  BY DEF Rm, Starts
<1>2. Good(Volume) /\ Volume.files = files
  BY <1>1 DEF IInv, Running, Ops, Volume
<1>3. i \in 1..Len(Volume.files) /\ files[i].name = n
  BY <1>1, <1>2, ByNameFacts, VolumeFacts, FilesFacts DEF Good
<1> HIDE DEF i
<1>4. Spares(Volume, w, {n})
  BY <1>2, <1>3, UnlinkSpares
<1> HIDE DEF w
<1> QED
  BY <1>1, <1>4, SparesLeaves

LEMMA MvLeaves ==
  ASSUME IInv, NEW old \in Names, NEW new \in Names, old # new, Mv(old, new)
  PROVE  OthersLeft
<1> DEFINE w == Rename(Volume, old, new)
<1>1. /\ command.op = "open" /\ FileByName(files, old) # 0 /\ SetVolume(w)
      /\ command' = [op |-> "mv", names |-> {old, new}] /\ content' = content
  BY DEF Mv, Starts
<1>2. Good(Volume) /\ Volume.files = files
  BY <1>1, OpenedFacts
<1>3. Spares(Volume, w, {old, new})
  BY <1>1, <1>2, RenameSpares
<1> HIDE DEF w
<1> QED
  BY <1>1, <1>3, SparesLeaves

(* mv gives the new name what the old one had.                             *)
LEMMA MvMoves ==
  ASSUME IInv, IInv', NEW old \in Names, NEW new \in Names, old # new, Mv(old, new)
  PROVE  /\ old \in NamesOnDisk
         /\ NamesOnDisk' \intersect {old, new} = {new}
         /\ Stored(new)' = [Stored(old) EXCEPT !.entry.name = new]
<1> DEFINE w == Rename(Volume, old, new)
<1>1. /\ command.op = "open" /\ FileByName(files, old) # 0 /\ SetVolume(w)
      /\ content' = content
  BY DEF Mv, Starts
<1>2. /\ Good(Volume) /\ Volume.files = files /\ Volume.header = header
      /\ Volume.slot = slot
  BY <1>1, OpenedFacts
<1>3. /\ \A j \in 1..w.header : w.slot[j].name # old
      /\ \E i \in 1..Volume.header, j \in 1..w.header :
           Volume.slot[i].name = old /\ w.slot[j] = Renamed(Volume.slot[i], new)
  <2>1. Good(Volume) /\ FileByName(Volume.files, old) # 0
    BY <1>1, <1>2
  <2>2. NameMoved(Volume, w, old, new)
    BY <2>1, RenameSpares
  <2> QED
    BY <2>2 DEF NameMoved
<1> HIDE DEF w
<1>4. header' = w.header /\ slot' = w.slot
  BY <1>1 DEF SetVolume
<1>5. PICK i \in 1..header, j \in 1..header' :
        slot[i].name = old /\ slot'[j] = Renamed(slot[i], new)
  BY <1>2, <1>3, <1>4
<1>6. DiskIs(header, slot) /\ DiskIs(header', slot')
  BY DEF IInv
<1> DEFINE d == slot[i]
           e == slot'[j]
<1>7. d \in EntriesOnDisk
  BY <1>5, <1>6, VolumeAssumption DEF DiskIs, Slots
<1>8. /\ e = Renamed(d, new) /\ e.name = new /\ e.first = d.first /\ e.last = d.last
  <2> HIDE DEF d
  <2> QED
    BY <1>5, <1>7 DEF Renamed, EntriesOnDisk, d
<1>9. old \in NamesOnDisk
  BY <1>5 DEF NamesOnDisk
<1>10. NamesOnDisk' \intersect {old, new} = {new}
  <2>1. new \in NamesOnDisk'
    BY <1>5, <1>8 DEF NamesOnDisk
  <2>2. old \notin NamesOnDisk'
    BY <1>3, <1>4 DEF NamesOnDisk
  <2> QED
    BY <2>1, <2>2
<1>11. Min({k \in 1..header : slot[k].name = old}) = i
  <2>1. Min({k \in 1..header : slot[k].name = slot[i].name}) = i
    BY <1>5, <1>6, StoredIs
  <2> QED
    BY <1>5, <2>1
<1>12. Min({k \in 1..header' : slot'[k].name = new}) = j
  <2>1. Min({k \in 1..header' : slot'[k].name = slot'[j].name}) = j
    BY <1>5, <1>6, StoredIs
  <2> QED
    BY <1>8, <2>1
<1>13. Stored(old) = [entry |-> d, data |-> [b \in Blocks(d) |-> content[b]]]
  BY <1>11 DEF Stored, Blocks
<1>14. Stored(new)' = [entry |-> e, data |-> [b \in Blocks(d) |-> content[b]]]
  BY <1>1, <1>8, <1>12 DEF Stored, Blocks
<1>15. Stored(new)' = [Stored(old) EXCEPT !.entry.name = new]
  <2> DEFINE c == [b \in Blocks(d) |-> content[b]]
             r == [entry |-> d, data |-> c]
  <2>1. [r EXCEPT !.entry.name = new] = [entry |-> Renamed(d, new), data |-> c]
    <3> HIDE DEF c, d
    <3> QED
      BY DEF Renamed
  <2> QED
    BY <1>8, <1>13, <1>14, <2>1
<1> QED
  BY <1>9, <1>10, <1>15

-----------------------------------------------------------------------------
(* cp: the list without the destination.                                   *)

LEMMA UnlinkFields ==
  ASSUME NEW v, Good(v), NEW i \in 1..Len(v.files), NEW k \in 1..Len(v.files)-1
  PROVE  LET g == Unlink(v, i).files[k]
             f == v.files[IF k < i THEN k ELSE k + 1]
         IN  g.first = f.first /\ g.last = f.last
<1> DEFINE fs == v.files
           gs == Unlink(v, i).files
<1>1. /\ v \in Volumes /\ fs \in Seq(Entries) /\ Len(fs) \in Nat
      /\ \A j \in 1..Len(fs) : /\ fs[j] \in Entries /\ fs[j].slot = j
                                /\ fs[j].max \in Nat
  BY VolumeFacts, FilesFacts DEF Good, Agrees
<1>2. gs[k] = IF k + 1 = i THEN Widened(fs[k], fs[k].max + fs[i].max)
              ELSE IF k < i THEN fs[k] ELSE MovedTo(fs[k+1], k)
  <2>1. gs = FilesWithout(v, i)
    BY UnlinkFacts
  <2> HIDE DEF gs
  <2> QED
    BY <1>1, <2>1, WithoutFacts
<1>3. /\ k \in 1..Len(fs) /\ k + 1 \in 1..Len(fs) /\ k \in Nat
      /\ fs[k].max + fs[i].max \in Nat
  BY <1>1, SMTT(30)
<1>4. /\ Widened(fs[k], fs[k].max + fs[i].max).first = fs[k].first
      /\ Widened(fs[k], fs[k].max + fs[i].max).last = fs[k].last
      /\ MovedTo(fs[k+1], k).first = fs[k+1].first
      /\ MovedTo(fs[k+1], k).last = fs[k+1].last
  <2> HIDE DEF fs
  <2> QED
    BY <1>1, <1>3, WidenedFacts, MovedToFacts, ZenonT(60)
<1> HIDE DEF fs, gs
<1>5. CASE k < i
  BY <1>2, <1>4, <1>5 DEF fs, gs
<1>6. CASE ~(k < i)
  <2>1. k + 1 # i
    BY <1>3, <1>6
  <2> QED
    BY <1>2, <1>4, <1>6, <2>1 DEF fs, gs
<1> QED
  BY <1>5, <1>6

(* Where the places of the shorter list start and end.                     *)
LEMMA UnlinkPlaces ==
  ASSUME NEW v, Good(v), NEW i \in 1..Len(v.files), NEW k \in 1..Len(v.files)
  PROVE  LET gs == Unlink(v, i).files
         IN  /\ StartAt(gs, k) = StartAt(v.files, IF k < i THEN k ELSE k + 1)
             /\ EndBefore(gs, k) = EndBefore(v.files, IF k <= i THEN k ELSE k + 1)
<1> DEFINE fs == v.files
           gs == Unlink(v, i).files
           n == Len(fs)
<1>1. fs \in Seq(Entries) /\ n \in Nat
  BY VolumeFacts, FilesFacts DEF Good
<1>2. Len(gs) = n - 1
  BY UnlinkKeeps
<1>3. \A j \in 1..n-1 : /\ gs[j].first = fs[IF j < i THEN j ELSE j + 1].first
                        /\ gs[j].last = fs[IF j < i THEN j ELSE j + 1].last
  BY UnlinkFields
<1> HIDE DEF fs, gs
<1>4. i \in 1..n /\ k \in 1..n /\ Len(fs) = n
  BY DEF fs
<1> HIDE DEF n
<1>5. StartAt(gs, k) = StartAt(fs, IF k < i THEN k ELSE k + 1)
  <2>1. CASE k = n
    BY <1>1, <1>2, <1>4, <2>1 DEF StartAt
  <2>2. CASE k # n
    <3>1. k \in 1..n-1 /\ ~(k > Len(gs)) /\ ~(k > n) /\ ~(k + 1 > n)
      BY <1>1, <1>2, <1>4, <2>2
    <3> QED
      BY <1>3, <1>4, <3>1 DEF StartAt
  <2> QED
    BY <2>1, <2>2
<1>6. EndBefore(gs, k) = EndBefore(fs, IF k <= i THEN k ELSE k + 1)
  <2>1. CASE k = 1
    BY <1>1, <1>4, <2>1 DEF EndBefore
  <2>2. CASE k # 1
    <3>1. k - 1 \in 1..n-1 /\ k + 1 # 1 /\ k + 1 - 1 = k /\ k - 1 + 1 = k
          /\ (k - 1 < i <=> k <= i)
      BY <1>1, <1>4, <2>2
    <3>2. gs[k-1].last = fs[IF k <= i THEN k - 1 ELSE k].last
      BY <1>3, <3>1
    <3> QED
      BY <1>4, <2>2, <3>1, <3>2 DEF EndBefore
  <2> QED
    BY <2>1, <2>2
<1> QED
  BY <1>5, <1>6 DEF fs, gs

LEMMA UnlinkApart ==
  ASSUME NEW v, Good(v), Apart(v.files), NEW i \in 1..Len(v.files)
  PROVE  Apart(Unlink(v, i).files)
<1> DEFINE fs == v.files
           gs == Unlink(v, i).files
           n == Len(fs)
<1>1. /\ fs \in Seq(Entries) /\ n \in Nat /\ Ordered(fs)
      /\ \A j \in 1..n : fs[j].first \in Nat /\ fs[j].last \in Nat
  BY VolumeFacts, FilesFacts DEF Good
<1>2. Len(gs) = n - 1
  BY UnlinkKeeps
<1> SUFFICES ASSUME NEW k \in 1..n-1
             PROVE  gs[k].last <= StartAt(gs, k+1)
  BY <1>2 DEF Apart
<1>3. gs[k].last = fs[IF k < i THEN k ELSE k + 1].last
  BY UnlinkFields
<1>4. StartAt(gs, k+1) = StartAt(fs, IF k + 1 < i THEN k + 1 ELSE k + 2)
  <2>1. k + 1 \in 1..n /\ k + 1 + 1 = k + 2
    BY <1>1
  <2> QED
    BY <2>1, UnlinkPlaces
<1>5. /\ k \in 1..n /\ k + 1 \in 1..n /\ i \in 1..n /\ k + 1 + 1 = k + 2
  BY <1>1
<1>6. /\ fs[k].last <= StartAt(fs, k+1) /\ fs[k+1].last <= StartAt(fs, k+2)
      /\ StartAt(fs, k+1) = fs[k+1].first /\ fs[k+1].first < fs[k+1].last
      /\ StartAt(fs, k+2) \in Nat
  <2>1. StartAt(fs, k+1) = fs[k+1].first /\ StartAt(fs, k+1+1) \in Nat
    BY <1>1, <1>5, StartFacts
  <2>2. fs[k].last <= StartAt(fs, k+1) /\ fs[k+1].last <= StartAt(fs, k+1+1)
    BY <1>5 DEF Apart
  <2>3. fs[k+1].first < fs[k+1].last
    BY <1>1, <1>5 DEF Ordered
  <2> QED
    BY <1>5, <2>1, <2>2, <2>3
<1> HIDE DEF fs, gs, n
<1>7. /\ fs[k].first \in Nat /\ fs[k].last \in Nat /\ fs[k+1].first \in Nat
      /\ fs[k+1].last \in Nat
  BY <1>1, <1>5
<1>8. CASE k < i
  <2>1. gs[k].last = fs[k].last
    BY <1>3, <1>8
  <2>2. fs[k].last <= StartAt(fs, k+2)
    BY <1>6, <1>7
  <2> QED
    BY <1>4, <1>6, <2>1, <2>2
<1>9. CASE ~(k < i)
  <2>1. gs[k].last = fs[k+1].last
    BY <1>3, <1>9
  <2>2. ~(k + 1 < i)
    BY <1>1, <1>5, <1>9
  <2> QED
    BY <1>4, <1>6, <2>1, <2>2
<1> QED
  BY <1>8, <1>9

(* A place with room is still there, or part of a larger one.              *)
LEMMA UnlinkRoomy ==
  ASSUME NEW v, Good(v), Apart(v.files), NEW i \in 1..Len(v.files),
         NEW blocks \in Nat, NEW p \in 1..Len(v.files)+1,
         FreeBefore(v.files, p) >= blocks
  PROVE  Roomy(Unlink(v, i).files, blocks) # {}
<1> DEFINE fs == v.files
           gs == Unlink(v, i).files
           n == Len(fs)
           k == IF p <= i THEN p ELSE p - 1
<1>1. n \in Nat /\ fs \in Seq(Entries) /\ Ordered(fs)
  BY VolumeFacts, FilesFacts DEF Good
<1>2. Len(gs) = n - 1
  BY UnlinkKeeps
<1>3. k \in 1..n
  BY <1>1
<1>4. /\ StartAt(gs, k) = StartAt(fs, IF k < i THEN k ELSE k + 1)
      /\ EndBefore(gs, k) = EndBefore(fs, IF k <= i THEN k ELSE k + 1)
  <2> HIDE DEF k
  <2> QED
    BY <1>3, UnlinkPlaces
<1>5. /\ \A j \in 1..n+1 : EndBefore(fs, j) \in Nat /\ StartAt(fs, j) \in Nat
  BY BeforeFacts
<1>6. /\ EndBefore(fs, i) <= fs[i].first /\ fs[i].first < fs[i].last
      /\ EndBefore(fs, i+1) = fs[i].last /\ StartAt(fs, i) = fs[i].first
      /\ fs[i].first < StartAt(fs, i+1)
      /\ fs[i].first \in Nat /\ fs[i].last \in Nat
  <2>1. fs[i].first \in Nat /\ fs[i].last \in Nat /\ StartAt(fs, i) = fs[i].first
    BY <1>1, FilesFacts, StartFacts
  <2>2. /\ FirstData <= fs[i].first /\ fs[i].first < fs[i].last
        /\ fs[i].first < StartAt(fs, i+1)
    BY <1>1 DEF Ordered
  <2>3. EndBefore(fs, i+1) = fs[i].last
    <3>1. i + 1 # 1 /\ i + 1 - 1 = i
      OBVIOUS
    <3> QED
      BY <3>1 DEF EndBefore
  <2>4. EndBefore(fs, i) <= fs[i].first
    <3>1. CASE i = 1
      BY <2>2, <3>1 DEF EndBefore
    <3>2. CASE i # 1
      <4>1. i - 1 \in 1..n /\ i - 1 + 1 = i
        BY <1>1, <3>2
      <4>2. fs[i-1].last <= StartAt(fs, i-1+1)
        BY <4>1 DEF Apart
      <4> QED
        BY <2>1, <3>2, <4>1, <4>2 DEF EndBefore
    <3> QED
      BY <3>1, <3>2
  <2> QED
    BY <2>1, <2>2, <2>3, <2>4
<1>7. FreeBefore(fs, p) = StartAt(fs, p) - EndBefore(fs, p) /\ FreeBefore(fs, p) >= blocks
  BY DEF FreeBefore
<1> HIDE DEF fs, gs
<1>8. i \in 1..n /\ p \in 1..n+1 /\ i + 1 \in 1..n+1
  BY <1>1 DEF fs
<1> HIDE DEF n
<1>9. StartAt(gs, k) \in Nat /\ EndBefore(gs, k) \in Nat
      /\ StartAt(gs, k) - EndBefore(gs, k) >= blocks
  <2>1. CASE p < i
    <3>1. k = p /\ k < i /\ k <= i
      BY <1>1, <1>8, <2>1
    <3> QED
      BY <1>4, <1>5, <1>7, <1>8, <3>1
  <2>2. CASE p = i
    <3>1. k = i /\ ~(k < i) /\ k <= i
      BY <1>1, <1>8, <2>2
    <3>2. StartAt(gs, k) = StartAt(fs, i+1) /\ EndBefore(gs, k) = EndBefore(fs, i)
      BY <1>4, <3>1
    <3> QED
      BY <1>5, <1>6, <1>7, <1>8, <2>2, <3>2
  <2>3. CASE p = i + 1
    <3>1. k = i /\ ~(k < i) /\ k <= i
      BY <1>1, <1>8, <2>3
    <3>2. StartAt(gs, k) = StartAt(fs, i+1) /\ EndBefore(gs, k) = EndBefore(fs, i)
      BY <1>4, <3>1
    <3>3. FreeBefore(fs, p) = StartAt(fs, i+1) - fs[i].last
      BY <1>6, <1>7, <2>3
    <3>4. StartAt(fs, i+1) \in Nat /\ EndBefore(fs, i) \in Nat
      BY <1>1, <1>5, <1>8
    <3>5. StartAt(fs, i+1) - fs[i].last >= blocks
      BY <1>7, <3>3
    <3>6. StartAt(fs, i+1) - EndBefore(fs, i) >= blocks
      BY <1>6, <3>4, <3>5
    <3> QED
      BY <3>2, <3>4, <3>6
  <2>4. CASE p > i + 1
    <3>1. k + 1 = p /\ ~(k < i) /\ ~(k <= i)
      BY <1>1, <1>8, <2>4
    <3>2. StartAt(gs, k) = StartAt(fs, p) /\ EndBefore(gs, k) = EndBefore(fs, p)
      BY <1>4, <3>1
    <3> QED
      BY <1>5, <1>7, <1>8, <3>2
  <2> QED
    BY <1>1, <1>8, <2>1, <2>2, <2>3, <2>4
<1>10. k \in 1..Len(gs)+1
  <2>1. Len(gs) + 1 = n
    BY <1>1, <1>2
  <2> QED
    BY <1>3, <2>1
<1> QED
  BY <1>9, <1>10 DEF Roomy, Places, FreeBefore, gs

LEMMA MaxIsFree ==
  ASSUME NEW v, Good(v)
  PROVE  \E p \in 1..Len(v.files)+1 : FreeBefore(v.files, p) = MaxContiguousBlocks(v.files)
<1> DEFINE fs == v.files
           S == {FreeBefore(fs, i) : i \in Places(fs)}
           R == {LastVolumeBlock - FreeBefore(fs, i) : i \in Places(fs)}
<1>1. Len(fs) \in Nat /\ LastVolumeBlock \in Nat
  BY VolumeFacts, FilesFacts, VolumeAssumption DEF Good
<1>2. \A i \in Places(fs) :
        FreeBefore(fs, i) \in Int /\ LastVolumeBlock - FreeBefore(fs, i) \in Nat
  <2> TAKE i \in Places(fs)
  <2>1. i \in 1..Len(fs)+1
    BY DEF Places
  <2>2. EndBefore(fs, i) \in Nat /\ StartAt(fs, i) \in Nat
    BY <2>1, BeforeFacts
  <2>3. StartAt(fs, i) <= LastVolumeBlock
    BY <2>1, StartBounded
  <2> QED
    BY <1>1, <2>2, <2>3 DEF FreeBefore
<1>3. R \subseteq Nat /\ R # {}
  BY <1>1, <1>2 DEF Places
<1>4. Min(R) \in R /\ \A x \in R : Min(R) <= x
  BY <1>3, MinFacts
<1>5. PICK i \in Places(fs) : Min(R) = LastVolumeBlock - FreeBefore(fs, i)
  BY <1>4
<1>6. \A y \in S : FreeBefore(fs, i) >= y
  <2> SUFFICES ASSUME NEW j \in Places(fs)
               PROVE  FreeBefore(fs, i) >= FreeBefore(fs, j)
    OBVIOUS
  <2>1. LastVolumeBlock - FreeBefore(fs, i) <= LastVolumeBlock - FreeBefore(fs, j)
    BY <1>4, <1>5
  <2>2. FreeBefore(fs, i) \in Int /\ FreeBefore(fs, j) \in Int
    BY <1>2
  <2> HIDE DEF fs
  <2> QED
    BY <1>1, <2>1, <2>2
<1>7. Max(S) \in S
  BY <1>6 DEF Max
<1> QED
  BY <1>7 DEF MaxContiguousBlocks, Places

(* copy() gives up before it has unlinked anything: if it asks for more    *)
(* room than there is; or without a destination, if the directory is full. *)
LEMMA GivesUpEarly ==
  ASSUME NEW v, Good(v), Apart(v.files), NEW new \in Names, NEW blocks \in Nat \ {0},
         ~CanCopy(v, FileByName(v.files, new), new, blocks)
  PROVE  Prepared(v, FileByName(v.files, new), new, blocks) = v
<1> DEFINE k == FileByName(v.files, new)
           u == Without(v, k)
<1>1. k \in 0..Len(v.files) /\ Len(v.files) \in Nat /\ Len(v.files) <= MaxFiles
  BY VolumeFacts, FilesFacts, ByNameFacts DEF Good, Agrees
<1>2. ~HasName(u.files, new) /\ Good(u)
  BY WithoutKeeps
<1>3. MaxContiguousBlocks(v.files) \in Int
  BY MaxContiguousFacts
<1> SUFFICES ASSUME MaxContiguousBlocks(v.files) >= blocks, k # 0
             PROVE  CanCreate(u, new, blocks)
  BY <1>3 DEF CanCopy, Prepared, Without
<1>4. k \in 1..Len(v.files) /\ u = Unlink(v, k)
  BY <1>1 DEF Without
<1>5. FileByName(u.files, new) = 0
  BY <1>2, VolumeFacts, HasNameFacts DEF Good
<1> HIDE DEF k, u
<1>6. Len(u.files) < MaxFiles
  <2>1. Len(u.files) = Len(v.files) - 1
    BY <1>4, UnlinkKeeps
  <2> QED
    BY <1>1, <2>1, VolumeAssumption
<1>7. PICK p \in 1..Len(v.files)+1 : FreeBefore(v.files, p) >= blocks
  BY MaxIsFree
<1>8. Roomy(u.files, blocks) # {}
  BY <1>4, <1>7, UnlinkRoomy
<1> QED
  BY <1>5, <1>6, <1>8 DEF CanCreate

(* The destination has the room; no file runs into another.                *)
LEMMA PreparedFacts ==
  ASSUME NEW v, Good(v), Apart(v.files), NEW new \in Names, NEW blocks \in Nat \ {0},
         CanCopy(v, FileByName(v.files, new), new, blocks)
  PROVE  LET w == Prepared(v, FileByName(v.files, new), new, blocks)
             j == FileByName(w.files, new)
         IN  /\ Good(w) /\ Apart(w.files) /\ Spares(v, w, {new})
             /\ j \in 1..Len(w.files) /\ w.files[j].name = new
             /\ blocks * BlockSize <= w.files[j].max
<1> DEFINE k == FileByName(v.files, new)
           w == Prepared(v, k, new, blocks)
           j == FileByName(w.files, new)
           u == Without(v, k)
<1>1. Good(w) /\ HasName(w.files, new)
  BY PreparedKeeps
<1>2. w.files \in Seq(Entries) /\ Unique(w.files)
  BY <1>1, VolumeFacts DEF Good
<1>3. j \in 1..Len(w.files) /\ w.files[j].name = new
  <2> HIDE DEF w
  <2>1. j # 0
    BY <1>1, <1>2, HasNameFacts
  <2>2. j \in 0..Len(w.files) /\ Len(w.files) \in Nat /\ w.files[j].name = new
    BY <1>2, <2>1, ByNameFacts, FilesFacts
  <2> QED
    BY <2>1, <2>2
<1>4. blocks * BlockSize \in Nat
  BY RoomNat
<1>5. CASE Fits(v, k, blocks)
  <2>1. w = v
    BY <1>5 DEF Prepared
  <2>2. blocks * BlockSize <= v.files[k].max
    <3>1. k \in 1..Len(v.files)
      BY <1>3, <2>1
    <3>2. v.files[k].max \in Nat
      BY <1>2, <2>1, <3>1, FilesFacts
    <3> QED
      BY <1>4, <1>5, <3>2 DEF Fits
  <2> QED
    BY <1>1, <1>3, <2>1, <2>2, SparesSame
<1>6. CASE ~Fits(v, k, blocks)
  <2>1. MaxContiguousBlocks(v.files) >= blocks /\ CanCreate(u, new, blocks)
    BY <1>6 DEF CanCopy
  <2>2. w = Create(u, new, blocks)
    <3>1. ~(MaxContiguousBlocks(v.files) < blocks)
      BY <2>1, MaxContiguousFacts
    <3> QED
      BY <1>6, <2>1, <3>1 DEF Prepared
  <2>3. Good(u) /\ Spares(v, u, {new})
    BY WithoutKeeps, WithoutSpares
  <2>4. Apart(u.files)
    <3>1. CASE k = 0
      BY <3>1 DEF Without
    <3>2. CASE k # 0
      <4>1. k \in 1..Len(v.files) /\ u = Unlink(v, k)
        BY <3>2, ByNameFacts, VolumeFacts, FilesFacts DEF Without, Good
      <4> HIDE DEF k, u
      <4> QED
        BY <4>1, UnlinkApart
    <3> QED
      BY <3>1, <3>2
  <2> HIDE DEF u
  <2> DEFINE i == PlaceFor(u, blocks)
             gs == Create(u, new, blocks).files
  <2>5. /\ Len(gs) = Len(u.files) + 1 /\ i \in 1..Len(gs)
        /\ gs[i] = Created(u.files, i, new)
        /\ FreeBefore(u.files, i) >= blocks /\ Apart(gs)
    BY <2>1, <2>3, <2>4, CreateKeeps
  <2>6. Spares(v, w, {new})
    <3>1. Spares(u, w, {})
      BY <2>1, <2>2, <2>3, CreateSpares
    <3>2. Spares(v, w, {new} \union {})
      BY <2>3, <3>1, SparesTwice
    <3>3. {new} \union {} = {new}
      OBVIOUS
    <3> QED
      BY <3>2, <3>3
  <2>7. gs[i].name = new /\ gs[i].max = FreeBefore(u.files, i) * BlockSize
    BY <2>5 DEF Created
  <2>8. blocks * BlockSize <= FreeBefore(u.files, i) * BlockSize
    <3>1. FreeBefore(u.files, i) \in Int
      BY <2>3, <2>5, BeforeFacts DEF FreeBefore
    <3> HIDE DEF i
    <3> QED
      BY <2>5, <3>1, MultipleFacts
  <2>9. w.files = gs
    BY <2>2
  <2> HIDE DEF i, gs, w
  <2>10. i = j
    BY <1>2, <1>3, <2>5, <2>7, <2>9 DEF Unique
  <2> HIDE DEF j
  <2> QED
    BY <1>1, <1>3, <2>5, <2>6, <2>7, <2>8, <2>9, <2>10 DEF w, j
<1> QED
  BY <1>5, <1>6

LEMMA CpLeaves ==
  ASSUME IInv, NEW old \in Names, NEW new \in Names, Cp(old, new)
  PROVE  OthersLeft
<1> DEFINE e == files[FileByName(files, old)]
           k == FileByName(files, new)
           blocks == BlocksOf(e)
           v == Prepared(Volume, k, new, blocks)
           w == CopyInto(v, new, e)
           j == FileByName(v.files, new)
           to == w.files[FileByName(w.files, new)].first
<1>1. command.op = "open" /\ FileByName(files, old) # 0
  BY DEF Cp
<1>2. /\ Good(Volume) /\ Volume.files = files /\ Apart(Volume.files)
      /\ Volume.header = header /\ Volume.slot = slot
  BY <1>1, OpenedFacts
<1>3. e \in Entries /\ blocks \in Nat \ {0}
  BY <1>1, SourceFacts
<1>4. k = FileByName(Volume.files, new)
  BY <1>2
<1>5. CASE ~CanCopy(Volume, k, new, blocks)
  <2>1. SetVolume(v) /\ content' = content
    BY <1>5 DEF Cp
  <2> HIDE DEF blocks
  <2>2. v = Volume
    BY <1>2, <1>3, <1>4, <1>5, GivesUpEarly
  <2> HIDE DEF v
  <2>3. header' = header /\ slot' = slot
    BY <1>2, <2>1, <2>2 DEF SetVolume
  <2> QED
    BY <2>1, <2>3, SameDiskLeaves
<1>6. CASE CanCopy(Volume, k, new, blocks)
  <2>1. /\ SetVolume(w) /\ content' = CopyBlocks(content, e.first, to, blocks)
        /\ command' = [op |-> "cp", names |-> {new}]
    BY <1>6 DEF Cp, Starts
  <2>2. BlocksOf(e) \in Nat
    BY <1>3
  <2> HIDE DEF e, blocks
  <2>3. /\ Good(v) /\ Apart(v.files) /\ Spares(Volume, v, {new})
        /\ j \in 1..Len(v.files) /\ v.files[j].name = new
        /\ blocks * BlockSize <= v.files[j].max
    <3> DEFINE p == Prepared(Volume, FileByName(Volume.files, new), new, blocks)
               q == FileByName(p.files, new)
    <3>1. CanCopy(Volume, FileByName(Volume.files, new), new, blocks) /\ v = p
      BY <1>4, <1>6
    <3>2. /\ Good(p) /\ Apart(p.files) /\ Spares(Volume, p, {new})
          /\ q \in 1..Len(p.files) /\ p.files[q].name = new
          /\ blocks * BlockSize <= p.files[q].max
      BY <1>2, <1>3, <3>1, PreparedFacts
    <3> HIDE DEF p, v
    <3> QED
      BY <3>1, <3>2
  <2> HIDE DEF v
  <2>4. HasName(v.files, new)
    BY <2>3 DEF HasName
  <2>5. /\ w.files \in Seq(Entries) /\ Len(w.files) = Len(v.files)
        /\ w.header = v.header /\ w.slot = v.slot
        /\ \A a \in 1..Len(w.files) : /\ w.files[a].first = v.files[a].first
                                      /\ w.files[a].name = v.files[a].name
    BY <1>3, <2>2, <2>3, <2>4, CopyIntoFacts
  <2> HIDE DEF w, j
  <2>6. to = v.files[j].first
    <3> DEFINE a == FileByName(w.files, new)
    <3>1. HasName(w.files, new)
      BY <2>3, <2>5 DEF HasName
    <3>2. a \in 1..Len(w.files) /\ w.files[a].name = new
      BY <2>5, <3>1, ByNameFacts, HasNameFacts
    <3> HIDE DEF a
    <3>3. a = j
      BY <2>3, <2>5, <3>2 DEF Unique, Good
    <3> QED
      BY <2>5, <3>2, <3>3 DEF a
  <2> HIDE DEF to
  <2>7. header' = v.header /\ slot' = v.slot
    BY <2>1, <2>5 DEF SetVolume
  <2> SUFFICES ASSUME NEW i \in 1..header, slot[i].name # new
               PROVE  Left(i)
    BY <2>1 DEF OthersLeft
  <2>8. PICK a \in 1..v.header : v.slot[a] = slot[i]
    BY <1>2, <2>3 DEF Spares
  <2>9. /\ a \in 1..Len(v.files) /\ v.files[a].name = slot[i].name
        /\ v.files[a].first = slot[i].first /\ v.files[a].last = slot[i].last
    <3>1. a \in 1..Len(v.files)
      BY <2>3, <2>8 DEF Good, Agrees
    <3> QED
      BY <2>3, <2>8, <3>1, EntryFacts
  <2>10. a # j
    BY <2>3, <2>9
  <2>11. ASSUME NEW b \in Blocks(slot[i])
         PROVE  content'[b] = content[b]
    <3>1. b \in DataBlocks /\ b \in Nat /\ v.files[a].first <= b /\ b < v.files[a].last
      BY <2>9, VolumeAssumption DEF Blocks, DataBlocks
    <3>2. ~(v.files[j].first <= b /\ b < v.files[j].first + blocks)
      <4>1. \A c \in 1..Len(v.files) : c # j => v.files[c].last <= StartAt(v.files, c+1)
        BY <2>3 DEF Apart
      <4> QED
        BY <1>3, <2>3, <2>9, <2>10, <3>1, <4>1, BlocksAreOwn
    <3> QED
      BY <2>1, <2>6, <3>1, <3>2 DEF CopyBlocks
  <2> QED
    BY <2>7, <2>8, <2>11 DEF Left
<1> QED
  BY <1>5, <1>6

-----------------------------------------------------------------------------
(* put.                                                                    *)

(* The file a put writes is the one it names.                              *)
PutNamed == command.op = "put" => files[put.at].name \in command.names

LEMMA UpdateFacts ==
  ASSUME IInv, command.op = "put", NEW e, e.slot = files[put.at].slot, Update(e)
  PROVE  /\ put.at \in 1..Len(Volume.files) /\ Good(Volume) /\ files \in Seq(Entries)
         /\ Volume.files = files /\ Volume.header = header /\ Volume.slot = slot
         /\ files' = [files EXCEPT ![put.at] = e]
         /\ header' = header
         /\ \A k \in 1..Len(Volume.files) : k # put.at => slot'[k] = slot[k]
<1>1. /\ Good(Volume) /\ Writing(files, put, content)
      /\ Volume.files = files /\ Volume.header = header /\ Volume.slot = slot
  BY DEF IInv, Running, Ops, Volume, Putting
<1>2. put.at \in 1..Len(files) /\ files[put.at].slot = put.at
  BY <1>1 DEF Writing, Good, Agrees
<1>3. files \in Seq(Entries) /\ slot \in [Slots -> EntriesOnDisk]
  BY <1>1, VolumeFacts DEF Good
<1> DEFINE d == OnDisk(e)
<1>4. /\ files' = [files EXCEPT ![put.at] = e] /\ header' = header
      /\ slot' = [slot EXCEPT ![put.at] = d]
  BY <1>2 DEF Update, SetVolume, WriteEntry, Volume
<1>5. \A k \in 1..Len(Volume.files) : k \in Slots
  BY <1>1, EntryFacts
<1> HIDE DEF d
<1>6. \A k \in 1..Len(Volume.files) : k # put.at => slot'[k] = slot[k]
  BY <1>3, <1>4, <1>5
<1> QED
  BY <1>1, <1>2, <1>3, <1>4, <1>6

(* A call of a put writes its own entry, and blocks it has the room for.   *)
LEMMA PutLeaves ==
  ASSUME IInv, PutNamed, command.op = "put", command' = command,
         NEW e, e.slot = files[put.at].slot, Update(e),
         NEW blocks \in Nat, blocks * BlockSize <= files[put.at].max,
         \A b \in DataBlocks :
           ~(files[put.at].first <= b /\ b < files[put.at].first + blocks)
             => content'[b] = content[b]
  PROVE  OthersLeft
<1> DEFINE j == put.at
<1>1. /\ j \in 1..Len(Volume.files) /\ Good(Volume)
      /\ Volume.files = files /\ Volume.header = header /\ Volume.slot = slot
      /\ header' = header
      /\ \A k \in 1..Len(Volume.files) : k # j => slot'[k] = slot[k]
  BY UpdateFacts
<1>2. header = Len(Volume.files)
  BY <1>1, EntryFacts
<1> SUFFICES ASSUME NEW i \in 1..header, slot[i].name \notin command.names
             PROVE  Left(i)
  BY DEF OthersLeft
<1>3. /\ i \in 1..Len(Volume.files) /\ slot[i].name = files[i].name
      /\ slot[i].first = files[i].first /\ slot[i].last = files[i].last
  BY <1>1, <1>2, EntryFacts
<1>4. i # j
  BY <1>3 DEF PutNamed
<1>5. ASSUME NEW b \in Blocks(slot[i])
      PROVE  content'[b] = content[b]
  <2>1. b \in DataBlocks /\ b \in Nat /\ files[i].first <= b /\ b < files[i].last
    BY <1>3, VolumeAssumption DEF Blocks, DataBlocks
  <2>2. \A k \in 1..Len(Volume.files) :
          k # j => Volume.files[k].last <= StartAt(Volume.files, k+1)
    BY <1>1 DEF IInv, Putting, Writing
  <2>3. /\ blocks * BlockSize <= Volume.files[j].max
        /\ Volume.files[i].first <= b /\ b < Volume.files[i].last
    BY <1>1, <2>1
  <2>4. ~(Volume.files[j].first <= b /\ b < Volume.files[j].first + blocks)
    BY <1>1, <1>3, <1>4, <2>1, <2>2, <2>3, BlocksAreOwn
  <2> QED
    BY <1>1, <2>1, <2>4
<1> QED
  BY <1>1, <1>3, <1>4, <1>5, <1>2 DEF Left

LEMMA PutStaysNamed ==
  ASSUME IInv, PutNamed, command.op = "put", command' = command,
         NEW e, e.slot = files[put.at].slot, e.name = files[put.at].name, Update(e),
         put'.at = put.at
  PROVE  PutNamed'
<1>1. /\ put.at \in 1..Len(files) /\ files \in Seq(Entries)
      /\ files' = [files EXCEPT ![put.at] = e]
  BY UpdateFacts
<1>2. files'[put.at] = e
  BY <1>1, FilesFacts
<1> QED
  BY <1>2 DEF PutNamed

LEMMA SetFileSizeKeeps ==
  ASSUME NEW f \in Entries, NEW x
  PROVE  SetFileSize(f, x).slot = f.slot /\ SetFileSize(f, x).name = f.name
BY DEF SetFileSize, Entries

LEMMA SetFileKindLeaves ==
  ASSUME IInv, PutNamed, SetFileKind
  PROVE  OthersLeft /\ PutNamed'
<1> DEFINE f == files[put.at]
           e == [f EXCEPT !.kind = put.kind]
<1>1. /\ command.op = "put" /\ Update(e) /\ put' = [put EXCEPT !.set = TRUE]
      /\ content' = content /\ command' = command
  BY DEF SetFileKind
<1>2. f \in Entries /\ f.max \in Nat /\ put \in PutTypes
  BY <1>1, PutFile DEF Entries
<1>3. e.slot = f.slot /\ e.name = f.name
  BY <1>2 DEF Entries
<1>4. put'.at = put.at
  BY <1>1, <1>2 DEF PutTypes
<1>5. 0 \in Nat /\ 0 * BlockSize <= f.max
  BY <1>2, VolumeAssumption
<1> HIDE DEF e
<1> QED
  BY <1>1, <1>3, <1>4, <1>5, PutLeaves, PutStaysNamed

LEMMA WriteLeaves ==
  ASSUME IInv, PutNamed, Write
  PROVE  OthersLeft /\ PutNamed'
<1> DEFINE f == files[put.at]
           size == DataFileSize(f)
           e == IF NextSize > size THEN SetFileSize(f, NextSize) ELSE f
           q == put.offset \div BlockSize
           cell == f.first + q
<1>1. /\ command.op = "put" /\ put.offset < put.size
      /\ content' = [content EXCEPT ![cell] = put.data]
      /\ Update(e) /\ put' = [put EXCEPT !.offset = @ + NextCount]
      /\ command' = command
  BY DEF Write, WriteData
<1>2. /\ Writing(files, put, content) /\ put \in PutTypes /\ Types
      /\ f \in Entries /\ f.first \in Nat
  BY <1>1, PutFile
<1>3. put'.at = put.at /\ put.offset \in Nat /\ put.size \in Nat
  BY <1>1, <1>2 DEF PutTypes
<1>4. e.slot = f.slot /\ e.name = f.name
  <2> HIDE DEF f, size
  <2> QED
    BY <1>2, SetFileSizeKeeps
<1>5. PICK n \in Nat : put.size <= n * BlockSize /\ n * BlockSize <= f.max
  BY <1>2 DEF Writing, HasRoom
<1>6. q \in Nat /\ q < n
  <2>1. /\ q \in Nat /\ put.offset % BlockSize \in 0..BlockSize-1
        /\ put.offset = q * BlockSize + (put.offset % BlockSize)
    BY <1>3, DivideFacts, VolumeAssumption
  <2> HIDE DEF q
  <2>2. /\ q * BlockSize \in Nat /\ n * BlockSize \in Nat
        /\ n - 1 \in Int /\ n - 1 + 1 = n
    BY <2>1, RoomNat
  <2>3. q * BlockSize < n * BlockSize
    BY <1>1, <1>3, <1>5, <2>1, <2>2, VolumeAssumption
  <2>4. q <= n - 1
    BY <2>1, <2>2, <2>3, MultipleFacts
  <2> QED
    BY <2>1, <2>4
<1>7. content \in [DataBlocks -> Data]
  BY <1>2 DEF Types
<1> HIDE DEF e, q
<1>8. \A b \in DataBlocks : ~(f.first <= b /\ b < f.first + n) => content'[b] = content[b]
  <2> SUFFICES ASSUME NEW b \in DataBlocks, ~(f.first <= b /\ b < f.first + n)
               PROVE  content'[b] = content[b]
    OBVIOUS
  <2>1. b # cell
    BY <1>2, <1>6
  <2> HIDE DEF cell
  <2> QED
    BY <1>1, <1>7, <2>1
<1> HIDE DEF f
<1> QED
  BY <1>1, <1>3, <1>4, <1>5, <1>8, PutLeaves, PutStaysNamed DEF f

LEMMA WriteTextLeaves ==
  ASSUME IInv, PutNamed, WriteText
  PROVE  OthersLeft /\ PutNamed'
<1> DEFINE f == files[put.at]
           e == SetFileSize(f, put.size)
           q == put.size \div BlockSize
<1>1. /\ command.op = "put"
      /\ content' = [b \in DataBlocks |-> IF f.first <= b /\ b < f.first + q
                                            THEN put.data ELSE content[b]]
      /\ Update(e) /\ put' = [put EXCEPT !.offset = put.size]
      /\ command' = command
  BY DEF WriteText
<1>2. /\ Writing(files, put, content) /\ put \in PutTypes
      /\ f \in Entries /\ f.first \in Nat
  BY <1>1, PutFile
<1>3. put'.at = put.at /\ put.size \in Nat
  BY <1>1, <1>2 DEF PutTypes
<1>4. e.slot = f.slot /\ e.name = f.name
  <2> HIDE DEF f
  <2> QED
    BY <1>2, SetFileSizeKeeps
<1>5. PICK n \in Nat : put.size <= n * BlockSize /\ n * BlockSize <= f.max
  BY <1>2 DEF Writing, HasRoom
<1>6. q \in Nat /\ q <= n
  <2>1. /\ q \in Nat /\ put.size % BlockSize \in 0..BlockSize-1
        /\ put.size = q * BlockSize + (put.size % BlockSize)
    BY <1>3, DivideFacts, VolumeAssumption
  <2> HIDE DEF q
  <2>2. /\ q * BlockSize \in Nat /\ n * BlockSize \in Nat
        /\ (n + 1) * BlockSize = n * BlockSize + BlockSize
    <3>1. q * BlockSize \in Nat /\ n * BlockSize \in Nat
      BY <2>1, RoomNat
    <3>2. n \in Int /\ (n + 1) * BlockSize = n * BlockSize + BlockSize
      BY MultipleFacts
    <3> QED
      BY <3>1, <3>2
  <2>3. q * BlockSize < (n + 1) * BlockSize
    BY <1>3, <1>5, <2>1, <2>2, VolumeAssumption
  <2> QED
    BY <2>1, <2>3, MultipleFacts
<1> HIDE DEF e, q
<1>7. \A b \in DataBlocks : ~(f.first <= b /\ b < f.first + n) => content'[b] = content[b]
  <2> SUFFICES ASSUME NEW b \in DataBlocks, ~(f.first <= b /\ b < f.first + n)
               PROVE  content'[b] = content[b]
    OBVIOUS
  <2>1. b \in Nat
    BY VolumeAssumption DEF DataBlocks
  <2> HIDE DEF f
  <2>2. ~(f.first <= b /\ b < f.first + q)
    BY <1>2, <1>6, <2>1
  <2> QED
    BY <1>1, <2>2
<1> HIDE DEF f
<1> QED
  BY <1>1, <1>3, <1>4, <1>5, <1>7, PutLeaves, PutStaysNamed DEF f

LEMMA PutCreateLeaves ==
  ASSUME IInv, NEW n \in Names, NEW size \in Nat \ {0}, NEW kind, NEW d,
         PutCreate(n, size, kind, d)
  PROVE  OthersLeft /\ PutNamed'
<1> DEFINE blocks == (size + BlockSize - 1) \div BlockSize
           i == PlaceFor(Volume, blocks)
           w == Create(Volume, n, blocks)
<1>1. /\ command.op = "open" /\ CanCreate(Volume, n, blocks)
      /\ SetVolume(w) /\ put'.at = i /\ command' = [op |-> "put", names |-> {n}]
      /\ content' = content
  BY DEF PutCreate, Starts
<1>2. Good(Volume)
  BY <1>1, OpenedFacts
<1>3. blocks \in Nat \ {0}
  BY BlocksNeeded
<1> HIDE DEF blocks
<1>4. /\ w.files[i] = Created(Volume.files, i, n)
      /\ Spares(Volume, w, {})
  BY <1>1, <1>2, <1>3, CreateKeeps, CreateSpares
<1> HIDE DEF w, i
<1>5. Spares(Volume, w, {n})
  BY <1>4 DEF Spares
<1>6. OthersLeft
  BY <1>1, <1>5, SparesLeaves
<1>7. PutNamed'
  BY <1>1, <1>4 DEF PutNamed, SetVolume, Created
<1> QED
  BY <1>6, <1>7

-----------------------------------------------------------------------------
(* Every step.                                                             *)

(* Every step but those of a put, which are treated above.                 *)
LEMMA StepLeaves ==
  ASSUME \A m \in Moves : m[1] # m[2], IInv, PutNamed, [Next]_vars
  PROVE  OthersLeft /\ PutNamed'
<1>1. ASSUME UNCHANGED vars PROVE OthersLeft /\ PutNamed'
  BY <1>1, SameDiskLeaves DEF vars, PutNamed
<1>2. ASSUME NEW m \in Moves, Mv(m[1], m[2]) PROVE OthersLeft /\ PutNamed'
  <2>1. m[1] \in Names /\ m[2] \in Names /\ m[1] # m[2]
    BY VolumeAssumption
  <2>2. PutNamed'
    BY <1>2 DEF Mv, Starts, PutNamed
  <2> QED
    BY <1>2, <2>1, <2>2, MvLeaves
<1>3. ASSUME NEW n \in Names, NEW size \in DataSizes, NEW d \in Data, PutCreate(n, size, "data", d)
      PROVE  OthersLeft /\ PutNamed'
  BY <1>3, PutCreateLeaves, VolumeAssumption
<1>4. ASSUME NEW n \in Names, NEW blocks \in TextBlocks, NEW d \in Data,
             PutCreate(n, blocks * BlockSize, "text", d)
      PROVE  OthersLeft /\ PutNamed'
  <2>1. blocks \in Nat \ {0} /\ BlockSize \in Nat \ {0}
    BY VolumeAssumption
  <2> DEFINE size == blocks * BlockSize
  <2>2. size \in Nat \ {0}
    <3>1. /\ blocks * BlockSize \in Int /\ 1 * BlockSize <= blocks * BlockSize
      BY <2>1, MultipleFacts
    <3>2. 1 * BlockSize = BlockSize
      BY <2>1
    <3> QED
      BY <2>1, <3>1, <3>2
  <2>3. PutCreate(n, size, "text", d)
    BY <1>4
  <2> HIDE DEF size
  <2> QED
    BY <2>2, <2>3, PutCreateLeaves
<1>5. ASSUME NEW n \in Names, Rm(n) PROVE OthersLeft /\ PutNamed'
  <2>1. PutNamed'
    BY <1>5 DEF Rm, Starts, PutNamed
  <2> QED
    BY <1>5, <2>1, RmLeaves
<1>6. ASSUME NEW old \in Names, NEW new \in Names, Cp(old, new) PROVE OthersLeft /\ PutNamed'
  <2>1. command'.op \in {"cp", "cp_failed"}
    BY <1>6 DEF Cp, Starts
  <2> QED
    BY <1>6, <2>1, CpLeaves DEF PutNamed
<1>7. ASSUME Open \/ OpenThrows \/ Exit \/ Refused \/ Krunch PROVE OthersLeft /\ PutNamed'
  <2>1. OthersLeft
    BY <1>7, SameDiskLeaves DEF Open, OpenThrows, Exit, Refused, Krunch, vars
  <2>2. PutNamed'
    BY <1>7 DEF Open, OpenThrows, Exit, Refused, Krunch, vars, Starts, Idle, PutNamed
  <2> QED
    BY <2>1, <2>2
<1>8. ASSUME NEW n, NEW size, PutRefused(n, size) PROVE OthersLeft /\ PutNamed'
  <2>1. OthersLeft
    BY <1>8, SameDiskLeaves DEF PutRefused
  <2>2. PutNamed'
    BY <1>8 DEF PutRefused, Starts, PutNamed
  <2> QED
    BY <2>1, <2>2
<1> QED
  BY <1>1, <1>2, <1>3, <1>4, <1>5, <1>6, <1>7, <1>8, SetFileKindLeaves, WriteLeaves,
     WriteTextLeaves DEF Next

(* The step that starts a mv is a call of Mv.                              *)
LEMMA MvStarts ==
  ASSUME [Next]_vars, command'.op = "mv", command.op = "open"
  PROVE  \E m \in Moves : Mv(m[1], m[2]) /\ command'.names = {m[1], m[2]}
<1>1. Next
  BY DEF vars
<1>2. \A m \in Moves : Mv(m[1], m[2]) => command'.names = {m[1], m[2]}
  BY DEF Mv, Starts
<1>3. \A n, size : ~PutRefused(n, size)
  BY DEF PutRefused, Starts
<1>4. \A n, size, kind, d : ~PutCreate(n, size, kind, d)
  BY DEF PutCreate, Starts
<1>5. \A n : ~Rm(n)
  BY DEF Rm, Starts
<1>6. \A old, new : ~Cp(old, new)
  BY DEF Cp, Starts
<1>7. ~Open /\ ~OpenThrows /\ ~Exit /\ ~Refused /\ ~Krunch
  BY DEF Open, OpenThrows, Exit, Refused, Krunch, Starts, Idle
<1>8. ~SetFileKind /\ ~Write /\ ~WriteText
  BY DEF SetFileKind, Write, WriteText
<1> QED
  BY <1>1, <1>2, <1>3, <1>4, <1>5, <1>6, <1>7, <1>8 DEF Next

(* Whatever a command does, and wherever it is killed, every file it does  *)
(* not name has its entry and its data afterwards: neither the slots that  *)
(* unlink() and create() shift nor the blocks put and cp write are another *)
(* file's, and a cp that gives up has changed nothing.                     *)
THEOREM OthersAreKept ==
  ASSUME \A m \in Moves : m[1] # m[2]
  PROVE  Spec => OnlyNamed
<1>1. Init => PutNamed
  BY DEF Init, Idle, PutNamed
<1>2. IInv /\ PutNamed /\ [Next]_vars => PutNamed'
  BY StepLeaves
<1>3. IInv /\ IInv' /\ PutNamed /\ [Next]_vars =>
        [\A n \in NamesOnDisk \ command'.names :
           n \in NamesOnDisk' /\ Stored(n)' = Stored(n)]_vars
  BY StepLeaves, OthersStored
<1> QED
  BY <1>1, <1>2, <1>3, Invariance, PTL DEF Spec, OnlyNamed

(* mv gives the new name the entry and the data of the old one, and drops  *)
(* the old name, wherever unlinking the destination has moved the entry.   *)
THEOREM MovesKeepTheFile ==
  ASSUME \A m \in Moves : m[1] # m[2]
  PROVE  Spec => RenameMoves
<1> DEFINE Moved ==
      command'.op = "mv" /\ command.op = "open" =>
        \E old \in command'.names \intersect NamesOnDisk, new \in command'.names :
          /\ NamesOnDisk' \intersect command'.names = {new}
          /\ Stored(new)' = [Stored(old) EXCEPT !.entry.name = new]
          /\ Cardinality(command'.names) = 2 => old # new
<1>1. IInv /\ IInv' /\ [Next]_vars => [Moved]_vars
  <2> SUFFICES ASSUME IInv, IInv', [Next]_vars, command'.op = "mv", command.op = "open"
               PROVE  Moved
    OBVIOUS
  <2>1. PICK m \in Moves : Mv(m[1], m[2]) /\ command'.names = {m[1], m[2]}
    BY MvStarts
  <2>2. m[1] \in Names /\ m[2] \in Names /\ m[1] # m[2]
    BY VolumeAssumption
  <2> DEFINE old == m[1]
             new == m[2]
  <2>3. /\ old \in NamesOnDisk
        /\ NamesOnDisk' \intersect {old, new} = {new}
        /\ Stored(new)' = [Stored(old) EXCEPT !.entry.name = new]
    BY <2>1, <2>2, MvMoves
  <2>4. command'.names = {old, new} /\ old # new
    BY <2>1, <2>2
  <2> HIDE DEF old, new
  <2>5. /\ old \in command'.names \intersect NamesOnDisk /\ new \in command'.names
        /\ NamesOnDisk' \intersect command'.names = {new}
    BY <2>3, <2>4
  <2> QED
    BY <2>3, <2>4, <2>5, Zenon
<1> QED
  BY <1>1, Invariance, PTL DEF Spec, RenameMoves
=============================================================================
