--------------------------- MODULE DiskImagesProofs ---------------------------
(***************************************************************************)
(* What holds of images and their mapped caches for any number of blocks,  *)
(* any pages of whole tracks and any number of stores, as long as the      *)
(* volume asks its cache for no block 0.                                   *)
(***************************************************************************)
EXTENDS DiskImages, SequenceTheorems, TLAPS

LEMMA SizeFacts ==
  /\ PageSectors \in Nat \ {0} /\ MaxStores \in Nat /\ Boot \in Nat
  /\ PageSectors % 16 = 0 /\ PageSectors >= 2
  /\ \A f \in Formats : Sizes[f] \subseteq Nat \ {0}
  /\ \A p \in Patterns : p[1] \in Nat /\ p[2] \in Nat
<1>1. PageSectors \in Nat \ {0} /\ PageSectors % 16 = 0
  BY DiskImagesAssumption DEF TrackSectors
<1>2. PageSectors >= 2
  BY <1>1
<1> QED BY <1>1, <1>2, DiskImagesAssumption

-----------------------------------------------------------------------------
(* Where blocks lie: no two share a sector, and none has the header's.     *)

(* _sectorMap is a permutation of the sectors of a track.                  *)
LEMMA MapFacts ==
  /\ \A i \in 1..16 : SectorMap[i] \in 0..15
  /\ \A i, j \in 1..16 : SectorMap[i] = SectorMap[j] => i = j
<1>1. \A i \in 1..16 : SectorMap[i] = IF i = 1 THEN 0 ELSE IF i = 16 THEN 15 ELSE 16 - i
  BY DEF SectorMap
<1> QED BY <1>1

LEMMA HeaderFacts ==
  ASSUME NEW f \in Formats
  PROVE  HeaderSectors(f) \in {0, 1, 2} /\ CacheStart(f) \in {0, 1, 2}
BY DEF Formats, HeaderSectors, CacheStart

LEMMA DOSFacts ==
  ASSUME NEW b \in Nat, NEW i \in 1..2
  PROVE  /\ 2 * (b % 8) + i \in 1..16
         /\ DOSSector(b, i) \in Nat
         /\ DOSSector(b, i) \div 16 = b \div 8
         /\ DOSSector(b, i) % 16 = SectorMap[2 * (b % 8) + i]
<1>1. b % 8 \in 0..7 /\ b \div 8 \in Nat
  OBVIOUS
<1>2. 2 * (b % 8) + i \in 1..16
  BY <1>1
<1>3. SectorMap[2 * (b % 8) + i] \in 0..15
  BY <1>2, MapFacts
<1>4. \A q \in Nat, r \in 0..15 : 16 * q + r \in Nat /\ (16 * q + r) \div 16 = q /\ (16 * q + r) % 16 = r
  OBVIOUS
<1> QED BY <1>1, <1>2, <1>3, <1>4 DEF DOSSector, TrackSectors

LEMMA DOSDisjoint ==
  ASSUME NEW b \in Nat, NEW c \in Nat, NEW i \in 1..2, NEW j \in 1..2,
         DOSSector(b, i) = DOSSector(c, j)
  PROVE  b = c /\ i = j
<1>a. DOSSector(b, i) \div 16 = b \div 8 /\ DOSSector(b, i) % 16 = SectorMap[2 * (b % 8) + i]
  BY DOSFacts
<1>b. DOSSector(c, j) \div 16 = c \div 8 /\ DOSSector(c, j) % 16 = SectorMap[2 * (c % 8) + j]
  BY DOSFacts
<1>1. b \div 8 = c \div 8
  BY <1>a, <1>b
<1>2. SectorMap[2 * (b % 8) + i] = SectorMap[2 * (c % 8) + j]
  BY <1>a, <1>b
<1>3. 2 * (b % 8) + i = 2 * (c % 8) + j
  BY <1>2, DOSFacts, MapFacts
<1>4. b % 8 = c % 8 /\ i = j
  BY <1>3
<1>5. b = 8 * (b \div 8) + (b % 8) /\ c = 8 * (c \div 8) + (c % 8)
  OBVIOUS
<1> QED BY <1>1, <1>4, <1>5

LEMMA DevicePlaces ==
  ASSUME NEW f \in Formats, NEW b \in Nat, NEW i \in 1..2
  PROVE  DeviceSectors(f, b)[i] \in Nat /\ DeviceSectors(f, b)[i] > HeaderSectors(f)
<1>1. CASE f = "DO__"
  BY <1>1, DOSFacts DEF DeviceSectors, HeaderSectors
<1>2. CASE f # "DO__"
  BY <1>2, HeaderFacts DEF DeviceSectors
<1> QED BY <1>1, <1>2

LEMMA DeviceDisjoint ==
  ASSUME NEW f \in Formats, NEW b \in Nat, NEW c \in Nat, NEW i \in 1..2, NEW j \in 1..2,
         DeviceSectors(f, b)[i] = DeviceSectors(f, c)[j]
  PROVE  b = c /\ i = j
<1>1. CASE f = "DO__"
  <2>1. DeviceSectors(f, b)[i] = 1 + DOSSector(b, i) /\ DeviceSectors(f, c)[j] = 1 + DOSSector(c, j)
    BY <1>1 DEF DeviceSectors
  <2>a. DOSSector(b, i) \in Nat /\ DOSSector(c, j) \in Nat
    BY DOSFacts
  <2>2. DOSSector(b, i) = DOSSector(c, j)
    BY <2>1, <2>a, \A m, n \in Nat : 1 + m = 1 + n => m = n
  <2> QED BY <2>2, DOSDisjoint
<1>2. CASE f # "DO__"
  BY <1>2, HeaderFacts DEF DeviceSectors
<1> QED BY <1>1, <1>2

LEMMA CachePlaces ==
  ASSUME NEW f \in Formats, NEW b \in Nat, NEW i \in 1..2
  PROVE  /\ CacheSectors(f, b)[i] \in Nat \ {0}
         /\ CacheSectors(f, b)[i] = CacheStart(f) + 2 * b + i
         /\ b # 0 => CacheSectors(f, b)[i] # 1
BY HeaderFacts DEF CacheSectors

LEMMA CacheDisjoint ==
  ASSUME NEW f \in Formats, NEW b \in Nat, NEW c \in Nat, NEW i \in 1..2, NEW j \in 1..2,
         CacheSectors(f, b)[i] = CacheSectors(f, c)[j]
  PROVE  b = c /\ i = j
<1>1. CacheSectors(f, b)[i] = CacheStart(f) + 2 * b + i
  BY CachePlaces
<1>2. CacheSectors(f, c)[j] = CacheStart(f) + 2 * c + j
  BY CachePlaces
<1>3. CacheStart(f) \in {0, 1, 2}
  BY HeaderFacts
<1>4. CacheStart(f) + 2 * b + i = CacheStart(f) + 2 * c + j
  BY <1>1, <1>2
<1>5. \A k \in {0, 1, 2} : \A m, n \in Nat : \A x, y \in 1..2 :
        k + 2 * m + x = k + 2 * n + y => m = n /\ x = y
  OBVIOUS
<1> QED BY <1>3, <1>4, <1>5

(* But for DiskCopy images the cache has a block where the device has it.  *)
LEMMA SamePlaces ==
  ASSUME NEW f \in MappedFormats, f # "DC42", NEW b \in Nat
  PROVE  CacheSectors(f, b) = DeviceSectors(f, b)
<1>1. \A i \in 1..2 : CacheSectors(f, b)[i] = DeviceSectors(f, b)[i]
  BY HeaderFacts DEF CacheSectors, DeviceSectors, MappedFormats, Formats, CacheStart
<1> QED BY <1>1 DEF CacheSectors, DeviceSectors

(* Where a block lies, for the device or for the cache.                    *)
Ways == {"device", "cache"}
Places(way, f, b) == IF way = "device" THEN DeviceSectors(f, b) ELSE CacheSectors(f, b)

LEMMA PlacesFacts ==
  ASSUME NEW way \in Ways, NEW f \in Formats
  PROVE  /\ \A b \in Nat : /\ Places(way, f, b)[1] \in Nat \ {0} /\ Places(way, f, b)[2] \in Nat \ {0}
                           /\ Places(way, f, b)[1] # Places(way, f, b)[2]
         /\ \A b, c \in Nat : b # c =>
              /\ Places(way, f, b)[1] # Places(way, f, c)[1] /\ Places(way, f, b)[1] # Places(way, f, c)[2]
              /\ Places(way, f, b)[2] # Places(way, f, c)[1] /\ Places(way, f, b)[2] # Places(way, f, c)[2]
<1>1. ASSUME NEW b \in Nat, NEW i \in 1..2
      PROVE  DeviceSectors(f, b)[i] \in Nat \ {0} /\ CacheSectors(f, b)[i] \in Nat \ {0}
  <2>1. DeviceSectors(f, b)[i] \in Nat /\ DeviceSectors(f, b)[i] > HeaderSectors(f)
    BY DevicePlaces
  <2>2. HeaderSectors(f) \in {0, 1, 2}
    BY HeaderFacts
  <2>3. \A h \in {0, 1, 2}, n \in Nat : n > h => n \in Nat \ {0}
    OBVIOUS
  <2> QED BY <2>1, <2>2, <2>3, CachePlaces
<1>2. ASSUME NEW b \in Nat, NEW c \in Nat, NEW i \in 1..2, NEW j \in 1..2,
             DeviceSectors(f, b)[i] = DeviceSectors(f, c)[j]
      PROVE  b = c /\ i = j
  BY <1>2, DeviceDisjoint
<1>3. ASSUME NEW b \in Nat, NEW c \in Nat, NEW i \in 1..2, NEW j \in 1..2,
             CacheSectors(f, b)[i] = CacheSectors(f, c)[j]
      PROVE  b = c /\ i = j
  BY <1>3, CacheDisjoint
<1>4. 1 \in 1..2 /\ 2 \in 1..2 /\ 1 # 2
  OBVIOUS
<1>5. CASE way = "device"
  <2>1. \A b : Places(way, f, b) = DeviceSectors(f, b)
    BY <1>5 DEF Places
  <2> QED BY <1>1, <1>2, <1>4, <2>1
<1>6. CASE way = "cache"
  <2>1. \A b : Places(way, f, b) = CacheSectors(f, b)
    BY <1>6 DEF Places
  <2> QED BY <1>1, <1>3, <1>4, <2>1
<1> QED BY <1>5, <1>6 DEF Ways

-----------------------------------------------------------------------------
(* Pages: a commit of a block reaches both its sectors, as no page is less *)
(* than a block.                                                           *)

LEMMA DivideUnique ==
  ASSUME NEW P \in Nat \ {0}, NEW q \in Nat, NEW r \in 0..P-1
  PROVE  (P * q + r) \div P = q
OBVIOUS

LEMMA NextPages ==
  ASSUME NEW P \in Nat, P >= 2, NEW x \in Nat
  PROVE  (x + 1) \div P \in {x \div P, (x + 2) \div P}
<1> DEFINE q == x \div P
           r == x % P
<1>1. q \in Nat /\ r \in 0..P-1 /\ x = P * q + r
  OBVIOUS
<1> HIDE DEF q, r
<1>2. CASE r + 1 < P
  <2>1. r + 1 \in 0..P-1 /\ x + 1 = P * q + (r + 1)
    BY <1>1, <1>2
  <2>2. (x + 1) \div P = q
    BY <1>1, <2>1, DivideUnique
  <2> QED BY <2>2 DEF q
<1>3. CASE r + 1 = P
  <2>1. q + 1 \in Nat /\ P * (q + 1) = P * q + P
    BY <1>1
  <2>2. x + 1 = P * (q + 1) + 0 /\ x + 2 = P * (q + 1) + 1
    BY <1>1, <1>3, <2>1
  <2>3. (P * (q + 1) + 0) \div P = q + 1
    BY <2>1, DivideUnique, 0 \in 0..P-1
  <2>4. (P * (q + 1) + 1) \div P = q + 1
    BY <2>1, DivideUnique, 1 \in 0..P-1
  <2> QED BY <2>2, <2>3, <2>4
<1> QED BY <1>1, <1>2, <1>3

(* Both sectors of a block lie on a page sync(block) is called for.        *)
LEMMA PairPages ==
  ASSUME NEW f \in Formats, NEW b \in Nat, NEW half \in 1..2
  PROVE  PageOf(CacheSectors(f, b)[half]) \in Range(CommitPages(CacheSectors(f, b)))
<1> DEFINE x == CacheStart(f) + 2 * b
<1>1. x \in Nat /\ PageSectors \in Nat
  BY HeaderFacts, SizeFacts
<1>2. CacheSectors(f, b)[1] = x + 1 /\ CacheSectors(f, b)[2] = x + 2
  BY CachePlaces
<1> HIDE DEF x
<1>3. PageOf(x + 1) = x \div PageSectors /\ PageOf(x + 2) = (x + 1) \div PageSectors
      /\ PageOf(x + 2 + 1) = (x + 2) \div PageSectors
  BY <1>1 DEF PageOf
<1>4. Range(CommitPages(CacheSectors(f, b))) = {PageOf(x + 1), PageOf(x + 2 + 1)}
  BY <1>2 DEF CommitPages, Range
<1>5. (x + 1) \div PageSectors \in {x \div PageSectors, (x + 2) \div PageSectors}
  BY <1>1, NextPages, SizeFacts
<1>6. CASE half = 1
  BY <1>2, <1>4, <1>6
<1>7. CASE half = 2
  BY <1>2, <1>3, <1>4, <1>5, <1>7
<1> QED BY <1>6, <1>7

-----------------------------------------------------------------------------
(* Images.                                                                 *)

IsCell(s) ==
  \/ \E v \in Nat : s = Datum(v)
  \/ \E f \in Formats, n \in Nat : \E sum : s = Heading(f, n, sum)

IsImage(m) ==
  /\ Len(m) \in Nat
  /\ m = [s \in 1..Len(m) |-> m[s]]
  /\ \A s \in 1..Len(m) : IsCell(m[s])

LEMMA ImageFacts ==
  ASSUME NEW n \in Nat, NEW g, g = [s \in 1..n |-> g[s]], \A s \in 1..n : IsCell(g[s])
  PROVE  IsImage(g) /\ Len(g) = n
<1> DEFINE S == {g[s] : s \in 1..n}
<1>1. DOMAIN g = 1..n /\ g \in [1..n -> S]
  OBVIOUS
<1>2. g \in Seq(S)
  BY <1>1, SeqDef
<1>3. Len(g) = n
  BY <1>1, <1>2, LenProperties
<1> QED BY <1>3 DEF IsImage

LEMMA CellFacts ==
  /\ \A v \in Nat : IsCell(Datum(v))
  /\ \A f \in Formats, n \in Nat : \A sum : IsCell(Heading(f, n, sum))
  /\ \A s : IsCell(s) => s[1] \in Formats \union {"data"} /\ s[2] \in Nat
BY DEF IsCell, Datum, Heading

(* What newfs_pascal writes is what the format's Validate() accepts.       *)
LEMMA CreatedFacts ==
  ASSUME NEW f \in Formats, NEW n \in Sizes[f]
  PROVE  /\ IsImage(Created(f, n)) /\ Len(Created(f, n)) = HeaderSectors(f) + 2 * n
         /\ Valid(f, Created(f, n))
<1> DEFINE m == Created(f, n)
           k == HeaderSectors(f) + 2 * n
<1>1. n \in Nat \ {0} /\ HeaderSectors(f) \in {0, 1, 2} /\ k \in Nat
  BY SizeFacts, HeaderFacts
<1>2. m = [s \in 1..k |-> m[s]] /\ DOMAIN m = 1..k
  BY DEF Created
<1>3. \A s \in 1..k : IsCell(m[s])
  BY <1>1, CellFacts DEF Created, Zero
<1>4. IsImage(m) /\ Len(m) = k
  <2> HIDE DEF m, k
  <2> QED BY <1>1, <1>2, <1>3, ImageFacts
<1>5. HeaderSectors(f) > 0 => m[1] = Heading(f, n, 0)
  BY <1>1 DEF Created
<1>6. HeaderSectors(f) > 0 => Headed(f, m) /\ m[1][2] = n
  <2>1. Len(Heading(f, n, 0)) = 3 /\ Heading(f, n, 0)[1] = f /\ Heading(f, n, 0)[2] = n
    BY DEF Heading
  <2> HIDE DEF m
  <2> QED BY <1>1, <1>4, <1>5, <2>1 DEF Headed
<1>7. Valid(f, m)
  <2> HIDE DEF m
  <2>1. CASE f = "2IMG" \/ f = "DC42"
    <3>1. HeaderSectors(f) = 1
      BY <2>1 DEF HeaderSectors
    <3> QED BY <2>1, <3>1, <1>1, <1>4, <1>6 DEF Valid, ValidUniversal, ValidDiskCopy
  <2>2. CASE f = "DVX_"
    <3>1. HeaderSectors(f) = 2
      BY <2>2 DEF HeaderSectors
    <3>2. \A j \in Nat : (2 + 2 * j) % 2 = 0 /\ (2 + 2 * j) \div 2 - 1 = j
      OBVIOUS
    <3> QED BY <2>2, <3>1, <3>2, <1>1, <1>4, <1>6, SMTT(30) DEF Valid, ValidDavex
  <2>3. CASE f \in {"DO__", "PO__", "RAW_"}
    <3>1. HeaderSectors(f) = 0
      BY <2>3 DEF HeaderSectors
    <3>2. \A j \in Nat : (0 + 2 * j) % 2 = 0
      OBVIOUS
    <3> QED BY <2>3, <3>1, <3>2, <1>1, <1>4 DEF Valid
  <2> QED BY <2>1, <2>2, <2>3 DEF Formats
<1> QED BY <1>4, <1>7

Lies(sectors, n) == \A half \in 1..2 : sectors[half] \in 1..n

(* What Validate() accepts has room for the blocks it says, mapped and,    *)
(* but for an incomplete last track of a DOS order image, for the device.  *)
LEMMA ValidFacts ==
  ASSUME NEW f \in Formats, NEW m, IsImage(m), Valid(f, m)
  PROVE  /\ BlocksOf(f, m) \in Nat
         /\ f = "DC42" => Len(m) >= 1
         /\ \A b \in 0..BlocksOf(f, m)-1 :
              /\ f \in MappedFormats => Lies(CacheSectors(f, b), Len(m))
              /\ f # "DO__" => Lies(DeviceSectors(f, b), Len(m))
              /\ f = "DO__" => 2 * b + 2 <= Len(m)
<1>1. Len(m) \in Nat
  BY DEF IsImage
<1>2. Headed(f, m) => Len(m) >= 1 /\ m[1][2] \in Nat
  BY <1>1, CellFacts DEF Headed, IsImage
<1>h. HeaderSectors(f) \in {0, 1, 2} /\ CacheStart(f) \in {0, 1, 2} /\ CacheStart(f) <= HeaderSectors(f)
  BY HeaderFacts DEF CacheStart
<1>3. BlocksOf(f, m) \in Nat /\ HeaderSectors(f) + 2 * BlocksOf(f, m) <= Len(m)
      /\ (f = "DC42" => Len(m) >= 1)
  <2>1. CASE f = "2IMG" \/ f = "DC42"
    BY <1>1, <1>2, <2>1 DEF Valid, ValidUniversal, ValidDiskCopy, HeaderSectors, BlocksOf
  <2>2. CASE f = "DVX_"
    <3>1. Headed(f, m) /\ BlocksOf(f, m) = Len(m) \div 2 - 1 /\ m[1][2] = BlocksOf(f, m)
          /\ HeaderSectors(f) = 2
      BY <2>2 DEF Valid, ValidDavex, HeaderSectors, BlocksOf
    <3>2. 2 * (Len(m) \div 2) <= Len(m)
      BY <1>1
    <3> QED BY <1>1, <1>2, <2>2, <3>1, <3>2
  <2>3. CASE f \in {"DO__", "PO__", "RAW_"}
    <3>1. BlocksOf(f, m) = Len(m) \div 2 /\ HeaderSectors(f) = 0
      BY <2>3 DEF HeaderSectors, BlocksOf
    <3>2. 2 * (Len(m) \div 2) <= Len(m) /\ Len(m) \div 2 \in Nat
      BY <1>1
    <3> QED BY <2>3, <3>1, <3>2
  <2> QED BY <2>1, <2>2, <2>3 DEF Formats
<1>4. ASSUME NEW b \in 0..BlocksOf(f, m)-1, NEW half \in 1..2, NEW k \in {0, 1, 2}, k <= HeaderSectors(f)
      PROVE  k + 2 * b + half \in 1..Len(m)
  BY <1>1, <1>3, <1>4, <1>h
<1>5. ASSUME NEW b \in 0..BlocksOf(f, m)-1
      PROVE  /\ f \in MappedFormats => Lies(CacheSectors(f, b), Len(m))
             /\ f # "DO__" => Lies(DeviceSectors(f, b), Len(m))
             /\ f = "DO__" => 2 * b + 2 <= Len(m)
  <2>1. ASSUME NEW half \in 1..2
        PROVE  CacheSectors(f, b)[half] \in 1..Len(m)
    BY <1>4, <1>h DEF CacheSectors
  <2>2. ASSUME f # "DO__", NEW half \in 1..2
        PROVE  DeviceSectors(f, b)[half] \in 1..Len(m)
    <3>1. DeviceSectors(f, b)[half] = HeaderSectors(f) + 2 * b + half
      BY <1>h, <1>3, <2>2 DEF DeviceSectors
    <3>2. HeaderSectors(f) <= HeaderSectors(f)
      BY <1>h
    <3> QED BY <1>4, <1>h, <3>1, <3>2
  <2>3. 2 * b + 2 <= Len(m)
    BY <1>1, <1>3, <1>h
  <2> QED BY <2>1, <2>2, <2>3 DEF Lies
<1> QED BY <1>3, <1>5

(* The mapping ends with a page, so with a track: what is missing of a     *)
(* DOS order image's last track lies in its last page.                     *)
Whole(m) == Len(m) + TailSectors(m)

LEMMA WholeFacts ==
  ASSUME NEW m, Len(m) \in Nat
  PROVE  TailSectors(m) \in Nat /\ Whole(m) \in Nat /\ Whole(m) >= Len(m) /\ Whole(m) % 16 = 0
<1> DEFINE P == PageSectors
           q == Len(m) \div P
           r == Len(m) % P
           j == P \div 16
<1>1. P \in Nat \ {0} /\ P = 16 * j /\ j \in Nat
  BY SizeFacts
<1>2. q \in Nat /\ r \in 0..P-1 /\ Len(m) = P * q + r
  BY <1>1
<1>3. TailSectors(m) = (P - r) % P
  BY DEF TailSectors
<1> HIDE DEF P, q, r, j
<1>4. CASE r = 0
  <2>1. TailSectors(m) = 0
    BY <1>1, <1>3, <1>4
  <2>2. Whole(m) = 16 * (j * q)
    BY <1>1, <1>2, <1>4, <2>1 DEF Whole
  <2>3. j * q \in Nat
    BY <1>1, <1>2
  <2> HIDE DEF TailSectors
  <2> QED BY <2>1, <2>2, <2>3, \A n \in Nat : (16 * n) % 16 = 0, <1>2, <1>4 DEF Whole
<1>5. CASE r # 0
  <2>1. P - r \in 1..P-1
    BY <1>1, <1>2, <1>5
  <2>2. TailSectors(m) = P - r
    BY <1>1, <1>3, <2>1
  <2>3. Whole(m) = P * q + P
    BY <1>1, <1>2, <2>2 DEF Whole
  <2>4. Whole(m) = 16 * (j * (q + 1)) /\ j * (q + 1) \in Nat
    BY <1>1, <1>2, <2>3
  <2> QED BY <2>1, <2>2, <2>4, <1>1, \A n \in Nat : (16 * n) % 16 = 0 DEF Whole
<1> QED BY <1>2, <1>4, <1>5

(* Every block has its sectors in the mapping.                             *)
LEMMA DeviceLies ==
  ASSUME NEW f \in Formats, NEW m, IsImage(m), Valid(f, m), NEW b \in 0..BlocksOf(f, m)-1
  PROVE  Lies(DeviceSectors(f, b), Whole(m))
<1>1. Len(m) \in Nat /\ Whole(m) \in Nat /\ Whole(m) >= Len(m) /\ Whole(m) % 16 = 0
  BY WholeFacts DEF IsImage
<1>2. b \in Nat
  BY ValidFacts
<1>3. CASE f # "DO__"
  BY <1>1, <1>3, ValidFacts DEF Lies
<1>4. CASE f = "DO__"
  <2>1. 2 * b + 2 <= Whole(m)
    BY <1>1, <1>2, <1>4, ValidFacts
  <2> DEFINE w == Whole(m) \div 16
  <2>2. w \in Nat /\ Whole(m) = 16 * w
    BY <1>1
  <2> HIDE DEF w
  <2>3. b \div 8 < w
    BY <1>2, <2>1, <2>2
  <2>4. ASSUME NEW half \in 1..2
        PROVE  1 + DOSSector(b, half) \in 1..Whole(m)
    <3>1. DOSSector(b, half) \in Nat /\ DOSSector(b, half) \div 16 = b \div 8
      BY <1>2, DOSFacts
    <3>2. DOSSector(b, half) < 16 * w
      BY <1>2, <2>2, <2>3, <3>1
    <3> QED BY <2>2, <3>1, <3>2
  <2> QED BY <1>4, <2>4 DEF Lies, DeviceSectors
<1> QED BY <1>3, <1>4

-----------------------------------------------------------------------------
(* The inductive invariant.                                                *)

Images ==
  /\ IsImage(mem) /\ IsImage(disk) /\ Len(disk) = Len(mem)
  /\ DOMAIN tail = 1..TailSectors(mem)
  /\ format \in Formats \union {"none"}
  /\ format # "none" => Len(mem) - HeaderSectors(format) \in {2 * n : n \in Sizes[format]}

Flags ==
  /\ as \in Formats \union {"none"}
  /\ session \in {"closed", "open", "thrown"} /\ (session = "closed" <=> as = "none")
  /\ readOnly \in BOOLEAN /\ cache \in BOOLEAN /\ dirty \in BOOLEAN
  /\ changed \in BOOLEAN /\ poked \in BOOLEAN
  /\ changed => as = "DC42" /\ ~readOnly
  /\ cache => as \in MappedFormats
  /\ dirty \/ held # NoBlock => cache
  /\ held \in {NoBlock} \union Blocks /\ (poked => held # NoBlock)
  /\ stores \in 0..MaxStores /\ DOMAIN content = Blocks

(* What the flags say of the stores: a DiskCopy image stored in is marked  *)
(* changed, and there are no stores through a cache there is not.          *)
Marked ==
  /\ as = "DC42" /\ ~readOnly /\ cache => changed
  /\ as = "DC42" /\ (\E s \in stored : s[1] # "failed") => changed
  /\ ~cache => \A b : <<"cache", b>> \notin stored

(* Every block lies in the mapping, those of a mapped cache in the file.   *)
Bounds ==
  session # "closed" =>
    /\ BlocksOf(as, mem) \in Nat
    /\ as = "DC42" => Len(mem) >= 1
    /\ \A b \in Blocks : /\ Lies(DeviceSectors(as, b), Whole(mem))
                         /\ as \in MappedFormats => Lies(CacheSectors(as, b), Len(mem))

(* Until something is declared, only a block stored through a pointer and  *)
(* not yet declared differs from the disk, of those stored; and those of   *)
(* which a commit has said that they may.                                  *)
Declared ==
  cache /\ ~dirty =>
    \A b \in Blocks : <<"cache", b>> \in stored /\ <<"failed", b>> \notin stored
                        /\ ~(poked /\ b = held) =>
      \A half \in 1..2 : disk[CacheSectors(as, b)[half]] = mem[CacheSectors(as, b)[half]]

IInv == Images /\ Flags /\ Marked /\ Bounds /\ BlocksKept /\ Declared

LEMMA InitHolds == Init => IInv
<1> SUFFICES ASSUME Init PROVE IInv
  OBVIOUS
<1>0. Len(<<>>) = 0 /\ <<>> = [s \in 1..0 |-> <<>>[s]]
  OBVIOUS
<1>1. IsImage(<<>>)
  BY <1>0 DEF IsImage
<1>2. Blocks = {}
  BY DEF Init, Blocks
<1>3. Images
  <2>1. TailSectors(<<>>) = 0
    BY <1>0, SizeFacts DEF TailSectors
  <2> QED BY <1>0, <1>1, <2>1 DEF Init, Images
<1>4. DOMAIN content = {} /\ stores \in 0..MaxStores
  BY SizeFacts DEF Init
<1>5. Flags
  BY <1>2, <1>4 DEF Init, Flags
<1> QED BY <1>2, <1>3, <1>5 DEF Init, IInv, Marked, Bounds, BlocksKept, Declared

(* Whatever ends a process leaves an image to the next.                    *)
LEMMA GoneKeeps ==
  ASSUME IInv, Gone, Images'
  PROVE  IInv'
<1>1. Blocks' = {}
  BY DEF Gone, Blocks
<1>2. DOMAIN content' = {} /\ stores' \in 0..MaxStores
  BY DEF Gone, IInv, Flags
<1>3. Flags'
  BY <1>1, <1>2 DEF Flags, Gone
<1>4. Marked' /\ Bounds' /\ BlocksKept' /\ Declared'
  BY <1>1 DEF Gone, Marked, Bounds, BlocksKept, Declared
<1> QED BY <1>3, <1>4 DEF IInv

LEMMA BlockFacts ==
  ASSUME IInv, session # "closed"
  PROVE  /\ as \in Formats /\ Blocks \subseteq Nat /\ Blocks = 0..BlocksOf(as, mem)-1
         /\ Len(mem) \in Nat /\ (cache => as \in MappedFormats)
<1>1. as \in Formats /\ BlocksOf(as, mem) \in Nat /\ (cache => as \in MappedFormats)
  BY DEF IInv, Flags, Bounds
<1>2. Blocks = 0..BlocksOf(as, mem)-1
  BY DEF Blocks
<1>3. \A n \in Nat : 0..n-1 \subseteq Nat
  OBVIOUS
<1> QED BY <1>1, <1>2, <1>3 DEF IInv, Images, IsImage

LEMMA SameBlocks ==
  ASSUME IInv, session # "closed", session' # "closed", as' = as,
         BlocksOf(as, mem)' = BlocksOf(as, mem)
  PROVE  Blocks' = Blocks
<1>1. Blocks = 0..BlocksOf(as, mem)-1 /\ Blocks' = 0..BlocksOf(as, mem)'-1
  BY DEF Blocks
<1> QED BY <1>1

(* A block given out, marked, released, committed, synced or reaching the  *)
(* disk by itself: the sectors stay.                                       *)
LEMMA WrittenFacts ==
  ASSUME Images, NEW pages
  PROVE  /\ IsImage(Written(mem, disk, pages)) /\ Len(Written(mem, disk, pages)) = Len(mem)
         /\ \A s \in 1..Len(mem) :
              /\ PageOf(s) \in pages => Written(mem, disk, pages)[s] = mem[s]
              /\ disk[s] = mem[s] => Written(mem, disk, pages)[s] = mem[s]
<1> DEFINE w == Written(mem, disk, pages)
<1>1. Len(mem) \in Nat /\ DOMAIN mem = 1..Len(mem)
  BY DEF Images, IsImage
<1>2. \A s \in 1..Len(mem) : w[s] = IF PageOf(s) \in pages THEN mem[s] ELSE disk[s]
  BY <1>1 DEF Written
<1>3. w = [s \in 1..Len(mem) |-> w[s]]
  BY <1>1 DEF Written
<1>4. \A s \in 1..Len(mem) : IsCell(w[s])
  BY <1>2 DEF Images, IsImage
<1> HIDE DEF w
<1>5. IsImage(w) /\ Len(w) = Len(mem)
  BY <1>1, <1>3, <1>4, ImageFacts
<1> QED BY <1>2, <1>5 DEF w

(* The sectors of the file stay; those after it stay or are cleared.       *)
LEMMA SamePlace ==
  ASSUME IInv, session # "closed", session' # "closed", UNCHANGED <<format, mem, as>>,
         IsImage(disk'), Len(disk') = Len(mem), tail' \in {tail, ZeroTail(mem)}
  PROVE  /\ Blocks' = Blocks /\ Images' /\ Bounds'
         /\ (UNCHANGED <<cache, content, found>>
             /\ \A b : <<"cache", b>> \in stored' <=> <<"cache", b>> \in stored) => BlocksKept'
<1>1. Blocks' = Blocks
  <2>1. BlocksOf(as, mem)' = BlocksOf(as, mem)
    OBVIOUS
  <2> QED BY <2>1, SameBlocks
<1>2. Images'
  <2>1. DOMAIN tail' = 1..TailSectors(mem)
    BY DEF IInv, Images, ZeroTail
  <2> QED BY <2>1 DEF IInv, Images
<1>3. Bounds'
  BY <1>1 DEF IInv, Bounds
<1>4. ASSUME UNCHANGED <<cache, content, found>>,
             \A b : <<"cache", b>> \in stored' <=> <<"cache", b>> \in stored
      PROVE  BlocksKept'
  <2>1. ASSUME NEW s \in 1..Whole(mem)
        PROVE  \/ Mapped(mem, tail', s) = Mapped(mem, tail, s)
               \/ s > Len(mem) /\ Mapped(mem, tail', s) = Zero
    <3>1. Len(mem) \in Nat /\ TailSectors(mem) \in Nat /\ Whole(mem) = Len(mem) + TailSectors(mem)
      BY BlockFacts, WholeFacts DEF Whole
    <3>2. CASE s <= Len(mem)
      BY <3>2 DEF Mapped
    <3>3. CASE s > Len(mem) /\ tail' = tail
      BY <3>3
    <3>4. CASE s > Len(mem) /\ tail' = ZeroTail(mem)
      <4>1. s - Len(mem) \in 1..TailSectors(mem)
        BY <3>1, <3>4
      <4>2. ZeroTail(mem)[s - Len(mem)] = Zero
        BY <4>1 DEF ZeroTail
      <4> QED BY <3>1, <3>4, <4>2 DEF Mapped
    <3> QED BY <3>1, <3>2, <3>3, <3>4
  <2>2. \A s \in 1..Len(mem) : Mapped(mem, tail', s) = Mapped(mem, tail, s)
    BY DEF Mapped
  <2>3. ASSUME NEW b \in Blocks, NEW half \in 1..2
        PROVE  /\ DeviceSectors(as, b)[half] \in 1..Whole(mem)
               /\ cache => CacheSectors(as, b)[half] \in 1..Len(mem)
    BY BlockFacts DEF IInv, Bounds, Lies
  <2> QED BY <1>1, <1>4, <2>1, <2>2, <2>3 DEF IInv, BlocksKept
<1> QED BY <1>1, <1>2, <1>3, <1>4

-----------------------------------------------------------------------------
(* Stores.                                                                 *)

(* A store that spares the header leaves an image with the same blocks.    *)
LEMMA StoreFacts ==
  ASSUME IInv, session = "open", UNCHANGED <<format, disk>>, UNCHANGED opened,
         NEW places, NEW p \in Patterns, Store(places, p), Lies(places, Whole(mem)),
         as \in {"2IMG", "DC42", "DVX_"} => places[1] # 1 /\ places[2] # 1
  PROVE  /\ Images' /\ Bounds' /\ Blocks' = Blocks /\ Len(mem') = Len(mem)
         /\ \A s \in 1..Whole(mem) :
              Mapped(mem', tail', s) = IF s = places[1] THEN Datum(p[1])
                                       ELSE IF s = places[2] THEN Datum(p[2])
                                       ELSE Mapped(mem, tail, s)
<1>1. Len(mem) \in Nat /\ DOMAIN mem = 1..Len(mem) /\ \A s \in 1..Len(mem) : IsCell(mem[s])
  BY DEF IInv, Images, IsImage
<1>2. \A s \in 1..Len(mem) : mem'[s] = IF s = places[1] THEN Datum(p[1])
                                       ELSE IF s = places[2] THEN Datum(p[2]) ELSE mem[s]
  BY <1>1 DEF Store, Filled
<1>3. mem' = [s \in 1..Len(mem) |-> mem'[s]]
  BY <1>1 DEF Store, Filled
<1>4. \A s \in 1..Len(mem) : IsCell(mem'[s])
  BY <1>1, <1>2, CellFacts, SizeFacts
<1>5. IsImage(mem') /\ Len(mem') = Len(mem)
  BY <1>1, <1>3, <1>4, ImageFacts
<1>t. TailSectors(mem') = TailSectors(mem) /\ TailSectors(mem) \in Nat
      /\ Whole(mem) = Len(mem) + TailSectors(mem) /\ Whole(mem') = Whole(mem)
  BY <1>1, <1>5, WholeFacts DEF TailSectors, Whole
<1>6. DOMAIN tail = 1..TailSectors(mem) /\ DOMAIN tail' = 1..TailSectors(mem)
      /\ \A i \in 1..TailSectors(mem) :
           tail'[i] = IF Len(mem) + i = places[1] THEN Datum(p[1])
                      ELSE IF Len(mem) + i = places[2] THEN Datum(p[2]) ELSE tail[i]
  BY DEF Store, Filled, IInv, Images
<1>7. Images'
  BY <1>5, <1>6, <1>t DEF IInv, Images
<1>8. as' = as /\ session' = session /\ as \in Formats
  BY DEF opened, IInv, Flags
<1>9. BlocksOf(as, mem)' = BlocksOf(as, mem)
  <2>1. CASE as \in {"2IMG", "DC42", "DVX_"}
    <3>1. CASE Len(mem) = 0
      <4>1. mem = <<>> /\ mem' = <<>>
        BY <1>1, <1>3, <3>1
      <4> QED BY <1>8, <4>1
    <3>2. CASE Len(mem) # 0
      <4>1. 1 \in 1..Len(mem)
        BY <1>1, <3>2
      <4>2. mem'[1] = mem[1]
        BY <1>2, <2>1, <4>1
      <4> QED BY <1>5, <1>8, <4>2 DEF BlocksOf
    <3> QED BY <3>1, <3>2
  <2>2. CASE as \notin {"2IMG", "DC42", "DVX_"}
    BY <1>5, <1>8, <2>2 DEF BlocksOf
  <2> QED BY <2>1, <2>2
<1>10. Blocks' = Blocks
  BY <1>8, <1>9, SameBlocks
<1>11. Bounds'
  BY <1>5, <1>8, <1>9, <1>10, <1>t DEF IInv, Bounds
<1>12. ASSUME NEW s \in 1..Whole(mem)
       PROVE  Mapped(mem', tail', s) = IF s = places[1] THEN Datum(p[1])
                                       ELSE IF s = places[2] THEN Datum(p[2])
                                       ELSE Mapped(mem, tail, s)
  <2>1. CASE s <= Len(mem)
    BY <1>1, <1>2, <1>5, <2>1 DEF Mapped
  <2>2. CASE s > Len(mem)
    <3>1. s - Len(mem) \in 1..TailSectors(mem) /\ Len(mem) + (s - Len(mem)) = s /\ ~(s <= Len(mem))
      BY <1>1, <1>t, <2>2
    <3> DEFINE i == s - Len(mem)
    <3>2. Mapped(mem', tail', s) = tail'[i] /\ Mapped(mem, tail, s) = tail[i]
      BY <1>5, <3>1 DEF Mapped
    <3>3. i \in 1..TailSectors(mem) /\ Len(mem) + i = s
      BY <3>1
    <3> HIDE DEF i
    <3> QED BY <1>6, <3>2, <3>3
  <2> QED BY <1>1, <1>t, <2>1, <2>2
<1> QED BY <1>5, <1>7, <1>10, <1>11, <1>12

(* A store in one block leaves what the others show.                       *)
LEMMA StoreKeeps ==
  ASSUME IInv, session = "open", UNCHANGED <<format, disk>>, UNCHANGED opened,
         NEW b \in Blocks, NEW p \in Patterns,
         NEW way \in Ways, Store(Places(way, as, b), p),
         \A c \in Blocks : Lies(Places(way, as, c), Whole(mem)),
         as \in {"2IMG", "DC42", "DVX_"} => Places(way, as, b)[1] # 1 /\ Places(way, as, b)[2] # 1,
         content' = [content EXCEPT ![b] = <<Datum(p[1]), Datum(p[2])>>]
  PROVE  /\ Images' /\ Bounds' /\ Blocks' = Blocks /\ Len(mem') = Len(mem)
         /\ DOMAIN content' = Blocks
         /\ \A half \in 1..2 :
              /\ Mapped(mem', tail', Places(way, as, b)[half]) = content'[b][half]
              /\ \A c \in Blocks \ {b} :
                   /\ Mapped(mem', tail', Places(way, as, c)[half])
                        = Mapped(mem, tail, Places(way, as, c)[half])
                   /\ content'[c] = content[c]
<1>1. Blocks \subseteq Nat /\ as \in Formats
  BY BlockFacts
<1> DEFINE places == Places(way, as, b)
<1>2. Lies(places, Whole(mem)) /\ places[1] # places[2]
  BY <1>1, PlacesFacts
<1>3. /\ Images' /\ Bounds' /\ Blocks' = Blocks /\ Len(mem') = Len(mem)
      /\ \A s \in 1..Whole(mem) :
           Mapped(mem', tail', s) = IF s = places[1] THEN Datum(p[1])
                                    ELSE IF s = places[2] THEN Datum(p[2])
                                    ELSE Mapped(mem, tail, s)
  BY <1>2, StoreFacts
<1>4. DOMAIN content = Blocks
  BY DEF IInv, Flags
<1>5. \A half \in 1..2 : Mapped(mem', tail', Places(way, as, b)[half]) = content'[b][half]
  <2>1. content'[b] = <<Datum(p[1]), Datum(p[2])>>
    BY <1>4
  <2>2. 1 \in 1..2 /\ 2 \in 1..2
    OBVIOUS
  <2>3. places[1] \in 1..Whole(mem) /\ places[2] \in 1..Whole(mem)
    BY <1>2, <2>2 DEF Lies
  <2> HIDE DEF places
  <2>4. Mapped(mem', tail', places[1]) = Datum(p[1]) /\ Mapped(mem', tail', places[2]) = Datum(p[2])
    BY <1>2, <1>3, <2>3
  <2>5. content'[b][1] = Datum(p[1]) /\ content'[b][2] = Datum(p[2])
    BY <2>1
  <2>6. \A half \in 1..2 : half = 1 \/ half = 2
    OBVIOUS
  <2>7. \A half \in 1..2 : Mapped(mem', tail', places[half]) = content'[b][half]
    BY <2>4, <2>5, <2>6, Zenon
  <2> QED BY <2>7 DEF places
<1>6. ASSUME NEW c \in Blocks \ {b}, NEW half \in 1..2
      PROVE  /\ Mapped(mem', tail', Places(way, as, c)[half])
                  = Mapped(mem, tail, Places(way, as, c)[half])
             /\ content'[c] = content[c]
  <2>1. Places(way, as, c)[half] \in 1..Whole(mem)
    BY DEF Lies
  <2>2. half = 1 \/ half = 2
    OBVIOUS
  <2>3. Places(way, as, c)[half] # places[1] /\ Places(way, as, c)[half] # places[2]
    <3>1. b \in Nat /\ c \in Nat /\ b # c
      BY <1>1
    <3> QED BY <1>1, <2>2, <3>1, PlacesFacts
  <2> DEFINE s == Places(way, as, c)[half]
  <2>4. s \in 1..Whole(mem) /\ s # places[1] /\ s # places[2]
    BY <2>1, <2>3
  <2> HIDE DEF s, places
  <2>5. Mapped(mem', tail', s) = Mapped(mem, tail, s)
    BY <1>3, <2>4
  <2> QED BY <1>4, <2>5 DEF s
<1>7. DOMAIN content' = Blocks
  BY <1>4
<1> QED BY <1>3, <1>5, <1>6, <1>7

(* The device, as long as it has no cache.                                 *)
LEMMA DeviceWriteKeeps ==
  ASSUME IInv, NEW b \in Blocks, NEW p \in Patterns, DeviceWrite(b, p)
  PROVE  IInv'
<1>1. session = "open" /\ ~cache /\ cache' = cache /\ Store(DeviceSectors(as, b), p)
      /\ UNCHANGED <<format, disk>> /\ UNCHANGED opened /\ UNCHANGED <<dirty, held, poked>>
      /\ as' = as /\ session' = session /\ readOnly' = readOnly
      /\ content' = [content EXCEPT ![b] = <<Datum(p[1]), Datum(p[2])>>]
      /\ changed' = (as = "DC42") /\ stores' = stores + 1 /\ stores < MaxStores /\ ~readOnly
      /\ stored' = stored \union {<<"device", b>>}
  BY DEF DeviceWrite, Stores, MayStore, opened
<1>2. as \in Formats /\ Len(mem) \in Nat /\ Blocks \subseteq Nat
  BY <1>1, BlockFacts
<1>3. "device" \in Ways /\ \A c : Places("device", as, c) = DeviceSectors(as, c)
  BY DEF Ways, Places
<1>4. as \in {"2IMG", "DC42", "DVX_"} =>
        DeviceSectors(as, b)[1] # 1 /\ DeviceSectors(as, b)[2] # 1
  <2>1. b \in Nat /\ 1 \in 1..2 /\ 2 \in 1..2
    BY <1>2
  <2>2. \A i \in 1..2 : DeviceSectors(as, b)[i] \in Nat /\ DeviceSectors(as, b)[i] > HeaderSectors(as)
    BY <1>2, <2>1, DevicePlaces
  <2>3. as \in {"2IMG", "DC42", "DVX_"} => HeaderSectors(as) \in {1, 2}
    BY DEF HeaderSectors
  <2>4. \A n \in Nat, h \in {1, 2} : n > h => n # 1
    OBVIOUS
  <2> QED BY <2>1, <2>2, <2>3, <2>4
<1>5. \A c \in Blocks : Lies(DeviceSectors(as, c), Whole(mem))
  BY <1>1 DEF IInv, Bounds
<1>6. /\ Images' /\ Bounds' /\ Blocks' = Blocks /\ DOMAIN content' = Blocks
      /\ \A half \in 1..2 :
           /\ Mapped(mem', tail', DeviceSectors(as, b)[half]) = content'[b][half]
           /\ \A c \in Blocks \ {b} :
                /\ Mapped(mem', tail', DeviceSectors(as, c)[half])
                     = Mapped(mem, tail, DeviceSectors(as, c)[half])
                /\ content'[c] = content[c]
      /\ Len(mem') = Len(mem)
  <2>1. /\ Store(Places("device", as, b), p)
        /\ \A c \in Blocks : Lies(Places("device", as, c), Whole(mem))
        /\ as \in {"2IMG", "DC42", "DVX_"} =>
             Places("device", as, b)[1] # 1 /\ Places("device", as, b)[2] # 1
    BY <1>1, <1>3, <1>4, <1>5
  <2>2. /\ Images' /\ Bounds' /\ Blocks' = Blocks /\ Len(mem') = Len(mem)
        /\ DOMAIN content' = Blocks
        /\ \A half \in 1..2 :
             /\ Mapped(mem', tail', Places("device", as, b)[half]) = content'[b][half]
             /\ \A c \in Blocks \ {b} :
                  /\ Mapped(mem', tail', Places("device", as, c)[half])
                       = Mapped(mem, tail, Places("device", as, c)[half])
                  /\ content'[c] = content[c]
    BY <1>1, <1>3, <2>1, StoreKeeps
  <2> QED BY <1>3, <2>2
<1>7. Flags'
  <2>1. stores' \in 0..MaxStores
    BY <1>1, SizeFacts DEF IInv, Flags
  <2>2. changed' \in BOOLEAN /\ (changed' => as' = "DC42" /\ ~readOnly')
    BY <1>1
  <2> QED BY <1>1, <1>6, <2>1, <2>2 DEF IInv, Flags
<1>8. Marked'
  <2>1. \A c : <<"cache", c>> # <<"device", b>>
    OBVIOUS
  <2> QED BY <1>1, <2>1 DEF IInv, Marked
<1>9. BlocksKept'
  <2>1. ASSUME NEW c \in Blocks, NEW half \in 1..2
        PROVE  \/ Mapped(mem', tail', DeviceSectors(as, c)[half]) = content'[c][half]
               \/ DeviceSectors(as, c)[half] > Len(mem)
                  /\ Mapped(mem', tail', DeviceSectors(as, c)[half]) = Zero
    <3>1. CASE c = b
      BY <1>6, <3>1
    <3>2. CASE c # b
      <4>1. \/ Mapped(mem, tail, DeviceSectors(as, c)[half]) = content[c][half]
            \/ DeviceSectors(as, c)[half] > Len(mem)
               /\ Mapped(mem, tail, DeviceSectors(as, c)[half]) = Zero
        BY <1>1 DEF IInv, BlocksKept
      <4>2. Mapped(mem', tail', DeviceSectors(as, c)[half])
              = Mapped(mem, tail, DeviceSectors(as, c)[half]) /\ content'[c] = content[c]
        BY <1>6, <3>2
      <4> QED BY <4>1, <4>2
    <3> QED BY <3>1, <3>2
  <2>2. ~cache' /\ as' = as /\ Blocks' = Blocks /\ Len(mem') = Len(mem)
    BY <1>1, <1>6
  <2> QED BY <2>1, <2>2 DEF BlocksKept
<1>10. Declared'
  BY <1>1 DEF Declared
<1> QED BY <1>6, <1>7, <1>8, <1>9, <1>10 DEF IInv

(* A store through the cache, by write() or through a pointer given out.   *)
LEMMA CacheStoresFacts ==
  ASSUME Boot >= 1, IInv, NEW b \in Blocks, NEW p \in Patterns, CacheStores(b, p)
  PROVE  /\ Images' /\ Bounds' /\ Marked' /\ BlocksKept' /\ Blocks' = Blocks
         /\ DOMAIN content' = Blocks /\ stores' \in 0..MaxStores
         /\ session' = session /\ as' = as /\ readOnly' = readOnly
         /\ changed' = changed /\ cache' = cache /\ cache
         /\ stored' = stored \union {<<"cache", b>>} /\ disk' = disk
         /\ \A c \in Blocks \ {b} : \A half \in 1..2 :
              mem'[CacheSectors(as, c)[half]] = mem[CacheSectors(as, c)[half]]
<1>1. session = "open" /\ cache /\ cache' = cache /\ Store(CacheSectors(as, b), p) /\ b >= Boot
      /\ UNCHANGED <<format, disk>> /\ UNCHANGED opened /\ found' = found
      /\ as' = as /\ session' = session /\ readOnly' = readOnly /\ changed' = changed
      /\ content' = [content EXCEPT ![b] = <<Datum(p[1]), Datum(p[2])>>]
      /\ stores' = stores + 1 /\ stores < MaxStores /\ ~readOnly
      /\ stored' = stored \union {<<"cache", b>>}
  BY DEF CacheStores, Stores, MayStore, opened
<1>2. as \in Formats /\ as \in MappedFormats /\ Len(mem) \in Nat /\ Blocks \subseteq Nat
  BY <1>1, BlockFacts
<1>3. "cache" \in Ways /\ \A c : Places("cache", as, c) = CacheSectors(as, c)
  BY DEF Ways, Places
<1>4. \A c \in Blocks : Lies(CacheSectors(as, c), Len(mem))
  BY <1>1, <1>2 DEF IInv, Bounds
<1>5. \A c \in Blocks : Lies(CacheSectors(as, c), Whole(mem))
  <2>1. Whole(mem) \in Nat /\ Whole(mem) >= Len(mem)
    BY <1>2, WholeFacts
  <2>2. \A s \in 1..Len(mem) : s \in 1..Whole(mem)
    BY <1>2, <2>1
  <2> QED BY <1>4, <2>2 DEF Lies
<1>6. CacheSectors(as, b)[1] # 1 /\ CacheSectors(as, b)[2] # 1
  <2>1. b \in Nat /\ b # 0 /\ 1 \in 1..2 /\ 2 \in 1..2
    BY <1>1, <1>2, SizeFacts
  <2>2. \A i \in 1..2 : CacheSectors(as, b)[i] # 1
    BY <1>2, <2>1, CachePlaces
  <2> QED BY <2>1, <2>2
<1>7. /\ Images' /\ Bounds' /\ Blocks' = Blocks /\ Len(mem') = Len(mem)
      /\ DOMAIN content' = Blocks
      /\ \A half \in 1..2 :
           /\ Mapped(mem', tail', CacheSectors(as, b)[half]) = content'[b][half]
           /\ \A c \in Blocks \ {b} :
                /\ Mapped(mem', tail', CacheSectors(as, c)[half])
                     = Mapped(mem, tail, CacheSectors(as, c)[half])
                /\ content'[c] = content[c]
  <2>1. /\ Store(Places("cache", as, b), p)
        /\ \A c \in Blocks : Lies(Places("cache", as, c), Whole(mem))
        /\ as \in {"2IMG", "DC42", "DVX_"} =>
             Places("cache", as, b)[1] # 1 /\ Places("cache", as, b)[2] # 1
    BY <1>1, <1>3, <1>5, <1>6
  <2>2. /\ Images' /\ Bounds' /\ Blocks' = Blocks /\ Len(mem') = Len(mem)
        /\ DOMAIN content' = Blocks
        /\ \A half \in 1..2 :
             /\ Mapped(mem', tail', Places("cache", as, b)[half]) = content'[b][half]
             /\ \A c \in Blocks \ {b} :
                  /\ Mapped(mem', tail', Places("cache", as, c)[half])
                       = Mapped(mem, tail, Places("cache", as, c)[half])
                  /\ content'[c] = content[c]
    BY <1>1, <1>3, <2>1, StoreKeeps
  <2> QED BY <1>3, <2>2
<1>8. ASSUME NEW c \in Blocks \ {b}, NEW half \in 1..2
      PROVE  mem'[CacheSectors(as, c)[half]] = mem[CacheSectors(as, c)[half]]
  <2>1. CacheSectors(as, c)[half] \in 1..Len(mem)
    BY <1>4 DEF Lies
  <2>2. Mapped(mem', tail', CacheSectors(as, c)[half]) = Mapped(mem, tail, CacheSectors(as, c)[half])
    BY <1>7
  <2> DEFINE s == CacheSectors(as, c)[half]
  <2>3. s \in 1..Len(mem) /\ Mapped(mem', tail', s) = Mapped(mem, tail, s) /\ Len(mem') = Len(mem)
    BY <1>7, <2>1, <2>2
  <2> HIDE DEF s
  <2>4. mem'[s] = mem[s]
    BY <1>2, <2>3 DEF Mapped
  <2> QED BY <2>4 DEF s
<1>9. Marked'
  BY <1>1 DEF IInv, Marked
<1>10. stores' \in 0..MaxStores
  BY <1>1, SizeFacts DEF IInv, Flags
<1>11. BlocksKept'
  <2>1. CASE as = "DC42"
    <3>1. ASSUME NEW c \in Blocks, NEW half \in 1..2
          PROVE  Mapped(mem', tail', CacheSectors(as, c)[half])
                   = IF <<"cache", c>> \in stored' THEN content'[c][half] ELSE found'[c][half]
      <4>1. CASE c = b
        <5>1. <<"cache", c>> \in stored'
          BY <1>1, <4>1
        <5> QED BY <1>7, <4>1, <5>1
      <4>2. CASE c # b
        <5>1. <<"cache", c>> \in stored' <=> <<"cache", c>> \in stored
          BY <1>1, <4>2
        <5>2. Mapped(mem, tail, CacheSectors(as, c)[half])
                = IF <<"cache", c>> \in stored THEN content[c][half] ELSE found[c][half]
          BY <1>1, <2>1 DEF IInv, BlocksKept
        <5>3. Mapped(mem', tail', CacheSectors(as, c)[half])
                = Mapped(mem, tail, CacheSectors(as, c)[half]) /\ content'[c] = content[c]
          BY <1>7, <4>2
        <5> QED BY <1>1, <5>1, <5>2, <5>3
      <4> QED BY <4>1, <4>2
    <3> QED BY <1>1, <1>7, <2>1, <3>1 DEF BlocksKept
  <2>2. CASE as # "DC42"
    <3>1. \A c \in Blocks : CacheSectors(as, c) = DeviceSectors(as, c)
      BY <1>2, <2>2, SamePlaces
    <3>2. ASSUME NEW c \in Blocks, NEW half \in 1..2
          PROVE  \/ Mapped(mem', tail', CacheSectors(as, c)[half]) = content'[c][half]
                 \/ CacheSectors(as, c)[half] > Len(mem)
                    /\ Mapped(mem', tail', CacheSectors(as, c)[half]) = Zero
      <4>1. CASE c = b
        BY <1>7, <4>1
      <4>2. CASE c # b
        <5>1. \/ Mapped(mem, tail, CacheSectors(as, c)[half]) = content[c][half]
              \/ CacheSectors(as, c)[half] > Len(mem)
                 /\ Mapped(mem, tail, CacheSectors(as, c)[half]) = Zero
          BY <1>1, <2>2 DEF IInv, BlocksKept
        <5>2. Mapped(mem', tail', CacheSectors(as, c)[half])
                = Mapped(mem, tail, CacheSectors(as, c)[half]) /\ content'[c] = content[c]
          BY <1>7, <4>2
        <5> QED BY <5>1, <5>2
      <4> QED BY <4>1, <4>2
    <3>3. as' = as /\ Blocks' = Blocks /\ Len(mem') = Len(mem)
      BY <1>1, <1>7
    <3> QED BY <2>2, <3>1, <3>2, <3>3 DEF BlocksKept
  <2> QED BY <2>1, <2>2
<1> QED BY <1>1, <1>7, <1>8, <1>9, <1>10, <1>11

LEMMA CacheWriteKeeps ==
  ASSUME Boot >= 1, IInv, NEW b \in Blocks, NEW p \in Patterns, CacheWrite(b, p)
  PROVE  IInv'
<1>1. CacheStores(b, p) /\ held = NoBlock /\ held' = held /\ poked' = poked /\ dirty' = TRUE
  BY DEF CacheWrite
<1>2. /\ Images' /\ Bounds' /\ Marked' /\ BlocksKept' /\ Blocks' = Blocks
      /\ DOMAIN content' = Blocks /\ stores' \in 0..MaxStores
      /\ session' = session /\ as' = as /\ readOnly' = readOnly
      /\ changed' = changed /\ cache' = cache /\ cache
  BY <1>1, CacheStoresFacts
<1>3. Flags'
  BY <1>1, <1>2 DEF IInv, Flags
<1>4. Declared'
  BY <1>1 DEF Declared
<1> QED BY <1>2, <1>3, <1>4 DEF IInv

LEMMA PokeKeeps ==
  ASSUME Boot >= 1, IInv, NEW p \in Patterns, Poke(p)
  PROVE  IInv'
<1>1. CacheStores(held, p) /\ held # NoBlock /\ held' = held /\ poked' = TRUE /\ dirty' = dirty
      /\ held \in Blocks
  BY DEF Poke, IInv, Flags
<1>2. /\ Images' /\ Bounds' /\ Marked' /\ BlocksKept' /\ Blocks' = Blocks
      /\ DOMAIN content' = Blocks /\ stores' \in 0..MaxStores
      /\ session' = session /\ as' = as /\ readOnly' = readOnly
      /\ changed' = changed /\ cache' = cache /\ cache
      /\ stored' = stored \union {<<"cache", held>>} /\ disk' = disk
      /\ \A c \in Blocks \ {held} : \A half \in 1..2 :
           mem'[CacheSectors(as, c)[half]] = mem[CacheSectors(as, c)[half]]
  BY <1>1, CacheStoresFacts
<1>3. Flags'
  BY <1>1, <1>2 DEF IInv, Flags
<1>4. Declared'
  <2>1. ASSUME ~dirty, NEW c \in Blocks, <<"cache", c>> \in stored', <<"failed", c>> \notin stored',
               c # held, NEW half \in 1..2
        PROVE  disk[CacheSectors(as, c)[half]] = mem'[CacheSectors(as, c)[half]]
    <3>1. <<"cache", c>> \in stored /\ <<"failed", c>> \notin stored
      BY <1>2, <2>1
    <3>2. disk[CacheSectors(as, c)[half]] = mem[CacheSectors(as, c)[half]]
      BY <1>2, <2>1, <3>1 DEF IInv, Declared
    <3>3. mem'[CacheSectors(as, c)[half]] = mem[CacheSectors(as, c)[half]]
      BY <1>2, <2>1
    <3> QED BY <3>2, <3>3
  <2> QED BY <1>1, <1>2, <2>1 DEF Declared
<1> QED BY <1>2, <1>3, <1>4 DEF IInv

-----------------------------------------------------------------------------
(* Opening and closing.                                                    *)

(* A process that opens a valid image starts with what the image has.      *)
LEMMA OpenAsKeeps ==
  ASSUME IInv, NEW f \in Formats, NEW ro \in BOOLEAN, session = "closed",
         OpenAs(f, ro), Images', Valid(f, mem')
  PROVE  IInv'
<1>1. session' = "open" /\ as' = f /\ readOnly' = ro /\ stored' = {}
      /\ content' = [b \in 0..BlocksOf(f, mem')-1 |-> Seen(mem', tail', DeviceSectors(f, b))]
      /\ changed' = changed /\ cache' = cache /\ dirty' = dirty /\ held' = held
      /\ poked' = poked /\ stores' = stores
  BY DEF OpenAs
<1>2. ~changed /\ ~cache /\ ~dirty /\ held = NoBlock /\ ~poked
      /\ changed \in BOOLEAN /\ cache \in BOOLEAN /\ dirty \in BOOLEAN /\ poked \in BOOLEAN
  BY DEF IInv, Flags, MappedFormats
<1>3. IsImage(mem') /\ BlocksOf(f, mem') \in Nat /\ (f = "DC42" => Len(mem') >= 1)
      /\ \A b \in 0..BlocksOf(f, mem')-1 :
           /\ Lies(DeviceSectors(f, b), Whole(mem'))
           /\ f \in MappedFormats => Lies(CacheSectors(f, b), Len(mem'))
  <2>1. IsImage(mem')
    BY DEF Images
  <2> QED BY <2>1, ValidFacts, DeviceLies
<1>4. Blocks' = 0..BlocksOf(f, mem')-1
  BY <1>1 DEF Blocks
<1>5. DOMAIN content' = Blocks'
  BY <1>1, <1>4
<1>6. Flags'
  <2>1. f # "none" /\ stores' \in 0..MaxStores
    BY <1>1 DEF Formats, IInv, Flags
  <2> QED BY <1>1, <1>2, <1>5, <2>1 DEF Flags
<1>7. Marked' /\ Declared'
  BY <1>1, <1>2 DEF Marked, Declared
<1>8. Bounds'
  BY <1>1, <1>3, <1>4 DEF Bounds
<1>9. BlocksKept'
  <2>1. \A b \in Blocks', half \in 1..2 :
          content'[b][half] = Mapped(mem', tail', DeviceSectors(f, b)[half])
    BY <1>1, <1>4 DEF Seen
  <2> QED BY <1>1, <1>2, <2>1 DEF BlocksKept
<1> QED BY <1>6, <1>7, <1>8, <1>9 DEF IInv

LEMMA CreateKeeps ==
  ASSUME IInv, NEW f \in Formats, NEW n \in Sizes[f], Create(f, n)
  PROVE  IInv'
<1> DEFINE m == Created(f, n)
<1>1. session = "closed" /\ format' = f /\ mem' = m /\ OpenAs(f, FALSE) /\ tail' = ZeroTail(m)
      /\ disk' = IF f \in {"DC42", "DVX_"} THEN m ELSE [s \in DOMAIN m |-> Zero]
  BY DEF Create
<1> HIDE DEF m
<1>2. IsImage(m) /\ Len(m) = HeaderSectors(f) + 2 * n /\ Valid(f, m)
  BY CreatedFacts DEF m
<1>3. IsImage(disk') /\ Len(disk') = Len(m)
  <2>1. CASE f \in {"DC42", "DVX_"}
    BY <1>1, <1>2, <2>1
  <2>2. CASE f \notin {"DC42", "DVX_"}
    <3>1. DOMAIN m = 1..Len(m) /\ Len(m) \in Nat
      BY <1>2 DEF IsImage
    <3>2. disk' = [s \in 1..Len(m) |-> Zero]
      BY <1>1, <2>2, <3>1
    <3>3. disk' = [s \in 1..Len(m) |-> disk'[s]] /\ \A s \in 1..Len(m) : disk'[s] = Zero
      BY <3>2
    <3>4. IsCell(Zero)
      BY CellFacts DEF Zero
    <3> QED BY <3>1, <3>3, <3>4, ImageFacts
  <2> QED BY <2>1, <2>2
<1>4. Images'
  <2>1. Len(m) - HeaderSectors(f) = 2 * n
    BY <1>2, HeaderFacts, SizeFacts
  <2>2. DOMAIN tail' = 1..TailSectors(m)
    BY <1>1 DEF ZeroTail
  <2> QED BY <1>1, <1>2, <1>3, <2>1, <2>2 DEF Images
<1> QED BY <1>1, <1>2, <1>4, OpenAsKeeps

LEMMA OpenKeeps ==
  ASSUME IInv, NEW type \in (Formats \ {"RAW_"}) \union {"none"}, NEW ro \in BOOLEAN, Open(type, ro)
  PROVE  IInv'
<1> DEFINE f == IF format = "RAW_" THEN "RAW_" ELSE IF type = "none" THEN ImageType(mem) ELSE type
<1>1. session = "closed" /\ Valid(f, mem) /\ OpenAs(f, ro) /\ UNCHANGED image
  BY DEF Open
<1>2. f \in Formats
  BY DEF ImageType, Formats
<1> HIDE DEF f
<1>3. format' = format /\ mem' = mem /\ disk' = disk /\ tail' = tail
  BY <1>1 DEF image
<1>4. Images'
  BY <1>3 DEF IInv, Images
<1>5. Valid(f, mem') /\ OpenAs(f, ro)
  BY <1>1, <1>3
<1> QED BY <1>1, <1>2, <1>4, <1>5, OpenAsKeeps

(* The destructors: the checksum, then the sync, each of which may throw.  *)
LEMMA SummedFacts ==
  ASSUME IInv, changed
  PROVE  /\ IsImage(Summed(mem)) /\ Len(Summed(mem)) = Len(mem) /\ 1 \in DOMAIN mem
         /\ Summed(mem) = [mem EXCEPT ![1] = Heading("DC42", mem[1][2], Checksum(mem))]
<1> DEFINE m == Summed(mem)
<1>1. Len(mem) \in Nat /\ DOMAIN mem = 1..Len(mem) /\ \A t \in 1..Len(mem) : IsCell(mem[t])
  BY DEF IInv, Images, IsImage
<1>2. as = "DC42" /\ Len(mem) >= 1
  BY DEF IInv, Flags, Bounds
<1>3. 1 \in 1..Len(mem) /\ mem[1][2] \in Nat
  BY <1>1, <1>2, CellFacts
<1>4. m = [mem EXCEPT ![1] = Heading("DC42", mem[1][2], Checksum(mem))]
  BY DEF Summed
<1> HIDE DEF m
<1>5. m = [t \in 1..Len(mem) |-> m[t]]
      /\ \A t \in 1..Len(mem) : m[t] = mem[t] \/ m[t] = Heading("DC42", mem[1][2], Checksum(mem))
  BY <1>1, <1>4
<1>6. IsCell(Heading("DC42", mem[1][2], Checksum(mem)))
  BY <1>3, CellFacts, "DC42" \in Formats DEF Formats
<1>7. \A t \in 1..Len(mem) : IsCell(m[t])
  BY <1>1, <1>5, <1>6
<1>8. IsImage(m) /\ Len(m) = Len(mem)
  BY <1>1, <1>5, <1>7, ImageFacts
<1> QED BY <1>1, <1>3, <1>4, <1>8 DEF m

(* An end that leaves the sectors, or those of the disk, or the checksum.  *)
LEMMA EndFacts ==
  ASSUME IInv, Gone, mem' \in {mem, disk} \/ (changed /\ mem' = Summed(mem)),
         disk' \in {disk, mem'}, tail' \in {tail, ZeroTail(mem)}
  PROVE  IInv'
<1>1. IsImage(mem') /\ Len(mem') = Len(mem)
  BY SummedFacts DEF IInv, Images
<1>2. IsImage(disk') /\ Len(disk') = Len(mem)
  BY <1>1 DEF IInv, Images
<1>3. TailSectors(mem') = TailSectors(mem)
  BY <1>1 DEF TailSectors
<1>4. DOMAIN tail' = 1..TailSectors(mem')
  BY <1>3 DEF IInv, Images, ZeroTail
<1>5. format' = format
  BY DEF Gone
<1>6. Images'
  BY <1>1, <1>2, <1>4, <1>5 DEF IInv, Images
<1> QED BY <1>6, GoneKeeps

LEMMA CloseFacts ==
  ASSUME IInv, Close
  PROVE  /\ IInv' /\ (changed => mem' = Summed(mem) /\ 1 \in DOMAIN mem)
         /\ disk' = (IF changed \/ (cache /\ dirty) THEN mem' ELSE disk)
         /\ (~changed => mem' = mem)
<1>1. Gone /\ mem' = (IF changed THEN Summed(mem) ELSE mem) /\ tail' = tail
      /\ disk' = (IF changed \/ (cache /\ dirty) THEN mem' ELSE disk)
  BY DEF Close
<1>2. changed \in BOOLEAN
  BY DEF IInv, Flags
<1> QED BY <1>1, <1>2, EndFacts, SummedFacts

LEMMA EndKeeps ==
  ASSUME IInv, Kill \/ PowerFails \/ CloseThrows
  PROVE  IInv'
<1>1. CASE Kill
  BY <1>1, EndFacts DEF Kill
<1>2. CASE PowerFails
  BY <1>2, EndFacts DEF PowerFails
<1>3. CASE CloseThrows
  <2>1. Gone /\ disk' = disk /\ tail' = tail /\ (changed \/ (cache /\ dirty))
        /\ mem' = IF cache /\ dirty THEN mem ELSE Summed(mem)
    BY <1>3 DEF CloseThrows
  <2> QED BY <2>1, EndFacts
<1> QED BY <1>1, <1>2, <1>3

-----------------------------------------------------------------------------
(* The steps that leave the sectors, and some of them reach the disk.      *)

(* From here on blocks are read and stored through the mapping.            *)
LEMMA CreateBlockCacheKeeps ==
  ASSUME IInv, CreateBlockCache
  PROVE  IInv'
<1>1. session = "open" /\ ~cache /\ as \in MappedFormats
      /\ cache' = TRUE /\ dirty' = FALSE /\ held' = NoBlock
      /\ changed' = (changed \/ (as = "DC42" /\ ~readOnly))
      /\ found' = [b \in Blocks |-> Shown(CacheSectors(as, b))]
      /\ UNCHANGED <<format, mem, disk, tail, as, session, readOnly, poked, stores, content, stored>>
  BY DEF CreateBlockCache, image, opened
<1>2. Blocks \subseteq Nat /\ as \in Formats
  BY <1>1, BlockFacts
<1>3. Blocks' = Blocks /\ Images' /\ Bounds'
  <2>1. IsImage(disk') /\ Len(disk') = Len(mem) /\ session # "closed" /\ session' # "closed"
    BY <1>1 DEF IInv, Images
  <2> QED BY <1>1, <2>1, SamePlace
<1>4. Flags'
  <2>1. DOMAIN content' = Blocks
    BY <1>1 DEF IInv, Flags
  <2>2. changed' \in BOOLEAN /\ (changed' => as = "DC42" /\ ~readOnly)
    BY <1>1 DEF IInv, Flags
  <2>3. poked => FALSE
    BY <1>1 DEF IInv, Flags
  <2> QED BY <1>1, <1>3, <2>1, <2>2, <2>3 DEF IInv, Flags
<1>5. Marked'
  BY <1>1 DEF IInv, Marked
<1>6. Declared'
  BY <1>1 DEF IInv, Marked, Declared
<1>7. BlocksKept'
  <2>1. CASE as = "DC42"
    <3>1. \A b \in Blocks, half \in 1..2 :
            found'[b][half] = Mapped(mem, tail, CacheSectors(as, b)[half])
      BY <1>1 DEF Shown, Seen
    <3>2. \A b : <<"cache", b>> \notin stored'
      BY <1>1 DEF IInv, Marked
    <3> QED BY <1>1, <1>3, <2>1, <3>1, <3>2 DEF BlocksKept
  <2>2. CASE as # "DC42"
    <3>1. \A b \in Blocks : CacheSectors(as, b) = DeviceSectors(as, b)
      BY <1>1, <1>2, <2>2, SamePlaces
    <3> QED BY <1>1, <1>3, <2>2, <3>1 DEF IInv, BlocksKept
  <2> QED BY <2>1, <2>2
<1> QED BY <1>3, <1>4, <1>5, <1>6, <1>7 DEF IInv

(* The rest: what is given out, declared and written changes, the content  *)
(* does not.                                                               *)
LEMMA QuietKeeps ==
  ASSUME IInv, UNCHANGED <<format, mem, as, readOnly, changed, cache, stores, content, found>>,
         session' \in {"open", "thrown"}, session # "closed",
         IsImage(disk'), Len(disk') = Len(mem), tail' \in {tail, ZeroTail(mem)},
         \A s \in stored' : s \in stored \/ s[1] = "failed",
         \A b : <<"cache", b>> \in stored => <<"cache", b>> \in stored',
         dirty' \in BOOLEAN, poked' \in BOOLEAN, held' \in {NoBlock} \union Blocks,
         dirty' \/ held' # NoBlock => cache, poked' => held' # NoBlock,
         Declared'
  PROVE  IInv'
<1>1. session' # "closed"
  OBVIOUS
<1>2. \A b : <<"cache", b>> \in stored' <=> <<"cache", b>> \in stored
  <2>1. \A b : <<"cache", b>>[1] # "failed"
    OBVIOUS
  <2> QED BY <2>1
<1>3. Blocks' = Blocks /\ Images' /\ Bounds' /\ BlocksKept'
  BY <1>1, <1>2, SamePlace
<1>4. Flags'
  BY <1>1, <1>3 DEF IInv, Flags
<1>5. Marked'
  BY <1>2 DEF IInv, Marked
<1> QED BY <1>3, <1>4, <1>5 DEF IInv

LEMMA HeldFacts ==
  ASSUME IInv, held # NoBlock
  PROVE  cache /\ session # "closed" /\ as \in Formats /\ held \in Blocks /\ Blocks \subseteq Nat
<1>1. cache /\ session # "closed" /\ held \in Blocks
  BY DEF IInv, Flags, MappedFormats
<1> QED BY <1>1, BlockFacts

LEMMA HandlingKeeps ==
  ASSUME IInv, \/ \E b \in Blocks : Acquire(b)
               \/ MarkDirty
               \/ \E isDirty \in BOOLEAN : Release(isDirty)
  PROVE  IInv'
<1>0. UNCHANGED <<format, mem, disk, tail, session, as, readOnly, changed, cache, stores, content,
                  found, stored>>
  BY DEF Acquire, MarkDirty, Release, image, opened, noted
<1>1. session # "closed" /\ session' \in {"open", "thrown"}
  BY <1>0, HeldFacts DEF Acquire, MarkDirty, Release, IInv, Flags
<1>2. IsImage(disk') /\ Len(disk') = Len(mem)
  BY <1>0 DEF IInv, Images
<1>3. Blocks' = Blocks
  <2>1. BlocksOf(as, mem)' = BlocksOf(as, mem)
    BY <1>0
  <2> QED BY <1>0, <1>1, <2>1, SameBlocks
<1>4. cache /\ cache'
  BY <1>0, HeldFacts DEF Acquire, MarkDirty, Release
<1>5. ASSUME \A c \in Blocks : ~dirty' /\ ~(poked' /\ c = held') => ~dirty /\ ~(poked /\ c = held)
      PROVE  Declared'
  BY <1>0, <1>3, <1>4, <1>5 DEF IInv, Declared
<1>6. CASE \E b \in Blocks : Acquire(b)
  <2>1. PICK b \in Blocks : Acquire(b)
    BY <1>6
  <2>2. held = NoBlock /\ held' = b /\ dirty' = dirty /\ poked' = poked
    BY <2>1 DEF Acquire
  <2>3. ~poked /\ dirty \in BOOLEAN /\ poked \in BOOLEAN
    BY <2>2 DEF IInv, Flags
  <2>4. Declared'
    BY <1>5, <2>2, <2>3
  <2> QED BY <1>0, <1>1, <1>2, <1>4, <2>2, <2>3, <2>4, QuietKeeps
<1>7. CASE MarkDirty
  <2>1. held # NoBlock /\ held' = held /\ dirty' = TRUE /\ poked' = FALSE
    BY <1>7 DEF MarkDirty
  <2>2. held' \in {NoBlock} \union Blocks
    BY <2>1 DEF IInv, Flags
  <2>3. Declared'
    BY <1>5, <2>1
  <2> QED BY <1>0, <1>1, <1>2, <1>4, <2>1, <2>2, <2>3, QuietKeeps
<1>8. CASE \E isDirty \in BOOLEAN : Release(isDirty)
  <2>1. PICK isDirty \in BOOLEAN : Release(isDirty)
    BY <1>8
  <2>2. (poked => isDirty) /\ dirty' = (dirty \/ isDirty) /\ held' = NoBlock /\ poked' = FALSE
    BY <2>1 DEF Release
  <2>3. dirty' \in BOOLEAN
    BY <2>2
  <2>4. Declared'
    BY <1>5, <2>2
  <2> QED BY <1>0, <1>1, <1>2, <1>4, <2>2, <2>3, <2>4, QuietKeeps
<1> QED BY <1>6, <1>7, <1>8

(* What is written to the disk agrees with memory; the rest stays.         *)
LEMMA DiskFacts ==
  ASSUME IInv, session # "closed", Blocks' = Blocks, as' = as, mem' = mem, cache' = cache,
         \A b : <<"cache", b>> \in stored' => <<"cache", b>> \in stored,
         \A b : <<"failed", b>> \in stored => <<"failed", b>> \in stored', dirty' = dirty,
         \A s \in 1..Len(mem) : disk[s] = mem[s] => disk'[s] = mem[s],
         \A c \in Blocks : poked /\ c = held /\ ~(poked' /\ c = held') =>
           \/ <<"failed", c>> \in stored'
           \/ \A half \in 1..2 : disk'[CacheSectors(as, c)[half]] = mem[CacheSectors(as, c)[half]]
  PROVE  Declared'
<1> SUFFICES ASSUME cache, ~dirty, NEW c \in Blocks, <<"cache", c>> \in stored',
                    <<"failed", c>> \notin stored', ~(poked' /\ c = held'), NEW half \in 1..2
             PROVE  disk'[CacheSectors(as, c)[half]] = mem[CacheSectors(as, c)[half]]
  BY DEF Declared
<1>1. CacheSectors(as, c)[half] \in 1..Len(mem)
  BY BlockFacts DEF IInv, Bounds, Lies
<1>2. CASE poked /\ c = held
  BY <1>2
<1>3. CASE ~(poked /\ c = held)
  <2>1. disk[CacheSectors(as, c)[half]] = mem[CacheSectors(as, c)[half]]
    BY <1>3 DEF IInv, Declared
  <2> QED BY <1>1, <2>1
<1> QED BY <1>2, <1>3

LEMMA SyncKeeps ==
  ASSUME IInv, DeviceSync \/ CacheSync \/ SyncThrows
  PROVE  IInv'
<1>1. UNCHANGED <<format, mem, tail, as, readOnly, changed, cache, held, poked, stores, content,
                  found, stored>>
      /\ session = "open" /\ session' \in {"open", "thrown"} /\ disk' \in {mem, disk}
  BY DEF DeviceSync, CacheSync, SyncThrows, DeviceSynced, FileSynced, image, opened, noted
<1>2. dirty' \in BOOLEAN /\ (dirty' => dirty)
  <2>1. dirty' = dirty \/ dirty' = FALSE
    BY DEF DeviceSync, CacheSync, SyncThrows
  <2>2. dirty \in BOOLEAN
    BY DEF IInv, Flags
  <2>3. CASE dirty' = dirty
    BY <2>2, <2>3
  <2>4. CASE dirty' = FALSE
    BY <2>4
  <2> QED BY <2>1, <2>3, <2>4
<1>3. IsImage(disk') /\ Len(disk') = Len(mem)
  BY <1>1 DEF IInv, Images
<1>4. Blocks' = Blocks
  <2>1. BlocksOf(as, mem)' = BlocksOf(as, mem)
    BY <1>1
  <2> QED BY <1>1, <2>1, SameBlocks
<1>5. Declared'
  <2>1. CASE DeviceSync
    BY <1>1, <2>1 DEF DeviceSync, Declared
  <2>2. CASE CacheSync
    BY <1>1, <2>2 DEF CacheSync, FileSynced, Declared
  <2>3. CASE SyncThrows
    <3>1. disk' = disk /\ dirty' = dirty
      BY <2>3 DEF SyncThrows, image
    <3> QED BY <1>1, <1>4, <3>1 DEF IInv, Declared
  <2> QED BY <2>1, <2>2, <2>3
<1>6. held \in {NoBlock} \union Blocks /\ poked \in BOOLEAN /\ (poked => held # NoBlock)
      /\ (dirty \/ held # NoBlock => cache)
  BY DEF IInv, Flags
<1> QED BY <1>1, <1>2, <1>3, <1>5, <1>6, QuietKeeps

(* A store where a process may only read changes nothing.                  *)
LEMMA StoreReadOnlyKeeps ==
  ASSUME IInv, StoreReadOnly
  PROVE  IInv'
<1>1. CASE as = "RAW_"
  <2>1. UNCHANGED <<format, mem, disk, tail, as, readOnly, changed, cache, dirty, held, poked, stores,
                    content, found, stored>>
        /\ session = "open" /\ session' = "thrown"
    BY <1>1 DEF StoreReadOnly, noted
  <2>2. Blocks' = Blocks
    BY <2>1, SameBlocks
  <2>3. Declared'
    BY <2>1, <2>2 DEF IInv, Declared
  <2>4. IsImage(disk') /\ Len(disk') = Len(mem) /\ dirty' \in BOOLEAN /\ poked' \in BOOLEAN
        /\ held' \in {NoBlock} \union Blocks /\ (dirty' \/ held' # NoBlock => cache)
        /\ (poked' => held' # NoBlock)
    BY <2>1 DEF IInv, Images, Flags
  <2> QED BY <2>1, <2>3, <2>4, QuietKeeps
<1>2. CASE as # "RAW_"
  <2>1. Gone /\ UNCHANGED <<mem, disk, tail>>
    BY <1>2 DEF StoreReadOnly
  <2> QED BY <2>1, EndFacts
<1> QED BY <1>1, <1>2

(* A commit writes the sectors of its block, and spoils no other.          *)
LEMMA CommitFacts ==
  ASSUME IInv, CommitNow
  PROVE  /\ cache /\ session # "closed" /\ as \in Formats /\ held \in Blocks
         /\ \A half \in 1..2 : disk'[CacheSectors(as, held)[half]] = mem[CacheSectors(as, held)[half]]
         /\ IsImage(disk') /\ Len(disk') = Len(mem)
         /\ \A s \in 1..Len(mem) : disk[s] = mem[s] => disk'[s] = mem[s]
<1> DEFINE pages == Range(CommitPages(CacheSectors(as, held)))
<1>1. held # NoBlock /\ disk' = Written(mem, disk, pages)
  BY DEF CommitNow
<1>2. cache /\ session # "closed" /\ as \in Formats /\ held \in Blocks /\ Blocks \subseteq Nat
  BY <1>1, HeldFacts
<1>3. \A half \in 1..2 : PageOf(CacheSectors(as, held)[half]) \in pages
  BY <1>2, PairPages
<1> HIDE DEF pages
<1>4. /\ IsImage(disk') /\ Len(disk') = Len(mem)
      /\ \A s \in 1..Len(mem) : /\ PageOf(s) \in pages => disk'[s] = mem[s]
                                /\ disk[s] = mem[s] => disk'[s] = mem[s]
  BY <1>1, WrittenFacts DEF IInv
<1>5. \A half \in 1..2 : CacheSectors(as, held)[half] \in 1..Len(mem)
  BY <1>2, BlockFacts DEF IInv, Bounds, Lies
<1>6. \A half \in 1..2 : disk'[CacheSectors(as, held)[half]] = mem[CacheSectors(as, held)[half]]
  <2> SUFFICES ASSUME NEW half \in 1..2
               PROVE  disk'[CacheSectors(as, held)[half]] = mem[CacheSectors(as, held)[half]]
    OBVIOUS
  <2> DEFINE x == CacheSectors(as, held)[half]
  <2>1. x \in 1..Len(mem) /\ PageOf(x) \in pages
    BY <1>3, <1>5
  <2> HIDE DEF x
  <2>2. disk'[x] = mem[x]
    BY <1>4, <2>1
  <2> QED BY <2>2 DEF x
<1> QED BY <1>2, <1>4, <1>6

LEMMA CommitNowKeeps ==
  ASSUME IInv, CommitNow
  PROVE  IInv'
<1>1. UNCHANGED <<format, mem, tail, as, readOnly, changed, cache, dirty, stores, content, found, stored>>
      /\ held' = NoBlock /\ poked' = FALSE
  BY DEF CommitNow, noted
<1>2. /\ cache /\ session # "closed" /\ as \in Formats /\ held \in Blocks
      /\ \A half \in 1..2 : disk'[CacheSectors(as, held)[half]] = mem[CacheSectors(as, held)[half]]
      /\ IsImage(disk') /\ Len(disk') = Len(mem)
      /\ \A s \in 1..Len(mem) : disk[s] = mem[s] => disk'[s] = mem[s]
  BY CommitFacts
<1>3. session' \in {"open", "thrown"} /\ dirty \in BOOLEAN /\ as \in MappedFormats
  BY <1>2 DEF CommitNow, IInv, Flags
<1>4. Blocks' = Blocks
  <2>1. BlocksOf(as, mem)' = BlocksOf(as, mem)
    BY <1>1
  <2> QED BY <1>1, <1>2, <1>3, <2>1, SameBlocks
<1>5. Declared'
  <2>1. \A c \in Blocks : poked /\ c = held /\ ~(poked' /\ c = held') =>
          \A half \in 1..2 : disk'[CacheSectors(as, c)[half]] = mem[CacheSectors(as, c)[half]]
    <3>1. ASSUME NEW c \in Blocks, c = held, NEW half \in 1..2
          PROVE  disk'[CacheSectors(as, c)[half]] = mem[CacheSectors(as, c)[half]]
      <4>1. disk'[CacheSectors(as, held)[half]] = mem[CacheSectors(as, held)[half]]
        BY <1>2
      <4> QED BY <3>1, <4>1, Zenon
    <3> QED BY <3>1, Zenon
  <2>2. \A s \in 1..Len(mem) : disk[s] = mem[s] => disk'[s] = mem[s]
    BY <1>2
  <2>3. session # "closed"
    BY <1>2
  <2> QED BY <1>1, <1>4, <2>1, <2>2, <2>3, DiskFacts
<1> QED BY <1>1, <1>2, <1>3, <1>5, QuietKeeps

(* A commit that throws says so of its block.                              *)
LEMMA CommitThrowsKeeps ==
  ASSUME IInv, CommitThrows
  PROVE  IInv'
<1>1. UNCHANGED <<format, mem, disk, tail, as, readOnly, changed, cache, dirty, stores, content, found>>
      /\ session' = "thrown" /\ held # NoBlock /\ held' = NoBlock /\ poked' = FALSE
      /\ stored' = stored \union {<<"failed", held>>}
  BY DEF CommitThrows, image
<1>2. cache /\ session # "closed" /\ dirty \in BOOLEAN
  BY <1>1, HeldFacts DEF IInv, Flags
<1>3. Blocks' = Blocks
  BY <1>1, <1>2, SameBlocks
<1>4. \A b : <<"cache", b>> \in stored' <=> <<"cache", b>> \in stored
  <2>1. \A b : <<"cache", b>> # <<"failed", held>>
    OBVIOUS
  <2> QED BY <1>1, <2>1
<1>5. Declared'
  <2>1. <<"failed", held>> \in stored' /\ \A b : <<"failed", b>> \in stored => <<"failed", b>> \in stored'
    BY <1>1
  <2>2. \A s \in 1..Len(mem) : disk[s] = mem[s] => disk'[s] = mem[s]
    BY <1>1
  <2> QED BY <1>1, <1>2, <1>3, <1>4, <2>1, <2>2, DiskFacts
<1>6. IsImage(disk') /\ Len(disk') = Len(mem)
  BY <1>1 DEF IInv, Images
<1>7. \A s \in stored' : s \in stored \/ s[1] = "failed"
  BY <1>1
<1> QED BY <1>1, <1>2, <1>4, <1>5, <1>6, <1>7, QuietKeeps

(* The system writes a page, or clears what comes after the file.          *)
LEMMA SystemKeeps ==
  ASSUME IInv, (\E page : PageReachesDisk(page)) \/ TailCleared
  PROVE  IInv'
<1>1. UNCHANGED <<format, mem, session, as, readOnly, changed, cache, dirty, held, poked, stores,
                  content, found, stored>>
      /\ tail' \in {tail, ZeroTail(mem)}
  BY DEF PageReachesDisk, TailCleared, opened, noted
<1>2. /\ IsImage(disk') /\ Len(disk') = Len(mem)
      /\ \A s \in 1..Len(mem) : disk[s] = mem[s] => disk'[s] = mem[s]
  <2>1. disk' = disk \/ \E page : disk' = Written(mem, disk, {page})
    BY DEF PageReachesDisk, TailCleared
  <2>2. IsImage(disk) /\ Len(disk) = Len(mem)
    BY DEF IInv, Images
  <2> QED BY <2>1, <2>2, WrittenFacts DEF IInv
<1>3. Blocks' = Blocks
  BY <1>1 DEF Blocks
<1>4. CASE session = "closed"
  <2>1. DOMAIN tail' = 1..TailSectors(mem)
    BY <1>1 DEF IInv, Images, ZeroTail
  <2>2. Images'
    BY <1>1, <1>2, <2>1 DEF IInv, Images
  <2>3. Flags' /\ Marked'
    BY <1>1, <1>3 DEF IInv, Flags, Marked
  <2>4. ~cache' /\ Blocks' = {}
    BY <1>1, <1>3, <1>4 DEF IInv, Flags, MappedFormats, Blocks
  <2> QED BY <1>1, <1>4, <2>2, <2>3, <2>4 DEF IInv, Bounds, BlocksKept, Declared
<1>5. CASE session # "closed"
  <2>1. session' \in {"open", "thrown"}
        /\ dirty' \in BOOLEAN /\ poked' \in BOOLEAN /\ held' \in {NoBlock} \union Blocks
        /\ (dirty' \/ held' # NoBlock => cache) /\ (poked' => held' # NoBlock)
    BY <1>1, <1>5 DEF IInv, Flags
  <2>2. Declared'
    BY <1>1, <1>2, <1>3, <1>5, DiskFacts
  <2> QED BY <1>1, <1>2, <1>5, <2>1, <2>2, QuietKeeps
<1> QED BY <1>4, <1>5

LEMMA StutterKeeps ==
  ASSUME IInv, UNCHANGED vars
  PROVE  IInv'
<1>1. UNCHANGED <<format, mem, disk, tail, session, as, readOnly, changed, cache, dirty, held, poked,
                  stores, content, found, stored>>
  BY DEF vars, image, opened, noted
<1>2. Images' /\ Marked'
  BY <1>1 DEF IInv, Images, Marked
<1>3. Blocks' = Blocks
  BY <1>1 DEF Blocks
<1>4. Flags'
  BY <1>1, <1>3 DEF IInv, Flags
<1>5. Bounds' /\ Declared' /\ BlocksKept'
  BY <1>1, <1>3 DEF IInv, Bounds, Declared, BlocksKept
<1> QED BY <1>2, <1>4, <1>5 DEF IInv

(* Every step keeps the invariant.                                         *)
LEMMA StepKeeps ==
  ASSUME Boot >= 1, IInv, [Next]_vars
  PROVE  IInv'
<1>1. CASE \E f \in Formats : \E n \in Sizes[f] : Create(f, n)
  BY <1>1, CreateKeeps
<1>2. CASE \E type \in (Formats \ {"RAW_"}) \union {"none"}, ro \in BOOLEAN : Open(type, ro)
  BY <1>2, OpenKeeps
<1>3. CASE \E b \in Blocks, p \in Patterns : DeviceWrite(b, p) \/ CacheWrite(b, p)
  BY <1>3, DeviceWriteKeeps, CacheWriteKeeps
<1>4. CASE \/ \E b \in Blocks : Acquire(b)
           \/ MarkDirty
           \/ \E isDirty \in BOOLEAN : Release(isDirty)
  BY <1>4, HandlingKeeps
<1>5. CASE \E p \in Patterns : Poke(p)
  BY <1>5, PokeKeeps
<1>6. CASE DeviceSync \/ CacheSync \/ SyncThrows
  BY <1>6, SyncKeeps
<1>7. CASE CreateBlockCache
  BY <1>7, CreateBlockCacheKeeps
<1>8. CASE CommitNow \/ CommitThrows
  BY <1>8, CommitNowKeeps, CommitThrowsKeeps
<1>9. CASE Close
  BY <1>9, CloseFacts
<1>10. CASE Kill \/ PowerFails \/ CloseThrows
  BY <1>10, EndKeeps
<1>11. CASE (\E page \in Pages(mem) : PageReachesDisk(page)) \/ TailCleared
  BY <1>11, SystemKeeps
<1>12. CASE StoreReadOnly
  BY <1>12, StoreReadOnlyKeeps
<1>13. CASE UNCHANGED vars
  BY <1>13, StutterKeeps
<1> QED BY <1>1, <1>2, <1>3, <1>4, <1>5, <1>6, <1>7, <1>8, <1>9, <1>10, <1>11, <1>12, <1>13 DEF Next

-----------------------------------------------------------------------------
(* What the invariant gives.                                               *)

LEMMA CommitIsSettled == IInv => CommitSettles
BY CommitFacts DEF CommitSettles

LEMMA CloseIsSettled == IInv => CloseSettles
<1> SUFFICES ASSUME IInv, Close PROVE CloseSettles
  BY DEF CloseSettles
<1>1. /\ (changed => mem' = Summed(mem) /\ 1 \in DOMAIN mem)
      /\ disk' = (IF changed \/ (cache /\ dirty) THEN mem' ELSE disk)
      /\ (~changed => mem' = mem)
  BY CloseFacts
<1>2. held = NoBlock
  BY DEF Close
<1>3. ASSUME NEW b \in Blocks, <<"cache", b>> \in stored, <<"failed", b>> \notin stored,
             NEW half \in 1..2
      PROVE  disk'[CacheSectors(as, b)[half]] = mem'[CacheSectors(as, b)[half]]
  <2>1. CASE changed \/ (cache /\ dirty)
    <3>1. disk' = mem'
      BY <1>1, <2>1
    <3> QED BY <3>1
  <2>2. CASE ~(changed \/ (cache /\ dirty))
    <3>1. mem' = mem /\ disk' = disk
      BY <1>1, <2>2
    <3>2. cache /\ ~dirty /\ ~poked
      BY <1>2, <1>3, <2>2 DEF IInv, Flags, Marked
    <3>3. disk[CacheSectors(as, b)[half]] = mem[CacheSectors(as, b)[half]]
      BY <1>3, <3>2 DEF IInv, Declared
    <3> QED BY <3>1, <3>3
  <2> QED BY <2>1, <2>2
<1>4. ASSUME as = "DC42", \E s \in stored : s[1] # "failed"
      PROVE  mem'[1] = Heading("DC42", mem[1][2], Checksum(mem))
  <2>1. changed
    BY <1>4 DEF IInv, Marked
  <2>2. mem' = [mem EXCEPT ![1] = Heading("DC42", mem[1][2], Checksum(mem))] /\ 1 \in DOMAIN mem
    BY <1>1, <2>1 DEF Summed
  <2> QED BY <2>2
<1> QED BY <1>3, <1>4 DEF CloseSettles

LEMMA TypesHold == IInv => TypeOK
<1> SUFFICES ASSUME IInv PROVE TypeOK
  OBVIOUS
<1>1. \A s \in Range(mem) \union Range(disk) : s[1] \in Formats \union {"data"}
  <2>1. DOMAIN mem = 1..Len(mem) /\ DOMAIN disk = 1..Len(disk)
    BY DEF IInv, Images, IsImage
  <2>2. \A t \in 1..Len(mem) : mem[t][1] \in Formats \union {"data"}
    BY CellFacts DEF IInv, Images, IsImage
  <2>3. \A t \in 1..Len(disk) : disk[t][1] \in Formats \union {"data"}
    BY CellFacts DEF IInv, Images, IsImage
  <2> QED BY <2>1, <2>2, <2>3 DEF Range
<1>2. DOMAIN disk = DOMAIN mem
  BY DEF IInv, Images, IsImage
<1> QED BY <1>1, <1>2 DEF IInv, Images, Flags, TypeOK

(* The invariant holds where the volume asks its cache for no block 0,     *)
(* whatever the sizes of the images, their contents, the pages and the     *)
(* number of stores.                                                       *)
THEOREM Invariance ==
  ASSUME Boot >= 1
  PROVE  Spec => []IInv
<1>1. Init => IInv
  BY InitHolds
<1>2. IInv /\ [Next]_vars => IInv'
  BY StepKeeps
<1> QED BY <1>1, <1>2, PTL DEF Spec

(* The sectors, those after the file, the cache flags and the held block   *)
(* keep their types; only a DiskCopy image that may be written is ever     *)
(* marked changed.                                                         *)
THEOREM TypesStay ==
  ASSUME Boot >= 1
  PROVE  Spec => []TypeOK
BY TypesHold, Invariance, PTL

(* No store, by the device or through a cache, spoils another block, in    *)
(* images of any size: a block shows what was last stored in it or what    *)
(* was found in it, but for the sectors of an incomplete DOS order track   *)
(* after the end of the file, which may be cleared.  Of a DiskCopy image's *)
(* cache it is said of what that cache shows, not of what the device does. *)
THEOREM BlocksAreKept ==
  ASSUME Boot >= 1
  PROVE  Spec => []BlocksKept
<1>1. IInv => BlocksKept
  BY DEF IInv
<1> QED BY <1>1, Invariance, PTL

(* What a commit and a close that do not throw have promised is on the     *)
(* disk, the checksum of a DiskCopy image with it.                         *)
THEOREM PromisesAreSettled ==
  ASSUME Boot >= 1
  PROVE  Spec => Settled
<1>1. IInv => CommitSettles /\ CloseSettles
  BY CommitIsSettled, CloseIsSettled
<1> QED BY <1>1, Invariance, PTL DEF Spec, Settled
=============================================================================
