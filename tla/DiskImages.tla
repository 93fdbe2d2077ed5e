----------------------------- MODULE DiskImages -----------------------------
(***************************************************************************)
(* The files and devices a volume lives in, and the mapped block cache     *)
(* over them: Device/BlockDevice.cpp, its formats, Device/Adaptor.cpp,     *)
(* Cache/MappedBlockCache.cpp and File/MappedFile.cpp.                     *)
(*                                                                         *)
(* An image is a sequence of sectors of 256 bytes.  newfs_pascal creates   *)
(* one; later processes open it, as the format it has or as one it can be  *)
(* taken for, and store through the device or through its cache.  Stores   *)
(* reach the shared mapping, and pages of it the disk, when the system     *)
(* likes or when msync is called.  The mapping goes on after the end of    *)
(* the file to the end of its last page; what is stored there never is on  *)
(* the disk.  A process can be killed, and the power can fail.             *)
(***************************************************************************)
EXTENDS Integers, Sequences, SequencesExt, FiniteSets

CONSTANTS
  Sizes,        \* Sizes[f]: the numbers of blocks an image of format f may have
  Patterns,     \* what a block can hold: pairs of small numbers
  Boot,         \* the volume asks its cache for blocks from this one on
  PageSectors,  \* how many sectors a page has: whole tracks
  SumBits,      \* the width of a checksum
  MaxStores     \* bound: how many stores all the processes make

Formats == {"2IMG", "DC42", "DO__", "PO__", "DVX_", "RAW_"}
MappedFormats == {"2IMG", "DC42", "PO__", "DVX_"}
TrackSectors == 16

ASSUME DiskImagesAssumption ==
  /\ \A f \in Formats : Sizes[f] \subseteq Nat \ {0}
  /\ Patterns \subseteq Nat \X Nat /\ <<0, 0>> \in Patterns
  /\ Boot \in Nat /\ PageSectors \in Nat \ {0} /\ PageSectors % TrackSectors = 0
  /\ SumBits \in Nat \ {0} /\ MaxStores \in Nat

VARIABLES
  format,   \* the format the image was created with, or "none"
  mem,      \* its sectors, as every process sees them
  disk,     \* its sectors on the disk
  tail,     \* what the mapping has after them, to the end of the last page
  session,  \* "closed", "open", or "thrown": an exception is on its way to main
  as,       \* the format the process took the image for
  readOnly, \* the process opened it read-only
  changed,  \* DiskCopy42Image::_changed
  cache,    \* the process has a MappedBlockCache
  dirty,    \* its _dirty
  held,     \* the block it has given a pointer to, or NoBlock
  poked,    \* the caller has stored through the pointer and not said so
  stores,   \* how many stores there were
  content,  \* what was last stored in each block, for the properties
  found,    \* what the cache showed when it was made, for the properties
  stored    \* the blocks stored by the process, and how, for the properties

image == <<format, mem, disk, tail>>
opened == <<session, as, readOnly>>
noted == <<stores, content, found, stored>>
vars == <<image, opened, changed, cache, dirty, held, poked, noted>>

NoBlock == -1

-----------------------------------------------------------------------------
(* Formats.                                                                *)

Datum(v) == <<"data", v>>
Zero == Datum(0)
Heading(f, n, sum) == <<f, n, sum>>

(* 64 and 84 bytes are less than a sector, and take one here.              *)
HeaderSectors(f) ==
  CASE f \in {"2IMG", "DC42"} -> 1 [] f = "DVX_" -> 2 [] OTHER -> 0

Created(f, n) ==
  [s \in 1..HeaderSectors(f) + 2 * n |->
     IF s = 1 /\ HeaderSectors(f) > 0 THEN Heading(f, n, 0) ELSE Zero]

Headed(f, m) == Len(m) > 0 /\ Len(m[1]) = 3 /\ m[1][1] = f

BlocksOf(f, m) ==
  CASE f \in {"2IMG", "DC42"} -> m[1][2]
    [] f = "DVX_" -> Len(m) \div 2 - 1
    [] OTHER -> Len(m) \div 2

(* Validate() of each format.                                              *)
ValidUniversal(m) ==
  Headed("2IMG", m) /\ HeaderSectors("2IMG") + 2 * m[1][2] <= Len(m)
ValidDiskCopy(m) ==
  Headed("DC42", m) /\ HeaderSectors("DC42") + 2 * m[1][2] <= Len(m)
ValidDavex(m) ==
  Headed("DVX_", m) /\ Len(m) % 2 = 0 /\ m[1][2] = Len(m) \div 2 - 1

Valid(f, m) ==
  CASE f = "2IMG" -> ValidUniversal(m)
    [] f = "DC42" -> ValidDiskCopy(m)
    [] f = "DVX_" -> ValidDavex(m)
    [] OTHER -> Len(m) % 2 = 0

(* Without a type given: a Davex image and a DOS order image are taken for *)
(* ProDOS order.                                                           *)
ImageType(m) ==
  IF ValidUniversal(m) THEN "2IMG" ELSE IF ValidDiskCopy(m) THEN "DC42" ELSE "PO__"

-----------------------------------------------------------------------------
(* Where a block lies.                                                     *)

SectorMap_Typo == <<0, 14, 13, 12, 11, 10, 9, 8, 7, 6, 5, 4, 3, 2, 0, 15>>
SectorMap == <<0, 14, 13, 12, 11, 10, 9, 8, 7, 6, 5, 4, 3, 2, 1, 15>>

DOSSector(b, half) ==
  TrackSectors * (b \div 8) + SectorMap[2 * (b % 8) + half]

DeviceSectors(f, b) ==
  [half \in 1..2 |->
     1 + (IF f = "DO__" THEN DOSSector(b, half)
                        ELSE HeaderSectors(f) + 2 * b + half - 1)]

(* createBlockCache() maps the cache of a DiskCopy image from the header   *)
(* on, of the others from the data.                                        *)
CacheStart(f) == IF f = "DC42" THEN 0 ELSE HeaderSectors(f)
CacheSectors(f, b) == [half \in 1..2 |-> CacheStart(f) + 2 * b + half]

(* The sectors of the last page after the file's are zeros at first.       *)
TailSectors(m) == (PageSectors - (Len(m) % PageSectors)) % PageSectors
ZeroTail(m) == [t \in 1..TailSectors(m) |-> Zero]

Mapped(m, t, s) == IF s <= Len(m) THEN m[s] ELSE t[s - Len(m)]
Seen(m, t, sectors) == [half \in 1..2 |-> Mapped(m, t, sectors[half])]
Shown(sectors) == Seen(mem, tail, sectors)

(* `cells' follow the first `before' sectors of the mapping.               *)
Filled(cells, before, sectors, p) ==
  [i \in DOMAIN cells |-> IF before + i = sectors[1] THEN Datum(p[1])
                          ELSE IF before + i = sectors[2] THEN Datum(p[2])
                          ELSE cells[i]]
Store(sectors, p) ==
  mem' = Filled(mem, 0, sectors, p) /\ tail' = Filled(tail, Len(mem), sectors, p)

Blocks == IF session = "closed" THEN {} ELSE 0..BlocksOf(as, mem)-1

-----------------------------------------------------------------------------
(* The checksum of a DiskCopy image: add a word, rotate right.             *)

Rotated(n) == n \div 2 + (n % 2) * 2^(SumBits - 1)
Checksum(m) ==
  FoldLeft(LAMBDA sum, s : Rotated((sum + s[2]) % 2^SumBits), 0,
           SubSeq(m, 2, 1 + 2 * m[1][2]))
Summed(m) == [m EXCEPT ![1] = Heading("DC42", m[1][2], Checksum(m))]

-----------------------------------------------------------------------------
(* Pages.                                                                  *)

PageOf(s) == (s - 1) \div PageSectors
Pages(m) == {PageOf(s) : s \in DOMAIN m}
Written(m, d, pages) ==
  [s \in DOMAIN m |-> IF PageOf(s) \in pages THEN m[s] ELSE d[s]]

(* sync(block): the page the block starts on and the page after its last   *)
(* byte, which may lie after the mapping.                                  *)
CommitPages_Start(sectors) == <<PageOf(sectors[1]), PageOf(sectors[1])>>
CommitPages(sectors) == <<PageOf(sectors[1]), PageOf(sectors[2] + 1)>>

-----------------------------------------------------------------------------
(* Create and open.                                                        *)

Init ==
  /\ format = "none" /\ mem = <<>> /\ disk = <<>> /\ tail = <<>>
  /\ session = "closed" /\ as = "none" /\ readOnly = FALSE /\ changed = FALSE
  /\ cache = FALSE /\ dirty = FALSE /\ held = NoBlock /\ poked = FALSE
  /\ stores = 0 /\ content = <<>> /\ found = <<>> /\ stored = {}

OpenAs(f, ro) ==
  /\ session' = "open" /\ as' = f /\ readOnly' = ro
  /\ content' = [b \in 0..BlocksOf(f, mem')-1 |-> Seen(mem', tail', DeviceSectors(f, b))]
  /\ stored' = {}
  /\ UNCHANGED <<changed, cache, dirty, held, poked, stores, found>>

(* newfs_pascal, over what was there before unless it is a device.  The    *)
(* header reaches the disk at once for two formats.                        *)
Create(f, n) ==
  /\ session = "closed" /\ format # "RAW_" /\ (f = "RAW_" => format = "none")
  /\ format' = f
  /\ mem' = Created(f, n) /\ tail' = ZeroTail(mem')
  /\ disk' = IF f \in {"DC42", "DVX_"} THEN Created(f, n)
             ELSE [s \in DOMAIN Created(f, n) |-> Zero]
  /\ OpenAs(f, FALSE)

(* A block device is opened whatever type is given.                        *)
Open(type, ro) ==
  LET f == IF format = "RAW_" THEN "RAW_"
           ELSE IF type = "none" THEN ImageType(mem) ELSE type IN
  /\ session = "closed" /\ format # "none"
  /\ Valid(f, mem) /\ (f = "RAW_" => format = "RAW_")
  /\ UNCHANGED image /\ OpenAs(f, ro)

(* The device, alone or with its cache, can be reached no more.            *)
Gone ==
  /\ session' = "closed" /\ as' = "none" /\ readOnly' = FALSE
  /\ changed' = FALSE /\ cache' = FALSE /\ dirty' = FALSE
  /\ held' = NoBlock /\ poked' = FALSE
  /\ content' = <<>> /\ found' = <<>> /\ stored' = {}
  /\ UNCHANGED <<format, stores>>

-----------------------------------------------------------------------------
(* The device.                                                             *)

MayStore == session = "open" /\ ~readOnly /\ stores < MaxStores

Stores(way, b, p) ==
  /\ stores' = stores + 1
  /\ content' = [content EXCEPT ![b] = <<Datum(p[1]), Datum(p[2])>>]
  /\ stored' = stored \union {<<way, b>>}
  /\ UNCHANGED <<format, disk, cache, found>> /\ UNCHANGED opened

(* Nobody writes to a device that has a cache: newfs_pascal's boot blocks  *)
(* come before it.  A block of the last, incomplete track of a DOS order   *)
(* image may lie after the end of the file, in its last page.              *)
DeviceWrite(b, p) ==
  /\ MayStore /\ ~cache
  /\ Store(DeviceSectors(as, b), p) /\ Stores("device", b, p)
  /\ changed' = (as = "DC42")
  /\ UNCHANGED <<dirty, held, poked>>

(* Neither a device nor its cache looks whether it may be stored in, they  *)
(* leave that to their callers.  A raw device throws, and a process that   *)
(* stores in a file mapped read-only is stopped.                           *)
StoreReadOnly ==
  /\ session = "open" /\ readOnly /\ UNCHANGED <<mem, disk, tail>>
  /\ IF as = "RAW_"
       THEN /\ session' = "thrown"
            /\ UNCHANGED <<format, as, readOnly, changed, cache, dirty, held, poked>>
            /\ UNCHANGED noted
       ELSE Gone

(* A raw device opened read-only has nothing to sync.                      *)
FileSynced == mem
DeviceSynced == IF as = "RAW_" /\ readOnly THEN disk ELSE FileSynced

DeviceSync ==
  /\ session = "open" /\ ~cache
  /\ disk' = DeviceSynced
  /\ UNCHANGED <<format, mem, tail, changed, cache, dirty, held, poked>>
  /\ UNCHANGED opened /\ UNCHANGED noted

(* The sync of a device or its cache throws.  What of it has reached the   *)
(* disk has done so by itself.                                             *)
SyncThrows ==
  /\ session = "open" /\ held = NoBlock /\ ~(as = "RAW_" /\ readOnly)
  /\ session' = "thrown"
  /\ UNCHANGED <<as, readOnly, changed, cache, dirty, held, poked>>
  /\ UNCHANGED image /\ UNCHANGED noted

-----------------------------------------------------------------------------
(* The mapped cache.                                                       *)

CreateBlockCache_Anyway ==
  /\ session = "open" /\ ~cache /\ as \in MappedFormats
  /\ cache' = TRUE /\ dirty' = FALSE /\ held' = NoBlock
  /\ changed' = (changed \/ as = "DC42")
  /\ found' = [b \in Blocks |-> Shown(CacheSectors(as, b))]
  /\ UNCHANGED <<poked, stores, content, stored>> /\ UNCHANGED image /\ UNCHANGED opened

CreateBlockCache ==
  /\ session = "open" /\ ~cache /\ as \in MappedFormats
  /\ cache' = TRUE /\ dirty' = FALSE /\ held' = NoBlock
  /\ changed' = (changed \/ (as = "DC42" /\ ~readOnly))
  /\ found' = [b \in Blocks |-> Shown(CacheSectors(as, b))]
  /\ UNCHANGED <<poked, stores, content, stored>> /\ UNCHANGED image /\ UNCHANGED opened

CacheStores(b, p) ==
  /\ MayStore /\ cache /\ b >= Boot
  /\ Store(CacheSectors(as, b), p) /\ Stores("cache", b, p)
  /\ UNCHANGED changed

(* write() and zeroBlock().                                                *)
CacheWrite(b, p) ==
  /\ held = NoBlock /\ CacheStores(b, p) /\ dirty' = TRUE
  /\ UNCHANGED <<held, poked>>

Acquire(b) ==
  /\ session = "open" /\ cache /\ held = NoBlock /\ b >= Boot
  /\ held' = b
  /\ UNCHANGED <<changed, cache, dirty, poked>>
  /\ UNCHANGED image /\ UNCHANGED opened /\ UNCHANGED noted

Poke(p) ==
  /\ held # NoBlock /\ CacheStores(held, p) /\ poked' = TRUE
  /\ UNCHANGED <<dirty, held>>

MarkDirty ==
  /\ held # NoBlock /\ dirty' = TRUE /\ poked' = FALSE
  /\ UNCHANGED <<changed, cache, held>>
  /\ UNCHANGED image /\ UNCHANGED opened /\ UNCHANGED noted

(* A caller that has stored says so, here or by markDirty().               *)
Release(isDirty) ==
  /\ held # NoBlock /\ (poked => isDirty)
  /\ dirty' = (dirty \/ isDirty) /\ held' = NoBlock /\ poked' = FALSE
  /\ UNCHANGED <<changed, cache>>
  /\ UNCHANGED image /\ UNCHANGED opened /\ UNCHANGED noted

CommitNow ==
  LET pages == CommitPages(CacheSectors(as, held)) IN
  /\ held # NoBlock
  /\ disk' = Written(mem, disk, Range(pages))
  /\ IF Range(pages) \subseteq Pages(mem)
       THEN UNCHANGED session ELSE session' = "thrown"
  /\ held' = NoBlock /\ poked' = FALSE
  /\ UNCHANGED <<format, mem, tail, as, readOnly, changed, cache, dirty>>
  /\ UNCHANGED noted

(* An msync of the commit fails: the block is not dirty either.            *)
CommitThrows ==
  /\ held # NoBlock /\ session' = "thrown"
  /\ held' = NoBlock /\ poked' = FALSE
  /\ stored' = stored \union {<<"failed", held>>}
  /\ UNCHANGED <<as, readOnly, changed, cache, dirty, stores, content, found>>
  /\ UNCHANGED image

CacheSync ==
  /\ session = "open" /\ cache /\ held = NoBlock
  /\ disk' = FileSynced /\ dirty' = FALSE
  /\ UNCHANGED <<format, mem, tail, changed, cache, held, poked>>
  /\ UNCHANGED opened /\ UNCHANGED noted

-----------------------------------------------------------------------------
(* The ends of a process, and of the machine.                              *)

(* The cache syncs if dirty; a changed DiskCopy image gets its checksum    *)
(* and is synced; the file is unmapped.                                    *)
Close ==
  /\ session \in {"open", "thrown"} /\ held = NoBlock
  /\ mem' = IF changed THEN Summed(mem) ELSE mem
  /\ disk' = IF changed \/ (cache /\ dirty) THEN mem' ELSE disk
  /\ UNCHANGED tail /\ Gone

(* A sync that throws in a destructor ends the process, that of the cache  *)
(* before the checksum is made.                                            *)
CloseThrows ==
  /\ session \in {"open", "thrown"} /\ held = NoBlock /\ (changed \/ (cache /\ dirty))
  /\ mem' = IF cache /\ dirty THEN mem ELSE Summed(mem)
  /\ UNCHANGED <<disk, tail>> /\ Gone

Kill ==
  /\ session # "closed"
  /\ UNCHANGED <<mem, disk, tail>> /\ Gone

PowerFails ==
  /\ mem # disk
  /\ mem' = disk /\ tail' = ZeroTail(mem) /\ UNCHANGED disk
  /\ Gone

PageReachesDisk(page) ==
  /\ disk # Written(mem, disk, {page})
  /\ disk' = Written(mem, disk, {page})
  /\ UNCHANGED <<format, mem, tail, changed, cache, dirty, held, poked>>
  /\ UNCHANGED opened /\ UNCHANGED noted

(* When it writes the last page, or needs its memory, the system clears    *)
(* what comes after the file.                                              *)
TailCleared ==
  /\ tail # ZeroTail(mem) /\ tail' = ZeroTail(mem)
  /\ UNCHANGED <<format, mem, disk, changed, cache, dirty, held, poked>>
  /\ UNCHANGED opened /\ UNCHANGED noted

Next ==
  \/ \E f \in Formats : \E n \in Sizes[f] : Create(f, n)
  \/ \E type \in (Formats \ {"RAW_"}) \union {"none"}, ro \in BOOLEAN : Open(type, ro)
  \/ \E b \in Blocks, p \in Patterns :
       DeviceWrite(b, p) \/ CacheWrite(b, p)
  \/ \E b \in Blocks : Acquire(b)
  \/ \E p \in Patterns : Poke(p)
  \/ \E isDirty \in BOOLEAN : Release(isDirty)
  \/ StoreReadOnly \/ DeviceSync \/ SyncThrows \/ CreateBlockCache
  \/ MarkDirty \/ CommitNow \/ CommitThrows \/ CacheSync
  \/ Close \/ CloseThrows \/ Kill \/ PowerFails \/ TailCleared
  \/ \E page \in Pages(mem) : PageReachesDisk(page)

Spec == Init /\ [][Next]_vars

-----------------------------------------------------------------------------
(* Properties.                                                             *)

(* Types.  Only a DiskCopy image that may be written is marked changed:    *)
(* its destructor stores the checksum through the mapping, which a process *)
(* that opened the image read-only may not.                                *)
TypeOK ==
  /\ format \in Formats \union {"none"} /\ as \in Formats \union {"none"}
  /\ \A s \in Range(mem) \union Range(disk) : s[1] \in Formats \union {"data"}
  /\ DOMAIN disk = DOMAIN mem /\ DOMAIN tail = 1..TailSectors(mem)
  /\ format # "none" => Len(mem) - HeaderSectors(format) \in {2 * n : n \in Sizes[format]}
  /\ session \in {"closed", "open", "thrown"} /\ (session = "closed" <=> as = "none")
  /\ readOnly \in BOOLEAN /\ cache \in BOOLEAN /\ dirty \in BOOLEAN
  /\ changed => as = "DC42" /\ ~readOnly
  /\ cache => as \in MappedFormats
  /\ dirty \/ held # NoBlock => cache
  /\ held \in {NoBlock} \union Blocks /\ (poked => held # NoBlock)
  /\ stores \in 0..MaxStores /\ DOMAIN content = Blocks

(* A block reads as what was last stored in it by the process, or as it    *)
(* was found, whatever else was stored: by the device, and in every format *)
(* but one through the cache as well, whichever of the two it was stored   *)
(* through.  A sector after the end of the file may have been cleared      *)
(* instead.  A DiskCopy image's cache has its blocks elsewhere than the    *)
(* device: of them it is only said that each shows what was stored through *)
(* the cache, or still what the cache showed at first.                     *)
BlocksKept ==
  \A b \in Blocks, half \in 1..2 :
    LET at(sectors) == Mapped(mem, tail, sectors[half])
        Kept(sectors) == \/ at(sectors) = content[b][half]
                         \/ sectors[half] > Len(mem) /\ at(sectors) = Zero
    IN  /\ ~(cache /\ as = "DC42") => Kept(DeviceSectors(as, b))
        /\ cache /\ as # "DC42" => Kept(CacheSectors(as, b))
        /\ cache /\ as = "DC42" =>
             at(CacheSectors(as, b)) = IF <<"cache", b>> \in stored THEN content[b][half]
                                       ELSE found[b][half]

(* What a call that returns has promised is settled.  A block released     *)
(* with kBlockCommitNow is on the disk.  When a process closes its volume, *)
(* every block stored through a mapped cache and declared is on the disk,  *)
(* unless an exception has said that it is not, and the checksum of a      *)
(* DiskCopy image it has stored in is that of its data, whatever processes *)
(* killed before have left.                                                *)
CommitSettles ==
  CommitNow /\ session' = "open" =>
    \A half \in 1..2 : LET s == CacheSectors(as, held)[half] IN disk'[s] = mem[s]
CloseSettles ==
  Close =>
    /\ \A b \in Blocks : <<"cache", b>> \in stored /\ <<"failed", b>> \notin stored =>
         \A half \in 1..2 : LET s == CacheSectors(as, b)[half] IN disk'[s] = mem'[s]
    /\ as = "DC42" /\ (\E s \in stored : s[1] # "failed") =>
         mem'[1] = Heading("DC42", mem[1][2], Checksum(mem))
Settled == [][CommitSettles /\ CloseSettles]_vars
=============================================================================
