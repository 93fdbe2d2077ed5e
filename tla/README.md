# profuse in TLA+

profuse reads ProDOS and UCSD Pascal volumes through FUSE and changes Pascal
volumes with a command, `apfm`. These modules model its parts, TLC checks them
on small instances, and TLAPS proves for every instance what they say about the
buffer pool, the Pascal volume and its files, both mounts and the images.
Paths below are relative to `src/`, unless they are files of this directory.
`PROJECT.json` maps every definition to its lines.

    tlc -workers 2 -config ConcreteBlockCache.cfg MCConcreteBlockCache
    tlc -workers 2 -config PascalVolume.cfg MCPascalVolume
    tlc -workers 2 -config FusePascal.cfg MCFusePascal      (and so on)
    tlapm ConcreteBlockCacheProofs.tla      (and PascalVolumeProofs, PascalFilesProofs,
                                             FileEntryProofs, PascalFileProofs, FusePascalProofs,
                                             FuseProDOSProofs, DiskImagesProofs)

## 1. The system

    apfm ──────────► Pascal/VolumeEntry, FileEntry, TextWriter ─┐
    fuse_pascal ───► (same, read only, several threads)         ├─► Cache ─► Device ─► File
    profuse ───────► ProDOS/Disk ───────────────────────────────┼──────────► Device ─► File
    newfs_* ───────► volume creation ───────────────────────────┘

Everything is called synchronously: the file system asks the cache for a block,
the cache asks the device, the device a mapping or a descriptor. A device error
is an exception that unwinds every caller. There are no callbacks upward. The
only threads are the FUSE session's.

| Component (code) | State | Operations | What is hard | What makes it correct |
|---|---|---|---|---|
| Cache interface, `Cache/BlockCache` | none of its own | acquire, release, markDirty, read, write, zeroBlock, sync | pointers handed out while others read | one content for each block, however it is read; on the device after sync and close |
| Buffer pool, `Cache/ConcreteBlockCache` | buffers, their counts and dirty marks, a hash table with chains, a list of unused buffers | the same, plus newEntry, findEntry, removeEntry, addEntry, destructor | reuse of a buffer, the list with both its links, a device error between two changes of the structures | the list is exactly the unused buffers in LRU order; the table finds the one buffer of a block; nothing dirty is dropped |
| Mapped cache, `Cache/MappedBlockCache` | a mapping | the same, as pointers into the mapping | range checks, pages that straddle blocks | the same promise |
| Pascal directory, `Pascal/VolumeEntry` | `_files`, `_fileCount`, the directory blocks | open, create, unlink, rename, copy, krunch, writeEntry | slots move on disk and addresses move in memory by separate code; pointers held across that; killed between calls | directory and memory agree; extents ordered and disjoint; names unique; other files untouched |
| Pascal file, `Pascal/FileEntry` | first and last block, last byte, kind, `_maxFileSize`, page sizes of a text | read, write, truncate, setFileSize, setFileKind, setName, text read | sizes on a block boundary, cached sizes | a read returns what was written |
| Text writer, `Pascal/TextWriter` | pages, the one being filled | writeLine, blocks, data | the page boundary, compressed blanks | decoding gives the lines back |
| `bin/apfm` | none between commands | cat, cp, get, krunch, ls, mv, put, rm | several calls in one command | a killed command leaves a volume that opens |
| Pascal mount, `bin/fuse_pascal*` | the descriptor table and its free indexes | open, read, release, readdir, getattr, xattr | several session threads, no lock | a descriptor is one open file's until its release |
| ProDOS reader, `ProDOS/Disk`, `File` | block count, the device | ReadFile, ReadIndex, ReadDirectory, ReadVolume | sparse index blocks, offsets, damaged chains with a cycle | the bytes of the file; termination on a cycle |
| ProDOS mount, `bin/profuse*` | none but the disk | getattr, readdir, open, read, xattr | reads past the end of file | same bytes as the reader's |
| Bitmap, `ProDOS/Bitmap` | the bits, the count of free blocks, a cursor | alloc, free, load | last partial byte | the set of free blocks, count exact |
| Adaptors, `Device/Adaptor` | buffers | readBlock, writeBlock | interleave tables | blocks map to disjoint sectors |
| Images and devices, `Device/*` | offset, read-only, dirty checksum | open, create, read, write, sync, createBlockCache | offsets in 32 bits, header before the blocks, checksum at close | device and cache agree where a block is |
| SDK and NuFX, `Device/SDKImage`, `NuFX` | a temporary image | open | external library | unpacked once |
| Files and mappings, `File/*` | a descriptor, a mapping | open, adopt, close, sync | ownership | closed once |
| Dates | none | pack, unpack | year ranges | round trip |
| Volume creation, `bin/newfs_*` | none | create | sizes of devices | an empty volume opens |
| Legacy ProDOS (`Entry`, `Directory`, `VolumeDirectory`, `Buffer` in the root) | directory blocks | create, lookup | not built by any target | none stated |
| Byte order, `Endian` | none | read and write integers | none | round trip |
| xattr tool, `bin/xattr` | none | get, set, list, remove | none | none stated |

## 2. The modules

### BlockStore: what a cache promises

`store` is what each block contains for everybody; `disk` what the device has;
`held`, `pending` and `view` what each frame of the caller holds, has stored
without declaring, and sees. A step changes one block's content at most, every
pointer to it sees the change, and `disk` moves toward `store` and never away
from it. After `Sync` only blocks stored into but not yet declared may lag;
after `Close` none. `Fail` is a device error: it ends every holder and loses no
store. `CloseFails` is the destructor of a cache whose device cannot write: it
ends the process, and is the one step that may lose declared stores. A run or
theorem allows it by `CloseMayFail`.

### ConcreteBlockCache: the buffer pool

| State | Code |
|---|---|
| `pool`, `entry` | `_buffers`, each `Entry`'s block, count, dirty, buffer |
| `hash` | `_hashTable` with `nextHash`: each chain as a sequence from its head |
| `free` | `_first`, `_last`, every `next` and `prev`, as pointers (0 is NULL) |
| `disk` | the device |
| `frame` | the pointers callers hold, and whether one stored through its own |
| `open` | whether the object exists |

The list is kept as its pointers, not as a sequence: what can go wrong is one
of the four fields left behind. Each call is one action, with its hit and its
miss apart (`AcquireHit`, `AcquireMiss`, ...). What newEntry() does in a miss,
that is take a buffer off the list, write it back, take it out of the table,
clear its links or make a new one, is part of the miss. `Poke` is the caller's
store through its pointer: it must `MarkDirty` or `Release` it dirty before it
calls the cache for something else, as every caller in `Pascal/` does.
`Faults` are the calls a device may throw in. `ReadFails`, `SyncFails` (at each
buffer, and in the device's own sync() after the last) and `CommitFails` stop
the operation where it throws, with the structures as they are at that line, and
unwind the frames; the callers may go on. `CloseFails` is a write that throws in
the destructor, which ends the process. After a write-back that throws
(`EvictFails`) this program's callers give up: nothing below main() catches it
(`bin/apfm.cpp:1070`), and the cache is destroyed. `EvictErrorCaught` says what
a caller that goes on would meet. The base class's read() is `ReadHit`/`ReadMiss`: acquire and
release in one call. zeroBlock() is `Write` with `Zero`.

Abstractions: a block's content is a value; buffers are never freed before the
destructor, as in the code; `MaxBuffers` bounds the pool and `CountMax` the
count, which wraps below zero as `unsigned` does. A miss that would exceed
`MaxBuffers` is not taken. setFirst() and pushEntry() have no caller, and
`kBlockReuse` no user.

### PascalVolume: the directory, driven by apfm

| State | Code |
|---|---|
| `header`, `slot` | the directory on the disk: the file count, the 26-byte slots |
| `content` | the data blocks |
| `files` | `_files` of the process that has the volume open, with each `_maxFileSize` and `_address` (`max`, `slot`) |
| `command`, `put` | what the process runs, the names it is to change, and how far the loop of put has come |
| `readOnly` | what the opened device answers |

A process is `Open`, then one command, then `Exit`, which is also its death
between two calls. rm runs `Rm` once per name. put is `PutCreate`,
`SetFileKind`, and one `Write` per block or one `WriteText`, each leaving the
directory on disk, and `Exit` may come after any of them. What the next `Open`
loads is the disk, never what the previous process had in memory: that is how
the unsaved entry of cp shows. `OpenThrows` is the constructor's "Invalid file
entry". `Create`, `Unlink`, `Rename`, `Prepared` with `CopyInto` are the whole
methods, including the shift of later slots on disk by memmove and the separate
loop that patches addresses in memory (an append only sets the new entry's). `SetFileSize` has the code's
arithmetic.

Abstractions: names are compared whole and without case; the bytes in a block
are one member of `Data`; dates, inodes and the text encoding are left out; a
directory update is one step. krunch() refuses every volume with files before
it moves anything (section 6), so its moving loop is never reached and is not
modelled.

### FileEntry and PascalFile: the bytes of one file

`FileEntry` has the operators over a file's entry and its blocks: the text
writer (`LineWritten`, `Compress`, `WriterData`), the text reader
(`TextReadPage`, `TextDecodePage`, `TextInit`, `TextRead`) and the data reader.
A page is two blocks, a block `BlockSize` bytes (4 here, 512 in the code), a
DLE counts at most `MaxBlanks` blanks (223 in the code). Bytes are numbers, and
only those that the code tells apart have names: `Nul`, `Return`, `LineFeed`,
`Dle`, `Blank`.

`PascalFile` runs them as apfm does: put splits a native text at its line ends
(`WriteLine`), makes the file (`Create`, `SetFileKind`) and writes a block at a
time (`WriteTextBlock`, `WriteData`), get and cat read it back by chunks, and
the mount reads, `Requests` being what the kernel may ask for. `saved` is the entry in the directory, `file` the
one in memory, `native` the file put was given. `Exit` may come after any call.
`Opens` is the constructor's check: an entry that has grown past its room stops
the next reader (`OpenThrows`).

Abstractions: the volume has this one file, in `room` blocks that held
something before; the prompt and the file's kind are inputs. write() is
modelled as put calls it, at offsets that are whole blocks: its other caller,
truncate(), is reached from nowhere. It stores at any block (`WithBlock`), the
next file's as well if the entry has no room; that put writes none but its own is
part of `TypeOK`. Reads begin at a block, as get, cat and the
FUSE kernel ask; FileEntry.cpp:477, which is wrong for others, is never met.

put looks at the byte after a line feed (`ByteAfter`), after the last one too.
That byte is a zero of the mapping's last page, unless the file ends with a host
page (`HostPage`): then what follows is not the file's. The read may fault, or
find a return and go wrong (`ReadsPast`, which ends the process before it has
created anything), or find something else and change nothing (`WriteLine`).

### FusePascal: the Pascal mount

| State | Code |
|---|---|
| `fdTable`, `available` | `fd_table`, `fd_table_available` |
| `files` | the `FileEntry` objects of the volume, with the page sizes a text caches |
| `handle`, `stream` | what the kernel knows: the `fh` of each open file, the offset of its directory |
| `thread` | the request each session thread has, where in its handler it is, its last reply |

Requests that touch nothing shared are answered in one step (`Stateless`).
open is `OpenBack` and `OpenPop` when an index is free, and `OpenSize` and
`OpenPush` when the table grows; release is `ReleaseReset` and `ReleaseFree`:
one step for each access to a vector. The kernel (external) sends what FUSE
sends: it reads and releases only what it has opened, and releases once.
`ReadThrows` is a device error in a read; in pascal_init() nothing catches one,
and it ends the process (`InitThrows`). A pop_back() of a list that another
thread has emptied since it was tested is undefined: `missing` counts by how
many the vector's end is then before its beginning. back() of such a vector
(`OpenBack`) gives anything; an index outside the table ends the process at the
store through it (`OpenStore`, `Ends`). One call of a vector is one step: what two calls at once
do to its memory is not modelled. The inode of a file is its place in
the directory; the code's are numbers given at load, also one for each file.

### ProDOSDisk and FuseProDOS: the ProDOS mount

`ProDOSDisk` has the reader's operators over a disk `d`: `ReadBlock` with its
check, `Normalize`, `ReadIndex` with `ReadTree` over the pointers of each level,
`Joined` for the loops that put what a level below returned at a multiple of
its size into the buffer, and `Step`, one entry of the walk that ReadVolume()
and ReadDirectory() make.
`FuseProDOS` answers one request at a time, since profuse clears
`multithread`: `Answer` for the handlers that read an entry, `Open`, `ReadFile`
and `Release` for the handle, and for lookup and opendir the walk in steps:
`EnterDirectory`, `NextEntry`, `WalkThrows`, `LookupEnds`, `OpendirEnds`.
`running` turns FALSE when an exception passes through libfuse's C frames: that
of a block after the last (`ReadBlock`), and that of a raw device, which throws
at any read it cannot make (`DeviceThrows`, for the disks in `RawImages`; an image is mapped and throws at none).
A disk is a constant that nobody writes: each block is data, an index, a
directory block or the key block of an extended file, as the code would take
it. `IsDisk` says what is asked of one, healthy or damaged. Pointers and chains
may lead anywhere, out of the disk too. But

- block 2 is the first of a directory and has a volume's header. main() does not
  look at what ReadVolume() returns (`bin/profuse.cpp:292`), and on another disk
  would go on with a header it has not loaded;
- a header says how many entries a block holds: two at least, and no more than
  there are (13 of 39 bytes on every volume ProDOS makes). The code takes that
  number from the disk unchecked (`ProDOS/Disk.cpp:383`);
- no block is taken for two kinds, as when one file's data is another's index:
  blocks hold what was loaded from them, not bytes that could be loaded twice.

The inodes the kernel may name (`Inodes`) are the entries that ReadVolume() and
ReadDirectory() could have returned: those not deleted, the headers of other
directories included, where a damaged chain leads into them. Blocks have `BlockSize` bytes and indexes `Pointers` pointers (512 and 256
in the code). `Undefined` is a read past an array; `Unset` is a byte of a reply
that nothing was read into: prodos_read() answers with `size` bytes of a new
buffer, of which a seedling fills one block (`bin/profuse_file.cpp:117`). The
properties say exactly when these come.

ReadFile() (`ProDOS/Disk.cpp:118`) has no caller and is not modelled.

### DiskImages: images, devices, the mapped cache

| State | Code |
|---|---|
| `format` | the type newfs was given |
| `mem`, `disk` | the file in the shared mapping; what of it is on the disk |
| `tail` | what the mapping has after the file, to the end of its last page |
| `session` | whether a process has it open, and whether an exception is on its way to main() |
| `as`, `readOnly`, `changed` | the class of the device that is open, its flags |
| `cache`, `dirty`, `held`, `poked` | a MappedBlockCache, its `_dirty`, a pointer it has handed out |

A cell is a sector of 256 bytes, half a block; a header of 64 or 84 bytes takes
one sector. newfs is `Create`; a later process is `Open`, by the type it is
given or by content (`ImageType`), then stores through the device or through
its cache, then `Close`, or `Kill`. `PageReachesDisk` is the system, which
writes pages of a mapping when it likes; `PowerFails` leaves what is on the
disk. `Create` writes the headers of DC42 and Davex images through msync and
leaves that of a 2IMG in the mapping, as the code does. `CommitNow` is a
release with `kBlockCommitNow`; no caller uses it. A process makes no call
after an exception but its destructors': a refused call is `Close`, and
`SyncThrows` and `CommitThrows` are an msync that fails. One that fails in a
destructor ends the process (`CloseThrows`). Neither a device nor its cache
looks whether it may be stored in (`StoreReadOnly`): a raw device throws, a
mapping opened read-only stops the process. `content`, `found` and `stored`
are kept for the properties only.

A track of a DOS order image is a page of 4096 bytes. If the file ends inside
one, the blocks of its last track that have sectors after the end lie in `tail`:
a store there succeeds and shows until the system clears the rest of the page
(`TailCleared`), and never reaches the disk.

The cache of a DiskCopy image has its blocks elsewhere than the device
(section 6). `BlocksKept` says of it that each block shows what was stored
through that cache or what it showed at first, and nothing of what the device
then shows.

DOS order images and raw devices have the default cache, the pool of
`ConcreteBlockCache`, and are modelled up to their device.

### Names with an underscore

`X_Mistake`, just before `X`, is `X` with a mistake in it (a dropped check, a
link not cleared, a stale address). No specification uses them. Each shows that
one property notices that mistake when it stands in for `X`; `PROJECT.json`
lists which.

## 3. The runs

| Run (`.cfg`) | What it shows |
|---|---|
| `cache` (`ConcreteBlockCache.cfg`) | without device errors: `FreeListExact`, `HeldPointersShared`, `CleanMeansOnDisk`, `LruOrder`, and that the pool implements `BlockStore` |
| `cache_faults` (`CacheFaults.cfg`) | the same promise, shared pointers, no buffer in use on the list and no lost store, when any device call may throw, the destructor's included, and callers give up after a write-back that does |
| `cache_evict_error` (`CacheEvictError.cfg`) | violated: `ListedBuffersUnused`, by a caller that goes on after a write-back that throws |
| `pascal_volume` (`PascalVolume.cfg`) | every sequence of commands on a small volume, killed anywhere: memory and directory agree, room is exact, put has the room it asked for, names are unique, extents ordered, other files untouched, mv keeps the file, nothing changes on a read-only device |
| `pascal_put_full` (`PascalPutFull.cfg`) | violated: `Readable`, after put of a file whose size fills its last block |
| `pascal_copy` (`PascalCopy.cfg`) | violated: `CopyRecorded`, after cp |
| `pascal_move_self` (`PascalMoveSelf.cfg`) | violated: `OnlyNamed`, after mv of a file onto its own name |
| `pascal_file` (`PascalFile.cfg`) | what put has copied comes back, killed or not (`RoundTrip`), of the size it had up to a block (`SizeNearNative`) or exactly (`TextExact`); reads at any block are slices of the file (`ReadsAreSlices`); no line lies in two pages (`LinesInPages`); put writes none but its own blocks (`TypeOK`); each call of put, get and cat that they go on after brings them nearer the end (`GetsFurther`) |
| `fuse_pascal` (`FusePascal.cfg`) | with one session thread: a descriptor is one open file's (`DescriptorsExact`), answers agree with the volume and with each other (`RepliesRight`), a listing by small buffers is complete (`ListingComplete`), every request is answered (`EveryRequestAnswered`) |
| `fuse_threads` (`FuseThreads.cfg`) | violated: `DescriptorsUnused`, with two session threads |
| `fuse_prodos` (`FuseProDOS.cfg`) | on a healthy and on a damaged disk: a listing is the directory's, of a damaged chain exactly the blocks before the damage (`ListingRight`), reads have the length asked for and are the bytes the pointers lead to, then memory nobody wrote after a seedling's block (`ReadsFlat`), only a device that fails or a pointer to the block after the last ends the mount (`TypeOK`), lookup, getattr and attributes agree (`AttributesAgree`), every request is answered, also along a chain that closes on itself (`EveryRequestAnswered`) |
| `disk_images` (`DiskImages.cfg`) | blocks keep their content through device and cache of every format (`BlocksKept`); a commit, a close and the checksum reach the disk unless an exception has said otherwise (`Settled`); only a DiskCopy image that may be written is marked to have its checksum stored (`TypeOK`) |

### Bounds

- `cache`: three blocks on two chains (so two share one and the removal of the
  head and of an inner link both happen), a pool of two that may grow to three,
  two frames. Two frames hold one block or two; two held blocks empty the list,
  and the third makes the pool grow. Block 0 is not asked for: the Pascal
  code, the only user of this cache, starts at block 2 (section 6).
- `cache_faults`: three blocks, two of them on one chain, a pool of one that may
  grow to two, every fault, at every place; a failed write-back ends the
  process (`EvictErrorCaught = FALSE`), and so leaves no damage behind. Where
  that damage may appear, `cache_evict_error` has the four blocks and three
  buffers that it takes, and the property is violated. The theorems have no such
  bound.
- `pascal_volume`: five data blocks, a directory of three files, four names.
  That is enough for a file before, after and between others, a full directory,
  a full volume, a gap that fits and one that does not, a destination that fits
  and one that does not. Data sizes 1, 3, 5 and 6 with blocks of 2 bytes give
  one to three blocks, last block short or full. Size 6 fills its last block
  and leaves it a block free after it or not. `mv` of a file onto itself is
  left out of this run and is the subject of `pascal_move_self`.
- `pascal_put_full` has the size of one full block only. This isolates the
  boundary.
- The symmetries (frames; names and data) permute values the modules only
  compare.

- `pascal_file`: blocks of 4 bytes, pages of 8. The texts are every one to three
  of eleven pieces: short and long lines, blanks below and above what one DLE
  takes, a line that fills a page and one that is too long, each line end, a
  last line without one. The data files have every length around a block. There
  are 5 or 8 blocks of room, zeros or not in them. A host page is 8 bytes, so
  that texts end on one and inside one.
- `fuse_pascal`: a text of two pages with a gap before it and a data file that
  ends inside a block; two handles, buffers for no, one and two names, reads
  from before, inside and after the end; the device may fail. `fuse_threads`:
  two threads.
- `fuse_prodos`: indexes of two pointers, so that a tree has four blocks and two
  holes, directories of two blocks with three entries, every kind of entry; in
  the damaged disk chains that close, leave the disk or lead to the block after
  its last, a directory without a header, forks that are none. The healthy disk
  is on a raw device that may fail at any read; the damaged one is an image, so
  that what ends the mount there is the disk. A request by
  inode is made while nothing is open (`NothingOpen`): it does not read the
  handles.
- `disk_images`: pages of 16 sectors, as long as a track, which is what a page
  has at least. A 2IMG of eight blocks behind its header has a block on two
  pages; a DOS order image of nine blocks has a track and a block of the next,
  whose other sectors are after the file's end, and a ProDOS order image of
  eight can be taken for a DOS order one; the others have three blocks. Two
  stores in all, by one process or by two, checksums of four bits.
  Two stores are enough to lose one to another; a third shows nothing new.

### Fairness

`FusePascal` and `FuseProDOS` assume weak fairness of `Serves`, for each thread
in the first: a session loop (`fuse_session_loop`, `fuse_session_loop_mt`) that
has received a request goes on in its handler until it returns, and no step of a
handler waits for another thread. The kernel is not fair: it need not send
anything, nor take an answer. `EveryRequestAnswered` is what this gives.

The other modules assume none. A call runs to its end in one step, no action
waits for another, and a process may be killed. That nothing obliges a caller to
go on is what the code says too: a block is written when it is synced or
evicted, and no thread does so on its own. That put, get and cat end is stated
without fairness, as steps that each get further (`GetsFurther`). Deadlock is
checked in every run.

## 4. What is proved

### The buffer pool

`ConcreteBlockCacheProofs` proves every property of the `cache` runs, for any set
of blocks, values and frames, any pool and table, from `CacheAssumption` and two
assumptions of the theorems:

- `0 \notin Blocks`: nobody asks for block 0. The Pascal code starts at block 2,
  and for block 0 the pool is wrong (section 6).
- `~EvictErrorCaught`: nobody goes on after a write-back that throws, as nobody in
  this program does; what a caller that did would meet is what
  `cache_evict_error` shows. Every device call may throw.

| Theorem | Says |
|---|---|
| `Invariance` | `Spec => []IInv` |
| `TypeCorrect` | `Spec => []TypeOK` |
| `PointersShared` | `Spec => []HeldPointersShared` |
| `NothingLost` | `Spec => []CleanMeansOnDisk` |
| `ListIsExact` | `Spec => []FreeListExact` |
| `ListedAreUnused` | `Spec => []ListedBuffersUnused` |
| `OrderIsKept` | `Spec => LruOrder` |
| `StoreImplemented` | `Spec => ImplementsBlockStore` |

`HeldPointersShared` is not inductive. A buffer taken for another block is taken
from the list, so the list must hold no buffer in use; that the list keeps to
that depends on every link of it. `IInv` is the conjunction of

- `Typed`: the types;
- `FreeOK`: `ListOver(free, Unused)`, the list is over the unused buffers
  (`Ends`, `NextLinks`, `PrevLinks`). That is: `_first` and `_last` are unused
  and the only ones without a `prev` or a `next`, each `next` has its `prev` and
  the reverse, buffers in use have no links, and *there is a rank*,
  a number for each buffer that grows along `next`. The rank says of single
  links that they form one list, which "followed from `_first`" says of all of
  them, so that a step which changes two links disturbs little;
- `HashOK`: the chains have no repetition, a buffer is on the chain of its
  block, and no two buffers in the table have one block;
- `UnusedOK`: an unused buffer is in the table or was never used (block 0);
- `HeldOK`: a held pointer is the buffer the table finds;
- `CountOK`: a count is at least the number of frames that hold the buffer (an
  exception unwinds frames without giving back what they held);
- `DirtyOK` and `CleanOK`: a dirty buffer is in the table; a clean one of the
  table has what the device has, unless a frame has stored into it and not yet
  said so.

First come lemmas on the list (`PopFirst`, `SetLast`, `Unlink` keep `ListOver`
for the set less or plus one buffer), on the chains (`FindEntry`, `RemoveEntry`,
`AddEntry`), on counting frames, and on `FlushUpTo`. Then there is one lemma for
each action. `Invariance` puts them together.

`FreeListExact` and `LruOrder` speak of the list as a sequence, followed from an
end. `ListInOrder` leads from links to sequences: a `ListOver` F has exactly one
path, which meets each member of F once, and followed by `prev` it is reversed
(`PathExists`, `FollowIs`). Where one would do induction along the list, the
proofs take the least place at which the claim fails (`LeastNatural`). `OrderIs`
turns this round, so that two lists whose links agree but around one buffer are
the same sequences without it (`RestWithout`, `AppendedLast`, `UnlinkedRest`).

The refinement maps `store` to what the table and the device show together
(`Contents`), `held` and `pending` to the frames, `view` to the buffers they
point into. `ContentsAre` and `ViewIs` say what these are in a state of `IInv`;
`IsAcquire`, `IsRelease` and their like turn a step of `BlockStore` into what has
to be shown of them; then there is one lemma for each action. A miss is the long
one: the buffer it takes may be another block's, whose content moves from the
table to the device and must not change on the way (`MissRefines`). Read,
sync and commit errors are `Fail`: they end every frame and lose no store. The
destructor is `Close`, or `CloseFails` where a write throws, and the only step
that may lose one.

### The Pascal volume

`PascalVolumeProofs` and `PascalFilesProofs` prove every property the
`pascal_volume` run checks, for a volume of any size, any names, any data, a
directory of any length, native files and texts of any sizes, and any commands
but `mv` of a file onto itself (`\A m \in Moves : m[1] # m[2]`), which
`pascal_move_self` shows to break them:

| Theorem | Says |
|---|---|
| `DirectoryStays` | `Spec => []DirectoryKept` |
| `RoomStaysExact` | `Spec => []RoomExact` |
| `NamesStayUnique` | `Spec => []NamesUnique` |
| `ExtentsStayOrdered` | `Spec => []ExtentsOrdered` |
| `PutSucceeds` | `Spec => []PutHasRoom` |
| `PutStaysCovered` | `Spec => []PutCovered` |
| `TypesStay` | `Spec => []TypeOK` |
| `OthersAreKept` | `Spec => OnlyNamed` |
| `MovesKeepTheFile` | `Spec => RenameMoves` |
| `ReadOnlyStays` | `Spec => ReadOnlyKept` |

None of these is inductive alone. The invariant `IInv` says, while a process
runs, that the volume is `Good`: the disk says what the list says (`Agrees`),
`max` is the distance to the next file (`Room`), names are `Unique`, files are
`Ordered` and run into the next by at most one block. Each operation on a volume
keeps `Good` whatever command calls it: `UnlinkKeeps`, `CreateKeeps`, `SetKeeps`
(a write of one entry), `RenameKeeps`, `PreparedKeeps`. To that `IInv` adds what
is only true for a while:

- `DiskIs`: what the disk says when no process runs, so that the next Open finds
  a list that is `Good`;
- `Apart`, after Open: no file runs into the next *at all*. setFileSize() may
  break that, but then the constructor refuses the volume. `Apart` is why a cp
  onto an existing file writes nobody else's block;
- `Writing`, between two calls of a put: the file's room is that of the blocks
  asked for; the offset is at the start of a block; the size is the offset or a
  block more (`OffsetIs`), which is why a write compared with the inflated size
  still passes; and no file but the one written runs into its next;
- `Copied`, after cp: the list has the new entry, the disk has not.

For `OthersAreKept`, `Spares(v, w, N)` says that w has every entry of v but
those of the names N, at whatever slot; unlink(), create() and rename() each
have such a lemma, and they compose (`SparesTwice`). `BlocksAreOwn` says that
the blocks of a file with room for them are no other file's, from `StartsGrow`.
`GivesUpEarly` says a cp that is refused has unlinked nothing: where the volume
had a place with room, it has one without the destination too (`UnlinkRoomy`).

Two tools come first. `MinFacts` (a set of numbers has a least) follows from the
well-foundedness of `<`, and stands in for induction along the list.
`MultipleFacts`, `DivideFacts` and `DivideUnique` turn products
with `BlockSize` into comparisons the solver can use.

### The bytes of a Pascal file

`PascalFileProofs` proves every property of the `pascal_file` run, for any native
files (a text has no NUL and no DLE of its own, which the code would decode as
something else), any line ends, any number of pages, any room and what was in
it, any size of a block and any count a DLE takes, killed after any call:

| Theorem | Says |
|---|---|
| `CopiesReadBack` | `Aligned` implies `Spec => []RoundTrip` |
| `ReadsStaySlices` | `Aligned` implies `Spec => []ReadsAreSlices` |
| `TextsReadExact` | `Spec => []TextExact` |
| `SizesStayNear` | `Spec => []SizeNearNative` |
| `LinesStayInPages` | `Spec => []LinesInPages` |
| `LoopsGetFurther` | `Spec => GetsFurther` |
| `TypesStay` | `Spec => []TypeOK` |

`TypesStay` has that put writes no block outside the room it was given.
`LoopsGetFurther` speaks of calls the command goes on after: one that reads past
a mapping that ends with a host page may be the last. `Aligned` says that the mount's requests begin at a block. The kernel reads
whole pages of 4096 bytes through its page cache, which fuse_pascal does not
switch off (it never sets `direct_io`); for other offsets read() is wrong (`Pascal/FileEntry.cpp:477`, section 6)
and the two properties are false. The others do not need it.

`IInv` is what put has done so far and what that makes a reader see:

- `WriterOK`: each page the writer has closed, and the one it fills, is a whole
  number of lines (`GoodPage`), and all of them decode to the native text *up to
  the line put has come to* (`TextSoFar`). put never stops between a line feed
  and the return that follows it, so this is a prefix of the whole text;
- `SavedOK`: the entry on the disk is of one of four kinds: none, empty, data
  whose blocks hold the native bytes up to `written` and whose size is that or a
  block more (`DataWritten`), or a text all of whose pages are in its blocks
  (`TextWritten`: its entry comes after them);
- `ReadingOK`: a reader has the saved entry with the page sizes the first read
  cached, and has got a slice of the whole;
- `BlocksOK` and `Phases`: types, and which of them go together.

The step from there to the properties is `FileReads`: the whole file is the
native one as far as put came, followed for a text by what the block after it
decodes to. That block is the one too many of setFileSize(), and nothing says
what is in it.

`FileEntryProofs` has what this needs of the operators. They are recursive
functions, one value for each prefix, and no induction is to be had; instead
`Recursion` says, from the existence of a least place where it fails, that such a
function is the one its steps describe, and the lemmas below compare two of them
at the first place they differ:

- `Concat` puts piece after piece (`ConcatAppend`, `ConcatBytes`), and `SubSeq`
  and `Drop` cut what it has put together (`SliceDropped`, `DropJoined`);
- `Decode` of two pieces is one after the other when the first ends outside a
  DLE (`DecodeConcat`), whatever was compressed: a line written by writeLine()
  decodes to itself (`CompressIs`), with the line end, and a page padded with
  zeros to nothing more (`PaddedIs`);
- a page decoded for its size and a page decoded for its bytes agree
  (`TextIndexed`), so that a read which starts in the page the sizes name and
  ends in any other returns the slice (`TextReads`); data is read block by block
  (`DataReads`).

### The Pascal mount

`FusePascalProofs` proves, for any volume, any finite set of files the kernel may
have open and any requests:

| Theorem | Says | Session threads |
|---|---|---|
| `DescriptorsStayExact` | `Spec => []DescriptorsExact` | one |
| `ListingStaysComplete` | `Spec => []ListingComplete` | any number |
| `TypesStay` | `Spec => []TypeOK` | any number |
| `RepliesStayRight` | `VolumeFits`, `PagesWhole` and `Aligned` imply `Spec => []RepliesRight` | one |

`fuse_threads` shows why the first needs one thread: two in open take one index.
The second and third hold of raced threads too. The invariant of a directory
(`Directory`, `StreamOK`) is that what its reader has seen is the beginning of
the listing up to its offset, which no file's open or release touches; a piece
of it that readdir() fills goes on there (`ReaddirIs`). That of the table
(`Table`) is that the list, a thread's index between two accesses, and what the
kernel was given, are all indexes of a table that only grows: threads may share
one, and the list may hold it twice, but none is outside. A back() of a list
popped below its beginning may give anything; a store through an index outside the table ends
the process before the kernel is told of it.

`DescriptorsExact` is not inductive either: between its two accesses to the vectors a
handler has taken an index off the free list and not yet used it. `IInv(t)` says
what the thread holds (`Typed`, `Working`), that the free list has no index
twice, none in use and none in transit (`ListExact`), that the table has a file
at each index in use, that of its inode, and no index serves two handles
(`TableExact`), and that free indexes, those in use and the one in transit are as
many as the table is long (`Counted`): none is lost. `Working` is why a handler
may trust an index it read in an earlier step: nobody else has touched the list.

`RepliesStayRight` asks three things of the volume and the kernel, and the
volume of `fuse_pascal` has them:

- `VolumeFits`: files follow each other inside the volume, each of at least one
  block. The loader checks all of it (`Pascal/VolumeEntry.cpp:217`) but the last,
  and create() makes no file of none.
- `PagesWhole`: no page of a text but the last ends between a DLE and its count.
  textDecodePage() forgets the DLE there; decoding the whole file at one go does not.
- `Aligned`: reads begin at a block, as above for `ReadsStaySlices`.

Its invariant is `Told(t, c)`: what is asked is of an inode or an open handle
there is (`Asked`), and the answer, once given, is right (`Fine`). `Fine` compares
the answer with a record `c` of constants, `Truth`: of each file its whole
content, decoded at one go, the names of its attributes and their length; and the
number of free blocks. So a right answer stays right until the next request, and
answers that agree with the truth agree with each other (`FineIsRight`). That a handler's answer agrees is then one lemma for each:
`FileReads` from `FileEntryProofs` for attributes and reads, `FreeIs` for the
loop of statfs() over the gaps between the files, `NameBytesIs` for the length
of a list of names.

### Images and the mapped cache

`DiskImagesProofs` proves, for images of any size, any contents and checksums,
any number of processes and stores, kills and power failures between any two
steps, syncs, commits and destructors that throw, on pages of whole tracks
(`DiskImagesAssumption`; mmap's are 4096 bytes or a multiple), and for a volume
that asks its cache for no block 0 (`Boot >= 1`; the Pascal code starts at block
2, and a block 0 of a DiskCopy image would be stored over its header):

| Theorem | Says |
|---|---|
| `BlocksAreKept` | `Spec => []BlocksKept` |
| `TypesStay` | `Spec => []TypeOK` |
| `PromisesAreSettled` | `Spec => Settled` |

First come where blocks lie: `SectorMap` is a permutation, so `DOSDisjoint`;
`DeviceDisjoint` and `CacheDisjoint` for every format; `SamePlaces`, the cache
of a format other than DC42 has its blocks where the device has them; and
`PairPages`, of the two pages sync(block) names, one has the block's second
sector, whatever the page size. Then `ValidFacts`: what a format's Validate()
accepts has room for the blocks it says. `IInv` adds to the two properties that
images are sectors of known kinds and mem and disk equally long (`Images`), that
a DiskCopy image stored in is marked changed (`Marked`), that every block of a
mapped format lies in the mapping (`Bounds`), and `Declared`: while the cache is
not dirty, each block stored through it is on the disk, but for the one stored
through the pointer out and not yet declared. `Declared` is why a close may skip
its msync when `_dirty` is clear: a commit sets no mark, and need not.

### The ProDOS mount

`FuseProDOSProofs` proves the four invariants of the `fuse_prodos` run for any
disks that are one (`IsDisk`, section 2), any block size, any number of pointers
in an index, any names, handles, offsets and sizes of buffers, where a buffer
for a listing holds more than an entry (`FuseProDOSAssumption`). There is no
other hypothesis, and damaged disks are included:

| Theorem | Says |
|---|---|
| `ListingsAreRight` | `Spec => []ListingRight` |
| `ReadsAreFlat` | `Spec => []ReadsFlat` |
| `AnswersAgree` | `Spec => []AttributesAgree` |
| `TypesAreRight` | `Spec => []TypeOK` |

`ListingRight` says nothing of a walk under way and `ReadsFlat` nothing of what a
handle was opened for. `IInv` adds both:

- `WalkingIs`: a walk is a lookup's or an opendir's of a directory, and `Walked`.
  While it goes on there is a place on the chain (`OnBlock`): the blocks visited
  are the first n of the chain, no two of them the same (`Path`), and the files
  found are *exactly the used slots passed, in order* (`Taking`). Once it has
  ended, its files are a `Listing`, complete if the chain is sound;
- `OpenIs`: the entry behind a handle is `Kept`, a normalized one with blocks
  fit for its level;
- `OpenDirIs`: an open directory holds such a `Listing`, and what its reader has
  seen is that listing up to the offset;
- `AskedIs`: the kernel asks of inodes and handles it has;
- `Fine`: the answer, once given, is right. The mount is `Dead` only if its device
  may fail (`RawImages`) or the disk has a pointer to the block after its last
  (`PointsPast`).

The argument goes from the disk up:

1. *Chains.* `ChainFrom`, the recursive function the properties use, follows
   the `next` of each block (`ChainIs`): once 0 it stays 0 (`ChainEnds`), and one
   that comes back to a block or leads out of the disk never gets there
   (`ChainGoesOn`). A walk that starts at its first block (`EnterWalks`) stays
   `Walked` at each turn of the loop (`StepWalks`, of `TakesEntry` within a block
   and `TakesBlock` between two), and ends with a `Listing` (`WalkLists`); one
   that fails has met a directory that is not `Sound`.
2. *Reads*, level by level: a block (`ReadDataIs`), the pointers of an index
   (`ReadPointedIs`), a tree of indexes (`ReadTreeIs`). `JoinedIs` and `Nested`
   find the byte k of what was joined in the piece k div stride, where that piece
   has it; `Divided`, `Multiple`, `Below` and `Rounded` are the arithmetic of
   offsets that ReadIndex() does with `%` and `/`. `ReadTreeIs` is the long one:
   the first index is asked from the middle, the others from 0, and the last for
   fewer, so that piece and byte line up only if the first piece is whole. This
   is where the one read past an array comes from (`ProDOS/Disk.cpp:315`).
   `ReadIndexIs` and `BytesIs` cut the bytes of prodos_read() from it.
3. *Answers.* For each handler a lemma says what it answers (`NormalizeIs`,
   `StatIs`, `ListedIs`, `ForkIs`, `FinderIs`, `GetxattrIs`, `OpeningIs`), and
   another that this is `Fine`. `ListxattrFine` needs that the length of a list
   of names, a recursive function, is a number (`NamesLengthIs`, by `Recursion`).
4. *Steps.* A lemma for each action, put together in `Steps`.

## 5. What is only model-checked

- Liveness (`EveryRequestAnswered` of both mounts) and ENABLED are out of the
  prover's reach. What a proof can say of it is in the invariants: a walk visits
  no block twice (`Walked`), so it has no more turns than the disk has entries.
- What a recursive definition yields for every input cannot be had by the
  library's induction theorems. The theorems about pages, listings and the list
  of buffers go round that by least elements; they are long for it.

## 6. Where the code disagrees with what it says

Shown by a run: going on after a write-back error in the pool, put of a whole number of blocks,
cp's unsaved entry, mv onto itself, two session threads in open.
`PROJECT.json` quotes the lines.

Kept in the models as the code has it, with what it does to the properties:

- A put of data can end inflated by up to a block: setFileSize() counts a block
  too many whenever a size is a multiple of 512 (`Pascal/FileEntry.cpp:431`),
  and a write() that ends inside the block too many leaves the size as it is (600
  bytes become 1024). `SizeNearNative` says by how
  much at most.
- A put of a text records one block more than it has written. A reader decodes
  the block after the text too; `TextExact` asks that it be zeros.
- A ProDOS read that starts inside an index block of a tree and leaves it reads
  past the array (`ProDOS/Disk.cpp:315`); an empty seedling resource fork is read
  as a block into a buffer of none (`bin/profuse_xattr.cpp:264`); a read always
  returns as many bytes as were asked for, those after the end too, and of a
  seedling memory nobody wrote after its one block (`bin/profuse_file.cpp:117`).
  `ReadsFlat` says so.
- The check of a block's number admits the one after the last, and the device's
  exception then ends the mount (`ProDOS/Disk.cpp:110`, `TypeOK`). So does any
  read a raw device cannot make (`Device/RawDevice.cpp:217`), and in the Pascal
  mount one while pascal_init() indexes the texts.
- A chain that leads to the first block of another directory makes that block's
  header an entry of the listing, since only the first block of the walk has its
  header skipped (`ProDOS/Disk.cpp:400`, `Inodes`).
- opendir keeps the result of a walk in a bool, and opens a damaged directory as
  what could be read of it (`bin/profuse_dirent.cpp:38`, `ListingRight`).
- The cache of a DiskCopy image starts at the header, its device after it
  (`Device/DiskCopy42Image.cpp:239`): a volume written through that cache, as
  apfm does, is found again through it and through nothing else, and newfs'
  boot blocks are not where the cache looks. No property is violated by this:
  `BlocksKept` does not compare the two.
- A DOS order image with an incomplete last track has blocks after the end of the
  file (`Device/DiskImage.cpp:208`, `Device/Adaptor.cpp:63`): stores into them
  are lost without an error. `BlocksKept` exempts their sectors and no others.
- Stores into a device opened read-only are refused by the callers, not by the
  device or its cache (`StoreReadOnly`). Davex and DOS order images are
  taken for ProDOS order ones unless a type is given (`Device/BlockDevice.cpp:32`).

Met while reading:

- Block 0 in the pool: newEntry() takes a buffer that was never used out of the
  table by its block, 0 (`Cache/ConcreteBlockCache.cpp:335`), and so takes out
  the real block 0. Nobody asks this cache for block 0; the theorems assume it.
- krunch() rejects every list that has a file below the end of the volume
  (`Pascal/VolumeEntry.cpp:746`), and canKrunch() compares with each file's last
  block. `apfm krunch` never compacts and reports no failure.
- setName() leaves the tail of a longer old name in memory
  (`Pascal/FileEntry.cpp:134`).
- The directory is read and written as six blocks from block 2, and data starts
  at block 6 (`Pascal/VolumeEntry.cpp:946`).
- A data read that starts inside a block copies the wrong bytes unless it starts
  at its middle (`Pascal/FileEntry.cpp:477`). A text's reader that throws leaves
  part of its page sizes (`Pascal/FileEntry.cpp:662`).
- put looks one byte past its file when the last byte is a line feed, and past
  its mapping when the file ends with a host page (`bin/apfm.cpp:906`,
  `ReadsPast`).
- newfs_pascal's usage has `-b bootfile` and its getopt string does not
  (`bin/newfs_pascal.cpp`).
- The 32-bit size of a 2IMG may wrap (`Device/UniversalDiskImage.cpp:130`), the
  size of a raw device is asked into an int (`Device/RawDevice.cpp:91`), nibble
  blocks 0 and 1 share sectors (`Device/Adaptor.cpp:325`), the bitmap's last byte
  is made from `blocks & 0x0f` (`ProDOS/Bitmap.cpp:44`).

## 7. What is not modelled

- The ProDOS bitmap: no program links it. NibbleAdaptor: no image uses it.
- SDK and NuFX images: one call into a library that is not here.
- Dates, byte order, listing and formatting, argument parsing, the xattr tool:
  no state, and nothing branches on them.
- The legacy ProDOS classes, which no target builds, and newfs_prodos, which
  writes through them.
- The several threads of the Pascal mount over the pool: the pool's calls are
  whole steps, and `fuse_threads` shows that the threads already spoil the
  descriptor table. Two calls of one vector at the same instant.
- Device errors inside the Pascal directory's commands: a process that stops at
  one is a process killed there (`Exit`), as far as the disk goes.
- A directory of more than one block written block by block: `PascalVolume`
  writes it whole.

## 8. Plan

Every invariant and every action property the passing runs check is proved. Left
to do, in this order: the Pascal directory's blocks one by one, so that a kill
between two of them is seen; the pool's calls split at their reads and writes,
for the session threads; the legacy writer newfs_prodos uses.
