------------------------------ MODULE FuseProDOS ------------------------------
(***************************************************************************)
(* The ProDOS mount, bin/profuse.cpp and bin/profuse_*.cpp: one thread     *)
(* answers the kernel's requests from a disk nobody writes.  It keeps what *)
(* open and opendir found behind the handle it gave, and nothing else;     *)
(* every other request reads the entry again from the disk, by its inode.  *)
(* A directory is walked entry by entry, its chain of blocks may be        *)
(* damaged.                                                                *)
(***************************************************************************)
EXTENDS ProDOSDisk

CONSTANTS
  Disks,        \* the disk images that may be mounted, a function
  RawImages,    \* those on a raw device, whose reads may fail
  Handles,      \* the files the kernel may have open at once
  Names,        \* what it looks up, up to case
  Invalid,      \* those that are no ProDOS names
  EntrySize,    \* the bytes an entry takes in a listing
  AttributeSize,\* the bytes of each attribute's value
  NameSize,     \* and those of its name in the list
  Sizes, Offsets

ASSUME FuseProDOSAssumption ==
  /\ \A i \in DOMAIN Disks : IsDisk(Disks[i])
  /\ RawImages \subseteq DOMAIN Disks
  /\ Sizes \subseteq Nat /\ Offsets \subseteq Nat /\ Invalid \subseteq Names
  /\ EntrySize \in Nat \ {0} /\ \A s \in Sizes : s = 0 \/ s > EntrySize
  /\ \A a \in DOMAIN AttributeSize : AttributeSize[a] \in Nat
  /\ \A a \in {"FileType", "AuxType", "ResourceFork", "FinderInfo", "TextEncoding",
              "charset", "mime_type"} : NameSize[a] \in Nat

VARIABLES
  image,     \* the disk image that is mounted
  running,   \* FALSE when an exception has left the session
  request,   \* the request the kernel waits for
  walk,      \* its walk of a directory
  reply,     \* its answer, None while it is being worked on
  handle,    \* the entry of each open file
  dir        \* the one directory the kernel lists

vars == <<image, running, request, walk, reply, handle, dir>>

disk == Disks[image]

None == [op |-> "none"]
NoWalk == [status |-> "none"]
Closed == [open |-> FALSE]
NoDir == [open |-> FALSE]

(* The inodes the kernel can have been given: entries in use.  A header is *)
(* one where a chain leads to another directory's first block.             *)
DirBlocks(d) == {b \in DOMAIN d.content : d.content[b].kind = "dir"}
Inodes(d) ==
  {Root} \union
  {i \in UNION {{b} \X DOMAIN d.content[b].entries : b \in DirBlocks(d)} :
     /\ ~Deleted(EntryAt(d, i))
     /\ EntryAt(d, i).storage = "header" =>
          i[2] # 0 \/ \E b \in DirBlocks(d) : d.content[b].next = i[1]}

Init ==
  /\ image \in DOMAIN Disks /\ running = TRUE
  /\ request = None /\ walk = NoWalk /\ reply = None
  /\ handle = [h \in Handles |-> Closed] /\ dir = NoDir

-----------------------------------------------------------------------------
(* Answers that need no walk, from what a disk d says.                     *)

Error(e) == [op |-> "error", error |-> e]
Dead == [op |-> "dead"]

(* What a failed read becomes.                                             *)
Bad(status, e) == IF status = "throws" THEN Dead ELSE Error(e)

Volume(d) == ReadBlock(d, 2).content.head
Statfs(d) == [op |-> "statfs", total |-> Volume(d).total]

Attr(inode, size, links) == [op |-> "attr", inode |-> inode, size |-> size, links |-> links]

(* prodos_stat(): the size is that of the data fork; a directory must have *)
(* its header.                                                             *)
Stat(d, inode, entry) ==
  LET n == Normalize(d, entry, "data")
      h == Directory(d, n.entry.key, "subdir")
  IN  IF n.status # "ok" THEN Bad(n.status, "EIO")
      ELSE IF n.entry.storage = "directory"
        THEN IF h.status # "ok" THEN Bad(h.status, "EIO")
             ELSE Attr(inode, BlockSize, h.head.count + 1)
      ELSE IF n.entry.storage \in FileTypes THEN Attr(inode, n.entry.eof, 1)
      ELSE Error("EIO")

Getattr(d, inode) ==
  IF inode = Root THEN Attr(Root, BlockSize, Volume(d).count + 1)
                  ELSE Stat(d, inode, EntryAt(d, inode))

IsTextFile(type) == type \in {"text", "textWithAux"}
MimeType(type) == type \in {"text", "picture"}

Listed_NoFork(e) ==
  <<"FileType", "AuxType", "FinderInfo">>
    \o (IF IsTextFile(e.type) THEN <<"TextEncoding", "charset">> ELSE <<>>)
    \o (IF MimeType(e.type) THEN <<"mime_type">> ELSE <<>>)

Listed(e) ==
  <<"FileType", "AuxType">>
    \o (IF e.storage = "extended" THEN <<"ResourceFork">> ELSE <<>>)
    \o <<"FinderInfo">>
    \o (IF IsTextFile(e.type) THEN <<"TextEncoding", "charset">> ELSE <<>>)
    \o (IF MimeType(e.type) THEN <<"mime_type">> ELSE <<>>)

(* A size of 0 asks for the length.                                        *)
Sized(size, length, answer) ==
  IF size = 0 THEN [op |-> "length", length |-> length]
  ELSE IF size < length THEN Error("ERANGE")
  ELSE answer

HasAttributes(e) == e.storage \in FileTypes \union {"extended"}

NamesLength(names) ==
  LET sum[i \in 0..Len(names)] == IF i = 0 THEN 0 ELSE sum[i-1] + NameSize[names[i]]
  IN  sum[Len(names)]

Listxattr(d, inode, size) ==
  LET names == IF inode # Root /\ HasAttributes(EntryAt(d, inode))
                 THEN Listed(EntryAt(d, inode)) ELSE <<>>
  IN  Sized(size, NamesLength(names), [op |-> "names", names |-> names])

(* The answer is the size asked for, out of a buffer with room for whole   *)
(* blocks: what no block was read into is memory as it was found.  A       *)
(* seedling is one block however large the buffer, and is read even if     *)
(* that has room for none.                                                 *)
Unset == -1

Bytes(d, e, size, offset) ==
  LET skip == offset % BlockSize
      blocks == (size + skip + BlockSize - 1) \div BlockSize
      r == IF blocks = 0 /\ e.storage = "seedling" THEN Undefined
           ELSE ReadIndex(d, e.key, Level(e.storage), offset, blocks)
  IN  IF r.status = "ok"
        THEN [op |-> "data",
              bytes |-> [k \in 1..size |-> IF skip + k <= Len(r.bytes) THEN r.bytes[skip + k]
                                           ELSE Unset]]
      ELSE IF r.status = "undefined" THEN [op |-> "undefined"]
      ELSE Bad(r.status, "EIO")

(* The resource fork: a size beyond its end is cut down to it.             *)
ResourceFork(d, e, size) ==
  LET n == Normalize(d, e, "resource")
  IN  IF n.status # "ok" THEN Bad(n.status, "EIO")
      ELSE IF n.entry.storage \notin FileTypes THEN Error("EIO")
      ELSE IF size = 0 THEN [op |-> "length", length |-> n.entry.eof]
      ELSE Bytes(d, n.entry, Smaller(size, n.entry.eof), 0)

(* The finder information of a plain file is made up, and returned whole   *)
(* whatever the size; that of an extended file is made up if it has none.  *)
FinderInfo(d, e, size) ==
  LET n == Normalize(d, e, "resource")
      value(v) == [op |-> "value", value |-> v]
      length == AttributeSize["FinderInfo"]
  IN  IF e.storage \in FileTypes
        THEN IF size = 0 THEN [op |-> "length", length |-> length] ELSE value("creator")
      ELSE IF n.status # "ok" THEN Bad(n.status, "EIO")
      ELSE IF n.entry.storage \notin FileTypes THEN Error("EIO")
      ELSE Sized(size, length, value(IF n.finder THEN "stored" ELSE "creator"))

Getxattr(d, inode, name, size) ==
  LET e == EntryAt(d, inode)
      value == Sized(size, AttributeSize[name], [op |-> "value", value |-> e.type])
  IN  IF inode = Root \/ ~HasAttributes(e) THEN Error("ENOATTR")
      ELSE IF name \in {"FileType", "AuxType"} THEN value
      ELSE IF name \in {"TextEncoding", "charset"} /\ IsTextFile(e.type) THEN value
      ELSE IF name = "mime_type" /\ MimeType(e.type) THEN value
      ELSE IF name = "ResourceFork" /\ e.storage = "extended" THEN ResourceFork(d, e, size)
      ELSE IF name = "FinderInfo" THEN FinderInfo(d, e, size)
      ELSE Error("ENOATTR")

(* open: what of the file the handle keeps, or why not.                    *)
Opening(d, inode, readOnly) ==
  LET n == Normalize(d, EntryAt(d, inode), "data")
  IN  IF inode = Root THEN Error("EISDIR")
      ELSE IF n.status # "ok" THEN Bad(n.status, "EIO")
      ELSE IF n.entry.storage = "directory" THEN Error("EISDIR")
      ELSE IF n.entry.storage \notin FileTypes THEN Error("EIO")
      ELSE IF ~readOnly THEN Error("EACCES")
      ELSE [op |-> "opened", entry |-> n.entry]

(* Past the end of the file there is nothing; before it, `size' bytes are  *)
(* returned, also when the file ends among them.                           *)
Read(d, e, size, offset) ==
  IF offset >= e.eof THEN [op |-> "data", bytes |-> <<>>] ELSE Bytes(d, e, size, offset)

-----------------------------------------------------------------------------
(* The kernel asks, one request at a time.                                 *)

Ask(r) ==
  /\ running /\ request = None /\ request' = r
  /\ UNCHANGED <<image, running, walk, reply, handle, dir>>

(* The kernel has the answer.                                              *)
Taken ==
  /\ running /\ reply # None
  /\ request' = None /\ reply' = None
  /\ UNCHANGED <<image, running, walk, handle, dir>>

(* Bound: what uses no handle is asked while none is given out.            *)
NothingOpen == ~dir.open /\ \A h \in Handles : ~handle[h].open

AskAbout ==
  /\ NothingOpen
  /\ \/ Ask([op |-> "statfs"])
     \/ \E i \in Inodes(disk) :
          \/ Ask([op |-> "getattr", inode |-> i])
          \/ \E n \in Names : Ask([op |-> "lookup", inode |-> i, name |-> n])
          \/ \E s \in Sizes : Ask([op |-> "listxattr", inode |-> i, size |-> s])
          \/ \E s \in Sizes, n \in DOMAIN AttributeSize :
               Ask([op |-> "getxattr", inode |-> i, name |-> n, size |-> s])

AskFile(h) ==
  \/ ~handle[h].open /\ \E i \in Inodes(disk), readOnly \in BOOLEAN :
       Ask([op |-> "open", handle |-> h, inode |-> i, readOnly |-> readOnly])
  \/ handle[h].open /\ \E s \in Sizes \ {0}, o \in Offsets :
       Ask([op |-> "read", handle |-> h, size |-> s, offset |-> o])
  \/ handle[h].open /\ Ask([op |-> "release", handle |-> h])

AskDirectory ==
  \/ ~dir.open /\ \E i \in Inodes(disk) : Ask([op |-> "opendir", inode |-> i])
  \/ dir.open /\ ~dir.done /\ \E s \in Sizes \ {0} :
       Ask([op |-> "readdir", size |-> s, offset |-> dir.offset])
  \/ dir.open /\ Ask([op |-> "releasedir"])

-----------------------------------------------------------------------------
(* The handlers.                                                           *)

Asked(op) == request.op = op /\ reply = None

(* The answer; an exception goes through FUSE's C code and ends the mount. *)
Answer(answer) ==
  /\ reply' = answer /\ walk' = NoWalk /\ UNCHANGED request
  /\ running' = (answer # Dead)

About ==
  /\ walk = NoWalk
  /\ \/ Asked("statfs") /\ Answer(Statfs(disk))
     \/ Asked("getattr") /\ Answer(Getattr(disk, request.inode))
     \/ Asked("listxattr") /\ Answer(Listxattr(disk, request.inode, request.size))
     \/ Asked("getxattr") /\ Answer(Getxattr(disk, request.inode, request.name, request.size))
  /\ UNCHANGED <<image, handle, dir>>

Open ==
  /\ Asked("open")
  /\ LET answer == Opening(disk, request.inode, request.readOnly)
     IN  /\ Answer(answer)
         /\ IF answer.op = "opened"
              THEN handle' = [handle EXCEPT ![request.handle] =
                                [open |-> TRUE, inode |-> request.inode, entry |-> answer.entry]]
              ELSE UNCHANGED handle
  /\ UNCHANGED <<image, dir>>

Release ==
  /\ Asked("release") /\ Answer([op |-> "ok"])
  /\ handle' = [handle EXCEPT ![request.handle] = Closed]
  /\ UNCHANGED <<image, dir>>

ReadFile ==
  /\ Asked("read")
  /\ Answer(Read(disk, handle[request.handle].entry, request.size, request.offset))
  /\ UNCHANGED <<image, handle, dir>>

(* lookup and opendir go through a directory, unless they need not.        *)
Walking == Asked("lookup") \/ Asked("opendir")

RefusedWalk ==
  /\ Walking /\ walk = NoWalk
  /\ \/ /\ Asked("lookup") /\ request.name \in Invalid
        /\ Answer(Error("ENOENT"))
     \/ /\ ~(Asked("lookup") /\ request.name \in Invalid)
        /\ request.inode # Root /\ EntryAt(disk, request.inode).storage # "directory"
        /\ Answer(Error(IF Asked("lookup") THEN "ENOENT" ELSE "ENOTDIR"))
  /\ UNCHANGED <<image, handle, dir>>

EnterDirectory ==
  /\ Walking /\ walk = NoWalk
  /\ ~(Asked("lookup") /\ request.name \in Invalid)
  /\ \/ request.inode = Root /\ walk' = Enter(disk, 2, "volume")
     \/ /\ request.inode # Root /\ EntryAt(disk, request.inode).storage = "directory"
        /\ walk' = Enter(disk, EntryAt(disk, request.inode).key, "subdir")
  /\ UNCHANGED <<image, running, request, reply, handle, dir>>

NextEntry ==
  /\ walk.status = "walking"
  /\ walk' = Step(disk, walk)
  /\ UNCHANGED <<image, running, request, reply, handle, dir>>

(* An exception in the walk.                                               *)
WalkThrows ==
  /\ walk.status = "throws" /\ Answer(Dead)
  /\ UNCHANGED <<image, handle, dir>>

(* lookup takes the first file of that name; a file prodos_stat() refuses  *)
(* is not found.                                                           *)
Found(d, files, name) ==
  LET I == {i \in DOMAIN files : EntryAt(d, files[i]).name = name}
      found == files[Min(I)]
      stat == Stat(d, found, EntryAt(d, found))
  IN  IF I = {} THEN Error("ENOENT")
      ELSE IF stat.op = "error" THEN Error("ENOENT") ELSE stat

LookupEnds ==
  /\ Asked("lookup") /\ walk.status \in {"ok", "error"}
  /\ Answer(IF walk.status = "ok" THEN Found(disk, walk.files, request.name) ELSE Error("EIO"))
  /\ UNCHANGED <<image, handle, dir>>

(* opendir keeps the result in a bool and never sees an error: it opens    *)
(* what it has found before.                                               *)
OpendirEnds ==
  /\ Asked("opendir") /\ walk.status \in {"ok", "error"}
  /\ Answer([op |-> "opened"])
  /\ dir' = [open |-> TRUE, inode |-> request.inode, files |-> walk.files,
             offset |-> 0, seen |-> <<>>, done |-> FALSE]
  /\ UNCHANGED <<image, handle>>

(* The entries from offset on that leave a byte of the buffer free.        *)
Fitting(files, offset, size) ==
  SubSeq(files, offset + 1, Smaller(Len(files), offset + (size - 1) \div EntrySize))

Readdir_OneOff ==
  /\ Asked("readdir")
  /\ LET names == Fitting(dir.files, request.offset, request.size)
     IN  /\ Answer([op |-> "entries", names |-> names])
         /\ dir' = [dir EXCEPT !.seen = @ \o names, !.offset = @ + Len(names) + 1,
                               !.done = (names = <<>>)]
  /\ UNCHANGED <<image, handle>>

Readdir ==
  /\ Asked("readdir")
  /\ LET names == Fitting(dir.files, request.offset, request.size)
     IN  /\ Answer([op |-> "entries", names |-> names])
         /\ dir' = [dir EXCEPT !.seen = @ \o names, !.offset = @ + Len(names),
                               !.done = (names = <<>>)]
  /\ UNCHANGED <<image, handle>>

Releasedir ==
  /\ Asked("releasedir") /\ Answer([op |-> "ok"]) /\ dir' = NoDir
  /\ UNCHANGED <<image, handle>>

(* A raw device throws when it cannot read a block, whichever it is, and   *)
(* nothing below FUSE catches it.  These requests read the disk; a file    *)
(* whose pointers are one hole is not read.                                *)
Reads ==
  \/ Asked("statfs") \/ Asked("getattr") \/ Asked("opendir")
  \/ Asked("lookup") /\ request.name \notin Invalid
  \/ (Asked("listxattr") \/ Asked("getxattr") \/ Asked("open")) /\ request.inode # Root
  \/ Asked("read") /\ LET e == handle[request.handle].entry
                      IN  request.offset < e.eof /\ e.key # 0

DeviceThrows ==
  /\ image \in RawImages /\ Reads /\ Answer(Dead)
  /\ UNCHANGED <<image, handle, dir>>

(* The file system is unmounted, and may be mounted again.                 *)
Unmount ==
  /\ running => request = None
  /\ running' = TRUE /\ request' = None /\ walk' = NoWalk /\ reply' = None
  /\ handle' = [h \in Handles |-> Closed] /\ dir' = NoDir /\ UNCHANGED image

Serves ==
  \/ About \/ Open \/ Release \/ ReadFile \/ RefusedWalk \/ EnterDirectory \/ NextEntry
  \/ WalkThrows \/ LookupEnds \/ OpendirEnds \/ Readdir \/ Releasedir \/ DeviceThrows

Next ==
  \/ AskAbout \/ AskDirectory \/ Taken \/ \E h \in Handles : AskFile(h)
  \/ Serves \/ Unmount

(* The session loop goes on with the request it has; the kernel need not   *)
(* ask.                                                                    *)
Spec == Init /\ [][Next]_vars /\ WF_vars(Serves)

-----------------------------------------------------------------------------
(* What a directory and a file hold, by definition.                        *)

(* The n-th block of the chain from key, counted from 0.                   *)
ChainFrom(d, key) ==
  LET nth[n \in 0..d.blocks] ==
        IF n = 0 THEN key
        ELSE LET b == nth[n-1]
             IN  IF b < d.blocks /\ (n = 1 \/ b # 0) THEN d.content[b].next ELSE b
  IN  nth

HasHeader(d, key, storage) == key < d.blocks /\ d.content[key].storage = storage
Sound(d, key, storage) ==
  HasHeader(d, key, storage) /\ \E n \in 1..d.blocks : ChainFrom(d, key)[n] = 0

(* The blocks a chain reaches, the n-th and those before it, until it      *)
(* ends, leads out of the disk or comes back to one of them.               *)
Reached(d, key) ==
  LET nth == ChainFrom(d, key)
  IN  {n \in 0..d.blocks-1 : \A m \in 0..n :
         /\ nth[m] < d.blocks /\ (m = 0 \/ nth[m] # 0)
         /\ \A k \in 0..m-1 : nth[k] # nth[m]}

(* The entries in use of a directory: all the slots of those blocks but    *)
(* the header, if it counts any.                                           *)
ActiveEntries(d, key) ==
  LET nth == ChainFrom(d, key)
      head == d.content[key].head
      slots == {s \in Reached(d, key) \X (0..head.perBlock-1) : s # <<0, 0>>}
  IN  IF head.count = 0 THEN {}
      ELSE {i \in {<<nth[s[1]], s[2]>> : s \in slots} : ~Deleted(EntryAt(d, i))}

(* i comes before j in the directory: in an earlier block, or the same.    *)
Before(d, key, i, j) ==
  LET nth == ChainFrom(d, key)
  IN  \E n \in Reached(d, key) : \E m \in 0..n :
        nth[m] = i[1] /\ nth[n] = j[1] /\ (m < n \/ i[2] < j[2])

IsDirectory(d, inode) == inode = Root \/ EntryAt(d, inode).storage = "directory"
KeyOf(d, inode) == IF inode = Root THEN 2 ELSE EntryAt(d, inode).key
HeaderOf(inode) == IF inode = Root THEN "volume" ELSE "subdir"

(* The fork of an entry, and its k-th byte, counted from 0: where it is    *)
(* follows from the pointers alone.                                        *)
Fork(d, e, fork) ==
  IF e.storage = "extended" THEN d.content[e.key][fork] ELSE e
Pointed(d, block, i) == IF block = 0 THEN 0 ELSE d.content[block].keys[i]
ByteOf(d, f, k) ==
  LET n == k \div BlockSize
      block == CASE f.storage = "seedling" -> f.key
                 [] f.storage = "sapling" -> Pointed(d, f.key, n)
                 [] f.storage = "tree" -> Pointed(d, Pointed(d, f.key, n \div Pointers), n % Pointers)
  IN  IF block = 0 THEN 0 ELSE d.content[block].bytes[(k % BlockSize) + 1]
Slice(d, f, from, size) == [k \in 1..Smaller(size, f.eof - from) |-> ByteOf(d, f, from + k - 1)]

(* The bytes its pointers can lead to.                                     *)
Capacity(storage) ==
  BlockSize * (CASE storage = "seedling" -> 1 [] storage = "sapling" -> Pointers
                 [] storage = "tree" -> Pointers * Pointers)

-----------------------------------------------------------------------------
(* Properties.                                                             *)

(* Type correctness.  A walk visits no block twice, so that it takes no    *)
(* more entries than its blocks have; and the mount dies of an exception   *)
(* only if its device may fail, or the disk has a pointer to the block     *)
(* after its last.                                                         *)
TypeOK ==
  /\ image \in DOMAIN Disks /\ running \in BOOLEAN
  /\ walk # NoWalk =>
       /\ walk.status \in {"walking", "ok", "error", "throws"}
       /\ walk.status = "walking" =>
            walk.index \in 0..walk.perBlock-1 /\ walk.visited \subseteq 0..disk.blocks-1
       /\ Len(walk.files) <= walk.perBlock * Cardinality(walk.visited)
  /\ \A h \in Handles : handle[h].open => handle[h].entry.storage \in FileTypes
  /\ dir.open => dir.offset \in 0..Len(dir.files)
  /\ ~running => image \in RawImages \/ \E b \in DOMAIN disk.content :
       LET c == disk.content[b]
       IN  \/ c.kind = "dir" /\ c.next = disk.blocks
           \/ c.kind = "dir" /\ \E i \in DOMAIN c.entries : c.entries[i].key = disk.blocks
           \/ c.kind = "extended" /\ disk.blocks \in {c.data.key, c.resource.key}
           \/ c.kind = "index" /\ \E i \in 0..Pointers-1 : c.keys[i] = disk.blocks

(* An open directory holds the entries in use of its chain, each once and  *)
(* in order, of a damaged chain those of the blocks before the damage, and *)
(* none without a header; and however small the buffers, a reader who goes *)
(* on until the empty answer has had all.                                  *)
ListingRight ==
  dir.open =>
    LET key == KeyOf(disk, dir.inode)
        files == dir.files
    IN  /\ ToSet(files) = IF HasHeader(disk, key, HeaderOf(dir.inode))
                             THEN ActiveEntries(disk, key) ELSE {}
        /\ \A i, j \in DOMAIN files : i < j => Before(disk, key, files[i], files[j])
        /\ dir.done => dir.seen = files

(* A read of an open file, or of a resource fork, returns the bytes the    *)
(* pointers lead to, holes included, for any file and offset, if its size  *)
(* is one that its level of pointers can lead to.  After them come as many *)
(* more as were asked for, which the kernel is left to cut off; they are   *)
(* memory nobody wrote exactly where a seedling's one block has ended.     *)
(* Where the behaviour is undefined, a read began inside an index of a     *)
(* tree and left it, or an empty seedling fork was read.                   *)
ReadsFlat ==
  LET f == IF request.op = "read" THEN handle[request.handle].entry
           ELSE Fork(disk, EntryAt(disk, request.inode), "resource")
      from == IF request.op = "read" THEN request.offset ELSE 0
      start == (from \div BlockSize) % Pointers
      expected == IF from >= f.eof THEN <<>> ELSE Slice(disk, f, from, request.size)
      length == IF request.op # "read" THEN Smaller(request.size, f.eof)
                ELSE IF from >= f.eof THEN 0 ELSE request.size
  IN  /\ reply.op = "data" /\ f.eof <= Capacity(f.storage) =>
           /\ Len(reply.bytes) = length /\ SubSeq(reply.bytes, 1, Len(expected)) = expected
           /\ \A k \in 1..length : reply.bytes[k] = Unset <=>
                                   f.storage = "seedling" /\ (from % BlockSize) + k > BlockSize
      /\ reply.op = "undefined" =>
           \/ f.storage = "seedling" /\ f.eof = 0
           \/ /\ f.storage # "seedling"
              /\ start * BlockSize + (from % BlockSize) + request.size > Pointers * BlockSize

(* What the kernel is told of a file fits together: lookup answers with a  *)
(* file of that name, and says there is none only if the directory has     *)
(* none or its first cannot be read; getattr gives the size of its data    *)
(* fork; an attribute is listed exactly when it has a value, or its fork   *)
(* is damaged; asking again with the length a size of 0 was answered with  *)
(* succeeds, but for a resource fork whose pointers lead nowhere.          *)
AttributesAgree ==
  LET q == request
      a == reply
      key == KeyOf(disk, q.inode)
      Named == {i \in ActiveEntries(disk, key) : EntryAt(disk, i).name = q.name}
      Unread == {Error("EIO"), Dead}
  IN  /\ a.op = "attr" /\ q.op = "lookup" =>
           /\ EntryAt(disk, a.inode).name = q.name
           /\ IsDirectory(disk, q.inode) /\ HasHeader(disk, key, HeaderOf(q.inode))
      /\ a.op = "attr" /\ a.inode # Root =>
           LET f == Fork(disk, EntryAt(disk, a.inode), "data")
           IN  f.storage # "directory" => a.size = f.eof
      /\ a = Error("ENOENT") /\ q.name \notin Invalid /\ IsDirectory(disk, q.inode)
           /\ Sound(disk, key, HeaderOf(q.inode)) =>
           \A i \in Named : Getattr(disk, i) = Error("EIO") \/ \E j \in Named : Before(disk, key, j, i)
      /\ a.op = "names" /\ a.names # <<>> =>
           \A x \in DOMAIN AttributeSize :
             LET v == Getxattr(disk, q.inode, x, 0)
             IN  /\ v.op = "length" => x \in ToSet(a.names)
                 /\ x \in ToSet(a.names) => v.op = "length" \/ v \in Unread
      /\ a.op = "length" /\ a.length # 0 =>
           IF q.op = "listxattr" THEN Listxattr(disk, q.inode, a.length).op = "names"
           ELSE LET v == Getxattr(disk, q.inode, q.name, a.length)
                IN  \/ v.op \in {"value", "data", "undefined"}
                    \/ q.name = "ResourceFork" /\ v \in Unread

(* Every request is answered, or ends the mount: a walk comes to its end   *)
(* whatever the disk says, also along a chain that closes on itself.       *)
EveryRequestAnswered == request # None ~> reply # None
=============================================================================
