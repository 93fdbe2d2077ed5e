------------------------------ MODULE ProDOSDisk ------------------------------
(***************************************************************************)
(* ProDOS/Disk.cpp and ProDOS/File.cpp: what a ProDOS disk says, as        *)
(* operators over a disk d.  d.content is a function from the disk's       *)
(* blocks, 0 to d.blocks - 1, to what they hold: bytes, an index of        *)
(* pointers, the two forks of an extended file, or a piece of a directory. *)
(* Loading an entry from its bytes is left out: a block holds it loaded.   *)
(* What an operator finds is a record with a status: "ok", "error" for a   *)
(* negative result, "throws" for an exception of the device, "undefined"   *)
(* where the code reads past a buffer.                                     *)
(***************************************************************************)
EXTENDS Integers, FiniteSets, SequencesExt

CONSTANTS
  BlockSize,   \* 512
  Pointers     \* how many block numbers an index holds, 256

ASSUME ProDOSDiskAssumption ==
  BlockSize \in Nat \ {0} /\ Pointers \in Nat \ {0}

Failed == [status |-> "error"]
Throws == [status |-> "throws"]
Undefined == [status |-> "undefined"]

Smaller(a, b) == IF a <= b THEN a ELSE b
Zeros == [i \in 1..BlockSize |-> 0]

FileTypes == {"seedling", "sapling", "tree"}
Level(storage) == CASE storage = "seedling" -> 0 [] storage = "sapling" -> 1
                    [] storage = "tree" -> 2

Entry == [name : STRING, storage : STRING, key : Nat, eof : Nat, type : STRING]
MiniEntry == [storage : STRING, key : Nat, eof : Nat]

(* What a file's pointers name is what the levels of ReadIndex() take it   *)
(* for, unless they lead out of the disk.                                  *)
DataBlock(d, p) == p \in 1..d.blocks-1 => d.content[p].kind = "data"
IndexBlock(d, p) ==
  p \in 1..d.blocks-1 =>
    d.content[p].kind = "index" /\ \A i \in 0..Pointers-1 : DataBlock(d, d.content[p].keys[i])
TreeBlock(d, p) ==
  p \in 1..d.blocks-1 =>
    d.content[p].kind = "index" /\ \A i \in 0..Pointers-1 : IndexBlock(d, d.content[p].keys[i])
KeyBlock(d, f) ==
  /\ f.storage = "seedling" => DataBlock(d, f.key)
  /\ f.storage = "sapling" => IndexBlock(d, f.key)
  /\ f.storage = "tree" => TreeBlock(d, f.key)

(* A disk, healthy or damaged: numbers of blocks may lead anywhere, but    *)
(* block 2 has the header of a volume, a header says how many entries fit  *)
(* in a block, two at least, and no block is taken for two kinds.          *)
IsDisk(d) ==
  /\ d.blocks \in Nat /\ DOMAIN d.content = 0..d.blocks-1
  /\ 2 < d.blocks /\ d.content[2].storage = "volume"
  /\ \A b \in 0..d.blocks-1 :
       LET c == d.content[b]
       IN  /\ c.storage \in {"volume", "subdir"} =>
                /\ c.kind = "dir" /\ c.head.count \in Nat /\ c.head.perBlock \in Nat \ {0, 1}
                /\ \A o \in 0..d.blocks-1 :
                     d.content[o].kind = "dir" =>
                       0..c.head.perBlock-1 \subseteq DOMAIN d.content[o].entries
           /\ c.kind = "dir" =>
                /\ c.next \in Nat
                /\ c.next \in 1..d.blocks-1 => d.content[c.next].kind = "dir"
                /\ \A i \in DOMAIN c.entries :
                     LET e == c.entries[i]
                     IN  /\ i \in Nat /\ e \in Entry /\ KeyBlock(d, e)
                         /\ e.storage = "extended" /\ e.key < d.blocks =>
                              d.content[e.key].kind = "extended"
           /\ c.kind = "extended" =>
                \A f \in {"data", "resource"} : c[f] \in MiniEntry /\ KeyBlock(d, c[f])
           /\ c.kind = "data" => c.bytes \in [1..BlockSize -> Nat]
           /\ c.kind = "index" => c.keys \in [0..Pointers-1 -> Nat]

-----------------------------------------------------------------------------
(* The block after the last passes the check and is left to the device,    *)
(* which throws.  An image in memory never fails on a block it has; that a *)
(* raw device may is for who reads.                                        *)
ReadBlock(d, block) ==
  IF block > d.blocks THEN Failed
  ELSE IF block = d.blocks THEN Throws
  ELSE [status |-> "ok", content |-> d.content[block]]

(* An inode is the place of an entry, its block and its position in it;    *)
(* inode 1, no entry's place, is the volume.                               *)
Root == <<0, -1>>
EntryAt(d, inode) == d.content[inode[1]].entries[inode[2]]

(* Normalize(): the entry of an extended file takes the type, key and size *)
(* of a fork.                                                              *)
Normalize(d, e, fork) ==
  LET r == ReadBlock(d, e.key)
      mini == r.content[fork]
  IN  IF e.storage # "extended"
        THEN IF fork = "data" THEN [status |-> "ok", entry |-> e] ELSE Failed
      ELSE IF r.status # "ok" THEN r
      ELSE [status |-> "ok", finder |-> r.content.finder,
            entry |-> [e EXCEPT !.storage = mini.storage, !.key = mini.key,
                                !.eof = mini.eof]]

-----------------------------------------------------------------------------
(* ReadIndex(), level by level.  A pointer of 0 is a hole.                 *)

ReadData(d, block) ==
  LET r == ReadBlock(d, block)
  IN  IF block = 0 THEN [status |-> "ok", bytes |-> Zeros]
      ELSE IF r.status # "ok" THEN r
      ELSE [status |-> "ok", bytes |-> r.content.bytes]

(* The pointers of an index, counted from 0.                               *)
ReadKeys(d, block) ==
  LET r == ReadBlock(d, block)
  IN  IF block = 0 THEN [status |-> "ok", keys |-> [i \in 0..Pointers-1 |-> 0]]
      ELSE IF r.status # "ok" THEN r
      ELSE [status |-> "ok", keys |-> r.content.keys]

(* `size' bytes of pieces, each put `stride' bytes after the one before,   *)
(* or the first that is not there.                                         *)
Joined(pieces, stride, size) ==
  LET Lost == {i \in DOMAIN pieces : pieces[i].status # "ok"}
  IN  IF Lost # {} THEN pieces[Min(Lost)]
      ELSE [status |-> "ok",
            bytes |-> [k \in 1..size |->
                         pieces[(k-1) \div stride + 1].bytes[((k-1) % stride) + 1]]]

(* `blocks' blocks from the first-th pointer of an index on: past the last *)
(* pointer it reads past the buffer.                                       *)
ReadPointed(d, block, first, blocks) ==
  LET r == ReadKeys(d, block)
  IN  IF r.status # "ok" THEN r
      ELSE Joined([i \in 1..blocks |-> IF first + i - 1 >= Pointers THEN Undefined
                                       ELSE ReadData(d, r.keys[first + i - 1])],
                  BlockSize, blocks * BlockSize)

(* Level 2 asks each index for 256 blocks, the first one too, though it    *)
(* begins there in the middle: such a read runs past that index.           *)
ReadTree_FromStart(d, block, offset, blocks) ==
  LET r == ReadKeys(d, block)
      first == (offset \div (BlockSize * Pointers)) % Pointers
      chunks == (blocks + Pointers - 1) \div Pointers
      Count(c) == Smaller(blocks - (c-1) * Pointers, Pointers)
  IN  IF r.status # "ok" THEN r
      ELSE Joined([c \in 1..chunks |->
                     IF first + c - 1 >= Pointers THEN Undefined
                     ELSE ReadPointed(d, r.keys[first + c - 1], 0, Count(c))],
                  BlockSize * Pointers, blocks * BlockSize)

ReadTree(d, block, offset, blocks) ==
  LET r == ReadKeys(d, block)
      first == (offset \div (BlockSize * Pointers)) % Pointers
      start == (offset \div BlockSize) % Pointers
      chunks == (blocks + Pointers - 1) \div Pointers
      Count(c) == Smaller(blocks - (c-1) * Pointers, Pointers)
  IN  IF r.status # "ok" THEN r
      ELSE Joined([c \in 1..chunks |->
                     IF first + c - 1 >= Pointers THEN Undefined
                     ELSE ReadPointed(d, r.keys[first + c - 1],
                                      IF c = 1 THEN start ELSE 0, Count(c))],
                  BlockSize * Pointers, blocks * BlockSize)

(* At level 0 the offset is not looked at and one block is read.           *)
ReadIndex(d, block, level, offset, blocks) ==
  CASE level = 0 -> ReadData(d, block)
    [] level = 1 -> ReadPointed(d, block, (offset \div BlockSize) % Pointers, blocks)
    [] level = 2 -> ReadTree(d, block, offset, blocks)

-----------------------------------------------------------------------------
(* ReadVolume() and ReadDirectory() walk the chain of a directory's        *)
(* blocks.  A walk w is where they are; one turn of their loop is Step.    *)

Directory(d, block, storage) ==
  LET r == ReadBlock(d, block)
  IN  IF r.status # "ok" THEN r
      ELSE IF r.content.storage # storage THEN Failed
      ELSE [status |-> "ok", head |-> r.content.head]

Finished(w, status) == [w EXCEPT !.status = status]

(* Before the loop: the header, which is entry 0 of the first block.       *)
Enter(d, key, storage) ==
  LET r == Directory(d, key, storage)
      w == [status |-> "walking", block |-> key, index |-> 1, visited |-> {key},
            perBlock |-> 0, files |-> <<>>]
  IN  IF r.status # "ok" THEN Finished(w, r.status)
      ELSE IF r.head.count = 0 THEN Finished(w, "ok")
      ELSE [w EXCEPT !.perBlock = r.head.perBlock]

Follow_Cycles(d, w) ==
  LET next == d.content[w.block].next
      r == ReadBlock(d, next)
  IN  IF next = 0 THEN Finished(w, "ok")
      ELSE IF r.status # "ok" THEN Finished(w, r.status)
      ELSE [w EXCEPT !.block = next, !.index = 0, !.visited = @ \union {next}]

(* At the end of a block, the next, unless it was there before.            *)
Follow(d, w) ==
  LET next == d.content[w.block].next
      r == ReadBlock(d, next)
  IN  IF next = 0 THEN Finished(w, "ok")
      ELSE IF next \in w.visited THEN Finished(w, "error")
      ELSE IF r.status # "ok" THEN Finished(w, r.status)
      ELSE [w EXCEPT !.block = next, !.index = 0, !.visited = @ \union {next}]

Deleted(e) == e.storage = "deleted"

Step_Continues(d, w) ==
  LET e == d.content[w.block].entries[w.index]
      taken == [w EXCEPT !.files = Append(@, <<w.block, w.index>>), !.index = @ + 1]
  IN  IF Deleted(e) THEN w
      ELSE IF taken.index >= w.perBlock THEN Follow(d, taken) ELSE taken

Step(d, w) ==
  LET e == d.content[w.block].entries[w.index]
      taken == [w EXCEPT !.files = IF Deleted(e) THEN @
                                   ELSE Append(@, <<w.block, w.index>>),
                         !.index = @ + 1]
  IN  IF taken.index >= w.perBlock THEN Follow(d, taken) ELSE taken
=============================================================================
