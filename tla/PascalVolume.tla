----------------------------- MODULE PascalVolume -----------------------------
(***************************************************************************)
(* The UCSD Pascal volume as apfm changes it: Pascal/VolumeEntry.cpp and   *)
(* the parts of Pascal/FileEntry.cpp that touch a directory entry, driven  *)
(* by the commands of bin/apfm.cpp.  A process opens the volume, runs one  *)
(* command (rm takes several names, put is several calls) and exits, or is *)
(* killed between two calls: what the next one sees is the directory on    *)
(* the disk, to which a mapped image writes at once (the buffer pool does  *)
(* when a call syncs, and when it is destroyed).  A block's content is a   *)
(* member of Data: what matters is whose blocks a step writes.             *)
(***************************************************************************)
EXTENDS Integers, Sequences, FiniteSets, SequencesExt

CONSTANTS
  Names,            \* file names, up to case
  None,             \* the name in a zeroed directory slot, and no data
  Data,             \* what a data block can hold
  BlockSize,        \* 512
  FirstData,        \* the block after the directory, 6
  LastVolumeBlock,  \* the block after the last of the volume
  MaxFiles,         \* kMaxFiles, 77
  DataSizes,        \* lengths of the native files put may be given
  TextBlocks,       \* lengths in blocks of the texts put may be given
  Moves             \* the (source, destination) pairs mv is called with

Kinds == {"untyped", "data", "text"}

ASSUME VolumeAssumption ==
  /\ IsFiniteSet(Names) /\ None \notin Names /\ None \notin Data
  /\ BlockSize \in Nat \ {0}
  /\ FirstData \in Nat /\ LastVolumeBlock \in Nat /\ FirstData <= LastVolumeBlock
  /\ MaxFiles \in Nat
  /\ DataSizes \subseteq Nat \ {0} /\ TextBlocks \subseteq Nat \ {0}
  /\ Moves \subseteq Names \X Names

VARIABLES
  readOnly,  \* what the device a process opened answers
  header,    \* _fileCount as block 2 holds it
  slot,      \* the directory slots on the disk
  content,   \* the data blocks
  files,     \* _files, while a process has the volume open
  command,   \* the command it runs and the names it may change
  put        \* how far a put has come

vars == <<readOnly, header, slot, content, files, command, put>>

Slots == 1..MaxFiles
DataBlocks == FirstData..LastVolumeBlock-1

Zeroed == [name |-> None, kind |-> "untyped", first |-> 0, last |-> 0,
           lastByte |-> 0]
NoPut == [at |-> 0, size |-> 0, offset |-> 0, kind |-> "untyped", set |-> FALSE,
          data |-> None]
Idle == [op |-> "none", names |-> {}]

-----------------------------------------------------------------------------
(* One file entry.  In memory it also has _maxFileSize and its address.    *)

OnDisk(e) == [name |-> e.name, kind |-> e.kind, first |-> e.first,
              last |-> e.last, lastByte |-> e.lastByte]

BlocksOf(e) == e.last - e.first
DataFileSize(e) == BlocksOf(e) * BlockSize - BlockSize + e.lastByte

LargerOf(a, b) == IF a >= b THEN a ELSE b

SetFileSize_RestForgotten(e, size) ==
  [e EXCEPT !.last = e.first + LargerOf(1, size \div BlockSize),
            !.lastByte = IF size % BlockSize = 0 THEN BlockSize ELSE size % BlockSize]

(* A size that fills its last block is given one block more.               *)
SetFileSize(e, size) ==
  IF size = 0
    THEN [e EXCEPT !.last = e.first + 1, !.lastByte = 0]
    ELSE [e EXCEPT !.last = e.first + 1 + size \div BlockSize,
                   !.lastByte = IF size % BlockSize = 0 THEN BlockSize
                                ELSE size % BlockSize]

-----------------------------------------------------------------------------
(* The list of files, fs, in the order of their first blocks.              *)

(* The position of a name, 0 if no file has it.                            *)
FileByName(fs, n) ==
  LET I == {i \in DOMAIN fs : fs[i].name = n}
  IN  IF I = {} THEN 0 ELSE Min(I)

(* The block free space before the i-th file starts at, and how long it is;*)
(* after the last file it runs to the end of the volume.                   *)
EndBefore(fs, i) == IF i = 1 THEN FirstData ELSE fs[i-1].last
StartAt(fs, i) == IF i > Len(fs) THEN LastVolumeBlock ELSE fs[i].first
FreeBefore(fs, i) == StartAt(fs, i) - EndBefore(fs, i)
Places(fs) == 1..Len(fs)+1

MaxContiguousBlocks(fs) == Max({FreeBefore(fs, i) : i \in Places(fs)})

CanKrunch(fs) == \E i \in DOMAIN fs : fs[i].last # EndBefore(fs, i)

(* krunch() starts by refusing a list with a file below volumeBlocks(),    *)
(* and so any list that has a file.                                        *)
KrunchAccepts(fs) ==
  \A i \in DOMAIN fs : /\ fs[i].first >= EndBefore(fs, i)
                       /\ fs[i].last >= fs[i].first
                       /\ fs[i].first >= LastVolumeBlock

CalcMaxFileSize(fs) ==
  [i \in DOMAIN fs |->
     [fs[i] EXCEPT !.max = (StartAt(fs, i+1) - fs[i].first) * BlockSize]]

(* What the constructor loads, and the check it makes of it.               *)
Loaded ==
  [i \in 1..header |->
     [name |-> slot[i].name, kind |-> slot[i].kind, first |-> slot[i].first,
      last |-> slot[i].last, lastByte |-> slot[i].lastByte, max |-> 0,
      slot |-> i]]

ValidFiles(fs) ==
  \A i \in DOMAIN fs : /\ fs[i].first <= fs[i].last
                       /\ fs[i].first < LastVolumeBlock
                       /\ fs[i].last <= LastVolumeBlock
                       /\ fs[i].first >= EndBefore(fs, i)

-----------------------------------------------------------------------------
(* The operations, on a volume v = [files, header, slot]: the list in      *)
(* memory and the directory on the disk.                                   *)

Volume == [files |-> files, header |-> header, slot |-> slot]

(* writeEntry(e): the slot its address says, whatever list e is in.        *)
WriteEntry(v, e) == [v EXCEPT !.slot[e.slot] = OnDisk(e)]

FilesWithout_KeepsRoom(v, i) ==
  LET rest == RemoveAt(v.files, i)
  IN  [j \in DOMAIN rest |->
         IF j < i THEN rest[j] ELSE [rest[j] EXCEPT !.slot = @ - 1]]

(* The list without its i-th file: the one before gets its room, those     *)
(* after move up one slot.                                                 *)
FilesWithout(v, i) ==
  LET rest == RemoveAt(v.files, i)
  IN  [j \in DOMAIN rest |->
         IF j + 1 = i THEN [rest[j] EXCEPT !.max = @ + v.files[i].max]
         ELSE IF j < i THEN rest[j]
         ELSE [rest[j] EXCEPT !.slot = @ - 1]]

Unlink(v, i) ==
  LET n == Len(v.files) - 1
  IN  [files  |-> FilesWithout(v, i),
       header |-> n,
       slot   |-> [s \in Slots |-> IF s = n + 1 THEN Zeroed
                                   ELSE IF i <= s /\ s <= n THEN v.slot[s+1]
                                   ELSE v.slot[s]]]

(* Where create() puts a file: the first place with room.  One it inserts  *)
(* has all the addresses set again, one it appends its own.                *)
Roomy_Almost(fs, blocks) == {i \in Places(fs) : FreeBefore(fs, i) + 1 >= blocks}
Roomy(fs, blocks) == {i \in Places(fs) : FreeBefore(fs, i) >= blocks}

CanCreate_Again(v, n, blocks) ==
  Len(v.files) < MaxFiles /\ Roomy(v.files, blocks) # {}

CanCreate_NoLimit(v, n, blocks) ==
  FileByName(v.files, n) = 0 /\ Roomy(v.files, blocks) # {}

CanCreate(v, n, blocks) ==
  /\ Len(v.files) < MaxFiles
  /\ FileByName(v.files, n) = 0
  /\ Roomy(v.files, blocks) # {}

PlaceFor(v, blocks) == Min(Roomy(v.files, blocks))

Create(v, n, blocks) ==
  LET i == PlaceFor(v, blocks)
      start == EndBefore(v.files, i)
      e == [name |-> n, kind |-> "untyped", first |-> start, last |-> start + 1,
            lastByte |-> 0, max |-> FreeBefore(v.files, i) * BlockSize,
            slot |-> i]
      before == [j \in DOMAIN v.files |->
                   IF j + 1 = i
                     THEN [v.files[j] EXCEPT !.max = BlocksOf(v.files[j]) * BlockSize]
                     ELSE v.files[j]]
      after == InsertAt(before, i, e)
  IN  [files  |-> IF i = Len(after) THEN after
                  ELSE [j \in DOMAIN after |-> [after[j] EXCEPT !.slot = j]],
       header |-> Len(after),
       slot   |-> [s \in Slots |->
                     IF s = i THEN OnDisk(e)
                     ELSE IF i < s /\ s <= Len(after) THEN v.slot[s-1]
                     ELSE v.slot[s]]]

(* rename(): a file of the new name is unlinked first; e is the entry, in  *)
(* the list or not, that oldName found.                                    *)
Rename_OldAddress(v, old, new) ==
  LET k == FileByName(v.files, new)
      u == IF k = 0 THEN v ELSE Unlink(v, k)
      e == v.files[FileByName(v.files, old)]
      j == FileByName(u.files, old)
  IN  WriteEntry(IF j = 0 THEN u ELSE [u EXCEPT !.files[j].name = new],
                 [e EXCEPT !.name = new])

Rename(v, old, new) ==
  LET i == FileByName(v.files, old)
      k == FileByName(v.files, new)
      u == IF k = 0 THEN v ELSE Unlink(v, k)
      j == FileByName(u.files, old)
  IN  IF j = 0
        THEN WriteEntry(u, [v.files[i] EXCEPT !.name = new])
        ELSE LET e == [u.files[j] EXCEPT !.name = new]
             IN  WriteEntry([u EXCEPT !.files[j] = e], e)

(* copy(): the destination, at k, is overwritten where it is if it has the *)
(* room, else replaced.                                                    *)
Fits(v, k, blocks) == k # 0 /\ v.files[k].max >= blocks * BlockSize

Without(v, k) == IF k = 0 THEN v ELSE Unlink(v, k)

CanCopy(v, k, new, blocks) ==
  \/ Fits(v, k, blocks)
  \/ /\ MaxContiguousBlocks(v.files) >= blocks
     /\ CanCreate(Without(v, k), new, blocks)

(* The volume when copy() starts to write blocks, or gives up.             *)
Prepared_UnlinksFirst(v, k, new, blocks) ==
  IF Fits(v, k, blocks) THEN v
  ELSE IF CanCopy(v, k, new, blocks) THEN Create(Without(v, k), new, blocks)
  ELSE Without(v, k)

Prepared(v, k, new, blocks) ==
  IF Fits(v, k, blocks) \/ MaxContiguousBlocks(v.files) < blocks THEN v
  ELSE IF CanCreate(Without(v, k), new, blocks)
         THEN Create(Without(v, k), new, blocks)
         ELSE Without(v, k)

(* The new entry as copy() leaves it in memory: nothing writes it to disk. *)
CopyInto(v, new, old) ==
  LET j == FileByName(v.files, new)
      e == v.files[j]
  IN  [v EXCEPT !.files[j] = [e EXCEPT !.kind = old.kind, !.lastByte = old.lastByte,
                                       !.last = e.first + BlocksOf(old)]]

CopyBlocks(c, from, to, blocks) ==
  [b \in DataBlocks |->
     IF to <= b /\ b < to + blocks THEN c[from + (b - to)] ELSE c[b]]

-----------------------------------------------------------------------------
(* The process.                                                            *)

SetVolume(v) == files' = v.files /\ header' = v.header /\ slot' = v.slot

Starts(op, names) == command' = [op |-> op, names |-> names]

(* A volume VolumeEntry::Create has just made: its data blocks are as they *)
(* were.                                                                   *)
Init ==
  /\ readOnly = FALSE
  /\ header = 0 /\ slot = [s \in Slots |-> Zeroed]
  /\ \E d \in Data : content = [b \in DataBlocks |-> d]
  /\ files = <<>> /\ command = Idle /\ put = NoPut

Open ==
  /\ command.op = "none"
  /\ ValidFiles(Loaded)
  /\ files' = CalcMaxFileSize(Loaded)
  /\ readOnly' \in BOOLEAN
  /\ Starts("open", {})
  /\ UNCHANGED <<header, slot, content, put>>

(* "Invalid file entry": the constructor throws and the process ends.      *)
OpenThrows ==
  /\ command.op = "none"
  /\ ~ValidFiles(Loaded)
  /\ UNCHANGED vars

(* The process returns, or is killed.                                      *)
Exit ==
  /\ command.op # "none"
  /\ readOnly' = FALSE /\ files' = <<>> /\ command' = Idle /\ put' = NoPut
  /\ UNCHANGED <<header, slot, content>>

(* On a read-only device every operation returns EROFS first.              *)
Refused ==
  /\ readOnly /\ command.op = "open"
  /\ Starts("refused", {})
  /\ UNCHANGED <<readOnly, header, slot, content, files, put>>

Rm_Unchecked(n) ==
  /\ command.op \in {"open", "rm"} /\ FileByName(files, n) # 0
  /\ SetVolume(Unlink(Volume, FileByName(files, n)))
  /\ Starts("rm", {n})
  /\ UNCHANGED <<readOnly, content, put>>

Rm(n) ==
  /\ ~readOnly /\ command.op \in {"open", "rm"}
  /\ FileByName(files, n) # 0
  /\ SetVolume(Unlink(Volume, FileByName(files, n)))
  /\ Starts("rm", {n})
  /\ UNCHANGED <<readOnly, content, put>>

Mv(old, new) ==
  /\ ~readOnly /\ command.op = "open"
  /\ FileByName(files, old) # 0
  /\ SetVolume(Rename(Volume, old, new))
  /\ Starts("mv", {old, new})
  /\ UNCHANGED <<readOnly, content, put>>

Cp(old, new) ==
  /\ ~readOnly /\ command.op = "open"
  /\ FileByName(files, old) # 0
  /\ LET e == files[FileByName(files, old)]
         k == FileByName(files, new)
         v == Prepared(Volume, k, new, BlocksOf(e))
     IN  IF CanCopy(Volume, k, new, BlocksOf(e))
           THEN LET w == CopyInto(v, new, e)
                    to == w.files[FileByName(w.files, new)].first
                IN  /\ SetVolume(w)
                    /\ content' = CopyBlocks(content, e.first, to, BlocksOf(e))
                    /\ Starts("cp", {new})
           ELSE /\ SetVolume(v) /\ Starts("cp_failed", {})
                /\ UNCHANGED content
  /\ UNCHANGED <<readOnly, put>>

(* krunch() returns before it moves anything: 0 if there is no gap, else   *)
(* damagedBitMap.                                                          *)
Krunch ==
  /\ command.op = "open"
  /\ CanKrunch(files) /\ ~KrunchAccepts(files)
  /\ Starts("krunch", {})
  /\ UNCHANGED <<readOnly, header, slot, content, files, put>>

(* put: create() for the blocks the file or the text needs.                *)
PutCreate(n, size, kind, d) ==
  LET blocks == (size + BlockSize - 1) \div BlockSize
  IN  /\ ~readOnly /\ command.op = "open"
      /\ CanCreate(Volume, n, blocks)
      /\ SetVolume(Create(Volume, n, blocks))
      /\ put' = [at |-> PlaceFor(Volume, blocks), size |-> size, offset |-> 0,
                 kind |-> kind, set |-> FALSE, data |-> d]
      /\ Starts("put", {n})
      /\ UNCHANGED <<readOnly, content>>

PutRefused(n, size) ==
  /\ ~readOnly /\ command.op = "open"
  /\ ~CanCreate(Volume, n, (size + BlockSize - 1) \div BlockSize)
  /\ Starts("refused", {})
  /\ UNCHANGED <<readOnly, header, slot, content, files, put>>

(* e is the entry put works on, as it becomes; it is written to its slot.  *)
Update(e) == SetVolume(WriteEntry([Volume EXCEPT !.files[put.at] = e], e))

SetFileKind ==
  /\ command.op = "put" /\ ~put.set
  /\ Update([files[put.at] EXCEPT !.kind = put.kind])
  /\ put' = [put EXCEPT !.set = TRUE]
  /\ UNCHANGED <<readOnly, content, command>>

(* The size a write of put's next block would give the file: what write()  *)
(* compares with _maxFileSize.                                             *)
NextCount == IF put.size - put.offset < BlockSize THEN put.size - put.offset
             ELSE BlockSize
NextSize == LargerOf(put.offset + NextCount, DataFileSize(files[put.at]))

(* write(buffer, size, offset) as put calls it: whole blocks from the      *)
(* front and then the rest, so never past the size it has, and never more  *)
(* than one block.                                                         *)
WriteData_NoEntry(e) == SetVolume([Volume EXCEPT !.files[put.at] = e])

WriteData(e) == Update(e)

Write ==
  /\ command.op = "put" /\ put.set /\ put.kind # "text" /\ put.offset < put.size
  /\ NextSize <= files[put.at].max
  /\ LET e == files[put.at]
     IN  /\ content' = [content EXCEPT ![e.first + put.offset \div BlockSize] = put.data]
         /\ WriteData(IF NextSize > DataFileSize(e) THEN SetFileSize(e, NextSize) ELSE e)
  /\ put' = [put EXCEPT !.offset = @ + NextCount]
  /\ UNCHANGED <<readOnly, command>>

(* write(text): every block, then the entry.                               *)
WriteText ==
  /\ command.op = "put" /\ put.set /\ put.kind = "text" /\ put.offset = 0
  /\ put.size <= files[put.at].max
  /\ LET e == files[put.at]
     IN  /\ content' = [b \in DataBlocks |->
                          IF e.first <= b /\ b < e.first + put.size \div BlockSize
                            THEN put.data ELSE content[b]]
         /\ Update(SetFileSize(e, put.size))
  /\ put' = [put EXCEPT !.offset = put.size]
  /\ UNCHANGED <<readOnly, command>>

Next ==
  \/ Open \/ OpenThrows \/ Exit \/ Refused \/ Krunch
  \/ \E n \in Names : Rm(n)
  \/ \E m \in Moves : Mv(m[1], m[2])
  \/ \E old, new \in Names : Cp(old, new)
  \/ \E n \in Names, size \in DataSizes, d \in Data : PutCreate(n, size, "data", d)
  \/ \E n \in Names, blocks \in TextBlocks, d \in Data :
       PutCreate(n, blocks * BlockSize, "text", d)
  \/ \E n \in Names, size \in DataSizes : PutRefused(n, size)
  \/ \E n \in Names, blocks \in TextBlocks : PutRefused(n, blocks * BlockSize)
  \/ SetFileKind \/ Write \/ WriteText

Spec == Init /\ [][Next]_vars

-----------------------------------------------------------------------------
(* Properties.                                                             *)

EntriesOnDisk ==
  [name : Names \union {None}, kind : Kinds, first : Nat, last : Nat,
   lastByte : 0..BlockSize]

(* Every variable has its type; the list never outgrows the directory.     *)
TypeOK ==
  /\ readOnly \in BOOLEAN
  /\ header \in 0..MaxFiles
  /\ slot \in [Slots -> EntriesOnDisk]
  /\ content \in [DataBlocks -> Data]
  /\ Len(files) <= MaxFiles
  /\ \A i \in DOMAIN files : /\ OnDisk(files[i]) \in EntriesOnDisk
                             /\ files[i].max \in Nat /\ files[i].slot \in Slots
  /\ command.names \subseteq Names
  /\ put.offset \in 0..put.size /\ put.at \in 0..Len(files)

(* While a command runs, the directory on the disk says what _files says:  *)
(* the count, the order, every entry, each at the address its FileEntry    *)
(* keeps, although unlink() and create() move slots on the disk and patch  *)
(* addresses in memory by separate code.  copy() is the exception: see     *)
(* CopyRecorded.                                                           *)
DirectoryKept ==
  command.op \notin {"none", "cp"} =>
    /\ header = Len(files)
    /\ \A i \in DOMAIN files : files[i].slot = i /\ slot[i] = OnDisk(files[i])

(* _maxFileSize, which unlink() and create() adjust one neighbour at a     *)
(* time, is always the distance to the next file or to the end of the      *)
(* volume: what calcMaxFileSize() would compute from nothing.              *)
RoomExact == files = CalcMaxFileSize(files)

(* The blocks put asks create() for are enough: no later write is refused, *)
(* although write() compares the size the file has by then, which the one  *)
(* block too many of setFileSize() has already inflated.                   *)
PutHasRoom ==
  command.op = "put" /\ put.offset < put.size =>
    (IF put.kind = "text" THEN put.size ELSE NextSize) <= files[put.at].max

(* What put has written so far is inside the size of the file and in its   *)
(* own blocks, at every step of the loop.                                  *)
PutCovered ==
  command.op = "put" =>
    LET e == files[put.at]
    IN  /\ put.offset <= DataFileSize(e)
        /\ \A b \in DataBlocks : (b - e.first) * BlockSize \in 0..put.offset-1
                                 => content[b] = put.data

(* No two files of the directory have one name, whatever puts, renames and *)
(* copies onto existing names there were.                                  *)
NamesUnique ==
  \A i, j \in 1..header : slot[i].name = slot[j].name => i = j

(* The directory is in the order of the first blocks, and a file runs into *)
(* the next one, or off the volume, by one block at most: the block too    *)
(* many of setFileSize().                                                  *)
ExtentsOrdered ==
  \A i \in 1..header :
    LET next == IF i = header THEN LastVolumeBlock ELSE slot[i+1].first
    IN  /\ slot[i].first >= FirstData /\ slot[i].first < slot[i].last
        /\ slot[i].first < next /\ slot[i].last <= next + 1

NamesOnDisk == {slot[i].name : i \in 1..header}

(* What the disk holds under a name: its entry and the blocks it names.    *)
Stored(n) ==
  LET e == slot[Min({i \in 1..header : slot[i].name = n})]
  IN  [entry |-> e,
       data |-> [b \in {d \in DataBlocks : e.first <= d /\ d < e.last} |-> content[b]]]

(* A command changes nothing of the files it is not to change: neither     *)
(* their entries, which unlink() and create() shift, nor a block of theirs.*)
(* cp may change its destination, and nothing at all if it fails.          *)
OnlyNamed ==
  [][\A n \in NamesOnDisk \ command'.names :
       n \in NamesOnDisk' /\ Stored(n)' = Stored(n)]_vars

(* mv gives the new name the entry and the data the old one had, and drops *)
(* the old name, though unlinking the destination may move the entry.      *)
RenameMoves ==
  [][command'.op = "mv" /\ command.op = "open" =>
       \E old \in command'.names \intersect NamesOnDisk, new \in command'.names :
         /\ NamesOnDisk' \intersect command'.names = {new}
         /\ Stored(new)' = [Stored(old) EXCEPT !.entry.name = new]
         /\ Cardinality(command'.names) = 2 => old # new]_vars

(* Nothing on a read-only device changes, whatever the command.            *)
ReadOnlyKept == [][readOnly => UNCHANGED <<header, slot, content>>]_vars

(* Every directory the code writes is one its own Open accepts: "_lastBlock*)
(* is the block *after* the actual last block", FileEntry.cpp:34, and no   *)
(* file has a block of the next one or past the volume.                    *)
Readable == ValidFiles(Loaded)

(* After cp the directory has the copy as copy() made it in memory: its    *)
(* kind, its last block and its size.                                      *)
CopyRecorded ==
  command.op = "cp" => \A i \in DOMAIN files : slot[i] = OnDisk(files[i])
=============================================================================
