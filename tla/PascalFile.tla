------------------------------ MODULE PascalFile ------------------------------
(***************************************************************************)
(* One file of a Pascal volume, from the native file that apfm put is      *)
(* given to the bytes apfm get and cat, and the FUSE mount, give back.     *)
(* bin/apfm.cpp's loops over the operations of FileEntry.  put writes the  *)
(* data a block at a time, or splits a text into lines, fills the pages of *)
(* a TextWriter and writes their blocks; it can be killed after each.  The *)
(* file lies at First, in `room' free blocks that held something before.   *)
(***************************************************************************)
EXTENDS FileEntry

CONSTANTS
  First,       \* the file's first block
  Rooms,       \* how many blocks may be free there
  DataFiles,   \* the native files put copies as data
  TextFiles,   \* and as text: no NUL or DLE in them
  Old,         \* the bytes the free blocks may be full of
  HostPage,    \* how many bytes a page of the host's memory has
  Requests     \* the <<size, offset>> the FUSE kernel reads with

NoEntry == [kind |-> "none"]

ASSUME PascalFileAssumption ==
  /\ First \in Nat /\ Rooms \subseteq Nat \ {0} /\ Old \subseteq Nat
  /\ HostPage \in Nat \ {0} /\ Requests \subseteq Nat \X Nat
  /\ DataFiles \subseteq Seq(Nat) \ {<<>>} /\ TextFiles \subseteq Seq(Nat) \ {<<>>}
  /\ \A t \in TextFiles : \A i \in DOMAIN t : t[i] \notin {Nul, Dle}

VARIABLES
  blocks,   \* the blocks from First to the next file
  saved,    \* the file's entry in the directory on the disk
  command,  \* what the process does: "none", "put", "get", "cat", "fuse"
  file,     \* its FileEntry
  native,   \* the native file, its kind, whether put has finished with it
  writer,   \* put's TextWriter
  at,       \* how far put has come in the native file
  written,  \* how many blocks of the text, or bytes of the data
  got       \* the bytes a reader has, and the offset of the first

vars == <<blocks, saved, command, file, native, writer, at, written, got>>

Room == Cardinality(DOMAIN blocks)
Nothing == [kind |-> "none", bytes |-> <<>>, done |-> FALSE]
GotNothing == [from |-> 0, bytes |-> <<>>]

Init ==
  /\ \E r \in Rooms, c \in Old :
       blocks = [b \in First..First+r-1 |-> [i \in 1..BlockSize |-> c]]
  /\ saved = NoEntry /\ command = "none" /\ file = NoEntry /\ native = Nothing
  /\ writer = NewWriter /\ at = 1 /\ written = 0 /\ got = GotNothing

(* The process returns, or is killed.  Of a put that has left an entry the *)
(* native file is remembered for the properties.                           *)
Exit ==
  /\ command # "none"
  /\ command' = "none" /\ file' = NoEntry /\ got' = GotNothing
  /\ IF saved = NoEntry
       THEN native' = Nothing /\ writer' = NewWriter /\ at' = 1
       ELSE UNCHANGED <<native, writer, at>>
  /\ UNCHANGED <<blocks, saved, written>>

-----------------------------------------------------------------------------
(* put.                                                                    *)

Put(kind, bytes) ==
  /\ command = "none" /\ native = Nothing
  /\ command' = "put"
  /\ native' = [kind |-> kind, bytes |-> bytes, done |-> FALSE]
  /\ UNCHANGED <<blocks, saved, file, writer, at, written, got>>

LineEnds == {i \in at..Len(native.bytes) : native.bytes[i] \in {Return, LineFeed}}
ThisLine == SubSeq(native.bytes, at,
                   IF LineEnds = {} THEN Len(native.bytes) ELSE Min(LineEnds) - 1)

NextLine_AtEnd ==
  IF LineEnds = {} THEN Len(native.bytes) + 1 ELSE Min(LineEnds)

(* The byte after the e-th of the mapped native file: after its last one   *)
(* the page goes on with zeros.                                            *)
ByteAfter(e) == IF e < Len(native.bytes) THEN native.bytes[e+1] ELSE Nul

(* A line feed takes a return after it along.                              *)
NextLine ==
  IF LineEnds = {} THEN Len(native.bytes) + 1
  ELSE LET e == Min(LineEnds)
       IN  IF native.bytes[e] = LineFeed /\ ByteAfter(e) = Return
             THEN e + 2 ELSE e + 1

Splitting == command = "put" /\ native.kind = "text" /\ file = NoEntry

WriteLine ==
  /\ Splitting /\ at <= Len(native.bytes)
  /\ Len(Stored(ThisLine)) <= PageSize
  /\ writer' = LineWritten(writer, Stored(ThisLine))
  /\ at' = NextLine
  /\ UNCHANGED <<blocks, saved, command, file, native, written, got>>

(* After a line feed that ends the file and a page of the host the loop    *)
(* still looks at address[length], which is not mapped: it reads what is   *)
(* there and goes on, or faults, or takes a return it finds there along    *)
(* and fails on a line of 2^32 - 1 bytes.                                  *)
ReadsPast ==
  /\ Splitting /\ at <= Len(native.bytes)
  /\ Len(Stored(ThisLine)) <= PageSize
  /\ LineEnds # {} /\ Min(LineEnds) = Len(native.bytes)
  /\ native.bytes[Len(native.bytes)] = LineFeed /\ Len(native.bytes) % HostPage = 0
  /\ Exit

(* "String is too long.": put ends before it creates anything.             *)
LineTooLong ==
  /\ Splitting /\ at <= Len(native.bytes)
  /\ Len(Stored(ThisLine)) > PageSize
  /\ Exit

BlocksNeeded ==
  IF native.kind = "text" THEN WriterBlocks(writer)
  ELSE (Len(native.bytes) + BlockSize - 1) \div BlockSize

ReadyToCreate ==
  /\ command = "put" /\ file = NoEntry
  /\ native.kind = "text" => at > Len(native.bytes)

(* create() makes an untyped entry of no bytes and writes it.              *)
Create ==
  /\ ReadyToCreate /\ BlocksNeeded <= Room
  /\ file' = [kind |-> "untyped", first |-> First, last |-> First + 1,
              lastByte |-> 0, max |-> Room * BlockSize, pages |-> <<>>,
              indexed |-> FALSE]
  /\ saved' = file'
  /\ UNCHANGED <<blocks, command, native, writer, at, written, got>>

CreateRefused ==
  /\ ReadyToCreate /\ BlocksNeeded > Room
  /\ Exit

(* The cached pages go, and the entry is written.                          *)
SetFileKind ==
  /\ command = "put" /\ file.kind = "untyped"
  /\ file' = [file EXCEPT !.kind = native.kind, !.pages = <<>>, !.indexed = FALSE]
  /\ saved' = file'
  /\ UNCHANGED <<blocks, command, native, writer, at, written, got>>

(* The volume lets a file write any of its blocks, the next file's too.    *)
BlockAt(b) == IF b \in DOMAIN blocks THEN blocks[b] ELSE Zeros(BlockSize)
WithBlock(b, bytes) ==
  [x \in DOMAIN blocks \union {b} |-> IF x = b THEN bytes ELSE blocks[x]]

(* write(text) refuses a text without room, then writes block after block, *)
(* and only then the entry.                                                *)
TextOpen == command = "put" /\ file.kind = "text" /\ ~native.done

WriteTextBlock ==
  /\ TextOpen /\ WriterBlocks(writer) * BlockSize <= file.max
  /\ written < WriterBlocks(writer)
  /\ blocks' = WithBlock(First + written, WriterData(writer, written))
  /\ written' = written + 1
  /\ UNCHANGED <<saved, command, file, native, writer, at, got>>

WriteTextEntry ==
  /\ TextOpen /\ written = WriterBlocks(writer)
  /\ file' = WithFileSize(file, WriterBlocks(writer) * BlockSize)
  /\ saved' = file'
  /\ native' = [native EXCEPT !.done = TRUE]
  /\ UNCHANGED <<blocks, command, writer, at, written, got>>

(* What the next write() of put's loop copies, and the size it gives.      *)
Count == Smaller(BlockSize, Len(native.bytes) - written)
NewSize_Added == FileSize(file) + Count
NewSize == IF written + Count > FileSize(file) THEN written + Count ELSE FileSize(file)

(* write() at a block's start, of a block at most, and not past the size   *)
(* the file has: put calls it no other way.                                *)
Overlay(old, bytes) == [i \in 1..BlockSize |-> IF i <= Len(bytes) THEN bytes[i] ELSE old[i]]

WriteData ==
  /\ command = "put" /\ file.kind = "data" /\ written < Len(native.bytes)
  /\ NewSize <= file.max
  /\ LET b == First + written \div BlockSize
     IN  blocks' = WithBlock(b, Overlay(BlockAt(b), SubSeq(native.bytes, written + 1,
                                                           written + Count)))
  /\ file' = IF NewSize > FileSize(file) THEN WithFileSize(file, NewSize) ELSE file
  /\ saved' = file'
  /\ written' = written + Count
  /\ native' = [native EXCEPT !.done = written + Count = Len(native.bytes)]
  /\ UNCHANGED <<command, writer, at, got>>

-----------------------------------------------------------------------------
(* Readers.                                                                *)

(* The constructor refuses an entry that ends after the volume, or in the  *)
(* next file.                                                              *)
Opens == saved # NoEntry /\ saved.last <= First + Room

OpenThrows ==
  /\ command = "none" /\ saved # NoEntry /\ ~Opens
  /\ UNCHANGED vars

Reader(c) ==
  /\ command = "none" /\ Opens
  /\ command' = c
  /\ file' = Indexed(blocks, [saved EXCEPT !.pages = <<>>, !.indexed = FALSE])
  /\ UNCHANGED <<blocks, saved, native, writer, at, written, got>>

Get == Reader("get")
Cat == Reader("cat")
(* pascal_init() asks every file for its size before the first request.    *)
Mount == Reader("fuse")

Chunk == Smaller(BlockSize, FileSize(file) - Len(got.bytes))

(* The loop of get and of cat.                                             *)
ReadChunk ==
  /\ command \in {"get", "cat"} /\ Len(got.bytes) < FileSize(file)
  /\ got' = [got EXCEPT !.bytes = @ \o Read(blocks, file, Chunk, Len(got.bytes))]
  /\ UNCHANGED <<blocks, saved, command, file, native, writer, at, written>>

FuseRead(size, offset) ==
  /\ command = "fuse"
  /\ got' = [from |-> offset, bytes |-> Read(blocks, file, size, offset)]
  /\ UNCHANGED <<blocks, saved, command, file, native, writer, at, written>>

Next ==
  \/ \E d \in DataFiles : Put("data", d)
  \/ \E t \in TextFiles : Put("text", t)
  \/ OpenThrows \/ Get \/ Cat \/ Mount
  \/ \E r \in Requests : FuseRead(r[1], r[2])
  \/ WriteLine \/ ReadsPast \/ LineTooLong \/ Create \/ CreateRefused \/ SetFileKind
  \/ WriteTextBlock \/ WriteTextEntry \/ WriteData \/ ReadChunk
  \/ Exit

Spec == Init /\ [][Next]_vars

-----------------------------------------------------------------------------
(* Properties.                                                             *)

(* Every variable has its type; a block keeps its length, and put has      *)
(* written no block but those of the room create() found, the next file's  *)
(* least of all.                                                           *)
TypeOK ==
  /\ blocks \in [First..First+Room-1 -> Block]
  /\ saved # NoEntry => saved.max = Room * BlockSize
  /\ command \in {"none", "put", "get", "cat", "fuse"}
  /\ \A e \in {saved, file} : e = NoEntry \/
       /\ e.kind \in {"untyped", "data", "text"}
       /\ e.first = First /\ e.last \in Nat /\ e.lastByte \in 0..BlockSize
  /\ native.kind \in {"none", "data", "text"}
  /\ \A i \in DOMAIN writer.pages : Len(writer.pages[i]) = PageSize
  /\ Len(writer.current) <= PageSize
  /\ at \in 1..Len(native.bytes)+1 /\ written \in Nat /\ got.from \in Nat

(* A text as Unix has it, up to each of its bytes; in the whole of it      *)
(* every line ends in a line feed.                                         *)
Unix(t) ==
  LET unix[n \in 0..Len(t)] ==
        IF n = 0 THEN <<>>
        ELSE IF t[n] = Return /\ n > 1 /\ t[n-1] = LineFeed THEN unix[n-1]
        ELSE Append(unix[n-1], IF t[n] = Return THEN LineFeed ELSE t[n])
  IN  unix

AsUnix(t) ==
  LET all == Unix(t)[Len(t)]
  IN  IF all[Len(all)] = LineFeed THEN all ELSE Append(all, LineFeed)

Expected == IF native.kind = "text" THEN AsUnix(native.bytes) ELSE native.bytes

(* How much of it put has put there: a text counts when its entry does.    *)
Kept == IF native.kind = "data" THEN written
        ELSE IF native.done THEN Len(Expected) ELSE 0

Reading == command \in {"get", "cat", "fuse"}

(* What put has copied, complete or killed after any call, is what every   *)
(* reader gets, byte for byte at its offset, through blocks, pages, blanks *)
(* and line ends.                                                          *)
RoundTrip ==
  /\ Reading => FileSize(file) >= Kept
  /\ \A i \in DOMAIN got.bytes :
       got.from + i <= Kept => got.bytes[i] = Expected[got.from + i]

(* A data file reads as at most a block more than was put.                 *)
SizeNearNative ==
  Reading /\ native.done /\ native.kind = "data"
    => FileSize(file) <= Len(native.bytes) + BlockSize

(* A text that ends before a block of zeros reads as exactly what was put. *)
TextExact ==
  Reading /\ native.done /\ native.kind = "text"
    => LET end == First + WriterBlocks(writer)
       IN  blocks[end] = Zeros(BlockSize) => FileSize(file) = Len(Expected)

(* The file as one sequence: its blocks to the last byte, a text decoded   *)
(* at one go.                                                              *)
Flat(f) == Concat([i \in 1..f.last-f.first |-> blocks[f.first + i - 1]])
Whole(f) ==
  LET n == (f.last - f.first) * BlockSize - BlockSize + f.lastByte
  IN  IF f.kind = "text" THEN Decode(SubSeq(Flat(f), 2 * BlockSize + 1, n))
      ELSE SubSeq(Flat(f), 1, n)

(* Whatever the offset and size of the requests, and whichever page they   *)
(* begin or end in, the bytes read are a slice of the whole file; get and  *)
(* cat stop at its end.                                                    *)
ReadsAreSlices ==
  Reading =>
    /\ got.bytes = SubSeq(Whole(file), got.from + 1, got.from + Len(got.bytes))
    /\ FileSize(file) = Len(Whole(file))

(* No line of a text lies in two pages: every page put has closed, and the *)
(* one it fills, ends with the end of a line.                              *)
LinesInPages ==
  LET Ends(page) == LET I == {i \in DOMAIN page : page[i] # Nul}
                    IN  I # {} => page[Max(I)] = Return
  IN  Ends(writer.current) /\ \A i \in DOMAIN writer.pages : Ends(writer.pages[i])

(* put, get and cat come to an end, whatever the file and the text: a step *)
(* that does not end the command gets further, and none leaves it past the *)
(* end.  What put reads one byte after the end ends it, or changes nothing.*)
Progress == at + written + Len(got.bytes) + (IF file.kind \in {"data", "text"} THEN 2
                                             ELSE IF file = NoEntry THEN 0 ELSE 1)
              + (IF native.done THEN 1 ELSE 0)

WithinEnds ==
  /\ at <= Len(native.bytes) + 1
  /\ native.kind = "text" => written <= WriterBlocks(writer)
  /\ native.kind = "data" => written <= Len(native.bytes)
  /\ command \in {"get", "cat"} => Len(got.bytes) <= FileSize(file)

GetsFurther ==
  [][command' = command /\ command \in {"put", "get", "cat"}
       => Progress' > Progress /\ WithinEnds']_vars
=============================================================================
