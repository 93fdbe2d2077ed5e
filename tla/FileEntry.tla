------------------------------ MODULE FileEntry ------------------------------
(***************************************************************************)
(* How Pascal/FileEntry.cpp and Pascal/TextWriter.cpp lay the bytes of a   *)
(* file out in its blocks and read them back: operators over a file entry  *)
(* f and the blocks of the volume.  A block is a sequence of BlockSize     *)
(* bytes.  A text is kept in pages of two blocks, after two that are the   *)
(* editor's; a line never crosses a page, leading blanks are a DLE and a   *)
(* count, lines end in CR and the rest of a page is NUL.  A text file is   *)
(* read through the sizes its pages decode to, which the entry caches.     *)
(***************************************************************************)
EXTENDS Integers, Sequences, FiniteSets, SequencesExt

CONSTANTS
  BlockSize,   \* 512
  MaxBlanks    \* the most blanks one DLE stands for, 255 - 32

ASSUME FileEntryAssumption ==
  /\ BlockSize \in Nat \ {0}
  /\ MaxBlanks \in Nat /\ MaxBlanks >= 3

Nul == 0
LineFeed == 10
Return == 13
Dle == 16
Blank == 32

PageSize == 2 * BlockSize
Block == [1..BlockSize -> Nat]
Zeros(n) == [i \in 1..n |-> Nul]

Smaller(a, b) == IF a <= b THEN a ELSE b

(* The sequences of s one after the other.                                 *)
Concat(s) ==
  LET upTo[i \in 0..Len(s)] == IF i = 0 THEN <<>> ELSE upTo[i-1] \o s[i]
  IN  upTo[Len(s)]

-----------------------------------------------------------------------------
(* Sizes.                                                                  *)

DataFileSize(f) == (f.last - f.first) * BlockSize - BlockSize + f.lastByte

(* setFileSize(): the file has one block more than size needs when size is *)
(* a number of whole blocks.                                               *)
WithFileSize(f, size) ==
  IF size = 0
    THEN [f EXCEPT !.last = f.first + 1, !.lastByte = 0]
    ELSE [f EXCEPT !.last = f.first + 1 + size \div BlockSize,
                   !.lastByte = IF size % BlockSize = 0 THEN BlockSize
                                ELSE size % BlockSize]

-----------------------------------------------------------------------------
(* Writing a text: w is the TextWriter, its full pages and the one it      *)
(* fills.                                                                  *)

NewWriter == [pages |-> <<Zeros(PageSize)>>, current |-> <<>>]

(* How many blanks a line begins with.                                     *)
LeadingBlanks(text) ==
  LET J == {i \in DOMAIN text : text[i] # Blank}
  IN  IF J = {} THEN Len(text) ELSE Min(J) - 1

Compress_NoLimit(text) ==
  IF LeadingBlanks(text) < 3 THEN text
    ELSE <<Dle, Blank + Smaller(LeadingBlanks(text), MaxBlanks)>>
           \o SubSeq(text, LeadingBlanks(text) + 1, Len(text))

Compress(text) ==
  LET count == Smaller(LeadingBlanks(text), MaxBlanks)
  IN  IF LeadingBlanks(text) < 3 THEN text
      ELSE <<Dle, Blank + count>> \o SubSeq(text, count + 1, Len(text))

(* A line as writeLine() stores it.                                        *)
Stored(line) ==
  LET n == Len(line)
  IN  IF n = 0 THEN <<Return>>
      ELSE IF line[n] = LineFeed THEN Compress([line EXCEPT ![n] = Return])
      ELSE IF line[n] = Return THEN Compress(line)
      ELSE Compress(Append(line, Return))

Padded(page) == page \o Zeros(PageSize - Len(page))

LineWritten_OnePage(w, text) == [w EXCEPT !.current = @ \o text]

LineWritten_Splits(w, text) ==
  LET all == w.current \o text
  IN  IF Len(all) <= PageSize THEN [w EXCEPT !.current = all]
      ELSE [pages |-> Append(w.pages, SubSeq(all, 1, PageSize)),
            current |-> SubSeq(all, PageSize + 1, Len(all))]

(* writeLine(), for a stored line of a page at most.                       *)
LineWritten(w, text) ==
  IF Len(w.current) + Len(text) > PageSize
    THEN [pages |-> Append(w.pages, Padded(w.current)), current |-> text]
    ELSE [w EXCEPT !.current = @ \o text]

WriterBlocks_HalfPages(w) ==
  2 * Len(w.pages) + (IF w.current = <<>> THEN 0 ELSE 1)

WriterBlocks(w) ==
  IF w.current = <<>> THEN 2 * Len(w.pages)
  ELSE IF Len(w.current) <= BlockSize THEN 2 * Len(w.pages) + 1
  ELSE 2 * Len(w.pages) + 2

(* data(i): the i-th block, counted from 0.                                *)
WriterData(w, i) ==
  LET page == IF i \div 2 < Len(w.pages) THEN w.pages[i \div 2 + 1]
              ELSE Padded(w.current)
      offset == (i % 2) * BlockSize
  IN  SubSeq(page, offset + 1, offset + BlockSize)

-----------------------------------------------------------------------------
(* Reading a text.                                                         *)

DecodeByte(a, c) ==
  IF c = Nul THEN a
  ELSE IF a.dle
    THEN [out |-> a.out \o [i \in 1..(IF c > Blank THEN c - Blank ELSE 0) |-> Blank],
          dle |-> FALSE]
  ELSE IF c = Dle THEN [a EXCEPT !.dle = TRUE]
  ELSE [a EXCEPT !.out = Append(@, IF c = Return THEN LineFeed ELSE c)]

Decode(bytes) ==
  LET upTo[i \in 0..Len(bytes)] ==
        IF i = 0 THEN [out |-> <<>>, dle |-> FALSE]
                 ELSE DecodeByte(upTo[i-1], bytes[i])
  IN  upTo[Len(bytes)].out

(* Up to two blocks, as far as _lastBlock and _lastByte go.                *)
TextReadPage(blocks, f, b) ==
  IF b + 1 = f.last THEN SubSeq(blocks[b], 1, f.lastByte)
  ELSE IF b + 2 = f.last
    THEN blocks[b] \o SubSeq(blocks[b+1], 1, f.lastByte)
  ELSE blocks[b] \o blocks[b+1]

TextDecodePage(blocks, f, b) == Decode(TextReadPage(blocks, f, b))

(* Page p, counted from 1, begins at block first + 2 p.                    *)
PageCount(f) == Cardinality({b \in f.first + 2 .. f.last - 1 :
                               (b - f.first) % 2 = 0})

TextInit(blocks, f) ==
  [f EXCEPT !.indexed = TRUE,
            !.pages = [p \in 1..PageCount(f) |->
                         Len(TextDecodePage(blocks, f, f.first + 2 * p))]]

(* The entry once fileSize() has been asked.                               *)
Indexed(blocks, f) ==
  IF f.kind = "text" /\ ~f.indexed THEN TextInit(blocks, f) ELSE f

(* Where each page ends in the decoded text.                               *)
PageEnd(f) ==
  LET end[p \in 0..Len(f.pages)] == IF p = 0 THEN 0 ELSE end[p-1] + f.pages[p]
  IN  end

FileSize(f) == IF f.kind = "text" THEN PageEnd(f)[Len(f.pages)] ELSE DataFileSize(f)

(* The pages of a text from the one offset is in, the first from offset    *)
(* on, each as long as its cached size says.                               *)
PagesFrom_Start(blocks, f, offset) ==
  LET end == PageEnd(f)
      page == Min({p \in DOMAIN f.pages : end[p] > offset})
  IN  [i \in 1..Len(f.pages)-page+1 |->
         SubSeq(TextDecodePage(blocks, f, f.first + 2 * (page + i - 1)),
                1, f.pages[page + i - 1])]

PagesFrom(blocks, f, offset) ==
  LET end == PageEnd(f)
      page == Min({p \in DOMAIN f.pages : end[p] > offset})
      skipped == offset - end[page - 1]
  IN  [i \in 1..Len(f.pages)-page+1 |->
         SubSeq(TextDecodePage(blocks, f, f.first + 2 * (page + i - 1)),
                IF i = 1 THEN skipped + 1 ELSE 1, f.pages[page + i - 1])]

TextRead(blocks, f, size, offset) ==
  SubSeq(Concat(PagesFrom(blocks, f, offset)), 1, size)

(* A read that starts inside a block begins with bytes from its end.       *)
DataRead(blocks, f, size, offset) ==
  LET start == offset % BlockSize
      lead == Smaller(start, size)
      block == f.first + offset \div BlockSize
      whole == IF start = 0 THEN block ELSE block + 1
  IN  [k \in 1..size |->
         IF k <= lead THEN blocks[block][BlockSize - lead + k]
         ELSE blocks[whole + ((k - lead - 1) \div BlockSize)]
                    [((k - lead - 1) % BlockSize) + 1]]

(* read(), of an entry whose pages are indexed.                            *)
Read(blocks, f, size, offset) ==
  LET count == IF offset + size > FileSize(f) THEN FileSize(f) - offset ELSE size
  IN  IF offset >= FileSize(f) THEN <<>>
      ELSE IF f.kind = "text" THEN TextRead(blocks, f, count, offset)
      ELSE DataRead(blocks, f, count, offset)
=============================================================================
