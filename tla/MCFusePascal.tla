---------------------------- MODULE MCFusePascal ----------------------------
EXTENDS FusePascal

(* A text of two pages whose last block is not full, after a gap, and a    *)
(* data file that ends in the middle of a block; a gap after it too.       *)
File(name, kind, first, last, lastByte) ==
  [name |-> name, kind |-> kind, first |-> first, last |-> last, lastByte |-> lastByte]

MCEntries == <<File("t", "text", 3, 8, 1), File("d", "data", 8, 10, 1)>>
MCContent ==
  [b \in 0..11 |-> CASE b = 5 -> <<65, Return>> [] b = 6 -> <<Dle, 34>>
                     [] b = 7 -> <<66, 67>> [] OTHER -> <<70 + b, Nul>>]
MCEntrySize == [n \in {".", "..", "t", "d"} |-> IF n = "t" THEN 3 ELSE 2]
MCAttributeSize ==
  [a \in {"pascal.fileKind", "com.apple.TextEncoding", "user.charset", "other"} |->
     IF a = "pascal.fileKind" THEN 1 ELSE 2]
=============================================================================
