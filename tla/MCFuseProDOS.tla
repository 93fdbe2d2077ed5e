---------------------------- MODULE MCFuseProDOS ----------------------------
EXTENDS FuseProDOS

(* Blocks of 2 bytes, 2 pointers in an index, 3 entries in a block of a    *)
(* directory.                                                              *)
File(name, storage, key, eof, type) ==
  [name |-> name, storage |-> storage, key |-> key, eof |-> eof, type |-> type]
Gone == File("gone", "deleted", 0, 0, "other")
Header == File("head", "header", 0, 0, "other")
Mini(storage, key, eof) == [storage |-> storage, key |-> key, eof |-> eof]

DirBlock(storage, count, next, entries) ==
  [kind |-> "dir", storage |-> storage, next |-> next,
   head |-> [count |-> count, perBlock |-> 3, total |-> 20],
   entries |-> [i \in 0..2 |-> entries[i+1]]]
Bytes2(b) == [kind |-> "data", storage |-> "none", bytes |-> b]
Index(k) == [kind |-> "index", storage |-> "none", keys |-> [i \in 0..1 |-> k[i+1]]]
Extended(data, resource, finder) ==
  [kind |-> "extended", storage |-> "none", data |-> data, resource |-> resource,
   finder |-> finder]

(* A seedling, a directory of two blocks with a tree with holes, an        *)
(* extended file and a file that is no ProDOS file; an empty directory.    *)
Healthy ==
  [blocks |-> 18, content |-> [b \in 0..17 |->
     CASE b = 2 -> DirBlock("volume", 4, 3, <<Header, File("s", "seedling", 10, 1, "text"), Gone>>)
       [] b = 3 -> DirBlock("none", 0, 0, <<File("d", "directory", 4, 0, "other"), Gone,
                                            File("e", "directory", 6, 0, "other")>>)
       [] b = 4 -> DirBlock("subdir", 3, 5, <<Header, Gone, File("s", "tree", 12, 7, "picture")>>)
       [] b = 5 -> DirBlock("none", 0, 0, <<File("x", "extended", 11, 0, "textWithAux"),
                                            File("p", "pascal", 9, 1, "other"), Gone>>)
       [] b = 6 -> DirBlock("subdir", 0, 0, <<Header, Gone, Gone>>)
       [] b = 11 -> Extended(Mini("sapling", 13, 3), Mini("seedling", 9, 0), TRUE)
       [] b = 12 -> Index(<<14, 15>>) [] b = 13 -> Index(<<0, 10>>)
       [] b = 14 -> Index(<<7, 8>>) [] b = 15 -> Index(<<0, 16>>)
       [] OTHER -> Bytes2(<<40 + b, 60 + b>>)]]

(* Directories whose chain closes on itself, leads out of the disk, to the *)
(* block after it or into another directory, whose header then is a file,  *)
(* or that have no header or no block; a resource fork that is none.       *)
Damaged ==
  [blocks |-> 18, content |-> [b \in 0..17 |->
     CASE b = 2 -> DirBlock("volume", 4, 3, <<Header, File("c", "directory", 4, 0, "other"),
                                              File("s", "directory", 5, 0, "other")>>)
       [] b = 3 -> DirBlock("none", 0, 0, <<File("d", "directory", 6, 0, "other"),
                                            File("x", "extended", 11, 0, "other"),
                                            File("e", "directory", 10, 0, "other")>>)
       [] b = 4 -> DirBlock("subdir", 2, 7, <<Header, File("s", "sapling", 13, 4, "text"), Gone>>)
       [] b = 5 -> DirBlock("subdir", 1, 20, <<Header, Gone, File("s", "seedling", 10, 2, "other")>>)
       [] b = 6 -> DirBlock("subdir", 1, 18, <<Header, Gone, File("s", "seedling", 10, 2, "other")>>)
       [] b = 7 -> DirBlock("none", 0, 4, <<File("p", "directory", 8, 0, "other"),
                                            File("x", "extended", 12, 0, "other"),
                                            File("d", "directory", 25, 0, "other")>>)
       [] b = 8 -> DirBlock("subdir", 2, 5, <<Header, Gone, File("s", "seedling", 10, 1, "other")>>)
       [] b = 11 -> Extended(Mini("seedling", 10, 2), Mini("pascal", 0, 0), FALSE)
       [] b = 12 -> Extended(Mini("seedling", 19, 2), Mini("sapling", 14, 3), FALSE)
       [] b = 13 -> Index(<<10, 18>>) [] b = 14 -> Index(<<10, 16>>)
       [] OTHER -> Bytes2(<<40 + b, 60 + b>>)]]

MCDisks == [i \in {"healthy", "damaged"} |-> IF i = "healthy" THEN Healthy ELSE Damaged]
Attributes == {"FileType", "AuxType", "FinderInfo", "TextEncoding", "charset",
               "mime_type", "ResourceFork"}
MCAttributeSize == [a \in Attributes |-> IF a = "FileType" THEN 1 ELSE 2]
MCNameSize == [a \in Attributes |-> 1]
=============================================================================
