------------------------------ MODULE FusePascal ------------------------------
(***************************************************************************)
(* The Pascal mount, bin/fuse_pascal.cpp and bin/fuse_pascal_ops.cpp: the  *)
(* kernel sends requests, the threads of the FUSE session answer them from *)
(* a volume nobody changes.  What the threads share are the descriptor     *)
(* table, the list of its free indexes, and the page sizes a text caches.  *)
(* open and release are taken apart where the code calls the two vectors,  *)
(* which no lock guards.                                                   *)
(***************************************************************************)
EXTENDS FileEntry

CONSTANTS
  Entries,     \* the directory: a sequence of file entries with their names
  Content,     \* the blocks of the volume
  LastBlock,   \* the block after the directory
  VolumeBlocks,
  EntrySize,   \* the bytes a name takes in a listing
  Threads, Handles,
  Names,       \* what the kernel looks up, up to case
  Invalid,     \* those among them that are no valid Pascal names
  Attributes,  \* the extended attributes the kernel asks for
  AttributeSize,
  Sizes,       \* sizes of buffers and reads the kernel sends
  Offsets,     \* and offsets of reads
  ReadsFail    \* whether the device may throw

Text(f) == f.kind = "text"
Inodes == 1..Len(Entries)+2      \* 1 is the volume, the last is nobody's
NoFile == 0

ASSUME FusePascalAssumption ==
  /\ LastBlock \in Nat /\ VolumeBlocks \in Nat
  /\ Entries \in Seq([name : STRING, kind : STRING,
                      first : Nat, last : Nat, lastByte : 0..BlockSize])
  /\ \A n \in {Entries[i].name : i \in DOMAIN Entries} \union {".", ".."} :
       n \in DOMAIN EntrySize /\ EntrySize[n] \in Nat \ {0}
  /\ \A s \in Sizes : s = 0 \/ \A n \in DOMAIN EntrySize : s >= EntrySize[n]
  /\ \A a \in Attributes \union {"pascal.fileKind", "com.apple.TextEncoding", "user.charset"} :
       AttributeSize[a] \in Nat \ {0}
  /\ Sizes \subseteq Nat /\ Offsets \subseteq Nat /\ ReadsFail \in BOOLEAN

VARIABLES
  running,    \* whether the session has answered init
  files,      \* the volume's FileEntry objects
  fdTable,    \* fd_table, each entry an inode, or NoFile for a null pointer
  available,  \* fd_table_available
  missing,    \* how many more pop_back() took off that list than it had
  handle,     \* what the kernel knows of each open file
  stream,     \* and of the one directory it lists
  thread      \* the request each thread works on, and its last reply

vars == <<running, files, fdTable, available, missing, handle, stream, thread>>

Closed == [state |-> "closed", inode |-> 0, fh |-> 0]
NoStream == [open |-> FALSE, offset |-> 0, seen |-> <<>>, done |-> FALSE]
NoRequest == [op |-> "none"]
Idle == [pc |-> "idle", request |-> NoRequest, index |-> 0, reply |-> NoRequest]

Loaded ==
  [i \in DOMAIN Entries |->
     LET e == Entries[i]
     IN  [name |-> e.name, kind |-> e.kind, first |-> e.first, last |-> e.last,
          lastByte |-> e.lastByte, pages |-> <<>>, indexed |-> FALSE]]

Init ==
  /\ running = FALSE /\ files = Loaded
  /\ fdTable = <<>> /\ available = <<>> /\ missing = 0
  /\ handle = [h \in Handles |-> Closed] /\ stream = NoStream
  /\ thread = [t \in Threads |-> Idle]

(* pascal_init(): every file is asked for its size, so that no two threads *)
(* ever build the index of a text.                                         *)
PascalInit_Skips ==
  /\ ~running /\ running' = TRUE
  /\ UNCHANGED <<files, fdTable, available, missing, handle, stream, thread>>

PascalInit ==
  /\ ~running /\ running' = TRUE
  /\ files' = [i \in DOMAIN files |-> Indexed(Content, files[i])]
  /\ UNCHANGED <<fdTable, available, missing, handle, stream, thread>>

(* Nothing catches what the device throws while the index of a text is     *)
(* built: the process is gone, and the next mount is as this one was.      *)
InitThrows ==
  /\ ~running /\ ReadsFail /\ \E i \in DOMAIN files : Text(files[i])
  /\ UNCHANGED vars

(* The process ends; the next mount is another.                            *)
Ends ==
  /\ running' = FALSE /\ files' = Loaded
  /\ fdTable' = <<>> /\ available' = <<>> /\ missing' = 0
  /\ handle' = [h \in Handles |-> Closed] /\ stream' = NoStream
  /\ thread' = [t \in Threads |-> Idle]

Unmount == running /\ (\A t \in Threads : thread[t].pc = "idle") /\ Ends

-----------------------------------------------------------------------------
(* Answers.                                                                *)

Error(e) == [op |-> "error", error |-> e]

(* findChild(): the loader numbers the files from 2.                       *)
FindChild(inode) == IF inode - 1 \in DOMAIN files THEN inode - 1 ELSE 0

FreeBlocks(krunched) ==
  LET Start(i) == IF i = 1 THEN LastBlock ELSE files[i-1].last
      gap[i \in 0..Len(files)] ==
        IF i = 0 THEN 0 ELSE gap[i-1] + (files[i].first - Start(i))
  IN  (IF krunched THEN gap[Len(files)] ELSE 0)
        + (VolumeBlocks - Start(Len(files) + 1))

Statfs == [op |-> "statfs", total |-> VolumeBlocks, free |-> FreeBlocks(TRUE),
           available |-> FreeBlocks(FALSE)]

Attributed(inode) ==
  IF inode = 1 THEN [op |-> "attr", inode |-> 1, size |-> LastBlock * BlockSize]
  ELSE [op |-> "attr", inode |-> inode, size |-> FileSize(files[FindChild(inode)])]

Getattr(inode) ==
  IF inode = 1 \/ FindChild(inode) # 0 THEN Attributed(inode) ELSE Error("ENOENT")

Lookup(parent, name) ==
  LET I == {i \in DOMAIN files : files[i].name = name}
  IN  IF parent # 1 THEN Error("ENOTDIR")
      ELSE IF name \in Invalid \/ I = {} THEN Error("ENOENT")
      ELSE Attributed(Min(I) + 1)

AttributesOf_AllKinds(f) == <<"pascal.fileKind", "com.apple.TextEncoding", "user.charset">>

AttributesOf(f) ==
  IF Text(f) THEN <<"pascal.fileKind", "com.apple.TextEncoding", "user.charset">>
             ELSE <<"pascal.fileKind">>

(* A size of 0 asks for the length.                                        *)
Sized(size, length, answer) ==
  IF size = 0 THEN [op |-> "length", length |-> length]
  ELSE IF size < length THEN Error("ERANGE")
  ELSE answer

NameBytes(names) ==
  LET sum[i \in 0..Len(names)] == IF i = 0 THEN 0 ELSE sum[i-1] + AttributeSize[names[i]]
  IN  sum[Len(names)]

Listxattr(inode, size) ==
  IF inode = 1 THEN IF size = 0 THEN [op |-> "length", length |-> 0]
                                ELSE [op |-> "names", names |-> <<>>]
  ELSE IF FindChild(inode) = 0 THEN Error("ENOENT")
  ELSE LET names == AttributesOf(files[FindChild(inode)])
       IN  Sized(size, NameBytes(names), [op |-> "names", names |-> names])

Getxattr(inode, name, size) ==
  IF inode = 1 THEN Error("ENOATTR")
  ELSE IF FindChild(inode) = 0 THEN Error("ENOENT")
  ELSE LET f == files[FindChild(inode)]
       IN  IF name = "pascal.fileKind" THEN Sized(size, 1, [op |-> "value", of |-> f.kind])
           ELSE IF Text(f) /\ name \in {"user.charset", "com.apple.TextEncoding"}
             THEN Sized(size, AttributeSize[name], [op |-> "value", of |-> "ascii"])
           ELSE Error("ENOATTR")

(* readdir(): the entries from offset on, ".", ".." and the files, as many *)
(* as fit.                                                                 *)
Listing == <<".", "..">> \o [i \in DOMAIN files |-> files[i].name]

Fitting(offset, size) ==
  LET Needs[n \in 0..Len(Listing)-offset] ==
        IF n = 0 THEN 0 ELSE Needs[n-1] + EntrySize[Listing[offset + n]]
  IN  Max({n \in DOMAIN Needs : Needs[n] <= size})

(* Each entry comes with the offset of the next.                           *)
Readdir_CountsUnfit(offset, size) ==
  [op |-> "entries", names |-> SubSeq(Listing, offset + 1, offset + Fitting(offset, size)),
   next |-> Smaller(offset + Fitting(offset, size) + 1, Len(Listing))]

Readdir(offset, size) ==
  [op |-> "entries", names |-> SubSeq(Listing, offset + 1, offset + Fitting(offset, size)),
   next |-> offset + Fitting(offset, size)]

-----------------------------------------------------------------------------
(* The kernel sends a request to a thread that waits for one.  It reads    *)
(* and releases what it has opened, and releases after the last read.      *)

Send(t, request) ==
  /\ running /\ thread[t].pc = "idle"
  /\ thread' = [thread EXCEPT ![t] = [Idle EXCEPT !.pc = "todo", !.request = request]]

AskStateless(t) ==
  /\ \/ Send(t, [op |-> "statfs"])
     \/ \E i \in Inodes : Send(t, [op |-> "getattr", inode |-> i])
     \/ \E i \in Inodes, n \in Names : Send(t, [op |-> "lookup", inode |-> i, name |-> n])
     \/ \E i \in Inodes, s \in Sizes : Send(t, [op |-> "listxattr", inode |-> i, size |-> s])
     \/ \E i \in Inodes, s \in Sizes, a \in Attributes :
          Send(t, [op |-> "getxattr", inode |-> i, name |-> a, size |-> s])
  /\ UNCHANGED <<running, files, fdTable, available, missing, handle, stream>>

AskOpen(t, h) ==
  /\ handle[h].state = "closed"
  /\ \E i \in Inodes, readOnly \in BOOLEAN :
       /\ Send(t, [op |-> "open", handle |-> h, inode |-> i, readOnly |-> readOnly])
       /\ handle' = [handle EXCEPT ![h] = [state |-> "opening", inode |-> i, fh |-> 0]]
  /\ UNCHANGED <<running, files, fdTable, available, missing, stream>>

AskRead(t, h) ==
  /\ handle[h].state = "open"
  /\ \E s \in Sizes \ {0}, o \in Offsets :
       Send(t, [op |-> "read", handle |-> h, size |-> s, offset |-> o])
  /\ UNCHANGED <<running, files, fdTable, available, missing, handle, stream>>

AskRelease(t, h) ==
  /\ handle[h].state = "open"
  /\ \A u \in Threads : ~(/\ thread[u].pc = "todo" /\ thread[u].request.op = "read"
                          /\ thread[u].request.handle = h)
  /\ Send(t, [op |-> "release", handle |-> h])
  /\ handle' = [handle EXCEPT ![h].state = "closing"]
  /\ UNCHANGED <<running, files, fdTable, available, missing, stream>>

AskDirectory(t) ==
  /\ \/ ~stream.open /\ \E i \in Inodes : Send(t, [op |-> "opendir", inode |-> i])
     \/ stream.open /\ ~stream.done
          /\ \E s \in Sizes \ {0} : Send(t, [op |-> "readdir", size |-> s, offset |-> stream.offset])
     \/ stream.open /\ Send(t, [op |-> "releasedir"])
  /\ \A u \in Threads : thread[u].pc = "todo" =>
       thread[u].request.op \notin {"opendir", "readdir", "releasedir"}
  /\ UNCHANGED <<running, files, fdTable, available, missing, handle, stream>>

-----------------------------------------------------------------------------
(* The handlers.                                                           *)

Doing(t, op) == thread[t].pc = "todo" /\ thread[t].request.op = op

Reply(t, reply) ==
  thread' = [thread EXCEPT ![t].pc = "idle", ![t].reply = reply]

Goes(t, pc, index) ==
  thread' = [thread EXCEPT ![t].pc = pc, ![t].index = index]

Stateless(t) ==
  LET r == thread[t].request
  IN  /\ \/ Doing(t, "statfs") /\ Reply(t, Statfs)
         \/ Doing(t, "getattr") /\ Reply(t, Getattr(r.inode))
         \/ Doing(t, "lookup") /\ Reply(t, Lookup(r.inode, r.name))
         \/ Doing(t, "listxattr") /\ Reply(t, Listxattr(r.inode, r.size))
         \/ Doing(t, "getxattr") /\ Reply(t, Getxattr(r.inode, r.name, r.size))
      /\ UNCHANGED <<running, files, fdTable, available, missing, handle, stream>>

Opendir(t) ==
  /\ Doing(t, "opendir")
  /\ IF thread[t].request.inode # 1
       THEN Reply(t, Error("ENOTDIR")) /\ UNCHANGED stream
       ELSE Reply(t, [op |-> "opened"]) /\ stream' = [NoStream EXCEPT !.open = TRUE]
  /\ UNCHANGED <<running, files, fdTable, available, missing, handle>>

(* An empty answer is the end of the directory.                            *)
ReaddirAnswers(t) ==
  /\ Doing(t, "readdir")
  /\ LET answer == Readdir(thread[t].request.offset, thread[t].request.size)
     IN  /\ Reply(t, answer)
         /\ stream' = [stream EXCEPT !.seen = @ \o answer.names, !.offset = answer.next,
                                     !.done = answer.names = <<>>]
  /\ UNCHANGED <<running, files, fdTable, available, missing, handle>>

Releasedir_NoReply(t) ==
  /\ Doing(t, "releasedir")
  /\ stream' = NoStream
  /\ UNCHANGED <<running, files, fdTable, available, missing, handle, thread>>

Releasedir(t) ==
  /\ Doing(t, "releasedir")
  /\ Reply(t, [op |-> "ok"]) /\ stream' = NoStream
  /\ UNCHANGED <<running, files, fdTable, available, missing, handle>>

OpenRefused(t) ==
  /\ Doing(t, "open")
  /\ LET r == thread[t].request
     IN  /\ r.inode = 1 \/ FindChild(r.inode) = 0 \/ ~r.readOnly
         /\ Reply(t, Error(IF r.inode = 1 THEN "EISDIR"
                           ELSE IF FindChild(r.inode) = 0 THEN "ENOENT" ELSE "EACCES"))
         /\ handle' = [handle EXCEPT ![r.handle] = Closed]
  /\ UNCHANGED <<running, files, fdTable, available, missing, stream>>

OpenAccepted(t) ==
  /\ Doing(t, "open")
  /\ LET r == thread[t].request
     IN  r.inode # 1 /\ FindChild(r.inode) # 0 /\ r.readOnly

(* if (fd_table_available.size()): back() ...  A list that lost more than  *)
(* it had has another size than 0, and what it reads there is anything.    *)
OpenBack(t) ==
  /\ OpenAccepted(t) /\ Len(available) # missing
  /\ \E index \in IF missing = 0 THEN {Last(available)} ELSE 0..Len(fdTable) :
       Goes(t, "pop", index)
  /\ UNCHANGED <<running, files, fdTable, available, missing, handle, stream>>

(* ... pop_back(), which does not look whether another thread has emptied  *)
(* the list meanwhile, ...                                                 *)
OpenPop(t) ==
  /\ thread[t].pc = "pop"
  /\ IF available = <<>> THEN missing' = missing + 1 /\ UNCHANGED available
                         ELSE available' = Front(available) /\ UNCHANGED missing
  /\ Goes(t, "store", thread[t].index)
  /\ UNCHANGED <<running, files, fdTable, handle, stream>>

Opened(t, index) ==
  /\ Reply(t, [op |-> "opened"])
  /\ handle' = [handle EXCEPT ![thread[t].request.handle].state = "open",
                              ![thread[t].request.handle].fh = index]

(* ... and the file is put there: outside the table the process ends.      *)
OpenStore(t) ==
  /\ thread[t].pc = "store"
  /\ IF thread[t].index \in 0..Len(fdTable)-1
       THEN /\ fdTable' = [fdTable EXCEPT ![thread[t].index + 1] = thread[t].request.inode]
            /\ Opened(t, thread[t].index)
            /\ UNCHANGED <<running, files, available, missing, stream>>
       ELSE Ends

(* Else index = fd_table.size(), and push_back().                          *)
OpenSize(t) ==
  /\ OpenAccepted(t) /\ Len(available) = missing
  /\ Goes(t, "push", Len(fdTable))
  /\ UNCHANGED <<running, files, fdTable, available, missing, handle, stream>>

OpenPush(t) ==
  /\ thread[t].pc = "push"
  /\ fdTable' = Append(fdTable, thread[t].request.inode)
  /\ Opened(t, thread[t].index)
  /\ UNCHANGED <<running, files, available, missing, stream>>

ReleaseReset_Keeps(t) ==
  /\ Doing(t, "release")
  /\ Goes(t, "free", handle[thread[t].request.handle].fh)
  /\ UNCHANGED <<running, files, fdTable, available, missing, handle, stream>>

ReleaseReset(t) ==
  /\ Doing(t, "release")
  /\ LET index == handle[thread[t].request.handle].fh
     IN  /\ fdTable' = [fdTable EXCEPT ![index + 1] = NoFile]
         /\ Goes(t, "free", index)
  /\ UNCHANGED <<running, files, available, missing, handle, stream>>

ReleaseFree(t) ==
  /\ thread[t].pc = "free"
  /\ IF missing > 0 THEN missing' = missing - 1 /\ UNCHANGED available
                    ELSE available' = Append(available, thread[t].index) /\ UNCHANGED missing
  /\ handle' = [handle EXCEPT ![thread[t].request.handle] = Closed]
  /\ Reply(t, [op |-> "ok"])
  /\ UNCHANGED <<running, files, fdTable, stream>>

FileOf(inode) == files[inode - 1]

(* The null pointer another thread left there ends the process.            *)
ReadAnswers(t) ==
  /\ Doing(t, "read")
  /\ LET r == thread[t].request
         inode == fdTable[handle[r.handle].fh + 1]
     IN  IF inode = NoFile THEN Ends
         ELSE /\ Reply(t, [op |-> "data",
                           bytes |-> Read(Content, FileOf(inode), r.size, r.offset)])
              /\ UNCHANGED <<running, files, fdTable, available, missing, handle, stream>>

(* The device throws and read() answers with the error.                    *)
ReadThrows(t) ==
  /\ ReadsFail /\ Doing(t, "read")
  /\ Reply(t, Error("EIO"))
  /\ UNCHANGED <<running, files, fdTable, available, missing, handle, stream>>

Serves(t) ==
  \/ Stateless(t) \/ Opendir(t) \/ ReaddirAnswers(t) \/ Releasedir(t)
  \/ OpenRefused(t) \/ OpenBack(t) \/ OpenPop(t) \/ OpenStore(t)
  \/ OpenSize(t) \/ OpenPush(t) \/ ReleaseReset(t) \/ ReleaseFree(t)
  \/ ReadAnswers(t) \/ ReadThrows(t)

Asks(t) ==
  \/ AskStateless(t) \/ AskDirectory(t)
  \/ \E h \in Handles : AskOpen(t, h) \/ AskRead(t, h) \/ AskRelease(t, h)

Next == PascalInit \/ InitThrows \/ Unmount \/ \E t \in Threads : Asks(t) \/ Serves(t)

(* A thread that has a request goes on with it; the kernel need not ask.   *)
Spec == Init /\ [][Next]_vars /\ \A t \in Threads : WF_vars(Serves(t))

-----------------------------------------------------------------------------
(* Properties.                                                             *)

(* Type correctness, and what pascal_init() is there for: from the first   *)
(* request on, the page sizes of every text are there and never change.    *)
(* However the threads race, no index outside the table gets on the list   *)
(* or to the kernel.                                                       *)
TypeOK ==
  /\ running \in BOOLEAN /\ DOMAIN files = DOMAIN Entries
  /\ running => files = [i \in DOMAIN Loaded |-> Indexed(Content, Loaded[i])]
  /\ fdTable \in Seq({NoFile} \union 2..Len(Entries)+1)
  /\ available \in Seq(0..Len(fdTable)-1) /\ missing \in Nat
  /\ \A h \in Handles :
       /\ handle[h].state \in {"closed", "opening", "open", "closing"}
       /\ handle[h].inode \in Inodes \union {0}
       /\ handle[h].state \in {"open", "closing"} => handle[h].fh \in 0..Len(fdTable)-1
  /\ stream.open \in BOOLEAN /\ stream.offset \in 0..Len(Listing)
  /\ \A t \in Threads : thread[t].pc \in {"idle", "todo", "pop", "store", "push", "free"}

OpenHandles == {h \in Handles : handle[h].state = "open"}

(* The comment above fd_table: fd_table_available lists the indexes "which *)
(* are not currently used".  No open file's index is on the list and no    *)
(* two open files have one index.                                          *)
DescriptorsUnused ==
  \A h \in OpenHandles :
    /\ \A i \in DOMAIN available : available[i] # handle[h].fh
    /\ \A g \in OpenHandles \ {h} : handle[g].fh # handle[h].fh

(* Through any sequence of opens and releases the index an open file has   *)
(* leads to its own file, and between requests the list holds exactly the  *)
(* indexes of no file, each once: none is lost, none is given out twice,   *)
(* and no more is taken off the list than is there.                        *)
DescriptorsExact ==
  /\ DescriptorsUnused /\ missing = 0
  /\ \A h \in OpenHandles : fdTable[handle[h].fh + 1] = handle[h].inode
  /\ (\A t \in Threads : thread[t].pc = "idle") =>
       /\ ToSet(available) = {i - 1 : i \in {j \in DOMAIN fdTable : fdTable[j] = NoFile}}
       /\ IsInjective(available)
       /\ Len(fdTable) - Len(available) = Cardinality(OpenHandles)

(* The bytes of file i, and the blocks it and all files take.              *)
Whole(i) ==
  LET f == Entries[i]
      all == Concat([b \in 1..f.last-f.first |-> Content[f.first + b - 1]])
  IN  IF f.kind = "text"
        THEN Decode(SubSeq(all, PageSize + 1, Len(all) - BlockSize + f.lastByte))
        ELSE SubSeq(all, 1, Len(all) - BlockSize + f.lastByte)
Used(b) == b < LastBlock \/ \E i \in DOMAIN Entries : b \in Entries[i].first..Entries[i].last-1

(* What the kernel is told fits together, request by request: the size in  *)
(* the attributes of a file is the number of bytes its reads return, and   *)
(* they return those bytes; a name leads to the file that has it; an       *)
(* attribute is listed exactly when it has a value; asking again with the  *)
(* length a size of 0 was answered with succeeds; the free blocks are the  *)
(* blocks of no file, those at the end no more than all.                   *)
RepliesRight ==
  \A t \in Threads : thread[t].pc = "idle" =>
    LET q == thread[t].request
        a == thread[t].reply
    IN  /\ a.op = "data" =>
             LET w == Whole(handle[q.handle].inode - 1)
             IN  a.bytes = SubSeq(w, q.offset + 1, Smaller(Len(w), q.offset + q.size))
        /\ (a.op = "attr" /\ a.inode # 1) => a.size = Len(Whole(a.inode - 1))
        /\ (a.op = "attr" /\ q.op = "lookup") => Entries[a.inode - 1].name = q.name
        /\ (a.op = "names" /\ q.inode # 1) =>
             /\ NameBytes(a.names) <= q.size
             /\ \A x \in Attributes :
                  x \in ToSet(a.names) <=> Getxattr(q.inode, x, 0).op = "length"
        /\ (a.op = "length" /\ a.length # 0) =>
             IF q.op = "listxattr" THEN Listxattr(q.inode, a.length).op = "names"
                                   ELSE Getxattr(q.inode, q.name, a.length).op = "value"
        /\ a.op = "statfs" =>
             /\ a.free = Cardinality({b \in 0..VolumeBlocks-1 : ~Used(b)})
             /\ a.available = Cardinality({b \in 0..VolumeBlocks-1 : \A c \in b..VolumeBlocks-1 : ~Used(c)})

(* However small the kernel's buffers are, a reader of the directory who   *)
(* goes on until the empty answer has had every entry once, in order.      *)
ListingComplete ==
  stream.done => stream.seen = <<".", "..">> \o [i \in DOMAIN Entries |-> Entries[i].name]

(* Every request is answered: each path through a handler ends in one      *)
(* reply.                                                                  *)
EveryRequestAnswered ==
  \A t \in Threads : thread[t].pc # "idle" ~> thread[t].pc = "idle"
=============================================================================
