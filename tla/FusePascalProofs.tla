--------------------------- MODULE FusePascalProofs ---------------------------
(***************************************************************************)
(* With one session thread the descriptor table of the Pascal mount stays  *)
(* exact, for any volume, any files the kernel has open and any requests   *)
(* (with two it does not: FuseThreads.cfg), and what it answers agrees     *)
(* with the volume.  A listing is complete with any number of threads.     *)
(***************************************************************************)
EXTENDS FusePascal, FileEntryProofs

-----------------------------------------------------------------------------
(* The inductive invariant, of the one thread t.                           *)

HandleRecords ==
  [state : {"closed", "opening", "open", "closing"}, inode : Nat, fh : Nat]

Opening(t) == Doing(t, "open") \/ thread[t].pc \in {"pop", "store", "push"}
Releasing(t) == Doing(t, "release")

(* An index the thread has taken off the list and not yet used, or reset   *)
(* and not yet put there.                                                  *)
InTransit(t) == thread[t].pc \in {"store", "free"}

ThreadTyped(t) ==
  /\ DOMAIN thread = Threads
  /\ thread[t] = [pc |-> thread[t].pc, request |-> thread[t].request,
                  index |-> thread[t].index, reply |-> thread[t].reply]
  /\ thread[t].pc \in {"idle", "todo", "pop", "store", "push", "free"}

Typed(t) ==
  /\ fdTable \in Seq(Nat) /\ available \in Seq(Nat) /\ missing = 0
  /\ handle \in [Handles -> HandleRecords]
  /\ ThreadTyped(t)

Working(t) ==
  /\ Opening(t) =>
       /\ thread[t].request.handle \in Handles
       /\ handle[thread[t].request.handle].state = "opening"
       /\ handle[thread[t].request.handle].inode = thread[t].request.inode
       /\ thread[t].request.inode # NoFile
  /\ Releasing(t) \/ thread[t].pc = "free" =>
       /\ thread[t].request.handle \in Handles
       /\ handle[thread[t].request.handle].state = "closing"
  /\ thread[t].pc = "pop" =>
       /\ available # <<>>
       /\ thread[t].index = available[Len(available)]
  /\ thread[t].pc = "push" => available = <<>> /\ thread[t].index = Len(fdTable)
  /\ InTransit(t) =>
       /\ thread[t].index \in 0..Len(fdTable)-1
       /\ \A k \in DOMAIN available : available[k] # thread[t].index

(* The list is the free indexes, but the one in transit.                   *)
ListExact(t) ==
  /\ \A k \in DOMAIN available : available[k] \in 0..Len(fdTable)-1
  /\ \A j, k \in DOMAIN available : available[j] = available[k] => j = k
  /\ \A i \in DOMAIN fdTable :
       fdTable[i] = NoFile <=>
         \/ \E k \in DOMAIN available : available[k] = i - 1
         \/ InTransit(t) /\ thread[t].index = i - 1

(* The open files, and one whose release has not begun, have an index each *)
(* that leads to their inode.                                              *)
HasIndex(t, h) ==
  handle[h].state = "open" \/ (Releasing(t) /\ thread[t].request.handle = h)

TableExact(t) ==
  /\ \A h \in Handles : HasIndex(t, h) =>
       /\ handle[h].fh + 1 \in DOMAIN fdTable
       /\ fdTable[handle[h].fh + 1] = handle[h].inode
       /\ handle[h].inode # NoFile
  /\ \A g, h \in Handles :
       HasIndex(t, g) /\ HasIndex(t, h) /\ handle[g].fh = handle[h].fh => g = h

Counted(t) ==
  Len(fdTable) - Len(available) =
    Cardinality(OpenHandles) + (IF InTransit(t) \/ Releasing(t) THEN 1 ELSE 0)

IInv(t) == Typed(t) /\ Working(t) /\ ListExact(t) /\ TableExact(t) /\ Counted(t)

-----------------------------------------------------------------------------
(* What the steps do to the thread and to the open files.                  *)

LEMMA SendEffect ==
  ASSUME NEW t \in Threads, NEW q, ThreadTyped(t), Send(t, q)
  PROVE  ThreadTyped(t)' /\ thread[t].pc = "idle" /\ thread'[t].pc = "todo"
         /\ thread'[t].request = q
BY DEF ThreadTyped, Send, Idle

LEMMA ReplyEffect ==
  ASSUME NEW t \in Threads, NEW a, ThreadTyped(t), Reply(t, a)
  PROVE  ThreadTyped(t)' /\ thread'[t].pc = "idle"
BY DEF ThreadTyped, Reply

LEMMA GoesEffect ==
  ASSUME NEW t \in Threads, NEW i, NEW pc \in {"pop", "store", "push", "free"},
         ThreadTyped(t), Goes(t, pc, i)
  PROVE  ThreadTyped(t)' /\ thread'[t].pc = pc /\ thread'[t].index = i
         /\ thread'[t].request = thread[t].request
BY DEF ThreadTyped, Goes

LEMMA OpenHandlesFinite ==
  ASSUME IsFiniteSet(Handles)
  PROVE  IsFiniteSet(OpenHandles) /\ Cardinality(OpenHandles) \in Nat
BY FS_Subset, FS_CardinalityType DEF OpenHandles

(* A handle that opens or closes changes the number of open files by one.  *)
LEMMA OneMoreOpen ==
  ASSUME IsFiniteSet(Handles), NEW h \in Handles, handle[h].state # "open",
         OpenHandles' = OpenHandles \cup {h}
  PROVE  Cardinality(OpenHandles)' = Cardinality(OpenHandles) + 1
BY OpenHandlesFinite, FS_AddElement DEF OpenHandles

LEMMA OneLessOpen ==
  ASSUME IsFiniteSet(Handles), NEW h \in Handles, handle[h].state = "open",
         OpenHandles' = OpenHandles \ {h}
  PROVE  Cardinality(OpenHandles)' = Cardinality(OpenHandles) - 1
<1>1. IsFiniteSet(OpenHandles) /\ h \in OpenHandles
  BY OpenHandlesFinite DEF OpenHandles
<1>2. Cardinality(OpenHandles \ {h}) = Cardinality(OpenHandles) - 1
  BY <1>1, FS_RemoveElement
<1> QED BY <1>2

-----------------------------------------------------------------------------
(* Steps of the thread that leave the table, the list and the handles.     *)

Plain(t) == ~Opening(t) /\ ~Releasing(t) /\ thread[t].pc \in {"idle", "todo"}

LEMMA PlainKeeps ==
  ASSUME NEW t \in Threads, IInv(t), UNCHANGED <<fdTable, available, missing, handle>>,
         ThreadTyped(t)', Plain(t), Plain(t)'
  PROVE  IInv(t)'
<1>1. ~InTransit(t) /\ ~InTransit(t)' /\ ~Releasing(t) /\ ~Releasing(t)'
  BY DEF Plain, InTransit
<1>2. Typed(t)'
  BY DEF IInv, Typed
<1>3. Working(t)'
  BY <1>1 DEF Plain, Working
<1>4. ListExact(t)'
  BY <1>1 DEF IInv, ListExact
<1>5. \A h \in Handles : HasIndex(t, h)' <=> HasIndex(t, h)
  BY <1>1 DEF HasIndex
<1>6. TableExact(t)'
  BY <1>5 DEF IInv, TableExact
<1>7. Counted(t)'
  BY <1>1 DEF IInv, Counted, OpenHandles
<1> QED BY <1>2, <1>3, <1>4, <1>6, <1>7 DEF IInv

LEMMA AnswerKeeps ==
  ASSUME NEW t \in Threads, IInv(t), UNCHANGED <<fdTable, available, missing, handle>>,
         NEW op, op \notin {"open", "release"}, Doing(t, op), NEW a, Reply(t, a)
  PROVE  IInv(t)'
<1>1. ThreadTyped(t)' /\ thread'[t].pc = "idle"
  BY ReplyEffect DEF IInv, Typed
<1>2. Plain(t) /\ Plain(t)'
  BY <1>1 DEF Plain, Opening, Releasing, Doing
<1> QED BY <1>1, <1>2, PlainKeeps

LEMMA AskKeeps ==
  ASSUME NEW t \in Threads, IInv(t), UNCHANGED <<fdTable, available, missing, handle>>,
         NEW q, q.op \notin {"open", "release"}, Send(t, q)
  PROVE  IInv(t)'
<1>1. ThreadTyped(t)' /\ thread[t].pc = "idle" /\ thread'[t].pc = "todo"
      /\ thread'[t].request = q
  BY SendEffect DEF IInv, Typed
<1>2. Plain(t) /\ Plain(t)'
  BY <1>1 DEF Plain, Opening, Releasing, Doing
<1> QED BY <1>1, <1>2, PlainKeeps

LEMMA StatelessKeeps ==
  ASSUME NEW t \in Threads, IInv(t), Stateless(t)
  PROVE  IInv(t)'
<1>1. PICK op \in {"statfs", "getattr", "lookup", "listxattr", "getxattr"} :
        Doing(t, op) /\ \E a : Reply(t, a)
  BY DEF Stateless
<1>2. UNCHANGED <<fdTable, available, missing, handle>>
  BY DEF Stateless
<1> QED BY <1>1, <1>2, AnswerKeeps

LEMMA DirectoryKeeps ==
  ASSUME NEW t \in Threads, IInv(t),
         Opendir(t) \/ ReaddirAnswers(t) \/ Releasedir(t)
  PROVE  IInv(t)'
<1>1. PICK op \in {"opendir", "readdir", "releasedir"} :
        Doing(t, op) /\ \E a : Reply(t, a)
  BY DEF Opendir, ReaddirAnswers, Releasedir
<1>2. UNCHANGED <<fdTable, available, missing, handle>>
  BY DEF Opendir, ReaddirAnswers, Releasedir
<1> QED BY <1>1, <1>2, AnswerKeeps

LEMMA ReadKeeps ==
  ASSUME NEW t \in Threads, IInv(t), ReadAnswers(t) \/ ReadThrows(t), ~Ends
  PROVE  IInv(t)'
<1>1. Doing(t, "read") /\ \E a : Reply(t, a)
  BY DEF ReadAnswers, ReadThrows
<1>2. UNCHANGED <<fdTable, available, missing, handle>>
  BY DEF ReadAnswers, ReadThrows
<1> QED BY <1>1, <1>2, AnswerKeeps

LEMMA AskPlainKeeps ==
  ASSUME NEW t \in Threads, IInv(t),
         AskStateless(t) \/ AskDirectory(t) \/ \E h \in Handles : AskRead(t, h)
  PROVE  IInv(t)'
<1>1. PICK q : q.op \notin {"open", "release"} /\ Send(t, q)
  <2>1. CASE AskStateless(t)
    BY <2>1 DEF AskStateless
  <2>2. CASE AskDirectory(t)
    BY <2>2 DEF AskDirectory
  <2>3. CASE \E h \in Handles : AskRead(t, h)
    BY <2>3 DEF AskRead
  <2> QED BY <2>1, <2>2, <2>3
<1> QED BY <1>1, AskKeeps DEF AskStateless, AskDirectory, AskRead

-----------------------------------------------------------------------------
(* The requests that open and release.                                     *)

LEMMA AskOpenKeeps ==
  ASSUME NEW t \in Threads, IInv(t), NEW h \in Handles, AskOpen(t, h)
  PROVE  IInv(t)'
<1>1. PICK i \in Inodes, readOnly \in BOOLEAN :
        /\ Send(t, [op |-> "open", handle |-> h, inode |-> i, readOnly |-> readOnly])
        /\ handle' = [handle EXCEPT ![h] = [state |-> "opening", inode |-> i, fh |-> 0]]
  BY DEF AskOpen
<1>2. i \in Nat /\ i # 0
  BY DEF Inodes
<1>3. ThreadTyped(t)' /\ thread[t].pc = "idle" /\ thread'[t].pc = "todo"
      /\ thread'[t].request = [op |-> "open", handle |-> h, inode |-> i, readOnly |-> readOnly]
  BY <1>1, SendEffect DEF IInv, Typed
<1>4. ~InTransit(t) /\ ~InTransit(t)' /\ ~Releasing(t) /\ ~Releasing(t)'
  BY <1>3 DEF InTransit, Releasing, Doing
<1>5. handle[h].state = "closed" /\ UNCHANGED <<fdTable, available, missing>>
  BY DEF AskOpen
<1>6. handle \in [Handles -> HandleRecords]
  BY DEF IInv, Typed
<1>7. Typed(t)'
  <2>1. [state |-> "opening", inode |-> i, fh |-> 0] \in HandleRecords
    BY <1>2 DEF HandleRecords
  <2>2. handle' \in [Handles -> HandleRecords]
    BY <1>1, <1>6, <2>1
  <2> QED BY <1>3, <1>5, <2>2 DEF IInv, Typed
<1>8. handle'[h].state = "opening" /\ handle'[h].inode = i
      /\ \A g \in Handles \ {h} : handle'[g] = handle[g]
  BY <1>1, <1>6
<1>9. Working(t)'
  BY <1>2, <1>3, <1>4, <1>8 DEF Working, NoFile
<1>10. ListExact(t)'
  BY <1>4, <1>5 DEF IInv, ListExact
<1>11. \A g \in Handles : HasIndex(t, g)' => HasIndex(t, g) /\ handle'[g] = handle[g]
  BY <1>4, <1>8 DEF HasIndex
<1>12. TableExact(t)'
  BY <1>5, <1>11 DEF IInv, TableExact
<1>13. OpenHandles' = OpenHandles
  BY <1>5, <1>8 DEF OpenHandles
<1>14. Counted(t)'
  BY <1>4, <1>5, <1>13 DEF IInv, Counted
<1> QED BY <1>7, <1>9, <1>10, <1>12, <1>14 DEF IInv

LEMMA AskReleaseKeeps ==
  ASSUME IsFiniteSet(Handles),
         NEW t \in Threads, IInv(t), NEW h \in Handles, AskRelease(t, h)
  PROVE  IInv(t)'
<1>1. /\ handle[h].state = "open"
      /\ Send(t, [op |-> "release", handle |-> h])
      /\ handle' = [handle EXCEPT ![h].state = "closing"]
      /\ UNCHANGED <<fdTable, available, missing>>
  BY DEF AskRelease
<1>2. ThreadTyped(t)' /\ thread[t].pc = "idle" /\ thread'[t].pc = "todo"
      /\ thread'[t].request = [op |-> "release", handle |-> h]
  BY <1>1, SendEffect DEF IInv, Typed
<1>3. ~InTransit(t) /\ ~InTransit(t)' /\ ~Releasing(t) /\ Releasing(t)' /\ ~Opening(t)'
  BY <1>2 DEF InTransit, Releasing, Opening, Doing
<1>4. handle \in [Handles -> HandleRecords]
  BY DEF IInv, Typed
<1>5. handle'[h] = [state |-> "closing", inode |-> handle[h].inode, fh |-> handle[h].fh]
      /\ \A g \in Handles \ {h} : handle'[g] = handle[g]
  BY <1>1, <1>4 DEF HandleRecords
<1>6. Typed(t)'
  <2>1. handle'[h] \in HandleRecords
    BY <1>4, <1>5 DEF HandleRecords
  <2>2. handle' \in [Handles -> HandleRecords]
    BY <1>1, <1>4, <1>5, <2>1
  <2> QED BY <1>1, <1>2, <2>2 DEF IInv, Typed
<1>7. Working(t)'
  BY <1>2, <1>3, <1>5 DEF Working
<1>8. ListExact(t)'
  BY <1>1, <1>3 DEF IInv, ListExact
<1>9. \A g \in Handles : (HasIndex(t, g)' <=> HasIndex(t, g))
        /\ handle'[g].fh = handle[g].fh /\ handle'[g].inode = handle[g].inode
  BY <1>1, <1>2, <1>3, <1>5 DEF HasIndex
<1>10. TableExact(t)'
  BY <1>1, <1>9 DEF IInv, TableExact
<1>11. OpenHandles' = OpenHandles \ {h}
  BY <1>5 DEF OpenHandles
<1>12. Cardinality(OpenHandles)' = Cardinality(OpenHandles) - 1
  BY <1>1, <1>11, OneLessOpen
<1>13. Counted(t)'
  BY <1>1, <1>3, <1>12, OpenHandlesFinite DEF IInv, Counted
<1> QED BY <1>6, <1>7, <1>8, <1>10, <1>13 DEF IInv

-----------------------------------------------------------------------------
(* open.                                                                   *)

LEMMA FrontFacts ==
  ASSUME NEW s \in Seq(Nat), s # <<>>
  PROVE  /\ Front(s) \in Seq(Nat) /\ Len(Front(s)) = Len(s) - 1 /\ Len(s) \in Nat \ {0}
         /\ \A k \in DOMAIN Front(s) : k \in DOMAIN s /\ k # Len(s) /\ Front(s)[k] = s[k]
         /\ \A k \in DOMAIN s : k # Len(s) => k \in DOMAIN Front(s)
<1>1. Len(s) \in Nat /\ DOMAIN s = 1..Len(s) /\ Len(s) # 0
  OBVIOUS
<1>2. Front(s) = [k \in 1..Len(s)-1 |-> s[k]]
  BY <1>1 DEF Front
<1>3. \A k \in 1..Len(s)-1 : s[k] \in Nat
  BY <1>1
<1>4. Front(s) \in Seq(Nat) /\ DOMAIN Front(s) = 1..Len(s)-1 /\ Len(Front(s)) = Len(s) - 1
  BY <1>1, <1>2, <1>3
<1> QED BY <1>1, <1>2, <1>4

LEMMA OpenRefusedKeeps ==
  ASSUME NEW t \in Threads, IInv(t), OpenRefused(t)
  PROVE  IInv(t)'
<1> DEFINE h == thread[t].request.handle
<1>1. Doing(t, "open") /\ UNCHANGED <<fdTable, available, missing>>
      /\ handle' = [handle EXCEPT ![h] = Closed] /\ \E a : Reply(t, a)
  BY DEF OpenRefused
<1>2. ThreadTyped(t)' /\ thread'[t].pc = "idle"
  BY <1>1, ReplyEffect DEF IInv, Typed
<1>3. ~InTransit(t) /\ ~InTransit(t)' /\ ~Releasing(t) /\ ~Releasing(t)' /\ ~Opening(t)'
  BY <1>1, <1>2 DEF InTransit, Releasing, Opening, Doing
<1>4. h \in Handles /\ handle[h].state = "opening"
  BY <1>1 DEF IInv, Working, Opening
<1>5. handle \in [Handles -> HandleRecords] /\ Closed \in HandleRecords
  BY DEF IInv, Typed, Closed, HandleRecords
<1>6. handle'[h].state = "closed" /\ \A g \in Handles \ {h} : handle'[g] = handle[g]
  BY <1>1, <1>4, <1>5 DEF Closed
<1>7. Typed(t)'
  <2>1. handle' \in [Handles -> HandleRecords]
    BY <1>1, <1>4, <1>5
  <2> QED BY <1>1, <1>2, <2>1 DEF IInv, Typed
<1>8. Working(t)'
  BY <1>2, <1>3 DEF Working
<1>9. ListExact(t)'
  BY <1>1, <1>3 DEF IInv, ListExact
<1>10. \A g \in Handles : HasIndex(t, g)' => HasIndex(t, g) /\ handle'[g] = handle[g]
  BY <1>3, <1>6 DEF HasIndex
<1>11. TableExact(t)'
  BY <1>1, <1>10 DEF IInv, TableExact
<1>12. OpenHandles' = OpenHandles
  BY <1>4, <1>6 DEF OpenHandles
<1>13. Counted(t)'
  BY <1>1, <1>3, <1>12 DEF IInv, Counted
<1> QED BY <1>7, <1>8, <1>9, <1>11, <1>13 DEF IInv

(* open() has chosen its index, and no vector has changed.                 *)
LEMMA ChosenKeeps ==
  ASSUME NEW t \in Threads, IInv(t), OpenBack(t) \/ OpenSize(t)
  PROVE  IInv(t)'
<1>1. Doing(t, "open") /\ UNCHANGED <<fdTable, available, missing, handle>>
  BY DEF OpenBack, OpenSize, OpenAccepted
<1>2. PICK i \in Nat : \E pc \in {"pop", "push"} :
        /\ Goes(t, pc, i)
        /\ pc = "pop" => available # <<>> /\ i = Last(available)
        /\ pc = "push" => available = <<>> /\ i = Len(fdTable)
  <2>0. available \in Seq(Nat) /\ fdTable \in Seq(Nat) /\ missing = 0
    BY DEF IInv, Typed
  <2>1. CASE OpenBack(t)
    <3>1. available # <<>> /\ Goes(t, "pop", Last(available))
      BY <2>0, <2>1 DEF OpenBack
    <3>2. Last(available) \in Nat
      BY <2>0, <3>1 DEF Last
    <3> QED BY <3>1, <3>2
  <2>2. CASE OpenSize(t)
    <3>1. available = <<>> /\ Goes(t, "push", Len(fdTable))
      BY <2>0, <2>2 DEF OpenSize
    <3>2. Len(fdTable) \in Nat
      BY <2>0
    <3> QED BY <3>1, <3>2
  <2> QED BY <1>1, <2>1, <2>2
<1>a. PICK pc \in {"pop", "push"} :
        /\ Goes(t, pc, i)
        /\ pc = "pop" => available # <<>> /\ i = Last(available)
        /\ pc = "push" => available = <<>> /\ i = Len(fdTable)
  BY <1>2
<1>3. ThreadTyped(t)' /\ thread'[t].pc = pc /\ thread'[t].index = i
      /\ thread'[t].request = thread[t].request
  BY <1>a, GoesEffect DEF IInv, Typed
<1>4. ~InTransit(t) /\ ~InTransit(t)' /\ ~Releasing(t) /\ ~Releasing(t)' /\ Opening(t)
  BY <1>1, <1>3 DEF InTransit, Releasing, Opening, Doing
<1>5. Typed(t)'
  BY <1>1, <1>3 DEF IInv, Typed
<1>6. Working(t)'
  BY <1>1, <1>a, <1>3, <1>4 DEF IInv, Working, Last
<1>7. ListExact(t)'
  BY <1>1, <1>4 DEF IInv, ListExact
<1>8. \A h \in Handles : HasIndex(t, h)' <=> HasIndex(t, h)
  BY <1>1, <1>4 DEF HasIndex
<1>9. TableExact(t)'
  BY <1>1, <1>8 DEF IInv, TableExact
<1>10. Counted(t)'
  BY <1>1, <1>4 DEF IInv, Counted, OpenHandles
<1> QED BY <1>5, <1>6, <1>7, <1>9, <1>10 DEF IInv

LEMMA OpenPopKeeps ==
  ASSUME IsFiniteSet(Handles), NEW t \in Threads, IInv(t), OpenPop(t)
  PROVE  IInv(t)'
<1> DEFINE i == thread[t].index
<1>1. thread[t].pc = "pop" /\ available # <<>> /\ available' = Front(available)
      /\ Goes(t, "store", i) /\ UNCHANGED <<fdTable, missing, handle>>
  BY DEF OpenPop, IInv, Working
<1>2. ThreadTyped(t)' /\ thread'[t].pc = "store" /\ thread'[t].index = i
      /\ thread'[t].request = thread[t].request
  BY <1>1, GoesEffect DEF IInv, Typed
<1>3. ~InTransit(t) /\ InTransit(t)' /\ ~Releasing(t) /\ ~Releasing(t)' /\ Opening(t)
  BY <1>1, <1>2 DEF InTransit, Releasing, Opening, Doing
<1>4. available \in Seq(Nat) /\ fdTable \in Seq(Nat) /\ i = available[Len(available)]
  BY <1>1 DEF IInv, Typed, Working
<1>5. /\ available' \in Seq(Nat) /\ Len(available') = Len(available) - 1
      /\ Len(available) \in DOMAIN available
      /\ \A k \in DOMAIN available' :
           k \in DOMAIN available /\ k # Len(available) /\ available'[k] = available[k]
      /\ \A k \in DOMAIN available : k # Len(available) => k \in DOMAIN available'
  BY <1>1, <1>4, FrontFacts
<1>6. Typed(t)'
  BY <1>1, <1>2, <1>5 DEF IInv, Typed
<1>7. i \in 0..Len(fdTable)-1 /\ \A k \in DOMAIN available' : available'[k] # i
  BY <1>4, <1>5 DEF IInv, ListExact
<1>8. Working(t)'
  BY <1>1, <1>2, <1>3, <1>7 DEF IInv, Working
<1>9. ListExact(t)'
  <2>1. \A k \in DOMAIN available' : available'[k] \in 0..Len(fdTable')-1
    BY <1>1, <1>5 DEF IInv, ListExact
  <2>2. \A j, k \in DOMAIN available' : available'[j] = available'[k] => j = k
    BY <1>5 DEF IInv, ListExact
  <2>3. ASSUME NEW n \in DOMAIN fdTable'
        PROVE  fdTable'[n] = NoFile <=>
                 (\E k \in DOMAIN available' : available'[k] = n - 1) \/ i = n - 1
    <3>1. fdTable[n] = NoFile <=> \E k \in DOMAIN available : available[k] = n - 1
      BY <1>1, <1>3, <2>3 DEF IInv, ListExact
    <3> QED BY <1>1, <1>4, <1>5, <3>1
  <2> QED BY <1>2, <1>3, <2>1, <2>2, <2>3 DEF ListExact
<1>10. \A h \in Handles : HasIndex(t, h)' <=> HasIndex(t, h)
  BY <1>1, <1>3 DEF HasIndex
<1>11. TableExact(t)'
  BY <1>1, <1>10 DEF IInv, TableExact
<1>12. Counted(t)'
  <2>1. OpenHandles' = OpenHandles
    BY <1>1 DEF OpenHandles
  <2>2. Len(fdTable) - Len(available) = Cardinality(OpenHandles)
    BY <1>3, OpenHandlesFinite DEF IInv, Counted
  <2>3. Len(fdTable') - Len(available') = Cardinality(OpenHandles) + 1
    BY <1>1, <1>4, <1>5, <2>2
  <2> QED BY <1>3, <2>1, <2>3 DEF Counted
<1> QED BY <1>6, <1>8, <1>9, <1>11, <1>12 DEF IInv

(* What the last steps of open do to the thread and its handle.            *)
LEMMA OpenedEffect ==
  ASSUME IsFiniteSet(Handles), NEW t \in Threads, IInv(t), Opening(t),
         NEW i \in Nat, Opened(t, i)
  PROVE  LET h == thread[t].request.handle
         IN  /\ ThreadTyped(t)' /\ Plain(t)'
             /\ h \in Handles /\ handle[h].state = "opening"
             /\ handle' \in [Handles -> HandleRecords]
             /\ handle'[h].state = "open" /\ handle'[h].fh = i
             /\ handle'[h].inode = thread[t].request.inode
             /\ thread[t].request.inode \in Nat \ {0}
             /\ \A g \in Handles \ {h} : handle'[g] = handle[g]
             /\ Cardinality(OpenHandles)' = Cardinality(OpenHandles) + 1
<1> DEFINE h == thread[t].request.handle
<1>1. ThreadTyped(t)' /\ thread'[t].pc = "idle"
  BY ReplyEffect DEF IInv, Typed, Opened
<1>2. h \in Handles /\ handle[h].state = "opening" /\ handle[h].inode = thread[t].request.inode
      /\ thread[t].request.inode # NoFile
  BY DEF IInv, Working
<1>3. handle \in [Handles -> HandleRecords]
  BY DEF IInv, Typed
<1>4. handle' = [handle EXCEPT ![h].state = "open", ![h].fh = i]
  BY SMTT(30) DEF Opened
<1>5. handle'[h] = [state |-> "open", inode |-> handle[h].inode, fh |-> i]
      /\ \A g \in Handles \ {h} : handle'[g] = handle[g]
  BY <1>2, <1>3, <1>4 DEF HandleRecords
<1>6. handle' \in [Handles -> HandleRecords]
  <2>1. handle'[h] \in HandleRecords
    BY <1>2, <1>3, <1>5 DEF HandleRecords
  <2>2. handle' = [g \in Handles |-> handle'[g]]
    BY <1>3, <1>4
  <2>3. \A g \in Handles : handle'[g] \in HandleRecords
    BY <1>3, <1>5, <2>1
  <2> QED BY <2>2, <2>3
<1>7. OpenHandles' = OpenHandles \cup {h}
  BY <1>2, <1>5 DEF OpenHandles
<1>8. Cardinality(OpenHandles)' = Cardinality(OpenHandles) + 1
  BY <1>2, <1>7, OneMoreOpen
<1>9. thread[t].request.inode \in Nat \ {0}
  BY <1>2, <1>3 DEF HandleRecords, NoFile
<1> QED
  BY <1>1, <1>2, <1>5, <1>6, <1>8, <1>9 DEF Plain, Opening, Releasing, Doing

LEMMA OpenStoreKeeps ==
  ASSUME IsFiniteSet(Handles), NEW t \in Threads, IInv(t), OpenStore(t), ~Ends
  PROVE  IInv(t)'
<1> DEFINE h == thread[t].request.handle
           inode == thread[t].request.inode
           i == thread[t].index
<1>1. thread[t].pc = "store" /\ fdTable' = [fdTable EXCEPT ![i + 1] = inode]
      /\ Opened(t, i) /\ UNCHANGED <<available, missing>>
  BY DEF OpenStore
<1>2. Opening(t) /\ InTransit(t) /\ ~Releasing(t)
  BY <1>1 DEF Opening, InTransit, Releasing, Doing
<1>3. i \in 0..Len(fdTable)-1 /\ \A k \in DOMAIN available : available[k] # i
  BY <1>2 DEF IInv, Working
<1>4. /\ ThreadTyped(t)' /\ Plain(t)'
      /\ h \in Handles /\ handle[h].state = "opening"
      /\ handle' \in [Handles -> HandleRecords]
      /\ handle'[h].state = "open" /\ handle'[h].fh = i
      /\ handle'[h].inode = inode /\ inode \in Nat \ {0}
      /\ \A g \in Handles \ {h} : handle'[g] = handle[g]
      /\ Cardinality(OpenHandles)' = Cardinality(OpenHandles) + 1
  BY <1>1, <1>2, <1>3, OpenedEffect
<1>5. ~InTransit(t)' /\ ~Releasing(t)'
  BY <1>4 DEF Plain, InTransit
<1> HIDE DEF h, inode, i
<1>6. fdTable \in Seq(Nat) /\ available \in Seq(Nat) /\ missing = 0
  BY DEF IInv, Typed
<1>7. /\ fdTable' \in Seq(Nat) /\ Len(fdTable') = Len(fdTable)
      /\ DOMAIN fdTable' = DOMAIN fdTable /\ i + 1 \in DOMAIN fdTable
      /\ fdTable'[i + 1] = inode
      /\ \A n \in DOMAIN fdTable \ {i + 1} : fdTable'[n] = fdTable[n]
  BY <1>1, <1>3, <1>4, <1>6
<1>8. Typed(t)'
  BY <1>1, <1>4, <1>6, <1>7 DEF Typed
<1>9. Working(t)'
  BY <1>4, <1>5 DEF Plain, Working
<1>10. fdTable[i + 1] = NoFile
  BY <1>2, <1>3, <1>7 DEF IInv, ListExact, i
<1>11. ListExact(t)'
  <2>1. ASSUME NEW n \in DOMAIN fdTable'
        PROVE  fdTable'[n] = NoFile <=> \E k \in DOMAIN available' : available'[k] = n - 1
    <3>1. CASE n = i + 1
      BY <1>1, <1>3, <1>4, <1>6, <1>7, <3>1 DEF NoFile
    <3>2. CASE n # i + 1
      <4>1. n - 1 # i
        BY <1>3, <1>6, <1>7, <2>1, <3>2
      <4> QED BY <1>1, <1>7, <2>1, <3>2, <4>1 DEF IInv, ListExact, i
    <3> QED BY <3>1, <3>2
  <2> QED BY <1>1, <1>5, <1>7, <2>1 DEF IInv, ListExact
<1>12. \A g \in Handles : HasIndex(t, g)' => g = h \/ (g # h /\ HasIndex(t, g) /\ handle'[g] = handle[g])
  BY <1>4, <1>5 DEF HasIndex
<1>13. \A g \in Handles : HasIndex(t, g) => handle[g].fh # i /\ handle[g].fh \in Nat
  <2>1. \A g \in Handles : handle[g].fh \in Nat
    BY DEF IInv, Typed, HandleRecords
  <2> QED BY <1>10, <2>1 DEF IInv, TableExact
<1>14. TableExact(t)'
  <2>1. ASSUME NEW g \in Handles, HasIndex(t, g)'
        PROVE  /\ handle'[g].fh + 1 \in DOMAIN fdTable'
               /\ fdTable'[handle'[g].fh + 1] = handle'[g].inode
               /\ handle'[g].inode # NoFile
    <3>1. CASE g = h
      BY <1>4, <1>7, <3>1 DEF NoFile
    <3>2. CASE g # h
      <4>1. HasIndex(t, g) /\ handle'[g] = handle[g]
        BY <1>12, <2>1, <3>2
      <4>2. handle[g].fh + 1 \in DOMAIN fdTable /\ handle[g].fh + 1 # i + 1
        BY <1>3, <1>13, <4>1 DEF IInv, TableExact
      <4> QED BY <1>7, <4>1, <4>2 DEF IInv, TableExact
    <3> QED BY <3>1, <3>2
  <2>2. ASSUME NEW f \in Handles, NEW g \in Handles, HasIndex(t, f)', HasIndex(t, g)',
               handle'[f].fh = handle'[g].fh
        PROVE  f = g
    BY <1>4, <1>12, <1>13, <2>2 DEF IInv, TableExact
  <2> QED BY <2>1, <2>2 DEF TableExact
<1>15. Counted(t)'
  BY <1>1, <1>2, <1>4, <1>5, <1>6, <1>7, OpenHandlesFinite DEF IInv, Counted
<1> QED BY <1>8, <1>9, <1>11, <1>14, <1>15 DEF IInv

LEMMA OpenPushKeeps ==
  ASSUME IsFiniteSet(Handles), NEW t \in Threads, IInv(t), OpenPush(t)
  PROVE  IInv(t)'
<1> DEFINE h == thread[t].request.handle
           inode == thread[t].request.inode
           i == thread[t].index
<1>1. thread[t].pc = "push" /\ fdTable' = Append(fdTable, inode)
      /\ Opened(t, i) /\ UNCHANGED <<available, missing>>
  BY DEF OpenPush
<1>2. Opening(t) /\ ~InTransit(t) /\ ~Releasing(t)
  BY <1>1 DEF Opening, InTransit, Releasing, Doing
<1>3. fdTable \in Seq(Nat) /\ available = <<>> /\ i = Len(fdTable)
  BY <1>1 DEF IInv, Typed, Working
<1>4. /\ ThreadTyped(t)' /\ Plain(t)'
      /\ h \in Handles /\ handle[h].state = "opening"
      /\ handle' \in [Handles -> HandleRecords]
      /\ handle'[h].state = "open" /\ handle'[h].fh = i
      /\ handle'[h].inode = inode /\ inode \in Nat \ {0}
      /\ \A g \in Handles \ {h} : handle'[g] = handle[g]
      /\ Cardinality(OpenHandles)' = Cardinality(OpenHandles) + 1
  <2>1. i \in Nat
    BY <1>3
  <2> QED BY <1>1, <1>2, <2>1, OpenedEffect
<1>5. ~InTransit(t)' /\ ~Releasing(t)'
  BY <1>4 DEF Plain, InTransit
<1> HIDE DEF h, inode, i
<1>6. /\ fdTable' \in Seq(Nat) /\ Len(fdTable') = Len(fdTable) + 1
      /\ i + 1 \in DOMAIN fdTable' /\ fdTable'[i + 1] = inode
      /\ \A n \in DOMAIN fdTable : n \in DOMAIN fdTable' /\ n # i + 1 /\ fdTable'[n] = fdTable[n]
      /\ \A n \in DOMAIN fdTable' : n = i + 1 \/ n \in DOMAIN fdTable
  BY <1>1, <1>3, <1>4
<1>7. Typed(t)'
  BY <1>1, <1>4, <1>6 DEF IInv, Typed
<1>8. Working(t)'
  BY <1>4, <1>5 DEF Plain, Working
<1>9. ListExact(t)'
  <2>1. \A n \in DOMAIN fdTable' : fdTable'[n] # NoFile
    BY <1>2, <1>3, <1>4, <1>6 DEF IInv, ListExact, NoFile
  <2> QED BY <1>1, <1>3, <1>5, <2>1 DEF ListExact
<1>10. \A g \in Handles : HasIndex(t, g)' => g = h \/ (g # h /\ HasIndex(t, g) /\ handle'[g] = handle[g])
  BY <1>4, <1>5 DEF HasIndex
<1>11. \A g \in Handles : HasIndex(t, g) => handle[g].fh # i /\ handle[g].fh \in Nat
  <2>1. \A g \in Handles : handle[g].fh \in Nat
    BY DEF IInv, Typed, HandleRecords
  <2> QED BY <1>3, <2>1 DEF IInv, TableExact
<1>12. TableExact(t)'
  <2>1. ASSUME NEW g \in Handles, HasIndex(t, g)'
        PROVE  /\ handle'[g].fh + 1 \in DOMAIN fdTable'
               /\ fdTable'[handle'[g].fh + 1] = handle'[g].inode
               /\ handle'[g].inode # NoFile
    <3>1. CASE g = h
      BY <1>4, <1>6, <3>1 DEF NoFile
    <3>2. CASE g # h
      BY <1>6, <1>10, <2>1, <3>2 DEF IInv, TableExact
    <3> QED BY <3>1, <3>2
  <2>2. ASSUME NEW f \in Handles, NEW g \in Handles, HasIndex(t, f)', HasIndex(t, g)',
               handle'[f].fh = handle'[g].fh
        PROVE  f = g
    BY <1>4, <1>10, <1>11, <2>2 DEF IInv, TableExact
  <2> QED BY <2>1, <2>2 DEF TableExact
<1>13. Counted(t)'
  BY <1>1, <1>2, <1>3, <1>4, <1>5, <1>6, OpenHandlesFinite DEF IInv, Counted
<1> QED BY <1>7, <1>8, <1>9, <1>12, <1>13 DEF IInv

-----------------------------------------------------------------------------
(* release.                                                                *)

LEMMA ReleaseResetKeeps ==
  ASSUME NEW t \in Threads, IInv(t), ReleaseReset(t)
  PROVE  IInv(t)'
<1> DEFINE h == thread[t].request.handle
           i == handle[h].fh
<1>1. Doing(t, "release") /\ fdTable' = [fdTable EXCEPT ![i + 1] = NoFile]
      /\ Goes(t, "free", i) /\ UNCHANGED <<available, missing, handle>>
  BY DEF ReleaseReset
<1>2. ThreadTyped(t)' /\ thread'[t].pc = "free" /\ thread'[t].index = i
      /\ thread'[t].request = thread[t].request
  BY <1>1, GoesEffect DEF IInv, Typed
<1>3. ~InTransit(t) /\ InTransit(t)' /\ Releasing(t) /\ ~Releasing(t)' /\ ~Opening(t)'
  BY <1>1, <1>2 DEF InTransit, Releasing, Opening, Doing
<1>4. h \in Handles /\ handle[h].state = "closing"
  BY <1>3 DEF IInv, Working
<1>5. fdTable \in Seq(Nat) /\ available \in Seq(Nat) /\ i \in Nat
  BY <1>4 DEF IInv, Typed, HandleRecords
<1>6. i + 1 \in DOMAIN fdTable /\ fdTable[i + 1] # NoFile
  BY <1>3, <1>4 DEF IInv, TableExact, HasIndex
<1>7. \A k \in DOMAIN available : available[k] # i
  <2>1. i + 1 - 1 = i
    BY <1>5
  <2> QED BY <1>6, <2>1 DEF IInv, ListExact
<1> HIDE DEF h, i
<1>8. /\ fdTable' \in Seq(Nat) /\ Len(fdTable') = Len(fdTable)
      /\ DOMAIN fdTable' = DOMAIN fdTable
      /\ fdTable'[i + 1] = NoFile
      /\ \A n \in DOMAIN fdTable \ {i + 1} : fdTable'[n] = fdTable[n]
  BY <1>1, <1>5, <1>6 DEF NoFile
<1>9. Typed(t)'
  BY <1>1, <1>2, <1>8 DEF IInv, Typed
<1>10. Working(t)'
  <2>1. i \in 0..Len(fdTable')-1
    BY <1>5, <1>6, <1>8
  <2>2. h \in Handles /\ thread'[t].request.handle = h
    BY <1>2, <1>4 DEF h
  <2> QED BY <1>1, <1>2, <1>3, <1>4, <1>7, <2>1, <2>2 DEF Working
<1>11. ListExact(t)'
  <2>1. ASSUME NEW n \in DOMAIN fdTable'
        PROVE  fdTable'[n] = NoFile <=>
                 (\E k \in DOMAIN available' : available'[k] = n - 1) \/ i = n - 1
    <3>1. CASE n = i + 1
      BY <1>5, <1>8, <3>1
    <3>2. CASE n # i + 1
      <4>1. n - 1 # i
        BY <1>5, <1>8, <2>1, <3>2
      <4> QED BY <1>1, <1>3, <1>8, <2>1, <3>2, <4>1 DEF IInv, ListExact
    <3> QED BY <3>1, <3>2
  <2> QED BY <1>1, <1>2, <1>3, <1>8, <2>1 DEF IInv, ListExact
<1>12. \A g \in Handles : HasIndex(t, g)' => HasIndex(t, g) /\ g # h /\ handle[g].fh # i
  <2>1. \A g \in Handles : HasIndex(t, g)' => HasIndex(t, g) /\ g # h
    BY <1>1, <1>3, <1>4 DEF HasIndex
  <2>2. HasIndex(t, h)
    BY <1>3 DEF HasIndex, h
  <2> QED BY <1>4, <2>1, <2>2 DEF IInv, TableExact, i
<1>13. TableExact(t)'
  <2>1. ASSUME NEW g \in Handles, HasIndex(t, g)'
        PROVE  /\ handle'[g].fh + 1 \in DOMAIN fdTable'
               /\ fdTable'[handle'[g].fh + 1] = handle'[g].inode
               /\ handle'[g].inode # NoFile
    <3>1. HasIndex(t, g) /\ handle[g].fh # i /\ handle'[g] = handle[g]
      BY <1>1, <1>12, <2>1
    <3>2. handle[g].fh \in Nat
      BY DEF IInv, Typed, HandleRecords
    <3>3. \A m, n \in Nat : m + 1 = n + 1 => m = n
      OBVIOUS
    <3>5. handle[g].fh + 1 # i + 1
      BY <1>5, <3>1, <3>2, <3>3
    <3>4. /\ handle[g].fh + 1 \in DOMAIN fdTable
          /\ fdTable[handle[g].fh + 1] = handle[g].inode /\ handle[g].inode # NoFile
      BY <3>1 DEF IInv, TableExact
    <3> QED BY <1>8, <3>1, <3>4, <3>5
  <2>2. \A f, g \in Handles : HasIndex(t, f)' /\ HasIndex(t, g)'
           /\ handle'[f].fh = handle'[g].fh => f = g
    BY <1>1, <1>12 DEF IInv, TableExact
  <2> QED BY <2>1, <2>2 DEF TableExact
<1>14. Counted(t)'
  BY <1>1, <1>3, <1>8 DEF IInv, Counted, OpenHandles
<1> QED BY <1>9, <1>10, <1>11, <1>13, <1>14 DEF IInv

LEMMA ReleaseFreeKeeps ==
  ASSUME IsFiniteSet(Handles), NEW t \in Threads, IInv(t), ReleaseFree(t)
  PROVE  IInv(t)'
<1> DEFINE h == thread[t].request.handle
           i == thread[t].index
<1>1. thread[t].pc = "free" /\ available' = Append(available, i)
      /\ handle' = [handle EXCEPT ![h] = Closed]
      /\ Reply(t, [op |-> "ok"]) /\ UNCHANGED <<fdTable, missing>>
  BY DEF ReleaseFree, IInv, Typed
<1>2. ThreadTyped(t)' /\ thread'[t].pc = "idle"
  BY <1>1, ReplyEffect DEF IInv, Typed
<1>3. InTransit(t) /\ ~InTransit(t)' /\ ~Releasing(t) /\ ~Releasing(t)' /\ ~Opening(t)'
  BY <1>1, <1>2 DEF InTransit, Releasing, Opening, Doing
<1>4. h \in Handles /\ handle[h].state = "closing"
      /\ i \in 0..Len(fdTable)-1 /\ \A k \in DOMAIN available : available[k] # i
  BY <1>1, <1>3 DEF IInv, Working
<1>5. fdTable \in Seq(Nat) /\ available \in Seq(Nat)
      /\ handle \in [Handles -> HandleRecords] /\ Closed \in HandleRecords
  BY DEF IInv, Typed, Closed, HandleRecords
<1>6. handle'[h].state = "closed" /\ \A g \in Handles \ {h} : handle'[g] = handle[g]
  BY <1>1, <1>4, <1>5 DEF Closed
<1> HIDE DEF h, i
<1>7. /\ available' \in Seq(Nat) /\ Len(available') = Len(available) + 1
      /\ Len(available') \in DOMAIN available' /\ available'[Len(available')] = i
      /\ \A k \in DOMAIN available : k \in DOMAIN available' /\ available'[k] = available[k]
      /\ \A k \in DOMAIN available' : k = Len(available') \/ k \in DOMAIN available
  <2>1. i \in Nat
    BY <1>4, <1>5
  <2> QED BY <1>1, <1>5, <2>1
<1>8. Typed(t)'
  <2>1. handle' \in [Handles -> HandleRecords]
    BY <1>1, <1>4, <1>5
  <2>2. missing' = 0
    BY <1>1 DEF IInv, Typed
  <2> QED BY <1>1, <1>2, <1>5, <1>7, <2>1, <2>2 DEF Typed
<1>9. Working(t)'
  BY <1>2, <1>3 DEF Working
<1>10. ListExact(t)'
  <2>1. \A k \in DOMAIN available' : available'[k] \in 0..Len(fdTable')-1
    BY <1>1, <1>4, <1>7 DEF IInv, ListExact
  <2>2. \A j, k \in DOMAIN available' : available'[j] = available'[k] => j = k
    BY <1>4, <1>7 DEF IInv, ListExact
  <2>3. ASSUME NEW n \in DOMAIN fdTable'
        PROVE  fdTable'[n] = NoFile <=> \E k \in DOMAIN available' : available'[k] = n - 1
    <3>1. fdTable[n] = NoFile <=>
            (\E k \in DOMAIN available : available[k] = n - 1) \/ i = n - 1
      BY <1>1, <1>3, <2>3 DEF IInv, ListExact, i
    <3> QED BY <1>1, <1>7, <3>1
  <2> QED BY <1>3, <2>1, <2>2, <2>3 DEF ListExact
<1>11. \A g \in Handles : HasIndex(t, g)' => HasIndex(t, g) /\ handle'[g] = handle[g]
  BY <1>3, <1>6 DEF HasIndex
<1>12. TableExact(t)'
  BY <1>1, <1>11 DEF IInv, TableExact
<1>13. OpenHandles' = OpenHandles
  BY <1>4, <1>6 DEF OpenHandles
<1>14. Counted(t)'
  BY <1>1, <1>3, <1>5, <1>7, <1>13, OpenHandlesFinite DEF IInv, Counted
<1> QED BY <1>8, <1>9, <1>10, <1>12, <1>14 DEF IInv

-----------------------------------------------------------------------------
(* A mount that begins, the step, and the theorem.                         *)

Fresh ==
  /\ fdTable = <<>> /\ available = <<>> /\ missing = 0
  /\ handle = [h \in Handles |-> Closed] /\ thread = [t \in Threads |-> Idle]

LEMMA FreshInv == Fresh => \A t \in Threads : IInv(t)
<1> SUFFICES ASSUME Fresh, NEW t \in Threads PROVE IInv(t)
  OBVIOUS
<1> USE DEF Fresh
<1>1. thread[t].pc = "idle"
  BY DEF Idle
<1>2. ~InTransit(t) /\ ~Releasing(t) /\ ~Opening(t)
  BY <1>1 DEF InTransit, Releasing, Opening, Doing
<1>3. \A h \in Handles : handle[h] = Closed /\ handle[h].state = "closed"
  BY DEF Closed
<1>4. Typed(t)
  <2>1. Closed \in HandleRecords
    BY DEF Closed, HandleRecords
  <2>2. ThreadTyped(t)
    BY DEF ThreadTyped, Idle
  <2> QED BY <2>1, <2>2 DEF Typed
<1>5. Working(t)
  BY <1>1, <1>2 DEF Working
<1>6. ListExact(t)
  BY DEF ListExact
<1>7. TableExact(t)
  BY <1>2, <1>3 DEF TableExact, HasIndex
<1>8. OpenHandles = {}
  BY <1>3 DEF OpenHandles
<1>9. Counted(t)
  BY <1>2, <1>8, FS_EmptySet DEF Counted
<1> QED BY <1>4, <1>5, <1>6, <1>7, <1>9 DEF IInv

LEMMA StutterKeeps ==
  ASSUME NEW t, IInv(t), UNCHANGED <<fdTable, available, missing, handle, thread>>
  PROVE  IInv(t)'
BY DEF IInv, Typed, ThreadTyped, Working, ListExact, TableExact, Counted, HasIndex,
       Opening, Releasing, InTransit, Doing, OpenHandles

LEMMA ThreadStepKeeps ==
  ASSUME IsFiniteSet(Handles), NEW t \in Threads, IInv(t), Asks(t) \/ Serves(t), ~Ends
  PROVE  IInv(t)'
<1>1. CASE Asks(t)
  BY <1>1, AskPlainKeeps, AskOpenKeeps, AskReleaseKeeps DEF Asks
<1>2. CASE Serves(t)
  BY <1>2, StatelessKeeps, DirectoryKeeps, ReadKeeps, OpenRefusedKeeps, ChosenKeeps,
     OpenPopKeeps, OpenStoreKeeps, OpenPushKeeps, ReleaseResetKeeps, ReleaseFreeKeeps
     DEF Serves
<1> QED BY <1>1, <1>2

LEMMA NextKeeps ==
  ASSUME IsFiniteSet(Handles), NEW t, Threads = {t}, IInv(t), [Next]_vars
  PROVE  IInv(t)'
<1>1. CASE PascalInit
  <2>1. UNCHANGED <<fdTable, available, missing, handle, thread>>
    BY <1>1 DEF PascalInit
  <2> QED BY <2>1, StutterKeeps
<1>2. CASE Ends
  <2>1. Fresh'
    BY <1>2 DEF Ends, Fresh
  <2>2. FreshInv'
    BY FreshInv, PTL
  <2> QED BY <2>1, <2>2
<1>3. CASE ~Ends /\ \E u \in Threads : Asks(u) \/ Serves(u)
  BY <1>3, ThreadStepKeeps
<1>4. CASE UNCHANGED vars
  <2>1. UNCHANGED <<fdTable, available, missing, handle, thread>>
    BY <1>4 DEF vars
  <2> QED BY <2>1, StutterKeeps
<1> QED BY <1>1, <1>2, <1>3, <1>4 DEF Next, InitThrows, Unmount

LEMMA InvImpliesExact ==
  ASSUME IsFiniteSet(Handles), NEW t, Threads = {t}, IInv(t)
  PROVE  DescriptorsExact
<1>1. fdTable \in Seq(Nat) /\ available \in Seq(Nat)
  BY DEF IInv, Typed
<1>2. \A h \in OpenHandles : h \in Handles /\ HasIndex(t, h) /\ handle[h].fh \in Nat
  BY DEF OpenHandles, HasIndex, IInv, Typed, HandleRecords
<1>3. DescriptorsUnused
  <2>1. ASSUME NEW h \in OpenHandles, NEW k \in DOMAIN available
        PROVE  available[k] # handle[h].fh
    <3>1. handle[h].fh + 1 \in DOMAIN fdTable /\ fdTable[handle[h].fh + 1] # NoFile
      BY <1>2 DEF IInv, TableExact
    <3>2. handle[h].fh + 1 - 1 = handle[h].fh
      BY <1>2
    <3> QED BY <3>1, <3>2 DEF IInv, ListExact
  <2>2. \A g, h \in OpenHandles : g # h => handle[g].fh # handle[h].fh
    BY <1>2 DEF IInv, TableExact
  <2> QED BY <2>1, <2>2 DEF DescriptorsUnused
<1>4. \A h \in OpenHandles : fdTable[handle[h].fh + 1] = handle[h].inode
  BY <1>2 DEF IInv, TableExact
<1>5. ASSUME thread[t].pc = "idle"
      PROVE  /\ ToSet(available) = {i - 1 : i \in {j \in DOMAIN fdTable : fdTable[j] = NoFile}}
             /\ IsInjective(available)
             /\ Len(fdTable) - Len(available) = Cardinality(OpenHandles)
  <2>1. ~InTransit(t) /\ ~Releasing(t)
    BY <1>5 DEF InTransit, Releasing, Doing
  <2>2. Len(fdTable) - Len(available) = Cardinality(OpenHandles)
    BY <2>1, OpenHandlesFinite DEF IInv, Counted
  <2>3. IsInjective(available)
    BY DEF IInv, ListExact, IsInjective
  <2>4. ToSet(available) \subseteq {i - 1 : i \in {j \in DOMAIN fdTable : fdTable[j] = NoFile}}
    <3> SUFFICES ASSUME NEW k \in DOMAIN available
                 PROVE  \E j \in DOMAIN fdTable : fdTable[j] = NoFile /\ available[k] = j - 1
      BY DEF ToSet
    <3>1. available[k] \in 0..Len(fdTable)-1
      BY DEF IInv, ListExact
    <3>2. available[k] + 1 \in DOMAIN fdTable /\ available[k] = available[k] + 1 - 1
      BY <1>1, <3>1
    <3> QED BY <3>2 DEF IInv, ListExact
  <2>5. {i - 1 : i \in {j \in DOMAIN fdTable : fdTable[j] = NoFile}} \subseteq ToSet(available)
    BY <2>1 DEF IInv, ListExact, ToSet
  <2> QED BY <2>2, <2>3, <2>4, <2>5
<1>6. missing = 0
  BY DEF IInv, Typed
<1> QED BY <1>3, <1>4, <1>5, <1>6 DEF DescriptorsExact

(* pascal_open() and pascal_release(), run by one session thread: over any *)
(* sequence of opens, reads and releases, of any number of files, an open  *)
(* file's index leads to its own file, the list holds the free indexes,    *)
(* each once, none is lost, and the list is never empty when one is taken. *)
THEOREM DescriptorsStayExact ==
  ASSUME NEW CONSTANT t, Threads = {t}, IsFiniteSet(Handles)
  PROVE  Spec => []DescriptorsExact
<1>1. Init => IInv(t)
  BY FreshInv DEF Init, Fresh
<1>2. IInv(t) /\ [Next]_vars => IInv(t)'
  BY NextKeeps
<1>3. IInv(t) => DescriptorsExact
  BY InvImpliesExact
<1> QED BY <1>1, <1>2, <1>3, PTL DEF Spec

-----------------------------------------------------------------------------
(* What any number of threads keep: the files, and the listing.            *)

Full == <<".", "..">> \o [i \in DOMAIN Entries |-> Entries[i].name]
Built == [i \in DOMAIN Loaded |-> Indexed(Content, Loaded[i])]

(* pascal_init() builds the page sizes, and nobody touches them after.     *)
FilesOK == files = IF running THEN Built ELSE Loaded

LEMMA EntriesSeq ==
  /\ Len(Entries) \in Nat /\ DOMAIN Entries = 1..Len(Entries)
  /\ \A i \in DOMAIN Entries : Entries[i].name \in STRING
  /\ \A i \in DOMAIN Entries :
       Entries[i] \in [name : STRING, kind : STRING,
                       first : Nat, last : Nat, lastByte : 0..BlockSize]
<1> DEFINE R == [name : STRING, kind : STRING, first : Nat, last : Nat, lastByte : 0..BlockSize]
<1>1. Entries \in Seq(R)
  BY FusePascalAssumption
<1>2. \A r \in R : r.name \in STRING
  OBVIOUS
<1> HIDE DEF R
<1>3. Len(Entries) \in Nat /\ DOMAIN Entries = 1..Len(Entries)
  BY <1>1
<1>4. \A i \in DOMAIN Entries : Entries[i] \in R
  BY <1>1
<1>5. \A i \in DOMAIN Entries : Entries[i].name \in STRING
  BY <1>2, <1>4
<1> QED BY <1>3, <1>4, <1>5 DEF R

LEMMA NamesKept ==
  ASSUME NEW i \in DOMAIN Entries
  PROVE  Loaded[i].name = Entries[i].name /\ Built[i].name = Entries[i].name
<1> DEFINE f == Loaded[i]
           e == Entries[i]
<1>1. e \in [name : STRING, kind : STRING, first : Nat, last : Nat, lastByte : 0..BlockSize]
  BY EntriesSeq
<1>2. f = [name |-> e.name, kind |-> e.kind, first |-> e.first, last |-> e.last,
           lastByte |-> e.lastByte, pages |-> <<>>, indexed |-> FALSE]
  BY DEF Loaded
<1>3. Built[i] = Indexed(Content, f)
  BY DEF Built, Loaded
<1> HIDE DEF f
<1>4. Indexed(Content, f).name = f.name
  BY <1>2 DEF Indexed, TextInit
<1> QED BY <1>2, <1>3, <1>4 DEF f

LEMMA ListingIs ==
  ASSUME FilesOK
  PROVE  Listing = Full /\ DOMAIN files = DOMAIN Entries
<1>1. DOMAIN files = DOMAIN Entries
  BY DEF FilesOK, Built, Loaded
<1>2. \A i \in DOMAIN Entries : files[i].name = Entries[i].name
  BY NamesKept DEF FilesOK
<1> QED BY <1>1, <1>2 DEF Listing, Full

Called == {Entries[k].name : k \in DOMAIN Entries} \union {".", ".."}

LEMMA FullSeq ==
  /\ Full \in Seq(Called) /\ Len(Full) = Len(Entries) + 2
  /\ \A i \in 1..Len(Full) : Full[i] \in DOMAIN EntrySize /\ EntrySize[Full[i]] \in Nat \ {0}
<1> DEFINE dots == <<".", "..">>
           names == [i \in DOMAIN Entries |-> Entries[i].name]
<1>1. dots \in Seq(Called) /\ Len(dots) = 2 /\ dots[1] = "." /\ dots[2] = ".."
  <2>1. "." \in Called /\ ".." \in Called
    BY DEF Called
  <2>2. dots \in Seq(Called)
    BY <2>1
  <2>3. Len(dots) = 2
    OBVIOUS
  <2> QED BY <2>2, <2>3
<1>2. names \in Seq(Called) /\ Len(names) = Len(Entries)
      /\ \A i \in 1..Len(Entries) : names[i] = Entries[i].name
  <2>1. names \in [1..Len(Entries) -> Called] /\ Len(Entries) \in Nat
    <3>1. \A i \in DOMAIN Entries : Entries[i].name \in Called
      BY DEF Called
    <3> QED BY <3>1, EntriesSeq
  <2>2. \A i \in 1..Len(Entries) : names[i] = Entries[i].name
    BY EntriesSeq
  <2> HIDE DEF names
  <2>3. names \in Seq(Called)
    BY <2>1, SeqDef
  <2> QED BY <2>1, <2>2, <2>3, LenProperties
<1> HIDE DEF dots, names
<1>3. Full = dots \o names
  BY DEF Full, dots, names
<1>4. /\ Full \in Seq(Called) /\ Len(Full) = Len(Entries) + 2
      /\ \A i \in 1..Len(Full) : Full[i] = IF i <= 2 THEN dots[i] ELSE names[i - 2]
  <2>1. /\ dots \o names \in Seq(Called)
        /\ Len(dots \o names) = Len(dots) + Len(names)
        /\ \A i \in 1..Len(dots) + Len(names) :
             (dots \o names)[i] = IF i <= Len(dots) THEN dots[i] ELSE names[i - Len(dots)]
    <3>1. dots \in Seq(Called) /\ names \in Seq(Called)
      BY <1>1, <1>2
    <3> QED BY ONLY <3>1, ConcatProperties
  <2>2. Len(dots) + Len(names) = Len(Entries) + 2
    BY <1>1, <1>2, EntriesSeq
  <2> QED BY <1>1, <1>3, <2>1, <2>2
<1>5. ASSUME NEW i \in 1..Len(Full)
      PROVE  Full[i] \in {Entries[k].name : k \in DOMAIN Entries} \union {".", ".."}
  <2>1. CASE i <= 2
    <3>1. i = 1 \/ i = 2
      BY <1>4, <2>1, EntriesSeq
    <3> QED BY <1>1, <1>4, <2>1, <3>1
  <2>2. CASE i > 2
    <3>1. i - 2 \in 1..Len(Entries) /\ i - 2 \in DOMAIN Entries
      BY <1>4, <2>2, EntriesSeq
    <3>2. Full[i] = Entries[i - 2].name
      BY <1>2, <1>4, <2>2, <3>1
    <3> QED BY <3>1, <3>2
  <2> QED BY <1>4, <2>1, <2>2, EntriesSeq
<1> QED BY <1>4, <1>5, FusePascalAssumption

(* A listing that has entries left gives one at least.                     *)
LEMMA FittingIs ==
  ASSUME FilesOK, NEW o \in 0..Len(Full), NEW size \in Sizes \ {0}
  PROVE  /\ Fitting(o, size) \in 0..Len(Full) - o
         /\ o < Len(Full) => Fitting(o, size) # 0
<1> DEFINE m == Len(Full) - o
           Turn(h) == [n \in 0..m |-> IF n = 0 THEN 0
                                      ELSE h[n - 1] + EntrySize[Full[o + n]]]
           needs == CHOOSE h : h = Turn(h)
           S == {n \in DOMAIN needs : needs[n] <= size}
<1>1. m \in Nat /\ size \in Nat
  BY FullSeq, EntriesSeq, FusePascalAssumption
<1>2. \A n \in 1..m : /\ EntrySize[Full[o + n]] \in Nat \ {0}
                      /\ size >= EntrySize[Full[o + n]]
  <2> SUFFICES ASSUME NEW n \in 1..m
               PROVE  /\ EntrySize[Full[o + n]] \in Nat \ {0}
                      /\ size >= EntrySize[Full[o + n]]
    OBVIOUS
  <2>1. o + n \in 1..Len(Full)
    BY FullSeq, EntriesSeq
  <2>2. Full[o + n] \in DOMAIN EntrySize /\ EntrySize[Full[o + n]] \in Nat \ {0}
    BY <2>1, FullSeq
  <2> QED BY <2>2, FusePascalAssumption
<1>3. \E h : h = Turn(h)
  <2> DEFINE add == [p \in (1..m) \X Nat |-> p[2] + EntrySize[Full[o + p[1]]]]
  <2>1. add \in [(1..m) \X Nat -> Nat]
    <3>1. ASSUME NEW p \in (1..m) \X Nat PROVE p[2] + EntrySize[Full[o + p[1]]] \in Nat
      <4>1. p[1] \in 1..m /\ p[2] \in Nat
        OBVIOUS
      <4> HIDE DEF m
      <4>2. EntrySize[Full[o + p[1]]] \in Nat
        BY <1>2, <4>1
      <4> QED BY <4>1, <4>2
    <3> HIDE DEF m
    <3> QED BY <3>1
  <2>2. \A n \in 1..m, k \in Nat : add[<<n, k>>] = k + EntrySize[Full[o + n]]
    OBVIOUS
  <2> HIDE DEF add, m
  <2>3. PICK h : Recurs(h, Nat, 0, m, add)
    BY <1>1, <2>1, Recursion
  <2>4. \A n \in 0..m : h[n] = IF n = 0 THEN 0 ELSE h[n - 1] + EntrySize[Full[o + n]]
    <3> SUFFICES ASSUME NEW n \in 0..m, n # 0
                 PROVE  h[n] = h[n - 1] + EntrySize[Full[o + n]]
      BY <2>3 DEF Recurs
    <3>1. n \in 1..m /\ n - 1 \in 0..m
      BY <1>1
    <3>2. h[n - 1] \in Nat
      BY <2>3, <3>1 DEF Recurs
    <3> QED BY <2>2, <2>3, <3>1, <3>2 DEF Recurs
  <2>5. h = [n \in 0..m |-> h[n]]
    BY <2>3 DEF Recurs
  <2>6. h = Turn(h)
    BY <2>4, <2>5
  <2> QED BY <2>6
<1>4. needs = Turn(needs)
  BY <1>3, Zenon
<1>5. Fitting(o, size) = Max(S)
  BY ListingIs DEF Fitting
<1> HIDE DEF needs
<1>6. /\ DOMAIN needs = 0..m /\ needs[0] = 0
      /\ m >= 1 => needs[1] = needs[0] + EntrySize[Full[o + 1]]
  <2>1. DOMAIN needs = 0..m
    BY <1>4
  <2>2. \A n \in 0..m : needs[n] = IF n = 0 THEN 0 ELSE needs[n - 1] + EntrySize[Full[o + n]]
    BY <1>4
  <2>3. 0 \in 0..m /\ (m >= 1 => 1 \in 0..m)
    BY <1>1
  <2> HIDE DEF m
  <2>4. needs[0] = 0
    BY <2>2, <2>3
  <2>5. m >= 1 => needs[1] = needs[1 - 1] + EntrySize[Full[o + 1]]
    BY <2>2, <2>3
  <2> QED BY <2>1, <2>4, <2>5
<1>7. S \subseteq 0..m /\ 0 \in S /\ (m >= 1 => 1 \in S)
  <2>1. m >= 1 => needs[1] <= size
    <3> SUFFICES ASSUME m >= 1 PROVE needs[1] <= size
      OBVIOUS
    <3>1. 1 \in 1..m
      BY <1>1
    <3>2. EntrySize[Full[o + 1]] \in Nat /\ size >= EntrySize[Full[o + 1]]
      BY <1>2, <3>1
    <3>3. needs[1] = EntrySize[Full[o + 1]]
      BY <1>6, <3>2
    <3> QED BY <1>1, <3>2, <3>3
  <2> HIDE DEF m
  <2> QED BY <1>1, <1>6, <2>1
<1> HIDE DEF S, m
<1>8. Max(S) \in S /\ \A y \in S : Max(S) >= y
  BY <1>1, <1>7, MaxIs
<1>9. Max(S) \in 0..m /\ (m >= 1 => Max(S) # 0)
  <2>1. PICK x : x = Max(S)
    OBVIOUS
  <2>2. x \in S /\ x \in 0..m /\ \A y \in S : x >= y
    BY <1>7, <1>8, <2>1
  <2>3. m >= 1 => x >= 1
    BY <1>7, <2>2
  <2> QED BY <1>1, <2>1, <2>2, <2>3
<1> QED BY <1>1, <1>5, <1>9, FullSeq, EntriesSeq DEF m

LEMMA ReaddirIs ==
  ASSUME FilesOK, NEW o \in 0..Len(Full), NEW size \in Sizes \ {0}
  PROVE  LET a == Readdir(o, size) IN
         /\ a.next \in o..Len(Full)
         /\ a.names = SubSeq(Full, o + 1, a.next)
         /\ a.names = <<>> => a.next = Len(Full)
<1> DEFINE n == Fitting(o, size)
<1>1. n \in 0..Len(Full) - o /\ (o < Len(Full) => n # 0) /\ Len(Full) \in Nat
  BY FittingIs, FullSeq, EntriesSeq
<1>2. /\ Readdir(o, size).names = SubSeq(Full, o + 1, o + n)
      /\ Readdir(o, size).next = o + n
  BY ListingIs DEF Readdir
<1> HIDE DEF n
<1>3. o + n \in o..Len(Full)
  BY <1>1
<1>4. ASSUME SubSeq(Full, o + 1, o + n) = <<>> PROVE o + n = Len(Full)
  <2>1. Len(SubSeq(Full, o + 1, o + n)) = (o + n) - (o + 1) + 1
    <3>1. o + 1 \in 1..Len(Full) + 1 /\ o + n \in (o + 1) - 1 .. Len(Full)
      BY <1>1
    <3> QED BY <3>1, FullSeq, SubSeqFacts
  <2>2. Len(SubSeq(Full, o + 1, o + n)) = 0
    <3>1. Len(<<>>) = 0
      OBVIOUS
    <3> QED BY <1>4, <3>1, Zenon
  <2> QED BY <1>1, <2>1, <2>2
<1> QED BY <1>2, <1>3, <1>4

(* A thread's request about the directory, or about an open file.          *)
OnDirectory(t) ==
  thread[t].pc # "idle" /\ thread[t].request.op \in {"opendir", "readdir", "releasedir"}
On(t, h) ==
  /\ thread[t].pc # "idle" /\ thread[t].request.op \in {"open", "release"}
  /\ thread[t].request.handle = h

AllTyped == \A t \in Threads : ThreadTyped(t)

(* What was listed is the listing up to the offset, which the one request  *)
(* under way asks for.                                                     *)
StreamOK ==
  /\ stream \in [open : BOOLEAN, offset : 0..Len(Full), seen : Seq(Called), done : BOOLEAN]
  /\ stream.seen = SubSeq(Full, 1, stream.offset)
  /\ stream.done => stream.offset = Len(Full)
  /\ \A t \in Threads : OnDirectory(t) =>
       /\ thread[t].pc = "todo"
       /\ thread[t].request.op = "readdir" =>
            thread[t].request.offset = stream.offset /\ thread[t].request.size \in Sizes \ {0}
  /\ \A t, u \in Threads : OnDirectory(t) /\ OnDirectory(u) => t = u

Directory == running \in BOOLEAN /\ AllTyped /\ FilesOK /\ StreamOK

(* What a step of t leaves of the threads.                                 *)
OnlyOf(t) == \A u \in Threads \ {t} : thread'[u] = thread[u]

LEMMA TypedAgain ==
  ASSUME AllTyped, NEW t \in Threads, OnlyOf(t), ThreadTyped(t)'
  PROVE  AllTyped'
<1> SUFFICES ASSUME NEW u \in Threads PROVE ThreadTyped(u)'
  BY DEF AllTyped
<1>1. CASE u = t
  BY <1>1
<1>2. CASE u # t
  <2>1. ThreadTyped(u) /\ thread'[u] = thread[u]
    BY <1>2 DEF AllTyped, OnlyOf
  <2>2. DOMAIN thread' = Threads
    BY DEF ThreadTyped
  <2> QED BY <2>1, <2>2 DEF ThreadTyped
<1> QED BY <1>1, <1>2

LEMMA SendIs ==
  ASSUME AllTyped, NEW t \in Threads, NEW q, Send(t, q)
  PROVE  /\ AllTyped' /\ OnlyOf(t) /\ running
         /\ thread[t].pc = "idle" /\ thread'[t].pc = "todo" /\ thread'[t].request = q
<1>1. thread' = [thread EXCEPT ![t] = [Idle EXCEPT !.pc = "todo", !.request = q]]
      /\ running /\ thread[t].pc = "idle"
  BY DEF Send
<1>2. DOMAIN thread = Threads
  BY DEF AllTyped, ThreadTyped
<1>3. DOMAIN thread' = Threads /\ OnlyOf(t)
      /\ thread'[t] = [pc |-> "todo", request |-> q, index |-> 0, reply |-> NoRequest]
  BY <1>1, <1>2 DEF OnlyOf, Idle
<1>4. AllTyped'
  <2>1. ThreadTyped(t)'
    BY <1>3 DEF ThreadTyped
  <2> QED BY <1>3, <2>1, TypedAgain
<1> QED BY <1>1, <1>3, <1>4

LEMMA ReplyIs ==
  ASSUME AllTyped, NEW t \in Threads, NEW a, Reply(t, a)
  PROVE  /\ AllTyped' /\ OnlyOf(t) /\ thread'[t].pc = "idle"
<1>1. thread' = [thread EXCEPT ![t].pc = "idle", ![t].reply = a]
  BY DEF Reply
<1>2. DOMAIN thread = Threads
      /\ thread[t] = [pc |-> thread[t].pc, request |-> thread[t].request,
                      index |-> thread[t].index, reply |-> thread[t].reply]
  BY DEF AllTyped, ThreadTyped
<1>3. DOMAIN thread' = Threads /\ OnlyOf(t)
      /\ thread'[t] = [pc |-> "idle", request |-> thread[t].request,
                       index |-> thread[t].index, reply |-> a]
  BY <1>1, <1>2 DEF OnlyOf
<1>4. AllTyped'
  <2>1. ThreadTyped(t)'
    BY <1>3 DEF ThreadTyped
  <2> QED BY <1>3, <2>1, TypedAgain
<1> QED BY <1>3, <1>4

LEMMA GoesIs ==
  ASSUME AllTyped, NEW t \in Threads, NEW i, NEW pc \in {"pop", "store", "push", "free"},
         Goes(t, pc, i)
  PROVE  /\ AllTyped' /\ OnlyOf(t) /\ thread'[t].pc = pc /\ thread'[t].index = i
         /\ thread'[t].request = thread[t].request
<1>1. thread' = [thread EXCEPT ![t].pc = pc, ![t].index = i]
  BY DEF Goes
<1>2. DOMAIN thread = Threads
      /\ thread[t] = [pc |-> thread[t].pc, request |-> thread[t].request,
                      index |-> thread[t].index, reply |-> thread[t].reply]
  BY DEF AllTyped, ThreadTyped
<1>3. DOMAIN thread' = Threads /\ OnlyOf(t)
      /\ thread'[t] = [pc |-> pc, request |-> thread[t].request,
                       index |-> i, reply |-> thread[t].reply]
  BY <1>1, <1>2 DEF OnlyOf
<1>4. AllTyped'
  <2>1. ThreadTyped(t)'
    BY <1>3 DEF ThreadTyped
  <2> QED BY <1>3, <2>1, TypedAgain
<1> QED BY <1>3, <1>4

(* A step of t that is not about the directory leaves the listing alone.   *)
LEMMA StreamKept ==
  ASSUME StreamOK, NEW t \in Threads, OnlyOf(t), UNCHANGED stream,
         ~OnDirectory(t)'
  PROVE  StreamOK'
<1>1. \A u \in Threads : OnDirectory(u)' => OnDirectory(u) /\ thread'[u] = thread[u]
  BY DEF OnlyOf, OnDirectory
<1> QED BY <1>1 DEF StreamOK, Full, Called

LEMMA NoStreamIs ==
  /\ NoStream \in [open : BOOLEAN, offset : 0..Len(Full), seen : Seq(Called), done : BOOLEAN]
  /\ NoStream.seen = SubSeq(Full, 1, NoStream.offset) /\ ~NoStream.done
  /\ NoStream.offset = 0
<1>1. Len(Full) \in Nat /\ Full \in Seq(Called)
  BY FullSeq, EntriesSeq
<1>2. SubSeq(Full, 1, 0) \in Seq(Called) /\ Len(SubSeq(Full, 1, 0)) = 0
  BY <1>1, SubSeqFacts
<1>3. SubSeq(Full, 1, 0) = <<>>
  BY <1>2, EmptySeq
<1>4. <<>> \in Seq(Called) /\ 0 \in 0..Len(Full)
  BY <1>1
<1> QED BY <1>3, <1>4 DEF NoStream

(* The listing before the session has begun, or after it has ended.        *)
LEMMA StreamFresh ==
  ASSUME stream = NoStream, \A t \in Threads : ~OnDirectory(t)
  PROVE  StreamOK
BY NoStreamIs DEF StreamOK

LEMMA AskDirectoryKeeps ==
  ASSUME AllTyped, StreamOK, NEW t \in Threads, AskDirectory(t)
  PROVE  AllTyped' /\ StreamOK'
<1>1. PICK q : /\ Send(t, q)
               /\ q.op = "readdir" => q.offset = stream.offset /\ q.size \in Sizes \ {0}
  <2>1. CASE \E i \in Inodes : Send(t, [op |-> "opendir", inode |-> i])
    BY <2>1
  <2>2. CASE \E s \in Sizes \ {0} :
               Send(t, [op |-> "readdir", size |-> s, offset |-> stream.offset])
    BY <2>2
  <2>3. CASE Send(t, [op |-> "releasedir"])
    BY <2>3
  <2> QED BY <2>1, <2>2, <2>3 DEF AskDirectory
<1>2. AllTyped' /\ OnlyOf(t) /\ thread'[t].pc = "todo" /\ thread'[t].request = q
      /\ thread[t].pc = "idle"
  BY <1>1, SendIs
<1>3. \A u \in Threads : ~OnDirectory(u)
  BY DEF AskDirectory, StreamOK, OnDirectory
<1>4. \A u \in Threads : OnDirectory(u)' => u = t
  BY <1>2, <1>3 DEF OnlyOf, OnDirectory
<1>5. stream' = stream
  BY DEF AskDirectory
<1> QED BY <1>1, <1>2, <1>4, <1>5 DEF StreamOK, Full, Called

(* A thread that answers about the directory is the only one about it.     *)
LEMMA Answered ==
  ASSUME AllTyped, StreamOK, NEW t \in Threads, OnDirectory(t), NEW a, Reply(t, a)
  PROVE  AllTyped' /\ OnlyOf(t) /\ \A u \in Threads : ~OnDirectory(u)'
<1>1. AllTyped' /\ OnlyOf(t) /\ thread'[t].pc = "idle"
  BY ReplyIs
<1>2. \A u \in Threads : OnDirectory(u) => u = t
  BY DEF StreamOK
<1> QED BY <1>1, <1>2 DEF OnlyOf, OnDirectory

LEMMA OpendirKeeps ==
  ASSUME AllTyped, StreamOK, NEW t \in Threads, Opendir(t)
  PROVE  AllTyped' /\ StreamOK'
<1>1. OnDirectory(t)
  BY DEF Opendir, Doing, OnDirectory
<1>2. PICK a : Reply(t, a)
  BY DEF Opendir
<1>3. AllTyped' /\ \A u \in Threads : ~OnDirectory(u)'
  BY <1>1, <1>2, Answered
<1>4. stream' = stream \/ stream' = [NoStream EXCEPT !.open = TRUE]
  BY DEF Opendir
<1>5. CASE stream' = stream
  BY <1>3, <1>5 DEF StreamOK, Full, Called
<1>6. CASE stream' = [NoStream EXCEPT !.open = TRUE]
  <2>1. /\ stream'.seen = NoStream.seen /\ stream'.offset = NoStream.offset
        /\ stream'.done = NoStream.done
        /\ stream' \in [open : BOOLEAN, offset : 0..Len(Full), seen : Seq(Called), done : BOOLEAN]
    BY <1>6, NoStreamIs DEF NoStream
  <2> QED BY <1>3, <2>1, NoStreamIs DEF StreamOK, Full, Called
<1> QED BY <1>3, <1>4, <1>5, <1>6

LEMMA ReleasedirKeeps ==
  ASSUME AllTyped, StreamOK, NEW t \in Threads, Releasedir(t)
  PROVE  AllTyped' /\ StreamOK'
<1>1. OnDirectory(t)
  BY DEF Releasedir, Doing, OnDirectory
<1>2. PICK a : Reply(t, a)
  BY DEF Releasedir
<1>3. AllTyped' /\ \A u \in Threads : ~OnDirectory(u)'
  BY <1>1, <1>2, Answered
<1>4. stream' = NoStream
  BY DEF Releasedir
<1> QED BY <1>3, <1>4, NoStreamIs DEF StreamOK, Full, Called, NoStream

(* What a readdir returns goes on where the listing stopped.               *)
LEMMA ReaddirKeeps ==
  ASSUME AllTyped, StreamOK, FilesOK, NEW t \in Threads, ReaddirAnswers(t)
  PROVE  AllTyped' /\ StreamOK'
<1> DEFINE a == Readdir(thread[t].request.offset, thread[t].request.size)
           o == stream.offset
           k == a.next
<1>1. OnDirectory(t) /\ Reply(t, a)
  BY DEF ReaddirAnswers, Doing, OnDirectory
<1>2. AllTyped' /\ \A u \in Threads : ~OnDirectory(u)'
  BY <1>1, Answered
<1>3. thread[t].request.offset = o /\ thread[t].request.size \in Sizes \ {0}
  BY <1>1 DEF StreamOK, ReaddirAnswers, Doing
<1>4. o \in 0..Len(Full) /\ Full \in Seq(Called) /\ Len(Full) \in Nat
  BY FullSeq, EntriesSeq DEF StreamOK
<1>5. /\ k \in o..Len(Full) /\ a.names = SubSeq(Full, o + 1, k)
      /\ a.names = <<>> => k = Len(Full)
  BY <1>3, <1>4, ReaddirIs
<1>6. stream' = [open |-> stream.open, offset |-> k, seen |-> stream.seen \o a.names,
                 done |-> a.names = <<>>]
  BY DEF ReaddirAnswers, StreamOK
<1> HIDE DEF a, k
<1>7. SubSeq(Full, 1, o) \o SubSeq(Full, o + 1, k) = SubSeq(Full, 1, k)
  <2>1. 1 \in 1..Len(Full) + 1 /\ o \in 1 - 1 .. Len(Full) /\ k \in o..Len(Full)
    BY <1>4, <1>5
  <2> HIDE DEF o
  <2> QED BY <1>4, <2>1, ConcatAdjacentSubSeq
<1>8. SubSeq(Full, 1, k) \in Seq(Called)
  <2>1. 1 \in 1..Len(Full) + 1 /\ k \in 1 - 1 .. Len(Full)
    BY <1>4, <1>5
  <2> QED BY <1>4, <2>1, SubSeqFacts
<1>9. stream.seen = SubSeq(Full, 1, o) /\ stream.open \in BOOLEAN
  BY DEF StreamOK
<1>10. /\ stream'.seen = SubSeq(Full, 1, k) /\ stream'.offset = k
       /\ stream'.done => k = Len(Full)
       /\ stream' \in [open : BOOLEAN, offset : 0..Len(Full), seen : Seq(Called), done : BOOLEAN]
  <2>1. k \in 0..Len(Full)
    BY <1>4, <1>5
  <2>2. stream.seen \o a.names = SubSeq(Full, 1, k)
    BY <1>5, <1>7, <1>9
  <2>3. (a.names = <<>>) \in BOOLEAN
    OBVIOUS
  <2> QED BY <1>5, <1>6, <1>8, <1>9, <2>1, <2>2, <2>3
<1> QED BY <1>2, <1>10 DEF StreamOK, Full, Called

LEMMA OthersKeep ==
  ASSUME AllTyped, StreamOK, NEW t \in Threads,
         \/ AskStateless(t) \/ \E h \in Handles : AskOpen(t, h) \/ AskRead(t, h) \/ AskRelease(t, h)
         \/ Stateless(t) \/ OpenRefused(t) \/ OpenBack(t) \/ OpenPop(t) \/ OpenStore(t)
         \/ OpenSize(t) \/ OpenPush(t) \/ ReleaseReset(t) \/ ReleaseFree(t)
         \/ ReadAnswers(t) \/ ReadThrows(t),
         ~Ends
  PROVE  AllTyped' /\ StreamOK'
<1>1. stream' = stream
  BY DEF AskStateless, AskOpen, AskRead, AskRelease, Stateless, OpenRefused, OpenBack, OpenPop,
         OpenStore, OpenSize, OpenPush, ReleaseReset, ReleaseFree, ReadAnswers, ReadThrows
<1>2. ASSUME NEW q, Send(t, q), q.op \notin {"opendir", "readdir", "releasedir"}
      PROVE  AllTyped' /\ StreamOK'
  <2>1. AllTyped' /\ OnlyOf(t) /\ thread'[t].request = q
    BY <1>2, SendIs
  <2>2. ~OnDirectory(t)'
    BY <1>2, <2>1 DEF OnDirectory
  <2> QED BY <1>1, <2>1, <2>2, StreamKept
<1>3. ASSUME NEW a, Reply(t, a)
      PROVE  AllTyped' /\ StreamOK'
  <2>1. AllTyped' /\ OnlyOf(t) /\ thread'[t].pc = "idle"
    BY <1>3, ReplyIs
  <2> QED BY <1>1, <2>1, StreamKept DEF OnDirectory
<1>4. ASSUME NEW pc \in {"pop", "store", "push", "free"}, NEW i, Goes(t, pc, i), ~OnDirectory(t),
             thread[t].pc # "idle"
      PROVE  AllTyped' /\ StreamOK'
  <2>1. AllTyped' /\ OnlyOf(t) /\ thread'[t].request = thread[t].request
    BY <1>4, GoesIs
  <2>2. ~OnDirectory(t)'
    BY <1>4, <2>1 DEF OnDirectory
  <2> QED BY <1>1, <2>1, <2>2, StreamKept
<1>5. CASE AskStateless(t)
  BY <1>2, <1>5 DEF AskStateless
<1>6. CASE \E h \in Handles : AskOpen(t, h) \/ AskRead(t, h) \/ AskRelease(t, h)
  BY <1>2, <1>6 DEF AskOpen, AskRead, AskRelease
<1>7. CASE \/ Stateless(t) \/ OpenRefused(t) \/ OpenStore(t) \/ OpenPush(t)
           \/ ReleaseFree(t) \/ ReadAnswers(t) \/ ReadThrows(t)
  BY <1>3, <1>7 DEF Stateless, OpenRefused, OpenStore, OpenPush, Opened, ReleaseFree,
                    ReadAnswers, ReadThrows
<1>8. CASE OpenBack(t) \/ OpenPop(t) \/ OpenSize(t) \/ ReleaseReset(t)
  <2>1. ~OnDirectory(t) /\ thread[t].pc # "idle"
    BY <1>8 DEF OpenBack, OpenPop, OpenSize, OpenAccepted, ReleaseReset, Doing, OnDirectory,
                StreamOK
  <2> QED BY <1>4, <1>8, <2>1, SMTT(30) DEF OpenBack, OpenPop, OpenSize, ReleaseReset
<1> QED BY <1>5, <1>6, <1>7, <1>8

LEMMA FilesKept ==
  ASSUME FilesOK, NEW t \in Threads, Asks(t) \/ Serves(t), ~Ends
  PROVE  FilesOK' /\ running' = running
<1>1. running' = running /\ files' = files
  BY DEF Asks, Serves, AskStateless, AskOpen, AskRead, AskRelease, AskDirectory, Stateless,
         Opendir, ReaddirAnswers, Releasedir, OpenRefused, OpenBack, OpenPop, OpenStore,
         OpenSize, OpenPush, ReleaseReset, ReleaseFree, ReadAnswers, ReadThrows
<1> QED BY <1>1, SMTT(30) DEF FilesOK, Built, Loaded

LEMMA AllIdle ==
  ASSUME thread = [t \in Threads |-> Idle]
  PROVE  AllTyped /\ \A t \in Threads : thread[t].pc = "idle"
<1>1. \A t \in Threads : thread[t] = Idle
  OBVIOUS
<1> QED BY <1>1 DEF AllTyped, ThreadTyped, Idle

LEMMA DirectoryKept ==
  ASSUME Directory, [Next]_vars
  PROVE  Directory'
<1>1. CASE PascalInit
  <2>1. AllTyped' /\ StreamOK' /\ running' \in BOOLEAN
    BY <1>1 DEF PascalInit, Directory, AllTyped, ThreadTyped, StreamOK, OnDirectory, Full, Called
  <2>2. FilesOK'
    BY <1>1 DEF PascalInit, Directory, FilesOK, Built, Loaded
  <2> QED BY <2>1, <2>2 DEF Directory
<1>2. CASE Ends
  <2>1. AllTyped' /\ \A t \in Threads : (thread[t].pc = "idle")'
    <3>1. thread' = [t \in Threads |-> Idle]
      BY <1>2 DEF Ends
    <3>2. \A t \in Threads : thread'[t] = Idle
      BY <3>1
    <3> QED BY <3>1, <3>2 DEF AllTyped, ThreadTyped, Idle
  <2>2. StreamOK'
    <3>1. stream' = NoStream /\ \A t \in Threads : ~OnDirectory(t)'
      BY <1>2, <2>1 DEF Ends, OnDirectory
    <3> QED BY <3>1, NoStreamIs DEF StreamOK, Full, Called, NoStream
  <2>3. FilesOK' /\ running' \in BOOLEAN
    BY <1>2 DEF Ends, FilesOK, Built, Loaded
  <2> QED BY <2>1, <2>2, <2>3 DEF Directory
<1>3. CASE ~Ends /\ \E t \in Threads : Asks(t) \/ Serves(t)
  BY <1>3, FilesKept, OthersKeep, AskDirectoryKeeps, OpendirKeeps, ReaddirKeeps, ReleasedirKeeps
     DEF Directory, Asks, Serves
<1>4. CASE UNCHANGED vars
  BY <1>4 DEF vars, Directory, AllTyped, ThreadTyped, StreamOK, OnDirectory, FilesOK, Built,
              Loaded, Full, Called
<1> QED BY <1>1, <1>2, <1>3, <1>4 DEF Next, InitThrows, Unmount

LEMMA DirectoryBegins == Init => Directory
<1> SUFFICES ASSUME Init PROVE Directory
  OBVIOUS
<1>1. AllTyped /\ \A t \in Threads : thread[t].pc = "idle"
  BY AllIdle DEF Init
<1>2. StreamOK
  BY <1>1, StreamFresh DEF Init, OnDirectory
<1> QED BY <1>1, <1>2 DEF Init, Directory, FilesOK

(* pascal_readdir(): whatever sizes the kernel's buffers have, and however *)
(* many threads the session runs, a reader of the directory who goes on to *)
(* the empty answer has had ".", ".." and every file, once and in order.   *)
THEOREM ListingStaysComplete == Spec => []ListingComplete
<1>1. Directory => ListingComplete
  <2> SUFFICES ASSUME Directory, stream.done PROVE stream.seen = Full
    BY DEF ListingComplete, Full
  <2>1. stream.seen = SubSeq(Full, 1, Len(Full))
    BY DEF Directory, StreamOK
  <2> QED BY <2>1, FullSeq, SubSeqFull
<1> QED BY <1>1, DirectoryBegins, DirectoryKept, PTL DEF Spec

-----------------------------------------------------------------------------
(* Type correctness for any number of threads: the list may go wrong, and  *)
(* an open may have an index outside the table in its hands, but none is   *)
(* stored there, listed or given to the kernel.                            *)

Slots == {NoFile} \union 2..Len(Entries)+1
AllIndexes == 0..Len(fdTable)-1
Known == [state : {"closed", "opening", "open", "closing"}, inode : Inodes \union {0}, fh : Nat]

(* t works on an open file.                                                *)
Holds(t) == thread[t].pc # "idle" /\ thread[t].request.op \in {"open", "release"}

Fits(t) ==
  /\ Holds(t) =>
       /\ thread[t].request.handle \in Handles
       /\ handle[thread[t].request.handle].state =
            IF thread[t].request.op = "open" THEN "opening" ELSE "closing"
       /\ thread[t].request.op = "open" => thread[t].request.inode \in Inodes
  /\ thread[t].pc \in {"pop", "store", "push"} =>
       thread[t].request.op = "open" /\ thread[t].request.inode \in 2..Len(Entries)+1
  /\ thread[t].pc = "free" => thread[t].request.op = "release"
  /\ thread[t].pc = "free" => thread[t].index \in AllIndexes
  /\ thread[t].pc \in {"pop", "store", "push"} => thread[t].index \in 0..Len(fdTable)

HandleFits(h) == handle[h].state \in {"open", "closing"} => handle[h].fh \in AllIndexes

(* No two threads work on one open file.                                   *)
Alone ==
  \A t, u \in Threads :
    Holds(t) /\ Holds(u) /\ thread[t].request.handle = thread[u].request.handle => t = u

Table ==
  /\ fdTable \in Seq(Slots) /\ available \in Seq(AllIndexes) /\ missing \in Nat
  /\ handle \in [Handles -> Known]
  /\ \A h \in Handles : HandleFits(h)
  /\ \A t \in Threads : Fits(t)
  /\ Alone

(* The threads but t, when the table does not shrink and their files stay. *)
LEMMA OtherFits ==
  ASSUME AllTyped, Table, NEW t \in Threads, NEW u \in Threads \ {t}, OnlyOf(t),
         fdTable' \in Seq(Slots), Len(fdTable') >= Len(fdTable),
         Holds(u) => handle'[thread[u].request.handle] = handle[thread[u].request.handle]
  PROVE  Fits(u)'
<1>1. thread'[u] = thread[u] /\ Fits(u)
  BY DEF OnlyOf, Table
<1>2. AllIndexes \subseteq AllIndexes' /\ 0..Len(fdTable) \subseteq 0..Len(fdTable')
  <2>1. Len(fdTable) \in Nat /\ Len(fdTable') \in Nat
    BY DEF Table
  <2> QED BY <2>1 DEF AllIndexes
<1> QED BY <1>1, <1>2 DEF Fits, Holds, Inodes

(* A step of t on the open file h.                                         *)
LEMMA TableStep ==
  ASSUME AllTyped, Table, NEW t \in Threads, OnlyOf(t), NEW h \in Handles,
         \A u \in Threads \ {t} : Holds(u) => thread[u].request.handle # h,
         Holds(t)' => thread'[t].request.handle = h,
         fdTable' \in Seq(Slots), Len(fdTable') >= Len(fdTable),
         available' \in Seq(0..Len(fdTable')-1), missing' \in Nat,
         handle' \in [Handles -> Known], \A g \in Handles \ {h} : handle'[g] = handle[g],
         HandleFits(h)', Fits(t)'
  PROVE  Table'
<1>1. \A u \in Threads : Fits(u)'
  <2> TAKE u \in Threads
  <2>1. CASE u # t
    <3>1. Holds(u) => thread[u].request.handle \in Handles \ {h}
      BY <2>1 DEF Table, Fits
    <3> QED BY <2>1, <3>1, OtherFits
  <2> QED BY <2>1
<1>2. \A g \in Handles : HandleFits(g)'
  <2> TAKE g \in Handles
  <2>1. CASE g # h
    <3>1. HandleFits(g) /\ handle'[g] = handle[g]
      BY <2>1 DEF Table
    <3>2. AllIndexes \subseteq AllIndexes'
      <4>1. Len(fdTable) \in Nat /\ Len(fdTable') \in Nat
        BY DEF Table
      <4> QED BY <4>1 DEF AllIndexes
    <3> QED BY <3>1, <3>2 DEF HandleFits
  <2> QED BY <2>1
<1>3. \A u \in Threads \ {t} : Holds(u)' => Holds(u) /\ thread'[u] = thread[u]
  BY DEF OnlyOf, Holds
<1>4. Alone'
  BY <1>3 DEF Alone, Table
<1> QED BY <1>1, <1>2, <1>4 DEF Table, Slots, AllIndexes, Known, Inodes

(* A step of t that touches no open file.                                  *)
LEMMA TablePlain ==
  ASSUME AllTyped, Table, NEW t \in Threads, OnlyOf(t),
         UNCHANGED <<fdTable, available, missing, handle>>,
         ~Holds(t)', thread'[t].pc \in {"idle", "todo"}
  PROVE  Table'
<1>1. \A u \in Threads : Fits(u)'
  <2> TAKE u \in Threads
  <2>1. CASE u # t
    <3>1. fdTable \in Seq(Slots) /\ Len(fdTable) \in Nat
      BY DEF Table
    <3> QED BY <2>1, <3>1, OtherFits
  <2>2. CASE u = t
    BY <2>2 DEF Fits
  <2> QED BY <2>1, <2>2
<1>2. \A u \in Threads \ {t} : Holds(u)' => Holds(u) /\ thread'[u] = thread[u]
  BY DEF OnlyOf, Holds
<1>3. Alone'
  BY <1>2 DEF Alone, Table
<1> QED BY <1>1, <1>3 DEF Table, Slots, AllIndexes, Known, Inodes, HandleFits

LEMMA PlainSteps ==
  ASSUME AllTyped, Table, NEW t \in Threads,
         \/ AskStateless(t) \/ AskDirectory(t) \/ \E h \in Handles : AskRead(t, h)
         \/ Stateless(t) \/ Opendir(t) \/ ReaddirAnswers(t) \/ Releasedir(t)
         \/ ReadAnswers(t) \/ ReadThrows(t),
         ~Ends
  PROVE  Table'
<1>1. UNCHANGED <<fdTable, available, missing, handle>>
  BY DEF AskStateless, AskDirectory, AskRead, Stateless, Opendir, ReaddirAnswers, Releasedir,
         ReadAnswers, ReadThrows
<1>2. ASSUME NEW q, Send(t, q), q.op \notin {"open", "release"}
      PROVE  Table'
  <2>1. OnlyOf(t) /\ thread'[t].request = q /\ thread'[t].pc = "todo"
    BY <1>2, SendIs
  <2>2. ~Holds(t)'
    BY <1>2, <2>1 DEF Holds
  <2> QED BY <1>1, <2>1, <2>2, TablePlain
<1>3. ASSUME NEW a, Reply(t, a)
      PROVE  Table'
  <2>1. OnlyOf(t) /\ thread'[t].pc = "idle"
    BY <1>3, ReplyIs
  <2> QED BY <1>1, <2>1, TablePlain DEF Holds
<1>4. CASE AskStateless(t)
  BY <1>2, <1>4 DEF AskStateless
<1>5. CASE AskDirectory(t)
  BY <1>2, <1>5 DEF AskDirectory
<1>6. CASE \E h \in Handles : AskRead(t, h)
  BY <1>2, <1>6 DEF AskRead
<1>7. CASE \/ Stateless(t) \/ Opendir(t) \/ ReaddirAnswers(t) \/ Releasedir(t)
           \/ ReadAnswers(t) \/ ReadThrows(t)
  BY <1>3, <1>7 DEF Stateless, Opendir, ReaddirAnswers, Releasedir, ReadAnswers, ReadThrows
<1> QED BY <1>4, <1>5, <1>6, <1>7

(* A handle the kernel opens or releases is in no thread's hands.          *)
LEMMA Untouched ==
  ASSUME Table, NEW h \in Handles, handle[h].state \in {"closed", "open"}, NEW u \in Threads,
         Holds(u)
  PROVE  thread[u].request.handle # h
BY DEF Table, Fits

LEMMA AskOpenFits ==
  ASSUME AllTyped, Table, NEW t \in Threads, NEW h \in Handles, AskOpen(t, h)
  PROVE  Table'
<1>1. PICK i \in Inodes, r \in BOOLEAN :
        /\ Send(t, [op |-> "open", handle |-> h, inode |-> i, readOnly |-> r])
        /\ handle' = [handle EXCEPT ![h] = [state |-> "opening", inode |-> i, fh |-> 0]]
  BY DEF AskOpen
<1> DEFINE q == [op |-> "open", handle |-> h, inode |-> i, readOnly |-> r]
<1>2. OnlyOf(t) /\ thread'[t].pc = "todo" /\ thread'[t].request = q
  BY <1>1, SendIs
<1>3. q.op = "open" /\ q.handle = h /\ q.inode = i
  OBVIOUS
<1> HIDE DEF q
<1>4. handle \in [Handles -> Known] /\ handle[h].state = "closed"
      /\ UNCHANGED <<fdTable, available, missing>>
  BY DEF Table, AskOpen
<1>5. /\ handle'[h].state = "opening" /\ handle' \in [Handles -> Known]
      /\ \A g \in Handles \ {h} : handle'[g] = handle[g]
  <2>1. [state |-> "opening", inode |-> i, fh |-> 0] \in Known
    BY DEF Known
  <2> QED BY <1>1, <1>4, <2>1
<1>6. HandleFits(h)' /\ Fits(t)'
  BY <1>2, <1>3, <1>5 DEF HandleFits, Fits, Holds, Inodes
<1>7. \A u \in Threads \ {t} : Holds(u) => thread[u].request.handle # h
  BY <1>4, Untouched
<1>8. /\ fdTable' \in Seq(Slots) /\ Len(fdTable') >= Len(fdTable)
      /\ available' \in Seq(0..Len(fdTable')-1) /\ missing' \in Nat
  BY <1>4 DEF Table, AllIndexes
<1> QED BY <1>2, <1>3, <1>5, <1>6, <1>7, <1>8, TableStep

LEMMA AskReleaseFits ==
  ASSUME AllTyped, Table, NEW t \in Threads, NEW h \in Handles, AskRelease(t, h)
  PROVE  Table'
<1> DEFINE q == [op |-> "release", handle |-> h]
<1>1. Send(t, q) /\ handle' = [handle EXCEPT ![h].state = "closing"]
      /\ handle[h].state = "open" /\ UNCHANGED <<fdTable, available, missing>>
  BY DEF AskRelease
<1>2. OnlyOf(t) /\ thread'[t].pc = "todo" /\ thread'[t].request = q
  BY <1>1, SendIs
<1>3. q.op = "release" /\ q.handle = h
  OBVIOUS
<1> HIDE DEF q
<1>4. handle \in [Handles -> Known]
  BY DEF Table
<1>5. /\ handle'[h] = [state |-> "closing", inode |-> handle[h].inode, fh |-> handle[h].fh]
      /\ handle' \in [Handles -> Known]
      /\ \A g \in Handles \ {h} : handle'[g] = handle[g]
  BY <1>1, <1>4 DEF Known
<1>6. HandleFits(h)' /\ Fits(t)'
  <2>1. handle[h].fh \in AllIndexes
    BY <1>1 DEF Table, HandleFits
  <2> QED BY <1>1, <1>2, <1>3, <1>5, <2>1 DEF HandleFits, Fits, Holds, AllIndexes
<1>7. \A u \in Threads \ {t} : Holds(u) => thread[u].request.handle # h
  BY <1>1, Untouched
<1>8. /\ fdTable' \in Seq(Slots) /\ Len(fdTable') >= Len(fdTable)
      /\ available' \in Seq(0..Len(fdTable')-1) /\ missing' \in Nat
  BY <1>1 DEF Table, AllIndexes
<1> QED BY <1>2, <1>3, <1>5, <1>6, <1>7, <1>8, TableStep

(* What t has in its hands is nobody else's.                               *)
LEMMA Mine ==
  ASSUME Table, NEW t \in Threads, Holds(t)
  PROVE  /\ thread[t].request.handle \in Handles
         /\ \A u \in Threads \ {t} :
              Holds(u) => thread[u].request.handle # thread[t].request.handle
BY DEF Table, Fits, Alone

LEMMA SameTable ==
  ASSUME Table, UNCHANGED <<fdTable, available, missing>>
  PROVE  /\ fdTable' \in Seq(Slots) /\ Len(fdTable') >= Len(fdTable)
         /\ available' \in Seq(0..Len(fdTable')-1) /\ missing' \in Nat
BY DEF Table, AllIndexes

(* A step of an open or a release that only goes on.                       *)
LEMMA GoesFits ==
  ASSUME AllTyped, Table, NEW t \in Threads, Holds(t), UNCHANGED handle,
         NEW pc \in {"pop", "store", "push", "free"}, NEW i, Goes(t, pc, i),
         fdTable' \in Seq(Slots), Len(fdTable') = Len(fdTable),
         available' \in Seq(0..Len(fdTable')-1), missing' \in Nat,
         pc \in {"pop", "store", "push"} =>
           thread[t].request.op = "open" /\ thread[t].request.inode \in 2..Len(Entries)+1,
         pc = "free" => thread[t].request.op = "release",
         pc = "free" => i \in AllIndexes, pc # "free" => i \in 0..Len(fdTable)
  PROVE  Table'
<1> PICK h : h = thread[t].request.handle
  OBVIOUS
<1>1. /\ OnlyOf(t) /\ thread'[t].pc = pc /\ thread'[t].index = i
      /\ thread'[t].request = thread[t].request
  BY GoesIs
<1>2. h \in Handles /\ \A u \in Threads \ {t} : Holds(u) => thread[u].request.handle # h
  BY Mine
<1>3. /\ handle' \in [Handles -> Known] /\ \A g \in Handles \ {h} : handle'[g] = handle[g]
      /\ Len(fdTable) \in Nat
  BY DEF Table
<1>4. HandleFits(h)' /\ Fits(t)'
  <2>1. AllIndexes' = AllIndexes
    BY DEF AllIndexes
  <2>2. HandleFits(h) /\ Fits(t)
    BY <1>2 DEF Table
  <2>3. HandleFits(h)'
    BY <2>1, <2>2 DEF HandleFits
  <2>4. Holds(t)' => Holds(t)
    OBVIOUS
  <2>5. Fits(t)'
    BY <1>1, <1>2, <2>1, <2>2 DEF Fits, Holds, Inodes
  <2> QED BY <2>3, <2>5
<1>5. thread'[t].request.handle = h
  BY <1>1
<1>6. Len(fdTable') >= Len(fdTable)
  BY <1>3
<1> QED BY <1>1, <1>2, <1>3, <1>4, <1>5, <1>6, TableStep

(* A step of an open or a release that ends it.                            *)
LEMMA EndsFits ==
  ASSUME AllTyped, Table, NEW t \in Threads, Holds(t), NEW a, Reply(t, a),
         NEW r \in Known, handle' = [handle EXCEPT ![thread[t].request.handle] = r],
         fdTable' \in Seq(Slots), Len(fdTable') >= Len(fdTable),
         available' \in Seq(0..Len(fdTable')-1), missing' \in Nat,
         r.state \in {"open", "closing"} => r.fh \in 0..Len(fdTable')-1
  PROVE  Table'
<1> PICK h : h = thread[t].request.handle
  OBVIOUS
<1>1. OnlyOf(t) /\ thread'[t].pc = "idle"
  BY ReplyIs
<1>2. h \in Handles /\ \A u \in Threads \ {t} : Holds(u) => thread[u].request.handle # h
  BY Mine
<1>3. /\ handle' \in [Handles -> Known] /\ handle'[h] = r
      /\ \A g \in Handles \ {h} : handle'[g] = handle[g]
  BY <1>2 DEF Table
<1>4. HandleFits(h)' /\ Fits(t)' /\ ~Holds(t)'
  <2>1. handle'[h].fh = r.fh /\ handle'[h].state = r.state
    BY <1>3
  <2> QED BY <1>1, <2>1 DEF HandleFits, Fits, Holds, AllIndexes
<1> QED BY <1>1, <1>2, <1>3, <1>4, TableStep

LEMMA AcceptedIs ==
  ASSUME FilesOK, Table, NEW t \in Threads, OpenAccepted(t)
  PROVE  Holds(t) /\ thread[t].request.op = "open" /\ thread[t].request.inode \in 2..Len(Entries)+1
<1>1. Holds(t) /\ thread[t].request.op = "open"
  BY DEF OpenAccepted, Doing, Holds
<1>2. thread[t].request.inode \in Inodes /\ thread[t].request.inode - 1 \in DOMAIN files
  BY <1>1 DEF Table, Fits, OpenAccepted, FindChild
<1>3. DOMAIN files = 1..Len(Entries) /\ Len(Entries) \in Nat
  BY ListingIs, EntriesSeq
<1> QED BY <1>1, <1>2, <1>3 DEF Inodes

LEMMA OpenRefusedFits ==
  ASSUME AllTyped, Table, NEW t \in Threads, OpenRefused(t)
  PROVE  Table'
<1>1. Holds(t)
  BY DEF OpenRefused, Doing, Holds
<1>2. PICK a : Reply(t, a)
  BY DEF OpenRefused
<1>3. handle' = [handle EXCEPT ![thread[t].request.handle] = Closed]
      /\ UNCHANGED <<fdTable, available, missing>>
  BY DEF OpenRefused
<1>4. Closed \in Known /\ Closed.state = "closed"
  BY DEF Closed, Known
<1> QED BY <1>1, <1>2, <1>3, <1>4, SameTable, EndsFits

LEMMA OpenBackFits ==
  ASSUME AllTyped, FilesOK, Table, NEW t \in Threads, OpenBack(t)
  PROVE  Table'
<1>1. /\ Len(available) # missing /\ UNCHANGED <<fdTable, available, missing, handle>>
  BY DEF OpenBack
<1>2. Holds(t) /\ thread[t].request.op = "open" /\ thread[t].request.inode \in 2..Len(Entries)+1
  BY AcceptedIs DEF OpenBack
<1>3. available \in Seq(AllIndexes)
  BY DEF Table
<1> HIDE DEF AllIndexes
<1>4. PICK i \in 0..Len(fdTable) : Goes(t, "pop", i)
  <2>1. CASE missing = 0
    <3>1. available # <<>> /\ Goes(t, "pop", Last(available))
      BY <1>1, <2>1, EmptySeq DEF OpenBack
    <3>2. Last(available) \in AllIndexes
      BY <1>3, <3>1, EmptySeq DEF Last
    <3>3. AllIndexes \subseteq 0..Len(fdTable)
      BY DEF AllIndexes, Table
    <3> QED BY <3>1, <3>2, <3>3
  <2>2. CASE missing # 0
    BY <2>2 DEF OpenBack
  <2> QED BY <2>1, <2>2
<1> QED BY <1>1, <1>2, <1>4, SameTable, GoesFits

LEMMA OpenPopFits ==
  ASSUME AllTyped, Table, NEW t \in Threads, OpenPop(t)
  PROVE  Table'
<1>1. /\ Goes(t, "store", thread[t].index) /\ thread[t].pc = "pop"
      /\ IF available = <<>> THEN missing' = missing + 1 /\ UNCHANGED available
                             ELSE available' = Front(available) /\ UNCHANGED missing
      /\ UNCHANGED <<fdTable, handle>>
  BY DEF OpenPop
<1>2. /\ thread[t].request.op = "open" /\ thread[t].request.inode \in 2..Len(Entries)+1
      /\ thread[t].index \in 0..Len(fdTable)
  BY <1>1 DEF Table, Fits
<1>3. Holds(t)
  BY <1>1, <1>2 DEF Holds
<1>4. available \in Seq(AllIndexes) /\ fdTable \in Seq(Slots) /\ missing' \in Nat
  BY <1>1 DEF Table
<1>5. available' \in Seq(AllIndexes)
  <2> HIDE DEF AllIndexes
  <2> SUFFICES ASSUME available # <<>> PROVE available' \in Seq(AllIndexes)
    BY <1>1, <1>4
  <2>1. Len(available) \in Nat \ {0}
    BY <1>1, <1>4, EmptySeq
  <2>2. 1 \in 1..Len(available) + 1 /\ Len(available) - 1 \in 1 - 1 .. Len(available)
    BY <2>1
  <2>3. SubSeq(available, 1, Len(available) - 1) \in Seq(AllIndexes)
    BY <1>4, <2>2, SubSeqFacts
  <2> QED BY <1>1, <2>3 DEF Front
<1>6. available' \in Seq(0..Len(fdTable')-1)
  BY <1>1, <1>5 DEF AllIndexes
<1> QED BY <1>1, <1>2, <1>3, <1>4, <1>6, GoesFits

LEMMA OpenSizeFits ==
  ASSUME AllTyped, FilesOK, Table, NEW t \in Threads, OpenSize(t)
  PROVE  Table'
<1>1. Goes(t, "push", Len(fdTable)) /\ UNCHANGED <<fdTable, available, missing, handle>>
  BY DEF OpenSize
<1>2. Holds(t) /\ thread[t].request.op = "open" /\ thread[t].request.inode \in 2..Len(Entries)+1
  BY AcceptedIs DEF OpenSize
<1>3. Len(fdTable) \in 0..Len(fdTable)
  BY DEF Table
<1> QED BY <1>1, <1>2, <1>3, SameTable, GoesFits

LEMMA OpenedFits ==
  ASSUME AllTyped, Table, NEW t \in Threads, Holds(t), NEW i, Opened(t, i),
         fdTable' \in Seq(Slots), Len(fdTable') >= Len(fdTable), i \in 0..Len(fdTable')-1,
         available' \in Seq(0..Len(fdTable')-1), missing' \in Nat
  PROVE  Table'
<1> DEFINE h == thread[t].request.handle
           r == [state |-> "open", inode |-> handle[h].inode, fh |-> i]
<1>1. h \in Handles /\ handle \in [Handles -> Known]
  BY Mine DEF Table
<1>2. handle' = [handle EXCEPT ![h].state = "open", ![h].fh = i]
  BY DEF Opened
<1>3. handle' = [handle EXCEPT ![h] = r]
  <2>1. handle[h] = [state |-> handle[h].state, inode |-> handle[h].inode, fh |-> handle[h].fh]
    BY <1>1 DEF Known
  <2> HIDE DEF h
  <2>2. handle'[h] = r /\ \A g \in Handles \ {h} : handle'[g] = handle[g]
    BY <1>1, <1>2, <2>1
  <2>3. DOMAIN handle' = Handles /\ handle' = [g \in Handles |-> handle'[g]]
    BY <1>1, <1>2
  <2> HIDE DEF r
  <2> QED BY <1>1, <2>2, <2>3
<1>4. r \in Known /\ r.fh = i
  BY <1>1 DEF Known
<1>5. PICK a : Reply(t, a)
  BY DEF Opened
<1> HIDE DEF r
<1> QED BY <1>3, <1>4, <1>5, EndsFits

LEMMA OpenStoreFits ==
  ASSUME AllTyped, Table, NEW t \in Threads, OpenStore(t), ~Ends
  PROVE  Table'
<1> DEFINE i == thread[t].index
           inode == thread[t].request.inode
<1>1. /\ thread[t].pc = "store" /\ fdTable' = [fdTable EXCEPT ![i + 1] = inode]
      /\ i \in AllIndexes /\ Opened(t, i) /\ UNCHANGED <<available, missing>>
  BY DEF OpenStore, AllIndexes
<1>2. thread[t].request.op = "open" /\ inode \in 2..Len(Entries)+1 /\ i \in AllIndexes
  BY <1>1 DEF Table, Fits
<1>3. Holds(t)
  BY <1>1, <1>2 DEF Holds
<1>4. inode \in Slots /\ i + 1 \in 1..Len(fdTable) /\ fdTable \in Seq(Slots)
      /\ Len(fdTable) \in Nat
  BY <1>2 DEF Slots, AllIndexes, Table
<1> HIDE DEF i, inode, Slots
<1>5. fdTable' \in Seq(Slots) /\ Len(fdTable') = Len(fdTable)
  BY <1>1, <1>4, ExceptSeq
<1>6. /\ i \in 0..Len(fdTable')-1 /\ available' \in Seq(0..Len(fdTable')-1)
      /\ Len(fdTable') >= Len(fdTable) /\ missing' \in Nat
  BY <1>1, <1>2, <1>4, <1>5 DEF AllIndexes, Table
<1> QED BY <1>1, <1>3, <1>5, <1>6, OpenedFits

LEMMA OpenPushFits ==
  ASSUME AllTyped, Table, NEW t \in Threads, OpenPush(t)
  PROVE  Table'
<1> DEFINE i == thread[t].index
           inode == thread[t].request.inode
<1>1. /\ thread[t].pc = "push" /\ fdTable' = Append(fdTable, inode)
      /\ Opened(t, i) /\ UNCHANGED <<available, missing>>
  BY DEF OpenPush
<1>2. thread[t].request.op = "open" /\ inode \in 2..Len(Entries)+1 /\ i \in 0..Len(fdTable)
  BY <1>1 DEF Table, Fits
<1>3. Holds(t)
  BY <1>1, <1>2 DEF Holds
<1>4. inode \in Slots /\ fdTable \in Seq(Slots) /\ Len(fdTable) \in Nat
      /\ available \in Seq(0..Len(fdTable)-1)
  BY <1>2 DEF Slots, AllIndexes, Table
<1> HIDE DEF i, inode, Slots
<1>5. fdTable' \in Seq(Slots) /\ Len(fdTable') = Len(fdTable) + 1
  BY <1>1, <1>4, AppendProperties
<1>6. i \in 0..Len(fdTable')-1 /\ Len(fdTable') >= Len(fdTable) /\ missing' \in Nat
  BY <1>1, <1>2, <1>4, <1>5 DEF Table
<1>7. available' \in Seq(0..Len(fdTable')-1)
  <2>1. 0..Len(fdTable)-1 \subseteq 0..Len(fdTable')-1
    BY <1>4, <1>5
  <2> QED BY <1>1, <1>4, <2>1, SeqMonotonic
<1> QED BY <1>1, <1>3, <1>5, <1>6, <1>7, OpenedFits

LEMMA ReleaseResetFits ==
  ASSUME AllTyped, Table, NEW t \in Threads, ReleaseReset(t)
  PROVE  Table'
<1> DEFINE i == handle[thread[t].request.handle].fh
<1>1. /\ Doing(t, "release") /\ fdTable' = [fdTable EXCEPT ![i + 1] = NoFile]
      /\ Goes(t, "free", i) /\ UNCHANGED <<available, missing, handle>>
  BY DEF ReleaseReset
<1>2. Holds(t) /\ thread[t].request.op = "release"
  BY <1>1 DEF Doing, Holds
<1>3. i \in AllIndexes
  BY <1>2, Mine DEF Table, Fits, HandleFits
<1>4. NoFile \in Slots /\ i + 1 \in 1..Len(fdTable) /\ fdTable \in Seq(Slots)
      /\ Len(fdTable) \in Nat
  BY <1>3 DEF Slots, AllIndexes, Table
<1> HIDE DEF i, Slots
<1>5. fdTable' \in Seq(Slots) /\ Len(fdTable') = Len(fdTable)
  BY <1>1, <1>4, ExceptSeq
<1>6. available' \in Seq(0..Len(fdTable')-1) /\ missing' \in Nat
  BY <1>1, <1>5 DEF AllIndexes, Table
<1> QED BY <1>1, <1>2, <1>3, <1>5, <1>6, GoesFits

LEMMA ReleaseFreeFits ==
  ASSUME AllTyped, Table, NEW t \in Threads, ReleaseFree(t)
  PROVE  Table'
<1>1. /\ thread[t].pc = "free"
      /\ IF missing > 0 THEN missing' = missing - 1 /\ UNCHANGED available
                        ELSE available' = Append(available, thread[t].index) /\ UNCHANGED missing
      /\ handle' = [handle EXCEPT ![thread[t].request.handle] = Closed]
      /\ Reply(t, [op |-> "ok"]) /\ UNCHANGED fdTable
  BY DEF ReleaseFree
<1>2. thread[t].request.op = "release" /\ thread[t].index \in AllIndexes
  BY <1>1 DEF Table, Fits
<1>3. Holds(t)
  BY <1>1, <1>2 DEF Holds
<1>4. Closed \in Known /\ Closed.state = "closed"
  BY DEF Closed, Known
<1>5. available' \in Seq(AllIndexes) /\ missing' \in Nat
  BY <1>1, <1>2, AppendProperties DEF Table
<1>6. /\ fdTable' \in Seq(Slots) /\ Len(fdTable') >= Len(fdTable)
      /\ available' \in Seq(0..Len(fdTable')-1)
  BY <1>1, <1>5 DEF Table, AllIndexes
<1> QED BY <1>1, <1>3, <1>4, <1>5, <1>6, EndsFits

LEMMA TableFresh ==
  ASSUME fdTable = <<>>, available = <<>>, missing = 0, handle = [h \in Handles |-> Closed],
         \A t \in Threads : thread[t].pc = "idle"
  PROVE  Table
<1>1. fdTable \in Seq(Slots) /\ available \in Seq(AllIndexes)
  BY EmptySeq
<1>2. handle \in [Handles -> Known] /\ \A h \in Handles : handle[h].state = "closed"
  <2>1. Closed \in Known /\ Closed.state = "closed"
    BY DEF Closed, Known
  <2> QED BY <2>1
<1> QED BY <1>1, <1>2 DEF Table, HandleFits, Fits, Holds, Alone

LEMMA TableKept ==
  ASSUME Directory, Table, [Next]_vars
  PROVE  Table'
<1> USE DEF Directory
<1>1. CASE PascalInit
  BY <1>1 DEF PascalInit, Table, HandleFits, Fits, Holds, Alone, Slots, AllIndexes, Known, Inodes
<1>2. CASE Ends
  <2>1. /\ fdTable' = <<>> /\ available' = <<>> /\ missing' = 0
        /\ handle' = [h \in Handles |-> Closed] /\ thread' = [t \in Threads |-> Idle]
    BY <1>2 DEF Ends
  <2>2. \A t \in Threads : thread'[t].pc = "idle"
    BY <2>1 DEF Idle
  <2>3. fdTable' \in Seq(Slots') /\ available' \in Seq(AllIndexes')
    BY <2>1, EmptySeq
  <2>4. Closed \in Known /\ Closed.state = "closed"
    BY DEF Closed, Known
  <2>5. handle' \in [Handles -> Known] /\ \A h \in Handles : handle'[h].state = "closed"
    BY <2>1, <2>4
  <2> QED BY <2>1, <2>2, <2>3, <2>5 DEF Table, HandleFits, Fits, Holds, Alone, Known, Inodes
<1>3. CASE ~Ends /\ \E t \in Threads : Asks(t) \/ Serves(t)
  <2> PICK t \in Threads : Asks(t) \/ Serves(t)
    BY <1>3
  <2>1. CASE Asks(t)
    BY <1>3, <2>1, PlainSteps, AskOpenFits, AskReleaseFits DEF Asks
  <2>2. CASE Serves(t)
    BY <1>3, <2>2, PlainSteps, OpenRefusedFits, OpenBackFits, OpenPopFits, OpenStoreFits, OpenSizeFits,
       OpenPushFits, ReleaseResetFits, ReleaseFreeFits DEF Serves
  <2> QED BY <2>1, <2>2
<1>4. CASE UNCHANGED vars
  BY <1>4 DEF vars, Table, HandleFits, Fits, Holds, Alone, Slots, AllIndexes, Known, Inodes
<1> QED BY <1>1, <1>2, <1>3, <1>4 DEF Next, InitThrows, Unmount

(* However many threads the session runs and however they race for the     *)
(* list: the table holds files, every index on the list is inside it, and  *)
(* from the first request on the page sizes of every text are there and    *)
(* never change.                                                           *)
THEOREM TypesStay == Spec => []TypeOK
<1>1. Init => Table
  BY AllIdle, TableFresh DEF Init
<1>2. Directory /\ Table /\ [Next]_vars => Directory' /\ Table'
  BY DirectoryKept, TableKept
<1>3. Directory /\ Table => TypeOK
  <2> SUFFICES ASSUME Directory, Table PROVE TypeOK
    OBVIOUS
  <2>1. running \in BOOLEAN
    BY DEF Directory
  <2>2. DOMAIN files = DOMAIN Entries /\ Listing = Full
    BY ListingIs DEF Directory
  <2>3. running => files = [i \in DOMAIN Loaded |-> Indexed(Content, Loaded[i])]
    BY DEF Directory, FilesOK, Built
  <2>4. fdTable \in Seq({NoFile} \union 2..Len(Entries)+1) /\ available \in Seq(0..Len(fdTable)-1)
    BY DEF Table, Slots, AllIndexes
  <2>a. missing \in Nat
    BY DEF Table
  <2>5. \A h \in Handles : /\ handle[h].state \in {"closed", "opening", "open", "closing"}
                           /\ handle[h].inode \in Inodes \union {0}
                           /\ handle[h].state \in {"open", "closing"} =>
                                handle[h].fh \in 0..Len(fdTable)-1
    BY DEF Table, HandleFits, AllIndexes, Known
  <2>6. stream.open \in BOOLEAN /\ stream.offset \in 0..Len(Listing)
    BY <2>2 DEF Directory, StreamOK
  <2>7. \A t \in Threads : thread[t].pc \in {"idle", "todo", "pop", "store", "push", "free"}
    BY DEF Directory, AllTyped, ThreadTyped
  <2> QED BY <2>1, <2>2, <2>3, <2>4, <2>a, <2>5, <2>6, <2>7 DEF TypeOK
<1> QED BY <1>1, <1>2, <1>3, DirectoryBegins, PTL DEF Spec

-----------------------------------------------------------------------------
(* What the kernel is told.                                                *)

(* The loader lets in only files that follow each other inside the volume  *)
(* (VolumeEntry.cpp:217-240); here each has a block, as all the program    *)
(* makes.                                                                  *)
GapAt(i) == IF i = 1 THEN LastBlock ELSE Entries[i-1].last

VolumeFits ==
  /\ LastBlock <= VolumeBlocks
  /\ \A i \in DOMAIN Entries :
       /\ GapAt(i) <= Entries[i].first /\ Entries[i].first < Entries[i].last
       /\ Entries[i].last <= VolumeBlocks
       /\ \A b \in Entries[i].first..Entries[i].last-1 : Content[b] \in Block

(* No page of a text but the last ends between a DLE and its count.        *)
PagesWhole ==
  \A i \in DOMAIN Entries : Text(Entries[i]) =>
    LET pages == Raws(Content, Entries[i])
    IN  \A p \in 1..Len(pages)-1 : Clean(pages[p])

(* The kernel reads from the beginning of a block.                         *)
Aligned == \A o \in Offsets : o % BlockSize = 0

LEMMA EntryIs ==
  ASSUME NEW i \in DOMAIN Entries
  PROVE  /\ i \in Nat /\ i >= 1 /\ Entries[i].first \in Nat /\ Entries[i].last \in Nat
         /\ Entries[i].lastByte \in 0..BlockSize
<1>1. Entries[i] \in [name : STRING, kind : STRING,
                      first : Nat, last : Nat, lastByte : 0..BlockSize]
  BY EntriesSeq
<1>2. i \in 1..Len(Entries) /\ Len(Entries) \in Nat
  BY EntriesSeq
<1> QED BY <1>1, <1>2

LEMMA BuiltIs ==
  ASSUME NEW i \in DOMAIN Entries
  PROVE  /\ Built[i].kind = Entries[i].kind /\ Built[i].name = Entries[i].name
         /\ Built[i].first = Entries[i].first /\ Built[i].last = Entries[i].last
         /\ Built[i].lastByte = Entries[i].lastByte
         /\ Text(Entries[i]) =>
              Built[i].pages = [p \in 1..PageCount(Entries[i]) |->
                Len(TextDecodePage(Content, Entries[i], Entries[i].first + 2 * p))]
<1>1. PICK e : e = Entries[i]
  OBVIOUS
<1>2. PICK f : f = [name |-> e.name, kind |-> e.kind, first |-> e.first, last |-> e.last,
                    lastByte |-> e.lastByte, pages |-> <<>>, indexed |-> FALSE]
  OBVIOUS
<1>3. Built[i] = Indexed(Content, f)
  BY <1>1, <1>2 DEF Built, Loaded
<1>4. CASE ~Text(e)
  <2>1. Built[i] = f
    BY <1>2, <1>3, <1>4 DEF Indexed, Text
  <2> QED BY <1>1, <1>2, <1>4, <2>1
<1>5. CASE Text(e)
  <2>1. PICK s : s = [p \in 1..PageCount(f) |-> Len(TextDecodePage(Content, f, f.first + 2 * p))]
    OBVIOUS
  <2>2. Built[i] = [f EXCEPT !.indexed = TRUE, !.pages = s]
    BY <1>2, <1>3, <1>5, <2>1 DEF Indexed, Text, TextInit
  <2>3. Built[i] = [name |-> e.name, kind |-> e.kind, first |-> e.first, last |-> e.last,
                    lastByte |-> e.lastByte, pages |-> s, indexed |-> TRUE]
    BY <1>2, <2>2
  <2>4. PageCount(f) = PageCount(e)
    BY <1>2 DEF PageCount
  <2>5. \A b : TextDecodePage(Content, f, b) = TextDecodePage(Content, e, b)
    BY <1>2 DEF TextDecodePage, TextReadPage
  <2>6. s = [p \in 1..PageCount(e) |-> Len(TextDecodePage(Content, e, e.first + 2 * p))]
    BY <1>2, <2>1, <2>4, <2>5
  <2> QED BY <1>1, <2>3, <2>6
<1> QED BY <1>1, <1>4, <1>5

(* The bytes of a file are what its reads return.                          *)
LEMMA FileReads ==
  ASSUME VolumeFits, PagesWhole, NEW i \in DOMAIN Entries
  PROVE  ReadsAs(Content, Built[i], Whole(i))
<1>1. PICK e : e = Entries[i]
  OBVIOUS
<1>2. PICK f : f = Built[i]
  OBVIOUS
<1>3. PICK n : n = e.last - e.first
  OBVIOUS
<1>4. /\ e.first \in Nat /\ e.last \in Nat /\ e.first < e.last /\ e.lastByte \in 0..BlockSize
      /\ \A b \in e.first..e.last-1 : Content[b] \in Block
  BY <1>1, EntryIs DEF VolumeFits
<1>5. n \in Nat /\ n >= 1 /\ e.last = e.first + n
  BY <1>3, <1>4
<1>6. InBlocks(Content, e, n)
  <2>1. \A k \in 0..n-1 : e.first + k \in e.first..e.last-1
    BY <1>4, <1>5
  <2> QED BY <1>4, <1>5, <2>1 DEF InBlocks
<1>7. /\ f.kind = e.kind /\ f.first = e.first /\ f.last = e.last /\ f.lastByte = e.lastByte
  BY <1>1, <1>2, BuiltIs
<1>8. Whole(i) = WholeOf(Content, f)
  <2>1. PICK F : F = FlatOf(Content, e)
    OBVIOUS
  <2>2. Len(F) = n * BlockSize
    BY <1>6, <2>1, RunBytes
  <2>3. F = Concat([b \in 1..e.last-e.first |-> Content[e.first + b - 1]])
    BY <2>1 DEF FlatOf, Run
  <2>4. F = FlatOf(Content, f)
    BY <1>7, <2>1 DEF FlatOf, Run
  <2>5. Whole(i) = IF e.kind = "text"
                     THEN Decode(SubSeq(F, PageSize + 1, Len(F) - BlockSize + e.lastByte))
                     ELSE SubSeq(F, 1, Len(F) - BlockSize + e.lastByte)
    BY <1>1, <2>3 DEF Whole
  <2>6. WholeOf(Content, f) =
          IF e.kind = "text"
            THEN Decode(SubSeq(F, 2 * BlockSize + 1, n * BlockSize - BlockSize + e.lastByte))
            ELSE SubSeq(F, 1, n * BlockSize - BlockSize + e.lastByte)
    BY <1>3, <1>7, <2>4 DEF WholeOf
  <2> QED BY <2>2, <2>5, <2>6 DEF PageSize
<1>9. CASE ~Text(e)
  <2>1. BlockSize \in Nat
    BY PageSizeIs
  <2>2. /\ f.first \in Nat /\ f.last \in Nat /\ f.lastByte \in Nat /\ f.kind # "text"
        /\ f.last > f.first /\ f.lastByte <= BlockSize
        /\ \A b \in f.first..f.last-1 : Content[b] \in Block
    BY <1>4, <1>7, <1>9, <2>1 DEF Text
  <2> QED BY <1>2, <1>8, <2>2, DataReadsAs
<1>10. CASE Text(e)
  <2>1. /\ f.kind = "text"
        /\ f.pages = [p \in 1..PageCount(e) |->
                        Len(TextDecodePage(Content, e, e.first + 2 * p))]
    BY <1>1, <1>2, <1>7, <1>10, BuiltIs DEF Text
  <2>2. \A p \in 1..Len(Raws(Content, e))-1 : Clean(Raws(Content, e)[p])
    BY <1>1, <1>10 DEF PagesWhole
  <2>3. ReadsAs(Content, f, WholeOf(Content, f))
    BY <1>4, <1>5, <1>6, <1>7, <2>1, <2>2, TextAnyReads
  <2> QED BY <1>2, <1>8, <2>3
<1> QED BY <1>9, <1>10

(* The blocks of no file.                                                  *)
LEMMA GapAtIs ==
  ASSUME VolumeFits
  PROVE  /\ \A i \in 1..Len(Entries) + 1 :
              GapAt(i) \in Nat /\ GapAt(i) <= VolumeBlocks /\ LastBlock <= GapAt(i)
         /\ \A i \in 1..Len(Entries) :
              /\ Entries[i].first \in Nat /\ Entries[i].last \in Nat
              /\ GapAt(i) <= Entries[i].first /\ Entries[i].first < Entries[i].last
              /\ GapAt(i + 1) = Entries[i].last
<1>1. Len(Entries) \in Nat /\ DOMAIN Entries = 1..Len(Entries)
  BY EntriesSeq
<1>2. \A j \in 1..Len(Entries) :
        /\ j \in DOMAIN Entries /\ Entries[j].first \in Nat /\ Entries[j].last \in Nat
        /\ GapAt(j) <= Entries[j].first /\ Entries[j].first < Entries[j].last
        /\ Entries[j].last <= VolumeBlocks
        /\ GapAt(j + 1) = Entries[j].last
  <2> TAKE j \in 1..Len(Entries)
  <2>1. j \in DOMAIN Entries
    BY <1>1
  <2>2. j + 1 # 1 /\ (j + 1) - 1 = j
    BY <1>1
  <2>3. GapAt(j + 1) = Entries[j].last
    BY <2>2 DEF GapAt
  <2> QED BY <2>1, <2>3, EntryIs DEF VolumeFits
<1>3. LastBlock \in Nat /\ VolumeBlocks \in Nat /\ LastBlock <= VolumeBlocks
  BY FusePascalAssumption DEF VolumeFits
<1>4. \A j \in 1..Len(Entries) : GapAt(j) \in Nat
  <2> TAKE j \in 1..Len(Entries)
  <2>1. CASE j = 1
    BY <1>3, <2>1 DEF GapAt
  <2>2. CASE j # 1
    <3>1. j - 1 \in 1..Len(Entries)
      BY <1>1, <2>2
    <3> QED BY <1>2, <2>2, <3>1 DEF GapAt
  <2> QED BY <2>1, <2>2
<1> DEFINE S == {m \in 0..Len(Entries) :
                   GapAt(m + 1) \in Nat /\ LastBlock <= GapAt(m + 1) /\ GapAt(m + 1) <= VolumeBlocks}
<1>5. 0 \in S
  BY <1>1, <1>3 DEF GapAt
<1>6. ASSUME NEW m \in 0..Len(Entries), m \in S, m < Len(Entries) PROVE m + 1 \in S
  <2>1. m + 1 \in 1..Len(Entries) /\ m + 1 \in 0..Len(Entries)
    BY <1>1, <1>6
  <2>2. /\ GapAt(m + 1) <= Entries[m + 1].first /\ Entries[m + 1].first < Entries[m + 1].last
        /\ Entries[m + 1].last <= VolumeBlocks /\ GapAt((m + 1) + 1) = Entries[m + 1].last
        /\ Entries[m + 1].first \in Nat /\ Entries[m + 1].last \in Nat
    BY <1>2, <2>1
  <2>3. GapAt(m + 1) \in Nat /\ LastBlock <= GapAt(m + 1)
    BY <1>6
  <2>4. LastBlock <= Entries[m + 1].last
    BY <1>3, <2>2, <2>3
  <2> QED BY <2>1, <2>2, <2>4
<1> HIDE DEF S
<1>7. \A m \in 0..Len(Entries) : m \in S
  BY <1>1, <1>5, <1>6, UpTo
<1>8. \A i \in 1..Len(Entries) + 1 : i - 1 \in 0..Len(Entries) /\ (i - 1) + 1 = i
  BY <1>1
<1>9. ASSUME NEW i \in 1..Len(Entries) + 1
      PROVE  GapAt(i) \in Nat /\ GapAt(i) <= VolumeBlocks /\ LastBlock <= GapAt(i)
  <2>1. i - 1 \in 0..Len(Entries) /\ (i - 1) + 1 = i
    BY <1>8
  <2>2. i - 1 \in S
    BY <1>7, <2>1
  <2> QED BY <2>1, <2>2 DEF S
<1> QED BY <1>2, <1>9, Zenon

LEMMA GapsRise ==
  ASSUME VolumeFits, NEW i \in 1..Len(Entries) + 1, NEW j \in 1..i
  PROVE  GapAt(j) <= GapAt(i)
<1>1. PICK n : n = Len(Entries) /\ n \in Nat
  BY EntriesSeq
<1> DEFINE S == {m \in 0..n : \A k \in 1..m + 1 : GapAt(k) <= GapAt(m + 1)}
<1>2. \A k \in 1..n + 1 : GapAt(k) \in Nat
  BY <1>1, GapAtIs
<1>3. 0 \in S
  <2>1. GapAt(0 + 1) \in Nat /\ 0 \in 0..n
    BY <1>1, <1>2
  <2>2. \A k \in 1..0 + 1 : k = 0 + 1
    OBVIOUS
  <2>3. \A k \in 1..0 + 1 : GapAt(k) <= GapAt(0 + 1)
    BY <2>1, <2>2
  <2> QED BY <2>1, <2>3
<1>4. ASSUME NEW m \in 0..n, m \in S, m < n PROVE m + 1 \in S
  <2>1. m + 1 \in 1..n + 1 /\ m + 1 <= n /\ (m + 1) + 1 \in 1..n + 1
    BY <1>1, <1>4
  <2>2. GapAt(m + 1) <= GapAt((m + 1) + 1)
    <3>0. m + 1 \in 1..Len(Entries)
      BY <1>1, <2>1
    <3>1. /\ Entries[m + 1].first \in Nat /\ GapAt(m + 1) <= Entries[m + 1].first
          /\ Entries[m + 1].first < GapAt((m + 1) + 1)
      BY <3>0, GapAtIs
    <3> QED BY <1>2, <2>1, <3>1
  <2>3. ASSUME NEW k \in 1..(m + 1) + 1 PROVE GapAt(k) <= GapAt((m + 1) + 1)
    <3>1. CASE k = (m + 1) + 1
      BY <1>2, <2>1, <3>1
    <3>2. CASE k # (m + 1) + 1
      <4>1. k \in 1..m + 1 /\ k \in 1..n + 1
        BY <1>1, <1>4, <3>2
      <4>2. GapAt(k) <= GapAt(m + 1)
        BY <1>4, <4>1
      <4> QED BY <1>2, <2>1, <2>2, <4>1, <4>2
    <3> QED BY <3>1, <3>2
  <2> QED BY <1>1, <2>1, <2>3
<1> HIDE DEF S
<1>5. \A m \in 0..n : m \in S
  BY <1>1, <1>3, <1>4, UpTo
<1>6. i - 1 \in 0..n /\ (i - 1) + 1 = i
  BY <1>1
<1>7. \A k \in 1..(i - 1) + 1 : GapAt(k) <= GapAt((i - 1) + 1)
  BY <1>5, <1>6 DEF S
<1> QED BY <1>6, <1>7

(* A block of a file lies between where it and the next one can begin.     *)
LEMMA UsedIs ==
  ASSUME VolumeFits, NEW b \in Nat, Used(b), b >= LastBlock
  PROVE  \E j \in 1..Len(Entries) :
           /\ GapAt(j) <= Entries[j].first /\ Entries[j].first <= b /\ b < GapAt(j + 1)
<1>1. PICK j \in DOMAIN Entries : b \in Entries[j].first..Entries[j].last-1
  BY FusePascalAssumption DEF Used
<1>2. j \in 1..Len(Entries) /\ j \in 1..Len(Entries) + 1 /\ j <= Len(Entries)
  BY EntriesSeq
<1>3. GapAt(j) <= Entries[j].first /\ GapAt(j + 1) = Entries[j].last /\ Entries[j].last \in Nat
      /\ Entries[j].first \in Nat
  BY <1>2, GapAtIs
<1> QED BY <1>1, <1>2, <1>3

LEMMA GapUnused ==
  ASSUME VolumeFits, NEW i \in 1..Len(Entries), NEW b \in GapAt(i)..Entries[i].first-1
  PROVE  ~Used(b)
<1>1. Len(Entries) \in Nat
  BY EntriesSeq
<1>2. \A k \in 1..Len(Entries) + 1 : GapAt(k) \in Nat
  BY GapAtIs
<1>3. /\ i \in 1..Len(Entries) + 1 /\ i <= Len(Entries) /\ i + 1 \in 1..Len(Entries) + 1
  BY <1>1
<1>4. /\ GapAt(i) \in Nat /\ LastBlock <= GapAt(i) /\ Entries[i].first \in Nat
      /\ Entries[i].first < GapAt(i + 1)
  BY <1>3, GapAtIs
<1>5. b \in Nat /\ b >= LastBlock /\ GapAt(i) <= b /\ b < Entries[i].first
  BY <1>4, FusePascalAssumption, SMTT(30)
<1> SUFFICES ASSUME Used(b) PROVE FALSE
  OBVIOUS
<1>6. PICK j \in 1..Len(Entries) :
        GapAt(j) <= Entries[j].first /\ Entries[j].first <= b /\ b < GapAt(j + 1)
  BY <1>5, UsedIs
<1>7. j \in 1..Len(Entries) + 1 /\ j + 1 \in 1..Len(Entries) + 1 /\ Entries[j].first \in Nat
  BY <1>1, GapAtIs
<1>8. CASE j < i
  <2>1. j + 1 \in 1..i
    BY <1>1, <1>8
  <2>2. GapAt(j + 1) <= GapAt(i)
    BY <1>3, <2>1, GapsRise
  <2> QED BY <1>2, <1>4, <1>5, <1>6, <1>7, <2>2
<1>9. CASE j = i
  BY <1>4, <1>5, <1>6, <1>9
<1>10. CASE j > i
  <2>1. i + 1 \in 1..j
    BY <1>1, <1>10
  <2>2. GapAt(i + 1) <= GapAt(j)
    BY <1>7, <2>1, GapsRise
  <2>3. GapAt(i + 1) \in Nat /\ GapAt(j) \in Nat
    BY <1>2, <1>3, <1>7
  <2> QED BY ONLY <1>4, <1>5, <1>6, <1>7, <2>2, <2>3, SMTT(30)
<1> QED BY <1>1, <1>8, <1>9, <1>10

LEMMA EndUnused ==
  ASSUME VolumeFits, NEW b \in Nat, b >= GapAt(Len(Entries) + 1)
  PROVE  ~Used(b)
<1>1. Len(Entries) \in Nat /\ Len(Entries) + 1 \in 1..Len(Entries) + 1
  BY EntriesSeq
<1>2. GapAt(Len(Entries) + 1) \in Nat /\ LastBlock <= GapAt(Len(Entries) + 1) /\ LastBlock \in Nat
  BY <1>1, GapAtIs, FusePascalAssumption
<1> SUFFICES ASSUME Used(b) PROVE FALSE
  OBVIOUS
<1>3. PICK j \in 1..Len(Entries) : b < GapAt(j + 1)
  BY <1>2, UsedIs
<1>4. j + 1 \in 1..Len(Entries) + 1
  BY <1>1
<1>5. GapAt(j + 1) <= GapAt(Len(Entries) + 1) /\ GapAt(j + 1) \in Nat
  BY <1>1, <1>4, GapsRise, GapAtIs
<1> QED BY <1>2, <1>3, <1>5

LEMMA FilesAre ==
  ASSUME FilesOK
  PROVE  /\ DOMAIN files = 1..Len(Entries) /\ Len(files) = Len(Entries)
         /\ \A i \in 1..Len(Entries) :
              /\ files[i].first = Entries[i].first /\ files[i].last = Entries[i].last
              /\ files[i].kind = Entries[i].kind /\ files[i].name = Entries[i].name
<1>1. DOMAIN Entries = 1..Len(Entries) /\ Len(Entries) \in Nat
  BY EntriesSeq
<1>2. DOMAIN files = 1..Len(Entries) /\ files = [i \in 1..Len(Entries) |-> files[i]]
  BY <1>1 DEF FilesOK, Built, Loaded
<1>3. Len(files) = Len(Entries)
  <2>1. files \in [1..Len(Entries) -> {files[i] : i \in 1..Len(Entries)}]
    BY <1>2
  <2> QED BY <1>1, <2>1, FunctionSeq
<1>4. ASSUME NEW i \in 1..Len(Entries)
      PROVE  /\ files[i].first = Entries[i].first /\ files[i].last = Entries[i].last
             /\ files[i].kind = Entries[i].kind /\ files[i].name = Entries[i].name
  <2>1. i \in DOMAIN Entries
    BY <1>1
  <2>2. CASE running
    BY <2>1, <2>2, BuiltIs DEF FilesOK
  <2>3. CASE ~running
    BY <2>1, <2>3 DEF FilesOK, Loaded
  <2> QED BY <2>2, <2>3
<1> QED BY <1>2, <1>3, <1>4

(* The blocks before x that no file has.                                   *)
FreeBelow(x) == {b \in 0..x-1 : ~Used(b)}

LEMMA FreeBelowIs ==
  ASSUME NEW x \in Nat
  PROVE  IsFiniteSet(FreeBelow(x)) /\ Cardinality(FreeBelow(x)) \in Nat
<1>1. FreeBelow(x) \subseteq 0..x-1 /\ IsFiniteSet(0..x-1)
  BY FS_Interval DEF FreeBelow
<1> QED BY <1>1, FS_Subset, FS_CardinalityType

LEMMA MoreFree ==
  ASSUME NEW x \in Nat, NEW y \in Nat, x <= y, \A b \in x..y-1 : ~Used(b)
  PROVE  Cardinality(FreeBelow(y)) = Cardinality(FreeBelow(x)) + (y - x)
<1>1. FreeBelow(y) = FreeBelow(x) \cup (x..y-1) /\ FreeBelow(x) \cap (x..y-1) = {}
  BY DEF FreeBelow
<1>2. IsFiniteSet(x..y-1) /\ Cardinality(x..y-1) = y - x
  <2>1. x \in Int /\ y - 1 \in Int
    OBVIOUS
  <2>2. /\ IsFiniteSet(x..y-1)
        /\ Cardinality(x..y-1) = IF x > y - 1 THEN 0 ELSE (y - 1) - x + 1
    BY <2>1, FS_Interval
  <2> QED BY <2>2
<1>3. Cardinality({}) = 0
  BY FS_EmptySet
<1>4. Cardinality(FreeBelow(y)) =
        Cardinality(FreeBelow(x)) + Cardinality(x..y-1) - Cardinality({})
  BY <1>1, <1>2, FreeBelowIs, FS_Union
<1>5. Cardinality(FreeBelow(x)) \in Nat
  BY FreeBelowIs
<1> QED BY <1>2, <1>3, <1>4, <1>5

LEMMA FreeOver ==
  ASSUME NEW x \in Nat, NEW y \in Nat, NEW z \in Nat, x <= y, y <= z,
         \A b \in x..y-1 : ~Used(b), \A b \in y..z-1 : Used(b)
  PROVE  Cardinality(FreeBelow(z)) = Cardinality(FreeBelow(x)) + (y - x)
<1>1. FreeBelow(z) = FreeBelow(y)
  BY DEF FreeBelow
<1> QED BY <1>1, MoreFree

(* The blocks statfs counts as free: between the files, and after them.    *)
LEMMA FreeIs ==
  ASSUME FilesOK, VolumeFits
  PROVE  /\ FreeBlocks(TRUE) = Cardinality({b \in 0..VolumeBlocks-1 : ~Used(b)})
         /\ FreeBlocks(FALSE)
              = Cardinality({b \in 0..VolumeBlocks-1 : \A c \in b..VolumeBlocks-1 : ~Used(c)})
<1> DEFINE St(i) == IF i = 1 THEN LastBlock ELSE files[i-1].last
           Turn(g) == [i \in 0..Len(files) |->
                         IF i = 0 THEN 0 ELSE g[i-1] + (files[i].first - St(i))]
           gap == CHOOSE g : g = Turn(g)
<1>1. PICK n : n = Len(Entries)
  OBVIOUS
<1>2. n \in Nat /\ Len(files) = n /\ DOMAIN Entries = 1..n
  BY <1>1, FilesAre, EntriesSeq
<1>3. \A i \in 1..n + 1 : St(i) = GapAt(i)
  <2> TAKE i \in 1..n + 1
  <2>1. CASE i = 1
    BY <2>1 DEF GapAt
  <2>2. CASE i # 1
    <3>1. i - 1 \in 1..n
      BY <1>2, <2>2
    <3> QED BY <1>1, <2>2, <3>1, FilesAre DEF GapAt
  <2> QED BY <2>1, <2>2
<1>4. \A i \in 1..n : files[i].first = Entries[i].first
  BY <1>1, FilesAre
<1>5. /\ FreeBlocks(TRUE) = gap[n] + (VolumeBlocks - St(n + 1))
      /\ FreeBlocks(FALSE) = 0 + (VolumeBlocks - St(n + 1))
  BY <1>2 DEF FreeBlocks
<1> HIDE DEF St
<1>6. /\ \A i \in 1..n + 1 :
           GapAt(i) \in Nat /\ GapAt(i) <= VolumeBlocks /\ LastBlock <= GapAt(i)
      /\ \A i \in 1..n :
           /\ Entries[i].first \in Nat /\ Entries[i].last \in Nat
           /\ GapAt(i) <= Entries[i].first /\ Entries[i].first < Entries[i].last
           /\ GapAt(i + 1) = Entries[i].last
  BY <1>1, GapAtIs
<1>7. \E g : g = Turn(g)
  <2> DEFINE add == [p \in (1..n) \X Int |-> p[2] + (Entries[p[1]].first - GapAt(p[1]))]
  <2>1. add \in [(1..n) \X Int -> Int]
    <3>1. ASSUME NEW p \in (1..n) \X Int
          PROVE  p[2] + (Entries[p[1]].first - GapAt(p[1])) \in Int
      <4>1. p[1] \in 1..n /\ p[1] \in 1..n + 1 /\ p[2] \in Int
        BY <1>2
      <4>2. Entries[p[1]].first \in Nat /\ GapAt(p[1]) \in Nat
        BY <1>6, <4>1
      <4> QED BY <4>1, <4>2
    <3> QED BY <3>1
  <2>2. \A i \in 1..n, k \in Int : add[<<i, k>>] = k + (Entries[i].first - GapAt(i))
    OBVIOUS
  <2> HIDE DEF add
  <2>3. PICK h : Recurs(h, Int, 0, n, add)
    <3>1. 0 \in Int /\ n \in Nat
      BY <1>2
    <3> QED BY ONLY <2>1, <3>1, Recursion
  <2>4. \A i \in 0..n : h[i] = IF i = 0 THEN 0 ELSE h[i - 1] + (files[i].first - St(i))
    <3> SUFFICES ASSUME NEW i \in 0..n, i # 0
                 PROVE  h[i] = h[i - 1] + (files[i].first - St(i))
      BY <2>3 DEF Recurs
    <3>1. i \in 1..n /\ i - 1 \in 0..n /\ i \in 1..n + 1
      BY <1>2
    <3>2. h[i - 1] \in Int
      BY <2>3, <3>1 DEF Recurs
    <3>3. h[i] = h[i - 1] + (Entries[i].first - GapAt(i))
      BY <2>2, <2>3, <3>1, <3>2 DEF Recurs
    <3> QED BY <1>3, <1>4, <3>1, <3>3
  <2>5. h = [i \in 0..n |-> h[i]]
    BY <2>3 DEF Recurs
  <2>6. h = Turn(h)
    BY <1>2, <2>4, <2>5
  <2> QED BY <2>6
<1>8. gap = Turn(gap)
  BY <1>7, Zenon
<1> HIDE DEF gap
<1>9. gap[0] = 0 /\ \A i \in 1..n : gap[i] = gap[i - 1] + (Entries[i].first - GapAt(i))
  <2>1. \A i \in 0..n : gap[i] = IF i = 0 THEN 0 ELSE gap[i - 1] + (files[i].first - St(i))
    BY <1>2, <1>8
  <2>2. 0 \in 0..n /\ \A i \in 1..n : i \in 0..n /\ i # 0 /\ i \in 1..n + 1
    BY <1>2
  <2> QED BY <1>3, <1>4, <2>1, <2>2
<1> DEFINE S == {m \in 0..n : gap[m] = Cardinality(FreeBelow(GapAt(m + 1)))}
<1>10. 0 \in S
  <2>1. FreeBelow(LastBlock) = {}
    BY FusePascalAssumption DEF FreeBelow, Used
  <2>2. GapAt(0 + 1) = LastBlock
    BY DEF GapAt
  <2> QED BY <1>2, <1>9, <2>1, <2>2, FS_EmptySet
<1>11. ASSUME NEW m \in 0..n, m \in S, m < n PROVE m + 1 \in S
  <2>1. m + 1 \in 1..n /\ m + 1 \in 1..n + 1 /\ (m + 1) + 1 \in 1..n + 1 /\ (m + 1) - 1 = m
        /\ m + 1 \in 0..n
    BY <1>2, <1>11
  <2>2. PICK x : x = GapAt(m + 1)
    OBVIOUS
  <2>3. PICK y : y = Entries[m + 1].first
    OBVIOUS
  <2>4. PICK z : z = GapAt((m + 1) + 1)
    OBVIOUS
  <2>5. x \in Nat /\ y \in Nat /\ z \in Nat /\ x <= y /\ y <= z /\ z = Entries[m + 1].last
    BY <1>6, <2>1, <2>2, <2>3, <2>4
  <2>6. \A b \in x..y-1 : ~Used(b)
    BY <1>1, <2>1, <2>2, <2>3, GapUnused
  <2>7. \A b \in y..z-1 : Used(b)
    BY <1>2, <2>1, <2>3, <2>5 DEF Used
  <2>8. Cardinality(FreeBelow(z)) = Cardinality(FreeBelow(x)) + (y - x)
    BY <2>5, <2>6, <2>7, FreeOver
  <2>9. gap[m + 1] = gap[m] + (y - x)
    BY <1>9, <2>1, <2>2, <2>3
  <2>10. gap[m] = Cardinality(FreeBelow(x))
    BY <1>11, <2>2
  <2> QED BY <2>1, <2>4, <2>8, <2>9, <2>10
<1> HIDE DEF S
<1>12. n \in S
  <2>1. \A m \in 0..n : m \in S
    BY <1>2, <1>10, <1>11, UpTo
  <2> QED BY <1>2, <2>1
<1>13. PICK x : x = GapAt(n + 1)
  OBVIOUS
<1>14. x \in Nat /\ x <= VolumeBlocks /\ LastBlock <= x /\ VolumeBlocks \in Nat /\ LastBlock \in Nat
       /\ St(n + 1) = x
  BY <1>2, <1>3, <1>6, <1>13, FusePascalAssumption
<1>15. \A b \in x..VolumeBlocks-1 : ~Used(b)
  BY <1>1, <1>13, <1>14, EndUnused
<1>16. FreeBlocks(TRUE) = Cardinality({b \in 0..VolumeBlocks-1 : ~Used(b)})
  <2>1. gap[n] = Cardinality(FreeBelow(x))
    BY <1>12, <1>13 DEF S
  <2>2. Cardinality(FreeBelow(VolumeBlocks)) = Cardinality(FreeBelow(x)) + (VolumeBlocks - x)
    BY <1>14, <1>15, MoreFree
  <2> QED BY <1>5, <1>14, <2>1, <2>2 DEF FreeBelow
<1>17. {b \in 0..VolumeBlocks-1 : \A c \in b..VolumeBlocks-1 : ~Used(c)} = x..VolumeBlocks-1
  <2>1. ASSUME x # 0 PROVE x - 1 \in Nat /\ Used(x - 1)
    <3>1. CASE n = 0
      <4>1. x = LastBlock
        BY <1>13, <3>1 DEF GapAt
      <4> QED BY <1>14, <2>1, <4>1 DEF Used
    <3>2. CASE n # 0
      <4>1. n \in 1..n /\ n \in DOMAIN Entries
        BY <1>2, <3>2
      <4>2. x = Entries[n].last /\ Entries[n].first \in Nat /\ Entries[n].first < x
        BY <1>6, <1>13, <4>1
      <4>3. x - 1 \in Entries[n].first..Entries[n].last-1
        BY <1>14, <4>2
      <4> QED BY <1>14, <2>1, <4>1, <4>3 DEF Used
    <3> QED BY <3>1, <3>2
  <2>2. ASSUME NEW b \in 0..VolumeBlocks-1, \A c \in b..VolumeBlocks-1 : ~Used(c)
        PROVE  b >= x
    <3> SUFFICES ASSUME b < x PROVE FALSE
      BY <1>14
    <3>1. x # 0 /\ x - 1 \in b..VolumeBlocks-1
      BY <1>14
    <3> QED BY <2>1, <2>2, <3>1
  <2>3. ASSUME NEW b \in x..VolumeBlocks-1
        PROVE  b \in 0..VolumeBlocks-1 /\ \A c \in b..VolumeBlocks-1 : ~Used(c)
    <3>1. \A c \in b..VolumeBlocks-1 : c \in x..VolumeBlocks-1
      BY <1>14
    <3> QED BY <1>14, <1>15, <3>1
  <2>4. ASSUME NEW b \in 0..VolumeBlocks-1, b >= x PROVE b \in x..VolumeBlocks-1
    BY <1>14, <2>4
  <2> QED BY <2>2, <2>3, <2>4
<1>18. Cardinality(x..VolumeBlocks-1) = VolumeBlocks - x
  <2>1. x \in Int /\ VolumeBlocks - 1 \in Int
    BY <1>14
  <2>2. Cardinality(x..VolumeBlocks-1) =
          IF x > VolumeBlocks - 1 THEN 0 ELSE (VolumeBlocks - 1) - x + 1
    BY <2>1, FS_Interval
  <2> QED BY <1>14, <2>2
<1>19. FreeBlocks(FALSE) = VolumeBlocks - x
  <2>1. 0 + (VolumeBlocks - x) = VolumeBlocks - x
    BY <1>14
  <2>2. FreeBlocks(FALSE) = 0 + (VolumeBlocks - x)
    BY <1>5, <1>14, Zenon
  <2> QED BY <2>1, <2>2, Zenon
<1> QED BY <1>16, <1>17, <1>18, <1>19

LEMMA NameBytesIs ==
  ASSUME NEW s, Len(s) \in Nat, \A i \in 1..Len(s) : AttributeSize[s[i]] \in Nat
  PROVE  NameBytes(s) \in Nat
<1> DEFINE Turn(g) == [i \in 0..Len(s) |-> IF i = 0 THEN 0 ELSE g[i-1] + AttributeSize[s[i]]]
           sum == CHOOSE g : g = Turn(g)
<1>1. PICK n : n = Len(s) /\ n \in Nat
  OBVIOUS
<1>2. \E g \in [0..n -> Nat] : g = Turn(g)
  <2> DEFINE add == [p \in (1..n) \X Nat |-> p[2] + AttributeSize[s[p[1]]]]
  <2>1. add \in [(1..n) \X Nat -> Nat]
    <3>1. ASSUME NEW p \in (1..n) \X Nat PROVE p[2] + AttributeSize[s[p[1]]] \in Nat
      <4>1. p[1] \in 1..n /\ p[2] \in Nat
        OBVIOUS
      <4>2. AttributeSize[s[p[1]]] \in Nat
        BY <1>1, <4>1
      <4> QED BY <4>1, <4>2
    <3> QED BY <3>1
  <2>2. \A i \in 1..n, k \in Nat : add[<<i, k>>] = k + AttributeSize[s[i]]
    OBVIOUS
  <2> HIDE DEF add
  <2>3. PICK h : Recurs(h, Nat, 0, n, add)
    <3>1. 0 \in Nat
      OBVIOUS
    <3> QED BY ONLY <1>1, <2>1, <3>1, Recursion
  <2>4. \A i \in 0..n : h[i] = IF i = 0 THEN 0 ELSE h[i - 1] + AttributeSize[s[i]]
    <3> SUFFICES ASSUME NEW i \in 0..n, i # 0
                 PROVE  h[i] = h[i - 1] + AttributeSize[s[i]]
      BY <2>3 DEF Recurs
    <3>1. i \in 1..n /\ i - 1 \in 0..n
      BY <1>1
    <3>2. h[i - 1] \in Nat
      BY <2>3, <3>1 DEF Recurs
    <3> QED BY <2>2, <2>3, <3>1, <3>2 DEF Recurs
  <2>5. h = [i \in 0..n |-> h[i]] /\ h \in [0..n -> Nat]
    BY <2>3 DEF Recurs
  <2>6. h = Turn(h)
    BY <1>1, <2>4, <2>5
  <2> QED BY <2>5, <2>6
<1>3. sum = Turn(sum)
  BY <1>2, Zenon
<1>4. NameBytes(s) = sum[n]
  BY <1>1 DEF NameBytes
<1> HIDE DEF sum
<1>5. \A i \in 0..n : sum[i] = IF i = 0 THEN 0 ELSE sum[i - 1] + AttributeSize[s[i]]
  BY <1>1, <1>3
<1> DEFINE S == {m \in 0..n : sum[m] \in Nat}
<1>6. 0 \in S
  BY <1>1, <1>5
<1>7. \A m \in 0..n : m \in S /\ m < n => m + 1 \in S
  <2> SUFFICES ASSUME NEW m \in 0..n, m \in S, m < n PROVE m + 1 \in S
    OBVIOUS
  <2>1. m + 1 \in 0..n /\ m + 1 # 0 /\ (m + 1) - 1 = m /\ m + 1 \in 1..n
    BY <1>1
  <2>2. sum[m + 1] = sum[m] + AttributeSize[s[m + 1]]
    BY <1>5, <2>1
  <2>3. AttributeSize[s[m + 1]] \in Nat
    BY <1>1, <2>1
  <2> QED BY <2>1, <2>2, <2>3
<1> HIDE DEF S
<1>8. n \in S
  <2>1. \A m \in 0..n : m \in S
    BY <1>1, <1>6, <1>7, UpTo
  <2> QED BY <1>1, <2>1
<1> QED BY <1>4, <1>8 DEF S

OfText == {"com.apple.TextEncoding", "user.charset"}

LEMMA NamesOf ==
  ASSUME NEW f
  PROVE  /\ NameBytes(AttributesOf(f)) \in Nat
         /\ ToSet(AttributesOf(f)) = {"pascal.fileKind"} \cup (IF Text(f) THEN OfText ELSE {})
<1>1. PICK s : s = AttributesOf(f)
  OBVIOUS
<1>2. CASE Text(f)
  <2>1. s = <<"pascal.fileKind", "com.apple.TextEncoding", "user.charset">>
    BY <1>1, <1>2 DEF AttributesOf
  <2>2. /\ Len(s) = 3 /\ DOMAIN s = 1..3
        /\ s[1] = "pascal.fileKind" /\ s[2] = "com.apple.TextEncoding" /\ s[3] = "user.charset"
    BY <2>1
  <2>3. \A i \in 1..3 : i = 1 \/ i = 2 \/ i = 3
    OBVIOUS
  <2>4. \A i \in 1..Len(s) : AttributeSize[s[i]] \in Nat
    BY <2>2, <2>3, FusePascalAssumption
  <2>5. ToSet(s) = {s[1], s[2], s[3]}
    BY <2>2, <2>3 DEF ToSet
  <2> QED BY <1>1, <1>2, <2>2, <2>4, <2>5, NameBytesIs DEF OfText
<1>3. CASE ~Text(f)
  <2>1. s = <<"pascal.fileKind">>
    BY <1>1, <1>3 DEF AttributesOf
  <2>2. Len(s) = 1 /\ DOMAIN s = 1..1 /\ s[1] = "pascal.fileKind"
    BY <2>1
  <2>3. \A i \in 1..1 : i = 1
    OBVIOUS
  <2>4. \A i \in 1..Len(s) : AttributeSize[s[i]] \in Nat
    BY <2>2, <2>3, FusePascalAssumption
  <2>5. ToSet(s) = {s[1]}
    BY <2>2, <2>3 DEF ToSet
  <2> QED BY <1>1, <1>3, <2>2, <2>4, <2>5, NameBytesIs
<1> QED BY <1>2, <1>3

(* What is true of the volume, and which answers agree with it.            *)
Truth ==
  [whole |-> [i \in DOMAIN Entries |-> Whole(i)],
   names |-> [i \in DOMAIN Entries |-> AttributesOf(Entries[i])],
   bytes |-> [i \in DOMAIN Entries |-> NameBytes(AttributesOf(Entries[i]))],
   free |-> Cardinality({b \in 0..VolumeBlocks-1 : ~Used(b)}),
   room |-> Cardinality({b \in 0..VolumeBlocks-1 : \A c \in b..VolumeBlocks-1 : ~Used(c)})]

Fine(q, a, hs, c) ==
  /\ a.op = "data" =>
       LET i == hs[q.handle].inode - 1
           w == c.whole[i]
           end == q.offset + q.size
       IN  /\ i \in DOMAIN Entries
           /\ a.bytes = SubSeq(w, q.offset + 1, IF Len(w) <= end THEN Len(w) ELSE end)
  /\ a.op = "attr" =>
       /\ a.inode # 1 => a.inode - 1 \in DOMAIN Entries /\ a.size = Len(c.whole[a.inode - 1])
       /\ q.op = "lookup" => Entries[a.inode - 1].name = q.name
  /\ (a.op = "names" /\ q.inode # 1) =>
       /\ q.inode \in Inodes /\ q.inode - 1 \in DOMAIN Entries
       /\ a.names = c.names[q.inode - 1] /\ c.bytes[q.inode - 1] <= q.size
  /\ (a.op = "length" /\ a.length # 0) =>
       /\ q.inode \in Inodes /\ q.inode # 1 /\ q.inode - 1 \in DOMAIN Entries
       /\ IF q.op = "listxattr" THEN a.length = c.bytes[q.inode - 1]
          ELSE \/ q.name = "pascal.fileKind" /\ a.length = 1
               \/ /\ q.name \in Attributes \cap OfText /\ a.length = AttributeSize[q.name]
                  /\ Entries[q.inode - 1].kind = "text"
  /\ a.op = "statfs" => a.free = c.free /\ a.available = c.room

LEMMA FineElse ==
  ASSUME NEW q, NEW a, NEW hs, NEW c, a.op \notin {"data", "attr", "names", "length", "statfs"}
  PROVE  Fine(q, a, hs, c)
BY DEF Fine

LEMMA ErrorFine ==
  ASSUME NEW q, NEW e, NEW hs, NEW c
  PROVE  Fine(q, Error(e), hs, c)
<1>1. Error(e).op = "error"
  BY DEF Error
<1> QED BY <1>1, FineElse

LEMMA ChildIs ==
  ASSUME FilesOK, NEW i \in Inodes
  PROVE  /\ i # 1 /\ i - 1 \in DOMAIN Entries => FindChild(i) = i - 1 /\ FindChild(i) # 0
         /\ i = 1 \/ i - 1 \notin DOMAIN Entries => FindChild(i) = 0
<1>1. DOMAIN files = DOMAIN Entries /\ DOMAIN Entries = 1..Len(Entries) /\ Len(Entries) \in Nat
  BY FilesAre, EntriesSeq
<1> QED BY <1>1 DEF FindChild, Inodes

LEMMA SizeIs ==
  ASSUME running, FilesOK, VolumeFits, PagesWhole, NEW i \in DOMAIN Entries
  PROVE  FileSize(files[i]) = Len(Truth.whole[i]) /\ Truth.whole[i] = Whole(i)
<1>1. files[i] = Built[i]
  BY DEF FilesOK
<1>2. Truth.whole[i] = Whole(i)
  BY DEF Truth
<1>3. FileSize(Built[i]) = Len(Whole(i))
  BY FileReads DEF ReadsAs
<1> QED BY <1>1, <1>2, <1>3

LEMMA GetattrFine ==
  ASSUME running, FilesOK, VolumeFits, PagesWhole, NEW q, q.op = "getattr", q.inode \in Inodes
  PROVE  Fine(q, Getattr(q.inode), handle, Truth)
<1>1. PICK i \in Inodes : i = q.inode
  OBVIOUS
<1>2. PICK a : a = Getattr(i)
  OBVIOUS
<1>3. PICK c : c = Truth
  OBVIOUS
<1>4. CASE i = 1
  <2>1. a = [op |-> "attr", inode |-> 1, size |-> LastBlock * BlockSize]
    BY <1>2, <1>4 DEF Getattr, Attributed
  <2>2. a.op = "attr" /\ a.inode = 1
    BY <2>1
  <2>3. Fine(q, a, handle, c)
    BY <2>2 DEF Fine
  <2> QED BY <1>1, <1>2, <1>3, <2>3
<1>5. CASE i # 1 /\ i - 1 \in DOMAIN Entries
  <2>1. FindChild(i) = i - 1 /\ FindChild(i) # 0
    BY <1>5, ChildIs
  <2>2. a = [op |-> "attr", inode |-> i, size |-> FileSize(files[i - 1])]
    BY <1>2, <1>5, <2>1 DEF Getattr, Attributed
  <2>3. FileSize(files[i - 1]) = Len(c.whole[i - 1])
    BY <1>3, <1>5, SizeIs
  <2>4. a.op = "attr" /\ a.inode = i /\ a.size = Len(c.whole[i - 1])
    BY <2>2, <2>3
  <2>5. Fine(q, a, handle, c)
    BY <1>5, <2>4 DEF Fine
  <2> QED BY <1>1, <1>2, <1>3, <2>5
<1>6. CASE i # 1 /\ i - 1 \notin DOMAIN Entries
  <2>1. a = Error("ENOENT")
    BY <1>2, <1>6, ChildIs DEF Getattr
  <2> QED BY <1>1, <1>2, <2>1, ErrorFine
<1> QED BY <1>4, <1>5, <1>6

LEMMA LookupFine ==
  ASSUME running, FilesOK, VolumeFits, PagesWhole, NEW q, q.op = "lookup"
  PROVE  Fine(q, Lookup(q.inode, q.name), handle, Truth)
<1> DEFINE I == {i \in DOMAIN files : files[i].name = q.name}
<1>1. PICK a : a = Lookup(q.inode, q.name)
  OBVIOUS
<1>2. PICK c : c = Truth
  OBVIOUS
<1>3. CASE q.inode # 1 \/ q.name \in Invalid \/ I = {}
  <2>1. a = Error("ENOTDIR") \/ a = Error("ENOENT")
    BY <1>1, <1>3 DEF Lookup
  <2> QED BY <1>1, <2>1, ErrorFine
<1>4. CASE ~(q.inode # 1 \/ q.name \in Invalid \/ I = {})
  <2>1. PICK m : m = Min(I)
    OBVIOUS
  <2>2. m \in 1..Len(Entries) /\ m \in DOMAIN Entries /\ Entries[m].name = q.name
    <3>1. I \subseteq 1..Len(Entries)
      BY FilesAre
    <3>2. I \subseteq Nat
      BY <3>1, EntriesSeq
    <3>3. m \in I
      BY <1>4, <2>1, <3>2, MinIs
    <3> QED BY <3>1, <3>3, FilesAre, EntriesSeq
  <2>3. m + 1 \in Inodes /\ m + 1 # 1 /\ (m + 1) - 1 = m
    BY <2>2, EntriesSeq DEF Inodes
  <2>4. a = [op |-> "attr", inode |-> m + 1, size |-> FileSize(files[m])]
    <3>1. a = Attributed(m + 1)
      BY <1>1, <1>4, <2>1 DEF Lookup
    <3>2. FindChild(m + 1) = m
      BY <2>2, <2>3, ChildIs
    <3> QED BY <2>3, <3>1, <3>2 DEF Attributed
  <2>5. FileSize(files[m]) = Len(c.whole[m])
    BY <1>2, <2>2, SizeIs
  <2>6. /\ a.op = "attr" /\ a.inode = m + 1 /\ a.size = Len(c.whole[a.inode - 1])
        /\ Entries[a.inode - 1].name = q.name /\ a.inode - 1 \in DOMAIN Entries
    BY <2>2, <2>3, <2>4, <2>5
  <2>7. Fine(q, a, handle, c)
    BY <2>6 DEF Fine
  <2> QED BY <1>1, <1>2, <2>7
<1> QED BY <1>3, <1>4

LEMMA SizedIs ==
  ASSUME NEW size, NEW length, NEW answer, NEW a, a = Sized(size, length, answer)
  PROVE  \/ size = 0 /\ a.op = "length" /\ a.length = length
         \/ a = Error("ERANGE")
         \/ size # 0 /\ ~(size < length) /\ a = answer
<1>1. CASE size = 0
  BY <1>1 DEF Sized
<1>2. CASE size # 0 /\ size < length
  BY <1>2 DEF Sized
<1>3. CASE size # 0 /\ ~(size < length)
  BY <1>3 DEF Sized
<1> QED BY <1>1, <1>2, <1>3

(* The attributes of file i.                                               *)
LEMMA AttributesAre ==
  ASSUME FilesOK, NEW i \in DOMAIN Entries
  PROVE  /\ AttributesOf(files[i]) = Truth.names[i]
         /\ NameBytes(AttributesOf(files[i])) = Truth.bytes[i]
         /\ Truth.bytes[i] \in Nat /\ (Text(files[i]) <=> Entries[i].kind = "text")
         /\ ToSet(Truth.names[i]) =
              {"pascal.fileKind"} \cup (IF Entries[i].kind = "text" THEN OfText ELSE {})
<1>1. i \in 1..Len(Entries)
  BY EntriesSeq
<1>2. files[i].kind = Entries[i].kind
  BY <1>1, FilesAre
<1>3. AttributesOf(files[i]) = AttributesOf(Entries[i])
  BY <1>2 DEF AttributesOf, Text
<1>4. Truth.names[i] = AttributesOf(Entries[i]) /\ Truth.bytes[i] = NameBytes(AttributesOf(Entries[i]))
  BY DEF Truth
<1> QED BY <1>2, <1>3, <1>4, NamesOf DEF Text

LEMMA ListFine ==
  ASSUME FilesOK, NEW q, q.op = "listxattr", q.inode \in Inodes, q.size \in Nat
  PROVE  Fine(q, Listxattr(q.inode, q.size), handle, Truth)
<1>1. PICK i \in Inodes : i = q.inode
  OBVIOUS
<1>2. PICK a : a = Listxattr(i, q.size)
  OBVIOUS
<1>3. PICK c : c = Truth
  OBVIOUS
<1>4. CASE i = 1
  <2>1. a = [op |-> "length", length |-> 0] \/ a = [op |-> "names", names |-> <<>>]
    BY <1>2, <1>4 DEF Listxattr
  <2>2. (a.op = "length" /\ a.length = 0) \/ a.op = "names"
    BY <2>1
  <2>3. Fine(q, a, handle, c)
    BY <1>1, <1>4, <2>2 DEF Fine
  <2> QED BY <1>1, <1>2, <1>3, <2>3
<1>5. CASE i # 1 /\ i - 1 \in DOMAIN Entries
  <2>1. FindChild(i) = i - 1 /\ FindChild(i) # 0
    BY <1>5, ChildIs
  <2>2. PICK n : n = AttributesOf(files[i - 1])
    OBVIOUS
  <2>3. n = c.names[i - 1] /\ NameBytes(n) = c.bytes[i - 1] /\ c.bytes[i - 1] \in Nat
    BY <1>3, <1>5, <2>2, AttributesAre
  <2>4. a = Sized(q.size, NameBytes(n), [op |-> "names", names |-> n])
    BY <1>2, <1>5, <2>1, <2>2 DEF Listxattr
  <2>5. \/ q.size = 0 /\ a.op = "length" /\ a.length = c.bytes[i - 1]
        \/ a = Error("ERANGE")
        \/ q.size # 0 /\ ~(q.size < c.bytes[i - 1]) /\ a = [op |-> "names", names |-> n]
    BY <2>3, <2>4, SizedIs
  <2>6. CASE a.op = "length" /\ a.length = c.bytes[i - 1]
    <3>1. Fine(q, a, handle, c)
      BY <1>1, <1>5, <2>6 DEF Fine
    <3> QED BY <1>1, <1>2, <1>3, <3>1
  <2>7. CASE a = Error("ERANGE")
    BY <1>1, <1>2, <2>7, ErrorFine
  <2>8. CASE ~(q.size < c.bytes[i - 1]) /\ a = [op |-> "names", names |-> n]
    <3>1. a.op = "names" /\ a.names = c.names[i - 1] /\ c.bytes[i - 1] <= q.size
      BY <2>3, <2>8
    <3>2. Fine(q, a, handle, c)
      BY <1>1, <1>5, <3>1 DEF Fine
    <3> QED BY <1>1, <1>2, <1>3, <3>2
  <2> QED BY <2>5, <2>6, <2>7, <2>8
<1>6. CASE i # 1 /\ i - 1 \notin DOMAIN Entries
  <2>1. a = Error("ENOENT")
    BY <1>2, <1>6, ChildIs DEF Listxattr
  <2> QED BY <1>1, <1>2, <2>1, ErrorFine
<1> QED BY <1>4, <1>5, <1>6

LEMMA GetxattrFine ==
  ASSUME FilesOK, NEW q, q.op = "getxattr", q.inode \in Inodes, q.name \in Attributes
  PROVE  Fine(q, Getxattr(q.inode, q.name, q.size), handle, Truth)
<1>1. PICK i \in Inodes : i = q.inode
  OBVIOUS
<1>2. PICK a : a = Getxattr(i, q.name, q.size)
  OBVIOUS
<1>3. PICK c : c = Truth
  OBVIOUS
<1>4. CASE i # 1 /\ i - 1 \in DOMAIN Entries
  <2>1. FindChild(i) = i - 1 /\ FindChild(i) # 0
    BY <1>4, ChildIs
  <2>2. Text(files[i - 1]) <=> Entries[i - 1].kind = "text"
    BY <1>4, AttributesAre
  <2>3. CASE q.name = "pascal.fileKind"
    <3>1. a = Sized(q.size, 1, [op |-> "value", of |-> files[i - 1].kind])
      BY <1>2, <1>4, <2>1, <2>3 DEF Getxattr
    <3>2. (a.op = "length" /\ a.length = 1) \/ a = Error("ERANGE") \/ a.op = "value"
      BY <3>1, SizedIs
    <3>3. CASE a = Error("ERANGE")
      BY <1>1, <1>2, <3>3, ErrorFine
    <3>4. CASE (a.op = "length" /\ a.length = 1) \/ a.op = "value"
      <4>1. Fine(q, a, handle, c)
        BY <1>1, <1>4, <2>3, <3>4 DEF Fine
      <4> QED BY <1>1, <1>2, <1>3, <4>1
    <3> QED BY <3>2, <3>3, <3>4
  <2>4. CASE q.name # "pascal.fileKind" /\ Text(files[i - 1]) /\ q.name \in OfText
    <3>1. a = Sized(q.size, AttributeSize[q.name], [op |-> "value", of |-> "ascii"])
      BY <1>2, <1>4, <2>1, <2>4 DEF Getxattr, OfText
    <3>2. (a.op = "length" /\ a.length = AttributeSize[q.name]) \/ a = Error("ERANGE") \/ a.op = "value"
      BY <3>1, SizedIs
    <3>3. CASE a = Error("ERANGE")
      BY <1>1, <1>2, <3>3, ErrorFine
    <3>4. CASE (a.op = "length" /\ a.length = AttributeSize[q.name]) \/ a.op = "value"
      <4>1. Fine(q, a, handle, c)
        BY <1>1, <1>4, <2>2, <2>4, <3>4 DEF Fine
      <4> QED BY <1>1, <1>2, <1>3, <4>1
    <3> QED BY <3>2, <3>3, <3>4
  <2>5. CASE q.name # "pascal.fileKind" /\ ~(Text(files[i - 1]) /\ q.name \in OfText)
    <3>1. a = Error("ENOATTR")
      BY <1>2, <1>4, <2>1, <2>5 DEF Getxattr, OfText
    <3> QED BY <1>1, <1>2, <3>1, ErrorFine
  <2> QED BY <2>3, <2>4, <2>5
<1>5. CASE i = 1 \/ i - 1 \notin DOMAIN Entries
  <2>1. a = Error("ENOATTR") \/ a = Error("ENOENT")
    BY <1>2, <1>5, ChildIs DEF Getxattr
  <2> QED BY <1>1, <1>2, <2>1, ErrorFine
<1> QED BY <1>4, <1>5

LEMMA StatfsFine ==
  ASSUME FilesOK, VolumeFits, NEW q
  PROVE  Fine(q, Statfs, handle, Truth)
<1>1. PICK a : a = Statfs
  OBVIOUS
<1>2. PICK c : c = Truth
  OBVIOUS
<1>3. /\ c.free = Cardinality({b \in 0..VolumeBlocks-1 : ~Used(b)})
      /\ c.room = Cardinality({b \in 0..VolumeBlocks-1 : \A d \in b..VolumeBlocks-1 : ~Used(d)})
  BY <1>2 DEF Truth
<1>4. a.op = "statfs" /\ a.free = FreeBlocks(TRUE) /\ a.available = FreeBlocks(FALSE)
  BY <1>1 DEF Statfs
<1>5. a.op = "statfs" /\ a.free = c.free /\ a.available = c.room
  BY <1>3, <1>4, FreeIs
<1>6. Fine(q, a, handle, c)
  BY <1>5 DEF Fine
<1> QED BY <1>1, <1>2, <1>6

LEMMA ReadFine ==
  ASSUME running, FilesOK, VolumeFits, PagesWhole, Aligned,
         NEW q, NEW f \in 2..Len(Entries)+1, handle[q.handle].inode = f,
         q.size \in Nat, q.offset \in Nat, q.offset \in Offsets
  PROVE  Fine(q, [op |-> "data", bytes |-> Read(Content, FileOf(f), q.size, q.offset)],
              handle, Truth)
<1>1. PICK i : i = f - 1
  OBVIOUS
<1>2. i \in DOMAIN Entries
  BY <1>1, EntriesSeq
<1>3. PICK w : w = Whole(i)
  OBVIOUS
<1>4. PICK s \in Nat : s = q.size
  OBVIOUS
<1>5. PICK o \in Nat : o = q.offset
  OBVIOUS
<1>6. PICK r : r = Read(Content, FileOf(f), s, o)
  OBVIOUS
<1>7. PICK c : c = Truth
  OBVIOUS
<1>8. PICK m : m = Len(w)
  OBVIOUS
<1>9. w \in Bytes /\ m \in Nat
  <2>1. w \in Bytes
    BY <1>2, <1>3, FileReads DEF ReadsAs
  <2> QED BY <1>8, <2>1 DEF Bytes
<1>10. r = IF o >= m THEN <<>> ELSE SubSeq(w, o + 1, IF o + s > m THEN m ELSE o + s)
  <2>1. FileOf(f) = Built[i]
    BY <1>1 DEF FileOf, FilesOK
  <2>2. o % BlockSize = 0
    BY <1>5 DEF Aligned
  <2>3. ReadsAs(Content, Built[i], w)
    BY <1>2, <1>3, FileReads
  <2> QED BY <1>6, <1>8, <2>1, <2>2, <2>3 DEF ReadsAs
<1>11. r = SubSeq(w, o + 1, IF m <= o + s THEN m ELSE o + s)
  <2>1. CASE o >= m
    <3>1. (IF m <= o + s THEN m ELSE o + s) = m
      BY <1>9, <2>1
    <3>2. SubSeq(w, o + 1, m) = <<>>
      <4>1. w \in Seq(Nat) /\ o + 1 \in Int /\ m \in Int /\ m < o + 1
        BY <1>9, <2>1 DEF Bytes
      <4> QED BY <4>1, SubSeqEmpty
    <3> QED BY <1>10, <2>1, <3>1, <3>2
  <2>2. CASE ~(o >= m)
    <3>1. (IF m <= o + s THEN m ELSE o + s) = (IF o + s > m THEN m ELSE o + s)
      BY <1>9
    <3> QED BY <1>10, <2>2, <3>1
  <2> QED BY <2>1, <2>2
<1>12. c.whole[handle[q.handle].inode - 1] = w /\ handle[q.handle].inode - 1 \in DOMAIN Entries
  BY <1>1, <1>2, <1>3, <1>7 DEF Truth
<1>13. PICK a : a = [op |-> "data", bytes |-> r]
  OBVIOUS
<1>14. a.op = "data" /\ a.bytes = r
  BY <1>13
<1>15. Fine(q, a, handle, c)
  BY <1>4, <1>5, <1>8, <1>11, <1>12, <1>14 DEF Fine
<1> QED BY <1>4, <1>5, <1>6, <1>7, <1>13, <1>15

(* Answers that agree with the volume are right.                           *)
LEMMA FineIsRight ==
  ASSUME running, FilesOK, NEW t, Threads = {t},
         thread[t].pc = "idle" => Fine(thread[t].request, thread[t].reply, handle, Truth)
  PROVE  RepliesRight
<1> SUFFICES ASSUME thread[t].pc = "idle" PROVE RepliesRight
  BY DEF RepliesRight
<1>1. PICK q : q = thread[t].request
  OBVIOUS
<1>2. PICK a : a = thread[t].reply
  OBVIOUS
<1>3. PICK c : c = Truth
  OBVIOUS
<1>4. Fine(q, a, handle, c)
  BY <1>1, <1>2, <1>3
<1>5. /\ \A i \in DOMAIN Entries : c.whole[i] = Whole(i)
      /\ c.free = Cardinality({b \in 0..VolumeBlocks-1 : ~Used(b)})
      /\ c.room = Cardinality({b \in 0..VolumeBlocks-1 : \A d \in b..VolumeBlocks-1 : ~Used(d)})
  BY <1>3 DEF Truth
<1>6. \A i \in Inodes : i # 1 /\ i - 1 \in DOMAIN Entries => FindChild(i) = i - 1 /\ FindChild(i) # 0
  BY ChildIs
<1>7. \A i \in DOMAIN Entries :
        /\ AttributesOf(files[i]) = c.names[i] /\ NameBytes(AttributesOf(files[i])) = c.bytes[i]
        /\ NameBytes(c.names[i]) = c.bytes[i]
        /\ c.bytes[i] \in Nat /\ (Text(files[i]) <=> Entries[i].kind = "text")
        /\ ToSet(c.names[i]) = {"pascal.fileKind"} \cup (IF Entries[i].kind = "text" THEN OfText ELSE {})
  BY <1>3, AttributesAre, SMTT(30)
<1>8. a.op = "data" =>
        LET w == Whole(handle[q.handle].inode - 1)
        IN  a.bytes = SubSeq(w, q.offset + 1, Smaller(Len(w), q.offset + q.size))
  BY <1>4, <1>5 DEF Fine, Smaller
<1>9. (a.op = "attr" /\ a.inode # 1) => a.size = Len(Whole(a.inode - 1))
  BY <1>4, <1>5, SMTT(30) DEF Fine
<1>10. (a.op = "attr" /\ q.op = "lookup") => Entries[a.inode - 1].name = q.name
  BY <1>4 DEF Fine
<1>11. (a.op = "names" /\ q.inode # 1) =>
         /\ NameBytes(a.names) <= q.size
         /\ \A x \in Attributes : x \in ToSet(a.names) <=> Getxattr(q.inode, x, 0).op = "length"
  <2> SUFFICES ASSUME a.op = "names", q.inode # 1
               PROVE  /\ NameBytes(a.names) <= q.size
                      /\ \A x \in Attributes :
                           x \in ToSet(a.names) <=> Getxattr(q.inode, x, 0).op = "length"
    OBVIOUS
  <2>1. PICK i : i = q.inode - 1
    BY SMTT(30)
  <2>2. /\ q.inode \in Inodes /\ i \in DOMAIN Entries /\ a.names = c.names[i] /\ c.bytes[i] <= q.size
    BY <1>4, <2>1 DEF Fine
  <2>3. FindChild(q.inode) = i /\ FindChild(q.inode) # 0
    BY <1>6, <2>1, <2>2
  <2>4. ASSUME NEW x \in Attributes
        PROVE  x \in ToSet(a.names) <=> Getxattr(q.inode, x, 0).op = "length"
    <3>1. x \in ToSet(a.names) <=>
            x = "pascal.fileKind" \/ (Text(files[i]) /\ x \in OfText)
      BY <1>7, <2>2
    <3>2. PICK y : y = Getxattr(q.inode, x, 0)
      OBVIOUS
    <3>3. CASE x = "pascal.fileKind"
      <4>1. y = Sized(0, 1, [op |-> "value", of |-> files[i].kind])
        BY <2>3, <3>2, <3>3 DEF Getxattr
      <4>2. y.op = "length"
        BY <4>1 DEF Sized
      <4> QED BY <3>1, <3>2, <3>3, <4>2
    <3>4. CASE x # "pascal.fileKind" /\ Text(files[i]) /\ x \in OfText
      <4>1. y = Sized(0, AttributeSize[x], [op |-> "value", of |-> "ascii"])
        BY <2>3, <3>2, <3>4 DEF Getxattr, OfText
      <4>2. y.op = "length"
        BY <4>1 DEF Sized
      <4> QED BY <3>1, <3>2, <3>4, <4>2
    <3>5. CASE x # "pascal.fileKind" /\ ~(Text(files[i]) /\ x \in OfText)
      <4>1. y = Error("ENOATTR")
        BY <2>3, <3>2, <3>5 DEF Getxattr, OfText
      <4>2. y.op # "length"
        BY <4>1 DEF Error
      <4> QED BY <3>1, <3>2, <3>5, <4>2
    <3> QED BY <3>3, <3>4, <3>5
  <2> QED BY <1>7, <2>2, <2>4
<1>12. (a.op = "length" /\ a.length # 0) =>
         IF q.op = "listxattr" THEN Listxattr(q.inode, a.length).op = "names"
                               ELSE Getxattr(q.inode, q.name, a.length).op = "value"
  <2> SUFFICES ASSUME a.op = "length", a.length # 0
               PROVE  IF q.op = "listxattr" THEN Listxattr(q.inode, a.length).op = "names"
                                            ELSE Getxattr(q.inode, q.name, a.length).op = "value"
    OBVIOUS
  <2>1. PICK i : i = q.inode - 1
    OBVIOUS
  <2>2. PICK l : l = a.length
    BY SMTT(30)
  <2>3. /\ q.inode \in Inodes /\ q.inode # 1 /\ i \in DOMAIN Entries
        /\ IF q.op = "listxattr" THEN l = c.bytes[i]
           ELSE \/ q.name = "pascal.fileKind" /\ l = 1
                \/ /\ q.name \in Attributes \cap OfText /\ l = AttributeSize[q.name]
                   /\ Entries[i].kind = "text"
    BY <1>4, <2>1, <2>2 DEF Fine
  <2>4. FindChild(q.inode) = i /\ FindChild(q.inode) # 0
    BY <1>6, <2>1, <2>3
  <2>5. CASE q.op = "listxattr"
    <3>1. PICK n : n = AttributesOf(files[i])
      OBVIOUS
    <3>2. NameBytes(n) = l /\ l \in Nat
      BY <1>7, <2>3, <2>5, <3>1
    <3>3. Listxattr(q.inode, l) = Sized(l, NameBytes(n), [op |-> "names", names |-> n])
      BY <2>3, <2>4, <3>1 DEF Listxattr
    <3>4. Listxattr(q.inode, l) = [op |-> "names", names |-> n]
      BY <2>2, <3>2, <3>3 DEF Sized
    <3> QED BY <2>2, <2>5, <3>4
  <2>6. CASE q.op # "listxattr" /\ q.name = "pascal.fileKind" /\ l = 1
    <3>1. Getxattr(q.inode, q.name, l) = Sized(1, 1, [op |-> "value", of |-> files[i].kind])
      BY <2>3, <2>4, <2>6 DEF Getxattr
    <3>2. Getxattr(q.inode, q.name, l) = [op |-> "value", of |-> files[i].kind]
      BY <3>1 DEF Sized
    <3> QED BY <2>2, <2>6, <3>2
  <2>7. CASE /\ q.op # "listxattr" /\ q.name \in Attributes \cap OfText /\ l = AttributeSize[q.name]
             /\ Entries[i].kind = "text"
    <3>1. l \in Nat
      BY <2>7, FusePascalAssumption
    <3>2. q.name # "pascal.fileKind" /\ Text(files[i])
      BY <1>7, <2>3, <2>7 DEF OfText
    <3>3. Getxattr(q.inode, q.name, l) = Sized(l, l, [op |-> "value", of |-> "ascii"])
      BY <2>3, <2>4, <2>7, <3>2 DEF Getxattr, OfText
    <3>4. Getxattr(q.inode, q.name, l) = [op |-> "value", of |-> "ascii"]
      BY <2>2, <3>1, <3>3, SMTT(30) DEF Sized
    <3> QED BY <2>2, <2>7, <3>4
  <2> QED BY <2>3, <2>5, <2>6, <2>7
<1>13. a.op = "statfs" =>
         /\ a.free = Cardinality({b \in 0..VolumeBlocks-1 : ~Used(b)})
         /\ a.available = Cardinality({b \in 0..VolumeBlocks-1 : \A d \in b..VolumeBlocks-1 : ~Used(d)})
  BY <1>4, <1>5 DEF Fine
<1> QED BY <1>1, <1>2, <1>8, <1>9, <1>10, <1>11, <1>12, <1>13 DEF RepliesRight

-----------------------------------------------------------------------------
(* One session thread: what it is asked, and what it has answered.         *)

Asked(t) ==
  LET q == thread[t].request
  IN  /\ q.op = "getattr" => q.inode \in Inodes
      /\ q.op = "listxattr" => q.inode \in Inodes /\ q.size \in Nat
      /\ q.op = "getxattr" => q.inode \in Inodes /\ q.name \in Attributes
      /\ q.op = "read" => /\ q.handle \in Handles /\ handle[q.handle].state = "open"
                          /\ q.size \in Nat /\ q.offset \in Offsets

Told(t, c) ==
  /\ ~running => thread[t] = Idle
  /\ thread[t].pc = "todo" => Asked(t)
  /\ thread[t].pc = "idle" => Fine(thread[t].request, thread[t].reply, handle, c)

LEMMA IdleTold ==
  ASSUME NEW t, thread[t] = Idle, NEW c
  PROVE  Told(t, c)
<1>1. Idle.pc = "idle" /\ Idle.reply.op = "none"
  BY DEF Idle, NoRequest
<1>2. Fine(Idle.request, Idle.reply, handle, c)
  BY <1>1 DEF Fine
<1> QED BY <1>1, <1>2 DEF Told

LEMMA SendTold ==
  ASSUME AllTyped, NEW t \in Threads, NEW c, NEW q, Send(t, q), UNCHANGED running, Asked(t)'
  PROVE  Told(t, c)'
<1>1. running /\ thread'[t].pc = "todo"
  BY SendIs
<1> QED BY <1>1 DEF Told

LEMMA GoesTold ==
  ASSUME NEW t, NEW c, running, UNCHANGED running, thread'[t].pc \notin {"idle", "todo"}
  PROVE  Told(t, c)'
BY SMTT(30) DEF Told

LEMMA ReplyTold ==
  ASSUME AllTyped, running, UNCHANGED running, NEW t \in Threads, NEW c,
         NEW q, q = thread[t].request, NEW a, Reply(t, a), NEW h, h = handle', Fine(q, a, h, c)
  PROVE  Told(t, c)'
<1>1. thread'[t].pc = "idle" /\ thread'[t].request = q /\ thread'[t].reply = a
  <2>1. /\ DOMAIN thread = Threads
        /\ thread[t] = [pc |-> thread[t].pc, request |-> thread[t].request,
                        index |-> thread[t].index, reply |-> thread[t].reply]
    BY DEF AllTyped, ThreadTyped
  <2>2. thread'[t] = [thread[t] EXCEPT !.pc = "idle", !.reply = a]
    BY <2>1 DEF Reply
  <2>3. thread'[t] = [pc |-> "idle", request |-> thread[t].request,
                      index |-> thread[t].index, reply |-> a]
    BY <2>1, <2>2
  <2> QED BY <2>3
<1> QED BY <1>1 DEF Told, Fine

LEMMA AsksTold ==
  ASSUME AllTyped, NEW t \in Threads, NEW c, Asks(t)
  PROVE  Told(t, c)'
<1>1. running' = running
  BY DEF Asks, AskStateless, AskOpen, AskRead, AskRelease, AskDirectory
<1>2. CASE AskStateless(t)
  <2>1. CASE Send(t, [op |-> "statfs"])
    <3>1. PICK q : q = [op |-> "statfs"]
      OBVIOUS
    <3>2. Send(t, q) /\ thread'[t].request = q /\ q.op = "statfs"
      BY <2>1, <3>1, SendIs
    <3> QED BY <1>1, <3>2, SendTold DEF Asked
  <2>2. ASSUME NEW i \in Inodes, Send(t, [op |-> "getattr", inode |-> i]) PROVE Told(t, c)'
    <3>1. PICK q : q = [op |-> "getattr", inode |-> i]
      OBVIOUS
    <3>2. Send(t, q) /\ thread'[t].request = q /\ q.op = "getattr" /\ q.inode = i
      BY <2>2, <3>1, SendIs
    <3> QED BY <1>1, <3>2, SendTold DEF Asked, Inodes
  <2>3. ASSUME NEW i \in Inodes, NEW n \in Names,
               Send(t, [op |-> "lookup", inode |-> i, name |-> n])
        PROVE  Told(t, c)'
    <3>1. PICK q : q = [op |-> "lookup", inode |-> i, name |-> n]
      OBVIOUS
    <3>2. Send(t, q) /\ thread'[t].request = q /\ q.op = "lookup"
      BY <2>3, <3>1, SendIs
    <3> QED BY <1>1, <3>2, SendTold DEF Asked
  <2>4. ASSUME NEW i \in Inodes, NEW s \in Sizes,
               Send(t, [op |-> "listxattr", inode |-> i, size |-> s])
        PROVE  Told(t, c)'
    <3>1. PICK q : q = [op |-> "listxattr", inode |-> i, size |-> s]
      OBVIOUS
    <3>2. Send(t, q) /\ thread'[t].request = q /\ q.op = "listxattr" /\ q.inode = i /\ q.size = s
      BY <2>4, <3>1, SendIs
    <3>3. s \in Nat
      BY FusePascalAssumption
    <3> QED BY <1>1, <3>2, <3>3, SendTold DEF Asked, Inodes
  <2>5. ASSUME NEW i \in Inodes, NEW s \in Sizes, NEW x \in Attributes,
               Send(t, [op |-> "getxattr", inode |-> i, name |-> x, size |-> s])
        PROVE  Told(t, c)'
    <3>1. PICK q : q = [op |-> "getxattr", inode |-> i, name |-> x, size |-> s]
      OBVIOUS
    <3>2. Send(t, q) /\ thread'[t].request = q /\ q.op = "getxattr" /\ q.inode = i /\ q.name = x
      BY <2>5, <3>1, SendIs
    <3> QED BY <1>1, <3>2, SendTold DEF Asked, Inodes
  <2> QED BY <1>2, <2>1, <2>2, <2>3, <2>4, <2>5 DEF AskStateless
<1>3. ASSUME NEW h \in Handles, AskOpen(t, h) PROVE Told(t, c)'
  <2>1. PICK i \in Inodes, b \in BOOLEAN :
          Send(t, [op |-> "open", handle |-> h, inode |-> i, readOnly |-> b])
    BY <1>3 DEF AskOpen
  <2>2. PICK q : q = [op |-> "open", handle |-> h, inode |-> i, readOnly |-> b]
    OBVIOUS
  <2>3. Send(t, q) /\ thread'[t].request = q /\ q.op = "open"
    BY <2>1, <2>2, SendIs
  <2> QED BY <1>1, <2>3, SendTold DEF Asked
<1>4. ASSUME NEW h \in Handles, AskRead(t, h) PROVE Told(t, c)'
  <2>1. PICK s \in Sizes \ {0}, o \in Offsets :
          Send(t, [op |-> "read", handle |-> h, size |-> s, offset |-> o])
    BY <1>4 DEF AskRead
  <2>2. PICK q : q = [op |-> "read", handle |-> h, size |-> s, offset |-> o]
    OBVIOUS
  <2>3. /\ Send(t, q) /\ thread'[t].request = q
        /\ q.op = "read" /\ q.handle = h /\ q.size = s /\ q.offset = o
    BY <2>1, <2>2, SendIs
  <2>4. handle'[h].state = "open" /\ s \in Nat
    BY <1>4, FusePascalAssumption DEF AskRead
  <2> QED BY <1>1, <2>3, <2>4, SendTold DEF Asked
<1>5. ASSUME NEW h \in Handles, AskRelease(t, h) PROVE Told(t, c)'
  <2>1. PICK q : q = [op |-> "release", handle |-> h]
    OBVIOUS
  <2>2. Send(t, q) /\ thread'[t].request = q /\ q.op = "release"
    BY <1>5, <2>1, SendIs DEF AskRelease
  <2> QED BY <1>1, <2>2, SendTold DEF Asked
<1>6. CASE AskDirectory(t)
  <2>1. ASSUME NEW q, q.op \in {"opendir", "readdir", "releasedir"}, Send(t, q)
        PROVE  Told(t, c)'
    <3>1. thread'[t].request = q
      BY <2>1, SendIs
    <3> QED BY <1>1, <2>1, <3>1, SendTold DEF Asked
  <2>2. \E q : q.op \in {"opendir", "readdir", "releasedir"} /\ Send(t, q)
    <3>1. \A i : [op |-> "opendir", inode |-> i].op = "opendir"
      OBVIOUS
    <3>2. \A s, o : [op |-> "readdir", size |-> s, offset |-> o].op = "readdir"
      OBVIOUS
    <3>3. [op |-> "releasedir"].op = "releasedir"
      OBVIOUS
    <3>4. CASE \E i \in Inodes : Send(t, [op |-> "opendir", inode |-> i])
      BY <3>1, <3>4
    <3>5. CASE \E s \in Sizes : Send(t, [op |-> "readdir", size |-> s, offset |-> stream.offset])
      BY <3>2, <3>5
    <3>6. CASE Send(t, [op |-> "releasedir"])
      BY <3>3, <3>6
    <3> QED BY <1>6, <3>4, <3>5, <3>6 DEF AskDirectory
  <2> QED BY <2>1, <2>2
<1> QED BY <1>2, <1>3, <1>4, <1>5, <1>6 DEF Asks

LEMMA StatelessTold ==
  ASSUME AllTyped, running, FilesOK, VolumeFits, PagesWhole,
         NEW t \in Threads, NEW c, c = Truth, Told(t, c), Stateless(t)
  PROVE  Told(t, c)'
<1>1. PICK q : q = thread[t].request
  OBVIOUS
<1>2. PICK h : h = handle
  OBVIOUS
<1>3. running' = running /\ handle' = handle
  BY DEF Stateless
<1>4. ASSUME NEW a, Reply(t, a), Fine(q, a, handle, Truth) PROVE Told(t, c)'
  BY <1>1, <1>2, <1>3, <1>4, ReplyTold
<1>5. CASE Doing(t, "statfs") /\ Reply(t, Statfs)
  <2>1. PICK a : a = Statfs
    OBVIOUS
  <2> QED BY <1>4, <1>5, <2>1, StatfsFine
<1>6. ASSUME NEW op, Doing(t, op)
      PROVE  /\ q.op = op
             /\ q.op = "getattr" => q.inode \in Inodes
             /\ q.op = "listxattr" => q.inode \in Inodes /\ q.size \in Nat
             /\ q.op = "getxattr" => q.inode \in Inodes /\ q.name \in Attributes
  BY <1>1, <1>6 DEF Doing, Told, Asked
<1>7. CASE Doing(t, "getattr") /\ Reply(t, Getattr(q.inode))
  <2>1. PICK a : a = Getattr(q.inode)
    OBVIOUS
  <2>2. q.op = "getattr" /\ q.inode \in Inodes
    BY <1>6, <1>7
  <2> QED BY <1>4, <1>7, <2>1, <2>2, GetattrFine
<1>8. CASE Doing(t, "lookup") /\ Reply(t, Lookup(q.inode, q.name))
  <2>1. PICK a : a = Lookup(q.inode, q.name)
    OBVIOUS
  <2>2. q.op = "lookup"
    BY <1>6, <1>8
  <2> QED BY <1>4, <1>8, <2>1, <2>2, LookupFine
<1>9. CASE Doing(t, "listxattr") /\ Reply(t, Listxattr(q.inode, q.size))
  <2>1. PICK a : a = Listxattr(q.inode, q.size)
    OBVIOUS
  <2>2. q.op = "listxattr" /\ q.inode \in Inodes /\ q.size \in Nat
    BY <1>6, <1>9
  <2> QED BY <1>4, <1>9, <2>1, <2>2, ListFine
<1>10. CASE Doing(t, "getxattr") /\ Reply(t, Getxattr(q.inode, q.name, q.size))
  <2>1. PICK a : a = Getxattr(q.inode, q.name, q.size)
    OBVIOUS
  <2>2. q.op = "getxattr" /\ q.inode \in Inodes /\ q.name \in Attributes
    BY <1>6, <1>10
  <2> QED BY <1>4, <1>10, <2>1, <2>2, GetxattrFine
<1> QED BY <1>1, <1>5, <1>7, <1>8, <1>9, <1>10 DEF Stateless

LEMMA ReadTold ==
  ASSUME AllTyped, running, FilesOK, VolumeFits, PagesWhole, Aligned,
         NEW t \in Threads, IInv(t), Table, NEW c, c = Truth, Told(t, c), ReadAnswers(t), ~Ends
  PROVE  Told(t, c)'
<1>1. PICK q : q = thread[t].request
  OBVIOUS
<1>2. PICK h : h = handle
  OBVIOUS
<1>3. PICK f : f = fdTable[handle[q.handle].fh + 1]
  OBVIOUS
<1>4. PICK a : a = [op |-> "data", bytes |-> Read(Content, FileOf(f), q.size, q.offset)]
  OBVIOUS
<1>5. /\ running' = running /\ handle' = handle /\ f # NoFile /\ Reply(t, a)
      /\ thread[t].pc = "todo" /\ q.op = "read"
  BY <1>1, <1>3, <1>4 DEF ReadAnswers, Doing
<1>6. /\ q.handle \in Handles /\ handle[q.handle].state = "open"
      /\ q.size \in Nat /\ q.offset \in Offsets
  BY <1>1, <1>5 DEF Told, Asked
<1>7. handle[q.handle].fh + 1 \in DOMAIN fdTable /\ f = handle[q.handle].inode
  BY <1>3, <1>6 DEF IInv, TableExact, HasIndex
<1>8. f \in 2..Len(Entries)+1
  <2>1. PICK k : k = handle[q.handle].fh + 1
    OBVIOUS
  <2>2. k \in DOMAIN fdTable /\ f = fdTable[k]
    BY <1>3, <1>7, <2>1
  <2>3. fdTable \in Seq(Slots)
    BY DEF Table
  <2>4. f \in Slots
    <3> HIDE DEF Slots
    <3> QED BY <2>2, <2>3
  <2> QED BY <1>5, <2>4 DEF Slots
<1>9. q.offset \in Nat
  BY <1>6, FusePascalAssumption
<1>10. Fine(q, a, handle, Truth)
  BY <1>4, <1>6, <1>7, <1>8, <1>9, ReadFine
<1> QED BY <1>1, <1>2, <1>5, <1>10, ReplyTold

(* Answers that say nothing of the files.                                  *)
LEMMA PlainTold ==
  ASSUME AllTyped, running, NEW t \in Threads, NEW c,
         \/ Opendir(t) \/ ReaddirAnswers(t) \/ Releasedir(t) \/ OpenRefused(t)
         \/ OpenStore(t) \/ OpenPush(t) \/ ReleaseFree(t) \/ ReadThrows(t),
         ~Ends
  PROVE  Told(t, c)'
<1>1. PICK q : q = thread[t].request
  OBVIOUS
<1>2. PICK h : h = handle'
  OBVIOUS
<1>3. running' = running
  BY DEF Opendir, ReaddirAnswers, Releasedir, OpenRefused, OpenStore, OpenPush, ReleaseFree,
         ReadThrows
<1>4. ASSUME NEW a, Reply(t, a), a.op \notin {"data", "attr", "names", "length", "statfs"}
      PROVE  Told(t, c)'
  <2>1. Fine(q, a, h, c)
    BY <1>4, FineElse
  <2> QED BY <1>1, <1>2, <1>3, <1>4, <2>1, ReplyTold
<1>5. ASSUME NEW e, Reply(t, Error(e)) PROVE Told(t, c)'
  <2>1. PICK a : a = Error(e)
    OBVIOUS
  <2>2. a.op = "error"
    BY <2>1 DEF Error
  <2> QED BY <1>4, <1>5, <2>1, <2>2
<1>6. ASSUME NEW op \in {"opened", "ok"}, Reply(t, [op |-> op]) PROVE Told(t, c)'
  <2>1. PICK a : a = [op |-> op]
    OBVIOUS
  <2>2. a.op = op
    BY <2>1
  <2> QED BY <1>4, <1>6, <2>1, <2>2
<1>7. CASE Opendir(t)
  <2>1. Reply(t, Error("ENOTDIR")) \/ Reply(t, [op |-> "opened"])
    BY <1>7 DEF Opendir
  <2> QED BY <1>5, <1>6, <2>1
<1>8. CASE ReaddirAnswers(t)
  <2>1. PICK a : a = Readdir(q.offset, q.size)
    OBVIOUS
  <2>2. a.op = "entries"
    BY <2>1 DEF Readdir
  <2>3. Reply(t, a)
    BY <1>1, <1>8, <2>1 DEF ReaddirAnswers
  <2> QED BY <1>4, <2>2, <2>3
<1>9. CASE Releasedir(t)
  BY <1>6, <1>9 DEF Releasedir
<1>10. CASE OpenRefused(t)
  <2>1. \E e : Reply(t, Error(e))
    BY <1>10 DEF OpenRefused
  <2> QED BY <1>5, <2>1
<1>11. CASE OpenStore(t) \/ OpenPush(t)
  BY <1>6, <1>11 DEF OpenStore, OpenPush, Opened
<1>12. CASE ReleaseFree(t)
  BY <1>6, <1>12 DEF ReleaseFree
<1>13. CASE ReadThrows(t)
  BY <1>5, <1>13 DEF ReadThrows
<1> QED BY <1>7, <1>8, <1>9, <1>10, <1>11, <1>12, <1>13

LEMMA NextTold ==
  ASSUME IsFiniteSet(Handles), VolumeFits, PagesWhole, Aligned,
         NEW t, Threads = {t}, NEW c, c = Truth,
         IInv(t), Directory, Table, Told(t, c), [Next]_vars
  PROVE  Told(t, c)'
<1>1. t \in Threads /\ AllTyped /\ FilesOK
  BY SMTT(30) DEF Directory
<1>2. CASE PascalInit
  BY <1>2, ZenonT(60) DEF PascalInit, Told, Asked, Fine, Inodes
<1>3. CASE Ends
  <2>1. thread'[t] = Idle
    BY <1>1, <1>3 DEF Ends
  <2>2. Idle.pc = "idle" /\ Idle.reply.op = "none"
    BY DEF Idle, NoRequest
  <2>3. thread'[t].pc = "idle" /\ thread'[t].reply.op = "none"
    BY <2>1, <2>2
  <2>4. Idle' = Idle
    BY DEF Idle, NoRequest
  <2> QED BY <2>1, <2>3, <2>4 DEF Told, Fine
<1>4. CASE Asks(t)
  BY <1>1, <1>4, AsksTold
<1>5. CASE ~Ends /\ Serves(t)
  <2>1. running' = running
    BY <1>1, <1>5, FilesKept
  <2>2. running
    <3>1. Idle.pc = "idle"
      BY DEF Idle
    <3>2. thread[t].pc # "idle"
      BY <1>5 DEF Serves, Stateless, Opendir, ReaddirAnswers, Releasedir, OpenRefused, OpenBack,
                  OpenPop, OpenStore, OpenSize, OpenPush, OpenAccepted, ReleaseReset, ReleaseFree,
                  ReadAnswers, ReadThrows, Doing
    <3> QED BY <3>1, <3>2 DEF Told
  <2>3. CASE OpenBack(t) \/ OpenPop(t) \/ OpenSize(t) \/ ReleaseReset(t)
    <3>1. \E pc \in {"pop", "store", "push", "free"} : \E i : Goes(t, pc, i)
      BY <2>3 DEF OpenBack, OpenPop, OpenSize, ReleaseReset
    <3>2. thread'[t].pc \in {"pop", "store", "push", "free"}
      BY <1>1, <3>1, GoesIs
    <3> QED BY <2>1, <2>2, <3>2, GoesTold
  <2>4. CASE Stateless(t)
    BY <1>1, <2>2, <2>4, StatelessTold
  <2>5. CASE ReadAnswers(t)
    BY <1>1, <1>5, <2>2, <2>5, ReadTold
  <2> QED BY <1>1, <1>5, <2>2, <2>3, <2>4, <2>5, PlainTold DEF Serves
<1>6. CASE UNCHANGED vars
  <2>1. running' = running /\ thread' = thread /\ handle' = handle
    BY <1>6 DEF vars
  <2>2. PICK x : x = thread[t]
    OBVIOUS
  <2>3. PICK h : h = handle
    OBVIOUS
  <2>4. thread'[t] = x /\ handle' = h
    BY <2>1, <2>2, <2>3
  <2>5. Idle' = Idle
    BY DEF Idle, NoRequest
  <2>6. Asked(t)' = Asked(t)
    BY <2>2, <2>3, <2>4 DEF Asked, Inodes
  <2>7. x.pc = "idle" => Fine(x.request, x.reply, h, c)
    BY <2>2, <2>3, SMTT(30) DEF Told
  <2>8. ASSUME x.pc = "idle" PROVE Fine(thread[t].request, thread[t].reply, handle, c)'
    <3>1. Fine(x.request, x.reply, h, c)
      BY <2>7, <2>8
    <3> QED BY <2>4, <3>1 DEF Fine
  <2> QED BY <2>1, <2>2, <2>4, <2>5, <2>6, <2>8 DEF Told
<1> QED BY <1>1, <1>2, <1>3, <1>4, <1>5, <1>6 DEF Next, InitThrows, Unmount

(* What one session thread tells the kernel of any volume fits together:   *)
(* the size in the attributes of a file is the number of bytes its reads   *)
(* return, and they return the file's bytes; a name leads to its file; an  *)
(* attribute is listed exactly when it has a value; asking again with the  *)
(* length answered to a size of 0 succeeds; and the blocks counted as free *)
(* are those no file has.                                                  *)
THEOREM RepliesStayRight ==
  ASSUME NEW CONSTANT t, Threads = {t}, IsFiniteSet(Handles), VolumeFits, PagesWhole, Aligned
  PROVE  Spec => []RepliesRight
<1>1. PICK c : c = Truth
  OBVIOUS
<1>2. Init => IInv(t) /\ Directory /\ Table /\ Told(t, c)
  <2> SUFFICES ASSUME Init PROVE IInv(t) /\ Directory /\ Table /\ Told(t, c)
    OBVIOUS
  <2>1. IInv(t)
    BY FreshInv DEF Init, Fresh
  <2>2. Directory /\ Table
    BY DirectoryBegins, AllIdle, TableFresh DEF Init
  <2>3. thread[t] = Idle
    BY DEF Init
  <2> QED BY <2>1, <2>2, <2>3, IdleTold
<1>3. IInv(t) /\ Directory /\ Table /\ Told(t, c) /\ [Next]_vars
        => IInv(t)' /\ Directory' /\ Table' /\ Told(t, c)'
  BY <1>1, NextKeeps, DirectoryKept, TableKept, NextTold
<1>4. IInv(t) /\ Directory /\ Table /\ Told(t, c) => RepliesRight
  <2> SUFFICES ASSUME Directory, Told(t, c) PROVE RepliesRight
    OBVIOUS
  <2>1. CASE running
    BY <1>1, <2>1, FineIsRight DEF Directory, Told
  <2>2. CASE ~running
    <3>1. thread[t] = Idle
      BY <2>2 DEF Told
    <3>2. Idle.reply.op = "none"
      BY DEF Idle, NoRequest
    <3> QED BY <3>1, <3>2 DEF RepliesRight
  <2> QED BY <2>1, <2>2
<1> QED BY <1>2, <1>3, <1>4, PTL DEF Spec
=============================================================================
