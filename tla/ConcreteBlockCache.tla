-------------------------- MODULE ConcreteBlockCache --------------------------
(***************************************************************************)
(* Cache/ConcreteBlockCache.cpp: the buffer pool over DOS order images and *)
(* raw devices.  A hash table finds the buffer of a block; buffers nobody  *)
(* holds stay in it and wait on a double-linked list, least recently used  *)
(* first, from which a miss takes its buffer.  One thread calls it ("this  *)
(* code is not thread safe", line 18); an exception of the device unwinds  *)
(* every caller.                                                           *)
(***************************************************************************)
EXTENDS Integers, Sequences, FiniteSets, SequencesExt

CONSTANTS
  Blocks,         \* the block numbers callers ask for
  Values,         \* what a 512 byte block can hold
  Zero,           \* the content memset(.., 0, 512) leaves
  Frames,         \* the pointers callers can hold at one time
  PoolSize,       \* the buffers the constructor makes (16 at least)
  HashTableSize,  \* 23
  Faults,         \* the device calls that may throw: see FaultKinds
  EvictErrorCaught, \* whether a caller uses the cache again after newEntry() threw
  MaxBuffers,     \* BOUND on _buffers.size(): the pool has no limit
  CountMax        \* BOUND on the unsigned in-use count: stands for 2^32 - 1

FaultKinds == {"read", "evict", "sync", "commit", "close"}

ASSUME CacheAssumption ==
  /\ Blocks \subseteq Nat
  /\ Zero \in Values
  /\ PoolSize \in Nat \ {0} /\ MaxBuffers \in Nat /\ PoolSize <= MaxBuffers
  /\ HashTableSize \in Nat \ {0}
  /\ IsFiniteSet(Frames)
  /\ CountMax \in Nat \ {0}
  /\ Faults \subseteq FaultKinds
  /\ EvictErrorCaught \in BOOLEAN

VARIABLES
  open,    \* whether the cache object exists
  disk,    \* the device: block -> content
  pool,    \* _buffers.size(): buffers 1..pool have been made
  entry,   \* the Entry of each buffer: block, count, dirty, data
  hash,    \* _hashTable: each chain, from its head, as a sequence of buffers
  free,    \* _first and _last, and every Entry's next and prev
  frame    \* what each frame of the caller holds

vars == <<open, disk, pool, entry, hash, free, frame>>

Buffers == 1..MaxBuffers
NULL == 0
NoBlock == -1

Idle == [buf |-> NULL, block |-> NoBlock, poked |-> FALSE]
Blank == [block |-> 0, count |-> 0, dirty |-> FALSE, data |-> Zero]

-----------------------------------------------------------------------------
(* The list of unused buffers, l = [first, last, next, prev].              *)

(* newEntry(): take the first buffer; its own links are cleared later.     *)
PopFirst(l) ==
  IF l.first = l.last
    THEN [l EXCEPT !.first = NULL, !.last = NULL]
    ELSE LET n == l.next[l.first]
         IN  [l EXCEPT !.first = n, !.prev[n] = NULL]

ClearLinks(l, e) == [l EXCEPT !.next[e] = NULL, !.prev[e] = NULL]

SetLast_InFront(l, e) ==
  IF l.last = NULL
    THEN [l EXCEPT !.first = e, !.last = e]
    ELSE [l EXCEPT !.next[e] = l.first, !.prev[l.first] = e, !.first = e]

SetLast(l, e) ==
  IF l.last = NULL
    THEN [l EXCEPT !.first = e, !.last = e]
    ELSE [l EXCEPT !.prev[e] = l.last, !.next[l.last] = e, !.last = e]

(* incrementCount(): take a buffer out of wherever it stands in the list.  *)
Unlink(l, e) ==
  LET p == l.prev[e]
      n == l.next[e]
  IN  [first |-> IF l.first = e THEN n ELSE l.first,
       last  |-> IF l.last = e THEN p ELSE l.last,
       next  |-> [x \in Buffers |-> IF x = p THEN n
                                    ELSE IF x = e THEN NULL ELSE l.next[x]],
       prev  |-> [x \in Buffers |-> IF x = n THEN p
                                    ELSE IF x = e THEN NULL ELSE l.prev[x]]]

(* incrementCount() and decrementCount(), as they change the list.         *)
FreeAfterIncrement_LeavesListed(l, e) == l
FreeAfterIncrement(l, e) == IF entry[e].count = 0 THEN Unlink(l, e) ELSE l

FreeAfterDecrement_EveryTime(l, e) == SetLast(l, e)
FreeAfterDecrement(l, e) == IF entry[e].count = 1 THEN SetLast(l, e) ELSE l

(* The count is unsigned: below zero it wraps.                             *)
Decrement(n) == IF n = 0 THEN CountMax ELSE n - 1

-----------------------------------------------------------------------------
(* The hash table.                                                         *)

hashFunction(b) == b % HashTableSize

(* Where a chain has a block first; 0 if it does not.                      *)
Position(chain, b) ==
  IF \E i \in 1..Len(chain) : entry[chain[i]].block = b
    THEN CHOOSE i \in 1..Len(chain) :
           /\ entry[chain[i]].block = b
           /\ \A j \in 1..(i - 1) : entry[chain[j]].block # b
    ELSE 0

FindEntry(b) ==
  LET chain == hash[hashFunction(b)]
      i == Position(chain, b)
  IN  IF i = 0 THEN NULL ELSE chain[i]

RemoveEntry(b) ==
  LET chain == hash[hashFunction(b)]
      i == Position(chain, b)
  IN  IF i = 0 THEN hash ELSE [hash EXCEPT ![hashFunction(b)] = RemoveAt(chain, i)]

AddEntry(h, e, b) == [h EXCEPT ![hashFunction(b)] = <<e>> \o @]

-----------------------------------------------------------------------------
(* newEntry(): the buffer a miss gets, and what getting it does.           *)

Reused == free.first # NULL

(* A bound: when no buffer is unused the code makes another, always.       *)
HasVictim == Reused \/ pool < MaxBuffers

Victim_AlwaysNew == pool + 1
Victim == IF Reused THEN free.first ELSE pool + 1

WrittenBack_WhenHashed ==
  IF Reused /\ entry[free.first].dirty /\ entry[free.first].count > 0
    THEN [disk EXCEPT ![entry[free.first].block] = entry[free.first].data]
    ELSE disk

WrittenBack ==
  IF Reused /\ entry[free.first].dirty
    THEN [disk EXCEPT ![entry[free.first].block] = entry[free.first].data]
    ELSE disk

(* An unused buffer leaves the hash table under the block it says it has:  *)
(* a buffer never used says 0.                                             *)
HashWithoutVictim ==
  IF Reused THEN RemoveEntry(entry[free.first].block) ELSE hash

FreeWithoutVictim ==
  IF Reused THEN ClearLinks(PopFirst(free), free.first) ELSE free

NewEntry ==
  /\ HasVictim
  /\ disk' = WrittenBack
  /\ pool' = IF Reused THEN pool ELSE pool + 1

(* What the miss makes of its buffer.                                      *)
Filled(b, n, d, v) ==
  [entry EXCEPT ![Victim] = [block |-> b, count |-> n, dirty |-> d, data |-> v]]

(* The destructor and sync() write dirty buffers in the order they were    *)
(* made: the device after buffers 1..n.                                    *)
FlushUpTo_OffByOne(n) ==
  [b \in Blocks |->
     LET D == {e \in 1..(n - 1) : entry[e].dirty /\ entry[e].block = b}
     IN  IF D = {} THEN disk[b] ELSE entry[Max(D)].data]

FlushUpTo(n) ==
  [b \in Blocks |->
     LET D == {e \in 1..n : entry[e].dirty /\ entry[e].block = b}
     IN  IF D = {} THEN disk[b] ELSE entry[Max(D)].data]

CleanUpTo_Pool(n) == [e \in Buffers |-> [entry[e] EXCEPT !.dirty = FALSE]]

CleanUpTo(n) == [e \in Buffers |-> IF e <= n THEN [entry[e] EXCEPT !.dirty = FALSE]
                                            ELSE entry[e]]

-----------------------------------------------------------------------------
(* acquire(), release(), markDirty() and what a caller does in between.    *)

AcquireHit(f, b) ==
  /\ open /\ frame[f] = Idle
  /\ FindEntry(b) # NULL
  /\ LET e == FindEntry(b) IN
       /\ entry[e].count < CountMax
       /\ free' = FreeAfterIncrement(free, e)
       /\ entry' = [entry EXCEPT ![e].count = @ + 1]
       /\ frame' = [frame EXCEPT ![f] = [buf |-> e, block |-> b, poked |-> FALSE]]
  /\ UNCHANGED <<open, disk, pool, hash>>

AcquireMiss(f, b) ==
  /\ open /\ frame[f] = Idle
  /\ FindEntry(b) = NULL
  /\ NewEntry
  /\ free' = FreeWithoutVictim
  /\ entry' = Filled(b, 1, FALSE, WrittenBack[b])
  /\ hash' = AddEntry(HashWithoutVictim, Victim, b)
  /\ frame' = [frame EXCEPT ![f] = [buf |-> Victim, block |-> b, poked |-> FALSE]]
  /\ UNCHANGED open

Poke(f, v) ==
  /\ frame[f] # Idle
  /\ entry' = [entry EXCEPT ![frame[f].buf].data = v]
  /\ frame' = [frame EXCEPT ![f].poked = TRUE]
  /\ UNCHANGED <<open, disk, pool, hash, free>>

MarkDirty(f) ==
  /\ frame[f] # Idle
  /\ LET e == FindEntry(frame[f].block) IN
       entry' = IF e # NULL THEN [entry EXCEPT ![e].dirty = TRUE] ELSE entry
  /\ frame' = [frame EXCEPT ![f].poked = FALSE]
  /\ UNCHANGED <<open, disk, pool, hash, free>>

(* flags: {} , {"dirty"} or {"commit"}.  A caller that stored through its  *)
(* pointer says so (FileEntry.cpp 256, 269, 384, 398; VolumeEntry.cpp 155, *)
(* 978, 997).  A block that is not in the table is ignored.                *)
Release(f, flags) ==
  /\ frame[f] # Idle
  /\ frame[f].poked => flags # {}
  /\ LET b == frame[f].block
         e == FindEntry(b) IN
       IF e = NULL
         THEN UNCHANGED <<disk, entry, free>>
         ELSE /\ entry' = [entry EXCEPT
                   ![e].count = Decrement(@),
                   ![e].dirty = (@ \/ flags # {}) /\ "commit" \notin flags]
              /\ free' = FreeAfterDecrement(free, e)
              /\ disk' = IF "commit" \in flags
                           THEN [disk EXCEPT ![b] = entry[e].data] ELSE disk
  /\ frame' = [frame EXCEPT ![f] = Idle]
  /\ UNCHANGED <<open, pool, hash>>

-----------------------------------------------------------------------------
(* BlockCache::read(): acquire, copy, release, in one call.                *)

ReadHit(b) ==
  /\ open
  /\ FindEntry(b) # NULL
  /\ LET e == FindEntry(b) IN
       free' = IF entry[e].count = 0 THEN SetLast(Unlink(free, e), e) ELSE free
  /\ UNCHANGED <<open, disk, pool, entry, hash, frame>>

ReadMiss(b) ==
  /\ open
  /\ FindEntry(b) = NULL
  /\ NewEntry
  /\ free' = SetLast(FreeWithoutVictim, Victim)
  /\ entry' = Filled(b, 0, FALSE, WrittenBack[b])
  /\ hash' = AddEntry(HashWithoutVictim, Victim, b)
  /\ UNCHANGED <<open, frame>>

(* write(), and zeroBlock() with v = Zero.                                 *)
WriteHit(b, v) ==
  /\ open
  /\ FindEntry(b) # NULL
  /\ entry' = [entry EXCEPT ![FindEntry(b)].dirty = TRUE, ![FindEntry(b)].data = v]
  /\ UNCHANGED <<open, disk, pool, hash, free, frame>>

WriteMiss(b, v) ==
  /\ open
  /\ FindEntry(b) = NULL
  /\ NewEntry
  /\ free' = SetLast(FreeWithoutVictim, Victim)
  /\ entry' = Filled(b, 0, TRUE, v)
  /\ hash' = AddEntry(HashWithoutVictim, Victim, b)
  /\ UNCHANGED <<open, frame>>

Sync ==
  /\ open
  /\ disk' = FlushUpTo(pool)
  /\ entry' = CleanUpTo(pool)
  /\ UNCHANGED <<open, pool, hash, free, frame>>

-----------------------------------------------------------------------------
(* The constructor and the destructor.                                     *)

FreshPool ==
  [first |-> 1, last |-> PoolSize,
   next |-> [e \in Buffers |-> IF e < PoolSize THEN e + 1 ELSE NULL],
   prev |-> [e \in Buffers |-> IF e <= PoolSize THEN e - 1 ELSE NULL]]

FreshEntry == [e \in Buffers |-> Blank]
FreshHash == [h \in 0..(HashTableSize - 1) |-> <<>>]

Init ==
  /\ open = TRUE
  /\ disk \in [Blocks -> Values]
  /\ pool = PoolSize /\ entry = FreshEntry
  /\ hash = FreshHash /\ free = FreshPool
  /\ frame = [f \in Frames |-> Idle]

(* The object dies with what it held, after its destructor has written the *)
(* dirty ones of buffers 1..n; the next one starts from the device.        *)
Gone(n) ==
  /\ disk' = FlushUpTo(n)
  /\ open' = FALSE
  /\ pool' = PoolSize /\ entry' = FreshEntry
  /\ hash' = FreshHash /\ free' = FreshPool
  /\ frame' = [f \in Frames |-> Idle]

Close ==
  /\ open
  /\ \A f \in Frames : ~frame[f].poked
  /\ Gone(pool)

Create ==
  /\ ~open
  /\ open' = TRUE
  /\ UNCHANGED <<disk, pool, entry, hash, free, frame>>

-----------------------------------------------------------------------------
(* A device call throws: the exception unwinds every frame, and nobody     *)
(* gives back what they held.  Between a store through a pointer and the   *)
(* release that declares it, no caller calls the cache.                    *)

Throws(kind, declaring) ==
  /\ open /\ kind \in Faults
  /\ \A f \in Frames \ declaring : ~frame[f].poked

Unwound == frame' = [f \in Frames |-> Idle] /\ UNCHANGED open

(* The destructor cannot write buffer e.  A destructor may not throw, so   *)
(* the process ends, and what was still dirty is lost.  (When the device's *)
(* own sync() throws, at line 111, everything is written, as in Close.)    *)
CloseFails(e) ==
  /\ Throws("close", {})
  /\ entry[e].dirty
  /\ Gone(e - 1)

(* newEntry() cannot write the first unused buffer back.  The callers in   *)
(* this program leave it at that: only main() catches the exception        *)
(* (apfm.cpp 1070), when the cache has been destroyed.  For a caller that  *)
(* goes on, the buffer is off the list and keeps its links, its count of 0 *)
(* and its place in the table.                                             *)
EvictFails(b) ==
  /\ Throws("evict", {})
  /\ FindEntry(b) = NULL
  /\ Reused /\ entry[free.first].dirty
  /\ IF EvictErrorCaught
       THEN free' = PopFirst(free) /\ Unwound /\ UNCHANGED <<disk, pool, entry, hash>>
       ELSE Gone(pool)

ReadFails_AddedFirst(b) ==
  /\ Throws("read", {})
  /\ Unwound
  /\ FindEntry(b) = NULL
  /\ NewEntry
  /\ free' = SetLast(FreeWithoutVictim, Victim)
  /\ entry' = Filled(b, 1, FALSE, entry[Victim].data)
  /\ hash' = AddEntry(HashWithoutVictim, Victim, b)

(* acquire() cannot read the block: the new buffer is in neither structure.*)
ReadFails(b) ==
  /\ Throws("read", {})
  /\ Unwound
  /\ FindEntry(b) = NULL
  /\ NewEntry
  /\ free' = FreeWithoutVictim
  /\ entry' = Filled(b, 1, FALSE, entry[Victim].data)
  /\ hash' = HashWithoutVictim

(* sync() cannot write buffer e: the dirty ones before it are written.     *)
(* After the last one, the device's own sync() may throw.                  *)
SyncFails(e) ==
  /\ Throws("sync", {})
  /\ Unwound
  /\ e <= pool => entry[e].dirty
  /\ disk' = FlushUpTo(e - 1)
  /\ entry' = CleanUpTo(e - 1)
  /\ UNCHANGED <<pool, hash, free>>

CommitFails_ForgetsDirty(f) ==
  /\ Throws("commit", {f})
  /\ Unwound
  /\ frame[f] # Idle
  /\ LET e == FindEntry(frame[f].block) IN
       /\ e # NULL
       /\ entry' = [entry EXCEPT ![e].count = Decrement(@)]
       /\ free' = FreeAfterDecrement(free, e)
  /\ UNCHANGED <<disk, pool, hash>>

(* release() cannot commit: it has already given the buffer back.          *)
CommitFails(f) ==
  /\ Throws("commit", {f})
  /\ Unwound
  /\ frame[f] # Idle
  /\ LET e == FindEntry(frame[f].block) IN
       /\ e # NULL
       /\ entry' = [entry EXCEPT ![e].count = Decrement(@), ![e].dirty = TRUE]
       /\ free' = FreeAfterDecrement(free, e)
  /\ UNCHANGED <<disk, pool, hash>>

-----------------------------------------------------------------------------

Next ==
  \/ \E f \in Frames :
       \/ \E b \in Blocks : AcquireHit(f, b) \/ AcquireMiss(f, b)
       \/ \E v \in Values : Poke(f, v)
       \/ \E flags \in {{}, {"dirty"}, {"commit"}} : Release(f, flags)
       \/ MarkDirty(f) \/ CommitFails(f)
  \/ \E b \in Blocks :
       \/ ReadHit(b) \/ ReadMiss(b) \/ EvictFails(b) \/ ReadFails(b)
       \/ \E v \in Values : WriteHit(b, v) \/ WriteMiss(b, v)
  \/ \E e \in 1..(pool + 1) : SyncFails(e)
  \/ \E e \in 1..pool : CloseFails(e)
  \/ Sync \/ Close \/ Create

Spec == Init /\ [][Next]_vars

-----------------------------------------------------------------------------
(* Properties.  A name with an underscore, such as SetLast_InFront, is the  *)
(* definition after it with a mistake in it, kept to show that a property  *)
(* notices the mistake.                                                    *)

(* Every field stays within its type: buffers made, blocks asked for.      *)
TypeOK ==
  /\ open \in BOOLEAN
  /\ disk \in [Blocks -> Values]
  /\ pool \in PoolSize..MaxBuffers
  /\ entry \in [Buffers -> [block : Blocks \cup {0}, count : 0..CountMax,
                            dirty : BOOLEAN, data : Values]]
  /\ hash \in [0..(HashTableSize - 1) -> Seq(1..pool)]
  /\ free \in [first : 0..pool, last : 0..pool,
               next : [Buffers -> 0..pool], prev : [Buffers -> 0..pool]]
  /\ frame \in [Frames -> [buf : 0..pool, block : Blocks \cup {NoBlock},
                           poked : BOOLEAN]]

(* The buffers met by following next from _first, and prev from _last.     *)
Follow(link, from) ==
  LET After(e) == IF e = NULL THEN NULL ELSE link[e]
      at[n \in 0..MaxBuffers] == IF n = 0 THEN from ELSE After(at[n - 1])
      met == {n \in 0..MaxBuffers : at[n] # NULL}
  IN  [i \in 1..Cardinality(met) |-> at[i - 1]]

Unused == {e \in 1..pool : entry[e].count = 0}

(* "_first and _last are a double-linked list of unused blocks" (line 37): *)
(* followed either way, the list holds each buffer nobody holds once, and  *)
(* no buffer somebody holds.  An in-use buffer on it would be handed to    *)
(* another block; an unused one off it is lost to the pool.                *)
FreeListExact ==
  LET forward == Follow(free.next, free.first) IN
  /\ Len(forward) = Cardinality(Unused)
  /\ ToSet(forward) = Unused
  /\ Follow(free.prev, free.last) = Reverse(forward)

(* The same sentence, in the part that data hangs on: no buffer somebody   *)
(* holds a pointer into is on the list that newEntry() takes buffers from. *)
ListedBuffersUnused ==
  ToSet(Follow(free.next, free.first)) \subseteq Unused

(* "Blocks will always be accessed by pointer, so any updates will be      *)
(* shared" (line 25): while a frame holds a pointer to a block, the table  *)
(* finds that very buffer for it, and the buffer counts its holders.       *)
HeldPointersShared ==
  \A f \in Frames : frame[f] # Idle =>
    LET e == frame[f].buf IN
    /\ FindEntry(frame[f].block) = e
    /\ entry[e].count >= Cardinality({g \in Frames : frame[g].buf = e})

(* A cached block whose content the device lacks is marked dirty, or a     *)
(* frame that stored into it has yet to say so: nothing written is lost    *)
(* when the buffer is reused, synced or deleted.                           *)
CleanMeansOnDisk ==
  \A b \in Blocks :
    LET e == FindEntry(b) IN
    \/ e = NULL
    \/ entry[e].dirty
    \/ \E f \in Frames : frame[f].poked /\ frame[f].block = b
    \/ entry[e].data = disk[b]

Rest(s, e) ==
  IF Contains(s, e) THEN RemoveAt(s, CHOOSE i \in 1..Len(s) : s[i] = e) ELSE s

(* The list is "stored in lru order" (line 38): a step takes at most one   *)
(* buffer out of it and puts at most that one back, at the end; the others *)
(* keep their turn.  A buffer given to another block is the one that has   *)
(* waited longest, and the pool grows only when none waits.                *)
LruOrder ==
  [][open /\ open' =>
       LET before == Follow(free.next, free.first)
           after  == Follow(free'.next, free'.first)
       IN  /\ free' # free =>
                \E e \in 1..pool' :
                  after \in {Rest(before, e), Append(Rest(before, e), e)}
           /\ \A e \in 1..pool :
                entry'[e].block # entry[e].block => before # <<>> /\ e = Head(before)
           /\ pool' # pool => before = <<>>]_vars

(* What a caller sees: the buffer of a cached block, else the device.      *)
Contents ==
  [b \in Blocks |-> LET e == FindEntry(b)
                    IN  IF e = NULL THEN disk[b] ELSE entry[e].data]

Promise == INSTANCE BlockStore WITH
  CloseMayFail <- "close" \in Faults,
  store   <- Contents,
  held    <- [f \in Frames |-> frame[f].block],
  pending <- {f \in Frames : frame[f].poked},
  view    <- [f \in Frames |-> IF frame[f] = Idle THEN Zero
                               ELSE entry[frame[f].buf].data]

(* The pool does what BlockStore promises: one content per block, seen     *)
(* through every pointer and every read, never older than the last store,  *)
(* and on the device when it is synced, closed, or its buffer reused; lost *)
(* only by a destructor that cannot write.                                 *)
ImplementsBlockStore == Promise!Spec
=============================================================================
