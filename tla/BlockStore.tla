------------------------------ MODULE BlockStore ------------------------------
(***************************************************************************)
(* What a block cache promises its callers (Cache/BlockCache.h), whatever  *)
(* buffers it keeps: every block has one content, seen by everybody who    *)
(* reads it or holds a pointer to it, and a device that lags behind that   *)
(* content until the block is written back, committed, synced or closed.   *)
(*                                                                         *)
(* A caller is a frame of the one thread that uses the cache: between      *)
(* acquire() and release() it holds a pointer to one block.                *)
(***************************************************************************)
EXTENDS Integers

CONSTANTS
  Blocks,   \* the block numbers callers ask for
  Values,   \* what a 512 byte block can hold
  Zero,     \* the content of a block of zero bytes
  Frames,   \* the pointers callers can hold at one time
  CloseMayFail  \* whether the device may fail while the cache is destroyed

VARIABLES
  store,    \* the content of each block
  disk,     \* the content of each block on the device
  held,     \* the block each frame holds a pointer to
  pending,  \* the frames that stored through their pointer and have not said so
  view      \* what each frame sees through its pointer

NoBlock == -1

(* Every pointer to a block shows its one content.                         *)
Seen(s, h) == [f \in Frames |-> IF h[f] = NoBlock THEN Zero ELSE s[h[f]]]

Init ==
  /\ disk \in [Blocks -> Values]
  /\ store = disk
  /\ held = [f \in Frames |-> NoBlock]
  /\ pending = {}
  /\ view = Seen(store, held)

(* An operation may write back at most one block, and none that is held.   *)
WriteBack ==
  \/ disk' = disk
  \/ \E b \in Blocks \ {held[f] : f \in Frames} :
       disk' = [disk EXCEPT ![b] = store[b]]

(* At most the content of block b changes.                                 *)
Change(b) ==
  LET s == store' IN
    /\ s[b] \in Values
    /\ s = [store EXCEPT ![b] = s[b]]

Acquire(f, b) ==
  /\ held[f] = NoBlock
  /\ held' = [held EXCEPT ![f] = b]
  /\ pending' = pending
  /\ store' = store
  /\ WriteBack

(* Read a block or write one, without holding it in between.               *)
Access ==
  /\ held' = held
  /\ pending' = pending
  /\ WriteBack
  /\ \E b \in Blocks : Change(b)

Poke(f) ==
  /\ held[f] # NoBlock
  /\ pending' = pending \cup {f}
  /\ held' = held
  /\ Change(held[f])
  /\ disk' = disk

MarkDirty(f) ==
  /\ held[f] # NoBlock
  /\ pending' = pending \ {f}
  /\ held' = held
  /\ store' = store
  /\ disk' = disk

Release(f) ==
  /\ held[f] # NoBlock
  /\ pending' = pending \ {f}
  /\ held' = [held EXCEPT ![f] = NoBlock]
  /\ store' = store
  /\ \/ disk' = disk
     \/ disk' = [disk EXCEPT ![held[f]] = store[held[f]]]

(* Everything a caller has declared is on the device when sync() returns.  *)
Sync ==
  /\ held' = held
  /\ pending' = pending
  /\ store' = store
  /\ \E S \in SUBSET {held[f] : f \in pending} :
       disk' = [b \in Blocks |-> IF b \in S THEN disk[b] ELSE store[b]]

(* A device error, maybe in the call that declares a store, unwinds every  *)
(* frame; some blocks may have been written.                               *)
Fail ==
  /\ \A f, g \in pending : f = g
  /\ held' = [f \in Frames |-> NoBlock]
  /\ pending' = {}
  /\ store' = store
  /\ \E S \in SUBSET Blocks :
       disk' = [b \in Blocks |-> IF b \in S THEN store[b] ELSE disk[b]]

Close ==
  /\ pending = {}
  /\ pending' = {}
  /\ held' = [f \in Frames |-> NoBlock]
  /\ store' = store
  /\ disk' = store

(* The device fails under the destructor: what it did not get is lost.     *)
CloseFails ==
  /\ CloseMayFail
  /\ pending = {}
  /\ pending' = {}
  /\ held' = [f \in Frames |-> NoBlock]
  /\ \E S \in SUBSET Blocks :
       disk' = [b \in Blocks |-> IF b \in S THEN store[b] ELSE disk[b]]
  /\ store' = disk'

Next ==
  /\ \/ Access
     \/ \E f \in Frames :
          \/ MarkDirty(f) \/ Release(f) \/ Poke(f)
          \/ \E b \in Blocks : Acquire(f, b)
     \/ Sync \/ Fail \/ Close \/ CloseFails
  /\ view' = Seen(store', held')

vars == <<store, disk, held, pending, view>>

Spec == Init /\ [][Next]_vars
=============================================================================
