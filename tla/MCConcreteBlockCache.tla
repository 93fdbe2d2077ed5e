------------------------- MODULE MCConcreteBlockCache -------------------------
(* Small instances of ConcreteBlockCache for TLC.                          *)
EXTENDS ConcreteBlockCache

NoFaults == {}
EvictFaults == {"evict"}
AllFaults == FaultKinds

FrameSymmetry == Permutations(Frames)
=============================================================================
