---------------------------- MODULE MCPascalVolume ----------------------------
(* Small volumes for TLC.                                                  *)
EXTENDS PascalVolume

TwoNames == {m \in Names \X Names : m[1] # m[2]}
AllMoves == Names \X Names

Symmetry == Permutations(Names) \union Permutations(Data)
=============================================================================
