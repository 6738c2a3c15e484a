------------------------------ MODULE MCStores ------------------------------
(***************************************************************************)
(* Stores with three shader types in two sources.  One permutation of the  *)
(* vertex shader is not compiled; hashes collide within a type and between *)
(* types of one source.                                                    *)
(***************************************************************************)
EXTENDS Stores, TLC

CONSTANTS vertex, pixel, compute, \* types: two of one source, one alone
          shared, alone           \* sources

MCTypes == {vertex, pixel, compute}
MCSources == {shared, alone}
MCCount == (vertex :> 3) @@ (pixel :> 2) @@ (compute :> 1)
MCCompiled == (vertex :> {0, 2}) @@ (pixel :> {0, 1}) @@ (compute :> {0})
MCSource == (vertex :> shared) @@ (pixel :> shared) @@ (compute :> alone)
MCHash(t, n) == n \div 2
=============================================================================
