--------------------------- MODULE MCCommandLists ---------------------------
(* CommandLists with two loader threads, which are interchangeable. *)
EXTENDS CommandLists, TLC

LoaderSymmetry == Permutations(Loaders)
=============================================================================
