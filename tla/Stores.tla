------------------------------- MODULE Stores -------------------------------
(***************************************************************************)
(* What the program keeps for use again: upload and scratch memory that    *)
(* returns when a fence is passed (ResourceRecycling), assets that were    *)
(* loaded (AssetCache) and the compiled shaders of the built-in types      *)
(* (ShaderMap).  They share no variable, so a behaviour follows the part   *)
(* it begins with and the others stand still.                              *)
(***************************************************************************)
EXTENDS ResourceRecycling

CONSTANTS MaxLoads, Keys, Loaders, NoKey, MaxUse,
          Types, Count, Compiled, Sources, Source, Hash(_, _), NoType

VARIABLES part,
          pc, key, next, prev, cache, running, splice, recency,
          overlapped,
          step, permutation, onThread, loaded, sectionMap, section, content,
          returned

assetVars == <<pc, key, next, prev, cache, running, splice, recency,
               overlapped>>
shaderVars == <<step, permutation, onThread, loaded, sectionMap, section,
                content, returned>>

Assets == INSTANCE AssetCache WITH Threads <- Loaders
Shaders == INSTANCE ShaderMap WITH pc <- step, running <- onThread

ASSUME PartsAssumption == Assets!CacheAllowed /\ Shaders!ShadersAllowed
-----------------------------------------------------------------------------
StoresInit ==
  /\ part \in {"memory", "assets", "shaders"}
  /\ Init /\ Assets!Init /\ Shaders!Init

MemoryStep ==
  part = "memory" /\ Next /\ UNCHANGED <<part, assetVars, shaderVars>>
AssetStep ==
  part = "assets" /\ Assets!Next /\ UNCHANGED <<part, vars, shaderVars>>
ShaderStep ==
  part = "shaders" /\ Shaders!Next /\ UNCHANGED <<part, vars, assetVars>>

StoresNext == MemoryStep \/ AssetStep \/ ShaderStep

StoresSpec == StoresInit /\ [][StoresNext]_<<part, vars, assetVars, shaderVars>>
-----------------------------------------------------------------------------
(* Properties of each part while it moves; those of memory are extended      *)

\* The list of the asset cache holds the nodes of its map, ordered by use, and
\* max_use is exceeded by one entry at most, however lookups and loads on the
\* threads go, until one lookup reads the list in the middle of another's
\* splice: the shared lock does not keep them apart (CountsMatch of AssetCache).
CacheOrdered ==
  part = "assets" /\ ~overlapped =>
    /\ Assets!TypeOK /\ Assets!ListMatchesCache /\ Assets!OrderedByUse
    /\ Assets!CacheBounded

\* Until then, what check_max_used drops is the asset that was used least
\* recently, and a second load of a key that comes late does not displace the
\* first.
OldestGoes == Assets!OnlyOldestGoes

\* What FindOrAddShader returned is what GetShader finds from then on, no
\* shader is twice in the map or in a section that was dropped, and no later
\* lookup of a type that did not fail meets the assertion.
ShadersFound ==
  part = "shaders" =>
    /\ Shaders!TypeOK /\ Shaders!ReturnedIsFound /\ Shaders!NothingDropped
    /\ Shaders!LookupsSucceed
=============================================================================
