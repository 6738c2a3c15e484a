------------------------------ MODULE AssetCache ------------------------------
(***************************************************************************)
(* The cache of loaded assets: AssetResourceScheduler::AsyncLoad over         *)
(* leo::used_list_cache, a hash map into a list ordered by recent use.       *)
(*                                                                         *)
(* A lookup holds caches_mutex shared, an insertion holds it exclusively.     *)
(* A lookup that hits is no reader, though: find refreshes the entry, that    *)
(* is, splices its node to the front of the list.  The splice is modelled     *)
(* pointer by pointer, so that lookups on two threads interleave in it.  What *)
(* they leave of the list then is no list any more; a ghost remembers that    *)
(* it came to that, and the properties say what holds as long as it did not.  *)
(* An insertion is one step: nobody else holds the mutex.                    *)
(*                                                                         *)
(* Every call of AsyncLoad makes at most one node and one asset; both are     *)
(* known by the number of the call; node 0 is the sentinel of the list.      *)
(***************************************************************************)
EXTENDS Naturals, Sequences, FiniteSets, SequencesExt

CONSTANTS MaxLoads, \* bound: calls of AsyncLoad
          Keys,     \* what is loaded
          Threads,  \* threads that run coroutines
          NoKey,
          MaxUse    \* max_use of used_list_cache

\* What the constants have to be
CacheAllowed ==
  MaxUse \in Nat \ {0} /\ MaxLoads \in Nat /\ NoKey \notin Keys

VARIABLES
  pc,         \* where each call is
  key,        \* what it loads, and the key of its node while that lives
  next, prev, \* used_list, as a ring through Sentinel
  cache,      \* used_cache: from keys to nodes
  running,    \* the call inside the shared lock on each thread
  splice,     \* what the splice on each thread has read
  recency,    \* ghost: keys in the cache, most recently used first
  overlapped  \* ghost: a lookup read the list while another was splicing it

callVars == <<pc, key>>
listVars == <<next, prev>>
lockVars == <<running, splice>>
vars == <<callVars, listVars, cache, lockVars, recency, overlapped>>

Loads == 1..MaxLoads
Sentinel == 0
Nodes == Loads \cup {Sentinel}
None == Sentinel  \* no node, no call

Readers == {t \in Threads : running[t] # None}

\* The nodes met from the first on, until Sentinel; a broken ring may go on
usedList ==
  LET n == Cardinality(Nodes)
      at[i \in 1..n] == IF i = 1 THEN next[Sentinel]
                        ELSE IF at[i - 1] = Sentinel THEN Sentinel
                        ELSE next[at[i - 1]]
  IN [i \in 1..Cardinality({j \in 1..n : at[j] # Sentinel}) |-> at[i]]

-----------------------------------------------------------------------------
(* The lookup, under the shared lock                                        *)

Touched(k) == <<k>> \o RemoveFirst(recency, k)

NoSplice == [stage |-> "none", where |-> None, last |-> None,
             firstPrev |-> None, lastPrev |-> None, wherePrev |-> None]

\* Threads in the middle of a splice, with the list half relinked
Splicing == {t \in Threads : splice[t].stage \notin {"none", "done"}}

\* a coroutine calls AsyncLoad; calls are numbered as they come
Calls(l) == pc[l] = "idle" /\ \A i \in 1..(l - 1) : pc[i] # "idle"

Miss(l, k, t) ==
  /\ Calls(l) /\ running[t] = None /\ k \notin DOMAIN cache
  /\ pc' = [pc EXCEPT ![l] = "loading"] /\ key' = [key EXCEPT ![l] = k]
  /\ UNCHANGED <<listVars, cache, lockVars, recency, overlapped>>

\* splice does nothing for the first node
InPlace(n) == next[Sentinel] = n \/ next[Sentinel] = next[n]

\* find hits: begin() and the node behind the one that moves are read
Hit(l, k, t) ==
  /\ Calls(l) /\ running[t] = None /\ k \in DOMAIN cache
  /\ recency' = Touched(k)
  /\ overlapped' = (overlapped \/ Splicing # {})
  /\ running' = [running EXCEPT ![t] = l]
  /\ splice' = [splice EXCEPT ![t] =
       [NoSplice EXCEPT !.stage = IF InPlace(cache[k]) THEN "done"
                                  ELSE "unlink",
                        !.where = next[Sentinel], !.last = next[cache[k]]]]
  /\ pc' = [pc EXCEPT ![l] = "hit"] /\ key' = [key EXCEPT ![l] = k]
  /\ UNCHANGED <<listVars, cache>>

\* std::list::splice of one node: three next pointers, then three prev
\* pointers, from what was read on the way
Unlink(t) ==
  /\ splice[t].stage = "unlink"
  /\ LET p == prev[cache[key[running[t]]]] IN
     /\ next' = [next EXCEPT ![p] = splice[t].last]
     /\ splice' = [splice EXCEPT ![t].stage = "link", ![t].firstPrev = p]
  /\ UNCHANGED <<callVars, prev, cache, running, recency, overlapped>>

LinkNode(t) ==
  /\ splice[t].stage = "link"
  /\ LET p == prev[splice[t].last] IN
     /\ next' = [next EXCEPT ![p] = splice[t].where]
     /\ splice' = [splice EXCEPT ![t].stage = "front", ![t].lastPrev = p]
  /\ UNCHANGED <<callVars, prev, cache, running, recency, overlapped>>

LinkFront(t) ==
  /\ splice[t].stage = "front"
  /\ LET p == prev[splice[t].where] IN
     /\ next' = [next EXCEPT ![p] = cache[key[running[t]]]]
     /\ splice' = [splice EXCEPT ![t].stage = "prev", ![t].wherePrev = p]
  /\ UNCHANGED <<callVars, prev, cache, running, recency, overlapped>>

LinkBack(t) ==
  /\ splice[t].stage = "prev"
  /\ prev' = [prev EXCEPT ![splice[t].where] = splice[t].lastPrev,
                          ![splice[t].last] = splice[t].firstPrev,
                          ![cache[key[running[t]]]] = splice[t].wherePrev]
  /\ splice' = [splice EXCEPT ![t].stage = "done"]
  /\ UNCHANGED <<callVars, next, cache, running, recency, overlapped>>

\* the asset is copied out and the shared lock released
ReturnHit(t) ==
  /\ splice[t].stage = "done"
  /\ pc' = [pc EXCEPT ![running[t]] = "returned"]
  /\ key' = [key EXCEPT ![running[t]] = NoKey]
  /\ running' = [running EXCEPT ![t] = None]
  /\ splice' = [splice EXCEPT ![t] = NoSplice]
  /\ UNCHANGED <<listVars, cache, recency, overlapped>>

-----------------------------------------------------------------------------
(* The load and the insertion, under the exclusive lock                     *)

\* GetAwaiter throws
LoadThrows(l) ==
  /\ pc[l] = "loading"
  /\ pc' = [pc EXCEPT ![l] = "returned"]
  /\ key' = [key EXCEPT ![l] = NoKey]
  /\ UNCHANGED <<listVars, cache, lockVars, recency, overlapped>>

\* check_max_used: at most one entry above max_use, the back of the list
Victims == IF Cardinality(DOMAIN cache) > MaxUse THEN {prev[Sentinel]} ELSE {}

Kept == [k \in {j \in DOMAIN cache : cache[j] \notin Victims} |-> cache[k]]

\* the list once check_max_used has popped its back
WithoutVictims ==
  IF Victims = {} THEN [next |-> next, prev |-> prev]
  ELSE LET v == prev[Sentinel] IN
       [next |-> [next EXCEPT ![prev[v]] = Sentinel],
        prev |-> [prev EXCEPT ![Sentinel] = prev[v]]]

\* mutant of Inserted: the map keeps the first, the list takes both
InsertedTwice(l) == TRUE

\* emplace_front stays unless the key is in the map already: undo_emplace
Inserted(l) == key[l] \notin DOMAIN Kept

\* GetAwaiter has returned; nobody else was told that the key is loading.
\* Bound: popping the back of a torn list that reads empty is undefined.
Emplace(l) ==
  /\ pc[l] = "loading" /\ Readers = {} /\ Sentinel \notin Victims
  /\ LET list == WithoutVictims
         first == list.next[Sentinel]
         remaining == IF Kept = cache THEN recency
                      ELSE RemoveFirst(recency, key[prev[Sentinel]])
     IN IF Inserted(l)
        THEN /\ next' = [list.next EXCEPT ![Sentinel] = l, ![l] = first]
             /\ prev' = [list.prev EXCEPT ![first] = l, ![l] = Sentinel]
             /\ cache' = [k \in DOMAIN Kept \cup {key[l]} |->
                            IF k = key[l] THEN l ELSE Kept[k]]
             /\ recency' = <<key[l]>> \o remaining
        ELSE /\ next' = list.next /\ prev' = list.prev
             /\ cache' = Kept /\ recency' = remaining
  /\ key' = [n \in Loads |->
               IF n \in Victims \/ (n = l /\ ~Inserted(l)) THEN NoKey
               ELSE key[n]]
  /\ pc' = [pc EXCEPT ![l] = "returned"]
  /\ UNCHANGED <<lockVars, overlapped>>

-----------------------------------------------------------------------------
Init ==
  /\ pc = [l \in Loads |-> "idle"]
  /\ key = [l \in Loads |-> NoKey]
  /\ next = [n \in Nodes |-> Sentinel] /\ prev = [n \in Nodes |-> Sentinel]
  /\ cache = <<>> /\ recency = <<>> /\ overlapped = FALSE
  /\ running = [t \in Threads |-> None]
  /\ splice = [t \in Threads |-> NoSplice]

Splice(t) == Unlink(t) \/ LinkNode(t) \/ LinkFront(t) \/ LinkBack(t)
             \/ ReturnHit(t)

\* coroutines of one thread do not interleave inside the lock
Next ==
  \/ \E l \in Loads : LoadThrows(l) \/ Emplace(l)
  \/ \E l \in Loads, k \in Keys, t \in Threads : Miss(l, k, t) \/ Hit(l, k, t)
  \/ \E t \in Threads : Splice(t)

Spec == Init /\ [][Next]_vars

-----------------------------------------------------------------------------
(* Properties                                                               *)

Stages == {"none", "unlink", "link", "front", "prev", "done"}

TypeOK ==
  /\ pc \in [Loads -> {"idle", "hit", "loading", "returned"}]
  /\ key \in [Loads -> Keys \cup {NoKey}]
  /\ next \in [Nodes -> Nodes] /\ prev \in [Nodes -> Nodes]
  /\ DOMAIN cache \subseteq Keys /\ Range(cache) \subseteq Loads
  /\ running \in [Threads -> Nodes] /\ recency \in Seq(Keys)
  /\ overlapped \in BOOLEAN
  /\ splice \in [Threads -> [stage : Stages, where : Nodes, last : Nodes,
        firstPrev : Nodes, lastPrev : Nodes, wherePrev : Nodes]]
  /\ \A t \in Threads :
       IF running[t] = None THEN splice[t] = NoSplice
       ELSE splice[t].stage # "none" /\ pc[running[t]] = "hit"

\* While no lookup is inside the lock the list holds exactly the nodes of the
\* map and reads the same in both directions, as long as no lookup has read the
\* list while another was splicing it.
ListMatchesCache ==
  Readers = {} /\ ~overlapped =>
    /\ Len(usedList) = Cardinality(DOMAIN cache)
    /\ Range(usedList) = Range(cache)
    /\ \A n \in Range(usedList) \cup {Sentinel} : prev[next[n]] = n

\* The invariant that used_list_cache states of its list (cache.hpp:167): it is
\* as long as the map is large.  False with lookups on two threads.
CountsMatch == Readers = {} => Len(usedList) = Cardinality(DOMAIN cache)

\* The list is ordered by use, so what check_max_used drops is what was used
\* least recently, however lookups and double loads went before.
OrderedByUse ==
  Readers = {} /\ ~overlapped =>
    [i \in DOMAIN usedList |-> key[usedList[i]]] = recency

\* max_use is exceeded by one entry at most.
CacheBounded == ~overlapped => Cardinality(DOMAIN cache) <= MaxUse + 1

\* An asset is taken out of the cache, or replaced by another one of its key,
\* only as the least recently used: a second load of a key that comes late
\* does not displace the first.
OnlyOldestGoes ==
  [][overlapped' \/ \A k \in DOMAIN cache :
       (k \in DOMAIN cache' /\ cache'[k] = cache[k]) \/ k = Last(recency)]_vars
=============================================================================
