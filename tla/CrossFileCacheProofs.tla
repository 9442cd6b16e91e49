-------------------------- MODULE CrossFileCacheProofs --------------------------
(***************************************************************************)
(* The stamps and generations of the index cache, for any set of documents, *)
(* any capacity and any number of operations below the bound.               *)
(***************************************************************************)
EXTENDS CrossFileCache, TLAPS

\* The entries are records for documents, and the counters are numbers.
Shape ==
  /\ entries \in [DOMAIN entries -> CachedIndex]
  /\ DOMAIN entries \subseteq Uris
  /\ clock \in Nat
  /\ generation \in Nat

CacheInv == Shape /\ StampsOrder /\ EntriesAreCurrent

\* What removing any one entry leaves of the invariant: nothing in it can break.
LEMMA WithoutKeeps ==
  ASSUME CacheInv, NEW u
  PROVE  /\ Without(entries, u) \in [DOMAIN entries \ {u} -> CachedIndex]
         /\ DOMAIN Without(entries, u) = DOMAIN entries \ {u}
         /\ \A w \in DOMAIN entries \ {u} : Without(entries, u)[w] = entries[w]
  BY DEF CacheInv, Shape, Without

\* A store puts in the one entry stamped ahead of all the others.
LEMMA StoreKeeps ==
  ASSUME CacheInv, NEW u \in Uris, Store(u)
  PROVE  CacheInv'
<1> DEFINE entry == [generation |-> generation, used |-> clock + 1]
           grown == With(entries, u, entry)
<1>1. entry \in CachedIndex
  BY DEF CacheInv, Shape, CachedIndex
<1>2. /\ DOMAIN grown = DOMAIN entries \union {u}
      /\ \A w \in DOMAIN grown : grown[w] = IF w = u THEN entry ELSE entries[w]
  BY DEF With
<1>3. /\ grown \in [DOMAIN grown -> CachedIndex]
      /\ DOMAIN grown \subseteq Uris
  BY <1>1, <1>2 DEF CacheInv, Shape, With
<1>4. \A w \in DOMAIN grown : grown[w].used \in Nat /\ grown[w].used <= clock + 1
                              /\ grown[w].generation = generation
  BY <1>1, <1>2 DEF CacheInv, Shape, StampsOrder, EntriesAreCurrent, CachedIndex
<1>5. \A v, w \in DOMAIN grown : grown[v].used = grown[w].used => v = w
  <2> SUFFICES ASSUME NEW v \in DOMAIN grown, NEW w \in DOMAIN grown,
                      grown[v].used = grown[w].used
               PROVE  v = w
    OBVIOUS
  <2>1. \A x \in DOMAIN entries : entries[x].used \in Nat /\ entries[x].used <= clock
    BY DEF CacheInv, Shape, StampsOrder, CachedIndex
  <2>2. clock \in Nat
    BY DEF CacheInv, Shape
  <2>3. CASE v = u \/ w = u
    BY <1>2, <2>1, <2>2, <2>3
  <2>4. CASE v # u /\ w # u
    BY <1>2, <2>4 DEF CacheInv, StampsOrder
  <2> QED BY <2>3, <2>4
<1>6. /\ clock' = clock + 1
      /\ UNCHANGED generation
      /\ entries' = grown \/ \E victim \in DOMAIN grown : entries' = Without(grown, victim)
  BY DEF Store, Coldest
<1>7. /\ entries' \in [DOMAIN entries' -> CachedIndex]
      /\ DOMAIN entries' \subseteq DOMAIN grown
      /\ \A w \in DOMAIN entries' : entries'[w] = grown[w]
  <2>1. CASE entries' = grown
    BY <1>3, <2>1
  <2>2. CASE \E victim \in DOMAIN grown : entries' = Without(grown, victim)
    <3> PICK victim \in DOMAIN grown : entries' = Without(grown, victim)
      BY <2>2
    <3> QED BY <1>3 DEF Without
  <2> QED BY <1>6, <2>1, <2>2
<1>8. Shape'
  BY <1>3, <1>6, <1>7 DEF CacheInv, Shape
<1>9. StampsOrder' /\ EntriesAreCurrent'
  BY <1>4, <1>5, <1>6, <1>7 DEF StampsOrder, EntriesAreCurrent
<1> QED BY <1>8, <1>9 DEF CacheInv

\* A hit gives its entry a stamp no other has; a miss changes no entry.
LEMMA GetKeeps ==
  ASSUME CacheInv, NEW u \in Uris, Get(u)
  PROVE  CacheInv'
<1>1. /\ clock \in Nat /\ clock' = clock + 1 /\ generation' = generation
      /\ generation \in Nat
      /\ entries \in [DOMAIN entries -> CachedIndex]
      /\ DOMAIN entries \subseteq Uris
  BY DEF CacheInv, Shape, Get
<1>2. \A w \in DOMAIN entries : entries[w].used \in Nat /\ entries[w].used <= clock
  BY DEF CacheInv, Shape, StampsOrder, CachedIndex
<1>3. CASE Cached(u)
  <2>1. entries' = [entries EXCEPT ![u].used = clock + 1]
    BY <1>3 DEF Get
  <2>2. /\ DOMAIN entries' = DOMAIN entries
        /\ \A w \in DOMAIN entries :
             /\ entries'[w].used = IF w = u THEN clock + 1 ELSE entries[w].used
             /\ entries'[w].generation = entries[w].generation
    BY <1>1, <2>1 DEF CachedIndex
  <2>3. Shape'
    <3>1. [entries[u] EXCEPT !.used = clock + 1] \in CachedIndex
      BY <1>1, <1>3 DEF Cached, CachedIndex
    <3>2. entries' \in [DOMAIN entries -> CachedIndex]
      BY <1>1, <2>1, <3>1
    <3> QED BY <1>1, <2>2, <3>2 DEF Shape
  <2>4. StampsOrder'
    BY <1>1, <1>2, <2>2 DEF CacheInv, StampsOrder
  <2>5. EntriesAreCurrent'
    BY <1>1, <2>2 DEF CacheInv, EntriesAreCurrent
  <2> QED BY <2>3, <2>4, <2>5 DEF CacheInv
<1>4. CASE ~Cached(u)
  <2>1. entries' = entries
    BY <1>4 DEF Get
  <2> QED BY <1>1, <1>2, <2>1 DEF CacheInv, Shape, StampsOrder, EntriesAreCurrent
<1> QED BY <1>3, <1>4

\* An eviction and a swap only take entries away.
LEMMA EvictKeeps ==
  ASSUME CacheInv, NEW u \in Uris, Evict(u)
  PROVE  CacheInv'
<1>1. UNCHANGED <<clock, generation>> /\ entries' = Without(entries, u)
  BY DEF Evict
<1>2. /\ entries' \in [DOMAIN entries \ {u} -> CachedIndex]
      /\ DOMAIN entries' = DOMAIN entries \ {u}
      /\ \A w \in DOMAIN entries \ {u} : entries'[w] = entries[w]
  BY <1>1, WithoutKeeps
<1>3. Shape'
  BY <1>1, <1>2 DEF CacheInv, Shape
<1>4. StampsOrder' /\ EntriesAreCurrent'
  BY <1>1, <1>2 DEF CacheInv, StampsOrder, EntriesAreCurrent
<1> QED BY <1>3, <1>4 DEF CacheInv

LEMMA ClearKeeps ==
  ASSUME CacheInv, Clear
  PROVE  CacheInv'
<1>1. DOMAIN entries' = {} /\ clock' = clock /\ generation' = generation + 1
  BY DEF Clear
<1>2. entries' \in [DOMAIN entries' -> CachedIndex]
  BY <1>1 DEF Clear
<1> QED BY <1>1, <1>2 DEF CacheInv, Shape, StampsOrder, EntriesAreCurrent

LEMMA CacheInvHolds == Spec => []CacheInv
<1>1. Init => CacheInv
  BY DEF Init, CacheInv, Shape, StampsOrder, EntriesAreCurrent
<1>2. CacheInv /\ [Next]_vars => CacheInv'
  <2> SUFFICES ASSUME CacheInv, [Next]_vars PROVE CacheInv'
    OBVIOUS
  <2>1. CASE \E u \in Uris : Store(u)
    BY <2>1, StoreKeeps
  <2>2. CASE \E u \in Uris : Get(u)
    BY <2>2, GetKeeps
  <2>3. CASE \E u \in Uris : Evict(u)
    BY <2>3, EvictKeeps
  <2>4. CASE Clear
    BY <2>4, ClearKeeps
  <2>5. CASE UNCHANGED vars
    BY <2>5 DEF vars, CacheInv, Shape, StampsOrder, EntriesAreCurrent
  <2> QED BY <2>1, <2>2, <2>3, <2>4, <2>5 DEF Next
<1> QED BY <1>1, <1>2, PTL DEF Spec

(***************************************************************************)
(* CrossFileCache::store and get keep the stamps distinct and behind the    *)
(* clock, and swap_project's clear leaves no entry of an older generation:  *)
(* in every reachable state one entry is the coldest, and the generation    *)
(* check of get refuses no entry.                                           *)
(***************************************************************************)
THEOREM CacheIsOrderedAndCurrent == Spec => [](StampsOrder /\ EntriesAreCurrent)
BY CacheInvHolds, PTL DEF CacheInv
--------------------------------------------------------------------------------
(* The recency list *)

(***************************************************************************)
(* A store is one of the list: the new entry is ahead of all, and what must *)
(* go is what every other was touched since.                                *)
(***************************************************************************)
LEMMA StoreRefines ==
  ASSUME CacheInv, NEW u \in Uris, Store(u)
  PROVE  List!Store(u)
<1> DEFINE entry == [generation |-> generation, used |-> clock + 1]
           grown == With(entries, u, entry)
           touched == List!Touched(u)
<1>1. /\ DOMAIN grown = DOMAIN entries \union {u}
      /\ grown[u].used = clock + 1
      /\ \A w \in DOMAIN entries : w # u => grown[w] = entries[w]
      /\ DOMAIN touched = DOMAIN grown
  BY DEF With, List!Touched, Since
<1>2. /\ clock \in Nat
      /\ \A w \in DOMAIN entries : entries[w].used \in Nat /\ entries[w].used <= clock
  BY DEF CacheInv, Shape, StampsOrder, CachedIndex
<1>3. \A w \in DOMAIN grown :
        touched[w] = {v \in DOMAIN grown : grown[v].used > grown[w].used}
  <2> SUFFICES ASSUME NEW w \in DOMAIN grown
               PROVE  touched[w] = {v \in DOMAIN grown : grown[v].used > grown[w].used}
    OBVIOUS
  <2>1. CASE w = u
    BY <1>1, <1>2, <2>1 DEF List!Touched, Since
  <2>2. CASE w # u
    BY <1>1, <1>2, <2>2 DEF List!Touched, Since
  <2> QED BY <2>1, <2>2
<1>4. served' = Nothing
  BY DEF Store
<1>5. CASE ~(TooMany(DOMAIN grown))
  <2>1. entries' = grown
    BY <1>5 DEF Store
  <2>2. Since' = touched
    BY <1>1, <1>3, <2>1 DEF Since, List!Touched
  <2> QED BY <1>1, <1>4, <1>5, <2>2 DEF List!Store
<1>6. CASE TooMany(DOMAIN grown)
  <2>1. PICK victim \in Coldest(grown) : entries' = Without(grown, victim)
    BY <1>6 DEF Store
  <2>2. \A w \in DOMAIN grown : w # victim => grown[w].used > grown[victim].used
    BY <1>1, <1>2, <2>1 DEF Coldest, CacheInv, StampsOrder
  <2>3. victim \in DOMAIN grown
    BY <2>1 DEF Coldest
  <2>4. DOMAIN touched = touched[victim] \union {victim}
    BY <1>1, <1>3, <2>2, <2>3
  <2>5. Since' = List!Forgotten(touched, victim)
    BY <1>1, <1>2, <1>3, <2>1, <2>3 DEF Since, Without, List!Forgotten
  <2> QED BY <1>1, <1>4, <1>6, <2>3, <2>4, <2>5 DEF List!Store
<1> QED BY <1>5, <1>6

\* A hit touches its entry; an entry of another generation is not there to miss.
LEMMA GetRefines ==
  ASSUME CacheInv, NEW u \in Uris, Get(u)
  PROVE  List!Hit(u) \/ List!Miss(u)
<1>1. /\ clock \in Nat
      /\ entries \in [DOMAIN entries -> CachedIndex]
      /\ \A w \in DOMAIN entries : entries[w].used \in Nat /\ entries[w].used <= clock
  BY DEF CacheInv, Shape, StampsOrder, CachedIndex
<1>2. CASE Cached(u)
  <2>1. entries' = [entries EXCEPT ![u].used = clock + 1] /\ served' = u
    BY <1>2 DEF Get
  <2>2. /\ DOMAIN entries' = DOMAIN entries /\ u \in DOMAIN entries
        /\ \A w \in DOMAIN entries :
             entries'[w].used = IF w = u THEN clock + 1 ELSE entries[w].used
    BY <1>1, <1>2, <2>1 DEF CachedIndex, Cached
  <2>3. Since' = [w \in DOMAIN entries |->
                    {v \in DOMAIN entries : entries'[v].used > entries'[w].used}]
    BY <2>2 DEF Since
  <2>4. \A w \in DOMAIN entries :
          {v \in DOMAIN entries : entries'[v].used > entries'[w].used}
            = IF w = u THEN {} ELSE {v \in DOMAIN entries : entries[v].used > entries[w].used}
                                      \union {u}
    BY <1>1, <2>2
  <2>5. Since' = List!Touched(u)
    BY <2>2, <2>3, <2>4 DEF Since, List!Touched
  <2> QED BY <2>1, <2>2, <2>5 DEF List!Hit, Since
<1>3. CASE ~Cached(u)
  <2>1. entries' = entries /\ served' = Nothing /\ u \notin DOMAIN entries
    BY <1>3 DEF Get, Cached, CacheInv, EntriesAreCurrent
  <2> QED BY <2>1 DEF List!Miss, Since
<1> QED BY <1>2, <1>3

LEMMA EvictRefines ==
  ASSUME NEW u \in Uris, Evict(u)
  PROVE  List!Forget(u)
<1>1. entries' = Without(entries, u) /\ served' = Nothing
  BY DEF Evict
<1>2. Since' = List!Forgotten(Since, u)
  BY <1>1 DEF Since, Without, List!Forgotten
<1> QED BY <1>1, <1>2 DEF List!Forget

(***************************************************************************)
(* store, get, evict and clear of CrossFileCache keep exactly the documents *)
(* touched last, in order: each is a step of RecencyList under the mapping  *)
(* by stamps, whatever the capacity and however often it is full.           *)
(***************************************************************************)
THEOREM StampsAreRecency == Spec => ImplementsRecencyList
<1>1. Init => List!Init
  BY DEF Init, List!Init, Since
<1>2. CacheInv /\ [Next]_vars => [List!Next]_(List!vars)
  <2> SUFFICES ASSUME CacheInv, [Next]_vars PROVE List!Next \/ UNCHANGED <<Since, served>>
    BY DEF List!vars
  <2>1. ASSUME NEW u \in Uris, Store(u) PROVE List!Next
    BY <2>1, StoreRefines DEF List!Next
  <2>2. ASSUME NEW u \in Uris, Get(u) PROVE List!Next
    BY <2>2, GetRefines DEF List!Next
  <2>3. ASSUME NEW u \in Uris, Evict(u) PROVE List!Next
    BY <2>3, EvictRefines DEF List!Next
  <2>4. CASE Clear
    BY <2>4 DEF Clear, Since, List!ForgetAll, List!Next
  <2>5. CASE UNCHANGED vars
    BY <2>5 DEF vars, Since
  <2> QED BY <2>1, <2>2, <2>3, <2>4, <2>5 DEF Next
<1> QED BY <1>1, <1>2, CacheInvHolds, PTL DEF Spec, List!Spec, ImplementsRecencyList
================================================================================
