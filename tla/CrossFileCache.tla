----------------------------- MODULE CrossFileCache -----------------------------
(***************************************************************************)
(* The language server's cache of project indexes                           *)
(* (crates/rigor-cli/src/lsp.rs, struct CrossFileCache): one index per       *)
(* document, stamped from a clock on every store and hit, the entry with    *)
(* the lowest stamp evicted past the capacity.  LspServer leaves the        *)
(* evicted entry open; here it is the code's choice, and the hover and      *)
(* completion requests that touch entries are actions too.                  *)
(***************************************************************************)
EXTENDS Naturals, FiniteSets

CONSTANTS
  Uris,
  CacheCap,      \* CROSSFILE_CACHE_CAP
  Nothing,       \* no document
  MaxClock       \* bound: operations are taken below this clock value

ASSUME CapAssumption == CacheCap \in Nat \ {0}

VARIABLES
  entries,       \* the cached indexes: the generation and last stamp of each
  clock,         \* the last stamp given
  generation,    \* of the project context the server is in
  served         \* the document whose index the last operation handed out

vars == <<entries, clock, generation, served>>

CachedIndex == [generation : Nat, used : Nat]

Init ==
  /\ entries = << >>
  /\ clock = 0
  /\ generation = 0
  /\ served = Nothing
--------------------------------------------------------------------------------
\* The entries that may go when one must: those with the lowest stamp.
Coldest(es) == {u \in DOMAIN es : \A w \in DOMAIN es : es[u].used <= es[w].used}

Without(es, u) == [w \in DOMAIN es \ {u} |-> es[w]]

With(es, u, entry) == [w \in DOMAIN es \union {u} |-> IF w = u THEN entry ELSE es[w]]

TooMany(documents) == Cardinality(documents) > CacheCap

\* Fault: the new entry is stamped before the clock moves on.
StoreBeforeTick(u) ==
  LET grown == With(entries, u, [generation |-> generation, used |-> clock]) IN
    /\ clock' = clock + 1
    /\ IF TooMany(DOMAIN grown)
       THEN \E victim \in Coldest(grown) : entries' = Without(grown, victim)
       ELSE entries' = grown
    /\ served' = Nothing
    /\ UNCHANGED generation

\* store, from a live result of u
Store(u) ==
  LET grown == With(entries, u, [generation |-> generation, used |-> clock + 1]) IN
    /\ clock' = clock + 1
    /\ IF TooMany(DOMAIN grown)
       THEN \E victim \in Coldest(grown) : entries' = Without(grown, victim)
       ELSE entries' = grown
    /\ served' = Nothing
    /\ UNCHANGED generation

Cached(u) == u \in DOMAIN entries /\ entries[u].generation = generation

\* Fault: a hit does not count as a use.
GetWithoutTouch(u) ==
  /\ clock' = clock + 1
  /\ served' = IF Cached(u) THEN u ELSE Nothing
  /\ UNCHANGED <<entries, generation>>

\* get, from a hover or completion request in u: the clock moves on in any case;
\* a hit is stamped, an entry of another generation is a miss.
Get(u) ==
  /\ clock' = clock + 1
  /\ entries' = IF Cached(u) THEN [entries EXCEPT ![u].used = clock + 1] ELSE entries
  /\ served' = IF Cached(u) THEN u ELSE Nothing
  /\ UNCHANGED generation

\* evict, when u is closed
Evict(u) ==
  /\ entries' = Without(entries, u)
  /\ served' = Nothing
  /\ UNCHANGED <<clock, generation>>

\* clear, when swap_project installs the next generation
Clear ==
  /\ entries' = << >>
  /\ generation' = generation + 1
  /\ served' = Nothing
  /\ UNCHANGED clock

Next ==
  /\ clock < MaxClock /\ generation < MaxClock
  /\ \/ \E u \in Uris : Store(u) \/ Get(u) \/ Evict(u)
     \/ Clear

Spec == Init /\ [][Next]_vars
--------------------------------------------------------------------------------
(* Properties *)

(***************************************************************************)
(* No two entries carry the same stamp and none is ahead of the clock, so   *)
(* the entry with the lowest stamp is one entry: min_by_key over a HashMap  *)
(* would otherwise evict whichever its iteration order reaches first.       *)
(***************************************************************************)
StampsOrder ==
  /\ \A u, w \in DOMAIN entries : entries[u].used = entries[w].used => u = w
  /\ \A u \in DOMAIN entries : entries[u].used <= clock

(***************************************************************************)
(* The entries are of the current generation, so that the generation check  *)
(* of get never turns a hit into a miss: swap_project clears the cache.     *)
(***************************************************************************)
EntriesAreCurrent == \A u \in DOMAIN entries : entries[u].generation = generation

\* The documents touched since each cached one was: those with a higher stamp.
Since == [u \in DOMAIN entries |-> {w \in DOMAIN entries : entries[w].used > entries[u].used}]

List == INSTANCE RecencyList WITH since <- Since

(***************************************************************************)
(* The stamped cache implements the recency list: what is evicted is always *)
(* the document stored or hit longest ago, through misses, closes and       *)
(* swaps.                                                                   *)
(***************************************************************************)
ImplementsRecencyList == List!Spec
================================================================================
