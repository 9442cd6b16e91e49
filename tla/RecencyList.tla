------------------------------ MODULE RecencyList ------------------------------
(***************************************************************************)
(* What an index cache of bounded size promises: it holds the documents     *)
(* touched last, and when it is full forgets the one that every other was   *)
(* touched since.                                                           *)
(***************************************************************************)
CONSTANTS
  Uris,
  TooMany(_),    \* whether these documents are more than the cache holds
  Nothing        \* no document

VARIABLES
  since,         \* for each cached document, the ones touched since it was
  served         \* the document whose index the last operation handed out

vars == <<since, served>>

Init == since = << >> /\ served = Nothing

Touched(u) ==
  [w \in DOMAIN since \union {u} |-> IF w = u THEN {} ELSE since[w] \union {u}]

Forgotten(list, u) == [w \in DOMAIN list \ {u} |-> list[w] \ {u}]

Store(u) ==
  /\ IF TooMany(DOMAIN Touched(u))
     THEN \E victim \in DOMAIN Touched(u) :
            /\ DOMAIN Touched(u) = Touched(u)[victim] \union {victim}
            /\ since' = Forgotten(Touched(u), victim)
     ELSE since' = Touched(u)
  /\ served' = Nothing

Hit(u) ==
  /\ u \in DOMAIN since
  /\ since' = Touched(u)
  /\ served' = u

Miss(u) ==
  /\ u \notin DOMAIN since
  /\ served' = Nothing
  /\ UNCHANGED since

Forget(u) == since' = Forgotten(since, u) /\ served' = Nothing

ForgetAll == since' = << >> /\ served' = Nothing

Next ==
  \/ \E u \in Uris : Store(u) \/ Hit(u) \/ Miss(u) \/ Forget(u)
  \/ ForgetAll

Spec == Init /\ [][Next]_vars
================================================================================
