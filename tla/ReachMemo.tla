------------------------------ MODULE ReachMemo ------------------------------
(***************************************************************************)
(* The memo of Typer::local_reach (crates/rigor-infer/src/reach_memo.rs)   *)
(* with the recursion it sits in: what a read of a local can hold          *)
(* (reach.rs), whether a predicate folds (expr_truthiness) and which arms  *)
(* are dead (dead_positions), each of which asks the others.               *)
(*                                                                         *)
(* The evaluators are recursive functions of the typer's state: they take  *)
(* a state and return the answer with the state after it.  A step of the   *)
(* system is one question of the rules to the typer, start to end: a       *)
(* typer serves one thread.  Every question is put to two typers, one      *)
(* that keeps the memo and one that recomputes; the memo must not show.    *)
(***************************************************************************)
EXTENDS Naturals, Sequences, SequencesExt, FiniteSets

CONSTANTS
    Reads,       \* the reads of locals in the file; a read's key on the stack is itself
    Preds,       \* the predicates of its ifs
    ScanOrder,   \* the predicates in source order
    Programs,    \* the files: [writes : Reads -> Seq(Write), cond : Preds -> Reads]
                 \* where writes[r] are the statements that may bind r's local,
                 \* in the order of the read's statement path
    Cap,         \* 4 in the code: the most reads in progress on one stack
    MaxEntries   \* MAX_ENTRIES_PER_KEY

(* What a write stores: a literal, another read's value, an untyped value, *)
(* or an if whose arms are such values.  arm is the arm of an if the write *)
(* stands in, <<predicate, "then" or "else">>, or << >>.                   *)
Lit(b)        == [kind |-> "lit", value |-> b]
Read(r)       == [kind |-> "read", read |-> r]
Untyped       == [kind |-> "untyped"]
If(p, t, e)   == [kind |-> "if", pred |-> p, then |-> t, else |-> e]
Write(v, arm) == [value |-> v, arm |-> arm]

VARIABLES
    program,     \* the file under analysis
    typer,       \* the Typer's cells, with the memo
    plain,       \* the cells of a Typer whose local_reach never looks its memo up
    agreed       \* every question so far had the same answer from both

vars == <<program, typer, plain, agreed>>

(* A Reach is the set of kinds of value that arrive; a pin is the one      *)
(* scalar all of them fold to, or "none".                                  *)
Nothing == [reach |-> {}, pin |-> "unset"]
Unwritten == [reach |-> {"untyped"}, pin |-> "none"]
Unassigned == [reach |-> {"lit"}, pin |-> "nil"]
PinJoin(a, b) == IF a = "unset" \/ a = b THEN b ELSE "none"
Join(a, b) == [reach |-> a.reach \cup b.reach, pin |-> PinJoin(a.pin, b.pin)]

NoDead == [id |-> 0, arms |-> {}]
Barrier == [barrier |-> TRUE, tested |-> {}, folding |-> {}]
Frame   == [barrier |-> FALSE, tested |-> {}, folding |-> {}]

Typer(memoising) ==
    [memoising   |-> memoising,
     truthy      |-> [p \in Preds |-> "unfolded"],   \* truthy_memo
     inFlight    |-> {},                             \* truthy_in_flight
     provisional |-> {},                             \* truthy_provisional
     scanning    |-> FALSE,                          \* dead_in_flight
     settled     |-> FALSE,                          \* dead_cache is Some
     dead        |-> NoDead,                         \* dead_partial, then dead_cache
     memoDead    |-> 0,                              \* ReachMemo.dead, as an identity
     memo        |-> [k \in Reads \X (0 .. Cap) |-> << >>],
     frames      |-> << >>,                          \* reach_frames
     inexact     |-> FALSE]                          \* an audit would have panicked

Init ==
    /\ program \in Programs
    /\ typer = Typer(TRUE)
    /\ plain = Typer(FALSE)
    /\ agreed = TRUE

----------------------------------------------------------------------------
(* The dependency frames.                                                  *)

(* MemoFrames::record *)
Record(s, tested, folding) ==
    IF s.frames = << >> \/ Last(s.frames).barrier
    THEN s
    ELSE [s EXCEPT !.frames[Len(s.frames)].tested  = @ \cup tested,
                   !.frames[Len(s.frames)].folding = @ \cup folding]

Push(s, frame) == [s EXCEPT !.frames = Append(@, frame)]
Pop(s)         == [s EXCEPT !.frames = Front(@)]

(* Typer::current_dead: the object's identity, 0 while there is none *)
CurrentDead(s) == IF s.settled \/ s.scanning THEN s.dead.id ELSE 0
NewDead(s, arms) == [s EXCEPT !.dead = [id |-> @.id + 1, arms |-> arms]]

(* Fault: a re-entered fold is not recorded as a dependency. *)
NoteReentryNowhere(s, p) == s
(* Typer::note_truthy_reentry *)
NoteReentry(s, p) == Record(s, {}, {p})

----------------------------------------------------------------------------
(* The memo's entries.                                                     *)

(* MemoEntry::matches *)
Matches(entry, seen) == entry.tested \cap ToSet(seen) = entry.present

(* The folds an entry saw re-entered still answer None. *)
StillHolds(s, entry) ==
    \A p \in entry.folding : p \in s.inFlight \/ s.truthy[p] = "neither"

(* The lookup of local_reach: entries that match but no longer hold are    *)
(* dropped up to the one that is found, which moves to the front.          *)
Lookup(s, key, seen) ==
    LET entries == s.memo[key]
        hits    == {i \in DOMAIN entries : Matches(entries[i], seen) /\ StillHolds(s, entries[i])}
        first   == IF hits = {} THEN Len(entries) + 1 ELSE CHOOSE i \in hits : \A j \in hits : i <= j
        kept    == SelectSeq(SubSeq(entries, 1, first - 1), LAMBDA e : ~ Matches(e, seen))
        hit     == IF hits = {} THEN << >> ELSE <<entries[first]>>
    IN  [hit |-> hit,
         s   |-> [s EXCEPT !.memo[key] = hit \o kept \o SubSeq(entries, first + 1, Len(entries))]]

(* ReachMemo::reset_unless_valid *)
ResetUnlessValid(s) ==
    IF s.memoDead = CurrentDead(s) THEN s
    ELSE [s EXCEPT !.memoDead = CurrentDead(s), !.memo = [k \in DOMAIN @ |-> << >>]]

(* Fault: an answer is kept although the dead set changed while it was     *)
(* computed.                                                               *)
StoreAlways(s, key, dead, entry) ==
    [s EXCEPT !.memoDead = CurrentDead(s),
              !.memo[key] = <<entry>> \o SubSeq(@, 1, IF Len(@) < MaxEntries THEN Len(@) ELSE MaxEntries - 1)]
(* local_reach_framed: keep the answer unless the dead set changed.        *)
Store(s, key, dead, entry) ==
    IF dead = CurrentDead(s) /\ s.memoDead = dead
    THEN [s EXCEPT !.memo[key] = <<entry>> \o SubSeq(@, 1, IF Len(@) < MaxEntries THEN Len(@) ELSE MaxEntries - 1)]
    ELSE s

----------------------------------------------------------------------------
(* The evaluators.                                                         *)

(* Ask is the one knot of the recursion: what each evaluator asks the      *)
(* others, and itself, about x.                                            *)
RECURSIVE Ask(_, _, _, _), Written(_, _, _, _), Scan(_, _, _, _), Cut(_, _, _, _, _, _)

Result(s, out) == [s |-> s, out |-> out]

(* The arm a predicate's truthiness leaves to run, and the one it kills. *)
LiveSide == [truthy |-> "then", falsey |-> "else", neither |-> "both"]
DeadSide == [truthy |-> "else", falsey |-> "then", neither |-> "none"]

(* Fault: an if assigns definitely although its predicate is not certain. *)
AssignsAnyway(arm, out, dead) == arm = << >> \/ (out # "falsey" /\ arm \notin dead)
(* definitely_assigns: a plain write, or one in the arm a fold keeps *)
Assigns(arm, out, dead) == arm = << >> \/ (LiveSide[out] = arm[2] /\ arm \notin dead)

(* latest_definite_assignment: the last of the statements that assigns *)
Cut(s, writes, dead, seen, i, cut) ==
    IF i > Len(writes) THEN Result(s, cut)
    ELSE LET arm == writes[i].arm
             t   == IF arm = << >> THEN Result(s, "neither") ELSE Ask("truthiness", s, arm[1], seen)
         IN  Cut(t.s, writes, dead, seen, i + 1, IF Assigns(arm, t.out, dead) THEN i ELSE cut)

(* Typer::local_reach_framed around local_reach_uncached: the writes from  *)
(* the cut on, those of dead arms left out, join in source order; with no  *)
(* cut the local may also be unassigned, or never written at all.          *)
Framed(s, r, seen) ==
    LET dead   == CurrentDead(s)
        scan   == Ask("dead", Push(s, Frame), << >>, seen)
        writes == program.writes[r]
        cut    == Cut(scan.s, writes, scan.out, seen, 1, 0)
        Runs(w) == w.arm = << >> \/ w.arm \notin scan.out
        start  == CASE cut.out # 0 -> Nothing
                    [] cut.out = 0 /\ SelectSeq(writes, Runs) = << >> -> Unwritten
                    [] OTHER -> Unassigned
        done   == Written(cut.s, SelectSeq(SubSeq(writes, IF cut.out = 0 THEN 1 ELSE cut.out, Len(writes)), Runs),
                          seen, start)
        mine   == Last(done.s.frames)
        up     == Record(Pop(done.s), mine.tested, mine.folding)
    IN  Result(Store(up, <<r, Len(seen)>>, dead,
                     [tested |-> mine.tested, present |-> mine.tested \cap ToSet(seen),
                      folding |-> mine.folding, out |-> done.out]),
               done.out)

(* Typer::local_reach with RIGOR_REACH_MEMO_AUDIT set *)
LocalReach(s, r, seen) ==
    IF ~ s.memoising THEN Framed(s, r, seen)
    ELSE LET found == Lookup(ResetUnlessValid(s), <<r, Len(seen)>>, seen)
         IN  IF found.hit = << >> THEN Framed(found.s, r, seen)
             ELSE LET e     == Head(found.hit)
                      again == Framed([found.s EXCEPT !.memoising = FALSE], r, seen).out
                  IN  Result([Record(found.s, e.tested, e.folding)
                                EXCEPT !.inexact = @ \/ again # e.out],
                             e.out)

(* The writes of local_reach_uncached *)
Written(s, writes, seen, sofar) ==
    IF writes = << >> THEN Result(s, sofar)
    ELSE LET v     == Head(writes).value
             pin   == Ask("scalar", s, v, seen)
             reach == Ask("value", pin.s, v, seen)
         IN  Written(reach.s, Tail(writes), seen, Join(sofar, [reach |-> reach.out, pin |-> pin.out]))

(* Typer::expr_scalar *)
Scalar(s, v, seen) ==
    CASE v.kind = "lit"  -> Result(s, v.value)
      [] v.kind = "read" ->
           LET asked == Record(s, {v.read}, {})
           IN  IF v.read \in ToSet(seen) \/ Len(seen) >= Cap THEN Result(asked, "none")
               ELSE LET got == Ask("local", asked, v.read, Append(seen, v.read))
                    IN  Result(got.s, IF got.out.reach = {"lit"} THEN got.out.pin ELSE "none")
      [] OTHER -> Result(s, "none")

(* Typer::expr_reach, with root_reach for a read *)
ValueReach(s, v, seen) ==
    CASE v.kind = "lit"     -> Result(s, {"lit"})
      [] v.kind = "untyped" -> Result(s, {"untyped"})
      [] v.kind = "if"      ->
           LET t    == Ask("truthiness", s, v.pred, seen)
               then == Ask("value", t.s, v.then, seen)
           IN  CASE t.out = "truthy" -> then
                 [] t.out = "falsey" -> Ask("value", t.s, v.else, seen)
                 [] OTHER -> LET else == Ask("value", then.s, v.else, seen)
                             IN  Result(else.s, then.out \cup else.out)
      [] v.kind = "read"    ->
           LET pin   == Ask("scalar", s, v, seen)
               asked == Record(pin.s, {v.read}, {})
           IN  CASE pin.out # "none"        -> Result(pin.s, {"lit"})
                 [] v.read \in ToSet(seen)  -> Result(asked, {})
                 [] Len(seen) >= Cap        -> Result(asked, {"untyped"})
                 [] OTHER -> LET got == Ask("local", asked, v.read, Append(seen, v.read))
                             IN  Result(got.s, got.out.reach)

(* Typer::expr_truthiness, its fold behind a barrier *)
Truthiness(s, p, seen) ==
    CASE s.truthy[p] # "unfolded" -> Result(s, s.truthy[p])
      [] s.truthy[p] = "unfolded" /\ p \in s.inFlight -> Result(NoteReentry(s, p), "neither")
      [] OTHER ->
           LET fold == Ask("scalar", Push([s EXCEPT !.inFlight = @ \cup {p}], Barrier),
                           Read(program.cond[p]), seen)
               out  == CASE fold.out = "true" -> "truthy" [] fold.out = "nil" -> "falsey"
                         [] OTHER -> "neither"
           IN  Result([Pop(fold.s) EXCEPT
                          !.inFlight = @ \ {p},
                          !.truthy[p] = out,
                          !.provisional = IF fold.s.scanning THEN @ \cup {p} ELSE @], out)

(* The scan of dead_positions: each predicate in source order, the arms    *)
(* recorded so far published to re-entrant calls before it                 *)
Scan(s, preds, arms, seen) ==
    IF preds = << >> THEN Result(s, arms)
    ELSE LET pred == Head(preds)
             pub  == IF arms = s.dead.arms THEN s ELSE NewDead(s, arms)
             t    == Ask("truthiness", pub, pred, seen)
         IN  Scan(t.s, Tail(preds),
                  IF t.out = "neither" THEN arms ELSE arms \cup {<<pred, DeadSide[t.out]>>}, seen)

(* The end of the scan: its provisional folds are forgotten. *)
EvictProvisional(s) ==
    [s EXCEPT !.provisional = {},
              !.truthy = [p \in Preds |-> IF p \in s.provisional THEN "unfolded" ELSE @[p]]]

(* Typer::dead_positions *)
DeadPositions(s, seen) ==
    IF s.settled \/ s.scanning THEN Result(s, s.dead.arms)
    ELSE LET scan == Scan([NewDead(s, {}) EXCEPT !.scanning = TRUE], ScanOrder, {}, seen)
             done == NewDead(EvictProvisional([scan.s EXCEPT !.scanning = FALSE, !.settled = TRUE]),
                             scan.out)
         IN  Result(done, scan.out)

Ask(what, s, x, seen) ==
    CASE what = "local"      -> LocalReach(s, x, seen)
      [] what = "scalar"     -> Scalar(s, x, seen)
      [] what = "value"      -> ValueReach(s, x, seen)
      [] what = "truthiness" -> Truthiness(s, x, seen)
      [] what = "dead"       -> DeadPositions(s, seen)

----------------------------------------------------------------------------
(* The questions the rules put: what an argument can hold (arg_reach), and *)
(* whether a predicate is certain.                                         *)

Answered(a, b) ==
    /\ typer' = a.s
    /\ plain' = b.s
    /\ agreed' = (agreed /\ a.out = b.out)
    /\ UNCHANGED program

ArgReach(r) == Answered(Ask("value", typer, Read(r), << >>), Ask("value", plain, Read(r), << >>))

Certain(p) == Answered(Ask("truthiness", typer, p, << >>), Ask("truthiness", plain, p, << >>))

Next == \/ \E r \in Reads : ArgReach(r)
        \/ \E p \in Preds : Certain(p)

Spec == Init /\ [][Next]_vars

----------------------------------------------------------------------------
(* Every answer from the memo is the answer recomputing it would give at   *)
(* that moment, on that stack, with the folds that run and have landed:    *)
(* what RIGOR_REACH_MEMO_AUDIT asserts at each hit of local_reach.         *)
HitsAreExact == ~ typer.inexact

(* The memo does not show: whatever was asked before and in whatever       *)
(* order, a typer with the memo answers as one without it, and ends with   *)
(* the same dead arms and the same folds.                                  *)
MemoIsInvisible ==
    /\ agreed
    /\ typer.truthy = plain.truthy
    /\ typer.dead.arms = plain.dead.arms

(* What the reads hold when the file runs: the least sets closed under the *)
(* statements, where an arm runs only on a value its predicate can have.   *)
CanRun(p, side, held) == (IF side = "then" THEN "true" ELSE "nil") \in held[program.cond[p]]

RECURSIVE HeldBy(_, _)
HeldBy(v, held) ==
    CASE v.kind = "lit"     -> {v.value}
      [] v.kind = "untyped" -> {"true", "nil"}
      [] v.kind = "read"    -> held[v.read]
      [] v.kind = "if"      ->
           (IF CanRun(v.pred, "then", held) THEN HeldBy(v.then, held) ELSE {})
           \cup (IF CanRun(v.pred, "else", held) THEN HeldBy(v.else, held) ELSE {})

OtherSide == [then |-> "else", else |-> "then"]
HeldAfter(before, w, held) ==
    IF w.arm = << >> THEN HeldBy(w.value, held)
    ELSE (IF CanRun(w.arm[1], w.arm[2], held) THEN HeldBy(w.value, held) ELSE {})
         \cup (IF CanRun(w.arm[1], OtherSide[w.arm[2]], held) THEN before ELSE {})

HeldWhen(held) ==
    [r \in Reads |-> IF program.writes[r] = << >> THEN {"true", "nil"}
                     ELSE FoldLeft(LAMBDA before, w : HeldAfter(before, w, held),
                                   {"nil"}, program.writes[r])]

Held == FoldLeft(LAMBDA held, i : HeldWhen(held), [r \in Reads |-> {}],
                 [i \in 1 .. 2 * Cardinality(Reads) |-> i])

(* A predicate taken for certain is certain, and an arm recorded as dead   *)
(* never runs, whatever was asked before, of partial scans, of folds that  *)
(* met themselves and of answers from the memo.                            *)
CertainIsCertain ==
    LET held == Held
    IN  /\ \A p \in Preds : /\ typer.truthy[p] = "truthy" => ~ CanRun(p, "else", held)
                            /\ typer.truthy[p] = "falsey" => ~ CanRun(p, "then", held)
        /\ \A arm \in typer.dead.arms : ~ CanRun(arm[1], arm[2], held)
=============================================================================
