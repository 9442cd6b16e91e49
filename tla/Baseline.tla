------------------------------- MODULE Baseline -------------------------------
(***************************************************************************)
(* The baseline (crates/rigor-cli/src/baseline.rs) over a stream of        *)
(* diagnostics: what generate records, which bucket claims a diagnostic,   *)
(* what the filter lets through and in which order, what the audit counts  *)
(* and what prune drops.                                                   *)
(*                                                                         *)
(* A diagnostic is a record with file, rule and message; its rule is       *)
(* NoRule when the code's qualified_rule is None.                          *)
(***************************************************************************)
EXTENDS Naturals, Sequences, SequencesExt, FiniteSets

CONSTANTS
    NoRule,          \* the rule of a parse error
    AnyMessage,      \* the message of a bucket that has none
    Occurs(_, _)     \* Occurs(part, text): part occurs in text, so that the
                     \* escaped and unanchored pattern of part matches text

Modes == {"rule", "message"}

Bucket(file, rule, message, count) ==
    [file |-> file, rule |-> rule, message |-> message, count |-> count]
Tuple(b) == <<b.file, b.rule, b.message>>
Keyed(d) == d.rule # NoRule

(* The elements of s that are in S, in their order. *)
Those(s, S) == FlattenSeq([i \in DOMAIN s |-> IF s[i] \in S THEN <<s[i]>> ELSE << >>])

(* The first of the indices, and the indices in the order of the stream. *)
Least(indices) == CHOOSE i \in indices : \A j \in indices : i <= j
InOrder(stream, indices) == Those([i \in DOMAIN stream |-> i], indices)

(* from_diagnostics: a bucket per key, in the order the keys first appear; *)
(* a diagnostic without a rule cannot be recorded.                         *)
FromDiagnostics(stream, mode) ==
    LET key(i)  == <<stream[i].file, stream[i].rule,
                     IF mode = "rule" THEN AnyMessage ELSE stream[i].message>>
        same(i) == {j \in DOMAIN stream : Keyed(stream[j]) /\ key(j) = key(i)}
    IN  FlattenSeq([i \in DOMAIN stream |->
            IF Keyed(stream[i]) /\ i = Least(same(i))
            THEN <<Bucket(key(i)[1], key(i)[2], key(i)[3], Cardinality(same(i)))>> ELSE << >>])

(* claim_bucket: the buckets of its file and rule that take a diagnostic,  *)
(* the message rows that match before the rule rows; the first claims it.  *)
Claimants(buckets, d) ==
    LET own  == {b \in ToSet(buckets) : b.file = d.file /\ b.rule = d.rule}
        hits == {b \in own : b.message # AnyMessage /\ Occurs(b.message, d.message)}
        rows == {b \in own : b.message = AnyMessage}
    IN  IF Keyed(d) THEN Those(buckets, hits) \o Those(buckets, rows) ELSE << >>
Claimed(buckets, d) == Claimants(buckets, d) # << >>
Claim(buckets, d)   == Head(Claimants(buckets, d))

(* The bin of a diagnostic: the tuple of the bucket that claims it, or its *)
(* own file and rule.                                                      *)
Bin(buckets, d) ==
    IF Claimed(buckets, d) THEN Tuple(Claim(buckets, d)) ELSE <<d.file, d.rule>>

Members(buckets, stream, i) ==
    {j \in DOMAIN stream : Keyed(stream[j]) /\ Bin(buckets, stream[j]) = Bin(buckets, stream[i])}
First(buckets, stream, i) == Least(Members(buckets, stream, i))

(* Fault: a bin over its threshold surfaces only once it is twice over. *)
WithinTwice(buckets, stream, i) ==
    LET d == stream[i]
    IN  /\ Claimed(buckets, d)
        /\ Cardinality(Members(buckets, stream, i)) <= Claim(buckets, d).count + 1
(* Fault: a bin is silenced only when it is met exactly. *)
SilencedExactly(buckets, stream, i) ==
    LET d == stream[First(buckets, stream, i)]
    IN  /\ Claimed(buckets, d)
        /\ Cardinality(Members(buckets, stream, i)) = Claim(buckets, d).count
(* A bin is silenced while it is within the count of the bucket that       *)
(* claimed its first member.                                               *)
Silenced(buckets, stream, i) ==
    LET d == stream[First(buckets, stream, i)]
    IN  /\ Claimed(buckets, d)
        /\ Cardinality(Members(buckets, stream, i)) <= Claim(buckets, d).count

(* filter: the surviving indices, bin by bin as the bins first appear, and *)
(* the rows without a rule last; an empty baseline changes nothing.        *)
Surfaced(buckets, stream) ==
    LET keyed == {i \in DOMAIN stream : Keyed(stream[i])}
    IN  IF buckets = << >> THEN [i \in DOMAIN stream |-> i]
        ELSE FlattenSeq([i \in DOMAIN stream |->
                 IF i \in keyed /\ i = First(buckets, stream, i) /\ ~ Silenced(buckets, stream, i)
                 THEN InOrder(stream, Members(buckets, stream, i)) ELSE << >>])
             \o InOrder(stream, DOMAIN stream \ keyed)

(* apply_baseline *)
Filtered(buckets, stream) ==
    LET s == Surfaced(buckets, stream) IN [n \in DOMAIN s |-> stream[s[n]]]

(* audit: the diagnostics claimed under the tuple of a bucket *)
Actual(buckets, stream, b) ==
    Cardinality({i \in DOMAIN stream : /\ Claimed(buckets, stream[i])
                                       /\ Tuple(Claim(buckets, stream[i])) = Tuple(b)})

(* Fault: only a bucket that is exceeded counts as drift. *)
DriftedOver(buckets, stream) ==
    \E i \in DOMAIN buckets : Actual(buckets, stream, buckets[i]) > buckets[i].count
(* baseline_strict_violation: some bucket is not exactly met *)
Drifted(buckets, stream) ==
    \E i \in DOMAIN buckets : Actual(buckets, stream, buckets[i]) # buckets[i].count

(* Fault: a bucket that is met only in part is dropped as well. *)
PrunedReducible(buckets, stream) ==
    Those(buckets, {b \in ToSet(buckets) : Actual(buckets, stream, b) >= b.count})
(* baseline_prune: the buckets that no diagnostic meets are dropped *)
Pruned(buckets, stream) ==
    Those(buckets, {b \in ToSet(buckets) : Actual(buckets, stream, b) # 0})
===============================================================================
