----------------------------- MODULE BenchScore -----------------------------
(***************************************************************************)
(* `auto-review bench run` (ar-cli/src/bench.rs): fixtures are reviewed    *)
(* one after the other, the findings matched with the labels, the results  *)
(* summed up and compared with an earlier run.                             *)
(*                                                                         *)
(* A finding or label is a spot, its (path, line).  Rates are kept as      *)
(* <<part, whole>>; latencies are in seconds.                              *)
(***************************************************************************)
EXTENDS Naturals, Sequences, FiniteSets, FiniteSetsExt, SequencesExt

CONSTANTS
    Spots,
    Fixtures,       \* the sequence of fixtures: the labels of each
    MaxFindings,    \* bound: findings a model reports for one fixture
    Latencies,      \* how long one fixture may take
    Baselines,      \* Aggregates of earlier runs
    Verifier        \* is a cheap model configured?

ASSUME BenchAssumption ==
    /\ Fixtures \in Seq(Seq(Spots))
    /\ MaxFindings \in Nat /\ Latencies \subseteq Nat
    /\ Verifier \in BOOLEAN
    /\ \A was \in Baselines :
          was.successes \in Nat /\ was.fixtures \in Nat /\ was.successes <= was.fixtures

VARIABLE bench      \* [pc, results, aggregate, was, exit]

Outputs == UNION {[1..n -> Spots] : n \in 0..MaxFindings}

(* verify_findings drops some findings and leaves the others in order. *)
Verified(output) ==
    {kept \in Outputs :
        \E at \in [1..Len(kept) -> 1..Len(output)] :
            /\ \A i, j \in 1..Len(kept) : i < j => at[i] < at[j]
            /\ \A i \in 1..Len(kept) : kept[i] = output[at[i]]}

(* FixtureResult.  `shown` is the output that was scored. *)
Failed(initial, kept, seconds) ==
    [ok |-> FALSE, initial |-> initial, kept |-> kept, seconds |-> seconds,
     labelled |-> FALSE, matched |-> 0, missed |-> 0, spurious |-> 0,
     shown |-> <<>>]

-----------------------------------------------------------------------------
(* Mutant: a label may be claimed by several findings. *)
ScoreReusing(output, expected) ==
    LET hits == {n \in 1..Len(output) : output[n] \in Range(expected)}
    IN  [matched |-> Cardinality(hits), spurious |-> Len(output) - Cardinality(hits),
         missed |-> Cardinality({i \in 1..Len(expected) :
                                    expected[i] \notin Range(output)})]

(* score_against_labels: each finding claims the first unclaimed label at  *)
(* its spot.                                                               *)
Claiming(claimed, finding, expected) ==
    LET open == {i \in 1..Len(expected) : i \notin claimed /\ expected[i] = finding}
    IN  claimed \cup (IF open = {} THEN {} ELSE {Min(open)})

ScoreAgainstLabels(output, expected) ==
    LET claimed[n \in 0..Len(output)] ==
            IF n = 0 THEN {} ELSE Claiming(claimed[n - 1], output[n], expected)
        matched == Cardinality(claimed[Len(output)])
    IN  [matched |-> matched, spurious |-> Len(output) - matched,
         missed |-> Len(expected) - matched]

Scored(initial, kept, expected, seconds) ==
    LET score == ScoreAgainstLabels(kept, expected)
        labelled == expected # <<>>
    IN  [ok |-> TRUE, initial |-> Len(initial), kept |-> Len(kept),
         seconds |-> seconds, labelled |-> labelled,
         matched |-> IF labelled THEN score.matched ELSE 0,
         missed |-> IF labelled THEN score.missed ELSE 0,
         spurious |-> IF labelled THEN score.spurious ELSE 0, shown |-> kept]

(* run_one: a fixture that cannot be read or parsed takes no time; the     *)
(* reasoning model or the verifier may fail.                               *)
RunOne ==
    /\ bench.pc = "running"
    /\ Len(bench.results) < Len(Fixtures)
    /\ \E output \in Outputs, s \in Latencies :
          \E kept \in (IF Verifier THEN Verified(output) ELSE {output}),
             fail \in {"no", "read", "review", "verify"} :
             LET result == CASE fail = "no" ->
                                  Scored(output, kept, Fixtures[Len(bench.results) + 1], s)
                             [] fail = "read" -> Failed(0, 0, 0)
                             [] fail = "review" -> Failed(0, 0, s)
                             [] fail = "verify" -> Failed(Len(output), Len(output), s)
             IN  /\ fail = "verify" => Verifier
                 /\ bench' = [bench EXCEPT !.results = Append(@, result)]

-----------------------------------------------------------------------------
(* percentile: nearest rank; pct * n / 100 rounded up. *)
Percentile(sorted, pct) ==
    IF sorted = <<>> THEN 0
    ELSE sorted[Max({1, (pct * Len(sorted) + 99) \div 100})]

SumOf(list) ==
    LET sum[n \in 0..Len(list)] == IF n = 0 THEN 0 ELSE sum[n - 1] + list[n]
    IN  sum[Len(list)]

Column(results, field) == [i \in 1..Len(results) |-> results[i][field]]

(* compute_label_score: fixtures with labels that were reviewed; the       *)
(* others count nothing.                                                   *)
LabelScore(results) ==
    [labelled |-> \E i \in 1..Len(results) : results[i].labelled,
     matched |-> SumOf(Column(results, "matched")),
     missed |-> SumOf(Column(results, "missed")),
     spurious |-> SumOf(Column(results, "spurious"))]

Inserted(list, v) ==
    InsertAt(list, Cardinality({i \in 1..Len(list) : list[i] <= v}) + 1, v)

(* The latencies of the successes, in order. *)
SortedLatencies(results) ==
    LET sorted[n \in 0..Len(results)] ==
            IF n = 0 THEN <<>>
            ELSE IF results[n].ok THEN Inserted(sorted[n - 1], results[n].seconds)
            ELSE sorted[n - 1]
    IN  sorted[Len(results)]

AggregateOf(results) ==
    LET latencies == SortedLatencies(results)
    IN  [fixtures |-> Len(results),
         successes |-> Cardinality({i \in 1..Len(results) : results[i].ok}),
         found |-> SumOf(Column(results, "kept")),
         mean |-> IF latencies = <<>> THEN 0 ELSE SumOf(latencies) \div Len(latencies),
         median |-> Percentile(latencies, 50), p99 |-> Percentile(latencies, 99),
         labels |-> LabelScore(results)]

Aggregate ==
    /\ bench.pc = "running" /\ Len(bench.results) = Len(Fixtures)
    /\ bench' = [bench EXCEPT !.pc = "compare", !.aggregate = AggregateOf(bench.results)]

(* Did part/whole fall by more than 5 points?  The code subtracts two      *)
(* doubles: at exactly 5 points either answer can come out.                *)
Fell(was, is) ==
    LET before == was[1] * is[2]
        after == is[1] * was[2]
        limit == was[2] * is[2]
    IN  IF 20 * before = 20 * after + limit THEN {TRUE, FALSE}
        ELSE {20 * before > 20 * after + limit}

(* precision and recall, 0 of nothing. *)
Rate(part, rest) == IF part + rest = 0 THEN <<0, 1>> ELSE <<part, part + rest>>

(* compare: a rate that one side does not have is not compared. *)
SuccessFell(was, is) ==
    IF was.fixtures > 0 /\ is.fixtures > 0
    THEN Fell(<<was.successes, was.fixtures>>, <<is.successes, is.fixtures>>)
    ELSE {FALSE}
RateFell(was, is, rest) ==
    IF was.labelled /\ is.labelled
    THEN Fell(Rate(was.matched, was[rest]), Rate(is.matched, is[rest]))
    ELSE {FALSE}

(* Comparison::is_regression *)
Regressions(was, is) ==
    {s \/ p \/ r \/ is.p99 > was.p99 + 5 :
        s \in SuccessFell(was, is),
        p \in RateFell(was.labels, is.labels, "spurious"),
        r \in RateFell(was.labels, is.labels, "missed")}

(* --baseline with --fail-on-regression *)
Compare ==
    /\ bench.pc = "compare"
    /\ \E was \in Baselines :
          \E regressed \in Regressions(was, bench.aggregate) :
             bench' = [bench EXCEPT !.pc = "ended", !.was = was,
                          !.exit = IF regressed THEN "regression" ELSE "ok"]

NoBench == [pc |-> "running", results |-> <<>>, exit |-> "none",
            aggregate |-> AggregateOf(<<>>), was |-> AggregateOf(<<>>)]

BenchStep == RunOne \/ Aggregate \/ Compare

-----------------------------------------------------------------------------
Times(seq, x) == Cardinality({i \in 1..Len(seq) : seq[i] = x})

(* How many labels and findings can be paired: at each spot, so many of    *)
(* the one as there are of the other.                                      *)
Pairs(expected, output) ==
    Cardinality({p \in Spots \X (1..Len(expected)) :
                    p[2] <= Times(expected, p[1]) /\ p[2] <= Times(output, p[1])})

Seen(i) == bench.results[i].ok /\ Fixtures[i] # <<>>
OfSeen(value) ==
    SumOf([i \in 1..Len(Fixtures) |-> IF Seen(i) THEN value[i] ELSE 0])
Within(v) ==
    Cardinality({i \in 1..Len(Fixtures) :
                    bench.results[i].ok /\ bench.results[i].seconds <= v})

(* The greedy matching is the best there is: at every spot as many labels  *)
(* are matched as labels and findings can be paired, none twice, and       *)
(* matched, missed and spurious partition labels and findings of the       *)
(* fixtures that were reviewed.  The percentiles are nearest ranks of the  *)
(* successes.  A run that loses fixtures looks better by its labels, which *)
(* drop out, but among fewer than 20 fixtures each lost one is reported as *)
(* a regression (bench.rs:195-262, 464-582).                               *)
BenchAddsUp ==
    bench.pc \in {"compare", "ended"} =>
        LET agg == bench.aggregate
        IN  /\ agg.labels.matched
                 = OfSeen([i \in 1..Len(Fixtures) |->
                              Pairs(Fixtures[i], bench.results[i].shown)])
            /\ agg.labels.matched + agg.labels.missed
                 = OfSeen([i \in 1..Len(Fixtures) |-> Len(Fixtures[i])])
            /\ agg.labels.matched + agg.labels.spurious
                 = OfSeen([i \in 1..Len(Fixtures) |-> Len(bench.results[i].shown)])
            /\ (\E i \in 1..Len(Fixtures) : bench.results[i].ok) =>
                 /\ 2 * Within(agg.median) >= agg.successes
                 /\ agg.median = 0 \/ 2 * Within(agg.median - 1) < agg.successes
                 /\ agg.successes < 100 => Within(agg.p99) = agg.successes
            /\ bench.pc = "ended" /\ agg.fixtures < 20
                 /\ bench.was.fixtures = agg.fixtures
                 /\ bench.was.successes > agg.successes
               => bench.exit = "regression"
=============================================================================
