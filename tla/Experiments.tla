---------------------------- MODULE Experiments ----------------------------
(***************************************************************************)
(* A/B tests (engine/ab_testing.py) and the experiments of                 *)
(* engine/advanced_ab_testing.py.                                          *)
(*                                                                         *)
(* A test measures its variants in turn and scores them once.  In an       *)
(* experiment metrics are recorded, by whoever serves the variants, until  *)
(* a sequential test has enough and names a winner, and after that.        *)
(*                                                                         *)
(* Times are small numbers and the weights of the score are tenths; the    *)
(* spread of a variant's times is a number of its own.  Whether a          *)
(* difference is significant is left open, unless there is none.           *)
(***************************************************************************)
EXTENDS Integers, Sequences, FiniteSets, FiniteSetsExt, SequencesExt

CONSTANTS
    NumVariants,    \* of a test or an experiment
    Counts,         \* generations per variant
    MaxTime,        \* bound: processing times, and their spread
    MinSamples,     \* what _calculate_sample_size() asks for
    MaxSamples      \* bound: impressions recorded for a variant

VARIABLES
    results,        \* the VariantResult of each variant that has been measured
    winner,         \* of analyze_results(); 0 for none
    status,         \* of the experiment
    metrics,        \* its VariantMetrics: conversions and processing times
    verdict         \* what sequential_test() has last returned

testVars == <<results, winner>>
experimentVars == <<status, metrics, verdict>>
vars == <<testVars, experimentVars>>

Variants == 1..NumVariants
Result == [total : Counts, successful : 0..Max(Counts), time : 0..MaxTime, spread : 0..MaxTime]

TypeOK ==
    /\ results \in Seq(Result) /\ Len(results) <= NumVariants
    /\ winner \in 0..NumVariants
    /\ status \in {"none", "running", "stopped"}
    /\ \A v \in Variants : metrics[v].times \in Seq(1..MaxTime) /\ metrics[v].conversions <= Len(metrics[v].times)
    /\ verdict \in {"none", "running", "inconclusive"} \X {0} \union {"complete"} \X Variants

NoMetrics == [conversions |-> 0, times |-> <<>>]

Init ==
    /\ results = <<>> /\ winner = 0
    /\ status = "none" /\ metrics = [v \in Variants |-> NoMetrics]
    /\ verdict = <<"none", 0>>

-----------------------------------------------------------------------------
(* analyze_results().  A score is                                          *)
(* success_rate * 0.5 + speed * 0.3 + consistency * 0.2.                   *)

\* Variants with enough data, of which there must be five generations.
Valid(rs) == {v \in DOMAIN rs : rs[v].total >= 5}

Longest(rs) == Max({rs[v].time : v \in Valid(rs)} \union {0})
Widest(rs) == Max({rs[v].spread : v \in Valid(rs)} \union {0})
OrOne(n) == IF n = 0 THEN 1 ELSE n

\* As Score below, with the average time itself for a score.
SlowScore(rs, v) ==
    LET time == OrOne(Longest(rs)) spread == OrOne(Widest(rs))
    IN  5 * rs[v].successful * time * spread
        + (3 * rs[v].time * spread + 2 * (spread - rs[v].spread) * time) * rs[v].total

\* The score of v, times its number of generations and what is the same for all.
Score(rs, v) ==
    LET time == OrOne(Longest(rs)) spread == OrOne(Widest(rs))
    IN  5 * rs[v].successful * time * spread
        + (3 * (time - rs[v].time) * spread + 2 * (spread - rs[v].spread) * time) * rs[v].total

\* The first of those with the highest score.
Winner(rs) ==
    LET NoBetter(w, v) == Score(rs, w) * rs[v].total <= Score(rs, v) * rs[w].total
        best == {v \in Valid(rs) : \A w \in Valid(rs) : NoBetter(w, v)}
    IN  IF best = {} THEN 0 ELSE Min(best)

\* run_test() measures the next variant.  A variant of which nothing succeeded has no
\* times: their average and their spread are zero.
Measure(n) ==
    /\ winner = 0 /\ Len(results) < NumVariants
    /\ \E r \in Result :
        /\ r.total = n /\ r.successful <= n
        /\ (r.successful = 0) = (r.time = 0)
        /\ r.successful <= 1 => r.spread = 0
        /\ results' = Append(results, r)
    /\ UNCHANGED <<winner, experimentVars>>

Analyze ==
    /\ winner = 0 /\ Len(results) = NumVariants
    /\ winner' = Winner(results)
    /\ UNCHANGED <<results, experimentVars>>

-----------------------------------------------------------------------------
(* Experiments.                                                            *)

CreateExperiment ==
    /\ status = "none" /\ status' = "running"
    /\ UNCHANGED <<testVars, metrics, verdict>>

\* record_variant_metrics(), whatever the status.
Record(v) ==
    /\ status # "none" /\ Len(metrics[v].times) < MaxSamples
    /\ \E t \in 1..MaxTime, c \in 0..1 :
          metrics' = [metrics EXCEPT ![v] = [conversions |-> @.conversions + c, times |-> Append(@.times, t)]]
    /\ UNCHANGED <<testVars, status, verdict>>

Sum(s) == FoldSeq(LAMBDA t, sum : t + sum, 0, s)

MeanDifference(a, b) == Sum(a) * Len(b) - Sum(b) * Len(a)

Constant(a) == \A i \in DOMAIN a : a[i] = a[1]

\* compare_variants() calls the variant with the greater mean the better.  The effect of two
\* samples without any spread is set to 0, which is read as the second being better.
Better(v, w) ==
    LET a == metrics[v].times
        b == metrics[w].times
    IN  IF MeanDifference(a, b) > 0 /\ ~(Constant(a) /\ Constant(b)) THEN v ELSE w

Pairs == {p \in Variants \X Variants : p[1] < p[2]}

Differ(p) == MeanDifference(metrics[p[1]].times, metrics[p[2]].times) # 0

\* sequential_test(): once all have enough, one of the significant pairs has the greatest
\* effect and decides.
Enough == \A v \in Variants : Len(metrics[v].times) >= MinSamples

\* As Test below, with a test of too few samples.
TestEarly ==
    /\ status # "none"
    /\ verdict' \in {<<"inconclusive", 0>>} \union {<<"complete", Better(p[1], p[2])>> : p \in {q \in Pairs : Differ(q)}}
    /\ UNCHANGED <<testVars, status, metrics>>

Test ==
    /\ status # "none"
    /\ verdict' \in
         IF ~Enough THEN {<<"running", 0>>}
         ELSE {<<"inconclusive", 0>>}
              \union {<<"complete", Better(p[1], p[2])>> : p \in {q \in Pairs : Differ(q)}}
    /\ UNCHANGED <<testVars, status, metrics>>

StopExperiment ==
    /\ status = "running" /\ status' = "stopped"
    /\ UNCHANGED <<testVars, metrics, verdict>>

TestNext == Analyze \/ \E n \in Counts : Measure(n)
ExperimentNext == CreateExperiment \/ Test \/ StopExperiment \/ \E v \in Variants : Record(v)
Next == TestNext \/ ExperimentNext

Spec == Init /\ [][Next]_vars

-----------------------------------------------------------------------------
(* Properties.                                                             *)

\* Of variants that succeed equally often and are equally consistent the winner is a fastest
\* one, whatever the others are like; five generations are what it takes to win.
WinnerIsFastest ==
    [][winner' # winner =>
        \A v \in Valid(results) :
            LET r == results[v] s == results[winner'] IN
            r.successful * s.total = s.successful * r.total /\ r.spread = s.spread => s.time <= r.time]_vars

\* The winner is a variant that has succeeded at all, if any did ("Automatic winner
\* selection", ab_testing.py:116).
WinnerSucceeded ==
    winner # 0 /\ (\E v \in Valid(results) : results[v].successful > 0) => results[winner].successful > 0

\* No verdict of an early look: it takes MinSamples impressions of each variant.
VerdictHasSamples == verdict[1] \in {"inconclusive", "complete"} => Enough

\* The winner of a sequential test is not slower than all the others ("Lowest average
\* processing time", ab_testing.py:249).
SlowestLoses ==
    [][verdict' # verdict /\ verdict'[1] = "complete" =>
        \E v \in Variants \ {verdict'[2]} :
            MeanDifference(metrics[v].times, metrics[verdict'[2]].times) > 0]_vars
=============================================================================
