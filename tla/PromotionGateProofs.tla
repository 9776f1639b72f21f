------------------------- MODULE PromotionGateProofs -------------------------
(***************************************************************************)
(* What a reader may conclude from the files that the evaluation leaves,   *)
(* for any gold cases, candidates and thresholds.                          *)
(*                                                                         *)
(* The argument is about names.  A run owns the files of its stamp: no     *)
(* summary is there before its run saves it, and none is written again, so *)
(* what a decision was made from is still there when it is read.           *)
(***************************************************************************)
EXTENDS PromotionGate, FiniteSetTheorems, WellFoundedInduction, TLAPS

\* The types of the variables; the report is that of the last run.
Typed ==
  /\ summaries \in [Stamps -> Reports \cup {Absent, Broken}]
  /\ details \in [Stamps -> Reports \cup {Absent, Broken}]
  /\ decisions \in [Labels -> Decisions \cup {Absent, Broken}]
  /\ pc \in {"idle", "save", "details", "gate"}
  /\ args \in [label : Labels, gate : BOOLEAN, baseline : Stamps \cup {NoBaseline}]
  /\ exit \in {"none", "success", "failure", "killed"}
  /\ runs \in 0..MaxRuns /\ kills \in Nat
  /\ pc # "idle" \/ exit # "none" => runs \in Stamps /\ report \in Reports /\ stamp = runs

\* A summary is there since its own run, and says so.
Owned ==
  \A s \in Stamps :
    /\ summaries[s] \in Reports => summaries[s].generated_at = s
    /\ s > runs \/ (s = runs /\ pc = "save") => summaries[s] = Absent

\* A run that comes to the gate has saved its report.
Saved ==
  /\ pc \in {"details", "gate"} => summaries[stamp] = report
  /\ pc = "gate" => details[stamp] = report

\* A decision is about a run that has begun, and not about the one under way.
Earlier ==
  \A l \in Labels : decisions[l] \in Decisions =>
    /\ decisions[l].candidate <= runs
    /\ pc # "idle" => decisions[l].candidate < runs

\* The decision of a run that decided is about the baseline that it was given.
Compares ==
  gated /\ baseline \notin {Absent, Broken} => decisions[args.label].baseline = args.baseline

IInv == Typed /\ Owned /\ Saved /\ Earlier /\ Compares /\ ExitTellsDecision /\ DecisionIsReproducible

\* A decision that can be made again, as a predicate of the summaries.
reproducible(d, files) ==
  /\ \A s \in {d.candidate, d.baseline} \ {NoBaseline} : files[s] \notin {Absent, Broken}
  /\ d.passed = evaluate_promotion(
       IF d.candidate = NoBaseline THEN NoBaseline ELSE files[d.candidate].metrics,
       IF d.baseline = NoBaseline THEN NoBaseline ELSE files[d.baseline].metrics)

-----------------------------------------------------------------------------
(* Facts about the operators.                                              *)

\* The verdict of the gate is a Boolean (evaluate_promotion).
LEMMA VerdictIsBoolean ==
  ASSUME NEW candidate, NEW other
  PROVE  evaluate_promotion(candidate, other) \in BOOLEAN
BY DEF evaluate_promotion

\* A report is saved under the stamp of its run (save_report).
LEMMA ReportFacts ==
  ASSUME NEW x \in Reports
  PROVE  x.generated_at \in Stamps /\ x \notin {Absent, Broken, NoBaseline}
BY FilesAssumption DEF Reports, saved

\* What the property says of the decisions, decision by decision.
LEMMA ReproducibleFacts ==
  DecisionIsReproducible <=>
    \A l \in Labels : decisions[l] \notin {Absent, Broken} => reproducible(decisions[l], summaries)
BY Zenon DEF DecisionIsReproducible, reproducible

\* A file that is written where there was none takes nothing from a decision.
LEMMA NewFileKeeps ==
  ASSUME Typed, NEW d \in Decisions, reproducible(d, summaries),
         NEW s \in Stamps, summaries[s] = Absent, NEW x
  PROVE  reproducible(d, [summaries EXCEPT ![s] = x])
<1> DEFINE files == [summaries EXCEPT ![s] = x]
<1>1. d.candidate \in Stamps /\ d.baseline \in Stamps \cup {NoBaseline}
  BY DEF Decisions
<1>2. d.candidate # NoBaseline /\ d.candidate # s /\ d.baseline # s
  BY <1>1, FilesAssumption DEF reproducible
<1>3. /\ files[d.candidate] = summaries[d.candidate]
      /\ d.baseline # NoBaseline => files[d.baseline] = summaries[d.baseline]
  BY <1>1, <1>2 DEF Typed
<1> HIDE DEF files
<1>4. reproducible(d, files)
  BY <1>3, <1>2, Zenon DEF reproducible
<1> QED BY <1>4 DEF files

\* The decision of a run is about its own report, and can be made again (main).
LEMMA DecisionFacts ==
  ASSUME IInv, pc = "gate", baseline \notin {Absent, Broken}
  PROVE  /\ decision \in Decisions /\ decision.candidate = stamp
         /\ decision.baseline = args.baseline /\ reproducible(decision, summaries)
<1>1. /\ stamp \in Stamps /\ report \in Reports /\ args.label \in Labels
      /\ args.baseline \in Stamps \cup {NoBaseline} /\ summaries[stamp] = report
  BY DEF IInv, Typed, Saved
<1>2. report \notin {Absent, Broken} /\ stamp # NoBaseline
  BY <1>1, ReportFacts, FilesAssumption
<1>3. /\ decision.passed \in BOOLEAN
      /\ decision.candidate = stamp /\ decision.label = args.label
      /\ decision.baseline = IF baseline = NoBaseline THEN NoBaseline ELSE baseline.generated_at
      /\ decision.passed = evaluate_promotion(report.metrics,
                             IF baseline = NoBaseline THEN NoBaseline ELSE baseline.metrics)
  BY VerdictIsBoolean DEF decision, stamp
<1>4. CASE args.baseline = NoBaseline
  <2>1. baseline = NoBaseline
    BY <1>4 DEF baseline
  <2>2. decision \in Decisions
    BY <1>1, <1>3, <2>1 DEF Decisions, decision, stamp
  <2>3. decision.baseline = NoBaseline
    BY <1>3, <2>1
  <2>4. decision.passed = evaluate_promotion(summaries[stamp].metrics, NoBaseline)
    BY <1>1, <1>3, <2>1
  <2> QED BY <1>1, <1>2, <1>3, <1>4, <2>2, <2>3, <2>4 DEF reproducible
<1>5. CASE args.baseline \in Stamps
  <2>1. baseline = summaries[args.baseline] /\ baseline \in Reports
    BY <1>5, FilesAssumption DEF baseline, IInv, Typed
  <2>2. baseline.generated_at = args.baseline /\ baseline # NoBaseline
    BY <1>5, <2>1, ReportFacts DEF IInv, Owned
  <2>3. decision \in Decisions
    BY <1>1, <1>3, <1>5, <2>2 DEF Decisions, decision, stamp
  <2>4. decision.baseline = args.baseline /\ args.baseline # NoBaseline
    BY <1>3, <1>5, <2>2, FilesAssumption
  <2>5. decision.passed = evaluate_promotion(summaries[stamp].metrics, summaries[args.baseline].metrics)
    BY <1>1, <1>3, <2>1, <2>2
  <2>6. summaries[args.baseline] \notin {Absent, Broken}
    BY <2>1
  <2> QED BY <1>1, <1>2, <1>3, <2>3, <2>4, <2>5, <2>6 DEF reproducible
<1> QED BY <1>1, <1>4, <1>5

-----------------------------------------------------------------------------
(* Sums over the cases.  The prover cannot instantiate the theorems on       *)
(* induction, so the least number of which something fails is looked for.    *)

\* A nonempty set of natural numbers has a least element.
LEMMA LeastNatural ==
  ASSUME NEW S, S \subseteq Nat, S # {}
  PROVE  \E n \in S : \A m \in S : n <= m
<1> DEFINE R == {x \in Nat \X Nat : x[1] < x[2]}
<1>1. IsWellFoundedOn(R, Nat)
  BY NatLessThanWellFounded DEF OpToRel
<1>2. PICK n \in S : \A m \in S : ~(<<m, n>> \in R)
  BY <1>1, WFMin
<1>3. \A m \in S : ~(m < n)
  BY <1>2
<1> QED BY <1>3

\* The element that a sum takes first, and what it leaves.
Chosen(s) == CHOOSE x \in s : TRUE
Rest(s) == s \ {Chosen(s)}

\* g adds up v over every set of a family.
SumsUp(g, v, family) ==
  g = [s \in family |-> IF s = {} THEN 0 ELSE v[Chosen(s)] + g[Rest(s)]]

\* The subsets with no more than n elements.
UpTo(S, n) == {s \in SUBSET S : Cardinality(s) <= n}

\* One element is taken from a set, and one fewer is left.
LEMMA RestFacts ==
  ASSUME NEW S, IsFiniteSet(S), NEW s \in SUBSET S, s # {}
  PROVE  /\ Chosen(s) \in s /\ Rest(s) \in SUBSET S
         /\ Cardinality(s) \in Nat /\ Cardinality(Rest(s)) = Cardinality(s) - 1
         /\ Cardinality(Rest(s)) \in Nat
<1>1. Chosen(s) \in s
  BY DEF Chosen
<1>2. IsFiniteSet(s)
  BY FS_Subset
<1> QED BY <1>1, <1>2, FS_RemoveElement, FS_CardinalityType DEF Rest

\* A sum is defined for every subset, by the number of its elements.
LEMMA SumExists ==
  ASSUME NEW S, IsFiniteSet(S), NEW v
  PROVE  \E g : SumsUp(g, v, SUBSET S)
<1> DEFINE Summed(n) == \E g : SumsUp(g, v, UpTo(S, n))
           Failing == {n \in Nat : ~Summed(n)}
<1>1. Summed(0)
  <2> DEFINE g == [s \in UpTo(S, 0) |-> 0]
  <2>1. \A s \in UpTo(S, 0) : s = {}
    BY RestFacts DEF UpTo
  <2>2. SumsUp(g, v, UpTo(S, 0))
    BY <2>1 DEF SumsUp
  <2> QED BY <2>2
<1>2. ASSUME NEW n \in Nat, Summed(n) PROVE Summed(n + 1)
  <2>1. PICK g : SumsUp(g, v, UpTo(S, n))
    BY <1>2
  <2> DEFINE h == [s \in UpTo(S, n + 1) |-> IF s = {} THEN 0 ELSE v[Chosen(s)] + g[Rest(s)]]
  <2>2. \A s \in UpTo(S, n) : h[s] = g[s] 
    <3>1. \A s \in UpTo(S, n) : s \in UpTo(S, n + 1)
      BY FS_Subset, FS_CardinalityType DEF UpTo
    <3> QED BY <2>1, <3>1 DEF SumsUp
  <2>3. \A s \in UpTo(S, n + 1) : s # {} => Rest(s) \in UpTo(S, n)
    BY RestFacts DEF UpTo
  <2>4. \A s \in UpTo(S, n + 1) : s # {} => h[Rest(s)] = g[Rest(s)]
    BY <2>2, <2>3
  <2>5. h = [s \in UpTo(S, n + 1) |-> IF s = {} THEN 0 ELSE v[Chosen(s)] + h[Rest(s)]]
    BY <2>4
  <2> QED BY <2>5 DEF SumsUp
<1>3. Failing = {}
  <2> SUFFICES ASSUME Failing # {} PROVE FALSE
    OBVIOUS
  <2>1. PICK n \in Failing : \A m \in Failing : n <= m
    BY LeastNatural
  <2>2. n # 0 /\ n - 1 \in Nat /\ n - 1 \notin Failing
    BY <1>1, <2>1
  <2>3. Summed(n - 1)
    BY <2>2
  <2> HIDE DEF Summed
  <2> QED BY <1>2, <2>1, <2>2, <2>3
<1>4. Cardinality(S) \in Nat
  BY FS_CardinalityType
<1>5. UpTo(S, Cardinality(S)) = SUBSET S
  BY FS_Subset DEF UpTo
<1>6. Summed(Cardinality(S))
  BY <1>3, <1>4
<1> QED BY <1>5, <1>6

\* A sum grows with what is added up.
LEMMA SumGrows ==
  ASSUME NEW S, IsFiniteSet(S), NEW v \in [S -> Nat], NEW w \in [S -> Nat],
         \A x \in S : v[x] <= w[x],
         NEW g, SumsUp(g, v, SUBSET S), NEW h, SumsUp(h, w, SUBSET S)
  PROVE  g[S] \in Nat /\ h[S] \in Nat /\ g[S] <= h[S]
<1> DEFINE Grows(s) == g[s] \in Nat /\ h[s] \in Nat /\ g[s] <= h[s]
           Failing == {n \in Nat : \E s \in SUBSET S : Cardinality(s) = n /\ ~Grows(s)}
<1>1. ASSUME NEW s \in SUBSET S, s # {}, Grows(Rest(s)) PROVE Grows(s)
  <2>1. Chosen(s) \in S
    BY <1>1, RestFacts
  <2>2. v[Chosen(s)] \in Nat /\ w[Chosen(s)] \in Nat /\ v[Chosen(s)] <= w[Chosen(s)]
    BY <2>1
  <2>3. g[s] = v[Chosen(s)] + g[Rest(s)] /\ h[s] = w[Chosen(s)] + h[Rest(s)]
    BY <1>1 DEF SumsUp
  <2> QED BY <1>1, <2>2, <2>3
<1>2. Grows({})
  <2>1. g[{}] = 0 /\ h[{}] = 0
    BY DEF SumsUp
  <2> QED BY <2>1
<1> HIDE DEF Grows
<1>3. Failing = {}
  <2> SUFFICES ASSUME Failing # {} PROVE FALSE
    OBVIOUS
  <2>1. PICK n \in Failing : \A m \in Failing : n <= m
    BY LeastNatural
  <2>2. PICK s \in SUBSET S : Cardinality(s) = n /\ ~Grows(s)
    BY <2>1
  <2>3. s # {}
    BY <1>2, <2>2
  <2>4. Rest(s) \in SUBSET S /\ Cardinality(Rest(s)) \in Nat /\ Cardinality(Rest(s)) = n - 1 /\ n \in Nat
    BY <2>2, <2>3, RestFacts
  <2>5. Cardinality(Rest(s)) \notin Failing
    BY <2>1, <2>4
  <2>6. Grows(Rest(s))
    BY <2>4, <2>5
  <2> QED BY <1>1, <2>2, <2>3, <2>6
<1>4. Cardinality(S) \in Nat
  BY FS_CardinalityType
<1>5. Grows(S)
  BY <1>3, <1>4
<1> QED BY <1>5 DEF Grows

\* The sum in metrics.
PrecisionSum(r) == MapThenSumSet(LAMBDA c : precision(c, r[c].found), Cases)

\* It is a sum of this kind.
LEMMA PrecisionsSumUp ==
  ASSUME IsFiniteSet(Cases), NEW r, NEW v, v = [c \in Cases |-> precision(c, r[c].found)]
  PROVE  \E g : /\ SumsUp(g, v, SUBSET Cases)
                /\ PrecisionSum(r) = g[Cases]
<1> DEFINE Sums(g) ==
      g = [s \in SUBSET Cases |->
            IF s = {} THEN 0
            ELSE precision(CHOOSE x \in s : TRUE, r[CHOOSE x \in s : TRUE].found)
                 + g[s \ {CHOOSE x \in s : TRUE}]]
<1>1. ASSUME NEW g PROVE Sums(g) <=> SumsUp(g, v, SUBSET Cases)
  <2>1. \A s \in SUBSET Cases : s # {} =>
          v[Chosen(s)] = precision(CHOOSE x \in s : TRUE, r[CHOOSE x \in s : TRUE].found)
    BY DEF Chosen
  <2> QED BY <2>1 DEF SumsUp, Chosen, Rest
<1>2. \E g : Sums(g)
  BY <1>1, SumExists
<1> DEFINE g == CHOOSE g : Sums(g)
<1>3. Sums(g)
  BY <1>2
<1>4. PrecisionSum(r) = g[Cases]
  BY DEF PrecisionSum, MapThenSumSet, MapThenFoldSet
<1> HIDE DEF Sums, g
<1> QED BY <1>1, <1>3, <1>4

-----------------------------------------------------------------------------
(* Better answers and the gate.                                            *)

\* A metric of at least as much, out of as many.
NoLess(m, n) == {m, n} \subseteq Nat \X Nat /\ n[2] = m[2] /\ m[1] <= n[1]

\* The results of a candidate: what a case has found is some of what it expects.
Result(r) == \A c \in Cases : r[c].found \in 0..Gold[c].expected

\* A case that finds more has a higher precision, up to the whole of it.
LEMMA PrecisionGrows ==
  ASSUME NEW c \in Cases, NEW m \in 0..Gold[c].expected, NEW n \in 0..Gold[c].expected, m <= n
  PROVE  /\ precision(c, m) \in Nat /\ precision(c, n) \in Nat
         /\ precision(c, m) <= precision(c, n)
<1>1. Gold[c].expected \in Nat /\ Whole \in Nat
  BY GateAssumption
<1>2. CASE Gold[c].expected = 0
  BY <1>1, <1>2 DEF precision
<1>3. CASE Gold[c].expected # 0
  <2>1. PICK k \in Nat : k = Whole \div Gold[c].expected
    BY <1>1, <1>3
  <2>2. m * k \in Nat /\ n * k \in Nat /\ m * k <= n * k
    BY <1>1
  <2> QED BY <1>3, <2>1, <2>2 DEF precision
<1> QED BY <1>2, <1>3

\* The share of a set grows with the cases that count.
LEMMA ShareGrows ==
  ASSUME NEW S, IsFiniteSet(S), NEW P, NEW Q, S \cap P \subseteq Q
  PROVE  NoLess(share(S, P), share(S, Q))
<1>1. IsFiniteSet(S \cap P) /\ IsFiniteSet(S \cap Q) /\ S \cap P \subseteq S \cap Q
  BY FS_Subset
<1>2. /\ Cardinality(S) \in Nat /\ Cardinality(S \cap P) \in Nat /\ Cardinality(S \cap Q) \in Nat
      /\ Cardinality(S \cap P) <= Cardinality(S \cap Q)
  BY <1>1, FS_CardinalityType, FS_Subset
<1> QED BY <1>2 DEF share, fraction, NoLess

\* No metric is lower, and no failure is added, when no result is worse (run_cases).
LEMMA MetricsGrow ==
  ASSUME NEW r, Result(r), NEW s, Result(s),
         \A c \in Cases : stronger(s[c], r[c])
  PROVE  /\ \A n \in Absolute : NoLess(metrics(r)[n], metrics(s)[n])
         /\ NoLess(metrics(s).unauthorized_failures, metrics(r).unauthorized_failures)
<1> DEFINE answered(x) == {c \in Cases : x[c].answered}
           passed(x) == {c \in Cases : x[c].passed}
           cited(x) == {c \in Cases : x[c].citation_presence}
           faithful(x) == {c \in Cases : x[c].faithfulness_proxy_pass}
           leaks(x) == {c \in of_category("unauthorized_role") : x[c].unauthorized_retrieval_failure}
<1> USE GateAssumption
<1>1. /\ answered(s) = answered(r) /\ passed(r) \subseteq passed(s) /\ cited(r) \subseteq cited(s)
      /\ faithful(r) \subseteq faithful(s) /\ leaks(s) \subseteq leaks(r)
  BY DEF stronger, of_category
<1>2. /\ \A category : IsFiniteSet(of_category(category))
      /\ IsFiniteSet(answered(r)) /\ IsFiniteSet(leaks(r))
  BY FS_Subset DEF of_category
<1>3. NoLess(fraction(PrecisionSum(r), Whole * Cardinality(Cases)),
             fraction(PrecisionSum(s), Whole * Cardinality(Cases)))
  <2> DEFINE v == [c \in Cases |-> precision(c, r[c].found)]
             w == [c \in Cases |-> precision(c, s[c].found)]
  <2>1. \A c \in Cases : v[c] \in Nat /\ w[c] \in Nat /\ v[c] <= w[c]
    <3> SUFFICES ASSUME NEW c \in Cases
                 PROVE  v[c] \in Nat /\ w[c] \in Nat /\ v[c] <= w[c]
      OBVIOUS
    <3>1. r[c].found \in 0..Gold[c].expected /\ s[c].found \in 0..Gold[c].expected
      BY DEF Result
    <3>2. Gold[c].expected \in Nat /\ r[c].found <= s[c].found
      BY GateAssumption, <3>1 DEF stronger
    <3> QED BY <3>1, <3>2, PrecisionGrows
  <2>2. PICK g : SumsUp(g, v, SUBSET Cases) /\ PrecisionSum(r) = g[Cases]
    BY PrecisionsSumUp
  <2>3. PICK h : SumsUp(h, w, SUBSET Cases) /\ PrecisionSum(s) = h[Cases]
    BY PrecisionsSumUp
  <2>4. v \in [Cases -> Nat] /\ w \in [Cases -> Nat]
    BY <2>1
  <2> HIDE DEF v, w
  <2>5. PrecisionSum(r) \in Nat /\ PrecisionSum(s) \in Nat /\ PrecisionSum(r) <= PrecisionSum(s)
    BY <2>1, <2>2, <2>3, <2>4, SumGrows
  <2>6. Whole * Cardinality(Cases) \in Nat
    BY FS_CardinalityType
  <2> QED BY <2>5, <2>6 DEF NoLess, fraction
<1>4. NoLess(metrics(s).unauthorized_failures, metrics(r).unauthorized_failures)
  <2>1. /\ Cardinality(leaks(s)) \in Nat /\ Cardinality(leaks(r)) \in Nat
        /\ Cardinality(leaks(s)) <= Cardinality(leaks(r))
    BY <1>1, <1>2, FS_Subset, FS_CardinalityType
  <2>2. /\ metrics(s).unauthorized_failures = <<Cardinality(leaks(s)), 1>>
        /\ metrics(r).unauthorized_failures = <<Cardinality(leaks(r)), 1>>
    BY DEF metrics
  <2> QED BY <2>1, <2>2 DEF NoLess
<1>5. /\ NoLess(metrics(r).accuracy, metrics(s).accuracy)
      /\ NoLess(metrics(r).exact_lookup, metrics(s).exact_lookup)
      /\ NoLess(metrics(r).semantic, metrics(s).semantic)
      /\ NoLess(metrics(r).citation_presence, metrics(s).citation_presence)
      /\ NoLess(metrics(r).faithfulness, metrics(s).faithfulness)
  <2>1. /\ metrics(r).accuracy = share(Cases, passed(r)) /\ metrics(s).accuracy = share(Cases, passed(s))
        /\ metrics(r).exact_lookup = share(of_category("exact_lookup"), passed(r))
        /\ metrics(s).exact_lookup = share(of_category("exact_lookup"), passed(s))
        /\ metrics(r).semantic = share(of_category("semantic_lookup"), passed(r))
        /\ metrics(s).semantic = share(of_category("semantic_lookup"), passed(s))
        /\ metrics(r).citation_presence = share(answered(r), cited(r))
        /\ metrics(s).citation_presence = share(answered(s), cited(s))
        /\ metrics(r).faithfulness = share(answered(r), faithful(r))
        /\ metrics(s).faithfulness = share(answered(s), faithful(s))
    BY DEF metrics
  <2> HIDE DEF answered, passed, cited, faithful
  <2> QED BY <1>1, <1>2, <2>1, ShareGrows
<1>6. NoLess(metrics(r).context_precision, metrics(s).context_precision)
  BY <1>3 DEF metrics, PrecisionSum
<1> QED BY <1>4, <1>5, <1>6 DEF Absolute

\* What was at least a floor still is.
LEMMA FloorKept ==
  ASSUME NEW m, NEW n, NoLess(m, n), NEW h \in Nat, at_least(m, h)
  PROVE  at_least(n, h)
BY DEF NoLess, at_least

\* What kept to a baseline still does.
LEMMA ComparisonKept ==
  ASSUME NEW m, NEW n, NoLess(m, n), NEW b \in Nat \X Nat, NEW t \in Nat, keeps(m, b, t)
  PROVE  keeps(n, b, t)
<1>1. /\ m[1] \in Nat /\ n[1] \in Nat /\ n[2] \in Nat /\ b[1] \in Nat /\ b[2] \in Nat
      /\ m[1] <= n[1] /\ m[2] = n[2]
  BY DEF NoLess
<1>2. \A x, y, z \in Nat : x <= y => 100 * x * z <= 100 * y * z
  OBVIOUS
<1>3. 100 * m[1] * b[2] <= 100 * n[1] * b[2]
  BY <1>1, <1>2
<1>4. (100 * b[1] - t * b[2]) * n[2] \in Int /\ 100 * m[1] * b[2] \in Int /\ 100 * n[1] * b[2] \in Int
  BY <1>1
<1> QED BY <1>1, <1>3, <1>4 DEF keeps

\* A report holds the results of a candidate, and their metrics (run_cases).
LEMMA ReportHolds ==
  ASSUME NEW x \in Reports
  PROVE  /\ Result(x.cases) /\ DOMAIN x.cases = Cases /\ x.metrics = metrics(x.cases)
         /\ \A n \in Absolute : x.metrics[n] \in Nat \X Nat
<1>1. PICK a \in Candidates : x.cases = run_cases(a).cases /\ x.metrics = run_cases(a).metrics
  BY DEF Reports, saved
<1>2. x.cases = [c \in Cases |-> run_case(c, a[c])] /\ x.metrics = metrics(x.cases)
  BY <1>1 DEF run_cases
<1>3. Result(x.cases)
  BY <1>2, GateAssumption DEF Result, run_case
<1>4. \A c \in Cases : stronger(x.cases[c], x.cases[c])
  BY <1>3, GateAssumption DEF Result, stronger
<1>5. \A n \in Absolute : NoLess(x.metrics[n], x.metrics[n])
  BY <1>2, <1>3, <1>4, MetricsGrow
<1> QED BY <1>2, <1>3, <1>5 DEF NoLess

\* The gate passes what is no worse than what it passed, given a baseline (evaluate_promotion).
LEMMA StrongerPasses ==
  ASSUME NEW r, Result(r), NEW s, Result(s), \A c \in Cases : stronger(s[c], r[c]),
         NEW other, other # NoBaseline => \A n \in Compared : other[n] \in Nat \X Nat,
         evaluate_promotion(metrics(r), other)
  PROVE  evaluate_promotion(metrics(s), other)
<1> DEFINE m == metrics(r)
           n == metrics(s)
<1>1. /\ \A k \in Absolute : NoLess(m[k], n[k])
      /\ NoLess(n.unauthorized_failures, m.unauthorized_failures)
  BY MetricsGrow
<1> HIDE DEF m, n
<1>2. evaluate_promotion(m, other)
  BY DEF m
<1>3. \A k \in Absolute : at_least(n[k], Thresholds.minimum[k])
  BY <1>1, <1>2, FloorKept, ThresholdsAssumption DEF evaluate_promotion
<1>4. at_most(n.unauthorized_failures, 100 * Thresholds.max_unauthorized)
  BY <1>1, <1>2, ThresholdsAssumption DEF evaluate_promotion, at_most, NoLess
<1>5. ASSUME other # NoBaseline PROVE no_regression(n, other)
  <2>1. Compared \subseteq Absolute
    BY DEF Compared, Absolute
  <2>2. \A k \in Compared : keeps(m[k], other[k], Thresholds.regression[k])
    BY <1>2, <1>5 DEF evaluate_promotion, no_regression
  <2> QED BY <1>1, <1>5, <2>1, <2>2, ComparisonKept, ThresholdsAssumption DEF no_regression
<1>6. evaluate_promotion(n, other)
  BY <1>3, <1>4, <1>5 DEF evaluate_promotion
<1> QED BY <1>6 DEF n

-----------------------------------------------------------------------------
(* The inductive invariant.                                                *)

\* The steps that write no summary and no decision keep what was decided.
LEMMA DecisionsKept ==
  ASSUME DecisionIsReproducible, UNCHANGED <<summaries, decisions>>
  PROVE  DecisionIsReproducible'
BY Zenon DEF DecisionIsReproducible

\* The step that writes the summary of the run under way keeps what was decided.
LEMMA SummaryKeepsDecisions ==
  ASSUME IInv, pc = "save", NEW x, summaries' = [summaries EXCEPT ![stamp] = x],
         UNCHANGED decisions
  PROVE  DecisionIsReproducible'
<1>1. stamp \in Stamps /\ summaries[stamp] = Absent
  BY DEF IInv, Typed, Owned
<1>2. ASSUME NEW l \in Labels, decisions[l] \notin {Absent, Broken}
      PROVE  reproducible(decisions[l], summaries')
  <2>1. decisions[l] \in Decisions /\ reproducible(decisions[l], summaries)
    BY <1>2, ReproducibleFacts DEF IInv, Typed
  <2> QED BY <1>1, <2>1, NewFileKeeps DEF IInv
<1>3. \A l \in Labels : decisions'[l] \notin {Absent, Broken} => reproducible(decisions'[l], summaries')
  BY <1>2
<1> QED BY <1>3, Zenon DEF DecisionIsReproducible, reproducible

\* The invariant holds at the start.
LEMMA Initially == Init => IInv
<1> SUFFICES ASSUME Init PROVE IInv
  OBVIOUS
<1>1. args \in [label : Labels, gate : BOOLEAN, baseline : Stamps \cup {NoBaseline}]
  BY GateAssumption DEF Init
<1>2. Typed
  BY <1>1, GateAssumption DEF Init, Typed
<1>3. Owned
  BY FilesAssumption DEF Init, Owned
<1>4. Saved /\ Earlier /\ Compares /\ ExitTellsDecision /\ DecisionIsReproducible
  BY FilesAssumption DEF Init, Saved, Earlier, Compares, ExitTellsDecision, gated, DecisionIsReproducible
<1> QED BY <1>2, <1>3, <1>4 DEF IInv

\* A run begins.
LEMMA EvaluateKeeps ==
  ASSUME IInv, Evaluate
  PROVE  IInv'
<1>1. runs' \in Stamps /\ report' \in Reports /\ stamp' = runs'
  BY GateAssumption DEF Evaluate, IInv, Typed, Stamps, Reports, saved, stamp
<1>2. args' \in [label : Labels, gate : BOOLEAN, baseline : Stamps \cup {NoBaseline}]
  BY DEF Evaluate
<1>3. Typed'
  BY <1>1, <1>2 DEF Evaluate, IInv, Typed, Stamps
<1>4. Owned'
  BY <1>1 DEF Evaluate, IInv, Typed, Owned, Stamps
<1>5. Saved' /\ Compares' /\ ExitTellsDecision'
  BY DEF Evaluate, Saved, Compares, ExitTellsDecision, gated
<1>6. DecisionIsReproducible'
  BY DecisionsKept DEF Evaluate, IInv
<1>7. Earlier'
  BY DEF Evaluate, IInv, Typed, Earlier, Decisions, Stamps
<1> QED BY <1>3, <1>4, <1>5, <1>6, <1>7 DEF IInv

\* The summary is saved, or broken off.
LEMMA SummaryKeeps ==
  ASSUME IInv, SaveSummary \/ KillInSummary
  PROVE  IInv'
<1>1. PICK x \in {report, Broken} : summaries' = [summaries EXCEPT ![stamp] = x]
  BY DEF SaveSummary, KillInSummary
<1>2. /\ pc = "save" /\ stamp' = stamp /\ stamp \in Stamps /\ stamp = runs
      /\ report' = report /\ report \in Reports
      /\ UNCHANGED <<details, decisions, args, runs>>
  BY DEF SaveSummary, KillInSummary, Kill, IInv, Typed, stamp
<1>3. summaries' \in [Stamps -> Reports \cup {Absent, Broken}]
  BY <1>1, <1>2 DEF IInv, Typed
<1>4. Typed'
  BY <1>2, <1>3 DEF SaveSummary, KillInSummary, Kill, Ends, IInv, Typed
<1>5. pc' # "save"
  BY DEF SaveSummary, KillInSummary, Kill, Ends
<1>6. Owned'
  <2> SUFFICES ASSUME NEW s \in Stamps
               PROVE  /\ summaries'[s] \in Reports => summaries'[s].generated_at = s
                      /\ s > runs => summaries'[s] = Absent
    BY <1>2, <1>5 DEF Owned
  <2>1. CASE s = stamp
    <3>1. summaries'[s] = x
      BY <1>1, <2>1 DEF IInv, Typed
    <3>2. Broken \notin Reports /\ report.generated_at = stamp
      BY FilesAssumption DEF stamp
    <3> QED BY <1>2, <2>1, <3>1, <3>2 DEF Stamps
  <2>2. CASE s # stamp
    <3>1. summaries'[s] = summaries[s]
      BY <1>1, <2>2 DEF IInv, Typed
    <3> QED BY <3>1 DEF IInv, Owned
  <2> QED BY <2>1, <2>2
<1>7. Saved' /\ Compares' /\ ExitTellsDecision'
  <2>1. ~gated' /\ pc' # "gate"
    BY DEF SaveSummary, KillInSummary, Kill, Ends, gated
  <2>2. pc' = "details" => summaries' = [summaries EXCEPT ![stamp] = report]
    BY DEF SaveSummary, KillInSummary, Kill, Ends
  <2> QED BY <1>2, <2>1, <2>2 DEF Saved, Compares, ExitTellsDecision, IInv, Typed
<1>8. DecisionIsReproducible'
  BY <1>1, <1>2, SummaryKeepsDecisions
<1>9. Earlier'
  BY <1>2 DEF IInv, Typed, Earlier, Decisions
<1> QED BY <1>4, <1>6, <1>7, <1>8, <1>9 DEF IInv

\* Cases and traces are saved, or broken off.
LEMMA DetailsKeep ==
  ASSUME IInv, SaveDetails \/ KillInDetails
  PROVE  IInv'
<1>1. PICK x \in {report, Broken} : details' = [details EXCEPT ![stamp] = x]
  BY DEF SaveDetails, KillInDetails
<1>2. /\ pc = "details" /\ stamp' = stamp /\ stamp \in Stamps /\ stamp = runs
      /\ report' = report /\ report \in Reports
      /\ UNCHANGED <<summaries, decisions, args, runs>>
  BY DEF SaveDetails, KillInDetails, Kill, IInv, Typed, stamp
<1>3. details' \in [Stamps -> Reports \cup {Absent, Broken}]
  BY <1>1, <1>2 DEF IInv, Typed
<1>4. Typed'
  BY <1>2, <1>3 DEF SaveDetails, KillInDetails, Kill, Ends, IInv, Typed
<1>5. pc' # "save" /\ pc' # "details"
  BY DEF SaveDetails, KillInDetails, Kill, Ends
<1>6. Owned'
  BY <1>2, <1>5 DEF IInv, Owned
<1>7. Saved'
  <2>1. pc' = "gate" => details' = [details EXCEPT ![stamp] = report]
    BY DEF SaveDetails, KillInDetails, Kill, Ends
  <2> QED BY <1>2, <1>5, <2>1 DEF Saved, IInv, Typed
<1>8. Compares' /\ ExitTellsDecision'
  BY DEF SaveDetails, KillInDetails, Kill, Ends, Compares, ExitTellsDecision, gated
<1>9. DecisionIsReproducible'
  BY <1>2, DecisionsKept DEF IInv
<1>10. Earlier'
  BY <1>2 DEF IInv, Typed, Earlier, Decisions
<1> QED BY <1>4, <1>6, <1>7, <1>8, <1>9, <1>10 DEF IInv

\* The run decides, or is killed while it writes its decision.
LEMMA DecideKeeps ==
  ASSUME IInv, Decide \/ KillInDecision
  PROVE  IInv'
<1>1. /\ pc = "gate" /\ baseline \notin {Absent, Broken}
      /\ UNCHANGED <<summaries, details, args, report, runs>> /\ pc' = "idle"
  BY DEF Decide, KillInDecision, Kill, Ends
<1>2. /\ decision \in Decisions /\ decision.candidate = stamp /\ decision.baseline = args.baseline
      /\ reproducible(decision, summaries) /\ decision \notin {Absent, Broken}
  BY <1>1, DecisionFacts, FilesAssumption
<1>3. PICK x \in {decision, Broken} :
        /\ decisions' = [decisions EXCEPT ![args.label] = x]
        /\ exit' \in {"success", "failure"} =>
             x = decision /\ exit' = IF decision.passed THEN "success" ELSE "failure"
  BY DEF Decide, KillInDecision, Kill, Ends
<1>4. decisions' \in [Labels -> Decisions \cup {Absent, Broken}] /\ args.label \in Labels
  BY <1>2, <1>3 DEF IInv, Typed
<1>5. Typed'
  <2>1. kills' \in Nat /\ exit' \in {"none", "success", "failure", "killed"}
    BY DEF Decide, KillInDecision, Kill, Ends, IInv, Typed
  <2> QED BY <1>1, <1>4, <2>1 DEF IInv, Typed, stamp
<1>6. Owned' /\ Saved'
  BY <1>1 DEF IInv, Owned, Saved
<1>7. Compares' /\ ExitTellsDecision'
  <2> SUFFICES ASSUME gated' PROVE Compares' /\ ExitTellsDecision'
    BY DEF Compares, ExitTellsDecision
  <2>1. x = decision /\ exit' = (IF decision.passed THEN "success" ELSE "failure") /\ exit' # "none"
    BY <1>3 DEF gated
  <2>2. decisions'[args.label] = decision
    BY <1>3, <1>4, <2>1 DEF IInv, Typed
  <2>3. summaries[stamp] = report /\ details[stamp] = report
    BY <1>1 DEF IInv, Saved
  <2>4. decision.passed = (exit' = "success")
    BY <1>2, <2>1 DEF Decisions
  <2>5. args' = args /\ stamp' = stamp /\ baseline' = baseline
    BY <1>1 DEF stamp, baseline
  <2> HIDE DEF gated, decision, stamp, baseline
  <2> QED BY <1>1, <1>2, <2>2, <2>3, <2>4, <2>5 DEF Compares, ExitTellsDecision
<1>8. DecisionIsReproducible'
  <2>1. ASSUME NEW l \in Labels, decisions'[l] \notin {Absent, Broken}
        PROVE  reproducible(decisions'[l], summaries)
    <3>1. CASE l = args.label
      BY <1>2, <1>3, <1>4, <2>1, <3>1 DEF IInv, Typed
    <3>2. CASE l # args.label
      <4>1. decisions'[l] = decisions[l]
        BY <1>3, <3>2 DEF IInv, Typed
      <4> QED BY <2>1, <4>1, ReproducibleFacts DEF IInv
    <3> QED BY <3>1, <3>2
  <2>2. \A l \in Labels : decisions'[l] \notin {Absent, Broken} => reproducible(decisions'[l], summaries')
    BY <1>1, <2>1
  <2> QED BY <2>2, Zenon DEF DecisionIsReproducible, reproducible
<1>9. Earlier'
  <2> SUFFICES ASSUME NEW l \in Labels, decisions'[l] \in Decisions
               PROVE  decisions'[l].candidate <= runs
    BY <1>1 DEF Earlier
  <2>1. CASE l = args.label
    <3>1. decisions'[l] = x /\ x = decision
      BY <1>3, <1>4, <2>1, FilesAssumption DEF IInv, Typed
    <3> QED BY <1>1, <1>2, <3>1 DEF IInv, Typed
  <2>2. CASE l # args.label
    <3>1. decisions'[l] = decisions[l]
      BY <1>3, <2>2 DEF IInv, Typed
    <3> QED BY <3>1 DEF IInv, Earlier
  <2> QED BY <2>1, <2>2
<1> QED BY <1>5, <1>6, <1>7, <1>8, <1>9 DEF IInv

\* A run stops at a baseline that it cannot read, or is killed between two steps.
LEMMA StopKeeps ==
  ASSUME IInv, NoSuchBaseline \/ KillBetween
  PROVE  IInv'
<1>1. /\ UNCHANGED <<summaries, details, decisions, args, report, runs>>
      /\ pc # "idle" /\ pc' = "idle" /\ exit' \in {"failure", "killed"} /\ kills' \in Nat
      /\ exit' = "failure" => pc = "gate" /\ baseline \in {Absent, Broken}
  BY DEF NoSuchBaseline, KillBetween, Kill, Ends, IInv, Typed
<1>2. Typed' /\ Owned' /\ Saved' /\ Earlier'
  BY <1>1 DEF IInv, Typed, Owned, Saved, Earlier, Decisions, stamp
<1>3. Compares' /\ ExitTellsDecision'
  <2>1. CASE exit' = "killed"
    BY <2>1 DEF Compares, ExitTellsDecision, gated
  <2>2. CASE exit' = "failure"
    <3>1. baseline' = baseline /\ stamp' = stamp /\ baseline \in {Absent, Broken}
      BY <1>1, <2>2 DEF baseline, stamp
    <3>2. summaries[stamp] = report /\ details[stamp] = report
      BY <1>1, <2>2 DEF IInv, Saved
    <3>3. /\ args.label \in Labels /\ stamp = runs
          /\ decisions[args.label] \in Decisions \cup {Absent, Broken}
      BY <1>1 DEF IInv, Typed
    <3>4. decisions[args.label] \in Decisions => decisions[args.label].candidate # stamp
      BY <1>1, <3>3 DEF IInv, Typed, Earlier, Decisions
    <3> HIDE DEF baseline, stamp
    <3> QED BY <1>1, <2>2, <3>1, <3>2, <3>3, <3>4 DEF Compares, ExitTellsDecision
  <2> QED BY <1>1, <2>1, <2>2
<1>4. DecisionIsReproducible'
  BY <1>1, DecisionsKept DEF IInv
<1> QED BY <1>2, <1>3, <1>4 DEF IInv

\* IInv is an invariant of the evaluation.
THEOREM InductiveInvariant == Spec => []IInv
<1>1. ASSUME IInv, [Next]_vars PROVE IInv'
  <2>1. CASE UNCHANGED vars
    <3>1. /\ UNCHANGED <<summaries, details, decisions, args, report, runs, kills>>
          /\ pc' = pc /\ exit' = exit
      BY <2>1 DEF vars
    <3>2. Typed' /\ Owned' /\ Saved' /\ Earlier'
      BY <1>1, <3>1 DEF IInv, Typed, Owned, Saved, Earlier, stamp
    <3>3. Compares' /\ ExitTellsDecision' /\ DecisionIsReproducible'
      BY <1>1, <3>1, Zenon DEF IInv, Compares, ExitTellsDecision, DecisionIsReproducible, gated, stamp, baseline
    <3> QED BY <3>2, <3>3 DEF IInv
  <2> QED BY <1>1, <2>1, EvaluateKeeps, SummaryKeeps, DetailsKeep, DecideKeeps, StopKeeps DEF Next
<1> QED BY <1>1, Initially, PTL DEF Spec

\* The exit code of the gate and the decision file of the label say the same, of the
\* report of the same run; with a baseline that cannot be read the exit code is failure,
\* and the file is of no decision, or names an earlier candidate (main).
THEOREM DecisionIsTold == Spec => []ExitTellsDecision
<1>1. IInv => ExitTellsDecision
  BY DEF IInv
<1> QED BY <1>1, InductiveInvariant, PTL

\* A decision can be made again from the files, whatever was killed or run since
\* (save_report, evaluate_promotion).
THEOREM DecisionsStand == Spec => []DecisionIsReproducible
<1>1. IInv => DecisionIsReproducible
  BY DEF IInv
<1> QED BY <1>1, InductiveInvariant, PTL

\* A candidate that is promoted would be promoted with a better answer to one case, against
\* the same baseline: no floor and no tolerance turns an improvement into a rejection
\* (evaluate_promotion).
THEOREM BetterIsPromoted == Spec => []StrongerIsPromoted
<1>1. IInv => StrongerIsPromoted
  <2> SUFFICES ASSUME IInv, gated, exit = "success", NEW c \in Cases, NEW s \in Results(c),
                      stronger(s, report.cases[c])
               PROVE  verdict([report.cases EXCEPT ![c] = s])
    BY DEF StrongerIsPromoted
  <2> DEFINE better == [report.cases EXCEPT ![c] = s]
             other == IF args.baseline = NoBaseline THEN NoBaseline ELSE baseline.metrics
             d == decisions[args.label]
  <2>1. /\ stamp \in Stamps /\ report \in Reports /\ args.label \in Labels
        /\ args.baseline \in Stamps \cup {NoBaseline}
    BY DEF IInv, Typed, gated
  <2>2. /\ d \notin {Absent, Broken} /\ d.candidate = stamp /\ d.passed = (exit = "success")
        /\ summaries[stamp] = report /\ d.baseline = args.baseline
    <3>1. exit # "failure"
      OBVIOUS
    <3> QED BY <3>1 DEF IInv, ExitTellsDecision, Compares
  <2>3. reproducible(d, summaries)
    BY <2>1, <2>2, ReproducibleFacts DEF IInv
  <2>4. args.baseline # NoBaseline => baseline = summaries[args.baseline] /\ baseline \in Reports
    BY <2>1, <2>2, <2>3 DEF reproducible, baseline, IInv, Typed
  <2>5. evaluate_promotion(report.metrics, other)
    <3>1. stamp # NoBaseline
      BY <2>1, FilesAssumption
    <3> QED BY <2>2, <2>3, <2>4, <3>1 DEF reproducible
  <2>6. other # NoBaseline => \A n \in Compared : other[n] \in Nat \X Nat
    BY <2>4, ReportHolds DEF Compared, Absolute
  <2>7. Result(report.cases) /\ DOMAIN report.cases = Cases /\ report.metrics = metrics(report.cases)
    BY <2>1, ReportHolds
  <2>8. \A k \in Cases : better[k] = IF k = c THEN s ELSE report.cases[k]
    BY <2>7
  <2>9. Result(better)
    BY <2>7, <2>8, GateAssumption DEF Result, Results, run_case
  <2>10. \A k \in Cases : stronger(better[k], report.cases[k])
    BY <2>7, <2>8, GateAssumption DEF stronger, Result
  <2> HIDE DEF better, other
  <2>11. evaluate_promotion(metrics(better), other)
    BY <2>5, <2>6, <2>7, <2>9, <2>10, StrongerPasses
  <2> QED BY <2>11 DEF better, other, verdict
<1> QED BY <1>1, InductiveInvariant, PTL
=============================================================================
