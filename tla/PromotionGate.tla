---------------------------- MODULE PromotionGate ----------------------------
(***************************************************************************)
(* scripts/run_eval.py: a candidate answers the gold questions, the report *)
(* is saved, and the promotion gate compares its metrics with thresholds   *)
(* and with the metrics of a baseline report.  The decision is a file of   *)
(* the candidate's label.  A run may be killed at any time.                *)
(*                                                                         *)
(* A response is described by what the evaluation asks of it: answered, or *)
(* refused; graded as expected; how much it found of what is expected;     *)
(* whether it cites, quotes what it cites, or reveals what the case        *)
(* forbids.  A metric is a fraction <<numerator, denominator>>, a          *)
(* threshold a number of hundredths.                                       *)
(***************************************************************************)
EXTENDS Integers, FiniteSetsExt

CONSTANTS
  Gold,            \* the gold cases, a function
  Candidates,      \* what candidates answer: a response for each case
  Thresholds,      \* PromotionConfig
  Whole,           \* a number that every number of expected items divides
  Labels,          \* what --candidate-label may be
  NoBaseline,      \* --baseline-report is not given
  Absent, Broken,  \* a file that is not there, and one that its reader rejects
  MaxRuns, MaxKills

Cases == DOMAIN Gold

ASSUME GateAssumption ==
  /\ {MaxRuns, MaxKills} \subseteq Nat /\ Labels # {} /\ IsFiniteSet(Cases)
  /\ Whole \in Nat \ {0}
  /\ \A c \in Cases : /\ Gold[c].expected \in Nat
                      /\ Gold[c].expected # 0 => Whole % Gold[c].expected = 0
  /\ \A a \in Candidates : \A c \in Cases :
       a[c].found \in 0..Gold[c].expected /\ (a[c].quotes => a[c].answered)

-----------------------------------------------------------------------------
(* The report.                                                             *)

\* A case asks for citations and chunks, of which some are found.
all_found(c, r) == r.found = Gold[c].expected

run_case(c, r) ==
  [answered |-> r.answered,
   passed |-> r.answered = Gold[c].answerable /\ r.graded /\ ~r.reveals /\ all_found(c, r),
   citation_presence |-> r.cites,
   unauthorized_retrieval_failure |-> r.reveals,
   faithfulness_proxy_pass |-> r.answered /\ r.cites /\ r.quotes,
   found |-> r.found]

of_category(category) == {c \in Cases : Gold[c].category = category}
fraction(n, d) == IF d = 0 THEN <<0, 1>> ELSE <<n, d>>
share(S, P) == fraction(Cardinality(S \cap P), Cardinality(S))

\* What a case has found of what it expects, in parts of Whole.
precision(c, found) ==
  IF Gold[c].expected = 0 THEN Whole ELSE found * (Whole \div Gold[c].expected)

metrics(results) ==
  LET answered == {c \in Cases : results[c].answered}
      passed == {c \in Cases : results[c].passed}
  IN [accuracy |-> share(Cases, passed),
      citation_presence |-> share(answered, {c \in Cases : results[c].citation_presence}),
      unauthorized_failures |->
        <<Cardinality({c \in of_category("unauthorized_role") : results[c].unauthorized_retrieval_failure}), 1>>,
      exact_lookup |-> share(of_category("exact_lookup"), passed),
      semantic |-> share(of_category("semantic_lookup"), passed),
      faithfulness |-> share(answered, {c \in Cases : results[c].faithfulness_proxy_pass}),
      context_precision |->
        fraction(MapThenSumSet(LAMBDA c : precision(c, results[c].found), Cases),
                 Whole * Cardinality(Cases))]

run_cases(candidate) ==
  LET results == [c \in Cases |-> run_case(c, candidate[c])]
  IN [cases |-> results, metrics |-> metrics(results)]

-----------------------------------------------------------------------------
(* The gate.                                                               *)

at_least(m, hundredths) == 100 * m[1] >= hundredths * m[2]

at_most(m, hundredths) == 100 * m[1] <= hundredths * m[2]

Absolute == {"accuracy", "citation_presence", "exact_lookup", "semantic", "faithfulness", "context_precision"}
Compared == {"accuracy", "exact_lookup", "semantic", "context_precision"}

ASSUME ThresholdsAssumption ==
  /\ \A n \in Absolute : Thresholds.minimum[n] \in Nat
  /\ \A n \in Compared : Thresholds.regression[n] \in Nat
  /\ Thresholds.max_unauthorized \in Nat

\* a >= b - tolerance, for two fractions
keeps(a, b, tolerance) == 100 * a[1] * b[2] >= (100 * b[1] - tolerance * b[2]) * a[2]

\* A slip, for the mutants: a metric may differ by the tolerance, in either direction.
DiffersLittle(candidate, baseline) ==
  \A n \in Compared : /\ keeps(candidate[n], baseline[n], Thresholds.regression[n])
                      /\ keeps(baseline[n], candidate[n], Thresholds.regression[n])

no_regression(candidate, baseline) ==
  \A n \in Compared : keeps(candidate[n], baseline[n], Thresholds.regression[n])

evaluate_promotion(candidate, baseline) ==
  /\ \A n \in Absolute : at_least(candidate[n], Thresholds.minimum[n])
  /\ at_most(candidate.unauthorized_failures, 100 * Thresholds.max_unauthorized)
  /\ baseline # NoBaseline => no_regression(candidate, baseline)

-----------------------------------------------------------------------------
VARIABLES
  summaries,  \* eval_report_{stamp}.json, by stamp
  details,    \* eval_cases_{stamp}.jsonl and eval_traces_{stamp}.jsonl
  decisions,  \* promotion_decision_{label}.json
  pc,
  args,       \* label, --gate-promotion, --baseline-report
  report,     \* of the run under way, or of the last one
  exit,
  runs, kills

vars == <<summaries, details, decisions, pc, args, report, exit, runs, kills>>

Stamps == 1..MaxRuns
saved(at, evaluated) == [generated_at |-> at, cases |-> evaluated.cases, metrics |-> evaluated.metrics]
Reports == {saved(s, run_cases(a)) : s \in Stamps, a \in Candidates}
Decisions == [label : Labels, candidate : Stamps, baseline : Stamps \cup {NoBaseline}, passed : BOOLEAN]

\* What is missing or unreadable is no report and no decision, nor is the option that is
\* not given a report or the name of one.
ASSUME FilesAssumption ==
  /\ {Absent, Broken} \cap Decisions = {}
  /\ {Absent, Broken, NoBaseline} \cap Reports = {} /\ NoBaseline \notin Stamps

Init ==
  /\ summaries = [s \in Stamps |-> Absent]
  /\ details = [s \in Stamps |-> Absent]
  /\ decisions = [l \in Labels |-> Absent]
  /\ pc = "idle" /\ exit = "none" /\ report = saved(0, run_cases(CHOOSE a \in Candidates : TRUE))
  /\ args = [label |-> CHOOSE l \in Labels : TRUE, gate |-> FALSE, baseline |-> NoBaseline]
  /\ runs = 0 /\ kills = 0

Ends(how) == pc' = "idle" /\ exit' = how

\* load_gold_cases and run_cases; the baseline may be a report that does not exist.
Evaluate ==
  /\ pc = "idle" /\ runs < MaxRuns
  /\ runs' = runs + 1
  /\ args' \in [label : Labels, gate : {TRUE}, baseline : Stamps \cup {NoBaseline}]
               \cup [label : Labels, gate : {FALSE}, baseline : {NoBaseline}]
  /\ \E candidate \in Candidates : report' = saved(runs', run_cases(candidate))
  /\ pc' = "save" /\ exit' = "none"
  /\ UNCHANGED <<summaries, details, decisions, kills>>

stamp == report.generated_at

\* A slip, for the mutants: the file is named without its time.
SaveOver ==
  /\ pc = "save"
  /\ summaries' = [summaries EXCEPT ![1] = report]
  /\ pc' = "details"
  /\ UNCHANGED <<details, decisions, args, report, exit, runs, kills>>

SaveSummary ==
  /\ pc = "save"
  /\ summaries' = [summaries EXCEPT ![stamp] = report]
  /\ pc' = "details"
  /\ UNCHANGED <<details, decisions, args, report, exit, runs, kills>>

SaveDetails ==
  /\ pc = "details"
  /\ details' = [details EXCEPT ![stamp] = report]
  /\ IF args.gate THEN pc' = "gate" /\ UNCHANGED exit ELSE Ends("success")
  /\ UNCHANGED <<summaries, decisions, args, report, runs, kills>>

baseline == IF args.baseline = NoBaseline THEN NoBaseline ELSE summaries[args.baseline]

\* A baseline that cannot be read raises, so that the script ends with status 1, as after a
\* decision that did not pass; but there is no decision, and an earlier one stays.
NoSuchBaseline ==
  /\ pc = "gate" /\ baseline \in {Absent, Broken}
  /\ Ends("failure")
  /\ UNCHANGED <<summaries, details, decisions, args, report, runs, kills>>

decision ==
  [label |-> args.label, candidate |-> report.generated_at,
   baseline |-> IF baseline = NoBaseline THEN NoBaseline ELSE baseline.generated_at,
   passed |-> evaluate_promotion(report.metrics,
                IF baseline = NoBaseline THEN NoBaseline ELSE baseline.metrics)]

\* A slip, for the mutants: a failed candidate leaves the decision as it is.
DecideIfPassed ==
  /\ pc = "gate" /\ baseline \notin {Absent, Broken}
  /\ decisions' = IF decision.passed THEN [decisions EXCEPT ![args.label] = decision] ELSE decisions
  /\ Ends(IF decision.passed THEN "success" ELSE "failure")
  /\ UNCHANGED <<summaries, details, args, report, runs, kills>>

Decide ==
  /\ pc = "gate" /\ baseline \notin {Absent, Broken}
  /\ decisions' = [decisions EXCEPT ![args.label] = decision]
  /\ Ends(IF decision.passed THEN "success" ELSE "failure")
  /\ UNCHANGED <<summaries, details, args, report, runs, kills>>

\* Between two steps, or while a file is written.
Kill ==
  /\ pc # "idle" /\ kills < MaxKills
  /\ kills' = kills + 1
  /\ Ends("killed")
  /\ UNCHANGED <<args, report, runs>>

KillBetween == Kill /\ UNCHANGED <<summaries, details, decisions>>
KillInSummary ==
  /\ pc = "save" /\ Kill
  /\ summaries' = [summaries EXCEPT ![stamp] = Broken]
  /\ UNCHANGED <<details, decisions>>
KillInDetails ==
  /\ pc = "details" /\ Kill
  /\ details' = [details EXCEPT ![stamp] = Broken]
  /\ UNCHANGED <<summaries, decisions>>
KillInDecision ==
  /\ pc = "gate" /\ baseline \notin {Absent, Broken} /\ Kill
  /\ decisions' = [decisions EXCEPT ![args.label] = Broken]
  /\ UNCHANGED <<summaries, details>>

Next ==
  \/ Evaluate \/ SaveSummary \/ SaveDetails \/ NoSuchBaseline \/ Decide
  \/ KillBetween \/ KillInSummary \/ KillInDetails \/ KillInDecision

Spec == Init /\ [][Next]_vars

-----------------------------------------------------------------------------
(* Properties.                                                             *)

Results(c) == {run_case(c, a[c]) : a \in Candidates}
gated == pc = "idle" /\ args.gate /\ exit \in {"success", "failure"}

\* When the gate ends with an exit code, the report and its traces are saved, and the decision
\* file of the label tells which end it was.  With a baseline that was read, or none, the file
\* is of this run and passed exactly if the exit code is success.  With a baseline that cannot
\* be read the exit code is failure, and the file is not of this run: a decision that is there,
\* which may have passed, names an earlier candidate, and its reader must look at that (main).
ExitTellsDecision ==
  gated =>
    LET d == decisions[args.label]
        ours == d \notin {Absent, Broken} /\ d.candidate = stamp
    IN /\ summaries[stamp] = report /\ details[stamp] = report
       /\ IF baseline \in {Absent, Broken}
            THEN exit = "failure" /\ ~ours
            ELSE ours /\ d.passed = (exit = "success")

\* A decision on disk can be made again from the files on disk: the reports that it
\* names are there, whole, and give the same verdict, whatever was killed or run since
\* (save_report, evaluate_promotion).
DecisionIsReproducible ==
  \A l \in Labels : decisions[l] \notin {Absent, Broken} =>
    LET d == decisions[l]
        read(s) == IF s = NoBaseline THEN NoBaseline ELSE summaries[s].metrics
    IN /\ \A s \in {d.candidate, d.baseline} \ {NoBaseline} : summaries[s] \notin {Absent, Broken}
       /\ d.passed = evaluate_promotion(read(d.candidate), read(d.baseline))

stronger(s, r) ==
  /\ s.answered = r.answered /\ s.found >= r.found
  /\ r.passed => s.passed
  /\ r.citation_presence => s.citation_presence
  /\ r.faithfulness_proxy_pass => s.faithfulness_proxy_pass
  /\ s.unauthorized_retrieval_failure => r.unauthorized_retrieval_failure

verdict(results) ==
  evaluate_promotion(metrics(results),
    IF args.baseline = NoBaseline THEN NoBaseline ELSE baseline.metrics)

\* A candidate that is promoted would be promoted if one of its answers were better and
\* none were worse: no floor and no baseline turns an improvement into a rejection
\* (evaluate_promotion).  Whether a case is answered is kept, for
\* two metrics are shares of the answered cases.
StrongerIsPromoted ==
  gated /\ exit = "success" =>
    \A c \in Cases : \A s \in Results(c) :
      stronger(s, report.cases[c]) => verdict([report.cases EXCEPT ![c] = s])

\* No candidate is promoted that shows a role what its gold case forbids
\* (evaluate_promotion; docs/demo-script.md says so of the gate).
NoLeakIsPromoted ==
  gated /\ exit = "success" =>
    \A c \in Cases : ~report.cases[c].unauthorized_retrieval_failure
=============================================================================
