---------------------------- MODULE BatchReport ----------------------------
(***************************************************************************)
(* A batch and what its callers make of the results Service.Run returns    *)
(* without an error.  (With one, they report the error alone.)             *)
(***************************************************************************)
EXTENDS TestBatch, Ranking

CONSTANT Scores     \* scores a result may have, a failed one too

ASSUME ScoresAssumption == Scores \subseteq Nat

\* The results once they are returned, with every score there could be.
Results(score) ==
    [s \in Specs |-> [index |-> s, status |-> status[s], score |-> score[s]]]
Returns == {Results(score) : score \in IF run = "returned" THEN [Specs -> Scores] ELSE {}}

IndicesOf(list) == {list[i].index : i \in DOMAIN list}

\* Nobody is lost and nobody counted twice: each config of the source is a
\* result, a failure, or one of those `truncated` tells of; the counts, the
\* best and the exit code of the command line agree with them.
ReportAccounts ==
    \A rs \in Returns, limit \in 0..NumSpecs :
        LET report == Report(rs, limit, TRUE)
            shown == IndicesOf(report.results)
            ok == {s \in Specs : status[s] = "ok"}
        IN  /\ shown \subseteq ok /\ Cardinality(shown) = Len(report.results)
            /\ IndicesOf(report.failures) = Specs \ ok
            /\ Len(report.failures) = report.failed
            /\ report.succeeded + report.failed = NumSpecs
            /\ report.truncated <=> shown # ok
            /\ (report.best = <<>>) <=> (ExitCode(rs) = 1)
            /\ report.best # <<>> => report.best[1] = report.results[1]

\* The order of both outputs: what works is before what does not, a better
\* score before a worse one, and equal ones are as in the source; who is left
\* out is not better than anybody shown.
Better(a, b) ==
    \/ IsOk(a) /\ ~IsOk(b)
    \/ (IsOk(a) <=> IsOk(b)) /\ a.score > b.score

RankedByQuality ==
    \A rs \in Returns :
        /\ IndicesOf(Sorted(rs)) = Specs
        /\ \A i, j \in Specs :
              i < j => LET a == Sorted(rs)[i]
                           b == Sorted(rs)[j]
                       IN  Better(a, b) \/ (~Better(b, a) /\ a.index < b.index)
        /\ \A limit \in 1..NumSpecs : \A s \in Specs :
              LET shown == Report(rs, limit, FALSE).results
              IN  IsOk(rs[s]) /\ s \notin IndicesOf(shown) =>
                      \A i \in DOMAIN shown : shown[i].score >= rs[s].score
=============================================================================
