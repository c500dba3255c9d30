------------------------------ MODULE Ranking ------------------------------
(***************************************************************************)
(* What a batch's results become: the order of the command line's table    *)
(* and its exit code, and the report test_xray_subscription makes of them. *)
(***************************************************************************)
EXTENDS Naturals, Sequences, FiniteSets

\* A result as the ranking sees it: [index, status, score].
IsOk(result) == result.status = "ok"
IsFailed(result) == ~IsOk(result)

\* Bug: the status is not looked at.
HigherScore(a, b) == a.score > b.score
\* The comparison both callers give to sort.SliceStable.
Less(a, b) ==
    IF a.status # b.status THEN IsOk(a) ELSE a.score > b.score

Precedes(rs, i, j) == Less(rs[i], rs[j]) \/ (~Less(rs[j], rs[i]) /\ i < j)

\* The k-th element of S in the order R, a set of pairs: k - 1 come before it.
Nth(S, R, k) == CHOOSE i \in S : Cardinality({j \in S : <<j, i>> \in R}) = k - 1

\* sort.SliceStable: what precedes an element, by the comparison or by its
\* place, determines where it goes.
Order(rs) == {p \in (DOMAIN rs) \X (DOMAIN rs) : Precedes(rs, p[1], p[2])}
Sorted(rs) == [k \in DOMAIN rs |-> rs[Nth(DOMAIN rs, Order(rs), k)]]

-----------------------------------------------------------------------------
(* test_xray_subscription.                                                 *)

\* result_limit, 10 by default.
Limit(asked) == IF asked = 0 THEN 10 ELSE asked

\* What a loop leaves that appends the elements at some places.
Earlier(places) == {p \in places \X places : p[1] < p[2]}
Kept(rs, places) ==
    [k \in 1..Cardinality(places) |-> rs[Nth(places, Earlier(places), k)]]

Working(rs) == Kept(rs, {i \in DOMAIN rs : IsOk(rs[i])})
Failing(rs) == Kept(rs, {i \in DOMAIN rs : IsFailed(rs[i])})

\* The first of those that are ok.
Ranked(rs, asked) ==
    LET ok == Working(Sorted(rs))
    IN  SubSeq(ok, 1, IF Len(ok) < Limit(asked) THEN Len(ok) ELSE Limit(asked))

Succeeded(rs) == Cardinality({i \in DOMAIN rs : IsOk(rs[i])})
Failed(rs) == Cardinality({i \in DOMAIN rs : IsFailed(rs[i])})

\* Bug: failures count as left out.
ShorterThanBatch(rs, asked) == Len(rs) > Len(Ranked(rs, asked))
Truncated(rs, asked) == Succeeded(rs) > Len(Ranked(rs, asked))

\* The best is a sequence of one result, or of none.
Report(rs, asked, includeFailures) ==
    [succeeded |-> Succeeded(rs),
     failed    |-> Failed(rs),
     best      |-> SubSeq(Working(Sorted(rs)), 1, IF Succeeded(rs) = 0 THEN 0 ELSE 1),
     results   |-> Ranked(rs, asked),
     truncated |-> Truncated(rs, asked),
     failures  |-> IF includeFailures THEN Failing(Sorted(rs)) ELSE <<>>]

-----------------------------------------------------------------------------
(* xrayprobe test.                                                         *)

ExitCode(rs) == IF \E i \in DOMAIN rs : IsOk(rs[i]) THEN 0 ELSE 1
=============================================================================
