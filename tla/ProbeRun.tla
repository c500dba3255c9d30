------------------------------ MODULE ProbeRun ------------------------------
(***************************************************************************)
(* The test of one config once its Xray listens: the IP lookup, the probe  *)
(* requests, the metrics and the score made of them, the speed sample and  *)
(* the Gemini page, and the status the result gets.                        *)
(*                                                                         *)
(* Go's floats are exact fractions here: a time is in 1/20 ms, a score is  *)
(* Points over Unit.                                                       *)
(***************************************************************************)
EXTENDS Integers, Sequences, FiniteSets

CONSTANTS
    Attempts,       \* ProbeOptions.Attempts
    Latencies,      \* what a successful request may take, in ms
    MaxRedirects    \* geminiMaxRedirects

ASSUME ProbeAssumption ==
    /\ Attempts \in Nat \ {0}
    /\ Latencies \subseteq Nat
    /\ MaxRedirects \in Nat

VARIABLES
    pc,
    wants,      \* the parts asked for, of "metadata", "speed" and "gemini"
    ctxDone,    \* the request this is part of timed out
    outbound,   \* the lookup: "none", "empty" or "found"
    events,     \* what OnAttempt is told: did the attempt succeed?
    values,     \* the latencies of those that did
    mbps,       \* 0, or 1 for any speed
    visited,    \* the pages Gemini's redirects led to, with what they answered
    gemini,     \* the verdict
    status      \* of the result

vars == <<pc, wants, ctxDone, outbound, events, values, mbps, visited, gemini,
          status>>

Answers == {"200", "429", "redirect", "sorry", "other", "failure"}
Verdicts == {"none", "error", "blocked", "ok"}
Parts == {"metadata", "speed", "gemini"}

\* The type invariant.
TypeOK ==
    /\ pc \in {"metadata", "attempts", "speed", "gemini", "hop", "end", "done"}
    /\ wants \in SUBSET Parts
    /\ ctxDone \in BOOLEAN
    /\ outbound \in {"none", "empty", "found"}
    /\ events \in Seq(BOOLEAN) /\ Len(events) <= Attempts
    /\ values \in Seq(Latencies) /\ Len(values) <= Len(events)
    /\ mbps \in {0, 1}
    /\ visited \in Seq(Answers) /\ Len(visited) <= MaxRedirects + 1
    /\ gemini \in Verdicts
    /\ status \in {"failed", "ok"}

Init ==
    /\ pc = "metadata"
    /\ wants \in SUBSET Parts
    /\ ctxDone = FALSE
    /\ outbound = "none"
    /\ events = <<>> /\ values = <<>>
    /\ mbps = 0
    /\ visited = <<>> /\ gemini = "none"
    /\ status = "failed"

-----------------------------------------------------------------------------
(* summarize and Score.                                                    *)

\* Bug: the latencies are not sorted.
AsMeasured(s, k) == s[k]

\* The k-th smallest of s.
AtRank(s, k) ==
    CHOOSE v \in {s[i] : i \in 1..Len(s)} :
        /\ Cardinality({i \in 1..Len(s) : s[i] < v}) < k
        /\ k <= Cardinality({i \in 1..Len(s) : s[i] <= v})

\* The percentile at twentieths/20, in 1/20 ms.
Percentile(s, twentieths) ==
    IF s = <<>> THEN 0
    ELSE LET position == (Len(s) - 1) * twentieths
             low == AtRank(s, position \div 20 + 1)
             weight == position % 20
         IN IF weight = 0 THEN 20 * low
            ELSE 20 * low + (AtRank(s, position \div 20 + 2) - low) * weight

Median(s) == Percentile(s, 10)
P95(s) == Percentile(s, 19)

Abs(x) == IF x < 0 THEN -x ELSE x

\* The consecutive differences added up, and what they are divided by.
Jumps(s) ==
    LET sum[i \in 1..Attempts] ==
            IF i >= Len(s) THEN 0 ELSE Abs(s[i + 1] - s[i]) + sum[i + 1]
    IN IF Len(s) < 2 THEN 0 ELSE sum[1]
Gaps(s) == IF Len(s) < 2 THEN 1 ELSE Len(s) - 1

\* Bug: a slow config is not kept from going below zero.
NoFloor(x) == x
Floor(x) == IF x < 0 THEN 0 ELSE x

\* 50% success, 35% latency down to zero at 1000 ms, 15% jitter at 250 ms.
Unit(s) == 4000 * Attempts * Gaps(s)
Points(s) ==
      200000 * Len(s) * Gaps(s)
    + 7 * Attempts * Gaps(s) * Floor(20000 - Median(s))
    + 240 * Attempts * Floor(250 * Gaps(s) - Jumps(s))

Grade(s) ==
    CASE Points(s) >= 85 * Unit(s) -> "Excellent"
      [] Points(s) \in 70 * Unit(s) .. 85 * Unit(s) - 1 -> "Good"
      [] Points(s) \in 50 * Unit(s) .. 70 * Unit(s) - 1 -> "Fair"
      [] OTHER -> "Poor"

-----------------------------------------------------------------------------
(* probe.Run.                                                              *)

\* A lookup that fails leaves an empty record.
Metadata ==
    /\ pc = "metadata" /\ pc' = "attempts"
    /\ \/ "metadata" \notin wants /\ UNCHANGED outbound
       \/ "metadata" \in wants /\ ~ctxDone /\ outbound' = "found"
       \/ "metadata" \in wants /\ outbound' = "empty"
    /\ UNCHANGED <<wants, ctxDone, events, values, mbps, visited, gemini, status>>

\* Bug: the loop runs once more.
OneMore == Len(events) > Attempts
\* Bug: the first failure ends the loop.
StopAtFailure == events # <<>> /\ ~events[Len(events)]

AttemptsOver == Len(events) = Attempts

\* The deadline passed fails the attempts that are left, one by one.
Attempt ==
    /\ pc = "attempts" /\ ~AttemptsOver
    /\ \/ /\ ~ctxDone
          /\ \E latency \in Latencies : values' = Append(values, latency)
          /\ events' = Append(events, TRUE)
       \/ events' = Append(events, FALSE) /\ UNCHANGED values
    /\ UNCHANGED <<pc, wants, ctxDone, outbound, mbps, visited, gemini, status>>

Summarize ==
    /\ pc = "attempts" /\ AttemptsOver
    /\ pc' = IF values = <<>> THEN "done"
             ELSE IF "speed" \in wants THEN "speed" ELSE "gemini"
    /\ UNCHANGED <<wants, ctxDone, outbound, events, values, mbps, visited, gemini,
                   status>>

Speed ==
    /\ pc = "speed" /\ pc' = "gemini"
    /\ mbps' = 0 \/ (~ctxDone /\ mbps' = 1)
    /\ UNCHANGED <<wants, ctxDone, outbound, events, values, visited, gemini, status>>

-----------------------------------------------------------------------------
(* Gemini, after probes that succeeded, and the status of the result.      *)

Gemini ==
    /\ pc = "gemini"
    /\ IF "gemini" \in wants THEN pc' = "hop" /\ gemini' = "error"
                             ELSE pc' = "end" /\ UNCHANGED gemini
    /\ UNCHANGED <<wants, ctxDone, outbound, events, values, mbps, visited, status>>

\* Bug: a redirect to /sorry/ is followed like any other.
SorryFollowed == FALSE

\* Where the redirects have led to; "sorry" is a redirect to /sorry/.
AtSorry == visited # <<>> /\ visited[Len(visited)] = "sorry"

Verdict(answer) ==
    CASE answer = "429" -> "blocked" [] answer = "200" -> "ok" [] OTHER -> "error"

\* One turn of the loop over the redirects.
Hop ==
    /\ pc = "hop"
    /\ \/ /\ Len(visited) > MaxRedirects
          /\ pc' = "end" /\ UNCHANGED <<visited, gemini>>
       \/ /\ Len(visited) <= MaxRedirects /\ AtSorry
          /\ gemini' = "blocked" /\ pc' = "end" /\ UNCHANGED visited
       \/ /\ Len(visited) <= MaxRedirects /\ ~AtSorry
          /\ \E answer \in IF ctxDone THEN {"failure"} ELSE Answers :
               /\ visited' = Append(visited, answer)
               /\ IF answer \in {"redirect", "sorry"}
                  THEN UNCHANGED <<pc, gemini>>
                  ELSE gemini' = Verdict(answer) /\ pc' = "end"
    /\ UNCHANGED <<wants, ctxDone, outbound, events, values, mbps, status>>

End ==
    /\ pc = "end" /\ pc' = "done"
    /\ status' = "ok"
    /\ UNCHANGED <<wants, ctxDone, outbound, events, values, mbps, visited, gemini>>

Cancel ==
    /\ ~ctxDone /\ pc # "done"
    /\ ctxDone' = TRUE
    /\ UNCHANGED <<pc, wants, outbound, events, values, mbps, visited, gemini, status>>

Done == pc = "done" /\ UNCHANGED vars

Next == Metadata \/ Attempt \/ Summarize \/ Speed \/ Gemini \/ Hop \/ End
        \/ Cancel \/ Done

Spec == Init /\ [][Next]_vars

-----------------------------------------------------------------------------
(* Properties.                                                             *)

\* The status says whether the probes got through, every one of them counted:
\* no part the user added and no deadline changes that.
StatusIsOfProbes ==
    pc = "done" =>
        /\ Len(events) = Attempts
        /\ Len(values) = Cardinality({i \in 1..Attempts : events[i]})
        /\ status = "ok" <=> \E i \in 1..Attempts : events[i]

\* Minimum, median, 95th percentile and maximum are in this order, and the
\* bounds at the end of Score never have to correct anything.
MetricsInRange ==
    /\ values # <<>> =>
          /\ 20 * AtRank(values, 1) <= Median(values)
          /\ Median(values) <= P95(values)
          /\ P95(values) <= 20 * AtRank(values, Len(values))
    /\ Points(values) \in 0 .. 100 * Unit(values)

\* A 429, or a redirect to /sorry/, anywhere on the way.
Refused == \E i \in 1..Len(visited) : visited[i] \in {"429", "sorry"}

\* "ok" is a 200 that was reached without a refusal, and only a refusal is
\* "blocked": in particular no page behind /sorry/ makes it look open.
GeminiVerdict ==
    pc = "done" /\ gemini # "none" =>
        /\ gemini = "ok" <=> visited[Len(visited)] = "200"
        /\ gemini = "ok" => ~Refused
        /\ gemini = "blocked" => Refused

-----------------------------------------------------------------------------
(* Expectations the code does not meet (README).                           *)

\* gemini.go:22: 'any hop through Google's /sorry/ page is "blocked"'.
AnyHopBlocks ==
    pc = "done" /\ gemini # "none" /\ Refused => gemini = "blocked"

\* The score is the "health indicator" of the README: a config that let nothing
\* through is a poor one.
DeadIsPoor == pc = "done" /\ values = <<>> => Grade(values) = "Poor"
=============================================================================
