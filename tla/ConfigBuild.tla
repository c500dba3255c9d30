----------------------------- MODULE ConfigBuild -----------------------------
(***************************************************************************)
(* From a config to the outbound its probes go through: xray.Build gives   *)
(* the document a SOCKS inbound of its own and a rule for it, and Xray     *)
(* routes the probe requests by the first rule that matches.               *)
(***************************************************************************)
EXTENDS SourceLoading, ShareLink

CONSTANTS
    Tags,           \* outbound tags, NoTag among them
    MaxOutbounds,   \* bound on the outbounds of a JSON config
    MaxRules        \* bound on its rules

NoTag == ""
OwnTag == "xrayprobe-target"

ASSUME BuildAssumption ==
    /\ NoTag \in Tags /\ OwnTag \notin Tags
    /\ MaxOutbounds \in Nat \ {0} /\ MaxRules \in Nat

VARIABLES
    outbounds,  \* the outbounds of the document: tag and protocol
    rules,      \* its rules: do they match the probes, and to which tag?
    requested,  \* the tag --outbound names, or NoTag
    interface,  \* is --interface given?
    selected,   \* the outbound that was chosen, 0 if none
    bound,      \* the outbound bound to the interface, or 0
    measured    \* the one the probes go through

document == <<outbounds, rules, requested, interface>>
buildVars == <<loadVars, document, selected, bound, measured>>

SeqUpTo(n, S) == UNION {[1..k -> S] : k \in 0..n}
Outbounds == [tag : Tags \cup {OwnTag}, eligible : BOOLEAN]
Rules == [matches : BOOLEAN, to : (Tags \cup {OwnTag}) \ {NoTag}]

\* The type invariant.
TypeOK ==
    /\ LoadTypeOK
    /\ outbounds \in SeqUpTo(MaxOutbounds, Outbounds)
    /\ rules \in SeqUpTo(MaxRules + 1, Rules)
    /\ requested \in Tags /\ interface \in BOOLEAN
    /\ selected \in 0..MaxOutbounds /\ bound \in 0..MaxOutbounds
    /\ measured \in 0..MaxOutbounds

\* A rule names an outbound of its document.
TagsOf(outs) == {outs[i].tag : i \in 1..Len(outs)}

Init ==
    /\ LoadInit
    /\ selected = 0 /\ bound = 0 /\ measured = 0
    /\ interface \in BOOLEAN
    /\ \/ /\ form # "json"
          /\ outbounds = <<>> /\ rules = <<>> /\ requested = NoTag
       \/ /\ form = "json" /\ requested \in Tags
          /\ outbounds \in SeqUpTo(MaxOutbounds, [tag : Tags, eligible : BOOLEAN])
          /\ rules \in SeqUpTo(MaxRules, [matches : BOOLEAN, to : Tags \ {NoTag}])
          /\ \A i \in 1..Len(rules) : rules[i].to \in TagsOf(outbounds)

Load == LoadNext /\ UNCHANGED <<document, selected, bound, measured>>

-----------------------------------------------------------------------------
(* xray.Build.                                                             *)

Suits(i) ==
    IF requested = NoTag THEN outbounds[i].eligible ELSE outbounds[i].tag = requested

Chosen == {i \in 1..Len(outbounds) :
              Suits(i) /\ \A j \in 1..i - 1 : ~Suits(j)}

Tagged(tag) == IF tag = NoTag THEN OwnTag ELSE tag
Target(out) == [out EXCEPT !.tag = Tagged(@)]

\* Bug: the rule is for the first outbound.
RuleForFirst(i) == [matches |-> TRUE, to |-> Tagged(outbounds[1].tag)]
RuleFor(i) == [matches |-> TRUE, to |-> Tagged(outbounds[i].tag)]

\* Bug: the first outbound is bound.
FirstBound(i) == IF interface THEN 1 ELSE 0
\* applyInterface
Bound(i) == IF interface THEN i ELSE 0

\* buildJSON: the outbound gets a tag, the probes' inbound a rule to it, after
\* the rules that are there.
BuildJSON ==
    /\ stage = "loaded" /\ form = "json"
    /\ \E i \in Chosen :
        /\ selected' = i /\ bound' = Bound(i)
        /\ outbounds' = [outbounds EXCEPT ![i] = Target(@)]
        /\ rules' = Append(rules, RuleFor(i))
    /\ To("built")
    /\ UNCHANGED <<remote, source, next, specs, requested, interface, measured>>

BuildFails ==
    /\ stage = "loaded" /\ form = "json" /\ Chosen = {}
    /\ To("rejected")
    /\ UNCHANGED <<remote, source, next, specs, document, selected, bound, measured>>

\* A share link (the first stands for all) becomes a document with one outbound,
\* ShareLink's, and no rules; a text of several lines is not a URL.
BuildLink ==
    /\ stage = "loaded" /\ form # "json"
    /\ \/ /\ Len(specs[1].uri) = 1
          /\ outbounds' = <<[tag |-> OwnTag, eligible |-> TRUE]>>
          /\ selected' = 1 /\ bound' = Bound(1) /\ To("built")
       \/ To("rejected") /\ UNCHANGED <<outbounds, selected, bound>>
    /\ UNCHANGED <<remote, source, next, specs, rules, requested, interface, measured>>

-----------------------------------------------------------------------------
(* Xray-core.                                                              *)

\* It accepts no tag twice.
Accepted == \A i, j \in 1..Len(outbounds) :
                outbounds[i].tag = outbounds[j].tag /\ outbounds[i].tag # NoTag => i = j

Matching(i) == rules[i].matches /\ \A j \in 1..i - 1 : ~rules[j].matches

\* The first rule that matches, or the first outbound.
Carries(o) ==
    \/ \E i \in 1..Len(rules) : Matching(i) /\ rules[i].to = outbounds[o].tag
    \/ o = 1 /\ \A i \in 1..Len(rules) : ~rules[i].matches

Measure ==
    /\ stage = "built" /\ measured = 0
    /\ IF Accepted
       THEN (\E o \in 1..Len(outbounds) : Carries(o) /\ measured' = o) /\ UNCHANGED stage
       ELSE To("rejected") /\ UNCHANGED measured
    /\ UNCHANGED <<remote, source, next, specs, document, selected, bound>>

Ended ==
    /\ stage \in {"failed", "rejected"} \/ measured # 0
    /\ UNCHANGED buildVars

Next == Load \/ BuildJSON \/ BuildFails \/ BuildLink \/ Measure \/ Ended

Spec == Init /\ [][Next]_buildVars

-----------------------------------------------------------------------------
(* Properties.                                                             *)

\* Unless a rule of the document takes them first, the probes go through the
\* outbound that was selected, tagged or not, first or not, and leave by the
\* interface asked for.
MeasuredIsSelected ==
    measured # 0 /\ (\A i \in 1..Len(rules) - 1 : ~rules[i].matches)
        => measured = selected /\ (interface => bound = measured)

\* A link that is tested is tested as it says: at its server and port, with the
\* transport security it names, in the old or the new way, and verified unless it
\* asks not to be; by the name and the pin it gives, if it spells the security in
\* small letters.  The result names the security that the connection has.  What a
\* link says does not depend on where it was found.
EveryLinkKept == \A l \in ShareLinks : LinkKept(l)
LinkIsTested == stage = "built" /\ form # "json" => EveryLinkKept

-----------------------------------------------------------------------------
(* Expectations the code does not meet (README).                           *)

\* README.md:207: the probes are "HTTPS requests through the selected Xray outbound".
ThroughSelected == measured # 0 => measured = selected
=============================================================================
