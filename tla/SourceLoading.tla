---------------------------- MODULE SourceLoading ----------------------------
(***************************************************************************)
(* From what the user gives (a link, a text, a URL, a path) to the configs *)
(* to test: input.LoadSource, and prepareRemoteSource in front of it when  *)
(* an MCP request goes to a remote target.                                 *)
(***************************************************************************)
EXTENDS Naturals, Sequences, FiniteSets

CONSTANTS
    Links,          \* lines that begin with a supported scheme
    Junk,           \* a line that does not: a comment, or anything else
    MaxLines,       \* bound on the lines of a text
    MaxConfigs      \* LoadOptions.MaxConfigs

ASSUME SourceAssumption ==
    /\ IsFiniteSet(Links) /\ Junk \notin Links
    /\ MaxLines \in Nat \ {0} /\ MaxConfigs \in Nat \ {0}

VARIABLES
    stage,
    remote,     \* the request names a remote target
    kind,       \* Source.Kind
    place,      \* what Source.Value is: the text itself, a URL or a path
    form,       \* what the text is
    lines,      \* its lines, without the blank ones
    next,       \* the line the loop is at
    specs       \* the result so far

source == <<kind, place, form, lines>>
loadVars == <<stage, remote, source, next, specs>>

Kinds == {"uri", "text", "url", "path", "auto"}     \* "json" is "text"
Places == {"here", "https", "http", "path"}
Forms == {"lines", "base64", "json", "brokenJSON"}
Texts == UNION {[1..n -> Links \cup {Junk}] : n \in 1..MaxLines}
Spec0(n, uri) == [index |-> n, uri |-> uri]

\* The type invariant.
LoadTypeOK ==
    /\ stage \in {"prepare", "load", "content", "links", "loaded", "failed",
                  "built", "rejected"}
    /\ remote \in BOOLEAN
    /\ kind \in Kinds /\ place \in Places /\ form \in Forms
    /\ lines \in Texts \cup {<<>>}
    /\ next \in 1..MaxLines + 1
    /\ specs \in Seq([index : 0..MaxLines, uri : Texts \cup {<<>>}])
    /\ Len(specs) <= MaxConfigs

LoadInit ==
    /\ remote \in BOOLEAN
    /\ stage = IF remote THEN "prepare" ELSE "load"
    /\ kind \in Kinds /\ place \in Places
    /\ \/ form \in {"lines", "base64"} /\ lines \in Texts
       \/ form \in {"json", "brokenJSON"} /\ lines = <<>>
    /\ next = 1 /\ specs = <<>>

To(s) == stage' = s
Failed == To("failed") /\ UNCHANGED <<source, next, specs>>

-----------------------------------------------------------------------------
(* The value itself.                                                       *)

\* isURI looks at the scheme the value begins with, whatever follows it.
IsURI == place = "here" /\ form = "lines" /\ lines[1] \in Links
LooksLikeJSON == place = "here" /\ form \in {"json", "brokenJSON"}

\* A Base64 subscription is one line.
SeveralLines == place = "here" /\ form = "lines" /\ Len(lines) > 1

\* What is read is a text from then on.
ReadHere ==
    /\ kind' = "text" /\ place' = "here"
    /\ UNCHANGED <<form, lines>>

\* prepareRemoteSource: a local file is read here, what is clearly a text is
\* named so.  One line that is no link is taken for a path.
Prepare ==
    /\ stage = "prepare"
    /\ \/ /\ kind \notin {"path", "auto"}
          /\ To("load") /\ UNCHANGED <<source, next, specs>>
       \/ /\ kind = "auto" /\ (LooksLikeJSON \/ SeveralLines)
          /\ ReadHere /\ To("load") /\ UNCHANGED <<next, specs>>
       \/ /\ kind = "auto" /\ (place \in {"https", "http"} \/ (IsURI /\ Len(lines) = 1))
          /\ To("load") /\ UNCHANGED <<source, next, specs>>
       \/ /\ kind \in {"path", "auto"} /\ place = "path"
          /\ ReadHere /\ To("load") /\ UNCHANGED <<next, specs>>
       \/ kind = "path" /\ Failed
       \/ /\ kind = "auto" /\ place \in {"here", "path"}
          /\ ~(LooksLikeJSON \/ SeveralLines \/ IsURI)
          /\ Failed
    /\ UNCHANGED remote

AsURI == kind \in {"uri", "auto"} /\ IsURI
AsText == kind = "text" \/ (kind = "auto" /\ LooksLikeJSON)
AsURL == kind = "url" \/ (kind = "auto" /\ place \in {"https", "http"})
AsPath == kind = "path" \/ (kind = "auto" /\ ~IsURI /\ ~LooksLikeJSON
                            /\ place \in {"here", "path"})

\* The whole value is the link of the only config.
LoadURI ==
    /\ stage = "load" /\ AsURI
    /\ specs' = <<Spec0(0, lines)>>
    /\ To("loaded")
    /\ UNCHANGED <<remote, source, next>>

LoadText ==
    /\ stage = "load" /\ AsText
    /\ IF place = "here" THEN To("content") ELSE To("failed")
    /\ UNCHANGED <<remote, source, next, specs>>

\* fetch: HTTPS alone; readPath: a regular file.
Fetch ==
    /\ stage = "load"
    /\ \/ AsURL /\ place = "https"
       \/ AsPath /\ place = "path"
    /\ ReadHere /\ To("content")
    /\ UNCHANGED <<remote, next, specs>>

\* The source cannot be read, or is not what its kind says.
LoadFails ==
    /\ stage = "load"
    /\ AsURL \/ AsPath \/ (kind = "uri" /\ ~IsURI)
    /\ Failed
    /\ UNCHANGED remote

-----------------------------------------------------------------------------
(* fromContent.                                                            *)

ContentJSON ==
    /\ stage = "content" /\ form = "json"
    /\ specs' = <<Spec0(0, <<>>)>>
    /\ To("loaded")
    /\ UNCHANGED <<remote, source, next>>

\* splitLinks, of the text or of what it decodes to.
HasLinks == form \in {"lines", "base64"} /\ \E i \in 1..Len(lines) : lines[i] \in Links
IsLink(line) == line \in Links
CountLinks == Cardinality({i \in 1..Len(lines) : IsLink(lines[i])})

\* Bug: one more than the limit.
LimitOffByOne == CountLinks > MaxConfigs + 1
OverLimit == CountLinks > MaxConfigs

ContentFails ==
    /\ stage = "content"
    /\ form # "json"
    /\ ~HasLinks \/ OverLimit
    /\ Failed
    /\ UNCHANGED remote

ContentLinks ==
    /\ stage = "content" /\ HasLinks /\ ~OverLimit
    /\ To("links")
    /\ UNCHANGED <<remote, source, next, specs>>

\* Bug: only the duplicate of the line before is noticed.
SeenLast(line) == specs # <<>> /\ specs[Len(specs)].uri = <<line>>
Seen(line) == \E k \in 1..Len(specs) : specs[k].uri = <<line>>

\* Bug: the index is the line's.
LineNumber == next - 1
NextIndex == Len(specs)

\* One turn of the loop: other lines and duplicates are skipped.
TakeLine ==
    /\ stage = "links" /\ next <= Len(lines)
    /\ specs' = IF IsLink(lines[next]) /\ ~Seen(lines[next])
                THEN Append(specs, Spec0(NextIndex, <<lines[next]>>))
                ELSE specs
    /\ next' = next + 1
    /\ UNCHANGED <<stage, remote, source>>

EndLines ==
    /\ stage = "links" /\ next > Len(lines)
    /\ To("loaded")
    /\ UNCHANGED <<remote, source, next, specs>>

LoadNext ==
    \/ Prepare \/ LoadURI \/ LoadText \/ Fetch \/ LoadFails
    \/ ContentJSON \/ ContentFails \/ ContentLinks \/ TakeLine \/ EndLines

-----------------------------------------------------------------------------
(* Properties.                                                             *)

Loaded == stage \in {"loaded", "built", "rejected"}

\* The configs are the first occurrences of the links, in their order, and
\* numbered without a gap: the index is the slot of results that the pool writes.
First(i) == lines[i] \in Links /\ \A j \in 1..i - 1 : lines[j] # lines[i]
FirstOccurrences ==
    Loaded /\ next > 1 =>
        /\ Len(specs) = Cardinality({i \in 1..Len(lines) : First(i)})
        /\ \A i \in 1..Len(lines) :
              First(i) => LET n == Cardinality({j \in 1..i : First(j)})
                          IN  specs[n] = [index |-> n - 1, uri |-> <<lines[i]>>]

-----------------------------------------------------------------------------
(* An expectation the code does not meet (README).                         *)

\* A source that "auto" accepts with several links in it yields them all.
TextIsSubscription ==
    Loaded /\ form = "lines" => \A i \in 1..Len(specs) : Len(specs[i].uri) <= 1
=============================================================================
