--------------------------- MODULE SetupContract ---------------------------
(***************************************************************************)
(* What a user may rely on in `xrayprobe mcp setup claude-desktop`: the    *)
(* configuration gets the entry and keeps everything else, in one step, or *)
(* it is lost in a way that shows: it cannot be read any more.  It is never*)
(* another configuration that can be read.                                 *)
(***************************************************************************)
CONSTANTS
    Setups,     \* runs of the command
    Others,     \* names of other MCP servers
    Settings,   \* keys of the configuration that are not about servers
    None

Forms == {"missing", "empty", "torn", "null", "object"}
Lists == {"absent", "null", "object", "other"}

\* What os.ReadFile and json.Unmarshal find: no file, nothing that can be
\* parsed, null, or an object; the object's mcpServers, with the servers in it,
\* and the setup whose entry xrayprobe's is.
Contents ==
    {c \in [form : Forms, list : Lists, servers : SUBSET Others,
            own : Setups \cup {None}, settings : SUBSET Settings] :
        /\ c.form # "object" => c.list = "absent" /\ c.settings = {}
        /\ c.list # "object" => c.servers = {} /\ c.own = None}

Blank(form) ==
    [form |-> form, list |-> "absent", servers |-> {}, own |-> None, settings |-> {}]

Parses(c) == c.form \in {"null", "object"}
Mergeable(c) == c.form = "object" /\ c.list \in {"absent", "object"}
Read(c) == IF c.form = "missing" THEN Blank("object") ELSE c
Merged(c, s) ==
    [form |-> "object", list |-> "object", servers |-> c.servers, own |-> s,
     settings |-> c.settings]

VARIABLE config

Init == config \in Contents

Merge(s) ==
    /\ Mergeable(Read(config))
    /\ config' = Merged(Read(config), s)

\* Something else writes the file: it does not touch xrayprobe's entry.
Edit ==
    /\ Parses(Read(config))
    /\ config' \in {c \in Contents : Parses(c) /\ c.own = config.own}

Lose == config' \in {Blank("empty"), Blank("torn")}

Next == (\E s \in Setups : Merge(s)) \/ Edit \/ Lose

Spec == Init /\ [][Next]_config
=============================================================================
