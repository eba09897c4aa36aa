------------------------- MODULE MCRequestPipeline -------------------------
(* Instance of RequestPipeline: conversations of all shapes, one at a time,  *)
(* and requests of two conversations that share the tracker.                 *)
EXTENDS RequestPipeline

MCRequests == {"q1", "q2"}

\* Message n of a conversation; "a" and "b" are tool uses.
Words(n) == <<Said(n)>>
Result(id, n) == Block("tool_result", id, Words(n))
Use(id) == Block("tool_use", id, <<>>)

Shapes(n) ==
    {StringMessage("user", Words(n)),
     Message("user", <<TextBlock(<<Fragment("mcp", "")>> \o Words(n))>>),
     Message("user", <<Result("a", n)>>),
     Message("user", <<Result("b", n), Result("a", n), TextBlock(Words(n))>>),
     StringMessage("developer", Words(n)),
     StringMessage("assistant", Words(n)),
     Message("assistant", <<Block("thinking", "", <<>>), Use("a")>>),
     Message("assistant", <<TextBlock(Words(n)), Use("a"), Use("b")>>)}

Conversations(n) ==
    CASE n = 1 -> {<<x>> : x \in Shapes(1)}
      [] n = 2 -> {<<x, y>> : x \in Shapes(1), y \in Shapes(2)}
      [] OTHER -> {<<x, y, z>> : x \in Shapes(1), y \in Shapes(2), z \in Shapes(3)}

Scope(c) == [cred |-> "c1", conversation |-> c, model |-> "m"]

Input(mode, stream, msgs) ==
    [mode |-> mode, stream |-> stream, scope |-> Scope("x"), path |-> <<"api", "na", "v1", "messages">>,
     system |-> <<TextBlock(<<Fragment("synthetic", "system")>>)>>, msgs |-> msgs,
     toolBlocks |-> <<>>, tools |-> {"t1"}, deferred |-> {}, prefix |-> FALSE, counts |-> TRUE]

One(i) == [q \in {"q1"} |-> i]

PlainWorkloads ==
    {One([Input("plain", TRUE, c) EXCEPT !.tools = t]) :
        c \in UNION {Conversations(n) : n \in 1..3}, t \in {{}, {"t1"}}}

\* The client may already have searched.
SearchConversations ==
    {<<StringMessage("user", Words(1))>>,
     <<StringMessage("user", Words(1)),
       Message("assistant", <<Block("server_tool_use", "s", <<>>)>>),
       Message("user", <<Block("tool_search_tool_result", "s", <<Fragment("tool", "t2")>>)>>)>>}

LoopWorkloads ==
    {One([Input("search", s, c) EXCEPT !.deferred = {"t2", "t3"}]) : s \in BOOLEAN, c \in SearchConversations}
    \cup {One([Input("thinking", s, c) EXCEPT !.tools = {}, !.prefix = TRUE]) :
             s \in BOOLEAN, c \in Conversations(1)}

Marked(b, ttl) == [b EXCEPT !.cache = ttl]
Cached(path, stream, mode, c, msgs) ==
    [Input(mode, stream, msgs) EXCEPT !.path = path, !.scope = Scope(c), !.system = <<>>]

Turn1(ttl) == <<Message("user", <<Marked(TextBlock(<<Said(1), Said(1)>>), ttl)>>)>>
Turn2(ttl) == Turn1(ttl) \o <<StringMessage("assistant", Words(2)), StringMessage("user", Words(3))>>

Main == <<"v1", "messages">>
CC == <<"api", "cc", "v1", "messages">>

Two(i, j) == [q \in {"q1", "q2"} |-> IF q = "q1" THEN i ELSE j]

\* A system prompt behind a billing header, and a tool.
Prefixed(i) ==
    [i EXCEPT !.system = <<TextBlock(<<Fragment("billing", "")>>), TextBlock(<<Fragment("synthetic", "system")>>)>>,
              !.toolBlocks = <<Block("tool", "t1", <<>>)>>]

CacheWorkloads ==
    {Two(Cached(Main, TRUE, "plain", "x", Turn1("1h")), Cached(CC, FALSE, "thinking", "x", Turn2("no"))),
     Two(Prefixed(Cached(Main, TRUE, "plain", "x", Turn1("5m"))), Cached(CC, FALSE, "plain", "y", Turn1("no"))),
     Two(Cached(Main, TRUE, "plain", "x", Turn1("5m")), Cached(Main, TRUE, "plain", "x", Turn2("5m")))}
    \cup {One([Cached(CC, FALSE, "search", "x", Turn1("no")) EXCEPT !.counts = FALSE])}

MCWorkloads == PlainWorkloads \cup LoopWorkloads \cup CacheWorkloads

\* The hypotheses of the theorems about PayloadWellFormed and PlacesKept.
ASSUME MCRegularClients == RegularClients
ASSUME MCClientsAnswerOnce == ClientsAnswerOnce

Base == HighCacheProfile(8, 1, 2, 4)
MCReports ==
    [routes |-> (<<"v1", "messages">> :> "default") @@ (<<"cc">> :> "cc") @@ (<<"api", "na">> :> "na"),
     fallback |-> "",
     profiles |-> [n \in {"default", "cc", "na"} |->
        CASE n = "default" -> [Base EXCEPT !.synthesize = FALSE, !.ttlFields = TRUE]
          [] n = "cc" -> [Base EXCEPT !.input = SampleMax(2, TRUE), !.creation = SampleTarget(3, 120)]
          [] OTHER -> [Base EXCEPT !.enabled = FALSE, !.simulate = FALSE]]]

MCRatioUnit(fp) == 50
============================================================================
