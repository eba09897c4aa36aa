-------------------------- MODULE RequestPipeline --------------------------
(***************************************************************************)
(* What happens to a request between its account and its answer: the       *)
(* payload is built (ReqConv), sent with retries                           *)
(* (internal/kiroclient/client.go), the answer is read, and where the      *)
(* model called a tool of the proxy itself the conversation goes on: the   *)
(* tool search loop (app/messages/toolsearch.go), the thinking tool loop   *)
(* (thinkingtool.go), or the plain call with its one retry (execute.go).   *)
(* All requests share the prompt-cache tracker (PromptCache); the answer's *)
(* usage is what UsageReport makes of the plan.                            *)
(*                                                                         *)
(* The event stream of one answer is MessageStream's subject: here it is   *)
(* one step with one of the results the loops tell apart.                  *)
(***************************************************************************)
EXTENDS Integers, Sequences, FiniteSets, SequencesExt, FiniteSetsExt, ReqConv, PromptCache, UsageReport

CONSTANTS
    Requests,            \* requests
    Workloads,           \* the functions from (some) requests to their inputs
    Reports,             \* prompt-cache report config (MatchProfile)
    MaxRetries,          \* maxRetries of the client
    MaxToolSearchRounds, \* maxToolSearchRounds
    MaxThinkingRounds,   \* maxThinkingToolRounds
    UpstreamReads,       \* cache reads the upstream may report itself
    MaxTime              \* bound: clock ticks

ASSUME PipelineAssumption ==
    /\ MaxRetries \in Nat /\ MaxTime \in Nat /\ UpstreamReads \subseteq Nat
    /\ MaxToolSearchRounds \in Nat \ {0, 1} /\ MaxThinkingRounds \in Nat \ {0, 1}
    /\ \A w \in Workloads : /\ DOMAIN w \subseteq Requests
                            /\ \A q \in DOMAIN w : /\ w[q].mode \in {"plain", "search", "thinking"}
                                                   /\ w[q].stream \in BOOLEAN

\* request.go: what validateRequest and NewContext let through.
ASSUME InputAssumption ==
    \A w \in Workloads : \A q \in DOMAIN w :
        /\ IsConversation(w[q].msgs) /\ IsContent(w[q].system) /\ IsContent(w[q].toolBlocks)
        /\ IsFiniteSet(w[q].deferred) /\ w[q].tools \cap w[q].deferred = {}

ASSUME ReportsAssumption ==
    \A name \in DOMAIN Reports.profiles : Reports.profiles[name] \in ReportProfile

VARIABLES
    input,   \* the inputs by request: [mode, stream, scope, path, system, msgs,
             \* toolBlocks, tools, deferred, prefix, counts: the client can count
             \* the tokens of its payload]
    st,      \* the state of each request's handler
    answer   \* the answer just given, if the last step gave one: at most one
             \* [q, run: its state, raw: usage, report: usage, used]

vars == <<input, st, answer, now, entries, lastPrune, ledger, evicted>>

Fresh ==
    [pc |-> "new", run |-> 1, round |-> 1, attempt |-> 0,
     msgs |-> <<>>, seen |-> FALSE, retried |-> FALSE, preserve |-> FALSE,
     active |-> {}, deferred |-> {},
     prompt |-> 0, plan |-> NoPlan,
     counted |-> <<>>,     \* the rounds whose usage has been added up
     withheld |-> {}]      \* history: the rounds whose answer was withheld

Init ==
    /\ input \in Workloads
    /\ st = [q \in Requests |-> Fresh]
    /\ answer = {}
    /\ CacheInit
----------------------------------------------------------------------------
Profile(q) == MatchProfile(Reports, input[q].path)

InLoop(q) == input[q].mode # "plain"

MaxRounds(q) ==
    CASE input[q].mode = "search" -> MaxToolSearchRounds
      [] input[q].mode = "thinking" -> MaxThinkingRounds
      [] OTHER -> 1

\* The tool that the loop of a request answers itself.
OwnTool(q) ==
    CASE input[q].mode = "search" -> {"ToolSearch"}
      [] input[q].mode = "thinking" -> {"thinking"}
      [] OTHER -> {}

Payload(q) ==
    BuildPayload(input[q].system, st[q].msgs,
                 [tools |-> st[q].active \cup OwnTool(q), preserve |-> st[q].preserve,
                  prefix |-> input[q].prefix])

\* The tokens that the client counts in the payload.
PromptTokens(p) ==
    1 + Len(FlattenSeq(MapSeq(p.history, LAMBDA e : e.text \o ResultText(e.results))))
      + Len(p.current.text) + Len(ResultText(p.current.results))

\* The request as the tracker is given it: the loops leave req.Messages alone,
\* the plain retry appends to them.
TrackedRequest(q) ==
    [scope |-> input[q].scope, toolBlocks |-> input[q].toolBlocks, system |-> input[q].system,
     msgs |-> IF InLoop(q) THEN input[q].msgs ELSE st[q].msgs]

CacheProfile(q, prompt) ==
    IF Profile(q).enabled THEN PlanProfile(TrackedRequest(q), prompt, Profile(q)) ELSE NoProfile

Ratio(q) == IF Profile(q).enabled THEN Profile(q).ratio ELSE 0

\* The handler of q goes on with state s, or has returned.
Set(q, s) == st' = [st EXCEPT ![q] = s] /\ answer' = {}
Done == [Fresh EXCEPT !.pc = "done"]

Fail(q) == Set(q, Done)
----------------------------------------------------------------------------
(* HandleMessages: NewContext and the references of earlier searches *)

ExtractToolReferences(msgs) ==
    LET refs(b) == IF b.type = "tool_reference" THEN {b.id}
                   ELSE IF IsToolResult(b) THEN ToolNames(b.text)
                   ELSE {}
    IN  UNION {UNION {refs(msgs[n].blocks[k]) : k \in DOMAIN msgs[n].blocks} :
                  n \in {j \in DOMAIN msgs : ~msgs[j].str}}

\* Mutant: a promoted tool stays deferred.
PromoteToolsKept(s, names) == [s EXCEPT !.active = @ \cup (names \cap s.deferred)]

PromoteTools(s, names) ==
    [s EXCEPT !.active = @ \cup (names \cap s.deferred), !.deferred = @ \ names]

Arrive(q) ==
    LET i == input[q]
        s == [st[q] EXCEPT !.pc = "call", !.msgs = i.msgs, !.active = i.tools, !.deferred = i.deferred]
    IN  /\ st[q].pc = "new"
        /\ Set(q, IF i.mode = "search" THEN PromoteTools(s, ExtractToolReferences(i.msgs)) ELSE s)
        /\ UNCHANGED <<input, now, entries, lastPrune, ledger, evicted>>
----------------------------------------------------------------------------
(* GenerateAssistantResponse *)

\* A transport error, 429, 5xx, or 200 with a retryable exception: wait and try
\* again.  403: the same at once, if the token could be refreshed.
AttemptFails(q) ==
    /\ st[q].pc = "call"
    /\ IF st[q].attempt < MaxRetries THEN Set(q, [st[q] EXCEPT !.attempt = @ + 1]) ELSE Fail(q)
    /\ UNCHANGED <<input, now, entries, lastPrune, ledger, evicted>>

\* Any other status, a failed token refresh, or the client is gone: the wait,
\* the request and the reading of the answer all end with the client's context.
CallEnds(q) ==
    /\ st[q].pc \in {"call", "stream"}
    /\ Fail(q)
    /\ UNCHANGED <<input, now, entries, lastPrune, ledger, evicted>>

\* Mutant: the usage of the first round is not carried over.
CarriesFromSecond(q) == InLoop(q) /\ input[q].stream /\ st[q].round > 2

\* The streaming loops add up the usage of a round when the next one begins.
Carries(q) == InLoop(q) /\ input[q].stream /\ st[q].round > 1

\* Where the plan is made before the answer is read.
PlansEarly(q) == input[q].stream \/ ~InLoop(q)

\* An event stream begins.
Respond(q) ==
    /\ st[q].pc = "call"
    /\ LET prompt == IF input[q].counts THEN PromptTokens(Payload(q)) ELSE 0
           prof == CacheProfile(q, prompt)
           plan == IF PlansEarly(q) THEN BuildPlan(input[q].scope, prof, Ratio(q)) ELSE NoPlan
       IN  /\ Set(q, [st[q] EXCEPT !.pc = "stream", !.prompt = prompt, !.plan = plan,
                         !.counted = IF Carries(q) THEN Append(@, st[q].round - 1) ELSE @])
           /\ IF PlansEarly(q) THEN Track(input[q].scope, prof, Ratio(q)) ELSE UNCHANGED cacheVars
    /\ UNCHANGED <<input, now>>
----------------------------------------------------------------------------
(* The end of an answer *)

CallID(q) == ToString(<<st[q].run, st[q].round>>)

\* A new round of the loop, or none left.
NextRound(q, s) == [s EXCEPT !.pc = "call", !.round = @ + 1, !.attempt = 0, !.plan = NoPlan]

\* The second run of an orchestrator, or of the plain call: what the first one
\* learned about tools and payload options stays.
SecondRun(q, s) ==
    [s EXCEPT !.pc = "call", !.run = 2, !.round = 1, !.attempt = 0, !.plan = NoPlan,
              !.msgs = IF InLoop(q) THEN input[q].msgs ELSE @,
              !.seen = FALSE, !.retried = FALSE, !.counted = <<>>, !.withheld = {}]

\* Mutant: an empty answer is asked for again without end.
EmptyAnswerAgain(q, s) == Set(q, SecondRun(q, s))

\* An answer without anything to show.
EmptyAnswer(q, s) == IF s.run = 1 THEN Set(q, SecondRun(q, s)) ELSE Fail(q)

RawUsage(s, reads) == [NoTokens EXCEPT !.input = s.prompt, !.output = 1, !.read = reads]

Give(q, s, raw, report, used) ==
    /\ st' = [st EXCEPT ![q] = Done]
    /\ answer' = {[q |-> q, run |-> s, raw |-> raw, report |-> report, used |-> used]}

\* Finish or BuildResponse, then commitIfApplied: the counts of the answer, with
\* the plan's simulation if there is one.
AnswerAndCommit(q, s) ==
    \E reads \in UpstreamReads :
        LET raw == RawUsage(s, reads)
        IN  \E r \in ApplyReportProfile(raw, s.plan.usage, Profile(q)) :
               /\ Give(q, [s EXCEPT !.counted = Append(@, s.round)], raw, r.usage, r.used)
               /\ IF r.used THEN Commit(input[q].scope, CacheProfile(q, s.prompt), Ratio(q))
                  ELSE UNCHANGED cacheVars

\* The loop has used up its rounds.  A loop that buffers has an answer by then:
\* at most one of its rounds was withheld.
RoundsUsedUp(q, s) ==
    \/ /\ input[q].stream /\ (input[q].mode = "search" \/ s.seen)
       /\ AnswerAndCommit(q, s)
    \/ /\ input[q].stream /\ input[q].mode = "thinking" /\ ~s.seen
       /\ EmptyAnswer(q, s)
       /\ UNCHANGED cacheVars
    \/ /\ ~input[q].stream
       /\ Give(q, s, RawUsage(s, 0), RawUsage(s, 0), FALSE)
       /\ UNCHANGED cacheVars

Continue(q, s) ==
    IF st[q].round < MaxRounds(q) THEN Set(q, NextRound(q, s)) /\ UNCHANGED cacheVars
    ELSE RoundsUsedUp(q, s)

\* Text that the client saw before the answer ended.
Seen(q, text) == st[q].seen \/ (input[q].stream /\ text)

CountsNow(q) == IF input[q].stream THEN st[q].counted ELSE Append(st[q].counted, st[q].round)

Exchange(q, type, result, more) ==
    <<Message("assistant", <<Block(type, CallID(q), <<>>)>>),
      Message("user", <<Block("tool_result", CallID(q), result)>> \o more)>>

\* toolsearch.Search: what a query finds is left open.
Found(deferred) == SUBSET deferred

\* The model searches for tools: what is found is offered from now on.  A query
\* that cannot be parsed or searched is answered with an error.
Search(q) ==
    /\ st[q].pc = "stream"
    /\ input[q].mode = "search"
    /\ \E found \in Found(st[q].deferred) :
          LET result == MapSeq(SetToSeq(found), LAMBDA t : Fragment("tool", t))
              s == PromoteTools(st[q], found)
          IN  Continue(q, [s EXCEPT !.msgs = @ \o Exchange(q, "server_tool_use", result, <<>>),
                                    !.seen = Seen(q, TRUE), !.counted = CountsNow(q)])
    /\ UNCHANGED <<input, now>>

\* The model calls the thinking tool.
Think(q) ==
    /\ st[q].pc = "stream"
    /\ input[q].mode = "thinking"
    /\ \E text \in BOOLEAN :
          Continue(q, [st[q] EXCEPT !.msgs = @ \o Exchange(q, "tool_use", OkText, <<TextBlock(ContinueText)>>),
                                    !.preserve = TRUE, !.seen = Seen(q, text), !.counted = CountsNow(q)])
    /\ UNCHANGED <<input, now>>

\* A tool call that does not fit its schema, and nothing was shown yet: the
\* model is told once.
WithheldCall(q) ==
    LET s == [st[q] EXCEPT !.msgs = @ \o Exchange(q, "tool_use", OkText, <<>>)]
        again == [s EXCEPT !.retried = TRUE, !.preserve = TRUE, !.withheld = @ \cup {st[q].round}]
    IN  /\ st[q].pc = "stream"
        /\ ~st[q].seen
        /\ \/ /\ InLoop(q) /\ ~st[q].retried
              /\ Continue(q, again)
           \/ /\ ~InLoop(q) /\ st[q].run = 1
              /\ Set(q, SecondRun(q, s))
              /\ UNCHANGED cacheVars
           \/ /\ st[q].retried \/ (~InLoop(q) /\ st[q].run = 2)
              /\ Fail(q)
              /\ UNCHANGED cacheVars
        /\ UNCHANGED <<input, now>>

\* An answer with text or a tool call for the client.
Answer(q) ==
    /\ st[q].pc = "stream"
    /\ PlansEarly(q)
    /\ AnswerAndCommit(q, st[q])
    /\ UNCHANGED <<input, now>>

\* Thinking alone: nothing was shown.
AnswerEmpty(q) ==
    /\ st[q].pc = "stream"
    /\ PlansEarly(q)
    /\ ~st[q].seen
    /\ EmptyAnswer(q, st[q])
    /\ UNCHANGED <<input, now, entries, lastPrune, ledger, evicted>>

\* The same in the loops that buffer: compute and update come right after each
\* other, but each takes the tracker's lock for itself.
PlanLate(q) ==
    /\ st[q].pc = "stream"
    /\ ~PlansEarly(q)
    /\ LET prof == CacheProfile(q, st[q].prompt)
       IN  /\ Set(q, [st[q] EXCEPT !.pc = "finish", !.plan = BuildPlan(input[q].scope, prof, Ratio(q))])
           /\ Track(input[q].scope, prof, Ratio(q))
    /\ UNCHANGED <<input, now>>

FinishLate(q) ==
    /\ st[q].pc = "finish"
    /\ \/ AnswerAndCommit(q, st[q])
       \/ EmptyAnswer(q, st[q]) /\ UNCHANGED cacheVars
    /\ UNCHANGED <<input, now>>
----------------------------------------------------------------------------
\* Before the tracker is first used the time does not matter.
Tick ==
    /\ lastPrune # -1
    /\ now < MaxTime
    /\ now' = now + 1
    /\ answer' = {}
    /\ UNCHANGED <<input, st, entries, lastPrune, ledger, evicted>>

Janitor == Sweep /\ answer' = {} /\ UNCHANGED <<input, st>>

Call(q) == AttemptFails(q) \/ CallEnds(q) \/ Respond(q)

EndOfAnswer(q) ==
    \/ Search(q) \/ Think(q) \/ WithheldCall(q)
    \/ Answer(q) \/ AnswerEmpty(q) \/ PlanLate(q) \/ FinishLate(q)

Next ==
    \/ \E q \in DOMAIN input : Arrive(q) \/ Call(q) \/ EndOfAnswer(q)
    \/ Tick
    \/ Janitor

Spec == Init /\ [][Next]_vars
----------------------------------------------------------------------------
(* Properties *)

TypeOK ==
    /\ CacheTypeOK
    /\ \A q \in DOMAIN input :
          /\ st[q].pc \in {"new", "call", "stream", "finish", "done"}
          /\ st[q].run \in 1..2 /\ st[q].round \in 1..MaxRounds(q) /\ st[q].attempt \in 0..MaxRetries
          /\ st[q].active \cap st[q].deferred = {}
          /\ st[q].plan.ok \in BOOLEAN
    /\ Cardinality(answer) <= 1
    /\ \A a \in answer : \A f \in DOMAIN a.report : a.report[f] \in Nat

ToolsNamed(p) ==
    ToolNames(FlattenSeq(MapSeq(p.history, LAMBDA e : e.text \o ResultText(e.results)))
              \o p.current.text \o ResultText(p.current.results))

\* Clients whose messages are regular and that refer to tools only in results,
\* and only to tools of their request.
RegularClients ==
    \A w \in Workloads : \A q \in DOMAIN w :
        /\ Regular(w[q].msgs)
        /\ \A n \in DOMAIN w[q].system : ToolNames(w[q].system[n].text) = {}
        /\ \A n \in DOMAIN w[q].msgs : \A b \in Range(w[q].msgs[n].blocks) :
              ToolNames(b.text) \subseteq
                 (IF IsToolResult(b) /\ ~w[q].msgs[n].str THEN w[q].tools \cup w[q].deferred ELSE {})

\* Whatever the client sent and however often the loops went on, the payload is
\* one the upstream accepts: user and assistant alternate, every tool result
\* answers a use of the entry before it, in the order of the uses, and a tool
\* that a search has found, in this run or an earlier one, is offered
\* (reqconv.BuildPayload, appendSearchMessages, PromoteTools).
PayloadWellFormed ==
    \A q \in DOMAIN input : st[q].pc = "call" =>
        /\ WellFormed(Payload(q))
        /\ input[q].mode = "search" => ToolsNamed(Payload(q)) \subseteq Payload(q).current.tools

\* Nothing that was said is lost on the way and nothing changes places:
\* merging, textualising and reordering keep every text at its message's place
\* (message_normalizer.go, history.go).
TextKept ==
    \A q \in DOMAIN input : st[q].pc = "call" => SaidTo(Payload(q)) = SaidIn(st[q].msgs)

\* Clients whose messages answer a tool use at most once each.
ClientsAnswerOnce ==
    \A w \in Workloads : \A q \in DOMAIN w : \A n \in DOMAIN w[q].msgs : OneAnswerEach(w[q].msgs[n])

\* Whatever messages a client sends and the loops add, regular or not: each has
\* a place in the payload, in the order of the messages, where the same side
\* says all that it says and all that the tools returned, and nothing else is
\* said there but the system prompt (Normalize, buildHistory,
\* buildCurrentMessage, ReorderToolResults).
PlacesKept ==
    \A q \in DOMAIN input : st[q].pc = "call" => KeepsPlaces(input[q].system, st[q].msgs, Payload(q))

\* The points of a prompt that some answer has committed in the same scope, and
\* that have been used within their lifetime.
Backed(q, prof) ==
    {n \in DOMAIN prof.fps :
        /\ prof.sums[n] >= MinTokens
        /\ Key(input[q].scope, prof.fps[n]) \in DOMAIN ledger
        /\ Live(ledger[Key(input[q].scope, prof.fps[n])])}

\* A plan says "read from the cache" only about a prefix that an earlier answer
\* of the same conversation and account has committed and that has not expired,
\* whatever other requests, prunings and evictions happened in between; and it
\* does say so unless a limit has evicted something (tracker.go, compute).
ReadsBacked ==
    [][\A q \in DOMAIN input : st'[q].plan.ok /\ ~st[q].plan.ok =>
          LET prof == CacheProfile(q, st'[q].prompt)
              read == st'[q].plan.usage.read
              backed == Backed(q, prof)
          IN  /\ read > 0 => \E n \in backed : read <= ledger[Key(input[q].scope, prof.fps[n])].cached
              /\ backed # {} /\ ~evicted => read > 0]_vars

\* The reported usage adds up: the creation is the sum of its lifetimes where
\* they are shown, tokens moved off the input appear as reads, the input stays
\* between one and what was sent, what the simulation adds respects the
\* profile's cap or, where it has none, the largest scale, and the upstream's
\* own cache counts are never mixed with simulated ones (ApplyReportProfile).
ReportConsistent ==
    \A a \in answer : Profile(a.q).enabled =>
        LET u == a.report
            p == Profile(a.q)
        IN  /\ u.m5 + u.h1 <= u.creation
            /\ a.used /\ p.ttlFields => u.m5 + u.h1 = u.creation
            /\ u.input <= a.raw.input /\ (a.raw.input > 0 => u.input > 0)
            /\ p.input.move => u.input + u.read >= a.raw.input
            /\ a.used => a.raw.read = 0
            /\ a.used => u.read + u.creation <=
                  (IF p.cap > 1 THEN Max2(a.raw.input, p.cap) ELSE 3 * a.raw.input) + (a.raw.input - u.input)

\* When a request is answered, the usage of each of its run's rounds has been
\* added up exactly once; only a buffered answer that was withheld is left out
\* (handleStreaming and handleNonStreaming of the two loops).
RoundsAccounted ==
    \A a \in answer :
        /\ IsInjective(a.run.counted)
        /\ 1..a.run.round \subseteq
              Range(a.run.counted) \cup (IF input[a.q].stream THEN {} ELSE a.run.withheld)

\* What a request may still use up, most important first: its runs, the rounds
\* of the run, the attempts of the call, the stages of the round.
Remaining(q, s) ==
    <<2 - s.run, MaxRounds(q) - s.round, MaxRetries - s.attempt,
      CASE s.pc = "new" -> 4 [] s.pc = "call" -> 3 [] s.pc = "stream" -> 2
        [] s.pc = "finish" -> 1 [] OTHER -> 0>>

Less(x, y) == \E n \in DOMAIN x : x[n] < y[n] /\ \A k \in 1..(n - 1) : x[k] = y[k]

\* No request goes round in circles: each of its steps ends it or leaves it
\* less to do, whatever retries, rounds and second runs it goes through, and
\* the transport's header timeout and the idleReader's deadline see to it that
\* there is a next step (client.go, toolsearch.go, thinkingtool.go).
WorkRunsOut ==
    [][\A q \in DOMAIN input : st'[q] # st[q] /\ st[q].pc # "new" =>
          st'[q].pc = "done" \/ Less(Remaining(q, st'[q]), Remaining(q, st[q]))]_vars
============================================================================
