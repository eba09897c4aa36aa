------------------------------ MODULE ReqConv ------------------------------
(***************************************************************************)
(* internal/reqconv: from an Anthropic request to the payload sent         *)
(* upstream.  The upstream wants a history in which user and assistant     *)
(* alternate and every tool result answers a tool use of the entry before  *)
(* it; clients send messages in any order.                                 *)
(*                                                                         *)
(* A text is a sequence of fragments [kind, id]; joining texts puts        *)
(* fragments after each other, so separators and wording are left out:     *)
(*   "said"       what the client wrote in message id                      *)
(*   "mcp"        a system reminder with MCP server instructions           *)
(*   "billing"    a billing header at the start of a system block          *)
(*   "use", "result", "unknown"   a block turned into text                 *)
(*   "tool"       a reference to tool id, in the result of a search        *)
(*   "synthetic"  text put in by the proxy                                 *)
(* A block is [type, id, text, cache]: id names the tool use that a tool   *)
(* use or a tool result is about, cache is its cache_control ("no", "5m",  *)
(* "1h").  A message is [role, str, blocks]; str: the content is a string, *)
(* kept as its only text block.                                            *)
(***************************************************************************)
EXTENDS Integers, Sequences, SequencesExt

CONSTANT
    SystemMode   \* KIROCC_EXPERIMENT_SYSTEM_MODE: "", "drop", "current" or "noack"

ASSUME ReqConvAssumption == SystemMode \in {"", "drop", "current", "noack"}

Fragment(kind, id) == [kind |-> kind, id |-> id]
Said(n) == Fragment("said", n)
Empty == <<Fragment("synthetic", "(empty)")>>
ContinueText == <<Fragment("synthetic", "Continue")>>
AckText == <<Fragment("synthetic", "ack")>>
OkText == <<Fragment("synthetic", "ok")>>

Block(type, id, text) == [type |-> type, id |-> id, text |-> text, cache |-> "no"]
TextBlock(text) == Block("text", "", text)

Message(role, blocks) == [role |-> role, str |-> FALSE, blocks |-> blocks]
StringMessage(role, text) == [role |-> role, str |-> TRUE, blocks |-> <<TextBlock(text)>>]

IsToolUse(b) == b.type \in {"tool_use", "server_tool_use"}
IsToolResult(b) == b.type \in {"tool_result", "tool_search_tool_result"}

MapSeq(s, Op(_)) == [n \in DOMAIN s |-> Op(s[n])]

\* The elements of s at the positions of I, and those that pass Test, in order.
At(s, I) == FlattenSeq([n \in DOMAIN s |-> IF n \in I THEN <<s[n]>> ELSE <<>>])
Keep(s, Test(_)) == At(s, {n \in DOMAIN s : Test(s[n])})

\* What the parser lets through: contents are lists of blocks, and there is a
\* message.
IsSeq(s) == Len(s) \in Nat /\ s = [n \in 1..Len(s) |-> s[n]]

IsContent(blocks) ==
    /\ IsSeq(blocks)
    /\ \A n \in DOMAIN blocks : /\ DOMAIN blocks[n] = {"type", "id", "text", "cache"}
                                /\ IsSeq(blocks[n].text)

IsConversation(msgs) ==
    /\ IsSeq(msgs) /\ msgs # <<>>
    /\ \A n \in DOMAIN msgs : DOMAIN msgs[n] = {"role", "str", "blocks"} /\ IsContent(msgs[n].blocks)
----------------------------------------------------------------------------
(* Text of a content: content_text.go *)

BlockText(b) ==
    CASE b.type = "text" -> b.text
      [] b.type \in {"thinking", "image", "tool_reference"} \/ IsToolUse(b) \/ IsToolResult(b) -> <<>>
      [] OTHER -> <<Fragment("unknown", b.id)>>

ExtractTextContent(msg) == FlattenSeq(MapSeq(msg.blocks, BlockText))

CleanCurrentText(text) == Keep(text, LAMBDA f : f.kind # "mcp")

CleanSystemPromptText(text) ==
    IF text # <<>> /\ text[1].kind = "billing" THEN <<>> ELSE text

ExtractSystemPrompt(system) ==
    FlattenSeq(MapSeq(system, LAMBDA b : IF b.type = "text" THEN CleanSystemPromptText(b.text)
                                         ELSE <<>>))
----------------------------------------------------------------------------
(* Normalisation: message_normalizer.go *)

TextualizeBlock(b) ==
    IF IsToolUse(b) THEN TextBlock(<<Fragment("use", b.id)>>)
    ELSE IF IsToolResult(b) THEN TextBlock(<<Fragment("result", b.id)>> \o b.text)
    ELSE b

TextualizeAllToolContent(msgs) ==
    MapSeq(msgs, LAMBDA m : IF m.str THEN m
                            ELSE Message(m.role, MapSeq(m.blocks, TextualizeBlock)))

ExtractToolUseIDs(m) ==
    IF m.str THEN <<>> ELSE MapSeq(Keep(m.blocks, IsToolUse), LAMBDA b : b.id)

\* Mutant: a result is kept when any earlier message has its tool use.
OrphanAnywhere(msgs, n, b) ==
    IsToolResult(b) /\ \A k \in 1..(n - 1) : ~Contains(ExtractToolUseIDs(msgs[k]), b.id)

\* Not an answer to a tool use of the assistant message just before.
Orphan(msgs, n, b) ==
    /\ IsToolResult(b)
    /\ \/ n = 1
       \/ msgs[n - 1].role # "assistant"
       \/ ~Contains(ExtractToolUseIDs(msgs[n - 1]), b.id)

TextualizeOrphanToolResults(msgs) ==
    [n \in DOMAIN msgs |->
        IF msgs[n].role # "user" \/ msgs[n].str THEN msgs[n]
        ELSE Message("user", MapSeq(msgs[n].blocks,
                 LAMBDA b : IF Orphan(msgs, n, b) THEN TextualizeBlock(b) ELSE b))]

TextualizeToolContent(msgs, hasTools) ==
    IF hasTools THEN TextualizeOrphanToolResults(msgs) ELSE TextualizeAllToolContent(msgs)

NormalizeRoles(msgs) ==
    MapSeq(msgs, LAMBDA m : IF m.role \in {"user", "assistant"} THEN m ELSE [m EXCEPT !.role = "user"])

IsPlainTextContent(m) == m.str \/ \A n \in DOMAIN m.blocks : m.blocks[n].type = "text"

\* Mutant: of two messages only the first one's text is kept.
MergeFirst(a, b) == StringMessage(a.role, ExtractTextContent(a))

Merge(a, b) == StringMessage(a.role, ExtractTextContent(a) \o ExtractTextContent(b))

\* The messages so far and the next one: runs of plain messages of one role
\* become one message.
Joined(done, m) ==
    IF /\ done # <<>> /\ Last(done).role = m.role
       /\ IsPlainTextContent(Last(done)) /\ IsPlainTextContent(m)
    THEN Append(Front(done), Merge(Last(done), m))
    ELSE Append(done, m)

MergeAdjacentSameRole(msgs) ==
    LET merged[n \in 0..Len(msgs)] == IF n = 0 THEN <<>> ELSE Joined(merged[n - 1], msgs[n])
    IN  merged[Len(msgs)]

EnsureStartsWithUser(msgs) ==
    IF msgs = <<>> \/ msgs[1].role = "user" THEN msgs
    ELSE <<StringMessage("user", Empty)>> \o msgs

Opposite(role) == IF role = "assistant" THEN "user" ELSE "assistant"

\* Between two messages of one role an empty one of the other is put in.
Alternated(done, m) ==
    IF done # <<>> /\ Last(done).role = m.role
    THEN done \o <<StringMessage(Opposite(m.role), Empty), m>>
    ELSE Append(done, m)

EnsureAlternatingRoles(msgs) ==
    LET spaced[n \in 0..Len(msgs)] == IF n = 0 THEN <<>> ELSE Alternated(spaced[n - 1], msgs[n])
    IN  spaced[Len(msgs)]

Normalize(msgs, hasTools) ==
    EnsureAlternatingRoles(EnsureStartsWithUser(MergeAdjacentSameRole(
        NormalizeRoles(TextualizeToolContent(msgs, hasTools)))))
----------------------------------------------------------------------------
(* History and current message: history.go, tool_results.go, build_payload.go *)

ExtractToolResults(m) ==
    IF m.str THEN <<>>
    ELSE MapSeq(Keep(m.blocks, IsToolResult), LAMBDA b : [id |-> b.id, text |-> b.text])

\* In the order of the tool uses; of several results for one use the last.
ReorderToolResults(results, ids) ==
    LET index(id) == SelectLastInSeq(results, LAMBDA r : r.id = id)
        answered == Keep(ids, LAMBDA id : index(id) # 0)
        others == Keep(results, LAMBDA r : ~Contains(ids, r.id))
    IN  IF Len(results) <= 1 \/ ids = <<>> THEN results
        ELSE MapSeq(answered, LAMBDA id : results[index(id)]) \o others

Entry(role, text, results, uses) ==
    [role |-> role, text |-> text, results |-> results, uses |-> uses]

BuildHistory(msgs) ==
    [n \in DOMAIN msgs |->
        IF msgs[n].role = "user"
        THEN LET results == ExtractToolResults(msgs[n])
             IN  Entry("user", CleanCurrentText(ExtractTextContent(msgs[n])),
                       IF Len(results) > 1 /\ n > 1
                       THEN ReorderToolResults(results, ExtractToolUseIDs(msgs[n - 1]))
                       ELSE results, <<>>)
        ELSE Entry("assistant", ExtractTextContent(msgs[n]), <<>>, ExtractToolUseIDs(msgs[n]))]

\* The history and the last message: an assistant's goes to the history.
SplitMessages(msgs) ==
    IF Last(msgs).role = "assistant"
    THEN [history |-> msgs, last |-> StringMessage("user", ContinueText)]
    ELSE [history |-> Front(msgs), last |-> Last(msgs)]

\* The system prompt as an exchange of its own at the start of the history.
PlaceSystemPrompt(prompt, history, text) ==
    LET system == Entry("user", prompt, <<>>, <<>>)
        ack == Entry("assistant", AckText, <<>>, <<>>)
        before == IF prompt = <<>> \/ SystemMode \in {"drop", "current"} THEN <<>>
                  ELSE IF SystemMode = "noack" THEN <<system>>
                  ELSE <<system, ack>>
    IN  [history |-> before \o history,
         text |-> IF SystemMode = "current" THEN prompt \o text ELSE text]

\* The thinking tags go before the text, but an answer of tool results alone
\* stays empty.
BuildCurrentMessage(last, text, tools, prefix, ids) ==
    LET results == ReorderToolResults(ExtractToolResults(last), ids)
        content == IF text = <<>> /\ results = <<>> THEN ContinueText ELSE text
        tags == IF prefix /\ (content # <<>> \/ results = <<>>)
                THEN <<Fragment("synthetic", "thinking_mode")>> ELSE <<>>
    IN  [text |-> tags \o content, results |-> results, tools |-> tools]

\* opts: tools (the names offered), preserve (PreserveToolBlocks), prefix.
BuildPayload(system, msgs, opts) ==
    LET hasTools == opts.tools # {} \/ opts.preserve
        parts == SplitMessages(Normalize(msgs, hasTools))
        ids == IF parts.history = <<>> THEN <<>> ELSE ExtractToolUseIDs(Last(parts.history))
        placed == PlaceSystemPrompt(ExtractSystemPrompt(system), BuildHistory(parts.history),
                                    CleanCurrentText(ExtractTextContent(parts.last)))
    IN  [history |-> placed.history,
         current |-> BuildCurrentMessage(parts.last, placed.text, opts.tools, opts.prefix, ids)]
----------------------------------------------------------------------------
(* What a client must be like *)

\* The uses of a message have distinct ids, and a user answers them.
RegularMessage(m) ==
    /\ IsInjective(ExtractToolUseIDs(m))
    /\ m.role \notin {"user", "assistant"} =>
          m.str \/ \A k \in DOMAIN m.blocks : ~IsToolResult(m.blocks[k])

Regular(msgs) == \A n \in DOMAIN msgs : RegularMessage(msgs[n])

\* The tools that a text refers to.
ToolNames(text) == {text[n].id : n \in {k \in DOMAIN text : text[k].kind = "tool"}}
----------------------------------------------------------------------------
(* What a payload must be like *)

\* The results answer the uses, each at most once and in their order.
Answers(results, uses) ==
    /\ \A n \in DOMAIN results : Contains(uses, results[n].id)
    /\ \A n, k \in DOMAIN results : n < k =>
          SelectInSeq(uses, LAMBDA u : u = results[n].id)
             < SelectInSeq(uses, LAMBDA u : u = results[k].id)

WellFormed(p) ==
    LET h == p.history
        usesBefore(n) == IF n = 1 THEN <<>> ELSE h[n - 1].uses
    IN  /\ \A n \in DOMAIN h : h[n].role = (IF n % 2 = 1 THEN "user" ELSE "assistant")
        /\ Len(h) % 2 = 0
        /\ \A n \in DOMAIN h : Answers(h[n].results, usesBefore(n))
        /\ Answers(p.current.results, usesBefore(Len(h) + 1))
        /\ p.current.text # <<>> \/ p.current.results # <<>>

\* The messages that fragments of a text come from, in order.
Sources(text) == MapSeq(Keep(text, LAMBDA f : f.kind = "said"), LAMBDA f : f.id)

ResultText(results) == FlattenSeq(MapSeq(results, LAMBDA r : r.text))

\* Everything said in the messages, and everything said in the payload.
SaidIn(msgs) ==
    Sources(FlattenSeq(MapSeq(msgs, LAMBDA m : FlattenSeq(MapSeq(m.blocks, LAMBDA b : b.text)))))
SaidTo(p) ==
    Sources(FlattenSeq(MapSeq(p.history, LAMBDA e : e.text \o ResultText(e.results)))
            \o p.current.text \o ResultText(p.current.results))

\* What a text says.
SaidBy(text) == {text[n].id : n \in {k \in DOMAIN text : text[k].kind = "said"}}

\* What a message tells: its texts, and the results that a user sends.
Telling(m, k) ==
    \/ m.blocks[k].type = "text"
    \/ IsToolResult(m.blocks[k]) /\ ~m.str /\ m.role # "assistant"

Tells(m) == UNION {SaidBy(m.blocks[k].text) : k \in {j \in DOMAIN m.blocks : Telling(m, j)}}

\* The results of a message are for different uses.
OneAnswerEach(m) ==
    \A i, j \in DOMAIN m.blocks :
        /\ IsToolResult(m.blocks[i]) /\ IsToolResult(m.blocks[j])
        /\ m.blocks[i].id = m.blocks[j].id
        => i = j

\* What an entry of the payload tells, the one after the history being the
\* current message, and who says it.
EntryTells(e) == SaidBy(e.text) \cup UNION {SaidBy(e.results[k].text) : k \in DOMAIN e.results}
TellsAt(p, n) == EntryTells(IF n \in DOMAIN p.history THEN p.history[n] ELSE p.current)
SpeakerAt(p, n) == IF n \in DOMAIN p.history THEN p.history[n].role ELSE "user"
Speaker(m) == IF m.role = "assistant" THEN "assistant" ELSE "user"

\* All that is said in a content.
Says(blocks) == UNION {SaidBy(blocks[k].text) : k \in DOMAIN blocks}

\* Every message has a place in the payload, in the order of the messages, where
\* all that it tells is told by the same side; and nothing is told at a place
\* but by the messages that have it and by the system prompt.
KeepsPlaces(system, msgs, p) ==
    \E place \in [DOMAIN msgs -> 1..(Len(p.history) + 1)] :
        /\ \A n, k \in DOMAIN msgs : n <= k => place[n] <= place[k]
        /\ \A n \in DOMAIN msgs : /\ SpeakerAt(p, place[n]) = Speaker(msgs[n])
                                  /\ Tells(msgs[n]) \subseteq TellsAt(p, place[n])
        /\ \A i \in 1..(Len(p.history) + 1) : \A x \in TellsAt(p, i) :
              \/ x \in Says(system)
              \/ \E n \in DOMAIN msgs : place[n] = i /\ x \in Says(msgs[n].blocks)
============================================================================
