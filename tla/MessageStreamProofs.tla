------------------------ MODULE MessageStreamProofs ------------------------
(***************************************************************************)
(* Proofs about MessageStream for event streams of any length.             *)
(*                                                                         *)
(* The properties speak about what the client gets; what they rest on is   *)
(* the state of the writer behind the gate.  Within an attempt a writer is *)
(* first InAnswer (it may go on writing), then Closed.  One lemma per      *)
(* writer operation says that it keeps the former or leads to the latter;  *)
(* StreamInv says which of the two holds where.                            *)
(***************************************************************************)
EXTENDS MessageStream, SequenceTheorems, TLAPS

BlockTypes == {"text", "thinking", "tool_use", "redacted_thinking"}
ContentKinds == {"start", "open", "delta", "stop"}
EndKinds == {"message_stop", "error", "json_error", "json_message"}
ErrorKinds == {"error", "json_error"}
Kinds == ContentKinds \cup EndKinds \cup {"message_delta"}
Items == [kind : Kinds, index : Int, type : BlockTypes \cup {"none"}]

Writers ==
    [started : BOOLEAN, block : Int, active : BlockTypes \cup {"none"}, signed : BOOLEAN,
     out : Seq(Items), promoted : BOOLEAN, writeErr : BOOLEAN]

\* The event stream so far, from message_start on.
Chained(s) ==
    /\ s # <<>> => s[1].kind = "start"
    /\ \A n \in 2..Len(s) : Follows(s[n - 1], s[n])

\* The item after which the writer would continue a block or open the next.
AtState(w, x) ==
    /\ x.index = w.block
    /\ IF w.active = "none" THEN x.kind \in {"start", "stop"}
       ELSE x.kind \in {"open", "delta"} /\ x.type = w.active

\* What holds of a writer at any time.  The start is written before the gate
\* opens, so it cannot fail, and only an open gate can.
WriterOK(w) ==
    /\ w \in Writers
    /\ w.block >= -1
    /\ Chained(w.out)
    /\ (w.started <=> w.out # <<>>)
    /\ w.promoted => w.started
    /\ w.writeErr => w.promoted /\ gone

\* The writer is in the middle of an answer, or has not begun one.
InAnswer(w) ==
    /\ WriterOK(w)
    /\ \A n \in 1..Len(w.out) : w.out[n].kind \in ContentKinds
    /\ ~w.started => w.active = "none" /\ w.block = -1
    /\ w.started /\ ~w.writeErr => AtState(w, w.out[Len(w.out)])

\* The answer has its end, as far as the client is there to receive it.
Closed(w, end) ==
    /\ WriterOK(w)
    /\ w.started
    /\ w.writeErr \/ w.out[Len(w.out)].kind = end
    /\ \A n \in 1..Len(w.out) : w.out[n].kind \in ContentKinds \cup {"message_delta", end}
-----------------------------------------------------------------------------
(***************************************************************************)
(* The writer's operations                                                 *)
(***************************************************************************)

\* An item that may follow the last one extends a chain.
LEMMA ChainedAppend ==
  ASSUME NEW s \in Seq(Items), Chained(s), NEW x \in Items,
         IF s = <<>> THEN x.kind = "start" ELSE Follows(s[Len(s)], x)
  PROVE  /\ Append(s, x) \in Seq(Items)
         /\ Append(s, x) # <<>>
         /\ Chained(Append(s, x))
         /\ Len(Append(s, x)) = Len(s) + 1
         /\ Append(s, x)[Len(Append(s, x))] = x
         /\ \A n \in 1..Len(s) : Append(s, x)[n] = s[n]
<1>1. Len(s) \in Nat
  OBVIOUS
<1> DEFINE t == Append(s, x)
<1>2. t \in Seq(Items) /\ Len(t) = Len(s) + 1 /\ t[Len(t)] = x /\ t # <<>>
  BY <1>1, AppendProperties
<1>3. \A n \in 1..Len(s) : t[n] = s[n]
  BY AppendProperties
<1>4. t[1].kind = "start"
  BY <1>1, <1>2, <1>3 DEF Chained
<1>5. ASSUME NEW n \in 2..Len(t) PROVE Follows(t[n - 1], t[n])
  <2>1. CASE n = Len(t)
    BY <1>1, <1>2, <1>3, <2>1
  <2>2. CASE n # Len(t)
    <3>1. n \in 2..Len(s) /\ n \in 1..Len(s) /\ n - 1 \in 1..Len(s)
      BY <1>1, <1>2, <2>2
    <3>2. t[n] = s[n] /\ t[n - 1] = s[n - 1]
      BY <1>3, <3>1
    <3> QED BY <3>1, <3>2 DEF Chained
  <2> QED BY <2>1, <2>2
<1>6. Chained(t)
  BY <1>2, <1>4, <1>5 DEF Chained
<1> QED BY <1>2, <1>3, <1>6

\* A write appends the item, fails because the client left, or comes too late.
LEMMA WriteCases ==
  ASSUME NEW w \in Writers, NEW x \in Items
  PROVE  LET v == Write(w, x)
         IN  /\ v \in Writers
             /\ (v.started <=> w.started) /\ v.block = w.block /\ v.active = w.active
             /\ v.signed = w.signed /\ (v.promoted <=> w.promoted)
             /\ \/ v = w /\ w.writeErr
                \/ v.writeErr /\ v.out = w.out /\ w.promoted /\ gone
                \/ ~v.writeErr /\ ~w.writeErr /\ v.out = Append(w.out, x)
<1>1. CASE w.writeErr
  BY <1>1 DEF Write
<1>2. CASE ~w.writeErr /\ w.promoted /\ gone
  BY <1>2 DEF Write, Writers
<1>3. CASE ~w.writeErr /\ ~(w.promoted /\ gone)
  <2>1. Write(w, x) = [w EXCEPT !.out = Append(w.out, x)]
    BY <1>3 DEF Write
  <2>2. w.out \in Seq(Items)
    BY DEF Writers
  <2>3. Append(w.out, x) \in Seq(Items)
    BY <2>2, AppendProperties
  <2> QED BY <1>3, <2>1, <2>3 DEF Writers
<1> QED BY <1>1, <1>2, <1>3

\* An answer that has begun and has only content in it.
Body(w) ==
    /\ WriterOK(w)
    /\ w.started
    /\ \A n \in 1..Len(w.out) : w.out[n].kind \in ContentKinds

\* Writing what may come next keeps the stream well formed, and leaves the
\* written item last unless the client is gone.
LEMMA WriteNext ==
  ASSUME NEW w, WriterOK(w), w.started, NEW x \in Items,
         w.writeErr \/ Follows(w.out[Len(w.out)], x)
  PROVE  LET v == Write(w, x)
         IN  /\ WriterOK(v) /\ v.started
             /\ v.block = w.block /\ v.active = w.active
             /\ v.signed = w.signed /\ (v.promoted <=> w.promoted)
             /\ w.writeErr => v.writeErr
             /\ v.writeErr \/ v.out[Len(v.out)] = x
             /\ \A n \in 1..Len(v.out) : v.out[n] = x \/ \E k \in 1..Len(w.out) : v.out[n] = w.out[k]
<1> DEFINE v == Write(w, x)
<1>1. w \in Writers /\ w.out \in Seq(Items) /\ w.out # <<>> /\ Chained(w.out)
  BY DEF WriterOK, Writers
<1>2. /\ v \in Writers
      /\ (v.started <=> w.started) /\ v.block = w.block /\ v.active = w.active
      /\ v.signed = w.signed /\ (v.promoted <=> w.promoted)
      /\ \/ v = w /\ w.writeErr
         \/ v.writeErr /\ v.out = w.out /\ w.promoted /\ gone
         \/ ~v.writeErr /\ ~w.writeErr /\ v.out = Append(w.out, x)
  BY <1>1, WriteCases
<1> HIDE DEF v
<1>3. CASE v = w /\ w.writeErr
  BY <1>2, <1>3 DEF v, WriterOK
<1>4. CASE v.writeErr /\ v.out = w.out /\ w.promoted /\ gone
  BY <1>2, <1>4 DEF v, WriterOK
<1>5. CASE ~v.writeErr /\ ~w.writeErr /\ v.out = Append(w.out, x)
  <2>1. /\ v.out # <<>> /\ Chained(v.out)
        /\ Len(v.out) = Len(w.out) + 1
        /\ v.out[Len(v.out)] = x
        /\ \A n \in 1..Len(w.out) : v.out[n] = w.out[n]
    BY <1>1, <1>5, ChainedAppend
  <2>2. WriterOK(v)
    BY <1>2, <1>5, <2>1 DEF WriterOK
  <2>3. ASSUME NEW n \in 1..Len(v.out)
        PROVE  v.out[n] = x \/ \E k \in 1..Len(w.out) : v.out[n] = w.out[k]
    <3>1. Len(w.out) \in Nat
      BY <1>1
    <3>2. n = Len(v.out) \/ n \in 1..Len(w.out)
      BY <2>1, <3>1
    <3> QED BY <2>1, <3>2
  <2> QED BY <1>2, <1>5, <2>1, <2>2, <2>3 DEF v
<1> QED BY <1>2, <1>3, <1>4, <1>5

\* A content item keeps the answer going if it matches where the writer is.
LEMMA WriteContent ==
  ASSUME NEW w, Body(w), NEW x \in Items, x.kind \in ContentKinds,
         w.writeErr \/ Follows(w.out[Len(w.out)], x)
  PROVE  LET v == Write(w, x)
         IN  /\ Body(v)
             /\ v.block = w.block /\ v.active = w.active
             /\ v.signed = w.signed /\ (v.promoted <=> w.promoted)
             /\ w.writeErr => v.writeErr
             /\ v.writeErr \/ v.out[Len(v.out)] = x
BY WriteNext DEF Body

\* ensureStarted: from then on there is an answer, and the gate is as it was.
LEMMA EnsureStartedOK ==
  ASSUME NEW w, InAnswer(w)
  PROVE  LET v == EnsureStarted(w)
         IN  /\ InAnswer(v) /\ v.started
             /\ v.active = w.active /\ v.block = w.block
             /\ v.signed = w.signed /\ (v.promoted <=> w.promoted)
<1>1. CASE w.started
  BY <1>1 DEF EnsureStarted
<1>2. CASE ~w.started
  <2> DEFINE x == Plain("start")
             u == [w EXCEPT !.started = TRUE]
             v == Write(u, x)
  <2>1. w \in Writers /\ w.out = <<>> /\ ~w.promoted /\ ~w.writeErr
        /\ w.active = "none" /\ w.block = -1
    BY <1>2 DEF InAnswer, WriterOK, Writers
  <2>2. u \in Writers /\ u.started /\ u.out = <<>> /\ ~u.promoted /\ ~u.writeErr
        /\ u.active = "none" /\ u.block = -1 /\ u.signed = w.signed
    BY <2>1 DEF Writers
  <2>3. x \in Items /\ x.kind = "start" /\ x.index = -1
    BY DEF Plain, Item, Items, Kinds, ContentKinds
  <2> HIDE DEF x, u
  <2>4. /\ v \in Writers
        /\ (v.started <=> u.started) /\ v.block = u.block /\ v.active = u.active
        /\ v.signed = u.signed /\ (v.promoted <=> u.promoted)
        /\ \/ v = u /\ u.writeErr
           \/ v.writeErr /\ v.out = u.out /\ u.promoted /\ gone
           \/ ~v.writeErr /\ ~u.writeErr /\ v.out = Append(u.out, x)
    BY <2>2, <2>3, WriteCases
  <2> HIDE DEF v
  <2>5. /\ v.started /\ v.active = "none" /\ v.block = -1 /\ v.signed = w.signed
        /\ ~v.promoted /\ ~v.writeErr /\ v.out = Append(<<>>, x)
    BY <2>2, <2>4
  <2>6. <<>> \in Seq(Items) /\ Chained(<<>>) /\ Len(<<>>) = 0
    BY DEF Chained
  <2>7. /\ v.out # <<>> /\ Chained(v.out) /\ Len(v.out) = 0 + 1
        /\ v.out[Len(v.out)] = x
    BY <2>3, <2>5, <2>6, ChainedAppend
  <2>8. WriterOK(v)
    <3>1. v.block >= -1
      <4>1. v.block = u.block /\ u.block = -1 /\ v.block \in Int
        BY <2>2, <2>4 DEF Writers
      <4> QED BY <4>1
    <3>2. v.started <=> v.out # <<>> BY <2>5, <2>7
    <3>3. v.promoted => v.started BY <2>5
    <3>4. v.writeErr => v.promoted /\ gone BY <2>5
    <3> QED BY <2>4, <2>7, <3>1, <3>2, <3>3, <3>4 DEF WriterOK
  <2>9. InAnswer(v)
    BY <2>3, <2>5, <2>7, <2>8 DEF InAnswer, AtState, ContentKinds
  <2>10. EnsureStarted(w) = v
    BY <1>2 DEF EnsureStarted, v, u, x
  <2> QED BY <1>2, <2>1, <2>5, <2>9, <2>10
<1> QED BY <1>1, <1>2

\* Opening the gate changes nothing else.
LEMMA FireVisibleOutputOK ==
  ASSUME NEW w, InAnswer(w), w.started
  PROVE  LET v == FireVisibleOutput(w)
         IN  InAnswer(v) /\ v.started /\ v.promoted /\ v.active = w.active /\ v.block = w.block
<1> DEFINE v == FireVisibleOutput(w)
<1>1. w \in Writers
  BY DEF InAnswer, WriterOK
<1>2. /\ v \in Writers /\ v.promoted /\ v.active = w.active /\ v.block = w.block
      /\ v.out = w.out /\ (v.started <=> w.started) /\ (v.writeErr <=> w.writeErr)
  BY <1>1 DEF FireVisibleOutput, Writers
<1> HIDE DEF v
<1> QED BY <1>2 DEF InAnswer, WriterOK, AtState, v

\* closeActiveBlock: no block is open afterwards.
LEMMA CloseActiveBlockOK ==
  ASSUME NEW w, InAnswer(w), w.started
  PROVE  LET v == CloseActiveBlock(w)
         IN  InAnswer(v) /\ v.started /\ v.active = "none" /\ (v.promoted <=> w.promoted)
<1>1. CASE w.active = "none"
  BY <1>1 DEF CloseActiveBlock
<1>2. CASE w.active # "none"
  <2> DEFINE x == Item("stop", w.block, w.active)
             u == Write(w, x)
             v == [u EXCEPT !.active = "none"]
  <2>1. Body(w) /\ w \in Writers /\ w.block \in Int /\ w.active \in BlockTypes
    BY <1>2 DEF InAnswer, Body, WriterOK, Writers
  <2>2. x \in Items /\ x.kind = "stop" /\ x.index = w.block /\ x.type = w.active
    BY <2>1 DEF Item, Items, Kinds, ContentKinds
  <2>3. w.writeErr \/ Follows(w.out[Len(w.out)], x)
    BY <1>2, <2>2 DEF InAnswer, AtState, Follows
  <2> HIDE DEF x
  <2>4. /\ Body(u) /\ u.block = w.block /\ (u.promoted <=> w.promoted)
        /\ u.writeErr \/ u.out[Len(u.out)] = x
    BY <2>1, <2>2, <2>3, WriteContent DEF ContentKinds
  <2> HIDE DEF u
  <2>5. /\ v \in Writers /\ v.active = "none" /\ v.block = u.block /\ v.out = u.out
        /\ (v.started <=> u.started) /\ (v.promoted <=> u.promoted)
        /\ (v.writeErr <=> u.writeErr)
    BY <2>4 DEF Body, WriterOK, Writers
  <2> HIDE DEF v
  <2>6. WriterOK(v)
    BY <2>4, <2>5 DEF Body, WriterOK
  <2>7. InAnswer(v)
    BY <2>2, <2>4, <2>5, <2>6 DEF InAnswer, Body, AtState
  <2>8. CloseActiveBlock(w) = v
    BY <1>2 DEF CloseActiveBlock, v, u, x
  <2> QED BY <2>4, <2>5, <2>7, <2>8 DEF Body
<1> QED BY <1>1, <1>2

\* A block is opened only when none is open; it is numbered one higher.
LEMMA OpenBlockOK ==
  ASSUME NEW w, InAnswer(w), w.started, w.active = "none", NEW t \in BlockTypes
  PROVE  LET v == OpenBlock(w, t)
         IN  InAnswer(v) /\ v.started /\ v.active = t /\ (v.promoted <=> w.promoted)
<1> DEFINE x == Item("open", w.block + 1, t)
           u == [w EXCEPT !.block = w.block + 1, !.active = t]
           v == Write(u, x)
<1>1. Body(w) /\ w \in Writers /\ w.block \in Int /\ w.block >= -1 /\ w.block + 1 \in Int
  BY DEF InAnswer, Body, WriterOK, Writers
<1>2. x \in Items /\ x.kind = "open" /\ x.index = w.block + 1 /\ x.type = t
  BY <1>1 DEF Item, Items, Kinds, ContentKinds
<1>3. w.writeErr \/ Follows(w.out[Len(w.out)], x)
  BY <1>1, <1>2 DEF InAnswer, AtState, Follows
<1>4. /\ u \in Writers /\ u.active = t /\ u.block = w.block + 1 /\ u.out = w.out
      /\ (u.started <=> w.started) /\ (u.promoted <=> w.promoted)
      /\ (u.writeErr <=> w.writeErr)
  BY <1>1 DEF Writers
<1> HIDE DEF u, x
<1>5. u.block >= -1
  BY <1>1, <1>4
<1>6. Body(u)
  BY <1>1, <1>4, <1>5 DEF Body, WriterOK
<1>7. /\ Body(v) /\ v.block = u.block /\ v.active = u.active /\ (v.promoted <=> u.promoted)
      /\ v.writeErr \/ v.out[Len(v.out)] = x
  BY <1>2, <1>3, <1>4, <1>6, WriteContent DEF ContentKinds
<1> HIDE DEF v
<1>8. t # "none"
  BY DEF BlockTypes
<1>9. InAnswer(v)
  BY <1>2, <1>4, <1>7, <1>8 DEF InAnswer, Body, AtState
<1>10. OpenBlock(w, t) = v
  BY DEF OpenBlock, v, u, x
<1> QED BY <1>4, <1>7, <1>9, <1>10 DEF Body

\* The block the next delta goes to, the old one closed if it is another.
LEMMA SwitchBlockOK ==
  ASSUME NEW w, InAnswer(w), w.started, NEW t \in BlockTypes
  PROVE  LET v == SwitchBlock(w, t)
         IN  InAnswer(v) /\ v.started /\ v.active = t /\ (v.promoted <=> w.promoted)
<1>1. CASE w.active = t
  BY <1>1 DEF SwitchBlock
<1>2. CASE w.active # t
  <2> DEFINE u == CloseActiveBlock(w)
  <2>1. InAnswer(u) /\ u.started /\ u.active = "none" /\ (u.promoted <=> w.promoted)
    BY CloseActiveBlockOK
  <2> HIDE DEF u
  <2>2. LET v == OpenBlock(u, t)
        IN  InAnswer(v) /\ v.started /\ v.active = t /\ (v.promoted <=> u.promoted)
    BY <2>1, OpenBlockOK
  <2>3. SwitchBlock(w, t) = OpenBlock(u, t)
    BY <1>2 DEF SwitchBlock, u
  <2> QED BY <2>1, <2>2, <2>3
<1> QED BY <1>1, <1>2

\* A delta belongs to the open block.
LEMMA WriteDeltaOK ==
  ASSUME NEW w, InAnswer(w), w.started, w.active # "none"
  PROVE  LET v == WriteDelta(w)
         IN  InAnswer(v) /\ v.started /\ v.active = w.active /\ (v.promoted <=> w.promoted)
<1> DEFINE x == Item("delta", w.block, w.active)
           v == Write(w, x)
<1>1. Body(w) /\ w \in Writers /\ w.block \in Int /\ w.active \in BlockTypes
  BY DEF InAnswer, Body, WriterOK, Writers
<1>2. x \in Items /\ x.kind = "delta" /\ x.index = w.block /\ x.type = w.active
  BY <1>1 DEF Item, Items, Kinds, ContentKinds
<1>3. w.writeErr \/ Follows(w.out[Len(w.out)], x)
  BY <1>2 DEF InAnswer, AtState, Follows
<1> HIDE DEF x
<1>4. /\ Body(v) /\ v.block = w.block /\ v.active = w.active /\ (v.promoted <=> w.promoted)
      /\ v.writeErr \/ v.out[Len(v.out)] = x
  BY <1>1, <1>2, <1>3, WriteContent DEF ContentKinds
<1> HIDE DEF v
<1>5. InAnswer(v)
  BY <1>2, <1>4 DEF InAnswer, Body, AtState
<1>6. WriteDelta(w) = v
  BY DEF WriteDelta, v, x
<1> QED BY <1>4, <1>5, <1>6 DEF Body

\* Whether the signature has been sent does not matter to the stream's form.
LEMMA SignedOK ==
  ASSUME NEW w, InAnswer(w), w.started, NEW b \in BOOLEAN
  PROVE  LET v == [w EXCEPT !.signed = b]
         IN  InAnswer(v) /\ v.started /\ v.active = w.active /\ (v.promoted <=> w.promoted)
<1> DEFINE v == [w EXCEPT !.signed = b]
<1>1. w \in Writers
  BY DEF InAnswer, WriterOK
<1>2. /\ v \in Writers /\ v.active = w.active /\ v.block = w.block /\ v.out = w.out
      /\ (v.started <=> w.started) /\ (v.promoted <=> w.promoted)
      /\ (v.writeErr <=> w.writeErr)
  BY <1>1 DEF Writers
<1> HIDE DEF v
<1> QED BY <1>2 DEF InAnswer, WriterOK, AtState, v

\* WriteThinkingDelta: a thinking block is open, and the gate is as it was.
LEMMA WriteThinkingDeltaOK ==
  ASSUME NEW w, NEW a, InAnswer(w)
  PROVE  LET v == WriteThinkingDelta(w, a)
         IN  InAnswer(v) /\ v.started /\ v.active = "thinking" /\ (v.promoted <=> w.promoted)
<1> DEFINE s == EnsureStarted(w)
           t == SwitchBlock(s, "thinking")
           b == t.signed \/ (a.signature /\ w.active # "thinking")
           u == [t EXCEPT !.signed = b]
<1>1. InAnswer(s) /\ s.started /\ (s.promoted <=> w.promoted)
  BY EnsureStartedOK
<1> HIDE DEF s
<1>2. InAnswer(t) /\ t.started /\ t.active = "thinking" /\ (t.promoted <=> s.promoted)
  BY <1>1, SwitchBlockOK DEF BlockTypes
<1> HIDE DEF t
<1>3. b \in BOOLEAN
  OBVIOUS
<1> HIDE DEF b
<1>4. InAnswer(u) /\ u.started /\ u.active = "thinking" /\ (u.promoted <=> t.promoted)
  BY <1>2, <1>3, SignedOK
<1> HIDE DEF u
<1>5. LET v == WriteDelta(u)
      IN  InAnswer(v) /\ v.started /\ v.active = "thinking" /\ (v.promoted <=> u.promoted)
  BY <1>4, WriteDeltaOK
<1>6. WriteThinkingDelta(w, a) = WriteDelta(u)
  BY DEF WriteThinkingDelta, u, b, t, s
<1> QED BY <1>1, <1>2, <1>4, <1>5, <1>6

\* WriteSignatureDelta: only into an open thinking block.
LEMMA WriteSignatureDeltaOK ==
  ASSUME NEW w, InAnswer(w)
  PROVE  LET v == WriteSignatureDelta(w)
         IN  InAnswer(v) /\ (v.promoted <=> w.promoted)
<1> DEFINE s == EnsureStarted(w)
           d == WriteDelta(s)
<1>1. InAnswer(s) /\ s.started /\ (s.promoted <=> w.promoted)
  BY EnsureStartedOK
<1>2. CASE w.signed
  BY <1>2 DEF WriteSignatureDelta
<1>3. CASE ~w.signed /\ s.active # "thinking"
  BY <1>1, <1>3 DEF WriteSignatureDelta
<1>4. CASE ~w.signed /\ s.active = "thinking"
  <2>1. WriteSignatureDelta(w) = [d EXCEPT !.signed = TRUE]
    BY <1>4 DEF WriteSignatureDelta
  <2> HIDE DEF s
  <2>2. InAnswer(d) /\ d.started /\ (d.promoted <=> s.promoted)
    BY <1>1, <1>4, WriteDeltaOK
  <2> HIDE DEF d
  <2>3. LET v == [d EXCEPT !.signed = TRUE] IN InAnswer(v) /\ (v.promoted <=> d.promoted)
    BY <2>2, SignedOK
  <2> QED BY <1>1, <2>1, <2>2, <2>3
<1> QED BY <1>2, <1>3, <1>4

\* WriteTextDelta: visible output opens the gate.
LEMMA WriteTextDeltaOK ==
  ASSUME NEW w, InAnswer(w)
  PROVE  LET v == WriteTextDelta(w) IN InAnswer(v) /\ v.started /\ v.promoted
<1> DEFINE s == EnsureStarted(w)
           f == FireVisibleOutput(s)
           t == SwitchBlock(f, "text")
<1>1. InAnswer(s) /\ s.started
  BY EnsureStartedOK
<1> HIDE DEF s
<1>2. InAnswer(f) /\ f.started /\ f.promoted
  BY <1>1, FireVisibleOutputOK
<1> HIDE DEF f
<1>3. InAnswer(t) /\ t.started /\ t.active = "text" /\ (t.promoted <=> f.promoted)
  BY <1>2, SwitchBlockOK DEF BlockTypes
<1> HIDE DEF t
<1>4. LET v == WriteDelta(t) IN InAnswer(v) /\ v.started /\ (v.promoted <=> t.promoted)
  BY <1>3, WriteDeltaOK
<1>5. WriteTextDelta(w) = WriteDelta(t)
  BY DEF WriteTextDelta, t, f, s
<1> QED BY <1>2, <1>3, <1>4, <1>5

\* A tool_use block is opened, filled and closed.
LEMMA WriteToolUseOK ==
  ASSUME NEW w, InAnswer(w)
  PROVE  InAnswer(WriteToolUse(w))
<1> DEFINE s == EnsureStarted(w)
           f == FireVisibleOutput(s)
           c == CloseActiveBlock(f)
           o == OpenBlock(c, "tool_use")
<1>1. InAnswer(s) /\ s.started
  BY EnsureStartedOK
<1> HIDE DEF s
<1>2. InAnswer(f) /\ f.started
  BY <1>1, FireVisibleOutputOK
<1> HIDE DEF f
<1>3. InAnswer(c) /\ c.started /\ c.active = "none"
  BY <1>2, CloseActiveBlockOK
<1> HIDE DEF c
<1>4. InAnswer(o) /\ o.started /\ o.active = "tool_use"
  BY <1>3, OpenBlockOK DEF BlockTypes
<1> HIDE DEF o
<1>5. InAnswer(WriteDelta(o))
  BY <1>4, WriteDeltaOK
<1> QED BY <1>5 DEF WriteToolUse, o, c, f, s

\* A redacted_thinking block is opened and closed.
LEMMA WriteRedactedOK ==
  ASSUME NEW w, InAnswer(w)
  PROVE  InAnswer(WriteRedacted(w))
<1> DEFINE s == EnsureStarted(w)
           c == CloseActiveBlock(s)
           o == OpenBlock(c, "redacted_thinking")
<1>1. InAnswer(s) /\ s.started
  BY EnsureStartedOK
<1> HIDE DEF s
<1>2. InAnswer(c) /\ c.started /\ c.active = "none"
  BY <1>1, CloseActiveBlockOK
<1> HIDE DEF c
<1>3. InAnswer(o) /\ o.started
  BY <1>2, OpenBlockOK DEF BlockTypes
<1> HIDE DEF o
<1>4. InAnswer(CloseActiveBlock(o))
  BY <1>3, CloseActiveBlockOK
<1> QED BY <1>4 DEF WriteRedacted, o, c, s

\* Between two blocks the answer can be ended: by an error at once, ...
LEMMA WriteErrorOK ==
  ASSUME NEW w, InAnswer(w), w.started
  PROVE  LET v == WriteError(w) IN Closed(v, "error") /\ (v.promoted <=> w.promoted)
<1> DEFINE x == Plain("error")
           c == CloseActiveBlock(w)
           v == Write(c, x)
<1>1. InAnswer(c) /\ c.started /\ c.active = "none" /\ (c.promoted <=> w.promoted)
  BY CloseActiveBlockOK
<1> HIDE DEF c
<1>2. x \in Items /\ x.kind = "error"
  BY DEF Plain, Item, Items, Kinds, EndKinds
<1>3. WriterOK(c) /\ (c.writeErr \/ Follows(c.out[Len(c.out)], x))
  BY <1>1, <1>2 DEF InAnswer, AtState, Follows
<1> HIDE DEF x
<1>4. /\ WriterOK(v) /\ v.started /\ (v.promoted <=> c.promoted)
      /\ v.writeErr \/ v.out[Len(v.out)] = x
      /\ \A n \in 1..Len(v.out) : v.out[n] = x \/ \E k \in 1..Len(c.out) : v.out[n] = c.out[k]
  BY <1>1, <1>2, <1>3, WriteNext
<1> HIDE DEF v
<1>5. \A n \in 1..Len(v.out) : v.out[n].kind \in ContentKinds \cup {"message_delta", "error"}
  BY <1>1, <1>2, <1>4 DEF InAnswer
<1>6. Closed(v, "error")
  BY <1>2, <1>4, <1>5 DEF Closed
<1> QED BY <1>1, <1>4, <1>6 DEF WriteError, v, c, x

\* ... or by message_delta and message_stop.
LEMMA WriteEndOK ==
  ASSUME NEW c, InAnswer(c), c.started, c.active = "none"
  PROVE  Closed(Write(Write(c, Plain("message_delta")), Plain("message_stop")), "message_stop")
<1> DEFINE x == Plain("message_delta")
           y == Plain("message_stop")
           u == Write(c, x)
           v == Write(u, y)
<1>1. /\ x \in Items /\ x.kind = "message_delta"
      /\ y \in Items /\ y.kind = "message_stop"
  BY DEF Plain, Item, Items, Kinds, EndKinds
<1>2. WriterOK(c) /\ (c.writeErr \/ Follows(c.out[Len(c.out)], x))
  BY <1>1 DEF InAnswer, AtState, Follows
<1>3. Follows(x, y)
  BY <1>1 DEF Follows
<1> HIDE DEF x, y
<1>4. /\ WriterOK(u) /\ u.started
      /\ u.writeErr \/ u.out[Len(u.out)] = x
      /\ \A n \in 1..Len(u.out) : u.out[n] = x \/ \E k \in 1..Len(c.out) : u.out[n] = c.out[k]
  BY <1>1, <1>2, WriteNext
<1> HIDE DEF u
<1>5. u.writeErr \/ Follows(u.out[Len(u.out)], y)
  BY <1>3, <1>4
<1>6. /\ WriterOK(v) /\ v.started
      /\ v.writeErr \/ v.out[Len(v.out)] = y
      /\ \A n \in 1..Len(v.out) : v.out[n] = y \/ \E k \in 1..Len(u.out) : v.out[n] = u.out[k]
  BY <1>1, <1>4, <1>5, WriteNext
<1> HIDE DEF v
<1>7. \A n \in 1..Len(u.out) : u.out[n].kind \in ContentKinds \cup {"message_delta"}
  BY <1>1, <1>4 DEF InAnswer
<1>8. \A n \in 1..Len(v.out) : v.out[n].kind \in ContentKinds \cup {"message_delta", "message_stop"}
  BY <1>1, <1>6, <1>7
<1>9. Closed(v, "message_stop")
  BY <1>1, <1>6, <1>8 DEF Closed
<1> QED BY <1>9 DEF v, u, x, y

\* Finish: what is held back comes out, then message_delta and message_stop.
LEMMA FinishSSEOK ==
  ASSUME NEW w, NEW a, NEW cut, InAnswer(w)
  PROVE  Closed(FinishSSE(w, a, cut), "message_stop")
<1> DEFINE s == EnsureStarted(w)
           t == IF FlushesThink(a, cut) THEN WriteThinkingDelta(s, a) ELSE s
           x == IF FlushesText(a, cut) THEN WriteTextDelta(t) ELSE t
           c == CloseActiveBlock(x)
<1>1. InAnswer(s) /\ s.started
  BY EnsureStartedOK
<1> HIDE DEF s
<1>2. InAnswer(t) /\ t.started
  BY <1>1, WriteThinkingDeltaOK
<1> HIDE DEF t
<1>3. InAnswer(x) /\ x.started
  BY <1>2, WriteTextDeltaOK
<1> HIDE DEF x
<1>4. InAnswer(c) /\ c.started /\ c.active = "none"
  BY <1>3, CloseActiveBlockOK
<1> HIDE DEF c
<1>5. FinishSSE(w, a, cut) = Write(Write(c, Plain("message_delta")), Plain("message_stop"))
  BY DEF FinishSSE, c, x, t, s
<1> QED BY <1>4, <1>5, WriteEndOK

\* HandleEvent goes on with the answer; only an error event ends it, if it has
\* begun.
LEMMA HandleEventOK ==
  ASSUME NEW w, NEW a, NEW e, InAnswer(w)
  PROVE  LET v == HandleEvent(w, a, e)
         IN  /\ e \notin ErrorEvents => InAnswer(v)
             /\ e \in ErrorEvents => IF w.started THEN Closed(v, "error") ELSE v = w
<1> DEFINE v == HandleEvent(w, a, e)
<1> USE DEF TextEvents, ThinkEvents, ThinkTextEvents, ErrorEvents
<1>1. CASE e \in TextEvents
  <2>1. v = WriteTextDelta(w) /\ e \notin ErrorEvents
    BY <1>1 DEF HandleEvent
  <2> QED BY <2>1, WriteTextDeltaOK
<1>2. CASE e \in ThinkEvents \ {"thinkSigned"}
  <2>1. v = WriteThinkingDelta(w, a) /\ e \notin ErrorEvents
    BY <1>2 DEF HandleEvent
  <2> QED BY <2>1, WriteThinkingDeltaOK
<1>3. CASE e = "thinkSigned"
  <2>1. v = WriteSignatureDelta(WriteThinkingDelta(w, a)) /\ e \notin ErrorEvents
    BY <1>3 DEF HandleEvent
  <2> QED BY <2>1, WriteThinkingDeltaOK, WriteSignatureDeltaOK
<1>4. CASE e \in ThinkTextEvents
  <2>1. v = WriteTextDelta(WriteThinkingDelta(w, a)) /\ e \notin ErrorEvents
    BY <1>4 DEF HandleEvent
  <2> QED BY <2>1, WriteThinkingDeltaOK, WriteTextDeltaOK
<1>5. CASE e = "signature"
  <2>1. v = WriteSignatureDelta(w) /\ e \notin ErrorEvents
    BY <1>5 DEF HandleEvent
  <2> QED BY <2>1, WriteSignatureDeltaOK
<1>6. CASE e = "redacted"
  <2>1. v = WriteRedacted(w) /\ e \notin ErrorEvents
    BY <1>6 DEF HandleEvent
  <2> QED BY <2>1, WriteRedactedOK
<1>7. CASE e \in {"tool", "toolStop"}
  <2>1. v = WriteToolUse(w) /\ e \notin ErrorEvents
    BY <1>7 DEF HandleEvent
  <2> QED BY <2>1, WriteToolUseOK
<1>8. CASE e \in ErrorEvents
  <2>1. v = IF w.started THEN WriteError(w) ELSE w
    BY <1>8 DEF HandleEvent
  <2> QED BY <1>8, <2>1, WriteErrorOK
<1>9. CASE e \notin TextEvents \cup ThinkEvents \cup ThinkTextEvents \cup ErrorEvents
                    \cup {"signature", "redacted", "tool", "toolStop"}
  <2>1. v = w
    BY <1>9 DEF HandleEvent
  <2> QED BY <1>9, <2>1
<1> QED BY <1>1, <1>2, <1>3, <1>4, <1>5, <1>6, <1>7, <1>8, <1>9
-----------------------------------------------------------------------------
(***************************************************************************)
(* The inductive invariant                                                 *)
(***************************************************************************)

Accs ==
    [think : BOOLEAN, text : BOOLEAN, tool : BOOLEAN, invalid : BOOLEAN, localStop : BOOLEAN,
     held : {"no", "tag", "stop", "think"}, signature : BOOLEAN, finished : Nat]

\* What the client may have when the request is over: nothing, a JSON body, or
\* an event stream with its end, if the client was there to receive it.
Answer(s) ==
    /\ s \in Seq(Items)
    /\ s # <<>> => s[1].kind \in {"start", "json_error", "json_message"}
    /\ \A n \in 2..Len(s) : Follows(s[n - 1], s[n])
    /\ s # <<>> => gone \/ s[Len(s)].kind \in EndKinds

\* The call is under way: nothing is buffered.
Calling == sse = FreshSSE /\ stopped = "no" /\ ~parseErr /\ acc.finished = 0

\* Events come in: the answer is open.
Reading == InAnswer(sse) /\ stopped = "no" /\ ~parseErr /\ acc.finished = 0

\* The events are over.  Finish has been called exactly if the adapter stopped
\* the stream; an error that the client could see has been written.
Ended ==
    /\ stopped = "no" => InAnswer(sse) /\ acc.finished = 0
    /\ stopped = "local" => Closed(sse, "message_stop") /\ acc.finished = 1
    /\ stopped = "error" =>
         /\ WriterOK(sse)
         /\ sse.promoted => sse.writeErr \/ sse.out[Len(sse.out)].kind = "error"
         /\ \A n \in 1..Len(sse.out) : sse.out[n].kind = "message_stop" => acc.finished = 1
    /\ parseErr => stopped = "no"

\* The handler has returned.
Returned ==
    /\ sse = FreshSSE
    /\ Answer(wire)
    /\ pc = "retry" /\ reason # "none" => wire = <<>> /\ committed = {}
    /\ committed # {} => \A n \in 1..Len(wire) : wire[n].kind \notin ErrorKinds

\* The inductive invariant: where the request is decides what is behind the gate
\* and what has been sent.
StreamInv ==
    /\ TypeOK
    /\ acc \in Accs /\ acc.finished <= 1
    /\ ~stream => sse = FreshSSE /\ (pc = "ended" => acc.finished = 0)
    /\ committed \subseteq {attempt}
    /\ pc \in {"call", "events", "ended"} => wire = <<>> /\ committed = {}
    /\ pc = "call" => Calling
    /\ pc = "events" => Reading
    /\ pc = "ended" => Ended
    /\ pc \in {"retry", "done"} => Returned

\* A writer that has not begun.
LEMMA FreshOK == InAnswer(FreshSSE) /\ FreshSSE.out = <<>> /\ ~FreshSSE.promoted /\ ~FreshSSE.started
<1>1. FreshSSE \in Writers
  BY DEF FreshSSE, Writers
<1>2. Chained(<<>>)
  BY DEF Chained
<1> QED BY <1>1, <1>2 DEF InAnswer, WriterOK, FreshSSE

\* The accumulator of a new attempt.
LEMMA FreshAccOK == FreshAcc \in Accs /\ FreshAcc.finished = 0
BY DEF FreshAcc, Accs

\* ProcessEvent does not finalize.
LEMMA ProcessEventOK ==
  ASSUME NEW a \in Accs, NEW e
  PROVE  ProcessEvent(a, e) \in Accs /\ ProcessEvent(a, e).finished = a.finished
<1> DEFINE think == a.think \/ e \in ThinkEvents \cup ThinkTextEvents
           text == a.text \/ e \in TextEvents \cup ThinkTextEvents
           tool == a.tool \/ e \in {"tool", "toolStop"}
           invalid == a.invalid \/ e = "invalidTool"
           signature == a.signature \/ e \in {"signature", "thinkSigned"}
           localStop == a.localStop \/ e \in StopEvents
           held == CASE e = "holdTag" -> "tag"
                     [] e \in {"holdStop", "textHold"} -> "stop"
                     [] e = "holdThink" -> "think"
                     [] e \in {"text", "textStop", "emptyStop", "tagThink"} \cup ThinkTextEvents -> "no"
                     [] OTHER -> a.held
<1>1. /\ think \in BOOLEAN /\ text \in BOOLEAN /\ tool \in BOOLEAN
      /\ invalid \in BOOLEAN /\ signature \in BOOLEAN /\ localStop \in BOOLEAN
  OBVIOUS
<1>2. held \in {"no", "tag", "stop", "think"}
  BY DEF Accs
<1>3. ProcessEvent(a, e) =
        [a EXCEPT !.think = think, !.text = text, !.tool = tool, !.invalid = invalid,
                  !.signature = signature, !.localStop = localStop, !.held = held]
  BY DEF ProcessEvent
<1> HIDE DEF think, text, tool, invalid, signature, localStop, held
<1> QED BY <1>1, <1>2, <1>3 DEF Accs

\* finalizeResult does, once.
LEMMA FinishAccOK ==
  ASSUME NEW a \in Accs, NEW cut
  PROVE  FinishAcc(a, cut) \in Accs /\ FinishAcc(a, cut).finished = a.finished + 1
<1> DEFINE think == a.think \/ FlushesThink(a, cut)
           text == a.text \/ FlushesText(a, cut)
           localStop == a.localStop \/ cut # "whole"
           n == a.finished + 1
<1>1. think \in BOOLEAN /\ text \in BOOLEAN /\ localStop \in BOOLEAN
  OBVIOUS
<1>2. n \in Nat
  BY DEF Accs
<1>3. FinishAcc(a, cut) =
        [a EXCEPT !.think = think, !.text = text, !.localStop = localStop, !.held = "no",
                  !.finished = n]
  BY DEF FinishAcc
<1> HIDE DEF think, text, localStop, n
<1>4. FinishAcc(a, cut) \in Accs /\ FinishAcc(a, cut).finished = n
  BY <1>1, <1>2, <1>3 DEF Accs
<1> QED BY <1>4 DEF n

\* The writer's fields that TypeOK is about.
LEMMA WriterTypes ==
  ASSUME NEW w, WriterOK(w)
  PROVE  /\ w.active \in {"none", "text", "thinking", "tool_use", "redacted_thinking"}
         /\ w.block >= -1
BY DEF WriterOK, Writers, BlockTypes

\* Before anything was sent, what is sent is all there is.
LEMMA FirstSent ==
  ASSUME NEW s \in Seq(Items)
  PROVE  /\ <<>> \o s = s /\ s \o <<>> = s
         /\ (<<>> \o s) \o <<>> = s
         /\ (<<>> \o <<>>) \o s = s
BY ConcatEmptySeq

\* A JSON body and the fallback message are answers.
LEMMA SingleAnswers ==
  /\ Answer(<<>>)
  /\ Answer(<<JSONError>>)
  /\ Answer(<<JSONMessage>>) /\ \A n \in 1..Len(<<JSONMessage>>) : <<JSONMessage>>[n].kind \notin ErrorKinds
<1>1. JSONError \in Items /\ JSONError.kind = "json_error"
  BY DEF JSONError, Plain, Item, Items, Kinds, EndKinds
<1>2. JSONMessage \in Items /\ JSONMessage.kind = "json_message"
  BY DEF JSONMessage, Plain, Item, Items, Kinds, EndKinds
<1>3. Answer(<<>>)
  BY DEF Answer
<1>4. Answer(<<JSONError>>)
  BY <1>1 DEF Answer, EndKinds
<1>5. Answer(<<JSONMessage>>) /\ \A n \in 1..Len(<<JSONMessage>>) : <<JSONMessage>>[n].kind \notin ErrorKinds
  BY <1>2 DEF Answer, EndKinds, ErrorKinds
<1> QED BY <1>3, <1>4, <1>5

\* The fallback message that is written in one go is an answer.
LEMMA FallbackAnswer == Answer(FallbackMessage)
<1> DEFINE a == Plain("start")
           b == Item("open", 0, "tool_use")
           c == Item("delta", 0, "tool_use")
           d == Item("stop", 0, "tool_use")
           e == Plain("message_delta")
           f == Plain("message_stop")
           s == <<a, b, c, d, e, f>>
<1>1. CASE ~stream
  BY <1>1, SingleAnswers DEF FallbackMessage
<1>2. CASE stream
  <2>1. {a, b, c, d, e, f} \subseteq Items
    BY DEF Plain, Item, Items, Kinds, EndKinds, ContentKinds, BlockTypes
  <2>2. a.kind = "start" /\ f.kind \in EndKinds
    BY DEF Plain, Item, EndKinds
  <2>3. Follows(a, b) /\ Follows(b, c) /\ Follows(c, d) /\ Follows(d, e) /\ Follows(e, f)
    BY DEF Follows, Plain, Item
  <2> HIDE DEF a, b, c, d, e, f
  <2>4. s \in Seq(Items) /\ Len(s) = 6 /\ s # <<>>
    BY <2>1
  <2>5. \A n \in 2..6 : n = 2 \/ n = 3 \/ n = 4 \/ n = 5 \/ n = 6
    OBVIOUS
  <2>6. \A n \in 2..Len(s) : Follows(s[n - 1], s[n])
    BY <2>3, <2>4, <2>5
  <2>7. Answer(s)
    BY <2>2, <2>4, <2>6 DEF Answer
  <2>8. FallbackMessage = s
    BY <1>2 DEF FallbackMessage, a, b, c, d, e, f
  <2> QED BY <2>7, <2>8
<1> QED BY <1>1, <1>2

\* What has passed the gate is an answer once it is closed.
LEMMA SentAnswer ==
  ASSUME NEW w, WriterOK(w), w.promoted => w.writeErr \/ w.out[Len(w.out)].kind \in EndKinds
  PROVE  Answer(SentBy(w)) /\ SentBy(w) \in Seq(Items)
<1>1. CASE ~w.promoted
  BY <1>1, SingleAnswers DEF SentBy, Answer
<1>2. CASE w.promoted
  BY <1>2 DEF SentBy, Answer, WriterOK, Writers, Chained
<1> QED BY <1>1, <1>2

\* What holds of the answer goes on holding when the client leaves.
LEMMA GoneStep ==
  ASSUME gone => gone', UNCHANGED sse
  PROVE  /\ InAnswer(sse) => InAnswer(sse)'
         /\ WriterOK(sse) => WriterOK(sse)'
         /\ Closed(sse, "message_stop") => Closed(sse, "message_stop")'
         /\ Answer(wire) /\ UNCHANGED wire => Answer(wire)'
BY DEF InAnswer, WriterOK, AtState, Closed, Answer

\* The same for a writer that takes the place of the old one.
LEMMA NewWriter ==
  ASSUME NEW v, sse' = v, UNCHANGED gone
  PROVE  /\ InAnswer(v) => InAnswer(sse)'
         /\ WriterOK(v) => WriterOK(sse)'
         /\ Closed(v, "message_stop") => Closed(sse, "message_stop")'
BY DEF InAnswer, WriterOK, AtState, Closed
-----------------------------------------------------------------------------
(***************************************************************************)
(* Every action keeps the invariant                                        *)
(***************************************************************************)

\* Before the first call.
LEMMA StreamInit == Init => StreamInv
<1> SUFFICES ASSUME Init PROVE StreamInv
  OBVIOUS
<1>1. FreshSSE.active = "none" /\ FreshSSE.block >= -1
  BY FreshOK, WriterTypes DEF FreshSSE
<1>2. acc \in Accs /\ acc.finished = 0 /\ acc.held = "no"
  BY FreshAccOK DEF Init, FreshAcc
<1>3. sse.active = "none" /\ sse.block >= -1
  BY <1>1 DEF Init
<1>4. stream \in BOOLEAN /\ parseErr \in BOOLEAN /\ gone \in BOOLEAN
  BY MessageStreamAssumption DEF Init
<1>5. events \in 0..MaxEvents /\ attempt \in 1..2
  BY MessageStreamAssumption DEF Init
<1>6. TypeOK
  BY <1>2, <1>3, <1>4, <1>5 DEF Init, TypeOK
<1> QED BY <1>2, <1>6 DEF Init, StreamInv, Calling

\* The end of an attempt: the client has s, an answer, or nothing if there is a
\* reason to retry.
LEMMA EndAttemptOK ==
  ASSUME StreamInv, pc = "ended", NEW w, NEW m, NEW r, NEW a \in Accs, NEW s,
         EndAttempt(w, m, r, a), a.finished <= 1,
         r \in {"none", "invalid_state", "invalid_tool_use", "empty_visible_end_turn"},
         (<<>> \o SentBy(w)) \o m = s, Answer(s),
         committed' \in {{}, {attempt}},
         r # "none" => s = <<>> /\ committed' = {},
         committed' # {} => \A n \in 1..Len(s) : s[n].kind \notin ErrorKinds
  PROVE  StreamInv'
<1>1. wire' = s
  BY DEF EndAttempt, StreamInv
<1>2. Answer(wire)'
  BY <1>1 DEF Answer, EndAttempt
<1>3. FreshSSE.active = "none" /\ FreshSSE.block >= -1
  BY FreshOK, WriterTypes DEF FreshSSE
<1>4. TypeOK'
  BY <1>3 DEF TypeOK, StreamInv, EndAttempt, Accs
<1>5. Returned'
  BY <1>1, <1>2 DEF Returned, EndAttempt
<1>6. pc' = "retry" /\ acc' = a /\ sse' = FreshSSE /\ committed' \subseteq {attempt'}
  BY DEF EndAttempt
<1> QED BY <1>4, <1>5, <1>6 DEF StreamInv

\* executeWithRetry returns.
LEMMA FinishedOK ==
  ASSUME StreamInv, pc \in {"call", "retry"}, NEW m, NEW err \in {"nil", "error"}, NEW s,
         Finished(m, err), wire \o m = s, Answer(s),
         committed # {} => \A n \in 1..Len(s) : s[n].kind \notin ErrorKinds
  PROVE  StreamInv'
<1>1. wire' = s /\ sse' = FreshSSE
  BY DEF Finished, StreamInv, Calling, Returned
<1>2. Answer(wire)'
  BY <1>1 DEF Answer, Finished
<1>3. TypeOK'
  BY DEF TypeOK, StreamInv, Finished
<1>4. Returned'
  BY <1>1, <1>2 DEF Returned, Finished
<1> QED BY <1>1, <1>3, <1>4 DEF StreamInv, Finished

\* The upstream call is answered: a new writer, nothing sent yet.
LEMMA CallSucceedsOK ==
  ASSUME StreamInv, CallSucceeds
  PROVE  StreamInv'
<1>1. TypeOK'
  BY DEF StreamInv, TypeOK, CallSucceeds
<1>2. InAnswer(sse)
  BY FreshOK DEF StreamInv, Calling, CallSucceeds
<1>3. InAnswer(sse)'
  BY <1>2, GoneStep DEF CallSucceeds
<1>4. Reading'
  BY <1>3 DEF StreamInv, Calling, Reading, CallSucceeds
<1> QED BY <1>1, <1>4 DEF StreamInv, CallSucceeds

\* The upstream call fails: one JSON error.
LEMMA CallFailsOK ==
  ASSUME StreamInv, CallFails
  PROVE  StreamInv'
<1>1. wire = <<>> /\ committed = {} /\ pc = "call"
  BY DEF StreamInv, CallFails
<1>2. <<JSONError>> \in Seq(Items)
  BY SingleAnswers DEF Answer
<1>3. wire \o <<JSONError>> = <<JSONError>>
  BY <1>1, <1>2, FirstSent
<1> QED BY <1>1, <1>3, SingleAnswers, FinishedOK DEF CallFails

\* The attempt is the answer.
LEMMA AcceptOK ==
  ASSUME StreamInv, Accept
  PROVE  StreamInv'
<1>1. pc = "retry" /\ Returned
  BY DEF StreamInv, Accept
<1>2. wire \o <<>> = wire
  BY <1>1, FirstSent DEF Returned, Answer
<1> QED BY <1>1, <1>2, FinishedOK DEF Accept, Returned

\* The retry cannot be prepared: one JSON error.
LEMMA RetryUnpreparedOK ==
  ASSUME StreamInv, RetryUnprepared
  PROVE  StreamInv'
<1>1. wire = <<>> /\ committed = {} /\ pc = "retry"
  BY DEF StreamInv, RetryUnprepared, Returned
<1>2. <<JSONError>> \in Seq(Items)
  BY SingleAnswers DEF Answer
<1>3. wire \o <<JSONError>> = <<JSONError>>
  BY <1>1, <1>2, FirstSent
<1> QED BY <1>1, <1>3, SingleAnswers, FinishedOK DEF RetryUnprepared

\* No retry is left: the fallback message or one JSON error.
LEMMA GiveUpOK ==
  ASSUME StreamInv, GiveUp
  PROVE  StreamInv'
<1>1. wire = <<>> /\ committed = {} /\ pc = "retry"
  BY DEF StreamInv, GiveUp, Returned
<1>2. <<JSONError>> \in Seq(Items) /\ FallbackMessage \in Seq(Items)
  BY SingleAnswers, FallbackAnswer DEF Answer
<1>3. wire \o <<JSONError>> = <<JSONError>> /\ wire \o FallbackMessage = FallbackMessage
  BY <1>1, <1>2, FirstSent
<1>4. CASE Finished(FallbackMessage, "error")
  BY <1>1, <1>3, <1>4, FallbackAnswer, FinishedOK
<1>5. CASE Finished(<<JSONError>>, "error")
  BY <1>1, <1>3, <1>5, SingleAnswers, FinishedOK
<1> QED BY <1>4, <1>5 DEF GiveUp

\* Another attempt: the writer and the accumulator start again.
LEMMA RetryOK ==
  ASSUME StreamInv, Retry
  PROVE  StreamInv'
<1>1. sse = FreshSSE /\ wire = <<>> /\ committed = {}
  BY DEF StreamInv, Retry, Returned
<1>2. acc' \in Accs /\ acc'.finished = 0 /\ acc'.held = "no"
  BY FreshAccOK DEF Retry, FreshAcc
<1>3. events' \in 0..MaxEvents /\ attempt' \in 1..2
  BY MessageStreamAssumption DEF Retry
<1>4. parseErr' \in BOOLEAN /\ gone' \in BOOLEAN
  BY DEF StreamInv, TypeOK, Retry
<1>5. TypeOK'
  BY <1>2, <1>3, <1>4 DEF StreamInv, TypeOK, Retry
<1>6. Calling'
  BY <1>1, <1>2 DEF Calling, Retry
<1> QED BY <1>1, <1>2, <1>5, <1>6 DEF StreamInv, Retry

\* The client leaves; what was sent stays sent.
LEMMA DisconnectOK ==
  ASSUME StreamInv, Disconnect
  PROVE  StreamInv'
<1>1. TypeOK'
  BY DEF StreamInv, TypeOK, Disconnect
<1>2. /\ InAnswer(sse) => InAnswer(sse)'
      /\ WriterOK(sse) => WriterOK(sse)'
      /\ Closed(sse, "message_stop") => Closed(sse, "message_stop")'
      /\ Answer(wire) => Answer(wire)'
  BY GoneStep DEF Disconnect
<1>3. Calling => Calling'
  BY DEF Calling, Disconnect
<1>4. Reading => Reading'
  BY <1>2 DEF Reading, Disconnect
<1>5. Ended => Ended'
  BY <1>2 DEF Ended, Disconnect
<1>6. Returned => Returned'
  BY <1>2 DEF Returned, Disconnect
<1> QED BY <1>1, <1>3, <1>4, <1>5, <1>6 DEF StreamInv, Disconnect

\* The upstream has no more events.
LEMMA StreamEndsOK ==
  ASSUME StreamInv, StreamEnds
  PROVE  StreamInv'
<1>1. TypeOK'
  BY DEF StreamInv, TypeOK, StreamEnds
<1>2. InAnswer(sse)'
  BY GoneStep DEF StreamInv, Reading, StreamEnds
<1>3. Ended'
  BY <1>2 DEF StreamInv, Reading, Ended, StreamEnds
<1> QED BY <1>1, <1>3 DEF StreamInv, Reading, StreamEnds

\* One event of the upstream, into the accumulator and the writer.
LEMMA BufferEventOK ==
  ASSUME StreamInv, NEW e \in ContentEvents \cup StopEvents \cup ErrorEvents, BufferEvent(e)
  PROVE  StreamInv'
<1>1. acc \in Accs /\ acc.finished = 0 /\ InAnswer(sse) /\ sse = FreshSSE
  BY DEF StreamInv, Reading, BufferEvent
<1>2. acc' \in Accs /\ acc'.finished = 0
  BY <1>1, ProcessEventOK DEF BufferEvent
<1>3. acc'.held \in {"no", "tag", "stop", "think"}
  BY <1>2 DEF Accs
<1>4. events' \in 0..MaxEvents
  BY MessageStreamAssumption DEF StreamInv, TypeOK, BufferEvent
<1>5. TypeOK'
  BY <1>3, <1>4 DEF StreamInv, TypeOK, BufferEvent
<1>6. InAnswer(sse)'
  BY <1>1, GoneStep DEF BufferEvent
<1>7. Reading' \/ pc' # "events"
  BY <1>2, <1>6 DEF StreamInv, Reading, BufferEvent
<1>8. sse'.out = <<>> /\ ~sse'.promoted /\ WriterOK(sse)'
  BY <1>1, <1>6, FreshOK DEF BufferEvent, InAnswer
<1>9. Ended' \/ pc' # "ended"
  BY <1>2, <1>8 DEF StreamInv, Reading, Ended, BufferEvent
<1> QED BY <1>1, <1>2, <1>5, <1>7, <1>9 DEF StreamInv, BufferEvent

\* An event of a streamed answer.  A failed write or an error event stops the
\* parser; a local stop has finished the answer.
LEMMA StreamEventOK ==
  ASSUME StreamInv, NEW e \in ContentEvents \cup StopEvents \cup ErrorEvents, StreamEvent(e)
  PROVE  StreamInv'
<1> DEFINE a == ProcessEvent(acc, e)
           v == HandleEvent(sse, a, e)
<1>1. /\ acc \in Accs /\ acc.finished = 0 /\ InAnswer(sse) /\ ~parseErr
      /\ wire = <<>> /\ committed = {} /\ stream /\ fault \in {"none"} \cup ErrorEvents
  BY DEF StreamInv, Reading, StreamEvent, TypeOK
<1>2. a \in Accs /\ a.finished = 0
  BY <1>1, ProcessEventOK
<1> HIDE DEF a
<1>3. /\ e \notin ErrorEvents => InAnswer(v)
      /\ e \in ErrorEvents => IF sse.started THEN Closed(v, "error") ELSE v = sse
  BY <1>1, HandleEventOK
<1> HIDE DEF v
<1>4. /\ events' = events + 1 /\ events < MaxEvents
      /\ IF e \in StopEvents
         THEN \E cut \in Cuts(a) : acc' = FinishAcc(a, cut) /\ sse' = FinishSSE(v, a, cut)
         ELSE acc' = a /\ sse' = v
      /\ fault' = IF e \in ErrorEvents THEN e ELSE fault
      /\ stopped' = IF sse'.writeErr \/ e \in ErrorEvents THEN "error"
                    ELSE IF e \in StopEvents THEN "local" ELSE "no"
      /\ pc' = IF stopped' = "no" THEN "events" ELSE "ended"
      /\ UNCHANGED <<stream, attempt, reason, first, parseErr, wire, gone, terminal, committed>>
  BY DEF StreamEvent, a, v
<1>5. events' \in 0..MaxEvents
  BY <1>4, MessageStreamAssumption DEF StreamInv, TypeOK
<1>6. e \in StopEvents => e \notin ErrorEvents
  BY DEF StopEvents, ErrorEvents
<1>7. acc' \in Accs /\ acc'.finished <= 1 /\ (e \in StopEvents => acc'.finished = 1)
      /\ (e \notin StopEvents => acc'.finished = 0)
  <2>1. CASE e \in StopEvents
    <3>1. PICK cut \in Cuts(a) : acc' = FinishAcc(a, cut)
      BY <1>4, <2>1
    <3>2. acc' \in Accs /\ acc'.finished = 0 + 1
      BY <1>2, <3>1, FinishAccOK
    <3> QED BY <2>1, <3>2
  <2>2. CASE e \notin StopEvents
    BY <1>2, <1>4, <2>2
  <2> QED BY <2>1, <2>2
<1>8. acc'.held \in {"no", "tag", "stop", "think"}
  BY <1>7 DEF Accs
<1>9. CASE e \in StopEvents
  <2>1. PICK cut \in Cuts(a) : sse' = FinishSSE(v, a, cut)
    BY <1>4, <1>9
  <2>2. Closed(FinishSSE(v, a, cut), "message_stop")
    BY <1>3, <1>6, <1>9, FinishSSEOK
  <2>3. Closed(sse, "message_stop")'
    BY <1>4, <2>1, <2>2, NewWriter
  <2>4. WriterOK(sse)'
    BY <2>3 DEF Closed
  <2>5. (sse.active \in {"none", "text", "thinking", "tool_use", "redacted_thinking"}
         /\ sse.block >= -1)'
    BY <2>4 DEF WriterOK, Writers, BlockTypes
  <2>6. TypeOK'
    BY <1>1, <1>4, <1>5, <1>8, <2>5 DEF StreamInv, TypeOK
  <2>7. pc' = "ended" /\ stopped' = IF sse'.writeErr THEN "error" ELSE "local"
    BY <1>4, <1>6, <1>9
  <2>8. Ended'
    BY <1>1, <1>4, <1>7, <1>9, <2>3, <2>4, <2>7 DEF Ended
  <2> QED BY <1>1, <1>4, <1>7, <2>6, <2>7, <2>8 DEF StreamInv
<1>10. CASE e \in ErrorEvents
  <2>1. sse' = v /\ stopped' = "error" /\ pc' = "ended" /\ UNCHANGED gone
    BY <1>4, <1>6, <1>10
  <2>2. WriterOK(v)
    BY <1>1, <1>3, <1>10 DEF Closed, InAnswer
  <2>3. WriterOK(sse)'
    BY <2>1, <2>2, NewWriter
  <2>4. v.promoted => v.writeErr \/ v.out[Len(v.out)].kind = "error"
    BY <1>1, <1>3, <1>10 DEF Closed, InAnswer, WriterOK
  <2>5. \A n \in 1..Len(v.out) : v.out[n].kind # "message_stop"
    BY <1>1, <1>3, <1>10 DEF Closed, InAnswer, ContentKinds
  <2>6. (sse.active \in {"none", "text", "thinking", "tool_use", "redacted_thinking"}
         /\ sse.block >= -1)'
    BY <2>3 DEF WriterOK, Writers, BlockTypes
  <2>7. TypeOK'
    BY <1>1, <1>4, <1>5, <1>8, <1>10, <2>6 DEF StreamInv, TypeOK
  <2>8. Ended'
    BY <1>1, <1>4, <2>1, <2>3, <2>4, <2>5 DEF Ended
  <2> QED BY <1>1, <1>4, <1>7, <2>1, <2>7, <2>8 DEF StreamInv
<1>11. CASE e \notin StopEvents \cup ErrorEvents
  <2>1. sse' = v /\ InAnswer(v) /\ UNCHANGED gone
    BY <1>3, <1>4, <1>11
  <2>2. InAnswer(sse)'
    BY <2>1, NewWriter
  <2>3. WriterOK(sse)'
    BY <2>2 DEF InAnswer
  <2>4. (sse.active \in {"none", "text", "thinking", "tool_use", "redacted_thinking"}
         /\ sse.block >= -1)'
    BY <2>3 DEF WriterOK, Writers, BlockTypes
  <2>5. TypeOK'
    BY <1>1, <1>4, <1>5, <1>8, <1>11, <2>4 DEF StreamInv, TypeOK
  <2>6. stopped' = IF sse'.writeErr THEN "error" ELSE "no"
    BY <1>4, <1>11
  <2>7. pc' = "events" => Reading'
    BY <1>1, <1>4, <1>7, <1>11, <2>2, <2>6 DEF Reading
  <2>8. \A n \in 1..Len(v.out) : v.out[n].kind # "message_stop"
    BY <2>1 DEF InAnswer, ContentKinds
  <2>9. pc' = "ended" => Ended'
    BY <1>1, <1>4, <2>1, <2>3, <2>6, <2>8 DEF Ended
  <2>10. pc' \in {"events", "ended"}
    BY <1>4
  <2> QED BY <1>1, <1>4, <1>7, <2>5, <2>7, <2>9, <2>10 DEF StreamInv
<1> QED BY <1>9, <1>10, <1>11

\* The sequences the client can have at the end of an attempt.
LEMMA Outcomes ==
  ASSUME NEW w, WriterOK(w)
  PROVE  /\ ~w.promoted => /\ (<<>> \o SentBy(w)) \o <<>> = <<>>
                           /\ (<<>> \o SentBy(w)) \o <<JSONError>> = <<JSONError>>
                           /\ (<<>> \o SentBy(w)) \o <<JSONMessage>> = <<JSONMessage>>
         /\ (<<>> \o SentBy(w)) \o <<>> = SentBy(w)
<1>1. <<JSONError>> \in Seq(Items) /\ <<JSONMessage>> \in Seq(Items) /\ <<>> \in Seq(Items)
  BY SingleAnswers DEF Answer
<1>2. SentBy(w) \in Seq(Items)
  BY <1>1 DEF SentBy, WriterOK, Writers
<1>3. ~w.promoted => SentBy(w) = <<>>
  BY DEF SentBy
<1> QED BY <1>1, <1>2, <1>3, FirstSent

\* The end of an attempt whose upstream reported an error.
LEMMA EndUpstreamFaultOK ==
  ASSUME StreamInv, EndUpstreamFault
  PROVE  StreamInv'
<1>1. /\ pc = "ended" /\ ~sse.promoted /\ WriterOK(sse) /\ committed' = {}
      /\ acc \in Accs /\ acc.finished <= 1
  BY DEF StreamInv, Ended, EndUpstreamFault, UpstreamFault
<1>2. CASE EndAttempt(sse, <<>>, "invalid_state", acc)
  BY <1>1, <1>2, Outcomes, SingleAnswers, EndAttemptOK
<1>3. CASE EndAttempt(sse, <<JSONError>>, "none", acc)
  BY <1>1, <1>3, Outcomes, SingleAnswers, EndAttemptOK
<1> QED BY <1>2, <1>3 DEF EndUpstreamFault

\* The end of an attempt whose stream could not be read.
LEMMA EndParseErrorOK ==
  ASSUME StreamInv, EndParseError
  PROVE  StreamInv'
<1>1. /\ pc = "ended" /\ InAnswer(sse) /\ WriterOK(sse) /\ committed' = {}
      /\ acc \in Accs /\ acc.finished <= 1
  BY DEF StreamInv, Ended, EndParseError, InAnswer
<1>2. CASE sse.promoted
  <2> DEFINE v == WriteError(sse)
  <2>1. sse.started
    BY <1>1, <1>2 DEF WriterOK
  <2>2. Closed(v, "error")
    BY <1>1, <2>1, WriteErrorOK
  <2>3. EndAttempt(v, <<>>, "none", acc)
    BY <1>2 DEF EndParseError
  <2> HIDE DEF v
  <2>4. Answer(SentBy(v)) /\ WriterOK(v)
    BY <2>2, SentAnswer DEF Closed, EndKinds
  <2> QED BY <1>1, <2>3, <2>4, Outcomes, EndAttemptOK
<1>3. CASE ~sse.promoted
  <2>1. EndAttempt(sse, <<JSONError>>, "none", acc)
    BY <1>3 DEF EndParseError
  <2> QED BY <1>1, <1>3, <2>1, Outcomes, SingleAnswers, EndAttemptOK
<1> QED BY <1>2, <1>3

\* The end of an attempt with an invalid tool call.
LEMMA EndInvalidToolOK ==
  ASSUME StreamInv, EndInvalidTool
  PROVE  StreamInv'
<1>1. /\ pc = "ended" /\ ~sse.promoted /\ WriterOK(sse) /\ committed' = {}
      /\ acc \in Accs /\ acc.finished <= 1
  BY DEF StreamInv, TypeOK, Ended, EndInvalidTool, WithholdsTool, InAnswer, Closed
<1> QED BY <1>1, Outcomes, SingleAnswers, EndAttemptOK DEF EndInvalidTool

\* The end of a streamed attempt: finalized once, and ended on the wire.
LEMMA EndStreamingOK ==
  ASSUME StreamInv, EndStreaming
  PROVE  StreamInv'
<1>1. PICK cut \in Cuts(acc) :
        LET a == IF FinishesHere THEN FinishAcc(acc, cut) ELSE acc
            w == IF FinishesHere THEN FinishSSE(sse, acc, cut) ELSE sse
        IN  /\ pc = "ended" /\ stream /\ ~UpstreamFault /\ ~parseErr /\ ~WithholdsTool(acc)
            /\ IF FinishesHere /\ IsEmptyVisibleEndTurn(a) /\ ~w.promoted
               THEN /\ EndAttempt(w, <<>>, "empty_visible_end_turn", a)
                    /\ UNCHANGED committed
               ELSE /\ EndAttempt(w, <<>>, "none", a)
                    /\ committed' = IF CommitsPlan THEN committed \cup {attempt} ELSE committed
  BY DEF EndStreaming
<1> DEFINE a == IF FinishesHere THEN FinishAcc(acc, cut) ELSE acc
           w == IF FinishesHere THEN FinishSSE(sse, acc, cut) ELSE sse
<1>2. /\ pc = "ended" /\ Ended /\ acc \in Accs /\ acc.finished <= 1 /\ committed = {}
      /\ stopped \in {"no", "error", "local"}
  BY <1>1 DEF StreamInv, TypeOK
<1>3. CASE stopped = "no"
  <2>1. InAnswer(sse) /\ acc.finished = 0
    BY <1>2, <1>3 DEF Ended
  <2>2. a = FinishAcc(acc, cut) /\ w = FinishSSE(sse, acc, cut)
    BY <1>3 DEF FinishesHere
  <2>3. a \in Accs /\ a.finished = 0 + 1
    BY <1>2, <2>1, <2>2, FinishAccOK
  <2>4. Closed(w, "message_stop")
    BY <2>1, <2>2, FinishSSEOK
  <2>5. \/ EndAttempt(w, <<>>, "empty_visible_end_turn", a) /\ ~w.promoted /\ committed' = {}
        \/ EndAttempt(w, <<>>, "none", a) /\ committed' = {attempt}
    BY <1>1, <1>2, <1>3 DEF CommitsPlan
  <2> HIDE DEF a, w
  <2>6. Answer(SentBy(w)) /\ WriterOK(w)
    BY <2>4, SentAnswer DEF Closed, EndKinds
  <2>7. \A n \in 1..Len(SentBy(w)) : SentBy(w)[n].kind \notin ErrorKinds
    BY <2>4 DEF Closed, SentBy, ContentKinds, ErrorKinds
  <2>8. a.finished <= 1
    BY <2>3
  <2>9. CASE EndAttempt(w, <<>>, "empty_visible_end_turn", a) /\ ~w.promoted /\ committed' = {}
    BY <1>2, <2>3, <2>6, <2>8, <2>9, Outcomes, SingleAnswers, EndAttemptOK
  <2>10. CASE EndAttempt(w, <<>>, "none", a) /\ committed' = {attempt}
    BY <1>2, <2>3, <2>6, <2>7, <2>8, <2>10, Outcomes, EndAttemptOK
  <2> QED BY <2>5, <2>9, <2>10
<1>4. CASE stopped = "local"
  <2>1. Closed(sse, "message_stop")
    BY <1>2, <1>4 DEF Ended
  <2>2. EndAttempt(sse, <<>>, "none", acc) /\ committed' = {attempt}
    BY <1>1, <1>2, <1>4 DEF CommitsPlan, FinishesHere
  <2>3. Answer(SentBy(sse)) /\ WriterOK(sse)
    BY <2>1, SentAnswer DEF Closed, EndKinds
  <2>4. \A n \in 1..Len(SentBy(sse)) : SentBy(sse)[n].kind \notin ErrorKinds
    BY <2>1 DEF Closed, SentBy, ContentKinds, ErrorKinds
  <2> QED BY <1>2, <2>2, <2>3, <2>4, Outcomes, EndAttemptOK
<1>5. CASE stopped = "error"
  <2>1. EndAttempt(sse, <<>>, "none", acc) /\ committed' = {}
    BY <1>1, <1>2, <1>5 DEF CommitsPlan, FinishesHere
  <2>2. Answer(SentBy(sse)) /\ WriterOK(sse)
    BY <1>2, <1>5, SentAnswer DEF Ended, EndKinds
  <2> QED BY <1>2, <2>1, <2>2, Outcomes, EndAttemptOK
<1> QED BY <1>2, <1>3, <1>4, <1>5

\* The end of an attempt that is answered with one JSON body.
LEMMA EndNonStreamingOK ==
  ASSUME StreamInv, EndNonStreaming
  PROVE  StreamInv'
<1>1. PICK cut \in Cuts(acc) :
        LET a == FinishAcc(acc, cut)
        IN  /\ pc = "ended" /\ ~stream /\ ~UpstreamFault /\ ~parseErr /\ ~WithholdsTool(acc)
            /\ IF IsEmptyVisibleEndTurn(a)
               THEN EndAttempt(sse, <<>>, "empty_visible_end_turn", a) /\ UNCHANGED committed
               ELSE /\ EndAttempt(sse, <<JSONMessage>>, "none", a)
                    /\ committed' = IF gone THEN committed ELSE committed \cup {attempt}
  BY DEF EndNonStreaming
<1> DEFINE a == FinishAcc(acc, cut)
<1>2. /\ pc = "ended" /\ sse = FreshSSE /\ acc \in Accs /\ acc.finished = 0 /\ committed = {}
  BY <1>1 DEF StreamInv
<1>3. a \in Accs /\ a.finished = 0 + 1
  BY <1>2, FinishAccOK
<1>4. WriterOK(sse) /\ ~sse.promoted
  BY <1>2, FreshOK DEF InAnswer
<1>5. \/ EndAttempt(sse, <<>>, "empty_visible_end_turn", a) /\ committed' = {}
      \/ EndAttempt(sse, <<JSONMessage>>, "none", a) /\ committed' \in {{}, {attempt}}
  BY <1>1, <1>2
<1> HIDE DEF a
<1>6. a.finished <= 1
  BY <1>3
<1>7. CASE EndAttempt(sse, <<>>, "empty_visible_end_turn", a) /\ committed' = {}
  BY <1>2, <1>3, <1>4, <1>6, <1>7, Outcomes, SingleAnswers, EndAttemptOK
<1>8. CASE EndAttempt(sse, <<JSONMessage>>, "none", a) /\ committed' \in {{}, {attempt}}
  BY <1>2, <1>3, <1>4, <1>6, <1>8, Outcomes, SingleAnswers, EndAttemptOK
<1> QED BY <1>5, <1>7, <1>8

\* A step that changes nothing.
LEMMA StreamStutter ==
  ASSUME StreamInv, UNCHANGED vars
  PROVE  StreamInv'
<1>1. TypeOK'
  BY DEF StreamInv, TypeOK, vars
<1>2. /\ InAnswer(sse) => InAnswer(sse)'
      /\ WriterOK(sse) => WriterOK(sse)'
      /\ Closed(sse, "message_stop") => Closed(sse, "message_stop")'
      /\ Answer(wire) => Answer(wire)'
  BY GoneStep DEF vars
<1>3. Calling => Calling'
  BY DEF Calling, vars
<1>4. Reading => Reading'
  BY <1>2 DEF Reading, vars
<1>5. Ended => Ended'
  BY <1>2 DEF Ended, vars
<1>6. Returned => Returned'
  BY <1>2 DEF Returned, vars
<1> QED BY <1>1, <1>3, <1>4, <1>5, <1>6 DEF StreamInv, vars

\* Every step keeps the invariant.
LEMMA StreamStep == StreamInv /\ [Next]_vars => StreamInv'
<1> SUFFICES ASSUME StreamInv, [Next]_vars PROVE StreamInv'
  OBVIOUS
<1>1. CASE \E e \in ContentEvents \cup StopEvents \cup ErrorEvents : StreamEvent(e) \/ BufferEvent(e)
  BY <1>1, StreamEventOK, BufferEventOK
<1> QED BY <1>1, CallSucceedsOK, CallFailsOK, StreamEndsOK, EndUpstreamFaultOK, EndParseErrorOK,
           EndInvalidToolOK, EndStreamingOK, EndNonStreamingOK, AcceptOK, RetryOK,
           RetryUnpreparedOK, GiveUpOK, DisconnectOK, StreamStutter DEF Next

\* The inductive invariant of a request.
THEOREM StreamInvariant == Spec => []StreamInv
<1>1. Init => StreamInv
  BY StreamInit
<1>2. StreamInv /\ [Next]_vars => StreamInv'
  BY StreamStep
<1> QED BY <1>1, <1>2, PTL DEF Spec
-----------------------------------------------------------------------------
(***************************************************************************)
(* What the invariant says about the client's view                         *)
(***************************************************************************)

\* The writer is well formed at any time, and either nothing has been handed to
\* the connection yet or nothing is left behind the gate.
LEMMA ClientView ==
  ASSUME StreamInv
  PROVE  /\ WriterOK(sse)
         /\ \/ wire = <<>> /\ Sent = SentBy(sse)
            \/ sse = FreshSSE /\ Answer(wire) /\ Sent = wire
<1>1. WriterOK(sse)
  BY FreshOK DEF StreamInv, TypeOK, Calling, Reading, Ended, Returned, InAnswer, Closed
<1>2. <<>> \in Seq(Items)
  OBVIOUS
<1>3. SentBy(sse) \in Seq(Items)
  BY <1>1, <1>2 DEF SentBy, WriterOK, Writers
<1>4. CASE pc \in {"call", "events", "ended"}
  <2>1. wire = <<>>
    BY <1>4 DEF StreamInv
  <2> QED BY <1>1, <1>3, <2>1, FirstSent DEF Sent
<1>5. CASE pc \in {"retry", "done"}
  <2>1. sse = FreshSSE /\ Answer(wire)
    BY <1>5 DEF StreamInv, Returned
  <2>2. SentBy(sse) = <<>> /\ wire \in Seq(Items)
    BY <2>1, FreshOK DEF SentBy, Answer
  <2> QED BY <1>1, <2>1, <2>2, FirstSent DEF Sent
<1> QED BY <1>4, <1>5 DEF StreamInv, TypeOK

\* The types of the request's state.
THEOREM StreamTypeCorrect == Spec => []TypeOK
<1>1. StreamInv => TypeOK
  BY DEF StreamInv
<1> QED BY <1>1, StreamInvariant, PTL

\* Whatever the upstream sends, in any number of events, and whatever the
\* handler buffers, discards, retries or breaks off, the client receives one
\* answer in the order of the protocol.
THEOREM AnswerWellFormed == Spec => []WireWellFormed
<1>1. StreamInv => WireWellFormed
  <2> SUFFICES ASSUME StreamInv PROVE WireWellFormed
    OBVIOUS
  <2>1. CASE Sent = SentBy(sse)
    <3>1. CASE sse.promoted
      <4>1. Chained(Sent)
        BY <2>1, <3>1, ClientView DEF WriterOK, SentBy
      <4> QED BY <4>1 DEF Chained, WireWellFormed
    <3>2. CASE ~sse.promoted
      <4>1. Sent = <<>>
        BY <2>1, <3>2 DEF SentBy
      <4> QED BY <4>1 DEF WireWellFormed
    <3> QED BY <3>1, <3>2
  <2>2. CASE Sent = wire /\ Answer(wire)
    BY <2>2 DEF Answer, WireWellFormed
  <2> QED BY <2>1, <2>2, ClientView
<1> QED BY <1>1, StreamInvariant, PTL

\* When executeWithRetry calls the upstream again, the client has seen nothing
\* of the first attempt.
THEOREM RetryUnseen == Spec => []RetryIsInvisible
<1>1. StreamInv => RetryIsInvisible
  <2> SUFFICES ASSUME StreamInv, attempt = 2, pc = "call" PROVE Sent = <<>>
    BY DEF RetryIsInvisible
  <2>1. wire = <<>> /\ sse = FreshSSE
    BY DEF StreamInv, Calling
  <2>2. SentBy(sse) = <<>>
    BY <2>1, FreshOK DEF SentBy
  <2> QED BY <2>1, <2>2, ClientView
<1> QED BY <1>1, StreamInvariant, PTL

\* finalizeResult runs at most once in an attempt, and no message_stop reaches
\* the client without it.
THEOREM FinalizesOnce == Spec => []FinalizedOnce
<1>1. StreamInv => FinalizedOnce
  <2> SUFFICES ASSUME StreamInv PROVE FinalizedOnce
    OBVIOUS
  <2>1. acc.finished <= 1
    BY DEF StreamInv
  <2>2. ASSUME NEW n \in DOMAIN SentBy(sse), SentBy(sse)[n].kind = "message_stop"
        PROVE  acc.finished = 1
    <3>1. sse.out \in Seq(Items)
      BY ClientView DEF WriterOK, Writers
    <3>2. sse.promoted /\ n \in 1..Len(sse.out) /\ sse.out[n].kind = "message_stop"
      BY <2>2, <3>1 DEF SentBy
    <3>3. ~InAnswer(sse)
      BY <3>2 DEF InAnswer, ContentKinds
    <3>4. sse # FreshSSE
      BY <3>2, FreshOK
    <3> QED BY <3>2, <3>3, <3>4 DEF StreamInv, TypeOK, Calling, Reading, Ended, Returned
  <2> QED BY <2>1, <2>2 DEF FinalizedOnce
<1> QED BY <1>1, StreamInvariant, PTL

\* An answer that has begun has its end when executeWithRetry returns to a
\* client that is still there.
THEOREM AnswerEnded == Spec => []StartedIsEnded
<1>1. StreamInv => StartedIsEnded
  <2> SUFFICES ASSUME StreamInv, pc = "done", ~gone, wire # <<>>
               PROVE  Last(wire).kind \in {"message_stop", "error", "json_error", "json_message"}
    BY DEF StartedIsEnded
  <2>1. Answer(wire)
    BY DEF StreamInv, Returned
  <2> QED BY <2>1 DEF Answer, EndKinds, Last
<1> QED BY <1>1, StreamInvariant, PTL

\* The prompt-cache plan is committed for the last attempt only, and not for an
\* answer that carries an error.
THEOREM CommitsClean == Spec => []CommitsOnlyCleanAnswers
<1>1. StreamInv => CommitsOnlyCleanAnswers
  <2> SUFFICES ASSUME StreamInv PROVE CommitsOnlyCleanAnswers
    OBVIOUS
  <2>1. committed \subseteq {attempt}
    BY DEF StreamInv
  <2>2. ASSUME committed # {}, NEW n \in DOMAIN wire
        PROVE  wire[n].kind \notin {"error", "json_error"}
    <3>1. Returned
      BY <2>2 DEF StreamInv, TypeOK
    <3>2. n \in 1..Len(wire)
      BY <3>1 DEF Returned, Answer
    <3> QED BY <2>2, <3>1, <3>2 DEF Returned, ErrorKinds
  <2> QED BY <2>1, <2>2 DEF CommitsOnlyCleanAnswers
<1> QED BY <1>1, StreamInvariant, PTL
============================================================================
