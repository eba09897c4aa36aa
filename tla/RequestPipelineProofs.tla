----------------------- MODULE RequestPipelineProofs -----------------------
(***************************************************************************)
(* The loops of a request for any number of requests, rounds and retries:  *)
(* every round that an answer stands for is counted once, no request goes  *)
(* round in circles, and what each sends upstream is well formed (with     *)
(* ReqConvProofs).  Then the tracker that they share: every plan is backed *)
(* by what answers have committed, and the usage reported with it adds up. *)
(***************************************************************************)
EXTENDS RequestPipeline, ReqConvProofs, TLAPS
----------------------------------------------------------------------------
(* Counting *)

\* c counts each of the rounds 1 to n once, but perhaps those of S.
Counts(c, n, S) ==
    /\ c \in Seq(Int)
    /\ IsInjective(c)
    /\ Range(c) \subseteq 1..n
    /\ 1..n \subseteq Range(c) \cup S

\* The round after those that are counted is appended.
LEMMA CountsNext ==
    ASSUME NEW c, NEW n \in Nat, NEW S, Counts(c, n, S)
    PROVE  Counts(Append(c, n + 1), n + 1, S)
<1> DEFINE d == Append(c, n + 1)
<1>1. c \in Seq(Int) /\ Len(c) \in Nat /\ DOMAIN c = 1..Len(c)
    BY DEF Counts
<1>2. /\ d \in Seq(Int) /\ DOMAIN d = 1..(Len(c) + 1)
      /\ d[Len(c) + 1] = n + 1
      /\ \A k \in DOMAIN c : d[k] = c[k]
    BY <1>1
<1>3. \A k \in DOMAIN c : c[k] \in 1..n
    BY DEF Counts, Range
<1> HIDE DEF d
<1>4. IsInjective(d)
    <2> SUFFICES ASSUME NEW i \in DOMAIN d, NEW j \in DOMAIN d, d[i] = d[j]
                 PROVE  i = j
        BY DEF IsInjective
    <2>1. CASE i \in DOMAIN c /\ j \in DOMAIN c
        BY <2>1, <1>2 DEF Counts, IsInjective
    <2>2. CASE i \notin DOMAIN c \/ j \notin DOMAIN c
        BY <2>2, <1>1, <1>2, <1>3
    <2> QED BY <2>1, <2>2
<1>5. Range(d) = Range(c) \cup {n + 1}
    BY <1>1, <1>2 DEF Range
<1>6. Range(d) \subseteq 1..(n + 1) /\ 1..(n + 1) \subseteq Range(d) \cup S
    BY <1>5 DEF Counts
<1> QED BY <1>2, <1>4, <1>6 DEF Counts, d

\* The round after those that are counted is left out.
LEMMA CountsWithheld ==
    ASSUME NEW c, NEW n \in Nat, NEW S, Counts(c, n, S)
    PROVE  Counts(c, n + 1, S \cup {n + 1})
BY DEF Counts

\* Before the first round there is nothing to count.
LEMMA CountsNone == \A S : Counts(<<>>, 0, S)
<1> DEFINE e == <<>>
<1>1. e \in Seq(Int) /\ DOMAIN e = {}
    OBVIOUS
<1> HIDE DEF e
<1>2. IsInjective(e) /\ Range(e) = {}
    BY <1>1 DEF IsInjective, Range
<1>3. \A S : Counts(e, 0, S)
    BY <1>1, <1>2 DEF Counts
<1> QED BY <1>3 DEF e
----------------------------------------------------------------------------
(* The state of one request *)

\* The rounds whose usage need not be added up.
LeftOut(q, s) == IF input[q].stream THEN {} ELSE s.withheld

\* The rounds that have been added up in state s: all before the current one,
\* but a streaming loop adds up the last one when the current one responds.
Behind(q, s) ==
    IF s.pc = "call" /\ InLoop(q) /\ input[q].stream /\ s.round > 1 THEN s.round - 2 ELSE s.round - 1

HasFields(s) ==
    {"pc", "run", "round", "attempt", "msgs", "seen", "retried", "preserve", "active", "deferred",
     "prompt", "plan", "counted", "withheld"} = DOMAIN s

StateOK(q, s) ==
    /\ HasFields(s)
    /\ s.pc \in {"new", "call", "stream", "finish", "done"}
    /\ s.run \in 1..2 /\ s.round \in 1..MaxRounds(q) /\ s.attempt \in 0..MaxRetries
    /\ s.pc = "new" => s = Fresh
    /\ s.pc \in {"call", "stream", "finish"} => Counts(s.counted, Behind(q, s), LeftOut(q, s))

AnswerOK(a) == Counts(a.run.counted, a.run.round, LeftOut(a.q, a.run))

PipelineInv ==
    /\ input \in Workloads
    /\ DOMAIN st = Requests
    /\ \A q \in DOMAIN input : StateOK(q, st[q])
    /\ \A a \in answer : AnswerOK(a)

\* One request moves on: it has returned, or has less left to do.
Moves(q) ==
    \E s : /\ st' = [st EXCEPT ![q] = s]
           /\ StateOK(q, s)
           /\ s.pc = "done" \/ Less(Remaining(q, s), Remaining(q, st[q]))
           /\ \A a \in answer' : AnswerOK(a)

\* Inputs never change their shape, so a request's mode is one of the three.
LEMMA InputsOK ==
    ASSUME PipelineInv, NEW q \in DOMAIN input
    PROVE  /\ q \in Requests /\ q \in DOMAIN st
           /\ input[q].mode \in {"plain", "search", "thinking"} /\ input[q].stream \in BOOLEAN
           /\ MaxRounds(q) \in Nat \ {0}
           /\ ~InLoop(q) => MaxRounds(q) = 1
           /\ MaxRetries \in Nat
<1>1. /\ q \in Requests /\ q \in DOMAIN st
      /\ input[q].mode \in {"plain", "search", "thinking"} /\ input[q].stream \in BOOLEAN
    BY PipelineAssumption DEF PipelineInv
<1>2. MaxRounds(q) \in Nat \ {0} /\ (~InLoop(q) => MaxRounds(q) = 1)
    BY <1>1, PipelineAssumption DEF MaxRounds, InLoop
<1> QED BY <1>1, <1>2, PipelineAssumption
----------------------------------------------------------------------------
(* What is left to do *)

Stage(s) ==
    CASE s.pc = "new" -> 4 [] s.pc = "call" -> 3 [] s.pc = "stream" -> 2
      [] s.pc = "finish" -> 1 [] OTHER -> 0

\* The order of what remains: by runs, then rounds, attempts and stages.
LEMMA LessToDo ==
    ASSUME PipelineInv, NEW q \in DOMAIN input, NEW s, NEW t, StateOK(q, s), StateOK(q, t),
           \/ s.run > t.run
           \/ s.run = t.run /\ s.round > t.round
           \/ s.run = t.run /\ s.round = t.round /\ s.attempt > t.attempt
           \/ s.run = t.run /\ s.round = t.round /\ s.attempt = t.attempt /\ Stage(s) < Stage(t)
    PROVE  Less(Remaining(q, s), Remaining(q, t))
<1> DEFINE x == Remaining(q, s)
           y == Remaining(q, t)
<1>1. /\ DOMAIN x = 1..4
      /\ x[1] = 2 - s.run /\ x[2] = MaxRounds(q) - s.round /\ x[3] = MaxRetries - s.attempt
      /\ x[4] = Stage(s)
    BY DEF Remaining, Stage
<1>2. /\ y[1] = 2 - t.run /\ y[2] = MaxRounds(q) - t.round /\ y[3] = MaxRetries - t.attempt
      /\ y[4] = Stage(t)
    BY DEF Remaining, Stage
<1>3. /\ s.run \in Int /\ s.round \in Int /\ s.attempt \in Int
      /\ t.run \in Int /\ t.round \in Int /\ t.attempt \in Int
      /\ MaxRounds(q) \in Int /\ MaxRetries \in Int
    BY InputsOK DEF StateOK
<1>4. Stage(s) \in Int /\ Stage(t) \in Int
    BY DEF Stage
<1> HIDE DEF x, y
<1>5. \E n \in 1..4 : x[n] < y[n] /\ \A k \in 1..(n - 1) : x[k] = y[k]
    <2>1. CASE s.run > t.run
        <3>1. 1 \in 1..4 /\ x[1] < y[1] /\ \A k \in 1..(1 - 1) : x[k] = y[k]
            BY <2>1, <1>1, <1>2, <1>3
        <3> QED BY <3>1
    <2>2. CASE s.run = t.run /\ s.round > t.round
        <3>1. 2 \in 1..4 /\ x[2] < y[2] /\ \A k \in 1..(2 - 1) : x[k] = y[k]
            BY <2>2, <1>1, <1>2, <1>3
        <3> QED BY <3>1
    <2>3. CASE s.run = t.run /\ s.round = t.round /\ s.attempt > t.attempt
        <3>1. 3 \in 1..4 /\ x[3] < y[3] /\ \A k \in 1..(3 - 1) : x[k] = y[k]
            BY <2>3, <1>1, <1>2, <1>3
        <3> QED BY <3>1
    <2>4. CASE s.run = t.run /\ s.round = t.round /\ s.attempt = t.attempt /\ Stage(s) < Stage(t)
        <3>1. 4 \in 1..4 /\ x[4] < y[4] /\ \A k \in 1..(4 - 1) : x[k] = y[k]
            BY <2>4, <1>1, <1>2, <1>3, <1>4
        <3> QED BY <3>1
    <2> QED BY <2>1, <2>2, <2>3, <2>4
<1> QED BY <1>1, <1>5 DEF Less, x, y
----------------------------------------------------------------------------
(* How a step ends *)

\* A request that is done is in order, whatever it went through.
LEMMA DoneOK == ASSUME PipelineInv, NEW q \in DOMAIN input PROVE StateOK(q, Done) /\ Done.pc = "done"
<1>1. Done = [Fresh EXCEPT !.pc = "done"] /\ HasFields(Fresh) /\ Fresh.run = 1 /\ Fresh.round = 1 /\ Fresh.attempt = 0
    BY DEF Done, Fresh, HasFields
<1>2. Done.pc = "done" /\ HasFields(Done) /\ Done.run = 1 /\ Done.round = 1 /\ Done.attempt = 0
    BY <1>1 DEF HasFields
<1> QED BY <1>2, InputsOK DEF StateOK

\* A request that ends with an error gives no answer.
LEMMA FailMoves == ASSUME PipelineInv, NEW q \in DOMAIN input, Fail(q) PROVE Moves(q)
BY DoneOK DEF Fail, Set, Moves

\* A request that ends with an answer.
LEMMA GiveMoves ==
    ASSUME PipelineInv, NEW q \in DOMAIN input, NEW s, NEW raw, NEW report, NEW used,
           Give(q, s, raw, report, used), Counts(s.counted, s.round, LeftOut(q, s))
    PROVE  Moves(q)
<1>1. st' = [st EXCEPT ![q] = Done]
    BY DEF Give
<1>2. \A a \in answer' : a.q = q /\ a.run = s
    BY DEF Give
<1>3. \A a \in answer' : AnswerOK(a)
    BY <1>2 DEF AnswerOK
<1> QED BY <1>1, <1>3, DoneOK DEF Moves

\* A request that goes on to state s.
LEMMA SetMoves ==
    ASSUME PipelineInv, NEW q \in DOMAIN input, NEW s, Set(q, s), StateOK(q, s),
           \/ s.run > st[q].run
           \/ s.run = st[q].run /\ s.round > st[q].round
           \/ s.run = st[q].run /\ s.round = st[q].round /\ s.attempt > st[q].attempt
           \/ /\ s.run = st[q].run /\ s.round = st[q].round /\ s.attempt = st[q].attempt
              /\ Stage(s) < Stage(st[q])
    PROVE  Moves(q)
<1>1. StateOK(q, st[q])
    BY DEF PipelineInv
<1>2. Less(Remaining(q, s), Remaining(q, st[q]))
    BY <1>1, LessToDo
<1>3. st' = [st EXCEPT ![q] = s] /\ answer' = {}
    BY DEF Set
<1> QED BY <1>2, <1>3 DEF Moves

\* A second run begins at its first round with nothing counted.
LEMMA SecondRunMoves ==
    ASSUME PipelineInv, NEW q \in DOMAIN input, NEW s, HasFields(s), st[q].run = 1,
           Set(q, SecondRun(q, s))
    PROVE  Moves(q)
<1> DEFINE t == SecondRun(q, s)
<1>1. /\ HasFields(t) /\ t.pc = "call" /\ t.run = 2 /\ t.round = 1 /\ t.attempt = 0
      /\ t.counted = <<>>
    BY DEF SecondRun, HasFields
<1> HIDE DEF t
<1>2. Behind(q, t) = 0
    BY <1>1 DEF Behind
<1>3. StateOK(q, t)
    BY <1>1, <1>2, CountsNone, InputsOK DEF StateOK
<1>4. Set(q, t) /\ t.run > st[q].run
    BY <1>1 DEF t
<1> QED BY <1>3, <1>4, SetMoves

\* An answer with nothing to show is asked for again without the loop, once, and
\* then is an error.
LEMMA EmptyAnswerMoves ==
    ASSUME PipelineInv, NEW q \in DOMAIN input, NEW s, HasFields(s), s.run = st[q].run,
           EmptyAnswer(q, s)
    PROVE  Moves(q)
BY SecondRunMoves, FailMoves DEF EmptyAnswer

\* The answer of a round is given once the rounds before it are counted.
LEMMA AnswerMoves ==
    ASSUME PipelineInv, NEW q \in DOMAIN input, NEW s, HasFields(s), s.round \in Nat \ {0},
           Counts(s.counted, s.round - 1, LeftOut(q, s)), AnswerAndCommit(q, s)
    PROVE  Moves(q)
<1> DEFINE t == [s EXCEPT !.counted = Append(@, s.round)]
<1>1. t.counted = Append(s.counted, s.round) /\ t.round = s.round /\ t.withheld = s.withheld
    BY DEF HasFields
<1>2. PICK raw, report, used : Give(q, t, raw, report, used)
    BY DEF AnswerAndCommit
<1> HIDE DEF t
<1>3. s.round - 1 \in Nat /\ (s.round - 1) + 1 = s.round
    OBVIOUS
<1>4. Counts(Append(s.counted, (s.round - 1) + 1), (s.round - 1) + 1, LeftOut(q, s))
    BY <1>3, CountsNext
<1>5. Counts(t.counted, t.round, LeftOut(q, t))
    BY <1>1, <1>3, <1>4 DEF LeftOut
<1> QED BY <1>2, <1>5, GiveMoves

\* A round of a loop is over, and s has counted it where the loop buffers.
LEMMA ContinueMoves ==
    ASSUME PipelineInv, NEW q \in DOMAIN input, NEW s, HasFields(s), InLoop(q),
           s.run = st[q].run, s.round = st[q].round,
           Counts(s.counted, IF input[q].stream THEN s.round - 1 ELSE s.round, LeftOut(q, s)),
           Continue(q, s)
    PROVE  Moves(q)
<1>1. st[q].round \in 1..MaxRounds(q) /\ s.run \in 1..2 /\ StateOK(q, st[q])
    BY DEF PipelineInv, StateOK
<1>2. MaxRounds(q) \in Nat /\ input[q].stream \in BOOLEAN /\ MaxRetries \in Nat
    BY InputsOK
<1>3. CASE st[q].round < MaxRounds(q)
    <2> DEFINE t == NextRound(q, s)
    <2>1. /\ HasFields(t) /\ t.pc = "call" /\ t.run = s.run /\ t.round = s.round + 1 /\ t.attempt = 0
          /\ t.counted = s.counted /\ t.withheld = s.withheld
        BY DEF NextRound, HasFields
    <2>2. Set(q, t)
        BY <1>3 DEF Continue
    <2> HIDE DEF t
    <2>3. Behind(q, t) = IF input[q].stream THEN s.round - 1 ELSE s.round
        BY <2>1, <1>1, <1>2 DEF Behind
    <2>4. LeftOut(q, t) = LeftOut(q, s)
        BY <2>1 DEF LeftOut
    <2>5. Counts(t.counted, Behind(q, t), LeftOut(q, t))
        BY <2>1, <2>3, <2>4
    <2>6. StateOK(q, t)
        BY <2>1, <2>5, <1>1, <1>2, <1>3 DEF StateOK
    <2>7. t.run = st[q].run /\ t.round > st[q].round
        BY <2>1, <1>1, <1>2
    <2> QED BY <2>2, <2>6, <2>7, SetMoves
<1>4. CASE ~(st[q].round < MaxRounds(q))
    <2>1. RoundsUsedUp(q, s)
        BY <1>4 DEF Continue
    <2>2. CASE input[q].stream /\ AnswerAndCommit(q, s)
        <3>1. Counts(s.counted, s.round - 1, LeftOut(q, s)) /\ s.round \in Nat \ {0}
            BY <2>2, <1>1, <1>2
        <3> QED BY <3>1, <2>2, AnswerMoves
    <2>3. CASE EmptyAnswer(q, s)
        BY <2>3, EmptyAnswerMoves
    <2>4. CASE ~input[q].stream /\ Give(q, s, RawUsage(s, 0), RawUsage(s, 0), FALSE)
        <3>1. Counts(s.counted, s.round, LeftOut(q, s))
            BY <2>4
        <3> QED BY <3>1, <2>4, GiveMoves
    <2> QED BY <2>1, <2>2, <2>3, <2>4 DEF RoundsUsedUp
<1> QED BY <1>3, <1>4
----------------------------------------------------------------------------
(* The actions of a request *)

\* handler.go: the choice of the loop.
LEMMA ArriveMoves == ASSUME PipelineInv, NEW q \in DOMAIN input, Arrive(q) PROVE Moves(q)
<1> DEFINE s == [st[q] EXCEPT !.pc = "call", !.msgs = input[q].msgs, !.active = input[q].tools,
                              !.deferred = input[q].deferred]
           t == IF input[q].mode = "search" THEN PromoteTools(s, ExtractToolReferences(input[q].msgs)) ELSE s
<1>1. StateOK(q, st[q]) /\ st[q].pc = "new" /\ HasFields(st[q]) /\ st[q] = Fresh
    BY DEF PipelineInv, Arrive, StateOK
<1>2. HasFields(s) /\ s.pc = "call" /\ s.run = 1 /\ s.round = 1 /\ s.attempt = 0 /\ s.counted = <<>>
    BY <1>1 DEF HasFields, Fresh
<1>3. Set(q, t)
    BY DEF Arrive
<1> HIDE DEF s
<1>4. HasFields(t) /\ t.pc = "call" /\ t.run = 1 /\ t.round = 1 /\ t.attempt = 0 /\ t.counted = <<>>
    BY <1>2 DEF PromoteTools, HasFields
<1> HIDE DEF t
<1>5. Behind(q, t) = 0
    BY <1>4 DEF Behind
<1>6. StateOK(q, t)
    BY <1>4, <1>5, CountsNone, InputsOK DEF StateOK
<1>7. t.run = st[q].run /\ t.round = st[q].round /\ t.attempt = st[q].attempt /\ Stage(t) < Stage(st[q])
    BY <1>1, <1>4 DEF Stage, Fresh
<1> QED BY <1>3, <1>6, <1>7, SetMoves

\* client.go: one attempt, repeated while retries are left.
LEMMA CallMoves == ASSUME PipelineInv, NEW q \in DOMAIN input, Call(q) PROVE Moves(q)
<1>1. StateOK(q, st[q]) /\ HasFields(st[q])
    BY DEF PipelineInv, StateOK
<1>2. MaxRounds(q) \in Nat /\ input[q].stream \in BOOLEAN /\ MaxRetries \in Nat
      /\ (~InLoop(q) => MaxRounds(q) = 1)
    BY InputsOK
<1>3. /\ st[q].run \in 1..2 /\ st[q].round \in 1..MaxRounds(q) /\ st[q].attempt \in 0..MaxRetries
    BY <1>1 DEF StateOK
<1>4. CASE AttemptFails(q) /\ st[q].attempt < MaxRetries
    <2> DEFINE t == [st[q] EXCEPT !.attempt = @ + 1]
    <2>1. /\ HasFields(t) /\ t.pc = "call" /\ t.run = st[q].run /\ t.round = st[q].round
          /\ t.attempt = st[q].attempt + 1 /\ t.counted = st[q].counted /\ t.withheld = st[q].withheld
          /\ st[q].pc = "call"
        BY <1>1, <1>4 DEF AttemptFails, HasFields
    <2>2. Set(q, t)
        BY <1>4 DEF AttemptFails
    <2> HIDE DEF t
    <2>3. Counts(st[q].counted, Behind(q, st[q]), LeftOut(q, st[q]))
        BY <2>1, <1>1 DEF StateOK
    <2>4. Behind(q, t) = Behind(q, st[q]) /\ LeftOut(q, t) = LeftOut(q, st[q])
        BY <2>1 DEF Behind, LeftOut
    <2>5. StateOK(q, t)
        BY <2>1, <2>3, <2>4, <1>2, <1>3, <1>4 DEF StateOK
    <2>6. t.run = st[q].run /\ t.round = st[q].round /\ t.attempt > st[q].attempt
        BY <2>1, <1>2, <1>3
    <2> QED BY <2>2, <2>5, <2>6, SetMoves
<1>5. CASE AttemptFails(q) /\ ~(st[q].attempt < MaxRetries)
    BY <1>5, FailMoves DEF AttemptFails
<1>6. CASE CallEnds(q)
    BY <1>6, FailMoves DEF CallEnds
<1>7. CASE Respond(q)
    <2>1. st[q].pc = "call"
        BY <1>7 DEF Respond
    <2>2. PICK prompt, plan :
             Set(q, [st[q] EXCEPT !.pc = "stream", !.prompt = prompt, !.plan = plan,
                         !.counted = IF Carries(q) THEN Append(@, st[q].round - 1) ELSE @])
        BY <1>7 DEF Respond
    <2> DEFINE t == [st[q] EXCEPT !.pc = "stream", !.prompt = prompt, !.plan = plan,
                         !.counted = IF Carries(q) THEN Append(@, st[q].round - 1) ELSE @]
    <2>3. /\ HasFields(t) /\ t.pc = "stream" /\ t.run = st[q].run /\ t.round = st[q].round
          /\ t.attempt = st[q].attempt /\ t.withheld = st[q].withheld
          /\ t.counted = IF Carries(q) THEN Append(st[q].counted, st[q].round - 1) ELSE st[q].counted
        BY <1>1 DEF HasFields
    <2> HIDE DEF t
    <2>4. Counts(st[q].counted, Behind(q, st[q]), LeftOut(q, st[q]))
        BY <2>1, <1>1 DEF StateOK
    <2>5. LeftOut(q, t) = LeftOut(q, st[q]) /\ Behind(q, t) = st[q].round - 1
        BY <2>3 DEF LeftOut, Behind
    <2>6. Counts(t.counted, Behind(q, t), LeftOut(q, t))
        <3>1. CASE Carries(q)
            <4>1. Behind(q, st[q]) = st[q].round - 2 /\ st[q].round - 2 \in Nat
                BY <2>1, <3>1, <1>2, <1>3 DEF Carries, Behind
            <4>2. Counts(Append(st[q].counted, (st[q].round - 2) + 1), (st[q].round - 2) + 1,
                         LeftOut(q, st[q]))
                BY <4>1, <2>4, CountsNext
            <4>3. (st[q].round - 2) + 1 = st[q].round - 1
                BY <1>2, <1>3
            <4> QED BY <4>2, <4>3, <2>3, <2>5, <3>1
        <3>2. CASE ~Carries(q)
            <4>1. Behind(q, st[q]) = st[q].round - 1
                BY <2>1, <3>2, <1>2, <1>3 DEF Carries, Behind
            <4> QED BY <4>1, <2>3, <2>4, <2>5, <3>2
        <3> QED BY <3>1, <3>2
    <2>7. StateOK(q, t)
        BY <2>3, <2>6, <1>3 DEF StateOK
    <2>8. t.run = st[q].run /\ t.round = st[q].round /\ t.attempt = st[q].attempt /\ Stage(t) < Stage(st[q])
        BY <2>1, <2>3 DEF Stage
    <2>9. Set(q, t)
        BY <2>2 DEF t
    <2> QED BY <2>7, <2>8, <2>9, SetMoves
<1> QED BY <1>4, <1>5, <1>6, <1>7 DEF Call, AttemptFails

\* A loop goes on, or the answer of a plain call is withheld.
LEMMA LoopMoves ==
    ASSUME PipelineInv, NEW q \in DOMAIN input, Search(q) \/ Think(q) \/ WithheldCall(q)
    PROVE  Moves(q)
<1>1. StateOK(q, st[q]) /\ HasFields(st[q]) /\ st[q].pc = "stream"
    BY DEF PipelineInv, StateOK, Search, Think, WithheldCall
<1>2. MaxRounds(q) \in Nat /\ input[q].stream \in BOOLEAN /\ st[q].round \in 1..MaxRounds(q)
    BY <1>1, InputsOK DEF StateOK
<1>3. st[q].round - 1 \in Nat /\ (st[q].round - 1) + 1 = st[q].round
    BY <1>2
<1>4. Counts(st[q].counted, st[q].round - 1, LeftOut(q, st[q]))
    BY <1>1 DEF StateOK, Behind
<1>5. ASSUME NEW s, s.counted = CountsNow(q), s.withheld = st[q].withheld
      PROVE  Counts(s.counted, IF input[q].stream THEN st[q].round - 1 ELSE st[q].round, LeftOut(q, s))
    <2>1. Counts(Append(st[q].counted, (st[q].round - 1) + 1), (st[q].round - 1) + 1, LeftOut(q, st[q]))
        BY <1>3, <1>4, CountsNext
    <2>2. LeftOut(q, s) = LeftOut(q, st[q])
        BY <1>5 DEF LeftOut
    <2> QED BY <1>3, <1>4, <1>5, <2>1, <2>2 DEF CountsNow
<1>6. CASE Search(q)
    <2>1. InLoop(q)
        BY <1>6 DEF Search, InLoop
    <2>2. PICK found, new :
             Continue(q, [PromoteTools(st[q], found) EXCEPT
                             !.msgs = @ \o new, !.seen = Seen(q, TRUE), !.counted = CountsNow(q)])
        BY <1>6 DEF Search
    <2> DEFINE u == PromoteTools(st[q], found)
               s == [u EXCEPT !.msgs = @ \o new, !.seen = Seen(q, TRUE), !.counted = CountsNow(q)]
    <2>3. HasFields(u) /\ u.run = st[q].run /\ u.round = st[q].round /\ u.withheld = st[q].withheld
        BY <1>1 DEF PromoteTools, HasFields
    <2> HIDE DEF u
    <2>4. HasFields(s) /\ s.run = st[q].run /\ s.round = st[q].round /\ s.withheld = st[q].withheld
          /\ s.counted = CountsNow(q)
        BY <2>3 DEF HasFields
    <2>5. Continue(q, s)
        BY <2>2 DEF u
    <2> HIDE DEF s
    <2>6. Counts(s.counted, IF input[q].stream THEN s.round - 1 ELSE s.round, LeftOut(q, s))
        BY <1>5, <2>4
    <2> QED BY <2>1, <2>4, <2>5, <2>6, ContinueMoves
<1>7. CASE Think(q)
    <2>1. InLoop(q)
        BY <1>7 DEF Think, InLoop
    <2>2. PICK text, new :
             Continue(q, [st[q] EXCEPT !.msgs = @ \o new, !.preserve = TRUE,
                                       !.seen = Seen(q, text), !.counted = CountsNow(q)])
        BY <1>7 DEF Think
    <2> DEFINE s == [st[q] EXCEPT !.msgs = @ \o new, !.preserve = TRUE,
                                  !.seen = Seen(q, text), !.counted = CountsNow(q)]
    <2>3. HasFields(s) /\ s.run = st[q].run /\ s.round = st[q].round /\ s.withheld = st[q].withheld
          /\ s.counted = CountsNow(q)
        BY <1>1 DEF HasFields
    <2>4. Continue(q, s)
        BY <2>2
    <2> HIDE DEF s
    <2>5. Counts(s.counted, IF input[q].stream THEN s.round - 1 ELSE s.round, LeftOut(q, s))
        BY <1>5, <2>3
    <2> QED BY <2>1, <2>3, <2>4, <2>5, ContinueMoves
<1>8. CASE WithheldCall(q)
    <2> DEFINE u == [st[q] EXCEPT !.msgs = @ \o Exchange(q, "tool_use", OkText, <<>>)]
               s == [u EXCEPT !.retried = TRUE, !.preserve = TRUE, !.withheld = @ \cup {st[q].round}]
    <2>1. HasFields(u) /\ u.run = st[q].run /\ u.round = st[q].round /\ u.withheld = st[q].withheld
          /\ u.counted = st[q].counted
        BY <1>1 DEF HasFields
    <2>2. \/ InLoop(q) /\ Continue(q, s)
          \/ st[q].run = 1 /\ Set(q, SecondRun(q, u))
          \/ Fail(q)
        BY <1>8 DEF WithheldCall
    <2> HIDE DEF u
    <2>3. HasFields(s) /\ s.run = st[q].run /\ s.round = st[q].round
          /\ s.withheld = st[q].withheld \cup {st[q].round} /\ s.counted = st[q].counted
        BY <2>1 DEF HasFields
    <2> HIDE DEF s
    <2>4. Counts(s.counted, IF input[q].stream THEN s.round - 1 ELSE s.round, LeftOut(q, s))
        <3>1. CASE input[q].stream
            BY <3>1, <1>4, <2>3 DEF LeftOut
        <3>2. CASE ~input[q].stream
            <4>1. Counts(st[q].counted, st[q].round, st[q].withheld \cup {st[q].round})
                BY <3>2, <1>3, <1>4, CountsWithheld DEF LeftOut
            <4> QED BY <4>1, <3>2, <2>3 DEF LeftOut
        <3> QED BY <3>1, <3>2
    <2>5. CASE InLoop(q) /\ Continue(q, s)
        BY <2>3, <2>4, <2>5, ContinueMoves
    <2>6. CASE st[q].run = 1 /\ Set(q, SecondRun(q, u))
        BY <2>1, <2>6, SecondRunMoves
    <2>7. CASE Fail(q)
        BY <2>7, FailMoves
    <2> QED BY <2>2, <2>5, <2>6, <2>7
<1> QED BY <1>6, <1>7, <1>8

\* The answer is there, or there is nothing to show.
LEMMA FinishMoves ==
    ASSUME PipelineInv, NEW q \in DOMAIN input,
           Answer(q) \/ AnswerEmpty(q) \/ PlanLate(q) \/ FinishLate(q)
    PROVE  Moves(q)
<1>1. StateOK(q, st[q]) /\ HasFields(st[q]) /\ st[q].pc \in {"stream", "finish"}
    BY DEF PipelineInv, StateOK, Answer, AnswerEmpty, PlanLate, FinishLate
<1>2. MaxRounds(q) \in Nat /\ st[q].round \in 1..MaxRounds(q)
    BY <1>1, InputsOK DEF StateOK
<1>3. Counts(st[q].counted, st[q].round - 1, LeftOut(q, st[q])) /\ st[q].round \in Nat \ {0}
    BY <1>1, <1>2 DEF StateOK, Behind
<1>4. CASE AnswerAndCommit(q, st[q])
    BY <1>1, <1>3, <1>4, AnswerMoves
<1>5. CASE EmptyAnswer(q, st[q])
    BY <1>1, <1>5, EmptyAnswerMoves
<1>6. CASE PlanLate(q)
    <2>1. PICK plan : Set(q, [st[q] EXCEPT !.pc = "finish", !.plan = plan])
        BY <1>6 DEF PlanLate
    <2> DEFINE t == [st[q] EXCEPT !.pc = "finish", !.plan = plan]
    <2>2. /\ HasFields(t) /\ t.pc = "finish" /\ t.run = st[q].run /\ t.round = st[q].round
          /\ t.attempt = st[q].attempt /\ t.withheld = st[q].withheld /\ t.counted = st[q].counted
        BY <1>1 DEF HasFields
    <2>3. Set(q, t) /\ st[q].pc = "stream"
        BY <2>1, <1>6 DEF PlanLate
    <2> HIDE DEF t
    <2>4. Counts(t.counted, Behind(q, t), LeftOut(q, t))
        BY <2>2, <1>3 DEF LeftOut, Behind
    <2>5. StateOK(q, t)
        BY <2>2, <2>4, <1>1 DEF StateOK
    <2>6. t.run = st[q].run /\ t.round = st[q].round /\ t.attempt = st[q].attempt /\ Stage(t) < Stage(st[q])
        BY <2>2, <2>3 DEF Stage
    <2> QED BY <2>3, <2>5, <2>6, SetMoves
<1> QED BY <1>4, <1>5, <1>6 DEF Answer, AnswerEmpty, FinishLate
----------------------------------------------------------------------------
(* The invariant and the theorems *)

\* Nothing has begun.
LEMMA PipelineInit == Init => PipelineInv
<1> SUFFICES ASSUME Init PROVE PipelineInv
    OBVIOUS
<1>1. input \in Workloads /\ st = [q \in Requests |-> Fresh] /\ answer = {}
    BY DEF Init
<1>2. ASSUME NEW q \in DOMAIN input
      PROVE  StateOK(q, st[q])
    <2>1. q \in Requests /\ MaxRounds(q) \in Nat \ {0} /\ MaxRetries \in Nat
        BY <1>1, PipelineAssumption DEF MaxRounds
    <2>2. st[q] = Fresh /\ HasFields(Fresh) /\ Fresh.pc = "new" /\ Fresh.run = 1 /\ Fresh.round = 1
          /\ Fresh.attempt = 0
        BY <1>1, <2>1 DEF Fresh, HasFields
    <2> QED BY <2>1, <2>2 DEF StateOK
<1> QED BY <1>1, <1>2 DEF PipelineInv

\* A step is a move of one request, or leaves all of them alone.
LEMMA PipelineStep ==
    ASSUME PipelineInv, [Next]_vars
    PROVE  /\ input' = input
           /\ \/ \E q \in DOMAIN input : Moves(q)
              \/ st' = st /\ (answer' = answer \/ answer' = {})
<1>1. ASSUME NEW q \in DOMAIN input, Arrive(q) \/ Call(q) \/ EndOfAnswer(q)
      PROVE  input' = input /\ Moves(q)
    <2>1. input' = input
        BY <1>1 DEF Arrive, Call, AttemptFails, CallEnds, Respond, EndOfAnswer, Search, Think,
                    WithheldCall, Answer, AnswerEmpty, PlanLate, FinishLate
    <2> QED BY <2>1, <1>1, ArriveMoves, CallMoves, LoopMoves, FinishMoves DEF EndOfAnswer
<1>2. CASE Tick \/ Janitor
    BY <1>2 DEF Tick, Janitor
<1>3. CASE UNCHANGED vars
    BY <1>3 DEF vars
<1> QED BY <1>1, <1>2, <1>3 DEF Next

\* What a move does to one request it does to no other.
LEMMA PipelinePreserved == ASSUME PipelineInv, [Next]_vars PROVE PipelineInv'
<1>1. input' = input
    BY PipelineStep
<1>2. ASSUME NEW q, NEW s, StateOK(q, s)
      PROVE  StateOK(q, s)'
    BY <1>1, <1>2 DEF StateOK, MaxRounds, Behind, LeftOut, InLoop
<1>3. ASSUME NEW a, AnswerOK(a)
      PROVE  AnswerOK(a)'
    BY <1>1, <1>3 DEF AnswerOK, LeftOut
<1>4. CASE \E q \in DOMAIN input : Moves(q)
    <2>1. PICK q \in DOMAIN input : Moves(q)
        BY <1>4
    <2>2. PICK s : st' = [st EXCEPT ![q] = s] /\ StateOK(q, s) /\ \A a \in answer' : AnswerOK(a)
        BY <2>1 DEF Moves
    <2>3. DOMAIN st' = Requests /\ st'[q] = s /\ \A r \in DOMAIN input : r # q => st'[r] = st[r]
        BY <2>2, InputsOK DEF PipelineInv
    <2>4. \A r \in DOMAIN input : StateOK(r, st'[r])
        BY <2>2, <2>3 DEF PipelineInv
    <2>5. \A r \in DOMAIN input' : StateOK(r, st[r])'
        <3> SUFFICES ASSUME NEW r \in DOMAIN input PROVE StateOK(r, st[r])'
            BY <1>1
        <3>1. PICK t : t = st'[r]
            OBVIOUS
        <3>2. StateOK(r, t)
            BY <3>1, <2>4
        <3>3. StateOK(r, t)'
            BY <3>2, <1>2
        <3> QED BY <3>1, <3>3 DEF StateOK, MaxRounds, Behind, LeftOut, InLoop, HasFields
    <2>6. \A a \in answer' : AnswerOK(a)'
        BY <2>2, <1>3
    <2> QED BY <1>1, <2>3, <2>5, <2>6 DEF PipelineInv
<1>5. CASE st' = st /\ (answer' = answer \/ answer' = {})
    BY <1>1, <1>2, <1>3, <1>5 DEF PipelineInv, StateOK, MaxRounds, Behind, LeftOut, InLoop, HasFields
<1> QED BY <1>4, <1>5, PipelineStep

\* The inductive invariant of the loops: each request knows its rounds and has
\* counted those behind it, in any interleaving with the others.
THEOREM PipelineInvariant == Spec => []PipelineInv
BY PipelineInit, PipelinePreserved, PTL DEF Spec

\* Whatever retries, rounds and second runs a request went through, its answer
\* counts the usage of each round once, but that of a buffered round that was
\* withheld.
THEOREM RoundsCounted == Spec => []RoundsAccounted
<1>1. PipelineInv => RoundsAccounted
    BY DEF PipelineInv, AnswerOK, Counts, LeftOut, RoundsAccounted
<1> QED BY <1>1, PipelineInvariant, PTL

\* No request goes round in circles: every step of it ends it or leaves it less
\* to do, in an order that has no infinite descent.
THEOREM RequestsRunOut == Spec => WorkRunsOut
<1> DEFINE A == \A q \in DOMAIN input : st'[q] # st[q] /\ st[q].pc # "new" =>
                   st'[q].pc = "done" \/ Less(Remaining(q, st'[q]), Remaining(q, st[q]))
<1>1. ASSUME PipelineInv, [Next]_vars PROVE A
    <2>1. CASE st' = st
        BY <2>1
    <2>2. CASE \E q \in DOMAIN input : Moves(q)
        <3>1. PICK q \in DOMAIN input : Moves(q)
            BY <2>2
        <3>2. PICK s : /\ st' = [st EXCEPT ![q] = s]
                       /\ s.pc = "done" \/ Less(Remaining(q, s), Remaining(q, st[q]))
            BY <3>1 DEF Moves
        <3>3. st'[q] = s /\ \A r \in DOMAIN input : r # q => st'[r] = st[r]
            BY <3>2, InputsOK, <1>1 DEF PipelineInv
        <3> QED BY <3>2, <3>3
    <2> QED BY <2>1, <2>2, <1>1, PipelineStep
<1> QED BY <1>1, PipelineInvariant, PTL DEF Spec, WorkRunsOut
----------------------------------------------------------------------------
(* What is said *)

\* The conversation of a request in state s: what a client named is offered.
TalkBody(q, s) ==
    /\ IsConversation(s.msgs) /\ IsFiniteSet(s.deferred)
    /\ ClientsAnswerOnce => AllApart(s.msgs)
    /\ RegularClients => Regular(s.msgs)
    /\ RegularClients /\ input[q].mode = "search" =>
          MessagesIn(s.msgs, s.active) /\ MessagesIn(input[q].msgs, s.active)

TalkOK(q, s) ==
    /\ s.prompt \in Nat /\ s.active \cap s.deferred = {}
    /\ s.pc \in {"call", "stream", "finish"} => TalkBody(q, s)

TalkInv == \A q \in DOMAIN input : TalkOK(q, st[q])

\* One request moves on and its conversation is in order.
Talks(q) == \E s : st' = [st EXCEPT ![q] = s] /\ TalkOK(q, s)

\* The tools that are offered when a client's message arrives: with those that
\* earlier searches have found.
Offered(q) ==
    input[q].tools \cup
       (IF input[q].mode = "search" THEN ExtractToolReferences(input[q].msgs) \cap input[q].deferred ELSE {})

\* What a client says.
LEMMA InputTalks ==
    ASSUME PipelineInv, NEW q \in DOMAIN input
    PROVE  /\ IsConversation(input[q].msgs) /\ IsContent(input[q].system) /\ IsContent(input[q].toolBlocks)
           /\ IsFiniteSet(input[q].deferred) /\ input[q].tools \cap input[q].deferred = {}
           /\ ClientsAnswerOnce => AllApart(input[q].msgs)
           /\ RegularClients => Regular(input[q].msgs) /\ ContentIn(input[q].system, {})
           /\ RegularClients /\ input[q].mode = "search" => MessagesIn(input[q].msgs, Offered(q))
<1>1. /\ IsConversation(input[q].msgs) /\ IsContent(input[q].system) /\ IsContent(input[q].toolBlocks)
      /\ IsFiniteSet(input[q].deferred) /\ input[q].tools \cap input[q].deferred = {}
    BY InputAssumption DEF PipelineInv
<1>2. ASSUME RegularClients
      PROVE  /\ Regular(input[q].msgs)
             /\ \A n \in DOMAIN input[q].system : ToolNames(input[q].system[n].text) = {}
             /\ \A n \in DOMAIN input[q].msgs : \A b \in Range(input[q].msgs[n].blocks) :
                   ToolNames(b.text) \subseteq
                      (IF IsToolResult(b) /\ ~input[q].msgs[n].str
                       THEN input[q].tools \cup input[q].deferred ELSE {})
    BY <1>2 DEF RegularClients, PipelineInv
<1>3. ASSUME RegularClients PROVE ContentIn(input[q].system, {})
    <2>1. PICK c : c = input[q].system
        OBVIOUS
    <2>2. IsContent(c) /\ \A n \in DOMAIN c : ToolNames(c[n].text) = {}
        BY <1>1, <1>2, <1>3, <2>1
    <2>3. ASSUME NEW n \in DOMAIN c PROVE BlockIn(c[n], {})
        BY <2>2, TextNames DEF IsContent, BlockIn
    <2> QED BY <2>1, <2>2, <2>3 DEF ContentIn, IsContent
<1>4. ASSUME RegularClients, input[q].mode = "search" PROVE MessagesIn(input[q].msgs, Offered(q))
    <2>1. PICK ms : ms = input[q].msgs
        OBVIOUS
    <2>2. IsConversation(ms)
        BY <1>1, <2>1
    <2>3. ASSUME NEW n \in DOMAIN ms, NEW k \in DOMAIN ms[n].blocks
          PROVE  BlockIn(ms[n].blocks[k], Offered(q))
        <3>1. PICK b : b = ms[n].blocks[k]
            OBVIOUS
        <3>2. DOMAIN b = {"type", "id", "text", "cache"} /\ IsSeq(b.text)
            BY <2>2, <2>3, <3>1 DEF IsConversation, IsContent
        <3>3. ToolNames(b.text) \subseteq
                  (IF IsToolResult(b) /\ ~ms[n].str THEN input[q].tools \cup input[q].deferred ELSE {})
            <4>1. b \in Range(ms[n].blocks)
                BY <2>3, <3>1 DEF Range
            <4> QED BY <4>1, <1>2, <1>4, <2>1, <2>3
        <3>4. CASE IsToolResult(b) /\ ~ms[n].str
            <4>1. ToolNames(b.text) \subseteq ExtractToolReferences(ms)
                <5>1. b.type # "tool_reference"
                    BY <3>4 DEF IsToolResult
                <5> QED BY <5>1, <3>4, <3>1, <2>3 DEF ExtractToolReferences
            <4> QED BY <4>1, <3>2, <3>3, <3>4, <3>1, <2>1, <1>4, TextNames DEF BlockIn, Offered
        <3>5. CASE ~(IsToolResult(b) /\ ~ms[n].str)
            <4>1. ToolNames(b.text) \subseteq Offered(q)
                BY <3>3, <3>5
            <4> QED BY <4>1, <3>2, <3>1, TextNames DEF BlockIn
        <3> QED BY <3>4, <3>5
    <2>4. ASSUME NEW n \in DOMAIN ms PROVE MessageIn(ms[n], Offered(q))
        BY <2>2, <2>3, <2>4 DEF MessageIn, ContentIn, IsConversation, IsContent
    <2> QED BY <2>1, <2>2, <2>4 DEF MessagesIn, IsConversation
<1>5. ASSUME ClientsAnswerOnce PROVE AllApart(input[q].msgs)
    BY <1>5 DEF ClientsAnswerOnce, AllApart, PipelineInv
<1> QED BY <1>1, <1>2, <1>3, <1>4, <1>5

\* Nothing is said in the steps that leave the messages and the tools alone.
LEMMA SameTalk ==
    ASSUME NEW q, NEW s, NEW t, TalkBody(q, s),
           t.msgs = s.msgs, t.active = s.active, t.deferred = s.deferred
    PROVE  TalkBody(q, t)
BY DEF TalkBody

\* What one round of a loop adds.
LEMMA ExchangeIn ==
    ASSUME NEW q, NEW A, NEW type \in {"tool_use", "server_tool_use"}, NEW result, TextIn(result, A),
           NEW more, ContentIn(more, A), \A k \in DOMAIN more : more[k].type = "text",
           NEW e, e = Exchange(q, type, result, more)
    PROVE  MessagesIn(e, A) /\ IsConversation(e) /\ Regular(e) /\ AllApart(e)
<1>1. PICK b, r, c : /\ b = Block(type, CallID(q), <<>>)
                     /\ r = Block("tool_result", CallID(q), result)
                     /\ c = <<r>> \o more
    OBVIOUS
<1>2. BlockIn(b, A) /\ BlockIn(r, A)
    BY <1>1, BlockMade, TextNone
<1>3. r.type = "tool_result"
    BY <1>1 DEF Block
<1>4. PICK u, v : u = <<b>> /\ v = <<r>>
    OBVIOUS
<1>5. ContentIn(u, A) /\ ContentIn(v, A) /\ IsSeq(u) /\ IsSeq(v) /\ IsSeq(more)
    BY <1>2, <1>4, ContentOne DEF ContentIn
<1>6. PutBefore(c, v, more)
    BY <1>1, <1>4 DEF PutBefore
<1>7. /\ IsSeq(c)
      /\ \A i \in DOMAIN c : (\E j \in DOMAIN v : c[i] = v[j]) \/ (\E j \in DOMAIN more : c[i] = more[j])
    BY <1>5, <1>6, ConcatFrom
<1>8. DOMAIN u = {1} /\ DOMAIN v = {1} /\ v[1] = r
    BY <1>4
<1>9. ContentIn(c, A)
    BY <1>5, <1>7 DEF ContentIn
<1>10. \A i \in DOMAIN c : c[i].type \in {"tool_result", "text"}
    BY <1>3, <1>7, <1>8
<1>11. PICK m, n : m = Message("assistant", u) /\ n = Message("user", c)
    OBVIOUS
<1>12. /\ MessageIn(m, A) /\ MessageIn(n, A) /\ m.role = "assistant" /\ n.role = "user"
       /\ m.blocks = u /\ n.blocks = c
    BY <1>5, <1>9, <1>11 DEF Message, MessageIn
<1>13. RegularMessage(m)
    BY <1>5, <1>8, <1>12, OneUse
<1>14. RegularMessage(n)
    <2>1. \A i \in DOMAIN n.blocks : ~IsToolUse(n.blocks[i])
        BY <1>10, <1>12 DEF IsToolUse
    <2> QED BY <2>1, <1>7, <1>12, OneUse
<1>15. e = <<m, n>>
    BY <1>1, <1>4, <1>11 DEF Exchange
<1>16. IsSeq(e)
    BY <1>15, SingleIsSeq
<1>17. DOMAIN e = {1, 2} /\ e[1] = m /\ e[2] = n /\ e # <<>>
    BY <1>15
<1>18. MessagesIn(e, A)
    BY <1>12, <1>16, <1>17 DEF MessagesIn
<1>19. Regular(e)
    BY <1>13, <1>14, <1>17 DEF Regular
<1>20. OneAnswerEach(m)
    BY <1>8, <1>12 DEF OneAnswerEach
<1>21. \A i \in DOMAIN c : IsToolResult(c[i]) => i = 1
    <2>1. PICK l : l = Len(more)
        OBVIOUS
    <2>2. Len(v) = 1 /\ Len(c) = 1 + l /\ l \in Nat /\ DOMAIN more = 1..l /\ DOMAIN c = 1..(1 + l)
        BY <1>1, <1>4, <1>5, <1>7, <2>1, ConcatIsSeq, SeqFacts
    <2>3. \A i \in 1..l : c[1 + i] = more[i]
        BY <1>1, <1>4, <1>5, <2>1, <2>2, ConcatIsSeq
    <2>4. ASSUME NEW i \in DOMAIN c, i # 1 PROVE ~IsToolResult(c[i])
        <3>1. i - 1 \in 1..l /\ 1 + (i - 1) = i
            BY <2>2, <2>4
        <3>2. c[i] = more[i - 1]
            BY <2>3, <3>1
        <3> QED BY <2>2, <3>1, <3>2 DEF IsToolResult
    <2> QED BY <2>4
<1>22. OneAnswerEach(n)
    BY <1>12, <1>21 DEF OneAnswerEach
<1>23. AllApart(e)
    BY <1>17, <1>20, <1>22 DEF AllApart
<1> QED BY <1>17, <1>18, <1>19, <1>23, ConversationFrom

\* The conversation goes on with what the loop says, and perhaps more tools.
LEMMA MoreTalk ==
    ASSUME NEW q, NEW s, NEW t, TalkBody(q, s), NEW e, IsConversation(e), Regular(e), AllApart(e),
           t.msgs = s.msgs \o e, IsFiniteSet(t.deferred), s.active \subseteq t.active,
           input[q].mode = "search" => MessagesIn(e, t.active)
    PROVE  TalkBody(q, t)
<1>1. /\ IsConversation(s.msgs \o e) /\ (RegularClients => Regular(s.msgs \o e))
      /\ ClientsAnswerOnce => AllApart(s.msgs \o e)
    BY MoreMessages DEF TalkBody
<1>2. ASSUME RegularClients, input[q].mode = "search"
      PROVE  MessagesIn(t.msgs, t.active) /\ MessagesIn(input[q].msgs, t.active)
    <2>1. MessagesIn(s.msgs, t.active) /\ MessagesIn(input[q].msgs, t.active) /\ MessagesIn(e, t.active)
        BY <1>2, MessagesMonotone DEF TalkBody
    <2>2. IsConversation(s.msgs)
        BY DEF TalkBody
    <2> QED BY <2>1, <2>2, MoreMessages
<1> QED BY <1>1, <1>2 DEF TalkBody

\* A request that has returned says nothing.
LEMMA DoneTalks ==
    ASSUME NEW q, st' = [st EXCEPT ![q] = Done] PROVE Talks(q)
<1>1. Done.pc = "done" /\ Done.prompt = 0 /\ Done.active = {} /\ Done.deferred = {}
    BY DEF Done, Fresh
<1>2. TalkOK(q, Done)
    BY <1>1 DEF TalkOK
<1> QED BY <1>2 DEF Talks

\* A request that fails returns.
LEMMA FailTalks == ASSUME NEW q, Fail(q) PROVE Talks(q)
BY DoneTalks DEF Fail, Set

\* A request that is answered returns.
LEMMA GiveTalks ==
    ASSUME NEW q, NEW s, NEW raw, NEW report, NEW used, Give(q, s, raw, report, used) PROVE Talks(q)
BY DoneTalks DEF Give

\* The same with the commit of its plan.
LEMMA AnswerTalks == ASSUME NEW q, NEW s, AnswerAndCommit(q, s) PROVE Talks(q)
BY GiveTalks DEF AnswerAndCommit

\* A step to a state in order.
LEMMA SetTalks == ASSUME NEW q, NEW s, Set(q, s), TalkOK(q, s) PROVE Talks(q)
BY DEF Set, Talks

\* A second run starts from the client's messages where the first was a loop.
LEMMA SecondRunTalks ==
    ASSUME PipelineInv, NEW q \in DOMAIN input, NEW s, HasFields(s), TalkOK(q, s), TalkBody(q, s),
           Set(q, SecondRun(q, s))
    PROVE  Talks(q)
<1> DEFINE t == SecondRun(q, s)
<1>1. /\ t.prompt = s.prompt /\ t.active = s.active /\ t.deferred = s.deferred
      /\ t.msgs = IF InLoop(q) THEN input[q].msgs ELSE s.msgs
    BY DEF SecondRun, HasFields
<1> HIDE DEF t
<1>2. TalkBody(q, t)
    BY <1>1, InputTalks DEF TalkBody
<1>3. TalkOK(q, t)
    BY <1>1, <1>2 DEF TalkOK
<1> QED BY <1>3, SetTalks DEF t

\* An empty answer: a second run, or the end.
LEMMA EmptyAnswerTalks ==
    ASSUME PipelineInv, NEW q \in DOMAIN input, NEW s, HasFields(s), TalkOK(q, s), TalkBody(q, s),
           EmptyAnswer(q, s)
    PROVE  Talks(q)
BY SecondRunTalks, FailTalks DEF EmptyAnswer

\* The next round of a loop, or the end of it.
LEMMA ContinueTalks ==
    ASSUME PipelineInv, NEW q \in DOMAIN input, NEW s, HasFields(s), TalkOK(q, s), TalkBody(q, s),
           Continue(q, s)
    PROVE  Talks(q)
<1>1. CASE Set(q, NextRound(q, s))
    <2> DEFINE t == NextRound(q, s)
    <2>1. t.prompt = s.prompt /\ t.active = s.active /\ t.deferred = s.deferred /\ t.msgs = s.msgs
        BY DEF NextRound, HasFields
    <2> HIDE DEF t
    <2>2. TalkOK(q, t)
        BY <2>1, SameTalk DEF TalkOK
    <2> QED BY <1>1, <2>2, SetTalks DEF t
<1>2. CASE AnswerAndCommit(q, s)
    BY <1>2, AnswerTalks
<1>3. CASE EmptyAnswer(q, s)
    BY <1>3, EmptyAnswerTalks
<1>4. CASE Give(q, s, RawUsage(s, 0), RawUsage(s, 0), FALSE)
    BY <1>4, GiveTalks
<1> QED BY <1>1, <1>2, <1>3, <1>4 DEF Continue, RoundsUsedUp

\* The first call offers the client's tools and those of earlier searches.
LEMMA ArriveTalks == ASSUME PipelineInv, NEW q \in DOMAIN input, Arrive(q) PROVE Talks(q)
<1> DEFINE s == [st[q] EXCEPT !.pc = "call", !.msgs = input[q].msgs, !.active = input[q].tools,
                              !.deferred = input[q].deferred]
           names == ExtractToolReferences(input[q].msgs)
           t == IF input[q].mode = "search" THEN PromoteTools(s, names) ELSE s
<1>1. HasFields(st[q]) /\ st[q].prompt = 0
    BY DEF PipelineInv, Arrive, StateOK, Fresh
<1>2. /\ HasFields(s) /\ s.prompt = 0 /\ s.msgs = input[q].msgs /\ s.active = input[q].tools
      /\ s.deferred = input[q].deferred
    BY <1>1 DEF HasFields
<1>3. Set(q, t)
    BY DEF Arrive
<1> HIDE DEF s
<1>4. /\ t.prompt = 0 /\ t.msgs = input[q].msgs /\ t.active = Offered(q)
      /\ t.deferred = IF input[q].mode = "search" THEN input[q].deferred \ names ELSE input[q].deferred
    BY <1>2 DEF PromoteTools, HasFields, Offered
<1> HIDE DEF t
<1>5. /\ IsConversation(input[q].msgs)
      /\ IsFiniteSet(input[q].deferred) /\ input[q].tools \cap input[q].deferred = {}
      /\ ClientsAnswerOnce => AllApart(input[q].msgs)
      /\ RegularClients => Regular(input[q].msgs)
      /\ RegularClients /\ input[q].mode = "search" => MessagesIn(input[q].msgs, Offered(q))
    BY InputTalks
<1>6. IsFiniteSet(t.deferred)
    <2>1. t.deferred \subseteq input[q].deferred
        BY <1>4
    <2> QED BY <2>1, <1>5, FS_Subset
<1>7. t.active \cap t.deferred = {}
    BY <1>4, <1>5 DEF Offered
<1>8. TalkBody(q, t)
    BY <1>4, <1>5, <1>6 DEF TalkBody
<1>9. TalkOK(q, t)
    BY <1>4, <1>7, <1>8 DEF TalkOK
<1> QED BY <1>3, <1>9, SetTalks

\* What the client counts in a payload is a number.
LEMMA PromptCounted ==
    ASSUME NEW system, IsContent(system), NEW msgs, IsConversation(msgs), NEW opts
    PROVE  PromptTokens(BuildPayload(system, msgs, opts)) \in Nat
<1>1. PICK A : MessagesIn(msgs, A) /\ ContentIn(system, A)
    BY ConversationNamed
<1>2. PICK p : p = BuildPayload(system, msgs, opts)
    OBVIOUS
<1>3. msgs # <<>>
    BY DEF IsConversation
<1>4. PayloadIn(p, A)
    BY <1>1, <1>2, <1>3, PayloadAccepted
<1>5. TextIn(HistoryText(p.history), A) /\ TextIn(p.current.text, A) /\ TextIn(ResultText(p.current.results), A)
    BY <1>4, HistoryTextIn, ResultTextIn DEF PayloadIn
<1>6. /\ Len(HistoryText(p.history)) \in Nat /\ Len(p.current.text) \in Nat
      /\ Len(ResultText(p.current.results)) \in Nat
    BY <1>5 DEF TextIn, IsSeq
<1>7. PromptTokens(p) = 1 + Len(HistoryText(p.history)) + Len(p.current.text) + Len(ResultText(p.current.results))
    BY DEF PromptTokens, HistoryText
<1>8. PromptTokens(p) \in Nat
    <2>1. PICK a, b, c : /\ a = Len(HistoryText(p.history)) /\ b = Len(p.current.text)
                         /\ c = Len(ResultText(p.current.results))
        OBVIOUS
    <2>2. a \in Nat /\ b \in Nat /\ c \in Nat /\ PromptTokens(p) = 1 + a + b + c
        BY ONLY <1>6, <1>7, <2>1
    <2>3. 1 + a + b + c \in Nat
        BY ONLY <2>2
    <2> QED BY ONLY <2>2, <2>3
<1> QED BY ONLY <1>2, <1>8

\* A call sends what was said and adds nothing.
LEMMA CallTalks == ASSUME PipelineInv, TalkInv, NEW q \in DOMAIN input, Call(q) PROVE Talks(q)
<1>1. HasFields(st[q]) /\ TalkOK(q, st[q])
    BY DEF PipelineInv, StateOK, TalkInv
<1>2. CASE AttemptFails(q) /\ st[q].attempt < MaxRetries
    <2> DEFINE t == [st[q] EXCEPT !.attempt = @ + 1]
    <2>1. /\ t.pc = st[q].pc /\ t.prompt = st[q].prompt /\ t.msgs = st[q].msgs
          /\ t.active = st[q].active /\ t.deferred = st[q].deferred
        BY <1>1 DEF HasFields
    <2>2. Set(q, t)
        BY <1>2 DEF AttemptFails
    <2> HIDE DEF t
    <2>3. TalkOK(q, t)
        BY <1>1, <2>1, SameTalk DEF TalkOK
    <2> QED BY <2>2, <2>3, SetTalks
<1>3. CASE Fail(q)
    BY <1>3, FailTalks
<1>4. CASE Respond(q)
    <2>1. st[q].pc = "call" /\ TalkBody(q, st[q])
        BY <1>1, <1>4 DEF Respond, TalkOK
    <2>2. PICK prompt, plan :
             /\ prompt = IF input[q].counts THEN PromptTokens(Payload(q)) ELSE 0
             /\ Set(q, [st[q] EXCEPT !.pc = "stream", !.prompt = prompt, !.plan = plan,
                         !.counted = IF Carries(q) THEN Append(@, st[q].round - 1) ELSE @])
        BY <1>4 DEF Respond
    <2> DEFINE t == [st[q] EXCEPT !.pc = "stream", !.prompt = prompt, !.plan = plan,
                         !.counted = IF Carries(q) THEN Append(@, st[q].round - 1) ELSE @]
    <2>3. /\ t.prompt = prompt /\ t.msgs = st[q].msgs
          /\ t.active = st[q].active /\ t.deferred = st[q].deferred
        BY <1>1 DEF HasFields
    <2>4. prompt \in Nat
        BY <2>1, <2>2, InputTalks, PromptCounted DEF Payload, TalkBody
    <2>5. Set(q, t)
        BY <2>2
    <2> HIDE DEF t
    <2>6. TalkOK(q, t)
        BY <1>1, <2>1, <2>3, <2>4, SameTalk DEF TalkOK
    <2> QED BY <2>5, <2>6, SetTalks
<1> QED BY <1>2, <1>3, <1>4 DEF Call, AttemptFails, CallEnds

\* A loop tells the model what its tool returned.
LEMMA LoopTalks ==
    ASSUME PipelineInv, TalkInv, NEW q \in DOMAIN input, Search(q) \/ Think(q) \/ WithheldCall(q)
    PROVE  Talks(q)
<1>1. HasFields(st[q]) /\ TalkOK(q, st[q]) /\ TalkBody(q, st[q])
    BY DEF PipelineInv, StateOK, TalkInv, TalkOK, Search, Think, WithheldCall
<1>2. CASE Search(q)
    <2>1. PICK found, result :
             /\ found \subseteq st[q].deferred
             /\ result = MapSeq(SetToSeq(found), LAMBDA x : Fragment("tool", x))
             /\ Continue(q, [PromoteTools(st[q], found) EXCEPT
                             !.msgs = @ \o Exchange(q, "server_tool_use", result, <<>>),
                             !.seen = Seen(q, TRUE), !.counted = CountsNow(q)])
        BY <1>2 DEF Search, Found
    <2>2. PICK e : e = Exchange(q, "server_tool_use", result, <<>>)
        OBVIOUS
    <2> DEFINE u == PromoteTools(st[q], found)
               s == [u EXCEPT !.msgs = @ \o e, !.seen = Seen(q, TRUE), !.counted = CountsNow(q)]
    <2>3. /\ HasFields(u) /\ u.prompt = st[q].prompt /\ u.msgs = st[q].msgs
          /\ u.active = st[q].active \cup (found \cap st[q].deferred) /\ u.deferred = st[q].deferred \ found
        BY <1>1 DEF PromoteTools, HasFields
    <2> HIDE DEF u
    <2>4. /\ HasFields(s) /\ s.prompt = st[q].prompt /\ s.msgs = st[q].msgs \o e
          /\ s.active = st[q].active \cup found /\ s.deferred = st[q].deferred \ found
        BY <2>1, <2>3 DEF HasFields
    <2>5. Continue(q, s)
        BY <2>1, <2>2 DEF u
    <2> HIDE DEF s
    <2>6. IsFiniteSet(found) /\ IsFiniteSet(s.deferred)
        <3>1. found \subseteq st[q].deferred /\ s.deferred \subseteq st[q].deferred /\ IsFiniteSet(st[q].deferred)
            BY <1>1, <2>1, <2>4 DEF TalkBody
        <3> QED BY <3>1, FS_Subset
    <2>7. TextIn(result, found)
        BY <2>1, <2>6, FoundText
    <2>8. TextIn(result, s.active)
        BY <2>4, <2>7 DEF TextIn
    <2>9. MessagesIn(e, s.active) /\ IsConversation(e) /\ Regular(e) /\ AllApart(e)
        <3>1. PICK more : more = <<>>
            OBVIOUS
        <3>2. DOMAIN more = {}
            BY <3>1
        <3>3. IsSeq(more)
            BY <3>1, SingleIsSeq
        <3>4. ContentIn(more, s.active) /\ \A k \in DOMAIN more : more[k].type = "text"
            BY <3>2, <3>3 DEF ContentIn
        <3> QED BY <3>1, <3>4, <2>2, <2>8, ExchangeIn
    <2>10. TalkBody(q, s)
        BY <1>1, <2>4, <2>6, <2>9, MoreTalk
    <2>11. TalkOK(q, s)
        BY <1>1, <2>4, <2>10 DEF TalkOK
    <2> QED BY <2>4, <2>5, <2>10, <2>11, ContinueTalks
<1>3. CASE Think(q)
    <2>1. PICK text, e :
             /\ e = Exchange(q, "tool_use", OkText, <<TextBlock(ContinueText)>>)
             /\ Continue(q, [st[q] EXCEPT !.msgs = @ \o e, !.preserve = TRUE,
                                       !.seen = Seen(q, text), !.counted = CountsNow(q)])
        BY <1>3 DEF Think
    <2> DEFINE s == [st[q] EXCEPT !.msgs = @ \o e, !.preserve = TRUE,
                                  !.seen = Seen(q, text), !.counted = CountsNow(q)]
    <2>2. /\ HasFields(s) /\ s.prompt = st[q].prompt /\ s.msgs = st[q].msgs \o e
          /\ s.active = st[q].active /\ s.deferred = st[q].deferred
        BY <1>1 DEF HasFields
    <2>3. Continue(q, s)
        BY <2>1
    <2> HIDE DEF s
    <2>4. MessagesIn(e, s.active) /\ IsConversation(e) /\ Regular(e) /\ AllApart(e)
        <3>1. PICK b, more : b = TextBlock(ContinueText) /\ more = <<b>>
            OBVIOUS
        <3>2. BlockIn(b, s.active) /\ b.type = "text"
            <4>1. BlockIn(b, s.active)
                BY <3>1, BlockMade, SyntheticIn
            <4> QED BY <4>1, <3>1 DEF TextBlock, Block
        <3>3. ContentIn(more, s.active)
            BY <3>1, <3>2, ContentOne
        <3>4. \A k \in DOMAIN more : more[k].type = "text"
            BY <3>1, <3>2
        <3> QED BY <3>1, <3>3, <3>4, <2>1, SyntheticIn, ExchangeIn
    <2>5. TalkBody(q, s)
        BY <1>1, <2>2, <2>4, MoreTalk DEF TalkBody
    <2>6. TalkOK(q, s)
        BY <1>1, <2>2, <2>5 DEF TalkOK
    <2> QED BY <2>2, <2>3, <2>5, <2>6, ContinueTalks
<1>4. CASE WithheldCall(q)
    <2>1. PICK e : e = Exchange(q, "tool_use", OkText, <<>>)
        OBVIOUS
    <2> DEFINE u == [st[q] EXCEPT !.msgs = @ \o e]
               s == [u EXCEPT !.retried = TRUE, !.preserve = TRUE, !.withheld = @ \cup {st[q].round}]
    <2>2. /\ HasFields(u) /\ u.prompt = st[q].prompt /\ u.msgs = st[q].msgs \o e
          /\ u.active = st[q].active /\ u.deferred = st[q].deferred
        BY <1>1 DEF HasFields
    <2>3. Continue(q, s) \/ Set(q, SecondRun(q, u)) \/ Fail(q)
        BY <1>4, <2>1 DEF WithheldCall
    <2> HIDE DEF u
    <2>4. /\ HasFields(s) /\ s.prompt = u.prompt /\ s.msgs = u.msgs
          /\ s.active = u.active /\ s.deferred = u.deferred
        BY <2>2 DEF HasFields
    <2> HIDE DEF s
    <2>5. MessagesIn(e, u.active) /\ IsConversation(e) /\ Regular(e) /\ AllApart(e)
        <3>1. PICK more : more = <<>>
            OBVIOUS
        <3>2. DOMAIN more = {}
            BY <3>1
        <3>3. IsSeq(more)
            BY <3>1, SingleIsSeq
        <3>4. ContentIn(more, u.active) /\ \A k \in DOMAIN more : more[k].type = "text"
            BY <3>2, <3>3 DEF ContentIn
        <3> QED BY <3>1, <3>4, <2>1, SyntheticIn, ExchangeIn
    <2>6. TalkBody(q, u)
        BY <1>1, <2>2, <2>5, MoreTalk DEF TalkBody
    <2>7. TalkOK(q, u) /\ TalkOK(q, s) /\ TalkBody(q, s)
        BY <1>1, <2>2, <2>4, <2>6, SameTalk DEF TalkOK
    <2> QED BY <2>2, <2>3, <2>4, <2>6, <2>7, ContinueTalks, SecondRunTalks, FailTalks
<1> QED BY <1>2, <1>3, <1>4

\* The end of an answer adds nothing.
LEMMA FinishTalks ==
    ASSUME PipelineInv, TalkInv, NEW q \in DOMAIN input,
           Answer(q) \/ AnswerEmpty(q) \/ PlanLate(q) \/ FinishLate(q)
    PROVE  Talks(q)
<1>1. HasFields(st[q]) /\ TalkOK(q, st[q]) /\ TalkBody(q, st[q])
    BY DEF PipelineInv, StateOK, TalkInv, TalkOK, Answer, AnswerEmpty, PlanLate, FinishLate
<1>2. CASE AnswerAndCommit(q, st[q])
    BY <1>2, AnswerTalks
<1>3. CASE EmptyAnswer(q, st[q])
    BY <1>1, <1>3, EmptyAnswerTalks
<1>4. CASE PlanLate(q)
    <2>1. PICK plan : Set(q, [st[q] EXCEPT !.pc = "finish", !.plan = plan])
        BY <1>4 DEF PlanLate
    <2> DEFINE t == [st[q] EXCEPT !.pc = "finish", !.plan = plan]
    <2>2. /\ t.prompt = st[q].prompt /\ t.msgs = st[q].msgs
          /\ t.active = st[q].active /\ t.deferred = st[q].deferred
        BY <1>1 DEF HasFields
    <2>3. Set(q, t)
        BY <2>1
    <2> HIDE DEF t
    <2>4. TalkOK(q, t)
        BY <1>1, <2>2, SameTalk DEF TalkOK
    <2> QED BY <2>3, <2>4, SetTalks
<1> QED BY <1>2, <1>3, <1>4 DEF Answer, AnswerEmpty, FinishLate

\* Every request's conversation stays in order, whoever else moves.
LEMMA TalkPreserved == ASSUME PipelineInv, TalkInv, [Next]_vars PROVE TalkInv'
<1>1. input' = input
    BY PipelineStep
<1>2. ASSUME NEW q, NEW s, TalkOK(q, s)
      PROVE  TalkOK(q, s)'
    BY <1>1, <1>2 DEF TalkOK, TalkBody
<1>3. ASSUME NEW q \in DOMAIN input, Talks(q)
      PROVE  TalkInv'
    <2>1. PICK s : st' = [st EXCEPT ![q] = s] /\ TalkOK(q, s)
        BY <1>3 DEF Talks
    <2>2. \A r \in DOMAIN input : st'[r] = IF r = q THEN s ELSE st[r]
        BY <2>1, InputsOK DEF PipelineInv
    <2>3. ASSUME NEW r \in DOMAIN input PROVE TalkOK(r, st[r])'
        <3>1. PICK t : t = st'[r]
            OBVIOUS
        <3>2. TalkOK(r, t)
            BY <3>1, <2>1, <2>2 DEF TalkInv
        <3>3. TalkOK(r, t)'
            BY <3>2, <1>2
        <3> QED BY <3>1, <3>3 DEF TalkOK, TalkBody
    <2> QED BY <1>1, <2>3 DEF TalkInv
<1>4. CASE \E q \in DOMAIN input : Arrive(q) \/ Call(q) \/ EndOfAnswer(q)
    BY <1>3, <1>4, ArriveTalks, CallTalks, LoopTalks, FinishTalks DEF EndOfAnswer
<1>5. CASE st' = st
    BY <1>1, <1>2, <1>5 DEF TalkInv, TalkOK, TalkBody
<1> QED BY <1>4, <1>5 DEF Next, Tick, Janitor, vars

\* The invariant of the conversations: what a request has said so far is a
\* conversation, each tool is offered or deferred but never both, and what was
\* named by a search is offered.
THEOREM TalkInvariant == Spec => []TalkInv
<1>1. Init => TalkInv
    <2> SUFFICES ASSUME Init, NEW q \in DOMAIN input PROVE TalkOK(q, st[q])
        BY DEF TalkInv
    <2>1. q \in Requests
        BY PipelineAssumption DEF Init
    <2>2. st[q] = Fresh
        BY <2>1 DEF Init
    <2>3. Fresh.pc = "new" /\ Fresh.prompt = 0 /\ Fresh.active = {} /\ Fresh.deferred = {}
        BY DEF Fresh
    <2> QED BY <2>2, <2>3 DEF TalkOK
<1>2. PipelineInv /\ TalkInv /\ [Next]_vars => TalkInv'
    BY TalkPreserved
<1> QED BY <1>1, <1>2, PipelineInvariant, PTL DEF Spec

\* However often the loops of regular clients' requests go on, and whatever the
\* other requests do, the upstream is sent a payload that it accepts, and one
\* that offers each tool it speaks of.
THEOREM PayloadsWellFormed ==
    RegularClients /\ SystemMode # "noack" => (Spec => []PayloadWellFormed)
<1>1. ASSUME RegularClients, SystemMode # "noack", PipelineInv, TalkInv, NEW q \in DOMAIN input, st[q].pc = "call"
      PROVE  /\ WellFormed(Payload(q))
             /\ input[q].mode = "search" => ToolsNamed(Payload(q)) \subseteq Payload(q).current.tools
    <2>1. PICK p, opts : /\ p = Payload(q) /\ p = BuildPayload(input[q].system, st[q].msgs, opts)
                         /\ opts.tools = st[q].active \cup OwnTool(q)
        BY DEF Payload
    <2>2. TalkBody(q, st[q])
        BY <1>1 DEF TalkInv, TalkOK
    <2>3. IsConversation(st[q].msgs) /\ st[q].msgs # <<>> /\ Regular(st[q].msgs) /\ IsContent(input[q].system)
        BY <1>1, <2>2, InputTalks DEF TalkBody, IsConversation
    <2>4. WellFormed(p)
        <3>1. PICK A : MessagesIn(st[q].msgs, A) /\ ContentIn(input[q].system, A)
            BY <2>3, ConversationNamed
        <3> QED BY <3>1, <2>1, <2>3, <1>1, PayloadAccepted
    <2>5. ASSUME input[q].mode = "search" PROVE ToolsNamed(p) \subseteq p.current.tools
        <3>1. PICK A : A = st[q].active
            OBVIOUS
        <3>2. MessagesIn(st[q].msgs, A)
            BY <1>1, <2>2, <2>5, <3>1 DEF TalkBody
        <3>3. ContentIn(input[q].system, A)
            <4>1. ContentIn(input[q].system, {})
                BY <1>1, InputTalks
            <4> QED BY <4>1 DEF ContentIn, BlockIn, TextIn
        <3>4. PayloadIn(p, A) /\ p.current.tools = opts.tools
            BY <3>2, <3>3, <2>1, <2>3, PayloadAccepted
        <3>5. TextIn(HistoryText(p.history), A) /\ TextIn(p.current.text, A) /\ TextIn(ResultText(p.current.results), A)
            BY <3>4, HistoryTextIn, ResultTextIn DEF PayloadIn
        <3>6. PICK h, c, r : h = HistoryText(p.history) /\ c = p.current.text /\ r = ResultText(p.current.results)
            OBVIOUS
        <3>7. TextIn(h \o c \o r, A)
            BY <3>5, <3>6, TextConcat
        <3>8. ToolsNamed(p) = ToolNames(h \o c \o r)
            BY <3>6 DEF ToolsNamed, HistoryText
        <3>9. ToolNames(h \o c \o r) \subseteq A
            BY <3>7, TextNames DEF TextIn
        <3> QED BY <3>1, <3>4, <3>8, <3>9, <2>1
    <2> QED BY <2>1, <2>4, <2>5
<1>2. RegularClients /\ SystemMode # "noack" => (PipelineInv /\ TalkInv => PayloadWellFormed)
    BY <1>1 DEF PayloadWellFormed
<1>3. CASE RegularClients /\ SystemMode # "noack"
    <2>1. PipelineInv /\ TalkInv => PayloadWellFormed
        BY <1>2, <1>3
    <2> QED BY <2>1, PipelineInvariant, TalkInvariant, PTL
<1> QED BY <1>3

\* However often the loops go on, and whatever the system prompt's mode: nothing
\* that a client wrote, that a tool returned or that a loop added is lost on the
\* way to the upstream, said by the other side or out of order, and nothing else
\* is said but the system prompt.
THEOREM PlacesStay == ClientsAnswerOnce => (Spec => []PlacesKept)
<1>1. ASSUME ClientsAnswerOnce, PipelineInv, TalkInv, NEW q \in DOMAIN input, st[q].pc = "call"
      PROVE  KeepsPlaces(input[q].system, st[q].msgs, Payload(q))
    <2>1. PICK p, opts : p = Payload(q) /\ p = BuildPayload(input[q].system, st[q].msgs, opts)
        BY DEF Payload
    <2>2. TalkBody(q, st[q])
        BY <1>1 DEF TalkInv, TalkOK
    <2>3. IsConversation(st[q].msgs) /\ AllApart(st[q].msgs) /\ IsContent(input[q].system)
        BY <1>1, <2>2, InputTalks DEF TalkBody
    <2> QED BY <2>1, <2>3, NothingLost
<1>2. ClientsAnswerOnce => (PipelineInv /\ TalkInv => PlacesKept)
    BY <1>1 DEF PlacesKept
<1>3. CASE ClientsAnswerOnce
    <2>1. PipelineInv /\ TalkInv => PlacesKept
        BY <1>2, <1>3
    <2> QED BY <2>1, PipelineInvariant, TalkInvariant, PTL
<1> QED BY <1>3
----------------------------------------------------------------------------
(* The profile of a request *)

\* A block that counts tokens and knows its lifetime.
CacheBlockOK(b) == b.tokens \in Nat \ {0} /\ b.ttl \in {0, DefaultTTL, HourTTL}

CacheBlocksOK(bs) == IsSeq(bs) /\ \A n \in DOMAIN bs : CacheBlockOK(bs[n])

\* CacheBlock makes such a block of every block.
LEMMA CacheBlockMade ==
    ASSUME NEW kind, NEW b, IsSeq(b.text) PROVE CacheBlockOK(CacheBlock(kind, b))
<1>1. Len(b.text) \in Nat
    BY SeqFacts
<1>2. PICK c : c = CacheBlock(kind, b)
    OBVIOUS
<1>3. c.tokens = 1 + Len(b.text) /\ c.ttl = PromptCacheTTL(b)
    BY <1>2 DEF CacheBlock
<1>4. PromptCacheTTL(b) \in {0, DefaultTTL, HourTTL}
    BY DEF PromptCacheTTL
<1> QED BY <1>1, <1>2, <1>3, <1>4 DEF CacheBlockOK

\* The same for what is put together.
LEMMA CacheBlocksConcat ==
    ASSUME NEW s, NEW t, CacheBlocksOK(s), CacheBlocksOK(t) PROVE CacheBlocksOK(s \o t)
<1>1. PICK w : PutBefore(w, s, t)
    BY DEF PutBefore
<1>2. /\ IsSeq(w)
      /\ \A i \in DOMAIN w : (\E j \in DOMAIN s : w[i] = s[j]) \/ (\E j \in DOMAIN t : w[i] = t[j])
    BY <1>1, ConcatFrom DEF CacheBlocksOK
<1>3. CacheBlocksOK(w)
    BY <1>2 DEF CacheBlocksOK
<1> QED BY <1>1, <1>3 DEF PutBefore

\* The blocks of one part of a request.
LEMMA CacheBlocksOf ==
    ASSUME NEW kind, NEW blocks, IsContent(blocks) PROVE CacheBlocksOK(CacheBlocks(kind, blocks))
<1> DEFINE I == {n \in DOMAIN blocks : ~IsBillingHeaderBlock(blocks[n])}
           r == At(blocks, I)
           c == [n \in DOMAIN r |-> CacheBlock(kind, r[n])]
<1>1. CacheBlocks(kind, blocks) = c
    BY DEF CacheBlocks, Keep, MapSeq
<1>2. I \subseteq DOMAIN blocks /\ IsSeq(blocks)
    BY DEF IsContent
<1> HIDE DEF I
<1>3. IsSeq(r) /\ \A k \in DOMAIN r : \E i \in I : r[k] = blocks[i]
    BY <1>2, AtFacts
<1> HIDE DEF r
<1>4. c = [n \in DOMAIN r |-> c[n]] /\ \A n \in DOMAIN r : c[n] = CacheBlock(kind, r[n])
    OBVIOUS
<1> HIDE DEF c
<1>5. IsSeq(c) /\ DOMAIN c = DOMAIN r
    BY <1>3, <1>4, MapIsSeq
<1>6. ASSUME NEW n \in DOMAIN r PROVE CacheBlockOK(c[n])
    <2>1. IsSeq(r[n].text)
        BY <1>2, <1>3, <1>6 DEF IsContent
    <2> QED BY <2>1, <1>4, <1>6, CacheBlockMade
<1> QED BY <1>1, <1>5, <1>6 DEF CacheBlocksOK

\* Texts after each other: what holds of the blocks of each holds of all.
LEMMA CacheBlocksFlatten ==
    ASSUME NEW ss, IsSeq(ss), \A i \in DOMAIN ss : CacheBlocksOK(ss[i])
    PROVE  CacheBlocksOK(FlattenSeq(ss))
<1>1. \A i \in DOMAIN ss : IsSeq(ss[i])
    BY DEF CacheBlocksOK
<1>2. Covers(FlattenSeq(ss), ss, Len(ss)) /\ IsSeq(FlattenSeq(ss))
    BY <1>1, FlattenCovers
<1> QED BY <1>2 DEF CacheBlocksOK, Covers

ReqOK(req) == IsContent(req.toolBlocks) /\ IsContent(req.system) /\ IsConversation(req.msgs)

\* FlattenCacheBlocks: a request has at least its prelude.
LEMMA FlattenedOK ==
    ASSUME NEW req, ReqOK(req)
    PROVE  CacheBlocksOK(FlattenCacheBlocks(req)) /\ FlattenCacheBlocks(req) # <<>>
<1> DEFINE ss == [n \in DOMAIN req.msgs |-> CacheBlocks(req.msgs[n].role, req.msgs[n].blocks)]
<1>1. PICK b, p, t, s, f : /\ b = CacheBlock("request_prelude", Block("model", req.scope.model, <<>>))
                        /\ p = <<b>> /\ t = CacheBlocks("tool", req.toolBlocks)
                        /\ s = CacheBlocks("system", req.system) /\ f = FlattenSeq(ss)
    OBVIOUS
<1>2. FlattenCacheBlocks(req) = p \o t \o s \o f
    BY <1>1 DEF FlattenCacheBlocks, MapSeq
<1>3. ss = [n \in DOMAIN req.msgs |-> ss[n]]
      /\ \A n \in DOMAIN req.msgs : ss[n] = CacheBlocks(req.msgs[n].role, req.msgs[n].blocks)
    OBVIOUS
<1> HIDE DEF ss
<1>4. IsSeq(ss) /\ DOMAIN ss = DOMAIN req.msgs
    BY <1>3, MapIsSeq DEF ReqOK, IsConversation
<1>5. CacheBlocksOK(f)
    <2>1. ASSUME NEW n \in DOMAIN ss PROVE CacheBlocksOK(ss[n])
        BY <2>1, <1>3, <1>4, CacheBlocksOf DEF ReqOK, IsConversation
    <2> QED BY <2>1, <1>1, <1>4, CacheBlocksFlatten
<1>6. CacheBlocksOK(t) /\ CacheBlocksOK(s)
    BY <1>1, CacheBlocksOf DEF ReqOK
<1>7. CacheBlockOK(b)
    <2>1. PICK x, e : e = <<>> /\ x = Block("model", req.scope.model, e)
        OBVIOUS
    <2>2. x.text = e
        BY <2>1 DEF Block
    <2>3. IsSeq(e)
        BY <2>1, SingleIsSeq
    <2> QED BY <1>1, <2>1, <2>2, <2>3, CacheBlockMade
<1>8. IsSeq(p)
    BY <1>1, SingleIsSeq
<1>9. DOMAIN p = {1} /\ p[1] = b /\ p # <<>> /\ Len(p) = 1
    BY <1>1
<1>10. CacheBlocksOK(p)
    BY <1>7, <1>8, <1>9 DEF CacheBlocksOK
<1>11. PICK pt : pt = p \o t
    OBVIOUS
<1>12. PICK pts : pts = pt \o s
    OBVIOUS
<1>13. CacheBlocksOK(pt) /\ pt # <<>>
    BY <1>6, <1>9, <1>10, <1>11, CacheBlocksConcat, ConcatFrom DEF CacheBlocksOK, PutBefore
<1>14. CacheBlocksOK(pts) /\ pts # <<>>
    BY <1>6, <1>12, <1>13, CacheBlocksConcat, ConcatFrom DEF CacheBlocksOK, PutBefore
<1>15. CacheBlocksOK(pts \o f) /\ pts \o f # <<>>
    BY <1>5, <1>14, CacheBlocksConcat, ConcatFrom DEF CacheBlocksOK, PutBefore
<1> QED BY <1>2, <1>11, <1>12, <1>15

\* The sums count on from block to block.
LEMMA SumsExist ==
    ASSUME NEW bs, CacheBlocksOK(bs), NEW f, f = CumulativeTokens(bs)
    PROVE  /\ DOMAIN f = DOMAIN bs /\ IsSeq(f) /\ Len(f) = Len(bs)
           /\ \A n \in DOMAIN bs : f[n] \in Nat \ {0}
<1>1. Len(bs) \in Nat /\ DOMAIN bs = 1..Len(bs)
    BY SeqFacts DEF CacheBlocksOK
<1> DEFINE Step(g, n) == bs[n].tokens + (IF n = 1 THEN 0 ELSE g[n - 1])
           T == {n \in Nat : \E g : \A i \in 1..n : g[i] = Step(g, i)}
<1>2. 0 \in T
    OBVIOUS
<1>3. ASSUME NEW n \in T PROVE n + 1 \in T
    <2>1. PICK g : \A i \in 1..n : g[i] = Step(g, i)
        OBVIOUS
    <2>2. n \in Nat
        OBVIOUS
    <2> DEFINE h == [i \in 1..(n + 1) |-> IF i = n + 1 THEN Step(g, i) ELSE g[i]]
    <2>3. \A i \in 1..(n + 1) : h[i] = Step(h, i)
        <3> SUFFICES ASSUME NEW i \in 1..(n + 1) PROVE h[i] = Step(h, i)
            OBVIOUS
        <3>1. i # 1 => h[i - 1] = g[i - 1]
            BY <2>2
        <3>2. h[i] = Step(g, i)
            BY <2>1, <2>2
        <3> QED BY <3>1, <3>2
    <2> HIDE DEF h
    <2> QED BY <2>2, <2>3
<1>4. T = Nat
    <2>1. T \in SUBSET Nat
        OBVIOUS
    <2> HIDE DEF T
    <2> QED BY <2>1, <1>2, <1>3, SetInduction
<1>5. PICK e : \A i \in 1..Len(bs) : e[i] = Step(e, i)
    BY <1>1, <1>4
<1> DEFINE Recursion(g) == g = [n \in DOMAIN bs |-> bs[n].tokens + (IF n = 1 THEN 0 ELSE g[n - 1])]
<1>6. \E g : Recursion(g)
    <2> DEFINE g == [i \in DOMAIN bs |-> e[i]]
    <2>1. Recursion(g)
        BY <1>1, <1>5
    <2> QED BY <2>1
<1>7. f = CHOOSE g : Recursion(g)
    BY DEF CumulativeTokens
<1>8. Recursion(f)
    BY <1>6, <1>7
<1>9. /\ DOMAIN f = 1..Len(bs)
      /\ \A n \in 1..Len(bs) : f[n] = bs[n].tokens + (IF n = 1 THEN 0 ELSE f[n - 1])
    BY <1>8, <1>1
<1>10. f = [n \in DOMAIN f |-> f[n]]
    BY <1>8
<1>11. IsSeq(f) /\ Len(f) = Len(bs)
    BY <1>1, <1>9, <1>10, FunctionIsSeq
<1> DEFINE P == {n \in Nat : n \in 1..Len(bs) => f[n] \in Nat \ {0}}
<1>12. P = Nat
    <2>1. 0 \in P
        OBVIOUS
    <2>2. ASSUME NEW n \in P PROVE n + 1 \in P
        <3> SUFFICES ASSUME n + 1 \in 1..Len(bs) PROVE f[n + 1] \in Nat \ {0}
            OBVIOUS
        <3>1. bs[n + 1].tokens \in Nat \ {0}
            BY <1>1 DEF CacheBlocksOK, CacheBlockOK
        <3>2. f[n + 1] = bs[n + 1].tokens + (IF n + 1 = 1 THEN 0 ELSE f[n])
            BY <1>9
        <3>3. n + 1 # 1 => f[n] \in Nat \ {0}
            BY <1>1
        <3> QED BY <3>1, <3>2, <3>3
    <2>3. P \in SUBSET Nat
        OBVIOUS
    <2> HIDE DEF P
    <2> QED BY <2>1, <2>2, <2>3, SetInduction
<1>13. \A n \in DOMAIN bs : f[n] \in Nat \ {0}
    BY <1>1, <1>12
<1> QED BY <1>1, <1>9, <1>11, <1>13

\* What the tracker can work with.
ProfileOK(prof) ==
    /\ prof.ok \in BOOLEAN
    /\ prof.ok => /\ IsSeq(prof.fps) /\ IsSeq(prof.sums) /\ Len(prof.sums) = Len(prof.fps)
                  /\ prof.fps # <<>>
                  /\ \A n \in DOMAIN prof.fps : Len(prof.fps[n]) = n /\ prof.sums[n] \in Nat \ {0}
                  /\ prof.total \in Nat /\ prof.ttl \in {DefaultTTL, HourTTL}

\* BuildProfile makes one of every request.
LEMMA ProfileMade ==
    ASSUME NEW req, ReqOK(req), NEW totalInput \in Nat, NEW synthesize
    PROVE  ProfileOK(BuildProfile(req, totalInput, synthesize))
<1>1. PICK bs, sums, prof : /\ bs = FlattenCacheBlocks(req) /\ sums = CumulativeTokens(bs)
                            /\ prof = BuildProfile(req, totalInput, synthesize)
    OBVIOUS
<1> DEFINE I == {n \in DOMAIN bs : bs[n].ttl > 0}
           marked == At(bs, I)
           fps == [n \in DOMAIN bs |-> MapSeq(SubSeq(bs, 1, n), LAMBDA b : b.value)]
           total == Max2(totalInput, Last(sums))
           ttl == IF marked = <<>> THEN DefaultTTL ELSE Last(marked).ttl
<1>2. prof = IF marked = <<>> /\ ~synthesize THEN NoProfile
             ELSE [ok |-> TRUE, fps |-> fps, sums |-> sums, total |-> total, ttl |-> ttl]
    BY <1>1 DEF BuildProfile, Keep
<1>3. CacheBlocksOK(bs) /\ bs # <<>> /\ IsSeq(bs)
    BY <1>1, FlattenedOK DEF CacheBlocksOK
<1>4. Len(bs) \in Nat \ {0} /\ DOMAIN bs = 1..Len(bs)
    BY <1>3, SeqFacts
<1>5. /\ DOMAIN sums = DOMAIN bs /\ IsSeq(sums) /\ Len(sums) = Len(bs)
      /\ \A n \in DOMAIN bs : sums[n] \in Nat \ {0}
    BY <1>1, <1>3, SumsExist
<1>6. total \in Nat
    <2>1. Last(sums) = sums[Len(sums)]
        BY DEF Last
    <2>2. Last(sums) \in Nat
        BY <2>1, <1>4, <1>5
    <2> QED BY <2>2 DEF Max2
<1>7. ttl \in {DefaultTTL, HourTTL}
    <2>1. I \subseteq DOMAIN bs /\ \A i \in I : bs[i].ttl > 0
        OBVIOUS
    <2> HIDE DEF I
    <2>2. IsSeq(marked) /\ \A k \in DOMAIN marked : \E i \in I : marked[k] = bs[i]
        BY <1>3, <2>1, AtFacts
    <2> HIDE DEF marked
    <2>3. CASE marked # <<>>
        <3>1. Len(marked) \in DOMAIN marked /\ Last(marked) = marked[Len(marked)]
            BY <2>2, <2>3, FrontFacts
        <3>2. PICK i \in I : Last(marked) = bs[i]
            BY <3>1, <2>2
        <3>3. Last(marked).ttl > 0 /\ Last(marked).ttl \in {0, DefaultTTL, HourTTL}
            BY <3>2, <2>1, <1>3 DEF CacheBlocksOK, CacheBlockOK
        <3> QED BY <3>3, <2>3
    <2> QED BY <2>3
<1>8. IsSeq(fps) /\ DOMAIN fps = DOMAIN bs /\ Len(fps) = Len(bs)
    <2>1. fps = [n \in DOMAIN bs |-> fps[n]]
        OBVIOUS
    <2> HIDE DEF fps
    <2> QED BY <2>1, <1>3, MapIsSeq
<1>9. ASSUME NEW n \in DOMAIN bs PROVE Len(fps[n]) = n
    <2>1. PICK s : s = SubSeq(bs, 1, n)
        OBVIOUS
    <2>2. IsSeq(s) /\ Len(s) = n
        BY <1>3, <1>4, <2>1, SubSeqIsSeq
    <2> DEFINE t == [k \in DOMAIN s |-> s[k].value]
    <2>3. fps[n] = t
        BY <2>1 DEF MapSeq
    <2>4. t = [k \in DOMAIN s |-> t[k]]
        OBVIOUS
    <2> HIDE DEF t, fps
    <2> QED BY <2>2, <2>3, <2>4, MapIsSeq
<1>10. fps # <<>>
    <2> HIDE DEF fps
    <2> QED BY <1>4, <1>8, SeqFacts
<1> HIDE DEF fps, marked, total, ttl
<1>11. CASE prof = NoProfile
    BY <1>1, <1>11 DEF NoProfile, ProfileOK
<1>12. CASE prof = [ok |-> TRUE, fps |-> fps, sums |-> sums, total |-> total, ttl |-> ttl]
    <2>1. prof.ok = TRUE /\ prof.fps = fps /\ prof.sums = sums /\ prof.total = total /\ prof.ttl = ttl
        BY <1>12
    <2> QED BY <2>1, <1>1, <1>5, <1>6, <1>7, <1>8, <1>9, <1>10 DEF ProfileOK
<1> QED BY <1>2, <1>11, <1>12

\* The numbers of a profile.
LEMMA MinMax ==
    ASSUME NEW a \in Int, NEW b \in Int
    PROVE  /\ Min2(a, b) \in {a, b} /\ Min2(a, b) <= a /\ Min2(a, b) <= b
           /\ Max2(a, b) \in {a, b} /\ a <= Max2(a, b) /\ b <= Max2(a, b)
BY DEF Min2, Max2

\* Percentages of tokens are tokens.
LEMMA PercentNat == ASSUME NEW n \in Nat, NEW p \in Nat PROVE PercentOf(n, p) \in Nat
<1>1. PICK m : m = 2 * n * p
    OBVIOUS
<1>2. m \in Nat
    BY <1>1
<1>3. (m + 100) \div 200 \in Nat
    BY <1>2
<1> QED BY <1>1, <1>3 DEF PercentOf

\* effectiveCacheReadRatio is never negative.
LEMMA EffectiveRatioNat ==
    ASSUME NEW prof, NEW ratio \in Nat PROVE EffectiveRatio(prof, ratio) \in Nat
<1> DEFINE low == Max2(Min2(ratio, 99) - 3, 0)
           high == Min2(Min2(ratio, 99) + 3, 99)
<1>1. low \in Nat /\ high \in Nat
    BY DEF Min2, Max2
<1>2. PICK u : u = DeterministicRatioUnit(Last(prof.fps)) /\ u \in Nat
    BY DEF DeterministicRatioUnit
<1>3. EffectiveRatio(prof, ratio) = IF ratio <= 0 THEN 0 ELSE IF high <= low THEN low
                                    ELSE low + (u * (high - low)) \div 100
    BY <1>2 DEF EffectiveRatio, Spread
<1> HIDE DEF low, high
<1>4. ASSUME ~(high <= low) PROVE low + (u * (high - low)) \div 100 \in Nat
    <2>1. PICK d : d = high - low /\ d \in Nat
        BY <1>1, <1>4
    <2>2. PICK m : m = u * d /\ m \in Nat
        BY <2>1, <1>2
    <2>3. m \div 100 \in Nat
        BY <2>2
    <2> QED BY <1>1, <2>1, <2>2, <2>3
<1> QED BY <1>1, <1>3, <1>4

\* targetCacheTokens: nothing, or at least the minimum.
LEMMA TargetNat ==
    ASSUME NEW prof, ProfileOK(prof), prof.ok, NEW ratio \in Nat
    PROVE  /\ TargetCacheTokens(prof, ratio) \in Nat
           /\ TargetCacheTokens(prof, ratio) > 0 => TargetCacheTokens(prof, ratio) >= MinTokens
<1>1. PICK t, e : t = prof.total /\ e = EffectiveRatio(prof, ratio)
    OBVIOUS
<1>2. t \in Nat /\ e \in Nat
    BY <1>1, EffectiveRatioNat DEF ProfileOK
<1>3. PICK m : m = PercentOf(t, e) /\ m \in Nat
    BY <1>2, PercentNat
<1>4. TargetCacheTokens(prof, ratio) = IF t <= 1 \/ Min2(m, t - 1) < MinTokens THEN 0 ELSE Min2(m, t - 1)
    BY <1>1, <1>3 DEF TargetCacheTokens
<1> QED BY <1>2, <1>3, <1>4, PromptCacheAssumption DEF Min2
----------------------------------------------------------------------------
(* The entries *)

EntryTyped(e) ==
    /\ DOMAIN e = {"expires", "ttl", "cached"}
    /\ e.expires \in Nat /\ e.ttl \in {DefaultTTL, HourTTL}
    /\ e.cached \in Nat /\ e.cached >= MinTokens

\* The entries of fs are entries of es.
PartOf(fs, es) == DOMAIN fs \subseteq DOMAIN es /\ \A k \in DOMAIN fs : fs[k] = es[k]

Bounded(es) ==
    /\ IsFiniteSet(DOMAIN es)
    /\ Cardinality(DOMAIN es) <= MaxEntries
    /\ Cardinality(ScopesOf(es)) <= MaxScopes

\* The invariant of the tracker: the entries are those of the ledger that are
\* not yet pruned or evicted, and the limits hold.
CacheInv ==
    /\ now \in Nat /\ lastPrune \in -1..now /\ evicted \in BOOLEAN
    /\ \A k \in DOMAIN ledger : EntryTyped(ledger[k])
    /\ PartOf(entries, ledger)
    /\ ~evicted => \A k \in DOMAIN ledger : Live(ledger[k]) => k \in DOMAIN entries
    /\ Bounded(entries)

\* Finitely many entries have finitely many scopes.
LEMMA ScopesFinite ==
    ASSUME NEW es, IsFiniteSet(DOMAIN es) PROVE IsFiniteSet(ScopesOf(es))
<1> DEFINE f == [k \in DOMAIN es |-> k.scope]
<1>1. f \in Surjection(DOMAIN es, ScopesOf(es))
    BY DEF Surjection, ScopesOf
<1> HIDE DEF f
<1> QED BY <1>1, FS_Surjection

\* Fewer entries stay within the limits.
LEMMA FewerBounded ==
    ASSUME NEW es, Bounded(es), NEW fs, DOMAIN fs \subseteq DOMAIN es PROVE Bounded(fs)
<1>1. IsFiniteSet(DOMAIN es) /\ IsFiniteSet(ScopesOf(es))
    BY ScopesFinite DEF Bounded
<1>2. ScopesOf(fs) \subseteq ScopesOf(es)
    BY DEF ScopesOf
<1>3. IsFiniteSet(DOMAIN fs) /\ Cardinality(DOMAIN fs) <= Cardinality(DOMAIN es)
    BY <1>1, FS_Subset
<1>4. IsFiniteSet(ScopesOf(fs)) /\ Cardinality(ScopesOf(fs)) <= Cardinality(ScopesOf(es))
    BY <1>1, <1>2, FS_Subset
<1>5. /\ Cardinality(DOMAIN fs) \in Nat /\ Cardinality(DOMAIN es) \in Nat
      /\ Cardinality(ScopesOf(fs)) \in Nat /\ Cardinality(ScopesOf(es)) \in Nat
    BY <1>1, <1>3, <1>4, FS_CardinalityType
<1> QED BY <1>3, <1>4, <1>5, PromptCacheAssumption DEF Bounded

\* Pruning keeps what lives.
LEMMA PruneFacts ==
    ASSUME NEW es
    PROVE  PartOf(PruneExpired(es), es) /\ \A k \in DOMAIN es : Live(es[k]) => k \in DOMAIN PruneExpired(es)
BY DEF PruneExpired, Only, PartOf

\* The same where a prune may not be due.
LEMMA PrunedFacts ==
    PartOf(PrunedIfDue, entries) /\ \A k \in DOMAIN entries : Live(entries[k]) => k \in DOMAIN PrunedIfDue
<1>1. CASE PruneDue
    BY <1>1, PruneFacts DEF PrunedIfDue
<1>2. CASE ~PruneDue
    BY <1>2 DEF PrunedIfDue, PartOf
<1> QED BY <1>1, <1>2

\* A limit removes as many as are over it.
LEMMA RemovedOver ==
    ASSUME NEW S, IsFiniteSet(S), NEW max \in Nat, NEW gone, gone \subseteq S,
           Cardinality(S) > max => Cardinality(gone) = Cardinality(S) - max
    PROVE  Cardinality(S \ gone) <= max
<1>1. /\ IsFiniteSet(S \ gone) /\ Cardinality(S \ gone) = Cardinality(S) - Cardinality(S \cap gone)
    BY FS_Difference
<1>2. S \cap gone = gone /\ IsFiniteSet(gone)
    BY FS_Subset
<1>3. Cardinality(S) \in Nat /\ Cardinality(gone) \in Nat
    BY <1>2, FS_CardinalityType
<1> QED BY <1>1, <1>2, <1>3

\* A selection is part of the entries.
LEMMA OnlyFacts ==
    ASSUME NEW es, NEW keys PROVE DOMAIN Only(es, keys) = keys /\ \A k \in keys : Only(es, keys)[k] = es[k]
BY DEF Only

\* enforceLimitsLocked: the limits hold, and nothing is made up.
LEMMA EnforcedFacts ==
    ASSUME NEW es, IsFiniteSet(DOMAIN es), NEW r \in EnforceLimits(es)
    PROVE  PartOf(r, es) /\ Bounded(r) /\ (Bounded(es) => DOMAIN r = DOMAIN es)
<1> DEFINE over(S, max) == IF Cardinality(S) > max THEN {T \in SUBSET S : Cardinality(T) = Cardinality(S) - max} ELSE {{}}
           scopes == IF Cardinality(ScopesOf(es)) > MaxScopes
                     THEN FirstOf(ScopesOf(es), Cardinality(ScopesOf(es)) - MaxScopes,
                                  LAMBDA s : EarliestExpiry(es, s))
                     ELSE {{}}
           single(fs) == IF Cardinality(DOMAIN fs) > MaxEntries
                         THEN FirstOf(DOMAIN fs, Cardinality(DOMAIN fs) - MaxEntries, LAMBDA k : fs[k].expires)
                         ELSE {{}}
           byScope == {Only(es, {k \in DOMAIN es : k.scope \notin g}) : g \in scopes}
<1>a. EnforceLimits(es) = UNION {{Only(fs, DOMAIN fs \ g) : g \in single(fs)} : fs \in byScope}
    BY DEF EnforceLimits
<1>b. scopes \subseteq over(ScopesOf(es), MaxScopes)
    BY DEF FirstOf, kSubset
<1>c. ASSUME NEW fs PROVE single(fs) \subseteq over(DOMAIN fs, MaxEntries)
    BY DEF FirstOf, kSubset
<1> HIDE DEF scopes, single
<1>d. PICK fs \in byScope : r \in {Only(fs, DOMAIN fs \ g) : g \in single(fs)}
    BY <1>a
<1>e. PICK gone \in scopes : fs = Only(es, {k \in DOMAIN es : k.scope \notin gone})
    BY <1>d
<1>f. PICK keys \in single(fs) : r = Only(fs, DOMAIN fs \ keys)
    BY <1>d
<1>g. gone \in over(ScopesOf(es), MaxScopes) /\ keys \in over(DOMAIN fs, MaxEntries)
    BY <1>b, <1>c, <1>e, <1>f
<1>1. /\ gone \subseteq ScopesOf(es)
      /\ Cardinality(ScopesOf(es)) > MaxScopes => Cardinality(gone) = Cardinality(ScopesOf(es)) - MaxScopes
      /\ ~(Cardinality(ScopesOf(es)) > MaxScopes) => gone = {}
      /\ fs = Only(es, {k \in DOMAIN es : k.scope \notin gone})
      /\ keys \subseteq DOMAIN fs
      /\ Cardinality(DOMAIN fs) > MaxEntries => Cardinality(keys) = Cardinality(DOMAIN fs) - MaxEntries
      /\ ~(Cardinality(DOMAIN fs) > MaxEntries) => keys = {}
      /\ r = Only(fs, DOMAIN fs \ keys)
    BY <1>e, <1>f, <1>g
<1>2. MaxScopes \in Nat /\ MaxEntries \in Nat
    BY PromptCacheAssumption
<1>3. /\ DOMAIN fs = {k \in DOMAIN es : k.scope \notin gone} /\ \A k \in DOMAIN fs : fs[k] = es[k]
      /\ DOMAIN r = DOMAIN fs \ keys /\ \A k \in DOMAIN r : r[k] = fs[k]
    BY <1>1, OnlyFacts
<1>4. PartOf(r, es)
    BY <1>3 DEF PartOf
<1>5. IsFiniteSet(DOMAIN fs) /\ IsFiniteSet(DOMAIN r)
    BY <1>3, FS_Subset
<1>6. Cardinality(DOMAIN r) <= MaxEntries
    BY <1>1, <1>2, <1>3, <1>5, RemovedOver
<1>7. Cardinality(ScopesOf(r)) <= MaxScopes
    <2>1. IsFiniteSet(ScopesOf(es))
        BY ScopesFinite
    <2>2. Cardinality(ScopesOf(es) \ gone) <= MaxScopes
        BY <1>1, <1>2, <2>1, RemovedOver
    <2>3. ScopesOf(r) \subseteq ScopesOf(es) \ gone
        BY <1>3 DEF ScopesOf
    <2>4. IsFiniteSet(ScopesOf(es) \ gone)
        BY <2>1, FS_Subset
    <2>5. IsFiniteSet(ScopesOf(r)) /\ Cardinality(ScopesOf(r)) <= Cardinality(ScopesOf(es) \ gone)
        BY <2>3, <2>4, FS_Subset
    <2>6. Cardinality(ScopesOf(r)) \in Nat /\ Cardinality(ScopesOf(es) \ gone) \in Nat
        BY <2>4, <2>5, FS_CardinalityType
    <2> QED BY <2>2, <2>5, <2>6, <1>2
<1>8. ASSUME Bounded(es) PROVE DOMAIN r = DOMAIN es
    <2>1. Cardinality(ScopesOf(es)) \in Nat /\ Cardinality(DOMAIN es) \in Nat
        BY ScopesFinite, FS_CardinalityType
    <2>2. gone = {}
        BY <1>1, <1>2, <1>8, <2>1 DEF Bounded
    <2>3. DOMAIN fs = DOMAIN es
        BY <1>3, <2>2
    <2>4. keys = {}
        BY <1>1, <1>2, <1>8, <2>1, <2>3 DEF Bounded
    <2> QED BY <1>3, <2>3, <2>4
<1> QED BY <1>4, <1>5, <1>6, <1>7, <1>8 DEF Bounded

\* The clock goes on: nothing comes to life again.
LEMMA TickKeepsCache ==
    ASSUME CacheInv, now' = now + 1, UNCHANGED cacheVars PROVE CacheInv'
<1>1. /\ entries' = entries /\ lastPrune' = lastPrune /\ ledger' = ledger /\ evicted' = evicted
    BY DEF cacheVars
<1>2. ASSUME NEW k \in DOMAIN ledger, Live(ledger[k])' PROVE Live(ledger[k])
    BY <1>1, <1>2 DEF Live, CacheInv, EntryTyped
<1>3. \A e : EntryTyped(e)' <=> EntryTyped(e)
    BY DEF EntryTyped
<1>4. Bounded(entries)' /\ PartOf(entries, ledger)' /\ \A k \in DOMAIN ledger' : EntryTyped(ledger[k])'
    BY <1>1 DEF CacheInv, Bounded, ScopesOf, PartOf, EntryTyped
<1>5. now' \in Nat /\ lastPrune' \in -1..now' /\ evicted' \in BOOLEAN
    BY <1>1 DEF CacheInv
<1>6. ~evicted' => \A k \in DOMAIN ledger' : Live(ledger[k])' => k \in DOMAIN entries'
    BY <1>1, <1>2 DEF CacheInv
<1> QED BY <1>4, <1>5, <1>6 DEF CacheInv

\* A step that leaves the tracker alone.
LEMMA SameCache == ASSUME CacheInv, now' = now, UNCHANGED cacheVars PROVE CacheInv'
<1>1. /\ entries' = entries /\ lastPrune' = lastPrune /\ ledger' = ledger /\ evicted' = evicted
    BY DEF cacheVars
<1> QED BY <1>1 DEF CacheInv, Bounded, ScopesOf, PartOf, EntryTyped, Live

\* RunJanitor.
LEMMA SweepKeepsCache == ASSUME CacheInv, Sweep PROVE CacheInv'
<1>1. /\ entries' \in EnforceLimits(PruneExpired(entries)) /\ lastPrune' = now /\ now' = now
      /\ ledger' = ledger /\ evicted' = evicted /\ now \in Nat
    BY DEF Sweep, CacheInv
<1>2. PICK es : es = PruneExpired(entries)
    OBVIOUS
<1>3. PartOf(es, entries) /\ \A k \in DOMAIN entries : Live(entries[k]) => k \in DOMAIN es
    BY <1>2, PruneFacts
<1>4. Bounded(es)
    BY <1>3, FewerBounded DEF CacheInv, PartOf
<1>5. PartOf(entries', es) /\ Bounded(entries') /\ DOMAIN entries' = DOMAIN es
    BY <1>1, <1>2, <1>4, EnforcedFacts DEF Bounded
<1>6. PartOf(entries, ledger)' /\ Bounded(entries)'
    BY <1>1, <1>3, <1>5 DEF CacheInv, PartOf, Bounded, ScopesOf
<1>7. ~evicted' => \A k \in DOMAIN ledger' : Live(ledger[k])' => k \in DOMAIN entries'
    BY <1>1, <1>3, <1>5 DEF CacheInv, PartOf, Live
<1>8. now' \in Nat /\ lastPrune' \in -1..now' /\ evicted' \in BOOLEAN
      /\ \A k \in DOMAIN ledger' : EntryTyped(ledger[k])'
    BY <1>1 DEF CacheInv, EntryTyped
<1> QED BY <1>6, <1>7, <1>8 DEF CacheInv

\* The longest live prefix.
LEMMA MatchedFacts ==
    ASSUME NEW prof, ProfileOK(prof), prof.ok, NEW es, NEW scope, NEW hit, hit = Matched(es, scope, prof)
    PROVE  /\ hit = {} \/ \E n \in DOMAIN prof.fps : Matches(es, scope, prof, n) /\ hit = {Key(scope, prof.fps[n])}
           /\ hit = {} => \A n \in DOMAIN prof.fps : ~Matches(es, scope, prof, n)
<1> DEFINE points == {n \in DOMAIN prof.fps : Matches(es, scope, prof, n)}
<1>1. hit = IF points = {} THEN {} ELSE {Key(scope, prof.fps[Max(points)])}
    BY DEF Matched
<1>2. CASE points = {}
    BY <1>1, <1>2
<1>3. CASE points # {}
    <2>1. Len(prof.fps) \in Nat /\ DOMAIN prof.fps = 1..Len(prof.fps)
        BY SeqFacts DEF ProfileOK
    <2>2. points \subseteq 1..Len(prof.fps)
        BY <2>1
    <2>3. Max(points) \in points
        <3> HIDE DEF points
        <3> QED BY <1>3, <2>1, <2>2, MaxIn
    <2>4. PICK n : n = Max(points)
        OBVIOUS
    <2>5. n \in DOMAIN prof.fps /\ Matches(es, scope, prof, n) /\ hit = {Key(scope, prof.fps[n])}
        BY <1>1, <1>3, <2>3, <2>4
    <2> QED BY <2>5
<1> QED BY <1>2, <1>3

UsageTyped(u) == u.read \in Nat /\ u.creation \in Nat /\ u.hour \in Nat

\* What compute finds, in terms of the tracker's entries.
LEMMA ComputeFacts ==
    ASSUME CacheInv, NEW prof, ProfileOK(prof), NEW ratio \in Nat, HasPlan(prof, ratio),
           NEW scope, NEW c, c = Compute(scope, prof, ratio)
    PROVE  /\ c.entries = Touch(PrunedIfDue, c.hit) /\ c.hit \subseteq DOMAIN PrunedIfDue
           /\ UsageTyped(c.usage)
           /\ c.usage.read > 0 => \E n \in DOMAIN prof.fps :
                 /\ Matches(entries, scope, prof, n)
                 /\ c.usage.read <= entries[Key(scope, prof.fps[n])].cached
           /\ (\E n \in DOMAIN prof.fps : Matches(entries, scope, prof, n)) => c.usage.read > 0
<1>1. PICK es, hit, target : es = PrunedIfDue /\ hit = Matched(es, scope, prof) /\ target = TargetCacheTokens(prof, ratio)
    OBVIOUS
<1> DEFINE read == IF hit = {} THEN 0 ELSE Min2(es[CHOOSE k \in hit : TRUE].cached, target)
           creation == target - read
           hour == IF prof.ttl >= HourTTL THEN creation ELSE 0
<1>2. c = [usage |-> [read |-> read, creation |-> creation, hour |-> hour],
           entries |-> Touch(es, hit), hit |-> hit]
    BY <1>1 DEF Compute
<1> HIDE DEF read, creation, hour
<1>3. /\ c.entries = Touch(es, hit) /\ c.hit = hit
      /\ c.usage.read = read /\ c.usage.creation = creation /\ c.usage.hour = hour
    BY <1>2
<1>4. prof.ok /\ target \in Nat /\ target > 0
    BY <1>1, TargetNat DEF HasPlan, ProfileOK
<1>5. /\ hit = {} \/ \E n \in DOMAIN prof.fps : Matches(es, scope, prof, n) /\ hit = {Key(scope, prof.fps[n])}
      /\ hit = {} => \A n \in DOMAIN prof.fps : ~Matches(es, scope, prof, n)
    BY <1>1, <1>4, MatchedFacts
<1>6. PartOf(es, entries) /\ \A k \in DOMAIN entries : Live(entries[k]) => k \in DOMAIN es
    BY <1>1, PrunedFacts
<1>7. \A n \in DOMAIN prof.fps : Matches(es, scope, prof, n) <=> Matches(entries, scope, prof, n)
    BY <1>6 DEF Matches, PartOf
<1>8. \A k \in DOMAIN es : es[k].cached \in Nat /\ es[k].cached >= MinTokens /\ MinTokens > 0 /\ MinTokens \in Nat
    BY <1>6, PromptCacheAssumption DEF PartOf, CacheInv, EntryTyped
<1>9. CASE hit = {}
    <2>1. read = 0 /\ creation = target
        BY <1>4, <1>9 DEF read, creation
    <2>2. hour \in Nat
        BY <2>1, <1>4 DEF hour
    <2> QED BY <2>1, <2>2, <1>1, <1>3, <1>4, <1>5, <1>7, <1>9 DEF UsageTyped
<1>10. CASE hit # {}
    <2>1. PICK n \in DOMAIN prof.fps : Matches(es, scope, prof, n) /\ hit = {Key(scope, prof.fps[n])}
        BY <1>5, <1>10
    <2>2. PICK k : k = Key(scope, prof.fps[n])
        OBVIOUS
    <2>3. k \in DOMAIN es /\ hit = {k} /\ es[k] = entries[k]
        BY <2>1, <2>2, <1>6 DEF Matches, PartOf
    <2>4. (CHOOSE x \in hit : TRUE) = k
        BY <2>3
    <2>5. read = Min2(es[k].cached, target)
        BY <1>10, <2>4 DEF read
    <2>6. read \in Nat /\ read > 0 /\ read <= target /\ read <= entries[k].cached
        BY <2>3, <2>5, <1>4, <1>8 DEF Min2
    <2>7. creation \in Nat
        BY <2>6, <1>4 DEF creation
    <2>8. hour \in Nat
        BY <2>7 DEF hour
    <2> QED BY <2>1, <2>2, <2>3, <2>6, <2>7, <2>8, <1>1, <1>3, <1>7 DEF UsageTyped
<1> QED BY <1>9, <1>10

\* A touched entry lives on from now.
LEMMA TouchFacts ==
    ASSUME now \in Nat, NEW es, NEW keys
    PROVE  /\ DOMAIN Touch(es, keys) = DOMAIN es
           /\ \A k \in DOMAIN es : k \notin keys => Touch(es, keys)[k] = es[k]
           /\ \A k \in DOMAIN es : EntryTyped(es[k]) => EntryTyped(Touch(es, keys)[k])
           /\ \A fs : PartOf(fs, es) => PartOf(Touch(fs, keys), Touch(es, keys))
<1> DEFINE touched(e) == [e EXCEPT !.expires = now + e.ttl]
<1>1. DOMAIN Touch(es, keys) = DOMAIN es
      /\ \A k \in DOMAIN es : Touch(es, keys)[k] = IF k \in keys THEN touched(es[k]) ELSE es[k]
    BY DEF Touch
<1>2. ASSUME NEW e, EntryTyped(e) PROVE EntryTyped(touched(e))
    <2>1. now + e.ttl \in Nat
        BY <1>2, PromptCacheAssumption DEF EntryTyped
    <2> QED BY <1>2, <2>1 DEF EntryTyped
<1>3. ASSUME NEW fs, PartOf(fs, es) PROVE PartOf(Touch(fs, keys), Touch(es, keys))
    <2>1. DOMAIN Touch(fs, keys) = DOMAIN fs
          /\ \A k \in DOMAIN fs : Touch(fs, keys)[k] = IF k \in keys THEN touched(fs[k]) ELSE fs[k]
        BY DEF Touch
    <2> HIDE DEF touched
    <2> QED BY <2>1, <1>1, <1>3 DEF PartOf
<1> HIDE DEF touched
<1> QED BY <1>1, <1>2, <1>3

\* compute keeps the invariant.
LEMMA TrackKeepsCache ==
    ASSUME CacheInv, NEW prof, ProfileOK(prof), NEW ratio \in Nat, NEW scope,
           Track(scope, prof, ratio), now' = now
    PROVE  CacheInv'
<1>1. CASE ~HasPlan(prof, ratio)
    BY <1>1, SameCache DEF Track
<1>2. CASE HasPlan(prof, ratio)
    <2>1. PICK c : c = Compute(scope, prof, ratio)
        OBVIOUS
    <2>2. /\ entries' = c.entries /\ ledger' = Touch(ledger, c.hit) /\ evicted' = evicted
          /\ lastPrune' = IF PruneDue THEN now ELSE lastPrune
        BY <1>2, <2>1 DEF Track
    <2>3. PICK es, hit : es = PrunedIfDue /\ hit = c.hit
        OBVIOUS
    <2>4. entries' = Touch(es, hit) /\ hit \subseteq DOMAIN es /\ ledger' = Touch(ledger, hit)
        BY <1>2, <2>1, <2>2, <2>3, ComputeFacts
    <2>5. PartOf(es, entries) /\ \A k \in DOMAIN entries : Live(entries[k]) => k \in DOMAIN es
        BY <2>3, PrunedFacts
    <2>6. now \in Nat /\ PartOf(es, ledger)
        BY <2>5 DEF CacheInv, PartOf
    <2>7. /\ DOMAIN ledger' = DOMAIN ledger /\ DOMAIN entries' = DOMAIN es
          /\ \A k \in DOMAIN ledger : k \notin hit => ledger'[k] = ledger[k]
          /\ \A k \in DOMAIN ledger : EntryTyped(ledger'[k])
          /\ PartOf(entries', ledger')
        BY <2>4, <2>6, TouchFacts DEF CacheInv
    <2>8. PartOf(entries, ledger)' /\ \A k \in DOMAIN ledger' : EntryTyped(ledger[k])'
        BY <2>7 DEF PartOf, EntryTyped
    <2>9. Bounded(entries)'
        <3>1. DOMAIN entries' \subseteq DOMAIN entries
            BY <2>5, <2>7 DEF PartOf
        <3>2. Bounded(entries')
            BY <3>1, FewerBounded DEF CacheInv
        <3> QED BY <3>2 DEF Bounded, ScopesOf
    <2>10. now' \in Nat /\ lastPrune' \in -1..now' /\ evicted' \in BOOLEAN
        BY <2>2 DEF CacheInv
    <2>11. ASSUME ~evicted', NEW k \in DOMAIN ledger', Live(ledger[k])' PROVE k \in DOMAIN entries'
        <3>1. CASE k \in hit
            BY <3>1, <2>4, <2>7
        <3>2. CASE k \notin hit
            <4>1. k \in DOMAIN ledger /\ Live(ledger[k])
                BY <3>2, <2>7, <2>11 DEF Live
            <4>2. k \in DOMAIN entries /\ Live(entries[k])
                BY <4>1, <2>2, <2>11 DEF CacheInv, PartOf, Live
            <4> QED BY <4>2, <2>5, <2>7
        <3> QED BY <3>1, <3>2
    <2> QED BY <2>8, <2>9, <2>10, <2>11 DEF CacheInv
<1> QED BY <1>1, <1>2

\* What update writes.
LEMMA WrittenFacts ==
    ASSUME now \in Nat, NEW prof, ProfileOK(prof), prof.ok, NEW ratio \in Nat, NEW scope,
           NEW w, w = Written(scope, prof, ratio)
    PROVE  IsFiniteSet(DOMAIN w) /\ \A k \in DOMAIN w : EntryTyped(w[k])
<1>1. PICK target, flat : target = TargetCacheTokens(prof, ratio) /\ flat = Last(prof.sums)
    OBVIOUS
<1> DEFINE cached(n) == Min2((2 * prof.sums[n] * target + flat) \div (2 * flat), target)
           points == {n \in DOMAIN prof.fps : target > 0 /\ cached(n) >= MinTokens}
           keys == {Key(scope, prof.fps[n]) : n \in points}
<1>2. w = [k \in keys |-> [expires |-> now + prof.ttl, ttl |-> prof.ttl, cached |-> cached(Len(k.fp))]]
    BY <1>1 DEF Written
<1>3. target \in Nat
    BY <1>1, TargetNat
<1>4. /\ Len(prof.fps) \in Nat \ {0} /\ DOMAIN prof.fps = 1..Len(prof.fps)
      /\ Len(prof.sums) = Len(prof.fps) /\ \A n \in DOMAIN prof.fps : Len(prof.fps[n]) = n /\ prof.sums[n] \in Nat \ {0}
    BY SeqFacts DEF ProfileOK
<1>5. flat \in Nat \ {0}
    BY <1>1, <1>4 DEF Last
<1>6. ASSUME NEW n \in DOMAIN prof.fps PROVE cached(n) \in Nat
    <2>1. PICK m : m = 2 * prof.sums[n] * target + flat
        OBVIOUS
    <2>2. prof.sums[n] \in Nat
        BY <1>4, <1>6
    <2>3. prof.sums[n] * target \in Nat
        BY <2>2, <1>3
    <2>4. m \in Nat
        BY <2>1, <2>2, <1>3, <1>5
    <2>5. m \div (2 * flat) \in Nat
        BY <2>4, <1>5
    <2> QED BY <2>1, <2>5, <1>3 DEF Min2
<1> HIDE DEF cached
<1>7. ASSUME NEW k \in DOMAIN w PROVE EntryTyped(w[k])
    <2>1. PICK n \in points : k = Key(scope, prof.fps[n])
        BY <1>2, <1>7
    <2>2. Len(k.fp) = n
        BY <2>1, <1>4 DEF Key
    <2>3. w[k] = [expires |-> now + prof.ttl, ttl |-> prof.ttl, cached |-> cached(n)]
        BY <1>2, <1>7, <2>2
    <2>4. prof.ttl \in {DefaultTTL, HourTTL} /\ now + prof.ttl \in Nat
        BY PromptCacheAssumption DEF ProfileOK
    <2>5. cached(n) \in Nat /\ cached(n) >= MinTokens
        BY <2>1, <1>6
    <2> QED BY <2>3, <2>4, <2>5 DEF EntryTyped
<1>8. IsFiniteSet(keys)
    <2>1. points \subseteq 1..Len(prof.fps)
        BY <1>4
    <2>2. IsFiniteSet(points)
        <3>1. IsFiniteSet(1..Len(prof.fps))
            BY <1>4, FS_Interval
        <3> QED BY <3>1, <2>1, FS_Subset
    <2> DEFINE f == [n \in points |-> Key(scope, prof.fps[n])]
    <2> HIDE DEF points
    <2>3. f \in Surjection(points, keys)
        BY DEF Surjection
    <2> HIDE DEF f, keys
    <2> QED BY <2>2, <2>3, FS_Surjection
<1>9. DOMAIN w = keys
    BY <1>2
<1> QED BY <1>7, <1>8, <1>9

\* update keeps the invariant: the ledger learns what is written, and a limit
\* that removes a live entry is remembered.
LEMMA CommitKeepsCache ==
    ASSUME CacheInv, NEW prof, ProfileOK(prof), prof.ok, NEW ratio \in Nat, NEW scope,
           Commit(scope, prof, ratio), now' = now
    PROVE  CacheInv'
<1>1. PICK new, old, es : /\ new = Written(scope, prof, ratio) /\ old = PrunedIfDue
                          /\ es = Overlay(old, new)
    OBVIOUS
<1>2. /\ entries' \in EnforceLimits(es)
      /\ lastPrune' = IF PruneDue THEN now ELSE lastPrune
      /\ ledger' = Overlay(ledger, new)
      /\ evicted' = (evicted \/ \E k \in DOMAIN es \ DOMAIN entries' : Live(es[k]))
    BY <1>1 DEF Commit
<1>3. now \in Nat /\ IsFiniteSet(DOMAIN entries) /\ evicted \in BOOLEAN
    BY DEF CacheInv, Bounded
<1>4. IsFiniteSet(DOMAIN new) /\ \A k \in DOMAIN new : EntryTyped(new[k])
    BY <1>1, <1>3, WrittenFacts
<1>5. PartOf(old, entries) /\ \A k \in DOMAIN entries : Live(entries[k]) => k \in DOMAIN old
    BY <1>1, PrunedFacts
<1>6. /\ DOMAIN es = DOMAIN old \cup DOMAIN new
      /\ \A k \in DOMAIN es : es[k] = IF k \in DOMAIN new THEN new[k] ELSE old[k]
    BY <1>1 DEF Overlay
<1>7. /\ DOMAIN ledger' = DOMAIN ledger \cup DOMAIN new
      /\ \A k \in DOMAIN ledger' : ledger'[k] = IF k \in DOMAIN new THEN new[k] ELSE ledger[k]
    BY <1>2 DEF Overlay
<1>8. IsFiniteSet(DOMAIN es)
    <2>1. IsFiniteSet(DOMAIN old)
        BY <1>3, <1>5, FS_Subset DEF PartOf
    <2> QED BY <2>1, <1>4, <1>6, FS_Union
<1>9. PartOf(entries', es) /\ Bounded(entries')
    BY <1>2, <1>8, EnforcedFacts
<1>10. PartOf(es, ledger')
    <2>1. \A k \in DOMAIN old : k \in DOMAIN ledger /\ old[k] = ledger[k]
        BY <1>5 DEF CacheInv, PartOf
    <2> QED BY <2>1, <1>6, <1>7 DEF PartOf
<1>11. PartOf(entries, ledger)' /\ Bounded(entries)'
    BY <1>9, <1>10 DEF PartOf, Bounded, ScopesOf
<1>12. \A k \in DOMAIN ledger' : EntryTyped(ledger[k])'
    BY <1>4, <1>7 DEF CacheInv, EntryTyped
<1>13. now' \in Nat /\ lastPrune' \in -1..now' /\ evicted' \in BOOLEAN
    BY <1>2 DEF CacheInv
<1>14. ASSUME ~evicted', NEW k \in DOMAIN ledger', Live(ledger[k])' PROVE k \in DOMAIN entries'
    <2>1. k \in DOMAIN es /\ es[k] = ledger'[k]
        <3>1. CASE k \in DOMAIN new
            BY <3>1, <1>6, <1>7
        <3>2. CASE k \notin DOMAIN new
            <4>1. k \in DOMAIN ledger /\ Live(ledger[k])
                BY <3>2, <1>7, <1>14 DEF Live
            <4>2. k \in DOMAIN entries /\ Live(entries[k])
                BY <4>1, <1>2, <1>14 DEF CacheInv, PartOf, Live
            <4>3. k \in DOMAIN old /\ old[k] = entries[k] /\ entries[k] = ledger[k]
                BY <4>2, <1>5 DEF CacheInv, PartOf
            <4> QED BY <4>3, <3>2, <1>6, <1>7
        <3> QED BY <3>1, <3>2
    <2>2. Live(es[k])
        BY <2>1, <1>14 DEF Live
    <2> QED BY <2>1, <2>2, <1>2, <1>14
<1> QED BY <1>11, <1>12, <1>13, <1>14 DEF CacheInv
----------------------------------------------------------------------------
(* The report *)

Tokens == [input : Nat, output : Nat, read : Nat, creation : Nat, m5 : Nat, h1 : Nat]

\* Percentages: at most all of it, and at most three times as much.
LEMMA PercentAtMost ==
    ASSUME NEW b \in Nat, NEW r \in Nat
    PROVE  /\ PercentOf(b, r) \in Nat
           /\ r <= 99 => PercentOf(b, r) <= b
           /\ r <= 300 => PercentOf(b, r) <= 3 * b
<1>1. PICK m : m = b * r
    OBVIOUS
<1>2. m \in Nat /\ PercentOf(b, r) = (2 * m + 100) \div 200
    <2>1. 2 * b * r = 2 * (b * r)
        OBVIOUS
    <2> QED BY <1>1, <2>1 DEF PercentOf
<1>3. ASSUME r <= 99 PROVE m <= 99 * b
    <2>1. b * r <= b * 99
        BY <1>3
    <2> QED BY <1>1, <2>1
<1>4. ASSUME r <= 300 PROVE m <= 300 * b
    <2>1. b * r <= b * 300
        BY <1>4
    <2> QED BY <1>1, <2>1
<1>5. (2 * m + 100) \div 200 \in Nat
    BY <1>2
<1>6. m <= 99 * b => (2 * m + 100) \div 200 <= b
    BY <1>2
<1>7. m <= 300 * b => (2 * m + 100) \div 200 <= 3 * b
    BY <1>2
<1> QED BY <1>2, <1>3, <1>4, <1>5, <1>6, <1>7

\* A share of a part in the whole.
LEMMA ShareAtMost ==
    ASSUME NEW a \in Nat, NEW limit \in Nat, NEW total \in Nat \ {0}, a <= total
    PROVE  (a * limit) \div total \in 0..limit
<1>1. PICK m : m = a * limit /\ m \in Nat
    OBVIOUS
<1>2. m <= total * limit
    <2>1. a * limit <= total * limit
        OBVIOUS
    <2> QED BY <1>1, <2>1
<1>3. PICK d : d = m \div total
    OBVIOUS
<1>4. d \in Nat /\ d * total <= m
    BY <1>1, <1>3
<1>5. d <= limit
    <2> SUFFICES ASSUME d > limit PROVE FALSE
        BY <1>4
    <2>1. d >= limit + 1
        BY <1>4
    <2>2. d * total >= (limit + 1) * total
        BY <2>1, <1>4
    <2>3. (limit + 1) * total = total * limit + total
        OBVIOUS
    <2>4. total * limit \in Nat /\ d * total \in Nat
        BY <1>4
    <2> QED BY <2>2, <2>3, <2>4, <1>1, <1>2, <1>4
<1> QED BY <1>1, <1>3, <1>4, <1>5

\* Samples stay in range.
LEMMA SampledIn ==
    ASSUME NEW whole \in Nat, NEW limit \in Nat, NEW buckets,
           \A b \in buckets : b[1] \in Nat /\ b[2] \in Nat,
           NEW v \in SampleBuckets(whole, buckets, limit)
    PROVE  v \in 0..limit /\ (limit > 0 => v > 0)
<1> DEFINE low(b) == Min2(Max2(FloorPercent(whole, b[1]), 1), limit)
           high(b) == Min2(Max2(FloorPercent(whole, b[2]), low(b)), limit)
<1>1. PICK b \in buckets : v \in low(b)..high(b)
    BY DEF SampleBuckets
<1>2. FloorPercent(whole, b[1]) \in Int /\ FloorPercent(whole, b[2]) \in Int
    <2>1. whole * b[1] \in Nat /\ whole * b[2] \in Nat
        OBVIOUS
    <2> QED BY <2>1 DEF FloorPercent
<1>3. low(b) \in Nat /\ low(b) <= limit /\ (limit > 0 => low(b) > 0)
    BY <1>2 DEF Min2, Max2
<1> HIDE DEF low
<1>4. high(b) \in Int /\ high(b) <= limit
    BY <1>2, <1>3 DEF Min2, Max2
<1> HIDE DEF high
<1> QED BY <1>1, <1>3, <1>4

\* NormalMaxTokens is at least one.
LEMMA NormalMaxNat == ASSUME NEW field \in FieldPolicy PROVE NormalMaxTokens(field) \in Nat \ {0}
<1>1. field.max \in Nat /\ field.target \in Nat /\ field.multiplier \in Nat
    BY DEF FieldPolicy
<1>2. Max2(field.multiplier, 100) \in Nat
    BY <1>1 DEF Max2
<1>3. PICK t : t = PercentOf(field.target, Max2(field.multiplier, 100)) /\ t \in Nat
    BY <1>1, <1>2, PercentNat
<1> QED BY <1>1, <1>3 DEF NormalMaxTokens, Max2

\* SampleField: at most the current value, and not nothing of something.
LEMMA FieldSampled ==
    ASSUME NEW field \in FieldPolicy, NEW current \in Nat, NEW v \in SampleField(field, current)
    PROVE  v \in 0..current /\ (current > 0 => v > 0)
<1>1. PICK most : most = Min2(NormalMaxTokens(field), current)
    OBVIOUS
<1>2. most \in Nat /\ most <= current /\ (current > 0 => most > 0)
    BY <1>1, NormalMaxNat DEF Min2
<1>3. \A b \in FieldBuckets : b[1] \in Nat /\ b[2] \in Nat
    BY DEF FieldBuckets
<1>4. v = current \/ (current # 0 /\ v \in SampleBuckets(most, FieldBuckets, most))
    BY <1>1 DEF SampleField
<1>5. v \in SampleBuckets(most, FieldBuckets, most) => v \in 0..most /\ (most > 0 => v > 0)
    BY <1>2, <1>3, SampledIn
<1> QED BY <1>2, <1>4, <1>5

\* SampleCacheCreation: at most what was created.
LEMMA CreationSampled ==
    ASSUME NEW field \in FieldPolicy, NEW u, u.creation \in Nat, NEW v \in SampleCacheCreation(field, u)
    PROVE  v \in 0..u.creation
<1>1. PICK whole, limit, reads : /\ whole = NormalMaxTokens(field) /\ limit = Min2(u.creation, whole)
                                 /\ reads = (u.read > 0)
    OBVIOUS
<1>2. whole \in Nat /\ limit \in Nat /\ limit <= u.creation
    BY <1>1, NormalMaxNat DEF Min2
<1>3. \A b \in CreationBuckets(reads) : b[1] \in Nat /\ b[2] \in Nat
    BY DEF CreationBuckets
<1>4. v = 0 \/ v \in SampleBuckets(whole, CreationBuckets(reads), limit)
    BY <1>1 DEF SampleCacheCreation
<1>5. v \in SampleBuckets(whole, CreationBuckets(reads), limit) => v \in 0..limit
    BY <1>2, <1>3, SampledIn
<1> QED BY <1>2, <1>4, <1>5

\* A usage whose creation is the sum of its lifetimes.
Split(u) == u \in Tokens /\ u.m5 + u.h1 = u.creation

\* NormalizedUsage has nothing to do where the lifetimes add up.
LEMMA SplitNormalized == ASSUME NEW u, Split(u) PROVE NormalizedUsage(u) = u
<1>1. u \in Tokens /\ u.m5 \in Nat /\ u.h1 \in Nat /\ u.creation \in Nat /\ u.m5 + u.h1 = u.creation
    BY DEF Split, Tokens
<1>2. Min2(u.m5, u.creation) = u.m5 /\ Min2(u.h1, u.creation - u.m5) = u.h1
    BY <1>1 DEF Min2
<1>3. NormalizedUsage(u) = [u EXCEPT !.m5 = u.m5, !.h1 = u.h1]
    BY <1>2 DEF NormalizedUsage
<1> QED BY <1>1, <1>3 DEF Tokens

\* CapCacheCreationBreakdown keeps the sum of the lifetimes.
LEMMA CappedSplit ==
    ASSUME NEW u, Split(u), NEW v \in 0..u.creation, NEW w, w = CapCacheCreationBreakdown(u, v)
    PROVE  /\ Split(w) /\ w.input = u.input /\ w.output = u.output /\ w.read = u.read
           /\ w.creation = v
<1>1. u \in Tokens /\ u.m5 \in Nat /\ u.h1 \in Nat /\ u.creation \in Nat /\ u.m5 + u.h1 = u.creation
    BY DEF Split, Tokens
<1>2. PICK total, m : total = u.m5 + u.h1 /\ m = (u.m5 * v) \div total
    OBVIOUS
<1>3. w = IF v = 0 \/ total = 0 THEN [u EXCEPT !.creation = v, !.m5 = 0, !.h1 = 0]
          ELSE IF total <= v THEN [u EXCEPT !.creation = v]
          ELSE [u EXCEPT !.creation = v, !.m5 = m, !.h1 = v - m]
    BY <1>2 DEF CapCacheCreationBreakdown
<1>4. total \in Nat /\ v \in Nat /\ v <= total /\ total = u.creation
    BY <1>1, <1>2
<1>5. CASE v = 0 \/ total = 0
    <2>1. w = [u EXCEPT !.creation = v, !.m5 = 0, !.h1 = 0] /\ v = 0
        BY <1>3, <1>4, <1>5
    <2>2. w \in Tokens /\ w.creation = v /\ w.m5 = 0 /\ w.h1 = 0
        BY <2>1, <1>1, <1>4 DEF Tokens
    <2>3. w.input = u.input /\ w.output = u.output /\ w.read = u.read
        BY <2>1, <1>1 DEF Tokens
    <2> QED BY <2>1, <2>2, <2>3 DEF Split
<1>6. CASE ~(v = 0 \/ total = 0) /\ total <= v
    <2>1. w = [u EXCEPT !.creation = v] /\ v = u.creation
        BY <1>3, <1>4, <1>6
    <2> QED BY <2>1, <1>1 DEF Split, Tokens
<1>7. CASE ~(v = 0 \/ total = 0) /\ ~(total <= v)
    <2>1. w = [u EXCEPT !.creation = v, !.m5 = m, !.h1 = v - m]
        BY <1>3, <1>7
    <2>2. m \in 0..v
        <3>1. total \in Nat \ {0} /\ u.m5 <= total
            BY <1>1, <1>2, <1>4, <1>7
        <3> QED BY <3>1, <1>1, <1>2, <1>4, ShareAtMost
    <2>3. v - m \in Nat /\ m \in Nat /\ m + (v - m) = v
        BY <2>2, <1>4
    <2> QED BY <2>1, <2>3, <1>1, <1>4 DEF Split, Tokens
<1> QED BY <1>5, <1>6, <1>7

\* What Normalized makes of a profile p.
InShape(n, p) ==
    /\ n.input = p.input /\ n.output = p.output /\ n.read = p.read /\ n.creation = p.creation
    /\ n.input \in FieldPolicy /\ n.output \in FieldPolicy /\ n.read \in FieldPolicy /\ n.creation \in FieldPolicy
    /\ n.ttlFields = p.ttlFields /\ n.ttlFields \in BOOLEAN
    /\ n.cap = p.cap /\ n.cap \in Nat /\ n.scaleMin \in Nat
    /\ n.ratio \in 0..99 /\ n.scale \in 100..300 /\ n.jitterMin \in Nat /\ n.jitterMax \in Nat

\* Normalized brings every profile in shape.
LEMMA ProfileNormalized ==
    ASSUME NEW p \in ReportProfile, NEW n, n = NormalizedProfile(p) PROVE InShape(n, p)
<1>1. PICK scale : scale = IF p.scale <= 0 THEN 100 ELSE Min2(Max2(p.scale, 100), 300)
    OBVIOUS
<1>2. PICK ratio, low, high : ratio = Min2(p.ratio, 99) /\ low = Min2(p.jitterMin, p.jitterMax)
                              /\ high = Max2(p.jitterMin, p.jitterMax)
    OBVIOUS
<1>3. n = [p EXCEPT !.ratio = ratio, !.scale = scale, !.jitterMin = low, !.jitterMax = high]
    BY <1>1, <1>2 DEF NormalizedProfile
<1>4. p.ratio \in Nat /\ p.scale \in Int /\ p.jitterMin \in Nat /\ p.jitterMax \in Nat
    BY DEF ReportProfile
<1>5. ratio \in 0..99 /\ scale \in 100..300 /\ low \in Nat /\ high \in Nat
    BY <1>1, <1>2, <1>4 DEF Min2, Max2
<1>6. /\ n.input = p.input /\ n.output = p.output /\ n.read = p.read /\ n.creation = p.creation
      /\ n.ttlFields = p.ttlFields /\ n.cap = p.cap /\ n.scaleMin = p.scaleMin
      /\ n.ratio = ratio /\ n.scale = scale /\ n.jitterMin = low /\ n.jitterMax = high
    BY <1>3 DEF ReportProfile
<1>7. /\ p.input \in FieldPolicy /\ p.output \in FieldPolicy /\ p.read \in FieldPolicy /\ p.creation \in FieldPolicy
      /\ p.ttlFields \in BOOLEAN /\ p.cap \in Nat /\ p.scaleMin \in Nat
    BY DEF ReportProfile
<1> QED BY <1>5, <1>6, <1>7 DEF InShape

\* The jitter only takes off.
LEMMA JitterNat ==
    ASSUME NEW n, NEW p, InShape(n, p), NEW j \in CapJitter(n) PROVE j \in Nat
<1>1. n.cap \in Nat /\ n.jitterMin \in Nat /\ n.jitterMax \in Nat
    BY DEF InShape
<1>2. PICK part : part = PercentOf(n.cap, 8) /\ part \in Nat
    BY <1>1, PercentNat
<1>3. PICK most : most = Min2(Min2(n.jitterMax, part), n.cap - 1)
    OBVIOUS
<1>4. most \in Int
    BY <1>1, <1>2, <1>3 DEF Min2
<1>5. j = 0 \/ (most > 0 /\ j \in Min2(n.jitterMin, most)..most)
    BY <1>2, <1>3, <1>4 DEF CapJitter
<1> QED BY <1>1, <1>4, <1>5 DEF Min2

\* The most that the simulation can add.
Limit(sent, cap) == IF cap > 1 THEN Max2(sent, cap) ELSE 3 * sent

\* ApplyAmplification: at most the cap, or three times the input.
LEMMA Amplified ==
    ASSUME NEW n, NEW p, InShape(n, p), NEW base \in Nat, NEW b \in ApplyAmplification(base, n)
    PROVE  b \in Nat /\ b <= Limit(base, p.cap)
<1>1. n.cap \in Nat /\ n.cap = p.cap /\ n.scale \in Nat /\ n.scale <= 300
    BY DEF InShape
<1>2. PICK part : part = PercentOf(base, n.scale) /\ part \in Nat /\ part <= 3 * base
    BY <1>1, PercentAtMost
<1>3. PICK scaled : scaled = Max2(part, base)
    OBVIOUS
<1>4. scaled \in Nat /\ scaled <= 3 * base
    BY <1>2, <1>3 DEF Max2
<1>5. \/ b = base
      \/ (n.cap <= 1 \/ scaled <= n.cap) /\ b = scaled
      \/ /\ ~(n.cap <= 1)
         /\ \E j \in CapJitter(n) : b = Min2(scaled, Max2(n.cap - j, 1))
    BY <1>2, <1>3 DEF ApplyAmplification
<1>6. CASE b = base
    BY <1>1, <1>6 DEF Limit, Max2
<1>7. CASE (n.cap <= 1 \/ scaled <= n.cap) /\ b = scaled
    BY <1>1, <1>4, <1>7 DEF Limit, Max2
<1>8. CASE ~(n.cap <= 1) /\ \E j \in CapJitter(n) : b = Min2(scaled, Max2(n.cap - j, 1))
    <2>1. PICK j \in CapJitter(n) : b = Min2(scaled, Max2(n.cap - j, 1))
        BY <1>8
    <2>2. j \in Nat
        BY <2>1, JitterNat
    <2> QED BY <1>1, <1>4, <1>8, <2>1, <2>2 DEF Limit, Max2, Min2
<1> QED BY <1>5, <1>6, <1>7, <1>8

\* A raw usage: the upstream says what it read, and nothing of creations.
Raw(u) == u \in Tokens /\ u.creation = 0 /\ u.m5 = 0 /\ u.h1 = 0

\* What the simulation says before the fields are projected.
LEMMA SimulatedUsage ==
    ASSUME NEW raw, Raw(raw), raw.read = 0, NEW sim, UsageTyped(sim), NEW n, NEW p, InShape(n, p),
           NEW c \in ToReportUsage(raw, sim, n)
    PROVE  /\ Split(c) /\ c.input = raw.input /\ c.output = raw.output
           /\ c.read + c.creation <= Limit(raw.input, p.cap)
<1>1. raw.input \in Nat /\ raw.output \in Nat /\ raw.creation = 0
    BY DEF Raw, Tokens
<1> DEFINE total == IF raw.input > 0 THEN raw.input ELSE raw.input + raw.read + raw.creation
           target(b) == PercentOf(b, Min2(n.ratio, 99))
           read(b) == CASE sim.read > 0 /\ sim.creation > 0 -> Min2(sim.read, target(b))
                        [] sim.read > 0 /\ sim.creation = 0 -> target(b)
                        [] OTHER -> 0
           creation(b) == IF sim.creation > 0 THEN target(b) - read(b) ELSE 0
           h1(b) == IF sim.hour > 0 THEN creation(b) ELSE 0
<1>2. total = raw.input
    BY <1>1
<1>3. PICK b \in ApplyAmplification(raw.input, n) :
         c = [input |-> raw.input, output |-> raw.output, read |-> read(b),
              creation |-> creation(b), m5 |-> creation(b) - h1(b), h1 |-> h1(b)]
    <2>1. ToReportUsage(raw, sim, n) =
             {[input |-> total, output |-> raw.output, read |-> read(x), creation |-> creation(x),
               m5 |-> creation(x) - h1(x), h1 |-> h1(x)] : x \in ApplyAmplification(total, n)}
        BY DEF ToReportUsage
    <2> HIDE DEF total, read, creation, h1
    <2> QED BY <2>1, <1>2
<1>4. b \in Nat /\ b <= Limit(raw.input, p.cap)
    BY <1>1, <1>3, Amplified
<1>5. PICK t : t = target(b)
    OBVIOUS
<1>6. t \in Nat /\ t <= b
    <2>1. PICK r : r = Min2(n.ratio, 99)
        OBVIOUS
    <2>2. r \in Nat /\ r <= 99
        BY <2>1 DEF InShape, Min2
    <2> QED BY <2>1, <2>2, <1>4, <1>5, PercentAtMost
<1>7. read(b) \in Nat /\ read(b) <= t
    <2> HIDE DEF target
    <2> QED BY <1>5, <1>6 DEF UsageTyped, Min2
<1>8. creation(b) \in Nat /\ read(b) + creation(b) <= t
    <2> HIDE DEF target, read
    <2> QED BY <1>5, <1>6, <1>7
<1>9. h1(b) \in Nat /\ h1(b) <= creation(b)
    <2> HIDE DEF creation
    <2> QED BY <1>8
<1>10. PICK r, x, h : r = read(b) /\ x = creation(b) /\ h = h1(b)
    OBVIOUS
<1>11. c = [input |-> raw.input, output |-> raw.output, read |-> r, creation |-> x, m5 |-> x - h, h1 |-> h]
    BY <1>3, <1>10
<1>12. /\ r \in Nat /\ x \in Nat /\ h \in Nat /\ h <= x /\ r + x <= t
       /\ x - h \in Nat /\ (x - h) + h = x
    BY <1>7, <1>8, <1>9, <1>10
<1> HIDE DEF read, creation, h1, target, total
<1>13. Split(c) /\ c.input = raw.input /\ c.output = raw.output /\ c.read = r /\ c.creation = x
    BY <1>1, <1>11, <1>12 DEF Split, Tokens
<1>14. Limit(raw.input, p.cap) \in Int
    BY <1>1 DEF Limit, Max2, InShape
<1> QED BY <1>4, <1>6, <1>12, <1>13, <1>14

\* What the fields of a profile make of a computed usage: v in terms of c.
ProjectedFrom(v, c, raw, p) ==
    /\ v \in Tokens
    /\ v.m5 + v.h1 <= v.creation /\ (p.ttlFields => v.m5 + v.h1 = v.creation)
    /\ v.input <= raw.input /\ (raw.input > 0 => v.input > 0)
    /\ p.input.move => v.input + v.read >= raw.input
    /\ raw.read = 0 => v.read + v.creation <= c.read + c.creation + (raw.input - v.input)

\* Sampling and moving keep the sums, whatever the hashes select.
LEMMA ProjectedUsage ==
    ASSUME NEW raw, Raw(raw), NEW c, Split(c), c.input = raw.input, c.output = raw.output,
           NEW n, NEW p, InShape(n, p), NEW v \in Projected(c, raw, n)
    PROVE  ProjectedFrom(v, c, raw, p)
<1>1. /\ raw.input \in Nat /\ raw.output \in Nat /\ raw.read \in Nat
      /\ raw.creation = 0 /\ raw.m5 = 0 /\ raw.h1 = 0
    BY DEF Raw, Tokens
<1>2. /\ c.read \in Nat /\ c.creation \in Nat /\ c.m5 \in Nat /\ c.h1 \in Nat /\ c.m5 + c.h1 = c.creation
    BY DEF Split, Tokens
<1>3. /\ n.input \in FieldPolicy /\ n.output \in FieldPolicy /\ n.read \in FieldPolicy /\ n.creation \in FieldPolicy
      /\ n.input = p.input /\ n.ttlFields = p.ttlFields /\ n.ttlFields \in BOOLEAN
    BY DEF InShape
<1> DEFINE base == BaseUsage(c, raw, n)
           outputs == {[base EXCEPT !.output = o] : o \in SampleField(n.output, base.output)}
           fields == UNION {{[u EXCEPT !.read = r] : r \in SampleField(n.read, base.read)} : u \in outputs}
           created(u) == IF u.creation = 0 \/ SamplePolicyTarget(n.creation) = 0 THEN {u}
                         ELSE {CapCacheCreationBreakdown(u, x) : x \in SampleCacheCreation(n.creation, u)}
           ttl(u) == IF n.ttlFields THEN u ELSE [u EXCEPT !.m5 = 0, !.h1 = 0]
<1>4. Projected(c, raw, n) =
        {ttl(NormalizedUsage(x)) : x \in UNION {SampleInput(y, n) : y \in UNION {created(u) : u \in fields}}}
    BY DEF Projected
<1>5. /\ Split(base) /\ base.input = raw.input /\ base.output = raw.output
      /\ base.read \in Nat /\ base.creation \in Nat
      /\ raw.read = 0 => base.read <= c.read
      /\ base.creation <= c.creation
    <2>1. PICK k : k = IF n.creation.mode = "raw" THEN raw ELSE c
        OBVIOUS
    <2>2. k.creation \in Nat /\ k.m5 \in Nat /\ k.h1 \in Nat /\ k.m5 + k.h1 = k.creation /\ k.creation <= c.creation
        BY <2>1, <1>1, <1>2
    <2>3. PICK r : r = FieldBaseValue(n.read, c.read, raw.read)
        OBVIOUS
    <2>4. r \in Nat /\ (raw.read = 0 => r <= c.read)
        BY <2>3, <1>1, <1>2 DEF FieldBaseValue
    <2>5. base = [input |-> raw.input, output |-> raw.output, read |-> r,
                  creation |-> k.creation, m5 |-> k.m5, h1 |-> k.h1]
        BY <2>1, <2>3 DEF BaseUsage, InputBaseValue, FieldBaseValue
    <2> HIDE DEF base
    <2> QED BY <2>2, <2>4, <2>5, <1>1 DEF Split, Tokens
<1> HIDE DEF base
<1> HIDE DEF created, ttl
<1>6. PICK x : v = ttl(NormalizedUsage(x)) /\ x \in UNION {SampleInput(y, n) : y \in UNION {created(u) : u \in fields}}
    BY <1>4
<1>7. PICK y : x \in SampleInput(y, n) /\ y \in UNION {created(u) : u \in fields}
    BY <1>6
<1>8. PICK u \in fields : y \in created(u)
    BY <1>7
<1>9. PICK o, r : /\ o \in SampleField(n.output, base.output) /\ r \in SampleField(n.read, base.read)
                  /\ u = [[base EXCEPT !.output = o] EXCEPT !.read = r]
    <2>1. PICK d \in outputs : u \in {[d EXCEPT !.read = r] : r \in SampleField(n.read, base.read)}
        BY <1>8
    <2>2. PICK r \in SampleField(n.read, base.read) : u = [d EXCEPT !.read = r]
        BY <2>1
    <2>3. PICK o \in SampleField(n.output, base.output) : d = [base EXCEPT !.output = o]
        BY <2>1
    <2> QED BY <2>2, <2>3
<1>10. o \in Nat /\ r \in 0..base.read
    BY <1>9, <1>1, <1>3, <1>5, FieldSampled
<1>11. Split(u) /\ u.input = raw.input /\ u.read = r /\ u.creation = base.creation /\ u.creation \in Nat
    <2>1. PICK d : d = [base EXCEPT !.output = o]
        OBVIOUS
    <2>2. d \in Tokens /\ d.input = raw.input /\ d.creation = base.creation /\ d.m5 = base.m5 /\ d.h1 = base.h1
        BY <2>1, <1>5, <1>10 DEF Split, Tokens
    <2>3. u = [d EXCEPT !.read = r]
        BY <2>1, <1>9
    <2>4. r \in Nat
        BY <1>5, <1>10
    <2>5. /\ u \in Tokens /\ u.input = d.input /\ u.read = r /\ u.creation = d.creation
          /\ u.m5 = d.m5 /\ u.h1 = d.h1
        BY <2>2, <2>3, <2>4 DEF Tokens
    <2> QED BY <2>2, <2>5, <1>5 DEF Split
<1>12. /\ Split(y) /\ y.input = raw.input /\ y.read = r /\ y.creation <= base.creation /\ y.creation \in Nat
    <2>1. CASE y = u
        BY <2>1, <1>5, <1>11
    <2>2. CASE \E z \in SampleCacheCreation(n.creation, u) : y = CapCacheCreationBreakdown(u, z)
        <3>1. PICK z \in SampleCacheCreation(n.creation, u) : y = CapCacheCreationBreakdown(u, z)
            BY <2>2
        <3>2. z \in 0..u.creation
            BY <3>1, <1>3, <1>11, CreationSampled
        <3>3. Split(y) /\ y.input = u.input /\ y.read = u.read /\ y.creation = z
            BY <3>1, <3>2, <1>11, CappedSplit
        <3> QED BY <3>2, <3>3, <1>11
    <2> QED BY <2>1, <2>2, <1>8 DEF created
<1>13. PICK w : /\ w \in SampleField(n.input, y.input)
                /\ x = [y EXCEPT !.input = w, !.read = IF n.input.move THEN @ + (y.input - w) ELSE @]
    BY <1>7 DEF SampleInput
<1>14. w \in Nat /\ w <= raw.input /\ (raw.input > 0 => w > 0)
    BY <1>1, <1>3, <1>12, <1>13, FieldSampled
<1>15. PICK m : m = IF n.input.move THEN r + (raw.input - w) ELSE r
    OBVIOUS
<1>16. r \in Nat /\ r <= base.read
    BY <1>5, <1>10
<1>17. m \in Nat /\ m <= r + (raw.input - w) /\ (n.input.move => w + m >= raw.input)
    BY <1>1, <1>14, <1>15, <1>16
<1>18. x = [y EXCEPT !.input = w, !.read = m]
    BY <1>12, <1>13, <1>15 DEF Split, Tokens
<1>19. Split(x) /\ x.input = w /\ x.read = m /\ x.creation = y.creation
    BY <1>12, <1>14, <1>17, <1>18 DEF Split, Tokens
<1>20. v = ttl(x)
    BY <1>6, <1>19, SplitNormalized
<1>21. /\ v \in Tokens /\ v.input = w /\ v.read = m /\ v.creation = y.creation
       /\ v.m5 + v.h1 <= v.creation /\ (n.ttlFields => v.m5 + v.h1 = v.creation)
    <2>1. CASE n.ttlFields
        <3>1. v = x
            BY <2>1, <1>20 DEF ttl
        <3> QED BY <3>1, <1>19, <1>12 DEF Split
    <2>2. CASE ~n.ttlFields
        <3>1. v = [x EXCEPT !.m5 = 0, !.h1 = 0] /\ x \in Tokens
            BY <2>2, <1>19, <1>20 DEF ttl, Split
        <3>2. v \in Tokens /\ v.input = x.input /\ v.read = x.read /\ v.creation = x.creation /\ v.m5 = 0 /\ v.h1 = 0
            BY <3>1 DEF Tokens
        <3> QED BY <3>2, <2>2, <1>12, <1>19
    <2> QED BY <2>1, <2>2, <1>3
<1>22. raw.read = 0 => m + y.creation <= c.read + c.creation + (raw.input - w)
    BY <1>1, <1>2, <1>5, <1>12, <1>14, <1>16, <1>17
<1> QED BY <1>3, <1>14, <1>17, <1>21, <1>22 DEF ProjectedFrom

\* What ApplyReportProfile returns for a profile that is switched on.
ReportedWell(r, raw, sim, p) ==
    /\ r.usage \in Tokens /\ r.used \in BOOLEAN
    /\ r.used => raw.read = 0 /\ sim.read + sim.creation > 0
    /\ p.enabled =>
          /\ r.usage.m5 + r.usage.h1 <= r.usage.creation
          /\ r.used /\ p.ttlFields => r.usage.m5 + r.usage.h1 = r.usage.creation
          /\ r.usage.input <= raw.input /\ (raw.input > 0 => r.usage.input > 0)
          /\ p.input.move => r.usage.input + r.usage.read >= raw.input
          /\ r.used => r.usage.read + r.usage.creation <=
                          Limit(raw.input, p.cap) + (raw.input - r.usage.input)

\* ApplyReportProfile, for every plan and every upstream count.
LEMMA ReportWell ==
    ASSUME NEW raw, Raw(raw), NEW sim, UsageTyped(sim), NEW p, p.enabled => p \in ReportProfile,
           NEW r \in ApplyReportProfile(raw, sim, p)
    PROVE  ReportedWell(r, raw, sim, p)
<1>1. raw \in Tokens /\ raw.input \in Nat /\ raw.read \in Nat /\ Split(raw)
    BY DEF Raw, Tokens, Split
<1>2. NormalizedUsage(raw) = raw
    BY <1>1, SplitNormalized
<1> DEFINE n == NormalizedProfile(p)
           simulates == raw.read = 0 /\ raw.creation = 0 /\ sim.read + sim.creation > 0
           computed == IF simulates THEN {NormalizedUsage(c) : c \in ToReportUsage(raw, sim, n)} ELSE {raw}
           plain == [usage |-> raw, used |-> FALSE]
           report(c) == IF HasCache(c) THEN {[usage |-> u, used |-> simulates] : u \in Projected(c, raw, n)}
                        ELSE {plain}
<1>3. ApplyReportProfile(raw, sim, p) = IF ~p.enabled THEN {plain} ELSE UNION {report(c) : c \in computed}
    BY <1>2 DEF ApplyReportProfile
<1>4. ASSUME r = plain PROVE ReportedWell(r, raw, sim, p)
    <2>1. r.usage = raw /\ r.used = FALSE
        BY <1>4
    <2>2. raw.m5 = 0 /\ raw.h1 = 0 /\ raw.creation = 0
        BY DEF Raw
    <2>3. raw.input + raw.read >= raw.input /\ raw.input <= raw.input
        BY <1>1
    <2>4. raw.m5 + raw.h1 <= raw.creation
        BY <2>2
    <2> HIDE DEF plain
    <2> QED BY ONLY <1>1, <2>1, <2>3, <2>4, Zenon DEF ReportedWell
<1>5. ASSUME p.enabled, r # plain PROVE ReportedWell(r, raw, sim, p)
    <2>1. InShape(n, p)
        BY <1>5, ProfileNormalized
    <2> HIDE DEF n
    <2>2. PICK c \in computed : r \in report(c)
        BY <1>3, <1>5
    <2>3. PICK u \in Projected(c, raw, n) : r = [usage |-> u, used |-> simulates]
        BY <2>2, <1>5
    <2>4. r.usage = u /\ r.used = simulates
        BY <2>3
    <2>5. /\ Split(c) /\ c.input = raw.input /\ c.output = raw.output
          /\ simulates => c.read + c.creation <= Limit(raw.input, p.cap)
        <3>1. CASE simulates
            <4>1. PICK d \in ToReportUsage(raw, sim, n) : c = NormalizedUsage(d)
                BY <3>1, <2>2
            <4>2. /\ Split(d) /\ d.input = raw.input /\ d.output = raw.output
                  /\ d.read + d.creation <= Limit(raw.input, p.cap)
                BY <3>1, <4>1, <2>1, SimulatedUsage
            <4> QED BY <4>1, <4>2, SplitNormalized
        <3>2. CASE ~simulates
            BY <3>2, <2>2, <1>1
        <3> QED BY <3>1, <3>2
    <2>6. ProjectedFrom(u, c, raw, p)
        BY <2>1, <2>3, <2>5, ProjectedUsage
    <2>7. u.input \in Nat /\ u.read \in Nat /\ u.creation \in Nat /\ c.read \in Nat /\ c.creation \in Nat
        BY <2>5, <2>6 DEF ProjectedFrom, Split, Tokens
    <2>8. Limit(raw.input, p.cap) \in Int
        BY <1>1, <2>1 DEF Limit, Max2, InShape
    <2>9. simulates => u.read + u.creation <= Limit(raw.input, p.cap) + (raw.input - u.input)
        <3> SUFFICES ASSUME simulates PROVE u.read + u.creation <= Limit(raw.input, p.cap) + (raw.input - u.input)
            OBVIOUS
        <3>1. /\ c.read + c.creation <= Limit(raw.input, p.cap)
              /\ u.read + u.creation <= c.read + c.creation + (raw.input - u.input)
            BY <2>5, <2>6 DEF ProjectedFrom
        <3> QED BY <3>1, <2>7, <2>8, <1>1
    <2>10. simulates \in BOOLEAN /\ (simulates => raw.read = 0 /\ sim.read + sim.creation > 0)
        OBVIOUS
    <2> HIDE DEF simulates
    <2> QED BY <2>4, <2>6, <2>9, <2>10 DEF ReportedWell, ProjectedFrom
<1> QED BY <1>3, <1>4, <1>5
----------------------------------------------------------------------------
(* Plans, the tracker and the answers *)

\* The profile that the tracker works with for a request whose handler is in
\* state s.
ProfileFor(q, s) ==
    LET req == [scope |-> input[q].scope, toolBlocks |-> input[q].toolBlocks, system |-> input[q].system,
                msgs |-> IF InLoop(q) THEN input[q].msgs ELSE s.msgs]
    IN  IF Profile(q).enabled THEN PlanProfile(req, s.prompt, Profile(q)) ELSE NoProfile

\* A plan is there only between the upstream's response and the answer, and
\* only for a profile that promises some tokens.
PlanOK(q, s) ==
    /\ s.plan.ok \in BOOLEAN /\ UsageTyped(s.plan.usage)
    /\ ~s.plan.ok => s.plan = NoPlan
    /\ s.plan.ok => HasPlan(ProfileFor(q, s), Ratio(q))
    /\ s.pc \in {"new", "call", "done"} => s.plan = NoPlan

\* The answer's usage: what ReportConsistent says of it.
ReportFits(a) ==
    Profile(a.q).enabled =>
        /\ a.report.m5 + a.report.h1 <= a.report.creation
        /\ a.used /\ Profile(a.q).ttlFields => a.report.m5 + a.report.h1 = a.report.creation
        /\ a.report.input <= a.raw.input /\ (a.raw.input > 0 => a.report.input > 0)
        /\ Profile(a.q).input.move => a.report.input + a.report.read >= a.raw.input
        /\ a.used => a.raw.read = 0
        /\ a.used => a.report.read + a.report.creation <=
                        Limit(a.raw.input, Profile(a.q).cap) + (a.raw.input - a.report.input)

AnswersOK ==
    /\ answer = {} \/ \E a : answer = {a}
    /\ \A a \in answer : a.report \in Tokens /\ ReportFits(a)

PlanInv == (\A q \in DOMAIN input : PlanOK(q, st[q])) /\ AnswersOK

\* What ReadsBacked says of a new plan.
PlanBacked(q, s) ==
    LET prof == ProfileFor(q, s)
        read == s.plan.usage.read
        backed == Backed(q, prof)
    IN  /\ read > 0 => \E n \in backed : read <= ledger[Key(input[q].scope, prof.fps[n])].cached
        /\ backed # {} /\ ~evicted => read > 0

\* One request moves on, with a plan that is backed, and leaves the tracker and
\* the answer in order.
Plans(q) ==
    /\ \E s : /\ st' = [st EXCEPT ![q] = s]
              /\ PlanOK(q, s)
              /\ s.plan.ok /\ ~st[q].plan.ok =>
                    PlanBacked(q, s) /\ s.msgs = st[q].msgs
    /\ CacheInv'
    /\ answer' = {} \/ \E a : answer' = {a}
    /\ \A a \in answer' : a.report \in Tokens /\ ReportFits(a)

\* The profile that a route selects is one of the configured ones.
LEMMA ProfileSelected ==
    ASSUME NEW q, Profile(q).enabled PROVE Profile(q) \in ReportProfile
<1>1. PICK name : Profile(q) = IF name \in DOMAIN Reports.profiles THEN Reports.profiles[name] ELSE NoProfileMatched
    <2> DEFINE path == input[q].path
               prefixes == {p \in DOMAIN Reports.routes : PathMatches(NormalizePathPrefix(p), path)}
               longest == CHOOSE p \in prefixes :
                      \A o \in prefixes : Len(NormalizePathPrefix(o)) <= Len(NormalizePathPrefix(p))
               found == IF prefixes = {} THEN Reports.fallback ELSE Reports.routes[longest]
    <2>1. Profile(q) = IF found \in DOMAIN Reports.profiles THEN Reports.profiles[found] ELSE NoProfileMatched
        BY DEF Profile, MatchProfile
    <2> HIDE DEF found
    <2> QED BY <2>1
<1>2. ~NoProfileMatched.enabled
    BY DEF NoProfileMatched
<1> QED BY <1>1, <1>2, ReportsAssumption

\* The ratio of a request's profile.
LEMMA RatioNat == ASSUME NEW q PROVE Ratio(q) \in Nat
BY ProfileSelected DEF Ratio, ReportProfile

\* What the tracker is given is in order.
LEMMA ProfileForOK ==
    ASSUME PipelineInv, NEW q \in DOMAIN input, NEW s, IsConversation(s.msgs), s.prompt \in Nat
    PROVE  ProfileOK(ProfileFor(q, s))
<1>1. PICK req : /\ req = [scope |-> input[q].scope, toolBlocks |-> input[q].toolBlocks, system |-> input[q].system,
                           msgs |-> IF InLoop(q) THEN input[q].msgs ELSE s.msgs]
                 /\ ProfileFor(q, s) = IF Profile(q).enabled THEN PlanProfile(req, s.prompt, Profile(q)) ELSE NoProfile
    BY DEF ProfileFor
<1>2. ReqOK(req)
    BY <1>1, InputTalks DEF ReqOK
<1>3. ProfileOK(NoProfile)
    BY DEF ProfileOK, NoProfile
<1>4. ProfileOK(BuildProfile(req, s.prompt, Profile(q).synthesize))
    BY <1>2, ProfileMade
<1> QED BY <1>1, <1>3, <1>4 DEF PlanProfile

\* The tracker's view of a request whose messages have not changed.
LEMMA SameProfile ==
    ASSUME NEW q, NEW s, s.msgs = st[q].msgs
    PROVE  CacheProfile(q, s.prompt) = ProfileFor(q, s)
BY DEF CacheProfile, ProfileFor, TrackedRequest

\* A plan that is made says "read" only of what the ledger knows.
LEMMA PlanMade ==
    ASSUME PipelineInv, CacheInv, NEW q \in DOMAIN input, NEW s, IsConversation(s.msgs), s.prompt \in Nat,
           NEW prof, prof = ProfileFor(q, s), s.plan = BuildPlan(input[q].scope, prof, Ratio(q)),
           s.pc \notin {"new", "call", "done"}
    PROVE  PlanOK(q, s) /\ (s.plan.ok => PlanBacked(q, s))
<1>1. ProfileOK(prof) /\ Ratio(q) \in Nat
    BY ProfileForOK, RatioNat
<1>2. CASE ~HasPlan(prof, Ratio(q))
    <2>1. s.plan = NoPlan
        BY <1>2 DEF BuildPlan
    <2> QED BY <2>1 DEF PlanOK, NoPlan, NoUsage, UsageTyped
<1>3. CASE HasPlan(prof, Ratio(q))
    <2>1. PICK c, scope, r : c = Compute(scope, prof, r) /\ scope = input[q].scope /\ r = Ratio(q)
        OBVIOUS
    <2>2. s.plan.ok = TRUE /\ s.plan.usage = c.usage
        BY <1>3, <2>1 DEF BuildPlan
    <2>3. /\ UsageTyped(c.usage)
          /\ c.usage.read > 0 => \E n \in DOMAIN prof.fps :
                 /\ Matches(entries, scope, prof, n)
                 /\ c.usage.read <= entries[Key(scope, prof.fps[n])].cached
          /\ (\E n \in DOMAIN prof.fps : Matches(entries, scope, prof, n)) => c.usage.read > 0
        BY <1>1, <1>3, <2>1, ComputeFacts
    <2>4. PlanOK(q, s)
        BY <1>3, <2>2, <2>3 DEF PlanOK
    <2>5. ASSUME NEW n \in DOMAIN prof.fps, Matches(entries, scope, prof, n)
          PROVE  n \in Backed(q, prof) /\ ledger[Key(scope, prof.fps[n])] = entries[Key(scope, prof.fps[n])]
        BY <2>1, <2>5 DEF Matches, Backed, CacheInv, PartOf
    <2>6. ASSUME NEW n \in Backed(q, prof), ~evicted
          PROVE  n \in DOMAIN prof.fps /\ Matches(entries, scope, prof, n)
        BY <2>1, <2>6 DEF Matches, Backed, CacheInv, PartOf
    <2>7. c.usage.read > 0 => \E n \in Backed(q, prof) : c.usage.read <= ledger[Key(scope, prof.fps[n])].cached
        BY <2>3, <2>5
    <2>8. Backed(q, prof) # {} /\ ~evicted => c.usage.read > 0
        BY <2>3, <2>6
    <2> QED BY <2>1, <2>2, <2>4, <2>7, <2>8 DEF PlanBacked
<1> QED BY <1>2, <1>3

\* A step without a plan, that leaves the tracker alone.
LEMMA SetPlans ==
    ASSUME CacheInv, NEW q, NEW s, Set(q, s), s.plan = NoPlan, now' = now, UNCHANGED cacheVars
    PROVE  Plans(q)
<1>1. PlanOK(q, s) /\ ~s.plan.ok
    BY DEF PlanOK, NoPlan, NoUsage, UsageTyped
<1>2. CacheInv'
    BY SameCache
<1> QED BY <1>1, <1>2 DEF Plans, Set

\* A request that fails has no plan.
LEMMA FailPlans ==
    ASSUME CacheInv, NEW q, Fail(q), now' = now, UNCHANGED cacheVars PROVE Plans(q)
<1>1. Done.plan = NoPlan
    BY DEF Done, Fresh
<1> QED BY <1>1, SetPlans DEF Fail

\* An empty answer drops the plan.
LEMMA EmptyAnswerPlans ==
    ASSUME CacheInv, NEW q, NEW s, HasFields(s), EmptyAnswer(q, s), now' = now, UNCHANGED cacheVars
    PROVE  Plans(q)
<1>1. SecondRun(q, s).plan = NoPlan
    BY DEF SecondRun, HasFields
<1> QED BY <1>1, SetPlans, FailPlans DEF EmptyAnswer

\* The upstream's own counts.
LEMMA RawCounted ==
    ASSUME NEW s, s.prompt \in Nat, NEW reads \in Nat
    PROVE  Raw(RawUsage(s, reads))
BY DEF RawUsage, NoTokens, Raw, Tokens

\* An answer whose usage fits.
LEMMA GivePlans ==
    ASSUME NEW q, NEW s, NEW raw, NEW report, NEW used, Give(q, s, raw, report, used), CacheInv',
           report \in Tokens, NEW a, a = [q |-> q, run |-> s, raw |-> raw, report |-> report, used |-> used],
           ReportFits(a)
    PROVE  Plans(q)
<1>1. Done.plan = NoPlan
    BY DEF Done, Fresh
<1>2. PlanOK(q, Done) /\ ~Done.plan.ok
    BY <1>1 DEF PlanOK, NoPlan, NoUsage, UsageTyped
<1>3. st' = [st EXCEPT ![q] = Done] /\ answer' = {a} /\ a.report = report
    BY DEF Give
<1> QED BY <1>2, <1>3 DEF Plans

\* Finish or BuildResponse: s has the plan and the prompt of the handler.
LEMMA AnswerPlans ==
    ASSUME PipelineInv, CacheInv, NEW q \in DOMAIN input, PlanOK(q, st[q]), IsConversation(st[q].msgs),
           NEW s, s.plan = st[q].plan, s.prompt = st[q].prompt, s.prompt \in Nat,
           AnswerAndCommit(q, s), now' = now
    PROVE  Plans(q)
<1> DEFINE gives(reads, r) ==
         /\ r \in ApplyReportProfile(RawUsage(s, reads), s.plan.usage, Profile(q))
         /\ Give(q, [s EXCEPT !.counted = Append(@, s.round)], RawUsage(s, reads), r.usage, r.used)
         /\ IF r.used THEN Commit(input[q].scope, CacheProfile(q, s.prompt), Ratio(q))
            ELSE UNCHANGED cacheVars
<1>1. PICK reads \in UpstreamReads : \E r : gives(reads, r)
    BY DEF AnswerAndCommit
<1>r. PICK r : gives(reads, r)
    BY <1>1
<1>2. PICK raw, p, sim : raw = RawUsage(s, reads) /\ p = Profile(q) /\ sim = s.plan.usage
    OBVIOUS
<1>3. Raw(raw) /\ UsageTyped(sim) /\ (p.enabled => p \in ReportProfile)
    BY <1>r, <1>1, <1>2, RawCounted, ProfileSelected, PipelineAssumption DEF PlanOK
<1>4. ReportedWell(r, raw, sim, p)
    BY <1>r, <1>1, <1>2, <1>3, ReportWell
<1>5. PICK a : a = [q |-> q, run |-> [s EXCEPT !.counted = Append(@, s.round)], raw |-> raw,
                    report |-> r.usage, used |-> r.used]
    OBVIOUS
<1>6. a.q = q /\ a.raw = raw /\ a.report = r.usage /\ a.used = r.used
    BY <1>5
<1>7. ReportFits(a) /\ r.usage \in Tokens
    BY <1>2, <1>4, <1>6 DEF ReportFits, ReportedWell
<1>8. CacheInv'
    <2>1. CASE ~r.used
        BY <1>r, <1>1, <2>1, SameCache
    <2>2. CASE r.used
        <3>1. sim.read + sim.creation > 0
            BY <1>4, <2>2 DEF ReportedWell
        <3>2. st[q].plan.ok
            BY <1>2, <3>1 DEF PlanOK, NoPlan, NoUsage
        <3>3. PICK prof : prof = ProfileFor(q, st[q])
            OBVIOUS
        <3>4. prof.ok /\ ProfileOK(prof) /\ Ratio(q) \in Nat
            BY <3>2, <3>3, ProfileForOK, RatioNat DEF PlanOK, HasPlan
        <3>5. CacheProfile(q, s.prompt) = prof
            BY <3>3, SameProfile
        <3>6. Commit(input[q].scope, prof, Ratio(q))
            BY <1>r, <1>1, <2>2, <3>5
        <3> QED BY <3>4, <3>6, CommitKeepsCache
    <2> QED BY <2>1, <2>2
<1> QED BY <1>r, <1>1, <1>2, <1>5, <1>7, <1>8, GivePlans

\* A loop goes on, or ends with its last answer.
LEMMA ContinuePlans ==
    ASSUME PipelineInv, CacheInv, NEW q \in DOMAIN input, PlanOK(q, st[q]), IsConversation(st[q].msgs),
           NEW s, HasFields(s), s.plan = st[q].plan, s.prompt = st[q].prompt, s.prompt \in Nat,
           Continue(q, s), now' = now
    PROVE  Plans(q)
<1>1. CASE Set(q, NextRound(q, s)) /\ UNCHANGED cacheVars
    <2>1. NextRound(q, s).plan = NoPlan
        BY DEF NextRound, HasFields
    <2> QED BY <1>1, <2>1, SetPlans
<1>2. CASE AnswerAndCommit(q, s)
    BY <1>2, AnswerPlans
<1>3. CASE EmptyAnswer(q, s) /\ UNCHANGED cacheVars
    BY <1>3, EmptyAnswerPlans
<1>4. CASE Give(q, s, RawUsage(s, 0), RawUsage(s, 0), FALSE) /\ UNCHANGED cacheVars
    <2>1. PICK raw, a : /\ raw = RawUsage(s, 0)
                        /\ a = [q |-> q, run |-> s, raw |-> raw, report |-> raw, used |-> FALSE]
        OBVIOUS
    <2>2. Raw(raw)
        BY <2>1, RawCounted
    <2>3. raw \in Tokens /\ raw.input \in Nat /\ raw.read \in Nat /\ raw.m5 + raw.h1 = raw.creation /\ raw.creation = 0
        BY <2>2 DEF Raw, Tokens
    <2>4. raw.input <= raw.input /\ raw.input + raw.read >= raw.input /\ raw.m5 + raw.h1 <= raw.creation
        BY <2>3
    <2>5. a.q = q /\ a.raw = raw /\ a.report = raw /\ ~a.used
        BY <2>1
    <2>6. ReportFits(a)
        BY <2>4, <2>5 DEF ReportFits
    <2>7. CacheInv'
        BY <1>4, SameCache
    <2> QED BY <1>4, <2>1, <2>3, <2>6, <2>7, GivePlans
<1> QED BY <1>1, <1>2, <1>3, <1>4 DEF Continue, RoundsUsedUp

\* A plan is made with what the tracker holds, and the tracker told of it.
LEMMA TrackPlans ==
    ASSUME PipelineInv, CacheInv, NEW q \in DOMAIN input, NEW s, s.msgs = st[q].msgs, IsConversation(s.msgs),
           s.prompt \in Nat, s.pc \notin {"new", "call", "done"}, Set(q, s), now' = now,
           NEW prof, prof = CacheProfile(q, s.prompt),
           s.plan = BuildPlan(input[q].scope, prof, Ratio(q)), Track(input[q].scope, prof, Ratio(q))
    PROVE  Plans(q)
<1>1. prof = ProfileFor(q, s)
    BY SameProfile
<1>2. PlanOK(q, s) /\ (s.plan.ok => PlanBacked(q, s))
    BY <1>1, PlanMade
<1>3. CacheInv'
    BY <1>1, ProfileForOK, RatioNat, TrackKeepsCache
<1>4. st' = [st EXCEPT ![q] = s] /\ answer' = {}
    BY DEF Set
<1> QED BY <1>2, <1>3, <1>4 DEF Plans

\* A request arrives, or a call of its client ends.
LEMMA CallPlans ==
    ASSUME PipelineInv, TalkInv, CacheInv, PlanInv, NEW q \in DOMAIN input, Arrive(q) \/ Call(q)
    PROVE  Plans(q)
<1>1. HasFields(st[q]) /\ TalkOK(q, st[q]) /\ PlanOK(q, st[q])
    BY DEF PipelineInv, StateOK, TalkInv, PlanInv
<1>2. CASE Arrive(q)
    <2> DEFINE s == [st[q] EXCEPT !.pc = "call", !.msgs = input[q].msgs, !.active = input[q].tools,
                                  !.deferred = input[q].deferred]
               t == IF input[q].mode = "search" THEN PromoteTools(s, ExtractToolReferences(input[q].msgs)) ELSE s
    <2>1. st[q].plan = NoPlan
        BY <1>1, <1>2 DEF Arrive, PlanOK
    <2>2. HasFields(s) /\ s.plan = NoPlan
        BY <1>1, <2>1 DEF HasFields
    <2>3. Set(q, t) /\ now' = now /\ UNCHANGED cacheVars
        BY <1>2 DEF Arrive, cacheVars
    <2> HIDE DEF s
    <2>4. t.plan = NoPlan
        BY <2>2 DEF PromoteTools, HasFields
    <2> HIDE DEF t
    <2> QED BY <2>3, <2>4, SetPlans
<1>3. CASE AttemptFails(q) /\ st[q].attempt < MaxRetries
    <2> DEFINE t == [st[q] EXCEPT !.attempt = @ + 1]
    <2>1. t.plan = NoPlan
        BY <1>1, <1>3 DEF AttemptFails, PlanOK, HasFields
    <2>2. Set(q, t) /\ now' = now /\ UNCHANGED cacheVars
        BY <1>3 DEF AttemptFails, cacheVars
    <2> HIDE DEF t
    <2> QED BY <2>1, <2>2, SetPlans
<1>4. CASE Fail(q) /\ now' = now /\ UNCHANGED cacheVars
    BY <1>4, FailPlans
<1>5. CASE Respond(q)
    <2>1. st[q].pc = "call" /\ TalkBody(q, st[q]) /\ now' = now
        BY <1>1, <1>5 DEF Respond, TalkOK
    <2>2. PICK prompt, prof, plan, counted :
             /\ prompt = IF input[q].counts THEN PromptTokens(Payload(q)) ELSE 0
             /\ prof = CacheProfile(q, prompt)
             /\ plan = IF PlansEarly(q) THEN BuildPlan(input[q].scope, prof, Ratio(q)) ELSE NoPlan
             /\ counted = IF Carries(q) THEN Append(st[q].counted, st[q].round - 1) ELSE st[q].counted
             /\ Set(q, [st[q] EXCEPT !.pc = "stream", !.prompt = prompt, !.plan = plan, !.counted = counted])
             /\ IF PlansEarly(q) THEN Track(input[q].scope, prof, Ratio(q)) ELSE UNCHANGED cacheVars
        BY <1>5 DEF Respond
    <2> DEFINE t == [st[q] EXCEPT !.pc = "stream", !.prompt = prompt, !.plan = plan, !.counted = counted]
    <2>3. t.prompt = prompt /\ t.msgs = st[q].msgs /\ t.plan = plan /\ t.pc = "stream"
        BY <1>1 DEF HasFields
    <2>4. prompt \in Nat
        BY <2>1, <2>2, InputTalks, PromptCounted DEF Payload, TalkBody
    <2>5. Set(q, t) /\ IsConversation(st[q].msgs)
        BY <2>1, <2>2 DEF TalkBody
    <2> HIDE DEF t
    <2>6. CASE PlansEarly(q)
        BY <2>1, <2>2, <2>3, <2>4, <2>5, <2>6, TrackPlans
    <2>7. CASE ~PlansEarly(q)
        BY <2>1, <2>2, <2>3, <2>5, <2>7, SetPlans
    <2> QED BY <2>6, <2>7
<1> QED BY <1>2, <1>3, <1>4, <1>5 DEF Call, AttemptFails, CallEnds, cacheVars

\* A loop goes on with the plan of its last round.
LEMMA LoopPlans ==
    ASSUME PipelineInv, TalkInv, CacheInv, PlanInv, NEW q \in DOMAIN input,
           Search(q) \/ Think(q) \/ WithheldCall(q)
    PROVE  Plans(q)
<1>1. /\ HasFields(st[q]) /\ PlanOK(q, st[q]) /\ IsConversation(st[q].msgs) /\ st[q].prompt \in Nat
      /\ now' = now
    BY DEF PipelineInv, StateOK, TalkInv, TalkOK, TalkBody, PlanInv, Search, Think, WithheldCall
<1>2. CASE Search(q)
    <2>1. PICK found, msgs :
             Continue(q, [PromoteTools(st[q], found) EXCEPT !.msgs = msgs,
                             !.seen = Seen(q, TRUE), !.counted = CountsNow(q)])
        <3>1. PICK found, result :
                 Continue(q, [PromoteTools(st[q], found) EXCEPT
                             !.msgs = @ \o Exchange(q, "server_tool_use", result, <<>>),
                             !.seen = Seen(q, TRUE), !.counted = CountsNow(q)])
            BY <1>2 DEF Search
        <3> QED BY <3>1
    <2> DEFINE u == PromoteTools(st[q], found)
               s == [u EXCEPT !.msgs = msgs, !.seen = Seen(q, TRUE), !.counted = CountsNow(q)]
    <2>2. HasFields(u) /\ u.prompt = st[q].prompt /\ u.plan = st[q].plan
        BY <1>1 DEF PromoteTools, HasFields
    <2>3. Continue(q, s)
        BY <2>1
    <2> HIDE DEF u
    <2>4. HasFields(s) /\ s.prompt = st[q].prompt /\ s.plan = st[q].plan
        BY <2>2 DEF HasFields
    <2> HIDE DEF s
    <2> QED BY <1>1, <2>3, <2>4, ContinuePlans
<1>3. CASE Think(q)
    <2>1. PICK text, msgs :
             Continue(q, [st[q] EXCEPT !.msgs = msgs, !.preserve = TRUE,
                                       !.seen = Seen(q, text), !.counted = CountsNow(q)])
        BY <1>3 DEF Think
    <2> DEFINE s == [st[q] EXCEPT !.msgs = msgs, !.preserve = TRUE,
                                  !.seen = Seen(q, text), !.counted = CountsNow(q)]
    <2>2. HasFields(s) /\ s.prompt = st[q].prompt /\ s.plan = st[q].plan
        BY <1>1 DEF HasFields
    <2>3. Continue(q, s)
        BY <2>1
    <2> HIDE DEF s
    <2> QED BY <1>1, <2>2, <2>3, ContinuePlans
<1>4. CASE WithheldCall(q)
    <2>1. PICK msgs : msgs = st[q].msgs \o Exchange(q, "tool_use", OkText, <<>>)
        OBVIOUS
    <2> DEFINE u == [st[q] EXCEPT !.msgs = msgs]
               s == [u EXCEPT !.retried = TRUE, !.preserve = TRUE, !.withheld = @ \cup {st[q].round}]
    <2>2. HasFields(u) /\ u.prompt = st[q].prompt /\ u.plan = st[q].plan
        BY <1>1 DEF HasFields
    <2>3. Continue(q, s) \/ ((Set(q, SecondRun(q, u)) \/ Fail(q)) /\ UNCHANGED cacheVars)
        BY <1>4, <2>1 DEF WithheldCall
    <2> HIDE DEF u
    <2>4. HasFields(s) /\ s.prompt = st[q].prompt /\ s.plan = st[q].plan
        BY <2>2 DEF HasFields
    <2>5. SecondRun(q, u).plan = NoPlan
        BY <2>2 DEF SecondRun, HasFields
    <2> HIDE DEF s
    <2> QED BY <1>1, <2>3, <2>4, <2>5, ContinuePlans, SetPlans, FailPlans
<1> QED BY <1>2, <1>3, <1>4

\* The end of an answer, with the plan made before or now.
LEMMA FinishPlans ==
    ASSUME PipelineInv, TalkInv, CacheInv, PlanInv, NEW q \in DOMAIN input,
           Answer(q) \/ AnswerEmpty(q) \/ PlanLate(q) \/ FinishLate(q)
    PROVE  Plans(q)
<1>1. /\ HasFields(st[q]) /\ PlanOK(q, st[q]) /\ IsConversation(st[q].msgs) /\ st[q].prompt \in Nat
      /\ now' = now
    BY DEF PipelineInv, StateOK, TalkInv, TalkOK, TalkBody, PlanInv, Answer, AnswerEmpty, PlanLate, FinishLate
<1>2. CASE AnswerAndCommit(q, st[q])
    BY <1>1, <1>2, AnswerPlans
<1>3. CASE EmptyAnswer(q, st[q]) /\ UNCHANGED cacheVars
    BY <1>1, <1>3, EmptyAnswerPlans
<1>4. CASE PlanLate(q)
    <2>1. PICK prof, plan :
             /\ prof = CacheProfile(q, st[q].prompt) /\ plan = BuildPlan(input[q].scope, prof, Ratio(q))
             /\ Set(q, [st[q] EXCEPT !.pc = "finish", !.plan = plan])
             /\ Track(input[q].scope, prof, Ratio(q))
        BY <1>4 DEF PlanLate
    <2> DEFINE t == [st[q] EXCEPT !.pc = "finish", !.plan = plan]
    <2>2. t.prompt = st[q].prompt /\ t.msgs = st[q].msgs /\ t.plan = plan /\ t.pc = "finish"
        BY <1>1 DEF HasFields
    <2>3. Set(q, t)
        BY <2>1
    <2> HIDE DEF t
    <2> QED BY <1>1, <2>1, <2>2, <2>3, TrackPlans
<1> QED BY <1>2, <1>3, <1>4 DEF Answer, AnswerEmpty, FinishLate, cacheVars

\* A step is one request's, with a plan that is backed, or it leaves all
\* requests alone.
LEMMA PlanStep ==
    ASSUME PipelineInv, TalkInv, CacheInv, PlanInv, [Next]_vars
    PROVE  /\ CacheInv'
           /\ \/ \E q \in DOMAIN input : Plans(q)
              \/ st' = st /\ (answer' = answer \/ answer' = {})
<1>1. CASE \E q \in DOMAIN input : Arrive(q) \/ Call(q) \/ EndOfAnswer(q)
    <2>1. PICK q \in DOMAIN input : Arrive(q) \/ Call(q) \/ EndOfAnswer(q)
        BY <1>1
    <2>2. Plans(q)
        BY <2>1, CallPlans, LoopPlans, FinishPlans DEF EndOfAnswer
    <2> QED BY <2>2 DEF Plans
<1>2. CASE Tick
    BY <1>2, TickKeepsCache DEF Tick, cacheVars
<1>3. CASE Janitor
    BY <1>3, SweepKeepsCache DEF Janitor
<1>4. CASE UNCHANGED vars
    BY <1>4, SameCache DEF vars, cacheVars
<1> QED BY <1>1, <1>2, <1>3, <1>4 DEF Next

\* The plans and the answers stay in order, whoever else moves.
LEMMA PlanPreserved == ASSUME PipelineInv, TalkInv, CacheInv, PlanInv, [Next]_vars PROVE PlanInv'
<1>1. input' = input
    BY PipelineStep
<1>2. \A q : Profile(q)' = Profile(q) /\ Ratio(q)' = Ratio(q)
    BY <1>1 DEF Profile, Ratio
<1>3. ASSUME NEW q, NEW s PROVE ProfileFor(q, s)' = ProfileFor(q, s)
    BY <1>1, <1>2 DEF ProfileFor, InLoop
<1>4. ASSUME NEW q, NEW s, PlanOK(q, s) PROVE PlanOK(q, s)'
    BY <1>2, <1>3, <1>4 DEF PlanOK
<1>5. ASSUME NEW a, ReportFits(a) PROVE ReportFits(a)'
    BY <1>2, <1>5 DEF ReportFits
<1>6. CASE \E q \in DOMAIN input : Plans(q)
    <2>1. PICK q \in DOMAIN input : Plans(q)
        BY <1>6
    <2>2. PICK s : st' = [st EXCEPT ![q] = s] /\ PlanOK(q, s)
        BY <2>1 DEF Plans
    <2>3. \A r \in DOMAIN input : st'[r] = IF r = q THEN s ELSE st[r]
        BY <2>2, InputsOK DEF PipelineInv
    <2>4. ASSUME NEW r \in DOMAIN input PROVE PlanOK(r, st[r])'
        <3>1. PICK t : t = st'[r]
            OBVIOUS
        <3>2. PlanOK(r, t)
            BY <3>1, <2>2, <2>3 DEF PlanInv
        <3>3. PlanOK(r, t)'
            BY <3>2, <1>4
        <3> QED BY <3>1, <3>3 DEF PlanOK, ProfileFor
    <2>5. AnswersOK'
        BY <1>5, <2>1 DEF Plans, AnswersOK
    <2> QED BY <1>1, <2>4, <2>5 DEF PlanInv
<1>7. CASE st' = st /\ (answer' = answer \/ answer' = {})
    <2>1. ASSUME NEW r \in DOMAIN input PROVE PlanOK(r, st[r])'
        <3>1. PICK t : t = st'[r] /\ t = st[r]
            BY <1>7
        <3>2. PlanOK(r, t)'
            BY <3>1, <1>4 DEF PlanInv
        <3> QED BY <3>1, <3>2 DEF PlanOK, ProfileFor
    <2>2. AnswersOK'
        BY <1>5, <1>7 DEF PlanInv, AnswersOK
    <2> QED BY <1>1, <2>1, <2>2 DEF PlanInv
<1> QED BY <1>6, <1>7, PlanStep

\* The invariant of the tracker and of the plans made with it: the entries are
\* part of what the answers have committed and within the limits, none that
\* lives is missing unless a limit took it, and a plan belongs to an answer
\* that is under way.
THEOREM TrackerInvariant == Spec => [](CacheInv /\ PlanInv)
<1>1. Init => CacheInv /\ PlanInv
    <2> SUFFICES ASSUME Init PROVE CacheInv /\ PlanInv
        OBVIOUS
    <2>1. now = 0 /\ lastPrune = -1 /\ evicted = FALSE /\ answer = {}
        BY DEF Init, CacheInit
    <2>2. DOMAIN entries = {} /\ DOMAIN ledger = {}
        BY DEF Init, CacheInit
    <2>3. ScopesOf(entries) = {}
        BY <2>2 DEF ScopesOf
    <2>4. IsFiniteSet({}) /\ Cardinality({}) = 0
        BY FS_EmptySet
    <2>5. Bounded(entries)
        BY <2>2, <2>3, <2>4, PromptCacheAssumption DEF Bounded
    <2>6. CacheInv
        <3>1. now \in Nat /\ lastPrune \in -1..now
            <4>1. -1 \in -1..0
                OBVIOUS
            <4> QED BY <4>1, <2>1
        <3>2. evicted \in BOOLEAN
            BY <2>1
        <3> QED BY <3>1, <3>2, <2>2, <2>5 DEF CacheInv, PartOf
    <2>7. ASSUME NEW q \in DOMAIN input PROVE PlanOK(q, st[q])
        <3>1. q \in Requests
            BY PipelineAssumption DEF Init
        <3>2. st[q].plan = NoPlan
            BY <3>1 DEF Init, Fresh
        <3> QED BY <3>2 DEF PlanOK, NoPlan, NoUsage, UsageTyped
    <2> QED BY <2>1, <2>6, <2>7 DEF PlanInv, AnswersOK
<1>2. PipelineInv /\ TalkInv /\ (CacheInv /\ PlanInv) /\ [Next]_vars => (CacheInv /\ PlanInv)'
    BY PlanStep, PlanPreserved
<1> QED BY <1>1, <1>2, PipelineInvariant, TalkInvariant, PTL DEF Spec

\* Every plan that says "read from the cache" is backed by a live entry that an
\* answer has committed, and says so whenever there is one and no limit has
\* evicted anything, in any interleaving of requests, prunings and evictions.
THEOREM PlansBacked == Spec => ReadsBacked
<1>1. ASSUME PipelineInv, TalkInv, CacheInv, PlanInv, [Next]_vars, NEW q \in DOMAIN input,
             st'[q].plan.ok, ~st[q].plan.ok
      PROVE  PlanBacked(q, st'[q]) /\ st'[q].msgs = st[q].msgs
    <2>1. PICK r \in DOMAIN input : Plans(r)
        BY <1>1, PlanStep
    <2>2. PICK s : /\ st' = [st EXCEPT ![r] = s]
                   /\ s.plan.ok /\ ~st[r].plan.ok => PlanBacked(r, s) /\ s.msgs = st[r].msgs
        BY <2>1 DEF Plans
    <2>3. q = r /\ st'[q] = s
        BY <1>1, <2>2, InputsOK DEF PipelineInv
    <2>4. s.plan.ok /\ ~st[r].plan.ok
        BY <1>1, <2>3
    <2> QED BY <2>2, <2>3, <2>4
<1>2. ASSUME PipelineInv, TalkInv, CacheInv, PlanInv, [Next]_vars, NEW q \in DOMAIN input,
             st'[q].plan.ok, ~st[q].plan.ok, NEW prof, prof = CacheProfile(q, st'[q].prompt)
      PROVE  /\ st'[q].plan.usage.read > 0 =>
                  \E n \in Backed(q, prof) : st'[q].plan.usage.read <= ledger[Key(input[q].scope, prof.fps[n])].cached
             /\ Backed(q, prof) # {} /\ ~evicted => st'[q].plan.usage.read > 0
    <2>1. PICK s : s = st'[q]
        OBVIOUS
    <2>2. PlanBacked(q, s) /\ prof = ProfileFor(q, s)
        BY <1>1, <1>2, <2>1, SameProfile
    <2> QED BY <2>1, <2>2 DEF PlanBacked
<1>3. PipelineInv /\ TalkInv /\ (CacheInv /\ PlanInv) /\ [Next]_vars =>
        \A q \in DOMAIN input : st'[q].plan.ok /\ ~st[q].plan.ok =>
          LET prof == CacheProfile(q, st'[q].prompt)
              read == st'[q].plan.usage.read
              backed == Backed(q, prof)
          IN  /\ read > 0 => \E n \in backed : read <= ledger[Key(input[q].scope, prof.fps[n])].cached
              /\ backed # {} /\ ~evicted => read > 0
    BY <1>2
<1> QED BY <1>3, PipelineInvariant, TalkInvariant, TrackerInvariant, PTL DEF Spec, ReadsBacked

\* The usage of every answer adds up and stays within the profile's limits,
\* whatever was planned, sampled and amplified for it.
THEOREM ReportsConsistent == Spec => []ReportConsistent
<1>1. PlanInv => ReportConsistent
    BY DEF PlanInv, AnswersOK, ReportFits, ReportConsistent, Limit
<1> QED BY <1>1, TrackerInvariant, PTL

\* Types and limits: the tracker never holds more than its limits allow, no
\* tool is both offered and deferred, and no count of an answer is negative.
THEOREM PipelineTyped == Spec => []TypeOK
<1>1. ASSUME PipelineInv, TalkInv, CacheInv, PlanInv PROVE TypeOK
    <2>1. CacheTypeOK
        <3>1. \A k \in DOMAIN entries : EntryTyped(entries[k])
            BY <1>1 DEF CacheInv, PartOf
        <3> QED BY <1>1, <3>1 DEF CacheTypeOK, CacheInv, Bounded, EntryTyped
    <2>2. ASSUME NEW q \in DOMAIN input
          PROVE  /\ st[q].pc \in {"new", "call", "stream", "finish", "done"}
                 /\ st[q].run \in 1..2 /\ st[q].round \in 1..MaxRounds(q) /\ st[q].attempt \in 0..MaxRetries
                 /\ st[q].active \cap st[q].deferred = {}
                 /\ st[q].plan.ok \in BOOLEAN
        BY <1>1 DEF PipelineInv, StateOK, TalkInv, TalkOK, PlanInv, PlanOK
    <2>3. Cardinality(answer) <= 1
        <3>1. CASE answer = {}
            BY <3>1, FS_EmptySet
        <3>2. CASE \E a : answer = {a}
            <4>1. PICK a : answer = {a}
                BY <3>2
            <4>2. Cardinality({a}) = 1
                BY FS_Singleton
            <4> QED BY <4>1, <4>2
        <3> QED BY <1>1, <3>1, <3>2 DEF PlanInv, AnswersOK
    <2>4. ASSUME NEW a \in answer, NEW f \in DOMAIN a.report PROVE a.report[f] \in Nat
        <3>1. a.report \in Tokens
            BY <1>1 DEF PlanInv, AnswersOK
        <3> QED BY <3>1, <2>4 DEF Tokens
    <2> QED BY <2>1, <2>2, <2>3, <2>4 DEF TypeOK
<1> QED BY <1>1, PipelineInvariant, TalkInvariant, TrackerInvariant, PTL
============================================================================
