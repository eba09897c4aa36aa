------------------------------- MODULE Usage -------------------------------
(***************************************************************************)
(* Usage records: internal/usage.  Publish appends a record to a ring in   *)
(* memory and hands it to a goroutine that writes it to PostgreSQL; the    *)
(* admin server's questions are answered from the ring where the ring is   *)
(* thought to suffice, from PostgreSQL otherwise.                          *)
(*                                                                         *)
(* A record is [trace, ts, cred, model, key, device, status, tokens]; its  *)
(* token and latency columns are treated alike everywhere and are one.     *)
(***************************************************************************)
EXTENDS Integers, Sequences, FiniteSets, SequencesExt, FiniteSetsExt, TLC

CONSTANTS
    RingSize,     \* -usage-mem-cap
    BufferSize    \* writeBufferSize

ASSUME UsageAssumption == RingSize \in Nat \ {0} /\ BufferSize \in Nat \ {0}

VARIABLES
    ring,      \* MemoryStore: buf and head; full iff head has been used
    writes,    \* DefaultAggregator.writes
    closed,    \* DefaultAggregator.closed: the channel is closed
    writer,    \* runWriter: "waiting", "appending" or "done"
    inHand,    \* the record it is appending, if any
    open,      \* the prepared statement of the PostgreSQL store is open
    stored,    \* the table usage_records
    \* history
    accepted,  \* records of this process that entered the channel
    failed,    \* records whose append failed
    reordered  \* a record was published after one with a later timestamp

usageVars == <<ring, writes, closed, writer, inHand, open, stored, accepted, failed,
               reordered>>

EmptyRing == [buf |-> <<>>, head |-> 0, full |-> FALSE]

UsageInit ==
    /\ ring = EmptyRing
    /\ writes = <<>>
    /\ closed = FALSE
    /\ writer = "done" /\ inHand = <<>>
    /\ open = FALSE
    /\ stored = <<>>
    /\ accepted = {} /\ failed = {}
    /\ reordered = FALSE

----------------------------------------------------------------------------
(* The ring: store_memory.go *)

\* Mutant: the slot before the oldest record is overwritten.
AppendShifted(r, rec) ==
    IF Len(r.buf) < RingSize
    THEN [r EXCEPT !.buf = Append(@, rec)]
    ELSE [buf |-> [r.buf EXCEPT ![((r.head + 1) % RingSize) + 1] = rec],
          head |-> (r.head + 1) % RingSize, full |-> TRUE]

\* Slots are numbered from 0 in the code.
AppendRing(r, rec) ==
    IF Len(r.buf) < RingSize
    THEN [r EXCEPT !.buf = Append(@, rec)]
    ELSE [buf |-> [r.buf EXCEPT ![r.head + 1] = rec],
          head |-> (r.head + 1) % RingSize, full |-> TRUE]

Oldest(r) == IF r.full THEN r.buf[r.head + 1].ts ELSE r.buf[1].ts

\* The slot of the i-th newest record, i from 0.
NewestSlot(r, i) ==
    IF r.full THEN ((r.head - 1 - i + RingSize) % RingSize) + 1 ELSE Len(r.buf) - i

\* A filter names the values it accepts in each field; none means all.
matchFilter(rec, filter) ==
    \A f \in DOMAIN filter : filter[f] = {} \/ rec[f] \in filter[f]

FirstN(s, n) == SubSeq(s, 1, IF Len(s) < n THEN Len(s) ELSE n)

\* The members of I, each after the ones that before says come before it.
Ordered(I, before) == [k \in 1..Cardinality(I) |-> CHOOSE i \in I : Cardinality(before[i]) = k - 1]

\* The elements of s at the positions of I, as they come in s.
Kept(s, I) ==
    LET order == Ordered(I, [i \in I |-> {j \in I : j < i}])
    IN  [k \in 1..Cardinality(I) |-> s[order[k]]]

MemoryRecent(r, filter, limit) ==
    LET newestFirst == [i \in 1..Len(r.buf) |-> r.buf[NewestSlot(r, i - 1)]]
    IN  FirstN(Kept(newestFirst, {i \in 1..Len(r.buf) : matchFilter(newestFirst[i], filter)}), limit)

----------------------------------------------------------------------------
(* Rollups: applyToAggregate, addToCell and the timelines of the two stores *)

inWindow(rec, window) == window.start <= rec.ts /\ rec.ts < window.end

Cell(S) == [requests |-> Cardinality(S),
            success  |-> Cardinality({x \in S : x.status = "success"}),
            tokens   |-> MapThenSumSet(LAMBDA x : x.tokens, S)]

\* The cells of one dimension: a value that no record has gets none.
CellsBy(S, value) == [v \in {value[x] : x \in S} |-> Cell({x \in S : value[x] = v})]

applyToAggregate(S) ==
    [totals      |-> Cell(S),
     byCredModel |-> CellsBy(S, [x \in S |-> <<x.cred, x.model>>]),
     byAPIKey    |-> CellsBy(S, [x \in S |-> x.key]),
     byDevice    |-> CellsBy(S, [x \in S |-> x.device]),
     timeline    |-> <<>>]

\* Mutant: a window that is no multiple of the bucket loses its last part.
BucketsWhole(window) == (window.end - window.start) \div window.bucket

Buckets(window) == (window.end - window.start + window.bucket - 1) \div window.bucket

BucketOf(rec, window) == (rec.ts - window.start) \div window.bucket

\* Both stores lay the buckets out alike; a record outside of them is left out.
Timeline(S, window) ==
    IF window.bucket = 0 THEN <<>>
    ELSE [i \in 1..Buckets(window) |-> Cell({x \in S : BucketOf(x, window) = i - 1})]

Rollup(recs, filter, window) ==
    LET S == {x \in recs : inWindow(x, window) /\ matchFilter(x, filter)}
    IN  [applyToAggregate(S) EXCEPT !.timeline = Timeline(S, window)]

MemoryQuery(filter, window) == Rollup(ToSet(ring.buf), filter, window)

\* usage_records after the WHERE of postgresWhere; the rows and the timeline are
\* two queries, taken here at one moment.
PostgresQuery(filter, window) == Rollup(ToSet(stored), filter, window)

\* ORDER BY ts DESC LIMIT: ties come in any order, here in one of them.
PostgresRecent(filter, limit) ==
    LET rows  == {i \in 1..Len(stored) : matchFilter(stored[i], filter)}
        Later(i, j) == stored[i].ts > stored[j].ts \/ (stored[i].ts = stored[j].ts /\ i > j)
        order == Ordered(rows, [i \in rows |-> {j \in rows : Later(j, i)}])
    IN  FirstN([k \in 1..Cardinality(rows) |-> stored[order[k]]], limit)

----------------------------------------------------------------------------
(* DefaultAggregator: which store answers *)

\* Mutant: the ring is asked whenever it holds anything.
AskMemoryAlways(window) == ring.buf # <<>>

useMem(window) == ring.buf # <<>> /\ window.start >= Oldest(ring)

Query(filter, window) ==
    IF useMem(window) THEN MemoryQuery(filter, window) ELSE PostgresQuery(filter, window)

\* Mutant: what the ring returned already is not looked for.
SupplementAll(out, more, limit) == FirstN(out \o more, limit)

\* Records of PostgreSQL that the ring's part does not have yet, up to the limit.
Supplement(out, more, limit) ==
    LET new == {k \in 1..Len(more) : \A i \in 1..Len(out) : out[i].trace # more[k].trace}
    IN  FirstN(out \o Kept(more, new), limit)

\* A query that fails is answered by the ring's part alone.
Recent(filter, limit) ==
    LET out == MemoryRecent(ring, filter, limit)
    IN  IF Len(out) >= limit THEN out
        ELSE Supplement(out, PostgresRecent(filter, limit), limit)

----------------------------------------------------------------------------
(* The admin server's questions: handlers.go *)

NoFilter == [status |-> {}]

Merged(cells, S) ==
    [f \in {"requests", "success", "tokens"} |-> MapThenSumSet(LAMBDA v : cells[v][f], S)]

\* The rows of one grouping of what Query answered: the models of all accounts,
\* the keys (the legacy key's row has no id), or the devices.
handleUsage(group, agg) ==
    CASE group = "model" ->
           LET pairs == DOMAIN agg.byCredModel
           IN  [m \in {p[2] : p \in pairs} |-> Merged(agg.byCredModel, {p \in pairs : p[2] = m})]
      [] group = "api_key" -> agg.byAPIKey
      [] group = "device" -> agg.byDevice

handleUsageTimeline(agg) == agg.timeline

handleUsageRecent(filter, limit) ==
    Recent(filter, IF limit \in 1..1000 THEN limit ELSE 100)

----------------------------------------------------------------------------
(* Publishing *)

\* Mutant: a full channel is not noticed.
HasRoomAlways == ~closed

\* The send of Publish is not blocking.
HasRoom == ~closed /\ Len(writes) < BufferSize

\* Publish: the ring always, the channel if it is open and has room.  closeMu
\* makes the look at closed and the send one step; append and send together are
\* one here, because nothing reads the ring and the channel in one step.
Publish(rec) ==
    /\ ring' = AppendRing(ring, rec)
    /\ reordered' = (reordered \/ \E i \in 1..Len(ring.buf) : ring.buf[i].ts > rec.ts)
    /\ IF HasRoom
       THEN writes' = Append(writes, rec) /\ accepted' = accepted \cup {rec}
       ELSE UNCHANGED <<writes, accepted>>
    /\ UNCHANGED <<closed, writer, inHand, open, stored, failed>>

\* runWriter: the next record of the channel, or the end of a closed one.
WriterTakes ==
    /\ writer = "waiting" /\ writes # <<>>
    /\ writer' = "appending" /\ inHand' = <<Head(writes)>> /\ writes' = Tail(writes)
    /\ UNCHANGED <<ring, closed, open, stored, accepted, failed, reordered>>

WriterEnds ==
    /\ writer = "waiting" /\ writes = <<>> /\ closed
    /\ writer' = "done"
    /\ UNCHANGED <<ring, writes, closed, inHand, open, stored, accepted, failed, reordered>>

\* An append that fails is logged, and the record is gone from the channel.
WriterAppends(outcome) ==
    /\ writer = "appending"
    /\ writer' = "waiting" /\ inHand' = <<>>
    /\ IF outcome = "saved" /\ open
       THEN stored' = stored \o inHand /\ UNCHANGED failed
       ELSE failed' = failed \cup ToSet(inHand) /\ UNCHANGED stored
    /\ UNCHANGED <<ring, writes, closed, open, accepted, reordered>>

NewAggregator ==
    /\ writer' = "waiting" /\ open' = TRUE
    /\ UNCHANGED <<ring, writes, closed, inHand, stored, accepted, failed, reordered>>

\* Close: no more sends; then wait for the writer; then close the statement.
CloseChannel ==
    /\ ~closed
    /\ closed' = TRUE
    /\ UNCHANGED <<ring, writes, writer, inHand, open, stored, accepted, failed, reordered>>

\* Mutant: the statement is closed without waiting for the writer.
CloseStoreAtOnce ==
    /\ closed /\ open
    /\ open' = FALSE
    /\ UNCHANGED <<ring, writes, closed, writer, inHand, stored, accepted, failed, reordered>>

CloseStore ==
    /\ closed /\ open /\ writer = "done"
    /\ open' = FALSE
    /\ UNCHANGED <<ring, writes, closed, writer, inHand, stored, accepted, failed, reordered>>

\* The process is gone: the ring, the channel and the writer with it.
UsageDown ==
    /\ ring' = EmptyRing /\ writes' = <<>> /\ writer' = "done" /\ inHand' = <<>>
    /\ closed' = FALSE /\ open' = FALSE
    /\ accepted' = {} /\ failed' = {} /\ reordered' = FALSE
    /\ UNCHANGED stored
============================================================================
