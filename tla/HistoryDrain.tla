----------------------------- MODULE HistoryDrain -----------------------------
(***************************************************************************)
(* How provider history reaches the screen.  At start-up the provider      *)
(* worker freezes a manifest per provider (every session log, its inode    *)
(* and its length), reads each log up to its goalpost, and sends what it   *)
(* read through a bounded buffer and a bounded channel to the collector.   *)
(* Rows known only from history stay private.  A barrier behind all output *)
(* asks the store to finalize the drain in one transaction; only then are  *)
(* the rows published, the barrier acknowledged and the worker released.   *)
(*                                                                         *)
(* src/src/herdr/collector.rs (the worker's cycle, ingress, the barrier),  *)
(* src/src/provider/mod.rs (pending buffer and thread), provider/tail.rs,  *)
(* src/src/reducer.rs (private rows) and src/src/store/mod.rs (batches,    *)
(* finalization, supersession).                                            *)
(*                                                                         *)
(* A log is counted in records, so record i of log a starts at offset i-1; *)
(* a drain is its manifest, because its id is a digest of the manifest.    *)
(***************************************************************************)
EXTENDS Naturals, Sequences, FiniteSets, Functions

CONSTANTS
    Work,            \* the logs, in the order a cycle visits them
    Providers,       \* the providers, in the order they are looked up
    ProviderOf,      \* the provider of a log
    RunOf,           \* RunOf[a][i]: the task run that record i of log a is about
    BadChoices,      \* the sets of records <<a, i>> that may be the ones that do not parse
    InitLen,         \* the length of each log at the start
    Controller,      \* stands for the source of a Controller event
    None,
    MaxLen, Chunk, LaneCapacity, ChannelCapacity,
    MaxAppends, MaxReplacements, MaxFaults, MaxRestarts, MaxOverflows,
    MaxControllerEvents, MaxDisturbances

Artifacts == Range(Work)
ProviderSet == Range(Providers)
Runs == UNION {Range(RunOf[a]) : a \in Artifacts}
LogsOf(p) == {a \in Artifacts : ProviderOf[a] = p}

ASSUME DrainConstants ==
    /\ Work \in Seq(Artifacts) /\ Work # <<>> /\ Providers \in Seq(ProviderSet)
    /\ ProviderOf \in [Artifacts -> ProviderSet]
    /\ RunOf \in [Artifacts -> Seq(Runs)]
    /\ \A a \in Artifacts : Len(RunOf[a]) = MaxLen
    /\ BadChoices \subseteq SUBSET (Artifacts \X (1 .. MaxLen))
    /\ InitLen \in [Artifacts -> 0 .. MaxLen]
    /\ Controller \notin Artifacts
    /\ None \notin Runs \cup ProviderSet
    /\ MaxLen \in Nat \ {0} /\ Chunk \in Nat \ {0}
    /\ LaneCapacity \in Nat \ {0} /\ ChannelCapacity \in Nat \ {0}
    /\ MaxAppends \in Nat /\ MaxReplacements \in Nat /\ MaxFaults \in Nat /\ MaxRestarts \in Nat
    /\ MaxOverflows \in Nat /\ MaxControllerEvents \in Nat /\ MaxDisturbances \in Nat

\* The values the variables are made of: records, manifests, entries of the ledger, rows, batches.
RecordIds == Artifacts \X (1 .. MaxLen)
FrozenBy(p) == [LogsOf(p) -> [gen : Nat, goal : Nat]]
Frozen == UNION {FrozenBy(p) : p \in {q \in ProviderSet : LogsOf(q) # {}}}
Entries == (RecordIds \cup ({Controller} \X Nat)) \X (Frozen \cup {None})
Rows == [seen : Seq(Entries), ready : BOOLEAN]
Batches == [event : RecordIds, run : Runs, origin : Frozen \cup {None}, seen : Seq(Entries),
            image : Seq(Entries) \cup {None}]

\* None is none of them.
ASSUME NoneIsNothing ==
    None \notin RecordIds \cup Frozen \cup Rows \cup Batches \cup Seq(Entries) \cup [gen : Nat, off : Nat]

VARIABLES
    bad,        \* the records that do not parse
    file,       \* each log on disk: inode generation and length
    tail,       \* the worker's tail of each log, None until it is opened
    manifest,   \* the frozen manifest of each provider, or None
    completed,  \* providers whose drain was acknowledged
    failed,     \* providers whose drain was abandoned
    held,       \* the barrier the worker waits for, or None
    deferred,   \* records read and not yet merged into the pending buffer
    cursor,     \* index of the log the next cycle resumes at
    lane,       \* the pending buffer's FIFO of events
    barrier,    \* the pending buffer's barrier slot, or None
    pc,         \* the worker's place in its cycle
    at,         \* index of the log being visited
    visit,      \* how far the visit reads; a read found another inode; it was refrozen
    channel,    \* worker to collector
    retained,   \* pending_history_mutation: the batch ingress waits for, or None
    holding,    \* the collector's held_history_barrier, or None
    acked,      \* drains whose barrier was acknowledged to the worker
    mem,        \* the reducer's row of each run: evidence and history_ready
    image,      \* history_run_publications: what is shown for a private run
    published,  \* published_history_drains
    mirror,     \* event ids the writer has admitted: is_duplicate
    forgotten,  \* history: <<run, length of its row>> when a live event was recorded, yet not applied
    store,      \* the database
    spent       \* how much of each bound was used, and the logs that were passed over

worker == <<tail, manifest, completed, failed, held, deferred, cursor, lane,
            barrier, pc, at, visit>>
collector == <<retained, holding, acked, mem, image, published, mirror, forgotten>>
vars == <<bad, file, worker, channel, collector, store, spent>>

\* The bounds: each kind of disturbance has one, and together they have one.
Undisturbed ==
    spent.replacements + spent.faults + spent.overflows + spent.controller < MaxDisturbances

-----------------------------------------------------------------------------
(* The database.                                                           *)

\* The event ids of the ledger; each event row also has its history_drain_id.
Recorded(s) == {entry[1] : entry \in s.ledger}

Finalized(s, d) == d \in DOMAIN s.drains /\ s.drains[d].final

\* A run with an association to a drain that is not finalized.
Blocked(s, r) == \E d \in DOMAIN s.drains : ~s.drains[d].final /\ <<d, r>> \in s.assoc

\* upsert_history_drain: an existing row keeps its creation time.
UpsertHistoryDrain(s, d, now) ==
    [s EXCEPT !.drains =
        [x \in DOMAIN s.drains \cup {d} |->
            IF x \in DOMAIN s.drains THEN s.drains[x] ELSE [created |-> now, final |-> FALSE]]]

\* A new association with a finalized drain fails the whole transaction.
Rejected(s, b) ==
    /\ b.origin # None
    /\ b.event \notin Recorded(s)
    /\ Finalized(s, b.origin)
    /\ <<b.origin, b.run>> \notin s.assoc

\* Mutant: a historical event does not take the readiness of the row it enriches.
DemoteNothing(s, historical, newly) == s

\* The two statements that take readiness away again: for the run of a new association, and
\* for every run that some unfinalized drain still blocks.
Demote(s, historical, newly) ==
    [s EXCEPT !.rows = [r \in Runs |->
        IF /\ s.rows[r] # None
           /\ r \in newly \/ Blocked(s, r)
           /\ historical \/ s.image[r] # None
        THEN [s.rows[r] EXCEPT !.ready = FALSE]
        ELSE s.rows[r]]]

ReadyBefore(s, r) == s.rows[r] # None /\ s.rows[r].ready

\* The effect of one provider batch; an exact replay has none.
ApplyV6Batch(s, b, now) ==
    LET historical == b.origin # None
        drained == IF historical THEN UpsertHistoryDrain(s, b.origin, now) ELSE s
        newly == IF historical /\ <<b.origin, b.run>> \notin s.assoc THEN {b.run} ELSE {}
        written == [drained EXCEPT
                      !.ledger = @ \cup {<<b.event, b.origin>>},
                      !.rows[b.run] = [seen |-> b.seen,
                                       ready |-> ~historical \/ ReadyBefore(s, b.run)],
                      !.image[b.run] = IF ~historical THEN None
                                       ELSE IF @ = None THEN b.image ELSE @,
                      !.assoc = IF historical THEN @ \cup {<<b.origin, b.run>>} ELSE @]
    IN  IF b.event \in Recorded(s) THEN s ELSE Demote(written, historical, newly)

\* Every log of the older drain is in the newer one, the same inode, read at least as far.
Covers(new, old) ==
    \A a \in DOMAIN old : a \in DOMAIN new /\ new[a].gen = old[a].gen
                                           /\ new[a].goal >= old[a].goal

ProviderOfDrain(d) == ProviderOf[CHOOSE a \in DOMAIN d : TRUE]

\* The unfinalized drains that finalizing d completes as well.
Superseded(s, d) ==
    {o \in DOMAIN s.drains : /\ o # d /\ ~s.drains[o].final
                             /\ ProviderOfDrain(o) = ProviderOfDrain(d)
                             /\ s.drains[o].created < s.drains[d].created
                             /\ Covers(d, o)}

FinalizeHistoryDrain(s0, d, now) ==
    LET s == UpsertHistoryDrain(s0, d, now)
        older == Superseded(s, d)
        assoc == s.assoc \cup {<<d, r>> : r \in {x \in Runs : \E o \in older : <<o, x>> \in s.assoc}}
        closed == [s EXCEPT !.assoc = assoc,
                            !.drains = [x \in DOMAIN @ |->
                                IF x \in older \cup {d} THEN [@[x] EXCEPT !.final = TRUE] ELSE @[x]]]
        ready(r) == <<d, r>> \in assoc /\ ~Blocked(closed, r)
        rows == [r \in Runs |-> IF s.rows[r] # None /\ ready(r)
                                THEN [s.rows[r] EXCEPT !.ready = TRUE] ELSE s.rows[r]]
    IN  IF s.drains[d].final THEN s
        ELSE [closed EXCEPT !.rows = rows,
                            !.image = [r \in Runs |->
                                IF rows[r] # None /\ rows[r].ready THEN None ELSE @[r]]]

-----------------------------------------------------------------------------
(* The worker: one cycle is StartCycle, DrainRecord*, Freeze, then Visit,  *)
(* Poll and DrainRecord for every log, then Finish.                        *)

\* record_origin: the drain a record belongs to, None when it is live.
RecordOrigin(a, i) ==
    LET m == manifest[ProviderOf[a]]
    IN  IF m # None /\ a \in DOMAIN m /\ i - 1 < m[a].goal THEN m ELSE None

AbandonHistoryDrain(p) ==
    /\ failed' = failed \cup {p}
    /\ manifest' = [manifest EXCEPT ![p] = None]

\* flush_to_sender: the barrier leaves last.
Flush ==
    /\ pc = "idle"
    /\ Len(channel) < ChannelCapacity
    /\ \/ /\ lane # <<>>
          /\ channel' = Append(channel, Head(lane))
          /\ lane' = Tail(lane)
          /\ UNCHANGED barrier
       \/ /\ lane = <<>> /\ barrier # None
          /\ channel' = Append(channel, [event |-> None, run |-> None, origin |-> barrier])
          /\ barrier' = None
          /\ UNCHANGED lane
    /\ UNCHANGED <<bad, file, tail, manifest, completed, failed, held, deferred, cursor, pc, at,
                   visit, collector, store, spent>>

\* A cycle starts once nothing is pending; a barrier that is not acknowledged stops it.
StartCycle ==
    /\ pc = "idle" /\ lane = <<>> /\ barrier = None
    /\ held # None => held \in acked
    /\ IF held = None
       THEN UNCHANGED <<completed, manifest, held>>
       ELSE /\ completed' = completed \cup {ProviderOfDrain(held)}
            /\ manifest' = [manifest EXCEPT ![ProviderOfDrain(held)] = None]
            /\ held' = None
    /\ pc' = "resume"
    /\ UNCHANGED <<bad, file, tail, failed, deferred, cursor, lane, barrier, at, visit, channel,
                   collector, store, spent>>

\* Mutant: a refused record is dropped.
DrainRecordDropping ==
    /\ pc \in {"resume", "read"} /\ deferred # <<>>
    /\ LET a == Head(deferred)[1]
           i == Head(deferred)[2]
           item == [event |-> <<a, i>>, run |-> RunOf[a][i], origin |-> RecordOrigin(a, i)]
       IN  \/ /\ <<a, i>> \in bad
              /\ AbandonHistoryDrain(ProviderOf[a])
              /\ UNCHANGED lane
           \/ /\ <<a, i>> \notin bad /\ Len(lane) < LaneCapacity
              /\ lane' = Append(lane, item)
              /\ UNCHANGED <<failed, manifest>>
           \/ /\ <<a, i>> \notin bad /\ Len(lane) >= LaneCapacity
              /\ UNCHANGED <<failed, manifest, lane>>
    /\ deferred' = Tail(deferred)
    /\ UNCHANGED <<bad, file, tail, completed, held, barrier, cursor, pc, at, visit, channel,
                   collector, store, spent>>

\* drain_deferred_records, one record: a record that does not parse abandons the drain; a full
\* buffer refuses the record, ends the cycle, and after a read moves the cursor past the log.
DrainRecord ==
    /\ pc \in {"resume", "read"} /\ deferred # <<>>
    /\ LET a == Head(deferred)[1]
           i == Head(deferred)[2]
           item == [event |-> <<a, i>>, run |-> RunOf[a][i], origin |-> RecordOrigin(a, i)]
       IN  \/ /\ <<a, i>> \in bad
              /\ AbandonHistoryDrain(ProviderOf[a])
              /\ deferred' = Tail(deferred)
              /\ UNCHANGED <<lane, cursor, pc, spent>>
           \/ /\ <<a, i>> \notin bad /\ Len(lane) < LaneCapacity
              /\ lane' = Append(lane, item)
              /\ deferred' = Tail(deferred)
              /\ UNCHANGED <<failed, manifest, cursor, pc, spent>>
           \/ /\ <<a, i>> \notin bad /\ Len(lane) >= LaneCapacity
              /\ cursor' = IF pc = "read" THEN (at % Len(Work)) + 1 ELSE cursor
              /\ pc' = "idle"
              /\ spent' = [spent EXCEPT !.passed =
                    IF pc = "read" /\ tail[a].off < visit.goal
                    THEN @ \cup {<<manifest[ProviderOf[a]], a>>} ELSE @]
              /\ UNCHANGED <<failed, manifest, lane, deferred>>
    /\ UNCHANGED <<bad, file, tail, completed, held, barrier, at, visit, channel, collector, store>>

\* freeze_history_manifest for every provider that has none yet, then the first visit.
Freeze ==
    /\ pc = "resume" /\ deferred = <<>>
    /\ manifest' = [p \in ProviderSet |->
         IF p \in completed \cup failed \/ manifest[p] # None \/ LogsOf(p) = {}
         THEN manifest[p]
         ELSE [a \in LogsOf(p) |-> [gen |-> file[a].gen, goal |-> file[a].len]]]
    /\ completed' = completed \cup {p \in ProviderSet \ failed : LogsOf(p) = {}}
    /\ pc' = "visit" /\ at' = cursor
    /\ UNCHANGED <<bad, file, tail, failed, held, deferred, cursor, lane, barrier, visit, channel,
                   collector, store, spent>>

\* The start of a visit: the tail is opened, or notices that the log was replaced, and the
\* visit reads to the frozen goalpost, or to the end when the log is not being drained.
Visit ==
    /\ pc = "visit" /\ at <= Len(Work)
    /\ LET a == Work[at]
           m == manifest[ProviderOf[a]]
       IN  /\ tail' = [tail EXCEPT ![a] =
                IF @ = None \/ @.gen # file[a].gen THEN [gen |-> file[a].gen, off |-> 0] ELSE @]
           /\ visit' = [goal |-> IF m # None /\ a \in DOMAIN m THEN m[a].goal ELSE file[a].len,
                        rotated |-> FALSE, refrozen |-> FALSE]
    /\ pc' = "read"
    /\ UNCHANGED <<bad, file, manifest, completed, failed, held, deferred, cursor, lane, barrier, at,
                   channel, collector, store, spent>>

Records(a, from, to) == [k \in 1 .. (to - from) |-> <<a, from + k>>]

Smaller(x, y) == IF x < y THEN x ELSE y

\* One read of at most Chunk records, not beyond the goalpost.  A read that makes no progress,
\* or a tail at its goalpost, ends the visit.
Poll ==
    /\ pc = "read" /\ deferred = <<>> /\ ~visit.rotated
    /\ LET a == Work[at]
           replaced == file[a].gen # tail[a].gen
           from == IF replaced THEN 0 ELSE tail[a].off
           to == Smaller(Smaller(file[a].len, visit.goal), from + Chunk)
       IN  \/ /\ tail[a].off >= visit.goal \/ (~replaced /\ to <= from)
              /\ pc' = "visit" /\ at' = at + 1
              /\ UNCHANGED <<tail, deferred, visit>>
           \/ /\ tail[a].off < visit.goal /\ (replaced \/ to > from)
              /\ tail' = [tail EXCEPT ![a] = [gen |-> file[a].gen, off |-> to]]
              /\ deferred' = Records(a, from, to)
              /\ visit' = [visit EXCEPT !.rotated = replaced]
              /\ UNCHANGED <<pc, at>>
    /\ UNCHANGED <<bad, file, manifest, completed, failed, held, cursor, lane, barrier, channel,
                   collector, store, spent>>

\* After the records of a replaced log were merged, its drain is abandoned.  The visit goes on
\* to the end of the replacement, but only once.
Rotated ==
    /\ pc = "read" /\ deferred = <<>> /\ visit.rotated
    /\ LET a == Work[at]
       IN  /\ IF manifest[ProviderOf[a]] # None
              THEN AbandonHistoryDrain(ProviderOf[a])
              ELSE UNCHANGED <<failed, manifest>>
           /\ IF visit.refrozen
              THEN pc' = "visit" /\ at' = at + 1 /\ UNCHANGED visit
              ELSE /\ visit' = [goal |-> file[a].len, rotated |-> FALSE, refrozen |-> TRUE]
                   /\ UNCHANGED <<pc, at>>
    /\ UNCHANGED <<bad, file, tail, completed, held, deferred, cursor, lane, barrier, channel,
                   collector, store, spent>>

\* active_history_provider: the first provider that has a manifest.
Active == {k \in DOMAIN Providers : manifest[Providers[k]] # None}

EnqueueHistoryBarrier ==
    \/ Active = {} /\ UNCHANGED <<barrier, held>>
    \/ \E k \in Active : /\ \A j \in Active : k <= j
                        /\ barrier' = manifest[Providers[k]] /\ held' = manifest[Providers[k]]

\* Mutant: a cycle that resumed past the first log enqueues no barrier and leaves the cursor.
FinishResumed ==
    /\ pc = "visit" /\ at = Len(Work) + 1
    /\ pc' = "idle"
    /\ IF cursor # 1 THEN UNCHANGED <<barrier, held>> ELSE EnqueueHistoryBarrier
    /\ UNCHANGED <<bad, file, tail, manifest, completed, failed, deferred, cursor, lane, at, visit,
                   channel, collector, store, spent>>

\* The end of a cycle: the cursor is reset and the barrier of one provider is enqueued.
Finish ==
    /\ pc = "visit" /\ at = Len(Work) + 1
    /\ cursor' = 1 /\ pc' = "idle"
    /\ EnqueueHistoryBarrier
    /\ UNCHANGED <<bad, file, tail, manifest, completed, failed, deferred, lane, at, visit, channel,
                   collector, store, spent>>

Worker == Flush \/ StartCycle \/ DrainRecord \/ Freeze \/ Visit \/ Poll \/ Rotated \/ Finish

-----------------------------------------------------------------------------
(* The collector.                                                          *)

\* What became of one write: committed and known, not attempted or rolled back, or of unknown
\* durability, in which case it may have been committed or not.
Outcomes == {"durable", "skipped", "unknown", "lost"}
Committed(o) == o \in {"durable", "unknown"}

\* Every outcome but success uses up the bound on faults.
Faulty(o) == IF o = "durable" THEN spent' = spent
             ELSE Undisturbed /\ spent.faults < MaxFaults /\ spent' = [spent EXCEPT !.faults = @ + 1]

Evidence(item) == <<item.event, item.origin>>

SeenWith(item) ==
    IF mem[item.run] = None THEN <<Evidence(item)>>
    ELSE Append(mem[item.run].seen, Evidence(item))

Private(r) == mem[r] # None /\ ~mem[r].ready

\* The before-image a historical event captures: what the row showed while it was public.
Captured(item) ==
    IF item.origin # None /\ mem[item.run] # None /\ mem[item.run].ready /\ image[item.run] = None
    THEN mem[item.run].seen ELSE None

BatchOf(item) ==
    [event |-> item.event, run |-> item.run, origin |-> item.origin, seen |-> SeenWith(item),
     image |-> Captured(item)]

\* The write of batch b with outcome o; a transaction the database refuses never commits.
Write(b, o) ==
    /\ o = "durable" => ~Rejected(store, b)
    /\ store' = IF Committed(o) /\ ~Rejected(store, b)
                THEN ApplyV6Batch(store, b, spent.restarts) ELSE store
    /\ mirror' = IF o = "skipped" THEN mirror ELSE mirror \cup {b.event}

\* A historical event makes the row private at once; its batch is retained until it is known
\* to be durable, and ingress stays closed meanwhile.
ApplyHistorical(item, o) ==
    LET b == BatchOf(item)
    IN  /\ Write(b, o)
        /\ mem' = [mem EXCEPT ![item.run] = [seen |-> b.seen, ready |-> FALSE]]
        /\ image' = IF b.image = None THEN image ELSE [image EXCEPT ![item.run] = b.image]
        /\ retained' = IF o = "durable" THEN None ELSE b
        /\ UNCHANGED forgotten

\* A live event publishes a private row once its write is known to be durable, and leaves the
\* row as it was otherwise.
ApplyLive(item, o) ==
    LET b == BatchOf(item)
    IN  /\ Write(b, o)
        /\ IF Private(item.run) /\ o # "durable"
           THEN /\ UNCHANGED <<mem, image>>
                /\ forgotten' = IF o = "unknown"
                                THEN forgotten \cup {<<item.run, Len(mem[item.run].seen)>>}
                                ELSE forgotten
           ELSE /\ mem' = [mem EXCEPT ![item.run] = [seen |-> b.seen, ready |-> TRUE]]
                /\ image' = [image EXCEPT ![item.run] = None]
                /\ UNCHANGED forgotten
        /\ UNCHANGED retained

\* apply_history_finalization: the rows of the finalization page replace the reducer's, once.
ApplyFinalization(d, s) ==
    IF d \in published THEN UNCHANGED <<mem, image, published>>
    ELSE LET page == {r \in Runs : <<d, r>> \in s.assoc /\ mem[r] # None /\ s.rows[r] # None}
         IN  /\ mem' = [r \in Runs |-> IF r \in page
                          THEN [mem[r] EXCEPT !.ready = s.rows[r].ready] ELSE mem[r]]
             /\ image' = [r \in Runs |-> IF r \in page /\ s.rows[r].ready
                            THEN None ELSE image[r]]
             /\ published' = published \cup {d}

\* Mutant: a barrier whose transaction failed is not kept.
FinalizeHeldOnce(d, o) ==
    LET s == FinalizeHistoryDrain(store, d, spent.restarts)
    IN  \/ /\ o \in {"durable", "unknown"}
           /\ store' = s /\ ApplyFinalization(d, s)
           /\ acked' = acked \cup {d} /\ holding' = None
        \/ /\ o \in {"skipped", "lost"}
           /\ store' = IF o = "lost" THEN s ELSE store
           /\ UNCHANGED <<holding, mem, image, published, acked>>

\* retry_held_history_barrier for drain d.  The barrier is acknowledged only with a page in
\* hand: "unknown" has one when the readback answers, "lost" is any outcome without.
FinalizeHeld(d, o) ==
    LET s == FinalizeHistoryDrain(store, d, spent.restarts)
    IN  \/ /\ o \in {"durable", "unknown"}
           /\ store' = s /\ ApplyFinalization(d, s)
           /\ acked' = acked \cup {d} /\ holding' = None
        \/ /\ o \in {"skipped", "lost"}
           /\ store' = IF o = "lost" THEN s ELSE store
           /\ holding' = d
           /\ UNCHANGED <<mem, image, published, acked>>

\* service_provider_event while ingress is open.
Receive(o) ==
    /\ retained = None /\ channel # <<>>
    /\ channel' = Tail(channel)
    /\ LET item == Head(channel)
       IN  \/ /\ item.event = None
              /\ FinalizeHeld(IF holding = None THEN item.origin ELSE holding, o)
              /\ Faulty(o)
              /\ UNCHANGED <<retained, mirror, forgotten>>
           \/ /\ item.event # None /\ item.event \in mirror
              /\ o = "durable"
              /\ UNCHANGED <<store, spent, collector>>
           \/ /\ item.event # None /\ item.event \notin mirror
              /\ IF item.origin = None THEN ApplyLive(item, o) ELSE ApplyHistorical(item, o)
              /\ Faulty(o)
              /\ UNCHANGED <<holding, acked, published>>
    /\ UNCHANGED <<bad, file, worker>>

\* retry_pending_history_mutation: the exact batch again.
RetryPending(o) ==
    /\ retained # None
    /\ Write(retained, o)
    /\ retained' = IF o = "durable" THEN None ELSE retained
    /\ Faulty(o)
    /\ UNCHANGED <<bad, file, worker, channel, holding, acked, mem, image, published,
                   forgotten>>

\* The tick that retries a held barrier.
RetryHeld(o) ==
    /\ retained = None /\ holding # None
    /\ FinalizeHeld(holding, o)
    /\ Faulty(o)
    /\ UNCHANGED <<bad, file, worker, channel, retained, mirror, forgotten>>

\* A provider event is taken from the channel when the subscription turns out to have
\* overflowed: replay_live returns to refresh the topology and the event goes out of scope.
DropOnOverflow ==
    /\ retained = None /\ channel # <<>>
    /\ Undisturbed /\ spent.overflows < MaxOverflows
    /\ spent' = [spent EXCEPT !.overflows = @ + 1]
    /\ channel' = Tail(channel)
    /\ UNCHANGED <<bad, file, worker, collector, store>>

\* A Controller event about run r: it changes the row and leaves history_ready alone.  While a
\* batch is retained persistence is degraded, and the event is applied in memory only.
ControllerEvent(r) ==
    /\ Undisturbed /\ spent.controller < MaxControllerEvents
    /\ spent' = [spent EXCEPT !.controller = @ + 1]
    /\ LET event == <<Controller, spent.controller>>
           seen == SeenWith([event |-> event, run |-> r, origin |-> None])
       IN  /\ mem' = [mem EXCEPT ![r] = [seen |-> seen, ready |-> ~Private(r)]]
           /\ IF retained # None THEN UNCHANGED <<store, mirror>>
              ELSE /\ store' = Demote([store EXCEPT
                                  !.ledger = @ \cup {<<event, None>>},
                                  !.rows[r] = [seen |-> seen,
                                               ready |-> ~Private(r) \/ ReadyBefore(store, r)],
                                  !.image[r] = IF Private(r) THEN @ ELSE None], FALSE, {})
                   /\ mirror' = mirror \cup {event}
    /\ UNCHANGED <<bad, file, worker, channel, retained, holding, acked, image, published,
                   forgotten>>

-----------------------------------------------------------------------------
(* The agents that write the logs, and the end of the process.             *)

Grow(a) ==
    /\ file[a].len < MaxLen /\ spent.appends < MaxAppends
    /\ spent' = [spent EXCEPT !.appends = @ + 1]
    /\ file' = [file EXCEPT ![a].len = @ + 1]
    /\ UNCHANGED <<bad, worker, channel, collector, store>>

Replace(a) ==
    /\ Undisturbed /\ spent.replacements < MaxReplacements
    /\ spent' = [spent EXCEPT !.replacements = @ + 1]
    /\ \E n \in 0 .. file[a].len : file' = [file EXCEPT ![a] = [gen |-> @.gen + 1, len |-> n]]
    /\ UNCHANGED <<bad, worker, channel, collector, store>>

FreshWorker(t, m, c, f, h, q, k, l, b, p, i, v) ==
    /\ t = [a \in Artifacts |-> None] /\ m = [x \in ProviderSet |-> None]
    /\ c = {} /\ f = {} /\ h = None /\ q = <<>> /\ k = 1 /\ l = <<>> /\ b = None
    /\ p = "idle" /\ i = 1 /\ v = [goal |-> 0, rotated |-> FALSE, refrozen |-> FALSE]

\* The process dies and is started again: only the logs and the database survive.
Restart ==
    /\ spent.restarts < MaxRestarts
    /\ spent' = [spent EXCEPT !.restarts = @ + 1]
    /\ FreshWorker(tail', manifest', completed', failed', held', deferred', cursor', lane',
                   barrier', pc', at', visit')
    /\ channel' = <<>>
    /\ retained' = None /\ holding' = None /\ acked' = {} /\ published' = {}
    /\ mem' = store.rows /\ image' = store.image /\ mirror' = Recorded(store)
    /\ UNCHANGED <<bad, file, store, forgotten>>

-----------------------------------------------------------------------------
Init ==
    /\ bad \in BadChoices
    /\ file = [a \in Artifacts |-> [gen |-> 0, len |-> InitLen[a]]]
    /\ FreshWorker(tail, manifest, completed, failed, held, deferred, cursor, lane, barrier, pc,
                   at, visit)
    /\ channel = <<>>
    /\ retained = None /\ holding = None /\ acked = {} /\ published = {} /\ mirror = {}
    /\ forgotten = {}
    /\ mem = [r \in Runs |-> None] /\ image = [r \in Runs |-> None]
    /\ store = [drains |-> <<>>, assoc |-> {}, ledger |-> {}, rows |-> [r \in Runs |-> None],
                image |-> [r \in Runs |-> None]]
    /\ spent = [appends |-> 0, replacements |-> 0, faults |-> 0, restarts |-> 0, overflows |-> 0,
                controller |-> 0, passed |-> {}]

Collector == \E o \in Outcomes : Receive(o) \/ RetryPending(o) \/ RetryHeld(o)

Next ==
    \/ Worker
    \/ Collector
    \/ DropOnOverflow
    \/ \E r \in Runs : ControllerEvent(r)
    \/ \E a \in Artifacts : Grow(a) \/ Replace(a)
    \/ Restart

Fairness == WF_vars(Worker) /\ WF_vars(Collector)

Spec == Init /\ [][Next]_vars /\ Fairness

-----------------------------------------------------------------------------
(* Properties.                                                             *)

\* What the user is shown of run r: publication_snapshot.
View(r) ==
    IF mem[r] = None THEN <<>>
    ELSE IF mem[r].ready THEN mem[r].seen
    ELSE IF image[r] # None THEN image[r] ELSE <<>>

Drains == UNION {[LogsOf(p) -> [gen : 0 .. MaxReplacements, goal : 0 .. MaxLen]] : p \in ProviderSet}

IsLive(entry) == entry[2] = None /\ entry[1][1] # Controller

\* The shape of the state.  Beyond types: the pending buffer and the channel keep to their
\* capacities, every origin is a manifest, and the worker waits for a barrier only between
\* cycles and while its manifest stands.
TypeOK ==
    /\ file \in [Artifacts -> [gen : 0 .. MaxReplacements, len : 0 .. MaxLen]]
    /\ \A a \in Artifacts : tail[a] = None \/ tail[a].off \in 0 .. MaxLen
    /\ Len(lane) <= LaneCapacity /\ Len(channel) <= ChannelCapacity
    /\ \A item \in Range(lane) \cup Range(channel) : item.origin = None \/ item.origin \in Drains
    /\ completed \subseteq ProviderSet /\ failed \subseteq ProviderSet
    /\ cursor \in DOMAIN Work /\ at \in 1 .. Len(Work) + 1
    /\ pc \in {"idle", "resume", "visit", "read"}
    /\ held # None => pc = "idle" /\ manifest[ProviderOfDrain(held)] = held

\* A finalized drain attests that its logs were drained: every record below a goalpost of a log
\* that was not replaced since is in the event ledger (collector.rs:5727, store/mod.rs:1080).
\* It takes the buffer, the channel, a failed write, its retry and a restart to lose one.  Two
\* things do lose one: an overflow (NoBarrierLost), and the refusal of a record of a log that is
\* read in several chunks, after which the next cycle begins at the log behind it and enqueues
\* the barrier with records below the goalpost unread (collector.rs:5660); the older drains that
\* this barrier completes as well lose them with it (store/mod.rs:1117).
PassedOver(d, a) ==
    \E e \in DOMAIN store.drains :
        store.drains[e].final /\ Covers(e, d) /\ <<e, a>> \in spent.passed

FinalizedCoversManifest ==
    \A d \in DOMAIN store.drains : store.drains[d].final /\ spent.overflows = 0 =>
        \A a \in DOMAIN d : file[a].gen = d[a].gen /\ ~PassedOver(d, a) =>
            \A i \in 1 .. d[a].goal : <<a, i>> \in Recorded(store)

\* Nothing that is known from history alone is shown before its drain is finalized: where
\* evidence of an unfinalized drain is shown, live provider evidence about the run followed it
\* (reducer.rs:978, entities.rs:781), across restarts and before-images.  The live evidence may
\* be an event whose write was of unknown durability: the reducer forgot it, the ledger has it.
FollowedByLive(r, shown, k) ==
    \/ \E j \in k + 1 .. Len(shown) : IsLive(shown[j])
    \/ \E n \in k .. Len(shown) : <<r, n>> \in forgotten

NoEarlyPublication ==
    \A r \in Runs : \A k \in DOMAIN View(r) :
        LET d == View(r)[k][2]
        IN  d # None /\ ~Finalized(store, d) => FollowedByLive(r, View(r), k)

\* The barrier the worker waits for is pending, in the channel, held by the collector, or
\* acknowledged; a barrier that is none of these stops provider ingress until a restart
\* (collector.rs:5082).  "No class is dropped silently" (docs/design/herdr-top-mvp.md:449).
NoBarrierLost ==
    held # None =>
        \/ held \in acked \/ barrier = held \/ holding = held
        \/ \E k \in DOMAIN channel : channel[k].event = None /\ channel[k].origin = held

\* Nothing but an overflow of the subscription loses a barrier: not a full channel, a failing
\* or unconfirmed transaction, or the retry of one.
BarrierAccounted == NoBarrierLost \/ spent.overflows > 0

\* Every drain that is frozen is acknowledged, abandoned, or cut short by a restart: neither a
\* full buffer, a full channel nor a failed write leaves the worker waiting for ever.  And a
\* private run does not stay private: its drain, or a later one that covers it, is finalized and
\* the row released, unless a record did not parse or a log was replaced (store/mod.rs:1117,
\* reducer.rs:908).
DrainSettles ==
    /\ \A p \in ProviderSet : (manifest[p] # None) ~> (manifest[p] = None \/ spent.overflows > 0)
    /\ \A r \in Runs : Private(r) ~> \/ ~Private(r) \/ failed # {}
                                     \/ spent.replacements + spent.overflows > 0

\* "Live Controller, execution, or post-goalpost provider evidence makes it ready immediately":
\* what a Controller event reports is shown.
ControllerEvidenceShown ==
    \A r \in Runs : mem[r] # None =>
        \A k \in DOMAIN mem[r].seen :
            mem[r].seen[k][1][1] = Controller => mem[r].seen[k] \in Range(View(r))

=============================================================================
