------------------------------- MODULE Activity -------------------------------
(***************************************************************************)
(* The activity list an operator sees.  A submission is put on the list    *)
(* before its write, labelled durable, and labelled again by the outcome;  *)
(* a historical one goes to a private copy that its drain's finalization   *)
(* publishes.  A merge moves the items of the absorbed run, and a restart  *)
(* rebuilds both copies from the event rows, their drains and the          *)
(* before-images that a merge under an unfinished drain leaves behind.     *)
(*                                                                         *)
(* src/src/operator.rs, its calls in src/src/reducer.rs and                *)
(* src/src/herdr/collector.rs, and the rows in src/src/store/mod.rs.       *)
(*                                                                         *)
(* Two runs: "gone" may be merged into "kept".  Drains are numbered as     *)
(* they are created; the worker reads the last one.                        *)
(***************************************************************************)
EXTENDS Naturals, FiniteSets, Functions

CONSTANTS EventIds,     \* events that are shown as items
          NoRecord,     \* of a submission without such an event
          MaxDrains,    \* bound: manifests frozen
          MaxLost,      \* bound: live writes that are not known to be committed
          MaxRetries    \* bound: history writes that are not

ASSUME ActivityConstants ==
    /\ NoRecord \notin EventIds
    /\ MaxDrains \in Nat \ {0}
    /\ MaxLost \in Nat /\ MaxRetries \in Nat

VARIABLES
    activity,   \* the private list: item -> run and durability label
    listed,     \* published_activity
    hides,      \* deferred_activity: the items each unpublished drain hides
    blocked,    \* blocked_history_runs
    writing,    \* the live submission the collector awaits, or NoBatch
    retained,   \* pending_history_mutation, or NoBatch
    stage,      \* of the drain being read: "reading", "held" at its barrier, or "done"
    absorbed,   \* in the reducer's model "gone" is absorbed
    private,    \* runs whose history_ready is false in the model
    current,    \* the manifest the worker reads
    ledger,     \* the database: events, drains, runs
    used        \* how much of each bound was used

activityVars == <<activity, listed, hides, blocked, writing, retained, stage, absorbed,
                  private, current, ledger, used>>

Lineage == {"kept", "gone"}
ManifestIds == 1 .. MaxDrains
Empty == [i \in {} |-> i]
NoBatch == [event |-> NoRecord, run |-> "kept", merge |-> FALSE, origin |-> "nothing",
            drain |-> 0, image |-> {}, waits |-> {}, waitsShown |-> {}, wasPrivate |-> {}]
Historical(b) == b.origin = "history"

-----------------------------------------------------------------------------
(* The rows.                                                               *)
Open(s, d) == d \in s.drains /\ d \notin DOMAIN s.completedBy
BlockedRow(s, r) == \E d \in ManifestIds : Open(s, d) /\ <<d, r>> \in s.assoc

\* Mutant: a merge under an unfinished drain keeps no image of the rows it moves.
Imaged_never(s, b) == s.before

\* merge_task_runs: the rows it moves keep their run for every unfinished drain of both parties.
Imaged(s, b) ==
    LET parties == {d \in s.drains : Open(s, d) /\ \E r \in Lineage : <<d, r>> \in s.assoc}
        owed == parties \cup (IF Historical(b) THEN {b.drain} ELSE {})
        moved == {e \in DOMAIN s.rows : s.rows[e].run = "gone"}
    IN  s.before \cup (owed \X moved)

JoinedRows(s, b) ==
    [s EXCEPT
        !.before = Imaged(s, b),
        !.rows = [e \in DOMAIN @ |-> [@[e] EXCEPT !.run = "kept"]],
        !.ready = IF @ \cap Lineage # {} \/ \E d \in DOMAIN s.completedBy, r \in Lineage :
                                              <<d, r>> \in s.assoc
                  THEN {"kept"} ELSE {},
        !.image = IF @ = {} THEN {} ELSE {"kept"},
        !.assoc = {<<a[1], "kept">> : a \in @},
        !.merged = TRUE]

Recording(s, b) ==
    IF b.event = NoRecord THEN s
    ELSE [s EXCEPT !.rows = [e \in DOMAIN @ \cup {b.event} |->
            IF e = b.event
            THEN [run |-> b.run, drain |-> b.drain]
            ELSE @[e]]]

\* The row of a run a history batch touches for the first time loses its readiness, and so does
\* every run with an open drain, unless the batch is live and nothing is shown in its place.
Unreadied(s, b, newly) ==
    [s EXCEPT !.ready = {r \in @ :
        ~( \/ r \in newly
           \/ BlockedRow(s, r) /\ (Historical(b) \/ r \in s.image) )}]

\* A batch whose events are all in the rows was committed before; nothing is written.
Replayed(s, b) == b.event \in DOMAIN s.rows

\* A batch that states the row of an absorbed run, or absorbs it again, is refused as a whole.
Refused(s, b) == s.merged /\ (b.merge \/ b.run = "gone") /\ ~Replayed(s, b)

\* apply_v6_batch; the images of a batch are taken before its operations.
Committed(s, b) ==
    LET opened == IF Historical(b)
                  THEN [s EXCEPT !.drains = @ \cup {b.drain}, !.image = @ \cup b.image]
                  ELSE s
        moved == IF b.merge /\ ~s.merged THEN JoinedRows(Recording(opened, b), b)
                 ELSE Recording(opened, b)
        newly == IF Historical(b) /\ <<b.drain, b.run>> \notin moved.assoc
                 THEN {b.run} ELSE {}
        stated == IF Historical(b) THEN [moved EXCEPT !.assoc = @ \cup {<<b.drain, b.run>>}]
                  ELSE IF b.origin = "provider"
                  THEN [moved EXCEPT !.ready = @ \cup {b.run}, !.image = @ \ {b.run}]
                  ELSE moved
    IN  IF Replayed(s, b) THEN s ELSE Unreadied(stated, b, newly)

\* What may be in the database once the writer has answered, or has not.
After(s, b, outcome) ==
    (IF outcome \in {"committed", "unknown"} /\ ~Refused(s, b) THEN {Committed(s, b)} ELSE {})
      \cup (IF outcome # "committed" THEN {s} ELSE {})

\* finalize_history_drain: it may complete the older drains whose logs it covers.
Finalizing(s, d, covers) ==
    LET known == [s EXCEPT !.drains = @ \cup {d}]
        done == {d} \cup (IF covers THEN {x \in s.drains : x < d /\ Open(s, x)} ELSE {})
        completed == [known EXCEPT
            !.assoc = @ \cup {<<d, a[2]>> : a \in {x \in @ : x[1] \in done}},
            !.completedBy = [x \in DOMAIN @ \cup done |-> IF x \in done THEN d ELSE @[x]]]
        readied == [completed EXCEPT !.ready = @ \cup
            {r \in Lineage : <<d, r>> \in completed.assoc /\ ~BlockedRow(completed, r)}]
    IN  IF d \in DOMAIN s.completedBy THEN s
        ELSE [readied EXCEPT
                !.image = @ \ readied.ready,
                !.before = {x \in @ : readied.rows[x[2]].run \notin readied.ready}]

\* load_restored_operator_state: own rows are shown when their drain is finalized and their run
\* is ready; a row with an image that still counts is shown under its former run.
Standing(s, e) == {x \in s.before : x[2] = e /\ (Open(s, x[1]) \/ s.rows[e].run \notin s.ready)}
Restorable(s, e) ==
    s.rows[e].drain = 0 \/ (~Open(s, s.rows[e].drain) /\ s.rows[e].run \in s.ready)
Restored(s) ==
    [e \in {x \in DOMAIN s.rows : Restorable(s, x)} |->
        IF Standing(s, e) # {} THEN "gone" ELSE s.rows[e].run]

\* load_deferred_history_activity: the rows that wait, and the drain each waits for.
Waiting(s) ==
    {e \in DOMAIN s.rows : Standing(s, e) # {} \/ ~Restorable(s, e)}
DeferringDrains(s, e) ==
    IF s.rows[e].run \notin s.ready
    THEN {d \in ManifestIds : Open(s, d) /\ <<d, s.rows[e].run>> \in s.assoc}
    ELSE IF s.rows[e].drain # 0 /\ Open(s, s.rows[e].drain) THEN {s.rows[e].drain}
    ELSE {x[1] : x \in {y \in Standing(s, e) : Open(s, y[1])}}

Least(S) == CHOOSE d \in S : \A x \in S : d <= x

-----------------------------------------------------------------------------
(* The projection.                                                         *)
Durability(outcome) ==
    CASE outcome = "committed" -> "Durable"
      [] outcome = "lost" -> "CurrentOnly"
      [] outcome = "unknown" -> "DurabilityUnknown"

MovedItems(items, b) == {i \in DOMAIN items : b.merge /\ items[i].run = "gone"}
Named(b) == IF b.event = NoRecord THEN {} ELSE {b.event}

\* The items whose labels wait for the outcome of b.
Awaiting(items, b) == Named(b) \cup MovedItems(items, b)

\* apply_submission_to: optimistic, the items of an absorbed run change their run.
Projected(items, b) ==
    [i \in DOMAIN items \cup Named(b) |->
        IF i \in Named(b) THEN [run |-> b.run, label |-> "Durable"]
        ELSE IF i \in MovedItems(items, b) THEN [items[i] EXCEPT !.run = "kept"]
        ELSE items[i]]

reclassify_pending(items, pending, label) ==
    [i \in DOMAIN items |-> IF i \in pending THEN [items[i] EXCEPT !.label = label] ELSE items[i]]

Hidden(hiding, blocking, items) ==
    (UNION {hiding[d] : d \in DOMAIN hiding}) \cup {i \in DOMAIN items : items[i].run \in blocking}

\* publish_accumulated: what is still hidden stays as it was last shown.
Accumulated(hidden) ==
    [i \in (DOMAIN activity \ hidden) \cup (DOMAIN listed \cap hidden) |->
        IF i \in hidden THEN listed[i] ELSE activity[i]]

\* apply_history_finalization: the page lists the drains completed together and their runs.
PublishPage(s, d) ==
    LET completed == {x \in DOMAIN s.completedBy : s.completedBy[x] = d}
        page == {r \in Lineage : <<d, r>> \in s.assoc /\ (s.merged => r = "kept")}
        stillHidden == Restrict(hides, DOMAIN hides \ completed)
        stillBlocked == (blocked \ (page \cap s.ready)) \cup (page \ s.ready)
    IN  /\ hides' = stillHidden
        /\ blocked' = stillBlocked
        /\ listed' = Accumulated(Hidden(stillHidden, stillBlocked, activity))
        /\ private' = (private \ (page \cap s.ready)) \cup (page \ s.ready)

-----------------------------------------------------------------------------
(* The collector.                                                          *)
Unused(e) == e \notin DOMAIN activity \cup DOMAIN ledger.rows
Waits == writing = NoBatch
IngressOpen == Waits /\ retained = NoBatch
Count(bound) == used' = [used EXCEPT ![bound] = @ + 1]

\* A merge needs both runs, and its event names the survivor.
WellNamed(b) ==
    /\ b.event = NoRecord => b.merge
    /\ b.event = NoRecord \/ Unused(b.event)
    /\ b.merge => ~absorbed
    /\ b.merge \/ absorbed => b.run = "kept"

\* The drain of a live submission is 0.  The rest is what the collector remembers of it until its
\* outcome is known: runs it privatizes, items of either list that wait for their label, and the
\* runs that were private before it.
Submission(e, r, merge, origin) ==
    [event |-> e, run |-> r, merge |-> merge, origin |-> origin,
     drain |-> IF origin = "history" THEN current ELSE 0,
     image |-> {}, waits |-> {}, waitsShown |-> {}, wasPrivate |-> {}]

\* The rows of private runs after a merge: the survivor is ready when either was.
MergedPrivate == IF private = Lineage THEN {"kept"} ELSE {}

\* A live submission is on both lists before the collector awaits its write.
LiveSubmission(e, r, merge, origin) ==
    LET b == Submission(e, r, merge, origin)
    IN  /\ Waits /\ WellNamed(b)
        /\ origin = "provider" => IngressOpen /\ e # NoRecord
        /\ activity' = Projected(activity, b)
        /\ listed' = Projected(listed, b)
        /\ absorbed' = (absorbed \/ merge)
        /\ private' = IF merge THEN MergedPrivate ELSE private
        /\ writing' = [b EXCEPT !.waits = Awaiting(activity, b), !.waitsShown = Awaiting(listed, b),
                                !.wasPrivate = private]
        /\ UNCHANGED <<hides, blocked, retained, stage, current, ledger, used>>

\* The checkpoint of a live provider record about a private run, restored unless it is committed;
\* the lists are not part of it.
Checkpointed(b) ==
    /\ b.origin = "provider"
    /\ b.run \in b.wasPrivate \/ (b.merge /\ b.wasPrivate # {})

\* The writer's answer: complete_submission, then complete_provider_submission.  A retained batch
\* is tried again before every event, and when that fails the event's own write is skipped.
Settle(outcome) ==
    /\ writing # NoBatch
    /\ retained # NoBatch => outcome = "lost"
    /\ ledger' \in After(ledger, writing, outcome)
    /\ activity' = reclassify_pending(activity, writing.waits, Durability(outcome))
    /\ listed' = reclassify_pending(listed, writing.waitsShown, Durability(outcome))
    /\ IF outcome = "committed"
       THEN /\ private' = IF writing.origin = "provider" THEN private \ {writing.run} ELSE private
            /\ UNCHANGED <<absorbed, used>>
       ELSE /\ used.lost < MaxLost /\ Count("lost")
            /\ private' = IF Checkpointed(writing) THEN writing.wasPrivate ELSE private
            /\ absorbed' = (absorbed /\ ~(Checkpointed(writing) /\ writing.merge))
    /\ writing' = NoBatch
    /\ UNCHANGED <<hides, blocked, retained, stage, current>>

\* A historical record: the private list only, hidden by its drain; a batch that is not known to
\* be committed is retained and closes the ingress.
HistoricalSubmission(e, r, merge, outcome) ==
    LET touched == IF merge THEN Lineage ELSE {r}
        submitted == Submission(e, r, merge, "history")
        b == [submitted EXCEPT !.image = IF touched \subseteq private THEN {} ELSE {r},
                               !.waits = Awaiting(activity, submitted)]
        hidden == b.waits \cup (IF current \in DOMAIN hides THEN hides[current] ELSE {})
    IN  /\ IngressOpen /\ stage = "reading" /\ WellNamed(b) /\ e # NoRecord
        /\ current \notin DOMAIN ledger.completedBy
        /\ activity' = reclassify_pending(Projected(activity, b), b.waits, Durability(outcome))
        /\ hides' = [x \in DOMAIN hides \cup {current} |->
                           IF x = current THEN hidden ELSE hides[x]]
        /\ absorbed' = (absorbed \/ merge)
        /\ private' = (private \ touched) \cup {r}
        /\ ledger' \in After(ledger, b, outcome)
        /\ IF outcome = "committed" THEN UNCHANGED <<retained, used>>
           ELSE retained' = b /\ used.retries < MaxRetries /\ Count("retries")
        /\ UNCHANGED <<listed, blocked, writing, stage, current>>

\* retry_pending_history_mutation: the same batch again, until it is known to be committed.
RetryRetained ==
    /\ Waits /\ retained # NoBatch
    /\ ~Refused(ledger, retained) /\ ledger' = Committed(ledger, retained)
    /\ activity' = reclassify_pending(activity, retained.waits, "Durable")
    /\ retained' = NoBatch
    /\ UNCHANGED <<listed, hides, blocked, writing, stage, absorbed, private, current, used>>

\* The barrier of the drain: finalized and published, or held because the page did not arrive.
HistoryBarrier(outcome, covers) ==
    /\ Waits /\ retained = NoBatch /\ stage # "done"
    /\ ledger' = IF outcome = "lost" THEN ledger ELSE Finalizing(ledger, current, covers)
    /\ IF outcome = "committed"
       THEN stage' = "done" /\ PublishPage(ledger', current) /\ UNCHANGED used
       ELSE /\ stage' = "held" /\ used.retries < MaxRetries /\ Count("retries")
            /\ UNCHANGED <<hides, blocked, listed, private>>
    /\ UNCHANGED <<activity, writing, retained, absorbed, current>>

\* A crash or a quit at any point, and the next start: the published list from the rows, the
\* private one with the rows that wait; the worker freezes the same manifest or a new one.
ColdStart ==
    /\ ledger' \in IF writing = NoBatch THEN {ledger} ELSE After(ledger, writing, "unknown")
    /\ \A e \in Waiting(ledger') : DeferringDrains(ledger', e) # {}
    /\ listed' = [e \in DOMAIN Restored(ledger') |->
                    [run |-> Restored(ledger')[e], label |-> "Durable"]]
    /\ activity' = [e \in DOMAIN listed' \cup Waiting(ledger') |->
                       IF e \in Waiting(ledger')
                       THEN [run |-> ledger'.rows[e].run, label |-> "Durable"]
                       ELSE listed'[e]]
    /\ hides' = [d \in {Least(DeferringDrains(ledger', e)) : e \in Waiting(ledger')} |->
                       {e \in Waiting(ledger') : Least(DeferringDrains(ledger', e)) = d}]
    /\ blocked' = {r \in Lineage : r \notin ledger'.ready /\ (ledger'.merged => r = "kept")}
    /\ private' = blocked'
    /\ absorbed' = ledger'.merged
    /\ current' \in {current, current + 1} \cap ManifestIds
    /\ writing' = NoBatch /\ retained' = NoBatch /\ stage' = "reading"
    /\ UNCHANGED used

ActivityInit ==
    /\ activity = Empty /\ listed = Empty /\ hides = Empty /\ blocked = {}
    /\ writing = NoBatch /\ retained = NoBatch /\ stage = "reading" /\ absorbed = FALSE
    /\ current = 1
    /\ private \in {{}, {"kept"}, {"gone"}}
    /\ ledger = [rows |-> Empty, drains |-> IF private = {} THEN {} ELSE {1},
                 assoc |-> {1} \X private, completedBy |-> Empty,
                 ready |-> Lineage \ private, image |-> {}, before |-> {}, merged |-> FALSE]
    /\ used = [lost |-> 0, retries |-> 0]

Outcomings == {"committed", "lost", "unknown"}

ActivityNext ==
    \/ \E e \in EventIds \cup {NoRecord}, r \in Lineage, merge \in BOOLEAN,
          origin \in {"observed", "provider"} : LiveSubmission(e, r, merge, origin)
    \/ \E outcome \in Outcomings : Settle(outcome)
    \/ \E e \in EventIds, r \in Lineage, merge \in BOOLEAN, outcome \in Outcomings :
          HistoricalSubmission(e, r, merge, outcome)
    \/ RetryRetained
    \/ \E outcome \in Outcomings, covers \in BOOLEAN : HistoryBarrier(outcome, covers)
    \/ ColdStart

ActivitySpec == ActivityInit /\ [][ActivityNext]_activityVars

-----------------------------------------------------------------------------
\* Nothing of a log is shown before its drain is finalized: not by a restart, a retry, a merge
\* under two drains, or the finalization of another drain that shares a run.
NothingAhead ==
    \A e \in DOMAIN listed \cap DOMAIN ledger.rows :
        ledger.rows[e].drain # 0 => ~Open(ledger, ledger.rows[e].drain)

\* The history of a run that a newer drain enriches: a start hides it until that drain is
\* finalized, the running collector does not.
Enriched == {e \in DOMAIN ledger.rows :
               ledger.rows[e].drain # 0 /\ ledger.rows[e].run \notin ledger.ready}

\* Unfinished drains that a later one was finalized without covering.
Overtaken == {d \in ManifestIds : Open(ledger, d) /\ \E x \in DOMAIN ledger.completedBy : d < x}

\* "Live and cold restore match after merge" (a test of operator.rs), whatever came before it:
\* nothing is shown ahead of its drain, the next start can read every row that waits, and unless
\* a write was lost it shows the items now on the list, of the same runs.  What an earlier start
\* hid for an unfinished drain is hidden until that drain is finalized, though its run may be
\* ready before; while a merge under an unfinished drain is not published, a start shows the
\* former run.
LiveMatchesColdRestore ==
    /\ NothingAhead
    /\ \A e \in Waiting(ledger) : DeferringDrains(ledger, e) # {}
    /\ Waits /\ used.lost = 0 /\ stage # "held" /\ Overtaken = {}
        => /\ DOMAIN listed \ Enriched \subseteq DOMAIN Restored(ledger)
           /\ DOMAIN Restored(ledger) \subseteq DOMAIN listed \cup Hidden(hides, {}, activity)
           /\ \A e \in DOMAIN listed \ Enriched :
                 listed[e].run = Restored(ledger)[e] \/ Standing(ledger, e) # {}
===============================================================================
