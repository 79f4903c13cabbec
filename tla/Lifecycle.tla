------------------------------ MODULE Lifecycle ------------------------------
(***************************************************************************)
(* The native lifecycle of task runs: whether a provider session has       *)
(* ended.  Evidence comes from session logs (live, or from history while a *)
(* drain is open), from Controller events and from Herdr snapshots; the    *)
(* reducer keeps the newest in memory, the store keeps the newest in the   *)
(* row, and the two compare on their own.  A finalized history drain closes*)
(* in SQL what history left open, and its page replaces the memory.        *)
(*                                                                         *)
(* src/src/reducer.rs (apply_native_lifecycle and its callers, the two     *)
(* closes of a snapshot, provider observations, the finalization page),    *)
(* src/src/store/mod.rs (upsert_task_run_v6, merge_v6_run_state,           *)
(* finalize_history_drain) and model/entities.rs (fold_task_run_v6_state). *)
(*                                                                         *)
(* Every run is bound to a native session.  How evidence and Controller    *)
(* events drive the task state is the subject of TaskRuns; here the state  *)
(* is what the lifecycle reads of it.                                      *)
(***************************************************************************)
EXTENDS Integers, FiniteSets

CONSTANTS
    TaskRuns,
    MaxTime,        \* source and observation times are 1 .. MaxTime
    MaxEvidence,    \* how many observations, events and snapshots are applied
    MaxOutages      \* how often persistence is degraded

ASSUME LifecycleConstants ==
    MaxTime \in Nat \ {0} /\ MaxEvidence \in Nat /\ MaxOutages \in Nat

VARIABLES
    mem,        \* the reducer's row of each run
    db,         \* the store's row of each run
    owed,       \* the historical batch that provider ingress waits for, or {}
    drain,      \* the history drain: its associated runs, and whether it is finalized
    degraded,   \* writes are skipped
    budget,     \* evidence and outages used up
    heard, kept \* the evidence that reached memory and the ledger

lifecycleVars == <<mem, db, owed, drain, degraded, budget, heard, kept>>

Times == 1 .. MaxTime
Ends == {"open", "done", "unknown"}

\* state: "running" and "ended" are inferred (Running, EndedUnknown), "directed" and "final"
\* were set by the Controller (nonterminal, terminal).  execution: the run's Herdr execution.
Gone == {"none", "merged"}
NoRow == [state |-> "none", mark |-> 0, end |-> "open", ready |-> TRUE, latest |-> 0,
          execution |-> "none"]

Terminal(row) == row.state \in {"ended", "final"}

\* NativeLifecycleWatermark: ordered by the source's time, then the time of observation, then
\* the source order, which no two pieces of evidence share.  0 is no watermark.
Mark(source, seen, end) ==
    1 + (source * (MaxTime + 1) + seen) * 3
      + (CASE end = "open" -> 0 [] end = "done" -> 1 [] end = "unknown" -> 2)

Evidence(source, seen, end) == [mark |-> Mark(source, seen, end), end |-> end]

Later(x, y) == IF x < y THEN y ELSE x

\* Mutant: the newest arrival wins.
ApplyNativeLifecycleAlways(row, e) == [row EXCEPT !.mark = e.mark, !.end = e.end]

ApplyNativeLifecycle(row, e) ==
    IF row.mark >= e.mark THEN row ELSE [row EXCEPT !.mark = e.mark, !.end = e.end]

-----------------------------------------------------------------------------
(* The store.                                                              *)

\* Mutant: the row is overwritten by what the reducer has.
UpsertTaskRunV6Overwrites(old, new) == new

\* upsert_task_run_v6: newer evidence, readiness and the later provider time are kept; a public
\* row keeps its task state against a private write.
UpsertTaskRunV6(old, new) ==
    IF old.state \in Gone THEN new
    ELSE [(IF old.mark >= new.mark THEN [new EXCEPT !.mark = old.mark, !.end = old.end] ELSE new)
            EXCEPT !.ready = @ \/ old.ready,
                   !.latest = Later(@, old.latest),
                   !.state = IF old.ready /\ ~new.ready THEN old.state ELSE @]

\* The end of a historical batch: the run is associated, and blocked rows are private.
Demoted(rows, blocked) ==
    [r \in TaskRuns |-> IF r \in blocked THEN [rows[r] EXCEPT !.ready = FALSE] ELSE rows[r]]

\* finalize_history_drain, the row of a run that nothing blocks any more: a private row that
\* history left open is closed at its latest provider time.
ClosedByFinalization(row, seen) ==
    IF /\ ~row.ready /\ ~Terminal(row) /\ row.end = "open"
       /\ row.execution # "live" /\ row.latest # 0
       /\ row.mark < Mark(row.latest, seen, "unknown")
    THEN [row EXCEPT !.mark = Mark(row.latest, seen, "unknown"), !.end = "unknown"]
    ELSE row

\* fold_task_run_v6_state and merge_v6_run_state: the survivor keeps the newer of both.  Its
\* task state is its own, and an execution of either is an execution of the survivor.
Folded(survivor, absorbed, covered) ==
    [survivor EXCEPT
        !.mark = Later(@, absorbed.mark),
        !.end = IF absorbed.mark > survivor.mark THEN absorbed.end ELSE @,
        !.ready = @ \/ absorbed.ready \/ covered,
        !.latest = Later(@, absorbed.latest),
        !.execution = IF "live" \in {@, absorbed.execution} THEN "live"
                      ELSE IF "ended" \in {@, absorbed.execution} THEN "ended" ELSE "none"]

-----------------------------------------------------------------------------
(* Provider observations.                                                  *)

Used(what) == budget' = [budget EXCEPT ![what] = @ + 1]

\* What a record says of the session, given the reducer's row: it started or is active, it
\* ended, or nothing; the lane's own close needs a run that nothing else holds open.
Saying(row) ==
    {"open", "done", "nothing"} \cup
    (IF row.state = "running" /\ row.execution # "live" THEN {"unknown"} ELSE {})

\* The reducer's row after a record: apply_inner and the lane's touches, before readiness.
Observed(row, said, at, seen) ==
    LET known == IF row.state = "none" THEN [row EXCEPT !.state = "running"] ELSE row
        told  == IF said = "nothing" THEN known
                 ELSE ApplyNativeLifecycle(known, Evidence(at, seen, said))
    IN  [told EXCEPT !.latest = Later(@, at)]

Told(said, at, seen) == IF said = "nothing" THEN {} ELSE {Evidence(at, seen, said)}

\* A live record.  A private row becomes public with the write; when the write is not known to
\* be durable the reducer goes back to its checkpoint, though the ledger may have the batch.
ObserveLive(r, said, at, seen) ==
    /\ owed = {} /\ budget.evidence < MaxEvidence
    /\ mem[r].state # "merged" /\ said \in Saying(mem[r])
    /\ LET row     == Observed(mem[r], said, at, seen)
           written == [db EXCEPT ![r] = UpsertTaskRunV6(@, [row EXCEPT !.ready = TRUE])]
           news    == heard[r] \cup Told(said, at, seen)
       IN  \/ /\ ~degraded
              /\ mem' = [mem EXCEPT ![r] = [row EXCEPT !.ready = TRUE]]
              /\ db' = written
              /\ heard' = [heard EXCEPT ![r] = news] /\ kept' = [kept EXCEPT ![r] = @ \cup news]
              /\ UNCHANGED degraded
           \/ /\ degraded \/ budget.outages < MaxOutages
              /\ degraded' = TRUE
              /\ \/ db' = db /\ kept' = kept
                 \/ ~degraded /\ db' = written /\ kept' = [kept EXCEPT ![r] = @ \cup news]
              /\ IF mem[r].ready
                 THEN mem' = [mem EXCEPT ![r] = row] /\ heard' = [heard EXCEPT ![r] = news]
                 ELSE UNCHANGED <<mem, heard>>
    /\ budget' = [budget EXCEPT !.evidence = @ + 1,
                                !.outages = IF degraded' /\ ~degraded THEN @ + 1 ELSE @]
    /\ UNCHANGED <<owed, drain>>

\* A record of the drain.  The row is private from here on, and the batch is kept until it is
\* written.
ObserveHistorical(r, said, at, seen) ==
    /\ owed = {} /\ ~drain.final /\ budget.evidence < MaxEvidence
    /\ mem[r].state # "merged" /\ said \in Saying(mem[r])
    /\ LET row  == [Observed(mem[r], said, at, seen) EXCEPT !.ready = FALSE]
           news == heard[r] \cup Told(said, at, seen)
       IN  /\ mem' = [mem EXCEPT ![r] = row]
           /\ heard' = [heard EXCEPT ![r] = news]
           /\ owed' = {[run |-> r, row |-> row, news |-> news]}
    /\ Used("evidence")
    /\ UNCHANGED <<db, drain, degraded, kept>>

\* The write of the retained batch, at once or after an outage.
WriteOwed ==
    /\ owed # {} /\ ~degraded
    /\ \E batch \in owed :
          /\ drain' = [drain EXCEPT !.runs = @ \cup {batch.run}]
          /\ db' = Demoted([db EXCEPT ![batch.run] = UpsertTaskRunV6(@, batch.row)],
                           drain.runs \cup {batch.run})
          /\ kept' = [kept EXCEPT ![batch.run] = @ \cup batch.news]
    /\ owed' = {}
    /\ UNCHANGED <<mem, degraded, budget, heard>>

-----------------------------------------------------------------------------
(* Controller events, Herdr executions and snapshots.                      *)

\* Nothing else runs between a historical record and the first attempt to write its batch.
Idle == owed = {} \/ degraded

\* The rows of runs are written as they are in memory, or skipped during an outage.
WriteRows(runs) ==
    IF degraded THEN UNCHANGED <<db, kept>>
    ELSE /\ db' = [r \in TaskRuns |->
                     IF r \in runs THEN UpsertTaskRunV6(db[r], mem'[r]) ELSE db[r]]
         /\ kept' = [r \in TaskRuns |->
                     IF r \in runs THEN kept[r] \cup heard'[r] ELSE kept[r]]

\* task_started opens, session_ended ends, an outcome of the Controller leaves the lifecycle.
Controller(r, event, at, seen) ==
    /\ Idle /\ budget.evidence < MaxEvidence
    /\ mem[r].state \notin {"merged", "final"}
    /\ mem[r].state = "none" => event = "task_started"
    /\ LET e   == Evidence(at, seen, IF event = "task_started" THEN "open" ELSE "done")
           row == [mem[r] EXCEPT !.state = CASE event = "task_started" -> "directed"
                                             [] event = "session_ended" -> @
                                             [] event = "complete" -> "final"]
       IN  IF event = "complete"
           THEN mem' = [mem EXCEPT ![r] = row] /\ UNCHANGED heard
           ELSE /\ mem' = [mem EXCEPT ![r] = ApplyNativeLifecycle(row, e)]
                /\ heard' = [heard EXCEPT ![r] = @ \cup {e}]
    /\ WriteRows({r})
    /\ Used("evidence")
    /\ UNCHANGED <<owed, drain, degraded>>

\* close_run_without_live_execution.
Inferred(row) == IF row.state = "running" THEN [row EXCEPT !.state = "ended"] ELSE row

\* An execution ends by its own event.
ExecutionEnds(r) ==
    /\ Idle /\ mem[r].execution = "live"
    /\ mem' = [mem EXCEPT ![r] = Inferred([@ EXCEPT !.execution = "ended"])]
    /\ UNCHANGED heard
    /\ WriteRows({r})
    /\ UNCHANGED <<owed, drain, degraded, budget>>

\* A run the snapshot shows alive: activate_for_live_execution, then a native end that is older
\* than the snapshot is cleared.
Alive(row) == [row EXCEPT !.execution = "live",
                          !.state = IF @ \in {"none", "ended"} THEN "running" ELSE @]
Reopens(row) == row.state # "none" /\ ~Terminal(Alive(row)) /\ row.end # "open"

\* A run the snapshot does not show: close_run_without_live_execution, then the close that
\* finalization deferred while the execution was open.
Left(row) == Inferred([row EXCEPT !.execution = "ended"])
HistoryCloses(row) ==
    ~Terminal(Left(row)) /\ row.ready /\ row.end = "open" /\ row.latest # 0

\* reconcile_snapshot: the snapshot shows the runs alive, and names every run it has an
\* execution of.
Snapshot(alive, now) ==
    /\ Idle /\ budget.evidence < MaxEvidence
    /\ \A r \in alive : mem[r].state # "merged"
    /\ LET news(r) == IF r \in alive
                      THEN IF Reopens(mem[r]) THEN {Evidence(now, now, "open")} ELSE {}
                      ELSE IF mem[r].execution # "none" /\ HistoryCloses(mem[r])
                           THEN {Evidence(mem[r].latest, now, "unknown")} ELSE {}
           base(r) == IF r \in alive THEN Alive(mem[r])
                      ELSE IF mem[r].execution # "none" THEN Left(mem[r]) ELSE mem[r]
       IN  /\ mem' = [r \in TaskRuns |->
                 IF news(r) = {} THEN base(r)
                 ELSE ApplyNativeLifecycle(base(r), CHOOSE e \in news(r) : TRUE)]
           /\ heard' = [r \in TaskRuns |-> heard[r] \cup news(r)]
    /\ WriteRows({r \in TaskRuns : mem'[r].execution # "none"})
    /\ Used("evidence")
    /\ UNCHANGED <<owed, drain, degraded>>

\* An event proves two runs to be one; the store refuses the merge when it has no such row.
Merge(s, a) ==
    /\ Idle /\ s # a /\ mem[s].state \notin Gone /\ mem[a].state \notin Gone
    /\ LET directed == mem[s].state = "running" /\ mem[a].state \in {"directed", "final"}
           folded   == [Folded(mem[s], mem[a], FALSE) EXCEPT
                          !.state = IF directed THEN "directed" ELSE @]
           covered  == drain.final /\ drain.runs \cap {s, a} # {}
           refused  == db[s].state \in Gone \/ db[a].state \in Gone
       IN  /\ mem' = [mem EXCEPT ![s] = folded, ![a] = [NoRow EXCEPT !.state = "merged"]]
           /\ heard' = [heard EXCEPT ![s] = @ \cup heard[a], ![a] = {}]
           /\ IF degraded \/ refused
              THEN UNCHANGED <<db, kept, drain>>
              ELSE /\ db' = [db EXCEPT
                        ![s] = UpsertTaskRunV6(Folded(@, db[a], covered), folded),
                        ![a] = [NoRow EXCEPT !.state = "merged"]]
                   /\ kept' = [kept EXCEPT ![s] = @ \cup kept[a] \cup heard'[s], ![a] = {}]
                   /\ drain' = [drain EXCEPT !.runs =
                         IF a \in @ THEN (@ \ {a}) \cup {s} ELSE @]
           /\ degraded' = (degraded \/ refused)
    /\ UNCHANGED <<owed, budget>>

-----------------------------------------------------------------------------
(* Finalization, outages and restarts.                                     *)

\* apply_history_finalization: the page replaces the lifecycle of the runs it names.
ApplyPage(rows, ledger) ==
    LET page == {r \in drain.runs : mem[r].state \notin Gone}
    IN  /\ mem' = [r \in TaskRuns |->
              IF r \in page THEN [mem[r] EXCEPT !.mark = rows[r].mark, !.end = rows[r].end,
                                               !.ready = rows[r].ready, !.latest = rows[r].latest]
              ELSE mem[r]]
        /\ heard' = [r \in TaskRuns |-> IF r \in page THEN ledger[r] ELSE heard[r]]

\* finalize_history_drain in one transaction.  The page is applied with the answer; when the
\* answer is lost, persistence is degraded and the page is still due.
Finalize(seen) ==
    /\ owed = {} /\ ~degraded /\ ~drain.final
    /\ LET closed(r) == ClosedByFinalization(db[r], seen)
           rows == [r \in TaskRuns |->
                      IF r \in drain.runs THEN [closed(r) EXCEPT !.ready = TRUE] ELSE db[r]]
           ledger == [r \in TaskRuns |->
                      IF r \in drain.runs /\ closed(r) # db[r]
                      THEN kept[r] \cup {[mark |-> closed(r).mark, end |-> closed(r).end]}
                      ELSE kept[r]]
       IN  /\ db' = rows /\ kept' = ledger
           /\ \/ /\ ApplyPage(rows, ledger)
                 /\ drain' = [drain EXCEPT !.final = TRUE]
                 /\ UNCHANGED <<degraded, budget>>
              \/ /\ budget.outages < MaxOutages
                 /\ Used("outages") /\ degraded' = TRUE
                 /\ drain' = [drain EXCEPT !.final = TRUE, !.due = TRUE]
                 /\ UNCHANGED <<mem, heard>>
    /\ UNCHANGED owed

\* The retry of the held barrier reads the page of a drain that is finalized already.
RetryPage ==
    /\ drain.due /\ ~degraded /\ owed = {}
    /\ ApplyPage(db, kept)
    /\ drain' = [drain EXCEPT !.due = FALSE]
    /\ UNCHANGED <<db, owed, degraded, budget, kept>>

Outage ==
    /\ ~degraded /\ budget.outages < MaxOutages
    /\ degraded' = TRUE /\ Used("outages")
    /\ UNCHANGED <<mem, db, owed, drain, heard, kept>>

Recover ==
    /\ degraded /\ degraded' = FALSE
    /\ UNCHANGED <<mem, db, owed, drain, budget, heard, kept>>

\* A restart restores the rows of the ledger.
Restore ==
    /\ mem' = db /\ heard' = kept
    /\ owed' = {} /\ degraded' = FALSE
    /\ drain' = [drain EXCEPT !.due = FALSE]
    /\ UNCHANGED <<db, budget, kept>>

-----------------------------------------------------------------------------
LifecycleInit ==
    /\ mem = [r \in TaskRuns |-> NoRow] /\ db = mem
    /\ owed = {} /\ drain = [runs |-> {}, final |-> FALSE, due |-> FALSE]
    /\ degraded = FALSE /\ budget = [evidence |-> 0, outages |-> 0]
    /\ heard = [r \in TaskRuns |-> {}] /\ kept = heard

LifecycleNext ==
    \/ \E r \in TaskRuns, at, seen \in Times, said \in Ends \cup {"nothing"} :
          ObserveLive(r, said, at, seen) \/ ObserveHistorical(r, said, at, seen)
    \/ \E r \in TaskRuns, at, seen \in Times :
          \E event \in {"task_started", "session_ended", "complete"} :
             Controller(r, event, at, seen)
    \/ \E alive \in SUBSET TaskRuns, now \in Times : Snapshot(alive, now)
    \/ \E r \in TaskRuns : ExecutionEnds(r)
    \/ \E s, a \in TaskRuns : Merge(s, a)
    \/ WriteOwed \/ RetryPage \/ Outage \/ Recover \/ Restore
    \/ \E seen \in Times : Finalize(seen)

-----------------------------------------------------------------------------
(* Properties.                                                             *)

Register(row) == [mark |-> row.mark, end |-> row.end]

Lasting == INSTANCE LatestEvidence WITH
    shown   <- [r \in TaskRuns |-> Register(mem[r])],
    durable <- [r \in TaskRuns |-> Register(db[r])]

\* Whether a session is shown as ended is decided by the newest evidence that reached the
\* reducer, and the row by the newest that reached the store, in whatever order log records,
\* Controller events, snapshots, merges, retried batches and finalization bring it; nothing the
\* store has is lost, and memory loses evidence only by a restart or to a finalization page
\* (reducer.rs:1689, store/mod.rs:3786, reducer.rs:884).
LifecycleKeepsNewest == Lasting!EvidenceSpec

\* While no write was skipped or lost the reducer and the store, which compare on their own,
\* agree: a restart finds every session open or ended as it is now, by the same evidence.  Only
\* readiness may differ: a historical batch makes every blocked row private in the store, also
\* one that a live record published meanwhile (store/mod.rs:1002).
RestartShowsTheSame ==
    budget.outages = 0 /\ ~degraded /\ owed = {} =>
        \A r \in TaskRuns : /\ Register(db[r]) = Register(mem[r])
                            /\ db[r].latest = mem[r].latest
=============================================================================
