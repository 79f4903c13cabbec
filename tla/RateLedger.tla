----------------------------- MODULE RateLedger -----------------------------
(***************************************************************************)
(* The measured output of a task run: what its logs told since somebody    *)
(* was watching.  The telemetry of a run is what was read of its logs in   *)
(* this process, history included, and begins at zero again after a        *)
(* restart; a cursor remembers how much of it was there at the last        *)
(* observation, and only growth between two live observations of one epoch *)
(* and one identity enters the run's total.  Totals are written by         *)
(* checkpoints that may fail, and fold when runs merge.                    *)
(*                                                                         *)
(* Left out: the working time, which the same cursor measures, and the     *)
(* saturation of both at the range of SQLite's integers.                   *)
(*                                                                         *)
(* src/src/reducer.rs (begin_rate_epoch ... restore_dirty_rate_totals,     *)
(* publish), src/src/model/entities.rs, src/src/identity.rs,               *)
(* src/src/herdr/collector.rs (persist_rate_checkpoint) and                *)
(* src/src/store/mod.rs (run_rate_totals).                                 *)
(***************************************************************************)
EXTENDS Naturals, FiniteSets, Functions

CONSTANTS
    Logs,           \* session logs
    RunIds,         \* task runs
    Nobody,
    MaxTokens,      \* bound: output tokens in all logs
    MaxLedgerSteps  \* bound: gaps, snapshots, failed writes and restarts

ASSUME RateLedgerConstants ==
    /\ IsFiniteSet(RunIds) /\ MaxTokens \in Nat /\ MaxLedgerSteps \in Nat
    /\ Nobody \notin RunIds \cup {"provisional", "controller", "absorbed"}
    /\ {"provisional", "controller", "absorbed"} \cap Logs = {}

VARIABLES
    written,    \* tokens in each log
    consumed,   \* tokens read of each log in this process
    frozen,     \* tokens each log had when this process froze its manifest
    owner,      \* the run each log belongs to, Nobody while none is known
    basis,      \* the primary key of each run: "provisional", "controller" or a log; "absorbed"
    telemetry,  \* output tokens of each run
    cursor,     \* each run's rate cursor
    watching,   \* rate_epoch_active
    totals,     \* run_rate_totals in memory
    dirty,      \* dirty_rate_totals
    stored,     \* the database: keys of runs, their totals, and whose each log is
    ledgerSteps,\* for the bound
    measured,   \* history: for each run and what it absorbed, the tokens told to it live while it
                \* was watched
    mergeLost   \* history: a merge was not written

ledgerVars == <<written, consumed, frozen, owner, basis, telemetry, cursor, watching, totals,
                dirty, stored, ledgerSteps, measured, mergeLost>>

NoCursor == [baseline |-> 0, live |-> FALSE, key |-> Nobody]

\* Ids are never used again: an absorbed run does not come back in this process.
RunKnown(r) == basis[r] \notin {Nobody, "absorbed"}

LedgerStep == ledgerSteps < MaxLedgerSteps /\ ledgerSteps' = ledgerSteps + 1

-----------------------------------------------------------------------------
\* Mutant: a run without a cursor is measured from zero.
RateSeenFromZero(count, key, c, total, live) ==
    [cursor |-> [baseline |-> count, live |-> live, key |-> key],
     total  |-> IF count > c.baseline THEN total + count - c.baseline ELSE total]

\* observe_run_rates_with_activity: the cursor and the total of a run with the given telemetry.
\* Cursors do not outlive their epoch, so the epochs agree.
RateSeen(count, key, c, total, live) ==
    [cursor |-> [baseline |-> count, live |-> live, key |-> key],
     total  |-> IF live /\ c.live /\ c.key = key /\ count > c.baseline
                THEN total + count - c.baseline ELSE total]

\* publish: the run that was touched, with the telemetry, key, cursor and total it now has.
Publish(r, count, key, c, total, live) ==
    LET seen == RateSeen(count, key, c, total, live)
    IN  IF watching \/ ~live
        THEN /\ cursor' = [cursor EXCEPT ![r] = seen.cursor]
             /\ totals' = [totals EXCEPT ![r] = seen.total]
             /\ dirty' = IF seen.total > total THEN dirty \cup {r} ELSE dirty
        ELSE /\ cursor' = [cursor EXCEPT ![r] = c]
             /\ totals' = [totals EXCEPT ![r] = total] /\ UNCHANGED dirty

\* The agent writes.
WriteToken(l) ==
    /\ SumFunction(written) < MaxTokens
    /\ written' = [written EXCEPT ![l] = @ + 1]
    /\ UNCHANGED <<consumed, frozen, owner, basis, telemetry, cursor, watching, totals, dirty,
                   stored, ledgerSteps, measured, mergeLost>>

\* A telemetry event of the log lane, historical up to the manifest's goalpost.  That of an
\* unknown run waits.
ReadToken(l) ==
    /\ consumed[l] < written[l] /\ consumed' = [consumed EXCEPT ![l] = @ + 1]
    /\ LET live == consumed[l] >= frozen[l]  r == owner[l]
       IN  IF r = Nobody
           THEN UNCHANGED <<telemetry, cursor, totals, dirty, measured>>
           ELSE /\ telemetry' = [telemetry EXCEPT ![r] = @ + 1]
                /\ Publish(r, telemetry'[r], basis[r], cursor[r], totals[r], live)
                /\ measured' = [measured EXCEPT ![r] = IF live /\ watching THEN @ + 1 ELSE @]
    /\ UNCHANGED <<written, frozen, owner, basis, watching, stored, ledgerSteps, mergeLost>>

\* The rows that go with an event are written, or the writer fails and they are not.
Persist(rows) ==
    \/ stored' = rows /\ UNCHANGED ledgerSteps
    \/ LedgerStep /\ UNCHANGED stored

\* A run is announced, or any event touches one.
TouchRun(r, key) ==
    /\ \/ basis[r] = Nobody /\ key \in {"provisional", "controller"}
       \/ RunKnown(r) /\ key = basis[r]
    /\ basis' = [basis EXCEPT ![r] = key]
    /\ Publish(r, telemetry[r], key, cursor[r], totals[r], TRUE)
    /\ Persist([stored EXCEPT !.key[r] = key])
    /\ UNCHANGED <<written, consumed, frozen, owner, telemetry, watching, measured, mergeLost>>

\* A log is found to be a run's: a provisional run takes its key, a Controller's keeps its own.
\* What waited for the run is told now.
BindLog(l, r) ==
    /\ owner[l] = Nobody /\ RunKnown(r) /\ basis[r] \notin Logs
    /\ owner' = [owner EXCEPT ![l] = r]
    /\ basis' = [basis EXCEPT ![r] = IF @ = "provisional" THEN l ELSE @]
    /\ telemetry' = [telemetry EXCEPT ![r] = @ + consumed[l]]
    /\ Publish(r, telemetry'[r], basis'[r], cursor[r], totals[r], TRUE)
    /\ measured' = [measured EXCEPT ![r] = IF watching THEN @ + consumed[l] ELSE @]
    /\ Persist([stored EXCEPT !.key[r] = basis'[r], !.owner[l] = r])
    /\ UNCHANGED <<written, consumed, frozen, watching, mergeLost>>

\* Which run absorbs which.
Absorbs(s, a) ==
    \/ basis[s] = "controller" /\ basis[a] \in Logs \cup {"provisional"}
    \/ basis[s] \in Logs /\ basis[a] = "provisional"

\* merge_task_runs and merge_rate_totals.
MergedRows(s, a) == [stored EXCEPT
    !.key = [stored.key EXCEPT ![s] = basis[s], ![a] = "absorbed"],
    !.totals = [stored.totals EXCEPT ![s] = @ + stored.totals[a], ![a] = 0],
    !.owner = [l \in Logs |-> IF @[l] = a THEN s ELSE @[l]]]

\* Neither identity's baseline may bridge into the merged run.
MergedCursor(s) == NoCursor

\* merge_in_memory and the write of MergeTaskRuns.  The write may fail, as it does when the absorbed
\* run has no row, and is not repeated.
AbsorbRun(s, a) ==
    /\ Absorbs(s, a)
    /\ owner' = [l \in Logs |-> IF owner[l] = a THEN s ELSE owner[l]]
    /\ telemetry' = [telemetry EXCEPT ![s] = @ + telemetry[a], ![a] = 0]
    /\ basis' = [basis EXCEPT ![a] = "absorbed"]
    /\ LET total == totals[s] + totals[a]
           seen  == RateSeen(telemetry'[s], basis[s], MergedCursor(s), total, TRUE)
       IN  /\ totals' = [totals EXCEPT ![s] = IF watching THEN seen.total ELSE total, ![a] = 0]
           /\ cursor' = [cursor EXCEPT ![s] = IF watching THEN seen.cursor ELSE MergedCursor(s),
                                       ![a] = NoCursor]
           /\ dirty' = (dirty \ {a}) \cup {s}
    /\ \/ stored.key[a] \notin {Nobody, "absorbed"} /\ stored' = MergedRows(s, a)
          /\ UNCHANGED <<mergeLost, ledgerSteps>>
       \/ LedgerStep /\ UNCHANGED stored /\ mergeLost' = TRUE
    /\ measured' = [measured EXCEPT ![s] = @ + measured[a], ![a] = 0]
    /\ UNCHANGED <<written, consumed, frozen, watching>>

\* begin_rate_epoch: a gap.
BeginRateGap ==
    /\ watching /\ watching' = FALSE /\ LedgerStep
    /\ cursor' = [r \in RunIds |-> NoCursor]
    /\ UNCHANGED <<written, consumed, frozen, owner, basis, telemetry, totals, dirty, stored,
                   measured, mergeLost>>

\* reconcile_snapshot: a new epoch, with a baseline for the runs that work or have a live execution.
ActivateRateEpoch ==
    /\ ~watching /\ watching' = TRUE
    /\ \E live \in SUBSET {r \in RunIds : RunKnown(r)} :
          cursor' = [r \in RunIds |-> IF r \in live
                       THEN [baseline |-> telemetry[r], live |-> TRUE, key |-> basis[r]]
                       ELSE NoCursor]
    /\ UNCHANGED <<written, consumed, frozen, owner, basis, telemetry, totals, dirty, stored,
                   ledgerSteps, measured, mergeLost>>

\* persist_rate_checkpoint: what is dirty goes out; it stays dirty unless it is known to be
\* committed.
Checkpoint ==
    /\ dirty # {}
    /\ LET rows == [stored EXCEPT
                       !.key = [r \in RunIds |-> IF r \in dirty THEN basis[r] ELSE @[r]],
                       !.totals = [r \in RunIds |-> IF r \in dirty THEN totals[r] ELSE @[r]]]
       IN  \/ stored' = rows /\ dirty' = {} /\ UNCHANGED ledgerSteps
           \/ LedgerStep /\ stored' \in {rows, stored} /\ UNCHANGED dirty
    /\ UNCHANGED <<written, consumed, frozen, owner, basis, telemetry, cursor, watching, totals,
                   measured, mergeLost>>

\* The process ends anywhere; the next one restores the totals and reads every log as history.
RestartLedger ==
    /\ LedgerStep
    /\ consumed' = [l \in Logs |-> 0] /\ frozen' = written
    /\ owner' = stored.owner /\ totals' = stored.totals
    /\ telemetry' = [r \in RunIds |-> 0] /\ cursor' = [r \in RunIds |-> NoCursor]
    /\ basis' = stored.key
    /\ watching' = FALSE /\ dirty' = {}
    /\ UNCHANGED <<written, stored, measured, mergeLost>>

-----------------------------------------------------------------------------
LedgerInit ==
    /\ written = [l \in Logs |-> 0] /\ consumed = written /\ frozen = written
    /\ owner = [l \in Logs |-> Nobody] /\ basis = [r \in RunIds |-> Nobody]
    /\ telemetry = [r \in RunIds |-> 0] /\ cursor = [r \in RunIds |-> NoCursor]
    /\ watching = FALSE /\ totals = telemetry /\ dirty = {}
    /\ stored = [key |-> basis, totals |-> totals, owner |-> owner]
    /\ ledgerSteps = 0 /\ measured = totals /\ mergeLost = FALSE

LedgerNext ==
    \/ \E l \in Logs : WriteToken(l) \/ ReadToken(l) \/ \E r \in RunIds : BindLog(l, r)
    \/ \E r \in RunIds, key \in {"provisional", "controller"} \cup Logs : TouchRun(r, key)
    \/ \E s, a \in RunIds : AbsorbRun(s, a)
    \/ BeginRateGap \/ ActivateRateEpoch \/ Checkpoint \/ RestartLedger

\* Nothing is measured twice and nothing old is measured: across gaps, restarts that read the logs
\* again, new identities and merges, the total of a run never exceeds what it and the runs it
\* absorbed were told live while somebody watched, and what is not marked for the next checkpoint
\* is in the database.  Tokens that waited for their run are told with it (reducer.rs:1606).
\* Exempt is the merge that was not written, whose parts come back beside the sum at a restart
\* (collector.rs:1420).
MeasuredOnce ==
    /\ ~mergeLost => \A r \in RunIds : totals[r] <= measured[r]
    /\ \A r \in RunIds : RunKnown(r) /\ r \notin dirty => stored.totals[r] = totals[r]

=============================================================================
