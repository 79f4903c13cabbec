------------------------------ MODULE Retention ------------------------------
(***************************************************************************)
(* Retention deletes the rows of runs that ended long ago, after every     *)
(* batch, on a tick and at startup.  The reducer does not hear of it: its  *)
(* memory keeps the runs, and later batches may name them, while the       *)
(* foreign keys of the database demand the rows.                           *)
(*                                                                         *)
(* src/src/store/mod.rs (cleanup_retention, apply_v6_batch,                *)
(* merge_task_runs) and src/src/reducer.rs (what a batch upserts again).   *)
(* Execution and dependency edges are one relation: the queries treat the  *)
(* two tables alike.  Outages are RuntimePersistence's subject.            *)
(***************************************************************************)
EXTENDS Naturals

CONSTANTS
    Kept,       \* the runs
    Age,        \* RUN_RETENTION_MS
    MaxDay,     \* bound: the wall clock
    MaxBatches  \* bound: batches

ASSUME RetentionConstants ==
    Age \in Nat /\ MaxDay \in Nat /\ MaxBatches \in Nat /\ "none" \notin Kept

VARIABLES
    known,      \* the reducer's runs
    rows,       \* the rows of task_runs
    links,      \* the reducer's edges, from the run that is needed to the one that needs it
    rowLinks,   \* the edges in the database
    draining,   \* the runs associated with a history drain that is not finalized
    day,        \* the wall clock
    batches,    \* for the bound
    missing,    \* the run whose row a refused batch needed, or "none"
    parted      \* history: edges deleted while the run that needs them was not active

retentionVars == <<known, rows, links, rowLinks, draining, day, batches, missing, parted>>

NoRun      == [state |-> "none", at |-> 0]
Active     == [state |-> "active", at |-> 0]
EndedAt(d) == [state |-> "ended", at |-> d]
Absorbed(s) == [state |-> "alias", at |-> s]

Lives(table, r) == table[r].state = "active"
IsOne(table, r) == table[r].state \in {"active", "ended"}

\* Mutant: a run is deleted whatever still needs it.
DoomedUnasked(table, needs, protected, now) ==
    {r \in Kept : table[r].state = "ended" /\ table[r].at + Age < now /\ r \notin protected}

\* The canonical rows that ended before the cutoff, that no active run needs directly, and that
\* no unfinished drain has touched.
Doomed(table, needs, protected, now) ==
    {r \in Kept : /\ table[r].state = "ended" /\ table[r].at + Age < now
                  /\ \A c \in Kept : <<r, c>> \in needs => ~Lives(table, c)
                  /\ r \notin protected}

\* With the doomed rows go their aliases and every edge at one of them.
CleanupRetention(table, needs, protected, cut, now) ==
    LET doomed == Doomed(table, needs, protected, now)
        gone   == doomed \cup {r \in Kept : table[r].state = "alias" /\ table[r].at \in doomed}
    IN  /\ rows' = [r \in Kept |-> IF r \in gone THEN NoRun ELSE table[r]]
        /\ rowLinks' = {l \in needs : l[1] \notin gone /\ l[2] \notin gone}
        /\ parted' = (cut \ needs) \cup {l \in needs \ rowLinks' : ~Lives(table, l[2])}

\* A batch that upserts the runs of a set from memory and adds an edge to those of the database.
\* The upserts come first; the transaction fails as a whole when an edge lacks a row.
Apply(upserted, added, protected) ==
    LET table  == [r \in Kept |-> IF r \in upserted THEN known'[r] ELSE rows[r]]
        absent == {r \in Kept : table[r].state = "none" /\ \E l \in added : r \in {l[1], l[2]}}
    IN  /\ batches < MaxBatches /\ batches' = batches + 1
        /\ \/ /\ absent = {} /\ CleanupRetention(table, rowLinks \cup added, protected, parted, day)
              /\ draining' = protected /\ UNCHANGED missing
           \/ /\ absent # {} /\ missing' \in absent
              /\ UNCHANGED <<rows, rowLinks, draining, parted>>
        /\ UNCHANGED day

Serving == missing = "none"

\* A run appears, goes on after its end, or ends.
Observe(r) ==
    /\ Serving /\ known[r].state # "alias" /\ ~Lives(known, r)
    /\ known' = [known EXCEPT ![r] = Active]
    /\ Apply({r}, {}, draining) /\ UNCHANGED links

Finish(r) ==
    /\ Serving /\ Lives(known, r)
    /\ known' = [known EXCEPT ![r] = EndedAt(day)]
    /\ Apply({r}, {}, draining) /\ UNCHANGED links

\* What preflight lets in: no edge at a merged run or from a run to itself.  Dispatch and
\* dependency edges each have no cycle, which says nothing of the two together.
Linkable(a, b) == a # b /\ known[a].state # "alias" /\ known[b].state # "alias"

\* Dispatch or DependsOn of a Controller: runs it has not heard of are created, the others are
\* not written again, unless the event's evidence happens to touch the subject.
ControllerLink(a, b) ==
    /\ Serving /\ Linkable(a, b)
    /\ LET new == {r \in {a, b} : known[r] = NoRun}
       IN  /\ known' = [r \in Kept |-> IF r \in new THEN Active ELSE known[r]]
           /\ links' = links \cup {<<a, b>>}
           /\ \E touched \in {{}, {b}} : Apply(new \cup touched, {<<a, b>>} \ links, draining)

\* An edge from a provider's log: both ends are written again (finish_provider_observation), and
\* a historical batch also associates them with its drain.
ProviderLink(a, b, historical) ==
    /\ Serving /\ Linkable(a, b)
    /\ known' = [r \in Kept |-> IF r \in {a, b} /\ known[r] = NoRun THEN Active ELSE known[r]]
    /\ links' = links \cup {<<a, b>>}
    /\ Apply({a, b}, {<<a, b>>} \ links, IF historical THEN draining \cup {a, b} ELSE draining)

\* merge_task_runs: the survivor may be seeded by the batch, the absorbed run must have a row.
\* What a refused merge leaves in memory is not followed.
MergeRuns(s, a) ==
    LET moved(r)    == IF r = a THEN s ELSE r
        mapped(set) == {l \in {<<moved(l[1]), moved(l[2])>> : l \in set} : l[1] # l[2]}
        united(x)   == IF known[s].state = "ended" /\ known[a].state = "ended" /\ known[a].at < x.at
                       THEN known[a] ELSE x
        folded(t)   == [r \in Kept |-> IF r = s THEN united(known[s])
                                       ELSE IF r = a \/ t[r] = Absorbed(a) THEN Absorbed(s)
                                       ELSE t[r]]
    IN  /\ Serving /\ s # a /\ IsOne(known, s) /\ IsOne(known, a)
        /\ batches < MaxBatches /\ batches' = batches + 1
        /\ \/ /\ rows[a] # NoRun
              /\ known' = folded(known) /\ links' = mapped(links)
              /\ CleanupRetention(folded(rows), mapped(rowLinks), {moved(r) : r \in draining},
                                  mapped(parted), day)
              /\ draining' = {moved(r) : r \in draining} /\ UNCHANGED missing
           \/ /\ rows[a] = NoRun /\ missing' = a
              /\ UNCHANGED <<known, links, rows, rowLinks, draining, parted>>
        /\ UNCHANGED day

\* The drain is finalized; the tick of the collector; time.
FinalizeDrain ==
    /\ Serving /\ draining # {} /\ draining' = {}
    /\ UNCHANGED <<known, rows, links, rowLinks, day, batches, missing, parted>>

CleanupTick ==
    /\ Serving /\ UNCHANGED known /\ CleanupRetention(rows, rowLinks, draining, parted, day)
    /\ UNCHANGED <<links, draining, day, batches, missing>>

DayPasses ==
    /\ day < MaxDay /\ day' = day + 1
    /\ UNCHANGED <<known, rows, links, rowLinks, draining, batches, missing, parted>>

\* open_writer, which cleans up, and the restored state.
Reopen ==
    /\ CleanupRetention(rows, rowLinks, draining, parted, day)
    /\ known' = rows' /\ links' = rowLinks' /\ missing' = "none"
    /\ UNCHANGED <<draining, day, batches>>

RetentionInit ==
    /\ known = [r \in Kept |-> NoRun] /\ rows = known
    /\ links = {} /\ rowLinks = {} /\ draining = {}
    /\ day = 1 /\ batches = 0 /\ missing = "none" /\ parted = {}

RetentionNext ==
    \/ \E r \in Kept : Observe(r) \/ Finish(r)
    \/ \E a, b \in Kept : \/ ControllerLink(a, b) \/ MergeRuns(a, b)
                          \/ \E historical \in BOOLEAN : ProviderLink(a, b, historical)
    \/ FinalizeDrain \/ CleanupTick \/ DayPasses \/ Reopen

\* The run ended a retention period ago.
LongOver(r) == known[r].state = "ended" /\ known[r].at + Age < day

\* Retention takes only what nobody needs.  While no batch is refused, a restart finds every run
\* of memory as memory has it, except runs that are long over and aliases; every edge to an active
\* run, unless it went while that run was not active; and every run an open drain has touched.
\* A batch is refused for a missing row only when the row's run was long over.  What it shows not
\* to hold: an alias or an edge pruned with an ended run does not come back when the run resumes,
\* and a Controller edge to a long-finished run is refused (store/mod.rs:1344).
RetentionSparesTheLiving ==
    IF Serving
    THEN /\ \A r \in Kept : rows[r] # known[r] =>
                /\ rows[r] = NoRun
                /\ LongOver(r) \/ known[r].state = "alias"
         /\ \A l \in links \ parted : Lives(known, l[2]) => l \in rowLinks
         /\ \A r \in draining : rows[r] # NoRun
    ELSE LongOver(missing)

==============================================================================
