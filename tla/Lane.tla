-------------------------------- MODULE Lane --------------------------------
(***************************************************************************)
(* The log lane (src/provider/lane.rs, Synthesis): from the facts of the   *)
(* provider logs it makes the starts, ends and signs of life of runs that  *)
(* announce none themselves.  A completion is held for a grace period      *)
(* during which a failure or a resumption supersedes it; a run whose log   *)
(* falls silent is closed.  The worker thread (collector.rs) takes one     *)
(* record at a time and hands the events to a bounded buffer: when the     *)
(* buffer refuses one of them, the whole record is undone and waits.       *)
(***************************************************************************)
EXTENDS Integers, Sequences, FiniteSets

CONSTANTS
    Roots,          \* sessions of Claude, each with a log
    Subagents,      \* subagents of Claude, each with a log and a meta file
    ParentOf,       \* the root in whose log a subagent's end is written
    Rollouts,       \* sessions of Codex
    Grace,          \* complete_grace_ms
    Inactivity,     \* headless_inactivity_ms
    BufferCapacity, \* PENDING_ENTITY_CAPACITY
    MaxSource,      \* bound: the times a record may carry
    MaxRecords      \* bound: records read

Scopes == Roots \cup Subagents \cup Rollouts

ASSUME LaneAssumption ==
    /\ ParentOf \in [Subagents -> Roots]
    /\ Roots \cap Subagents = {} /\ (Roots \cup Subagents) \cap Rollouts = {}
    /\ Grace \in Nat /\ Inactivity \in Nat /\ BufferCapacity \in Nat
    /\ MaxSource \in Nat \ {0} /\ MaxRecords \in Nat

VARIABLES
    clock,      \* the worker's wall clock
    synthesis,  \* Synthesis: its maps and sets, by scope
    buffered,   \* the number of events in PendingEvents.lane
    deferred,   \* the record that waits for room, as a sequence of facts
    metas,      \* meta_emitted
    history,    \* the history drain: "reading", "finalized" or "failed"
    stopped,    \* the worker thread has ended
    taken,      \* records read, for the bound
    \* Histories:
    told,       \* per scope, what the events handed over say of it
    abandoned   \* scopes that were left open when their drain was abandoned

laneVars == <<clock, synthesis, buffered, deferred, metas, history, stopped,
              taken, told, abandoned>>

\* Times start at 1; 0 and "none" are the absence of an entry in a map.
Absent == 0
NoEnd  == [at |-> 0, failed |-> FALSE]

\* The entries of the maps and sets of Synthesis for one scope.
Fresh == [started |-> Absent, startedOrigin |-> "none",
          appended |-> Absent, appendOrigin |-> "none",
          held |-> Absent, heldOrigin |-> "none",
          end |-> NoEnd, completed |-> FALSE, inactive |-> FALSE, described |-> FALSE]

LaneInit ==
    /\ clock = 1
    /\ synthesis = [s \in Scopes |-> Fresh]
    /\ buffered = 0
    /\ deferred = <<>>
    /\ metas = {}
    /\ history = "reading"
    /\ stopped = FALSE
    /\ taken = 0
    /\ told = [s \in Scopes |-> "nothing"]
    /\ abandoned = {}

----------------------------------------------------------------------------
(* Synthesis.  A step takes [syn, events, told, abandoned] to the same:     *)
(* the entries, the number of events pushed, what these say of each scope,  *)
(* and the abandoned scopes that none of them started again.  The origin of *)
(* an event is left to HistoryDrain.                                        *)

Ended(entry)  == [entry EXCEPT !.started = Absent, !.startedOrigin = "none"]
Unheld(entry) == [entry EXCEPT !.held = Absent, !.heldOrigin = "none"]

\* The held completions of these scopes are told.
TellHeld(st, scopes) ==
    IF scopes = {} THEN st
    ELSE [syn |-> [s \in Scopes |-> IF s \in scopes
                      THEN [Ended(Unheld(st.syn[s])) EXCEPT !.completed = TRUE] ELSE st.syn[s]],
          events |-> st.events + Cardinality(scopes),
          told |-> [s \in Scopes |-> IF s \in scopes THEN "completed" ELSE st.told[s]],
          abandoned |-> st.abandoned]

\* flush_due_completes
FlushDueCompletes(st, now) ==
    TellHeld(st, {s \in Scopes : /\ st.syn[s].held # Absent
                                 /\ now >= st.syn[s].held + Grace})

\* Whether a sign of life is no news: it is older than the subagent's end.
Outdated(entry, at) == entry.end # NoEnd /\ at <= entry.end.at

\* Mutant: a resumed scope stays in the set of those closed for inactivity.
ResumedKeepsClosed(entry) ==
    [Unheld(entry) EXCEPT !.completed = FALSE, !.end = NoEnd]

\* prepare_resume, once the sign of life is news.
Resumed(entry) ==
    [Unheld(entry) EXCEPT !.completed = FALSE, !.inactive = FALSE, !.end = NoEnd]

\* start_scope
StartScope(entry, at, origin) ==
    IF entry.started # Absent THEN entry
    ELSE [entry EXCEPT !.started = at, !.startedOrigin = origin]

\* The scope's new entry, the number of events pushed for it and what they say of it, if anything:
\* only a Started event says "open".
Push(st, s, entry, pushed, word) ==
    [syn |-> [st.syn EXCEPT ![s] = entry],
     events |-> st.events + pushed,
     told |-> [st.told EXCEPT ![s] = IF word = "none" THEN @ ELSE word],
     abandoned |-> IF word = "open" THEN st.abandoned \ {s} ELSE st.abandoned]

\* LogFact::Append
OnAppend(st0, s, at, origin) ==
    LET st    == FlushDueCompletes(st0, at)
        old   == st.syn[s]
        entry == [Resumed(old) EXCEPT !.appended = at, !.appendOrigin = origin]
        open  == /\ s \in Roots \/ old.completed \/ old.inactive
                 /\ old.started = Absent
    IN  IF Outdated(old, at) THEN st
        ELSE IF open
        THEN Push(st, s, StartScope(entry, at, origin), 2, "open")
        ELSE Push(st, s, entry, 1, "none")

\* LogFact::CodexMeta: the first of an artifact counts, at the time of its
\* record.
OnCodexMeta(st0, s, origin) ==
    LET old == st0.syn[s]
        at  == old.appended
        st  == FlushDueCompletes(st0, at)
    IN  IF old.described THEN st0
        ELSE Push(st, s, [StartScope(Resumed(st.syn[s]), at, origin)
                            EXCEPT !.described = TRUE], 1, "open")

\* LogFact::CodexTurnStarted
OnTurnStarted(st0, s, at, origin) ==
    LET st  == FlushDueCompletes(st0, at)
        old == st.syn[s]
        entry == StartScope(Resumed(old), at, origin)
    IN  IF old.started = Absent THEN Push(st, s, entry, 1, "open") ELSE Push(st, s, entry, 0, "none")

\* LogFact::CodexTurnAborted
OnTurnAborted(st0, s, at) ==
    LET st == FlushDueCompletes(st0, at)
    IN  Push(st, s, [Ended(Unheld(st.syn[s])) EXCEPT !.completed = FALSE], 1, "cancelled")

\* LogFact::SubagentAppeared
OnAppeared(st0, s, at, origin) ==
    LET st == FlushDueCompletes(st0, at)
    IN  IF Outdated(st.syn[s], at) THEN st
        ELSE Push(st, s, StartScope(Resumed(st.syn[s]), at, origin), 2, "open")

\* LogFact::SubagentEnded: the earliest end counts, and a failure dominates,
\* until the completion has been told.
OnEnded(st0, s, failed, at, origin) ==
    LET old == st0.syn[s]
        end == [at |-> IF old.end # NoEnd /\ old.end.at < at THEN old.end.at ELSE at,
                failed |-> failed]
        st  == FlushDueCompletes(Push(st0, s, [old EXCEPT !.end = end], 0, "none"), end.at)
    IN  IF old.end.failed \/ old.completed THEN st0
        ELSE IF failed
        THEN Push(st, s, [Ended(Unheld(st.syn[s])) EXCEPT !.completed = FALSE], 1, "failed")
        ELSE Push(st, s, [st.syn[s] EXCEPT !.held = end.at, !.heldOrigin = origin], 0, "none")

\* synthesize_fact
SynthesizeFact(st, fact, origin) ==
    LET s == fact.scope
    IN  CASE fact.kind = "append"       -> OnAppend(st, s, fact.at, origin)
          [] fact.kind = "meta"         -> OnCodexMeta(st, s, origin)
          [] fact.kind = "turn_started" -> OnTurnStarted(st, s, fact.at, origin)
          [] fact.kind = "turn_aborted" -> OnTurnAborted(st, s, fact.at)
          [] fact.kind = "turn_complete" -> FlushDueCompletes(st, fact.at)
          [] fact.kind = "appeared"     -> OnAppeared(st, s, fact.at, origin)
          [] fact.kind = "ended"        -> OnEnded(st, s, FALSE, fact.at, origin)
          [] fact.kind = "ended_failed" -> OnEnded(st, s, TRUE, fact.at, origin)

Untouched == [syn |-> synthesis, events |-> 0, told |-> told, abandoned |-> abandoned]

\* synthesize_batch_with_origin, of the one or two facts of a record.
SynthesizeBatch(facts) ==
    LET origin == IF history = "reading" THEN "historical" ELSE "live"
        opening == SynthesizeFact(Untouched, facts[1], origin)
    IN  IF Len(facts) = 1 THEN opening ELSE SynthesizeFact(opening, facts[2], origin)

\* A scope closed for inactivity: the origin of the close is taken from the
\* last append, and only for want of one from the start.
Closed(entry) ==
    [entry EXCEPT !.inactive = TRUE, !.started = Absent,
                  !.startedOrigin = IF entry.appendOrigin = "none" THEN "none" ELSE @,
                  !.appendOrigin = "none"]

Silent(entry) ==
    LET anchor == IF entry.appended # Absent THEN entry.appended ELSE entry.started
    IN  /\ entry.started # Absent /\ entry.held = Absent
        /\ ~entry.inactive /\ ~entry.completed
        /\ clock - anchor >= Inactivity

\* advance_lifecycle
AdvanceLifecycle ==
    LET st == FlushDueCompletes(Untouched, clock)
        closing == {s \in Scopes : Silent(st.syn[s])}
    IN  IF closing = {} THEN st
        ELSE [syn |-> [s \in Scopes |-> IF s \in closing THEN Closed(st.syn[s]) ELSE st.syn[s]],
              events |-> st.events + Cardinality(closing),
              told |-> [s \in Scopes |-> IF s \in closing THEN "closed" ELSE st.told[s]],
              abandoned |-> st.abandoned]

\* abandon_origin
AbandonedScopes ==
    {s \in Scopes : "historical" \in {synthesis[s].startedOrigin,
                                      synthesis[s].appendOrigin,
                                      synthesis[s].heldOrigin}}

Abandoned(entry) ==
    [Ended(Unheld(entry)) EXCEPT !.appended = Absent, !.appendOrigin = "none",
                                 !.completed = FALSE, !.inactive = FALSE]

----------------------------------------------------------------------------
(* The worker thread. *)

\* The facts of the records a log may hold next.
Records(s) ==
    LET at(t, kind, u) == [kind |-> kind, scope |-> u, at |-> t]
        begins(t) == at(t, "append", s)
    IN  {<<begins(t)>> : t \in 1 .. MaxSource}
        \cup (IF s \notin Roots THEN {}
              ELSE {<<begins(t), at(t, kind, u)>> :
                      t \in 1 .. MaxSource, kind \in {"ended", "ended_failed"},
                      u \in {v \in Subagents : ParentOf[v] = s}})
        \cup (IF s \notin Rollouts THEN {}
              ELSE {<<begins(t), at(t, kind, s)>> :
                      t \in 1 .. MaxSource,
                      kind \in {"meta", "turn_started", "turn_complete", "turn_aborted"}})

MetaRecord(s, t) == <<[kind |-> "appeared", scope |-> s, at |-> t]>>

Hand(st) ==
    /\ synthesis' = st.syn
    /\ buffered' = buffered + st.events
    /\ told' = st.told
    /\ abandoned' = st.abandoned

Fits(st) == buffered + st.events <= BufferCapacity

\* Mutant: a refused record waits, but what it did to the synthesis stays.
TakeRecordKept(facts) ==
    \E st \in {SynthesizeBatch(facts)} :
        /\ IF Fits(st)
           THEN Hand(st) /\ deferred' = <<>>
           ELSE /\ deferred' = facts
                /\ synthesis' = st.syn
                /\ UNCHANGED <<buffered, told, abandoned>>
        /\ UNCHANGED <<clock, history, stopped>>

\* drain_deferred_records, of one record: all of its events are merged, or
\* none is and the synthesis is put back.
TakeRecord(facts) ==
    \E st \in {SynthesizeBatch(facts)} :
        /\ IF Fits(st)
           THEN Hand(st) /\ deferred' = <<>>
           ELSE deferred' = facts /\ UNCHANGED <<synthesis, buffered, told, abandoned>>
        /\ UNCHANGED <<clock, history, stopped>>

ReadRecord(s) ==
    /\ ~stopped /\ deferred = <<>>
    /\ taken < MaxRecords
    /\ taken' = taken + 1
    /\ \E facts \in Records(s) : TakeRecord(facts)
    /\ UNCHANGED metas

\* The meta file of a subagent is tried again until its events are taken.
ReadMeta(s) ==
    /\ ~stopped /\ deferred = <<>>
    /\ s \notin metas
    /\ taken < MaxRecords
    /\ taken' = taken + 1
    /\ metas' = metas \cup {s}
    /\ \E t \in 1 .. MaxSource :
        \E st \in {SynthesizeBatch(MetaRecord(s, t))} : Fits(st) /\ Hand(st)
    /\ UNCHANGED <<clock, deferred, history, stopped>>

RetryRecord ==
    /\ ~stopped /\ deferred # <<>>
    /\ TakeRecord(deferred)
    /\ UNCHANGED <<metas, taken>>

\* emit_due_lifecycle_events, at the end of a sweep over all the logs.
EmitDueLifecycleEvents ==
    /\ ~stopped /\ deferred = <<>>
    /\ \E st \in {AdvanceLifecycle} : st.events # 0 /\ Fits(st) /\ Hand(st)
    /\ UNCHANGED <<clock, deferred, metas, history, stopped, taken>>

\* flush_to_sender: the collector has taken the buffered events.
FlushBuffer ==
    /\ ~stopped
    /\ buffered > 0
    /\ buffered' = 0
    /\ UNCHANGED <<clock, synthesis, deferred, metas, history, stopped, taken,
                   told, abandoned>>

\* The drain ends: finalized, or abandoned with all it had begun.
DrainFinalized ==
    /\ ~stopped /\ history = "reading" /\ deferred = <<>>
    /\ history' = "finalized"
    /\ UNCHANGED <<clock, synthesis, buffered, deferred, metas, stopped, taken,
                   told, abandoned>>

AbandonHistoryDrain ==
    LET scopes == AbandonedScopes
    IN  /\ ~stopped /\ history = "reading"
        /\ history' = "failed"
        /\ synthesis' = [s \in Scopes |-> IF s \in scopes THEN Abandoned(synthesis[s])
                                          ELSE synthesis[s]]
        /\ abandoned' = abandoned \cup scopes
        /\ UNCHANGED <<clock, buffered, deferred, metas, stopped, taken, told>>

\* flush_graceful_stop: the held outcomes are sent unless the history is
\* unfinished or failed; what is buffered or deferred is dropped.
GracefulStop ==
    LET held == {s \in Scopes : synthesis[s].held # Absent}
        st   == TellHeld(Untouched, IF history = "finalized" THEN held ELSE {})
    IN  /\ ~stopped
        /\ stopped' = TRUE
        /\ synthesis' = st.syn
        /\ told' = st.told
        /\ buffered' = 0
        /\ UNCHANGED <<clock, deferred, metas, history, taken, abandoned>>

Tick ==
    /\ ~stopped
    /\ clock < MaxSource + Inactivity
    /\ clock' = clock + 1
    /\ UNCHANGED <<synthesis, buffered, deferred, metas, history, stopped, taken,
                   told, abandoned>>

\* What the thread does on its own, whether or not a log grows.
Cycle == RetryRecord \/ EmitDueLifecycleEvents \/ FlushBuffer

LaneNext ==
    \/ \E s \in Scopes : ReadRecord(s)
    \/ \E s \in Subagents : ReadMeta(s)
    \/ Cycle
    \/ DrainFinalized \/ AbandonHistoryDrain \/ GracefulStop \/ Tick

LaneFairness == WF_laneVars(Tick) /\ WF_laneVars(Cycle)

----------------------------------------------------------------------------
\* The synthesis and what the collector was told agree: a scope is started
\* exactly when the last word on it is that it started, and one that was told
\* completed or closed is remembered as such, so that the next sign of life
\* tells of the resumption.  A record refused for lack of room leaves no
\* trace of itself in one and not the other (drain_deferred_records).
ToldAgrees ==
    \A s \in Scopes \ abandoned :
        /\ (synthesis[s].started # Absent) <=> (told[s] = "open")
        /\ told[s] = "completed" => synthesis[s].completed
        /\ told[s] = "closed" => synthesis[s].inactive

\* A run that the lane has said to be running is eventually said to have
\* ended: by the outcome in its log once the grace is over, or for
\* inactivity; unless its drain is abandoned or the worker stops.
LaneSettles ==
    \A s \in Scopes :
        told[s] = "open" ~> (told[s] # "open" \/ s \in abandoned \/ stopped)
=============================================================================
