------------------------------ MODULE TaskRuns ------------------------------
(***************************************************************************)
(* The reducer's task runs: who owns which identity, what state each run   *)
(* is in, and the two graphs between runs (src/reducer.rs, src/identity.rs,*)
(* src/model/graph.rs).                                                    *)
(*                                                                         *)
(* Three sources write the same model. Controllers announce work by name,  *)
(* often before it exists. Herdr reports panes and snapshots. Providers    *)
(* resolve session files and notice inactivity. A run observed by one      *)
(* source may turn out to be the run another source named: it is then      *)
(* bound to a further key, or merged.                                      *)
(*                                                                         *)
(* The whole model is one record, `model', as in the code: an event is     *)
(* applied to a scratch copy that replaces the model only when no step     *)
(* failed.                                                                 *)
(*                                                                         *)
(* A behaviour is one life of the collector. It begins with a model that   *)
(* the store's rows may give, whatever the lives before left in them:      *)
(* retention deletes runs with their aliases and edges, and events; a      *)
(* write that failed is not repeated, so rows may lack any binding, merge, *)
(* outcome or end of an execution.  Nothing is claimed of two lives.       *)
(*                                                                         *)
(* Abstracted: labels, times (a deadline may have passed or not), the      *)
(* provider of a session identifier (part of the identifier), agent nodes, *)
(* telemetry, and the native lifecycle evidence, none of which feeds back  *)
(* into identities, task states or edges.                                  *)
(***************************************************************************)
EXTENDS Naturals, FiniteSets, Functions

CONSTANTS Names,      \* Controller task run identifiers
          Sids,       \* native session identifiers
          Paths,      \* session files that Herdr names instead of an identifier
          Terminals,  \* Herdr terminals, each hosting at most one agent
          NoSid, NoTerminal,
          Kinds,      \* the Controller event kinds of this instance
          Stored,     \* the task states of restored runs in this instance
          MaxRestored,\* bound: runs that the store gives back
          MaxRuns     \* bound: run identifiers in use, restored ones included

ASSUME MaxRunsAssumption ==
  MaxRuns \in Nat \ {0} /\ MaxRestored \in Nat /\ MaxRestored <= MaxRuns
ASSUME NoneAssumption == NoSid \notin Sids /\ NoTerminal \notin Terminals

VARIABLES model,
          reported    \* history: names whose Controllers said that their runs are at work

vars == <<model, reported>>

Runs == 1..MaxRuns
Outcomes == {"Completed", "Failed", "Cancelled"}
TaskStates == {"Queued", "Running", "Blocked", "EndedUnknown"} \cup Outcomes
ASSUME StoredAssumption == Stored \subseteq TaskStates

IsTerminal(state) == state \in Outcomes \cup {"EndedUnknown"}

(***************************************************************************)
(* RunKey and its priority                                                 *)
(***************************************************************************)
ControllerKey(name) == <<"controller", name>>
Native(sid) == <<"native", sid>>
NativePath(path) == <<"path", path>>
Provisional(run) == <<"provisional", run>>

Keys == ({"controller"} \X Names) \cup ({"native"} \X Sids)
          \cup ({"path"} \X Paths) \cup ({"provisional"} \X Runs)

IsController(key) == key[1] = "controller"
IsNative(key) == key[1] = "native"
IsProvisional(key) == key[1] = "provisional"

key_priority(key) == CASE IsController(key) -> 3
                       [] IsNative(key) -> 2
                       [] key[1] = "path" -> 1
                       [] IsProvisional(key) -> 0

(***************************************************************************)
(* The domain model: a scratch record `m' with                             *)
(*   runs     run -> [key, state, ctl, dismissed]                          *)
(*   byKey    primary and superseded keys -> the run they resolve to       *)
(*   live     <<terminal, run>>: a nonterminal execution                   *)
(*   hosted   runs that have any execution, ended ones included            *)
(*   parent   <<parent, child>>: dispatch                                  *)
(*   needs    <<prerequisite, dependent>>: dependency                      *)
(*   nonLane  runs with a task-state event that is not from the log lane   *)
(*   next     the next run identifier                                      *)
(***************************************************************************)
Known(m, key) == key \in DOMAIN m.byKey /\ m.byKey[key] \in DOMAIN m.runs
KeyOf(m, run) == m.runs[run].key
LiveOn(m, t) == {run \in DOMAIN m.runs : <<t, run>> \in m.live}
HasLive(m, run) == \E t \in Terminals : <<t, run>> \in m.live
AtWork(m, name) ==
  /\ Known(m, ControllerKey(name))
  /\ m.runs[m.byKey[ControllerKey(name)]].state \in {"Running", "Blocked"}

\* A touch of a run that is not terminal makes it visible again.
touch(run) == IF IsTerminal(run.state) THEN run ELSE [run EXCEPT !.dismissed = FALSE]

\* Replaces or adds the runs of `entries', a function from runs to what they become. The key
\* a run had stops resolving to it.
insert_task_runs(m, entries) ==
  LET former == {k \in DOMAIN m.byKey : \E r \in DOMAIN entries \cap DOMAIN m.runs :
                                          k = KeyOf(m, r) /\ m.byKey[k] = r}
      claimed == {entries[r].key : r \in DOMAIN entries}
  IN  [m EXCEPT
         !.runs = [r \in DOMAIN m.runs \cup DOMAIN entries |->
                     IF r \in DOMAIN entries THEN entries[r] ELSE m.runs[r]],
         !.byKey = [k \in (DOMAIN m.byKey \ former) \cup claimed |->
                      IF k \in claimed THEN CHOOSE r \in DOMAIN entries : entries[r].key = k
                      ELSE m.byKey[k]]]

insert_task_run(m, r, run) == insert_task_runs(m, [inserted \in {r} |-> run])

insert_task_run_alias(m, key, r) ==
  [m EXCEPT !.byKey = [k \in DOMAIN m.byKey \cup {key} |-> IF k = key THEN r ELSE m.byKey[k]]]

SetState(m, runs, state) ==
  insert_task_runs(m, [r \in runs |-> touch([m.runs[r] EXCEPT !.state = state])])

Dismiss(m, runs) == insert_task_runs(m, [r \in runs |-> [m.runs[r] EXCEPT !.dismissed = TRUE]])

NewRuns(m, entries, next) == [insert_task_runs(m, entries) EXCEPT !.next = next]

NewRun(m, r, key, state, ctl) ==
  NewRuns(m, [new \in {r} |-> [key |-> key, state |-> state, ctl |-> ctl, dismissed |-> FALSE]],
          r + 1)

(***************************************************************************)
(* The graphs. A set of edges has a cycle iff some nonempty set of nodes   *)
(* has, for each of its nodes, a successor inside the set.                 *)
(***************************************************************************)
Nodes(edges) == UNION {{e[1], e[2]} : e \in edges}

graph_has_cycle(edges) ==
  \E S \in SUBSET Nodes(edges) :
     S # {} /\ \A n \in S : \E s \in S : <<n, s>> \in edges

OneParent(edges) == \A e, f \in edges : e[2] = f[2] => e[1] = f[1]

preflight_execution_edge(m, edge) ==
  OneParent(m.parent \cup {edge}) /\ ~graph_has_cycle(m.parent \cup {edge})

\* Mutant: only an edge from a run to itself is refused.
preflight_dependency_edge_direct(m, edge) == edge[1] # edge[2]

preflight_dependency_edge(m, edge) == ~graph_has_cycle(m.needs \cup {edge})

(***************************************************************************)
(* Binding evidence (src/identity.rs)                                      *)
(***************************************************************************)
NativeKeys(m, run) ==
  {k \in DOMAIN m.byKey : IsNative(k) /\ m.byKey[k] = run}
    \cup {k \in {KeyOf(m, run)} : IsNative(k)}

substitute(run, survivor, absorbed) == IF run = absorbed THEN survivor ELSE run

contract(edges, survivor, absorbed) ==
  {<<substitute(e[1], survivor, absorbed), substitute(e[2], survivor, absorbed)>>
     : e \in edges}

preflight_merge(m, survivor, absorbed) ==
  /\ survivor # absorbed
  /\ key_priority(KeyOf(m, survivor)) >= key_priority(KeyOf(m, absorbed))
  /\ ~(IsController(KeyOf(m, survivor)) /\ IsController(KeyOf(m, absorbed)))
  /\ Cardinality(NativeKeys(m, survivor)) + Cardinality(NativeKeys(m, absorbed)) <= 1
  /\ OneParent(contract(m.parent, survivor, absorbed))
  /\ ~graph_has_cycle(contract(m.parent, survivor, absorbed))
  /\ ~graph_has_cycle(contract(m.needs, survivor, absorbed))

\* Every key of the absorbed run, its primary key included, resolves to the survivor.
Repointed(m, survivor, absorbed) ==
  [k \in DOMAIN m.byKey \cup {KeyOf(m, absorbed)} |->
     IF k = KeyOf(m, absorbed) THEN survivor
     ELSE substitute(m.byKey[k], survivor, absorbed)]

\* The absorbed run is removed, and whatever led to it leads to the survivor.
RunAbsorbed(m, survivor, absorbed) ==
  [m EXCEPT !.runs = [r \in DOMAIN m.runs \ {absorbed} |-> m.runs[r]],
            !.byKey = Repointed(m, survivor, absorbed),
            !.live = {<<e[1], substitute(e[2], survivor, absorbed)>> : e \in m.live},
            !.hosted = {substitute(r, survivor, absorbed) : r \in m.hosted},
            !.parent = contract(m.parent, survivor, absorbed),
            !.needs = contract(m.needs, survivor, absorbed)]

merge_in_memory(m, survivor, absorbed) ==
  insert_task_run(RunAbsorbed(m, survivor, absorbed), survivor,
                  touch([m.runs[survivor] EXCEPT !.ctl = @ \/ m.runs[absorbed].ctl]))

\* Mutant: the key a run had before it was re-keyed is forgotten.
apply_bind_forgets(m, run, key) ==
  IF IsController(KeyOf(m, run)) THEN insert_task_run_alias(m, key, run)
  ELSE insert_task_run(m, run, touch([m.runs[run] EXCEPT !.key = key]))

\* Binding a native key: a Controller run gains an alias, a path or provisional run is re-keyed.
apply_bind(m, run, key) ==
  LET old == KeyOf(m, run)
      entry == m.runs[run]
  IN  IF IsController(old)
      THEN insert_task_run(insert_task_run_alias(m, key, run), run, touch(entry))
      ELSE insert_task_run_alias(
             insert_task_run(m, run, touch([entry EXCEPT !.key = key])), old, run)

NoChange == [do |-> "none", survivor |-> 0, absorbed |-> 0]
Conflict == [do |-> "conflict", survivor |-> 0, absorbed |-> 0]
Bind(run) == [do |-> "bind", survivor |-> run, absorbed |-> 0]

planned_merge(m, survivor, absorbed) ==
  IF preflight_merge(m, survivor, absorbed)
  THEN [do |-> "merge", survivor |-> survivor, absorbed |-> absorbed]
  ELSE Conflict

plan_native_session(m, run, sid) ==
  IF Known(m, Native(sid))
  THEN LET owner == m.byKey[Native(sid)]
       IN  CASE owner = run -> NoChange
             [] owner # run /\ IsProvisional(KeyOf(m, run)) /\ ~IsController(KeyOf(m, owner))
                  -> planned_merge(m, owner, run)
             [] OTHER -> Conflict
  ELSE IF IsProvisional(KeyOf(m, run)) THEN Bind(run) ELSE Conflict

plan_native_path_resolution(m, run, sid) ==
  IF ~Known(m, Native(sid)) THEN Bind(run)
  ELSE IF m.byKey[Native(sid)] = run THEN NoChange
  ELSE planned_merge(m, m.byKey[Native(sid)], run)

plan_controller_native(m, run, sid) ==
  IF Known(m, Native(sid))
  THEN LET owner == m.byKey[Native(sid)]
       IN  CASE owner = run -> NoChange
             [] owner # run /\ ~IsController(KeyOf(m, owner)) -> planned_merge(m, run, owner)
             [] OTHER -> Conflict
  ELSE IF NativeKeys(m, run) = {} THEN Bind(run) ELSE Conflict

plan_controller_terminal(m, run, t) ==
  IF LiveOn(m, t) \subseteq {run} THEN NoChange
  ELSE IF \E other \in DOMAIN m.runs :
            LiveOn(m, t) = {other} /\ ~IsController(KeyOf(m, other))
  THEN planned_merge(m, run, CHOOSE other \in DOMAIN m.runs : LiveOn(m, t) = {other})
  ELSE Conflict

\* A step of an event either fails or yields the next scratch model.
Ok(m) == [ok |-> TRUE, m |-> m]
Fail(m) == [ok |-> FALSE, m |-> m]

apply_binding(m, plan, sid) ==
  CASE plan.do = "none" -> Ok(m)
    [] plan.do = "conflict" -> Fail(m)
    [] plan.do = "bind" -> Ok(apply_bind(m, plan.survivor, Native(sid)))
    [] plan.do = "merge" -> Ok(merge_in_memory(m, plan.survivor, plan.absorbed))

\* What an event says of identity: a native session first, then a terminal.
BindSession(m, run, sid) ==
  IF sid = NoSid \/ run \notin DOMAIN m.runs THEN Ok(m)
  ELSE apply_binding(m, IF IsController(KeyOf(m, run))
                        THEN plan_controller_native(m, run, sid)
                        ELSE plan_native_session(m, run, sid), sid)

BindTerminal(m, run, t) ==
  IF t = NoTerminal \/ run \notin DOMAIN m.runs \/ ~IsController(KeyOf(m, run)) THEN Ok(m)
  ELSE apply_binding(m, plan_controller_terminal(m, run, t), NoSid)

apply_identity_metadata(m, run, sid, t) ==
  LET bound == BindSession(m, run, sid)
  IN  IF bound.ok THEN BindTerminal(bound.m, run, t) ELSE bound

(***************************************************************************)
(* Controller events (validate_controller_event)                           *)
(***************************************************************************)
Relationships == {"dispatch", "depends_on"}
Ends == {"complete", "failed", "cancelled"}

\* The task state an event announces; a relationship or a visibility event announces none.
controller_target_state(kind) ==
  CASE kind = "task_started" -> "Running"
    [] kind = "blocked" -> "Blocked"
    [] kind = "progress" -> "Queued"
    [] kind = "complete" -> "Completed"
    [] kind = "failed" -> "Failed"
    [] kind = "cancelled" -> "Cancelled"
    [] OTHER -> "none"

\* Mutant: `task_started' restarts a run that has an outcome.
controller_task_transition_restarts(current, target) ==
  IF target \in Outcomes /\ current \in Outcomes THEN current
  ELSE IF target = "Queued" /\ current # "EndedUnknown" THEN current
  ELSE IF target = "Queued" THEN "Running" ELSE target

controller_task_transition(current, target) ==
  CASE target = "Running" ->
         IF current \in {"Queued", "Blocked", "EndedUnknown"} THEN "Running" ELSE current
    [] target = "Blocked" ->
         IF current \in {"Queued", "Running", "EndedUnknown"} THEN "Blocked" ELSE current
    [] target = "Queued" -> IF current = "EndedUnknown" THEN "Running" ELSE current
    [] target \in Outcomes -> IF current \in Outcomes THEN current ELSE target

\* `other' is the dispatch parent or the prerequisite; it is the subject for other kinds.
Events == [kind : Kinds, subject : Names, other : Names, lane : BOOLEAN,
           sid : Sids \cup {NoSid}, terminal : Terminals \cup {NoTerminal}]

WellFormed(e) == e.kind \notin Relationships => e.other = e.subject

\* The end of a native session read from a log is lifecycle evidence, not a task state.
LaneNativeEnd(e) == e.lane /\ e.sid # NoSid /\ e.kind \in Ends
Target(e) == IF LaneNativeEnd(e) THEN "none" ELSE controller_target_state(e.kind)

resolve_controller_run(m, name) ==
  IF Known(m, ControllerKey(name)) THEN m.byKey[ControllerKey(name)] ELSE m.next

Subject(m, e) == resolve_controller_run(m, e.subject)
Other(m, e) ==
  IF e.other = e.subject THEN Subject(m, e)
  ELSE IF Known(m, ControllerKey(e.other)) THEN m.byKey[ControllerKey(e.other)]
  ELSE IF Known(m, ControllerKey(e.subject)) THEN m.next ELSE m.next + 1

ensure_metadata_run(m, e) ==
  IF Subject(m, e) \in DOMAIN m.runs THEN m
  ELSE NewRun(m, Subject(m, e), ControllerKey(e.subject),
              IF Target(e) = "none" THEN "Queued" ELSE Target(e), Target(e) # "none")

ensure_controller_placeholder(m, run, name) ==
  IF run \in DOMAIN m.runs THEN m ELSE NewRun(m, run, ControllerKey(name), "Queued", FALSE)

validate_controller_transition(m, e, subject, other) ==
  LET state == m.runs[subject].state
  IN  CASE e.kind = "dispatch" -> preflight_execution_edge(m, <<other, subject>>)
        [] e.kind = "depends_on" ->
             /\ ~IsTerminal(state) \/ <<other, subject>> \in m.needs
             /\ preflight_dependency_edge(m, <<other, subject>>)
        [] e.kind = "task_started" -> state \notin Outcomes \/ NativeKeys(m, subject) # {}
        [] e.kind \in Ends /\ ~LaneNativeEnd(e) ->
             state \notin Outcomes \/ state = Target(e)
        [] OTHER -> TRUE

apply_controller_metadata(m, e, subject, other) ==
  LET entry == m.runs[subject]
      stated == IF Target(e) = "none" THEN m
                ELSE [insert_task_run(m, subject,
                        touch([entry EXCEPT !.ctl = TRUE,
                                            !.state = controller_task_transition(@, Target(e))]))
                        EXCEPT !.nonLane = IF e.lane THEN @ ELSE @ \cup {subject}]
  IN  [stated EXCEPT
         !.parent = IF e.kind = "dispatch" THEN @ \cup {<<other, subject>>} ELSE @,
         !.needs = IF e.kind = "depends_on" THEN @ \cup {<<other, subject>>} ELSE @]

\* Events that change no run: the end of a session the subject does not own, a dismissal of an
\* unknown run, an end that a log reports for a run nobody announced.
RecordedOnly(m, e) ==
  \/ e.kind = "session_ended"
       /\ ~(Known(m, ControllerKey(e.subject)) /\ e.sid # NoSid
              /\ Native(e.sid) \in NativeKeys(m, Subject(m, e)))
  \/ ~Known(m, ControllerKey(e.subject)) /\ (e.kind = "dismiss" \/ (e.lane /\ e.kind \in Ends))

Mutated(m, e) ==
  LET subject == Subject(m, e)
      other == Other(m, e)
      staged == ensure_controller_placeholder(ensure_metadata_run(m, e), other, e.other)
  IN  IF ~validate_controller_transition(staged, e, subject, other) THEN Fail(m)
      ELSE apply_identity_metadata(apply_controller_metadata(staged, e, subject, other),
                                   subject, e.sid, e.terminal)

validate_controller_event(m, e) ==
  IF RecordedOnly(m, e) THEN Ok(m)
  ELSE IF e.kind = "dismiss"
  THEN Ok(Dismiss(m, {Subject(m, e)}))
  ELSE Mutated(m, e)

\* The staged model replaces the model only when every step of the event succeeded.
Commit(step) == step.ok /\ step.m.next <= MaxRuns + 1 /\ model' = step.m

\* What a Controller says of a task's state, rather than a log, and which leaves it at work.
Reported(e, m) ==
  IF ~e.lane /\ Target(e) # "none" /\ AtWork(m, e.subject) THEN {e.subject} ELSE {}

ControllerEvent ==
  \E e \in Events : /\ WellFormed(e) /\ Commit(validate_controller_event(model, e))
                    /\ reported' = reported \cup Reported(e, model')

(***************************************************************************)
(* Herdr observations                                                      *)
(***************************************************************************)
\* Each of the functions below works on one run; they are stated of a set, of which no run's
\* outcome depends on another's.
close_run_without_live_execution(m, runs) ==
  SetState(m, {run \in runs : /\ ~HasLive(m, run) /\ ~m.runs[run].ctl
                              /\ ~IsTerminal(m.runs[run].state)}, "EndedUnknown")

activate_for_live_execution(m, runs) ==
  SetState(m, {run \in runs : \/ m.runs[run].state = "EndedUnknown"
                              \/ m.runs[run].state = "Queued" /\ ~m.runs[run].ctl}, "Running")

end_execution(m, t, runs) ==
  close_run_without_live_execution([m EXCEPT !.live = @ \ ({t} \X runs)], runs)

\* Mutant: the executions a pane had before its agent changed are left running.
EndAll_skipped(m, t, ending) == m

EndAll(m, t, ending) == end_execution(m, t, ending)

ensure_execution_run(m, run, sid) ==
  IF run \in DOMAIN m.runs THEN m
  ELSE NewRun(m, run, IF sid # NoSid /\ ~Known(m, Native(sid)) THEN Native(sid)
                      ELSE Provisional(run), "Running", FALSE)

Hosting(m, t, run) == [m EXCEPT !.live = @ \cup {<<t, run>>}, !.hosted = @ \cup {run}]

\* The run an execution belongs to once its own event may have merged it.
Activated(m, t) == activate_for_live_execution(m, LiveOn(m, t))

execution_begin(m, t, run, sid) ==
  LET bound == apply_identity_metadata(Hosting(ensure_execution_run(m, run, sid), t, run),
                                       run, sid, t)
  IN  IF bound.ok THEN Ok(Activated(bound.m, t)) ELSE bound

\* An execution keeps its run unless the pane names a session that another run owns.
Reusable(m, t, sid) ==
  {run \in LiveOn(m, t) :
     sid = NoSid \/ NativeKeys(m, run) = {} \/ Native(sid) \in NativeKeys(m, run)}

\* pane_created, pane_updated, pane_agent_detected with an agent: one observation, all or nothing.
PaneWithAgent(t, sid) ==
  \/ \E run \in Reusable(model, t, sid) :
       Commit(execution_begin(EndAll(model, t, LiveOn(model, t) \ {run}), t, run, sid))
  \/ /\ Reusable(model, t, sid) = {}
     /\ Commit(execution_begin(EndAll(model, t, LiveOn(model, t)), t, model.next, sid))

\* A pane update without an agent, and a pane move: the live execution is stated again.
PaneWithoutAgent(t, sid) ==
  \E run \in Reusable(model, t, sid) :
     sid # NoSid /\ Commit(execution_begin(model, t, run, sid))

PaneMoved(t, sid) ==
  \E run \in LiveOn(model, t) : Commit(execution_begin(model, t, run, sid))

\* pane_closed, pane_exited, a tab or workspace closure, or a stale execution past its grace.
PaneGone(t) == LiveOn(model, t) # {} /\ Commit(Ok(EndAll(model, t, LiveOn(model, t))))

(***************************************************************************)
(* reconcile_snapshot: every execution ends, the snapshot's panes begin    *)
(* theirs, then the runs that had executions close if none is live.        *)
(***************************************************************************)
References == {<<"absent">>, <<"bare">>} \cup ({"native"} \X Sids) \cup ({"path"} \X Paths)

\* The panes that host an agent, and what each says of its run: a pane without a reference has
\* a run of its own.
Hosts(panes) == {t \in Terminals : panes[t][1] # "absent"}
Claim(panes, t) == IF panes[t][1] = "bare" THEN <<"bare", t>> ELSE panes[t]
Claims(panes) == {Claim(panes, t) : t \in Hosts(panes)}

\* `new' gives the next identifiers, in the order of the panes, to the claims no run is known by.
SnapshotRun(m, claim, new) ==
  IF Known(m, claim) THEN m.byKey[claim] ELSE CHOOSE run \in DOMAIN new : new[run] = claim

insert_snapshot_run(m, new, last) ==
  LET key == [run \in DOMAIN new |-> IF new[run][1] = "bare" THEN Provisional(run) ELSE new[run]]
  IN  NewRuns(m, [run \in DOMAIN new |-> [key |-> key[run], state |-> "Running",
                                          ctl |-> FALSE, dismissed |-> FALSE]], last + 1)

InstallPanes(m, panes, new, last) ==
  LET executions == {<<t, SnapshotRun(m, Claim(panes, t), new)>> : t \in Hosts(panes)}
      running == {e[2] : e \in executions}
  IN  activate_for_live_execution(
        [insert_snapshot_run(m, new, last) EXCEPT !.live = executions,
                                                  !.hosted = @ \cup running], running)

reconcile_snapshot(m, panes, new, last) ==
  close_run_without_live_execution(InstallPanes(m, panes, new, last), m.hosted)

Snapshot ==
  \E panes \in [Terminals -> References], last \in (model.next - 1)..MaxRuns :
     \E new \in Bijection(model.next..last, {claim \in Claims(panes) : ~Known(model, claim)}) :
        Commit(Ok(reconcile_snapshot(model, panes, new, last)))

(***************************************************************************)
(* Provider evidence, sweeps, operator                                     *)
(***************************************************************************)
\* A session file became readable: its run is re-keyed or merged into the session's owner.
SessionResolved(path, sid) ==
  /\ Known(model, NativePath(path))
  /\ LET run == model.byKey[NativePath(path)]
     IN  Commit(IF KeyOf(model, run)[1] = "path"
                THEN apply_binding(model, plan_native_path_resolution(model, run, sid), sid)
                ELSE IF IsNative(KeyOf(model, run)) /\ KeyOf(model, run) # Native(sid)
                THEN Ok(model)
                ELSE BindSession(model, run, sid))

\* The only Codex pane without a session and the only unowned new session are paired.
HeuristicBinding(run, sid) ==
  /\ IsProvisional(KeyOf(model, run)) /\ HasLive(model, run) /\ ~Known(model, Native(sid))
  /\ Commit(apply_binding(model, plan_native_session(model, run, sid), sid))

\* A log scope went silent.
LaneClose(key) ==
  /\ Known(model, key)
  /\ LET run == model.byKey[key]
     IN  /\ ~model.runs[run].dismissed /\ ~IsTerminal(model.runs[run].state)
         /\ ~HasLive(model, run) /\ run \notin model.nonLane /\ NativeKeys(model, run) = {}
         /\ Commit(Ok(SetState(model, {run}, "EndedUnknown")))

DispatchOnlyInactive(m, run) ==
  /\ IsController(KeyOf(m, run)) /\ run \notin m.hosted
  /\ m.runs[run].state = "Queued" /\ ~m.runs[run].dismissed

\* Mutant: the sweep does not ask whether a Controller owns the state.
FactTimedInactive_owned(m, run) ==
  /\ IsController(KeyOf(m, run)) \/ IsProvisional(KeyOf(m, run))
  /\ m.runs[run].state = "Running" /\ ~m.runs[run].dismissed /\ ~HasLive(m, run)

FactTimedInactive(m, run) ==
  /\ IsController(KeyOf(m, run)) \/ IsProvisional(KeyOf(m, run))
  /\ m.runs[run].state = "Running" /\ ~m.runs[run].dismissed
  /\ run \notin m.nonLane /\ ~HasLive(m, run)

\* sweep_stale: of the runs it may close, those whose inactivity deadline has passed.
SweepStale ==
  \E due \in SUBSET {run \in DOMAIN model.runs :
                       DispatchOnlyInactive(model, run) \/ FactTimedInactive(model, run)} :
     /\ due # {}
     /\ Commit(Ok(SetState(model, due, "EndedUnknown")))

\* DismissClearable: terminal runs, and hook-only runs past their visibility deadline.
DismissClearable ==
  \E stale \in SUBSET {run \in DOMAIN model.runs :
                         IsController(KeyOf(model, run)) /\ run \notin model.hosted} :
     LET cleared == stale \cup {run \in DOMAIN model.runs : IsTerminal(model.runs[run].state)}
     IN  /\ \E run \in cleared : ~model.runs[run].dismissed
         /\ Commit(Ok(Dismiss(model, cleared)))

(***************************************************************************)
(* What a life begins with: a model that rows of the store give            *)
(* (restore_task_runs, restore_executions and the edges). A run that was   *)
(* absorbed is an alias row of its former key. Provisional keys belong to  *)
(* one life and resolve to nothing later.                                  *)
(***************************************************************************)
StoredKeys == {key \in Keys : ~IsProvisional(key)}

\* What the reducer writes of one run: only Controllers block or complete a task, announce one
\* that nobody works on, or own its state; only such a run, or one that ended, is dismissed.
StoredRuns(runs) ==
  {row \in [key : StoredKeys \cup {Provisional(run) : run \in runs}, state : Stored,
            ctl : BOOLEAN, dismissed : BOOLEAN] :
     /\ row.state \in Outcomes \cup {"Blocked"} => row.ctl
     /\ row.ctl \/ row.state = "Queued" => IsController(row.key)
     /\ row.dismissed => IsController(row.key) \/ IsTerminal(row.state)}

\* Unique indexes: no two rows have one key. A provisional key names its own run.
Rows(runs) ==
  {rows \in [runs -> StoredRuns(runs)] :
     \A r, q \in runs : /\ rows[r].key = rows[q].key => r = q
                        /\ IsProvisional(rows[r].key) => rows[r].key = Provisional(r)}

\* Alias rows and native bindings: a session is bound to a named run, or is the run's key, and
\* at most one is; a session file became a session or a named run.
Bindings(rows) ==
  {byKey \in UNION {[keys -> DOMAIN rows] : keys \in SUBSET StoredKeys} :
     /\ \A r \in DOMAIN rows :
           ~IsProvisional(rows[r].key) => rows[r].key \in DOMAIN byKey /\ byKey[rows[r].key] = r
     /\ \A k \in DOMAIN byKey :
           LET key == rows[byKey[k]].key
           IN  \/ key = k
               \/ ~IsController(k) /\ IsController(key)
               \/ ~IsController(k) /\ ~IsNative(k) /\ IsNative(key)
     /\ \A k, l \in DOMAIN byKey : IsNative(k) /\ IsNative(l) /\ byKey[k] = byKey[l] => k = l}

\* Executions that had not ended, at most one in a terminal; see the README for the rows of an
\* outage that hold two until the first snapshot ends both.
Executions(runs) == {live \in SUBSET (Terminals \X runs) : \A e, f \in live : e[1] = f[1] => e = f}

\* Edges between rows that are kept: foreign keys, one parent of a child, and no cycle, since
\* every edge was one of a model without a cycle.
StoredEdges(runs) == {edges \in SUBSET (runs \X runs) : ~graph_has_cycle(edges)}

\* Ownership of a state by a Controller is read from the event rows that retention has kept.
Owned(rows) == {r \in DOMAIN rows : rows[r].ctl}

Init ==
  \E last \in 0..MaxRestored : \E rows \in Rows(1..last) :
    \E byKey \in Bindings(rows), live \in Executions(1..last), hosted \in SUBSET (1..last),
       parent \in StoredEdges(1..last), needs \in StoredEdges(1..last),
       nonLane \in SUBSET Owned(rows) :
      /\ {e[2] : e \in live} \subseteq hosted /\ OneParent(parent)
      /\ model = [runs |-> rows, byKey |-> byKey, live |-> live, hosted |-> hosted,
                  parent |-> parent, needs |-> needs, nonLane |-> nonLane, next |-> last + 1]
      /\ reported = {name \in Names : AtWork(model, name)
                                        /\ byKey[ControllerKey(name)] \in nonLane}

HerdrObservation ==
  \/ \E t \in Terminals, sid \in Sids \cup {NoSid} :
       PaneWithAgent(t, sid) \/ PaneWithoutAgent(t, sid) \/ PaneMoved(t, sid)
  \/ \E t \in Terminals : PaneGone(t)
  \/ Snapshot

Next ==
  \/ ControllerEvent
  \/ /\ UNCHANGED reported
     /\ \/ HerdrObservation
        \/ \E path \in Paths, sid \in Sids : SessionResolved(path, sid)
        \/ \E run \in DOMAIN model.runs, sid \in Sids : HeuristicBinding(run, sid)
        \/ \E key \in Keys : ~IsProvisional(key) /\ LaneClose(key)
        \/ SweepStale
        \/ DismissClearable

Spec == Init /\ [][Next]_vars

(***************************************************************************)
(* Properties                                                              *)
(***************************************************************************)
\* The shape of the reducer's model: runs, keys, executions and the identifier counter.
TypeOK ==
  /\ DOMAIN model.runs \subseteq Runs
  /\ \A run \in DOMAIN model.runs :
        model.runs[run] \in [key : Keys, state : TaskStates, ctl : BOOLEAN, dismissed : BOOLEAN]
  /\ DOMAIN model.byKey \subseteq Keys
  /\ model.live \subseteq Terminals \X Runs
  /\ model.next \in 1..(MaxRuns + 1)
  /\ reported \subseteq Names

\* However Controllers, Herdr and providers interleave their bindings and merges, every key,
\* superseded ones included, resolves to a run that exists, every run that is not provisional
\* is found under its own key, and no run answers for two native sessions.
KeysResolve ==
  /\ \A key \in DOMAIN model.byKey : model.byKey[key] \in DOMAIN model.runs
  /\ \A run \in DOMAIN model.runs :
        /\ IsProvisional(KeyOf(model, run)) \/ Known(model, KeyOf(model, run))
        /\ Known(model, KeyOf(model, run)) => model.byKey[KeyOf(model, run)] = run
        /\ Cardinality(NativeKeys(model, run)) <= 1

\* No order of dispatch and depends_on announcements, forward references included, gives a
\* run two parents, closes a cycle, or leaves an edge to a run that is gone.
GraphsSound ==
  /\ \A e \in model.parent \cup model.needs : {e[1], e[2]} \subseteq DOMAIN model.runs
  /\ OneParent(model.parent) /\ ~graph_has_cycle(model.parent) /\ ~graph_has_cycle(model.needs)

\* Merges and rolled-back observations never orphan an execution, and a terminal has at most
\* one live run: a pane that changes its agent ends the execution of the former one.
ExecutionsOwned ==
  /\ \A e \in model.live : e[2] \in DOMAIN model.runs /\ e[2] \in model.hosted
  /\ model.hosted \subseteq DOMAIN model.runs
  /\ \A t \in Terminals : Cardinality(LiveOn(model, t)) <= 1

\* Both, after every binding, merge and rolled-back observation.
IdentitiesSound == KeysResolve /\ ExecutionsOwned

\* While a collector lives, two names that it found to mean one task, or that its store gave it
\* as one, never come apart again, whatever is bound, merged, rolled back or snapshotted later.
NeverSplit ==
  [][\A k, l \in DOMAIN model.byKey :
        (~IsProvisional(k) /\ ~IsProvisional(l) /\ model.byKey[k] = model.byKey[l])
          => {k, l} \subseteq DOMAIN model'.byKey /\ model'.byKey[k] = model'.byKey[l]]_vars

\* The outcome a Controller reported for its task is final while the collector lives: no later
\* event, merge, sweep or snapshot changes it or moves the name to another run.
OutcomeStands ==
  [][\A name \in Names :
        LET key == ControllerKey(name)
        IN  Known(model, key) /\ model.runs[model.byKey[key]].state \in Outcomes
              => /\ Known(model', key) /\ model'.byKey[key] = model.byKey[key]
                 /\ model'.runs[model'.byKey[key]].state = model.runs[model.byKey[key]].state]_vars

\* An inferred end (pane gone, log silent, inactivity sweep) never closes a run that still has
\* a live execution, nor the run of a name that its Controller reported to be at work: to this
\* collector, or to an earlier one in an event whose row was still kept when this one began.
InferredEndSound ==
  [][\A run \in DOMAIN model.runs \cap DOMAIN model'.runs :
        model.runs[run].state # "EndedUnknown" /\ model'.runs[run].state = "EndedUnknown"
          => /\ ~HasLive(model', run)
             /\ \A name \in reported : KeyOf(model, run) # ControllerKey(name)]_vars

=============================================================================
