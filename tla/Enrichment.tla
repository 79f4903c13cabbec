----------------------------- MODULE Enrichment -----------------------------
(***************************************************************************)
(* The second subscription, for the status of the agents in the panes      *)
(* (src/herdr/collector.rs: EnrichmentConverge, run_enrichment_reader,     *)
(* EnrichmentDeferral, apply_enrichment_payload).                          *)
(*                                                                         *)
(* Herdr takes one subscription per connection and one pane per scope, so  *)
(* a reader task of its own closes its connection and subscribes anew when *)
(* the set of panes changes.  The collector tells it the set through a     *)
(* watch; the reader hands status events over through a bounded channel    *)
(* and drops what does not fit; when Herdr refuses a pane, it asks the     *)
(* collector to prune it and waits for the acknowledgement.  The collector *)
(* applies status events only while Live: every snapshot says the status   *)
(* too, and what waits in the channel meanwhile is discarded.              *)
(*                                                                         *)
(* The primary subscription and its episodes are Convergence's; here a     *)
(* hint is a unit of a counter that neither overflows nor is lost.  A pane *)
(* is its public address, which another pane may take later.  A status is  *)
(* a version number.                                                       *)
(***************************************************************************)
EXTENDS Naturals, Sequences, FiniteSets

CONSTANTS
    Addresses,      \* the public pane ids
    NoPane,
    PayloadQueue,   \* ENRICHMENT_QUEUE_CAPACITY
    MaxTurns,       \* bound on panes that come, go or change their status
    MaxBreaks       \* bound on failures of either subscription

ASSUME EnrichmentAssumption ==
    /\ NoPane \notin Addresses
    /\ PayloadQueue \in Nat \ {0}
    /\ MaxTurns \in Nat
    /\ MaxBreaks \in Nat

VARIABLES
    world,      \* Herdr: the occupied addresses and the status at each
    hints,      \* topology hints the collector has not received
    phase,      \* where converge is, and whether its replay saw a hint
    snapshot,   \* the answer to the snapshot request, once there is one
    shown,      \* the panes and their status in the model
    targets,    \* target_set, published: the collector's half
    watch,      \* the watch: its value, and whether the reader has seen it
    tail,       \* the reader: program point, its target_set, the pane refused
    conn,       \* its connection: state, scope, events not yet read
    payloads,   \* the channel of EnrichmentPayload
    prune,      \* the prune the reader waits for, and its acknowledgement
    late,       \* history: addresses with unread events when Live began
    retaken,    \* history: addresses pruned since the snapshot while occupied
    turns, breaks

enrichmentVars == <<world, hints, phase, snapshot, shown, targets, watch, tail, conn, payloads,
                    prune, late, retaken, turns, breaks>>

collectorSide == <<phase, snapshot, shown, targets, late, retaken>>
readerSide == <<tail, conn>>
bounds == <<turns, breaks>>

-----------------------------------------------------------------------------
(* State.                                                                  *)

Statuses == 0 .. MaxTurns
Views == [panes : SUBSET Addresses, status : [Addresses -> Statuses]]
Events == [pane : Addresses, status : Statuses]

NoSnapshot == [panes |-> {}, status |-> [p \in Addresses |-> 0], taken |-> FALSE]
NoConnection == [state |-> "none", scope |-> {}, wire |-> <<>>]
NoPrune == [pane |-> NoPane, acked |-> FALSE]

\* The reader begins with the empty set of the new watch.
FreshReader == [at |-> "empty", set |-> {}, refused |-> NoPane]

Phases == {"generation", "request", "replay", "quiet", "reconciling", "live", "joining"}

EnrichmentTypeOK ==
    /\ world \in Views
    /\ hints \in Nat
    /\ phase \in [at : Phases, dirty : BOOLEAN]
    /\ snapshot \in [panes : SUBSET Addresses, status : [Addresses -> Statuses], taken : BOOLEAN]
    /\ shown \in Views
    /\ targets \in [set : SUBSET Addresses, published : BOOLEAN]
    /\ watch \in [set : SUBSET Addresses, changed : BOOLEAN]
    /\ tail \in [at : {"empty", "deferring", "subscribing", "refused", "pruning", "streaming",
                       "gone"},
                 set : SUBSET Addresses, refused : Addresses \cup {NoPane}]
    /\ conn \in [state : {"none", "open", "ended"}, scope : SUBSET Addresses, wire : Seq(Events)]
    /\ payloads \in Seq(Events) /\ Len(payloads) <= PayloadQueue
    /\ prune \in [pane : Addresses \cup {NoPane}, acked : BOOLEAN]
    /\ late \subseteq Addresses
    /\ retaken \subseteq Addresses
    /\ turns \in 0 .. MaxTurns
    /\ breaks \in 0 .. MaxBreaks

\* A subscription has been made; the model is what the store restored.
EnrichmentInit ==
    /\ \E panes \in SUBSET Addresses :
          world = [panes |-> panes, status |-> [p \in Addresses |-> 0]]
    /\ hints = 0
    /\ phase = [at |-> "generation", dirty |-> FALSE]
    /\ snapshot = NoSnapshot
    /\ shown = [panes |-> {}, status |-> [p \in Addresses |-> 0]]
    /\ targets = [set |-> {}, published |-> FALSE]
    /\ watch = [set |-> {}, changed |-> FALSE]
    /\ tail = FreshReader
    /\ conn = NoConnection
    /\ payloads = <<>>
    /\ prune = NoPrune
    /\ late = {} /\ retaken = {}
    /\ turns = 0 /\ breaks = 0

Break == breaks < MaxBreaks /\ breaks' = breaks + 1

-----------------------------------------------------------------------------
(* Herdr.  Each change is hinted at on the primary subscription, a status  *)
(* also as pane.updated; the scoped connection has the status events.      *)

Turn == turns < MaxTurns /\ turns' = turns + 1 /\ hints' = hints + 1

HerdrFrame == UNCHANGED <<collectorSide, watch, tail, payloads, prune>>

StatusChanges(p) ==
    /\ p \in world.panes
    /\ Turn
    /\ world' = [world EXCEPT !.status[p] = @ + 1]
    /\ conn' = IF conn.state = "open" /\ p \in conn.scope
               THEN [conn EXCEPT !.wire = Append(@, [pane |-> p, status |-> world.status[p] + 1])]
               ELSE conn
    /\ HerdrFrame
    /\ UNCHANGED breaks

\* The next pane at an address has a status of its own, which nobody was told.
PaneComes(p) ==
    /\ p \notin world.panes
    /\ Turn
    /\ world' = [panes |-> world.panes \cup {p}, status |-> [world.status EXCEPT ![p] = @ + 1]]
    /\ HerdrFrame
    /\ UNCHANGED <<conn, breaks>>

PaneGoes(p) ==
    /\ p \in world.panes
    /\ Turn
    /\ world' = [world EXCEPT !.panes = @ \ {p}]
    /\ HerdrFrame
    /\ UNCHANGED <<conn, breaks>>

\* The scoped connection ends; what was sent may still be read, or is lost.
ConnectionEnds ==
    /\ conn.state = "open"
    /\ Break
    /\ \E rest \in {conn.wire, <<>>} : conn' = [conn EXCEPT !.state = "ended", !.wire = rest]
    /\ HerdrFrame
    /\ UNCHANGED <<world, hints, turns>>

TakeSnapshot ==
    /\ phase.at = "request"
    /\ ~snapshot.taken
    /\ snapshot' = [panes |-> world.panes, status |-> world.status, taken |-> TRUE]
    /\ UNCHANGED <<world, hints, phase, shown, targets, watch, readerSide, payloads, prune, late,
                   retaken, bounds>>

HerdrStep ==
    \/ \E p \in Addresses : StatusChanges(p) \/ PaneComes(p) \/ PaneGoes(p)
    \/ ConnectionEnds
    \/ TakeSnapshot

-----------------------------------------------------------------------------
(* run_enrichment_reader.  Each of its waits also ends with the token.     *)

ReaderSideFrame == UNCHANGED <<world, hints, collectorSide, bounds>>

\* The loop starts over: with no targets it waits for some, else for the deferral.
LoopTop(set) == [at |-> IF set = {} THEN "empty" ELSE "deferring", set |-> set, refused |-> NoPane]

\* targets.changed(), and borrow_and_update.  A connection is closed before the
\* next is made.
TargetsChanged ==
    /\ tail.at \in {"empty", "deferring", "streaming"}
    /\ watch.changed
    /\ watch' = [watch EXCEPT !.changed = FALSE]
    /\ tail' = LoopTop(watch.set)
    /\ conn' = NoConnection
    /\ ReaderSideFrame
    /\ UNCHANGED <<payloads, prune>>

\* The deferral is over.
DeferralOver ==
    /\ tail.at = "deferring"
    /\ watch' = [watch EXCEPT !.changed = FALSE]
    /\ tail' = IF watch.set = {} THEN LoopTop({})
               ELSE [tail EXCEPT !.at = "subscribing", !.set = watch.set]
    /\ ReaderSideFrame
    /\ UNCHANGED <<conn, payloads, prune>>

Accepted ==
    /\ tail.at = "subscribing"
    /\ tail.set \subseteq world.panes
    /\ conn' = [state |-> "open", scope |-> tail.set, wire |-> <<>>]
    /\ tail' = [tail EXCEPT !.at = "streaming"]
    /\ ReaderSideFrame
    /\ UNCHANGED <<watch, payloads, prune>>

\* pane_not_found, for one of the panes that are gone.
Refused ==
    /\ tail.at = "subscribing"
    /\ \E p \in tail.set \ world.panes : tail' = [tail EXCEPT !.at = "refused", !.refused = p]
    /\ ReaderSideFrame
    /\ UNCHANGED <<watch, conn, payloads, prune>>

\* Any other error, or a refusal that names none of the targets: retried.
SubscriptionFails ==
    /\ tail.at = "subscribing"
    /\ Break
    /\ tail' = LoopTop(tail.set)
    /\ UNCHANGED <<world, hints, collectorSide, watch, conn, payloads, prune, turns>>

SendPrune ==
    /\ tail.at = "refused"
    /\ prune' = [pane |-> tail.refused, acked |-> FALSE]
    /\ tail' = [tail EXCEPT !.at = "pruning"]
    /\ ReaderSideFrame
    /\ UNCHANGED <<watch, conn, payloads>>

\* Mutant: the reader goes on with its own set, marking the watch as seen.
PruneAcknowledged_own_set ==
    /\ tail.at = "pruning"
    /\ prune.acked
    /\ prune' = NoPrune
    /\ watch' = [watch EXCEPT !.changed = FALSE]
    /\ tail' = LoopTop(tail.set \ {tail.refused})
    /\ ReaderSideFrame
    /\ UNCHANGED <<conn, payloads>>

PruneAcknowledged ==
    /\ tail.at = "pruning"
    /\ prune.acked
    /\ prune' = NoPrune
    /\ watch' = [watch EXCEPT !.changed = FALSE]
    /\ tail' = LoopTop(watch.set)
    /\ ReaderSideFrame
    /\ UNCHANGED <<conn, payloads>>

\* next_event and try_send; an event that does not fit is counted and dropped.
ReadStatus ==
    /\ tail.at = "streaming"
    /\ conn.wire # <<>>
    /\ conn' = [conn EXCEPT !.wire = Tail(@)]
    /\ payloads' = IF Len(payloads) < PayloadQueue THEN Append(payloads, Head(conn.wire))
                   ELSE payloads
    /\ ReaderSideFrame
    /\ UNCHANGED <<watch, tail, prune>>

ConnectionEndSeen ==
    /\ tail.at = "streaming"
    /\ conn.state = "ended" /\ conn.wire = <<>>
    /\ conn' = NoConnection
    /\ tail' = LoopTop(tail.set)
    /\ ReaderSideFrame
    /\ UNCHANGED <<watch, payloads, prune>>

\* enrichment_cancellation, cancelled when converge has returned.
ReaderCancels ==
    /\ phase.at = "joining"
    /\ tail.at # "gone"
    /\ tail' = [tail EXCEPT !.at = "gone"]
    /\ conn' = NoConnection
    /\ ReaderSideFrame
    /\ UNCHANGED <<watch, payloads, prune>>

EnrichmentReaderStep ==
    \/ TargetsChanged \/ DeferralOver \/ Accepted \/ Refused \/ SendPrune
    \/ PruneAcknowledged \/ ReadStatus \/ ConnectionEndSeen \/ ReaderCancels

-----------------------------------------------------------------------------
(* EnrichmentConverge, the collector's half.                               *)

\* replace_targets, activate and publish_targets: the reader is woken only when the
\* published set is another one.
Retarget(set, published) ==
    /\ targets' = [set |-> set, published |-> published]
    /\ watch' = IF published /\ watch.set # set THEN [set |-> set, changed |-> TRUE] ELSE watch

PruneWaits == prune.pane # NoPane /\ ~prune.acked

Pruned == IF PruneWaits THEN {prune.pane} ELSE {}

\* apply_prune, of the one that may wait.
apply_prune(published) ==
    /\ Retarget(targets.set \ Pruned, published)
    /\ prune' = IF PruneWaits THEN [prune EXCEPT !.acked = TRUE] ELSE prune
    /\ retaken' = retaken \cup (Pruned \cap world.panes)

\* Mutant: only the prunes are drained.
discard_prunes_only(published) == apply_prune(published) /\ UNCHANGED payloads

\* discard_episode_payloads.
discard_episode_payloads(published) == apply_prune(published) /\ payloads' = <<>>

PhaseIs(at) == phase.at = at
Enter(at) == phase' = [phase EXCEPT !.at = at]

ConvergeFrame == UNCHANGED <<world, readerSide, bounds>>
TargetsFrame == UNCHANGED <<targets, watch, payloads, prune, retaken>>

BeginGeneration ==
    /\ PhaseIs("generation")
    /\ discard_episode_payloads(targets.published)
    /\ snapshot' = NoSnapshot
    /\ Enter("request")
    /\ ConvergeFrame
    /\ UNCHANGED <<hints, shown, late>>

\* The snapshot replaces panes and statuses of the model, and the targets.
InstallSnapshot ==
    /\ PhaseIs("request")
    /\ snapshot.taken
    /\ shown' = [panes |-> snapshot.panes, status |-> snapshot.status]
    /\ snapshot' = NoSnapshot
    /\ Retarget(snapshot.panes, targets.published)
    /\ retaken' = {}
    /\ phase' = [at |-> "replay", dirty |-> FALSE]
    /\ ConvergeFrame
    /\ UNCHANGED <<hints, payloads, prune, late>>

\* One round of replay_generation: the hints that have arrived are replayed.
ReplayRound ==
    /\ PhaseIs("replay")
    /\ discard_episode_payloads(targets.published)
    /\ \E rest \in 0 .. hints :
          /\ hints' = rest
          /\ phase' = [at |-> "quiet", dirty |-> phase.dirty \/ rest < hints]
    /\ ConvergeFrame
    /\ UNCHANGED <<snapshot, shown, late>>

QuietInterrupt ==
    /\ PhaseIs("quiet")
    /\ hints > 0
    /\ hints' = hints - 1
    /\ phase' = [at |-> "replay", dirty |-> TRUE]
    /\ ConvergeFrame /\ TargetsFrame
    /\ UNCHANGED <<snapshot, shown, late>>

\* A hint was replayed: another generation, at once or after the quiescence monitor.
RefreshNeeded ==
    /\ PhaseIs("quiet")
    /\ phase.dirty
    /\ \E at \in {"generation", "reconciling"} : Enter(at)
    /\ ConvergeFrame /\ TargetsFrame
    /\ UNCHANGED <<hints, snapshot, shown, late>>

\* monitor_reconciling: a round that drops a hint, and the silence that ends it.
ReconcilingRound ==
    /\ PhaseIs("reconciling")
    /\ discard_episode_payloads(targets.published)
    /\ \/ hints > 0 /\ hints' = hints - 1 /\ UNCHANGED phase
       \/ Enter("generation") /\ UNCHANGED hints
    /\ ConvergeFrame
    /\ UNCHANGED <<snapshot, shown, late>>

\* ReplayOutcome::Quiet: discard, activate, show Live.
GoLive ==
    /\ PhaseIs("quiet")
    /\ ~phase.dirty
    /\ discard_episode_payloads(TRUE)
    /\ late' = {conn.wire[i].pane : i \in DOMAIN conn.wire}
    /\ Enter("live")
    /\ ConvergeFrame
    /\ UNCHANGED <<hints, snapshot, shown>>

-----------------------------------------------------------------------------
(* monitor_live.                                                           *)

HintWhileLive ==
    /\ PhaseIs("live")
    /\ hints > 0
    /\ hints' = hints - 1
    /\ Enter("generation")
    /\ ConvergeFrame /\ TargetsFrame
    /\ UNCHANGED <<snapshot, shown, late>>

\* apply_enrichment_payload: for a target that the model has.
apply_enrichment_payload ==
    /\ PhaseIs("live")
    /\ payloads # <<>>
    /\ payloads' = Tail(payloads)
    /\ LET event == Head(payloads)
       IN  shown' = IF event.pane \in targets.set \cap shown.panes
                    THEN [shown EXCEPT !.status[event.pane] = event.status]
                    ELSE shown
    /\ ConvergeFrame
    /\ UNCHANGED <<hints, phase, snapshot, targets, watch, prune, late, retaken>>

PruneWhileLive ==
    /\ PhaseIs("live")
    /\ PruneWaits
    /\ apply_prune(targets.published)
    /\ ConvergeFrame
    /\ UNCHANGED <<hints, phase, snapshot, shown, payloads, late>>

-----------------------------------------------------------------------------
(* converge returns; run_collector joins the reader and subscribes anew,   *)
(* with a new watch, new channels and a new reader.                        *)

ConvergeReturns ==
    /\ ~PhaseIs("joining")
    /\ Break
    /\ Enter("joining")
    /\ TargetsFrame
    /\ UNCHANGED <<world, hints, snapshot, shown, readerSide, late, turns>>

Resubscribe ==
    /\ PhaseIs("joining")
    /\ tail.at = "gone"
    /\ phase' = [at |-> "generation", dirty |-> FALSE]
    /\ hints' = 0
    /\ snapshot' = NoSnapshot
    /\ targets' = [set |-> {}, published |-> FALSE]
    /\ watch' = [set |-> {}, changed |-> FALSE]
    /\ tail' = FreshReader
    /\ payloads' = <<>>
    /\ prune' = NoPrune
    /\ UNCHANGED <<world, shown, conn, late, retaken, bounds>>

EnrichmentConvergeStep ==
    \/ BeginGeneration \/ InstallSnapshot \/ ReplayRound \/ QuietInterrupt \/ RefreshNeeded
    \/ ReconcilingRound \/ GoLive \/ HintWhileLive \/ Resubscribe

LiveReceipt == apply_enrichment_payload \/ PruneWhileLive

-----------------------------------------------------------------------------
\* Everybody waits for Herdr.
AtRest ==
    /\ PhaseIs("live") /\ hints = 0
    /\ payloads = <<>> /\ ~PruneWaits
    /\ ~watch.changed
    /\ \/ tail.at = "empty"
       \/ tail.at = "streaming" /\ conn.state = "open" /\ conn.wire = <<>>

EnrichmentNext ==
    \/ HerdrStep \/ EnrichmentReaderStep \/ SubscriptionFails \/ EnrichmentConvergeStep
    \/ LiveReceipt \/ ConvergeReturns
    \/ AtRest /\ UNCHANGED enrichmentVars

(* Fairness: both tasks are scheduled, their timers fire, select! polls    *)
(* every branch, and Herdr answers what it has not failed.                 *)
EnrichmentFairness ==
    /\ WF_enrichmentVars(TakeSnapshot)
    /\ WF_enrichmentVars(EnrichmentReaderStep)
    /\ WF_enrichmentVars(EnrichmentConvergeStep)
    /\ WF_enrichmentVars(LiveReceipt)

EnrichmentSpec ==
    EnrichmentInit /\ [][EnrichmentNext]_enrichmentVars /\ EnrichmentFairness

-----------------------------------------------------------------------------
(* Properties.                                                             *)

\* While the collector is Live, the status it shows of a pane is Herdr's, or a hint
\* is on its way that makes it ask: neither what the reader dropped, nor what was
\* discarded, nor what was left in the channel from before the snapshot, nor a pane
\* that took another's address makes it show an older one for good.  The design
\* accepts one race: an event that the reader had not read when Live began.
StatusCovered ==
    PhaseIs("live") => \A p \in shown.panes \cap world.panes :
        shown.status[p] = world.status[p] \/ hints > 0 \/ p \in late

\* Once panes and failures rest, the reader is subscribed to the collector's targets,
\* and these are Herdr's panes: no change of the set is lost between watch, deferral,
\* subscription and refusal, nobody waits for ever for an acknowledgement or for the
\* other to end.  A prune that arrives when the address was taken again costs that
\* pane until the next snapshot.
SubscriptionFollows ==
    <>[](/\ PhaseIs("live")
         /\ conn.scope = targets.set
         /\ targets.set = world.panes \ retaken)
=============================================================================
