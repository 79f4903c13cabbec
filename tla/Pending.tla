------------------------------ MODULE Pending ------------------------------
(***************************************************************************)
(* The merge buffer between a provider worker and the collector            *)
(* (src/provider/mod.rs, PendingEvents).  Events about the same entity     *)
(* share a slot and coalesce there; lane events queue; a history barrier   *)
(* waits behind everything else.  A full egress channel stops the flush    *)
(* at any event, and parsing goes on until the buffer itself is full.      *)
(***************************************************************************)
EXTENDS Integers, Sequences, SequencesExt, FiniteSetsExt

CONSTANTS
    Entities,       \* native threads
    Depth,          \* their depth in the tree of agents
    Slots,          \* identity, upsert, activity, lane_activity
    Paths,          \* the logs events are read from
    TimeOf,         \* TimeOf[p][n]: the time of the n-th event read from p
    Goalposts,      \* how many events of p are historical
    NoEvent,        \* an empty slot
    EntityCapacity, \* PENDING_ENTITY_CAPACITY
    SampleLimit,    \* MALFORMED_SAMPLES_PER_GENERATION
    EgressCapacity  \* the capacity of the egress channel

\* The events of an entity: where and when they were read, and what they are evidence of.
Events == [path : Paths, position : Nat, time : Nat, terminal : BOOLEAN,
           origin : {"historical", "live"}]

ASSUME PendingAssumption ==
    /\ Depth \in [Entities -> Nat]
    /\ NoEvent \notin Events
    /\ TimeOf \in [Paths -> Seq(Nat)]
    /\ \A p \in Paths : \A n \in DOMAIN TimeOf[p] : \A m \in 1 .. n :
            TimeOf[p][m] <= TimeOf[p][n]
    /\ Goalposts \in [Paths -> Nat]

VARIABLES
    slots,      \* entities: the pending event of every slot of every entity
    lane,       \* lane: the queue of lane events, by number
    malformed,  \* malformed: the number of samples kept
    sourced,    \* sources: a source state is pending
    barrier,    \* history_barrier
    next,       \* next[p]: events read from p so far
    egress,     \* events in the channel that the collector has not received
    \* Histories:
    merged,     \* per slot, what was merged into it since it was last sent
    ahead,      \* slots and lane events filled before the barrier was merged
    sent        \* the last event sent, with what it stands for

pendingVars == <<slots, lane, malformed, sourced, barrier, next, egress,
                 merged, ahead, sent>>

Keys == Entities \X Slots

PendingInit ==
    /\ slots = [k \in Keys |-> NoEvent]
    /\ lane = <<>>
    /\ malformed = 0
    /\ sourced = FALSE
    /\ barrier = FALSE
    /\ next = [p \in Paths |-> 0]
    /\ egress = 0
    /\ merged = [k \in Keys |-> {}]
    /\ ahead = {}
    /\ sent = [kind |-> "nothing"]

----------------------------------------------------------------------------
Held(e) == \E s \in Slots : slots[<<e, s>>] # NoEvent
HeldEntities == {e \in Entities : Held(e)}

Origin(p, n) == IF n <= Goalposts[p] THEN "historical" ELSE "live"

\* Mutant: what was pending first wins over a later event of another log.
ReplacesUnlessStored(stored, incoming) ==
    IF stored.terminal # incoming.terminal THEN incoming.terminal
    ELSE stored.path = incoming.path /\ incoming.position >= stored.position

\* merge_slot: whether the incoming event takes the place of the stored one.
Replaces(stored, incoming) ==
    IF stored.terminal # incoming.terminal THEN incoming.terminal
    ELSE IF stored.path = incoming.path THEN incoming.position >= stored.position
    ELSE incoming.time > stored.time

\* promote_live_origin
Promoted(kept, other) ==
    [kept EXCEPT !.origin = IF "live" \in {kept.origin, other.origin}
                            THEN "live" ELSE "historical"]

MergeSlot(stored, incoming) ==
    IF stored = NoEvent THEN incoming
    ELSE IF Replaces(stored, incoming) THEN Promoted(incoming, stored)
    ELSE Promoted(stored, incoming)

\* merge_entity: an event is refused while its entity has no place, and an
\* event that is pending already is a duplicate.
MergeEntity(e, s, p, terminal) ==
    LET n == next[p] + 1
        event == [path |-> p, position |-> n, time |-> TimeOf[p][n],
                  terminal |-> terminal, origin |-> Origin(p, n)]
        key == <<e, s>>
    IN  /\ n \in DOMAIN TimeOf[p]
        /\ terminal => s = "upsert"
        /\ Held(e) \/ Cardinality(HeldEntities) < EntityCapacity
        /\ next' = [next EXCEPT ![p] = n]
        /\ slots' = [slots EXCEPT ![key] = MergeSlot(@, event)]
        /\ merged' = [merged EXCEPT ![key] = @ \cup {event}]
        /\ UNCHANGED <<lane, malformed, sourced, barrier, egress, ahead, sent>>

\* merge_with_origin, a lane event.
MergeLane(p) ==
    /\ next[p] + 1 \in DOMAIN TimeOf[p]
    /\ Len(lane) < EntityCapacity
    /\ next' = [next EXCEPT ![p] = @ + 1]
    /\ lane' = Append(lane, <<p, next'[p]>>)
    /\ UNCHANGED <<slots, malformed, sourced, barrier, egress, merged, ahead, sent>>

\* merge_with_origin, a malformed record: beyond the limit it is only counted.
MergeMalformed(p) ==
    /\ next[p] + 1 \in DOMAIN TimeOf[p]
    /\ next' = [next EXCEPT ![p] = @ + 1]
    /\ malformed' = IF malformed < SampleLimit THEN malformed + 1 ELSE malformed
    /\ UNCHANGED <<slots, lane, sourced, barrier, egress, merged, ahead, sent>>

\* merge_with_origin, a source state: the latest one is kept.
MergeSource ==
    /\ ~sourced
    /\ sourced' = TRUE
    /\ UNCHANGED <<slots, lane, malformed, barrier, next, egress, merged, ahead, sent>>

\* merge_with_origin, the history barrier: all that was read is ahead of it.
MergeBarrier ==
    /\ ~barrier
    /\ \A p \in Paths : next[p] >= Goalposts[p]
    /\ barrier' = TRUE
    /\ ahead' = {k \in Keys : slots[k] # NoEvent} \cup Range(lane)
    /\ UNCHANGED <<slots, lane, malformed, sourced, next, egress, merged, sent>>

----------------------------------------------------------------------------
SlotOrder == [identity |-> 1, upsert |-> 2, activity |-> 3, lane_activity |-> 4]

\* next_event: whether the slot is sent before the others, as those of the shallowest entity are.
\* Which entity of one depth is first is left open.
ComesFirst(k) ==
    /\ slots[k] # NoEvent
    /\ \A j \in Keys : slots[j] # NoEvent =>
        \/ Depth[k[1]] < Depth[j[1]]
        \/ /\ Depth[k[1]] = Depth[j[1]]
           /\ k[1] = j[1] => SlotOrder[k[2]] <= SlotOrder[j[2]]

Sends(record) ==
    /\ egress < EgressCapacity
    /\ egress' = egress + 1
    /\ sent' = record

SendSource ==
    /\ sourced
    /\ sourced' = FALSE
    /\ Sends([kind |-> "source"])
    /\ UNCHANGED <<slots, lane, malformed, barrier, next, merged, ahead>>

SendLane ==
    /\ ~sourced /\ lane # <<>>
    /\ lane' = Tail(lane)
    /\ Sends([kind |-> "lane"])
    /\ ahead' = ahead \ {Head(lane)}
    /\ UNCHANGED <<slots, malformed, sourced, barrier, next, merged>>

SendEntity ==
    /\ ~sourced /\ lane = <<>>
    /\ \E k \in Keys :
        /\ ComesFirst(k)
        /\ Sends([kind |-> "entity", event |-> slots[k], of |-> merged[k]])
        /\ slots' = [slots EXCEPT ![k] = NoEvent]
        /\ merged' = [merged EXCEPT ![k] = {}]
        /\ ahead' = ahead \ {k}
    /\ UNCHANGED <<lane, malformed, sourced, barrier, next>>

SendMalformed ==
    /\ ~sourced /\ lane = <<>> /\ HeldEntities = {} /\ malformed > 0
    /\ malformed' = malformed - 1
    /\ Sends([kind |-> "malformed"])
    /\ UNCHANGED <<slots, lane, sourced, barrier, next, merged, ahead>>

SendBarrier ==
    /\ ~sourced /\ lane = <<>> /\ HeldEntities = {} /\ malformed = 0 /\ barrier
    /\ barrier' = FALSE
    /\ Sends([kind |-> "barrier", ahead |-> ahead])
    /\ UNCHANGED <<slots, lane, malformed, sourced, next, merged, ahead>>

\* The collector receives.
ReceiveEvent ==
    /\ egress > 0
    /\ egress' = egress - 1
    /\ UNCHANGED <<slots, lane, malformed, sourced, barrier, next, merged, ahead, sent>>

PendingNext ==
    \/ \E e \in Entities, s \in Slots, p \in Paths, t \in BOOLEAN : MergeEntity(e, s, p, t)
    \/ \E p \in Paths : MergeLane(p) \/ MergeMalformed(p)
    \/ MergeSource \/ MergeBarrier
    \/ SendSource \/ SendLane \/ SendEntity \/ SendMalformed \/ SendBarrier
    \/ ReceiveEvent

----------------------------------------------------------------------------
\* Whether event e stands for f as well: it is the end of an agent that f
\* still reports at work, or f is no later.
StandsFor(e, f) ==
    \/ e.terminal /\ ~f.terminal
    \/ /\ e.terminal = f.terminal
       /\ f.time <= e.time
       /\ f.path = e.path => f.position <= e.position

\* An entity event that goes out stands for all that was merged into its
\* slot, whatever the order in which the logs were read: an end is not lost
\* to a later sign of work, nothing newer is lost to something older, and it
\* is live evidence when any of them was (merge_slot, promote_live_origin).
\* The history barrier goes out behind all that was pending before it
\* (next_event), so no event of the drain reaches the collector after it.
CoalescedTruthfully ==
    /\ sent.kind = "entity" =>
        /\ \A f \in sent.of : StandsFor(sent.event, f)
        /\ sent.event.origin = "live" <=> \E f \in sent.of : f.origin = "live"
    /\ sent.kind = "barrier" => sent.ahead = {}
=============================================================================
