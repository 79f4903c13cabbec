---------------------------- MODULE MCConvergence ----------------------------
(***************************************************************************)
(* The collector's two subscriptions for TLC: the topology with a queue of *)
(* one event, one immediate attempt per generation and few changes and     *)
(* failures; the status of two panes with a queue of one.  subject chooses *)
(* what a behaviour is about, and the rest stays as it begins: "topology", *)
(* with a store that never fails; "records", the same collector with a     *)
(* Herdr at rest and a store that fails and recovers at any write; or      *)
(* "status".                                                               *)
(***************************************************************************)
EXTENDS Convergence, Enrichment

VARIABLE subject

subscriptionVars == <<subject, vars, enrichmentVars>>

AmbiguousFirst == {1}

OnTopology == subject = "topology"
OnRecords == subject = "records"
OnStatus == subject = "status"

\* The two addresses are interchangeable: a pane is at the first.
CONSTANTS first, second

SubscriptionsInit ==
    /\ subject \in {"topology", "records", "status"}
    /\ Init
    /\ EnrichmentInit
    /\ world.panes \in IF OnStatus THEN {{first}} ELSE {{}}

SubscriptionsNext ==
    /\ UNCHANGED subject
    /\ \/ OnTopology /\ UNCHANGED <<facade, enrichmentVars>> /\ Next
       \/ OnRecords /\ UNCHANGED <<noise, enrichmentVars>> /\ Next /\ herdr'.world = herdr.world
       \/ OnStatus /\ EnrichmentNext /\ UNCHANGED vars

\* Fairness and EnrichmentFairness, where they are the subject.
SubscriptionsSpec ==
    /\ SubscriptionsInit /\ [][SubscriptionsNext]_subscriptionVars
    /\ WF_vars(OnTopology /\ ReaderStep) /\ WF_vars(OnTopology /\ Answer)
    /\ WF_vars(OnTopology /\ Subscribing) /\ WF_vars(OnTopology /\ Refreshing)
    /\ WF_vars(OnTopology /\ Replaying) /\ WF_vars(OnTopology /\ Receiving)
    /\ WF_vars(OnTopology /\ Probing) /\ WF_vars(OnTopology /\ ConvergeEnded)
    /\ WF_vars(OnTopology /\ ConvergeCancelled)
    /\ WF_enrichmentVars(OnStatus /\ TakeSnapshot)
    /\ WF_enrichmentVars(OnStatus /\ EnrichmentReaderStep)
    /\ WF_enrichmentVars(OnStatus /\ EnrichmentConvergeStep)
    /\ WF_enrichmentVars(OnStatus /\ LiveReceipt)

\* Where the topology is the subject: the collector ends when it is cancelled, and else
\* shows Live with Herdr's topology once Herdr rests (Converges, of converge and its
\* monitors).
TopologyConverges == OnTopology => Converges

\* Where the status is the subject: once Herdr rests, run_enrichment_reader is subscribed
\* to Herdr's panes (SubscriptionFollows).
StatusFollows == OnStatus => SubscriptionFollows
=============================================================================
