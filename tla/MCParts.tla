------------------------------- MODULE MCParts -------------------------------
(***************************************************************************)
(* The parts that answer for themselves, one at a time: the tail of a log, *)
(* the lane that makes events of its records, the buffer that holds the    *)
(* events, the thread all this runs on and the evidence they become; the   *)
(* launch that finds the session owned.  subject chooses the part a        *)
(* behaviour is about; the others stay as they begin.  HistoryDrain has    *)
(* the whole path from a log to the rows, with these parts as counters.    *)
(***************************************************************************)
EXTENDS LogTail, Lane, Pending, ProviderThread, Lifecycle, HeldLaunch

CONSTANTS ClaudeRecords,  \* bound: records read on the lane of the Claude session
          root, sub, codex, parent, child, p1, p2, first, second, third, t1, t2, w1, w2

VARIABLE subject

partsVars == <<subject, tailVars, laneVars, pendingVars, providerVars, lifecycleVars, heldVars>>

Parent == [s \in Subagents |-> root]

\* The subagent's node lies below its parent's.  Both logs tell of both, p1
\* with the time p2 has in between; the first record of each is history.
DepthOf == [e \in Entities |-> IF e = parent THEN 0 ELSE 1]
Times12 == [p \in Paths |-> IF p = p1 THEN <<1, 3>> ELSE <<2>>]
Firsts  == [p \in Paths |-> 1]

\* Two launches, each in its own terminal, and a third beside the second; other placements are
\* renamings of this one.
Homes     == [l \in Launches |-> IF l = first THEN t1 ELSE t2]
Placement == [t \in Terminals |-> IF t = t1 THEN w1 ELSE w2]

\* The lane of a Claude session with its subagent, or of a Codex session.
Concerns(s) == IF subject = "claude" THEN s \in Roots \cup Subagents ELSE s \in Rollouts

OnLane == subject \in {"claude", "codex"}

LaneStep ==
    /\ OnLane
    /\ LaneNext /\ (subject = "claude" => taken' <= ClaudeRecords)
    /\ \A s \in Scopes : ~Concerns(s) => synthesis'[s] = Fresh /\ s \notin metas'
    /\ \A i \in DOMAIN deferred' : Concerns(deferred'[i].scope)

\* Bound: the third launch comes to a session that is owned and has its row, and at most one pane
\* has moved by then.
HeldStep ==
    /\ HeldNext
    /\ step'[third] # "idle" => step'[third] # "starting" /\ tries'[third] = 0 /\ moves' < 2

\* Bound: the last byte is written once the file has been replaced as often as it may be.
TailStep == TailNext /\ (file'.written = MaxBytes => file'.life = MaxFiles)

\* Bound: the thread meets a history drain or a full buffer, and a change of the logs or of the
\* target set.
ThreadStart ==
    /\ ProviderInit
    /\ drains.due + reading.bulk = IF subject = "thread" THEN 1 ELSE 0
ThreadMoves == ProviderNext /\ (wanted'.log = 0 \/ wanted'.targets = 0)

Subjects == {"tail", "claude", "codex", "pending", "thread", "lifecycle", "held"}

PartsInit ==
    /\ subject \in Subjects
    /\ TailInit /\ LaneInit /\ PendingInit /\ ThreadStart /\ LifecycleInit
    /\ HeldInit /\ where = Placement /\ focused = where[t1]

PartsNext ==
    /\ UNCHANGED subject
    /\ \/ LaneStep
          /\ UNCHANGED <<tailVars, pendingVars, providerVars, lifecycleVars, heldVars>>
       \/ subject = "tail" /\ TailStep
          /\ UNCHANGED <<laneVars, pendingVars, providerVars, lifecycleVars, heldVars>>
       \/ subject = "pending" /\ PendingNext
          /\ UNCHANGED <<tailVars, laneVars, providerVars, lifecycleVars, heldVars>>
       \/ subject = "thread" /\ ThreadMoves
          /\ UNCHANGED <<tailVars, laneVars, pendingVars, lifecycleVars, heldVars>>
       \/ subject = "lifecycle" /\ LifecycleNext
          /\ UNCHANGED <<tailVars, laneVars, pendingVars, providerVars, heldVars>>
       \/ subject = "held" /\ HeldStep
          /\ UNCHANGED <<tailVars, laneVars, pendingVars, providerVars, lifecycleVars>>

OnThread == subject = "thread"

\* The fairness of the lane (LaneFairness) and of the thread (ProviderSpec), where they are the
\* subject.
PartsSpec ==
    /\ PartsInit /\ [][PartsNext]_partsVars
    /\ WF_laneVars(OnLane /\ Tick) /\ WF_laneVars(OnLane /\ Cycle)
    /\ WF_providerVars(OnThread /\ ThreadStep) /\ WF_providerVars(OnThread /\ Rescan)
    /\ WF_providerVars(OnThread /\ CollectorStep)
    /\ WF_providerVars(OnThread /\ (RaiseFlag \/ SendStop))
=============================================================================
