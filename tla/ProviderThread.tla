--------------------------- MODULE ProviderThread ---------------------------
(***************************************************************************)
(* The provider I/O thread: when it looks at the session logs, how what it *)
(* found reaches the collector, and how CollectorHandle::stop ends it.     *)
(*                                                                         *)
(* A cycle looks at every log of the latest target set.  Hints from the    *)
(* watcher and new targets wake the thread through a bounded channel that  *)
(* drops what does not fit; a periodic rescan is there for the rest.  A    *)
(* cycle is skipped while events of an earlier one wait for the collector; *)
(* it looks at nothing while the barrier of a history drain is not         *)
(* acknowledged, ends early when the buffer for its events is full, and    *)
(* reads a log no further than the manifest of an open drain says.         *)
(* What a cycle makes of a log is LogTail's, Lane's and Pending's, and     *)
(* what a drain is HistoryDrain's; here looked counts the changes.         *)
(* force_rescan is left out: the code stores and clears it and never reads *)
(* it.                                                                     *)
(*                                                                         *)
(* src/src/provider/mod.rs (NotifySink, WatchRegistry, ProviderThreadHandle, *)
(* provider_thread_main) and src/src/herdr/collector.rs                    *)
(* (AdapterProviderWorker::process, CollectorHandle::stop_with_timeout,    *)
(* drain_provider_events).                                                 *)
(***************************************************************************)
EXTENDS Naturals, Sequences, FiniteSets

CONSTANTS
    ControlCapacity,    \* CONTROL_CHANNEL_CAPACITY
    EventCapacity,      \* bound: events the channel to the collector holds
    MaxFound,           \* bound: events one cycle finds, and outcomes held at the end
    MaxChanges,         \* bound: changes of the logs
    MaxTargetSets,      \* bound: target sets the collector publishes
    MaxDrains,          \* bound: history drains, one for each provider in the code
    MaxBulk,            \* bound: how often unread records fill the buffer
    MaxTroubles         \* bound: failed cycles, closed ingresses, overflows, finalizations that
                        \* are not written, a dead thread or collector

ASSUME ProviderThreadConstants ==
    /\ ControlCapacity \in Nat \ {0} /\ EventCapacity \in Nat \ {0}
    /\ {MaxFound, MaxChanges, MaxTargetSets, MaxDrains, MaxBulk, MaxTroubles} \subseteq Nat

VARIABLES
    wanted,     \* how often the logs changed, and the number of the latest target set
    looked,     \* the same, of the last cycle that looked at all of it
    sight,      \* what the cycle in progress has read of it
    watch,      \* "none", "watched", "rung" (the system has an event to tell), "taken"
    control,    \* the control channel
    thread,     \* where the thread is
    unsent,     \* events that wait for the collector, in PendingEvents
    held,       \* outcomes graceful_stop still has to send
    drains,     \* history drains to begin, and the manifests that are open
    reading,    \* whether a resume_cursor is set, and how often records may still fill the buffer
    events,     \* events in the channel to the collector
    stopFlag,
    stopping,   \* where CollectorHandle::stop is
    collector,  \* "runs", "drains", "done" or "failed"
    ingress,    \* FALSE while a history mutation waits to be written
    awaited,    \* held_history_barrier of the worker: "none", "sent", "held" (by the collector,
                \* its finalization is not written), "acknowledged", "lost"
    receives,   \* the collector still has the receiving end
    drained,    \* events_drained: "pending", "acknowledged" or "dropped"
    troubles,   \* for the bound
    missed      \* history: an event was dropped with the receiving end

providerVars == <<wanted, looked, sight, watch, control, thread, unsent, held, drains, reading,
                  events, stopFlag, stopping, collector, ingress, awaited, receives, drained,
                  troubles, missed>>

workVars == <<drains, reading>>
threadVars == <<looked, sight, thread, unsent, held, workVars>>
stopVars == <<stopFlag, stopping>>
collectorVars == <<collector, ingress, awaited, receives, drained, missed>>

Less(a, b) == IF a < b THEN a ELSE b

\* try_send on the control channel: what does not fit is dropped.
Sent(message) == IF Len(control) < ControlCapacity THEN Append(control, message) ELSE control

Nothing == [log |-> 0, targets |-> 0]

ThreadEnded(t) == t \in {"exited", "panicked"}

Trouble == troubles < MaxTroubles /\ troubles' = troubles + 1

-----------------------------------------------------------------------------
\* An agent writes to its log.
LogChanges ==
    /\ wanted.log < MaxChanges /\ wanted' = [wanted EXCEPT !.log = @ + 1]
    /\ watch' = IF watch = "watched" THEN "rung" ELSE watch
    /\ UNCHANGED <<control, threadVars, events, stopVars, collectorVars, troubles>>

\* The watcher's callback: a hint, dropped at a full channel; an error of the watcher is no hint.
Notify ==
    /\ watch = "rung" /\ watch' = "watched"
    /\ control' \in {control, Sent("hint")}
    /\ UNCHANGED <<wanted, threadVars, events, stopVars, collectorVars, troubles>>

\* update_targets, by the collector.
UpdateTargets ==
    /\ wanted.targets < MaxTargetSets /\ collector = "runs"
    /\ wanted' = [wanted EXCEPT !.targets = @ + 1]
    /\ control' = Sent("targets")
    /\ UNCHANGED <<watch, threadVars, events, stopVars, collectorVars, troubles>>

-----------------------------------------------------------------------------
\* flush_to_sender: as many as fit; none when nobody receives.
Flushed(count) == IF receives THEN Less(count, EventCapacity - events) ELSE 0

Flush(count) == unsent' = count - Flushed(count) /\ events' = events + Flushed(count)

\* run_provider_cycle, up to the worker: skipped while events of an earlier cycle are left.
BeginCycle ==
    /\ thread = "cycle" /\ Flush(unsent)
    /\ \/ unsent' > 0 /\ thread' = "top" /\ UNCHANGED sight
       \/ unsent' = 0 /\ thread' = "process" /\ sight' = wanted
    /\ UNCHANGED <<wanted, watch, control, looked, held, workVars, stopVars, collectorVars, troubles>>

\* The barrier sent is not acknowledged: the worker looks at nothing.
Awaits == awaited \in {"sent", "held", "lost"}

AwaitBarrier ==
    /\ thread = "process" /\ Awaits
    /\ thread' = "top" /\ sight' = Nothing
    /\ UNCHANGED <<wanted, watch, control, looked, unsent, held, workVars, events, stopVars,
                   collectorVars, troubles>>

\* The drains after an acknowledgement: its manifest is put away.
LeftOpen == IF awaited = "acknowledged" THEN [drains EXCEPT !.open = @ - 1] ELSE drains

\* A pass freezes the manifest of a drain, finds that there is nothing to drain, and abandons
\* drains for what it finds.
Drained(d) == {e \in [due : 0..d.due, open : 0..(d.open + d.due)] :
                   e.open + e.due <= d.open + d.due}

\* The whole list of logs was gone through, from the cursor if there was one, each log up to the
\* goalpost of the manifest that was open; at the end the barrier of an open drain.
GoneThrough(found) ==
    /\ looked' = IF reading.resume \/ LeftOpen.open > 0 THEN looked ELSE sight
    /\ reading' = [reading EXCEPT !.resume = FALSE]
    /\ \/ drains'.open = 0 /\ awaited' = "none" /\ Flush(found)
       \/ drains'.open > 0 /\ awaited' = "sent" /\ Flush(found + 1)
    /\ UNCHANGED troubles

\* The buffer is full: the rest is for the next cycle, which begins at the cursor or at the first
\* log.  What a single record makes fits an empty buffer, so each time there is less to read.
CutShort(found) ==
    /\ reading.bulk > 0 /\ found > 0
    /\ \E resume \in BOOLEAN : reading' = [resume |-> resume, bulk |-> reading.bulk - 1]
    /\ awaited' = "none" /\ Flush(found)
    /\ UNCHANGED <<looked, troubles>>

\* The stop flag is seen half way, or a log, a directory or a manifest fails.
BrokenOff(found) ==
    /\ (stopFlag /\ UNCHANGED troubles) \/ Trouble
    /\ awaited' = "none" /\ Flush(found)
    /\ UNCHANGED <<looked, reading>>

\* The worker and the rest of the cycle.  A directory is watched only now, after it was read.
FinishCycle ==
    /\ thread = "process" /\ ~Awaits
    /\ thread' = "top" /\ sight' = Nothing
    /\ drains' \in Drained(LeftOpen)
    /\ \E found \in 0..MaxFound : GoneThrough(found) \/ CutShort(found) \/ BrokenOff(found)
    /\ watch' \in (IF watch = "none" THEN {"none", "watched"} ELSE {watch})
    /\ UNCHANGED <<wanted, control, held, stopVars, collector, ingress, receives, drained, missed>>

\* flush_graceful_stop begins: the outcomes the worker still holds, none while a drain is open.
Stops ==
    /\ thread' = "graceful"
    /\ held' \in (IF Awaits \/ LeftOpen.open > 0 THEN {0} ELSE 0..MaxFound)

\* The head of the loop.
LoopTop ==
    /\ thread = "top"
    /\ \/ stopFlag /\ Stops
       \/ ~stopFlag /\ thread' = "wait" /\ UNCHANGED held
    /\ UNCHANGED <<wanted, watch, control, looked, sight, workVars, unsent, events,
                   stopVars, collectorVars, troubles>>

\* recv_timeout has a message.
ReceiveControl ==
    /\ thread = "wait" /\ control # <<>> /\ control' = Tail(control)
    /\ \/ Head(control) = "stop" /\ Stops
       \/ Head(control) # "stop" /\ thread' = "collect" /\ UNCHANGED held
    /\ UNCHANGED <<wanted, watch, looked, sight, workVars, unsent, events, stopVars,
                   collectorVars, troubles>>

\* Messages within the debounce time: another one, or the time is over.
CollectControl ==
    /\ thread = "collect"
    /\ \/ stopFlag /\ Stops /\ UNCHANGED control
       \/ /\ control # <<>> /\ control' = Tail(control)
          /\ \/ Head(control) = "stop" /\ Stops
             \/ Head(control) # "stop" /\ UNCHANGED <<thread, held>>
       \/ ~stopFlag /\ thread' = "cycle" /\ UNCHANGED <<control, held>>
    /\ UNCHANGED <<wanted, watch, looked, sight, workVars, unsent, events, stopVars,
                   collectorVars, troubles>>

\* The timeout of recv_timeout, at the time of the next retry: only a flush.
RetryPending ==
    /\ thread = "wait" /\ control = <<>> /\ unsent > 0
    /\ \/ stopFlag /\ Stops /\ UNCHANGED <<unsent, events>>
       \/ ~stopFlag /\ Flush(unsent) /\ thread' = "top" /\ UNCHANGED held
    /\ UNCHANGED <<wanted, watch, control, looked, sight, workVars, stopVars, collectorVars, troubles>>

\* Mutant: the rescan is for directories that are not watched.
RescanUnwatched ==
    /\ thread = "wait" /\ control = <<>> /\ (watch = "none" \/ stopFlag)
    /\ \/ stopFlag /\ Stops
       \/ ~stopFlag /\ thread' = "cycle" /\ UNCHANGED held
    /\ UNCHANGED <<wanted, watch, control, looked, sight, workVars, unsent, events,
                   stopVars, collectorVars, troubles>>

\* The timeout of recv_timeout, at the time of the next rescan.
Rescan ==
    /\ thread = "wait" /\ control = <<>>
    /\ \/ stopFlag /\ Stops
       \/ ~stopFlag /\ thread' = "cycle" /\ UNCHANGED held
    /\ UNCHANGED <<wanted, watch, control, looked, sight, workVars, unsent, events,
                   stopVars, collectorVars, troubles>>

\* flush_graceful_stop: blocking_send, which fails when nobody receives.  At the end the sender
\* is dropped with the thread, and so is what PendingEvents still has.
SendHeld ==
    /\ thread = "graceful"
    /\ \/ /\ held > 0 /\ receives /\ events < EventCapacity
          /\ held' = held - 1 /\ events' = events + 1 /\ UNCHANGED thread
       \/ (held = 0 \/ ~receives) /\ thread' = "exited" /\ UNCHANGED <<held, events>>
    /\ UNCHANGED <<wanted, watch, control, looked, sight, workVars, unsent, stopVars, collectorVars,
                   troubles>>

ThreadPanics ==
    /\ thread \in {"process", "graceful"} /\ Trouble
    /\ thread' = "panicked"
    /\ UNCHANGED <<wanted, watch, control, looked, sight, workVars, unsent, held, events, stopVars,
                   collectorVars>>

-----------------------------------------------------------------------------
\* The event in hand is the barrier: no pass puts another event behind it.
BarrierNext == awaited = "sent" /\ events = 1 /\ unsent = 0

\* One event.  A history mutation that cannot be written closes the ingress; monitor_live
\* retries it.  The finalization a barrier asks for may not be written either.
ApplyProviderEvent ==
    /\ collector \in {"runs", "drains"} /\ receives /\ ingress /\ events > 0
    /\ events' = events - 1
    /\ \/ ~BarrierNext /\ UNCHANGED <<ingress, awaited, troubles>>
       \/ ~BarrierNext /\ ingress' = FALSE /\ Trouble /\ UNCHANGED awaited
       \/ BarrierNext /\ awaited' = "acknowledged" /\ UNCHANGED <<ingress, troubles>>
       \/ BarrierNext /\ awaited' = "held" /\ Trouble /\ UNCHANGED ingress
    /\ UNCHANGED <<wanted, watch, control, threadVars, stopVars, collector, receives, drained,
                   missed>>

\* The subscription has overflowed: monitor_live returns with the event in hand, which is gone.
OverflowTakesEvent ==
    /\ collector = "runs" /\ receives /\ ingress /\ events > 0 /\ Trouble
    /\ events' = events - 1
    /\ awaited' = IF BarrierNext THEN "lost" ELSE awaited
    /\ UNCHANGED <<wanted, watch, control, threadVars, stopVars, collector, ingress, receives,
                   drained, missed>>

RetryMutation ==
    /\ collector \in {"runs", "drains"} /\ receives /\ ~ingress /\ ingress' = TRUE
    /\ UNCHANGED <<wanted, watch, control, threadVars, events, stopVars, collector, awaited,
                   receives, drained, troubles, missed>>

\* retry_held_history_barrier, with the sweeps and after the drain: the finalization is written.
RetryBarrier ==
    /\ collector \in {"runs", "drains"} /\ ingress /\ awaited = "held"
    /\ awaited' = "acknowledged"
    /\ UNCHANGED <<wanted, watch, control, threadVars, events, stopVars, collector, ingress,
                   receives, drained, troubles, missed>>

\* The receiving end goes, with what is in the channel.
LetGo == receives' = FALSE /\ missed' = (missed \/ events > 0) /\ events' = 0

\* recv() returns None: every sender is dropped and the channel is empty.
SenderGone == ThreadEnded(thread) /\ events = 0

\* Mutant: the drain ends as soon as the channel is empty, whoever may still send.
EventsEndEmptied ==
    /\ collector \in {"runs", "drains"} /\ receives /\ ingress
    /\ SenderGone \/ (collector = "drains" /\ events = 0)
    /\ LetGo /\ drained' = "acknowledged"
    /\ UNCHANGED <<wanted, watch, control, threadVars, stopVars, collector, ingress, awaited,
                   troubles>>

EventsEnd ==
    /\ collector \in {"runs", "drains"} /\ receives /\ ingress /\ SenderGone
    /\ LetGo /\ drained' = "acknowledged"
    /\ UNCHANGED <<wanted, watch, control, threadVars, stopVars, collector, ingress, awaited,
                   troubles>>

\* The collector sees the cancellation, at any of its waits.
BeginDrain ==
    /\ collector = "runs" /\ stopping # "no" /\ collector' = "drains"
    /\ UNCHANGED <<wanted, watch, control, threadVars, events, stopVars, ingress, awaited, receives,
                   drained, troubles, missed>>

\* The mutation is tried once more and cannot be written: nothing more is received.
GiveUpDrain ==
    /\ collector = "drains" /\ receives /\ ~ingress
    /\ LetGo /\ drained' = "acknowledged"
    /\ UNCHANGED <<wanted, watch, control, threadVars, stopVars, collector, ingress, awaited,
                   troubles>>

EndDrain ==
    /\ collector = "drains" /\ ~receives /\ collector' = "done"
    /\ UNCHANGED <<wanted, watch, control, threadVars, events, stopVars, ingress, awaited, receives,
                   drained, troubles, missed>>

\* The collector's task ends with an error; what it held is dropped.
CollectorFails ==
    /\ collector \in {"runs", "drains"} /\ Trouble /\ collector' = "failed"
    /\ LetGo /\ drained' = IF drained = "pending" THEN "dropped" ELSE drained
    /\ UNCHANGED <<wanted, watch, control, threadVars, stopVars, ingress, awaited>>

-----------------------------------------------------------------------------
\* CollectorHandle::stop cancels the collector, then ProviderThreadHandle::stop.
RequestStop ==
    /\ stopping = "no" /\ stopping' = "cancelled"
    /\ UNCHANGED <<wanted, watch, control, threadVars, events, stopFlag, collectorVars, troubles>>

RaiseFlag ==
    /\ stopping = "cancelled" /\ stopping' = "flagged" /\ stopFlag' = TRUE
    /\ UNCHANGED <<wanted, watch, control, threadVars, events, collectorVars, troubles>>

SendStop ==
    /\ stopping = "flagged" /\ stopping' = "sent" /\ control' = Sent("stop")
    /\ UNCHANGED <<wanted, watch, threadVars, events, stopFlag, collectorVars, troubles>>

DropWatcher ==
    /\ stopping = "sent" /\ stopping' = "awaitsExit" /\ watch' = "taken"
    /\ UNCHANGED <<wanted, control, threadVars, events, stopFlag, collectorVars, troubles>>

\* The exit is seen, the thread panicked, or PROVIDER_EXIT_TIMEOUT passed and it is left alone.
ExitSeen ==
    /\ stopping = "awaitsExit"
    /\ \/ thread = "exited" /\ stopping' = "awaitsDrain"
       \/ thread # "exited" /\ stopping' = "failed"
    /\ UNCHANGED <<wanted, watch, control, threadVars, events, stopFlag, collectorVars, troubles>>

\* The acknowledgement, its loss or a timeout; then the task, which is aborted if it does not end.
DrainSeen ==
    /\ stopping = "awaitsDrain"
    /\ \/ drained = "acknowledged" /\ stopping' = "awaitsTask"
       \/ stopping' = "failed"
    /\ UNCHANGED <<wanted, watch, control, threadVars, events, stopFlag, collectorVars, troubles>>

TaskSeen ==
    /\ stopping \in {"awaitsTask", "failed"}
    /\ \/ /\ collector \in {"done", "failed"}
          /\ stopping' = IF stopping = "awaitsTask" /\ collector = "done" THEN "stopped"
                         ELSE "error"
          /\ UNCHANGED <<collectorVars, events>>
       \/ /\ collector \in {"runs", "drains"} /\ stopping' = "error" /\ collector' = "failed"
          /\ LetGo /\ drained' = IF drained = "pending" THEN "dropped" ELSE drained
          /\ UNCHANGED <<ingress, awaited>>
    /\ UNCHANGED <<wanted, watch, control, threadVars, stopFlag, troubles>>

-----------------------------------------------------------------------------
ProviderInit ==
    /\ wanted = Nothing /\ looked = Nothing /\ sight = Nothing
    /\ watch = "none" /\ control = <<>> /\ thread = "cycle"
    /\ drains \in [due : 0..MaxDrains, open : {0}] /\ awaited = "none"
    /\ reading \in [resume : {FALSE}, bulk : 0..MaxBulk]
    /\ unsent = 0 /\ held = 0 /\ events = 0 /\ stopFlag = FALSE /\ stopping = "no"
    /\ collector = "runs" /\ ingress = TRUE /\ receives = TRUE /\ drained = "pending"
    /\ troubles = 0 /\ missed = FALSE

ThreadStep ==
    \/ BeginCycle \/ AwaitBarrier \/ FinishCycle \/ LoopTop \/ ReceiveControl \/ CollectControl
    \/ RetryPending \/ SendHeld

CollectorStep == ApplyProviderEvent \/ EventsEnd \/ BeginDrain \/ GiveUpDrain \/ EndDrain

ProviderNext ==
    \/ LogChanges \/ Notify \/ UpdateTargets
    \/ ThreadStep \/ Rescan \/ ThreadPanics
    \/ CollectorStep \/ OverflowTakesEvent \/ RetryMutation \/ RetryBarrier \/ CollectorFails
    \/ RequestStop \/ RaiseFlag \/ SendStop \/ DropWatcher \/ ExitSeen \/ DrainSeen \/ TaskSeen

\* The thread is scheduled, its timers run out, the collector polls what is ready, and a call of
\* stop goes on.  Nobody has to stop, to change a log or to deliver a notification, and a mutation
\* or a finalization that waits need never be written.
ProviderSpec ==
    /\ ProviderInit /\ [][ProviderNext]_providerVars
    /\ WF_providerVars(ThreadStep) /\ WF_providerVars(Rescan)
    /\ WF_providerVars(CollectorStep) /\ WF_providerVars(RaiseFlag \/ SendStop)

-----------------------------------------------------------------------------
\* The collector goes on, with its ingress open and a thread to read for it, and the barrier of a
\* drain, if one was sent, is on its way or answered: neither does its finalization wait to be
\* written nor has an overflow taken it, after which the worker waits for ever.
InService ==
    /\ stopping = "no" /\ collector = "runs" /\ ingress /\ ~ThreadEnded(thread)
    /\ awaited \notin {"held", "lost"}

\* When the logs and the target set rest, the thread has looked at all of it, though a hint was
\* dropped, came while the cycle was skipped or ended early, or while a drain limited what it read
\* (provider/mod.rs:2516, collector.rs:5082, 5607), or the directory was not watched yet; and when
\* it is told to stop it ends, whatever the collector does, also with outcomes to send and a full
\* channel (provider/mod.rs:2487, collector.rs:8534).
ThreadKeepsUp ==
    /\ <>[](InService => looked = wanted)
    /\ (stopFlag ~> ThreadEnded(thread))

\* A stop that succeeds leaves nothing behind: the thread is gone, the collector has received every
\* event the thread sent and every outcome it held, unless it gave up because a history mutation
\* could not be written (collector.rs:8534).  (An event received at an overflow of the subscription
\* was lost before the stop.)  And a thread that waits when it is told to stop is always
\* woken by a message, so it need not be left alone for want of the rescan timer, which is longer
\* than the time it has (provider/mod.rs:2119).
StopIsClean ==
    /\ stopping = "stopped" => ThreadEnded(thread) /\ events = 0 /\ (ingress => held = 0 /\ ~missed)
    /\ stopping \in {"sent", "awaitsExit", "awaitsDrain"} /\ thread = "wait" => control # <<>>

=============================================================================
