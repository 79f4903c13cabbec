------------------------------- MODULE Writer -------------------------------
(***************************************************************************)
(* The single SQLite writer of herdr-top (src/store/writer.rs).            *)
(*                                                                         *)
(* One OS thread owns the database and executes commands of a bounded      *)
(* channel in order.  The collector task is the only client: it sends one  *)
(* command at a time and waits for its acknowledgement, for a published    *)
(* health failure, or, for probes and read-backs, for the acknowledgement  *)
(* alone.  The lifecycle owner sends the final Shutdown.  Health is a      *)
(* watch value that the thread, the client and the drop guards publish.    *)
(* The client keeps a mirror of the durable event-id ledger, from which    *)
(* duplicates are suppressed before a batch is enqueued.                   *)
(*                                                                         *)
(* Payloads are abstracted to the ledger entries they carry; error codes   *)
(* and details are left out (only the durability of a failure is told      *)
(* apart by anything that acts on one).                                    *)
(***************************************************************************)
EXTENDS Naturals, Sequences, FiniteSets

CONSTANTS
    Ids,        \* names of commands; a name is reused once its command is gone
    ShutdownId, \* the name of the lifecycle's Shutdown command
    Events,     \* event ids a batch may record
    Capacity,   \* WRITER_QUEUE_CAPACITY
    Retention,  \* LEDGER_RETENTION_MS in clock ticks
    MaxTime,    \* bound on the clock
    MaxFaults   \* bound on store errors, panics and crashes together

ASSUME WriterAssumption ==
    /\ Capacity \in Nat \ {0}
    /\ Retention \in Nat
    /\ MaxTime \in Nat \ {0}
    /\ MaxFaults \in Nat
    /\ IsFiniteSet(Ids)
    /\ ShutdownId \in Ids
    /\ Ids # {ShutdownId}

VARIABLES
    queue,      \* the mpsc channel of WriterCommand values
    thread,     \* the writer thread: program point, command and its result
    health,     \* PersistenceHealth: Healthy or the published failure
    client,     \* the collector's WriterClient and its acknowledgement waiter
    life,       \* WriterLifecycle: running, sending, waiting, joined
    answer,     \* per command: the oneshot acknowledgement
    mirror,     \* EventLedgerCache
    ledger,     \* the event_ledger table
    clock,      \* wall clock, in ticks
    faults      \* store errors, panics and crashes so far

vars == <<queue, thread, health, client, life, answer, mirror, ledger,
          clock, faults>>

-----------------------------------------------------------------------------
(* Failures, commands and answers.                                         *)

Operations == {"Apply", "Cleanup", "UpdateOwnerLocation", "ReplaceOwner",
               "Barrier", "Checkpoint"}
Phases == {"QueueAdmission", "CommandExecution", "PostApplyCommit", "Acknowledgement"}
Durabilities == {"NotCommitted", "Committed", "Unknown", "NotApplicable"}

Failure == [operation : Operations, phase : Phases, durability : Durabilities]

\* PersistenceStatus::Healthy, in the shape of a failure.
Healthy == [operation |-> "None", phase |-> "None", durability |-> "None"]

Status == Failure \cup {Healthy}

\* The commands of the channel.  Apply stands for Apply and ApplyV6.
Kinds == {"Apply", "Finalize", "Cleanup", "UpdateOwner", "ReplaceOwner",
          "DrainFinalized", "DrainFinalization", "Barrier", "Probe", "Shutdown"}

\* The operation a command reports its failures under.
Operation(kind) ==
    CASE kind \in {"Apply", "Finalize"}                                 -> "Apply"
      [] kind = "Cleanup"                                               -> "Cleanup"
      [] kind = "UpdateOwner"                                           -> "UpdateOwnerLocation"
      [] kind \in {"ReplaceOwner", "Probe"}                             -> "ReplaceOwner"
      [] kind \in {"DrainFinalized", "DrainFinalization", "Barrier"}    -> "Barrier"
      [] kind = "Shutdown"                                              -> "Checkpoint"

\* Operations with a transaction whose durability a failure must classify.
Mutating == {"Apply", "Cleanup", "UpdateOwnerLocation", "ReplaceOwner"}

queue_failure(op) ==
    [operation  |-> op, phase |-> "QueueAdmission",
     durability |-> IF op \in Mutating THEN "NotCommitted" ELSE "NotApplicable"]

acknowledgement_failure(op) ==
    [operation  |-> op, phase |-> "Acknowledgement",
     durability |-> IF op \in Mutating THEN "Unknown" ELSE "NotApplicable"]

\* The failure of a command whose own statement failed.
execution_failure(kind) ==
    [operation  |-> Operation(kind), phase |-> "CommandExecution",
     durability |-> IF Operation(kind) \in Mutating THEN "NotCommitted" ELSE "NotApplicable"]

\* The batch is in the database, the retention pass after it failed.
post_apply_failure ==
    [operation |-> "Cleanup", phase |-> "PostApplyCommit", durability |-> "Committed"]

\* Waits for the acknowledgement alone (wait_response_only).
ResponseOnly(kind) == kind \in {"Probe", "DrainFinalized", "DrainFinalization", "Shutdown"}

\* The thread's WriterOperationGuard covers these commands.
ThreadGuarded(kind) ==
    kind \in {"Apply", "Finalize", "Cleanup", "UpdateOwner", "ReplaceOwner", "Shutdown"}

Times == 1 .. MaxTime
Entries == [event : Events, seen : Times]
Command == [id : Ids, kind : Kinds, entries : SUBSET Entries]
Answer == [tag : {"none", "dropped", "done"}, failure : Status, deleted : SUBSET Entries]

NoAnswer == [tag |-> "none", failure |-> Healthy, deleted |-> {}]
DroppedAnswer == [tag |-> "dropped", failure |-> Healthy, deleted |-> {}]

QueuedIds == {queue[i].id : i \in 1 .. Len(queue)}
ThreadBusy == thread.pc \in {"execute", "cleanup", "publish", "ack"}
ThreadDead == thread.pc \in {"exited", "panicked"}

\* A name is free once no queue slot, thread or waiter holds its command.
InUse == QueuedIds \cup {ShutdownId}
                   \cup (IF ThreadBusy THEN {thread.cmd.id} ELSE {})
                   \cup (IF client.pc \in {"sending", "waiting"} THEN {client.cmd.id} ELSE {})

-----------------------------------------------------------------------------
(* The health watch.                                                       *)

\* Mutant: the last failure wins.
publish_failure_last(status, failure) == IF failure = Healthy THEN status ELSE failure

\* Only a healthy writer can become degraded: the first failure is kept.
publish_failure(status, failure) == IF status = Healthy THEN failure ELSE status

-----------------------------------------------------------------------------
(* The event ledger and its mirror: functions from event ids to the time   *)
(* they were seen, 0 for an absent id.                                     *)

NotSeen == 0
LedgerMap == [Events -> {NotSeen} \cup Times]

\* EventLedgerCache::reserve for each entry: a known id stays as it is.
reserve(cache, entries) ==
    [e \in Events |->
        IF cache[e] = NotSeen /\ \E x \in entries : x.event = e
        THEN (CHOOSE x \in entries : x.event = e).seen
        ELSE cache[e]]

\* EventLedgerCache::apply_cleanup: only exact rows leave the cache.
apply_cleanup(cache, deleted) ==
    [e \in Events |->
        IF [event |-> e, seen |-> cache[e]] \in deleted THEN NotSeen ELSE cache[e]]

\* insert_ledger: INSERT OR IGNORE, an id already recorded keeps its row.
insert_ledger(table, entries) == reserve(table, entries)

\* Ledger rows past the retention window.
Expired(table) ==
    {x \in Entries : table[x.event] = x.seen /\ clock > x.seen + Retention}

delete_ledger(table, deleted) ==
    [e \in Events |->
        IF \E x \in deleted : x.event = e THEN NotSeen ELSE table[e]]

-----------------------------------------------------------------------------
NoCommand == [id |-> ShutdownId, kind |-> "Barrier", entries |-> {}]
IdleThread == [pc |-> "recv", cmd |-> NoCommand, failure |-> Healthy, deleted |-> {}]
IdleClient == [pc |-> "idle", cmd |-> NoCommand]

Init ==
    /\ queue = <<>>
    /\ thread = IdleThread
    /\ health = Healthy
    /\ client = IdleClient
    /\ life = "running"
    /\ answer = [i \in Ids |-> NoAnswer]
    /\ ledger = [e \in Events |-> NotSeen]
    /\ mirror = ledger
    /\ clock = 1
    /\ faults = 0

-----------------------------------------------------------------------------
(* The collector's client.                                                 *)

Cmd(id, kind, entries) == [id |-> id, kind |-> kind, entries |-> entries]

HeldPermits == IF client.pc = "permit" THEN 1 ELSE 0
HasRoom == Len(queue) + HeldPermits < Capacity

\* A new command gets a free name.
HasFreeId == Ids \ InUse # {}
FreeId == CHOOSE id \in Ids : id \notin InUse

\* Mutant: apply sends its batch without reserving the ids.
Submit_unreserved(kind, entries) ==
    /\ client.pc = "idle"
    /\ HasFreeId
    /\ client' = [pc |-> "sending", cmd |-> Cmd(FreeId, kind, entries)]
    /\ UNCHANGED <<queue, thread, health, life, answer, mirror, ledger, clock, faults>>

\* WriterClient::apply, apply_v6, cleanup, the owner updates, the barrier, the
\* probe and the drain read-backs up to their send.  apply reserves the ids of
\* its batch in the mirror before the send can wait or fail.
Submit(kind, entries) ==
    /\ client.pc = "idle"
    /\ HasFreeId
    /\ client' = [pc |-> "sending", cmd |-> Cmd(FreeId, kind, entries)]
    /\ mirror' = reserve(mirror, entries)
    /\ UNCHANGED <<queue, thread, health, life, answer, ledger, clock, faults>>

\* The send is awaited: it completes when the channel has room.
Send ==
    /\ client.pc = "sending"
    /\ ~ThreadDead
    /\ HasRoom
    /\ queue' = Append(queue, client.cmd)
    /\ client' = [client EXCEPT !.pc = "waiting"]
    /\ UNCHANGED <<thread, health, life, answer, mirror, ledger, clock, faults>>

\* What a send into a closed channel returns.
SendFailure == queue_failure(Operation(client.cmd.kind))

\* The receiver is gone: runtime_error publishes and returns the queue failure.
SendClosed ==
    /\ client.pc = "sending"
    /\ ThreadDead
    /\ health' = publish_failure(health, SendFailure)
    /\ client' = IdleClient
    /\ UNCHANGED <<queue, thread, life, answer, mirror, ledger, clock, faults>>

\* WriterClient::reserve_enqueue with its two health checks: a slot, or none.
ReserveEnqueue ==
    /\ client.pc = "idle"
    /\ health = Healthy
    /\ IF ThreadDead
       THEN /\ health' = publish_failure(health, queue_failure("Apply"))
            /\ UNCHANGED client
       ELSE /\ HasRoom
            /\ client' = [client EXCEPT !.pc = "permit"]
            /\ UNCHANGED health
    /\ UNCHANGED <<queue, thread, life, answer, mirror, ledger, clock, faults>>

\* The permit is dropped unused.
DropPermit ==
    /\ client.pc = "permit"
    /\ client' = IdleClient
    /\ UNCHANGED <<queue, thread, health, life, answer, mirror, ledger, clock, faults>>

\* EnqueuePermit::enqueue and enqueue_v6: reserve the ids, send, arm the waiter.
\* The slot was reserved, so the send cannot fail; a message sent after the
\* receiver is gone stays in the channel, unanswered.
EnqueueWithPermit(entries) ==
    /\ client.pc = "permit"
    /\ HasFreeId
    /\ queue' = Append(queue, Cmd(FreeId, "Apply", entries))
    /\ client' = [pc |-> "waiting", cmd |-> Cmd(FreeId, "Apply", entries)]
    /\ mirror' = reserve(mirror, entries)
    /\ UNCHANGED <<thread, health, life, answer, ledger, clock, faults>>

Reply == answer[client.cmd.id]
ClientOperation == Operation(client.cmd.kind)

\* AcknowledgementWaiter::wait and wait_response_only can return.
WaitOver ==
    /\ client.pc = "waiting"
    /\ \/ Reply.tag # "none"
       \/ health # Healthy /\ ~ResponseOnly(client.cmd.kind)

\* classify_closed and the closed arm of wait_response_only publish.
HealthAfterWait ==
    IF Reply.tag = "dropped"
    THEN publish_failure(health, acknowledgement_failure(ClientOperation))
    ELSE health

\* What the wait returns: the answer when there is one, for a dropped answer
\* the failure now published, otherwise the published failure.
WaitFailure ==
    IF Reply.tag = "done" THEN Reply.failure
    ELSE IF ResponseOnly(client.cmd.kind) THEN acknowledgement_failure(ClientOperation)
    ELSE HealthAfterWait

\* The wait returns and, on success, the rows deleted by retention leave the mirror.
Resolve ==
    /\ WaitOver
    /\ health' = HealthAfterWait
    /\ mirror' = IF Reply.tag = "done" /\ Reply.failure = Healthy
                 THEN apply_cleanup(mirror, Reply.deleted) ELSE mirror
    /\ client' = IdleClient
    /\ answer' = [answer EXCEPT ![client.cmd.id] = NoAnswer]
    /\ UNCHANGED <<queue, thread, life, ledger, clock, faults>>

\* The collector task ends between two commands.
ClientStop ==
    /\ client.pc = "idle"
    /\ client' = [IdleClient EXCEPT !.pc = "gone"]
    /\ UNCHANGED <<queue, thread, health, life, answer, mirror, ledger, clock, faults>>

\* CollectorHandle::stop aborts the task after its timeout.  Dropping an armed
\* waiter publishes an acknowledgement failure.
ClientAbort ==
    /\ client.pc \in {"sending", "permit", "waiting"}
    /\ client' = [IdleClient EXCEPT !.pc = "gone"]
    /\ health' = IF client.pc = "waiting" /\ ClientOperation \in Mutating
                 THEN publish_failure(health, acknowledgement_failure(ClientOperation))
                 ELSE health
    /\ answer' = [answer EXCEPT ![client.cmd.id] = NoAnswer]
    /\ UNCHANGED <<queue, thread, life, mirror, ledger, clock, faults>>

-----------------------------------------------------------------------------
(* WriterLifecycle::shutdown, called once the collector has stopped.       *)

BeginShutdown ==
    /\ client.pc = "gone"
    /\ life = "running"
    /\ life' = "sending"
    /\ UNCHANGED <<queue, thread, health, client, answer, mirror, ledger, clock, faults>>

\* The channel is closed: the queue failure is published, the thread joined.
ShutdownSendClosed ==
    /\ life = "sending"
    /\ ThreadDead
    /\ health' = publish_failure(health, queue_failure("Checkpoint"))
    /\ life' = "joined"
    /\ UNCHANGED <<queue, thread, client, answer, mirror, ledger, clock, faults>>

ShutdownSend ==
    /\ life = "sending"
    /\ ~ThreadDead
    /\ HasRoom
    /\ queue' = Append(queue, Cmd(ShutdownId, "Shutdown", {}))
    /\ life' = "waiting"
    /\ UNCHANGED <<thread, health, client, answer, mirror, ledger, clock, faults>>

\* The acknowledgement arrives or is dropped, and the thread is joined.
ShutdownJoin ==
    /\ life = "waiting"
    /\ answer[ShutdownId].tag # "none"
    /\ ThreadDead
    /\ health' = IF answer[ShutdownId].tag = "dropped"
                 THEN publish_failure(health, acknowledgement_failure("Checkpoint"))
                 ELSE health
    /\ life' = "joined"
    /\ UNCHANGED <<queue, thread, client, answer, mirror, ledger, clock, faults>>

-----------------------------------------------------------------------------
(* The writer thread (writer_main).                                        *)

Receive ==
    /\ thread.pc = "recv"
    /\ queue # <<>>
    /\ thread' = [pc |-> "execute", cmd |-> Head(queue), failure |-> Healthy, deleted |-> {}]
    /\ queue' = Tail(queue)
    /\ UNCHANGED <<health, client, life, answer, mirror, ledger, clock, faults>>

\* The command's transaction commits.
ExecuteOk ==
    /\ thread.pc = "execute"
    /\ LET cmd == thread.cmd
           inserted == insert_ledger(ledger, cmd.entries)
       IN  CASE cmd.kind = "Apply" ->
                  /\ ledger' = inserted
                  /\ thread' = [thread EXCEPT !.pc = "cleanup"]
             [] cmd.kind = "Cleanup" ->
                  /\ ledger' = delete_ledger(ledger, Expired(ledger))
                  /\ thread' = [thread EXCEPT !.pc = "publish", !.deleted = Expired(ledger)]
             [] OTHER ->
                  /\ thread' = [thread EXCEPT !.pc = "publish"]
                  /\ UNCHANGED ledger
    /\ UNCHANGED <<queue, health, client, life, answer, mirror, clock, faults>>

\* The command's transaction fails and is rolled back.  A Barrier touches no store.
ExecuteFails ==
    /\ thread.pc = "execute"
    /\ thread.cmd.kind # "Barrier"
    /\ faults < MaxFaults
    /\ thread' = [thread EXCEPT !.pc = "publish", !.failure = execution_failure(thread.cmd.kind)]
    /\ faults' = faults + 1
    /\ UNCHANGED <<queue, health, client, life, answer, mirror, ledger, clock>>

\* The retention pass after a committed batch, a transaction of its own.
PostApplyCleanup ==
    /\ thread.pc = "cleanup"
    /\ thread' = [thread EXCEPT !.pc = "publish", !.deleted = Expired(ledger)]
    /\ ledger' = delete_ledger(ledger, Expired(ledger))
    /\ UNCHANGED <<queue, health, client, life, answer, mirror, clock, faults>>

PostApplyCleanupFails ==
    /\ thread.pc = "cleanup"
    /\ faults < MaxFaults
    /\ thread' = [thread EXCEPT !.pc = "publish", !.failure = post_apply_failure]
    /\ faults' = faults + 1
    /\ UNCHANGED <<queue, health, client, life, answer, mirror, ledger, clock>>

\* The result is published before it is acknowledged.  A successful probe is
\* the only recovery; a failed one changes the detail alone.
Publish ==
    /\ thread.pc = "publish"
    /\ health' = IF thread.cmd.kind = "Probe"
                 THEN IF thread.failure = Healthy THEN Healthy ELSE health
                 ELSE publish_failure(health, thread.failure)
    /\ thread' = [thread EXCEPT !.pc = "ack"]
    /\ UNCHANGED <<queue, client, life, answer, mirror, ledger, clock, faults>>

\* HistoryDrainFinalized publishes database errors only, not invalid data.
KeepUnpublished ==
    /\ thread.pc = "publish"
    /\ thread.cmd.kind = "DrainFinalized"
    /\ thread.failure # Healthy
    /\ thread' = [thread EXCEPT !.pc = "ack"]
    /\ UNCHANGED <<queue, health, client, life, answer, mirror, ledger, clock, faults>>

Done == [tag |-> "done", failure |-> thread.failure, deleted |-> thread.deleted]

\* A oneshot receiver is still waiting for the answer to command id.
Awaited(id) ==
    \/ client.pc = "waiting" /\ client.cmd.id = id
    \/ life = "waiting" /\ id = ShutdownId

\* Mutant: a dropped oneshot sender is not noticed.
DropAnswers_unnoticed(ids) == answer

\* The answers after the channel and its commands are dropped.
DropAnswers(ids) ==
    [i \in Ids |-> IF i \in ids /\ Awaited(i) THEN DroppedAnswer ELSE answer[i]]

\* The acknowledgement is sent, to nobody if the waiter already returned.
Acknowledge ==
    /\ thread.pc = "ack"
    /\ thread.cmd.kind # "Shutdown"
    /\ answer' = IF Awaited(thread.cmd.id)
                 THEN [answer EXCEPT ![thread.cmd.id] = Done] ELSE answer
    /\ thread' = IdleThread
    /\ UNCHANGED <<queue, health, client, life, mirror, ledger, clock, faults>>

\* Shutdown ends the loop: the receiver goes, and whatever is still queued with it.
AcknowledgeShutdown ==
    /\ thread.pc = "ack"
    /\ thread.cmd.kind = "Shutdown"
    /\ answer' = IF Awaited(thread.cmd.id)
                 THEN [DropAnswers(QueuedIds) EXCEPT ![thread.cmd.id] = Done]
                 ELSE DropAnswers(QueuedIds)
    /\ queue' = <<>>
    /\ thread' = [IdleThread EXCEPT !.pc = "exited"]
    /\ UNCHANGED <<health, client, life, mirror, ledger, clock, faults>>

\* A panic inside the store, before or after a commit: the operation guard
\* publishes, the acknowledgement and every queued command are dropped.
Panic ==
    /\ thread.pc \in {"execute", "cleanup"}
    /\ thread.cmd.kind # "Barrier"
    /\ faults < MaxFaults
    /\ health' = IF ThreadGuarded(thread.cmd.kind)
                 THEN publish_failure(health,
                          acknowledgement_failure(Operation(thread.cmd.kind)))
                 ELSE health
    /\ answer' = DropAnswers(QueuedIds \cup {thread.cmd.id})
    /\ queue' = <<>>
    /\ thread' = [IdleThread EXCEPT !.pc = "panicked"]
    /\ faults' = faults + 1
    /\ UNCHANGED <<client, life, mirror, ledger, clock>>

-----------------------------------------------------------------------------
Tick ==
    /\ clock < MaxTime
    /\ clock' = clock + 1
    /\ UNCHANGED <<queue, thread, health, client, life, answer, mirror, ledger, faults>>

\* The process dies, or ended, and is started again: open_writer runs one
\* retention pass and spawn_writer seeds the mirror from the durable ledger.
Restart ==
    /\ \/ life = "joined" /\ UNCHANGED faults
       \/ life # "joined" /\ faults < MaxFaults /\ faults' = faults + 1
    /\ queue' = <<>>
    /\ thread' = IdleThread
    /\ health' = Healthy
    /\ client' = IdleClient
    /\ life' = "running"
    /\ answer' = [i \in Ids |-> NoAnswer]
    /\ ledger' = delete_ledger(ledger, Expired(ledger))
    /\ mirror' = ledger'
    /\ UNCHANGED clock

\* Events not yet known to the mirror, seen now: what passes is_duplicate.
FreshEntries == {[event |-> e, seen |-> clock] : e \in {x \in Events : mirror[x] = NotSeen}}

\* A batch kept for retry carries the entries, and the times, of its first attempt.
RetriedEntries == {[event |-> e, seen |-> mirror[e]] : e \in {x \in Events : mirror[x] # NotSeen}}

Batches == SUBSET (FreshEntries \cup RetriedEntries)

ClientKinds == Kinds \ {"Shutdown"}

\* Any command the client offers, in any state of the writer.
ClientCommand ==
    \/ \E kind \in ClientKinds \ {"Apply"} : Submit(kind, {})
    \/ \E entries \in Batches : Submit("Apply", entries)
    \/ ReserveEnqueue
    \/ DropPermit
    \/ \E entries \in SUBSET FreshEntries : EnqueueWithPermit(entries)

ThreadStep ==
    \/ Receive \/ ExecuteOk \/ ExecuteFails \/ PostApplyCleanup
    \/ PostApplyCleanupFails \/ Publish \/ KeepUnpublished
    \/ Acknowledge \/ AcknowledgeShutdown \/ Panic

ShutdownStep == ShutdownSendClosed \/ ShutdownSend \/ ShutdownJoin

Next ==
    \/ ClientCommand \/ Send \/ SendClosed \/ Resolve
    \/ ClientStop \/ ClientAbort
    \/ BeginShutdown \/ ShutdownStep
    \/ ThreadStep
    \/ Tick \/ Restart

\* The OS schedules the thread; awaited sends, waits and the shutdown make
\* progress as soon as they can.  Nobody is forced to submit, stop or fail.
Fairness ==
    /\ WF_vars(ThreadStep)
    /\ WF_vars(Send \/ SendClosed)
    /\ WF_vars(Resolve)
    /\ WF_vars(ShutdownStep)

Spec == Init /\ [][Next]_vars /\ Fairness

-----------------------------------------------------------------------------
(* Properties.                                                             *)

TypeOK ==
    /\ queue \in Seq(Command)
    /\ thread \in [pc : {"recv", "execute", "cleanup", "publish", "ack", "exited", "panicked"},
                   cmd : Command, failure : Status, deleted : SUBSET Entries]
    /\ health \in Status
    /\ client \in [pc : {"idle", "sending", "permit", "waiting", "gone"}, cmd : Command]
    /\ life \in {"running", "sending", "waiting", "joined"}
    /\ answer \in [Ids -> Answer]
    /\ mirror \in LedgerMap
    /\ ledger \in LedgerMap
    /\ clock \in Times
    /\ faults \in 0 .. MaxFaults

\* Commands on their way to the database.
InFlight ==
    {queue[i] : i \in 1 .. Len(queue)}
    \cup (IF thread.pc = "execute" THEN {thread.cmd} ELSE {})
    \cup (IF client.pc = "sending" THEN {client.cmd} ELSE {})

\* Duplicate suppression reads the mirror alone, so an event id that is in the
\* durable ledger, or in a batch on its way there, is always in the mirror,
\* whatever failed, panicked or was aborted in between (EventLedgerCache).
MirrorCoversAdmitted ==
    \A e \in Events :
        (ledger[e] # NotSeen \/ \E c \in InFlight : \E x \in c.entries : x.event = e)
            => mirror[e] # NotSeen

\* The first failure is kept until a probe command succeeds: nothing else in
\* the process recovers or relabels a degraded writer (publish_failure).
FirstFailureKept ==
    [][health # Healthy =>
        \/ health' = health
        \/ thread.pc = "publish" /\ thread.cmd.kind = "Probe" /\ thread.failure = Healthy
        \/ Restart]_vars

\* Nobody waits for ever: every wait for an acknowledgement ends, also when the thread panics on
\* an earlier or on this command (AcknowledgementWaiter), and once shutdown is called the thread
\* is joined, whether the channel was full, a command queued or the thread already gone.
CallsReturn ==
    /\ client.pc \in {"sending", "waiting"} ~> client.pc \in {"idle", "gone"}
    /\ life = "sending" ~> life \in {"joined", "running"}

=============================================================================
