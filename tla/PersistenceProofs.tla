------------------------- MODULE PersistenceProofs -------------------------
(* Theorems about the writer and the persistence facade over it, for every   *)
(* set of commands and events, queue capacity, retention, clock and number   *)
(* of faults.                                                                *)
EXTENDS RuntimePersistence, TLAPS

-----------------------------------------------------------------------------
(* Types of the operators.                                                 *)

\* Every failure a command can report is a failure record.
LEMMA FailureTypes ==
    ASSUME NEW kind \in Kinds
    PROVE  /\ Operation(kind) \in Operations
           /\ queue_failure(Operation(kind)) \in Failure
           /\ acknowledgement_failure(Operation(kind)) \in Failure
           /\ execution_failure(kind) \in Failure
<1>1. Operation(kind) \in Operations
  BY DEF Kinds, Operation, Operations
<1>2. QED
  BY <1>1 DEF queue_failure, acknowledgement_failure, execution_failure, Failure,
              Phases, Durabilities, Mutating

LEMMA ConstantFailureTypes ==
    /\ queue_failure("Apply") \in Failure
    /\ queue_failure("Checkpoint") \in Failure
    /\ acknowledgement_failure("Checkpoint") \in Failure
    /\ post_apply_failure \in Failure
BY DEF queue_failure, acknowledgement_failure, post_apply_failure, Failure, Operations,
       Phases, Durabilities, Mutating

\* Publishing keeps the health a status.
LEMMA PublishType ==
    ASSUME NEW status \in Status, NEW failure \in Status
    PROVE  publish_failure(status, failure) \in Status
BY DEF publish_failure

LEMMA ReserveType ==
    ASSUME NEW cache \in LedgerMap, NEW entries \in SUBSET Entries
    PROVE  reserve(cache, entries) \in LedgerMap
<1> SUFFICES ASSUME NEW e \in Events,
                    cache[e] = NotSeen /\ \E x \in entries : x.event = e
             PROVE  (CHOOSE x \in entries : x.event = e).seen \in Times
  BY DEF reserve, LedgerMap
<1> DEFINE chosen == CHOOSE x \in entries : x.event = e
<1>1. chosen \in entries
  OBVIOUS
<1>2. chosen \in Entries
  BY <1>1
<1>3. QED
  BY <1>2 DEF Entries

LEMMA CleanupTypes ==
    ASSUME NEW cache \in LedgerMap, NEW deleted
    PROVE  /\ apply_cleanup(cache, deleted) \in LedgerMap
           /\ delete_ledger(cache, deleted) \in LedgerMap
BY DEF apply_cleanup, delete_ledger, LedgerMap

LEMMA ExpiredType == ASSUME NEW table PROVE Expired(table) \in SUBSET Entries
BY DEF Expired

LEMMA NoCommandType == NoCommand \in Command
BY WriterAssumption DEF NoCommand, Command, Kinds

-----------------------------------------------------------------------------
(* Type correctness.                                                       *)

ThreadType == [pc : {"recv", "execute", "cleanup", "publish", "ack", "exited", "panicked"},
               cmd : Command, failure : Status, deleted : SUBSET Entries]

LEMMA TypeInit == Init => TypeOK
<1> SUFFICES ASSUME Init PROVE TypeOK
  OBVIOUS
<1> USE NoCommandType, WriterAssumption DEF Init
<1>1. queue \in Seq(Command)
  OBVIOUS
<1>2. Healthy \in Status
  BY DEF Status
<1>3. /\ thread \in [pc : {"recv", "execute", "cleanup", "publish", "ack", "exited", "panicked"},
                     cmd : Command, failure : Status, deleted : SUBSET Entries]
      /\ client \in [pc : {"idle", "sending", "permit", "waiting", "gone"}, cmd : Command]
      /\ health \in Status
  BY <1>2 DEF IdleThread, IdleClient
<1>4. answer \in [Ids -> Answer]
  BY <1>2 DEF NoAnswer, Answer
<1>5. mirror \in LedgerMap /\ ledger \in LedgerMap
  BY DEF LedgerMap
<1>6. clock \in Times /\ faults \in 0 .. MaxFaults
  BY DEF Times
<1>7. QED
  BY <1>1, <1>3, <1>4, <1>5, <1>6 DEF TypeOK

\* What the client's and the lifecycle's steps need of a queued command.
LEMMA CommandTypes ==
    ASSUME TypeOK, HasFreeId, NEW kind \in Kinds, NEW entries \in SUBSET Entries
    PROVE  /\ FreeId \in Ids
           /\ FreeId \notin InUse
           /\ Cmd(FreeId, kind, entries) \in Command
BY DEF HasFreeId, FreeId, Cmd, Command

LEMMA BatchType == ASSUME TypeOK PROVE Batches \subseteq SUBSET Entries
<1>1. FreshEntries \subseteq Entries
  BY DEF FreshEntries, Entries, TypeOK
<1>2. RetriedEntries \subseteq Entries
  <2> SUFFICES ASSUME NEW e \in Events, mirror[e] # NotSeen
               PROVE  mirror[e] \in Times
    BY DEF RetriedEntries, Entries
  <2> QED
    BY DEF TypeOK, LedgerMap
<1>3. QED
  BY <1>1, <1>2 DEF Batches

LEMMA HealthAfterWaitType ==
    ASSUME TypeOK PROVE HealthAfterWait \in Status
<1>1. client.cmd.kind \in Kinds
  BY DEF TypeOK, Command
<1>2. acknowledgement_failure(ClientOperation) \in Status
  BY <1>1, FailureTypes DEF ClientOperation, Status
<1>3. QED
  BY <1>2, PublishType DEF HealthAfterWait, TypeOK

LEMMA ClientKeepsType ==
    ASSUME TypeOK, ClientCommand \/ Send \/ SendClosed \/ Resolve \/ ClientStop \/ ClientAbort
    PROVE  TypeOK'
<1> USE NoCommandType DEF TypeOK
<1>0. client.cmd.kind \in Kinds /\ client.cmd.id \in Ids
  BY DEF Command
<1>1. ASSUME NEW kind \in Kinds, NEW entries \in SUBSET Entries, Submit(kind, entries)
      PROVE  TypeOK'
  BY <1>1, CommandTypes, ReserveType DEF Submit
<1>2. CASE Send
  BY <1>2 DEF Send
<1>3. CASE SendClosed
  <2>1. SendFailure \in Status
    BY <1>0, FailureTypes DEF SendFailure, Status
  <2> QED
    BY <1>3, <2>1, PublishType DEF SendClosed, IdleClient
<1>4. CASE ReserveEnqueue
  <2>1. queue_failure("Apply") \in Status
    BY ConstantFailureTypes DEF Status
  <2> QED
    BY <1>4, <2>1, PublishType DEF ReserveEnqueue
<1>5. CASE DropPermit
  BY <1>5 DEF DropPermit, IdleClient
<1>6. ASSUME NEW entries \in SUBSET Entries, EnqueueWithPermit(entries)
      PROVE  TypeOK'
  <2>1. "Apply" \in Kinds
    BY DEF Kinds
  <2> QED
    BY <1>6, <2>1, CommandTypes, ReserveType DEF EnqueueWithPermit
<1>7. CASE Resolve
  <2>1. mirror' \in LedgerMap
    BY <1>7, CleanupTypes DEF Resolve
  <2>2. answer' \in [Ids -> Answer]
    BY <1>7, <1>0 DEF Resolve, NoAnswer, Answer, Status
  <2> QED
    BY <1>7, <2>1, <2>2, HealthAfterWaitType DEF Resolve, IdleClient
<1>8. CASE ClientStop
  BY <1>8 DEF ClientStop, IdleClient
<1>9. CASE ClientAbort
  <2>1. acknowledgement_failure(ClientOperation) \in Status
    BY <1>0, FailureTypes DEF ClientOperation, Status
  <2>2. answer' \in [Ids -> Answer]
    BY <1>9, <1>0 DEF ClientAbort, NoAnswer, Answer, Status
  <2> QED
    BY <1>9, <2>1, <2>2, PublishType DEF ClientAbort, IdleClient
<1>10. CASE ClientCommand
  <2>1. {} \in SUBSET Entries /\ "Apply" \in Kinds /\ ClientKinds \subseteq Kinds
    BY DEF ClientKinds, Kinds
  <2>2. SUBSET FreshEntries \subseteq Batches
    BY DEF Batches
  <2> QED
    BY <1>10, <1>1, <1>4, <1>5, <1>6, <2>1, <2>2, BatchType DEF ClientCommand
<1>11. QED
  BY <1>2, <1>3, <1>7, <1>8, <1>9, <1>10

LEMMA LifecycleKeepsType ==
    ASSUME TypeOK, BeginShutdown \/ ShutdownStep PROVE TypeOK'
<1> USE DEF TypeOK
<1>1. CASE BeginShutdown
  BY <1>1 DEF BeginShutdown
<1>2. CASE ShutdownSendClosed
  <2>1. queue_failure("Checkpoint") \in Status
    BY ConstantFailureTypes DEF Status
  <2> QED
    BY <1>2, <2>1, PublishType DEF ShutdownSendClosed
<1>3. CASE ShutdownSend
  <2>1. Cmd(ShutdownId, "Shutdown", {}) \in Command
    BY WriterAssumption DEF Cmd, Command, Kinds
  <2> QED
    BY <1>3, <2>1 DEF ShutdownSend
<1>4. CASE ShutdownJoin
  <2>1. acknowledgement_failure("Checkpoint") \in Status
    BY ConstantFailureTypes DEF Status
  <2> QED
    BY <1>4, <2>1, PublishType DEF ShutdownJoin
<1>5. QED
  BY <1>1, <1>2, <1>3, <1>4 DEF ShutdownStep

LEMMA DropAnswersType ==
    ASSUME TypeOK, NEW ids PROVE DropAnswers(ids) \in [Ids -> Answer]
BY DEF TypeOK, DropAnswers, DroppedAnswer, Answer, Status

LEMMA ThreadKeepsType == ASSUME TypeOK, ThreadStep PROVE TypeOK'
<1> USE NoCommandType, WriterAssumption DEF TypeOK
<1>0. /\ thread.cmd.kind \in Kinds /\ thread.cmd.id \in Ids
      /\ thread.cmd.entries \in SUBSET Entries
      /\ Healthy \in Status
  BY DEF Command, Status
<1>1. CASE Receive
  BY <1>0, <1>1 DEF Receive
<1>2. CASE ExecuteOk
  <2>1. CASE thread.cmd.kind = "Apply"
    BY <1>0, <1>2, <2>1, ReserveType DEF ExecuteOk, insert_ledger
  <2>2. CASE thread.cmd.kind = "Cleanup"
    <3>1. ledger' \in LedgerMap
      BY <1>2, <2>2, CleanupTypes, ExpiredType DEF ExecuteOk
    <3>2. Expired(ledger) \in SUBSET Entries
      BY ExpiredType
    <3>3. thread' = [thread EXCEPT !.pc = "publish", !.deleted = Expired(ledger)]
      BY <1>2, <2>2 DEF ExecuteOk
    <3>4. thread' \in ThreadType
      BY <3>2, <3>3 DEF ThreadType
    <3> QED
      BY <1>2, <3>1, <3>4 DEF ExecuteOk, ThreadType
  <2>3. CASE thread.cmd.kind \notin {"Apply", "Cleanup"}
    BY <1>2, <2>3 DEF ExecuteOk
  <2> QED
    BY <2>1, <2>2, <2>3
<1>3. CASE ExecuteFails
  <2>1. execution_failure(thread.cmd.kind) \in Status
    BY <1>0, FailureTypes DEF Status
  <2>2. thread' \in ThreadType
    BY <1>3, <2>1 DEF ExecuteFails, ThreadType
  <2>3. faults' \in 0 .. MaxFaults
    BY <1>3 DEF ExecuteFails
  <2> QED
    BY <1>3, <2>2, <2>3 DEF ExecuteFails, ThreadType
<1>4. CASE PostApplyCleanup
  BY <1>4, CleanupTypes, ExpiredType DEF PostApplyCleanup
<1>5. CASE PostApplyCleanupFails
  <2>1. post_apply_failure \in Status
    BY ConstantFailureTypes DEF Status
  <2>2. thread' \in ThreadType
    BY <1>5, <2>1 DEF PostApplyCleanupFails, ThreadType
  <2>3. faults' \in 0 .. MaxFaults
    BY <1>5 DEF PostApplyCleanupFails
  <2> QED
    BY <1>5, <2>2, <2>3 DEF PostApplyCleanupFails, ThreadType
<1>6. CASE Publish
  BY <1>0, <1>6, PublishType DEF Publish
<1>7. CASE KeepUnpublished
  BY <1>7 DEF KeepUnpublished
<1>8. Done \in Answer /\ IdleThread \in [pc : {"recv"}, cmd : Command, failure : Status,
                                         deleted : SUBSET Entries]
  BY <1>0 DEF Done, Answer, IdleThread
<1>9. CASE Acknowledge
  BY <1>0, <1>8, <1>9 DEF Acknowledge
<1>10. CASE AcknowledgeShutdown
  <2>1. DropAnswers(QueuedIds) \in [Ids -> Answer]
    BY DropAnswersType
  <2>2. answer' \in [Ids -> Answer]
    BY <1>0, <1>8, <1>10, <2>1 DEF AcknowledgeShutdown
  <2> QED
    BY <1>0, <1>10, <2>2 DEF AcknowledgeShutdown, IdleThread
<1>11. CASE Panic
  <2>1. acknowledgement_failure(Operation(thread.cmd.kind)) \in Status
    BY <1>0, FailureTypes DEF Status
  <2>2. answer' \in [Ids -> Answer]
    BY <1>11, DropAnswersType DEF Panic
  <2>3. health' \in Status
    BY <1>11, <2>1, PublishType DEF Panic
  <2>4. thread' \in ThreadType /\ queue' \in Seq(Command)
    BY <1>0, <1>11 DEF Panic, IdleThread, ThreadType
  <2>5. faults' \in 0 .. MaxFaults
    BY <1>11 DEF Panic
  <2> QED
    BY <1>11, <2>2, <2>3, <2>4, <2>5 DEF Panic, ThreadType
<1>12. QED
  BY <1>1, <1>2, <1>3, <1>4, <1>5, <1>6, <1>7, <1>9, <1>10, <1>11 DEF ThreadStep

LEMMA RestartKeepsType == ASSUME TypeOK, Restart PROVE TypeOK'
<1> USE NoCommandType, WriterAssumption DEF TypeOK
<1>1. Healthy \in Status
  BY DEF Status
<1>2. ledger' \in LedgerMap
  BY CleanupTypes DEF Restart
<1>3. answer' \in [Ids -> Answer]
  BY <1>1 DEF Restart, NoAnswer, Answer
<1>4. QED
  BY <1>1, <1>2, <1>3 DEF Restart, IdleThread, IdleClient

\* Every reachable state is well typed: in particular a command never leaves
\* the thread without a classified failure or success.
THEOREM TypeCorrect == Spec => []TypeOK
<1>1. TypeOK /\ [Next]_vars => TypeOK'
  <2> SUFFICES ASSUME TypeOK, [Next]_vars PROVE TypeOK'
    OBVIOUS
  <2>1. CASE Tick
    BY <2>1, WriterAssumption DEF Tick, TypeOK, Times
  <2>2. CASE UNCHANGED vars
    BY <2>2 DEF vars, TypeOK
  <2> QED
    BY <2>1, <2>2, ClientKeepsType, LifecycleKeepsType, ThreadKeepsType, RestartKeepsType
       DEF Next
<1>2. QED
  BY TypeInit, <1>1, PTL DEF Spec

-----------------------------------------------------------------------------
(* Duplicate suppression.  MirrorCoversAdmitted is not inductive: when the  *)
(* client applies the retention rows of an answer, those rows must still be *)
(* absent from the ledger and from every command in flight.  That follows   *)
(* from the order of the channel: the client's command is the last one, so  *)
(* when it is answered nothing is queued and the thread is idle.            *)

\* Where the client's current command is.
ClientCommandLast ==
    /\ client.pc # "gone" => life = "running"
    /\ client.pc = "sending" => client.cmd.id \notin QueuedIds
    /\ client.pc = "sending" /\ ThreadBusy => thread.cmd.id # client.cmd.id
    /\ client.pc = "waiting" =>
         \A i \in 1 .. Len(queue) : queue[i].id = client.cmd.id => i = Len(queue)
    /\ client.pc = "waiting" /\ ThreadBusy /\ thread.cmd.id = client.cmd.id => queue = <<>>
    /\ client.pc = "waiting" /\ Reply.tag = "done" => queue = <<>> /\ ~ThreadBusy

\* Retention rows not yet applied to the mirror are gone from the ledger.
DeletedRowsGone ==
    /\ thread.pc \in {"execute", "cleanup"} => thread.deleted = {}
    /\ thread.pc \in {"publish", "ack"} => \A x \in thread.deleted : ledger[x.event] = NotSeen
    /\ client.pc = "waiting" /\ Reply.tag = "done" =>
         \A x \in Reply.deleted : ledger[x.event] = NotSeen

\* No answer waits for a client that has not asked.
AnswersAwaited ==
    \A i \in Ids : answer[i].tag # "none" =>
        \/ client.pc = "waiting" /\ client.cmd.id = i
        \/ client.pc = "gone" /\ i = ShutdownId

MirrorInv == ClientCommandLast /\ DeletedRowsGone /\ AnswersAwaited /\ MirrorCoversAdmitted

\* Reserving an id makes it known and forgets none.
LEMMA ReserveCovers ==
    ASSUME NEW cache \in LedgerMap, NEW entries \in SUBSET Entries, NEW e \in Events
    PROVE  /\ cache[e] # NotSeen => reserve(cache, entries)[e] = cache[e]
           /\ (\E x \in entries : x.event = e) => reserve(cache, entries)[e] # NotSeen
           /\ (reserve(cache, entries)[e] # NotSeen /\ cache[e] = NotSeen)
                => \E x \in entries : x.event = e
<1>1. reserve(cache, entries)[e] =
        IF cache[e] = NotSeen /\ \E x \in entries : x.event = e
        THEN (CHOOSE x \in entries : x.event = e).seen ELSE cache[e]
  BY DEF reserve
<1>2. ASSUME \E x \in entries : x.event = e
      PROVE  (CHOOSE x \in entries : x.event = e).seen # NotSeen
  <2> DEFINE chosen == CHOOSE x \in entries : x.event = e
  <2>1. chosen \in Entries
    BY <1>2
  <2>2. chosen.seen \in Times
    BY <2>1 DEF Entries
  <2> QED
    BY <2>2, WriterAssumption DEF Times, NotSeen
<1>3. QED
  BY <1>1, <1>2

LEMMA MirrorInit == Init => MirrorInv
<1> SUFFICES ASSUME Init PROVE MirrorInv
  OBVIOUS
<1> USE DEF Init
<1>1. QueuedIds = {} /\ Len(queue) = 0
  BY DEF QueuedIds
<1>2. ClientCommandLast
  BY <1>1 DEF ClientCommandLast, IdleClient
<1>3. DeletedRowsGone
  BY DEF DeletedRowsGone, IdleClient, IdleThread
<1>4. AnswersAwaited
  BY DEF AnswersAwaited, NoAnswer
<1>5. InFlight = {}
  BY <1>1 DEF InFlight, IdleClient, IdleThread
<1>6. MirrorCoversAdmitted
  BY <1>5 DEF MirrorCoversAdmitted
<1>7. QED
  BY <1>2, <1>3, <1>4, <1>6 DEF MirrorInv

\* A client about to name a command is neither sending nor waiting for one,
\* and the name is nowhere in use.
LEMMA SubmitKeepsMirrorInv ==
    ASSUME TypeOK, MirrorInv, NEW kind \in Kinds, NEW entries \in SUBSET Entries,
           Submit(kind, entries)
    PROVE  MirrorInv'
<1> USE DEF MirrorInv, Submit
<1>1. FreeId \in Ids /\ FreeId \notin QueuedIds /\ FreeId # ShutdownId
      /\ (ThreadBusy => thread.cmd.id # FreeId)
  BY CommandTypes DEF InUse
<1>2. client'.pc = "sending" /\ client'.cmd.id = FreeId /\ client'.cmd.entries = entries
  BY DEF Cmd
<1>3. ClientCommandLast'
  BY <1>1, <1>2 DEF ClientCommandLast, QueuedIds, ThreadBusy
<1>4. DeletedRowsGone'
  BY <1>2 DEF DeletedRowsGone
<1>5. AnswersAwaited'
  BY <1>2 DEF AnswersAwaited
<1>6. MirrorCoversAdmitted'
  <2> SUFFICES ASSUME NEW e \in Events,
                      ledger[e] # NotSeen
                        \/ \E c \in InFlight' : \E x \in c.entries : x.event = e
               PROVE  mirror'[e] # NotSeen
    BY DEF MirrorCoversAdmitted
  <2>1. InFlight' = InFlight \cup {client'.cmd}
    BY <1>2 DEF InFlight
  <2>2. CASE mirror[e] # NotSeen
    BY <2>2, ReserveCovers DEF TypeOK
  <2>3. CASE \E x \in entries : x.event = e
    BY <2>3, ReserveCovers DEF TypeOK
  <2> QED
    BY <1>2, <2>1, <2>2, <2>3 DEF MirrorCoversAdmitted
<1>7. QED
  BY <1>3, <1>4, <1>5, <1>6

LEMMA SendKeepsMirrorInv ==
    ASSUME TypeOK, MirrorInv, Send PROVE MirrorInv'
<1> USE DEF MirrorInv, Send
<1>1. /\ Len(queue') = Len(queue) + 1 /\ queue'[Len(queue) + 1] = client.cmd
      /\ \A i \in 1 .. Len(queue) : queue'[i] = queue[i]
      /\ Len(queue) \in Nat
  BY DEF TypeOK
<1>2. client'.pc = "waiting" /\ client'.cmd = client.cmd /\ client.cmd.id \in Ids
  BY DEF TypeOK, Command
<1>3. Reply'.tag = "none"
  BY <1>2 DEF AnswersAwaited, Reply, TypeOK, Answer
<1>4. ClientCommandLast'
  BY <1>1, <1>2, <1>3 DEF ClientCommandLast, QueuedIds, ThreadBusy
<1>5. DeletedRowsGone'
  BY <1>3 DEF DeletedRowsGone
<1>6. AnswersAwaited'
  BY <1>2 DEF AnswersAwaited
<1>7. InFlight' = InFlight
  <2>1. {queue'[i] : i \in 1 .. Len(queue')} = {queue[i] : i \in 1 .. Len(queue)} \cup {client.cmd}
    BY <1>1
  <2> QED
    BY <1>2, <2>1 DEF InFlight
<1>8. MirrorCoversAdmitted'
  BY <1>7 DEF MirrorCoversAdmitted
<1>9. QED
  BY <1>4, <1>5, <1>6, <1>8

LEMMA EnqueueKeepsMirrorInv ==
    ASSUME TypeOK, MirrorInv, NEW entries \in SUBSET Entries, EnqueueWithPermit(entries)
    PROVE  MirrorInv'
<1> USE DEF MirrorInv, EnqueueWithPermit
<1> DEFINE cmd == Cmd(FreeId, "Apply", entries)
<1>0. "Apply" \in Kinds
  BY DEF Kinds
<1>1. FreeId \in Ids /\ FreeId \notin QueuedIds /\ FreeId # ShutdownId
      /\ (ThreadBusy => thread.cmd.id # FreeId) /\ cmd \in Command
  BY <1>0, CommandTypes DEF InUse
<1>2. client'.pc = "waiting" /\ client'.cmd = cmd /\ cmd.id = FreeId /\ cmd.entries = entries
  BY DEF Cmd
<1>3. /\ Len(queue') = Len(queue) + 1 /\ queue'[Len(queue) + 1] = cmd
      /\ \A i \in 1 .. Len(queue) : queue'[i] = queue[i]
      /\ Len(queue) \in Nat
  BY <1>1 DEF TypeOK
<1>4. Reply'.tag = "none"
  BY <1>1, <1>2 DEF AnswersAwaited, Reply, TypeOK, Answer
<1>5. ClientCommandLast'
  BY <1>1, <1>2, <1>3, <1>4 DEF ClientCommandLast, QueuedIds, ThreadBusy
<1>6. DeletedRowsGone'
  BY <1>4 DEF DeletedRowsGone
<1>7. AnswersAwaited'
  BY <1>2 DEF AnswersAwaited
<1>8. MirrorCoversAdmitted'
  <2> SUFFICES ASSUME NEW e \in Events,
                      ledger[e] # NotSeen
                        \/ \E c \in InFlight' : \E x \in c.entries : x.event = e
               PROVE  mirror'[e] # NotSeen
    BY DEF MirrorCoversAdmitted
  <2>1. InFlight' = InFlight \cup {cmd}
    <3>1. {queue'[i] : i \in 1 .. Len(queue')} = {queue[i] : i \in 1 .. Len(queue)} \cup {cmd}
      BY <1>3
    <3> QED
      BY <1>2, <3>1 DEF InFlight
  <2>2. CASE mirror[e] # NotSeen
    BY <2>2, ReserveCovers DEF TypeOK
  <2>3. CASE \E x \in entries : x.event = e
    BY <2>3, ReserveCovers DEF TypeOK
  <2> QED
    BY <1>2, <2>1, <2>2, <2>3 DEF MirrorCoversAdmitted
<1>9. QED
  BY <1>5, <1>6, <1>7, <1>8

\* The step that needs the invariant: retention rows leave the mirror.
LEMMA ResolveKeepsMirrorInv ==
    ASSUME TypeOK, MirrorInv, Resolve PROVE MirrorInv'
<1> USE DEF MirrorInv, Resolve
<1>1. client.pc = "waiting" /\ client'.pc = "idle" /\ client.cmd.id \in Ids
  BY DEF WaitOver, IdleClient, TypeOK, Command
<1>2. answer'[client.cmd.id].tag = "none"
      /\ \A i \in Ids : i # client.cmd.id => answer'[i] = answer[i]
  BY <1>1 DEF TypeOK, NoAnswer
<1>3. ClientCommandLast'
  BY <1>1 DEF ClientCommandLast
<1>4. DeletedRowsGone'
  BY <1>1 DEF DeletedRowsGone
<1>5. AnswersAwaited'
  BY <1>1, <1>2 DEF AnswersAwaited
<1>6. MirrorCoversAdmitted'
  <2>1. InFlight' \subseteq InFlight
    BY <1>1 DEF InFlight
  <2>2. CASE Reply.tag = "done" /\ Reply.failure = Healthy
    <3>1. queue = <<>> /\ ~ThreadBusy /\ \A x \in Reply.deleted : ledger[x.event] = NotSeen
      BY <1>1, <2>2 DEF ClientCommandLast, DeletedRowsGone
    <3>2. InFlight' = {}
      BY <1>1, <3>1 DEF InFlight, ThreadBusy
    <3> SUFFICES ASSUME NEW e \in Events, ledger[e] # NotSeen PROVE mirror'[e] # NotSeen
      BY <3>2 DEF MirrorCoversAdmitted
    <3>3. mirror[e] # NotSeen
      BY DEF MirrorCoversAdmitted
    <3>4. [event |-> e, seen |-> mirror[e]] \notin Reply.deleted
      BY <3>1
    <3> QED
      BY <2>2, <3>3, <3>4 DEF apply_cleanup
  <2>3. CASE ~(Reply.tag = "done" /\ Reply.failure = Healthy)
    BY <2>1, <2>3 DEF MirrorCoversAdmitted
  <2> QED
    BY <2>2, <2>3
<1>7. QED
  BY <1>3, <1>4, <1>5, <1>6

\* Steps that leave the ledger, the mirror and the commands in flight alone.
LEMMA OtherClientStepsKeepMirrorInv ==
    ASSUME TypeOK, MirrorInv,
           SendClosed \/ ReserveEnqueue \/ DropPermit \/ ClientStop \/ ClientAbort
    PROVE  MirrorInv'
<1> USE DEF MirrorInv
<1>1. /\ UNCHANGED <<queue, thread, life, mirror, ledger>>
      /\ client'.pc \notin {"sending", "waiting"}
      /\ client'.pc # "gone" => client.pc # "gone"
      /\ client.pc # "gone"
  BY DEF SendClosed, ReserveEnqueue, DropPermit, ClientStop, ClientAbort, IdleClient, TypeOK
<1>2. ClientCommandLast'
  BY <1>1 DEF ClientCommandLast
<1>3. DeletedRowsGone'
  BY <1>1 DEF DeletedRowsGone
<1>4. AnswersAwaited'
  <2>1. CASE ClientAbort
    BY <2>1 DEF ClientAbort, AnswersAwaited, NoAnswer, TypeOK, Command
  <2>2. CASE ~ClientAbort
    BY <1>1, <2>2 DEF AnswersAwaited, SendClosed, ReserveEnqueue, DropPermit, ClientStop
  <2> QED
    BY <2>1, <2>2
<1>5. InFlight' \subseteq InFlight
  BY <1>1 DEF InFlight
<1>6. MirrorCoversAdmitted'
  BY <1>1, <1>5 DEF MirrorCoversAdmitted
<1>7. QED
  BY <1>2, <1>3, <1>4, <1>6

LEMMA LifecycleKeepsMirrorInv ==
    ASSUME TypeOK, MirrorInv, BeginShutdown \/ ShutdownStep
    PROVE  MirrorInv'
<1> USE DEF MirrorInv
<1>1. client.pc = "gone"
  BY DEF BeginShutdown, ShutdownStep, ShutdownSendClosed, ShutdownSend, ShutdownJoin,
         ClientCommandLast
<1>2. UNCHANGED <<client, thread, answer, mirror, ledger>>
  BY DEF BeginShutdown, ShutdownStep, ShutdownSendClosed, ShutdownSend, ShutdownJoin
<1>3. ClientCommandLast' /\ DeletedRowsGone' /\ AnswersAwaited'
  BY <1>1, <1>2 DEF ClientCommandLast, DeletedRowsGone, AnswersAwaited
<1>4. MirrorCoversAdmitted'
  <2>1. CASE ShutdownSend
    <3> DEFINE cmd == Cmd(ShutdownId, "Shutdown", {})
    <3>1. cmd \in Command
      BY WriterAssumption DEF Cmd, Command, Kinds
    <3>2. {queue'[i] : i \in 1 .. Len(queue')} = {queue[i] : i \in 1 .. Len(queue)} \cup {cmd}
      BY <2>1, <3>1 DEF ShutdownSend, TypeOK
    <3>3. InFlight' = InFlight \cup {cmd} /\ cmd.entries = {}
      BY <1>2, <3>2 DEF InFlight, Cmd
    <3> QED
      BY <1>2, <3>3 DEF MirrorCoversAdmitted
  <2>2. CASE ~ShutdownSend
    <3>1. InFlight' = InFlight
      BY <1>2, <2>2 DEF InFlight, BeginShutdown, ShutdownStep, ShutdownSendClosed, ShutdownJoin
    <3> QED
      BY <1>2, <3>1 DEF MirrorCoversAdmitted
  <2> QED
    BY <2>1, <2>2
<1>5. QED
  BY <1>3, <1>4

LEMMA ReceiveKeepsMirrorInv ==
    ASSUME TypeOK, MirrorInv, Receive PROVE MirrorInv'
<1> USE DEF MirrorInv, Receive
<1>1. /\ Len(queue) \in Nat \ {0} /\ Len(queue') = Len(queue) - 1
      /\ \A i \in 1 .. Len(queue') : queue'[i] = queue[i + 1]
      /\ thread'.cmd = queue[1]
      /\ thread'.pc = "execute" /\ thread'.deleted = {}
      /\ queue' \in Seq(Command)
  BY DEF TypeOK
<1>2. QueuedIds' \subseteq QueuedIds /\ thread'.cmd.id \in QueuedIds
  BY <1>1 DEF QueuedIds
<1>3. ClientCommandLast'
  <2>1. client.pc = "waiting" =>
          \A i \in 1 .. Len(queue') : queue'[i].id = client.cmd.id => i = Len(queue')
    <3> SUFFICES ASSUME client.pc = "waiting", NEW i \in 1 .. Len(queue'),
                        queue'[i].id = client.cmd.id
                 PROVE  i = Len(queue')
      OBVIOUS
    <3>1. i + 1 \in 1 .. Len(queue) /\ queue[i + 1].id = client.cmd.id
      BY <1>1
    <3>2. i + 1 = Len(queue)
      BY <3>1 DEF ClientCommandLast
    <3>3. i \in Nat /\ Len(queue) \in Nat /\ Len(queue') = Len(queue) - 1
      BY <1>1
    <3> QED
      BY <3>2, <3>3
  <2>2. client.pc = "waiting" /\ queue[1].id = client.cmd.id => queue' = <<>>
    <3> SUFFICES ASSUME client.pc = "waiting" /\ queue[1].id = client.cmd.id
                 PROVE  Len(queue') = 0
      BY <1>1
    <3>1. 1 \in 1 .. Len(queue)
      BY <1>1
    <3>2. 1 = Len(queue)
      BY <3>1 DEF ClientCommandLast
    <3> QED
      BY <1>1, <3>2
  <2>3. ~(client.pc = "waiting" /\ Reply.tag = "done")
    BY DEF ClientCommandLast
  <2> QED
    BY <1>1, <1>2, <2>1, <2>2, <2>3 DEF ClientCommandLast, Reply
<1>4. DeletedRowsGone'
  BY <1>1 DEF DeletedRowsGone, Reply
<1>5. AnswersAwaited'
  BY DEF AnswersAwaited
<1>6. InFlight' \subseteq InFlight
  <2>1. {queue'[i] : i \in 1 .. Len(queue')} \subseteq {queue[i] : i \in 1 .. Len(queue)}
    BY <1>1
  <2>2. thread'.cmd \in {queue[i] : i \in 1 .. Len(queue)}
    BY <1>1
  <2> QED
    BY <1>1, <2>1, <2>2 DEF InFlight
<1>7. MirrorCoversAdmitted'
  BY <1>6 DEF MirrorCoversAdmitted
<1>8. QED
  BY <1>3, <1>4, <1>5, <1>7

\* Executing a command touches the ledger and the thread only.
LEMMA ExecuteFrame ==
    ASSUME TypeOK,
           ExecuteOk \/ ExecuteFails \/ PostApplyCleanup \/ PostApplyCleanupFails
    PROVE  /\ UNCHANGED <<queue, client, life, answer, mirror>>
           /\ thread.pc \in {"execute", "cleanup"}
           /\ thread'.pc \in {"cleanup", "publish"}
           /\ thread'.cmd = thread.cmd
           /\ \/ thread'.deleted = thread.deleted /\ ledger' = ledger
              \/ /\ thread'.deleted = thread.deleted /\ thread'.pc = "cleanup"
                 /\ thread.pc = "execute"
                 /\ ledger' = insert_ledger(ledger, thread.cmd.entries)
              \/ /\ thread'.deleted = Expired(ledger) /\ thread'.pc = "publish"
                 /\ ledger' = delete_ledger(ledger, Expired(ledger))
<1> USE DEF TypeOK
<1>1. CASE ExecuteOk
  <2>1. CASE thread.cmd.kind = "Apply"
    BY <1>1, <2>1 DEF ExecuteOk
  <2>2. CASE thread.cmd.kind = "Cleanup"
    BY <1>1, <2>2 DEF ExecuteOk
  <2>3. CASE thread.cmd.kind \notin {"Apply", "Cleanup"}
    BY <1>1, <2>3 DEF ExecuteOk
  <2> QED
    BY <2>1, <2>2, <2>3
<1>2. CASE ExecuteFails
  BY <1>2 DEF ExecuteFails
<1>3. CASE PostApplyCleanup
  BY <1>3 DEF PostApplyCleanup
<1>4. CASE PostApplyCleanupFails
  BY <1>4 DEF PostApplyCleanupFails
<1>5. QED
  BY <1>1, <1>2, <1>3, <1>4

LEMMA ExecuteKeepsMirrorInv ==
    ASSUME TypeOK, MirrorInv,
           ExecuteOk \/ ExecuteFails \/ PostApplyCleanup \/ PostApplyCleanupFails
    PROVE  MirrorInv'
<1> USE DEF MirrorInv
<1>1. ClientCommandLast'
  BY ExecuteFrame DEF ClientCommandLast, QueuedIds, ThreadBusy, Reply
<1>2. AnswersAwaited'
  BY ExecuteFrame DEF AnswersAwaited
<1>3. ~(client.pc = "waiting" /\ Reply.tag = "done")
  BY ExecuteFrame DEF ClientCommandLast, ThreadBusy
<1>4. DeletedRowsGone'
  <2>1. thread.deleted = {}
    BY ExecuteFrame DEF DeletedRowsGone
  <2>2. \A x \in thread'.deleted : ledger'[x.event] = NotSeen
    <3> SUFFICES ASSUME NEW x \in Expired(ledger)
                 PROVE  delete_ledger(ledger, Expired(ledger))[x.event] = NotSeen
      BY <2>1, ExecuteFrame
    <3> QED
      BY DEF Expired, delete_ledger, Entries
  <2>3. thread'.pc = "cleanup" => thread'.deleted = {}
    BY <2>1, ExecuteFrame
  <2> QED
    BY <1>3, <2>2, <2>3, ExecuteFrame DEF DeletedRowsGone, Reply
<1>5. MirrorCoversAdmitted'
  <2> SUFFICES ASSUME NEW e \in Events,
                      ledger'[e] # NotSeen
                        \/ \E c \in InFlight' : \E x \in c.entries : x.event = e
               PROVE  mirror[e] # NotSeen
    BY ExecuteFrame DEF MirrorCoversAdmitted
  <2>1. InFlight' \subseteq InFlight
    BY ExecuteFrame DEF InFlight
  <2>2. ASSUME ledger'[e] # NotSeen, ledger[e] = NotSeen
        PROVE  \E c \in InFlight : \E x \in c.entries : x.event = e
    <3>1. /\ thread.pc = "execute"
          /\ ledger' = reserve(ledger, thread.cmd.entries)
      <4>1. delete_ledger(ledger, Expired(ledger))[e] = NotSeen
        BY <2>2 DEF delete_ledger
      <4> QED
        BY <2>2, <4>1, ExecuteFrame DEF insert_ledger
    <3>2. \E x \in thread.cmd.entries : x.event = e
      BY <2>2, <3>1, ReserveCovers DEF TypeOK, Command
    <3> QED
      BY <3>1, <3>2 DEF InFlight
  <2> QED
    BY <2>1, <2>2 DEF MirrorCoversAdmitted
<1>6. QED
  BY <1>1, <1>2, <1>4, <1>5

\* Publishing and answering.
LEMMA AnswerKeepsMirrorInv ==
    ASSUME TypeOK, MirrorInv, Publish \/ KeepUnpublished \/ Acknowledge \/ AcknowledgeShutdown
    PROVE  MirrorInv'
<1> USE DEF MirrorInv
<1>1. /\ UNCHANGED <<client, life, mirror, ledger>>
      /\ thread.pc \in {"publish", "ack"}
      /\ queue' = queue \/ queue' = <<>>
      /\ thread.cmd.id \in Ids
  BY DEF Publish, KeepUnpublished, Acknowledge, AcknowledgeShutdown, TypeOK, Command
<1>2. ~(client.pc = "waiting" /\ Reply.tag = "done")
  BY <1>1 DEF ClientCommandLast, ThreadBusy
<1>3. QueuedIds' \subseteq QueuedIds /\ InFlight' \subseteq InFlight
  <2>1. \A i \in 1 .. Len(queue') : i \in 1 .. Len(queue) /\ queue'[i] = queue[i]
    BY <1>1 DEF TypeOK
  <2>2. thread'.pc # "execute"
    BY DEF Publish, KeepUnpublished, Acknowledge, AcknowledgeShutdown, IdleThread, TypeOK
  <2> QED
    BY <1>1, <2>1, <2>2 DEF QueuedIds, InFlight
<1>4. MirrorCoversAdmitted'
  BY <1>1, <1>3 DEF MirrorCoversAdmitted
<1>5. CASE Publish \/ KeepUnpublished
  <2>1. /\ UNCHANGED <<queue, answer>> /\ thread.pc = "publish" /\ thread'.pc = "ack"
        /\ thread'.cmd = thread.cmd /\ thread'.deleted = thread.deleted
    BY <1>5 DEF Publish, KeepUnpublished, TypeOK
  <2>2. ClientCommandLast'
    BY <1>1, <2>1 DEF ClientCommandLast, QueuedIds, ThreadBusy, Reply
  <2>3. DeletedRowsGone' /\ AnswersAwaited'
    BY <1>1, <2>1 DEF DeletedRowsGone, AnswersAwaited, Reply
  <2> QED
    BY <1>4, <2>2, <2>3
<1>6. CASE Acknowledge \/ AcknowledgeShutdown
  <2>1. /\ thread.pc = "ack" /\ thread'.pc \in {"recv", "exited"}
        /\ Acknowledge => queue' = queue
        /\ AcknowledgeShutdown => queue' = <<>>
    BY <1>6 DEF Acknowledge, AcknowledgeShutdown, IdleThread
  <2>2. ASSUME NEW i \in Ids, answer'[i].tag # "none"
        PROVE  \/ answer[i].tag # "none"
               \/ client.pc = "waiting" /\ client.cmd.id = i
               \/ life = "waiting" /\ i = ShutdownId
    <3>1. CASE Acknowledge
      BY <1>1, <2>2, <3>1 DEF Acknowledge, Awaited, TypeOK
    <3>2. DropAnswers(QueuedIds)[i].tag # "none" => answer[i].tag # "none" \/ Awaited(i)
      BY DEF DropAnswers
    <3>3. CASE AcknowledgeShutdown
      <4>1. CASE i = thread.cmd.id /\ Awaited(thread.cmd.id)
        BY <4>1 DEF Awaited
      <4>2. CASE ~(i = thread.cmd.id /\ Awaited(thread.cmd.id))
        <5>1. answer'[i] = DropAnswers(QueuedIds)[i]
          BY <1>1, <3>3, <4>2 DEF AcknowledgeShutdown, DropAnswers
        <5> QED
          BY <2>2, <3>2, <5>1 DEF Awaited
      <4> QED
        BY <4>1, <4>2
    <3> QED
      BY <1>6, <3>1, <3>3
  <2>3. AnswersAwaited'
    BY <1>1, <2>2 DEF AnswersAwaited, ClientCommandLast
  <2>4. ASSUME client.pc = "waiting", Reply'.tag = "done"
        PROVE  /\ thread.cmd.id = client.cmd.id
               /\ Reply'.deleted = thread.deleted
    <3>1. client.cmd.id \in Ids
      BY DEF TypeOK, Command
    <3>2. Reply' = answer'[client.cmd.id]
      BY <1>1 DEF Reply
    <3>3. CASE Acknowledge
      BY <1>2, <2>4, <3>1, <3>2, <3>3 DEF Acknowledge, Done, Reply, TypeOK
    <3>4. DropAnswers(QueuedIds)[client.cmd.id].tag = "done" => Reply.tag = "done"
      BY <3>1 DEF DropAnswers, DroppedAnswer, Reply
    <3>5. CASE AcknowledgeShutdown
      <4>1. CASE client.cmd.id = thread.cmd.id /\ Awaited(thread.cmd.id)
        BY <3>1, <3>2, <3>5, <4>1 DEF AcknowledgeShutdown, Done, DropAnswers
      <4>2. CASE ~(client.cmd.id = thread.cmd.id /\ Awaited(thread.cmd.id))
        <5>1. answer'[client.cmd.id] = DropAnswers(QueuedIds)[client.cmd.id]
          BY <3>1, <3>5, <4>2 DEF AcknowledgeShutdown, DropAnswers
        <5> QED
          BY <1>2, <2>4, <3>2, <3>4, <5>1
      <4> QED
        BY <4>1, <4>2
    <3> QED
      BY <1>6, <3>3, <3>5
  <2>5. DeletedRowsGone'
    BY <1>1, <2>1, <2>4 DEF DeletedRowsGone
  <2>6. client.pc = "waiting" /\ Reply'.tag = "done" => queue' = <<>>
    BY <1>1, <2>1, <2>4 DEF ClientCommandLast, ThreadBusy
  <2>7. ClientCommandLast'
    <3>1. client.pc = "waiting" =>
            \A i \in 1 .. Len(queue') : queue'[i].id = client.cmd.id => i = Len(queue')
      BY <1>1 DEF ClientCommandLast
    <3> QED
      BY <1>1, <1>3, <2>1, <2>6, <3>1 DEF ClientCommandLast, ThreadBusy
  <2> QED
    BY <1>4, <2>3, <2>5, <2>7
<1>7. QED
  BY <1>5, <1>6

LEMMA PanicKeepsMirrorInv ==
    ASSUME TypeOK, MirrorInv, Panic PROVE MirrorInv'
<1> USE DEF MirrorInv
<1>1. /\ UNCHANGED <<client, life, mirror, ledger>> /\ queue' = <<>>
      /\ thread.pc \in {"execute", "cleanup"} /\ thread'.pc = "panicked"
  BY DEF Panic, IdleThread
<1>2. ~(client.pc = "waiting" /\ Reply.tag = "done")
  BY <1>1 DEF ClientCommandLast, ThreadBusy
<1>3. ASSUME NEW i \in Ids
      PROVE  answer'[i] = answer[i] \/ (answer'[i] = DroppedAnswer /\ Awaited(i))
  BY DEF Panic, DropAnswers
<1>4. AnswersAwaited'
  BY <1>1, <1>3 DEF AnswersAwaited, Awaited, ClientCommandLast
<1>5. ~(client.pc = "waiting" /\ Reply'.tag = "done")
  <2>1. client.cmd.id \in Ids /\ Reply' = answer'[client.cmd.id] /\ Reply = answer[client.cmd.id]
    BY <1>1 DEF Reply, TypeOK, Command
  <2> QED
    BY <1>2, <1>3, <2>1 DEF DroppedAnswer
<1>6. DeletedRowsGone'
  BY <1>1, <1>5 DEF DeletedRowsGone
<1>7. ClientCommandLast'
  BY <1>1, <1>5 DEF ClientCommandLast, QueuedIds, ThreadBusy
<1>8. InFlight' \subseteq InFlight
  BY <1>1 DEF InFlight
<1>9. QED
  BY <1>1, <1>4, <1>6, <1>7, <1>8 DEF MirrorCoversAdmitted

LEMMA RestartKeepsMirrorInv ==
    ASSUME TypeOK, MirrorInv, Restart PROVE MirrorInv'
<1> USE DEF MirrorInv, Restart
<1>1. client'.pc = "idle" /\ thread'.pc = "recv" /\ queue' = <<>> /\ life' = "running"
  BY DEF IdleClient, IdleThread
<1>2. InFlight' = {}
  BY <1>1 DEF InFlight
<1>3. MirrorCoversAdmitted'
  BY <1>2 DEF MirrorCoversAdmitted
<1>4. AnswersAwaited'
  BY DEF AnswersAwaited, NoAnswer
<1>5. QED
  BY <1>1, <1>3, <1>4 DEF ClientCommandLast, DeletedRowsGone

LEMMA UnchangedKeepsMirrorInv ==
    ASSUME TypeOK, MirrorInv, Tick \/ UNCHANGED vars PROVE MirrorInv'
<1>1. UNCHANGED <<queue, thread, client, life, answer, mirror, ledger>>
  BY DEF Tick, vars
<1>2. QED
  BY <1>1 DEF MirrorInv, ClientCommandLast, DeletedRowsGone, AnswersAwaited,
              MirrorCoversAdmitted, InFlight, QueuedIds, ThreadBusy, Reply

\* The duplicate check reads the mirror alone and never misses an event id
\* that is durable or about to be: for any number of events, commands,
\* failures, panics, aborts and restarts.
THEOREM MirrorCorrect == Spec => []MirrorCoversAdmitted
<1>1. TypeOK /\ MirrorInv /\ [Next]_vars => MirrorInv'
  <2> SUFFICES ASSUME TypeOK, MirrorInv, [Next]_vars PROVE MirrorInv'
    OBVIOUS
  <2>1. CASE ClientCommand
    <3>1. {} \in SUBSET Entries /\ "Apply" \in Kinds /\ ClientKinds \subseteq Kinds
      BY DEF ClientKinds, Kinds
    <3>2. SUBSET FreshEntries \subseteq Batches
      BY DEF Batches
    <3> QED
      BY <2>1, <3>1, <3>2, BatchType, SubmitKeepsMirrorInv, EnqueueKeepsMirrorInv,
         OtherClientStepsKeepMirrorInv DEF ClientCommand
  <2>2. CASE ThreadStep
    BY <2>2, ReceiveKeepsMirrorInv, ExecuteKeepsMirrorInv, AnswerKeepsMirrorInv,
       PanicKeepsMirrorInv DEF ThreadStep
  <2> QED
    BY <2>1, <2>2, SendKeepsMirrorInv, ResolveKeepsMirrorInv, OtherClientStepsKeepMirrorInv,
       LifecycleKeepsMirrorInv, RestartKeepsMirrorInv, UnchangedKeepsMirrorInv DEF Next
<1>2. MirrorInv => MirrorCoversAdmitted
  BY DEF MirrorInv
<1>3. QED
  BY TypeCorrect, MirrorInit, <1>1, <1>2, PTL DEF Spec

\* The first failure is kept until a probe succeeds or the process restarts.
THEOREM FirstFailureIsKept == Spec => FirstFailureKept
<1> DEFINE Kept ==
      health # Healthy =>
        \/ health' = health
        \/ thread.pc = "publish" /\ thread.cmd.kind = "Probe" /\ thread.failure = Healthy
        \/ Restart
<1>1. ASSUME NEW failure PROVE health # Healthy => publish_failure(health, failure) = health
  BY DEF publish_failure
<1>2. [Next]_vars => [Kept]_vars
  <2> SUFFICES ASSUME Next, health # Healthy PROVE Kept
    BY DEF vars
  <2>1. CASE ThreadStep
    BY <1>1, <2>1 DEF ThreadStep, Receive, ExecuteOk, ExecuteFails, PostApplyCleanup,
       PostApplyCleanupFails, Publish, KeepUnpublished, Acknowledge, AcknowledgeShutdown, Panic
  <2>2. CASE ClientCommand
    BY <2>2 DEF ClientCommand, Submit, ReserveEnqueue, DropPermit, EnqueueWithPermit
  <2>3. CASE Send \/ SendClosed \/ Resolve \/ ClientStop \/ ClientAbort
    BY <1>1, <2>3 DEF Send, SendClosed, Resolve, HealthAfterWait, ClientStop, ClientAbort
  <2>4. CASE BeginShutdown \/ ShutdownStep \/ Tick
    BY <1>1, <2>4 DEF BeginShutdown, ShutdownStep, ShutdownSend, ShutdownSendClosed,
                      ShutdownJoin, Tick
  <2> QED
    BY <2>1, <2>2, <2>3, <2>4 DEF Next
<1>3. QED
  BY <1>2, PTL DEF Spec, FirstFailureKept

-----------------------------------------------------------------------------
(* Types.                                                                  *)

Calls == [pc : {"none", "begin", "checked", "probe", "probing", "permit", "writing", "readback",
                "reading"}, entry : Entry]
Drains == [durable : BOOLEAN, page : BOOLEAN, published : BOOLEAN]

CallTypes ==
    /\ call \in Calls
    /\ acceptor \in {"running", "stopped"}
    /\ claim \in [Ids -> Outcomes \cup {"None"}]
    /\ committed \in SUBSET Ids
    /\ unmarked \in BOOLEAN
    /\ drain \in Drains

LEMMA TypeParts == RTypeOK <=> TypeOK /\ facade \in Facade /\ CallTypes
BY Zenon DEF RTypeOK, CallTypes, Calls, Drains

LEMMA HealthyIsNoFailure == Healthy \in Status /\ Healthy \notin Failure
BY DEF Status, Failure, Healthy, Operations

LEMMA FailureRecorded ==
    ASSUME NEW f \in Facade, NEW failure \in Status, NEW ownerClass \in BOOLEAN
    PROVE  record_facade_failure(f, failure, ownerClass) \in Facade
<1> DEFINE pending == f.stopPending \/ f.input = "AcceptorStopped"
           input == IF f.input = "Available" THEN "PersistenceUnavailable" ELSE f.input
           owner == IF ownerClass THEN "Stale" ELSE f.owner
<1>1. CASE f.status # Healthy
  BY <1>1 DEF record_facade_failure
<1>2. CASE f.status = Healthy
  <2>1. record_facade_failure(f, failure, ownerClass) =
           [f EXCEPT !.status = failure, !.probe = "cooling", !.stopPending = pending,
                     !.input = input, !.owner = owner]
    BY <1>2, Zenon DEF record_facade_failure
  <2>2. pending \in BOOLEAN
    BY Zenon
  <2>3. /\ input \in {"Available", "PersistenceUnavailable", "AcceptorStopped"}
        /\ owner \in {"Current", "Stale"}
    BY DEF Facade
  <2> HIDE DEF pending, input, owner
  <2> QED BY <2>1, <2>2, <2>3 DEF Facade
<1> QED BY <1>1, <1>2

LEMMA StatusIngested ==
    ASSUME NEW f \in Facade, NEW status \in Status
    PROVE  LET g == ingest_writer_status(f, status)
           IN  g \in Facade /\ (g.status = Healthy <=> status = Healthy)
<1> DEFINE g == ingest_writer_status(f, status)
<1>1. CASE status # Healthy
  <2>1. g = record_facade_failure(f, status, status.operation = "UpdateOwnerLocation")
    BY <1>1 DEF ingest_writer_status
  <2>2. (status.operation = "UpdateOwnerLocation") \in BOOLEAN
    BY Zenon
  <2>3. g \in Facade
    BY <2>1, <2>2, FailureRecorded, Zenon
  <2>4. g.status # Healthy
    <3>1. CASE f.status # Healthy
      BY <2>1, <3>1 DEF record_facade_failure
    <3>2. CASE f.status = Healthy
      BY <1>1, <2>1, <3>2 DEF record_facade_failure, Facade
    <3> QED BY <3>1, <3>2
  <2> QED BY <1>1, <2>3, <2>4
<1>2. CASE status = Healthy
  <2> DEFINE input == IF f.stopPending THEN "AcceptorStopped"
                      ELSE IF f.input = "PersistenceUnavailable" THEN "Available" ELSE f.input
  <2>1. Recovered(f) = [f EXCEPT !.status = Healthy, !.input = input, !.stopPending = FALSE,
                                 !.probe = "none", !.markerPending = TRUE]
    BY Zenon DEF Recovered
  <2>2. input \in {"Available", "PersistenceUnavailable", "AcceptorStopped"}
    BY DEF Facade
  <2> HIDE DEF input
  <2>3. Recovered(f) \in Facade /\ Recovered(f).status = Healthy
    BY <2>1, <2>2, HealthyIsNoFailure DEF Facade
  <2> QED BY <1>2, <2>3 DEF ingest_writer_status
<1> QED BY <1>1, <1>2

LEMMA SkipRecorded ==
    ASSUME NEW f \in Facade, NEW entry
    PROVE  record_skip(f, entry) \in Facade /\ record_skip(f, entry).status = f.status
BY DEF record_skip, Facade

LEMMA CallEnded ==
    ASSUME NEW f \in Facade, NEW entry, NEW outcome, EndCall(f, entry, outcome)
    PROVE  /\ facade' \in Facade /\ facade'.status = f.status
           /\ call' \in Calls /\ call'.pc \in {"none", "begin"}
           /\ facade'.input = f.input /\ facade'.stopPending = f.stopPending
<1>1. call' \in {NoCall, [pc |-> "begin", entry |-> "Marker"]}
  BY DEF EndCall
<1>2. call' \in Calls /\ call'.pc \in {"none", "begin"}
  BY <1>1 DEF NoCall, Calls, Entry
<1>3. \E pending \in BOOLEAN : facade' = [f EXCEPT !.markerPending = pending]
  <2>1. CASE entry = "Marker"
    <3>1. facade' = [f EXCEPT !.markerPending = f.markerPending \/ outcome \notin KnownCommitted]
      BY <2>1 DEF EndCall
    <3>2. (f.markerPending \/ outcome \notin KnownCommitted) \in BOOLEAN
      BY Zenon
    <3> QED BY <3>1, <3>2, Zenon
  <2>2. CASE entry # "Marker" /\ f.markerPending /\ WritesMarker(entry, outcome)
    BY <2>2 DEF EndCall
  <2>3. CASE entry # "Marker" /\ ~(f.markerPending /\ WritesMarker(entry, outcome))
    <3>1. facade' = f
      BY <2>3 DEF EndCall
    <3>2. f = [f EXCEPT !.markerPending = f.markerPending] /\ f.markerPending \in BOOLEAN
      BY DEF Facade
    <3> QED BY <3>1, <3>2, Zenon
  <2> QED BY <2>1, <2>2, <2>3
<1>4. facade' \in Facade /\ facade'.status = f.status
      /\ facade'.input = f.input /\ facade'.stopPending = f.stopPending
  BY <1>3 DEF Facade
<1> QED BY <1>2, <1>4

-----------------------------------------------------------------------------
(* The facade's view of Controller input.                                  *)

\* Input while the facade is healthy is what the acceptor makes of it; during an outage the stop
\* of the acceptor is remembered.
InputKept(f, runs) ==
    /\ f.status = Healthy => /\ f.input = IF runs = "running" THEN "Available" ELSE "AcceptorStopped"
                             /\ ~f.stopPending
    /\ f.status # Healthy =>
          /\ f.input # "Available"
          /\ f.stopPending <=> runs = "stopped"
          /\ runs = "running" => f.input = "PersistenceUnavailable"

LEMMA InputRecorded ==
    ASSUME NEW f \in Facade, NEW failure \in Status, NEW ownerClass,
           NEW runs \in {"running", "stopped"}, InputKept(f, runs), failure # Healthy
    PROVE  InputKept(record_facade_failure(f, failure, ownerClass), runs)
<1> DEFINE pending == f.stopPending \/ f.input = "AcceptorStopped"
           input == IF f.input = "Available" THEN "PersistenceUnavailable" ELSE f.input
           owner == IF ownerClass THEN "Stale" ELSE f.owner
           g == record_facade_failure(f, failure, ownerClass)
<1>1. CASE f.status # Healthy
  BY <1>1 DEF record_facade_failure
<1>2. CASE f.status = Healthy
  <2>1. g = [f EXCEPT !.status = failure, !.probe = "cooling", !.stopPending = pending,
                      !.input = input, !.owner = owner]
    BY <1>2, Zenon DEF record_facade_failure
  <2>2. input = IF runs = "running" THEN "PersistenceUnavailable" ELSE "AcceptorStopped"
    BY <1>2 DEF InputKept
  <2>3. pending <=> runs = "stopped"
    BY <1>2 DEF InputKept
  <2> QED
    <3> HIDE DEF g, pending, input, owner
    <3>1. g.status = failure /\ g.input = input /\ g.stopPending = pending
      BY <2>1 DEF Facade
    <3>2. g.stopPending <=> runs = "stopped"
      BY <2>3, <3>1, Zenon
    <3>3. g.status # Healthy /\ g.input # "Available"
          /\ (runs = "running" => g.input = "PersistenceUnavailable")
      BY <2>2, <3>1
    <3>4. InputKept(g, runs)
      BY <3>2, <3>3, Zenon DEF InputKept
    <3> QED BY <3>4, Zenon DEF g
<1> QED BY <1>1, <1>2

-----------------------------------------------------------------------------
(* A call and its command.                                                 *)

Awaiting == client.pc = "waiting"
Sent == client.pc \in {"sending", "waiting"}
X == client.cmd
RO == ResponseOnly(X.kind)

\* What a call has asked the client to do.
CallKept ==
    /\ life = "running"
    /\ call.pc \in {"none", "begin", "checked", "probe", "readback"} => client.pc = "idle"
    /\ call.pc = "permit" => client.pc = "permit" /\ Permitted(call.entry)
    /\ call.pc = "writing" => Sent /\ X.kind = KindOf(call.entry)
    /\ call.pc = "probing" => Sent /\ X.kind = "Probe"
    /\ call.pc = "reading" => Sent /\ X.kind = "DrainFinalization"

\* A write is sent to a healthy writer, a probe or a read-back to a degraded one; nothing
\* degrades the writer meanwhile, and a dead thread has left it degraded.
HealthKept ==
    /\ call.pc \in {"checked", "permit"} => health = Healthy
    /\ call.pc \in {"probe", "readback"} => health # Healthy
    /\ client.pc = "sending" => (RO <=> health # Healthy)
    /\ ThreadDead => health # Healthy
    /\ client.pc = "sending" /\ thread.pc = "ack" => thread.cmd.id # X.id

\* What a failure, or Healthy, says of a command is so.
Truth(failure, id) ==
    /\ outcome_of(failure) \in KnownCommitted => id \in committed
    /\ outcome_of(failure) = "NotCommitted" => id \notin committed

Result(failure) ==
    /\ failure \in Status
    /\ Truth(failure, X.id)
    /\ X.kind = "Finalize" /\ failure = Healthy => drain.durable

Unanswered == \A i \in Ids : answer[i].tag = "none"

\* Where the awaited command can be.
Queued ==
    /\ queue = <<X>> /\ Unanswered /\ X.id \notin committed
    /\ RO <=> health # Healthy
    /\ \/ thread.pc = "recv"
       \/ thread.pc = "ack" /\ health # Healthy /\ thread.cmd.id # X.id

Running ==
    /\ queue = <<>> /\ Unanswered /\ thread.cmd = X
    /\ RO <=> health # Healthy
    /\ \/ thread.pc = "execute" /\ thread.failure = Healthy /\ X.id \notin committed
       \/ thread.pc = "cleanup" /\ thread.failure = Healthy /\ X.id \in committed /\ X.kind = "Apply"
       \/ thread.pc = "publish" /\ Result(thread.failure)

\* The published failure is the command's own.
Published(failure) ==
    ~RO => /\ failure # Healthy => health # Healthy
           /\ health # Healthy => Truth(health, X.id)

Reported ==
    /\ queue = <<>> /\ Unanswered /\ thread.cmd = X /\ thread.pc = "ack"
    /\ Result(thread.failure) /\ Published(thread.failure)

Answered ==
    /\ queue = <<>> /\ thread.pc = "recv"
    /\ answer[X.id].tag = "done"
    /\ Result(answer[X.id].failure) /\ Published(answer[X.id].failure)

Dropped ==
    /\ queue = <<>> /\ thread.pc = "panicked"
    /\ answer[X.id].tag = "dropped"
    /\ Published(Healthy)

FlightKept ==
    /\ \A i \in Ids : answer[i].tag # "none" => Awaiting /\ X.id = i
    /\ Awaiting => Queued \/ Running \/ Reported \/ Answered \/ Dropped
    /\ ~Awaiting => /\ queue = <<>> /\ thread.pc \in {"recv", "ack", "panicked"}
                    /\ health = Healthy => thread.pc = "recv"
    /\ thread.pc = "ack" => thread.cmd.kind # "Shutdown"

ClaimsKept ==
    /\ Sent => claim[X.id] = "None"
    /\ client.pc = "sending" => X.id \notin committed
    /\ OutcomesTruthful

DrainKept ==
    /\ drain.published => drain.durable
    /\ drain.page => drain.durable

CallInv == CallKept /\ HealthKept /\ FlightKept /\ ClaimsKept /\ DrainKept

LEMMA InputIngested ==
    ASSUME NEW f \in Facade, NEW status \in Status,
           NEW runs \in {"running", "stopped"}, InputKept(f, runs)
    PROVE  InputKept(ingest_writer_status(f, status), runs)
<1>1. CASE status # Healthy
  <2>1. ingest_writer_status(f, status)
           = record_facade_failure(f, status, status.operation = "UpdateOwnerLocation")
    BY <1>1 DEF ingest_writer_status
  <2> QED BY <1>1, <2>1, InputRecorded
<1>2. CASE status = Healthy /\ f.status = Healthy
  BY <1>2 DEF ingest_writer_status
<1>3. CASE status = Healthy /\ f.status # Healthy
  <2> DEFINE input == IF f.stopPending THEN "AcceptorStopped"
                      ELSE IF f.input = "PersistenceUnavailable" THEN "Available" ELSE f.input
             g == Recovered(f)
  <2>1. g = [f EXCEPT !.status = Healthy, !.input = input, !.stopPending = FALSE,
                      !.probe = "none", !.markerPending = TRUE]
    BY Zenon DEF Recovered
  <2>2. input = IF runs = "running" THEN "Available" ELSE "AcceptorStopped"
    BY <1>3 DEF InputKept
  <2> HIDE DEF input, g
  <2>3. g.status = Healthy /\ g.input = input /\ ~g.stopPending
    BY <2>1 DEF Facade
  <2>4. InputKept(g, runs)
    BY <2>2, <2>3 DEF InputKept
  <2> QED BY <1>3, <2>4 DEF ingest_writer_status, g
<1> QED BY <1>1, <1>2, <1>3

LEMMA InputAsBefore ==
    ASSUME NEW f, NEW g, NEW runs, InputKept(f, runs),
           g.status = f.status, g.input = f.input, g.stopPending = f.stopPending
    PROVE  InputKept(g, runs)
BY DEF InputKept

\* A facade that knows its types and its input.
Good(f) == f \in Facade /\ InputKept(f, acceptor)

LEMMA GoodIngested ==
    ASSUME NEW f, Good(f), acceptor \in {"running", "stopped"}, NEW status \in Status
    PROVE  LET g == ingest_writer_status(f, status)
           IN  Good(g) /\ (g.status = Healthy <=> status = Healthy)
BY StatusIngested, InputIngested DEF Good

LEMMA GoodRecorded ==
    ASSUME NEW f, Good(f), acceptor \in {"running", "stopped"}, NEW failure \in Status,
           failure # Healthy, NEW ownerClass \in BOOLEAN
    PROVE  Good(record_facade_failure(f, failure, ownerClass))
BY FailureRecorded, InputRecorded DEF Good

LEMMA GoodEnded ==
    ASSUME NEW f, Good(f), UNCHANGED acceptor, NEW entry, NEW outcome, EndCall(f, entry, outcome)
    PROVE  Good(facade)' /\ call' \in Calls /\ call'.pc \in {"none", "begin"}
<1>1. f \in Facade /\ InputKept(f, acceptor)
  BY DEF Good
<1>2. /\ facade' \in Facade /\ facade'.status = f.status
      /\ call' \in Calls /\ call'.pc \in {"none", "begin"}
      /\ facade'.input = f.input /\ facade'.stopPending = f.stopPending
  BY <1>1, CallEnded
<1>3. InputKept(facade', acceptor)
  BY <1>1, <1>2, InputAsBefore
<1> QED BY <1>2, <1>3 DEF Good

LEMMA GoodSkipped ==
    ASSUME NEW f, Good(f), UNCHANGED acceptor, NEW entry, EndSkipped(f, entry)
    PROVE  Good(facade)' /\ call' \in Calls /\ call'.pc \in {"none", "begin"}
<1>1. Good(record_skip(f, entry))
  <2>1. f \in Facade /\ InputKept(f, acceptor)
    BY DEF Good
  <2>2. /\ record_skip(f, entry) \in Facade /\ record_skip(f, entry).status = f.status
        /\ record_skip(f, entry).input = f.input
        /\ record_skip(f, entry).stopPending = f.stopPending
    BY <2>1 DEF record_skip, Facade
  <2> QED BY <2>1, <2>2, InputAsBefore DEF Good
<1> QED BY <1>1, GoodEnded DEF EndSkipped

-----------------------------------------------------------------------------
(* The steps.                                                              *)

Known == TypeOK /\ CallTypes /\ Good(facade) /\ CallInv

LEMMA WriterTyped == ASSUME TypeOK, CallTypes, RNext PROVE TypeOK'
<1>1. {} \in Batches /\ {} \in SUBSET FreshEntries
  BY DEF Batches
<1>2. ASSUME NEW kind \in ClientKinds, Submit(kind, {}) PROVE ClientCommand
  BY <1>1, <1>2 DEF ClientCommand
<1>3. "Probe" \in ClientKinds /\ "DrainFinalization" \in ClientKinds
      /\ KindOf(call.entry) \in ClientKinds
  BY DEF ClientKinds, Kinds, KindOf
<1>4. ASSUME UNCHANGED vars PROVE TypeOK'
  BY <1>4 DEF TypeOK, vars
<1>5. ASSUME NEW entry, Check(entry) PROVE TypeOK'
  BY <1>4, <1>5, Zenon DEF Check
<1>6. CASE (\E entry \in Entry \ {"Marker"} : BeginCall(entry)) \/ BeginMarker
           \/ CooldownElapses \/ mark_acceptor_stopped
  BY <1>4, <1>5, <1>6, Zenon DEF BeginCall, BeginMarker, CooldownElapses, mark_acceptor_stopped
<1>7. CASE SubmitWrite \/ SubmitProbe \/ SubmitReadback
  <2>1. ClientCommand
    BY <1>2, <1>3, <1>7, Zenon DEF SubmitWrite, SubmitProbe, SubmitReadback
  <2> QED BY <2>1, ClientKeepsType
<1>8. CASE ReservePermit
  <2>1. ReserveEnqueue \/ UNCHANGED vars
    BY <1>8, Zenon DEF ReservePermit
  <2>2. CASE ReserveEnqueue
    <3>1. ClientCommand
      BY <2>2, Zenon DEF ClientCommand
    <3> QED BY <3>1, ClientKeepsType
  <2> QED BY <1>4, <2>1, <2>2
<1>9. CASE UsePermit
  <2>1. EnqueueWithPermit({}) \/ DropPermit
    BY <1>9, Zenon DEF UsePermit
  <2>2. ClientCommand
    BY <1>1, <2>1, Zenon DEF ClientCommand
  <2> QED BY <2>2, ClientKeepsType
<1>10. CASE SendStep \/ FinishWrite \/ FinishReadback \/ FinishProbe
  <2>1. Send \/ SendClosed \/ Resolve
    BY <1>10, Zenon DEF SendStep, FinishWrite, FinishReadback, FinishProbe
  <2> QED BY <2>1, ClientKeepsType
<1>11. CASE WriterStep
  BY <1>11, ThreadKeepsType DEF WriterStep
<1> QED BY <1>6, <1>7, <1>8, <1>9, <1>10, <1>11, Zenon DEF RNext, CallStep

\* Steps of the facade alone leave the writer, the claims and the drain as they are.
LEMMA FacadeStepKeeps ==
    ASSUME Known, UNCHANGED <<vars, claim, committed, drain>>,
           CallKept', HealthKept'
    PROVE  CallInv'
BY DEF Known, CallInv, FlightKept, ClaimsKept, DrainKept, vars, Awaiting, Sent, X, RO, Queued,
       Running, Reported, Answered, Dropped, Unanswered, Published, Result, Truth, OutcomesTruthful

LEMMA CheckKeeps ==
    ASSUME Known, NEW entry \in Entry, Check(entry), call.pc \in {"none", "begin"}, client.pc = "idle"
    PROVE  CallTypes' /\ Good(facade)' /\ CallInv'
<1> DEFINE f == ingest_writer_status(facade, health)
<1>0. UNCHANGED <<vars, acceptor, claim, committed, drain>>
  BY Zenon DEF Check
<1>1. Good(f) /\ (f.status = Healthy <=> health = Healthy)
  BY GoodIngested DEF Known, CallTypes, TypeOK
<1>2. unmarked' \in BOOLEAN
  BY Zenon DEF Check
<1>3. \/ f.status = Healthy /\ facade' = f /\ call' = [pc |-> "checked", entry |-> entry]
      \/ f.status # Healthy /\ facade' = f /\ call' = [pc |-> "probe", entry |-> entry]
      \/ EndSkipped(f, entry)
  BY Zenon DEF Check
<1> HIDE DEF f
<1>4. Good(facade)' /\ call' \in Calls
      /\ (call'.pc \in {"none", "begin"} \/ (call'.pc = "checked" /\ health = Healthy)
                                          \/ (call'.pc = "probe" /\ health # Healthy))
  <2>1. CASE EndSkipped(f, entry)
    BY <1>0, <1>1, <2>1, GoodSkipped
  <2>2. CASE facade' = f
    <3>1. Good(facade)'
      BY <1>0, <1>1, <2>2 DEF Good
    <3> QED BY <1>1, <1>3, <2>1, <3>1 DEF Calls
  <2> QED BY <1>3, <2>1, <2>2
<1>5. CallKept' /\ HealthKept'
  BY <1>0, <1>4 DEF Known, CallInv, CallKept, HealthKept, vars, X, RO, ThreadDead, Sent
<1>6. CallTypes'
  BY <1>0, <1>2, <1>4 DEF Known, CallTypes
<1> QED BY <1>0, <1>4, <1>5, <1>6, FacadeStepKeeps

\* Submitting a command: a fresh name, of which nothing is committed, claimed or answered.
LEMMA SubmitKeeps ==
    ASSUME Known, NEW kind \in ClientKinds, call.pc \notin {"permit", "writing", "probing", "reading"},
           Submit(kind, {}), Fresh(FreeId), UNCHANGED drain,
           ResponseOnly(kind) <=> health # Healthy
    PROVE  /\ claim' \in [Ids -> Outcomes \cup {"None"}] /\ committed' \in SUBSET Ids
           /\ UNCHANGED <<health, life, thread>> /\ client'.pc = "sending" /\ X'.kind = kind
           /\ (client.pc = "sending" => (RO <=> health # Healthy))'
           /\ (client.pc = "sending" /\ thread.pc = "ack" => thread.cmd.id # X.id)'
           /\ FlightKept' /\ ClaimsKept' /\ DrainKept'
<1>1. FreeId \in Ids /\ FreeId \notin InUse
  BY DEF Submit, HasFreeId, FreeId
<1>2. /\ client' = [pc |-> "sending", cmd |-> Cmd(FreeId, kind, {})] /\ client.pc = "idle"
      /\ UNCHANGED <<queue, thread, health, life, answer>>
  BY Zenon DEF Submit
<1>3. client'.pc = "sending" /\ X'.kind = kind /\ X'.id = FreeId
  BY <1>2 DEF X, Cmd
<1>4. claim' = [claim EXCEPT ![FreeId] = "None"] /\ committed' = committed \ {FreeId}
  BY DEF Fresh
<1>5. claim' \in [Ids -> Outcomes \cup {"None"}] /\ committed' \in SUBSET Ids
  BY <1>4 DEF Known, CallTypes
<1>6. (client.pc = "sending" => (RO <=> health # Healthy))'
  BY <1>2, <1>3 DEF RO
<1>7. (client.pc = "sending" /\ thread.pc = "ack" => thread.cmd.id # X.id)'
  BY <1>1, <1>2, <1>3 DEF InUse, ThreadBusy
<1>8. FlightKept'
  BY <1>2, <1>3 DEF Known, CallInv, FlightKept, Awaiting
<1>9. ClaimsKept'
  <2>1. claim'[FreeId] = "None" /\ \A i \in Ids : i # FreeId => claim'[i] = claim[i]
    BY <1>1, <1>4 DEF Known, CallTypes
  <2>2. "None" \notin KnownCommitted /\ "None" # "NotCommitted"
    BY DEF KnownCommitted
  <2>3. OutcomesTruthful'
    BY <1>4, <2>1, <2>2 DEF Known, CallInv, ClaimsKept, OutcomesTruthful
  <2> QED BY <1>3, <1>4, <2>1, <2>3 DEF ClaimsKept, Sent
<1>10. DrainKept'
  BY DEF Known, CallInv, DrainKept
<1> QED BY <1>2, <1>3, <1>5, <1>6, <1>7, <1>8, <1>9, <1>10

LEMMA SubmitCallsKeep ==
    ASSUME Known, SubmitWrite \/ SubmitProbe \/ SubmitReadback
    PROVE  CallTypes' /\ Good(facade)' /\ CallInv'
<1>1. "Probe" \in ClientKinds /\ "DrainFinalization" \in ClientKinds
      /\ KindOf(call.entry) \in ClientKinds
  BY DEF ClientKinds, Kinds, KindOf
<1>2. ResponseOnly("Probe") /\ ResponseOnly("DrainFinalization") /\ ~ResponseOnly(KindOf(call.entry))
  BY DEF ResponseOnly, KindOf
<1>3. UNCHANGED <<facade, acceptor, unmarked, drain>> /\ Fresh(FreeId)
  BY Zenon DEF SubmitWrite, SubmitProbe, SubmitReadback
<1>4. PICK kind \in ClientKinds, pc \in {"writing", "probing", "reading"} :
        /\ Submit(kind, {}) /\ call' = [call EXCEPT !.pc = pc]
        /\ call.pc \in {"checked", "probe", "readback"}
        /\ ResponseOnly(kind) <=> health # Healthy
        /\ \/ pc = "writing" /\ kind = KindOf(call.entry)
           \/ pc = "probing" /\ kind = "Probe"
           \/ pc = "reading" /\ kind = "DrainFinalization"
  <2>1. CASE SubmitWrite
    <3>1. /\ Submit(KindOf(call.entry), {}) /\ call' = [call EXCEPT !.pc = "writing"]
          /\ call.pc = "checked"
      BY <2>1, Zenon DEF SubmitWrite
    <3>2. health = Healthy
      BY <3>1 DEF Known, CallInv, HealthKept
    <3> QED BY <1>1, <1>2, <3>1, <3>2
  <2>2. CASE SubmitProbe
    <3>1. /\ Submit("Probe", {}) /\ call' = [call EXCEPT !.pc = "probing"]
          /\ call.pc = "probe"
      BY <2>2, Zenon DEF SubmitProbe
    <3>2. health # Healthy
      BY <3>1 DEF Known, CallInv, HealthKept
    <3> QED BY <1>1, <1>2, <3>1, <3>2
  <2>3. CASE SubmitReadback
    <3>1. /\ Submit("DrainFinalization", {}) /\ call' = [call EXCEPT !.pc = "reading"]
          /\ call.pc = "readback"
      BY <2>3, Zenon DEF SubmitReadback
    <3>2. health # Healthy
      BY <3>1 DEF Known, CallInv, HealthKept
    <3> QED BY <1>1, <1>2, <3>1, <3>2
  <2> QED BY <2>1, <2>2, <2>3
<1>5. /\ claim' \in [Ids -> Outcomes \cup {"None"}] /\ committed' \in SUBSET Ids
      /\ UNCHANGED <<health, life, thread>> /\ client'.pc = "sending" /\ X'.kind = kind
      /\ (client.pc = "sending" => (RO <=> health # Healthy))'
      /\ (client.pc = "sending" /\ thread.pc = "ack" => thread.cmd.id # X.id)'
      /\ FlightKept' /\ ClaimsKept' /\ DrainKept'
  BY <1>3, <1>4, SubmitKeeps
<1>6. call' \in Calls /\ call'.pc = pc /\ call'.entry = call.entry
  BY <1>4 DEF Known, CallTypes, Calls
<1>7. CallTypes'
  BY <1>3, <1>5, <1>6 DEF Known, CallTypes
<1>8. Good(facade)'
  BY <1>3 DEF Known, Good
<1>9. CallKept'
  BY <1>4, <1>5, <1>6 DEF Known, CallInv, CallKept, Sent
<1>10. HealthKept'
  BY <1>4, <1>5, <1>6 DEF Known, CallInv, HealthKept, ThreadDead
<1> QED BY <1>5, <1>7, <1>8, <1>9, <1>10 DEF CallInv

LEMMA SendKeeps ==
    ASSUME Known, SendStep PROVE CallTypes' /\ Good(facade)' /\ CallInv'
<1>1. /\ UNCHANGED <<facade, call, acceptor, claim, committed, unmarked, drain>>
      /\ UNCHANGED <<thread, health, life, answer>> /\ client.pc = "sending" /\ ~ThreadDead
      /\ queue' = Append(queue, client.cmd) /\ client' = [client EXCEPT !.pc = "waiting"]
  BY Zenon DEF SendStep, Send, rvars
<1>2. client'.pc = "waiting" /\ client'.cmd = client.cmd
  BY <1>1 DEF Known, TypeOK
<1>3. ~Awaiting /\ Sent
  BY <1>1 DEF Awaiting, Sent
<1>4. queue' = <<client.cmd>>
  BY <1>1, <1>3 DEF Known, CallInv, FlightKept
<1>5. CallTypes' /\ Good(facade)'
  BY <1>1 DEF Known, CallTypes, Good
<1>6. CallKept' /\ HealthKept' /\ DrainKept'
  BY <1>1, <1>2 DEF Known, CallInv, CallKept, HealthKept, DrainKept, Sent, X, ThreadDead
<1>7. ClaimsKept'
  BY <1>1, <1>2, <1>3 DEF Known, CallInv, ClaimsKept, Sent, X, OutcomesTruthful
<1>8. FlightKept'
  <2>1. Unanswered
    BY <1>3 DEF Known, CallInv, FlightKept, Unanswered
  <2>2. thread.pc = "recv" \/ (thread.pc = "ack" /\ health # Healthy /\ thread.cmd.id # X.id)
    BY <1>1, <1>3 DEF Known, CallInv, FlightKept, HealthKept, ThreadDead
  <2>3. X.id \notin committed /\ (RO <=> health # Healthy)
    BY <1>1 DEF Known, CallInv, ClaimsKept, HealthKept
  <2>4. Queued'
    BY <1>1, <1>2, <1>4, <2>1, <2>2, <2>3 DEF Queued, X, RO, Unanswered
  <2> QED BY <1>1, <1>2, <1>3, <2>1, <2>4 DEF Known, CallInv, FlightKept, Awaiting, Unanswered
<1> QED BY <1>5, <1>6, <1>7, <1>8 DEF CallInv

LEMMA ReservePermitKeeps ==
    ASSUME Known, ReservePermit PROVE CallTypes' /\ Good(facade)' /\ CallInv'
<1>1. /\ UNCHANGED <<acceptor, claim, committed, unmarked, drain>>
      /\ call.pc = "checked" /\ Permitted(call.entry) /\ (ReserveEnqueue \/ UNCHANGED vars)
      /\ \/ client'.pc = "permit" /\ call' = [call EXCEPT !.pc = "permit"] /\ UNCHANGED facade
         \/ client'.pc # "permit"
            /\ EndSkipped(ingest_writer_status(facade, health'), call.entry)
  BY Zenon DEF ReservePermit
<1>2. health = Healthy /\ ~ThreadDead /\ client.pc = "idle" /\ ~Awaiting /\ ~Sent
  BY <1>1 DEF Known, CallInv, CallKept, HealthKept, Awaiting, Sent
<1>3. /\ UNCHANGED <<health, thread, queue, life, answer>>
      /\ client'.pc \in {"idle", "permit"}
  BY <1>1, <1>2 DEF ReserveEnqueue, vars, Known, TypeOK
<1>4. Good(facade)' /\ call' \in Calls
      /\ (call'.pc \in {"none", "begin"} \/ (call'.pc = "permit" /\ client'.pc = "permit"
                                            /\ call'.entry = call.entry))
      /\ (call'.pc \in {"none", "begin"} => client'.pc = "idle")
  <2>1. CASE client'.pc = "permit"
    BY <1>1, <2>1 DEF Known, CallTypes, Calls, Good
  <2>2. CASE client'.pc # "permit"
    <3>1. Good(ingest_writer_status(facade, health'))
      BY <1>3, GoodIngested DEF Known, CallTypes, TypeOK
    <3>2. EndSkipped(ingest_writer_status(facade, health'), call.entry)
      BY <1>1, <2>2
    <3> QED BY <1>1, <1>3, <2>2, <3>1, <3>2, GoodSkipped
  <2> QED BY <2>1, <2>2
<1>5. CallTypes'
  BY <1>1, <1>4 DEF Known, CallTypes
<1>6. CallKept' /\ HealthKept' /\ DrainKept'
  BY <1>1, <1>2, <1>3, <1>4 DEF Known, CallInv, CallKept, HealthKept, DrainKept, ThreadDead
<1>7. ClaimsKept'
  BY <1>1, <1>2, <1>3 DEF Known, CallInv, ClaimsKept, Sent, OutcomesTruthful
<1>8. FlightKept'
  BY <1>2, <1>3 DEF Known, CallInv, FlightKept, Awaiting
<1> QED BY <1>4, <1>5, <1>6, <1>7, <1>8 DEF CallInv

LEMMA UsePermitKeeps ==
    ASSUME Known, UsePermit PROVE CallTypes' /\ Good(facade)' /\ CallInv'
<1> DEFINE f == ingest_writer_status(facade, health)
<1>1. call.pc = "permit" /\ UNCHANGED <<acceptor, unmarked, drain>>
  BY Zenon DEF UsePermit
<1>2. health = Healthy /\ ~ThreadDead /\ client.pc = "permit" /\ Permitted(call.entry)
      /\ ~Awaiting /\ ~Sent /\ life = "running"
  BY <1>1 DEF Known, CallInv, CallKept, HealthKept, Awaiting, Sent
<1>3. EnqueueWithPermit({}) /\ Fresh(FreeId) /\ facade' = f /\ call' = [call EXCEPT !.pc = "writing"]
  BY <1>2, Zenon DEF UsePermit
<1>4. Good(f)
  BY GoodIngested DEF Known, CallTypes, TypeOK
<1>5. FreeId \in Ids /\ UNCHANGED <<thread, health, life, answer>>
      /\ client' = [pc |-> "waiting", cmd |-> Cmd(FreeId, "Apply", {})]
      /\ queue' = Append(queue, Cmd(FreeId, "Apply", {}))
  BY <1>3 DEF EnqueueWithPermit, HasFreeId, FreeId
<1>6. client'.pc = "waiting" /\ X' = Cmd(FreeId, "Apply", {}) /\ X'.id = FreeId /\ X'.kind = "Apply"
  BY <1>5 DEF X, Cmd
<1>7. queue' = <<X'>>
  <2>1. queue = <<>>
    BY <1>2 DEF Known, CallInv, FlightKept
  <2> QED BY <1>5, <1>6, <2>1
<1>8. claim' = [claim EXCEPT ![FreeId] = "None"] /\ committed' = committed \ {FreeId}
  BY <1>3 DEF Fresh
<1>9. claim' \in [Ids -> Outcomes \cup {"None"}] /\ committed' \in SUBSET Ids
  BY <1>8 DEF Known, CallTypes
<1>10. call' \in Calls /\ call'.pc = "writing" /\ call'.entry = call.entry
  BY <1>3 DEF Known, CallTypes, Calls
<1>11. CallTypes' /\ Good(facade)'
  BY <1>1, <1>3, <1>4, <1>9, <1>10 DEF Known, CallTypes, Good
<1>12. CallKept'
  <2>1. KindOf(call.entry) = "Apply"
    BY <1>2 DEF Permitted, KindOf
  <2> QED BY <1>2, <1>5, <1>6, <1>10, <2>1 DEF CallKept, Sent
<1>13. HealthKept' /\ DrainKept'
  BY <1>1, <1>2, <1>5, <1>6, <1>10 DEF Known, CallInv, HealthKept, DrainKept, ThreadDead
<1>14. ClaimsKept'
  <2>1. claim'[FreeId] = "None" /\ \A i \in Ids : i # FreeId => claim'[i] = claim[i]
    BY <1>5, <1>8 DEF Known, CallTypes
  <2>2. "None" \notin KnownCommitted /\ "None" # "NotCommitted"
    BY DEF KnownCommitted
  <2>3. OutcomesTruthful'
    BY <1>8, <2>1, <2>2 DEF Known, CallInv, ClaimsKept, OutcomesTruthful
  <2> QED BY <1>6, <2>1, <2>3 DEF ClaimsKept, Sent
<1>15. FlightKept'
  <2>1. Unanswered /\ thread.pc = "recv"
    BY <1>2 DEF Known, CallInv, FlightKept, Unanswered
  <2>2. ~RO'
    BY <1>6 DEF RO, ResponseOnly
  <2>3. Queued'
    BY <1>2, <1>5, <1>6, <1>7, <1>8, <2>1, <2>2 DEF Queued, Unanswered
  <2> QED BY <1>5, <1>6, <2>1, <2>3 DEF FlightKept, Awaiting, Unanswered
<1> QED BY <1>11, <1>12, <1>13, <1>14, <1>15 DEF CallInv

LEMMA OutcomeOf ==
    /\ outcome_of(Healthy) = "Durable"
    /\ \A failure \in Failure :
          /\ outcome_of(failure) # "Durable"
          /\ failure.durability \in {"NotCommitted", "NotApplicable"}
                => outcome_of(failure) = "NotCommitted"
          /\ failure.durability = "Committed" => outcome_of(failure) = "CommittedButDegraded"
          /\ failure.durability = "Unknown" => outcome_of(failure) = "DurabilityUnknown"
    /\ \A failure : outcome_of(failure) \in Outcomes
<1>1. outcome_of(Healthy) = "Durable"
  <2>1. Healthy.durability # "Committed" /\ Healthy.durability # "Unknown"
    BY DEF Healthy
  <2> QED BY <2>1, Zenon DEF outcome_of
<1>2. ASSUME NEW failure
      PROVE  /\ failure # Healthy =>
                  /\ failure.durability = "Committed" => outcome_of(failure) = "CommittedButDegraded"
                  /\ failure.durability = "Unknown" => outcome_of(failure) = "DurabilityUnknown"
                  /\ failure.durability \notin {"Committed", "Unknown"}
                        => outcome_of(failure) = "NotCommitted"
             /\ outcome_of(failure) \in {"Durable", "CommittedButDegraded", "DurabilityUnknown",
                                        "NotCommitted"}
  <2>1. CASE failure = Healthy
    BY <1>1, <2>1
  <2>2. CASE failure # Healthy /\ failure.durability = "Committed"
    <3>1. failure.durability # "Unknown"
      BY <2>2
    <3>2. outcome_of(failure) = "CommittedButDegraded"
      BY <2>2, <3>1, Zenon DEF outcome_of
    <3> QED BY <2>2, <3>2
  <2>3. CASE failure # Healthy /\ failure.durability = "Unknown"
    <3>1. failure.durability # "Committed"
      BY <2>3
    <3>2. outcome_of(failure) = "DurabilityUnknown"
      BY <2>3, <3>1, Zenon DEF outcome_of
    <3> QED BY <2>3, <3>2
  <2>4. CASE failure # Healthy /\ failure.durability # "Committed" /\ failure.durability # "Unknown"
    <3>1. outcome_of(failure) = "NotCommitted"
      BY <2>4, Zenon DEF outcome_of
    <3> QED BY <2>4, <3>1
  <2> QED BY <2>1, <2>2, <2>3, <2>4
<1>3. Outcomes = {"Durable", "CommittedButDegraded", "NotCommitted", "DurabilityUnknown", "Skipped"}
  BY DEF Outcomes
<1> QED BY <1>1, <1>2, <1>3, HealthyIsNoFailure

\* A wait that returns leaves the health as it was: a dropped answer comes from a dead thread,
\* and that one has degraded the writer already.
LEMMA ReturnKeeps ==
    ASSUME Known, Resolve \/ SendClosed
    PROVE  /\ UNCHANGED <<health, thread, queue, life>> /\ client'.pc = "idle" /\ Sent
           /\ FlightKept'
<1>1. UNCHANGED <<thread, queue, life>> /\ client' = IdleClient /\ Sent
  BY DEF Resolve, SendClosed, WaitOver, Sent
<1>2. client'.pc = "idle"
  BY <1>1 DEF IdleClient
<1>3. CASE SendClosed
  <2>1. ThreadDead /\ client.pc = "sending" /\ UNCHANGED answer
        /\ health' = publish_failure(health, SendFailure)
    BY <1>3 DEF SendClosed
  <2>2. health # Healthy
    BY <2>1 DEF Known, CallInv, HealthKept
  <2>3. UNCHANGED health
    BY <2>1, <2>2 DEF publish_failure
  <2> QED BY <1>1, <1>2, <2>1, <2>3 DEF Known, CallInv, FlightKept, Awaiting
<1>4. CASE Resolve
  <2>1. WaitOver /\ Awaiting /\ health' = HealthAfterWait
        /\ answer' = [answer EXCEPT ![X.id] = NoAnswer]
    BY <1>4 DEF Resolve, WaitOver, Awaiting, X
  <2>2. X.id \in Ids /\ X.kind \in Kinds
    BY DEF Known, TypeOK, X, Command
  <2>3. Reported \/ Answered \/ Dropped
    <3>1. CASE Queued \/ Running
      BY <2>1, <2>2, <3>1 DEF Queued, Running, Unanswered, WaitOver, Reply, X, RO
    <3> QED BY <2>1, <3>1 DEF Known, CallInv, FlightKept
  <2>4. UNCHANGED health
    <3>1. CASE Dropped
      <4>1. health # Healthy
        BY <3>1 DEF Dropped, Known, CallInv, HealthKept, ThreadDead
      <4> QED BY <2>1, <4>1 DEF HealthAfterWait, publish_failure
    <3>2. CASE Reported \/ Answered
      <4>1. Reply.tag # "dropped"
        BY <2>2, <3>2 DEF Reported, Answered, Unanswered, Reply, X
      <4> QED BY <2>1, <4>1 DEF HealthAfterWait
    <3> QED BY <2>3, <3>1, <3>2
  <2>5. queue = <<>> /\ thread.pc \in {"recv", "ack", "panicked"}
        /\ (health = Healthy => thread.pc = "recv")
    <3>1. CASE Reported
      <4>1. health # Healthy
        BY <2>1, <2>2, <3>1 DEF Reported, Unanswered, WaitOver, Reply, X
      <4> QED BY <3>1, <4>1 DEF Reported
    <3>2. CASE Answered
      BY <3>2 DEF Answered
    <3>3. CASE Dropped
      BY <3>3 DEF Dropped, Known, CallInv, HealthKept, ThreadDead
    <3> QED BY <2>3, <3>1, <3>2, <3>3
  <2>6. \A i \in Ids : answer'[i].tag = "none"
    BY <2>1, <2>2 DEF Known, CallInv, FlightKept, TypeOK, NoAnswer
  <2> QED BY <1>1, <1>2, <2>4, <2>5, <2>6 DEF Known, CallInv, FlightKept, Awaiting
<1> QED BY <1>1, <1>2, <1>3, <1>4

\* What the wait for a write returns is so, whether it is the answer, the published failure or
\* the refusal of a closed channel.
LEMMA ReturnedTruthfully ==
    ASSUME Known, Resolve \/ SendClosed, ~RO
    PROVE  Result(ReturnedFailure) /\ (ReturnedFailure # Healthy => health # Healthy)
<1>0. X.id \in Ids /\ X.kind \in Kinds
  BY DEF Known, TypeOK, X, Command
<1>1. CASE SendClosed
  <2>1. client.pc = "sending" /\ ThreadDead /\ ReturnedFailure = queue_failure(Operation(X.kind))
    BY <1>1 DEF SendClosed, ReturnedFailure, SendFailure, X
  <2>2. ReturnedFailure \in Failure
        /\ ReturnedFailure.durability \in {"NotCommitted", "NotApplicable"}
    <3>1. ReturnedFailure \in Failure
      BY <1>0, <2>1, FailureTypes
    <3> QED BY <2>1, <3>1 DEF queue_failure
  <2>3. outcome_of(ReturnedFailure) = "NotCommitted" /\ ReturnedFailure # Healthy
    BY <2>2, OutcomeOf, HealthyIsNoFailure
  <2>4. X.id \notin committed /\ health # Healthy
    BY <2>1 DEF Known, CallInv, ClaimsKept, HealthKept
  <2> QED BY <2>2, <2>3, <2>4 DEF Result, Truth, KnownCommitted, Status
<1>2. CASE Resolve
  <2>1. WaitOver /\ Awaiting /\ ReturnedFailure = WaitFailure
    BY <1>2 DEF Resolve, WaitOver, Awaiting, ReturnedFailure
  <2>2. Reported \/ Answered \/ Dropped
    <3>1. CASE Queued \/ Running
      BY <1>0, <2>1, <3>1 DEF Queued, Running, Unanswered, WaitOver, Reply, X, RO
    <3> QED BY <2>1, <3>1 DEF Known, CallInv, FlightKept
  <2>3. CASE Answered
    <3>1. ReturnedFailure = answer[X.id].failure
      BY <2>1, <2>3 DEF Answered, WaitFailure, Reply, X
    <3> QED BY <2>3, <3>1 DEF Answered, Published
  <2>4. CASE Reported \/ Dropped
    <3>1. health # Healthy
      <4>1. CASE Reported
        BY <1>0, <2>1, <4>1 DEF Reported, Unanswered, WaitOver, Reply, X
      <4>2. CASE Dropped
        BY <4>2 DEF Dropped, Known, CallInv, HealthKept, ThreadDead
      <4> QED BY <2>4, <4>1, <4>2
    <3>2. HealthAfterWait = health
      BY <3>1 DEF HealthAfterWait, publish_failure
    <3>3. Reply.tag # "done"
      BY <1>0, <2>4 DEF Reported, Dropped, Unanswered, Reply, X
    <3>4. ReturnedFailure = health
      BY <2>1, <3>2, <3>3 DEF WaitFailure, RO, X
    <3>5. Truth(health, X.id)
      BY <2>4, <3>1 DEF Reported, Dropped, Published
    <3>6. health \in Status
      BY DEF Known, TypeOK
    <3> QED BY <3>1, <3>4, <3>5, <3>6 DEF Result
  <2> QED BY <2>2, <2>3, <2>4
<1> QED BY <1>1, <1>2

\* The end of a call that leaves the facade good.
LEMMA EndKeeps ==
    ASSUME Known, Resolve \/ SendClosed, UNCHANGED <<acceptor, committed>>, unmarked' \in BOOLEAN,
           Good(facade)', call' \in Calls,
           \/ call'.pc \in {"none", "begin"}
           \/ call'.pc = "readback" /\ health # Healthy,
           claim' \in [Ids -> Outcomes \cup {"None"}], OutcomesTruthful',
           drain' \in Drains, DrainKept'
    PROVE  CallTypes' /\ Good(facade)' /\ CallInv'
<1>1. /\ UNCHANGED <<health, thread, queue, life>> /\ client'.pc = "idle" /\ Sent
      /\ FlightKept'
  BY ReturnKeeps
<1>2. CallTypes'
  BY DEF Known, CallTypes
<1>3. CallKept' /\ HealthKept' /\ ClaimsKept'
  BY <1>1 DEF Known, CallInv, CallKept, HealthKept, ClaimsKept, Sent, ThreadDead
<1> QED BY <1>1, <1>2, <1>3 DEF CallInv

LEMMA FinishKeeps ==
    ASSUME Known, FinishWrite \/ FinishReadback \/ FinishProbe
    PROVE  CallTypes' /\ Good(facade)' /\ CallInv'
<1>0. Resolve \/ SendClosed
  BY Zenon DEF FinishWrite, FinishReadback, FinishProbe
<1>1. UNCHANGED <<health, thread>> /\ Sent /\ X.id \in Ids /\ X.kind \in Kinds
  BY <1>0, ReturnKeeps DEF Known, TypeOK, X, Command
<1>2. CASE FinishWrite
  <2> DEFINE outcome == outcome_of(ReturnedFailure)
             owned == call.entry = "OwnerLocation"
             f == IF ReturnedFailure = Healthy THEN facade
                  ELSE record_facade_failure(facade, ReturnedFailure, owned)
  <2>1. /\ call.pc = "writing" /\ UNCHANGED <<acceptor, committed, unmarked>>
        /\ claim' = [claim EXCEPT ![X.id] = outcome]
        /\ \/ NeedsReadback(call.entry, outcome) /\ facade' = f
              /\ call' = [call EXCEPT !.pc = "readback"]
           \/ EndCall(f, call.entry, outcome)
        /\ drain' = IF call.entry = "Finalize" /\ outcome = "Durable"
                    THEN [drain EXCEPT !.published = TRUE] ELSE drain
    BY <1>2, Zenon DEF FinishWrite, X
  <2>2. X.kind = KindOf(call.entry) /\ ~RO
    <3>1. X.kind = KindOf(call.entry)
      BY <2>1 DEF Known, CallInv, CallKept
    <3> QED BY <3>1 DEF RO, ResponseOnly, KindOf
  <2>3. Result(ReturnedFailure) /\ (ReturnedFailure # Healthy => health # Healthy)
    BY <1>0, <2>2, ReturnedTruthfully
  <2>4. Good(f)
    <3>1. CASE ReturnedFailure = Healthy
      BY <3>1 DEF Known
    <3>2. CASE ReturnedFailure # Healthy
      <4>1. owned \in BOOLEAN
        BY Zenon
      <4>2. ReturnedFailure \in Status /\ Good(facade) /\ acceptor \in {"running", "stopped"}
        BY <2>3 DEF Result, Known, CallTypes
      <4> HIDE DEF owned
      <4> QED BY <3>2, <4>1, <4>2, GoodRecorded
    <3> QED BY <3>1, <3>2
  <2>5. outcome \in Outcomes
        /\ (outcome \in KnownCommitted => X.id \in committed)
        /\ (outcome = "NotCommitted" => X.id \notin committed)
    BY <2>3, OutcomeOf DEF Result, Truth
  <2> HIDE DEF f, outcome
  <2>6. Good(facade)' /\ call' \in Calls
        /\ (call'.pc \in {"none", "begin"} \/ (call'.pc = "readback" /\ health # Healthy))
    <3>1. CASE EndCall(f, call.entry, outcome)
      <4>1. UNCHANGED acceptor
        BY <2>1
      <4> QED BY <2>4, <3>1, <4>1, GoodEnded
    <3>2. CASE NeedsReadback(call.entry, outcome) /\ facade' = f
               /\ call' = [call EXCEPT !.pc = "readback"]
      <4>1. outcome # "Durable"
        BY <3>2 DEF NeedsReadback
      <4>2. health # Healthy
        BY <2>3, <4>1, OutcomeOf DEF outcome
      <4> QED BY <2>1, <2>4, <3>2, <4>2 DEF Good, Known, CallTypes, Calls
    <3> QED BY <2>1, <3>1, <3>2
  <2>7. claim' \in [Ids -> Outcomes \cup {"None"}]
        /\ claim'[X.id] = outcome /\ \A i \in Ids : i # X.id => claim'[i] = claim[i]
    BY <1>1, <2>1, <2>5 DEF Known, CallTypes
  <2>8. OutcomesTruthful'
    BY <2>1, <2>5, <2>7 DEF Known, CallInv, ClaimsKept, OutcomesTruthful
  <2>9. drain' \in Drains /\ DrainKept'
    <3>1. CASE call.entry = "Finalize" /\ outcome = "Durable"
      <4>1. ReturnedFailure = Healthy
        BY <2>3, <3>1, OutcomeOf DEF outcome, Result, Status
      <4>2. X.kind = "Finalize"
        BY <2>2, <3>1 DEF KindOf
      <4>3. drain.durable
        BY <2>3, <4>1, <4>2 DEF Result
      <4>4. drain' = [drain EXCEPT !.published = TRUE]
        BY <2>1, <3>1
      <4> QED BY <4>3, <4>4 DEF Known, CallTypes, Drains, DrainKept
    <3>2. CASE ~(call.entry = "Finalize" /\ outcome = "Durable")
      BY <2>1, <3>2 DEF Known, CallTypes, CallInv, DrainKept
    <3> QED BY <3>1, <3>2
  <2>10. unmarked' \in BOOLEAN
    BY <2>1 DEF Known, CallTypes
  <2> QED BY <1>0, <2>1, <2>6, <2>7, <2>8, <2>9, <2>10, EndKeeps
<1>3. CASE FinishReadback
  <2>1. /\ UNCHANGED <<acceptor, claim, committed, unmarked>>
        /\ EndCall(facade, call.entry, "Skipped")
        /\ drain' = IF ReturnedFailure = Healthy /\ drain.page
                    THEN [drain EXCEPT !.published = TRUE] ELSE drain
    BY <1>3, Zenon DEF FinishReadback
  <2>2. Good(facade)' /\ call' \in Calls /\ call'.pc \in {"none", "begin"}
    BY <2>1, GoodEnded DEF Known
  <2>3. drain' \in Drains /\ DrainKept'
    BY <2>1 DEF Known, CallTypes, Drains, CallInv, DrainKept
  <2>4. unmarked' \in BOOLEAN /\ claim' \in [Ids -> Outcomes \cup {"None"}] /\ OutcomesTruthful'
    BY <2>1 DEF Known, CallTypes, CallInv, ClaimsKept, OutcomesTruthful
  <2> QED BY <1>0, <2>1, <2>2, <2>3, <2>4, EndKeeps
<1>4. CASE FinishProbe
  <2> DEFINE seen == ingest_writer_status(facade, health')
             f == IF ReturnedFailure # Healthy /\ seen.status # Healthy
                  THEN [seen EXCEPT !.probe = "cooling"] ELSE seen
  <2>1. /\ UNCHANGED <<acceptor, claim, committed, drain>>
        /\ EndSkipped(f, call.entry)
        /\ unmarked' = (unmarked \/ EndsOutage(facade, health'))
    BY <1>4, Zenon DEF FinishProbe
  <2>2. Good(seen)
    BY <1>1, GoodIngested DEF Known, CallTypes, TypeOK
  <2> HIDE DEF seen
  <2>3. Good(f)
    <3>1. seen \in Facade /\ InputKept(seen, acceptor)
      BY <2>2 DEF Good
    <3>2. /\ f \in Facade /\ f.status = seen.status
          /\ f.input = seen.input /\ f.stopPending = seen.stopPending
      BY <3>1 DEF Facade
    <3> QED BY <3>1, <3>2, InputAsBefore DEF Good
  <2> HIDE DEF f
  <2>4. Good(facade)' /\ call' \in Calls /\ call'.pc \in {"none", "begin"}
    BY <2>1, <2>3, GoodSkipped
  <2>5. unmarked' \in BOOLEAN
    BY <2>1, Zenon
  <2>6. claim' \in [Ids -> Outcomes \cup {"None"}] /\ OutcomesTruthful'
        /\ drain' \in Drains /\ DrainKept'
    BY <2>1 DEF Known, CallTypes, CallInv, ClaimsKept, OutcomesTruthful, DrainKept
  <2> QED BY <1>0, <2>1, <2>4, <2>5, <2>6, EndKeeps
<1> QED BY <1>2, <1>3, <1>4

\* What a step of the thread leaves to the call and its claims.
LEMMA ThreadFrame ==
    ASSUME Known, WriterStep
    PROVE  /\ UNCHANGED <<client, life, facade, call, acceptor, claim>>
           /\ X' = X /\ (RO' <=> RO) /\ (Sent' <=> Sent) /\ (Awaiting' <=> Awaiting)
           /\ X \in Command /\ X.id \in Ids /\ X.kind \in Kinds
           /\ unmarked' \in BOOLEAN
<1>1. UNCHANGED <<client, life, facade, call, acceptor, claim>>
  BY DEF WriterStep, ThreadStep, Receive, ExecuteOk, ExecuteFails, PostApplyCleanup,
         PostApplyCleanupFails, Publish, KeepUnpublished, Acknowledge, AcknowledgeShutdown, Panic
<1>2. unmarked' \in BOOLEAN
  <2>1. unmarked' = (unmarked /\ ~(Commits /\ call.entry = "Marker" /\ call.pc = "writing"
                                           /\ thread.cmd.id = client.cmd.id))
    BY Zenon DEF WriterStep
  <2> QED BY <2>1, Zenon
<1> QED BY <1>1, <1>2 DEF X, RO, Sent, Awaiting, Known, TypeOK, Command

\* A step of the thread that commits nothing.
LEMMA IdleStepFrame ==
    ASSUME Known, WriterStep, ~Commits PROVE UNCHANGED <<committed, drain>>
<1>1. /\ committed' = IF Commits THEN committed \cup {thread.cmd.id} ELSE committed
      /\ drain' = CASE Commits /\ thread.cmd.kind = "Finalize" -> [drain EXCEPT !.durable = TRUE]
                    [] Commits /\ thread.cmd.kind = "DrainFinalization" ->
                          [drain EXCEPT !.page = drain.durable]
                    [] OTHER -> drain
  BY Zenon DEF WriterStep
<1>2. committed' = committed
  BY <1>1
<1>3. drain' = drain
  <2> HIDE DEF Commits
  <2> QED BY <1>1, Zenon
<1> QED BY <1>2, <1>3

LEMMA ThreadStepEnds ==
    ASSUME Known, WriterStep, FlightKept',
           committed' \in SUBSET Ids, OutcomesTruthful', drain' \in Drains, DrainKept',
           \A i \in Ids : i \in committed' => i \in committed \/ Awaiting,
           ~Awaiting => (UNCHANGED health /\ thread'.pc = "recv"),
           Awaiting /\ ThreadDead' => health' # Healthy
    PROVE  CallTypes' /\ Good(facade)' /\ CallInv'
<1>1. /\ UNCHANGED <<client, life, facade, call, acceptor, claim>>
      /\ X' = X /\ (RO' <=> RO) /\ (Sent' <=> Sent) /\ (Awaiting' <=> Awaiting)
      /\ X \in Command /\ X.id \in Ids /\ X.kind \in Kinds
      /\ unmarked' \in BOOLEAN
  BY ThreadFrame
<1>2. CallTypes' /\ Good(facade)'
  BY <1>1 DEF Known, CallTypes, Good
<1>3. CallKept'
  BY <1>1 DEF Known, CallInv, CallKept
<1>4. HealthKept'
  <2>1. Awaiting => call.pc \notin {"checked", "permit", "probe", "readback"}
    BY DEF Known, CallInv, CallKept, Awaiting
  <2>2. CASE Awaiting
    BY <1>1, <2>1, <2>2 DEF HealthKept, Awaiting
  <2>3. CASE ~Awaiting
    BY <1>1, <2>3 DEF Known, CallInv, HealthKept, ThreadDead
  <2> QED BY <2>2, <2>3
<1>5. ClaimsKept'
  BY <1>1 DEF Known, CallInv, ClaimsKept, Awaiting
<1> QED BY <1>2, <1>3, <1>4, <1>5 DEF CallInv

\* Steps that commit nothing and answer through the thread.
LEMMA QuietStepKeeps ==
    ASSUME Known, WriterStep, ~Commits, FlightKept',
           ~Awaiting => (UNCHANGED health /\ thread'.pc = "recv"),
           Awaiting /\ ThreadDead' => health' # Healthy
    PROVE  CallTypes' /\ Good(facade)' /\ CallInv'
<1>1. UNCHANGED <<committed, drain, claim>>
  BY IdleStepFrame, ThreadFrame
<1>2. committed' \in SUBSET Ids /\ OutcomesTruthful' /\ drain' \in Drains /\ DrainKept'
      /\ \A i \in Ids : i \in committed' => i \in committed \/ Awaiting
  BY <1>1 DEF Known, CallTypes, CallInv, ClaimsKept, OutcomesTruthful, DrainKept
<1> QED BY <1>2, ThreadStepEnds

LEMMA ReceiveKeeps ==
    ASSUME Known, WriterStep, Receive PROVE CallTypes' /\ Good(facade)' /\ CallInv'
<1>1. thread.pc = "recv" /\ queue # <<>> /\ queue' = Tail(queue)
      /\ thread' = [pc |-> "execute", cmd |-> Head(queue), failure |-> Healthy, deleted |-> {}]
      /\ UNCHANGED <<health, answer>>
  BY Zenon DEF Receive
<1>2. Awaiting /\ Queued
  BY <1>1 DEF Known, CallInv, FlightKept, Running, Reported, Answered, Dropped
<1>3. queue = <<X>>
  BY <1>2 DEF Queued
<1>4. queue' = <<>> /\ thread'.cmd = X /\ thread'.pc = "execute" /\ thread'.failure = Healthy
  BY <1>1, <1>3
<1>5. ~Commits
  BY <1>1 DEF Commits
<1>6. /\ X' = X /\ (RO' <=> RO) /\ (Awaiting' <=> Awaiting) /\ UNCHANGED <<client, committed>>
  BY <1>5, ThreadFrame, IdleStepFrame
<1>7. Running'
  BY <1>1, <1>2, <1>4, <1>6 DEF Running, Queued, Unanswered
<1>8. FlightKept'
  BY <1>1, <1>2, <1>4, <1>6, <1>7 DEF FlightKept, Queued, Unanswered
<1>9. ~ThreadDead'
  BY <1>4 DEF ThreadDead
<1> QED BY <1>2, <1>5, <1>8, <1>9, QuietStepKeeps

\* The thread works on the awaited command.
LEMMA WorkingOn ==
    ASSUME Known, thread.pc \in {"execute", "cleanup", "publish"}
    PROVE  Awaiting /\ Running
BY DEF Known, CallInv, FlightKept, Queued, Reported, Answered, Dropped

LEMMA ExecuteOkKeeps ==
    ASSUME Known, WriterStep, ExecuteOk PROVE CallTypes' /\ Good(facade)' /\ CallInv'
<1>1. thread.pc = "execute" /\ UNCHANGED <<queue, health, answer>>
  BY Zenon DEF ExecuteOk
<1>2. Awaiting /\ Running
  BY <1>1, WorkingOn
<1>3. thread.cmd = X /\ thread.failure = Healthy
  BY <1>1, <1>2 DEF Running
<1>4. thread'.cmd = X /\ thread'.failure = Healthy
      /\ \/ thread'.pc = "cleanup" /\ X.kind = "Apply"
         \/ thread'.pc = "publish"
  <2>1. \E deleted : \/ thread' = [thread EXCEPT !.pc = "cleanup"] /\ X.kind = "Apply"
                     \/ thread' = [thread EXCEPT !.pc = "publish", !.deleted = deleted]
                     \/ thread' = [thread EXCEPT !.pc = "publish"]
    BY <1>3, Zenon DEF ExecuteOk
  <2> QED BY <1>3, <2>1 DEF Known, TypeOK
<1>5. Commits
  BY <1>1, <1>4 DEF Commits
<1>6. UNCHANGED <<client, claim>> /\ X' = X /\ (RO' <=> RO) /\ (Awaiting' <=> Awaiting)
      /\ X.id \in Ids
  BY ThreadFrame
<1>7. committed' = committed \cup {X.id}
  BY <1>3, <1>5 DEF WriterStep
<1>8. /\ X.kind = "Finalize" => drain' = [drain EXCEPT !.durable = TRUE]
      /\ X.kind = "DrainFinalization" => drain' = [drain EXCEPT !.page = drain.durable]
      /\ X.kind \notin {"Finalize", "DrainFinalization"} => drain' = drain
  <2>1. drain' = CASE Commits /\ thread.cmd.kind = "Finalize" -> [drain EXCEPT !.durable = TRUE]
                   [] Commits /\ thread.cmd.kind = "DrainFinalization" ->
                         [drain EXCEPT !.page = drain.durable]
                   [] OTHER -> drain
    BY Zenon DEF WriterStep
  <2> HIDE DEF Commits
  <2>2. CASE X.kind = "Finalize"
    <3>1. X.kind # "DrainFinalization"
      BY <2>2
    <3> QED BY <1>3, <1>5, <2>1, <2>2, <3>1, Zenon
  <2>3. CASE X.kind = "DrainFinalization"
    <3>1. X.kind # "Finalize"
      BY <2>3
    <3> QED BY <1>3, <1>5, <2>1, <2>3, <3>1, Zenon
  <2>4. CASE X.kind \notin {"Finalize", "DrainFinalization"}
    <3>1. X.kind # "Finalize" /\ X.kind # "DrainFinalization"
      BY <2>4
    <3> QED BY <1>3, <2>1, <3>1, Zenon
  <2> QED BY <2>2, <2>3, <2>4
<1>9. drain' \in Drains /\ DrainKept' /\ (X.kind = "Finalize" => drain'.durable)
  BY <1>8 DEF Known, CallTypes, CallInv, DrainKept, Drains
<1>10. OutcomesTruthful' /\ committed' \in SUBSET Ids
  <2>1. claim[X.id] = "None"
    BY <1>2 DEF Known, CallInv, ClaimsKept, Awaiting, Sent
  <2>2. "None" \notin KnownCommitted
    BY DEF KnownCommitted
  <2> QED BY <1>6, <1>7, <2>1, <2>2
       DEF Known, CallTypes, CallInv, ClaimsKept, OutcomesTruthful
<1>11. Running'
  <2>1. Result(Healthy)'
    BY <1>6, <1>7, <1>9, OutcomeOf DEF Result, Truth, Status
  <2> QED BY <1>1, <1>2, <1>4, <1>6, <1>7, <2>1 DEF Running, Unanswered
<1>12. FlightKept'
  BY <1>1, <1>2, <1>4, <1>6, <1>11 DEF FlightKept, Running, Unanswered
<1>13. ~ThreadDead'
  BY <1>4 DEF ThreadDead
<1> QED BY <1>2, <1>9, <1>10, <1>12, <1>13, ThreadStepEnds

LEMMA FailingStepsKeep ==
    ASSUME Known, WriterStep, ExecuteFails \/ PostApplyCleanup \/ PostApplyCleanupFails
    PROVE  CallTypes' /\ Good(facade)' /\ CallInv'
<1>1. thread.pc \in {"execute", "cleanup"} /\ UNCHANGED <<queue, health, answer>>
  BY Zenon DEF ExecuteFails, PostApplyCleanup, PostApplyCleanupFails
<1>2. Awaiting /\ Running
  BY <1>1, WorkingOn
<1>3. thread.cmd = X /\ X \in Command /\ X.kind \in Kinds
  BY <1>1, <1>2, ThreadFrame DEF Running
<1>4. PICK failure \in Status :
        /\ thread'.pc = "publish" /\ thread'.cmd = X /\ thread'.failure = failure
        /\ Truth(failure, X.id) /\ ~(X.kind = "Finalize" /\ failure = Healthy)
        /\ thread.pc = "cleanup" \/ failure # Healthy
  <2>1. CASE ExecuteFails
    <3> DEFINE failure == execution_failure(X.kind)
    <3>1. thread.pc = "execute" /\ thread' = [thread EXCEPT !.pc = "publish", !.failure = failure]
      BY <1>3, <2>1 DEF ExecuteFails
    <3>2. failure \in Failure
      BY <1>3, FailureTypes
    <3>3. failure.durability \in {"NotCommitted", "NotApplicable"}
      BY DEF execution_failure
    <3>4. outcome_of(failure) = "NotCommitted"
      BY <3>2, <3>3, OutcomeOf
    <3>5. X.id \notin committed
      BY <1>2, <3>1 DEF Running
    <3> HIDE DEF failure
    <3>6. thread'.pc = "publish" /\ thread'.cmd = X /\ thread'.failure = failure
      BY <1>3, <3>1 DEF Known, TypeOK
    <3>7. Truth(failure, X.id) /\ failure # Healthy /\ failure \in Status
      BY <3>2, <3>4, <3>5, HealthyIsNoFailure DEF Truth, KnownCommitted, Status
    <3> QED BY <3>6, <3>7
  <2>2. CASE PostApplyCleanup
    <3>1. thread.pc = "cleanup"
          /\ thread' = [thread EXCEPT !.pc = "publish", !.deleted = Expired(ledger)]
      BY <2>2 DEF PostApplyCleanup
    <3>2. X.id \in committed /\ X.kind = "Apply" /\ thread.failure = Healthy
      BY <1>2, <3>1 DEF Running
    <3>3. thread'.pc = "publish" /\ thread'.cmd = X /\ thread'.failure = Healthy
      BY <1>3, <3>1, <3>2 DEF Known, TypeOK
    <3>4. Truth(Healthy, X.id)
      BY <3>2, OutcomeOf DEF Truth
    <3> QED BY <3>1, <3>2, <3>3, <3>4, HealthyIsNoFailure
  <2>3. CASE PostApplyCleanupFails
    <3>1. thread.pc = "cleanup"
          /\ thread' = [thread EXCEPT !.pc = "publish", !.failure = post_apply_failure]
      BY <2>3 DEF PostApplyCleanupFails
    <3>2. X.id \in committed /\ X.kind = "Apply"
      BY <1>2, <3>1 DEF Running
    <3>3. thread'.pc = "publish" /\ thread'.cmd = X /\ thread'.failure = post_apply_failure
      BY <1>3, <3>1 DEF Known, TypeOK
    <3>4. post_apply_failure \in Failure /\ post_apply_failure.durability = "Committed"
      BY ConstantFailureTypes DEF post_apply_failure
    <3>5. outcome_of(post_apply_failure) = "CommittedButDegraded"
      BY <3>4, OutcomeOf
    <3>6. Truth(post_apply_failure, X.id)
      BY <3>2, <3>5 DEF Truth
    <3> QED BY <3>1, <3>2, <3>3, <3>4, <3>6 DEF Status
  <2> QED BY <2>1, <2>2, <2>3
<1>5. ~Commits
  BY <1>4 DEF Commits
<1>6. /\ X' = X /\ (RO' <=> RO) /\ (Awaiting' <=> Awaiting) /\ UNCHANGED <<client, committed, drain>>
  BY <1>5, ThreadFrame, IdleStepFrame
<1>7. Running'
  <2>1. Result(failure)'
    BY <1>4, <1>6 DEF Result, Truth
  <2> QED BY <1>1, <1>2, <1>4, <1>6, <2>1 DEF Running, Unanswered
<1>8. FlightKept'
  BY <1>1, <1>2, <1>4, <1>6, <1>7 DEF FlightKept, Running, Unanswered
<1>9. ~ThreadDead'
  BY <1>4 DEF ThreadDead
<1> QED BY <1>2, <1>5, <1>8, <1>9, QuietStepKeeps

\* Publishing degrades a healthy writer with the failure of the awaited command itself.
LEMMA PublishKeeps ==
    ASSUME Known, WriterStep, Publish \/ KeepUnpublished
    PROVE  CallTypes' /\ Good(facade)' /\ CallInv'
<1>1. thread.pc = "publish" /\ thread' = [thread EXCEPT !.pc = "ack"] /\ UNCHANGED <<queue, answer>>
  BY Zenon DEF Publish, KeepUnpublished
<1>2. Awaiting /\ Running
  BY <1>1, WorkingOn
<1>3. thread.cmd = X /\ Result(thread.failure)
  BY <1>1, <1>2 DEF Running
<1>4. thread'.pc = "ack" /\ thread'.cmd = X /\ thread'.failure = thread.failure
  BY <1>1, <1>3 DEF Known, TypeOK
<1>5. ~Commits
  BY <1>1 DEF Commits
<1>6. /\ X' = X /\ (RO' <=> RO) /\ (Awaiting' <=> Awaiting) /\ UNCHANGED <<client, committed, drain>>
  BY <1>5, ThreadFrame, IdleStepFrame
<1>7. ~RO => health' = thread.failure
  <2>1. ASSUME ~RO PROVE health = Healthy
    BY <1>2, <2>1 DEF Running
  <2>2. ASSUME ~RO PROVE X.kind # "Probe" /\ X.kind # "DrainFinalized"
    BY <2>2 DEF RO, ResponseOnly
  <2> QED BY <1>3, <2>1, <2>2 DEF Publish, KeepUnpublished, publish_failure
<1>8. Published(thread.failure)'
  BY <1>3, <1>4, <1>6, <1>7 DEF Published, Result, Truth
<1>9. Reported'
  BY <1>1, <1>2, <1>3, <1>4, <1>6, <1>8 DEF Reported, Running, Unanswered, Result, Truth
<1>10. thread'.cmd.kind # "Shutdown"
  <2>1. X.kind # "Shutdown"
    BY <1>2 DEF Known, CallInv, CallKept, KindOf, Awaiting, Known, CallTypes, Calls
  <2> QED BY <1>4, <2>1
<1>11. FlightKept'
  BY <1>1, <1>2, <1>4, <1>6, <1>9, <1>10 DEF FlightKept, Running, Unanswered
<1>12. ~ThreadDead'
  BY <1>4 DEF ThreadDead
<1> QED BY <1>2, <1>5, <1>11, <1>12, QuietStepKeeps

\* The answer reaches the waiter of this command and no other.
LEMMA AcknowledgeKeeps ==
    ASSUME Known, WriterStep, Acknowledge PROVE CallTypes' /\ Good(facade)' /\ CallInv'
<1>1. thread.pc = "ack" /\ thread' = IdleThread /\ UNCHANGED <<queue, health>>
      /\ answer' = IF Awaited(thread.cmd.id)
                   THEN [answer EXCEPT ![thread.cmd.id] = Done] ELSE answer
  BY Zenon DEF Acknowledge
<1>2. thread'.pc = "recv"
  BY <1>1 DEF IdleThread
<1>3. ~Commits
  BY <1>1 DEF Commits
<1>4. /\ X' = X /\ (RO' <=> RO) /\ (Awaiting' <=> Awaiting) /\ UNCHANGED <<client, committed, drain>>
      /\ X.id \in Ids
  BY <1>3, ThreadFrame, IdleStepFrame
<1>5. Awaited(thread.cmd.id) <=> Awaiting /\ thread.cmd.id = X.id
  BY DEF Known, CallInv, CallKept, Awaited, Awaiting, X
<1>6. CASE Awaiting /\ Queued
  <2>1. UNCHANGED answer
    BY <1>1, <1>5, <1>6 DEF Queued
  <2>2. Queued'
    BY <1>1, <1>2, <1>4, <1>6, <2>1 DEF Queued, Unanswered
  <2>3. FlightKept'
    BY <1>2, <1>4, <1>6, <2>1, <2>2 DEF FlightKept, Queued, Unanswered
  <2> QED BY <1>2, <1>3, <1>6, <2>3, QuietStepKeeps DEF ThreadDead
<1>7. CASE Awaiting /\ Reported
  <2>1. thread.cmd = X
    BY <1>7 DEF Reported
  <2>2. answer' = [answer EXCEPT ![X.id] = Done]
    BY <1>1, <1>5, <1>7, <2>1
  <2>3. answer'[X.id].tag = "done" /\ answer'[X.id].failure = thread.failure
        /\ \A i \in Ids : i # X.id => answer'[i] = answer[i]
    BY <1>4, <2>2 DEF Done, Known, TypeOK
  <2>4. Result(thread.failure) /\ Published(thread.failure) /\ queue = <<>>
    BY <1>7 DEF Reported
  <2>5. Answered'
    BY <1>1, <1>2, <1>4, <2>3, <2>4 DEF Answered, Result, Published, Truth
  <2>6. FlightKept'
    BY <1>2, <1>4, <1>7, <2>3, <2>5 DEF FlightKept, Reported, Unanswered
  <2> QED BY <1>2, <1>3, <1>7, <2>6, QuietStepKeeps DEF ThreadDead
<1>8. CASE ~Awaiting
  <2>1. UNCHANGED answer
    BY <1>1, <1>5, <1>8
  <2>2. FlightKept'
    BY <1>1, <1>2, <1>4, <1>8, <2>1 DEF Known, CallInv, FlightKept
  <2> QED BY <1>1, <1>2, <1>3, <1>8, <2>2, QuietStepKeeps DEF ThreadDead
<1>9. Awaiting => Queued \/ Reported
  BY <1>1 DEF Known, CallInv, FlightKept, Running, Answered, Dropped
<1> QED BY <1>6, <1>7, <1>8, <1>9

\* A panic leaves the writer degraded, and says of a guarded command that nobody knows.
LEMMA PanicKeeps ==
    ASSUME Known, WriterStep, Panic PROVE CallTypes' /\ Good(facade)' /\ CallInv'
<1>1. /\ thread.pc \in {"execute", "cleanup"} /\ queue' = <<>>
      /\ health' = IF ThreadGuarded(thread.cmd.kind)
                   THEN publish_failure(health,
                           acknowledgement_failure(Operation(thread.cmd.kind)))
                   ELSE health
      /\ answer' = DropAnswers(QueuedIds \cup {thread.cmd.id})
      /\ thread' = [IdleThread EXCEPT !.pc = "panicked"]
  BY Zenon DEF Panic
<1>2. Awaiting /\ Running
  BY <1>1, WorkingOn
<1>3. thread.cmd = X /\ queue = <<>> /\ Unanswered
  BY <1>1, <1>2 DEF Running
<1>4. thread'.pc = "panicked"
  BY <1>1 DEF IdleThread
<1>5. ~Commits
  BY <1>4 DEF Commits
<1>6. /\ X' = X /\ (RO' <=> RO) /\ (Awaiting' <=> Awaiting) /\ UNCHANGED <<client, committed, drain>>
      /\ X.id \in Ids /\ X.kind \in Kinds
  BY <1>5, ThreadFrame, IdleStepFrame
<1>7. answer'[X.id].tag = "dropped" /\ \A i \in Ids : i # X.id => answer'[i] = answer[i]
  <2>1. QueuedIds = {}
    BY <1>3 DEF QueuedIds
  <2>2. Awaited(X.id)
    BY <1>2 DEF Awaited, Awaiting, X
  <2> QED BY <1>1, <1>3, <1>6, <2>1, <2>2 DEF DropAnswers, DroppedAnswer
<1>8. RO => health # Healthy /\ health' = health
  BY <1>1, <1>2 DEF Running, publish_failure
<1>9. ~RO => health' # Healthy /\ Truth(health', X.id)
  <2> SUFFICES ASSUME ~RO PROVE health' # Healthy /\ Truth(health', X.id)
    OBVIOUS
  <2> DEFINE failure == acknowledgement_failure(Operation(X.kind))
  <2>1. X.kind \in {"Apply", "Cleanup", "UpdateOwner", "Finalize"}
    <3>1. call.pc = "writing"
      BY <1>2 DEF Known, CallInv, CallKept, Awaiting, CallTypes, Calls, RO, ResponseOnly
    <3>2. X.kind = KindOf(call.entry)
      BY <3>1 DEF Known, CallInv, CallKept
    <3> QED BY <3>2 DEF KindOf
  <2>2. ThreadGuarded(X.kind) /\ Operation(X.kind) \in Mutating
    BY <2>1 DEF ThreadGuarded, Operation, Mutating
  <2>3. failure \in Failure /\ failure.durability = "Unknown"
    <3>1. failure \in Failure
      BY <1>6, FailureTypes
    <3> QED BY <2>2, <3>1 DEF acknowledgement_failure
  <2>4. health = Healthy
    BY <1>2 DEF Running
  <2>5. health' = failure
    BY <1>1, <1>3, <2>2, <2>4 DEF publish_failure
  <2>6. outcome_of(failure) = "DurabilityUnknown" /\ failure # Healthy
    BY <2>3, OutcomeOf, HealthyIsNoFailure
  <2> QED BY <2>5, <2>6 DEF Truth, KnownCommitted
<1>10. Dropped'
  BY <1>1, <1>4, <1>6, <1>7, <1>9 DEF Dropped, Published, Truth
<1>11. FlightKept'
  BY <1>2, <1>3, <1>4, <1>6, <1>7, <1>10 DEF FlightKept, Unanswered
<1> QED BY <1>2, <1>5, <1>8, <1>9, <1>11, QuietStepKeeps

LEMMA WriterStepKeeps ==
    ASSUME Known, WriterStep PROVE CallTypes' /\ Good(facade)' /\ CallInv'
<1>1. ThreadStep
  BY DEF WriterStep
<1>2. ~AcknowledgeShutdown
  BY DEF AcknowledgeShutdown, Known, CallInv, FlightKept
<1> QED BY <1>1, <1>2, ReceiveKeeps, ExecuteOkKeeps, FailingStepsKeep, PublishKeeps,
           AcknowledgeKeeps, PanicKeeps, Zenon DEF ThreadStep

LEMMA TimersKeep ==
    ASSUME Known, CooldownElapses \/ mark_acceptor_stopped
    PROVE  CallTypes' /\ Good(facade)' /\ CallInv'
<1>1. UNCHANGED <<vars, call, claim, committed, unmarked, drain>>
  BY Zenon DEF CooldownElapses, mark_acceptor_stopped
<1>2. CallKept' /\ HealthKept'
  BY <1>1 DEF Known, CallInv, CallKept, HealthKept, vars, X, RO, ThreadDead, Sent
<1>3. CallInv'
  BY <1>1, <1>2, FacadeStepKeeps
<1>4. facade \in Facade /\ InputKept(facade, acceptor) /\ acceptor \in {"running", "stopped"}
  BY DEF Known, Good, CallTypes
<1>5. CASE CooldownElapses
  <2>1. facade' = [facade EXCEPT !.probe = "due"] /\ UNCHANGED acceptor
    BY <1>5 DEF CooldownElapses
  <2>2. facade' \in Facade /\ facade'.status = facade.status /\ facade'.input = facade.input
        /\ facade'.stopPending = facade.stopPending
    BY <1>4, <2>1 DEF Facade
  <2>3. Good(facade)'
    BY <1>4, <2>1, <2>2, InputAsBefore DEF Good
  <2> QED BY <1>1, <1>3, <2>1, <2>3 DEF Known, CallTypes
<1>6. CASE mark_acceptor_stopped
  <2>1. acceptor = "running" /\ acceptor' = "stopped"
        /\ facade' = IF facade.status = Healthy THEN [facade EXCEPT !.input = "AcceptorStopped"]
                     ELSE [facade EXCEPT !.stopPending = TRUE]
    BY <1>6, Zenon DEF mark_acceptor_stopped
  <2>2. facade' \in Facade
    BY <1>4, <2>1 DEF Facade
  <2>3. InputKept(facade', "stopped")
    <3>1. CASE facade.status = Healthy
      <4>1. facade'.status = Healthy /\ facade'.input = "AcceptorStopped"
            /\ facade'.stopPending = facade.stopPending
        BY <1>4, <2>1, <3>1 DEF Facade
      <4>2. ~facade.stopPending
        BY <1>4, <3>1 DEF InputKept
      <4> QED BY <4>1, <4>2 DEF InputKept
    <3>2. CASE facade.status # Healthy
      <4>1. facade'.status # Healthy /\ facade'.input = facade.input /\ facade'.stopPending = TRUE
        BY <1>4, <2>1, <3>2 DEF Facade
      <4>2. facade.input # "Available"
        BY <1>4, <3>2 DEF InputKept
      <4> QED BY <4>1, <4>2 DEF InputKept
    <3> QED BY <3>1, <3>2
  <2>4. Good(facade)'
    BY <2>1, <2>2, <2>3 DEF Good
  <2> QED BY <1>1, <1>3, <2>1, <2>4 DEF Known, CallTypes
<1> QED BY <1>5, <1>6

LEMMA KnownInit == RInit => Known
<1> SUFFICES ASSUME RInit PROVE Known
  OBVIOUS
<1>1. Init /\ TypeOK
  BY TypeInit DEF RInit
<1>2. /\ queue = <<>> /\ thread.pc = "recv" /\ health = Healthy /\ client.pc = "idle"
      /\ life = "running" /\ \A i \in Ids : answer[i].tag = "none"
  BY <1>1 DEF Init, IdleThread, IdleClient, NoAnswer
<1>3. /\ call.pc = "none" /\ call \in Calls /\ acceptor = "running"
      /\ claim = [i \in Ids |-> "None"] /\ committed = {} /\ unmarked = FALSE
      /\ drain = [durable |-> FALSE, page |-> FALSE, published |-> FALSE]
  BY DEF RInit, NoCall, Calls, Entry
<1>4. CallTypes
  BY <1>3 DEF CallTypes, Drains
<1>5. Good(facade)
  <2>1. facade = [status |-> Healthy, probe |-> "none", stopPending |-> FALSE,
                  markerPending |-> FALSE, input |-> "Available", owner |-> "Current"]
    BY DEF RInit
  <2>2. facade \in Facade /\ facade.status = Healthy /\ facade.input = "Available"
        /\ facade.stopPending = FALSE
    BY <2>1, HealthyIsNoFailure DEF Facade
  <2> QED BY <1>3, <2>2 DEF Good, InputKept
<1>6. CallKept /\ HealthKept /\ FlightKept /\ DrainKept
  BY <1>2, <1>3 DEF CallKept, HealthKept, FlightKept, DrainKept, Awaiting, ThreadDead
<1>7. ClaimsKept
  BY <1>2, <1>3 DEF ClaimsKept, Sent, OutcomesTruthful, KnownCommitted
<1> QED BY <1>1, <1>4, <1>5, <1>6, <1>7 DEF Known, CallInv

LEMMA KnownStep == ASSUME Known, [RNext]_allvars PROVE Known'
<1>1. CASE RNext
  <2>1. TypeOK'
    BY <1>1, WriterTyped DEF Known
  <2>2. CASE \E entry \in Entry \ {"Marker"} : BeginCall(entry)
    BY <2>1, <2>2, CheckKeeps DEF BeginCall, Known
  <2>3. CASE BeginMarker
    <3>1. "Marker" \in Entry
      BY DEF Entry
    <3>2. client.pc = "idle" /\ call.pc = "begin" /\ Check("Marker")
      BY <2>3 DEF BeginMarker, Known, CallInv, CallKept
    <3> QED BY <2>1, <3>1, <3>2, CheckKeeps DEF Known
  <2>4. CASE CallStep /\ ~BeginMarker
    BY <2>1, <2>4, SubmitCallsKeep, ReservePermitKeeps, UsePermitKeeps, SendKeeps, FinishKeeps,
       Zenon DEF CallStep, Known
  <2>5. CASE CooldownElapses \/ mark_acceptor_stopped
    BY <2>1, <2>5, TimersKeep, Zenon DEF Known
  <2>6. CASE WriterStep
    BY <2>1, <2>6, WriterStepKeeps, Zenon DEF Known
  <2> QED BY <1>1, <2>2, <2>3, <2>4, <2>5, <2>6, Zenon DEF RNext
<1>2. CASE UNCHANGED allvars
  <2>1. UNCHANGED <<vars, facade, call, acceptor, claim, committed, unmarked, drain>>
    BY <1>2 DEF allvars, rvars
  <2>2. TypeOK'
    BY <2>1 DEF Known, TypeOK, vars
  <2>3. CallTypes' /\ Good(facade)'
    BY <2>1 DEF Known, CallTypes, Good
  <2>4. CallKept' /\ HealthKept'
    BY <2>1 DEF Known, CallInv, CallKept, HealthKept, vars, X, RO, ThreadDead, Sent
  <2>5. CallInv'
    BY <2>1, <2>4, FacadeStepKeeps
  <2> QED BY <2>2, <2>3, <2>5 DEF Known
<1> QED BY <1>1, <1>2

\* The types of the facade over the writer (RuntimePersistence, PersistenceRecovery and the
\* writer's own, which a facade never takes out of its types).
THEOREM PersistenceTypes == RSpec => []RTypeOK
<1>1. Known => RTypeOK
  BY TypeParts DEF Known, Good
<1> QED BY KnownInit, KnownStep, <1>1, PTL DEF RSpec

\* What the process says of its persistence is so for any commands, faults and outages, in any
\* order: a write reported durable is in the database and one reported not committed is not,
\* although the waiter may return on the published failure before the thread has answered
\* (classify_result); input is available exactly while the facade is healthy and the acceptor
\* runs (record_facade_failure, mark_acceptor_stopped); and a history finalization is published
\* only when it is in the database, also when it had to be read back.
THEOREM ReportsAreTruthful == RSpec => []ReportsTruthful
<1>1. Known => ReportsTruthful
  <2> SUFFICES ASSUME Known PROVE ReportsTruthful
    OBVIOUS
  <2>1. OutcomesTruthful /\ PublishedDrainIsDurable
    BY DEF Known, CallInv, ClaimsKept, DrainKept, PublishedDrainIsDurable
  <2>2. InputKept(facade, acceptor) /\ acceptor \in {"running", "stopped"}
    BY DEF Known, Good, CallTypes
  <2>3. InputReflectsOwner
    BY <2>2 DEF InputKept, InputReflectsOwner
  <2> QED BY <2>1, <2>3 DEF ReportsTruthful
<1> QED BY KnownInit, KnownStep, <1>1, PTL DEF RSpec

-----------------------------------------------------------------------------
(* The gap marker of a finished outage.                                    *)

\* A marker that is in the database while its call still waits has paid for the outage.
MarkerKept ==
    /\ unmarked => MarkerOwed
    /\ call.entry = "Marker" /\ call.pc = "writing" /\ X.id \in committed
          => facade.markerPending \/ ~unmarked

\* The facade forgets a pending marker only by starting its call, and takes it back when the
\* call was skipped or failed.
LEMMA EndOwes ==
    ASSUME NEW f \in Facade, NEW entry, NEW outcome, EndCall(f, entry, outcome)
    PROVE  /\ f.markerPending => MarkerOwed'
           /\ entry = "Marker" /\ outcome \notin KnownCommitted => MarkerOwed'
           /\ call'.pc \in {"none", "begin"}
<1>1. CASE entry = "Marker"
  <2> DEFINE pending == f.markerPending \/ outcome \notin KnownCommitted
  <2>1. facade' = [f EXCEPT !.markerPending = pending] /\ call' = NoCall
    BY <1>1, Zenon DEF EndCall
  <2>2. pending \in BOOLEAN
    BY Zenon
  <2>3. f.markerPending \/ outcome \notin KnownCommitted => pending
    OBVIOUS
  <2> HIDE DEF pending
  <2>4. facade'.markerPending = pending
    BY <2>1, <2>2 DEF Facade
  <2> QED BY <2>1, <2>3, <2>4, Zenon DEF MarkerOwed, NoCall
<1>2. CASE entry # "Marker"
  <2>1. \/ call' = [pc |-> "begin", entry |-> "Marker"]
        \/ facade' = f /\ call' = NoCall
    BY <1>2 DEF EndCall
  <2>2. call'.pc \in {"none", "begin"}
    BY <2>1 DEF NoCall
  <2>3. f.markerPending => MarkerOwed'
    BY <2>1 DEF MarkerOwed
  <2> QED BY <1>2, <2>2, <2>3
<1> QED BY <1>1, <1>2

LEMMA IngestOwes ==
    ASSUME NEW f \in Facade, NEW status \in Status
    PROVE  f.markerPending \/ EndsOutage(f, status) => ingest_writer_status(f, status).markerPending
<1>1. CASE status # Healthy
  <2>1. ingest_writer_status(f, status)
           = record_facade_failure(f, status, status.operation = "UpdateOwnerLocation")
    BY <1>1 DEF ingest_writer_status
  <2>2. record_facade_failure(f, status, status.operation = "UpdateOwnerLocation").markerPending
           = f.markerPending
    BY DEF record_facade_failure, Facade
  <2> QED BY <1>1, <2>1, <2>2 DEF EndsOutage
<1>2. CASE status = Healthy
  <2>1. Recovered(f).markerPending = TRUE
    BY DEF Recovered, Facade
  <2> QED BY <1>2, <2>1 DEF ingest_writer_status, EndsOutage
<1> QED BY <1>1, <1>2

LEMMA CheckOwes ==
    ASSUME Known, MarkerKept, NEW entry \in Entry, Check(entry),
           call.pc = "none" \/ (call.pc = "begin" /\ entry = "Marker")
    PROVE  MarkerKept'
<1> DEFINE f == ingest_writer_status(facade, health)
<1>1. /\ \/ facade' = f /\ call' = [pc |-> "checked", entry |-> entry]
         \/ facade' = f /\ call' = [pc |-> "probe", entry |-> entry]
         \/ EndSkipped(f, entry)
      /\ unmarked' = (unmarked \/ EndsOutage(facade, health))
  BY Zenon DEF Check
<1>2. facade \in Facade /\ health \in Status
  BY DEF Known, Good, TypeOK
<1>3. f \in Facade
  BY <1>2, StatusIngested
<1>4. facade.markerPending \/ EndsOutage(facade, health) => f.markerPending
  BY <1>2, IngestOwes
<1> HIDE DEF f
<1>5. unmarked' => f.markerPending \/ entry = "Marker"
  <2>1. unmarked => facade.markerPending \/ entry = "Marker"
    BY DEF MarkerKept, MarkerOwed
  <2> QED BY <1>1, <1>4, <2>1, Zenon
<1>6. CASE EndSkipped(f, entry)
  <2>1. /\ record_skip(f, entry) \in Facade
        /\ record_skip(f, entry).markerPending = f.markerPending
    BY <1>3 DEF record_skip, Facade
  <2>2. EndCall(record_skip(f, entry), entry, "Skipped") /\ "Skipped" \notin KnownCommitted
    BY <1>6 DEF EndSkipped, KnownCommitted
  <2>3. (f.markerPending => MarkerOwed') /\ (entry = "Marker" => MarkerOwed')
        /\ call'.pc \in {"none", "begin"}
    BY <2>1, <2>2, EndOwes
  <2> QED BY <1>5, <2>3 DEF MarkerKept
<1>7. CASE facade' = f /\ call'.pc \in {"checked", "probe"} /\ call'.entry = entry
  BY <1>5, <1>7 DEF MarkerKept, MarkerOwed
<1> QED BY <1>1, <1>6, <1>7

LEMMA SubmitOwes ==
    ASSUME Known, MarkerKept, SubmitWrite \/ SubmitProbe \/ SubmitReadback
    PROVE  MarkerKept'
<1>1. UNCHANGED <<facade, unmarked>> /\ Fresh(FreeId) /\ call.pc # "none"
      /\ \E pc \in {"writing", "probing", "reading"} : call' = [call EXCEPT !.pc = pc]
  BY Zenon DEF SubmitWrite, SubmitProbe, SubmitReadback
<1>2. call'.pc # "none" /\ call'.entry = call.entry
  BY <1>1 DEF Known, CallTypes, Calls
<1>3. X'.id \notin committed'
  <2>1. \E kind : Submit(kind, {})
    BY Zenon DEF SubmitWrite, SubmitProbe, SubmitReadback
  <2>2. X'.id = FreeId
    BY <2>1 DEF Submit, X, Cmd
  <2> QED BY <1>1, <2>2 DEF Fresh
<1> QED BY <1>1, <1>2, <1>3 DEF MarkerKept, MarkerOwed

LEMMA PermitOwes ==
    ASSUME Known, MarkerKept, ReservePermit \/ UsePermit
    PROVE  MarkerKept'
<1>1. UNCHANGED unmarked
  BY Zenon DEF ReservePermit, UsePermit
<1>2. Permitted(call.entry) /\ health = Healthy /\ call.pc # "none"
  BY DEF ReservePermit, UsePermit, Known, CallInv, CallKept, HealthKept
<1>3. unmarked => facade.markerPending
  BY <1>2 DEF MarkerKept, MarkerOwed, Permitted
<1>4. facade \in Facade /\ health' \in Status /\ health \in Status
  BY WriterTyped DEF Known, Good, TypeOK, RNext, CallStep
<1>5. ASSUME NEW status \in Status, EndSkipped(ingest_writer_status(facade, status), call.entry)
      PROVE  MarkerKept'
  <2> DEFINE f == ingest_writer_status(facade, status)
  <2>1. f \in Facade /\ (facade.markerPending => f.markerPending)
    BY <1>4, StatusIngested, IngestOwes
  <2> HIDE DEF f
  <2>2. record_skip(f, call.entry) \in Facade
        /\ record_skip(f, call.entry).markerPending = f.markerPending
    BY <2>1 DEF record_skip, Facade
  <2>3. EndCall(record_skip(f, call.entry), call.entry, "Skipped")
    BY <1>5 DEF EndSkipped, f
  <2>4. (f.markerPending => MarkerOwed') /\ call'.pc \in {"none", "begin"}
    BY <2>2, <2>3, EndOwes
  <2> QED BY <1>1, <1>3, <2>1, <2>4 DEF MarkerKept
<1>6. ASSUME call'.entry = call.entry, facade.markerPending => facade'.markerPending
      PROVE  MarkerKept'
  BY <1>1, <1>2, <1>3, <1>6 DEF MarkerKept, MarkerOwed, Permitted
<1>7. CASE ReservePermit
  <2>1. \/ call' = [call EXCEPT !.pc = "permit"] /\ UNCHANGED facade
        \/ EndSkipped(ingest_writer_status(facade, health'), call.entry)
    BY <1>7, Zenon DEF ReservePermit
  <2>2. CASE call' = [call EXCEPT !.pc = "permit"] /\ UNCHANGED facade
    BY <1>6, <2>2 DEF Known, CallTypes, Calls
  <2> QED BY <1>4, <1>5, <2>1, <2>2
<1>8. CASE UsePermit
  <2>1. facade' = ingest_writer_status(facade, health) /\ call' = [call EXCEPT !.pc = "writing"]
    BY <1>2, <1>8, Zenon DEF UsePermit
  <2>2. facade.markerPending => facade'.markerPending
    BY <1>4, <2>1, IngestOwes
  <2>3. call'.entry = call.entry
    BY <2>1 DEF Known, CallTypes, Calls
  <2> QED BY <1>6, <2>2, <2>3
<1> QED BY <1>7, <1>8

LEMMA FinishOwes ==
    ASSUME Known, MarkerKept, FinishWrite \/ FinishReadback \/ FinishProbe
    PROVE  MarkerKept'
<1>0. Resolve \/ SendClosed
  BY Zenon DEF FinishWrite, FinishReadback, FinishProbe
<1>1. facade \in Facade /\ health' \in Status /\ unmarked \in BOOLEAN
  BY WriterTyped DEF Known, Good, CallTypes, TypeOK, RNext, CallStep
<1>2. call.pc # "none"
  BY DEF FinishWrite, FinishReadback, FinishProbe
<1>3. unmarked => facade.markerPending \/ call.entry = "Marker"
  BY DEF MarkerKept, MarkerOwed
<1>4. CASE FinishWrite
  <2> DEFINE outcome == outcome_of(ReturnedFailure)
             owned == call.entry = "OwnerLocation"
             f == IF ReturnedFailure = Healthy THEN facade
                  ELSE record_facade_failure(facade, ReturnedFailure, owned)
  <2>1. /\ call.pc = "writing" /\ UNCHANGED <<committed, unmarked>>
        /\ \/ NeedsReadback(call.entry, outcome) /\ facade' = f
              /\ call' = [call EXCEPT !.pc = "readback"]
           \/ EndCall(f, call.entry, outcome)
    BY <1>4, Zenon DEF FinishWrite
  <2>2. ~RO
    BY <2>1 DEF Known, CallInv, CallKept, RO, ResponseOnly, KindOf
  <2>3. Result(ReturnedFailure)
    BY <1>0, <2>2, ReturnedTruthfully
  <2>4. f \in Facade /\ f.markerPending = facade.markerPending
    <3>1. owned \in BOOLEAN /\ ReturnedFailure \in Status
      BY <2>3, Zenon DEF Result
    <3> HIDE DEF owned
    <3>2. record_facade_failure(facade, ReturnedFailure, owned) \in Facade
      BY <1>1, <3>1, FailureRecorded
    <3>3. record_facade_failure(facade, ReturnedFailure, owned).markerPending = facade.markerPending
      BY <1>1 DEF record_facade_failure, Facade
    <3> QED BY <1>1, <3>2, <3>3
  <2>5. outcome \in KnownCommitted => X.id \in committed
    BY <2>3 DEF Result, Truth
  <2> HIDE DEF f, outcome
  <2>6. CASE EndCall(f, call.entry, outcome)
    <3>1. /\ f.markerPending => MarkerOwed'
          /\ call.entry = "Marker" /\ outcome \notin KnownCommitted => MarkerOwed'
          /\ call'.pc \in {"none", "begin"}
      BY <2>4, <2>6, EndOwes
    <3>2. unmarked => MarkerOwed'
      BY <1>3, <2>1, <2>4, <2>5, <3>1 DEF MarkerKept
    <3> QED BY <2>1, <3>1, <3>2 DEF MarkerKept
  <2>7. CASE NeedsReadback(call.entry, outcome) /\ facade' = f
             /\ call' = [call EXCEPT !.pc = "readback"]
    <3>1. call'.pc = "readback" /\ call.entry # "Marker"
      BY <2>7 DEF NeedsReadback, Known, CallTypes, Calls
    <3> QED BY <1>3, <2>1, <2>4, <2>7, <3>1 DEF MarkerKept, MarkerOwed
  <2> QED BY <2>1, <2>6, <2>7
<1>5. CASE FinishReadback
  <2>1. UNCHANGED unmarked /\ EndCall(facade, call.entry, "Skipped") /\ "Skipped" \notin KnownCommitted
    BY <1>5 DEF FinishReadback, KnownCommitted
  <2>2. /\ facade.markerPending => MarkerOwed'
        /\ call.entry = "Marker" => MarkerOwed'
        /\ call'.pc \in {"none", "begin"}
    BY <1>1, <2>1, EndOwes
  <2> QED BY <1>3, <2>1, <2>2 DEF MarkerKept
<1>6. CASE FinishProbe
  <2> DEFINE seen == ingest_writer_status(facade, health')
             f == IF ReturnedFailure # Healthy /\ seen.status # Healthy
                  THEN [seen EXCEPT !.probe = "cooling"] ELSE seen
  <2>1. EndSkipped(f, call.entry) /\ unmarked' = (unmarked \/ EndsOutage(facade, health'))
    BY <1>6, Zenon DEF FinishProbe
  <2>2. seen \in Facade
        /\ (facade.markerPending \/ EndsOutage(facade, health') => seen.markerPending)
    BY <1>1, StatusIngested, IngestOwes
  <2> HIDE DEF seen
  <2>3. f \in Facade /\ f.markerPending = seen.markerPending
    BY <2>2 DEF Facade
  <2> HIDE DEF f
  <2>4. /\ record_skip(f, call.entry) \in Facade
        /\ record_skip(f, call.entry).markerPending = f.markerPending
    BY <2>3 DEF record_skip, Facade
  <2>5. EndCall(record_skip(f, call.entry), call.entry, "Skipped") /\ "Skipped" \notin KnownCommitted
    BY <2>1 DEF EndSkipped, KnownCommitted
  <2>6. (f.markerPending => MarkerOwed') /\ (call.entry = "Marker" => MarkerOwed')
        /\ call'.pc \in {"none", "begin"}
    BY <2>4, <2>5, EndOwes
  <2>7. unmarked' => f.markerPending \/ call.entry = "Marker"
    BY <1>3, <2>1, <2>2, <2>3, Zenon
  <2> QED BY <2>6, <2>7 DEF MarkerKept
<1> QED BY <1>4, <1>5, <1>6

LEMMA WriterStepOwes == ASSUME Known, MarkerKept, WriterStep PROVE MarkerKept'
<1>1. UNCHANGED <<facade, call, client>> /\ X' = X
  BY ThreadFrame
<1>2. committed' = IF Commits THEN committed \cup {thread.cmd.id} ELSE committed
  BY DEF WriterStep
<1>3. unmarked' <=> unmarked /\ ~(Commits /\ call.entry = "Marker" /\ call.pc = "writing"
                                          /\ thread.cmd.id = client.cmd.id)
  BY Zenon DEF WriterStep
<1>4. MarkerOwed' <=> MarkerOwed
  BY <1>1 DEF MarkerOwed
<1>5. call.entry = "Marker" /\ call.pc = "writing" /\ X.id \in committed'
        => facade.markerPending \/ ~unmarked'
  <2> HIDE DEF Commits
  <2> QED BY <1>2, <1>3 DEF MarkerKept, X
<1> QED BY <1>1, <1>3, <1>4, <1>5 DEF MarkerKept

LEMMA MarkerStep == ASSUME Known, MarkerKept, [RNext]_allvars PROVE MarkerKept'
<1>1. ASSUME UNCHANGED <<call, client, committed, unmarked>>, UNCHANGED facade.markerPending
      PROVE  MarkerKept'
  BY <1>1 DEF MarkerKept, MarkerOwed, X
<1>2. facade \in Facade
  BY DEF Known, Good
<1>3. CASE UNCHANGED allvars
  BY <1>1, <1>3 DEF allvars, vars, rvars
<1>4. CASE CooldownElapses \/ mark_acceptor_stopped
  <2>1. UNCHANGED <<vars, call, committed, unmarked>>
    BY <1>4, Zenon DEF CooldownElapses, mark_acceptor_stopped
  <2>2. UNCHANGED facade.markerPending
    BY <1>2, <1>4 DEF CooldownElapses, mark_acceptor_stopped, Facade
  <2> QED BY <1>1, <2>1, <2>2 DEF vars
<1>5. CASE SendStep
  <2>1. UNCHANGED rvars /\ client' = [client EXCEPT !.pc = "waiting"]
    BY <1>5 DEF SendStep, Send
  <2>2. client'.cmd = client.cmd
    BY <2>1 DEF Known, TypeOK
  <2> QED BY <2>1, <2>2 DEF MarkerKept, MarkerOwed, X, rvars
<1>6. CASE \E entry \in Entry \ {"Marker"} : BeginCall(entry)
  BY <1>6, CheckOwes DEF BeginCall
<1>7. CASE BeginMarker
  <2>1. "Marker" \in Entry
    BY DEF Entry
  <2> QED BY <1>7, <2>1, CheckOwes DEF BeginMarker
<1> QED BY <1>3, <1>4, <1>5, <1>6, <1>7, SubmitOwes, PermitOwes, FinishOwes, WriterStepOwes, Zenon
       DEF RNext, CallStep

\* No outage is forgotten: when one has been observed to end, its gap marker is pending or being
\* written until one is in the database, whatever writes, failures, skipped calls and further
\* outages come meanwhile (persist_recovery_marker_if_pending, persist_recovery_marker).  This is
\* the safety half of OutageLeavesTrace.
THEOREM OutagesStayOwed == RSpec => [](unmarked => MarkerOwed)
<1>1. RInit => MarkerKept
  BY DEF RInit, MarkerKept, NoCall
<1>2. MarkerKept => (unmarked => MarkerOwed)
  BY DEF MarkerKept
<1> QED BY KnownInit, KnownStep, MarkerStep, <1>1, <1>2, PTL DEF RSpec
=============================================================================
