------------------------------ MODULE Controller ------------------------------
(***************************************************************************)
(* The Controller socket (src/herdr/controller.rs): emit clients, the      *)
(* acceptor with its connection tasks, the bounded queue to the collector, *)
(* and the pipeline every request passes at the reducer, through stops,    *)
(* crashes and restarts of the owner process.                              *)
(*                                                                         *)
(* An attempt is one run of `herdr-top emit`; attempts with the same event *)
(* are retries.  The writer is reduced to what this pipeline sees of it    *)
(* (Writer and RuntimePersistence have the rest): the batch it was given,  *)
(* what is durable, and whether persistence is healthy.  Every timeout may *)
(* fire at any time.                                                       *)
(***************************************************************************)
EXTENDS Naturals, Sequences, FiniteSets

CONSTANTS
    Attempts,       \* runs of emit
    Events,         \* event ids
    EventOf,        \* the event id each attempt sends
    MaxConnections, \* MAX_CONTROLLER_CONNECTIONS
    QueueCapacity,  \* CONTROLLER_REQUEST_QUEUE_CAPACITY
    MaxSeq,         \* the largest ingest sequence number
    MaxFaults       \* bound on crashes, stops, store failures and dropped requests

ASSUME ControllerAssumption ==
    /\ EventOf \in [Attempts -> Events]
    /\ MaxConnections \in Nat \ {0}
    /\ QueueCapacity \in Nat \ {0}
    /\ MaxSeq \in Nat
    /\ MaxFaults \in Nat

VARIABLES
    client,     \* emit: progress and outcome of each attempt
    conn,       \* the server's side of each attempt's connection
    queue,      \* requests the collector has not received yet
    collector,  \* "ready", "committing" (in finish_pending), "gone"
    acceptor,   \* "running", "stopped"
    owner,      \* the process: "up", "stopping", "exited", "crashed"
    ledger,     \* ids the in-memory mirror holds
    log,        \* events applied to the model, in ingest order
    nextSeq,    \* next_ingest_seq
    batch,      \* what the writer has been given and not finished
    durable,    \* what the store holds
    healthy,    \* RuntimePersistence is Healthy
    effect,     \* history: how often each attempt's request was applied
    seen,       \* history: events that were ever applied
    storeFailed,\* history: a write of this process failed
    faults

vars == <<client, conn, queue, collector, acceptor, owner, ledger, log, nextSeq, batch,
          durable, healthy, effect, seen, storeFailed, faults>>

pipeline == <<ledger, log, nextSeq, effect, seen>>
storage == <<batch, durable, healthy, storeFailed>>

-----------------------------------------------------------------------------
(* State.                                                                  *)

\* ControllerResponse; busy and unavailable are its Retryable reasons.
Responses == {"accepted", "duplicate", "rejected", "busy", "unavailable"}
Outcomes == Responses \cup {"unresolved"}

Applied == [event : Events, seq : 1 .. MaxSeq]
EventsIn(records) == {records[i].event : i \in 1 .. Len(records)}

Live == {a \in Attempts : conn[a].state \in {"reading", "waiting", "responded"}}

TypeOK ==
    /\ client \in [Attempts -> [pc : {"idle", "connected", "done"}, sent : BOOLEAN,
                                outcome : Outcomes \cup {"none"}]]
    /\ conn \in [Attempts -> [state : {"none", "backlog", "reading", "waiting", "responded",
                                       "closed"},
                              response : Responses \cup {"none"}]]
    /\ queue \in Seq(Attempts) /\ Len(queue) <= QueueCapacity
    /\ collector \in {"ready", "committing", "gone"}
    /\ acceptor \in {"running", "stopped"}
    /\ owner \in {"up", "stopping", "exited", "crashed"}
    /\ ledger \subseteq Events
    /\ log \in Seq(Applied)
    /\ nextSeq \in 1 .. MaxSeq + 1
    /\ batch \in Seq(Applied) /\ Len(batch) <= 1
    /\ durable \in Seq(Applied)
    /\ healthy \in BOOLEAN
    /\ effect \in [Attempts -> Nat]
    /\ seen \subseteq Events
    /\ storeFailed \in BOOLEAN
    /\ faults \in 0 .. MaxFaults
    /\ Cardinality(Live) <= MaxConnections

Init ==
    /\ client = [a \in Attempts |-> [pc |-> "idle", sent |-> FALSE, outcome |-> "none"]]
    /\ conn = [a \in Attempts |-> [state |-> "none", response |-> "none"]]
    /\ queue = <<>>
    /\ collector = "ready"
    /\ acceptor = "running"
    /\ owner = "up"
    /\ ledger = {}
    /\ log = <<>>
    /\ nextSeq = 1
    /\ batch = <<>>
    /\ durable = <<>>
    /\ healthy = TRUE
    /\ effect = [a \in Attempts |-> 0]
    /\ seen = {}
    /\ storeFailed = FALSE
    /\ faults = 0

Fault == faults < MaxFaults /\ faults' = faults + 1

-----------------------------------------------------------------------------
(* emit_to_endpoint.                                                       *)

ClientFrame == UNCHANGED <<queue, collector, acceptor, owner, pipeline, storage, faults>>

Done(a, outcome) == client' = [client EXCEPT ![a].pc = "done", ![a].outcome = outcome]

\* The kernel completes the connection before the acceptor takes it.
Connect(a) ==
    /\ client[a].pc = "idle"
    /\ IF acceptor = "running"
       THEN /\ client' = [client EXCEPT ![a].pc = "connected"]
            /\ conn' = [conn EXCEPT ![a].state = "backlog"]
       ELSE Done(a, "unresolved") /\ UNCHANGED conn
    /\ ClientFrame

SendFrame(a) ==
    /\ client[a].pc = "connected"
    /\ ~client[a].sent
    /\ client' = [client EXCEPT ![a].sent = TRUE]
    /\ UNCHANGED conn
    /\ ClientFrame

\* emit reads to the end of the stream.
ReadResponse(a) ==
    /\ client[a].pc = "connected"
    /\ client[a].sent
    /\ conn[a].state = "closed"
    /\ Done(a, IF conn[a].response = "none" THEN "unresolved" ELSE conn[a].response)
    /\ UNCHANGED conn
    /\ ClientFrame

\* A timeout of a step of emit, an error, or the client is killed.
GiveUp(a) ==
    /\ client[a].pc = "connected"
    /\ Done(a, "unresolved")
    /\ UNCHANGED conn
    /\ ClientFrame

-----------------------------------------------------------------------------
(* run_acceptor and handle_connection.                                     *)

ServerFrame == UNCHANGED <<client, collector, acceptor, owner, pipeline, storage, faults>>

Respond(c, a, response) ==
    [c EXCEPT ![a] = [state |-> "responded", response |-> response]]

MayAccept == Cardinality(Live) < MaxConnections

\* A failed accept is counted and retried after ACCEPT_RETRY_DELAY.
Accept(a) ==
    /\ acceptor = "running"
    /\ conn[a].state = "backlog"
    /\ MayAccept
    /\ conn' = [conn EXCEPT ![a].state = "reading"]
    /\ UNCHANGED queue
    /\ ServerFrame

\* No frame within CONTROLLER_IO_TIMEOUT, or the client has gone: Rejected(invalid).
ReadFails(a) ==
    /\ conn[a].state = "reading"
    /\ ~client[a].sent
    /\ conn' = Respond(conn, a, "rejected")
    /\ UNCHANGED queue
    /\ ServerFrame

Enqueue(a) ==
    /\ conn[a].state = "reading"
    /\ client[a].sent
    /\ IF collector # "gone" /\ Len(queue) < QueueCapacity
       THEN /\ queue' = Append(queue, a)
            /\ conn' = [conn EXCEPT ![a].state = "waiting"]
       ELSE /\ conn' = Respond(conn, a, IF collector = "gone" THEN "unavailable" ELSE "busy")
            /\ UNCHANGED queue
    /\ ServerFrame

\* Mutant: a request that is still queued is reported as not applied.
WaitTimesOut_answers(a) ==
    /\ conn[a].state = "waiting"
    /\ conn' = Respond(conn, a, "unavailable")
    /\ UNCHANGED queue
    /\ ServerFrame

\* The request stays in the queue and may be applied later: no response is given.
WaitTimesOut(a) ==
    /\ conn[a].state = "waiting"
    /\ conn' = [conn EXCEPT ![a].state = "closed"]
    /\ UNCHANGED queue
    /\ ServerFrame

\* Mutant: the connection is kept until the client has read its response.
Close_after_client(a) ==
    /\ conn[a].state = "responded"
    /\ client[a].pc = "done"
    /\ conn' = [conn EXCEPT ![a].state = "closed"]
    /\ UNCHANGED queue
    /\ ServerFrame

\* The response is written and the stream shut down, or this fails.
Close(a) ==
    /\ conn[a].state = "responded"
    /\ conn' = [conn EXCEPT ![a].state = "closed"]
    /\ UNCHANGED queue
    /\ ServerFrame

-----------------------------------------------------------------------------
(* service_request, at the reducer.                                        *)

\* The responder: a connection that has timed out is not listening any more.
Answered(c, a, response) == IF c[a].state = "waiting" THEN Respond(c, a, response) ELSE c

\* Receivers that are dropped with requests in them: recv fails.
AllUnavailable(c, requests) ==
    [a \in Attempts |->
        IF a \in requests /\ c[a].state = "waiting"
        THEN [state |-> "responded", response |-> "unavailable"] ELSE c[a]]

Receive(a, response) ==
    /\ collector = "ready"
    /\ queue # <<>>
    /\ a = Head(queue)
    /\ queue' = Tail(queue)
    /\ conn' = Answered(conn, a, response)
    /\ UNCHANGED <<client, acceptor, owner, durable, healthy, storeFailed>>

IsDuplicate(a) == EventOf[a] \in ledger

ServeDuplicate(a) ==
    /\ IsDuplicate(a)
    /\ Receive(a, "duplicate")
    /\ UNCHANGED <<collector, pipeline, batch, faults>>

\* The frame does not decode or the reducer's state does not admit the event.
ServeRejected(a) ==
    /\ ~IsDuplicate(a)
    /\ Receive(a, "rejected")
    /\ UNCHANGED <<collector, pipeline, batch, faults>>

\* reserve_enqueue has no permit, or no ingest sequence number is left.
ServeUnavailable(a) ==
    /\ ~IsDuplicate(a)
    /\ ~healthy \/ nextSeq > MaxSeq
    /\ Receive(a, "unavailable")
    /\ UNCHANGED <<collector, pipeline, batch, faults>>

\* commit_staged swaps the staged model in, enqueues the batch and reserves the id.
commit_staged(a) ==
    /\ log' = Append(log, [event |-> EventOf[a], seq |-> nextSeq])
    /\ batch' = <<[event |-> EventOf[a], seq |-> nextSeq]>>
    /\ nextSeq' = nextSeq + 1
    /\ ledger' = ledger \cup {EventOf[a]}
    /\ effect' = [effect EXCEPT ![a] = @ + 1]
    /\ seen' = seen \cup {EventOf[a]}

\* Accepted is answered before finish_pending is awaited.
ServeAccepted(a) ==
    /\ ~IsDuplicate(a)
    /\ healthy
    /\ nextSeq <= MaxSeq
    /\ Receive(a, "accepted")
    /\ commit_staged(a)
    /\ collector' = "committing"
    /\ UNCHANGED faults

\* monitor_live and monitor_reconciling: a request received after the primary
\* event queue overflowed is dropped with its responder.
DropRequest(a) ==
    /\ Fault
    /\ Receive(a, "unavailable")
    /\ UNCHANGED <<collector, pipeline, batch>>

-----------------------------------------------------------------------------
(* The writer, as this pipeline sees it.                                   *)

WriterFrame == UNCHANGED <<client, conn, queue, acceptor, owner, pipeline>>

\* finish_pending returns, unless the collector was aborted meanwhile.
Resume == collector' = IF collector = "committing" THEN "ready" ELSE collector

WriterCommits ==
    /\ batch # <<>>
    /\ durable' = durable \o batch
    /\ batch' = <<>>
    /\ Resume
    /\ WriterFrame
    /\ UNCHANGED <<healthy, storeFailed, faults>>

\* Committed or not: a failure after the commit leaves the batch durable.
WriterFails ==
    /\ batch # <<>>
    /\ Fault
    /\ durable' \in {durable, durable \o batch}
    /\ batch' = <<>>
    /\ healthy' = FALSE
    /\ storeFailed' = TRUE
    /\ Resume
    /\ WriterFrame

\* A probe of the facade finds the writer healthy again.
Recover ==
    /\ collector = "ready"
    /\ ~healthy
    /\ healthy' = TRUE
    /\ WriterFrame
    /\ UNCHANGED <<collector, batch, durable, storeFailed, faults>>

-----------------------------------------------------------------------------
(* The owner process.                                                      *)

\* The collector task ends: what it had not received is dropped.
CollectorEnds ==
    /\ collector' = "gone"
    /\ queue' = <<>>
    /\ conn' = AllUnavailable(conn, {queue[i] : i \in 1 .. Len(queue)})
    /\ UNCHANGED <<client, acceptor, owner, pipeline, storage>>

\* A collector error; the acceptor and the TUI go on.
CollectorFails ==
    /\ owner = "up"
    /\ collector = "ready"
    /\ Fault
    /\ CollectorEnds

\* The TUI is left: CollectorHandle::stop cancels the collector and the acceptor.
Stop ==
    /\ owner = "up"
    /\ Fault
    /\ owner' = "stopping"
    /\ UNCHANGED <<client, conn, queue, collector, acceptor, pipeline, storage>>

CollectorStops ==
    /\ owner = "stopping"
    /\ collector = "ready"
    /\ CollectorEnds
    /\ UNCHANGED faults

\* STOP_TIMEOUT: aborted in finish_pending.
CollectorAborted ==
    /\ owner = "stopping"
    /\ collector = "committing"
    /\ Fault
    /\ CollectorEnds

\* The connection tasks are aborted and the listener dropped.
Disconnected(c) ==
    [a \in Attempts |-> IF c[a].state = "none" THEN c[a] ELSE [c[a] EXCEPT !.state = "closed"]]

AcceptorStops ==
    /\ owner = "stopping"
    /\ acceptor = "running"
    /\ acceptor' = "stopped"
    /\ conn' = Disconnected(conn)
    /\ UNCHANGED <<client, queue, collector, owner, pipeline, storage, faults>>

\* Mutant: the process does not wait for the writer.
WriterDrained_unchecked == TRUE

\* WriterLifecycle::shutdown returns once the writer has done what it was given.
WriterDrained == batch = <<>>

Exited ==
    /\ owner = "stopping"
    /\ collector = "gone"
    /\ acceptor = "stopped"
    /\ WriterDrained
    /\ owner' = "exited"
    /\ UNCHANGED <<client, conn, queue, collector, acceptor, pipeline, storage, faults>>

Crash ==
    /\ owner \in {"up", "stopping"}
    /\ Fault
    /\ owner' = "crashed"
    /\ collector' = "gone"
    /\ acceptor' = "stopped"
    /\ queue' = <<>>
    /\ batch' = <<>>
    /\ conn' = Disconnected(conn)
    /\ UNCHANGED <<client, pipeline, durable, healthy, storeFailed>>

\* Mutant: the next process starts with an empty ledger.
SeededLedger_empty == {}

\* open_writer and spawn_writer: the mirror holds the ids of the stored ledger.
SeededLedger == EventsIn(durable)

\* The stored high-water mark, which the batch of every event advances.
RestoredSeq == IF durable = <<>> THEN 1 ELSE durable[Len(durable)].seq + 1

\* A new owner restores the model and the ingest sequence from the store.
Restart ==
    /\ owner \in {"exited", "crashed"}
    /\ owner' = "up"
    /\ collector' = "ready"
    /\ acceptor' = "running"
    /\ log' = durable
    /\ ledger' = SeededLedger
    /\ nextSeq' = RestoredSeq
    /\ batch' = <<>>
    /\ healthy' = TRUE
    /\ storeFailed' = FALSE
    /\ UNCHANGED <<client, conn, queue, durable, effect, seen, faults>>

-----------------------------------------------------------------------------
\* Every emit has returned and the process waits for the next one.
Idle ==
    /\ \A a \in Attempts : client[a].pc = "done" /\ conn[a].state \in {"none", "closed"}
    /\ queue = <<>>
    /\ batch = <<>>
    /\ UNCHANGED vars

ClientStep(a) == Connect(a) \/ SendFrame(a) \/ ReadResponse(a) \/ GiveUp(a)

ConnectionStep(a) == Accept(a) \/ ReadFails(a) \/ Enqueue(a) \/ Close(a)

Serve(a) == ServeDuplicate(a) \/ ServeRejected(a) \/ ServeUnavailable(a) \/ ServeAccepted(a)

WriterStep == WriterCommits \/ WriterFails

OwnerStep == CollectorFails \/ Stop \/ CollectorStops \/ CollectorAborted \/ AcceptorStops
             \/ Exited \/ Crash \/ Restart

Next ==
    \/ \E a \in Attempts : \/ ClientStep(a)
                           \/ ConnectionStep(a)
                           \/ WaitTimesOut(a)
                           \/ Serve(a)
                           \/ DropRequest(a)
    \/ WriterStep
    \/ Recover
    \/ OwnerStep
    \/ Idle

(* Fairness: the tasks of the process are scheduled, its read timeout      *)
(* fires, and the writer finishes what it was given.  Clients and the      *)
(* timeout of a waiting connection owe nothing.                            *)
Fairness ==
    /\ \A a \in Attempts : WF_vars(ConnectionStep(a)) /\ WF_vars(Serve(a))
    /\ WF_vars(WriterStep)
    /\ WF_vars(CollectorStops) /\ WF_vars(AcceptorStops) /\ WF_vars(Exited)

Spec == Init /\ [][Next]_vars /\ Fairness

-----------------------------------------------------------------------------
(* Properties.                                                             *)

\* An event is applied once to a model however often it is sent: retried after a
\* timeout, while its first request is still queued, or after a restart.
AppliedOnce ==
    \A i, j \in 1 .. Len(log) : log[i].event = log[j].event => i = j

\* What emit prints is true for good: accepted and duplicate mean the event was
\* applied, every other response that this request neither was nor will be.
AnswersTruthful ==
    \A a \in Attempts : client[a].outcome \notin {"none", "unresolved"} =>
        /\ effect[a] = IF client[a].outcome = "accepted" THEN 1 ELSE 0
        /\ client[a].outcome = "duplicate" => EventOf[a] \in seen
        /\ \A i \in 1 .. Len(queue) : queue[i] # a

\* Ingest sequence numbers order the applied and the stored events, also across
\* a crash that lost some of them.
IngestOrder ==
    /\ \A i, j \in 1 .. Len(log) : i < j => log[i].seq < log[j].seq
    /\ \A i, j \in 1 .. Len(durable) : i < j => durable[i].seq < durable[j].seq

\* However often an event is sent, whatever times out and wherever the owner crashes:
\* finish_pending applies it once (AppliedOnce), and the numbers it gives order what was
\* applied and what was stored (IngestOrder).
AppliedOnceInOrder == AppliedOnce /\ IngestOrder

\* A process that is left in the normal way and met no store failure has stored
\* everything it accepted, even if its collector had to be aborted.
GracefulExitKeepsAccepted ==
    owner = "exited" /\ ~storeFailed => log = durable

\* A frame that was sent is answered or its connection closed, though no client
\* gives up and no wait times out.
RequestSettles ==
    \A a \in Attempts :
        (client[a].sent /\ conn[a].state # "none")
            ~> (conn[a].state \in {"responded", "closed"})
=============================================================================
