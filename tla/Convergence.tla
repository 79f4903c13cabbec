----------------------------- MODULE Convergence -----------------------------
(***************************************************************************)
(* How the collector keeps its topology equal to Herdr's                   *)
(* (src/herdr/collector.rs: run_collector, converge, replay_generation,    *)
(* monitor_live, monitor_reconciling, spawn_event_reader).                 *)
(*                                                                         *)
(* Herdr pushes events on a subscription; the ones that concern topology   *)
(* are only hints that the last snapshot is out of date.  The collector    *)
(* subscribes, requests a snapshot while it buffers what arrives, installs *)
(* the snapshot, replays the buffer, and is Live once the stream is quiet  *)
(* and no hint was seen.  A hint or an overflow asks for another snapshot; *)
(* after Attempts immediate ones the collector waits for silence and a     *)
(* probe.  A separate reader task moves events from the socket into a      *)
(* bounded channel.                                                        *)
(*                                                                         *)
(* A topology is a version number.  Timers fire at any time while they are *)
(* armed.  Handlers that leave this state alone (provider events, operator *)
(* commands, enrichment, the sweep) are stuttering steps; a controller     *)
(* request is a step only where serving it restarts a timer or an attempt. *)
(***************************************************************************)
EXTENDS Naturals, Sequences

CONSTANTS
    Capacity,   \* EVENT_QUEUE_CAPACITY, of the channel and of the buffer
    Attempts,   \* RESNAPSHOT_ATTEMPTS; the first of a live refresh always counts
    Ambiguous,  \* versions whose model has two live executions in one pane
    MaxChanges, \* bound on topology changes
    MaxNoise,   \* bound on gauge events and controller requests together
    MaxFaults   \* bound on failures of Herdr, its socket and its replies

ASSUME ConvergenceAssumption ==
    /\ Capacity \in Nat \ {0}
    /\ Attempts \in Nat \ {0}
    /\ MaxChanges \in Nat
    /\ MaxNoise \in Nat
    /\ MaxFaults \in Nat

VARIABLES
    herdr,      \* the server: topology version and socket identity
    stream,     \* the subscription's connection; lost (history): a hint that no
                \* snapshot answered since has made up for was never delivered
    reader,     \* the event reader task
    channel,    \* its bounded channel to the collector
    overflowed, \* the flag the reader and the collector share
    coll,       \* the collector's program point and its converge locals
    buffered,   \* the local FIFO of converge
    call,       \* the snapshot request or watchdog probe in flight
    model,      \* version of the installed topology
    quality,    \* the published ObservationQuality
    process,    \* run_collector's locals: first_subscription, previous_socket
    gap,        \* history of the gap records: how many were Startup, whether this
                \* subscription's interval is recorded, and whether a gap record was
                \* lost with no PersistenceOutage marker in the database since
    facade,     \* RuntimePersistence: the status it shows, and whether it owes the
                \* PersistenceOutage marker of an outage that ended
    blind,      \* history: events are missing from the current rate epoch
    cancelled,  \* the collector's cancellation token
    faults, noise

vars == <<herdr, stream, reader, channel, overflowed, coll, buffered, call,
          model, quality, process, gap, facade, blind, cancelled, faults, noise>>

budget == <<faults, noise>>
converging == <<coll, buffered, model, quality, process, gap, facade, blind>>

-----------------------------------------------------------------------------
(* State.                                                                  *)

Hint == "hint"      \* PrimaryEventClass::TopologyHint
Gauge == "gauge"    \* EnrichmentGauge and NoOp: neither touches topology
PrimaryEvent == {Hint, Gauge}

Versions == 0 .. MaxChanges + 1     \* 0: the topology restored from the store
Sockets == 1 .. MaxFaults + 1
NoSocket == 0

Outside == {"top", "subscribing", "waiting", "final", "stopped", "failed"}
InReplay == {"drain", "check", "quiet", "settle"}
Monitoring == {"live", "reconciling"}
ProgramPoints == Outside \cup InReplay \cup Monitoring
                         \cup {"generation", "request", "joining"}

NoCall == [state |-> "none", version |-> 0]

NoConverge == [pc |-> "top", outcome |-> "none", origin |-> "CatchUp", requests |-> 0,
               cause |-> "none", dirty |-> FALSE, closed |-> FALSE, committed |-> FALSE,
               kind |-> "none"]

Facade == [degraded : BOOLEAN, owed : BOOLEAN]

ReaderDone == reader.pc \in {"clean", "failed"}

\* The reader's token: a child of the collector's, cancelled when converge returns.
ReaderCancelled == cancelled \/ coll.pc = "joining"

TypeOK ==
    /\ herdr \in [world : Versions \ {0}, socket : Sockets]
    /\ stream \in [state : {"none", "open", "eof", "error"}, wire : Seq(PrimaryEvent),
                   lost : BOOLEAN]
    /\ reader \in [pc : {"reading", "blocked", "clean", "failed"}, held : PrimaryEvent]
    /\ channel \in Seq(PrimaryEvent) /\ Len(channel) <= Capacity
    /\ overflowed \in BOOLEAN
    /\ coll \in [pc : ProgramPoints,
                 outcome : {"none", "Ended", "Cancelled", "Reconnect", "Error"},
                 origin : {"CatchUp", "LiveRefresh"}, requests : 0 .. Attempts,
                 cause : {"none", "TopologyHint", "Overflow"},
                 dirty : BOOLEAN, closed : BOOLEAN, committed : BOOLEAN,
                 kind : {"none", "Startup", "Reconnect", "SocketReplacement"}]
    /\ buffered \in Seq(PrimaryEvent) /\ Len(buffered) <= Capacity
    /\ call \in [state : {"none", "sent", "answered"}, version : Versions]
    /\ model \in Versions
    /\ quality \in {"Live", "Reconciling", "Disconnected"}
    /\ process \in [first : BOOLEAN, previous : {NoSocket} \cup Sockets, seen : Sockets]
    /\ gap \in [startups : Nat, attested : BOOLEAN, missing : BOOLEAN]
    /\ facade \in Facade
    /\ blind \in BOOLEAN
    /\ cancelled \in BOOLEAN
    /\ faults \in 0 .. MaxFaults
    /\ noise \in 0 .. MaxNoise

Init ==
    /\ herdr = [world |-> 1, socket |-> 1]
    /\ stream = [state |-> "none", wire |-> <<>>, lost |-> FALSE]
    /\ reader = [pc |-> "clean", held |-> Gauge]
    /\ channel = <<>>
    /\ overflowed = FALSE
    /\ coll = NoConverge
    /\ buffered = <<>>
    /\ call = NoCall
    /\ model = 0
    /\ quality = "Reconciling"
    /\ process = [first |-> TRUE, previous |-> NoSocket, seen |-> 1]
    /\ gap = [startups |-> 0, attested |-> FALSE, missing |-> FALSE]
    /\ facade = [degraded |-> FALSE, owed |-> FALSE]
    /\ blind = TRUE
    /\ cancelled = FALSE
    /\ faults = 0
    /\ noise = 0

Fault == faults < MaxFaults /\ faults' = faults + 1 /\ UNCHANGED noise
Noise == noise < MaxNoise /\ noise' = noise + 1 /\ UNCHANGED faults

-----------------------------------------------------------------------------
(* Herdr.  It pushes one hint per change on an open subscription, in order,*)
(* and answers a request with the topology of that moment.                 *)

Pushed(event) ==
    IF stream.state = "open" THEN [stream EXCEPT !.wire = Append(@, event)] ELSE stream

ServerFrame == UNCHANGED <<reader, channel, overflowed, converging, cancelled>>

Change ==
    /\ herdr.world <= MaxChanges
    /\ herdr' = [herdr EXCEPT !.world = @ + 1]
    /\ stream' = Pushed(Hint)
    /\ ServerFrame
    /\ UNCHANGED <<call, budget>>

\* A change whose hint never arrives, on a connection that stays open.
ChangeUnseen ==
    /\ herdr.world <= MaxChanges
    /\ stream.state = "open"
    /\ herdr' = [herdr EXCEPT !.world = @ + 1]
    /\ stream' = [stream EXCEPT !.lost = TRUE]
    /\ Fault
    /\ ServerFrame
    /\ UNCHANGED call

GaugeEvent ==
    /\ stream.state = "open"
    /\ stream' = Pushed(Gauge)
    /\ Noise
    /\ ServerFrame
    /\ UNCHANGED <<herdr, call>>

StreamEnds ==
    /\ stream.state = "open"
    /\ \E end \in {"eof", "error"} : stream' = [stream EXCEPT !.state = end]
    /\ Fault
    /\ ServerFrame
    /\ UNCHANGED <<herdr, call>>

\* Live handoff: a new server listens on a new socket file.
ReplaceSocket ==
    /\ herdr' = [herdr EXCEPT !.socket = @ + 1]
    /\ stream' = IF stream.state = "open" THEN [stream EXCEPT !.state = "eof"] ELSE stream
    /\ Fault
    /\ ServerFrame
    /\ UNCHANGED call

Answer ==
    /\ call.state = "sent"
    /\ call' = [state |-> "answered", version |-> herdr.world]
    /\ stream' = [stream EXCEPT !.lost = @ /\ coll.pc # "request"]
    /\ ServerFrame
    /\ UNCHANGED <<herdr, budget>>

ServerStep ==
    Change \/ ChangeUnseen \/ GaugeEvent \/ StreamEnds \/ ReplaceSocket \/ Answer

-----------------------------------------------------------------------------
(* The event reader task.                                                  *)

ReaderFrame == UNCHANGED <<herdr, converging, call, cancelled, budget>>

Read ==
    /\ reader.pc = "reading"
    /\ stream.wire # <<>>
    /\ stream' = [stream EXCEPT !.wire = Tail(@)]
    /\ IF Len(channel) < Capacity
       THEN channel' = Append(channel, Head(stream.wire)) /\ UNCHANGED <<overflowed, reader>>
       ELSE /\ overflowed' = TRUE
            /\ reader' = [pc |-> "blocked", held |-> Head(stream.wire)]
            /\ UNCHANGED channel
    /\ ReaderFrame

Unblock ==
    /\ reader.pc = "blocked"
    /\ Len(channel) < Capacity
    /\ channel' = Append(channel, reader.held)
    /\ reader' = [reader EXCEPT !.pc = "reading"]
    /\ ReaderFrame
    /\ UNCHANGED <<stream, overflowed>>

ReaderEnds ==
    /\ reader.pc = "reading"
    /\ stream.wire = <<>>
    /\ stream.state \in {"eof", "error"}
    /\ reader' = [reader EXCEPT !.pc = IF stream.state = "eof" THEN "clean" ELSE "failed"]
    /\ ReaderFrame
    /\ UNCHANGED <<stream, channel, overflowed>>

ReaderStops ==
    /\ ReaderCancelled
    /\ ~ReaderDone
    /\ reader' = [reader EXCEPT !.pc = "clean"]
    /\ ReaderFrame
    /\ UNCHANGED <<stream, channel, overflowed>>

ReaderStep == Read \/ Unblock \/ ReaderEnds \/ ReaderStops

-----------------------------------------------------------------------------
(* run_collector: subscribe, converge, join the reader, retry.             *)

CollFrame == UNCHANGED <<herdr, cancelled>>

At(pc) == coll.pc = pc
Goto(pc) == coll' = [coll EXCEPT !.pc = pc]

ReadIdentity ==
    /\ At("top")
    /\ ~cancelled
    /\ process' = [process EXCEPT !.seen = herdr.socket]
    /\ Goto("subscribing")
    /\ CollFrame
    /\ UNCHANGED <<stream, reader, channel, overflowed, buffered, call, model, quality,
                   gap, facade, blind, budget>>

\* A controller request, an operator command or the retention tick drops the
\* attempt and starts it anew.
SubscribeInterrupted ==
    /\ At("subscribing")
    /\ Goto("top")
    /\ Noise
    /\ CollFrame
    /\ UNCHANGED <<stream, reader, channel, overflowed, buffered, call, model, quality,
                   process, gap, facade, blind>>

GapKind ==
    IF process.first THEN "Startup"
    ELSE IF process.previous \notin {NoSocket, process.seen} THEN "SocketReplacement"
    ELSE "Reconnect"

Subscribe ==
    /\ At("subscribing")
    /\ stream' = [state |-> "open", wire |-> <<>>, lost |-> FALSE]
    /\ reader' = [pc |-> "reading", held |-> Gauge]
    /\ channel' = <<>>
    /\ overflowed' = FALSE
    /\ buffered' = <<>>
    /\ coll' = [NoConverge EXCEPT !.pc = "generation", !.kind = GapKind]
    /\ quality' = "Reconciling"
    /\ blind' = FALSE
    /\ gap' = [gap EXCEPT !.attested = FALSE]
    /\ CollFrame
    /\ UNCHANGED <<call, model, process, facade, budget>>

SubscribeFails ==
    /\ At("subscribing")
    /\ Fault
    /\ Goto("waiting")
    /\ quality' = "Disconnected"
    /\ blind' = FALSE
    /\ CollFrame
    /\ UNCHANGED <<stream, reader, channel, overflowed, buffered, call, model, process, gap, facade>>

\* wait_or_service_controller, and the cancellation checks around it.
Retry ==
    \/ /\ At("waiting")
       /\ coll' = NoConverge
       /\ CollFrame
       /\ UNCHANGED <<stream, reader, channel, overflowed, buffered, call, model, quality,
                      process, gap, facade, blind, budget>>
    \/ /\ cancelled
       /\ coll.pc \in {"top", "subscribing", "waiting"}
       /\ Goto("final")
       /\ CollFrame
       /\ UNCHANGED <<stream, reader, channel, overflowed, buffered, call, model, quality,
                      process, gap, facade, blind, budget>>

\* converge returns: its future and its receiver are dropped, the readers cancelled.
Exit(outcome) ==
    /\ coll' = [coll EXCEPT !.pc = "joining", !.outcome = outcome]
    /\ call' = NoCall
    /\ blind' = TRUE

ExitFrame ==
    UNCHANGED <<stream, reader, channel, overflowed, buffered, model, quality, process, gap, facade>>

\* A subscription that installed a snapshot ends the process's first one.
Committed ==
    IF coll.committed THEN [process EXCEPT !.first = FALSE, !.previous = process.seen]
    ELSE process

\* The reader has been joined.
Join ==
    /\ At("joining")
    /\ ReaderDone
    /\ stream' = [state |-> "none", wire |-> <<>>, lost |-> FALSE]
    /\ channel' = <<>>
    /\ buffered' = <<>>
    /\ overflowed' = FALSE
    /\ IF coll.outcome = "Error"
       THEN Goto("failed") /\ UNCHANGED <<process, quality, blind>>
       ELSE /\ process' = Committed
            /\ IF coll.outcome = "Cancelled" /\ reader.pc = "clean"
               THEN blind' = (blind /\ ~overflowed) /\ UNCHANGED quality
               ELSE quality' = "Disconnected" /\ blind' = FALSE
            /\ Goto(CASE coll.outcome = "Cancelled" -> "final"
                      [] coll.outcome = "Reconnect" -> "waiting"
                      [] coll.outcome = "Ended"     -> "top")
    /\ CollFrame
    /\ UNCHANGED <<reader, call, model, gap, facade, budget>>

\* The final drain of provider events and the rate checkpoint.
Finish ==
    /\ At("final")
    /\ Goto("stopped")
    /\ CollFrame
    /\ UNCHANGED <<stream, reader, channel, overflowed, buffered, call, model, quality,
                   process, gap, facade, blind, budget>>

\* CollectorHandle::stop.
Cancel ==
    /\ ~cancelled
    /\ cancelled' = TRUE
    /\ UNCHANGED <<herdr, stream, reader, channel, overflowed, converging, call, budget>>

-----------------------------------------------------------------------------
(* The facade over the writer (RuntimePersistence has its calls step by    *)
(* step).  A write while it shows Degraded is skipped, one that is sent is *)
(* committed or not; whatever is not plainly Durable degrades it.          *)

Degraded(f) == [f EXCEPT !.degraded = TRUE]

\* Mutant: the recovery owes no marker.
Recovered_quietly(f) == [f EXCEPT !.degraded = FALSE]

\* The writer is healthy again: the outage is over, and its marker is owed.
Recovered(f) == [degraded |-> FALSE, owed |-> TRUE]

\* observe_writer_health: what the writer published since the last call.
Observed(f) == {f, IF f.degraded THEN Recovered(f) ELSE Degraded(f)}

\* apply_v6: whether the rows are in the database, and the facade afterwards.  A call that
\* begins degraded is skipped, although its own probe may recover the writer.
apply_v6(f, row, g) ==
    \E seen \in Observed(f) :
        IF seen.degraded THEN ~row /\ g \in {seen, Recovered(seen)}
        ELSE g \in {seen, Degraded(seen)} /\ (row \/ g.degraded)

\* persist_recovery_marker_if_pending: a marker that was not committed stays owed.
persist_recovery_marker(f, marked, g) ==
    IF f.owed
    THEN \E h \in Facade : /\ apply_v6([f EXCEPT !.owed = FALSE], marked, h)
                           /\ g = [h EXCEPT !.owed = @ \/ ~marked]
    ELSE ~marked /\ g = f

\* persist_decorated_submission: the batch, and then the marker if one is owed.
Submission(row, marked) ==
    \E f \in Facade : apply_v6(facade, row, f) /\ persist_recovery_marker(f, marked, facade')

\* A marker accounts for what the outage lost.
Marked(g, marked) ==
    IF marked THEN [g EXCEPT !.missing = FALSE, !.attested = @ \/ coll.committed] ELSE g

\* The other writes of the collector's handlers (events, cleanup, checkpoints), and the ones
\* that end without the marker (owner location, permits, a probe alone).
PersistElse ==
    /\ coll.pc \notin {"stopped", "failed"}
    /\ facade' \in Facade
    /\ \E row, marked \in BOOLEAN :
        /\ \/ Submission(row, marked)
           \/ ~marked /\ apply_v6(facade, row, facade')
        /\ gap' = Marked(gap, marked)
    /\ CollFrame
    /\ UNCHANGED <<stream, reader, channel, overflowed, coll, buffered, call, model, quality,
                   process, blind, budget>>

-----------------------------------------------------------------------------
(* converge: one generation is a snapshot request and a replay.            *)

\* Cancellation, the end of the channel and unexpected errors.
ConvergeCancelled ==
    /\ cancelled
    /\ coll.pc \in {"generation", "request", "check", "quiet"} \cup Monitoring
    /\ Exit("Cancelled")
    /\ CollFrame /\ ExitFrame /\ UNCHANGED budget

ChannelClosed == channel = <<>> /\ ReaderDone

ConvergeEnded ==
    /\ coll.pc \in {"request"} \cup Monitoring
    /\ ChannelClosed
    /\ Exit("Ended")
    /\ CollFrame /\ ExitFrame /\ UNCHANGED budget

ConvergeError ==
    /\ coll.pc \in {"generation", "request", "check", "quiet"} \cup Monitoring
    /\ Fault
    /\ Exit("Error")
    /\ CollFrame /\ ExitFrame

StartGeneration ==
    /\ At("generation")
    /\ ~cancelled
    /\ overflowed' = FALSE
    /\ coll' = [coll EXCEPT !.pc = "request", !.cause = "none",
                            !.requests = IF coll.cause = "none" THEN @ ELSE @ + 1]
    /\ call' = [NoCall EXCEPT !.state = "sent"]
    /\ CollFrame
    /\ UNCHANGED <<stream, reader, channel, buffered, model, quality, process, gap, facade, blind, budget>>

\* Mutant: what does not fit the buffer is dropped without a trace.
retain_silently ==
    /\ buffered' = IF Len(buffered) < Capacity THEN Append(buffered, Head(channel)) ELSE buffered
    /\ UNCHANGED <<overflowed, blind>>

\* retain_primary_event_or_mark_overflow, of the next event of the channel.
retain_primary_event_or_mark_overflow ==
    IF Len(buffered) < Capacity
    THEN buffered' = Append(buffered, Head(channel)) /\ UNCHANGED <<overflowed, blind>>
    ELSE overflowed' = TRUE /\ blind' = TRUE /\ UNCHANGED buffered

ReceiveDuringRequest ==
    /\ At("request")
    /\ channel # <<>>
    /\ channel' = Tail(channel)
    /\ retain_primary_event_or_mark_overflow
    /\ CollFrame
    /\ UNCHANGED <<stream, reader, coll, call, model, quality, process, gap, facade, budget>>

\* The request fails or times out, or its answer is refused.
RequestFails ==
    /\ At("request")
    /\ Fault
    /\ Exit("Reconnect")
    /\ CollFrame /\ ExitFrame

\* The snapshot replaces the model.  The first one of a subscription carries the gap record
\* in its batch, and a batch that is not committed is not repeated.
Installed ==
    /\ model' = call.version
    /\ facade' \in Facade
    /\ \E row, marked \in BOOLEAN :
        /\ Submission(row, marked)
        /\ gap' = IF coll.committed THEN Marked(gap, marked)
                  ELSE Marked([startups |-> gap.startups + (IF row /\ coll.kind = "Startup" THEN 1 ELSE 0),
                               attested |-> row \/ marked,
                               missing  |-> gap.missing \/ ~row], marked)

Install ==
    /\ At("request")
    /\ call.state = "answered"
    /\ Installed
    /\ call' = NoCall
    /\ coll' = [coll EXCEPT !.pc = "drain", !.committed = TRUE, !.dirty = FALSE, !.closed = FALSE]
    /\ CollFrame
    /\ UNCHANGED <<stream, reader, channel, overflowed, buffered, quality, process, blind, budget>>

\* Installed, but an unexpected error comes back: of the write, which has no outcome then,
\* or of the owner record after it.
InstallNotPersisted ==
    /\ At("request")
    /\ call.state = "answered"
    /\ Fault
    /\ \/ Installed
       \/ model' = call.version /\ UNCHANGED <<gap, facade>>
    /\ coll' = [coll EXCEPT !.pc = "joining", !.outcome = "Reconnect", !.committed = TRUE]
    /\ call' = NoCall
    /\ blind' = TRUE
    /\ CollFrame
    /\ UNCHANGED <<stream, reader, channel, overflowed, buffered, quality, process>>

-----------------------------------------------------------------------------
(* replay_generation.                                                      *)

Drain ==
    /\ At("drain")
    /\ channel # <<>>
    /\ channel' = Tail(channel)
    /\ retain_primary_event_or_mark_overflow
    /\ CollFrame
    /\ UNCHANGED <<stream, reader, coll, call, model, quality, process, gap, facade, budget>>

Drained ==
    /\ At("drain")
    /\ channel = <<>>
    /\ coll' = [coll EXCEPT !.pc = "check", !.closed = ReaderDone]
    /\ CollFrame
    /\ UNCHANGED <<stream, reader, channel, overflowed, buffered, call, model, quality,
                   process, gap, facade, blind, budget>>

\* Another generation at once, or the quiescence monitor when the episode has
\* used its immediate requests up.
AnotherGeneration(cause) ==
    /\ coll' = IF coll.requests >= Attempts
               THEN [coll EXCEPT !.pc = "reconciling"]
               ELSE [coll EXCEPT !.pc = "generation", !.cause = cause]
    /\ quality' = "Reconciling"

\* recover_replay_overflow: what is left of the generation is discarded.
recover_replay_overflow ==
    /\ overflowed
    /\ overflowed' = FALSE
    /\ buffered' = <<>>
    /\ AnotherGeneration("Overflow")
    /\ blind' = FALSE

ReplayOverflow ==
    /\ coll.pc \in {"check", "settle"}
    /\ recover_replay_overflow
    /\ CollFrame
    /\ UNCHANGED <<stream, reader, channel, call, model, process, gap, facade, budget>>

Replay ==
    /\ At("check")
    /\ ~overflowed
    /\ buffered # <<>>
    /\ buffered' = Tail(buffered)
    /\ coll' = [coll EXCEPT !.pc = "drain", !.dirty = @ \/ Head(buffered) = Hint]
    /\ CollFrame
    /\ UNCHANGED <<stream, reader, channel, overflowed, call, model, quality, process, gap, facade,
                   blind, budget>>

ReplayEnded ==
    /\ At("check")
    /\ ~overflowed
    /\ buffered = <<>>
    /\ coll.closed
    /\ Exit("Ended")
    /\ CollFrame /\ ExitFrame /\ UNCHANGED budget

AwaitQuiet ==
    /\ At("check")
    /\ ~overflowed
    /\ buffered = <<>>
    /\ ~coll.closed
    /\ Goto("quiet")
    /\ CollFrame
    /\ UNCHANGED <<stream, reader, channel, overflowed, buffered, call, model, quality,
                   process, gap, facade, blind, budget>>

QuietBroken ==
    /\ At("quiet")
    /\ channel # <<>>
    /\ channel' = Tail(channel)
    /\ retain_primary_event_or_mark_overflow
    /\ Goto("check")
    /\ CollFrame
    /\ UNCHANGED <<stream, reader, call, model, quality, process, gap, facade, budget>>

QuietClosed ==
    /\ At("quiet")
    /\ ChannelClosed
    /\ coll' = [coll EXCEPT !.pc = "check", !.closed = TRUE]
    /\ CollFrame
    /\ UNCHANGED <<stream, reader, channel, overflowed, buffered, call, model, quality,
                   process, gap, facade, blind, budget>>

\* A controller request restarts the quiet period.
QuietInterrupted ==
    /\ At("quiet")
    /\ Noise
    /\ Goto("check")
    /\ CollFrame
    /\ UNCHANGED <<stream, reader, channel, overflowed, buffered, call, model, quality,
                   process, gap, facade, blind>>

QuietElapsed ==
    /\ At("quiet")
    /\ channel = <<>>
    /\ ~ReaderDone
    /\ Goto("settle")
    /\ CollFrame
    /\ UNCHANGED <<stream, reader, channel, overflowed, buffered, call, model, quality,
                   process, gap, facade, blind, budget>>

\* The end of the replay: another snapshot, or Live.
Settle ==
    /\ At("settle")
    /\ ~overflowed
    /\ \/ coll.dirty /\ AnotherGeneration("TopologyHint") /\ blind' = FALSE /\ UNCHANGED call
       \/ ~coll.dirty /\ cancelled /\ Exit("Cancelled") /\ UNCHANGED quality
       \/ ~coll.dirty /\ ~cancelled /\ Goto("live") /\ quality' = "Live" /\ UNCHANGED <<call, blind>>
    /\ CollFrame
    /\ UNCHANGED <<stream, reader, channel, overflowed, buffered, model, process, gap, facade, budget>>

-----------------------------------------------------------------------------
(* monitor_live and monitor_reconciling.                                   *)

\* A live refresh is a new episode.
LiveRefresh(cause) ==
    /\ coll' = [coll EXCEPT !.pc = "generation", !.origin = "LiveRefresh", !.requests = 0,
                            !.cause = cause]
    /\ quality' = "Reconciling"
    /\ blind' = FALSE
    /\ call' = NoCall

\* The quiescence monitor starts over, with a fresh budget.
RestartGeneration ==
    /\ coll' = [coll EXCEPT !.pc = "generation", !.requests = 0]
    /\ blind' = FALSE
    /\ call' = NoCall
    /\ UNCHANGED quality

\* Checked at the top of the loop and after each receipt, whose event is dropped.
MonitorOverflow ==
    /\ coll.pc \in Monitoring
    /\ overflowed
    /\ overflowed' = FALSE
    /\ \/ UNCHANGED channel
       \/ channel # <<>> /\ channel' = Tail(channel)
    /\ IF At("live") THEN LiveRefresh("Overflow") ELSE RestartGeneration
    /\ CollFrame
    /\ UNCHANGED <<stream, reader, buffered, model, process, gap, facade, budget>>

LiveHint ==
    /\ At("live")
    /\ ~overflowed
    /\ channel # <<>> /\ Head(channel) = Hint
    /\ channel' = Tail(channel)
    /\ LiveRefresh("TopologyHint")
    /\ CollFrame
    /\ UNCHANGED <<stream, reader, overflowed, buffered, model, process, gap, facade, budget>>

\* A gauge event is applied; while reconciling a hint is discarded.  The silence
\* is broken: a probe in flight is dropped.  A gauge event that changes nothing
\* does not break it while reconciling.
MonitorEvent ==
    /\ coll.pc \in Monitoring
    /\ ~overflowed
    /\ channel # <<>>
    /\ Head(channel) = Gauge \/ At("reconciling")
    /\ channel' = Tail(channel)
    /\ \/ call' = NoCall
       \/ At("reconciling") /\ Head(channel) = Gauge /\ UNCHANGED call
    /\ CollFrame
    /\ UNCHANGED <<stream, reader, overflowed, coll, buffered, model, quality, process, gap, facade,
                   blind, budget>>

WatchdogExpires ==
    /\ coll.pc \in Monitoring
    /\ call = NoCall
    /\ call' = [NoCall EXCEPT !.state = "sent"]
    /\ CollFrame
    /\ UNCHANGED <<stream, reader, channel, overflowed, coll, buffered, model, quality,
                   process, gap, facade, blind, budget>>

ProbeFails ==
    /\ coll.pc \in Monitoring
    /\ call # NoCall
    /\ ~overflowed
    /\ Fault
    /\ Exit("Reconnect")
    /\ CollFrame /\ ExitFrame

ProbeInconclusive ==
    /\ coll.pc \in Monitoring
    /\ call.state = "answered"
    /\ ~overflowed
    /\ model \in Ambiguous
    /\ call' = NoCall
    /\ CollFrame
    /\ UNCHANGED <<stream, reader, channel, overflowed, coll, buffered, model, quality,
                   process, gap, facade, blind, budget>>

\* Mutant: the answer is not compared with the model.
ProbeMatches_any == TRUE

\* probe_topology_matches_model.
ProbeMatches == call.version = model

ProbeHealthy ==
    /\ coll.pc \in Monitoring
    /\ call.state = "answered"
    /\ ~overflowed
    /\ model \notin Ambiguous
    /\ ProbeMatches
    /\ IF At("live")
       THEN call' = NoCall /\ UNCHANGED <<coll, quality, blind>>
       ELSE RestartGeneration
    /\ CollFrame
    /\ UNCHANGED <<stream, reader, channel, overflowed, buffered, model, process, gap, facade, budget>>

ProbeDiverged ==
    /\ coll.pc \in Monitoring
    /\ call.state = "answered"
    /\ ~overflowed
    /\ model \notin Ambiguous
    /\ ~ProbeMatches
    /\ Exit("Reconnect")
    /\ CollFrame /\ ExitFrame /\ UNCHANGED budget

-----------------------------------------------------------------------------
Stopped == coll.pc \in {"stopped", "failed"} /\ UNCHANGED vars

OuterStep == ReadIdentity \/ SubscribeInterrupted \/ Subscribe \/ SubscribeFails \/ Retry
             \/ Join \/ Finish

RequestStep == StartGeneration \/ ReceiveDuringRequest \/ RequestFails \/ Install
               \/ InstallNotPersisted

ReplayStep == Drain \/ Drained \/ ReplayOverflow \/ Replay \/ ReplayEnded \/ AwaitQuiet
              \/ QuietBroken \/ QuietClosed \/ QuietInterrupted \/ QuietElapsed \/ Settle

MonitorStep == MonitorOverflow \/ LiveHint \/ MonitorEvent \/ WatchdogExpires \/ ProbeFails
               \/ ProbeInconclusive \/ ProbeHealthy \/ ProbeDiverged

ExitStep == ConvergeCancelled \/ ConvergeEnded \/ ConvergeError

Next == ServerStep \/ ReaderStep \/ Cancel \/ OuterStep \/ RequestStep \/ ReplayStep
        \/ MonitorStep \/ ExitStep \/ PersistElse \/ Stopped

(* Fairness: the reader task and the collector task are scheduled, the     *)
(* timers they arm fire, tokio's select! polls every branch, and Herdr     *)
(* answers a request it has not failed.                                    *)

Subscribing == ReadIdentity \/ Subscribe \/ Retry \/ Join \/ Finish
Refreshing == StartGeneration \/ Install
Replaying == Drain \/ Drained \/ ReplayOverflow \/ Replay \/ ReplayEnded \/ AwaitQuiet
             \/ QuietBroken \/ QuietClosed \/ QuietElapsed \/ Settle
Receiving == MonitorOverflow \/ LiveHint \/ MonitorEvent
Probing == WatchdogExpires \/ ProbeInconclusive \/ ProbeHealthy \/ ProbeDiverged

Fairness ==
    /\ WF_vars(ReaderStep) /\ WF_vars(Answer)
    /\ WF_vars(Subscribing) /\ WF_vars(Refreshing) /\ WF_vars(Replaying)
    /\ WF_vars(Receiving) /\ WF_vars(Probing)
    /\ WF_vars(ConvergeEnded) /\ WF_vars(ConvergeCancelled)

Spec == Init /\ [][Next]_vars /\ Fairness

-----------------------------------------------------------------------------
(* Properties.                                                             *)

Has(events, event) == \E i \in 1 .. Len(events) : events[i] = event

HintOnItsWay ==
    \/ Has(stream.wire, Hint)
    \/ Has(channel, Hint)
    \/ reader.pc = "blocked" /\ reader.held = Hint

\* Changes made now are no longer pushed, and the collector will see the end.
SubscriptionEnding == stream.state # "open" \/ ReaderDone

\* While the collector shows Live, either the topology is Herdr's or something is
\* on its way that makes it ask again: no change is lost between subscribe,
\* snapshot, replay and overflow recovery.
LiveCoversWorld ==
    quality = "Live" /\ coll.pc \notin Outside \cup {"joining"} =>
        \/ model = herdr.world
        \/ HintOnItsWay
        \/ overflowed
        \/ SubscriptionEnding
        \/ stream.lost

\* No rate is measured across discarded or missed events: a new rate epoch has
\* begun by the time the collector is Live.
NoRateAcrossDiscard == coll.pc = "live" => ~blind

\* The interval before a subscription leaves a row: while the collector is Live it is in the
\* database as a gap record or as a later PersistenceOutage marker, or persistence is degraded,
\* which the responder shows, or the marker is still owed.  A gap record that was lost is owed
\* so across reconnects and further outages, and one process records one Startup gap at most.
GapsAttested ==
    /\ coll.pc = "live" => gap.attested \/ facade.degraded \/ facade.owed
    /\ gap.missing => facade.degraded \/ facade.owed
    /\ gap.startups <= 1

\* What was discarded or missed is accounted for before the collector shows itself Live again,
\* whichever of overflow, reconnect, skipped and failed write came in between: the rate epoch
\* has ended (NoRateAcrossDiscard), and the gap is on record or has its outage to answer for it
\* (GapsAttested).
DiscardsLeaveTraces == NoRateAcrossDiscard /\ GapsAttested

Over == coll.pc \in {"stopped", "failed"}

\* A collector that is cancelled ends, whatever it is waiting for; one that is not, once
\* Herdr stops changing and failing, shows Live with Herdr's topology for good, even when
\* the hint of a change was never delivered.  Ambiguous topologies are left out: with two
\* live executions on one pane the probe is Inconclusive, and the watchdog cannot tell
\* that a hint was lost.
Converges ==
    <>[](\/ Over
         \/ /\ ~cancelled
            /\ \/ {model, herdr.world} \cap Ambiguous # {}
               \/ quality = "Live" /\ model = herdr.world)
=============================================================================
