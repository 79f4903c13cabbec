-------------------------- MODULE ConvergenceProofs --------------------------
(* Theorems about the collector's convergence and the enrichment that        *)
(* follows it, for every capacity of the two channels, number of immediate   *)
(* attempts, sets of addresses and of ambiguous topologies, and number of    *)
(* changes, failures, turns and interruptions.                               *)
EXTENDS Convergence, Enrichment, SequenceTheorems, TLAPS

-----------------------------------------------------------------------------
(* What the moves of the queues do to the events in them.                  *)

LEMMA AppendHas ==
    ASSUME NEW S, NEW s \in Seq(S), NEW x \in S
    PROVE  /\ Append(s, x) \in Seq(S) /\ Len(Append(s, x)) = Len(s) + 1
           /\ \A y : Has(s, y) \/ y = x => Has(Append(s, x), y)
BY AppendProperties DEF Has

LEMMA TailHas ==
    ASSUME NEW S, NEW s \in Seq(S), s # <<>>
    PROVE  /\ Head(s) \in S /\ Tail(s) \in Seq(S) /\ Len(Tail(s)) = Len(s) - 1
           /\ \A y : Has(s, y) => Has(Tail(s), y) \/ y = Head(s)
<1>1. /\ Head(s) \in S
      /\ Tail(s) \in Seq(S)
      /\ Len(s) \in Nat \ {0}
      /\ Len(Tail(s)) = Len(s) - 1
      /\ \A i \in 1 .. Len(Tail(s)) : Tail(s)[i] = s[i + 1]
      /\ Head(s) = s[1]
  BY HeadTailProperties
<1>2. \A i \in 1 .. Len(s) : i = 1 \/ (i - 1 \in 1 .. Len(Tail(s)) /\ Tail(s)[i - 1] = s[i])
  BY <1>1
<1>3. \A y : Has(s, y) => Has(Tail(s), y) \/ y = Head(s)
  BY <1>1, <1>2 DEF Has
<1>4. QED
  BY <1>1, <1>3

LEMMA EmptyHas == \A y : ~Has(<<>>, y)
BY DEF Has

-----------------------------------------------------------------------------
(* Types.                                                                  *)

Collector == [pc : ProgramPoints,
              outcome : {"none", "Ended", "Cancelled", "Reconnect", "Error"},
              origin : {"CatchUp", "LiveRefresh"}, requests : 0 .. Attempts,
              cause : {"none", "TopologyHint", "Overflow"},
              dirty : BOOLEAN, closed : BOOLEAN, committed : BOOLEAN,
              kind : {"none", "Startup", "Reconnect", "SocketReplacement"}]

Server == [world : Versions \ {0}, socket : Sockets]
Connection == [state : {"none", "open", "eof", "error"}, wire : Seq(PrimaryEvent), lost : BOOLEAN]
Call == [state : {"none", "sent", "answered"}, version : Versions]

ServerSide ==
    /\ herdr \in Server
    /\ stream \in Connection
    /\ call \in Call
    /\ faults \in 0 .. MaxFaults
    /\ noise \in 0 .. MaxNoise
    /\ herdr.socket <= faults + 1

Queues ==
    /\ reader \in [pc : {"reading", "blocked", "clean", "failed"}, held : PrimaryEvent]
    /\ channel \in Seq(PrimaryEvent) /\ Len(channel) <= Capacity
    /\ buffered \in Seq(PrimaryEvent) /\ Len(buffered) <= Capacity

Gap == [startups : Nat, attested : BOOLEAN, missing : BOOLEAN]

Shown ==
    /\ model \in Versions
    /\ quality \in {"Live", "Reconciling", "Disconnected"}
    /\ process \in [first : BOOLEAN, previous : {NoSocket} \cup Sockets, seen : Sockets]
    /\ gap \in Gap
    /\ facade \in Facade

Flags == overflowed \in BOOLEAN /\ blind \in BOOLEAN /\ cancelled \in BOOLEAN

\* An episode has an immediate request left when it asks for another snapshot, and
\* converge has an outcome when it has returned.
Episode ==
    /\ coll \in Collector
    /\ coll.pc = "generation" /\ coll.cause # "none" => coll.requests < Attempts
    /\ coll.pc = "joining" => coll.outcome # "none"

Types == ServerSide /\ Queues /\ Shown /\ Flags /\ Episode

LEMMA TypesImplyTypeOK == Types => TypeOK
BY Zenon DEF Types, TypeOK, ServerSide, Server, Connection, Call, Queues, Shown, Gap, Flags,
             Episode, Collector

LEMMA TypesInit == Init => Types
<1> SUFFICES ASSUME Init PROVE Types
  OBVIOUS
<1> USE ConvergenceAssumption DEF Init
<1>1. ServerSide
  BY DEF ServerSide, Server, Connection, Call, Versions, Sockets, NoCall, PrimaryEvent
<1>2. Queues
  BY DEF Queues, PrimaryEvent
<1>3. Shown
  BY DEF Shown, Gap, Facade, Versions, Sockets, NoSocket
<1>4. Flags
  BY Zenon DEF Flags
<1>5. Episode
  BY DEF Episode, Collector, NoConverge, ProgramPoints, Outside
<1>6. QED
  BY <1>1, <1>2, <1>3, <1>4, <1>5 DEF Types

\* Every write to the subscription's connection.
LEMMA ConnectionKept ==
    ASSUME NEW c \in Connection
    PROVE  /\ c.wire \in Seq(PrimaryEvent)
           /\ \A w \in Seq(PrimaryEvent) : [c EXCEPT !.wire = w] \in Connection
           /\ \A st \in {"eof", "error"} : [c EXCEPT !.state = st] \in Connection
           /\ \A b \in BOOLEAN : [c EXCEPT !.lost = b] \in Connection
BY DEF Connection

LEMMA ServerTypes ==
    ASSUME Types, ServerStep
    PROVE  Types'
<1> USE ConvergenceAssumption DEF Types
<1>1. ServerSide'
  <2>1. herdr' \in Server /\ herdr'.socket <= faults' + 1 /\ faults' \in 0 .. MaxFaults
    BY DEF ServerStep, Change, ChangeUnseen, GaugeEvent, StreamEnds, ReplaceSocket, Answer, Fault,
           Noise, ServerSide, Server, Versions, Sockets, budget
  <2>2. noise' \in 0 .. MaxNoise
    BY DEF ServerStep, Change, ChangeUnseen, GaugeEvent, StreamEnds, ReplaceSocket, Answer, Fault,
           Noise, ServerSide, budget
  <2>3. call' \in Call
    BY DEF ServerStep, Change, ChangeUnseen, GaugeEvent, StreamEnds, ReplaceSocket, Answer,
           ServerSide, Server, Call, Versions
  <2>4. stream' \in Connection
    <3>1. \A event \in PrimaryEvent : Pushed(event) \in Connection
      <4>1. stream \in Connection /\ stream.wire \in Seq(PrimaryEvent)
        BY ConnectionKept DEF ServerSide
      <4>2. QED
        BY <4>1, AppendProperties, ConnectionKept DEF Pushed
    <3>2. QED
      BY <3>1, ConnectionKept
      DEF ServerStep, Change, ChangeUnseen, GaugeEvent, StreamEnds, ReplaceSocket, Answer,
          ServerSide, PrimaryEvent
  <2>5. QED
    BY <2>1, <2>2, <2>3, <2>4 DEF ServerSide
<1>2. UNCHANGED <<reader, channel, overflowed, converging, cancelled>>
  BY DEF ServerStep, Change, ChangeUnseen, GaugeEvent, StreamEnds, ReplaceSocket, Answer, ServerFrame
<1>3. QED
  BY <1>1, <1>2 DEF converging, Queues, Shown, Flags, Episode

LEMMA ReaderTypes ==
    ASSUME Types, ReaderStep
    PROVE  Types'
<1> USE ConvergenceAssumption DEF Types
<1>1. UNCHANGED <<herdr, converging, call, cancelled, budget>>
  BY DEF ReaderStep, Read, Unblock, ReaderEnds, ReaderStops, ReaderFrame
<1>2. stream' \in Connection
  <2>1. stream \in Connection /\ stream.wire \in Seq(PrimaryEvent)
    BY ConnectionKept DEF ServerSide
  <2>2. CASE Read
    BY <2>1, <2>2, HeadTailProperties, ConnectionKept DEF Read
  <2>3. CASE UNCHANGED stream
    BY <2>1, <2>3
  <2>4. QED
    BY <2>2, <2>3 DEF ReaderStep, Unblock, ReaderEnds, ReaderStops
<1>3. reader' \in [pc : {"reading", "blocked", "clean", "failed"}, held : PrimaryEvent]
  <2>1. stream.wire # <<>> => Head(stream.wire) \in PrimaryEvent
    BY ConnectionKept, HeadTailProperties DEF ServerSide
  <2>2. QED
    BY <2>1 DEF ReaderStep, Read, Unblock, ReaderEnds, ReaderStops, Queues
<1>4. channel' \in Seq(PrimaryEvent) /\ Len(channel') <= Capacity
  <2>1. /\ stream.wire \in Seq(PrimaryEvent) /\ reader.held \in PrimaryEvent
        /\ stream.wire # <<>> => Head(stream.wire) \in PrimaryEvent
    BY ConnectionKept, HeadTailProperties DEF ServerSide, Queues
  <2>2. \/ UNCHANGED channel
        \/ \E event \in PrimaryEvent : Len(channel) < Capacity /\ channel' = Append(channel, event)
    BY <2>1, Zenon DEF ReaderStep, Read, Unblock, ReaderEnds, ReaderStops
  <2>3. QED
    BY <2>2, AppendProperties DEF Queues
<1>5. overflowed' \in BOOLEAN
  BY Zenon DEF ReaderStep, Read, Unblock, ReaderEnds, ReaderStops, Flags
<1>6. QED
  BY <1>1, <1>2, <1>3, <1>4, <1>5
  DEF converging, budget, ServerSide, Queues, Shown, Flags, Episode

\* retain_primary_event_or_mark_overflow, of the event the collector takes from its channel.
LEMMA RetainTypes ==
    ASSUME Queues, Flags, channel # <<>>, channel' = Tail(channel),
           retain_primary_event_or_mark_overflow, UNCHANGED reader
    PROVE  Queues' /\ overflowed' \in BOOLEAN /\ blind' \in BOOLEAN
<1> USE ConvergenceAssumption
<1>1. /\ Head(channel) \in PrimaryEvent
      /\ channel' \in Seq(PrimaryEvent) /\ Len(channel') <= Capacity
  BY HeadTailProperties DEF Queues
<1>2. buffered' \in Seq(PrimaryEvent) /\ Len(buffered') <= Capacity
  <2>1. CASE Len(buffered) < Capacity
    <3>1. buffered' = Append(buffered, Head(channel))
      BY <2>1 DEF retain_primary_event_or_mark_overflow
    <3>2. QED
      BY <1>1, <2>1, <3>1, AppendProperties DEF Queues
  <2>2. CASE ~(Len(buffered) < Capacity)
    BY <2>2 DEF Queues, retain_primary_event_or_mark_overflow
  <2>3. QED
    BY <2>1, <2>2
<1>3. overflowed' \in BOOLEAN /\ blind' \in BOOLEAN
  BY Zenon DEF Flags, retain_primary_event_or_mark_overflow
<1>4. QED
  BY <1>1, <1>2, <1>3 DEF Queues

\* Every write to the collector's program point and locals that keeps its other fields.
LEMMA CollectorKept ==
    ASSUME NEW c \in Collector
    PROVE  /\ \A pc \in ProgramPoints : [c EXCEPT !.pc = pc] \in Collector
           /\ NoConverge \in Collector
           /\ \A kind \in {"Startup", "Reconnect", "SocketReplacement"} :
                [NoConverge EXCEPT !.pc = "generation", !.kind = kind] \in Collector
           /\ \A outcome \in {"Ended", "Cancelled", "Reconnect", "Error"} :
                [c EXCEPT !.pc = "joining", !.outcome = outcome] \in Collector
<1> USE DEF Collector, ProgramPoints, Outside
<1>1. \A pc \in ProgramPoints : [c EXCEPT !.pc = pc] \in Collector
  OBVIOUS
<1>2. NoConverge \in Collector
  BY ConvergenceAssumption DEF NoConverge
<1>3. \A kind \in {"Startup", "Reconnect", "SocketReplacement"} :
        [NoConverge EXCEPT !.pc = "generation", !.kind = kind] \in Collector
  BY <1>2 DEF NoConverge
<1>4. \A outcome \in {"Ended", "Cancelled", "Reconnect", "Error"} :
        [c EXCEPT !.pc = "joining", !.outcome = outcome] \in Collector
  OBVIOUS
<1>5. QED
  BY <1>1, <1>2, <1>3, <1>4

\* Every return of converge.
LEMMA ExitEpisode ==
    ASSUME Episode, NEW outcome \in {"Ended", "Cancelled", "Reconnect", "Error"}, Exit(outcome)
    PROVE  Episode'
<1>1. coll' \in Collector
  BY CollectorKept DEF Exit, Episode
<1>2. coll'.pc = "joining" /\ coll'.outcome = outcome
  BY DEF Exit, Episode, Collector
<1>3. QED
  BY <1>1, <1>2 DEF Episode

NoStream == [state |-> "none", wire |-> <<>>, lost |-> FALSE]
NewStream == [state |-> "open", wire |-> <<>>, lost |-> FALSE]

LEMMA EmptyTypes ==
    /\ <<>> \in Seq(PrimaryEvent) /\ Len(<<>>) <= Capacity
    /\ NoStream \in Connection /\ NewStream \in Connection
    /\ NoCall \in Call /\ [NoCall EXCEPT !.state = "sent"] \in Call
<1>1. <<>> \in Seq(PrimaryEvent) /\ Len(<<>>) <= Capacity
  BY ConvergenceAssumption
<1>2. NoStream \in Connection /\ NewStream \in Connection
  BY DEF NoStream, NewStream, Connection
<1>3. NoCall \in Call /\ [NoCall EXCEPT !.state = "sent"] \in Call
  BY ConvergenceAssumption DEF NoCall, Call, Versions
<1>4. QED
  BY <1>1, <1>2, <1>3

LEMMA OuterTypes ==
    ASSUME Types, OuterStep
    PROVE  Types'
<1> USE DEF Types
<1>1. ServerSide'
  <2>1. stream' \in Connection
    BY EmptyTypes, Zenon
    DEF OuterStep, ReadIdentity, SubscribeInterrupted, Subscribe, SubscribeFails, Retry, Join,
        Finish, ServerSide, NoStream, NewStream
  <2>2. UNCHANGED <<herdr, call>> /\ (UNCHANGED budget \/ Fault \/ Noise)
    BY Zenon DEF OuterStep, ReadIdentity, SubscribeInterrupted, Subscribe, SubscribeFails, Retry,
                 Join, Finish, CollFrame
  <2>3. QED
    BY <2>1, <2>2, ConvergenceAssumption DEF ServerSide, Server, Sockets, Fault, Noise, budget
<1>2. Queues'
  <2>1. reader' \in {reader, [pc |-> "reading", held |-> Gauge]}
    BY DEF OuterStep, ReadIdentity, SubscribeInterrupted, Subscribe, SubscribeFails, Retry, Join,
           Finish
  <2>2. channel' \in {channel, <<>>} /\ buffered' \in {buffered, <<>>}
    BY DEF OuterStep, ReadIdentity, SubscribeInterrupted, Subscribe, SubscribeFails, Retry, Join,
           Finish
  <2>3. reader' \in [pc : {"reading", "blocked", "clean", "failed"}, held : PrimaryEvent]
    BY <2>1 DEF Queues, PrimaryEvent
  <2>4. QED
    BY <2>2, <2>3, EmptyTypes, Zenon DEF Queues
<1>3. Shown'
  <2>1. UNCHANGED <<model>> /\ quality' \in {"Live", "Reconciling", "Disconnected"}
    BY DEF OuterStep, ReadIdentity, SubscribeInterrupted, Subscribe, SubscribeFails, Retry, Join,
           Finish, Shown
  <2>2. process' \in [first : BOOLEAN, previous : {NoSocket} \cup Sockets, seen : Sockets]
    <3>1. CASE ReadIdentity
      BY <3>1 DEF ReadIdentity, Shown, ServerSide, Server
    <3>2. CASE Join
      BY <3>2 DEF Join, Committed, Shown
    <3>3. CASE UNCHANGED process
      BY <3>3 DEF Shown
    <3>4. QED
      BY <3>1, <3>2, <3>3
      DEF OuterStep, SubscribeInterrupted, Subscribe, SubscribeFails, Retry, Finish
  <2>3. gap' \in Gap
    <3>1. CASE Subscribe
      BY <3>1 DEF Subscribe, Shown, Gap
    <3>2. CASE UNCHANGED gap
      BY <3>2 DEF Shown
    <3>3. QED
      BY <3>1, <3>2
      DEF OuterStep, ReadIdentity, SubscribeInterrupted, SubscribeFails, Retry, Join, Finish
  <2>4. UNCHANGED facade
    BY DEF OuterStep, ReadIdentity, SubscribeInterrupted, Subscribe, SubscribeFails, Retry, Join,
           Finish
  <2>5. QED
    BY <2>1, <2>2, <2>3, <2>4 DEF Shown
<1>4. Flags'
  BY Zenon DEF OuterStep, ReadIdentity, SubscribeInterrupted, Subscribe, SubscribeFails, Retry, Join,
         Finish, CollFrame, Flags
<1>5. Episode'
  <2>1. CASE Subscribe
    <3>1. GapKind \in {"Startup", "Reconnect", "SocketReplacement"}
      BY DEF GapKind
    <3>2. coll' \in Collector
      BY <2>1, <3>1, CollectorKept DEF Subscribe, Episode
    <3>3. QED
      BY <2>1, <3>2 DEF Subscribe, NoConverge, Episode
  <2>2. CASE coll' = NoConverge
    BY <2>2, CollectorKept DEF NoConverge, Episode
  <2>3. CASE \E pc \in Outside : Goto(pc)
    <3>1. PICK pc \in Outside : coll' = [coll EXCEPT !.pc = pc]
      BY <2>3 DEF Goto
    <3>2. coll' \in Collector
      BY <3>1, CollectorKept DEF Episode, ProgramPoints
    <3>3. coll'.pc = pc /\ pc \notin {"generation", "joining"}
      BY <3>1 DEF Episode, Collector, Outside
    <3>4. QED
      BY <3>2, <3>3 DEF Episode
  <2>4. QED
    <3>1. Join => \E pc \in {"failed", "final", "waiting", "top"} : Goto(pc)
      BY DEF Join, Episode, At, Collector
    <3>2. QED
      BY <2>1, <2>2, <2>3, <3>1
      DEF OuterStep, ReadIdentity, SubscribeInterrupted, SubscribeFails, Retry, Finish, Outside
<1>6. QED
  BY <1>1, <1>2, <1>3, <1>4, <1>5

\* A marker, and a snapshot that brings its gap record with it, leave a history of gaps.
LEMMA MarkedTypes ==
    ASSUME NEW g \in Gap, NEW marked \in BOOLEAN, coll \in Collector
    PROVE  Marked(g, marked) \in Gap
BY DEF Marked, Gap, Collector

LEMMA InstalledTypes ==
    ASSUME gap \in Gap, coll \in Collector, Installed
    PROVE  gap' \in Gap /\ facade' \in Facade
<1>1. PICK row \in BOOLEAN, marked \in BOOLEAN :
        gap' = IF coll.committed THEN Marked(gap, marked)
               ELSE Marked([startups |-> gap.startups + (IF row /\ coll.kind = "Startup" THEN 1 ELSE 0),
                            attested |-> row \/ marked,
                            missing  |-> gap.missing \/ ~row], marked)
  BY DEF Installed
<1> DEFINE n == gap.startups + (IF row /\ coll.kind = "Startup" THEN 1 ELSE 0)
<1>2. n \in Nat
  BY DEF Gap
<1> HIDE DEF n
<1>3. [startups |-> n, attested |-> row \/ marked, missing |-> gap.missing \/ ~row] \in Gap
  BY <1>2 DEF Gap
<1>4. gap' \in Gap
  BY <1>1, <1>3, MarkedTypes DEF n
<1>5. QED
  BY <1>4 DEF Installed

\* What the steps of converge that receive nothing leave alone.
LEMMA RequestTypes ==
    ASSUME Types, RequestStep
    PROVE  Types'
<1> USE DEF Types
<1>1. ServerSide'
  <2>1. call' \in Call
    BY EmptyTypes, Zenon
    DEF RequestStep, StartGeneration, ReceiveDuringRequest, RequestFails, Install,
        InstallNotPersisted, Exit, ServerSide
  <2>2. UNCHANGED <<herdr, stream>> /\ (UNCHANGED budget \/ Fault)
    BY Zenon
    DEF RequestStep, StartGeneration, ReceiveDuringRequest, RequestFails, Install,
        InstallNotPersisted, Exit, ExitFrame, CollFrame
  <2>3. QED
    BY <2>1, <2>2, ConvergenceAssumption DEF ServerSide, Server, Sockets, Fault, budget
<1>2. Queues' /\ Flags'
  <2>1. CASE ReceiveDuringRequest
    BY <2>1, RetainTypes DEF ReceiveDuringRequest, CollFrame, Flags
  <2>2. CASE RequestStep /\ ~ReceiveDuringRequest
    <3>1. UNCHANGED <<reader, channel, buffered>>
      BY <2>2 DEF RequestStep, StartGeneration, RequestFails, Install, InstallNotPersisted, ExitFrame
    <3>2. Flags'
      BY <2>2, Zenon DEF RequestStep, StartGeneration, RequestFails, Install, InstallNotPersisted,
                         Exit, ExitFrame, CollFrame, Flags
    <3>3. QED
      BY <3>1, <3>2 DEF Queues
  <2>3. QED
    BY <2>1, <2>2
<1>3. Shown'
  <2>1. /\ UNCHANGED <<quality, process>>
        /\ model' \in {model, call.version}
        /\ UNCHANGED <<gap, facade>> \/ Installed
    BY DEF RequestStep, StartGeneration, ReceiveDuringRequest, RequestFails, Install,
           InstallNotPersisted, Installed, Exit, ExitFrame
  <2>2. gap' \in Gap /\ facade' \in Facade
    BY <2>1, InstalledTypes DEF Shown, Episode
  <2>3. QED
    BY <2>1, <2>2 DEF Shown, ServerSide, Call
<1>4. Episode'
  <2>1. CASE StartGeneration
    <3> DEFINE n == IF coll.cause = "none" THEN coll.requests ELSE coll.requests + 1
    <3>1. n \in 0 .. Attempts
      BY <2>1, ConvergenceAssumption DEF StartGeneration, At, Episode, Collector
    <3>2. coll' = [coll EXCEPT !.pc = "request", !.cause = "none", !.requests = n]
      BY <2>1, Zenon DEF StartGeneration
    <3> HIDE DEF n
    <3>3. coll' \in Collector /\ coll'.pc = "request"
      BY <3>1, <3>2 DEF Episode, Collector, ProgramPoints
    <3>4. QED
      BY <3>3 DEF Episode
  <2>2. CASE ReceiveDuringRequest
    BY <2>2 DEF ReceiveDuringRequest, Episode
  <2>3. CASE RequestFails
    BY <2>3, ExitEpisode DEF RequestFails
  <2>4. CASE Install
    BY <2>4 DEF Install, Episode, Collector, ProgramPoints, InReplay
  <2>5. CASE InstallNotPersisted
    BY <2>5 DEF InstallNotPersisted, Episode, Collector, ProgramPoints
  <2>6. QED
    BY <2>1, <2>2, <2>3, <2>4, <2>5 DEF RequestStep
<1>5. QED
  BY <1>1, <1>2, <1>3, <1>4

\* Another generation of the same episode, or the quiescence monitor.
LEMMA AnotherEpisode ==
    ASSUME Episode, NEW cause \in {"TopologyHint", "Overflow"}, AnotherGeneration(cause)
    PROVE  Episode'
<1>1. CASE coll.requests >= Attempts
  <2>1. coll' = [coll EXCEPT !.pc = "reconciling"]
    BY <1>1 DEF AnotherGeneration
  <2>2. coll' \in Collector
    BY <2>1, CollectorKept DEF Episode, ProgramPoints, Monitoring
  <2>4. coll'.pc = "reconciling"
    BY <2>1 DEF Episode, Collector
  <2>3. QED
    BY <2>2, <2>4 DEF Episode
<1>2. CASE ~(coll.requests >= Attempts)
  <2>1. coll' = [coll EXCEPT !.pc = "generation", !.cause = cause]
    BY <1>2 DEF AnotherGeneration
  <2>2. /\ coll' \in Collector /\ coll'.pc = "generation"
        /\ coll'.requests = coll.requests /\ coll.requests \in 0 .. Attempts
    BY <2>1 DEF Episode, Collector, ProgramPoints
  <2>3. QED
    BY <1>2, <2>2, ConvergenceAssumption DEF Episode
<1>3. QED
  BY <1>1, <1>2

LEMMA GotoEpisode ==
    ASSUME Episode, NEW pc \in ProgramPoints \ {"generation", "joining"}, Goto(pc)
    PROVE  Episode'
<1>1. coll' \in Collector
  BY CollectorKept DEF Goto, Episode
<1>2. coll'.pc = pc
  BY DEF Goto, Episode, Collector
<1>3. QED
  BY <1>1, <1>2 DEF Episode

\* The two locals of the replay.
LEMMA ClosedEpisode ==
    ASSUME Episode, NEW b \in BOOLEAN, coll' = [coll EXCEPT !.pc = "check", !.closed = b]
    PROVE  Episode'
<1>1. coll' \in Collector /\ coll'.pc = "check"
  BY DEF Episode, Collector, ProgramPoints, InReplay
<1>2. QED
  BY <1>1 DEF Episode

LEMMA DirtyEpisode ==
    ASSUME Episode, NEW b \in BOOLEAN, coll' = [coll EXCEPT !.pc = "drain", !.dirty = b]
    PROVE  Episode'
<1>1. coll' \in Collector /\ coll'.pc = "drain"
  BY DEF Episode, Collector, ProgramPoints, InReplay
<1>2. QED
  BY <1>1 DEF Episode

LEMMA ReplayTypes ==
    ASSUME Types, ReplayStep
    PROVE  Types'
<1> USE DEF Types
<1>1. ServerSide'
  <2>1. call' \in {call, NoCall} /\ UNCHANGED <<herdr, stream>> /\ (UNCHANGED budget \/ Noise)
    BY DEF ReplayStep, Drain, Drained, ReplayOverflow, Replay, ReplayEnded, AwaitQuiet, QuietBroken,
           QuietClosed, QuietInterrupted, QuietElapsed, Settle, Exit, ExitFrame, CollFrame
  <2>2. QED
    BY <2>1, EmptyTypes, ConvergenceAssumption DEF ServerSide, Noise, budget
<1>2. Queues' /\ Flags'
  <2>1. CASE Drain \/ QuietBroken
    BY <2>1, RetainTypes DEF Drain, QuietBroken, CollFrame, Flags
  <2>2. CASE Replay
    <3>1. UNCHANGED <<reader, channel, overflowed, cancelled, blind>>
      BY <2>2 DEF Replay, CollFrame
    <3>2. buffered # <<>> /\ buffered' = Tail(buffered)
      BY <2>2 DEF Replay
    <3>3. buffered' \in Seq(PrimaryEvent) /\ Len(buffered') <= Capacity
      BY <3>2, HeadTailProperties, ConvergenceAssumption DEF Queues
    <3>4. QED
      BY <3>1, <3>3 DEF Queues, Flags
  <2>3. CASE ReplayOverflow
    BY <2>3, EmptyTypes, Zenon DEF ReplayOverflow, recover_replay_overflow, CollFrame, Queues, Flags
  <2>4. CASE Drained \/ ReplayEnded \/ AwaitQuiet \/ QuietClosed \/ QuietInterrupted
             \/ QuietElapsed \/ Settle
    <3>1. UNCHANGED <<reader, channel, buffered, overflowed, cancelled>>
      BY <2>4 DEF Drained, ReplayEnded, AwaitQuiet, QuietClosed, QuietInterrupted, QuietElapsed,
                  Settle, ExitFrame, CollFrame
    <3>2. blind' \in BOOLEAN
      BY <2>4, Zenon DEF Drained, ReplayEnded, AwaitQuiet, QuietClosed, QuietInterrupted,
                         QuietElapsed, Settle, Exit, Flags
    <3>3. QED
      BY <3>1, <3>2 DEF Queues, Flags
  <2>5. QED
    BY <2>1, <2>2, <2>3, <2>4 DEF ReplayStep
<1>3. Shown'
  <2>1. UNCHANGED <<model, process, gap, facade>> /\ quality' \in {quality, "Reconciling", "Live"}
    BY DEF ReplayStep, Drain, Drained, ReplayOverflow, Replay, ReplayEnded, AwaitQuiet, QuietBroken,
           QuietClosed, QuietInterrupted, QuietElapsed, Settle, Exit, ExitFrame,
           recover_replay_overflow, AnotherGeneration
  <2>2. QED
    BY <2>1 DEF Shown
<1>4. Episode'
  <2>1. CASE Drained
    <3>1. ReaderDone \in BOOLEAN
      BY DEF ReaderDone
    <3>2. QED
      BY <2>1, <3>1, ClosedEpisode DEF Drained
  <2>2. CASE ReplayOverflow
    BY <2>2, AnotherEpisode DEF ReplayOverflow, recover_replay_overflow
  <2>3. CASE Replay
    BY <2>3, DirtyEpisode DEF Replay
  <2>4. CASE QuietClosed
    BY <2>4, ClosedEpisode DEF QuietClosed
  <2>5. CASE Settle
    BY <2>5, AnotherEpisode, ExitEpisode, GotoEpisode DEF Settle, ProgramPoints, Monitoring
  <2>6. CASE ReplayEnded
    BY <2>6, ExitEpisode DEF ReplayEnded
  <2>7. CASE Drain \/ AwaitQuiet \/ QuietBroken \/ QuietInterrupted \/ QuietElapsed
    BY <2>7, GotoEpisode
    DEF Drain, AwaitQuiet, QuietBroken, QuietInterrupted, QuietElapsed, ProgramPoints, InReplay,
        Episode
  <2>8. QED
    BY <2>1, <2>2, <2>3, <2>4, <2>5, <2>6, <2>7 DEF ReplayStep
<1>5. QED
  BY <1>1, <1>2, <1>3, <1>4

\* The two ways out of a monitor into a new episode.
LEMMA FreshEpisode ==
    ASSUME Episode,
           \/ \E cause \in {"TopologyHint", "Overflow"} : LiveRefresh(cause)
           \/ RestartGeneration
    PROVE  Episode' /\ quality' \in {quality, "Reconciling"} /\ blind' = FALSE /\ call' = NoCall
<1> USE ConvergenceAssumption
<1>1. CASE RestartGeneration
  <2>1. coll' \in Collector
    <3>1. coll' = [coll EXCEPT !.pc = "generation", !.requests = 0] /\ 0 \in 0 .. Attempts
      BY <1>1 DEF RestartGeneration
    <3>2. QED
      BY <3>1 DEF Episode, Collector, ProgramPoints
  <2>2. coll'.pc = "generation" /\ coll'.requests = 0
    BY <1>1 DEF RestartGeneration, Episode, Collector
  <2>3. QED
    BY <1>1, <2>1, <2>2 DEF RestartGeneration, Episode
<1>2. ASSUME NEW cause \in {"TopologyHint", "Overflow"}, LiveRefresh(cause)
      PROVE  Episode' /\ quality' \in {quality, "Reconciling"} /\ blind' = FALSE /\ call' = NoCall
  <2>1. coll' \in Collector
    <3>1. /\ coll' = [coll EXCEPT !.pc = "generation", !.origin = "LiveRefresh", !.requests = 0,
                                  !.cause = cause]
          /\ 0 \in 0 .. Attempts
      BY <1>2 DEF LiveRefresh
    <3>2. QED
      BY <3>1 DEF Episode, Collector, ProgramPoints
  <2>2. coll'.pc = "generation" /\ coll'.requests = 0
    BY <1>2 DEF LiveRefresh, Episode, Collector
  <2>3. QED
    BY <1>2, <2>1, <2>2 DEF LiveRefresh, Episode
<1>3. QED
  BY <1>1, <1>2

LEMMA MonitorTypes ==
    ASSUME Types, MonitorStep \/ ExitStep
    PROVE  Types'
<1> USE DEF Types
<1>1. ServerSide'
  <2>1. /\ call' \in {call, NoCall, [NoCall EXCEPT !.state = "sent"]}
        /\ UNCHANGED <<herdr, stream>> /\ (UNCHANGED budget \/ Fault)
    BY Zenon
    DEF MonitorStep, MonitorOverflow, LiveHint, MonitorEvent, WatchdogExpires, ProbeFails,
        ProbeInconclusive, ProbeHealthy, ProbeDiverged, ExitStep, ConvergeCancelled, ConvergeEnded,
        ConvergeError, LiveRefresh, RestartGeneration, Exit, ExitFrame, CollFrame
  <2>2. call' \in Call
    BY <2>1, EmptyTypes DEF ServerSide
  <2>3. QED
    BY <2>1, <2>2, ConvergenceAssumption DEF ServerSide, Server, Sockets, Fault, budget
<1>2. Queues'
  <2>1. /\ UNCHANGED <<reader, buffered>>
        /\ \/ UNCHANGED channel
           \/ channel # <<>> /\ channel' = Tail(channel)
    BY DEF MonitorStep, MonitorOverflow, LiveHint, MonitorEvent, WatchdogExpires, ProbeFails,
           ProbeInconclusive, ProbeHealthy, ProbeDiverged, ExitStep, ConvergeCancelled, ConvergeEnded,
           ConvergeError, ExitFrame
  <2>2. channel \in Seq(PrimaryEvent) /\ Len(channel) <= Capacity
    BY Zenon DEF Queues
  <2>3. channel' \in Seq(PrimaryEvent) /\ Len(channel') <= Capacity
    <3>1. CASE UNCHANGED channel
      BY <2>2, <3>1, Zenon
    <3>2. CASE channel # <<>> /\ channel' = Tail(channel)
      BY <2>2, <3>2, HeadTailProperties, ConvergenceAssumption
    <3>3. QED
      BY <2>1, <3>1, <3>2, Zenon
  <2>4. QED
    BY <2>1, <2>3, Zenon DEF Queues
<1>3. CASE UNCHANGED <<coll, model, quality, process, gap, facade, overflowed, blind, cancelled>>
  BY <1>1, <1>2, <1>3 DEF Shown, Flags, Episode
<1>4. CASE /\ \E outcome \in {"Ended", "Cancelled", "Reconnect", "Error"} : Exit(outcome)
           /\ UNCHANGED <<model, quality, process, gap, facade, overflowed, cancelled>>
  <2>1. Episode'
    BY <1>4, ExitEpisode
  <2>2. blind' \in BOOLEAN
    BY <1>4 DEF Exit
  <2>3. QED
    BY <1>1, <1>2, <1>4, <2>1, <2>2 DEF Shown, Flags
<1>5. CASE /\ \/ \E cause \in {"TopologyHint", "Overflow"} : LiveRefresh(cause)
              \/ RestartGeneration
           /\ UNCHANGED <<model, process, gap, facade, cancelled>>
           /\ overflowed' \in {overflowed, FALSE}
  <2>1. Episode' /\ quality' \in {quality, "Reconciling"} /\ blind' = FALSE
    BY <1>5, FreshEpisode
  <2>2. overflowed' \in BOOLEAN /\ blind' \in BOOLEAN
    BY <1>5, <2>1, Zenon DEF Flags
  <2>3. QED
    BY <1>1, <1>2, <1>5, <2>1, <2>2 DEF Shown, Flags
<1>6. QED
  BY <1>3, <1>4, <1>5
  DEF MonitorStep, MonitorOverflow, LiveHint, MonitorEvent, WatchdogExpires, ProbeFails,
      ProbeInconclusive, ProbeHealthy, ProbeDiverged, ExitStep, ConvergeCancelled, ConvergeEnded,
      ConvergeError, ExitFrame, CollFrame

LEMMA TypesStep ==
    ASSUME Types, [Next]_vars
    PROVE  Types'
<1>1. CASE UNCHANGED vars
  BY <1>1 DEF vars, budget, Types, ServerSide, Queues, Shown, Flags, Episode
<1>2. CASE Cancel
  <2>1. cancelled' \in BOOLEAN
    BY <1>2 DEF Cancel
  <2>2. QED
    BY <1>2, <2>1
    DEF Cancel, converging, budget, Types, ServerSide, Queues, Shown, Flags, Episode
<1>3. CASE PersistElse
  <2>1. gap' \in Gap /\ facade' \in Facade
    BY <1>3, MarkedTypes DEF PersistElse, Types, Shown, Episode
  <2>2. UNCHANGED <<herdr, cancelled, stream, reader, channel, overflowed, coll, buffered, call,
                    model, quality, process, blind, budget>>
    BY <1>3 DEF PersistElse, CollFrame
  <2>3. QED
    BY <2>1, <2>2 DEF budget, Types, ServerSide, Queues, Shown, Flags, Episode
<1>4. QED
  BY <1>1, <1>2, <1>3, ServerTypes, ReaderTypes, OuterTypes, RequestTypes, ReplayTypes,
     MonitorTypes
  DEF Next, Stopped

\* Every variable keeps its type and the channel, the buffer and the requests of an episode
\* keep their bounds, in converge, replay_generation and the monitors alike.
THEOREM ConvergenceTypes == Spec => []TypeOK
<1>1. Types /\ [Next]_vars => Types'
  BY TypesStep
<1>2. QED
  BY <1>1, TypesInit, TypesImplyTypeOK, PTL DEF Spec

-----------------------------------------------------------------------------
(* Discarded and missed events.                                            *)

Converge == {"generation", "request"} \cup InReplay \cup Monitoring

\* A rate epoch that misses events is ended before the next request, or the overflow that
\* caused it is still flagged; a committed subscription has its gap on record or has lost it,
\* for which the facade answers, and only the first one of the process can be the startup.
Traces ==
    /\ coll.pc \in {"generation"} \cup Monitoring => ~blind
    /\ coll.pc \in {"request"} \cup InReplay /\ blind => overflowed
    /\ coll.pc \in InReplay \cup Monitoring => coll.committed
    /\ coll.pc \in Converge /\ coll.committed => gap.attested \/ gap.missing
    /\ gap.missing => facade.degraded \/ facade.owed
    /\ gap.startups <= 1
    /\ process.first /\ ~coll.committed => gap.startups = 0
    /\ coll.pc \in Outside \ {"failed"} /\ coll.committed => ~process.first
    /\ coll.pc \in Converge /\ coll.kind = "Startup" => process.first

LEMMA TracesInit == Init => Traces
BY DEF Init, Traces, NoConverge, Converge, InReplay, Monitoring, Outside

LEMMA OuterTraces ==
    ASSUME Types, Traces, OuterStep
    PROVE  Traces'
<1> USE DEF Types, Episode, Shown
<1>1. CASE ReadIdentity
  BY <1>1 DEF ReadIdentity, At, Goto, Traces, Collector, Converge, InReplay, Monitoring, Outside
<1>2. CASE SubscribeInterrupted
  BY <1>2 DEF SubscribeInterrupted, At, Goto, Traces, Collector, Converge, InReplay, Monitoring, Outside
<1>3. CASE Subscribe
  BY <1>3
  DEF Subscribe, At, GapKind, NoConverge, Traces, Collector, Converge, InReplay, Monitoring, Outside
<1>4. CASE SubscribeFails
  BY <1>4 DEF SubscribeFails, At, Goto, Traces, Collector, Converge, InReplay, Monitoring, Outside
<1>5. CASE Retry
  BY <1>5
  DEF Retry, At, Goto, NoConverge, Traces, Collector, Converge, InReplay, Monitoring, Outside
<1>6. CASE Join
  <2>1. PICK pc \in {"failed", "final", "waiting", "top"} : Goto(pc)
    BY <1>6 DEF Join, At, Collector
  <2>2. coll'.pc = pc /\ coll'.committed = coll.committed
    BY <2>1 DEF Goto, Collector
  <2>3. /\ process'.first => process.first
        /\ pc # "failed" /\ coll.committed => ~process'.first
    <3>1. CASE coll.outcome = "Error"
      <4>1. coll'.pc = "failed" /\ process' = process
        BY <1>6, <3>1 DEF Join, Goto, Collector
      <4>2. QED
        BY <2>2, <4>1
    <3>2. CASE coll.outcome # "Error"
      <4>1. process' = Committed
        BY <1>6, <3>2 DEF Join
      <4>2. QED
        BY <4>1 DEF Committed
    <3>3. QED
      BY <3>1, <3>2
  <2>4. UNCHANGED <<gap, facade>>
    BY <1>6 DEF Join
  <2>5. QED
    BY <2>2, <2>3, <2>4 DEF Traces, Converge, InReplay, Monitoring, Outside
<1>7. CASE Finish
  BY <1>7 DEF Finish, At, Goto, Traces, Collector, Converge, InReplay, Monitoring, Outside
<1>8. QED
  BY <1>1, <1>2, <1>3, <1>4, <1>5, <1>6, <1>7 DEF OuterStep

\* converge returns: nothing is claimed of the epoch until the next subscription.
LEMMA ExitTraces ==
    ASSUME Types, Traces, NEW outcome, Exit(outcome), coll.pc \in Converge,
           UNCHANGED <<process, gap, facade>>
    PROVE  Traces'
BY DEF Exit, Types, Episode, Traces, Collector, Converge, InReplay, Monitoring, Outside

\* A write that loses its rows leaves the facade degraded or owing the marker, and a facade
\* that answers for a loss does so until the marker is written (record_facade_failure,
\* ingest_writer_status, persist_recovery_marker_if_pending).
Answers(f) == f.degraded \/ f.owed

LEMMA WriteAnswers ==
    ASSUME NEW f \in Facade, NEW g \in Facade, NEW row \in BOOLEAN, apply_v6(f, row, g)
    PROVE  ~row \/ Answers(f) => Answers(g)
BY DEF apply_v6, Observed, Recovered, Degraded, Facade, Answers

LEMMA MarkerAnswers ==
    ASSUME NEW f \in Facade, NEW g \in Facade, NEW marked \in BOOLEAN,
           persist_recovery_marker(f, marked, g), Answers(f), ~marked
    PROVE  Answers(g)
BY DEF persist_recovery_marker, Facade, Answers

LEMMA SubmissionAnswers ==
    ASSUME facade \in Facade, facade' \in Facade, NEW row \in BOOLEAN, NEW marked \in BOOLEAN,
           Submission(row, marked), ~row \/ Answers(facade), ~marked
    PROVE  Answers(facade)'
<1>1. PICK f \in Facade : apply_v6(facade, row, f) /\ persist_recovery_marker(f, marked, facade')
  BY DEF Submission
<1>2. Answers(f)
  BY <1>1, WriteAnswers
<1>3. Answers(facade')
  BY <1>1, <1>2, MarkerAnswers
<1>4. QED
  BY <1>3 DEF Answers

\* What becomes of the history of gaps when a snapshot is installed.
LEMMA InstalledTraces ==
    ASSUME Types, Traces, Installed, coll.pc = "request"
    PROVE  /\ gap'.attested \/ gap'.missing
           /\ gap'.missing => Answers(facade)'
           /\ gap'.startups <= 1
<1> USE DEF Types, Episode, Shown
<1>1. PICK row \in BOOLEAN, marked \in BOOLEAN :
        /\ Submission(row, marked)
        /\ gap' = IF coll.committed THEN Marked(gap, marked)
                  ELSE Marked([startups |-> gap.startups + (IF row /\ coll.kind = "Startup" THEN 1 ELSE 0),
                               attested |-> row \/ marked,
                               missing  |-> gap.missing \/ ~row], marked)
  BY DEF Installed
<1>2. facade' \in Facade /\ (gap.missing => Answers(facade))
  BY DEF Installed, Traces, Answers
<1>3. CASE coll.committed
  <2>1. gap' = IF marked THEN [gap EXCEPT !.missing = FALSE, !.attested = TRUE] ELSE gap
    BY <1>1, <1>3 DEF Marked, Gap, Collector
  <2>2. (gap.attested \/ gap.missing) /\ gap.startups <= 1
    BY <1>3 DEF Traces, Converge
  <2>3. ~marked /\ gap.missing => Answers(facade)'
    BY <1>1, <1>2, SubmissionAnswers
  <2>4. QED
    BY <2>1, <2>2, <2>3 DEF Gap
<1>4. CASE ~coll.committed
  <2> DEFINE n == gap.startups + (IF row /\ coll.kind = "Startup" THEN 1 ELSE 0)
  <2>1. n \in Nat /\ n <= 1
    BY <1>4 DEF Traces, Converge, Gap
  <2>2. gap' = Marked([startups |-> n, attested |-> row \/ marked,
                       missing |-> gap.missing \/ ~row], marked)
    BY <1>1, <1>4
  <2> HIDE DEF n
  <2>3. /\ gap'.startups = n
        /\ gap'.attested \/ gap'.missing
        /\ gap'.missing => ~marked /\ (gap.missing \/ ~row)
    BY <2>2 DEF Marked
  <2>4. gap'.missing => Answers(facade)'
    BY <1>1, <1>2, <2>3, SubmissionAnswers
  <2>5. QED
    BY <2>1, <2>3, <2>4
<1>5. QED
  BY <1>3, <1>4 DEF Collector

LEMMA PersistTraces ==
    ASSUME Types, Traces, PersistElse
    PROVE  Traces'
<1> USE DEF Types, Episode, Shown
<1>1. PICK row \in BOOLEAN, marked \in BOOLEAN :
        /\ Submission(row, marked) \/ (~marked /\ apply_v6(facade, row, facade'))
        /\ gap' = Marked(gap, marked)
  BY DEF PersistElse
<1>2. facade' \in Facade /\ UNCHANGED <<coll, overflowed, process, blind>>
  BY DEF PersistElse
<1>3. ~marked /\ Answers(facade) => Answers(facade)'
  BY <1>1, <1>2, SubmissionAnswers, WriteAnswers
<1>4. /\ gap'.startups = gap.startups
      /\ gap'.missing => gap.missing /\ ~marked
      /\ coll.committed /\ (gap.attested \/ gap.missing) => gap'.attested \/ gap'.missing
  BY <1>1 DEF Marked, Gap
<1>5. gap'.missing => Answers(facade)'
  BY <1>3, <1>4 DEF Traces, Answers
<1>6. QED
  BY <1>2, <1>4, <1>5 DEF Traces, Answers

LEMMA RequestTraces ==
    ASSUME Types, Traces, RequestStep
    PROVE  Traces'
<1> USE DEF Types, Episode, Shown
<1>1. CASE StartGeneration
  BY <1>1
  DEF StartGeneration, At, Traces, Collector, Converge, InReplay, Monitoring, Outside
<1>2. CASE ReceiveDuringRequest
  BY <1>2
  DEF ReceiveDuringRequest, retain_primary_event_or_mark_overflow, At, Traces, Converge, InReplay,
      Monitoring, Outside
<1>3. CASE RequestFails
  BY <1>3, ExitTraces DEF RequestFails, At, ExitFrame, Converge
<1>4. CASE Install
  <2>1. /\ gap'.attested \/ gap'.missing
        /\ gap'.missing => facade'.degraded \/ facade'.owed
        /\ gap'.startups <= 1
    BY <1>4, InstalledTraces DEF Install, At, Answers
  <2>2. /\ coll.pc = "request" /\ coll'.pc = "drain" /\ coll'.committed
        /\ coll'.kind = coll.kind /\ UNCHANGED <<overflowed, process, blind>>
    BY <1>4 DEF Install, At, Collector
  <2>3. QED
    BY <2>1, <2>2 DEF Traces, Converge, InReplay, Monitoring, Outside
<1>5. CASE InstallNotPersisted
  <2>1. /\ gap'.missing => facade'.degraded \/ facade'.owed
        /\ gap'.startups <= 1
    BY <1>5, InstalledTraces DEF InstallNotPersisted, At, Answers, Traces
  <2>2. /\ coll'.pc = "joining" /\ coll'.committed
        /\ coll.pc = "request" /\ UNCHANGED process
    BY <1>5 DEF InstallNotPersisted, At, Collector
  <2>3. QED
    BY <2>1, <2>2 DEF Traces, Converge, InReplay, Monitoring, Outside
<1>6. QED
  BY <1>1, <1>2, <1>3, <1>4, <1>5 DEF RequestStep

LEMMA ReplayTraces ==
    ASSUME Types, Traces, ReplayStep
    PROVE  Traces'
<1> USE DEF Types, Episode
<1>1. CASE Drain \/ QuietBroken
  BY <1>1
  DEF Drain, QuietBroken, retain_primary_event_or_mark_overflow, At, Goto, Traces, Collector,
      Converge, InReplay, Monitoring, Outside
<1>2. CASE Drained \/ Replay \/ AwaitQuiet \/ QuietClosed \/ QuietInterrupted \/ QuietElapsed
  <2>1. /\ coll.pc \in InReplay /\ coll'.pc \in InReplay
        /\ coll'.committed = coll.committed /\ coll'.kind = coll.kind
        /\ UNCHANGED <<overflowed, process, gap, facade, blind>>
    BY <1>2
    DEF Drained, Replay, AwaitQuiet, QuietClosed, QuietInterrupted, QuietElapsed, At, Goto,
        Collector, InReplay
  <2>2. QED
    BY <2>1 DEF Traces, Converge, InReplay, Monitoring, Outside
<1>3. CASE ReplayOverflow
  BY <1>3
  DEF ReplayOverflow, recover_replay_overflow, AnotherGeneration, At, Traces, Collector, Converge,
      InReplay, Monitoring, Outside
<1>4. CASE ReplayEnded
  BY <1>4, ExitTraces DEF ReplayEnded, At, ExitFrame, Converge, InReplay
<1>5. CASE Settle
  <2>1. CASE Exit("Cancelled")
    BY <1>5, <2>1, ExitTraces DEF Settle, At, Converge, InReplay
  <2>2. CASE coll.dirty /\ AnotherGeneration("TopologyHint") /\ blind' = FALSE
    BY <1>5, <2>2
    DEF Settle, AnotherGeneration, At, Traces, Collector, Converge, InReplay, Monitoring, Outside
  <2>3. CASE Goto("live") /\ UNCHANGED blind
    BY <1>5, <2>3
    DEF Settle, Goto, At, Traces, Collector, Converge, InReplay, Monitoring, Outside
  <2>4. QED
    BY <1>5, <2>1, <2>2, <2>3 DEF Settle
<1>6. QED
  BY <1>1, <1>2, <1>3, <1>4, <1>5 DEF ReplayStep

LEMMA MonitorTraces ==
    ASSUME Types, Traces, MonitorStep \/ ExitStep
    PROVE  Traces'
<1> USE DEF Types, Episode
<1>1. CASE \E outcome : Exit(outcome)
  <2>1. coll.pc \in Converge /\ UNCHANGED <<process, gap, facade>>
    BY <1>1
    DEF MonitorStep, MonitorOverflow, LiveHint, MonitorEvent, WatchdogExpires, ProbeFails,
        ProbeInconclusive, ProbeHealthy, ProbeDiverged, ExitStep, ConvergeCancelled, ConvergeEnded,
        ConvergeError, ExitFrame, At, Converge, InReplay, Monitoring
  <2>2. QED
    BY <1>1, <2>1, ExitTraces
<1>2. CASE \/ \E cause \in {"TopologyHint", "Overflow"} : LiveRefresh(cause)
           \/ RestartGeneration
  <2>1. (coll.pc \in Monitoring /\ UNCHANGED <<process, gap, facade>>) \/ \E outcome : Exit(outcome)
    BY <1>2
    DEF MonitorStep, MonitorOverflow, LiveHint, MonitorEvent, WatchdogExpires, ProbeFails,
        ProbeInconclusive, ProbeHealthy, ProbeDiverged, ExitStep, ConvergeCancelled, ConvergeEnded,
        ConvergeError, At, Monitoring
  <2>2. CASE coll.pc \in Monitoring /\ UNCHANGED <<process, gap, facade>>
    <3>1. /\ coll'.pc = "generation" /\ blind' = FALSE
          /\ coll'.committed = coll.committed /\ coll'.kind = coll.kind
      BY <1>2 DEF LiveRefresh, RestartGeneration, Collector
    <3>2. QED
      BY <2>2, <3>1 DEF Traces, Converge, InReplay, Monitoring, Outside
  <2>3. QED
    BY <1>1, <2>1, <2>2
<1>3. CASE UNCHANGED <<coll, overflowed, blind, process, gap, facade>>
  BY <1>3 DEF Traces
<1>4. QED
  BY <1>1, <1>2, <1>3
  DEF MonitorStep, MonitorOverflow, LiveHint, MonitorEvent, WatchdogExpires, ProbeFails,
      ProbeInconclusive, ProbeHealthy, ProbeDiverged, ExitStep, ConvergeCancelled, ConvergeEnded,
      ConvergeError, At, Monitoring

LEMMA TracesStep ==
    ASSUME Types, Traces, [Next]_vars
    PROVE  Traces'
<1>1. CASE ServerStep \/ ReaderStep \/ Cancel \/ Stopped \/ UNCHANGED vars
  <2>1. UNCHANGED converging /\ (overflowed => overflowed')
    BY <1>1
    DEF ServerStep, Change, ChangeUnseen, GaugeEvent, StreamEnds, ReplaceSocket, Answer, ServerFrame,
        ReaderStep, Read, Unblock, ReaderEnds, ReaderStops, ReaderFrame, Cancel, Stopped, vars,
        converging
  <2>2. QED
    BY <2>1 DEF converging, Traces
<1>2. QED
  BY <1>1, OuterTraces, RequestTraces, ReplayTraces, MonitorTraces, PersistTraces DEF Next

\* What the collector dropped in an overflow or missed between subscriptions is accounted for
\* before it shows itself Live: recover_replay_overflow and the monitors have ended the rate
\* epoch, and the interval before this subscription is on record, as a startup at most once in
\* the life of the process.  Where the write of the record was skipped, failed or came to an
\* unknown end, the facade is degraded or owes the marker of that outage, then and after any
\* reconnect, until a marker is in the database.
THEOREM DiscardsAccounted == Spec => []DiscardsLeaveTraces
<1>1. Init => Types /\ Traces
  BY TypesInit, TracesInit
<1>2. Types /\ Traces /\ [Next]_vars => (Types /\ Traces)'
  BY TypesStep, TracesStep
<1>3. Types /\ Traces => DiscardsLeaveTraces
  BY DEF Traces, Converge, Monitoring, DiscardsLeaveTraces, NoRateAcrossDiscard, GapsAttested
<1>4. QED
  BY <1>1, <1>2, <1>3, PTL DEF Spec

-----------------------------------------------------------------------------
(* No change is lost.                                                      *)

\* The collector will come to know, by what it has not received yet, that the topology it
\* asked for is out of date.
Noticed == HintOnItsWay \/ overflowed \/ SubscriptionEnding \/ stream.lost

\* What LiveCoversWorld says while Live is what is left, phase by phase, of: the answer to
\* the request is Herdr's topology, or the hint of what came later is in the buffer, was
\* replayed, or is noticed.
Coverage ==
    /\ coll.pc = "request" /\ call.state = "answered" =>
           call.version = herdr.world \/ Has(buffered, Hint) \/ Noticed
    /\ coll.pc \in InReplay =>
           model = herdr.world \/ Has(buffered, Hint) \/ coll.dirty \/ Noticed
    /\ coll.pc \in {"quiet", "settle"} => buffered = <<>>
    /\ coll.pc = "live" => model = herdr.world \/ Noticed
    /\ quality = "Live" => coll.pc \notin Converge \ {"live"}

LEMMA CoverageInit == Init => Coverage
BY DEF Init, Coverage, NoConverge, Converge, InReplay, Monitoring

LEMMA NoticedKept ==
    ASSUME UNCHANGED <<stream, reader, channel>>, overflowed => overflowed', Noticed
    PROVE  Noticed'
BY DEF Noticed, HintOnItsWay, SubscriptionEnding, ReaderDone, Has

\* The reader moves a hint on, it drops none.
LEMMA ReaderNotices ==
    ASSUME Types, ReaderStep, Noticed
    PROVE  Noticed'
<1>1. /\ stream.wire \in Seq(PrimaryEvent) /\ channel \in Seq(PrimaryEvent)
      /\ reader.held \in PrimaryEvent /\ stream \in Connection
  BY ConnectionKept DEF Types, ServerSide, Queues
<1>2. CASE Read
  <2>1. /\ Head(stream.wire) \in PrimaryEvent
        /\ stream'.wire = Tail(stream.wire) /\ stream'.state = stream.state
        /\ stream'.lost = stream.lost
        /\ Has(stream.wire, Hint) => Has(Tail(stream.wire), Hint) \/ Hint = Head(stream.wire)
    BY <1>1, <1>2, TailHas DEF Read, Connection
  <2>2. CASE Len(channel) < Capacity
    <3>1. /\ Has(channel, Hint) \/ Hint = Head(stream.wire) => Has(channel', Hint)
          /\ UNCHANGED <<overflowed, reader>>
      <4>1. /\ channel' = Append(channel, Head(stream.wire))
            /\ UNCHANGED <<overflowed, reader>>
        BY <1>2, <2>2, Zenon DEF Read
      <4>2. QED
        BY <1>1, <2>1, <4>1, AppendHas
    <3>2. QED
      BY <2>1, <3>1 DEF Noticed, HintOnItsWay, SubscriptionEnding, ReaderDone
  <2>3. CASE ~(Len(channel) < Capacity)
    BY <1>2, <2>3 DEF Read, Noticed
  <2>4. QED
    BY <2>2, <2>3
<1>3. CASE Unblock
  <2>1. /\ Has(channel, Hint) \/ Hint = reader.held => Has(channel', Hint)
        /\ UNCHANGED <<stream, overflowed>> /\ reader.pc = "blocked"
    BY <1>1, <1>3, AppendHas DEF Unblock
  <2>2. QED
    BY <2>1 DEF Noticed, HintOnItsWay, SubscriptionEnding, ReaderDone
<1>4. CASE ReaderEnds \/ ReaderStops
  <2>1. reader'.pc \in {"clean", "failed"}
    BY <1>4 DEF ReaderEnds, ReaderStops, Types, Queues
  <2>2. QED
    BY <2>1 DEF Noticed, SubscriptionEnding, ReaderDone
<1>5. QED
  BY <1>2, <1>3, <1>4 DEF ReaderStep

\* Every change is pushed, or its loss or the end of the subscription is on record.
LEMMA ChangesNoticed ==
    ASSUME Types, Change \/ ChangeUnseen
    PROVE  Noticed'
<1>1. stream.wire \in Seq(PrimaryEvent) /\ stream \in Connection /\ Hint \in PrimaryEvent
  BY ConnectionKept DEF Types, ServerSide, PrimaryEvent
<1>2. CASE ChangeUnseen
  BY <1>1, <1>2 DEF ChangeUnseen, Connection, Noticed
<1>3. CASE Change
  <2>1. CASE stream.state = "open"
    <3>1. stream'.wire = Append(stream.wire, Hint)
      BY <1>1, <1>3, <2>1 DEF Change, Pushed, Connection
    <3>2. QED
      BY <1>1, <3>1, AppendHas DEF Noticed, HintOnItsWay
  <2>2. CASE stream.state # "open"
    BY <1>3, <2>2 DEF Change, Pushed, Noticed, SubscriptionEnding
  <2>3. QED
    BY <2>1, <2>2
<1>4. QED
  BY <1>2, <1>3

LEMMA ServerNotices ==
    ASSUME Types, Noticed, GaugeEvent \/ StreamEnds \/ ReplaceSocket \/ (Answer /\ coll.pc # "request")
    PROVE  Noticed'
<1>1. /\ stream.wire \in Seq(PrimaryEvent) /\ stream \in Connection /\ Gauge \in PrimaryEvent
      /\ UNCHANGED <<reader, channel, overflowed>>
  BY ConnectionKept
  DEF Types, ServerSide, PrimaryEvent, GaugeEvent, StreamEnds, ReplaceSocket, Answer, ServerFrame
<1>2. CASE GaugeEvent
  <2>1. stream' = [stream EXCEPT !.wire = Append(stream.wire, Gauge)]
    BY <1>2 DEF GaugeEvent, Pushed
  <2>2. /\ stream'.wire = Append(stream.wire, Gauge)
        /\ stream'.state = stream.state /\ stream'.lost = stream.lost
    BY <1>1, <2>1 DEF Connection
  <2>3. Has(stream.wire, Hint) => Has(stream'.wire, Hint)
    BY <1>1, <2>2, AppendHas
  <2>4. QED
    BY <1>1, <2>2, <2>3 DEF Noticed, HintOnItsWay, SubscriptionEnding, ReaderDone
<1>3. CASE StreamEnds
  BY <1>1, <1>3 DEF StreamEnds, Connection, Noticed, SubscriptionEnding
<1>4. CASE ReplaceSocket
  <2>1. stream' = stream \/ stream'.state = "eof"
    BY <1>1, <1>4 DEF ReplaceSocket, Connection
  <2>2. QED
    BY <1>1, <2>1, NoticedKept DEF Noticed, SubscriptionEnding
<1>5. CASE Answer /\ coll.pc # "request"
  <2>1. /\ stream'.wire = stream.wire /\ stream'.state = stream.state
        /\ stream'.lost = stream.lost
    BY <1>1, <1>5 DEF Answer, Connection
  <2>2. QED
    BY <1>1, <2>1 DEF Noticed, HintOnItsWay, SubscriptionEnding, ReaderDone
<1>6. QED
  BY <1>2, <1>3, <1>4, <1>5

\* The collector takes an event from its channel and keeps it, or flags the overflow.
LEMMA RetainNotices ==
    ASSUME Types, channel # <<>>, channel' = Tail(channel), retain_primary_event_or_mark_overflow,
           UNCHANGED <<stream, reader>>, Has(buffered, Hint) \/ Noticed
    PROVE  Has(buffered', Hint) \/ Noticed'
<1>1. /\ Head(channel) \in PrimaryEvent /\ buffered \in Seq(PrimaryEvent)
      /\ Has(channel, Hint) => Has(Tail(channel), Hint) \/ Hint = Head(channel)
  BY TailHas DEF Types, Queues
<1>2. CASE Len(buffered) < Capacity
  <2>1. buffered' = Append(buffered, Head(channel)) /\ overflowed' = overflowed
    BY <1>2 DEF retain_primary_event_or_mark_overflow
  <2>2. Has(buffered, Hint) \/ Hint = Head(channel) => Has(buffered', Hint)
    BY <1>1, <2>1, AppendHas
  <2>3. QED
    BY <1>1, <2>1, <2>2 DEF Noticed, HintOnItsWay, SubscriptionEnding, ReaderDone
<1>3. CASE ~(Len(buffered) < Capacity)
  BY <1>3 DEF retain_primary_event_or_mark_overflow, Noticed
<1>4. QED
  BY <1>2, <1>3

LEMMA ServerCovers ==
    ASSUME Types, Coverage, ServerStep
    PROVE  Coverage'
<1>1. UNCHANGED <<coll, quality, model, buffered>>
  BY DEF ServerStep, Change, ChangeUnseen, GaugeEvent, StreamEnds, ReplaceSocket, Answer, ServerFrame,
         converging
<1>2. CASE Change \/ ChangeUnseen
  BY <1>1, <1>2, ChangesNoticed DEF Coverage
<1>3. CASE GaugeEvent \/ StreamEnds \/ ReplaceSocket
  <2>1. UNCHANGED call /\ herdr'.world = herdr.world
    BY <1>3 DEF GaugeEvent, StreamEnds, ReplaceSocket, Types, ServerSide, Server
  <2>2. Noticed => Noticed'
    BY <1>3, ServerNotices
  <2>3. QED
    BY <1>1, <2>1, <2>2 DEF Coverage
<1>4. CASE Answer
  <2>1. UNCHANGED herdr /\ call'.version = herdr.world
    BY <1>4 DEF Answer
  <2>2. coll.pc # "request" => (Noticed => Noticed')
    BY <1>4, ServerNotices
  <2>3. QED
    BY <1>1, <2>1, <2>2 DEF Coverage, InReplay
<1>5. QED
  BY <1>2, <1>3, <1>4 DEF ServerStep

\* Out of converge nothing is covered, and nothing shown as Live that has not been left.
LEMMA LeftCovers ==
    ASSUME Coverage, coll'.pc \in Outside \cup {"joining", "generation", "reconciling"},
           quality' = "Live" => coll'.pc \in Outside \cup {"joining"}
    PROVE  Coverage'
BY DEF Coverage, Converge, InReplay, Monitoring, Outside

LEMMA OuterCovers ==
    ASSUME Types, Coverage, OuterStep
    PROVE  Coverage'
<1>1. CASE Subscribe
  <2>1. coll'.pc = "generation" /\ quality' = "Reconciling"
    BY <1>1 DEF Subscribe, NoConverge
  <2>2. QED
    BY <2>1, LeftCovers
<1>2. CASE OuterStep /\ ~Subscribe
  <2>1. coll'.pc \in Outside
    BY <1>2
    DEF OuterStep, ReadIdentity, SubscribeInterrupted, SubscribeFails, Retry, Join, Finish, At, Goto,
        NoConverge, Outside, Types, Episode, Collector
  <2>2. QED
    BY <2>1, LeftCovers
<1>3. QED
  BY <1>1, <1>2

LEMMA ExitCovers ==
    ASSUME Types, Coverage, NEW outcome, Exit(outcome)
    PROVE  Coverage'
<1>1. coll'.pc = "joining"
  BY DEF Exit, Types, Episode, Collector
<1>2. QED
  BY <1>1, LeftCovers

LEMMA RequestCovers ==
    ASSUME Types, Coverage, RequestStep
    PROVE  Coverage'
<1> USE DEF Types, Episode
<1>1. quality # "Live"
  BY DEF RequestStep, StartGeneration, ReceiveDuringRequest, RequestFails, Install,
         InstallNotPersisted, At, Coverage, Converge
<1>2. CASE StartGeneration
  BY <1>1, <1>2 DEF StartGeneration, NoCall, Coverage, Collector, InReplay
<1>3. CASE ReceiveDuringRequest
  <2>1. Has(buffered, Hint) \/ Noticed => Has(buffered', Hint) \/ Noticed'
    BY <1>3, RetainNotices DEF ReceiveDuringRequest
  <2>2. UNCHANGED <<coll, call, herdr, quality>> /\ coll.pc = "request"
    BY <1>3 DEF ReceiveDuringRequest, At, CollFrame
  <2>3. QED
    BY <1>1, <2>1, <2>2 DEF Coverage, InReplay
<1>4. CASE RequestFails
  BY <1>4, ExitCovers DEF RequestFails
<1>5. CASE Install
  <2>1. /\ coll'.pc = "drain" /\ quality' = quality /\ model' = call.version /\ herdr' = herdr
        /\ UNCHANGED <<stream, reader, channel, overflowed, buffered>>
        /\ coll.pc = "request" /\ call.state = "answered"
    BY <1>5 DEF Install, Installed, At, CollFrame, Collector
  <2>2. Noticed => Noticed'
    BY <2>1, NoticedKept
  <2>3. QED
    BY <1>1, <2>1, <2>2 DEF Coverage
<1>6. CASE InstallNotPersisted
  <2>1. coll'.pc = "joining"
    BY <1>6 DEF InstallNotPersisted, Collector
  <2>2. QED
    BY <2>1, LeftCovers
<1>7. QED
  BY <1>2, <1>3, <1>4, <1>5, <1>6 DEF RequestStep

LEMMA ReplayCovers ==
    ASSUME Types, Coverage, ReplayStep
    PROVE  Coverage'
<1> USE DEF Types, Episode
<1>1. quality # "Live" /\ coll.pc \in InReplay
  BY DEF ReplayStep, Drain, Drained, ReplayOverflow, Replay, ReplayEnded, AwaitQuiet, QuietBroken,
         QuietClosed, QuietInterrupted, QuietElapsed, Settle, At, Coverage, Converge, InReplay
<1>2. UNCHANGED <<herdr, model>>
  BY DEF ReplayStep, Drain, Drained, ReplayOverflow, Replay, ReplayEnded, AwaitQuiet, QuietBroken,
         QuietClosed, QuietInterrupted, QuietElapsed, Settle, CollFrame, ExitFrame
<1>3. CASE Drain \/ QuietBroken
  <2>1. Has(buffered, Hint) \/ Noticed => Has(buffered', Hint) \/ Noticed'
    BY <1>3, RetainNotices DEF Drain, QuietBroken
  <2>2. coll'.pc \in {"drain", "check"} /\ coll'.dirty = coll.dirty /\ quality' = quality
    BY <1>3 DEF Drain, QuietBroken, At, Goto, Collector
  <2>3. QED
    BY <1>1, <1>2, <2>1, <2>2 DEF Coverage, InReplay
<1>4. CASE Replay
  <2>1. Has(buffered, Hint) => Has(buffered', Hint) \/ coll'.dirty
    <3>1. Has(buffered, Hint) => Has(Tail(buffered), Hint) \/ Hint = Head(buffered)
      BY <1>4, TailHas DEF Replay, Queues
    <3>2. coll' = [coll EXCEPT !.pc = "drain", !.dirty = coll.dirty \/ Head(buffered) = Hint]
      BY <1>4 DEF Replay
    <3>3. Head(buffered) = Hint => coll'.dirty
      BY <3>2 DEF Collector
    <3>4. QED
      BY <1>4, <3>1, <3>3 DEF Replay
  <2>2. coll'.pc = "drain" /\ (coll.dirty => coll'.dirty) /\ quality' = quality
    BY <1>4 DEF Replay, Collector
  <2>3. Noticed => Noticed'
    BY <1>4, NoticedKept DEF Replay
  <2>4. QED
    BY <1>1, <1>2, <2>1, <2>2, <2>3 DEF Coverage
<1>5. CASE Drained \/ AwaitQuiet \/ QuietClosed \/ QuietInterrupted \/ QuietElapsed
  <2>1. /\ coll'.pc \in InReplay /\ coll'.dirty = coll.dirty
        /\ coll'.pc \in {"quiet", "settle"} => buffered = <<>>
        /\ UNCHANGED <<buffered, quality>>
    BY <1>5
    DEF Drained, AwaitQuiet, QuietClosed, QuietInterrupted, QuietElapsed, At, Goto, Collector,
        InReplay, Coverage
  <2>2. Noticed => Noticed'
    BY <1>5, NoticedKept DEF Drained, AwaitQuiet, QuietClosed, QuietInterrupted, QuietElapsed
  <2>3. QED
    BY <1>1, <1>2, <2>1, <2>2 DEF Coverage, InReplay
<1>6. CASE ReplayOverflow \/ ReplayEnded \/ (Settle /\ ~Goto("live"))
  <2>1. CASE \E outcome : Exit(outcome)
    BY <2>1, ExitCovers
  <2>2. CASE \E cause : AnotherGeneration(cause)
    <3>1. coll'.pc \in {"generation", "reconciling"} /\ quality' = "Reconciling"
      BY <2>2 DEF AnotherGeneration, Collector
    <3>2. QED
      BY <3>1, LeftCovers
  <2>3. QED
    BY <1>6, <2>1, <2>2 DEF ReplayOverflow, recover_replay_overflow, ReplayEnded, Settle
<1>7. CASE Settle /\ Goto("live")
  <2>1. coll'.pc = "live"
    BY <1>7 DEF Goto, Collector
  <2>2. ~coll.dirty /\ coll.pc = "settle"
    <3>1. ~coll.dirty \/ AnotherGeneration("TopologyHint")
      BY <1>7 DEF Settle
    <3>2. ~AnotherGeneration("TopologyHint")
      BY <2>1 DEF AnotherGeneration, Collector
    <3>3. QED
      BY <1>7, <3>1, <3>2 DEF Settle, At
  <2>3. ~Has(buffered, Hint)
    BY <2>2, EmptyHas DEF Coverage
  <2>4. Noticed => Noticed'
    BY <1>7, NoticedKept DEF Settle
  <2>5. QED
    BY <1>2, <2>1, <2>2, <2>3, <2>4 DEF Coverage, InReplay, Converge, Monitoring
<1>8. QED
  BY <1>3, <1>4, <1>5, <1>6, <1>7 DEF ReplayStep

LEMMA MonitorCovers ==
    ASSUME Types, Coverage, MonitorStep \/ ExitStep
    PROVE  Coverage'
<1> USE DEF Types, Episode
<1>1. CASE \E outcome : Exit(outcome)
  BY <1>1, ExitCovers
<1>2. CASE LiveHint \/ MonitorOverflow \/ (ProbeHealthy /\ ~At("live"))
  <2>1. CASE \E cause : LiveRefresh(cause)
    <3>1. coll'.pc = "generation" /\ quality' = "Reconciling"
      BY <2>1 DEF LiveRefresh, Collector
    <3>2. QED
      BY <3>1, LeftCovers
  <2>2. CASE RestartGeneration /\ coll.pc = "reconciling"
    <3>1. coll'.pc = "generation" /\ quality' = quality /\ quality # "Live"
      BY <2>2 DEF RestartGeneration, Collector, Coverage, Converge, Monitoring
    <3>2. QED
      BY <3>1, LeftCovers
  <2>3. QED
    BY <1>2, <2>1, <2>2 DEF LiveHint, MonitorOverflow, ProbeHealthy, At, Monitoring
<1>3. CASE MonitorEvent
  <2>1. /\ UNCHANGED <<herdr, stream, reader, overflowed, coll, buffered, model, quality>>
        /\ coll.pc \in Monitoring
        /\ coll.pc = "live" => Head(channel) # Hint
    BY <1>3 DEF MonitorEvent, CollFrame, At, Hint, Gauge
  <2>2. Has(channel, Hint) => Has(channel', Hint) \/ Hint = Head(channel)
    BY <1>3, TailHas DEF MonitorEvent, Queues
  <2>3. coll.pc = "live" /\ Noticed => Noticed'
    BY <2>1, <2>2 DEF Noticed, HintOnItsWay, SubscriptionEnding, ReaderDone
  <2>4. QED
    BY <2>1, <2>3 DEF Coverage, InReplay, Monitoring
<1>4. CASE WatchdogExpires \/ ProbeInconclusive \/ (ProbeHealthy /\ At("live"))
  <2>1. /\ UNCHANGED <<herdr, stream, reader, channel, overflowed, coll, buffered, model, quality>>
        /\ coll.pc \in Monitoring
    BY <1>4 DEF WatchdogExpires, ProbeInconclusive, ProbeHealthy, CollFrame
  <2>2. Noticed => Noticed'
    BY <2>1, NoticedKept
  <2>3. QED
    BY <2>1, <2>2 DEF Coverage, InReplay, Monitoring
<1>5. QED
  BY <1>1, <1>2, <1>3, <1>4
  DEF MonitorStep, ProbeFails, ProbeDiverged, ExitStep, ConvergeCancelled, ConvergeEnded,
      ConvergeError

LEMMA CoverageStep ==
    ASSUME Types, Coverage, [Next]_vars
    PROVE  Coverage'
<1>1. CASE ReaderStep
  <2>1. UNCHANGED <<herdr, coll, buffered, model, quality, call>>
    BY <1>1 DEF ReaderStep, Read, Unblock, ReaderEnds, ReaderStops, ReaderFrame, converging
  <2>2. Noticed => Noticed'
    BY <1>1, ReaderNotices
  <2>3. QED
    BY <2>1, <2>2 DEF Coverage
<1>2. CASE Cancel \/ PersistElse \/ UNCHANGED vars
  <2>1. UNCHANGED <<herdr, coll, buffered, model, quality, call, stream, reader, channel, overflowed>>
    BY <1>2 DEF Cancel, PersistElse, CollFrame, converging, vars
  <2>2. Noticed => Noticed'
    BY <2>1, NoticedKept
  <2>3. QED
    BY <2>1, <2>2 DEF Coverage
<1>3. QED
  BY <1>1, <1>2, ServerCovers, OuterCovers, RequestCovers, ReplayCovers, MonitorCovers
  DEF Next, Stopped

\* While the collector shows Live its topology is Herdr's or the reason to ask again is on its
\* way: no change is lost between subscribe, the snapshot, replay_generation and the recovery
\* from an overflow, however large the channel and however many changes.
THEOREM NoChangeIsLost == Spec => []LiveCoversWorld
<1>1. Init => Types /\ Coverage
  BY TypesInit, CoverageInit
<1>2. Types /\ Coverage /\ [Next]_vars => (Types /\ Coverage)'
  BY TypesStep, CoverageStep
<1>3. Types /\ Coverage => LiveCoversWorld
  <2> SUFFICES ASSUME Types, Coverage, quality = "Live", coll.pc \notin Outside \cup {"joining"}
               PROVE  model = herdr.world \/ Noticed
    BY DEF LiveCoversWorld, Noticed
  <2>1. coll.pc \in Converge
    BY DEF Types, Episode, Collector, ProgramPoints, Converge
  <2>2. QED
    BY <2>1 DEF Coverage
<1>4. QED
  BY <1>1, <1>2, <1>3, PTL DEF Spec

-----------------------------------------------------------------------------
(* EnrichmentTypesInv.                                                                  *)

Snapshot == [panes : SUBSET Addresses, status : [Addresses -> Statuses], taken : BOOLEAN]
Reader == [at : {"empty", "deferring", "subscribing", "refused", "pruning", "streaming", "gone"},
           set : SUBSET Addresses, refused : Addresses \cup {NoPane}]
TailConnection == [state : {"none", "open", "ended"}, scope : SUBSET Addresses, wire : Seq(Events)]

HerdrTypes ==
    /\ world \in Views
    /\ hints \in Nat
    /\ turns \in 0 .. MaxTurns
    /\ breaks \in 0 .. MaxBreaks
    /\ \A p \in Addresses : world.status[p] <= turns

CollectorTypes ==
    /\ phase \in [at : Phases, dirty : BOOLEAN]
    /\ snapshot \in Snapshot
    /\ shown \in Views
    /\ targets \in [set : SUBSET Addresses, published : BOOLEAN]
    /\ late \subseteq Addresses
    /\ retaken \subseteq Addresses

TailTypes ==
    /\ tail \in Reader
    /\ conn \in TailConnection

SharedTypes ==
    /\ watch \in [set : SUBSET Addresses, changed : BOOLEAN]
    /\ payloads \in Seq(Events) /\ Len(payloads) <= PayloadQueue
    /\ prune \in [pane : Addresses \cup {NoPane}, acked : BOOLEAN]

EnrichmentTypesInv == HerdrTypes /\ CollectorTypes /\ TailTypes /\ SharedTypes

LEMMA EnrichmentTypesImply == EnrichmentTypesInv => EnrichmentTypeOK
BY Zenon DEF EnrichmentTypesInv, HerdrTypes, CollectorTypes, TailTypes, SharedTypes, EnrichmentTypeOK, Snapshot,
             Reader, TailConnection

\* What the two sides are reset to.
LEMMA FreshTypes ==
    /\ NoSnapshot \in Snapshot
    /\ FreshReader \in Reader
    /\ NoConnection \in TailConnection
    /\ NoPrune \in [pane : Addresses \cup {NoPane}, acked : BOOLEAN]
    /\ <<>> \in Seq(Events) /\ Len(<<>>) <= PayloadQueue
<1> USE EnrichmentAssumption
<1>1. NoSnapshot \in Snapshot
  BY DEF NoSnapshot, Snapshot, Statuses
<1>2. FreshReader \in Reader
  BY DEF FreshReader, Reader
<1>3. NoConnection \in TailConnection
  BY DEF NoConnection, TailConnection
<1>4. NoPrune \in [pane : Addresses \cup {NoPane}, acked : BOOLEAN]
  BY DEF NoPrune
<1>5. <<>> \in Seq(Events) /\ Len(<<>>) <= PayloadQueue
  OBVIOUS
<1>6. QED
  BY <1>1, <1>2, <1>3, <1>4, <1>5

LEMMA EnrichmentTypesInit == EnrichmentInit => EnrichmentTypesInv
<1> SUFFICES ASSUME EnrichmentInit PROVE EnrichmentTypesInv
  OBVIOUS
<1> USE EnrichmentAssumption DEF EnrichmentInit
<1>1. HerdrTypes
  BY DEF HerdrTypes, Views, Statuses
<1>2. CollectorTypes
  <2>1. phase \in [at : Phases, dirty : BOOLEAN] /\ shown \in Views
    BY DEF Phases, Views, Statuses
  <2>2. targets \in [set : SUBSET Addresses, published : BOOLEAN]
    OBVIOUS
  <2>3. QED
    BY <2>1, <2>2, FreshTypes DEF CollectorTypes
<1>3. TailTypes
  BY FreshTypes DEF TailTypes
<1>4. SharedTypes
  <2>1. watch \in [set : SUBSET Addresses, changed : BOOLEAN]
    OBVIOUS
  <2>2. QED
    BY <2>1, FreshTypes DEF SharedTypes
<1>5. QED
  BY <1>1, <1>2, <1>3, <1>4 DEF EnrichmentTypesInv

LEMMA HerdrStepTypes ==
    ASSUME EnrichmentTypesInv, HerdrStep
    PROVE  EnrichmentTypesInv'
<1> USE EnrichmentAssumption DEF EnrichmentTypesInv
<1>1. HerdrTypes'
  <2>1. ASSUME NEW p \in Addresses, StatusChanges(p)
        PROVE  HerdrTypes'
    <3>1. /\ world.panes \subseteq Addresses /\ world.status \in [Addresses -> Statuses]
          /\ world.status[p] + 1 \in Statuses /\ world.status[p] <= turns
      BY <2>1 DEF StatusChanges, Turn, HerdrTypes, Views, Statuses
    <3>2. world' = [panes |-> world.panes, status |-> [world.status EXCEPT ![p] = @ + 1]]
      BY <2>1 DEF StatusChanges, HerdrTypes, Views
    <3>3. /\ world' \in Views
          /\ world'.status[p] = world.status[p] + 1
          /\ \A q \in Addresses \ {p} : world'.status[q] = world.status[q]
      BY <3>1, <3>2 DEF Views
    <3>4. \A q \in Addresses : world'.status[q] <= turns'
      <4>1. /\ turns' = turns + 1 /\ turns \in Nat
            /\ \A q \in Addresses : world.status[q] <= turns /\ world.status[q] \in Nat
        BY <2>1 DEF StatusChanges, Turn, HerdrTypes, Views, Statuses
      <4>2. QED
        BY <3>3, <4>1
    <3>5. QED
      BY <2>1, <3>3, <3>4 DEF StatusChanges, Turn, HerdrTypes
  <2>2. ASSUME NEW p \in Addresses, PaneComes(p)
        PROVE  HerdrTypes'
    BY <2>2 DEF PaneComes, Turn, HerdrTypes, Views, Statuses
  <2>3. ASSUME NEW p \in Addresses, PaneGoes(p)
        PROVE  HerdrTypes'
    BY <2>3 DEF PaneGoes, Turn, HerdrTypes, Views, Statuses
  <2>4. CASE ConnectionEnds \/ TakeSnapshot
    BY <2>4 DEF ConnectionEnds, TakeSnapshot, Break, HerdrTypes, bounds
  <2>5. QED
    BY <2>1, <2>2, <2>3, <2>4 DEF HerdrStep
<1>2. TailTypes'
  <2>1. /\ conn \in TailConnection /\ conn.wire \in Seq(Events)
        /\ \A p \in Addresses : \A n \in Statuses : [pane |-> p, status |-> n] \in Events
    BY DEF TailTypes, TailConnection, Events
  <2>2. ASSUME NEW p \in Addresses, StatusChanges(p)
        PROVE  conn' \in TailConnection
    <3>1. world.status[p] + 1 \in Statuses
      BY <2>2 DEF StatusChanges, Turn, HerdrTypes, Views, Statuses
    <3>2. Append(conn.wire, [pane |-> p, status |-> world.status[p] + 1]) \in Seq(Events)
      BY <2>1, <3>1, AppendProperties
    <3>3. QED
      BY <2>1, <2>2, <3>2 DEF StatusChanges, TailConnection
  <2>3. CASE ConnectionEnds
    <3>1. PICK rest \in {conn.wire, <<>>} : conn' = [conn EXCEPT !.state = "ended", !.wire = rest]
      BY <2>3 DEF ConnectionEnds
    <3>2. rest \in Seq(Events)
      <4>1. <<>> \in Seq(Events)
        OBVIOUS
      <4>2. QED
        BY <2>1, <3>1, <4>1, Zenon
    <3>3. QED
      BY <2>1, <2>3, <3>1, <3>2 DEF ConnectionEnds, HerdrFrame, TailTypes, TailConnection
  <2>4. UNCHANGED tail
    BY DEF HerdrStep, StatusChanges, PaneComes, PaneGoes, ConnectionEnds, TakeSnapshot, HerdrFrame,
           readerSide
  <2>5. conn' \in TailConnection
    BY <2>1, <2>2, <2>3 DEF HerdrStep, PaneComes, PaneGoes, TakeSnapshot, readerSide, TailTypes
  <2>6. QED
    BY <2>4, <2>5 DEF TailTypes
<1>3. snapshot' \in Snapshot
  <2>1. CASE TakeSnapshot
    BY <2>1 DEF TakeSnapshot, HerdrTypes, Views, Snapshot
  <2>2. CASE UNCHANGED snapshot
    BY <2>2 DEF CollectorTypes
  <2>3. QED
    BY <2>1, <2>2
    DEF HerdrStep, StatusChanges, PaneComes, PaneGoes, ConnectionEnds, HerdrFrame, collectorSide
<1>4. UNCHANGED <<phase, shown, targets, late, retaken, watch, payloads, prune>>
  BY DEF HerdrStep, StatusChanges, PaneComes, PaneGoes, ConnectionEnds, TakeSnapshot, HerdrFrame,
         collectorSide
<1>5. QED
  BY <1>1, <1>2, <1>3, <1>4 DEF CollectorTypes, SharedTypes

LEMMA LoopTopTypes ==
    ASSUME NEW set \in SUBSET Addresses
    PROVE  LoopTop(set) \in Reader
BY DEF LoopTop, Reader

LEMMA TailReaderTypes ==
    ASSUME EnrichmentTypesInv, EnrichmentReaderStep \/ SubscriptionFails
    PROVE  EnrichmentTypesInv'
<1> USE EnrichmentAssumption DEF EnrichmentTypesInv
<1>1. /\ tail.set \subseteq Addresses /\ watch.set \subseteq Addresses
      /\ conn.wire \in Seq(Events)
      /\ LoopTop({}) \in Reader /\ LoopTop(tail.set) \in Reader /\ LoopTop(watch.set) \in Reader
  BY LoopTopTypes DEF TailTypes, SharedTypes, Reader, TailConnection
<1>2. tail' \in Reader
  <2>1. CASE DeferralOver
    BY <1>1, <2>1 DEF DeferralOver, TailTypes, Reader
  <2>2. CASE Refused
    BY <1>1, <2>2 DEF Refused, TailTypes, Reader
  <2>3. CASE Accepted \/ SendPrune \/ ReaderCancels \/ ReadStatus
    BY <2>3 DEF Accepted, SendPrune, ReaderCancels, ReadStatus, TailTypes, Reader
  <2>4. CASE TargetsChanged \/ PruneAcknowledged \/ ConnectionEndSeen \/ SubscriptionFails
    BY <1>1, <2>4, Zenon DEF TargetsChanged, PruneAcknowledged, ConnectionEndSeen, SubscriptionFails
  <2>5. QED
    BY <2>1, <2>2, <2>3, <2>4 DEF EnrichmentReaderStep
<1>3. conn' \in TailConnection
  <2>1. CASE Accepted
    BY <1>1, <2>1 DEF Accepted, TailConnection
  <2>2. CASE ReadStatus
    BY <1>1, <2>2, HeadTailProperties DEF ReadStatus, TailTypes, TailConnection
  <2>3. CASE conn' \in {conn, NoConnection}
    BY <2>3, FreshTypes DEF TailTypes
  <2>4. QED
    BY <2>1, <2>2, <2>3
    DEF EnrichmentReaderStep, SubscriptionFails, TargetsChanged, DeferralOver, Refused, SendPrune,
        PruneAcknowledged, ConnectionEndSeen, ReaderCancels
<1>4. payloads' \in Seq(Events) /\ Len(payloads') <= PayloadQueue
  <2>1. CASE ReadStatus
    BY <1>1, <2>1, HeadTailProperties, AppendProperties DEF ReadStatus, SharedTypes
  <2>2. CASE UNCHANGED payloads
    BY <2>2 DEF SharedTypes
  <2>3. QED
    BY <2>1, <2>2
    DEF EnrichmentReaderStep, SubscriptionFails, TargetsChanged, DeferralOver, Accepted, Refused,
        SendPrune, PruneAcknowledged, ConnectionEndSeen, ReaderCancels
<1>5. watch' \in [set : SUBSET Addresses, changed : BOOLEAN]
  <2>1. watch' \in {watch, [watch EXCEPT !.changed = FALSE]}
    BY DEF EnrichmentReaderStep, SubscriptionFails, TargetsChanged, DeferralOver, Accepted, Refused,
           SendPrune, PruneAcknowledged, ReadStatus, ConnectionEndSeen, ReaderCancels
  <2>2. QED
    BY <2>1 DEF SharedTypes
<1>6. prune' \in [pane : Addresses \cup {NoPane}, acked : BOOLEAN]
  <2>1. CASE SendPrune
    BY <2>1 DEF SendPrune, TailTypes, Reader
  <2>2. CASE prune' \in {prune, NoPrune}
    BY <2>2, FreshTypes DEF SharedTypes
  <2>3. QED
    BY <2>1, <2>2
    DEF EnrichmentReaderStep, SubscriptionFails, TargetsChanged, DeferralOver, Accepted, Refused,
        PruneAcknowledged, ReadStatus, ConnectionEndSeen, ReaderCancels
<1>7. HerdrTypes' /\ CollectorTypes'
  <2>1. UNCHANGED <<world, hints, collectorSide, turns>> /\ (UNCHANGED breaks \/ Break)
    BY DEF EnrichmentReaderStep, SubscriptionFails, TargetsChanged, DeferralOver, Accepted, Refused,
           SendPrune, PruneAcknowledged, ReadStatus, ConnectionEndSeen, ReaderCancels,
           ReaderSideFrame, bounds
  <2>2. QED
    BY <2>1 DEF HerdrTypes, CollectorTypes, collectorSide, Break
<1>8. QED
  BY <1>2, <1>3, <1>4, <1>5, <1>6, <1>7 DEF TailTypes, SharedTypes

\* Every publication of a set of targets.
LEMMA RetargetTypes ==
    ASSUME EnrichmentTypesInv, NEW set \in SUBSET Addresses, NEW published \in BOOLEAN, Retarget(set, published)
    PROVE  /\ targets' \in [set : SUBSET Addresses, published : BOOLEAN]
           /\ watch' \in [set : SUBSET Addresses, changed : BOOLEAN]
BY DEF Retarget, EnrichmentTypesInv, SharedTypes

LEMMA PruneTypes ==
    ASSUME EnrichmentTypesInv, NEW published \in BOOLEAN, apply_prune(published)
    PROVE  /\ targets' \in [set : SUBSET Addresses, published : BOOLEAN]
           /\ watch' \in [set : SUBSET Addresses, changed : BOOLEAN]
           /\ prune' \in [pane : Addresses \cup {NoPane}, acked : BOOLEAN]
           /\ retaken' \subseteq Addresses
<1>1. /\ targets.set \ Pruned \in SUBSET Addresses
      /\ Retarget(targets.set \ Pruned, published)
  BY DEF apply_prune, EnrichmentTypesInv, CollectorTypes
<1>2. prune' \in [pane : Addresses \cup {NoPane}, acked : BOOLEAN]
  BY DEF apply_prune, EnrichmentTypesInv, SharedTypes
<1>3. retaken' \subseteq Addresses
  BY DEF apply_prune, EnrichmentTypesInv, CollectorTypes, HerdrTypes, Views
<1>4. QED
  BY <1>1, <1>2, <1>3, RetargetTypes

LEMMA ConvergeTypes ==
    ASSUME EnrichmentTypesInv, (EnrichmentConvergeStep /\ ~Resubscribe) \/ LiveReceipt \/ ConvergeReturns
    PROVE  EnrichmentTypesInv'
<1> USE DEF EnrichmentTypesInv
<1>1. HerdrTypes' /\ TailTypes'
  <2>1. UNCHANGED <<world, readerSide, turns>> /\ (UNCHANGED breaks \/ Break)
    BY DEF EnrichmentConvergeStep, BeginGeneration, InstallSnapshot, ReplayRound, QuietInterrupt,
           RefreshNeeded, ReconcilingRound, GoLive, HintWhileLive, LiveReceipt,
           apply_enrichment_payload, PruneWhileLive, ConvergeReturns, ConvergeFrame, bounds
  <2>2. hints' \in Nat
    <3>1. CASE ReplayRound
      BY <3>1 DEF ReplayRound, HerdrTypes
    <3>2. CASE hints > 0 /\ hints' = hints - 1
      BY <3>2 DEF HerdrTypes
    <3>3. CASE UNCHANGED hints
      BY <3>3 DEF HerdrTypes
    <3>4. QED
      BY <3>1, <3>2, <3>3
      DEF EnrichmentConvergeStep, BeginGeneration, InstallSnapshot, QuietInterrupt, RefreshNeeded,
          ReconcilingRound, GoLive, HintWhileLive, LiveReceipt, apply_enrichment_payload,
          PruneWhileLive, ConvergeReturns
  <2>3. QED
    BY <2>1, <2>2, EnrichmentAssumption DEF HerdrTypes, TailTypes, readerSide, Break
<1>2. phase' \in [at : Phases, dirty : BOOLEAN]
  <2>1. CASE \E at \in Phases : Enter(at)
    BY <2>1 DEF Enter, CollectorTypes
  <2>2. CASE InstallSnapshot \/ ReplayRound \/ QuietInterrupt
    <3>1. PICK at \in Phases, b \in BOOLEAN : phase' = [at |-> at, dirty |-> b]
      <4>1. CASE InstallSnapshot
        BY <4>1 DEF InstallSnapshot, Phases
      <4>2. CASE ReplayRound
        <5>1. PICK rest \in 0 .. hints : phase' = [at |-> "quiet", dirty |-> phase.dirty \/ rest < hints]
          BY <4>2 DEF ReplayRound
        <5>2. (phase.dirty \/ rest < hints) \in BOOLEAN /\ "quiet" \in Phases
          BY DEF Phases
        <5>3. QED
          BY <5>1, <5>2
      <4>3. CASE QuietInterrupt
        BY <4>3 DEF QuietInterrupt, Phases
      <4>4. QED
        BY <2>2, <4>1, <4>2, <4>3
    <3>2. QED
      BY <3>1
  <2>3. CASE UNCHANGED phase
    BY <2>3 DEF CollectorTypes
  <2>4. QED
    BY <2>1, <2>2, <2>3
    DEF EnrichmentConvergeStep, BeginGeneration, RefreshNeeded, ReconcilingRound, GoLive,
        HintWhileLive, LiveReceipt, apply_enrichment_payload, PruneWhileLive, ConvergeReturns, Phases
<1>3. snapshot' \in Snapshot /\ late' \subseteq Addresses
  <2>1. snapshot' \in {snapshot, NoSnapshot}
    BY DEF EnrichmentConvergeStep, BeginGeneration, InstallSnapshot, ReplayRound, QuietInterrupt,
           RefreshNeeded, ReconcilingRound, GoLive, HintWhileLive, LiveReceipt,
           apply_enrichment_payload, PruneWhileLive, ConvergeReturns
  <2>2. {conn.wire[i].pane : i \in DOMAIN conn.wire} \subseteq Addresses
    <3>1. \A i \in DOMAIN conn.wire : conn.wire[i] \in Events
      BY DEF TailTypes, TailConnection
    <3>2. QED
      BY <3>1 DEF Events
  <2>3. late' \in {late, {conn.wire[i].pane : i \in DOMAIN conn.wire}}
    BY DEF EnrichmentConvergeStep, BeginGeneration, InstallSnapshot, ReplayRound, QuietInterrupt,
           RefreshNeeded, ReconcilingRound, GoLive, HintWhileLive, LiveReceipt,
           apply_enrichment_payload, PruneWhileLive, ConvergeReturns
  <2>4. QED
    BY <2>1, <2>2, <2>3, FreshTypes DEF CollectorTypes
<1>4. shown' \in Views
  <2>1. CASE InstallSnapshot
    BY <2>1 DEF InstallSnapshot, CollectorTypes, Snapshot, Views
  <2>2. CASE apply_enrichment_payload
    <3>1. Head(payloads) \in Events
      BY <2>2, HeadTailProperties DEF apply_enrichment_payload, SharedTypes
    <3>2. QED
      BY <2>2, <3>1 DEF apply_enrichment_payload, CollectorTypes, Views, Events
  <2>3. CASE UNCHANGED shown
    BY <2>3 DEF CollectorTypes
  <2>4. QED
    BY <2>1, <2>2, <2>3
    DEF EnrichmentConvergeStep, BeginGeneration, ReplayRound, QuietInterrupt, RefreshNeeded,
        ReconcilingRound, GoLive, HintWhileLive, LiveReceipt, PruneWhileLive, ConvergeReturns
<1>5. /\ targets' \in [set : SUBSET Addresses, published : BOOLEAN]
      /\ watch' \in [set : SUBSET Addresses, changed : BOOLEAN]
      /\ prune' \in [pane : Addresses \cup {NoPane}, acked : BOOLEAN]
      /\ retaken' \subseteq Addresses
  <2>1. targets.published \in BOOLEAN
    BY DEF CollectorTypes
  <2>2. CASE \E published \in BOOLEAN : apply_prune(published)
    BY <2>2, PruneTypes
  <2>3. CASE InstallSnapshot
    <3>1. snapshot.panes \in SUBSET Addresses
      BY DEF CollectorTypes, Snapshot
    <3>2. retaken' \subseteq Addresses /\ prune' = prune
      BY <2>3 DEF InstallSnapshot
    <3>3. QED
      BY <2>1, <2>3, <3>1, <3>2, RetargetTypes DEF InstallSnapshot, SharedTypes
  <2>4. CASE UNCHANGED <<targets, watch, prune, retaken>>
    BY <2>4 DEF CollectorTypes, SharedTypes
  <2>5. QED
    BY <2>1, <2>2, <2>3, <2>4
    DEF EnrichmentConvergeStep, BeginGeneration, ReplayRound, QuietInterrupt, RefreshNeeded,
        ReconcilingRound, GoLive, HintWhileLive, LiveReceipt, apply_enrichment_payload,
        PruneWhileLive, ConvergeReturns, discard_episode_payloads, TargetsFrame
<1>6. payloads' \in Seq(Events) /\ Len(payloads') <= PayloadQueue
  <2>1. CASE apply_enrichment_payload
    BY <2>1, HeadTailProperties, EnrichmentAssumption DEF apply_enrichment_payload, SharedTypes
  <2>2. CASE payloads' = <<>>
    BY <2>2, FreshTypes
  <2>3. CASE UNCHANGED payloads
    BY <2>3 DEF SharedTypes
  <2>4. QED
    BY <2>1, <2>2, <2>3
    DEF EnrichmentConvergeStep, BeginGeneration, InstallSnapshot, ReplayRound, QuietInterrupt,
        RefreshNeeded, ReconcilingRound, GoLive, HintWhileLive, LiveReceipt, PruneWhileLive,
        ConvergeReturns, discard_episode_payloads, TargetsFrame
<1>7. QED
  BY <1>1, <1>2, <1>3, <1>4, <1>5, <1>6 DEF CollectorTypes, SharedTypes

LEMMA ResubscribeTypes ==
    ASSUME EnrichmentTypesInv, Resubscribe
    PROVE  EnrichmentTypesInv'
<1> USE DEF EnrichmentTypesInv
<1>1. HerdrTypes'
  BY DEF Resubscribe, HerdrTypes, bounds
<1>2. CollectorTypes'
  <2>1. phase' \in [at : Phases, dirty : BOOLEAN]
    BY DEF Resubscribe, Phases
  <2>2. targets' \in [set : SUBSET Addresses, published : BOOLEAN]
    BY DEF Resubscribe
  <2>3. QED
    BY <2>1, <2>2, FreshTypes DEF Resubscribe, CollectorTypes
<1>3. TailTypes'
  BY FreshTypes DEF Resubscribe, TailTypes
<1>4. SharedTypes'
  <2>1. watch' \in [set : SUBSET Addresses, changed : BOOLEAN]
    BY DEF Resubscribe
  <2>2. QED
    BY <2>1, FreshTypes DEF Resubscribe, SharedTypes
<1>5. QED
  BY <1>1, <1>2, <1>3, <1>4

LEMMA EnrichmentTypesStep ==
    ASSUME EnrichmentTypesInv, [EnrichmentNext]_enrichmentVars
    PROVE  EnrichmentTypesInv'
<1>1. CASE UNCHANGED enrichmentVars
  BY <1>1 DEF enrichmentVars, EnrichmentTypesInv, HerdrTypes, CollectorTypes, TailTypes, SharedTypes
<1>2. QED
  BY <1>1, HerdrStepTypes, TailReaderTypes, ConvergeTypes, ResubscribeTypes
  DEF EnrichmentNext, EnrichmentConvergeStep

\* Every variable keeps its type and the payload queue its capacity, whatever
\* run_enrichment_reader, EnrichmentConverge and Herdr do.
THEOREM EnrichmentTypes == EnrichmentSpec => []EnrichmentTypeOK
<1>1. EnrichmentTypesInv /\ [EnrichmentNext]_enrichmentVars => EnrichmentTypesInv'
  BY EnrichmentTypesStep
<1>2. QED
  BY <1>1, EnrichmentTypesInit, EnrichmentTypesImply, PTL DEF EnrichmentSpec

-----------------------------------------------------------------------------
(* The status that is shown.                                               *)

Agrees(view) == \A p \in view.panes \cap world.panes : view.status[p] = world.status[p]
OnlyLate(events) == \A i \in 1 .. Len(events) : events[i].pane \in late

\* As long as no hint is pending nothing has changed since the snapshot: it agrees with Herdr,
\* and while Live every event that may still be applied was unread when Live began.
StatusCover ==
    hints = 0 =>
        /\ phase.at = "request" /\ snapshot.taken => Agrees(snapshot)
        /\ phase.at \in {"replay", "quiet"} => phase.dirty \/ Agrees(shown)
        /\ phase.at = "live" =>
               /\ \A p \in shown.panes \cap world.panes :
                      shown.status[p] = world.status[p] \/ p \in late
               /\ OnlyLate(conn.wire) /\ OnlyLate(payloads)

LEMMA StatusCoverInit == EnrichmentInit => StatusCover
BY DEF EnrichmentInit, StatusCover

\* Every change of Herdr's panes and statuses comes with a hint.
LEMMA HerdrCovers ==
    ASSUME EnrichmentTypesInv, StatusCover, HerdrStep
    PROVE  StatusCover'
<1>1. ASSUME NEW p \in Addresses, StatusChanges(p) \/ PaneComes(p) \/ PaneGoes(p)
      PROVE  hints' # 0
  BY <1>1 DEF StatusChanges, PaneComes, PaneGoes, Turn, EnrichmentTypesInv, HerdrTypes
<1>2. CASE ConnectionEnds
  <2>1. PICK rest \in {conn.wire, <<>>} : conn' = [conn EXCEPT !.state = "ended", !.wire = rest]
    BY <1>2 DEF ConnectionEnds
  <2>2. conn'.wire = rest
    BY <2>1 DEF EnrichmentTypesInv, TailTypes, TailConnection
  <2>3. UNCHANGED <<world, hints, phase, snapshot, shown, payloads, late>>
    BY <1>2 DEF ConnectionEnds, HerdrFrame, collectorSide
  <2>4. OnlyLate(conn.wire) => OnlyLate(conn.wire)'
    BY <2>1, <2>2, <2>3 DEF OnlyLate
  <2>5. QED
    BY <2>3, <2>4 DEF StatusCover, Agrees, OnlyLate
<1>3. CASE TakeSnapshot
  BY <1>3 DEF TakeSnapshot, StatusCover, Agrees
<1>4. QED
  BY <1>1, <1>2, <1>3 DEF HerdrStep, StatusCover

LEMMA ReaderCovers ==
    ASSUME EnrichmentTypesInv, StatusCover, EnrichmentReaderStep \/ SubscriptionFails
    PROVE  StatusCover'
<1>1. UNCHANGED <<world, hints, phase, snapshot, shown, late>>
  BY DEF EnrichmentReaderStep, SubscriptionFails, TargetsChanged, DeferralOver, Accepted, Refused,
         SendPrune, PruneAcknowledged, ReadStatus, ConnectionEndSeen, ReaderCancels,
         ReaderSideFrame, collectorSide
<1>2. OnlyLate(conn.wire) /\ OnlyLate(payloads) => (OnlyLate(conn.wire) /\ OnlyLate(payloads))'
  <2>1. conn.wire \in Seq(Events) /\ payloads \in Seq(Events)
    BY DEF EnrichmentTypesInv, TailTypes, TailConnection, SharedTypes
  <2>2. CASE ReadStatus
    <3>1. /\ conn.wire # <<>> /\ conn'.wire = Tail(conn.wire)
          /\ payloads' \in {payloads, Append(payloads, Head(conn.wire))}
      BY <2>2 DEF ReadStatus, EnrichmentTypesInv, TailTypes, TailConnection
    <3>2. /\ Len(conn.wire) \in Nat \ {0}
          /\ Head(conn.wire) \in Events /\ Head(conn.wire) = conn.wire[1]
          /\ Len(Tail(conn.wire)) = Len(conn.wire) - 1
          /\ \A i \in 1 .. Len(Tail(conn.wire)) : Tail(conn.wire)[i] = conn.wire[i + 1]
      BY <2>1, <3>1, HeadTailProperties
    <3>3. OnlyLate(conn.wire) => OnlyLate(Tail(conn.wire)) /\ Head(conn.wire).pane \in late
      BY <3>2 DEF OnlyLate
    <3>4. OnlyLate(payloads) /\ Head(conn.wire).pane \in late
             => OnlyLate(Append(payloads, Head(conn.wire)))
      BY <2>1, <3>2, AppendProperties DEF OnlyLate
    <3>5. QED
      BY <1>1, <3>1, <3>3, <3>4 DEF OnlyLate
  <2>3. CASE conn'.wire \in {conn.wire, <<>>} /\ UNCHANGED payloads
    BY <1>1, <2>3 DEF OnlyLate
  <2>4. ~ReadStatus => conn'.wire \in {conn.wire, <<>>} /\ UNCHANGED payloads
    <3>1. NoConnection.wire = <<>>
      BY DEF NoConnection
    <3>2. CASE Accepted
      BY <3>2 DEF Accepted
    <3>3. CASE conn' \in {conn, NoConnection} /\ UNCHANGED payloads
      BY <3>1, <3>3
    <3>4. QED
      BY <3>2, <3>3
      DEF EnrichmentReaderStep, SubscriptionFails, TargetsChanged, DeferralOver, Refused,
          SendPrune, PruneAcknowledged, ConnectionEndSeen, ReaderCancels
  <2>5. QED
    BY <2>2, <2>3, <2>4
<1>3. QED
  BY <1>1, <1>2 DEF StatusCover, Agrees

LEMMA ConvergeCovers ==
    ASSUME EnrichmentTypesInv, EnrichmentTypesInv', StatusCover, EnrichmentConvergeStep \/ LiveReceipt \/ ConvergeReturns
    PROVE  StatusCover'
<1> USE DEF EnrichmentTypesInv
<1>1. CASE phase'.at \in {"generation", "reconciling", "joining"}
  BY <1>1 DEF StatusCover
<1>2. CASE BeginGeneration
  BY <1>2 DEF BeginGeneration, NoSnapshot, Enter, CollectorTypes, StatusCover
<1>3. CASE InstallSnapshot
  BY <1>3 DEF InstallSnapshot, PhaseIs, ConvergeFrame, StatusCover, Agrees
<1>4. CASE ReplayRound
  <2>1. PICK rest \in 0 .. hints :
          /\ hints' = rest
          /\ phase' = [at |-> "quiet", dirty |-> phase.dirty \/ rest < hints]
    BY <1>4 DEF ReplayRound
  <2>2. /\ phase.at = "replay" /\ phase'.at = "quiet"
        /\ phase.dirty \/ rest < hints => phase'.dirty
        /\ UNCHANGED <<world, shown>> /\ hints \in Nat
    BY <1>4, <2>1 DEF ReplayRound, PhaseIs, ConvergeFrame, HerdrTypes
  <2>3. QED
    BY <2>1, <2>2 DEF StatusCover, Agrees
<1>5. CASE QuietInterrupt
  BY <1>5 DEF QuietInterrupt, StatusCover
<1>6. CASE GoLive
  <2>1. /\ phase.at = "quiet" /\ ~phase.dirty /\ phase'.at = "live"
        /\ payloads' = <<>> /\ late' = {conn.wire[i].pane : i \in DOMAIN conn.wire}
        /\ UNCHANGED <<world, hints, shown, conn>>
    BY <1>6
    DEF GoLive, PhaseIs, Enter, discard_episode_payloads, ConvergeFrame, readerSide, CollectorTypes
  <2>2. DOMAIN conn.wire = 1 .. Len(conn.wire)
    BY DEF TailTypes, TailConnection
  <2>3. OnlyLate(conn.wire)' /\ OnlyLate(payloads)'
    BY <2>1, <2>2 DEF OnlyLate
  <2>4. QED
    BY <2>1, <2>3 DEF StatusCover, Agrees
<1>7. CASE apply_enrichment_payload
  <2>1. /\ phase.at = "live" /\ payloads # <<>> /\ payloads' = Tail(payloads)
        /\ UNCHANGED <<world, hints, phase, conn, late>>
    BY <1>7 DEF apply_enrichment_payload, PhaseIs, ConvergeFrame, readerSide
  <2>2. /\ Len(payloads) \in Nat \ {0}
        /\ Head(payloads) \in Events /\ Head(payloads) = payloads[1]
        /\ Len(Tail(payloads)) = Len(payloads) - 1
        /\ \A i \in 1 .. Len(Tail(payloads)) : Tail(payloads)[i] = payloads[i + 1]
    BY <2>1, HeadTailProperties DEF SharedTypes
  <2>3. OnlyLate(payloads) => OnlyLate(payloads)' /\ Head(payloads).pane \in late
    BY <2>1, <2>2 DEF OnlyLate
  <2>4. /\ shown'.panes = shown.panes
        /\ \A p \in Addresses : p # Head(payloads).pane => shown'.status[p] = shown.status[p]
    BY <1>7, <2>2 DEF apply_enrichment_payload, CollectorTypes, Views, Events
  <2>5. shown.panes \subseteq Addresses
    BY DEF CollectorTypes, Views
  <2>6. QED
    BY <2>1, <2>3, <2>4, <2>5 DEF StatusCover, OnlyLate
<1>8. CASE PruneWhileLive
  BY <1>8 DEF PruneWhileLive, ConvergeFrame, readerSide, PhaseIs, StatusCover, OnlyLate
<1>9. CASE RefreshNeeded \/ ReconcilingRound \/ HintWhileLive \/ Resubscribe \/ ConvergeReturns
  <2>1. phase'.at \in {"generation", "reconciling", "joining"}
    BY <1>9
    DEF RefreshNeeded, ReconcilingRound, HintWhileLive, Resubscribe, ConvergeReturns, Enter, PhaseIs,
        CollectorTypes
  <2>2. QED
    BY <1>1, <2>1
<1>10. QED
  BY <1>2, <1>3, <1>4, <1>5, <1>6, <1>7, <1>8, <1>9 DEF EnrichmentConvergeStep, LiveReceipt

LEMMA QuietCovers ==
    ASSUME StatusCover, UNCHANGED enrichmentVars
    PROVE  StatusCover'
<1>1. UNCHANGED <<world, hints, phase, snapshot, shown, conn, payloads, late>>
  BY DEF enrichmentVars
<1>2. QED
  BY <1>1 DEF StatusCover, Agrees, OnlyLate

\* While Live, the status shown of a pane is Herdr's, or a hint is on its way that makes the
\* collector ask, except where an event was unread when Live began: neither dropped, nor
\* discarded, nor stale payloads make apply_enrichment_payload show an older one for good.
THEOREM StatusIsCovered == EnrichmentSpec => []StatusCovered
<1>1. EnrichmentInit => EnrichmentTypesInv /\ StatusCover
  BY EnrichmentTypesInit, StatusCoverInit
<1>2. EnrichmentTypesInv /\ StatusCover /\ [EnrichmentNext]_enrichmentVars => (EnrichmentTypesInv /\ StatusCover)'
  <2> SUFFICES ASSUME EnrichmentTypesInv, StatusCover, [EnrichmentNext]_enrichmentVars
               PROVE  (EnrichmentTypesInv /\ StatusCover)'
    OBVIOUS
  <2>1. EnrichmentTypesInv'
    BY EnrichmentTypesStep
  <2>2. StatusCover'
    BY <2>1, QuietCovers, HerdrCovers, ReaderCovers, ConvergeCovers DEF EnrichmentNext
  <2>3. QED
    BY <2>1, <2>2
<1>3. EnrichmentTypesInv /\ StatusCover => StatusCovered
  <2> SUFFICES ASSUME EnrichmentTypesInv, StatusCover, PhaseIs("live"), NEW p \in shown.panes \cap world.panes
               PROVE  shown.status[p] = world.status[p] \/ hints > 0 \/ p \in late
    BY DEF StatusCovered
  <2>1. hints \in Nat
    BY DEF EnrichmentTypesInv, HerdrTypes
  <2>2. QED
    BY <2>1 DEF StatusCover, PhaseIs
<1>4. QED
  BY <1>1, <1>2, <1>3, PTL DEF EnrichmentSpec
=============================================================================
