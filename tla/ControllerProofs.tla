-------------------------- MODULE ControllerProofs --------------------------
(* Theorems about the Controller pipeline, for every set of attempts and    *)
(* events, every queue capacity, connection limit and number of faults.     *)
EXTENDS Controller, SequenceTheorems, FiniteSetTheorems, TLAPS

-----------------------------------------------------------------------------
(* Sequences without repetition, and what Append and Tail do to them.      *)

Distinct(s) == \A i, j \in 1 .. Len(s) : s[i] = s[j] => i = j
Occurs(x, s) == \E i \in 1 .. Len(s) : s[i] = x

LEMMA AppendOccurs ==
    ASSUME NEW S, NEW s \in Seq(S), NEW x \in S
    PROVE  /\ Append(s, x) \in Seq(S)
           /\ Len(Append(s, x)) = Len(s) + 1
           /\ \A y : Occurs(y, Append(s, x)) <=> Occurs(y, s) \/ y = x
           /\ ~Occurs(x, s) /\ Distinct(s) => Distinct(Append(s, x))
BY AppendProperties DEF Occurs, Distinct

LEMMA TailOccurs ==
    ASSUME NEW S, NEW s \in Seq(S), s # <<>>
    PROVE  /\ Head(s) \in S
           /\ Tail(s) \in Seq(S)
           /\ Len(Tail(s)) = Len(s) - 1
           /\ Occurs(Head(s), s)
           /\ \A y : Occurs(y, s) <=> Occurs(y, Tail(s)) \/ y = Head(s)
           /\ Distinct(s) => Distinct(Tail(s)) /\ ~Occurs(Head(s), Tail(s))
<1>1. /\ Head(s) \in S
      /\ Tail(s) \in Seq(S)
      /\ Len(s) \in Nat \ {0}
      /\ Len(Tail(s)) = Len(s) - 1
      /\ \A i \in 1 .. Len(Tail(s)) : Tail(s)[i] = s[i + 1]
      /\ Head(s) = s[1]
  BY HeadTailProperties
<1>2. \A i \in 1 .. Len(s) : i = 1 \/ (i - 1 \in 1 .. Len(Tail(s)) /\ Tail(s)[i - 1] = s[i])
  BY <1>1
<1>3. \A i \in 1 .. Len(Tail(s)) : i + 1 \in 1 .. Len(s)
  BY <1>1
<1>4. Occurs(Head(s), s)
  <2>1. 1 \in 1 .. Len(s)
    BY <1>1
  <2>2. QED
    BY <1>1, <2>1, Zenon DEF Occurs
<1>5. \A y : Occurs(y, s) <=> Occurs(y, Tail(s)) \/ y = Head(s)
  <2>1. ASSUME NEW y, Occurs(y, s)
        PROVE  Occurs(y, Tail(s)) \/ y = Head(s)
    <3>1. PICK i \in 1 .. Len(s) : s[i] = y
      BY <2>1, Zenon DEF Occurs
    <3>2. QED
      BY <1>1, <1>2, <3>1, Zenon DEF Occurs
  <2>2. ASSUME NEW y, Occurs(y, Tail(s))
        PROVE  Occurs(y, s)
    <3>1. PICK i \in 1 .. Len(Tail(s)) : Tail(s)[i] = y
      BY <2>2, Zenon DEF Occurs
    <3>2. QED
      BY <1>1, <1>3, <3>1, Zenon DEF Occurs
  <2>3. QED
    BY <1>4, <2>1, <2>2, Zenon
<1>6. Distinct(s) => Distinct(Tail(s)) /\ ~Occurs(Head(s), Tail(s))
  BY <1>1, <1>3 DEF Distinct, Occurs
<1>7. QED
  BY <1>1, <1>4, <1>5, <1>6

-----------------------------------------------------------------------------
(* Types.                                                                  *)

Progress == [pc : {"idle", "connected", "done"}, sent : BOOLEAN, outcome : Outcomes \cup {"none"}]
Channel == [state : {"none", "backlog", "reading", "waiting", "responded", "closed"},
            response : Responses \cup {"none"}]

\* The connections that count against the limit are finitely many, although there
\* may be any number of attempts.
LiveBounded == IsFiniteSet(Live) /\ Cardinality(Live) <= MaxConnections

Pipeline ==
    /\ queue \in Seq(Attempts) /\ Len(queue) <= QueueCapacity
    /\ ledger \subseteq Events
    /\ log \in Seq(Applied)
    /\ nextSeq \in 1 .. MaxSeq + 1
    /\ batch \in Seq(Applied) /\ Len(batch) <= 1
    /\ durable \in Seq(Applied)
    /\ effect \in [Attempts -> Nat]
    /\ seen \subseteq Events

Phases ==
    /\ collector \in {"ready", "committing", "gone"}
    /\ acceptor \in {"running", "stopped"}
    /\ owner \in {"up", "stopping", "exited", "crashed"}
    /\ healthy \in BOOLEAN
    /\ storeFailed \in BOOLEAN
    /\ faults \in 0 .. MaxFaults

Types ==
    /\ client \in [Attempts -> Progress]
    /\ conn \in [Attempts -> Channel]
    /\ LiveBounded
    /\ Pipeline
    /\ Phases

LEMMA TypesImplyTypeOK == Types => TypeOK
BY Zenon DEF Types, TypeOK, Progress, Channel, LiveBounded, Pipeline, Phases

LEMMA Emptied ==
    /\ <<>> \in Seq(Applied) /\ Len(<<>>) <= 1
    /\ <<>> \in Seq(Attempts) /\ Len(<<>>) <= QueueCapacity
BY ControllerAssumption

LEMMA TypesInit == Init => Types
<1> SUFFICES ASSUME Init PROVE Types
  OBVIOUS
<1> USE ControllerAssumption DEF Init
<1>1. Live = {}
  BY DEF Live
<1>2. LiveBounded
  BY <1>1, FS_EmptySet DEF LiveBounded
<1>3. client \in [Attempts -> Progress] /\ conn \in [Attempts -> Channel]
  BY DEF Progress, Channel
<1>4. Pipeline
  BY DEF Pipeline
<1>5. Phases
  <2>1. faults \in 0 .. MaxFaults
    OBVIOUS
  <2>2. QED
    BY <2>1, Zenon DEF Phases
<1>6. QED
  BY <1>2, <1>3, <1>4, <1>5 DEF Types

\* A step that lets nobody in keeps the limit.
LEMMA LiveShrinks ==
    ASSUME Types, Live' \subseteq Live
    PROVE  LiveBounded'
BY FS_Subset, FS_CardinalityType, ControllerAssumption DEF Types, LiveBounded

LEMMA LiveGrows ==
    ASSUME Types, NEW a, Live' \subseteq Live \cup {a}, MayAccept
    PROVE  LiveBounded'
<1>1. IsFiniteSet(Live) /\ Cardinality(Live) \in Nat
  BY FS_CardinalityType DEF Types, LiveBounded
<1>2. IsFiniteSet(Live \cup {a}) /\ Cardinality(Live \cup {a}) <= Cardinality(Live) + 1
  <2>1. IsFiniteSet(Live \cup {a})
    BY <1>1, FS_AddElement, Zenon
  <2>2. a \in Live => Live \cup {a} = Live
    BY Zenon
  <2>3. Cardinality(Live \cup {a})
          = IF a \in Live THEN Cardinality(Live) ELSE Cardinality(Live) + 1
    BY <1>1, FS_AddElement, Zenon
  <2>4. QED
    BY <1>1, <2>1, <2>2, <2>3
<1>3. IsFiniteSet(Live') /\ Cardinality(Live') <= Cardinality(Live \cup {a})
  BY <1>2, FS_Subset
<1>4. QED
  BY <1>1, <1>2, <1>3, FS_CardinalityType, ControllerAssumption DEF LiveBounded, MayAccept

\* Every write of emit to its progress.
LEMMA ProgressKept ==
    ASSUME NEW f \in [Attempts -> Progress], NEW a \in Attempts
    PROVE  /\ [f EXCEPT ![a].pc = "connected"] \in [Attempts -> Progress]
           /\ [f EXCEPT ![a].sent = TRUE] \in [Attempts -> Progress]
BY DEF Progress

LEMMA DoneKept ==
    ASSUME client \in [Attempts -> Progress], NEW a \in Attempts, NEW r \in Outcomes, Done(a, r)
    PROVE  /\ client' \in [Attempts -> Progress]
           /\ client'[a].pc = "done" /\ client'[a].outcome = r
           /\ client'[a].sent = client[a].sent
           /\ \A b \in Attempts \ {a} : client'[b] = client[b]
BY DEF Progress, Done

LEMMA ChannelKept ==
    ASSUME NEW f \in [Attempts -> Channel], NEW a \in Attempts
    PROVE  /\ \A st \in {"backlog", "reading", "waiting", "closed"} :
                [f EXCEPT ![a].state = st] \in [Attempts -> Channel]
           /\ \A r \in Responses : Respond(f, a, r) \in [Attempts -> Channel]
           /\ \A r \in Responses : Answered(f, a, r) \in [Attempts -> Channel]
BY DEF Channel, Respond, Answered, Responses

LEMMA TablesKept ==
    ASSUME NEW f \in [Attempts -> Channel]
    PROVE  /\ \A requests : AllUnavailable(f, requests) \in [Attempts -> Channel]
           /\ Disconnected(f) \in [Attempts -> Channel]
BY DEF Channel, AllUnavailable, Disconnected, Responses

LEMMA ClientTypes ==
    ASSUME Types, NEW a \in Attempts, ClientStep(a)
    PROVE  Types'
<1>1. Live' \subseteq Live
  BY DEF ClientStep, Connect, SendFrame, ReadResponse, GiveUp, Live, Types, Channel
<1>2. client' \in [Attempts -> Progress]
  <2>1. /\ "unresolved" \in Outcomes
        /\ conn[a].response # "none" => conn[a].response \in Outcomes
    BY DEF Types, Channel, Outcomes
  <2>2. \A r \in Outcomes : Done(a, r) => client' \in [Attempts -> Progress]
    BY DoneKept, Zenon DEF Types
  <2>3. CASE Connect(a)
    <3>1. [client EXCEPT ![a].pc = "connected"] \in [Attempts -> Progress]
      BY ProgressKept, Zenon DEF Types
    <3>2. QED
      BY <2>1, <2>2, <2>3, <3>1, Zenon DEF Connect
  <2>4. CASE SendFrame(a)
    BY <2>4, ProgressKept, Zenon DEF SendFrame, Types
  <2>5. CASE GiveUp(a) \/ ReadResponse(a)
    BY <2>1, <2>2, <2>5, Zenon DEF GiveUp, ReadResponse
  <2>6. QED
    BY <2>3, <2>4, <2>5 DEF ClientStep
<1>3. conn' \in [Attempts -> Channel]
  <2>1. CASE Connect(a)
    <3>1. [conn EXCEPT ![a].state = "backlog"] \in [Attempts -> Channel]
      BY ChannelKept DEF Types
    <3>2. QED
      BY <2>1, <3>1, Zenon DEF Connect, Types
  <2>2. CASE UNCHANGED conn
    BY <2>2 DEF Types
  <2>3. QED
    BY <2>1, <2>2 DEF ClientStep, SendFrame, ReadResponse, GiveUp
<1>4. Pipeline' /\ Phases'
  BY DEF ClientStep, Connect, SendFrame, ReadResponse, GiveUp, ClientFrame, pipeline,
         storage, Types, Pipeline, Phases
<1>5. QED
  BY <1>1, <1>2, <1>3, <1>4, LiveShrinks DEF Types

LEMMA ConnectionTypes ==
    ASSUME Types, NEW a \in Attempts, ConnectionStep(a) \/ WaitTimesOut(a)
    PROVE  Types'
<1>1. LiveBounded'
  <2>1. CASE Accept(a)
    <3>1. Live' \subseteq Live \cup {a}
      BY <2>1 DEF Accept, Live, Types, Channel
    <3>2. QED
      BY <2>1, <3>1, LiveGrows DEF Accept
  <2>2. CASE ~Accept(a)
    <3>1. Live' \subseteq Live
      BY <2>2 DEF ConnectionStep, ReadFails, Enqueue, Close, WaitTimesOut, Respond, Live,
                  Types, Channel
    <3>2. QED
      BY <3>1, LiveShrinks
  <2>3. QED
    BY <2>1, <2>2
<1>2. conn' \in [Attempts -> Channel]
  <2>1. /\ \A st \in {"reading", "waiting", "closed"} :
             [conn EXCEPT ![a].state = st] \in [Attempts -> Channel]
        /\ \A r \in {"rejected", "busy", "unavailable"} :
             Respond(conn, a, r) \in [Attempts -> Channel]
    BY ChannelKept DEF Types, Responses
  <2>2. CASE Enqueue(a)
    BY <2>1, <2>2, Zenon DEF Enqueue
  <2>3. CASE ~Enqueue(a)
    BY <2>1, <2>3, Zenon DEF ConnectionStep, Accept, ReadFails, Close, WaitTimesOut
  <2>4. QED
    BY <2>2, <2>3
<1>3. queue' \in Seq(Attempts) /\ Len(queue') <= QueueCapacity
  <2>1. CASE queue' = Append(queue, a) /\ Len(queue) < QueueCapacity
    BY <2>1, AppendProperties, ControllerAssumption DEF Types, Pipeline
  <2>2. CASE UNCHANGED queue
    BY <2>2 DEF Types, Pipeline
  <2>3. QED
    BY <2>1, <2>2 DEF ConnectionStep, Accept, ReadFails, Enqueue, Close, WaitTimesOut
<1>4. Pipeline' /\ Phases' /\ client' \in [Attempts -> Progress]
  BY <1>3
  DEF ConnectionStep, Accept, ReadFails, Enqueue, Close, WaitTimesOut, ServerFrame,
      pipeline, storage, Types, Pipeline, Phases
<1>5. QED
  BY <1>1, <1>2, <1>4 DEF Types

\* What service_request, or the drop of a request, does to the queue and the connections.
LEMMA ReceiveTypes ==
    ASSUME Types, NEW a \in Attempts, NEW r \in Responses, Receive(a, r)
    PROVE  /\ LiveBounded'
           /\ conn' \in [Attempts -> Channel]
           /\ queue' \in Seq(Attempts) /\ Len(queue') <= QueueCapacity
<1>1. Live' \subseteq Live
  BY DEF Receive, Answered, Respond, Live, Types, Channel
<1>2. conn' \in [Attempts -> Channel]
  BY ChannelKept, Zenon DEF Receive, Types
<1>3. queue' \in Seq(Attempts) /\ Len(queue') <= QueueCapacity
  BY TailOccurs, ControllerAssumption DEF Receive, Types, Pipeline
<1>4. QED
  BY <1>1, <1>2, <1>3, LiveShrinks

LEMMA ServeTypes ==
    ASSUME Types, NEW a \in Attempts, Serve(a) \/ DropRequest(a)
    PROVE  Types'
<1>1. PICK r \in Responses : Receive(a, r)
  BY DEF Serve, ServeDuplicate, ServeRejected, ServeUnavailable, ServeAccepted, DropRequest,
         Responses
<1>2. /\ LiveBounded'
      /\ conn' \in [Attempts -> Channel]
      /\ queue' \in Seq(Attempts) /\ Len(queue') <= QueueCapacity
  BY <1>1, ReceiveTypes
<1>3. client' \in [Attempts -> Progress] /\ durable' \in Seq(Applied)
  BY <1>1 DEF Receive, Types, Pipeline
<1>4. CASE ServeAccepted(a)
  <2> DEFINE r0 == [event |-> EventOf[a], seq |-> nextSeq]
  <2>1. r0 \in Applied
    BY <1>4, ControllerAssumption DEF ServeAccepted, Types, Pipeline, Applied
  <2>2. log' \in Seq(Applied) /\ batch' \in Seq(Applied) /\ Len(batch') <= 1
    BY <1>4, <2>1, AppendProperties DEF ServeAccepted, commit_staged, Types, Pipeline
  <2>3. nextSeq' \in 1 .. MaxSeq + 1 /\ effect' \in [Attempts -> Nat]
    BY <1>4, ControllerAssumption DEF ServeAccepted, commit_staged, Types, Pipeline
  <2>4. ledger' \subseteq Events /\ seen' \subseteq Events
    BY <1>4, ControllerAssumption DEF ServeAccepted, commit_staged, Types, Pipeline
  <2>5. Pipeline'
    BY <1>2, <1>3, <2>2, <2>3, <2>4 DEF Pipeline
  <2>6. Phases'
    BY <1>1, <1>4 DEF ServeAccepted, Receive, Types, Phases
  <2>7. QED
    BY <1>2, <1>3, <2>5, <2>6 DEF Types
<1>5. CASE ~ServeAccepted(a)
  <2>1. UNCHANGED <<collector, pipeline, batch>> /\ (UNCHANGED faults \/ Fault)
    BY <1>5 DEF Serve, ServeDuplicate, ServeRejected, ServeUnavailable, DropRequest
  <2>2. Pipeline'
    BY <1>2, <1>3, <2>1 DEF Pipeline, Types, pipeline
  <2>3. Phases'
    BY <1>1, <2>1, ControllerAssumption DEF Receive, Fault, Types, Phases
  <2>4. QED
    BY <1>2, <1>3, <2>2, <2>3 DEF Types
<1>6. QED
  BY <1>4, <1>5

LEMMA WriterTypes ==
    ASSUME Types, WriterStep \/ Recover
    PROVE  Types'
<1>1. Live' = Live /\ client' \in [Attempts -> Progress] /\ conn' \in [Attempts -> Channel]
  BY DEF WriterStep, WriterCommits, WriterFails, Recover, WriterFrame, Live, Types
<1>2. batch' \in Seq(Applied) /\ Len(batch') <= 1 /\ durable' \in Seq(Applied)
  <2>1. durable \o batch \in Seq(Applied)
    BY ConcatProperties DEF Types, Pipeline
  <2>2. durable' \in {durable, durable \o batch} /\ batch' \in {batch, <<>>}
    BY DEF WriterStep, WriterCommits, WriterFails, Recover
  <2>3. durable' \in Seq(Applied)
    BY <2>1, <2>2, Zenon DEF Types, Pipeline
  <2>4. batch' \in Seq(Applied) /\ Len(batch') <= 1
    BY <2>2, Emptied, Zenon DEF Types, Pipeline
  <2>5. QED
    BY <2>3, <2>4
<1>3. Pipeline'
  BY <1>2 DEF WriterStep, WriterCommits, WriterFails, Recover, WriterFrame, pipeline, Types,
              Pipeline
<1>4. Phases'
  <2>1. faults' \in 0 .. MaxFaults
    BY ControllerAssumption
    DEF WriterStep, WriterCommits, WriterFails, Recover, Fault, Types, Phases
  <2>2. QED
    BY <2>1, Zenon
    DEF WriterStep, WriterCommits, WriterFails, Recover, WriterFrame, Resume, Types, Phases
<1>5. QED
  BY <1>1, <1>3, <1>4, LiveShrinks DEF Types

LEMMA LedgerTypes ==
    ASSUME Types
    PROVE  /\ SeededLedger \subseteq Events
           /\ RestoredSeq \in 1 .. MaxSeq + 1
<1>1. durable \in Seq(Applied) /\ MaxSeq \in Nat
  BY Zenon, ControllerAssumption DEF Types, Pipeline
<1>2. \A i \in 1 .. Len(durable) : durable[i] \in Applied
  BY <1>1, ElementOfSeq
<1>3. \A i \in 1 .. Len(durable) : durable[i].event \in Events /\ durable[i].seq \in 1 .. MaxSeq
  BY <1>2 DEF Applied
<1>4. SeededLedger \subseteq Events
  BY <1>3 DEF SeededLedger, EventsIn
<1>5. RestoredSeq \in 1 .. MaxSeq + 1
  <2>1. CASE durable = <<>>
    BY <1>1, <2>1 DEF RestoredSeq
  <2>2. CASE durable # <<>>
    <3>1. Len(durable) \in 1 .. Len(durable)
      BY <1>1, <2>2, EmptySeq, LenProperties
    <3>2. RestoredSeq = durable[Len(durable)].seq + 1
      BY <2>2, Zenon DEF RestoredSeq
    <3> QED BY <1>1, <1>3, <3>1, <3>2
  <2> QED BY <2>1, <2>2
<1> QED BY <1>4, <1>5

LEMMA OwnerTypes ==
    ASSUME Types, OwnerStep
    PROVE  Types'
<1>1. Live' \subseteq Live
  BY DEF OwnerStep, CollectorFails, Stop, CollectorStops, CollectorAborted, AcceptorStops, Exited,
         Crash, Restart, CollectorEnds, Disconnected, AllUnavailable, Live, Types, Channel
<1>2. conn' \in [Attempts -> Channel]
  <2>1. /\ \A requests : AllUnavailable(conn, requests) \in [Attempts -> Channel]
        /\ Disconnected(conn) \in [Attempts -> Channel]
        /\ conn \in [Attempts -> Channel]
    BY TablesKept, Zenon DEF Types
  <2>2. QED
    BY <2>1, Zenon DEF OwnerStep, CollectorFails, Stop, CollectorStops, CollectorAborted,
         AcceptorStops, Exited, Crash, Restart, CollectorEnds
<1>3. client' \in [Attempts -> Progress]
  BY DEF OwnerStep, CollectorFails, Stop, CollectorStops, CollectorAborted, AcceptorStops, Exited,
         Crash, Restart, CollectorEnds, Types
<1>4. Pipeline'
  <2>1. CASE Restart
    BY <2>1, LedgerTypes DEF Restart, Types, Pipeline
  <2>2. CASE ~Restart
    <3>1. UNCHANGED <<pipeline, durable>>
      BY <2>2
      DEF OwnerStep, CollectorFails, Stop, CollectorStops, CollectorAborted, AcceptorStops, Exited,
          Crash, CollectorEnds, pipeline, storage
    <3>2. queue' \in {queue, <<>>} /\ batch' \in {batch, <<>>}
      BY <2>2
      DEF OwnerStep, CollectorFails, Stop, CollectorStops, CollectorAborted, AcceptorStops, Exited,
          Crash, CollectorEnds, storage
    <3>3. QED
      BY <3>1, <3>2, Emptied, Zenon DEF pipeline, Types, Pipeline
  <2>3. QED
    BY <2>1, <2>2
<1>5. Phases'
  <2>1. faults' \in 0 .. MaxFaults
    BY ControllerAssumption
    DEF OwnerStep, CollectorFails, Stop, CollectorStops, CollectorAborted, AcceptorStops, Exited,
        Crash, Restart, Fault, Types, Phases
  <2>2. QED
    BY <2>1, Zenon
    DEF OwnerStep, CollectorFails, Stop, CollectorStops, CollectorAborted, AcceptorStops, Exited,
        Crash, Restart, CollectorEnds, storage, Types, Phases
<1>6. QED
  BY <1>1, <1>2, <1>3, <1>4, <1>5, LiveShrinks DEF Types

LEMMA TypesStep ==
    ASSUME Types, [Next]_vars
    PROVE  Types'
<1>1. CASE UNCHANGED vars
  <2>1. Live' = Live
    BY <1>1 DEF vars, Live
  <2>2. QED
    BY <1>1, <2>1 DEF vars, pipeline, storage, Types, LiveBounded, Pipeline, Phases
<1>2. CASE Next
  BY <1>1, <1>2, ClientTypes, ConnectionTypes, ServeTypes, WriterTypes, OwnerTypes DEF Next, Idle
<1>3. QED
  BY <1>1, <1>2

\* Every variable keeps its type, the request queue and the connections that are served at
\* once stay within their capacities, whatever run_acceptor lets in, the collector receives,
\* a store failure, a stop, a crash or a restart does.
THEOREM ControllerTypes == Spec => []TypeOK
<1>1. Types /\ [Next]_vars => Types'
  BY TypesStep
<1>2. QED
  BY <1>1, TypesInit, TypesImplyTypeOK, PTL DEF Spec

-----------------------------------------------------------------------------
(* What is known of a request from emit to the answer.                     *)

\* An attempt is queued at most once and only while nothing was done for it; a response
\* other than "none" says what was done for it; and emit reports what was responded.
Request(a) ==
    /\ Occurs(a, queue) => /\ conn[a].state \in {"waiting", "closed"}
                           /\ conn[a].response = "none"
                           /\ effect[a] = 0
    /\ conn[a].state \in {"none", "backlog", "reading", "waiting"} =>
           conn[a].response = "none" /\ effect[a] = 0
    /\ conn[a].response # "none" =>
           /\ effect[a] = IF conn[a].response = "accepted" THEN 1 ELSE 0
           /\ conn[a].response = "duplicate" => EventOf[a] \in seen
    /\ client[a].pc = "idle" => conn[a].state = "none"
    /\ client[a].outcome \notin {"none", "unresolved"} => client[a].outcome = conn[a].response

Requests ==
    /\ Distinct(queue)
    /\ collector = "gone" => queue = <<>>
    /\ \A a \in Attempts : Request(a)

LEMMA RequestsInit == Init => Requests
BY DEF Init, Requests, Request, Distinct, Occurs

LEMMA ClientRequests ==
    ASSUME Types, Types', Requests, NEW a \in Attempts, ClientStep(a)
    PROVE  Requests'
<1>1. UNCHANGED <<queue, collector, effect, seen>>
  BY DEF ClientStep, Connect, SendFrame, ReadResponse, GiveUp, ClientFrame, pipeline
<1>2. ASSUME NEW b \in Attempts, b # a
      PROVE  client'[b] = client[b] /\ conn'[b] = conn[b]
  BY <1>2 DEF ClientStep, Connect, SendFrame, ReadResponse, GiveUp, Done, Types, Progress, Channel
<1>3. ASSUME NEW b \in Attempts, b # a
      PROVE  Request(b)'
  BY <1>1, <1>2, <1>3 DEF Requests, Request, Occurs
<1>4. Request(a)'
  <2>1. Request(a)
    BY DEF Requests
  <2>2. /\ client[a] \in Progress /\ conn[a] \in Channel
    BY DEF Types
  <2>3. CASE Connect(a)
    <3>1. /\ client'[a].pc \in {"connected", "done"}
          /\ client'[a].outcome \in {client[a].outcome, "unresolved"}
          /\ conn'[a].response = conn[a].response
          /\ conn'[a].state = conn[a].state \/ (conn'[a].state = "backlog" /\ conn[a].state = "none")
      BY <2>1, <2>3 DEF Connect, Done, Types, Progress, Channel, Request
    <3>2. QED
      BY <1>1, <2>1, <3>1 DEF Request, Occurs
  <2>4. CASE SendFrame(a) \/ GiveUp(a)
    <3>1. /\ client'[a].pc # "idle"
          /\ client'[a].outcome \in {client[a].outcome, "unresolved"}
          /\ conn' = conn
      BY <2>4 DEF SendFrame, GiveUp, Done, Types, Progress
    <3>2. QED
      BY <1>1, <2>1, <3>1 DEF Request, Occurs
  <2>5. CASE ReadResponse(a)
    <3>1. /\ client'[a].pc = "done"
          /\ client'[a].outcome \in {conn[a].response, "unresolved"}
          /\ conn' = conn
      BY <2>5 DEF ReadResponse, Done, Types, Progress
    <3>2. QED
      BY <1>1, <2>1, <3>1 DEF Request, Occurs
  <2>6. QED
    BY <2>3, <2>4, <2>5 DEF ClientStep
<1>5. QED
  BY <1>1, <1>3, <1>4 DEF Requests, Distinct

LEMMA ConnectionRequests ==
    ASSUME Types, Types', Requests, NEW a \in Attempts, ConnectionStep(a) \/ WaitTimesOut(a)
    PROVE  Requests'
<1>1. UNCHANGED <<client, collector, effect, seen>>
  BY DEF ConnectionStep, Accept, ReadFails, Enqueue, Close, WaitTimesOut, ServerFrame, pipeline
<1>2. ASSUME NEW b \in Attempts, b # a
      PROVE  conn'[b] = conn[b]
  BY <1>2 DEF ConnectionStep, Accept, ReadFails, Enqueue, Close, WaitTimesOut, Respond, Types, Channel
<1>3. Request(a) /\ conn[a] \in Channel
  BY DEF Requests, Types
<1>4. CASE queue' = Append(queue, a)
  <2>1. /\ conn[a].state = "reading" /\ collector # "gone"
        /\ conn'[a].state = "waiting" /\ conn'[a].response = conn[a].response
    <3>1. CASE Enqueue(a)
      <4>1. queue' # queue
        BY <1>4, AppendProperties DEF Types, Pipeline
      <4>2. QED
        BY <3>1, <4>1 DEF Enqueue, Types, Channel
    <3>2. CASE ~Enqueue(a)
      BY <1>4, <3>2, AppendProperties
      DEF ConnectionStep, Accept, ReadFails, Close, WaitTimesOut, Types, Pipeline
    <3>3. QED
      BY <3>1, <3>2
  <2>2. ~Occurs(a, queue)
    BY <1>3, <2>1 DEF Request
  <2>3. /\ Distinct(queue')
        /\ \A b : Occurs(b, queue') <=> Occurs(b, queue) \/ b = a
    BY <1>4, <2>2, AppendOccurs DEF Requests, Types, Pipeline
  <2>4. Request(a)'
    BY <1>1, <1>3, <2>1, <2>3 DEF Request, Occurs
  <2>5. ASSUME NEW b \in Attempts, b # a
        PROVE  Request(b)'
    <3>1. Request(b) /\ (Occurs(b, queue') <=> Occurs(b, queue))
      BY <2>3, <2>5, Zenon DEF Requests
    <3>2. QED
      BY <1>1, <1>2, <2>5, <3>1 DEF Request
  <2>6. QED
    BY <1>1, <2>1, <2>3, <2>4, <2>5 DEF Requests, Distinct
<1>5. CASE queue' = queue
  <2>1. \/ /\ conn[a].state = "backlog"
           /\ conn'[a].state = "reading" /\ conn'[a].response = conn[a].response
        \/ /\ conn[a].state = "reading"
           /\ conn'[a].state = "responded"
           /\ conn'[a].response \in {"rejected", "busy", "unavailable"}
        \/ /\ conn[a].state \in {"waiting", "responded"}
           /\ conn'[a].state = "closed" /\ conn'[a].response = conn[a].response
    <3>1. CASE Enqueue(a)
      <4>1. queue' # Append(queue, a)
        BY <1>5, AppendProperties DEF Types, Pipeline
      <4>2. QED
        BY <3>1, <4>1 DEF Enqueue, Respond, Types, Channel
    <3>2. CASE ~Enqueue(a)
      BY <3>2 DEF ConnectionStep, Accept, ReadFails, Close, WaitTimesOut, Respond, Types, Channel
    <3>3. QED
      BY <3>1, <3>2
  <2>2. Request(a)'
    BY <1>1, <1>3, <1>5, <2>1 DEF Request, Occurs
  <2>3. ASSUME NEW b \in Attempts, b # a
        PROVE  Request(b)'
    BY <1>1, <1>2, <1>5, <2>3 DEF Requests, Request, Occurs
  <2>4. QED
    BY <1>1, <1>5, <2>2, <2>3 DEF Requests, Distinct
<1>6. QED
  BY <1>4, <1>5 DEF ConnectionStep, Accept, ReadFails, Enqueue, Close, WaitTimesOut

\* The request the collector receives is the oldest of the queue and leaves it for good.
LEMMA ReceiveRequests ==
    ASSUME Types, Types', Requests, NEW a \in Attempts, NEW r \in Responses, Receive(a, r),
           effect' = IF r = "accepted" THEN [effect EXCEPT ![a] = @ + 1] ELSE effect,
           r = "duplicate" => EventOf[a] \in seen',
           seen \subseteq seen', collector' # "gone"
    PROVE  Requests'
<1>1. UNCHANGED client /\ r # "none"
  BY DEF Receive, Responses
<1>2. /\ Distinct(queue')
      /\ ~Occurs(a, queue')
      /\ Occurs(a, queue)
      /\ \A b : Occurs(b, queue') => Occurs(b, queue)
  BY TailOccurs DEF Receive, Requests, Types, Pipeline
<1>3. ASSUME NEW b \in Attempts, b # a
      PROVE  conn'[b] = conn[b] /\ effect'[b] = effect[b]
  BY <1>3 DEF Receive, Answered, Respond, Types, Channel, Pipeline
<1>4. ASSUME NEW b \in Attempts, b # a
      PROVE  Request(b)'
  <2>1. Request(b) /\ (Occurs(b, queue') => Occurs(b, queue))
    BY <1>2, Zenon DEF Requests
  <2>2. QED
    BY <1>1, <1>3, <1>4, <2>1 DEF Request
<1>5. Request(a)'
  <2>1. Request(a) /\ conn[a] \in Channel
    BY DEF Requests, Types
  <2>2. effect'[a] = IF r = "accepted" THEN 1 ELSE 0
    BY <1>2, <2>1 DEF Request, Types, Pipeline
  <2>3. \/ conn[a].state = "waiting" /\ conn'[a].state = "responded" /\ conn'[a].response = r
        \/ conn[a].state = "closed" /\ conn'[a] = conn[a]
    BY <1>2, <2>1 DEF Receive, Answered, Respond, Request, Types, Channel
  <2>4. QED
    BY <1>1, <1>2, <2>1, <2>2, <2>3 DEF Request, Occurs
<1>6. QED
  BY <1>2, <1>4, <1>5 DEF Requests, Distinct

LEMMA ServeRequests ==
    ASSUME Types, Types', Requests, ledger \subseteq seen,
           NEW a \in Attempts, Serve(a) \/ DropRequest(a)
    PROVE  Requests'
<1>1. CASE ServeAccepted(a)
  <2>1. /\ Receive(a, "accepted") /\ collector' = "committing"
        /\ effect' = [effect EXCEPT ![a] = @ + 1] /\ seen \subseteq seen'
    BY <1>1 DEF ServeAccepted, commit_staged
  <2>2. QED
    BY <2>1, ReceiveRequests DEF Responses
<1>2. CASE ServeDuplicate(a)
  <2>1. /\ Receive(a, "duplicate") /\ collector' = "ready"
        /\ effect' = effect /\ seen' = seen /\ EventOf[a] \in seen
    BY <1>2 DEF ServeDuplicate, IsDuplicate, Receive, pipeline
  <2>2. QED
    BY <2>1, ReceiveRequests DEF Responses
<1>3. CASE ServeRejected(a) \/ ServeUnavailable(a) \/ DropRequest(a)
  <2>1. PICK r \in {"rejected", "unavailable"} : Receive(a, r)
    BY <1>3 DEF ServeRejected, ServeUnavailable, DropRequest
  <2>2. collector' = "ready" /\ effect' = effect /\ seen' = seen
    BY <1>3 DEF ServeRejected, ServeUnavailable, DropRequest, Receive, pipeline
  <2>3. QED
    BY <2>1, <2>2, ReceiveRequests DEF Responses
<1>4. QED
  BY <1>1, <1>2, <1>3 DEF Serve

LEMMA OwnerRequests ==
    ASSUME Types, Types', Requests, OwnerStep
    PROVE  Requests'
<1>1. UNCHANGED <<client, effect, seen>>
  BY DEF OwnerStep, CollectorFails, Stop, CollectorStops, CollectorAborted, AcceptorStops, Exited,
         Crash, Restart, CollectorEnds, pipeline
<1>2. CASE UNCHANGED conn /\ queue' = queue /\ (collector' = "gone" => collector = "gone")
  BY <1>1, <1>2 DEF Requests, Request, Distinct, Occurs
<1>3. CASE queue' = <<>> /\ conn' = AllUnavailable(conn, {queue[i] : i \in 1 .. Len(queue)})
  <2>1. Distinct(queue') /\ \A b : ~Occurs(b, queue')
    BY <1>3 DEF Distinct, Occurs
  <2>2. ASSUME NEW b \in Attempts
        PROVE  Request(b)'
    <3>1. Request(b) /\ ~Occurs(b, queue') /\ conn[b] \in Channel
      BY <2>1 DEF Requests, Types
    <3>2. \/ conn'[b] = conn[b]
          \/ /\ conn[b].state = "waiting"
             /\ conn'[b].state = "responded" /\ conn'[b].response = "unavailable"
      BY <1>3 DEF AllUnavailable
    <3>3. QED
      BY <1>1, <3>1, <3>2 DEF Request
  <2>3. QED
    BY <1>3, <2>1, <2>2 DEF Requests
<1>4. CASE /\ conn' = Disconnected(conn)
           /\ \/ queue' = <<>>
              \/ queue' = queue /\ collector' = collector
  <2>1. /\ Distinct(queue')
        /\ \A b : Occurs(b, queue') => Occurs(b, queue)
        /\ collector' = "gone" => queue' = <<>>
    BY <1>4 DEF Requests, Distinct, Occurs
  <2>2. ASSUME NEW b \in Attempts
        PROVE  Request(b)'
    <3>1. Request(b) /\ (Occurs(b, queue') => Occurs(b, queue)) /\ conn[b] \in Channel
      BY <2>1 DEF Requests, Types
    <3>2. /\ conn'[b].response = conn[b].response
          /\ conn[b].state = "none" => conn'[b].state = "none"
          /\ conn[b].state # "none" => conn'[b].state = "closed"
      BY <1>4, <3>1 DEF Disconnected, Channel
    <3>3. QED
      BY <1>1, <3>1, <3>2 DEF Request
  <2>3. QED
    BY <2>1, <2>2 DEF Requests
<1>5. QED
  BY <1>2, <1>3, <1>4
  DEF OwnerStep, CollectorFails, Stop, CollectorStops, CollectorAborted, AcceptorStops, Exited,
      Crash, Restart, CollectorEnds

LEMMA RequestsStep ==
    ASSUME Types, Types', Requests, ledger \subseteq seen, [Next]_vars
    PROVE  Requests'
<1>1. CASE WriterStep \/ Recover \/ UNCHANGED vars
  <2>1. UNCHANGED <<client, conn, queue, effect, seen>> /\ (collector' = "gone" => collector = "gone")
    BY <1>1 DEF WriterStep, WriterCommits, WriterFails, Recover, WriterFrame, Resume, pipeline, vars
  <2>2. QED
    BY <2>1 DEF Requests, Request, Distinct, Occurs
<1>2. QED
  BY <1>1, ClientRequests, ConnectionRequests, ServeRequests, OwnerRequests DEF Next, Idle

-----------------------------------------------------------------------------
(* What is applied and what is stored.                                     *)

\* No event twice, numbers that ascend and stay below n.
Ordered(s, n) ==
    /\ \A i, j \in 1 .. Len(s) : s[i].event = s[j].event => i = j
    /\ \A i, j \in 1 .. Len(s) : i < j => s[i].seq < s[j].seq
    /\ \A i \in 1 .. Len(s) : s[i].seq < n

LEMMA OrderedAppend ==
    ASSUME NEW s \in Seq(Applied), NEW r \in Applied, NEW n \in Nat,
           Ordered(s, r.seq), r.event \notin EventsIn(s), r.seq < n
    PROVE  /\ Ordered(Append(s, r), n)
           /\ EventsIn(Append(s, r)) = EventsIn(s) \cup {r.event}
<1> DEFINE t == Append(s, r)
<1>1. /\ Len(s) \in Nat
      /\ Len(t) = Len(s) + 1
      /\ \A i \in 1 .. Len(s) : t[i] = s[i]
      /\ t[Len(s) + 1] = r
  BY AppendProperties, LenProperties
<1>2. \A i \in 1 .. Len(t) : i \in 1 .. Len(s) \/ i = Len(s) + 1
  BY <1>1
<1>3. r.seq \in Nat /\ \A i \in 1 .. Len(s) : s[i].seq \in Nat
  <2>1. \A i \in 1 .. Len(s) : s[i] \in Applied
    BY ElementOfSeq
  <2>2. QED
    BY <2>1 DEF Applied
<1>4. \A i \in 1 .. Len(s) : s[i].event # r.event
  BY DEF EventsIn
<1> HIDE DEF t
<1>5. \A i, j \in 1 .. Len(t) : t[i].event = t[j].event => i = j
  BY <1>1, <1>2, <1>4 DEF Ordered
<1>6. \A i, j \in 1 .. Len(t) : i < j => t[i].seq < t[j].seq
  BY <1>1, <1>2 DEF Ordered
<1>7. \A i \in 1 .. Len(t) : t[i].seq < n
  BY <1>1, <1>2, <1>3 DEF Ordered, Applied
<1>8. EventsIn(t) = EventsIn(s) \cup {r.event}
  BY <1>1, <1>2 DEF EventsIn
<1>9. QED
  BY <1>5, <1>6, <1>7, <1>8 DEF Ordered, t

LEMMA OrderedPrefix ==
    ASSUME NEW s \in Seq(Applied), NEW t \in Seq(Applied), NEW n, Ordered(s \o t, n)
    PROVE  Ordered(s, n) /\ EventsIn(s) \subseteq EventsIn(s \o t)
<1>1. /\ Len(s) \in Nat /\ Len(t) \in Nat
      /\ Len(s \o t) = Len(s) + Len(t)
      /\ \A i \in 1 .. Len(s) : i \in 1 .. Len(s \o t) /\ (s \o t)[i] = s[i]
  BY ConcatProperties, LenProperties
<1>2. QED
  BY <1>1 DEF Ordered, EventsIn

\* The store with the batch the writer still has is what the next process may find;
\* the mirror of the ledger and the ingest sequence are ahead of both.
Records ==
    /\ Ordered(log, nextSeq)
    /\ Ordered(durable \o batch, nextSeq)
    /\ EventsIn(log) \subseteq ledger
    /\ EventsIn(durable \o batch) \subseteq ledger
    /\ ledger \subseteq seen

\* A collector that serves has nothing at the writer, a process that has ended has no
\* collector and no batch, and a healthy process stores exactly what it applies.
Exits ==
    /\ collector = "ready" => batch = <<>>
    /\ owner \in {"exited", "crashed"} => collector = "gone" /\ batch = <<>>
    /\ owner # "crashed" /\ ~storeFailed => log = durable \o batch

LEMMA RecordsInit == Init => Records /\ Exits
<1> SUFFICES ASSUME Init PROVE Records /\ Exits
  OBVIOUS
<1>1. durable \o batch = <<>>
  BY ConcatEmptySeq, Emptied DEF Init
<1>2. QED
  BY <1>1 DEF Init, Records, Exits, Ordered, EventsIn

LEMMA ServeRecords ==
    ASSUME Types, Types', Records, Exits, NEW a \in Attempts, ServeAccepted(a)
    PROVE  Records' /\ Exits'
<1> DEFINE r == [event |-> EventOf[a], seq |-> nextSeq]
<1>1. /\ collector = "ready" /\ batch = <<>> /\ EventOf[a] \notin ledger
      /\ log' = Append(log, r) /\ batch' = <<r>> /\ durable' = durable
      /\ nextSeq' = nextSeq + 1 /\ ledger' = ledger \cup {EventOf[a]}
      /\ seen' = seen \cup {EventOf[a]}
      /\ collector' = "committing" /\ owner' = owner /\ storeFailed' = storeFailed
  BY DEF ServeAccepted, Receive, IsDuplicate, commit_staged, Exits
<1>2. r \in Applied /\ r.event = EventOf[a] /\ r.seq = nextSeq
  BY ControllerAssumption DEF ServeAccepted, Types, Pipeline, Applied
<1>3. log \in Seq(Applied) /\ durable \in Seq(Applied) /\ nextSeq \in Nat
  BY DEF Types, Pipeline
<1>4. durable \o batch = durable
  BY <1>1, <1>3, ConcatEmptySeq
<1>5. durable' \o batch' = Append(durable, r)
  BY <1>1, <1>2, <1>3, AppendIsConcat
<1> HIDE DEF r
<1>6. /\ Ordered(Append(log, r), nextSeq + 1)
      /\ EventsIn(Append(log, r)) = EventsIn(log) \cup {EventOf[a]}
  <2>1. Ordered(log, r.seq) /\ r.event \notin EventsIn(log)
    BY <1>1, <1>2 DEF Records
  <2>2. nextSeq + 1 \in Nat /\ r.seq < nextSeq + 1
    BY <1>2, <1>3
  <2>3. QED
    BY <1>2, <1>3, <2>1, <2>2, OrderedAppend
<1>7. /\ Ordered(Append(durable, r), nextSeq + 1)
      /\ EventsIn(Append(durable, r)) = EventsIn(durable) \cup {EventOf[a]}
  BY <1>1, <1>2, <1>3, <1>4, OrderedAppend DEF Records
<1>8. Records'
  BY <1>1, <1>4, <1>5, <1>6, <1>7 DEF Records
<1>9. owner \notin {"exited", "crashed"}
  BY <1>1 DEF Exits
<1>10. Exits'
  BY <1>1, <1>4, <1>5, <1>9 DEF Exits
<1>11. QED
  BY <1>8, <1>10

LEMMA WriterRecords ==
    ASSUME Types, Types', Records, Exits, WriterStep \/ Recover
    PROVE  Records' /\ Exits'
<1>1. /\ durable \in Seq(Applied) /\ batch \in Seq(Applied)
      /\ durable \o batch \in Seq(Applied)
  BY ConcatProperties DEF Types, Pipeline
<1>2. UNCHANGED <<owner, pipeline>> /\ (collector' = "ready" => batch' = <<>>)
  BY DEF WriterStep, WriterCommits, WriterFails, Recover, WriterFrame, Resume, Exits
<1>3. collector = "gone" => collector' = "gone"
  BY DEF WriterStep, WriterCommits, WriterFails, Recover, WriterFrame, Resume
<1>4. CASE durable' \o batch' = durable \o batch /\ storeFailed' = storeFailed
           /\ batch' \in {batch, <<>>}
  BY <1>2, <1>3, <1>4 DEF Records, Exits, pipeline
<1>5. CASE durable' = durable /\ batch' = <<>> /\ storeFailed' = TRUE
  <2>1. durable' \o batch' = durable
    BY <1>1, <1>5, ConcatEmptySeq
  <2>2. Ordered(durable, nextSeq) /\ EventsIn(durable) \subseteq EventsIn(durable \o batch)
    BY <1>1, OrderedPrefix DEF Records
  <2>3. Records'
    BY <1>2, <2>1, <2>2 DEF Records, pipeline
  <2>4. Exits'
    BY <1>2, <1>3, <1>5, Zenon DEF Exits
  <2>5. QED
    BY <2>3, <2>4
<1>6. CASE durable' = durable \o batch /\ batch' = <<>> /\ storeFailed' = TRUE
  <2>1. durable' \o batch' = durable \o batch
    BY <1>1, <1>6, ConcatEmptySeq
  <2>2. Records'
    BY <1>2, <2>1 DEF Records, pipeline
  <2>3. Exits'
    BY <1>2, <1>3, <1>6, Zenon DEF Exits
  <2>4. QED
    BY <2>2, <2>3
<1>7. CASE WriterCommits
  <2>1. durable' \o batch' = durable \o batch
    BY <1>1, <1>7, ConcatEmptySeq DEF WriterCommits
  <2>2. QED
    BY <1>4, <1>7, <2>1 DEF WriterCommits
<1>8. CASE Recover
  BY <1>4, <1>8 DEF Recover
<1>9. CASE WriterFails
  BY <1>5, <1>6, <1>9 DEF WriterFails
<1>10. QED
  BY <1>7, <1>8, <1>9 DEF WriterStep

\* The number the next process continues from is above everything that is stored.
LEMMA RestoredAbove ==
    ASSUME Types, Ordered(durable, nextSeq)
    PROVE  Ordered(durable, RestoredSeq)
<1>1. durable \in Seq(Applied) /\ Len(durable) \in Nat
  BY LenProperties DEF Types, Pipeline
<1>2. \A i \in 1 .. Len(durable) : durable[i] \in Applied
  BY <1>1, ElementOfSeq
<1>3. \A i \in 1 .. Len(durable) : durable[i].seq \in Nat
  BY <1>2 DEF Applied
<1>4. ASSUME NEW i \in 1 .. Len(durable)
      PROVE  durable[i].seq < RestoredSeq
  <2>1. durable # <<>> /\ Len(durable) \in 1 .. Len(durable)
    BY <1>1
  <2>2. i = Len(durable) \/ durable[i].seq < durable[Len(durable)].seq
    BY <1>1, <2>1 DEF Ordered
  <2>3. QED
    BY <1>3, <2>1, <2>2 DEF RestoredSeq
<1>5. QED
  BY <1>4 DEF Ordered

LEMMA OwnerRecords ==
    ASSUME Types, Types', Records, Exits, OwnerStep
    PROVE  Records' /\ Exits'
<1>1. /\ durable \in Seq(Applied) /\ batch \in Seq(Applied)
      /\ Ordered(durable, nextSeq)
      /\ EventsIn(durable) \subseteq EventsIn(durable \o batch)
  BY OrderedPrefix DEF Types, Pipeline, Records
<1>2. durable \o <<>> = durable
  BY <1>1, ConcatEmptySeq
<1>3. CASE Restart
  <2>1. Ordered(durable, RestoredSeq)
    BY <1>1, RestoredAbove
  <2>2. durable' \o batch' = durable /\ log' = durable
    BY <1>2, <1>3 DEF Restart
  <2>3. QED
    BY <1>1, <1>3, <2>1, <2>2 DEF Restart, SeededLedger, Records, Exits
<1>4. CASE Crash
  <2>1. durable' \o batch' = durable /\ UNCHANGED pipeline
    BY <1>2, <1>4 DEF Crash
  <2>2. QED
    BY <1>1, <1>4, <2>1 DEF Crash, Records, Exits, pipeline
<1>5. CASE OwnerStep /\ ~Restart /\ ~Crash
  <2>1. /\ UNCHANGED <<pipeline, storage>>
        /\ collector' = "ready" => collector = "ready"
        /\ collector = "gone" => collector' = "gone"
        /\ owner' \in {"up", "stopping", "exited", "crashed"}
        /\ owner' = "exited" => batch = <<>> /\ collector = "gone"
        /\ owner' = "crashed" <=> owner = "crashed"
    BY <1>5
    DEF OwnerStep, CollectorFails, Stop, CollectorStops, CollectorAborted, AcceptorStops, Exited,
        CollectorEnds, WriterDrained, Exits
  <2>2. Records'
    BY <2>1 DEF Records, pipeline, storage
  <2>3. Exits'
    BY <2>1 DEF Exits, pipeline, storage
  <2>4. QED
    BY <2>2, <2>3
<1>6. QED
  BY <1>3, <1>4, <1>5

LEMMA RecordsStep ==
    ASSUME Types, Types', Records, Exits, [Next]_vars
    PROVE  Records' /\ Exits'
<1>1. CASE \E a \in Attempts : ServeAccepted(a)
  BY <1>1, ServeRecords
<1>2. CASE WriterStep \/ Recover
  BY <1>2, WriterRecords
<1>3. CASE OwnerStep
  BY <1>3, OwnerRecords
<1>4. CASE UNCHANGED <<pipeline, storage, owner, collector>>
  BY <1>4 DEF Records, Exits, pipeline, storage
<1>5. ASSUME NEW a \in Attempts,
             ClientStep(a) \/ ConnectionStep(a) \/ WaitTimesOut(a) \/ Serve(a) \/ DropRequest(a),
             ~ServeAccepted(a)
      PROVE  UNCHANGED <<pipeline, storage, owner, collector>>
  BY <1>5
  DEF ClientStep, Connect, SendFrame, ReadResponse, GiveUp, ClientFrame,
      ConnectionStep, Accept, ReadFails, Enqueue, Close, WaitTimesOut, ServerFrame,
      Serve, ServeDuplicate, ServeRejected, ServeUnavailable, DropRequest, Receive, storage
<1>6. CASE UNCHANGED vars
  BY <1>4, <1>6 DEF vars, pipeline, storage
<1>7. QED
  BY <1>1, <1>2, <1>3, <1>4, <1>5, <1>6 DEF Next, Idle

-----------------------------------------------------------------------------
(* The theorems.  The invariant is the same for the three: what is stored   *)
(* and numbered, what a stopped process has left, and what was done for the *)
(* requests hold one another up.                                            *)

ControllerInv == Types /\ Records /\ Exits /\ Requests

LEMMA ControllerInvInit == Init => ControllerInv
BY TypesInit, RecordsInit, RequestsInit DEF ControllerInv

LEMMA ControllerInvStep == ControllerInv /\ [Next]_vars => ControllerInv'
<1> SUFFICES ASSUME ControllerInv, [Next]_vars
             PROVE  ControllerInv'
  OBVIOUS
<1>1. Types'
  BY TypesStep DEF ControllerInv
<1>2. Records' /\ Exits'
  BY <1>1, RecordsStep DEF ControllerInv
<1>3. Requests'
  BY <1>1, RequestsStep DEF ControllerInv, Records
<1>4. QED
  BY <1>1, <1>2, <1>3 DEF ControllerInv

LEMMA ControllerInvariant == Spec => []ControllerInv
BY ControllerInvInit, ControllerInvStep, PTL DEF Spec

\* finish_pending applies an event once however often and by however many runs of emit it is
\* sent, and the ingest sequence numbers order what was applied and what was stored, across
\* timeouts, store failures, crashes that lose the last batch, and restarts.
THEOREM EventsAppliedOnceInOrder == Spec => []AppliedOnceInOrder
<1>1. ControllerInv => AppliedOnceInOrder
  <2> SUFFICES ASSUME ControllerInv PROVE AppliedOnceInOrder
    OBVIOUS
  <2>1. Ordered(durable, nextSeq)
    BY OrderedPrefix DEF ControllerInv, Types, Pipeline, Records
  <2>2. QED
    BY <2>1 DEF ControllerInv, Records, Ordered, AppliedOnceInOrder, AppliedOnce, IngestOrder
<1>2. QED
  BY <1>1, ControllerInvariant, PTL

\* What emit prints stays true: accepted is an effect of this request, duplicate one of an
\* earlier request with its event, and after any other response service_request has not
\* applied it and, as it is not queued any more, never will.
THEOREM EmitAnswersTruthful == Spec => []AnswersTruthful
<1>1. ControllerInv => AnswersTruthful
  <2> SUFFICES ASSUME ControllerInv,
                      NEW a \in Attempts, client[a].outcome \notin {"none", "unresolved"}
               PROVE  /\ effect[a] = IF client[a].outcome = "accepted" THEN 1 ELSE 0
                      /\ client[a].outcome = "duplicate" => EventOf[a] \in seen
                      /\ \A i \in 1 .. Len(queue) : queue[i] # a
    BY DEF AnswersTruthful
  <2>1. Request(a)
    BY DEF ControllerInv, Requests
  <2>2. QED
    BY <2>1 DEF Request, Occurs
<1>2. QED
  BY <1>1, ControllerInvariant, PTL

\* CollectorHandle::stop and WriterLifecycle::shutdown leave a store that holds every event
\* the process has accepted, unless a write failed, even when the collector was aborted while
\* it waited in finish_pending.
THEOREM ExitKeepsAccepted == Spec => []GracefulExitKeepsAccepted
<1>1. ControllerInv => GracefulExitKeepsAccepted
  <2> SUFFICES ASSUME ControllerInv, owner = "exited", ~storeFailed
               PROVE  log = durable
    BY DEF GracefulExitKeepsAccepted
  <2>1. batch = <<>> /\ log = durable \o batch
    BY DEF ControllerInv, Exits
  <2>2. QED
    BY <2>1, ConcatEmptySeq DEF ControllerInv, Types, Pipeline
<1>2. QED
  BY <1>1, ControllerInvariant, PTL
=============================================================================
