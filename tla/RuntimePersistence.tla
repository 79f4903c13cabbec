------------------------- MODULE RuntimePersistence -------------------------
(***************************************************************************)
(* The collector's persistence facade (RuntimePersistence and the          *)
(* persist_* functions of src/herdr/collector.rs) over the writer.         *)
(*                                                                         *)
(* The collector makes one facade call at a time.  A call first copies the *)
(* writer's health into the facade's snapshot.  While that is degraded no  *)
(* write is sent: the call is skipped, and the asynchronous entry points   *)
(* drive one recovery probe when the retry cooldown has elapsed.  Results  *)
(* are classified into outcomes that tell the reducer and the history      *)
(* drain what is durable.  After an observed recovery a PersistenceOutage  *)
(* gap marker is written.                                                  *)
(*                                                                         *)
(* Batches carry no ledger entries here (Writer covers those); counters,   *)
(* the failure log and coverage rows are diagnostics and left out.         *)
(***************************************************************************)
EXTENDS Writer

VARIABLES
    facade,     \* snapshot and PersistenceRecovery fields of the facade
    call,       \* the facade call in progress
    acceptor,   \* whether the controller's acceptor task still runs
    claim,      \* per command: the outcome the facade reported for it
    committed,  \* commands whose transaction is in the database
    unmarked,   \* an outage ended and no marker committed since
    drain       \* history drain: in the database, read back, published

rvars == <<facade, call, acceptor, claim, committed, unmarked, drain>>
allvars == <<vars, rvars>>

Outcomes == {"Durable", "CommittedButDegraded", "NotCommitted", "DurabilityUnknown", "Skipped"}
KnownCommitted == {"Durable", "CommittedButDegraded"}

\* Who calls: persist_submission and the rate checkpoint; historical provider
\* batches; live provider events and controller requests, both through a
\* permit; the sweep's cleanup; the owner tracker; the history barrier; and
\* the recovery marker.
Entry == {"Submission", "Provider", "ProviderLive", "ControllerLive", "Cleanup",
          "OwnerLocation", "Finalize", "Marker"}

Permitted(entry) == entry \in {"ProviderLive", "ControllerLive"}

KindOf(entry) ==
    CASE entry = "Cleanup"       -> "Cleanup"
      [] entry = "OwnerLocation" -> "UpdateOwner"
      [] entry = "Finalize"      -> "Finalize"
      [] OTHER                   -> "Apply"

Facade == [status        : Status,
           probe         : {"none", "cooling", "due"},
           stopPending   : BOOLEAN,
           markerPending : BOOLEAN,
           input         : {"Available", "PersistenceUnavailable", "AcceptorStopped"},
           owner         : {"Current", "Stale"}]

-----------------------------------------------------------------------------
(* The facade's snapshot.                                                  *)

outcome_of(failure) ==
    CASE failure = Healthy                  -> "Durable"
      [] failure.durability = "Committed"   -> "CommittedButDegraded"
      [] failure.durability = "Unknown"     -> "DurabilityUnknown"
      [] OTHER                              -> "NotCommitted"

\* Mutant: the retry cooldown is not armed on the degraded edge.
record_facade_failure_no_cooldown(f, failure, ownerClass) ==
    IF f.status # Healthy THEN f
    ELSE [f EXCEPT !.status = failure,
                   !.stopPending = @ \/ f.input = "AcceptorStopped",
                   !.input = IF @ = "Available" THEN "PersistenceUnavailable" ELSE @,
                   !.owner = IF ownerClass THEN "Stale" ELSE @]

\* record_facade_failure: only the first failure of an outage is recorded.
record_facade_failure(f, failure, ownerClass) ==
    IF f.status # Healthy THEN f
    ELSE [f EXCEPT !.status = failure,
                   !.probe = "cooling",
                   !.stopPending = @ \/ f.input = "AcceptorStopped",
                   !.input = IF @ = "Available" THEN "PersistenceUnavailable" ELSE @,
                   !.owner = IF ownerClass THEN "Stale" ELSE @]

\* The facade sees that a probe brought the writer back.
Recovered(f) ==
    [f EXCEPT !.status = Healthy,
              !.input = IF f.stopPending THEN "AcceptorStopped"
                        ELSE IF @ = "PersistenceUnavailable" THEN "Available" ELSE @,
              !.stopPending = FALSE,
              !.probe = "none",
              !.markerPending = TRUE]

ingest_writer_status(f, status) ==
    IF status # Healthy
    THEN record_facade_failure(f, status, status.operation = "UpdateOwnerLocation")
    ELSE IF f.status # Healthy THEN Recovered(f) ELSE f

\* Whether ingesting status ends an outage.
EndsOutage(f, status) == f.status # Healthy /\ status = Healthy

record_skip(f, entry) == IF entry = "OwnerLocation" THEN [f EXCEPT !.owner = "Stale"] ELSE f

NoCall == [pc |-> "none", entry |-> "Marker"]

-----------------------------------------------------------------------------
(* The end of a call: persist_recovery_marker_if_pending for the entry     *)
(* points that call it, and for the marker itself the flag again unless it *)
(* is known to be committed.                                               *)

WritesMarker(entry, outcome) ==
    \/ entry \in {"Submission", "Cleanup"}
    \/ entry \in {"Provider", "ProviderLive"} /\ outcome \in KnownCommitted

\* Mutant: a marker that was not written is forgotten.
EndCall_forgets_marker(f, entry, outcome) ==
    IF entry # "Marker" /\ f.markerPending /\ WritesMarker(entry, outcome)
    THEN /\ facade' = [f EXCEPT !.markerPending = FALSE]
         /\ call' = [pc |-> "begin", entry |-> "Marker"]
    ELSE /\ facade' = f
         /\ call' = NoCall

EndCall(f, entry, outcome) ==
    IF entry = "Marker"
    THEN /\ facade' = [f EXCEPT !.markerPending = @ \/ outcome \notin KnownCommitted]
         /\ call' = NoCall
    ELSE IF f.markerPending /\ WritesMarker(entry, outcome)
    THEN /\ facade' = [f EXCEPT !.markerPending = FALSE]
         /\ call' = [pc |-> "begin", entry |-> "Marker"]
    ELSE /\ facade' = f
         /\ call' = NoCall

\* A skipped call: nothing was sent, so there is no command to claim for.
EndSkipped(f, entry) == EndCall(record_skip(f, entry), entry, "Skipped")

-----------------------------------------------------------------------------
(* Starting a call.                                                        *)

\* The asynchronous entry points drive a probe that is due; reserve_enqueue
\* and the owner update cannot.
DrivesProbe(entry) == ~Permitted(entry) /\ entry # "OwnerLocation"

\* Mutant: a degraded writer is written to instead of skipped.
Check_sends_degraded(entry) ==
    /\ facade' = ingest_writer_status(facade, health)
    /\ call' = [pc |-> "checked", entry |-> entry]
    /\ unmarked' = (unmarked \/ EndsOutage(facade, health))
    /\ UNCHANGED <<vars, acceptor, claim, committed, drain>>

\* observe_writer_health, then go on, probe or skip.
Check(entry) ==
    /\ LET f == ingest_writer_status(facade, health)
       IN  IF f.status = Healthy
           THEN /\ facade' = f
                /\ call' = [pc |-> "checked", entry |-> entry]
           ELSE IF DrivesProbe(entry) /\ f.probe = "due"
           THEN /\ facade' = f
                /\ call' = [pc |-> "probe", entry |-> entry]
           ELSE EndSkipped(f, entry)
    /\ unmarked' = (unmarked \/ EndsOutage(facade, health))
    /\ UNCHANGED <<vars, acceptor, claim, committed, drain>>

BeginCall(entry) ==
    /\ call.pc = "none"
    /\ client.pc = "idle"
    /\ Check(entry)

BeginMarker ==
    /\ call.pc = "begin"
    /\ Check("Marker")

\* A named command has no claim yet and nothing of it is durable.
Fresh(id) ==
    /\ claim' = [claim EXCEPT ![id] = "None"]
    /\ committed' = committed \ {id}

SubmitWrite ==
    /\ call.pc = "checked"
    /\ ~Permitted(call.entry)
    /\ Submit(KindOf(call.entry), {})
    /\ Fresh(FreeId)
    /\ call' = [call EXCEPT !.pc = "writing"]
    /\ UNCHANGED <<facade, acceptor, unmarked, drain>>

SubmitProbe ==
    /\ call.pc = "probe"
    /\ Submit("Probe", {})
    /\ Fresh(FreeId)
    /\ call' = [call EXCEPT !.pc = "probing"]
    /\ UNCHANGED <<facade, acceptor, unmarked, drain>>

\* reserve_enqueue after its check: a permit, or a refusal when the writer has
\* degraded since, is gone or has no free slot.
ReservePermit ==
    /\ call.pc = "checked"
    /\ Permitted(call.entry)
    /\ IF health = Healthy /\ (ThreadDead \/ HasRoom)
       THEN ReserveEnqueue ELSE UNCHANGED vars
    /\ IF client'.pc = "permit"
       THEN /\ call' = [call EXCEPT !.pc = "permit"]
            /\ UNCHANGED facade
       ELSE EndSkipped(ingest_writer_status(facade, health'), call.entry)
    /\ UNCHANGED <<acceptor, claim, committed, unmarked, drain>>

\* The health is read once more: the permit is used, or dropped if degraded.
UsePermit ==
    /\ call.pc = "permit"
    /\ LET f == ingest_writer_status(facade, health)
       IN  IF health = Healthy
           THEN /\ EnqueueWithPermit({})
                /\ Fresh(FreeId)
                /\ facade' = f
                /\ call' = [call EXCEPT !.pc = "writing"]
           ELSE /\ DropPermit
                /\ EndSkipped(f, call.entry)
                /\ UNCHANGED <<claim, committed>>
    /\ UNCHANGED <<acceptor, unmarked, drain>>

-----------------------------------------------------------------------------
(* Ending a call.                                                          *)

\* What the client's await returns: a failure, or Healthy for success.
ReturnedFailure == IF client.pc = "sending" THEN SendFailure ELSE WaitFailure

\* A finalization that may be committed is read back before it is used.
NeedsReadback(entry, outcome) ==
    entry = "Finalize" /\ outcome \in {"CommittedButDegraded", "DurabilityUnknown"}

\* classify_result.  A Durable finalization returns its page and is published.
FinishWrite ==
    /\ call.pc = "writing"
    /\ Resolve \/ SendClosed
    /\ LET outcome == outcome_of(ReturnedFailure)
           f == IF ReturnedFailure = Healthy THEN facade
                ELSE record_facade_failure(facade, ReturnedFailure,
                                           call.entry = "OwnerLocation")
       IN  /\ claim' = [claim EXCEPT ![client.cmd.id] = outcome]
           /\ IF NeedsReadback(call.entry, outcome)
              THEN /\ facade' = f
                   /\ call' = [call EXCEPT !.pc = "readback"]
              ELSE EndCall(f, call.entry, outcome)
           /\ drain' = IF call.entry = "Finalize" /\ outcome = "Durable"
                       THEN [drain EXCEPT !.published = TRUE] ELSE drain
    /\ UNCHANGED <<acceptor, committed, unmarked>>

SubmitReadback ==
    /\ call.pc = "readback"
    /\ Submit("DrainFinalization", {})
    /\ Fresh(FreeId)
    /\ call' = [call EXCEPT !.pc = "reading"]
    /\ UNCHANGED <<facade, acceptor, unmarked, drain>>

\* An exact page publishes the finalization; an error or no page does not.
FinishReadback ==
    /\ call.pc = "reading"
    /\ Resolve \/ SendClosed
    /\ drain' = IF ReturnedFailure = Healthy /\ drain.page
                THEN [drain EXCEPT !.published = TRUE] ELSE drain
    /\ EndCall(facade, call.entry, "Skipped")
    /\ UNCHANGED <<acceptor, claim, committed, unmarked>>

\* drive_probe_if_due ends: observe the health and cool down after a failure.
\* The call itself is skipped, even when the probe has just recovered.
FinishProbe ==
    /\ call.pc = "probing"
    /\ Resolve \/ SendClosed
    /\ LET seen == ingest_writer_status(facade, health')
           f == IF ReturnedFailure # Healthy /\ seen.status # Healthy
                THEN [seen EXCEPT !.probe = "cooling"] ELSE seen
       IN  EndSkipped(f, call.entry)
    /\ unmarked' = (unmarked \/ EndsOutage(facade, health'))
    /\ UNCHANGED <<acceptor, claim, committed, drain>>

-----------------------------------------------------------------------------
\* The retry interval elapses.
CooldownElapses ==
    /\ facade.probe = "cooling"
    /\ facade' = [facade EXCEPT !.probe = "due"]
    /\ UNCHANGED <<vars, call, acceptor, claim, committed, unmarked, drain>>

\* The request channel of the controller's acceptor closes, once.
mark_acceptor_stopped ==
    /\ call.pc = "none"
    /\ acceptor = "running"
    /\ acceptor' = "stopped"
    /\ facade' = IF facade.status = Healthy
                 THEN [facade EXCEPT !.input = "AcceptorStopped"]
                 ELSE [facade EXCEPT !.stopPending = TRUE]
    /\ UNCHANGED <<vars, call, claim, committed, unmarked, drain>>

\* A thread step commits the transaction of its command.
Commits == thread.pc = "execute" /\ thread'.pc \in {"cleanup", "publish"} /\ thread'.failure = Healthy

WriterStep ==
    /\ ThreadStep
    /\ committed' = IF Commits THEN committed \cup {thread.cmd.id} ELSE committed
    /\ unmarked' = (unmarked /\ ~(Commits /\ call.entry = "Marker"
                                          /\ call.pc = "writing"
                                          /\ thread.cmd.id = client.cmd.id))
    /\ drain' = CASE Commits /\ thread.cmd.kind = "Finalize" -> [drain EXCEPT !.durable = TRUE]
                  [] Commits /\ thread.cmd.kind = "DrainFinalization" ->
                        [drain EXCEPT !.page = drain.durable]
                  [] OTHER -> drain
    /\ UNCHANGED <<facade, call, acceptor, claim>>

SendStep == Send /\ UNCHANGED rvars

CallStep ==
    \/ BeginMarker \/ SubmitWrite \/ SubmitProbe \/ ReservePermit
    \/ UsePermit \/ SendStep \/ FinishWrite \/ SubmitReadback \/ FinishReadback
    \/ FinishProbe

RInit ==
    /\ Init
    /\ facade = [status |-> Healthy, probe |-> "none", stopPending |-> FALSE,
                 markerPending |-> FALSE, input |-> "Available", owner |-> "Current"]
    /\ call = NoCall
    /\ acceptor = "running"
    /\ claim = [i \in Ids |-> "None"]
    /\ committed = {}
    /\ unmarked = FALSE
    /\ drain = [durable |-> FALSE, page |-> FALSE, published |-> FALSE]

RNext ==
    \/ \E entry \in Entry \ {"Marker"} : BeginCall(entry)
    \/ CallStep
    \/ CooldownElapses
    \/ mark_acceptor_stopped
    \/ WriterStep

\* The collector's own steps and the thread are scheduled; the sweep tick is
\* one branch of an unbiased select and is taken again and again; the cooldown
\* is a timer.
RFairness ==
    /\ WF_allvars(CallStep)
    /\ WF_allvars(WriterStep)
    /\ WF_allvars(CooldownElapses)
    /\ SF_allvars(BeginCall("Cleanup"))

RSpec == RInit /\ [][RNext]_allvars /\ RFairness

-----------------------------------------------------------------------------
(* Properties.                                                             *)

RTypeOK ==
    /\ TypeOK
    /\ facade \in Facade
    /\ call \in [pc : {"none", "begin", "checked", "probe", "probing", "permit",
                       "writing", "readback", "reading"}, entry : Entry]
    /\ acceptor \in {"running", "stopped"}
    /\ claim \in [Ids -> Outcomes \cup {"None"}]
    /\ committed \in SUBSET Ids
    /\ unmarked \in BOOLEAN
    /\ drain \in [durable : BOOLEAN, page : BOOLEAN, published : BOOLEAN]

\* What the facade tells its callers about a write stays true: a write called
\* Durable or CommittedButDegraded is in the database, one called NotCommitted
\* is not and never gets there later, although the waiter may return on a
\* published failure before the thread has answered (RuntimeWriteOutcome).
OutcomesTruthful ==
    \A i \in Ids :
        /\ claim[i] \in KnownCommitted => i \in committed
        /\ claim[i] = "NotCommitted" => i \notin committed

\* The responder's view of Controller input is right through any number of outages: input is
\* available exactly while the facade is healthy and the acceptor runs, and since the acceptor
\* never restarts, a recovered facade says AcceptorStopped whichever came first.
InputReflectsOwner ==
    /\ facade.input = "Available" <=> (facade.status = Healthy /\ acceptor = "running")
    /\ acceptor = "stopped" /\ facade.status = Healthy => facade.input = "AcceptorStopped"

\* Terminal history state is installed only for a finalization that is in the
\* database, also when its acknowledgement was lost and it was read back.
PublishedDrainIsDurable == drain.published => drain.durable

\* What the process says of its persistence is so, through outages, lost acknowledgements and
\* recoveries in any order: the outcomes of its writes (OutcomesTruthful), the state of Controller
\* input (InputReflectsOwner) and the history it publishes (PublishedDrainIsDurable).
ReportsTruthful == OutcomesTruthful /\ InputReflectsOwner /\ PublishedDrainIsDurable

\* Degraded persistence recovers once the store stops failing: the sweep keeps
\* driving probes.  A dead writer thread never recovers.
DegradedRecovers == facade.status # Healthy ~> (facade.status = Healthy \/ ThreadDead)

\* No outage goes without a trace: the gap marker of a finished one stays pending or is being
\* written, whatever fails, is skipped or begins again meanwhile, and is written in the end.
MarkerOwed == facade.markerPending \/ (call.entry = "Marker" /\ call.pc # "none")
OutageLeavesTrace == [](unmarked => MarkerOwed /\ <>(~unmarked \/ ThreadDead))
=============================================================================
