------------------------- MODULE HistoryDrainProofs -------------------------
(***************************************************************************)
(* What finalizing a history drain attests, for every number of logs,      *)
(* providers, runs and disturbances, and every capacity.                   *)
(***************************************************************************)
EXTENDS HistoryDrain, SequenceTheorems, TLAPS

-----------------------------------------------------------------------------
(* Sequences, and the values the constants give.                           *)

LEMMA AppendRange ==
    ASSUME NEW S, NEW s \in Seq(S), NEW x \in S
    PROVE  /\ Append(s, x) \in Seq(S) /\ Append(s, x) # <<>>
           /\ Len(Append(s, x)) = Len(s) + 1
           /\ Append(s, x)[Len(s) + 1] = x
           /\ \A k \in 1 .. Len(s) : Append(s, x)[k] = s[k]
           /\ Range(Append(s, x)) = Range(s) \cup {x}
BY AppendProperties DEF Range

LEMMA TailRange ==
    ASSUME NEW S, NEW s \in Seq(S), s # <<>>
    PROVE  /\ Head(s) \in S /\ Tail(s) \in Seq(S)
           /\ Len(s) \in Nat \ {0} /\ Len(Tail(s)) = Len(s) - 1
           /\ Head(s) = s[1] /\ \A k \in 1 .. Len(Tail(s)) : Tail(s)[k] = s[k + 1]
           /\ Range(s) = {Head(s)} \cup Range(Tail(s))
<1>1. /\ Head(s) \in S /\ Tail(s) \in Seq(S)
      /\ Len(s) \in Nat \ {0} /\ Len(Tail(s)) = Len(s) - 1
      /\ Head(s) = s[1] /\ \A k \in 1 .. Len(Tail(s)) : Tail(s)[k] = s[k + 1]
  BY HeadTailProperties
<1>2. \A k \in 1 .. Len(s) : k = 1 \/ (k - 1 \in 1 .. Len(Tail(s)) /\ Tail(s)[k - 1] = s[k])
  BY <1>1
<1>3. \A k \in 1 .. Len(Tail(s)) : k + 1 \in 1 .. Len(s)
  BY <1>1
<1>4. \A x : (\E k \in 1 .. Len(s) : x = s[k])
                <=> x = Head(s) \/ \E k \in 1 .. Len(Tail(s)) : x = Tail(s)[k]
  BY <1>1, <1>2, <1>3
<1>5. DOMAIN s = 1 .. Len(s) /\ DOMAIN Tail(s) = 1 .. Len(Tail(s))
  BY <1>1
<1>6. Range(s) = {Head(s)} \cup Range(Tail(s))
  BY <1>4, <1>5 DEF Range
<1> QED BY <1>1, <1>6

LEMMA EmptyRange == Range(<<>>) = {}
BY DEF Range

\* None is none of the values the variables hold.
LEMMA NoneApart ==
    /\ \A e \in RecordIds : e # None
    /\ \A d \in Frozen : d # None
    /\ \A b \in Batches : b # None
    /\ \A g, n \in Nat : [gen |-> g, off |-> n] # None
BY NoneIsNothing

LEMMA Bounds == MaxLen \in Nat \ {0} /\ Chunk \in Nat \ {0}
BY DrainConstants

LEMMA Constants ==
    /\ Len(Work) \in Nat \ {0}
    /\ \A k \in 1 .. Len(Work) : Work[k] \in Artifacts
    /\ \A a \in Artifacts : /\ \E k \in 1 .. Len(Work) : Work[k] = a
                           /\ ProviderOf[a] \in ProviderSet
                           /\ a \in LogsOf(ProviderOf[a])
                           /\ \A i \in 1 .. MaxLen : RunOf[a][i] \in Runs
<1>1. Len(Work) \in Nat \ {0} /\ \A k \in 1 .. Len(Work) : Work[k] \in Artifacts
  BY DrainConstants
<1>2. \A a \in Artifacts : \E k \in 1 .. Len(Work) : Work[k] = a
  BY DrainConstants DEF Artifacts, Range
<1>3. \A a \in Artifacts : ProviderOf[a] \in ProviderSet /\ a \in LogsOf(ProviderOf[a])
  BY DrainConstants DEF LogsOf
<1>4. \A a \in Artifacts : \A i \in 1 .. MaxLen : RunOf[a][i] \in Runs
  BY DrainConstants
<1> QED BY <1>1, <1>2, <1>3, <1>4

\* A manifest names its provider.
LEMMA FrozenFacts ==
    ASSUME NEW p \in ProviderSet, NEW d \in FrozenBy(p), LogsOf(p) # {}
    PROVE  /\ d \in Frozen /\ DOMAIN d = LogsOf(p) /\ ProviderOfDrain(d) = p
           /\ \A a \in LogsOf(p) : /\ a \in Artifacts /\ ProviderOf[a] = p
                                  /\ d[a].gen \in Nat /\ d[a].goal \in Nat
<1>1. d \in Frozen
  BY DEF Frozen
<1>2. DOMAIN d = LogsOf(p) /\ \A a \in LogsOf(p) : d[a] \in [gen : Nat, goal : Nat]
  BY DEF FrozenBy
<1>3. \A a \in LogsOf(p) : a \in Artifacts /\ ProviderOf[a] = p
  BY DEF LogsOf
<1>4. (CHOOSE a \in DOMAIN d : TRUE) \in LogsOf(p)
  BY <1>2
<1>5. ProviderOfDrain(d) = p
  BY <1>3, <1>4 DEF ProviderOfDrain
<1> QED BY <1>1, <1>2, <1>3, <1>5

LEMMA FrozenOf ==
    ASSUME NEW d \in Frozen
    PROVE  /\ ProviderOfDrain(d) \in ProviderSet /\ d \in FrozenBy(ProviderOfDrain(d))
           /\ DOMAIN d = LogsOf(ProviderOfDrain(d)) /\ DOMAIN d # {}
           /\ \A a \in DOMAIN d : /\ a \in Artifacts /\ ProviderOf[a] = ProviderOfDrain(d)
                                 /\ d[a].gen \in Nat /\ d[a].goal \in Nat
<1>1. PICK p \in ProviderSet : LogsOf(p) # {} /\ d \in FrozenBy(p)
  BY DEF Frozen
<1> QED BY <1>1, FrozenFacts

-----------------------------------------------------------------------------
(* Types.                                                                  *)

Item == [event : RecordIds, run : Runs, origin : Frozen \cup {None}]
BarrierItem == [event : {None}, run : {None}, origin : Frozen]

WorkerTypes ==
    /\ file \in [Artifacts -> [gen : Nat, len : 0 .. MaxLen]]
    /\ tail \in [Artifacts -> [gen : Nat, off : 0 .. MaxLen] \cup {None}]
    /\ manifest \in [ProviderSet -> Frozen \cup {None}]
    /\ \A p \in ProviderSet : manifest[p] # None => manifest[p] \in FrozenBy(p)
    /\ deferred \in Seq(RecordIds)
    /\ cursor \in 1 .. Len(Work) /\ at \in 1 .. Len(Work) + 1
    /\ pc \in {"idle", "resume", "visit", "read"}
    /\ lane \in Seq(Item) /\ channel \in Seq(Item \cup BarrierItem)
    /\ barrier \in Frozen \cup {None} /\ held \in Frozen \cup {None}
    /\ visit \in [goal : Nat, rotated : BOOLEAN, refrozen : BOOLEAN]

AreDrains(drains) ==
    /\ drains = [d \in DOMAIN drains |-> drains[d]]
    /\ \A d \in DOMAIN drains : d \in Frozen /\ drains[d] \in [created : Nat, final : BOOLEAN]

IsStore(s) ==
    /\ s = [drains |-> s.drains, assoc |-> s.assoc, ledger |-> s.ledger,
            rows |-> s.rows, image |-> s.image]
    /\ AreDrains(s.drains)
    /\ s.ledger \subseteq Entries
    /\ s.rows \in [Runs -> Rows \cup {None}]
    /\ s.image \in [Runs -> Seq(Entries) \cup {None}]

StoreTypes == IsStore(store)

CollectorTypes ==
    /\ retained \in Batches \cup {None} /\ holding \in Frozen \cup {None}
    /\ acked \subseteq Frozen
    /\ mem \in [Runs -> Rows \cup {None}] /\ image \in [Runs -> Seq(Entries) \cup {None}]

SpentTypes ==
    /\ spent \in [appends : Nat, replacements : Nat, faults : Nat, restarts : Nat, overflows : Nat,
                  controller : Nat, passed : SUBSET ((Frozen \cup {None}) \X Artifacts)]

LEMMA ManifestFacts ==
    ASSUME WorkerTypes, NEW a \in Artifacts, manifest[ProviderOf[a]] # None
    PROVE  LET d == manifest[ProviderOf[a]]
           IN  /\ d \in Frozen /\ a \in DOMAIN d /\ DOMAIN d = LogsOf(ProviderOf[a])
               /\ ProviderOfDrain(d) = ProviderOf[a]
               /\ d[a].gen \in Nat /\ d[a].goal \in Nat
<1> DEFINE p == ProviderOf[a]
<1>1. p \in ProviderSet /\ a \in LogsOf(p)
  BY Constants
<1>2. manifest[p] \in FrozenBy(p)
  BY <1>1 DEF WorkerTypes
<1>3. LogsOf(p) # {}
  BY <1>1
<1> QED BY <1>1, <1>2, <1>3, FrozenFacts

-----------------------------------------------------------------------------
(* The invariant.                                                          *)

\* Before the first cycle has looked for logs, nothing of them has been read.
NotYet == \E p \in ProviderSet : manifest[p] = None /\ p \notin completed \cup failed

FirstCycle ==
    NotYet => /\ pc \in {"idle", "resume"} /\ cursor = 1 /\ deferred = <<>> /\ lane = <<>>
              /\ channel = <<>> /\ held = None
              /\ \A a \in Artifacts : tail[a] = None
              /\ \A p \in ProviderSet : manifest[p] = None

\* A manifest belongs to a drain that is neither completed nor failed; what was acknowledged is
\* completed, or about to be.
DrainsAdvance ==
    /\ \A p \in ProviderSet : manifest[p] # None => p \notin completed \cup failed
    /\ \A d \in acked : held = d \/ ProviderOfDrain(d) \in completed

\* An inode is never used again, and a log only grows until it is replaced.
AgedBy(d, f) == d # None => \A a \in DOMAIN d : d[a].gen <= f[a].gen
Aged(d) == AgedBy(d, file)

LogsAge ==
    /\ \A p \in ProviderSet : Aged(manifest[p])
    /\ \A item \in Range(lane) \cup Range(channel) : Aged(item.origin)
    /\ retained # None => Aged(retained.origin)
    /\ \A d \in DOMAIN store.drains : Aged(d)
    /\ \A a \in Artifacts :
        LET d == manifest[ProviderOf[a]]
        IN  /\ tail[a] # None => tail[a].gen <= file[a].gen
            /\ d # None => /\ tail[a] # None => d[a].gen <= tail[a].gen
                           /\ d[a].gen = file[a].gen => d[a].goal <= file[a].len

\* A visit reads to the goalpost, and what it read is of its log.
VisitKept ==
    /\ pc = "visit" => deferred = <<>>
    /\ pc = "read" =>
        /\ at <= Len(Work)
        /\ tail[Work[at]] # None
        /\ \A k \in DOMAIN deferred : deferred[k][1] = Work[at]
        /\ LET d == manifest[ProviderOf[Work[at]]]
           IN  d # None => ~visit.refrozen /\ visit.goal = d[Work[at]].goal

\* Log a was read to its goalpost, or passed over.
ReadThrough(a) ==
    LET d == manifest[ProviderOf[a]]
    IN  d # None /\ file[a].gen = d[a].gen /\ <<d, a>> \notin spent.passed =>
            tail[a] # None /\ tail[a].off >= d[a].goal

\* The logs this cycle, or the one it resumes, has behind it.
Behind == 1 .. (IF pc \in {"idle", "resume"} THEN cursor ELSE at) - 1

BehindKept == \A k \in Behind : ReadThrough(Work[k])

\* A record below the goalpost is on its way as part of the drain.
OriginsKept ==
    \A item \in Range(lane) \cup Range(channel) : item.event # None =>
        LET d == manifest[ProviderOf[item.event[1]]]
        IN  d # None /\ item.event[2] <= d[item.event[1]].goal => item.origin = d

Retained(e) == retained # None /\ retained.event = e

\* What the writer has admitted of a drain that may still be finalized is in the ledger, or
\* retained until it is.
AdmittedKept ==
    \A a \in Artifacts : \A i \in 1 .. MaxLen :
        LET p == ProviderOf[a]
        IN  <<a, i>> \in mirror /\ p \notin completed \cup failed
            /\ (manifest[p] # None => i <= manifest[p][a].goal)
                => <<a, i>> \in Recorded(store) \/ Retained(<<a, i>>)

\* A record below a goalpost is somewhere.
Somewhere(a, i) ==
    \/ tail[a] = None \/ i > tail[a].off
    \/ <<a, i>> \in Range(deferred)
    \/ \E item \in Range(lane) \cup Range(channel) : item.event = <<a, i>>
    \/ Retained(<<a, i>>)
    \/ <<a, i>> \in Recorded(store)

Unlost ==
    spent.overflows = 0 =>
        \A a \in Artifacts :
            LET d == manifest[ProviderOf[a]]
            IN  d # None /\ file[a].gen = d[a].gen => \A i \in 1 .. d[a].goal : Somewhere(a, i)

\* One barrier at a time, for the drain the worker waits for, behind all of its records.
BarrierKept ==
    /\ held # None => /\ pc = "idle" /\ deferred = <<>> /\ manifest[ProviderOfDrain(held)] = held
                      /\ \A a \in DOMAIN held : ReadThrough(a)
    /\ barrier # None => held = barrier /\ held \notin acked
    /\ holding # None => /\ held = holding /\ held \notin acked /\ retained = None
                         /\ barrier = None /\ lane = <<>> /\ channel = <<>>
    /\ \A k \in DOMAIN channel : channel[k].event = None =>
          /\ k = Len(channel) /\ held = channel[k].origin /\ held \notin acked
          /\ barrier = None /\ lane = <<>>

DrainInv ==
    /\ WorkerTypes /\ StoreTypes /\ CollectorTypes /\ SpentTypes
    /\ FirstCycle /\ DrainsAdvance /\ LogsAge /\ VisitKept /\ BehindKept
    /\ OriginsKept /\ AdmittedKept /\ Unlost /\ BarrierKept
    /\ FinalizedCoversManifest /\ BarrierAccounted
-----------------------------------------------------------------------------
(* What the transactions do to the drains and to the ledger.               *)

\* From s to t nothing is lost; drains may be added, of those in D, and none is finalized.
Writes(s, t, D) ==
    /\ s.ledger \subseteq t.ledger
    /\ DOMAIN s.drains \subseteq DOMAIN t.drains /\ DOMAIN t.drains \subseteq DOMAIN s.drains \cup D
    /\ \A d \in DOMAIN s.drains : t.drains[d] = s.drains[d]
    /\ \A d \in DOMAIN t.drains : t.drains[d].final => d \in DOMAIN s.drains

LEMMA DemoteStore ==
    ASSUME NEW s, IsStore(s), NEW historical, NEW newly
    PROVE  LET t == Demote(s, historical, newly)
           IN  IsStore(t) /\ t.drains = s.drains /\ t.ledger = s.ledger /\ t.assoc = s.assoc
<1> DEFINE rows == [r \in Runs |->
        IF /\ s.rows[r] # None
           /\ r \in newly \/ Blocked(s, r)
           /\ historical \/ s.image[r] # None
        THEN [s.rows[r] EXCEPT !.ready = FALSE]
        ELSE s.rows[r]]
<1>1. rows \in [Runs -> Rows \cup {None}]
  <2>1. \A r \in Runs : s.rows[r] # None => [s.rows[r] EXCEPT !.ready = FALSE] \in Rows
    BY DEF IsStore, Rows
  <2> QED BY <2>1 DEF IsStore
<1>2. Demote(s, historical, newly) = [s EXCEPT !.rows = rows]
  BY DEF Demote
<1> HIDE DEF rows
<1>3. [s EXCEPT !.rows = rows]
        = [drains |-> s.drains, assoc |-> s.assoc, ledger |-> s.ledger, rows |-> rows, image |-> s.image]
  BY DEF IsStore
<1> QED BY <1>1, <1>2, <1>3 DEF IsStore

LEMMA UpsertStore ==
    ASSUME NEW s, IsStore(s), NEW d \in Frozen, NEW now \in Nat
    PROVE  LET t == UpsertHistoryDrain(s, d, now)
           IN  /\ IsStore(t) /\ DOMAIN t.drains = DOMAIN s.drains \cup {d}
               /\ \A x \in DOMAIN s.drains : t.drains[x] = s.drains[x]
               /\ d \notin DOMAIN s.drains => ~t.drains[d].final
               /\ t.ledger = s.ledger /\ t.assoc = s.assoc
               /\ t.rows = s.rows /\ t.image = s.image
<1> DEFINE drains == [x \in DOMAIN s.drains \cup {d} |->
              IF x \in DOMAIN s.drains THEN s.drains[x] ELSE [created |-> now, final |-> FALSE]]
<1>1. UpsertHistoryDrain(s, d, now) = [s EXCEPT !.drains = drains]
  BY DEF UpsertHistoryDrain
<1>2. /\ DOMAIN drains = DOMAIN s.drains \cup {d}
      /\ \A x \in DOMAIN s.drains : drains[x] = s.drains[x]
      /\ d \notin DOMAIN s.drains => drains[d] = [created |-> now, final |-> FALSE]
  OBVIOUS
<1>3. drains = [x \in DOMAIN drains |-> drains[x]]
  OBVIOUS
<1> HIDE DEF drains
<1>4. AreDrains(drains)
  <2>1. [created |-> now, final |-> FALSE] \in [created : Nat, final : BOOLEAN]
    OBVIOUS
  <2>2. \A x \in DOMAIN s.drains : x \in Frozen /\ s.drains[x] \in [created : Nat, final : BOOLEAN]
    BY DEF IsStore, AreDrains
  <2>3. \A x \in DOMAIN drains : x \in Frozen /\ drains[x] \in [created : Nat, final : BOOLEAN]
    BY <1>2, <2>1, <2>2, Zenon
  <2> QED BY <1>3, <2>3, Zenon DEF AreDrains
<1>5. [s EXCEPT !.drains = drains]
        = [drains |-> drains, assoc |-> s.assoc, ledger |-> s.ledger, rows |-> s.rows, image |-> s.image]
  BY DEF IsStore
<1> QED BY <1>1, <1>2, <1>4, <1>5 DEF IsStore

\* One provider batch: its event is recorded, and its drain is known.
LEMMA BatchStore ==
    ASSUME NEW s, IsStore(s), NEW b \in Batches, NEW now \in Nat
    PROVE  LET t == ApplyV6Batch(s, b, now)
           IN  /\ IsStore(t) /\ Writes(s, t, {b.origin} \ {None})
               /\ b.event \in Recorded(t)
<1> DEFINE historical == b.origin # None
           drained == IF historical THEN UpsertHistoryDrain(s, b.origin, now) ELSE s
           newly == IF historical /\ <<b.origin, b.run>> \notin s.assoc THEN {b.run} ELSE {}
           row == [seen |-> b.seen, ready |-> ~historical \/ ReadyBefore(s, b.run)]
           shown == IF ~historical THEN None
                    ELSE IF drained.image[b.run] = None THEN b.image ELSE drained.image[b.run]
           ledger == drained.ledger \cup {<<b.event, b.origin>>}
           assoc == IF historical THEN drained.assoc \cup {<<b.origin, b.run>>} ELSE drained.assoc
           written == [drained EXCEPT
                      !.ledger = @ \cup {<<b.event, b.origin>>},
                      !.rows[b.run] = [seen |-> b.seen,
                                       ready |-> ~historical \/ ReadyBefore(s, b.run)],
                      !.image[b.run] = IF ~historical THEN None
                                       ELSE IF @ = None THEN b.image ELSE @,
                      !.assoc = IF historical THEN @ \cup {<<b.origin, b.run>>} ELSE @]
<1>1. /\ b.event \in RecordIds /\ b.run \in Runs /\ b.origin \in Frozen \cup {None}
      /\ b.seen \in Seq(Entries) /\ b.image \in Seq(Entries) \cup {None}
      /\ <<b.event, b.origin>> \in Entries
  BY DEF Batches, Entries
<1>2. /\ IsStore(drained) /\ drained.ledger = s.ledger
      /\ DOMAIN drained.drains = DOMAIN s.drains \cup ({b.origin} \ {None})
      /\ \A d \in DOMAIN s.drains : drained.drains[d] = s.drains[d]
      /\ \A d \in DOMAIN drained.drains : drained.drains[d].final => d \in DOMAIN s.drains
  <2>1. CASE historical
    BY <1>1, <2>1, UpsertStore
  <2>2. CASE ~historical
    BY <2>2
  <2> QED BY <2>1, <2>2
<1>3. row \in Rows /\ shown \in Seq(Entries) \cup {None}
  <2>1. (~historical \/ ReadyBefore(s, b.run)) \in BOOLEAN
    OBVIOUS
  <2>2. row \in Rows
    BY <1>1, <2>1 DEF Rows
  <2>3. drained.image[b.run] \in Seq(Entries) \cup {None}
    BY <1>1, <1>2 DEF IsStore
  <2> QED BY <1>1, <2>2, <2>3
<1>4. written = [drains |-> drained.drains, assoc |-> assoc, ledger |-> ledger,
                 rows |-> [drained.rows EXCEPT ![b.run] = row],
                 image |-> [drained.image EXCEPT ![b.run] = shown]]
  <2> HIDE DEF drained, historical
  <2>1. written = [drained EXCEPT !.ledger = ledger, !.rows[b.run] = row, !.image[b.run] = shown,
                                  !.assoc = assoc]
    BY Zenon
  <2> HIDE DEF row, shown, ledger, assoc, written
  <2>2. drained = [drains |-> drained.drains, assoc |-> drained.assoc, ledger |-> drained.ledger,
                   rows |-> drained.rows, image |-> drained.image]
    BY <1>2 DEF IsStore
  <2> QED BY <2>1, <2>2
<1>5. ApplyV6Batch(s, b, now) = IF b.event \in Recorded(s) THEN s ELSE Demote(written, historical, newly)
  BY Zenon DEF ApplyV6Batch
<1> HIDE DEF drained, written, row, shown, ledger, assoc, newly, historical
<1>6. IsStore(written)
  BY <1>1, <1>2, <1>3, <1>4 DEF IsStore, ledger
<1>7. written.drains = drained.drains /\ written.ledger = s.ledger \cup {<<b.event, b.origin>>}
  BY <1>2, <1>4 DEF ledger
<1>8. CASE b.event \in Recorded(s)
  BY <1>5, <1>8 DEF Writes
<1>9. CASE b.event \notin Recorded(s)
  <2> DEFINE t == Demote(written, historical, newly)
  <2>1. IsStore(t) /\ t.drains = drained.drains /\ t.ledger = s.ledger \cup {<<b.event, b.origin>>}
    BY <1>6, <1>7, DemoteStore
  <2>2. ApplyV6Batch(s, b, now) = t
    BY <1>5, <1>9
  <2> HIDE DEF t
  <2>3. b.event \in Recorded(t)
    BY <2>1 DEF Recorded
  <2>4. Writes(s, t, {b.origin} \ {None})
    BY <1>2, <2>1 DEF Writes
  <2> QED BY <2>1, <2>2, <2>3, <2>4
<1> QED BY <1>8, <1>9

\* The finalization of drain d: it, and unfinalized drains that it covers.
LEMMA FinalizeStore ==
    ASSUME NEW s0, IsStore(s0), NEW d \in Frozen, NEW now \in Nat
    PROVE  LET t == FinalizeHistoryDrain(s0, d, now)
           IN  /\ IsStore(t) /\ t.ledger = s0.ledger
               /\ DOMAIN t.drains = DOMAIN s0.drains \cup {d}
               /\ t.drains[d].final
               /\ \A x \in DOMAIN s0.drains : s0.drains[x].final => t.drains[x].final
               /\ \A x \in DOMAIN s0.drains :
                     t.drains[x].final => x = d \/ s0.drains[x].final \/ Covers(d, x)
<1> DEFINE s == UpsertHistoryDrain(s0, d, now)
           older == Superseded(s, d)
           assoc == s.assoc \cup {<<d, r>> : r \in {x \in Runs : \E o \in older : <<o, x>> \in s.assoc}}
           drains == [x \in DOMAIN s.drains |->
                        IF x \in older \cup {d} THEN [s.drains[x] EXCEPT !.final = TRUE] ELSE s.drains[x]]
           closed == [s EXCEPT !.assoc = assoc,
                            !.drains = [x \in DOMAIN @ |->
                                IF x \in older \cup {d} THEN [@[x] EXCEPT !.final = TRUE] ELSE @[x]]]
           ready(r) == <<d, r>> \in assoc /\ ~Blocked(closed, r)
           rows == [r \in Runs |-> IF s.rows[r] # None /\ ready(r)
                                THEN [s.rows[r] EXCEPT !.ready = TRUE] ELSE s.rows[r]]
           shown == [r \in Runs |-> IF rows[r] # None /\ rows[r].ready THEN None ELSE s.image[r]]
           t == FinalizeHistoryDrain(s0, d, now)
<1>1. /\ IsStore(s) /\ DOMAIN s.drains = DOMAIN s0.drains \cup {d}
      /\ \A x \in DOMAIN s0.drains : s.drains[x] = s0.drains[x]
      /\ s.ledger = s0.ledger
  BY UpsertStore
<1>2. t = IF s.drains[d].final THEN s
          ELSE [closed EXCEPT !.rows = rows,
                              !.image = [r \in Runs |->
                                IF rows[r] # None /\ rows[r].ready THEN None ELSE @[r]]]
  BY Zenon DEF FinalizeHistoryDrain
<1>3. CASE s.drains[d].final
  <2> HIDE DEF s, closed, rows
  <2> QED BY <1>1, <1>2, <1>3
<1>4. CASE ~s.drains[d].final
  <2>1. closed = [s EXCEPT !.assoc = assoc, !.drains = drains]
    OBVIOUS
  <2> HIDE DEF s, older, assoc
  <2>2. /\ DOMAIN drains = DOMAIN s.drains
        /\ \A x \in DOMAIN drains :
              drains[x] = IF x \in older \cup {d} THEN [s.drains[x] EXCEPT !.final = TRUE] ELSE s.drains[x]
        /\ drains = [x \in DOMAIN drains |-> drains[x]]
    OBVIOUS
  <2> HIDE DEF drains, closed
  <2>3. closed = [drains |-> drains, assoc |-> assoc, ledger |-> s.ledger, rows |-> s.rows,
                  image |-> s.image]
    BY <1>1, <2>1 DEF IsStore
  <2> HIDE DEF ready
  <2>4. rows \in [Runs -> Rows \cup {None}]
    <3>1. \A r \in Runs : s.rows[r] # None => [s.rows[r] EXCEPT !.ready = TRUE] \in Rows
      BY <1>1 DEF IsStore, Rows
    <3> QED BY <1>1, <3>1 DEF IsStore
  <2> HIDE DEF rows
  <2>5. shown \in [Runs -> Seq(Entries) \cup {None}]
    BY <1>1 DEF IsStore
  <2>6. t = [closed EXCEPT !.rows = rows, !.image = shown]
    <3>1. closed.image = s.image
      BY <2>3
    <3> QED BY <1>2, <1>4, <3>1
  <2> HIDE DEF shown, t
  <2>7. t = [drains |-> drains, assoc |-> assoc, ledger |-> s.ledger, rows |-> rows, image |-> shown]
    BY <2>3, <2>6
  <2>8. \A x \in DOMAIN drains :
           /\ x \in Frozen /\ drains[x] \in [created : Nat, final : BOOLEAN]
           /\ drains[x].final <=> s.drains[x].final \/ x \in older \cup {d}
    <3> SUFFICES ASSUME NEW x \in DOMAIN drains
                 PROVE  /\ x \in Frozen /\ drains[x] \in [created : Nat, final : BOOLEAN]
                        /\ drains[x].final <=> s.drains[x].final \/ x \in older \cup {d}
      BY Zenon
    <3>1. x \in Frozen /\ s.drains[x] \in [created : Nat, final : BOOLEAN]
      BY <1>1, <2>2 DEF IsStore, AreDrains
    <3>2. CASE x \in older \cup {d}
      <4>1. drains[x] = [s.drains[x] EXCEPT !.final = TRUE]
        BY <2>2, <3>2, Zenon
      <4> QED BY <3>1, <3>2, <4>1
    <3>3. CASE x \notin older \cup {d}
      <4>1. drains[x] = s.drains[x]
        BY <2>2, <3>3, Zenon
      <4> QED BY <3>1, <3>3, <4>1
    <3> QED BY <3>2, <3>3
  <2>9. AreDrains(drains)
    BY <2>2, <2>8, Zenon DEF AreDrains
  <2>10. IsStore(t)
    BY <1>1, <2>4, <2>5, <2>7, <2>9 DEF IsStore
  <2>11. \A x \in older : Covers(d, x)
    BY Zenon DEF older, Superseded
  <2> QED BY <1>1, <2>2, <2>7, <2>8, <2>10, <2>11 DEF t
<1> QED BY <1>3, <1>4

-----------------------------------------------------------------------------
(* Every step keeps to the types.                                          *)

LEMMA HeadRecord ==
    ASSUME WorkerTypes, deferred # <<>>,
           NEW a, NEW i, a = Head(deferred)[1], i = Head(deferred)[2]
    PROVE  /\ a \in Artifacts /\ i \in 1 .. MaxLen /\ <<a, i>> = Head(deferred)
           /\ [event |-> <<a, i>>, run |-> RunOf[a][i], origin |-> RecordOrigin(a, i)] \in Item
           /\ Tail(deferred) \in Seq(RecordIds)
           /\ Range(deferred) = {<<a, i>>} \cup Range(Tail(deferred))
<1>1. /\ Head(deferred) \in RecordIds /\ Tail(deferred) \in Seq(RecordIds)
      /\ Range(deferred) = {Head(deferred)} \cup Range(Tail(deferred))
  BY TailRange DEF WorkerTypes
<1>2. a \in Artifacts /\ i \in 1 .. MaxLen /\ <<a, i>> = Head(deferred)
  BY <1>1 DEF RecordIds
<1>3. ProviderOf[a] \in ProviderSet /\ RunOf[a][i] \in Runs
  BY <1>2, Constants
<1>4. manifest[ProviderOf[a]] \in Frozen \cup {None}
  BY <1>3 DEF WorkerTypes
<1>5. RecordOrigin(a, i) \in Frozen \cup {None}
  BY <1>4 DEF RecordOrigin
<1> QED BY <1>1, <1>2, <1>3, <1>5 DEF Item

\* A read.
LEMMA RecordsRead ==
    ASSUME NEW a \in Artifacts, NEW from \in 0 .. MaxLen, NEW to \in 0 .. MaxLen, from <= to
    PROVE  /\ Records(a, from, to) \in Seq(RecordIds)
           /\ \A k \in DOMAIN Records(a, from, to) : Records(a, from, to)[k][1] = a
           /\ \A i \in from + 1 .. to : <<a, i>> \in Range(Records(a, from, to))
<1>1. to - from \in Nat /\ \A k \in 1 .. to - from : <<a, from + k>> \in RecordIds
  BY DrainConstants DEF RecordIds
<1>2. Records(a, from, to) \in Seq(RecordIds) /\ DOMAIN Records(a, from, to) = 1 .. to - from
  BY <1>1 DEF Records
<1>3. \A k \in 1 .. to - from : Records(a, from, to)[k] = <<a, from + k>>
  BY DEF Records
<1>4. \A i \in from + 1 .. to : i - from \in 1 .. to - from /\ <<a, i>> = Records(a, from, to)[i - from]
  BY <1>3
<1>5. \A i \in from + 1 .. to : <<a, i>> \in Range(Records(a, from, to))
  BY <1>2, <1>4, Zenon DEF Range
<1>6. \A k \in DOMAIN Records(a, from, to) : Records(a, from, to)[k][1] = a
  BY <1>2, <1>3
<1> QED BY <1>2, <1>5, <1>6

LEMMA PollCases ==
    ASSUME WorkerTypes, VisitKept, Poll, NEW a, a = Work[at]
    PROVE  /\ a \in Artifacts /\ at \in 1 .. Len(Work) /\ tail[a] \in [gen : Nat, off : 0 .. MaxLen]
           /\ \/ /\ tail[a].off >= visit.goal \/ (file[a].gen = tail[a].gen
                                                 /\ ~(tail[a].off < visit.goal /\ tail[a].off < file[a].len))
                 /\ pc' = "visit" /\ at' = at + 1 /\ UNCHANGED <<tail, deferred, visit>>
              \/ \E from, to \in 0 .. MaxLen :
                    /\ from <= to /\ tail[a].off < visit.goal
                    /\ from = IF file[a].gen # tail[a].gen THEN 0 ELSE tail[a].off
                    /\ tail' = [tail EXCEPT ![a] = [gen |-> file[a].gen, off |-> to]]
                    /\ deferred' = Records(a, from, to)
                    /\ visit' = [visit EXCEPT !.rotated = (file[a].gen # tail[a].gen)]
                    /\ UNCHANGED <<pc, at>>
<1> DEFINE replaced == file[a].gen # tail[a].gen
           from == IF replaced THEN 0 ELSE tail[a].off
           to == Smaller(Smaller(file[a].len, visit.goal), from + Chunk)
<1>1. /\ a \in Artifacts /\ at \in 1 .. Len(Work) /\ tail[a] \in [gen : Nat, off : 0 .. MaxLen]
      /\ file[a] \in [gen : Nat, len : 0 .. MaxLen] /\ visit.goal \in Nat
  BY Constants DEF WorkerTypes, VisitKept, Poll
<1>2. /\ from \in 0 .. MaxLen /\ to \in 0 .. MaxLen
      /\ (replaced => from <= to)
      /\ ~replaced => (to <= from <=> ~(tail[a].off < visit.goal /\ tail[a].off < file[a].len))
  <2>1. /\ file[a].len \in 0 .. MaxLen /\ visit.goal \in Nat /\ tail[a].off \in 0 .. MaxLen
    BY <1>1
  <2>2. from \in 0 .. MaxLen /\ (replaced => from = 0) /\ (~replaced => from = tail[a].off)
    BY <2>1, Bounds
  <2> HIDE DEF from
  <2> DEFINE most == Smaller(file[a].len, visit.goal)
  <2>3. most \in 0 .. MaxLen /\ most <= file[a].len /\ most <= visit.goal
        /\ (most = file[a].len \/ most = visit.goal)
    BY <2>1, Bounds DEF Smaller
  <2>4. to = Smaller(most, from + Chunk)
    OBVIOUS
  <2> HIDE DEF most, to, replaced
  <2>5. to \in 0 .. MaxLen /\ (from = 0 => from <= to) /\ (to <= from <=> most <= from)
    BY <2>2, <2>3, <2>4, Bounds DEF Smaller
  <2> QED BY <2>1, <2>2, <2>3, <2>5
<1>3. \/ /\ tail[a].off >= visit.goal \/ (~replaced /\ to <= from)
         /\ pc' = "visit" /\ at' = at + 1 /\ UNCHANGED <<tail, deferred, visit>>
      \/ /\ tail[a].off < visit.goal /\ (replaced \/ to > from)
         /\ tail' = [tail EXCEPT ![a] = [gen |-> file[a].gen, off |-> to]]
         /\ deferred' = Records(a, from, to)
         /\ visit' = [visit EXCEPT !.rotated = replaced]
         /\ UNCHANGED <<pc, at>>
  BY Zenon DEF Poll
<1>4. CASE /\ tail[a].off >= visit.goal \/ (~replaced /\ to <= from)
           /\ pc' = "visit" /\ at' = at + 1 /\ UNCHANGED <<tail, deferred, visit>>
  <2> HIDE DEF from, to
  <2> QED BY <1>1, <1>2, <1>4
<1>5. CASE /\ tail[a].off < visit.goal /\ (replaced \/ to > from)
           /\ tail' = [tail EXCEPT ![a] = [gen |-> file[a].gen, off |-> to]]
           /\ deferred' = Records(a, from, to)
           /\ visit' = [visit EXCEPT !.rotated = replaced]
           /\ UNCHANGED <<pc, at>>
  <2>1. from = IF file[a].gen # tail[a].gen THEN 0 ELSE tail[a].off
    OBVIOUS
  <2> HIDE DEF from, to
  <2>2. from <= to
    BY <1>2, <1>5
  <2> QED BY <1>1, <1>2, <1>5, <2>1, <2>2
<1> QED BY <1>3, <1>4, <1>5

\* A drain is abandoned.
LEMMA AbandonTypes ==
    ASSUME WorkerTypes, NEW p \in ProviderSet, AbandonHistoryDrain(p)
    PROVE  /\ manifest' \in [ProviderSet -> Frozen \cup {None}] /\ manifest'[p] = None
           /\ \A q \in ProviderSet : q # p => manifest'[q] = manifest[q]
           /\ \A q \in ProviderSet : manifest'[q] # None => manifest'[q] \in FrozenBy(q)
           /\ failed' = failed \cup {p}
BY DEF WorkerTypes, AbandonHistoryDrain

LEMMA FreezeManifests ==
    ASSUME WorkerTypes, Freeze, NEW p \in ProviderSet
    PROVE  /\ manifest'[p] \in Frozen \cup {None}
           /\ manifest'[p] # None => manifest'[p] \in FrozenBy(p)
           /\ manifest[p] # None => manifest'[p] = manifest[p]
           /\ manifest[p] = None /\ manifest'[p] # None =>
                /\ p \notin completed \cup failed
                /\ \A a \in LogsOf(p) : /\ manifest'[p][a].gen = file[a].gen
                                        /\ manifest'[p][a].goal = file[a].len
           /\ manifest'[p] # None \/ p \in completed' \cup failed'
           /\ p \in completed' /\ p \notin completed => LogsOf(p) = {} /\ manifest'[p] = manifest[p]
<1> DEFINE new == [a \in LogsOf(p) |-> [gen |-> file[a].gen, goal |-> file[a].len]]
<1>1. /\ manifest'[p] = IF p \in completed \cup failed \/ manifest[p] # None \/ LogsOf(p) = {}
                        THEN manifest[p] ELSE new
      /\ completed' = completed \cup {q \in ProviderSet \ failed : LogsOf(q) = {}}
      /\ failed' = failed
  BY DEF Freeze
<1>2. \A a \in LogsOf(p) : file[a].gen \in Nat /\ file[a].len \in Nat
  BY Bounds DEF LogsOf, WorkerTypes
<1>3. new \in FrozenBy(p)
  BY <1>2 DEF FrozenBy
<1>4. LogsOf(p) # {} => new \in Frozen /\ new # None
  BY <1>3, NoneApart DEF Frozen
<1>5. \A a \in LogsOf(p) : new[a].gen = file[a].gen /\ new[a].goal = file[a].len
  OBVIOUS
<1> HIDE DEF new
<1>6. manifest[p] \in Frozen \cup {None} /\ (manifest[p] # None => manifest[p] \in FrozenBy(p))
  BY DEF WorkerTypes
<1> QED BY <1>1, <1>3, <1>4, <1>5, <1>6

\* The barrier that ends a cycle is that of a manifest, if there is one.
LEMMA FinishBarrier ==
    ASSUME EnqueueHistoryBarrier
    PROVE  \/ UNCHANGED <<barrier, held>>
           \/ \E p \in ProviderSet : manifest[p] # None /\ barrier' = manifest[p] /\ held' = manifest[p]
<1>1. \A k \in Active : Providers[k] \in ProviderSet /\ manifest[Providers[k]] # None
  BY DEF Active, ProviderSet, Range
<1> QED BY <1>1 DEF EnqueueHistoryBarrier

LEMMA WorkerTypesKept ==
    ASSUME WorkerTypes, VisitKept, Worker PROVE WorkerTypes'
<1> USE DEF WorkerTypes
<1>1. CASE Flush
  <2>1. UNCHANGED <<file, tail, manifest, deferred, cursor, at, pc, held, visit>>
    BY <1>1, Zenon DEF Flush
  <2>2. lane' \in Seq(Item) /\ channel' \in Seq(Item \cup BarrierItem) /\ barrier' \in Frozen \cup {None}
    <3>1. CASE lane # <<>> /\ channel' = Append(channel, Head(lane)) /\ lane' = Tail(lane)
               /\ UNCHANGED barrier
      <4>1. Head(lane) \in Item /\ Tail(lane) \in Seq(Item)
        BY <3>1, TailRange
      <4>2. Head(lane) \in Item \cup BarrierItem
        BY <4>1
      <4>3. Append(channel, Head(lane)) \in Seq(Item \cup BarrierItem)
        BY <4>2, AppendRange
      <4> QED BY <3>1, <4>1, <4>3
    <3>2. CASE /\ barrier # None /\ barrier' = None /\ UNCHANGED lane
               /\ channel' = Append(channel, [event |-> None, run |-> None, origin |-> barrier])
      <4>1. [event |-> None, run |-> None, origin |-> barrier] \in Item \cup BarrierItem
        BY <3>2 DEF BarrierItem
      <4>2. channel' \in Seq(Item \cup BarrierItem)
        BY <3>2, <4>1, AppendRange
      <4> QED BY <3>2, <4>2
    <3> QED BY <1>1, <3>1, <3>2, Zenon DEF Flush
  <2> QED BY <2>1, <2>2
<1>2. CASE StartCycle
  <2>1. /\ UNCHANGED <<file, tail, deferred, cursor, at, lane, channel, barrier, visit>>
        /\ pc' = "resume"
        /\ \/ UNCHANGED <<manifest, held>>
           \/ held # None /\ held' = None /\ manifest' = [manifest EXCEPT ![ProviderOfDrain(held)] = None]
    BY <1>2, Zenon DEF StartCycle
  <2> QED BY <2>1
<1>3. CASE DrainRecord
  <2> DEFINE a == Head(deferred)[1]
             i == Head(deferred)[2]
             item == [event |-> <<a, i>>, run |-> RunOf[a][i], origin |-> RecordOrigin(a, i)]
  <2>1. /\ UNCHANGED <<file, tail, held, barrier, at, visit, channel>>
        /\ deferred # <<>>
        /\ \/ AbandonHistoryDrain(ProviderOf[a]) /\ deferred' = Tail(deferred) /\ UNCHANGED <<lane, cursor, pc>>
           \/ lane' = Append(lane, item) /\ deferred' = Tail(deferred) /\ UNCHANGED <<manifest, cursor, pc>>
           \/ /\ cursor' = IF pc = "read" THEN (at % Len(Work)) + 1 ELSE cursor
              /\ pc' = "idle" /\ UNCHANGED <<manifest, lane, deferred>>
    BY <1>3, Zenon DEF DrainRecord
  <2>2. a \in Artifacts /\ item \in Item /\ Tail(deferred) \in Seq(RecordIds)
    BY <2>1, HeadRecord
  <2>3. ProviderOf[a] \in ProviderSet
    BY <2>2, Constants
  <2>4. (at % Len(Work)) + 1 \in 1 .. Len(Work)
    BY Constants
  <2> HIDE DEF a, item
  <2>5. CASE AbandonHistoryDrain(ProviderOf[a]) /\ deferred' = Tail(deferred) /\ UNCHANGED <<lane, cursor, pc>>
    <3>1. /\ manifest' \in [ProviderSet -> Frozen \cup {None}]
          /\ \A q \in ProviderSet : manifest'[q] # None => manifest'[q] \in FrozenBy(q)
      BY <2>3, <2>5, AbandonTypes
    <3> QED BY <2>1, <2>2, <2>5, <3>1
  <2>6. CASE lane' = Append(lane, item) /\ deferred' = Tail(deferred) /\ UNCHANGED <<manifest, cursor, pc>>
    <3>1. lane' \in Seq(Item)
      BY <2>2, <2>6, AppendRange
    <3> QED BY <2>1, <2>2, <2>6, <3>1
  <2>7. CASE /\ cursor' = IF pc = "read" THEN (at % Len(Work)) + 1 ELSE cursor
             /\ pc' = "idle" /\ UNCHANGED <<manifest, lane, deferred>>
    BY <2>1, <2>4, <2>7
  <2> QED BY <2>1, <2>5, <2>6, <2>7
<1>4. CASE Freeze
  <2>1. /\ UNCHANGED <<file, tail, held, deferred, cursor, lane, barrier, visit, channel>>
        /\ pc' = "visit" /\ at' = cursor
        /\ manifest' = [p \in ProviderSet |-> manifest'[p]]
    BY <1>4 DEF Freeze
  <2>2. \A p \in ProviderSet : /\ manifest'[p] \in Frozen \cup {None}
                               /\ manifest'[p] # None => manifest'[p] \in FrozenBy(p)
    BY <1>4, FreezeManifests
  <2> QED BY <2>1, <2>2, Constants
<1>5. CASE Visit
  <2> DEFINE a == Work[at]
             m == manifest[ProviderOf[a]]
  <2>1. /\ UNCHANGED <<file, manifest, held, deferred, cursor, lane, barrier, at, channel>>
        /\ at <= Len(Work) /\ pc' = "read"
        /\ tail' = [tail EXCEPT ![a] =
                IF @ = None \/ @.gen # file[a].gen THEN [gen |-> file[a].gen, off |-> 0] ELSE @]
        /\ visit' = [goal |-> IF m # None /\ a \in DOMAIN m THEN m[a].goal ELSE file[a].len,
                     rotated |-> FALSE, refrozen |-> FALSE]
    BY <1>5, Zenon DEF Visit
  <2>2. a \in Artifacts /\ file[a] \in [gen : Nat, len : 0 .. MaxLen]
    BY <2>1, Constants
  <2>3. tail' \in [Artifacts -> [gen : Nat, off : 0 .. MaxLen] \cup {None}]
    <3> DEFINE new == IF tail[a] = None \/ tail[a].gen # file[a].gen
                      THEN [gen |-> file[a].gen, off |-> 0] ELSE tail[a]
    <3>1. tail' = [tail EXCEPT ![a] = new]
      BY <2>1, Zenon
    <3>2. new \in [gen : Nat, off : 0 .. MaxLen] \cup {None}
      BY <2>2, Bounds
    <3> QED BY <2>2, <3>1, <3>2
  <2>4. (IF m # None /\ a \in DOMAIN m THEN m[a].goal ELSE file[a].len) \in Nat
    <3>1. m # None => m[a].goal \in Nat
      BY <2>2, ManifestFacts
    <3>2. file[a].len \in Nat
      BY <2>2, Bounds
    <3> HIDE DEF m
    <3> QED BY <3>1, <3>2
  <2> HIDE DEF a, m
  <2> QED BY <2>1, <2>3, <2>4
<1>6. CASE Poll
  <2> DEFINE a == Work[at]
  <2>1. UNCHANGED <<file, manifest, held, cursor, lane, barrier, channel>>
    BY <1>6, Zenon DEF Poll
  <2>2. a \in Artifacts /\ at \in 1 .. Len(Work) /\ file[a] \in [gen : Nat, len : 0 .. MaxLen]
    BY <1>6, PollCases
  <2>3. CASE pc' = "visit" /\ at' = at + 1 /\ UNCHANGED <<tail, deferred, visit>>
    BY <2>1, <2>2, <2>3
  <2>4. CASE \E from, to \in 0 .. MaxLen :
                    /\ from <= to
                    /\ tail' = [tail EXCEPT ![a] = [gen |-> file[a].gen, off |-> to]]
                    /\ deferred' = Records(a, from, to)
                    /\ visit' = [visit EXCEPT !.rotated = (file[a].gen # tail[a].gen)]
                    /\ UNCHANGED <<pc, at>>
    <3>1. PICK from \in 0 .. MaxLen, to \in 0 .. MaxLen :
                    /\ from <= to
                    /\ tail' = [tail EXCEPT ![a] = [gen |-> file[a].gen, off |-> to]]
                    /\ deferred' = Records(a, from, to)
                    /\ visit' = [visit EXCEPT !.rotated = (file[a].gen # tail[a].gen)]
                    /\ UNCHANGED <<pc, at>>
      BY <2>4, Zenon
    <3>2. deferred' \in Seq(RecordIds)
      BY <2>2, <3>1, RecordsRead
    <3>3. tail' \in [Artifacts -> [gen : Nat, off : 0 .. MaxLen] \cup {None}]
      BY <2>2, <3>1
    <3>4. (file[a].gen # tail[a].gen) \in BOOLEAN
      OBVIOUS
    <3>5. visit' \in [goal : Nat, rotated : BOOLEAN, refrozen : BOOLEAN]
      BY <3>1, <3>4
    <3> QED BY <2>1, <3>1, <3>2, <3>3, <3>5
  <2> QED BY <1>6, <2>3, <2>4, PollCases
<1>7. CASE Rotated
  <2> DEFINE a == Work[at]
  <2>1. /\ UNCHANGED <<file, tail, held, deferred, cursor, lane, barrier, channel>>
        /\ pc = "read"
        /\ AbandonHistoryDrain(ProviderOf[a]) \/ UNCHANGED manifest
        /\ \/ pc' = "visit" /\ at' = at + 1 /\ UNCHANGED visit
           \/ /\ visit' = [goal |-> file[a].len, rotated |-> FALSE, refrozen |-> TRUE]
              /\ UNCHANGED <<pc, at>>
    BY <1>7, Zenon DEF Rotated
  <2>2. a \in Artifacts /\ ProviderOf[a] \in ProviderSet /\ at \in 1 .. Len(Work) /\ file[a].len \in Nat
    BY <2>1, Constants, Bounds DEF VisitKept
  <2>3. /\ manifest' \in [ProviderSet -> Frozen \cup {None}]
        /\ \A q \in ProviderSet : manifest'[q] # None => manifest'[q] \in FrozenBy(q)
    BY <2>1, <2>2, AbandonTypes
  <2>4. /\ at' \in 1 .. Len(Work) + 1 /\ visit' \in [goal : Nat, rotated : BOOLEAN, refrozen : BOOLEAN]
        /\ pc' \in {"visit", "read"}
    <3>1. CASE pc' = "visit" /\ at' = at + 1 /\ UNCHANGED visit
      BY <2>2, <3>1
    <3>2. CASE /\ visit' = [goal |-> file[a].len, rotated |-> FALSE, refrozen |-> TRUE]
               /\ UNCHANGED <<pc, at>>
      BY <2>1, <2>2, <3>2
    <3> QED BY <2>1, <3>1, <3>2
  <2> QED BY <2>1, <2>3, <2>4
<1>8. CASE Finish
  <2>1. /\ UNCHANGED <<file, tail, manifest, deferred, lane, at, visit, channel>>
        /\ cursor' = 1 /\ pc' = "idle"
        /\ barrier' \in {barrier} \cup {manifest[p] : p \in ProviderSet}
        /\ held' \in {held} \cup {manifest[p] : p \in ProviderSet}
    BY <1>8, FinishBarrier DEF Finish
  <2> QED BY <2>1, Constants
<1> QED BY <1>1, <1>2, <1>3, <1>4, <1>5, <1>6, <1>7, <1>8, Zenon DEF Worker

LEMMA ItemKinds ==
    ASSUME NEW item \in Item \cup BarrierItem
    PROVE  /\ item.event = None => item \in BarrierItem /\ item.origin \in Frozen
           /\ item.event # None => item \in Item
BY NoneApart DEF Item, BarrierItem

LEMMA BatchTyped ==
    ASSUME CollectorTypes, NEW item \in Item
    PROVE  /\ BatchOf(item) \in Batches
           /\ BatchOf(item).event = item.event /\ BatchOf(item).origin = item.origin
<1>1. /\ item.event \in RecordIds /\ item.run \in Runs /\ item.origin \in Frozen \cup {None}
      /\ Evidence(item) \in Entries
  BY DEF Item, Evidence, Entries
<1>2. mem[item.run] # None => mem[item.run].seen \in Seq(Entries)
  BY <1>1 DEF CollectorTypes, Rows
<1>3. SeenWith(item) \in Seq(Entries)
  <2>1. <<Evidence(item)>> \in Seq(Entries)
    BY <1>1
  <2>2. CASE mem[item.run] # None
    BY <1>1, <1>2, <2>2, AppendRange DEF SeenWith
  <2> QED BY <2>1, <2>2 DEF SeenWith
<1>4. Captured(item) \in Seq(Entries) \cup {None}
  BY <1>2 DEF Captured
<1> QED BY <1>1, <1>3, <1>4 DEF BatchOf, Batches

\* One write: what is known to be committed is recorded; what was admitted is in the mirror.
LEMMA WriteStep ==
    ASSUME StoreTypes, SpentTypes, NEW b \in Batches, NEW o \in Outcomes, Write(b, o)
    PROVE  /\ StoreTypes'
           /\ Writes(store, store', {b.origin} \ {None})
           /\ o = "durable" => b.event \in Recorded(store')
           /\ mirror \subseteq mirror' /\ mirror' \subseteq mirror \cup {b.event}
<1>1. spent.restarts \in Nat
  BY DEF SpentTypes
<1> DEFINE t == ApplyV6Batch(store, b, spent.restarts)
<1>2. IsStore(t) /\ Writes(store, t, {b.origin} \ {None}) /\ b.event \in Recorded(t)
  BY <1>1, BatchStore DEF StoreTypes
<1> HIDE DEF t
<1>3. /\ o = "durable" => ~Rejected(store, b)
      /\ store' = IF Committed(o) /\ ~Rejected(store, b) THEN t ELSE store
      /\ mirror' = IF o = "skipped" THEN mirror ELSE mirror \cup {b.event}
  BY DEF Write, t
<1>4. o = "durable" => Committed(o)
  BY DEF Committed
<1>5. Writes(store, store, {b.origin} \ {None})
  BY DEF Writes
<1> QED BY <1>2, <1>3, <1>4, <1>5 DEF StoreTypes

\* The finalization of drain d: the barrier is acknowledged with its page, or held.
LEMMA FinalizeHeldStep ==
    ASSUME StoreTypes, CollectorTypes, SpentTypes, NEW d \in Frozen, NEW o \in Outcomes,
           FinalizeHeld(d, o)
    PROVE  /\ StoreTypes' /\ store'.ledger = store.ledger
           /\ DOMAIN store.drains \subseteq DOMAIN store'.drains
           /\ DOMAIN store'.drains \subseteq DOMAIN store.drains \cup {d}
           /\ \A x \in DOMAIN store.drains : store.drains[x].final => store'.drains[x].final
           /\ \A x \in DOMAIN store'.drains : store'.drains[x].final =>
                 \/ x = d
                 \/ x \in DOMAIN store.drains /\ store.drains[x].final
                 \/ Covers(d, x) /\ d \in DOMAIN store'.drains /\ store'.drains[d].final
           /\ \/ acked' = acked \cup {d} /\ holding' = None
              \/ acked' = acked /\ holding' = d
           /\ mem' \in [Runs -> Rows \cup {None}] /\ image' \in [Runs -> Seq(Entries) \cup {None}]
<1> DEFINE s == FinalizeHistoryDrain(store, d, spent.restarts)
<1>1. spent.restarts \in Nat
  BY DEF SpentTypes
<1>2. /\ IsStore(s) /\ s.ledger = store.ledger
      /\ DOMAIN s.drains = DOMAIN store.drains \cup {d}
      /\ s.drains[d].final
      /\ \A x \in DOMAIN store.drains : store.drains[x].final => s.drains[x].final
      /\ \A x \in DOMAIN store.drains :
            s.drains[x].final => x = d \/ store.drains[x].final \/ Covers(d, x)
  BY <1>1, FinalizeStore DEF StoreTypes
<1>3. \/ /\ store' = s /\ ApplyFinalization(d, s)
         /\ acked' = acked \cup {d} /\ holding' = None
      \/ /\ store' \in {s, store} /\ holding' = d
         /\ UNCHANGED <<mem, image, acked>>
  BY DEF FinalizeHeld
<1> HIDE DEF s
<1>4. /\ StoreTypes' /\ store'.ledger = store.ledger
      /\ DOMAIN store.drains \subseteq DOMAIN store'.drains
      /\ DOMAIN store'.drains \subseteq DOMAIN store.drains \cup {d}
      /\ \A x \in DOMAIN store.drains : store.drains[x].final => store'.drains[x].final
      /\ \A x \in DOMAIN store'.drains : store'.drains[x].final =>
                 \/ x = d
                 \/ x \in DOMAIN store.drains /\ store.drains[x].final
                 \/ Covers(d, x) /\ d \in DOMAIN store'.drains /\ store'.drains[d].final
  <2>1. CASE store' = s
    BY <1>2, <2>1 DEF StoreTypes
  <2>2. CASE store' = store
    BY <2>2 DEF StoreTypes
  <2> QED BY <1>3, <2>1, <2>2
<1>5. mem' \in [Runs -> Rows \cup {None}] /\ image' \in [Runs -> Seq(Entries) \cup {None}]
  <2>1. CASE UNCHANGED <<mem, image>>
    BY <2>1 DEF CollectorTypes
  <2>2. CASE ApplyFinalization(d, s) /\ ~UNCHANGED <<mem, image>>
    <3> DEFINE page == {r \in Runs : <<d, r>> \in s.assoc /\ mem[r] # None /\ s.rows[r] # None}
    <3>1. /\ mem' = [r \in Runs |-> IF r \in page
                          THEN [mem[r] EXCEPT !.ready = s.rows[r].ready] ELSE mem[r]]
          /\ image' = [r \in Runs |-> IF r \in page /\ s.rows[r].ready THEN None ELSE image[r]]
      BY <2>2, Zenon DEF ApplyFinalization
    <3>2. \A r \in page : mem[r] \in Rows /\ s.rows[r].ready \in BOOLEAN
      BY <1>2 DEF IsStore, CollectorTypes, Rows
    <3> HIDE DEF page
    <3>3. \A r \in page : [mem[r] EXCEPT !.ready = s.rows[r].ready] \in Rows
      BY <3>2 DEF Rows
    <3>4. mem' \in [Runs -> Rows \cup {None}]
      BY <3>1, <3>3 DEF CollectorTypes
    <3>5. image' \in [Runs -> Seq(Entries) \cup {None}]
      BY <3>1 DEF CollectorTypes
    <3> QED BY <3>4, <3>5
  <2> QED BY <1>3, <2>1, <2>2
<1> QED BY <1>3, <1>4, <1>5

LEMMA FaultySpent ==
    ASSUME SpentTypes, NEW o, Faulty(o) \/ UNCHANGED spent
    PROVE  SpentTypes' /\ spent'.overflows = spent.overflows /\ spent'.passed = spent.passed
BY DEF SpentTypes, Faulty

\* What the collector takes from the channel: a barrier, a repetition, or an event to write.
LEMMA ReceiveCases ==
    ASSUME WorkerTypes, StoreTypes, CollectorTypes, SpentTypes, NEW o \in Outcomes, Receive(o),
           NEW item, item = Head(channel)
    PROVE  /\ retained = None /\ channel # <<>> /\ channel' = Tail(channel)
           /\ UNCHANGED <<file, tail, manifest, completed, failed, held, deferred, cursor, lane,
                          barrier, pc, at, visit>>
           /\ SpentTypes' /\ spent'.overflows = spent.overflows /\ spent'.passed = spent.passed
           /\ channel' \in Seq(Item \cup BarrierItem)
           /\ \/ /\ item.event = None /\ item.origin \in Frozen
                 /\ FinalizeHeld(IF holding = None THEN item.origin ELSE holding, o)
                 /\ UNCHANGED <<retained, mirror>>
              \/ /\ item \in Item /\ item.event \in mirror
                 /\ UNCHANGED <<store, retained, holding, acked, mem, image, mirror>>
              \/ /\ item \in Item /\ item.event \notin mirror
                 /\ BatchOf(item) \in Batches /\ Write(BatchOf(item), o)
                 /\ retained' = IF item.origin = None \/ o = "durable" THEN None ELSE BatchOf(item)
                 /\ mem' \in [Runs -> Rows \cup {None}] /\ image' \in [Runs -> Seq(Entries) \cup {None}]
                 /\ UNCHANGED <<holding, acked>>
<1>1. /\ retained = None /\ channel # <<>> /\ channel' = Tail(channel)
      /\ UNCHANGED <<file, tail, manifest, completed, failed, held, deferred, cursor, lane,
                     barrier, pc, at, visit>>
  BY Zenon DEF Receive, worker
<1>2. item \in Item \cup BarrierItem /\ channel' \in Seq(Item \cup BarrierItem)
  BY <1>1, TailRange DEF WorkerTypes
<1>3. \/ /\ item.event = None
         /\ FinalizeHeld(IF holding = None THEN item.origin ELSE holding, o)
         /\ Faulty(o)
         /\ UNCHANGED <<retained, mirror>>
      \/ /\ item.event # None /\ item.event \in mirror
         /\ UNCHANGED <<store, spent, collector>>
      \/ /\ item.event # None /\ item.event \notin mirror
         /\ IF item.origin = None THEN ApplyLive(item, o) ELSE ApplyHistorical(item, o)
         /\ Faulty(o)
         /\ UNCHANGED <<holding, acked, published>>
  BY Zenon DEF Receive
<1>4. SpentTypes' /\ spent'.overflows = spent.overflows /\ spent'.passed = spent.passed
  BY <1>3, FaultySpent
<1>5. item.event = None => item.origin \in Frozen
  BY <1>2, ItemKinds
<1>6. item.event # None => item \in Item
  BY <1>2, ItemKinds
<1>7. ASSUME item \in Item, IF item.origin = None THEN ApplyLive(item, o) ELSE ApplyHistorical(item, o)
      PROVE  /\ BatchOf(item) \in Batches /\ Write(BatchOf(item), o)
             /\ retained' = IF item.origin = None \/ o = "durable" THEN None ELSE BatchOf(item)
             /\ mem' \in [Runs -> Rows \cup {None}] /\ image' \in [Runs -> Seq(Entries) \cup {None}]
  <2> DEFINE b == BatchOf(item)
  <2>1. b \in Batches
    BY <1>7, BatchTyped
  <2>2. b.seen \in Seq(Entries) /\ b.image \in Seq(Entries) \cup {None} /\ item.run \in Runs
    BY <1>7, <2>1 DEF Batches, Item
  <2>3. \A x \in BOOLEAN : [seen |-> b.seen, ready |-> x] \in Rows
    BY <2>2 DEF Rows
  <2>4. CASE item.origin = None
    <3>1. /\ Write(b, o) /\ UNCHANGED retained
          /\ \/ UNCHANGED <<mem, image>>
             \/ /\ mem' = [mem EXCEPT ![item.run] = [seen |-> b.seen, ready |-> TRUE]]
                /\ image' = [image EXCEPT ![item.run] = None]
      BY <1>7, <2>4, Zenon DEF ApplyLive
    <3>2. mem \in [Runs -> Rows \cup {None}] /\ image \in [Runs -> Seq(Entries) \cup {None}]
      BY Zenon DEF CollectorTypes
    <3> DEFINE row == [seen |-> b.seen, ready |-> TRUE]
    <3>3. row \in Rows
      BY <2>2, <2>3
    <3> HIDE DEF b, row
    <3>4. mem' \in [Runs -> Rows \cup {None}] /\ image' \in [Runs -> Seq(Entries) \cup {None}]
      BY <3>1, <3>2, <3>3 DEF row
    <3> QED BY <1>1, <2>1, <2>4, <3>1, <3>4 DEF b
  <2>5. CASE item.origin # None
    <3>1. /\ Write(b, o) /\ retained' = IF o = "durable" THEN None ELSE b
          /\ mem' = [mem EXCEPT ![item.run] = [seen |-> b.seen, ready |-> FALSE]]
          /\ image' = IF b.image = None THEN image ELSE [image EXCEPT ![item.run] = b.image]
      BY <1>7, <2>5, Zenon DEF ApplyHistorical
    <3>2. PICK x \in BOOLEAN : x = FALSE
      OBVIOUS
    <3> HIDE DEF b
    <3>3. mem' \in [Runs -> Rows \cup {None}]
      BY <2>2, <2>3, <3>1, <3>2 DEF CollectorTypes
    <3>4. image' \in [Runs -> Seq(Entries) \cup {None}]
      BY <2>2, <3>1 DEF CollectorTypes
    <3> QED BY <2>1, <2>5, <3>1, <3>3, <3>4 DEF b
  <2> QED BY <2>4, <2>5
<1>8. UNCHANGED collector => UNCHANGED <<retained, holding, acked, mem, image, mirror>>
  BY DEF collector
<1> QED BY <1>1, <1>2, <1>3, <1>4, <1>5, <1>6, <1>7, <1>8, Zenon

DrainTypes == WorkerTypes /\ StoreTypes /\ CollectorTypes /\ SpentTypes

\* The worker leaves the collector and the store alone; it only notes what it passed over.
LEMMA WorkerSpares ==
    ASSUME WorkerTypes, SpentTypes, Worker
    PROVE  /\ UNCHANGED <<file, retained, holding, acked, mem, image, mirror, store>>
           /\ SpentTypes' /\ spent'.overflows = spent.overflows /\ spent.passed \subseteq spent'.passed
           /\ ~DrainRecord => UNCHANGED spent
<1>1. UNCHANGED <<file, retained, holding, acked, mem, image, mirror, store>>
  BY Zenon DEF Worker, Flush, StartCycle, DrainRecord, Freeze, Visit, Poll, Rotated, Finish, collector
<1>2. CASE ~DrainRecord
  <2>1. UNCHANGED spent
    BY <1>2, Zenon DEF Worker, Flush, StartCycle, Freeze, Visit, Poll, Rotated, Finish
  <2> QED BY <1>1, <2>1 DEF SpentTypes
<1>3. CASE DrainRecord
  <2> DEFINE a == Head(deferred)[1]
             more == IF pc = "read" /\ tail[a].off < visit.goal
                     THEN {<<manifest[ProviderOf[a]], a>>} ELSE {}
  <2>1. deferred # <<>> /\ (UNCHANGED spent
              \/ spent' = [spent EXCEPT !.passed = IF pc = "read" /\ tail[a].off < visit.goal
                              THEN @ \cup {<<manifest[ProviderOf[a]], a>>} ELSE @])
    BY <1>3, Zenon DEF DrainRecord
  <2>2. a \in Artifacts
    BY <2>1, HeadRecord
  <2>3. manifest[ProviderOf[a]] \in Frozen \cup {None}
    BY <2>2, Constants DEF WorkerTypes
  <2>4. more \subseteq (Frozen \cup {None}) \X Artifacts
    BY <2>2, <2>3
  <2>5. UNCHANGED spent \/ spent' = [spent EXCEPT !.passed = spent.passed \cup more]
    <3>1. CASE pc = "read" /\ tail[a].off < visit.goal
      BY <2>1, <3>1, Zenon
    <3>2. CASE ~(pc = "read" /\ tail[a].off < visit.goal)
      <4>1. spent.passed \cup more = spent.passed
        BY <3>2
      <4> QED BY <2>1, <3>2, <4>1
    <3> QED BY <3>1, <3>2
  <2> HIDE DEF more
  <2> QED BY <1>1, <1>3, <2>4, <2>5 DEF SpentTypes
<1> QED BY <1>2, <1>3

LEMMA RetryCases ==
    ASSUME DrainTypes, NEW o \in Outcomes, RetryPending(o) \/ RetryHeld(o)
    PROVE  /\ UNCHANGED <<file, tail, manifest, completed, failed, held, deferred, cursor, lane,
                          barrier, pc, at, visit, channel>>
           /\ SpentTypes' /\ spent'.overflows = spent.overflows /\ spent'.passed = spent.passed
           /\ \/ /\ retained \in Batches /\ Write(retained, o)
                 /\ retained' = IF o = "durable" THEN None ELSE retained
                 /\ UNCHANGED <<holding, acked, mem, image>>
              \/ /\ retained = None /\ holding \in Frozen /\ FinalizeHeld(holding, o)
                 /\ UNCHANGED <<retained, mirror>>
<1>1. Faulty(o) /\ UNCHANGED <<file, tail, manifest, completed, failed, held, deferred, cursor, lane,
                               barrier, pc, at, visit, channel>>
  BY Zenon DEF RetryPending, RetryHeld, worker
<1>2. SpentTypes' /\ spent'.overflows = spent.overflows /\ spent'.passed = spent.passed
  BY <1>1, FaultySpent DEF DrainTypes
<1>3. \/ /\ retained # None /\ Write(retained, o)
         /\ retained' = IF o = "durable" THEN None ELSE retained
         /\ UNCHANGED <<holding, acked, mem, image>>
      \/ /\ retained = None /\ holding # None /\ FinalizeHeld(holding, o)
         /\ UNCHANGED <<retained, mirror>>
  BY Zenon DEF RetryPending, RetryHeld
<1>4. retained \in Batches \cup {None} /\ holding \in Frozen \cup {None}
  BY DEF DrainTypes, CollectorTypes
<1> QED BY <1>1, <1>2, <1>3, <1>4

LEMMA ControllerEventCases ==
    ASSUME DrainTypes, NEW r \in Runs, ControllerEvent(r)
    PROVE  /\ UNCHANGED <<file, tail, manifest, completed, failed, held, deferred, cursor, lane,
                          barrier, pc, at, visit, channel, retained, holding, acked, image>>
           /\ SpentTypes' /\ spent'.overflows = spent.overflows /\ spent'.passed = spent.passed
           /\ mem' \in [Runs -> Rows \cup {None}]
           /\ StoreTypes' /\ Writes(store, store', {})
           /\ \A a \in Artifacts : \A i : <<a, i>> \in mirror' => <<a, i>> \in mirror
<1> DEFINE event == <<Controller, spent.controller>>
           seen == SeenWith([event |-> event, run |-> r, origin |-> None])
           written == [store EXCEPT
                         !.ledger = @ \cup {<<event, None>>},
                         !.rows[r] = [seen |-> seen, ready |-> ~Private(r) \/ ReadyBefore(store, r)],
                         !.image[r] = IF Private(r) THEN @ ELSE None]
<1>1. /\ UNCHANGED <<file, tail, manifest, completed, failed, held, deferred, cursor, lane,
                     barrier, pc, at, visit, channel, retained, holding, acked, image>>
      /\ spent' = [spent EXCEPT !.controller = @ + 1]
      /\ mem' = [mem EXCEPT ![r] = [seen |-> seen, ready |-> ~Private(r)]]
      /\ \/ UNCHANGED <<store, mirror>>
         \/ store' = Demote(written, FALSE, {}) /\ mirror' = mirror \cup {event}
  BY Zenon DEF ControllerEvent, worker
<1>2. SpentTypes' /\ spent'.overflows = spent.overflows /\ spent'.passed = spent.passed
  BY <1>1 DEF DrainTypes, SpentTypes
<1>3. <<event, None>> \in Entries
  BY DEF DrainTypes, SpentTypes, Entries
<1>4. seen \in Seq(Entries)
  <2> DEFINE item == [event |-> event, run |-> r, origin |-> None]
  <2>1. Evidence(item) = <<event, None>> /\ item.run = r
    BY DEF Evidence
  <2>2. seen = IF mem[r] = None THEN <<Evidence(item)>> ELSE Append(mem[r].seen, Evidence(item))
    BY <2>1 DEF SeenWith
  <2>3. mem[r] # None => mem[r].seen \in Seq(Entries)
    BY DEF DrainTypes, CollectorTypes, Rows
  <2> HIDE DEF item, event
  <2>4. CASE mem[r] = None
    BY <1>3, <2>1, <2>2, <2>4
  <2>5. CASE mem[r] # None
    <3>1. seen = Append(mem[r].seen, <<event, None>>)
      BY <2>1, <2>2, <2>5
    <3> HIDE DEF seen
    <3> QED BY <1>3, <2>3, <2>5, <3>1, AppendRange
  <2> QED BY <2>4, <2>5
<1> HIDE DEF seen
<1>5. \A x \in BOOLEAN : [seen |-> seen, ready |-> x] \in Rows
  BY <1>4 DEF Rows
<1>6. (~Private(r)) \in BOOLEAN /\ (~Private(r) \/ ReadyBefore(store, r)) \in BOOLEAN
  OBVIOUS
<1>7. mem' \in [Runs -> Rows \cup {None}]
  <2> DEFINE row == [seen |-> seen, ready |-> ~Private(r)]
  <2>1. row \in Rows
    BY <1>5, <1>6, Zenon
  <2>2. mem' = [mem EXCEPT ![r] = row]
    BY <1>1, Zenon
  <2> HIDE DEF row
  <2> QED BY <2>1, <2>2 DEF DrainTypes, CollectorTypes
<1>8. IsStore(written) /\ Writes(store, written, {})
  <2> DEFINE row == [seen |-> seen, ready |-> ~Private(r) \/ ReadyBefore(store, r)]
             shown == IF Private(r) THEN store.image[r] ELSE None
  <2>1. row \in Rows
    BY <1>5, <1>6, Zenon
  <2>2. shown \in Seq(Entries) \cup {None}
    BY DEF DrainTypes, StoreTypes, IsStore
  <2>3. written = [store EXCEPT !.ledger = store.ledger \cup {<<event, None>>}, !.rows[r] = row,
                                !.image[r] = shown]
    BY Zenon
  <2> HIDE DEF row, shown, written, event
  <2>4. store = [drains |-> store.drains, assoc |-> store.assoc, ledger |-> store.ledger,
                 rows |-> store.rows, image |-> store.image]
    BY DEF DrainTypes, StoreTypes, IsStore
  <2>5. written = [drains |-> store.drains, assoc |-> store.assoc,
                   ledger |-> store.ledger \cup {<<event, None>>},
                   rows |-> [store.rows EXCEPT ![r] = row], image |-> [store.image EXCEPT ![r] = shown]]
    BY <2>3, <2>4
  <2>6. IsStore(written)
    BY <1>3, <2>1, <2>2, <2>5 DEF DrainTypes, StoreTypes, IsStore
  <2> QED BY <2>5, <2>6 DEF Writes
<1> HIDE DEF written
<1>9. /\ IsStore(Demote(written, FALSE, {})) /\ Writes(store, Demote(written, FALSE, {}), {})
  <2> DEFINE t == Demote(written, FALSE, {})
  <2>1. PICK x : x = FALSE
    OBVIOUS
  <2>2. t = Demote(written, x, {})
    BY <2>1, Zenon
  <2> HIDE DEF t
  <2>3. IsStore(t) /\ t.drains = written.drains /\ t.ledger = written.ledger
    BY <1>8, <2>2, DemoteStore
  <2> SUFFICES IsStore(t) /\ Writes(store, t, {})
    BY Zenon DEF t
  <2> QED BY <1>8, <2>3 DEF Writes
<1>10. StoreTypes' /\ Writes(store, store', {})
  <2>1. Writes(store, store, {})
    BY DEF Writes
  <2>2. CASE UNCHANGED <<store, mirror>>
    BY <2>1, <2>2 DEF DrainTypes, StoreTypes
  <2>3. CASE store' = Demote(written, FALSE, {})
    BY <1>9, <2>3, Zenon DEF StoreTypes
  <2> QED BY <1>1, <2>2, <2>3, Zenon
<1>11. \A a \in Artifacts : \A i : <<a, i>> # event
  BY DrainConstants
<1> HIDE DEF event
<1>12. mirror' \subseteq mirror \cup {event}
  BY <1>1, Zenon
<1> QED BY <1>1, <1>2, <1>7, <1>10, <1>11, <1>12

\* The logs change: one grows or is replaced.
LEMMA LogCases ==
    ASSUME DrainTypes, NEW b \in Artifacts, Grow(b) \/ Replace(b)
    PROVE  /\ UNCHANGED <<tail, manifest, completed, failed, held, deferred, cursor, lane,
                          barrier, pc, at, visit, channel, retained, holding, acked, mem, image,
                          mirror, store>>
           /\ SpentTypes' /\ spent'.overflows = spent.overflows /\ spent'.passed = spent.passed
           /\ file' \in [Artifacts -> [gen : Nat, len : 0 .. MaxLen]]
           /\ \A a \in Artifacts : \/ file'[a].gen > file[a].gen
                                   \/ file'[a].gen = file[a].gen /\ file'[a].len >= file[a].len
<1>1. /\ UNCHANGED <<tail, manifest, completed, failed, held, deferred, cursor, lane,
                     barrier, pc, at, visit, channel, retained, holding, acked, mem, image,
                     mirror, store>>
      /\ \/ spent' = [spent EXCEPT !.appends = @ + 1]
         \/ spent' = [spent EXCEPT !.replacements = @ + 1]
  BY Zenon DEF Grow, Replace, worker, collector
<1>2. SpentTypes' /\ spent'.overflows = spent.overflows /\ spent'.passed = spent.passed
  BY <1>1 DEF DrainTypes, SpentTypes
<1>3. file \in [Artifacts -> [gen : Nat, len : 0 .. MaxLen]]
  BY DEF DrainTypes, WorkerTypes
<1>4. /\ file' \in [Artifacts -> [gen : Nat, len : 0 .. MaxLen]]
      /\ \A a \in Artifacts : \/ file'[a].gen > file[a].gen
                              \/ file'[a].gen = file[a].gen /\ file'[a].len >= file[a].len
  <2>1. CASE Grow(b)
    <3>1. file' = [file EXCEPT ![b].len = @ + 1] /\ file[b].len < MaxLen
      BY <2>1 DEF Grow
    <3> QED BY <1>3, <3>1, Bounds
  <2>2. CASE Replace(b)
    <3>1. PICK n \in 0 .. file[b].len : file' = [file EXCEPT ![b] = [gen |-> file[b].gen + 1, len |-> n]]
      BY <2>2, Zenon DEF Replace
    <3>2. [gen |-> file[b].gen + 1, len |-> n] \in [gen : Nat, len : 0 .. MaxLen]
      BY <1>3, <3>1, Bounds
    <3> QED BY <1>3, <3>1, <3>2, Bounds
  <2> QED BY <2>1, <2>2
<1> QED BY <1>1, <1>2, <1>4

LEMMA DropCases ==
    ASSUME DrainTypes, DropOnOverflow
    PROVE  /\ UNCHANGED <<file, tail, manifest, completed, failed, held, deferred, cursor, lane,
                          barrier, pc, at, visit, retained, holding, acked, mem, image, mirror, store>>
           /\ channel # <<>> /\ channel' = Tail(channel) /\ channel' \in Seq(Item \cup BarrierItem)
           /\ SpentTypes' /\ spent'.overflows > 0 /\ spent'.passed = spent.passed
<1>1. /\ UNCHANGED <<file, tail, manifest, completed, failed, held, deferred, cursor, lane,
                     barrier, pc, at, visit, retained, holding, acked, mem, image, mirror, store>>
      /\ channel # <<>> /\ channel' = Tail(channel)
      /\ spent' = [spent EXCEPT !.overflows = @ + 1]
  BY Zenon DEF DropOnOverflow, worker, collector
<1>2. channel' \in Seq(Item \cup BarrierItem)
  BY <1>1, TailRange DEF DrainTypes, WorkerTypes
<1>3. /\ SpentTypes' /\ spent'.overflows = spent.overflows + 1 /\ spent'.passed = spent.passed
      /\ spent.overflows \in Nat
  <2>1. SpentTypes
    BY Zenon DEF DrainTypes
  <2>2. spent' = [spent EXCEPT !.overflows = spent.overflows + 1]
    BY <1>1, Zenon
  <2>3. spent.overflows + 1 \in Nat /\ spent.overflows \in Nat
    BY <2>1 DEF SpentTypes
  <2> DEFINE n == spent.overflows + 1
  <2>4. spent' = [spent EXCEPT !.overflows = n] /\ n \in Nat
    BY <2>2, <2>3
  <2> HIDE DEF n
  <2>5. SpentTypes' /\ spent'.overflows = n /\ spent'.passed = spent.passed
    BY <2>1, <2>4 DEF SpentTypes
  <2> QED BY <2>3, <2>5 DEF n
<1>4. spent'.overflows > 0
  BY <1>3
<1> QED BY <1>1, <1>2, <1>3, <1>4

LEMMA RestartCases ==
    ASSUME DrainTypes, Restart
    PROVE  /\ UNCHANGED <<file, store>>
           /\ \A a \in Artifacts : tail'[a] = None
           /\ \A p \in ProviderSet : manifest'[p] = None
           /\ completed' = {} /\ failed' = {} /\ held' = None /\ deferred' = <<>> /\ cursor' = 1
           /\ lane' = <<>> /\ barrier' = None /\ pc' = "idle" /\ channel' = <<>>
           /\ retained' = None /\ holding' = None /\ acked' = {} /\ mirror' = Recorded(store)
           /\ SpentTypes' /\ spent'.overflows = spent.overflows /\ spent'.passed = spent.passed
           /\ WorkerTypes' /\ CollectorTypes'
<1>1. /\ UNCHANGED <<file, store>> /\ spent' = [spent EXCEPT !.restarts = @ + 1]
      /\ FreshWorker(tail', manifest', completed', failed', held', deferred', cursor', lane',
                     barrier', pc', at', visit')
      /\ channel' = <<>> /\ retained' = None /\ holding' = None /\ acked' = {}
      /\ mem' = store.rows /\ image' = store.image /\ mirror' = Recorded(store)
  BY Zenon DEF Restart
<1>2. /\ tail' = [a \in Artifacts |-> None] /\ manifest' = [x \in ProviderSet |-> None]
      /\ completed' = {} /\ failed' = {} /\ held' = None /\ deferred' = <<>> /\ cursor' = 1
      /\ lane' = <<>> /\ barrier' = None
      /\ pc' = "idle" /\ at' = 1 /\ visit' = [goal |-> 0, rotated |-> FALSE, refrozen |-> FALSE]
  BY <1>1, Zenon DEF FreshWorker
<1>3. SpentTypes' /\ spent'.overflows = spent.overflows /\ spent'.passed = spent.passed
  BY <1>1 DEF DrainTypes, SpentTypes
<1>4. WorkerTypes'
  <2>1. 1 \in 1 .. Len(Work) /\ 1 \in 1 .. Len(Work) + 1
    BY Constants
  <2>2. visit' \in [goal : Nat, rotated : BOOLEAN, refrozen : BOOLEAN]
    BY <1>2
  <2> QED BY <1>1, <1>2, <2>1, <2>2 DEF DrainTypes, WorkerTypes
<1>5. CollectorTypes'
  BY <1>1 DEF DrainTypes, CollectorTypes, StoreTypes, IsStore
<1> QED BY <1>1, <1>2, <1>3, <1>4, <1>5

LEMMA TypesInit == Init => DrainTypes
<1> SUFFICES ASSUME Init PROVE DrainTypes
  OBVIOUS
<1>1. /\ file = [a \in Artifacts |-> [gen |-> 0, len |-> InitLen[a]]]
      /\ FreshWorker(tail, manifest, completed, failed, held, deferred, cursor, lane, barrier, pc,
                     at, visit)
      /\ channel = <<>>
      /\ retained = None /\ holding = None /\ acked = {}
      /\ mem = [r \in Runs |-> None] /\ image = [r \in Runs |-> None]
      /\ store = [drains |-> <<>>, assoc |-> {}, ledger |-> {}, rows |-> [r \in Runs |-> None],
                  image |-> [r \in Runs |-> None]]
      /\ spent = [appends |-> 0, replacements |-> 0, faults |-> 0, restarts |-> 0, overflows |-> 0,
                  controller |-> 0, passed |-> {}]
  BY Zenon DEF Init
<1>2. /\ tail = [a \in Artifacts |-> None] /\ manifest = [x \in ProviderSet |-> None]
      /\ held = None /\ deferred = <<>> /\ cursor = 1
      /\ lane = <<>> /\ barrier = None
      /\ pc = "idle" /\ at = 1 /\ visit = [goal |-> 0, rotated |-> FALSE, refrozen |-> FALSE]
  BY <1>1, Zenon DEF FreshWorker
<1>3. WorkerTypes
  <2>1. 1 \in 1 .. Len(Work) /\ 1 \in 1 .. Len(Work) + 1
    BY Constants
  <2>2. visit \in [goal : Nat, rotated : BOOLEAN, refrozen : BOOLEAN]
    BY <1>2
  <2>3. file \in [Artifacts -> [gen : Nat, len : 0 .. MaxLen]]
    BY <1>1, DrainConstants
  <2> QED BY <1>1, <1>2, <2>1, <2>2, <2>3 DEF WorkerTypes
<1>4. StoreTypes
  <2>1. AreDrains(<<>>)
    BY DEF AreDrains
  <2>2. store.drains = <<>> /\ store.ledger = {}
    BY <1>1
  <2> QED BY <1>1, <2>1, <2>2 DEF StoreTypes, IsStore
<1>5. CollectorTypes /\ SpentTypes
  BY <1>1 DEF CollectorTypes, SpentTypes
<1> QED BY <1>3, <1>4, <1>5 DEF DrainTypes

LEMMA TypesKept ==
    ASSUME DrainTypes, VisitKept, [Next]_vars PROVE DrainTypes'
<1>1. CASE Worker
  <2>1. UNCHANGED <<file, retained, holding, acked, mem, image, mirror, store>> /\ SpentTypes'
    BY <1>1, WorkerSpares DEF DrainTypes
  <2>2. WorkerTypes'
    BY <1>1, WorkerTypesKept DEF DrainTypes
  <2> QED BY <2>1, <2>2 DEF DrainTypes, CollectorTypes, StoreTypes
<1>2. ASSUME NEW o \in Outcomes, Receive(o) PROVE DrainTypes'
  <2> DEFINE item == Head(channel)
             d == IF holding = None THEN item.origin ELSE holding
  <2>1. /\ UNCHANGED <<file, tail, manifest, deferred, cursor, held, lane, barrier, pc, at, visit>>
        /\ channel' \in Seq(Item \cup BarrierItem)
        /\ SpentTypes'
    BY <1>2, ReceiveCases DEF DrainTypes
  <2>2. WorkerTypes'
    BY <2>1 DEF DrainTypes, WorkerTypes
  <2>3. CASE item.event = None /\ item.origin \in Frozen /\ FinalizeHeld(d, o) /\ UNCHANGED retained
    <3>1. d \in Frozen
      BY <2>3 DEF DrainTypes, CollectorTypes
    <3> HIDE DEF d
    <3>2. /\ StoreTypes' /\ mem' \in [Runs -> Rows \cup {None}] /\ image' \in [Runs -> Seq(Entries) \cup {None}]
          /\ (acked' = acked \cup {d} /\ holding' = None) \/ (acked' = acked /\ holding' = d)
      BY <2>3, <3>1, FinalizeHeldStep DEF DrainTypes
    <3> QED BY <2>1, <2>2, <2>3, <3>1, <3>2 DEF DrainTypes, CollectorTypes
  <2>4. CASE UNCHANGED <<store, retained, holding, acked, mem, image>>
    BY <2>1, <2>2, <2>4 DEF DrainTypes, CollectorTypes, StoreTypes
  <2>5. CASE /\ BatchOf(item) \in Batches /\ Write(BatchOf(item), o)
             /\ retained' = IF item.origin = None \/ o = "durable" THEN None ELSE BatchOf(item)
             /\ mem' \in [Runs -> Rows \cup {None}] /\ image' \in [Runs -> Seq(Entries) \cup {None}]
             /\ UNCHANGED <<holding, acked>>
    <3>1. StoreTypes'
      BY <2>5, WriteStep DEF DrainTypes
    <3> QED BY <2>1, <2>2, <2>5, <3>1 DEF DrainTypes, CollectorTypes
  <2> QED BY <1>2, <2>3, <2>4, <2>5, ReceiveCases DEF DrainTypes
<1>3. ASSUME NEW o \in Outcomes, RetryPending(o) \/ RetryHeld(o) PROVE DrainTypes'
  <2>1. /\ UNCHANGED <<file, tail, manifest, deferred, cursor, held, lane, barrier, pc, at, visit, channel>>
        /\ SpentTypes'
    BY <1>3, RetryCases
  <2>2. WorkerTypes'
    BY <2>1 DEF DrainTypes, WorkerTypes
  <2>3. CASE /\ retained \in Batches /\ Write(retained, o)
             /\ retained' = IF o = "durable" THEN None ELSE retained
             /\ UNCHANGED <<holding, acked, mem, image>>
    <3>1. StoreTypes'
      BY <2>3, WriteStep DEF DrainTypes
    <3> QED BY <2>1, <2>2, <2>3, <3>1 DEF DrainTypes, CollectorTypes
  <2>4. CASE holding \in Frozen /\ FinalizeHeld(holding, o) /\ UNCHANGED retained
    <3>1. /\ StoreTypes' /\ mem' \in [Runs -> Rows \cup {None}] /\ image' \in [Runs -> Seq(Entries) \cup {None}]
          /\ (acked' = acked \cup {holding} /\ holding' = None) \/ (acked' = acked /\ holding' = holding)
      BY <2>4, FinalizeHeldStep DEF DrainTypes
    <3> QED BY <2>1, <2>2, <2>4, <3>1 DEF DrainTypes, CollectorTypes
  <2> QED BY <1>3, <2>3, <2>4, RetryCases
<1>4. CASE DropOnOverflow
  BY <1>4, DropCases DEF DrainTypes, WorkerTypes, CollectorTypes, StoreTypes
<1>5. ASSUME NEW r \in Runs, ControllerEvent(r) PROVE DrainTypes'
  BY <1>5, ControllerEventCases DEF DrainTypes, WorkerTypes, CollectorTypes
<1>6. ASSUME NEW b \in Artifacts, Grow(b) \/ Replace(b) PROVE DrainTypes'
  BY <1>6, LogCases DEF DrainTypes, WorkerTypes, CollectorTypes, StoreTypes
<1>7. CASE Restart
  BY <1>7, RestartCases DEF DrainTypes, StoreTypes
<1>8. CASE UNCHANGED vars
  BY <1>8 DEF vars, worker, collector, DrainTypes, WorkerTypes, CollectorTypes, StoreTypes, SpentTypes
<1> QED BY <1>1, <1>2, <1>3, <1>4, <1>5, <1>6, <1>7, <1>8, Zenon DEF Next, Collector

-----------------------------------------------------------------------------
(* What each step of the worker does.                                      *)

InFlight == Range(lane) \cup Range(channel)

LEMMA RangeTyped ==
    ASSUME NEW S, NEW s \in Seq(S)
    PROVE  \A x \in Range(s) : x \in S
<1>1. \A k \in DOMAIN s : s[k] \in S
  OBVIOUS
<1> QED BY <1>1, Zenon DEF Range

LEMMA QueueTypes ==
    ASSUME DrainTypes
    PROVE  /\ lane \in Seq(Item) /\ channel \in Seq(Item \cup BarrierItem)
           /\ barrier \in Frozen \cup {None} /\ held \in Frozen \cup {None}
           /\ \A k \in DOMAIN channel : channel[k] \in Item \cup BarrierItem
           /\ \A item \in InFlight : item \in Item \cup BarrierItem
<1>1. /\ lane \in Seq(Item) /\ channel \in Seq(Item \cup BarrierItem)
      /\ barrier \in Frozen \cup {None} /\ held \in Frozen \cup {None}
  BY Zenon DEF DrainTypes, WorkerTypes
<1>2. /\ \A k \in DOMAIN lane : lane[k] \in Item
      /\ \A k \in DOMAIN channel : channel[k] \in Item \cup BarrierItem
  BY <1>1
<1> QED BY <1>1, <1>2, Zenon DEF InFlight, Range

\* Manifests are given up or kept.
Relinquished == \A p \in ProviderSet : manifest'[p] = None \/ manifest'[p] = manifest[p]

LEMMA FlushCases ==
    ASSUME DrainTypes, Flush
    PROVE  /\ UNCHANGED <<tail, manifest, completed, failed, held, deferred, cursor, pc, at, visit>>
           /\ \/ /\ lane # <<>> /\ UNCHANGED barrier
                 /\ channel' = Append(channel, Head(lane)) /\ Head(lane) \in Item
                 /\ lane' = Tail(lane) /\ InFlight' = InFlight
              \/ \E b : /\ lane = <<>> /\ barrier # None /\ barrier' = None /\ UNCHANGED lane
                        /\ b \in BarrierItem /\ b.event = None /\ b.origin = barrier
                        /\ channel' = Append(channel, b) /\ InFlight' = InFlight \cup {b}
<1>1. UNCHANGED <<tail, manifest, completed, failed, held, deferred, cursor, pc, at, visit>>
  BY Zenon DEF Flush
<1>2. CASE lane # <<>> /\ channel' = Append(channel, Head(lane)) /\ lane' = Tail(lane)
           /\ UNCHANGED barrier
  <2>1. Head(lane) \in Item /\ Range(lane) = {Head(lane)} \cup Range(Tail(lane))
    BY <1>2, QueueTypes, TailRange
  <2>2. Range(Append(channel, Head(lane))) = Range(channel) \cup {Head(lane)}
    BY <2>1, QueueTypes, AppendRange
  <2> QED BY <1>1, <1>2, <2>1, <2>2 DEF InFlight
<1>3. CASE /\ lane = <<>> /\ barrier # None /\ barrier' = None /\ UNCHANGED lane
           /\ channel' = Append(channel, [event |-> None, run |-> None, origin |-> barrier])
  <2> DEFINE b == [event |-> None, run |-> None, origin |-> barrier]
  <2>1. b \in BarrierItem /\ b.event = None /\ b.origin = barrier
    BY <1>3, QueueTypes DEF BarrierItem
  <2>2. channel' = Append(channel, b)
    BY <1>3
  <2> HIDE DEF b
  <2>3. Range(Append(channel, b)) = Range(channel) \cup {b}
    BY <2>1, QueueTypes, AppendRange
  <2> QED BY <1>1, <1>3, <2>1, <2>2, <2>3 DEF InFlight
<1> QED BY <1>1, <1>2, <1>3, Zenon DEF Flush

LEMMA StartCycleCases ==
    ASSUME DrainTypes, StartCycle
    PROVE  /\ UNCHANGED <<tail, failed, deferred, cursor, lane, barrier, at, visit, channel>>
           /\ pc = "idle" /\ lane = <<>> /\ barrier = None /\ (held # None => held \in acked)
           /\ pc' = "resume" /\ held' = None /\ Relinquished
           /\ \/ held = None /\ UNCHANGED <<completed, manifest>>
              \/ /\ held # None /\ ProviderOfDrain(held) \in ProviderSet
                 /\ completed' = completed \cup {ProviderOfDrain(held)}
                 /\ manifest'[ProviderOfDrain(held)] = None
                 /\ \A q \in ProviderSet : q # ProviderOfDrain(held) => manifest'[q] = manifest[q]
<1>1. /\ UNCHANGED <<tail, failed, deferred, cursor, lane, barrier, at, visit, channel>>
      /\ pc = "idle" /\ lane = <<>> /\ barrier = None /\ (held # None => held \in acked)
      /\ pc' = "resume"
      /\ IF held = None
         THEN UNCHANGED <<completed, manifest, held>>
         ELSE /\ completed' = completed \cup {ProviderOfDrain(held)}
              /\ manifest' = [manifest EXCEPT ![ProviderOfDrain(held)] = None]
              /\ held' = None
  BY Zenon DEF StartCycle
<1>2. CASE held = None
  BY <1>1, <1>2 DEF Relinquished
<1>3. CASE held # None
  <2>1. ProviderOfDrain(held) \in ProviderSet
    BY <1>3, FrozenOf DEF DrainTypes, WorkerTypes
  <2>2. \A q \in ProviderSet : manifest'[q] = IF q = ProviderOfDrain(held) THEN None ELSE manifest[q]
    BY <1>1, <1>3 DEF DrainTypes, WorkerTypes
  <2> QED BY <1>1, <1>3, <2>1, <2>2 DEF Relinquished
<1> QED BY <1>2, <1>3

LEMMA LaneRange ==
    ASSUME WorkerTypes, NEW x \in Item
    PROVE  Range(Append(lane, x)) = Range(lane) \cup {x}
<1>1. lane \in Seq(Item)
  BY DEF WorkerTypes
<1> QED BY <1>1, AppendRange

LEMMA DrainRecordCases ==
    ASSUME DrainTypes, DrainRecord, NEW a, NEW i, a = Head(deferred)[1], i = Head(deferred)[2],
           NEW item, item = [event |-> <<a, i>>, run |-> RunOf[a][i], origin |-> RecordOrigin(a, i)]
    PROVE  /\ UNCHANGED <<tail, completed, held, barrier, at, visit, channel>>
           /\ pc \in {"resume", "read"} /\ deferred # <<>>
           /\ a \in Artifacts /\ i \in 1 .. MaxLen /\ <<a, i>> = Head(deferred)
           /\ Range(deferred) = {<<a, i>>} \cup Range(Tail(deferred))
           /\ \/ /\ ProviderOf[a] \in ProviderSet /\ manifest'[ProviderOf[a]] = None
                 /\ \A q \in ProviderSet : q # ProviderOf[a] => manifest'[q] = manifest[q]
                 /\ failed' = failed \cup {ProviderOf[a]}
                 /\ deferred' = Tail(deferred) /\ UNCHANGED <<lane, cursor, pc, spent>>
              \/ /\ item \in Item /\ lane' = Append(lane, item) /\ InFlight' = InFlight \cup {item}
                 /\ deferred' = Tail(deferred) /\ UNCHANGED <<failed, manifest, cursor, pc, spent>>
              \/ /\ cursor' = IF pc = "read" THEN (at % Len(Work)) + 1 ELSE cursor
                 /\ pc' = "idle"
                 /\ pc = "read" /\ tail[a].off < visit.goal =>
                        <<manifest[ProviderOf[a]], a>> \in spent'.passed
                 /\ UNCHANGED <<failed, manifest, lane, deferred>>
<1>1. /\ UNCHANGED <<tail, completed, held, barrier, at, visit, channel>>
      /\ pc \in {"resume", "read"} /\ deferred # <<>>
      /\ \/ AbandonHistoryDrain(ProviderOf[a]) /\ deferred' = Tail(deferred)
            /\ UNCHANGED <<lane, cursor, pc, spent>>
         \/ lane' = Append(lane, item) /\ deferred' = Tail(deferred)
            /\ UNCHANGED <<failed, manifest, cursor, pc, spent>>
         \/ /\ cursor' = IF pc = "read" THEN (at % Len(Work)) + 1 ELSE cursor
            /\ pc' = "idle"
            /\ spent' = [spent EXCEPT !.passed =
                  IF pc = "read" /\ tail[a].off < visit.goal
                  THEN @ \cup {<<manifest[ProviderOf[a]], a>>} ELSE @]
            /\ UNCHANGED <<failed, manifest, lane, deferred>>
  BY Zenon DEF DrainRecord
<1>2. /\ a \in Artifacts /\ i \in 1 .. MaxLen /\ <<a, i>> = Head(deferred) /\ item \in Item
      /\ Range(deferred) = {<<a, i>>} \cup Range(Tail(deferred))
  BY <1>1, HeadRecord DEF DrainTypes
<1>3. ProviderOf[a] \in ProviderSet
  BY <1>2, Constants
<1>4. CASE AbandonHistoryDrain(ProviderOf[a]) /\ deferred' = Tail(deferred)
           /\ UNCHANGED <<lane, cursor, pc, spent>>
  <2>1. /\ manifest'[ProviderOf[a]] = None /\ failed' = failed \cup {ProviderOf[a]}
        /\ \A q \in ProviderSet : q # ProviderOf[a] => manifest'[q] = manifest[q]
    BY <1>3, <1>4, AbandonTypes DEF DrainTypes
  <2> QED BY <1>1, <1>2, <1>3, <1>4, <2>1
<1>5. CASE lane' = Append(lane, item) /\ deferred' = Tail(deferred)
           /\ UNCHANGED <<failed, manifest, cursor, pc, spent>>
  <2>1. Range(Append(lane, item)) = Range(lane) \cup {item}
    <3>1. \A x \in Item : Range(Append(lane, x)) = Range(lane) \cup {x}
      BY LaneRange DEF DrainTypes
    <3> QED BY <1>2, <3>1, Zenon
  <2> QED BY <1>1, <1>2, <1>5, <2>1 DEF InFlight
<1>6. CASE /\ cursor' = IF pc = "read" THEN (at % Len(Work)) + 1 ELSE cursor
           /\ pc' = "idle"
           /\ spent' = [spent EXCEPT !.passed =
                  IF pc = "read" /\ tail[a].off < visit.goal
                  THEN @ \cup {<<manifest[ProviderOf[a]], a>>} ELSE @]
           /\ UNCHANGED <<failed, manifest, lane, deferred>>
  <2>1. pc = "read" /\ tail[a].off < visit.goal =>
            <<manifest[ProviderOf[a]], a>> \in spent'.passed
    BY <1>6 DEF DrainTypes, SpentTypes
  <2> QED BY <1>1, <1>2, <1>6, <2>1
<1> QED BY <1>1, <1>4, <1>5, <1>6

LEMMA VisitCases ==
    ASSUME DrainTypes, Visit, NEW a, a = Work[at]
    PROVE  /\ UNCHANGED <<manifest, completed, failed, held, deferred, cursor, lane, barrier, at, channel>>
           /\ pc = "visit" /\ pc' = "read" /\ at <= Len(Work)
           /\ a \in Artifacts /\ tail'[a] # None
           /\ \A b \in Artifacts : b # a => tail'[b] = tail[b]
           /\ \/ tail'[a] = tail[a] /\ tail[a] # None /\ tail[a].gen = file[a].gen
              \/ /\ tail'[a] = [gen |-> file[a].gen, off |-> 0]
                 /\ tail[a] = None \/ tail[a].gen # file[a].gen
           /\ ~visit'.refrozen
           /\ manifest[ProviderOf[a]] # None => visit'.goal = manifest[ProviderOf[a]][a].goal
<1> DEFINE m == manifest[ProviderOf[a]]
           new == IF tail[a] = None \/ tail[a].gen # file[a].gen
                  THEN [gen |-> file[a].gen, off |-> 0] ELSE tail[a]
           goal == IF m # None /\ a \in DOMAIN m THEN m[a].goal ELSE file[a].len
<1>1. /\ UNCHANGED <<manifest, completed, failed, held, deferred, cursor, lane, barrier, at, channel>>
      /\ pc = "visit" /\ pc' = "read" /\ at <= Len(Work)
      /\ tail' = [tail EXCEPT ![a] = new]
      /\ visit' = [goal |-> goal, rotated |-> FALSE, refrozen |-> FALSE]
  BY Zenon DEF Visit
<1>2. a \in Artifacts
  BY <1>1, Constants DEF DrainTypes, WorkerTypes
<1>3. m # None => goal = m[a].goal
  BY <1>2, ManifestFacts DEF DrainTypes
<1>4. file[a].gen \in Nat
  BY <1>2 DEF DrainTypes, WorkerTypes
<1>5. [gen |-> file[a].gen, off |-> 0] # None
  BY <1>4, NoneApart
<1>6. tail'[a] = new /\ \A b \in Artifacts : b # a => tail'[b] = tail[b]
  <2> HIDE DEF new
  <2> QED BY <1>1, <1>2 DEF DrainTypes, WorkerTypes
<1>7. ~visit'.refrozen /\ visit'.goal = goal
  BY <1>1
<1> HIDE DEF goal, m
<1> QED BY <1>1, <1>2, <1>3, <1>5, <1>6, <1>7 DEF m

LEMMA RotatedCases ==
    ASSUME DrainTypes, VisitKept, Rotated, NEW a, a = Work[at]
    PROVE  /\ UNCHANGED <<tail, completed, held, deferred, cursor, lane, barrier, channel>>
           /\ pc = "read" /\ deferred = <<>> /\ at \in 1 .. Len(Work) /\ a \in Artifacts
           /\ ProviderOf[a] \in ProviderSet /\ manifest'[ProviderOf[a]] = None
           /\ \A q \in ProviderSet : q # ProviderOf[a] => manifest'[q] = manifest[q]
           /\ \/ UNCHANGED <<failed, manifest>>
              \/ failed' = failed \cup {ProviderOf[a]}
           /\ \/ pc' = "visit" /\ at' = at + 1
              \/ pc' = "read" /\ at' = at
<1>1. /\ UNCHANGED <<tail, completed, held, deferred, cursor, lane, barrier, channel>>
      /\ pc = "read" /\ deferred = <<>>
      /\ IF manifest[ProviderOf[a]] # None
         THEN AbandonHistoryDrain(ProviderOf[a])
         ELSE UNCHANGED <<failed, manifest>>
      /\ \/ pc' = "visit" /\ at' = at + 1
         \/ pc' = pc /\ at' = at
  BY Zenon DEF Rotated
<1>2. at \in 1 .. Len(Work) /\ a \in Artifacts /\ ProviderOf[a] \in ProviderSet
  BY <1>1, Constants DEF VisitKept, DrainTypes, WorkerTypes
<1>3. CASE manifest[ProviderOf[a]] # None
  <2>1. /\ manifest'[ProviderOf[a]] = None /\ failed' = failed \cup {ProviderOf[a]}
        /\ \A q \in ProviderSet : q # ProviderOf[a] => manifest'[q] = manifest[q]
    BY <1>1, <1>2, <1>3, AbandonTypes DEF DrainTypes
  <2> QED BY <1>1, <1>2, <2>1
<1>4. CASE manifest[ProviderOf[a]] = None
  BY <1>1, <1>2, <1>4
<1> QED BY <1>3, <1>4

-----------------------------------------------------------------------------
(* What the steps of the others leave to the worker.                       *)

Elsewhere ==
    \/ \E o \in Outcomes : Receive(o) \/ RetryPending(o) \/ RetryHeld(o)
    \/ DropOnOverflow
    \/ \E r \in Runs : ControllerEvent(r)
    \/ \E b \in Artifacts : Grow(b) \/ Replace(b)
    \/ UNCHANGED vars

LEMMA NextCases ==
    ASSUME [Next]_vars PROVE Worker \/ Elsewhere \/ Restart
BY Zenon DEF Next, Collector, Elsewhere

\* A worker that is in its cycle waits for no barrier, and none is on its way.
LEMMA NoBarrierInCycle ==
    ASSUME DrainTypes, BarrierKept, pc # "idle" \/ held = None
    PROVE  /\ held = None /\ barrier = None /\ holding = None
           /\ \A item \in Range(channel) : item.event # None
<1>1. held = None /\ barrier = None /\ holding = None
  BY DEF BarrierKept
<1>2. ASSUME NEW item \in Range(channel), item.event = None PROVE FALSE
  <2>1. PICK k \in DOMAIN channel : item = channel[k]
    BY DEF Range
  <2>2. channel[k] \in Item \cup BarrierItem
    BY DEF DrainTypes, WorkerTypes
  <2>3. held = item.origin /\ item.origin \in Frozen
    BY <1>2, <2>1, <2>2, ItemKinds DEF BarrierKept
  <2> QED BY <1>1, <2>3, NoneApart
<1> QED BY <1>1, <1>2

\* A barrier at the head of the channel is alone in it.
LEMMA BarrierAtHead ==
    ASSUME DrainTypes, BarrierKept, channel # <<>>, Head(channel).event = None
    PROVE  /\ held = Head(channel).origin /\ held \in Frozen /\ held \notin acked
           /\ holding = None /\ barrier = None /\ lane = <<>>
           /\ Tail(channel) = <<>> /\ Range(channel) = {Head(channel)}
<1>1. /\ Head(channel) = channel[1] /\ Len(channel) \in Nat \ {0} /\ 1 \in DOMAIN channel
      /\ Head(channel) \in Item \cup BarrierItem /\ Tail(channel) \in Seq(Item \cup BarrierItem)
      /\ Len(Tail(channel)) = Len(channel) - 1
      /\ Range(channel) = {Head(channel)} \cup Range(Tail(channel))
  BY TailRange DEF DrainTypes, WorkerTypes
<1>2. /\ Len(channel) = 1 /\ held = Head(channel).origin /\ held \notin acked
      /\ barrier = None /\ lane = <<>>
  BY <1>1 DEF BarrierKept
<1>3. held \in Frozen
  BY <1>1, <1>2, ItemKinds
<1>4. holding = None
  BY DEF BarrierKept
<1>5. Tail(channel) = <<>>
  <2>1. Len(Tail(channel)) = 0
    BY <1>1, <1>2
  <2> QED BY <1>1, <2>1, EmptySeq, Zenon
<1> QED BY <1>1, <1>2, <1>3, <1>4, <1>5, EmptyRange

ChannelOrigins == {item.origin : item \in Range(channel)}

Spared ==
    /\ UNCHANGED <<tail, manifest, completed, failed, held, deferred, cursor, lane, barrier,
                   pc, at, visit>>
    /\ spent'.passed = spent.passed /\ spent.overflows <= spent'.overflows
    /\ \A a \in Artifacts : \/ file'[a].gen > file[a].gen
                            \/ file'[a].gen = file[a].gen /\ file'[a].len >= file[a].len
    /\ channel' = channel \/ (channel # <<>> /\ channel' = Tail(channel))
    /\ Range(channel') \subseteq Range(channel)
    /\ acked' \subseteq acked \cup {held}
    /\ Recorded(store) \subseteq Recorded(store')
    /\ \A d \in DOMAIN store'.drains :
          \/ d \in DOMAIN store.drains \/ d = held \/ d \in ChannelOrigins
          \/ retained # None /\ d = retained.origin
    /\ retained' # None => retained' = retained \/ retained'.origin \in ChannelOrigins

LEMMA ElsewhereCases ==
    ASSUME DrainTypes, BarrierKept, Elsewhere PROVE Spared
<1> USE DEF Spared
<1>1. channel # <<>> => Range(Tail(channel)) \subseteq Range(channel) /\ Head(channel) \in Range(channel)
  BY TailRange DEF DrainTypes, WorkerTypes
<1>2. spent.overflows \in Nat
  BY DEF DrainTypes, SpentTypes
<1>3. \A a \in Artifacts : file[a].gen \in Nat /\ file[a].len \in Nat
  BY Bounds DEF DrainTypes, WorkerTypes
<1>4. ASSUME NEW d, d = held, NEW o \in Outcomes, FinalizeHeld(d, o), d \in Frozen
      PROVE  /\ acked' \subseteq acked \cup {held} /\ Recorded(store) \subseteq Recorded(store')
             /\ \A x \in DOMAIN store'.drains : x \in DOMAIN store.drains \/ x = held
  <2>1. /\ store'.ledger = store.ledger
        /\ DOMAIN store'.drains \subseteq DOMAIN store.drains \cup {d}
        /\ acked' = acked \cup {d} \/ acked' = acked
    BY <1>4, FinalizeHeldStep DEF DrainTypes
  <2> QED BY <1>4, <2>1 DEF Recorded
<1>5. ASSUME NEW D, Writes(store, store', D)
      PROVE  /\ Recorded(store) \subseteq Recorded(store')
             /\ \A x \in DOMAIN store'.drains : x \in DOMAIN store.drains \/ x \in D
  BY <1>5 DEF Writes, Recorded
<1>6. ASSUME NEW o \in Outcomes, Receive(o) PROVE Spared
  <2> DEFINE item == Head(channel)
  <2>1. /\ retained = None /\ channel # <<>> /\ channel' = Tail(channel)
        /\ UNCHANGED <<file, tail, manifest, completed, failed, held, deferred, cursor, lane,
                       barrier, pc, at, visit>>
        /\ spent'.overflows = spent.overflows /\ spent'.passed = spent.passed
        /\ \/ /\ item.event = None /\ item.origin \in Frozen
              /\ FinalizeHeld(IF holding = None THEN item.origin ELSE holding, o)
              /\ UNCHANGED <<retained, mirror>>
           \/ /\ item \in Item /\ item.event \in mirror
              /\ UNCHANGED <<store, retained, holding, acked, mem, image, mirror>>
           \/ /\ item \in Item /\ item.event \notin mirror
              /\ BatchOf(item) \in Batches /\ Write(BatchOf(item), o)
              /\ retained' = IF item.origin = None \/ o = "durable" THEN None ELSE BatchOf(item)
              /\ UNCHANGED <<holding, acked>>
    BY <1>6, ReceiveCases DEF DrainTypes
  <2>2. item.origin \in ChannelOrigins
    BY <1>1, <2>1 DEF ChannelOrigins
  <2> HIDE DEF item
  <2>3. CASE /\ item.event = None /\ item.origin \in Frozen
             /\ FinalizeHeld(IF holding = None THEN item.origin ELSE holding, o)
             /\ UNCHANGED <<retained, mirror>>
    <3>1. held = item.origin /\ holding = None
      BY <2>1, <2>3, BarrierAtHead DEF item
    <3>2. FinalizeHeld(held, o)
      BY <2>3, <3>1
    <3> QED BY <1>1, <1>2, <1>3, <1>4, <2>1, <2>3, <3>1, <3>2
  <2>4. CASE UNCHANGED <<store, retained, holding, acked, mem, image, mirror>>
    BY <1>1, <1>2, <1>3, <2>1, <2>4 DEF Recorded
  <2>5. CASE /\ item \in Item
             /\ BatchOf(item) \in Batches /\ Write(BatchOf(item), o)
             /\ retained' = IF item.origin = None \/ o = "durable" THEN None ELSE BatchOf(item)
             /\ UNCHANGED <<holding, acked>>
    <3>1. BatchOf(item).origin = item.origin
      BY <2>5, BatchTyped DEF DrainTypes
    <3>2. Writes(store, store', {item.origin} \ {None})
      BY <2>5, <3>1, WriteStep DEF DrainTypes
    <3> QED BY <1>1, <1>2, <1>3, <1>5, <2>1, <2>2, <2>5, <3>1, <3>2
  <2> QED BY <2>1, <2>3, <2>4, <2>5
<1>7. ASSUME NEW o \in Outcomes, RetryPending(o) \/ RetryHeld(o) PROVE Spared
  <2>1. /\ UNCHANGED <<file, tail, manifest, completed, failed, held, deferred, cursor, lane,
                       barrier, pc, at, visit, channel>>
        /\ spent'.overflows = spent.overflows /\ spent'.passed = spent.passed
        /\ \/ /\ retained \in Batches /\ Write(retained, o)
              /\ retained' = IF o = "durable" THEN None ELSE retained
              /\ UNCHANGED <<holding, acked, mem, image>>
           \/ /\ retained = None /\ holding \in Frozen /\ FinalizeHeld(holding, o)
              /\ UNCHANGED <<retained, mirror>>
    BY <1>7, RetryCases
  <2>2. CASE /\ retained \in Batches /\ Write(retained, o)
             /\ retained' = IF o = "durable" THEN None ELSE retained
             /\ UNCHANGED <<holding, acked, mem, image>>
    <3>1. Writes(store, store', {retained.origin} \ {None}) /\ retained # None
      BY <2>2, WriteStep, NoneApart DEF DrainTypes
    <3> QED BY <1>2, <1>3, <1>5, <2>1, <2>2, <3>1
  <2>3. CASE /\ retained = None /\ holding \in Frozen /\ FinalizeHeld(holding, o)
             /\ UNCHANGED <<retained, mirror>>
    <3>1. held = holding
      BY <2>3, NoneApart DEF BarrierKept
    <3> QED BY <1>2, <1>3, <1>4, <2>1, <2>3, <3>1
  <2> QED BY <2>1, <2>2, <2>3
<1>8. CASE DropOnOverflow
  <2>1. /\ UNCHANGED <<file, tail, manifest, completed, failed, held, deferred, cursor, lane,
                       barrier, pc, at, visit, retained, holding, acked, store>>
        /\ channel # <<>> /\ channel' = Tail(channel)
        /\ spent'.overflows = spent.overflows + 1 /\ spent'.passed = spent.passed
    <3>1. /\ UNCHANGED <<file, tail, manifest, completed, failed, held, deferred, cursor, lane,
                         barrier, pc, at, visit, retained, holding, acked, store>>
          /\ channel # <<>> /\ channel' = Tail(channel) /\ spent'.passed = spent.passed
      BY <1>8, DropCases
    <3>2. spent' = [spent EXCEPT !.overflows = @ + 1]
      BY <1>8, Zenon DEF DropOnOverflow
    <3> QED BY <3>1, <3>2 DEF DrainTypes, SpentTypes
  <2> QED BY <1>1, <1>2, <1>3, <2>1 DEF Recorded
<1>9. ASSUME NEW r \in Runs, ControllerEvent(r) PROVE Spared
  <2>1. /\ UNCHANGED <<file, tail, manifest, completed, failed, held, deferred, cursor, lane,
                       barrier, pc, at, visit, channel, retained, holding, acked, image>>
        /\ spent'.overflows = spent.overflows /\ spent'.passed = spent.passed
        /\ Writes(store, store', {})
    BY <1>9, ControllerEventCases
  <2> QED BY <1>2, <1>3, <1>5, <2>1
<1>10. ASSUME NEW b \in Artifacts, Grow(b) \/ Replace(b) PROVE Spared
  <2>1. /\ UNCHANGED <<tail, manifest, completed, failed, held, deferred, cursor, lane,
                       barrier, pc, at, visit, channel, retained, holding, acked, store>>
        /\ spent'.overflows = spent.overflows /\ spent'.passed = spent.passed
        /\ \A a \in Artifacts : \/ file'[a].gen > file[a].gen
                                \/ file'[a].gen = file[a].gen /\ file'[a].len >= file[a].len
    BY <1>10, LogCases
  <2> QED BY <1>2, <2>1 DEF Recorded
<1>11. CASE UNCHANGED vars
  BY <1>2, <1>3, <1>11 DEF vars, worker, collector, Recorded
<1> HIDE DEF Spared
<1> QED BY <1>6, <1>7, <1>8, <1>9, <1>10, <1>11, Zenon DEF Elsewhere

-----------------------------------------------------------------------------
(* Before the first cycle.                                                 *)

LEMMA FirstCycleKept ==
    ASSUME DrainTypes, FirstCycle, BarrierKept, VisitKept, [Next]_vars PROVE FirstCycle'
<1>1. CASE Flush
  <2>1. /\ UNCHANGED <<tail, manifest, completed, failed, held, deferred, cursor, pc, at, visit>>
        /\ lane # <<>> \/ barrier # None
    BY <1>1, FlushCases
  <2>2. barrier # None => held # None
    BY DEF BarrierKept
  <2> QED BY <2>1, <2>2 DEF FirstCycle, NotYet
<1>2. CASE StartCycle
  <2>1. /\ UNCHANGED <<tail, failed, deferred, cursor, lane, channel>>
        /\ pc' = "resume" /\ held' = None
        /\ \/ held = None /\ UNCHANGED <<completed, manifest>>
           \/ /\ held # None
              /\ completed' = completed \cup {ProviderOfDrain(held)}
              /\ \A q \in ProviderSet : q # ProviderOfDrain(held) => manifest'[q] = manifest[q]
    BY <1>2, StartCycleCases
  <2>2. NotYet' => NotYet /\ held = None
    BY <2>1 DEF NotYet, FirstCycle
  <2> QED BY <2>1, <2>2 DEF FirstCycle
<1>3. CASE DrainRecord
  <2>1. deferred # <<>>
    BY <1>3, DrainRecordCases
  <2>2. \/ UNCHANGED <<completed, failed, manifest>>
        \/ \E q \in ProviderSet : /\ UNCHANGED completed /\ failed' = failed \cup {q}
                                  /\ \A x \in ProviderSet : x # q => manifest'[x] = manifest[x]
    BY <1>3, DrainRecordCases
  <2> QED BY <2>1, <2>2 DEF FirstCycle, NotYet
<1>4. CASE Freeze
  <2>1. \A p \in ProviderSet : manifest'[p] # None \/ p \in completed' \cup failed'
    BY <1>4, FreezeManifests DEF DrainTypes
  <2> QED BY <2>1 DEF FirstCycle, NotYet
<1>5. CASE Visit \/ Poll \/ Rotated \/ Finish
  <2>1. pc \in {"visit", "read"}
    BY <1>5, Zenon DEF Visit, Poll, Rotated, Finish
  <2>2. ~NotYet
    BY <2>1 DEF FirstCycle
  <2>3. CASE UNCHANGED <<manifest, completed, failed>>
    BY <2>2, <2>3 DEF FirstCycle, NotYet
  <2>4. CASE Rotated
    <3> DEFINE q == ProviderOf[Work[at]]
    <3>1. /\ UNCHANGED completed
          /\ \A x \in ProviderSet : x # q => manifest'[x] = manifest[x]
          /\ UNCHANGED <<failed, manifest>> \/ failed' = failed \cup {q}
      BY <2>4, RotatedCases
    <3> HIDE DEF q
    <3> QED BY <2>2, <3>1 DEF FirstCycle, NotYet
  <2> QED BY <1>5, <2>3, <2>4, Zenon DEF Visit, Poll, Finish
<1>6. CASE Elsewhere
  <2>1. /\ UNCHANGED <<tail, manifest, completed, failed, held, deferred, cursor, lane, barrier, pc>>
        /\ channel' = channel \/ channel # <<>>
    BY <1>6, ElsewhereCases DEF Spared
  <2> QED BY <2>1 DEF FirstCycle, NotYet
<1>7. CASE Restart
  BY <1>7, RestartCases DEF FirstCycle
<1> QED BY <1>1, <1>2, <1>3, <1>4, <1>5, <1>6, <1>7, NextCases, Zenon DEF Worker

-----------------------------------------------------------------------------
(* Manifests.                                                              *)

\* What happens to the manifests: they are given up, or frozen in a cycle that starts with none.
LEMMA ManifestsKept ==
    ASSUME DrainTypes, VisitKept, BarrierKept, [Next]_vars
    PROVE  Relinquished \/ Freeze
<1>1. CASE Flush
  BY <1>1, FlushCases DEF Relinquished
<1>2. CASE StartCycle
  BY <1>2, StartCycleCases
<1>3. CASE DrainRecord
  <2>1. UNCHANGED manifest \/ \E q \in ProviderSet :
            manifest'[q] = None /\ \A x \in ProviderSet : x # q => manifest'[x] = manifest[x]
    BY <1>3, DrainRecordCases
  <2> QED BY <2>1 DEF Relinquished
<1>4. CASE Rotated
  <2> DEFINE q == ProviderOf[Work[at]]
  <2>1. manifest'[q] = None /\ \A x \in ProviderSet : x # q => manifest'[x] = manifest[x]
    BY <1>4, RotatedCases
  <2> HIDE DEF q
  <2> QED BY <2>1 DEF Relinquished
<1>5. CASE UNCHANGED manifest
  BY <1>5 DEF Relinquished
<1>6. CASE Elsewhere
  BY <1>6, ElsewhereCases DEF Spared, Relinquished
<1>7. CASE Restart
  BY <1>7, RestartCases DEF Relinquished
<1> QED BY <1>1, <1>2, <1>3, <1>4, <1>5, <1>6, <1>7, NextCases, Zenon DEF Worker, Visit, Poll, Finish

LEMMA DrainsAdvanceKept ==
    ASSUME DrainTypes, DrainsAdvance, VisitKept, BarrierKept, [Next]_vars PROVE DrainsAdvance'
<1>1. CASE Flush
  <2>1. UNCHANGED acked
    BY <1>1, Zenon DEF Flush, collector
  <2> QED BY <1>1, <2>1, FlushCases DEF DrainsAdvance
<1>2. CASE StartCycle
  <2>1. UNCHANGED acked
    BY <1>2, Zenon DEF StartCycle, collector
  <2>2. acked \subseteq Frozen
    BY DEF DrainTypes, CollectorTypes
  <2>3. \A d \in acked : d # None
    BY <2>2, NoneApart
  <2> QED BY <1>2, <2>1, <2>3, StartCycleCases DEF DrainsAdvance
<1>3. CASE DrainRecord
  <2>1. UNCHANGED <<acked, completed, held>>
    BY <1>3, Zenon DEF DrainRecord, collector
  <2>2. \/ UNCHANGED <<failed, manifest>>
        \/ \E q \in ProviderSet : /\ failed' = failed \cup {q} /\ manifest'[q] = None
                                  /\ \A x \in ProviderSet : x # q => manifest'[x] = manifest[x]
    BY <1>3, DrainRecordCases
  <2> QED BY <2>1, <2>2 DEF DrainsAdvance
<1>4. CASE Freeze
  <2>1. /\ UNCHANGED <<acked, held, failed>>
        /\ completed' = completed \cup {p \in ProviderSet \ failed : LogsOf(p) = {}}
    BY <1>4, Zenon DEF Freeze, collector
  <2>2. ASSUME NEW p \in ProviderSet, manifest'[p] # None PROVE p \notin completed' \cup failed'
    <3>1. CASE p \in completed' /\ p \notin completed
      <4>1. LogsOf(p) = {} /\ manifest'[p] = manifest[p]
        BY <1>4, <3>1, FreezeManifests DEF DrainTypes
      <4>2. manifest[p] \in Frozen /\ manifest[p] \in FrozenBy(p)
        BY <2>2, <4>1 DEF DrainTypes, WorkerTypes
      <4>3. DOMAIN manifest[p] # {}
        BY <4>2, FrozenOf
      <4> QED BY <4>1, <4>2, <4>3 DEF FrozenBy
    <3>2. CASE p \notin completed' \/ p \in completed
      <4>1. manifest[p] # None \/ p \notin completed \cup failed
        BY <1>4, <2>2, FreezeManifests DEF DrainTypes
      <4> QED BY <2>1, <3>2, <4>1 DEF DrainsAdvance
    <3> QED BY <3>1, <3>2
  <2> QED BY <2>1, <2>2 DEF DrainsAdvance
<1>5. CASE Visit \/ Poll
  BY <1>5, Zenon DEF Visit, Poll, collector, DrainsAdvance
<1>6. CASE Rotated
  <2> DEFINE q == ProviderOf[Work[at]]
  <2>1. UNCHANGED <<acked, completed, held>>
    BY <1>6, Zenon DEF Rotated, collector
  <2>2. /\ manifest'[q] = None
        /\ \A x \in ProviderSet : x # q => manifest'[x] = manifest[x]
        /\ UNCHANGED <<failed, manifest>> \/ failed' = failed \cup {q}
    BY <1>6, RotatedCases
  <2> HIDE DEF q
  <2> QED BY <2>1, <2>2 DEF DrainsAdvance
<1>7. CASE Finish
  <2>1. UNCHANGED <<acked, completed, failed, manifest>> /\ pc = "visit"
    BY <1>7, Zenon DEF Finish, collector
  <2>2. held = None
    BY <2>1, NoBarrierInCycle
  <2>3. acked \subseteq Frozen
    BY DEF DrainTypes, CollectorTypes
  <2>4. \A d \in acked : ProviderOfDrain(d) \in completed
    BY <2>2, <2>3, NoneApart DEF DrainsAdvance
  <2> QED BY <2>1, <2>4 DEF DrainsAdvance
<1>8. CASE Elsewhere
  <2>1. UNCHANGED <<manifest, completed, failed, held>> /\ acked' \subseteq acked \cup {held}
    BY <1>8, ElsewhereCases DEF Spared
  <2> QED BY <2>1 DEF DrainsAdvance
<1>9. CASE Restart
  BY <1>9, RestartCases DEF DrainsAdvance
<1> QED BY <1>1, <1>2, <1>3, <1>4, <1>5, <1>6, <1>7, <1>8, <1>9, NextCases, Zenon DEF Worker

-----------------------------------------------------------------------------
(* A visit, and the origins of what is on its way.                         *)

LEMMA VisitKeptKept ==
    ASSUME DrainTypes, VisitKept, BarrierKept, [Next]_vars PROVE VisitKept'
<1>1. CASE Flush
  BY <1>1, FlushCases DEF VisitKept
<1>2. CASE StartCycle
  BY <1>2, StartCycleCases DEF VisitKept
<1>3. CASE DrainRecord
  <2>1. /\ UNCHANGED <<tail, at, visit>> /\ pc \in {"resume", "read"} /\ deferred # <<>>
        /\ pc' = "idle" \/ (pc' = pc /\ deferred' = Tail(deferred))
    BY <1>3, DrainRecordCases
  <2>2. Relinquished
    <3>1. ~Freeze
      BY <2>1, Zenon DEF Freeze
    <3> QED BY <1>3, <3>1, ManifestsKept, Zenon DEF Next, Worker
  <2>3. \A k \in DOMAIN Tail(deferred) : k + 1 \in DOMAIN deferred /\ Tail(deferred)[k] = deferred[k + 1]
    BY <2>1, TailRange DEF DrainTypes, WorkerTypes
  <2>4. CASE pc' = "idle"
    BY <2>4 DEF VisitKept
  <2>5. CASE pc' = pc /\ deferred' = Tail(deferred) /\ pc = "read"
    <3>1. /\ at <= Len(Work) /\ tail[Work[at]] # None
          /\ \A k \in DOMAIN deferred : deferred[k][1] = Work[at]
      BY <2>5 DEF VisitKept
    <3>2. ProviderOf[Work[at]] \in ProviderSet
      BY <3>1, Constants DEF DrainTypes, WorkerTypes
    <3>3. LET d == manifest'[ProviderOf[Work[at]]]
          IN  d # None => ~visit.refrozen /\ visit.goal = d[Work[at]].goal
      BY <2>2, <2>5, <3>2 DEF VisitKept, Relinquished
    <3>4. \A k \in DOMAIN deferred' : deferred'[k][1] = Work[at]
      BY <2>3, <2>5, <3>1
    <3> QED BY <2>1, <2>5, <3>1, <3>3, <3>4 DEF VisitKept
  <2>6. CASE pc' = pc /\ pc = "resume"
    BY <2>6 DEF VisitKept
  <2> QED BY <2>1, <2>4, <2>5, <2>6
<1>4. CASE Freeze
  BY <1>4 DEF Freeze, VisitKept
<1>5. CASE Visit
  <2> DEFINE a == Work[at]
  <2>1. /\ UNCHANGED <<manifest, deferred, at>> /\ pc = "visit" /\ pc' = "read" /\ at <= Len(Work)
        /\ tail'[a] # None
        /\ ~visit'.refrozen
        /\ manifest[ProviderOf[a]] # None => visit'.goal = manifest[ProviderOf[a]][a].goal
    BY <1>5, VisitCases
  <2>2. deferred = <<>>
    BY <2>1 DEF VisitKept
  <2> QED BY <2>1, <2>2 DEF VisitKept
<1>6. CASE Poll
  <2> DEFINE a == Work[at]
  <2>1. UNCHANGED manifest /\ pc = "read" /\ deferred = <<>>
    BY <1>6, Zenon DEF Poll
  <2>2. a \in Artifacts /\ at \in 1 .. Len(Work) /\ file[a].gen \in Nat
    BY <1>6, PollCases DEF DrainTypes, WorkerTypes
  <2>3. CASE pc' = "visit" /\ UNCHANGED deferred
    BY <2>1, <2>3 DEF VisitKept
  <2>4. CASE \E from, to \in 0 .. MaxLen :
                    /\ from <= to
                    /\ tail' = [tail EXCEPT ![a] = [gen |-> file[a].gen, off |-> to]]
                    /\ deferred' = Records(a, from, to)
                    /\ visit' = [visit EXCEPT !.rotated = (file[a].gen # tail[a].gen)]
                    /\ UNCHANGED <<pc, at>>
    <3>1. PICK from \in 0 .. MaxLen, to \in 0 .. MaxLen :
                    /\ from <= to
                    /\ tail' = [tail EXCEPT ![a] = [gen |-> file[a].gen, off |-> to]]
                    /\ deferred' = Records(a, from, to)
                    /\ visit' = [visit EXCEPT !.rotated = (file[a].gen # tail[a].gen)]
                    /\ UNCHANGED <<pc, at>>
      BY <2>4, Zenon
    <3>2. \A k \in DOMAIN deferred' : deferred'[k][1] = a
      BY <2>2, <3>1, RecordsRead
    <3>3. tail'[a] # None
      <4>1. tail'[a] = [gen |-> file[a].gen, off |-> to]
        BY <2>2, <3>1 DEF DrainTypes, WorkerTypes
      <4>2. to \in Nat
        BY Bounds
      <4> QED BY <2>2, <4>1, <4>2, NoneApart
    <3>4. visit'.goal = visit.goal /\ visit'.refrozen = visit.refrozen
      BY <3>1 DEF DrainTypes, WorkerTypes
    <3> QED BY <2>1, <2>2, <3>1, <3>2, <3>3, <3>4 DEF VisitKept
  <2> QED BY <1>6, <2>3, <2>4, PollCases DEF DrainTypes
<1>7. CASE Rotated
  <2> DEFINE a == Work[at]
  <2>1. /\ UNCHANGED <<tail, deferred>> /\ pc = "read" /\ deferred = <<>>
        /\ manifest'[ProviderOf[a]] = None
        /\ \/ pc' = "visit" /\ at' = at + 1
           \/ pc' = "read" /\ at' = at
    BY <1>7, RotatedCases
  <2> QED BY <2>1 DEF VisitKept
<1>8. CASE Finish
  BY <1>8, Zenon DEF Finish, VisitKept
<1>9. CASE Elsewhere
  BY <1>9, ElsewhereCases DEF Spared, VisitKept
<1>10. CASE Restart
  BY <1>10, RestartCases DEF VisitKept
<1> QED BY <1>1, <1>2, <1>3, <1>4, <1>5, <1>6, <1>7, <1>8, <1>9, <1>10, NextCases, Zenon DEF Worker

\* What is on its way grows by a record that is merged, and by a barrier.
LEMMA InFlightKept ==
    ASSUME DrainTypes, BarrierKept, VisitKept, [Next]_vars
    PROVE  \A item \in InFlight' :
              \/ item \in InFlight
              \/ item.event = None /\ barrier # None /\ item.origin = barrier
              \/ /\ DrainRecord /\ item.event[1] \in Artifacts /\ item.event[2] \in 1 .. MaxLen
                 /\ item.origin = RecordOrigin(item.event[1], item.event[2])
<1>1. CASE Flush
  BY <1>1, FlushCases
<1>2. CASE DrainRecord
  <2> DEFINE a == Head(deferred)[1]
             i == Head(deferred)[2]
             new == [event |-> <<a, i>>, run |-> RunOf[a][i], origin |-> RecordOrigin(a, i)]
  <2>1. UNCHANGED channel
    BY <1>2, DrainRecordCases
  <2>2. ASSUME NEW x, x = new PROVE UNCHANGED lane \/ InFlight' = InFlight \cup {x}
    BY <1>2, <2>2, DrainRecordCases
  <2>3. a \in Artifacts /\ i \in 1 .. MaxLen
    BY <1>2, DrainRecordCases
  <2>4. /\ new.event[1] \in Artifacts /\ new.event[2] \in 1 .. MaxLen
        /\ new.origin = RecordOrigin(new.event[1], new.event[2])
    <3> HIDE DEF a, i
    <3> QED BY <2>3
  <2> HIDE DEF new
  <2> QED BY <1>2, <2>1, <2>2, <2>4 DEF InFlight
<1>3. CASE StartCycle \/ Freeze \/ Visit \/ Poll \/ Rotated \/ Finish
  <2>1. UNCHANGED <<lane, channel>>
    BY <1>3, Zenon DEF StartCycle, Freeze, Visit, Poll, Rotated, Finish
  <2> QED BY <2>1 DEF InFlight
<1>4. CASE Elsewhere
  BY <1>4, ElsewhereCases DEF Spared, InFlight
<1>5. CASE Restart
  BY <1>5, RestartCases, EmptyRange DEF InFlight
<1> QED BY <1>1, <1>2, <1>3, <1>4, <1>5, NextCases, Zenon DEF Worker

LEMMA OriginsKeptKept ==
    ASSUME DrainTypes, DrainTypes', FirstCycle, VisitKept, BarrierKept, OriginsKept, [Next]_vars
    PROVE  OriginsKept'
<1> SUFFICES ASSUME NEW item \in InFlight', item.event # None,
                    NEW d, d = manifest'[ProviderOf[item.event[1]]], d # None,
                    item.event[2] <= d[item.event[1]].goal
             PROVE  item.origin = d
  BY DEF OriginsKept, InFlight
<1> DEFINE a == item.event[1]
           i == item.event[2]
<1>1. a \in Artifacts /\ i \in 1 .. MaxLen /\ item.event = <<a, i>>
  <2>1. item \in Range(lane') \cup Range(channel')
    BY DEF InFlight
  <2>2. item \in Item \cup BarrierItem
    <3>1. lane' \in Seq(Item) /\ channel' \in Seq(Item \cup BarrierItem)
      BY Zenon DEF DrainTypes, WorkerTypes
    <3> QED BY <2>1, <3>1, RangeTyped, Zenon
  <2>3. item.event \in RecordIds
    BY <2>2, ItemKinds DEF Item
  <2> QED BY <2>3 DEF RecordIds
<1>2. ProviderOf[a] \in ProviderSet
  BY <1>1, Constants
<1>3. CASE Relinquished
  <2>1. d = manifest[ProviderOf[a]]
    BY <1>2, <1>3 DEF Relinquished
  <2>2. CASE item \in InFlight
    BY <2>1, <2>2 DEF OriginsKept, InFlight
  <2>3. CASE item.origin = RecordOrigin(a, i)
    <3>1. a \in DOMAIN d /\ d[a].goal \in Nat
      BY <1>1, <2>1, ManifestFacts DEF DrainTypes
    <3>2. i - 1 < d[a].goal
      BY <1>1, <3>1
    <3> QED BY <2>1, <2>3, <3>1, <3>2 DEF RecordOrigin
  <2> QED BY <2>2, <2>3, InFlightKept
<1>4. CASE Freeze
  <2>1. UNCHANGED <<lane, channel>>
    BY <1>4, Zenon DEF Freeze
  <2>2. item \in InFlight
    BY <2>1 DEF InFlight
  <2>3. lane # <<>> \/ channel # <<>>
    BY <2>2, EmptyRange DEF InFlight
  <2>4. ~NotYet
    BY <2>3 DEF FirstCycle
  <2>5. d = manifest[ProviderOf[a]]
    BY <1>2, <1>4, <2>4, FreezeManifests DEF NotYet, DrainTypes
  <2> QED BY <2>2, <2>5 DEF OriginsKept, InFlight
<1> QED BY <1>3, <1>4, ManifestsKept

-----------------------------------------------------------------------------
(* Inodes and lengths only grow.                                           *)

LEMMA FilesAge ==
    ASSUME DrainTypes, BarrierKept, [Next]_vars
    PROVE  \A a \in Artifacts :
              /\ file[a].gen \in Nat /\ file[a].len \in Nat
              /\ file'[a].gen = file[a].gen => file'[a].len >= file[a].len
              /\ file'[a].gen >= file[a].gen
<1>1. \A a \in Artifacts : file[a].gen \in Nat /\ file[a].len \in Nat
  <2>1. file \in [Artifacts -> [gen : Nat, len : 0 .. MaxLen]]
    BY Zenon DEF DrainTypes, WorkerTypes
  <2> QED BY <2>1, Bounds
<1>2. CASE Worker
  BY <1>1, <1>2, WorkerSpares DEF DrainTypes
<1>3. CASE Elsewhere
  <2>1. \A a \in Artifacts : \/ file'[a].gen > file[a].gen
                             \/ file'[a].gen = file[a].gen /\ file'[a].len >= file[a].len
    BY <1>3, ElsewhereCases DEF Spared
  <2>2. \A a \in Artifacts : file'[a].gen \in Nat
    <3>1. CASE UNCHANGED file
      BY <1>1, <3>1
    <3>2. ASSUME NEW b \in Artifacts, Grow(b) \/ Replace(b) PROVE \A a \in Artifacts : file'[a].gen \in Nat
      BY <3>2, LogCases
    <3> QED BY <1>3, <3>1, <3>2, Zenon
         DEF Elsewhere, Receive, RetryPending, RetryHeld, DropOnOverflow, ControllerEvent, vars
  <2> QED BY <1>1, <2>1, <2>2
<1>4. CASE Restart
  BY <1>1, <1>4, RestartCases
<1> QED BY <1>2, <1>3, <1>4, NextCases

LEMMA LogsAgeKept ==
    ASSUME DrainTypes, DrainTypes', FirstCycle, VisitKept, BarrierKept, LogsAge, [Next]_vars
    PROVE  LogsAge'
<1>1. \A a \in Artifacts :
          /\ file[a].gen \in Nat /\ file[a].len \in Nat
          /\ file'[a].gen = file[a].gen => file'[a].len >= file[a].len
          /\ file'[a].gen >= file[a].gen /\ file'[a].gen \in Nat /\ file'[a].len \in Nat
  <2>1. file' \in [Artifacts -> [gen : Nat, len : 0 .. MaxLen]]
    BY Zenon DEF DrainTypes, WorkerTypes
  <2>2. \A a \in Artifacts : file'[a].gen \in Nat /\ file'[a].len \in Nat
    BY <2>1, Bounds
  <2> QED BY <2>2, FilesAge
<1>2. ASSUME NEW d, d \in Frozen \cup {None}, Aged(d) PROVE AgedBy(d, file')
  <2>1. d # None => \A a \in DOMAIN d : a \in Artifacts /\ d[a].gen \in Nat
    BY <1>2, FrozenOf
  <2> QED BY <1>1, <1>2, <2>1 DEF Aged, AgedBy
<1>3. ASSUME NEW p \in ProviderSet PROVE AgedBy(manifest'[p], file')
  <2>1. CASE manifest'[p] = None
    BY <2>1 DEF Aged, AgedBy
  <2>2. CASE manifest'[p] = manifest[p]
    <3>1. manifest[p] \in Frozen \cup {None} /\ Aged(manifest[p])
      BY DEF LogsAge, DrainTypes, WorkerTypes
    <3> QED BY <1>2, <2>2, <3>1 DEF Aged, AgedBy
  <2>3. CASE Freeze /\ manifest[p] = None /\ manifest'[p] # None
    <3>1. /\ \A a \in LogsOf(p) : manifest'[p][a].gen = file[a].gen
          /\ DOMAIN manifest'[p] = LogsOf(p)
      BY <2>3, FreezeManifests DEF DrainTypes, FrozenBy
    <3>2. LogsOf(p) \subseteq Artifacts
      BY DEF LogsOf
    <3> QED BY <1>1, <3>1, <3>2 DEF Aged, AgedBy
  <2> QED BY <2>1, <2>2, <2>3, ManifestsKept, FreezeManifests DEF Relinquished, DrainTypes
<1>4. held # None => Aged(held) /\ held \in Frozen
  <2>1. ASSUME held # None PROVE Aged(held) /\ held \in Frozen
    <3>1. held \in Frozen /\ manifest[ProviderOfDrain(held)] = held
      BY <2>1 DEF BarrierKept, DrainTypes, WorkerTypes
    <3> QED BY <3>1, FrozenOf DEF LogsAge
  <2> QED BY <2>1
<1>5. ASSUME NEW item \in InFlight PROVE item.origin \in Frozen \cup {None} /\ Aged(item.origin)
  <2>1. item \in Item \cup BarrierItem
    BY QueueTypes, Zenon
  <2> QED BY <2>1 DEF LogsAge, InFlight, Item, BarrierItem
<1>6. ASSUME NEW item \in InFlight' PROVE AgedBy(item.origin, file')
  <2>1. CASE item \in InFlight
    BY <1>2, <1>5, <2>1
  <2>2. CASE barrier # None /\ item.origin = barrier
    BY <1>2, <1>4, <2>2 DEF BarrierKept
  <2>3. CASE item.event[1] \in Artifacts /\ item.origin = RecordOrigin(item.event[1], item.event[2])
    <3> DEFINE p == ProviderOf[item.event[1]]
    <3>1. p \in ProviderSet
      BY <2>3, Constants
    <3>2. item.origin = None \/ item.origin = manifest[p]
      BY <2>3 DEF RecordOrigin
    <3> HIDE DEF p
    <3>3. manifest[p] \in Frozen \cup {None} /\ Aged(manifest[p])
      BY <3>1 DEF LogsAge, DrainTypes, WorkerTypes
    <3> QED BY <1>2, <3>2, <3>3 DEF Aged, AgedBy
  <2> QED BY <2>1, <2>2, <2>3, InFlightKept
<1>7. retained # None => retained.origin \in Frozen \cup {None} /\ Aged(retained.origin)
  BY DEF LogsAge, DrainTypes, CollectorTypes, Batches
<1>8. retained' # None => AgedBy(retained'.origin, file')
  <2>1. retained' # None => retained' = retained \/ retained'.origin \in ChannelOrigins
    <3>1. CASE Worker
      BY <3>1, WorkerSpares DEF DrainTypes
    <3>2. CASE Elsewhere
      BY <3>2, ElsewhereCases DEF Spared
    <3>3. CASE Restart
      BY <3>3, RestartCases
    <3> QED BY <3>1, <3>2, <3>3, NextCases
  <2>2. \A o \in ChannelOrigins : o \in Frozen \cup {None} /\ Aged(o)
    BY <1>5 DEF ChannelOrigins, InFlight
  <2> QED BY <1>2, <1>7, <2>1, <2>2
<1>9. \A d \in DOMAIN store'.drains : AgedBy(d, file')
  <2>1. \A d \in DOMAIN store'.drains :
            \/ d \in DOMAIN store.drains \/ d = held \/ d \in ChannelOrigins
            \/ retained # None /\ d = retained.origin
    <3>1. CASE Worker
      BY <3>1, WorkerSpares DEF DrainTypes
    <3>2. CASE Elsewhere
      BY <3>2, ElsewhereCases DEF Spared
    <3>3. CASE Restart
      BY <3>3, RestartCases
    <3> QED BY <3>1, <3>2, <3>3, NextCases
  <2>2. \A o \in ChannelOrigins : o \in Frozen \cup {None} /\ Aged(o)
    BY <1>5 DEF ChannelOrigins, InFlight
  <2>3. \A d \in DOMAIN store.drains : d \in Frozen /\ Aged(d)
    BY DEF LogsAge, DrainTypes, StoreTypes, IsStore, AreDrains
  <2>4. held = None => AgedBy(held, file')
    BY DEF Aged, AgedBy
  <2> QED BY <1>2, <1>4, <1>7, <2>1, <2>2, <2>3, <2>4
<1>10. ASSUME NEW a \in Artifacts
       PROVE  LET d == manifest'[ProviderOf[a]]
              IN  /\ tail'[a] # None => tail'[a].gen <= file'[a].gen
                  /\ d # None => /\ tail'[a] # None => d[a].gen <= tail'[a].gen
                                 /\ d[a].gen = file'[a].gen => d[a].goal <= file'[a].len
  <2> DEFINE p == ProviderOf[a]
             d == manifest'[p]
  <2>1. p \in ProviderSet /\ a \in LogsOf(p)
    BY Constants
  <2>2. /\ tail[a] # None => tail[a].gen <= file[a].gen /\ tail[a].gen \in Nat
        /\ manifest[p] # None =>
              /\ manifest[p][a].gen \in Nat /\ manifest[p][a].goal \in Nat
              /\ manifest[p][a].gen <= file[a].gen
              /\ tail[a] # None => manifest[p][a].gen <= tail[a].gen
              /\ manifest[p][a].gen = file[a].gen => manifest[p][a].goal <= file[a].len
    <3>1. manifest[p] # None =>
              /\ manifest[p][a].gen \in Nat /\ manifest[p][a].goal \in Nat
              /\ a \in DOMAIN manifest[p]
      BY ManifestFacts DEF DrainTypes
    <3>2. manifest[p] # None => manifest[p][a].gen <= file[a].gen
      BY <2>1, <3>1 DEF LogsAge, Aged, AgedBy
    <3>3. tail[a] # None => tail[a].gen \in Nat
      BY DEF DrainTypes, WorkerTypes
    <3> QED BY <3>1, <3>2, <3>3 DEF LogsAge
  <2>3. \/ tail'[a] = tail[a] \/ tail'[a] = None
        \/ tail'[a] # None /\ tail'[a].gen = file[a].gen /\ UNCHANGED <<file, manifest>>
    <3>1. CASE Visit
      <4> DEFINE b == Work[at]
      <4>1. /\ UNCHANGED manifest
            /\ \A x \in Artifacts : x # b => tail'[x] = tail[x]
            /\ tail'[b] # None
            /\ tail'[b] = tail[b] \/ tail'[b] = [gen |-> file[b].gen, off |-> 0]
        BY <3>1, VisitCases
      <4>2. UNCHANGED file
        BY <3>1, Zenon DEF Visit
      <4> HIDE DEF b
      <4> QED BY <4>1, <4>2
    <3>2. CASE Poll
      <4> DEFINE b == Work[at]
      <4>1. UNCHANGED <<file, manifest>>
        BY <3>2, Zenon DEF Poll
      <4>2. \/ UNCHANGED tail
            \/ \E to \in 0 .. MaxLen : tail' = [tail EXCEPT ![b] = [gen |-> file[b].gen, off |-> to]]
        BY <3>2, PollCases DEF DrainTypes
      <4> HIDE DEF b
      <4>3. ASSUME NEW to \in 0 .. MaxLen, tail' = [tail EXCEPT ![b] = [gen |-> file[b].gen, off |-> to]]
            PROVE  \/ tail'[a] = tail[a]
                   \/ tail'[a] # None /\ tail'[a].gen = file[a].gen
        <5>1. CASE a = b
          <6>1. tail'[a] = [gen |-> file[a].gen, off |-> to]
            BY <4>3, <5>1 DEF DrainTypes, WorkerTypes
          <6>2. to \in Nat
            BY Bounds
          <6> QED BY <1>1, <6>1, <6>2, NoneApart
        <5>2. CASE a # b
          BY <4>3, <5>2 DEF DrainTypes, WorkerTypes
        <5> QED BY <5>1, <5>2
      <4> QED BY <4>1, <4>2, <4>3
    <3>3. CASE UNCHANGED tail
      BY <3>3
    <3>4. CASE Elsewhere
      BY <3>4, ElsewhereCases DEF Spared
    <3>5. CASE Restart
      BY <3>5, RestartCases
    <3> QED BY <3>1, <3>2, <3>3, <3>4, <3>5, NextCases, Zenon
         DEF Worker, Flush, StartCycle, DrainRecord, Freeze, Rotated, Finish
  <2>4. CASE d = None \/ d = manifest[p]
    <3> HIDE DEF d, p
    <3> QED BY <1>1, <2>2, <2>3, <2>4 DEF d, p
  <2>5. CASE Freeze /\ manifest[p] = None /\ d # None
    <3>1. d[a].gen = file[a].gen /\ d[a].goal = file[a].len /\ p \notin completed \cup failed
      BY <2>1, <2>5, FreezeManifests DEF DrainTypes
    <3>2. UNCHANGED <<file, tail>>
      BY <2>5, Zenon DEF Freeze
    <3>3. tail[a] = None
      BY <2>1, <2>5, <3>1 DEF FirstCycle, NotYet
    <3> QED BY <1>1, <3>1, <3>2, <3>3
  <2> QED BY <2>1, <2>4, <2>5, ManifestsKept, FreezeManifests DEF Relinquished, DrainTypes
<1> QED BY <1>3, <1>6, <1>8, <1>9, <1>10 DEF LogsAge, InFlight, Aged

-----------------------------------------------------------------------------
(* The logs a cycle has behind it.                                         *)

LEMMA CursorWraps ==
    ASSUME NEW n \in Nat \ {0}, NEW k \in 1 .. n
    PROVE  k % n \in Nat /\ k % n <= k
OBVIOUS

\* A log stays read through while its tail is left alone.
LEMMA ReadThroughKept ==
    ASSUME DrainTypes, LogsAge, BarrierKept, [Next]_vars, NEW a \in Artifacts, ReadThrough(a),
           tail'[a] = tail[a],
           manifest'[ProviderOf[a]] \in {None, manifest[ProviderOf[a]]},
           spent.passed \subseteq spent'.passed
    PROVE  ReadThrough(a)'
<1>1. file[a].gen \in Nat /\ file'[a].gen \in Nat /\ file'[a].gen >= file[a].gen
  <2>1. file[a].gen \in Nat /\ file'[a].gen >= file[a].gen
    BY FilesAge
  <2>2. file'[a] = file[a] \/ file'[a].gen \in Nat
    <3>1. CASE UNCHANGED file
      BY <3>1
    <3>2. ASSUME NEW b \in Artifacts, Grow(b) \/ Replace(b) PROVE file'[a].gen \in Nat
      BY <3>2, LogCases
    <3> QED BY <3>1, <3>2, NextCases, Zenon
         DEF Elsewhere, Receive, RetryPending, RetryHeld, DropOnOverflow, ControllerEvent, vars,
             Worker, Flush, StartCycle, DrainRecord, Freeze, Visit, Poll, Rotated, Finish, Restart
  <2> QED BY <2>1, <2>2
<1>2. manifest[ProviderOf[a]] # None =>
          manifest[ProviderOf[a]][a].gen \in Nat /\ manifest[ProviderOf[a]][a].gen <= file[a].gen
  <2>1. ASSUME manifest[ProviderOf[a]] # None
        PROVE  manifest[ProviderOf[a]][a].gen \in Nat /\ manifest[ProviderOf[a]][a].gen <= file[a].gen
    <3>1. manifest[ProviderOf[a]][a].gen \in Nat /\ a \in DOMAIN manifest[ProviderOf[a]]
      BY <2>1, ManifestFacts DEF DrainTypes
    <3>2. ProviderOf[a] \in ProviderSet
      BY Constants
    <3> QED BY <2>1, <3>1, <3>2 DEF LogsAge, Aged, AgedBy
  <2> QED BY <2>1
<1>3. CASE manifest'[ProviderOf[a]] = None
  BY <1>3 DEF ReadThrough
<1>4. CASE manifest'[ProviderOf[a]] = manifest[ProviderOf[a]]
  <2>1. manifest[ProviderOf[a]] # None /\ file'[a].gen = manifest[ProviderOf[a]][a].gen
            => file[a].gen = manifest[ProviderOf[a]][a].gen
    BY <1>1, <1>2
  <2> QED BY <1>4, <2>1 DEF ReadThrough
<1> QED BY <1>3, <1>4

LEMMA BehindKeptKept ==
    ASSUME DrainTypes, DrainTypes', FirstCycle, VisitKept, BarrierKept, LogsAge, BehindKept,
           [Next]_vars
    PROVE  BehindKept'
<1>1. /\ cursor \in 1 .. Len(Work) /\ at \in 1 .. Len(Work) + 1 /\ Len(Work) \in Nat \ {0}
      /\ pc \in {"idle", "resume", "visit", "read"}
  BY Constants DEF DrainTypes, WorkerTypes
<1>2. ASSUME NEW k \in Behind, k \in 1 .. Len(Work),
             tail'[Work[k]] = tail[Work[k]],
             manifest'[ProviderOf[Work[k]]] \in {None, manifest[ProviderOf[Work[k]]]},
             spent.passed \subseteq spent'.passed
      PROVE  ReadThrough(Work[k])'
  <2>1. Work[k] \in Artifacts /\ ReadThrough(Work[k])
    BY <1>2, Constants DEF BehindKept
  <2> QED BY <1>2, <2>1, ReadThroughKept
<1>3. \A k \in Behind : k \in 1 .. Len(Work)
  BY <1>1 DEF Behind
<1>4. \A k \in 1 .. Len(Work) : Work[k] \in Artifacts /\ ProviderOf[Work[k]] \in ProviderSet
  BY Constants
<1>5. spent.passed \subseteq spent'.passed
  <2>1. CASE Worker
    BY <2>1, WorkerSpares DEF DrainTypes
  <2>2. CASE Elsewhere
    BY <2>2, ElsewhereCases DEF Spared
  <2>3. CASE Restart
    BY <2>3, RestartCases
  <2> QED BY <2>1, <2>2, <2>3, NextCases
<1>6. CASE Behind' \subseteq Behind /\ UNCHANGED tail /\ Relinquished
  <2>1. \A k \in Behind' : ReadThrough(Work[k])'
    BY <1>2, <1>3, <1>4, <1>5, <1>6 DEF Relinquished
  <2> QED BY <2>1 DEF BehindKept
<1>7. CASE Behind' = {}
  BY <1>7 DEF BehindKept
<1>8. CASE Flush
  BY <1>6, <1>8, FlushCases DEF Behind, Relinquished
<1>9. CASE StartCycle
  BY <1>6, <1>9, StartCycleCases DEF Behind
<1>10. CASE DrainRecord
  <2> DEFINE a == Head(deferred)[1]
  <2>1. /\ UNCHANGED <<tail, at, visit>> /\ pc \in {"resume", "read"} /\ deferred # <<>>
        /\ \/ UNCHANGED <<cursor, pc>>
           \/ /\ cursor' = IF pc = "read" THEN (at % Len(Work)) + 1 ELSE cursor
              /\ pc' = "idle"
              /\ pc = "read" /\ tail[a].off < visit.goal =>
                     <<manifest[ProviderOf[a]], a>> \in spent'.passed
              /\ UNCHANGED manifest
    BY <1>10, DrainRecordCases
  <2>2. Relinquished
    <3>1. ~Freeze
      BY <2>1, Zenon DEF Freeze
    <3> QED BY <1>10, <3>1, ManifestsKept, Zenon DEF Next, Worker
  <2>3. CASE UNCHANGED <<cursor, pc>>
    BY <1>6, <2>1, <2>2, <2>3 DEF Behind
  <2>4. CASE pc = "resume" /\ cursor' = cursor /\ pc' = "idle"
    BY <1>6, <2>1, <2>2, <2>4 DEF Behind
  <2>5. CASE /\ pc = "read" /\ cursor' = (at % Len(Work)) + 1 /\ pc' = "idle" /\ UNCHANGED manifest
             /\ tail[a].off < visit.goal => <<manifest[ProviderOf[a]], a>> \in spent'.passed
    <3>1. at \in 1 .. Len(Work) /\ tail[Work[at]] # None
      BY <1>1, <2>5 DEF VisitKept
    <3>2. a = Work[at]
      <4>1. Head(deferred) = deferred[1] /\ 1 \in DOMAIN deferred
        BY <2>1, TailRange DEF DrainTypes, WorkerTypes
      <4> QED BY <2>5, <4>1 DEF VisitKept
    <3> HIDE DEF a
    <3>3. at % Len(Work) \in Nat /\ at % Len(Work) <= at
      BY <1>1, <3>1, CursorWraps
    <3>4. \A k \in Behind' : k \in Behind \/ k = at
      BY <1>1, <2>5, <3>1, <3>3 DEF Behind
    <3>5. ASSUME NEW b, b = Work[at] PROVE ReadThrough(b)'
      <4>1. CASE manifest[ProviderOf[a]] # None
        <5>1. visit.goal = manifest[ProviderOf[a]][a].goal
          BY <2>5, <3>2, <4>1 DEF VisitKept
        <5>2. tail[a].off \in Nat /\ visit.goal \in Nat
          BY <3>1, <3>2, <1>4, Bounds DEF DrainTypes, WorkerTypes
        <5>3. tail[a].off >= visit.goal \/ <<manifest[ProviderOf[a]], a>> \in spent'.passed
          BY <2>5, <5>2
        <5> QED BY <2>1, <2>5, <3>1, <3>2, <3>5, <5>1, <5>3 DEF ReadThrough
      <4>2. CASE manifest[ProviderOf[a]] = None
        BY <2>5, <3>2, <3>5, <4>2 DEF ReadThrough
      <4> QED BY <4>1, <4>2
    <3>6. \A k \in Behind : ReadThrough(Work[k])'
      BY <1>2, <1>3, <1>5, <2>1, <2>5
    <3> QED BY <3>4, <3>5, <3>6, Zenon DEF BehindKept
  <2> QED BY <2>1, <2>3, <2>4, <2>5
<1>11. CASE Freeze
  <2>1. UNCHANGED tail /\ pc = "resume" /\ pc' = "visit" /\ at' = cursor
    BY <1>11, Zenon DEF Freeze
  <2>2. Behind' = Behind
    BY <2>1 DEF Behind
  <2>3. CASE NotYet
    BY <1>1, <1>7, <2>1, <2>2, <2>3 DEF FirstCycle, Behind
  <2>4. CASE ~NotYet
    <3>1. Relinquished
      BY <1>11, <2>4, FreezeManifests DEF NotYet, Relinquished, DrainTypes
    <3> QED BY <1>6, <2>1, <2>2, <3>1
  <2> QED BY <2>3, <2>4
<1>12. CASE Visit
  <2> DEFINE a == Work[at]
  <2>1. /\ UNCHANGED <<manifest, at>> /\ pc = "visit" /\ pc' = "read"
        /\ \A b \in Artifacts : b # a => tail'[b] = tail[b]
        /\ \/ tail'[a] = tail[a]
           \/ tail[a] = None \/ tail[a].gen # file[a].gen
        /\ a \in Artifacts
    BY <1>12, VisitCases
  <2>2. Behind' = Behind
    BY <2>1 DEF Behind
  <2>3. ASSUME NEW k \in Behind PROVE ReadThrough(Work[k])'
    <3>1. CASE tail'[Work[k]] = tail[Work[k]]
      BY <1>2, <1>3, <1>5, <2>1, <3>1
    <3>2. CASE Work[k] = a /\ (tail[a] = None \/ tail[a].gen # file[a].gen)
      <4>1. ReadThrough(a)
        BY <3>2 DEF BehindKept
      <4>2. UNCHANGED file
        BY <1>12, Zenon DEF Visit
      <4>3. tail[a] # None => /\ tail[a].gen <= file[a].gen
                              /\ manifest[ProviderOf[a]] # None => manifest[ProviderOf[a]][a].gen <= tail[a].gen
        BY <2>1 DEF LogsAge
      <4>4. file[a].gen \in Nat /\ (tail[a] # None => tail[a].gen \in Nat)
        BY <2>1 DEF DrainTypes, WorkerTypes
      <4>5. manifest[ProviderOf[a]] # None /\ file[a].gen = manifest[ProviderOf[a]][a].gen
                => <<manifest[ProviderOf[a]], a>> \in spent.passed
        BY <3>2, <4>1, <4>3, <4>4 DEF ReadThrough
      <4> QED BY <1>5, <2>1, <3>2, <4>2, <4>5 DEF ReadThrough
    <3>3. Work[k] \in Artifacts
      BY <1>3, <1>4
    <3> QED BY <2>1, <3>1, <3>2, <3>3
  <2> QED BY <2>2, <2>3 DEF BehindKept
<1>13. CASE Poll
  <2> DEFINE a == Work[at]
             d == manifest[ProviderOf[a]]
  <2>1. UNCHANGED <<file, manifest, cursor>> /\ pc = "read"
    BY <1>13, Zenon DEF Poll
  <2>2. /\ a \in Artifacts /\ at \in 1 .. Len(Work) /\ tail[a] \in [gen : Nat, off : 0 .. MaxLen]
    BY <1>13, PollCases DEF DrainTypes
  <2>3. d # None => visit.goal = d[a].goal
    BY <2>1 DEF VisitKept
  <2>4. CASE /\ tail[a].off >= visit.goal \/ (file[a].gen = tail[a].gen
                                              /\ ~(tail[a].off < visit.goal /\ tail[a].off < file[a].len))
             /\ pc' = "visit" /\ at' = at + 1 /\ UNCHANGED <<tail, deferred, visit>>
    <3>1. \A k \in Behind' : k \in Behind \/ k = at
      BY <2>1, <2>2, <2>4 DEF Behind
    <3>2. ASSUME NEW b, b = a PROVE ReadThrough(b)'
      <4>1. tail[a] # None
        BY <2>1 DEF VisitKept
      <4>2. d # None /\ d[a].gen = file[a].gen => d[a].goal <= file[a].len
        BY <2>2 DEF LogsAge
      <4>3. tail[a].off \in Nat /\ file[a].len \in Nat /\ visit.goal \in Nat
        <5>1. file[a] \in [gen : Nat, len : 0 .. MaxLen] /\ visit.goal \in Nat
          BY <2>2 DEF DrainTypes, WorkerTypes
        <5> QED BY <2>2, <5>1, Bounds
      <4>4. d # None /\ file[a].gen = d[a].gen => tail[a].off >= d[a].goal
        <5> HIDE DEF d
        <5> QED BY <2>3, <2>4, <4>2, <4>3
      <4> QED BY <2>1, <2>4, <3>2, <4>1, <4>4 DEF ReadThrough
    <3>3. \A k \in Behind : ReadThrough(Work[k])'
      BY <1>2, <1>3, <1>5, <2>1, <2>4
    <3> QED BY <3>1, <3>2, <3>3, Zenon DEF BehindKept
  <2>5. CASE \E from, to \in 0 .. MaxLen :
                    /\ tail[a].off < visit.goal
                    /\ tail' = [tail EXCEPT ![a] = [gen |-> file[a].gen, off |-> to]]
                    /\ UNCHANGED <<pc, at>>
    <3>1. tail[a].off < visit.goal /\ UNCHANGED <<pc, at>> /\ \A b \in Artifacts : b # a => tail'[b] = tail[b]
      BY <2>5 DEF DrainTypes, WorkerTypes
    <3>2. Behind' = Behind
      BY <2>1, <3>1 DEF Behind
    <3>3. ASSUME NEW k \in Behind PROVE ReadThrough(Work[k])'
      <4>1. CASE Work[k] # a
        BY <1>2, <1>3, <1>4, <1>5, <2>1, <3>1, <4>1
      <4>2. CASE Work[k] = a
        <5>1. ReadThrough(a)
          BY <4>2 DEF BehindKept
        <5>2. tail[a].off \in Nat /\ visit.goal \in Nat
          BY <2>2, Bounds DEF DrainTypes, WorkerTypes
        <5>3. d # None /\ file[a].gen = d[a].gen => <<d, a>> \in spent.passed
          <6>1. d # None => ~(tail[a].off >= d[a].goal)
            BY <2>3, <3>1, <5>2
          <6> QED BY <5>1, <6>1 DEF ReadThrough
        <5> QED BY <1>5, <2>1, <4>2, <5>3 DEF ReadThrough
      <4> QED BY <4>1, <4>2
    <3> QED BY <3>2, <3>3 DEF BehindKept
  <2> QED BY <1>13, <2>4, <2>5, PollCases DEF DrainTypes
<1>14. CASE Rotated
  <2> DEFINE a == Work[at]
  <2>1. /\ UNCHANGED <<tail, cursor>> /\ pc = "read" /\ at \in 1 .. Len(Work)
        /\ manifest'[ProviderOf[a]] = None
        /\ \/ pc' = "visit" /\ at' = at + 1
           \/ pc' = "read" /\ at' = at
    BY <1>14, RotatedCases
  <2>2. Relinquished
    <3>1. ~Freeze
      BY <2>1, Zenon DEF Freeze
    <3> QED BY <1>14, <3>1, ManifestsKept, Zenon DEF Next, Worker
  <2>3. \A k \in Behind' : k \in Behind \/ k = at
    BY <2>1 DEF Behind
  <2>4. ASSUME NEW b, b = a PROVE ReadThrough(b)'
    BY <2>1, <2>4 DEF ReadThrough
  <2>5. \A k \in Behind : ReadThrough(Work[k])'
    BY <1>2, <1>3, <1>4, <1>5, <2>1, <2>2 DEF Relinquished
  <2> QED BY <2>3, <2>4, <2>5, Zenon DEF BehindKept
<1>15. CASE Finish
  BY <1>7, <1>15 DEF Finish, Behind
<1>16. CASE Elsewhere
  BY <1>6, <1>16, ElsewhereCases DEF Spared, Behind, Relinquished
<1>17. CASE Restart
  BY <1>7, <1>17, RestartCases DEF Behind
<1> QED BY <1>8, <1>9, <1>10, <1>11, <1>12, <1>13, <1>14, <1>15, <1>16, <1>17, NextCases, Zenon DEF Worker

-----------------------------------------------------------------------------
(* Admitted records.                                                       *)

\* A drain whose manifest is given up is completed or failed; nothing on its way is lost by the
\* worker.
LEMMA WorkerAdvances ==
    ASSUME DrainTypes, VisitKept, BarrierKept, Worker
    PROVE  /\ completed \subseteq completed' /\ failed \subseteq failed'
           /\ \A p \in ProviderSet : manifest[p] # None /\ manifest'[p] = None
                                        => p \in completed' \cup failed'
           /\ InFlight \subseteq InFlight'
<1>1. CASE Flush
  BY <1>1, FlushCases
<1>2. CASE StartCycle
  BY <1>2, StartCycleCases DEF InFlight
<1>3. CASE DrainRecord
  <2>1. /\ UNCHANGED completed
        /\ \/ UNCHANGED <<failed, manifest>>
           \/ \E q \in ProviderSet : /\ failed' = failed \cup {q} /\ manifest'[q] = None
                                     /\ \A x \in ProviderSet : x # q => manifest'[x] = manifest[x]
    BY <1>3, DrainRecordCases
  <2>2. UNCHANGED channel /\ (UNCHANGED lane \/ InFlight \subseteq InFlight')
    BY <1>3, DrainRecordCases
  <2> QED BY <2>1, <2>2 DEF InFlight
<1>4. CASE Freeze
  <2>1. UNCHANGED <<lane, channel, failed>> /\ completed \subseteq completed'
    BY <1>4 DEF Freeze
  <2> QED BY <1>4, <2>1, FreezeManifests DEF InFlight, DrainTypes
<1>5. CASE Visit \/ Poll \/ Finish
  <2>1. UNCHANGED <<lane, channel, failed, completed, manifest>>
    BY <1>5, Zenon DEF Visit, Poll, Finish
  <2> QED BY <2>1 DEF InFlight
<1>6. CASE Rotated
  <2> DEFINE q == ProviderOf[Work[at]]
  <2>1. /\ UNCHANGED <<completed, lane, channel>> /\ manifest'[q] = None
        /\ \A x \in ProviderSet : x # q => manifest'[x] = manifest[x]
        /\ UNCHANGED <<failed, manifest>> \/ failed' = failed \cup {q}
    BY <1>6, RotatedCases
  <2> HIDE DEF q
  <2> QED BY <2>1 DEF InFlight
<1> QED BY <1>1, <1>2, <1>3, <1>4, <1>5, <1>6, Zenon DEF Worker

\* A record that is live: its drain is over, or it lies beyond the goalpost.
Beyond(a, i) ==
    \/ ProviderOf[a] \in completed \cup failed
    \/ manifest[ProviderOf[a]] # None /\ ~(i <= manifest[ProviderOf[a]][a].goal)

LEMMA AdmittedKeptKept ==
    ASSUME DrainTypes, FirstCycle, VisitKept, BarrierKept, OriginsKept, AdmittedKept, [Next]_vars
    PROVE  AdmittedKept'
<1>1. ASSUME NEW a \in Artifacts, NEW i \in 1 .. MaxLen, <<a, i>> \in mirror,
             ProviderOf[a] \notin completed \cup failed,
             manifest[ProviderOf[a]] # None => i <= manifest[ProviderOf[a]][a].goal
      PROVE  <<a, i>> \in Recorded(store) \/ Retained(<<a, i>>)
  BY <1>1 DEF AdmittedKept
<1>2. CASE Worker
  <2>1. /\ UNCHANGED <<mirror, store, retained>>
        /\ completed \subseteq completed' /\ failed \subseteq failed'
        /\ \A p \in ProviderSet : manifest[p] # None /\ manifest'[p] = None
                                     => p \in completed' \cup failed'
    BY <1>2, WorkerSpares, WorkerAdvances DEF DrainTypes
  <2>2. \A p \in ProviderSet : manifest'[p] \in {None, manifest[p]} \/ manifest[p] = None
    BY ManifestsKept, FreezeManifests DEF Relinquished, DrainTypes
  <2>3. ASSUME NEW a \in Artifacts, NEW i \in 1 .. MaxLen, <<a, i>> \in mirror',
               ProviderOf[a] \notin completed' \cup failed',
               manifest'[ProviderOf[a]] # None => i <= manifest'[ProviderOf[a]][a].goal
        PROVE  <<a, i>> \in Recorded(store)' \/ Retained(<<a, i>>)'
    <3>1. ProviderOf[a] \in ProviderSet
      BY Constants
    <3>2. <<a, i>> \in Recorded(store) \/ Retained(<<a, i>>)
      BY <1>1, <2>1, <2>2, <2>3, <3>1
    <3> QED BY <2>1, <3>2 DEF Recorded, Retained
  <2> QED BY <2>3 DEF AdmittedKept
<1>3. ASSUME UNCHANGED <<manifest, completed, failed>>,
             \A a \in Artifacts : \A i \in 1 .. MaxLen :
                \/ <<a, i>> \in Recorded(store') \/ Retained(<<a, i>>)'
                \/ <<a, i>> \in mirror /\ <<a, i>> \notin Recorded(store) /\ ~Retained(<<a, i>>)
                \/ <<a, i>> \notin mirror /\ <<a, i>> \notin mirror'
                \/ <<a, i>> \notin mirror /\ Beyond(a, i)
      PROVE  AdmittedKept'
  <2>1. ASSUME NEW a \in Artifacts, NEW i \in 1 .. MaxLen, <<a, i>> \in mirror',
               ProviderOf[a] \notin completed' \cup failed',
               manifest'[ProviderOf[a]] # None => i <= manifest'[ProviderOf[a]][a].goal
        PROVE  <<a, i>> \in Recorded(store') \/ Retained(<<a, i>>)'
    <3>1. ~Beyond(a, i)
      BY <1>3, <2>1 DEF Beyond
    <3>2. <<a, i>> \in mirror => <<a, i>> \in Recorded(store) \/ Retained(<<a, i>>)
      BY <1>1, <1>3, <2>1
    <3> QED BY <1>3, <2>1, <3>1, <3>2, Zenon
  <2> QED BY <2>1 DEF AdmittedKept
<1>4. CASE Elsewhere
  <2>1. UNCHANGED <<manifest, completed, failed>> /\ Recorded(store) \subseteq Recorded(store')
    BY <1>4, ElsewhereCases DEF Spared
  <2>2. CASE UNCHANGED retained /\ \A a \in Artifacts : \A i : <<a, i>> \in mirror' => <<a, i>> \in mirror
    <3>1. \A e : Retained(e) => Retained(e)'
      BY <2>2 DEF Retained
    <3> QED BY <1>3, <2>1, <2>2, <3>1
  <2>3. ASSUME NEW b \in Batches, NEW o \in Outcomes, Write(b, o),
               retained = None \/ retained = b,
               \/ retained' = b
               \/ o = "durable"
               \/ retained = None /\ \A a \in Artifacts : \A i \in 1 .. MaxLen :
                      b.event = <<a, i>> => Beyond(a, i)
        PROVE  AdmittedKept'
    <3>1. /\ o = "durable" => b.event \in Recorded(store')
          /\ mirror' \subseteq mirror \cup {b.event}
      BY <2>3, WriteStep DEF DrainTypes
    <3>2. b # None
      BY NoneApart
    <3>3. retained' = b => Retained(b.event)'
      BY <3>2 DEF Retained
    <3>4. \A e : Retained(e) => e = b.event /\ (retained' = b \/ o = "durable")
      BY <2>3 DEF Retained
    <3>5. ASSUME NEW a \in Artifacts, NEW i \in 1 .. MaxLen
          PROVE  \/ <<a, i>> \in Recorded(store') \/ Retained(<<a, i>>)'
                 \/ <<a, i>> \in mirror /\ <<a, i>> \notin Recorded(store) /\ ~Retained(<<a, i>>)
                 \/ <<a, i>> \notin mirror /\ <<a, i>> \notin mirror'
                 \/ <<a, i>> \notin mirror /\ Beyond(a, i)
      BY <2>1, <2>3, <3>1, <3>3, <3>4
    <3> QED BY <1>3, <2>1, <3>5
  <2>4. ASSUME NEW o \in Outcomes, Receive(o) PROVE AdmittedKept'
    <3> DEFINE item == Head(channel)
    <3>1. /\ retained = None /\ channel # <<>>
          /\ \/ UNCHANGED <<retained, mirror>>
             \/ /\ item \in Item /\ BatchOf(item) \in Batches /\ Write(BatchOf(item), o)
                /\ retained' = IF item.origin = None \/ o = "durable" THEN None ELSE BatchOf(item)
      BY <2>4, ReceiveCases DEF DrainTypes
    <3>2. item \in Range(channel)
      BY <3>1, TailRange DEF DrainTypes, WorkerTypes
    <3> HIDE DEF item
    <3>3. CASE UNCHANGED <<retained, mirror>>
      BY <2>2, <3>3
    <3>4. CASE /\ item \in Item /\ BatchOf(item) \in Batches /\ Write(BatchOf(item), o)
               /\ retained' = IF item.origin = None \/ o = "durable" THEN None ELSE BatchOf(item)
      <4> DEFINE b == BatchOf(item)
      <4>1. b \in Batches /\ Write(b, o) /\ b.event = item.event /\ item.event \in RecordIds
            /\ (retained' = b \/ o = "durable" \/ item.origin = None)
        BY <3>4, BatchTyped DEF DrainTypes, Item
      <4> HIDE DEF b
      <4>2. ASSUME item.origin = None, NEW a \in Artifacts, NEW i \in 1 .. MaxLen, b.event = <<a, i>>,
                   ProviderOf[a] \notin completed \cup failed
            PROVE  manifest[ProviderOf[a]] # None /\ ~(i <= manifest[ProviderOf[a]][a].goal)
        <5>1. manifest[ProviderOf[a]] # None
          BY <3>1, <4>2, Constants DEF FirstCycle, NotYet
        <5>2. item.event # None /\ item.event[1] = a /\ item.event[2] = i
          BY <4>1, <4>2, NoneApart
        <5> QED BY <3>2, <4>2, <5>1, <5>2 DEF OriginsKept
      <4>3. ASSUME item.origin = None, NEW a \in Artifacts, NEW i \in 1 .. MaxLen, b.event = <<a, i>>
            PROVE  Beyond(a, i)
        BY <4>2, <4>3 DEF Beyond
      <4> QED BY <2>3, <3>1, <4>1, <4>3
    <3> QED BY <3>1, <3>3, <3>4
  <2>5. ASSUME NEW o \in Outcomes, RetryPending(o) \/ RetryHeld(o) PROVE AdmittedKept'
    <3>1. \/ UNCHANGED <<retained, mirror>>
          \/ /\ retained \in Batches /\ Write(retained, o)
             /\ retained' = IF o = "durable" THEN None ELSE retained
      BY <2>5, RetryCases
    <3>2. CASE UNCHANGED <<retained, mirror>>
      BY <2>2, <3>2
    <3>3. CASE /\ retained \in Batches /\ Write(retained, o)
               /\ retained' = IF o = "durable" THEN None ELSE retained
      BY <2>3, <3>3
    <3> QED BY <3>1, <3>2, <3>3
  <2>6. CASE DropOnOverflow
    BY <2>2, <2>6, DropCases
  <2>7. ASSUME NEW r \in Runs, ControllerEvent(r) PROVE AdmittedKept'
    BY <2>2, <2>7, ControllerEventCases
  <2>8. ASSUME NEW b \in Artifacts, Grow(b) \/ Replace(b) PROVE AdmittedKept'
    BY <2>2, <2>8, LogCases
  <2>9. CASE UNCHANGED vars
    BY <2>2, <2>9 DEF vars, collector
  <2> QED BY <1>4, <2>4, <2>5, <2>6, <2>7, <2>8, <2>9, Zenon DEF Elsewhere
<1>5. CASE Restart
  <2>1. mirror' = Recorded(store) /\ UNCHANGED store
    BY <1>5, RestartCases
  <2> QED BY <2>1 DEF AdmittedKept, Recorded
<1> QED BY <1>2, <1>4, <1>5, NextCases

-----------------------------------------------------------------------------
(* Nothing below a goalpost is lost.                                       *)

\* In a step that leaves the manifest of log a, the invariant applies before it.
LEMMA GoalpostsStand ==
    ASSUME DrainTypes, BarrierKept, LogsAge, [Next]_vars, NEW a \in Artifacts,
           NEW d, d = manifest[ProviderOf[a]], d # None, file'[a].gen = d[a].gen
    PROVE  /\ file[a].gen = d[a].gen /\ d[a].goal \in Nat
           /\ \A i \in 1 .. d[a].goal : i \in Nat \ {0}
<1>1. d[a].gen \in Nat /\ d[a].goal \in Nat /\ a \in DOMAIN d
  BY ManifestFacts DEF DrainTypes
<1>2. ProviderOf[a] \in ProviderSet
  BY Constants
<1>3. d[a].gen <= file[a].gen
  BY <1>1, <1>2 DEF LogsAge, Aged, AgedBy
<1>4. file[a].gen \in Nat /\ file'[a].gen >= file[a].gen
  BY FilesAge
<1> QED BY <1>1, <1>3, <1>4

\* The ways a record is accounted for that no step of the worker takes away.
LEMMA SettledKept ==
    ASSUME DrainTypes, VisitKept, BarrierKept, Worker, NEW a, NEW i
    PROVE  /\ Retained(<<a, i>>) => Retained(<<a, i>>)'
           /\ <<a, i>> \in Recorded(store) => <<a, i>> \in Recorded(store')
           /\ (\E item \in InFlight : item.event = <<a, i>>)
                 => \E item \in InFlight' : item.event = <<a, i>>
<1>1. UNCHANGED <<retained, store>> /\ InFlight \subseteq InFlight'
  BY WorkerSpares, WorkerAdvances DEF DrainTypes
<1> QED BY <1>1 DEF Retained, Recorded

LEMMA UnlostByWorker ==
    ASSUME DrainTypes, DrainTypes', FirstCycle, VisitKept, BarrierKept, LogsAge, Unlost, Worker,
           NEW a \in Artifacts, NEW d, d = manifest'[ProviderOf[a]], d # None,
           file'[a].gen = d[a].gen, spent'.overflows = 0, NEW i \in 1 .. d[a].goal
    PROVE  Somewhere(a, i)'
<1>1. spent.overflows = 0 /\ UNCHANGED file
  BY WorkerSpares DEF DrainTypes
<1>2. ProviderOf[a] \in ProviderSet
  BY Constants
<1>3. [Next]_vars
  BY DEF Next
<1>4. d[a].goal \in Nat /\ i \in Nat \ {0}
  <2>1. d \in FrozenBy(ProviderOf[a])
    BY <1>2 DEF DrainTypes, WorkerTypes
  <2>2. a \in LogsOf(ProviderOf[a])
    BY Constants
  <2>3. d[a].goal \in Nat
    BY <1>2, <2>1, <2>2, FrozenFacts
  <2> QED BY <2>3
<1>5. CASE d = manifest[ProviderOf[a]]
  <2>1. Somewhere(a, i)
    BY <1>1, <1>5 DEF Unlost
  <2>2. \/ tail[a] = None \/ i > tail[a].off
        \/ <<a, i>> \in Range(deferred)
        \/ Somewhere(a, i)'
    BY <2>1, SettledKept DEF Somewhere, InFlight
  <2>3. CASE UNCHANGED <<tail, deferred>>
    BY <2>2, <2>3 DEF Somewhere
  <2>4. CASE DrainRecord
    <3> DEFINE b == Head(deferred)[1]
               k == Head(deferred)[2]
    <3>1. /\ UNCHANGED tail
          /\ Range(deferred) = {<<b, k>>} \cup Range(Tail(deferred)) /\ b \in Artifacts
      BY <2>4, DrainRecordCases
    <3>2. ASSUME NEW x, x = [event |-> <<b, k>>, run |-> RunOf[b][k], origin |-> RecordOrigin(b, k)]
          PROVE  \/ manifest'[ProviderOf[b]] = None /\ deferred' = Tail(deferred)
                 \/ InFlight' = InFlight \cup {x} /\ deferred' = Tail(deferred)
                 \/ UNCHANGED deferred
      BY <2>4, <3>2, DrainRecordCases
    <3>3. \/ manifest'[ProviderOf[b]] = None /\ deferred' = Tail(deferred)
          \/ (\E item \in InFlight' : item.event = <<b, k>>) /\ deferred' = Tail(deferred)
          \/ UNCHANGED deferred
      <4> DEFINE new == [event |-> <<b, k>>, run |-> RunOf[b][k], origin |-> RecordOrigin(b, k)]
      <4>1. \/ manifest'[ProviderOf[b]] = None /\ deferred' = Tail(deferred)
            \/ InFlight' = InFlight \cup {new} /\ deferred' = Tail(deferred)
            \/ UNCHANGED deferred
        BY <3>2
      <4>2. new.event = <<b, k>>
        OBVIOUS
      <4> HIDE DEF new
      <4> QED BY <4>1, <4>2
    <3> HIDE DEF b, k
    <3>4. CASE UNCHANGED deferred
      BY <2>3, <3>1, <3>4
    <3>5. CASE <<a, i>> = <<b, k>>
      <4>1. a = b
        BY <3>5
      <4>2. CASE \E item \in InFlight' : item.event = <<b, k>>
        BY <3>5, <4>2 DEF Somewhere, InFlight
      <4> QED BY <3>3, <3>4, <4>1, <4>2
    <3>6. CASE <<a, i>> # <<b, k>> /\ deferred' = Tail(deferred)
      <4>1. <<a, i>> \in Range(deferred) => <<a, i>> \in Range(deferred')
        BY <3>1, <3>6
      <4> QED BY <2>2, <3>1, <4>1 DEF Somewhere
    <3> QED BY <3>3, <3>4, <3>5, <3>6
  <2>5. CASE Visit
    <3> DEFINE b == Work[at]
    <3>1. /\ UNCHANGED deferred
          /\ \A x \in Artifacts : x # b => tail'[x] = tail[x]
          /\ \/ tail'[b] = tail[b]
             \/ tail'[b] = [gen |-> file[b].gen, off |-> 0]
      BY <2>5, VisitCases
    <3> HIDE DEF b
    <3>2. tail'[a] = tail[a] \/ tail'[a].off = 0
      BY <3>1
    <3> QED BY <1>4, <2>2, <3>1, <3>2 DEF Somewhere
  <2>6. CASE Poll
    <3> DEFINE b == Work[at]
    <3>1. deferred = <<>>
      BY <2>6, Zenon DEF Poll
    <3>2. \/ UNCHANGED <<tail, deferred>>
          \/ \E from, to \in 0 .. MaxLen :
                /\ from <= to
                /\ from = IF file[b].gen # tail[b].gen THEN 0 ELSE tail[b].off
                /\ tail' = [tail EXCEPT ![b] = [gen |-> file[b].gen, off |-> to]]
                /\ deferred' = Records(b, from, to)
      BY <2>6, PollCases DEF DrainTypes
    <3>3. b \in Artifacts
      BY <2>6, PollCases DEF DrainTypes
    <3>4. tail[b] # None /\ tail[b].gen \in Nat /\ tail[b].off \in Nat
      <4>1. pc = "read"
        BY <2>6, Zenon DEF Poll
      <4>2. tail[b] # None
        BY <4>1 DEF VisitKept
      <4>3. tail[b] \in [gen : Nat, off : 0 .. MaxLen]
        BY <2>6, PollCases DEF DrainTypes
      <4> QED BY <4>2, <4>3, Bounds
    <3> HIDE DEF b
    <3>5. CASE UNCHANGED <<tail, deferred>>
      BY <2>3, <3>5
    <3>6. ASSUME NEW from \in 0 .. MaxLen, NEW to \in 0 .. MaxLen,
                 from <= to,
                 from = IF file[b].gen # tail[b].gen THEN 0 ELSE tail[b].off,
                 tail' = [tail EXCEPT ![b] = [gen |-> file[b].gen, off |-> to]],
                 deferred' = Records(b, from, to)
          PROVE  Somewhere(a, i)'
      <4>1. CASE a # b
        <5>1. tail'[a] = tail[a]
          BY <3>6, <4>1 DEF DrainTypes, WorkerTypes
        <5> QED BY <2>2, <3>1, <5>1, EmptyRange DEF Somewhere
      <4>2. CASE a = b
        <5>1. tail'[a].off = to /\ to \in Nat /\ from \in Nat
          <6>1. tail'[a] = [gen |-> file[a].gen, off |-> to]
            BY <3>6, <4>2 DEF DrainTypes, WorkerTypes
          <6> QED BY <6>1, Bounds
        <5>2. CASE i > to
          BY <5>1, <5>2 DEF Somewhere
        <5>3. CASE i <= to /\ i > from
          <6>1. i \in from + 1 .. to
            BY <1>4, <5>1, <5>3
          <6>2. <<a, i>> \in Range(deferred')
            BY <3>3, <3>6, <4>2, <6>1, RecordsRead
          <6> QED BY <6>2 DEF Somewhere
        <5>4. CASE i <= from
          <6>1. from = tail[a].off
            BY <1>4, <3>6, <4>2, <5>4
          <6>2. ~(i > tail[a].off) /\ tail[a] # None
            BY <1>4, <3>4, <4>2, <5>1, <5>4, <6>1
          <6> QED BY <2>2, <3>1, <6>2, EmptyRange
        <5> QED BY <1>4, <5>1, <5>2, <5>3, <5>4
      <4> QED BY <4>1, <4>2
    <3> QED BY <3>2, <3>5, <3>6
  <2> QED BY <2>3, <2>4, <2>5, <2>6, Zenon DEF Worker, Flush, StartCycle, Freeze, Rotated, Finish
<1>6. CASE d # manifest[ProviderOf[a]]
  <2>1. Freeze /\ manifest[ProviderOf[a]] = None
    BY <1>2, <1>3, <1>6, ManifestsKept, FreezeManifests DEF Relinquished, DrainTypes
  <2>2. UNCHANGED tail
    BY <2>1, Zenon DEF Freeze
  <2>3. ProviderOf[a] \notin completed \cup failed
    BY <1>2, <2>1, FreezeManifests DEF DrainTypes
  <2>4. tail[a] = None
    BY <1>2, <2>1, <2>3 DEF FirstCycle, NotYet
  <2> QED BY <2>2, <2>4 DEF Somewhere
<1> QED BY <1>5, <1>6

LEMMA UnlostKept ==
    ASSUME DrainTypes, DrainTypes', FirstCycle, DrainsAdvance, VisitKept, BarrierKept, LogsAge,
           OriginsKept, AdmittedKept, Unlost, [Next]_vars
    PROVE  Unlost'
<1>1. CASE Worker
  BY <1>1, UnlostByWorker DEF Unlost
<1>2. CASE Restart
  BY <1>2, RestartCases, Constants DEF Unlost
<1>3. CASE Elsewhere
  <2> SUFFICES ASSUME spent'.overflows = 0, NEW a \in Artifacts,
                      NEW d, d = manifest'[ProviderOf[a]], d # None, file'[a].gen = d[a].gen,
                      NEW i \in 1 .. d[a].goal
               PROVE  Somewhere(a, i)'
    BY DEF Unlost
  <2>1. /\ UNCHANGED <<tail, manifest, completed, failed, deferred, lane>>
        /\ spent.overflows <= spent'.overflows
        /\ Recorded(store) \subseteq Recorded(store')
        /\ channel' = channel \/ (channel # <<>> /\ channel' = Tail(channel))
    BY <1>3, ElsewhereCases DEF Spared
  <2>2. spent.overflows = 0
    <3>1. spent.overflows \in Nat
      BY DEF DrainTypes, SpentTypes
    <3> QED BY <2>1, <3>1
  <2>3. d = manifest[ProviderOf[a]] /\ ProviderOf[a] \in ProviderSet
    BY <2>1, Constants
  <2>4. file[a].gen = d[a].gen /\ i \in Nat \ {0} /\ d[a].goal \in Nat
    BY <2>3, GoalpostsStand
  <2>5. Somewhere(a, i)
    BY <2>2, <2>3, <2>4 DEF Unlost
  <2>6. channel # <<>> => Range(channel) = {Head(channel)} \cup Range(Tail(channel))
    BY TailRange DEF DrainTypes, WorkerTypes
  <2>7. \/ Somewhere(a, i)'
        \/ Retained(<<a, i>>)
        \/ channel # <<>> /\ channel' = Tail(channel) /\ Head(channel).event = <<a, i>>
    BY <2>1, <2>5, <2>6, Zenon DEF Somewhere
  <2>8. (<<a, i>> # None /\ i \in 1 .. MaxLen) \/ Somewhere(a, i)'
    <3>1. CASE i \in 1 .. MaxLen
      <4>1. <<a, i>> \in RecordIds
        BY <3>1 DEF RecordIds
      <4> QED BY <3>1, <4>1, NoneApart
    <3>2. CASE i \notin 1 .. MaxLen
      <4>1. tail[a] # None => tail[a].off <= MaxLen /\ tail[a].off \in Nat
        BY Bounds DEF DrainTypes, WorkerTypes
      <4>2. i > MaxLen
        BY <2>4, <3>2, Bounds
      <4>3. tail[a] # None => i > tail[a].off
        BY <2>4, <4>1, <4>2, Bounds
      <4> QED BY <2>1, <4>3 DEF Somewhere
    <3> QED BY <3>1, <3>2
  <2>9. ASSUME NEW o \in Outcomes, Receive(o) PROVE Somewhere(a, i)'
    <3> DEFINE item == Head(channel)
    <3>1. /\ retained = None
          /\ \/ item.event = None
             \/ item.event \in mirror
             \/ /\ item \in Item /\ BatchOf(item) \in Batches /\ Write(BatchOf(item), o)
                /\ retained' = IF item.origin = None \/ o = "durable" THEN None ELSE BatchOf(item)
      BY <2>9, ReceiveCases DEF DrainTypes
    <3>2. channel # <<>> => item \in Range(channel)
      BY <2>6
    <3> HIDE DEF item
    <3>3. CASE channel # <<>> /\ item.event = <<a, i>> /\ i \in 1 .. MaxLen /\ <<a, i>> # None
      <4>1. item.origin = d
        <5>1. item.event[1] = a /\ item.event[2] = i /\ item.event # None
          BY <3>3
        <5>2. i <= d[a].goal
          BY <2>4
        <5>3. \A e : item.event # None /\ item.event[1] = a /\ e = manifest[ProviderOf[a]]
                      /\ e # None /\ item.event[2] <= e[a].goal => item.origin = e
          BY <3>2, <3>3 DEF OriginsKept
        <5> QED BY <2>3, <5>1, <5>2, <5>3
      <4>2. CASE item.event \in mirror
        <5>1. ProviderOf[a] \notin completed \cup failed
          BY <2>3 DEF DrainsAdvance
        <5>2. <<a, i>> \in Recorded(store) \/ Retained(<<a, i>>)
          BY <2>3, <2>4, <3>3, <4>2, <5>1 DEF AdmittedKept
        <5> QED BY <2>1, <3>1, <5>2 DEF Somewhere, Retained
      <4>3. CASE /\ item \in Item /\ BatchOf(item) \in Batches /\ Write(BatchOf(item), o)
                 /\ retained' = IF item.origin = None \/ o = "durable" THEN None ELSE BatchOf(item)
        <5> DEFINE b == BatchOf(item)
        <5>1. b \in Batches /\ Write(b, o) /\ b.event = <<a, i>> /\ (retained' = b \/ o = "durable")
          BY <3>3, <4>1, <4>3, BatchTyped DEF DrainTypes
        <5> HIDE DEF b
        <5>2. o = "durable" => <<a, i>> \in Recorded(store')
          BY <5>1, WriteStep DEF DrainTypes
        <5>3. retained' = b => Retained(<<a, i>>)'
          BY <5>1, NoneApart DEF Retained
        <5> QED BY <5>1, <5>2, <5>3 DEF Somewhere
      <4> QED BY <3>1, <3>3, <4>2, <4>3
    <3> QED BY <2>7, <2>8, <3>1, <3>3 DEF Retained, item
  <2>10. ASSUME NEW o \in Outcomes, RetryPending(o) \/ RetryHeld(o) PROVE Somewhere(a, i)'
    <3>1. /\ UNCHANGED channel
          /\ \/ UNCHANGED retained
             \/ /\ retained \in Batches /\ Write(retained, o)
                /\ retained' = IF o = "durable" THEN None ELSE retained
      BY <2>10, RetryCases
    <3>2. UNCHANGED channel => Somewhere(a, i)' \/ Retained(<<a, i>>)
      BY <2>1, <2>5, Zenon DEF Somewhere
    <3>3. CASE UNCHANGED retained
      BY <3>1, <3>2, <3>3 DEF Somewhere, Retained
    <3>4. CASE /\ retained \in Batches /\ Write(retained, o)
               /\ retained' = IF o = "durable" THEN None ELSE retained
      <4>1. o = "durable" => retained.event \in Recorded(store')
        BY <3>4, WriteStep DEF DrainTypes
      <4> QED BY <3>1, <3>2, <3>4, <4>1 DEF Somewhere, Retained
    <3> QED BY <3>1, <3>3, <3>4
  <2>11. ~DropOnOverflow
    BY DropCases
  <2>12. CASE UNCHANGED <<channel, retained>>
    <3>1. Somewhere(a, i)' \/ Retained(<<a, i>>)
      BY <2>1, <2>5, <2>12, Zenon DEF Somewhere
    <3> QED BY <2>12, <3>1 DEF Somewhere, Retained
  <2> QED BY <1>3, <2>9, <2>10, <2>11, <2>12, Zenon
       DEF Elsewhere, ControllerEvent, Grow, Replace, vars, collector
<1> QED BY <1>1, <1>2, <1>3, NextCases

-----------------------------------------------------------------------------
(* Barriers.                                                               *)

LEMMA ItemEvents == \A item \in Item : item.event # None
BY NoneApart DEF Item

\* The drain the worker waits for keeps its goalposts.
LEMMA HeldKept ==
    ASSUME DrainTypes, BarrierKept, LogsAge, [Next]_vars, held # None,
           UNCHANGED <<tail, manifest, held, deferred, pc>>, spent.passed \subseteq spent'.passed
    PROVE  /\ pc' = "idle" /\ deferred' = <<>> /\ manifest'[ProviderOfDrain(held')] = held'
           /\ \A a \in DOMAIN held' : ReadThrough(a)'
<1>1. /\ pc = "idle" /\ deferred = <<>> /\ manifest[ProviderOfDrain(held)] = held
      /\ \A a \in DOMAIN held : ReadThrough(a)
  BY DEF BarrierKept
<1>2. held \in Frozen
  BY DEF DrainTypes, WorkerTypes
<1>3. \A a \in DOMAIN held : a \in Artifacts
  BY <1>2, FrozenOf
<1>4. ASSUME NEW a \in DOMAIN held PROVE ReadThrough(a)'
  BY <1>1, <1>3, ReadThroughKept
<1> QED BY <1>1, <1>4

LEMMA AppendKeeps ==
    ASSUME NEW S, NEW s \in Seq(S), NEW x \in S, NEW t, t = Append(s, x)
    PROVE  \A k \in DOMAIN t : (k \in DOMAIN s /\ t[k] = s[k]) \/ (k = Len(t) /\ t[k] = x)
<1>1. /\ t \in Seq(S) /\ Len(t) = Len(s) + 1 /\ Len(s) \in Nat
      /\ t[Len(s) + 1] = x /\ \A k \in 1 .. Len(s) : t[k] = s[k]
  BY AppendRange
<1>2. DOMAIN t = 1 .. Len(t) /\ DOMAIN s = 1 .. Len(s)
  BY <1>1
<1>3. \A k \in 1 .. Len(t) : k \in 1 .. Len(s) \/ k = Len(t)
  BY <1>1
<1>4. t[Len(t)] = x
  BY <1>1
<1>5. ASSUME NEW k \in DOMAIN t PROVE (k \in DOMAIN s /\ t[k] = s[k]) \/ (k = Len(t) /\ t[k] = x)
  <2>1. k \in 1 .. Len(s) \/ k = Len(t)
    BY <1>2, <1>3
  <2>2. CASE k \in 1 .. Len(s)
    BY <1>1, <1>2, <2>2, Zenon
  <2>3. CASE k = Len(t)
    BY <1>4, <2>3
  <2> QED BY <2>1, <2>2, <2>3
<1> QED BY <1>5

LEMMA BarrierByWorker ==
    ASSUME DrainTypes, DrainTypes', DrainsAdvance, VisitKept, BarrierKept, LogsAge, BehindKept, Worker
    PROVE  BarrierKept'
<1>0. [Next]_vars
  BY DEF Next
<1>1. UNCHANGED <<retained, holding, acked>> /\ spent.passed \subseteq spent'.passed
  BY WorkerSpares DEF DrainTypes
<1>2. \A k \in DOMAIN channel : channel[k] \in Range(channel)
  BY DEF Range
<1>3. CASE Flush
  <2>1. /\ UNCHANGED <<tail, manifest, held, deferred, pc>>
        /\ lane # <<>> \/ barrier # None
    BY <1>3, FlushCases
  <2>2. holding = None /\ \A k \in DOMAIN channel : channel[k].event # None
    BY <2>1 DEF BarrierKept
  <2>3. held # None => /\ pc' = "idle" /\ deferred' = <<>> /\ manifest'[ProviderOfDrain(held')] = held'
                       /\ \A a \in DOMAIN held' : ReadThrough(a)'
    BY <1>0, <1>1, <2>1, HeldKept
  <2>4. channel \in Seq(Item \cup BarrierItem)
    BY DEF DrainTypes, WorkerTypes
  <2>6. CASE lane # <<>> /\ UNCHANGED barrier /\ channel' = Append(channel, Head(lane)) /\ Head(lane) \in Item
    <3>1. \A k \in DOMAIN channel' : channel'[k].event # None
      <4> DEFINE x == Head(lane)
      <4>1. x \in Item \cup BarrierItem /\ x.event # None
        BY <2>6, ItemEvents
      <4>2. channel' = Append(channel, x)
        BY <2>6
      <4> HIDE DEF x
      <4>3. \A k \in DOMAIN channel' : (k \in DOMAIN channel /\ channel'[k] = channel[k]) \/ channel'[k] = x
        BY <2>4, <4>1, <4>2, AppendKeeps
      <4> QED BY <2>2, <4>1, <4>3
    <3>2. barrier' # None => held' = barrier' /\ held' \notin acked'
      BY <1>1, <2>1, <2>6 DEF BarrierKept
    <3> QED BY <1>1, <2>1, <2>2, <2>3, <3>1, <3>2 DEF BarrierKept
  <2>7. ASSUME NEW b, lane = <<>>, barrier # None, barrier' = None, UNCHANGED lane,
               b \in BarrierItem, b.origin = barrier, channel' = Append(channel, b)
        PROVE  BarrierKept'
    <3>1. held' = barrier /\ held' \notin acked'
      BY <1>1, <2>1, <2>7 DEF BarrierKept
    <3>2. \A k \in DOMAIN channel' : channel'[k].event = None => k = Len(channel') /\ channel'[k] = b
      <4>1. b \in Item \cup BarrierItem
        BY <2>7
      <4>2. channel' = Append(channel, b)
        BY <2>7
      <4>3. \A k \in DOMAIN channel' : (k \in DOMAIN channel /\ channel'[k] = channel[k])
                                         \/ (k = Len(channel') /\ channel'[k] = b)
        BY <2>4, <4>1, <4>2, AppendKeeps
      <4> QED BY <2>2, <4>3
    <3>3. \A k \in DOMAIN channel' : channel'[k].event = None =>
             /\ k = Len(channel') /\ held' = channel'[k].origin /\ held' \notin acked'
             /\ barrier' = None /\ lane' = <<>>
      BY <2>7, <3>1, <3>2
    <3> QED BY <1>1, <2>1, <2>2, <2>3, <2>7, <3>3 DEF BarrierKept
  <2> QED BY <1>3, <2>6, <2>7, FlushCases
<1>4. ASSUME held' = None, barrier' = None, holding = None, UNCHANGED channel,
             \A item \in Range(channel) : item.event # None
      PROVE  BarrierKept'
  BY <1>1, <1>2, <1>4 DEF BarrierKept
<1>5. CASE StartCycle
  <2>1. /\ UNCHANGED <<channel, barrier>> /\ barrier = None /\ held' = None
        /\ held # None => held \in acked
    BY <1>5, StartCycleCases
  <2>2. holding = None
    BY <2>1, NoneApart DEF BarrierKept, DrainTypes, CollectorTypes
  <2>3. ASSUME NEW item \in Range(channel) PROVE item.event # None
    <3>1. PICK k \in DOMAIN channel : item = channel[k]
      BY DEF Range
    <3>2. item \in Item \cup BarrierItem
      BY <3>1, QueueTypes, Zenon
    <3>3. item.event = None => held = item.origin /\ held \notin acked /\ item.origin \in Frozen
      BY <3>1, <3>2, ItemKinds DEF BarrierKept
    <3> QED BY <2>1, <3>3, NoneApart
  <2> QED BY <1>4, <2>1, <2>2, <2>3
<1>6. CASE pc # "idle" /\ UNCHANGED <<held, barrier, channel>>
  <2>1. /\ held = None /\ barrier = None /\ holding = None
        /\ \A item \in Range(channel) : item.event # None
    BY <1>6, NoBarrierInCycle
  <2> QED BY <1>4, <1>6, <2>1
<1>7. CASE Finish
  <2>1. /\ pc = "visit" /\ at = Len(Work) + 1 /\ pc' = "idle"
        /\ UNCHANGED <<tail, manifest, deferred, lane, channel>>
        /\ UNCHANGED file
        /\ EnqueueHistoryBarrier
    BY <1>7, Zenon DEF Finish
  <2>2. /\ held = None /\ barrier = None /\ holding = None
        /\ \A item \in Range(channel) : item.event # None
    BY <2>1, NoBarrierInCycle
  <2>3. CASE UNCHANGED <<barrier, held>>
    BY <1>4, <2>1, <2>2, <2>3
  <2>4. ASSUME NEW p \in ProviderSet, manifest[p] # None, barrier' = manifest[p], held' = manifest[p]
        PROVE  BarrierKept'
    <3> DEFINE d == manifest[p]
    <3>1. d \in Frozen /\ d \in FrozenBy(p) /\ p \notin completed \cup failed
      BY <2>4 DEF DrainTypes, WorkerTypes, DrainsAdvance
    <3>2. /\ DOMAIN d = LogsOf(p) /\ ProviderOfDrain(d) = p
          /\ \A a \in DOMAIN d : a \in Artifacts /\ ProviderOf[a] = p
      <4>1. d \in FrozenBy(ProviderOfDrain(d)) /\ DOMAIN d # {}
        BY <3>1, FrozenOf
      <4>2. LogsOf(p) # {}
        BY <3>1, <4>1 DEF FrozenBy
      <4> QED BY <3>1, <4>2, FrozenFacts
    <3>3. d \notin acked
      BY <2>2, <2>4, <3>1, <3>2 DEF DrainsAdvance
    <3>4. deferred = <<>>
      BY <2>1 DEF VisitKept
    <3>5. ASSUME NEW a \in DOMAIN d PROVE ReadThrough(a)'
      <4>1. a \in Artifacts
        BY <3>2
      <4>2. PICK k \in 1 .. Len(Work) : Work[k] = a
        BY <4>1, Constants
      <4>3. k \in Behind
        BY <2>1, Constants DEF Behind
      <4>4. ReadThrough(a)
        BY <4>2, <4>3 DEF BehindKept
      <4> QED BY <1>0, <1>1, <2>1, <4>1, <4>4, ReadThroughKept
    <3> QED BY <1>1, <1>2, <2>1, <2>2, <2>4, <3>2, <3>3, <3>4, <3>5 DEF BarrierKept
  <2> QED BY <2>1, <2>3, <2>4, FinishBarrier
<1>8. CASE DrainRecord
  <2>1. UNCHANGED <<held, barrier, channel>> /\ pc # "idle"
    BY <1>8, DrainRecordCases
  <2> QED BY <1>6, <2>1
<1>9. CASE Freeze \/ Visit \/ Poll \/ Rotated
  <2>1. UNCHANGED <<held, barrier, channel>> /\ pc # "idle"
    BY <1>9, Zenon DEF Freeze, Visit, Poll, Rotated
  <2> QED BY <1>6, <2>1
<1> QED BY <1>3, <1>5, <1>7, <1>8, <1>9, Zenon DEF Worker

\* The barriers in the channel move up when its head is taken.
LEMMA TailKeeps ==
    ASSUME NEW S, NEW s \in Seq(S), s # <<>>, NEW t, t = Tail(s)
    PROVE  \A k \in DOMAIN t : /\ k + 1 \in DOMAIN s /\ t[k] = s[k + 1]
                               /\ k + 1 = Len(s) => k = Len(t)
<1>1. /\ Tail(s) \in Seq(S) /\ Len(s) \in Nat \ {0} /\ Len(Tail(s)) = Len(s) - 1
      /\ \A k \in 1 .. Len(Tail(s)) : Tail(s)[k] = s[k + 1]
  BY TailRange
<1>2. DOMAIN t = 1 .. Len(t) /\ DOMAIN s = 1 .. Len(s) /\ Len(t) = Len(s) - 1
  BY <1>1
<1>3. ASSUME NEW k \in DOMAIN t
      PROVE  k + 1 \in DOMAIN s /\ t[k] = s[k + 1] /\ (k + 1 = Len(s) => k = Len(t))
  <2>1. k \in 1 .. Len(t)
    BY <1>2
  <2>2. k + 1 \in 1 .. Len(s) /\ (k + 1 = Len(s) => k = Len(t))
    BY <1>1, <1>2, <2>1
  <2>3. t[k] = s[k + 1]
    BY <1>1, <2>1
  <2> QED BY <1>2, <2>2, <2>3
<1> QED BY <1>3

LEMMA BarrierElsewhere ==
    ASSUME DrainTypes, DrainTypes', BarrierKept, LogsAge, Elsewhere
    PROVE  BarrierKept'
<1>0. [Next]_vars
  BY Zenon DEF Elsewhere, Next, Collector
<1>1. /\ UNCHANGED <<tail, manifest, held, deferred, lane, barrier, pc>>
      /\ spent.passed \subseteq spent'.passed
      /\ channel' = channel \/ (channel # <<>> /\ channel' = Tail(channel))
  BY ElsewhereCases DEF Spared
<1>2. held # None => /\ pc' = "idle" /\ deferred' = <<>> /\ manifest'[ProviderOfDrain(held')] = held'
                     /\ \A a \in DOMAIN held' : ReadThrough(a)'
  BY <1>0, <1>1, HeldKept
<1>3. \A k \in DOMAIN channel' : channel'[k].event = None =>
          /\ k = Len(channel') /\ held = channel'[k].origin /\ held \notin acked
          /\ barrier = None /\ lane = <<>>
  <2>1. CASE channel' = channel
    BY <2>1 DEF BarrierKept
  <2>2. CASE channel # <<>> /\ channel' = Tail(channel)
    <3>1. \A k \in DOMAIN channel' : /\ k + 1 \in DOMAIN channel /\ channel'[k] = channel[k + 1]
                                     /\ k + 1 = Len(channel) => k = Len(channel')
      BY <2>2, QueueTypes, TailKeeps
    <3> QED BY <3>1 DEF BarrierKept
  <2> QED BY <1>1, <2>1, <2>2
<1>4. CASE UNCHANGED <<holding, acked>> /\ (holding # None => retained' = retained /\ channel' = <<>>)
  BY <1>1, <1>2, <1>3, <1>4 DEF BarrierKept
<1>5. ASSUME NEW o \in Outcomes, held \in Frozen, held \notin acked, FinalizeHeld(held, o),
             retained' = None, barrier = None, lane = <<>>, channel' = <<>>
      PROVE  BarrierKept'
  <2>1. \/ acked' = acked \cup {held} /\ holding' = None
        \/ acked' = acked /\ holding' = held
    BY <1>5, FinalizeHeldStep DEF DrainTypes
  <2>2. DOMAIN channel' = {}
    BY <1>5
  <2> QED BY <1>1, <1>2, <1>5, <2>1, <2>2 DEF BarrierKept
<1>6. ASSUME NEW o \in Outcomes, Receive(o) PROVE BarrierKept'
  <2> DEFINE item == Head(channel)
  <2>1. /\ retained = None /\ channel # <<>> /\ channel' = Tail(channel)
        /\ \/ /\ item.event = None
              /\ FinalizeHeld(IF holding = None THEN item.origin ELSE holding, o)
              /\ UNCHANGED retained
           \/ UNCHANGED <<holding, acked>>
    BY <1>6, ReceiveCases DEF DrainTypes
  <2>2. CASE /\ item.event = None
             /\ FinalizeHeld(IF holding = None THEN item.origin ELSE holding, o)
             /\ UNCHANGED retained
    <3>1. /\ held = item.origin /\ held \in Frozen /\ held \notin acked
          /\ holding = None /\ barrier = None /\ lane = <<>> /\ Tail(channel) = <<>>
      BY <2>1, <2>2, BarrierAtHead
    <3>2. FinalizeHeld(held, o)
      <4> HIDE DEF item
      <4> QED BY <2>2, <3>1
    <3> QED BY <1>5, <2>1, <2>2, <3>1, <3>2
  <2>3. CASE UNCHANGED <<holding, acked>>
    <3>1. holding = None
      BY <2>1 DEF BarrierKept
    <3> QED BY <1>4, <2>3, <3>1
  <2> QED BY <2>1, <2>2, <2>3
<1>7. ASSUME NEW o \in Outcomes, RetryPending(o) \/ RetryHeld(o) PROVE BarrierKept'
  <2>1. /\ UNCHANGED channel
        /\ \/ retained \in Batches /\ UNCHANGED <<holding, acked>>
           \/ /\ retained = None /\ holding \in Frozen /\ FinalizeHeld(holding, o)
              /\ UNCHANGED retained
    BY <1>7, RetryCases
  <2>2. CASE retained \in Batches /\ UNCHANGED <<holding, acked>>
    <3>1. holding = None
      BY <2>2, NoneApart DEF BarrierKept
    <3> QED BY <1>4, <2>2, <3>1
  <2>3. CASE retained = None /\ holding \in Frozen /\ FinalizeHeld(holding, o) /\ UNCHANGED retained
    <3>1. /\ held = holding /\ held \notin acked /\ barrier = None /\ lane = <<>> /\ channel = <<>>
      BY <2>3, NoneApart DEF BarrierKept
    <3> QED BY <1>5, <2>1, <2>3, <3>1
  <2> QED BY <2>1, <2>2, <2>3
<1>8. CASE DropOnOverflow
  <2>1. UNCHANGED <<holding, acked>> /\ channel # <<>>
    BY <1>8, DropCases
  <2>2. holding = None
    BY <2>1 DEF BarrierKept
  <2> QED BY <1>4, <2>1, <2>2
<1>9. CASE UNCHANGED <<holding, acked, retained, channel>>
  <2>1. holding # None => channel = <<>>
    BY DEF BarrierKept
  <2> QED BY <1>4, <1>9, <2>1
<1>10. ASSUME NEW r \in Runs, ControllerEvent(r) PROVE BarrierKept'
  BY <1>9, <1>10, ControllerEventCases
<1>11. ASSUME NEW b \in Artifacts, Grow(b) \/ Replace(b) PROVE BarrierKept'
  BY <1>9, <1>11, LogCases
<1>12. CASE UNCHANGED vars
  BY <1>9, <1>12, Zenon DEF vars, collector
<1> QED BY <1>6, <1>7, <1>8, <1>10, <1>11, <1>12, Zenon DEF Elsewhere

LEMMA BarrierKeptKept ==
    ASSUME DrainTypes, DrainTypes', DrainsAdvance, VisitKept, BarrierKept, LogsAge, BehindKept,
           [Next]_vars
    PROVE  BarrierKept'
<1>1. CASE Restart
  <2>1. held' = None /\ barrier' = None /\ holding' = None /\ channel' = <<>>
    BY <1>1, RestartCases
  <2>2. DOMAIN channel' = {}
    BY <2>1
  <2> QED BY <2>1, <2>2 DEF BarrierKept
<1> QED BY <1>1, BarrierByWorker, BarrierElsewhere, NextCases

\* The barrier of the drain the worker waits for is somewhere, unless an overflow took it.
LEMMA BarrierAccountedKept ==
    ASSUME DrainTypes, DrainTypes', VisitKept, BarrierKept, BarrierAccounted, [Next]_vars
    PROVE  BarrierAccounted'
<1>1. spent.overflows \in Nat /\ spent'.overflows \in Nat
  BY DEF DrainTypes, SpentTypes
<1>2. CASE held' = None
  BY <1>2 DEF BarrierAccounted, NoBarrierLost
<1>3. CASE Restart
  BY <1>2, <1>3, RestartCases
<1>4. spent.overflows <= spent'.overflows
  <2>1. CASE Worker
    BY <1>1, <2>1, WorkerSpares DEF DrainTypes
  <2>2. CASE Elsewhere
    BY <2>2, ElsewhereCases DEF Spared
  <2>3. CASE Restart
    BY <1>1, <2>3, RestartCases
  <2> QED BY <2>1, <2>2, <2>3, NextCases
<1>5. CASE spent.overflows > 0
  BY <1>1, <1>4, <1>5 DEF BarrierAccounted
<1>6. ASSUME held # None, UNCHANGED held, ~(spent.overflows > 0)
      PROVE  \/ held \in acked \/ barrier = held \/ holding = held
             \/ \E k \in DOMAIN channel : channel[k].event = None /\ channel[k].origin = held
  BY <1>6 DEF BarrierAccounted, NoBarrierLost
<1>7. CASE UNCHANGED <<held, barrier, channel, holding, acked>>
  BY <1>2, <1>5, <1>6, <1>7 DEF BarrierAccounted, NoBarrierLost
<1>8. CASE Worker
  <2>1. UNCHANGED <<holding, acked>>
    BY <1>8, WorkerSpares DEF DrainTypes
  <2>2. CASE Flush
    <3>1. UNCHANGED held /\ channel \in Seq(Item \cup BarrierItem)
      BY <2>2, FlushCases DEF DrainTypes, WorkerTypes
    <3>2. ASSUME NEW x \in Item \cup BarrierItem, channel' = Append(channel, x)
          PROVE  /\ channel'[Len(channel')] = x /\ Len(channel') \in DOMAIN channel'
                 /\ \A k \in DOMAIN channel : k \in DOMAIN channel' /\ channel'[k] = channel[k]
      <4>1. /\ Append(channel, x) \in Seq(Item \cup BarrierItem)
            /\ Len(Append(channel, x)) = Len(channel) + 1
            /\ Append(channel, x)[Len(channel) + 1] = x
            /\ \A k \in 1 .. Len(channel) : Append(channel, x)[k] = channel[k]
            /\ Len(channel) \in Nat /\ DOMAIN channel = 1 .. Len(channel)
            /\ DOMAIN Append(channel, x) = 1 .. Len(Append(channel, x))
        BY <3>1, AppendRange
      <4> QED BY <3>2, <4>1
    <3>3. CASE UNCHANGED barrier /\ channel' = Append(channel, Head(lane)) /\ Head(lane) \in Item
      <4>1. \A k \in DOMAIN channel : k \in DOMAIN channel' /\ channel'[k] = channel[k]
        BY <3>2, <3>3
      <4> QED BY <1>2, <1>5, <1>6, <2>1, <3>1, <3>3, <4>1 DEF BarrierAccounted, NoBarrierLost
    <3>4. ASSUME NEW b, barrier # None, barrier' = None, b \in BarrierItem, b.event = None,
                 b.origin = barrier, channel' = Append(channel, b)
          PROVE  BarrierAccounted'
      <4>1. channel'[Len(channel')] = b /\ Len(channel') \in DOMAIN channel'
        BY <3>2, <3>4
      <4>2. held' = barrier
        BY <3>1, <3>4 DEF BarrierKept
      <4>3. \E k \in DOMAIN channel' : channel'[k].event = None /\ channel'[k].origin = held'
        BY <3>4, <4>1, <4>2
      <4> QED BY <4>3 DEF BarrierAccounted, NoBarrierLost
    <3> QED BY <2>2, <3>3, <3>4, FlushCases
  <2>3. CASE StartCycle
    BY <1>2, <2>3, StartCycleCases
  <2>4. CASE Finish
    <3>1. UNCHANGED channel /\ EnqueueHistoryBarrier
      BY <2>4, Zenon DEF Finish
    <3>2. CASE UNCHANGED <<barrier, held>>
      BY <1>7, <2>1, <3>1, <3>2
    <3>3. CASE barrier' = held'
      BY <3>3 DEF BarrierAccounted, NoBarrierLost
    <3> QED BY <3>1, <3>2, <3>3, FinishBarrier
  <2>5. CASE UNCHANGED <<held, barrier, channel>>
    BY <1>7, <2>1, <2>5
  <2>6. CASE DrainRecord
    BY <2>5, <2>6, DrainRecordCases
  <2> QED BY <1>8, <2>2, <2>3, <2>4, <2>5, <2>6, Zenon DEF Worker, Freeze, Visit, Poll, Rotated
<1>9. CASE Elsewhere
  <2>1. UNCHANGED <<held, barrier>>
    BY <1>9, ElsewhereCases DEF Spared
  <2>2. ASSUME NEW o \in Outcomes, held \in Frozen, FinalizeHeld(held, o) PROVE BarrierAccounted'
    <3>1. held' \in acked' \/ holding' = held'
      BY <2>1, <2>2, FinalizeHeldStep DEF DrainTypes
    <3> QED BY <3>1 DEF BarrierAccounted, NoBarrierLost
  <2>3. ASSUME NEW o \in Outcomes, Receive(o) PROVE BarrierAccounted'
    <3> DEFINE item == Head(channel)
    <3>1. /\ channel # <<>> /\ channel' = Tail(channel)
          /\ \/ /\ item.event = None
                /\ FinalizeHeld(IF holding = None THEN item.origin ELSE holding, o)
             \/ item \in Item /\ UNCHANGED <<holding, acked>>
      BY <2>3, ReceiveCases DEF DrainTypes
    <3>2. CASE /\ item.event = None
               /\ FinalizeHeld(IF holding = None THEN item.origin ELSE holding, o)
      <4>1. held = item.origin /\ held \in Frozen /\ holding = None
        BY <3>1, <3>2, BarrierAtHead
      <4>2. FinalizeHeld(held, o)
        <5> HIDE DEF item
        <5> QED BY <3>2, <4>1
      <4> QED BY <2>2, <4>1, <4>2
    <3>3. CASE item \in Item /\ UNCHANGED <<holding, acked>>
      <4>1. item.event # None
        BY <3>3, ItemEvents
      <4>2. ASSUME NEW k \in DOMAIN channel, channel[k].event = None
            PROVE  \E j \in DOMAIN channel' : channel'[j] = channel[k]
        <5>1. /\ Len(Tail(channel)) = Len(channel) - 1 /\ Len(channel) \in Nat \ {0}
              /\ item = channel[1] /\ Tail(channel) \in Seq(Item \cup BarrierItem)
              /\ \A j \in 1 .. Len(Tail(channel)) : Tail(channel)[j] = channel[j + 1]
          BY <3>1, TailRange DEF DrainTypes, WorkerTypes
        <5>2. k \in 2 .. Len(channel)
          <6>1. channel \in Seq(Item \cup BarrierItem) /\ k # 1
            BY <4>1, <4>2, <5>1 DEF DrainTypes, WorkerTypes
          <6> QED BY <5>1, <6>1
        <5>3. k - 1 \in 1 .. Len(Tail(channel)) /\ Tail(channel)[k - 1] = channel[k]
          BY <5>1, <5>2
        <5>4. k - 1 \in DOMAIN channel' /\ channel'[k - 1] = channel[k]
          BY <3>1, <5>1, <5>3
        <5> QED BY <5>4
      <4> QED BY <1>2, <1>5, <1>6, <2>1, <3>3, <4>2 DEF BarrierAccounted, NoBarrierLost
    <3> QED BY <3>1, <3>2, <3>3
  <2>4. ASSUME NEW o \in Outcomes, RetryPending(o) \/ RetryHeld(o) PROVE BarrierAccounted'
    <3>1. /\ UNCHANGED channel
          /\ UNCHANGED <<holding, acked>> \/ (holding \in Frozen /\ FinalizeHeld(holding, o))
      BY <2>4, RetryCases
    <3>2. CASE holding \in Frozen /\ FinalizeHeld(holding, o)
      <4>1. held = holding
        BY <3>2, NoneApart DEF BarrierKept
      <4> QED BY <2>2, <3>2, <4>1
    <3> QED BY <1>7, <2>1, <3>1, <3>2
  <2>5. CASE DropOnOverflow
    BY <2>5, DropCases DEF BarrierAccounted
  <2>6. ASSUME NEW r \in Runs, ControllerEvent(r) PROVE BarrierAccounted'
    BY <1>7, <2>6, ControllerEventCases
  <2>7. ASSUME NEW b \in Artifacts, Grow(b) \/ Replace(b) PROVE BarrierAccounted'
    BY <1>7, <2>7, LogCases
  <2>8. CASE UNCHANGED vars
    BY <1>7, <2>8, Zenon DEF vars, worker, collector
  <2> QED BY <1>9, <2>3, <2>4, <2>5, <2>6, <2>7, <2>8, Zenon DEF Elsewhere
<1> QED BY <1>3, <1>8, <1>9, NextCases

-----------------------------------------------------------------------------
(* A finalized drain attests that its logs were drained.                   *)

\* With no overflow, all that lies below the goalposts of the drain whose barrier reaches the
\* store, and was not passed over, is in the ledger.
LEMMA HeldIsRecorded ==
    ASSUME DrainTypes, BarrierKept, Unlost, spent.overflows = 0, held \in Frozen,
           retained = None, lane = <<>>, \A item \in Range(channel) : item.event = None,
           NEW a \in DOMAIN held, file[a].gen = held[a].gen, <<held, a>> \notin spent.passed,
           NEW i \in 1 .. held[a].goal
    PROVE  <<a, i>> \in Recorded(store)
<1>1. /\ deferred = <<>> /\ manifest[ProviderOfDrain(held)] = held /\ ReadThrough(a)
  BY NoneApart DEF BarrierKept
<1>2. a \in Artifacts /\ ProviderOf[a] = ProviderOfDrain(held) /\ held[a].goal \in Nat
  BY FrozenOf
<1>3. held # None
  BY NoneApart
<1>4. manifest[ProviderOf[a]] = held
  BY <1>1, <1>2
<1>5. tail[a] # None /\ tail[a].off >= held[a].goal
  BY <1>1, <1>3, <1>4 DEF ReadThrough
<1>6. tail[a].off \in Nat
  BY <1>2, <1>5, Bounds DEF DrainTypes, WorkerTypes
<1>7. Somewhere(a, i)
  BY <1>2, <1>3, <1>4 DEF Unlost
<1>8. ~(i > tail[a].off)
  BY <1>2, <1>5, <1>6
<1>9. i \in 1 .. MaxLen
  <2>1. tail[a].off <= MaxLen
    BY <1>2, <1>5, Bounds DEF DrainTypes, WorkerTypes
  <2> QED BY <1>2, <1>6, <1>8, <2>1, Bounds
<1>10. <<a, i>> # None
  BY <1>2, <1>9, NoneApart DEF RecordIds
<1>11. Range(deferred) = {} /\ Range(lane) = {}
  BY <1>1, EmptyRange
<1> QED BY <1>5, <1>7, <1>8, <1>10, <1>11 DEF Somewhere, Retained

\* The finalization of the drain the worker waits for.
LEMMA FinalizationAttests ==
    ASSUME DrainTypes, DrainTypes', BarrierKept, Unlost, FinalizedCoversManifest, held \in Frozen,
           retained = None, lane = <<>>, \A item \in Range(channel) : item.event = None,
           NEW o \in Outcomes, FinalizeHeld(held, o), UNCHANGED file,
           spent'.overflows = spent.overflows, spent'.passed = spent.passed
    PROVE  FinalizedCoversManifest'
<1>1. /\ store'.ledger = store.ledger
      /\ \A x \in DOMAIN store.drains : store.drains[x].final => store'.drains[x].final
      /\ DOMAIN store.drains \subseteq DOMAIN store'.drains
      /\ \A x \in DOMAIN store'.drains : store'.drains[x].final =>
            \/ x = held
            \/ x \in DOMAIN store.drains /\ store.drains[x].final
            \/ Covers(held, x) /\ held \in DOMAIN store'.drains /\ store'.drains[held].final
  BY FinalizeHeldStep DEF DrainTypes
<1>2. Recorded(store') = Recorded(store)
  BY <1>1 DEF Recorded
<1> SUFFICES ASSUME NEW x \in DOMAIN store'.drains, store'.drains[x].final, spent'.overflows = 0,
                    NEW a \in DOMAIN x, file'[a].gen = x[a].gen, ~PassedOver(x, a)',
                    NEW i \in 1 .. x[a].goal
             PROVE  <<a, i>> \in Recorded(store')
  BY DEF FinalizedCoversManifest
<1>3. CASE x \in DOMAIN store.drains /\ store.drains[x].final
  <2>1. ~PassedOver(x, a)
    BY <1>1 DEF PassedOver
  <2> QED BY <1>2, <1>3, <2>1 DEF FinalizedCoversManifest
<1>4. CASE Covers(held, x) /\ held \in DOMAIN store'.drains /\ store'.drains[held].final
  <2>1. <<held, a>> \notin spent.passed
    BY <1>4 DEF PassedOver
  <2>2. a \in DOMAIN held /\ held[a].gen = x[a].gen /\ held[a].goal >= x[a].goal
    BY <1>4 DEF Covers
  <2>3. held[a].goal \in Nat
    BY <2>2, FrozenOf
  <2>4. x[a].goal \in Nat
    <3>1. x \in Frozen
      BY DEF DrainTypes, StoreTypes, IsStore, AreDrains
    <3> QED BY <3>1, FrozenOf
  <2> QED BY <1>2, <2>1, <2>2, <2>3, <2>4, HeldIsRecorded
<1>5. CASE x = held
  <2>1. Covers(held, held)
    BY FrozenOf DEF Covers
  <2>2. <<held, a>> \notin spent.passed
    BY <1>5, <2>1 DEF PassedOver
  <2> QED BY <1>2, <1>5, <2>2, HeldIsRecorded
<1> QED BY <1>1, <1>3, <1>4, <1>5

\* Steps that finalize no drain.
LEMMA AttestationsStand ==
    ASSUME DrainTypes, DrainTypes', LogsAge, BarrierKept, FinalizedCoversManifest, [Next]_vars,
           Recorded(store) \subseteq Recorded(store'),
           spent.passed \subseteq spent'.passed, spent.overflows <= spent'.overflows,
           \A x \in DOMAIN store.drains : x \in DOMAIN store'.drains /\ store'.drains[x] = store.drains[x],
           \A x \in DOMAIN store'.drains : store'.drains[x].final => x \in DOMAIN store.drains
    PROVE  FinalizedCoversManifest'
<1> SUFFICES ASSUME NEW x \in DOMAIN store'.drains, store'.drains[x].final, spent'.overflows = 0,
                    NEW a \in DOMAIN x, file'[a].gen = x[a].gen, ~PassedOver(x, a)',
                    NEW i \in 1 .. x[a].goal
             PROVE  <<a, i>> \in Recorded(store')
  BY DEF FinalizedCoversManifest
<1>1. x \in DOMAIN store.drains /\ store.drains[x].final
  OBVIOUS
<1>2. spent.overflows = 0
  <2>1. spent.overflows \in Nat
    BY DEF DrainTypes, SpentTypes
  <2> QED BY <2>1
<1>3. ~PassedOver(x, a)
  BY DEF PassedOver
<1>4. file[a].gen = x[a].gen
  <2>1. x \in Frozen /\ Aged(x)
    BY <1>1 DEF LogsAge, DrainTypes, StoreTypes, IsStore, AreDrains
  <2>2. x # None /\ a \in Artifacts /\ x[a].gen \in Nat
    BY <2>1, FrozenOf, NoneApart
  <2>3. x[a].gen <= file[a].gen
    BY <2>1, <2>2 DEF Aged, AgedBy
  <2>4. file[a].gen \in Nat /\ file'[a].gen >= file[a].gen
    BY <2>2, FilesAge
  <2> QED BY <2>2, <2>3, <2>4
<1> QED BY <1>1, <1>2, <1>3, <1>4 DEF FinalizedCoversManifest

LEMMA FinalizedKept ==
    ASSUME DrainTypes, DrainTypes', LogsAge, BarrierKept, Unlost, FinalizedCoversManifest, [Next]_vars
    PROVE  FinalizedCoversManifest'
<1>1. CASE UNCHANGED store /\ spent.passed \subseteq spent'.passed /\ spent.overflows <= spent'.overflows
  <2>1. \A x \in DOMAIN store.drains : x \in DOMAIN store'.drains /\ store'.drains[x] = store.drains[x]
    BY <1>1
  <2>2. \A x \in DOMAIN store'.drains : store'.drains[x].final => x \in DOMAIN store.drains
    BY <1>1
  <2>3. Recorded(store) \subseteq Recorded(store')
    BY <1>1
  <2> QED BY <1>1, <2>1, <2>2, <2>3, AttestationsStand
<1>2. spent.overflows \in Nat
  BY DEF DrainTypes, SpentTypes
<1>3. CASE Worker
  BY <1>1, <1>2, <1>3, WorkerSpares DEF DrainTypes
<1>4. CASE Restart
  BY <1>1, <1>2, <1>4, RestartCases
<1>5. CASE Elsewhere
  <2>1. /\ spent'.passed = spent.passed /\ spent.overflows <= spent'.overflows
        /\ Recorded(store) \subseteq Recorded(store')
    BY <1>5, ElsewhereCases DEF Spared
  <2>2. ASSUME NEW D, Writes(store, store', D) PROVE FinalizedCoversManifest'
    <3>1. \A x \in DOMAIN store.drains : x \in DOMAIN store'.drains /\ store'.drains[x] = store.drains[x]
      BY <2>2 DEF Writes
    <3>2. \A x \in DOMAIN store'.drains : store'.drains[x].final => x \in DOMAIN store.drains
      BY <2>2 DEF Writes
    <3> QED BY <2>1, <3>1, <3>2, AttestationsStand
  <2>3. ASSUME NEW o \in Outcomes, Receive(o) PROVE FinalizedCoversManifest'
    <3> DEFINE item == Head(channel)
    <3>1. /\ retained = None /\ channel # <<>> /\ UNCHANGED file
          /\ spent'.overflows = spent.overflows
          /\ \/ /\ item.event = None
                /\ FinalizeHeld(IF holding = None THEN item.origin ELSE holding, o)
             \/ UNCHANGED store
             \/ BatchOf(item) \in Batches /\ Write(BatchOf(item), o)
      BY <2>3, ReceiveCases DEF DrainTypes
    <3>2. CASE /\ item.event = None
               /\ FinalizeHeld(IF holding = None THEN item.origin ELSE holding, o)
      <4>1. /\ held = item.origin /\ held \in Frozen /\ holding = None /\ lane = <<>>
            /\ Range(channel) = {item}
        BY <3>1, <3>2, BarrierAtHead
      <4> HIDE DEF item
      <4>2. FinalizeHeld(held, o)
        BY <3>2, <4>1
      <4>3. \A x \in Range(channel) : x.event = None
        BY <3>2, <4>1
      <4> QED BY <2>1, <3>1, <4>1, <4>2, <4>3, FinalizationAttests
    <3>3. CASE UNCHANGED store
      BY <1>1, <2>1, <3>3
    <3>4. CASE BatchOf(item) \in Batches /\ Write(BatchOf(item), o)
      <4> HIDE DEF item
      <4>1. Writes(store, store', {BatchOf(item).origin} \ {None})
        BY <3>4, WriteStep DEF DrainTypes
      <4> QED BY <2>2, <4>1
    <3> QED BY <3>1, <3>2, <3>3, <3>4
  <2>4. ASSUME NEW o \in Outcomes, RetryPending(o) \/ RetryHeld(o) PROVE FinalizedCoversManifest'
    <3>1. /\ UNCHANGED file /\ spent'.overflows = spent.overflows
          /\ \/ retained \in Batches /\ Write(retained, o)
             \/ retained = None /\ holding \in Frozen /\ FinalizeHeld(holding, o)
      BY <2>4, RetryCases
    <3>2. CASE retained \in Batches /\ Write(retained, o)
      <4>1. Writes(store, store', {retained.origin} \ {None})
        BY <3>2, WriteStep DEF DrainTypes
      <4> QED BY <2>2, <4>1
    <3>3. CASE retained = None /\ holding \in Frozen /\ FinalizeHeld(holding, o)
      <4>1. held = holding /\ lane = <<>> /\ channel = <<>>
        BY <3>3, NoneApart DEF BarrierKept
      <4>2. \A x \in Range(channel) : x.event = None
        BY <4>1, EmptyRange
      <4> QED BY <2>1, <3>1, <3>3, <4>1, <4>2, FinalizationAttests
    <3> QED BY <3>1, <3>2, <3>3
  <2>5. CASE DropOnOverflow
    BY <1>1, <2>1, <2>5, DropCases
  <2>6. ASSUME NEW r \in Runs, ControllerEvent(r) PROVE FinalizedCoversManifest'
    BY <2>2, <2>6, ControllerEventCases
  <2>7. ASSUME NEW b \in Artifacts, Grow(b) \/ Replace(b) PROVE FinalizedCoversManifest'
    BY <1>1, <2>1, <2>7, LogCases
  <2>8. CASE UNCHANGED vars
    <3>1. UNCHANGED store
      BY <2>8, Zenon DEF vars
    <3> QED BY <1>1, <2>1, <3>1
  <2> QED BY <1>5, <2>3, <2>4, <2>5, <2>6, <2>7, <2>8, Zenon DEF Elsewhere
<1> QED BY <1>3, <1>4, <1>5, NextCases

-----------------------------------------------------------------------------
(* What is shown.  Of a sequence of evidence about a run: whether it may   *)
(* be shown, and whether the database knows of the drains in it.           *)

\* A drain that is known stays known, and final once it is; an association stays.
Grows(s, t) ==
    /\ DOMAIN s.drains \subseteq DOMAIN t.drains /\ s.assoc \subseteq t.assoc
    /\ \A d \in DOMAIN s.drains : s.drains[d].final => t.drains[d].final

\* NoEarlyPublication of one sequence, with f the events that were forgotten.
Sound(s, f, r, seen) ==
    \A k \in DOMAIN seen :
        seen[k][2] # None /\ ~Finalized(s, seen[k][2]) =>
            \/ \E j \in k + 1 .. Len(seen) : IsLive(seen[j])
            \/ \E n \in k .. Len(seen) : <<r, n>> \in f

Associated(s, r, entry) ==
    entry[2] # None => <<entry[2], r>> \in s.assoc /\ entry[2] \in DOMAIN s.drains

Known(s, r, seen) == \A k \in DOMAIN seen : Associated(s, r, seen[k])

LEMMA GrowsKeeps ==
    ASSUME NEW s, NEW t, Grows(s, t), NEW f, NEW g, f \subseteq g, NEW r, NEW seen
    PROVE  /\ Sound(s, f, r, seen) => Sound(t, g, r, seen)
           /\ \A entry : Associated(s, r, entry) => Associated(t, r, entry)
           /\ Known(s, r, seen) => Known(t, r, seen)
<1>1. \A d : Finalized(s, d) => Finalized(t, d)
  BY DEF Grows, Finalized
<1>2. \A entry : Associated(s, r, entry) => Associated(t, r, entry)
  BY DEF Grows, Associated
<1>3. Sound(s, f, r, seen) => Sound(t, g, r, seen)
  <2> SUFFICES ASSUME Sound(s, f, r, seen), NEW k \in DOMAIN seen,
                      seen[k][2] # None, ~Finalized(t, seen[k][2])
               PROVE  \/ \E j \in k + 1 .. Len(seen) : IsLive(seen[j])
                      \/ \E n \in k .. Len(seen) : <<r, n>> \in g
    BY DEF Sound
  <2> QED BY <1>1 DEF Sound
<1> QED BY <1>2, <1>3 DEF Known

LEMMA GrowsSelf == \A s : Grows(s, s)
BY DEF Grows

\* All evidence about a run that no drain blocks may be shown.
LEMMA UnblockedSound ==
    ASSUME NEW s, NEW f, NEW r, NEW seen, Known(s, r, seen), ~Blocked(s, r)
    PROVE  Sound(s, f, r, seen)
<1>1. \A k \in DOMAIN seen : seen[k][2] # None => Finalized(s, seen[k][2])
  BY DEF Known, Associated, Blocked, Finalized
<1> QED BY <1>1 DEF Sound

\* One more entry of the present time; if it is live, whatever came before may be shown.
LEMMA AppendSound ==
    ASSUME NEW s, NEW f, NEW r, NEW seen \in Seq(Entries), NEW entry \in Entries, entry[2] = None,
           IsLive(entry) \/ Sound(s, f, r, seen)
    PROVE  Sound(s, f, r, Append(seen, entry))
<1> DEFINE more == Append(seen, entry)
<1>1. /\ more \in Seq(Entries) /\ Len(more) = Len(seen) + 1 /\ more[Len(seen) + 1] = entry
      /\ \A k \in 1 .. Len(seen) : more[k] = seen[k]
  BY AppendRange
<1>2. Len(seen) \in Nat /\ DOMAIN seen = 1 .. Len(seen) /\ DOMAIN more = 1 .. Len(seen) + 1
  BY <1>1
<1> HIDE DEF more
<1> SUFFICES ASSUME NEW k \in DOMAIN more, more[k][2] # None, ~Finalized(s, more[k][2])
             PROVE  \/ \E j \in k + 1 .. Len(more) : IsLive(more[j])
                    \/ \E n \in k .. Len(more) : <<r, n>> \in f
  BY DEF Sound, more
<1>3. k \in 1 .. Len(seen) /\ more[k] = seen[k]
  BY <1>1, <1>2
<1>4. CASE IsLive(entry)
  <2>1. Len(seen) + 1 \in k + 1 .. Len(more)
    BY <1>1, <1>2, <1>3
  <2> QED BY <1>1, <1>4, <2>1
<1>5. CASE Sound(s, f, r, seen)
  <2>1. \/ \E j \in k + 1 .. Len(seen) : IsLive(seen[j])
        \/ \E n \in k .. Len(seen) : <<r, n>> \in f
    <3>1. /\ k \in DOMAIN seen /\ seen[k][2] # None /\ ~Finalized(s, seen[k][2])
      BY <1>2, <1>3
    <3> QED BY <1>5, <3>1, SMTT(20) DEF Sound
  <2>2. ASSUME NEW j \in k + 1 .. Len(seen), IsLive(seen[j])
        PROVE  j \in k + 1 .. Len(more) /\ IsLive(more[j])
    <3>1. j \in 1 .. Len(seen) /\ j \in k + 1 .. Len(more)
      BY <1>1, <1>2, <1>3
    <3> QED BY <1>1, <2>2, <3>1
  <2>3. \A n \in k .. Len(seen) : n \in k .. Len(more)
    BY <1>1, <1>2, <1>3
  <2> QED BY <2>1, <2>2, <2>3
<1> QED BY <1>4, <1>5

LEMMA AppendKnown ==
    ASSUME NEW s, NEW r, NEW seen \in Seq(Entries), NEW entry \in Entries,
           Known(s, r, seen), Associated(s, r, entry)
    PROVE  Known(s, r, Append(seen, entry))
<1> DEFINE more == Append(seen, entry)
<1>1. /\ more \in Seq(Entries) /\ Len(more) = Len(seen) + 1 /\ more[Len(seen) + 1] = entry
      /\ \A k \in 1 .. Len(seen) : more[k] = seen[k]
  BY AppendRange
<1>2. \A k \in DOMAIN more : k = Len(seen) + 1 \/ (k \in DOMAIN seen /\ more[k] = seen[k])
  <2>1. Len(seen) \in Nat /\ DOMAIN seen = 1 .. Len(seen) /\ DOMAIN more = 1 .. Len(seen) + 1
    BY <1>1
  <2> HIDE DEF more
  <2> QED BY <1>1, <2>1
<1> HIDE DEF more
<1>3. Known(s, r, more)
  BY <1>1, <1>2 DEF Known
<1> QED BY <1>3 DEF more

-----------------------------------------------------------------------------
(* What the transactions do to the rows.                                   *)

\* Every row of t is one of s, with the same evidence, and ready only if it was.
RowKept(s, t, r) ==
    /\ t.rows[r] # None => s.rows[r] # None /\ t.rows[r].seen = s.rows[r].seen
                                           /\ (t.rows[r].ready => s.rows[r].ready)
    /\ t.image[r] \in {s.image[r], None}

LEMMA DemoteRows ==
    ASSUME NEW s, IsStore(s), NEW historical, NEW newly, NEW r \in Runs
    PROVE  LET t == Demote(s, historical, newly)
           IN  /\ RowKept(s, t, r) /\ t.image = s.image
               /\ historical /\ t.rows[r] # None /\ t.rows[r].ready => r \notin newly /\ ~Blocked(s, r)
<1> DEFINE rows == [x \in Runs |->
        IF /\ s.rows[x] # None
           /\ x \in newly \/ Blocked(s, x)
           /\ historical \/ s.image[x] # None
        THEN [s.rows[x] EXCEPT !.ready = FALSE]
        ELSE s.rows[x]]
<1>1. Demote(s, historical, newly) = [s EXCEPT !.rows = rows]
  BY DEF Demote
<1>2. rows[r] = IF s.rows[r] # None /\ (r \in newly \/ Blocked(s, r)) /\ (historical \/ s.image[r] # None)
                THEN [s.rows[r] EXCEPT !.ready = FALSE] ELSE s.rows[r]
  OBVIOUS
<1>3. s.rows[r] # None => s.rows[r] \in Rows
  BY DEF IsStore
<1> HIDE DEF rows
<1>4. [s EXCEPT !.rows = rows].rows = rows /\ [s EXCEPT !.rows = rows].image = s.image
  BY DEF IsStore
<1>5. s.rows[r] # None => LET row == [s.rows[r] EXCEPT !.ready = FALSE]
                          IN  row \in Rows /\ row.seen = s.rows[r].seen /\ ~row.ready
  BY <1>3 DEF Rows
<1>6. \A x \in Rows : x # None
  BY NoneIsNothing
<1> QED BY <1>1, <1>2, <1>4, <1>5, <1>6 DEF RowKept

\* One provider batch that is not recorded yet.
LEMMA BatchRows ==
    ASSUME NEW s, IsStore(s), NEW b \in Batches, NEW now \in Nat, b.event \notin Recorded(s)
    PROVE  LET t == ApplyV6Batch(s, b, now)
           IN  /\ Grows(s, t) /\ Recorded(t) \subseteq Recorded(s) \cup {b.event}
               /\ \A r \in Runs \ {b.run} : RowKept(s, t, r)
               /\ t.rows[b.run] # None => t.rows[b.run].seen = b.seen
               /\ t.image[b.run] \in {s.image[b.run], b.image, None}
               /\ b.origin = None => t.image[b.run] = None
               /\ b.origin # None =>
                    /\ <<b.origin, b.run>> \in t.assoc /\ b.origin \in DOMAIN t.drains
                    /\ t.rows[b.run] # None /\ t.rows[b.run].ready => ~Blocked(t, b.run)
<1> DEFINE historical == b.origin # None
           drained == IF historical THEN UpsertHistoryDrain(s, b.origin, now) ELSE s
           newly == IF historical /\ <<b.origin, b.run>> \notin s.assoc THEN {b.run} ELSE {}
           row == [seen |-> b.seen, ready |-> ~historical \/ ReadyBefore(s, b.run)]
           shown == IF ~historical THEN None
                    ELSE IF drained.image[b.run] = None THEN b.image ELSE drained.image[b.run]
           ledger == drained.ledger \cup {<<b.event, b.origin>>}
           assoc == IF historical THEN drained.assoc \cup {<<b.origin, b.run>>} ELSE drained.assoc
           written == [drained EXCEPT
                      !.ledger = @ \cup {<<b.event, b.origin>>},
                      !.rows[b.run] = [seen |-> b.seen,
                                       ready |-> ~historical \/ ReadyBefore(s, b.run)],
                      !.image[b.run] = IF ~historical THEN None
                                       ELSE IF @ = None THEN b.image ELSE @,
                      !.assoc = IF historical THEN @ \cup {<<b.origin, b.run>>} ELSE @]
           t == Demote(written, historical, newly)
<1>1. /\ b.event \in RecordIds /\ b.run \in Runs /\ b.origin \in Frozen \cup {None}
      /\ b.seen \in Seq(Entries) /\ b.image \in Seq(Entries) \cup {None}
      /\ <<b.event, b.origin>> \in Entries
  BY DEF Batches, Entries
<1>2. /\ IsStore(drained) /\ drained.ledger = s.ledger /\ drained.assoc = s.assoc
      /\ drained.rows = s.rows /\ drained.image = s.image
      /\ DOMAIN drained.drains = DOMAIN s.drains \cup ({b.origin} \ {None})
      /\ \A d \in DOMAIN s.drains : drained.drains[d] = s.drains[d]
  <2>1. CASE historical
    BY <1>1, <2>1, UpsertStore
  <2>2. CASE ~historical
    BY <2>2
  <2> QED BY <2>1, <2>2
<1>3. row \in Rows /\ shown \in Seq(Entries) \cup {None}
  <2>1. (~historical \/ ReadyBefore(s, b.run)) \in BOOLEAN
    OBVIOUS
  <2>2. row \in Rows
    BY <1>1, <2>1 DEF Rows
  <2>3. drained.image[b.run] \in Seq(Entries) \cup {None}
    BY <1>1, <1>2 DEF IsStore
  <2> QED BY <1>1, <2>2, <2>3
<1>4. written = [drains |-> drained.drains, assoc |-> assoc, ledger |-> ledger,
                 rows |-> [drained.rows EXCEPT ![b.run] = row],
                 image |-> [drained.image EXCEPT ![b.run] = shown]]
  <2> HIDE DEF drained, historical
  <2>1. written = [drained EXCEPT !.ledger = ledger, !.rows[b.run] = row, !.image[b.run] = shown,
                                  !.assoc = assoc]
    BY Zenon
  <2> HIDE DEF row, shown, ledger, assoc, written
  <2>2. drained = [drains |-> drained.drains, assoc |-> drained.assoc, ledger |-> drained.ledger,
                   rows |-> drained.rows, image |-> drained.image]
    BY <1>2 DEF IsStore
  <2> QED BY <2>1, <2>2
<1>5. ApplyV6Batch(s, b, now) = t
  <2>1. ApplyV6Batch(s, b, now) = IF b.event \in Recorded(s) THEN s ELSE t
    BY Zenon DEF ApplyV6Batch
  <2> QED BY <2>1
<1>6. shown \in {s.image[b.run], b.image, None} /\ (~historical => shown = None)
  BY <1>2
<1>7. /\ assoc = IF historical THEN s.assoc \cup {<<b.origin, b.run>>} ELSE s.assoc
      /\ historical = (b.origin # None) /\ row.seen = b.seen
      /\ ledger = s.ledger \cup {<<b.event, b.origin>>}
  BY <1>2
<1> HIDE DEF drained, written, row, shown, ledger, assoc, newly, historical
<1>8. IsStore(written)
  BY <1>1, <1>2, <1>3, <1>4, <1>7 DEF IsStore
<1>9. /\ written.rows[b.run] = row /\ written.image[b.run] = shown
      /\ \A r \in Runs \ {b.run} : written.rows[r] = s.rows[r] /\ written.image[r] = s.image[r]
  BY <1>1, <1>2, <1>4 DEF IsStore
<1>10. /\ t.drains = written.drains /\ t.ledger = written.ledger /\ t.assoc = written.assoc
       /\ t.image = written.image
       /\ \A r \in Runs : /\ RowKept(written, t, r)
                          /\ historical /\ t.rows[r] # None /\ t.rows[r].ready =>
                                ~Blocked(written, r)
  <2>1. IsStore(t) /\ t.drains = written.drains /\ t.ledger = written.ledger /\ t.assoc = written.assoc
    BY <1>8, DemoteStore
  <2>2. ASSUME NEW r \in Runs
        PROVE  /\ RowKept(written, t, r) /\ t.image = written.image
               /\ historical /\ t.rows[r] # None /\ t.rows[r].ready => ~Blocked(written, r)
    BY <1>8, DemoteRows
  <2>3. t.image = written.image
    BY <1>1, <2>2
  <2> HIDE DEF t
  <2> QED BY <2>1, <2>2, <2>3
<1> HIDE DEF t
<1>11. t.assoc = assoc /\ t.ledger = ledger /\ t.drains = drained.drains
  BY <1>4, <1>10
<1>12. Grows(s, t)
  BY <1>2, <1>7, <1>11 DEF Grows
<1>13. Recorded(t) \subseteq Recorded(s) \cup {b.event}
  BY <1>7, <1>11 DEF Recorded
<1>14. \A r \in Runs \ {b.run} : RowKept(s, t, r)
  BY <1>9, <1>10 DEF RowKept
<1>15. /\ t.rows[b.run] # None => t.rows[b.run].seen = b.seen
       /\ t.image[b.run] \in {s.image[b.run], b.image, None}
       /\ b.origin = None => t.image[b.run] = None
  BY <1>1, <1>6, <1>7, <1>9, <1>10 DEF RowKept
<1>16. ASSUME b.origin # None
       PROVE  /\ <<b.origin, b.run>> \in t.assoc /\ b.origin \in DOMAIN t.drains
              /\ t.rows[b.run] # None /\ t.rows[b.run].ready => ~Blocked(t, b.run)
  <2>1. <<b.origin, b.run>> \in t.assoc /\ b.origin \in DOMAIN t.drains
    BY <1>2, <1>7, <1>11, <1>16
  <2>2. Blocked(t, b.run) => Blocked(written, b.run)
    BY <1>10 DEF Blocked
  <2> QED BY <1>1, <1>7, <1>10, <1>16, <2>1, <2>2
<1> QED BY <1>5, <1>12, <1>13, <1>14, <1>15, <1>16

\* The finalization of a drain: a row is newly ready only when no drain blocks its run.
LEMMA FinalizeRows ==
    ASSUME NEW s0, IsStore(s0), NEW d \in Frozen, NEW now \in Nat
    PROVE  LET t == FinalizeHistoryDrain(s0, d, now)
           IN  /\ Grows(s0, t)
               /\ \A r \in Runs :
                    /\ t.rows[r] # None =>
                         /\ s0.rows[r] # None /\ t.rows[r].seen = s0.rows[r].seen
                         /\ t.rows[r].ready => s0.rows[r].ready \/ ~Blocked(t, r)
                    /\ t.image[r] \in {s0.image[r], None}
<1> DEFINE s == UpsertHistoryDrain(s0, d, now)
           older == Superseded(s, d)
           assoc == s.assoc \cup {<<d, r>> : r \in {x \in Runs : \E o \in older : <<o, x>> \in s.assoc}}
           drains == [x \in DOMAIN s.drains |->
                        IF x \in older \cup {d} THEN [s.drains[x] EXCEPT !.final = TRUE] ELSE s.drains[x]]
           closed == [s EXCEPT !.assoc = assoc,
                            !.drains = [x \in DOMAIN @ |->
                                IF x \in older \cup {d} THEN [@[x] EXCEPT !.final = TRUE] ELSE @[x]]]
           ready(r) == <<d, r>> \in assoc /\ ~Blocked(closed, r)
           rows == [r \in Runs |-> IF s.rows[r] # None /\ ready(r)
                                THEN [s.rows[r] EXCEPT !.ready = TRUE] ELSE s.rows[r]]
           shown == [r \in Runs |-> IF rows[r] # None /\ rows[r].ready THEN None ELSE s.image[r]]
           t == FinalizeHistoryDrain(s0, d, now)
<1>1. /\ IsStore(s) /\ DOMAIN s.drains = DOMAIN s0.drains \cup {d}
      /\ \A x \in DOMAIN s0.drains : s.drains[x] = s0.drains[x]
      /\ s.assoc = s0.assoc /\ s.rows = s0.rows /\ s.image = s0.image
  BY UpsertStore
<1>2. t = IF s.drains[d].final THEN s
          ELSE [closed EXCEPT !.rows = rows,
                              !.image = [r \in Runs |->
                                IF rows[r] # None /\ rows[r].ready THEN None ELSE @[r]]]
  BY Zenon DEF FinalizeHistoryDrain
<1>3. /\ DOMAIN s0.drains \subseteq DOMAIN t.drains
      /\ \A x \in DOMAIN s0.drains : s0.drains[x].final => t.drains[x].final
  BY FinalizeStore
<1>4. CASE s.drains[d].final
  <2>1. t = s
    BY <1>2, <1>4, Zenon
  <2> HIDE DEF s, t
  <2>2. Grows(s0, t)
    BY <1>1, <1>3, <2>1 DEF Grows
  <2> SUFFICES Grows(s0, t) /\ t.rows = s0.rows /\ t.image = s0.image
    BY DEF t
  <2> QED BY <1>1, <2>1, <2>2
<1>5. CASE ~s.drains[d].final
  <2>1. closed = [s EXCEPT !.assoc = assoc, !.drains = drains]
    OBVIOUS
  <2>2. s.assoc \subseteq assoc
    OBVIOUS
  <2> HIDE DEF s, older, assoc, drains, closed
  <2>3. closed = [drains |-> drains, assoc |-> assoc, ledger |-> s.ledger, rows |-> s.rows,
                  image |-> s.image]
    BY <1>1, <2>1 DEF IsStore
  <2>4. \A r \in Runs : rows[r] = IF s.rows[r] # None /\ ready(r)
                                  THEN [s.rows[r] EXCEPT !.ready = TRUE] ELSE s.rows[r]
    OBVIOUS
  <2>5. \A r \in Runs : s.rows[r] # None => LET row == [s.rows[r] EXCEPT !.ready = TRUE]
                                           IN  row.seen = s.rows[r].seen
    BY <1>1 DEF IsStore, Rows
  <2>6. \A r \in Runs : /\ rows[r] # None => s.rows[r] # None /\ rows[r].seen = s.rows[r].seen
                        /\ rows[r] # None /\ rows[r].ready => s.rows[r].ready \/ ~Blocked(closed, r)
    BY <2>4, <2>5
  <2> HIDE DEF ready, rows
  <2>7. \A r \in Runs : shown[r] \in {s.image[r], None}
    OBVIOUS
  <2>8. t = [closed EXCEPT !.rows = rows, !.image = shown]
    <3>1. closed.image = s.image
      BY <2>3
    <3> QED BY <1>2, <1>5, <3>1
  <2> HIDE DEF shown, t
  <2>9. t = [drains |-> drains, assoc |-> assoc, ledger |-> s.ledger, rows |-> rows, image |-> shown]
    BY <2>3, <2>8
  <2>10. Grows(s0, t)
    BY <1>1, <1>3, <2>2, <2>9 DEF Grows
  <2>11. \A r \in Runs : Blocked(t, r) <=> Blocked(closed, r)
    BY <2>3, <2>9 DEF Blocked
  <2>12. \A r \in Runs :
            /\ t.rows[r] # None =>
                 /\ s0.rows[r] # None /\ t.rows[r].seen = s0.rows[r].seen
                 /\ t.rows[r].ready => s0.rows[r].ready \/ ~Blocked(t, r)
            /\ t.image[r] \in {s0.image[r], None}
    <3>1. t.rows = rows /\ t.image = shown
      BY <2>9
    <3> QED BY <1>1, <2>6, <2>7, <2>11, <3>1
  <2> QED BY <2>10, <2>12 DEF t
<1> QED BY <1>4, <1>5

-----------------------------------------------------------------------------
(* The invariant of publication.                                           *)

\* The evidence of a run's row.
SoFar(r) == IF mem[r] = None THEN <<>> ELSE mem[r].seen

\* The entry of the retained batch, which the database may not know yet.
Awaited(r, entry) ==
    retained # None /\ retained.run = r /\ entry = <<retained.event, retained.origin>>

Traced(r, seen) == \A k \in DOMAIN seen : Associated(store, r, seen[k]) \/ Awaited(r, seen[k])

\* What the database has recorded the mirror knows, and of all evidence that is held the
\* database knows the drain, but for the batch that is retained.
HistoryTraced ==
    /\ Recorded(store) \subseteq mirror
    /\ \A r \in Runs : /\ Traced(r, SoFar(r))
                       /\ store.rows[r] # None => Known(store, r, store.rows[r].seen)

\* So it is with the retained batch; its image was shown before.
RetainedTraced ==
    retained # None =>
        /\ retained.origin # None
        /\ Traced(retained.run, retained.seen)
        /\ retained.event \in Recorded(store) =>
              Associated(store, retained.run, <<retained.event, retained.origin>>)
        /\ retained.image # None => Sound(store, forgotten, retained.run, retained.image)

\* The write of the retained batch is still to come.
Unwritten(r) == retained # None /\ retained.run = r /\ retained.event \notin Recorded(store)

\* What is ready and what is kept as an image may be shown: in the reducer, in the database,
\* and where a later finalization or a restart lets the one decide over the other.
ShownSound ==
    \A r \in Runs :
        /\ mem[r] # None /\ mem[r].ready => Sound(store, forgotten, r, mem[r].seen)
        /\ image[r] # None => Sound(store, forgotten, r, image[r])
        /\ store.image[r] # None => Sound(store, forgotten, r, store.image[r])
        /\ store.rows[r] # None /\ store.rows[r].ready =>
              /\ Sound(store, forgotten, r, store.rows[r].seen)
              /\ ~Unwritten(r) => Sound(store, forgotten, r, SoFar(r))

PublicationInv == HistoryTraced /\ RetainedTraced /\ ShownSound

LEMMA PublicationIsLate == PublicationInv => NoEarlyPublication
<1> SUFFICES ASSUME PublicationInv, NEW r \in Runs, NEW k \in DOMAIN View(r),
                    View(r)[k][2] # None, ~Finalized(store, View(r)[k][2])
             PROVE  FollowedByLive(r, View(r), k)
  BY DEF NoEarlyPublication
<1>1. DOMAIN <<>> = {}
  OBVIOUS
<1>2. Sound(store, forgotten, r, View(r))
  BY <1>1 DEF PublicationInv, ShownSound, View, Sound
<1> QED BY <1>2 DEF Sound, FollowedByLive

LEMMA SoFarTyped ==
    ASSUME CollectorTypes, NEW r \in Runs
    PROVE  SoFar(r) \in Seq(Entries)
<1>1. <<>> \in Seq(Entries)
  OBVIOUS
<1>2. mem[r] # None => mem[r].seen \in Seq(Entries)
  BY DEF CollectorTypes, Rows
<1> QED BY <1>1, <1>2 DEF SoFar

LEMMA SeenIsAppended ==
    ASSUME NEW item
    PROVE  SeenWith(item) = Append(SoFar(item.run), Evidence(item))
<1>1. \A x : Append(<<>>, x) = <<x>>
  OBVIOUS
<1> QED BY <1>1 DEF SeenWith, SoFar

LEMMA EmptySound == \A s, f, r : Sound(s, f, r, <<>>)
BY DEF Sound

\* What the reducer showed of a row before an event.
LEMMA SoFarSound ==
    ASSUME ShownSound, NEW r \in Runs, ~Private(r)
    PROVE  Sound(store, forgotten, r, SoFar(r))
BY EmptySound DEF ShownSound, Private, SoFar

LEMMA EvidenceTyped ==
    ASSUME NEW item \in Item
    PROVE  /\ Evidence(item) = <<item.event, item.origin>> /\ Evidence(item) \in Entries
           /\ Evidence(item)[2] = item.origin
           /\ item.origin = None => IsLive(Evidence(item))
<1>1. Evidence(item) = <<item.event, item.origin>>
  BY DEF Evidence
<1>2. item.event \in RecordIds /\ item.origin \in Frozen \cup {None}
  BY DEF Item
<1>3. item.event[1] # Controller
  BY <1>2, DrainConstants DEF RecordIds
<1> QED BY <1>1, <1>2, <1>3 DEF Entries, IsLive

\* A step of the others that leaves the collector and the database alone.
LEMMA PublicationUnchanged ==
    ASSUME PublicationInv, UNCHANGED <<retained, mem, image, mirror, forgotten, store>>
    PROVE  PublicationInv'
<1>1. /\ \A r : SoFar(r)' = SoFar(r)
      /\ \A r, seen : Traced(r, seen)' = Traced(r, seen)
      /\ \A r : Unwritten(r)' = Unwritten(r)
  BY DEF SoFar, Traced, Awaited, Unwritten
<1>2. HistoryTraced' /\ RetainedTraced'
  BY <1>1 DEF PublicationInv, HistoryTraced, RetainedTraced
<1>3. ShownSound'
  BY <1>1 DEF PublicationInv, ShownSound
<1> QED BY <1>2, <1>3 DEF PublicationInv

LEMMA PublicationByRestart ==
    ASSUME DrainTypes, PublicationInv, Restart
    PROVE  PublicationInv'
<1>1. /\ UNCHANGED <<store, forgotten>> /\ retained' = None
      /\ mem' = store.rows /\ image' = store.image /\ mirror' = Recorded(store)
  BY Zenon DEF Restart
<1>2. \A r \in Runs : SoFar(r)' = IF store.rows[r] = None THEN <<>> ELSE store.rows[r].seen
  BY <1>1 DEF SoFar
<1>3. HistoryTraced'
  <2> SUFFICES ASSUME NEW r \in Runs
               PROVE  /\ Traced(r, SoFar(r))'
                      /\ store.rows[r] # None => Known(store, r, store.rows[r].seen)
    BY <1>1 DEF HistoryTraced
  <2>1. store.rows[r] # None => Known(store, r, store.rows[r].seen)
    BY DEF PublicationInv, HistoryTraced
  <2> QED BY <1>1, <1>2, <2>1 DEF Traced, Known
<1>4. RetainedTraced'
  BY <1>1 DEF RetainedTraced
<1>5. ShownSound'
  <2> SUFFICES ASSUME NEW r \in Runs
               PROVE  /\ store.rows[r] # None /\ store.rows[r].ready =>
                            Sound(store, forgotten, r, store.rows[r].seen)
                      /\ store.image[r] # None => Sound(store, forgotten, r, store.image[r])
    BY <1>1, <1>2 DEF ShownSound
  <2> QED BY DEF PublicationInv, ShownSound
<1> QED BY <1>3, <1>4, <1>5 DEF PublicationInv

LEMMA PublicationByFinalization ==
    ASSUME DrainTypes, PublicationInv, NEW d \in Frozen, NEW o, FinalizeHeld(d, o),
           retained = None, UNCHANGED <<retained, mirror, forgotten>>
    PROVE  PublicationInv'
<1> DEFINE s == FinalizeHistoryDrain(store, d, spent.restarts)
<1>1. spent.restarts \in Nat
  BY DEF DrainTypes, SpentTypes
<1>2. /\ Grows(store, s) /\ s.ledger = store.ledger
      /\ \A r \in Runs :
           /\ s.rows[r] # None =>
                /\ store.rows[r] # None /\ s.rows[r].seen = store.rows[r].seen
                /\ s.rows[r].ready => store.rows[r].ready \/ ~Blocked(s, r)
           /\ s.image[r] \in {store.image[r], None}
  BY <1>1, FinalizeRows, FinalizeStore DEF DrainTypes, StoreTypes
<1>3. \/ store' = s /\ ApplyFinalization(d, s)
      \/ store' \in {s, store} /\ UNCHANGED <<mem, image>>
  BY DEF FinalizeHeld
<1> HIDE DEF s
<1>4. /\ Grows(store, store') /\ store'.ledger = store.ledger
      /\ \A r \in Runs :
           /\ store'.rows[r] # None =>
                /\ store.rows[r] # None /\ store'.rows[r].seen = store.rows[r].seen
                /\ store'.rows[r].ready => store.rows[r].ready \/ ~Blocked(store', r)
           /\ store'.image[r] \in {store.image[r], None}
  <2>1. CASE store' = s
    BY <1>2, <2>1
  <2>2. CASE store' = store
    BY <2>2, GrowsSelf
  <2> QED BY <1>3, <2>1, <2>2
\* The rows of the page take the readiness of the store's, and keep their evidence.
<1>5. \A r \in Runs :
         /\ SoFar(r)' = SoFar(r)
         /\ mem'[r] = None <=> mem[r] = None
         /\ mem[r] # None => mem'[r].seen = mem[r].seen
         /\ mem'[r] # None /\ mem'[r].ready =>
              mem[r].ready \/ (store'.rows[r] # None /\ store'.rows[r].ready)
         /\ image'[r] \in {image[r], None}
  <2>1. CASE UNCHANGED <<mem, image>>
    <3>1. mem' = mem /\ image' = image
      BY <2>1
    <3>2. \A r \in Runs : SoFar(r)' = SoFar(r)
      BY <3>1 DEF SoFar
    <3> QED BY <3>1, <3>2
  <2>2. CASE store' = s /\ ApplyFinalization(d, s) /\ ~UNCHANGED <<mem, image>>
    <3> DEFINE page == {r \in Runs : <<d, r>> \in s.assoc /\ mem[r] # None /\ s.rows[r] # None}
    <3>1. /\ mem' = [r \in Runs |-> IF r \in page
                          THEN [mem[r] EXCEPT !.ready = s.rows[r].ready] ELSE mem[r]]
          /\ image' = [r \in Runs |-> IF r \in page /\ s.rows[r].ready THEN None ELSE image[r]]
      BY <2>2, Zenon DEF ApplyFinalization
    <3>2. \A r \in page : mem[r] \in Rows /\ s.rows[r] # None
      BY DEF DrainTypes, CollectorTypes
    <3> HIDE DEF page
    <3>3. \A r \in page : LET row == [mem[r] EXCEPT !.ready = s.rows[r].ready]
                          IN  row.seen = mem[r].seen /\ row.ready = s.rows[r].ready /\ row # None
      <4>1. \A r \in page : s.rows[r].ready \in BOOLEAN
        <5>1. IsStore(s)
          BY <1>1, FinalizeStore DEF DrainTypes, StoreTypes, s
        <5>2. page \subseteq Runs
          BY DEF page
        <5> QED BY <3>2, <5>1, <5>2 DEF IsStore, Rows
      <4>2. \A x \in Rows : x # None
        BY NoneIsNothing
      <4>3. \A r \in page : [mem[r] EXCEPT !.ready = s.rows[r].ready] \in Rows
        BY <3>2, <4>1 DEF Rows
      <4> QED BY <3>2, <4>2, <4>3 DEF Rows
    <3>4. ASSUME NEW r \in Runs
          PROVE  /\ mem'[r] = None <=> mem[r] = None
                 /\ mem[r] # None => mem'[r].seen = mem[r].seen
                 /\ mem'[r] # None /\ mem'[r].ready =>
                      mem[r].ready \/ (s.rows[r] # None /\ s.rows[r].ready)
                 /\ image'[r] \in {image[r], None}
      <4>1. CASE r \in page
        <5>1. mem'[r] = [mem[r] EXCEPT !.ready = s.rows[r].ready]
          BY <3>1, <4>1
        <5>2. mem[r] # None
          BY <4>1 DEF page
        <5> QED BY <3>1, <3>2, <3>3, <4>1, <5>1, <5>2
      <4>2. CASE r \notin page
        <5>1. mem'[r] = mem[r] /\ image'[r] = image[r]
          BY <3>1, <4>2
        <5> QED BY <5>1
      <4> QED BY <4>1, <4>2
    <3> QED BY <2>2, <3>4 DEF SoFar
  <2> QED BY <1>3, <2>1, <2>2
<1>6. \A r : /\ \A seen : Known(store, r, seen) => Known(store', r, seen)
             /\ \A seen : Sound(store, forgotten, r, seen) => Sound(store', forgotten', r, seen)
  BY <1>4, GrowsKeeps
<1>7. \A r \in Runs : Known(store', r, SoFar(r))
  <2>1. \A r \in Runs : Known(store, r, SoFar(r))
    BY DEF PublicationInv, HistoryTraced, Traced, Awaited, Known
  <2> QED BY <1>6, <2>1
<1>8. HistoryTraced'
  <2>1. Recorded(store') \subseteq mirror'
    BY <1>4 DEF PublicationInv, HistoryTraced, Recorded
  <2>2. \A r \in Runs : Traced(r, SoFar(r))'
    BY <1>5, <1>7 DEF Traced, Known
  <2>3. \A r \in Runs : store'.rows[r] # None => Known(store', r, store'.rows[r].seen)
    BY <1>4, <1>6 DEF PublicationInv, HistoryTraced
  <2> QED BY <2>1, <2>2, <2>3 DEF HistoryTraced
<1>9. RetainedTraced'
  BY DEF RetainedTraced
<1>10. ShownSound'
  <2>1. ASSUME NEW r \in Runs, store'.rows[r] # None, store'.rows[r].ready
        PROVE  /\ Sound(store', forgotten', r, store'.rows[r].seen)
               /\ Sound(store', forgotten', r, SoFar(r)')
    <3>1. CASE ~Blocked(store', r)
      <4>1. Known(store', r, store'.rows[r].seen)
        BY <1>8, <2>1 DEF HistoryTraced
      <4>2. Known(store', r, SoFar(r)')
        BY <1>5, <1>7
      <4> QED BY <3>1, <4>1, <4>2, UnblockedSound
    <3>2. CASE store.rows[r].ready
      <4>1. /\ Sound(store, forgotten, r, store.rows[r].seen)
            /\ Sound(store, forgotten, r, SoFar(r))
        BY <1>4, <2>1, <3>2 DEF PublicationInv, ShownSound, Unwritten
      <4> QED BY <1>4, <1>5, <1>6, <2>1, <4>1
    <3> QED BY <1>4, <2>1, <3>1, <3>2
  <2>2. ASSUME NEW r \in Runs, mem'[r] # None, mem'[r].ready
        PROVE  Sound(store', forgotten', r, mem'[r].seen)
    <3>1. CASE store'.rows[r] # None /\ store'.rows[r].ready
      BY <2>1, <2>2, <3>1 DEF SoFar
    <3>2. CASE mem[r].ready
      BY <1>5, <1>6, <2>2, <3>2 DEF PublicationInv, ShownSound
    <3> QED BY <1>5, <2>2, <3>1, <3>2
  <2>3. ASSUME NEW r \in Runs
        PROVE  /\ image'[r] # None => Sound(store', forgotten', r, image'[r])
               /\ store'.image[r] # None => Sound(store', forgotten', r, store'.image[r])
    BY <1>4, <1>5, <1>6 DEF PublicationInv, ShownSound
  <2> QED BY <2>1, <2>2, <2>3 DEF ShownSound
<1> QED BY <1>8, <1>9, <1>10 DEF PublicationInv

\* What one write of batch b does to the database: nothing, or all of it.
LEMMA WriteRows ==
    ASSUME DrainTypes, NEW b \in Batches, NEW o \in Outcomes, Write(b, o)
    PROVE  /\ Grows(store, store')
           /\ Recorded(store) \subseteq mirror => Recorded(store') \subseteq mirror'
           /\ o = "durable" => b.event \in Recorded(store')
           /\ o = "unknown" /\ b.origin = None => b.event \in Recorded(store')
           /\ \/ /\ store' = store
                 /\ o # "durable" \/ b.event \in Recorded(store)
              \/ /\ b.event \notin Recorded(store) /\ b.event \in Recorded(store')
                 /\ \A r \in Runs \ {b.run} : RowKept(store, store', r)
                 /\ store'.rows[b.run] # None => store'.rows[b.run].seen = b.seen
                 /\ store'.image[b.run] \in {store.image[b.run], b.image, None}
                 /\ b.origin = None => store'.image[b.run] = None
                 /\ b.origin # None =>
                      /\ <<b.origin, b.run>> \in store'.assoc /\ b.origin \in DOMAIN store'.drains
                      /\ store'.rows[b.run] # None /\ store'.rows[b.run].ready =>
                            ~Blocked(store', b.run)
<1> DEFINE t == ApplyV6Batch(store, b, spent.restarts)
<1>1. spent.restarts \in Nat
  BY DEF DrainTypes, SpentTypes
<1>2. b.event \in Recorded(t)
  BY <1>1, BatchStore DEF DrainTypes, StoreTypes
<1>3. b.event \notin Recorded(store) =>
        /\ Grows(store, t) /\ Recorded(t) \subseteq Recorded(store) \cup {b.event}
        /\ \A r \in Runs \ {b.run} : RowKept(store, t, r)
        /\ t.rows[b.run] # None => t.rows[b.run].seen = b.seen
        /\ t.image[b.run] \in {store.image[b.run], b.image, None}
        /\ b.origin = None => t.image[b.run] = None
        /\ b.origin # None =>
             /\ <<b.origin, b.run>> \in t.assoc /\ b.origin \in DOMAIN t.drains
             /\ t.rows[b.run] # None /\ t.rows[b.run].ready => ~Blocked(t, b.run)
  BY <1>1, BatchRows DEF DrainTypes, StoreTypes
<1>4. b.event \in Recorded(store) => t = store
  BY Zenon DEF ApplyV6Batch
<1> HIDE DEF t
<1>5. /\ o = "durable" => ~Rejected(store, b)
      /\ store' = IF Committed(o) /\ ~Rejected(store, b) THEN t ELSE store
      /\ mirror' = IF o = "skipped" THEN mirror ELSE mirror \cup {b.event}
  BY DEF Write, t
<1>6. /\ o = "durable" \/ o = "unknown" <=> Committed(o)
      /\ b.origin = None => ~Rejected(store, b)
      /\ Committed(o) => o # "skipped"
  BY DEF Committed, Rejected
<1>7. CASE store' = store /\ ~(Committed(o) /\ ~Rejected(store, b))
  BY <1>5, <1>6, <1>7, GrowsSelf
<1>8. CASE store' = t /\ Committed(o)
  <2>1. CASE b.event \in Recorded(store)
    BY <1>4, <1>5, <1>8, <2>1, GrowsSelf
  <2>2. CASE b.event \notin Recorded(store)
    BY <1>2, <1>3, <1>5, <1>6, <1>8, <2>2
  <2> QED BY <2>1, <2>2
<1> QED BY <1>5, <1>7, <1>8

\* The rows of other runs than b's, and what was sound or known of any, after a write.
LEMMA WriteKeepsOthers ==
    ASSUME DrainTypes, PublicationInv, NEW b \in Batches, NEW o \in Outcomes, Write(b, o),
           forgotten \subseteq forgotten', NEW r \in Runs, r # b.run
    PROVE  /\ store'.rows[r] # None =>
                /\ store.rows[r] # None
                /\ Known(store', r, store'.rows[r].seen)
                /\ store'.rows[r].ready =>
                     store.rows[r].ready /\ Sound(store', forgotten', r, store'.rows[r].seen)
           /\ store'.image[r] # None => Sound(store', forgotten', r, store'.image[r])
<1>1. Grows(store, store') /\ (store' = store \/ RowKept(store, store', r))
  BY WriteRows
<1>2. /\ \A seen : Known(store, r, seen) => Known(store', r, seen)
      /\ \A seen : Sound(store, forgotten, r, seen) => Sound(store', forgotten', r, seen)
  BY <1>1, GrowsKeeps
<1>3. RowKept(store, store', r)
  BY <1>1 DEF RowKept
<1>4. /\ store.rows[r] # None => Known(store, r, store.rows[r].seen)
      /\ store.rows[r] # None /\ store.rows[r].ready => Sound(store, forgotten, r, store.rows[r].seen)
      /\ store.image[r] # None => Sound(store, forgotten, r, store.image[r])
  BY DEF PublicationInv, HistoryTraced, ShownSound
<1> QED BY <1>2, <1>3, <1>4 DEF RowKept

LEMMA PublicationByLive ==
    ASSUME DrainTypes, PublicationInv, NEW item \in Item, NEW o \in Outcomes,
           item.event \notin mirror, item.origin = None, ApplyLive(item, o), retained = None
    PROVE  PublicationInv'
<1> DEFINE b == BatchOf(item)
           r == item.run
           e == Evidence(item)
<1>1. /\ b \in Batches /\ b.event = item.event /\ b.origin = None /\ b.run = r
      /\ b.seen = Append(SoFar(r), e) /\ r \in Runs
      /\ SoFar(r) \in Seq(Entries) /\ e \in Entries /\ e[2] = None /\ IsLive(e)
  <2>1. b.run = r /\ b.seen = SeenWith(item) /\ r \in Runs
    BY DEF BatchOf, Item
  <2> QED BY <2>1, BatchTyped, EvidenceTyped, SeenIsAppended, SoFarTyped DEF DrainTypes
<1>2. /\ Write(b, o) /\ UNCHANGED retained
      /\ \/ /\ Private(r) /\ o # "durable" /\ UNCHANGED <<mem, image>>
            /\ forgotten' = IF o = "unknown" THEN forgotten \cup {<<r, Len(mem[r].seen)>>}
                            ELSE forgotten
         \/ /\ mem' = [mem EXCEPT ![r] = [seen |-> b.seen, ready |-> TRUE]]
            /\ image' = [image EXCEPT ![r] = None]
            /\ UNCHANGED forgotten
  BY Zenon DEF ApplyLive
<1> HIDE DEF b, r, e
<1>3. forgotten \subseteq forgotten'
  BY <1>2
<1>4. /\ Grows(store, store') /\ Recorded(store') \subseteq mirror'
      /\ o = "unknown" => b.event \in Recorded(store')
      /\ \/ store' = store
         \/ /\ store'.rows[r] # None => store'.rows[r].seen = b.seen
            /\ store'.image[r] = None
  BY <1>1, <1>2, WriteRows DEF PublicationInv, HistoryTraced
<1>5. /\ \A x, seen : Known(store, x, seen) => Known(store', x, seen)
      /\ \A x, seen : Sound(store, forgotten, x, seen) => Sound(store', forgotten', x, seen)
  BY <1>3, <1>4, GrowsKeeps
<1>6. Sound(store', forgotten', r, b.seen)
  BY <1>1, AppendSound
<1>7. \A x \in Runs : Known(store, x, SoFar(x))
  BY DEF PublicationInv, HistoryTraced, Traced, Awaited, Known
<1>8. Known(store', r, b.seen)
  <2>1. Known(store', r, SoFar(r))
    BY <1>1, <1>5, <1>7
  <2>2. Associated(store', r, e)
    BY <1>1 DEF Associated
  <2> QED BY <1>1, <2>1, <2>2, AppendKnown
<1>9. \A x \in Runs \ {r} : SoFar(x)' = SoFar(x) /\ mem'[x] = mem[x] /\ image'[x] = image[x]
  <2>1. mem \in [Runs -> Rows \cup {None}] /\ image \in [Runs -> Seq(Entries) \cup {None}]
    BY Zenon DEF DrainTypes, CollectorTypes
  <2>2. ASSUME NEW x \in Runs \ {r} PROVE mem'[x] = mem[x] /\ image'[x] = image[x]
    BY <1>2, <2>1, <2>2
  <2> QED BY <2>2 DEF SoFar
<1>10. \/ /\ Private(r) /\ o # "durable" /\ mem'[r] = mem[r] /\ image'[r] = image[r]
       \/ /\ mem'[r].seen = b.seen /\ image'[r] = None /\ SoFar(r)' = b.seen
  <2>1. mem \in [Runs -> Rows \cup {None}] /\ image \in [Runs -> Seq(Entries) \cup {None}]
    BY Zenon DEF DrainTypes, CollectorTypes
  <2> DEFINE row == [seen |-> b.seen, ready |-> TRUE]
  <2>2. row \in Rows /\ row.seen = b.seen
    BY <1>1 DEF Batches, Rows
  <2>3. row # None
    BY <2>2, NoneIsNothing
  <2>4. CASE mem' = [mem EXCEPT ![r] = row] /\ image' = [image EXCEPT ![r] = None]
    <3> HIDE DEF row
    <3>1. mem'[r] = row /\ image'[r] = None
      BY <1>1, <2>1, <2>4
    <3> QED BY <2>2, <2>3, <3>1 DEF SoFar
  <2>5. CASE Private(r) /\ o # "durable" /\ UNCHANGED <<mem, image>>
    BY <2>5
  <2> QED BY <1>2, <2>4, <2>5
<1>11. HistoryTraced'
  <2>1. ASSUME NEW x \in Runs PROVE Known(store', x, SoFar(x)')
    <3>1. CASE x # r
      BY <1>5, <1>7, <1>9, <3>1
    <3>2. CASE x = r /\ mem'[r] = mem[r]
      <4>1. SoFar(r)' = SoFar(r)
        BY <3>2 DEF SoFar
      <4> QED BY <1>5, <1>7, <3>2, <4>1
    <3>3. CASE x = r /\ SoFar(r)' = b.seen
      BY <1>8, <3>3
    <3> QED BY <1>10, <3>1, <3>2, <3>3
  <2>2. \A x \in Runs : Traced(x, SoFar(x))'
    BY <2>1 DEF Traced, Known
  <2>3. ASSUME NEW x \in Runs, store'.rows[x] # None PROVE Known(store', x, store'.rows[x].seen)
    <3>1. CASE x # r
      BY <1>1, <1>2, <1>3, <2>3, <3>1, WriteKeepsOthers
    <3>2. CASE x = r /\ store' = store
      BY <1>5, <2>3, <3>2 DEF PublicationInv, HistoryTraced
    <3>3. CASE x = r /\ store'.rows[r].seen = b.seen
      BY <1>8, <3>3
    <3> QED BY <1>4, <2>3, <3>1, <3>2, <3>3
  <2> QED BY <1>4, <2>2, <2>3 DEF HistoryTraced
<1>12. RetainedTraced'
  BY <1>2 DEF RetainedTraced
\* The row that is left as it was: if its event was recorded all the same, it was forgotten.
<1>13. ASSUME Private(r), o # "durable", mem'[r] = mem[r], store'.rows[r] # None, store'.rows[r].ready
       PROVE  Sound(store', forgotten', r, SoFar(r))
  <2>1. CASE o = "unknown"
    <3>1. mem[r] # None /\ SoFar(r) = mem[r].seen
      BY <1>13 DEF Private, SoFar
    <3>2. <<r, Len(SoFar(r))>> \in forgotten'
      <4> DEFINE row == [seen |-> b.seen, ready |-> TRUE]
      <4>1. ~mem'[r].ready /\ row.ready
        BY <1>13 DEF Private
      <4> HIDE DEF row
      <4>2. mem' # [mem EXCEPT ![r] = row]
        <5>1. mem \in [Runs -> Rows \cup {None}]
          BY Zenon DEF DrainTypes, CollectorTypes
        <5> QED BY <1>1, <4>1, <5>1
      <4> QED BY <1>2, <2>1, <3>1, <4>2 DEF row
    <3>3. \A k \in DOMAIN SoFar(r) : Len(SoFar(r)) \in k .. Len(SoFar(r))
      BY <1>1
    <3> QED BY <3>2, <3>3 DEF Sound
  <2>2. CASE o # "unknown"
    <3>1. store' = store
      BY <1>2, <1>13, <2>2 DEF Write, Committed
    <3>2. Sound(store, forgotten, r, SoFar(r))
      BY <1>1, <1>13, <3>1 DEF PublicationInv, ShownSound, Unwritten
    <3> QED BY <1>5, <3>2
  <2> QED BY <2>1, <2>2
<1>14. ShownSound'
  <2>1. ASSUME NEW x \in Runs, x # r
        PROVE  /\ mem'[x] # None /\ mem'[x].ready => Sound(store', forgotten', x, mem'[x].seen)
               /\ image'[x] # None => Sound(store', forgotten', x, image'[x])
               /\ store'.image[x] # None => Sound(store', forgotten', x, store'.image[x])
               /\ store'.rows[x] # None /\ store'.rows[x].ready =>
                     /\ Sound(store', forgotten', x, store'.rows[x].seen)
                     /\ Sound(store', forgotten', x, SoFar(x)')
    <3>1. /\ mem[x] # None /\ mem[x].ready => Sound(store', forgotten', x, mem[x].seen)
          /\ image[x] # None => Sound(store', forgotten', x, image[x])
          /\ store.rows[x] # None /\ store.rows[x].ready => Sound(store', forgotten', x, SoFar(x))
      BY <1>5 DEF PublicationInv, ShownSound, Unwritten
    <3>2. mem'[x] = mem[x] /\ image'[x] = image[x] /\ SoFar(x)' = SoFar(x)
      BY <1>9, <2>1
    <3>3. /\ store'.image[x] # None => Sound(store', forgotten', x, store'.image[x])
          /\ store'.rows[x] # None =>
               /\ store.rows[x] # None
               /\ store'.rows[x].ready =>
                    store.rows[x].ready /\ Sound(store', forgotten', x, store'.rows[x].seen)
      BY <1>1, <1>2, <1>3, <2>1, WriteKeepsOthers
    <3> QED BY <3>1, <3>2, <3>3
  <2>2. /\ mem'[r] # None /\ mem'[r].ready => Sound(store', forgotten', r, mem'[r].seen)
        /\ image'[r] # None => Sound(store', forgotten', r, image'[r])
    BY <1>1, <1>5, <1>6, <1>10 DEF PublicationInv, ShownSound
  <2>3. store'.image[r] # None => Sound(store', forgotten', r, store'.image[r])
    BY <1>1, <1>4, <1>5 DEF PublicationInv, ShownSound
  <2>4. ASSUME store'.rows[r] # None, store'.rows[r].ready
        PROVE  Sound(store', forgotten', r, store'.rows[r].seen)
    BY <1>1, <1>4, <1>5, <1>6, <2>4 DEF PublicationInv, ShownSound
  <2>5. ASSUME store'.rows[r] # None, store'.rows[r].ready
        PROVE  Sound(store', forgotten', r, SoFar(r)')
    <3>1. CASE Private(r) /\ o # "durable" /\ mem'[r] = mem[r]
      <4>1. SoFar(r)' = SoFar(r)
        BY <3>1 DEF SoFar
      <4> QED BY <1>13, <2>5, <3>1, <4>1
    <3>2. CASE SoFar(r)' = b.seen
      BY <1>6, <3>2
    <3> QED BY <1>10, <3>1, <3>2
  <2> QED BY <1>1, <2>1, <2>2, <2>3, <2>4, <2>5 DEF ShownSound
<1> QED BY <1>11, <1>12, <1>14 DEF PublicationInv

LEMMA PublicationByHistorical ==
    ASSUME DrainTypes, PublicationInv, NEW item \in Item, NEW o \in Outcomes,
           item.event \notin mirror, item.origin # None, ApplyHistorical(item, o), retained = None
    PROVE  PublicationInv'
<1> DEFINE r == item.run
           e == Evidence(item)
<1> PICK b : b = BatchOf(item)
  OBVIOUS
<1>1. /\ b \in Batches /\ b.event = item.event /\ b.origin = item.origin /\ b.run = r
      /\ b.seen = Append(SoFar(r), e) /\ r \in Runs /\ b.image = Captured(item)
      /\ SoFar(r) \in Seq(Entries) /\ e \in Entries /\ e = <<b.event, b.origin>>
  <2>1. b.run = r /\ b.seen = SeenWith(item) /\ r \in Runs /\ b.image = Captured(item)
    BY DEF BatchOf, Item
  <2> QED BY <2>1, BatchTyped, EvidenceTyped, SeenIsAppended, SoFarTyped DEF DrainTypes
<1>2. /\ Write(b, o) /\ UNCHANGED forgotten
      /\ mem' = [mem EXCEPT ![r] = [seen |-> b.seen, ready |-> FALSE]]
      /\ image' = IF b.image = None THEN image ELSE [image EXCEPT ![r] = b.image]
      /\ retained' = IF o = "durable" THEN None ELSE b
  BY Zenon DEF ApplyHistorical
\* The before-image is what was shown.
<1>3. b.image # None => Sound(store, forgotten, r, b.image)
  BY <1>1 DEF Captured, PublicationInv, ShownSound
<1> HIDE DEF r, e
<1>4. b # None /\ b.event \notin Recorded(store) /\ b.origin # None
  <2>1. b.event \notin mirror /\ b.origin # None
    BY <1>1
  <2> QED BY <1>1, <2>1, NoneApart DEF PublicationInv, HistoryTraced
<1>5. /\ Grows(store, store') /\ Recorded(store') \subseteq mirror'
      /\ \/ store' = store /\ o # "durable"
         \/ /\ b.event \in Recorded(store')
            /\ store'.rows[r] # None => store'.rows[r].seen = b.seen
            /\ store'.image[r] \in {store.image[r], b.image, None}
            /\ <<b.origin, r>> \in store'.assoc /\ b.origin \in DOMAIN store'.drains
            /\ store'.rows[r] # None /\ store'.rows[r].ready => ~Blocked(store', r)
  BY <1>1, <1>2, <1>4, WriteRows DEF PublicationInv, HistoryTraced
<1>6. /\ \A x, seen : Known(store, x, seen) => Known(store', x, seen)
      /\ \A x, seen : Sound(store, forgotten, x, seen) => Sound(store', forgotten', x, seen)
  BY <1>2, <1>5, GrowsKeeps
<1>7. \A x \in Runs : Known(store', x, SoFar(x))
  <2>1. \A x \in Runs : Known(store, x, SoFar(x))
    BY DEF PublicationInv, HistoryTraced, Traced, Awaited, Known
  <2> QED BY <1>6, <2>1
\* The new entry is associated, or awaited.
<1>8. Known(store', r, b.seen) \/ (store' = store /\ retained' = b /\ b.event \notin Recorded(store'))
  <2>1. CASE store' = store /\ o # "durable"
    BY <1>2, <1>4, <2>1
  <2>2. CASE <<b.origin, r>> \in store'.assoc /\ b.origin \in DOMAIN store'.drains
    <3>1. Associated(store', r, e)
      BY <1>1, <2>2 DEF Associated
    <3> QED BY <1>1, <1>7, <3>1, AppendKnown
  <2> QED BY <1>5, <2>1, <2>2
<1>9. \/ Known(store', r, b.seen)
      \/ /\ retained' = b /\ b.event \notin Recorded(store')
         /\ \A k \in DOMAIN b.seen : Associated(store', r, b.seen[k]) \/ b.seen[k] = e
  <2>1. b.seen \in Seq(Entries) /\ Len(b.seen) = Len(SoFar(r)) + 1 /\ b.seen[Len(SoFar(r)) + 1] = e
        /\ \A k \in 1 .. Len(SoFar(r)) : b.seen[k] = SoFar(r)[k]
    BY <1>1, AppendRange
  <2>2. \A k \in DOMAIN b.seen : k = Len(SoFar(r)) + 1 \/ k \in 1 .. Len(SoFar(r))
    BY <1>1, <2>1
  <2>3. \A k \in 1 .. Len(SoFar(r)) : Associated(store', r, SoFar(r)[k])
    BY <1>1, <1>7 DEF Known
  <2> QED BY <1>8, <2>1, <2>2, <2>3
<1>10. \A x \in Runs \ {r} : SoFar(x)' = SoFar(x) /\ mem'[x] = mem[x] /\ image'[x] = image[x]
  <2>1. mem \in [Runs -> Rows \cup {None}] /\ image \in [Runs -> Seq(Entries) \cup {None}]
    BY Zenon DEF DrainTypes, CollectorTypes
  <2>2. ASSUME NEW x \in Runs \ {r} PROVE mem'[x] = mem[x] /\ image'[x] = image[x]
    BY <1>2, <2>1, <2>2
  <2> QED BY <2>2 DEF SoFar
<1>11. ~mem'[r].ready /\ SoFar(r)' = b.seen /\ image'[r] \in {image[r], b.image}
  <2>1. mem \in [Runs -> Rows \cup {None}] /\ image \in [Runs -> Seq(Entries) \cup {None}]
    BY Zenon DEF DrainTypes, CollectorTypes
  <2> DEFINE row == [seen |-> b.seen, ready |-> FALSE]
  <2>2. row \in Rows /\ row.seen = b.seen /\ ~row.ready
    BY <1>1 DEF Batches, Rows
  <2>3. row # None
    BY <2>2, NoneIsNothing
  <2>4. mem' = [mem EXCEPT ![r] = row]
    BY <1>2
  <2> HIDE DEF row
  <2>5. mem'[r] = row
    BY <1>1, <2>1, <2>4
  <2>6. image'[r] \in {image[r], b.image}
    BY <1>1, <1>2, <2>1
  <2> QED BY <2>2, <2>3, <2>5, <2>6 DEF SoFar
\* The sequence this entry makes is traced, in the row and in the batch that is retained.
<1>12. Traced(r, b.seen)'
  BY <1>1, <1>4, <1>9 DEF Traced, Known, Awaited
<1>13. HistoryTraced'
  <2>1. ASSUME NEW x \in Runs PROVE Traced(x, SoFar(x))'
    <3>1. CASE x # r
      <4>1. SoFar(x)' = SoFar(x)
        BY <1>10, <3>1
      <4> QED BY <1>7, <4>1 DEF Traced, Known
    <3>2. CASE x = r
      BY <1>11, <1>12, <3>2 DEF Traced, Awaited
    <3> QED BY <3>1, <3>2
  <2>2. ASSUME NEW x \in Runs, store'.rows[x] # None PROVE Known(store', x, store'.rows[x].seen)
    <3>1. CASE x # r
      BY <1>1, <1>2, <2>2, <3>1, WriteKeepsOthers
    <3>2. CASE x = r /\ store' = store
      BY <1>6, <2>2, <3>2 DEF PublicationInv, HistoryTraced
    <3>3. CASE x = r /\ store'.rows[r].seen = b.seen /\ b.event \in Recorded(store')
      BY <1>8, <3>3
    <3> QED BY <1>5, <2>2, <3>1, <3>2, <3>3
  <2> QED BY <1>5, <2>1, <2>2 DEF HistoryTraced
<1>14. RetainedTraced'
  <2> SUFFICES ASSUME retained' = b PROVE RetainedTraced'
    BY <1>2 DEF RetainedTraced
  <2>1. Traced(b.run, b.seen)'
    BY <1>1, <1>12
  <2>2. b.event \in Recorded(store') => Associated(store', r, e)
    BY <1>1, <1>4, <1>5 DEF Associated
  <2>3. b.image # None => Sound(store', forgotten', r, b.image)
    BY <1>3, <1>6
  <2> QED BY <1>1, <1>4, <2>1, <2>2, <2>3 DEF RetainedTraced
<1>15. ASSUME store'.rows[r] # None, store'.rows[r].ready, b.event \in Recorded(store'),
              store'.rows[r].seen = b.seen, ~Blocked(store', r)
       PROVE  Sound(store', forgotten', r, b.seen)
  BY <1>8, <1>15, UnblockedSound
<1>16. ShownSound'
  <2>1. ASSUME NEW x \in Runs, x # r
        PROVE  /\ mem'[x] # None /\ mem'[x].ready => Sound(store', forgotten', x, mem'[x].seen)
               /\ image'[x] # None => Sound(store', forgotten', x, image'[x])
               /\ store'.image[x] # None => Sound(store', forgotten', x, store'.image[x])
               /\ store'.rows[x] # None /\ store'.rows[x].ready =>
                     /\ Sound(store', forgotten', x, store'.rows[x].seen)
                     /\ Sound(store', forgotten', x, SoFar(x)')
    <3>1. /\ mem[x] # None /\ mem[x].ready => Sound(store', forgotten', x, mem[x].seen)
          /\ image[x] # None => Sound(store', forgotten', x, image[x])
          /\ store.rows[x] # None /\ store.rows[x].ready => Sound(store', forgotten', x, SoFar(x))
      BY <1>6 DEF PublicationInv, ShownSound, Unwritten
    <3>2. mem'[x] = mem[x] /\ image'[x] = image[x] /\ SoFar(x)' = SoFar(x)
      BY <1>10, <2>1
    <3>3. /\ store'.image[x] # None => Sound(store', forgotten', x, store'.image[x])
          /\ store'.rows[x] # None =>
               /\ store.rows[x] # None
               /\ store'.rows[x].ready =>
                    store.rows[x].ready /\ Sound(store', forgotten', x, store'.rows[x].seen)
      BY <1>1, <1>2, <2>1, WriteKeepsOthers
    <3> QED BY <3>1, <3>2, <3>3
  <2>2. image'[r] # None => Sound(store', forgotten', r, image'[r])
    BY <1>1, <1>3, <1>6, <1>11 DEF PublicationInv, ShownSound
  <2>3. store'.image[r] # None => Sound(store', forgotten', r, store'.image[r])
    BY <1>1, <1>3, <1>5, <1>6 DEF PublicationInv, ShownSound
  <2>4. ASSUME store'.rows[r] # None, store'.rows[r].ready
        PROVE  /\ Sound(store', forgotten', r, store'.rows[r].seen)
               /\ ~Unwritten(r)' => Sound(store', forgotten', r, SoFar(r)')
    <3>1. CASE store' = store /\ o # "durable"
      <4>1. Unwritten(r)'
        BY <1>1, <1>2, <1>4, <3>1 DEF Unwritten
      <4>2. Sound(store, forgotten, r, store.rows[r].seen)
        BY <1>1, <2>4, <3>1 DEF PublicationInv, ShownSound
      <4> QED BY <1>6, <3>1, <4>1, <4>2
    <3>2. CASE /\ b.event \in Recorded(store') /\ store'.rows[r].seen = b.seen
               /\ ~Blocked(store', r)
      BY <1>11, <1>15, <2>4, <3>2
    <3> QED BY <1>5, <2>4, <3>1, <3>2
  <2>5. ASSUME NEW x \in Runs
        PROVE  /\ mem'[x] # None /\ mem'[x].ready => Sound(store', forgotten', x, mem'[x].seen)
               /\ image'[x] # None => Sound(store', forgotten', x, image'[x])
               /\ store'.image[x] # None => Sound(store', forgotten', x, store'.image[x])
               /\ store'.rows[x] # None /\ store'.rows[x].ready =>
                     /\ Sound(store', forgotten', x, store'.rows[x].seen)
                     /\ ~Unwritten(x)' => Sound(store', forgotten', x, SoFar(x)')
    BY <1>11, <2>1, <2>2, <2>3, <2>4
  <2> QED BY <2>5 DEF ShownSound
<1> QED BY <1>13, <1>14, <1>16 DEF PublicationInv

LEMMA PublicationByRetry ==
    ASSUME DrainTypes, PublicationInv, NEW b \in Batches, b = retained, NEW o \in Outcomes,
           Write(b, o), retained' = IF o = "durable" THEN None ELSE b,
           UNCHANGED <<mem, image, forgotten>>
    PROVE  PublicationInv'
<1> DEFINE r == b.run
           e == <<b.event, b.origin>>
<1>1. r \in Runs /\ b # None /\ b.origin # None
  BY NoneApart DEF Batches, PublicationInv, RetainedTraced
<1>2. /\ \A x \in Runs : \A entry : Awaited(x, entry) => x = r /\ entry = e
      /\ Traced(r, b.seen)
      /\ b.event \in Recorded(store) => Associated(store, r, e)
      /\ b.image # None => Sound(store, forgotten, r, b.image)
  BY <1>1 DEF Awaited, PublicationInv, RetainedTraced
<1> HIDE DEF r, e
<1>3. /\ Grows(store, store') /\ Recorded(store') \subseteq mirror'
      /\ o = "durable" => b.event \in Recorded(store')
      /\ \/ store' = store /\ (o # "durable" \/ b.event \in Recorded(store))
         \/ /\ b.event \in Recorded(store')
            /\ store'.rows[r] # None => store'.rows[r].seen = b.seen
            /\ store'.image[r] \in {store.image[r], b.image, None}
            /\ <<b.origin, r>> \in store'.assoc /\ b.origin \in DOMAIN store'.drains
            /\ store'.rows[r] # None /\ store'.rows[r].ready => ~Blocked(store', r)
  BY <1>1, WriteRows DEF PublicationInv, HistoryTraced, r
<1>4. /\ \A x, seen : Known(store, x, seen) => Known(store', x, seen)
      /\ \A x, seen : Sound(store, forgotten, x, seen) => Sound(store', forgotten', x, seen)
      /\ \A x, entry : Associated(store, x, entry) => Associated(store', x, entry)
  BY <1>3, GrowsKeeps
<1>5. b.event \in Recorded(store') => Associated(store', r, e)
  <2>1. CASE store' = store
    BY <1>2, <1>4, <2>1
  <2>2. CASE <<b.origin, r>> \in store'.assoc /\ b.origin \in DOMAIN store'.drains
    BY <2>2 DEF Associated, e
  <2> QED BY <1>3, <2>1, <2>2
\* Once the event is recorded, nothing about its run is awaited any more.
<1>6. ASSUME NEW x \in Runs, NEW seen, Traced(x, seen)
      PROVE  Traced(x, seen)' /\ (b.event \in Recorded(store') => Known(store', x, seen))
  <2>1. \A k \in DOMAIN seen : Associated(store', x, seen[k]) \/ (x = r /\ seen[k] = e)
    BY <1>2, <1>4, <1>6 DEF Traced
  <2>2. b.event \in Recorded(store') => Known(store', x, seen)
    BY <1>5, <2>1 DEF Known
  <2>3. CASE b.event \in Recorded(store')
    BY <2>2, <2>3 DEF Known, Traced
  <2>4. CASE retained' = b
    <3>1. \A k \in DOMAIN seen : x = r /\ seen[k] = e => Awaited(x, seen[k])'
      BY <1>1, <2>4 DEF Awaited, r, e
    <3> QED BY <2>1, <2>2, <3>1 DEF Traced
  <2> QED BY <1>3, <2>2, <2>3, <2>4
<1>7. \A x \in Runs : SoFar(x)' = SoFar(x)
  BY DEF SoFar
<1>8. HistoryTraced'
  <2>1. \A x \in Runs : Traced(x, SoFar(x))'
    <3> SUFFICES ASSUME NEW x \in Runs, NEW seen, seen = SoFar(x) PROVE Traced(x, seen)'
      BY <1>7 DEF Traced, Awaited
    <3>1. Traced(x, seen)
      BY DEF PublicationInv, HistoryTraced
    <3> QED BY <1>6, <3>1
  <2>2. ASSUME NEW x \in Runs, store'.rows[x] # None PROVE Known(store', x, store'.rows[x].seen)
    <3>1. CASE x # r
      BY <2>2, <3>1, WriteKeepsOthers DEF r
    <3>2. CASE x = r /\ store' = store
      BY <1>4, <2>2, <3>2 DEF PublicationInv, HistoryTraced
    <3>3. CASE x = r /\ store'.rows[r].seen = b.seen /\ b.event \in Recorded(store')
      BY <1>1, <1>2, <1>6, <3>3
    <3> QED BY <1>3, <2>2, <3>1, <3>2, <3>3
  <2> QED BY <1>3, <2>1, <2>2 DEF HistoryTraced
<1>9. RetainedTraced'
  <2> SUFFICES ASSUME retained' = b PROVE RetainedTraced'
    BY DEF RetainedTraced
  <2>1. Traced(b.run, b.seen)'
    BY <1>1, <1>2, <1>6 DEF r
  <2>2. b.image # None => Sound(store', forgotten', r, b.image)
    BY <1>2, <1>4
  <2> QED BY <1>1, <1>5, <2>1, <2>2 DEF RetainedTraced, r, e
<1>10. ShownSound'
  <2>1. ASSUME NEW x \in Runs, x # r
        PROVE  /\ store'.image[x] # None => Sound(store', forgotten', x, store'.image[x])
               /\ store'.rows[x] # None /\ store'.rows[x].ready =>
                     /\ Sound(store', forgotten', x, store'.rows[x].seen)
                     /\ Sound(store', forgotten', x, SoFar(x))
    <3>1. store.rows[x] # None /\ store.rows[x].ready => Sound(store', forgotten', x, SoFar(x))
      BY <1>4, <2>1 DEF PublicationInv, ShownSound, Unwritten, r
    <3>2. /\ store'.image[x] # None => Sound(store', forgotten', x, store'.image[x])
          /\ store'.rows[x] # None =>
               /\ store.rows[x] # None
               /\ store'.rows[x].ready =>
                    store.rows[x].ready /\ Sound(store', forgotten', x, store'.rows[x].seen)
      BY <2>1, WriteKeepsOthers DEF r
    <3> QED BY <3>1, <3>2
  <2>2. store'.image[r] # None => Sound(store', forgotten', r, store'.image[r])
    BY <1>1, <1>2, <1>3, <1>4 DEF PublicationInv, ShownSound
  <2>3. ASSUME store'.rows[r] # None, store'.rows[r].ready
        PROVE  /\ Sound(store', forgotten', r, store'.rows[r].seen)
               /\ ~Unwritten(r)' => Sound(store', forgotten', r, SoFar(r))
    <3>1. CASE store' = store /\ b.event \notin Recorded(store)
      <4>1. Unwritten(r)'
        BY <1>1, <1>3, <3>1 DEF Unwritten, r
      <4>2. Sound(store, forgotten, r, store.rows[r].seen)
        BY <1>1, <2>3, <3>1 DEF PublicationInv, ShownSound
      <4> QED BY <1>4, <3>1, <4>1, <4>2
    <3>2. CASE store' = store /\ b.event \in Recorded(store)
      <4>1. ~Unwritten(r)
        BY <3>2 DEF Unwritten
      <4>2. Sound(store, forgotten, r, store.rows[r].seen) /\ Sound(store, forgotten, r, SoFar(r))
        BY <1>1, <2>3, <3>2, <4>1 DEF PublicationInv, ShownSound
      <4> QED BY <1>4, <3>2, <4>2
    <3>3. CASE /\ b.event \in Recorded(store') /\ store'.rows[r].seen = b.seen
               /\ ~Blocked(store', r)
      <4>1. Traced(r, SoFar(r))
        BY <1>1 DEF PublicationInv, HistoryTraced
      <4>2. Known(store', r, b.seen) /\ Known(store', r, SoFar(r))
        BY <1>1, <1>2, <1>6, <3>3, <4>1
      <4> QED BY <3>3, <4>2, UnblockedSound
    <3> QED BY <1>3, <2>3, <3>1, <3>2, <3>3
  <2>4. ASSUME NEW x \in Runs
        PROVE  /\ mem[x] # None /\ mem[x].ready => Sound(store', forgotten', x, mem[x].seen)
               /\ image[x] # None => Sound(store', forgotten', x, image[x])
    BY <1>4 DEF PublicationInv, ShownSound
  <2>5. ASSUME NEW x \in Runs
        PROVE  /\ store'.image[x] # None => Sound(store', forgotten', x, store'.image[x])
               /\ store'.rows[x] # None /\ store'.rows[x].ready =>
                     /\ Sound(store', forgotten', x, store'.rows[x].seen)
                     /\ ~Unwritten(x)' => Sound(store', forgotten', x, SoFar(x))
    BY <2>1, <2>2, <2>3
  <2> QED BY <1>7, <2>4, <2>5 DEF ShownSound
<1> QED BY <1>8, <1>9, <1>10 DEF PublicationInv

\* What a Controller event does to the rows: nothing, or the same to the store's as to the
\* reducer's, and the store's is ready only if it was or the reducer's is.
LEMMA ControllerRows ==
    ASSUME DrainTypes, PublicationInv, NEW r \in Runs, ControllerEvent(r)
    PROVE  \E e \in Entries : \E seen \in Seq(Entries) :
        /\ e[2] = None /\ seen = Append(SoFar(r), e)
        /\ UNCHANGED <<retained, image, forgotten>>
        /\ mem'[r].seen = seen /\ SoFar(r)' = seen /\ (mem'[r].ready => ~Private(r))
        /\ \A x \in Runs \ {r} : mem'[x] = mem[x] /\ SoFar(x)' = SoFar(x)
        /\ Grows(store, store') /\ Recorded(store') \subseteq mirror'
        /\ \A x \in Runs \ {r} : RowKept(store, store', x)
        /\ \/ UNCHANGED store
           \/ /\ retained = None
              /\ store'.image[r] \in {store.image[r], None}
              /\ store'.rows[r] # None =>
                   /\ store'.rows[r].seen = seen
                   /\ store'.rows[r].ready => ~Private(r) \/ ReadyBefore(store, r)
<1> DEFINE event == <<Controller, spent.controller>>
           item == [event |-> event, run |-> r, origin |-> None]
           e == <<event, None>>
           seen == SeenWith([event |-> event, run |-> r, origin |-> None])
           written == [store EXCEPT
                         !.ledger = @ \cup {<<event, None>>},
                         !.rows[r] = [seen |-> seen, ready |-> ~Private(r) \/ ReadyBefore(store, r)],
                         !.image[r] = IF Private(r) THEN @ ELSE None]
<1>1. /\ UNCHANGED <<retained, image, forgotten>>
      /\ mem' = [mem EXCEPT ![r] = [seen |-> seen, ready |-> ~Private(r)]]
      /\ \/ UNCHANGED <<store, mirror>>
         \/ retained = None /\ store' = Demote(written, FALSE, {}) /\ mirror' = mirror \cup {event}
  BY Zenon DEF ControllerEvent
<1>2. e \in Entries /\ e[2] = None /\ e[1] = event
  BY DEF DrainTypes, SpentTypes, Entries
<1>3. seen = Append(SoFar(r), e)
  <2>1. item.run = r /\ Evidence(item) = e
    BY DEF Evidence
  <2>2. seen = Append(SoFar(item.run), Evidence(item))
    BY SeenIsAppended, Zenon
  <2> HIDE DEF item, e, seen
  <2> QED BY <2>1, <2>2
<1> HIDE DEF seen
<1>4. seen \in Seq(Entries)
  BY <1>2, <1>3, SoFarTyped, AppendRange DEF DrainTypes
<1>5. \A x \in BOOLEAN : [seen |-> seen, ready |-> x] \in Rows
  BY <1>4 DEF Rows
<1>6. /\ mem'[r].seen = seen /\ SoFar(r)' = seen /\ (mem'[r].ready => ~Private(r))
      /\ \A x \in Runs \ {r} : mem'[x] = mem[x] /\ SoFar(x)' = SoFar(x)
  <2> DEFINE row == [seen |-> seen, ready |-> ~Private(r)]
  <2>1. (~Private(r)) \in BOOLEAN
    OBVIOUS
  <2>2. row \in Rows
    BY <1>5, <2>1, Zenon
  <2>3. row.seen = seen /\ (row.ready => ~Private(r))
    OBVIOUS
  <2>4. mem' = [mem EXCEPT ![r] = row]
    BY <1>1, Zenon
  <2>5. mem \in [Runs -> Rows \cup {None}]
    BY Zenon DEF DrainTypes, CollectorTypes
  <2>6. row # None
    BY <2>2, NoneIsNothing
  <2> HIDE DEF row
  <2>7. mem'[r] = row /\ \A x \in Runs \ {r} : mem'[x] = mem[x]
    BY <2>4, <2>5
  <2> QED BY <2>3, <2>6, <2>7 DEF SoFar
<1>7. CASE UNCHANGED <<store, mirror>>
  <2>1. \A x \in Runs : RowKept(store, store', x)
    BY <1>7 DEF RowKept
  <2>2. Grows(store, store') /\ Recorded(store') \subseteq mirror'
    BY <1>7, GrowsSelf DEF PublicationInv, HistoryTraced
  <2> HIDE DEF e
  <2> QED BY <1>1, <1>2, <1>3, <1>4, <1>6, <1>7, <2>1, <2>2
<1>8. CASE retained = None /\ store' = Demote(written, FALSE, {}) /\ mirror' = mirror \cup {event}
  <2> DEFINE row == [seen |-> seen, ready |-> ~Private(r) \/ ReadyBefore(store, r)]
             shown == IF Private(r) THEN store.image[r] ELSE None
             ledger == store.ledger \cup {e}
  <2>1. (~Private(r) \/ ReadyBefore(store, r)) \in BOOLEAN
    OBVIOUS
  <2>2. row \in Rows /\ row.seen = seen /\ (row.ready => ~Private(r) \/ ReadyBefore(store, r))
    <3>1. row \in Rows
      BY <1>5, <2>1, Zenon
    <3> QED BY <3>1
  <2>3. shown \in Seq(Entries) \cup {None} /\ shown \in {store.image[r], None}
    BY DEF DrainTypes, StoreTypes, IsStore
  <2>4. written = [store EXCEPT !.ledger = ledger, !.rows[r] = row, !.image[r] = shown]
    BY Zenon
  <2>5. \A x : x \in ledger <=> x \in store.ledger \/ x = e
    OBVIOUS
  <2> HIDE DEF row, shown, written, event, ledger, e
  <2>6. store = [drains |-> store.drains, assoc |-> store.assoc, ledger |-> store.ledger,
                 rows |-> store.rows, image |-> store.image]
    BY DEF DrainTypes, StoreTypes, IsStore
  <2>7. written = [drains |-> store.drains, assoc |-> store.assoc, ledger |-> ledger,
                   rows |-> [store.rows EXCEPT ![r] = row], image |-> [store.image EXCEPT ![r] = shown]]
    BY <2>4, <2>6
  <2>8. IsStore(written)
    BY <1>2, <2>2, <2>3, <2>5, <2>7 DEF DrainTypes, StoreTypes, IsStore
  <2>9. /\ written.rows[r] = row /\ written.image[r] = shown
        /\ \A x \in Runs \ {r} : written.rows[x] = store.rows[x] /\ written.image[x] = store.image[x]
    BY <2>7 DEF DrainTypes, StoreTypes, IsStore
  <2>10. /\ store'.drains = written.drains /\ store'.ledger = written.ledger
         /\ store'.assoc = written.assoc
         /\ \A x \in Runs : RowKept(written, store', x)
    <3>1. PICK h : h = FALSE
      OBVIOUS
    <3>2. store' = Demote(written, h, {})
      BY <1>8, <3>1, Zenon
    <3>3. /\ store'.drains = written.drains /\ store'.ledger = written.ledger
          /\ store'.assoc = written.assoc
      BY <2>8, <3>2, DemoteStore
    <3>4. \A x \in Runs : RowKept(written, store', x)
      <4> SUFFICES ASSUME NEW x \in Runs PROVE RowKept(written, Demote(written, h, {}), x)
        BY <3>2
      <4> QED BY <2>8, DemoteRows
    <3> QED BY <3>3, <3>4
  <2>11. Grows(store, store')
    BY <2>7, <2>10 DEF Grows
  <2>12. Recorded(store') \subseteq mirror'
    <3>1. Recorded(store') \subseteq Recorded(store) \cup {event}
      BY <1>2, <2>5, <2>7, <2>10 DEF Recorded
    <3> QED BY <1>8, <3>1 DEF PublicationInv, HistoryTraced
  <2>13. \A x \in Runs \ {r} : RowKept(store, store', x)
    BY <2>9, <2>10 DEF RowKept
  <2>14. /\ store'.image[r] \in {store.image[r], None}
         /\ store'.rows[r] # None =>
                   /\ store'.rows[r].seen = seen
                   /\ store'.rows[r].ready => ~Private(r) \/ ReadyBefore(store, r)
    BY <2>2, <2>3, <2>9, <2>10 DEF RowKept
  <2> QED BY <1>1, <1>2, <1>3, <1>4, <1>6, <1>8, <2>11, <2>12, <2>13, <2>14
<1> QED BY <1>1, <1>7, <1>8

LEMMA PublicationByController ==
    ASSUME DrainTypes, PublicationInv, NEW r \in Runs, ControllerEvent(r)
    PROVE  PublicationInv'
<1>1. PICK e \in Entries, seen \in Seq(Entries) :
        /\ e[2] = None /\ seen = Append(SoFar(r), e)
        /\ UNCHANGED <<retained, image, forgotten>>
        /\ mem'[r].seen = seen /\ SoFar(r)' = seen /\ (mem'[r].ready => ~Private(r))
        /\ \A x \in Runs \ {r} : mem'[x] = mem[x] /\ SoFar(x)' = SoFar(x)
        /\ Grows(store, store') /\ Recorded(store') \subseteq mirror'
        /\ \A x \in Runs \ {r} : RowKept(store, store', x)
        /\ \/ UNCHANGED store
           \/ /\ retained = None
              /\ store'.image[r] \in {store.image[r], None}
              /\ store'.rows[r] # None =>
                   /\ store'.rows[r].seen = seen
                   /\ store'.rows[r].ready => ~Private(r) \/ ReadyBefore(store, r)
  BY ControllerRows
<1>2. /\ \A x, q : Known(store, x, q) => Known(store', x, q)
      /\ \A x, q : Sound(store, forgotten, x, q) => Sound(store', forgotten', x, q)
      /\ \A x, entry : Associated(store, x, entry) => Associated(store', x, entry)
  BY <1>1, GrowsKeeps
<1>3. SoFar(r) \in Seq(Entries) /\ Associated(store', r, e)
  BY <1>1, SoFarTyped DEF DrainTypes, Associated
\* What may be shown may be shown with the event.
<1>4. Sound(store, forgotten, r, SoFar(r)) => Sound(store', forgotten', r, seen)
  BY <1>1, <1>2, <1>3, AppendSound
<1>5. ~Private(r) => Sound(store', forgotten', r, seen)
  BY <1>4, SoFarSound DEF PublicationInv
<1>6. \A x \in Runs : \A q : Traced(x, q) => Traced(x, q)'
  <2> SUFFICES ASSUME NEW x \in Runs, NEW q, Traced(x, q) PROVE Traced(x, q)'
    OBVIOUS
  <2>1. \A k \in DOMAIN q : Awaited(x, q[k]) => Awaited(x, q[k])'
    BY <1>1 DEF Awaited
  <2> QED BY <1>2, <2>1 DEF Traced
<1>7. ASSUME Traced(r, SoFar(r)) PROVE Traced(r, seen)'
  <2>1. /\ Len(seen) = Len(SoFar(r)) + 1 /\ seen[Len(SoFar(r)) + 1] = e
        /\ \A k \in 1 .. Len(SoFar(r)) : seen[k] = SoFar(r)[k]
    BY <1>1, <1>3, AppendRange
  <2>2. \A k \in DOMAIN seen : k = Len(SoFar(r)) + 1 \/ k \in 1 .. Len(SoFar(r))
    BY <1>3, <2>1
  <2>3. \A k \in 1 .. Len(SoFar(r)) :
           Associated(store', r, SoFar(r)[k]) \/ Awaited(r, SoFar(r)[k])
    BY <1>2, <1>3, <1>7 DEF Traced
  <2>4. \A k \in DOMAIN seen : Associated(store', r, seen[k]) \/ Awaited(r, seen[k])
    BY <1>3, <2>1, <2>2, <2>3
  <2>5. \A k \in DOMAIN seen : Awaited(r, seen[k]) => Awaited(r, seen[k])'
    BY <1>1 DEF Awaited
  <2> QED BY <2>4, <2>5 DEF Traced
<1>8. ASSUME retained = None PROVE Known(store', r, seen)
  <2>1. Known(store, r, SoFar(r))
    BY <1>8 DEF PublicationInv, HistoryTraced, Traced, Awaited, Known
  <2> QED BY <1>1, <1>2, <1>3, <2>1, AppendKnown
<1>9. HistoryTraced'
  <2>1. ASSUME NEW x \in Runs PROVE Traced(x, SoFar(x))'
    <3> SUFFICES ASSUME NEW q, q = SoFar(x)' PROVE Traced(x, q)'
      BY DEF Traced, Awaited
    <3>1. Traced(x, SoFar(x))
      BY DEF PublicationInv, HistoryTraced
    <3>2. CASE x # r
      <4>1. q = SoFar(x)
        BY <1>1, <3>2
      <4> QED BY <1>6, <3>1, <4>1
    <3>3. CASE x = r
      BY <1>1, <1>7, <3>1, <3>3
    <3> QED BY <3>2, <3>3
  <2>2. ASSUME NEW x \in Runs, store'.rows[x] # None PROVE Known(store', x, store'.rows[x].seen)
    <3>1. CASE UNCHANGED store \/ x # r
      BY <1>1, <1>2, <2>2, <3>1 DEF RowKept, PublicationInv, HistoryTraced
    <3>2. CASE x = r /\ retained = None /\ store'.rows[r].seen = seen
      BY <1>8, <3>2
    <3> QED BY <1>1, <2>2, <3>1, <3>2
  <2> QED BY <1>1, <2>1, <2>2 DEF HistoryTraced
<1>10. RetainedTraced'
  <2> SUFFICES ASSUME retained # None PROVE RetainedTraced'
    BY <1>1 DEF RetainedTraced
  <2>1. UNCHANGED store
    BY <1>1
  <2>2. retained.run \in Runs
    BY DEF DrainTypes, CollectorTypes, Batches
  <2> QED BY <1>1, <1>2, <2>1 DEF PublicationInv, RetainedTraced, Traced, Awaited
<1>11. ShownSound'
  <2>1. ASSUME NEW x \in Runs
        PROVE  image[x] # None => Sound(store', forgotten', x, image[x])
    BY <1>2 DEF PublicationInv, ShownSound
  <2>2. ASSUME NEW x \in Runs
        PROVE  store'.image[x] # None => Sound(store', forgotten', x, store'.image[x])
    <3>1. store'.image[x] \in {store.image[x], None}
      BY <1>1 DEF RowKept
    <3> QED BY <1>2, <3>1 DEF PublicationInv, ShownSound
  <2>3. ASSUME NEW x \in Runs, mem'[x] # None, mem'[x].ready
        PROVE  Sound(store', forgotten', x, mem'[x].seen)
    <3>1. CASE x = r
      BY <1>1, <1>5, <2>3, <3>1
    <3>2. CASE x # r
      <4>1. mem'[x] = mem[x]
        BY <1>1, <3>2
      <4> QED BY <1>2, <2>3, <4>1 DEF PublicationInv, ShownSound
    <3> QED BY <3>1, <3>2
  <2>4. ASSUME NEW x \in Runs, store'.rows[x] # None, store'.rows[x].ready
        PROVE  /\ Sound(store', forgotten', x, store'.rows[x].seen)
               /\ ~Unwritten(x)' => Sound(store', forgotten', x, SoFar(x)')
    <3>1. CASE x # r
      <4>1. /\ Sound(store, forgotten, x, store.rows[x].seen)
            /\ ~Unwritten(x) => Sound(store, forgotten, x, SoFar(x))
            /\ store'.rows[x].seen = store.rows[x].seen
        BY <1>1, <2>4, <3>1 DEF RowKept, PublicationInv, ShownSound
      <4>2. Unwritten(x) => Unwritten(x)'
        BY <1>1 DEF Unwritten
      <4> QED BY <1>1, <1>2, <3>1, <4>1, <4>2
    <3>2. CASE x = r /\ UNCHANGED store
      <4>1. /\ Sound(store, forgotten, r, store.rows[r].seen)
            /\ ~Unwritten(r) => Sound(store, forgotten, r, SoFar(r))
        BY <2>4, <3>2 DEF PublicationInv, ShownSound
      <4>2. Unwritten(r) => Unwritten(r)'
        BY <1>1, <3>2 DEF Unwritten
      <4> QED BY <1>1, <1>2, <1>4, <3>2, <4>1, <4>2
    <3>3. CASE x = r /\ retained = None /\ store'.rows[r].seen = seen
               /\ (~Private(r) \/ ReadyBefore(store, r))
      <4>1. ReadyBefore(store, r) => Sound(store, forgotten, r, SoFar(r))
        BY <3>3 DEF ReadyBefore, Unwritten, PublicationInv, ShownSound
      <4> QED BY <1>1, <1>4, <1>5, <3>3, <4>1
    <3> QED BY <1>1, <2>4, <3>1, <3>2, <3>3
  <2> QED BY <1>1, <2>1, <2>2, <2>3, <2>4 DEF ShownSound
<1> QED BY <1>9, <1>10, <1>11 DEF PublicationInv

LEMMA PublicationInit == Init => PublicationInv
<1> SUFFICES ASSUME Init PROVE PublicationInv
  OBVIOUS
<1>1. /\ retained = None /\ mem = [r \in Runs |-> None] /\ image = [r \in Runs |-> None]
      /\ store = [drains |-> <<>>, assoc |-> {}, ledger |-> {}, rows |-> [r \in Runs |-> None],
                  image |-> [r \in Runs |-> None]]
  BY Zenon DEF Init
<1>2. \A r \in Runs : mem[r] = None /\ image[r] = None /\ store.rows[r] = None /\ store.image[r] = None
  BY <1>1
<1>3. Recorded(store) = {}
  BY <1>1 DEF Recorded
<1>4. \A r \in Runs : Traced(r, SoFar(r))
  BY <1>2 DEF Traced, SoFar
<1> QED BY <1>1, <1>2, <1>3, <1>4 DEF PublicationInv, HistoryTraced, RetainedTraced, ShownSound

LEMMA ReceivesTyped ==
    ASSUME DrainTypes, NEW o, Receive(o)
    PROVE  Head(channel) \in Item \cup BarrierItem
<1>1. channel # <<>>
  BY Zenon DEF Receive
<1> QED BY <1>1, TailRange DEF DrainTypes, WorkerTypes

LEMMA PublicationKept == DrainInv /\ PublicationInv /\ [Next]_vars => PublicationInv'
<1> SUFFICES ASSUME DrainInv, PublicationInv, [Next]_vars PROVE PublicationInv'
  OBVIOUS
<1> DrainTypes
  BY Zenon DEF DrainInv, DrainTypes
<1>1. CASE UNCHANGED <<retained, mem, image, mirror, forgotten, store>>
  BY <1>1, PublicationUnchanged
<1>2. CASE Worker
  <2>1. UNCHANGED <<retained, mem, image, mirror, forgotten, store>>
    BY <1>2, Zenon DEF Worker, Flush, StartCycle, DrainRecord, Freeze, Visit, Poll, Rotated, Finish,
                       collector
  <2> QED BY <1>1, <2>1
<1>3. CASE Restart
  BY <1>3, PublicationByRestart
<1>4. CASE DropOnOverflow
  BY <1>1, <1>4, Zenon DEF DropOnOverflow, collector
<1>5. ASSUME NEW a \in Artifacts, Grow(a) \/ Replace(a) PROVE PublicationInv'
  BY <1>1, <1>5, Zenon DEF Grow, Replace, collector
<1>6. CASE UNCHANGED vars
  BY <1>1, <1>6, Zenon DEF vars, collector
<1>7. ASSUME NEW r \in Runs, ControllerEvent(r) PROVE PublicationInv'
  BY <1>7, PublicationByController
<1>8. ASSUME NEW o \in Outcomes, Receive(o) PROVE PublicationInv'
  <2> DEFINE item == Head(channel)
  <2>1. /\ retained = None
        /\ \/ /\ item.event = None
              /\ FinalizeHeld(IF holding = None THEN item.origin ELSE holding, o)
              /\ UNCHANGED <<retained, mirror, forgotten>>
           \/ UNCHANGED <<store, spent, collector>>
           \/ /\ item.event # None /\ item.event \notin mirror
              /\ IF item.origin = None THEN ApplyLive(item, o) ELSE ApplyHistorical(item, o)
    BY <1>8, Zenon DEF Receive
  <2>2. /\ item.event = None => item.origin \in Frozen
        /\ item.event # None => item \in Item
    <3>1. item \in Item \cup BarrierItem
      BY <1>8, ReceivesTyped
    <3> QED BY <3>1, ItemKinds
  <2>3. holding \in Frozen \cup {None}
    BY DEF DrainTypes, CollectorTypes
  <2> HIDE DEF item
  <2>4. CASE /\ item.event = None
             /\ FinalizeHeld(IF holding = None THEN item.origin ELSE holding, o)
             /\ UNCHANGED <<retained, mirror, forgotten>>
    <3>1. PICK d : d = IF holding = None THEN item.origin ELSE holding
      OBVIOUS
    <3>2. d \in Frozen /\ FinalizeHeld(d, o)
      BY <2>2, <2>3, <2>4, <3>1
    <3> QED BY <2>1, <2>4, <3>2, PublicationByFinalization
  <2>5. CASE UNCHANGED <<store, spent, collector>>
    BY <1>1, <2>5, Zenon DEF collector
  <2>6. ASSUME item.event # None, item.event \notin mirror,
               IF item.origin = None THEN ApplyLive(item, o) ELSE ApplyHistorical(item, o)
        PROVE  PublicationInv'
    <3>1. PICK i : i = item
      OBVIOUS
    <3>2. i \in Item /\ i.event \notin mirror
      BY <2>2, <2>6, <3>1
    <3>3. CASE i.origin = None
      <4>1. ApplyLive(i, o)
        BY <2>6, <3>1, <3>3
      <4> QED BY <2>1, <3>2, <3>3, <4>1, PublicationByLive
    <3>4. CASE i.origin # None
      <4>1. ApplyHistorical(i, o)
        BY <2>6, <3>1, <3>4
      <4> QED BY <2>1, <3>2, <3>4, <4>1, PublicationByHistorical
    <3> QED BY <3>3, <3>4
  <2> QED BY <2>1, <2>4, <2>5, <2>6
<1>9. ASSUME NEW o \in Outcomes, RetryPending(o) PROVE PublicationInv'
  <2>1. /\ retained # None /\ Write(retained, o)
        /\ retained' = IF o = "durable" THEN None ELSE retained
        /\ UNCHANGED <<mem, image, forgotten>>
    BY <1>9, Zenon DEF RetryPending
  <2>2. PICK b : b = retained
    OBVIOUS
  <2>3. b \in Batches
    BY <2>1, <2>2 DEF DrainTypes, CollectorTypes
  <2> QED BY <2>1, <2>2, <2>3, PublicationByRetry
<1>10. ASSUME NEW o \in Outcomes, RetryHeld(o) PROVE PublicationInv'
  <2>1. /\ retained = None /\ holding # None /\ FinalizeHeld(holding, o)
        /\ UNCHANGED <<retained, mirror, forgotten>>
    BY <1>10, Zenon DEF RetryHeld
  <2>2. PICK d : d = holding
    OBVIOUS
  <2>3. d \in Frozen
    BY <2>1, <2>2 DEF DrainTypes, CollectorTypes
  <2> QED BY <2>1, <2>2, <2>3, PublicationByFinalization
<1> QED BY <1>2, <1>3, <1>4, <1>5, <1>6, <1>7, <1>8, <1>9, <1>10, NextCases, Zenon DEF Elsewhere

-----------------------------------------------------------------------------
(* The theorems.                                                           *)

LEMMA DrainInvInit == Init => DrainInv
<1> SUFFICES ASSUME Init PROVE DrainInv
  OBVIOUS
<1>1. DrainTypes
  BY TypesInit
<1>2. /\ FreshWorker(tail, manifest, completed, failed, held, deferred, cursor, lane, barrier, pc,
                     at, visit)
      /\ channel = <<>> /\ retained = None /\ holding = None /\ acked = {} /\ mirror = {}
      /\ store = [drains |-> <<>>, assoc |-> {}, ledger |-> {}, rows |-> [r \in Runs |-> None],
                  image |-> [r \in Runs |-> None]]
  BY Zenon DEF Init
<1>3. /\ \A a \in Artifacts : tail[a] = None
      /\ \A p \in ProviderSet : manifest[p] = None
      /\ held = None /\ deferred = <<>> /\ cursor = 1 /\ lane = <<>> /\ barrier = None /\ pc = "idle"
  BY <1>2 DEF FreshWorker
<1>4. DOMAIN store.drains = {}
  BY <1>2
<1>5. FirstCycle /\ DrainsAdvance /\ VisitKept
  BY <1>2, <1>3 DEF FirstCycle, DrainsAdvance, VisitKept
<1>6. \A a \in Artifacts : manifest[ProviderOf[a]] = None
  BY <1>3, Constants
<1>7. LogsAge
  BY <1>2, <1>3, <1>4, <1>6, EmptyRange DEF LogsAge, Aged, AgedBy
<1>8. BehindKept
  BY <1>3 DEF BehindKept, Behind
<1>9. OriginsKept /\ AdmittedKept /\ Unlost
  BY <1>2, <1>3, <1>6, EmptyRange DEF OriginsKept, AdmittedKept, Unlost
<1>10. BarrierKept
  <2>1. DOMAIN channel = {}
    BY <1>2
  <2> QED BY <1>2, <1>3, <2>1 DEF BarrierKept
<1>11. FinalizedCoversManifest /\ BarrierAccounted
  BY <1>3, <1>4 DEF FinalizedCoversManifest, BarrierAccounted, NoBarrierLost
<1> QED BY <1>1, <1>5, <1>7, <1>8, <1>9, <1>10, <1>11, Zenon DEF DrainInv, DrainTypes

LEMMA DrainInvKept == DrainInv /\ [Next]_vars => DrainInv'
<1> SUFFICES ASSUME DrainInv, [Next]_vars PROVE DrainInv'
  OBVIOUS
<1>1. /\ DrainTypes
      /\ FirstCycle /\ DrainsAdvance /\ LogsAge /\ VisitKept /\ BehindKept
      /\ OriginsKept /\ AdmittedKept /\ Unlost /\ BarrierKept
      /\ FinalizedCoversManifest /\ BarrierAccounted
  BY Zenon DEF DrainInv, DrainTypes
<1>2. DrainTypes'
  BY <1>1, TypesKept
<1>3. FirstCycle' /\ DrainsAdvance' /\ VisitKept'
  BY <1>1, FirstCycleKept, DrainsAdvanceKept, VisitKeptKept
<1>4. LogsAge' /\ BehindKept' /\ OriginsKept'
  BY <1>1, <1>2, LogsAgeKept, BehindKeptKept, OriginsKeptKept
<1>5. AdmittedKept' /\ Unlost'
  BY <1>1, <1>2, AdmittedKeptKept, UnlostKept
<1>6. BarrierKept' /\ BarrierAccounted' /\ FinalizedCoversManifest'
  BY <1>1, <1>2, BarrierKeptKept, BarrierAccountedKept, FinalizedKept
<1> QED BY <1>2, <1>3, <1>4, <1>5, <1>6, Zenon DEF DrainInv, DrainTypes

\* Whatever the logs do while they are drained, and whatever becomes of the writes, the cycles
\* and the process: a drain the database holds as finalized had all its records below the
\* goalposts recorded, but for logs that were replaced or passed over after a refusal, unless a
\* subscription overflowed (collector.rs:5727, store/mod.rs:1080).
THEOREM FinalizedDrainsAreComplete == Spec => []FinalizedCoversManifest
<1>1. DrainInv => FinalizedCoversManifest
  BY DEF DrainInv
<1> QED BY <1>1, DrainInvInit, DrainInvKept, PTL DEF Spec

\* The barrier the worker waits for is pending, in the channel, held by the collector or
\* acknowledged, unless a subscription overflowed (collector.rs:5082).
THEOREM BarriersAreAccounted == Spec => []BarrierAccounted
<1>1. DrainInv => BarrierAccounted
  BY DEF DrainInv
<1> QED BY <1>1, DrainInvInit, DrainInvKept, PTL DEF Spec
\* Across restarts, retries, before-images and the supersession of one drain by another:
\* evidence of a drain that is not finalized is shown only where live provider evidence about
\* the run followed it (reducer.rs:978, entities.rs:781).
THEOREM NothingIsPublishedEarly == Spec => []NoEarlyPublication
<1>1. Init => DrainInv /\ PublicationInv
  BY DrainInvInit, PublicationInit
<1>2. DrainInv /\ PublicationInv /\ [Next]_vars => (DrainInv /\ PublicationInv)'
  BY DrainInvKept, PublicationKept
<1>3. DrainInv /\ PublicationInv => NoEarlyPublication
  BY PublicationIsLate
<1> QED BY <1>1, <1>2, <1>3, PTL DEF Spec


=============================================================================
