--------------------------- MODULE TaskRunsProofs ---------------------------
(* Theorems about task runs: their identities, executions and graphs, for    *)
(* every set of names, sessions, files and terminals, every choice of event  *)
(* kinds and every number of runs.                                           *)
EXTENDS TaskRuns, FiniteSetTheorems, TLAPS

-----------------------------------------------------------------------------
(* What holds of the model between two events.                             *)

\* Keys of runs whose number no bound limits.
AnyKey == ({"controller"} \X Names) \cup ({"native"} \X Sids)
            \cup ({"path"} \X Paths) \cup ({"provisional"} \X Nat)

Entries == [key : AnyKey, state : TaskStates, ctl : BOOLEAN, dismissed : BOOLEAN]

\* A model is a record of its eight fields.
IsModel(m) ==
  m = [runs |-> m.runs, byKey |-> m.byKey, live |-> m.live, hosted |-> m.hosted,
       parent |-> m.parent, needs |-> m.needs, nonLane |-> m.nonLane, next |-> m.next]

\* Identifiers are given out in order and never twice.
Numbered(m) ==
  /\ m.next \in Nat \ {0}
  /\ \A r \in DOMAIN m.runs : r \in Nat \ {0} /\ r < m.next
  /\ \A r \in m.nonLane : r \in Nat /\ r < m.next
  /\ \A r \in Nat : Provisional(r) \in DOMAIN m.byKey => r # 0 /\ r < m.next

Typed(m) ==
  /\ IsModel(m)
  /\ m.runs \in [DOMAIN m.runs -> Entries]
  /\ m.byKey \in [DOMAIN m.byKey -> DOMAIN m.runs]
  /\ DOMAIN m.byKey \subseteq AnyKey

\* A run is found under its key; only a provisional key of an earlier life is missing.
KeysFound(m) ==
  \A r \in DOMAIN m.runs :
     /\ IsProvisional(KeyOf(m, r)) => KeyOf(m, r) = Provisional(r)
     /\ ~IsProvisional(KeyOf(m, r)) => KeyOf(m, r) \in DOMAIN m.byKey
     /\ KeyOf(m, r) \in DOMAIN m.byKey => m.byKey[KeyOf(m, r)] = r

\* A Controller's name is never an alias, and a session only of a run that a Controller named.
KeysOwned(m) ==
  /\ \A k \in DOMAIN m.byKey :
        /\ IsController(k) => KeyOf(m, m.byKey[k]) = k
        /\ IsNative(k) => KeyOf(m, m.byKey[k]) = k \/ IsController(KeyOf(m, m.byKey[k]))
  /\ \A k, l \in DOMAIN m.byKey : IsNative(k) /\ IsNative(l) /\ m.byKey[k] = m.byKey[l] => k = l

ExecutionsHeld(m) ==
  /\ m.live \subseteq Terminals \X (DOMAIN m.runs)
  /\ \A e \in m.live : e[2] \in m.hosted
  /\ m.hosted \subseteq DOMAIN m.runs
  /\ \A e, f \in m.live : e[1] = f[1] => e = f

GraphsHold(m) ==
  /\ m.parent \subseteq (DOMAIN m.runs) \X (DOMAIN m.runs)
  /\ m.needs \subseteq (DOMAIN m.runs) \X (DOMAIN m.runs)
  /\ OneParent(m.parent) /\ ~graph_has_cycle(m.parent) /\ ~graph_has_cycle(m.needs)

\* What a Controller said of a run outlives its rows: the run is the Controller's.
ReportsHeld(m) == \A r \in m.nonLane \cap DOMAIN m.runs : m.runs[r].ctl

\* The inductive invariant.
Sound(m) ==
  /\ Typed(m) /\ Numbered(m) /\ KeysFound(m) /\ KeysOwned(m)
  /\ ExecutionsHeld(m) /\ GraphsHold(m) /\ ReportsHeld(m)

-----------------------------------------------------------------------------
(* Keys, and what a step keeps.                                            *)
\* The four kinds of key exclude each other, and a provisional key names its run.
LEMMA KeyKinds ==
  /\ \A k \in AnyKey :
       /\ IsController(k) \/ IsNative(k) \/ IsProvisional(k) \/ k[1] = "path"
       /\ IsController(k) => ~IsNative(k) /\ ~IsProvisional(k) /\ k[1] # "path"
       /\ IsNative(k) => ~IsProvisional(k) /\ k[1] # "path"
       /\ IsProvisional(k) => k[1] # "path"
  /\ \A n \in Names : ControllerKey(n) \in AnyKey /\ IsController(ControllerKey(n))
  /\ \A sid \in Sids : Native(sid) \in AnyKey /\ IsNative(Native(sid))
  /\ \A path \in Paths : NativePath(path) \in AnyKey /\ NativePath(path)[1] = "path"
  /\ \A r \in Nat : Provisional(r) \in AnyKey /\ IsProvisional(Provisional(r))
  /\ \A r, q \in Nat : Provisional(r) = Provisional(q) => r = q
  /\ \A n, o \in Names : ControllerKey(n) = ControllerKey(o) => n = o
  /\ \A k \in AnyKey : IsProvisional(k) => \E r \in Nat : k = Provisional(r)
BY DEF AnyKey, IsController, IsNative, IsProvisional, ControllerKey, Native, NativePath, Provisional

\* A merge never leaves a run under a lesser kind of key than the one it absorbed had.
LEMMA KeyPriorities ==
  \A k, l \in AnyKey :
    /\ key_priority(k) >= key_priority(l) /\ IsController(l) => IsController(k)
    /\ key_priority(k) >= key_priority(l) /\ IsNative(l) => IsController(k) \/ IsNative(k)
    /\ key_priority(k) >= key_priority(l) /\ IsProvisional(k) => IsProvisional(l)
BY KeyKinds DEF key_priority

\* A model with some fields replaced is a model: the eight fields, one by one.
WithRuns(m, runs, byKey) == [m EXCEPT !.runs = runs, !.byKey = byKey]

LEMMA Fields ==
  ASSUME NEW m, IsModel(m), NEW runs, NEW byKey,
         NEW n, n = WithRuns(m, runs, byKey)
  PROVE  /\ IsModel(n)
         /\ n.live = m.live /\ n.hosted = m.hosted /\ n.parent = m.parent
         /\ n.needs = m.needs /\ n.nonLane = m.nonLane /\ n.next = m.next
         /\ n.runs = runs /\ n.byKey = byKey
<1>1. m \in [runs : {m.runs}, byKey : {m.byKey}, live : {m.live}, hosted : {m.hosted},
             parent : {m.parent}, needs : {m.needs}, nonLane : {m.nonLane}, next : {m.next}]
  BY DEF IsModel
<1>2. n \in [runs : {runs}, byKey : {byKey}, live : {m.live}, hosted : {m.hosted},
             parent : {m.parent}, needs : {m.needs}, nonLane : {m.nonLane}, next : {m.next}]
  BY <1>1 DEF WithRuns
<1>3. /\ n.runs = runs /\ n.byKey = byKey /\ n.live = m.live /\ n.hosted = m.hosted
      /\ n.parent = m.parent /\ n.needs = m.needs /\ n.nonLane = m.nonLane /\ n.next = m.next
  BY <1>2
<1>4. IsModel(n)
  BY <1>2, <1>3 DEF IsModel
<1> QED
  BY <1>3, <1>4

\* Names that mean one task keep meaning one task, a Controller's name keeps its run, a reported
\* outcome stays, and what has begun is never queued again; a run that is gone is not given out
\* again, and no report is forgotten.
Follows(m, n) ==
  /\ n.next \in Nat /\ n.next >= m.next
  /\ m.nonLane \subseteq n.nonLane
  /\ \A r \in DOMAIN n.runs : r \in DOMAIN m.runs \/ r >= m.next
  /\ \A k \in DOMAIN m.byKey : ~IsProvisional(k) => k \in DOMAIN n.byKey
  /\ \A k, l \in DOMAIN m.byKey :
        ~IsProvisional(k) /\ ~IsProvisional(l) /\ m.byKey[k] = m.byKey[l]
          => n.byKey[k] = n.byKey[l]
  /\ \A k \in DOMAIN m.byKey :
        IsController(k) => /\ n.byKey[k] = m.byKey[k]
                           /\ m.runs[m.byKey[k]].state \in Outcomes
                                => n.runs[m.byKey[k]].state = m.runs[m.byKey[k]].state
                           /\ m.runs[m.byKey[k]].state # "Queued"
                                => n.runs[m.byKey[k]].state # "Queued"

LEMMA FollowsItself == ASSUME NEW m, Sound(m) PROVE Follows(m, m)
BY DEF Follows, Sound, Numbered

\* Steps that keep names and outcomes do so together.
LEMMA FollowsThrough ==
  ASSUME NEW m, NEW n, NEW o, Sound(m), Sound(n), Sound(o), Follows(m, n), Follows(n, o)
  PROVE  Follows(m, o)
<1>1. m.next \in Nat /\ n.next \in Nat /\ o.next \in Nat
  BY DEF Sound, Numbered
<1>2. /\ o.next >= m.next
      /\ \A r \in DOMAIN o.runs : r \in Nat
  BY <1>1 DEF Follows, Sound, Numbered
<1>3. \A r \in DOMAIN o.runs : r \in DOMAIN m.runs \/ r >= m.next
  BY <1>1, <1>2 DEF Follows
<1>4. \A k \in DOMAIN m.byKey : ~IsProvisional(k) => k \in DOMAIN n.byKey /\ k \in DOMAIN o.byKey
  BY DEF Follows
<1>5. \A k, l \in DOMAIN m.byKey :
        ~IsProvisional(k) /\ ~IsProvisional(l) /\ m.byKey[k] = m.byKey[l]
          => o.byKey[k] = o.byKey[l]
  BY <1>4 DEF Follows
<1>6. \A k \in DOMAIN m.byKey : IsController(k) => ~IsProvisional(k)
  BY KeyKinds DEF Sound, Typed
<1>7. \A k \in DOMAIN m.byKey :
        IsController(k) => /\ o.byKey[k] = m.byKey[k]
                           /\ m.runs[m.byKey[k]].state \in Outcomes
                                => o.runs[m.byKey[k]].state = m.runs[m.byKey[k]].state
                           /\ m.runs[m.byKey[k]].state # "Queued"
                                => o.runs[m.byKey[k]].state # "Queued"
  BY <1>4, <1>6 DEF Follows
<1>8. m.nonLane \subseteq o.nonLane
  BY DEF Follows
<1> QED
  BY <1>1, <1>2, <1>3, <1>4, <1>5, <1>7, <1>8 DEF Follows

\* No two runs have one key.
LEMMA KeysDistinct ==
  ASSUME NEW m, Sound(m), NEW r \in DOMAIN m.runs, NEW q \in DOMAIN m.runs,
         KeyOf(m, r) = KeyOf(m, q)
  PROVE  r = q
<1>1. KeyOf(m, r) \in AnyKey /\ r \in Nat /\ q \in Nat
  BY DEF Sound, Typed, Numbered, Entries, KeyOf
<1>2. CASE IsProvisional(KeyOf(m, r))
  BY <1>1, <1>2, KeyKinds DEF Sound, KeysFound
<1>3. CASE ~IsProvisional(KeyOf(m, r))
  BY <1>1, <1>3, KeyKinds DEF Sound, KeysFound
<1> QED
  BY <1>2, <1>3

-----------------------------------------------------------------------------
(* Runs stated again, and new ones.                                        *)
\* Runs stated again under the keys they have: no report is taken back, no outcome changed.
Restates(m, entries) ==
  /\ DOMAIN entries \subseteq DOMAIN m.runs
  /\ \A r \in DOMAIN entries :
       /\ entries[r] \in Entries
       /\ entries[r].key = KeyOf(m, r)
       /\ m.runs[r].ctl => entries[r].ctl
       /\ m.runs[r].state \in Outcomes => entries[r].state = m.runs[r].state
       /\ m.runs[r].state # "Queued" => entries[r].state # "Queued"

\* Everything but the runs and the keys is as it was.
OnlyRuns(m, n) ==
  /\ n.live = m.live /\ n.hosted = m.hosted /\ n.parent = m.parent
  /\ n.needs = m.needs /\ n.nonLane = m.nonLane /\ n.next = m.next

\* What insert_task_runs does to the keys of runs that keep theirs.
LEMMA RestateKeys ==
  ASSUME NEW m, Sound(m), NEW entries, Restates(m, entries)
  PROVE  LET n == insert_task_runs(m, entries)
         IN  /\ IsModel(n) /\ OnlyRuns(m, n)
             /\ DOMAIN n.runs = DOMAIN m.runs
             /\ \A r \in DOMAIN m.runs :
                  n.runs[r] = IF r \in DOMAIN entries THEN entries[r] ELSE m.runs[r]
             /\ n.runs \in [DOMAIN m.runs -> Entries]
             /\ n.byKey \in [DOMAIN n.byKey -> DOMAIN m.runs]
             /\ DOMAIN n.byKey = DOMAIN m.byKey \cup {entries[r].key : r \in DOMAIN entries}
             /\ \A k \in DOMAIN m.byKey : n.byKey[k] = m.byKey[k]
             /\ \A r \in DOMAIN entries : n.byKey[entries[r].key] = r
<1> DEFINE n == insert_task_runs(m, entries)
           former == {k \in DOMAIN m.byKey : \E r \in DOMAIN entries \cap DOMAIN m.runs :
                                               k = KeyOf(m, r) /\ m.byKey[k] = r}
           claimed == {entries[r].key : r \in DOMAIN entries}
           runs == [r \in DOMAIN m.runs \cup DOMAIN entries |->
                      IF r \in DOMAIN entries THEN entries[r] ELSE m.runs[r]]
           byKey == [k \in (DOMAIN m.byKey \ former) \cup claimed |->
                       IF k \in claimed THEN CHOOSE r \in DOMAIN entries : entries[r].key = k
                       ELSE m.byKey[k]]
<1>1. IsModel(m) /\ m.runs \in [DOMAIN m.runs -> Entries]
      /\ m.byKey \in [DOMAIN m.byKey -> DOMAIN m.runs]
  BY DEF Sound, Typed
<1>2. n = WithRuns(m, runs, byKey)
  BY DEF insert_task_runs, WithRuns
<1>3. IsModel(n) /\ OnlyRuns(m, n) /\ n.runs = runs /\ n.byKey = byKey
  <2> HIDE DEF runs, byKey, n
  <2> QED
    BY <1>1, <1>2, Fields DEF OnlyRuns
<1>4. /\ DOMAIN runs = DOMAIN m.runs
      /\ \A r \in DOMAIN m.runs :
           runs[r] = IF r \in DOMAIN entries THEN entries[r] ELSE m.runs[r]
      /\ runs \in [DOMAIN m.runs -> Entries]
  BY <1>1 DEF Restates
<1>5. DOMAIN byKey = DOMAIN m.byKey \cup claimed
  <2>1. former \subseteq claimed
    BY DEF Restates
  <2> QED
    BY <2>1
<1>6. \A r \in DOMAIN entries : byKey[entries[r].key] = r
  <2> SUFFICES ASSUME NEW r \in DOMAIN entries PROVE byKey[entries[r].key] = r
    OBVIOUS
  <2> DEFINE q == CHOOSE x \in DOMAIN entries : entries[x].key = entries[r].key
  <2>1. q \in DOMAIN entries /\ entries[q].key = entries[r].key
    OBVIOUS
  <2>2. q = r
    BY <2>1, KeysDistinct DEF Restates
  <2> QED
    BY <2>2
<1>7. \A k \in DOMAIN m.byKey : byKey[k] = m.byKey[k]
  <2> SUFFICES ASSUME NEW k \in DOMAIN m.byKey PROVE byKey[k] = m.byKey[k]
    OBVIOUS
  <2>1. CASE k \in claimed
    <3>1. PICK r \in DOMAIN entries : entries[r].key = k
      BY <2>1
    <3>2. m.byKey[k] = r
      BY <3>1 DEF Restates, Sound, KeysFound
    <3> QED
      BY <3>1, <3>2, <1>6
  <2>2. CASE k \notin claimed
    BY <2>2, <1>5
  <2> QED
    BY <2>1, <2>2
<1>8. byKey \in [DOMAIN byKey -> DOMAIN m.runs]
  <2>1. \A k \in DOMAIN byKey : byKey[k] \in DOMAIN m.runs
    <3> HIDE DEF byKey
    <3> QED
      BY <1>1, <1>5, <1>6, <1>7 DEF Restates
  <2> QED
    BY <2>1
<1> HIDE DEF n, runs, byKey
<1> QED
  BY <1>3, <1>4, <1>5, <1>6, <1>7, <1>8 DEF n

\* Stating runs again keeps the model sound.
LEMMA RestateKeeps ==
  ASSUME NEW m, Sound(m), NEW entries, Restates(m, entries)
  PROVE  LET n == insert_task_runs(m, entries)
         IN  Sound(n) /\ Follows(m, n)
<1> DEFINE n == insert_task_runs(m, entries)
           claimed == {entries[r].key : r \in DOMAIN entries}
<1>1. /\ IsModel(n) /\ OnlyRuns(m, n)
      /\ DOMAIN n.runs = DOMAIN m.runs
      /\ \A r \in DOMAIN m.runs : n.runs[r] = IF r \in DOMAIN entries THEN entries[r] ELSE m.runs[r]
      /\ n.runs \in [DOMAIN m.runs -> Entries]
      /\ n.byKey \in [DOMAIN n.byKey -> DOMAIN m.runs]
      /\ DOMAIN n.byKey = DOMAIN m.byKey \cup claimed
      /\ \A k \in DOMAIN m.byKey : n.byKey[k] = m.byKey[k]
      /\ \A r \in DOMAIN entries : n.byKey[entries[r].key] = r
  BY RestateKeys
<1> HIDE DEF n
<1>2. \A r \in DOMAIN m.runs : KeyOf(n, r) = KeyOf(m, r) /\ KeyOf(m, r) \in AnyKey
  BY <1>1 DEF KeyOf, Restates, Sound, Typed, Entries
<1>3. \A k \in DOMAIN n.byKey \ DOMAIN m.byKey : k \in AnyKey /\ IsProvisional(k)
        /\ KeyOf(m, n.byKey[k]) = k /\ n.byKey[k] \in DOMAIN m.runs
  <2> SUFFICES ASSUME NEW k \in DOMAIN n.byKey, k \notin DOMAIN m.byKey
               PROVE  k \in AnyKey /\ IsProvisional(k)
                        /\ KeyOf(m, n.byKey[k]) = k /\ n.byKey[k] \in DOMAIN m.runs
    OBVIOUS
  <2>1. PICK r \in DOMAIN entries : k = entries[r].key
    BY <1>1
  <2>2. r \in DOMAIN m.runs /\ KeyOf(m, r) = k
    BY <2>1 DEF Restates
  <2>3. IsProvisional(k)
    BY <2>2 DEF Sound, KeysFound
  <2> QED
    BY <1>1, <1>2, <2>1, <2>2, <2>3
<1>4. Typed(n)
  BY <1>1, <1>3 DEF Typed, Sound
<1>5. Numbered(n)
  <2>1. \A r \in Nat : Provisional(r) \in DOMAIN n.byKey => r # 0 /\ r < n.next
    <3> SUFFICES ASSUME NEW r \in Nat, Provisional(r) \in DOMAIN n.byKey PROVE r # 0 /\ r < m.next
      BY <1>1 DEF OnlyRuns
    <3>1. CASE Provisional(r) \in DOMAIN m.byKey
      BY <3>1 DEF Sound, Numbered
    <3>2. CASE Provisional(r) \notin DOMAIN m.byKey
      <4>1. PICK q \in DOMAIN m.runs : KeyOf(m, q) = Provisional(r)
        BY <3>2, <1>3
      <4>2. q = r
        BY <4>1, KeyKinds DEF Sound, KeysFound, Numbered
      <4> QED
        BY <4>2 DEF Sound, Numbered
    <3> QED
      BY <3>1, <3>2
  <2> QED
    BY <1>1, <2>1 DEF Numbered, OnlyRuns, Sound
<1>6. KeysFound(n)
  <2> SUFFICES ASSUME NEW r \in DOMAIN m.runs
               PROVE  /\ IsProvisional(KeyOf(m, r)) => KeyOf(m, r) = Provisional(r)
                      /\ ~IsProvisional(KeyOf(m, r)) => KeyOf(m, r) \in DOMAIN n.byKey
                      /\ KeyOf(m, r) \in DOMAIN n.byKey => n.byKey[KeyOf(m, r)] = r
    BY <1>1, <1>2 DEF KeysFound
  <2>1. KeyOf(m, r) \in DOMAIN n.byKey => n.byKey[KeyOf(m, r)] = r
    <3>1. CASE KeyOf(m, r) \in DOMAIN m.byKey
      BY <3>1, <1>1 DEF Sound, KeysFound
    <3>2. CASE KeyOf(m, r) \in DOMAIN n.byKey \ DOMAIN m.byKey
      BY <3>2, <1>3, KeysDistinct
    <3> QED
      BY <3>1, <3>2
  <2> QED
    BY <1>1, <2>1 DEF Sound, KeysFound
<1>7. KeysOwned(n)
  <2>1. \A k \in DOMAIN n.byKey :
          ~IsProvisional(k) => k \in DOMAIN m.byKey /\ n.byKey[k] = m.byKey[k]
    BY <1>1, <1>3
  <2>2. \A k \in DOMAIN n.byKey : IsController(k) \/ IsNative(k) => ~IsProvisional(k)
    BY <1>4, KeyKinds DEF Typed
  <2>3. \A k \in DOMAIN n.byKey : KeyOf(n, n.byKey[k]) = KeyOf(m, n.byKey[k])
    BY <1>1, <1>2
  <2> QED
    BY <2>1, <2>2, <2>3 DEF Sound, KeysOwned
<1>8. ExecutionsHeld(n) /\ GraphsHold(n)
  BY <1>1 DEF Sound, ExecutionsHeld, GraphsHold, OnlyRuns
<1>9. ReportsHeld(n)
  BY <1>1 DEF Sound, ReportsHeld, OnlyRuns, Restates
<1>10. Follows(m, n)
  <2>1. \A r \in DOMAIN m.runs :
          /\ m.runs[r].state \in Outcomes => n.runs[r].state = m.runs[r].state
          /\ m.runs[r].state # "Queued" => n.runs[r].state # "Queued"
    BY <1>1 DEF Restates
  <2>2. \A k \in DOMAIN m.byKey : m.byKey[k] \in DOMAIN m.runs
    BY DEF Sound, Typed
  <2> QED
    BY <1>1, <2>1, <2>2 DEF Follows, OnlyRuns, Sound, Numbered
<1> QED
  BY <1>1, <1>4, <1>5, <1>6, <1>7, <1>8, <1>9, <1>10 DEF Sound, n

\* The names other than provisional ones, and what they resolve to, are as they were.
SameNames(m, n) ==
  /\ \A k \in DOMAIN m.byKey : k \in DOMAIN n.byKey /\ n.byKey[k] = m.byKey[k]
  /\ \A k \in DOMAIN n.byKey : ~IsProvisional(k) => k \in DOMAIN m.byKey

\* Only the states of runs may differ, or their visibility.
OnlyStates(m, n) ==
  /\ OnlyRuns(m, n) /\ SameNames(m, n)
  /\ DOMAIN n.runs = DOMAIN m.runs
  /\ \A r \in DOMAIN m.runs : KeyOf(n, r) = KeyOf(m, r) /\ n.runs[r].ctl = m.runs[r].ctl

\* A state given to runs without an outcome.
LEMMA SetStateKeeps ==
  ASSUME NEW m, Sound(m), NEW runs, runs \subseteq DOMAIN m.runs,
         NEW state \in TaskStates \ {"Queued"},
         \A r \in runs : m.runs[r].state \notin Outcomes
  PROVE  LET n == SetState(m, runs, state)
         IN  /\ Sound(n) /\ Follows(m, n) /\ OnlyStates(m, n)
             /\ \A r \in DOMAIN m.runs :
                  n.runs[r].state = IF r \in runs THEN state ELSE m.runs[r].state
<1> DEFINE entries == [r \in runs |-> touch([m.runs[r] EXCEPT !.state = state])]
           n == insert_task_runs(m, entries)
<1>1. \A r \in runs : /\ entries[r] \in Entries /\ entries[r].key = KeyOf(m, r)
                      /\ entries[r].ctl = m.runs[r].ctl /\ entries[r].state = state
  <2> SUFFICES ASSUME NEW r \in runs
               PROVE  LET x == touch([m.runs[r] EXCEPT !.state = state])
                      IN  /\ x \in Entries /\ x.key = m.runs[r].key
                          /\ x.ctl = m.runs[r].ctl /\ x.state = state
    BY DEF KeyOf
  <2>1. m.runs[r] \in Entries
    BY DEF Sound, Typed
  <2> QED
    BY <2>1 DEF touch, Entries
<1>2. DOMAIN entries = runs
  OBVIOUS
<1> HIDE DEF entries
<1>3. Restates(m, entries)
  BY <1>1, <1>2 DEF Restates
<1>4. Sound(n) /\ Follows(m, n)
  BY <1>3, RestateKeeps
<1>5. /\ OnlyRuns(m, n)
      /\ DOMAIN n.runs = DOMAIN m.runs
      /\ \A r \in DOMAIN m.runs :
           n.runs[r] = IF r \in DOMAIN entries THEN entries[r] ELSE m.runs[r]
      /\ DOMAIN n.byKey = DOMAIN m.byKey \cup {entries[r].key : r \in DOMAIN entries}
      /\ \A k \in DOMAIN m.byKey : n.byKey[k] = m.byKey[k]
  BY <1>3, RestateKeys
<1> HIDE DEF n
<1>6. SameNames(m, n)
  BY <1>1, <1>2, <1>5 DEF SameNames, Sound, KeysFound
<1>7. OnlyStates(m, n)
  BY <1>1, <1>2, <1>5, <1>6 DEF OnlyStates, KeyOf
<1>8. \A r \in DOMAIN m.runs : n.runs[r].state = IF r \in runs THEN state ELSE m.runs[r].state
  BY <1>1, <1>2, <1>5
<1>9. n = SetState(m, runs, state)
  BY DEF SetState, entries, n
<1> QED
  BY <1>4, <1>7, <1>8, <1>9

\* A dismissal changes no state.
LEMMA DismissKeeps ==
  ASSUME NEW m, Sound(m), NEW runs, runs \subseteq DOMAIN m.runs
  PROVE  LET n == Dismiss(m, runs)
         IN  /\ Sound(n) /\ Follows(m, n) /\ OnlyStates(m, n)
             /\ \A r \in DOMAIN m.runs : n.runs[r].state = m.runs[r].state
<1> DEFINE entries == [r \in runs |-> [m.runs[r] EXCEPT !.dismissed = TRUE]]
           n == insert_task_runs(m, entries)
<1>1. \A r \in runs : /\ entries[r] \in Entries /\ entries[r].key = KeyOf(m, r)
                      /\ entries[r].ctl = m.runs[r].ctl /\ entries[r].state = m.runs[r].state
  <2> SUFFICES ASSUME NEW r \in runs
               PROVE  LET x == [m.runs[r] EXCEPT !.dismissed = TRUE]
                      IN  /\ x \in Entries /\ x.key = m.runs[r].key
                          /\ x.ctl = m.runs[r].ctl /\ x.state = m.runs[r].state
    BY DEF KeyOf
  <2>1. m.runs[r] \in Entries
    BY DEF Sound, Typed
  <2> QED
    BY <2>1 DEF Entries
<1>2. DOMAIN entries = runs
  OBVIOUS
<1> HIDE DEF entries
<1>3. Restates(m, entries)
  BY <1>1, <1>2 DEF Restates
<1>4. Sound(n) /\ Follows(m, n)
  BY <1>3, RestateKeeps
<1>5. /\ OnlyRuns(m, n)
      /\ DOMAIN n.runs = DOMAIN m.runs
      /\ \A r \in DOMAIN m.runs :
           n.runs[r] = IF r \in DOMAIN entries THEN entries[r] ELSE m.runs[r]
      /\ DOMAIN n.byKey = DOMAIN m.byKey \cup {entries[r].key : r \in DOMAIN entries}
      /\ \A k \in DOMAIN m.byKey : n.byKey[k] = m.byKey[k]
  BY <1>3, RestateKeys
<1> HIDE DEF n
<1>6. SameNames(m, n)
  BY <1>1, <1>2, <1>5 DEF SameNames, Sound, KeysFound
<1>7. OnlyStates(m, n)
  BY <1>1, <1>2, <1>5, <1>6 DEF OnlyStates, KeyOf
<1>8. \A r \in DOMAIN m.runs : n.runs[r].state = m.runs[r].state
  BY <1>1, <1>2, <1>5
<1>9. n = Dismiss(m, runs)
  BY DEF Dismiss, entries, n
<1> QED
  BY <1>4, <1>7, <1>8, <1>9

\* New runs take identifiers nobody has had and keys nobody has.
New(m, entries, next) ==
  /\ next \in Nat /\ next >= m.next
  /\ \A r \in DOMAIN entries :
       /\ r \in Nat /\ r >= m.next /\ r < next
       /\ entries[r] \in Entries
       /\ entries[r].key \notin DOMAIN m.byKey
       /\ IsProvisional(entries[r].key) => entries[r].key = Provisional(r)
  /\ \A r, q \in DOMAIN entries : entries[r].key = entries[q].key => r = q

\* What insert_task_runs does to the keys when the runs are new.
LEMMA NewKeys ==
  ASSUME NEW m, Sound(m), NEW entries, NEW next, New(m, entries, next)
  PROVE  LET n == NewRuns(m, entries, next)
         IN  /\ IsModel(n) /\ n.live = m.live /\ n.hosted = m.hosted /\ n.parent = m.parent
             /\ n.needs = m.needs /\ n.nonLane = m.nonLane /\ n.next = next
             /\ DOMAIN n.runs = DOMAIN m.runs \cup DOMAIN entries
             /\ \A r \in DOMAIN m.runs : r \notin DOMAIN entries /\ n.runs[r] = m.runs[r]
             /\ \A r \in DOMAIN entries : n.runs[r] = entries[r]
             /\ n.runs \in [DOMAIN n.runs -> Entries]
             /\ n.byKey \in [DOMAIN n.byKey -> DOMAIN n.runs]
             /\ DOMAIN n.byKey = DOMAIN m.byKey \cup {entries[r].key : r \in DOMAIN entries}
             /\ \A k \in DOMAIN m.byKey : n.byKey[k] = m.byKey[k]
             /\ \A r \in DOMAIN entries : n.byKey[entries[r].key] = r
<1> DEFINE i == insert_task_runs(m, entries)
           n == NewRuns(m, entries, next)
           former == {k \in DOMAIN m.byKey : \E r \in DOMAIN entries \cap DOMAIN m.runs :
                                               k = KeyOf(m, r) /\ m.byKey[k] = r}
           claimed == {entries[r].key : r \in DOMAIN entries}
           runs == [r \in DOMAIN m.runs \cup DOMAIN entries |->
                      IF r \in DOMAIN entries THEN entries[r] ELSE m.runs[r]]
           byKey == [k \in (DOMAIN m.byKey \ former) \cup claimed |->
                       IF k \in claimed THEN CHOOSE r \in DOMAIN entries : entries[r].key = k
                       ELSE m.byKey[k]]
<1>1. IsModel(m) /\ m.runs \in [DOMAIN m.runs -> Entries]
      /\ m.byKey \in [DOMAIN m.byKey -> DOMAIN m.runs]
  BY DEF Sound, Typed
<1>2. i = WithRuns(m, runs, byKey)
  BY DEF insert_task_runs, WithRuns
<1>3. IsModel(i) /\ OnlyRuns(m, i) /\ i.runs = runs /\ i.byKey = byKey
  <2> HIDE DEF runs, byKey, i
  <2> QED
    BY <1>1, <1>2, Fields DEF OnlyRuns
<1>4. /\ IsModel(n) /\ n.live = m.live /\ n.hosted = m.hosted /\ n.parent = m.parent
      /\ n.needs = m.needs /\ n.nonLane = m.nonLane /\ n.next = next
      /\ n.runs = runs /\ n.byKey = byKey
  <2> HIDE DEF runs, byKey, i
  <2>0. n = [i EXCEPT !.next = next]
    BY DEF NewRuns, i
  <2>1. i \in [runs : {runs}, byKey : {byKey}, live : {m.live}, hosted : {m.hosted},
               parent : {m.parent}, needs : {m.needs}, nonLane : {m.nonLane}, next : {m.next}]
    BY <1>3 DEF IsModel, OnlyRuns
  <2>2. n \in [runs : {runs}, byKey : {byKey}, live : {m.live}, hosted : {m.hosted},
               parent : {m.parent}, needs : {m.needs}, nonLane : {m.nonLane}, next : {next}]
    BY <2>0, <2>1
  <2> HIDE DEF n
  <2>3. /\ n.live = m.live /\ n.hosted = m.hosted /\ n.parent = m.parent
        /\ n.needs = m.needs /\ n.nonLane = m.nonLane /\ n.next = next
        /\ n.runs = runs /\ n.byKey = byKey
    BY <2>2
  <2> QED
    BY <2>2, <2>3 DEF IsModel
<1>5. DOMAIN entries \cap DOMAIN m.runs = {}
  BY DEF New, Sound, Numbered
<1>6. former = {}
  BY <1>5
<1>7. /\ DOMAIN runs = DOMAIN m.runs \cup DOMAIN entries
      /\ \A r \in DOMAIN m.runs : r \notin DOMAIN entries /\ runs[r] = m.runs[r]
      /\ \A r \in DOMAIN entries : runs[r] = entries[r]
      /\ runs \in [DOMAIN runs -> Entries]
  BY <1>1, <1>5 DEF New
<1>8. DOMAIN byKey = DOMAIN m.byKey \cup claimed
  BY <1>6
<1>9. \A r \in DOMAIN entries : byKey[entries[r].key] = r
  <2> SUFFICES ASSUME NEW r \in DOMAIN entries PROVE byKey[entries[r].key] = r
    OBVIOUS
  <2> DEFINE q == CHOOSE x \in DOMAIN entries : entries[x].key = entries[r].key
  <2>1. q \in DOMAIN entries /\ entries[q].key = entries[r].key
    OBVIOUS
  <2>2. q = r
    BY <2>1 DEF New
  <2> QED
    BY <2>2
<1>10. \A k \in DOMAIN m.byKey : byKey[k] = m.byKey[k]
  BY <1>8 DEF New
<1>11. byKey \in [DOMAIN byKey -> DOMAIN runs]
  <2>1. \A k \in DOMAIN byKey : byKey[k] \in DOMAIN runs
    <3> HIDE DEF byKey
    <3> QED
      BY <1>1, <1>7, <1>8, <1>9, <1>10
  <2> QED
    BY <2>1
<1> HIDE DEF n, runs, byKey
<1> QED
  BY <1>4, <1>7, <1>8, <1>9, <1>10, <1>11 DEF n

\* New runs keep the model sound.
LEMMA NewKeeps ==
  ASSUME NEW m, Sound(m), NEW entries, NEW next, New(m, entries, next)
  PROVE  LET n == NewRuns(m, entries, next)
         IN  Sound(n) /\ Follows(m, n)
<1> DEFINE n == NewRuns(m, entries, next)
           claimed == {entries[r].key : r \in DOMAIN entries}
<1>1. /\ IsModel(n) /\ n.live = m.live /\ n.hosted = m.hosted /\ n.parent = m.parent
      /\ n.needs = m.needs /\ n.nonLane = m.nonLane /\ n.next = next
      /\ DOMAIN n.runs = DOMAIN m.runs \cup DOMAIN entries
      /\ \A r \in DOMAIN m.runs : r \notin DOMAIN entries /\ n.runs[r] = m.runs[r]
      /\ \A r \in DOMAIN entries : n.runs[r] = entries[r]
      /\ n.runs \in [DOMAIN n.runs -> Entries]
      /\ n.byKey \in [DOMAIN n.byKey -> DOMAIN n.runs]
      /\ DOMAIN n.byKey = DOMAIN m.byKey \cup claimed
      /\ \A k \in DOMAIN m.byKey : n.byKey[k] = m.byKey[k]
      /\ \A r \in DOMAIN entries : n.byKey[entries[r].key] = r
  BY NewKeys
<1> HIDE DEF n
<1>2. /\ \A r \in DOMAIN m.runs : KeyOf(n, r) = KeyOf(m, r)
      /\ \A r \in DOMAIN entries : KeyOf(n, r) = entries[r].key /\ KeyOf(n, r) \in AnyKey
  BY <1>1 DEF KeyOf, New, Entries
<1>3. /\ next \in Nat /\ m.next \in Nat \ {0} /\ next >= m.next
      /\ \A r \in DOMAIN entries : r \in Nat \ {0} /\ r >= m.next /\ r < next
      /\ \A r \in DOMAIN m.runs : r \in Nat \ {0} /\ r < m.next
  BY DEF New, Sound, Numbered
<1>4. Typed(n)
  BY <1>1, <1>2 DEF Typed, Sound
<1>5. Numbered(n)
  <2>1. \A r \in Nat : Provisional(r) \in DOMAIN n.byKey => r # 0 /\ r < next
    <3> SUFFICES ASSUME NEW r \in Nat, Provisional(r) \in DOMAIN n.byKey PROVE r # 0 /\ r < next
      OBVIOUS
    <3>1. CASE Provisional(r) \in DOMAIN m.byKey
      BY <3>1, <1>3 DEF Sound, Numbered
    <3>2. CASE Provisional(r) \in claimed
      <4>1. PICK q \in DOMAIN entries : entries[q].key = Provisional(r)
        BY <3>2
      <4>2. q = r
        BY <4>1, <1>3, KeyKinds DEF New
      <4> QED
        BY <4>2, <1>3
    <3> QED
      BY <1>1, <3>1, <3>2
  <2>2. \A r \in n.nonLane : r \in Nat /\ r < next
    BY <1>1, <1>3 DEF Sound, Numbered
  <2>3. \A r \in DOMAIN n.runs : r \in Nat \ {0} /\ r < next
    BY <1>1, <1>3
  <2> QED
    BY <1>1, <1>3, <2>1, <2>2, <2>3 DEF Numbered
<1>6. KeysFound(n)
  <2>1. \A r \in DOMAIN m.runs : 
          /\ IsProvisional(KeyOf(m, r)) => KeyOf(m, r) = Provisional(r)
          /\ ~IsProvisional(KeyOf(m, r)) => KeyOf(m, r) \in DOMAIN n.byKey
          /\ KeyOf(m, r) \in DOMAIN n.byKey => n.byKey[KeyOf(m, r)] = r
    <3> SUFFICES ASSUME NEW r \in DOMAIN m.runs
                 PROVE  KeyOf(m, r) \in DOMAIN n.byKey => n.byKey[KeyOf(m, r)] = r
      BY <1>1 DEF Sound, KeysFound
    <3>1. CASE KeyOf(m, r) \in DOMAIN m.byKey
      BY <3>1, <1>1 DEF Sound, KeysFound
    <3>2. CASE KeyOf(m, r) \notin DOMAIN m.byKey
      <4>1. KeyOf(m, r) = Provisional(r)
        BY <3>2 DEF Sound, KeysFound
      <4>2. \A q \in DOMAIN entries : entries[q].key # Provisional(r)
        BY <1>3, KeyKinds DEF New
      <4> QED
        BY <3>2, <4>1, <4>2, <1>1
    <3> QED
      BY <3>1, <3>2
  <2>2. \A r \in DOMAIN entries :
          /\ IsProvisional(entries[r].key) => entries[r].key = Provisional(r)
          /\ entries[r].key \in DOMAIN n.byKey
          /\ n.byKey[entries[r].key] = r
    BY <1>1 DEF New
  <2> QED
    BY <1>1, <1>2, <2>1, <2>2 DEF KeysFound
<1>7. KeysOwned(n)
  <2>1. \A k \in DOMAIN m.byKey : KeyOf(n, n.byKey[k]) = KeyOf(m, m.byKey[k])
                                  /\ n.byKey[k] \in DOMAIN m.runs
    BY <1>1, <1>2 DEF Sound, Typed
  <2>2. \A k \in DOMAIN n.byKey \ DOMAIN m.byKey : KeyOf(n, n.byKey[k]) = k
                                  /\ n.byKey[k] \in DOMAIN entries
    BY <1>1, <1>2
  <2>3. \A k, l \in DOMAIN n.byKey : IsNative(k) /\ IsNative(l) /\ n.byKey[k] = n.byKey[l] => k = l
    BY <1>1, <2>1, <2>2 DEF Sound, KeysOwned
  <2> QED
    BY <1>1, <2>1, <2>2, <2>3 DEF Sound, KeysOwned
<1>8. ExecutionsHeld(n) /\ GraphsHold(n)
  BY <1>1 DEF Sound, ExecutionsHeld, GraphsHold
<1>9. ReportsHeld(n)
  BY <1>1, <1>3 DEF Sound, ReportsHeld, Numbered
<1>10. Follows(m, n)
  <2>1. \A k \in DOMAIN m.byKey : m.byKey[k] \in DOMAIN m.runs
    BY DEF Sound, Typed
  <2> QED
    BY <1>1, <1>3, <2>1 DEF Follows
<1> QED
  BY <1>1, <1>4, <1>5, <1>6, <1>7, <1>8, <1>9, <1>10 DEF Sound, n

-----------------------------------------------------------------------------
(* Merges and bindings.                                                    *)
\* A run has at most one native session, its key or an alias.
LEMMA OneNative ==
  ASSUME NEW m, Sound(m), NEW r \in DOMAIN m.runs
  PROVE  /\ NativeKeys(m, r) = {k \in DOMAIN m.byKey : IsNative(k) /\ m.byKey[k] = r}
         /\ \A k, l \in NativeKeys(m, r) : k = l
         /\ Cardinality(NativeKeys(m, r)) \in {0, 1}
         /\ NativeKeys(m, r) # {} => Cardinality(NativeKeys(m, r)) = 1
<1>1. NativeKeys(m, r) = {k \in DOMAIN m.byKey : IsNative(k) /\ m.byKey[k] = r}
  <2>1. KeyOf(m, r) \in AnyKey
    BY DEF Sound, Typed, Entries, KeyOf
  <2> QED
    BY <2>1, KeyKinds DEF NativeKeys, Sound, KeysFound
<1>2. \A k, l \in NativeKeys(m, r) : k = l
  BY <1>1 DEF Sound, KeysOwned
<1>3. CASE NativeKeys(m, r) = {}
  BY <1>1, <1>3, FS_EmptySet
<1>4. CASE NativeKeys(m, r) # {}
  <2>1. PICK k \in NativeKeys(m, r) : TRUE
    BY <1>4
  <2>2. NativeKeys(m, r) = {k}
    BY <2>1, <1>2
  <2> QED
    BY <1>1, <1>2, <2>2, FS_Singleton
<1> QED
  BY <1>3, <1>4

\* The runs, executions and hosts that are left when one run has been absorbed.
RunsWithout(m, a) == [r \in DOMAIN m.runs \ {a} |-> m.runs[r]]
LiveMoved(m, s, a) == {<<e[1], substitute(e[2], s, a)>> : e \in m.live}
HostedMoved(m, s, a) == {substitute(r, s, a) : r \in m.hosted}

\* The eight fields of a model of which one run has been absorbed.
LEMMA AbsorbedFields ==
  ASSUME NEW m, IsModel(m), NEW s, NEW a, NEW n, n = RunAbsorbed(m, s, a)
  PROVE  /\ IsModel(n) /\ n.nonLane = m.nonLane /\ n.next = m.next
         /\ n.runs = RunsWithout(m, a) /\ n.byKey = Repointed(m, s, a)
         /\ n.live = LiveMoved(m, s, a) /\ n.hosted = HostedMoved(m, s, a)
         /\ n.parent = contract(m.parent, s, a) /\ n.needs = contract(m.needs, s, a)
<1>0. n = [m EXCEPT !.runs = RunsWithout(m, a), !.byKey = Repointed(m, s, a),
                    !.live = LiveMoved(m, s, a), !.hosted = HostedMoved(m, s, a),
                    !.parent = contract(m.parent, s, a), !.needs = contract(m.needs, s, a)]
  BY DEF RunAbsorbed, RunsWithout, LiveMoved, HostedMoved
<1>1. m \in [runs : {m.runs}, byKey : {m.byKey}, live : {m.live}, hosted : {m.hosted},
             parent : {m.parent}, needs : {m.needs}, nonLane : {m.nonLane}, next : {m.next}]
  BY DEF IsModel
<1>2. n \in [runs : {RunsWithout(m, a)}, byKey : {Repointed(m, s, a)},
             live : {LiveMoved(m, s, a)}, hosted : {HostedMoved(m, s, a)},
             parent : {contract(m.parent, s, a)}, needs : {contract(m.needs, s, a)},
             nonLane : {m.nonLane}, next : {m.next}]
  BY <1>0, <1>1
<1>3. /\ n.nonLane = m.nonLane /\ n.next = m.next
      /\ n.runs = RunsWithout(m, a) /\ n.byKey = Repointed(m, s, a)
      /\ n.live = LiveMoved(m, s, a) /\ n.hosted = HostedMoved(m, s, a)
      /\ n.parent = contract(m.parent, s, a) /\ n.needs = contract(m.needs, s, a)
  BY <1>2
<1>4. IsModel(n)
  BY <1>2, <1>3 DEF IsModel
<1> QED
  BY <1>3, <1>4

\* A checked merge leaves no key, execution or edge behind, and no cycle.
LEMMA AbsorbedKeeps ==
  ASSUME NEW m, Sound(m), NEW s \in DOMAIN m.runs, NEW a \in DOMAIN m.runs,
         preflight_merge(m, s, a)
  PROVE  LET n == RunAbsorbed(m, s, a)
         IN  Sound(n) /\ Follows(m, n)
<1> DEFINE n == RunAbsorbed(m, s, a)
           Image(r) == substitute(r, s, a)
           D == DOMAIN m.runs \ {a}
<1>0. n = RunAbsorbed(m, s, a)
  OBVIOUS
<1> HIDE DEF n
<1>1. /\ IsModel(n) /\ n.nonLane = m.nonLane /\ n.next = m.next
      /\ n.runs = [r \in D |-> m.runs[r]]
      /\ n.byKey = Repointed(m, s, a)
      /\ n.live = {<<e[1], Image(e[2])>> : e \in m.live}
      /\ n.hosted = {Image(r) : r \in m.hosted}
      /\ n.parent = contract(m.parent, s, a)
      /\ n.needs = contract(m.needs, s, a)
  <2>1. IsModel(m)
    BY DEF Sound, Typed
  <2>2. /\ IsModel(n) /\ n.nonLane = m.nonLane /\ n.next = m.next
        /\ n.runs = RunsWithout(m, a) /\ n.byKey = Repointed(m, s, a)
        /\ n.live = LiveMoved(m, s, a) /\ n.hosted = HostedMoved(m, s, a)
        /\ n.parent = contract(m.parent, s, a) /\ n.needs = contract(m.needs, s, a)
    BY <1>0, <2>1, AbsorbedFields
  <2>3. n.runs = [r \in D |-> m.runs[r]]
    BY <2>2 DEF RunsWithout
  <2>4. n.live = {<<e[1], Image(e[2])>> : e \in m.live}
    BY <2>2 DEF LiveMoved
  <2>5. n.hosted = {Image(r) : r \in m.hosted}
    BY <2>2 DEF HostedMoved
  <2> QED
    BY <2>2, <2>3, <2>4, <2>5
<1>2. /\ s # a /\ key_priority(KeyOf(m, s)) >= key_priority(KeyOf(m, a))
      /\ ~(IsController(KeyOf(m, s)) /\ IsController(KeyOf(m, a)))
      /\ Cardinality(NativeKeys(m, s)) + Cardinality(NativeKeys(m, a)) <= 1
      /\ OneParent(n.parent) /\ ~graph_has_cycle(n.parent) /\ ~graph_has_cycle(n.needs)
  BY <1>1 DEF preflight_merge
<1>3. \A r \in DOMAIN m.runs : KeyOf(m, r) \in AnyKey
  BY DEF Sound, Typed, Entries, KeyOf
<1>4. ~IsController(KeyOf(m, a)) /\ s \in D
  BY <1>2, <1>3, KeyPriorities
<1>5. \A r \in DOMAIN m.runs : Image(r) \in D /\ (r # a => Image(r) = r) /\ (r = a => Image(r) = s)
  BY <1>4 DEF substitute
<1>6. /\ DOMAIN n.byKey = DOMAIN m.byKey \cup {KeyOf(m, a)}
      /\ n.byKey[KeyOf(m, a)] = s
      /\ \A k \in DOMAIN m.byKey : n.byKey[k] = Image(m.byKey[k])
  <2>1. KeyOf(m, a) \in DOMAIN m.byKey => m.byKey[KeyOf(m, a)] = a
    BY DEF Sound, KeysFound
  <2> QED
    BY <1>1, <1>5, <2>1 DEF Repointed
<1> HIDE DEF Image
<1>7. DOMAIN n.runs = D /\ \A r \in D : n.runs[r] = m.runs[r] /\ KeyOf(n, r) = KeyOf(m, r)
  BY <1>1 DEF KeyOf
<1>8. \A k \in DOMAIN m.byKey : m.byKey[k] \in DOMAIN m.runs
  BY DEF Sound, Typed
<1>9. Typed(n)
  <2>1. n.byKey \in [DOMAIN n.byKey -> D]
    <3>1. \A k \in DOMAIN n.byKey : n.byKey[k] \in D
      BY <1>4, <1>5, <1>6, <1>8
    <3>2. n.byKey = [k \in DOMAIN n.byKey |-> n.byKey[k]]
      BY <1>1 DEF Repointed
    <3> QED
      BY <3>1, <3>2
  <2>2. n.runs \in [D -> Entries]
    BY <1>1 DEF Sound, Typed
  <2> QED
    BY <1>1, <1>3, <1>6, <1>7, <2>1, <2>2 DEF Typed, Sound
<1>10. Numbered(n)
  <2>1. \A r \in Nat : Provisional(r) \in DOMAIN n.byKey => r # 0 /\ r < m.next
    <3> SUFFICES ASSUME NEW r \in Nat, Provisional(r) \in DOMAIN n.byKey PROVE r # 0 /\ r < m.next
      OBVIOUS
    <3>1. CASE Provisional(r) \in DOMAIN m.byKey
      BY <3>1 DEF Sound, Numbered
    <3>2. CASE Provisional(r) = KeyOf(m, a)
      <4>1. a \in Nat \ {0} /\ a < m.next
        BY DEF Sound, Numbered
      <4>2. KeyOf(m, a) = Provisional(a)
        BY <3>2, KeyKinds DEF Sound, KeysFound
      <4> QED
        BY <3>2, <4>1, <4>2, KeyKinds
    <3> QED
      BY <1>6, <3>1, <3>2
  <2> QED
    BY <1>1, <1>7, <2>1 DEF Sound, Numbered
<1>11. KeysFound(n)
  <2> SUFFICES ASSUME NEW r \in D
               PROVE  /\ IsProvisional(KeyOf(m, r)) => KeyOf(m, r) = Provisional(r)
                      /\ ~IsProvisional(KeyOf(m, r)) => KeyOf(m, r) \in DOMAIN n.byKey
                      /\ KeyOf(m, r) \in DOMAIN n.byKey => n.byKey[KeyOf(m, r)] = r
    BY <1>7 DEF KeysFound
  <2>1. KeyOf(m, r) # KeyOf(m, a)
    BY KeysDistinct
  <2>2. KeyOf(m, r) \in DOMAIN m.byKey => m.byKey[KeyOf(m, r)] = r
    BY DEF Sound, KeysFound
  <2> QED
    BY <1>5, <1>6, <2>1, <2>2 DEF Sound, KeysFound
<1>12. \A k \in DOMAIN n.byKey : ~IsProvisional(k) => k \in DOMAIN m.byKey
  BY <1>6 DEF Sound, KeysFound
<1>13. \A k \in DOMAIN n.byKey : IsController(k) \/ IsNative(k) => k \in DOMAIN m.byKey
  BY <1>9, <1>12, KeyKinds DEF Typed
<1>14. KeysOwned(n)
  <2>1. \A k \in DOMAIN n.byKey : IsController(k) => KeyOf(n, n.byKey[k]) = k
    <3> SUFFICES ASSUME NEW k \in DOMAIN n.byKey, IsController(k) PROVE KeyOf(n, n.byKey[k]) = k
      OBVIOUS
    <3>1. k \in DOMAIN m.byKey /\ KeyOf(m, m.byKey[k]) = k
      BY <1>13 DEF Sound, KeysOwned
    <3>2. m.byKey[k] # a
      BY <3>1, <1>4
    <3> QED
      BY <3>1, <3>2, <1>5, <1>6, <1>7, <1>8
  <2>2. \A k, l \in DOMAIN m.byKey : IsNative(k) /\ IsNative(l) /\ m.byKey[k] = s => m.byKey[l] # a
    <3> SUFFICES ASSUME NEW k \in DOMAIN m.byKey, NEW l \in DOMAIN m.byKey,
                        IsNative(k), IsNative(l), m.byKey[k] = s, m.byKey[l] = a
                 PROVE  FALSE
      OBVIOUS
    <3>1. k \in NativeKeys(m, s) /\ l \in NativeKeys(m, a)
      BY DEF NativeKeys
    <3>2. Cardinality(NativeKeys(m, s)) = 1 /\ Cardinality(NativeKeys(m, a)) = 1
      BY <3>1, OneNative
    <3> QED
      BY <3>2, <1>2
  <2>3. \A k \in DOMAIN n.byKey :
          IsNative(k) => KeyOf(n, n.byKey[k]) = k \/ IsController(KeyOf(n, n.byKey[k]))
    <3> SUFFICES ASSUME NEW k \in DOMAIN n.byKey, IsNative(k)
                 PROVE  KeyOf(n, n.byKey[k]) = k \/ IsController(KeyOf(n, n.byKey[k]))
      OBVIOUS
    <3>1. /\ k \in DOMAIN m.byKey
          /\ KeyOf(m, m.byKey[k]) = k \/ IsController(KeyOf(m, m.byKey[k]))
      BY <1>13 DEF Sound, KeysOwned
    <3>2. CASE m.byKey[k] # a
      BY <3>1, <3>2, <1>5, <1>6, <1>7, <1>8
    <3>3. CASE m.byKey[k] = a
      <4>1. KeyOf(m, a) = k
        BY <3>1, <3>3, <1>4
      <4>2. IsController(KeyOf(m, s)) \/ IsNative(KeyOf(m, s))
        BY <4>1, <1>2, <1>3, KeyPriorities
      <4>3. ~IsNative(KeyOf(m, s))
        <5> SUFFICES ASSUME IsNative(KeyOf(m, s)) PROVE FALSE
          OBVIOUS
        <5>1. ~IsProvisional(KeyOf(m, s))
          BY <1>3, KeyKinds
        <5>2. KeyOf(m, s) \in DOMAIN m.byKey /\ m.byKey[KeyOf(m, s)] = s
          BY <5>1 DEF Sound, KeysFound
        <5> QED
          BY <5>2, <3>1, <3>3, <2>2
      <4>4. n.byKey[k] = s
        BY <3>1, <3>3, <1>5, <1>6
      <4> QED
        BY <4>2, <4>3, <4>4, <1>4, <1>7
    <3> QED
      BY <3>2, <3>3
  <2>4. \A k, l \in DOMAIN n.byKey :
          IsNative(k) /\ IsNative(l) /\ n.byKey[k] = n.byKey[l] => k = l
    <3> SUFFICES ASSUME NEW k \in DOMAIN n.byKey, NEW l \in DOMAIN n.byKey,
                        IsNative(k), IsNative(l), n.byKey[k] = n.byKey[l]
                 PROVE  k = l
      OBVIOUS
    <3>1. k \in DOMAIN m.byKey /\ l \in DOMAIN m.byKey
      BY <1>13
    <3>2. Image(m.byKey[k]) = Image(m.byKey[l])
      BY <3>1, <1>6
    <3>3. \/ m.byKey[k] = m.byKey[l]
          \/ m.byKey[k] = s /\ m.byKey[l] = a
          \/ m.byKey[k] = a /\ m.byKey[l] = s
      <4>1. \A r, q \in DOMAIN m.runs :
              Image(r) = Image(q) => r = q \/ (r = s /\ q = a) \/ (r = a /\ q = s)
        BY <1>5
      <4> QED
        BY <3>1, <3>2, <4>1, <1>8
    <3>4. m.byKey[k] = m.byKey[l]
      BY <3>1, <3>3, <2>2
    <3> QED
      BY <3>1, <3>4 DEF Sound, KeysOwned
  <2> QED
    BY <2>1, <2>3, <2>4 DEF KeysOwned
<1>15. ExecutionsHeld(n)
  <2>1. /\ \A e \in m.live : e[1] \in Terminals /\ e[2] \in DOMAIN m.runs /\ e[2] \in m.hosted
        /\ m.hosted \subseteq DOMAIN m.runs
        /\ \A e, f \in m.live : e[1] = f[1] => e = f
    BY DEF Sound, ExecutionsHeld
  <2>2. \A g \in n.live : \E e \in m.live : g = <<e[1], Image(e[2])>>
    BY <1>1 DEF Image
  <2>3. n.live \subseteq Terminals \X D
    BY <2>1, <2>2, <1>5
  <2>4. n.hosted \subseteq D /\ \A g \in n.live : g[2] \in n.hosted
    BY <2>1, <2>2, <1>1, <1>5 DEF Image
  <2>5. \A g, h \in n.live : g[1] = h[1] => g = h
    <3> SUFFICES ASSUME NEW g \in n.live, NEW h \in n.live, g[1] = h[1] PROVE g = h
      OBVIOUS
    <3>1. PICK e \in m.live : g = <<e[1], Image(e[2])>>
      BY <2>2
    <3>2. PICK f \in m.live : h = <<f[1], Image(f[2])>>
      BY <2>2
    <3>3. e = f
      BY <3>1, <3>2, <2>1
    <3> QED
      BY <3>1, <3>2, <3>3
  <2> QED
    BY <2>3, <2>4, <2>5, <1>7 DEF ExecutionsHeld
<1>16. GraphsHold(n)
  <2>1. \A edges : edges \subseteq (DOMAIN m.runs) \X (DOMAIN m.runs)
                     => contract(edges, s, a) \subseteq D \X D
    BY <1>5 DEF contract, Image
  <2> QED
    BY <2>1, <1>1, <1>2, <1>7 DEF GraphsHold, Sound
<1>17. ReportsHeld(n)
  BY <1>1, <1>7 DEF Sound, ReportsHeld
<1>18. Follows(m, n)
  <2>1. \A k \in DOMAIN m.byKey : IsController(k) => m.byKey[k] # a
    BY <1>4 DEF Sound, KeysOwned
  <2> QED
    BY <2>1, <1>1, <1>5, <1>6, <1>7, <1>8 DEF Follows, Sound, Numbered
<1> QED
  BY <1>9, <1>10, <1>11, <1>14, <1>15, <1>16, <1>17, <1>18 DEF Sound, n

\* A binding keeps the state of every run it leaves, and every execution.
Bound(m, n) ==
  /\ Sound(n) /\ Follows(m, n)
  /\ n.nonLane = m.nonLane /\ n.next = m.next
  /\ DOMAIN n.runs \subseteq DOMAIN m.runs
  /\ \A r \in DOMAIN n.runs : n.runs[r].state = m.runs[r].state

LEMMA BoundItself == ASSUME NEW m, Sound(m) PROVE Bound(m, m)
BY FollowsItself DEF Bound

LEMMA BoundThrough ==
  ASSUME NEW m, NEW n, NEW o, Sound(m), Bound(m, n), Bound(n, o)
  PROVE  Bound(m, o)
<1>1. Follows(m, o)
  BY FollowsThrough DEF Bound
<1> QED
  BY <1>1 DEF Bound

\* The survivor of a checked merge keeps its state and takes over the executions.
LEMMA MergeKeeps ==
  ASSUME NEW m, Sound(m), NEW s \in DOMAIN m.runs, NEW a \in DOMAIN m.runs,
         preflight_merge(m, s, a)
  PROVE  LET n == merge_in_memory(m, s, a)
         IN  /\ Bound(m, n)
             /\ DOMAIN n.runs = DOMAIN m.runs \ {a}
             /\ n.live = {<<e[1], substitute(e[2], s, a)>> : e \in m.live}
<1> DEFINE b == RunAbsorbed(m, s, a)
           kept == touch([m.runs[s] EXCEPT !.ctl = @ \/ m.runs[a].ctl])
           entries == [inserted \in {s} |-> kept]
           n == insert_task_runs(b, entries)
<1>1. Sound(b) /\ Follows(m, b)
  BY AbsorbedKeeps
<1>2. /\ b.nonLane = m.nonLane /\ b.next = m.next
      /\ b.runs = [r \in DOMAIN m.runs \ {a} |-> m.runs[r]]
      /\ b.live = {<<e[1], substitute(e[2], s, a)>> : e \in m.live}
  <2>1. IsModel(m)
    BY DEF Sound, Typed
  <2>2. b = RunAbsorbed(m, s, a)
    OBVIOUS
  <2> HIDE DEF b
  <2>3. /\ b.nonLane = m.nonLane /\ b.next = m.next
        /\ b.runs = RunsWithout(m, a) /\ b.live = LiveMoved(m, s, a)
    BY <2>1, <2>2, AbsorbedFields
  <2> QED
    BY <2>3 DEF RunsWithout, LiveMoved
<1>3. n = merge_in_memory(m, s, a)
  BY DEF merge_in_memory, insert_task_run
<1>4. s # a
  BY DEF preflight_merge
<1>5. /\ kept \in Entries /\ kept.key = KeyOf(m, s) /\ kept.state = m.runs[s].state
      /\ m.runs[s].ctl => kept.ctl
  <2>1. m.runs[s] \in Entries /\ m.runs[a] \in Entries
    BY DEF Sound, Typed
  <2> QED
    BY <2>1 DEF touch, Entries, KeyOf
<1> HIDE DEF b, kept
<1>6. DOMAIN b.runs = DOMAIN m.runs \ {a} /\ s \in DOMAIN b.runs
      /\ \A r \in DOMAIN b.runs : b.runs[r] = m.runs[r]
  BY <1>2, <1>4
<1>7. Restates(b, entries)
  BY <1>5, <1>6 DEF Restates, KeyOf
<1>8. Sound(n) /\ Follows(b, n)
  BY <1>1, <1>7, RestateKeeps
<1>9. /\ OnlyRuns(b, n) /\ DOMAIN n.runs = DOMAIN b.runs
      /\ \A r \in DOMAIN b.runs : n.runs[r] = IF r \in {s} THEN kept ELSE b.runs[r]
  <2>1. /\ OnlyRuns(b, n) /\ DOMAIN n.runs = DOMAIN b.runs
        /\ \A r \in DOMAIN b.runs :
             n.runs[r] = IF r \in DOMAIN entries THEN entries[r] ELSE b.runs[r]
    BY <1>1, <1>7, RestateKeys
  <2> QED
    BY <2>1
<1> HIDE DEF n, entries
<1>10. Follows(m, n)
  BY <1>1, <1>8, FollowsThrough
<1>11. \A r \in DOMAIN n.runs : n.runs[r].state = m.runs[r].state
  BY <1>5, <1>6, <1>9
<1> QED
  BY <1>2, <1>3, <1>6, <1>8, <1>9, <1>10, <1>11 DEF Bound, OnlyRuns

\* A further key of a run.
LEMMA AliasFields ==
  ASSUME NEW m, IsModel(m), NEW key, NEW r
  PROVE  LET n == insert_task_run_alias(m, key, r)
         IN  /\ IsModel(n) /\ OnlyRuns(m, n) /\ n.runs = m.runs
             /\ n.byKey = [k \in DOMAIN m.byKey \cup {key} |-> IF k = key THEN r ELSE m.byKey[k]]
<1> DEFINE n == insert_task_run_alias(m, key, r)
           byKey == [k \in DOMAIN m.byKey \cup {key} |-> IF k = key THEN r ELSE m.byKey[k]]
<1>1. n = [m EXCEPT !.byKey = byKey]
  BY DEF insert_task_run_alias
<1> HIDE DEF byKey, n
<1>2. m \in [runs : {m.runs}, byKey : {m.byKey}, live : {m.live}, hosted : {m.hosted},
             parent : {m.parent}, needs : {m.needs}, nonLane : {m.nonLane}, next : {m.next}]
  BY DEF IsModel
<1>3. n \in [runs : {m.runs}, byKey : {byKey}, live : {m.live}, hosted : {m.hosted},
             parent : {m.parent}, needs : {m.needs}, nonLane : {m.nonLane}, next : {m.next}]
  BY <1>1, <1>2
<1>4. /\ OnlyRuns(m, n) /\ n.runs = m.runs /\ n.byKey = byKey
  BY <1>3 DEF OnlyRuns
<1>5. IsModel(n)
  BY <1>3, <1>4 DEF IsModel, OnlyRuns
<1> QED
  BY <1>4, <1>5 DEF n, byKey

\* A run that a Controller named gains the session as an alias.
LEMMA AliasKeeps ==
  ASSUME NEW m, Sound(m), NEW r \in DOMAIN m.runs, NEW sid \in Sids,
         Native(sid) \notin DOMAIN m.byKey, NativeKeys(m, r) = {}, IsController(KeyOf(m, r))
  PROVE  LET n == insert_task_run_alias(m, Native(sid), r)
         IN  Bound(m, n) /\ OnlyRuns(m, n) /\ n.runs = m.runs
<1> DEFINE key == Native(sid)
           n == insert_task_run_alias(m, key, r)
<1>1. /\ IsModel(n) /\ OnlyRuns(m, n) /\ n.runs = m.runs
      /\ n.byKey = [k \in DOMAIN m.byKey \cup {key} |-> IF k = key THEN r ELSE m.byKey[k]]
  <2>1. IsModel(m)
    BY DEF Sound, Typed
  <2> QED
    BY <2>1, AliasFields
<1>2. key \in AnyKey /\ IsNative(key) /\ ~IsProvisional(key) /\ ~IsController(key)
  BY KeyKinds
<1> HIDE DEF n, key
<1>3. /\ DOMAIN n.byKey = DOMAIN m.byKey \cup {key} /\ n.byKey[key] = r
      /\ \A k \in DOMAIN m.byKey : n.byKey[k] = m.byKey[k]
      /\ \A q : KeyOf(n, q) = KeyOf(m, q)
  BY <1>1 DEF key, KeyOf
<1>4. Typed(n)
  BY <1>1, <1>2 DEF Sound, Typed
<1>5. Numbered(n)
  BY <1>1, <1>2, <1>3, KeyKinds DEF Sound, Numbered, OnlyRuns
<1>6. KeysFound(n)
  <2>1. \A q \in DOMAIN m.runs : KeyOf(m, q) # key
    BY <1>2 DEF Sound, KeysFound, key
  <2> QED
    BY <1>1, <1>3, <2>1 DEF Sound, KeysFound
<1>7. KeysOwned(n)
  <2>1. \A k \in DOMAIN m.byKey : IsNative(k) => m.byKey[k] # r
    BY DEF NativeKeys
  <2> QED
    BY <1>2, <1>3, <2>1 DEF Sound, KeysOwned
<1>8. ExecutionsHeld(n) /\ GraphsHold(n) /\ ReportsHeld(n)
  BY <1>1 DEF Sound, ExecutionsHeld, GraphsHold, ReportsHeld, OnlyRuns
<1>9. Follows(m, n)
  <2>1. n.next = m.next /\ m.next \in Nat /\ n.runs = m.runs /\ n.nonLane = m.nonLane
    BY <1>1 DEF OnlyRuns, Sound, Numbered
  <2> QED
    BY <2>1, <1>3 DEF Follows
<1> QED
  BY <1>1, <1>4, <1>5, <1>6, <1>7, <1>8, <1>9 DEF Sound, Bound, OnlyRuns, n, key

\* A run found by its file or its pane is known by the session from now on, and keeps its key
\* as an alias.
LEMMA RekeyKeeps ==
  ASSUME NEW m, Sound(m), NEW r \in DOMAIN m.runs, NEW sid \in Sids,
         Native(sid) \notin DOMAIN m.byKey, NativeKeys(m, r) = {}, ~IsController(KeyOf(m, r))
  PROVE  LET n == apply_bind(m, r, Native(sid))
         IN  /\ Bound(m, n) /\ OnlyRuns(m, n) /\ DOMAIN n.runs = DOMAIN m.runs
<1> DEFINE key == Native(sid)
           old == KeyOf(m, r)
           entry == touch([m.runs[r] EXCEPT !.key = key])
           entries == [inserted \in {r} |-> entry]
           i == insert_task_runs(m, entries)
           former == {k \in DOMAIN m.byKey : \E q \in DOMAIN entries \cap DOMAIN m.runs :
                                               k = KeyOf(m, q) /\ m.byKey[k] = q}
           claimed == {entries[q].key : q \in DOMAIN entries}
           runs == [q \in DOMAIN m.runs \cup DOMAIN entries |->
                      IF q \in DOMAIN entries THEN entries[q] ELSE m.runs[q]]
           byKey == [k \in (DOMAIN m.byKey \ former) \cup claimed |->
                       IF k \in claimed THEN CHOOSE q \in DOMAIN entries : entries[q].key = k
                       ELSE m.byKey[k]]
           n == insert_task_run_alias(i, old, r)
<1>0. n = apply_bind(m, r, Native(sid))
  BY DEF apply_bind, insert_task_run
<1>1. key \in AnyKey /\ IsNative(key) /\ ~IsProvisional(key) /\ ~IsController(key)
  BY KeyKinds
<1>2. /\ old \in AnyKey /\ ~IsController(old) /\ ~IsNative(old)
      /\ old # key
      /\ old \in DOMAIN m.byKey => m.byKey[old] = r
  <2>1. old \in AnyKey
    BY DEF Sound, Typed, Entries, KeyOf
  <2>2. ~IsNative(old)
    BY DEF NativeKeys
  <2> QED
    BY <1>1, <2>1, <2>2 DEF Sound, KeysFound
<1>3. /\ entry \in Entries /\ entry.key = key /\ entry.ctl = m.runs[r].ctl
      /\ entry.state = m.runs[r].state
  <2>1. m.runs[r] \in Entries
    BY DEF Sound, Typed
  <2> QED
    BY <2>1, <1>1 DEF touch, Entries
<1>4. /\ IsModel(m) /\ m.runs \in [DOMAIN m.runs -> Entries]
      /\ m.byKey \in [DOMAIN m.byKey -> DOMAIN m.runs]
  BY DEF Sound, Typed
<1>5. IsModel(i) /\ OnlyRuns(m, i) /\ i.runs = runs /\ i.byKey = byKey
  <2>1. i = WithRuns(m, runs, byKey)
    BY DEF insert_task_runs, WithRuns
  <2> HIDE DEF runs, byKey, i
  <2> QED
    BY <1>4, <2>1, Fields DEF OnlyRuns
<1> HIDE DEF entry
<1>6. /\ DOMAIN runs = DOMAIN m.runs /\ runs[r] = entry
      /\ \A q \in DOMAIN m.runs : q # r => runs[q] = m.runs[q]
      /\ runs \in [DOMAIN m.runs -> Entries]
  BY <1>3, <1>4
<1>7. claimed = {key} /\ former = {k \in DOMAIN m.byKey : k = old}
  BY <1>2, <1>3
<1>8. /\ DOMAIN byKey = (DOMAIN m.byKey \ {old}) \cup {key}
      /\ byKey[key] = r
      /\ \A k \in DOMAIN m.byKey : k # old /\ k # key => byKey[k] = m.byKey[k]
  <2>1. (CHOOSE q \in DOMAIN entries : entries[q].key = key) = r
    BY <1>3
  <2> QED
    BY <1>7, <2>1
<1> HIDE DEF i, runs, byKey, n, key, old
<1>9. /\ IsModel(n) /\ OnlyRuns(m, n) /\ n.runs = runs
      /\ n.byKey = [k \in DOMAIN byKey \cup {old} |-> IF k = old THEN r ELSE byKey[k]]
  <2>1. /\ IsModel(n) /\ OnlyRuns(i, n) /\ n.runs = i.runs
        /\ n.byKey = [k \in DOMAIN i.byKey \cup {old} |-> IF k = old THEN r ELSE i.byKey[k]]
    BY <1>5, AliasFields DEF n
  <2> QED
    BY <1>5, <2>1 DEF OnlyRuns
<1>10. /\ DOMAIN n.byKey = DOMAIN m.byKey \cup {key, old}
       /\ n.byKey[key] = r /\ n.byKey[old] = r
       /\ \A k \in DOMAIN m.byKey : n.byKey[k] = m.byKey[k]
  <2>1. key \notin DOMAIN m.byKey
    BY DEF key
  <2> QED
    BY <1>2, <1>8, <1>9, <2>1
<1>11. /\ KeyOf(n, r) = key
       /\ \A q \in DOMAIN m.runs : q # r => KeyOf(n, q) = KeyOf(m, q)
       /\ \A q \in DOMAIN m.runs : /\ n.runs[q].state = m.runs[q].state
                                   /\ n.runs[q].ctl = m.runs[q].ctl
  BY <1>3, <1>6, <1>9 DEF KeyOf
<1>12. Typed(n)
  <2>1. \A k \in DOMAIN n.byKey : n.byKey[k] \in DOMAIN m.runs
    BY <1>4, <1>10
  <2> QED
    BY <1>1, <1>2, <1>6, <1>9, <1>10, <2>1 DEF Sound, Typed
<1>13. Numbered(n)
  <2>1. IsProvisional(old) => old = Provisional(r)
    BY DEF Sound, KeysFound, old
  <2>2. r \in Nat \ {0} /\ r < m.next
    BY DEF Sound, Numbered
  <2>3. \A q \in Nat : Provisional(q) \in DOMAIN n.byKey => q # 0 /\ q < m.next
    BY <1>1, <1>10, <2>1, <2>2, KeyKinds DEF Sound, Numbered
  <2> QED
    BY <1>6, <1>9, <2>3 DEF Sound, Numbered, OnlyRuns
<1>14. KeysFound(n)
  <2>1. \A q \in DOMAIN m.runs : q # r => KeyOf(m, q) # key /\ KeyOf(m, q) # old
    BY <1>1, KeysDistinct DEF Sound, KeysFound, key, old
  <2>2. ASSUME NEW q \in DOMAIN m.runs, q # r
        PROVE  /\ IsProvisional(KeyOf(n, q)) => KeyOf(n, q) = Provisional(q)
               /\ ~IsProvisional(KeyOf(n, q)) => KeyOf(n, q) \in DOMAIN n.byKey
               /\ KeyOf(n, q) \in DOMAIN n.byKey => n.byKey[KeyOf(n, q)] = q
    BY <1>10, <1>11, <2>1, <2>2 DEF Sound, KeysFound
  <2>3. ~IsProvisional(KeyOf(n, r)) /\ n.byKey[KeyOf(n, r)] = r
    BY <1>1, <1>10, <1>11
  <2>4. DOMAIN n.runs = DOMAIN m.runs
    BY <1>6, <1>9
  <2> QED
    BY <1>10, <1>11, <2>2, <2>3, <2>4 DEF KeysFound
<1>15. KeysOwned(n)
  <2>1. \A k \in DOMAIN m.byKey : IsNative(k) => m.byKey[k] # r
    BY DEF NativeKeys
  <2>2. \A k \in DOMAIN m.byKey : IsController(k) => m.byKey[k] # r
    BY DEF Sound, KeysOwned
  <2> QED
    BY <1>1, <1>2, <1>4, <1>10, <1>11, <2>1, <2>2 DEF Sound, KeysOwned
<1>16. ExecutionsHeld(n) /\ GraphsHold(n)
  BY <1>6, <1>9 DEF Sound, ExecutionsHeld, GraphsHold, OnlyRuns
<1>17. ReportsHeld(n)
  BY <1>6, <1>9, <1>11 DEF Sound, ReportsHeld, OnlyRuns
<1>18. Follows(m, n)
  <2>1. n.next = m.next /\ m.next \in Nat /\ n.nonLane = m.nonLane
    BY <1>9 DEF OnlyRuns, Sound, Numbered
  <2>2. \A k \in DOMAIN m.byKey : n.runs[m.byKey[k]].state = m.runs[m.byKey[k]].state
    BY <1>4, <1>11
  <2>3. DOMAIN n.runs = DOMAIN m.runs
    BY <1>6, <1>9
  <2> QED
    BY <2>1, <2>2, <2>3, <1>10 DEF Follows
<1> QED
  BY <1>0, <1>6, <1>9, <1>11, <1>12, <1>13, <1>14, <1>15, <1>16, <1>17, <1>18
     DEF Sound, Bound, OnlyRuns

\* Whatever key a run has, it can be bound to a session that nobody has.
LEMMA BindKeeps ==
  ASSUME NEW m, Sound(m), NEW r \in DOMAIN m.runs, NEW sid \in Sids,
         Native(sid) \notin DOMAIN m.byKey, NativeKeys(m, r) = {}
  PROVE  LET n == apply_bind(m, r, Native(sid))
         IN  Bound(m, n) /\ OnlyRuns(m, n) /\ DOMAIN n.runs = DOMAIN m.runs
<1>1. CASE ~IsController(KeyOf(m, r))
  BY <1>1, RekeyKeeps
<1>2. CASE IsController(KeyOf(m, r))
  <2> DEFINE b == insert_task_run_alias(m, Native(sid), r)
             entry == touch(m.runs[r])
             entries == [inserted \in {r} |-> entry]
             n == insert_task_runs(b, entries)
  <2>1. n = apply_bind(m, r, Native(sid))
    BY <1>2 DEF apply_bind, insert_task_run
  <2>2. Bound(m, b) /\ OnlyRuns(m, b) /\ b.runs = m.runs
    BY <1>2, AliasKeeps
  <2>3. /\ entry \in Entries /\ entry.key = KeyOf(m, r) /\ entry.ctl = m.runs[r].ctl
        /\ entry.state = m.runs[r].state
    <3>1. m.runs[r] \in Entries
      BY DEF Sound, Typed
    <3> QED
      BY <3>1 DEF touch, Entries, KeyOf
  <2> HIDE DEF b, entry
  <2>4. Restates(b, entries)
    BY <2>2, <2>3 DEF Restates, KeyOf
  <2>5. Sound(n) /\ Follows(b, n)
    BY <2>2, <2>4, RestateKeeps DEF Bound
  <2>6. /\ OnlyRuns(b, n) /\ DOMAIN n.runs = DOMAIN b.runs
        /\ \A q \in DOMAIN b.runs :
             n.runs[q] = IF q \in DOMAIN entries THEN entries[q] ELSE b.runs[q]
    BY <2>2, <2>4, RestateKeys DEF Bound
  <2>7. \A q \in DOMAIN n.runs : n.runs[q].state = b.runs[q].state
    <3>1. \A q \in DOMAIN b.runs : n.runs[q] = IF q = r THEN entry ELSE b.runs[q]
      BY <2>6
    <3> QED
      BY <3>1, <2>2, <2>3, <2>6
  <2> HIDE DEF n
  <2>8. Bound(b, n)
    BY <2>5, <2>6, <2>7 DEF Bound, OnlyRuns
  <2>9. Bound(m, n)
    BY <2>2, <2>8, BoundThrough
  <2> QED
    BY <2>1, <2>2, <2>6, <2>9 DEF OnlyRuns
<1> QED
  BY <1>1, <1>2

\* What a plan may ask for: to bind a session that nobody has to a run that has none, or a
\* merge that was checked.
Planned(m, plan, sid) ==
  /\ plan.do \in {"none", "conflict", "bind", "merge"}
  /\ plan.do = "bind" => /\ plan.survivor \in DOMAIN m.runs /\ sid \in Sids
                         /\ Native(sid) \notin DOMAIN m.byKey
                         /\ NativeKeys(m, plan.survivor) = {}
  /\ plan.do = "merge" => /\ plan.survivor \in DOMAIN m.runs /\ plan.absorbed \in DOMAIN m.runs
                          /\ preflight_merge(m, plan.survivor, plan.absorbed)

LEMMA PlanForms ==
  ASSUME NEW m, NEW sid
  PROVE  /\ Planned(m, NoChange, sid) /\ Planned(m, Conflict, sid)
         /\ \A s, a \in DOMAIN m.runs : Planned(m, planned_merge(m, s, a), sid)
         /\ \A r \in DOMAIN m.runs :
              sid \in Sids /\ Native(sid) \notin DOMAIN m.byKey /\ NativeKeys(m, r) = {}
                => Planned(m, Bind(r), sid)
BY DEF Planned, NoChange, Conflict, planned_merge, Bind

\* What identity.rs plans for a session is checked.
LEMMA PlansChecked ==
  ASSUME NEW m, Sound(m), NEW r \in DOMAIN m.runs, NEW sid \in Sids
  PROVE  /\ Planned(m, plan_native_session(m, r, sid), sid)
         /\ Planned(m, plan_controller_native(m, r, sid), sid)
         /\ KeyOf(m, r)[1] = "path" => Planned(m, plan_native_path_resolution(m, r, sid), sid)
<1>1. KeyOf(m, r) \in AnyKey
  BY DEF Sound, Typed, Entries, KeyOf
<1>2. Known(m, Native(sid)) <=> Native(sid) \in DOMAIN m.byKey
  BY DEF Known, Sound, Typed
<1>3. Known(m, Native(sid)) => m.byKey[Native(sid)] \in DOMAIN m.runs
  BY DEF Known
<1>4. ~IsController(KeyOf(m, r)) /\ ~IsNative(KeyOf(m, r)) => NativeKeys(m, r) = {}
  BY OneNative DEF Sound, KeysOwned
<1>5. IsProvisional(KeyOf(m, r)) \/ KeyOf(m, r)[1] = "path" => NativeKeys(m, r) = {}
  BY <1>1, <1>4, KeyKinds
<1> HIDE DEF NoChange, Conflict
<1>6. Planned(m, plan_native_session(m, r, sid), sid)
  BY <1>2, <1>3, <1>5, PlanForms DEF plan_native_session
<1>7. Planned(m, plan_controller_native(m, r, sid), sid)
  BY <1>2, <1>3, PlanForms DEF plan_controller_native
<1>8. KeyOf(m, r)[1] = "path" => Planned(m, plan_native_path_resolution(m, r, sid), sid)
  BY <1>2, <1>3, <1>5, PlanForms DEF plan_native_path_resolution
<1> QED
  BY <1>6, <1>7, <1>8

\* So is what it plans for a terminal.
LEMMA TerminalPlanChecked ==
  ASSUME NEW m, Sound(m), NEW r \in DOMAIN m.runs, NEW t \in Terminals, NEW sid
  PROVE  Planned(m, plan_controller_terminal(m, r, t), sid)
<1>1. CASE LiveOn(m, t) \subseteq {r}
  BY <1>1, PlanForms DEF plan_controller_terminal
<1>2. CASE ~(LiveOn(m, t) \subseteq {r})
  <2>1. CASE \E other \in DOMAIN m.runs :
               LiveOn(m, t) = {other} /\ ~IsController(KeyOf(m, other))
    <3> DEFINE other == CHOOSE other \in DOMAIN m.runs : LiveOn(m, t) = {other}
    <3>1. other \in DOMAIN m.runs
      BY <2>1
    <3>2. plan_controller_terminal(m, r, t) = planned_merge(m, r, other)
      BY <1>2, <2>1 DEF plan_controller_terminal
    <3> HIDE DEF other
    <3> QED
      BY <3>1, <3>2, PlanForms
  <2>2. CASE ~\E other \in DOMAIN m.runs :
                LiveOn(m, t) = {other} /\ ~IsController(KeyOf(m, other))
    BY <1>2, <2>2, PlanForms DEF plan_controller_terminal
  <2> QED
    BY <2>1, <2>2
<1> QED
  BY <1>1, <1>2

\* A step of an event that succeeds keeps the model sound.
LEMMA BindingKeeps ==
  ASSUME NEW m, Sound(m), NEW plan, NEW sid, Planned(m, plan, sid),
         NEW step, step = apply_binding(m, plan, sid)
  PROVE  /\ step.ok => Bound(m, step.m)
         /\ plan.do = "none" => step.ok /\ step.m = m
         /\ plan.do = "bind" => step.ok /\ step.m.live = m.live
         /\ plan.do = "merge" =>
              /\ step.ok
              /\ step.m.live = {<<e[1], substitute(e[2], plan.survivor, plan.absorbed)>>
                                  : e \in m.live}
         /\ plan.do = "conflict" => ~step.ok
<1>1. CASE plan.do = "none"
  BY <1>1, BoundItself DEF apply_binding, Ok
<1>2. CASE plan.do = "conflict"
  BY <1>2 DEF apply_binding, Fail
<1>3. CASE plan.do = "bind"
  <2>1. step = [ok |-> TRUE, m |-> apply_bind(m, plan.survivor, Native(sid))]
    BY <1>3 DEF apply_binding, Ok
  <2> QED
    BY <1>3, <2>1, BindKeeps DEF Planned, OnlyRuns
<1>4. CASE plan.do = "merge"
  <2>1. step = [ok |-> TRUE, m |-> merge_in_memory(m, plan.survivor, plan.absorbed)]
    BY <1>4 DEF apply_binding, Ok
  <2> QED
    BY <1>4, <2>1, MergeKeeps DEF Planned
<1> QED
  BY <1>1, <1>2, <1>3, <1>4 DEF Planned

LEMMA SessionKeeps ==
  ASSUME NEW m, Sound(m), NEW r, NEW sid \in Sids \cup {NoSid},
         NEW step, step = BindSession(m, r, sid), step.ok
  PROVE  Bound(m, step.m)
<1>1. CASE sid = NoSid \/ r \notin DOMAIN m.runs
  BY <1>1, BoundItself DEF BindSession, Ok
<1>2. CASE sid # NoSid /\ r \in DOMAIN m.runs
  <2> DEFINE plan == IF IsController(KeyOf(m, r)) THEN plan_controller_native(m, r, sid)
                     ELSE plan_native_session(m, r, sid)
  <2>1. Planned(m, plan, sid)
    BY <1>2, PlansChecked
  <2>2. step = apply_binding(m, plan, sid)
    BY <1>2 DEF BindSession
  <2> HIDE DEF plan
  <2> QED
    BY <2>1, <2>2, BindingKeeps
<1> QED
  BY <1>1, <1>2

LEMMA TerminalKeeps ==
  ASSUME NEW m, Sound(m), NEW r, NEW t \in Terminals \cup {NoTerminal},
         NEW step, step = BindTerminal(m, r, t), step.ok
  PROVE  Bound(m, step.m)
<1>1. CASE t = NoTerminal \/ r \notin DOMAIN m.runs \/ ~IsController(KeyOf(m, r))
  BY <1>1, BoundItself DEF BindTerminal, Ok
<1>2. CASE t # NoTerminal /\ r \in DOMAIN m.runs /\ IsController(KeyOf(m, r))
  <2> DEFINE plan == plan_controller_terminal(m, r, t)
  <2>1. Planned(m, plan, NoSid)
    BY <1>2, TerminalPlanChecked
  <2>2. step = apply_binding(m, plan, NoSid)
    BY <1>2 DEF BindTerminal
  <2> HIDE DEF plan
  <2> QED
    BY <2>1, <2>2, BindingKeeps
<1> QED
  BY <1>1, <1>2

LEMMA IdentityKeeps ==
  ASSUME NEW m, Sound(m), NEW r, NEW sid \in Sids \cup {NoSid},
         NEW t \in Terminals \cup {NoTerminal},
         NEW step, step = apply_identity_metadata(m, r, sid, t), step.ok
  PROVE  Bound(m, step.m)
<1> DEFINE bound == BindSession(m, r, sid)
<1>1. step = IF bound.ok THEN BindTerminal(bound.m, r, t) ELSE bound
  BY DEF apply_identity_metadata
<1> HIDE DEF bound
<1>2. bound.ok
  BY <1>1
<1>3. Bound(m, bound.m)
  BY <1>2, SessionKeeps DEF bound
<1>4. Bound(bound.m, step.m)
  BY <1>1, <1>2, <1>3, TerminalKeeps DEF Bound
<1> QED
  BY <1>3, <1>4, BoundThrough

-----------------------------------------------------------------------------
(* Executions.                                                             *)
\* No run is found to have ended.
Continues(m, n) ==
  /\ Sound(n) /\ Follows(m, n)
  /\ \A r \in DOMAIN m.runs \cap DOMAIN n.runs :
        n.runs[r].state = "EndedUnknown" => m.runs[r].state = "EndedUnknown"

LEMMA ContinuesItself == ASSUME NEW m, Sound(m) PROVE Continues(m, m)
BY FollowsItself DEF Continues

LEMMA ContinuesThrough ==
  ASSUME NEW m, NEW n, NEW o, Sound(m), Continues(m, n), Continues(n, o)
  PROVE  Continues(m, o)
<1>1. Follows(m, o)
  BY FollowsThrough DEF Continues
<1>2. \A r \in DOMAIN m.runs \cap DOMAIN o.runs : r \in DOMAIN n.runs
  <2> SUFFICES ASSUME NEW r \in DOMAIN m.runs, r \in DOMAIN o.runs PROVE r \in DOMAIN n.runs
    OBVIOUS
  <2>1. r \in Nat /\ r < m.next /\ m.next \in Nat /\ n.next \in Nat
    BY DEF Sound, Numbered, Continues
  <2>2. n.next >= m.next
    BY DEF Continues, Follows
  <2> QED
    BY <2>1, <2>2 DEF Continues, Follows
<1> QED
  BY <1>1, <1>2 DEF Continues

LEMMA BoundContinues == ASSUME NEW m, NEW n, Bound(m, n) PROVE Continues(m, n)
BY DEF Bound, Continues

\* Executions, edges and reports may be replaced as long as each part stays sound.
LEMMA PartsKeep ==
  ASSUME NEW m, Sound(m), NEW n, IsModel(n), n.runs = m.runs, n.byKey = m.byKey, n.next = m.next,
         m.nonLane \subseteq n.nonLane,
         \A r \in n.nonLane : r \in Nat /\ r < m.next,
         ExecutionsHeld(n), GraphsHold(n), ReportsHeld(n)
  PROVE  Continues(m, n)
<1>1. Typed(n) /\ Numbered(n)
  BY DEF Sound, Typed, Numbered
<1>2. KeysFound(n) /\ KeysOwned(n)
  BY DEF Sound, KeysFound, KeysOwned, KeyOf
<1>3. Follows(m, n)
  BY DEF Follows, Sound, Numbered
<1> QED
  BY <1>1, <1>2, <1>3 DEF Sound, Continues

\* An inferred end closes only runs without an execution and without a Controller.
LEMMA CloseKeeps ==
  ASSUME NEW m, Sound(m), NEW runs, runs \subseteq DOMAIN m.runs
  PROVE  LET n == close_run_without_live_execution(m, runs)
         IN  /\ Sound(n) /\ Follows(m, n) /\ OnlyStates(m, n)
             /\ \A r \in DOMAIN m.runs :
                  n.runs[r].state # m.runs[r].state =>
                    /\ r \in runs /\ n.runs[r].state = "EndedUnknown"
                    /\ ~HasLive(m, r) /\ ~m.runs[r].ctl
<1> DEFINE closing == {run \in runs : /\ ~HasLive(m, run) /\ ~m.runs[run].ctl
                                      /\ ~IsTerminal(m.runs[run].state)}
           n == SetState(m, closing, "EndedUnknown")
<1>1. closing \subseteq DOMAIN m.runs /\ \A r \in closing : m.runs[r].state \notin Outcomes
  BY DEF IsTerminal
<1>2. \A r \in closing : r \in runs /\ ~HasLive(m, r) /\ ~m.runs[r].ctl
  OBVIOUS
<1>3. n = close_run_without_live_execution(m, runs)
  BY DEF close_run_without_live_execution
<1> HIDE DEF closing
<1>4. /\ Sound(n) /\ Follows(m, n) /\ OnlyStates(m, n)
      /\ \A r \in DOMAIN m.runs :
           n.runs[r].state = IF r \in closing THEN "EndedUnknown" ELSE m.runs[r].state
  <2>1. "EndedUnknown" \in TaskStates \ {"Queued"}
    BY DEF TaskStates
  <2> QED
    BY <1>1, <2>1, SetStateKeeps
<1> HIDE DEF n
<1> QED
  BY <1>2, <1>3, <1>4

\* An execution sets a run to work.
LEMMA ActivateKeeps ==
  ASSUME NEW m, Sound(m), NEW runs, runs \subseteq DOMAIN m.runs
  PROVE  LET n == activate_for_live_execution(m, runs)
         IN  /\ Continues(m, n) /\ OnlyStates(m, n)
             /\ \A r \in DOMAIN m.runs :
                  n.runs[r].state # m.runs[r].state => n.runs[r].state = "Running"
<1> DEFINE waking == {run \in runs : \/ m.runs[run].state = "EndedUnknown"
                                     \/ m.runs[run].state = "Queued" /\ ~m.runs[run].ctl}
           n == SetState(m, waking, "Running")
<1>1. waking \subseteq DOMAIN m.runs /\ \A r \in waking : m.runs[r].state \notin Outcomes
  BY DEF Outcomes
<1>2. n = activate_for_live_execution(m, runs)
  BY DEF activate_for_live_execution
<1> HIDE DEF waking
<1>3. /\ Sound(n) /\ Follows(m, n) /\ OnlyStates(m, n)
      /\ \A r \in DOMAIN m.runs :
           n.runs[r].state = IF r \in waking THEN "Running" ELSE m.runs[r].state
  <2>1. "Running" \in TaskStates \ {"Queued"}
    BY DEF TaskStates
  <2> QED
    BY <1>1, <2>1, SetStateKeeps
<1> HIDE DEF n
<1> QED
  BY <1>2, <1>3 DEF Continues, OnlyStates

\* A pane's executions end, and the runs that have no other one close.
LEMMA EndKeeps ==
  ASSUME NEW m, Sound(m), NEW t, NEW runs, runs \subseteq DOMAIN m.runs
  PROVE  LET n == EndAll(m, t, runs)
         IN  /\ Sound(n) /\ Follows(m, n) /\ SameNames(m, n)
             /\ n.live = m.live \ ({t} \X runs)
             /\ n.nonLane = m.nonLane /\ n.next = m.next /\ DOMAIN n.runs = DOMAIN m.runs
             /\ \A r \in DOMAIN m.runs : KeyOf(n, r) = KeyOf(m, r)
             /\ \A r \in DOMAIN m.runs :
                  n.runs[r].state # m.runs[r].state =>
                    /\ r \in runs /\ n.runs[r].state = "EndedUnknown"
                    /\ ~HasLive(n, r) /\ ~m.runs[r].ctl
<1> DEFINE live == m.live \ ({t} \X runs)
           b == [m EXCEPT !.live = live]
           n == close_run_without_live_execution(b, runs)
<1>1. n = EndAll(m, t, runs)
  BY DEF EndAll, end_execution
<1>2. /\ IsModel(b) /\ b.live = live /\ b.runs = m.runs /\ b.byKey = m.byKey
      /\ b.hosted = m.hosted /\ b.parent = m.parent /\ b.needs = m.needs
      /\ b.nonLane = m.nonLane /\ b.next = m.next
  <2> HIDE DEF live
  <2>1. m \in [runs : {m.runs}, byKey : {m.byKey}, live : {m.live}, hosted : {m.hosted},
               parent : {m.parent}, needs : {m.needs}, nonLane : {m.nonLane}, next : {m.next}]
    BY DEF IsModel, Sound, Typed
  <2>2. b \in [runs : {m.runs}, byKey : {m.byKey}, live : {live}, hosted : {m.hosted},
               parent : {m.parent}, needs : {m.needs}, nonLane : {m.nonLane}, next : {m.next}]
    BY <2>1
  <2> HIDE DEF b
  <2>3. /\ b.live = live /\ b.runs = m.runs /\ b.byKey = m.byKey
        /\ b.hosted = m.hosted /\ b.parent = m.parent /\ b.needs = m.needs
        /\ b.nonLane = m.nonLane /\ b.next = m.next
    BY <2>2
  <2> QED
    BY <2>2, <2>3 DEF IsModel
<1> HIDE DEF b, n
<1>3. ExecutionsHeld(b) /\ GraphsHold(b) /\ ReportsHeld(b)
  BY <1>2 DEF Sound, ExecutionsHeld, GraphsHold, ReportsHeld
<1>4. Continues(m, b)
  <2>1. \A r \in b.nonLane : r \in Nat /\ r < m.next
    BY <1>2 DEF Sound, Numbered
  <2> QED
    BY <1>2, <1>3, <2>1, PartsKeep
<1>5. /\ Sound(n) /\ Follows(b, n) /\ OnlyStates(b, n)
      /\ \A r \in DOMAIN b.runs :
           n.runs[r].state # b.runs[r].state =>
             /\ r \in runs /\ n.runs[r].state = "EndedUnknown"
             /\ ~HasLive(b, r) /\ ~b.runs[r].ctl
  BY <1>2, <1>4, CloseKeeps DEF Continues, n
<1>6. Follows(m, n)
  BY <1>4, <1>5, FollowsThrough DEF Continues
<1>7. SameNames(m, n) /\ \A r \in DOMAIN m.runs : KeyOf(n, r) = KeyOf(m, r)
  BY <1>2, <1>5 DEF OnlyStates, SameNames, KeyOf
<1>8. \A r : HasLive(n, r) <=> HasLive(b, r)
  BY <1>5 DEF OnlyStates, OnlyRuns, HasLive
<1> QED
  BY <1>1, <1>2, <1>5, <1>6, <1>7, <1>8 DEF OnlyStates, OnlyRuns

\* One new run, the next one.
LEMMA NewRunKeeps ==
  ASSUME NEW m, Sound(m), NEW key \in AnyKey, NEW state \in TaskStates, NEW ctl \in BOOLEAN,
         key \notin DOMAIN m.byKey, IsProvisional(key) => key = Provisional(m.next)
  PROVE  LET n == NewRun(m, m.next, key, state, ctl)
         IN  /\ Continues(m, n)
             /\ n.live = m.live /\ n.hosted = m.hosted /\ n.parent = m.parent
             /\ n.needs = m.needs /\ n.nonLane = m.nonLane /\ n.next = m.next + 1
             /\ DOMAIN n.runs = DOMAIN m.runs \cup {m.next}
             /\ \A r \in DOMAIN m.runs : n.runs[r] = m.runs[r]
             /\ KeyOf(n, m.next) = key
             /\ DOMAIN n.byKey = DOMAIN m.byKey \cup {key} /\ n.byKey[key] = m.next
             /\ \A k \in DOMAIN m.byKey : n.byKey[k] = m.byKey[k]
<1> DEFINE entry == [key |-> key, state |-> state, ctl |-> ctl, dismissed |-> FALSE]
           entries == [new \in {m.next} |-> entry]
           n == NewRuns(m, entries, m.next + 1)
<1>0. n = NewRun(m, m.next, key, state, ctl)
  BY DEF NewRun
<1>1. entry \in Entries /\ entry.key = key
  BY DEF Entries
<1>2. m.next \in Nat /\ m.next + 1 \in Nat /\ m.next + 1 >= m.next /\ m.next < m.next + 1
  BY DEF Sound, Numbered
<1> HIDE DEF entry
<1>3. DOMAIN entries = {m.next} /\ entries[m.next] = entry
  OBVIOUS
<1> HIDE DEF entries
<1>4. New(m, entries, m.next + 1)
  BY <1>1, <1>2, <1>3 DEF New
<1>5. Sound(n) /\ Follows(m, n)
  BY <1>4, NewKeeps
<1>6. /\ n.live = m.live /\ n.hosted = m.hosted /\ n.parent = m.parent
      /\ n.needs = m.needs /\ n.nonLane = m.nonLane /\ n.next = m.next + 1
      /\ DOMAIN n.runs = DOMAIN m.runs \cup DOMAIN entries
      /\ \A r \in DOMAIN m.runs : n.runs[r] = m.runs[r]
      /\ \A r \in DOMAIN entries : n.runs[r] = entries[r]
      /\ DOMAIN n.byKey = DOMAIN m.byKey \cup {entries[r].key : r \in DOMAIN entries}
      /\ \A k \in DOMAIN m.byKey : n.byKey[k] = m.byKey[k]
      /\ \A r \in DOMAIN entries : n.byKey[entries[r].key] = r
  BY <1>4, NewKeys
<1> HIDE DEF n
<1>7. Continues(m, n)
  BY <1>5, <1>6 DEF Continues
<1>8. {entries[r].key : r \in DOMAIN entries} = {key}
  BY <1>1, <1>3
<1> QED
  BY <1>0, <1>1, <1>3, <1>6, <1>7, <1>8 DEF KeyOf

\* The run that an execution belongs to: a known one, or the next.
LEMMA EnsureKeeps ==
  ASSUME NEW m, Sound(m), NEW r, r \in DOMAIN m.runs \/ r = m.next, NEW sid \in Sids \cup {NoSid}
  PROVE  LET n == ensure_execution_run(m, r, sid)
         IN  /\ Continues(m, n) /\ r \in DOMAIN n.runs
             /\ n.live = m.live /\ n.hosted = m.hosted /\ n.nonLane = m.nonLane
             /\ \A q \in DOMAIN m.runs : q \in DOMAIN n.runs /\ KeyOf(n, q) = KeyOf(m, q)
             /\ r = m.next => /\ ~IsController(KeyOf(n, r))
                              /\ sid # NoSid =>
                                   /\ Known(n, Native(sid))
                                   /\ n.byKey[Native(sid)] =
                                        IF Known(m, Native(sid)) THEN m.byKey[Native(sid)] ELSE r
                              /\ Known(m, Native(sid)) => IsProvisional(KeyOf(n, r))
<1>0. m.next \notin DOMAIN m.runs
  BY DEF Sound, Numbered
<1>1. CASE r \in DOMAIN m.runs
  BY <1>0, <1>1, ContinuesItself DEF ensure_execution_run
<1>2. CASE r = m.next
  <2> DEFINE key == IF sid # NoSid /\ ~Known(m, Native(sid)) THEN Native(sid) ELSE Provisional(r)
             n == NewRun(m, r, key, "Running", FALSE)
  <2>1. n = ensure_execution_run(m, r, sid)
    BY <1>0, <1>2 DEF ensure_execution_run
  <2>2. Known(m, Native(sid)) <=> Native(sid) \in DOMAIN m.byKey
    BY DEF Known, Sound, Typed
  <2>3. r \in Nat /\ Provisional(r) \notin DOMAIN m.byKey
    BY <1>2 DEF Sound, Numbered
  <2>4. key \in AnyKey /\ key \notin DOMAIN m.byKey /\ ~IsController(key)
    BY <2>2, <2>3, KeyKinds
  <2>5. IsProvisional(key) => key = Provisional(r)
    BY KeyKinds
  <2>6. "Running" \in TaskStates
    BY DEF TaskStates
  <2>7. key = IF sid # NoSid /\ ~Known(m, Native(sid)) THEN Native(sid) ELSE Provisional(r)
    OBVIOUS
  <2> HIDE DEF key
  <2>8. /\ Continues(m, n)
        /\ n.live = m.live /\ n.hosted = m.hosted /\ n.nonLane = m.nonLane
        /\ DOMAIN n.runs = DOMAIN m.runs \cup {m.next}
        /\ \A q \in DOMAIN m.runs : n.runs[q] = m.runs[q]
        /\ KeyOf(n, m.next) = key
        /\ DOMAIN n.byKey = DOMAIN m.byKey \cup {key} /\ n.byKey[key] = m.next
        /\ \A k \in DOMAIN m.byKey : n.byKey[k] = m.byKey[k]
    <3>1. n = NewRun(m, m.next, key, "Running", FALSE)
      BY <1>2
    <3>2. IsProvisional(key) => key = Provisional(m.next)
      BY <1>2, <2>5
    <3> HIDE DEF n
    <3>3. key \in AnyKey /\ key \notin DOMAIN m.byKey
      BY <2>4
    <3> DEFINE ctl == FALSE
    <3>4. ctl \in BOOLEAN /\ n = NewRun(m, m.next, key, "Running", ctl)
      BY <3>1
    <3> HIDE DEF ctl
    <3>5. Continues(m, n) /\ KeyOf(n, m.next) = key
      BY <3>2, <3>3, <3>4, <2>6, NewRunKeeps
    <3>6. /\ n.live = m.live /\ n.hosted = m.hosted /\ n.nonLane = m.nonLane
          /\ DOMAIN n.runs = DOMAIN m.runs \cup {m.next}
      BY <3>2, <3>3, <3>4, <2>6, NewRunKeeps
    <3>7. /\ DOMAIN n.byKey = DOMAIN m.byKey \cup {key} /\ n.byKey[key] = m.next
          /\ \A k \in DOMAIN m.byKey : n.byKey[k] = m.byKey[k]
      BY <3>2, <3>3, <3>4, <2>6, NewRunKeeps
    <3>8. \A q \in DOMAIN m.runs : n.runs[q] = m.runs[q]
      BY <3>2, <3>3, <3>4, <2>6, NewRunKeeps
    <3> QED
      BY <3>5, <3>6, <3>7, <3>8
  <2> HIDE DEF n
  <2>9. sid # NoSid =>
          /\ Known(n, Native(sid))
          /\ n.byKey[Native(sid)] = IF Known(m, Native(sid)) THEN m.byKey[Native(sid)] ELSE r
    BY <1>2, <2>2, <2>7, <2>8 DEF Known
  <2>10. Known(m, Native(sid)) => IsProvisional(KeyOf(n, r))
    BY <1>2, <2>3, <2>7, <2>8, KeyKinds
  <2> QED
    BY <1>2, <2>1, <2>4, <2>8, <2>9, <2>10 DEF KeyOf
<1> QED
  BY <1>1, <1>2

\* A terminal without another live run takes one.
LEMMA HostingKeeps ==
  ASSUME NEW m, Sound(m), NEW r \in DOMAIN m.runs, NEW t \in Terminals,
         LiveOn(m, t) \subseteq {r}
  PROVE  LET n == Hosting(m, t, r)
         IN  /\ Continues(m, n)
             /\ n.live = m.live \cup {<<t, r>>} /\ n.runs = m.runs /\ n.byKey = m.byKey
             /\ n.nonLane = m.nonLane
<1> DEFINE live == m.live \cup {<<t, r>>}
           hosted == m.hosted \cup {r}
           n == [m EXCEPT !.live = live, !.hosted = hosted]
<1>1. n = Hosting(m, t, r)
  BY DEF Hosting
<1>2. /\ IsModel(n) /\ n.live = live /\ n.runs = m.runs /\ n.byKey = m.byKey
      /\ n.hosted = hosted /\ n.parent = m.parent /\ n.needs = m.needs
      /\ n.nonLane = m.nonLane /\ n.next = m.next
  <2> HIDE DEF live, hosted
  <2>1. m \in [runs : {m.runs}, byKey : {m.byKey}, live : {m.live}, hosted : {m.hosted},
               parent : {m.parent}, needs : {m.needs}, nonLane : {m.nonLane}, next : {m.next}]
    BY DEF IsModel, Sound, Typed
  <2>2. n \in [runs : {m.runs}, byKey : {m.byKey}, live : {live}, hosted : {hosted},
               parent : {m.parent}, needs : {m.needs}, nonLane : {m.nonLane}, next : {m.next}]
    BY <2>1
  <2> HIDE DEF n
  <2>3. /\ n.live = live /\ n.runs = m.runs /\ n.byKey = m.byKey
        /\ n.hosted = hosted /\ n.parent = m.parent /\ n.needs = m.needs
        /\ n.nonLane = m.nonLane /\ n.next = m.next
    BY <2>2
  <2> QED
    BY <2>2, <2>3 DEF IsModel
<1> HIDE DEF n
<1>3. GraphsHold(n) /\ ReportsHeld(n)
  BY <1>2 DEF Sound, GraphsHold, ReportsHeld
<1>4. ExecutionsHeld(n)
  <2>1. \A e \in m.live : e \in Terminals \X (DOMAIN m.runs) /\ (e[1] = t => e = <<t, r>>)
    BY DEF Sound, ExecutionsHeld, LiveOn
  <2> QED
    BY <1>2, <2>1 DEF Sound, ExecutionsHeld
<1>5. \A q \in n.nonLane : q \in Nat /\ q < m.next
  BY <1>2 DEF Sound, Numbered
<1>6. Continues(m, n)
  BY <1>2, <1>3, <1>4, <1>5, PartsKeep
<1> QED
  BY <1>1, <1>2, <1>6

\* Beginning an execution, the bindings it carries included, ends no run.
LEMMA BeginKeeps ==
  ASSUME NEW m, Sound(m), NEW r, r \in DOMAIN m.runs \/ r = m.next, NEW t \in Terminals,
         NEW sid \in Sids \cup {NoSid}, LiveOn(m, t) \subseteq {r},
         NEW step, step = execution_begin(m, t, r, sid), step.ok
  PROVE  Continues(m, step.m)
<1> DEFINE a == ensure_execution_run(m, r, sid)
           b == Hosting(a, t, r)
           bound == apply_identity_metadata(b, r, sid, t)
<1>1. step = IF bound.ok THEN Ok(Activated(bound.m, t)) ELSE bound
  BY DEF execution_begin
<1>2. Continues(m, a) /\ r \in DOMAIN a.runs /\ a.live = m.live
  BY EnsureKeeps
<1> HIDE DEF a
<1>3. LiveOn(a, t) \subseteq {r}
  BY <1>2 DEF LiveOn, Sound, ExecutionsHeld
<1>4. Continues(a, b)
  BY <1>2, <1>3, HostingKeeps DEF Continues
<1> HIDE DEF b, bound
<1>5. bound.ok /\ step.m = Activated(bound.m, t)
  BY <1>1 DEF Ok
<1>6. Bound(b, bound.m)
  BY <1>4, <1>5, IdentityKeeps DEF Continues, bound
<1>7. Continues(b, bound.m)
  BY <1>6, BoundContinues
<1>8. Continues(bound.m, step.m)
  <2>1. LiveOn(bound.m, t) \subseteq DOMAIN bound.m.runs
    BY DEF LiveOn
  <2>2. step.m = activate_for_live_execution(bound.m, LiveOn(bound.m, t))
    BY <1>5 DEF Activated
  <2> QED
    BY <1>7, <2>1, <2>2, ActivateKeeps DEF Continues
<1> QED
  BY <1>2, <1>4, <1>7, <1>8, ContinuesThrough DEF Continues

-----------------------------------------------------------------------------
(* Controller events.                                                      *)
\* What a Controller announces is a task state, and never an inferred end.
LEMMA Targets ==
  ASSUME NEW e
  PROVE  /\ Target(e) \in {"none", "Running", "Blocked", "Queued"} \cup Outcomes
         /\ Target(e) # "none" => Target(e) \in TaskStates /\ Target(e) # "EndedUnknown"
BY DEF Target, controller_target_state, Outcomes, TaskStates

\* No announcement changes an outcome, or queues again what has begun.
LEMMA Transitions ==
  ASSUME NEW current \in TaskStates, NEW target \in {"Running", "Blocked", "Queued"} \cup Outcomes
  PROVE  LET next == controller_task_transition(current, target)
         IN  /\ next \in TaskStates /\ next # "EndedUnknown"
             /\ current \in Outcomes => next = current
             /\ current # "Queued" => next # "Queued"
BY DEF controller_task_transition, Outcomes, TaskStates

\* The subject of an event and the run it is related to exist once the event is staged.
LEMMA StagedKeeps ==
  ASSUME NEW m, Sound(m), NEW e \in Events
  PROVE  LET n == ensure_controller_placeholder(ensure_metadata_run(m, e), Other(m, e), e.other)
         IN  /\ Continues(m, n) /\ Subject(m, e) \in DOMAIN n.runs /\ Other(m, e) \in DOMAIN n.runs
             /\ ControllerKey(e.subject) \in DOMAIN n.byKey
             /\ n.byKey[ControllerKey(e.subject)] = Subject(m, e)
<1> DEFINE a == ensure_metadata_run(m, e)
           n == ensure_controller_placeholder(a, Other(m, e), e.other)
<1>0. e.subject \in Names /\ e.other \in Names
  BY DEF Events
<1>1. \A x : Sound(x) => \A name \in Names :
        Known(x, ControllerKey(name)) <=> ControllerKey(name) \in DOMAIN x.byKey
  BY DEF Known, Sound, Typed
<1>2. m.next \notin DOMAIN m.runs /\ m.next \in Nat
  BY DEF Sound, Numbered
<1>3. /\ Known(m, ControllerKey(e.subject)) => Subject(m, e) \in DOMAIN m.runs
      /\ ~Known(m, ControllerKey(e.subject)) => Subject(m, e) = m.next
  BY DEF Subject, resolve_controller_run, Known
<1>4. /\ Continues(m, a) /\ Subject(m, e) \in DOMAIN a.runs
      /\ DOMAIN m.runs \subseteq DOMAIN a.runs
      /\ Known(m, ControllerKey(e.subject)) => a = m
      /\ ~Known(m, ControllerKey(e.subject)) =>
           /\ a.next = m.next + 1
           /\ DOMAIN a.byKey = DOMAIN m.byKey \cup {ControllerKey(e.subject)}
      /\ ControllerKey(e.subject) \in DOMAIN a.byKey
      /\ a.byKey[ControllerKey(e.subject)] = Subject(m, e)
  <2>1. CASE Known(m, ControllerKey(e.subject))
    <3>1. a = m
      BY <1>3, <2>1 DEF ensure_metadata_run
    <3>2. /\ ControllerKey(e.subject) \in DOMAIN m.byKey
          /\ m.byKey[ControllerKey(e.subject)] = Subject(m, e)
      BY <2>1 DEF Subject, resolve_controller_run, Known
    <3> HIDE DEF a
    <3> QED
      BY <1>3, <2>1, <3>1, <3>2, ContinuesItself
  <2>2. CASE ~Known(m, ControllerKey(e.subject))
    <3> DEFINE key == ControllerKey(e.subject)
               state == IF Target(e) = "none" THEN "Queued" ELSE Target(e)
               ctl == Target(e) # "none"
    <3>1. a = NewRun(m, m.next, key, state, ctl)
      BY <1>2, <1>3, <2>2 DEF ensure_metadata_run
    <3>2. key \in AnyKey /\ ~IsProvisional(key) /\ key \notin DOMAIN m.byKey
      BY <1>0, <1>1, <2>2, KeyKinds
    <3>3. state \in TaskStates
      BY Targets DEF TaskStates
    <3>4. ctl \in BOOLEAN
      OBVIOUS
    <3> HIDE DEF key, state, ctl, a
    <3>5. Continues(m, a)
      BY <3>1, <3>2, <3>3, <3>4, NewRunKeeps
    <3>6. a.next = m.next + 1 /\ DOMAIN a.runs = DOMAIN m.runs \cup {m.next}
      BY <3>1, <3>2, <3>3, <3>4, NewRunKeeps
    <3>7. DOMAIN a.byKey = DOMAIN m.byKey \cup {key} /\ a.byKey[key] = m.next
      BY <3>1, <3>2, <3>3, <3>4, NewRunKeeps
    <3> QED
      BY <1>3, <2>2, <3>5, <3>6, <3>7 DEF key
  <2> QED
    BY <2>1, <2>2
<1> HIDE DEF a
<1>5. CASE Other(m, e) \in DOMAIN a.runs
  <2>1. n = a
    BY <1>5 DEF ensure_controller_placeholder
  <2> HIDE DEF n
  <2> QED
    BY <1>4, <1>5, <2>1 DEF n, a
<1>6. CASE Other(m, e) \notin DOMAIN a.runs
  <2>1. e.other # e.subject
    BY <1>4, <1>6 DEF Other
  <2>2. ~Known(m, ControllerKey(e.other))
    BY <1>4, <1>6, <2>1 DEF Other, Known
  <2>3. Other(m, e) = a.next
    BY <1>4, <2>1, <2>2 DEF Other
  <2> DEFINE key == ControllerKey(e.other)
             ctl == FALSE
  <2>4. key \notin DOMAIN a.byKey
    BY <1>0, <1>1, <1>4, <2>1, <2>2, KeyKinds
  <2>5. key \in AnyKey /\ ~IsProvisional(key) /\ "Queued" \in TaskStates /\ ctl \in BOOLEAN
    BY <1>0, KeyKinds DEF TaskStates
  <2>6. n = NewRun(a, a.next, key, "Queued", ctl)
    BY <1>6, <2>3 DEF ensure_controller_placeholder
  <2> HIDE DEF key, ctl, n
  <2>7. Continues(a, n)
    BY <1>4, <2>4, <2>5, <2>6, NewRunKeeps DEF Continues
  <2>8. DOMAIN n.runs = DOMAIN a.runs \cup {a.next}
    BY <1>4, <2>4, <2>5, <2>6, NewRunKeeps DEF Continues
  <2>9. Continues(m, n)
    BY <1>4, <2>7, ContinuesThrough
  <2>10. /\ ControllerKey(e.subject) \in DOMAIN n.byKey
         /\ n.byKey[ControllerKey(e.subject)] = Subject(m, e)
    BY <1>0, <1>4, <2>7, KeyKinds DEF Continues, Follows
  <2> QED
    BY <1>4, <2>3, <2>8, <2>9, <2>10 DEF n, a
<1> QED
  BY <1>5, <1>6

\* What the event says of the subject's state, which is a report unless a log said it, and the
\* edge it announces.
LEMMA MetadataKeeps ==
  ASSUME NEW m, Sound(m), NEW e, NEW s \in DOMAIN m.runs, NEW o \in DOMAIN m.runs,
         validate_controller_transition(m, e, s, o)
  PROVE  LET n == apply_controller_metadata(m, e, s, o)
         IN  Continues(m, n) /\ (~e.lane /\ Target(e) # "none" => s \in n.nonLane)
<1> DEFINE entry == touch([m.runs[s] EXCEPT !.ctl = TRUE,
                                            !.state = controller_task_transition(@, Target(e))])
           entries == [inserted \in {s} |-> entry]
           i == insert_task_runs(m, entries)
           nonLane == IF e.lane THEN i.nonLane ELSE i.nonLane \cup {s}
           stated == IF Target(e) = "none" THEN m ELSE [i EXCEPT !.nonLane = nonLane]
           parent == IF e.kind = "dispatch" THEN stated.parent \cup {<<o, s>>} ELSE stated.parent
           needs == IF e.kind = "depends_on" THEN stated.needs \cup {<<o, s>>} ELSE stated.needs
           n == [stated EXCEPT !.parent = parent, !.needs = needs]
<1>0. n = apply_controller_metadata(m, e, s, o)
  BY DEF apply_controller_metadata, insert_task_run
<1>1. Continues(m, stated) /\ DOMAIN stated.runs = DOMAIN m.runs
      /\ stated.parent = m.parent /\ stated.needs = m.needs
      /\ (~e.lane /\ Target(e) # "none" => s \in stated.nonLane)
  <2>1. CASE Target(e) = "none"
    BY <2>1, ContinuesItself
  <2>2. CASE Target(e) # "none"
    <3>1. /\ entry \in Entries /\ entry.key = KeyOf(m, s) /\ entry.ctl = TRUE
          /\ entry.state # "EndedUnknown"
          /\ m.runs[s].state \in Outcomes => entry.state = m.runs[s].state
          /\ m.runs[s].state # "Queued" => entry.state # "Queued"
      <4>1. m.runs[s] \in Entries
        BY DEF Sound, Typed
      <4> DEFINE next == controller_task_transition(m.runs[s].state, Target(e))
      <4>2. /\ next \in TaskStates /\ next # "EndedUnknown"
            /\ m.runs[s].state \in Outcomes => next = m.runs[s].state
            /\ m.runs[s].state # "Queued" => next # "Queued"
        BY <2>2, <4>1, Targets, Transitions DEF Entries
      <4>3. entry = touch([m.runs[s] EXCEPT !.ctl = TRUE, !.state = next])
        OBVIOUS
      <4> HIDE DEF next, entry
      <4> QED
        BY <4>1, <4>2, <4>3 DEF touch, Entries, KeyOf
    <3> HIDE DEF entry
    <3>2. Restates(m, entries)
      BY <3>1 DEF Restates
    <3>3. Sound(i) /\ Follows(m, i)
      BY <3>2, RestateKeeps
    <3>4. /\ OnlyRuns(m, i) /\ DOMAIN i.runs = DOMAIN m.runs
          /\ \A r \in DOMAIN m.runs :
               i.runs[r] = IF r \in DOMAIN entries THEN entries[r] ELSE m.runs[r]
      BY <3>2, RestateKeys
    <3>5. \A r \in DOMAIN m.runs : i.runs[r] = IF r = s THEN entry ELSE m.runs[r]
      BY <3>4
    <3> HIDE DEF i, entries
    <3>6. Continues(m, i)
      BY <3>1, <3>3, <3>4, <3>5 DEF Continues
    <3> DEFINE t == [i EXCEPT !.nonLane = nonLane]
    <3>7. /\ IsModel(t) /\ t.nonLane = nonLane /\ t.runs = i.runs /\ t.byKey = i.byKey
          /\ t.live = i.live /\ t.hosted = i.hosted /\ t.parent = i.parent /\ t.needs = i.needs
          /\ t.next = i.next
      <4> HIDE DEF nonLane
      <4>1. i \in [runs : {i.runs}, byKey : {i.byKey}, live : {i.live}, hosted : {i.hosted},
                   parent : {i.parent}, needs : {i.needs}, nonLane : {i.nonLane}, next : {i.next}]
        BY <3>3 DEF IsModel, Sound, Typed
      <4>2. t \in [runs : {i.runs}, byKey : {i.byKey}, live : {i.live}, hosted : {i.hosted},
                   parent : {i.parent}, needs : {i.needs}, nonLane : {nonLane}, next : {i.next}]
        BY <4>1
      <4> HIDE DEF t
      <4>3. /\ t.nonLane = nonLane /\ t.runs = i.runs /\ t.byKey = i.byKey
            /\ t.live = i.live /\ t.hosted = i.hosted /\ t.parent = i.parent
            /\ t.needs = i.needs /\ t.next = i.next
        BY <4>2
      <4> QED
        BY <4>2, <4>3 DEF IsModel
    <3>8. /\ i.nonLane \subseteq nonLane /\ nonLane \subseteq i.nonLane \cup {s}
          /\ ~e.lane => s \in nonLane
      OBVIOUS
    <3> HIDE DEF t, nonLane
    <3>9. ExecutionsHeld(t) /\ GraphsHold(t) /\ ReportsHeld(t)
      <4>1. i.runs[s].ctl
        BY <3>1, <3>5
      <4> QED
        BY <3>3, <3>7, <3>8, <4>1 DEF Sound, ExecutionsHeld, GraphsHold, ReportsHeld
    <3>10. \A r \in t.nonLane : r \in Nat /\ r < i.next
      BY <3>3, <3>4, <3>7, <3>8 DEF Sound, Numbered
    <3>11. Continues(i, t)
      BY <3>3, <3>7, <3>8, <3>9, <3>10, PartsKeep
    <3>12. Continues(m, t)
      BY <3>6, <3>11, ContinuesThrough
    <3> QED
      BY <2>2, <3>4, <3>7, <3>8, <3>12 DEF OnlyRuns, t
  <2> QED
    BY <2>1, <2>2
<1> HIDE DEF stated
<1>2. /\ IsModel(n) /\ n.parent = parent /\ n.needs = needs /\ n.runs = stated.runs
      /\ n.byKey = stated.byKey /\ n.live = stated.live /\ n.hosted = stated.hosted
      /\ n.nonLane = stated.nonLane /\ n.next = stated.next
  <2> HIDE DEF parent, needs
  <2>1. stated \in [runs : {stated.runs}, byKey : {stated.byKey}, live : {stated.live},
                    hosted : {stated.hosted}, parent : {stated.parent}, needs : {stated.needs},
                    nonLane : {stated.nonLane}, next : {stated.next}]
    BY <1>1 DEF IsModel, Continues, Sound, Typed
  <2>2. n \in [runs : {stated.runs}, byKey : {stated.byKey}, live : {stated.live},
               hosted : {stated.hosted}, parent : {parent}, needs : {needs},
               nonLane : {stated.nonLane}, next : {stated.next}]
    BY <2>1
  <2> HIDE DEF n
  <2>3. /\ n.parent = parent /\ n.needs = needs /\ n.runs = stated.runs
        /\ n.byKey = stated.byKey /\ n.live = stated.live /\ n.hosted = stated.hosted
        /\ n.nonLane = stated.nonLane /\ n.next = stated.next
    BY <2>2
  <2> QED
    BY <2>2, <2>3 DEF IsModel
<1>3. /\ e.kind = "dispatch" => preflight_execution_edge(m, <<o, s>>)
      /\ e.kind = "depends_on" => preflight_dependency_edge(m, <<o, s>>)
  BY DEF validate_controller_transition, Ends
<1>4. /\ parent \subseteq (DOMAIN m.runs) \X (DOMAIN m.runs)
      /\ needs \subseteq (DOMAIN m.runs) \X (DOMAIN m.runs)
      /\ OneParent(parent) /\ ~graph_has_cycle(parent) /\ ~graph_has_cycle(needs)
  BY <1>1, <1>3 DEF Sound, GraphsHold, preflight_execution_edge, preflight_dependency_edge
<1> HIDE DEF n, parent, needs
<1>5. GraphsHold(n)
  BY <1>1, <1>2, <1>4 DEF GraphsHold
<1>6. ExecutionsHeld(n) /\ ReportsHeld(n)
  BY <1>1, <1>2 DEF Continues, Sound, ExecutionsHeld, ReportsHeld
<1>7. \A r \in n.nonLane : r \in Nat /\ r < stated.next
  BY <1>1, <1>2 DEF Continues, Sound, Numbered
<1>8. Continues(stated, n)
  BY <1>1, <1>2, <1>5, <1>6, <1>7, PartsKeep DEF Continues
<1> QED
  BY <1>0, <1>1, <1>2, <1>8, ContinuesThrough

\* A Controller event ends no run by inference, and what it reports stays with the name's run.
LEMMA ControllerEventKeeps ==
  ASSUME NEW m, Sound(m), NEW e \in Events,
         NEW step, step = validate_controller_event(m, e), step.ok
  PROVE  /\ Continues(m, step.m)
         /\ ~e.lane /\ Target(e) # "none" =>
              /\ ControllerKey(e.subject) \in DOMAIN step.m.byKey
              /\ step.m.byKey[ControllerKey(e.subject)] \in step.m.nonLane
<1> DEFINE s == Subject(m, e)
           o == Other(m, e)
           staged == ensure_controller_placeholder(ensure_metadata_run(m, e), o, e.other)
<1>1. CASE RecordedOnly(m, e)
  <2>1. step.m = m
    BY <1>1 DEF validate_controller_event, Ok
  <2>2. e.lane \/ Target(e) = "none"
    BY <1>1 DEF RecordedOnly, Target, controller_target_state
  <2> QED
    BY <2>1, <2>2, ContinuesItself
<1>2. CASE ~RecordedOnly(m, e) /\ e.kind = "dismiss"
  <2>1. Known(m, ControllerKey(e.subject))
    BY <1>2 DEF RecordedOnly
  <2>2. {s} \subseteq DOMAIN m.runs
    BY <2>1 DEF Subject, resolve_controller_run, Known
  <2>3. step.m = Dismiss(m, {s})
    BY <1>2 DEF validate_controller_event, Ok
  <2>4. Target(e) = "none"
    BY <1>2 DEF Target, controller_target_state
  <2> HIDE DEF s
  <2> QED
    BY <2>2, <2>3, <2>4, DismissKeeps DEF Continues, OnlyStates
<1>3. CASE ~RecordedOnly(m, e) /\ e.kind # "dismiss"
  <2>1. /\ Continues(m, staged) /\ s \in DOMAIN staged.runs /\ o \in DOMAIN staged.runs
        /\ ControllerKey(e.subject) \in DOMAIN staged.byKey
        /\ staged.byKey[ControllerKey(e.subject)] = s
    BY StagedKeeps
  <2>2. step = IF ~validate_controller_transition(staged, e, s, o) THEN Fail(m)
               ELSE apply_identity_metadata(apply_controller_metadata(staged, e, s, o),
                                            s, e.sid, e.terminal)
    BY <1>3 DEF validate_controller_event, Mutated
  <2> HIDE DEF s, o, staged
  <2> DEFINE said == apply_controller_metadata(staged, e, s, o)
  <2>3. /\ validate_controller_transition(staged, e, s, o)
        /\ step = apply_identity_metadata(said, s, e.sid, e.terminal)
    BY <2>2 DEF Fail
  <2>4. Continues(staged, said) /\ (~e.lane /\ Target(e) # "none" => s \in said.nonLane)
    BY <2>1, <2>3, MetadataKeeps DEF Continues
  <2> HIDE DEF said
  <2>5. e.sid \in Sids \cup {NoSid} /\ e.terminal \in Terminals \cup {NoTerminal}
    BY DEF Events
  <2>6. Bound(said, step.m)
    BY <2>3, <2>4, <2>5, IdentityKeeps DEF Continues
  <2>7. Continues(said, step.m)
    BY <2>6, BoundContinues
  <2>8. Continues(staged, step.m)
    BY <2>1, <2>4, <2>7, ContinuesThrough DEF Continues
  <2>9. /\ ControllerKey(e.subject) \in DOMAIN step.m.byKey
        /\ step.m.byKey[ControllerKey(e.subject)] = s
    <3>1. e.subject \in Names
      BY DEF Events
    <3> QED
      BY <2>1, <2>8, <3>1, KeyKinds DEF Continues, Follows
  <2>10. said.nonLane \subseteq step.m.nonLane
    BY <2>7 DEF Continues, Follows
  <2> QED
    BY <2>1, <2>4, <2>8, <2>9, <2>10, ContinuesThrough DEF Continues
<1> QED
  BY <1>1, <1>2, <1>3

-----------------------------------------------------------------------------
(* Panes, snapshots and sweeps.                                            *)
\* A run without an execution gets none from another agent's beginning elsewhere, unless it
\* owns the session that agent names.
LEMMA BeginElsewhere ==
  ASSUME NEW m, Sound(m), NEW t \in Terminals, LiveOn(m, t) = {}, NEW sid \in Sids \cup {NoSid},
         NEW x \in DOMAIN m.runs, ~HasLive(m, x),
         ~(sid # NoSid /\ Known(m, Native(sid)) /\ m.byKey[Native(sid)] = x),
         NEW step, step = execution_begin(m, t, m.next, sid), step.ok
  PROVE  ~HasLive(step.m, x)
<1> DEFINE r == m.next
           a == ensure_execution_run(m, r, sid)
           b == Hosting(a, t, r)
           c == BindSession(b, r, sid)
           bound == apply_identity_metadata(b, r, sid, t)
<1>1. step = IF bound.ok THEN Ok(Activated(bound.m, t)) ELSE bound
  BY DEF execution_begin
<1>2. bound = IF c.ok THEN BindTerminal(c.m, r, t) ELSE c
  BY DEF apply_identity_metadata
<1>3. r \notin DOMAIN m.runs /\ x # r
  BY DEF Sound, Numbered
<1>4. /\ Continues(m, a) /\ r \in DOMAIN a.runs /\ a.live = m.live
      /\ ~IsController(KeyOf(a, r))
      /\ sid # NoSid => /\ Known(a, Native(sid))
                        /\ a.byKey[Native(sid)] =
                             IF Known(m, Native(sid)) THEN m.byKey[Native(sid)] ELSE r
  BY EnsureKeeps
<1> HIDE DEF a
<1>5. LiveOn(a, t) \subseteq {r}
  BY <1>4 DEF LiveOn, Sound, ExecutionsHeld
<1>6. /\ Continues(a, b) /\ b.live = m.live \cup {<<t, r>>}
      /\ b.runs = a.runs /\ b.byKey = a.byKey
  BY <1>4, <1>5, HostingKeeps DEF Continues
<1> HIDE DEF b, c, bound, r
<1>7. bound.ok /\ step.m = Activated(bound.m, t)
  BY <1>1 DEF Ok
<1>8. c.ok /\ bound = BindTerminal(c.m, r, t)
  BY <1>2, <1>7
<1>9. ~HasLive(b, x)
  BY <1>3, <1>6 DEF HasLive
<1>10. ~HasLive(c.m, x) /\ Bound(b, c.m) /\ (r \in DOMAIN c.m.runs => ~IsController(KeyOf(c.m, r)))
  <2>0. Sound(b) /\ r \in DOMAIN b.runs /\ ~IsController(KeyOf(b, r))
    BY <1>4, <1>6 DEF Continues, KeyOf
  <2>1. Bound(b, c.m)
    BY <2>0, <1>8, SessionKeeps DEF c
  <2>2. CASE sid = NoSid
    <3>1. c.m = b
      BY <2>2 DEF c, BindSession, Ok
    <3> QED
      BY <3>1, <2>0, <2>1, <1>9
  <2>3. CASE sid # NoSid
    <3> DEFINE plan == plan_native_session(b, r, sid)
               owner == b.byKey[Native(sid)]
    <3>1. c = apply_binding(b, plan, sid)
      BY <2>0, <2>3 DEF c, BindSession
    <3>2. Planned(b, plan, sid)
      BY <2>0, <2>3, PlansChecked
    <3>3. Known(b, Native(sid)) /\ owner # x
      BY <1>3, <1>4, <1>6, <2>3 DEF Known
    <3>4. \/ plan = NoChange
          \/ plan = Conflict
          \/ owner # r /\ plan = [do |-> "merge", survivor |-> owner, absorbed |-> r]
      BY <3>3 DEF plan_native_session, planned_merge
    <3> HIDE DEF plan, owner
    <3>5. CASE plan = NoChange
      <4>1. c.m = b
        BY <3>1, <3>5 DEF apply_binding, NoChange, Ok
      <4> QED
        BY <4>1, <2>0, <2>1, <1>9
    <3>6. CASE plan = Conflict
      BY <3>1, <3>6, <1>8 DEF apply_binding, Conflict, Fail
    <3>7. CASE owner # r /\ plan = [do |-> "merge", survivor |-> owner, absorbed |-> r]
      <4>1. /\ plan.do = "merge" /\ plan.survivor = owner /\ plan.absorbed = r
        BY <3>7
      <4>2. c.m = merge_in_memory(b, owner, r)
        BY <3>1, <4>1 DEF apply_binding, Ok
      <4>3. owner \in DOMAIN b.runs /\ preflight_merge(b, owner, r)
        BY <3>2, <4>1 DEF Planned
      <4>4. /\ DOMAIN c.m.runs = DOMAIN b.runs \ {r}
            /\ c.m.live = {<<e[1], substitute(e[2], owner, r)>> : e \in b.live}
        BY <2>0, <4>2, <4>3, MergeKeeps
      <4>5. ~HasLive(c.m, x)
        <5>1. \A e \in b.live : e[1] \in Terminals /\ e = <<e[1], e[2]>>
          BY <2>0 DEF Sound, ExecutionsHeld
        <5>2. \A e \in b.live : substitute(e[2], owner, r) = x => e[2] = x
          BY <3>3 DEF substitute
        <5> QED
          BY <4>4, <5>1, <5>2, <1>9 DEF HasLive
      <4> QED
        BY <4>4, <4>5, <2>1
    <3> QED
      BY <3>4, <3>5, <3>6, <3>7
  <2> QED
    BY <2>2, <2>3
<1>11. bound.m = c.m
  BY <1>8, <1>10 DEF BindTerminal, Ok
<1>12. OnlyStates(c.m, step.m)
  <2>1. LiveOn(c.m, t) \subseteq DOMAIN c.m.runs
    BY DEF LiveOn
  <2>2. step.m = activate_for_live_execution(c.m, LiveOn(c.m, t))
    BY <1>7, <1>11 DEF Activated
  <2> QED
    BY <1>10, <2>1, <2>2, ActivateKeeps DEF Bound
<1> QED
  BY <1>10, <1>12 DEF OnlyStates, OnlyRuns, HasLive

\* What an inferred end requires.
InferredEnds(m, n) ==
  \A r \in DOMAIN m.runs \cap DOMAIN n.runs :
     m.runs[r].state # "EndedUnknown" /\ n.runs[r].state = "EndedUnknown"
       => /\ ~HasLive(n, r)
          /\ r \notin m.nonLane \/ m.runs[r].state = "Queued"

Steps(m, n) == Sound(n) /\ Follows(m, n) /\ InferredEnds(m, n)

\* What Controllers reported: the name has its run, which is theirs, and the work has begun.
ReportsStand ==
  \A name \in reported :
    /\ name \in Names /\ ControllerKey(name) \in DOMAIN model.byKey
    /\ model.byKey[ControllerKey(name)] \in model.nonLane
    /\ model.runs[model.byKey[ControllerKey(name)]].state # "Queued"

LEMMA ContinuesSteps == ASSUME NEW m, NEW n, Continues(m, n) PROVE Steps(m, n)
BY DEF Continues, Steps, InferredEnds

\* A terminal has at most one live run.
LEMMA OneLive ==
  ASSUME NEW m, Sound(m), NEW t
  PROVE  \A r, q \in LiveOn(m, t) : r = q
<1>1. \A r, q \in LiveOn(m, t) : <<t, r>> \in m.live /\ <<t, q>> \in m.live
  BY DEF LiveOn
<1>2. \A r, q : <<t, r>> \in m.live /\ <<t, q>> \in m.live => <<t, r>> = <<t, q>>
  BY DEF Sound, ExecutionsHeld
<1> QED
  BY <1>1, <1>2

\* What a pane reports: an agent, another session of it, a move, or its end.
LEMMA PaneSteps ==
  ASSUME NEW m, Sound(m), NEW t \in Terminals, NEW sid \in Sids \cup {NoSid}
  PROVE  /\ \A r \in Reusable(m, t, sid) : \A step :
              step = execution_begin(EndAll(m, t, LiveOn(m, t) \ {r}), t, r, sid) /\ step.ok
                => Steps(m, step.m)
         /\ \A step : Reusable(m, t, sid) = {} /\ step.ok
                      /\ step = execution_begin(EndAll(m, t, LiveOn(m, t)), t, m.next, sid)
                => Steps(m, step.m)
         /\ \A r \in LiveOn(m, t) : \A step :
              step = execution_begin(m, t, r, sid) /\ step.ok => Steps(m, step.m)
         /\ Steps(m, EndAll(m, t, LiveOn(m, t)))
<1>0. LiveOn(m, t) \subseteq DOMAIN m.runs
  BY DEF LiveOn
<1>1. ASSUME NEW r \in Reusable(m, t, sid), NEW step, step.ok,
             step = execution_begin(EndAll(m, t, LiveOn(m, t) \ {r}), t, r, sid)
      PROVE  Steps(m, step.m)
  <2> DEFINE n == EndAll(m, t, LiveOn(m, t) \ {r})
  <2>1. r \in LiveOn(m, t) /\ LiveOn(m, t) \ {r} = {}
    BY OneLive DEF Reusable
  <2>2. n = EndAll(m, t, {})
    BY <2>1
  <2>3. /\ Sound(n) /\ Follows(m, n) /\ n.live = m.live /\ DOMAIN n.runs = DOMAIN m.runs
        /\ \A q \in DOMAIN m.runs : n.runs[q].state = m.runs[q].state
    <3>1. /\ Sound(n) /\ Follows(m, n) /\ n.live = m.live \ ({t} \X {})
          /\ DOMAIN n.runs = DOMAIN m.runs
          /\ \A q \in DOMAIN m.runs : n.runs[q].state # m.runs[q].state => q \in {}
      <4> HIDE DEF n
      <4> QED
        BY <2>2, EndKeeps
    <3>2. m.live \ ({t} \X {}) = m.live
      OBVIOUS
    <3> HIDE DEF n
    <3> QED
      BY <3>1, <3>2
  <2>4. step = execution_begin(n, t, r, sid)
    BY <1>1
  <2> HIDE DEF n
  <2>5. Continues(m, n)
    BY <2>3 DEF Continues
  <2>6. r \in DOMAIN n.runs /\ LiveOn(n, t) \subseteq {r}
    BY <1>0, <2>1, <2>3 DEF LiveOn
  <2>7. Continues(n, step.m)
    BY <1>1, <2>3, <2>4, <2>6, BeginKeeps
  <2> QED
    BY <2>5, <2>7, ContinuesThrough, ContinuesSteps
<1>2. ASSUME NEW step, Reusable(m, t, sid) = {}, step.ok,
             step = execution_begin(EndAll(m, t, LiveOn(m, t)), t, m.next, sid)
      PROVE  Steps(m, step.m)
  <2> DEFINE n == EndAll(m, t, LiveOn(m, t))
  <2>1. /\ Sound(n) /\ Follows(m, n) /\ SameNames(m, n)
        /\ n.live = m.live \ ({t} \X LiveOn(m, t))
        /\ n.nonLane = m.nonLane /\ n.next = m.next /\ DOMAIN n.runs = DOMAIN m.runs
        /\ \A r \in DOMAIN m.runs : KeyOf(n, r) = KeyOf(m, r)
        /\ \A r \in DOMAIN m.runs :
             n.runs[r].state # m.runs[r].state =>
               /\ r \in LiveOn(m, t) /\ n.runs[r].state = "EndedUnknown"
               /\ ~HasLive(n, r) /\ ~m.runs[r].ctl
    BY <1>0, EndKeeps
  <2>2. step = execution_begin(n, t, n.next, sid)
    BY <1>2, <2>1
  <2> HIDE DEF n
  <2>3. LiveOn(n, t) = {}
    BY <2>1 DEF LiveOn
  <2>4. Continues(n, step.m)
    BY <1>2, <2>1, <2>2, <2>3, BeginKeeps
  <2>5. Follows(m, step.m) /\ Sound(step.m)
    BY <2>1, <2>4, FollowsThrough DEF Continues
  <2>6. ASSUME NEW r \in DOMAIN m.runs, r \in DOMAIN step.m.runs,
               m.runs[r].state # "EndedUnknown", step.m.runs[r].state = "EndedUnknown"
        PROVE  ~HasLive(step.m, r) /\ r \notin m.nonLane
    <3>1. n.runs[r].state = "EndedUnknown"
      BY <2>1, <2>4, <2>6 DEF Continues
    <3>2. r \in LiveOn(m, t) /\ ~HasLive(n, r) /\ ~m.runs[r].ctl
      BY <2>1, <2>6, <3>1
    <3>3. r \notin m.nonLane
      BY <3>2 DEF Sound, ReportsHeld
    <3>4. ~(sid # NoSid /\ Known(n, Native(sid)) /\ n.byKey[Native(sid)] = r)
      <4> SUFFICES ASSUME sid # NoSid, Known(n, Native(sid)), n.byKey[Native(sid)] = r PROVE FALSE
        OBVIOUS
      <4>1. IsNative(Native(sid)) /\ ~IsProvisional(Native(sid))
        BY KeyKinds
      <4>2. Native(sid) \in DOMAIN m.byKey /\ m.byKey[Native(sid)] = r
        BY <2>1, <4>1 DEF SameNames, Known
      <4>3. Native(sid) \in NativeKeys(m, r)
        BY <4>1, <4>2 DEF NativeKeys
      <4> QED
        BY <1>2, <3>2, <4>3 DEF Reusable
    <3>5. r \in DOMAIN n.runs
      BY <2>1
    <3>6. ~HasLive(step.m, r)
      BY <1>2, <2>1, <2>2, <2>3, <3>2, <3>4, <3>5, BeginElsewhere
    <3> QED
      BY <3>3, <3>6
  <2> QED
    BY <2>5, <2>6 DEF Steps, InferredEnds
<1>3. ASSUME NEW r \in LiveOn(m, t), NEW step, step = execution_begin(m, t, r, sid), step.ok
      PROVE  Steps(m, step.m)
  <2>1. LiveOn(m, t) \subseteq {r} /\ r \in DOMAIN m.runs
    BY <1>0, <1>3, OneLive
  <2> QED
    BY <1>3, <2>1, BeginKeeps, ContinuesSteps
<1>4. Steps(m, EndAll(m, t, LiveOn(m, t)))
  <2> DEFINE n == EndAll(m, t, LiveOn(m, t))
  <2>1. /\ Sound(n) /\ Follows(m, n)
        /\ \A r \in DOMAIN m.runs :
             n.runs[r].state # m.runs[r].state => ~HasLive(n, r) /\ ~m.runs[r].ctl
    BY <1>0, EndKeeps
  <2> HIDE DEF n
  <2>2. InferredEnds(m, n)
    BY <2>1 DEF InferredEnds, Sound, ReportsHeld
  <2> QED
    BY <2>1, <2>2 DEF Steps, n
<1> QED
  BY <1>1, <1>2, <1>3, <1>4

\* The panes of a snapshot: a run for each claim that no run is known by.
LEMMA SnapshotRunsKeep ==
  ASSUME NEW m, Sound(m), NEW panes \in [Terminals -> References], NEW last \in Nat,
         last + 1 >= m.next,
         NEW new \in Bijection(m.next..last, {claim \in Claims(panes) : ~Known(m, claim)})
  PROVE  LET n == insert_snapshot_run(m, new, last)
         IN  /\ Continues(m, n)
             /\ n.hosted = m.hosted /\ n.nonLane = m.nonLane
             /\ DOMAIN n.runs = DOMAIN m.runs \cup (m.next..last)
             /\ \A r \in DOMAIN m.runs : n.runs[r] = m.runs[r]
<1> DEFINE key == [run \in DOMAIN new |->
                     IF new[run][1] = "bare" THEN Provisional(run) ELSE new[run]]
           entry == [run \in DOMAIN new |-> [key |-> key[run], state |-> "Running",
                                             ctl |-> FALSE, dismissed |-> FALSE]]
           n == NewRuns(m, entry, last + 1)
<1>0. n = insert_snapshot_run(m, new, last)
  BY DEF insert_snapshot_run
<1>1. /\ DOMAIN new = m.next..last
      /\ \A r \in DOMAIN new : new[r] \in Claims(panes) /\ ~Known(m, new[r])
      /\ \A r, q \in DOMAIN new : new[r] = new[q] => r = q
  BY DEF Bijection, Injection, Surjection, IsInjective
<1>2. m.next \in Nat
  BY DEF Sound, Numbered
<1>3. \A c \in Claims(panes) : c[1] # "bare" => c \in AnyKey /\ ~IsProvisional(c)
  BY DEF Claims, Claim, Hosts, References, AnyKey, IsProvisional
<1>4. \A r \in DOMAIN new :
        /\ r \in Nat /\ r >= m.next /\ r < last + 1
        /\ key[r] \in AnyKey /\ key[r] \notin DOMAIN m.byKey
        /\ IsProvisional(key[r]) => key[r] = Provisional(r)
  <2> SUFFICES ASSUME NEW r \in DOMAIN new
               PROVE  /\ r \in Nat /\ r >= m.next /\ r < last + 1
                      /\ key[r] \in AnyKey /\ key[r] \notin DOMAIN m.byKey
                      /\ IsProvisional(key[r]) => key[r] = Provisional(r)
    OBVIOUS
  <2>1. r \in Nat /\ r >= m.next /\ r < last + 1
    BY <1>1, <1>2
  <2>2. CASE new[r][1] = "bare"
    <3>1. key[r] = Provisional(r)
      BY <2>2
    <3> QED
      BY <1>2, <2>1, <3>1, KeyKinds DEF Sound, Numbered
  <2>3. CASE new[r][1] # "bare"
    <3>1. key[r] = new[r]
      BY <2>3
    <3> QED
      BY <1>1, <1>3, <2>1, <2>3, <3>1 DEF Known, Sound, Typed
  <2> QED
    BY <2>2, <2>3
<1>5. \A r, q \in DOMAIN new : key[r] = key[q] => r = q
  <2> SUFFICES ASSUME NEW r \in DOMAIN new, NEW q \in DOMAIN new, key[r] = key[q] PROVE r = q
    OBVIOUS
  <2>1. CASE IsProvisional(key[r])
    BY <1>4, <2>1, KeyKinds
  <2>2. CASE ~IsProvisional(key[r])
    <3>1. key[r] = new[r] /\ key[q] = new[q]
      BY <1>4, <2>2, KeyKinds
    <3> QED
      BY <1>1, <3>1
  <2> QED
    BY <2>1, <2>2
<1> HIDE DEF key
<1>6. \A r \in DOMAIN new : entry[r] \in Entries /\ entry[r].key = key[r]
  BY <1>4 DEF Entries, TaskStates
<1>7. DOMAIN entry = DOMAIN new
  OBVIOUS
<1> HIDE DEF entry
<1>8. New(m, entry, last + 1)
  BY <1>4, <1>5, <1>6, <1>7 DEF New
<1>9. Sound(n) /\ Follows(m, n)
  BY <1>8, NewKeeps
<1>10. /\ n.hosted = m.hosted /\ n.nonLane = m.nonLane
       /\ DOMAIN n.runs = DOMAIN m.runs \cup DOMAIN entry
       /\ \A r \in DOMAIN m.runs : n.runs[r] = m.runs[r]
  BY <1>8, NewKeys
<1> HIDE DEF n
<1> QED
  BY <1>0, <1>1, <1>7, <1>9, <1>10 DEF Continues

\* A snapshot replaces the executions, and closes the runs it has left without one.
LEMMA SnapshotSteps ==
  ASSUME NEW m, Sound(m), NEW panes \in [Terminals -> References], NEW last \in Nat,
         last + 1 >= m.next,
         NEW new \in Bijection(m.next..last, {claim \in Claims(panes) : ~Known(m, claim)})
  PROVE  Steps(m, reconcile_snapshot(m, panes, new, last))
<1> DEFINE Run(t) == SnapshotRun(m, Claim(panes, t), new)
           executions == {<<t, Run(t)>> : t \in Hosts(panes)}
           running == {e[2] : e \in executions}
           a == insert_snapshot_run(m, new, last)
           hosted == a.hosted \cup running
           b == [a EXCEPT !.live = executions, !.hosted = hosted]
           c == activate_for_live_execution(b, running)
           n == close_run_without_live_execution(c, m.hosted)
<1>0. n = reconcile_snapshot(m, panes, new, last)
  BY DEF reconcile_snapshot, InstallPanes
<1>1. /\ Continues(m, a)
      /\ a.hosted = m.hosted /\ a.nonLane = m.nonLane
      /\ DOMAIN a.runs = DOMAIN m.runs \cup (m.next..last)
      /\ \A r \in DOMAIN m.runs : a.runs[r] = m.runs[r]
  BY SnapshotRunsKeep
<1> HIDE DEF a
<1>2. \A t \in Hosts(panes) : Run(t) \in DOMAIN a.runs
  <2> SUFFICES ASSUME NEW t \in Hosts(panes) PROVE Run(t) \in DOMAIN a.runs
    OBVIOUS
  <2>1. CASE Known(m, Claim(panes, t))
    BY <1>1, <2>1 DEF SnapshotRun, Known
  <2>2. CASE ~Known(m, Claim(panes, t))
    <3>1. \E r \in m.next..last : new[r] = Claim(panes, t)
      BY <2>2 DEF Bijection, Surjection, Claims
    <3>2. DOMAIN new = m.next..last
      BY DEF Bijection, Injection
    <3>3. Run(t) = CHOOSE run \in DOMAIN new : new[run] = Claim(panes, t)
      BY <2>2 DEF SnapshotRun
    <3> QED
      BY <1>1, <3>1, <3>2, <3>3
  <2> QED
    BY <2>1, <2>2
<1> HIDE DEF Run
<1>3. /\ IsModel(b) /\ b.live = executions /\ b.hosted = hosted /\ b.runs = a.runs
      /\ b.byKey = a.byKey /\ b.parent = a.parent /\ b.needs = a.needs
      /\ b.nonLane = a.nonLane /\ b.next = a.next
  <2> HIDE DEF executions, hosted
  <2>1. a \in [runs : {a.runs}, byKey : {a.byKey}, live : {a.live}, hosted : {a.hosted},
               parent : {a.parent}, needs : {a.needs}, nonLane : {a.nonLane}, next : {a.next}]
    BY <1>1 DEF IsModel, Continues, Sound, Typed
  <2>2. b \in [runs : {a.runs}, byKey : {a.byKey}, live : {executions}, hosted : {hosted},
               parent : {a.parent}, needs : {a.needs}, nonLane : {a.nonLane}, next : {a.next}]
    BY <2>1
  <2> HIDE DEF b
  <2>3. /\ b.live = executions /\ b.hosted = hosted /\ b.runs = a.runs
        /\ b.byKey = a.byKey /\ b.parent = a.parent /\ b.needs = a.needs
        /\ b.nonLane = a.nonLane /\ b.next = a.next
    BY <2>2
  <2> QED
    BY <2>2, <2>3 DEF IsModel
<1> HIDE DEF b
<1>4. running \subseteq DOMAIN a.runs
  BY <1>2
<1>5. ExecutionsHeld(b)
  <2>1. executions \subseteq Terminals \X (DOMAIN a.runs)
    BY <1>2 DEF Hosts
  <2>2. a.hosted \subseteq DOMAIN a.runs
    BY <1>1 DEF Continues, Sound, ExecutionsHeld
  <2>3. \A e, f \in executions : e[1] = f[1] => e = f
    OBVIOUS
  <2> QED
    BY <1>3, <1>4, <2>1, <2>2, <2>3 DEF ExecutionsHeld
<1>6. GraphsHold(b) /\ ReportsHeld(b)
  BY <1>1, <1>3 DEF Continues, Sound, GraphsHold, ReportsHeld
<1>7. \A r \in b.nonLane : r \in Nat /\ r < a.next
  BY <1>1, <1>3 DEF Continues, Sound, Numbered
<1>8. Continues(a, b)
  BY <1>1, <1>3, <1>5, <1>6, <1>7, PartsKeep DEF Continues
<1>9. Continues(b, c) /\ OnlyStates(b, c)
  <2>1. running \subseteq DOMAIN b.runs
    BY <1>3, <1>4
  <2> HIDE DEF running
  <2> QED
    BY <1>8, <2>1, ActivateKeeps DEF Continues
<1> HIDE DEF c
<1>10. Continues(m, c)
  <2>1. Continues(m, b)
    BY <1>1, <1>8, ContinuesThrough
  <2> QED
    BY <1>9, <2>1, ContinuesThrough
<1>11. m.hosted \subseteq DOMAIN c.runs /\ DOMAIN m.runs \subseteq DOMAIN c.runs
  BY <1>1, <1>3, <1>9 DEF Sound, ExecutionsHeld, OnlyStates
<1>12. /\ Sound(n) /\ Follows(c, n) /\ OnlyStates(c, n)
       /\ \A r \in DOMAIN c.runs :
            n.runs[r].state # c.runs[r].state => ~HasLive(c, r) /\ ~c.runs[r].ctl
  BY <1>10, <1>11, CloseKeeps DEF Continues
<1> HIDE DEF n
<1>13. Follows(m, n)
  BY <1>10, <1>12, FollowsThrough DEF Continues
<1>14. InferredEnds(m, n)
  <2> SUFFICES ASSUME NEW r \in DOMAIN m.runs, m.runs[r].state # "EndedUnknown",
                      n.runs[r].state = "EndedUnknown"
               PROVE  ~HasLive(n, r) /\ r \notin m.nonLane
    BY DEF InferredEnds
  <2>1. r \in DOMAIN c.runs /\ c.runs[r].state # "EndedUnknown"
    BY <1>10, <1>11 DEF Continues
  <2>2. ~HasLive(c, r) /\ ~c.runs[r].ctl
    BY <1>12, <2>1
  <2>3. ~HasLive(n, r)
    BY <1>12, <2>2 DEF OnlyStates, OnlyRuns, HasLive
  <2>4. c.runs[r].ctl = m.runs[r].ctl
    BY <1>1, <1>3, <1>9 DEF OnlyStates
  <2> QED
    BY <2>2, <2>3, <2>4 DEF Sound, ReportsHeld
<1> QED
  BY <1>0, <1>12, <1>13, <1>14 DEF Steps

\* Runs found silent or inactive, none of which has an execution or a report of being at work.
LEMMA SilentSteps ==
  ASSUME NEW m, Sound(m), NEW runs, runs \subseteq DOMAIN m.runs,
         \A r \in runs : /\ m.runs[r].state \notin Outcomes /\ ~HasLive(m, r)
                         /\ r \notin m.nonLane \/ m.runs[r].state = "Queued"
  PROVE  Steps(m, SetState(m, runs, "EndedUnknown"))
<1> DEFINE n == SetState(m, runs, "EndedUnknown")
<1>1. "EndedUnknown" \in TaskStates \ {"Queued"}
  BY DEF TaskStates
<1>2. /\ Sound(n) /\ Follows(m, n) /\ OnlyStates(m, n)
      /\ \A r \in DOMAIN m.runs :
           n.runs[r].state = IF r \in runs THEN "EndedUnknown" ELSE m.runs[r].state
  BY <1>1, SetStateKeeps
<1> HIDE DEF n
<1>3. InferredEnds(m, n)
  BY <1>2 DEF InferredEnds, OnlyStates, OnlyRuns, HasLive
<1> QED
  BY <1>2, <1>3 DEF Steps, n

-----------------------------------------------------------------------------
(* Every step.                                                             *)
\* The runs that the rows give back have keys and states like any other.
LEMMA RowsTyped ==
  ASSUME NEW runs \in SUBSET Nat, NEW rows \in Rows(runs)
  PROVE  /\ DOMAIN rows = runs /\ rows \in [runs -> Entries]
         /\ \A r \in runs : IsProvisional(rows[r].key) => rows[r].key = Provisional(r)
         /\ \A r, q \in runs : rows[r].key = rows[q].key => r = q
<1>1. StoredKeys \subseteq AnyKey
  BY DEF StoredKeys, Keys, AnyKey, IsProvisional
<1>2. StoredRuns(runs) \subseteq Entries
  BY <1>1, KeyKinds, StoredAssumption DEF StoredRuns, Entries
<1>3. rows \in [runs -> StoredRuns(runs)]
  BY DEF Rows
<1>4. DOMAIN rows = runs /\ rows \in [runs -> Entries]
  BY <1>2, <1>3
<1>5. \A r, q \in runs : /\ rows[r].key = rows[q].key => r = q
                         /\ IsProvisional(rows[r].key) => rows[r].key = Provisional(r)
  BY DEF Rows
<1> QED
  BY <1>4, <1>5

\* The keys that the rows give back resolve to them.
LEMMA BindingsTyped ==
  ASSUME NEW rows, NEW byKey \in Bindings(rows)
  PROVE  /\ DOMAIN byKey \subseteq StoredKeys /\ byKey \in [DOMAIN byKey -> DOMAIN rows]
         /\ \A r \in DOMAIN rows :
              ~IsProvisional(rows[r].key) => rows[r].key \in DOMAIN byKey /\ byKey[rows[r].key] = r
         /\ \A k \in DOMAIN byKey :
              \/ rows[byKey[k]].key = k
              \/ ~IsController(k) /\ IsController(rows[byKey[k]].key)
              \/ ~IsController(k) /\ ~IsNative(k) /\ IsNative(rows[byKey[k]].key)
         /\ \A k, l \in DOMAIN byKey : IsNative(k) /\ IsNative(l) /\ byKey[k] = byKey[l] => k = l
<1>1. PICK keys \in SUBSET StoredKeys : byKey \in [keys -> DOMAIN rows]
  BY DEF Bindings
<1>2. DOMAIN byKey \subseteq StoredKeys /\ byKey \in [DOMAIN byKey -> DOMAIN rows]
  BY <1>1
<1>3. \A k \in DOMAIN byKey :
         \/ rows[byKey[k]].key = k
         \/ ~IsController(k) /\ IsController(rows[byKey[k]].key)
         \/ ~IsController(k) /\ ~IsNative(k) /\ IsNative(rows[byKey[k]].key)
  BY DEF Bindings
<1>4. /\ \A r \in DOMAIN rows :
           ~IsProvisional(rows[r].key) => rows[r].key \in DOMAIN byKey /\ byKey[rows[r].key] = r
      /\ \A k, l \in DOMAIN byKey : IsNative(k) /\ IsNative(l) /\ byKey[k] = byKey[l] => k = l
  BY DEF Bindings
<1> QED
  BY <1>2, <1>3, <1>4

\* Every model that the store's rows may give is sound.
LEMMA SoundInit == Init => Sound(model) /\ model.next <= MaxRuns + 1 /\ ReportsStand
<1> SUFFICES ASSUME Init PROVE Sound(model) /\ model.next <= MaxRuns + 1 /\ ReportsStand
  OBVIOUS
<1>1. PICK last \in 0..MaxRestored : \E rows \in Rows(1..last) :
        \E byKey \in Bindings(rows), live \in Executions(1..last), hosted \in SUBSET (1..last),
           parent \in StoredEdges(1..last), needs \in StoredEdges(1..last),
           nonLane \in SUBSET Owned(rows) :
          /\ {e[2] : e \in live} \subseteq hosted /\ OneParent(parent)
          /\ model = [runs |-> rows, byKey |-> byKey, live |-> live, hosted |-> hosted,
                      parent |-> parent, needs |-> needs, nonLane |-> nonLane,
                      next |-> last + 1]
          /\ reported = {name \in Names : AtWork(model, name)
                                            /\ byKey[ControllerKey(name)] \in nonLane}
  BY DEF Init
<1> DEFINE runs == 1..last
<1>20. PICK rows \in Rows(runs) :
        \E byKey \in Bindings(rows), live \in Executions(runs), hosted \in SUBSET runs,
           parent \in StoredEdges(runs), needs \in StoredEdges(runs),
           nonLane \in SUBSET Owned(rows) :
          /\ {e[2] : e \in live} \subseteq hosted /\ OneParent(parent)
          /\ model = [runs |-> rows, byKey |-> byKey, live |-> live, hosted |-> hosted,
                      parent |-> parent, needs |-> needs, nonLane |-> nonLane,
                      next |-> last + 1]
          /\ reported = {name \in Names : AtWork(model, name)
                                            /\ byKey[ControllerKey(name)] \in nonLane}
  BY <1>1
<1>2. PICK byKey \in Bindings(rows), live \in Executions(runs), hosted \in SUBSET runs,
           parent \in StoredEdges(runs), needs \in StoredEdges(runs),
           nonLane \in SUBSET Owned(rows) :
          /\ {e[2] : e \in live} \subseteq hosted /\ OneParent(parent)
          /\ model = [runs |-> rows, byKey |-> byKey, live |-> live, hosted |-> hosted,
                      parent |-> parent, needs |-> needs, nonLane |-> nonLane,
                      next |-> last + 1]
          /\ reported = {name \in Names : AtWork(model, name)
                                            /\ byKey[ControllerKey(name)] \in nonLane}
  BY <1>20
<1>3. /\ model.runs = rows /\ model.byKey = byKey /\ model.live = live /\ model.hosted = hosted
      /\ model.parent = parent /\ model.needs = needs /\ model.nonLane = nonLane
      /\ model.next = last + 1
  BY <1>2
<1>4. IsModel(model)
  BY <1>2, <1>3 DEF IsModel
<1>5. /\ runs \in SUBSET Nat /\ last \in Nat /\ last + 1 <= MaxRuns + 1
      /\ \A r \in runs : r \in Nat \ {0} /\ r < last + 1
  BY MaxRunsAssumption
<1> HIDE DEF runs
<1>6. /\ DOMAIN rows = runs /\ rows \in [runs -> Entries]
      /\ \A r \in runs : IsProvisional(rows[r].key) => rows[r].key = Provisional(r)
      /\ \A r, q \in runs : rows[r].key = rows[q].key => r = q
  BY <1>5, RowsTyped
<1>7. /\ DOMAIN byKey \subseteq StoredKeys /\ byKey \in [DOMAIN byKey -> runs]
      /\ \A r \in runs :
           ~IsProvisional(rows[r].key) => rows[r].key \in DOMAIN byKey /\ byKey[rows[r].key] = r
      /\ \A k \in DOMAIN byKey :
           \/ rows[byKey[k]].key = k
           \/ ~IsController(k) /\ IsController(rows[byKey[k]].key)
           \/ ~IsController(k) /\ ~IsNative(k) /\ IsNative(rows[byKey[k]].key)
      /\ \A k, l \in DOMAIN byKey : IsNative(k) /\ IsNative(l) /\ byKey[k] = byKey[l] => k = l
  BY <1>6, BindingsTyped
<1>8. StoredKeys \subseteq AnyKey /\ \A k \in StoredKeys : ~IsProvisional(k)
  BY DEF StoredKeys, Keys, AnyKey, IsProvisional
<1>9. \A r : KeyOf(model, r) = rows[r].key
  BY <1>3 DEF KeyOf
<1>10. Typed(model)
  BY <1>3, <1>4, <1>6, <1>7, <1>8 DEF Typed
<1>11. nonLane \subseteq runs /\ \A r \in nonLane : rows[r].ctl
  BY <1>2, <1>6 DEF Owned
<1>12. Numbered(model)
  BY <1>3, <1>5, <1>6, <1>7, <1>8, <1>11, KeyKinds DEF Numbered
<1>13. KeysFound(model)
  BY <1>3, <1>6, <1>7, <1>8, <1>9 DEF KeysFound
<1>14. KeysOwned(model)
  <2>1. \A k \in DOMAIN byKey : rows[byKey[k]].key \in AnyKey /\ k \in AnyKey
    BY <1>6, <1>7, <1>8 DEF Entries
  <2>2. \A k \in DOMAIN byKey :
          /\ IsController(k) => rows[byKey[k]].key = k
          /\ IsNative(k) => rows[byKey[k]].key = k \/ IsController(rows[byKey[k]].key)
    BY <1>7
  <2> QED
    BY <1>3, <1>7, <1>9, <2>2 DEF KeysOwned
<1>15. ExecutionsHeld(model)
  BY <1>2, <1>3, <1>6 DEF ExecutionsHeld, Executions
<1>16. GraphsHold(model)
  BY <1>2, <1>3, <1>6 DEF GraphsHold, StoredEdges
<1>17. ReportsHeld(model)
  BY <1>3, <1>11 DEF ReportsHeld
<1>18. ReportsStand
  <2>1. \A name \in reported : AtWork(model, name) /\ byKey[ControllerKey(name)] \in nonLane
    BY <1>2
  <2> QED
    BY <1>2, <1>3, <2>1 DEF ReportsStand, AtWork, Known
<1> QED
  BY <1>3, <1>5, <1>10, <1>12, <1>13, <1>14, <1>15, <1>16, <1>17, <1>18 DEF Sound

\* A pane names a session or none, and an agent in it ends, keeps or begins an execution.
LEMMA ObservationSteps ==
  ASSUME Sound(model), HerdrObservation
  PROVE  Steps(model, model')
<1>1. ASSUME NEW t \in Terminals, NEW sid \in Sids \cup {NoSid}, PaneWithAgent(t, sid)
      PROVE  Steps(model, model')
  BY <1>1, PaneSteps DEF PaneWithAgent, Commit
<1>2. ASSUME NEW t \in Terminals, NEW sid \in Sids \cup {NoSid},
             PaneWithoutAgent(t, sid) \/ PaneMoved(t, sid)
      PROVE  Steps(model, model')
  <2>1. Reusable(model, t, sid) \subseteq LiveOn(model, t)
    BY DEF Reusable
  <2> QED
    BY <1>2, <2>1, PaneSteps DEF PaneWithoutAgent, PaneMoved, Commit
<1>3. ASSUME NEW t \in Terminals, PaneGone(t) PROVE Steps(model, model')
  BY <1>3, PaneSteps DEF PaneGone, Commit, Ok
<1>4. ASSUME Snapshot PROVE Steps(model, model')
  <2>1. PICK panes \in [Terminals -> References], last \in (model.next - 1)..MaxRuns :
          \E new \in Bijection(model.next..last, {claim \in Claims(panes) : ~Known(model, claim)}) :
             Commit(Ok(reconcile_snapshot(model, panes, new, last)))
    BY <1>4 DEF Snapshot
  <2>2. model.next \in Nat \ {0}
    BY DEF Sound, Numbered
  <2>3. last \in Nat /\ last + 1 >= model.next
    BY <2>2, MaxRunsAssumption
  <2> QED
    BY <2>1, <2>3, SnapshotSteps DEF Commit, Ok
<1> QED
  BY <1>1, <1>2, <1>3, <1>4 DEF HerdrObservation

\* A session found to be a run's binds the run or merges it, as a Controller's word of it does.
LEMMA EvidenceSteps ==
  ASSUME Sound(model), NEW sid \in Sids,
         \/ \E path \in Paths : SessionResolved(path, sid)
         \/ \E run \in DOMAIN model.runs : HeuristicBinding(run, sid)
  PROVE  Steps(model, model')
<1>1. ASSUME NEW path \in Paths, SessionResolved(path, sid) PROVE Steps(model, model')
  <2> DEFINE run == model.byKey[NativePath(path)]
  <2>1. run \in DOMAIN model.runs
    BY <1>1 DEF SessionResolved, Known
  <2>2. CASE KeyOf(model, run)[1] = "path"
    <3> DEFINE plan == plan_native_path_resolution(model, run, sid)
               step == apply_binding(model, plan, sid)
    <3>1. Commit(step)
      BY <1>1, <2>2 DEF SessionResolved
    <3>2. Planned(model, plan, sid)
      BY <2>1, <2>2, PlansChecked
    <3> HIDE DEF plan
    <3>3. step.ok => Bound(model, step.m)
      BY <3>2, BindingKeeps
    <3> QED
      BY <3>1, <3>3, BoundContinues, ContinuesSteps DEF Commit
  <2>3. CASE /\ KeyOf(model, run)[1] # "path"
             /\ IsNative(KeyOf(model, run)) /\ KeyOf(model, run) # Native(sid)
    <3>1. model' = model
      BY <1>1, <2>3 DEF SessionResolved, Commit, Ok
    <3> QED
      BY <3>1, ContinuesItself, ContinuesSteps
  <2>4. CASE /\ KeyOf(model, run)[1] # "path"
             /\ ~(IsNative(KeyOf(model, run)) /\ KeyOf(model, run) # Native(sid))
    <3> DEFINE step == BindSession(model, run, sid)
    <3>1. Commit(step)
      BY <1>1, <2>4 DEF SessionResolved
    <3>2. step.ok => Bound(model, step.m)
      BY SessionKeeps
    <3> HIDE DEF step
    <3> QED
      BY <3>1, <3>2, BoundContinues, ContinuesSteps DEF Commit
  <2> QED
    BY <2>2, <2>3, <2>4
<1>2. ASSUME NEW run \in DOMAIN model.runs, HeuristicBinding(run, sid)
      PROVE  Steps(model, model')
  <2> DEFINE plan == plan_native_session(model, run, sid)
             step == apply_binding(model, plan, sid)
  <2>1. Commit(step)
    BY <1>2 DEF HeuristicBinding
  <2>2. Planned(model, plan, sid)
    BY PlansChecked
  <2> HIDE DEF plan
  <2>3. step.ok => Bound(model, step.m)
    BY <2>2, BindingKeeps
  <2> QED
    BY <2>1, <2>3, BoundContinues, ContinuesSteps DEF Commit
<1> QED
  BY <1>1, <1>2

\* The lane's silence, the sweep and the operator reach only runs nothing live speaks for.
LEMMA SweepSteps ==
  ASSUME Sound(model), SweepStale \/ DismissClearable \/ \E key \in Keys : LaneClose(key)
  PROVE  Steps(model, model')
<1>1. ASSUME SweepStale PROVE Steps(model, model')
  <2>1. PICK due \in SUBSET {run \in DOMAIN model.runs :
                       DispatchOnlyInactive(model, run) \/ FactTimedInactive(model, run)} :
          model' = SetState(model, due, "EndedUnknown")
    BY <1>1 DEF SweepStale, Commit, Ok
  <2>2. \A r \in due : /\ model.runs[r].state \notin Outcomes /\ ~HasLive(model, r)
                       /\ r \notin model.nonLane \/ model.runs[r].state = "Queued"
    BY <2>1 DEF DispatchOnlyInactive, FactTimedInactive, Outcomes, HasLive, Sound, ExecutionsHeld
  <2> QED
    BY <2>1, <2>2, SilentSteps
<1>2. ASSUME DismissClearable PROVE Steps(model, model')
  <2>1. PICK cleared \in SUBSET DOMAIN model.runs : model' = Dismiss(model, cleared)
    BY <1>2 DEF DismissClearable, Commit, Ok
  <2>2. /\ Sound(model') /\ Follows(model, model')
        /\ \A r \in DOMAIN model.runs : model'.runs[r].state = model.runs[r].state
    BY <2>1, DismissKeeps
  <2> QED
    BY <2>2 DEF Steps, InferredEnds
<1>3. ASSUME NEW key \in Keys, LaneClose(key) PROVE Steps(model, model')
  <2> DEFINE run == model.byKey[key]
  <2>1. /\ run \in DOMAIN model.runs /\ ~IsTerminal(model.runs[run].state)
        /\ ~HasLive(model, run) /\ run \notin model.nonLane
        /\ model' = SetState(model, {run}, "EndedUnknown")
    BY <1>3 DEF LaneClose, Known, Commit, Ok
  <2>2. model.runs[run].state \notin Outcomes
    BY <2>1 DEF IsTerminal
  <2> QED
    BY <2>1, <2>2, SilentSteps
<1> QED
  BY <1>1, <1>2, <1>3

\* Every step of the reducer.
LEMMA EveryStep ==
  ASSUME Sound(model), [Next]_vars
  PROVE  Steps(model, model')
<1>1. CASE ControllerEvent
  <2>1. PICK e \in Events : Commit(validate_controller_event(model, e))
    BY <1>1 DEF ControllerEvent
  <2> DEFINE step == validate_controller_event(model, e)
  <2>2. step.ok => Continues(model, step.m)
    BY ControllerEventKeeps
  <2>3. Commit(step)
    BY <2>1
  <2> HIDE DEF step
  <2> QED
    BY <2>2, <2>3, ContinuesSteps DEF Commit
<1>2. CASE HerdrObservation
  BY <1>2, ObservationSteps
<1>3. CASE \/ \E path \in Paths, sid \in Sids : SessionResolved(path, sid)
           \/ \E run \in DOMAIN model.runs, sid \in Sids : HeuristicBinding(run, sid)
  BY <1>3, EvidenceSteps
<1>4. CASE \/ \E key \in Keys : ~IsProvisional(key) /\ LaneClose(key)
           \/ SweepStale \/ DismissClearable
  BY <1>4, SweepSteps
<1>5. CASE UNCHANGED vars
  BY <1>5, ContinuesItself, ContinuesSteps DEF vars
<1> QED
  BY <1>1, <1>2, <1>3, <1>4, <1>5 DEF Next

\* What Controllers reported keeps its run whatever the reducer does.
LEMMA ReportsKept ==
  ASSUME Sound(model), ReportsStand, [Next]_vars
  PROVE  ReportsStand'
<1>1. Sound(model') /\ Follows(model, model')
  BY EveryStep DEF Steps
<1>2. ASSUME NEW name \in reported
      PROVE  /\ name \in Names /\ ControllerKey(name) \in DOMAIN model'.byKey
             /\ model'.byKey[ControllerKey(name)] \in model'.nonLane
             /\ model'.runs[model'.byKey[ControllerKey(name)]].state # "Queued"
  <2>1. /\ name \in Names /\ ControllerKey(name) \in DOMAIN model.byKey
        /\ model.byKey[ControllerKey(name)] \in model.nonLane
        /\ model.runs[model.byKey[ControllerKey(name)]].state # "Queued"
    BY <1>2 DEF ReportsStand
  <2>2. IsController(ControllerKey(name)) /\ ~IsProvisional(ControllerKey(name))
    BY <2>1, KeyKinds
  <2> QED
    BY <1>1, <2>1, <2>2 DEF Follows
<1>3. CASE reported' = reported
  BY <1>2, <1>3 DEF ReportsStand
<1>4. CASE ControllerEvent
  <2>1. PICK e \in Events : /\ Commit(validate_controller_event(model, e))
                            /\ reported' = reported \cup Reported(e, model')
    BY <1>4 DEF ControllerEvent
  <2> DEFINE step == validate_controller_event(model, e)
  <2>2. step.ok /\ model' = step.m
    BY <2>1 DEF Commit
  <2>3. ~e.lane /\ Target(e) # "none" =>
          /\ ControllerKey(e.subject) \in DOMAIN model'.byKey
          /\ model'.byKey[ControllerKey(e.subject)] \in model'.nonLane
    <3> HIDE DEF step
    <3>1. step = validate_controller_event(model, e)
      BY DEF step
    <3> QED
      BY <2>2, <3>1, ControllerEventKeeps
  <2>4. \A name \in Reported(e, model') :
          /\ name = e.subject /\ name \in Names /\ ~e.lane /\ Target(e) # "none"
          /\ model'.runs[model'.byKey[ControllerKey(name)]].state # "Queued"
    BY DEF Reported, AtWork, Events
  <2> HIDE DEF step
  <2> QED
    BY <1>2, <2>1, <2>3, <2>4 DEF ReportsStand
<1> QED
  BY <1>3, <1>4 DEF Next, vars

\* What a sound model means: the invariants that the runs check.
LEMMA SoundMeans == Sound(model) => IdentitiesSound /\ GraphsSound
<1> SUFFICES ASSUME Sound(model) PROVE IdentitiesSound /\ GraphsSound
  OBVIOUS
<1>1. KeysResolve
  <2>1. \A k \in DOMAIN model.byKey : model.byKey[k] \in DOMAIN model.runs
    BY DEF Sound, Typed
  <2>2. ASSUME NEW r \in DOMAIN model.runs
        PROVE  /\ IsProvisional(KeyOf(model, r)) \/ Known(model, KeyOf(model, r))
               /\ Known(model, KeyOf(model, r)) => model.byKey[KeyOf(model, r)] = r
               /\ Cardinality(NativeKeys(model, r)) <= 1
    <3>1. Cardinality(NativeKeys(model, r)) \in {0, 1}
      BY OneNative
    <3>2. Cardinality(NativeKeys(model, r)) <= 1
      BY <3>1
    <3> QED
      BY <2>1, <3>2 DEF Sound, KeysFound, Known
  <2> QED
    BY <2>1, <2>2 DEF KeysResolve
<1>2. ExecutionsOwned
  <2>1. ASSUME NEW t \in Terminals PROVE Cardinality(LiveOn(model, t)) <= 1
    <3>1. LiveOn(model, t) = {} \/ \E r : LiveOn(model, t) = {r}
      BY OneLive
    <3>2. Cardinality(LiveOn(model, t)) = 0 \/ Cardinality(LiveOn(model, t)) = 1
      BY <3>1, FS_EmptySet, FS_Singleton
    <3> QED
      BY <3>2
  <2> QED
    BY <2>1 DEF Sound, ExecutionsHeld, ExecutionsOwned
<1>3. GraphsSound
  BY DEF Sound, GraphsHold, GraphsSound
<1> QED
  BY <1>1, <1>2, <1>3 DEF IdentitiesSound

-----------------------------------------------------------------------------
(* What the task runs guarantee.                                           *)
(***************************************************************************)
(* The inductive invariant: from every model that the store's rows may     *)
(* give, after every observation, Controller event, piece of provider      *)
(* evidence and sweep, committed or refused, the reducer's model is sound, *)
(* and what Controllers reported is with the runs of their names.          *)
(***************************************************************************)
THEOREM ModelStaysSound == Spec => [](Sound(model) /\ ReportsStand)
<1>1. Init => Sound(model) /\ ReportsStand
  BY SoundInit
<1>2. Sound(model) /\ ReportsStand /\ [Next]_vars => Sound(model)' /\ ReportsStand'
  BY EveryStep, ReportsKept DEF Steps
<1> QED
  BY <1>1, <1>2, PTL DEF Spec

(***************************************************************************)
(* The shape of the model, within the bound on run identifiers: what a     *)
(* step leaves is a model whose keys, states and identifiers are in range. *)
(***************************************************************************)
THEOREM TaskRunTypes == Spec => []TypeOK
<1> DEFINE Bounded == Sound(model) /\ ReportsStand /\ model.next <= MaxRuns + 1
<1>1. Init => Bounded
  BY SoundInit
<1>2. Bounded /\ [Next]_vars => Bounded'
  <2> SUFFICES ASSUME Bounded, [Next]_vars PROVE Bounded'
    OBVIOUS
  <2>1. Sound(model')
    BY EveryStep DEF Steps
  <2>2. model'.next <= MaxRuns + 1
    <3>2. ASSUME NEW step, Commit(step) PROVE model'.next <= MaxRuns + 1
      BY <3>2 DEF Commit
    <3>3. HerdrObservation => \E step : Commit(step)
      BY DEF HerdrObservation, PaneWithAgent, PaneWithoutAgent, PaneMoved, PaneGone, Snapshot
    <3>4. ControllerEvent => \E step : Commit(step)
      BY DEF ControllerEvent
    <3>5. ASSUME NEW path, NEW sid, SessionResolved(path, sid) PROVE \E step : Commit(step)
      BY <3>5 DEF SessionResolved
    <3>6. ASSUME NEW run, NEW sid, HeuristicBinding(run, sid) PROVE \E step : Commit(step)
      BY <3>6 DEF HeuristicBinding
    <3>7. ASSUME NEW key, LaneClose(key) PROVE \E step : Commit(step)
      BY <3>7 DEF LaneClose
    <3>8. SweepStale \/ DismissClearable => \E step : Commit(step)
      BY DEF SweepStale, DismissClearable
    <3> QED
      BY <3>2, <3>3, <3>4, <3>5, <3>6, <3>7, <3>8 DEF Next, vars
  <2>3. ReportsStand'
    BY ReportsKept
  <2> QED
    BY <2>1, <2>2, <2>3
<1>3. Bounded => TypeOK
  <2> SUFFICES ASSUME Bounded PROVE TypeOK
    OBVIOUS
  <2>1. model.next \in Nat \ {0} /\ MaxRuns \in Nat
    BY MaxRunsAssumption DEF Sound, Numbered
  <2>2. \A r \in Nat \ {0} : r < model.next => r \in Runs
    BY <2>1 DEF Runs
  <2>3. DOMAIN model.runs \subseteq Runs
    BY <2>2 DEF Sound, Numbered
  <2>4. \A k \in AnyKey : (\A r \in Nat : k = Provisional(r) => r \in Runs) => k \in Keys
    BY DEF AnyKey, Keys, Provisional
  <2>5. DOMAIN model.byKey \subseteq Keys
    BY <2>2, <2>4 DEF Sound, Typed, Numbered
  <2>6. ASSUME NEW r \in DOMAIN model.runs
        PROVE  model.runs[r] \in [key : Keys, state : TaskStates, ctl : BOOLEAN,
                                  dismissed : BOOLEAN]
    <3>1. model.runs[r] \in Entries
      BY DEF Sound, Typed
    <3>2. KeyOf(model, r) \in AnyKey
      BY <3>1 DEF Entries, KeyOf
    <3>3. \A q \in Nat : KeyOf(model, r) = Provisional(q) => q \in Runs
      BY <2>3, KeyKinds DEF Sound, KeysFound, Numbered
    <3>4. model.runs[r].key \in Keys
      BY <2>4, <3>2, <3>3 DEF KeyOf
    <3> QED
      BY <3>1, <3>4 DEF Entries
  <2>7. model.live \subseteq Terminals \X Runs
    BY <2>3 DEF Sound, ExecutionsHeld
  <2>8. model.next \in 1..(MaxRuns + 1)
    BY <2>1
  <2>9. reported \subseteq Names
    BY DEF ReportsStand
  <2> QED
    BY <2>3, <2>5, <2>6, <2>7, <2>8, <2>9 DEF TypeOK
<1> QED
  BY <1>1, <1>2, <1>3, PTL DEF Spec

(***************************************************************************)
(* However Controllers, Herdr and providers interleave their bindings and  *)
(* merges (apply_bind, merge_in_memory), and however often an observation  *)
(* is rolled back, in a life that begins with any rows of the store, every *)
(* key resolves to a run that exists, every run that is not provisional is *)
(* found under its own key, no run answers for two native sessions, no     *)
(* merge orphans an execution, and a terminal has at most one live run.    *)
(***************************************************************************)
THEOREM IdentitiesStaySound == Spec => []IdentitiesSound
BY ModelStaysSound, SoundMeans, PTL

(***************************************************************************)
(* No order of dispatch and depends_on announcements, forward references   *)
(* and the contraction of edges by a merge (preflight_merge) included,     *)
(* gives a run two parents, closes a cycle, or leaves an edge to a run     *)
(* that is gone.                                                           *)
(***************************************************************************)
THEOREM GraphsStaySound == Spec => []GraphsSound
BY ModelStaysSound, SoundMeans, PTL

(***************************************************************************)
(* While a collector lives, two names that it found to mean one task, or   *)
(* that its store gave it as one (apply_bind, merge_in_memory), never come *)
(* apart again, whatever is bound or merged later. Nothing is said of two  *)
(* lives: retention prunes aliases, and a merge may fail to be written.    *)
(***************************************************************************)
THEOREM NamesNeverSplit == Spec => NeverSplit
<1> DEFINE Kept == \A k, l \in DOMAIN model.byKey :
        (~IsProvisional(k) /\ ~IsProvisional(l) /\ model.byKey[k] = model.byKey[l])
          => {k, l} \subseteq DOMAIN model'.byKey /\ model'.byKey[k] = model'.byKey[l]
<1>1. Sound(model) /\ [Next]_vars => Kept
  BY EveryStep DEF Steps, Follows
<1>2. Sound(model) /\ [Next]_vars => [Kept]_vars
  BY <1>1
<1> QED
  BY <1>2, ModelStaysSound, PTL DEF Spec, NeverSplit

(***************************************************************************)
(* The outcome a Controller reported for its task                          *)
(* (controller_task_transition) is final while the collector lives: no     *)
(* later event, merge, sweep or snapshot changes it or moves the name to   *)
(* another run.                                                            *)
(***************************************************************************)
THEOREM OutcomesStand == Spec => OutcomeStands
<1> DEFINE Kept == \A name \in Names :
        LET key == ControllerKey(name)
        IN  Known(model, key) /\ model.runs[model.byKey[key]].state \in Outcomes
              => /\ Known(model', key) /\ model'.byKey[key] = model.byKey[key]
                 /\ model'.runs[model'.byKey[key]].state = model.runs[model.byKey[key]].state
<1>1. Sound(model) /\ [Next]_vars => Kept
  <2> SUFFICES ASSUME Sound(model), [Next]_vars, NEW name \in Names,
                      Known(model, ControllerKey(name)),
                      model.runs[model.byKey[ControllerKey(name)]].state \in Outcomes
               PROVE  /\ Known(model', ControllerKey(name))
                      /\ model'.byKey[ControllerKey(name)] = model.byKey[ControllerKey(name)]
                      /\ model'.runs[model'.byKey[ControllerKey(name)]].state
                           = model.runs[model.byKey[ControllerKey(name)]].state
    OBVIOUS
  <2>1. Sound(model') /\ Follows(model, model')
    BY EveryStep DEF Steps
  <2>2. /\ IsController(ControllerKey(name)) /\ ~IsProvisional(ControllerKey(name))
        /\ ControllerKey(name) \in DOMAIN model.byKey
    BY KeyKinds DEF Known
  <2>3. ControllerKey(name) \in DOMAIN model'.byKey
    BY <2>1, <2>2 DEF Follows
  <2>4. Known(model', ControllerKey(name))
    BY <2>1, <2>3 DEF Sound, Typed, Known
  <2> QED
    BY <2>1, <2>2, <2>4 DEF Follows
<1>2. Sound(model) /\ [Next]_vars => [Kept]_vars
  BY <1>1
<1> QED
  BY <1>2, ModelStaysSound, PTL DEF Spec, OutcomeStands

(***************************************************************************)
(* An inferred end (close_run_without_live_execution, a silent log scope,  *)
(* sweep_stale) never closes a run that still has a live execution, nor    *)
(* the run of a name whose Controller said that the work goes on: to this  *)
(* collector, or to an earlier one in an event whose row was kept. What    *)
(* the Controller said is history; that the bookkeeping which the sweeps   *)
(* ask, model.nonLane, still has it, whatever was merged since, is what    *)
(* ReportsStand adds.                                                      *)
(***************************************************************************)
THEOREM InferredEndsAreSound == Spec => InferredEndSound
<1> DEFINE Rightly == \A run \in DOMAIN model.runs \cap DOMAIN model'.runs :
        model.runs[run].state # "EndedUnknown" /\ model'.runs[run].state = "EndedUnknown"
          => /\ ~HasLive(model', run)
             /\ \A name \in reported : KeyOf(model, run) # ControllerKey(name)
<1>1. Sound(model) /\ ReportsStand /\ [Next]_vars => Rightly
  <2> SUFFICES ASSUME Sound(model), ReportsStand, [Next]_vars,
                      NEW run \in DOMAIN model.runs \cap DOMAIN model'.runs,
                      model.runs[run].state # "EndedUnknown",
                      model'.runs[run].state = "EndedUnknown"
               PROVE  /\ ~HasLive(model', run)
                      /\ \A name \in reported : KeyOf(model, run) # ControllerKey(name)
    OBVIOUS
  <2>1. /\ ~HasLive(model', run)
        /\ run \notin model.nonLane \/ model.runs[run].state = "Queued"
    BY EveryStep DEF Steps, InferredEnds
  <2>2. ASSUME NEW name \in reported, KeyOf(model, run) = ControllerKey(name) PROVE FALSE
    <3>1. /\ ControllerKey(name) \in DOMAIN model.byKey
          /\ model.byKey[ControllerKey(name)] \in model.nonLane
          /\ model.runs[model.byKey[ControllerKey(name)]].state # "Queued"
      BY DEF ReportsStand
    <3>2. model.byKey[ControllerKey(name)] = run
      BY <2>2, <3>1 DEF Sound, KeysFound
    <3> QED
      BY <2>1, <3>1, <3>2
  <2> QED
    BY <2>1, <2>2
<1>2. Sound(model) /\ ReportsStand /\ [Next]_vars => [Rightly]_vars
  BY <1>1
<1> QED
  BY <1>2, ModelStaysSound, PTL DEF Spec, InferredEndSound

=============================================================================
