----------------------------- MODULE PartsProofs -----------------------------
(* Theorems about the parts that answer for themselves: the launch that      *)
(* finds its session owned, for every set of processes, terminals and panes  *)
(* and every number of retries and moves; the provider thread and the stop   *)
(* of the collector, for every capacity of their channels; the buffer that   *)
(* coalesces events, for every set of entities, slots and logs; the log      *)
(* lane; and the native lifecycle, for every set of runs and every number    *)
(* of pieces of evidence and outages.                                        *)
EXTENDS HeldLaunch, ProviderThread, Pending, Lane, Lifecycle, SequenceTheorems, TLAPS

HeldSpec == HeldInit /\ [][HeldNext]_heldVars

-----------------------------------------------------------------------------
(* The launch that finds its session owned.                                *)

Places == [terminal : Terminals \cup {Nowhere}, pane : PaneIds \cup {Nowhere}]
Steps == {"idle", "starting", "owning", "held", "located", "aimed", "focused"}

HeldTypes ==
    /\ where \in [Terminals -> PaneIds \cup {Nowhere}]
    /\ focused \in PaneIds \cup {Nowhere}
    /\ holder \in Launches \cup {Nowhere}
    /\ ownerRow \in [written : BOOLEAN, terminal : Terminals \cup {Nowhere},
                     pane : PaneIds \cup {Nowhere}]
    /\ tracker \in [Launches -> Places]
    /\ step \in [Launches -> Steps]
    /\ aim \in [Launches -> Terminals \cup PaneIds \cup {Nowhere}]
    /\ tries \in [Launches -> 0 .. OwnerRetries]
    /\ moves \in 0 .. MaxMoves
    /\ managed \in SUBSET Launches
    /\ unsure \in SUBSET Launches
    /\ \A p \in Launches : step[p] = "located" => aim[p] \in Terminals

\* An open pane has one terminal, the focused one is open, and a process has its terminal.
PanesKept ==
    /\ \A t, u \in Terminals : where[t] = where[u] /\ where[t] # Nowhere => t = u
    /\ focused # Nowhere => \E t \in Terminals : where[t] = focused
    /\ \A p \in Launches : step[p] # "idle" => where[HomeOf[p]] # Nowhere

\* One process owns the session; what it tracks and has written names its terminal, once it knew.
OwnerKept ==
    /\ \A p \in Launches : step[p] \in {"starting", "owning"} <=> holder = p
    /\ \A p \in managed : holder = p /\ tracker[p].terminal = HomeOf[p]
    /\ RowIsOwners => ownerRow.written /\ ownerRow.terminal = HomeOf[holder]

Sure(s) == {p \in Launches : step[p] = s /\ p \notin unsure}

\* What a sure launch goes for is the owner's, at each of its steps.
AimKept ==
    /\ \A p \in Sure("located") : RowIsOwners /\ aim[p] = HomeOf[holder]
    /\ \A p \in Sure("aimed") : RowIsOwners /\ aim[p] = where[HomeOf[holder]]
    /\ \A p \in Sure("focused") : RowIsOwners /\ focused = where[HomeOf[holder]]

HeldInv == HeldTypes /\ PanesKept /\ OwnerKept /\ AimKept

LEMMA HomeIsTerminal == ASSUME NEW p \in Launches PROVE HomeOf[p] \in Terminals
BY DEF Terminals

LEMMA HeldStart == HeldInit => HeldInv
<1> SUFFICES ASSUME HeldInit PROVE HeldInv
  OBVIOUS
<1> USE HeldLaunchConstants DEF HeldInit
<1>1. HeldTypes
  <2>1. focused \in PaneIds
    OBVIOUS
  <2>2. NoPlace \in Places
    BY DEF NoPlace, Places
  <2> QED BY <2>1, <2>2 DEF HeldTypes, Steps
<1>2. PanesKept
  BY DEF PanesKept
<1>3. OwnerKept
  BY DEF OwnerKept, RowIsOwners
<1>4. AimKept
  BY DEF AimKept, Sure
<1> QED BY <1>1, <1>2, <1>3, <1>4 DEF HeldInv

\* A launch that leaves, and any launch that has not the lock, disturbs nobody.
LEMMA LeavingKeeps ==
    ASSUME HeldInv, NEW p \in Launches, step[p] \notin {"starting", "owning"}, Leaves(p),
           UNCHANGED <<where, focused, holder, ownerRow, tracker, moves, managed>>
    PROVE  HeldInv'
<1> USE HeldLaunchConstants DEF HeldInv, Leaves, Goes
<1>1. HeldTypes'
  BY DEF HeldTypes, Steps
<1>2. \A q \in Launches : step'[q] = IF q = p THEN "idle" ELSE step[q]
  BY DEF HeldTypes
<1>3. \A q \in Launches : q # p => aim'[q] = aim[q]
  BY DEF HeldTypes
<1>4. PanesKept'
  BY <1>2 DEF PanesKept
<1>5. (RowIsOwners' <=> RowIsOwners) /\ OwnerKept'
  <2>1. holder # p
    BY DEF OwnerKept, HeldTypes
  <2>2. RowIsOwners' <=> RowIsOwners
    BY <1>2, <2>1 DEF RowIsOwners, HeldTypes
  <2> QED BY <1>2, <2>1, <2>2 DEF OwnerKept
<1>6. AimKept'
  BY <1>2, <1>3, <1>5 DEF AimKept, Sure, HeldTypes
<1> QED BY <1>1, <1>4, <1>5, <1>6

LEMMA StartLaunchKeeps ==
    ASSUME HeldInv, NEW p \in Launches, StartLaunch(p) PROVE HeldInv'
<1> USE HeldLaunchConstants DEF HeldInv
<1>0. step[p] = "idle" /\ where[HomeOf[p]] # Nowhere
      /\ UNCHANGED <<where, focused, ownerRow, aim, tries, moves, unsure>>
  BY Zenon DEF StartLaunch
<1>1. CASE holder # Nowhere /\ Goes(p, "held") /\ UNCHANGED <<holder, tracker, managed>>
  <2>1. \A q \in Launches : step'[q] = IF q = p THEN "held" ELSE step[q]
    BY <1>1 DEF Goes, HeldTypes
  <2>2. HeldTypes'
    BY <1>0, <1>1 DEF HeldTypes, Steps, Goes
  <2>3. PanesKept'
    BY <1>0, <2>1 DEF PanesKept
  <2>4. holder # p
    BY <1>0, <1>1 DEF OwnerKept
  <2>5. RowIsOwners' <=> RowIsOwners
    BY <1>1, <2>1, <2>4 DEF RowIsOwners, HeldTypes
  <2>6. OwnerKept'
    BY <1>0, <1>1, <2>1, <2>4, <2>5 DEF OwnerKept
  <2>7. AimKept'
    BY <1>0, <1>1, <2>1, <2>5 DEF AimKept, Sure
  <2> QED BY <2>2, <2>3, <2>6, <2>7
<1>2. CASE holder = Nowhere /\ holder' = p /\ Goes(p, "starting")
  <2>1. PICK place \in {NoPlace, [HomePlace(p) EXCEPT !.terminal = Nowhere], HomePlace(p)} :
          /\ tracker' = [tracker EXCEPT ![p] = place]
          /\ managed' = IF place.terminal = Nowhere THEN managed ELSE managed \cup {p}
    BY <1>0, <1>2, Zenon DEF StartLaunch
  <2>2. where[HomeOf[p]] \in PaneIds \cup {Nowhere} /\ HomeOf[p] \in Terminals
    BY HomeIsTerminal DEF HeldTypes
  <2>3. place \in Places /\ place.terminal \in {Nowhere, HomeOf[p]}
    <3>1. HomePlace(p) \in Places /\ HomePlace(p).terminal = HomeOf[p]
      BY <2>2 DEF HomePlace, Places
    <3>2. NoPlace \in Places /\ NoPlace.terminal = Nowhere
      BY DEF NoPlace, Places
    <3> DEFINE home == HomePlace(p)
    <3> HIDE DEF home
    <3>3. [home EXCEPT !.terminal = Nowhere] \in Places
          /\ [home EXCEPT !.terminal = Nowhere].terminal = Nowhere
      <4>1. home \in Places
        BY <3>1 DEF home
      <4> QED BY <4>1 DEF Places
    <3> QED BY <2>1, <3>1, <3>2, <3>3 DEF home
  <2>4. \A q \in Launches : step'[q] = IF q = p THEN "starting" ELSE step[q]
    BY <1>2 DEF Goes, HeldTypes
  <2>5. HeldTypes'
    BY <1>0, <1>2, <2>1, <2>3, <2>4 DEF HeldTypes, Steps, Goes
  <2>6. PanesKept'
    BY <1>0, <2>4 DEF PanesKept
  <2>7. ~RowIsOwners /\ ~RowIsOwners'
    BY <1>2, <2>4 DEF RowIsOwners
  <2>8. OwnerKept'
    <3>1. managed = {}
      BY <1>2 DEF OwnerKept, HeldTypes
    <3>2. \A q \in managed' : q = p /\ tracker'[p].terminal = HomeOf[p]
      BY <2>1, <2>3, <3>1 DEF HeldTypes
    <3> QED BY <1>2, <2>4, <2>7, <3>2 DEF OwnerKept
  <2>9. AimKept'
    BY <1>0, <2>4, <2>7 DEF AimKept, Sure
  <2> QED BY <2>5, <2>6, <2>8, <2>9
<1> QED BY <1>1, <1>2, Zenon DEF StartLaunch

LEMMA RecordOwnerKeeps ==
    ASSUME HeldInv, NEW p \in Launches, RecordOwner(p) PROVE HeldInv'
<1> USE HeldLaunchConstants DEF HeldInv
<1>0. step[p] = "starting" /\ Goes(p, "owning")
      /\ ownerRow' = [written |-> TRUE, terminal |-> tracker[p].terminal, pane |-> tracker[p].pane]
      /\ UNCHANGED <<where, focused, holder, tracker, aim, tries, moves, managed, unsure>>
  BY Zenon DEF RecordOwner
<1>1. \A q \in Launches : step'[q] = IF q = p THEN "owning" ELSE step[q]
  BY <1>0 DEF Goes, HeldTypes
<1>2. holder = p /\ ~RowIsOwners
  BY <1>0 DEF OwnerKept, RowIsOwners
<1>3. ownerRow'.written = TRUE /\ ownerRow'.terminal = tracker[p].terminal
  BY <1>0
<1>4. HeldTypes'
  <2>1. tracker[p] \in Places
    BY DEF HeldTypes
  <2>2. ownerRow' \in [written : BOOLEAN, terminal : Terminals \cup {Nowhere},
                       pane : PaneIds \cup {Nowhere}]
    BY <1>0, <2>1 DEF Places
  <2> QED BY <1>0, <1>1, <2>2 DEF HeldTypes, Steps, Goes
<1>5. PanesKept'
  BY <1>0, <1>1 DEF PanesKept
<1>6. OwnerKept'
  BY <1>0, <1>1, <1>2, <1>3 DEF OwnerKept, RowIsOwners
<1>7. AimKept'
  BY <1>0, <1>1, <1>2 DEF AimKept, Sure
<1> QED BY <1>4, <1>5, <1>6, <1>7

LEMMA OwnerEndsKeeps ==
    ASSUME HeldInv, NEW p \in Launches, OwnerEnds(p) PROVE HeldInv'
<1> USE HeldLaunchConstants DEF HeldInv
<1>0. /\ step[p] \in {"starting", "owning"} /\ Goes(p, "idle") /\ holder' = Nowhere
      /\ tracker' = [tracker EXCEPT ![p] = NoPlace] /\ managed' = managed \ {p}
      /\ unsure' = unsure \cup {q \in Launches : step[q] \in {"located", "aimed", "focused"}}
      /\ UNCHANGED <<where, focused, ownerRow, aim, tries, moves>>
  BY Zenon DEF OwnerEnds
<1>1. \A q \in Launches : step'[q] = IF q = p THEN "idle" ELSE step[q]
  BY <1>0 DEF Goes, HeldTypes
<1>2. holder = p
  BY <1>0 DEF OwnerKept
<1>3. HeldTypes'
  <2>1. NoPlace \in Places
    BY DEF NoPlace, Places
  <2> QED BY <1>0, <1>1, <2>1 DEF HeldTypes, Steps, Goes
<1>4. PanesKept'
  BY <1>0, <1>1 DEF PanesKept
<1>5. OwnerKept'
  <2>1. managed' = {}
    BY <1>0, <1>2 DEF OwnerKept
  <2>2. \A q \in Launches : step'[q] \notin {"starting", "owning"}
    BY <1>1, <1>2 DEF OwnerKept
  <2> QED BY <1>0, <2>1, <2>2 DEF OwnerKept, RowIsOwners
<1>6. AimKept'
  BY <1>0, <1>1 DEF AimKept, Sure
<1> QED BY <1>3, <1>4, <1>5, <1>6

\* The owner that knows its terminal finds it in every snapshot.
LEMMA RefreshOwnerKeeps ==
    ASSUME HeldInv, NEW p \in Launches, RefreshOwner(p) PROVE HeldInv'
<1> USE HeldLaunchConstants DEF HeldInv
<1> DEFINE pane == TrackedPane(tracker[p])
           place == [terminal |-> TerminalIn(pane), pane |-> pane]
<1>0. /\ step[p] = "owning" /\ pane # Nowhere
      /\ ownerRow' = [ownerRow EXCEPT !.terminal = place.terminal, !.pane = pane]
      /\ UNCHANGED <<where, focused, holder, step, aim, tries, moves, managed, unsure>>
  BY Zenon DEF RefreshOwner
<1>1. PICK home \in {place, tracker[p]} : tracker' = [tracker EXCEPT ![p] = home]
  BY Zenon DEF RefreshOwner
<1>2. holder = p /\ tracker[p] \in Places /\ HomeOf[p] \in Terminals
  BY <1>0, HomeIsTerminal DEF OwnerKept, HeldTypes
<1>3. pane \in PaneIds /\ \E t \in Terminals : where[t] = pane
  BY <1>0, <1>2 DEF TrackedPane, Places, PanesKept, HeldTypes
<1>4. TerminalIn(pane) \in Terminals /\ where[TerminalIn(pane)] = pane
  BY <1>3 DEF TerminalIn
<1>5. p \in managed => TerminalIn(pane) = HomeOf[p]
  <2> SUFFICES ASSUME p \in managed PROVE TerminalIn(pane) = HomeOf[p]
    OBVIOUS
  <2>1. tracker[p].terminal = HomeOf[p]
    BY DEF OwnerKept
  <2>2. where[HomeOf[p]] # Nowhere
    BY <1>0 DEF PanesKept
  <2>3. HomeOf[p] # Nowhere
    BY <1>2
  <2>4. pane = where[HomeOf[p]]
    BY <2>1, <2>2, <2>3 DEF TrackedPane
  <2> QED BY <1>2, <1>4, <2>2, <2>4 DEF PanesKept
<1>6. place \in Places /\ place.terminal = TerminalIn(pane)
  BY <1>3, <1>4 DEF Places
<1> HIDE DEF pane, place
<1>7. ownerRow'.terminal = TerminalIn(pane) /\ ownerRow'.written = ownerRow.written
      /\ ownerRow' \in [written : BOOLEAN, terminal : Terminals \cup {Nowhere},
                        pane : PaneIds \cup {Nowhere}]
  BY <1>0, <1>3, <1>4, <1>6 DEF HeldTypes
<1>8. HeldTypes'
  BY <1>0, <1>1, <1>2, <1>6, <1>7 DEF HeldTypes
<1>9. PanesKept' /\ (RowIsOwners' <=> RowIsOwners)
  BY <1>0 DEF PanesKept, RowIsOwners
<1>10. OwnerKept'
  <2>1. \A q \in managed : q = p /\ tracker'[p].terminal = HomeOf[p]
    BY <1>1, <1>2, <1>5, <1>6 DEF OwnerKept, HeldTypes
  <2>2. RowIsOwners => ownerRow'.written /\ ownerRow'.terminal = HomeOf[p]
    BY <1>2, <1>5, <1>7 DEF OwnerKept, RowIsOwners
  <2> QED BY <1>0, <1>2, <1>9, <2>1, <2>2 DEF OwnerKept
<1>11. AimKept'
  BY <1>0, <1>9 DEF AimKept, Sure
<1> QED BY <1>8, <1>9, <1>10, <1>11

\* A held launch goes on: it has not the lock, and whoever has it keeps its row.
LEMMA HeldGoesOn ==
    ASSUME HeldInv, NEW p \in Launches, step[p] \in {"held", "located", "aimed"},
           NEW s \in {"held", "located", "aimed", "focused"},
           step' = [step EXCEPT ![p] = s],
           UNCHANGED <<where, holder, ownerRow, tracker, moves, managed>>
    PROVE  /\ \A q \in Launches : step'[q] = IF q = p THEN s ELSE step[q]
           /\ step' \in [Launches -> Steps] /\ OwnerKept'
           /\ RowIsOwners' <=> RowIsOwners
           /\ \A q \in Launches : step'[q] # "idle" => where'[HomeOf[q]] # Nowhere
<1> USE HeldLaunchConstants DEF HeldInv
<1>1. \A q \in Launches : step'[q] = IF q = p THEN s ELSE step[q]
  BY DEF HeldTypes
<1>2. step' \in [Launches -> Steps]
  BY DEF HeldTypes, Steps
<1>3. holder # p
  BY DEF OwnerKept
<1>4. RowIsOwners' <=> RowIsOwners
  BY <1>1, <1>3 DEF RowIsOwners, HeldTypes
<1>5. OwnerKept'
  BY <1>1, <1>3, <1>4 DEF OwnerKept
<1>6. \A q \in Launches : step'[q] # "idle" => where'[HomeOf[q]] # Nowhere
  BY <1>1 DEF PanesKept
<1> QED BY <1>1, <1>2, <1>4, <1>5, <1>6

LEMMA ReadOwnerKeeps ==
    ASSUME HeldInv, NEW p \in Launches, ReadOwner(p) PROVE HeldInv'
<1> USE HeldLaunchConstants DEF HeldInv
<1>0. step[p] = "held" /\ UNCHANGED <<where, focused, holder, ownerRow, tracker, moves, managed>>
  BY Zenon DEF ReadOwner
<1>1. CASE /\ ownerRow.written /\ ownerRow.terminal # Nowhere
           /\ aim' = [aim EXCEPT ![p] = ownerRow.terminal]
           /\ unsure' = IF RowIsOwners THEN unsure ELSE unsure \cup {p}
           /\ Goes(p, "located") /\ UNCHANGED tries
  <2>1. /\ \A q \in Launches : step'[q] = IF q = p THEN "located" ELSE step[q]
        /\ step' \in [Launches -> Steps] /\ OwnerKept'
        /\ RowIsOwners' <=> RowIsOwners
        /\ \A q \in Launches : step'[q] # "idle" => where'[HomeOf[q]] # Nowhere
    BY <1>0, <1>1, HeldGoesOn DEF Goes
  <2>2. ownerRow.terminal \in Terminals
    BY <1>1 DEF HeldTypes
  <2>3. \A q \in Launches : aim'[q] = IF q = p THEN ownerRow.terminal ELSE aim[q]
    BY <1>1 DEF HeldTypes
  <2>4. HeldTypes'
    BY <1>0, <1>1, <2>1, <2>2, <2>3 DEF HeldTypes
  <2>5. PanesKept'
    BY <1>0, <2>1 DEF PanesKept
  <2>6. AimKept'
    <3>1. ASSUME p \notin unsure' PROVE RowIsOwners /\ aim'[p] = HomeOf[holder]
      BY <1>1, <2>3, <3>1 DEF OwnerKept
    <3>2. unsure \subseteq unsure'
      BY <1>1
    <3> QED BY <1>0, <2>1, <2>3, <3>1, <3>2 DEF AimKept, Sure
  <2> QED BY <2>1, <2>4, <2>5, <2>6
<1>2. CASE Leaves(p)
  BY <1>0, <1>2, LeavingKeeps
<1>3. CASE /\ tries[p] < OwnerRetries /\ tries' = [tries EXCEPT ![p] = @ + 1]
           /\ UNCHANGED <<step, aim, unsure>>
  <2>1. HeldTypes'
    BY <1>0, <1>3 DEF HeldTypes
  <2>2. PanesKept' /\ OwnerKept' /\ AimKept'
    BY <1>0, <1>3 DEF PanesKept, OwnerKept, AimKept, Sure, RowIsOwners
  <2> QED BY <2>1, <2>2
<1> QED BY <1>1, <1>2, <1>3, Zenon DEF ReadOwner

LEMMA LocateOwnerKeeps ==
    ASSUME HeldInv, NEW p \in Launches, LocateOwner(p) PROVE HeldInv'
<1> USE HeldLaunchConstants DEF HeldInv
<1>0. step[p] = "located" /\ UNCHANGED <<where, focused, holder, ownerRow, tracker, moves, managed>>
  BY Zenon DEF LocateOwner
<1>1. CASE Leaves(p)
  BY <1>0, <1>1, LeavingKeeps
<1>2. CASE /\ where[aim[p]] # Nowhere /\ Goes(p, "aimed")
           /\ aim' = [aim EXCEPT ![p] = where[aim[p]]] /\ UNCHANGED <<tries, unsure>>
  <2>1. /\ \A q \in Launches : step'[q] = IF q = p THEN "aimed" ELSE step[q]
        /\ step' \in [Launches -> Steps] /\ OwnerKept'
        /\ RowIsOwners' <=> RowIsOwners
        /\ \A q \in Launches : step'[q] # "idle" => where'[HomeOf[q]] # Nowhere
    BY <1>0, <1>2, HeldGoesOn DEF Goes
  <2>2. aim[p] \in Terminals /\ where[aim[p]] \in PaneIds
    BY <1>0, <1>2 DEF HeldTypes
  <2>3. \A q \in Launches : aim'[q] = IF q = p THEN where[aim[p]] ELSE aim[q]
    BY <1>2 DEF HeldTypes
  <2>4. HeldTypes'
    BY <1>0, <1>2, <2>1, <2>2, <2>3 DEF HeldTypes
  <2>5. PanesKept'
    BY <1>0, <2>1 DEF PanesKept
  <2>6. AimKept'
    BY <1>0, <1>2, <2>1, <2>3 DEF AimKept, Sure
  <2> QED BY <2>1, <2>4, <2>5, <2>6
<1> QED BY <1>1, <1>2, Zenon DEF LocateOwner

LEMMA FocusOwnerKeeps ==
    ASSUME HeldInv, NEW p \in Launches, FocusOwner(p) PROVE HeldInv'
<1> USE HeldLaunchConstants DEF HeldInv
<1>0. step[p] = "aimed" /\ UNCHANGED <<where, holder, ownerRow, tracker, moves, managed>>
  BY Zenon DEF FocusOwner
<1>1. CASE Leaves(p) /\ UNCHANGED focused
  BY <1>0, <1>1, LeavingKeeps
<1>2. CASE /\ \E t \in Terminals : where[t] = aim[p]
           /\ focused' = aim[p] /\ Goes(p, "focused") /\ UNCHANGED <<aim, tries>>
           /\ unsure' = IF p \in unsure
                        THEN unsure \cup {q \in Launches : step[q] = "focused"} ELSE unsure
  <2>1. /\ \A q \in Launches : step'[q] = IF q = p THEN "focused" ELSE step[q]
        /\ step' \in [Launches -> Steps] /\ OwnerKept'
        /\ RowIsOwners' <=> RowIsOwners
        /\ \A q \in Launches : step'[q] # "idle" => where'[HomeOf[q]] # Nowhere
    BY <1>0, <1>2, HeldGoesOn DEF Goes
  <2>2. HeldTypes'
    BY <1>0, <1>2, <2>1 DEF HeldTypes
  <2>3. PanesKept'
    BY <1>0, <1>2, <2>1 DEF PanesKept
  <2>4. AimKept'
    <3>1. CASE p \in unsure
      BY <1>0, <1>2, <2>1, <3>1 DEF AimKept, Sure
    <3>2. CASE p \notin unsure
      <4>1. RowIsOwners /\ focused' = where[HomeOf[holder]]
        BY <1>0, <1>2, <3>2 DEF AimKept, Sure
      <4> QED BY <1>0, <1>2, <2>1, <3>2, <4>1 DEF AimKept, Sure
    <3> QED BY <3>1, <3>2
  <2> QED BY <2>1, <2>2, <2>3, <2>4
<1> QED BY <1>1, <1>2, Zenon DEF FocusOwner

LEMMA UserKeeps ==
    ASSUME HeldInv, NEW t \in Terminals,
           CloseTerminal(t) \/ GoToPane(t) \/ \E pane \in PaneIds : MovePane(t, pane)
    PROVE  HeldInv'
<1> USE HeldLaunchConstants DEF HeldInv
<1>0. /\ UNCHANGED <<holder, ownerRow, tracker, step, aim, tries, managed>>
      /\ moves < MaxMoves /\ moves' = moves + 1 /\ where[t] # Nowhere
  BY Zenon DEF CloseTerminal, GoToPane, MovePane
<1>1. moves' \in 0 .. MaxMoves
  BY <1>0 DEF HeldTypes
<1>2. OwnerKept' /\ (RowIsOwners' <=> RowIsOwners)
  BY <1>0 DEF OwnerKept, RowIsOwners
<1>3. RowIsOwners => HomeOf[holder] \in Terminals /\ step[holder] # "idle" /\ holder \in Launches
  BY HomeIsTerminal DEF RowIsOwners, HeldTypes
<1>4. ASSUME NEW pane \in PaneIds, MovePane(t, pane) PROVE HeldInv'
  <2>1. /\ \A u \in Terminals : where[u] # pane
        /\ where' = [where EXCEPT ![t] = pane]
        /\ focused' = IF focused = where[t] THEN pane ELSE focused
        /\ unsure' = unsure \cup {p \in Launches : step[p] \in {"aimed", "focused"}}
    BY <1>4, Zenon DEF MovePane
  <2>2. \A u \in Terminals : where'[u] = IF u = t THEN pane ELSE where[u]
    BY <2>1 DEF HeldTypes
  <2>3. HeldTypes'
    BY <1>0, <1>1, <2>1 DEF HeldTypes
  <2>4. PanesKept'
    BY <1>0, <2>1, <2>2, HomeIsTerminal DEF PanesKept
  <2>5. AimKept'
    BY <1>0, <1>2, <2>1 DEF AimKept, Sure
  <2> QED BY <1>2, <2>3, <2>4, <2>5
<1>5. CASE CloseTerminal(t)
  <2>1. /\ \A p \in Launches : HomeOf[p] = t => step[p] = "idle"
        /\ where' = [where EXCEPT ![t] = Nowhere] /\ UNCHANGED unsure
        /\ \/ focused # where[t] /\ UNCHANGED focused
           \/ focused = where[t] /\ focused' \in {where'[u] : u \in Terminals}
    BY <1>5, Zenon DEF CloseTerminal
  <2>2. \A u \in Terminals : where'[u] = IF u = t THEN Nowhere ELSE where[u]
    BY <2>1 DEF HeldTypes
  <2>3. HeldTypes'
    BY <1>0, <1>1, <2>1, <2>2 DEF HeldTypes
  <2>4. PanesKept'
    BY <1>0, <2>1, <2>2, HomeIsTerminal DEF PanesKept
  <2>5. RowIsOwners => HomeOf[holder] # t /\ where'[HomeOf[holder]] = where[HomeOf[holder]]
    BY <1>3, <2>1, <2>2
  <2>6. Sure("focused") # {} => UNCHANGED focused
    BY <1>3, <2>1, <2>5 DEF AimKept, PanesKept
  <2>7. AimKept'
    BY <1>0, <1>2, <2>1, <2>5, <2>6 DEF AimKept, Sure
  <2> QED BY <1>2, <2>3, <2>4, <2>7
<1>6. CASE GoToPane(t)
  <2>1. /\ focused' = where[t] /\ UNCHANGED <<where, unsure>>
        /\ \A p \in Launches : step[p] # "focused"
    BY <1>6, Zenon DEF GoToPane
  <2>2. HeldTypes'
    BY <1>0, <1>1, <2>1 DEF HeldTypes
  <2>3. PanesKept'
    BY <1>0, <2>1 DEF PanesKept
  <2>4. AimKept'
    BY <1>0, <1>2, <2>1 DEF AimKept, Sure
  <2> QED BY <1>2, <2>2, <2>3, <2>4
<1> QED BY <1>4, <1>5, <1>6

\* A second launch reaches the owner's pane, for any number of launches, terminals, panes and
\* moves (run_held_branch, focus_existing_owner, OwnerTracker::refresh_from_snapshot): what a
\* sure launch goes for is the owner's at each of its steps, first the terminal of the row, then
\* the pane Herdr has for it.
THEOREM HeldLaunchReachesOwner == HeldSpec => []FocusReachesOwner
<1>1. HeldInv /\ [HeldNext]_heldVars => HeldInv'
  <2> SUFFICES ASSUME HeldInv, [HeldNext]_heldVars PROVE HeldInv'
    OBVIOUS
  <2>1. CASE UNCHANGED heldVars
    BY <2>1 DEF heldVars, HeldInv, HeldTypes, PanesKept, OwnerKept, AimKept, Sure, RowIsOwners
  <2>2. ASSUME NEW p \in Launches, GiveUp(p) \/ LeaveFocused(p) PROVE HeldInv'
    BY <2>2, LeavingKeeps DEF GiveUp, LeaveFocused
  <2>3. CASE HeldNext
    BY <2>2, <2>3, StartLaunchKeeps, RecordOwnerKeeps, RefreshOwnerKeeps, OwnerEndsKeeps,
       ReadOwnerKeeps, LocateOwnerKeeps, FocusOwnerKeeps, UserKeeps, Zenon DEF HeldNext
  <2> QED BY <2>1, <2>3
<1>2. HeldInv => FocusReachesOwner
  BY DEF HeldInv, AimKept, Sure, RowIsOwners, FocusReachesOwner
<1> QED BY HeldStart, <1>1, <1>2, PTL DEF HeldSpec

-----------------------------------------------------------------------------
(* The provider thread and the stop of the collector.                      *)

ThreadTypes ==
    /\ control \in Seq({"hint", "targets", "stop"})
    /\ thread \in {"cycle", "process", "top", "wait", "collect", "graceful", "exited", "panicked"}
    /\ unsent \in Nat /\ held \in Nat /\ events \in 0 .. EventCapacity
    /\ stopFlag \in BOOLEAN /\ ingress \in BOOLEAN /\ receives \in BOOLEAN /\ missed \in BOOLEAN
    /\ stopping \in {"no", "cancelled", "flagged", "sent", "awaitsExit", "awaitsDrain",
                     "awaitsTask", "failed", "stopped", "error"}
    /\ collector \in {"runs", "drains", "done", "failed"}
    /\ drained \in {"pending", "acknowledged", "dropped"}

\* The call of stop: what it has seen so far is so.
CallKeepsPace ==
    /\ stopFlag <=> stopping \notin {"no", "cancelled"}
    /\ stopping \in {"awaitsDrain", "awaitsTask", "stopped"} => thread = "exited"
    /\ stopping \in {"awaitsTask", "stopped"} => drained = "acknowledged"

\* The thread waits without a message only when nobody has sent the stop.
WaitKept == stopping \in {"sent", "awaitsExit", "awaitsDrain"} /\ thread = "wait" => control # <<>>

\* The receiving end: nothing is lost while there is one, and an acknowledged drain with an open
\* ingress had every event.
ReceiverKept ==
    /\ ~receives => events = 0
    /\ receives => ~missed /\ drained = "pending"
    /\ thread = "exited" /\ receives => held = 0
    /\ drained = "acknowledged" /\ ingress =>
          ~missed /\ ThreadEnded(thread) /\ (thread = "exited" => held = 0)

ProviderInv == ThreadTypes /\ CallKeepsPace /\ WaitKept /\ ReceiverKept

LEMMA SentArrives ==
    ASSUME ThreadTypes, NEW message \in {"hint", "targets", "stop"}
    PROVE  Sent(message) \in Seq({"hint", "targets", "stop"}) /\ Sent(message) # <<>>
<1>1. CASE Len(control) < ControlCapacity
  BY <1>1 DEF Sent, ThreadTypes
<1>2. CASE ~(Len(control) < ControlCapacity)
  <2>1. Len(control) # 0
    BY <1>2, ProviderThreadConstants DEF ThreadTypes
  <2>2. control # <<>>
    BY <2>1 DEF ThreadTypes
  <2> QED BY <1>2, <2>2 DEF Sent, ThreadTypes
<1> QED BY <1>1, <1>2

LEMMA FlushFits ==
    ASSUME ThreadTypes, NEW count \in Nat
    PROVE  /\ count - Flushed(count) \in Nat
           /\ events + Flushed(count) \in 0 .. EventCapacity
           /\ ~receives => Flushed(count) = 0
BY ProviderThreadConstants DEF ThreadTypes, Flushed, Less

LEMMA WorldStepsKeep ==
    ASSUME ProviderInv, LogChanges \/ Notify \/ UpdateTargets PROVE ProviderInv'
<1>1. /\ control' \in {control, Sent("hint"), Sent("targets")}
      /\ UNCHANGED <<thread, unsent, held, events, stopFlag, ingress, receives, missed, stopping,
                    collector, drained>>
  BY Zenon DEF LogChanges, Notify, UpdateTargets, threadVars, stopVars, collectorVars
<1>2. control' \in Seq({"hint", "targets", "stop"}) /\ (control # <<>> => control' # <<>>)
  <2>1. control \in Seq({"hint", "targets", "stop"})
    BY DEF ProviderInv, ThreadTypes
  <2>2. "hint" \in {"hint", "targets", "stop"} /\ "targets" \in {"hint", "targets", "stop"}
    OBVIOUS
  <2>3. /\ Sent("hint") \in Seq({"hint", "targets", "stop"}) /\ Sent("hint") # <<>>
        /\ Sent("targets") \in Seq({"hint", "targets", "stop"}) /\ Sent("targets") # <<>>
    BY <2>2, SentArrives, Zenon DEF ProviderInv
  <2> QED BY <1>1, <2>1, <2>3, Zenon
<1> QED BY <1>1, <1>2 DEF ProviderInv, ThreadTypes, CallKeepsPace, WaitKept, ReceiverKept, ThreadEnded

\* The thread runs: it begins to wait only while nobody has raised the flag.
LEMMA ThreadStepsKeep ==
    ASSUME ProviderInv, ThreadStep \/ Rescan \/ ThreadPanics PROVE ProviderInv'
<1>1. UNCHANGED <<stopFlag, ingress, receives, missed, stopping, collector, drained>>
  BY Zenon DEF ThreadStep, Rescan, ThreadPanics, BeginCycle, AwaitBarrier, FinishCycle, LoopTop,
     ReceiveControl, CollectControl, RetryPending, SendHeld, stopVars, collectorVars
<1>2. /\ thread \notin {"exited", "panicked"} /\ thread' \in {"cycle", "process", "top", "wait",
             "collect", "graceful", "exited", "panicked"}
      /\ thread' = "wait" => ~stopFlag
      /\ thread' = "exited" => (held' = 0 \/ ~receives)
  BY DEF ThreadStep, Rescan, ThreadPanics, BeginCycle, AwaitBarrier, FinishCycle, LoopTop,
         ReceiveControl, CollectControl, RetryPending, SendHeld, Stops, ProviderInv, ThreadTypes
<1>3. control' \in Seq({"hint", "targets", "stop"})
  <2>1. control' = control \/ (control # <<>> /\ control' = Tail(control))
    BY Zenon DEF ThreadStep, Rescan, ThreadPanics, BeginCycle, AwaitBarrier, FinishCycle, LoopTop,
       ReceiveControl, CollectControl, RetryPending, SendHeld, stopVars, collectorVars
  <2> QED BY <2>1 DEF ProviderInv, ThreadTypes
<1>4. held' \in Nat
  BY ProviderThreadConstants DEF ThreadStep, Rescan, ThreadPanics, BeginCycle, AwaitBarrier, FinishCycle,
     LoopTop, ReceiveControl, CollectControl, RetryPending, SendHeld, Stops, ProviderInv, ThreadTypes
<1>5. unsent' \in Nat /\ events' \in 0 .. EventCapacity /\ (~receives => events' = events)
  <2>1. ASSUME NEW count \in Nat, Flush(count)
        PROVE  unsent' \in Nat /\ events' \in 0 .. EventCapacity /\ (~receives => events' = events)
    BY <2>1, FlushFits DEF Flush, ProviderInv, ThreadTypes
  <2>2. ASSUME UNCHANGED <<unsent, events>>
        PROVE  unsent' \in Nat /\ events' \in 0 .. EventCapacity /\ (~receives => events' = events)
    BY <2>2 DEF ProviderInv, ThreadTypes
  <2>3. unsent \in Nat /\ 0 .. MaxFound \subseteq Nat
    BY ProviderThreadConstants DEF ProviderInv, ThreadTypes
  <2>4. CASE BeginCycle
    BY <2>1, <2>3, <2>4, Zenon DEF BeginCycle
  <2>5. CASE FinishCycle
    <3>1. PICK found \in 0 .. MaxFound : Flush(found) \/ Flush(found + 1)
      BY <2>5, Zenon DEF FinishCycle, GoneThrough, CutShort, BrokenOff
    <3>2. found \in Nat /\ found + 1 \in Nat
      BY ProviderThreadConstants
    <3> QED BY <2>1, <3>1, <3>2, Zenon
  <2>6. CASE RetryPending
    BY <2>1, <2>2, <2>3, <2>6, Zenon DEF RetryPending
  <2>7. CASE SendHeld
    BY <2>7, ProviderThreadConstants DEF SendHeld, ProviderInv, ThreadTypes
  <2>8. CASE AwaitBarrier \/ LoopTop \/ ReceiveControl \/ CollectControl \/ Rescan \/ ThreadPanics
    BY <2>2, <2>8, Zenon DEF AwaitBarrier, LoopTop, ReceiveControl, CollectControl, Rescan, ThreadPanics
  <2> QED BY <2>4, <2>5, <2>6, <2>7, <2>8, Zenon DEF ThreadStep
<1>6. ThreadTypes'
  BY <1>1, <1>2, <1>3, <1>4, <1>5 DEF ProviderInv, ThreadTypes
<1>7. CallKeepsPace' /\ WaitKept'
  BY <1>1, <1>2 DEF ProviderInv, CallKeepsPace, WaitKept
<1>8. ReceiverKept'
  BY <1>1, <1>2, <1>5 DEF ProviderInv, ReceiverKept, ThreadEnded
<1> QED BY <1>6, <1>7, <1>8 DEF ProviderInv

\* The receiving end goes: for good, and with the events that were still on their way.
LEMMA LetGoKeeps ==
    ASSUME ProviderInv, LetGo, UNCHANGED <<control, thread, unsent, held, stopFlag, ingress>>,
           stopping' = stopping \/ (stopping' = "error" /\ stopFlag),
           collector' \in {"runs", "drains", "done", "failed"},
           \/ drained' = "acknowledged" /\ stopping' = stopping /\ (SenderGone \/ ~ingress) /\ receives
           \/ drained' = IF drained = "pending" THEN "dropped" ELSE drained
    PROVE  ProviderInv'
<1>1. receives' = FALSE /\ events' = 0
  BY DEF LetGo
<1>2. missed' \in BOOLEAN /\ (missed' => missed \/ events > 0)
  BY Zenon DEF LetGo
<1>a. /\ control' = control /\ thread' = thread /\ unsent' = unsent /\ held' = held
      /\ stopFlag' = stopFlag /\ ingress' = ingress
  OBVIOUS
<1>b. drained' \in {drained, "acknowledged", "dropped"} /\ (drained = "acknowledged" => drained' = drained)
  <2>1. CASE drained' = "acknowledged"
    BY <2>1
  <2>2. CASE drained' = IF drained = "pending" THEN "dropped" ELSE drained
    BY <2>2
  <2> QED BY <2>1, <2>2
<1>c. 0 \in 0 .. EventCapacity
  BY ProviderThreadConstants
<1>3. ThreadTypes'
  BY <1>1, <1>2, <1>a, <1>b, <1>c DEF ProviderInv, ThreadTypes
<1>4. CallKeepsPace' /\ WaitKept'
  BY <1>a, <1>b DEF ProviderInv, CallKeepsPace, WaitKept, ThreadTypes
<1>5. ASSUME drained' = "acknowledged", ingress
      PROVE  ~missed' /\ ThreadEnded(thread) /\ (thread = "exited" => held = 0)
  <2>1. CASE drained = "acknowledged"
    <3>1. ~receives /\ events = 0
      BY <2>1 DEF ProviderInv, ReceiverKept
    <3>2. ~(events > 0)
      BY <3>1
    <3> QED BY <1>2, <1>5, <2>1, <3>2 DEF ProviderInv, ReceiverKept
  <2>2. CASE SenderGone /\ receives
    <3>1. ~(events > 0) /\ ThreadEnded(thread)
      BY <2>2 DEF SenderGone
    <3> QED BY <1>2, <2>2, <3>1 DEF ProviderInv, ReceiverKept
  <2> QED BY <1>5, <2>1, <2>2
<1>6. ReceiverKept'
  BY <1>1, <1>5 DEF ReceiverKept, ThreadEnded
<1> QED BY <1>3, <1>4, <1>6 DEF ProviderInv

LEMMA CollectorStepsKeep ==
    ASSUME ProviderInv,
           CollectorStep \/ OverflowTakesEvent \/ RetryMutation \/ RetryBarrier \/ CollectorFails
    PROVE  ProviderInv'
<1>1. UNCHANGED <<control, thread, unsent, held, stopFlag, stopping>>
  BY Zenon DEF CollectorStep, ApplyProviderEvent, OverflowTakesEvent, RetryMutation, RetryBarrier,
     EventsEnd, BeginDrain, GiveUpDrain, EndDrain, CollectorFails, threadVars, stopVars
<1>2. CASE ApplyProviderEvent \/ OverflowTakesEvent
  <2>1. /\ receives /\ events' = events - 1 /\ events > 0 /\ (UNCHANGED ingress \/ ingress' = FALSE)
        /\ UNCHANGED <<collector, receives, drained, missed>>
    BY <1>2, Zenon DEF ApplyProviderEvent, OverflowTakesEvent
  <2>a. events' \in 0 .. EventCapacity
    BY <2>1, ProviderThreadConstants DEF ProviderInv, ThreadTypes
  <2>b. ingress' \in BOOLEAN
    BY <2>1, Zenon DEF ProviderInv, ThreadTypes
  <2>2. ThreadTypes'
    BY <1>1, <2>1, <2>a, <2>b DEF ProviderInv, ThreadTypes
  <2>3. CallKeepsPace' /\ WaitKept' /\ ReceiverKept'
    BY <1>1, <2>1 DEF ProviderInv, CallKeepsPace, WaitKept, ReceiverKept, ThreadEnded
  <2> QED BY <2>2, <2>3 DEF ProviderInv
<1>3. CASE RetryMutation
  <2>1. receives /\ ingress' = TRUE /\ UNCHANGED <<events, collector, receives, drained, missed>>
    BY <1>3, Zenon DEF RetryMutation
  <2>2. drained = "pending"
    BY <2>1 DEF ProviderInv, ReceiverKept
  <2> QED BY <1>1, <2>1, <2>2
        DEF ProviderInv, ThreadTypes, CallKeepsPace, WaitKept, ReceiverKept, ThreadEnded
<1>4. CASE EventsEnd
  <2>1. LetGo /\ drained' = "acknowledged" /\ SenderGone /\ receives /\ UNCHANGED <<collector, ingress>>
    BY <1>4, Zenon DEF EventsEnd
  <2>2. collector' \in {"runs", "drains", "done", "failed"}
    BY <2>1 DEF ProviderInv, ThreadTypes
  <2> QED BY <1>1, <2>1, <2>2, LetGoKeeps
<1>5. CASE GiveUpDrain
  <2>1. LetGo /\ drained' = "acknowledged" /\ ~ingress /\ receives /\ UNCHANGED <<collector, ingress>>
    BY <1>5, Zenon DEF GiveUpDrain
  <2>2. collector' \in {"runs", "drains", "done", "failed"}
    BY <2>1 DEF ProviderInv, ThreadTypes
  <2> QED BY <1>1, <2>1, <2>2, LetGoKeeps
<1>6. CASE BeginDrain \/ EndDrain
  <2>1. /\ UNCHANGED <<events, ingress, receives, drained, missed>>
        /\ collector' \in {"drains", "done"}
    BY <1>6 DEF BeginDrain, EndDrain
  <2> QED BY <1>1, <2>1
        DEF ProviderInv, ThreadTypes, CallKeepsPace, WaitKept, ReceiverKept, ThreadEnded
<1>7. CASE RetryBarrier
  <2>1. UNCHANGED <<events, ingress, collector, receives, drained, missed>>
    BY <1>7, Zenon DEF RetryBarrier
  <2> QED BY <1>1, <2>1
        DEF ProviderInv, ThreadTypes, CallKeepsPace, WaitKept, ReceiverKept, ThreadEnded
<1>8. CASE CollectorFails
  <2>1. /\ LetGo /\ collector' = "failed" /\ UNCHANGED ingress
        /\ drained' = IF drained = "pending" THEN "dropped" ELSE drained
    BY <1>8, Zenon DEF CollectorFails
  <2> QED BY <1>1, <2>1, LetGoKeeps
<1> QED BY <1>2, <1>3, <1>4, <1>5, <1>6, <1>7, <1>8, Zenon DEF CollectorStep

LEMMA StopStepsKeep ==
    ASSUME ProviderInv, RequestStop \/ RaiseFlag \/ SendStop \/ DropWatcher \/ ExitSeen \/ DrainSeen
                        \/ TaskSeen
    PROVE  ProviderInv'
<1>1. UNCHANGED <<thread, unsent, held>>
  BY Zenon DEF RequestStop, RaiseFlag, SendStop, DropWatcher, ExitSeen, DrainSeen, TaskSeen, threadVars
<1>2. CASE RequestStop \/ RaiseFlag \/ DropWatcher \/ ExitSeen \/ DrainSeen
  <2>1. UNCHANGED <<control, events, collector, ingress, receives, drained, missed>>
    BY <1>2, Zenon DEF RequestStop, RaiseFlag, DropWatcher, ExitSeen, DrainSeen, collectorVars
  <2>2. \/ stopping = "no" /\ stopping' = "cancelled" /\ UNCHANGED stopFlag
        \/ stopping = "cancelled" /\ stopping' = "flagged" /\ stopFlag' = TRUE
        \/ stopping = "sent" /\ stopping' = "awaitsExit" /\ UNCHANGED stopFlag
        \/ stopping = "awaitsExit" /\ thread = "exited" /\ stopping' = "awaitsDrain"
           /\ UNCHANGED stopFlag
        \/ stopping = "awaitsDrain" /\ drained = "acknowledged" /\ stopping' = "awaitsTask"
           /\ UNCHANGED stopFlag
        \/ stopping \in {"awaitsExit", "awaitsDrain"} /\ stopping' = "failed" /\ UNCHANGED stopFlag
    BY <1>2 DEF RequestStop, RaiseFlag, DropWatcher, ExitSeen, DrainSeen
  <2>3. stopping' \in {"cancelled", "flagged", "awaitsExit", "awaitsDrain", "awaitsTask", "failed"}
    BY <2>2
  <2>4. stopFlag' \in BOOLEAN
    BY <2>2, Zenon DEF ProviderInv, ThreadTypes
  <2>5. ThreadTypes'
    BY <1>1, <2>1, <2>3, <2>4 DEF ProviderInv, ThreadTypes
  <2>6. stopFlag' <=> stopping' \notin {"no", "cancelled"}
    <3>1. CASE stopFlag' = TRUE /\ stopping' = "flagged"
      BY <3>1
    <3>2. CASE /\ stopFlag' = stopFlag
               /\ (stopping = "no" /\ stopping' = "cancelled")
                  \/ {stopping, stopping'} \cap {"no", "cancelled"} = {}
      BY <3>2 DEF ProviderInv, CallKeepsPace
    <3> QED BY <2>2, <3>1, <3>2
  <2>7. CallKeepsPace' /\ WaitKept' /\ ReceiverKept'
    BY <1>1, <2>1, <2>2, <2>6 DEF ProviderInv, CallKeepsPace, WaitKept, ReceiverKept, ThreadEnded
  <2> QED BY <2>5, <2>7 DEF ProviderInv
<1>3. CASE SendStop
  <2>1. /\ UNCHANGED <<events, stopFlag, collector, ingress, receives, drained, missed>>
        /\ stopping = "flagged" /\ stopping' = "sent" /\ control' = Sent("stop")
    BY <1>3, Zenon DEF SendStop, collectorVars
  <2>2. control' \in Seq({"hint", "targets", "stop"}) /\ control' # <<>>
    <3>1. "stop" \in {"hint", "targets", "stop"}
      OBVIOUS
    <3> QED BY <2>1, <3>1, SentArrives, Zenon DEF ProviderInv
  <2> QED BY <1>1, <2>1, <2>2
        DEF ProviderInv, ThreadTypes, CallKeepsPace, WaitKept, ReceiverKept, ThreadEnded
<1>4. CASE TaskSeen
  <2>1. UNCHANGED <<control, stopFlag>> /\ stopping \in {"awaitsTask", "failed"}
    BY <1>4, Zenon DEF TaskSeen
  <2>2. CASE /\ collector \in {"done", "failed"}
             /\ stopping' = IF stopping = "awaitsTask" /\ collector = "done" THEN "stopped"
                            ELSE "error"
             /\ UNCHANGED <<collectorVars, events>>
    <3>1. UNCHANGED <<events, collector, ingress, receives, drained, missed>>
      BY <2>2 DEF collectorVars
    <3>2. stopping' = "error" \/ (stopping' = "stopped" /\ stopping = "awaitsTask")
      BY <2>2
    <3> QED BY <1>1, <2>1, <3>1, <3>2
          DEF ProviderInv, ThreadTypes, CallKeepsPace, WaitKept, ReceiverKept, ThreadEnded
  <2>3. CASE /\ stopping' = "error" /\ collector' = "failed" /\ LetGo /\ UNCHANGED ingress
             /\ drained' = IF drained = "pending" THEN "dropped" ELSE drained
    <3>1. stopFlag
      BY <2>1 DEF ProviderInv, CallKeepsPace
    <3> QED BY <1>1, <2>1, <2>3, <3>1, LetGoKeeps
  <2> QED BY <1>4, <2>2, <2>3, Zenon DEF TaskSeen
<1> QED BY <1>2, <1>3, <1>4

\* CollectorHandle::stop_with_timeout and the provider thread, for channels of every capacity and
\* any number of changes, target sets, drains, failures and outcomes: a stop that succeeds has
\* left nothing behind, and the thread that waits when it is told to stop has a message to wake it.
THEOREM StopsAreClean == ProviderSpec => []StopIsClean
<1>1. ProviderInit => ProviderInv
  <2> SUFFICES ASSUME ProviderInit PROVE ProviderInv
    OBVIOUS
  <2>1. /\ control = <<>> /\ thread = "cycle" /\ unsent = 0 /\ held = 0 /\ events = 0
        /\ stopping = "no" /\ collector = "runs" /\ drained = "pending"
        /\ ~stopFlag /\ ingress /\ receives /\ ~missed
    BY DEF ProviderInit
  <2>2. {stopFlag, ingress, receives, missed} \subseteq BOOLEAN
    BY Zenon DEF ProviderInit
  <2>3. <<>> \in Seq({"hint", "targets", "stop"}) /\ 0 \in 0 .. EventCapacity
    BY ProviderThreadConstants
  <2>4. ThreadTypes
    BY <2>1, <2>2, <2>3 DEF ThreadTypes
  <2>5. CallKeepsPace /\ WaitKept /\ ReceiverKept
    BY <2>1 DEF CallKeepsPace, WaitKept, ReceiverKept
  <2> QED BY <2>4, <2>5 DEF ProviderInv
<1>2. ProviderInv /\ [ProviderNext]_providerVars => ProviderInv'
  <2> SUFFICES ASSUME ProviderInv, [ProviderNext]_providerVars PROVE ProviderInv'
    OBVIOUS
  <2>1. CASE UNCHANGED providerVars
    BY <2>1 DEF providerVars, ProviderInv, ThreadTypes, CallKeepsPace, WaitKept, ReceiverKept,
       ThreadEnded
  <2>2. CASE ProviderNext
    BY <2>2, WorldStepsKeep, ThreadStepsKeep, CollectorStepsKeep, StopStepsKeep, Zenon
       DEF ProviderNext
  <2> QED BY <2>1, <2>2
<1>3. ProviderInv => StopIsClean
  BY DEF ProviderInv, CallKeepsPace, WaitKept, ReceiverKept, StopIsClean, ThreadEnded
<1> QED BY <1>1, <1>2, <1>3, PTL DEF ProviderSpec

-----------------------------------------------------------------------------
(* The buffer that coalesces events.                                       *)

PendingSpec == PendingInit /\ [][PendingNext]_pendingVars

\* An event as it stands in its log, whatever its origin, and one that is among those read.
InLog(e) == e.position \in DOMAIN TimeOf[e.path] /\ e.time = TimeOf[e.path][e.position]
Read(e, upTo) == InLog(e) /\ e.position <= upTo[e.path]

\* The event stands for the whole set, and is live when any of the set is.
Represents(e, set) ==
    /\ \A f \in set : StandsFor(e, f)
    /\ e.origin = "live" <=> \E f \in set : f.origin = "live"

PendingTypes ==
    /\ next \in [Paths -> Nat]
    /\ slots \in [Keys -> Events \cup {NoEvent}]
    /\ merged \in [Keys -> SUBSET Events]
    /\ lane \in Seq(Paths \X Nat)

SlotsKept ==
    \A k \in Keys :
        /\ slots[k] = NoEvent => merged[k] = {}
        /\ slots[k] # NoEvent => Represents(slots[k], merged[k]) /\ Read(slots[k], next)
        /\ \A f \in merged[k] : Read(f, next)

\* What was there when the barrier came is sent or still there.
AheadKept == \A x \in ahead : (x \in Keys /\ slots[x] # NoEvent) \/ x \in Range(lane)

PendingInv == PendingTypes /\ SlotsKept /\ AheadKept /\ CoalescedTruthfully

\* A later event of a log is no earlier.
LEMMA TimesAscend ==
    ASSUME NEW p \in Paths, NEW n \in DOMAIN TimeOf[p], NEW m \in DOMAIN TimeOf[p], m <= n
    PROVE  TimeOf[p][m] <= TimeOf[p][n] /\ TimeOf[p][m] \in Nat /\ TimeOf[p][n] \in Nat
<1>1. TimeOf[p] \in Seq(Nat)
  BY PendingAssumption
<1>2. m \in 1 .. n
  BY <1>1
<1>3. TimeOf[p][m] \in Nat /\ TimeOf[p][n] \in Nat
  BY <1>1, ElementOfSeq
<1> QED BY <1>2, <1>3, PendingAssumption

\* merge_slot and promote_live_origin: what is kept of two events stands for both and for all that
\* the stored one stood for, when the incoming one is the latest of its log.
LEMMA MergeRepresents ==
    ASSUME NEW stored \in Events, NEW incoming \in Events, NEW set \in SUBSET Events,
           Represents(stored, set), InLog(incoming), \A f \in set \cup {stored} : InLog(f),
           \A f \in set \cup {stored} : f.path = incoming.path => f.position <= incoming.position
    PROVE  LET joint == MergeSlot(stored, incoming)
           IN  /\ joint \in Events /\ InLog(joint)
               /\ Represents(joint, set \cup {incoming})
               /\ \E f \in {stored, incoming} : joint.path = f.path /\ joint.position = f.position
<1> DEFINE winner == IF Replaces(stored, incoming) THEN incoming ELSE stored
           loser  == IF Replaces(stored, incoming) THEN stored ELSE incoming
           joint  == Promoted(winner, loser)
<1>0. MergeSlot(stored, incoming) = joint
  BY PendingAssumption DEF MergeSlot
<1>1. /\ winner \in Events /\ loser \in Events
      /\ {winner, loser} = {stored, incoming}
  OBVIOUS
<1>2. /\ joint \in Events
      /\ joint.path = winner.path /\ joint.position = winner.position /\ joint.time = winner.time
      /\ joint.terminal = winner.terminal
      /\ joint.origin = IF "live" \in {stored.origin, incoming.origin} THEN "live" ELSE "historical"
  BY <1>1 DEF Promoted, Events
<1>3. InLog(joint)
  BY <1>2 DEF InLog
<1>4. \A f \in set : /\ f \in Events /\ StandsFor(stored, f)
                     /\ f.path = incoming.path => f.time <= incoming.time
  <2> TAKE f \in set
  <2>1. f \in Events /\ StandsFor(stored, f)
    BY DEF Represents
  <2>2. ASSUME f.path = incoming.path PROVE f.time <= incoming.time
    BY <2>1, <2>2, TimesAscend DEF InLog, Events
  <2> QED BY <2>1, <2>2
<1>5. stored.path = incoming.path => stored.time <= incoming.time
  BY TimesAscend DEF InLog, Events
<1>6. \A f \in set \cup {incoming} : StandsFor(winner, f)
  <2> SUFFICES ASSUME NEW f \in set \cup {incoming} PROVE StandsFor(winner, f)
    OBVIOUS
  <2>1. CASE Replaces(stored, incoming)
    BY <1>4, <1>5, <2>1 DEF Replaces, StandsFor, Events
  <2>2. CASE ~Replaces(stored, incoming)
    BY <1>4, <1>5, <2>2 DEF Replaces, StandsFor, Events
  <2> QED BY <2>1, <2>2
<1>7. \A f \in set \cup {incoming} : StandsFor(joint, f)
  <2> HIDE DEF joint, winner
  <2> QED BY <1>2, <1>6 DEF StandsFor
<1>8. joint.origin = "live" <=> \E f \in set \cup {incoming} : f.origin = "live"
  <2>1. joint.origin = "live" <=> stored.origin = "live" \/ incoming.origin = "live"
    BY <1>2
  <2>2. stored.origin = "live" <=> \E f \in set : f.origin = "live"
    BY DEF Represents
  <2> QED BY <2>1, <2>2
<1>9. \E f \in {stored, incoming} : joint.path = f.path /\ joint.position = f.position
  BY <1>1, <1>2
<1> QED BY <1>0, <1>2, <1>3, <1>7, <1>8, <1>9, Zenon DEF Represents

LEMMA MergeEntityKeeps ==
    ASSUME PendingInv, NEW e \in Entities, NEW s \in Slots, NEW p \in Paths,
           NEW terminal \in BOOLEAN, MergeEntity(e, s, p, terminal)
    PROVE  PendingInv'
<1> DEFINE n == next[p] + 1
           event == [path |-> p, position |-> n, time |-> TimeOf[p][n],
                     terminal |-> terminal, origin |-> Origin(p, n)]
           key == <<e, s>>
           joint == MergeSlot(slots[key], event)
           set == merged[key] \cup {event}
<1>1. /\ n \in DOMAIN TimeOf[p]
      /\ next' = [next EXCEPT ![p] = n]
      /\ slots' = [slots EXCEPT ![key] = joint]
      /\ merged' = [merged EXCEPT ![key] = set]
      /\ lane' = lane /\ ahead' = ahead /\ sent' = sent
  BY Zenon DEF MergeEntity
<1>2. /\ next \in [Paths -> Nat] /\ slots \in [Keys -> Events \cup {NoEvent}]
      /\ merged \in [Keys -> SUBSET Events] /\ lane \in Seq(Paths \X Nat)
      /\ next[p] \in Nat /\ key \in Keys
  BY DEF PendingInv, PendingTypes, Keys
<1>3. event \in Events /\ event.path = p /\ event.position = n /\ InLog(event)
  <2>1. TimeOf[p][n] \in Nat
    BY <1>1, <1>2, TimesAscend
  <2> QED BY <1>1, <1>2, <2>1 DEF Events, Origin, InLog
<1>4. next' \in [Paths -> Nat] /\ next'[p] = n /\ \A q \in Paths : next[q] <= next'[q]
  BY <1>1, <1>2
<1>5. \A f \in Events : Read(f, next) => Read(f, next') /\ (f.path = p => f.position <= n)
  BY <1>2, <1>4 DEF Read, Events
<1>6. \A k \in Keys : /\ merged[k] \subseteq Events /\ slots[k] \in Events \cup {NoEvent}
                      /\ slots[k] = NoEvent => merged[k] = {}
                      /\ slots[k] # NoEvent => /\ Represents(slots[k], merged[k])
                                              /\ Read(slots[k], next)
                      /\ \A f \in merged[k] : Read(f, next)
  BY <1>2, Zenon DEF PendingInv, SlotsKept
<1> HIDE DEF event, n
<1>7. /\ joint \in Events /\ InLog(joint) /\ Represents(joint, set)
      /\ \/ joint.path = p /\ joint.position = n
         \/ slots[key] # NoEvent /\ joint.path = slots[key].path /\ joint.position = slots[key].position
  <2>1. CASE slots[key] = NoEvent
    <3>1. joint = event /\ set = {event}
      BY <1>2, <1>6, <2>1 DEF MergeSlot
    <3>2. Represents(event, {event})
      BY <1>3 DEF Represents, StandsFor, Events
    <3> QED BY <3>1, <3>2, <1>3
  <2>2. CASE slots[key] # NoEvent
    <3>1. slots[key] \in Events /\ merged[key] \in SUBSET Events
      BY <2>2, <1>2, <1>6
    <3>2. \A f \in merged[key] \cup {slots[key]} :
             InLog(f) /\ (f.path = event.path => f.position <= event.position)
      BY <3>1, <1>2, <1>3, <1>5, <1>6, <2>2 DEF Read
    <3> QED BY <3>1, <3>2, <1>2, <1>3, <1>6, <2>2, MergeRepresents, ZenonT(40)
  <2> QED BY <2>1, <2>2
<1>8. Read(joint, next') /\ \A f \in set : Read(f, next')
  <2>1. \A f \in set : Read(f, next')
    BY <1>2, <1>3, <1>4, <1>5, <1>6 DEF Read
  <2>2. n <= next'[p]
    BY <1>4, <1>2 DEF n
  <2>3. slots[key] # NoEvent => Read(slots[key], next')
    BY <1>2, <1>5, <1>6
  <2> QED BY <2>1, <2>2, <2>3, <1>7 DEF Read
<1> HIDE DEF joint, set
<1>9. PendingTypes'
  BY <1>1, <1>2, <1>3, <1>4, <1>6, <1>7 DEF PendingTypes, set
<1>10. SlotsKept'
  <2> SUFFICES ASSUME NEW k \in Keys
               PROVE  /\ slots'[k] = NoEvent => merged'[k] = {}
                      /\ slots'[k] # NoEvent => /\ Represents(slots'[k], merged'[k])
                                               /\ Read(slots'[k], next')
                      /\ \A f \in merged'[k] : Read(f, next')
    BY Zenon DEF SlotsKept, Keys
  <2>1. CASE k = key
    BY <2>1, <1>1, <1>2, <1>7, <1>8, PendingAssumption
  <2>2. CASE k # key
    <3>1. slots'[k] = slots[k] /\ merged'[k] = merged[k]
      BY <2>2, <1>1, <1>2
    <3> QED BY <3>1, <1>5, <1>6
  <2> QED BY <2>1, <2>2
<1>11. AheadKept'
  BY <1>1, <1>2, <1>7, PendingAssumption DEF PendingInv, AheadKept
<1>12. CoalescedTruthfully'
  BY <1>1, Zenon DEF PendingInv, CoalescedTruthfully, StandsFor
<1> QED BY <1>9, <1>10, <1>11, <1>12 DEF PendingInv

\* Reading something else of a log leaves what was read read.
LEMMA SlotsKeptUpTo ==
    ASSUME PendingTypes, SlotsKept, NEW upTo \in [Paths -> Nat],
           \A p \in Paths : next[p] <= upTo[p]
    PROVE  \A k \in Keys : /\ slots[k] # NoEvent => Read(slots[k], upTo)
                           /\ \A f \in merged[k] : Read(f, upTo)
<1>1. \A f \in Events : Read(f, next) => Read(f, upTo)
  BY DEF PendingTypes, Read, Events
<1>2. \A k \in Keys : merged[k] \subseteq Events /\ slots[k] \in Events \cup {NoEvent}
  BY DEF PendingTypes
<1> QED BY <1>1, <1>2 DEF SlotsKept

LEMMA ReadingKeeps ==
    ASSUME PendingInv, NEW p \in Paths, MergeLane(p) \/ MergeMalformed(p)
    PROVE  PendingInv'
<1>1. /\ next' = [next EXCEPT ![p] = @ + 1]
      /\ slots' = slots /\ merged' = merged /\ ahead' = ahead /\ sent' = sent
  BY Zenon DEF MergeLane, MergeMalformed
<1>2. /\ next \in [Paths -> Nat] /\ lane \in Seq(Paths \X Nat)
      /\ PendingTypes /\ SlotsKept /\ AheadKept
  BY DEF PendingInv, PendingTypes
<1>3. next' \in [Paths -> Nat] /\ \A q \in Paths : next[q] <= next'[q]
  BY <1>1, <1>2
<1>4. lane' \in Seq(Paths \X Nat) /\ Range(lane) \subseteq Range(lane')
  <2>1. CASE lane' = lane
    BY <2>1, <1>2
  <2>2. CASE MergeLane(p)
    <3> DEFINE x == <<p, next'[p]>>
    <3>1. lane' = Append(lane, x) /\ x \in Paths \X Nat
      BY <2>2, <1>3 DEF MergeLane
    <3> HIDE DEF x
    <3>2. /\ lane' \in Seq(Paths \X Nat) /\ DOMAIN lane \subseteq DOMAIN lane'
          /\ \A i \in DOMAIN lane : lane'[i] = lane[i]
      BY <3>1, <1>2, AppendProperties, SMTT(20)
    <3>3. \A y \in Range(lane) : \E i \in DOMAIN lane : y = lane[i]
      BY Zenon DEF Range
    <3>4. \A i \in DOMAIN lane' : lane'[i] \in Range(lane')
      BY Zenon DEF Range
    <3> QED BY <3>2, <3>3, <3>4
  <2> QED BY <2>1, <2>2, Zenon DEF MergeLane, MergeMalformed
<1>5. PendingTypes'
  BY <1>1, <1>2, <1>3, <1>4 DEF PendingTypes
<1>6. SlotsKept'
  BY <1>1, <1>2, <1>3, SlotsKeptUpTo, Zenon DEF SlotsKept, Keys
<1>7. AheadKept'
  BY <1>1, <1>2, <1>4, Zenon DEF AheadKept, Keys
<1>8. CoalescedTruthfully'
  BY <1>1, Zenon DEF PendingInv, CoalescedTruthfully, StandsFor
<1> QED BY <1>5, <1>6, <1>7, <1>8 DEF PendingInv

LEMMA MergeBarrierKeeps == ASSUME PendingInv, MergeBarrier PROVE PendingInv'
<1>1. /\ ahead' = {k \in Keys : slots[k] # NoEvent} \cup Range(lane)
      /\ next' = next /\ slots' = slots /\ merged' = merged /\ lane' = lane /\ sent' = sent
  BY Zenon DEF MergeBarrier
<1>2. PendingTypes' /\ SlotsKept' /\ CoalescedTruthfully'
  BY <1>1, Zenon DEF PendingInv, PendingTypes, SlotsKept, Keys, CoalescedTruthfully, StandsFor
<1>3. AheadKept'
  BY <1>1 DEF AheadKept, Keys
<1> QED BY <1>2, <1>3 DEF PendingInv

LEMMA SendEntityKeeps == ASSUME PendingInv, SendEntity PROVE PendingInv'
<1>1. PICK k \in Keys :
        /\ slots[k] # NoEvent
        /\ sent' = [kind |-> "entity", event |-> slots[k], of |-> merged[k]]
        /\ slots' = [slots EXCEPT ![k] = NoEvent]
        /\ merged' = [merged EXCEPT ![k] = {}]
        /\ ahead' = ahead \ {k}
  BY Zenon DEF SendEntity, ComesFirst, Sends
<1>2. next' = next /\ lane' = lane
  BY Zenon DEF SendEntity
<1>3. PendingTypes /\ SlotsKept /\ AheadKept
  BY DEF PendingInv
<1>4. slots \in [Keys -> Events \cup {NoEvent}] /\ merged \in [Keys -> SUBSET Events]
  BY <1>3 DEF PendingTypes
<1>5. PendingTypes'
  BY <1>1, <1>2, <1>3, <1>4 DEF PendingTypes, Keys
<1>6. SlotsKept'
  <2> SUFFICES ASSUME NEW j \in Keys
               PROVE  /\ slots'[j] = NoEvent => merged'[j] = {}
                      /\ slots'[j] # NoEvent => /\ Represents(slots'[j], merged'[j])
                                               /\ Read(slots'[j], next')
                      /\ \A f \in merged'[j] : Read(f, next')
    BY Zenon DEF SlotsKept, Keys
  <2>1. CASE j = k
    BY <2>1, <1>1, <1>4
  <2>2. CASE j # k
    <3>1. slots'[j] = slots[j] /\ merged'[j] = merged[j]
      BY <2>2, <1>1, <1>4
    <3> QED BY <3>1, <1>2, <1>3, Zenon DEF SlotsKept
  <2> QED BY <2>1, <2>2
<1>7. AheadKept'
  BY <1>1, <1>2, <1>3, <1>4 DEF AheadKept, Keys
<1>8. Represents(slots[k], merged[k])
  BY <1>1, <1>3 DEF SlotsKept
<1>9. CoalescedTruthfully'
  <2>1. sent'.kind = "entity" /\ sent'.event = slots[k] /\ sent'.of = merged[k]
    BY <1>1
  <2>2. "entity" # "barrier"
    OBVIOUS
  <2> QED BY <1>8, <2>1, <2>2, Zenon DEF CoalescedTruthfully, Represents, StandsFor
<1> QED BY <1>5, <1>6, <1>7, <1>9 DEF PendingInv

LEMMA SendLaneKeeps == ASSUME PendingInv, SendLane PROVE PendingInv'
<1>1. /\ lane # <<>> /\ lane' = Tail(lane) /\ sent' = [kind |-> "lane"]
      /\ ahead' = ahead \ {Head(lane)}
      /\ next' = next /\ slots' = slots /\ merged' = merged
  BY Zenon DEF SendLane, Sends
<1>2. lane \in Seq(Paths \X Nat) /\ PendingTypes /\ SlotsKept /\ AheadKept
  BY DEF PendingInv, PendingTypes
<1>3. lane' \in Seq(Paths \X Nat) /\ Range(lane) \subseteq Range(lane') \cup {Head(lane)}
  <2>1. /\ Head(lane) = lane[1] /\ lane' \in Seq(Paths \X Nat)
        /\ Len(lane) \in Nat \ {0} /\ Len(lane') = Len(lane) - 1
        /\ \A i \in 1 .. Len(lane') : lane'[i] = lane[i + 1]
    BY <1>1, <1>2, HeadTailProperties
  <2>2. \A i \in 1 .. Len(lane) : i = 1 \/ (i - 1 \in 1 .. Len(lane') /\ lane'[i - 1] = lane[i])
    BY <2>1
  <2>3. DOMAIN lane = 1 .. Len(lane) /\ DOMAIN lane' = 1 .. Len(lane')
    BY <1>2, <2>1
  <2>4. \A y \in Range(lane) : \E i \in DOMAIN lane : y = lane[i]
    BY Zenon DEF Range
  <2>5. \A i \in DOMAIN lane' : lane'[i] \in Range(lane')
    BY Zenon DEF Range
  <2>6. \A y \in Range(lane) : y \in Range(lane') \/ y = Head(lane)
    <3> TAKE y \in Range(lane)
    <3>1. PICK i \in 1 .. Len(lane) : y = lane[i]
      BY <2>3, <2>4
    <3>2. i # 1 => y \in Range(lane')
      BY <3>1, <2>2, <2>3, <2>5
    <3> QED BY <3>1, <3>2, <2>1
  <2> QED BY <2>1, <2>6
<1>4. PendingTypes' /\ SlotsKept'
  BY <1>1, <1>2, <1>3, Zenon DEF PendingTypes, SlotsKept, Keys
<1>5. AheadKept'
  BY <1>1, <1>2, <1>3, Zenon DEF AheadKept, Keys
<1>6. CoalescedTruthfully'
  BY <1>1 DEF CoalescedTruthfully
<1> QED BY <1>4, <1>5, <1>6 DEF PendingInv

LEMMA OtherSendsKeep ==
    ASSUME PendingInv, SendSource \/ SendMalformed \/ SendBarrier
    PROVE  PendingInv'
<1>1. /\ next' = next /\ slots' = slots /\ merged' = merged /\ lane' = lane /\ ahead' = ahead
  BY Zenon DEF SendSource, SendMalformed, SendBarrier
<1>2. PendingTypes' /\ SlotsKept' /\ AheadKept'
  BY <1>1, Zenon DEF PendingInv, PendingTypes, SlotsKept, AheadKept, Keys
<1>3. CoalescedTruthfully'
  <2>1. CASE SendSource \/ SendMalformed
    BY <2>1 DEF SendSource, SendMalformed, Sends, CoalescedTruthfully
  <2>2. CASE SendBarrier
    <3>1. sent' = [kind |-> "barrier", ahead |-> ahead] /\ lane = <<>> /\ HeldEntities = {}
      BY <2>2, Zenon DEF SendBarrier, Sends
    <3>2. \A k \in Keys : slots[k] = NoEvent
      <4> TAKE k \in Keys
      <4>1. PICK e \in Entities, s \in Slots : k = <<e, s>>
        BY DEF Keys
      <4> QED BY <3>1, <4>1 DEF HeldEntities, Held
    <3>3. Range(lane) = {}
      BY <3>1 DEF Range
    <3>4. ahead = {}
      BY <3>2, <3>3 DEF PendingInv, AheadKept
    <3> QED BY <3>1, <3>4 DEF CoalescedTruthfully
  <2> QED BY <2>1, <2>2
<1> QED BY <1>2, <1>3 DEF PendingInv

LEMMA QuietPendingKeeps ==
    ASSUME PendingInv, MergeSource \/ ReceiveEvent \/ UNCHANGED pendingVars
    PROVE  PendingInv'
<1>1. /\ next' = next /\ slots' = slots /\ merged' = merged /\ lane' = lane /\ ahead' = ahead
      /\ sent' = sent
  BY Zenon DEF MergeSource, ReceiveEvent, pendingVars
<1> QED
  BY <1>1, Zenon DEF PendingInv, PendingTypes, SlotsKept, AheadKept, Keys, CoalescedTruthfully, StandsFor

LEMMA PendingStart == PendingInit => PendingInv
<1> SUFFICES ASSUME PendingInit PROVE PendingInv
  OBVIOUS
<1>1. /\ slots = [k \in Keys |-> NoEvent] /\ lane = <<>> /\ next = [p \in Paths |-> 0]
      /\ merged = [k \in Keys |-> {}] /\ ahead = {} /\ sent = [kind |-> "nothing"]
  BY Zenon DEF PendingInit
<1> QED BY <1>1 DEF PendingInv, PendingTypes, SlotsKept, AheadKept, CoalescedTruthfully

\* Whatever the order in which any number of logs are read and the channel has room
\* (merge_slot, promote_live_origin, next_event): an event that goes out stands for all that was
\* merged into its slot, and the history barrier goes out behind all that was there before it.
THEOREM CoalescingIsTruthful == PendingSpec => []CoalescedTruthfully
<1>1. PendingInv /\ [PendingNext]_pendingVars => PendingInv'
  BY MergeEntityKeeps, ReadingKeeps, MergeBarrierKeeps, SendEntityKeeps, SendLaneKeeps,
     OtherSendsKeep, QuietPendingKeeps, Zenon DEF PendingNext
<1>2. PendingInv => CoalescedTruthfully
  BY DEF PendingInv
<1> QED BY PendingStart, <1>1, <1>2, PTL DEF PendingSpec
-----------------------------------------------------------------------------
(* The log lane.                                                           *)

LaneSpec == LaneInit /\ [][LaneNext]_laneVars

Origins == {"none", "historical", "live"}
Words == {"nothing", "open", "completed", "failed", "cancelled", "closed"}

Entries == [started : Nat, startedOrigin : Origins, appended : Nat, appendOrigin : Origins,
            held : Nat, heldOrigin : Origins, end : [at : Nat, failed : BOOLEAN],
            completed : BOOLEAN, inactive : BOOLEAN, described : BOOLEAN]

\* The entry of a scope and the last word on it.
Agree(entry, word) ==
    /\ entry.started # Absent <=> word = "open"
    /\ word = "completed" => entry.completed
    /\ word = "closed" => entry.inactive

\* What every step of the synthesis keeps; a session of Codex has no end in a parent's log.
Sound(st) ==
    /\ st.syn \in [Scopes -> Entries] /\ st.told \in [Scopes -> Words]
    /\ st.abandoned \in SUBSET Scopes
    /\ \A s \in Rollouts : st.syn[s].end = NoEnd
    /\ \A s \in Scopes \ st.abandoned : Agree(st.syn[s], st.told[s])

Facts == [kind : {"append", "meta", "turn_started", "turn_aborted", "turn_complete", "appeared",
                  "ended", "ended_failed"},
          scope : Scopes, at : Nat \ {0}]

LEMMA EndedEntry ==
    ASSUME NEW e \in Entries
    PROVE  /\ Ended(e) \in Entries /\ Ended(e).started = Absent /\ Ended(e).end = e.end
           /\ Ended(e).appended = e.appended /\ Ended(e).described = e.described
           /\ Ended(e).completed = e.completed /\ Ended(e).inactive = e.inactive
BY DEF Ended, Entries, Origins, Absent

LEMMA UnheldEntry ==
    ASSUME NEW e \in Entries
    PROVE  /\ Unheld(e) \in Entries /\ Unheld(e).started = e.started /\ Unheld(e).end = e.end
           /\ Unheld(e).appended = e.appended /\ Unheld(e).described = e.described
           /\ Unheld(e).completed = e.completed /\ Unheld(e).inactive = e.inactive
BY DEF Unheld, Entries, Origins, Absent

LEMMA ResumedEntry ==
    ASSUME NEW e \in Entries
    PROVE  /\ Resumed(e) \in Entries /\ Resumed(e).started = e.started /\ Resumed(e).end = NoEnd
           /\ Resumed(e).appended = e.appended
<1>1. NoEnd \in [at : Nat, failed : BOOLEAN]
  BY DEF NoEnd
<1> QED BY <1>1, UnheldEntry DEF Resumed, Entries

LEMMA StartedEntry ==
    ASSUME NEW e \in Entries, NEW at \in Nat \ {0}, NEW origin \in Origins
    PROVE  /\ StartScope(e, at, origin) \in Entries /\ StartScope(e, at, origin).started # Absent
           /\ StartScope(e, at, origin).end = e.end
           /\ StartScope(e, at, origin).appended = e.appended
<1>1. CASE e.started # Absent
  BY <1>1 DEF StartScope
<1>2. CASE e.started = Absent
  <2>1. StartScope(e, at, origin) = [e EXCEPT !.started = at, !.startedOrigin = origin]
    BY <1>2 DEF StartScope
  <2> QED BY <2>1 DEF Entries, Absent
<1> QED BY <1>1, <1>2

LEMMA ClosedEntry ==
    ASSUME NEW e \in Entries
    PROVE  /\ Closed(e) \in Entries /\ Closed(e).started = Absent /\ Closed(e).end = e.end
           /\ Closed(e).inactive
BY DEF Closed, Entries, Origins, Absent

LEMMA AbandonedEntry ==
    ASSUME NEW e \in Entries PROVE Abandoned(e) \in Entries /\ Abandoned(e).end = e.end
<1>1. PICK u \in Entries : u = Unheld(e) /\ u.end = e.end
  BY UnheldEntry
<1>2. PICK d \in Entries : d = Ended(u) /\ d.end = e.end
  BY <1>1, EndedEntry
<1>3. Abandoned(e) = [d EXCEPT !.appended = Absent, !.appendOrigin = "none",
                               !.completed = FALSE, !.inactive = FALSE]
  BY <1>1, <1>2 DEF Abandoned
<1>4. Abandoned(e).end = d.end
  BY <1>3 DEF Entries
<1>5. "none" \in Origins /\ Absent \in Nat
  BY DEF Origins, Absent
<1>6. Abandoned(e) \in Entries
  BY <1>3, <1>5 DEF Entries
<1> QED BY <1>2, <1>4, <1>6

LEMMA PushSound ==
    ASSUME NEW st, Sound(st), NEW s \in Scopes, NEW entry \in Entries, NEW pushed,
           NEW word \in Words \cup {"none"}, s \in Rollouts => entry.end = NoEnd,
           word = "none" /\ s \notin st.abandoned => Agree(entry, st.told[s]),
           word # "none" => Agree(entry, word)
    PROVE  Sound(Push(st, s, entry, pushed, word)) /\ Push(st, s, entry, pushed, word).syn[s] = entry
<1> DEFINE new == Push(st, s, entry, pushed, word)
<1>1. /\ st.syn \in [Scopes -> Entries] /\ st.told \in [Scopes -> Words]
      /\ st.abandoned \in SUBSET Scopes
      /\ \A u \in Rollouts : st.syn[u].end = NoEnd
      /\ \A u \in Scopes \ st.abandoned : Agree(st.syn[u], st.told[u])
  BY DEF Sound
<1>2. /\ new.syn = [st.syn EXCEPT ![s] = entry]
      /\ new.told = [st.told EXCEPT ![s] = IF word = "none" THEN st.told[s] ELSE word]
      /\ new.abandoned = IF word = "open" THEN st.abandoned \ {s} ELSE st.abandoned
  BY DEF Push
<1> HIDE DEF new
<1>3. /\ new.syn \in [Scopes -> Entries] /\ new.told \in [Scopes -> Words]
      /\ new.abandoned \in SUBSET Scopes
      /\ new.syn[s] = entry /\ new.told[s] = IF word = "none" THEN st.told[s] ELSE word
      /\ \A u \in Scopes \ {s} : new.syn[u] = st.syn[u] /\ new.told[u] = st.told[u]
  BY <1>1, <1>2
<1>4. \A u \in Rollouts : new.syn[u].end = NoEnd
  BY <1>1, <1>3 DEF Scopes
<1>5. ASSUME NEW u \in Scopes \ new.abandoned PROVE Agree(new.syn[u], new.told[u])
  <2>1. CASE u = s
    <3>1. word = "none" => s \notin st.abandoned
      BY <1>2, <1>5, <2>1
    <3> QED BY <1>3, <2>1, <3>1
  <2>2. CASE u # s
    BY <1>1, <1>2, <1>3, <1>5, <2>2
  <2> QED BY <2>1, <2>2
<1>6. Sound(new) /\ new.syn[s] = entry
  BY <1>3, <1>4, <1>5 DEF Sound
<1> QED BY <1>6 DEF new

LEMMA TellHeldSound ==
    ASSUME NEW st, Sound(st), NEW scopes \in SUBSET Scopes
    PROVE  /\ Sound(TellHeld(st, scopes))
           /\ \A s \in Scopes : /\ TellHeld(st, scopes).syn[s].end = st.syn[s].end
                                /\ TellHeld(st, scopes).syn[s].appended = st.syn[s].appended
<1> DEFINE new == TellHeld(st, scopes)
           told1(s) == [Ended(Unheld(st.syn[s])) EXCEPT !.completed = TRUE]
<1>1. /\ st.syn \in [Scopes -> Entries] /\ st.told \in [Scopes -> Words]
      /\ st.abandoned \in SUBSET Scopes
      /\ \A u \in Rollouts : st.syn[u].end = NoEnd
      /\ \A u \in Scopes \ st.abandoned : Agree(st.syn[u], st.told[u])
  BY DEF Sound
<1>2. CASE scopes = {}
  BY <1>2 DEF TellHeld
<1>3. CASE scopes # {}
  <2>1. ASSUME NEW s \in Scopes
        PROVE  /\ told1(s) \in Entries /\ told1(s).started = Absent /\ told1(s).completed
               /\ told1(s).end = st.syn[s].end /\ told1(s).appended = st.syn[s].appended
    <3>1. Unheld(st.syn[s]) \in Entries /\ Unheld(st.syn[s]).end = st.syn[s].end
          /\ Unheld(st.syn[s]).appended = st.syn[s].appended
      BY <1>1, UnheldEntry
    <3>2. PICK e \in Entries : e = Ended(Unheld(st.syn[s]))
      BY <3>1, EndedEntry
    <3>3. e.started = Absent /\ e.end = st.syn[s].end /\ e.appended = st.syn[s].appended
      BY <3>1, <3>2, EndedEntry
    <3>4. told1(s) = [e EXCEPT !.completed = TRUE]
      BY <3>2
    <3> HIDE DEF told1
    <3> QED BY <3>3, <3>4 DEF Entries
  <2> HIDE DEF told1
  <2>2. /\ new.syn = [s \in Scopes |-> IF s \in scopes THEN told1(s) ELSE st.syn[s]]
        /\ new.told = [s \in Scopes |-> IF s \in scopes THEN "completed" ELSE st.told[s]]
        /\ new.abandoned = st.abandoned
    BY <1>3 DEF TellHeld, told1
  <2> HIDE DEF new
  <2>3. new.syn \in [Scopes -> Entries] /\ new.told \in [Scopes -> Words]
    BY <1>1, <2>1, <2>2 DEF Words
  <2>4. \A s \in Scopes : /\ new.syn[s].end = st.syn[s].end
                          /\ new.syn[s].appended = st.syn[s].appended
    BY <2>1, <2>2
  <2>5. ASSUME NEW s \in Scopes \ new.abandoned PROVE Agree(new.syn[s], new.told[s])
    <3>1. CASE s \in scopes
      BY <2>1, <2>2, <3>1 DEF Agree
    <3>2. CASE s \notin scopes
      BY <1>1, <2>2, <2>5, <3>2
    <3> QED BY <3>1, <3>2
  <2>6. \A s \in Rollouts : new.syn[s].end = NoEnd
    BY <1>1, <2>4 DEF Scopes
  <2>7. Sound(new)
    BY <1>1, <2>2, <2>3, <2>5, <2>6 DEF Sound
  <2> QED BY <2>4, <2>7 DEF new
<1> QED BY <1>2, <1>3

LEMMA FlushSound ==
    ASSUME NEW st, Sound(st), NEW now
    PROVE  /\ Sound(FlushDueCompletes(st, now))
           /\ \A s \in Scopes : /\ FlushDueCompletes(st, now).syn[s].end = st.syn[s].end
                                /\ FlushDueCompletes(st, now).syn[s].appended = st.syn[s].appended
<1> DEFINE due == {s \in Scopes : /\ st.syn[s].held # Absent
                                  /\ now >= st.syn[s].held + Grace}
<1>1. FlushDueCompletes(st, now) = TellHeld(st, due) /\ due \in SUBSET Scopes
  BY DEF FlushDueCompletes
<1> HIDE DEF due
<1> QED BY <1>1, TellHeldSound

\* A scope that starts is told to be open.
LEMMA StartSound ==
    ASSUME NEW st, Sound(st), NEW s \in Scopes, NEW entry \in Entries, NEW pushed,
           entry.started # Absent, s \in Rollouts => entry.end = NoEnd
    PROVE  Sound(Push(st, s, entry, pushed, "open"))
<1>1. Agree(entry, "open") /\ "open" \in Words \cup {"none"}
  BY DEF Agree, Words
<1> QED BY <1>1, PushSound

\* Nothing is said of a scope whose entry agrees with what was.
LEMMA QuietSound ==
    ASSUME NEW st, Sound(st), NEW s \in Scopes, NEW entry \in Entries, NEW pushed,
           s \in Rollouts => entry.end = NoEnd,
           s \notin st.abandoned => Agree(entry, st.told[s])
    PROVE  Sound(Push(st, s, entry, pushed, "none")) /\ Push(st, s, entry, pushed, "none").syn[s] = entry
<1>1. PICK word : word = "none"
  OBVIOUS
<1> QED BY <1>1, PushSound

LEMMA OnAppendSound ==
    ASSUME NEW st0, Sound(st0), NEW s \in Scopes, NEW at \in Nat \ {0}, NEW origin \in Origins
    PROVE  /\ Sound(OnAppend(st0, s, at, origin))
           /\ s \in Rollouts => OnAppend(st0, s, at, origin).syn[s].appended # Absent
<1> DEFINE st == FlushDueCompletes(st0, at)
           old == st.syn[s]
           entry == [Resumed(old) EXCEPT !.appended = at, !.appendOrigin = origin]
           open == (s \in Roots \/ old.completed \/ old.inactive) /\ old.started = Absent
<1>1. Sound(st)
  BY FlushSound
<1>2. OnAppend(st0, s, at, origin) = IF Outdated(old, at) THEN st
                                     ELSE IF open
                                     THEN Push(st, s, StartScope(entry, at, origin), 2, "open")
                                     ELSE Push(st, s, entry, 1, "none")
  BY DEF OnAppend
<1> HIDE DEF st
<1>3. old \in Entries /\ (s \in Rollouts => old.end = NoEnd)
      /\ (s \notin st.abandoned => Agree(old, st.told[s]))
  BY <1>1 DEF Sound
<1>4. entry \in Entries /\ entry.started = old.started /\ entry.end = NoEnd /\ entry.appended = at
  <2>1. PICK e \in Entries : e = Resumed(old)
    BY <1>3, ResumedEntry
  <2>2. e.started = old.started /\ e.end = NoEnd
    BY <1>3, <2>1, ResumedEntry
  <2>3. entry = [e EXCEPT !.appended = at, !.appendOrigin = origin]
    BY <2>1
  <2> HIDE DEF entry
  <2> QED BY <2>2, <2>3 DEF Entries
<1> HIDE DEF entry
<1>5. CASE Outdated(old, at)
  BY <1>1, <1>2, <1>3, <1>5 DEF Outdated
<1>6. CASE ~Outdated(old, at) /\ open
  <2>1. PICK e \in Entries : e = StartScope(entry, at, origin)
    BY <1>4, StartedEntry
  <2>2. e.started # Absent /\ e.end = NoEnd /\ e.appended = at
    BY <1>4, <2>1, StartedEntry
  <2>3. OnAppend(st0, s, at, origin) = Push(st, s, e, 2, "open")
    BY <1>2, <1>6, <2>1
  <2>4. Push(st, s, e, 2, "open").syn[s] = e
    BY <1>1, <1>3 DEF Push, Sound
  <2> QED BY <1>1, <2>2, <2>3, <2>4, StartSound DEF Absent
<1>7. CASE ~Outdated(old, at) /\ ~open
  <2>1. ASSUME s \notin st.abandoned PROVE Agree(entry, st.told[s])
    BY <1>3, <1>4, <1>7, <2>1 DEF Agree
  <2>2. OnAppend(st0, s, at, origin) = Push(st, s, entry, 1, "none")
    BY <1>2, <1>7
  <2>3. Sound(Push(st, s, entry, 1, "none")) /\ Push(st, s, entry, 1, "none").syn[s] = entry
    BY <1>1, <1>4, <2>1, QuietSound
  <2> QED BY <1>4, <2>2, <2>3 DEF Absent
<1> QED BY <1>5, <1>6, <1>7

LEMMA OnCodexMetaSound ==
    ASSUME NEW st0, Sound(st0), NEW s \in Scopes, NEW origin \in Origins,
           st0.syn[s].appended # Absent
    PROVE  Sound(OnCodexMeta(st0, s, origin))
<1> DEFINE at == st0.syn[s].appended
           st == FlushDueCompletes(st0, at)
           entry == [StartScope(Resumed(st.syn[s]), at, origin) EXCEPT !.described = TRUE]
<1>1. at \in Nat \ {0}
  BY DEF Sound, Entries, Absent
<1>2. Sound(st)
  BY FlushSound
<1>3. OnCodexMeta(st0, s, origin) = IF st0.syn[s].described THEN st0
                                    ELSE Push(st, s, entry, 1, "open")
  BY DEF OnCodexMeta
<1>4. st.syn[s] \in Entries
  BY <1>2 DEF Sound
<1> HIDE DEF st, at
<1>5. entry \in Entries /\ entry.started # Absent /\ entry.end = NoEnd
  <2>1. PICK r \in Entries : r = Resumed(st.syn[s]) /\ r.end = NoEnd
    BY <1>4, ResumedEntry
  <2>2. PICK e \in Entries : e = StartScope(r, at, origin) /\ e.started # Absent /\ e.end = NoEnd
    BY <1>1, <2>1, StartedEntry
  <2>3. entry = [e EXCEPT !.described = TRUE]
    BY <2>1, <2>2
  <2> HIDE DEF entry
  <2> QED BY <2>2, <2>3 DEF Entries
<1> HIDE DEF entry
<1> QED BY <1>2, <1>3, <1>5, StartSound

LEMMA OnTurnStartedSound ==
    ASSUME NEW st0, Sound(st0), NEW s \in Scopes, NEW at \in Nat \ {0}, NEW origin \in Origins
    PROVE  Sound(OnTurnStarted(st0, s, at, origin))
<1> DEFINE st == FlushDueCompletes(st0, at)
           entry == StartScope(Resumed(st.syn[s]), at, origin)
<1>1. Sound(st)
  BY FlushSound
<1>2. OnTurnStarted(st0, s, at, origin) = IF st.syn[s].started = Absent
                                          THEN Push(st, s, entry, 1, "open")
                                          ELSE Push(st, s, entry, 0, "none")
  BY DEF OnTurnStarted
<1> HIDE DEF st
<1>3. st.syn[s] \in Entries /\ (s \notin st.abandoned => Agree(st.syn[s], st.told[s]))
  BY <1>1 DEF Sound
<1>4. entry \in Entries /\ entry.started # Absent /\ entry.end = NoEnd
  BY <1>3, ResumedEntry, StartedEntry
<1> HIDE DEF entry
<1>5. CASE st.syn[s].started = Absent
  BY <1>1, <1>2, <1>4, <1>5, StartSound
<1>6. CASE st.syn[s].started # Absent
  <2>1. ASSUME s \notin st.abandoned PROVE Agree(entry, st.told[s])
    BY <1>3, <1>4, <1>6, <2>1 DEF Agree
  <2> QED BY <1>1, <1>2, <1>4, <1>6, <2>1, QuietSound
<1> QED BY <1>5, <1>6

\* A scope that fails or is cancelled is told so, and has not completed.
LEMMA StopSound ==
    ASSUME NEW st, Sound(st), NEW s \in Scopes, NEW pushed, NEW word \in {"failed", "cancelled"}
    PROVE  Sound(Push(st, s, [Ended(Unheld(st.syn[s])) EXCEPT !.completed = FALSE], pushed, word))
<1> DEFINE entry == [Ended(Unheld(st.syn[s])) EXCEPT !.completed = FALSE]
<1>1. st.syn[s] \in Entries /\ (s \in Rollouts => st.syn[s].end = NoEnd)
  BY DEF Sound
<1>2. entry \in Entries /\ entry.started = Absent /\ entry.end = st.syn[s].end
  <2>1. PICK u \in Entries : u = Unheld(st.syn[s]) /\ u.end = st.syn[s].end
    BY <1>1, UnheldEntry
  <2>2. PICK e \in Entries : e = Ended(u) /\ e.started = Absent /\ e.end = st.syn[s].end
    BY <2>1, EndedEntry
  <2>3. entry = [e EXCEPT !.completed = FALSE]
    BY <2>1, <2>2
  <2> HIDE DEF entry
  <2> QED BY <2>2, <2>3 DEF Entries
<1> HIDE DEF entry
<1>3. Agree(entry, word) /\ word \in Words \cup {"none"} /\ word # "none"
  BY <1>2 DEF Agree, Words
<1>4. Sound(Push(st, s, entry, pushed, word))
  BY <1>1, <1>2, <1>3, PushSound
<1> QED BY <1>4 DEF entry

LEMMA OnTurnAbortedSound ==
    ASSUME NEW st0, Sound(st0), NEW s \in Scopes, NEW at \in Nat \ {0}
    PROVE  Sound(OnTurnAborted(st0, s, at))
BY FlushSound, StopSound DEF OnTurnAborted

LEMMA OnAppearedSound ==
    ASSUME NEW st0, Sound(st0), NEW s \in Scopes, NEW at \in Nat \ {0}, NEW origin \in Origins
    PROVE  Sound(OnAppeared(st0, s, at, origin))
<1> DEFINE st == FlushDueCompletes(st0, at)
           entry == StartScope(Resumed(st.syn[s]), at, origin)
<1>1. Sound(st)
  BY FlushSound
<1>2. OnAppeared(st0, s, at, origin) = IF Outdated(st.syn[s], at) THEN st
                                       ELSE Push(st, s, entry, 2, "open")
  BY DEF OnAppeared
<1> HIDE DEF st
<1>3. entry \in Entries /\ entry.started # Absent /\ entry.end = NoEnd
  BY <1>1, ResumedEntry, StartedEntry DEF Sound
<1> HIDE DEF entry
<1> QED BY <1>1, <1>2, <1>3, StartSound

LEMMA OnEndedSound ==
    ASSUME NEW st0, Sound(st0), NEW s \in Subagents, NEW failed \in BOOLEAN, NEW at \in Nat \ {0},
           NEW origin \in Origins
    PROVE  Sound(OnEnded(st0, s, failed, at, origin))
<1> DEFINE old == st0.syn[s]
           end == [at |-> IF old.end # NoEnd /\ old.end.at < at THEN old.end.at ELSE at,
                   failed |-> failed]
           marked == [old EXCEPT !.end = end]
           st == FlushDueCompletes(Push(st0, s, marked, 0, "none"), end.at)
           stopped1 == [Ended(Unheld(st.syn[s])) EXCEPT !.completed = FALSE]
           waiting == [st.syn[s] EXCEPT !.held = end.at, !.heldOrigin = origin]
<1>1. OnEnded(st0, s, failed, at, origin) =
         IF old.end.failed \/ old.completed THEN st0
         ELSE IF failed THEN Push(st, s, stopped1, 1, "failed") ELSE Push(st, s, waiting, 0, "none")
  BY DEF OnEnded
<1>2. s \in Scopes /\ s \notin Rollouts
  BY LaneAssumption DEF Scopes
<1>3. old \in Entries /\ (s \notin st0.abandoned => Agree(old, st0.told[s]))
  BY <1>2 DEF Sound
<1>4. end \in [at : Nat, failed : BOOLEAN] /\ end.at \in Nat
  BY <1>3 DEF Entries
<1> HIDE DEF end
<1>5. marked \in Entries /\ marked.started = old.started /\ marked.completed = old.completed
      /\ marked.inactive = old.inactive
  BY <1>3, <1>4 DEF Entries
<1> HIDE DEF marked
<1>6. Sound(Push(st0, s, marked, 0, "none"))
  BY <1>2, <1>3, <1>5, QuietSound DEF Agree
<1>7. Sound(st)
  BY <1>6, FlushSound
<1> HIDE DEF st
<1>8. Sound(Push(st, s, stopped1, 1, "failed"))
  BY <1>2, <1>7, StopSound
<1>9. st.syn[s] \in Entries /\ (s \notin st.abandoned => Agree(st.syn[s], st.told[s]))
  BY <1>2, <1>7 DEF Sound
<1>10. waiting \in Entries /\ waiting.started = st.syn[s].started
       /\ waiting.completed = st.syn[s].completed /\ waiting.inactive = st.syn[s].inactive
  BY <1>4, <1>9 DEF Entries
<1> HIDE DEF waiting
<1>11. Sound(Push(st, s, waiting, 0, "none"))
  BY <1>2, <1>7, <1>9, <1>10, QuietSound DEF Agree
<1> QED BY <1>1, <1>8, <1>11

LaneInv ==
    /\ Sound(Untouched)
    /\ deferred # <<>> => \E s \in Scopes : deferred \in Records(s)

\* The record of a log: its first fact is the sign of life, the second is about a subagent of the
\* log's session, or about the session of Codex itself.
LEMMA RecordForms ==
    ASSUME NEW s \in Scopes, NEW facts \in Records(s)
    PROVE  \E t \in 1 .. MaxSource :
              \/ facts = <<[kind |-> "append", scope |-> s, at |-> t]>>
              \/ \E u \in Subagents, kind \in {"ended", "ended_failed"} :
                    facts = <<[kind |-> "append", scope |-> s, at |-> t],
                              [kind |-> kind, scope |-> u, at |-> t]>>
              \/ s \in Rollouts
                 /\ \E kind \in {"meta", "turn_started", "turn_complete", "turn_aborted"} :
                       facts = <<[kind |-> "append", scope |-> s, at |-> t],
                                 [kind |-> kind, scope |-> s, at |-> t]>>
BY DEF Records

LEMMA BatchSound ==
    ASSUME Sound(Untouched), NEW s \in Scopes, NEW facts \in Records(s)
    PROVE  Sound(SynthesizeBatch(facts))
<1>1. PICK origin \in Origins : origin = IF history = "reading" THEN "historical" ELSE "live"
  BY DEF Origins
<1> DEFINE lead(t) == [kind |-> "append", scope |-> s, at |-> t]
<1>2. PICK t \in 1 .. MaxSource :
         \/ facts = <<lead(t)>>
         \/ \E u \in Subagents, kind \in {"ended", "ended_failed"} :
               facts = <<lead(t), [kind |-> kind, scope |-> u, at |-> t]>>
         \/ s \in Rollouts
            /\ \E kind \in {"meta", "turn_started", "turn_complete", "turn_aborted"} :
                  facts = <<lead(t), [kind |-> kind, scope |-> s, at |-> t]>>
  BY RecordForms
<1>3. t \in Nat \ {0}
  BY LaneAssumption
<1> DEFINE first == OnAppend(Untouched, s, t, origin)
<1>4. Sound(first) /\ (s \in Rollouts => first.syn[s].appended # Absent)
  BY <1>1, <1>3, OnAppendSound
<1>5. SynthesizeFact(Untouched, lead(t), origin) = first
  BY DEF SynthesizeFact
<1> HIDE DEF first
<1>6. CASE facts = <<lead(t)>>
  <2>1. facts[1] = lead(t) /\ Len(facts) = 1
    BY <1>6
  <2> QED BY <1>1, <1>4, <1>5, <2>1 DEF SynthesizeBatch
<1>7. ASSUME NEW u \in Subagents, NEW kind \in {"ended", "ended_failed"},
             facts = <<lead(t), [kind |-> kind, scope |-> u, at |-> t]>>
      PROVE  Sound(SynthesizeBatch(facts))
  <2> DEFINE fact == [kind |-> kind, scope |-> u, at |-> t]
  <2>1. facts[1] = lead(t) /\ facts[2] = fact /\ Len(facts) = 2
    BY <1>7
  <2>2. SynthesizeBatch(facts) = SynthesizeFact(first, fact, origin)
    BY <1>1, <1>5, <2>1 DEF SynthesizeBatch
  <2>3. CASE kind = "ended"
    <3>1. PICK failed \in BOOLEAN : failed = FALSE
      OBVIOUS
    <3>2. SynthesizeFact(first, fact, origin) = OnEnded(first, u, failed, t, origin)
      BY <2>3, <3>1 DEF SynthesizeFact
    <3> QED BY <1>1, <1>3, <1>4, <2>2, <3>2, OnEndedSound
  <2>4. CASE kind = "ended_failed"
    <3>1. PICK failed \in BOOLEAN : failed = TRUE
      OBVIOUS
    <3>2. SynthesizeFact(first, fact, origin) = OnEnded(first, u, failed, t, origin)
      BY <2>4, <3>1 DEF SynthesizeFact
    <3> QED BY <1>1, <1>3, <1>4, <2>2, <3>2, OnEndedSound
  <2> QED BY <2>3, <2>4
<1>8. ASSUME NEW kind \in {"meta", "turn_started", "turn_complete", "turn_aborted"}, s \in Rollouts,
             facts = <<lead(t), [kind |-> kind, scope |-> s, at |-> t]>>
      PROVE  Sound(SynthesizeBatch(facts))
  <2> DEFINE fact == [kind |-> kind, scope |-> s, at |-> t]
  <2>1. facts[1] = lead(t) /\ facts[2] = fact /\ Len(facts) = 2
    BY <1>8
  <2>2. SynthesizeBatch(facts) = SynthesizeFact(first, fact, origin)
    BY <1>1, <1>5, <2>1 DEF SynthesizeBatch
  <2>3. CASE kind = "meta"
    <3>1. SynthesizeFact(first, fact, origin) = OnCodexMeta(first, s, origin)
      BY <2>3 DEF SynthesizeFact
    <3> QED BY <1>1, <1>4, <1>8, <2>2, <3>1, OnCodexMetaSound
  <2>4. CASE kind = "turn_started"
    <3>1. SynthesizeFact(first, fact, origin) = OnTurnStarted(first, s, t, origin)
      BY <2>4 DEF SynthesizeFact
    <3> QED BY <1>1, <1>3, <1>4, <2>2, <3>1, OnTurnStartedSound
  <2>5. CASE kind = "turn_complete"
    <3>1. SynthesizeFact(first, fact, origin) = FlushDueCompletes(first, t)
      BY <2>5 DEF SynthesizeFact
    <3> QED BY <1>4, <2>2, <3>1, FlushSound
  <2>6. CASE kind = "turn_aborted"
    <3>1. SynthesizeFact(first, fact, origin) = OnTurnAborted(first, s, t)
      BY <2>6 DEF SynthesizeFact
    <3> QED BY <1>3, <1>4, <2>2, <3>1, OnTurnAbortedSound
  <2> QED BY <2>3, <2>4, <2>5, <2>6
<1> QED BY <1>2, <1>6, <1>7, <1>8

LEMMA MetaSound ==
    ASSUME Sound(Untouched), NEW s \in Scopes, NEW t \in 1 .. MaxSource
    PROVE  Sound(SynthesizeBatch(MetaRecord(s, t)))
<1>1. PICK origin \in Origins : origin = IF history = "reading" THEN "historical" ELSE "live"
  BY DEF Origins
<1>2. SynthesizeBatch(MetaRecord(s, t)) =
         SynthesizeFact(Untouched, [kind |-> "appeared", scope |-> s, at |-> t], origin)
  BY <1>1 DEF SynthesizeBatch, MetaRecord
<1>3. SynthesizeFact(Untouched, [kind |-> "appeared", scope |-> s, at |-> t], origin) =
         OnAppeared(Untouched, s, t, origin)
  BY DEF SynthesizeFact
<1> QED BY <1>2, <1>3, OnAppearedSound, LaneAssumption

LEMMA AdvanceSound == ASSUME Sound(Untouched) PROVE Sound(AdvanceLifecycle)
<1> DEFINE st == FlushDueCompletes(Untouched, clock)
           closing == {s \in Scopes : Silent(st.syn[s])}
           new == AdvanceLifecycle
<1>1. Sound(st)
  BY FlushSound
<1>2. new = IF closing = {} THEN st
            ELSE [syn |-> [s \in Scopes |-> IF s \in closing THEN Closed(st.syn[s]) ELSE st.syn[s]],
                  events |-> st.events + Cardinality(closing),
                  told |-> [s \in Scopes |-> IF s \in closing THEN "closed" ELSE st.told[s]],
                  abandoned |-> st.abandoned]
  BY DEF AdvanceLifecycle
<1>3. closing \in SUBSET Scopes
  OBVIOUS
<1> HIDE DEF st, closing, new
<1>4. CASE closing # {}
  <2>1. /\ new.syn = [s \in Scopes |-> IF s \in closing THEN Closed(st.syn[s]) ELSE st.syn[s]]
        /\ new.told = [s \in Scopes |-> IF s \in closing THEN "closed" ELSE st.told[s]]
        /\ new.abandoned = st.abandoned
    BY <1>2, <1>4
  <2>2. /\ st.syn \in [Scopes -> Entries] /\ st.told \in [Scopes -> Words]
        /\ st.abandoned \in SUBSET Scopes
        /\ \A s \in Rollouts : st.syn[s].end = NoEnd
        /\ \A s \in Scopes \ st.abandoned : Agree(st.syn[s], st.told[s])
    BY <1>1 DEF Sound
  <2>3. new.syn \in [Scopes -> Entries] /\ new.told \in [Scopes -> Words]
    BY <2>1, <2>2, ClosedEntry DEF Words
  <2>4. \A s \in Rollouts : new.syn[s].end = NoEnd
    BY <2>1, <2>2, ClosedEntry DEF Scopes
  <2>5. ASSUME NEW s \in Scopes \ new.abandoned PROVE Agree(new.syn[s], new.told[s])
    <3>1. CASE s \in closing
      BY <2>1, <2>2, <3>1, ClosedEntry DEF Agree
    <3>2. CASE s \notin closing
      BY <2>1, <2>2, <2>5, <3>2
    <3> QED BY <3>1, <3>2
  <2> QED BY <2>1, <2>2, <2>3, <2>4, <2>5 DEF Sound, new
<1> QED BY <1>1, <1>2, <1>4 DEF new

LEMMA HandSound == ASSUME NEW st, Sound(st), Hand(st) PROVE Sound(Untouched)'
<1>1. /\ Untouched'.syn = st.syn /\ Untouched'.told = st.told /\ Untouched'.abandoned = st.abandoned
  BY DEF Hand, Untouched
<1> QED BY <1>1 DEF Sound

LEMMA TakeRecordSound ==
    ASSUME Sound(Untouched), NEW s \in Scopes, NEW facts \in Records(s), TakeRecord(facts)
    PROVE  LaneInv'
<1>1. PICK st : /\ st = SynthesizeBatch(facts)
                /\ IF Fits(st) THEN Hand(st) /\ deferred' = <<>>
                   ELSE deferred' = facts /\ UNCHANGED <<synthesis, buffered, told, abandoned>>
  BY DEF TakeRecord
<1>2. Sound(st)
  BY <1>1, BatchSound
<1>3. CASE Fits(st)
  BY <1>1, <1>2, <1>3, HandSound DEF LaneInv
<1>4. CASE ~Fits(st)
  BY <1>1, <1>4 DEF LaneInv, Sound, Untouched, Records
<1> QED BY <1>3, <1>4

LEMMA RecordsSound ==
    ASSUME LaneInv, (\E s \in Scopes : ReadRecord(s)) \/ (\E s \in Subagents : ReadMeta(s)) \/ RetryRecord
    PROVE  LaneInv'
<1>1. Sound(Untouched)
  BY DEF LaneInv
<1>2. ASSUME NEW s \in Scopes, ReadRecord(s) PROVE LaneInv'
  <2>1. PICK facts \in Records(s) : TakeRecord(facts)
    BY <1>2 DEF ReadRecord
  <2> QED BY <1>1, <2>1, TakeRecordSound
<1>3. ASSUME NEW s \in Subagents, ReadMeta(s) PROVE LaneInv'
  <2>1. PICK t \in 1 .. MaxSource : \E st \in {SynthesizeBatch(MetaRecord(s, t))} : Hand(st)
    BY <1>3 DEF ReadMeta
  <2>2. PICK st : st = SynthesizeBatch(MetaRecord(s, t)) /\ Hand(st)
    BY <2>1
  <2>3. Sound(st)
    BY <1>1, <2>2, MetaSound DEF Scopes
  <2> QED BY <1>3, <2>2, <2>3, HandSound DEF ReadMeta, LaneInv
<1>4. CASE RetryRecord
  <2>1. PICK s \in Scopes : deferred \in Records(s)
    BY <1>4 DEF RetryRecord, LaneInv
  <2>2. PICK facts \in Records(s) : TakeRecord(facts)
    BY <1>4, <2>1 DEF RetryRecord
  <2> QED BY <1>1, <2>2, TakeRecordSound
<1> QED BY <1>2, <1>3, <1>4

LEMMA LifecycleSound == ASSUME LaneInv, EmitDueLifecycleEvents \/ GracefulStop PROVE LaneInv'
<1>1. Sound(Untouched)
  BY DEF LaneInv
<1>2. CASE EmitDueLifecycleEvents
  <2>1. PICK st : st = AdvanceLifecycle /\ Hand(st)
    BY <1>2 DEF EmitDueLifecycleEvents
  <2>2. deferred = <<>> /\ deferred' = deferred
    BY <1>2 DEF EmitDueLifecycleEvents
  <2> QED BY <1>1, <2>1, <2>2, AdvanceSound, HandSound DEF LaneInv
<1>3. CASE GracefulStop
  <2> DEFINE held1 == IF history = "finalized" THEN {s \in Scopes : synthesis[s].held # Absent} ELSE {}
  <2>1. PICK st : st = TellHeld(Untouched, held1)
    OBVIOUS
  <2>2. /\ synthesis' = st.syn /\ told' = st.told /\ abandoned' = abandoned /\ deferred' = deferred
    BY <1>3, <2>1 DEF GracefulStop
  <2>3. Sound(st)
    BY <1>1, <2>1, TellHeldSound
  <2>4. st.abandoned = abandoned
    BY <2>1 DEF TellHeld, Untouched
  <2>5. Sound(Untouched)'
    BY <2>2, <2>3, <2>4 DEF Sound, Untouched
  <2> QED BY <2>2, <2>5 DEF LaneInv, Records
<1> QED BY <1>2, <1>3

LEMMA AbandonSound == ASSUME LaneInv, AbandonHistoryDrain PROVE LaneInv'
<1>1. Sound(Untouched)
  BY DEF LaneInv
<1>2. PICK scopes \in SUBSET Scopes :
         /\ synthesis' = [s \in Scopes |-> IF s \in scopes THEN Abandoned(synthesis[s])
                                           ELSE synthesis[s]]
         /\ abandoned' = abandoned \cup scopes /\ told' = told /\ deferred' = deferred
  BY DEF AbandonHistoryDrain, AbandonedScopes
<1>3. /\ synthesis \in [Scopes -> Entries] /\ told \in [Scopes -> Words]
      /\ abandoned \in SUBSET Scopes
      /\ \A s \in Rollouts : synthesis[s].end = NoEnd
      /\ \A s \in Scopes \ abandoned : Agree(synthesis[s], told[s])
  BY <1>1 DEF Sound, Untouched
<1>4. synthesis' \in [Scopes -> Entries] /\ abandoned' \in SUBSET Scopes
  BY <1>2, <1>3, AbandonedEntry
<1>5. \A s \in Rollouts : synthesis'[s].end = NoEnd
  BY <1>2, <1>3, AbandonedEntry DEF Scopes
<1>6. \A s \in Scopes \ abandoned' : Agree(synthesis'[s], told'[s])
  BY <1>2, <1>3
<1>7. Sound(Untouched)'
  BY <1>2, <1>3, <1>4, <1>5, <1>6 DEF Sound, Untouched
<1> QED BY <1>2, <1>7 DEF LaneInv, Records

LEMMA OtherLaneSteps ==
    ASSUME LaneInv, FlushBuffer \/ DrainFinalized \/ Tick \/ UNCHANGED laneVars PROVE LaneInv'
<1>1. synthesis' = synthesis /\ told' = told /\ abandoned' = abandoned /\ deferred' = deferred
  BY DEF FlushBuffer, DrainFinalized, Tick, laneVars
<1> QED BY <1>1 DEF LaneInv, Sound, Untouched, Records

LEMMA LaneStart == LaneInit => LaneInv
<1> SUFFICES ASSUME LaneInit PROVE LaneInv
  OBVIOUS
<1>1. Fresh \in Entries /\ Fresh.started = Absent /\ Fresh.end = NoEnd
  <2>1. NoEnd \in [at : Nat, failed : BOOLEAN] /\ Absent \in Nat
    BY DEF NoEnd, Absent
  <2>2. "none" \in Origins /\ FALSE \in BOOLEAN
    BY DEF Origins
  <2> QED BY <2>1, <2>2 DEF Fresh, Entries
<1>2. /\ synthesis = [s \in Scopes |-> Fresh] /\ told = [s \in Scopes |-> "nothing"]
      /\ abandoned = {} /\ deferred = <<>>
  BY DEF LaneInit
<1>3. synthesis \in [Scopes -> Entries] /\ told \in [Scopes -> Words]
  BY <1>1, <1>2 DEF Words
<1>4. \A s \in Scopes : Agree(synthesis[s], told[s]) /\ synthesis[s].end = NoEnd
  BY <1>1, <1>2 DEF Agree
<1> QED BY <1>2, <1>3, <1>4 DEF LaneInv, Sound, Untouched, Scopes

\* The synthesis and what the collector was told agree (synthesize_batch_with_origin,
\* drain_deferred_records, advance_lifecycle, abandon_origin), for every set of sessions and
\* subagents, every grace, inactivity and capacity of the buffer and every number of records.
\* Agreement is kept by each fact and each flush alone, so a record that is refused half way may
\* be undone as a whole; the description of a Codex session starts it at the time of the record,
\* which the sign of life before it has left there because no parent's log tells its end.
THEOREM LaneTellsTheTruth == LaneSpec => []ToldAgrees
<1>1. LaneInv /\ [LaneNext]_laneVars => LaneInv'
  <2> SUFFICES ASSUME LaneInv, [LaneNext]_laneVars PROVE LaneInv'
    OBVIOUS
  <2> QED BY RecordsSound, LifecycleSound, AbandonSound, OtherLaneSteps, Zenon DEF LaneNext, Cycle
<1>2. LaneInv => ToldAgrees
  BY DEF LaneInv, Sound, Untouched, Agree, ToldAgrees
<1> QED BY LaneStart, <1>1, <1>2, PTL DEF LaneSpec

-----------------------------------------------------------------------------
(* The native lifecycle of a run: types.                                   *)

LifecycleSpec == LifecycleInit /\ [][LifecycleNext]_lifecycleVars

States == {"none", "merged", "running", "ended", "directed", "final"}
Executions == {"none", "live", "ended"}

Rows == [state : States, mark : Nat, end : Ends, ready : BOOLEAN, latest : 0 .. MaxTime,
         execution : Executions]

\* The end a mark belongs to: the source order is its last digit.
EndOf(mark) == IF (mark - 1) % 3 = 0 THEN "open"
               ELSE IF (mark - 1) % 3 = 1 THEN "done" ELSE "unknown"

\* Evidence with a watermark, which says how the session ended.
Marked == {e \in [mark : Nat \ {0}, end : Ends] : e.end = EndOf(e.mark)}

Batches == [run : TaskRuns, row : Rows, news : SUBSET Marked]

Drains == [runs : SUBSET TaskRuns, final : BOOLEAN, due : BOOLEAN]

Types ==
    /\ mem \in [TaskRuns -> Rows] /\ db \in [TaskRuns -> Rows]
    /\ heard \in [TaskRuns -> SUBSET Marked] /\ kept \in [TaskRuns -> SUBSET Marked]
    /\ owed \in SUBSET Batches
    /\ drain \in Drains
    /\ degraded \in BOOLEAN
    /\ budget \in [evidence : Nat, outages : Nat]

-----------------------------------------------------------------------------
(* A row answers with the newest of the evidence it rests on.              *)

Answers(register, evidence) ==
    /\ evidence = {} => register.mark = 0 /\ register.end = "open"
    /\ evidence # {} => register \in evidence
    /\ \A e \in evidence : e.mark <= register.mark

\* A run nothing is known of: as it was before, or absorbed by another.
Blank(row) ==
    /\ row.mark = 0 /\ row.end = "open" /\ row.latest = 0 /\ row.execution = "none"

Grounded(row, evidence) ==
    /\ Answers(Register(row), evidence)
    /\ row.state \in Gone => Blank(row) /\ evidence = {}

Grounds ==
    /\ \A r \in TaskRuns : Grounded(mem[r], heard[r]) /\ Grounded(db[r], kept[r])
    /\ \A b \in owed : Grounded(b.row, b.news) /\ b.row.state \notin Gone

LifecycleInv == Types /\ Grounds

-----------------------------------------------------------------------------
(* Rows and their evidence, one at a time.                                 *)

LEMMA MarksAreEvidence ==
    ASSUME NEW source \in 0 .. MaxTime, NEW seen \in Times, NEW end \in Ends
    PROVE  Evidence(source, seen, end) \in Marked
<1> USE LifecycleConstants
<1> DEFINE k == source * (MaxTime + 1) + seen
<1>1. k \in Nat
  BY DEF Times
<1>2. PICK c \in 0 .. 2 : /\ Mark(source, seen, end) = 1 + k * 3 + c
                          /\ end = (IF c = 0 THEN "open" ELSE IF c = 1 THEN "done" ELSE "unknown")
  <2>1. CASE end = "open"
    BY <2>1, <1>1 DEF Mark
  <2>2. CASE end = "done"
    BY <2>2, <1>1 DEF Mark
  <2>3. CASE end = "unknown"
    BY <2>3, <1>1 DEF Mark
  <2> QED BY <2>1, <2>2, <2>3 DEF Ends
<1> HIDE DEF k
<1>3. (k * 3 + c) % 3 = c
  BY <1>1
<1>4. Mark(source, seen, end) \in Nat \ {0} /\ Mark(source, seen, end) - 1 = k * 3 + c
  BY <1>1, <1>2
<1>5. end = EndOf(Mark(source, seen, end))
  BY <1>2, <1>3, <1>4 DEF EndOf
<1> QED BY <1>4, <1>5 DEF Marked, Evidence

\* Two registers with the same mark are the same.
LEMMA MarksDecide ==
    ASSUME NEW x \in Rows, NEW y \in Rows,
           NEW E \in SUBSET Marked, NEW F \in SUBSET Marked,
           Answers(Register(x), E), Answers(Register(y), F), x.mark = y.mark
    PROVE  x.end = y.end
<1>1. ASSUME NEW z \in Rows, NEW G \in SUBSET Marked, Answers(Register(z), G)
      PROVE  z.end = IF z.mark = 0 THEN "open" ELSE EndOf(z.mark)
  BY <1>1 DEF Answers, Register, Marked, Rows
<1> QED BY <1>1

\* The choice of the newest evidence is the register that answers with it.
LEMMA NewestAnswers ==
    ASSUME NEW row \in Rows, NEW E \in SUBSET Marked, Answers(Register(row), E)
    PROVE  Lasting!Newest(E) = Register(row)
<1>1. CASE E = {}
  BY <1>1 DEF Answers, Lasting!Newest, Lasting!Nothing, Register
<1>2. CASE E # {}
  <2> DEFINE Top(e) == \A f \in E : f.mark <= e.mark
  <2>1. Register(row) \in E /\ Top(Register(row))
    BY <1>2 DEF Answers
  <2>2. ASSUME NEW e \in E, Top(e) PROVE e = Register(row)
    <3>1. e.mark = row.mark
      BY <2>1, <2>2 DEF Marked, Register, Rows
    <3> QED BY <2>1, <3>1 DEF Marked, Register, Rows
  <2>3. (CHOOSE e \in E : Top(e)) = Register(row)
    BY <2>1, <2>2
  <2> QED BY <1>2, <2>3 DEF Lasting!Newest
<1> QED BY <1>1, <1>2

\* A row that applies a piece of evidence answers with the newest of all it has heard.
LEMMA ApplyKeepsNewest ==
    ASSUME NEW row \in Rows, NEW E \in SUBSET Marked, NEW e \in Marked,
           Answers(Register(row), E)
    PROVE  LET new == ApplyNativeLifecycle(row, e)
           IN  /\ new \in Rows /\ new.mark >= row.mark
               /\ new.state = row.state /\ new.latest = row.latest /\ new.execution = row.execution
               /\ Answers(Register(new), E \cup {e})
<1> DEFINE new == ApplyNativeLifecycle(row, e)
<1>1. CASE row.mark >= e.mark
  <2>1. new = row
    BY <1>1 DEF ApplyNativeLifecycle
  <2>2. E # {}
    BY <1>1 DEF Answers, Register, Marked
  <2> QED BY <1>1, <2>1, <2>2 DEF Answers, Register, Marked, Rows
<1>2. CASE ~(row.mark >= e.mark)
  <2>1. new = [row EXCEPT !.mark = e.mark, !.end = e.end]
    BY <1>2 DEF ApplyNativeLifecycle
  <2>2. new \in Rows /\ new.mark = e.mark /\ new.end = e.end
    BY <2>1 DEF Rows, Marked
  <2>3. Register(new) = e
    BY <2>2 DEF Register, Marked
  <2>4. \A f \in E : f.mark <= e.mark
    BY <1>2 DEF Answers, Register, Rows, Marked
  <2>5. Answers(Register(new), E \cup {e})
    BY <2>3, <2>4 DEF Answers, Marked
  <2>6. new.state = row.state /\ new.latest = row.latest /\ new.execution = row.execution
    BY <2>1 DEF Rows
  <2> QED BY <1>2, <2>2, <2>5, <2>6 DEF Rows, Marked
<1> QED BY <1>1, <1>2

\* A write over a row that the store has, field by field.
LEMMA UpsertRow ==
    ASSUME NEW old \in Rows, NEW new \in Rows, old.state \notin Gone
    PROVE  LET top == IF old.mark >= new.mark THEN old ELSE new
           IN  UpsertTaskRunV6(old, new) =
                  [state |-> IF old.ready /\ ~new.ready THEN old.state ELSE new.state,
                   mark |-> top.mark, end |-> top.end, ready |-> new.ready \/ old.ready,
                   latest |-> IF new.latest < old.latest THEN old.latest ELSE new.latest,
                   execution |-> new.execution]
<1>1. CASE old.mark >= new.mark
  BY <1>1 DEF UpsertTaskRunV6, Later, Rows
<1>2. CASE ~(old.mark >= new.mark)
  BY <1>2 DEF UpsertTaskRunV6, Later, Rows
<1> QED BY <1>1, <1>2

\* A write keeps the newest of what the ledger and the reducer have.
LEMMA UpsertKeepsNewest ==
    ASSUME NEW old \in Rows, NEW new \in Rows, NEW K \in SUBSET Marked, NEW H \in SUBSET Marked,
           Grounded(old, K), Grounded(new, H), new.state \in Gone => old.state \in Gone
    PROVE  LET row == UpsertTaskRunV6(old, new)
           IN  /\ row \in Rows /\ Grounded(row, K \cup H)
               /\ row.state \in Gone <=> new.state \in Gone
<1> DEFINE row == UpsertTaskRunV6(old, new)
<1>1. CASE old.state \in Gone
  <2>1. row = new /\ K \cup H = H
    BY <1>1 DEF UpsertTaskRunV6, Grounded
  <2> QED BY <2>1
<1>2. CASE old.state \notin Gone
  <2> DEFINE top == IF old.mark >= new.mark THEN old ELSE new
             later == IF new.latest < old.latest THEN old.latest ELSE new.latest
             state == IF old.ready /\ ~new.ready THEN old.state ELSE new.state
  <2>1. row = [state |-> state, mark |-> top.mark, end |-> top.end,
               ready |-> new.ready \/ old.ready, latest |-> later, execution |-> new.execution]
    BY <1>2, UpsertRow
  <2>2. /\ top.mark \in Nat /\ top.end \in Ends /\ later \in 0 .. MaxTime /\ state \in States
        /\ new.ready \/ old.ready \in BOOLEAN
    BY DEF Rows
  <2>3. row \in Rows
    BY <2>1, <2>2 DEF Rows
  <2>4. Register(row) = Register(top) /\ row.mark = top.mark
    BY <2>1 DEF Register
  <2>5. Answers(Register(row), K \cup H)
    <3>1. \A e \in K \cup H : e.mark <= top.mark
      BY DEF Grounded, Answers, Register, Rows, Marked
    <3>2. K \cup H # {} => Register(top) \in K \cup H
      <4>1. CASE old.mark >= new.mark /\ K # {}
        BY <4>1 DEF Grounded, Answers
      <4>2. CASE old.mark >= new.mark /\ K = {}
        BY <4>2 DEF Grounded, Answers, Register, Rows, Marked
      <4>3. CASE ~(old.mark >= new.mark) /\ H # {}
        BY <4>3 DEF Grounded, Answers
      <4>4. CASE ~(old.mark >= new.mark) /\ H = {}
        BY <4>4 DEF Grounded, Answers, Register, Rows
      <4> QED BY <4>1, <4>2, <4>3, <4>4
    <3>3. K \cup H = {} => top.mark = 0 /\ top.end = "open"
      BY DEF Grounded, Answers, Register
    <3> QED BY <2>4, <3>1, <3>2, <3>3 DEF Answers, Register
  <2>6. row.state \notin Gone
    BY <1>2, <2>1
  <2> QED BY <1>2, <2>3, <2>5, <2>6 DEF Grounded
<1> QED BY <1>1, <1>2

\* The survivor of a merge answers with the newest of what both have.
LEMMA FoldKeepsNewest ==
    ASSUME NEW s \in Rows, NEW a \in Rows, NEW covered \in BOOLEAN,
           NEW E \in SUBSET Marked, NEW F \in SUBSET Marked,
           Answers(Register(s), E), Answers(Register(a), F)
    PROVE  LET row == Folded(s, a, covered)
           IN  row \in Rows /\ Answers(Register(row), E \cup F) /\ row.state = s.state
<1> DEFINE row == Folded(s, a, covered)
           top == IF a.mark > s.mark THEN a ELSE s
<1>1. /\ row.state = s.state /\ row.mark = top.mark /\ row.end = top.end
      /\ row \in Rows
  <2> DEFINE ready == s.ready \/ a.ready \/ covered
             latest == Later(s.latest, a.latest)
             execution == IF "live" \in {s.execution, a.execution} THEN "live"
                          ELSE IF "ended" \in {s.execution, a.execution} THEN "ended"
                          ELSE "none"
  <2>0. row = [s EXCEPT !.mark = Later(s.mark, a.mark), !.end = top.end, !.ready = ready,
                        !.latest = latest, !.execution = execution]
    BY Zenon DEF Folded
  <2>a. ready \in BOOLEAN /\ execution \in Executions
    BY Zenon DEF Rows, Executions
  <2> HIDE DEF ready, latest, execution
  <2>1. row = [state |-> s.state, mark |-> Later(s.mark, a.mark), end |-> top.end,
               ready |-> ready, latest |-> latest, execution |-> execution]
    BY <2>0 DEF Rows
  <2>2. Later(s.mark, a.mark) = top.mark /\ latest \in 0 .. MaxTime
    BY DEF Later, Rows, latest
  <2>3. top.mark \in Nat /\ top.end \in Ends
    BY DEF Rows
  <2>4. row \in Rows
    BY <2>a, <2>1, <2>2, <2>3 DEF Rows
  <2> QED BY <2>1, <2>2, <2>4
<1>2. \A e \in E \cup F : e.mark <= top.mark
  BY DEF Answers, Register, Rows, Marked
<1>3. E \cup F = {} => top.mark = 0 /\ top.end = "open"
  BY DEF Answers, Register
<1>4. E \cup F # {} => Register(top) \in E \cup F
  <2>1. CASE a.mark > s.mark /\ F # {}
    BY <2>1 DEF Answers
  <2>2. CASE a.mark > s.mark /\ F = {}
    BY <2>2 DEF Answers, Register, Rows
  <2>3. CASE ~(a.mark > s.mark) /\ E # {}
    BY <2>3 DEF Answers
  <2>4. CASE ~(a.mark > s.mark) /\ E = {}
    BY <2>4 DEF Answers, Register, Rows, Marked
  <2> QED BY <2>1, <2>2, <2>3, <2>4
<1> QED BY <1>1, <1>2, <1>3, <1>4 DEF Answers, Register

\* What finalization makes of a row: the same, or newer evidence that it writes with it.
LEMMA CloseKeepsNewest ==
    ASSUME NEW row \in Rows, NEW K \in SUBSET Marked, NEW seen \in Times, Grounded(row, K)
    PROVE  LET new == ClosedByFinalization(row, seen)
               news == IF new # row THEN K \cup {[mark |-> new.mark, end |-> new.end]} ELSE K
           IN  /\ new \in Rows /\ news \in SUBSET Marked /\ Grounded(new, news)
               /\ new.state = row.state /\ new.latest = row.latest /\ new.mark >= row.mark
               /\ Blank(row) => new = row
<1> DEFINE new == ClosedByFinalization(row, seen)
           e   == Evidence(row.latest, seen, "unknown")
<1>1. CASE new = row
  BY <1>1 DEF Rows
<1>2. CASE new # row
  <2>1. /\ new = [row EXCEPT !.mark = Mark(row.latest, seen, "unknown"), !.end = "unknown"]
        /\ row.latest # 0 /\ row.mark < Mark(row.latest, seen, "unknown")
    BY <1>2 DEF ClosedByFinalization
  <2>2. e \in Marked
    BY MarksAreEvidence DEF Rows, Ends
  <2>3. /\ new \in Rows /\ new.mark = e.mark /\ new.end = e.end /\ row.mark < e.mark
        /\ new.state = row.state /\ new.latest = row.latest
    BY <2>1, <2>2 DEF Rows, Marked, Evidence
  <2>4. Register(new) = e /\ [mark |-> new.mark, end |-> new.end] = e
    BY <2>2, <2>3 DEF Register, Marked
  <2>5. \A f \in K : f.mark <= e.mark
    BY <2>2, <2>3 DEF Grounded, Answers, Register, Rows, Marked
  <2>6. Answers(Register(new), K \cup {e})
    BY <2>2, <2>4, <2>5 DEF Answers, Marked
  <2>7. ~Blank(row) /\ row.state \notin Gone
    BY <2>1 DEF Blank, Grounded
  <2>8. new.mark >= row.mark
    BY <2>2, <2>3 DEF Rows, Marked
  <2> QED BY <1>2, <2>2, <2>3, <2>4, <2>6, <2>7, <2>8 DEF Grounded
<1> QED BY <1>1, <1>2

\* Changes of a row that leave its lifecycle.
LEMMA SameRegister ==
    ASSUME NEW row \in Rows, NEW new \in Rows, NEW E \in SUBSET Marked, Grounded(row, E),
           new.mark = row.mark, new.end = row.end, new.state \notin Gone
    PROVE  Grounded(new, E)
BY DEF Grounded, Register

-----------------------------------------------------------------------------
(* The steps: the invariant, and what the abstract specification does.     *)

\* Evidence is heard and kept, a drain settles, two runs are united, or what was not kept is
\* forgotten.
AbstractStep == Lasting!Hear \/ Lasting!Settle \/ Lasting!Unite \/ Lasting!Forget

Memory == mem \in [TaskRuns -> Rows] /\ heard \in [TaskRuns -> SUBSET Marked]
          /\ \A r \in TaskRuns : Grounded(mem[r], heard[r])

Ledger == db \in [TaskRuns -> Rows] /\ kept \in [TaskRuns -> SUBSET Marked]
          /\ \A r \in TaskRuns : Grounded(db[r], kept[r])

Owed == owed \in SUBSET Batches
        /\ \A b \in owed : Grounded(b.row, b.news) /\ b.row.state \notin Gone

Control == drain \in Drains /\ degraded \in BOOLEAN /\ budget \in [evidence : Nat, outages : Nat]

LEMMA Parted == LifecycleInv <=> Memory /\ Ledger /\ Owed /\ Control
BY Zenon DEF LifecycleInv, Types, Grounds, Memory, Ledger, Owed, Control

\* A used piece of evidence or outage.
LEMMA BudgetUsed ==
    ASSUME Control, NEW what \in {"evidence", "outages"}, Used(what)
    PROVE  budget' \in [evidence : Nat, outages : Nat]
BY DEF Control, Used

\* What the reducer makes of a record.
LEMMA ObservedRow ==
    ASSUME NEW old \in Rows, NEW E \in SUBSET Marked, Grounded(old, E), old.state # "merged",
           NEW said \in Ends \cup {"nothing"}, NEW at \in Times, NEW seen \in Times
    PROVE  LET row == Observed(old, said, at, seen)
               news == E \cup Told(said, at, seen)
           IN  /\ row \in Rows /\ news \in SUBSET Marked
               /\ row.state \notin Gone /\ Grounded(row, news)
               /\ row.mark >= old.mark /\ row.latest >= old.latest
<1> USE LifecycleConstants
<1> DEFINE known == IF old.state = "none" THEN [old EXCEPT !.state = "running"] ELSE old
           e     == Evidence(at, seen, said)
           noted  == IF said = "nothing" THEN known ELSE ApplyNativeLifecycle(known, e)
           row   == Observed(old, said, at, seen)
           news  == E \cup Told(said, at, seen)
<1>1. /\ known \in Rows /\ known.state \notin Gone /\ known.latest = old.latest
      /\ known.mark = old.mark /\ known.end = old.end
  BY DEF Rows, States, Gone
<1> HIDE DEF known
<1>2. Grounded(known, E)
  BY <1>1, SameRegister
<1>3. /\ noted \in Rows /\ noted.state \notin Gone /\ noted.mark >= old.mark
      /\ noted.latest = old.latest /\ news \in SUBSET Marked /\ Answers(Register(noted), news)
  <2>1. CASE said = "nothing"
    BY <1>1, <1>2, <2>1 DEF Told, Grounded, Rows
  <2>2. CASE said # "nothing"
    <3>1. e \in Marked
      BY <2>2, MarksAreEvidence DEF Times
    <3>2. Answers(Register(known), E)
      BY <1>2 DEF Grounded
    <3>3. news = E \cup {e} /\ noted = ApplyNativeLifecycle(known, e)
      BY <2>2 DEF Told
    <3> HIDE DEF noted, news, e
    <3> QED BY <1>1, <3>1, <3>2, <3>3, ApplyKeepsNewest
  <2> QED BY <2>1, <2>2
<1>4. row = [noted EXCEPT !.latest = Later(noted.latest, at)]
  BY Zenon DEF Observed, known
<1> HIDE DEF noted, row, news
<1>5. Later(noted.latest, at) \in 0 .. MaxTime /\ Later(noted.latest, at) >= old.latest
  BY <1>3 DEF Later, Times, Rows
<1>6. /\ row \in Rows /\ row.mark = noted.mark /\ row.end = noted.end /\ row.state = noted.state
      /\ row.latest = Later(noted.latest, at)
  BY <1>3, <1>4, <1>5 DEF Rows
<1>7. Grounded(row, news)
  BY <1>3, <1>6 DEF Grounded, Register
<1> QED BY <1>3, <1>5, <1>6, <1>7 DEF row, news

\* The rows of some runs are written as they are in memory, or not at all.
LEMMA WriteRowsKeepsNewest ==
    ASSUME Ledger, Memory', NEW runs \in SUBSET TaskRuns, WriteRows(runs),
           \A r \in runs : mem'[r].state \notin Gone
    PROVE  Ledger' /\ \A r \in TaskRuns : kept[r] \subseteq kept'[r]
<1>1. CASE degraded
  BY <1>1 DEF WriteRows, Ledger
<1>2. CASE ~degraded
  <2>1. /\ db' = [r \in TaskRuns |->
                    IF r \in runs THEN UpsertTaskRunV6(db[r], mem'[r]) ELSE db[r]]
        /\ kept' = [r \in TaskRuns |-> IF r \in runs THEN kept[r] \cup heard'[r] ELSE kept[r]]
    BY <1>2 DEF WriteRows
  <2>2. ASSUME NEW r \in TaskRuns
        PROVE  /\ db'[r] \in Rows /\ kept'[r] \in SUBSET Marked /\ Grounded(db'[r], kept'[r])
               /\ kept[r] \subseteq kept'[r]
    <3>0. /\ db[r] \in Rows /\ kept[r] \in SUBSET Marked /\ Grounded(db[r], kept[r])
          /\ mem'[r] \in Rows /\ heard'[r] \in SUBSET Marked /\ Grounded(mem'[r], heard'[r])
      BY DEF Ledger, Memory
    <3>1. CASE r \in runs
      <4>1. db'[r] = UpsertTaskRunV6(db[r], mem'[r]) /\ kept'[r] = kept[r] \cup heard'[r]
        BY <2>1, <3>1
      <4>2. mem'[r].state \notin Gone
        BY <3>1
      <4> QED BY <3>0, <4>1, <4>2, UpsertKeepsNewest
    <3>2. CASE r \notin runs
      BY <2>1, <3>0, <3>2
    <3> QED BY <3>1, <3>2
  <2>3. DOMAIN db' = TaskRuns /\ DOMAIN kept' = TaskRuns
    BY <2>1
  <2>4. db' \in [TaskRuns -> Rows] /\ kept' \in [TaskRuns -> SUBSET Marked]
    BY <2>1, <2>2
  <2> QED BY <2>2, <2>4 DEF Ledger
<1> QED BY <1>1, <1>2

Kept == LifecycleInv' /\ AbstractStep

\* One run hears more evidence.
LEMMA HearMore ==
    ASSUME Memory, NEW r \in TaskRuns, NEW row \in Rows, NEW news \in SUBSET Marked,
           Grounded(row, news), heard[r] \subseteq news,
           mem' = [mem EXCEPT ![r] = row], heard' = [heard EXCEPT ![r] = news]
    PROVE  Memory' /\ \A q \in TaskRuns : heard[q] \subseteq heard'[q]
BY DEF Memory

\* The ledger keeps more evidence of one run.
LEMMA KeepMore ==
    ASSUME Ledger, NEW r \in TaskRuns, NEW row \in Rows, NEW news \in SUBSET Marked,
           Grounded(row, kept[r] \cup news),
           db' = [db EXCEPT ![r] = row], kept' = [kept EXCEPT ![r] = kept[r] \cup news]
    PROVE  Ledger' /\ \A q \in TaskRuns : kept[q] \subseteq kept'[q]
BY DEF Ledger

LEMMA ObserveLiveStep ==
    ASSUME LifecycleInv, NEW r \in TaskRuns, NEW at \in Times, NEW seen \in Times,
           NEW said \in Ends \cup {"nothing"}, ObserveLive(r, said, at, seen)
    PROVE  Kept
<1> DEFINE row  == Observed(mem[r], said, at, seen)
           pub  == [row EXCEPT !.ready = TRUE]
           news == heard[r] \cup Told(said, at, seen)
           written == [db EXCEPT ![r] = UpsertTaskRunV6(@, pub)]
<1>0. Memory /\ Ledger /\ Owed /\ Control
  BY Parted
<1>1. mem[r] \in Rows /\ heard[r] \in SUBSET Marked /\ Grounded(mem[r], heard[r])
  BY <1>0 DEF Memory
<1>2. row \in Rows /\ news \in SUBSET Marked /\ row.state \notin Gone /\ Grounded(row, news)
  BY <1>1, ObservedRow DEF ObserveLive
<1>3. owed = {} /\ UNCHANGED <<owed, drain>> /\ degraded' \in BOOLEAN
  BY <1>0 DEF ObserveLive, Control
<1>4. budget' \in [evidence : Nat, outages : Nat]
  <2> DEFINE outages == IF degraded' /\ ~degraded THEN budget.outages + 1 ELSE budget.outages
  <2>1. budget' = [budget EXCEPT !.evidence = budget.evidence + 1, !.outages = outages]
    BY Zenon DEF ObserveLive
  <2>2. outages \in Nat
    BY <1>0 DEF Control
  <2>3. budget \in [evidence : Nat, outages : Nat]
    BY <1>0 DEF Control
  <2> HIDE DEF outages
  <2>4. budget' = [evidence |-> budget.evidence + 1, outages |-> outages]
    BY <2>1, <2>3
  <2> QED BY <2>2, <2>3, <2>4
<1>5. \/ /\ ~degraded /\ mem' = [mem EXCEPT ![r] = pub] /\ db' = written
         /\ heard' = [heard EXCEPT ![r] = news]
         /\ kept' = [kept EXCEPT ![r] = kept[r] \cup news]
      \/ /\ \/ db' = db /\ kept' = kept
            \/ db' = written /\ kept' = [kept EXCEPT ![r] = kept[r] \cup news]
         /\ \/ mem' = [mem EXCEPT ![r] = row] /\ heard' = [heard EXCEPT ![r] = news]
            \/ UNCHANGED <<mem, heard>>
  BY Zenon DEF ObserveLive
<1> HIDE DEF row, news
<1>6. pub \in Rows /\ pub.state \notin Gone /\ Grounded(pub, news)
  <2>1. pub \in Rows /\ pub.state = row.state /\ pub.mark = row.mark /\ pub.end = row.end
    BY <1>2 DEF Rows
  <2> QED BY <1>2, <2>1, SameRegister
<1> HIDE DEF pub
<1>7. Memory' /\ \A q \in TaskRuns : heard[q] \subseteq heard'[q]
  <2>1. heard[r] \subseteq news
    BY DEF news
  <2>2. CASE mem' = [mem EXCEPT ![r] = pub] /\ heard' = [heard EXCEPT ![r] = news]
    BY <1>0, <1>2, <1>6, <2>1, <2>2, HearMore
  <2>3. CASE mem' = [mem EXCEPT ![r] = row] /\ heard' = [heard EXCEPT ![r] = news]
    BY <1>0, <1>2, <2>1, <2>3, HearMore
  <2>4. CASE UNCHANGED <<mem, heard>>
    BY <1>0, <2>4 DEF Memory
  <2> QED BY <1>5, <2>2, <2>3, <2>4
<1>8. Ledger' /\ \A q \in TaskRuns : kept[q] \subseteq kept'[q]
  <2>1. CASE db' = db /\ kept' = kept
    BY <1>0, <2>1 DEF Ledger
  <2>2. CASE db' = written /\ kept' = [kept EXCEPT ![r] = kept[r] \cup news]
    <3>1. db[r] \in Rows /\ kept[r] \in SUBSET Marked /\ Grounded(db[r], kept[r])
      BY <1>0 DEF Ledger
    <3>2. UpsertTaskRunV6(db[r], pub) \in Rows
          /\ Grounded(UpsertTaskRunV6(db[r], pub), kept[r] \cup news)
      BY <1>2, <1>6, <3>1, UpsertKeepsNewest
    <3>3. db' = [db EXCEPT ![r] = UpsertTaskRunV6(db[r], pub)]
      BY <2>2
    <3> QED BY <1>0, <1>2, <2>2, <3>2, <3>3, KeepMore
  <2> QED BY <1>5, <2>1, <2>2
<1>9. Owed' /\ Control'
  BY <1>0, <1>3, <1>4 DEF Owed, Control
<1>10. Lasting!Hear
  BY <1>7, <1>8 DEF Lasting!Hear
<1>11. LifecycleInv'
  <2>1. (Memory /\ Ledger /\ Owed /\ Control)'
    BY <1>7, <1>8, <1>9
  <2> QED BY <2>1 DEF LifecycleInv, Types, Grounds, Memory, Ledger, Owed, Control
<1> QED BY <1>10, <1>11 DEF Kept, AbstractStep

LEMMA InvariantParts ==
    ASSUME Memory', Ledger', Owed', Control'
    PROVE  LifecycleInv'
BY DEF LifecycleInv, Types, Grounds, Memory, Ledger, Owed, Control

LEMMA ObserveHistoricalStep ==
    ASSUME LifecycleInv, NEW r \in TaskRuns, NEW at \in Times, NEW seen \in Times,
           NEW said \in Ends \cup {"nothing"}, ObserveHistorical(r, said, at, seen)
    PROVE  Kept
<1> DEFINE row  == Observed(mem[r], said, at, seen)
           priv == [row EXCEPT !.ready = FALSE]
           news == heard[r] \cup Told(said, at, seen)
<1>0. Memory /\ Ledger /\ Owed /\ Control
  BY Parted
<1>1. mem[r] \in Rows /\ heard[r] \in SUBSET Marked /\ Grounded(mem[r], heard[r])
  BY <1>0 DEF Memory
<1>2. row \in Rows /\ news \in SUBSET Marked /\ row.state \notin Gone /\ Grounded(row, news)
  BY <1>1, ObservedRow DEF ObserveHistorical
<1>3. /\ mem' = [mem EXCEPT ![r] = priv] /\ heard' = [heard EXCEPT ![r] = news]
      /\ owed' = {[run |-> r, row |-> priv, news |-> news]}
      /\ Used("evidence") /\ UNCHANGED <<db, drain, degraded, kept>>
  BY Zenon DEF ObserveHistorical
<1>a. heard[r] \subseteq news
  OBVIOUS
<1> HIDE DEF row, news
<1>4. priv \in Rows /\ priv.state \notin Gone /\ Grounded(priv, news)
  <2>1. priv \in Rows /\ priv.state = row.state /\ priv.mark = row.mark /\ priv.end = row.end
    BY <1>2 DEF Rows
  <2> QED BY <1>2, <2>1, SameRegister
<1> HIDE DEF priv
<1>5. Memory' /\ \A q \in TaskRuns : heard[q] \subseteq heard'[q]
  BY <1>0, <1>2, <1>3, <1>4, <1>a, HearMore
<1>6. Ledger' /\ \A q \in TaskRuns : kept[q] \subseteq kept'[q]
  BY <1>0, <1>3 DEF Ledger
<1>7. Owed'
  BY <1>2, <1>3, <1>4 DEF Owed, Batches
<1>8. Control'
  BY <1>0, <1>3, BudgetUsed DEF Control
<1> QED BY <1>5, <1>6, <1>7, <1>8, InvariantParts DEF Kept, AbstractStep, Lasting!Hear

LEMMA WriteOwedStep ==
    ASSUME LifecycleInv, WriteOwed
    PROVE  Kept
<1>0. Memory /\ Ledger /\ Owed /\ Control
  BY Parted
<1>1. PICK b \in owed :
         /\ drain' = [drain EXCEPT !.runs = @ \cup {b.run}]
         /\ db' = Demoted([db EXCEPT ![b.run] = UpsertTaskRunV6(@, b.row)],
                          drain.runs \cup {b.run})
         /\ kept' = [kept EXCEPT ![b.run] = @ \cup b.news]
  BY DEF WriteOwed
<1>2. owed' = {} /\ UNCHANGED <<mem, degraded, budget, heard>>
  BY DEF WriteOwed
<1>3. /\ b.run \in TaskRuns /\ b.row \in Rows /\ b.news \in SUBSET Marked
      /\ Grounded(b.row, b.news) /\ b.row.state \notin Gone
  BY <1>0 DEF Owed, Batches
<1> DEFINE row == UpsertTaskRunV6(db[b.run], b.row)
           written == [db EXCEPT ![b.run] = row]
           blocked == drain.runs \cup {b.run}
<1>4. row \in Rows /\ Grounded(row, kept[b.run] \cup b.news) /\ row.state \notin Gone
  <2>1. db[b.run] \in Rows /\ kept[b.run] \in SUBSET Marked /\ Grounded(db[b.run], kept[b.run])
    BY <1>0, <1>3 DEF Ledger
  <2> QED BY <1>3, <2>1, UpsertKeepsNewest
<1> HIDE DEF row
<1>5. /\ kept' = [kept EXCEPT ![b.run] = kept[b.run] \cup b.news]
      /\ db' = [q \in TaskRuns |-> IF q \in blocked THEN [written[q] EXCEPT !.ready = FALSE]
                                   ELSE written[q]]
  BY <1>1 DEF Demoted, row
<1>6. ASSUME NEW q \in TaskRuns
      PROVE  /\ written[q] \in Rows /\ kept'[q] \in SUBSET Marked /\ Grounded(written[q], kept'[q])
             /\ kept[q] \subseteq kept'[q]
  BY <1>0, <1>3, <1>4, <1>5 DEF Ledger
<1> HIDE DEF written
<1>7. ASSUME NEW q \in TaskRuns
      PROVE  db'[q] \in Rows /\ Grounded(db'[q], kept'[q])
  <2>1. CASE q \in blocked
    <3> DEFINE new == [written[q] EXCEPT !.ready = FALSE]
    <3>1. db'[q] = new
      BY <1>5, <2>1
    <3>2. /\ new \in Rows /\ new.mark = written[q].mark /\ new.end = written[q].end
          /\ new.state = written[q].state /\ new.latest = written[q].latest
          /\ new.execution = written[q].execution
      BY <1>6 DEF Rows
    <3>3. Grounded(new, kept'[q])
      BY <1>6, <3>2 DEF Grounded, Blank, Register
    <3> QED BY <3>1, <3>2, <3>3
  <2>2. CASE q \notin blocked
    BY <1>5, <1>6, <2>2
  <2> QED BY <2>1, <2>2
<1>8. kept' \in [TaskRuns -> SUBSET Marked]
  BY <1>0, <1>3, <1>5 DEF Ledger
<1>9. Ledger'
  BY <1>5, <1>6, <1>7, <1>8 DEF Ledger
<1>10. Memory' /\ Owed' /\ \A q \in TaskRuns : heard[q] \subseteq heard'[q]
  BY <1>0, <1>2 DEF Memory, Owed
<1>11. Control'
  BY <1>0, <1>1, <1>2, <1>3 DEF Control, Drains
<1> QED BY <1>6, <1>9, <1>10, <1>11, InvariantParts DEF Kept, AbstractStep, Lasting!Hear

\* Memory moves forward in some rows, which are not blank then, and rests in the others.
Advances(runs) ==
    /\ \A r \in runs : /\ mem'[r].state \notin Gone
                       /\ mem'[r].mark >= mem[r].mark /\ mem'[r].latest >= mem[r].latest
    /\ \A r \in TaskRuns \ runs : /\ mem'[r].mark = mem[r].mark /\ mem'[r].end = mem[r].end
                                  /\ mem'[r].latest = mem[r].latest
                                  /\ mem'[r].state \in Gone <=> mem[r].state \in Gone

\* What an event or a snapshot changes in memory is written, or skipped during an outage.
LEMMA MemoryWritten ==
    ASSUME LifecycleInv, Memory', \A q \in TaskRuns : heard[q] \subseteq heard'[q],
           NEW runs \in SUBSET TaskRuns, WriteRows(runs),
           \A r \in runs : mem'[r].state \notin Gone,
           UNCHANGED <<owed, drain, degraded>>,
           budget' = budget \/ Used("evidence")
    PROVE  Kept
<1>0. Memory /\ Ledger /\ Owed /\ Control
  BY Parted
<1>1. Ledger' /\ \A q \in TaskRuns : kept[q] \subseteq kept'[q]
  BY <1>0, WriteRowsKeepsNewest
<1>2. Owed' /\ Control'
  <2>1. Owed'
    BY <1>0 DEF Owed
  <2>2. budget' \in [evidence : Nat, outages : Nat]
    <3>1. CASE budget' = budget
      BY <1>0, <3>1 DEF Control
    <3>2. CASE Used("evidence")
      BY <1>0, <3>2, BudgetUsed
    <3> QED BY <3>1, <3>2
  <2> QED BY <1>0, <2>1, <2>2 DEF Control
<1> QED BY <1>1, <1>2, InvariantParts DEF Kept, AbstractStep, Lasting!Hear

LEMMA ControllerStep ==
    ASSUME LifecycleInv, NEW r \in TaskRuns, NEW at \in Times, NEW seen \in Times,
           NEW event \in {"task_started", "session_ended", "complete"},
           Controller(r, event, at, seen)
    PROVE  Kept /\ Advances({r})
<1> DEFINE e     == Evidence(at, seen, IF event = "task_started" THEN "open" ELSE "done")
           state == CASE event = "task_started" -> "directed"
                      [] event = "session_ended" -> mem[r].state
                      [] event = "complete" -> "final"
           row   == [mem[r] EXCEPT !.state = state]
           new   == ApplyNativeLifecycle(row, e)
<1>0. Memory /\ Ledger /\ Owed /\ Control
  BY Parted
<1>1. mem[r] \in Rows /\ heard[r] \in SUBSET Marked /\ Grounded(mem[r], heard[r])
  BY <1>0 DEF Memory
<1>2. /\ \/ mem' = [mem EXCEPT ![r] = row] /\ UNCHANGED heard
         \/ mem' = [mem EXCEPT ![r] = new] /\ heard' = [heard EXCEPT ![r] = heard[r] \cup {e}]
      /\ WriteRows({r}) /\ Used("evidence") /\ UNCHANGED <<owed, drain, degraded>>
  BY Zenon DEF Controller
<1>3. state \in States \ Gone
  <2>1. CASE event = "task_started"
    BY <2>1 DEF States, Gone
  <2>2. CASE event = "session_ended"
    BY <1>1, <2>2 DEF Controller, Rows, States, Gone
  <2>3. CASE event = "complete"
    BY <2>3 DEF States, Gone
  <2> QED BY <2>1, <2>2, <2>3
<1>4. e \in Marked
  BY MarksAreEvidence, LifecycleConstants DEF Times, Ends
<1> HIDE DEF state, e
<1>5. /\ row \in Rows /\ row.state \notin Gone /\ Grounded(row, heard[r])
      /\ row.mark = mem[r].mark /\ row.latest = mem[r].latest
  <2>1. row \in Rows /\ row.state = state /\ row.mark = mem[r].mark /\ row.end = mem[r].end
        /\ row.latest = mem[r].latest
    BY <1>1, <1>3 DEF Rows
  <2> QED BY <1>1, <1>3, <2>1, SameRegister
<1> HIDE DEF row
<1>6. /\ new \in Rows /\ new.state \notin Gone /\ Grounded(new, heard[r] \cup {e})
      /\ new.mark >= mem[r].mark /\ new.latest = mem[r].latest
  <2>1. Answers(Register(row), heard[r])
    BY <1>5 DEF Grounded
  <2>2. /\ new \in Rows /\ new.state = row.state /\ new.mark >= row.mark
        /\ new.latest = row.latest /\ Answers(Register(new), heard[r] \cup {e})
    BY <1>1, <1>4, <1>5, <2>1, ApplyKeepsNewest, ZenonT(40)
  <2> QED BY <1>5, <2>2 DEF Grounded
<1> HIDE DEF new
<1>7. /\ Memory' /\ mem'[r].state \notin Gone
      /\ \A q \in TaskRuns : heard[q] \subseteq heard'[q]
  <2>1. CASE mem' = [mem EXCEPT ![r] = row] /\ UNCHANGED heard
    BY <1>0, <1>5, <2>1 DEF Memory
  <2>2. CASE mem' = [mem EXCEPT ![r] = new] /\ heard' = [heard EXCEPT ![r] = heard[r] \cup {e}]
    <3>1. Memory' /\ \A q \in TaskRuns : heard[q] \subseteq heard'[q]
      BY <1>0, <1>1, <1>4, <1>6, <2>2, HearMore
    <3>2. mem'[r] = new
      BY <1>0, <2>2 DEF Memory
    <3> QED BY <1>6, <3>1, <3>2
  <2> QED BY <1>2, <2>1, <2>2
<1>8. Advances({r})
  <2>1. mem'[r] \in {row, new} /\ \A q \in TaskRuns \ {r} : mem'[q] = mem[q]
    BY <1>0, <1>2 DEF Memory
  <2>2. mem[r].mark \in Nat /\ mem[r].latest \in Nat
    BY <1>1, LifecycleConstants DEF Rows
  <2> QED BY <1>5, <1>6, <2>1, <2>2 DEF Advances
<1> QED BY <1>2, <1>7, <1>8, MemoryWritten

\* Closing a run or reopening it moves its state and its execution only.
LEMMA StateMoves ==
    ASSUME NEW row \in Rows
    PROVE  /\ Alive(row) \in Rows /\ Left(row) \in Rows
           /\ Inferred([row EXCEPT !.execution = "ended"]) \in Rows
           /\ \A new \in {Alive(row), Left(row), Inferred([row EXCEPT !.execution = "ended"])} :
                 new.mark = row.mark /\ new.end = row.end /\ new.latest = row.latest
           /\ row.state # "merged" => Alive(row).state \notin Gone
           /\ row.state \notin Gone => Left(row).state \notin Gone
           /\ row.state \notin Gone =>
                 Inferred([row EXCEPT !.execution = "ended"]).state \notin Gone
BY DEF Alive, Left, Inferred, Rows, States, Executions, Gone

LEMMA ExecutionEndsStep ==
    ASSUME LifecycleInv, NEW r \in TaskRuns, ExecutionEnds(r)
    PROVE  Kept /\ Advances({r})
<1> DEFINE row == Inferred([mem[r] EXCEPT !.execution = "ended"])
<1>0. Memory /\ Ledger /\ Owed /\ Control
  BY Parted
<1>1. mem[r] \in Rows /\ heard[r] \in SUBSET Marked /\ Grounded(mem[r], heard[r])
  BY <1>0 DEF Memory
<1>2. /\ mem' = [mem EXCEPT ![r] = row] /\ UNCHANGED heard /\ WriteRows({r})
      /\ UNCHANGED <<owed, drain, degraded, budget>>
  BY Zenon DEF ExecutionEnds
<1>3. mem[r].state \notin Gone
  BY <1>1 DEF ExecutionEnds, Grounded, Blank
<1>4. row \in Rows /\ row.mark = mem[r].mark /\ row.end = mem[r].end /\ row.state \notin Gone
      /\ row.latest = mem[r].latest
  BY <1>1, <1>3, StateMoves
<1> HIDE DEF row
<1>5. Grounded(row, heard[r])
  BY <1>1, <1>4, SameRegister
<1>6. Memory' /\ mem'[r].state \notin Gone /\ \A q \in TaskRuns : heard[q] \subseteq heard'[q]
  BY <1>0, <1>2, <1>4, <1>5 DEF Memory
<1>7. Advances({r})
  <2>1. mem'[r] = row /\ \A q \in TaskRuns \ {r} : mem'[q] = mem[q]
    BY <1>0, <1>2 DEF Memory
  <2>2. mem[r].mark \in Nat /\ mem[r].latest \in Nat
    BY <1>1, LifecycleConstants DEF Rows
  <2> QED BY <1>4, <2>1, <2>2 DEF Advances
<1> QED BY <1>2, <1>6, <1>7, MemoryWritten

LEMMA SnapshotStep ==
    ASSUME LifecycleInv, NEW alive \in SUBSET TaskRuns, NEW now \in Times, Snapshot(alive, now)
    PROVE  Kept /\ Advances({q \in TaskRuns : mem'[q].execution # "none"})
<1> DEFINE news(q) == IF q \in alive
                      THEN IF Reopens(mem[q]) THEN {Evidence(now, now, "open")} ELSE {}
                      ELSE IF mem[q].execution # "none" /\ HistoryCloses(mem[q])
                           THEN {Evidence(mem[q].latest, now, "unknown")} ELSE {}
           base(q) == IF q \in alive THEN Alive(mem[q])
                      ELSE IF mem[q].execution # "none" THEN Left(mem[q]) ELSE mem[q]
           new(q)  == IF news(q) = {} THEN base(q)
                      ELSE ApplyNativeLifecycle(base(q), CHOOSE e \in news(q) : TRUE)
           runs    == {q \in TaskRuns : mem'[q].execution # "none"}
<1>0. Memory /\ Ledger /\ Owed /\ Control
  BY Parted
<1>1. /\ mem' = [q \in TaskRuns |-> new(q)]
      /\ heard' = [q \in TaskRuns |-> heard[q] \cup news(q)]
      /\ WriteRows(runs) /\ Used("evidence") /\ UNCHANGED <<owed, drain, degraded>>
  BY Zenon DEF Snapshot
<1>2. ASSUME NEW q \in TaskRuns
      PROVE  /\ mem'[q] \in Rows /\ heard'[q] \in SUBSET Marked /\ Grounded(mem'[q], heard'[q])
             /\ heard[q] \subseteq heard'[q]
             /\ mem'[q].mark >= mem[q].mark /\ mem'[q].latest = mem[q].latest
             /\ mem'[q].execution = "none" => mem'[q] = mem[q]
  <2>0. mem[q] \in Rows /\ heard[q] \in SUBSET Marked /\ Grounded(mem[q], heard[q])
    BY <1>0 DEF Memory
  <2>1. /\ base(q) \in Rows /\ Grounded(base(q), heard[q])
        /\ base(q).mark = mem[q].mark /\ base(q).latest = mem[q].latest
    <3>1. CASE q \in alive
      <4>1. mem[q].state # "merged"
        BY <3>1 DEF Snapshot
      <4>2. base(q) = Alive(mem[q])
        BY <3>1
      <4> QED BY <2>0, <4>1, <4>2, StateMoves, SameRegister
    <3>2. CASE q \notin alive /\ mem[q].execution # "none"
      <4>1. mem[q].state \notin Gone
        BY <2>0, <3>2 DEF Grounded, Blank
      <4>2. base(q) = Left(mem[q])
        BY <3>2
      <4> QED BY <2>0, <4>1, <4>2, StateMoves, SameRegister
    <3>3. CASE q \notin alive /\ mem[q].execution = "none"
      BY <2>0, <3>3
    <3> QED BY <3>1, <3>2, <3>3
  <2>2. \/ news(q) = {}
        \/ base(q).state \notin Gone /\ \E e \in Marked : news(q) = {e}
    <3>1. CASE q \in alive
      <4>1. mem[q].state # "merged" /\ base(q) = Alive(mem[q])
        BY <3>1 DEF Snapshot
      <4>2. Evidence(now, now, "open") \in Marked
        BY MarksAreEvidence, LifecycleConstants DEF Times, Ends
      <4>3. Alive(mem[q]).state \notin Gone
        BY <2>0, <4>1, StateMoves
      <4> QED BY <3>1, <4>1, <4>2, <4>3
    <3>2. CASE q \notin alive /\ mem[q].execution # "none"
      <4>1. mem[q].state \notin Gone /\ base(q) = Left(mem[q])
        BY <2>0, <3>2 DEF Grounded, Blank
      <4>2. Evidence(mem[q].latest, now, "unknown") \in Marked
        BY <2>0, MarksAreEvidence DEF Rows, Ends
      <4>3. Left(mem[q]).state \notin Gone
        BY <2>0, <4>1, StateMoves
      <4> QED BY <3>2, <4>1, <4>2, <4>3
    <3>3. CASE q \notin alive /\ mem[q].execution = "none"
      BY <3>3
    <3> QED BY <3>1, <3>2, <3>3
  <2>3. mem'[q] = new(q) /\ heard'[q] = heard[q] \cup news(q)
    BY <1>1
  <2>4. base(q).execution = "none" => base(q) = mem[q] /\ news(q) = {}
    BY <2>0 DEF Alive, Left, Inferred, Rows
  <2>5. mem[q].mark \in Nat
    BY <2>0 DEF Rows
  <2> HIDE DEF news, base
  <2>6. CASE news(q) = {}
    BY <2>0, <2>1, <2>3, <2>4, <2>5, <2>6
  <2>7. CASE base(q).state \notin Gone /\ \E e \in Marked : news(q) = {e}
    <3>1. PICK e \in Marked : news(q) = {e}
      BY <2>7
    <3>2. (CHOOSE f \in news(q) : TRUE) = e
      BY <3>1
    <3>3. new(q) = ApplyNativeLifecycle(base(q), e)
      BY <3>1, <3>2
    <3> HIDE DEF new
    <3>4. /\ new(q) \in Rows /\ new(q).state = base(q).state
          /\ Answers(Register(new(q)), heard[q] \cup {e})
          /\ new(q).mark >= base(q).mark /\ new(q).latest = base(q).latest
          /\ new(q).execution = base(q).execution
      <4>1. PICK b \in Rows : b = base(q)
        BY <2>1
      <4>2. PICK E \in SUBSET Marked : E = heard[q]
        BY <2>0
      <4>3. Answers(Register(b), E)
        BY <2>1, <4>1, <4>2 DEF Grounded
      <4>4. LET n == ApplyNativeLifecycle(b, e)
            IN  /\ n \in Rows /\ n.state = b.state /\ Answers(Register(n), E \cup {e})
                /\ n.mark >= b.mark /\ n.latest = b.latest /\ n.execution = b.execution
        BY <4>3, ApplyKeepsNewest
      <4> QED BY <3>3, <4>1, <4>2, <4>4
    <3>5. /\ mem'[q] \in Rows /\ heard'[q] \in SUBSET Marked /\ Grounded(mem'[q], heard'[q])
          /\ heard[q] \subseteq heard'[q]
      BY <2>0, <2>3, <2>7, <3>1, <3>4 DEF Grounded
    <3>6. /\ mem'[q].mark >= mem[q].mark /\ mem'[q].latest = mem[q].latest
          /\ mem'[q].execution # "none"
      BY <2>1, <2>3, <2>4, <3>1, <3>4
    <3> QED BY <3>5, <3>6
  <2> QED BY <2>2, <2>6, <2>7
<1> HIDE DEF news, new
<1>3. mem' \in [TaskRuns -> Rows] /\ heard' \in [TaskRuns -> SUBSET Marked]
  BY <1>1, <1>2
<1>4. Memory' /\ \A q \in TaskRuns : heard[q] \subseteq heard'[q]
  BY <1>2, <1>3 DEF Memory
<1>5. \A q \in runs : mem'[q].state \notin Gone
  BY <1>2 DEF Grounded, Blank
<1>6. Advances(runs)
  <2>1. \A q \in runs : mem'[q].mark >= mem[q].mark /\ mem'[q].latest >= mem[q].latest
    BY <1>0, <1>2, LifecycleConstants DEF Memory, Rows
  <2>2. \A q \in TaskRuns \ runs : mem'[q] = mem[q]
    BY <1>2
  <2> HIDE DEF runs
  <2> QED BY <1>5, <2>1, <2>2 DEF Advances
<1>7. runs \in SUBSET TaskRuns
  OBVIOUS
<1>8. Kept
  <2> HIDE DEF runs
  <2> QED BY <1>1, <1>4, <1>5, <1>7, MemoryWritten
<1> QED BY <1>6, <1>8

\* What is left of an absorbed run.
LEMMA BlankRow ==
    LET absent == [NoRow EXCEPT !.state = "merged"]
    IN  /\ NoRow \in Rows /\ Grounded(NoRow, {})
        /\ absent \in Rows /\ Grounded(absent, {})
<1>1. NoRow \in Rows
  <2>1. 0 \in 0 .. MaxTime
    BY LifecycleConstants
  <2> QED BY <2>1 DEF NoRow, Rows, States, Executions, Ends
<1>2. Blank(NoRow)
  BY DEF NoRow, Blank
<1>3. ASSUME NEW row \in Rows, Blank(row)
      PROVE  /\ [row EXCEPT !.state = "merged"] \in Rows
             /\ Blank([row EXCEPT !.state = "merged"])
  BY <1>3 DEF Rows, States, Blank
<1>4. ASSUME NEW row \in Rows, Blank(row) PROVE Grounded(row, {})
  BY <1>4 DEF Grounded, Answers, Register, Blank
<1> QED BY <1>1, <1>2, <1>3, <1>4

LEMMA MergeStep ==
    ASSUME LifecycleInv, NEW s \in TaskRuns, NEW a \in TaskRuns, Merge(s, a)
    PROVE  Kept
<1> DEFINE directed == mem[s].state = "running" /\ mem[a].state \in {"directed", "final"}
           joined   == Folded(mem[s], mem[a], FALSE)
           folded   == [joined EXCEPT !.state = IF directed THEN "directed" ELSE @]
           absent   == [NoRow EXCEPT !.state = "merged"]
           covered  == drain.final /\ drain.runs \cap {s, a} # {}
           refused  == db[s].state \in Gone \/ db[a].state \in Gone
           stored   == UpsertTaskRunV6(Folded(db[s], db[a], covered), folded)
<1>0. Memory /\ Ledger /\ Owed /\ Control
  BY Parted
<1>1. /\ mem[s] \in Rows /\ heard[s] \in SUBSET Marked /\ Grounded(mem[s], heard[s])
      /\ mem[a] \in Rows /\ heard[a] \in SUBSET Marked /\ Grounded(mem[a], heard[a])
      /\ db[s] \in Rows /\ kept[s] \in SUBSET Marked /\ Grounded(db[s], kept[s])
      /\ db[a] \in Rows /\ kept[a] \in SUBSET Marked /\ Grounded(db[a], kept[a])
      /\ s # a /\ mem[s].state \notin Gone /\ mem[a].state \notin Gone
  BY <1>0 DEF Memory, Ledger, Merge
<1>2. /\ mem' = [mem EXCEPT ![s] = folded, ![a] = absent]
      /\ heard' = [heard EXCEPT ![s] = heard[s] \cup heard[a], ![a] = {}]
      /\ IF degraded \/ refused THEN UNCHANGED <<db, kept, drain>>
         ELSE /\ db' = [db EXCEPT ![s] = stored, ![a] = absent]
              /\ kept' = [kept EXCEPT ![s] = kept[s] \cup kept[a] \cup heard'[s], ![a] = {}]
              /\ drain' = [drain EXCEPT !.runs =
                    IF a \in drain.runs THEN (drain.runs \ {a}) \cup {s} ELSE drain.runs]
      /\ degraded' = (degraded \/ refused) /\ UNCHANGED <<owed, budget>>
  BY <1>0 DEF Merge, Memory, Ledger
<1>3. absent \in Rows /\ Grounded(absent, {})
  BY BlankRow
<1> HIDE DEF absent, covered
<1>4. folded \in Rows /\ folded.state \notin Gone /\ Grounded(folded, heard[s] \cup heard[a])
  <2>1. /\ joined \in Rows /\ Answers(Register(joined), heard[s] \cup heard[a])
        /\ joined.state = mem[s].state
    BY <1>1, FoldKeepsNewest DEF Grounded
  <2> HIDE DEF joined
  <2>2. /\ folded \in Rows /\ folded.mark = joined.mark /\ folded.end = joined.end
        /\ folded.state \notin Gone
    BY <1>1, <2>1 DEF Rows, States, Gone
  <2> QED BY <2>1, <2>2 DEF Grounded, Register
<1> HIDE DEF folded
<1>5. heard'[s] = heard[s] \cup heard[a]
  BY <1>0, <1>1, <1>2 DEF Memory
<1>6. Memory'
  <2>1. mem' \in [TaskRuns -> Rows] /\ heard' \in [TaskRuns -> SUBSET Marked]
    BY <1>0, <1>1, <1>2, <1>3, <1>4 DEF Memory
  <2>2. ASSUME NEW q \in TaskRuns PROVE Grounded(mem'[q], heard'[q])
    BY <1>0, <1>1, <1>2, <1>3, <1>4 DEF Memory
  <2> QED BY <2>1, <2>2 DEF Memory
<1>7. ~(degraded \/ refused) =>
         stored \in Rows /\ Grounded(stored, kept[s] \cup kept[a] \cup heard'[s])
  <2> SUFFICES ASSUME ~refused
               PROVE  stored \in Rows /\ Grounded(stored, kept[s] \cup kept[a] \cup heard'[s])
    OBVIOUS
  <2> DEFINE old == Folded(db[s], db[a], covered)
  <2>1. covered \in BOOLEAN
    BY DEF covered
  <2>2. old \in Rows /\ Answers(Register(old), kept[s] \cup kept[a]) /\ old.state = db[s].state
    BY <1>1, <2>1, FoldKeepsNewest DEF Grounded
  <2> HIDE DEF old
  <2>3. Grounded(old, kept[s] \cup kept[a])
    BY <2>2 DEF Grounded
  <2>4. stored = UpsertTaskRunV6(old, folded)
    BY DEF old
  <2> HIDE DEF stored
  <2> QED BY <1>1, <1>4, <1>5, <2>2, <2>3, <2>4, UpsertKeepsNewest
<1> HIDE DEF stored
<1>8. Ledger' /\ drain' \in Drains
  <2>1. CASE degraded \/ refused
    BY <1>0, <1>2, <2>1 DEF Ledger, Control
  <2>2. CASE ~(degraded \/ refused)
    <3>0. /\ db' = [db EXCEPT ![s] = stored, ![a] = absent]
          /\ kept' = [kept EXCEPT ![s] = kept[s] \cup kept[a] \cup heard'[s], ![a] = {}]
          /\ drain' = [drain EXCEPT !.runs =
                IF a \in drain.runs THEN (drain.runs \ {a}) \cup {s} ELSE drain.runs]
      BY <1>2, <2>2
    <3>1. stored \in Rows /\ Grounded(stored, kept[s] \cup kept[a] \cup heard'[s])
      BY <1>7, <2>2
    <3>2. db' \in [TaskRuns -> Rows] /\ kept' \in [TaskRuns -> SUBSET Marked]
      BY <1>0, <1>1, <1>3, <1>5, <3>0, <3>1 DEF Ledger
    <3>3. ASSUME NEW q \in TaskRuns PROVE Grounded(db'[q], kept'[q])
      BY <1>0, <1>1, <1>3, <3>0, <3>1 DEF Ledger
    <3>4. drain' \in Drains
      BY <1>0, <3>0 DEF Control, Drains
    <3> QED BY <3>2, <3>3, <3>4 DEF Ledger
  <2> QED BY <2>1, <2>2
<1>9. Lasting!Unite
  <2>1. \/ kept' = kept
        \/ kept' = [kept EXCEPT ![s] = @ \cup kept[a] \cup heard[s] \cup heard[a], ![a] = {}]
    BY <1>0, <1>2, <1>5 DEF Ledger
  <2>2. heard' = [heard EXCEPT ![s] = @ \cup heard[a], ![a] = {}]
    BY <1>2
  <2> QED BY <1>1, <2>1, <2>2 DEF Lasting!Unite
<1>10. Owed' /\ Control'
  BY <1>0, <1>2, <1>8 DEF Owed, Control
<1> QED BY <1>6, <1>8, <1>9, <1>10, InvariantParts DEF Kept, AbstractStep

\* The page of a finalized drain replaces what memory has of the runs it names.
LEMMA PageApplies ==
    ASSUME Memory, NEW rows \in [TaskRuns -> Rows], NEW ledger \in [TaskRuns -> SUBSET Marked],
           \A r \in TaskRuns : Grounded(rows[r], ledger[r]), ApplyPage(rows, ledger)
    PROVE  Memory' /\ \A r \in TaskRuns : heard'[r] \in {heard[r], ledger[r]}
<1> DEFINE page == {r \in drain.runs : mem[r].state \notin Gone}
           new(r) == [mem[r] EXCEPT !.mark = rows[r].mark, !.end = rows[r].end,
                                    !.ready = rows[r].ready, !.latest = rows[r].latest]
<1>1. /\ mem' = [r \in TaskRuns |-> IF r \in page THEN new(r) ELSE mem[r]]
      /\ heard' = [r \in TaskRuns |-> IF r \in page THEN ledger[r] ELSE heard[r]]
  BY Zenon DEF ApplyPage
<1>2. ASSUME NEW r \in TaskRuns
      PROVE  mem'[r] \in Rows /\ heard'[r] \in SUBSET Marked /\ Grounded(mem'[r], heard'[r])
  <2>0. /\ mem[r] \in Rows /\ heard[r] \in SUBSET Marked /\ Grounded(mem[r], heard[r])
        /\ rows[r] \in Rows /\ ledger[r] \in SUBSET Marked /\ Grounded(rows[r], ledger[r])
    BY DEF Memory
  <2>1. CASE r \in page
    <3>1. mem'[r] = new(r) /\ heard'[r] = ledger[r] /\ mem[r].state \notin Gone
      BY <1>1, <2>1
    <3>2. /\ new(r) \in Rows /\ new(r).mark = rows[r].mark /\ new(r).end = rows[r].end
          /\ new(r).state = mem[r].state
      BY <2>0 DEF Rows
    <3> HIDE DEF new
    <3> QED BY <2>0, <3>1, <3>2 DEF Grounded, Register
  <2>2. CASE r \notin page
    BY <1>1, <2>0, <2>2
  <2> QED BY <2>1, <2>2
<1>3. mem' \in [TaskRuns -> Rows] /\ heard' \in [TaskRuns -> SUBSET Marked]
  BY <1>1, <1>2
<1> QED BY <1>1, <1>2, <1>3 DEF Memory

LEMMA FinalizeStep ==
    ASSUME LifecycleInv, NEW seen \in Times, Finalize(seen)
    PROVE  Kept
<1> DEFINE closed(r) == ClosedByFinalization(db[r], seen)
           rows == [r \in TaskRuns |->
                      IF r \in drain.runs THEN [closed(r) EXCEPT !.ready = TRUE] ELSE db[r]]
           ledger == [r \in TaskRuns |->
                      IF r \in drain.runs /\ closed(r) # db[r]
                      THEN kept[r] \cup {[mark |-> closed(r).mark, end |-> closed(r).end]}
                      ELSE kept[r]]
<1>0. Memory /\ Ledger /\ Owed /\ Control
  BY Parted
<1>1. /\ db' = rows /\ kept' = ledger /\ UNCHANGED owed
      /\ \/ /\ ApplyPage(rows, ledger)
            /\ drain' = [drain EXCEPT !.final = TRUE] /\ UNCHANGED <<degraded, budget>>
         \/ /\ Used("outages") /\ degraded' = TRUE
            /\ drain' = [drain EXCEPT !.final = TRUE, !.due = TRUE] /\ UNCHANGED <<mem, heard>>
  BY Zenon DEF Finalize
<1>2. ASSUME NEW r \in TaskRuns
      PROVE  /\ rows[r] \in Rows /\ ledger[r] \in SUBSET Marked /\ Grounded(rows[r], ledger[r])
             /\ kept[r] \subseteq ledger[r]
  <2>0. db[r] \in Rows /\ kept[r] \in SUBSET Marked /\ Grounded(db[r], kept[r])
    BY <1>0 DEF Ledger
  <2>1. CASE r \in drain.runs
    <3> DEFINE new  == [closed(r) EXCEPT !.ready = TRUE]
               news == IF closed(r) # db[r]
                       THEN kept[r] \cup {[mark |-> closed(r).mark, end |-> closed(r).end]}
                       ELSE kept[r]
    <3>1. /\ closed(r) \in Rows /\ news \in SUBSET Marked /\ Grounded(closed(r), news)
          /\ closed(r).state = db[r].state
      BY <2>0, CloseKeepsNewest, ZenonT(40)
    <3>2. rows[r] = new /\ ledger[r] = news
      BY <2>1
    <3>3. kept[r] \subseteq news
      OBVIOUS
    <3> HIDE DEF closed, rows, ledger, news
    <3>4. /\ new \in Rows /\ new.mark = closed(r).mark /\ new.end = closed(r).end
          /\ new.state = closed(r).state /\ new.latest = closed(r).latest
          /\ new.execution = closed(r).execution
      BY <3>1 DEF Rows
    <3> HIDE DEF new
    <3>5. Grounded(new, news)
      BY <3>1, <3>4 DEF Grounded, Register, Blank
    <3> QED BY <3>1, <3>2, <3>3, <3>4, <3>5
  <2>2. CASE r \notin drain.runs
    BY <2>0, <2>2
  <2> QED BY <2>1, <2>2
<1>3. rows \in [TaskRuns -> Rows] /\ ledger \in [TaskRuns -> SUBSET Marked]
  BY <1>2
<1> HIDE DEF rows, ledger
<1>4. Ledger'
  BY <1>1, <1>2, <1>3 DEF Ledger
<1>5. Memory' /\ \A r \in TaskRuns : heard'[r] \in {heard[r], kept'[r]}
  <2>1. CASE ApplyPage(rows, ledger)
    BY <1>0, <1>1, <1>2, <1>3, <2>1, PageApplies
  <2>2. CASE UNCHANGED <<mem, heard>>
    BY <1>0, <2>2 DEF Memory
  <2> QED BY <1>1, <2>1, <2>2
<1>6. Control'
  <2>1. CASE drain' = [drain EXCEPT !.final = TRUE] /\ UNCHANGED <<degraded, budget>>
    BY <1>0, <2>1 DEF Control, Drains
  <2>2. CASE /\ Used("outages") /\ degraded' = TRUE
             /\ drain' = [drain EXCEPT !.final = TRUE, !.due = TRUE]
    <3>1. budget' \in [evidence : Nat, outages : Nat]
      BY <1>0, <2>2, BudgetUsed
    <3>2. drain' \in Drains
      BY <1>0, <2>2 DEF Control, Drains
    <3> QED BY <2>2, <3>1, <3>2 DEF Control
  <2> QED BY <1>1, <2>1, <2>2
<1>7. Owed'
  BY <1>0, <1>1 DEF Owed
<1>8. Lasting!Settle
  BY <1>1, <1>2, <1>5 DEF Lasting!Settle
<1> QED BY <1>4, <1>5, <1>6, <1>7, <1>8, InvariantParts DEF Kept, AbstractStep

LEMMA RetryPageStep ==
    ASSUME LifecycleInv, RetryPage
    PROVE  Kept
<1>0. Memory /\ Ledger /\ Owed /\ Control
  BY Parted
<1>1. /\ ApplyPage(db, kept) /\ drain' = [drain EXCEPT !.due = FALSE]
      /\ UNCHANGED <<db, owed, degraded, budget, kept>>
  BY DEF RetryPage
<1>2. Memory' /\ \A r \in TaskRuns : heard'[r] \in {heard[r], kept[r]}
  BY <1>0, <1>1, PageApplies DEF Ledger
<1>3. Ledger' /\ Owed' /\ Control'
  BY <1>0, <1>1 DEF Ledger, Owed, Control, Drains
<1>4. Lasting!Settle
  BY <1>1, <1>2 DEF Lasting!Settle
<1> QED BY <1>2, <1>3, <1>4, InvariantParts DEF Kept, AbstractStep

LEMMA OutageStep ==
    ASSUME LifecycleInv, Outage \/ Recover \/ Restore
    PROVE  Kept
<1>0. Memory /\ Ledger /\ Owed /\ Control
  BY Parted
<1>1. CASE Outage
  <2>1. budget' \in [evidence : Nat, outages : Nat]
    BY <1>0, <1>1, BudgetUsed DEF Outage
  <2>2. Memory' /\ Ledger' /\ Owed' /\ Control'
    BY <1>0, <1>1, <2>1 DEF Outage, Memory, Ledger, Owed, Control
  <2>3. Lasting!Hear
    BY <1>1 DEF Outage, Lasting!Hear
  <2> QED BY <2>2, <2>3, InvariantParts DEF Kept, AbstractStep
<1>2. CASE Recover
  <2>1. Memory' /\ Ledger' /\ Owed' /\ Control'
    BY <1>0, <1>2 DEF Recover, Memory, Ledger, Owed, Control
  <2>2. Lasting!Hear
    BY <1>2 DEF Recover, Lasting!Hear
  <2> QED BY <2>1, <2>2, InvariantParts DEF Kept, AbstractStep
<1>3. CASE Restore
  <2>1. Memory' /\ Ledger' /\ Owed' /\ Control'
    BY <1>0, <1>3 DEF Restore, Memory, Ledger, Owed, Control, Drains
  <2>2. Lasting!Forget
    BY <1>3 DEF Restore, Lasting!Forget
  <2> QED BY <2>1, <2>2, InvariantParts DEF Kept, AbstractStep
<1> QED BY <1>1, <1>2, <1>3

-----------------------------------------------------------------------------
LEMMA LifecycleBegins == LifecycleInit => LifecycleInv /\ Lasting!EvidenceInit
<1> SUFFICES ASSUME LifecycleInit PROVE LifecycleInv /\ Lasting!EvidenceInit
  OBVIOUS
<1>1. NoRow \in Rows /\ Grounded(NoRow, {})
  BY BlankRow
<1>2. Memory /\ Ledger /\ Owed
  BY <1>1 DEF LifecycleInit, Memory, Ledger, Owed
<1>3. Control
  BY DEF LifecycleInit, Control, Drains
<1>4. Register(NoRow) = Lasting!Nothing
  BY DEF Register, NoRow, Lasting!Nothing
<1>5. Lasting!EvidenceInit
  BY <1>4 DEF LifecycleInit, Lasting!EvidenceInit
<1> QED BY <1>2, <1>3, <1>5, Parted

LEMMA LifecycleSteps ==
    ASSUME LifecycleInv, LifecycleNext
    PROVE  Kept
BY ObserveLiveStep, ObserveHistoricalStep, ControllerStep, SnapshotStep, ExecutionEndsStep,
   MergeStep, WriteOwedStep, RetryPageStep, OutageStep, FinalizeStep DEF LifecycleNext

LEMMA LifecycleStutters ==
    ASSUME LifecycleInv, UNCHANGED lifecycleVars
    PROVE  LifecycleInv'
BY DEF LifecycleInv, Types, Grounds, lifecycleVars

THEOREM LifecycleInvariant == LifecycleSpec => []LifecycleInv
<1>1. LifecycleInv /\ [LifecycleNext]_lifecycleVars => LifecycleInv'
  BY LifecycleSteps, LifecycleStutters DEF Kept
<1> QED BY LifecycleBegins, <1>1, PTL DEF LifecycleSpec

\* In whatever order log records, Controller events, snapshots, merges, retried batches and the
\* finalization of a drain bring evidence of the end of a session, the reducer shows the newest
\* it has heard and the row the newest that was written, nothing written is lost, and memory
\* loses evidence only by a restart or to a finalization page (reducer.rs:1689,
\* store/mod.rs:3786, reducer.rs:884): the lifecycle implements LatestEvidence.
THEOREM LifecycleImplementsLatestEvidence == LifecycleSpec => LifecycleKeepsNewest
<1>1. ASSUME LifecycleInv, LifecycleInv', LifecycleNext
      PROVE  Lasting!EvidenceNext
  <2>1. AbstractStep
    BY <1>1, LifecycleSteps DEF Kept
  <2>2. /\ [r \in TaskRuns |-> Register(mem[r])]' = [r \in TaskRuns |-> Lasting!Newest(heard'[r])]
        /\ [r \in TaskRuns |-> Register(db[r])]' = [r \in TaskRuns |-> Lasting!Newest(kept'[r])]
    <3>1. Memory' /\ Ledger'
      BY <1>1 DEF LifecycleInv, Types, Grounds, Memory, Ledger
    <3>2. ASSUME NEW r \in TaskRuns
          PROVE  /\ Register(mem'[r]) = Lasting!Newest(heard'[r])
                 /\ Register(db'[r]) = Lasting!Newest(kept'[r])
      <4>1. /\ mem'[r] \in Rows /\ heard'[r] \in SUBSET Marked
            /\ Answers(Register(mem'[r]), heard'[r])
            /\ db'[r] \in Rows /\ kept'[r] \in SUBSET Marked
            /\ Answers(Register(db'[r]), kept'[r])
        BY <3>1 DEF Memory, Ledger, Grounded
      <4> QED BY <4>1, NewestAnswers
    <3> QED BY <3>2
  <2> QED BY <2>1, <2>2 DEF Lasting!EvidenceNext, AbstractStep
<1>2. UNCHANGED lifecycleVars => UNCHANGED Lasting!evidenceVars
  BY DEF lifecycleVars, Lasting!evidenceVars
<1>3. LifecycleInv /\ LifecycleInv' /\ [LifecycleNext]_lifecycleVars
         => [Lasting!EvidenceNext]_(Lasting!evidenceVars)
  BY <1>1, <1>2
<1> QED BY LifecycleBegins, LifecycleInvariant, <1>3, PTL
        DEF LifecycleSpec, LifecycleKeepsNewest, Lasting!EvidenceSpec

-----------------------------------------------------------------------------
(* Memory and the ledger, while no write was skipped or lost.              *)

Same(row, stored) ==
    /\ stored.mark = row.mark /\ stored.end = row.end /\ stored.latest = row.latest
    /\ stored.state \in Gone <=> row.state \in Gone

Settled(r) == \A b \in owed : b.run # r

\* At most one batch waits, and it has the row of the reducer, which is ahead of the store.
InStep ==
    budget.outages = 0 =>
        /\ ~degraded
        /\ \A b, c \in owed : b = c
        /\ \A b \in owed : /\ b.row = mem[b.run]
                           /\ db[b.run].mark <= b.row.mark /\ db[b.run].latest <= b.row.latest
        /\ \A r \in TaskRuns : Settled(r) => Same(mem[r], db[r])

\* The store takes what a reducer that is ahead of it writes.
LEMMA UpsertAgrees ==
    ASSUME NEW old \in Rows, NEW new \in Rows, NEW K \in SUBSET Marked, NEW H \in SUBSET Marked,
           Grounded(old, K), Grounded(new, H), new.state \notin Gone,
           old.mark <= new.mark, old.latest <= new.latest
    PROVE  Same(new, UpsertTaskRunV6(old, new))
<1> DEFINE row == UpsertTaskRunV6(old, new)
<1>1. CASE old.state \in Gone
  BY <1>1 DEF UpsertTaskRunV6, Same
<1>2. CASE old.state \notin Gone
  <2> DEFINE top == IF old.mark >= new.mark THEN old ELSE new
  <2>1. /\ row.mark = top.mark /\ row.end = top.end
        /\ row.latest = IF new.latest < old.latest THEN old.latest ELSE new.latest
    BY <1>2, UpsertRow
  <2>2. row.state \notin Gone
    BY <1>2, UpsertRow
  <2> HIDE DEF row
  <2>3. row.latest = new.latest
    BY <2>1 DEF Rows
  <2>4. top.mark = new.mark /\ top.end = new.end
    <3>1. CASE old.mark >= new.mark
      <4>1. old.mark = new.mark
        BY <3>1 DEF Rows
      <4>2. old.end = new.end
        BY <4>1, MarksDecide DEF Grounded
      <4> QED BY <3>1, <4>1, <4>2
    <3>2. CASE ~(old.mark >= new.mark)
      BY <3>2
    <3> QED BY <3>1, <3>2
  <2> QED BY <2>1, <2>2, <2>3, <2>4 DEF Same, row
<1> QED BY <1>1, <1>2

\* Memory that is ahead of the store in the rows that are written, and as it was in the others.
LEMMA RowsAgree ==
    ASSUME LifecycleInv, LifecycleInv', InStep, owed = {}, budget.outages = 0,
           UNCHANGED <<owed, degraded>>,
           NEW runs \in SUBSET TaskRuns, WriteRows(runs),
           Advances(runs)
    PROVE  InStep'
<1>0. Memory /\ Ledger /\ Memory' /\ Ledger'
  BY DEF LifecycleInv, Types, Grounds, Memory, Ledger
<1>1. ~degraded /\ \A r \in TaskRuns : Same(mem[r], db[r])
  BY DEF InStep, Settled
<1>2. db' = [r \in TaskRuns |-> IF r \in runs THEN UpsertTaskRunV6(db[r], mem'[r]) ELSE db[r]]
  BY <1>1 DEF WriteRows
<1>3. ASSUME NEW r \in TaskRuns PROVE Same(mem'[r], db'[r])
  <2>1. CASE r \in runs
    <3>1. db'[r] = UpsertTaskRunV6(db[r], mem'[r])
      BY <1>2, <2>1
    <3>2. /\ mem[r] \in Rows /\ db[r] \in Rows /\ mem'[r] \in Rows
          /\ kept[r] \in SUBSET Marked /\ Grounded(db[r], kept[r])
          /\ heard'[r] \in SUBSET Marked /\ Grounded(mem'[r], heard'[r])
      BY <1>0 DEF Memory, Ledger
    <3>3. db[r].mark <= mem'[r].mark /\ db[r].latest <= mem'[r].latest
      BY <1>1, <2>1, <3>2 DEF Same, Rows, Advances
    <3>4. mem'[r].state \notin Gone
      BY <2>1 DEF Advances
    <3> QED BY <3>1, <3>2, <3>3, <3>4, UpsertAgrees
  <2>2. CASE r \notin runs
    <3>1. /\ mem'[r].mark = mem[r].mark /\ mem'[r].end = mem[r].end
          /\ mem'[r].latest = mem[r].latest
          /\ mem'[r].state \in Gone <=> mem[r].state \in Gone
      BY <2>2 DEF Advances
    <3>2. db'[r] = db[r] /\ Same(mem[r], db[r])
      BY <1>1, <1>2, <2>2
    <3> QED BY <3>1, <3>2 DEF Same
  <2> QED BY <2>1, <2>2
<1> QED BY <1>1, <1>3 DEF InStep

\* What is written in a step of InStep, when no outage was used.
LEMMA NoOutage ==
    ASSUME LifecycleInv, LifecycleNext, budget'.outages = 0
    PROVE  budget.outages = 0
<1>1. budget \in [evidence : Nat, outages : Nat]
  BY DEF LifecycleInv, Types
<1>2. \/ UNCHANGED budget \/ Used("evidence") \/ Used("outages")
      \/ budget'.outages \in {budget.outages, budget.outages + 1}
  <2>1. ASSUME NEW r \in TaskRuns, NEW at \in Times, NEW seen \in Times,
               NEW said \in Ends \cup {"nothing"}, ObserveLive(r, said, at, seen)
        PROVE  budget'.outages \in {budget.outages, budget.outages + 1}
    <3> DEFINE outages == IF degraded' /\ ~degraded THEN budget.outages + 1 ELSE budget.outages
    <3>1. budget' = [budget EXCEPT !.evidence = budget.evidence + 1, !.outages = outages]
      BY <2>1, Zenon DEF ObserveLive
    <3>2. outages \in {budget.outages, budget.outages + 1}
      BY Zenon
    <3> HIDE DEF outages
    <3>3. budget'.outages = outages
      BY <1>1, <3>1
    <3> QED BY <3>2, <3>3
  <2>2. ASSUME NEW r \in TaskRuns, NEW at \in Times, NEW seen \in Times,
               NEW said \in Ends \cup {"nothing"}, ObserveHistorical(r, said, at, seen)
        PROVE  Used("evidence")
    BY <2>2, Zenon DEF ObserveHistorical
  <2>3. ASSUME NEW r \in TaskRuns, NEW at \in Times, NEW seen \in Times,
               NEW event \in {"task_started", "session_ended", "complete"},
               Controller(r, event, at, seen)
        PROVE  Used("evidence")
    BY <2>3, Zenon DEF Controller
  <2>4. ASSUME NEW alive \in SUBSET TaskRuns, NEW now \in Times, Snapshot(alive, now)
        PROVE  Used("evidence")
    BY <2>4, Zenon DEF Snapshot
  <2>5. ASSUME NEW r \in TaskRuns, ExecutionEnds(r) PROVE UNCHANGED budget
    BY <2>5, Zenon DEF ExecutionEnds
  <2>6. ASSUME NEW s \in TaskRuns, NEW a \in TaskRuns, Merge(s, a) PROVE UNCHANGED budget
    BY <2>6, Zenon DEF Merge
  <2>7. ASSUME NEW seen \in Times, Finalize(seen) PROVE UNCHANGED budget \/ Used("outages")
    BY <2>7, Zenon DEF Finalize
  <2>8. WriteOwed \/ RetryPage \/ Recover \/ Restore => UNCHANGED budget
    BY Zenon DEF WriteOwed, RetryPage, Recover, Restore
  <2>9. Outage => Used("outages")
    BY DEF Outage
  <2> QED BY <2>1, <2>2, <2>3, <2>4, <2>5, <2>6, <2>7, <2>8, <2>9 DEF LifecycleNext
<1>3. budget'.outages \in {budget.outages, budget.outages + 1}
  BY <1>1, <1>2 DEF Used
<1> QED BY <1>1, <1>3

LEMMA WrittenInStep ==
    ASSUME LifecycleInv, LifecycleInv', InStep, budget.outages = 0, Idle,
           UNCHANGED <<owed, degraded>>,
           NEW runs \in SUBSET TaskRuns, WriteRows(runs), Advances(runs)
    PROVE  InStep'
<1>1. owed = {}
  BY DEF InStep, Idle
<1> QED BY <1>1, RowsAgree

LEMMA ObserveLiveInStep ==
    ASSUME LifecycleInv, InStep, budget.outages = 0, budget'.outages = 0,
           NEW r \in TaskRuns, NEW at \in Times, NEW seen \in Times,
           NEW said \in Ends \cup {"nothing"}, ObserveLive(r, said, at, seen)
    PROVE  InStep'
<1> DEFINE row  == Observed(mem[r], said, at, seen)
           pub  == [row EXCEPT !.ready = TRUE]
           news == heard[r] \cup Told(said, at, seen)
<1>0. Memory /\ Ledger /\ Owed /\ Control
  BY Parted
<1>1. mem[r] \in Rows /\ heard[r] \in SUBSET Marked /\ Grounded(mem[r], heard[r])
  BY <1>0 DEF Memory
<1>2. /\ row \in Rows /\ news \in SUBSET Marked /\ row.state \notin Gone /\ Grounded(row, news)
      /\ row.mark >= mem[r].mark /\ row.latest >= mem[r].latest
  <2>1. mem[r].state # "merged"
    BY DEF ObserveLive
  <2> QED BY <1>1, <2>1, ObservedRow
<1>3. owed = {} /\ ~degraded /\ UNCHANGED owed
  BY DEF ObserveLive, InStep
<1>4. ~degraded'
  <2> DEFINE outages == IF degraded' /\ ~degraded THEN budget.outages + 1 ELSE budget.outages
  <2>1. budget' = [budget EXCEPT !.evidence = budget.evidence + 1, !.outages = outages]
    BY Zenon DEF ObserveLive
  <2>2. budget'.outages = outages
    <3> HIDE DEF outages
    <3> QED BY <1>0, <2>1 DEF Control
  <2> QED BY <1>3, <2>2
<1>5. /\ mem' = [mem EXCEPT ![r] = pub] /\ UNCHANGED degraded
      /\ db' = [db EXCEPT ![r] = UpsertTaskRunV6(@, pub)]
  BY <1>4, Zenon DEF ObserveLive
<1> HIDE DEF row, news
<1>6. /\ pub \in Rows /\ pub.state \notin Gone /\ Grounded(pub, news)
      /\ pub.mark = row.mark /\ pub.latest = row.latest
  <2>1. /\ pub \in Rows /\ pub.state = row.state /\ pub.mark = row.mark /\ pub.end = row.end
        /\ pub.latest = row.latest
    BY <1>2 DEF Rows
  <2> QED BY <1>2, <2>1, SameRegister
<1> HIDE DEF pub
<1>7. \A q \in TaskRuns : Same(mem[q], db[q])
  BY <1>3 DEF InStep, Settled
<1>8. ASSUME NEW q \in TaskRuns PROVE Same(mem'[q], db'[q])
  <2>1. CASE q = r
    <3>1. db[r] \in Rows /\ kept[r] \in SUBSET Marked /\ Grounded(db[r], kept[r])
      BY <1>0 DEF Ledger
    <3>2. db[r].mark <= pub.mark /\ db[r].latest <= pub.latest
      BY <1>1, <1>2, <1>6, <1>7, <3>1 DEF Same, Rows
    <3>3. mem'[q] = pub /\ db'[q] = UpsertTaskRunV6(db[r], pub)
      BY <1>0, <1>5, <2>1 DEF Memory, Ledger
    <3> QED BY <1>2, <1>6, <3>1, <3>2, <3>3, UpsertAgrees
  <2>2. CASE q # r
    BY <1>0, <1>5, <1>7, <2>2 DEF Memory, Ledger
  <2> QED BY <2>1, <2>2
<1> QED BY <1>3, <1>4, <1>8 DEF InStep

LEMMA ObserveHistoricalInStep ==
    ASSUME LifecycleInv, InStep, budget.outages = 0,
           NEW r \in TaskRuns, NEW at \in Times, NEW seen \in Times,
           NEW said \in Ends \cup {"nothing"}, ObserveHistorical(r, said, at, seen)
    PROVE  InStep'
<1> DEFINE row  == Observed(mem[r], said, at, seen)
           priv == [row EXCEPT !.ready = FALSE]
           news == heard[r] \cup Told(said, at, seen)
<1>0. Memory /\ Ledger /\ Owed /\ Control
  BY Parted
<1>1. mem[r] \in Rows /\ heard[r] \in SUBSET Marked /\ Grounded(mem[r], heard[r])
  BY <1>0 DEF Memory
<1>2. row \in Rows /\ row.mark >= mem[r].mark /\ row.latest >= mem[r].latest
  <2>1. mem[r].state # "merged"
    BY DEF ObserveHistorical
  <2> QED BY <1>1, <2>1, ObservedRow
<1>3. /\ mem' = [mem EXCEPT ![r] = priv] /\ owed = {}
      /\ owed' = {[run |-> r, row |-> priv, news |-> news]} /\ UNCHANGED <<db, degraded>>
  BY Zenon DEF ObserveHistorical
<1> HIDE DEF row, news
<1>4. priv.mark = row.mark /\ priv.latest = row.latest
  BY <1>2 DEF Rows
<1> HIDE DEF priv
<1>5. ~degraded /\ \A q \in TaskRuns : Same(mem[q], db[q])
  BY <1>3 DEF InStep, Settled
<1>6. db[r].mark <= priv.mark /\ db[r].latest <= priv.latest
  BY <1>1, <1>2, <1>4, <1>5 DEF Same
<1>7. mem'[r] = priv /\ \A q \in TaskRuns \ {r} : mem'[q] = mem[q]
  BY <1>0, <1>3 DEF Memory
<1>8. \A b \in owed' : b.run = r /\ b.row = priv
  BY <1>3
<1>9. \A q \in TaskRuns : Settled(q)' => q # r
  BY <1>3 DEF Settled
<1>10. \A b, c \in owed' : b = c
  BY <1>3
<1> QED BY <1>3, <1>5, <1>6, <1>7, <1>8, <1>9, <1>10 DEF InStep

LEMMA WriteOwedInStep ==
    ASSUME LifecycleInv, InStep, budget.outages = 0, WriteOwed
    PROVE  InStep'
<1>0. Memory /\ Ledger /\ Owed /\ Control
  BY Parted
<1>1. PICK b \in owed :
         /\ db' = Demoted([db EXCEPT ![b.run] = UpsertTaskRunV6(@, b.row)],
                          drain.runs \cup {b.run})
  BY DEF WriteOwed
<1>2. owed' = {} /\ UNCHANGED <<mem, degraded>>
  BY DEF WriteOwed
<1>3. /\ b.run \in TaskRuns /\ b.row \in Rows /\ b.news \in SUBSET Marked
      /\ Grounded(b.row, b.news) /\ b.row.state \notin Gone
  BY <1>0 DEF Owed, Batches
<1> DEFINE row == UpsertTaskRunV6(db[b.run], b.row)
           written == [db EXCEPT ![b.run] = row]
           blocked == drain.runs \cup {b.run}
<1>4. /\ ~degraded /\ b.row = mem[b.run]
      /\ db[b.run].mark <= b.row.mark /\ db[b.run].latest <= b.row.latest
      /\ \A q \in TaskRuns \ {b.run} : Same(mem[q], db[q])
  BY DEF InStep, Settled
<1>5. row \in Rows /\ Same(b.row, row)
  <2>1. db[b.run] \in Rows /\ kept[b.run] \in SUBSET Marked /\ Grounded(db[b.run], kept[b.run])
    BY <1>0, <1>3 DEF Ledger
  <2> QED BY <1>3, <1>4, <2>1, UpsertKeepsNewest, UpsertAgrees
<1>6. db' = [q \in TaskRuns |-> IF q \in blocked THEN [written[q] EXCEPT !.ready = FALSE]
                                ELSE written[q]]
  BY <1>1 DEF Demoted
<1> HIDE DEF row
<1>7. ASSUME NEW q \in TaskRuns PROVE written[q] \in Rows /\ Same(mem[q], written[q])
  BY <1>0, <1>3, <1>4, <1>5 DEF Ledger
<1> HIDE DEF written
<1>8. ASSUME NEW q \in TaskRuns PROVE Same(mem[q], db'[q])
  <2>1. CASE q \in blocked
    <3> DEFINE new == [written[q] EXCEPT !.ready = FALSE]
    <3>1. db'[q] = new
      BY <1>6, <2>1
    <3>2. /\ new.mark = written[q].mark /\ new.end = written[q].end
          /\ new.state = written[q].state /\ new.latest = written[q].latest
      BY <1>7 DEF Rows
    <3> HIDE DEF new
    <3> QED BY <1>7, <3>1, <3>2 DEF Same
  <2>2. CASE q \notin blocked
    BY <1>6, <1>7, <2>2
  <2> QED BY <2>1, <2>2
<1> QED BY <1>2, <1>4, <1>8 DEF InStep

\* Folding both sides the same way keeps them in step.
LEMMA FoldsAgree ==
    ASSUME NEW s \in Rows, NEW a \in Rows, NEW t \in Rows, NEW b \in Rows,
           NEW alone \in BOOLEAN, NEW covered \in BOOLEAN,
           Same(s, t), Same(a, b), t.state \notin Gone
    PROVE  LET row == Folded(s, a, alone)
               stored == Folded(t, b, covered)
           IN  /\ stored.mark = row.mark /\ stored.end = row.end /\ stored.latest = row.latest
               /\ stored.state \notin Gone
<1>1. ASSUME NEW x \in Rows, NEW y \in Rows, NEW c \in BOOLEAN
      PROVE  LET row == Folded(x, y, c)
             IN  /\ row.mark = Later(x.mark, y.mark) /\ row.latest = Later(x.latest, y.latest)
                 /\ row.end = (IF y.mark > x.mark THEN y.end ELSE x.end) /\ row.state = x.state
  <2> DEFINE ready == x.ready \/ y.ready \/ c
             execution == IF "live" \in {x.execution, y.execution} THEN "live"
                          ELSE IF "ended" \in {x.execution, y.execution} THEN "ended"
                          ELSE "none"
             end == IF y.mark > x.mark THEN y.end ELSE x.end
             row == Folded(x, y, c)
  <2>1. row = [x EXCEPT !.mark = Later(x.mark, y.mark), !.end = end, !.ready = ready,
                        !.latest = Later(x.latest, y.latest), !.execution = execution]
    BY Zenon DEF Folded
  <2> HIDE DEF ready, execution, end, row
  <2>2. /\ row.mark = Later(x.mark, y.mark) /\ row.latest = Later(x.latest, y.latest)
        /\ row.end = end /\ row.state = x.state
    BY <2>1 DEF Rows
  <2> QED BY <2>2 DEF end, row
<1> QED BY <1>1 DEF Same

LEMMA MergeInStep ==
    ASSUME LifecycleInv, LifecycleInv', InStep, budget.outages = 0, NEW s \in TaskRuns, NEW a \in TaskRuns,
           Merge(s, a)
    PROVE  InStep'
<1> DEFINE directed == mem[s].state = "running" /\ mem[a].state \in {"directed", "final"}
           joined   == Folded(mem[s], mem[a], FALSE)
           folded   == [joined EXCEPT !.state = IF directed THEN "directed" ELSE @]
           absent   == [NoRow EXCEPT !.state = "merged"]
           covered  == drain.final /\ drain.runs \cap {s, a} # {}
           refused  == db[s].state \in Gone \/ db[a].state \in Gone
           old      == Folded(db[s], db[a], covered)
           stored   == UpsertTaskRunV6(old, folded)
<1>0. Memory /\ Ledger /\ Owed /\ Control
  BY Parted
<1>1. ~degraded /\ owed = {} /\ owed' = {} /\ \A q \in TaskRuns : Same(mem[q], db[q])
  BY DEF InStep, Settled, Merge, Idle
<1>2. /\ mem[s] \in Rows /\ heard[s] \in SUBSET Marked /\ Grounded(mem[s], heard[s])
      /\ mem[a] \in Rows /\ heard[a] \in SUBSET Marked /\ Grounded(mem[a], heard[a])
      /\ db[s] \in Rows /\ kept[s] \in SUBSET Marked /\ Grounded(db[s], kept[s])
      /\ db[a] \in Rows /\ kept[a] \in SUBSET Marked /\ Grounded(db[a], kept[a])
      /\ s # a /\ mem[s].state \notin Gone /\ mem[a].state \notin Gone
  BY <1>0 DEF Memory, Ledger, Merge
<1>3. ~refused
  BY <1>1, <1>2 DEF Same
<1>4. /\ mem' = [mem EXCEPT ![s] = folded, ![a] = absent]
      /\ IF degraded \/ refused THEN UNCHANGED <<db, kept, drain>>
         ELSE db' = [db EXCEPT ![s] = stored, ![a] = absent]
      /\ degraded' = (degraded \/ refused)
  <2>1. /\ mem' = [mem EXCEPT ![s] = folded, ![a] = absent]
        /\ degraded' = (degraded \/ refused)
    BY Zenon DEF Merge
  <2>2. IF degraded \/ refused THEN UNCHANGED <<db, kept, drain>>
        ELSE db' = [db EXCEPT ![s] = UpsertTaskRunV6(Folded(@, db[a], covered), folded), ![a] = absent]
    BY Zenon DEF Merge
  <2> QED BY <1>0, <2>1, <2>2 DEF Ledger
<1>5. ~degraded' /\ db' = [db EXCEPT ![s] = stored, ![a] = absent]
  BY <1>1, <1>3, <1>4
<1>6. covered \in BOOLEAN
  BY DEF covered
<1> HIDE DEF absent, covered, directed
<1>7. /\ old.mark = joined.mark /\ old.end = joined.end /\ old.latest = joined.latest
      /\ old.state \notin Gone
  <2>1. Same(mem[s], db[s]) /\ Same(mem[a], db[a]) /\ db[s].state \notin Gone /\ FALSE \in BOOLEAN
    BY <1>1, <1>3
  <2>2. PICK alone \in BOOLEAN : alone = FALSE
    OBVIOUS
  <2>3. LET row == Folded(mem[s], mem[a], alone)
            kin == Folded(db[s], db[a], covered)
        IN  /\ kin.mark = row.mark /\ kin.end = row.end /\ kin.latest = row.latest
            /\ kin.state \notin Gone
    BY <1>2, <1>6, <2>1, FoldsAgree
  <2> QED BY <2>2, <2>3, Zenon
<1>8. joined \in Rows /\ joined.state = mem[s].state
      /\ old \in Rows /\ Answers(Register(old), kept[s] \cup kept[a])
      /\ Answers(Register(joined), heard[s] \cup heard[a])
  BY <1>2, <1>6, FoldKeepsNewest DEF Grounded
<1> HIDE DEF joined, old
<1>9. /\ folded \in Rows /\ folded.mark = joined.mark /\ folded.end = joined.end
      /\ folded.latest = joined.latest /\ folded.state \notin Gone
  BY <1>2, <1>8 DEF Rows, States, Gone
<1> HIDE DEF folded
<1>10. Grounded(folded, heard[s] \cup heard[a]) /\ Grounded(old, kept[s] \cup kept[a])
  BY <1>7, <1>8, <1>9 DEF Grounded, Register
<1>11. Same(folded, stored)
  <2>1. old.mark <= folded.mark /\ old.latest <= folded.latest
    BY <1>7, <1>8, <1>9 DEF Rows
  <2>2. heard[s] \cup heard[a] \in SUBSET Marked /\ kept[s] \cup kept[a] \in SUBSET Marked
    BY <1>2
  <2> HIDE DEF stored
  <2> QED BY <1>8, <1>9, <1>10, <2>1, <2>2, UpsertAgrees DEF stored
<1> HIDE DEF stored
<1>12. ASSUME NEW q \in TaskRuns PROVE Same(mem'[q], db'[q])
  <2>1. CASE q = s
    BY <1>0, <1>2, <1>4, <1>5, <1>11, <2>1 DEF Memory, Ledger
  <2>2. CASE q = a
    <3>1. mem'[q] = absent /\ db'[q] = absent
      BY <1>0, <1>2, <1>4, <1>5, <2>2 DEF Memory, Ledger
    <3> QED BY <3>1 DEF Same
  <2>3. CASE q \notin {s, a}
    BY <1>0, <1>1, <1>4, <1>5, <2>3 DEF Memory, Ledger
  <2> QED BY <2>1, <2>2, <2>3
<1> QED BY <1>1, <1>5, <1>12 DEF InStep

\* A page that comes from rows that are in step brings them to memory.
LEMMA PageAgrees ==
    ASSUME Memory, NEW rows \in [TaskRuns -> Rows], ApplyPage(rows, kept'),
           \A r \in TaskRuns : r \in drain.runs /\ mem[r].state \notin Gone
               => rows[r].state \notin Gone,
           \A r \in TaskRuns : r \notin drain.runs \/ mem[r].state \in Gone => Same(mem[r], rows[r])
    PROVE  \A r \in TaskRuns : Same(mem'[r], rows[r])
<1> DEFINE page == {r \in drain.runs : mem[r].state \notin Gone}
           new(r) == [mem[r] EXCEPT !.mark = rows[r].mark, !.end = rows[r].end,
                                    !.ready = rows[r].ready, !.latest = rows[r].latest]
<1>1. mem' = [r \in TaskRuns |-> IF r \in page THEN new(r) ELSE mem[r]]
  BY Zenon DEF ApplyPage
<1> SUFFICES ASSUME NEW r \in TaskRuns PROVE Same(mem'[r], rows[r])
  OBVIOUS
<1>2. CASE r \in page
  <2>1. mem'[r] = new(r) /\ mem[r].state \notin Gone /\ rows[r].state \notin Gone
    BY <1>1, <1>2
  <2>2. /\ new(r).mark = rows[r].mark /\ new(r).end = rows[r].end
        /\ new(r).state = mem[r].state /\ new(r).latest = rows[r].latest
    BY DEF Memory, Rows
  <2> HIDE DEF new
  <2> QED BY <2>1, <2>2 DEF Same
<1>3. CASE r \notin page
  BY <1>1, <1>3
<1> QED BY <1>2, <1>3

LEMMA FinalizeInStep ==
    ASSUME LifecycleInv, InStep, budget.outages = 0, budget'.outages = 0,
           NEW seen \in Times, Finalize(seen)
    PROVE  InStep'
<1> DEFINE closed(r) == ClosedByFinalization(db[r], seen)
           rows == [r \in TaskRuns |->
                      IF r \in drain.runs THEN [closed(r) EXCEPT !.ready = TRUE] ELSE db[r]]
           ledger == [r \in TaskRuns |->
                      IF r \in drain.runs /\ closed(r) # db[r]
                      THEN kept[r] \cup {[mark |-> closed(r).mark, end |-> closed(r).end]}
                      ELSE kept[r]]
<1>0. Memory /\ Ledger /\ Owed /\ Control
  BY Parted
<1>1. ~Used("outages")
  BY <1>0 DEF Used, Control
<1>2. /\ db' = rows /\ kept' = ledger /\ owed = {} /\ UNCHANGED <<owed, degraded>>
      /\ ApplyPage(rows, ledger)
  BY <1>1, Zenon DEF Finalize
<1>3. ~degraded /\ \A q \in TaskRuns : Same(mem[q], db[q])
  BY <1>2 DEF InStep, Settled
<1>4. ASSUME NEW r \in TaskRuns
      PROVE  /\ rows[r] \in Rows /\ rows[r].state = db[r].state
             /\ r \notin drain.runs \/ db[r].state \in Gone => Same(mem[r], rows[r])
  <2>0. db[r] \in Rows /\ kept[r] \in SUBSET Marked /\ Grounded(db[r], kept[r])
    BY <1>0 DEF Ledger
  <2>1. CASE r \in drain.runs
    <3> DEFINE new == [closed(r) EXCEPT !.ready = TRUE]
    <3>1. /\ closed(r) \in Rows /\ closed(r).state = db[r].state
          /\ Blank(db[r]) => closed(r) = db[r]
      BY <2>0, CloseKeepsNewest
    <3>2. rows[r] = new
      BY <2>1
    <3> HIDE DEF closed, rows
    <3>4. /\ new \in Rows /\ new.mark = closed(r).mark /\ new.end = closed(r).end
          /\ new.state = closed(r).state /\ new.latest = closed(r).latest
      BY <3>1 DEF Rows
    <3> HIDE DEF new
    <3>5. db[r].state \in Gone => closed(r) = db[r]
      BY <2>0, <3>1 DEF Grounded
    <3>6. rows[r] \in Rows /\ rows[r].state = db[r].state
      BY <3>1, <3>2, <3>4
    <3>7. db[r].state \in Gone => Same(mem[r], rows[r])
      BY <1>3, <3>2, <3>4, <3>5 DEF Same
    <3> QED BY <2>1, <3>6, <3>7
  <2>2. CASE r \notin drain.runs
    BY <1>3, <2>0, <2>2
  <2> QED BY <2>1, <2>2
<1>5. rows \in [TaskRuns -> Rows]
  BY <1>4
<1> HIDE DEF rows, ledger
<1>6. /\ \A r \in TaskRuns : r \in drain.runs /\ mem[r].state \notin Gone => rows[r].state \notin Gone
      /\ \A r \in TaskRuns : r \notin drain.runs \/ mem[r].state \in Gone => Same(mem[r], rows[r])
  BY <1>3, <1>4 DEF Same
<1>7. \A q \in TaskRuns : Same(mem'[q], rows[q])
  BY <1>0, <1>2, <1>5, <1>6, PageAgrees
<1> QED BY <1>2, <1>3, <1>7 DEF InStep

LEMMA RetryPageInStep ==
    ASSUME LifecycleInv, InStep, budget.outages = 0, RetryPage
    PROVE  InStep'
<1>0. Memory /\ Ledger
  BY Parted
<1>1. ~degraded /\ owed = {} /\ UNCHANGED <<db, owed, degraded, kept>> /\ ApplyPage(db, kept')
  BY DEF RetryPage, InStep
<1>2. \A q \in TaskRuns : Same(mem[q], db[q])
  BY <1>1 DEF InStep, Settled
<1>3. \A q \in TaskRuns : Same(mem'[q], db[q])
  <2>1. db \in [TaskRuns -> Rows]
    BY <1>0 DEF Ledger
  <2>2. \A r \in TaskRuns : r \in drain.runs /\ mem[r].state \notin Gone => db[r].state \notin Gone
    BY <1>2 DEF Same
  <2> QED BY <1>0, <1>1, <1>2, <2>1, <2>2, PageAgrees
<1> QED BY <1>1, <1>3 DEF InStep

LEMMA InStepSteps ==
    ASSUME LifecycleInv, LifecycleInv', InStep, LifecycleNext
    PROVE  InStep'
<1> SUFFICES ASSUME budget'.outages = 0 PROVE InStep'
  BY DEF InStep
<1>0. budget.outages = 0 /\ ~degraded
  BY NoOutage DEF InStep
<1>1. ASSUME NEW r \in TaskRuns, NEW at \in Times, NEW seen \in Times,
             NEW event \in {"task_started", "session_ended", "complete"},
             Controller(r, event, at, seen)
      PROVE  InStep'
  <2>1. Idle /\ WriteRows({r}) /\ UNCHANGED <<owed, degraded>>
    BY <1>1, Zenon DEF Controller
  <2>2. Advances({r})
    BY <1>1, ControllerStep
  <2> QED BY <1>0, <2>1, <2>2, WrittenInStep
<1>2. ASSUME NEW alive \in SUBSET TaskRuns, NEW now \in Times, Snapshot(alive, now)
      PROVE  InStep'
  <2> DEFINE runs == {q \in TaskRuns : mem'[q].execution # "none"}
  <2>1. Idle /\ WriteRows(runs) /\ UNCHANGED <<owed, degraded>>
    BY <1>2, Zenon DEF Snapshot
  <2>2. Advances(runs)
    BY <1>2, SnapshotStep
  <2>3. runs \in SUBSET TaskRuns
    OBVIOUS
  <2> HIDE DEF runs
  <2> QED BY <1>0, <2>1, <2>2, <2>3, WrittenInStep
<1>3. ASSUME NEW r \in TaskRuns, ExecutionEnds(r) PROVE InStep'
  <2>1. Idle /\ WriteRows({r}) /\ UNCHANGED <<owed, degraded>>
    BY <1>3, Zenon DEF ExecutionEnds
  <2>2. Advances({r})
    BY <1>3, ExecutionEndsStep
  <2> QED BY <1>0, <2>1, <2>2, WrittenInStep
<1>4. CASE Outage \/ Recover
  BY <1>0, <1>4 DEF Outage, Recover, Used, LifecycleInv, Types
<1>5. CASE Restore
  <2>1. /\ mem' = db /\ db' = db /\ owed' = {} /\ ~degraded'
    BY <1>5 DEF Restore
  <2> QED BY <2>1 DEF InStep, Same
<1> QED BY <1>0, <1>1, <1>2, <1>3, <1>4, <1>5, ObserveLiveInStep, ObserveHistoricalInStep,
           MergeInStep, WriteOwedInStep, RetryPageInStep, FinalizeInStep DEF LifecycleNext

\* While no write was skipped or lost the reducer and the store, which compare the evidence each
\* on its own, agree about the session and the latest time of every run: a restart finds every
\* session as it is shown (reducer.rs:1689, store/mod.rs:1002).
THEOREM RestartFindsTheSame == LifecycleSpec => []RestartShowsTheSame
<1>1. LifecycleInit => InStep
  BY DEF LifecycleInit, InStep, Same
<1>2. LifecycleInv /\ LifecycleInv' /\ InStep /\ [LifecycleNext]_lifecycleVars => InStep'
  <2>1. UNCHANGED lifecycleVars /\ InStep => InStep'
    BY DEF lifecycleVars, InStep, Settled, Same
  <2> QED BY <2>1, InStepSteps
<1>3. InStep => RestartShowsTheSame
  BY DEF InStep, Settled, Same, RestartShowsTheSame, Register
<1> QED BY <1>1, <1>2, <1>3, LifecycleInvariant, PTL DEF LifecycleSpec

=============================================================================
