----------------------------- MODULE HeldLaunch -----------------------------
(***************************************************************************)
(* A second launch in a session focuses the pane of the first instead of   *)
(* starting another collector.  It learns where the owner is from the      *)
(* owner row, which the owner replaces at its start and corrects from      *)
(* every snapshot, and asks Herdr where that terminal is now.  The row     *)
(* outlives the owner that wrote it.                                       *)
(*                                                                         *)
(* src/src/main.rs (run_held_branch, read_owner_with_retry,                *)
(* focus_existing_owner), src/src/herdr/collector.rs (OwnerTracker) and    *)
(* src/src/store/mod.rs (the owner row).  The lock itself is Ownership's.  *)
(***************************************************************************)
EXTENDS Naturals

CONSTANTS
    Launches,       \* the processes
    HomeOf,         \* the terminal a process runs in
    PaneIds,        \* the pane ids Herdr gives
    OwnerRetries,   \* OWNER_STARTING_RETRIES
    Nowhere,
    MaxMoves        \* bound: moves and closes of panes

Terminals == {HomeOf[p] : p \in Launches}

ASSUME HeldLaunchConstants ==
    /\ HomeOf \in [Launches -> Terminals]
    /\ Nowhere \notin Launches \cup PaneIds \cup Terminals
    /\ OwnerRetries \in Nat /\ MaxMoves \in Nat

VARIABLES
    where,      \* the pane of each terminal, Nowhere once it is closed
    focused,    \* Herdr's focused pane
    holder,     \* who holds the session lock
    ownerRow,   \* the owner row: whether there is one, its terminal and pane
    tracker,    \* each owner's idea of its terminal and pane
    step,       \* where each process is
    aim,        \* what a held launch goes for: the row's terminal, then a pane
    tries,      \* how often it found no row
    moves,      \* for the bound
    managed,    \* history: the processes whose environment named their terminal
    unsure      \* history: held launches whose row or pane is no longer the owner's, and those
                \* that such a launch took the focus from

heldVars == <<where, focused, holder, ownerRow, tracker, step, aim, tries, moves, managed, unsure>>

NoPlace == [terminal |-> Nowhere, pane |-> Nowhere]

HomePlace(p) == [terminal |-> HomeOf[p], pane |-> where[HomeOf[p]]]

Goes(p, s) == step' = [step EXCEPT ![p] = s]

\* A process that has left keeps nothing.
Leaves(p) ==
    /\ Goes(p, "idle")
    /\ aim' = [aim EXCEPT ![p] = Nowhere] /\ tries' = [tries EXCEPT ![p] = 0]
    /\ unsure' = unsure \ {p}

\* The process gets the lock and will own the session, or finds it held.  The environment of a
\* pane names the terminal and the pane; a process started another way may have neither.
StartLaunch(p) ==
    /\ step[p] = "idle" /\ where[HomeOf[p]] # Nowhere
    /\ \/ /\ holder = Nowhere
          /\ holder' = p /\ Goes(p, "starting")
          /\ \E place \in {NoPlace, [HomePlace(p) EXCEPT !.terminal = Nowhere], HomePlace(p)} :
                /\ tracker' = [tracker EXCEPT ![p] = place]
                /\ managed' = IF place.terminal = Nowhere THEN managed ELSE managed \cup {p}
       \/ holder # Nowhere /\ Goes(p, "held") /\ UNCHANGED <<holder, tracker, managed>>
    /\ UNCHANGED <<where, focused, ownerRow, aim, tries, moves, unsure>>

\* replace_owner, at the start of the collector.
RecordOwner(p) ==
    /\ step[p] = "starting" /\ Goes(p, "owning")
    /\ ownerRow' = [written |-> TRUE, terminal |-> tracker[p].terminal, pane |-> tracker[p].pane]
    /\ UNCHANGED <<where, focused, holder, tracker, aim, tries, moves, managed, unsure>>

\* The terminal of a pane in a snapshot.
TerminalIn(pane) == CHOOSE t \in Terminals : where[t] = pane

\* Mutant: the pane is looked up by its last known id first.
TrackedPaneById(t) ==
    IF \E u \in Terminals : where[u] = t.pane /\ t.pane # Nowhere THEN t.pane
    ELSE IF t.terminal # Nowhere /\ where[t.terminal] # Nowhere THEN where[t.terminal]
    ELSE focused

\* refresh_from_snapshot: by the terminal, else by the pane's id, else the focused pane.
TrackedPane(t) ==
    IF t.terminal # Nowhere /\ where[t.terminal] # Nowhere THEN where[t.terminal]
    ELSE IF \E u \in Terminals : where[u] = t.pane /\ t.pane # Nowhere THEN t.pane
    ELSE focused

\* The owner installs a snapshot.  The tracker takes the new place only when the row's update is
\* known to be durable; a skipped or refused one is no step.
RefreshOwner(p) ==
    /\ step[p] = "owning"
    /\ TrackedPane(tracker[p]) # Nowhere
    /\ LET pane  == TrackedPane(tracker[p])
           place == [terminal |-> TerminalIn(pane), pane |-> pane]
       IN  /\ place # tracker[p]
           /\ \E kept \in {place, tracker[p]} : tracker' = [tracker EXCEPT ![p] = kept]
           /\ ownerRow' = [ownerRow EXCEPT !.terminal = place.terminal, !.pane = pane]
    /\ UNCHANGED <<where, focused, holder, step, aim, tries, moves, managed, unsure>>

\* The owner's orderly end, or its death: the lock is free, the row stays.
OwnerEnds(p) ==
    /\ step[p] \in {"starting", "owning"} /\ Goes(p, "idle")
    /\ holder' = Nowhere
    /\ tracker' = [tracker EXCEPT ![p] = NoPlace] /\ managed' = managed \ {p}
    /\ unsure' = unsure \cup {q \in Launches : step[q] \in {"located", "aimed", "focused"}}
    /\ UNCHANGED <<where, focused, ownerRow, aim, tries, moves>>

\* The holder has replaced the row, and knew its terminal when it did.
RowIsOwners == holder # Nowhere /\ step[holder] = "owning" /\ holder \in managed

\* read_owner_with_retry, one attempt.
ReadOwner(p) ==
    /\ step[p] = "held"
    /\ \/ /\ ownerRow.written /\ ownerRow.terminal # Nowhere
          /\ aim' = [aim EXCEPT ![p] = ownerRow.terminal]
          /\ unsure' = IF RowIsOwners THEN unsure ELSE unsure \cup {p}
          /\ Goes(p, "located") /\ UNCHANGED tries
       \/ ownerRow.written /\ ownerRow.terminal = Nowhere /\ Leaves(p)
       \/ ~ownerRow.written /\ tries[p] = OwnerRetries /\ Leaves(p)
       \/ /\ ~ownerRow.written /\ tries[p] < OwnerRetries
          /\ tries' = [tries EXCEPT ![p] = @ + 1] /\ UNCHANGED <<step, aim, unsure>>
    /\ UNCHANGED <<where, focused, holder, ownerRow, tracker, moves, managed>>

\* focus_existing_owner: the snapshot, which may not have the terminal any more.
LocateOwner(p) ==
    /\ step[p] = "located"
    /\ \/ where[aim[p]] = Nowhere /\ Leaves(p)
       \/ /\ where[aim[p]] # Nowhere /\ Goes(p, "aimed")
          /\ aim' = [aim EXCEPT ![p] = where[aim[p]]] /\ UNCHANGED <<tries, unsure>>
    /\ UNCHANGED <<where, focused, holder, ownerRow, tracker, moves, managed>>

\* pane.focus: an error when the pane is gone.
FocusOwner(p) ==
    /\ step[p] = "aimed"
    /\ \/ /\ \E t \in Terminals : where[t] = aim[p]
          /\ focused' = aim[p] /\ Goes(p, "focused") /\ UNCHANGED <<aim, tries>>
          /\ unsure' = IF p \in unsure
                       THEN unsure \cup {q \in Launches : step[q] = "focused"} ELSE unsure
       \/ (\A t \in Terminals : where[t] # aim[p]) /\ Leaves(p) /\ UNCHANGED focused
    /\ UNCHANGED <<where, holder, ownerRow, tracker, moves, managed>>

\* A store that cannot be read, or a Herdr that does not answer.
GiveUp(p) ==
    /\ step[p] \in {"held", "located", "aimed"} /\ Leaves(p)
    /\ UNCHANGED <<where, focused, holder, ownerRow, tracker, moves, managed>>

\* The second launch reports the pane and exits.
LeaveFocused(p) ==
    /\ step[p] = "focused" /\ Leaves(p)
    /\ UNCHANGED <<where, focused, holder, ownerRow, tracker, moves, managed>>

\* The user moves a terminal, which gives it another pane id, closes one without a process, or
\* goes to another pane.  An aimed launch has the pane ids of its snapshot.
MovePane(t, pane) ==
    /\ moves < MaxMoves /\ moves' = moves + 1
    /\ where[t] # Nowhere /\ \A u \in Terminals : where[u] # pane
    /\ where' = [where EXCEPT ![t] = pane]
    /\ focused' = IF focused = where[t] THEN pane ELSE focused
    /\ unsure' = unsure \cup {p \in Launches : step[p] \in {"aimed", "focused"}}
    /\ UNCHANGED <<holder, ownerRow, tracker, step, aim, tries, managed>>

CloseTerminal(t) ==
    /\ moves < MaxMoves /\ moves' = moves + 1
    /\ where[t] # Nowhere /\ \A p \in Launches : HomeOf[p] = t => step[p] = "idle"
    /\ where' = [where EXCEPT ![t] = Nowhere]
    /\ \/ focused # where[t] /\ UNCHANGED focused
       \/ focused = where[t] /\ focused' \in {where'[u] : u \in Terminals}
    /\ UNCHANGED <<holder, ownerRow, tracker, step, aim, tries, managed, unsure>>

GoToPane(t) ==
    /\ moves < MaxMoves /\ moves' = moves + 1
    /\ where[t] # Nowhere /\ focused' = where[t]
    /\ \A p \in Launches : step[p] # "focused"
    /\ UNCHANGED <<where, holder, ownerRow, tracker, step, aim, tries, managed, unsure>>

HeldInit ==
    /\ where \in [Terminals -> PaneIds]
    /\ \A t, u \in Terminals : t # u => where[t] # where[u]
    /\ \E t \in Terminals : focused = where[t]
    /\ holder = Nowhere
    /\ ownerRow = [written |-> FALSE, terminal |-> Nowhere, pane |-> Nowhere]
    /\ tracker = [p \in Launches |-> NoPlace]
    /\ step = [p \in Launches |-> "idle"] /\ aim = [p \in Launches |-> Nowhere]
    /\ tries = [p \in Launches |-> 0] /\ moves = 0 /\ managed = {} /\ unsure = {}

HeldNext ==
    \/ \E p \in Launches :
          \/ StartLaunch(p) \/ RecordOwner(p) \/ RefreshOwner(p) \/ OwnerEnds(p)
          \/ ReadOwner(p) \/ LocateOwner(p) \/ FocusOwner(p) \/ GiveUp(p) \/ LeaveFocused(p)
    \/ \E t \in Terminals : CloseTerminal(t) \/ GoToPane(t)
                            \/ \E pane \in PaneIds : MovePane(t, pane)

\* A second launch that reads the row of the process that holds the lock brings the user to that
\* process's pane, wherever its terminal was moved and whoever got its pane id since, unless the
\* owner ended or a pane moved while the launch was on its way, or another launch, late with an
\* older answer, moved the focus once more.  Not promised: the row may still be a predecessor's
\* (main.rs:602), and an owner started without HERDR_TERMINAL_ID takes the pane that is focused
\* in its first snapshot for its own (collector.rs:8424).
FocusReachesOwner ==
    \A p \in Launches : step[p] = "focused" /\ p \notin unsure =>
        holder # Nowhere /\ focused = where[HomeOf[holder]]

=============================================================================
