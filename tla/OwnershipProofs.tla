--------------------------- MODULE OwnershipProofs ---------------------------
(***************************************************************************)
(* Theorems about session ownership, for every set of launches, clients,   *)
(* colliding names, layouts and inodes, and every number of faults.        *)
(***************************************************************************)
EXTENDS Ownership, TLAPS

-----------------------------------------------------------------------------
(* The inductive invariant.                                                *)

Owning == Preparing \cup Closing \cup {"open", "record", "running"}
Serving == {"open", "record", "running", "closeStore", "closeListener"}
Touching == {"probe", "remove", "bind", "listen"}

\* Everything an owner does to shared entries, it does while it holds the lock of its root.
LockHeld == \A p \in Processes : proc[p].pc \in Owning => lock[Root(p)] = p

\* A root has one first creator, and everybody past it has read or written the own name.
NamesRead ==
    \A p \in Processes :
        /\ proc[p].pc \in Owning \cup {"lock", "held"} => nameFile[Root(p)] = NameOf[p]
        /\ At(p, "write") =>
             /\ nameFile[Root(p)] = Empty
             /\ \A q \in Processes \ {p} : Root(q) = Root(p) => ~At(q, "write")

StoreOwned ==
    /\ \A r \in Roots : \A p \in store[r] :
          r = Root(p) /\ proc[p].pc \in {"record", "running", "closeStore"}
    /\ \A p \in Processes : At(p, "running") => record[Root(p)] = p

\* Whoever touches, serves or still has the socket found its own name in the sentinel.
SentinelRead ==
    /\ \A p \in Processes :
          proc[p].pc \in Touching \/ proc[p].input = "Bound" \/ listener[p] # None
            => sentinel = NameOf[p]
    /\ \A p \in Processes : At(p, "compare") => sentinel \in Names
    /\ \A p \in Processes : At(p, "publish") => sentinel # Malformed
    /\ \A c \in Clients : emit[c] = "resolved" => sentinel = NameOf[c]

\* The entry of a serving owner is its own, and open listeners have different inodes.
SocketOwned ==
    /\ \A p \in Processes :
          /\ proc[p].pc \in {"closeListener", "statOwned", "unlink"} => proc[p].input = "Bound"
          /\ proc[p].input = "Bound" => proc[p].pc \in Serving \cup Closing
          /\ listener[p] # None =>
               At(p, "dying") \/ (proc[p].input = "Bound" /\ proc[p].pc \in Serving)
          /\ At(p, "bind") => socket = None
          /\ At(p, "listen") => socket = proc[p].inode /\ proc[p].inode # None
          /\ proc[p].input = "Bound" /\ proc[p].pc \in Serving =>
               listener[p] # None /\ listener[p] = proc[p].inode /\ socket = proc[p].inode
    /\ \A p, q \in Processes :
          /\ At(p, "listen") => listener[q] # proc[p].inode
          /\ p # q /\ listener[p] # None => listener[p] # listener[q]

IInv == TypeOK /\ LockHeld /\ NamesRead /\ StoreOwned /\ SentinelRead /\ SocketOwned

-----------------------------------------------------------------------------
(* A step of a process moves that process alone.                           *)

\* The state root and the name of a process.
LEMMA RootTypes ==
    ASSUME TypeOK, NEW p \in Processes
    PROVE  Root(p) \in Roots /\ NameOf[p] \in Names
BY OwnershipAssumption DEF TypeOK, Root

\* The steps of a process in Next.
ProcessStep(p) ==
    Continue(p) \/ Launch(p) \/ Quit(p) \/ BindFails(p) \/ FailStartup(p) \/ Crash(p)

\* What Goto does to the process that takes it and to the others.
LEMMA Moves ==
    ASSUME TypeOK, NEW p \in Processes, NEW pc \in ProgramPoints, Goto(p, pc)
    PROVE  /\ proc' \in [Processes -> Process]
           /\ proc'[p].pc = pc /\ proc'[p].input = proc[p].input /\ proc'[p].inode = proc[p].inode
           /\ \A q \in Processes \ {p} : proc'[q] = proc[q]
BY DEF TypeOK, Goto, Process

\* The same for Settle.
LEMMA Settles ==
    ASSUME TypeOK, NEW p \in Processes, NEW input \in InputStates, Settle(p, input)
    PROVE  /\ proc' \in [Processes -> Process]
           /\ proc'[p].pc = "open" /\ proc'[p].input = input /\ proc'[p].inode = proc[p].inode
           /\ \A q \in Processes \ {p} : proc'[q] = proc[q]
BY DEF TypeOK, Settle, Process, ProgramPoints

\* A step of p changes neither another process nor where a name lives nor an emit.
LEMMA StepShape ==
    ASSUME TypeOK, NEW p \in Processes, ProcessStep(p)
    PROVE  /\ proc' \in [Processes -> Process]
           /\ \A q \in Processes \ {p} : proc'[q] = proc[q]
           /\ rootOf' = rootOf /\ emit' = emit
<1> USE DEF ProgramPoints, Initialising, Preparing, Closing, InputStates
<1>1. CASE Launch(p)
  BY <1>1, Moves DEF Launch
<1>2. CASE ReadName(p)
  BY <1>2, Moves DEF ReadName
<1>3. CASE CreateName(p)
  BY <1>3, Moves DEF CreateName
<1>4. CASE WriteName(p)
  BY <1>4, Moves DEF WriteName
<1>5. CASE try_acquire(p)
  BY <1>5, Moves DEF try_acquire
<1>6. CASE Held(p)
  BY <1>6, Moves DEF Held
<1>7. CASE preflight_len(p)
  BY <1>7, Settles DEF preflight_len
<1>8. CASE StatEntries(p)
  BY <1>8, Moves, Settles DEF StatEntries
<1>9. CASE publish_sentinel(p)
  BY <1>9, Moves DEF publish_sentinel
<1>10. CASE CompareSentinel(p)
  BY <1>10, Moves, Settles DEF CompareSentinel
<1>11. CASE ProbeSocket(p)
  BY <1>11, Moves, Settles DEF ProbeSocket
<1>12. CASE remove_proven_stale_socket(p)
  BY <1>12, Moves DEF remove_proven_stale_socket
<1>13. CASE Bind(p)
  BY <1>13 DEF Bind, TypeOK, Process, Idle, Settle
<1>14. CASE Listen(p)
  BY <1>14, Settles DEF Listen
<1>15. CASE BindFails(p)
  <2>1. [proc[p] EXCEPT !.pc = "open", !.input = "BindFailure", !.inode = None] \in Process
    <3>1. proc[p] \in Process
      BY DEF TypeOK
    <3> QED
      BY <3>1 DEF Process
  <2>2. QED
    BY <1>15, <2>1 DEF BindFails, TypeOK
<1>16. CASE OpenStore(p)
  BY <1>16, Moves DEF OpenStore
<1>17. CASE replace_owner(p)
  BY <1>17, Moves DEF replace_owner
<1>18. CASE FailStartup(p)
  BY <1>18, Moves DEF FailStartup, AfterStore
<1>19. CASE Quit(p)
  BY <1>19, Moves DEF Quit
<1>20. CASE CloseStore(p)
  BY <1>20, Moves DEF CloseStore, AfterStore
<1>21. CASE CloseListener(p)
  BY <1>21, Moves DEF CloseListener
<1>22. CASE StatOwned(p)
  BY <1>22, Moves DEF StatOwned
<1>23. CASE UnlinkOwned(p)
  BY <1>23, Moves DEF UnlinkOwned
<1>24. CASE ReleaseLock(p)
  BY <1>24 DEF ReleaseLock, TypeOK, Process, Idle, Settle
<1>25. CASE Crash(p)
  BY <1>25 DEF Crash, TypeOK, Process, Idle, Settle
<1>26. CASE Reap(p)
  BY <1>26 DEF Reap, TypeOK, Process, Idle, Settle
<1> QED
  BY <1>1, <1>2, <1>3, <1>4, <1>5, <1>6, <1>7, <1>8, <1>9, <1>10, <1>11, <1>12, <1>13,
     <1>14, <1>15, <1>16, <1>17, <1>18, <1>19, <1>20, <1>21, <1>22, <1>23, <1>24, <1>25,
     <1>26 DEF ProcessStep, Continue

-----------------------------------------------------------------------------
(* What the steps with alternatives do to the process that takes them.     *)

SameEntry(p) == proc'[p].input = proc[p].input /\ proc'[p].inode = proc[p].inode

\* Only the own name in the file leads on to the lock.
LEMMA ReadNameEffect ==
    ASSUME TypeOK, NEW p \in Processes, ReadName(p)
    PROVE  /\ proc[p].pc \in {"read", "reread"}
           /\ proc'[p].pc \in {"create", "idle"} \/ (proc'[p].pc = "lock" /\ NameAccepted(p))
           /\ SameEntry(p)
           /\ UNCHANGED <<lock, nameFile, sentinel, socket, listener, store, record>>
BY Moves DEF ReadName, At, SameEntry, ProgramPoints, Initialising

\* O_EXCL lets one launch create the file.
LEMMA CreateNameEffect ==
    ASSUME TypeOK, NEW p \in Processes, CreateName(p)
    PROVE  /\ At(p, "create")
           /\ \/ /\ nameFile[Root(p)] = None /\ proc'[p].pc = "write"
                 /\ nameFile' = [nameFile EXCEPT ![Root(p)] = Empty]
              \/ nameFile' = nameFile /\ proc'[p].pc = "reread"
           /\ SameEntry(p)
           /\ UNCHANGED <<lock, sentinel, socket, listener, store, record>>
BY Moves DEF CreateName, At, SameEntry, ProgramPoints, Initialising

\* flock is granted only while nobody has it.
LEMMA AcquireEffect ==
    ASSUME TypeOK, NEW p \in Processes, try_acquire(p)
    PROVE  /\ At(p, "lock")
           /\ \/ /\ lock[Root(p)] = None /\ proc'[p].pc = "stat"
                 /\ lock' = [lock EXCEPT ![Root(p)] = p]
              \/ lock' = lock /\ proc'[p].pc = "held"
           /\ SameEntry(p)
           /\ UNCHANGED <<nameFile, sentinel, socket, listener, store, record>>
BY Moves DEF try_acquire, At, SameEntry, ProgramPoints, Initialising, Preparing

\* Publication is attempted only where no sentinel was seen.
LEMMA StatEntriesEffect ==
    ASSUME TypeOK, NEW p \in Processes, StatEntries(p)
    PROVE  /\ At(p, "stat")
           /\ \/ proc'[p].pc = "open" /\ proc'[p].input \in {"UnsafeOrphan", "SentinelMalformed"}
              \/ proc'[p].pc = "publish" /\ proc'[p].input = proc[p].input /\ sentinel = None
              \/ /\ proc'[p].pc = "compare" /\ proc'[p].input = proc[p].input
                 /\ sentinel \notin {None, Malformed}
           /\ proc'[p].inode = proc[p].inode
           /\ UNCHANGED <<lock, nameFile, sentinel, socket, listener, store, record>>
BY Moves, Settles DEF StatEntries, At, ProgramPoints, Preparing, InputStates

\* Only the own name in the sentinel leads on to the socket.
LEMMA CompareSentinelEffect ==
    ASSUME TypeOK, NEW p \in Processes, CompareSentinel(p)
    PROVE  /\ At(p, "compare")
           /\ \/ proc'[p].pc = "open" /\ proc'[p].input = "Collision" /\ sentinel # NameOf[p]
              \/ /\ proc'[p].pc = "probe" /\ proc'[p].input = proc[p].input
                 /\ sentinel = NameOf[p]
           /\ proc'[p].inode = proc[p].inode
           /\ UNCHANGED <<lock, nameFile, sentinel, socket, listener, store, record>>
BY Moves, Settles DEF CompareSentinel, At, ProgramPoints, Preparing, InputStates

\* An entry that somebody answers at is left alone.
LEMMA ProbeSocketEffect ==
    ASSUME TypeOK, NEW p \in Processes, ProbeSocket(p)
    PROVE  /\ At(p, "probe")
           /\ \/ /\ proc'[p].pc = "open" /\ proc'[p].input = "LiveEndpointUnderLock"
                 /\ Answering # {}
              \/ /\ proc'[p].pc = "remove" /\ Answering = {}
                 /\ proc'[p].input = proc[p].input
              \/ /\ proc'[p].pc = "bind" /\ socket = None
                 /\ proc'[p].input = proc[p].input
           /\ proc'[p].inode = proc[p].inode
           /\ UNCHANGED <<lock, nameFile, sentinel, socket, listener, store, record>>
BY Moves, Settles DEF ProbeSocket, At, ProgramPoints, Preparing, InputStates

\* A bind succeeds only where there is no entry, with an inode no open socket has.
LEMMA BindEffect ==
    ASSUME TypeOK, NEW p \in Processes, Bind(p)
    PROVE  /\ At(p, "bind")
           /\ \/ /\ proc'[p].pc = "open" /\ proc'[p].input = "BindFailure"
                 /\ socket # None /\ socket' = socket /\ proc'[p].inode = proc[p].inode
              \/ /\ proc'[p].pc = "listen" /\ proc'[p].input = proc[p].input
                 /\ socket = None /\ socket' \in Inodes
                 /\ socket' = proc'[p].inode
                 /\ \A q \in Processes : listener[q] # socket'
           /\ UNCHANGED <<lock, nameFile, sentinel, listener, store, record>>
<1>1. CASE socket # None
  BY <1>1, Settles DEF Bind, At, InputStates
<1>2. CASE socket = None
  <2>1. PICK inode \in Inodes :
          /\ inode \notin {listener[q] : q \in Processes}
          /\ socket' = inode
          /\ proc' = [proc EXCEPT ![p].pc = "listen", ![p].inode = inode]
    BY <1>2 DEF Bind
  <2>2. proc'[p] = [proc[p] EXCEPT !.pc = "listen", !.inode = inode]
    BY <2>1 DEF TypeOK
  <2>3. proc'[p].pc = "listen" /\ proc'[p].input = proc[p].input /\ proc'[p].inode = inode
    BY <2>2 DEF TypeOK, Process
  <2> QED
    BY <1>2, <2>1, <2>3 DEF Bind
<1> QED
  BY <1>1, <1>2

\* Listening ends the preparation with the entry that was bound.
LEMMA ListenEffect ==
    ASSUME TypeOK, NEW p \in Processes, Listen(p)
    PROVE  /\ At(p, "listen")
           /\ proc'[p].pc = "open" /\ proc'[p].input = "Bound"
           /\ proc'[p].inode = proc[p].inode
           /\ listener' = [listener EXCEPT ![p] = proc[p].inode]
           /\ UNCHANGED <<lock, nameFile, sentinel, socket, store, record>>
BY Settles DEF Listen, InputStates

\* What a failing startup still has to undo.
LEMMA FailStartupEffect ==
    ASSUME TypeOK, NEW p \in Processes, FailStartup(p)
    PROVE  /\ SameEntry(p)
           /\ \/ /\ proc[p].pc \in {"stat", "publish", "compare", "probe", "remove"}
                 /\ proc'[p].pc = "release"
              \/ At(p, "open") /\ proc[p].input = "Bound" /\ proc'[p].pc = "closeListener"
              \/ At(p, "open") /\ proc[p].input # "Bound" /\ proc'[p].pc = "release"
              \/ At(p, "record") /\ proc'[p].pc = "closeStore"
           /\ UNCHANGED <<lock, nameFile, sentinel, socket, listener, store, record>>
BY Moves DEF FailStartup, AfterStore, At, SameEntry, ProgramPoints, Preparing, Closing

\* A crash closes the database; lock and listener survive it.
LEMMA CrashEffect ==
    ASSUME TypeOK, NEW p \in Processes, Crash(p)
    PROVE  /\ proc'[p] = [Idle EXCEPT !.pc = "dying"]
           /\ store' = [store EXCEPT ![Root(p)] = @ \ {p}]
           /\ proc'[p].pc = "dying" /\ proc'[p].input = "none" /\ proc'[p].inode = None
           /\ UNCHANGED <<lock, nameFile, sentinel, socket, listener, record>>
BY DEF Crash, TypeOK, Idle

\* A dead process loses its descriptors in any order.
LEMMA ReapEffect ==
    ASSUME TypeOK, NEW p \in Processes, Reap(p)
    PROVE  /\ At(p, "dying")
           /\ \/ proc' = proc
              \/ proc'[p] = Idle /\ lock' = lock /\ lock[Root(p)] # p /\ listener[p] = None
           /\ \A q \in Processes \ {p} : listener'[q] = listener[q]
           /\ listener'[p] \in {listener[p], None}
           /\ \A r \in Roots : lock'[r] = lock[r] \/ (lock[r] = p /\ lock'[r] = None)
           /\ UNCHANGED <<nameFile, sentinel, socket, store, record>>
BY DEF Reap, TypeOK

-----------------------------------------------------------------------------
(* Every step of a process keeps every part of the invariant.              *)

\* Only the holder gives the lock back, and only when it owns nothing any more.
LEMMA LockHeldStep ==
    ASSUME IInv, NEW p \in Processes, ProcessStep(p)
    PROVE  LockHeld'
<1>a. TypeOK /\ \A q \in Processes : Root(q) \in Roots /\ NameOf[q] \in Names
  BY RootTypes DEF IInv
<1>b. lock \in [Roots -> Processes \cup {None}] /\ None \notin Processes
  BY OwnershipAssumption DEF IInv, TypeOK
<1>c. /\ \A q \in Processes \ {p} : proc'[q] = proc[q]
      /\ rootOf' = rootOf /\ emit' = emit
  BY <1>a, StepShape
<1> USE <1>a, <1>b, <1>c
       DEF IInv, LockHeld, Root, Owning, At, SameEntry, Preparing, Closing,
           Initialising, Idle
<1>1. CASE Launch(p)
  BY <1>1 DEF Launch, Goto, TypeOK, Process
<1>2. CASE ReadName(p)
  BY <1>2, ReadNameEffect
<1>3. CASE CreateName(p)
  BY <1>3, CreateNameEffect
<1>4. CASE WriteName(p)
  BY <1>4 DEF WriteName, Goto, TypeOK, Process
<1>5. CASE try_acquire(p)
  BY <1>5, AcquireEffect
<1>6. CASE Held(p)
  BY <1>6 DEF Held, Goto, TypeOK, Process
<1>7. CASE preflight_len(p)
  BY <1>7 DEF preflight_len, Settle, TypeOK, Process
<1>8. CASE StatEntries(p)
  BY <1>8, StatEntriesEffect
<1>9. CASE publish_sentinel(p)
  BY <1>9 DEF publish_sentinel, Goto, TypeOK, Process
<1>10. CASE CompareSentinel(p)
  BY <1>10, CompareSentinelEffect
<1>11. CASE ProbeSocket(p)
  BY <1>11, ProbeSocketEffect
<1>12. CASE remove_proven_stale_socket(p)
  BY <1>12 DEF remove_proven_stale_socket, Goto, TypeOK, Process
<1>13. CASE Bind(p)
  BY <1>13, BindEffect
<1>14. CASE Listen(p)
  BY <1>14, ListenEffect
<1>15. CASE BindFails(p)
  BY <1>15 DEF BindFails, TypeOK, Process
<1>16. CASE OpenStore(p)
  BY <1>16 DEF OpenStore, Goto, TypeOK, Process
<1>17. CASE replace_owner(p)
  BY <1>17 DEF replace_owner, Goto, TypeOK, Process
<1>18. CASE FailStartup(p)
  BY <1>18, FailStartupEffect
<1>19. CASE Quit(p)
  BY <1>19 DEF Quit, Goto, TypeOK, Process
<1>20. CASE CloseStore(p)
  BY <1>20 DEF CloseStore, Goto, AfterStore, TypeOK, Process
<1>21. CASE CloseListener(p)
  BY <1>21 DEF CloseListener, Goto, TypeOK, Process
<1>22. CASE StatOwned(p)
  BY <1>22 DEF StatOwned, Goto, TypeOK, Process
<1>23. CASE UnlinkOwned(p)
  BY <1>23 DEF UnlinkOwned, Goto, TypeOK, Process
<1>24. CASE ReleaseLock(p)
  BY <1>24 DEF ReleaseLock, TypeOK, Process
<1>25. CASE Crash(p)
  BY <1>25, CrashEffect
<1>26. CASE Reap(p)
  BY <1>26, ReapEffect
<1> QED
  BY <1>1, <1>2, <1>3, <1>4, <1>5, <1>6, <1>7, <1>8, <1>9, <1>10, <1>11, <1>12, <1>13,
     <1>14, <1>15, <1>16, <1>17, <1>18, <1>19, <1>20, <1>21, <1>22, <1>23, <1>24, <1>25,
     <1>26 DEF ProcessStep, Continue

\* A name, once written, is never replaced: only the creator of an empty file writes.
LEMMA NamesReadStep ==
    ASSUME IInv, NEW p \in Processes, ProcessStep(p)
    PROVE  NamesRead'
<1>a. TypeOK /\ \A q \in Processes : Root(q) \in Roots /\ NameOf[q] \in Names
  BY RootTypes DEF IInv
<1>b. /\ nameFile \in [Roots -> Names \cup {None, "empty"}]
      /\ None \notin Names /\ "empty" \notin Names /\ None # "empty"
  BY OwnershipAssumption DEF IInv, TypeOK, Empty
<1>c. /\ \A q \in Processes \ {p} : proc'[q] = proc[q]
      /\ rootOf' = rootOf /\ emit' = emit
  BY <1>a, StepShape
<1> USE <1>a, <1>b, <1>c
       DEF IInv, LockHeld, NamesRead, NameAccepted, Empty, Root, Owning, At, SameEntry,
           Preparing, Closing, Initialising, Idle
<1>1. CASE Launch(p)
  BY <1>1 DEF Launch, Goto, TypeOK, Process
<1>2. CASE ReadName(p)
  BY <1>2, ReadNameEffect
<1>3. CASE CreateName(p)
  BY <1>3, CreateNameEffect
<1>4. CASE WriteName(p)
  BY <1>4 DEF WriteName, Goto, TypeOK, Process
<1>5. CASE try_acquire(p)
  BY <1>5, AcquireEffect
<1>6. CASE Held(p)
  BY <1>6 DEF Held, Goto, TypeOK, Process
<1>7. CASE preflight_len(p)
  BY <1>7 DEF preflight_len, Settle, TypeOK, Process
<1>8. CASE StatEntries(p)
  BY <1>8, StatEntriesEffect
<1>9. CASE publish_sentinel(p)
  BY <1>9 DEF publish_sentinel, Goto, TypeOK, Process
<1>10. CASE CompareSentinel(p)
  BY <1>10, CompareSentinelEffect
<1>11. CASE ProbeSocket(p)
  BY <1>11, ProbeSocketEffect
<1>12. CASE remove_proven_stale_socket(p)
  BY <1>12 DEF remove_proven_stale_socket, Goto, TypeOK, Process
<1>13. CASE Bind(p)
  BY <1>13, BindEffect
<1>14. CASE Listen(p)
  BY <1>14, ListenEffect
<1>15. CASE BindFails(p)
  BY <1>15 DEF BindFails, TypeOK, Process
<1>16. CASE OpenStore(p)
  BY <1>16 DEF OpenStore, Goto, TypeOK, Process
<1>17. CASE replace_owner(p)
  BY <1>17 DEF replace_owner, Goto, TypeOK, Process
<1>18. CASE FailStartup(p)
  BY <1>18, FailStartupEffect
<1>19. CASE Quit(p)
  BY <1>19 DEF Quit, Goto, TypeOK, Process
<1>20. CASE CloseStore(p)
  BY <1>20 DEF CloseStore, Goto, AfterStore, TypeOK, Process
<1>21. CASE CloseListener(p)
  BY <1>21 DEF CloseListener, Goto, TypeOK, Process
<1>22. CASE StatOwned(p)
  BY <1>22 DEF StatOwned, Goto, TypeOK, Process
<1>23. CASE UnlinkOwned(p)
  BY <1>23 DEF UnlinkOwned, Goto, TypeOK, Process
<1>24. CASE ReleaseLock(p)
  BY <1>24 DEF ReleaseLock, TypeOK, Process
<1>25. CASE Crash(p)
  BY <1>25, CrashEffect
<1>26. CASE Reap(p)
  BY <1>26, ReapEffect
<1> QED
  BY <1>1, <1>2, <1>3, <1>4, <1>5, <1>6, <1>7, <1>8, <1>9, <1>10, <1>11, <1>12, <1>13,
     <1>14, <1>15, <1>16, <1>17, <1>18, <1>19, <1>20, <1>21, <1>22, <1>23, <1>24, <1>25,
     <1>26 DEF ProcessStep, Continue

\* The database is open only between open_writer and the end of its shutdown.
LEMMA StoreOwnedStep ==
    ASSUME IInv, NEW p \in Processes, ProcessStep(p)
    PROVE  StoreOwned'
<1>a. TypeOK /\ \A q \in Processes : Root(q) \in Roots /\ NameOf[q] \in Names
  BY RootTypes DEF IInv
<1>b. store \in [Roots -> SUBSET Processes] /\ record \in [Roots -> Processes \cup {None}]
  BY OwnershipAssumption DEF IInv, TypeOK
<1>c. /\ \A q \in Processes \ {p} : proc'[q] = proc[q]
      /\ rootOf' = rootOf /\ emit' = emit
  BY <1>a, StepShape
<1> USE <1>a, <1>b, <1>c
       DEF IInv, LockHeld, StoreOwned, Root, Owning, At, SameEntry, Preparing, Closing,
           Initialising, Idle
<1>1. CASE Launch(p)
  BY <1>1 DEF Launch, Goto, TypeOK, Process
<1>2. CASE ReadName(p)
  BY <1>2, ReadNameEffect
<1>3. CASE CreateName(p)
  BY <1>3, CreateNameEffect
<1>4. CASE WriteName(p)
  BY <1>4 DEF WriteName, Goto, TypeOK, Process
<1>5. CASE try_acquire(p)
  BY <1>5, AcquireEffect
<1>6. CASE Held(p)
  BY <1>6 DEF Held, Goto, TypeOK, Process
<1>7. CASE preflight_len(p)
  BY <1>7 DEF preflight_len, Settle, TypeOK, Process
<1>8. CASE StatEntries(p)
  BY <1>8, StatEntriesEffect
<1>9. CASE publish_sentinel(p)
  BY <1>9 DEF publish_sentinel, Goto, TypeOK, Process
<1>10. CASE CompareSentinel(p)
  BY <1>10, CompareSentinelEffect
<1>11. CASE ProbeSocket(p)
  BY <1>11, ProbeSocketEffect
<1>12. CASE remove_proven_stale_socket(p)
  BY <1>12 DEF remove_proven_stale_socket, Goto, TypeOK, Process
<1>13. CASE Bind(p)
  BY <1>13, BindEffect
<1>14. CASE Listen(p)
  BY <1>14, ListenEffect
<1>15. CASE BindFails(p)
  BY <1>15 DEF BindFails, TypeOK, Process
<1>16. CASE OpenStore(p)
  BY <1>16 DEF OpenStore, Goto, TypeOK, Process
<1>17. CASE replace_owner(p)
  BY <1>17 DEF replace_owner, Goto, TypeOK, Process
<1>18. CASE FailStartup(p)
  BY <1>18, FailStartupEffect
<1>19. CASE Quit(p)
  BY <1>19 DEF Quit, Goto, TypeOK, Process
<1>20. CASE CloseStore(p)
  BY <1>20 DEF CloseStore, Goto, AfterStore, TypeOK, Process
<1>21. CASE CloseListener(p)
  BY <1>21 DEF CloseListener, Goto, TypeOK, Process
<1>22. CASE StatOwned(p)
  BY <1>22 DEF StatOwned, Goto, TypeOK, Process
<1>23. CASE UnlinkOwned(p)
  BY <1>23 DEF UnlinkOwned, Goto, TypeOK, Process
<1>24. CASE ReleaseLock(p)
  BY <1>24 DEF ReleaseLock, TypeOK, Process
<1>25. CASE Crash(p)
  BY <1>25, CrashEffect, SMTT(20)
<1>26. CASE Reap(p)
  BY <1>26, ReapEffect
<1> QED
  BY <1>1, <1>2, <1>3, <1>4, <1>5, <1>6, <1>7, <1>8, <1>9, <1>10, <1>11, <1>12, <1>13,
     <1>14, <1>15, <1>16, <1>17, <1>18, <1>19, <1>20, <1>21, <1>22, <1>23, <1>24, <1>25,
     <1>26 DEF ProcessStep, Continue

\* A sentinel with a name never changes, so what was read stays true.
LEMMA SentinelReadStep ==
    ASSUME IInv, NEW p \in Processes, ProcessStep(p)
    PROVE  SentinelRead'
<1>a. TypeOK /\ \A q \in Processes : Root(q) \in Roots /\ NameOf[q] \in Names
  BY RootTypes DEF IInv
<1>b. /\ listener \in [Processes -> Inodes \cup {None}]
      /\ sentinel \in Names \cup {None, "malformed"} /\ None \notin Names
      /\ "malformed" \notin Names /\ None # "malformed"
      /\ \A c \in Clients : NameOf[c] \in Names
  BY OwnershipAssumption DEF IInv, TypeOK, Malformed
<1>c. /\ \A q \in Processes \ {p} : proc'[q] = proc[q]
      /\ rootOf' = rootOf /\ emit' = emit
  BY <1>a, StepShape
<1> USE <1>a, <1>b, <1>c
       DEF IInv, SentinelRead, SocketOwned, Touching, Malformed, Serving, At, SameEntry,
           Preparing, Closing, Initialising, Idle
<1>1. CASE Launch(p)
  BY <1>1 DEF Launch, Goto, TypeOK, Process
<1>2. CASE ReadName(p)
  BY <1>2, ReadNameEffect
<1>3. CASE CreateName(p)
  BY <1>3, CreateNameEffect
<1>4. CASE WriteName(p)
  BY <1>4 DEF WriteName, Goto, TypeOK, Process
<1>5. CASE try_acquire(p)
  BY <1>5, AcquireEffect
<1>6. CASE Held(p)
  BY <1>6 DEF Held, Goto, TypeOK, Process
<1>7. CASE preflight_len(p)
  BY <1>7 DEF preflight_len, Settle, TypeOK, Process
<1>8. CASE StatEntries(p)
  BY <1>8, StatEntriesEffect
<1>9. CASE publish_sentinel(p)
  <2>1. /\ At(p, "publish") /\ proc'[p].pc = "compare" /\ SameEntry(p)
        /\ UNCHANGED listener
        /\ sentinel' = IF sentinel = None THEN NameOf[p] ELSE sentinel
    BY <1>9, Moves DEF publish_sentinel, ProgramPoints
  <2>2. CASE sentinel = None
    <3>1. /\ \A q \in Processes : /\ proc[q].pc \notin Touching \cup {"compare"}
                                  /\ proc[q].input # "Bound" /\ listener[q] = None
          /\ \A c \in Clients : emit[c] # "resolved"
      BY <2>2
    <3> QED
      BY <2>1, <2>2, <3>1
  <2>3. CASE sentinel # None
    BY <2>1, <2>3
  <2> QED
    BY <2>2, <2>3
<1>10. CASE CompareSentinel(p)
  BY <1>10, CompareSentinelEffect
<1>11. CASE ProbeSocket(p)
  BY <1>11, ProbeSocketEffect
<1>12. CASE remove_proven_stale_socket(p)
  BY <1>12 DEF remove_proven_stale_socket, Goto, TypeOK, Process
<1>13. CASE Bind(p)
  BY <1>13, BindEffect
<1>14. CASE Listen(p)
  BY <1>14, ListenEffect
<1>15. CASE BindFails(p)
  BY <1>15 DEF BindFails, TypeOK, Process
<1>16. CASE OpenStore(p)
  BY <1>16 DEF OpenStore, Goto, TypeOK, Process
<1>17. CASE replace_owner(p)
  BY <1>17 DEF replace_owner, Goto, TypeOK, Process
<1>18. CASE FailStartup(p)
  BY <1>18, FailStartupEffect
<1>19. CASE Quit(p)
  BY <1>19 DEF Quit, Goto, TypeOK, Process
<1>20. CASE CloseStore(p)
  BY <1>20 DEF CloseStore, Goto, AfterStore, TypeOK, Process
<1>21. CASE CloseListener(p)
  BY <1>21 DEF CloseListener, Goto, TypeOK, Process
<1>22. CASE StatOwned(p)
  BY <1>22 DEF StatOwned, Goto, TypeOK, Process
<1>23. CASE UnlinkOwned(p)
  BY <1>23 DEF UnlinkOwned, Goto, TypeOK, Process
<1>24. CASE ReleaseLock(p)
  BY <1>24 DEF ReleaseLock, TypeOK, Process
<1>25. CASE Crash(p)
  BY <1>25, CrashEffect
<1>26. CASE Reap(p)
  BY <1>26, ReapEffect
<1> QED
  BY <1>1, <1>2, <1>3, <1>4, <1>5, <1>6, <1>7, <1>8, <1>9, <1>10, <1>11, <1>12, <1>13,
     <1>14, <1>15, <1>16, <1>17, <1>18, <1>19, <1>20, <1>21, <1>22, <1>23, <1>24, <1>25,
     <1>26 DEF ProcessStep, Continue

\* Two processes that touch the entry have one name, one root, hence one lock.
LEMMA SocketOwnedStep ==
    ASSUME IInv, NEW p \in Processes, ProcessStep(p)
    PROVE  SocketOwned'
<1>a. TypeOK /\ \A q \in Processes : Root(q) \in Roots /\ NameOf[q] \in Names
  BY RootTypes DEF IInv
<1>b. listener \in [Processes -> Inodes \cup {None}]
  BY OwnershipAssumption DEF IInv, TypeOK
<1>c. /\ \A q \in Processes \ {p} : proc'[q] = proc[q]
      /\ rootOf' = rootOf /\ emit' = emit
  BY <1>a, StepShape
<1> USE <1>a, <1>b, <1>c
       DEF IInv, LockHeld, SentinelRead, SocketOwned, Root, Touching, Serving, Owning,
           Answering, At, SameEntry, Preparing, Closing, Initialising, Idle
<1>1. CASE Launch(p)
  BY <1>1 DEF Launch, Goto, TypeOK, Process
<1>2. CASE ReadName(p)
  BY <1>2, ReadNameEffect
<1>3. CASE CreateName(p)
  BY <1>3, CreateNameEffect
<1>4. CASE WriteName(p)
  BY <1>4 DEF WriteName, Goto, TypeOK, Process
<1>5. CASE try_acquire(p)
  BY <1>5, AcquireEffect
<1>6. CASE Held(p)
  BY <1>6 DEF Held, Goto, TypeOK, Process
<1>7. CASE preflight_len(p)
  BY <1>7 DEF preflight_len, Settle, TypeOK, Process
<1>8. CASE StatEntries(p)
  BY <1>8, StatEntriesEffect
<1>9. CASE publish_sentinel(p)
  BY <1>9 DEF publish_sentinel, Goto, TypeOK, Process
<1>10. CASE CompareSentinel(p)
  BY <1>10, CompareSentinelEffect
<1>11. CASE ProbeSocket(p)
  BY <1>11, ProbeSocketEffect
<1>12. CASE remove_proven_stale_socket(p)
  BY <1>12 DEF remove_proven_stale_socket, Goto, TypeOK, Process
<1>13. CASE Bind(p)
  BY <1>13, BindEffect
<1>14. CASE Listen(p)
  BY <1>14, ListenEffect
<1>15. CASE BindFails(p)
  BY <1>15 DEF BindFails, TypeOK, Process
<1>16. CASE OpenStore(p)
  BY <1>16 DEF OpenStore, Goto, TypeOK, Process
<1>17. CASE replace_owner(p)
  BY <1>17 DEF replace_owner, Goto, TypeOK, Process
<1>18. CASE FailStartup(p)
  BY <1>18, FailStartupEffect
<1>19. CASE Quit(p)
  BY <1>19 DEF Quit, Goto, TypeOK, Process
<1>20. CASE CloseStore(p)
  BY <1>20 DEF CloseStore, Goto, AfterStore, TypeOK, Process
<1>21. CASE CloseListener(p)
  BY <1>21 DEF CloseListener, Goto, TypeOK, Process
<1>22. CASE StatOwned(p)
  BY <1>22 DEF StatOwned, Goto, TypeOK, Process
<1>23. CASE UnlinkOwned(p)
  BY <1>23 DEF UnlinkOwned, Goto, TypeOK, Process
<1>24. CASE ReleaseLock(p)
  <2>1. proc'[p] = Idle /\ At(p, "release") /\ UNCHANGED <<sentinel, socket, listener>>
    BY <1>24 DEF ReleaseLock, TypeOK
  <2> QED
    BY <2>1
<1>25. CASE Crash(p)
  BY <1>25, CrashEffect
<1>26. CASE Reap(p)
  BY <1>26, ReapEffect
<1> QED
  BY <1>1, <1>2, <1>3, <1>4, <1>5, <1>6, <1>7, <1>8, <1>9, <1>10, <1>11, <1>12, <1>13,
     <1>14, <1>15, <1>16, <1>17, <1>18, <1>19, <1>20, <1>21, <1>22, <1>23, <1>24, <1>25,
     <1>26 DEF ProcessStep, Continue

\* Types.
LEMMA TypeStep ==
    ASSUME TypeOK, NEW p \in Processes, ProcessStep(p)
    PROVE  TypeOK'
<1> USE OwnershipAssumption, RootTypes, StepShape DEF TypeOK, Idle, Fault, Process
<1>1. CASE Launch(p)
  BY <1>1 DEF Launch, Goto
<1>2. CASE ReadName(p)
  BY <1>2, ReadNameEffect DEF ReadName
<1>3. CASE CreateName(p)
  BY <1>3, CreateNameEffect DEF CreateName
<1>4. CASE WriteName(p)
  BY <1>4 DEF WriteName, Goto
<1>5. CASE try_acquire(p)
  BY <1>5 DEF try_acquire
<1>6. CASE Held(p)
  BY <1>6 DEF Held, Goto
<1>7. CASE preflight_len(p)
  BY <1>7 DEF preflight_len, Settle
<1>8. CASE StatEntries(p)
  BY <1>8, StatEntriesEffect DEF StatEntries
<1>9. CASE publish_sentinel(p)
  BY <1>9 DEF publish_sentinel, Goto
<1>10. CASE CompareSentinel(p)
  BY <1>10, CompareSentinelEffect DEF CompareSentinel
<1>11. CASE ProbeSocket(p)
  BY <1>11, ProbeSocketEffect DEF ProbeSocket
<1>12. CASE remove_proven_stale_socket(p)
  BY <1>12 DEF remove_proven_stale_socket, Goto
<1>13. CASE Bind(p)
  BY <1>13, BindEffect DEF Bind
<1>14. CASE Listen(p)
  BY <1>14 DEF Listen, Process, Settle
<1>15. CASE BindFails(p)
  BY <1>15 DEF BindFails
<1>16. CASE OpenStore(p)
  BY <1>16, ZenonT(40) DEF OpenStore, Goto
<1>17. CASE replace_owner(p)
  BY <1>17 DEF replace_owner, Goto
<1>18. CASE FailStartup(p)
  BY <1>18, FailStartupEffect DEF FailStartup
<1>19. CASE Quit(p)
  BY <1>19 DEF Quit, Goto
<1>20. CASE CloseStore(p)
  BY <1>20 DEF CloseStore, Goto, AfterStore
<1>21. CASE CloseListener(p)
  BY <1>21 DEF CloseListener, Goto
<1>22. CASE StatOwned(p)
  BY <1>22 DEF StatOwned, Goto
<1>23. CASE UnlinkOwned(p)
  BY <1>23 DEF UnlinkOwned, Goto
<1>24. CASE ReleaseLock(p)
  BY <1>24 DEF ReleaseLock
<1>25. CASE Crash(p)
  BY <1>25, CrashEffect DEF Crash
<1>26. CASE Reap(p)
  BY <1>26 DEF Reap, Process, Idle
<1> QED
  BY <1>1, <1>2, <1>3, <1>4, <1>5, <1>6, <1>7, <1>8, <1>9, <1>10, <1>11, <1>12, <1>13,
     <1>14, <1>15, <1>16, <1>17, <1>18, <1>19, <1>20, <1>21, <1>22, <1>23, <1>24, <1>25,
     <1>26 DEF ProcessStep, Continue

-----------------------------------------------------------------------------
(* The steps of emit, and the invariant.                                   *)

\* emit changes nothing but its own progress.
LEMMA ClientStep ==
    ASSUME IInv, NEW c \in Clients, resolve_controller_socket(c) \/ EmitConnect(c)
    PROVE  IInv'
<1>1. /\ UNCHANGED <<rootOf, proc, lock, nameFile, sentinel, socket, listener, store, record, faults>>
      /\ \/ sentinel = NameOf[c] /\ emit' = [emit EXCEPT ![c] = "resolved"]
         \/ emit' = [emit EXCEPT ![c] = "idle"]
  BY DEF resolve_controller_socket, EmitConnect
<1>2. TypeOK'
  BY <1>1 DEF IInv, TypeOK
<1>3. LockHeld' /\ NamesRead' /\ StoreOwned' /\ SocketOwned'
  BY <1>1 DEF IInv, LockHeld, NamesRead, StoreOwned, SocketOwned, Root, At
<1>4. SentinelRead'
  BY <1>1 DEF IInv, TypeOK, SentinelRead, At
<1> QED
  BY <1>2, <1>3, <1>4 DEF IInv

\* Every step keeps the invariant.
LEMMA Inductive ==
    ASSUME IInv, [Next]_vars
    PROVE  IInv'
<1>1. ASSUME NEW p \in Processes, ProcessStep(p)
      PROVE  IInv'
  <2>1. TypeOK'
    BY <1>1, TypeStep DEF IInv
  <2> QED
    BY <1>1, <2>1, LockHeldStep, NamesReadStep, StoreOwnedStep, SentinelReadStep, SocketOwnedStep
    DEF IInv
<1>2. ASSUME NEW c \in Clients, resolve_controller_socket(c) \/ EmitConnect(c)
      PROVE  IInv'
  BY <1>2, ClientStep
<1>3. CASE UNCHANGED vars
  BY <1>3 DEF vars, IInv, TypeOK, LockHeld, NamesRead, StoreOwned, SentinelRead, SocketOwned, Root, At
<1> QED
  BY <1>1, <1>2, <1>3 DEF Next, ProcessStep

\* Every initial state satisfies the invariant.
LEMMA Initially ==
    ASSUME Init
    PROVE  IInv
<1> USE OwnershipAssumption DEF Init, Idle
<1>1. TypeOK
  <2>1. Idle \in Process
    BY DEF Process, ProgramPoints, InputStates
  <2>2. sentinel \in Names \cup {None, Malformed} /\ socket \in Inodes \cup {None}
    <3>1. (CHOOSE inode \in Inodes : TRUE) \in Inodes
      OBVIOUS
    <3>2. PICK left \in Leftovers : sentinel = left[1] /\ socket = left[2]
      OBVIOUS
    <3> QED
      BY <3>1, <3>2 DEF Leftovers
  <2> QED
    BY <2>1, <2>2 DEF TypeOK
<1>2. LockHeld /\ NamesRead /\ StoreOwned
  BY DEF LockHeld, NamesRead, StoreOwned, Owning, Preparing, Closing, At
<1>3. SentinelRead /\ SocketOwned
  BY DEF SentinelRead, SocketOwned, Touching, Serving, Closing, At
<1> QED
  BY <1>1, <1>2, <1>3 DEF IInv

\* The inductive invariant holds in every reachable state.
THEOREM Invariant == Spec => []IInv
<1>1. Init => IInv
  BY Initially
<1>2. IInv /\ [Next]_vars => IInv'
  BY Inductive
<1> QED
  BY <1>1, <1>2, PTL DEF Spec

-----------------------------------------------------------------------------
(* The theorems.                                                           *)

\* The state keeps its types, whatever launches, clients, crashes and failures do.
THEOREM OwnershipTypes == Spec => []TypeOK
<1>1. IInv => TypeOK
  BY DEF IInv
<1> QED
  BY <1>1, Invariant, PTL

\* No two processes ever have one database open for writing, and the one that has it holds
\* the lock (LockFile::try_acquire) of a state root of its own session.
THEOREM OnlyOneWriter == Spec => []OneWriter
<1>1. ASSUME IInv PROVE OneWriter
  <2> SUFFICES ASSUME NEW r \in Roots, NEW p \in store[r]
               PROVE  /\ store[r] = {p} /\ lock[r] = p /\ nameFile[r] = NameOf[p]
                      /\ At(p, "running") => record[r] = p
    BY DEF OneWriter
  <2>1. \A q \in store[r] : q \in Processes /\ r = Root(q) /\ proc[q].pc \in Owning
    BY <1>1 DEF IInv, TypeOK, StoreOwned, Owning, Closing
  <2>2. \A q \in store[r] : lock[r] = q
    BY <1>1, <2>1 DEF IInv, LockHeld
  <2>3. store[r] = {p}
    BY <2>2
  <2>4. nameFile[r] = NameOf[p] /\ (At(p, "running") => record[r] = p)
    BY <1>1, <2>1 DEF IInv, NamesRead, StoreOwned
  <2> QED
    BY <2>2, <2>3, <2>4
<1> QED
  BY <1>1, Invariant, PTL

\* The Controller socket of a running owner leads to that owner and to nobody else: no
\* predecessor, successor or colliding session removes or replaces the entry.
THEOREM SocketStaysReachable == Spec => []BoundStaysReachable
<1>1. ASSUME IInv PROVE BoundStaysReachable
  <2> SUFFICES ASSUME NEW p \in Processes, At(p, "running"), proc[p].input = "Bound"
               PROVE  Answering = {p}
    BY DEF BoundStaysReachable
  <2>1. listener[p] # None /\ listener[p] = socket
    BY <1>1 DEF IInv, SocketOwned, Serving, At
  <2>2. \A q \in Processes \ {p} : listener[q] # socket
    BY <1>1, <2>1 DEF IInv, SocketOwned
  <2> QED
    BY <2>1, <2>2 DEF Answering
<1> QED
  BY <1>1, Invariant, PTL

\* What emit sends after it has checked the sentinel reaches its own session or nobody.
THEOREM EmitStaysInItsSession == Spec => []EmitReachesItsSession
<1>1. IInv => EmitReachesItsSession
  BY DEF IInv, SentinelRead, EmitReachesItsSession, Answering
<1> QED
  BY <1>1, Invariant, PTL

\* RefusalsJustified for one process.
Refusal(p) ==
    proc[p].input = "none" =>
      /\ proc'[p].input = "BindFailure" => faults' # faults
      /\ proc'[p].input = "Collision" => sentinel \in Names \ {NameOf[p]}
      /\ proc'[p].input = "LiveEndpointUnderLock" =>
           \E q \in Answering : At(q, "dying") /\ NameOf[q] = NameOf[p]

\* A process step refuses Controller input only for a reason that exists.
LEMMA RefusalStep ==
    ASSUME IInv, NEW p \in Processes, ProcessStep(p)
    PROVE  Refusal(p)
<1>a. TypeOK /\ \A q \in Processes : Root(q) \in Roots /\ NameOf[q] \in Names
  BY RootTypes DEF IInv
<1>b. /\ faults \in Nat
      /\ sentinel \in Names \cup {None, "malformed"}
  BY OwnershipAssumption DEF IInv, TypeOK, Malformed
<1>c. /\ \A q \in Processes \ {p} : proc'[q] = proc[q]
      /\ rootOf' = rootOf /\ emit' = emit
  BY <1>a, StepShape
<1> USE <1>a, <1>b, <1>c
       DEF IInv, LockHeld, SentinelRead, SocketOwned, Root, Touching, Serving, Owning,
           Answering, Refusal, Fault, At, SameEntry, Preparing, Closing, Initialising,
           Idle
<1>1. CASE Launch(p)
  BY <1>1 DEF Launch, Goto, TypeOK, Process
<1>2. CASE ReadName(p)
  BY <1>2, ReadNameEffect
<1>3. CASE CreateName(p)
  BY <1>3, CreateNameEffect
<1>4. CASE WriteName(p)
  BY <1>4 DEF WriteName, Goto, TypeOK, Process
<1>5. CASE try_acquire(p)
  BY <1>5, AcquireEffect
<1>6. CASE Held(p)
  BY <1>6 DEF Held, Goto, TypeOK, Process
<1>7. CASE preflight_len(p)
  BY <1>7 DEF preflight_len, Settle, TypeOK, Process
<1>8. CASE StatEntries(p)
  BY <1>8, StatEntriesEffect
<1>9. CASE publish_sentinel(p)
  BY <1>9 DEF publish_sentinel, Goto, TypeOK, Process
<1>10. CASE CompareSentinel(p)
  BY <1>10, CompareSentinelEffect
<1>11. CASE ProbeSocket(p)
  BY <1>11, ProbeSocketEffect
<1>12. CASE remove_proven_stale_socket(p)
  BY <1>12 DEF remove_proven_stale_socket, Goto, TypeOK, Process
<1>13. CASE Bind(p)
  BY <1>13, BindEffect
<1>14. CASE Listen(p)
  BY <1>14, ListenEffect
<1>15. CASE BindFails(p)
  BY <1>15 DEF BindFails, TypeOK, Process
<1>16. CASE OpenStore(p)
  BY <1>16 DEF OpenStore, Goto, TypeOK, Process
<1>17. CASE replace_owner(p)
  BY <1>17 DEF replace_owner, Goto, TypeOK, Process
<1>18. CASE FailStartup(p)
  BY <1>18, FailStartupEffect
<1>19. CASE Quit(p)
  BY <1>19 DEF Quit, Goto, TypeOK, Process
<1>20. CASE CloseStore(p)
  BY <1>20 DEF CloseStore, Goto, AfterStore, TypeOK, Process
<1>21. CASE CloseListener(p)
  BY <1>21 DEF CloseListener, Goto, TypeOK, Process
<1>22. CASE StatOwned(p)
  BY <1>22 DEF StatOwned, Goto, TypeOK, Process
<1>23. CASE UnlinkOwned(p)
  BY <1>23 DEF UnlinkOwned, Goto, TypeOK, Process
<1>24. CASE ReleaseLock(p)
  BY <1>24 DEF ReleaseLock, TypeOK, Process
<1>25. CASE Crash(p)
  BY <1>25, CrashEffect
<1>26. CASE Reap(p)
  BY <1>26, ReapEffect
<1> QED
  BY <1>1, <1>2, <1>3, <1>4, <1>5, <1>6, <1>7, <1>8, <1>9, <1>10, <1>11, <1>12, <1>13,
     <1>14, <1>15, <1>16, <1>17, <1>18, <1>19, <1>20, <1>21, <1>22, <1>23, <1>24, <1>25,
     <1>26 DEF ProcessStep, Continue

\* A stale socket is always recovered; an owner goes without Controller input only because
\* of a failing system call, a colliding session or a crashed predecessor's listener.
THEOREM RefusalsAreJustified == Spec => RefusalsJustified
<1>1. ASSUME IInv, [Next]_vars
      PROVE  [\A p \in Processes : Refusal(p)]_vars
  <2>1. ASSUME NEW p \in Processes, ProcessStep(p), NEW q \in Processes
        PROVE  Refusal(q)
    <3>1. CASE q = p
      BY <1>1, <2>1, <3>1, RefusalStep
    <3>2. CASE q # p
      <4>1. proc'[q] = proc[q]
        BY <1>1, <2>1, <3>2, StepShape DEF IInv
      <4> QED
        BY <4>1 DEF Refusal
    <3> QED
      BY <3>1, <3>2
  <2>2. ASSUME NEW c \in Clients, resolve_controller_socket(c) \/ EmitConnect(c),
               NEW q \in Processes
        PROVE  Refusal(q)
    <3>1. proc' = proc
      BY <2>2 DEF resolve_controller_socket, EmitConnect
    <3> QED
      BY <3>1 DEF Refusal
  <2> QED
    BY <1>1, <2>1, <2>2 DEF Next, ProcessStep
<1> QED
  BY <1>1, Invariant, PTL DEF RefusalsJustified, Refusal, Spec

=============================================================================
