------------------------------ MODULE Ownership ------------------------------
(***************************************************************************)
(* Who owns a session: launches, the owner lock, the session-name file,    *)
(* the runtime sentinel, the Controller socket and the owner record        *)
(* (src/lockfile.rs, src/rendezvous.rs, src/main.rs).                      *)
(*                                                                         *)
(* Every launch initialises the session's state root and tries its lock.   *)
(* The winner prepares the Controller socket, opens the store, replaces    *)
(* the owner record and runs; the others read the record and leave.  A     *)
(* step is one system call on what launches share.  A process may crash    *)
(* anywhere; the kernel then closes its descriptors one by one.            *)
(*                                                                         *)
(* All names have the same 16 hash digits, hence the same socket and       *)
(* sentinel: either by being the same name or by colliding.  Whether       *)
(* colliding names also share their state root depends on the readable     *)
(* part of the key.  Names with different hashes do not meet at all.       *)
(***************************************************************************)
EXTENDS Naturals, FiniteSets

CONSTANTS
    Processes,  \* monitor launches; a process may be launched again
    Clients,    \* runs of emit
    Names,      \* session names with the same hash digits
    NameOf,     \* the session each process and client resolves
    Roots,      \* state roots
    Layouts,    \* possible maps from names to state roots
    Inodes,     \* inode numbers of socket entries, reused by the file system
    None,
    MaxFaults   \* bound on crashes and failing system calls

ASSUME OwnershipAssumption ==
    /\ NameOf \in [Processes \cup Clients -> Names]
    /\ Layouts \subseteq [Names -> Roots]
    /\ Inodes # {}
    /\ None \notin Processes \cup Names \cup Inodes
    /\ "empty" \notin Names /\ "malformed" \notin Names
    /\ None # "empty" /\ None # "malformed"
    /\ MaxFaults \in Nat

VARIABLES
    rootOf,     \* where each name's state lives; never changes
    proc,       \* per process: program point, Controller input, its socket's inode
    lock,       \* per root: holder of the flock on the lock file
    nameFile,   \* per root: session-name.txt
    sentinel,   \* the runtime sentinel
    socket,     \* the Controller socket's directory entry
    listener,   \* per process: the inode its open listening socket is bound to
    store,      \* per root: processes with the database open for writing
    record,     \* per root: the owner row
    emit,       \* per client: progress
    faults

vars == <<rootOf, proc, lock, nameFile, sentinel, socket, listener, store, record, emit, faults>>

Root(p) == rootOf[NameOf[p]]

-----------------------------------------------------------------------------
(* State.                                                                  *)

Initialising == {"read", "create", "write", "reread", "lock"}
Preparing == {"stat", "publish", "compare", "probe", "remove", "bind", "listen"}
Closing == {"closeStore", "closeListener", "statOwned", "unlink", "release"}
ProgramPoints == Initialising \cup Preparing \cup Closing
                   \cup {"idle", "held", "open", "record", "running", "dying"}

\* ControllerSocketStatus; "none" before it is known.
InputStates == {"none", "Bound", "UnsafeOrphan", "SentinelMalformed", "Collision",
                "LiveEndpointUnderLock", "BindFailure", "PathTooLong"}

Empty == "empty"            \* a session-name file without content
Malformed == "malformed"    \* a sentinel that is not a private regular file

Process == [pc : ProgramPoints, input : InputStates, inode : Inodes \cup {None}]
Idle == [pc |-> "idle", input |-> "none", inode |-> None]

TypeOK ==
    /\ rootOf \in Layouts
    /\ proc \in [Processes -> Process]
    /\ lock \in [Roots -> Processes \cup {None}]
    /\ nameFile \in [Roots -> Names \cup {None, Empty}]
    /\ sentinel \in Names \cup {None, Malformed}
    /\ socket \in Inodes \cup {None}
    /\ listener \in [Processes -> Inodes \cup {None}]
    /\ store \in [Roots -> SUBSET Processes]
    /\ record \in [Roots -> Processes \cup {None}]
    /\ emit \in [Clients -> {"idle", "resolved"}]
    /\ faults \in 0 .. MaxFaults

\* The runtime directory may hold what an earlier boot, a cleaner or a user left there.
Leftovers == {<<None, None>>, <<Malformed, None>>}
               \cup ((Names \cup {None}) \X {CHOOSE inode \in Inodes : TRUE})

Init ==
    /\ rootOf \in Layouts
    /\ proc = [p \in Processes |-> Idle]
    /\ lock = [r \in Roots |-> None]
    /\ nameFile = [r \in Roots |-> None]
    /\ \E left \in Leftovers : sentinel = left[1] /\ socket = left[2]
    /\ listener = [p \in Processes |-> None]
    /\ store = [r \in Roots |-> {}]
    /\ record = [r \in Roots |-> None]
    /\ emit = [c \in Clients |-> "idle"]
    /\ faults = 0

Fault == faults < MaxFaults /\ faults' = faults + 1

At(p, pc) == proc[p].pc = pc
Goto(p, pc) == proc' = [proc EXCEPT ![p].pc = pc]

\* The process whose listening socket the entry leads to, if any.
Answering == {p \in Processes : listener[p] # None /\ listener[p] = socket}

-----------------------------------------------------------------------------
(* The state root and its session-name file.                               *)

Launch(p) ==
    /\ At(p, "idle")
    /\ Goto(p, "read")
    /\ UNCHANGED <<rootOf, lock, nameFile, sentinel, socket, listener, store, record, emit, faults>>

\* validate_sentinel
NameAccepted(p) == nameFile[Root(p)] = NameOf[p]

\* A missing file is an interrupted first creation; another content is a NameMismatch error.
ReadName(p) ==
    /\ \/ At(p, "read") /\ Goto(p, IF nameFile[Root(p)] = None THEN "create"
                                   ELSE IF NameAccepted(p) THEN "lock" ELSE "idle")
       \/ At(p, "reread") /\ Goto(p, IF NameAccepted(p) THEN "lock" ELSE "idle")
    /\ UNCHANGED <<rootOf, lock, nameFile, sentinel, socket, listener, store, record, emit, faults>>

CreateName(p) ==
    /\ At(p, "create")
    /\ IF nameFile[Root(p)] = None
       THEN Goto(p, "write") /\ nameFile' = [nameFile EXCEPT ![Root(p)] = Empty]
       ELSE Goto(p, "reread") /\ UNCHANGED nameFile
    /\ UNCHANGED <<rootOf, lock, sentinel, socket, listener, store, record, emit, faults>>

WriteName(p) ==
    /\ At(p, "write")
    /\ Goto(p, "lock")
    /\ nameFile' = [nameFile EXCEPT ![Root(p)] = NameOf[p]]
    /\ UNCHANGED <<rootOf, lock, sentinel, socket, listener, store, record, emit, faults>>

-----------------------------------------------------------------------------
(* The lock, and the launch that does not get it.                          *)

try_acquire(p) ==
    /\ At(p, "lock")
    /\ IF lock[Root(p)] = None
       THEN Goto(p, "stat") /\ lock' = [lock EXCEPT ![Root(p)] = p]
       ELSE Goto(p, "held") /\ UNCHANGED lock
    /\ UNCHANGED <<rootOf, nameFile, sentinel, socket, listener, store, record, emit, faults>>

\* The owner's pane is focused, or the attempts to read its record run out (OwnerStarting).
Held(p) ==
    /\ At(p, "held")
    /\ Goto(p, "idle")
    /\ UNCHANGED <<rootOf, lock, nameFile, sentinel, socket, listener, store, record, emit, faults>>

-----------------------------------------------------------------------------
(* prepare_controller_socket                                               *)

Settle(p, input) == proc' = [proc EXCEPT ![p].pc = "open", ![p].input = input]

\* The socket's path does not fit into a socket address.
preflight_len(p) ==
    /\ At(p, "stat")
    /\ Settle(p, "PathTooLong")
    /\ UNCHANGED <<rootOf, lock, nameFile, sentinel, socket, listener, store, record, emit, faults>>

\* The orphan check comes before publication: a new sentinel would legitimise the socket.
StatEntries(p) ==
    /\ At(p, "stat")
    /\ CASE socket # None /\ sentinel = None -> Settle(p, "UnsafeOrphan")
         [] sentinel = Malformed -> Settle(p, "SentinelMalformed")
         [] OTHER -> Goto(p, IF sentinel = None THEN "publish" ELSE "compare")
    /\ UNCHANGED <<rootOf, lock, nameFile, sentinel, socket, listener, store, record, emit, faults>>

\* A synced temporary file is linked into place unless a sentinel is there already.
publish_sentinel(p) ==
    /\ At(p, "publish")
    /\ Goto(p, "compare")
    /\ sentinel' = IF sentinel = None THEN NameOf[p] ELSE sentinel
    /\ UNCHANGED <<rootOf, lock, nameFile, socket, listener, store, record, emit, faults>>

CompareSentinel(p) ==
    /\ At(p, "compare")
    /\ IF sentinel = NameOf[p] THEN Goto(p, "probe") ELSE Settle(p, "Collision")
    /\ UNCHANGED <<rootOf, lock, nameFile, sentinel, socket, listener, store, record, emit, faults>>

ProbeSocket(p) ==
    /\ At(p, "probe")
    /\ CASE socket = None -> Goto(p, "bind")
         [] socket # None /\ Answering # {} -> Settle(p, "LiveEndpointUnderLock")
         [] OTHER -> Goto(p, "remove")
    /\ UNCHANGED <<rootOf, lock, nameFile, sentinel, socket, listener, store, record, emit, faults>>

\* Mutant: a refused connection is taken for an entry that bind replaces.
remove_proven_stale_socket_skipped(p) ==
    /\ At(p, "remove")
    /\ Goto(p, "bind")
    /\ UNCHANGED <<rootOf, lock, nameFile, sentinel, socket, listener, store, record, emit, faults>>

remove_proven_stale_socket(p) ==
    /\ At(p, "remove")
    /\ Goto(p, "bind")
    /\ socket' = None
    /\ UNCHANGED <<rootOf, lock, nameFile, sentinel, listener, store, record, emit, faults>>

\* The entry exists before the socket listens; an entry in the way makes the bind fail.
Bind(p) ==
    /\ At(p, "bind")
    /\ \/ /\ socket # None
          /\ Settle(p, "BindFailure")
          /\ UNCHANGED socket
       \/ \E inode \in Inodes :
            /\ socket = None
            /\ inode \notin {listener[q] : q \in Processes}
            /\ socket' = inode
            /\ proc' = [proc EXCEPT ![p].pc = "listen", ![p].inode = inode]
    /\ UNCHANGED <<rootOf, lock, nameFile, sentinel, listener, store, record, emit, faults>>

Listen(p) ==
    /\ At(p, "listen")
    /\ Settle(p, "Bound")
    /\ listener' = [listener EXCEPT ![p] = proc[p].inode]
    /\ UNCHANGED <<rootOf, lock, nameFile, sentinel, socket, store, record, emit, faults>>

\* The bind itself fails, or what follows it: the entry is unlinked, except when its
\* metadata could not be read.
BindFails(p) ==
    /\ Fault
    /\ \/ At(p, "bind") /\ socket = None /\ UNCHANGED socket
       \/ At(p, "listen") /\ socket' \in {socket, None}
    /\ proc' = [proc EXCEPT ![p].pc = "open", ![p].input = "BindFailure", ![p].inode = None]
    /\ UNCHANGED <<rootOf, lock, nameFile, sentinel, listener, store, record, emit>>

-----------------------------------------------------------------------------
(* The owner's life, its orderly end and its crash.                        *)

OpenStore(p) ==
    /\ At(p, "open")
    /\ Goto(p, "record")
    /\ store' = [store EXCEPT ![Root(p)] = @ \cup {p}]
    /\ UNCHANGED <<rootOf, lock, nameFile, sentinel, socket, listener, record, emit, faults>>

replace_owner(p) ==
    /\ At(p, "record")
    /\ Goto(p, "running")
    /\ record' = [record EXCEPT ![Root(p)] = p]
    /\ UNCHANGED <<rootOf, lock, nameFile, sentinel, socket, listener, store, emit, faults>>

\* What unwinding has to undo after the store is closed.
AfterStore(p) == IF proc[p].input = "Bound" THEN "closeListener" ELSE "release"

\* A failing step of startup; what was acquired is dropped in reverse order.
FailStartup(p) ==
    /\ Fault
    /\ \/ proc[p].pc \in Preparing \ {"bind", "listen"} /\ Goto(p, "release")
       \/ At(p, "open") /\ Goto(p, AfterStore(p))
       \/ At(p, "record") /\ Goto(p, "closeStore")
    /\ UNCHANGED <<rootOf, lock, nameFile, sentinel, socket, listener, store, record, emit>>

Quit(p) ==
    /\ At(p, "running")
    /\ Goto(p, "closeStore")
    /\ UNCHANGED <<rootOf, lock, nameFile, sentinel, socket, listener, store, record, emit, faults>>

\* Mutant: the lock is not kept until the writer has finished.
CloseStore_unlocked(p) ==
    /\ \/ At(p, "closeStore") /\ lock[Root(p)] = p /\ UNCHANGED <<proc, store>>
       \/ /\ At(p, "closeStore") /\ lock[Root(p)] # p
          /\ Goto(p, AfterStore(p))
          /\ store' = [store EXCEPT ![Root(p)] = @ \ {p}]
    /\ lock' = [lock EXCEPT ![Root(p)] = IF @ = p THEN None ELSE @]
    /\ UNCHANGED <<rootOf, nameFile, sentinel, socket, listener, record, emit, faults>>

\* CollectorHandle::stop, then WriterLifecycle::shutdown.
CloseStore(p) ==
    /\ At(p, "closeStore")
    /\ Goto(p, AfterStore(p))
    /\ store' = [store EXCEPT ![Root(p)] = @ \ {p}]
    /\ UNCHANGED <<rootOf, lock, nameFile, sentinel, socket, listener, record, emit, faults>>

\* Mutant: the lock is given back before the socket entry is removed.
CloseListener_unlocks(p) ==
    /\ At(p, "closeListener")
    /\ Goto(p, "statOwned")
    /\ listener' = [listener EXCEPT ![p] = None]
    /\ lock' = [lock EXCEPT ![Root(p)] = None]
    /\ UNCHANGED <<rootOf, nameFile, sentinel, socket, store, record, emit, faults>>

CloseListener(p) ==
    /\ At(p, "closeListener")
    /\ Goto(p, "statOwned")
    /\ listener' = [listener EXCEPT ![p] = None]
    /\ UNCHANGED <<rootOf, lock, nameFile, sentinel, socket, store, record, emit, faults>>

\* unlink_owned: first the entry's identity, then, a system call later, the unlink.
StatOwned(p) ==
    /\ At(p, "statOwned")
    /\ Goto(p, IF socket = proc[p].inode THEN "unlink" ELSE "release")
    /\ UNCHANGED <<rootOf, lock, nameFile, sentinel, socket, listener, store, record, emit, faults>>

UnlinkOwned(p) ==
    /\ At(p, "unlink")
    /\ Goto(p, "release")
    /\ socket' = None
    /\ UNCHANGED <<rootOf, lock, nameFile, sentinel, listener, store, record, emit, faults>>

ReleaseLock(p) ==
    /\ At(p, "release")
    /\ proc' = [proc EXCEPT ![p] = Idle]
    /\ lock' = [lock EXCEPT ![Root(p)] = IF @ = p THEN None ELSE @]
    /\ UNCHANGED <<rootOf, nameFile, sentinel, socket, listener, store, record, emit, faults>>

\* Its threads are gone at once, so nothing writes any more.
Crash(p) ==
    /\ Fault
    /\ proc[p].pc \notin {"idle", "dying"}
    /\ proc' = [proc EXCEPT ![p] = [Idle EXCEPT !.pc = "dying"]]
    /\ store' = [store EXCEPT ![Root(p)] = @ \ {p}]
    /\ UNCHANGED <<rootOf, lock, nameFile, sentinel, socket, listener, record, emit>>

\* The kernel closes a dead process's descriptors in some order.
Reap(p) ==
    /\ At(p, "dying")
    /\ \/ /\ lock[Root(p)] = p
          /\ lock' = [lock EXCEPT ![Root(p)] = None]
          /\ UNCHANGED <<proc, listener>>
       \/ /\ listener[p] # None
          /\ listener' = [listener EXCEPT ![p] = None]
          /\ UNCHANGED <<proc, lock>>
       \/ /\ lock[Root(p)] # p /\ listener[p] = None
          /\ proc' = [proc EXCEPT ![p] = Idle]
          /\ UNCHANGED <<lock, listener>>
    /\ UNCHANGED <<rootOf, nameFile, sentinel, socket, store, record, emit, faults>>

-----------------------------------------------------------------------------
(* emit: validate the sentinel, then connect.                              *)

\* Mutant: the sentinel is not read.
resolve_controller_socket_unchecked(c) ==
    /\ emit[c] = "idle" /\ sentinel # None
    /\ emit' = [emit EXCEPT ![c] = "resolved"]
    /\ UNCHANGED <<rootOf, proc, lock, nameFile, sentinel, socket, listener, store, record, faults>>

resolve_controller_socket(c) ==
    /\ emit[c] = "idle" /\ sentinel = NameOf[c]
    /\ emit' = [emit EXCEPT ![c] = "resolved"]
    /\ UNCHANGED <<rootOf, proc, lock, nameFile, sentinel, socket, listener, store, record, faults>>

\* It reaches whoever answers at that moment, or nobody.
EmitConnect(c) ==
    /\ emit[c] = "resolved"
    /\ emit' = [emit EXCEPT ![c] = "idle"]
    /\ UNCHANGED <<rootOf, proc, lock, nameFile, sentinel, socket, listener, store, record, faults>>

-----------------------------------------------------------------------------

\* What a live process does next without any choice of its operator.
Continue(p) ==
    \/ ReadName(p) \/ CreateName(p) \/ WriteName(p)
    \/ try_acquire(p) \/ Held(p)
    \/ preflight_len(p) \/ StatEntries(p) \/ publish_sentinel(p)
    \/ CompareSentinel(p) \/ ProbeSocket(p) \/ remove_proven_stale_socket(p)
    \/ Bind(p) \/ Listen(p) \/ OpenStore(p) \/ replace_owner(p)
    \/ CloseStore(p) \/ CloseListener(p) \/ StatOwned(p) \/ UnlinkOwned(p) \/ ReleaseLock(p)
    \/ Reap(p)

Next ==
    \/ \E p \in Processes :
         Continue(p) \/ Launch(p) \/ Quit(p) \/ BindFails(p) \/ FailStartup(p) \/ Crash(p)
    \/ \E c \in Clients : resolve_controller_socket(c) \/ EmitConnect(c)

Spec == Init /\ [][Next]_vars

-----------------------------------------------------------------------------
(* Properties.                                                             *)

\* Whatever owners, successors and crashed predecessors overlap, no two processes have the
\* same database open for writing; the one that has it holds the lock of its state root and
\* is of the session the root belongs to, and the owner row names it while it runs.
OneWriter ==
    \A r \in Roots : \A p \in store[r] :
        /\ store[r] = {p}
        /\ lock[r] = p
        /\ nameFile[r] = NameOf[p]
        /\ At(p, "running") => record[r] = p

\* Nobody takes the socket of a running owner away: neither a predecessor that is still
\* shutting down, nor a successor of a crashed one, nor a session with the same hash.
BoundStaysReachable ==
    \A p \in Processes :
        At(p, "running") /\ proc[p].input = "Bound" => Answering = {p}

\* An event is never delivered to another session, whatever happens between the check of
\* the sentinel and the connection.
EmitReachesItsSession ==
    \A c \in Clients : \A p \in Answering : emit[c] = "resolved" => NameOf[p] = NameOf[c]

\* An owner goes without Controller input only for a reason that exists: a stale socket is
\* always recovered, so a bind fails only by a fault, and a live endpoint under the lock is
\* the listener of a crashed predecessor that the kernel has not closed yet.
RefusalsJustified ==
    [][\A p \in Processes :
         proc[p].input = "none" =>
           /\ proc'[p].input = "BindFailure" => faults' # faults
           /\ proc'[p].input = "Collision" => sentinel \in Names \ {NameOf[p]}
           /\ proc'[p].input = "LiveEndpointUnderLock" =>
                \E q \in Answering : At(q, "dying") /\ NameOf[q] = NameOf[p]]_vars

=============================================================================
