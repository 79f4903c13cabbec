------------------------------ MODULE LogTail ------------------------------
(***************************************************************************)
(* Following one provider log (src/provider/tail.rs).  A tail is only ever *)
(* told a path: every look at the file opens it again, first to stat it    *)
(* and then to read a chunk, and between the two, and between two polls,   *)
(* the provider may append to the file, replace it or truncate it.  The    *)
(* module is shown to implement LogFeed.                                   *)
(***************************************************************************)
EXTENDS Integers, Sequences, SequencesExt, FiniteSetsExt

CONSTANTS
    NewLine, Return,    \* the bytes a line may end with
    OtherBytes,         \* all the others the model tells apart
    TailChunk,          \* MAX_TAIL_CHUNK_BYTES
    MaxRecord,          \* MAX_TAIL_RECORD_BYTES
    MaxBytes,           \* bound: the bytes written under the path
    MaxFiles            \* bound: replacements and truncations

ASSUME TailAssumption ==
    /\ NewLine # Return
    /\ {NewLine, Return} \cap OtherBytes = {}
    /\ TailChunk \in Nat \ {0} /\ MaxRecord \in Nat
    /\ MaxBytes \in Nat /\ MaxFiles \in Nat

VARIABLES
    file,       \* what the path names: [inode, life, bytes, written]
    tail,       \* TailFile
    goalpost,   \* the size frozen for this cycle
    looking,    \* "idle", "read" (stat done), "reread" (another file met)
    \* Histories:
    followed,   \* [life, bytes]: the file whose records are to be fed
    records,    \* the records returned since the tail last started over
    unseen,     \* the file was rewritten in place where no look could tell
    doubted     \* the size remembered is that of a file already left

tailVars == <<file, tail, goalpost, looking, followed, records, unseen, doubted>>

Size == Len(file.bytes)

\* TailFile::open: production opens with an empty baseline, so at offset 0.
TailOpened ==
    [offset |-> 0, identity |-> file.inode, lastSize |-> Size, generation |-> 0,
     partial |-> <<>>, partialOffset |-> 0, discarding |-> FALSE]

TailInit ==
    /\ file = [inode |-> 0, life |-> 0, bytes |-> <<>>, written |-> 0]
    /\ tail = TailOpened
    /\ goalpost = 0
    /\ looking = "idle"
    /\ followed = [life |-> 0, bytes |-> <<>>]
    /\ records = <<>>
    /\ unseen = FALSE
    /\ doubted = FALSE

----------------------------------------------------------------------------
(* The provider that writes the log. *)

AppendByte(b) ==
    /\ file.written < MaxBytes
    /\ file' = [file EXCEPT !.bytes = Append(@, b), !.written = @ + 1]
    /\ followed' = IF followed.life = file.life
                   THEN [followed EXCEPT !.bytes = file'.bytes] ELSE followed
    /\ UNCHANGED <<tail, goalpost, looking, records, unseen, doubted>>

\* Another file under the same path (inode + 1), or the same one cut to zero.
ReplaceFile(inode) ==
    /\ file.life < MaxFiles
    /\ file' = [file EXCEPT !.inode = inode, !.life = @ + 1, !.bytes = <<>>]
    /\ UNCHANGED <<tail, goalpost, looking, followed, records, unseen, doubted>>

----------------------------------------------------------------------------
(* One look of the tail. *)

StartedOver(t) ==
    [t EXCEPT !.generation = @ + 1, !.offset = 0, !.partial = <<>>,
              !.partialOffset = 0, !.discarding = FALSE, !.identity = file.inode]

\* Mutant: a file of the size remembered is taken for a truncated one.
ObserveSnapshotAgain ==
    LET over == file.inode # tail.identity \/ Size <= tail.lastSize \/ Size < tail.offset
    IN  [(IF over THEN StartedOver(tail) ELSE tail) EXCEPT !.lastSize = Size]

\* observe_snapshot
ObserveSnapshot ==
    LET rotated   == file.inode # tail.identity
        truncated == Size < tail.lastSize \/ Size < tail.offset
    IN  [(IF rotated \/ truncated THEN StartedOver(tail) ELSE tail)
            EXCEPT !.lastSize = Size]

\* Whether this look can tell that the path no longer names the file followed:
\* another inode, or the same one shorter than remembered.
Visible ==
    \/ file.inode # tail.identity
    \/ looking = "idle" /\ (Size < tail.lastSize \/ Size < tail.offset)

\* The state after a look and the records returned in this generation.  The
\* feed is from now on that of the file looked at when the change is visible
\* or when nothing of the old one had been read; a change that is neither
\* stays unseen.
Install(t, returned) ==
    /\ tail' = t
    /\ records' = (IF t.generation = tail.generation THEN records ELSE <<>>) \o returned
    /\ IF file.life = followed.life THEN UNCHANGED <<followed, unseen>>
       ELSE IF Visible \/ tail.offset = 0
            THEN followed' = [life |-> file.life, bytes |-> file.bytes] /\ unseen' = FALSE
            ELSE unseen' = TRUE /\ UNCHANGED followed

\* A look that remembers the size it has seen leaves no doubt.
Look(t, returned) == Install(t, returned) /\ doubted' = FALSE

\* The parts of a chunk between its newlines, the last one open.
Segments(bytes) ==
    LET ends == {i \in DOMAIN bytes : bytes[i] = NewLine} \cup {Len(bytes)}
        cut  == SetToSortSeq(ends \ {0}, <)
        at(i) == IF i = 1 THEN 0 ELSE cut[i - 1]
    IN  [i \in DOMAIN cut |->
            LET closed == bytes[cut[i]] = NewLine
            IN  [text |-> SubSeq(bytes, at(i) + 1, IF closed THEN cut[i] - 1 ELSE cut[i]),
                 closed |-> closed, next |-> cut[i]]]

DropReturn(bytes) ==
    IF bytes # <<>> /\ Last(bytes) = Return THEN Front(bytes) ELSE bytes

Data(t, bytes) == [offset |-> t.partialOffset, long |-> FALSE, bytes |-> bytes]
TooLong(t)     == [offset |-> t.partialOffset, long |-> TRUE, bytes |-> <<>>]

\* One turn of the loop of accept_bytes.
AcceptSegment(start, got, segment) ==
    LET t    == got.tail
        all  == t.partial \o segment.text
        long == Len(all) > MaxRecord
        then(u, r) == [tail |-> u, records |-> got.records \o r]
    IN  CASE t.discarding /\ segment.closed ->
                then([t EXCEPT !.discarding = FALSE,
                               !.partialOffset = start + segment.next], <<>>)
          [] t.discarding /\ ~segment.closed -> got
          [] ~t.discarding /\ segment.closed ->
                then([t EXCEPT !.partial = <<>>, !.partialOffset = start + segment.next],
                     <<IF long THEN TooLong(t) ELSE Data(t, DropReturn(all))>>)
          [] ~t.discarding /\ ~segment.closed /\ long ->
                then([t EXCEPT !.partial = <<>>, !.discarding = TRUE], <<TooLong(t)>>)
          [] OTHER -> then([t EXCEPT !.partial = all], <<>>)

\* accept_bytes
AcceptBytes(t, start, bytes) ==
    LET t0 == [t EXCEPT !.partialOffset =
                            IF t.partial = <<>> /\ ~t.discarding THEN start ELSE @,
                        !.offset = start + Len(bytes)]
        step(got, segment) == AcceptSegment(start, got, segment)
    IN  FoldLeft(step, [tail |-> t0, records |-> <<>>], Segments(bytes))

\* read_from_bounded: at most one chunk, never beyond the goalpost.
ReadChunk(start) ==
    SubSeq(file.bytes, start + 1, Min({goalpost, start + TailChunk, Size}))

\* cycle_goalpost
CycleGoalpost ==
    /\ looking = "idle"
    /\ Look(ObserveSnapshot, <<>>)
    /\ goalpost' = Size
    /\ UNCHANGED <<file, looking>>

\* poll_to_goalpost, its stat: a tail at the goalpost is not polled.
PollStat ==
    /\ looking = "idle"
    /\ tail.offset < goalpost
    /\ Look(ObserveSnapshot, <<>>)
    /\ looking' = IF Size <= tail'.offset \/ goalpost <= tail'.offset
                  THEN "idle" ELSE "read"
    /\ UNCHANGED <<file, goalpost>>

\* poll_snapshot_to_goalpost, its read, when it meets the file it expects ...
PollRead ==
    /\ looking = "read"
    /\ file.inode = tail.identity
    /\ LET got == AcceptBytes([tail EXCEPT !.lastSize = Size],
                              tail.offset, ReadChunk(tail.offset))
       IN  Look(got.tail, got.records)
    /\ looking' = "idle"
    /\ UNCHANGED <<file, goalpost>>

\* ... and when the file has been replaced since the stat.
PollReadReplaced ==
    /\ looking = "read"
    /\ file.inode # tail.identity
    /\ Look([StartedOver(tail) EXCEPT !.lastSize = Size], <<>>)
    /\ looking' = "reread"
    /\ UNCHANGED <<file, goalpost>>

\* The replacement is read from its start, unless it has been replaced too.
\* The size remembered stays that of the read before: when the replacement has
\* been cut since, the next look may take it for truncated once more.
PollReread ==
    /\ looking = "reread"
    /\ IF file.inode = tail.identity
       THEN /\ LET got == AcceptBytes(tail, 0, ReadChunk(0))
                IN  Install(got.tail, got.records)
            /\ doubted' = (Size < tail.lastSize)
       ELSE UNCHANGED <<tail, records, followed, unseen, doubted>>
    /\ looking' = "idle"
    /\ UNCHANGED <<file, goalpost>>

\* A read fails: the poll returns the error and keeps what it had done.
PollFails ==
    /\ looking # "idle"
    /\ looking' = "idle"
    /\ UNCHANGED <<file, tail, goalpost, followed, records, unseen, doubted>>

TailNext ==
    \/ \E b \in OtherBytes \cup {NewLine, Return} : AppendByte(b)
    \/ \E inode \in {file.inode, file.inode + 1} : ReplaceFile(inode)
    \/ CycleGoalpost \/ PollStat \/ PollRead \/ PollReadReplaced
    \/ PollReread \/ PollFails

----------------------------------------------------------------------------
Feed == INSTANCE LogFeed WITH
    life    <- followed.life,
    log     <- followed.bytes,
    read    <- tail.offset,
    fed     <- records,
    doubted <- doubted,
    torn    <- unseen

\* What the tail returns is the log's lines, each once, in order, whole and
\* with its true offset: neither the chunk size, nor the goalpost, nor where
\* a chunk cuts a line, nor a replacement between the stat and the read, nor
\* a failed read, nor a line beyond MAX_TAIL_RECORD_BYTES shows, and a tail
\* that starts over forgets the half line of the file it left (tail.rs,
\* poll_snapshot_to_goalpost, observe_snapshot and accept_bytes).  It starts
\* over only for another file, with one exception the code has: a file cut
\* between the read that met it and its rereading may be begun a second time.
\* Nothing is claimed of a file that was truncated and had regrown before a
\* look at it.
TailImplementsFeed == Feed!FeedSpec
=============================================================================
