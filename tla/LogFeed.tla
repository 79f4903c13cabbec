------------------------------ MODULE LogFeed ------------------------------
(***************************************************************************)
(* What following one provider log promises its reader, without saying how *)
(* the bytes are read.  The log grows; from time to time the feed reads    *)
(* further; what it has fed is at every moment a function of the bytes     *)
(* read: the lines among them, each with the offset of its first byte, in  *)
(* order, once.  Neither the size of a read nor the place where a line was *)
(* cut shows.  A feed starts over for another file, and once more for the  *)
(* same one only where the other file came while an earlier one had been   *)
(* noticed and not read.                                                   *)
(***************************************************************************)
EXTENDS Integers, Sequences, SequencesExt, FiniteSetsExt

CONSTANTS
    NewLine, Return,    \* the two bytes a line may end with
    MaxRecord           \* MAX_TAIL_RECORD_BYTES

VARIABLES
    life,   \* which file the feed follows: a later one has a larger number
    log,    \* its bytes
    read,   \* the number of bytes read
    fed,    \* the records fed of this file, in order
    doubted,    \* the feed may start over on this file once more
    torn    \* the file was rewritten in place where nobody could notice it

feedVars == <<life, log, read, fed, doubted, torn>>

\* The offsets at which the lines of the first n bytes begin.
Starts(bytes, n) == {0} \cup {i \in 1 .. n : bytes[i] = NewLine}

\* The offset of the newline that ends the line at s, or n when it is open.
LineEnd(bytes, s, n) == Min({n} \cup {i \in s .. n - 1 : bytes[i + 1] = NewLine})

WithoutReturn(bytes) ==
    IF bytes # <<>> /\ Last(bytes) = Return THEN Front(bytes) ELSE bytes

\* The record of the line at s: its bytes, or the fact that it is too long.
RecordAt(bytes, s, n) ==
    LET e    == LineEnd(bytes, s, n)
        long == e - s > MaxRecord
    IN  [offset |-> s, long |-> long,
         bytes  |-> IF long THEN <<>> ELSE WithoutReturn(SubSeq(bytes, s + 1, e))]

\* The records of the first n bytes: the complete lines, and the open one as
\* soon as it is too long.
RecordsOf(bytes, n) ==
    LET due == SetToSortSeq({s \in Starts(bytes, n) :
                                LET e == LineEnd(bytes, s, n)
                                IN  e < n \/ e - s > MaxRecord}, <)
    IN  [i \in DOMAIN due |-> RecordAt(bytes, due[i], n)]

FeedInit ==
    /\ read = 0
    /\ fed = <<>>
    /\ doubted = FALSE
    /\ torn = FALSE

\* The log grows.
FeedGrow ==
    /\ IsStrictPrefix(log, log')
    /\ UNCHANGED <<life, read, fed, doubted, torn>>

\* The feed reads further.
FeedRead ==
    /\ read' \in read .. Len(log)
    /\ fed' = RecordsOf(log, read')
    /\ doubted' => doubted
    /\ UNCHANGED <<life, log, torn>>

\* The file is another one, and the feed has noticed; it may have read some
\* of it in the same step.
FeedRestart ==
    /\ life' > life
    /\ read' \in 0 .. Len(log')
    /\ fed' = RecordsOf(log', read')
    /\ doubted' => read = 0
    /\ torn' = FALSE

\* Doubted, the same file is begun once more, and its lines are fed again.
FeedAgain ==
    /\ doubted /\ ~doubted'
    /\ read' \in 0 .. Len(log)
    /\ fed' = RecordsOf(log, read')
    /\ UNCHANGED <<life, log, torn>>

\* The file is rewritten where the feed cannot see it: nothing is promised
\* of what it feeds until it starts over.
FeedTear ==
    /\ torn'
    /\ doubted' => doubted
    /\ UNCHANGED <<life, log>>

FeedNext == FeedGrow \/ FeedRead \/ FeedRestart \/ FeedAgain \/ FeedTear

FeedSpec == FeedInit /\ [][FeedNext]_feedVars
=============================================================================
