--------------------------- MODULE LatestEvidence ---------------------------
(***************************************************************************)
(* What the native lifecycle of a task run promises, without saying how    *)
(* evidence is compared, written or merged.  A run has heard some evidence *)
(* and the ledger has kept some of it; what is shown is the newest heard,  *)
(* and what is durable the newest kept, in whatever order and by whatever  *)
(* way the evidence came.  Nothing kept is ever lost.  What was heard and  *)
(* not kept is lost when the process restarts, and when the page of a      *)
(* finalized history drain replaces the rows it names.                     *)
(***************************************************************************)
EXTENDS Integers, FiniteSets

CONSTANT TaskRuns       \* the task runs

VARIABLES
    heard,      \* the evidence each run has in memory: its mark and its end
    kept,       \* the evidence each run has in the ledger
    shown,      \* the evidence memory answers with
    durable     \* the evidence the ledger answers with

evidenceVars == <<heard, kept, shown, durable>>

Nothing == [mark |-> 0, end |-> "open"]

\* Marks are totally ordered, and no two pieces of evidence share one.
Newest(evidence) ==
    IF evidence = {} THEN Nothing
    ELSE CHOOSE e \in evidence : \A f \in evidence : f.mark <= e.mark

EvidenceInit ==
    /\ heard = [r \in TaskRuns |-> {}] /\ kept = heard
    /\ shown = [r \in TaskRuns |-> Nothing] /\ durable = shown

\* Runs hear more, and the ledger keeps more.
Hear ==
    \A r \in TaskRuns : heard[r] \subseteq heard'[r] /\ kept[r] \subseteq kept'[r]

\* A drain is finalized: the ledger may add its own conclusion, and the runs
\* of the page hear what the ledger has.
Settle ==
    \A r \in TaskRuns : /\ kept[r] \subseteq kept'[r]
                        /\ heard'[r] \in {heard[r], kept'[r]}

\* One run turns out to be another one.
Unite ==
    \E s, a \in TaskRuns :
        /\ s # a
        /\ heard' = [heard EXCEPT ![s] = @ \cup heard[a], ![a] = {}]
        /\ kept' \in {kept, [kept EXCEPT ![s] = @ \cup kept[a] \cup heard[s] \cup heard[a],
                                         ![a] = {}]}

Forget == heard' = kept /\ kept' = kept

EvidenceNext ==
    /\ Hear \/ Settle \/ Unite \/ Forget
    /\ shown' = [r \in TaskRuns |-> Newest(heard'[r])]
    /\ durable' = [r \in TaskRuns |-> Newest(kept'[r])]

EvidenceSpec == EvidenceInit /\ [][EvidenceNext]_evidenceVars
=============================================================================
