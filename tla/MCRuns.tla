------------------------------- MODULE MCRuns -------------------------------
(***************************************************************************)
(* What becomes of the runs the reducer knows, one question at a time:     *)
(* their states under Controller events, the retention of their rows, the  *)
(* totals of their measured output, and the activity an operator sees of   *)
(* them.  subject chooses the question a behaviour is about; the rest      *)
(* stays as it begins.                                                     *)
(***************************************************************************)
EXTENDS MCTaskRuns, Retention, RateLedger, Activity

CONSTANTS named, found,   \* a run that a Controller named, a run that was found by its log
          l1, l2

VARIABLE subject

runsVars == <<subject, vars, retentionVars, ledgerVars, activityVars>>

\* One run may be a Controller's and the other take a log's key: who merges with whom is open
\* to both, the rest is renaming.  The second log, if anybody's, is not the found run's.
TwoRuns ==
    /\ basis[named]' \in {Nobody, "controller"} /\ basis[found]' # "controller"
    /\ owner[l2]' # found
    /\ basis[found] = Nobody => basis[named]' = basis[named]

RunsInit ==
    /\ subject \in {"states", "rows", "totals", "activity"}
    /\ Init /\ (subject # "states" => model.next = 1) /\ RetentionInit /\ LedgerInit
    /\ ActivityInit /\ (subject # "activity" => private = {})

RunsNext ==
    /\ UNCHANGED subject
    /\ \/ subject = "states" /\ Next /\ UNCHANGED <<retentionVars, ledgerVars, activityVars>>
       \/ subject = "rows" /\ RetentionNext /\ UNCHANGED <<vars, ledgerVars, activityVars>>
       \/ subject = "totals" /\ LedgerNext /\ TwoRuns
          /\ UNCHANGED <<vars, retentionVars, activityVars>>
       \/ subject = "activity" /\ ActivityNext
          /\ UNCHANGED <<vars, retentionVars, ledgerVars>>

RunsSpec == RunsInit /\ [][RunsNext]_runsVars
=============================================================================
