----------------------------- MODULE MCTaskRuns -----------------------------
\* Instances of TaskRuns for TLC.
EXTENDS TaskRuns, TLC

\* Names, session identifiers and terminals are only compared for equality; a snapshot may
\* number the runs of its panes in any order.
Interchangeable ==
  Permutations(Names) \cup Permutations(Sids) \cup Permutations(Terminals)

AllStates == TaskStates

AllKinds == Relationships \cup Ends
              \cup {"task_started", "blocked", "progress", "session_ended", "dismiss"}
=============================================================================
