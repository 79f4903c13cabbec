--------------------------- MODULE MCHistoryDrain ---------------------------
(* Two session logs of one provider, about two runs.                       *)
EXTENDS HistoryDrain, TLC

CONSTANTS a1, a2, claude, r1, r2

OneProvider == <<claude>>
TwoLogs == <<a1, a2>>
BothClaude == a1 :> claude @@ a2 :> claude

\* Both logs start with r1; the second goes on with r2.
ThreeRecords == a1 :> <<r1, r1, r1>> @@ a2 :> <<r1, r2, r2>>
SharedRun == a1 :> <<r1, r1>> @@ a2 :> <<r1, r2>>

AllParse == {{}}
ThirdMayNotParse == {{}, {<<a1, 3>>}}
ThreeAndNone == a1 :> 3 @@ a2 :> 0
OneAndTwo == a1 :> 1 @@ a2 :> 2
=============================================================================
