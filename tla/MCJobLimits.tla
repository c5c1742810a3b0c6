---------------------------- MODULE MCJobLimits ----------------------------
(* Instances of JobLimits for TLC: screens and smoke jobs launched in       *)
(* workspace a, and a cache warm launched in workspace b.                   *)
EXTENDS JobLimits

CONSTANTS a, b, screen1, screen2, smoke1, smoke2, warm

TwoWorkspaces == {a, b}
MixedRequests == {screen1, screen2, smoke1, warm}
SmokeRequests == {smoke1, smoke2}
Where == [r \in Requests |-> IF r = warm THEN b ELSE a]
What == [r \in Requests |->
            CASE r \in {screen1, screen2} -> "research"
              [] r \in {smoke1, smoke2} -> "smoke"
              [] OTHER -> "other"]

=============================================================================
