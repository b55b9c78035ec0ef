--------------------------- MODULE FindingPayout ---------------------------
(***************************************************************************)
(* What the functional reward promises about bugs: within an episode every *)
(* finding is paid for at most once, and what a step pays for is exactly   *)
(* what it newly claims ("a bug is a discovery, and a discovery happens    *)
(* once", FindingLedger).                                                  *)
(***************************************************************************)

CONSTANT Findings  \* everything that can be paid for

VARIABLES
  claimed,  \* findings paid for in this episode
  payout    \* findings the last step paid for

vars == <<claimed, payout>>

Init == claimed = {} /\ payout = {}

\* A step pays for some findings that nothing was paid for yet.
Pay ==
  /\ payout' \subseteq Findings \ claimed
  /\ claimed' = claimed \cup payout'

NewEpisode == claimed' = {} /\ payout' = {}

Next == Pay \/ NewEpisode

Spec == Init /\ [][Next]_vars
=============================================================================
