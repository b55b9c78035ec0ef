--------------------------- MODULE MCJudgeReward ---------------------------
(* What a judge may answer for a number: none, one that is out of range,   *)
(* and NaN; clamped, too small and large enough to count.                  *)
EXTENDS JudgeReward

MCRawNumbers ==
  {[kind |-> "other", value |-> 0], [kind |-> "nan", value |-> 0],
   [kind |-> "number", value |-> 900]}
=============================================================================
