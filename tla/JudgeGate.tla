----------------------------- MODULE JudgeGate -----------------------------
(***************************************************************************)
(* The gate in front of the judge: one decision for the live reward and    *)
(* for the offline scorer. A step is [action, success, blocked, changed,   *)
(* triggered, settled].                                                    *)
(***************************************************************************)

ActionTypes == {"NO_OP", "CLICK", "RAPID_CLICK", "SELECT", "TYPE", "SCROLL",
                "REFRESH", "BROWSER_BACK", "BROWSER_FORWARD", "RESIZE_VIEWPORT"}

ChangeOnlyActions == {"REFRESH", "BROWSER_BACK", "BROWSER_FORWARD", "SCROLL",
                      "RESIZE_VIEWPORT", "TYPE"}

\* should_judge: something happened, or something that should have did not.
ShouldJudge(s) ==
  \/ s.triggered
  \/ ~s.settled
  \/ s.changed
  \/ /\ ~s.blocked
     /\ s.success
     /\ s.action # "NO_OP"
     /\ s.action \notin ChangeOnlyActions
=============================================================================
