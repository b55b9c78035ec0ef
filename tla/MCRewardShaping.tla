-------------------------- MODULE MCRewardShaping --------------------------
(* Two actions on one element, one of them a link, and two pages with two  *)
(* URLs.                                                                   *)
EXTENDS RewardShaping

MCPages == {"form", "result"}
MCUrlOf == [p \in MCPages |-> p]
MCKeyOf == [p \in MCPages |-> p]

MCActions == {"submit", "rapid"}
MCIdentityOf == [a \in MCActions |-> a]
MCElementOf == [a \in MCActions |-> "button"]
=============================================================================
