--------------------------- MODULE MCTabAdoption ---------------------------
(* The main tab and the tabs the application opens, which are alike. *)
EXTENDS TabAdoption, TLC

CONSTANTS main, popup1, popup2, popup3

MCTabs == {main, popup1, popup2, popup3}
Symmetry == Permutations(MCTabs \ {main})
=============================================================================
