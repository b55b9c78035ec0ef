--------------------------- MODULE MCEventCapture ---------------------------
(* The landing page, another page of the application and one outside it. *)
EXTENDS EventCapture

MCAppPages == {"landing", "inner"}
MCAwayPages == {"away"}
=============================================================================
