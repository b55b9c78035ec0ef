------------------------- MODULE MCScriptedCapture -------------------------
(* Two scripts: one of two steps, so that two of them can appear late, and *)
(* a short one after it.                                                   *)
EXTENDS ScriptedCapture

MCScripts == <<2, 1>>
=============================================================================
