---------------------------- MODULE MCAgentLoop ----------------------------
(* Two pages: a form with, in front, a heading that is not scanned and a   *)
(* button that cannot be used, and a page whose scan failed. The second    *)
(* form has a group of radio buttons.                                      *)
EXTENDS AgentLoopProofs

Element(kind, id, name, enabled, onScreen) ==
  [kind |-> kind, id |-> id, name |-> name, enabled |-> enabled, visible |-> TRUE,
   onScreen |-> onScreen, options |-> TRUE]

MCPages == {"form", "blank"}

MCElementsOf ==
  [form  |-> <<Element("plain", "title", NoName, TRUE, TRUE),
               Element("button", NoName, NoName, FALSE, TRUE),
               Element("link", NoName, NoName, TRUE, FALSE),
               Element("text", NoName, "email", TRUE, TRUE),
               Element("button", "save", NoName, TRUE, TRUE)>>,
   blank |-> <<>>]

RadioElementsOf ==
  [form  |-> <<Element("toggle", NoName, "plan", TRUE, TRUE),
               Element("toggle", NoName, "plan", TRUE, TRUE)>>,
   blank |-> <<>>]

Exact == [p \in MCPages |-> p]

\* What two theorems ask for holds of this instance, and not of the radio group.
ASSUME HypothesesHold ==
  /\ \A p \in MCPages : Unambiguous(MCElementsOf[p])
  /\ ~Unambiguous(RadioElementsOf["form"])
  /\ \A x, y \in MCPages : Exact[x] = Exact[y] => x = y
=============================================================================
