-------------------------- MODULE MCOfflineScoring --------------------------
(* A form at rest, the same form at an anchor of its page and after        *)
(* something the summary leaves out, and another page.                     *)
EXTENDS OfflineScoringProofs

Text(t) == [head |-> t, tail |-> <<>>]

Url(path, fragment) ==
  [http |-> TRUE, origin |-> "site", path |-> path, fragment |-> fragment]

Form(fragment, value, state, rest) ==
  [url |-> Url("form", fragment),
   html |-> [text |-> <<"name">>, fields |-> [c \in {"name"} |-> state],
             values |-> [c \in {"name"} |-> Text(value)],
             links |-> <<"home">>, hidden |-> <<>>, rest |-> rest]]

Done ==
  [url |-> Url("done", ""),
   html |-> [text |-> <<"saved">>, fields |-> [c \in {"name"} |-> "absent"],
             values |-> <<>>, links |-> <<"home">>, hidden |-> <<>>, rest |-> 0]]

MCLandings == {Form("", "", "empty", 0)}

MCPages ==
  MCLandings \cup {Form("top", "", "empty", 0), Form("", "", "empty", 1), Done}

\* The hypothesis of WholePagesGoneIsGone holds of the form's pages; it does
\* not hold of the menu's below, in which window_gone finds a page cut.
ASSUME FormPagesAreWhole == \A p \in MCPages : Whole(p.html)

\* A page narrowed to a menu, with and without a notice above it.
Menu(text, links, hidden) ==
  [url |-> Url("menu", ""),
   html |-> [text |-> text, fields |-> [c \in {"name"} |-> "absent"],
             values |-> <<>>, links |-> links, hidden |-> hidden, rest |-> 0]]

MenuLandings == {Menu(<<"news">>, <<"home", "signup">>, <<>>)}

MenuPages ==
  MenuLandings \cup
  {Menu(<<"news">>, <<"help", "home", "signup">>, <<"burger">>)}

Act(action, success) ==
  [action |-> action, newTab |-> FALSE, offsiteTab |-> FALSE,
   success |-> success, refusal |-> "none", console |-> FALSE,
   triggered |-> FALSE, settled |-> TRUE, quoted |-> {}]

Refusal == [Act("CLICK", FALSE) EXCEPT !.refusal = "field"]

\* An idle step, a click on a link to a new tab, typing that names a field whose
\* label reads like a marker, and a click that is refused with console output.
MCActs ==
  {Act("NO_OP", TRUE), [Act("CLICK", TRUE) EXCEPT !.newTab = TRUE],
   [Act("TYPE", TRUE) EXCEPT !.quoted = {"NO OBSERVABLE CHANGE"}],
   [Act("CLICK", FALSE) EXCEPT !.refusal = "field", !.console = TRUE]}

MenuActs == {Act("RESIZE_VIEWPORT", TRUE)}

MCAnswers ==
  {[ok |-> FALSE, bug |-> FALSE, grounded |-> FALSE],
   [ok |-> TRUE, bug |-> FALSE, grounded |-> FALSE],
   [ok |-> TRUE, bug |-> TRUE, grounded |-> TRUE]}
=============================================================================
