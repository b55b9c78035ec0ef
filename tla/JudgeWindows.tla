---------------------------- MODULE JudgeWindows ----------------------------
(***************************************************************************)
(* What the judge is shown: a recorded step rendered as what changed on    *)
(* the page, the windows built over an episode, and the rules by which     *)
(* validate.py holds a rendered step against its own record.               *)
(*                                                                         *)
(* A page is [url, html]; a url is [http, origin, path, fragment], the     *)
(* path with its query; html is                                            *)
(*   text     the visible lines, in order                                  *)
(*   fields   per control its occupancy, or "absent"                       *)
(*   values   the contents [head, tail] of the controls that show theirs;  *)
(*            only the head fits a line                                    *)
(*   links    the links a user could follow, in order                      *)
(*   hidden   the controls that are not rendered, in order                 *)
(*   rest     everything the view leaves out                               *)
(* A line or a label is an opaque value. The renderer's own markers may    *)
(* stand in what the application writes: they are what a step quotes.      *)
(***************************************************************************)
EXTENDS Integers, Sequences, FiniteSets, SequencesExt

CONSTANTS
  WindowSteps,   \* window_steps: transitions in a window
  SkipIdle,      \* skip_idle
  Controls,      \* the named form controls
  TextMax,       \* _TEXT_LINE_MAX: lines of a page the view keeps
  ListMax        \* _LIST_MAX: links and hidden controls the view keeps

ASSUME WindowAssumption ==
  /\ WindowSteps \in Nat \ {0}
  /\ SkipIdle \in BOOLEAN
  /\ TextMax \in Nat
  /\ ListMax \in Nat

-----------------------------------------------------------------------------
(* The view of a page.                                                     *)

Upto(list, n) == SubSeq(list, 1, IF Len(list) < n THEN Len(list) ELSE n)

\* _elide: what is cut off is announced by its length.
Elide(value) == [head |-> value.head, cut |-> Len(value.tail)]

\* page_view
PageView(html) ==
  [text   |-> ToSet(Upto(html.text, TextMax)),
   fields |-> html.fields,
   values |-> [c \in DOMAIN html.values |-> Elide(html.values[c])],
   links  |-> ToSet(Upto(html.links, ListMax)),
   hidden |-> ToSet(Upto(html.hidden, ListMax))]

-----------------------------------------------------------------------------
(* A recorded step: [episode, step, before, after, outcome], where outcome *)
(* is what the action was and how it went. Its refusal says how the record *)
(* marks a navigation the harness undid: by left_application ("field"), in *)
(* older traces only in the error's text ("message"), or not ("none"). And *)
(* quoted are the markers in what the step shows of the application: a     *)
(* label, a title, a message.                                              *)

Before(r) == PageView(r.before.html)
After(r)  == PageView(r.after.html)

\* relative_path: the origin and the fragment are dropped, of a web page.
RelativePath(url) ==
  IF url.http THEN [url EXCEPT !.origin = "", !.fragment = ""] ELSE url

\* The recorder compares whole URLs.
UrlChanged(r)   == r.before.url # r.after.url
HtmlChanged(r)  == r.before.html # r.after.html
StateChanged(r) == UrlChanged(r) \/ HtmlChanged(r)

\* The renderer compares what is left of them in the record.
Navigated(r) == RelativePath(r.before.url) # RelativePath(r.after.url)

Refused(r) == r.outcome.refusal # "none"

OpensNewTab(r) == r.outcome.offsiteTab \/ r.outcome.newTab

-----------------------------------------------------------------------------
(* render_step: the lines that say what changed.                           *)

TextAdded(r) == After(r).text \ Before(r).text
TextGone(r)  == IF Navigated(r) THEN {} ELSE Before(r).text \ After(r).text

\* A control that ceases to exist with its page is no change of the form.
FieldChanges(r) ==
  {c \in Controls :
     /\ Before(r).fields[c] # After(r).fields[c]
     /\ ~(Navigated(r) /\ After(r).fields[c] = "absent")}

ValueChanges(r) ==
  {c \in DOMAIN After(r).values :
     \/ c \notin DOMAIN Before(r).values
     \/ Before(r).values[c] # After(r).values[c]}

NowHidden(r) == After(r).hidden \ Before(r).hidden
NowShown(r)  == Before(r).hidden \ After(r).hidden

NoLongerReachable(r) ==
  IF NowHidden(r) = {} \/ Navigated(r) THEN {}
  ELSE Before(r).links \ After(r).links

RenderedNothing(r) ==
  /\ TextAdded(r) = {}
  /\ Before(r).text \ After(r).text = {}
  /\ FieldChanges(r) = {}
  /\ ValueChanges(r) = {}
  /\ NowHidden(r) = {}
  /\ NowShown(r) = {}

-----------------------------------------------------------------------------
(* render_step: the markers, each a claim about the step.                  *)

Marks ==
  {"BLOCKED", "FAILED", "NOT SETTLED", "NEW TAB", "DID CHANGE", "NO OBSERVABLE CHANGE"}

Unexplained(r) == RenderedNothing(r) /\ ~Navigated(r) /\ ~Refused(r)

MarkIf(condition, mark) == IF condition THEN {mark} ELSE {}

HarnessMarks(r) ==
  MarkIf(Refused(r), "BLOCKED")
    \cup MarkIf(~Refused(r) /\ ~r.outcome.success, "FAILED")
    \cup MarkIf(~r.outcome.settled, "NOT SETTLED")
    \cup MarkIf(Unexplained(r) /\ OpensNewTab(r), "NEW TAB")

\* Fault: identity of the page is inferred from the summary.
EffectMarksBySummary(r) ==
  MarkIf(Unexplained(r) /\ ~OpensNewTab(r), "NO OBSERVABLE CHANGE")

\* Identity is claimed only of documents that are identical.
EffectMarks(r) ==
  IF ~Unexplained(r) \/ OpensNewTab(r) THEN {}
  ELSE IF HtmlChanged(r) THEN {"DID CHANGE"} ELSE {"NO OBSERVABLE CHANGE"}

RenderStep(r) == HarnessMarks(r) \cup EffectMarks(r)

-----------------------------------------------------------------------------
(* validate_step: its rules look for markers in the text, whoever wrote    *)
(* them there.                                                             *)

Reads(r) == RenderStep(r) \cup r.outcome.quoted

LeftApplication(r) == r.outcome.refusal = "field"

RefusalIssues(r) ==
  IF ~LeftApplication(r) THEN {}
  ELSE MarkIf("BLOCKED" \notin Reads(r), "unmarked-block")
         \cup MarkIf("FAILED" \in Reads(r), "block-as-failure")
         \cup MarkIf("NO OBSERVABLE CHANGE" \in Reads(r), "block-as-no-change")
         \cup MarkIf(r.outcome.console, "offsite-console")

NewTabIssues(r) ==
  IF ~r.outcome.newTab \/ StateChanged(r) \/ LeftApplication(r) THEN {}
  ELSE MarkIf("NEW TAB" \notin Reads(r), "unmarked-new-tab")
         \cup MarkIf("NO OBSERVABLE CHANGE" \in Reads(r), "new-tab-as-no-change")

ValidateStep(r) ==
  MarkIf("NO OBSERVABLE CHANGE" \in Reads(r) /\ HtmlChanged(r), "false-no-change")
    \cup RefusalIssues(r)
    \cup NewTabIssues(r)

-----------------------------------------------------------------------------
(* build_windows, over the steps of a trace in the order of capture.       *)

IsIdle(r) ==
  /\ r.outcome.action = "NO_OP"
  /\ ~StateChanged(r)
  /\ ~r.outcome.triggered
  /\ r.outcome.settled

\* The steps of r's episode up to r, as positions in the trace.
EpisodeUpTo(trace, i) ==
  {j \in 1 .. i : trace[j].episode = trace[i].episode}

\* Fault: the window slides over the whole trace.
WindowAcrossEpisodes(trace, i) ==
  {j \in 1 .. i : i - j < WindowSteps}

\* The context and, last, the step under judgment.
WindowOf(trace, i) ==
  {j \in EpisodeUpTo(trace, i) :
     trace[i].step - trace[j].step < WindowSteps}

\* The focus of every window; the windows come in the order of their foci.
BuildWindows(trace) ==
  {i \in 1 .. Len(trace) : ~(SkipIdle /\ IsIdle(trace[i]))}

\* Every step of every window, each once.
Validated(trace, foci) ==
  {k \in DOMAIN trace : \E i \in foci : k \in WindowOf(trace, i)}

\* validate_corpus
ValidateCorpus(trace, foci) ==
  UNION {ValidateStep(trace[k]) : k \in Validated(trace, foci)}
=============================================================================
