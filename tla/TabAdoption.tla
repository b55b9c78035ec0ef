---------------------------- MODULE TabAdoption ----------------------------
(***************************************************************************)
(* Tabs opened by the application: BrowserSession.mark_pages and           *)
(* take_new_page, called by WebTestingEnv.step before and after an action. *)
(*                                                                         *)
(* The hard part is timing. A tab exists in the browser as soon as a click *)
(* opens it, but it enters context.pages only when Playwright dispatches   *)
(* the event, which may be during a later step; and it starts at           *)
(* about:blank, so its URL may not be known yet when take_new_page asks    *)
(* whether to follow it.                                                   *)
(***************************************************************************)
EXTENDS Integers

CONSTANTS
  Tabs,         \* tabs the browser can open in an episode
  MainTab,      \* the tab of new_episode
  MaxSteps      \* bound: steps in an episode

ASSUME TabsAssumption == MainTab \in Tabs

ASSUME BoundsAssumption == MaxSteps \in Nat

VARIABLES
  prompt,      \* the browser: are tabs reported before the step that opened
               \* them looks for them?
  closeFails,  \* the browser: may page.close() raise? (the code ignores it)
  pages,       \* context.pages: the open tabs Playwright has reported
  arrival,     \* the place of each of them in context.pages, the newest last
  reports,     \* how many tabs of the episode were reported
  current,     \* session.page
  known,       \* _known_pages: the tabs that existed when the action began
  unreported,  \* tabs the browser has opened and Playwright not yet reported
  openedBy,    \* the step whose action opened each tab; 0: not opened
  at,          \* where each opened tab is: still blank, or at a URL inside the
               \* application or outside
  blankTaken,  \* history: was the current tab still blank when it was adopted?
  offsite,     \* did the last step record opened_offsite_tab?
  phase,       \* "idle" between steps, "acting" from mark_pages to take_new_page
  step         \* steps begun in the episode

browser == <<prompt, closeFails>>
order == <<arrival, reports>>
Places == {"blank", "inside", "outside"}
vars == <<browser, pages, order, current, known, unreported, openedBy, at, blankTaken, offsite,
          phase, step>>

-----------------------------------------------------------------------------

\* Tabs that may still be open after the session tried to close those in set.
Survivors(set) == IF closeFails THEN SUBSET set ELSE {{}}

\* Fault: what mark_pages recorded is not consulted.
CandidatesUnmarked == pages \ {current}

\* The reported tabs, other than the current one, that mark_pages did not see.
Candidates == pages \ (known \cup {current})

\* Those it did see: left over from an earlier step.
Stale == (pages \cap known) \ {current}

\* candidates[-1]
Newest(t) ==
  /\ t \in Candidates
  /\ \A u \in Candidates : arrival[u] <= arrival[t]

-----------------------------------------------------------------------------

\* new_episode: a fresh context with one tab.
Init ==
  /\ prompt \in BOOLEAN
  /\ closeFails \in BOOLEAN
  /\ pages = {MainTab}
  /\ arrival = [t \in Tabs |-> 0]
  /\ reports = 0
  /\ current = MainTab
  /\ known = {}
  /\ unreported = {}
  /\ openedBy = [t \in Tabs |-> 0]
  /\ at = [t \in Tabs |-> IF t = MainTab THEN "inside" ELSE "blank"]
  /\ blankTaken = FALSE
  /\ offsite = FALSE
  /\ phase = "idle"
  /\ step = 0

\* Fault: the old context stays open, and so does what it has yet to report.
NewEpisodeSameContext ==
  /\ phase = "idle"
  /\ pages' = {MainTab}
  /\ arrival' = [t \in Tabs |-> 0]
  /\ reports' = 0
  /\ current' = MainTab
  /\ openedBy' = [t \in Tabs |-> 0]
  /\ at' = [t \in Tabs |-> IF t = MainTab THEN "inside" ELSE "blank"]
  /\ blankTaken' = FALSE
  /\ offsite' = FALSE
  /\ step' = 0
  /\ UNCHANGED <<browser, known, phase, unreported>>

\* new_episode again: closing the context closes every tab, reported or not.
NewEpisode ==
  /\ phase = "idle"
  /\ pages' = {MainTab}
  /\ arrival' = [t \in Tabs |-> 0]
  /\ reports' = 0
  /\ current' = MainTab
  /\ unreported' = {}
  /\ openedBy' = [t \in Tabs |-> 0]
  /\ at' = [t \in Tabs |-> IF t = MainTab THEN "inside" ELSE "blank"]
  /\ blankTaken' = FALSE
  /\ offsite' = FALSE
  /\ step' = 0
  /\ UNCHANGED <<browser, known, phase>>

\* mark_pages, and the action starts to run.
MarkPages ==
  /\ phase = "idle"
  /\ step < MaxSteps
  /\ known' = pages
  /\ phase' = "acting"
  /\ step' = step + 1
  /\ UNCHANGED <<browser, pages, order, current, unreported, openedBy, at, blankTaken, offsite>>

\* The action opens a tab, which has loaded its URL or not.
OpenTab(t) ==
  /\ phase = "acting"
  /\ t # MainTab
  /\ openedBy[t] = 0
  /\ openedBy' = [openedBy EXCEPT ![t] = step]
  /\ \E place \in Places : at' = [at EXCEPT ![t] = place]
  /\ unreported' = unreported \cup {t}
  /\ UNCHANGED <<browser, pages, order, current, known, blankTaken, offsite, phase, step>>

\* A tab that was blank gets to its URL: at any time, in any step.
Load(t) ==
  /\ t \in pages \cup unreported
  /\ at[t] = "blank"
  /\ \E place \in Places \ {"blank"} : at' = [at EXCEPT ![t] = place]
  /\ UNCHANGED <<browser, pages, order, current, known, unreported, openedBy, blankTaken,
                 offsite, phase, step>>

\* Playwright dispatches the tab's event: in any call the program makes to it.
Report(t) ==
  /\ t \in unreported
  /\ unreported' = unreported \ {t}
  /\ pages' = pages \cup {t}
  /\ reports' = reports + 1
  /\ arrival' = [arrival EXCEPT ![t] = reports']
  /\ UNCHANGED <<browser, current, known, openedBy, at, blankTaken, offsite, phase, step>>

\* The end of take_new_page: the tabs in doomed are closed, one close at a time.
Finish(doomed) ==
  /\ \E left \in Survivors(doomed) : pages' = pages \ (doomed \ left)
  /\ phase' = "idle"
  /\ UNCHANGED <<browser, order, known, unreported, openedBy, at, step>>

\* accept: a tab is followed unless it is seen to be outside; a blank one is not.
Accepted(t) == at[t] # "outside"

TakePhase == phase = "acting" /\ (prompt => unreported = {})

\* take_new_page found no tab of this action.
NoNewTab ==
  /\ TakePhase
  /\ Candidates = {}
  /\ offsite' = FALSE
  /\ UNCHANGED <<current, blankTaken>>
  /\ Finish(Stale)

\* The newest tab is outside the application: close every new one.
DiscardOffsite ==
  /\ TakePhase
  /\ \E t \in Tabs : Newest(t) /\ ~Accepted(t)
  /\ offsite' = TRUE
  /\ UNCHANGED <<current, blankTaken>>
  /\ Finish(Stale \cup Candidates)

\* Fault: the page the new tab came from is left open.
AdoptKeepsPrevious(t) ==
  /\ TakePhase
  /\ Newest(t)
  /\ Accepted(t)
  /\ offsite' = FALSE
  /\ current' = t
  /\ blankTaken' = (at[t] = "blank")
  /\ Finish(Stale \cup (Candidates \ {t}))

\* Fault: accept is not asked.
AdoptUnasked(t) ==
  /\ TakePhase
  /\ Newest(t)
  /\ offsite' = FALSE
  /\ current' = t
  /\ blankTaken' = (at[t] = "blank")
  /\ Finish(Stale \cup {current} \cup (Candidates \ {t}))

\* The newest tab is not outside: it becomes the page, and every other is closed.
Adopt(t) ==
  /\ TakePhase
  /\ Newest(t)
  /\ Accepted(t)
  /\ offsite' = FALSE
  /\ current' = t
  /\ blankTaken' = (at[t] = "blank")
  /\ Finish(Stale \cup {current} \cup (Candidates \ {t}))

Next ==
  \/ NewEpisode
  \/ MarkPages
  \/ \E t \in Tabs : OpenTab(t) \/ Load(t) \/ Report(t) \/ Adopt(t)
  \/ NoNewTab
  \/ DiscardOffsite

Spec == Init /\ [][Next]_vars

-----------------------------------------------------------------------------
(* Properties.                                                             *)

\* Every variable stays in its type.
TypeOK ==
  /\ prompt \in BOOLEAN /\ closeFails \in BOOLEAN
  /\ pages \subseteq Tabs
  /\ reports \in Nat /\ arrival \in [Tabs -> 0 .. reports]
  /\ current \in Tabs
  /\ known \subseteq Tabs
  /\ unreported \subseteq Tabs \ pages
  /\ openedBy \in [Tabs -> 0 .. MaxSteps]
  /\ at \in [Tabs -> Places]
  /\ blankTaken \in BOOLEAN
  /\ offsite \in BOOLEAN
  /\ phase \in {"idle", "acting"}
  /\ step \in 0 .. MaxSteps

\* The page under test is open and inside the application, whichever tabs were
\* opened, reported late, closed, or could not be closed. The one exception is a
\* tab that was followed while it was still blank, which accept() lets through;
\* where it gets to afterwards is for the guard of step() to see.
CurrentIsOpenAndInside ==
  /\ current \in pages
  /\ at[current] = "inside" \/ blankTaken

\* When every tab is reported in its own step and every close works, a step
\* leaves one tab open: nothing is left for a later step to adopt.
NoTabLeftBehind ==
  prompt /\ ~closeFails /\ phase = "idle" => pages = {current}

\* This step follows, or reports as off-site, a tab its own action opened.
CreditsItsOwn ==
  /\ phase = "acting" /\ current' # current => openedBy[current'] = step
  /\ phase = "acting" /\ phase' = "idle" /\ offsite'
       => \E t \in Tabs : openedBy[t] = step

\* If the browser reports a tab in the step that opened it, no other step is
\* credited with it, although closes may fail and leave it open for long.
PromptTabsCredited == [][prompt => CreditsItsOwn]_vars
=============================================================================
