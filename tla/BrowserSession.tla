--------------------------- MODULE BrowserSession ---------------------------
(***************************************************************************)
(* The navigation guard of the environment: one browser tab with its       *)
(* session history, the history moves of browser_session.py, and the part  *)
(* of WebTestingEnv.step that refuses a navigation out of the application, *)
(* undoes it, and ends the episode when it cannot be undone.               *)
(*                                                                         *)
(* A step of the environment is three actions, because the page runs on    *)
(* its own between them:                                                   *)
(*   ready --Act--> acted --Guard--> guarded --Capture--> ready | ended    *)
(* and PageNavigates is the page moving by itself (a redirect, a timer).   *)
(*                                                                         *)
(* Bounds: MaxSteps, and one navigation of the page's own per phase.       *)
(***************************************************************************)
EXTENDS Integers, Sequences

CONSTANTS
  Urls,        \* every URL the tab can be at
  HttpUrls,    \* those that start with http:// or https://
  DomainOf,    \* domain_of: the normalised host of each URL
  BaseUrl,     \* base_url of the environment
  AboutBlank,  \* the entry a fresh tab starts with
  ErrorPage,   \* the browser's own page after a failed navigation
  Landings,    \* where new_episode's goto(base_url) and the set-up can end
  LandsAt,     \* where a load of each URL can end: there, or redirected
  Unreliable,  \* may go_back, go_forward and goto raise?
  MaxSteps     \* max_steps: the length at which an episode is truncated

ASSUME UrlsAssumption ==
  /\ HttpUrls \subseteq Urls
  /\ DomainOf \in [Urls -> STRING]
  /\ BaseUrl \in HttpUrls
  /\ {AboutBlank, ErrorPage} \subseteq Urls \ HttpUrls
  /\ Landings \subseteq Urls

\* Every load ends somewhere.
ASSUME LandsAtAssumption ==
  LandsAt \in [Urls -> (SUBSET Urls) \ {{}}]

ASSUME BoundsAssumption ==
  /\ Unreliable \in BOOLEAN
  /\ MaxSteps \in Nat \ {0}

VARIABLES
  tab,       \* [entries, at]: the session history and the current entry
  pre,       \* URL of the last observation handed to the agent
  phase,     \* where the environment is in its step
  act,       \* [kind, success, raised]: the executed action, what
             \* exec_info["success"] says, and whether a history move raised
  restored,  \* outcome of restore() in this step: "none", "ok" or "failed"
  redirected,\* history: a goto of this step returned at another URL than asked
  steps,     \* _steps_taken
  hopped     \* phases of this step in which the page navigated by itself

vars == <<tab, pre, phase, act, restored, redirected, steps, hopped>>

StepPhases == {"ready", "acted", "guarded"}

-----------------------------------------------------------------------------
(* Session history, as the browser keeps it.                               *)

Current(t) == t.entries[t.at]

\* A navigation drops the forward entries; one to the current URL adds none.
Push(t, u) ==
  IF u = Current(t) THEN t
  ELSE [entries |-> Append(SubSeq(t.entries, 1, t.at), u), at |-> t.at + 1]

\* location.replace: the current entry gives way to the new one.
Replace(t, u) == [t EXCEPT !.entries[t.at] = u]

\* Back or forward, to where the entry's reload ends: no entry, no move.
Go(t, direction) ==
  LET to == IF direction = "back" THEN t.at - 1 ELSE t.at + 1
  IN  IF to \in DOMAIN t.entries
      THEN {Replace([t EXCEPT !.at = to], v) : v \in LandsAt[t.entries[to]]}
      ELSE {t}

\* Outcomes of a move that raised (a timeout): it may have happened or not.
Raised(t, direction) == IF Unreliable THEN {t} \cup Go(t, direction) ELSE {}

\* What page.goto(u) can leave behind, whether it returned, and whether it did
\* so elsewhere. One that raised may have been committed before.
Goto(t, u) ==
  {[tab |-> Push(t, v), ok |-> TRUE, redirected |-> v # u] : v \in LandsAt[u]}
    \cup {[tab |-> s, ok |-> FALSE, redirected |-> FALSE] :
            s \in IF Unreliable
                  THEN {t} \cup {Push(t, v) : v \in LandsAt[u] \cup {ErrorPage}}
                  ELSE {}}

-----------------------------------------------------------------------------
(* The domain tests and the two guarded operations of the session.         *)

\* Fault: only the scheme is looked at.
IsInAppAnyHost(url, reference) == url \in HttpUrls

IsInApp(url, reference) ==
  /\ url \in HttpUrls
  /\ DomainOf[url] = DomainOf[reference]

LeftTargetDomain(url) ==
  /\ url \in HttpUrls
  /\ DomainOf[url] # DomainOf[BaseUrl]

\* What history_move leaves behind, what it returns, whether a call raised,
\* and whether its goto was redirected.
Moved(t, ok, raised, elsewhere) ==
  [tab |-> t, ok |-> ok, raised |-> raised, redirected |-> elsewhere]

\* The move has left the application: goto(before), and False in any case.
Undone(t, before) == {Moved(g.tab, FALSE, ~g.ok, g.redirected) : g \in Goto(t, before)}

\* What history_move makes of the page that a move from "before" ended at.
Judged(moved, before) ==
  LET after == Current(moved)
  IN  CASE after = before -> {Moved(moved, FALSE, FALSE, FALSE)}
        [] IsInApp(after, before) /\ after # before
                          -> {Moved(moved, TRUE, FALSE, FALSE)}
        [] OTHER          -> Undone(moved, before)

\* history_move: a move that leaves the application is undone with goto.
HistoryMove(t, direction) ==
  {Moved(s, FALSE, TRUE, FALSE) : s \in Raised(t, direction)}
    \cup UNION {Judged(moved, Current(t)) : moved \in Go(t, direction)}

\* A return by go_back alone.
Back(t) == {[tab |-> moved, ok |-> TRUE, redirected |-> FALSE] : moved \in Go(t, "back")}

\* Fault: wherever go_back ends is taken for the page to return to.
RestoreTrustsBack(t, url) == Back(t)

\* Fault: a goto that raised is reported as a return all the same.
RestoreHidesFailure(t, url) ==
  {o \in Back(t) : IsInApp(Current(o.tab), url)}
    \cup {[g EXCEPT !.ok = TRUE] :
            g \in UNION {Goto(s, url) : s \in Raised(t, "back") \cup
                            {m \in Go(t, "back") : ~IsInApp(Current(m), url)}}}

\* restore: go_back if that lands in the application; goto if it lands outside
\* or raises, which is reported as a return wherever it ends.
Restore(t, url) ==
  {o \in Back(t) : IsInApp(Current(o.tab), url)}
    \cup UNION {Goto(s, url) : s \in Raised(t, "back") \cup
                  {m \in Go(t, "back") : ~IsInApp(Current(m), url)}}

-----------------------------------------------------------------------------
(* Initial states and actions.                                             *)

NewTab == [entries |-> <<AboutBlank>>, at |-> 1]

FreshTab(landing) == [entries |-> <<AboutBlank, landing>>, at |-> 2]

\* The environment before its first reset: nothing loaded, step() refused.
Init ==
  /\ tab = NewTab
  /\ pre = AboutBlank
  /\ phase = "ended"
  /\ act = [kind |-> "page", success |-> FALSE, raised |-> FALSE]
  /\ restored = "none"
  /\ redirected = FALSE
  /\ steps = 0
  /\ hopped = {}

\* reset: a fresh context, its landing page observed without a domain check.
Reset ==
  /\ phase = "ended"
  /\ \E landing \in Landings :
       /\ tab' = FreshTab(landing)
       /\ pre' = landing
  /\ phase' = "ready"
  /\ restored' = "none"
  /\ redirected' = FALSE
  /\ steps' = 0
  /\ hopped' = {}
  /\ UNCHANGED act

\* The goto of new_episode raises out of reset: the context is a new one, the
\* step count starts again, and the last observation is still the old one. The
\* episode has not begun; all a caller can do is to reset again.
ResetRaises ==
  /\ phase = "ended"
  /\ Unreliable
  /\ tab' \in {NewTab} \cup {FreshTab(u) : u \in LandsAt[BaseUrl] \cup {ErrorPage}}
  /\ steps' = 0
  /\ UNCHANGED <<pre, phase, act, restored, redirected, hopped>>

\* step() begins: the action's handler has run and its outcome is known.
Begin(t, kind, success, raised, elsewhere) ==
  /\ phase = "ready"
  /\ tab' = t
  /\ act' = [kind |-> kind, success |-> success, raised |-> raised]
  /\ phase' = "acted"
  /\ restored' = "none"
  /\ redirected' = elsewhere
  /\ hopped' = hopped \cap {"ready"}
  /\ UNCHANGED <<pre, steps>>

\* Every action but BACK and FORWARD: it may navigate, and a handler that
\* raised (a burst of clicks whose first one navigated) may have navigated.
PageAction ==
  \E success \in BOOLEAN :
    \/ Begin(tab, "page", success, FALSE, FALSE)
    \/ \E u \in Urls \ {ErrorPage} :
         \/ Begin(Push(tab, u), "page", success, FALSE, FALSE)
         \/ Begin(Replace(tab, u), "page", success, FALSE, FALSE)

HistoryAction ==
  \E direction \in {"back", "forward"} :
    \E outcome \in HistoryMove(tab, direction) :
      Begin(outcome.tab, direction, outcome.ok, outcome.raised, outcome.redirected)

\* The page navigates by itself between two steps or inside one.
PageNavigates ==
  /\ phase \in StepPhases \ hopped
  /\ hopped' = hopped \cup {phase}
  /\ \E u \in HttpUrls : tab' \in {Push(tab, u), Replace(tab, u)}
  /\ UNCHANGED <<pre, phase, act, restored, redirected, steps>>

GuardPasses ==
  /\ phase = "acted"
  /\ ~LeftTargetDomain(Current(tab))
  /\ phase' = "guarded"
  /\ UNCHANGED <<tab, pre, act, restored, redirected, steps, hopped>>

\* The page is outside the application: refuse the action and undo it.
GuardRefuses ==
  /\ phase = "acted"
  /\ LeftTargetDomain(Current(tab))
  /\ \E outcome \in Restore(tab, pre) :
       /\ tab' = outcome.tab
       /\ restored' = IF outcome.ok THEN "ok" ELSE "failed"
       /\ redirected' = outcome.redirected
  /\ act' = [act EXCEPT !.success = FALSE]
  /\ phase' = "guarded"
  /\ UNCHANGED <<pre, steps, hopped>>

\* Fault: a refused step is not counted.
CaptureRefusedFree ==
  /\ phase = "guarded"
  /\ pre' = Current(tab)
  /\ steps' = IF restored = "none" THEN steps + 1 ELSE steps
  /\ phase' = IF LeftTargetDomain(pre') \/ steps' >= MaxSteps THEN "ended" ELSE "ready"
  /\ hopped' = hopped \ {"ready"}
  /\ UNCHANGED <<tab, act, restored, redirected>>

\* Fault: one step too many before the episode is truncated.
CaptureOneMore ==
  /\ phase = "guarded"
  /\ pre' = Current(tab)
  /\ steps' = steps + 1
  /\ phase' = IF LeftTargetDomain(pre') \/ steps' > MaxSteps THEN "ended" ELSE "ready"
  /\ hopped' = hopped \ {"ready"}
  /\ UNCHANGED <<tab, act, restored, redirected>>

\* The observation, the step count and the two ways an episode ends.
Capture ==
  /\ phase = "guarded"
  /\ pre' = Current(tab)
  /\ steps' = steps + 1
  /\ phase' = IF LeftTargetDomain(pre') \/ steps' >= MaxSteps THEN "ended" ELSE "ready"
  /\ hopped' = hopped \ {"ready"}
  /\ UNCHANGED <<tab, act, restored, redirected>>

Next ==
  \/ Reset
  \/ ResetRaises
  \/ PageAction
  \/ HistoryAction
  \/ PageNavigates
  \/ GuardPasses
  \/ GuardRefuses
  \/ Capture

\* The rollout loop calls step() until the episode ends, and reset() after.
Spec == Init /\ [][Next]_vars /\ WF_vars(Next)

-----------------------------------------------------------------------------
(* Properties.                                                             *)

Terminated == phase = "ended" /\ LeftTargetDomain(pre)

\* Every variable stays in its type, and the current entry is in the history.
TypeOK ==
  /\ tab.entries \in Seq(Urls)
  /\ tab.at \in DOMAIN tab.entries
  /\ pre \in Urls
  /\ phase \in StepPhases \cup {"ended"}
  /\ act \in [kind : {"page", "back", "forward"}, success : BOOLEAN, raised : BOOLEAN]
  /\ restored \in {"none", "ok", "failed"}
  /\ redirected \in BOOLEAN
  /\ steps \in 0 .. MaxSteps
  /\ hopped \subseteq StepPhases

\* An episode is terminated only when a navigation out of the application was
\* refused and restore() could not undo it, when the goto of restore() was itself
\* redirected out and reported as a return, or when the page left by itself after
\* the guard had looked: no action of the agent ends an episode that restore()
\* has brought back (the comment above "terminated =" in step knows of the first).
TerminatedOnlyIfStranded ==
  Terminated =>
    \/ restored = "failed"
    \/ restored = "ok" /\ redirected
    \/ "guarded" \in hopped

\* BACK and FORWARD never leave the tab outside the application: whatever the
\* history holds and wherever its reloads end, unless the browser raised in the
\* middle of the move or redirected the goto that undoes it, the guard of step()
\* has nothing to refuse after them.
HistoryStaysInApp ==
  /\ phase = "acted" /\ act.kind # "page"
  /\ ~act.raised /\ ~redirected /\ hopped = {}
  => ~LeftTargetDomain(Current(tab))

\* A refusal that restore() reports as undone is undone, by go_back or by goto:
\* the observation that follows is not outside, unless the page moves again by
\* itself or the goto was redirected, which restore() does not look at.
RestoredIsInside ==
  phase = "guarded" /\ restored = "ok" /\ ~redirected /\ "guarded" \notin hopped
    => ~LeftTargetDomain(Current(tab))

\* Every episode ends: refused, failed and idle steps use up max_steps too.
EpisodeEnds == []<>(phase = "ended")
=============================================================================
