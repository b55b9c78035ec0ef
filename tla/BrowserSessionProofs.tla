------------------------ MODULE BrowserSessionProofs ------------------------
(***************************************************************************)
(* For any URLs, hosts and step limit: every variable keeps its type; and  *)
(* if the application is entered inside and hosts of web pages are not     *)
(* those of the browser's own pages, then history moves stay inside, what  *)
(* restore() reports as undone is undone unless its goto was redirected,   *)
(* and no action of the agent ends an episode that was not stranded. If no *)
(* page of the application redirects out of it, that exception is gone.    *)
(* And every episode is bounded: each move uses up a variant.              *)
(***************************************************************************)
EXTENDS BrowserSession, SequenceTheorems, TLAPS

\* What the environment is given: base_url does not redirect off-site, and no
\* web page has the host domain_of finds in a blob:, about: or error URL.
EntersInside == \A landing \in Landings : ~LeftTargetDomain(landing)

HostsApart ==
  \A u \in HttpUrls, v \in Urls \ HttpUrls : DomainOf[u] # DomainOf[v]

\* No load of a page of the application is redirected out of it.
RedirectsInside ==
  \A u \in Urls : ~LeftTargetDomain(u) => \A v \in LandsAt[u] : ~LeftTargetDomain(v)

\* The tab as a record: a non-empty history and a place in it.
TabStates ==
  {t \in [entries : Seq(Urls), at : Nat \ {0}] : t.at \in DOMAIN t.entries}

\* Types, and no step beyond the limit.
Typed ==
  /\ tab \in TabStates
  /\ TypeOK
  /\ phase \in StepPhases => steps < MaxSteps

\* The agent acts on pages inside, and the guard's outcome holds until the page
\* moves by itself.
Guarded ==
  /\ phase \in StepPhases => ~LeftTargetDomain(pre)
  /\ phase = "ready" /\ "ready" \notin hopped => ~LeftTargetDomain(Current(tab))
  /\ phase = "guarded" /\ restored # "failed" /\ ~(restored = "ok" /\ redirected)
       /\ "guarded" \notin hopped => ~LeftTargetDomain(Current(tab))
  /\ HistoryStaysInApp
  /\ TerminatedOnlyIfStranded

USE UrlsAssumption, BoundsAssumption

-----------------------------------------------------------------------------
(* The session history.                                                    *)

\* A tab always shows a URL.
LEMMA CurrentIsUrl ==
  ASSUME NEW t \in TabStates
  PROVE  Current(t) \in Urls
BY ElementOfSeq DEF Current, TabStates

\* A navigation leaves the tab at the URL it went to.
LEMMA PushArrives ==
  ASSUME NEW t \in TabStates, NEW u \in Urls
  PROVE  Push(t, u) \in TabStates /\ Current(Push(t, u)) = u
<1>1. CASE u = Current(t)
  BY <1>1 DEF Push
<1>2. CASE u # Current(t)
  <2> DEFINE s == SubSeq(t.entries, 1, t.at)
  <2>1. t.entries \in Seq(Urls) /\ t.at \in 1 .. Len(t.entries)
    BY DEF TabStates
  <2>2. s \in Seq(Urls) /\ Len(s) = t.at
    BY <2>1, SubSeqProperties
  <2>3. /\ Append(s, u) \in Seq(Urls)
        /\ Len(Append(s, u)) = t.at + 1
        /\ Append(s, u)[t.at + 1] = u
    BY <2>2, AppendProperties
  <2>4. Push(t, u) = [entries |-> Append(s, u), at |-> t.at + 1]
    BY <1>2 DEF Push
  <2>. HIDE DEF s
  <2>. QED
    BY <2>1, <2>3, <2>4 DEF TabStates, Current
<1>. QED
  BY <1>1, <1>2

\* location.replace keeps the history's length.
LEMMA ReplaceTyped ==
  ASSUME NEW t \in TabStates, NEW u \in Urls
  PROVE  Replace(t, u) \in TabStates
<1>1. t.entries \in Seq(Urls) /\ t.at \in 1 .. Len(t.entries)
  BY DEF TabStates
<1>2. [t.entries EXCEPT ![t.at] = u] \in Seq(Urls)
      /\ Len([t.entries EXCEPT ![t.at] = u]) = Len(t.entries)
  BY <1>1, ExceptSeq
<1>3. Replace(t, u) = [entries |-> [t.entries EXCEPT ![t.at] = u], at |-> t.at]
  <2>1. PICK e \in Seq(Urls), a \in Nat \ {0} : t = [entries |-> e, at |-> a]
    BY DEF TabStates
  <2>2. [t EXCEPT !.entries[t.at] = u]
          = [t EXCEPT !.entries = [t.entries EXCEPT ![t.at] = u]]
    BY <2>1
  <2>3. \A x : [t EXCEPT !.entries = x] = [entries |-> x, at |-> t.at]
    BY <2>1
  <2>. QED
    BY <2>2, <2>3, Zenon DEF Replace
<1>. QED
  BY <1>1, <1>2, <1>3 DEF TabStates

\* Where a load can end is a URL.
LEMMA LandsAtUrls ==
  ASSUME NEW u \in Urls
  PROVE  LandsAt[u] \subseteq Urls
BY LandsAtAssumption

\* Back and forward move within the history.
LEMMA GoTyped ==
  ASSUME NEW t \in TabStates, NEW direction
  PROVE  Go(t, direction) \subseteq TabStates
<1> DEFINE to == IF direction = "back" THEN t.at - 1 ELSE t.at + 1
           there == [t EXCEPT !.at = to]
<1>1. CASE to \in DOMAIN t.entries
  <2>1. t.entries \in Seq(Urls) /\ to \in Nat \ {0} /\ to \in 1 .. Len(t.entries)
    BY <1>1 DEF TabStates
  <2>2. there = [entries |-> t.entries, at |-> to]
    BY DEF TabStates
  <2>3. t.entries[to] \in Urls
    BY <2>1, ElementOfSeq
  <2>4. Go(t, direction) = {Replace(there, v) : v \in LandsAt[t.entries[to]]}
    BY <1>1 DEF Go
  <2>. HIDE DEF to, there
  <2>5. there \in TabStates
    BY <2>1, <2>2 DEF TabStates
  <2>. QED
    BY <2>3, <2>4, <2>5, LandsAtUrls, ReplaceTyped
<1>2. CASE to \notin DOMAIN t.entries
  BY <1>2 DEF Go
<1>. QED
  BY <1>1, <1>2

\* A goto leaves a tab, and one that returned and was not redirected shows its
\* URL; wherever it was redirected, it shows what a load of its URL can end at.
LEMMA GotoArrives ==
  ASSUME NEW t \in TabStates, NEW u \in Urls, NEW g \in Goto(t, u)
  PROVE  /\ g.tab \in TabStates /\ g.ok \in BOOLEAN /\ g.redirected \in BOOLEAN
         /\ g.ok => Current(g.tab) \in LandsAt[u]
         /\ g.ok /\ ~g.redirected => Current(g.tab) = u
<1>1. ErrorPage \in Urls /\ LandsAt[u] \subseteq Urls
  BY LandsAtUrls
<1>2. CASE \E v \in LandsAt[u] : g = [tab |-> Push(t, v), ok |-> TRUE, redirected |-> v # u]
  <2>1. PICK v \in LandsAt[u] : g = [tab |-> Push(t, v), ok |-> TRUE, redirected |-> v # u]
    BY <1>2
  <2>2. Push(t, v) \in TabStates /\ Current(Push(t, v)) = v
    BY <1>1, <2>1, PushArrives
  <2>3. g.tab = Push(t, v) /\ g.ok = TRUE /\ g.redirected = (v # u)
    BY <2>1
  <2>. QED
    BY <2>1, <2>2, <2>3
<1>3. CASE \E s \in {t} \cup {Push(t, v) : v \in LandsAt[u] \cup {ErrorPage}} :
             g = [tab |-> s, ok |-> FALSE, redirected |-> FALSE]
  <2>1. PICK s \in {t} \cup {Push(t, v) : v \in LandsAt[u] \cup {ErrorPage}} :
             g = [tab |-> s, ok |-> FALSE, redirected |-> FALSE]
    BY <1>3
  <2>2. s \in TabStates
    BY <1>1, <2>1, PushArrives
  <2>. QED
    BY <2>1, <2>2
<1>. QED
  BY <1>2, <1>3 DEF Goto

\* A page inside, judged against a page inside, is inside (is_in_app).
LEMMA InAppIsInside ==
  ASSUME HostsApart, NEW u \in Urls, NEW v \in Urls,
         IsInApp(u, v), ~LeftTargetDomain(v)
  PROVE  ~LeftTargetDomain(u)
BY DEF HostsApart, IsInApp, LeftTargetDomain

\* history_move returns from a move inside, or inside from an undone one.
LEMMA HistoryMoveOutcome ==
  ASSUME NEW t \in TabStates, NEW direction \in {"back", "forward"},
         NEW o \in HistoryMove(t, direction)
  PROVE  /\ o.tab \in TabStates
         /\ o.ok \in BOOLEAN /\ o.raised \in BOOLEAN /\ o.redirected \in BOOLEAN
         /\ HostsApart /\ ~LeftTargetDomain(Current(t)) /\ ~o.raised /\ ~o.redirected
              => ~LeftTargetDomain(Current(o.tab))
<1> DEFINE before == Current(t)
<1>1. before \in Urls /\ Go(t, direction) \subseteq TabStates
  BY GoTyped, CurrentIsUrl
<1>2. CASE \E s \in Raised(t, direction) : o = Moved(s, FALSE, TRUE, FALSE)
  <2>1. Raised(t, direction) \subseteq TabStates
    BY <1>1 DEF Raised
  <2>. QED
    BY <1>2, <2>1 DEF Moved
<1>3. ASSUME NEW moved \in TabStates, o \in Judged(moved, before)
      PROVE  /\ o.tab \in TabStates
             /\ o.ok \in BOOLEAN /\ o.raised \in BOOLEAN /\ o.redirected \in BOOLEAN
             /\ HostsApart /\ ~LeftTargetDomain(before) /\ ~o.raised /\ ~o.redirected
                  => ~LeftTargetDomain(Current(o.tab))
  <2> DEFINE after == Current(moved)
  <2>1. after \in Urls
    BY CurrentIsUrl
  <2>2. CASE after = before /\ o = Moved(moved, FALSE, FALSE, FALSE)
    BY <2>2 DEF Moved
  <2>3. CASE IsInApp(after, before) /\ o = Moved(moved, TRUE, FALSE, FALSE)
    BY <1>1, <2>1, <2>3, InAppIsInside DEF Moved
  <2>4. CASE o \in Undone(moved, before)
    <3>1. PICK g \in Goto(moved, before) : o = Moved(g.tab, FALSE, ~g.ok, g.redirected)
      BY <2>4 DEF Undone
    <3>2. /\ g.tab \in TabStates /\ g.ok \in BOOLEAN /\ g.redirected \in BOOLEAN
          /\ g.ok /\ ~g.redirected => Current(g.tab) = before
      BY <1>1, GotoArrives
    <3>3. o.tab = g.tab /\ o.ok = FALSE /\ o.raised = ~g.ok /\ o.redirected = g.redirected
      BY <3>1 DEF Moved
    <3>. QED
      BY <3>2, <3>3
  <2>5. \/ after = before /\ o = Moved(moved, FALSE, FALSE, FALSE)
        \/ IsInApp(after, before) /\ o = Moved(moved, TRUE, FALSE, FALSE)
        \/ o \in Undone(moved, before)
    BY <1>3 DEF Judged
  <2>. HIDE DEF after
  <2>. QED
    BY <2>2, <2>3, <2>4, <2>5
<1>4. \/ \E s \in Raised(t, direction) : o = Moved(s, FALSE, TRUE, FALSE)
      \/ \E moved \in Go(t, direction) : o \in Judged(moved, before)
  BY DEF HistoryMove
<1>. HIDE DEF before
<1>5. CASE \E moved \in Go(t, direction) : o \in Judged(moved, before)
  <2>1. PICK moved \in Go(t, direction) : o \in Judged(moved, before)
    BY <1>5
  <2>2. moved \in TabStates
    BY <1>1, <2>1
  <2>3. before = Current(t)
    BY DEF before
  <2>. QED
    BY <1>3, <2>1, <2>2, <2>3
<1>. QED
  BY <1>2, <1>4, <1>5

\* restore reports a return only from inside or from a goto of url.
LEMMA RestoreOutcome ==
  ASSUME NEW t \in TabStates, NEW url \in Urls, NEW o \in Restore(t, url)
  PROVE  /\ o.tab \in TabStates /\ o.ok \in BOOLEAN /\ o.redirected \in BOOLEAN
         /\ HostsApart /\ ~LeftTargetDomain(url) /\ o.ok /\ ~o.redirected
              => ~LeftTargetDomain(Current(o.tab))
         /\ HostsApart /\ ~LeftTargetDomain(url) /\ o.ok /\ RedirectsInside
              => ~LeftTargetDomain(Current(o.tab))
<1>1. Go(t, "back") \subseteq TabStates /\ Raised(t, "back") \subseteq TabStates
  BY GoTyped DEF Raised
<1>2. CASE \E s \in TabStates : o \in Goto(s, url)
  BY <1>2, GotoArrives DEF RedirectsInside
<1>3. CASE o \in Back(t) /\ IsInApp(Current(o.tab), url)
  <2>1. o.tab \in TabStates /\ o.ok = TRUE /\ o.redirected = FALSE
    BY <1>1, <1>3 DEF Back
  <2>2. Current(o.tab) \in Urls
    BY <2>1, CurrentIsUrl
  <2>. QED
    BY <1>3, <2>1, <2>2, InAppIsInside
<1>. QED
  BY <1>1, <1>2, <1>3 DEF Restore

-----------------------------------------------------------------------------
(* Types.                                                                  *)

\* A step begins with any well-formed tab and keeps the step count.
LEMMA BeginTyped ==
  ASSUME Typed, NEW t \in TabStates, NEW kind \in {"page", "back", "forward"},
         NEW success \in BOOLEAN, NEW raised \in BOOLEAN, NEW elsewhere \in BOOLEAN,
         Begin(t, kind, success, raised, elsewhere)
  PROVE  Typed'
<1>1. tab' \in TabStates /\ act' \in [kind : {"page", "back", "forward"},
                                      success : BOOLEAN, raised : BOOLEAN]
  BY DEF Begin
<1>2. /\ phase' = "acted" /\ restored' = "none" /\ redirected' \in BOOLEAN
      /\ hopped' = hopped \cap {"ready"}
      /\ UNCHANGED <<pre, steps>> /\ phase = "ready"
  BY DEF Begin
<1>. QED
  BY <1>1, <1>2 DEF Typed, TypeOK, TabStates, StepPhases

\* The initial state, before any page was loaded, is well formed.
LEMMA InitTyped == Init => Typed
<1> SUFFICES ASSUME Init PROVE Typed
  OBVIOUS
<1>1. <<AboutBlank>> \in Seq(Urls) /\ Len(<<AboutBlank>>) = 1
  OBVIOUS
<1>2. tab \in TabStates
  BY <1>1 DEF Init, NewTab, TabStates
<1>3. /\ pre \in Urls /\ phase = "ended" /\ restored = "none" /\ redirected \in BOOLEAN
      /\ steps = 0 /\ hopped = {}
      /\ act \in [kind : {"page", "back", "forward"}, success : BOOLEAN, raised : BOOLEAN]
  BY DEF Init
<1>. QED
  BY <1>2, <1>3 DEF Typed, TypeOK, TabStates, StepPhases

\* Every step keeps the types and the bound on the steps of an episode.
LEMMA NextTyped == Typed /\ [Next]_vars => Typed'
<1> SUFFICES ASSUME Typed, [Next]_vars PROVE Typed'
  OBVIOUS
<1>1. tab \in TabStates /\ Current(tab) \in Urls
  BY CurrentIsUrl DEF Typed
<1>2. CASE Reset
  <2>1. PICK landing \in Landings : tab' = FreshTab(landing) /\ pre' = landing
    BY <1>2 DEF Reset
  <2>2. <<AboutBlank, landing>> \in Seq(Urls) /\ Len(<<AboutBlank, landing>>) = 2
    OBVIOUS
  <2>3. tab' \in TabStates /\ pre' \in Urls
    BY <2>1, <2>2 DEF FreshTab, TabStates
  <2>4. /\ phase' = "ready" /\ restored' = "none" /\ redirected' \in BOOLEAN
        /\ steps' = 0 /\ hopped' = {} /\ UNCHANGED act
    BY <1>2 DEF Reset
  <2>. QED
    BY <2>3, <2>4 DEF Typed, TypeOK, TabStates, StepPhases
<1>10. CASE ResetRaises
  <2>1. \A u \in Urls : <<AboutBlank, u>> \in Seq(Urls) /\ Len(<<AboutBlank, u>>) = 2
    OBVIOUS
  <2>2. \A u \in Urls : FreshTab(u) \in TabStates
    BY <2>1 DEF FreshTab, TabStates
  <2>3. <<AboutBlank>> \in Seq(Urls) /\ Len(<<AboutBlank>>) = 1
    OBVIOUS
  <2>4. NewTab \in TabStates
    BY <2>3 DEF NewTab, TabStates
  <2>5. LandsAt[BaseUrl] \cup {ErrorPage} \subseteq Urls
    BY LandsAtUrls
  <2>6. tab' \in TabStates
    BY <1>10, <2>2, <2>4, <2>5 DEF ResetRaises
  <2>. QED
    BY <1>10, <2>6 DEF ResetRaises, Typed, TypeOK, TabStates, StepPhases
<1>3. CASE PageAction
  <2>1. PICK t \in TabStates, success \in BOOLEAN : Begin(t, "page", success, FALSE, FALSE)
    BY <1>1, <1>3, PushArrives, ReplaceTyped DEF PageAction
  <2>. QED
    BY <2>1, BeginTyped
<1>4. CASE HistoryAction
  <2>1. PICK direction \in {"back", "forward"} : \E o \in HistoryMove(tab, direction) :
          Begin(o.tab, direction, o.ok, o.raised, o.redirected)
    BY <1>4 DEF HistoryAction
  <2>2. PICK o \in HistoryMove(tab, direction) : Begin(o.tab, direction, o.ok, o.raised, o.redirected)
    BY <2>1
  <2>. QED
    BY <1>1, <2>2, HistoryMoveOutcome, BeginTyped
<1>5. CASE PageNavigates
  <2>1. tab' \in TabStates
    BY <1>1, <1>5, PushArrives, ReplaceTyped DEF PageNavigates
  <2>. QED
    BY <1>5, <2>1 DEF PageNavigates, Typed, TypeOK, TabStates, StepPhases
<1>6. CASE GuardPasses
  BY <1>6 DEF GuardPasses, Typed, TypeOK, TabStates, StepPhases
<1>7. CASE GuardRefuses
  <2>1. tab' \in TabStates /\ restored' \in {"ok", "failed"} /\ redirected' \in BOOLEAN
    BY <1>1, <1>7, RestoreOutcome DEF GuardRefuses, Typed, TypeOK
  <2>2. act' \in [kind : {"page", "back", "forward"}, success : BOOLEAN, raised : BOOLEAN]
    BY <1>7 DEF GuardRefuses, Typed, TypeOK
  <2>. QED
    BY <1>7, <2>1, <2>2 DEF GuardRefuses, Typed, TypeOK, TabStates, StepPhases
<1>8. CASE Capture
  <2>1. phase' \in {"ended", "ready"} /\ (phase' = "ready" => ~(steps' >= MaxSteps))
    BY <1>8 DEF Capture
  <2>2. steps' \in 0 .. MaxSteps /\ steps' \in Nat
    BY <1>8 DEF Capture, Typed, TypeOK, StepPhases
  <2>3. /\ UNCHANGED <<tab, act, restored, redirected>> /\ pre' = Current(tab)
        /\ hopped' \subseteq hopped
    BY <1>8 DEF Capture
  <2>. QED
    BY <1>1, <2>1, <2>2, <2>3 DEF Typed, TypeOK, TabStates, StepPhases
<1>9. CASE UNCHANGED vars
  BY <1>9 DEF vars, Typed, TypeOK, TabStates, StepPhases
<1>. QED
  BY <1>2, <1>3, <1>4, <1>5, <1>6, <1>7, <1>8, <1>9, <1>10 DEF Next

-----------------------------------------------------------------------------
(* The guard.                                                              *)

\* The environment starts ended, on a page of the browser's own.
LEMMA InitGuarded == Init => Guarded
BY DEF Init, Guarded, HistoryStaysInApp, TerminatedOnlyIfStranded, Terminated,
       LeftTargetDomain, StepPhases

\* Every step keeps the agent on pages inside and the guard's outcome true.
LEMMA NextGuarded ==
  ASSUME EntersInside, HostsApart, Typed, Guarded, [Next]_vars
  PROVE  Guarded'
<1>1. tab \in TabStates /\ Current(tab) \in Urls /\ pre \in Urls
      /\ hopped \subseteq StepPhases
  BY CurrentIsUrl DEF Typed, TypeOK
<1>2. CASE Reset
  <2>1. /\ phase' = "ready" /\ restored' = "none" /\ ~LeftTargetDomain(pre')
        /\ Current(tab') = pre'
    BY <1>2 DEF Reset, EntersInside, FreshTab, Current
  <2>. QED
    BY <2>1 DEF Guarded, HistoryStaysInApp, TerminatedOnlyIfStranded, Terminated
<1>10. CASE ResetRaises
  <2>1. /\ phase = "ended" /\ UNCHANGED <<pre, phase, restored, redirected, hopped>>
    BY <1>10 DEF ResetRaises
  <2>. QED
    BY <2>1 DEF Guarded, HistoryStaysInApp, TerminatedOnlyIfStranded, Terminated, StepPhases
<1>3. CASE PageAction
  <2>1. phase = "ready" /\ phase' = "acted" /\ act'.kind = "page" /\ UNCHANGED pre
    BY <1>3 DEF PageAction, Begin
  <2>. QED
    BY <2>1 DEF Guarded, HistoryStaysInApp, TerminatedOnlyIfStranded, Terminated, StepPhases
<1>4. CASE HistoryAction
  <2>1. PICK direction \in {"back", "forward"} : \E o \in HistoryMove(tab, direction) :
          Begin(o.tab, direction, o.ok, o.raised, o.redirected)
    BY <1>4 DEF HistoryAction
  <2>2. PICK o \in HistoryMove(tab, direction) : Begin(o.tab, direction, o.ok, o.raised, o.redirected)
    BY <2>1
  <2>3. /\ phase = "ready" /\ phase' = "acted" /\ UNCHANGED pre
        /\ tab' = o.tab /\ act'.raised = o.raised /\ redirected' = o.redirected
        /\ hopped' = hopped \cap {"ready"}
    BY <2>2 DEF Begin
  <2>4. hopped' = {} /\ ~o.raised /\ ~o.redirected => ~LeftTargetDomain(Current(o.tab))
    BY <1>1, <2>3, HistoryMoveOutcome DEF Guarded
  <2>. QED
    BY <2>3, <2>4 DEF Guarded, HistoryStaysInApp, TerminatedOnlyIfStranded, Terminated,
                      StepPhases
<1>5. CASE PageNavigates
  <2>1. /\ phase \in StepPhases /\ phase \in hopped'
        /\ UNCHANGED <<pre, phase, restored, redirected>>
    BY <1>5 DEF PageNavigates
  <2>. QED
    BY <2>1 DEF Guarded, HistoryStaysInApp, TerminatedOnlyIfStranded, Terminated, StepPhases
<1>6. CASE GuardPasses
  BY <1>6 DEF GuardPasses, Guarded, HistoryStaysInApp, TerminatedOnlyIfStranded, Terminated,
              StepPhases
<1>7. CASE GuardRefuses
  <2>1. PICK o \in Restore(tab, pre) :
          /\ tab' = o.tab /\ redirected' = o.redirected
          /\ restored' = IF o.ok THEN "ok" ELSE "failed"
    BY <1>7 DEF GuardRefuses
  <2>2. /\ phase = "acted" /\ phase' = "guarded" /\ UNCHANGED pre
    BY <1>7 DEF GuardRefuses
  <2>3. restored' # "failed" /\ ~(restored' = "ok" /\ redirected')
          => ~LeftTargetDomain(Current(tab'))
    BY <1>1, <2>1, <2>2, RestoreOutcome DEF Guarded, StepPhases
  <2>. QED
    BY <2>2, <2>3 DEF Guarded, HistoryStaysInApp, TerminatedOnlyIfStranded, Terminated,
                      StepPhases
<1>8. CASE Capture
  <2>1. /\ phase = "guarded" /\ phase' \in {"ended", "ready"}
        /\ phase' = "ready" => ~LeftTargetDomain(pre')
        /\ pre' = Current(tab) /\ hopped' = hopped \ {"ready"}
        /\ UNCHANGED <<tab, restored, redirected>>
    BY <1>8 DEF Capture
  <2>2. "guarded" \in hopped <=> "guarded" \in hopped'
    BY <2>1
  <2>. QED
    BY <2>1, <2>2 DEF Guarded, HistoryStaysInApp, TerminatedOnlyIfStranded, Terminated,
                      StepPhases
<1>9. CASE UNCHANGED vars
  BY <1>9 DEF vars, Guarded, HistoryStaysInApp, TerminatedOnlyIfStranded, Terminated
<1>. QED
  BY <1>2, <1>3, <1>4, <1>5, <1>6, <1>7, <1>8, <1>9, <1>10 DEF Next

-----------------------------------------------------------------------------
(* The theorems.                                                           *)

\* Every variable keeps its type, the current entry stays in the history, and
\* no episode is longer than max_steps (BrowserSession, WebTestingEnv.step).
THEOREM InductiveTypes == Spec => []Typed
BY InitTyped, NextTyped, PTL DEF Spec

\* The type invariant of the runs.
THEOREM TypeCorrect == Spec => []TypeOK
<1>1. Typed => TypeOK
  BY DEF Typed
<1>. QED
  BY <1>1, InductiveTypes, PTL

\* The guard's strengthened invariant, for an application entered inside.
THEOREM GuardHolds ==
  ASSUME EntersInside, HostsApart
  PROVE  Spec => []Guarded
<1>1. Typed /\ Guarded /\ [Next]_vars => Guarded'
  BY NextGuarded
<1>. QED
  BY <1>1, InitGuarded, InductiveTypes, PTL DEF Spec

\* BACK and FORWARD that did not raise leave the tab inside (history_move).
THEOREM HistoryMovesStayInside ==
  ASSUME EntersInside, HostsApart
  PROVE  Spec => []HistoryStaysInApp
<1>1. Guarded => HistoryStaysInApp
  BY DEF Guarded
<1>. QED
  BY <1>1, GuardHolds, PTL

\* A return that restore() reports is a return to the application, unless its
\* goto was redirected (restore, which does not look where its goto ended).
THEOREM ReportedReturnsAreInside ==
  ASSUME EntersInside, HostsApart
  PROVE  Spec => []RestoredIsInside
<1>1. Guarded => RestoredIsInside
  BY DEF Guarded, RestoredIsInside
<1>. QED
  BY <1>1, GuardHolds, PTL

\* What restore() reports without any exception, if the application never
\* redirects out of itself: a refusal reported as undone is undone.
ReportedIsInside ==
  phase = "guarded" /\ restored = "ok" /\ "guarded" \notin hopped
    => ~LeftTargetDomain(Current(tab))

\* An application that never redirects out of itself is the case in which the
\* True of restore() after an unchecked goto is always right (restore).
THEOREM ReturnsAreInsideWithoutRedirects ==
  ASSUME EntersInside, HostsApart, RedirectsInside
  PROVE  Spec => []ReportedIsInside
<1>1. Init => ReportedIsInside
  BY DEF Init, ReportedIsInside
<1>2. Typed /\ Guarded /\ ReportedIsInside /\ [Next]_vars => ReportedIsInside'
  <2> SUFFICES ASSUME Typed, Guarded, ReportedIsInside, [Next]_vars,
                      phase' = "guarded", restored' = "ok", "guarded" \notin hopped'
               PROVE  ~LeftTargetDomain(Current(tab'))
    BY DEF ReportedIsInside, Current
  <2>1. CASE GuardRefuses
    <3>1. tab \in TabStates /\ pre \in Urls /\ ~LeftTargetDomain(pre)
      BY <2>1 DEF GuardRefuses, Typed, TypeOK, Guarded, StepPhases
    <3>2. PICK o \in Restore(tab, pre) :
            tab' = o.tab /\ restored' = IF o.ok THEN "ok" ELSE "failed"
      BY <2>1 DEF GuardRefuses
    <3>. QED
      BY <3>1, <3>2, RestoreOutcome
  <2>2. CASE GuardPasses
    BY <2>2 DEF GuardPasses, Current
  <2>3. CASE PageNavigates
    BY <2>3 DEF PageNavigates
  <2>4. CASE Reset \/ ResetRaises \/ PageAction \/ HistoryAction \/ Capture
    BY <2>4 DEF Reset, ResetRaises, PageAction, HistoryAction, Begin, Capture
  <2>5. CASE UNCHANGED vars
    BY <2>5 DEF vars, ReportedIsInside, Current
  <2>. QED
    BY <2>1, <2>2, <2>3, <2>4, <2>5 DEF Next
<1>. QED
  BY <1>1, <1>2, InductiveTypes, GuardHolds, PTL DEF Spec

\* An episode is terminated only when restore() failed, its goto was redirected,
\* or the page left by itself after the guard had looked (the end of
\* WebTestingEnv.step).
THEOREM OnlyTheStrandedAreTerminated ==
  ASSUME EntersInside, HostsApart
  PROVE  Spec => []TerminatedOnlyIfStranded
<1>1. Guarded => TerminatedOnlyIfStranded
  BY DEF Guarded
<1>. QED
  BY <1>1, GuardHolds, PTL

-----------------------------------------------------------------------------
(* How long an episode can be. EpisodeEnds needs fairness, which is left   *)
(* to the runs; what makes it true is a variant that every step uses up.   *)

\* The place of a phase in a step, two moves apart.
Rank ==
  CASE phase = "ready" -> 0
    [] phase = "acted" -> 2
    [] phase = "guarded" -> 4
    [] OTHER -> 0

Hops == IF phase \in hopped THEN 1 ELSE 0

\* The moves an episode has left: two in each phase of each step, one of the
\* environment and one of the page.
MovesLeft == IF phase = "ended" THEN 0 ELSE 6 * (MaxSteps - steps) - Rank - Hops

\* Nothing has happened in a phase that is still to come.
HopsBehind == phase = "acted" => "guarded" \notin hopped

\* The page's moves are those of this step's phases so far.
LEMMA HopsStayBehind == Spec => [](Typed /\ HopsBehind)
<1>1. Init => HopsBehind
  BY DEF Init, HopsBehind
<1>2. Typed /\ HopsBehind /\ [Next]_vars => HopsBehind'
  <2> SUFFICES ASSUME Typed, HopsBehind, [Next]_vars, phase' = "acted"
               PROVE  "guarded" \notin hopped'
    BY DEF HopsBehind
  <2>1. CASE PageAction \/ HistoryAction
    <3>1. hopped' = hopped \cap {"ready"}
      BY <2>1 DEF PageAction, HistoryAction, Begin
    <3>. QED
      BY <3>1
  <2>2. CASE PageNavigates
    BY <2>2 DEF PageNavigates, HopsBehind
  <2>3. CASE Reset \/ ResetRaises \/ GuardPasses \/ GuardRefuses \/ Capture
    BY <2>3 DEF Reset, ResetRaises, GuardPasses, GuardRefuses, Capture
  <2>4. CASE UNCHANGED vars
    BY <2>4 DEF vars, HopsBehind
  <2>. QED
    BY <2>1, <2>2, <2>3, <2>4 DEF Next
<1>. QED
  BY <1>1, <1>2, InductiveTypes, PTL DEF Spec

\* While an episode runs there is a move left.
LEMMA MovesBounded ==
  ASSUME Typed
  PROVE  /\ MovesLeft \in 0 .. 6 * MaxSteps
         /\ phase \in StepPhases => MovesLeft >= 1
<1>1. steps \in Nat /\ MaxSteps \in Nat /\ steps <= MaxSteps
      /\ phase \in StepPhases \cup {"ended"} /\ (phase \in StepPhases => steps < MaxSteps)
  BY DEF Typed, TypeOK
<1>2. Rank \in 0 .. 4 /\ Hops \in 0 .. 1
  BY DEF Rank, Hops
<1>3. \A r \in 0 .. 4, h \in 0 .. 1 :
        steps < MaxSteps => /\ 6 * (MaxSteps - steps) - r - h \in 0 .. 6 * MaxSteps
                            /\ 6 * (MaxSteps - steps) - r - h >= 1
  BY <1>1
<1>. QED
  BY <1>1, <1>2, <1>3 DEF MovesLeft, StepPhases

\* Whatever the page, the browser and the agent do, an episode is over after at
\* most six moves for each of its max_steps steps: every move of an episode, a
\* refused, failed or idle step and the page's own navigations included, uses
\* one up, and when none is left the episode has ended (WebTestingEnv.step).
THEOREM EpisodesAreBounded ==
  Spec => /\ [](MovesLeft \in 0 .. 6 * MaxSteps /\ (MovesLeft = 0 <=> phase = "ended"))
          /\ [][phase # "ended" => MovesLeft' < MovesLeft]_vars
<1>1. Typed => /\ MovesLeft \in 0 .. 6 * MaxSteps
               /\ MovesLeft = 0 <=> phase = "ended"
  <2> SUFFICES ASSUME Typed
               PROVE  /\ MovesLeft \in 0 .. 6 * MaxSteps
                      /\ MovesLeft = 0 <=> phase = "ended"
    OBVIOUS
  <2>1. phase \in StepPhases \/ phase = "ended"
    BY DEF Typed, TypeOK
  <2>2. phase = "ended" => MovesLeft = 0
    BY DEF MovesLeft
  <2>. QED
    BY <2>1, <2>2, MovesBounded DEF StepPhases
<1>2. Typed /\ HopsBehind /\ Typed' /\ [Next]_vars => [phase # "ended" => MovesLeft' < MovesLeft]_vars
  <2> SUFFICES ASSUME Typed, HopsBehind, Typed', Next, phase # "ended"
               PROVE  MovesLeft' < MovesLeft
    OBVIOUS
  <2>1. steps \in Nat /\ MaxSteps \in Nat /\ steps <= MaxSteps
        /\ hopped \subseteq StepPhases
    BY DEF Typed, TypeOK
  <2>2. CASE PageAction \/ HistoryAction
    <3>1. /\ phase = "ready" /\ phase' = "acted" /\ steps' = steps
          /\ hopped' = hopped \cap {"ready"}
      BY <2>2 DEF PageAction, HistoryAction, Begin
    <3>2. Rank = 0 /\ Rank' = 2 /\ Hops \in 0 .. 1 /\ Hops' = 0
      BY <3>1 DEF Rank, Hops
    <3>. QED
      BY <2>1, <3>1, <3>2 DEF MovesLeft
  <2>3. CASE PageNavigates
    <3>1. /\ phase \in StepPhases /\ phase \notin hopped
          /\ hopped' = hopped \cup {phase} /\ phase' = phase /\ steps' = steps
      BY <2>3 DEF PageNavigates
    <3>2. Rank \in 0 .. 4 /\ Rank' = Rank /\ Hops = 0 /\ Hops' = 1
      BY <3>1 DEF Rank, Hops
    <3>. QED
      BY <2>1, <3>1, <3>2 DEF MovesLeft, StepPhases
  <2>4. CASE GuardPasses \/ GuardRefuses
    <3>1. phase = "acted" /\ phase' = "guarded" /\ steps' = steps /\ hopped' = hopped
      BY <2>4 DEF GuardPasses, GuardRefuses
    <3>2. Rank = 2 /\ Rank' = 4 /\ Hops \in 0 .. 1 /\ Hops' = 0
      BY <3>1 DEF Rank, Hops, HopsBehind
    <3>. QED
      BY <2>1, <3>1, <3>2 DEF MovesLeft
  <2>5. CASE Capture
    <3>1. /\ phase = "guarded" /\ phase' \in {"ready", "ended"} /\ steps' = steps + 1
          /\ hopped' = hopped \ {"ready"}
      BY <2>5 DEF Capture
    <3>2. CASE phase' = "ended"
      BY <3>1, <3>2, MovesBounded DEF MovesLeft, StepPhases
    <3>3. CASE phase' = "ready"
      <4>1. Rank = 4 /\ Rank' = 0 /\ Hops \in 0 .. 1 /\ Hops' = 0
        BY <3>1, <3>3 DEF Rank, Hops
      <4>. QED
        BY <2>1, <3>1, <3>3, <4>1 DEF MovesLeft
    <3>. QED
      BY <3>1, <3>2, <3>3
  <2>. QED
    BY <2>2, <2>3, <2>4, <2>5 DEF Next, Reset, ResetRaises
<1>. QED
  BY <1>1, <1>2, HopsStayBehind, PTL DEF Spec
=============================================================================
