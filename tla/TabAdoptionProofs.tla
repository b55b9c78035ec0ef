------------------------- MODULE TabAdoptionProofs -------------------------
(***************************************************************************)
(* For any number of tabs and steps: the page under test is open, and in  *)
(* the application unless it was followed while blank; reported promptly,  *)
(* every tab is credited to the step that opened it, and with working      *)
(* closes none is left behind.                                             *)
(***************************************************************************)
EXTENDS TabAdoption, TLAPS

\* A tab that is open or on its way was opened in this episode; the main tab
\* was there from the start and is not opened again.
OpenedInEpisode ==
  /\ \A t \in (pages \cup unreported) \ {MainTab} : openedBy[t] # 0
  /\ openedBy[MainTab] = 0
  /\ MainTab \notin unreported

\* With prompt reports, what mark_pages has not seen the current step opened.
NewTabsAreOwn ==
  prompt => IF phase = "idle" THEN unreported = {}
            ELSE \A t \in (pages \ known) \cup unreported : openedBy[t] = step

\* mark_pages saw the page under test.
CurrentIsKnown == phase = "acting" => current \in known

\* An action belongs to a step that has begun.
StepsBegun == phase = "acting" => step # 0

IInv ==
  /\ TypeOK
  /\ StepsBegun
  /\ OpenedInEpisode
  /\ CurrentIsOpenAndInside
  /\ CurrentIsKnown
  /\ NewTabsAreOwn
  /\ NoTabLeftBehind

USE TabsAssumption, BoundsAssumption

-----------------------------------------------------------------------------
(* One lemma for each action.                                              *)

\* A fresh context has one tab, the page under test.
LEMMA InitEstablishes == Init => IInv
<1> SUFFICES ASSUME Init PROVE IInv
  OBVIOUS
<1>1. TypeOK
  <2>1. at \in [Tabs -> Places]
    BY DEF Init, Places
  <2>2. openedBy \in [Tabs -> 0 .. MaxSteps] /\ arrival \in [Tabs -> 0 .. reports]
    BY DEF Init
  <2>. QED
    BY <2>1, <2>2 DEF Init, TypeOK
<1>2. OpenedInEpisode /\ CurrentIsOpenAndInside /\ CurrentIsKnown /\ StepsBegun
  BY DEF StepsBegun, Init, OpenedInEpisode, CurrentIsOpenAndInside, CurrentIsKnown
<1>3. NewTabsAreOwn /\ NoTabLeftBehind
  BY DEF Init, NewTabsAreOwn, NoTabLeftBehind
<1>. QED
  BY <1>1, <1>2, <1>3 DEF IInv

\* So has the context of every later episode.
LEMMA NewEpisodePreserves ==
  ASSUME IInv, NewEpisode
  PROVE  IInv'
<1>1. TypeOK'
  <2>1. prompt' \in BOOLEAN /\ closeFails' \in BOOLEAN
    BY DEF IInv, TypeOK, NewEpisode, browser
  <2>2. at' \in [Tabs -> Places]
    BY DEF NewEpisode, Places
  <2>3. openedBy' \in [Tabs -> 0 .. MaxSteps] /\ arrival' \in [Tabs -> 0 .. reports']
    BY DEF NewEpisode
  <2>. QED
    BY <2>1, <2>2, <2>3 DEF IInv, TypeOK, NewEpisode
<1>2. OpenedInEpisode' /\ CurrentIsOpenAndInside' /\ CurrentIsKnown' /\ StepsBegun'
  BY DEF StepsBegun, NewEpisode, OpenedInEpisode, CurrentIsOpenAndInside, CurrentIsKnown
<1>3. NewTabsAreOwn' /\ NoTabLeftBehind'
  BY DEF NewEpisode, NewTabsAreOwn, NoTabLeftBehind
<1>. QED
  BY <1>1, <1>2, <1>3 DEF IInv

\* mark_pages sees every reported tab; promptly reported, none is on its way.
LEMMA MarkPagesPreserves ==
  ASSUME IInv, MarkPages
  PROVE  IInv'
<1>1. TypeOK'
  BY DEF IInv, TypeOK, MarkPages, browser, order
<1>2. OpenedInEpisode' /\ CurrentIsOpenAndInside'
  BY DEF IInv, MarkPages, OpenedInEpisode, CurrentIsOpenAndInside
<1>3. CurrentIsKnown' /\ StepsBegun'
  BY DEF IInv, TypeOK, MarkPages, StepsBegun, CurrentIsKnown, CurrentIsOpenAndInside
<1>4. NewTabsAreOwn' /\ NoTabLeftBehind'
  BY DEF IInv, MarkPages, NewTabsAreOwn, NoTabLeftBehind, browser
<1>. QED
  BY <1>1, <1>2, <1>3, <1>4 DEF IInv

\* A tab is opened once, and the step that runs is recorded as its opener.
LEMMA OpenTabPreserves ==
  ASSUME IInv, NEW t \in Tabs, OpenTab(t)
  PROVE  IInv'
<1>1. t \notin pages \cup unreported /\ step \in 0 .. MaxSteps
  BY DEF IInv, TypeOK, OpenTab, OpenedInEpisode
<1>2. TypeOK'
  BY <1>1 DEF IInv, TypeOK, OpenTab, browser, order
<1>3. step # 0
  BY DEF IInv, OpenTab, StepsBegun
<1>4. OpenedInEpisode'
  BY <1>1, <1>3 DEF IInv, TypeOK, OpenTab, OpenedInEpisode
<1>5. CurrentIsOpenAndInside'
  BY <1>1 DEF IInv, TypeOK, OpenTab, CurrentIsOpenAndInside
<1>6. NewTabsAreOwn'
  BY <1>1 DEF IInv, TypeOK, OpenTab, NewTabsAreOwn, browser
<1>7. CurrentIsKnown' /\ NoTabLeftBehind' /\ StepsBegun'
  BY DEF IInv, OpenTab, CurrentIsKnown, NoTabLeftBehind, StepsBegun
<1>. QED
  BY <1>2, <1>4, <1>5, <1>6, <1>7 DEF IInv

\* Where a blank tab gets to does not concern a page that was not blank.
LEMMA LoadPreserves ==
  ASSUME IInv, NEW t \in Tabs, Load(t)
  PROVE  IInv'
<1>1. TypeOK'
  BY DEF IInv, TypeOK, Load, Places, browser, order
<1>2. OpenedInEpisode' /\ CurrentIsKnown' /\ StepsBegun'
  BY DEF IInv, Load, OpenedInEpisode, CurrentIsKnown, StepsBegun
<1>3. CurrentIsOpenAndInside'
  BY DEF IInv, TypeOK, Load, CurrentIsOpenAndInside
<1>4. NewTabsAreOwn' /\ NoTabLeftBehind'
  BY DEF IInv, Load, NewTabsAreOwn, NoTabLeftBehind, browser
<1>. QED
  BY <1>1, <1>2, <1>3, <1>4 DEF IInv

\* A report moves a tab from those on their way to context.pages.
LEMMA ReportPreserves ==
  ASSUME IInv, NEW t \in Tabs, Report(t)
  PROVE  IInv'
<1>1. TypeOK'
  BY DEF IInv, TypeOK, Report, browser
<1>2. OpenedInEpisode' /\ CurrentIsOpenAndInside' /\ CurrentIsKnown'
  BY DEF IInv, Report, OpenedInEpisode, CurrentIsOpenAndInside, CurrentIsKnown
<1>3. NewTabsAreOwn' /\ NoTabLeftBehind' /\ StepsBegun'
  BY DEF IInv, Report, NewTabsAreOwn, NoTabLeftBehind, StepsBegun, browser
<1>. QED
  BY <1>1, <1>2, <1>3 DEF IInv

-----------------------------------------------------------------------------
(* take_new_page                                                           *)

\* Whatever is closed, what remains was open; with working closes nothing that
\* had to be closed remains.
LEMMA FinishCloses ==
  ASSUME NEW doomed \in SUBSET pages, Finish(doomed)
  PROVE  /\ pages \ doomed \subseteq pages' /\ pages' \subseteq pages
         /\ ~closeFails => pages' = pages \ doomed
BY DEF Finish, Survivors

\* After take_new_page: the page under test is one of the open tabs and not
\* seen outside, and closing everything but it leaves it alone.
LEMMA FinishPreserves ==
  ASSUME IInv, TakePhase, NEW doomed \in SUBSET pages, Finish(doomed),
         current' \in pages \ doomed, offsite' \in BOOLEAN, blankTaken' \in BOOLEAN,
         at[current'] = "inside" \/ blankTaken',
         pages \ doomed \subseteq {current'}
  PROVE  IInv'
<1>1. /\ pages \ doomed \subseteq pages' /\ pages' \subseteq pages
      /\ ~closeFails => pages' = {current'}
  BY FinishCloses
<1>2. TypeOK'
  BY <1>1 DEF IInv, TypeOK, Finish, browser, order
<1>3. OpenedInEpisode'
  BY <1>1 DEF IInv, Finish, OpenedInEpisode
<1>4. CurrentIsOpenAndInside' /\ CurrentIsKnown' /\ StepsBegun'
  BY <1>1 DEF IInv, Finish, CurrentIsOpenAndInside, CurrentIsKnown, StepsBegun
<1>5. NewTabsAreOwn'
  BY DEF IInv, TakePhase, Finish, NewTabsAreOwn, browser
<1>6. NoTabLeftBehind'
  BY <1>1 DEF Finish, NoTabLeftBehind, browser
<1>. QED
  BY <1>2, <1>3, <1>4, <1>5, <1>6 DEF IInv

\* Without a tab of this action every other tab is stale.
LEMMA NoNewTabPreserves ==
  ASSUME IInv, NoNewTab
  PROVE  IInv'
<1>1. current' \in pages \ Stale /\ pages \ Stale \subseteq {current'}
      /\ (at[current'] = "inside" \/ blankTaken')
  BY DEF IInv, NoNewTab, Finish, CurrentIsOpenAndInside, Candidates, Stale
<1>2. TakePhase /\ Finish(Stale) /\ Stale \in SUBSET pages /\ offsite' \in BOOLEAN
      /\ blankTaken' \in BOOLEAN
  BY DEF IInv, TypeOK, NoNewTab, Stale
<1>. QED
  BY <1>1, <1>2, FinishPreserves

\* An off-site tab goes with every other new one; the page stays.
LEMMA DiscardOffsitePreserves ==
  ASSUME IInv, DiscardOffsite
  PROVE  IInv'
<1> DEFINE doomed == Stale \cup Candidates
<1>1. current' \in pages \ doomed /\ pages \ doomed \subseteq {current'}
      /\ (at[current'] = "inside" \/ blankTaken')
  BY DEF IInv, DiscardOffsite, CurrentIsOpenAndInside, Candidates, Stale
<1>2. TakePhase /\ Finish(doomed) /\ doomed \in SUBSET pages /\ offsite' \in BOOLEAN
      /\ blankTaken' \in BOOLEAN
  BY DEF IInv, TypeOK, DiscardOffsite, Stale, Candidates
<1>. QED
  BY <1>1, <1>2, FinishPreserves

\* The adopted tab is the only one that is not to be closed.
LEMMA AdoptPreserves ==
  ASSUME IInv, NEW t \in Tabs, Adopt(t)
  PROVE  IInv'
<1> DEFINE doomed == Stale \cup {current} \cup (Candidates \ {t})
<1>1. current' \in pages \ doomed /\ pages \ doomed \subseteq {current'}
      /\ (at[current'] = "inside" \/ blankTaken')
  BY DEF IInv, TypeOK, Adopt, Accepted, Places, Newest, Candidates, Stale
<1>2. doomed \in SUBSET pages
  BY DEF IInv, CurrentIsOpenAndInside, Stale, Candidates
<1>3. TakePhase /\ Finish(doomed) /\ offsite' \in BOOLEAN /\ blankTaken' \in BOOLEAN
  BY DEF Adopt
<1>. QED
  BY <1>1, <1>2, <1>3, FinishPreserves

\* Every step preserves the invariant.
LEMMA NextPreserves == IInv /\ [Next]_vars => IInv'
<1> SUFFICES ASSUME IInv, [Next]_vars PROVE IInv'
  OBVIOUS
<1>1. CASE UNCHANGED vars
  BY <1>1 DEF IInv, TypeOK, OpenedInEpisode, CurrentIsOpenAndInside, CurrentIsKnown,
              NewTabsAreOwn, NoTabLeftBehind, StepsBegun, vars, browser, order
<1>2. CASE NewEpisode
  BY <1>2, NewEpisodePreserves
<1>3. CASE MarkPages
  BY <1>3, MarkPagesPreserves
<1>4. CASE \E t \in Tabs : OpenTab(t) \/ Load(t) \/ Report(t) \/ Adopt(t)
  BY <1>4, OpenTabPreserves, LoadPreserves, ReportPreserves, AdoptPreserves
<1>5. CASE NoNewTab
  BY <1>5, NoNewTabPreserves
<1>6. CASE DiscardOffsite
  BY <1>6, DiscardOffsitePreserves
<1>. QED
  BY <1>1, <1>2, <1>3, <1>4, <1>5, <1>6 DEF Next

-----------------------------------------------------------------------------
(* The theorems.                                                           *)

\* The strengthened invariant holds in every behaviour.
THEOREM InductiveInvariant == Spec => []IInv
BY InitEstablishes, NextPreserves, PTL DEF Spec

\* Every variable stays in its type (mark_pages, take_new_page).
THEOREM TypeCorrect == Spec => []TypeOK
<1>1. IInv => TypeOK
  BY DEF IInv
<1>. QED
  BY <1>1, InductiveInvariant, PTL

\* The page under test is open, and inside the application unless it was blank
\* when it was followed, whatever tabs were opened, reported late or could not be
\* closed (take_new_page).
THEOREM DrivesAnOpenPage == Spec => []CurrentIsOpenAndInside
<1>1. IInv => CurrentIsOpenAndInside
  BY DEF IInv
<1>. QED
  BY <1>1, InductiveInvariant, PTL

\* Reported promptly and closed without error, no tab outlives its step
\* (the closing of stale and superseded pages in take_new_page).
THEOREM OneTabAfterAStep == Spec => []NoTabLeftBehind
<1>1. IInv => NoTabLeftBehind
  BY DEF IInv
<1>. QED
  BY <1>1, InductiveInvariant, PTL

\* Reported promptly, no tab is credited to a step that did not open it, even
\* when closes fail and leave it open (mark_pages).
THEOREM CreditIsDue == Spec => PromptTabsCredited
<1>1. IInv /\ [Next]_vars => [prompt => CreditsItsOwn]_vars
  <2> SUFFICES ASSUME IInv, Next, prompt, phase = "acting" PROVE CreditsItsOwn
    BY DEF CreditsItsOwn
  <2>1. \A t \in Candidates : openedBy[t] = step
    BY DEF IInv, NewTabsAreOwn, Candidates
  <2>2. CASE NewEpisode \/ MarkPages
    BY <2>2 DEF NewEpisode, MarkPages
  <2>3. CASE \E t \in Tabs : OpenTab(t) \/ Load(t) \/ Report(t)
    BY <2>3 DEF OpenTab, Load, Report, CreditsItsOwn
  <2>4. CASE NoNewTab
    BY <2>4 DEF NoNewTab, CreditsItsOwn
  <2>5. CASE DiscardOffsite
    BY <2>1, <2>5 DEF DiscardOffsite, Newest, CreditsItsOwn
  <2>6. CASE \E t \in Tabs : Adopt(t)
    BY <2>1, <2>6 DEF Adopt, Newest, CreditsItsOwn
  <2>. QED
    BY <2>2, <2>3, <2>4, <2>5, <2>6 DEF Next
<1>. QED
  BY <1>1, InductiveInvariant, PTL DEF Spec, PromptTabsCredited
=============================================================================
