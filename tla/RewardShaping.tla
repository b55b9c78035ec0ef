--------------------------- MODULE RewardShaping ---------------------------
(***************************************************************************)
(* The deterministic reward of WebFunctionalEnv: the ErrorBaseline, the    *)
(* edge-triggered detect_bug_signals, the FindingLedger that pays for a    *)
(* finding once per episode, the ExplorationTracker, and compose_reward.   *)
(*                                                                         *)
(* Amounts are integers in units of 0.05, so every default weight is exact.*)
(***************************************************************************)
EXTENDS Integers, Sequences, FiniteSets

CONSTANTS
  Pages,          \* pages the agent can observe
  UrlOf,          \* the URL of each page
  KeyOf,          \* _state_key: the fingerprint of each page
  Actions,        \* concrete actions
  IdentityOf,     \* _action_identity: what counts as the same action
  ElementOf,      \* the element a finding is charged to
  NavActions,     \* clicks on a control that should change the URL
  ErrorKeys,      \* HTTP errors the application can produce
  DocumentErrors, \* those of a main document
  JudgeBases,     \* what the judge's verdict can add (0: expected)
  Window,         \* repetition_window
  MaxSteps        \* max_steps

ASSUME ActionsAssumption ==
  /\ NavActions \subseteq Actions
  /\ DocumentErrors \subseteq ErrorKeys

ASSUME NumbersAssumption ==
  /\ JudgeBases \subseteq Nat
  /\ Window \in Nat \ {0}
  /\ MaxSteps \in Nat \ {0}

VARIABLES
  page,           \* the last observation
  pageSettled,    \* _page_settled
  baseline,       \* ErrorBaseline._known: kept across episodes
  episodeStates,  \* ExplorationTracker._episode_states
  allStates,      \* ExplorationTracker._all_states: kept across episodes
  recent,         \* ExplorationTracker._recent_actions
  ledger,         \* FindingLedger._paid
  steps,          \* _steps_taken
  last,           \* what the last step reported: see Report
  bonuses,        \* history: how often each finding was paid in the episode
  novelties       \* history: how often each state earned novelty in it

vars == <<page, pageSettled, baseline, episodeStates, allStates, recent,
          ledger, steps, last, bonuses, novelties>>

-----------------------------------------------------------------------------
(* FunctionalRewardWeights.                                                *)

Triggers == {"console_errors", "unexpected_http_errors", "document_http_error",
             "slow_response", "broken_navigation"}

TriggerBonus(t) ==
  CASE t = "unexpected_http_errors" -> 60
    [] t = "slow_response"          -> 20
    [] OTHER                        -> 40

\* Fault: a finding that is already known still pays.
RediscoveryPays == 20

StepPenalty         == -1
FailedActionPenalty == -2
NoveltyBonus        == 20
RepetitionPenalty   == -3
MaxRepetition       == -20
RediscoveryBonus    == 0

-----------------------------------------------------------------------------
(* One executed action, as the browser reports it: the page observed after *)
(* it, whether an error was logged, the HTTP errors, whether the page came *)
(* to rest, whether a tab was adopted, whether the handler succeeded.      *)

Keys     == {KeyOf[p] : p \in Pages}
Elements == {ElementOf[a] : a \in Actions}
Findings == Triggers \X Keys \X Elements

Outcomes == [action : Actions, page : Pages, console : BOOLEAN,
             http : SUBSET ErrorKeys, settled : BOOLEAN,
             opened : BOOLEAN, success : BOOLEAN]

UnexpectedErrors(o) == o.http \ baseline

\* Fault: baseline noise counts as an error.
UnexpectedErrorsAll(o) == o.http

DocumentError(o) == UnexpectedErrors(o) \cap DocumentErrors # {}

BrokenNavigation(o) ==
  /\ o.action \in NavActions
  /\ ~o.opened
  /\ UrlOf[o.page] = UrlOf[page] \/ DocumentError(o)

\* Fault: not edge-triggered.
SlowWhileUnsettled(o) == ~o.settled

SlowResponse(o) == ~o.settled /\ pageSettled

\* detect_bug_signals.
Fired(o) ==
  {t \in Triggers :
     \/ t = "console_errors" /\ o.console
     \/ t = "unexpected_http_errors" /\ UnexpectedErrors(o) # {}
     \/ t = "document_http_error" /\ DocumentError(o)
     \/ t = "slow_response" /\ SlowResponse(o)
     \/ t = "broken_navigation" /\ BrokenNavigation(o)}

FindingOf(t, o) == <<t, KeyOf[o.page], ElementOf[o.action]>>

\* Fault: the ledger is not asked.
NewTriggersUnpaid(o) == Fired(o)

\* FindingLedger.classify: the fired triggers it has not paid for yet.
NewTriggers(o) == {t \in Fired(o) : FindingOf(t, o) \notin ledger}

NewFindings(o) == {FindingOf(t, o) : t \in NewTriggers(o)}

\* Fault: only compared with the page before.
IsNovelChange(o) == KeyOf[o.page] # KeyOf[page]

\* ExplorationTracker.observe_step.
IsNovel(o) == KeyOf[o.page] \notin episodeStates

RepeatCount(o) ==
  Cardinality({i \in DOMAIN recent : recent[i] = IdentityOf[o.action]})

\* Fault: the window is not bounded.
RememberAll(window, identity) == Append(window, identity)

\* deque(maxlen=repetition_window).append
Remember(window, identity) ==
  Append(IF Len(window) < Window THEN window ELSE Tail(window), identity)

-----------------------------------------------------------------------------
(* compose_reward.                                                         *)

\* What trigger t adds to the reward of outcome o.
PaidFor(t, o) ==
  IF t \notin Fired(o) THEN 0
  ELSE IF t \in NewTriggers(o) THEN TriggerBonus(t) ELSE RediscoveryBonus

BugBonus(o) ==
  PaidFor("console_errors", o) + PaidFor("unexpected_http_errors", o)
    + PaidFor("document_http_error", o) + PaidFor("slow_response", o)
    + PaidFor("broken_navigation", o)

ExplorationBonus(o) ==
  LET penalty == RepetitionPenalty * RepeatCount(o)
  IN  (IF IsNovel(o) THEN NoveltyBonus ELSE 0)
        + (IF penalty < MaxRepetition THEN MaxRepetition ELSE penalty)

\* Fault: a failed action is free.
StepCostIfDone(o) == IF o.success THEN StepPenalty ELSE 0

StepCost(o) ==
  IF o.success THEN StepPenalty ELSE StepPenalty + FailedActionPenalty

Reward(o, base) == base + BugBonus(o) + ExplorationBonus(o) + StepCost(o)

\* What a step puts in info: fired triggers, findings paid for, novelty,
\* the judge's part and the total.
Report(o, base) ==
  [fired |-> Fired(o),
   paid  |-> {FindingOf(t, o) : t \in {x \in Triggers : PaidFor(x, o) > 0}},
   novel |-> IsNovel(o),
   base  |-> base,
   total |-> Reward(o, base)]

NoReport == [fired |-> {}, paid |-> {}, novel |-> FALSE, base |-> 0, total |-> 0]

-----------------------------------------------------------------------------

\* reset() up to its last line: the landing page has been observed.
Init ==
  /\ page \in Pages
  /\ pageSettled \in BOOLEAN
  /\ baseline \in SUBSET ErrorKeys
  /\ episodeStates = {KeyOf[page]}
  /\ allStates = {KeyOf[page]}
  /\ recent = <<>>
  /\ ledger = {}
  /\ steps = 0
  /\ last = NoReport
  /\ bonuses = [f \in Findings |-> 0]
  /\ novelties = [k \in Keys |-> 0]

\* reset() again: what is episodic starts anew, the baseline only grows.
Reset ==
  /\ \E landing \in Pages, settled \in BOOLEAN, errors \in SUBSET ErrorKeys :
       /\ page' = landing
       /\ pageSettled' = settled
       /\ baseline' = baseline \cup errors
       /\ episodeStates' = {KeyOf[landing]}
       /\ allStates' = allStates \cup {KeyOf[landing]}
  /\ recent' = <<>>
  /\ ledger' = {}
  /\ steps' = 0
  /\ last' = NoReport
  /\ bonuses' = [f \in Findings |-> 0]
  /\ novelties' = [k \in Keys |-> 0]

\* step(), from the observation after the action to the reward.
Step(o, base) ==
  /\ steps < MaxSteps
  /\ page' = o.page
  /\ pageSettled' = o.settled
  /\ episodeStates' = episodeStates \cup {KeyOf[o.page]}
  /\ allStates' = allStates \cup {KeyOf[o.page]}
  /\ recent' = Remember(recent, IdentityOf[o.action])
  /\ ledger' = ledger \cup NewFindings(o)
  /\ steps' = steps + 1
  /\ last' = Report(o, base)
  /\ bonuses' = [f \in Findings |->
                   bonuses[f] + IF f \in last'.paid THEN 1 ELSE 0]
  /\ novelties' = [k \in Keys |->
                     novelties[k] + IF IsNovel(o) /\ k = KeyOf[o.page] THEN 1 ELSE 0]
  /\ UNCHANGED baseline

Next ==
  \/ Reset
  \/ \E o \in Outcomes, base \in JudgeBases : Step(o, base)

Spec == Init /\ [][Next]_vars

-----------------------------------------------------------------------------
(* Properties.                                                             *)

Reports == [fired : SUBSET Triggers, paid : SUBSET Findings, novel : BOOLEAN,
            base : Nat, total : Int]

\* Every variable stays in its type; the window never exceeds its length.
TypeOK ==
  /\ page \in Pages
  /\ pageSettled \in BOOLEAN
  /\ baseline \subseteq ErrorKeys
  /\ episodeStates \subseteq Keys
  /\ allStates \subseteq Keys
  /\ recent \in Seq({IdentityOf[a] : a \in Actions}) /\ Len(recent) <= Window
  /\ ledger \subseteq Findings
  /\ steps \in 0 .. MaxSteps
  /\ last \in Reports
  /\ bonuses \in [Findings -> Nat]
  /\ novelties \in [Keys -> Nat]

\* No finding earns its bonus twice in an episode, whatever the page keeps
\* logging and however often the agent comes back (FindingLedger's exploit).
PaidOncePerEpisode == \A f \in Findings : bonuses[f] <= 1

\* In an episode every page state reached has earned the novelty bonus exactly
\* once, except the landing page, which never earns it (observe_reset).
NoveltyOncePerEpisode ==
  /\ \A k \in Keys : novelties[k] <= 1
  /\ \E landing \in episodeStates :
       {k \in Keys : novelties[k] = 1} = episodeStates \ {landing}

\* Farming does not pay: a step that neither finds anything new nor reaches a
\* new state costs at least the step penalty, apart from the judge's part.
NothingNewCosts ==
  steps > 0 /\ last.paid = {} /\ ~last.novel => last.total - last.base <= StepPenalty

\* A page that stays unsettled is reported once, against the action that
\* caused it, and not against the actions after it.
SlowOncePerHang ==
  [][ "slow_response" \in last.fired /\ steps' = steps + 1
        => "slow_response" \notin last'.fired ]_vars

\* The ledger implements "a discovery happens once".
Payout == INSTANCE FindingPayout WITH claimed <- ledger, payout <- last.paid
PayoutSpec == Payout!Spec
=============================================================================
