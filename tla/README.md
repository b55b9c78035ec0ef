# Verification of the web-testing agent

TLA+ models of the core of this repository (`src/web_testing_agent` and the scripts that drive
it): an environment that drives a browser, a reward made of deterministic triggers and an LLM
judge, and the machinery that records what an agent does as traces. TLC checks small instances
of every model; TLAPS proves every safety property of the passing runs for all values of the
constants. Paths below are relative to the repository; `envs/`, `reward/`, `judge/`,
`evaluation/`, `annotation/`, `perception/` are packages of `src/web_testing_agent`.

## 1. The system

| Component | Code | State | Operations | Interacts with |
|---|---|---|---|---|
| Browser session | `envs/browser_session.py` | context, current page, known tabs | `new_episode`, `mark_pages`, `take_new_page`, `history_move`, `restore`, `wait_settled` | called by the environment; the browser changes pages and tabs behind it |
| Environment | `envs/base_env.py`, `envs/functional_env.py` | last observation, step count, event buffers, settled flag, action specs | `reset`, `step`, listeners (callbacks) | session, recorder, reward, registry |
| Network recorder | `envs/network_recorder.py` | pending requests, events | Playwright callbacks, `drain` | one per tab, drained by the environment |
| Action registry | `envs/action_registry.py`, `envs/input_values.py` | none | scan, build specs | environment |
| Deterministic reward | `reward/functional_triggers.py`, `reward/exploration.py` | error baseline, finding ledger, visited states, window of actions | `learn`, `detect_bug_signals`, `classify`, `observe_step`, `compose_reward` | environment, step by step |
| Judge as reward | `reward/llm_judge.py`, `reward/gating.py`, `judge/verdict.py`, clients | window of records, call counters, verdicts, gate statistics | `start_episode`, `score` | environment; an unreliable LLM service |
| Judge off line | `judge/window.py`, `validate.py`, `prompt.py`, `scoring.py`, `scripts/score_judge.py` | none | cut windows, render, validate, score | traces |
| Rollout and policies | `evaluation/rollout.py`, `evaluation/scripted.py` | report; cursor, retries, misses | `run_rollout`, `act` | environment, recorder |
| Traces | `annotation/trace.py`, `scripts/capture_traces.py` | counters, previous page, files | `on_reset`, `on_step`, `close` | rollout |
| Perception, agents | `perception/`, `agents/` | encoder caches, action masks | `encode_batch`, `step_wait`, `predict` | stable-baselines3 |
| Intake | `intake/` | none | validate compose files, slice application profiles | judge prompt |

What makes it hard: the program is single-threaded, but the browser is not. Pages navigate,
open tabs and raise errors on their own; Playwright's synchronous API dispatches those events
only inside the program's next call to it, so events, tabs and navigations arrive late and in
between any two calls. Browser calls and judge calls fail, with or without effect. Rewards are
episodic sums over histories, which is where an agent finds loopholes. Episodes reset some state
and keep other state.

What makes each part correct: the agent never stays outside the application and every episode
ends (session); a tab belongs to the action that opened it (tabs); an error belongs to the
application, the episode and the step that raised it, and is reported once (events); nothing
pays twice (reward); an outage never pays and a budget is a budget (judge); a script that did
not run is seen, and a report is what its trace shows (capture); what the judge is shown does not
contradict the record, and a judge that is down does not make a bug missed (judging off line); an
action is one that was offered and reaches the element it was built for (agents). The full list
of hazards, each at its line with the properties that cover it, is `hazards` in `PROJECT.json`.

## 2. Modules

| Module | Models | State and actions |
|---|---|---|
| `BrowserSession` | the off-site guard | `tab` is the browser's session history; a step is `PageAction`/`HistoryAction` (the handler), `GuardPasses`/`GuardRefuses` (base_env.py:300-321 with `restore`), `Capture` (observation and end of episode). `PageNavigates` is the page moving by itself in any phase. `Goto`, `Raised` give every outcome of a browser call: it may raise, with or without effect, and a load may end where `LandsAt` redirects it, which `restore` does not look at; `redirected` remembers that. `ResetRaises` is a reset whose `goto` raises. |
| `TabAdoption` | `mark_pages`, `take_new_page` | a tab is opened by `OpenTab`, enters `pages` (context.pages) by `Report`, possibly steps later, and is adopted, discarded or left by `Adopt`, `DiscardOffsite`, `NoNewTab`; any `close` may fail. A tab may be at `about:blank` until `Load`, and `Accepted` lets a blank one through, as `accept` does; `blankTaken` remembers it. |
| `EventCapture` | listeners, buffers, baseline | `Emit` raises, `Deliver` runs the listener at any later call; `ObserveStep`, `ObserveReset` drain all four buffers; `AdoptNewPage` carries the old recorder's events; `Refuse`/`DiscardOffsiteEvents` are the two halves of a refusal; `Reset`/`NewEpisode` let the old listeners run once more. `stepEvents` is history: what the action of a step raised. |
| `RewardShaping` | the deterministic reward | one `Step` is the whole of `_compute_reward` for an outcome of an action, `Reset` the reward's part of `reset`. Amounts are integers in units of 0.05. |
| `FindingPayout` | abstract: a discovery pays once | implemented by `RewardShaping` with `claimed <- ledger`, `payout <- last.paid`. |
| `JudgeGate` | `reward/gating.py` | a pure decision about one step, shared by the live judge and the offline scorer, as in the code. |
| `JudgeReward` | `JudgeRewardModel` | `Decline` and `AskJudge` are the two ways through `score`; the reply is anything, an outage included. Scores are percentages; NaN is clamped to the whole, as `min(1.0, nan)` is. `JudgeRaises` is a reply with a number that overflows, which raises out of `score` and ends the run. |
| `ScriptedCapture` | `capture_scripted` with `run_rollout`, `ScriptedPolicy`, `TraceRecorder` | `BeginEpisode` (which reads `first_step` off the recorder before the rollout resets it), `Turn` (act, step, record, count), `Report`; the page decides whether a scripted step matches. `report` is the rollout's own, with `_record_findings`. |
| `JudgeWindows` | `judge/window.py`, `judge/validate.py` | no state: the view of a page, the lines and markers of a rendered step, the windows over a trace, the rules of validation. A URL is [http, origin, path, fragment]: the recorder compares whole URLs (`UrlChanged`), the renderer relative paths (`Navigated`). |
| `OfflineScoring` | `scripts/score_judge.py` over a trace, `judge/scoring.py` | `OnReset`, `OnStep`, `Close` record any trace; `GateWindows`, `Validate`, `JudgeWindow`, `FileReport` are the phases of `score_corpus`. The windows to judge are the set of their foci, the smallest next: the script's list is in the order of the trace. `Score` is a function of the number of judgments tallied so far. |
| `ActionRegistry` | `envs/action_registry.py` | no state: scan to action list (`Filter` is a list comprehension), selectors and what they match in the whole document, scanned or not, mask, resolution of an index. |
| `EncoderCache` | `_CachedEncoder` of `perception/encoders/models.py` | no state: a batch through a cache, with de-duplication and eviction in the middle. |
| `AgentLoop` | `MaskedDQN` over `SemanticPerceptionWrapper` over `WebTestingEnv`s | `Choose`; `EnvStep` environment by environment with auto-reset (DummyVecEnv, external); `StepWait`, `EncodeTerminal`; `PageMoves` is a page that changes by itself. Composes `ActionRegistry` and `EncoderCache`. |
| `...Proofs` (eight) | the theorems | |
| `MC...` | instances for TLC | |

How the modules fit: `OfflineScoring` extends `JudgeWindows` and `JudgeGate`, `JudgeReward` extends
`JudgeGate`, `AgentLoop` extends `ActionRegistry` and `EncoderCache`, and `RewardShaping` implements
`FindingPayout`. `BrowserSession`, `TabAdoption` and `EventCapture` are three views of one `step`,
kept apart because their product is out of TLC's reach; each has the phases of `step` that
matter to it, in the order of the code.

What stands for what, where it is not obvious:

- `TabAdoption`: `context.pages` is a set with an order of arrival (`arrival`), of which the code
  only asks for the newest new tab.
- `JudgeWindows`: a line of text or a label is an opaque value. The rules of `validate.py` look for
  markers in the rendered text, whoever wrote them: `quoted` holds those that stand in what the
  step shows of the application, and `Reads` is what the rules find. `rest` is everything of a
  document the view leaves out.
- `EncoderCache`: one cache stands for the three encoders, which share the class. An input's
  key is `KeyOf`; in the runs keys are exact (see the disagreement about screenshots below). A
  cache is a sequence of entries, the one to evict first: `Without` and `Append` are the
  `move_to_end` of an ordered dictionary.
- `AgentLoop`: the identity `<<episode, step>>` of an observation stands for its text and its
  context vector; a scan that raises returns no element, as the scan of an empty page does. A
  value to type is its category.

Operators marked "Fault" are plausible bugs of the code; each property of a passing run is
violated when the definition after it is replaced by one of them (`mutants` in `PROJECT.json`).
They are part of no specification.

## 3. Runs

Passing, each with its module's `TypeOK`:

| Run | Shows | Bounds |
|---|---|---|
| `session` (1.3 M states) | `TerminatedOnlyIfStranded`, `HistoryStaysInApp`, `RestoredIsInside`, `EpisodeEnds` | two pages of the application, of which one is redirected outside or not at every load, one outside, about:blank (which stands for every URL of another scheme and without a host, blob: and data: too) and the browser's error page; two steps. Each step adds up to four navigations (action and one of the page's own per phase), so histories reach every mix of inside, outside and foreign-scheme entries that one BACK or a restore looks at. Browser calls raise with or without effect, the first load of an episode too. |
| `tabs` (238 k) | `CurrentIsOpenAndInside`, `NoTabLeftBehind`, `PromptTabsCredited` | three popups, three steps: a tab can be opened in one step, reported in the next and outlive a failed close in the third, and get to its URL in any of them. The browser is prompt or late, closes work or fail, chosen at the start. |
| `events` (1.04 M) | `NoForeignConsoleError`, `NothingLost`, `ReportedAtMostOnce`, `StepsReportOwnEpisode` | two events of four kinds, two tabs, two pages inside and one outside; with and without a bootstrap. Two events suffice, as every property relates at most two of them or one event and a phase. |
| `reward` (165 k) | `PaidOncePerEpisode`, `NoveltyOncePerEpisode`, `NothingNewCosts`, `SlowOncePerHang`, `PayoutSpec` | two pages, two actions, one document error, window of two, three steps: the window overflows, a finding recurs after another page. |
| `judge` (15 k) | `WindowIsRecent`, `BudgetRespected`, `OnlyConfidentBugsPay`, `CallsAccountedFor` | window of two, budget of one, three steps, two episodes; a number that is not numeric, NaN, one out of range, and a reply that raises. |
| `capture` (254 k) | `EveryStepAccountedFor`, `TraceIsChained`, `LabelsCoverTrace`, `ReportMatchesTrace`, `CaptureEnds` | scripts of two and one steps, one retry, two pages, one trigger, stranding at any step: a finding recurs, a step appears late, an episode is cut short. |
| `judging` (1.03 M) | `WindowsAreUnbroken`, `RenderingIsHonest`, `StepsAccountedFor`, `OutageIsNoMiss` | every trace of three steps in up to two episodes over a form, the same form at an anchor or changed where the view does not look, and another page; four outcomes of a step (idle, a new tab, typing into a field labelled with a marker, a refusal with console output) and three answers (none, clean, bug). Windows of two steps, so that one overflows; a view of one line and one link. |
| `agents` (645 k) | `ChoiceIsOffered`, `PairedModalities`, `ActsOnScannedElement` | two environments, two pages (one with a heading and four scanned elements whose actions exceed the twelve slots, one without any), two calls of `VecEnv.step`, one of them warm-up, episodes of two steps that may end early; a cache of one entry, smaller than the batch. |

Expected violations, each a disagreement between the code and what the repository says of it
(`findings` in `PROJECT.json`):

| Run | The code | What is said |
|---|---|---|
| `events_offsite_network` | a step is refused and its page brought back; a failed request that the action raised off-site is delivered after the clear and observed: only console and page errors are checked for their origin | "Nothing observed off-site is evidence about this application" (base_env.py:316) |
| `judge_trigger` | the live record has no `bug_signals`; a step on which only a trigger fired is gated away | "Never gate away a deterministic trigger" (gating.py:17) |
| `window_gone` | links are cut at `_LIST_MAX` before they are compared, so a link pushed past the cut by a new one is reported as no longer reachable | "Destinations a user could reach right now" (window.py:131) |
| `selector_first` | an element without an id is selected by tag and name, and `.first` takes the first of a group: the action for the second radio button reaches the first | "resolves to exactly the element that was scanned" (action_registry.py:84) |

Other disagreements met while modelling, which no run states:

- `base_env.py:349-351` says a terminated episode means a failed restore. It may also be a page
  that redirected by itself after the guard, or a `goto` of `restore` that was redirected off-site
  (an expired session) and reported as a return, since `restore` does not look where it ended
  (`browser_session.py:236-237`). `TerminatedOnlyIfStranded` and `RestoredIsInside` name those
  cases; `ReturnsAreInsideWithoutRedirects` shows that redirects are what the second one is about.
- `accept` is asked of a tab that may still be at `about:blank` (`browser_session.py:150`), which
  `_left_target_domain` lets through: a tab on its way off-site is then adopted, and refused by the
  guard as if the page had navigated, what `base_env.py:394-398` sets out to avoid.
- The recorder compares whole URLs, the renderer relative paths (`trace.py:313`, `window.py:365`):
  of a click to an anchor the record says `changed.url`, and the window that nothing changed
  observably. `RenderingIsHonest` names this as the one change a window denies.
- The rules of `validate.py` look for markers in text that quotes the application
  (`validate.py:71-93`), so a refused click on a control labelled with one stops the script.
- A reply whose numbers overflow `int()` or `float()` (an infinite `step`) raises out of
  `Verdict.parse` (`verdict.py:176-187`), through `score` and the environment's `step`, although
  a reply that cannot be used is meant to be a failed call (`verdict.py:121-126`); a confidence
  of NaN becomes 1.0.
- `restore(url)` is satisfied with any page of the application behind the off-site one, not with
  `url` (`browser_session.py:221` and `:232`); two navigations in one action are enough.
- `history_move` undoes an escaping move with `goto`, the very thing `restore` avoids because it
  leaves the off-site page behind the current one (`browser_session.py:215`, `:223-225`).
- `history_move` compares hosts with the page before the move, so from a blob or an error page
  a BACK into the application is undone (`browser_session.py:193`, `:210`).
- `mark_pages` exists to tell a popup of this action from one of an earlier action that is only
  now reported (`base_env.py:270-271`); it records reported tabs only, so a tab reported after
  the next `mark_pages` is credited to the next action. `PromptTabsCredited` is about a browser
  that reports in time.
- Errors of the landing page are meant to be the baseline (`base_env.py:231`); the listeners are
  attached after it has loaded (`:218-219`), so those errors are neither seen nor learnt.
- The ledger says it uses "the same identity the evaluation harness uses"
  (`functional_triggers.py:87`): it is keyed on the page's fingerprint, the harness on its URL.
- Skipped steps are recorded so that "the caller must be able to see it" (`scripted.py:42-44`),
  but retries are per step and the episode limit allows for one script's
  (`capture_traces.py:227`): the last steps of a script can be cut off without a miss.
- `build_action_specs` says the elements on screen go first (`action_registry.py:175`); they do
  within a kind of action, and the list is cut across kinds (`:297`), so an edge value for a
  field on screen is dropped before a click on a link far below.
- `TrainedPolicy` promises the pipeline of training (`rollout.py:65-69`) and encodes without
  `valid_counts` (`:84-89`), so a masked agent is evaluated unmasked.
- Screenshots are cached under a downsampled key (`models.py:178-182`): of two screenshots with
  one key the first one's vector is used for both, and which was first depends on history.
- The judge's budget is looked at only when the model is gated (`llm_judge.py:55`, `:120`).
- The largest repetition penalty equals the novelty bonus, so a new state reached by a repeated
  action earns no more than idling (`functional_triggers.py:184-185`).

## 4. Fairness

`BrowserSession` and `ScriptedCapture` assume `WF_vars(Next)`: the rollout loop
(`evaluation/rollout.py:207-263`) calls `step` until the episode ends and `reset` after it, and
every browser call has a timeout, so the program never stops in the middle. Nothing is assumed
of the page: whether an element appears, a navigation happens or a call raises is free, and the
page's own navigations are bounded per phase by the model (one each), which is an assumption that
a page does not redirect forever without letting the program run. The other specifications have
only safety properties and no fairness.

## 5. Proofs

All theorems hold for every value of the constants that the modules' assumptions allow; the
listed ones are under `theorems` in `PROJECT.json`. Hardly any of the invariants is inductive;
each module has an `IInv` (in `BrowserSession`, `Typed` and `Guarded`) that is, with one lemma per
action, and the theorems follow from it.

| Module | Proves | What the inductive invariant adds, and why |
|---|---|---|
| `RewardShapingProofs` | `TypeOK`, all four properties and `PayoutSpec`, the refinement | a finding has been paid as often as it is in the ledger (`PaidIsRecorded`), the states with novelty are the visited ones but the landing page (`NoveltyIsRecorded`), a reported hang leaves the page unsettled (`SlowLeavesUnsettled`): what was paid is history, what decides is the ledger. |
| `JudgeRewardProofs` | `TypeOK` and all four properties; `GatedBudget` assumes `Gated`; the last conjunct of `CallsAccountedFor`, about a model without a budget, is covered by the theorem alone | the steps asked about are counted by `_calls_this_episode`, and a gated model's counter stays within the budget; without them `BudgetRespected` says nothing of the next call. |
| `BrowserSessionProofs` | `TypeOK`, `HistoryStaysInApp`, `RestoredIsInside`, `TerminatedOnlyIfStranded` | where the tab is in each phase, unless the page has moved by itself in that phase. The theorems on the guard assume `EntersInside` (the landing page of an episode is inside) and `HostsApart` (no web page has the host `domain_of` finds in a blob or an error URL); the run's instance satisfies both (`InstanceIsCovered`). `ReturnsAreInsideWithoutRedirects` assumes `RedirectsInside` too, which the run's does not: there the redirected `goto` is the exception. |
| `TabAdoptionProofs` | `TypeOK` and all three properties | with prompt reports, what `mark_pages` has not seen the current step opened (`NewTabsAreOwn`); the page under test was known when the action began; only a tab that was blank when it was followed can be outside. |
| `EventCaptureProofs` | `TypeOK` and all four properties | an event is in one place (`EventsAreApart`), nothing is recorded while the first page loads, and after the first observation no older event is buffered (`OwnEpisode`). |
| `ScriptedCaptureProofs` | `TypeOK` and all four safety properties | the records of the episode are the last `_step_in_episode` ones (`RecorderCounts`), labels end where the episode starts (`ScriptsInOrder`) and the snapshot of the first step is the number after them (`FirstIsFirst`), done steps are distinct (`StepsDone`); for the report, that it and the recorder count the same steps (`ReportIsRight`). |
| `OfflineScoringProofs` | `TypeOK`, all four properties, and `GoneIsGone` where no page is cut | steps of an episode are adjacent and numbered without a gap (`Numbered`, `Counting`) and chained. What was judged and what is queued are the kept windows, each once and in order (`Queued`, from `Min` being taken off the queue); a filed report has counted every judgment (`Filed`, `Tallied`). What the renderer denies, and which rules can find fault, is a fact about one record (`RecordRenderedHonestly`); the invariant carries it to the trace. |
| `AgentLoopProofs` | `TypeOK`, `ChoiceIsOffered`, and with a hypothesis each `PairedModalities`, `ActsOnScannedElement` | the count of valid actions is the same in the environment's list, the info or reset info that is its source, and the vector (`CountsAreCurrent`, `MaskIsCurrent`); every action of a list names an element of the scanned page, with its selector (`Described`); the cache stays a cache through a batch (`IsCache`) and a vector is the encoding of the observation in hand (`Encoded`). |

**Hypotheses.** Besides those on the guard, three theorems say what keeps a property that the code alone does not guarantee,
next to a run or a remark that shows it fail without:

- `ModalitiesPaired` assumes that no two inputs share a cache key. Screenshots can (`models.py:178-182`).
- `ReachesScannedElement` assumes that no element of the document, scanned or not, that comes before
  a scanned one has its id, or its tag and name if it has no id (`Unambiguous`); `selector_first` is
  a page where one does. `HypothesesHold` in
  `MCAgentLoop` has TLC evaluate both on the instances.
- `WholePagesGoneIsGone` assumes that every page's text and links fit the view (`Whole`);
  `window_gone` is a page that does not. `FormPagesAreWhole` in `MCOfflineScoring` has TLC evaluate
  it on the pages of the `judging` run.

**Loops.** `Score`, `Filter` and `CacheAfter` are loops over a list, written as recursive functions
of the number of turns done. The provers cannot instantiate the library's induction theorems, so
each proof module derives what it needs without them: a set of numbers that holds 0 and with
every number the next one holds all up to a bound (`InductionUpto`), from which the function the
recursion describes exists (`LoopExists`) and every invariant of the loop's body holds at its end
(`ScoreTallied`, `FilterTyped`, `BatchKeepsCache`). `FlattenSeq` is treated the same way.

**Termination.** `EpisodeEnds` and `CaptureEnds` are liveness properties under fairness, which is
out of the prover's reach. Two theorems prove the part that is about the code: a variant that every
step uses up. `EpisodesAreBounded`: in `BrowserSession` every move of an episode lowers `MovesLeft`, a
number of at most `6 * MaxSteps` (two moves in each phase of a step, the environment's and the
page's) that is 0 exactly when the episode has ended. `CaptureIsBounded`: in `ScriptedCapture` every
step leaves fewer scripts, phases or turns, in that order, an episode stays within its limit (one
step, if the limit is zero), and a capture that is done has reported every script. What is left to
TLC is that the program, if it can move, does.

Only model-checked: `EpisodeEnds` and `CaptureEnds`, as said. Not proved because they do not hold: the
claims of the four violation runs, except under the hypotheses above.

## 6. Not modelled

- Intake (`intake/`): validation of compose files and selection of text for the prompt. Pure
  functions on text without state, outside the agent's loop.
- Set-up and utility scripts (`install.py`, the seeding and comparison scripts): command lines,
  downloads and containers.
- The DOM quiescence probe and the browser's own scheduling: `settled` is an input. Serialising,
  screenshots and hashes: equal content has equal digests.
- The recorder's pairing of requests with responses and its limit of pending requests;
  identities of page objects (`id(p)` reuse); tabs that close themselves, which the code does not
  handle.
- Prompts and the HTTP and SDK clients, which are an environment that answers anything; how a
  verdict's evidence is matched against a window (`grounded` is an input); the rules of
  `validate.py` on lengths and control characters.
- Neural networks, the replay buffer and learning; `TrainedPolicy` and `RandomPolicy` as policies
  of a rollout, where there is no mask to check.

The status of each part is in `components` of `PROJECT.json`.

## 7. Plan

Done: session, tabs, events, reward, judge, capture with the rollout's report, windows and
scoring off line, registry, cache and vector wrapper; a theorem for every safety property of the
passing runs, and variants for the two liveness properties.

Left, most important first:

1. An `Environment` module composing session, tabs and events, whose observations implement an
   abstract "an observation holds what the application did since the last one"; the product of
   the three needs an abstraction of the session history to stay within TLC's reach.
2. The ledger composed with the harness: `RewardShaping` and the report of `ScriptedCapture` over
   the same steps, to bound by how much pay and count can differ.
3. The live judge's window as an implementation of the off-line one: `JudgeReward`'s `records` are
   what `WindowOf` cuts from the trace the recorder writes of the same steps.
4. Evaluation of a trained policy with the mask of training, once the code has one.
