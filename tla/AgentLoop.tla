----------------------------- MODULE AgentLoop -----------------------------
(***************************************************************************)
(* A masked agent over N environments behind SemanticPerceptionWrapper.    *)
(* DummyVecEnv (external) steps the environments one after the other and   *)
(* resets one whose episode ended, so that the observation it returns is   *)
(* already of the next episode while the info is of the last. The wrapper  *)
(* pairs them again, encodes the batch through the encoder's cache, then   *)
(* each terminal observation; the agent chooses among the valid actions.   *)
(* What an observation shows is its screenshot and the identity            *)
(* <<episode, step>>, which stands for its page text and context.          *)
(***************************************************************************)
EXTENDS ActionRegistry, EncoderCache

CONSTANTS
  N,               \* environments
  Pages,           \* pages of the application
  ElementsOf,      \* the elements of a page's document, in order; a scan that fails
                   \* returns none, as one of an empty page does
  LearningStarts,  \* learning_starts, in calls of VecEnv.step
  MaxSteps,        \* max_steps of an episode
  MaxCalls         \* bound: calls of VecEnv.step, i.e. the training's length

ASSUME LoopAssumption ==
  /\ N \in Nat \ {0} /\ MaxSteps \in Nat \ {0} /\ MaxCalls \in Nat
  /\ LearningStarts \in Nat
  /\ MaxActions \in Nat /\ MaxActions >= Len(FixedActionSpecs)
  /\ Inputs = Pages
  /\ \A p \in Pages : ElementsOf[p] \in Seq(ToSet(ElementsOf[p]))

VARIABLES
  phase,      \* "choose", "step", "deliver", "terminals"
  at,         \* the environment whose turn it is, 1 .. N
  calls,      \* num_timesteps / N
  page,       \* the page each browser shows
  scanned,    \* the page _action_specs was scanned from
  specs,      \* _action_specs
  clock,      \* <<episode, step>> of each environment
  choice,     \* the actions chosen and not yet taken; 0 when taken
  result,     \* what VecEnv.step returns: obs, info, done, terminal
  resetInfo,  \* VecEnv.reset_infos
  vector,     \* the encoded observation the agent sees
  terminal,   \* the encoded terminal observation of a done step
  cache       \* the visual encoder's cache

vars == <<phase, at, calls, page, scanned, specs, clock, choice, result,
          resetInfo, vector, terminal, cache>>

Envs == 1 .. N

-----------------------------------------------------------------------------
(* The environment.                                                        *)

Observe(p, time) == [screen |-> p, time |-> time]

\* _build_action_specs of a page.
SpecsOf == [p \in Pages |-> BuildActionSpecs(ElementsOf[p])]

\* An info dict: page and episode_context of an observation, and the count of
\* the actions that were scanned after it.
InfoOf(time, offered) == [page |-> time, context |-> time, count |-> Len(offered)]

NoVector == [visual |-> "none", text |-> <<0, 0>>, context |-> <<0, 0>>, count |-> 0]

VectorOf(visual, info) ==
  [visual |-> visual, text |-> info.page, context |-> info.context, count |-> info.count]

\* reset() and step() capture the page, and scan its elements afterwards: the
\* page may have changed from p to q in between.
Captured(i, p, q, time) ==
  LET offered == SpecsOf[q]
  IN /\ page' = [page EXCEPT ![i] = q]
     /\ scanned' = [scanned EXCEPT ![i] = q]
     /\ specs' = [specs EXCEPT ![i] = offered]
     /\ clock' = [clock EXCEPT ![i] = time]

-----------------------------------------------------------------------------
(* The wrapper.                                                            *)

\* SemanticPerceptionWrapper.reset
Init ==
  /\ phase = "choose" /\ at = 1 /\ calls = 0
  /\ clock = [i \in Envs |-> <<1, 0>>]
  /\ page \in [Envs -> Pages] /\ scanned = page
  /\ specs = [i \in Envs |-> SpecsOf[scanned[i]]]
  /\ choice = [i \in Envs |-> 0]
  /\ resetInfo = [i \in Envs |-> InfoOf(clock[i], specs[i])]
  /\ \E captured \in [Envs -> Pages] :
       /\ result = [i \in Envs |-> [obs |-> Observe(captured[i], clock[i]),
                                    info |-> resetInfo[i], done |-> FALSE,
                                    terminal |-> Observe(captured[i], clock[i])]]
       /\ vector = [i \in Envs |-> VectorOf(EncodeBatch(EmptyCache, captured)[i],
                                            resetInfo[i])]
       /\ cache = CacheAfter(EmptyCache, captured)
  /\ terminal = [i \in Envs |-> NoVector]

\* Fault: warm-up steps sample the whole action space.
SampleAny(mask) == 0 .. MaxActions - 1

\* _sample_valid
SampleValid(mask) == IF mask = {} THEN {0} ELSE mask

\* MaskedQNetwork.forward: any action may have the greatest value, but only a
\* valid one, unless none is.
Greedy(mask) == IF mask = {} THEN 0 .. MaxActions - 1 ELSE mask

\* _sample_action, predict
Choose ==
  /\ phase = "choose" /\ calls < MaxCalls
  /\ \E explore \in BOOLEAN :
       /\ calls < LearningStarts => explore
       /\ choice' \in [Envs -> 0 .. MaxActions - 1]
       /\ \A i \in Envs :
            LET mask == ActionMask(vector[i].count)
            IN choice'[i] \in IF explore THEN SampleValid(mask) ELSE Greedy(mask)
  /\ phase' = "step" /\ at' = 1 /\ calls' = calls + 1
  /\ UNCHANGED <<page, scanned, specs, clock, result, resetInfo, vector, terminal, cache>>

\* The page of an environment changes by itself before its turn.
PageMoves ==
  /\ phase = "step"
  /\ \E i \in at .. N, p \in Pages : p # page[i] /\ page' = [page EXCEPT ![i] = p]
  /\ UNCHANGED <<phase, at, calls, scanned, specs, clock, choice, result, resetInfo,
                 vector, terminal, cache>>

\* env.step, and env.reset when the episode ended: the observation of the
\* ended episode is kept as info["terminal_observation"].
EnvStep ==
  /\ phase = "step"
  /\ \E p, q \in Pages, stranded \in BOOLEAN :
       LET i    == at
           time == <<clock[i][1], clock[i][2] + 1>>
           info == InfoOf(time, SpecsOf[q])
           done == stranded \/ time[2] = MaxSteps
       IN IF done
          THEN \E first, scan \in Pages :
                 LET next == <<time[1] + 1, 0>>
                 IN /\ Captured(i, first, scan, next)
                    /\ result' = [result EXCEPT ![i] =
                         [obs |-> Observe(first, next), info |-> info, done |-> TRUE,
                          terminal |-> Observe(p, time)]]
                    /\ resetInfo' = [resetInfo EXCEPT ![i] =
                         InfoOf(next, SpecsOf[scan])]
          ELSE /\ Captured(i, p, q, time)
               /\ result' = [result EXCEPT ![i] =
                    [obs |-> Observe(p, time), info |-> info, done |-> FALSE,
                     terminal |-> Observe(p, time)]]
               /\ UNCHANGED resetInfo
  /\ IF at = N THEN phase' = "deliver" /\ at' = 1 ELSE phase' = phase /\ at' = at + 1
  /\ choice' = [choice EXCEPT ![at] = 0]
  /\ UNCHANGED <<calls, vector, terminal, cache>>

\* Fault: the info of a done step describes the observation it came with.
SourceIsInfo(r, ri) == r.info

Source(r, ri) == IF r.done THEN ri ELSE r.info

\* step_wait: the batch of observations.
StepWait ==
  /\ phase = "deliver"
  /\ LET screens == [i \in Envs |-> result[i].obs.screen]
     IN /\ vector' = [i \in Envs |-> VectorOf(EncodeBatch(cache, screens)[i],
                                              Source(result[i], resetInfo[i]))]
        /\ cache' = CacheAfter(cache, screens)
  /\ terminal' = [i \in Envs |-> NoVector]
  /\ phase' = "terminals" /\ at' = 1
  /\ UNCHANGED <<calls, page, scanned, specs, clock, choice, result, resetInfo>>

\* step_wait: terminal observations, one by one, with their own info.
EncodeTerminal ==
  /\ phase = "terminals"
  /\ LET r      == result[at]
         screen == <<r.terminal.screen>>
     IN IF r.done
        THEN /\ terminal' = [terminal EXCEPT ![at] =
                               VectorOf(EncodeBatch(cache, screen)[1], r.info)]
             /\ cache' = CacheAfter(cache, screen)
        ELSE UNCHANGED <<terminal, cache>>
  /\ IF at = N THEN phase' = "choose" /\ at' = 1 ELSE phase' = phase /\ at' = at + 1
  /\ UNCHANGED <<calls, page, scanned, specs, clock, choice, result, resetInfo, vector>>

Next == Choose \/ PageMoves \/ EnvStep \/ StepWait \/ EncodeTerminal

Spec == Init /\ [][Next]_vars

-----------------------------------------------------------------------------
(* Properties.                                                             *)

Times == (1 .. MaxCalls + 1) \X (0 .. MaxSteps)
Counts == 0 .. MaxActions
Vectors == [visual : Pages, text : Times, context : Times, count : Counts]

\* Every variable keeps its type; no environment offers more than MAX_ACTIONS
\* actions, and the encoder's cache maps keys to their own inputs, within its
\* size.
TypeOK ==
  /\ phase \in {"choose", "step", "deliver", "terminals"}
  /\ at \in Envs /\ calls \in 0 .. MaxCalls
  /\ page \in [Envs -> Pages] /\ scanned \in [Envs -> Pages]
  /\ \A i \in Envs : Len(specs[i]) \in Counts
  /\ clock \in [Envs -> Times]
  /\ choice \in [Envs -> 0 .. MaxActions - 1]
  /\ vector \in [Envs -> Vectors]
  /\ terminal \in [Envs -> Vectors \cup {NoVector}]
  /\ IsCache(cache)

\* The action an environment executes is one it offers at that time
\* (_sample_action and predict, masked by the count in the observation):
\* the mask, which travels through info, reset_infos and the vector, is never
\* that of another observation or episode.
ChoiceIsOffered ==
  phase = "step" => \A i \in at .. N : choice[i] < Len(specs[i])

\* Every part of a vector is of one observation (step_wait, encode_modalities):
\* screenshot, text, context and mask of the observation returned, and on a
\* done step the terminal one's of the terminal observation, although both go
\* through one cache and the info is of the ended episode.
PairedModalities ==
  phase = "choose" =>
    \A i \in Envs :
      /\ vector[i] = [visual |-> result[i].obs.screen, text |-> result[i].obs.time,
                      context |-> clock[i], count |-> Len(specs[i])]
      /\ result[i].done =>
           /\ terminal[i].visual = result[i].terminal.screen
           /\ terminal[i].text = result[i].terminal.time
           /\ terminal[i].count = result[i].info.count

\* As long as the page has not changed since it was scanned, an action reaches
\* exactly the element it was built for (_selector_for: "Build a Playwright
\* selector that resolves to exactly the element that was scanned").
ActsOnScannedElement ==
  phase = "step" =>
    \A i \in at .. N :
      LET spec == ResolveAction(specs[i], choice[i])
      IN /\ spec.element # NoElement
         /\ page[i] = scanned[i]
         => FirstMatch(ElementsOf[page[i]], spec.selector) = spec.element
=============================================================================
