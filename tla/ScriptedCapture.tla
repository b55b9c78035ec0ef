-------------------------- MODULE ScriptedCapture --------------------------
(***************************************************************************)
(* capture_scripted: one rollout episode per script, the ScriptedPolicy    *)
(* choosing the actions and the TraceRecorder writing every transition to  *)
(* one trace, with the ground truth of each episode and the fidelity of    *)
(* each script beside it. The rollout keeps a report of its own, which     *)
(* counts the triggers that fired and deduplicates them into findings.     *)
(*                                                                         *)
(* The page decides which scripted steps match; a script is its length.    *)
(***************************************************************************)
EXTENDS Integers, Sequences, FiniteSets

CONSTANTS
  Scripts,     \* the length of each script, in order (max() of none raises)
  MaxRetries,  \* max_retries of the policy
  Pages,       \* what an observation of the page can be: its URL
  Triggers,    \* the deterministic triggers that can fire
  Stranding    \* BOOLEAN, or {FALSE}: whether an episode may be terminated

ASSUME CaptureAssumption ==
  /\ Scripts \in Seq(Nat) /\ Scripts # <<>>
  /\ MaxRetries \in Nat
  /\ Pages # {}
  /\ Stranding \subseteq BOOLEAN

VARIABLES
  phase,      \* where capture_scripted is: "reset", "rollout", "report", "done"
  script,     \* the script being captured
  cursor,     \* ScriptedPolicy._cursor
  retries,    \* ScriptedPolicy._retries
  misses,     \* ScriptedPolicy.misses: the steps given up on
  first,      \* first_step: the global step the episode is to start with
  envSteps,   \* the environment's _steps_taken
  recorder,   \* TraceRecorder: _episode, _step_in_episode, global_step, _prev_page
  trace,      \* trace.jsonl
  page,       \* history: the page the environment last observed
  report,     \* RolloutReport: steps, trigger_counts, findings
  labels,     \* episode_labels: the global steps of each script
  fidelity    \* script_fidelity: matched and missed steps of each script

vars == <<phase, script, cursor, retries, misses, first, envSteps, recorder,
          trace, page, report, labels, fidelity>>

-----------------------------------------------------------------------------
(* The policy.                                                             *)

Length == Scripts[script]
Finished == cursor >= Length

\* Nothing scripted is executed: the policy idles on slot 0.
Idle == 0

\* Fault: a step that never matched is dropped without a word.
SkipOrRetryQuietly ==
  /\ retries' = IF retries + 1 > MaxRetries THEN 0 ELSE retries + 1
  /\ cursor' = IF retries + 1 > MaxRetries THEN cursor + 1 ELSE cursor
  /\ UNCHANGED misses

\* Fault: one retry too many.
SkipOrRetryLate ==
  IF retries > MaxRetries
  THEN /\ misses' = misses \cup {cursor + 1}
       /\ cursor' = cursor + 1
       /\ retries' = 0
  ELSE /\ retries' = retries + 1
       /\ UNCHANGED <<cursor, misses>>

\* act() on a page without the wanted element: retry, or skip the step.
SkipOrRetry ==
  IF retries + 1 > MaxRetries
  THEN /\ misses' = misses \cup {cursor + 1}
       /\ cursor' = cursor + 1
       /\ retries' = 0
  ELSE /\ retries' = retries + 1
       /\ UNCHANGED <<cursor, misses>>

\* act(): the step of the script that is executed, if any.
Act(matches, executed) ==
  \/ /\ Finished
     /\ executed = Idle
     /\ UNCHANGED <<cursor, retries, misses>>
  \/ /\ ~Finished /\ ~matches
     /\ executed = Idle
     /\ SkipOrRetry
  \/ /\ ~Finished /\ matches
     /\ executed = cursor + 1
     /\ cursor' = cursor + 1
     /\ retries' = 0
     /\ UNCHANGED misses

CompletedSteps == (IF Finished THEN Length ELSE cursor) - Cardinality(misses)

-----------------------------------------------------------------------------
(* The recorder.                                                           *)

\* Fault: the page before the reset is kept.
OnResetKeepsPage(landing) ==
  recorder' = [recorder EXCEPT !.episode = @ + 1, !.step = 0]

\* Fault: the global steps are counted anew in every episode.
OnResetRestartsCount(landing) ==
  recorder' = [recorder EXCEPT !.episode = @ + 1, !.step = 0, !.globalStep = 0,
                               !.prevPage = landing]

\* on_reset
OnReset(landing) ==
  recorder' = [recorder EXCEPT !.episode = @ + 1, !.step = 0, !.prevPage = landing]

\* on_step
OnStep(executed, after, fired) ==
  /\ recorder' = [recorder EXCEPT !.step = @ + 1, !.globalStep = @ + 1,
                                  !.prevPage = after]
  /\ trace' = Append(trace, [episode |-> recorder.episode,
                             step |-> recorder.step + 1,
                             globalStep |-> recorder.globalStep + 1,
                             executed |-> executed,
                             before |-> recorder.prevPage,
                             after |-> after,
                             fired |-> fired])

-----------------------------------------------------------------------------
(* The rollout's report. A finding is a trigger, the URL shown after the   *)
(* action and the element acted on, with the step that showed it first and *)
(* how often it was seen.                                                  *)

EmptyReport == [steps |-> 0, counts |-> [t \in Triggers |-> 0], findings |-> {}]

KeysOf(executed, after, fired) ==
  {[trigger |-> t, url |-> after, element |-> executed] : t \in fired}

\* Fault: a finding seen again replaces the one recorded.
RecordFindingsAnew(step, keys, findings) ==
  {f \in findings : f.key \notin keys}
    \cup {[key |-> k, first |-> step, times |-> 1] : k \in keys}

\* _record_findings
RecordFindings(step, keys, findings) ==
  LET seen == {f.key : f \in findings}
  IN {[f EXCEPT !.times = IF f.key \in keys THEN @ + 1 ELSE @] : f \in findings}
       \cup {[key |-> k, first |-> step, times |-> 1] : k \in keys \ seen}

\* run_rollout: what a step adds to the report.
Count(executed, after, fired) ==
  report' = [steps    |-> report.steps + 1,
             counts   |-> [t \in Triggers |->
                             report.counts[t] + IF t \in fired THEN 1 ELSE 0],
             findings |-> RecordFindings(report.steps + 1, KeysOf(executed, after, fired),
                                         report.findings)]

-----------------------------------------------------------------------------
(* capture_scripted and run_rollout.                                       *)

\* env.max_steps = len(policy.steps) + policy.max_retries
EpisodeLimit == Length + MaxRetries

Init ==
  /\ phase = "reset"
  /\ script = 1
  /\ cursor = 0
  /\ retries = 0
  /\ misses = {}
  /\ first = 1
  /\ envSteps = 0
  /\ page \in Pages
  /\ recorder = [episode |-> 0, step |-> 0, globalStep |-> 0, prevPage |-> page]
  /\ trace = <<>>
  /\ report = EmptyReport
  /\ labels = <<>>
  /\ fidelity = <<>>

\* A new policy; first_step is read off the recorder before the rollout's env.reset,
\* policy.reset and recorder.on_reset.
BeginEpisode ==
  /\ phase = "reset"
  /\ phase' = "rollout"
  /\ cursor' = 0
  /\ retries' = 0
  /\ misses' = {}
  /\ first' = recorder.globalStep + 1
  /\ envSteps' = 0
  /\ report' = EmptyReport
  /\ \E landing \in Pages : page' = landing /\ OnReset(landing)
  /\ UNCHANGED <<script, trace, labels, fidelity>>

\* One turn of the rollout loop: act, step, record, stop when done.
Turn ==
  /\ phase = "rollout"
  /\ \E matches \in BOOLEAN, executed \in 0 .. Length :
       \E after \in Pages, fired \in SUBSET Triggers, stranded \in Stranding :
         /\ Act(matches, executed)
         /\ page' = after
         /\ OnStep(executed, after, fired)
         /\ Count(executed, after, fired)
         /\ envSteps' = envSteps + 1
         /\ phase' = IF stranded \/ envSteps' >= EpisodeLimit
                     THEN "report" ELSE "rollout"
  /\ UNCHANGED <<script, first, labels, fidelity>>

\* Fault: the fidelity of a script with misses is left out.
ReportCompleteOnly ==
  /\ phase = "report"
  /\ labels' = Append(labels, [first |-> first, last |-> recorder.globalStep])
  /\ fidelity' = IF misses # {} THEN fidelity
                 ELSE Append(fidelity, [steps |-> Length, matched |-> CompletedSteps,
                                        missed |-> misses])
  /\ script' = script + 1
  /\ phase' = IF script = Len(Scripts) THEN "done" ELSE "reset"
  /\ UNCHANGED <<cursor, retries, misses, first, envSteps, recorder, trace, page,
                 report>>

\* The episode's label and the script's fidelity, then the next script.
Report ==
  /\ phase = "report"
  /\ labels' = Append(labels, [first |-> first, last |-> recorder.globalStep])
  /\ fidelity' = Append(fidelity, [steps |-> Length, matched |-> CompletedSteps,
                                   missed |-> misses])
  /\ script' = script + 1
  /\ phase' = IF script = Len(Scripts) THEN "done" ELSE "reset"
  /\ UNCHANGED <<cursor, retries, misses, first, envSteps, recorder, trace, page,
                 report>>

Next == BeginEpisode \/ Turn \/ Report

Spec == Init /\ [][Next]_vars /\ WF_vars(Next)

-----------------------------------------------------------------------------
(* Properties.                                                             *)

\* Every variable stays in its type: no more retries than the policy allows, and
\* misses only behind the cursor.
TypeOK ==
  /\ phase \in {"reset", "rollout", "report", "done"}
  /\ script \in 1 .. Len(Scripts) + 1
  /\ cursor \in Nat
  /\ retries \in 0 .. MaxRetries
  /\ misses \subseteq 1 .. cursor
  /\ first \in Nat
  /\ envSteps \in Nat
  /\ recorder \in [episode : Nat, step : Nat, globalStep : Nat, prevPage : Pages]
  /\ trace \in Seq([episode : Nat, step : Nat, globalStep : Nat, executed : Nat,
                    before : Pages, after : Pages, fired : SUBSET Triggers])
  /\ page \in Pages
  /\ report.steps \in Nat /\ report.counts \in [Triggers -> Nat]
  /\ labels \in Seq([first : Nat, last : Nat])
  /\ fidelity \in Seq([steps : Nat, matched : Int, missed : SUBSET Nat])

\* The records of the episode being captured.
OfEpisode == {i \in DOMAIN trace : trace[i].episode = recorder.episode}

\* Every step of the script behind the cursor was executed exactly once or is
\* among the misses, and never both; so "matched" counts executed steps.
EveryStepAccountedFor ==
  LET executed == {trace[i].executed : i \in OfEpisode} \ {Idle}
      doneBy(s) == {i \in OfEpisode : trace[i].executed = s}
  IN  phase \in {"rollout", "report"} =>
        /\ executed \cap misses = {}
        /\ executed \cup misses = 1 .. cursor
        /\ \A s \in executed : Cardinality(doneBy(s)) = 1
        /\ CompletedSteps = Cardinality(executed)

\* Within an episode every record starts on the page its predecessor ended on,
\* and the last one ends on the page the environment shows.
TraceIsChained ==
  /\ \A i \in 2 .. Len(trace) :
       trace[i].episode = trace[i - 1].episode => trace[i].before = trace[i - 1].after
  /\ phase \in {"rollout", "report"} => recorder.prevPage = page

\* The labels cut the trace into the scripts' episodes: no gap, no overlap,
\* and every record in a label's range belongs to that script's episode.
LabelsCoverTrace ==
  \A e \in DOMAIN labels :
    /\ labels[e].first = (IF e = 1 THEN 1 ELSE labels[e - 1].last + 1)
    /\ \A i \in DOMAIN trace :
         trace[i].episode = e
           <=> trace[i].globalStep \in labels[e].first .. labels[e].last

\* Every script is captured: each episode is bounded, whatever the pages do.
CaptureEnds == <>(phase = "done" /\ Len(fidelity) = Len(Scripts))

\* The report of a rollout is what its trace shows: one finding for each
\* trigger, URL and element, first seen and seen as often as the records of the
\* episode say, the last one included (run_rollout records, counts and only
\* then looks whether the episode is over).
ReportMatchesTrace ==
  LET Showing(k) == {i \in OfEpisode :
                       k \in KeysOf(trace[i].executed, trace[i].after, trace[i].fired)}
  IN  phase \in {"rollout", "report"} =>
        /\ report.steps = Cardinality(OfEpisode)
        /\ \A t \in Triggers :
             report.counts[t] = Cardinality({i \in OfEpisode : t \in trace[i].fired})
        /\ {f.key : f \in report.findings}
             = UNION {KeysOf(trace[i].executed, trace[i].after, trace[i].fired) :
                        i \in OfEpisode}
        /\ \A f \in report.findings :
             /\ f.times = Cardinality(Showing(f.key))
             /\ \E i \in Showing(f.key) :
                  /\ f.first = trace[i].step
                  /\ \A k \in Showing(f.key) : trace[i].step <= trace[k].step
=============================================================================
