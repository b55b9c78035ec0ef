---------------------------- MODULE JudgeReward ----------------------------
(***************************************************************************)
(* JudgeRewardModel: the LLM judge as a reward. It keeps a rolling window  *)
(* of the episode's steps, asks the gate whether a step is worth a call,   *)
(* spends a budget of calls, and turns a verdict into a reward signal.     *)
(*                                                                         *)
(* Scores are percentages. The judge answers anything: an outage, an empty *)
(* or unreadable reply, or an object whose numbers may be out of range, no *)
(* numbers at all, or ones that Python cannot convert, which ends the run. *)
(***************************************************************************)
EXTENDS Integers, Sequences, FiniteSets, JudgeGate

CONSTANTS
  WindowSteps,    \* window_steps
  Gated,          \* gated
  MaxCalls,       \* max_calls_per_episode; 0 is unlimited
  MinConfidence,  \* min_confidence
  StepTypes,      \* the action types the agent uses
  RawNumbers,     \* what a reply may hold for a number: [kind, value]
  MaxSteps,       \* bound: steps of an episode (max_steps)
  MaxEpisodes     \* bound: episodes of the run

ASSUME JudgeAssumption ==
  /\ WindowSteps \in Nat \ {0}
  /\ Gated \in BOOLEAN
  /\ MaxCalls \in Nat
  /\ MinConfidence \in Nat
  /\ StepTypes \subseteq ActionTypes
  /\ RawNumbers \subseteq [kind : {"number", "nan", "other"}, value : Int]
  /\ MaxSteps \in Nat
  /\ MaxEpisodes \in Nat

VARIABLES
  episode,           \* _episode
  step,              \* _step
  callsThisEpisode,  \* _calls_this_episode
  records,           \* _records: the rolling window
  calls,             \* calls
  failedCalls,       \* failed_calls
  verdicts,          \* verdicts
  tally,             \* gate_stats: steps the gate let through, steps it skipped
  signal,            \* the RewardSignal last returned
  last,              \* history: the step last scored
  asked,             \* history: steps of the episode the judge was asked about
  raised             \* did a reply raise out of score(), and end the run?

vars == <<episode, step, callsThisEpisode, records, calls, failedCalls,
          verdicts, tally, signal, last, asked, raised>>

-----------------------------------------------------------------------------
(* The gate.                                                               *)

\* A step as the environment hands it over. The harness marks an action that
\* it refused as not successful.
EnvSteps ==
  {s \in [action : StepTypes, success : BOOLEAN, blocked : BOOLEAN,
          changed : BOOLEAN, triggered : BOOLEAN, settled : BOOLEAN] :
     s.blocked => ~s.success}

\* _build_record: the live record has no bug_signals, so no trigger is seen.
LiveRecord(s) == [s EXCEPT !.triggered = FALSE]

-----------------------------------------------------------------------------
(* The judge and its verdict.                                              *)

Percent == 0 .. 100

\* A client that cannot reach its model, or gets no text from it.
NoText == [fate : {"outage", "empty"}]

Replies ==
  NoText
    \cup [fate : {"unparseable", "not_an_object"}]
    \cup [fate : {"object"}, bug : BOOLEAN, confidence : RawNumbers,
          severity : RawNumbers]

\* Fault: not clamped from above.
ClampBelow(raw) ==
  CASE raw.kind = "other" -> 0
    [] raw.kind = "nan" -> 100
    [] raw.kind = "number" -> IF raw.value < 0 THEN 0 ELSE raw.value

\* What is no number is 0. NaN is 1: min(1.0, nan) is its first argument.
Clamp(raw) ==
  CASE raw.kind = "other" -> 0
    [] raw.kind = "nan" -> 100
    [] raw.kind = "number" ->
         IF raw.value < 0 THEN 0 ELSE IF raw.value > 100 THEN 100 ELSE raw.value

Failed == [ok |-> FALSE, bug |-> FALSE, confidence |-> 0, severity |-> 0]

Verdicts == [ok : BOOLEAN, bug : BOOLEAN, confidence : Percent, severity : Percent]

\* judge() of a client, and Verdict.parse: a failed call is never a verdict. What
\* parse raises itself is JudgeRaises.
VerdictOf(reply) ==
  IF reply.fate = "object"
  THEN [ok |-> TRUE, bug |-> reply.bug, confidence |-> Clamp(reply.confidence),
        severity |-> Clamp(reply.severity)]
  ELSE Failed

\* Fault: a verdict counts whatever its confidence.
CountedAlways(v) == v.bug

Counted(v) == v.bug /\ v.confidence >= MinConfidence

Expected == [expected |-> TRUE, severity |-> 0]

SignalOf(v) ==
  [expected |-> ~Counted(v), severity |-> IF Counted(v) THEN v.severity ELSE 0]

-----------------------------------------------------------------------------
(* Actions.                                                                *)

Init ==
  /\ episode = 0
  /\ step = 0
  /\ callsThisEpisode = 0
  /\ records = <<>>
  /\ calls = 0
  /\ failedCalls = 0
  /\ verdicts = <<>>
  /\ tally = [judged |-> 0, skipped |-> 0]
  /\ signal = Expected
  /\ last = [triggered |-> FALSE, judged |-> FALSE]
  /\ asked = {}
  /\ raised = FALSE

\* Fault: the window survives the reset.
StartEpisodeKeepsWindow ==
  /\ ~raised
  /\ episode < MaxEpisodes
  /\ episode' = episode + 1
  /\ step' = 0
  /\ callsThisEpisode' = 0
  /\ signal' = Expected
  /\ last' = [triggered |-> FALSE, judged |-> FALSE]
  /\ asked' = {}
  /\ UNCHANGED <<records, calls, failedCalls, verdicts, tally, raised>>

\* start_episode, from the environment's reset.
StartEpisode ==
  /\ ~raised
  /\ episode < MaxEpisodes
  /\ episode' = episode + 1
  /\ step' = 0
  /\ callsThisEpisode' = 0
  /\ records' = <<>>
  /\ signal' = Expected
  /\ last' = [triggered |-> FALSE, judged |-> FALSE]
  /\ asked' = {}
  /\ UNCHANGED <<calls, failedCalls, verdicts, tally, raised>>

\* deque(maxlen=window_steps).append
Remember(record) ==
  Append(IF Len(records) < WindowSteps THEN records ELSE Tail(records), record)

\* The head of score(): every step enters the window, judged or not.
Observe(s) ==
  /\ ~raised
  /\ episode > 0
  /\ step < MaxSteps
  /\ step' = step + 1
  /\ records' = Remember([episode |-> episode, step |-> step + 1])

\* gate_stats.record: only a gated model keeps the tally.
Tally(letThrough) ==
  tally' = IF ~Gated THEN tally
           ELSE IF letThrough THEN [tally EXCEPT !.judged = @ + 1]
           ELSE [tally EXCEPT !.skipped = @ + 1]

\* Fault: checked after the call it was to prevent.
BudgetSpentLate == MaxCalls > 0 /\ callsThisEpisode > MaxCalls

BudgetSpent == MaxCalls > 0 /\ callsThisEpisode >= MaxCalls

\* score() returns without a call: the gate said no, or the budget is spent.
\* Only a gated model looks at either.
Decline(s) ==
  /\ Observe(s)
  /\ Gated
  /\ ~ShouldJudge(LiveRecord(s)) \/ BudgetSpent
  /\ Tally(ShouldJudge(LiveRecord(s)))
  /\ signal' = Expected
  /\ last' = [triggered |-> s.triggered, judged |-> FALSE]
  /\ UNCHANGED <<episode, callsThisEpisode, calls, failedCalls, verdicts, asked, raised>>

\* Fault: a failed call is kept as a negative verdict.
NoteVerdictAlways(v) ==
  /\ failedCalls' = IF v.ok THEN failedCalls ELSE failedCalls + 1
  /\ verdicts' = Append(verdicts, [episode |-> episode, step |-> step + 1, verdict |-> v])

\* A failed call is counted and never becomes a verdict.
NoteVerdict(v) ==
  /\ failedCalls' = IF v.ok THEN failedCalls ELSE failedCalls + 1
  /\ verdicts' =
       IF v.ok
       THEN Append(verdicts, [episode |-> episode, step |-> step + 1, verdict |-> v])
       ELSE verdicts

\* score() asks the judge: an ungated model always does.
Asks(s) ==
  /\ Observe(s)
  /\ Gated => ShouldJudge(LiveRecord(s)) /\ ~BudgetSpent
  /\ Tally(TRUE)
  /\ last' = [triggered |-> s.triggered, judged |-> TRUE]
  /\ asked' = asked \cup {step + 1}
  /\ UNCHANGED episode

\* score() with a call; the reply may be a failure of any kind.
AskJudge(s, reply) ==
  /\ Asks(s)
  /\ calls' = calls + 1
  /\ callsThisEpisode' = callsThisEpisode + 1
  /\ NoteVerdict(VerdictOf(reply))
  /\ signal' = IF VerdictOf(reply).ok THEN SignalOf(VerdictOf(reply)) ELSE Expected
  /\ UNCHANGED raised

\* The reply has a number int() or float() overflows on (an infinite step, an
\* integer beyond the floats): parse raises through the client, score() and the
\* environment's step before the call is counted, and nothing catches it.
JudgeRaises(s) ==
  /\ Asks(s)
  /\ raised' = TRUE
  /\ signal' = Expected
  /\ UNCHANGED <<callsThisEpisode, calls, failedCalls, verdicts>>

Next ==
  \/ StartEpisode
  \/ \E s \in EnvSteps : Decline(s) \/ JudgeRaises(s)
  \/ \E s \in EnvSteps, reply \in Replies : AskJudge(s, reply)

Spec == Init /\ [][Next]_vars

-----------------------------------------------------------------------------
(* Properties.                                                             *)

\* Every variable keeps its type.
TypeOK ==
  /\ episode \in 0 .. MaxEpisodes
  /\ step \in 0 .. MaxSteps
  /\ callsThisEpisode \in Nat
  /\ records \in Seq([episode : Nat, step : Nat])
  /\ calls \in Nat
  /\ failedCalls \in Nat
  /\ verdicts \in Seq([episode : Nat, step : Nat, verdict : Verdicts])
  /\ tally \in [judged : Nat, skipped : Nat]
  /\ signal \in [expected : BOOLEAN, severity : Percent]
  /\ last \in [triggered : BOOLEAN, judged : BOOLEAN]
  /\ asked \subseteq 1 .. step
  /\ raised \in BOOLEAN

\* The window is the last steps of this episode, in order, ending with the
\* step under judgment: what build_windows would cut from the recorded trace.
\* No step of another episode and no gap ever reaches the judge.
WindowIsRecent ==
  /\ Len(records) = IF step < WindowSteps THEN step ELSE WindowSteps
  /\ \A i \in DOMAIN records :
       records[i] = [episode |-> episode, step |-> step - Len(records) + i]

\* The judge is asked about at most MaxCalls steps of an episode
\* (max_calls_per_episode, "a hard budget rather than advice").
BudgetRespected == MaxCalls > 0 => Cardinality(asked) <= MaxCalls

\* Only a verdict of the step just scored pays, only when it reports a bug
\* confidently enough; an outage or an unreadable reply never does.
OnlyConfidentBugsPay ==
  ~signal.expected \/ signal.severity > 0 =>
    /\ verdicts # <<>>
    /\ LET newest == verdicts[Len(verdicts)]
       IN  /\ newest.episode = episode /\ newest.step = step
           /\ newest.verdict.bug
           /\ newest.verdict.confidence >= MinConfidence

\* The call whose reply raised is in no counter.
Uncounted == IF raised THEN 1 ELSE 0

\* Every call that is counted ends as a verdict or as a failure, never as both,
\* and without a budget the calls are exactly the steps the gate let through, but
\* for the one that raised out of score().
CallsAccountedFor ==
  /\ calls = failedCalls + Len(verdicts)
  /\ Gated => calls + Uncounted <= tally.judged
  /\ Gated /\ MaxCalls = 0 => calls + Uncounted = tally.judged

\* A step on which a deterministic trigger fired is judged ("never gate away a
\* deterministic trigger").
TriggerIsJudged == last.triggered => last.judged
=============================================================================
