------------------------- MODULE JudgeRewardProofs -------------------------
(***************************************************************************)
(* Proofs about JudgeReward for every window, budget, confidence and set   *)
(* of replies.                                                             *)
(*                                                                         *)
(* The budget is kept because the counter the code checks is the number of *)
(* steps of this episode the judge was asked about, but for the call that  *)
(* raised and ended the run (AskedIsCounted). That needs that every call   *)
(* is for a step later than all the others.                                *)
(***************************************************************************)
EXTENDS JudgeReward, FiniteSetTheorems, TLAPS

\* The budget's counter counts the steps the judge was asked about.
AskedIsCounted ==
  /\ IsFiniteSet(asked)
  /\ Cardinality(asked) = callsThisEpisode + Uncounted

\* A gated model's counter never exceeds the budget.
CounterInBudget == Gated /\ MaxCalls > 0 => callsThisEpisode + Uncounted <= MaxCalls

\* The inductive invariant.
IInv ==
  /\ TypeOK
  /\ WindowIsRecent
  /\ AskedIsCounted
  /\ CounterInBudget
  /\ OnlyConfidentBugsPay
  /\ CallsAccountedFor

-----------------------------------------------------------------------------
(* Lemmas about the operators.                                             *)

\* Whatever the judge answers, its verdict is well formed.
LEMMA VerdictType ==
  ASSUME NEW reply \in Replies
  PROVE  VerdictOf(reply) \in Verdicts
<1>1. \A raw \in RawNumbers : Clamp(raw) \in Percent
  BY JudgeAssumption DEF Clamp, Percent
<1>2. CASE reply.fate = "object"
  <2>1. reply.bug \in BOOLEAN /\ reply.confidence \in RawNumbers /\ reply.severity \in RawNumbers
    BY <1>2 DEF Replies, NoText
  <2> QED
    BY <1>1, <1>2, <2>1 DEF VerdictOf, Verdicts
<1>3. CASE reply.fate # "object"
  BY <1>3 DEF VerdictOf, Failed, Verdicts, Percent
<1> QED
  BY <1>2, <1>3

\* A signal that is not "expected" comes from a confident bug verdict.
LEMMA SignalType ==
  ASSUME NEW v \in Verdicts
  PROVE  /\ SignalOf(v) \in [expected : BOOLEAN, severity : Percent]
         /\ ~SignalOf(v).expected \/ SignalOf(v).severity > 0
              => v.bug /\ v.confidence >= MinConfidence
<1>1. v.severity \in Percent
  BY DEF Verdicts
<1>2. CASE Counted(v)
  <2>1. SignalOf(v) = [expected |-> FALSE, severity |-> v.severity]
    BY <1>2 DEF SignalOf
  <2> QED
    BY <1>1, <1>2, <2>1 DEF Counted
<1>3. CASE ~Counted(v)
  <2>1. SignalOf(v) = [expected |-> TRUE, severity |-> 0]
    BY <1>3 DEF SignalOf
  <2> QED
    BY <2>1 DEF Percent
<1> QED
  BY <1>2, <1>3

\* Observing a step moves the window by one.
LEMMA ObserveWindow ==
  ASSUME TypeOK, WindowIsRecent, NEW s, Observe(s), episode' = episode
  PROVE  /\ step' \in 0 .. MaxSteps /\ step' = step + 1
         /\ records' \in Seq([episode : Nat, step : Nat])
         /\ WindowIsRecent'
<1> DEFINE entry == [episode |-> episode, step |-> step + 1]
           kept == IF Len(records) < WindowSteps THEN records ELSE Tail(records)
<1>1. /\ step \in Nat /\ step' = step + 1 /\ step' \in 0 .. MaxSteps
      /\ entry \in [episode : Nat, step : Nat]
      /\ records \in Seq([episode : Nat, step : Nat])
      /\ WindowSteps \in Nat \ {0}
  BY JudgeAssumption DEF TypeOK, Observe
<1>2. records' = Append(kept, entry)
  BY DEF Observe, Remember
<1>3. /\ kept \in Seq([episode : Nat, step : Nat])
      /\ Len(kept) = IF step < WindowSteps THEN step ELSE WindowSteps - 1
      /\ \A i \in 1 .. Len(kept) :
           kept[i] = [episode |-> episode, step |-> step - Len(kept) + i]
  <2>1. CASE Len(records) < WindowSteps
    <3>1. step < WindowSteps /\ Len(records) = step
      BY <1>1, <2>1 DEF WindowIsRecent
    <3>2. kept = records
      BY <2>1
    <3>3. \A i \in 1 .. Len(records) :
            records[i] = [episode |-> episode, step |-> step - Len(records) + i]
      BY <1>1 DEF WindowIsRecent
    <3> HIDE DEF kept
    <3> QED
      BY <1>1, <3>1, <3>2, <3>3
  <2>2. CASE ~(Len(records) < WindowSteps)
    <3>1. Len(records) = WindowSteps /\ records # <<>> /\ step >= WindowSteps
      BY <1>1, <2>2 DEF WindowIsRecent
    <3>2. /\ Tail(records) \in Seq([episode : Nat, step : Nat])
          /\ Len(Tail(records)) = WindowSteps - 1
          /\ \A i \in 1 .. WindowSteps - 1 : Tail(records)[i] = records[i + 1]
      BY <1>1, <3>1
    <3>3. kept = Tail(records)
      BY <2>2
    <3>4. ASSUME NEW i \in 1 .. WindowSteps - 1
          PROVE  Tail(records)[i]
                   = [episode |-> episode, step |-> step - (WindowSteps - 1) + i]
      <4>1. i + 1 \in DOMAIN records
        BY <1>1, <3>1
      <4>2. records[i + 1]
              = [episode |-> episode, step |-> step - Len(records) + (i + 1)]
        BY <4>1 DEF WindowIsRecent
      <4>3. step - Len(records) + (i + 1) = step - (WindowSteps - 1) + i
        BY <1>1, <3>1
      <4> QED
        BY <3>2, <4>2, <4>3
    <3> HIDE DEF kept
    <3> QED
      BY <1>1, <3>1, <3>2, <3>3, <3>4
  <2> QED
    BY <2>1, <2>2
<1> HIDE DEF kept
<1>4. /\ records' \in Seq([episode : Nat, step : Nat])
      /\ Len(records') = Len(kept) + 1
      /\ \A i \in 1 .. Len(kept) : records'[i] = kept[i]
      /\ records'[Len(kept) + 1] = entry
  BY <1>1, <1>2, <1>3
<1>5. Len(records') = IF step' < WindowSteps THEN step' ELSE WindowSteps
  BY <1>1, <1>3, <1>4
<1>6. ASSUME NEW i \in DOMAIN records'
      PROVE  records'[i] = [episode |-> episode, step |-> step' - Len(records') + i]
  <2>1. i \in 1 .. Len(kept) + 1 /\ Len(kept) \in Nat
    BY <1>3, <1>4, <1>6
  <2>2. step' - Len(records') + i = step - Len(kept) + i
    BY <1>1, <1>4, <2>1
  <2>3. CASE i \in 1 .. Len(kept)
    BY <1>3, <1>4, <2>2, <2>3
  <2>4. CASE i = Len(kept) + 1
    <3>1. step - Len(kept) + i = step + 1
      BY <1>1, <2>1, <2>4
    <3>2. records'[i] = [episode |-> episode, step |-> step + 1]
      BY <1>4, <2>4
    <3> QED
      BY <2>2, <3>1, <3>2
  <2> QED
    BY <2>1, <2>3, <2>4
<1> QED
  BY <1>1, <1>4, <1>5, <1>6 DEF WindowIsRecent
-----------------------------------------------------------------------------
(* Every action keeps the invariant.                                       *)

\* A new episode starts with an empty window and an unspent budget.
LEMMA StartEpisodeIInv == IInv /\ StartEpisode => IInv'
<1> SUFFICES ASSUME IInv, StartEpisode
             PROVE  IInv'
  OBVIOUS
<1> USE DEF StartEpisode
<1>1. TypeOK'
  BY JudgeAssumption DEF IInv, TypeOK, Expected, Percent
<1>2. WindowIsRecent'
  BY JudgeAssumption DEF WindowIsRecent
<1>3. AskedIsCounted' /\ CounterInBudget'
  BY FS_EmptySet, JudgeAssumption DEF AskedIsCounted, CounterInBudget, Uncounted
<1>4. OnlyConfidentBugsPay'
  BY DEF OnlyConfidentBugsPay, Expected
<1>5. CallsAccountedFor'
  BY DEF IInv, CallsAccountedFor, Uncounted
<1> QED
  BY <1>1, <1>2, <1>3, <1>4, <1>5 DEF IInv

\* A step that is not judged only moves the window and the tally.
LEMMA DeclineIInv ==
  ASSUME IInv, NEW s \in EnvSteps, Decline(s)
  PROVE  IInv'
<1> USE DEF Decline
<1>1. /\ step' \in 0 .. MaxSteps /\ step' = step + 1
      /\ records' \in Seq([episode : Nat, step : Nat])
      /\ WindowIsRecent'
  BY ObserveWindow DEF IInv
<1>2. /\ tally' \in [judged : Nat, skipped : Nat]
      /\ tally'.judged >= tally.judged
      /\ ~ShouldJudge(LiveRecord(s)) => tally'.judged = tally.judged
  BY DEF IInv, TypeOK, Tally
<1>3. last' \in [triggered : BOOLEAN, judged : BOOLEAN]
  BY DEF EnvSteps
<1>4. TypeOK'
  BY <1>1, <1>2, <1>3 DEF IInv, TypeOK, Expected, Percent
<1>5. AskedIsCounted' /\ CounterInBudget'
  BY DEF IInv, AskedIsCounted, CounterInBudget, Uncounted
<1>6. OnlyConfidentBugsPay'
  BY DEF OnlyConfidentBugsPay, Expected
<1>7. CallsAccountedFor'
  <2>1. MaxCalls = 0 => ~ShouldJudge(LiveRecord(s))
    BY DEF BudgetSpent
  <2>2. calls \in Nat /\ tally.judged \in Nat /\ tally'.judged \in Nat
        /\ Uncounted \in Nat /\ Uncounted' = Uncounted
    BY <1>2 DEF IInv, TypeOK, Uncounted
  <2> QED
    BY <1>2, <2>1, <2>2 DEF IInv, CallsAccountedFor
<1> QED
  BY <1>1, <1>4, <1>5, <1>6, <1>7 DEF IInv

\* A call is counted once, as a verdict or as a failure.
LEMMA AskJudgeIInv ==
  ASSUME IInv, NEW s \in EnvSteps, NEW reply \in Replies, AskJudge(s, reply)
  PROVE  IInv'
<1> DEFINE v == VerdictOf(reply)
           entry == [episode |-> episode, step |-> step + 1, verdict |-> v]
           Entries == [episode : Nat, step : Nat, verdict : Verdicts]
<1> USE DEF AskJudge, Asks
<1>0. Uncounted = 0 /\ Uncounted' = 0
  BY DEF Observe, Uncounted
<1>1. /\ step' \in 0 .. MaxSteps /\ step' = step + 1
      /\ records' \in Seq([episode : Nat, step : Nat])
      /\ WindowIsRecent'
  BY ObserveWindow DEF IInv
<1>2. v \in Verdicts
  BY VerdictType
<1> HIDE DEF v
<1>3. /\ tally' \in [judged : Nat, skipped : Nat]
      /\ Gated => tally'.judged = tally.judged + 1
  <2>1. tally \in [judged : Nat, skipped : Nat]
    BY DEF IInv, TypeOK
  <2>2. tally' = IF ~Gated THEN tally ELSE [tally EXCEPT !.judged = @ + 1]
    BY DEF Tally
  <2> QED
    BY <2>1, <2>2
<1>4. /\ failedCalls' = IF v.ok THEN failedCalls ELSE failedCalls + 1
      /\ verdicts' = IF v.ok THEN Append(verdicts, entry) ELSE verdicts
      /\ signal' = IF v.ok THEN SignalOf(v) ELSE Expected
  BY DEF NoteVerdict, v
<1>5. /\ verdicts \in Seq(Entries) /\ entry \in Entries
      /\ episode \in Nat /\ step \in Nat /\ calls \in Nat /\ failedCalls \in Nat
      /\ callsThisEpisode \in Nat /\ asked \subseteq 1 .. step
  BY <1>2, JudgeAssumption DEF IInv, TypeOK
<1>6. /\ verdicts' \in Seq(Entries)
      /\ Len(verdicts') = IF v.ok THEN Len(verdicts) + 1 ELSE Len(verdicts)
      /\ v.ok => verdicts' # <<>> /\ verdicts'[Len(verdicts')] = entry
  <2> HIDE DEF entry, Entries
  <2>1. CASE v.ok
    BY <1>4, <1>5, <2>1
  <2>2. CASE ~v.ok
    BY <1>4, <1>5, <2>2
  <2> QED
    BY <2>1, <2>2
<1>7. TypeOK'
  <2>1. signal' \in [expected : BOOLEAN, severity : Percent]
    <3>1. SignalOf(v) \in [expected : BOOLEAN, severity : Percent]
      BY <1>2, SignalType
    <3>2. Expected \in [expected : BOOLEAN, severity : Percent]
      BY DEF Expected, Percent
    <3> QED
      BY <1>4, <3>1, <3>2
  <2>2. last' \in [triggered : BOOLEAN, judged : BOOLEAN]
    BY DEF EnvSteps
  <2>3. failedCalls' \in Nat /\ calls' \in Nat /\ callsThisEpisode' \in Nat
    BY <1>4, <1>5
  <2>4. asked' \subseteq 1 .. step'
    BY <1>1, <1>5
  <2>5. episode' \in 0 .. MaxEpisodes /\ raised' \in BOOLEAN
    BY DEF IInv, TypeOK
  <2> QED
    BY <1>1, <1>3, <1>6, <2>1, <2>2, <2>3, <2>4, <2>5 DEF TypeOK
<1>8. AskedIsCounted'
  <2>1. step + 1 \notin asked
    BY <1>5
  <2>2. IsFiniteSet(asked) /\ Cardinality(asked) = callsThisEpisode
    BY <1>0, <1>5 DEF IInv, AskedIsCounted
  <2>3. asked' = asked \cup {step + 1} /\ callsThisEpisode' = callsThisEpisode + 1
    OBVIOUS
  <2>4. IsFiniteSet(asked') /\ Cardinality(asked') = callsThisEpisode'
    BY <2>1, <2>2, <2>3, FS_AddElement
  <2> QED
    BY <1>0, <1>5, <2>3, <2>4 DEF AskedIsCounted
<1>9. CounterInBudget'
  <2>1. Gated /\ MaxCalls > 0 => callsThisEpisode < MaxCalls
    BY <1>5, JudgeAssumption DEF BudgetSpent
  <2> QED
    BY <1>0, <1>5, <2>1, JudgeAssumption DEF CounterInBudget
<1>10. OnlyConfidentBugsPay'
  <2>1. CASE v.ok
    <3>1. /\ ~SignalOf(v).expected \/ SignalOf(v).severity > 0
               => v.bug /\ v.confidence >= MinConfidence
      BY <1>2, SignalType
    <3>2. signal' = SignalOf(v)
      BY <1>4, <2>1
    <3> QED
      BY <1>1, <1>6, <2>1, <3>1, <3>2 DEF OnlyConfidentBugsPay
  <2>2. CASE ~v.ok
    BY <1>4, <2>2 DEF OnlyConfidentBugsPay, Expected
  <2> QED
    BY <2>1, <2>2
<1>11. CallsAccountedFor'
  <2>1. Len(verdicts) \in Nat /\ tally.judged \in Nat /\ calls' = calls + 1
    BY <1>5 DEF IInv, TypeOK
  <2>2. calls = failedCalls + Len(verdicts)
    BY DEF IInv, CallsAccountedFor
  <2>3. calls' = failedCalls' + Len(verdicts')
    BY <1>4, <1>5, <1>6, <2>1, <2>2
  <2>4. /\ Gated => calls' <= tally'.judged
        /\ Gated /\ MaxCalls = 0 => calls' = tally'.judged
    BY <1>0, <1>3, <1>5, <2>1 DEF IInv, CallsAccountedFor
  <2> QED
    BY <1>0, <2>3, <2>4 DEF CallsAccountedFor
<1> QED
  BY <1>1, <1>7, <1>8, <1>9, <1>10, <1>11 DEF IInv

\* A call that raises ends the run with one call the counters do not know of.
LEMMA JudgeRaisesIInv ==
  ASSUME IInv, NEW s \in EnvSteps, JudgeRaises(s)
  PROVE  IInv'
<1> USE DEF JudgeRaises, Asks
<1>0. Uncounted = 0 /\ Uncounted' = 1
  BY DEF Observe, Uncounted
<1>1. /\ step' \in 0 .. MaxSteps /\ step' = step + 1
      /\ records' \in Seq([episode : Nat, step : Nat])
      /\ WindowIsRecent'
  BY ObserveWindow DEF IInv
<1>2. /\ tally' \in [judged : Nat, skipped : Nat]
      /\ Gated => tally'.judged = tally.judged + 1
  <2>1. tally \in [judged : Nat, skipped : Nat]
    BY DEF IInv, TypeOK
  <2>2. tally' = IF ~Gated THEN tally ELSE [tally EXCEPT !.judged = @ + 1]
    BY DEF Tally
  <2> QED
    BY <2>1, <2>2
<1>3. /\ step \in Nat /\ calls \in Nat /\ failedCalls \in Nat /\ callsThisEpisode \in Nat
      /\ asked \subseteq 1 .. step /\ tally.judged \in Nat
  BY DEF IInv, TypeOK
<1>4. TypeOK'
  <2>1. last' \in [triggered : BOOLEAN, judged : BOOLEAN]
    BY DEF EnvSteps
  <2>2. asked' \subseteq 1 .. step'
    BY <1>1, <1>3
  <2>3. signal' \in [expected : BOOLEAN, severity : Percent]
    BY DEF Expected, Percent
  <2>4. raised' \in BOOLEAN
    OBVIOUS
  <2> QED
    BY <1>1, <1>2, <2>1, <2>2, <2>3, <2>4 DEF IInv, TypeOK
<1>5. AskedIsCounted'
  <2>1. step + 1 \notin asked
    BY <1>3
  <2>2. IsFiniteSet(asked) /\ Cardinality(asked) = callsThisEpisode + Uncounted
    BY DEF IInv, AskedIsCounted
  <2> QED
    BY <1>0, <1>3, <2>1, <2>2, FS_AddElement DEF AskedIsCounted
<1>6. CounterInBudget'
  <2>1. Gated /\ MaxCalls > 0 => callsThisEpisode < MaxCalls
    BY <1>3, JudgeAssumption DEF BudgetSpent
  <2> QED
    BY <1>0, <1>3, <2>1, JudgeAssumption DEF CounterInBudget
<1>7. OnlyConfidentBugsPay'
  BY DEF OnlyConfidentBugsPay, Expected
<1>8. CallsAccountedFor'
  <2>1. UNCHANGED <<calls, failedCalls, verdicts>>
    OBVIOUS
  <2> QED
    BY <1>0, <1>2, <1>3, <2>1 DEF IInv, CallsAccountedFor
<1> QED
  BY <1>1, <1>4, <1>5, <1>6, <1>7, <1>8 DEF IInv

\* The invariant holds in every behaviour.
THEOREM InductiveInvariant == Spec => []IInv
<1>1. Init => IInv
  <2> SUFFICES ASSUME Init
               PROVE  IInv
    OBVIOUS
  <2>1. TypeOK
    <3>1. /\ signal \in [expected : BOOLEAN, severity : Percent]
          /\ last \in [triggered : BOOLEAN, judged : BOOLEAN]
          /\ tally \in [judged : Nat, skipped : Nat]
      BY DEF Init, Expected, Percent
    <3>2. /\ records \in Seq([episode : Nat, step : Nat])
          /\ verdicts \in Seq([episode : Nat, step : Nat, verdict : Verdicts])
          /\ asked \subseteq 1 .. step
      BY DEF Init
    <3>3. /\ episode \in 0 .. MaxEpisodes /\ step \in 0 .. MaxSteps
          /\ callsThisEpisode \in Nat /\ calls \in Nat /\ failedCalls \in Nat
      BY JudgeAssumption DEF Init
    <3>4. raised \in BOOLEAN
      BY DEF Init
    <3> QED
      BY <3>1, <3>2, <3>3, <3>4 DEF TypeOK
  <2>2. WindowIsRecent /\ CallsAccountedFor
    BY JudgeAssumption DEF Init, WindowIsRecent, CallsAccountedFor, Uncounted
  <2>3. AskedIsCounted /\ CounterInBudget
    BY FS_EmptySet, JudgeAssumption DEF Init, AskedIsCounted, CounterInBudget, Uncounted
  <2>4. OnlyConfidentBugsPay
    BY DEF Init, OnlyConfidentBugsPay, Expected
  <2> QED
    BY <2>1, <2>2, <2>3, <2>4 DEF IInv
<1>2. IInv /\ [Next]_vars => IInv'
  <2> SUFFICES ASSUME IInv, [Next]_vars
               PROVE  IInv'
    OBVIOUS
  <2>1. CASE StartEpisode
    BY <2>1, StartEpisodeIInv
  <2>2. ASSUME NEW s \in EnvSteps, Decline(s) \/ JudgeRaises(s)
        PROVE  IInv'
    BY <2>2, DeclineIInv, JudgeRaisesIInv
  <2>3. ASSUME NEW s \in EnvSteps, NEW reply \in Replies, AskJudge(s, reply)
        PROVE  IInv'
    BY <2>3, AskJudgeIInv
  <2>4. CASE UNCHANGED vars
    BY <2>4 DEF vars, IInv, TypeOK, WindowIsRecent, AskedIsCounted,
                CounterInBudget, OnlyConfidentBugsPay, CallsAccountedFor, Uncounted
  <2> QED
    BY <2>1, <2>2, <2>3, <2>4 DEF Next
<1> QED
  BY <1>1, <1>2, PTL DEF Spec

-----------------------------------------------------------------------------
(* What follows from it.                                                   *)

\* Every variable keeps its type, whatever the judge answers.
THEOREM TypeCorrect == Spec => []TypeOK
<1>1. IInv => TypeOK
  BY DEF IInv
<1> QED
  BY <1>1, InductiveInvariant, PTL

\* The judge always sees the last steps of the running episode, in order.
THEOREM WindowNeverSpans == Spec => []WindowIsRecent
<1>1. IInv => WindowIsRecent
  BY DEF IInv
<1> QED
  BY <1>1, InductiveInvariant, PTL

\* A gated model asks about at most MaxCalls steps of an episode.
THEOREM GatedBudget ==
  ASSUME Gated
  PROVE  Spec => []BudgetRespected
<1>1. IInv => BudgetRespected
  <2> SUFFICES ASSUME IInv, MaxCalls > 0 PROVE Cardinality(asked) <= MaxCalls
    BY DEF BudgetRespected
  <2> QED
    BY DEF IInv, AskedIsCounted, CounterInBudget
<1> QED
  BY <1>1, InductiveInvariant, PTL

\* An outage, an unreadable reply or a verdict without confidence never pays.
THEOREM OutageNeverPays == Spec => []OnlyConfidentBugsPay
<1>1. IInv => OnlyConfidentBugsPay
  BY DEF IInv
<1> QED
  BY <1>1, InductiveInvariant, PTL

\* Every call ends as one verdict or one failure, but for the one that raised.
THEOREM CallsBalance == Spec => []CallsAccountedFor
<1>1. IInv => CallsAccountedFor
  BY DEF IInv
<1> QED
  BY <1>1, InductiveInvariant, PTL
=============================================================================
