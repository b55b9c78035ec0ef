------------------------ MODULE RewardShapingProofs ------------------------
(***************************************************************************)
(* Proofs about RewardShaping, for every set of pages, actions and errors, *)
(* every fingerprint and every bound.                                      *)
(*                                                                         *)
(* The argument: what a step pays for is what the ledger newly records     *)
(* (PaidIsNew), so the number of payouts of a finding is whether it is in  *)
(* the ledger, and both start anew with the episode (PaidIsRecorded).      *)
(***************************************************************************)
EXTENDS RewardShaping, FiniteSetTheorems, TLAPS

\* The number of times a finding was paid for is whether the ledger has it.
PaidIsRecorded ==
  \A f \in Findings : bonuses[f] = IF f \in ledger THEN 1 ELSE 0

\* The number of times a state earned novelty is whether it was reached after
\* the landing page.
NoveltyIsRecorded ==
  \E landing \in episodeStates :
    \A k \in Keys : novelties[k] = IF k \in episodeStates \ {landing} THEN 1 ELSE 0

\* A hang is only reported when the page is left unsettled.
SlowLeavesUnsettled == "slow_response" \in last.fired => ~pageSettled

\* The inductive invariant.
IInv ==
  /\ TypeOK
  /\ PaidIsRecorded
  /\ NoveltyIsRecorded
  /\ SlowLeavesUnsettled
  /\ NothingNewCosts
Identities == {IdentityOf[a] : a \in Actions}

-----------------------------------------------------------------------------
(* Lemmas about the operators of the reward.                               *)

\* A finding of a step is one of the findings there are.
LEMMA FindingType ==
  ASSUME NEW o \in Outcomes, NEW t \in Triggers
  PROVE  FindingOf(t, o) \in Findings
BY DEF FindingOf, Findings, Keys, Elements, Outcomes

\* A trigger pays exactly when it fired on a finding that is not recorded yet:
\* a rediscovery pays nothing and every discovery pays something.
LEMMA PaidWhenNew ==
  ASSUME NEW o \in Outcomes, NEW t \in Triggers
  PROVE  /\ PaidFor(t, o) \in Nat
         /\ PaidFor(t, o) > 0 <=> t \in NewTriggers(o)
<1>1. TriggerBonus(t) \in Nat /\ TriggerBonus(t) > 0
  BY DEF TriggerBonus, Triggers
<1>2. NewTriggers(o) \subseteq Fired(o)
  BY DEF NewTriggers
<1> QED
  BY <1>1, <1>2 DEF PaidFor, RediscoveryBonus

\* What the step reports as paid is what the ledger newly records.
LEMMA PaidIsNew ==
  ASSUME NEW o \in Outcomes, NEW base
  PROVE  /\ Report(o, base).paid = NewFindings(o)
         /\ NewFindings(o) \subseteq Findings \ ledger
<1>1. NewTriggers(o) \subseteq Triggers
  BY DEF NewTriggers, Fired
<1>2. {x \in Triggers : PaidFor(x, o) > 0} = NewTriggers(o)
  BY <1>1, PaidWhenNew
<1>3. Report(o, base).paid = NewFindings(o)
  BY <1>2 DEF Report, NewFindings
<1>4. NewFindings(o) \subseteq Findings
  BY <1>1, FindingType DEF NewFindings
<1>5. \A f \in NewFindings(o) : f \notin ledger
  BY DEF NewFindings, NewTriggers
<1> QED
  BY <1>3, <1>4, <1>5

\* The count of repetitions is a number.
LEMMA RepeatCountType ==
  ASSUME TypeOK, NEW o \in Outcomes
  PROVE  RepeatCount(o) \in Nat
<1> DEFINE same == {i \in DOMAIN recent : recent[i] = IdentityOf[o.action]}
<1>1. Len(recent) \in Nat /\ DOMAIN recent = 1 .. Len(recent)
  BY DEF TypeOK
<1>2. IsFiniteSet(1 .. Len(recent))
  BY <1>1, FS_Interval
<1>3. IsFiniteSet(same)
  BY <1>1, <1>2, FS_Subset
<1>4. Cardinality(same) \in Nat
  BY <1>3, FS_CardinalityType
<1> QED
  BY <1>4 DEF RepeatCount

\* The part of the reward that is not the judge's is a number, and without a
\* new finding or a new state it is at most the step penalty.
LEMMA RewardBounds ==
  ASSUME TypeOK, NEW o \in Outcomes, NEW base \in Nat
  PROVE  /\ Reward(o, base) \in Int
         /\ NewTriggers(o) = {} /\ ~IsNovel(o)
              => Reward(o, base) - base <= StepPenalty
<1>1. \A t \in Triggers : PaidFor(t, o) \in Nat
  BY PaidWhenNew
<1>2. BugBonus(o) \in Nat
  BY <1>1 DEF BugBonus, Triggers
<1>3. NewTriggers(o) = {} => BugBonus(o) = 0
  <2>1. SUFFICES ASSUME NewTriggers(o) = {}
                 PROVE  BugBonus(o) = 0
    OBVIOUS
  <2>2. \A t \in Triggers : PaidFor(t, o) = 0
    BY <1>1, <2>1, PaidWhenNew
  <2> QED
    BY <2>2 DEF BugBonus, Triggers
<1>4. RepetitionPenalty * RepeatCount(o) \in Int /\ RepetitionPenalty * RepeatCount(o) <= 0
  BY RepeatCountType DEF RepetitionPenalty
<1>5. /\ ExplorationBonus(o) \in Int
      /\ ~IsNovel(o) => ExplorationBonus(o) <= 0
  BY <1>4 DEF ExplorationBonus, NoveltyBonus, MaxRepetition
<1>6. StepCost(o) \in Int /\ StepCost(o) <= StepPenalty
  BY DEF StepCost, StepPenalty, FailedActionPenalty
<1> QED
  BY <1>2, <1>3, <1>5, <1>6 DEF Reward, StepPenalty

\* Appending to the window keeps it a window.
LEMMA RememberType ==
  ASSUME NEW S, NEW w \in Seq(S), Len(w) <= Window, NEW x \in S
  PROVE  Remember(w, x) \in Seq(S) /\ Len(Remember(w, x)) <= Window
<1>1. CASE Len(w) < Window
  BY <1>1, NumbersAssumption DEF Remember
<1>2. CASE ~(Len(w) < Window)
  <2>1. w # <<>>
    BY <1>2, NumbersAssumption
  <2>2. Tail(w) \in Seq(S) /\ Len(Tail(w)) = Len(w) - 1
    BY <2>1
  <2> QED
    BY <1>2, <2>2, NumbersAssumption DEF Remember
<1> QED
  BY <1>1, <1>2
-----------------------------------------------------------------------------
(* The inductive invariant: established by reset, kept by reset and step.  *)

\* A step of the reward keeps the invariant.
LEMMA StepIInv ==
  ASSUME IInv, NEW o \in Outcomes, NEW base \in JudgeBases, Step(o, base)
  PROVE  IInv'
<1> USE DEF Step
<1>1. TypeOK /\ base \in Nat
  BY NumbersAssumption DEF IInv
<1>2. o.action \in Actions /\ o.page \in Pages /\ o.settled \in BOOLEAN
  BY DEF Outcomes
<1>3. KeyOf[o.page] \in Keys
  BY <1>2 DEF Keys
<1>4. last'.paid = NewFindings(o) /\ NewFindings(o) \subseteq Findings \ ledger
  BY PaidIsNew
<1>5. last' \in Reports
  <2>1. Fired(o) \subseteq Triggers /\ IsNovel(o) \in BOOLEAN
    BY DEF Fired, IsNovel
  <2>2. Reward(o, base) \in Int
    BY <1>1, RewardBounds
  <2>3. Report(o, base).paid \subseteq Findings
    BY <1>4
  <2> QED
    BY <1>1, <2>1, <2>2, <2>3 DEF Report, Reports
<1>6. recent' \in Seq(Identities) /\ Len(recent') <= Window
  <2>1. IdentityOf[o.action] \in Identities
    BY <1>2 DEF Identities
  <2>2. recent \in Seq(Identities) /\ Len(recent) <= Window
    BY <1>1 DEF TypeOK, Identities
  <2> QED
    BY <2>1, <2>2, RememberType
<1>7. bonuses' \in [Findings -> Nat] /\ novelties' \in [Keys -> Nat]
  BY <1>1 DEF TypeOK
<1>8. steps' \in 0 .. MaxSteps
  BY <1>1, NumbersAssumption DEF TypeOK
<1>9. TypeOK'
  BY <1>1, <1>2, <1>3, <1>4, <1>5, <1>6, <1>7, <1>8 DEF TypeOK, Identities
<1>10. PaidIsRecorded'
  <2> SUFFICES ASSUME NEW f \in Findings
               PROVE  bonuses'[f] = IF f \in ledger' THEN 1 ELSE 0
    BY DEF PaidIsRecorded
  <2>1. bonuses[f] = IF f \in ledger THEN 1 ELSE 0
    BY DEF IInv, PaidIsRecorded
  <2>2. bonuses'[f] = bonuses[f] + IF f \in NewFindings(o) THEN 1 ELSE 0
    BY <1>4
  <2> QED
    BY <1>4, <2>1, <2>2
<1>11. NoveltyIsRecorded'
  <2>1. PICK landing \in episodeStates :
          \A k \in Keys :
            novelties[k] = IF k \in episodeStates \ {landing} THEN 1 ELSE 0
    BY DEF IInv, NoveltyIsRecorded
  <2> SUFFICES ASSUME NEW k \in Keys
               PROVE  novelties'[k]
                        = IF k \in episodeStates' \ {landing} THEN 1 ELSE 0
    BY <2>1 DEF NoveltyIsRecorded
  <2>2. novelties'[k]
          = novelties[k] + IF IsNovel(o) /\ k = KeyOf[o.page] THEN 1 ELSE 0
    OBVIOUS
  <2> QED
    BY <2>1, <2>2 DEF IsNovel
<1>12. SlowLeavesUnsettled'
  BY DEF SlowLeavesUnsettled, Report, Fired, SlowResponse
<1>13. NothingNewCosts'
  <2>1. NewFindings(o) = {} => NewTriggers(o) = {}
    BY DEF NewFindings
  <2>2. NewTriggers(o) = {} /\ ~IsNovel(o)
          => Reward(o, base) - base <= StepPenalty
    BY <1>1, RewardBounds
  <2>3. last'.total = Reward(o, base) /\ last'.base = base /\ last'.novel = IsNovel(o)
    BY DEF Report
  <2> QED
    BY <1>4, <2>1, <2>2, <2>3 DEF NothingNewCosts, StepPenalty
<1> QED
  BY <1>9, <1>10, <1>11, <1>12, <1>13 DEF IInv

\* The invariant holds in every behaviour.
THEOREM InductiveInvariant == Spec => []IInv
<1>1. Init => IInv
  <2> SUFFICES ASSUME Init
               PROVE  IInv
    OBVIOUS
  <2>1. TypeOK
    BY NumbersAssumption DEF Init, TypeOK, Keys, Reports, NoReport
  <2>2. PaidIsRecorded /\ NoveltyIsRecorded
    BY DEF Init, PaidIsRecorded, NoveltyIsRecorded
  <2>3. SlowLeavesUnsettled /\ NothingNewCosts
    BY DEF Init, SlowLeavesUnsettled, NothingNewCosts, NoReport
  <2> QED
    BY <2>1, <2>2, <2>3 DEF IInv
<1>2. IInv /\ [Next]_vars => IInv'
  <2> SUFFICES ASSUME IInv, [Next]_vars
               PROVE  IInv'
    OBVIOUS
  <2>1. CASE Reset
    <3>1. page' \in Pages /\ pageSettled' \in BOOLEAN /\ baseline' \subseteq ErrorKeys
      BY <2>1 DEF Reset, IInv, TypeOK
    <3>2. episodeStates' = {KeyOf[page']} /\ allStates' \subseteq Keys
      BY <2>1 DEF Reset, IInv, TypeOK, Keys
    <3>3. TypeOK'
      BY <2>1, <3>1, <3>2, NumbersAssumption DEF Reset, TypeOK, Keys, Reports, NoReport
    <3>4. PaidIsRecorded' /\ NoveltyIsRecorded'
      BY <2>1, <3>2 DEF Reset, PaidIsRecorded, NoveltyIsRecorded
    <3>5. SlowLeavesUnsettled' /\ NothingNewCosts'
      BY <2>1 DEF Reset, SlowLeavesUnsettled, NothingNewCosts, NoReport
    <3> QED
      BY <3>3, <3>4, <3>5 DEF IInv
  <2>2. ASSUME NEW o \in Outcomes, NEW base \in JudgeBases, Step(o, base)
        PROVE  IInv'
    BY <2>2, StepIInv
  <2>3. CASE UNCHANGED vars
    BY <2>3 DEF vars, IInv, TypeOK, PaidIsRecorded, NoveltyIsRecorded,
                SlowLeavesUnsettled, NothingNewCosts
  <2> QED
    BY <2>1, <2>2, <2>3 DEF Next
<1> QED
  BY <1>1, <1>2, PTL DEF Spec
-----------------------------------------------------------------------------
(* What follows from it.                                                   *)

\* Every variable keeps its type; the window of actions stays bounded.
THEOREM TypeCorrect == Spec => []TypeOK
<1>1. IInv => TypeOK
  BY DEF IInv
<1> QED
  BY <1>1, InductiveInvariant, PTL

\* No finding pays twice in an episode, whatever the application logs.
THEOREM PaysOnce == Spec => []PaidOncePerEpisode
<1>1. IInv => PaidOncePerEpisode
  BY DEF IInv, PaidIsRecorded, PaidOncePerEpisode
<1> QED
  BY <1>1, InductiveInvariant, PTL

\* Every state but the landing page earns novelty once in an episode.
THEOREM NoveltyOnce == Spec => []NoveltyOncePerEpisode
<1>1. IInv => NoveltyOncePerEpisode
  <2> SUFFICES ASSUME IInv
               PROVE  NoveltyOncePerEpisode
    OBVIOUS
  <2>1. episodeStates \subseteq Keys
    BY DEF IInv, TypeOK
  <2>2. PICK landing \in episodeStates :
          \A k \in Keys :
            novelties[k] = IF k \in episodeStates \ {landing} THEN 1 ELSE 0
    BY DEF IInv, NoveltyIsRecorded
  <2>3. {k \in Keys : novelties[k] = 1} = episodeStates \ {landing}
    BY <2>1, <2>2
  <2> QED
    BY <2>2, <2>3 DEF NoveltyOncePerEpisode
<1> QED
  BY <1>1, InductiveInvariant, PTL

\* A step that finds nothing new and reaches nothing new costs at least the
\* step penalty, apart from the judge's part.
THEOREM FarmingCosts == Spec => []NothingNewCosts
<1>1. IInv => NothingNewCosts
  BY DEF IInv
<1> QED
  BY <1>1, InductiveInvariant, PTL

\* A hang is reported once, against the action that caused it.
THEOREM HangReportedOnce == Spec => SlowOncePerHang
<1>1. IInv /\ [Next]_vars
        => [ "slow_response" \in last.fired /\ steps' = steps + 1
               => "slow_response" \notin last'.fired ]_vars
  <2> SUFFICES ASSUME IInv, Next, "slow_response" \in last.fired, steps' = steps + 1
               PROVE  "slow_response" \notin last'.fired
    OBVIOUS
  <2>1. ~pageSettled
    BY DEF IInv, SlowLeavesUnsettled
  <2>2. CASE Reset
    BY <2>2 DEF Reset, NoReport
  <2>3. ASSUME NEW o \in Outcomes, NEW base \in JudgeBases, Step(o, base)
        PROVE  "slow_response" \notin last'.fired
    BY <2>1, <2>3 DEF Step, Report, Fired, SlowResponse
  <2> QED
    BY <2>2, <2>3 DEF Next
<1> QED
  BY <1>1, InductiveInvariant, PTL DEF Spec, SlowOncePerHang

\* The ledger implements the abstract payout: what a step pays for was never
\* claimed before in the episode, and is claimed by it.
THEOREM ImplementsPayout == Spec => PayoutSpec
<1>1. Init => Payout!Init
  BY DEF Init, Payout!Init, NoReport
<1>2. [Next]_vars => [Payout!Next]_Payout!vars
  <2> SUFFICES ASSUME [Next]_vars
               PROVE  [Payout!Next]_Payout!vars
    OBVIOUS
  <2>1. CASE Reset
    BY <2>1 DEF Reset, NoReport, Payout!Next, Payout!NewEpisode
  <2>2. ASSUME NEW o \in Outcomes, NEW base \in JudgeBases, Step(o, base)
        PROVE  Payout!Next
    <3>1. last'.paid = NewFindings(o) /\ NewFindings(o) \subseteq Findings \ ledger
      BY <2>2, PaidIsNew DEF Step
    <3> QED
      BY <2>2, <3>1 DEF Step, Payout!Next, Payout!Pay
  <2>3. CASE UNCHANGED vars
    BY <2>3 DEF vars, Payout!vars
  <2> QED
    BY <2>1, <2>2, <2>3 DEF Next
<1> QED
  BY <1>1, <1>2, PTL DEF Spec, PayoutSpec, Payout!Spec
=============================================================================
