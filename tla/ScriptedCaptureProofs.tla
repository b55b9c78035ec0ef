----------------------- MODULE ScriptedCaptureProofs -----------------------
(***************************************************************************)
(* For any scripts, number of retries, pages and triggers: the trace is    *)
(* chained, the labels cut it into the scripts' episodes, every step of a  *)
(* script is executed once or missed, and the rollout's report is what the *)
(* trace shows. And a capture is bounded: each step uses up a variant.     *)
(***************************************************************************)
EXTENDS ScriptedCapture, TLAPS, FiniteSetTheorems

Capturing == phase \in {"rollout", "report"}

\* A record is at the place its global step says, and the records of the
\* episode are the last ones, as many as the recorder has counted.
RecorderCounts ==
  /\ recorder.globalStep = Len(trace)
  /\ recorder.step <= recorder.globalStep
  /\ \A i \in DOMAIN trace :
       /\ trace[i].globalStep = i
       /\ trace[i].episode <= recorder.episode
       /\ trace[i].episode = recorder.episode
            <=> i > recorder.globalStep - recorder.step

\* What the recorder remembers is the page the last record of the episode
\* ended on.
PreviousIsLast ==
  \A i \in DOMAIN trace :
    i = Len(trace) /\ trace[i].episode = recorder.episode
      => trace[i].after = recorder.prevPage

\* One episode and one label for each script; the labels end where the episode
\* being captured starts.
LabelEnd == IF labels = <<>> THEN 0 ELSE labels[Len(labels)].last

ScriptsInOrder ==
  /\ phase # "done" => script <= Len(Scripts)
  /\ recorder.episode = IF Capturing THEN script ELSE script - 1
  /\ Len(labels) = script - 1
  /\ LabelEnd = recorder.globalStep - IF Capturing THEN recorder.step ELSE 0
  /\ \A e \in DOMAIN labels : labels[e].last <= recorder.globalStep

\* What first_step was read as is where the episode starts, although it was read
\* before the recorder was told of the episode.
FirstIsFirst == Capturing => first = recorder.globalStep - recorder.step + 1

\* The steps of the script done in the episode.
Executed == {trace[i].executed : i \in OfEpisode} \ {Idle}

CursorInScript == Capturing => cursor <= Length

StepsDone ==
  Capturing =>
    /\ Executed \cap misses = {}
    /\ Executed \cup misses = 1 .. cursor
    /\ \A i, j \in OfEpisode :
         trace[i].executed = trace[j].executed /\ trace[i].executed # Idle => i = j

IInv ==
  /\ TypeOK
  /\ RecorderCounts
  /\ PreviousIsLast
  /\ ScriptsInOrder
  /\ FirstIsFirst
  /\ TraceIsChained
  /\ LabelsCoverTrace
  /\ CursorInScript
  /\ StepsDone

Recorders == [episode : Nat, step : Nat, globalStep : Nat, prevPage : Pages]

Labels == [first : Nat, last : Nat]

Records ==
  [episode : Nat, step : Nat, globalStep : Nat, executed : Nat,
   before : Pages, after : Pages, fired : SUBSET Triggers]

-----------------------------------------------------------------------------
(* One lemma for each action.                                              *)

\* Nothing is recorded, labelled or done yet.
LEMMA InitEstablishes == Init => IInv
<1> SUFFICES ASSUME Init PROVE IInv
  OBVIOUS
<1>1. TypeOK
  <2>1. Len(Scripts) \in Nat /\ MaxRetries \in Nat
    BY CaptureAssumption
  <2>2. /\ phase \in {"reset", "rollout", "report", "done"}
        /\ script \in 1 .. Len(Scripts) + 1
    BY <2>1 DEF Init
  <2>3. /\ report.steps \in Nat /\ report.counts \in [Triggers -> Nat]
    BY DEF Init, EmptyReport
  <2>. QED
    BY <2>1, <2>2, <2>3 DEF Init, TypeOK
<1>2. RecorderCounts /\ PreviousIsLast /\ TraceIsChained
  BY DEF Init, RecorderCounts, PreviousIsLast, TraceIsChained
<1>3. ScriptsInOrder /\ FirstIsFirst /\ LabelsCoverTrace
  <2>1. LabelEnd = 0
    BY DEF Init, LabelEnd
  <2>2. 1 <= Len(Scripts)
    BY CaptureAssumption
  <2>. QED
    BY <2>1, <2>2 DEF Init, ScriptsInOrder, FirstIsFirst, LabelsCoverTrace, Capturing
<1>4. CursorInScript /\ StepsDone
  BY DEF Init, CursorInScript, StepsDone, Capturing
<1>. QED
  BY <1>1, <1>2, <1>3, <1>4 DEF IInv

\* The types the steps below need, one by one.
LEMMA Types ==
  ASSUME TypeOK
  PROVE  /\ recorder \in Recorders
         /\ trace \in Seq(Records)
         /\ Len(trace) \in Nat /\ DOMAIN trace = 1 .. Len(trace)
         /\ \A i \in DOMAIN trace : trace[i] \in Records
         /\ \A e \in DOMAIN labels : labels[e].first \in Nat /\ labels[e].last \in Nat
         /\ Len(labels) \in Nat /\ DOMAIN labels = 1 .. Len(labels)
<1>1. recorder \in Recorders
  BY DEF TypeOK, Recorders
<1>2. trace \in Seq(Records)
  BY DEF TypeOK, Records
<1>3. labels \in Seq(Labels)
  BY DEF TypeOK, Labels
<1>4. \A e \in DOMAIN labels : labels[e] \in Labels
  BY <1>3
<1>5. \A e \in DOMAIN labels : labels[e].first \in Nat /\ labels[e].last \in Nat
  BY <1>4 DEF Labels
<1>6. Len(labels) \in Nat /\ DOMAIN labels = 1 .. Len(labels)
  BY <1>3
<1>7. /\ Len(trace) \in Nat /\ DOMAIN trace = 1 .. Len(trace)
      /\ \A i \in DOMAIN trace : trace[i] \in Records
  BY <1>2
<1>. QED
  BY <1>1, <1>2, <1>5, <1>6, <1>7

\* What comes after the last record of a label is not of that label.
LEMMA BeyondLast ==
  ASSUME NEW k \in Nat, NEW a \in Nat, NEW b \in Nat, b <= k
  PROVE  k + 1 \notin a .. b
  OBVIOUS

\* The script being captured is one of the scripts.
LEMMA LengthIsNat ==
  ASSUME IInv, phase # "done"
  PROVE  Length \in Nat
<1>1. script \in 1 .. Len(Scripts)
  BY CaptureAssumption DEF IInv, TypeOK, ScriptsInOrder
<1>. QED
  BY <1>1, CaptureAssumption DEF Length

\* A new episode has no record yet, and its number is larger than that of every
\* record.
LEMMA BeginEpisodePreserves ==
  ASSUME IInv, BeginEpisode
  PROVE  IInv'
<1>1. PICK landing \in Pages : page' = landing /\ OnReset(landing)
  BY DEF BeginEpisode
<1>. /\ recorder \in Recorders /\ Len(trace) \in Nat /\ DOMAIN trace = 1 .. Len(trace)
     /\ \A i \in DOMAIN trace : trace[i] \in Records
  BY Types DEF IInv
<1>2. /\ recorder'.episode = recorder.episode + 1 /\ recorder'.step = 0
      /\ recorder'.globalStep = recorder.globalStep /\ recorder'.prevPage = page'
      /\ recorder' \in Recorders
  <2>1. recorder' = [recorder EXCEPT !.episode = @ + 1, !.step = 0, !.prevPage = landing]
    BY <1>1 DEF OnReset
  <2>2. /\ recorder = [episode |-> recorder.episode, step |-> recorder.step,
                       globalStep |-> recorder.globalStep, prevPage |-> recorder.prevPage]
        /\ recorder.episode \in Nat /\ recorder.globalStep \in Nat
    BY DEF Recorders
  <2>3. recorder' = [episode |-> recorder.episode + 1, step |-> 0,
                     globalStep |-> recorder.globalStep, prevPage |-> landing]
    BY <2>1, <2>2
  <2>. QED
    BY <1>1, <2>2, <2>3 DEF Recorders
<1>3. phase' = "rollout" /\ ~Capturing /\ Capturing' /\ phase # "done"
      /\ UNCHANGED <<script, trace, labels, fidelity>>
  BY DEF BeginEpisode, Capturing
<1>4. TypeOK'
  <2>1. report'.steps \in Nat /\ report'.counts \in [Triggers -> Nat]
    BY DEF BeginEpisode, EmptyReport
  <2>2. retries' \in 0 .. MaxRetries /\ misses' \subseteq 1 .. cursor'
    BY CaptureAssumption DEF BeginEpisode
  <2>. QED
    BY <1>1, <1>2, <1>3, <2>1, <2>2 DEF IInv, TypeOK, BeginEpisode, Recorders
<1>5. \A i \in DOMAIN trace : trace[i].episode # recorder'.episode
  BY <1>2 DEF IInv, RecorderCounts, Recorders, Records
<1>6. RecorderCounts' /\ PreviousIsLast'
  <2>1. RecorderCounts'
    BY <1>2, <1>3, <1>5 DEF IInv, RecorderCounts, Recorders, Records
  <2>2. PreviousIsLast'
    BY <1>3, <1>5 DEF PreviousIsLast
  <2>. QED
    BY <2>1, <2>2
<1>7. ScriptsInOrder'
  <2>1. LabelEnd' = LabelEnd
    BY <1>3 DEF LabelEnd
  <2>2. script \in Int
    BY DEF IInv, TypeOK
  <2>. QED
    BY <1>2, <1>3, <2>1, <2>2 DEF IInv, ScriptsInOrder, Recorders
<1>8. TraceIsChained' /\ LabelsCoverTrace'
  BY <1>2, <1>3 DEF IInv, TraceIsChained, LabelsCoverTrace
<1>9. CursorInScript' /\ StepsDone'
  <2>1. OfEpisode' = {}
    BY <1>3, <1>5 DEF OfEpisode
  <2>2. Length \in Nat /\ Length' = Length /\ cursor' = 0 /\ misses' = {}
    BY <1>3, LengthIsNat DEF Length, BeginEpisode
  <2>. QED
    BY <2>1, <2>2 DEF CursorInScript, StepsDone, Executed
<1>10. FirstIsFirst'
  BY <1>2 DEF BeginEpisode, FirstIsFirst, Recorders
<1>. QED
  BY <1>4, <1>6, <1>7, <1>8, <1>9, <1>10 DEF IInv

\* What on_step writes, and where: the record is the last of the trace, and of
\* the episode.
NewRecord(executed, after, fired) ==
  [episode |-> recorder.episode, step |-> recorder.step + 1,
   globalStep |-> recorder.globalStep + 1, executed |-> executed,
   before |-> recorder.prevPage, after |-> after, fired |-> fired]

LEMMA RecordAppended ==
  ASSUME IInv, phase # "done", NEW executed \in 0 .. Length, NEW after \in Pages,
         NEW fired \in SUBSET Triggers, OnStep(executed, after, fired)
  PROVE  LET n   == Len(trace)
             new == NewRecord(executed, after, fired)
         IN /\ recorder' \in Recorders
            /\ recorder'.episode = recorder.episode
            /\ recorder'.step = recorder.step + 1
            /\ recorder'.globalStep = recorder.globalStep + 1
            /\ recorder'.prevPage = after
            /\ new \in Records
            /\ trace' \in Seq(Records) /\ DOMAIN trace' = 1 .. n + 1 /\ Len(trace') = n + 1
            /\ \A i \in 1 .. n : trace'[i] = trace[i]
            /\ trace'[n + 1] = new
            /\ OfEpisode' = OfEpisode \cup {n + 1}
            /\ OfEpisode \subseteq 1 .. n
<1> DEFINE n   == Len(trace)
           new == NewRecord(executed, after, fired)
<1>1. /\ recorder \in Recorders /\ n \in Nat /\ DOMAIN trace = 1 .. n
      /\ trace \in Seq(Records) /\ \A i \in 1 .. n : trace[i] \in Records
  BY Types DEF IInv
<1>2. executed \in Nat
  BY LengthIsNat
<1>3. /\ recorder = [episode |-> recorder.episode, step |-> recorder.step,
                     globalStep |-> recorder.globalStep, prevPage |-> recorder.prevPage]
      /\ recorder.step \in Nat /\ recorder.globalStep \in Nat
      /\ recorder.episode \in Nat /\ recorder.prevPage \in Pages
  BY <1>1 DEF Recorders
<1>4. recorder' = [episode |-> recorder.episode, step |-> recorder.step + 1,
                   globalStep |-> recorder.globalStep + 1, prevPage |-> after]
  <2>1. recorder' = [recorder EXCEPT !.step = @ + 1, !.globalStep = @ + 1,
                                     !.prevPage = after]
    BY DEF OnStep
  <2>. QED
    BY <1>3, <2>1
<1>5. /\ recorder' \in Recorders /\ recorder'.episode = recorder.episode
      /\ recorder'.step = recorder.step + 1
      /\ recorder'.globalStep = recorder.globalStep + 1 /\ recorder'.prevPage = after
  BY <1>3, <1>4 DEF Recorders
<1>6. new \in Records /\ trace' = Append(trace, new) /\ new.episode = recorder.episode
  BY <1>2, <1>3 DEF OnStep, NewRecord, Records
<1> HIDE DEF new
<1>7. /\ trace' \in Seq(Records) /\ DOMAIN trace' = 1 .. n + 1 /\ Len(trace') = n + 1
      /\ \A i \in 1 .. n : trace'[i] = trace[i]
      /\ trace'[n + 1] = new
  BY <1>1, <1>6
<1> HIDE DEF n
<1>8. OfEpisode' = OfEpisode \cup {n + 1} /\ OfEpisode \subseteq 1 .. n
  BY <1>1, <1>5, <1>6, <1>7 DEF OfEpisode
<1>. QED
  BY <1>5, <1>6, <1>7, <1>8 DEF n, new

\* A turn appends one record of the episode, and moves the cursor past a step
\* only if it was executed or missed.
LEMMA TurnPreserves ==
  ASSUME IInv, Turn
  PROVE  IInv'
<1>1. PICK matches \in BOOLEAN, executed \in 0 .. Length, after \in Pages,
           fired \in SUBSET Triggers, stranded \in Stranding :
        /\ Act(matches, executed)
        /\ page' = after
        /\ OnStep(executed, after, fired)
        /\ Count(executed, after, fired)
        /\ envSteps' = envSteps + 1
        /\ phase' = IF stranded \/ envSteps' >= EpisodeLimit
                    THEN "report" ELSE "rollout"
  BY DEF Turn
<1> DEFINE n   == Len(trace)
           new == NewRecord(executed, after, fired)
<1>. /\ recorder \in Recorders /\ n \in Nat /\ DOMAIN trace = 1 .. n
     /\ trace \in Seq(Records) /\ \A i \in 1 .. n : trace[i] \in Records
  BY Types DEF IInv
<1>2. Capturing /\ Capturing' /\ phase # "done" /\ phase' # "done"
      /\ UNCHANGED <<script, first, labels, fidelity>>
  BY <1>1 DEF Turn, Capturing
<1>3. Length \in Nat /\ Length' = Length /\ executed \in Nat
  BY <1>2, LengthIsNat DEF Length
<1>4. /\ recorder'.episode = recorder.episode
      /\ recorder'.step = recorder.step + 1
      /\ recorder'.globalStep = recorder.globalStep + 1
      /\ recorder'.prevPage = after
      /\ recorder' \in Recorders
  BY <1>1, <1>2, RecordAppended
<1>5. OfEpisode' = OfEpisode \cup {n + 1} /\ OfEpisode \subseteq 1 .. n
  BY <1>1, <1>2, RecordAppended
<1>6. /\ trace' \in Seq(Records) /\ DOMAIN trace' = 1 .. n + 1 /\ Len(trace') = n + 1
      /\ \A i \in 1 .. n : trace'[i] = trace[i]
      /\ trace'[n + 1] = new
  BY <1>1, <1>2, RecordAppended
<1>7. /\ new.episode = recorder.episode /\ new.globalStep = recorder.globalStep + 1
      /\ new.before = recorder.prevPage /\ new.after = after /\ new.executed = executed
  BY DEF NewRecord
<1> HIDE DEF n, new
<1>8. cursor \in Nat /\ retries \in 0 .. MaxRetries /\ misses \subseteq 1 .. cursor
      /\ envSteps \in Nat /\ script \in Int
  BY DEF IInv, TypeOK
<1>9. \/ executed = 0 /\ UNCHANGED <<cursor, misses>>
      \/ /\ cursor + 1 <= Length /\ cursor' = cursor + 1
         /\ \/ executed = 0 /\ misses' = misses \cup {cursor + 1}
            \/ executed = cursor + 1 /\ misses' = misses
  BY <1>1, <1>3, <1>8 DEF Act, SkipOrRetry, Finished, Idle
<1>10. TypeOK'
  <2>1. retries' \in 0 .. MaxRetries
    <3>1. Act(matches, executed) /\ MaxRetries \in Nat
      BY <1>1, CaptureAssumption
    <3>2. retries' \in {0, retries} \/ (retries' = retries + 1 /\ retries + 1 <= MaxRetries)
      BY <1>8, <3>1 DEF Act, SkipOrRetry
    <3>. QED
      BY <1>8, <3>1, <3>2
  <2>2. cursor' \in Nat /\ misses' \subseteq 1 .. cursor'
    <3>1. CASE UNCHANGED <<cursor, misses>>
      BY <1>8, <3>1
    <3>2. CASE cursor' = cursor + 1 /\ misses' \subseteq misses \cup {cursor + 1}
      <4>1. 1 .. cursor + 1 = (1 .. cursor) \cup {cursor + 1}
        BY <1>8
      <4>. QED
        BY <1>8, <3>2, <4>1
    <3>. QED
      BY <1>9, <3>1, <3>2
  <2>3. report'.steps \in Nat /\ report'.counts \in [Triggers -> Nat]
    BY <1>1 DEF Count, IInv, TypeOK
  <2>4. phase' \in {"reset", "rollout", "report", "done"} /\ page' \in Pages
        /\ envSteps' \in Nat
    BY <1>1, <1>8
  <2>. QED
    BY <1>2, <1>4, <1>6, <2>1, <2>2, <2>3, <2>4 DEF IInv, TypeOK, Recorders, Records
<1>11. RecorderCounts'
  <2>1. /\ recorder.globalStep = n /\ recorder.step <= n
        /\ recorder.step \in Nat /\ recorder.globalStep \in Nat
        /\ \A i \in 1 .. n :
             /\ trace[i].globalStep = i
             /\ trace[i].episode <= recorder.episode
             /\ trace[i].episode = recorder.episode <=> i > n - recorder.step
    BY DEF IInv, RecorderCounts, Recorders, n
  <2>2. recorder.episode \in Nat /\ new.globalStep = n + 1
    BY <1>7, <2>1 DEF Recorders
  <2>3. ASSUME NEW i \in 1 .. n + 1
        PROVE  /\ trace'[i].globalStep = i /\ trace'[i].episode <= recorder.episode
               /\ trace'[i].episode = recorder.episode <=> i > n - recorder.step
    <3>1. CASE i \in 1 .. n
      <4>1. trace'[i] = trace[i]
        BY <1>6, <3>1
      <4>2. /\ trace[i].globalStep = i /\ trace[i].episode <= recorder.episode
            /\ trace[i].episode = recorder.episode <=> i > n - recorder.step
        BY <2>1, <3>1
      <4>. QED
        BY <4>1, <4>2
    <3>2. CASE i = n + 1
      BY <1>6, <1>7, <2>1, <2>2, <3>2
    <3>. QED
      BY <3>1, <3>2
  <2>. QED
    BY <1>4, <1>6, <2>1, <2>3 DEF RecorderCounts
<1>12. PreviousIsLast'
  BY <1>4, <1>6, <1>7 DEF PreviousIsLast
<1>13. ScriptsInOrder'
  <2>1. LabelEnd' = LabelEnd
    BY <1>2 DEF LabelEnd
  <2>2. \A e \in DOMAIN labels : labels[e].last \in Nat
    BY Types DEF IInv
  <2>3. recorder.step \in Nat /\ recorder.globalStep \in Nat
    BY DEF Recorders
  <2>4. /\ script <= Len(Scripts) /\ recorder.episode = script /\ Len(labels) = script - 1
        /\ LabelEnd = recorder.globalStep - recorder.step
        /\ \A e \in DOMAIN labels : labels[e].last <= recorder.globalStep
    BY <1>2 DEF IInv, ScriptsInOrder
  <2>5. \A e \in DOMAIN labels : labels[e].last <= recorder'.globalStep
    BY <1>4, <2>2, <2>3, <2>4
  <2>6. LabelEnd' = recorder'.globalStep - recorder'.step
    BY <1>4, <2>1, <2>3, <2>4
  <2>. QED
    BY <1>2, <1>4, <2>4, <2>5, <2>6 DEF ScriptsInOrder
<1>14. TraceIsChained'
  <2>1. TraceIsChained /\ PreviousIsLast
    BY DEF IInv
  <2>2. ASSUME NEW i \in 2 .. n + 1, trace'[i].episode = trace'[i - 1].episode
        PROVE  trace'[i].before = trace'[i - 1].after
    <3>1. CASE i \in 2 .. n
      <4>1. i \in 1 .. n /\ i - 1 \in 1 .. n
        BY <3>1
      <4>2. trace'[i] = trace[i] /\ trace'[i - 1] = trace[i - 1]
        BY <1>6, <4>1
      <4>3. trace[i].episode = trace[i - 1].episode
              => trace[i].before = trace[i - 1].after
        BY <2>1, <3>1 DEF TraceIsChained, n
      <4>. QED
        BY <2>2, <4>2, <4>3
    <3>2. CASE i = n + 1
      <4>1. i - 1 = n /\ n \in 1 .. n
        BY <3>2
      <4>2. trace'[n] = trace[n] /\ trace'[i] = new
        BY <1>6, <3>2, <4>1
      <4>3. trace[n].episode = recorder.episode
        BY <1>7, <2>2, <4>1, <4>2
      <4>4. trace[n].after = recorder.prevPage
        BY <2>1, <4>1, <4>3 DEF PreviousIsLast, n
      <4>. QED
        BY <1>7, <4>1, <4>2, <4>4
    <3>. QED
      BY <3>1, <3>2
  <2>. QED
    BY <1>1, <1>4, <1>6, <2>2 DEF TraceIsChained
<1>15. LabelsCoverTrace'
  <2>1. \A e \in DOMAIN labels : e < recorder.episode /\ labels[e].last <= n
                                   /\ labels[e].first \in Nat /\ labels[e].last \in Nat
    <3>1. /\ Len(labels) \in Nat /\ DOMAIN labels = 1 .. Len(labels)
          /\ \A e \in DOMAIN labels : labels[e].first \in Nat /\ labels[e].last \in Nat
      BY Types DEF IInv
    <3>2. /\ recorder.episode = script /\ Len(labels) = script - 1
          /\ \A e \in DOMAIN labels : labels[e].last <= n
      BY <1>2 DEF IInv, ScriptsInOrder, RecorderCounts, n
    <3>. QED
      BY <1>8, <3>1, <3>2
  <2>2. new.globalStep = n + 1
    BY <1>7 DEF IInv, RecorderCounts, n
  <2>3. ASSUME NEW e \in DOMAIN labels, NEW i \in 1 .. n + 1
        PROVE  trace'[i].episode = e
                 <=> trace'[i].globalStep \in labels[e].first .. labels[e].last
    <3>1. CASE i \in 1 .. n
      BY <1>6, <3>1 DEF IInv, LabelsCoverTrace
    <3>2. CASE i = n + 1
      <4>1. trace'[i] = new
        BY <1>6, <3>2
      <4>2. /\ e < recorder.episode /\ labels[e].last <= n
            /\ labels[e].first \in Nat /\ labels[e].last \in Nat
        BY <2>1
      <4>3. e \in Nat /\ recorder.episode \in Nat
        BY Types DEF IInv, Recorders
      <4>4. trace'[i].episode # e
        BY <1>7, <4>1, <4>2, <4>3
      <4>5. trace'[i].globalStep \notin labels[e].first .. labels[e].last
        BY <2>2, <4>1, <4>2, BeyondLast
      <4>. QED
        BY <4>4, <4>5
    <3>. QED
      BY <3>1, <3>2
  <2>4. \A e \in DOMAIN labels :
          labels[e].first = (IF e = 1 THEN 1 ELSE labels[e - 1].last + 1)
    BY DEF IInv, LabelsCoverTrace
  <2>. QED
    BY <1>2, <1>6, <2>3, <2>4 DEF LabelsCoverTrace
<1>16. CursorInScript'
  BY <1>2, <1>3, <1>8, <1>9 DEF IInv, CursorInScript
<1>17. StepsDone'
  <2>2. Executed' = Executed \cup ({executed} \ {0})
    BY <1>5, <1>6, <1>7 DEF Executed, Idle
  <2>3. /\ Executed \cap misses = {} /\ Executed \cup misses = 1 .. cursor
        /\ \A i, j \in OfEpisode :
             trace[i].executed = trace[j].executed /\ trace[i].executed # 0 => i = j
    BY <1>2 DEF IInv, StepsDone, Idle
  <2>4. Executed' \cap misses' = {} /\ Executed' \cup misses' = 1 .. cursor'
    BY <1>8, <1>9, <2>2, <2>3
  <2>5. \A i \in OfEpisode : trace[i].executed # 0 => trace[i].executed \in 1 .. cursor
    BY <2>3 DEF Executed, Idle
  <2>6. \A i \in OfEpisode : trace[i].executed # 0 => trace[i].executed # executed
    BY <1>8, <1>9, <2>5
  <2>7. \A i, j \in OfEpisode' :
          trace'[i].executed = trace'[j].executed /\ trace'[i].executed # 0 => i = j
    BY <1>5, <1>6, <1>7, <2>3, <2>6
  <2>. QED
    BY <2>4, <2>7 DEF StepsDone, Idle
<1>18. FirstIsFirst'
  BY <1>2, <1>4 DEF IInv, FirstIsFirst, Recorders
<1>. QED
  BY <1>10, <1>11, <1>12, <1>13, <1>14, <1>15, <1>16, <1>17, <1>18 DEF IInv

\* A label covers the records of the episode just captured.
LEMMA ReportPreserves ==
  ASSUME IInv, Report
  PROVE  IInv'
<1> DEFINE new == [first |-> first, last |-> recorder.globalStep]
           k   == Len(labels)
<1>1. /\ Capturing /\ ~Capturing' /\ phase # "done" /\ script' = script + 1
      /\ labels' = Append(labels, new)
      /\ phase' = IF script = Len(Scripts) THEN "done" ELSE "reset"
      /\ UNCHANGED <<cursor, retries, misses, first, envSteps, recorder, trace, page, report>>
  BY DEF Report, Capturing
<1>2. /\ recorder \in Recorders /\ Len(trace) \in Nat /\ DOMAIN trace = 1 .. Len(trace)
      /\ \A i \in DOMAIN trace : trace[i] \in Records
      /\ k \in Nat /\ DOMAIN labels = 1 .. k
      /\ \A e \in DOMAIN labels : labels[e].first \in Nat /\ labels[e].last \in Nat
  BY Types DEF IInv
<1>3. /\ recorder.step \in Nat /\ recorder.globalStep = Len(trace)
      /\ recorder.step <= recorder.globalStep
  BY <1>2 DEF IInv, RecorderCounts, Recorders
<1>4. /\ new \in [first : Nat, last : Nat] /\ new.last = Len(trace)
      /\ new.first = Len(trace) - recorder.step + 1
  BY <1>1, <1>2, <1>3 DEF IInv, FirstIsFirst
<1> HIDE DEF new
<1>5. labels \in Seq([first : Nat, last : Nat])
  BY DEF IInv, TypeOK
<1>6. /\ labels' \in Seq([first : Nat, last : Nat])
      /\ Len(labels') = k + 1 /\ DOMAIN labels' = 1 .. k + 1
      /\ \A e \in 1 .. k : labels'[e] = labels[e]
      /\ labels'[k + 1] = new
  BY <1>1, <1>4, <1>5
<1> HIDE DEF k
<1>7. /\ script \in Nat /\ Len(Scripts) \in Nat /\ script <= Len(Scripts)
      /\ recorder.episode = script /\ k = script - 1
      /\ LabelEnd = Len(trace) - recorder.step
      /\ \A e \in 1 .. k : labels[e].last <= Len(trace)
  <2>1. Len(Scripts) \in Nat
    BY CaptureAssumption
  <2>2. script \in 1 .. Len(Scripts) + 1
    BY DEF IInv, TypeOK
  <2>. QED
    BY <1>1, <1>2, <1>3, <2>1, <2>2 DEF IInv, ScriptsInOrder, k
<1>8. TypeOK'
  <2>1. fidelity' \in Seq([steps : Nat, matched : Int, missed : SUBSET Nat])
    <3>1. Length \in Nat /\ cursor \in Nat /\ misses \subseteq 1 .. cursor
          /\ fidelity \in Seq([steps : Nat, matched : Int, missed : SUBSET Nat])
      BY <1>1, LengthIsNat DEF IInv, TypeOK
    <3>2. Cardinality(misses) \in Nat
      <4>1. IsFiniteSet(1 .. cursor)
        BY <3>1, FS_Interval
      <4>2. IsFiniteSet(misses)
        BY <3>1, <4>1, FS_Subset
      <4>. QED
        BY <4>2, FS_CardinalityType
    <3>3. CompletedSteps \in Int
      BY <3>1, <3>2 DEF CompletedSteps
    <3>4. misses \in SUBSET Nat
      BY <3>1
    <3>5. fidelity' = Append(fidelity, [steps |-> Length, matched |-> CompletedSteps,
                                        missed |-> misses])
      BY DEF Report
    <3>. QED
      BY <3>1, <3>3, <3>4, <3>5
  <2>2. script' \in 1 .. Len(Scripts) + 1 /\ phase' \in {"reset", "rollout", "report", "done"}
    BY <1>1, <1>7
  <2>. QED
    BY <1>1, <1>6, <2>1, <2>2 DEF IInv, TypeOK
<1>9. RecorderCounts' /\ PreviousIsLast'
  BY <1>1 DEF IInv, RecorderCounts, PreviousIsLast
<1>10. ScriptsInOrder'
  <2>1. LabelEnd' = Len(trace)
    <3>1. labels' # <<>>
      BY <1>2, <1>6 DEF k
    <3>. QED
      BY <1>4, <1>6, <3>1 DEF LabelEnd
  <2>2. \A e \in DOMAIN labels' : labels'[e].last <= Len(trace)
    BY <1>2, <1>4, <1>6, <1>7
  <2>3. phase' # "done" => script' <= Len(Scripts)
    BY <1>1, <1>7
  <2>. QED
    BY <1>1, <1>3, <1>6, <1>7, <2>1, <2>2, <2>3 DEF ScriptsInOrder
<1>11. TraceIsChained'
  BY <1>1 DEF IInv, TraceIsChained, Capturing
<1>12. LabelsCoverTrace'
  <2>1. \A i \in 1 .. Len(trace) :
          /\ trace[i].globalStep = i
          /\ trace[i].episode = script <=> i > Len(trace) - recorder.step
    BY <1>2, <1>3, <1>7 DEF IInv, RecorderCounts
  <2>2. ASSUME NEW e \in 1 .. k + 1
        PROVE  /\ labels'[e].first = (IF e = 1 THEN 1 ELSE labels'[e - 1].last + 1)
               /\ \A i \in DOMAIN trace :
                    trace[i].episode = e
                      <=> trace[i].globalStep \in labels'[e].first .. labels'[e].last
    <3>1. CASE e \in 1 .. k
      <4>1. e # 1 => e - 1 \in 1 .. k
        BY <1>2, <3>1 DEF k
      <4>. QED
        BY <1>2, <1>6, <3>1, <4>1 DEF IInv, LabelsCoverTrace
    <3>2. CASE e = k + 1
      <4>1. labels'[e].first = (IF e = 1 THEN 1 ELSE labels'[e - 1].last + 1)
        <5>1. CASE k = 0
          BY <1>3, <1>4, <1>6, <1>7, <3>2, <5>1, <1>2 DEF LabelEnd, k
        <5>2. CASE k # 0
          <6>1. labels # <<>> /\ k \in 1 .. k /\ LabelEnd = labels[k].last
            BY <1>2, <5>2 DEF LabelEnd, k
          <6>. QED
            BY <1>2, <1>3, <1>4, <1>6, <1>7, <3>2, <5>2, <6>1
        <5>. QED
          BY <5>1, <5>2
      <4>2. \A i \in 1 .. Len(trace) :
              trace[i].episode = e <=> trace[i].globalStep \in new.first .. new.last
        BY <1>2, <1>3, <1>4, <1>7, <2>1, <3>2
      <4>. QED
        BY <1>2, <1>6, <3>2, <4>1, <4>2
    <3>. QED
      BY <1>2, <3>1, <3>2 DEF k
  <2>. QED
    BY <1>1, <1>6, <2>2 DEF LabelsCoverTrace
<1>13. CursorInScript' /\ StepsDone' /\ FirstIsFirst'
  BY <1>1 DEF CursorInScript, StepsDone, FirstIsFirst
<1>. QED
  BY <1>8, <1>9, <1>10, <1>11, <1>12, <1>13 DEF IInv

LEMMA StutterPreserves ==
  ASSUME IInv, UNCHANGED vars
  PROVE  IInv'
<1>1. RecorderCounts' /\ PreviousIsLast' /\ ScriptsInOrder'
  BY DEF vars, IInv, RecorderCounts, PreviousIsLast, ScriptsInOrder, LabelEnd, Capturing
<1>2. TypeOK' /\ TraceIsChained' /\ LabelsCoverTrace'
  BY DEF vars, IInv, TypeOK, TraceIsChained, LabelsCoverTrace
<1>3. CursorInScript' /\ StepsDone' /\ FirstIsFirst'
  BY DEF vars, IInv, CursorInScript, StepsDone, FirstIsFirst, Executed, OfEpisode, Length,
         Capturing
<1>. QED
  BY <1>1, <1>2, <1>3 DEF IInv

-----------------------------------------------------------------------------
(* The rollout's report, on top of IInv.                                   *)

\* The findings a record shows, and the records of the episode that show one.
ShownBy(r) == KeysOf(r.executed, r.after, r.fired)
Showing(k) == {i \in OfEpisode : k \in ShownBy(trace[i])}
Firing(t) == {i \in OfEpisode : t \in trace[i].fired}
Seen == {f.key : f \in report.findings}

Keys == [trigger : Triggers, url : Pages, element : Nat]
Findings == [key : Keys, first : Nat, times : Nat]

\* A finding is right: seen as often as the records show it, first by the record
\* with its step.
Right(f) ==
  /\ f.times = Cardinality(Showing(f.key))
  /\ \E i \in Showing(f.key) :
       /\ f.first = trace[i].step
       /\ \A k \in Showing(f.key) : trace[i].step <= trace[k].step

\* The report and the recorder count the same steps, and ReportMatchesTrace.
ReportIsRight ==
  Capturing =>
    /\ report.steps = recorder.step
    /\ report.steps = Cardinality(OfEpisode)
    /\ IsFiniteSet(OfEpisode)
    /\ \A i \in OfEpisode : trace[i].step \in Nat /\ trace[i].step <= recorder.step
    /\ \A t \in Triggers : report.counts[t] = Cardinality(Firing(t))
    /\ report.findings \subseteq Findings
    /\ \A k : k \in Seen <=> \E i \in OfEpisode : k \in ShownBy(trace[i])
    /\ \A f \in report.findings : Right(f)

\* A new episode has an empty report, and no record to show.
LEMMA BeginEpisodeReports ==
  ASSUME IInv, BeginEpisode
  PROVE  ReportIsRight'
<1>2. phase' = "rollout" /\ recorder'.step = 0
      /\ report' = [steps |-> 0, counts |-> [t \in Triggers |-> 0], findings |-> {}]
  <2>1. PICK landing \in Pages : OnReset(landing)
    BY DEF BeginEpisode
  <2>2. recorder \in Recorders
    BY Types DEF IInv
  <2>. QED
    BY <2>1, <2>2 DEF BeginEpisode, EmptyReport, OnReset, Recorders
<1>3. OfEpisode' = {}
  <2>1. /\ recorder \in Recorders
        /\ \A i \in DOMAIN trace : trace[i] \in Records /\ trace[i].episode <= recorder.episode
    BY Types DEF IInv, RecorderCounts
  <2>2. recorder'.episode = recorder.episode + 1 /\ trace' = trace
    BY <2>1 DEF BeginEpisode, OnReset, Recorders
  <2>3. \A i \in DOMAIN trace : trace[i].episode # recorder.episode + 1
    BY <2>1 DEF Recorders, Records
  <2>. QED
    BY <2>2, <2>3 DEF OfEpisode
<1>4. IsFiniteSet({}) /\ Cardinality({}) = 0
  BY FS_EmptySet
<1>5. \A t \in Triggers : Firing(t)' = {}
  BY <1>3 DEF Firing
<1>6. Seen' = {}
  BY <1>2 DEF Seen
<1>. QED
  BY <1>2, <1>3, <1>4, <1>5, <1>6 DEF ReportIsRight

\* A turn adds one record: what it shows is counted once more, or found.
LEMMA TurnReports ==
  ASSUME IInv, ReportIsRight, Turn
  PROVE  ReportIsRight'
<1>1. PICK executed \in 0 .. Length, after \in Pages, fired \in SUBSET Triggers :
        OnStep(executed, after, fired) /\ Count(executed, after, fired)
  BY DEF Turn
<1> DEFINE n    == Len(trace)
           new  == NewRecord(executed, after, fired)
           keys == KeysOf(executed, after, fired)
<1>2. Capturing /\ phase # "done" /\ executed \in Nat /\ n \in Nat
      /\ recorder.step \in Nat
  <2>1. Capturing /\ phase # "done"
    BY DEF Turn, Capturing
  <2>. QED
    BY <2>1, LengthIsNat, Types DEF IInv, Recorders
<1>3. /\ recorder'.step = recorder.step + 1
      /\ \A i \in 1 .. n : trace'[i] = trace[i]
      /\ trace'[n + 1] = new
      /\ OfEpisode' = OfEpisode \cup {n + 1}
      /\ OfEpisode \subseteq 1 .. n
  BY <1>1, <1>2, RecordAppended
<1>4. /\ new.step = recorder.step + 1 /\ new.fired = fired
      /\ new.executed = executed /\ new.after = after
  BY DEF NewRecord
<1> HIDE DEF new
<1>5. n + 1 \notin OfEpisode /\ n + 1 \in OfEpisode'
  BY <1>2, <1>3
<1>6. (\A i \in OfEpisode : trace'[i] = trace[i]) /\ ShownBy(trace'[n + 1]) = keys
  BY <1>3, <1>4 DEF ShownBy
<1>7. keys \subseteq Keys
  BY <1>2 DEF KeysOf, Keys
<1> HIDE DEF n, keys
<1>8. /\ report.steps = recorder.step /\ report.steps = Cardinality(OfEpisode)
      /\ IsFiniteSet(OfEpisode)
      /\ \A i \in OfEpisode : trace[i].step \in Nat /\ trace[i].step <= recorder.step
      /\ \A t \in Triggers : report.counts[t] = Cardinality(Firing(t))
      /\ report.findings \subseteq Findings
      /\ \A k : k \in Seen <=> \E i \in OfEpisode : k \in ShownBy(trace[i])
      /\ \A f \in report.findings : Right(f)
  BY <1>2 DEF ReportIsRight
<1>9. /\ report'.steps = report.steps + 1
      /\ report'.counts = [t \in Triggers |->
                             report.counts[t] + IF t \in fired THEN 1 ELSE 0]
      /\ report'.findings = RecordFindings(report.steps + 1, keys, report.findings)
  BY <1>1 DEF Count, keys
<1>10. /\ IsFiniteSet(OfEpisode') /\ Cardinality(OfEpisode') = report.steps + 1
       /\ \A i \in OfEpisode' : trace'[i].step \in Nat /\ trace'[i].step <= recorder'.step
  <2>1. IsFiniteSet(OfEpisode') /\ Cardinality(OfEpisode') = report.steps + 1
    BY <1>3, <1>5, <1>8, FS_AddElement
  <2>2. ASSUME NEW i \in OfEpisode'
        PROVE  trace'[i].step \in Nat /\ trace'[i].step <= recorder'.step
    <3>1. CASE i \in OfEpisode
      BY <1>2, <1>3, <1>6, <1>8, <3>1
    <3>2. CASE i = n + 1
      BY <1>2, <1>3, <1>4, <3>2
    <3>. QED
      BY <1>3, <3>1, <3>2
  <2>. QED
    BY <2>1, <2>2
<1>11. ASSUME NEW t \in Triggers
       PROVE  report'.counts[t] = Cardinality(Firing(t)')
  <2>1. IsFiniteSet(Firing(t)) /\ n + 1 \notin Firing(t)
    BY <1>5, <1>8, FS_Subset DEF Firing
  <2>2. Firing(t)' = IF t \in fired THEN Firing(t) \cup {n + 1} ELSE Firing(t)
    BY <1>3, <1>4, <1>5, <1>6 DEF Firing
  <2>3. Cardinality(Firing(t)) \in Nat
    BY <2>1, FS_CardinalityType
  <2>4. report'.counts[t] = Cardinality(Firing(t)) + IF t \in fired THEN 1 ELSE 0
    BY <1>8, <1>9
  <2>5. CASE t \in fired
    BY <2>1, <2>2, <2>3, <2>4, <2>5, FS_AddElement
  <2>6. CASE t \notin fired
    BY <2>2, <2>3, <2>4, <2>6
  <2>. QED
    BY <2>5, <2>6
<1>12. ASSUME NEW k
       PROVE  /\ IsFiniteSet(Showing(k)) /\ n + 1 \notin Showing(k)
              /\ Showing(k)' = IF k \in keys THEN Showing(k) \cup {n + 1} ELSE Showing(k)
  <2>1. IsFiniteSet(Showing(k)) /\ n + 1 \notin Showing(k)
    BY <1>5, <1>8, FS_Subset DEF Showing
  <2>2. Showing(k)' = IF k \in keys THEN Showing(k) \cup {n + 1} ELSE Showing(k)
    BY <1>3, <1>5, <1>6 DEF Showing
  <2>. QED
    BY <2>1, <2>2
<1> DEFINE Again(f) == [f EXCEPT !.times = IF f.key \in keys THEN @ + 1 ELSE @]
           First(k) == [key |-> k, first |-> report.steps + 1, times |-> 1]
<1>13. report'.findings = {Again(f) : f \in report.findings}
                            \cup {First(k) : k \in keys \ Seen}
  BY <1>9 DEF RecordFindings, Seen
<1>14. ASSUME NEW f \in report.findings
       PROVE  /\ Again(f) \in Findings /\ Again(f).key = f.key
              /\ Again(f).first = f.first
              /\ Again(f).times = IF f.key \in keys THEN f.times + 1 ELSE f.times
  <2>1. f \in Findings
    BY <1>8
  <2>. QED
    BY <2>1 DEF Findings
<1>15. ASSUME NEW k \in keys
       PROVE  /\ First(k) \in Findings /\ First(k).key = k
              /\ First(k).first = recorder.step + 1 /\ First(k).times = 1
  BY <1>2, <1>7, <1>8 DEF Findings
<1> HIDE DEF Again, First
<1>16. report'.findings \subseteq Findings
  BY <1>13, <1>14, <1>15
<1>17. \A k : k \in Seen' <=> \E i \in OfEpisode' : k \in ShownBy(trace'[i])
  <2>1. Seen' = Seen \cup keys
    BY <1>13, <1>14, <1>15 DEF Seen
  <2>. QED
    BY <1>3, <1>6, <1>8, <2>1
<1>18. ASSUME NEW g, NEW f \in report.findings, g = Again(f)
       PROVE  Right(g)'
  <2>1. /\ Right(f) /\ g.key = f.key /\ g.first = f.first
        /\ g.times = IF f.key \in keys THEN f.times + 1 ELSE f.times
    BY <1>8, <1>14, <1>18
  <2>2. PICK i \in Showing(f.key) :
          /\ f.first = trace[i].step
          /\ \A j \in Showing(f.key) : trace[i].step <= trace[j].step
    BY <2>1 DEF Right
  <2>3. Showing(f.key) \subseteq OfEpisode
    BY DEF Showing
  <2>4. /\ i \in Showing(f.key)' /\ trace'[i].step = f.first
        /\ f.first \in Nat /\ f.first <= recorder.step
    BY <1>6, <1>8, <1>12, <2>2, <2>3
  <2>5. ASSUME NEW j \in Showing(f.key)' PROVE trace'[i].step <= trace'[j].step
    <3>1. CASE j \in Showing(f.key)
      BY <1>6, <2>2, <2>3, <3>1
    <3>2. CASE j = n + 1
      <4>1. trace'[j].step = recorder.step + 1
        BY <1>3, <1>4, <3>2
      <4>. QED
        BY <1>2, <2>4, <4>1
    <3>. QED
      BY <1>12, <3>1, <3>2
  <2>6. g.times = Cardinality(Showing(f.key)')
    <3>1. f.times = Cardinality(Showing(f.key)) /\ Cardinality(Showing(f.key)) \in Nat
      BY <1>12, <2>1, FS_CardinalityType DEF Right
    <3>2. CASE f.key \in keys
      <4>1. /\ IsFiniteSet(Showing(f.key)) /\ n + 1 \notin Showing(f.key)
            /\ Showing(f.key)' = Showing(f.key) \cup {n + 1}
        BY <1>12, <3>2
      <4>2. Cardinality(Showing(f.key) \cup {n + 1}) = Cardinality(Showing(f.key)) + 1
        BY <4>1, FS_AddElement
      <4>. QED
        BY <2>1, <3>1, <3>2, <4>1, <4>2
    <3>3. CASE f.key \notin keys
      BY <1>12, <2>1, <3>1, <3>3
    <3>. QED
      BY <3>2, <3>3
  <2>. QED
    BY <2>1, <2>4, <2>5, <2>6 DEF Right
<1>19. ASSUME NEW g, NEW k \in keys \ Seen, g = First(k)
       PROVE  Right(g)'
  <2>1. Showing(k) = {}
    BY <1>8 DEF Showing
  <2>2. Showing(k)' = {n + 1}
    BY <1>12, <2>1
  <2>3. g.key = k /\ g.first = recorder.step + 1 /\ g.times = 1
    BY <1>15, <1>19
  <2>4. trace'[n + 1].step = recorder.step + 1 /\ recorder.step + 1 \in Nat
    BY <1>2, <1>3, <1>4
  <2>5. g.times = Cardinality(Showing(k)')
    BY <2>2, <2>3, FS_Singleton
  <2>6. n + 1 \in Showing(k)' /\ \A j \in Showing(k)' : trace'[n + 1].step <= trace'[j].step
    BY <2>2, <2>4
  <2>. QED
    BY <2>3, <2>4, <2>5, <2>6 DEF Right
<1>20. ASSUME NEW f \in report'.findings
       PROVE  Right(f)'
  <2>1. CASE \E g \in report.findings : f = Again(g)
    BY <1>18, <2>1
  <2>2. CASE \E k \in keys \ Seen : f = First(k)
    BY <1>19, <2>2
  <2>. QED
    BY <1>13, <2>1, <2>2
<1>. QED
  BY <1>3, <1>8, <1>9, <1>10, <1>11, <1>16, <1>17, <1>20 DEF ReportIsRight

-----------------------------------------------------------------------------
(* The theorems.                                                           *)

\* The strengthening holds in every behaviour of capture_scripted.
THEOREM InductiveInvariant == Spec => []IInv
<1>1. IInv /\ [Next]_vars => IInv'
  BY BeginEpisodePreserves, TurnPreserves, ReportPreserves, StutterPreserves DEF Next
<1>. QED
  BY InitEstablishes, <1>1, PTL DEF Spec

\* TypeOK: the policy never retries a step more often than it may, and gives up
\* only on steps behind its cursor.
THEOREM TypeCorrect == Spec => []TypeOK
<1>1. IInv => TypeOK
  BY DEF IInv
<1>. QED
  BY InductiveInvariant, <1>1, PTL

\* TraceIsChained: every transition in the trace starts on the page the last one
\* of its episode ended on (TraceRecorder.on_reset, on_step).
THEOREM ChainedTrace == Spec => []TraceIsChained
<1>1. IInv => TraceIsChained
  BY DEF IInv
<1>. QED
  BY InductiveInvariant, <1>1, PTL

\* LabelsCoverTrace: the labels cut the trace into the scripts' episodes, without
\* gap or overlap (capture_scripted, episode_labels).
THEOREM LabelsCutTrace == Spec => []LabelsCoverTrace
<1>1. IInv => LabelsCoverTrace
  BY DEF IInv
<1>. QED
  BY InductiveInvariant, <1>1, PTL

\* EveryStepAccountedFor: every step of a script behind the cursor was executed
\* once or missed, and "matched" counts the executed ones (ScriptedPolicy.act,
\* completed_steps).
THEOREM StepsAccountedFor == Spec => []EveryStepAccountedFor
<1>1. ASSUME IInv PROVE EveryStepAccountedFor
  <2>. SUFFICES ASSUME Capturing PROVE
         /\ Executed \cap misses = {}
         /\ Executed \cup misses = 1 .. cursor
         /\ \A s \in Executed : Cardinality({i \in OfEpisode : trace[i].executed = s}) = 1
         /\ CompletedSteps = Cardinality(Executed)
    BY DEF EveryStepAccountedFor, Executed, Capturing
  <2>1. /\ Executed \cap misses = {} /\ Executed \cup misses = 1 .. cursor
        /\ \A i, j \in OfEpisode :
             trace[i].executed = trace[j].executed /\ trace[i].executed # 0 => i = j
    BY <1>1 DEF IInv, StepsDone, Idle
  <2>2. ASSUME NEW s \in Executed
        PROVE  Cardinality({i \in OfEpisode : trace[i].executed = s}) = 1
    <3>1. PICK i \in OfEpisode : trace[i].executed = s /\ s # 0
      BY DEF Executed, Idle
    <3>2. {j \in OfEpisode : trace[j].executed = s} = {i}
      BY <2>1, <3>1
    <3>. QED
      BY <3>2, FS_Singleton
  <2>3. CompletedSteps = Cardinality(Executed)
    <3>1. Length \in Nat /\ cursor \in Nat /\ cursor <= Length
      BY <1>1, LengthIsNat DEF IInv, TypeOK, CursorInScript, Capturing
    <3>2. IsFiniteSet(1 .. cursor) /\ Cardinality(1 .. cursor) = cursor
      BY <3>1, FS_Interval
    <3>3. IsFiniteSet(Executed) /\ IsFiniteSet(misses)
      BY <2>1, <3>2, FS_Subset
    <3>4. Cardinality(Executed) \in Nat /\ Cardinality(misses) \in Nat
      BY <3>3, FS_CardinalityType
    <3>5. cursor = Cardinality(Executed) + Cardinality(misses) - Cardinality(Executed \cap misses)
      BY <2>1, <3>2, <3>3, FS_Union
    <3>6. Cardinality(Executed \cap misses) = 0
      BY <2>1, FS_EmptySet
    <3>. QED
      BY <3>1, <3>4, <3>5, <3>6 DEF CompletedSteps, Finished
  <2>. QED
    BY <2>1, <2>2, <2>3
<1>. QED
  BY InductiveInvariant, <1>1, PTL

\* ReportMatchesTrace: the rollout's report has one finding for each trigger, URL
\* and element its records show, with its first step and its count
\* (run_rollout, _record_findings).
THEOREM ReportIsOfTrace == Spec => []ReportMatchesTrace
<1>1. Init => ReportIsRight
  BY DEF Init, ReportIsRight, Capturing
<1>2. ASSUME IInv, ReportIsRight, [Next]_vars
      PROVE  ReportIsRight'
  <2>1. CASE BeginEpisode
    BY <1>2, <2>1, BeginEpisodeReports
  <2>2. CASE Turn
    BY <1>2, <2>2, TurnReports
  <2>3. CASE Report
    BY <1>2, <2>3 DEF Report, ReportIsRight, Capturing
  <2>4. CASE UNCHANGED vars
    BY <1>2, <2>4 DEF vars, ReportIsRight, Capturing, Right, Showing, Firing, Seen, OfEpisode
  <2>. QED
    BY <1>2, <2>1, <2>2, <2>3, <2>4 DEF Next
<1>3. ASSUME ReportIsRight, IInv PROVE ReportMatchesTrace
  <2>. SUFFICES ASSUME Capturing PROVE
         /\ report.steps = Cardinality(OfEpisode)
         /\ \A t \in Triggers :
              report.counts[t] = Cardinality({i \in OfEpisode : t \in trace[i].fired})
         /\ Seen = UNION {ShownBy(trace[i]) : i \in OfEpisode}
         /\ \A f \in report.findings : Right(f)
    BY DEF ReportMatchesTrace, Capturing, Seen, ShownBy, Showing, Right
  <2>1. \A k : k \in Seen <=> \E i \in OfEpisode : k \in ShownBy(trace[i])
    BY <1>3 DEF ReportIsRight
  <2>2. Seen = UNION {ShownBy(trace[i]) : i \in OfEpisode}
    BY <2>1
  <2>. QED
    BY <1>3, <2>2 DEF ReportIsRight, Firing
<1>. QED
  BY InductiveInvariant, <1>1, <1>2, <1>3, PTL DEF Spec

-----------------------------------------------------------------------------
(* How long a capture can be. CaptureEnds needs fairness, which is left to *)
(* the runs; what makes it true is a variant that every step uses up.      *)

\* What is left: scripts, then phases of a script, then turns of a rollout.
ScriptsLeft == Len(Scripts) + 1 - script

PhasesLeft ==
  CASE phase = "reset" -> 3
    [] phase = "rollout" -> 2
    [] phase = "report" -> 1
    [] OTHER -> 0

TurnsLeft ==
  IF phase = "rollout" /\ envSteps < EpisodeLimit THEN EpisodeLimit - envSteps ELSE 0

\* Less is left than before, in the order of the three.
LessIsLeft ==
  \/ ScriptsLeft' < ScriptsLeft
  \/ ScriptsLeft' = ScriptsLeft /\ PhasesLeft' < PhasesLeft
  \/ /\ ScriptsLeft' = ScriptsLeft /\ PhasesLeft' = PhasesLeft
     /\ TurnsLeft' < TurnsLeft

\* The scripts reported so far have their fidelity, and none is left at the end.
FidelityKept ==
  /\ Len(fidelity) = script - 1
  /\ phase = "done" => script = Len(Scripts) + 1

\* A rollout is within the limit of its episode; the limit is looked at after a
\* step, so an empty script without retries has one.
EpisodeInLimit ==
  /\ phase = "rollout" => envSteps = 0 \/ envSteps < EpisodeLimit
  /\ phase = "report" => envSteps = 1 \/ envSteps <= EpisodeLimit

\* Whatever the pages show, however often steps are missed and whether episodes
\* are stranded or not: every step of a capture leaves less to do, no episode
\* has more steps than its script and its retries allow (one, if that is none),
\* and a capture that is done has reported every script (capture_scripted,
\* run_rollout).
THEOREM CaptureIsBounded ==
  Spec => /\ [](/\ ScriptsLeft \in Nat /\ TurnsLeft \in Nat
                /\ EpisodeInLimit
                /\ phase = "done" => Len(fidelity) = Len(Scripts))
          /\ [][LessIsLeft]_vars
<1>1. Init => FidelityKept /\ EpisodeInLimit
  <2> SUFFICES ASSUME Init PROVE FidelityKept /\ EpisodeInLimit
    OBVIOUS
  <2>1. Len(fidelity) = 0 /\ script = 1 /\ phase = "reset"
    BY DEF Init
  <2>. QED
    BY <2>1 DEF FidelityKept, EpisodeInLimit
<1>2. ASSUME IInv, FidelityKept, EpisodeInLimit, Next
      PROVE  FidelityKept' /\ EpisodeInLimit' /\ LessIsLeft
  <2>1. /\ script \in Nat /\ Len(Scripts) \in Nat /\ envSteps \in Nat
        /\ fidelity \in Seq([steps : Nat, matched : Int, missed : SUBSET Nat])
        /\ phase # "done" => script <= Len(Scripts)
    <3>1. Len(Scripts) \in Nat
      BY CaptureAssumption
    <3>2. TypeOK /\ ScriptsInOrder
      BY <1>2 DEF IInv
    <3>3. script \in 1 .. Len(Scripts) + 1 /\ envSteps \in Nat
          /\ fidelity \in Seq([steps : Nat, matched : Int, missed : SUBSET Nat])
      BY <3>2 DEF TypeOK
    <3>. QED
      BY <3>1, <3>2, <3>3 DEF ScriptsInOrder
  <2>2. CASE BeginEpisode
    <3>1. /\ phase = "reset" /\ phase' = "rollout" /\ envSteps' = 0
          /\ UNCHANGED <<script, fidelity>>
      BY <2>2 DEF BeginEpisode
    <3>2. ScriptsLeft' = ScriptsLeft /\ PhasesLeft' = 2 /\ PhasesLeft = 3
      BY <3>1 DEF ScriptsLeft, PhasesLeft
    <3>. QED
      BY <1>2, <3>1, <3>2 DEF FidelityKept, EpisodeInLimit, LessIsLeft
  <2>3. CASE Turn
    <3>1. /\ phase = "rollout" /\ phase' \in {"rollout", "report"}
          /\ envSteps' = envSteps + 1
          /\ phase' = "rollout" => ~(envSteps' >= EpisodeLimit)
          /\ UNCHANGED <<script, fidelity>>
      BY <2>3 DEF Turn
    <3>2. ScriptsLeft' = ScriptsLeft /\ PhasesLeft = 2 /\ PhasesLeft' \in {1, 2}
          /\ EpisodeLimit' = EpisodeLimit
          /\ (phase' = "report" => PhasesLeft' = 1)
      BY <3>1 DEF ScriptsLeft, PhasesLeft, EpisodeLimit, Length
    <3>3. EpisodeLimit \in Nat
      <4>1. Length \in Nat /\ MaxRetries \in Nat
        <5>1. phase # "done"
          BY <3>1
        <5>. QED
          BY <1>2, <5>1, LengthIsNat, CaptureAssumption
      <4>. QED
        BY <4>1 DEF EpisodeLimit
    <3>4. FidelityKept'
      BY <1>2, <3>1 DEF FidelityKept
    <3>. HIDE DEF EpisodeLimit
    <3>5. EpisodeInLimit'
      BY <1>2, <2>1, <3>1, <3>2, <3>3 DEF EpisodeInLimit
    <3>6. CASE phase' = "rollout"
      <4>1. TurnsLeft' < TurnsLeft
        BY <2>1, <3>1, <3>2, <3>3, <3>6 DEF TurnsLeft
      <4>2. PhasesLeft' = 2
        BY <3>6 DEF PhasesLeft
      <4>. QED
        BY <3>2, <3>4, <3>5, <4>1, <4>2 DEF LessIsLeft
    <3>. QED
      BY <3>1, <3>2, <3>4, <3>5, <3>6 DEF LessIsLeft
  <2>4. CASE Report
    <3>1. /\ phase = "report" /\ script' = script + 1
          /\ phase' = IF script = Len(Scripts) THEN "done" ELSE "reset"
      BY <2>4 DEF Report
    <3>2. PICK f : fidelity' = Append(fidelity, f)
      BY <2>4 DEF Report
    <3>3. Len(fidelity') = Len(fidelity) + 1
      BY <2>1, <3>2
    <3>4. ScriptsLeft' < ScriptsLeft
      BY <2>1, <3>1 DEF ScriptsLeft
    <3>. QED
      BY <1>2, <2>1, <3>1, <3>3, <3>4 DEF FidelityKept, EpisodeInLimit, LessIsLeft
  <2>. QED
    BY <1>2, <2>2, <2>3, <2>4 DEF Next
<1>3. ASSUME FidelityKept, EpisodeInLimit, UNCHANGED vars
      PROVE  FidelityKept' /\ EpisodeInLimit'
  BY <1>3 DEF vars, FidelityKept, EpisodeInLimit, EpisodeLimit, Length
<1>4. ASSUME IInv, FidelityKept, EpisodeInLimit
      PROVE  /\ ScriptsLeft \in Nat /\ TurnsLeft \in Nat
             /\ EpisodeInLimit
             /\ phase = "done" => Len(fidelity) = Len(Scripts)
  <2>1. /\ script \in 1 .. Len(Scripts) + 1 /\ Len(Scripts) \in Nat /\ envSteps \in Nat
        /\ phase # "done" => script <= Len(Scripts)
    BY <1>4, CaptureAssumption DEF IInv, TypeOK, ScriptsInOrder
  <2>2. ScriptsLeft \in Nat
    BY <2>1 DEF ScriptsLeft
  <2>3. phase = "rollout" => EpisodeLimit \in Nat
    BY <2>1, CaptureAssumption DEF EpisodeLimit, Length
  <2>. HIDE DEF EpisodeLimit
  <2>4. TurnsLeft \in Nat
    BY <2>1, <2>3 DEF TurnsLeft
  <2>. QED
    BY <1>4, <2>1, <2>2, <2>4 DEF FidelityKept
<1>5. IInv /\ FidelityKept /\ EpisodeInLimit /\ [Next]_vars
        => FidelityKept' /\ EpisodeInLimit' /\ [LessIsLeft]_vars
  BY <1>2, <1>3
<1>. QED
  BY <1>1, <1>4, <1>5, InductiveInvariant, PTL DEF Spec
=============================================================================
