--------------------------- MODULE OfflineScoring ---------------------------
(***************************************************************************)
(* score_judge.py over one captured corpus: the trace is cut into windows, *)
(* the gate drops the windows the live reward would not pay for, the rest  *)
(* is validated, judged call by call, and scored against the labels of     *)
(* the episodes. A judge call may fail; a failed call is not an answer.    *)
(***************************************************************************)
EXTENDS JudgeWindows, JudgeGate

CONSTANTS
  Pages,         \* pages a step may end on
  Landings,      \* pages an episode may open on
  Acts,          \* a step but for its pages and its place in the trace
  Bugs,          \* the seeded bugs of the answer key
  Answers,       \* verdicts: [ok, bug, grounded]
  Gate,          \* --gate
  Limit,         \* --limit; 0 is none
  IgnoreIssues,  \* --ignore-window-issues
  MaxSteps,      \* bound: steps of the trace
  MaxEpisodes    \* bound: episodes of the trace

Refusals == {"none", "field", "message"}

ActRecords ==
  [action : ActionTypes, newTab : BOOLEAN, offsiteTab : BOOLEAN,
   success : BOOLEAN, refusal : Refusals, console : BOOLEAN,
   triggered : BOOLEAN, settled : BOOLEAN, quoted : SUBSET Marks]

\* A refused action is recorded as failed; a trace so old that the refusal is
\* only in the message knows nothing of new tabs.
LegalAct(a) ==
  /\ a.refusal # "none" => ~a.success
  /\ a.refusal = "message" => ~a.newTab /\ ~a.offsiteTab

ASSUME ScoringAssumption ==
  /\ Landings \subseteq Pages
  /\ Acts \subseteq {a \in ActRecords : LegalAct(a)}
  /\ Answers \subseteq [ok : BOOLEAN, bug : BOOLEAN, grounded : BOOLEAN]
  /\ Gate \in BOOLEAN
  /\ Limit \in Nat
  /\ IgnoreIssues \in BOOLEAN
  /\ MaxSteps \in Nat
  /\ MaxEpisodes \in Nat

VARIABLES
  phase,       \* where the script is
  labels,      \* episode_labels: the bugs of each episode; empty if unlabelled
  episode,     \* the recorder's _episode
  step,        \* its _step_in_episode
  page,        \* its _prev_page
  trace,       \* the records of trace.jsonl; global_step is the position
  windows,     \* foci of the windows still to judge, the first of them next
  skipped,     \* gate_skipped
  judgments,   \* judgments: [focus, verdict]
  report       \* the ScoreReport

vars == <<phase, labels, episode, step, page, trace, windows, skipped,
          judgments, report>>

-----------------------------------------------------------------------------
(* score: one pass over the judgments.                                     *)

EmptyReport ==
  [windows |-> 0, failed |-> 0, positives |-> 0, checked |-> 0, grounded |-> 0,
   unattributed |-> 0, unattributedPositives |-> 0,
   control |-> 0, controlPositives |-> 0, bug |-> 0, bugPositives |-> 0,
   scored |-> {}, hit |-> {}]

Labelled == labels # <<>>

Expected(e) == IF e \in DOMAIN labels THEN labels[e] ELSE {}

One(condition) == IF condition THEN 1 ELSE 0

\* Fault: a failed call reads as a step found clean.
TallyFailedAsClean(rep, j) ==
  LET e == trace[j.focus].episode
  IN [rep EXCEPT !.failed = @ + One(~j.verdict.ok), !.scored = @ \cup {e}]

TallyAnswer(rep, j) ==
  LET e == trace[j.focus].episode
      clean == Expected(e) = {}
  IN IF ~Labelled
     THEN [rep EXCEPT !.unattributed = @ + 1,
                      !.unattributedPositives = @ + One(j.verdict.bug)]
     ELSE [rep EXCEPT !.scored = @ \cup {e},
                      !.hit = IF j.verdict.bug THEN @ \cup {e} ELSE @,
                      !.control = @ + One(clean),
                      !.controlPositives = @ + One(clean /\ j.verdict.bug),
                      !.bug = @ + One(~clean),
                      !.bugPositives = @ + One(~clean /\ j.verdict.bug)]

Tally(rep, j) ==
  IF ~j.verdict.ok THEN [rep EXCEPT !.failed = @ + 1]
  ELSE [TallyAnswer(rep, j) EXCEPT !.positives = @ + One(j.verdict.bug),
                                   !.checked = @ + One(j.verdict.bug),
                                   !.grounded = @ + One(j.verdict.bug /\ j.verdict.grounded)]

Score(js) ==
  LET tallied[n \in 0 .. Len(js)] ==
        IF n = 0 THEN [EmptyReport EXCEPT !.windows = Len(js)]
        ELSE Tally(tallied[n - 1], js[n])
  IN tallied[Len(js)]

\* A hit anywhere in an episode detects every bug of that episode.
Detected(rep) == UNION {Expected(e) : e \in rep.scored \cap rep.hit}

Missed(rep) == (UNION {Expected(e) : e \in rep.scored}) \ Detected(rep)

-----------------------------------------------------------------------------
(* Capture: the recorder's two hooks.                                      *)

Init ==
  /\ phase = "capture"
  /\ labels = <<>>
  /\ episode = 0
  /\ step = 0
  /\ page \in Landings
  /\ trace = <<>>
  /\ windows = {}
  /\ skipped = {}
  /\ judgments = <<>>
  /\ report = EmptyReport

OnReset(p) ==
  /\ phase = "capture"
  /\ episode < MaxEpisodes
  /\ Len(trace) < MaxSteps
  /\ episode' = episode + 1
  /\ step' = 0
  /\ page' = p
  /\ UNCHANGED <<phase, labels, trace, windows, skipped, judgments, report>>

OnStep(a, p) ==
  /\ phase = "capture"
  /\ episode > 0
  /\ Len(trace) < MaxSteps
  /\ step' = step + 1
  /\ page' = p
  /\ trace' = Append(trace, [episode |-> episode, step |-> step + 1,
                             before |-> page, after |-> p, outcome |-> a])
  /\ UNCHANGED <<phase, labels, episode, windows, skipped, judgments, report>>

\* close: meta.json labels every episode of a scripted corpus, none of a
\* random one.
Close ==
  /\ phase = "capture"
  /\ trace # <<>>
  /\ phase' = "gate"
  /\ labels' \in {<<>>} \cup [1 .. episode -> SUBSET Bugs]
  /\ UNCHANGED <<episode, step, page, trace, windows, skipped,
                 judgments, report>>

-----------------------------------------------------------------------------
(* score_corpus.                                                           *)

\* Fault: the record is looked up by its place in the episode.
DecideByEpisodeStep(i) ==
  LET r == trace[trace[i].step]
  IN ShouldJudge([action |-> r.outcome.action, success |-> r.outcome.success,
                  blocked |-> LeftApplication(r), changed |-> StateChanged(r),
                  triggered |-> r.outcome.triggered, settled |-> r.outcome.settled])

\* decide_for_record, of the record a window is about.
DecideForRecord(i) ==
  LET r == trace[i]
  IN ShouldJudge([action |-> r.outcome.action, success |-> r.outcome.success,
                  blocked |-> LeftApplication(r), changed |-> StateChanged(r),
                  triggered |-> r.outcome.triggered, settled |-> r.outcome.settled])

GateWindows ==
  LET foci == BuildWindows(trace)
      kept == {i \in foci : Gate => DecideForRecord(i)}
  IN /\ phase = "gate"
     /\ phase' = "validate"
     /\ windows' = IF Limit = 0 THEN kept
                   ELSE {i \in kept : Cardinality({k \in kept : k < i}) < Limit}
     /\ skipped' = foci \ kept
     /\ UNCHANGED <<labels, episode, step, page, trace, judgments, report>>

\* validate_corpus: a window that contradicts its record stops the script.
Validate ==
  /\ phase = "validate"
  /\ phase' = IF ValidateCorpus(trace, windows) = {} \/ IgnoreIssues
              THEN "judge" ELSE "refused"
  /\ UNCHANGED <<labels, episode, step, page, trace, windows, skipped,
                 judgments, report>>

\* Fault: a failed call stays in the queue.
JudgeWindowRetries(answer) ==
  /\ phase = "judge"
  /\ windows # {}
  /\ Len(judgments) <= MaxSteps
  /\ windows' = IF answer.ok THEN windows \ {Min(windows)} ELSE windows
  /\ judgments' = Append(judgments, [focus |-> Min(windows), verdict |-> answer])
  /\ UNCHANGED <<phase, labels, episode, step, page, trace, skipped, report>>

JudgeWindow(answer) ==
  /\ phase = "judge"
  /\ windows # {}
  /\ windows' = windows \ {Min(windows)}
  /\ judgments' = Append(judgments, [focus |-> Min(windows), verdict |-> answer])
  /\ UNCHANGED <<phase, labels, episode, step, page, trace, skipped, report>>

FileReport ==
  /\ phase = "judge"
  /\ windows = {}
  /\ phase' = "scored"
  /\ report' = Score(judgments)
  /\ UNCHANGED <<labels, episode, step, page, trace, windows, skipped, judgments>>

Next ==
  \/ \E p \in Landings : OnReset(p)
  \/ \E a \in Acts, p \in Pages : OnStep(a, p)
  \/ Close
  \/ GateWindows
  \/ Validate
  \/ \E answer \in Answers : JudgeWindow(answer)
  \/ FileReport

Spec == Init /\ [][Next]_vars

-----------------------------------------------------------------------------
(* Properties.                                                             *)

Phases == {"capture", "gate", "validate", "judge", "scored", "refused"}

\* Every variable keeps its type, and no window is judged twice.
TypeOK ==
  /\ phase \in Phases
  /\ episode \in 0 .. MaxEpisodes
  /\ step \in 0 .. Len(trace)
  /\ page \in Pages
  /\ Len(trace) <= MaxSteps
  /\ \A i \in DOMAIN trace :
       /\ trace[i].episode \in 1 .. MaxEpisodes
       /\ trace[i].step \in 1 .. i
  /\ windows \subseteq DOMAIN trace
  /\ skipped \subseteq DOMAIN trace
  /\ Len(judgments) + Cardinality(windows) <= Len(trace)

\* A window is an unbroken piece of one episode that ends with the step under
\* judgment: it holds as many steps as there are, up to WindowSteps, and each
\* starts on the page the one before it ended on. So evidence that spans steps
\* is evidence (build_windows, and the pages the recorder remembers).
WindowsAreUnbroken ==
  \A i \in DOMAIN trace :
    LET w == WindowOf(trace, i)
    IN /\ i \in w
       /\ Cardinality(w) = IF trace[i].step < WindowSteps
                           THEN trace[i].step ELSE WindowSteps
       /\ \A j \in w : j + 1 \in w =>
            /\ trace[j].episode = trace[j + 1].episode
            /\ trace[j].after = trace[j + 1].before

\* What no rendering can mend: console output that survived a refused navigation,
\* or application text that reads like a marker.
OwnFault(r) ==
  \/ LeftApplication(r) /\ r.outcome.console
  \/ r.outcome.quoted # {}

\* Of a trace that is to be rendered and validated, the renderer contradicts a
\* record in one way only: of a step whose URLs differ in their fragment or their
\* origin it says that nothing changed. And it never stops the script: that takes
\* a step of a window whose record breaks a rule however it is rendered
\* (render_step, validate_corpus).
RenderingIsHonest ==
  /\ phase = "validate" =>
       \A i \in DOMAIN trace :
         StateChanged(trace[i]) /\ "NO OBSERVABLE CHANGE" \in RenderStep(trace[i]) =>
           ~HtmlChanged(trace[i]) /\ ~Navigated(trace[i])
  /\ phase = "refused" => \E i \in Validated(trace, windows) : OwnFault(trace[i])

\* When the score is filed every step is accounted for once: idle, skipped by
\* the gate, or judged; and a step that was not judged had changed nothing, had
\* settled, and had fired no trigger (score_corpus).
StepsAccountedFor ==
  phase = "scored" /\ Limit = 0 =>
    \A i \in DOMAIN trace :
      LET judged == {n \in DOMAIN judgments : judgments[n].focus = i}
      IN /\ Cardinality(judged) <= 1
         /\ judged = {} <=> i \in skipped \/ (SkipIdle /\ IsIdle(trace[i]))
         /\ judged = {} =>
              /\ ~StateChanged(trace[i])
              /\ ~trace[i].outcome.triggered
              /\ trace[i].outcome.settled

Judged(b, bug) ==
  \E n \in DOMAIN judgments :
    /\ judgments[n].verdict.ok
    /\ judgments[n].verdict.bug = bug
    /\ b \in Expected(trace[judgments[n].focus].episode)

\* A bug counts as missed only if the judge was shown an episode that exercises
\* it, answered, and never found it: an outage, or a gate that let nothing
\* through, takes the bug out of recall and never makes it a miss. And a call
\* without ground truth is neither a detection nor a false alarm (score,
\* Verdict.failed).
OutageIsNoMiss ==
  phase = "scored" =>
    /\ \A b \in Bugs :
         /\ b \in Detected(report) <=> Judged(b, TRUE)
         /\ b \in Missed(report) <=> Judged(b, FALSE) /\ ~Judged(b, TRUE)
    /\ ~Labelled => report.control = 0 /\ report.bug = 0
    /\ report.windows = report.failed + report.unattributed
                          + report.control + report.bug
    /\ report.positives = report.unattributedPositives
                            + report.controlPositives + report.bugPositives

\* What a window says is gone is gone: a line that was text of the page, or a
\* link a user could follow, is not on the page any more (_visible_links).
GoneIsGone ==
  \A i \in DOMAIN trace :
    LET r == trace[i]
    IN /\ TextGone(r) \cap ToSet(r.after.html.text) = {}
       /\ NoLongerReachable(r) \cap ToSet(r.after.html.links) = {}
=============================================================================
