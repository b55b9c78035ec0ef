------------------------ MODULE OfflineScoringProofs ------------------------
(***************************************************************************)
(* Proofs about JudgeWindows and OfflineScoring, for every set of pages,   *)
(* every outcome of a step, every window size and every bound.             *)
(*                                                                         *)
(* The argument: the recorder numbers the steps of an episode without a    *)
(* gap (Numbered), so the last WindowSteps numbers of an episode are its   *)
(* last positions in the trace; and a record starts where the recorder     *)
(* stood (Chained). That the renderer is honest is a fact about a single   *)
(* record; the invariant only carries it to the trace.                     *)
(*                                                                         *)
(* On top of it stand three invariants of their own: the recorder's bounds *)
(* (Bounded); that what was cut into windows is skipped, judged once or    *)
(* still to judge (Queued); and what the filed report says (Filed). score  *)
(* is a loop: that it has a value for judgments of any length, and what    *)
(* that value is, is an induction over the rounds, which is made here from *)
(* sets of numbers and the well-foundedness of < (InductionUpto).          *)
(***************************************************************************)
EXTENDS OfflineScoring, FiniteSetTheorems, WellFoundedInduction, TLAPS

Records ==
  [episode : Nat, step : Nat, before : Pages, after : Pages, outcome : Acts]

\* Steps of one episode are adjacent and numbered in order.
Numbered ==
  \A i \in DOMAIN trace :
    /\ trace[i].step \in 1 .. i
    /\ \A j \in 1 .. i :
         /\ trace[j].episode = trace[i].episode <=> i - j < trace[i].step
         /\ trace[j].episode = trace[i].episode =>
              trace[j].step = trace[i].step - (i - j)

\* The recorder's counters continue the trace.
Counting ==
  /\ step <= Len(trace)
  /\ \A j \in DOMAIN trace :
       /\ trace[j].episode <= episode
       /\ trace[j].episode = episode <=> Len(trace) - j < step
       /\ trace[j].episode = episode => trace[j].step = step - (Len(trace) - j)

\* A step starts where the one before it in the episode ended, and the next
\* one will.
Chained ==
  /\ \A i \in DOMAIN trace :
       i + 1 \in DOMAIN trace /\ trace[i].episode = trace[i + 1].episode =>
         trace[i].after = trace[i + 1].before
  /\ step > 0 => page = trace[Len(trace)].after

\* The inductive invariant.
IInv ==
  /\ trace \in Seq(Records)
  /\ episode \in Nat
  /\ step \in Nat
  /\ page \in Pages
  /\ Numbered
  /\ Counting
  /\ Chained
  /\ phase = "refused" => ValidateCorpus(trace, windows) # {}

\* The bounds of the recorder: an episode is numbered from 1.
Bounded ==
  /\ phase \in Phases
  /\ episode \in 0 .. MaxEpisodes
  /\ Len(trace) <= MaxSteps
  /\ \A i \in DOMAIN trace : trace[i].episode \in 1 .. MaxEpisodes

\* What score counts is a number, what it collects is episodes.
Reports ==
  [windows : Nat, failed : Nat, positives : Nat, checked : Nat, grounded : Nat,
   unattributed : Nat, unattributedPositives : Nat,
   control : Nat, controlPositives : Nat, bug : Nat, bugPositives : Nat,
   scored : SUBSET Nat, hit : SUBSET Nat]

Judgments == [focus : Nat, verdict : Answers]

Kept == {i \in BuildWindows(trace) : Gate => DecideForRecord(i)}

Foci == {judgments[n].focus : n \in DOMAIN judgments}

\* What was cut into windows is skipped, judged once, or still to judge.
Queued ==
  /\ judgments \in Seq(Judgments)
  /\ windows \subseteq DOMAIN trace
  /\ Foci \cap windows = {}
  /\ \A m, n \in DOMAIN judgments : judgments[m].focus = judgments[n].focus => m = n
  /\ Len(judgments) + Cardinality(windows) <= Len(trace)
  /\ IF phase \in {"capture", "gate"}
     THEN windows = {} /\ skipped = {} /\ judgments = <<>>
     ELSE /\ skipped = BuildWindows(trace) \ Kept
          /\ Foci \cup windows \subseteq Kept
          /\ Limit = 0 => Kept \subseteq Foci \cup windows

Answered(k) == {n \in 1 .. k : judgments[n].verdict.ok}

\* What score has found after the first k judgments.
Tallied(rep, k) ==
  /\ rep.windows = Len(judgments)
  /\ k = rep.failed + rep.unattributed + rep.control + rep.bug
  /\ rep.positives = rep.unattributedPositives + rep.controlPositives + rep.bugPositives
  /\ ~Labelled => rep.control = 0 /\ rep.bug = 0
  /\ rep.scored = IF Labelled
                   THEN {trace[judgments[n].focus].episode : n \in Answered(k)} ELSE {}
  /\ rep.hit = IF Labelled
                THEN {trace[judgments[n].focus].episode :
                        n \in {m \in Answered(k) : judgments[m].verdict.bug}}
                ELSE {}

Filed == phase = "scored" => windows = {} /\ Tallied(report, Len(judgments))

-----------------------------------------------------------------------------
(* Loops.                                                                  *)

\* Induction over 0 .. n, for a set: a number that is not reached would have
\* a least one like it.
LEMMA InductionUpto ==
  ASSUME NEW n \in Nat, NEW T, 0 \in T, \A k \in 1 .. n : k - 1 \in T => k \in T
  PROVE  \A k \in 0 .. n : k \in T
<1> SUFFICES ASSUME NEW k \in 0 .. n, k \notin T PROVE FALSE
  OBVIOUS
<1> DEFINE C == {j \in 0 .. n : j \notin T}
           R == OpToRel(<, Nat)
<1>1. PICK m \in C : \A j \in C : <<j, m>> \notin R
  <2>1. C \subseteq Nat /\ C # {}
    OBVIOUS
  <2>. HIDE DEF C
  <2>. QED
    BY <2>1, WFMin, NatLessThanWellFounded
<1>2. m \in 1 .. n /\ m - 1 \in Nat /\ m \in Nat
  OBVIOUS
<1>3. <<m - 1, m>> \in R
  BY <1>2 DEF OpToRel
<1>4. m - 1 \notin C
  <2>. HIDE DEF C, R
  <2>. QED
    BY <1>1, <1>3
<1>5. m - 1 \in T
  BY <1>2, <1>4
<1>. QED
  BY <1>2, <1>5

\* The values of a loop's variable, before the first round and after each.
IsLoop(r, n, A, F, base) ==
  /\ r \in [0 .. n -> A]
  /\ r[0] = base
  /\ \A k \in 1 .. n : r[k] = F[<<r[k - 1], k>>]

\* A loop whose rounds stay in a set has values.
LEMMA LoopExists ==
  ASSUME NEW A, NEW n \in Nat, NEW F \in [A \X (1 .. n) -> A], NEW base \in A
  PROVE  \E r : IsLoop(r, n, A, F, base)
<1> DEFINE Has(m) == \E r : IsLoop(r, m, A, F, base)
           T == {m \in 0 .. n : Has(m)}
<1>1. 0 \in T
  <2> DEFINE r == [k \in 0 .. 0 |-> base]
  <2>1. IsLoop(r, 0, A, F, base)
    BY DEF IsLoop
  <2>. QED
    BY <2>1
<1>2. ASSUME NEW m \in 1 .. n, m - 1 \in T
      PROVE  m \in T
  <2>1. PICK old : IsLoop(old, m - 1, A, F, base)
    BY <1>2
  <2> DEFINE new == [k \in 0 .. m |-> IF k = m THEN F[<<old[m - 1], m>>] ELSE old[k]]
  <2>2. /\ old \in [0 .. m - 1 -> A] /\ old[0] = base
        /\ \A k \in 1 .. m - 1 : old[k] = F[<<old[k - 1], k>>]
    BY <2>1 DEF IsLoop
  <2>3. new \in [0 .. m -> A] /\ new[0] = base
    BY <2>2
  <2>4. ASSUME NEW k \in 1 .. m
        PROVE  new[k] = F[<<new[k - 1], k>>]
    <3>1. new[k - 1] = old[k - 1]
      OBVIOUS
    <3>2. CASE k = m
      <4>1. new[m] = F[<<old[m - 1], m>>]
        OBVIOUS
      <4>. QED
        BY <3>1, <3>2, <4>1
    <3>3. CASE k # m
      BY <2>2, <3>1, <3>3
    <3>. QED
      BY <3>2, <3>3
  <2>5. IsLoop(new, m, A, F, base)
    <3>. HIDE DEF new
    <3>. QED
      BY <2>3, <2>4 DEF IsLoop
  <2>. QED
    BY <2>5
<1>. HIDE DEF T, Has
<1>3. n \in T
  BY <1>1, <1>2, InductionUpto
<1>4. Has(n)
  BY <1>3 DEF T
<1>. QED
  BY <1>4 DEF Has

\* A set of numbers that is not empty has a least one.
LEMMA MinOfNaturals ==
  ASSUME NEW S \in SUBSET Nat, S # {}
  PROVE  Min(S) \in S
<1> DEFINE R == OpToRel(<, Nat)
<1>1. PICK m \in S : \A y \in S : <<y, m>> \notin R
  BY WFMin, NatLessThanWellFounded
<1>2. \A y \in S : m <= y
  <2> TAKE y \in S
  <2>1. y \in Nat /\ m \in Nat
    OBVIOUS
  <2>2. y < m => <<y, m>> \in R
    BY <2>1 DEF OpToRel
  <2>. HIDE DEF R
  <2>. QED
    BY <1>1, <2>1, <2>2
<1>. QED
  BY <1>2 DEF Min

-----------------------------------------------------------------------------
(* score.                                                                  *)

\* An answer adds numbers to counters and an episode to the sets.
LEMMA AnswerTyped ==
  ASSUME NEW rep \in Reports, NEW j, trace[j.focus].episode \in Nat
  PROVE  TallyAnswer(rep, j) \in Reports
<1>1. \A c : One(c) \in Nat
  BY DEF One
<1>2. /\ rep.unattributed \in Nat /\ rep.unattributedPositives \in Nat
      /\ rep.scored \in SUBSET Nat /\ rep.hit \in SUBSET Nat
      /\ rep.control \in Nat /\ rep.controlPositives \in Nat
      /\ rep.bug \in Nat /\ rep.bugPositives \in Nat
  BY DEF Reports
<1>3. CASE ~Labelled
  <2> DEFINE x == rep.unattributed + 1
             y == rep.unattributedPositives + One(j.verdict.bug)
  <2>1. TallyAnswer(rep, j) = [rep EXCEPT !.unattributed = x, !.unattributedPositives = y]
    BY <1>3 DEF TallyAnswer
  <2>2. x \in Nat /\ y \in Nat
    BY <1>1, <1>2
  <2>. HIDE DEF x, y
  <2>3. [rep EXCEPT !.unattributed = x, !.unattributedPositives = y] \in Reports
    BY <2>2 DEF Reports
  <2>. QED
    BY <2>1, <2>3
<1>4. CASE Labelled
  <2> DEFINE e == trace[j.focus].episode
             clean == Expected(e) = {}
             s == rep.scored \cup {e}
             h == IF j.verdict.bug THEN rep.hit \cup {e} ELSE rep.hit
             c == rep.control + One(clean)
             cp == rep.controlPositives + One(clean /\ j.verdict.bug)
             b == rep.bug + One(~clean)
             bp == rep.bugPositives + One(~clean /\ j.verdict.bug)
  <2>1. TallyAnswer(rep, j) = [rep EXCEPT !.scored = s, !.hit = h,
                                          !.control = c, !.controlPositives = cp,
                                          !.bug = b, !.bugPositives = bp]
    BY <1>4 DEF TallyAnswer
  <2>2. /\ s \in SUBSET Nat /\ h \in SUBSET Nat
        /\ c \in Nat /\ cp \in Nat /\ b \in Nat /\ bp \in Nat
    BY <1>1, <1>2
  <2>. HIDE DEF s, h, c, cp, b, bp
  <2>3. [rep EXCEPT !.scored = s, !.hit = h, !.control = c, !.controlPositives = cp,
                    !.bug = b, !.bugPositives = bp] \in Reports
    BY <2>2 DEF Reports
  <2>. QED
    BY <2>1, <2>3
<1>. QED
  BY <1>3, <1>4

\* So does a round of score.
LEMMA TallyTyped ==
  ASSUME NEW rep \in Reports, NEW j, trace[j.focus].episode \in Nat
  PROVE  Tally(rep, j) \in Reports
<1>1. \A c : One(c) \in Nat
  BY DEF One
<1>2. CASE ~j.verdict.ok
  <2>1. [rep EXCEPT !.failed = @ + 1] \in Reports
    BY DEF Reports
  <2>. QED
    BY <1>2, <2>1 DEF Tally
<1>3. CASE j.verdict.ok
  <2> DEFINE a == TallyAnswer(rep, j)
             x == a.positives + One(j.verdict.bug)
             y == a.checked + One(j.verdict.bug)
             z == a.grounded + One(j.verdict.bug /\ j.verdict.grounded)
  <2>1. Tally(rep, j) = [a EXCEPT !.positives = x, !.checked = y, !.grounded = z]
    BY <1>3 DEF Tally
  <2>2. a \in Reports
    BY AnswerTyped
  <2>3. a.positives \in Nat /\ a.checked \in Nat /\ a.grounded \in Nat
    BY <2>2 DEF Reports
  <2>4. x \in Nat /\ y \in Nat /\ z \in Nat
    BY <1>1, <2>3
  <2>. HIDE DEF a, x, y, z
  <2>5. [a EXCEPT !.positives = x, !.checked = y, !.grounded = z] \in Reports
    BY <2>2, <2>4 DEF Reports
  <2>. QED
    BY <2>1, <2>5
<1>. QED
  BY <1>2, <1>3

\* One round of score counts the judgment once, and its positive once.
LEMMA TallyCounts ==
  ASSUME NEW rep \in Reports, NEW j, trace[j.focus].episode \in Nat,
         j.verdict.ok \in BOOLEAN, j.verdict.bug \in BOOLEAN
  PROVE  LET t == Tally(rep, j)
             e == {trace[j.focus].episode}
             answer == Labelled /\ j.verdict.ok
         IN /\ t.windows = rep.windows
            /\ t.failed + t.unattributed + t.control + t.bug
                 = rep.failed + rep.unattributed + rep.control + rep.bug + 1
            /\ t.positives - (t.unattributedPositives + t.controlPositives + t.bugPositives)
                 = rep.positives
                     - (rep.unattributedPositives + rep.controlPositives + rep.bugPositives)
            /\ ~Labelled => t.control = rep.control /\ t.bug = rep.bug
            /\ t.scored = IF answer THEN rep.scored \cup e ELSE rep.scored
            /\ t.hit = IF answer /\ j.verdict.bug THEN rep.hit \cup e ELSE rep.hit
<1> DEFINE t == Tally(rep, j)
           a == TallyAnswer(rep, j)
           e == trace[j.focus].episode
           w == One(j.verdict.bug)
<1>1. /\ rep.windows \in Nat /\ rep.failed \in Nat /\ rep.positives \in Nat
      /\ rep.unattributed \in Nat /\ rep.unattributedPositives \in Nat
      /\ rep.control \in Nat /\ rep.controlPositives \in Nat
      /\ rep.bug \in Nat /\ rep.bugPositives \in Nat
  BY DEF Reports
<1>2. w \in Nat
  BY DEF One
<1>3. CASE ~j.verdict.ok
  <2>1. t = [rep EXCEPT !.failed = @ + 1]
    BY <1>3 DEF Tally
  <2>2. /\ t.failed = rep.failed + 1
        /\ t.windows = rep.windows /\ t.positives = rep.positives
        /\ t.unattributed = rep.unattributed
        /\ t.unattributedPositives = rep.unattributedPositives
        /\ t.control = rep.control /\ t.controlPositives = rep.controlPositives
        /\ t.bug = rep.bug /\ t.bugPositives = rep.bugPositives
        /\ t.scored = rep.scored /\ t.hit = rep.hit
    BY <2>1 DEF Reports
  <2>. HIDE DEF t
  <2>. QED
    BY <1>1, <1>3, <2>2 DEF t
<1>4. CASE j.verdict.ok
  <2>1. t = [a EXCEPT !.positives = a.positives + w, !.checked = a.checked + w,
                      !.grounded = a.grounded + One(j.verdict.bug /\ j.verdict.grounded)]
    BY <1>4 DEF Tally
  <2>2. a \in Reports
    BY AnswerTyped
  <2>3. /\ t.positives = a.positives + w
        /\ t.windows = a.windows /\ t.failed = a.failed
        /\ t.unattributed = a.unattributed
        /\ t.unattributedPositives = a.unattributedPositives
        /\ t.control = a.control /\ t.controlPositives = a.controlPositives
        /\ t.bug = a.bug /\ t.bugPositives = a.bugPositives
        /\ t.scored = a.scored /\ t.hit = a.hit
    <3>. HIDE DEF a, w
    <3>. QED
      BY <2>1, <2>2 DEF Reports
  <2>4. CASE ~Labelled
    <3>1. a = [rep EXCEPT !.unattributed = rep.unattributed + 1,
                          !.unattributedPositives = rep.unattributedPositives + w]
      BY <2>4 DEF TallyAnswer
    <3>2. /\ a.unattributed = rep.unattributed + 1
          /\ a.unattributedPositives = rep.unattributedPositives + w
          /\ a.windows = rep.windows /\ a.positives = rep.positives /\ a.failed = rep.failed
          /\ a.control = rep.control /\ a.controlPositives = rep.controlPositives
          /\ a.bug = rep.bug /\ a.bugPositives = rep.bugPositives
          /\ a.scored = rep.scored /\ a.hit = rep.hit
      <4>. HIDE DEF a, w
      <4>. QED
        BY <3>1 DEF Reports
    <3>. HIDE DEF a, t, w
    <3>. QED
      BY <1>1, <1>2, <2>3, <2>4, <3>2 DEF t
  <2>5. CASE Labelled
    <3> DEFINE clean == Expected(e) = {}
               h == IF j.verdict.bug THEN rep.hit \cup {e} ELSE rep.hit
               s == rep.scored \cup {e}
               c == One(clean)
               b == One(~clean)
               cp == One(clean /\ j.verdict.bug)
               bp == One(~clean /\ j.verdict.bug)
    <3>1. a = [rep EXCEPT !.scored = s, !.hit = h, !.control = rep.control + c,
                          !.controlPositives = rep.controlPositives + cp,
                          !.bug = rep.bug + b, !.bugPositives = rep.bugPositives + bp]
      BY <2>5 DEF TallyAnswer
    <3>2. c + b = 1 /\ cp + bp = w /\ c \in Nat /\ b \in Nat /\ cp \in Nat /\ bp \in Nat
      BY DEF One
    <3>3. /\ a.scored = s /\ a.hit = h
          /\ a.control = rep.control + c /\ a.controlPositives = rep.controlPositives + cp
          /\ a.bug = rep.bug + b /\ a.bugPositives = rep.bugPositives + bp
          /\ a.windows = rep.windows /\ a.positives = rep.positives /\ a.failed = rep.failed
          /\ a.unattributed = rep.unattributed
          /\ a.unattributedPositives = rep.unattributedPositives
      <4>. HIDE DEF a, s, h, c, b, cp, bp
      <4>. QED
        BY <3>1 DEF Reports
    <3>4. t.scored = rep.scored \cup {e} /\ t.hit = h
      BY <2>3, <3>3
    <3>5. /\ t.control + t.bug = rep.control + rep.bug + 1
          /\ t.positives - (t.unattributedPositives + t.controlPositives + t.bugPositives)
                 = rep.positives
                     - (rep.unattributedPositives + rep.controlPositives + rep.bugPositives)
          /\ t.control \in Nat /\ t.bug \in Nat
      <4>. HIDE DEF a, t, w, c, b, cp, bp
      <4>. QED
        BY <1>1, <1>2, <2>3, <3>2, <3>3
    <3>. HIDE DEF a, t, w, c, b, cp, bp
    <3>. QED
      BY <1>1, <1>4, <2>3, <2>5, <3>3, <3>4, <3>5 DEF t
  <2>. QED
    BY <2>4, <2>5
<1>. QED
  BY <1>3, <1>4

\* The report is what a loop over the judgments leaves.
LEMMA ScoreRuns ==
  ASSUME judgments \in Seq(Judgments),
         \A n \in DOMAIN judgments : trace[judgments[n].focus].episode \in Nat
  PROVE  \E r \in [0 .. Len(judgments) -> Reports] :
           /\ r[0] = [EmptyReport EXCEPT !.windows = Len(judgments)]
           /\ Score(judgments) = r[Len(judgments)]
           /\ \A k \in 1 .. Len(judgments) : r[k] = Tally(r[k - 1], judgments[k])
<1> DEFINE n == Len(judgments)
           base == [EmptyReport EXCEPT !.windows = n]
           F == [p \in Reports \X (1 .. n) |-> Tally(p[1], judgments[p[2]])]
           Loop(f) == f = [k \in 0 .. n |-> IF k = 0 THEN base
                                            ELSE Tally(f[k - 1], judgments[k])]
           tallied == CHOOSE f : Loop(f)
           T == {k \in 0 .. n : tallied[k] \in Reports}
<1>1. n \in Nat /\ DOMAIN judgments = 1 .. n
  OBVIOUS
<1>2. base \in Reports
  BY <1>1 DEF EmptyReport, Reports
<1>3. \A rep \in Reports, k \in 1 .. n : Tally(rep, judgments[k]) \in Reports
  BY <1>1, TallyTyped
<1>. HIDE DEF base
<1>4. F \in [Reports \X (1 .. n) -> Reports]
  BY <1>3
<1>5. \E f : Loop(f)
  <2>1. PICK f : IsLoop(f, n, Reports, F, base)
    <3>. HIDE DEF F
    <3>. QED
      BY <1>1, <1>2, <1>4, LoopExists
  <2>2. /\ f \in [0 .. n -> Reports] /\ f[0] = base
        /\ \A k \in 1 .. n : f[k] = F[<<f[k - 1], k>>]
    BY <2>1 DEF IsLoop
  <2>3. \A k \in 1 .. n : f[k] = Tally(f[k - 1], judgments[k])
    <3> TAKE k \in 1 .. n
    <3>1. f[k - 1] \in Reports
      BY <1>1, <2>2
    <3>2. F[<<f[k - 1], k>>] = Tally(f[k - 1], judgments[k])
      BY <3>1
    <3>. QED
      BY <2>2, <3>2
  <2>4. Loop(f)
    BY <1>1, <2>2, <2>3
  <2>. QED
    BY <2>4
<1>6. Loop(tallied)
  BY <1>5
<1>7. Score(judgments) = tallied[n]
  BY Zenon DEF Score, base
<1>. HIDE DEF tallied
<1>8. \A k \in 0 .. n : k \in T
  <2>1. 0 \in T
    BY <1>1, <1>2, <1>6
  <2>2. \A k \in 1 .. n : k - 1 \in T => k \in T
    BY <1>1, <1>3, <1>6
  <2>. HIDE DEF T
  <2>. QED
    BY <1>1, <2>1, <2>2, InductionUpto
<1>9. tallied \in [0 .. n -> Reports]
  BY <1>6, <1>8
<1>10. tallied[0] = base
  BY <1>1, <1>6
<1>11. \A k \in 1 .. n : tallied[k] = Tally(tallied[k - 1], judgments[k])
  BY <1>1, <1>6
<1>. QED
  BY <1>7, <1>9, <1>10, <1>11 DEF base

\* What a round of the loop keeps.
LEMMA TalliedStep ==
  ASSUME judgments \in Seq(Judgments), NEW rep \in Reports, NEW k \in 1 .. Len(judgments),
         trace[judgments[k].focus].episode \in Nat, Tallied(rep, k - 1)
  PROVE  Tallied(Tally(rep, judgments[k]), k)
<1> DEFINE j == judgments[k]
           t == Tally(rep, j)
           e == {trace[j.focus].episode}
           answer == Labelled /\ j.verdict.ok
<1>1. k \in Nat /\ k - 1 \in Nat
  OBVIOUS
<1>2. j.verdict.ok \in BOOLEAN /\ j.verdict.bug \in BOOLEAN
  <2>1. j \in Judgments
    OBVIOUS
  <2>2. j.verdict \in [ok : BOOLEAN, bug : BOOLEAN, grounded : BOOLEAN]
    BY <2>1, ScoringAssumption DEF Judgments
  <2>. QED
    BY <2>2
<1>3. /\ t.windows = rep.windows
      /\ t.failed + t.unattributed + t.control + t.bug
           = rep.failed + rep.unattributed + rep.control + rep.bug + 1
      /\ t.positives - (t.unattributedPositives + t.controlPositives + t.bugPositives)
           = rep.positives
               - (rep.unattributedPositives + rep.controlPositives + rep.bugPositives)
      /\ ~Labelled => t.control = rep.control /\ t.bug = rep.bug
      /\ t.scored = IF answer THEN rep.scored \cup e ELSE rep.scored
      /\ t.hit = IF answer /\ j.verdict.bug THEN rep.hit \cup e ELSE rep.hit
  BY <1>2, TallyCounts
<1>4. Answered(k) = IF j.verdict.ok THEN Answered(k - 1) \cup {k} ELSE Answered(k - 1)
  BY <1>1 DEF Answered
<1>5. {m \in Answered(k) : judgments[m].verdict.bug}
        = {m \in Answered(k - 1) : judgments[m].verdict.bug}
            \cup (IF j.verdict.ok /\ j.verdict.bug THEN {k} ELSE {})
  BY <1>4
<1>6. t.scored = IF Labelled
                 THEN {trace[judgments[n].focus].episode : n \in Answered(k)} ELSE {}
  <2>. HIDE DEF t
  <2>. QED
    BY <1>3, <1>4 DEF Tallied
<1>7. t.hit = IF Labelled
              THEN {trace[judgments[n].focus].episode :
                      n \in {m \in Answered(k) : judgments[m].verdict.bug}}
              ELSE {}
  <2> DEFINE Hits(m) == {n \in Answered(m) : judgments[n].verdict.bug}
             Episodes(N) == {trace[judgments[n].focus].episode : n \in N}
  <2>1. rep.hit = IF Labelled THEN Episodes(Hits(k - 1)) ELSE {}
    BY DEF Tallied
  <2>2. Episodes(Hits(k - 1) \cup {k}) = Episodes(Hits(k - 1)) \cup e
    OBVIOUS
  <2>3. Hits(k) = IF j.verdict.ok /\ j.verdict.bug THEN Hits(k - 1) \cup {k} ELSE Hits(k - 1)
    BY <1>5
  <2>. HIDE DEF t, Hits, Episodes
  <2>4. t.hit = IF Labelled THEN Episodes(Hits(k)) ELSE {}
    BY <1>2, <1>3, <2>1, <2>2, <2>3
  <2>. QED
    BY <2>4 DEF Hits, Episodes
<1>8. /\ rep.failed \in Nat /\ rep.positives \in Nat
      /\ rep.unattributed \in Nat /\ rep.unattributedPositives \in Nat
      /\ rep.control \in Nat /\ rep.controlPositives \in Nat
      /\ rep.bug \in Nat /\ rep.bugPositives \in Nat
  BY DEF Reports
<1>9. /\ t.failed \in Nat /\ t.positives \in Nat
      /\ t.unattributed \in Nat /\ t.unattributedPositives \in Nat
      /\ t.control \in Nat /\ t.controlPositives \in Nat
      /\ t.bug \in Nat /\ t.bugPositives \in Nat
  <2>1. t \in Reports
    BY TallyTyped
  <2>. HIDE DEF t
  <2>. QED
    BY <2>1 DEF Reports
<1>. HIDE DEF t, j
<1>10. k = t.failed + t.unattributed + t.control + t.bug
  BY <1>1, <1>3, <1>8, <1>9 DEF Tallied
<1>11. t.positives = t.unattributedPositives + t.controlPositives + t.bugPositives
  <2> DEFINE x == t.unattributedPositives + t.controlPositives + t.bugPositives
             y == rep.unattributedPositives + rep.controlPositives + rep.bugPositives
  <2>1. rep.positives = y
    BY DEF Tallied
  <2>2. x \in Nat /\ y \in Nat
    <3>1. \A a, b, c \in Nat : a + b + c \in Nat
      OBVIOUS
    <3>2. x \in Nat
      <4>1. t.unattributedPositives \in Nat /\ t.controlPositives \in Nat /\ t.bugPositives \in Nat
        BY <1>9
      <4>. QED
        BY <4>1, <3>1
    <3>3. y \in Nat
      <4>1. rep.unattributedPositives \in Nat /\ rep.controlPositives \in Nat /\ rep.bugPositives \in Nat
        BY <1>8
      <4>. QED
        BY <4>1, <3>1
    <3>. QED
      BY <3>2, <3>3
  <2>3. t.positives - x = rep.positives - y
    BY <1>3
  <2>4. t.positives = x
    <3>. HIDE DEF x, y
    <3>. QED
      BY <1>8, <1>9, <2>1, <2>2, <2>3
  <2>. QED
    BY <2>4
<1>12. Tallied(t, k)
  BY <1>3, <1>6, <1>7, <1>10, <1>11 DEF Tallied
<1>. QED
  BY <1>12 DEF t, j

\* So the report states what score has found after all of them.
LEMMA ScoreTallied ==
  ASSUME judgments \in Seq(Judgments),
         \A n \in DOMAIN judgments : trace[judgments[n].focus].episode \in Nat
  PROVE  Tallied(Score(judgments), Len(judgments))
<1> DEFINE n == Len(judgments)
<1>1. PICK r \in [0 .. n -> Reports] :
        /\ r[0] = [EmptyReport EXCEPT !.windows = n]
        /\ Score(judgments) = r[n]
        /\ \A k \in 1 .. n : r[k] = Tally(r[k - 1], judgments[k])
  BY ScoreRuns
<1> DEFINE T == {k \in 0 .. n : Tallied(r[k], k)}
<1>2. n \in Nat /\ DOMAIN judgments = 1 .. n
  OBVIOUS
<1>3. 0 \in T
  <2>1. Answered(0) = {}
    BY DEF Answered
  <2>2. r[0] = [windows |-> n, failed |-> 0, positives |-> 0, checked |-> 0, grounded |-> 0,
                unattributed |-> 0, unattributedPositives |-> 0, control |-> 0,
                controlPositives |-> 0, bug |-> 0, bugPositives |-> 0,
                scored |-> {}, hit |-> {}]
    BY <1>1 DEF EmptyReport
  <2>3. Tallied(r[0], 0)
    BY <2>1, <2>2 DEF Tallied
  <2>. QED
    BY <1>2, <2>3
<1>4. ASSUME NEW k \in 1 .. n, k - 1 \in T
      PROVE  k \in T
  <2>1. r[k - 1] \in Reports /\ r[k] = Tally(r[k - 1], judgments[k])
    BY <1>1, <1>2
  <2>2. Tallied(r[k - 1], k - 1)
    BY <1>4
  <2>3. Tallied(r[k], k)
    BY <1>2, <2>1, <2>2, TalliedStep
  <2>. QED
    BY <1>2, <2>3
<1>. HIDE DEF T
<1>5. \A k \in 0 .. n : k \in T
  BY <1>2, <1>3, <1>4, InductionUpto
<1>6. n \in 0 .. n
  BY <1>2
<1>. QED
  BY <1>1, <1>5, <1>6 DEF T

-----------------------------------------------------------------------------
(* One record.                                                             *)

\* On a page that did not change the renderer has nothing to say.
LEMMA SameDocument ==
  ASSUME NEW r, ~HtmlChanged(r)
  PROVE  RenderedNothing(r)
<1>1. Before(r) = After(r)
  BY DEF HtmlChanged, Before, After
<1>2. TextAdded(r) = {} /\ Before(r).text \ After(r).text = {}
  BY <1>1 DEF TextAdded
<1>3. FieldChanges(r) = {}
  BY <1>1 DEF FieldChanges
<1>4. ValueChanges(r) = {}
  BY <1>1 DEF ValueChanges
<1>5. NowHidden(r) = {} /\ NowShown(r) = {}
  BY <1>1 DEF NowHidden, NowShown
<1> QED
  BY <1>2, <1>3, <1>4, <1>5 DEF RenderedNothing

\* For every record the environment can write: that nothing changed is claimed
\* of a changed step only where the documents are the same and the URLs share
\* their relative path; and unless
\* the application's own text reads like a marker, the one rule of validate_step
\* that can fire is about console output that survived a refused navigation.
THEOREM RecordRenderedHonestly ==
  ASSUME NEW r \in Records
  PROVE  /\ StateChanged(r) /\ "NO OBSERVABLE CHANGE" \in RenderStep(r)
               => ~HtmlChanged(r) /\ ~Navigated(r)
         /\ r.outcome.quoted = {} => ValidateStep(r) \subseteq {"offsite-console"}
         /\ "offsite-console" \in ValidateStep(r)
               <=> LeftApplication(r) /\ r.outcome.console
<1>1. LegalAct(r.outcome) /\ r.outcome.refusal \in Refusals
  <2>1. r.outcome \in ActRecords /\ LegalAct(r.outcome)
    BY ScoringAssumption DEF Records
  <2> QED
    BY <2>1 DEF ActRecords
<1>2. "NO OBSERVABLE CHANGE" \in RenderStep(r) =>
        ~HtmlChanged(r) /\ ~Navigated(r) /\ ~Refused(r) /\ ~OpensNewTab(r)
  BY DEF RenderStep, HarnessMarks, EffectMarks, MarkIf, Unexplained
<1>3. "BLOCKED" \in RenderStep(r) <=> Refused(r)
  BY DEF RenderStep, HarnessMarks, EffectMarks, MarkIf
<1>4. "FAILED" \in RenderStep(r) => ~Refused(r)
  BY DEF RenderStep, HarnessMarks, EffectMarks, MarkIf
<1>5. /\ StateChanged(r) /\ "NO OBSERVABLE CHANGE" \in RenderStep(r)
           => ~HtmlChanged(r) /\ ~Navigated(r)
      /\ "offsite-console" \in ValidateStep(r) <=> LeftApplication(r) /\ r.outcome.console
  BY <1>2 DEF StateChanged, ValidateStep, RefusalIssues, NewTabIssues, MarkIf
<1>6. SUFFICES ASSUME r.outcome.quoted = {}
               PROVE  ValidateStep(r) \subseteq {"offsite-console"}
  BY <1>5
<1>7. Reads(r) = RenderStep(r)
  BY <1>6 DEF Reads
<1>8. RefusalIssues(r) \subseteq {"offsite-console"}
  BY <1>2, <1>3, <1>4, <1>7 DEF RefusalIssues, LeftApplication, Refused, MarkIf
<1>9. NewTabIssues(r) = {}
  <2>1. CASE ~r.outcome.newTab \/ StateChanged(r) \/ LeftApplication(r)
    BY <2>1 DEF NewTabIssues
  <2>2. CASE r.outcome.newTab /\ ~StateChanged(r) /\ ~LeftApplication(r)
    <3>1. ~Refused(r) /\ OpensNewTab(r)
      BY <1>1, <2>2 DEF LegalAct, Refused, LeftApplication, OpensNewTab, Refusals
    <3>2. Unexplained(r)
      BY <2>2, <3>1, SameDocument DEF Unexplained, StateChanged, UrlChanged, Navigated
    <3>3. "NEW TAB" \in RenderStep(r)
      BY <3>1, <3>2 DEF RenderStep, HarnessMarks, MarkIf
    <3> QED
      BY <1>2, <1>7, <3>1, <3>3 DEF NewTabIssues, MarkIf
  <2> QED
    BY <2>1, <2>2
<1> QED
  BY <1>2, <1>7, <1>8, <1>9 DEF ValidateStep, MarkIf

-----------------------------------------------------------------------------
(* The invariant.                                                          *)

\* A new step keeps the numbering, the counters and the chain.
LEMMA StepKeepsTrace ==
  ASSUME IInv, NEW a \in Acts, NEW p \in Pages, OnStep(a, p)
  PROVE  trace' \in Seq(Records) /\ step' \in Nat /\ Numbered' /\ Counting' /\ Chained'
<1> DEFINE n == Len(trace)
           r == [episode |-> episode, step |-> step + 1, before |-> page,
                 after |-> p, outcome |-> a]
<1> USE DEF IInv
<1>1. r \in Records /\ trace' = Append(trace, r)
  BY DEF OnStep, Records
<1>2. /\ trace' \in Seq(Records)
      /\ n \in Nat
      /\ Len(trace') = n + 1
      /\ DOMAIN trace = 1 .. n
      /\ DOMAIN trace' = 1 .. n + 1
      /\ \A i \in 1 .. n : trace'[i] = trace[i]
      /\ trace'[n + 1] = r
  BY <1>1
<1>3. step' = step + 1 /\ episode' = episode /\ page' = p
  BY DEF OnStep
<1>4. \A i \in 1 .. n : trace[i] \in Records
  BY <1>2
<1> HIDE DEF n, r
<1>5. r.episode = episode /\ r.step = step + 1 /\ r.before = page /\ r.after = p
  BY DEF r
<1>6. Numbered'
  <2> SUFFICES ASSUME NEW i \in 1 .. n + 1
               PROVE  /\ trace'[i].step \in 1 .. i
                      /\ \A j \in 1 .. i :
                           /\ trace'[j].episode = trace'[i].episode
                                <=> i - j < trace'[i].step
                           /\ trace'[j].episode = trace'[i].episode =>
                                trace'[j].step = trace'[i].step - (i - j)
    BY <1>2 DEF Numbered
  <2>1. CASE i \in 1 .. n
    <3>1. \A j \in 1 .. i : trace'[j] = trace[j]
      BY <1>2, <2>1
    <3>2. /\ trace[i].step \in 1 .. i
          /\ \A j \in 1 .. i :
               /\ trace[j].episode = trace[i].episode <=> i - j < trace[i].step
               /\ trace[j].episode = trace[i].episode =>
                    trace[j].step = trace[i].step - (i - j)
      BY <1>2, <2>1 DEF Numbered
    <3> QED
      BY <1>2, <2>1, <3>1, <3>2
  <2>2. CASE i = n + 1
    <3>1. trace'[i].step \in 1 .. i
      BY <1>2, <1>5, <2>2 DEF Counting, n
    <3>2. ASSUME NEW j \in 1 .. i
          PROVE  /\ trace'[j].episode = trace'[i].episode <=> i - j < trace'[i].step
                 /\ trace'[j].episode = trace'[i].episode =>
                      trace'[j].step = trace'[i].step - (i - j)
      <4>1. CASE j = n + 1
        BY <1>2, <1>5, <2>2, <4>1
      <4>2. CASE j \in 1 .. n
        <5>1. /\ trace[j].episode = episode <=> n - j < step
              /\ trace[j].episode = episode => trace[j].step = step - (n - j)
          BY <1>2, <4>2 DEF Counting, n
        <5> QED
          BY <1>2, <1>5, <2>2, <4>2, <5>1
      <4> QED
        BY <1>2, <2>2, <4>1, <4>2
    <3> QED
      BY <3>1, <3>2
  <2> QED
    BY <1>2, <2>1, <2>2
<1>7. Counting'
  <2>1. step' <= Len(trace')
    BY <1>2, <1>3 DEF Counting, n
  <2>2. ASSUME NEW j \in 1 .. n + 1
        PROVE  /\ trace'[j].episode <= episode
               /\ trace'[j].episode = episode <=> n + 1 - j < step + 1
               /\ trace'[j].episode = episode =>
                    trace'[j].step = step + 1 - (n + 1 - j)
    <3>1. CASE j = n + 1
      BY <1>2, <1>5, <3>1
    <3>2. CASE j \in 1 .. n
      <4>1. /\ trace[j].episode <= episode
            /\ trace[j].episode = episode <=> n - j < step
            /\ trace[j].episode = episode => trace[j].step = step - (n - j)
        BY <1>2, <3>2 DEF Counting, n
      <4> QED
        BY <1>2, <3>2, <4>1
    <3> QED
      BY <1>2, <3>1, <3>2
  <2> QED
    BY <1>2, <1>3, <2>1, <2>2 DEF Counting
<1>8. Chained'
  <2>1. ASSUME NEW i \in 1 .. n + 1, i + 1 \in 1 .. n + 1,
               trace'[i].episode = trace'[i + 1].episode
        PROVE  trace'[i].after = trace'[i + 1].before
    <3>1. CASE i + 1 \in 1 .. n
      <4>1. i \in 1 .. n
        BY <1>2, <3>1
      <4> QED
        BY <1>2, <2>1, <3>1, <4>1 DEF Chained
    <3>2. CASE i = n
      <4>1. n \in 1 .. n /\ trace[n].episode = episode
        BY <1>2, <1>5, <2>1, <3>2
      <4>2. step > 0
        BY <1>2, <4>1 DEF Counting, n
      <4> QED
        BY <1>2, <1>5, <3>2, <4>1, <4>2 DEF Chained, n
    <3> QED
      BY <1>2, <2>1, <3>1, <3>2
  <2>2. page' = trace'[Len(trace')].after
    BY <1>2, <1>3, <1>5
  <2> QED
    BY <1>2, <2>1, <2>2 DEF Chained
<1> QED
  BY <1>2, <1>3, <1>6, <1>7, <1>8

\* The invariant holds in every behaviour.
THEOREM InductiveInvariant == Spec => []IInv
<1>1. Init => IInv
  BY ScoringAssumption
     DEF Init, IInv, Numbered, Counting, Chained, Records
<1>2. IInv /\ [Next]_vars => IInv'
  <2> SUFFICES ASSUME IInv, [Next]_vars
               PROVE  IInv'
    OBVIOUS
  <2>1. ASSUME NEW p \in Landings, OnReset(p)
        PROVE  IInv'
    <3>1. /\ UNCHANGED <<trace, phase, windows>>
          /\ episode' = episode + 1
          /\ step' = 0
          /\ page' = p
      BY <2>1 DEF OnReset
    <3>2. \A j \in DOMAIN trace : trace[j].episode \in Nat
      <4>1. \A j \in DOMAIN trace : trace[j] \in Records
        BY DEF IInv
      <4> QED
        BY <4>1 DEF Records
    <3>3. Len(trace) \in Nat /\ DOMAIN trace = 1 .. Len(trace)
      BY DEF IInv
    <3>4. Counting'
      BY <3>1, <3>2, <3>3 DEF IInv, Counting
    <3>5. Numbered' /\ Chained'
      BY <3>1 DEF IInv, Numbered, Chained
    <3> QED
      BY <3>1, <3>4, <3>5, ScoringAssumption DEF IInv, ValidateCorpus
  <2>2. ASSUME NEW a \in Acts, NEW p \in Pages, OnStep(a, p)
        PROVE  IInv'
    <3>1. phase = "capture" /\ phase' = phase /\ episode' = episode /\ page' = p
      BY <2>2 DEF OnStep
    <3> QED
      BY <2>2, <3>1, StepKeepsTrace DEF IInv
  <2>3. ASSUME UNCHANGED <<trace, episode, step, page>>,
               phase' = "refused" => ValidateCorpus(trace', windows') # {}
        PROVE  IInv'
    BY <2>3 DEF IInv, Numbered, Counting, Chained
  <2>4. CASE Close
    BY <2>3, <2>4 DEF Close
  <2>5. CASE GateWindows
    BY <2>3, <2>5 DEF GateWindows
  <2>6. CASE Validate
    BY <2>3, <2>6 DEF Validate, ValidateCorpus
  <2>7. ASSUME NEW answer \in Answers, JudgeWindow(answer)
        PROVE  IInv'
    BY <2>3, <2>7 DEF JudgeWindow
  <2>8. CASE FileReport
    BY <2>3, <2>8 DEF FileReport
  <2>9. CASE UNCHANGED vars
    BY <2>3, <2>9 DEF vars, IInv, ValidateCorpus
  <2> QED
    BY <2>1, <2>2, <2>4, <2>5, <2>6, <2>7, <2>8, <2>9 DEF Next
<1> QED
  BY <1>1, <1>2, PTL DEF Spec

\* The renderer denies a change only where the documents are the same and the
\* URLs share their relative path, and the script refuses a corpus only over a record that breaks a rule however
\* it is rendered.
THEOREM RefusesOnlyOverRecords == Spec => []RenderingIsHonest
<1>1. IInv => RenderingIsHonest
  <2> SUFFICES ASSUME IInv
               PROVE  RenderingIsHonest
    OBVIOUS
  <2>1. \A i \in DOMAIN trace : trace[i] \in Records
    BY DEF IInv
  <2>2. \A i \in DOMAIN trace :
          StateChanged(trace[i]) /\ "NO OBSERVABLE CHANGE" \in RenderStep(trace[i]) =>
            ~HtmlChanged(trace[i]) /\ ~Navigated(trace[i])
    BY <2>1, RecordRenderedHonestly
  <2>3. ASSUME phase = "refused"
        PROVE  \E i \in Validated(trace, windows) : OwnFault(trace[i])
    <3>1. PICK i \in Validated(trace, windows) : ValidateStep(trace[i]) # {}
      BY <2>3 DEF IInv, ValidateCorpus
    <3>2. trace[i] \in Records
      BY <2>1 DEF Validated
    <3>3. CASE trace[i].outcome.quoted = {}
      <4>1. "offsite-console" \in ValidateStep(trace[i])
        BY <3>1, <3>2, <3>3, RecordRenderedHonestly
      <4>. QED
        BY <3>2, <4>1, RecordRenderedHonestly DEF OwnFault
    <3>. QED
      BY <3>3 DEF OwnFault
  <2> QED
    BY <2>2, <2>3 DEF RenderingIsHonest
<1> QED
  BY <1>1, InductiveInvariant, PTL

\* Every window is an unbroken, full-sized piece of one episode, whatever its
\* size and however the trace is cut into episodes.
THEOREM WindowsUnbroken == Spec => []WindowsAreUnbroken
<1>1. IInv => WindowsAreUnbroken
  <2> SUFFICES ASSUME IInv, NEW i \in DOMAIN trace
               PROVE  LET w == WindowOf(trace, i)
                      IN /\ i \in w
                         /\ Cardinality(w) = IF trace[i].step < WindowSteps
                                             THEN trace[i].step ELSE WindowSteps
                         /\ \A j \in w : j + 1 \in w =>
                              /\ trace[j].episode = trace[j + 1].episode
                              /\ trace[j].after = trace[j + 1].before
    BY DEF WindowsAreUnbroken
  <2> DEFINE s == trace[i].step
             size == IF s < WindowSteps THEN s ELSE WindowSteps
  <2>1. i \in Nat /\ i \in 1 .. Len(trace) /\ Len(trace) \in Nat /\ DOMAIN trace = 1 .. Len(trace)
    BY DEF IInv
  <2>2. s \in 1 .. i
    BY DEF IInv, Numbered
  <2>3. \A j \in 1 .. i : trace[j].step \in Nat
    <3>1. \A j \in 1 .. i : trace[j] \in Records
      BY <2>1 DEF IInv
    <3> QED
      BY <3>1 DEF Records
  <2>4. size \in 1 .. i
    BY <2>1, <2>2, WindowAssumption
  <2>5. WindowOf(trace, i) = (i - size + 1) .. i
    <3>1. ASSUME NEW j \in 1 .. i
          PROVE  j \in WindowOf(trace, i) <=> i - j < s /\ i - j < WindowSteps
      <4>1. /\ trace[j].episode = trace[i].episode <=> i - j < s
            /\ trace[j].episode = trace[i].episode => trace[j].step = s - (i - j)
        BY DEF IInv, Numbered
      <4> QED
        BY <2>1, <2>2, <2>3, <4>1 DEF WindowOf, EpisodeUpTo
    <3>2. WindowOf(trace, i) \subseteq 1 .. i
      BY DEF WindowOf, EpisodeUpTo
    <3>3. ASSUME NEW j \in 1 .. i
          PROVE  i - j < s /\ i - j < WindowSteps <=> j \in (i - size + 1) .. i
      BY <2>1, <2>2, <2>4, WindowAssumption
    <3>4. (i - size + 1) .. i \subseteq 1 .. i
      BY <2>1, <2>4
    <3> QED
      BY <3>1, <3>2, <3>3, <3>4
  <2> HIDE DEF s, size
  <2>6. Cardinality(WindowOf(trace, i)) = size
    <3>1. i - size + 1 \in Int /\ i \in Int /\ ~(i - size + 1 > i)
      BY <2>1, <2>4
    <3>2. Cardinality((i - size + 1) .. i) = i - (i - size + 1) + 1
      BY <3>1, FS_Interval
    <3> QED
      BY <2>1, <2>4, <2>5, <3>2
  <2>7. i \in WindowOf(trace, i)
    BY <2>1, <2>4, <2>5
  <2>8. ASSUME NEW j \in WindowOf(trace, i), j + 1 \in WindowOf(trace, i)
        PROVE  /\ trace[j].episode = trace[j + 1].episode
               /\ trace[j].after = trace[j + 1].before
    <3>1. j \in 1 .. i /\ j + 1 \in 1 .. i
      BY <2>8 DEF WindowOf, EpisodeUpTo
    <3>2. trace[j].episode = trace[j + 1].episode
      BY <2>8 DEF WindowOf, EpisodeUpTo
    <3> QED
      BY <2>1, <3>1, <3>2 DEF IInv, Chained
  <2> QED
    BY <2>6, <2>7, <2>8 DEF size, s
<1> QED
  BY <1>1, InductiveInvariant, PTL

-----------------------------------------------------------------------------
(* The way of a window.                                                    *)

\* The recorder stays within its bounds.
LEMMA BoundedInvariant == Spec => []Bounded
<1>1. Init => Bounded
  BY ScoringAssumption DEF Init, Bounded, Phases
<1>2. IInv /\ Bounded /\ [Next]_vars => Bounded'
  <2> SUFFICES ASSUME IInv, Bounded, [Next]_vars
               PROVE  Bounded'
    OBVIOUS
  <2>1. ASSUME NEW p \in Landings, OnReset(p)
        PROVE  Bounded'
    BY <2>1, ScoringAssumption DEF Bounded, OnReset, Phases
  <2>2. ASSUME NEW a \in Acts, NEW p \in Pages, OnStep(a, p)
        PROVE  Bounded'
    <3> DEFINE r == [episode |-> episode, step |-> step + 1, before |-> page,
                     after |-> p, outcome |-> a]
    <3>1. trace' = Append(trace, r) /\ r.episode = episode
      BY <2>2 DEF OnStep
    <3>2. /\ Len(trace') = Len(trace) + 1 /\ Len(trace) \in Nat
          /\ DOMAIN trace = 1 .. Len(trace) /\ DOMAIN trace' = 1 .. Len(trace) + 1
          /\ \A i \in 1 .. Len(trace) : trace'[i] = trace[i]
          /\ trace'[Len(trace) + 1] = r
      <4>. HIDE DEF r
      <4>. QED
        BY <3>1 DEF IInv
    <3>3. /\ phase' = phase /\ episode' = episode
          /\ episode > 0 /\ Len(trace) < MaxSteps
      BY <2>2 DEF OnStep
    <3>. HIDE DEF r
    <3>4. \A i \in DOMAIN trace' : trace'[i].episode \in 1 .. MaxEpisodes
      <4> TAKE i \in DOMAIN trace'
      <4>1. CASE i \in 1 .. Len(trace)
        BY <3>2, <4>1 DEF Bounded
      <4>2. CASE i = Len(trace) + 1
        BY <3>1, <3>2, <3>3, <4>2, ScoringAssumption DEF Bounded
      <4>. QED
        BY <3>2, <4>1, <4>2
    <3>. QED
      BY <3>2, <3>3, <3>4, ScoringAssumption DEF Bounded
  <2>3. ASSUME UNCHANGED <<trace, episode>>, phase' \in Phases
        PROVE  Bounded'
    BY <2>3 DEF Bounded
  <2>4. CASE Close
    BY <2>3, <2>4 DEF Close, Phases
  <2>5. CASE GateWindows
    BY <2>3, <2>5 DEF GateWindows, Phases
  <2>6. CASE Validate
    BY <2>3, <2>6 DEF Validate, Phases
  <2>7. ASSUME NEW answer \in Answers, JudgeWindow(answer)
        PROVE  Bounded'
    BY <2>3, <2>7 DEF JudgeWindow, Bounded
  <2>8. CASE FileReport
    BY <2>3, <2>8 DEF FileReport, Phases
  <2>9. CASE UNCHANGED vars
    BY <2>3, <2>9 DEF vars, Bounded
  <2> QED
    BY <2>1, <2>2, <2>4, <2>5, <2>6, <2>7, <2>8, <2>9 DEF Next
<1> QED
  BY <1>1, <1>2, InductiveInvariant, PTL DEF Spec

\* What is cut from a finished trace, and what the gate keeps of it, stays.
LEMMA KeptStays ==
  ASSUME UNCHANGED trace
  PROVE  Kept' = Kept /\ BuildWindows(trace)' = BuildWindows(trace)
BY DEF Kept, DecideForRecord

\* Cutting the trace into windows fills the queue.
LEMMA GateFillsQueue ==
  ASSUME IInv, Queued, GateWindows
  PROVE  Queued'
<1>1. /\ phase = "gate" /\ phase' = "validate"
      /\ UNCHANGED <<trace, judgments>>
      /\ skipped' = BuildWindows(trace) \ Kept
      /\ windows' \subseteq Kept
      /\ Limit = 0 => windows' = Kept
  BY DEF GateWindows, Kept
<1>2. judgments = <<>>
  BY <1>1 DEF Queued
<1>3. Foci' = {} /\ judgments' \in Seq(Judgments) /\ DOMAIN judgments' = {} /\ Len(judgments') = 0
  <2>1. DOMAIN <<>> = {} /\ Len(<<>>) = 0 /\ <<>> \in Seq(Judgments)
    OBVIOUS
  <2>. QED
    BY <1>1, <1>2, <2>1 DEF Foci
<1>4. Len(trace) \in Nat /\ DOMAIN trace = 1 .. Len(trace)
  BY DEF IInv
<1>5. windows' \subseteq 1 .. Len(trace)
  BY <1>1 DEF Kept, BuildWindows
<1>6. Cardinality(windows') \in Nat /\ Cardinality(windows') <= Len(trace)
  <2>1. IsFiniteSet(1 .. Len(trace)) /\ Cardinality(1 .. Len(trace)) = Len(trace)
    <3>1. 1 \in Int /\ Len(trace) \in Int
      BY <1>4
    <3>2. /\ IsFiniteSet(1 .. Len(trace))
          /\ Cardinality(1 .. Len(trace)) = IF 1 > Len(trace) THEN 0 ELSE Len(trace) - 1 + 1
      BY <3>1, FS_Interval
    <3>. QED
      BY <1>4, <3>2
  <2>2. IsFiniteSet(windows') /\ Cardinality(windows') <= Cardinality(1 .. Len(trace))
    BY <1>5, <2>1, FS_Subset
  <2>. QED
    BY <2>1, <2>2, FS_CardinalityType
<1>7. Kept' = Kept /\ BuildWindows(trace)' = BuildWindows(trace)
  BY <1>1, KeptStays
<1>. QED
  BY <1>1, <1>3, <1>4, <1>5, <1>6, <1>7 DEF Queued

\* A call takes the next window from the queue and files its verdict.
LEMMA CallTakesNext ==
  ASSUME IInv, Queued, NEW answer \in Answers, JudgeWindow(answer)
  PROVE  Queued'
<1> DEFINE next == Min(windows)
           j == [focus |-> next, verdict |-> answer]
           n == Len(judgments)
<1>1. /\ phase = "judge" /\ windows # {}
      /\ windows' = windows \ {next}
      /\ judgments' = Append(judgments, j)
      /\ UNCHANGED <<phase, trace, skipped>>
  BY DEF JudgeWindow
<1>2. Len(trace) \in Nat /\ DOMAIN trace = 1 .. Len(trace)
  BY DEF IInv
<1>3. windows \subseteq 1 .. Len(trace)
  BY <1>2 DEF Queued
<1>4. next \in windows
  <2>1. windows \in SUBSET Nat
    BY <1>3
  <2>. QED
    BY <1>1, <2>1, MinOfNaturals
<1>5. j \in Judgments /\ j.focus = next
  <2>. HIDE DEF next
  <2>1. next \in Nat
    BY <1>2, <1>3, <1>4
  <2>. QED
    BY <2>1 DEF Judgments
<1>6. /\ judgments \in Seq(Judgments) /\ n \in Nat
      /\ DOMAIN judgments = 1 .. n
  BY DEF Queued
<1>. HIDE DEF next, j
<1>7. /\ judgments' \in Seq(Judgments)
      /\ Len(judgments') = n + 1
      /\ DOMAIN judgments' = 1 .. n + 1
      /\ judgments'[n + 1] = j
      /\ \A k \in 1 .. n : judgments'[k] = judgments[k]
  BY <1>1, <1>5, <1>6
<1>. HIDE DEF n
<1>8. Foci' = Foci \cup {next}
  <2>1. 1 .. n + 1 = (1 .. n) \cup {n + 1}
    BY <1>6
  <2>. QED
    BY <1>5, <1>6, <1>7, <2>1 DEF Foci
<1>9. Foci' \cap windows' = {}
  BY <1>1, <1>8 DEF Queued
<1>10. ASSUME NEW k \in DOMAIN judgments', NEW m \in DOMAIN judgments',
              judgments'[k].focus = judgments'[m].focus
       PROVE  k = m
  <2>1. next \notin Foci
    BY <1>4 DEF Queued
  <2>2. \A i \in 1 .. n : judgments'[i].focus \in Foci
    BY <1>6, <1>7 DEF Foci
  <2>3. judgments'[n + 1].focus = next
    BY <1>5, <1>7
  <2>4. CASE k \in 1 .. n /\ m \in 1 .. n
    BY <1>6, <1>7, <1>10, <2>4 DEF Queued
  <2>5. CASE k = n + 1 \/ m = n + 1
    <3>1. CASE k = n + 1 /\ m \in 1 .. n
      BY <1>10, <2>1, <2>2, <2>3, <3>1
    <3>2. CASE m = n + 1 /\ k \in 1 .. n
      BY <1>10, <2>1, <2>2, <2>3, <3>2
    <3>. QED
      BY <1>6, <1>7, <2>5, <3>1, <3>2
  <2>. QED
    BY <1>6, <1>7, <2>4, <2>5
<1>11. Len(judgments') + Cardinality(windows') <= Len(trace')
  <2>1. IsFiniteSet(windows)
    <3>1. 1 \in Int /\ Len(trace) \in Int
      BY <1>2
    <3>2. IsFiniteSet(1 .. Len(trace))
      BY <3>1, FS_Interval
    <3>. QED
      BY <1>3, <3>2, FS_Subset
  <2>2. Cardinality(windows \ {next}) = Cardinality(windows) - 1
    BY <1>4, <2>1, FS_RemoveElement
  <2>3. Cardinality(windows) \in Nat
    BY <2>1, FS_CardinalityType
  <2>4. n + Cardinality(windows) <= Len(trace)
    BY DEF Queued, n
  <2>. QED
    BY <1>1, <1>2, <1>6, <1>7, <2>2, <2>3, <2>4
<1>12. Foci' \cup windows' = Foci \cup windows
  BY <1>1, <1>4, <1>8
<1>13. windows' \subseteq DOMAIN trace'
  BY <1>1 DEF Queued
<1>14. Kept' = Kept /\ BuildWindows(trace)' = BuildWindows(trace)
  BY <1>1, KeptStays
<1>15. /\ skipped = BuildWindows(trace) \ Kept
       /\ Foci \cup windows \subseteq Kept
       /\ Limit = 0 => Kept \subseteq Foci \cup windows
  BY <1>1 DEF Queued
<1>. QED
  BY <1>1, <1>7, <1>9, <1>10, <1>11, <1>12, <1>13, <1>14, <1>15 DEF Queued

\* Nothing but these two touches the queue.
LEMMA QueuedInvariant == Spec => []Queued
<1>1. Init => Queued
  <2> SUFFICES ASSUME Init PROVE Queued
    OBVIOUS
  <2>1. trace = <<>> /\ judgments = <<>> /\ windows = {} /\ skipped = {} /\ phase = "capture"
    BY DEF Init
  <2>2. /\ DOMAIN judgments = {} /\ Len(judgments) = 0 /\ judgments \in Seq(Judgments)
        /\ Len(trace) = 0
    BY <2>1
  <2>3. Cardinality(windows) = 0
    BY <2>1, FS_EmptySet
  <2>. QED
    BY <2>1, <2>2, <2>3 DEF Queued, Foci
<1>2. IInv /\ Queued /\ [Next]_vars => Queued'
  <2> SUFFICES ASSUME IInv, Queued, [Next]_vars
               PROVE  Queued'
    OBVIOUS
  <2>1. ASSUME phase \in {"capture", "gate"}, phase' \in {"capture", "gate"},
               UNCHANGED <<windows, skipped, judgments>>,
               trace' \in Seq(Records), Len(trace) <= Len(trace')
        PROVE  Queued'
    <3>1. windows = {} /\ skipped = {} /\ judgments = <<>>
      BY <2>1 DEF Queued
    <3>2. DOMAIN judgments = {} /\ Len(judgments) = 0 /\ judgments \in Seq(Judgments)
      BY <3>1
    <3>3. Cardinality(windows) = 0
      BY <3>1, FS_EmptySet
    <3>4. Len(trace') \in Nat
      BY <2>1
    <3>. QED
      BY <2>1, <3>1, <3>2, <3>3, <3>4 DEF Queued, Foci
  <2>2. ASSUME UNCHANGED <<trace, windows, skipped, judgments>>,
               phase \in {"capture", "gate"} <=> phase' \in {"capture", "gate"}
        PROVE  Queued'
    <3>1. Kept' = Kept /\ BuildWindows(trace)' = BuildWindows(trace) /\ Foci' = Foci
      BY <2>2, KeptStays DEF Foci
    <3>. QED
      BY <2>2, <3>1 DEF Queued
  <2>3. ASSUME NEW p \in Landings, OnReset(p)
        PROVE  Queued'
    BY <2>1, <2>3 DEF OnReset, IInv
  <2>4. ASSUME NEW a \in Acts, NEW p \in Pages, OnStep(a, p)
        PROVE  Queued'
    <3>1. trace' \in Seq(Records)
      BY <2>4, StepKeepsTrace
    <3>2. Len(trace) <= Len(trace')
      BY <2>4 DEF OnStep, IInv
    <3>. QED
      BY <2>1, <2>4, <3>1, <3>2 DEF OnStep
  <2>5. CASE Close
    BY <2>1, <2>5 DEF Close, IInv
  <2>6. CASE GateWindows
    BY <2>6, GateFillsQueue
  <2>7. CASE Validate
    BY <2>2, <2>7 DEF Validate
  <2>8. ASSUME NEW answer \in Answers, JudgeWindow(answer)
        PROVE  Queued'
    BY <2>8, CallTakesNext
  <2>9. CASE FileReport
    BY <2>2, <2>9 DEF FileReport
  <2>10. CASE UNCHANGED vars
    BY <2>2, <2>10 DEF vars
  <2> QED
    BY <2>3, <2>4, <2>5, <2>6, <2>7, <2>8, <2>9, <2>10 DEF Next
<1> QED
  BY <1>1, <1>2, InductiveInvariant, PTL DEF Spec

\* The report is filed over every judgment.
LEMMA FiledInvariant == Spec => []Filed
<1>1. Init => Filed
  BY DEF Init, Filed
<1>2. IInv /\ Queued /\ Queued' /\ Filed /\ [Next]_vars => Filed'
  <2> SUFFICES ASSUME IInv, Queued, Queued', Filed, [Next]_vars
               PROVE  Filed'
    OBVIOUS
  <2>1. CASE FileReport
    <3>1. \A n \in DOMAIN judgments : trace[judgments[n].focus].episode \in Nat
      <4> TAKE n \in DOMAIN judgments
      <4>1. judgments[n].focus \in Kept'
        BY <2>1 DEF FileReport, Queued, Foci
      <4>2. judgments[n].focus \in DOMAIN trace
        BY <2>1, <4>1 DEF Kept, BuildWindows, FileReport, IInv
      <4>3. trace[judgments[n].focus] \in Records
        BY <4>2 DEF IInv
      <4>. QED
        BY <4>3 DEF Records
    <3>2. Tallied(Score(judgments), Len(judgments))
      BY <3>1, ScoreTallied DEF Queued
    <3>3. /\ windows' = {} /\ report' = Score(judgments)
          /\ UNCHANGED <<trace, judgments, labels>>
      BY <2>1 DEF FileReport
    <3>4. Tallied(report, Len(judgments))'
      BY <3>2, <3>3 DEF Tallied, Answered, Labelled
    <3>. QED
      BY <3>3, <3>4 DEF Filed
  <2>2. CASE UNCHANGED vars
    BY <2>2 DEF vars, Filed, Tallied, Answered, Labelled
  <2>3. CASE phase' # "scored"
    BY <2>3 DEF Filed
  <2>. QED
    BY <2>1, <2>2, <2>3
       DEF Next, OnReset, OnStep, Close, GateWindows, Validate, JudgeWindow
<1> QED
  BY <1>1, <1>2, InductiveInvariant, QueuedInvariant, PTL DEF Spec

\* Every variable keeps its type; there are never more judgments and queued
\* windows than steps.
THEOREM TypeCorrect == Spec => []TypeOK
<1>1. IInv /\ Bounded /\ Queued => TypeOK
  <2> SUFFICES ASSUME IInv, Bounded, Queued
               PROVE  TypeOK
    OBVIOUS
  <2>1. DOMAIN trace = 1 .. Len(trace) /\ Len(trace) \in Nat
    BY DEF IInv
  <2>2. \A i \in DOMAIN trace : trace[i].step \in 1 .. i
    BY DEF IInv, Numbered
  <2>3. step \in 0 .. Len(trace)
    BY <2>1 DEF IInv, Counting
  <2>4. skipped \subseteq DOMAIN trace
    BY <2>1 DEF Queued, BuildWindows
  <2>. QED
    BY <2>1, <2>2, <2>3, <2>4 DEF IInv, Bounded, Queued, TypeOK
<1> QED
  BY <1>1, InductiveInvariant, BoundedInvariant, QueuedInvariant, PTL

\* When the score is filed every step of the trace is accounted for once, for
\* every trace and every gate: idle, skipped, or judged exactly once; and what
\* was not judged had changed nothing and fired nothing.
THEOREM EveryStepAccountedFor == Spec => []StepsAccountedFor
<1>1. IInv /\ Queued /\ Filed => StepsAccountedFor
  <2> SUFFICES ASSUME IInv, Queued, Filed, phase = "scored", Limit = 0,
                      NEW i \in DOMAIN trace
               PROVE  LET judged == {n \in DOMAIN judgments : judgments[n].focus = i}
                      IN /\ Cardinality(judged) <= 1
                         /\ judged = {} <=> i \in skipped \/ (SkipIdle /\ IsIdle(trace[i]))
                         /\ judged = {} =>
                              /\ ~StateChanged(trace[i])
                              /\ ~trace[i].outcome.triggered
                              /\ trace[i].outcome.settled
    BY DEF StepsAccountedFor
  <2> DEFINE judged == {n \in DOMAIN judgments : judgments[n].focus = i}
  <2>1. i \in 1 .. Len(trace)
    BY DEF IInv
  <2>2. Foci = Kept /\ skipped = BuildWindows(trace) \ Kept
    BY DEF Queued, Filed
  <2>3. Cardinality(judged) <= 1
    <3>1. CASE judged = {}
      BY <3>1, FS_EmptySet
    <3>2. CASE judged # {}
      <4>1. PICK n \in judged : judged = {n}
        BY <3>2 DEF Queued
      <4>2. Cardinality({n}) = 1
        BY FS_Singleton
      <4>. QED
        BY <4>1, <4>2
    <3>. QED
      BY <3>1, <3>2
  <2>4. judged = {} <=> i \notin Kept
    BY <2>2 DEF Foci
  <2>5. i \in BuildWindows(trace) <=> ~(SkipIdle /\ IsIdle(trace[i]))
    BY <2>1 DEF BuildWindows
  <2>6. i \in Kept => i \in BuildWindows(trace)
    BY DEF Kept
  <2>7. ASSUME i \in BuildWindows(trace), i \notin Kept
        PROVE  /\ ~StateChanged(trace[i])
               /\ ~trace[i].outcome.triggered
               /\ trace[i].outcome.settled
    <3>1. ~DecideForRecord(i)
      BY <2>7 DEF Kept
    <3>. QED
      BY <3>1 DEF DecideForRecord, ShouldJudge
  <2>8. IsIdle(trace[i]) => /\ ~StateChanged(trace[i])
                            /\ ~trace[i].outcome.triggered
                            /\ trace[i].outcome.settled
    BY DEF IsIdle
  <2>. HIDE DEF judged
  <2>9. /\ Cardinality(judged) <= 1
        /\ judged = {} <=> i \in skipped \/ (SkipIdle /\ IsIdle(trace[i]))
        /\ judged = {} =>
             /\ ~StateChanged(trace[i])
             /\ ~trace[i].outcome.triggered
             /\ trace[i].outcome.settled
    BY <2>2, <2>3, <2>4, <2>5, <2>6, <2>7, <2>8
  <2>. QED
    BY <2>9 DEF judged
<1> QED
  BY <1>1, InductiveInvariant, QueuedInvariant, FiledInvariant, PTL

\* An outage is never a miss: a bug is detected or missed only by an answer
\* about an episode that exercises it, every call is counted once, and every
\* positive once, whatever the labels and in whatever order the calls fail.
THEOREM OutagesAreNoMiss == Spec => []OutageIsNoMiss
<1>1. Queued /\ Filed => OutageIsNoMiss
  <2> SUFFICES ASSUME Queued, Filed, phase = "scored"
               PROVE  /\ \A b \in Bugs :
                           /\ b \in Detected(report) <=> Judged(b, TRUE)
                           /\ b \in Missed(report) <=> Judged(b, FALSE) /\ ~Judged(b, TRUE)
                      /\ ~Labelled => report.control = 0 /\ report.bug = 0
                      /\ report.windows = report.failed + report.unattributed
                                            + report.control + report.bug
                      /\ report.positives = report.unattributedPositives
                                              + report.controlPositives + report.bugPositives
    BY DEF OutageIsNoMiss
  <2> DEFINE N == Len(judgments)
             ep(n) == trace[judgments[n].focus].episode
             hits == {m \in Answered(N) : judgments[m].verdict.bug}
  <2>1. /\ report.windows = N
        /\ N = report.failed + report.unattributed + report.control + report.bug
        /\ report.positives = report.unattributedPositives
                                + report.controlPositives + report.bugPositives
        /\ ~Labelled => report.control = 0 /\ report.bug = 0
        /\ report.scored = IF Labelled THEN {ep(n) : n \in Answered(N)} ELSE {}
        /\ report.hit = IF Labelled THEN {ep(n) : n \in hits} ELSE {}
    BY DEF Filed, Tallied
  <2>2. DOMAIN judgments = 1 .. N
    BY DEF Queued
  <2>3. \A n \in 1 .. N : judgments[n].verdict.ok \in BOOLEAN /\ judgments[n].verdict.bug \in BOOLEAN
    <3> TAKE n \in 1 .. N
    <3>1. judgments[n] \in Judgments
      BY <2>2 DEF Queued
    <3>2. judgments[n].verdict \in [ok : BOOLEAN, bug : BOOLEAN, grounded : BOOLEAN]
      BY <3>1, ScoringAssumption DEF Judgments
    <3>. QED
      BY <3>2
  <2>4. Answered(N) = {n \in 1 .. N : judgments[n].verdict.ok}
    BY DEF Answered
  <2>5. ~Labelled => \A e : Expected(e) = {}
    <3>1. DOMAIN <<>> = {}
      OBVIOUS
    <3>. QED
      BY <3>1 DEF Labelled, Expected
  <2>6. ASSUME NEW b
        PROVE  /\ Judged(b, TRUE) <=> \E n \in hits : b \in Expected(ep(n))
               /\ Judged(b, FALSE) \/ Judged(b, TRUE)
                    <=> \E n \in Answered(N) : b \in Expected(ep(n))
    BY <2>2, <2>3, <2>4 DEF Judged
  <2>7. ASSUME NEW b
        PROVE  /\ b \in Detected(report) <=> \E n \in hits : b \in Expected(ep(n))
               /\ b \in UNION {Expected(e) : e \in report.scored}
                    <=> \E n \in Answered(N) : b \in Expected(ep(n))
    <3>1. CASE Labelled
      <4>1. report.scored \cap report.hit = {ep(n) : n \in hits}
        BY <2>1, <3>1
      <4>. HIDE DEF hits
      <4>. QED
        BY <2>1, <3>1, <4>1 DEF Detected
    <3>2. CASE ~Labelled
      BY <2>1, <2>5, <3>2 DEF Detected
    <3>. QED
      BY <3>1, <3>2
  <2>8. \A b \in Bugs :
          /\ b \in Detected(report) <=> Judged(b, TRUE)
          /\ b \in Missed(report) <=> Judged(b, FALSE) /\ ~Judged(b, TRUE)
    <3> TAKE b \in Bugs
    <3>. HIDE DEF hits
    <3>. QED
      BY <2>6, <2>7 DEF Missed
  <2>. QED
    BY <2>1, <2>8
<1> QED
  BY <1>1, QueuedInvariant, FiledInvariant, PTL

-----------------------------------------------------------------------------
(* What the view leaves out.                                               *)

\* A page whose text and links fit the view.
Whole(html) ==
  /\ html.text \in Seq(ToSet(html.text)) /\ Len(html.text) <= TextMax
  /\ html.links \in Seq(ToSet(html.links)) /\ Len(html.links) <= ListMax

\* What fits is kept.
LEMMA UptoKeepsAll ==
  ASSUME NEW S, NEW list \in Seq(S), NEW n \in Nat, Len(list) <= n
  PROVE  Upto(list, n) = list
<1>1. Len(list) \in Nat /\ SubSeq(list, 1, Len(list)) = list
  OBVIOUS
<1>2. CASE Len(list) < n
  BY <1>1, <1>2 DEF Upto
<1>3. CASE ~(Len(list) < n)
  <2>1. Len(list) = n
    <3>1. \A m \in Nat : m <= n /\ ~(m < n) => m = n
      OBVIOUS
    <3> DEFINE m == Len(list)
    <3>2. m \in Nat /\ m <= n /\ ~(m < n)
      BY <1>1, <1>3
    <3>. HIDE DEF m
    <3>3. m = n
      BY <3>1, <3>2
    <3>. QED
      BY <3>3 DEF m
  <2>. QED
    BY <1>1, <1>3, <2>1 DEF Upto
<1>. QED
  BY <1>2, <1>3

\* Where the pages fit the view, what a window says is gone is gone: that the
\* view is cut is the only way in which it can be wrong (window_gone).
THEOREM WholePagesGoneIsGone ==
  ASSUME \A p \in Pages : Whole(p.html)
  PROVE  Spec => []GoneIsGone
<1>1. IInv => GoneIsGone
  <2> SUFFICES ASSUME IInv, NEW i \in DOMAIN trace
               PROVE  /\ TextGone(trace[i]) \cap ToSet(trace[i].after.html.text) = {}
                      /\ NoLongerReachable(trace[i]) \cap ToSet(trace[i].after.html.links) = {}
    BY DEF GoneIsGone
  <2> DEFINE r == trace[i]
             html == r.after.html
  <2>1. r.after \in Pages
    <3>1. r \in Records
      BY DEF IInv
    <3>. QED
      BY <3>1 DEF Records
  <2>2. Whole(html)
    BY <2>1
  <2>. HIDE DEF html
  <2>3. Upto(html.text, TextMax) = html.text /\ Upto(html.links, ListMax) = html.links
    BY <2>2, UptoKeepsAll, WindowAssumption DEF Whole
  <2>4. PageView(html).text = ToSet(html.text) /\ PageView(html).links = ToSet(html.links)
    BY <2>3 DEF PageView
  <2>5. After(r).text = ToSet(html.text) /\ After(r).links = ToSet(html.links)
    BY <2>4 DEF After, html
  <2>. HIDE DEF r
  <2>6. TextGone(r) \cap After(r).text = {} /\ NoLongerReachable(r) \cap After(r).links = {}
    BY DEF TextGone, NoLongerReachable
  <2>. QED
    BY <2>5, <2>6 DEF r, html
<1> QED
  BY <1>1, InductiveInvariant, PTL
=============================================================================
