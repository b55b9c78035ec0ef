-------------------------- MODULE AgentLoopProofs --------------------------
(***************************************************************************)
(* For any number of environments, any pages and elements, any cache: the  *)
(* action a masked agent executes is one its environment offers, every     *)
(* part of a vector is of one observation, and an action reaches its own   *)
(* element where the page tells its elements apart.                        *)
(*                                                                         *)
(* The argument: IInv carries the count of the actions through info,       *)
(* reset_infos and vector; Told carries the rest, once result and info are *)
(* paired. Comprehensions and the cache are loops: that a list of any      *)
(* length has a value, and what it is, are inductions over the rounds.     *)
(***************************************************************************)
EXTENDS AgentLoop, FiniteSetTheorems, WellFoundedInduction, TLAPS

Phases == {"choose", "step", "deliver", "terminals"}

\* The specs are those of the page scanned last, and what VecEnv returns for
\* an environment, once paired, counts them.
CountsAreCurrent ==
  /\ scanned \in [Envs -> Pages]
  /\ specs = [i \in Envs |-> SpecsOf[scanned[i]]]
  /\ result = [i \in Envs |-> result[i]] /\ resetInfo = [i \in Envs |-> resetInfo[i]]
  /\ \A i \in Envs : Source(result[i], resetInfo[i]).count = Len(specs[i])

MaskIsCurrent ==
  phase \in {"choose", "terminals"} =>
    \A i \in Envs : vector[i].count = Len(specs[i])

ChoicesAreIndexes == choice \in [Envs -> Nat]

IInv ==
  /\ phase \in Phases /\ at \in Envs
  /\ CountsAreCurrent
  /\ MaskIsCurrent
  /\ ChoicesAreIndexes
  /\ ChoiceIsOffered

-----------------------------------------------------------------------------
(* Loops.                                                                  *)

\* Induction over 0 .. n, for a set: a number that is not reached would have
\* a least one like it.
LEMMA InductionUpto ==
  ASSUME NEW n \in Nat, NEW T, 0 \in T, \A k \in 1 .. n : k - 1 \in T => k \in T
  PROVE  \A k \in 0 .. n : k \in T
<1> SUFFICES ASSUME NEW k \in 0 .. n, k \notin T PROVE FALSE
  OBVIOUS
<1> DEFINE C == {j \in 0 .. n : j \notin T}
           R == OpToRel(<, Nat)
<1>1. PICK m \in C : \A j \in C : <<j, m>> \notin R
  <2>1. C \subseteq Nat /\ C # {}
    OBVIOUS
  <2>. HIDE DEF C
  <2>. QED
    BY <2>1, WFMin, NatLessThanWellFounded
<1>2. m \in 1 .. n /\ m - 1 \in Nat /\ m \in Nat
  OBVIOUS
<1>3. <<m - 1, m>> \in R
  BY <1>2 DEF OpToRel
<1>4. m - 1 \notin C
  <2>. HIDE DEF C, R
  <2>. QED
    BY <1>1, <1>3
<1>5. m - 1 \in T
  BY <1>2, <1>4
<1>. QED
  BY <1>2, <1>5

\* The values of a loop's variable, before the first round and after each.
IsLoop(r, n, A, F, base) ==
  /\ r \in [0 .. n -> A]
  /\ r[0] = base
  /\ \A k \in 1 .. n : r[k] = F[<<r[k - 1], k>>]

\* A loop whose rounds stay in a set has values.
LEMMA LoopExists ==
  ASSUME NEW A, NEW n \in Nat, NEW F \in [A \X (1 .. n) -> A], NEW base \in A
  PROVE  \E r : IsLoop(r, n, A, F, base)
<1> DEFINE Has(m) == \E r : IsLoop(r, m, A, F, base)
           T == {m \in 0 .. n : Has(m)}
<1>1. 0 \in T
  <2> DEFINE r == [k \in 0 .. 0 |-> base]
  <2>1. IsLoop(r, 0, A, F, base)
    BY DEF IsLoop
  <2>. QED
    BY <2>1
<1>2. ASSUME NEW m \in 1 .. n, m - 1 \in T
      PROVE  m \in T
  <2>1. PICK old : IsLoop(old, m - 1, A, F, base)
    BY <1>2
  <2> DEFINE new == [k \in 0 .. m |-> IF k = m THEN F[<<old[m - 1], m>>] ELSE old[k]]
  <2>2. /\ old \in [0 .. m - 1 -> A] /\ old[0] = base
        /\ \A k \in 1 .. m - 1 : old[k] = F[<<old[k - 1], k>>]
    BY <2>1 DEF IsLoop
  <2>3. new \in [0 .. m -> A] /\ new[0] = base
    BY <2>2
  <2>4. ASSUME NEW k \in 1 .. m
        PROVE  new[k] = F[<<new[k - 1], k>>]
    <3>1. new[k - 1] = old[k - 1]
      OBVIOUS
    <3>2. CASE k = m
      <4>1. new[m] = F[<<old[m - 1], m>>]
        OBVIOUS
      <4>. QED
        BY <3>1, <3>2, <4>1
    <3>3. CASE k # m
      BY <2>2, <3>1, <3>3
    <3>. QED
      BY <3>2, <3>3
  <2>5. IsLoop(new, m, A, F, base)
    <3>. HIDE DEF new
    <3>. QED
      BY <2>3, <2>4 DEF IsLoop
  <2>. QED
    BY <2>5
<1>. HIDE DEF T, Has
<1>3. n \in T
  BY <1>1, <1>2, InductionUpto
<1>4. Has(n)
  BY <1>3 DEF T
<1>. QED
  BY <1>4 DEF Has

-----------------------------------------------------------------------------
(* Lists of actions.                                                       *)

\* A comprehension keeps elements of the list that are wanted.
LEMMA FilterTyped ==
  ASSUME NEW S, NEW list \in Seq(S), NEW wanted
  PROVE  Filter(list, wanted) \in Seq(S \cap wanted)
<1> DEFINE A == Seq(S \cap wanted)
           n == Len(list)
           F == [p \in A \X (1 .. n) |-> IF list[p[2]] \in wanted
                                         THEN Append(p[1], list[p[2]]) ELSE p[1]]
           Loop(f) == f = [k \in 0 .. n |->
                             IF k = 0 THEN <<>>
                             ELSE IF list[k] \in wanted
                                  THEN Append(f[k - 1], list[k]) ELSE f[k - 1]]
           kept == CHOOSE f : Loop(f)
           T == {k \in 0 .. n : kept[k] \in A}
<1>1. n \in Nat /\ \A k \in 1 .. n : list[k] \in S
  OBVIOUS
<1>2. <<>> \in A
  OBVIOUS
<1>3. \A s \in A, k \in 1 .. n :
        (IF list[k] \in wanted THEN Append(s, list[k]) ELSE s) \in A
  BY <1>1
<1>4. F \in [A \X (1 .. n) -> A]
  <2>. HIDE DEF A
  <2>. QED
    BY <1>3
<1>5. \E f : Loop(f)
  <2>1. PICK f : IsLoop(f, n, A, F, <<>>)
    <3>. HIDE DEF F, A, n
    <3>. QED
      BY <1>1, <1>2, <1>4, LoopExists
  <2>. HIDE DEF A
  <2>2. /\ f \in [0 .. n -> A] /\ f[0] = <<>>
        /\ \A k \in 1 .. n : f[k] = F[<<f[k - 1], k>>]
    BY <2>1 DEF IsLoop
  <2>3. \A k \in 1 .. n : f[k] = IF list[k] \in wanted
                                 THEN Append(f[k - 1], list[k]) ELSE f[k - 1]
    <3> TAKE k \in 1 .. n
    <3>1. f[k - 1] \in A
      BY <1>1, <2>2
    <3>2. F[<<f[k - 1], k>>] = IF list[k] \in wanted
                               THEN Append(f[k - 1], list[k]) ELSE f[k - 1]
      BY <3>1
    <3>. QED
      BY <2>2, <3>2
  <2>4. \A k \in 0 .. n : f[k] = IF k = 0 THEN <<>>
                                 ELSE IF list[k] \in wanted
                                      THEN Append(f[k - 1], list[k]) ELSE f[k - 1]
    <3> TAKE k \in 0 .. n
    <3>1. k = 0 \/ k \in 1 .. n
      BY <1>1
    <3>. QED
      BY <2>2, <2>3, <3>1
  <2>5. f = [k \in 0 .. n |-> f[k]]
    BY <2>2
  <2>6. Loop(f)
    BY <2>4, <2>5
  <2>. QED
    BY <2>6
<1>6. Loop(kept)
  BY <1>5
<1>7. Filter(list, wanted) = kept[n]
  BY Zenon DEF Filter
<1>. HIDE DEF kept
<1>8. \A k \in 0 .. n : k \in T
  <2>. HIDE DEF A
  <2>1. 0 \in T
    BY <1>1, <1>2, <1>6
  <2>2. ASSUME NEW k \in 1 .. n, k - 1 \in T
        PROVE  k \in T
    <3>1. k \in 0 .. n /\ k # 0 /\ kept[k - 1] \in A
      BY <1>1, <2>2
    <3>2. kept[k] = IF list[k] \in wanted THEN Append(kept[k - 1], list[k]) ELSE kept[k - 1]
      BY <1>6, <3>1
    <3>. QED
      BY <1>3, <3>1, <3>2
  <2>. HIDE DEF T
  <2>. QED
    BY <1>1, <2>1, <2>2, InductionUpto
<1>. QED
  BY <1>1, <1>7, <1>8

\* A flattened sequence of sequences is a sequence of their elements.
LEMMA FlattenTyped ==
  ASSUME NEW S, NEW seqs \in Seq(Seq(S))
  PROVE  FlattenSeq(seqs) \in Seq(S)
<1> DEFINE A == Seq(S)
           n == Len(seqs)
           F == [p \in A \X (1 .. n) |-> IF p[2] = 1 THEN seqs[p[2]] ELSE p[1] \o seqs[p[2]]]
           Loop(f) == f = [i \in 1 .. n |-> IF i = 1 THEN seqs[i] ELSE f[i - 1] \o seqs[i]]
           flat == CHOOSE f : Loop(f)
           T == {k \in 0 .. n : k = 0 \/ flat[k] \in A}
<1>1. n \in Nat /\ \A k \in 1 .. n : seqs[k] \in A
  OBVIOUS
<1>2. <<>> \in A
  OBVIOUS
<1>3. \A s \in A, k \in 1 .. n : s \o seqs[k] \in A
  BY <1>1
<1>4. F \in [A \X (1 .. n) -> A]
  <2>. HIDE DEF A
  <2>. QED
    BY <1>1, <1>3
<1>5. \E f : Loop(f)
  <2>1. PICK r : IsLoop(r, n, A, F, <<>>)
    <3>. HIDE DEF F, A, n
    <3>. QED
      BY <1>1, <1>2, <1>4, LoopExists
  <2>. HIDE DEF A
  <2>2. /\ r \in [0 .. n -> A]
        /\ \A k \in 1 .. n : r[k] = F[<<r[k - 1], k>>]
    BY <2>1 DEF IsLoop
  <2>3. \A k \in 1 .. n : r[k] = IF k = 1 THEN seqs[k] ELSE r[k - 1] \o seqs[k]
    <3> TAKE k \in 1 .. n
    <3>1. r[k - 1] \in A
      BY <1>1, <2>2
    <3>2. F[<<r[k - 1], k>>] = IF k = 1 THEN seqs[k] ELSE r[k - 1] \o seqs[k]
      BY <3>1
    <3>. QED
      BY <2>2, <3>2
  <2> DEFINE f == [k \in 1 .. n |-> r[k]]
  <2>4. \A k \in 1 .. n : f[k] = IF k = 1 THEN seqs[k] ELSE f[k - 1] \o seqs[k]
    <3> TAKE k \in 1 .. n
    <3>1. k # 1 => f[k - 1] = r[k - 1]
      BY <1>1
    <3>. QED
      BY <2>3, <3>1
  <2>5. DOMAIN f = 1 .. n /\ f = [k \in 1 .. n |-> f[k]]
    OBVIOUS
  <2>6. Loop(f)
    <3>. HIDE DEF f
    <3>. QED
      BY <2>4, <2>5
  <2>. QED
    BY <2>6
<1>6. Loop(flat)
  BY <1>5
<1>7. FlattenSeq(seqs) = IF n = 0 THEN seqs ELSE flat[n]
  BY Zenon DEF FlattenSeq
<1>. HIDE DEF flat
<1>8. \A k \in 0 .. n : k \in T
  <2>. HIDE DEF A
  <2>1. 0 \in T
    BY <1>1
  <2>2. ASSUME NEW k \in 1 .. n, k - 1 \in T
        PROVE  k \in T
    <3>1. flat[k] = IF k = 1 THEN seqs[k] ELSE flat[k - 1] \o seqs[k]
      BY <1>6
    <3>2. k # 1 => flat[k - 1] \in A
      BY <2>2
    <3>3. flat[k] \in A
      BY <1>1, <1>3, <3>1, <3>2
    <3>. QED
      BY <1>1, <3>3
  <2>. HIDE DEF T
  <2>. QED
    BY <1>1, <2>1, <2>2, InductionUpto
<1>9. CASE n = 0
  BY <1>7, <1>9
<1>10. CASE n # 0
  BY <1>1, <1>7, <1>8, <1>10
<1>. QED
  BY <1>9, <1>10

Verbs == {"CLICK", "TYPE", "SELECT", "RAPID_CLICK"}

Values == {"none", "last_option", "valid_typical", "boundary_min", "boundary_max",
           "empty_string", "type_mismatch"}

\* What an action made for an element is: it has the element's own selector.
SpecsAbout(elements) ==
  {[action |-> a, element |-> n, selector |-> SelectorFor(elements, n), value |-> v] :
     a \in Verbs, n \in ScannedOf(elements), v \in Values}

\* Only scanned elements of the page are put in order.
LEMMA OrderedTyped ==
  ASSUME NEW elements, Len(elements) \in Nat
  PROVE  OrderedElements(elements) \in Seq(ScannedOf(elements))
<1> DEFINE P == 1 .. Len(elements)
           S == ScannedOf(elements)
           positions == [n \in P |-> n]
           usable == {n \in S : elements[n].enabled /\ elements[n].visible}
           onScreen == {n \in usable : elements[n].onScreen}
<1>1. OrderedElements(elements) = Filter(positions, onScreen)
                                    \o Filter(positions, usable \ onScreen)
  BY DEF OrderedElements
<1>2. positions \in Seq(P)
  OBVIOUS
<1>. HIDE DEF positions, onScreen, usable
<1>3. /\ Filter(positions, onScreen) \in Seq(P \cap onScreen)
      /\ Filter(positions, usable \ onScreen) \in Seq(P \cap (usable \ onScreen))
  BY <1>2, FilterTyped
<1>. HIDE DEF P, S
<1>4. P \cap onScreen \subseteq S /\ P \cap (usable \ onScreen) \subseteq S
  BY DEF onScreen, usable
<1>5. \A s, t : s \in Seq(P \cap onScreen) /\ t \in Seq(P \cap (usable \ onScreen)) =>
        s \in Seq(S) /\ t \in Seq(S)
  BY <1>4
<1>6. \A s, t \in Seq(S) : s \o t \in Seq(S)
  OBVIOUS
<1>. QED
  BY <1>1, <1>3, <1>5, <1>6 DEF S

\* The actions of a kind of element are a list, each with its own selector.
LEMMA BucketTyped ==
  ASSUME NEW elements, Len(elements) \in Nat, NEW kinds,
         NEW action \in Verbs,
         NEW values \in Seq(Values)
  PROVE  Bucket(elements, kinds, action, values) \in Seq(SpecsAbout(elements))
<1> DEFINE P == ScannedOf(elements)
           offered == {n \in 1 .. Len(elements) :
                          /\ elements[n].kind \in kinds
                          /\ action = "SELECT" => elements[n].options}
           Specs(n) == [v \in DOMAIN values |->
                          [action |-> action, element |-> n,
                           selector |-> SelectorFor(elements, n), value |-> values[v]]]
           chosen == Filter(OrderedElements(elements), offered)
           specs0 == [k \in DOMAIN chosen |-> Specs(chosen[k])]
<1>1. Bucket(elements, kinds, action, values) = FlattenSeq(specs0)
  BY DEF Bucket
<1>2. OrderedElements(elements) \in Seq(P)
  BY OrderedTyped
<1>3. chosen \in Seq(P \cap offered)
  <2>. HIDE DEF offered, P
  <2>. QED
    BY <1>2, FilterTyped
<1>4. \A n \in P : Specs(n) \in Seq(SpecsAbout(elements))
  <2> TAKE n \in P
  <2>1. /\ DOMAIN values = 1 .. Len(values) /\ Len(values) \in Nat
        /\ \A v \in DOMAIN values :
             values[v] \in Values
    OBVIOUS
  <2>2. \A v \in DOMAIN values :
          [action |-> action, element |-> n, selector |-> SelectorFor(elements, n),
           value |-> values[v]] \in SpecsAbout(elements)
    <3> TAKE v \in DOMAIN values
    <3> DEFINE value == values[v]
    <3>1. value \in Values
      BY <2>1
    <3>2. n \in ScannedOf(elements)
      OBVIOUS
    <3>. HIDE DEF value, P
    <3>3. [action |-> action, element |-> n, selector |-> SelectorFor(elements, n),
           value |-> value] \in SpecsAbout(elements)
      BY <3>1, <3>2 DEF SpecsAbout
    <3>. QED
      BY <3>3 DEF value
  <2>. QED
    BY <2>1, <2>2
<1>. HIDE DEF chosen, Specs
<1>5. /\ DOMAIN chosen = 1 .. Len(chosen) /\ Len(chosen) \in Nat
      /\ \A k \in DOMAIN chosen : chosen[k] \in P
  BY <1>3
<1>6. specs0 \in Seq(Seq(SpecsAbout(elements)))
  <2>. HIDE DEF P
  <2>. QED
    BY <1>4, <1>5
<1>. HIDE DEF specs0
<1>. QED
  BY <1>1, <1>6, FlattenTyped

\* The actions of a page are a list, each with its own element's selector.
LEMMA DynamicTyped ==
  ASSUME NEW elements, Len(elements) \in Nat
  PROVE  DynamicActionSpecs(elements) \in Seq(SpecsAbout(elements))
<1> DEFINE L == Seq(SpecsAbout(elements))
           b1 == Bucket(elements, {"link", "button", "submit", "push", "toggle"}, "CLICK",
                        <<"none">>)
           b2 == Bucket(elements, {"text", "textarea"}, "TYPE", TypicalValue)
           b3 == Bucket(elements, {"select"}, "SELECT", <<"last_option">>)
           b4 == Bucket(elements, {"button", "submit"}, "RAPID_CLICK", <<"none">>)
           b5 == Bucket(elements, {"text", "textarea"}, "TYPE", EdgeValues)
<1>1. /\ <<"none">> \in Seq(Values) /\ <<"last_option">> \in Seq(Values)
      /\ TypicalValue \in Seq(Values) /\ EdgeValues \in Seq(Values)
  BY DEF TypicalValue, EdgeValues, Values
<1>0. "CLICK" \in Verbs /\ "TYPE" \in Verbs /\ "SELECT" \in Verbs /\ "RAPID_CLICK" \in Verbs
  BY DEF Verbs
<1>2. b1 \in L
  BY <1>0, <1>1, BucketTyped
<1>3. b2 \in L
  BY <1>0, <1>1, BucketTyped
<1>4. b3 \in L
  BY <1>0, <1>1, BucketTyped
<1>5. b4 \in L
  BY <1>0, <1>1, BucketTyped
<1>6. b5 \in L
  BY <1>0, <1>1, BucketTyped
<1>7. DynamicActionSpecs(elements) = b1 \o b2 \o b3 \o b4 \o b5
  BY DEF DynamicActionSpecs
<1>8. \A s, t \in L : s \o t \in L
  OBVIOUS
<1>. HIDE DEF b1, b2, b3, b4, b5, L
<1>9. b1 \o b2 \in L
  BY <1>2, <1>3, <1>8
<1>10. b1 \o b2 \o b3 \in L
  BY <1>4, <1>8, <1>9
<1>11. b1 \o b2 \o b3 \o b4 \in L
  BY <1>5, <1>8, <1>10
<1>12. b1 \o b2 \o b3 \o b4 \o b5 \in L
  BY <1>6, <1>8, <1>11
<1>. QED
  BY <1>7, <1>12 DEF L

\* The scan of a page is a list.
LEMMA ElementsListed ==
  ASSUME NEW p \in Pages
  PROVE  Len(ElementsOf[p]) \in Nat /\ DOMAIN ElementsOf[p] = 1 .. Len(ElementsOf[p])
<1>1. ElementsOf[p] \in Seq(ToSet(ElementsOf[p]))
  BY LoopAssumption
<1>. QED
  BY <1>1

\* build_action_specs returns the fixed actions and at most MAX_ACTIONS in all;
\* every other action is about an element of the page.
LEMMA SpecsOfPage ==
  ASSUME NEW p \in Pages
  PROVE  /\ Len(SpecsOf[p]) \in 1 .. MaxActions
         /\ \A k \in 1 .. Len(SpecsOf[p]) :
              SpecsOf[p][k].element # NoElement => SpecsOf[p][k] \in SpecsAbout(ElementsOf[p])
<1> DEFINE actions == DynamicActionSpecs(ElementsOf[p])
           A == SpecsAbout(ElementsOf[p])
           F == {FixedActionSpecs[k] : k \in 1 .. 9}
           room == MaxActions - Len(FixedActionSpecs)
           kept == Upto(actions, room)
<1>1. actions \in Seq(A)
  BY ElementsListed, DynamicTyped
<1>2. /\ Len(FixedActionSpecs) = 9 /\ FixedActionSpecs \in Seq(F)
      /\ \A k \in 1 .. 9 : FixedActionSpecs[k].element = NoElement
  BY DEF FixedActionSpecs, Spec0
<1>3. room \in Nat /\ room = MaxActions - 9
  BY <1>2, LoopAssumption
<1>4. SpecsOf[p] = FixedActionSpecs \o kept
  BY DEF SpecsOf, BuildActionSpecs
<1>. HIDE DEF actions, A, room
<1>5. kept \in Seq(A) /\ Len(kept) \in 0 .. room
  BY <1>1, <1>3 DEF Upto
<1>. HIDE DEF F, kept
<1>6. FixedActionSpecs \in Seq(F \cup A) /\ kept \in Seq(F \cup A)
  <2>1. Seq(F) \subseteq Seq(F \cup A) /\ Seq(A) \subseteq Seq(F \cup A)
    OBVIOUS
  <2>. QED
    BY <1>2, <1>5, <2>1
<1>7. \A s, t \in Seq(F \cup A) :
        /\ Len(s \o t) = Len(s) + Len(t)
        /\ \A k \in 1 .. Len(s) + Len(t) :
             (s \o t)[k] = IF k <= Len(s) THEN s[k] ELSE t[k - Len(s)]
  OBVIOUS
<1>8. /\ Len(SpecsOf[p]) = 9 + Len(kept)
      /\ \A k \in 1 .. 9 + Len(kept) :
           SpecsOf[p][k] = IF k <= 9 THEN FixedActionSpecs[k] ELSE kept[k - 9]
  <2>1. /\ Len(FixedActionSpecs \o kept) = Len(FixedActionSpecs) + Len(kept)
        /\ \A k \in 1 .. Len(FixedActionSpecs) + Len(kept) :
             (FixedActionSpecs \o kept)[k] = IF k <= Len(FixedActionSpecs)
                                             THEN FixedActionSpecs[k]
                                             ELSE kept[k - Len(FixedActionSpecs)]
    BY <1>6, <1>7
  <2>2. Len(FixedActionSpecs) = 9
    BY <1>2
  <2> DEFINE fixed == FixedActionSpecs
             all == fixed \o kept
  <2>. HIDE DEF fixed, all
  <2>3. /\ Len(all) = 9 + Len(kept)
        /\ \A k \in 1 .. 9 + Len(kept) : all[k] = IF k <= 9 THEN fixed[k] ELSE kept[k - 9]
    BY <2>1, <2>2 DEF fixed, all
  <2>. QED
    BY <1>4, <2>3 DEF fixed, all
<1>9. Len(SpecsOf[p]) \in 1 .. MaxActions
  BY <1>3, <1>5, <1>8, LoopAssumption
<1>10. ASSUME NEW k \in 1 .. 9 + Len(kept), SpecsOf[p][k].element # NoElement
       PROVE  SpecsOf[p][k] \in A
  <2>1. CASE k <= 9
    BY <1>2, <1>8, <1>10, <2>1
  <2>2. CASE ~(k <= 9)
    <3>1. k - 9 \in 1 .. Len(kept)
      BY <1>5, <2>2
    <3>2. kept[k - 9] \in A
      BY <1>5, <3>1
    <3>. QED
      BY <1>8, <2>2, <3>2
  <2>. QED
    BY <2>1, <2>2
<1>. QED
  BY <1>8, <1>9, <1>10 DEF A

\* The length of the list of actions.
LEMMA LengthOfSpecs ==
  ASSUME NEW p \in Pages
  PROVE  Len(SpecsOf[p]) \in 1 .. MaxActions
BY SpecsOfPage

\* An action about an element has that element's selector.
LEMMA SpecIsAboutElement ==
  ASSUME NEW p \in Pages, NEW k \in 1 .. Len(SpecsOf[p]), SpecsOf[p][k].element # NoElement
  PROVE  SpecsOf[p][k] \in SpecsAbout(ElementsOf[p])
BY SpecsOfPage

\* A mask of a list's length holds exactly the list's indexes, NO_OP's at least.
LEMMA MaskOfLength ==
  ASSUME NEW p \in Pages
  PROVE  /\ ActionMask(Len(SpecsOf[p])) # {}
         /\ \A a \in ActionMask(Len(SpecsOf[p])) : a \in Nat /\ a < Len(SpecsOf[p])
<1>1. Len(SpecsOf[p]) \in 1 .. MaxActions
  BY LengthOfSpecs
<1>2. MaxActions \in Nat
  BY LoopAssumption
<1>3. 0 \in ActionMask(Len(SpecsOf[p]))
  BY <1>1, <1>2 DEF ActionMask
<1>4. \A a \in ActionMask(Len(SpecsOf[p])) : a \in Nat /\ a < Len(SpecsOf[p])
  BY <1>2 DEF ActionMask
<1>. QED
  BY <1>3, <1>4

\* SemanticPerceptionWrapper.reset establishes the invariant.
LEMMA InitEstablishes == Init => IInv
<1> SUFFICES ASSUME Init PROVE IInv
  OBVIOUS
<1>1. phase \in Phases /\ at \in Envs
  BY LoopAssumption DEF Init, Phases, Envs
<1>2. CountsAreCurrent
  <2>1. scanned \in [Envs -> Pages] /\ specs = [i \in Envs |-> SpecsOf[scanned[i]]]
    BY DEF Init, SpecsOf
  <2>2. /\ result = [i \in Envs |-> result[i]] /\ resetInfo = [i \in Envs |-> resetInfo[i]]
        /\ \A i \in Envs : ~result[i].done /\ result[i].info = resetInfo[i]
    BY DEF Init
  <2>3. \A i \in Envs : resetInfo[i].count = Len(specs[i])
    BY DEF Init, InfoOf
  <2>. QED
    BY <2>1, <2>2, <2>3 DEF CountsAreCurrent, Source
<1>3. MaskIsCurrent
  <2>1. \A i \in Envs : vector[i].count = resetInfo[i].count
    BY DEF Init, VectorOf
  <2>2. \A i \in Envs : resetInfo[i].count = Len(specs[i])
    BY DEF Init, InfoOf
  <2>. QED
    BY <2>1, <2>2 DEF MaskIsCurrent
<1>4. ChoicesAreIndexes /\ ChoiceIsOffered
  BY DEF Init, ChoicesAreIndexes, ChoiceIsOffered
<1>. QED
  BY <1>1, <1>2, <1>3, <1>4 DEF IInv

-----------------------------------------------------------------------------
\* The agent chooses by the mask of its vector, which counts the specs.
LEMMA ChoosePreserves == IInv /\ Choose => IInv'
<1> SUFFICES ASSUME IInv, Choose PROVE IInv'
  OBVIOUS
<1>1. /\ phase' = "step" /\ at' = 1 /\ phase = "choose"
      /\ UNCHANGED <<scanned, specs, result, resetInfo>>
  BY DEF Choose
<1>2. at' \in Envs
  BY <1>1, LoopAssumption DEF Envs
<1>3. CountsAreCurrent'
  BY <1>1 DEF IInv, CountsAreCurrent
<1>4. \A i \in Envs : choice'[i] \in Nat /\ choice'[i] < Len(specs[i])
  <2> TAKE i \in Envs
  <2>1. vector[i].count = Len(SpecsOf[scanned[i]]) /\ scanned[i] \in Pages
    BY <1>1 DEF IInv, MaskIsCurrent, CountsAreCurrent
  <2>2. choice'[i] \in ActionMask(Len(SpecsOf[scanned[i]]))
    BY <2>1, MaskOfLength DEF Choose, SampleValid, Greedy
  <2>3. choice'[i] \in Nat /\ choice'[i] < Len(SpecsOf[scanned[i]])
    BY <2>1, <2>2, MaskOfLength
  <2>. QED
    BY <2>3 DEF IInv, CountsAreCurrent
<1>5. DOMAIN choice' = Envs /\ choice' = [i \in Envs |-> choice'[i]]
  BY DEF Choose
<1>6. ChoicesAreIndexes'
  BY <1>4, <1>5 DEF ChoicesAreIndexes
<1>7. ChoiceIsOffered'
  BY <1>1, <1>4 DEF ChoiceIsOffered, Envs
<1>. QED
  BY <1>1, <1>2, <1>3, <1>6, <1>7 DEF IInv, Phases, MaskIsCurrent

\* A page that moves changes nothing the agent has been told.
LEMMA PageMovesPreserves == IInv /\ PageMoves => IInv'
  BY DEF PageMoves, IInv, Phases, CountsAreCurrent, MaskIsCurrent, ChoicesAreIndexes,
         ChoiceIsOffered

\* A step replaces the specs of one environment, and with them the info that
\* will be paired: its own, or the reset's when the episode ended.
LEMMA EnvStepPreserves == IInv /\ EnvStep => IInv'
<1> SUFFICES ASSUME IInv, EnvStep PROVE IInv'
  OBVIOUS
<1>0. at \in Envs /\ phase = "step" /\ N \in Nat /\ N >= 1
  BY LoopAssumption DEF IInv, EnvStep
<1>1. PICK q, r, ri :
        /\ q \in Pages
        /\ scanned' = [scanned EXCEPT ![at] = q]
        /\ specs' = [specs EXCEPT ![at] = SpecsOf[q]]
        /\ result' = [result EXCEPT ![at] = r]
        /\ resetInfo' = [resetInfo EXCEPT ![at] = ri]
        /\ Source(r, ri).count = Len(SpecsOf[q])
  <2>1. PICK p \in Pages, q \in Pages, stranded \in BOOLEAN :
          LET i    == at
              time == <<clock[i][1], clock[i][2] + 1>>
              info == InfoOf(time, SpecsOf[q])
              done == stranded \/ time[2] = MaxSteps
          IN IF done
             THEN \E first, scan \in Pages :
                    LET next == <<time[1] + 1, 0>>
                    IN /\ Captured(i, first, scan, next)
                       /\ result' = [result EXCEPT ![i] =
                            [obs |-> Observe(first, next), info |-> info, done |-> TRUE,
                             terminal |-> Observe(p, time)]]
                       /\ resetInfo' = [resetInfo EXCEPT ![i] =
                            InfoOf(next, SpecsOf[scan])]
             ELSE /\ Captured(i, p, q, time)
                  /\ result' = [result EXCEPT ![i] =
                       [obs |-> Observe(p, time), info |-> info, done |-> FALSE,
                        terminal |-> Observe(p, time)]]
                  /\ UNCHANGED resetInfo
    BY DEF EnvStep
  <2> DEFINE time == <<clock[at][1], clock[at][2] + 1>>
             next == <<time[1] + 1, 0>>
             info == InfoOf(time, SpecsOf[q])
  <2>2. CASE stranded \/ time[2] = MaxSteps
    <3>1. PICK first \in Pages, scan \in Pages :
            /\ Captured(at, first, scan, next)
            /\ result' = [result EXCEPT ![at] =
                 [obs |-> Observe(first, next), info |-> info, done |-> TRUE,
                  terminal |-> Observe(p, time)]]
            /\ resetInfo' = [resetInfo EXCEPT ![at] = InfoOf(next, SpecsOf[scan])]
      BY <2>1, <2>2
    <3>2. /\ scanned' = [scanned EXCEPT ![at] = scan]
          /\ specs' = [specs EXCEPT ![at] = SpecsOf[scan]]
      BY <3>1 DEF Captured
    <3> DEFINE r == [obs |-> Observe(first, next), info |-> info, done |-> TRUE,
                     terminal |-> Observe(p, time)]
               ri == InfoOf(next, SpecsOf[scan])
    <3>3. Source(r, ri).count = Len(SpecsOf[scan])
      BY DEF Source, InfoOf
    <3>. HIDE DEF r, ri
    <3>4. result' = [result EXCEPT ![at] = r] /\ resetInfo' = [resetInfo EXCEPT ![at] = ri]
      BY <3>1 DEF r, ri
    <3>. QED
      BY <3>2, <3>3, <3>4
  <2>3. CASE ~(stranded \/ time[2] = MaxSteps)
    <3>1. /\ Captured(at, p, q, time)
          /\ result' = [result EXCEPT ![at] =
               [obs |-> Observe(p, time), info |-> info, done |-> FALSE,
                terminal |-> Observe(p, time)]]
          /\ UNCHANGED resetInfo
      BY <2>1, <2>3
    <3>2. /\ scanned' = [scanned EXCEPT ![at] = q]
          /\ specs' = [specs EXCEPT ![at] = SpecsOf[q]]
      BY <3>1 DEF Captured
    <3> DEFINE r == [obs |-> Observe(p, time), info |-> info, done |-> FALSE,
                     terminal |-> Observe(p, time)]
    <3>3. Source(r, resetInfo[at]).count = Len(SpecsOf[q])
      BY DEF Source, InfoOf
    <3>. HIDE DEF r
    <3>4. result' = [result EXCEPT ![at] = r]
      BY <3>1 DEF r
    <3>5. resetInfo' = [resetInfo EXCEPT ![at] = resetInfo[at]]
      BY <3>1, <1>0 DEF IInv, CountsAreCurrent
    <3>. QED
      BY <3>2, <3>3, <3>4, <3>5
  <2>. QED
    BY <2>2, <2>3
<1>2. CountsAreCurrent'
  <2>1. /\ scanned' \in [Envs -> Pages]
        /\ specs' = [i \in Envs |-> SpecsOf[scanned'[i]]]
        /\ result' = [i \in Envs |-> result'[i]]
        /\ resetInfo' = [i \in Envs |-> resetInfo'[i]]
    BY <1>0, <1>1 DEF IInv, CountsAreCurrent
  <2>2. \A i \in Envs : Source(result'[i], resetInfo'[i]).count = Len(specs'[i])
    <3> TAKE i \in Envs
    <3>1. CASE i = at
      BY <1>0, <1>1, <3>1 DEF IInv, CountsAreCurrent
    <3>2. CASE i # at
      BY <1>0, <1>1, <3>2 DEF IInv, CountsAreCurrent
    <3>. QED
      BY <3>1, <3>2
  <2>. QED
    BY <2>1, <2>2 DEF CountsAreCurrent
<1>3. /\ phase' \in {"step", "deliver"} /\ at' \in Envs
      /\ phase' = "step" => at' = at + 1
  BY <1>0 DEF EnvStep, Envs
<1>4. choice' = [choice EXCEPT ![at] = 0]
  BY DEF EnvStep
<1>5. ChoicesAreIndexes'
  BY <1>4 DEF IInv, ChoicesAreIndexes
<1>6. ChoiceIsOffered'
  <2> SUFFICES ASSUME phase' = "step", NEW i \in at + 1 .. N
               PROVE  choice'[i] < Len(specs'[i])
    BY <1>3 DEF ChoiceIsOffered
  <2>1. i \in at .. N /\ i \in Envs /\ i # at
    BY <1>0 DEF Envs
  <2>2. choice'[i] = choice[i] /\ specs'[i] = specs[i]
    BY <2>1, <1>1, <1>4 DEF IInv, ChoicesAreIndexes, CountsAreCurrent
  <2>. QED
    BY <2>1, <2>2, <1>0 DEF IInv, ChoiceIsOffered
<1>. QED
  BY <1>2, <1>3, <1>5, <1>6 DEF IInv, Phases, MaskIsCurrent

\* The vectors of a batch take the count of the paired info.
LEMMA StepWaitPreserves == IInv /\ StepWait => IInv'
<1> SUFFICES ASSUME IInv, StepWait PROVE IInv'
  OBVIOUS
<1>1. /\ phase' = "terminals" /\ at' = 1
      /\ UNCHANGED <<scanned, specs, choice, result, resetInfo>>
  BY DEF StepWait
<1>2. at' \in Envs
  BY <1>1, LoopAssumption DEF Envs
<1>3. CountsAreCurrent'
  BY <1>1 DEF IInv, CountsAreCurrent
<1>4. \A i \in Envs : vector'[i].count = Source(result[i], resetInfo[i]).count
  BY DEF StepWait, VectorOf
<1>5. MaskIsCurrent'
  BY <1>1, <1>4 DEF IInv, MaskIsCurrent, CountsAreCurrent
<1>. QED
  BY <1>1, <1>2, <1>3, <1>5 DEF IInv, Phases, ChoicesAreIndexes, ChoiceIsOffered

\* Terminal observations are encoded beside the vectors.
LEMMA EncodeTerminalPreserves == IInv /\ EncodeTerminal => IInv'
<1> SUFFICES ASSUME IInv, EncodeTerminal PROVE IInv'
  OBVIOUS
<1>1. /\ phase = "terminals" /\ phase' \in {"choose", "terminals"}
      /\ UNCHANGED <<scanned, specs, choice, result, resetInfo, vector>>
  BY DEF EncodeTerminal
<1>2. at' \in Envs
  BY LoopAssumption DEF EncodeTerminal, IInv, Envs
<1>. QED
  BY <1>1, <1>2 DEF IInv, Phases, CountsAreCurrent, MaskIsCurrent, ChoicesAreIndexes,
                    ChoiceIsOffered

-----------------------------------------------------------------------------
\* The count in every vector, info and list of actions stays the same one in
\* every behaviour, for any environments, pages and caches.
THEOREM InductiveInvariant == Spec => []IInv
<1>1. Init => IInv
  BY InitEstablishes
<1>2. IInv /\ [Next]_vars => IInv'
  <2> SUFFICES ASSUME IInv, [Next]_vars PROVE IInv'
    OBVIOUS
  <2>1. CASE Next
    BY <2>1, ChoosePreserves, PageMovesPreserves, EnvStepPreserves, StepWaitPreserves,
       EncodeTerminalPreserves DEF Next
  <2>2. CASE UNCHANGED vars
    BY <2>2 DEF vars, IInv, Phases, CountsAreCurrent, MaskIsCurrent, ChoicesAreIndexes,
                ChoiceIsOffered
  <2>. QED
    BY <2>1, <2>2
<1>. QED
  BY <1>1, <1>2, PTL DEF Spec

\* A masked agent, warming up, exploring or greedy, only executes actions that
\* its environment offers at that time (masked_dqn.py, vec_wrapper.py).
THEOREM OnlyOfferedActions == Spec => []ChoiceIsOffered
<1>1. IInv => ChoiceIsOffered
  BY DEF IInv
<1>. QED
  BY <1>1, InductiveInvariant, PTL

-----------------------------------------------------------------------------
(* The encoder's cache.                                                    *)

Entries == {[key |-> KeyOf[x], vector |-> x] : x \in Inputs}

\* Entries of different keys, as many as fit or not.
Keyed(s) ==
  /\ s \in Seq(Entries)
  /\ \A c, d \in DOMAIN s : s[c].key = s[d].key => c = d

Caches == {s \in Seq(Entries) : Keyed(s) /\ Len(s) <= CacheSize}

\* That is what IsCache says of a sequence.
LEMMA CachesAreCaches ==
  ASSUME NEW cache0 \in Caches
  PROVE  /\ IsCache(cache0)
         /\ \A c \in DOMAIN cache0 :
              cache0[c].vector \in Inputs /\ cache0[c].key = KeyOf[cache0[c].vector]
<1>1. cache0 \in Seq(Entries) /\ Keyed(cache0) /\ Len(cache0) <= CacheSize
  BY DEF Caches
<1>2. \A c \in DOMAIN cache0 : cache0[c] \in Entries
  BY <1>1
<1>3. \A e \in Entries : e.vector \in Inputs /\ e.key = KeyOf[e.vector]
  BY DEF Entries
<1>. QED
  BY <1>1, <1>2, <1>3 DEF IsCache, Keyed

\* What is left without a key is in order, and has no entry of that key.
LEMMA WithoutKey ==
  ASSUME NEW s, Keyed(s), NEW key
  PROVE  LET w == Without(s, key)
         IN /\ Keyed(w)
            /\ Len(w) <= Len(s)
            /\ \A d \in DOMAIN w : w[d].key # key
<1> DEFINE w == Without(s, key)
           held == CachedAt(s, key)
<1>1. /\ s \in Seq(Entries) /\ DOMAIN s = 1 .. Len(s) /\ Len(s) \in Nat
      /\ \A c \in DOMAIN s : s[c] \in Entries
  BY DEF Keyed
<1>2. CASE held = {}
  <2>1. w = s
    BY <1>2 DEF Without
  <2>2. \A d \in DOMAIN s : s[d].key # key
    BY <1>2 DEF CachedAt
  <2>. HIDE DEF w
  <2>. QED
    BY <1>1, <2>1, <2>2 DEF w
<1>3. CASE held # {}
  <2> DEFINE c == CHOOSE c \in held : TRUE
             n == Len(s)
             l == SubSeq(s, 1, c - 1)
             r == SubSeq(s, c + 1, n)
  <2>1. c \in held
    BY <1>3
  <2>2. c \in 1 .. n /\ s[c].key = key
    BY <1>1, <2>1 DEF CachedAt
  <2>3. w = l \o r
    BY <1>3 DEF Without, RemoveAt
  <2>. HIDE DEF c, held, w
  <2>4. l \in Seq(Entries) /\ Len(l) = c - 1 /\ \A d \in 1 .. c - 1 : l[d] = s[d]
    BY <1>1, <2>2
  <2>5. r \in Seq(Entries) /\ Len(r) = n - c /\ \A d \in 1 .. n - c : r[d] = s[c + d]
    <3>1. c + 1 \in 1 .. n + 1 /\ n \in Nat /\ n - (c + 1) + 1 = n - c
      BY <1>1, <2>2
    <3>2. /\ SubSeq(s, c + 1, n) \in Seq(Entries)
          /\ Len(SubSeq(s, c + 1, n)) = IF c + 1 <= n THEN n - (c + 1) + 1 ELSE 0
          /\ \A d \in 1 .. n - (c + 1) + 1 : SubSeq(s, c + 1, n)[d] = s[c + 1 + d - 1]
      BY <1>1, <3>1
    <3>3. \A d \in 1 .. n - c : c + 1 + d - 1 = c + d
      BY <2>2
    <3>4. \A d \in 1 .. n - c : SubSeq(s, c + 1, n)[d] = s[c + d]
      <4> TAKE d \in 1 .. n - c
      <4>1. d \in 1 .. n - (c + 1) + 1
        BY <3>1
      <4>2. SubSeq(s, c + 1, n)[d] = s[c + 1 + d - 1]
        BY <3>2, <4>1
      <4>. QED
        BY <3>3, <4>2
    <3>5. (IF c + 1 <= n THEN n - (c + 1) + 1 ELSE 0) = n - c
      <4>1. \A a, b \in Int : b <= a => (IF b + 1 <= a THEN a - (b + 1) + 1 ELSE 0) = a - b
        OBVIOUS
      <4>2. c \in Int /\ n \in Int /\ c <= n
        BY <1>1, <2>2
      <4>. HIDE DEF n
      <4>. QED
        BY <4>1, <4>2
    <3>. QED
      BY <3>2, <3>4, <3>5 DEF r
  <2>. HIDE DEF l, r
  <2>6. /\ w \in Seq(Entries) /\ Len(w) = n - 1 /\ DOMAIN w = 1 .. n - 1
        /\ \A d \in 1 .. n - 1 : w[d] = IF d < c THEN s[d] ELSE s[d + 1]
    <3>1. l \o r \in Seq(Entries) /\ Len(l \o r) = Len(l) + Len(r)
      BY <2>4, <2>5
    <3>2. Len(l \o r) = n - 1
      BY <1>1, <2>2, <2>4, <2>5, <3>1
    <3>3. \A d \in 1 .. n - 1 : (l \o r)[d] = IF d <= Len(l) THEN l[d] ELSE r[d - Len(l)]
      <4>1. \A a, b \in Seq(Entries) : \A d \in 1 .. Len(a) + Len(b) :
              (a \o b)[d] = IF d <= Len(a) THEN a[d] ELSE b[d - Len(a)]
        OBVIOUS
      <4>2. Len(l) + Len(r) = n - 1
        BY <1>1, <2>2, <2>4, <2>5
      <4>3. \A d \in 1 .. Len(l) + Len(r) : (l \o r)[d] = IF d <= Len(l) THEN l[d] ELSE r[d - Len(l)]
        BY <2>4, <2>5, <4>1
      <4>. QED
        BY <4>2, <4>3
    <3>4. ASSUME NEW d \in 1 .. n - 1
          PROVE  (l \o r)[d] = IF d < c THEN s[d] ELSE s[d + 1]
      <4>1. CASE d < c
        BY <1>1, <2>2, <2>4, <3>3, <4>1
      <4>2. CASE ~(d < c)
        <5>1. d - Len(l) \in 1 .. n - c /\ c + (d - Len(l)) = d + 1 /\ ~(d <= Len(l))
          BY <1>1, <2>2, <2>4, <4>2
        <5>. QED
          BY <2>5, <3>3, <4>2, <5>1
      <4>. QED
        BY <4>1, <4>2
    <3>. QED
      BY <2>3, <3>1, <3>2, <3>4
  <2>7. ASSUME NEW d \in 1 .. n - 1
        PROVE  w[d].key # key
    <3>1. (IF d < c THEN d ELSE d + 1) \in 1 .. n /\ (IF d < c THEN d ELSE d + 1) # c
      BY <1>1, <2>2
    <3>. QED
      BY <1>1, <2>2, <2>6, <3>1 DEF Keyed
  <2>8. ASSUME NEW d \in 1 .. n - 1, NEW e \in 1 .. n - 1, w[d].key = w[e].key
        PROVE  d = e
    <3> DEFINE Place(k) == IF k < c THEN k ELSE k + 1
    <3>1. Place(d) \in 1 .. n /\ Place(e) \in 1 .. n
      BY <1>1, <2>2
    <3>2. s[Place(d)].key = s[Place(e)].key
      BY <2>6, <2>8
    <3>3. Place(d) = Place(e)
      BY <1>1, <3>1, <3>2 DEF Keyed
    <3>. QED
      BY <1>1, <2>2, <3>3
  <2>. QED
    BY <1>1, <2>6, <2>7, <2>8 DEF Keyed, w
<1>. QED
  BY <1>2, <1>3

\* _store keeps a cache one, whatever was in it and however full it was.
LEMMA StoreKeepsCache ==
  ASSUME NEW cache0 \in Caches, NEW x \in Inputs
  PROVE  Store(cache0, KeyOf[x], x) \in Caches
<1> DEFINE key == KeyOf[x]
           w == Without(cache0, key)
           entry == [key |-> key, vector |-> x]
           entries == Append(w, entry)
           n == Len(entries)
           from == IF n > CacheSize THEN n - CacheSize + 1 ELSE 1
           t == SubSeq(entries, from, n)
<1>1. Keyed(cache0) /\ Len(cache0) <= CacheSize /\ Len(cache0) \in Nat
  BY DEF Caches
<1>2. Keyed(w) /\ Len(w) <= Len(cache0) /\ \A d \in DOMAIN w : w[d].key # key
  BY <1>1, WithoutKey
<1>3. entry \in Entries /\ entry.key = key
  BY DEF Entries
<1>4. Store(cache0, key, x) = t
  BY DEF Store
<1>. HIDE DEF w, entry, key
<1>5. w \in Seq(Entries) /\ Len(w) \in Nat /\ DOMAIN w = 1 .. Len(w)
  BY <1>2 DEF Keyed
<1>6. /\ entries \in Seq(Entries) /\ n = Len(w) + 1 /\ DOMAIN entries = 1 .. Len(w) + 1
      /\ entries[Len(w) + 1] = entry
      /\ \A d \in 1 .. Len(w) : entries[d] = w[d]
  BY <1>3, <1>5
<1>. HIDE DEF entries
<1>7. ASSUME NEW c \in DOMAIN entries, NEW d \in DOMAIN entries, entries[c].key = entries[d].key
      PROVE  c = d
  <2>1. CASE c \in 1 .. Len(w) /\ d \in 1 .. Len(w)
    BY <1>2, <1>5, <1>6, <1>7, <2>1 DEF Keyed
  <2>2. CASE c = Len(w) + 1 /\ d \in 1 .. Len(w)
    BY <1>2, <1>3, <1>5, <1>6, <1>7, <2>2
  <2>3. CASE d = Len(w) + 1 /\ c \in 1 .. Len(w)
    BY <1>2, <1>3, <1>5, <1>6, <1>7, <2>3
  <2>. QED
    BY <1>5, <1>6, <2>1, <2>2, <2>3
<1>8. n \in Nat /\ CacheSize \in Nat /\ from \in Nat /\ from >= 1 /\ n - from + 1 <= CacheSize
      /\ from <= n + 1
  BY <1>5, <1>6, CacheAssumption
<1>. HIDE DEF n, from
<1>9. /\ t \in Seq(Entries) /\ Len(t) = n - from + 1
      /\ \A d \in 1 .. n - from + 1 : t[d] = entries[from + d - 1]
  BY <1>6, <1>8 DEF n
<1>. HIDE DEF t
<1>10. ASSUME NEW c \in DOMAIN t, NEW d \in DOMAIN t, t[c].key = t[d].key
       PROVE  c = d
  <2>1. DOMAIN t = 1 .. n - from + 1 /\ DOMAIN entries = 1 .. n
    BY <1>6, <1>8, <1>9
  <2>2. from + c - 1 \in 1 .. n /\ from + d - 1 \in 1 .. n
    BY <1>8, <2>1
  <2>3. from + c - 1 = from + d - 1
    BY <1>7, <1>9, <1>10, <2>1, <2>2
  <2>. QED
    BY <1>8, <2>1, <2>3
<1>11. t \in Caches
  BY <1>8, <1>9, <1>10 DEF Caches, Keyed
<1>. QED
  BY <1>4, <1>11 DEF key

\* So a batch leaves a cache, whatever its size.
LEMMA BatchKeepsCache ==
  ASSUME NEW cache0 \in Caches, NEW items \in Seq(Inputs)
  PROVE  CacheAfter(cache0, items) \in Caches
<1> DEFINE n == Len(items)
           Round(s, k) == IF k \in Pending(cache0, items)
                          THEN Store(s, KeyOf[items[k]], items[k]) ELSE s
           F == [p \in Caches \X (1 .. n) |-> Round(p[1], p[2])]
           Loop(f) == f = [k \in 0 .. n |->
                             IF k = 0 THEN cache0
                             ELSE IF k \in Pending(cache0, items)
                                  THEN Store(f[k - 1], KeyOf[items[k]], items[k])
                                  ELSE f[k - 1]]
           left == CHOOSE f : Loop(f)
           T == {k \in 0 .. n : left[k] \in Caches}
<1>1. n \in Nat /\ \A k \in 1 .. n : items[k] \in Inputs
  OBVIOUS
<1>2. \A s \in Caches, k \in 1 .. n : Round(s, k) \in Caches
  BY <1>1, StoreKeepsCache
<1>3. \A f, k : Round(f[k - 1], k) = IF k \in Pending(cache0, items)
                                     THEN Store(f[k - 1], KeyOf[items[k]], items[k])
                                     ELSE f[k - 1]
  OBVIOUS
<1>4. F \in [Caches \X (1 .. n) -> Caches]
  <2>. HIDE DEF Round
  <2>. QED
    BY <1>2
<1>5. \E f : Loop(f)
  <2>1. PICK f : IsLoop(f, n, Caches, F, cache0)
    <3>. HIDE DEF F, n
    <3>. QED
      BY <1>1, <1>4, LoopExists
  <2>2. /\ f \in [0 .. n -> Caches] /\ f[0] = cache0
        /\ \A k \in 1 .. n : f[k] = F[<<f[k - 1], k>>]
    BY <2>1 DEF IsLoop
  <2>3. \A k \in 1 .. n : f[k] = Round(f[k - 1], k)
    <3> TAKE k \in 1 .. n
    <3>1. f[k - 1] \in Caches
      BY <1>1, <2>2
    <3>2. F[<<f[k - 1], k>>] = Round(f[k - 1], k)
      <4>. HIDE DEF Round
      <4>. QED
        BY <3>1
    <3>. QED
      BY <2>2, <3>2
  <2>4. \A k \in 0 .. n : f[k] = IF k = 0 THEN cache0
                                 ELSE IF k \in Pending(cache0, items)
                                      THEN Store(f[k - 1], KeyOf[items[k]], items[k])
                                      ELSE f[k - 1]
    <3> TAKE k \in 0 .. n
    <3>1. k = 0 \/ k \in 1 .. n
      BY <1>1
    <3>. HIDE DEF Round
    <3>. QED
      BY <1>3, <2>2, <2>3, <3>1
  <2>5. f = [k \in 0 .. n |-> f[k]]
    BY <2>2
  <2>6. Loop(f)
    BY <2>4, <2>5
  <2>. QED
    BY <2>6
<1>6. Loop(left)
  BY <1>5
<1>7. CacheAfter(cache0, items) = left[n]
  BY Zenon DEF CacheAfter
<1>. HIDE DEF left
<1>8. \A k \in 0 .. n : k \in T
  <2>1. 0 \in T
    BY <1>1, <1>6
  <2>2. ASSUME NEW k \in 1 .. n, k - 1 \in T
        PROVE  k \in T
    <3>1. k \in 0 .. n /\ k # 0 /\ left[k - 1] \in Caches
      BY <1>1, <2>2
    <3>2. left[k] = Round(left[k - 1], k)
      BY <1>6, <3>1
    <3>. HIDE DEF Round
    <3>. QED
      BY <1>2, <3>1, <3>2
  <2>. HIDE DEF T
  <2>. QED
    BY <1>1, <2>1, <2>2, InductionUpto
<1>. QED
  BY <1>1, <1>7, <1>8

\* An item that is not cached is among the batch, last of its key.
LEMMA LastOfKeyFound ==
  ASSUME NEW items \in Seq(Inputs), NEW n \in DOMAIN items
  PROVE  /\ LastOfKey(items, KeyOf[items[n]]) \in DOMAIN items
         /\ KeyOf[items[LastOfKey(items, KeyOf[items[n]])]] = KeyOf[items[n]]
<1> DEFINE key == KeyOf[items[n]]
           len == Len(items)
           C == {len - k : k \in {m \in 1 .. len : KeyOf[items[m]] = key}}
           R == OpToRel(<, Nat)
<1>1. len \in Nat /\ DOMAIN items = 1 .. len
  OBVIOUS
<1>2. C \subseteq Nat /\ len - n \in C
  BY <1>1
<1>3. PICK least \in C : \A y \in C : <<y, least>> \notin R
  <2>. HIDE DEF C, R
  <2>. QED
    BY <1>2, WFMin, NatLessThanWellFounded DEF R
<1>4. \A y \in C : least <= y
  <2> TAKE y \in C
  <2>1. y \in Nat /\ least \in Nat
    BY <1>2
  <2>2. y < least => <<y, least>> \in R
    BY <2>1 DEF OpToRel
  <2>. HIDE DEF R, C
  <2>. QED
    BY <1>3, <2>1, <2>2
<1>5. PICK k \in 1 .. len : KeyOf[items[k]] = key /\ least = len - k
  BY <1>3
<1>6. \A m \in 1 .. len : KeyOf[items[m]] = key => m <= k
  <2> TAKE m \in 1 .. len
  <2> HAVE KeyOf[items[m]] = key
  <2>1. len - m \in C
    OBVIOUS
  <2>2. len - k <= len - m
    BY <1>4, <1>5, <2>1
  <2>. QED
    BY <1>1, <2>2
<1>. HIDE DEF C, R, key
<1>7. \E j \in DOMAIN items :
        /\ KeyOf[items[j]] = key
        /\ \A m \in DOMAIN items : KeyOf[items[m]] = key => m <= j
  BY <1>1, <1>5, <1>6
<1>8. LastOfKey(items, key) \in DOMAIN items /\ KeyOf[items[LastOfKey(items, key)]] = key
  BY <1>7 DEF LastOfKey
<1>. QED
  BY <1>8 DEF key

\* What encode_batch returns for an item is the vector of an input of its key.
LEMMA EncodedByKey ==
  ASSUME NEW cache0 \in Caches, NEW items \in Seq(Inputs), NEW n \in DOMAIN items
  PROVE  /\ EncodeBatch(cache0, items)[n] \in Inputs
         /\ KeyOf[EncodeBatch(cache0, items)[n]] = KeyOf[items[n]]
<1> DEFINE key == KeyOf[items[n]]
           held == CachedAt(cache0, key)
           c == CHOOSE c \in held : TRUE
<1>1. EncodeBatch(cache0, items)[n]
        = IF held # {} THEN cache0[c].vector ELSE items[LastOfKey(items, key)]
  BY DEF EncodeBatch
<1>2. CASE held # {}
  <2>1. c \in DOMAIN cache0 /\ cache0[c].key = key
    BY <1>2 DEF CachedAt
  <2>. HIDE DEF c, held, key
  <2>2. cache0[c].vector \in Inputs /\ cache0[c].key = KeyOf[cache0[c].vector]
    BY <2>1, CachesAreCaches
  <2>. QED
    BY <1>1, <1>2, <2>1, <2>2 DEF key
<1>3. CASE held = {}
  <2>1. /\ LastOfKey(items, key) \in DOMAIN items
        /\ KeyOf[items[LastOfKey(items, key)]] = key
    BY LastOfKeyFound
  <2>. HIDE DEF held, key
  <2>2. items[LastOfKey(items, key)] \in Inputs
    BY <2>1
  <2>. QED
    BY <1>1, <1>3, <2>1, <2>2 DEF key
<1>. QED
  BY <1>2, <1>3

-----------------------------------------------------------------------------
(* What the agent is told.                                                 *)

Observations == [screen : Pages, time : Times]
Infos == [page : Times, context : Times, count : Counts]
Results == [obs : Observations, info : Infos, done : BOOLEAN, terminal : Observations]

\* An episode has fewer than MaxSteps steps as long as it lasts; and no
\* environment begins more than one episode a call.
Clocks ==
  \A i \in Envs :
    /\ clock[i][1] \in Nat \ {0} /\ clock[i][2] \in 0 .. MaxSteps - 1
    /\ clock[i][1] <= IF phase = "step" /\ i >= at THEN calls ELSE calls + 1

Typed ==
  /\ calls \in 0 .. MaxCalls
  /\ page \in [Envs -> Pages]
  /\ clock \in [Envs -> Nat \X Nat] /\ Clocks
  /\ choice \in [Envs -> 0 .. MaxActions - 1]
  /\ result \in [Envs -> Results] /\ resetInfo \in [Envs -> Infos]
  /\ vector \in [Envs -> Vectors]
  /\ terminal \in [Envs -> Vectors \cup {NoVector}]
  /\ cache \in Caches

\* What comes with an observation, once paired, describes it, and the info of
\* an ended episode its terminal observation.
Described ==
  \A i \in Envs :
    /\ Source(result[i], resetInfo[i]) = InfoOf(clock[i], specs[i])
    /\ result[i].obs.time = clock[i]
    /\ result[i].done => result[i].info.page = result[i].terminal.time

\* A vector encodes a screenshot of the key of o's, and what info says.
Encodes(v, o, info) ==
  /\ KeyOf[v.visual] = KeyOf[o.screen]
  /\ v.text = info.page /\ v.context = info.context /\ v.count = info.count

Encoded ==
  /\ phase \in {"choose", "terminals"} =>
       \A i \in Envs : Encodes(vector[i], result[i].obs, Source(result[i], resetInfo[i]))
  /\ \A i \in Envs :
       (phase = "choose" \/ (phase = "terminals" /\ i < at)) /\ result[i].done =>
         Encodes(terminal[i], result[i].terminal, result[i].info)

Told == Typed /\ Described /\ Encoded

\* An info describes a page by its length.
LEMMA InfoTyped ==
  ASSUME NEW time \in Times, NEW p \in Pages
  PROVE  /\ InfoOf(time, SpecsOf[p]) \in Infos
         /\ InfoOf(time, SpecsOf[p]).page = time
         /\ InfoOf(time, SpecsOf[p]).context = time
         /\ InfoOf(time, SpecsOf[p]).count = Len(SpecsOf[p])
<1> DEFINE n == Len(SpecsOf[p])
<1>1. n \in Counts
  BY LengthOfSpecs DEF Counts
<1>2. InfoOf(time, SpecsOf[p]) = [page |-> time, context |-> time, count |-> n]
  BY DEF InfoOf
<1>. HIDE DEF n
<1>3. [page |-> time, context |-> time, count |-> n] \in Infos
  BY <1>1 DEF Infos
<1>. QED
  BY <1>2, <1>3 DEF n

\* A vector is a screenshot and an info.
LEMMA VectorTyped ==
  ASSUME NEW visual \in Pages, NEW info \in Infos
  PROVE  /\ VectorOf(visual, info) \in Vectors
         /\ VectorOf(visual, info).visual = visual
         /\ VectorOf(visual, info).text = info.page
         /\ VectorOf(visual, info).context = info.context
         /\ VectorOf(visual, info).count = info.count
<1>1. info.page \in Times /\ info.context \in Times /\ info.count \in Counts
  BY DEF Infos
<1>. QED
  BY <1>1 DEF VectorOf, Vectors

\* A screenshot through the cache, with an info.
LEMMA Encoding ==
  ASSUME NEW cache0 \in Caches, NEW items \in Seq(Inputs), NEW n \in DOMAIN items,
         NEW o, o.screen = items[n], NEW info \in Infos
  PROVE  /\ VectorOf(EncodeBatch(cache0, items)[n], info) \in Vectors
         /\ Encodes(VectorOf(EncodeBatch(cache0, items)[n], info), o, info)
<1> DEFINE x == EncodeBatch(cache0, items)[n]
<1>1. x \in Pages /\ KeyOf[x] = KeyOf[o.screen]
  <2>1. x \in Inputs /\ KeyOf[x] = KeyOf[items[n]]
    BY EncodedByKey
  <2>. HIDE DEF x
  <2>. QED
    BY <2>1, LoopAssumption
<1>. HIDE DEF x
<1>2. VectorOf(x, info) \in Vectors /\ Encodes(VectorOf(x, info), o, info)
  BY <1>1, VectorTyped DEF Encodes
<1>. QED
  BY <1>2 DEF x

\* SemanticPerceptionWrapper.reset tells of the first observations.
LEMMA InitTold == Init => Told
<1> SUFFICES ASSUME Init PROVE Told
  OBVIOUS
<1>0. N \in Nat /\ N >= 1 /\ MaxSteps \in Nat /\ MaxSteps >= 1 /\ MaxCalls \in Nat
      /\ MaxActions \in Nat /\ MaxActions >= 1 /\ Inputs = Pages
  BY LoopAssumption DEF FixedActionSpecs
<1>1. PICK captured \in [Envs -> Pages] :
        /\ result = [i \in Envs |-> [obs |-> Observe(captured[i], clock[i]),
                                     info |-> resetInfo[i], done |-> FALSE,
                                     terminal |-> Observe(captured[i], clock[i])]]
        /\ vector = [i \in Envs |-> VectorOf(EncodeBatch(EmptyCache, captured)[i],
                                             resetInfo[i])]
        /\ cache = CacheAfter(EmptyCache, captured)
  BY DEF Init
<1>2. /\ phase = "choose" /\ at = 1 /\ calls = 0
      /\ clock = [i \in Envs |-> <<1, 0>>]
      /\ page \in [Envs -> Pages] /\ scanned = page
      /\ specs = [i \in Envs |-> SpecsOf[scanned[i]]]
      /\ choice = [i \in Envs |-> 0]
      /\ resetInfo = [i \in Envs |-> InfoOf(clock[i], specs[i])]
      /\ terminal = [i \in Envs |-> NoVector]
  BY DEF Init
<1>3. EmptyCache \in Caches
  <2>1. EmptyCache \in Seq(Entries) /\ DOMAIN EmptyCache = {} /\ Len(EmptyCache) = 0
    BY DEF EmptyCache
  <2>. QED
    BY <2>1, CacheAssumption DEF Caches, Keyed
<1>4. captured \in Seq(Inputs) /\ DOMAIN captured = Envs
  BY <1>0, <1>1 DEF Envs
<1>5. <<1, 0>> \in Times
  BY <1>0 DEF Times
<1>6. \A i \in Envs : clock[i] = <<1, 0>>
  BY <1>2
<1>7. \A i \in Envs : resetInfo[i] \in Infos /\ resetInfo[i] = InfoOf(clock[i], specs[i])
  BY <1>2, <1>5, <1>6, InfoTyped
<1>8. /\ \A i \in Envs : captured[i] \in Pages
      /\ DOMAIN result = Envs /\ DOMAIN vector = Envs
  BY <1>1
<1>9. ASSUME NEW i \in Envs
      PROVE  /\ result[i] \in Results
             /\ result[i].obs = Observe(captured[i], clock[i])
             /\ result[i].info = resetInfo[i] /\ result[i].done = FALSE
  <2>1. result[i] = [obs |-> Observe(captured[i], clock[i]), info |-> resetInfo[i],
                     done |-> FALSE, terminal |-> Observe(captured[i], clock[i])]
    BY <1>1
  <2>2. Observe(captured[i], clock[i]) \in Observations
    BY <1>5, <1>6, <1>8 DEF Observe, Observations
  <2>. QED
    BY <1>7, <2>1, <2>2 DEF Results
<1>10. \A i \in Envs : result[i].obs.screen = captured[i] /\ result[i].obs.time = clock[i]
  <2> TAKE i \in Envs
  <2>1. result[i].obs = Observe(captured[i], clock[i])
    BY <1>9
  <2>2. /\ Observe(captured[i], clock[i]).screen = captured[i]
        /\ Observe(captured[i], clock[i]).time = clock[i]
    BY DEF Observe
  <2>. QED
    BY <2>1, <2>2
<1>11. ASSUME NEW i \in Envs
       PROVE  vector[i] \in Vectors /\ Encodes(vector[i], result[i].obs, resetInfo[i])
  <2>1. vector[i] = VectorOf(EncodeBatch(EmptyCache, captured)[i], resetInfo[i])
    BY <1>1
  <2>. QED
    BY <1>3, <1>4, <1>7, <1>10, <2>1, Encoding
<1>12. cache \in Caches
  BY <1>1, <1>3, <1>4, BatchKeepsCache
<1>13. Typed
  <2>1. result \in [Envs -> Results] /\ vector \in [Envs -> Vectors]
    BY <1>1, <1>9, <1>11
  <2>2. resetInfo \in [Envs -> Infos]
    BY <1>2, <1>7
  <2>3. clock \in [Envs -> Nat \X Nat] /\ Clocks
    BY <1>0, <1>2 DEF Clocks
  <2>4. choice \in [Envs -> 0 .. MaxActions - 1]
    BY <1>0, <1>2
  <2>5. terminal \in [Envs -> Vectors \cup {NoVector}]
    BY <1>2
  <2>. QED
    BY <1>0, <1>2, <1>12, <2>1, <2>2, <2>3, <2>4, <2>5 DEF Typed
<1>14. \A i \in Envs : Source(result[i], resetInfo[i]) = resetInfo[i]
  BY <1>9 DEF Source
<1>15. Described
  BY <1>7, <1>9, <1>10, <1>14 DEF Described
<1>16. Encoded
  BY <1>2, <1>9, <1>11, <1>14 DEF Encoded
<1>. QED
  BY <1>13, <1>15, <1>16 DEF Told

\* A call begins: every environment may take a step.
LEMMA ChooseTold == IInv /\ Told /\ Choose => Told'
<1> SUFFICES ASSUME IInv, Told, Choose PROVE Told'
  OBVIOUS
<1>1. /\ phase = "choose" /\ phase' = "step" /\ at' = 1
      /\ calls < MaxCalls /\ calls' = calls + 1
      /\ choice' \in [Envs -> 0 .. MaxActions - 1]
      /\ UNCHANGED <<page, specs, clock, result, resetInfo, vector, terminal, cache>>
  BY DEF Choose
<1>2. calls' \in 0 .. MaxCalls
  BY <1>1, LoopAssumption DEF Told, Typed
<1>3. Clocks'
  BY <1>1 DEF Told, Typed, Clocks
<1>4. Typed'
  BY <1>1, <1>2, <1>3 DEF Told, Typed
<1>5. Described'
  BY <1>1 DEF Told, Described
<1>6. Encoded'
  BY <1>1 DEF Encoded
<1>. QED
  BY <1>4, <1>5, <1>6 DEF Told

\* What the page of an environment becomes is not told.
LEMMA PageMovesTold == Told /\ PageMoves => Told'
<1> SUFFICES ASSUME Told, PageMoves PROVE Told'
  OBVIOUS
<1>1. /\ page' \in [Envs -> Pages]
      /\ UNCHANGED <<phase, at, calls, specs, clock, choice, result, resetInfo, vector,
                     terminal, cache>>
  BY DEF PageMoves, Told, Typed
<1>2. Typed'
  BY <1>1 DEF Told, Typed, Clocks
<1>3. Described' /\ Encoded'
  BY <1>1 DEF Told, Described, Encoded
<1>. QED
  BY <1>2, <1>3 DEF Told

\* What a step leaves of its environment: the page it scanned last, the
\* clock, and a result that is about both.
LEMMA EnvStepEffect ==
  ASSUME IInv, Told, EnvStep
  PROVE  \E s \in Pages, t \in Nat \X Nat, r \in Results, ri \in Infos :
           /\ t[1] \in 1 .. calls + 1 /\ t[2] \in 0 .. MaxSteps - 1
           /\ page' = [page EXCEPT ![at] = s]
           /\ specs' = [specs EXCEPT ![at] = SpecsOf[s]]
           /\ clock' = [clock EXCEPT ![at] = t]
           /\ result' = [result EXCEPT ![at] = r]
           /\ resetInfo' = [resetInfo EXCEPT ![at] = ri]
           /\ Source(r, ri) = InfoOf(t, SpecsOf[s])
           /\ r.obs.time = t
           /\ r.done => r.info.page = r.terminal.time
<1>0. /\ at \in Envs /\ phase = "step" /\ calls \in Nat /\ calls <= MaxCalls
      /\ MaxSteps \in Nat /\ MaxSteps >= 1 /\ MaxCalls \in Nat
  BY LoopAssumption DEF IInv, EnvStep, Told, Typed
<1>1. /\ clock[at] \in Nat \X Nat
      /\ clock[at][1] \in 1 .. calls /\ clock[at][2] \in 0 .. MaxSteps - 1
  <2>1. at >= at
    BY <1>0 DEF Envs
  <2>. QED
    BY <1>0, <2>1 DEF Told, Typed, Clocks
<1>2. PICK p \in Pages, q \in Pages, stranded \in BOOLEAN :
        LET i    == at
            time == <<clock[i][1], clock[i][2] + 1>>
            info == InfoOf(time, SpecsOf[q])
            done == stranded \/ time[2] = MaxSteps
        IN IF done
           THEN \E first, scan \in Pages :
                  LET next == <<time[1] + 1, 0>>
                  IN /\ Captured(i, first, scan, next)
                     /\ result' = [result EXCEPT ![i] =
                          [obs |-> Observe(first, next), info |-> info, done |-> TRUE,
                           terminal |-> Observe(p, time)]]
                     /\ resetInfo' = [resetInfo EXCEPT ![i] = InfoOf(next, SpecsOf[scan])]
           ELSE /\ Captured(i, p, q, time)
                /\ result' = [result EXCEPT ![i] =
                     [obs |-> Observe(p, time), info |-> info, done |-> FALSE,
                      terminal |-> Observe(p, time)]]
                /\ UNCHANGED resetInfo
  BY DEF EnvStep
<1> DEFINE time == <<clock[at][1], clock[at][2] + 1>>
           next == <<clock[at][1] + 1, 0>>
           info == InfoOf(time, SpecsOf[q])
<1>3. time \in Times /\ next \in Times
  BY <1>0, <1>1 DEF Times
<1>4. /\ time \in Nat \X Nat /\ time[1] = clock[at][1] /\ time[2] = clock[at][2] + 1
      /\ next \in Nat \X Nat /\ next[1] = clock[at][1] + 1 /\ next[2] = 0
      /\ <<time[1] + 1, 0>> = next
  BY <1>0, <1>1
<1>5. info \in Infos /\ info.page = time
  <2>. HIDE DEF time
  <2>. QED
    BY <1>3, InfoTyped
<1>6. CASE stranded \/ time[2] = MaxSteps
  <2>1. PICK first \in Pages, scan \in Pages :
          /\ Captured(at, first, scan, next)
          /\ result' = [result EXCEPT ![at] =
               [obs |-> Observe(first, next), info |-> info, done |-> TRUE,
                terminal |-> Observe(p, time)]]
          /\ resetInfo' = [resetInfo EXCEPT ![at] = InfoOf(next, SpecsOf[scan])]
    BY <1>2, <1>4, <1>6
  <2> DEFINE r == [obs |-> Observe(first, next), info |-> info, done |-> TRUE,
                   terminal |-> Observe(p, time)]
             ri == InfoOf(next, SpecsOf[scan])
  <2>2. /\ page' = [page EXCEPT ![at] = scan]
        /\ specs' = [specs EXCEPT ![at] = SpecsOf[scan]]
        /\ clock' = [clock EXCEPT ![at] = next]
    BY <2>1 DEF Captured
  <2>. HIDE DEF time, next, info
  <2>3. ri \in Infos
    BY <1>3, InfoTyped
  <2>4. Observe(first, next) \in Observations /\ Observe(p, time) \in Observations
    BY <1>3 DEF Observe, Observations
  <2>5. r \in Results
    BY <1>5, <2>4 DEF Results
  <2>6. r.obs.time = next /\ r.info.page = r.terminal.time
    BY <1>5 DEF Observe
  <2>7. Source(r, ri) = ri
    BY DEF Source
  <2>8. result' = [result EXCEPT ![at] = r] /\ resetInfo' = [resetInfo EXCEPT ![at] = ri]
    BY <2>1
  <2>9. next \in Nat \X Nat /\ next[1] \in 1 .. calls + 1 /\ next[2] \in 0 .. MaxSteps - 1
    BY <1>0, <1>1, <1>4
  <2>10. ri = InfoOf(next, SpecsOf[scan])
    OBVIOUS
  <2>. HIDE DEF r, ri
  <2>. QED
    BY <2>2, <2>3, <2>5, <2>6, <2>7, <2>8, <2>9, <2>10
<1>7. CASE ~(stranded \/ time[2] = MaxSteps)
  <2>1. /\ Captured(at, p, q, time)
        /\ result' = [result EXCEPT ![at] =
             [obs |-> Observe(p, time), info |-> info, done |-> FALSE,
              terminal |-> Observe(p, time)]]
        /\ UNCHANGED resetInfo
    BY <1>2, <1>7
  <2> DEFINE r == [obs |-> Observe(p, time), info |-> info, done |-> FALSE,
                   terminal |-> Observe(p, time)]
             ri == resetInfo[at]
  <2>2. /\ page' = [page EXCEPT ![at] = q]
        /\ specs' = [specs EXCEPT ![at] = SpecsOf[q]]
        /\ clock' = [clock EXCEPT ![at] = time]
    BY <2>1 DEF Captured
  <2>3. time \in Nat \X Nat /\ time[1] \in 1 .. calls + 1 /\ time[2] \in 0 .. MaxSteps - 1
    BY <1>0, <1>1, <1>4, <1>7
  <2>. HIDE DEF time, next
  <2>4. ri \in Infos /\ resetInfo' = [resetInfo EXCEPT ![at] = ri]
    BY <1>0, <2>1 DEF Told, Typed
  <2>5. Observe(p, time) \in Observations
    BY <1>3 DEF Observe, Observations
  <2>6. info = InfoOf(time, SpecsOf[q])
    OBVIOUS
  <2>. HIDE DEF info
  <2>7. r \in Results
    BY <1>5, <2>5 DEF Results
  <2>8. r.obs.time = time /\ ~r.done
    BY DEF Observe
  <2>9. Source(r, ri) = info
    BY DEF Source
  <2>10. result' = [result EXCEPT ![at] = r]
    BY <2>1
  <2>. HIDE DEF r, ri
  <2>. QED
    BY <2>2, <2>3, <2>4, <2>6, <2>7, <2>8, <2>9, <2>10
<1>. QED
  BY <1>6, <1>7

\* A step concerns one environment.
LEMMA EnvStepTold == IInv /\ Told /\ EnvStep => Told'
<1> SUFFICES ASSUME IInv, Told, EnvStep PROVE Told'
  OBVIOUS
<1>0. /\ at \in Envs /\ phase = "step" /\ N \in Nat /\ calls \in Nat
      /\ MaxActions \in Nat /\ MaxActions >= 1
  BY LoopAssumption DEF IInv, EnvStep, Told, Typed, FixedActionSpecs
<1>1. PICK s \in Pages, t \in Nat \X Nat, r \in Results, ri \in Infos :
        /\ t[1] \in 1 .. calls + 1 /\ t[2] \in 0 .. MaxSteps - 1
        /\ page' = [page EXCEPT ![at] = s]
        /\ specs' = [specs EXCEPT ![at] = SpecsOf[s]]
        /\ clock' = [clock EXCEPT ![at] = t]
        /\ result' = [result EXCEPT ![at] = r]
        /\ resetInfo' = [resetInfo EXCEPT ![at] = ri]
        /\ Source(r, ri) = InfoOf(t, SpecsOf[s])
        /\ r.obs.time = t
        /\ r.done => r.info.page = r.terminal.time
  BY EnvStepEffect
<1>2. /\ choice' = [choice EXCEPT ![at] = 0]
      /\ UNCHANGED <<calls, vector, terminal, cache>>
      /\ \/ phase' = "deliver" /\ at = N
         \/ phase' = "step" /\ at' = at + 1
  BY <1>0 DEF EnvStep
<1>3. /\ page \in [Envs -> Pages] /\ clock \in [Envs -> Nat \X Nat]
      /\ choice \in [Envs -> 0 .. MaxActions - 1]
      /\ result \in [Envs -> Results] /\ resetInfo \in [Envs -> Infos]
      /\ specs = [i \in Envs |-> specs[i]]
  BY DEF Told, Typed, IInv, CountsAreCurrent
<1>4. /\ page' \in [Envs -> Pages] /\ clock' \in [Envs -> Nat \X Nat]
      /\ result' \in [Envs -> Results] /\ resetInfo' \in [Envs -> Infos]
  BY <1>1, <1>3
<1>5. choice' \in [Envs -> 0 .. MaxActions - 1]
  BY <1>0, <1>2, <1>3
<1>6. Clocks'
  <2> SUFFICES ASSUME NEW i \in Envs
               PROVE  /\ clock'[i][1] \in Nat \ {0} /\ clock'[i][2] \in 0 .. MaxSteps - 1
                      /\ clock'[i][1] <= IF phase' = "step" /\ i >= at' THEN calls' ELSE calls' + 1
    BY DEF Clocks
  <2>1. CASE i = at
    <3>1. clock'[i] = t
      BY <1>1, <1>3, <2>1
    <3>. QED
      BY <1>0, <1>1, <1>2, <2>1, <3>1 DEF Envs
  <2>2. CASE i # at
    <3>1. clock'[i] = clock[i]
      BY <1>1, <1>3, <2>2
    <3>2. /\ clock[i][1] \in Nat \ {0} /\ clock[i][2] \in 0 .. MaxSteps - 1
          /\ clock[i][1] <= IF i >= at THEN calls ELSE calls + 1
      BY <1>0 DEF Told, Typed, Clocks
    <3>. QED
      BY <1>0, <1>2, <2>2, <3>1, <3>2 DEF Envs
  <2>. QED
    BY <2>1, <2>2
<1>7. Typed'
  BY <1>2, <1>4, <1>5, <1>6 DEF Told, Typed
<1>8. Described'
  <2> SUFFICES ASSUME NEW i \in Envs
               PROVE  /\ Source(result'[i], resetInfo'[i]) = InfoOf(clock'[i], specs'[i])
                      /\ result'[i].obs.time = clock'[i]
                      /\ result'[i].done => result'[i].info.page = result'[i].terminal.time
    BY DEF Described
  <2>1. CASE i = at
    <3>1. /\ clock'[i] = t /\ result'[i] = r /\ resetInfo'[i] = ri
          /\ specs'[i] = SpecsOf[s]
      BY <1>1, <1>3, <2>1
    <3>. QED
      BY <1>1, <3>1
  <2>2. CASE i # at
    <3>1. /\ clock'[i] = clock[i] /\ result'[i] = result[i] /\ resetInfo'[i] = resetInfo[i]
          /\ specs'[i] = specs[i]
      BY <1>1, <1>3, <2>2
    <3>. QED
      BY <3>1 DEF Told, Described
  <2>. QED
    BY <2>1, <2>2
<1>9. Encoded'
  BY <1>2 DEF Encoded
<1>. QED
  BY <1>7, <1>8, <1>9 DEF Told

\* The info a vector is made from is of its type.
LEMMA SourceTyped ==
  ASSUME Told, NEW i \in Envs
  PROVE  Source(result[i], resetInfo[i]) \in Infos
<1>1. result[i] \in Results /\ resetInfo[i] \in Infos
  BY DEF Told, Typed
<1>2. result[i].info \in Infos
  BY <1>1 DEF Results
<1>. QED
  BY <1>1, <1>2 DEF Source

\* The batch is encoded, each screenshot with its paired info.
LEMMA StepWaitTold == IInv /\ Told /\ StepWait => Told'
<1> SUFFICES ASSUME IInv, Told, StepWait PROVE Told'
  OBVIOUS
<1> DEFINE screens == [i \in Envs |-> result[i].obs.screen]
<1>1. /\ vector' = [i \in Envs |-> VectorOf(EncodeBatch(cache, screens)[i],
                                            Source(result[i], resetInfo[i]))]
      /\ cache' = CacheAfter(cache, screens)
      /\ phase = "deliver" /\ phase' = "terminals" /\ at' = 1
      /\ terminal' = [i \in Envs |-> NoVector]
      /\ UNCHANGED <<calls, page, specs, clock, choice, result, resetInfo>>
  BY DEF StepWait
<1>2. screens \in Seq(Inputs) /\ DOMAIN screens = Envs
  <2>1. \A i \in Envs : result[i].obs.screen \in Pages
    BY DEF Told, Typed, Results, Observations
  <2>. QED
    BY <2>1, LoopAssumption DEF Envs
<1>3. cache \in Caches
  BY DEF Told, Typed
<1>4. \A i \in Envs : screens[i] = result[i].obs.screen
  OBVIOUS
<1>. HIDE DEF screens
<1>5. cache' \in Caches
  BY <1>1, <1>2, <1>3, BatchKeepsCache
<1>6. ASSUME NEW i \in Envs
      PROVE  /\ vector'[i] \in Vectors
             /\ Encodes(vector'[i], result[i].obs, Source(result[i], resetInfo[i]))
  <2>1. vector'[i] = VectorOf(EncodeBatch(cache, screens)[i], Source(result[i], resetInfo[i]))
    BY <1>1
  <2>2. Source(result[i], resetInfo[i]) \in Infos
    BY SourceTyped
  <2>. QED
    BY <1>2, <1>3, <1>4, <2>1, <2>2, Encoding
<1>7. vector' \in [Envs -> Vectors] /\ terminal' \in [Envs -> Vectors \cup {NoVector}]
  BY <1>1, <1>6
<1>8. Clocks'
  BY <1>1 DEF Told, Typed, Clocks
<1>9. Typed'
  BY <1>1, <1>5, <1>7, <1>8 DEF Told, Typed
<1>10. Described'
  BY <1>1 DEF Told, Described
<1>11. Encoded'
  <2>1. \A i \in Envs : ~(i < 1)
    BY DEF Envs
  <2>. QED
    BY <1>1, <1>6, <2>1 DEF Encoded
<1>. QED
  BY <1>9, <1>10, <1>11 DEF Told

\* Terminal observations follow, one by one.
LEMMA EncodeTerminalTold == IInv /\ Told /\ EncodeTerminal => Told'
<1> SUFFICES ASSUME IInv, Told, EncodeTerminal PROVE Told'
  OBVIOUS
<1> DEFINE r == result[at]
           screen == <<r.terminal.screen>>
           v == VectorOf(EncodeBatch(cache, screen)[1], r.info)
<1>0. at \in Envs /\ N \in Nat /\ N >= 1 /\ cache \in Caches /\ r \in Results
  BY LoopAssumption DEF IInv, Told, Typed
<1>1. /\ phase = "terminals"
      /\ IF r.done
         THEN terminal' = [terminal EXCEPT ![at] = v] /\ cache' = CacheAfter(cache, screen)
         ELSE UNCHANGED <<terminal, cache>>
      /\ \/ phase' = "choose" /\ at = N
         \/ phase' = "terminals" /\ at' = at + 1
      /\ UNCHANGED <<calls, page, specs, clock, choice, result, resetInfo, vector>>
  BY DEF EncodeTerminal
<1>2. screen \in Seq(Inputs) /\ 1 \in DOMAIN screen /\ screen[1] = r.terminal.screen
  <2>1. r.terminal.screen \in Pages
    BY <1>0 DEF Results, Observations
  <2>. HIDE DEF r
  <2>. QED
    BY <2>1, LoopAssumption
<1>3. r.info \in Infos
  BY <1>0 DEF Results
<1>. HIDE DEF r, screen
<1>4. v \in Vectors /\ Encodes(v, r.terminal, r.info)
  BY <1>0, <1>2, <1>3, Encoding
<1>. HIDE DEF v
<1>5. cache' \in Caches
  BY <1>0, <1>1, <1>2, BatchKeepsCache
<1>6. terminal \in [Envs -> Vectors \cup {NoVector}]
  BY DEF Told, Typed
<1>7. terminal' \in [Envs -> Vectors \cup {NoVector}]
  BY <1>1, <1>4, <1>6
<1>8. Clocks'
  BY <1>1 DEF Told, Typed, Clocks
<1>9. Typed'
  BY <1>1, <1>5, <1>7, <1>8 DEF Told, Typed
<1>10. Described'
  BY <1>1 DEF Told, Described
<1>11. \A i \in Envs : Encodes(vector[i], result[i].obs, Source(result[i], resetInfo[i]))
  BY <1>1 DEF Told, Encoded
<1>12. ASSUME NEW i \in Envs, phase' = "choose" \/ (phase' = "terminals" /\ i < at'), result[i].done
       PROVE  Encodes(terminal'[i], result[i].terminal, result[i].info)
  <2>1. CASE i = at
    <3>1. r.done /\ terminal'[i] = v
      BY <1>1, <1>6, <1>12, <2>1 DEF r
    <3>. QED
      BY <1>4, <2>1, <3>1 DEF r
  <2>2. CASE i # at
    <3>1. i < at
      BY <1>0, <1>1, <1>12, <2>2 DEF Envs
    <3>2. terminal'[i] = terminal[i]
      BY <1>1, <1>6, <2>2
    <3>3. Encodes(terminal[i], result[i].terminal, result[i].info)
      BY <1>1, <1>12, <3>1 DEF Told, Encoded
    <3>. QED
      BY <3>2, <3>3
  <2>. QED
    BY <2>1, <2>2
<1>13. Encoded'
  BY <1>1, <1>11, <1>12 DEF Encoded
<1>. QED
  BY <1>9, <1>10, <1>13 DEF Told

\* What every environment and every vector tell of the same moment agrees.
LEMMA ToldInvariant == Spec => []Told
<1>1. Init => Told
  BY InitTold
<1>2. IInv /\ Told /\ [Next]_vars => Told'
  <2> SUFFICES ASSUME IInv, Told, [Next]_vars PROVE Told'
    OBVIOUS
  <2>1. CASE Next
    BY <2>1, ChooseTold, PageMovesTold, EnvStepTold, StepWaitTold, EncodeTerminalTold
       DEF Next
  <2>2. CASE UNCHANGED vars
    <3>1. UNCHANGED <<phase, at, calls, page, specs, clock, choice, result, resetInfo,
                      vector, terminal, cache>>
      BY <2>2 DEF vars
    <3>2. Typed'
      BY <3>1 DEF Told, Typed, Clocks
    <3>3. Described' /\ Encoded'
      BY <3>1 DEF Told, Described, Encoded
    <3>. QED
      BY <3>2, <3>3 DEF Told
  <2>. QED
    BY <2>1, <2>2
<1>. QED
  BY <1>1, <1>2, InductiveInvariant, PTL DEF Spec

\* Every variable keeps its type: no page offers more than MAX_ACTIONS actions,
\* and the cache keeps its size and its keys through every batch.
THEOREM TypeCorrect == Spec => []TypeOK
<1>1. IInv /\ Told => TypeOK
  <2> SUFFICES ASSUME IInv, Told PROVE TypeOK
    OBVIOUS
  <2>1. \A i \in Envs : Len(specs[i]) \in Counts
    <3> TAKE i \in Envs
    <3>1. specs[i] = SpecsOf[scanned[i]] /\ scanned[i] \in Pages
      BY DEF IInv, CountsAreCurrent
    <3>2. Len(SpecsOf[scanned[i]]) \in 1 .. MaxActions
      BY <3>1, LengthOfSpecs
    <3>. QED
      BY <3>1, <3>2 DEF Counts
  <2>2. clock \in [Envs -> Times]
    <3>1. MaxCalls \in Nat /\ MaxSteps \in Nat \ {0}
      BY LoopAssumption
    <3>2. calls \in 0 .. MaxCalls /\ clock \in [Envs -> Nat \X Nat] /\ Clocks
      BY DEF Told, Typed
    <3>3. ASSUME NEW i \in Envs PROVE clock[i] \in Times
      <4>1. clock[i] \in Nat \X Nat
        BY <3>2
      <4>2. clock[i][1] \in 1 .. MaxCalls + 1 /\ clock[i][2] \in 0 .. MaxSteps
        BY <3>1, <3>2, <4>1 DEF Clocks
      <4>. QED
        BY <4>1, <4>2 DEF Times
    <3>. QED
      BY <3>2, <3>3
  <2>3. IsCache(cache)
    BY CachesAreCaches DEF Told, Typed
  <2>. QED
    BY <2>1, <2>2, <2>3 DEF IInv, CountsAreCurrent, Phases, Told, Typed, TypeOK
<1>. QED
  BY <1>1, InductiveInvariant, ToldInvariant, PTL

\* Where no two inputs share a key, every vector is of one observation, and
\* the terminal one of the terminal observation, whatever the cache holds.
THEOREM ModalitiesPaired ==
  ASSUME \A x, y \in Inputs : KeyOf[x] = KeyOf[y] => x = y
  PROVE  Spec => []PairedModalities
<1>1. IInv /\ Told => PairedModalities
  <2> SUFFICES ASSUME IInv, Told, phase = "choose", NEW i \in Envs
               PROVE  /\ vector[i] = [visual |-> result[i].obs.screen,
                                      text |-> result[i].obs.time,
                                      context |-> clock[i], count |-> Len(specs[i])]
                      /\ result[i].done =>
                           /\ terminal[i].visual = result[i].terminal.screen
                           /\ terminal[i].text = result[i].terminal.time
                           /\ terminal[i].count = result[i].info.count
    BY DEF PairedModalities
  <2>1. /\ result[i] \in Results /\ vector[i] \in Vectors
        /\ terminal[i] \in Vectors \cup {NoVector}
    BY DEF Told, Typed
  <2>2. result[i].obs.screen \in Inputs /\ result[i].terminal.screen \in Inputs
    BY <2>1, LoopAssumption DEF Results, Observations
  <2>3. vector[i].visual \in Inputs
    BY <2>1, LoopAssumption DEF Vectors
  <2>4. Encodes(vector[i], result[i].obs, Source(result[i], resetInfo[i]))
    BY DEF Told, Encoded
  <2>5. /\ Source(result[i], resetInfo[i]) = InfoOf(clock[i], specs[i])
        /\ result[i].obs.time = clock[i]
        /\ result[i].done => result[i].info.page = result[i].terminal.time
    BY DEF Told, Described
  <2>6. /\ vector[i].visual = result[i].obs.screen /\ vector[i].text = clock[i]
        /\ vector[i].context = clock[i] /\ vector[i].count = Len(specs[i])
    BY <2>2, <2>3, <2>4, <2>5 DEF Encodes, InfoOf
  <2>7. vector[i] = [visual |-> vector[i].visual, text |-> vector[i].text,
                     context |-> vector[i].context, count |-> vector[i].count]
    BY <2>1 DEF Vectors
  <2>8. ASSUME result[i].done
        PROVE  /\ terminal[i].visual = result[i].terminal.screen
               /\ terminal[i].text = result[i].terminal.time
               /\ terminal[i].count = result[i].info.count
    <3>1. Encodes(terminal[i], result[i].terminal, result[i].info)
      BY <2>8 DEF Told, Encoded
    <3>2. terminal[i].visual \in Inputs
      <4>1. result[i].info \in Infos
        BY <2>1 DEF Results
      <4>2. terminal[i].text \in Times
        BY <3>1, <4>1 DEF Encodes, Infos
      <4>3. NoVector.text \notin Times
        BY DEF NoVector, Times
      <4>4. terminal[i] \in Vectors
        BY <2>1, <4>2, <4>3
      <4>. QED
        BY <4>4, LoopAssumption DEF Vectors
    <3>. QED
      BY <2>2, <2>5, <2>8, <3>1, <3>2 DEF Encodes
  <2>. QED
    BY <2>5, <2>6, <2>7, <2>8
<1>. QED
  BY <1>1, InductiveInvariant, ToldInvariant, PTL

-----------------------------------------------------------------------------
(* Selectors.                                                              *)

\* No id or name that an element is looked for by is that of an element before
\* it in the document, scanned or not.
Unambiguous(elements) ==
  \A n \in ScannedOf(elements) : \A k \in 1 .. n - 1 :
    /\ elements[n].id # NoName => elements[k].id # elements[n].id
    /\ elements[n].id = NoName /\ elements[n].name # NoName =>
         ~(TagOf(elements[k].kind) = TagOf(elements[n].kind)
             /\ elements[k].name = elements[n].name)

\* Scanned elements have different places in the scan.
LEMMA IndexesIncrease ==
  ASSUME NEW elements, Len(elements) \in Nat,
         NEW n \in ScannedOf(elements), NEW k \in ScannedOf(elements), k < n
  PROVE  IndexOf(elements, k) # IndexOf(elements, n)
<1> DEFINE upto(m) == {j \in ScannedOf(elements) : j <= m}
<1>1. n \in 1 .. Len(elements) /\ k \in 1 .. Len(elements)
  BY DEF ScannedOf
<1>2. IsFiniteSet(upto(n))
  <2>1. upto(n) \subseteq 1 .. Len(elements)
    BY DEF ScannedOf
  <2>2. IsFiniteSet(1 .. Len(elements))
    BY FS_Interval
  <2>. QED
    BY <2>1, <2>2, FS_Subset
<1>3. upto(k) \subseteq upto(n) /\ n \in upto(n) /\ n \notin upto(k)
  <2>1. \A j \in ScannedOf(elements) : j \in Int
    BY DEF ScannedOf
  <2>2. \A j \in Int : j <= k => j <= n
    BY <1>1
  <2>3. n <= n /\ ~(n <= k)
    BY <1>1
  <2>. QED
    BY Zenon, <2>1, <2>2, <2>3
<1>4. IndexOf(elements, k) = Cardinality(upto(k)) /\ IndexOf(elements, n) = Cardinality(upto(n))
  BY DEF IndexOf
<1>. HIDE DEF upto
<1>5. Cardinality(upto(k)) = Cardinality(upto(n)) => upto(k) = upto(n)
  BY <1>2, <1>3, FS_Subset
<1>. QED
  BY <1>3, <1>4, <1>5

\* On such a page a selector finds the element it was built for.
LEMMA FindsOwnElement ==
  ASSUME NEW elements, Len(elements) \in Nat, DOMAIN elements = 1 .. Len(elements),
         Unambiguous(elements), NEW n \in ScannedOf(elements)
  PROVE  FirstMatch(elements, SelectorFor(elements, n)) = n
<1> DEFINE selector == SelectorFor(elements, n)
           matching == {k \in DOMAIN elements : Matches(elements, k, selector)}
<1>0. n \in 1 .. Len(elements) /\ IsScanned(elements[n])
  BY DEF ScannedOf
<1>1. n \in matching
  BY <1>0 DEF SelectorFor, Matches
<1>2. ASSUME NEW k \in 1 .. n - 1 PROVE k \notin matching
  <2>1. /\ elements[n].id # NoName => elements[k].id # elements[n].id
        /\ elements[n].id = NoName /\ elements[n].name # NoName =>
             ~(TagOf(elements[k].kind) = TagOf(elements[n].kind)
                 /\ elements[k].name = elements[n].name)
    BY DEF Unambiguous
  <2>2. IsScanned(elements[k]) => IndexOf(elements, k) # IndexOf(elements, n)
    <3>1. k \in 1 .. Len(elements) /\ k < n
      BY <1>0
    <3>2. IsScanned(elements[k]) => k \in ScannedOf(elements)
      BY <3>1 DEF ScannedOf
    <3>. QED
      BY <3>1, <3>2, IndexesIncrease
  <2>. QED
    BY <2>1, <2>2 DEF SelectorFor, Matches
<1>3. matching \subseteq 1 .. Len(elements)
  OBVIOUS
<1>4. FirstMatch(elements, selector) =
        IF matching = {} THEN NoElement ELSE CHOOSE m \in matching : \A k \in matching : m <= k
  BY DEF FirstMatch
<1>. HIDE DEF selector, matching
<1>5. \A k \in matching : n <= k
  BY <1>0, <1>2, <1>3
<1>6. \A m \in matching : (\A k \in matching : m <= k) => m = n
  BY <1>0, <1>1, <1>3, <1>5
<1>7. (CHOOSE m \in matching : \A k \in matching : m <= k) = n
  BY <1>1, <1>5, <1>6
<1>. QED
  BY <1>1, <1>4, <1>7 DEF selector

\* Where no element of a page, scanned or not, has the id or name by which a
\* later one is looked for, an action reaches the element it was built for as
\* long as the page has not changed.
\* (Where they do not, it may reach another: selector_first.)
THEOREM ReachesScannedElement ==
  ASSUME \A p \in Pages : Unambiguous(ElementsOf[p])
  PROVE  Spec => []ActsOnScannedElement
<1>1. IInv /\ Told => ActsOnScannedElement
  <2> SUFFICES ASSUME IInv, Told, phase = "step", NEW i \in at .. N,
                      ResolveAction(specs[i], choice[i]).element # NoElement,
                      page[i] = scanned[i]
               PROVE  FirstMatch(ElementsOf[page[i]], ResolveAction(specs[i], choice[i]).selector)
                        = ResolveAction(specs[i], choice[i]).element
    BY DEF ActsOnScannedElement
  <2> DEFINE p == page[i]
             k == choice[i] + 1
             spec == SpecsOf[p][k]
  <2>1. i \in Envs
    BY LoopAssumption DEF IInv, Envs
  <2>2. p \in Pages /\ specs[i] = SpecsOf[p]
    BY <2>1 DEF Told, Typed, IInv, CountsAreCurrent
  <2>3. choice[i] \in Nat /\ choice[i] < Len(specs[i])
    BY <2>1 DEF IInv, ChoicesAreIndexes, ChoiceIsOffered
  <2>4. ResolveAction(specs[i], choice[i]) = spec
    BY <2>2, <2>3 DEF ResolveAction
  <2>5. k \in 1 .. Len(SpecsOf[p])
    <3>1. Len(SpecsOf[p]) \in 1 .. MaxActions
      BY <2>2, LengthOfSpecs
    <3>. QED
      BY <2>2, <2>3, <3>1
  <2>. HIDE DEF p, k
  <2>6. spec \in SpecsAbout(ElementsOf[p])
    BY <2>2, <2>4, <2>5, SpecIsAboutElement
  <2>7. PICK n \in ScannedOf(ElementsOf[p]) :
          spec.element = n /\ spec.selector = SelectorFor(ElementsOf[p], n)
    BY <2>6 DEF SpecsAbout
  <2>8. Len(ElementsOf[p]) \in Nat /\ DOMAIN ElementsOf[p] = 1 .. Len(ElementsOf[p])
    BY <2>2, ElementsListed
  <2>9. FirstMatch(ElementsOf[p], SelectorFor(ElementsOf[p], n)) = n
    BY <2>2, <2>8, FindsOwnElement
  <2>. QED
    BY <2>4, <2>7, <2>9 DEF p
<1>. QED
  BY <1>1, InductiveInvariant, ToldInvariant, PTL
=============================================================================
