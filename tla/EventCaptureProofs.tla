------------------------- MODULE EventCaptureProofs -------------------------
(***************************************************************************)
(* For any pages, any number of events and tabs: what the listeners accept *)
(* is reported once or discarded on purpose, a console error of a foreign  *)
(* source is never reported, and a step reports its own episode.           *)
(***************************************************************************)
EXTENDS EventCapture, TLAPS

\* An event on its way is nowhere else yet, and a new one gets an unused id.
EventsAreApart ==
  /\ \A e \in inFlight \cup Buffered \cup observed \cup cleared : e.id <= emitted
  /\ inFlight \cap (Buffered \cup observed \cup cleared) = {}
  /\ recorded \cap carried = {}

\* Between new_episode and the attaching of listeners nothing is recorded.
LoadingIsDeaf == phase = "loading" => recorded = {} /\ ~listening

SourcesInside ==
  \A e \in Buffered \cup observed : e.kind = "console" => e.page \in AppPages

\* After the first observation no event of an earlier episode is buffered.
OwnEpisode ==
  /\ \A e \in inFlight : e.id > older
  /\ phase \in {"ready"} \cup StepPhases => \A e \in Buffered : e.id > older

IInv ==
  /\ TypeOK
  /\ EventsAreApart
  /\ LoadingIsDeaf
  /\ SourcesInside
  /\ OwnEpisode
  /\ ReportedAtMostOnce
  /\ NothingLost

USE PagesAssumption, BoundsAssumption

-----------------------------------------------------------------------------
\* Before the first reset nothing has been raised, buffered or reported.
LEMMA InitEstablishes == Init => IInv
<1> SUFFICES ASSUME Init PROVE IInv
  OBVIOUS
<1>1. inFlight = {} /\ Buffered = {} /\ recorded = {} /\ ~listening
  BY DEF Init, Buffered
<1>2. page \in Pages /\ tab \in 1 .. MaxTabs
  BY DEF Init, Pages
<1>3. emitted \in 0 .. MaxEvents /\ older \in 0 .. emitted
  BY DEF Init
<1>4. TypeOK
  BY <1>1, <1>2, <1>3 DEF Init, TypeOK, Buffered, Phases, ResetPhases
<1>5. EventsAreApart /\ OwnEpisode /\ SourcesInside
  BY <1>1 DEF Init, EventsAreApart, OwnEpisode, SourcesInside
<1>6. LoadingIsDeaf /\ ReportedAtMostOnce /\ NothingLost
  BY <1>1 DEF Init, LoadingIsDeaf, ReportedAtMostOnce, NothingLost
<1>. QED
  BY <1>4, <1>5, <1>6 DEF IInv

\* An error raised by the page gets an id no other event has; it is in flight only.
LEMMA EmitPreserves ==
  ASSUME IInv, NEW kind \in Kinds, Emit(kind)
  PROVE  IInv'
<1> DEFINE e == [id |-> emitted + 1, kind |-> kind, page |-> page, tab |-> tab]
<1>0. e \in Events /\ inFlight' = inFlight \cup {e}
  BY DEF IInv, TypeOK, Emit, Events
<1>1. TypeOK'
  <2>. HIDE DEF e
  <2>. QED
    BY <1>0 DEF IInv, TypeOK, Emit, buffers, Buffered
<1>2. EventsAreApart'
  <2>1. \A x \in Buffered \cup observed \cup cleared \cup inFlight :
          x.id \in Nat /\ x.id <= emitted /\ x # e
    BY DEF IInv, TypeOK, EventsAreApart, Events
  <2>2. emitted' = emitted + 1 /\ e.id = emitted + 1 /\ emitted \in Nat
    BY DEF Emit, IInv, TypeOK
  <2>3. UNCHANGED <<Buffered, observed, cleared, recorded, carried>>
    BY DEF Emit, buffers, Buffered
  <2>. HIDE DEF e
  <2>4. \A x \in (inFlight \cup Buffered \cup observed \cup cleared)' : x.id <= emitted'
    BY <1>0, <2>1, <2>2, <2>3
  <2>5. (inFlight \cap (Buffered \cup observed \cup cleared))' = {}
    BY <1>0, <2>1, <2>3 DEF IInv, EventsAreApart
  <2>. QED
    BY <2>3, <2>4, <2>5 DEF IInv, EventsAreApart
<1>3. LoadingIsDeaf'
  BY DEF IInv, TypeOK, LoadingIsDeaf, Emit, buffers, Buffered, Phases, ResetPhases, StepPhases, ActionPhases, BetweenCalls
<1>4. SourcesInside'
  BY DEF IInv, TypeOK, SourcesInside, Emit, buffers, Buffered, Phases, ResetPhases, StepPhases, ActionPhases, BetweenCalls
<1>5. OwnEpisode'
  BY DEF IInv, TypeOK, OwnEpisode, Emit, buffers, Buffered, EventsAreApart, Phases, ResetPhases, StepPhases, ActionPhases, BetweenCalls
<1>6. ReportedAtMostOnce'
  BY DEF IInv, TypeOK, ReportedAtMostOnce, Emit, buffers, Buffered, EventsAreApart, Phases, ResetPhases, StepPhases, ActionPhases, BetweenCalls
<1>7. NothingLost'
  BY DEF IInv, TypeOK, NothingLost, Emit, buffers, Buffered, Phases, ResetPhases, StepPhases, ActionPhases, BetweenCalls
<1>. QED
  BY <1>1, <1>2, <1>3, <1>4, <1>5, <1>6, <1>7 DEF IInv

\* Navigation of the page changes where errors come from, and no buffer.
LEMMA NavigatePreserves ==
  ASSUME IInv, Navigate
  PROVE  IInv'
<1>1. TypeOK'
  BY DEF IInv, TypeOK, Navigate, buffers, Buffered, Phases, ResetPhases, StepPhases, ActionPhases, BetweenCalls
<1>2. EventsAreApart'
  BY DEF IInv, TypeOK, EventsAreApart, Navigate, buffers, Buffered, Phases, ResetPhases, StepPhases, ActionPhases, BetweenCalls
<1>3. LoadingIsDeaf'
  BY DEF IInv, TypeOK, LoadingIsDeaf, Navigate, buffers, Buffered, Phases, ResetPhases, StepPhases, ActionPhases, BetweenCalls
<1>4. SourcesInside'
  BY DEF IInv, TypeOK, SourcesInside, Navigate, buffers, Buffered, Phases, ResetPhases, StepPhases, ActionPhases, BetweenCalls
<1>5. OwnEpisode'
  BY DEF IInv, TypeOK, OwnEpisode, Navigate, buffers, Buffered, Phases, ResetPhases, StepPhases, ActionPhases, BetweenCalls
<1>6. ReportedAtMostOnce'
  BY DEF IInv, TypeOK, ReportedAtMostOnce, Navigate, buffers, Buffered, Phases, ResetPhases, StepPhases, ActionPhases, BetweenCalls
<1>7. NothingLost'
  BY DEF IInv, TypeOK, NothingLost, Navigate, buffers, Buffered, Phases, ResetPhases, StepPhases, ActionPhases, BetweenCalls
<1>. QED
  BY <1>1, <1>2, <1>3, <1>4, <1>5, <1>6, <1>7 DEF IInv

\* A listener keeps the event or rejects it; a console error it keeps has a source
\* in the application (_is_foreign_source).
LEMMA DeliverPreserves ==
  ASSUME IInv, NEW e \in inFlight, Deliver(e)
  PROVE  IInv'
<1>1. TypeOK'
  BY DEF IInv, TypeOK, Deliver, buffers, Buffered, Phases, ResetPhases, StepPhases, ActionPhases, BetweenCalls
<1>2. EventsAreApart'
  BY DEF IInv, TypeOK, EventsAreApart, Deliver, buffers, Buffered, Phases, ResetPhases, StepPhases, ActionPhases, BetweenCalls
<1>3. LoadingIsDeaf'
  BY DEF IInv, TypeOK, LoadingIsDeaf, Deliver, buffers, Buffered, Phases, ResetPhases, StepPhases, ActionPhases, BetweenCalls
<1>4. SourcesInside'
  <2>1. e \in Events /\ UNCHANGED observed
    BY DEF IInv, TypeOK, Deliver
  <2>2. Buffered' \subseteq Buffered \cup {e}
    BY DEF Deliver, Buffered
  <2>3. e \in Buffered' /\ e \notin Buffered /\ e.kind = "console" => e.page \in AppPages
    BY <2>1 DEF Deliver, Buffered, IsForeignSource, Events, Pages
  <2>. QED
    BY <2>1, <2>2, <2>3 DEF IInv, SourcesInside
<1>5. OwnEpisode'
  BY DEF IInv, TypeOK, OwnEpisode, Deliver, buffers, Buffered, EventsAreApart, Phases, ResetPhases, StepPhases, ActionPhases, BetweenCalls
<1>6. ReportedAtMostOnce'
  BY DEF IInv, TypeOK, ReportedAtMostOnce, Deliver, buffers, Buffered, EventsAreApart, Phases, ResetPhases, StepPhases, ActionPhases, BetweenCalls
<1>7. NothingLost'
  <2>1. e.kind \in Kinds
    BY DEF IInv, TypeOK, Events
  <2>2. Buffered \subseteq Buffered' /\ UNCHANGED <<observed, cleared>>
    BY DEF Deliver, Buffered
  <2>3. accepted' = accepted \/ (accepted' = accepted \cup {e} /\ e \in Buffered')
    BY <2>1 DEF Deliver, Buffered, Kinds
  <2>. QED
    BY <2>2, <2>3 DEF IInv, NothingLost
<1>. QED
  BY <1>1, <1>2, <1>3, <1>4, <1>5, <1>6, <1>7 DEF IInv

\* reset discards what is buffered, on purpose.
LEMMA ResetPreserves ==
  ASSUME IInv, Reset
  PROVE  IInv'
<1>1. TypeOK'
  BY DEF IInv, TypeOK, Reset, buffers, Buffered, Phases, ResetPhases, StepPhases, ActionPhases, BetweenCalls
<1>2. EventsAreApart'
  BY DEF IInv, TypeOK, EventsAreApart, Reset, buffers, Buffered, Phases, ResetPhases, StepPhases, ActionPhases, BetweenCalls
<1>3. LoadingIsDeaf'
  BY DEF IInv, TypeOK, LoadingIsDeaf, Reset, buffers, Buffered, Phases, ResetPhases, StepPhases, ActionPhases, BetweenCalls
<1>4. SourcesInside'
  BY DEF IInv, TypeOK, SourcesInside, Reset, buffers, Buffered, Phases, ResetPhases, StepPhases, ActionPhases, BetweenCalls
<1>5. OwnEpisode'
  BY DEF IInv, TypeOK, OwnEpisode, Reset, buffers, Buffered, EventsAreApart, Phases, ResetPhases, StepPhases, ActionPhases, BetweenCalls
<1>6. ReportedAtMostOnce'
  BY DEF IInv, TypeOK, ReportedAtMostOnce, Reset, buffers, Buffered, EventsAreApart, Phases, ResetPhases, StepPhases, ActionPhases, BetweenCalls
<1>7. NothingLost'
  BY DEF IInv, TypeOK, NothingLost, Reset, buffers, Buffered, Phases, ResetPhases, StepPhases, ActionPhases, BetweenCalls
<1>. QED
  BY <1>1, <1>2, <1>3, <1>4, <1>5, <1>6, <1>7 DEF IInv

\* new_episode closes the old context: its events are gone, and the new page has
\* no listeners yet.
LEMMA NewEpisodePreserves ==
  ASSUME IInv, NewEpisode
  PROVE  IInv'
<1>1. TypeOK'
  <2>1. page' \in Pages /\ tab' \in 1 .. MaxTabs
    BY DEF NewEpisode, Pages
  <2>2. emitted' \in 0 .. MaxEvents /\ older' \in 0 .. emitted'
    BY DEF IInv, TypeOK, NewEpisode
  <2>3. (inFlight \cup Buffered \cup obs \cup observed \cup accepted \cup cleared)' \subseteq Events
    BY DEF IInv, TypeOK, NewEpisode, Buffered
  <2>. QED
    BY <2>1, <2>2, <2>3 DEF IInv, TypeOK, NewEpisode, Phases, ResetPhases
<1>2. EventsAreApart'
  BY DEF IInv, TypeOK, EventsAreApart, NewEpisode, buffers, Buffered, Phases, ResetPhases, StepPhases, ActionPhases, BetweenCalls
<1>3. LoadingIsDeaf'
  BY DEF IInv, TypeOK, LoadingIsDeaf, NewEpisode, buffers, Buffered, Phases, ResetPhases, StepPhases, ActionPhases, BetweenCalls
<1>4. SourcesInside'
  BY DEF IInv, TypeOK, SourcesInside, NewEpisode, buffers, Buffered, Phases, ResetPhases, StepPhases, ActionPhases, BetweenCalls
<1>5. OwnEpisode'
  BY DEF IInv, TypeOK, OwnEpisode, NewEpisode, buffers, Buffered, Phases, ResetPhases, StepPhases, ActionPhases, BetweenCalls
<1>6. ReportedAtMostOnce'
  BY DEF IInv, TypeOK, ReportedAtMostOnce, NewEpisode, buffers, Buffered, Phases, ResetPhases, StepPhases, ActionPhases, BetweenCalls
<1>7. NothingLost'
  BY DEF IInv, TypeOK, NothingLost, NewEpisode, buffers, Buffered, Phases, ResetPhases, StepPhases, ActionPhases, BetweenCalls
<1>. QED
  BY <1>1, <1>2, <1>3, <1>4, <1>5, <1>6, <1>7 DEF IInv

\* From the attaching of listeners on, events can be recorded.
LEMMA AttachPageListenersPreserves ==
  ASSUME IInv, AttachPageListeners
  PROVE  IInv'
<1>1. TypeOK'
  BY DEF IInv, TypeOK, AttachPageListeners, buffers, Buffered, Phases, ResetPhases, StepPhases, ActionPhases, BetweenCalls
<1>2. EventsAreApart'
  BY DEF IInv, TypeOK, EventsAreApart, AttachPageListeners, buffers, Buffered, Phases, ResetPhases, StepPhases, ActionPhases, BetweenCalls
<1>3. LoadingIsDeaf'
  BY DEF IInv, TypeOK, LoadingIsDeaf, AttachPageListeners, buffers, Buffered, Phases, ResetPhases, StepPhases, ActionPhases, BetweenCalls
<1>4. SourcesInside'
  BY DEF IInv, TypeOK, SourcesInside, AttachPageListeners, buffers, Buffered, Phases, ResetPhases, StepPhases, ActionPhases, BetweenCalls
<1>5. OwnEpisode'
  BY DEF IInv, TypeOK, OwnEpisode, AttachPageListeners, buffers, Buffered, Phases, ResetPhases, StepPhases, ActionPhases, BetweenCalls
<1>6. ReportedAtMostOnce'
  BY DEF IInv, TypeOK, ReportedAtMostOnce, AttachPageListeners, buffers, Buffered, Phases, ResetPhases, StepPhases, ActionPhases, BetweenCalls
<1>7. NothingLost'
  BY DEF IInv, TypeOK, NothingLost, AttachPageListeners, LoadingIsDeaf, buffers, Buffered, Phases, ResetPhases, StepPhases, ActionPhases, BetweenCalls
<1>. QED
  BY <1>1, <1>2, <1>3, <1>4, <1>5, <1>6, <1>7 DEF IInv

\* What the bootstrap's steps record is discarded, on purpose.
LEMMA RunSetupActionsPreserves ==
  ASSUME IInv, RunSetupActions
  PROVE  IInv'
<1>1. TypeOK'
  BY DEF IInv, TypeOK, RunSetupActions, ClearBuffers, buffers, Buffered, Phases, ResetPhases, StepPhases, ActionPhases, BetweenCalls
<1>2. EventsAreApart'
  BY DEF IInv, TypeOK, EventsAreApart, RunSetupActions, ClearBuffers, buffers, Buffered, Phases, ResetPhases, StepPhases, ActionPhases, BetweenCalls
<1>3. LoadingIsDeaf'
  BY DEF IInv, TypeOK, LoadingIsDeaf, RunSetupActions, ClearBuffers, buffers, Buffered, Phases, ResetPhases, StepPhases, ActionPhases, BetweenCalls
<1>4. SourcesInside'
  BY DEF IInv, TypeOK, SourcesInside, RunSetupActions, ClearBuffers, buffers, Buffered, Phases, ResetPhases, StepPhases, ActionPhases, BetweenCalls
<1>5. OwnEpisode'
  BY DEF IInv, TypeOK, OwnEpisode, RunSetupActions, ClearBuffers, buffers, Buffered, Phases, ResetPhases, StepPhases, ActionPhases, BetweenCalls
<1>6. ReportedAtMostOnce'
  BY DEF IInv, TypeOK, ReportedAtMostOnce, RunSetupActions, ClearBuffers, buffers, Buffered, Phases, ResetPhases, StepPhases, ActionPhases, BetweenCalls
<1>7. NothingLost'
  BY DEF IInv, TypeOK, NothingLost, RunSetupActions, ClearBuffers, buffers, Buffered, Phases, ResetPhases, StepPhases, ActionPhases, BetweenCalls
<1>. QED
  BY <1>1, <1>2, <1>3, <1>4, <1>5, <1>6, <1>7 DEF IInv

\* The first observation hands out what is buffered and empties the buffers.
LEMMA ObserveResetPreserves ==
  ASSUME IInv, ObserveReset
  PROVE  IInv'
<1>1. TypeOK'
  BY DEF IInv, TypeOK, ObserveReset, CaptureRawObservation, ErrorKeys, Events, Pages, buffers, Buffered, Phases, ResetPhases, StepPhases, ActionPhases, BetweenCalls
<1>2. EventsAreApart'
  BY DEF IInv, TypeOK, EventsAreApart, ObserveReset, CaptureRawObservation, buffers, Buffered, Phases, ResetPhases, StepPhases, ActionPhases, BetweenCalls
<1>3. LoadingIsDeaf'
  BY DEF IInv, TypeOK, LoadingIsDeaf, ObserveReset, CaptureRawObservation, buffers, Buffered, Phases, ResetPhases, StepPhases, ActionPhases, BetweenCalls
<1>4. SourcesInside'
  BY DEF IInv, TypeOK, SourcesInside, ObserveReset, CaptureRawObservation, buffers, Buffered, Phases, ResetPhases, StepPhases, ActionPhases, BetweenCalls
<1>5. OwnEpisode'
  BY DEF IInv, TypeOK, OwnEpisode, ObserveReset, CaptureRawObservation, buffers, Buffered, Phases, ResetPhases, StepPhases, ActionPhases, BetweenCalls
<1>6. ReportedAtMostOnce'
  BY DEF IInv, TypeOK, ReportedAtMostOnce, ObserveReset, CaptureRawObservation, buffers, Buffered, Phases, ResetPhases, StepPhases, ActionPhases, BetweenCalls
<1>7. NothingLost'
  BY DEF IInv, TypeOK, NothingLost, ObserveReset, CaptureRawObservation, buffers, Buffered, Phases, ResetPhases, StepPhases, ActionPhases, BetweenCalls
<1>. QED
  BY <1>1, <1>2, <1>3, <1>4, <1>5, <1>6, <1>7 DEF IInv

\* The agent's action touches no buffer.
LEMMA ActPreserves ==
  ASSUME IInv, Act
  PROVE  IInv'
<1>1. TypeOK'
  BY DEF IInv, TypeOK, Act, buffers, Buffered, Phases, ResetPhases, StepPhases, ActionPhases, BetweenCalls
<1>2. EventsAreApart'
  BY DEF IInv, TypeOK, EventsAreApart, Act, buffers, Buffered, Phases, ResetPhases, StepPhases, ActionPhases, BetweenCalls
<1>3. LoadingIsDeaf'
  BY DEF IInv, TypeOK, LoadingIsDeaf, Act, buffers, Buffered, Phases, ResetPhases, StepPhases, ActionPhases, BetweenCalls
<1>4. SourcesInside'
  BY DEF IInv, TypeOK, SourcesInside, Act, buffers, Buffered, Phases, ResetPhases, StepPhases, ActionPhases, BetweenCalls
<1>5. OwnEpisode'
  BY DEF IInv, TypeOK, OwnEpisode, Act, buffers, Buffered, Phases, ResetPhases, StepPhases, ActionPhases, BetweenCalls
<1>6. ReportedAtMostOnce'
  BY DEF IInv, TypeOK, ReportedAtMostOnce, Act, buffers, Buffered, Phases, ResetPhases, StepPhases, ActionPhases, BetweenCalls
<1>7. NothingLost'
  BY DEF IInv, TypeOK, NothingLost, Act, buffers, Buffered, Phases, ResetPhases, StepPhases, ActionPhases, BetweenCalls
<1>. QED
  BY <1>1, <1>2, <1>3, <1>4, <1>5, <1>6, <1>7 DEF IInv

\* The superseded tab's events are carried over, not duplicated.
LEMMA AdoptNewPagePreserves ==
  ASSUME IInv, AdoptNewPage
  PROVE  IInv'
<1>1. TypeOK'
  BY DEF IInv, TypeOK, AdoptNewPage, Pages, buffers, Buffered, Phases, ResetPhases, StepPhases, ActionPhases, BetweenCalls
<1>2. EventsAreApart'
  BY DEF IInv, TypeOK, EventsAreApart, AdoptNewPage, buffers, Buffered, Phases, ResetPhases, StepPhases, ActionPhases, BetweenCalls
<1>3. LoadingIsDeaf'
  BY DEF IInv, TypeOK, LoadingIsDeaf, AdoptNewPage, buffers, Buffered, Phases, ResetPhases, StepPhases, ActionPhases, BetweenCalls
<1>4. SourcesInside'
  BY DEF IInv, TypeOK, SourcesInside, AdoptNewPage, buffers, Buffered, Phases, ResetPhases, StepPhases, ActionPhases, BetweenCalls
<1>5. OwnEpisode'
  BY DEF IInv, TypeOK, OwnEpisode, AdoptNewPage, buffers, Buffered, Phases, ResetPhases, StepPhases, ActionPhases, BetweenCalls
<1>6. ReportedAtMostOnce'
  BY DEF IInv, TypeOK, ReportedAtMostOnce, AdoptNewPage, buffers, Buffered, Phases, ResetPhases, StepPhases, ActionPhases, BetweenCalls
<1>7. NothingLost'
  BY DEF IInv, TypeOK, NothingLost, AdoptNewPage, buffers, Buffered, Phases, ResetPhases, StepPhases, ActionPhases, BetweenCalls
<1>. QED
  BY <1>1, <1>2, <1>3, <1>4, <1>5, <1>6, <1>7 DEF IInv

\* A guard that passes touches no buffer.
LEMMA GuardPassesPreserves ==
  ASSUME IInv, GuardPasses
  PROVE  IInv'
<1>1. TypeOK'
  BY DEF IInv, TypeOK, GuardPasses, buffers, Buffered, Phases, ResetPhases, StepPhases, ActionPhases, BetweenCalls
<1>2. EventsAreApart'
  BY DEF IInv, TypeOK, EventsAreApart, GuardPasses, buffers, Buffered, Phases, ResetPhases, StepPhases, ActionPhases, BetweenCalls
<1>3. LoadingIsDeaf'
  BY DEF IInv, TypeOK, LoadingIsDeaf, GuardPasses, buffers, Buffered, Phases, ResetPhases, StepPhases, ActionPhases, BetweenCalls
<1>4. SourcesInside'
  BY DEF IInv, TypeOK, SourcesInside, GuardPasses, buffers, Buffered, Phases, ResetPhases, StepPhases, ActionPhases, BetweenCalls
<1>5. OwnEpisode'
  BY DEF IInv, TypeOK, OwnEpisode, GuardPasses, buffers, Buffered, Phases, ResetPhases, StepPhases, ActionPhases, BetweenCalls
<1>6. ReportedAtMostOnce'
  BY DEF IInv, TypeOK, ReportedAtMostOnce, GuardPasses, buffers, Buffered, Phases, ResetPhases, StepPhases, ActionPhases, BetweenCalls
<1>7. NothingLost'
  BY DEF IInv, TypeOK, NothingLost, GuardPasses, buffers, Buffered, Phases, ResetPhases, StepPhases, ActionPhases, BetweenCalls
<1>. QED
  BY <1>1, <1>2, <1>3, <1>4, <1>5, <1>6, <1>7 DEF IInv

\* A refusal brings the page back and touches no buffer.
LEMMA RefusePreserves ==
  ASSUME IInv, Refuse
  PROVE  IInv'
<1>1. TypeOK'
  BY DEF IInv, TypeOK, Refuse, Pages, buffers, Buffered, Phases, ResetPhases, StepPhases, ActionPhases, BetweenCalls
<1>2. EventsAreApart'
  BY DEF IInv, TypeOK, EventsAreApart, Refuse, buffers, Buffered, Phases, ResetPhases, StepPhases, ActionPhases, BetweenCalls
<1>3. LoadingIsDeaf'
  BY DEF IInv, TypeOK, LoadingIsDeaf, Refuse, buffers, Buffered, Phases, ResetPhases, StepPhases, ActionPhases, BetweenCalls
<1>4. SourcesInside'
  BY DEF IInv, TypeOK, SourcesInside, Refuse, buffers, Buffered, Phases, ResetPhases, StepPhases, ActionPhases, BetweenCalls
<1>5. OwnEpisode'
  BY DEF IInv, TypeOK, OwnEpisode, Refuse, buffers, Buffered, Phases, ResetPhases, StepPhases, ActionPhases, BetweenCalls
<1>6. ReportedAtMostOnce'
  BY DEF IInv, TypeOK, ReportedAtMostOnce, Refuse, buffers, Buffered, Phases, ResetPhases, StepPhases, ActionPhases, BetweenCalls
<1>7. NothingLost'
  BY DEF IInv, TypeOK, NothingLost, Refuse, buffers, Buffered, Phases, ResetPhases, StepPhases, ActionPhases, BetweenCalls
<1>. QED
  BY <1>1, <1>2, <1>3, <1>4, <1>5, <1>6, <1>7 DEF IInv

\* After a refusal what is buffered is discarded, on purpose.
LEMMA DiscardOffsiteEventsPreserves ==
  ASSUME IInv, DiscardOffsiteEvents
  PROVE  IInv'
<1>1. TypeOK'
  BY DEF IInv, TypeOK, DiscardOffsiteEvents, ClearBuffers, buffers, Buffered, Phases, ResetPhases, StepPhases, ActionPhases, BetweenCalls
<1>2. EventsAreApart'
  BY DEF IInv, TypeOK, EventsAreApart, DiscardOffsiteEvents, ClearBuffers, buffers, Buffered, Phases, ResetPhases, StepPhases, ActionPhases, BetweenCalls
<1>3. LoadingIsDeaf'
  BY DEF IInv, TypeOK, LoadingIsDeaf, DiscardOffsiteEvents, ClearBuffers, buffers, Buffered, Phases, ResetPhases, StepPhases, ActionPhases, BetweenCalls
<1>4. SourcesInside'
  BY DEF IInv, TypeOK, SourcesInside, DiscardOffsiteEvents, ClearBuffers, buffers, Buffered, Phases, ResetPhases, StepPhases, ActionPhases, BetweenCalls
<1>5. OwnEpisode'
  BY DEF IInv, TypeOK, OwnEpisode, DiscardOffsiteEvents, ClearBuffers, buffers, Buffered, Phases, ResetPhases, StepPhases, ActionPhases, BetweenCalls
<1>6. ReportedAtMostOnce'
  BY DEF IInv, TypeOK, ReportedAtMostOnce, DiscardOffsiteEvents, ClearBuffers, buffers, Buffered, Phases, ResetPhases, StepPhases, ActionPhases, BetweenCalls
<1>7. NothingLost'
  BY DEF IInv, TypeOK, NothingLost, DiscardOffsiteEvents, ClearBuffers, buffers, Buffered, Phases, ResetPhases, StepPhases, ActionPhases, BetweenCalls
<1>. QED
  BY <1>1, <1>2, <1>3, <1>4, <1>5, <1>6, <1>7 DEF IInv

\* A step's observation hands out what is buffered, once, and it is of this episode.
LEMMA ObserveStepPreserves ==
  ASSUME IInv, ObserveStep
  PROVE  IInv'
<1>1. TypeOK'
  BY DEF IInv, TypeOK, ObserveStep, CaptureRawObservation, buffers, Buffered, Phases, ResetPhases, StepPhases, ActionPhases, BetweenCalls
<1>2. EventsAreApart'
  BY DEF IInv, TypeOK, EventsAreApart, ObserveStep, CaptureRawObservation, buffers, Buffered, Phases, ResetPhases, StepPhases, ActionPhases, BetweenCalls
<1>3. LoadingIsDeaf'
  BY DEF IInv, TypeOK, LoadingIsDeaf, ObserveStep, CaptureRawObservation, buffers, Buffered, Phases, ResetPhases, StepPhases, ActionPhases, BetweenCalls
<1>4. SourcesInside'
  BY DEF IInv, TypeOK, SourcesInside, ObserveStep, CaptureRawObservation, buffers, Buffered, Phases, ResetPhases, StepPhases, ActionPhases, BetweenCalls
<1>5. OwnEpisode'
  BY DEF IInv, TypeOK, OwnEpisode, ObserveStep, CaptureRawObservation, buffers, Buffered, Phases, ResetPhases, StepPhases, ActionPhases, BetweenCalls
<1>6. ReportedAtMostOnce'
  BY DEF IInv, TypeOK, ReportedAtMostOnce, ObserveStep, CaptureRawObservation, buffers, Buffered, Phases, ResetPhases, StepPhases, ActionPhases, BetweenCalls
<1>7. NothingLost'
  BY DEF IInv, TypeOK, NothingLost, ObserveStep, CaptureRawObservation, buffers, Buffered, Phases, ResetPhases, StepPhases, ActionPhases, BetweenCalls
<1>. QED
  BY <1>1, <1>2, <1>3, <1>4, <1>5, <1>6, <1>7 DEF IInv

-----------------------------------------------------------------------------
\* Every step preserves the invariant.
LEMMA StepPreserves == IInv /\ [Next]_vars => IInv'
<1> SUFFICES ASSUME IInv, [Next]_vars PROVE IInv'
  OBVIOUS
<1>1. CASE Next
  BY <1>1, EmitPreserves, NavigatePreserves, DeliverPreserves, ResetPreserves,
     NewEpisodePreserves, AttachPageListenersPreserves, RunSetupActionsPreserves,
     ObserveResetPreserves, ActPreserves, AdoptNewPagePreserves, GuardPassesPreserves,
     RefusePreserves, DiscardOffsiteEventsPreserves, ObserveStepPreserves DEF Next
<1>2. CASE UNCHANGED vars
  BY <1>2 DEF vars, buffers, IInv, TypeOK, EventsAreApart, LoadingIsDeaf, SourcesInside,
              OwnEpisode, ReportedAtMostOnce, NothingLost, Buffered
<1>. QED
  BY <1>1, <1>2

\* The events on their way, in the buffers, observed and discarded stay apart
\* in every behaviour.
THEOREM InductiveInvariant == Spec => []IInv
  BY InitEstablishes, StepPreserves, PTL DEF Spec

\* Every variable keeps its type, and every buffer holds its own kind.
THEOREM TypeCorrect == Spec => []TypeOK
<1>1. IInv => TypeOK
  BY DEF IInv
<1>. QED
  BY <1>1, InductiveInvariant, PTL

\* A console error with a foreign source is in no observation, however late it
\* is delivered (_is_foreign_source).
THEOREM ForeignNeverReported == Spec => []NoForeignConsoleError
<1>1. IInv => NoForeignConsoleError
  BY DEF IInv, SourcesInside, NoForeignConsoleError
<1>. QED
  BY <1>1, InductiveInvariant, PTL

\* What a listener accepted is buffered, reported, or discarded on purpose,
\* across adopted tabs (_adopt_new_page_if_any).
THEOREM AcceptedIsKept == Spec => []NothingLost
<1>1. IInv => NothingLost
  BY DEF IInv
<1>. QED
  BY <1>1, InductiveInvariant, PTL

\* No event is in two observations, and none that was discarded is in one
\* (_capture_raw_observation).
THEOREM ReportedOnce == Spec => []ReportedAtMostOnce
<1>1. IInv => ReportedAtMostOnce
  BY DEF IInv
<1>. QED
  BY <1>1, InductiveInvariant, PTL

\* A step's observation holds events of its own episode only (reset).
THEOREM OwnEpisodeOnly == Spec => StepsReportOwnEpisode
<1> DEFINE A == phase = "guarded" /\ phase' # "guarded" => \A e \in obs' : e.id > older
<1>1. IInv /\ [Next]_vars => [A]_vars
  <2> SUFFICES ASSUME IInv, Next, phase = "guarded", phase' # "guarded"
               PROVE  \A e \in obs' : e.id > older
    OBVIOUS
  <2>1. ObserveStep
    BY DEF Next, Emit, Navigate, Deliver, Reset, NewEpisode, AttachPageListeners,
           RunSetupActions, ObserveReset, Act, AdoptNewPage, GuardPasses, Refuse,
           DiscardOffsiteEvents, BetweenCalls, ActionPhases
  <2>. QED
    BY <2>1 DEF ObserveStep, CaptureRawObservation, IInv, OwnEpisode, StepPhases, ActionPhases
<1>. QED
  BY <1>1, InductiveInvariant, PTL DEF Spec, StepsReportOwnEpisode
=============================================================================
