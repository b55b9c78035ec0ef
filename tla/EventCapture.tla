---------------------------- MODULE EventCapture ----------------------------
(***************************************************************************)
(* How errors reach an observation: the console and page-error listeners   *)
(* of WebTestingEnv, the NetworkRecorder of the current tab, the baseline  *)
(* learnt at reset, and the places that drain, carry or clear the buffers. *)
(*                                                                         *)
(* The page raises an event or navigates at any time (Emit, Navigate);     *)
(* Playwright hands events to the listeners later (Deliver), whenever the  *)
(* program is inside a call to it. An event therefore may be delivered     *)
(* after the page it came from is gone.                                    *)
(***************************************************************************)
EXTENDS Integers

CONSTANTS
  AppPages,    \* pages of the application
  AwayPages,   \* pages outside it
  Landing,     \* the page of base_url
  MaxEvents,   \* bound: events in a behaviour
  MaxTabs      \* bound: tabs adopted in a behaviour

ASSUME PagesAssumption ==
  /\ Landing \in AppPages
  /\ AppPages \cap AwayPages = {}

ASSUME BoundsAssumption ==
  /\ MaxEvents \in Nat
  /\ MaxTabs \in Nat \ {0}

VARIABLES
  hasSetup,    \* has the environment a session bootstrap (setup_actions)?
  page,        \* the page the current tab shows
  tab,         \* number of the current tab
  listening,   \* are the env's listeners attached to the current tab?
  inFlight,    \* events raised by a page and not yet delivered
  console,     \* _console_buffer
  pageErrors,  \* _page_error_buffer
  recorded,    \* _events of the current NetworkRecorder
  carried,     \* _carried_network_events
  baseline,    \* ErrorBaseline: pages whose HTTP error is known noise
  obs,         \* the events in the last observation
  phase,       \* position of reset() or step()
  emitted,     \* number of events raised
  older,       \* number of events raised before this episode's context opened
  stepEvents,  \* history: what the action of this step raised, unless the step
               \* has passed the guard
  observed,    \* history: the events of all observations of the episode
  accepted,    \* history: the events the listeners put into a buffer
  cleared      \* history: those a refusal or the bootstrap discarded

buffers == <<console, pageErrors, recorded, carried>>
vars == <<hasSetup, page, tab, listening, inFlight, buffers, baseline, obs, phase,
          emitted, older, stepEvents, observed, accepted, cleared>>

-----------------------------------------------------------------------------

Pages == AppPages \cup AwayPages

\* A console message that names its source, one that does not, an uncaught
\* exception (never has a source), and a failed request or response.
Kinds == {"console", "unsourced", "pageerror", "network"}

Events == [id : 1 .. MaxEvents, kind : Kinds,
           page : Pages, tab : 1 .. MaxTabs]

ResetPhases == {"loading", "attached", "bootstrapped"}
ActionPhases == {"acting", "adopted"}
StepPhases == ActionPhases \cup {"restoring", "guarded"}
BetweenCalls == {"ready", "terminated"}
Phases == {"closing"} \cup ResetPhases \cup BetweenCalls \cup StepPhases

Buffered == console \cup pageErrors \cup recorded \cup carried

\* Fault: provenance is ignored and the page shown now decides.
IsForeignByArrival(e) == e.kind # "network" /\ page \in AwayPages

\* _is_foreign_source: the source of the message or, without one, the page
\* shown when the message is delivered. The recorder does not ask.
IsForeignSource(e) ==
  CASE e.kind = "console" -> e.page \in AwayPages
    [] e.kind \in {"unsourced", "pageerror"} -> page \in AwayPages
    [] OTHER -> FALSE

\* error_key is what the baseline remembers; one page stands for one key.
ErrorKeys(events) == {e.page : e \in {x \in events : x.kind = "network"}}

-----------------------------------------------------------------------------

Init ==
  /\ hasSetup \in BOOLEAN
  /\ page = Landing
  /\ tab = 1
  /\ listening = FALSE
  /\ inFlight = {}
  /\ console = {} /\ pageErrors = {} /\ recorded = {} /\ carried = {}
  /\ baseline = {}
  /\ obs = {}
  /\ phase = "loading"
  /\ emitted = 0 /\ older = 0
  /\ stepEvents = {}
  /\ observed = {}
  /\ accepted = {} /\ cleared = {}

\* The page raises an error: the browser's side, at any time.
Emit(kind) ==
  /\ emitted < MaxEvents
  /\ emitted' = emitted + 1
  /\ LET e == [id |-> emitted', kind |-> kind, page |-> page, tab |-> tab]
     IN  /\ inFlight' = inFlight \cup {e}
         /\ stepEvents' = IF phase \in ActionPhases THEN stepEvents \cup {e} ELSE stepEvents
  /\ UNCHANGED <<hasSetup, page, tab, listening, buffers, baseline, obs, phase, older,
                 observed, accepted, cleared>>

\* The tab shows another page: the effect of an action, of a script, of goto.
Navigate ==
  /\ page' \in Pages
  /\ UNCHANGED <<hasSetup, tab, listening, inFlight, buffers, baseline, obs, phase, emitted,
                 older, stepEvents, observed, accepted, cleared>>

\* Fault: uncaught exceptions go to the console buffer as well.
DeliverMixed(e) ==
  /\ e \in inFlight
  /\ phase \notin BetweenCalls
  /\ inFlight' = inFlight \ {e}
  /\ LET kept == listening /\ ~IsForeignSource(e)
               /\ (e.kind = "network" => e.tab = tab)
         into(buffer, kinds) ==
           IF kept /\ e.kind \in kinds THEN buffer \cup {e} ELSE buffer
     IN  /\ console' = into(console, {"console", "unsourced", "pageerror"})
         /\ pageErrors' = into(pageErrors, {"pageerror"})
         /\ recorded' = into(recorded, {"network"})
         /\ accepted' = into(accepted, Kinds)
  /\ UNCHANGED <<hasSetup, page, tab, listening, carried, baseline, obs, phase,
                 emitted, older, stepEvents, observed, cleared>>

\* A listener runs: the event is dropped, or appended to its buffer. Requests
\* of a tab that was superseded reach a recorder nobody drains any more.
Deliver(e) ==
  /\ e \in inFlight
  /\ phase \notin BetweenCalls
  /\ inFlight' = inFlight \ {e}
  /\ LET kept == listening /\ ~IsForeignSource(e)
               /\ (e.kind = "network" => e.tab = tab)
         into(buffer, kinds) ==
           IF kept /\ e.kind \in kinds THEN buffer \cup {e} ELSE buffer
     IN  /\ console' = into(console, {"console", "unsourced"})
         /\ pageErrors' = into(pageErrors, {"pageerror"})
         /\ recorded' = into(recorded, {"network"})
         /\ accepted' = into(accepted, Kinds)
  /\ UNCHANGED <<hasSetup, page, tab, listening, carried, baseline, obs, phase,
                 emitted, older, stepEvents, observed, cleared>>

\* Fault: the carried events survive the clear.
ClearAllButCarried ==
  /\ console' = {} /\ pageErrors' = {} /\ recorded' = {} /\ carried' = carried
  /\ cleared' = cleared \cup Buffered

\* A refusal and the bootstrap throw away what was recorded.
ClearBuffers ==
  /\ console' = {} /\ pageErrors' = {} /\ recorded' = {} /\ carried' = {}
  /\ cleared' = cleared \cup Buffered

\* _capture_raw_observation: every buffer moves into the observation.
CaptureRawObservation ==
  /\ obs' = Buffered
  /\ console' = {} /\ pageErrors' = {} /\ recorded' = {} /\ carried' = {}
  /\ observed' = observed \cup obs'

-----------------------------------------------------------------------------
(* reset()                                                                 *)

\* reset empties the env's buffers, and only then does new_episode close the
\* old context: the listeners may run once more while it does.
Reset ==
  /\ phase \in BetweenCalls
  /\ console' = {} /\ pageErrors' = {} /\ carried' = {}
  /\ phase' = "closing"
  /\ cleared' = cleared \cup console \cup pageErrors \cup carried
  /\ UNCHANGED <<hasSetup, page, tab, listening, inFlight, recorded, baseline, obs, emitted,
                 older, stepEvents, observed, accepted>>

\* new_episode: a fresh context on the landing page. What the old recorder
\* still held goes with it; the baseline is kept.
NewEpisode ==
  /\ phase = "closing"
  /\ page' = Landing
  /\ tab' = 1
  /\ listening' = FALSE
  /\ inFlight' = {}
  /\ recorded' = {}
  /\ older' = emitted
  /\ accepted' = Buffered \ recorded
  /\ observed' = {} /\ cleared' = {}
  /\ phase' = "loading"
  /\ UNCHANGED <<hasSetup, console, pageErrors, carried, baseline, obs, emitted, stepEvents>>

\* The listeners are attached after new_episode has loaded the page.
AttachPageListeners ==
  /\ phase = "loading"
  /\ listening' = TRUE
  /\ recorded' = {}
  /\ phase' = IF hasSetup THEN "attached" ELSE "bootstrapped"
  /\ UNCHANGED <<hasSetup, page, tab, inFlight, console, pageErrors, carried, baseline,
                 obs, emitted, older, stepEvents, observed, accepted, cleared>>

\* _run_setup_actions ends: the noise of the macro is discarded.
RunSetupActions ==
  /\ phase = "attached"
  /\ ClearBuffers
  /\ phase' = "bootstrapped"
  /\ UNCHANGED <<hasSetup, page, tab, listening, inFlight, baseline, obs, emitted, older,
                 stepEvents, observed, accepted>>

\* Fault: the first observation looks at the buffers and leaves them full.
ObserveResetPeeks ==
  /\ phase = "bootstrapped"
  /\ obs' = Buffered
  /\ baseline' = baseline \cup ErrorKeys(obs')
  /\ phase' = "ready"
  /\ UNCHANGED <<hasSetup, page, tab, listening, inFlight, buffers, emitted, older, stepEvents,
                 observed, accepted, cleared>>

\* The first observation of an episode; its HTTP errors become the baseline.
ObserveReset ==
  /\ phase = "bootstrapped"
  /\ CaptureRawObservation
  /\ baseline' = baseline \cup ErrorKeys(obs')
  /\ phase' = "ready"
  /\ UNCHANGED <<hasSetup, page, tab, listening, inFlight, emitted, older, stepEvents,
                 accepted, cleared>>

-----------------------------------------------------------------------------
(* step()                                                                  *)

\* The action runs: what it does to the page is Navigate and Emit.
Act ==
  /\ phase = "ready"
  /\ phase' = "acting"
  /\ UNCHANGED <<hasSetup, page, tab, listening, inFlight, buffers, baseline, obs, emitted,
                 older, stepEvents, observed, accepted, cleared>>

\* Fault: the old tab's recorder is replaced without being drained.
AdoptNewPageForgets ==
  /\ phase = "acting"
  /\ tab < MaxTabs
  /\ tab' = tab + 1
  /\ page' \in AppPages
  /\ recorded' = {}
  /\ phase' = "adopted"
  /\ UNCHANGED <<hasSetup, listening, inFlight, console, pageErrors, carried, baseline, obs,
                 emitted, older, stepEvents, observed, accepted, cleared>>

\* _adopt_new_page_if_any: a tab of the application becomes the current one.
AdoptNewPage ==
  /\ phase = "acting"
  /\ tab < MaxTabs
  /\ tab' = tab + 1
  /\ page' \in AppPages
  /\ carried' = carried \cup recorded
  /\ recorded' = {}
  /\ phase' = "adopted"
  /\ UNCHANGED <<hasSetup, listening, inFlight, console, pageErrors, baseline, obs,
                 emitted, older, stepEvents, observed, accepted, cleared>>

GuardPasses ==
  /\ phase \in ActionPhases
  /\ page \in AppPages
  /\ stepEvents' = {}
  /\ phase' = "guarded"
  /\ UNCHANGED <<hasSetup, page, tab, listening, inFlight, buffers, baseline, obs, emitted,
                 older, observed, accepted, cleared>>

\* The action left the application: restore() tries to bring the tab back ...
Refuse ==
  /\ phase \in ActionPhases
  /\ page \in AwayPages
  /\ page' \in AppPages \cup {page}
  /\ phase' = "restoring"
  /\ UNCHANGED <<hasSetup, tab, listening, inFlight, buffers, baseline, obs, emitted,
                 older, stepEvents, observed, accepted, cleared>>

\* ... and afterwards what was recorded meanwhile is discarded.
DiscardOffsiteEvents ==
  /\ phase = "restoring"
  /\ ClearBuffers
  /\ phase' = "guarded"
  /\ UNCHANGED <<hasSetup, page, tab, listening, inFlight, baseline, obs, emitted, older,
                 stepEvents, observed, accepted>>

\* The step's observation; off-site, it ends the episode.
ObserveStep ==
  /\ phase = "guarded"
  /\ CaptureRawObservation
  /\ stepEvents' = {}
  /\ phase' = IF page \in AppPages THEN "ready" ELSE "terminated"
  /\ UNCHANGED <<hasSetup, page, tab, listening, inFlight, baseline, emitted, older,
                 accepted, cleared>>

Next ==
  \/ \E kind \in Kinds : Emit(kind)
  \/ Navigate
  \/ \E e \in inFlight : Deliver(e)
  \/ Reset
  \/ NewEpisode
  \/ AttachPageListeners
  \/ RunSetupActions
  \/ ObserveReset
  \/ Act
  \/ AdoptNewPage
  \/ GuardPasses
  \/ Refuse
  \/ DiscardOffsiteEvents
  \/ ObserveStep

Spec == Init /\ [][Next]_vars

-----------------------------------------------------------------------------
(* Properties.                                                             *)

\* Every variable stays in its type, and every buffer holds its own kind.
TypeOK ==
  /\ hasSetup \in BOOLEAN
  /\ page \in Pages
  /\ tab \in 1 .. MaxTabs
  /\ listening \in BOOLEAN
  /\ inFlight \cup Buffered \cup obs \cup observed \cup accepted \cup cleared \cup stepEvents
       \subseteq Events
  /\ \A e \in console : e.kind \in {"console", "unsourced"}
  /\ \A e \in pageErrors : e.kind = "pageerror"
  /\ \A e \in recorded \cup carried : e.kind = "network"
  /\ baseline \subseteq Pages
  /\ phase \in Phases
  /\ emitted \in 0 .. MaxEvents
  /\ older \in 0 .. emitted

\* A console error that names a source outside the application is in no
\* observation, however late it is delivered (_is_foreign_source: "keying on
\* provenance ... closes the race outright").
NoForeignConsoleError ==
  \A e \in observed : e.kind = "console" => e.page \in AppPages

\* No event is reported twice, and none that was discarded is reported:
\* across drains, carries and adopted tabs, what an observation has held or a
\* clear has removed is in no buffer an observation will be taken from.
ReportedAtMostOnce ==
  /\ observed \cap Buffered = {}
  /\ cleared \cap (observed \cup Buffered) = {}

\* Nothing the listeners accepted is lost but what a refusal or the bootstrap
\* discards: it is buffered or in an observation, also when a tab is
\* superseded ("don't lose what the old page recorded").
NothingLost == accepted \subseteq Buffered \cup observed \cup cleared

\* What a step reports was raised in its own episode, although listeners of
\* the last one may still run after reset has emptied the buffers.
StepsReportOwnEpisode ==
  [][phase = "guarded" /\ phase' # "guarded" => \A e \in obs' : e.id > older]_vars

\* "Nothing observed off-site is evidence about this application": when a step
\* was refused and the page brought back, no HTTP error that its action raised on
\* a page outside the application is in the step's observation.
NoOffsiteHttpError ==
  [][phase = "guarded" /\ phase' = "ready" =>
       \A e \in obs' \cap stepEvents : e.kind = "network" => e.page \in AppPages]_vars
=============================================================================
