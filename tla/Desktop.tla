------------------------------ MODULE Desktop ------------------------------
(***************************************************************************)
(* The application as its user meets it: the window, the shell that owns   *)
(* the sidecar, and the sidecar's life.                                    *)
(*   src/frontend/src/app.js, components/CaptchaModal.js                   *)
(*   src/src-tauri/src/main.rs  (what a command leaves behind; see also    *)
(*                               SidecarBridge and RestartBudget)          *)
(*   src/src/main.py            (the ends of the process, the watchdog)    *)
(* A command is one step of the sidecar here; SidecarBridge has its parts. *)
(***************************************************************************)
EXTENDS RestartBudget, FiniteSets

CONSTANTS
  Ticks,      \* the calls of the poll timer that may overlap
  IS_TAURI,   \* whether the window finds __TAURI__
  MaxEvents,  \* bound: events emitted
  MaxDeaths,  \* bound: deaths of the sidecar while the shell runs
  Horizon,    \* bound: the clock
  None        \* no event, or no poll under way

ASSUME NoneAssumption   == None \notin Nat
ASSUME BoundsAssumption == {MaxEvents, MaxDeaths, Horizon} \subseteq Nat /\ IS_TAURI \in BOOLEAN

VARIABLES
  shell,       \* "running" or "gone"
  slot,        \* inner: "held", "lent" to a command, or "lost"
  sidecar,     \* "ready" for a line, "serving", or "ended"
  watchdog,    \* its thread: "polling", "ended", or "off"
  deaths,      \* how often the sidecar has died
  emitted,     \* how many events it has emitted; events are numbered
  pending_events,
  polls,       \* per tick, the events its poll has drained
  captcha,     \* app.captchaEvent
  modal,       \* showCaptcha and stateId of the modal
  (* observed, read by no action *)
  dispatched   \* the events that the window was told of

shellVars == <<shell, slot, sidecar, watchdog, deaths>>
windowVars == <<captcha, modal, dispatched>>
captchaVars == <<emitted, pending_events, polls, windowVars>>
vars == <<budgetVars, shellVars, captchaVars>>

Init ==
  /\ BudgetInit
  /\ shell = "running"
  /\ slot = "held"
  /\ sidecar = "ready"
  /\ watchdog \in {"polling", "off"}
  /\ deaths = 0
  /\ emitted = 0
  /\ pending_events = <<>>
  /\ polls = [t \in Ticks |-> None]
  /\ captcha = None
  /\ modal = [shown |-> FALSE, state |-> None]
  /\ dispatched = {}

-----------------------------------------------------------------------------
(* The shell and the sidecar.                                              *)

(* The window sends commands, and without Tauri it sends none here.        *)
Command ==
  /\ IS_TAURI
  /\ shell = "running"
  /\ slot = "held"
  /\ sidecar = "ready"
  /\ slot' = "lent"
  /\ sidecar' = "serving"
  /\ UNCHANGED <<budgetVars, shell, watchdog, deaths, captchaVars>>

(* The event of a captcha is buffered by the command that is waiting.      *)
EmitEvent ==
  /\ shell = "running"
  /\ sidecar = "serving"
  /\ emitted < MaxEvents
  /\ emitted' = emitted + 1
  /\ pending_events' = Append(pending_events, emitted')
  /\ UNCHANGED <<budgetVars, shellVars, polls, windowVars>>

(* The response.  With nobody at the other end of the pipe, the write      *)
(* raises and main ends.                                                   *)
Respond ==
  /\ sidecar = "serving"
  /\ IF shell = "running"
     THEN slot' = "held" /\ sidecar' = "ready"
     ELSE sidecar' = "ended" /\ UNCHANGED slot
  /\ UNCHANGED <<budgetVars, shell, watchdog, deaths, captchaVars>>

(* A crash or a signal, at any time.                                       *)
Die ==
  /\ shell = "running"
  /\ sidecar # "ended"
  /\ deaths < MaxDeaths
  /\ sidecar' = "ended"
  /\ deaths' = deaths + 1
  /\ UNCHANGED <<budgetVars, shell, slot, watchdog, captchaVars>>

(* The waiting command sees the end of the process.  (A later one finds    *)
(* it by a failed write, which changes nothing here.)                      *)
Terminated(spawned) ==
  /\ shell = "running"
  /\ slot = "lent"
  /\ sidecar = "ended"
  /\ AttemptRestart(spawned)
  /\ IF Granted /\ spawned
     THEN /\ slot' = "held"
          /\ sidecar' = "ready"
          /\ watchdog' \in {"polling", "off"}
     ELSE slot' = "lost" /\ UNCHANGED <<sidecar, watchdog>>
  /\ UNCHANGED <<shell, deaths, captchaVars>>

Tick ==
  /\ shell = "running"
  /\ clock < Horizon
  /\ clock' = clock + 1
  /\ UNCHANGED <<window_start, count, restarts, shellVars, captchaVars>>

(* The shell ends; its plugin kills the child, unless the shell crashes.   *)
Exit ==
  /\ shell = "running"
  /\ shell' = "gone"
  /\ sidecar' \in {sidecar, "ended"}
  /\ UNCHANGED <<budgetVars, slot, watchdog, deaths, captchaVars>>

(* Fault: an empty line is skipped, and so is the end of the input.        *)
SkipEmptyLine ==
  /\ shell = "gone"
  /\ sidecar = "ready"
  /\ UNCHANGED vars

(* stdin is closed once nobody holds its other end.                        *)
ReadEof ==
  /\ shell = "gone"
  /\ sidecar = "ready"
  /\ sidecar' = "ended"
  /\ UNCHANGED <<budgetVars, shell, slot, watchdog, deaths, captchaVars>>

(* _poll_parent: sys.exit raises SystemExit in the thread of the watchdog, *)
(* which ends the thread and nothing else.                                 *)
PollParent ==
  /\ shell = "gone"
  /\ sidecar # "ended"
  /\ watchdog = "polling"
  /\ watchdog' = "ended"
  /\ UNCHANGED <<budgetVars, shell, slot, sidecar, deaths, captchaVars>>

-----------------------------------------------------------------------------
(* The window: captchas.  The modal's buttons begin with Alpine.store, and *)
(* Alpine is a name that only app.js imports: their handlers throw before  *)
(* they change anything, and no action stands for them.                    *)

(* setInterval does not wait for the call before: polls may overlap.       *)
Poll(t) ==
  /\ IS_TAURI
  /\ shell = "running"
  /\ polls[t] = None
  /\ polls' = [polls EXCEPT ![t] = pending_events]
  /\ pending_events' = <<>>
  /\ UNCHANGED <<budgetVars, shellVars, emitted, windowVars>>

EventsOf(seq) == {seq[i] : i \in DOMAIN seq}

(* Fault: a modal that is open keeps its event.                            *)
KeepFirst(events) ==
  IF events = <<>> THEN UNCHANGED windowVars
  ELSE /\ captcha' = events[Len(events)]
       /\ modal' = [shown |-> TRUE,
                    state |-> IF modal.shown THEN modal.state ELSE events[Len(events)]]
       /\ dispatched' = dispatched \cup EventsOf(events)

(* Both listeners of captcha-detected, for each event in turn.             *)
Dispatch(events) ==
  IF events = <<>> THEN UNCHANGED windowVars
  ELSE /\ captcha' = events[Len(events)]
       /\ modal' = [shown |-> TRUE, state |-> events[Len(events)]]
       /\ dispatched' = dispatched \cup EventsOf(events)

(* Fault: of an answer that comes after a later one the events are dropped.*)
DropLate(t) ==
  /\ shell = "running"
  /\ polls[t] # None
  /\ polls' = [polls EXCEPT ![t] = None]
  /\ IF \E u \in Ticks \ {t} : polls[u] # None THEN UNCHANGED windowVars
     ELSE Dispatch(polls[t])
  /\ UNCHANGED <<budgetVars, shellVars, emitted, pending_events>>

(* The answers of overlapping polls come in any order.                     *)
Deliver(t) ==
  /\ shell = "running"
  /\ polls[t] # None
  /\ polls' = [polls EXCEPT ![t] = None]
  /\ Dispatch(polls[t])
  /\ UNCHANGED <<budgetVars, shellVars, emitted, pending_events>>

-----------------------------------------------------------------------------
Next ==
  \/ Command \/ EmitEvent \/ Respond \/ Die
  \/ \E spawned \in BOOLEAN : Terminated(spawned)
  \/ Tick \/ Exit \/ ReadEof \/ PollParent
  \/ \E t \in Ticks : Poll(t) \/ Deliver(t)

(* The poll timer fires and the window's calls are answered; a command     *)
(* ends, by the timeouts of its requests, and the process reads on.        *)
(* Nobody has to start a command or to end the shell.                      *)
Fairness ==
  /\ WF_vars(Respond) /\ WF_vars(ReadEof)
  /\ WF_vars(\E t \in Ticks : Poll(t))
  /\ \A t \in Ticks : WF_vars(Deliver(t))

Spec == Init /\ [][Next]_vars
FairSpec == Spec /\ Fairness

-----------------------------------------------------------------------------
(* Properties.                                                             *)

TypeOK ==
  /\ BudgetTypeOK
  /\ shell \in {"running", "gone"}
  /\ slot \in {"held", "lent", "lost"}
  /\ sidecar \in {"ready", "serving", "ended"}
  /\ watchdog \in {"polling", "ended", "off"}
  /\ deaths \in Nat
  /\ emitted \in Nat
  /\ pending_events \in Seq(1..emitted)
  /\ polls \in [Ticks -> Seq(1..emitted) \cup {None}]
  /\ captcha \in 1..emitted \cup {None}
  /\ modal \in [shown : BOOLEAN, state : 1..emitted \cup {None}]
  /\ dispatched \subseteq 1..emitted

(* The application and its modal learn of an event by listeners of their   *)
(* own and agree which one is shown.  No event is in the buffer and in a   *)
(* poll, or in two polls, and none of which the window was told is in      *)
(* either.  A sidecar that serves has been lent its command.               *)
IInv ==
  /\ TypeOK
  /\ BudgetInv
  /\ IF modal.shown THEN captcha # None /\ captcha = modal.state ELSE captcha = None
  /\ EventsOf(pending_events) \cap dispatched = {}
  /\ \A t \in Ticks : polls[t] # None =>
       /\ EventsOf(polls[t]) \cap (EventsOf(pending_events) \cup dispatched) = {}
       /\ \A u \in Ticks \ {t} : polls[u] # None =>
            EventsOf(polls[t]) \cap EventsOf(polls[u]) = {}
  /\ sidecar = "serving" => slot = "lent"
  /\ sidecar = "ready" => slot = "held"

(* CaptchaModal.js:4.  Every event that waits to be polled reaches the     *)
(* modal, though the polls overlap, several events share the one slot and  *)
(* sidecars die, unless the application ends first.                        *)
ModalOpens ==
  \A event \in 1..MaxEvents :
    event \in EventsOf(pending_events) ~> event \in dispatched \/ shell = "gone"

(* main.py:459-461.  When the shell is gone, killed or crashed, the        *)
(* sidecar ends, idle or in the middle of a command: no orphan stays.  The *)
(* watchdog has no part in it.                                             *)
OrphanEnds == shell = "gone" ~> sidecar = "ended"
=============================================================================
