--------------------------- MODULE DesktopProofs ---------------------------
(***************************************************************************)
(* Proofs about Desktop, for any number of polls, events and deaths.  The  *)
(* budget of restarts is that of RestartBudget: each step is one of its    *)
(* steps or leaves it alone, so that its lemmas apply.                     *)
(***************************************************************************)
EXTENDS Desktop, TLAPS

-----------------------------------------------------------------------------
(* The budget of restarts, for every budget, window and clock.  Every      *)
(* restart of this window is among the last Spent ones, and every restart  *)
(* of the window before it among the MaxRestarts before those; what lies   *)
(* further back precedes that window's start, and this one began a whole   *)
(* period later.                                                           *)

BudgetIInv == BudgetTypeOK /\ BudgetInv /\ RestartsAreBounded

(* The length of a window is a number of ticks, and not zero.              *)
LEMMA PeriodType == Period \in Nat
  <1>1. WindowSecs + 1 \in Nat /\ Second \in Nat
    BY WindowSecsAssumption, SecondAssumption
  <1> QED
    BY <1>1 DEF Period

LEMMA InitBudget == BudgetInit => BudgetIInv
  BY PeriodType, MaxRestartsAssumption
  DEF BudgetInit, BudgetIInv, BudgetTypeOK, BudgetInv, RestartsAreBounded

(* A crash that is refused, or whose process cannot be spawned, leaves the *)
(* restarts as they are and moves the window's start at most forward.      *)
LEMMA RefusedKeepsBudget ==
  ASSUME BudgetIInv,
         window_start' = (IF WindowIsOver THEN clock ELSE window_start),
         count' = (IF WindowIsOver THEN 1 ELSE count + 1),
         restarts' = restarts,
         clock' = clock
  PROVE  BudgetIInv'
  <1> USE PeriodType, MaxRestartsAssumption
  <1>1. BudgetTypeOK'
    BY DEF BudgetIInv, BudgetTypeOK
  <1>2. RestartsAreBounded'
    BY DEF BudgetIInv, RestartsAreBounded
  <1>3. BudgetInv'
    <2>1. CASE WindowIsOver
      <3>1. /\ window_start' = clock /\ Spent' = 1 /\ window_start + Period <= clock
            /\ \A i \in 1..Len(restarts) :
                 i + MaxRestarts <= Len(restarts) => restarts[i] <= window_start
        BY <2>1 DEF BudgetIInv, BudgetTypeOK, BudgetInv, Spent, WindowIsOver
      <3>2. Len(restarts) \in Nat /\ \A i \in 1..Len(restarts) : restarts[i] \in Nat
        BY DEF BudgetIInv, BudgetTypeOK
      <3>3. \A i \in 1..Len(restarts) :
              i + MaxRestarts <= Len(restarts) => restarts[i] + Period <= clock
        BY <3>1, <3>2 DEF BudgetIInv, BudgetTypeOK
      <3> QED
        BY <3>1, <3>2, <3>3 DEF BudgetIInv, BudgetTypeOK, BudgetInv
    <2>2. CASE ~WindowIsOver
      BY <2>2 DEF BudgetIInv, BudgetTypeOK, BudgetInv, Spent, WindowIsOver
    <2> QED
      BY <2>1, <2>2
  <1> QED
    BY <1>1, <1>2, <1>3 DEF BudgetIInv

(* A restart is granted after a window or within the budget of this one.   *)
LEMMA GrantedKeepsBudget ==
  ASSUME BudgetIInv, Granted,
         window_start' = (IF WindowIsOver THEN clock ELSE window_start),
         count' = (IF WindowIsOver THEN 1 ELSE count + 1),
         restarts' = Append(restarts, clock),
         clock' = clock
  PROVE  BudgetIInv'
  <1> USE PeriodType, MaxRestartsAssumption
  <1>1. /\ restarts' \in Seq(Nat)
        /\ Len(restarts') = Len(restarts) + 1
        /\ \A i \in 1..Len(restarts) : restarts'[i] = restarts[i]
        /\ restarts'[Len(restarts) + 1] = clock
    BY DEF BudgetIInv, BudgetTypeOK
  <1>types. /\ Len(restarts) \in Nat /\ clock \in Nat /\ window_start \in Nat
            /\ window_start <= clock
            /\ \A i \in 1..Len(restarts) : restarts[i] \in Nat /\ restarts[i] <= clock
    BY DEF BudgetIInv, BudgetTypeOK
  <1>2. BudgetTypeOK'
    BY <1>1 DEF BudgetIInv, BudgetTypeOK
  <1>last. ASSUME \A i \in 1..Len(restarts) :
                    i + 2 * MaxRestarts <= Len(restarts) + 1 => restarts[i] + Period <= clock
           PROVE  RestartsAreBounded'
    <2> SUFFICES ASSUME NEW i \in 1..Len(restarts'), i + 2 * MaxRestarts <= Len(restarts')
                 PROVE  restarts'[i] + Period <= restarts'[i + 2 * MaxRestarts]
      BY DEF RestartsAreBounded
    <2>1. i \in 1..Len(restarts) /\ restarts'[i] = restarts[i]
      BY <1>1, <1>types
    <2>2. CASE i + 2 * MaxRestarts = Len(restarts) + 1
      BY <1>1, <1>types, <1>last, <2>1, <2>2
    <2>3. CASE i + 2 * MaxRestarts # Len(restarts) + 1
      <3>1. i + 2 * MaxRestarts \in 1..Len(restarts)
        BY <1>1, <1>types, <2>1, <2>3
      <3>2. restarts'[i + 2 * MaxRestarts] = restarts[i + 2 * MaxRestarts]
        BY <1>1, <3>1
      <3> QED
        BY <2>1, <3>1, <3>2 DEF BudgetIInv, RestartsAreBounded
    <2> QED
      BY <2>2, <2>3
  <1>3. CASE WindowIsOver
    <2>1. \A i \in 1..Len(restarts) :
            i + MaxRestarts <= Len(restarts) => restarts[i] <= window_start
      BY DEF BudgetIInv, BudgetTypeOK, BudgetInv, Spent
    <2>2. window_start' = clock /\ Spent' = 1 /\ window_start + Period <= clock
      BY <1>3 DEF Spent, WindowIsOver
    <2>3. \A i \in 1..Len(restarts) :
            i + MaxRestarts <= Len(restarts) => restarts[i] + Period <= clock
      BY <1>types, <2>1, <2>2
    <2>4. BudgetInv'
      BY <1>1, <1>types, <2>2, <2>3 DEF BudgetInv
    <2>5. RestartsAreBounded'
      BY <1>types, <1>last, <2>3
    <2> QED
      BY <1>2, <2>4, <2>5 DEF BudgetIInv
  <1>4. CASE ~WindowIsOver
    <2>1. /\ window_start' = window_start
          /\ Spent = count /\ Spent' = count + 1 /\ count < MaxRestarts
      BY <1>4 DEF BudgetIInv, BudgetTypeOK, Spent, Granted
    <2>2. BudgetInv'
      BY <1>1, <2>1 DEF BudgetIInv, BudgetTypeOK, BudgetInv
    <2>3. \A i \in 1..Len(restarts) :
            i + 2 * MaxRestarts <= Len(restarts) + 1 => restarts[i] + Period <= clock
      <3>1. \A i \in 1..Len(restarts) :
              i + 2 * MaxRestarts <= Len(restarts) + 1 => i + Spent + MaxRestarts <= Len(restarts)
        BY <1>types, <2>1 DEF BudgetIInv, BudgetTypeOK
      <3> QED
        BY <1>types, <3>1 DEF BudgetIInv, BudgetInv
    <2>4. RestartsAreBounded'
      BY <1>types, <1>last, <2>3
    <2> QED
      BY <1>2, <2>2, <2>4 DEF BudgetIInv
  <1> QED
    BY <1>3, <1>4

LEMMA RestartKeepsBudget ==
  ASSUME NEW spawned \in BOOLEAN, BudgetIInv, AttemptRestart(spawned)
  PROVE  BudgetIInv'
  <1>1. CASE Granted /\ spawned
    BY <1>1, GrantedKeepsBudget DEF AttemptRestart
  <1>2. CASE ~(Granted /\ spawned)
    BY <1>2, RefusedKeepsBudget DEF AttemptRestart
  <1> QED
    BY <1>1, <1>2

LEMMA ClockKeepsBudget ==
  ASSUME BudgetIInv, clock' \in Nat, clock' >= clock,
         UNCHANGED <<window_start, count, restarts>>
  PROVE  BudgetIInv'
  BY DEF BudgetIInv, BudgetTypeOK, BudgetInv, RestartsAreBounded, Spent

(* A step of the budget keeps its invariant.                               *)
LEMMA BudgetStepKeeps == BudgetIInv /\ [BudgetNext]_budgetVars => BudgetIInv'
  <1> SUFFICES ASSUME BudgetIInv, [BudgetNext]_budgetVars PROVE BudgetIInv'
    OBVIOUS
  <1>1. CASE ClockAdvances
    BY <1>1, ClockKeepsBudget DEF ClockAdvances, BudgetIInv, BudgetTypeOK
  <1>2. ASSUME NEW spawned \in BOOLEAN, AttemptRestart(spawned) PROVE BudgetIInv'
    BY <1>2, RestartKeepsBudget
  <1>3. CASE UNCHANGED budgetVars
    BY <1>3, ClockKeepsBudget DEF budgetVars, BudgetIInv, BudgetTypeOK
  <1> QED
    BY <1>1, <1>2, <1>3 DEF BudgetNext

(* main.rs:37-50.  Whatever the crashes, at most twice MAX_SIDECAR_RESTARTS*)
(* restarts fall within one RESTART_WINDOW_SECS.                           *)
THEOREM BudgetIsKept == BudgetSpec => []RestartsAreBounded
  <1>1. BudgetIInv => RestartsAreBounded
    BY DEF BudgetIInv
  <1> QED
    BY <1>1, BudgetStepKeeps, InitBudget, PTL DEF BudgetSpec

-----------------------------------------------------------------------------
(* The budget of the application.                                          *)

(* Every step of the application is a step of the budget, or none.         *)
LEMMA StepOfBudget ==
  ASSUME BudgetTypeOK, [Next]_vars
  PROVE  [BudgetNext]_budgetVars
  <1>1. CASE Tick
    BY <1>1 DEF Tick, BudgetTypeOK, BudgetNext, ClockAdvances
  <1>2. ASSUME NEW spawned \in BOOLEAN, Terminated(spawned)
        PROVE  BudgetNext
    BY <1>2 DEF Terminated, BudgetNext
  <1>3. CASE UNCHANGED vars
    BY <1>3 DEF vars
  <1>4. CASE Command \/ EmitEvent \/ Respond \/ Die \/ Exit \/ ReadEof \/ PollParent
    BY <1>4 DEF Command, EmitEvent, Respond, Die, Exit, ReadEof, PollParent
  <1>5. ASSUME NEW t \in Ticks, Poll(t) \/ Deliver(t)
        PROVE  UNCHANGED budgetVars
    BY <1>5 DEF Poll, Deliver
  <1> QED
    BY <1>1, <1>2, <1>3, <1>4, <1>5 DEF Next

(* main.rs:37-50, in the application.  However the sidecar dies, the       *)
(* commands come and the window is used, no RESTART_WINDOW_SECS sees more  *)
(* than twice MAX_SIDECAR_RESTARTS restarts.                               *)
THEOREM ApplicationKeepsBudget == Spec => []RestartsAreBounded
  <1>1. Init => BudgetIInv
    BY InitBudget DEF Init
  <1>2. BudgetIInv /\ [Next]_vars => BudgetIInv'
    BY StepOfBudget, BudgetStepKeeps DEF BudgetIInv
  <1>3. BudgetIInv => RestartsAreBounded
    BY DEF BudgetIInv
  <1> QED
    BY <1>1, <1>2, <1>3, PTL DEF Spec

(* The application implements the budget: its clock, its count and its     *)
(* restarts are those of RestartBudget.                                    *)
THEOREM ApplicationImplementsBudget == Spec => BudgetSpec
  <1>1. Init => BudgetInit /\ BudgetIInv
    BY InitBudget DEF Init
  <1>2. BudgetIInv /\ [Next]_vars => BudgetIInv' /\ [BudgetNext]_budgetVars
    BY StepOfBudget, BudgetStepKeeps DEF BudgetIInv
  <1> QED
    BY <1>1, <1>2, PTL DEF Spec, BudgetSpec

-----------------------------------------------------------------------------
(* The rest of the application's invariant, in two parts that share no     *)
(* variable.                                                               *)

ShellPart ==
  /\ shell \in {"running", "gone"}
  /\ slot \in {"held", "lent", "lost"}
  /\ sidecar \in {"ready", "serving", "ended"}
  /\ watchdog \in {"polling", "ended", "off"}
  /\ deaths \in Nat
  /\ sidecar = "serving" => slot = "lent"
  /\ sidecar = "ready" => slot = "held"

PollsAreDisjoint ==
  /\ EventsOf(pending_events) \cap dispatched = {}
  /\ \A t \in Ticks : polls[t] # None =>
       /\ EventsOf(polls[t]) \cap (EventsOf(pending_events) \cup dispatched) = {}
       /\ \A u \in Ticks \ {t} : polls[u] # None =>
            EventsOf(polls[t]) \cap EventsOf(polls[u]) = {}

ModalAgrees ==
  IF modal.shown THEN captcha # None /\ captcha = modal.state ELSE captcha = None

CaptchaTypes ==
  /\ emitted \in Nat
  /\ pending_events \in Seq(1..emitted)
  /\ polls \in [Ticks -> Seq(1..emitted) \cup {None}]
  /\ captcha \in 1..emitted \cup {None}
  /\ modal \in [shown : BOOLEAN, state : 1..emitted \cup {None}]
  /\ dispatched \subseteq 1..emitted

CaptchaPart == CaptchaTypes /\ ModalAgrees /\ PollsAreDisjoint

LEMMA Parts == IInv <=> BudgetTypeOK /\ BudgetInv /\ ShellPart /\ CaptchaPart
  BY DEF IInv, TypeOK, ShellPart, CaptchaPart, CaptchaTypes, ModalAgrees,
         PollsAreDisjoint

LEMMA ShellStep == ShellPart /\ [Next]_vars => ShellPart'
  <1> SUFFICES ASSUME ShellPart, [Next]_vars PROVE ShellPart'
    OBVIOUS
  <1> USE DEF ShellPart
  <1>1. CASE Command
    BY <1>1 DEF Command
  <1>2. CASE Respond
    BY <1>2 DEF Respond
  <1>3. CASE Die
    BY <1>3 DEF Die
  <1>4. ASSUME NEW spawned \in BOOLEAN, Terminated(spawned)
        PROVE  ShellPart'
    BY <1>4 DEF Terminated
  <1>5. CASE Exit \/ ReadEof \/ PollParent
    BY <1>5 DEF Exit, ReadEof, PollParent
  <1>6. CASE EmitEvent \/ Tick
    BY <1>6 DEF EmitEvent, Tick, shellVars
  <1>7. ASSUME NEW t \in Ticks, Poll(t) \/ Deliver(t)
        PROVE  ShellPart'
    BY <1>7 DEF Poll, Deliver, shellVars
  <1>8. CASE UNCHANGED vars
    BY <1>8 DEF vars, shellVars
  <1> QED
    BY <1>1, <1>2, <1>3, <1>4, <1>5, <1>6, <1>7, <1>8 DEF Next

LEMMA EventTypes ==
  ASSUME CaptchaTypes
  PROVE  /\ EventsOf(pending_events) \subseteq 1..emitted
         /\ \A t \in Ticks : polls[t] # None => EventsOf(polls[t]) \subseteq 1..emitted
  <1>1. pending_events \in Seq(1..emitted)
    BY DEF CaptchaTypes
  <1>2. \A t \in Ticks : polls[t] # None => polls[t] \in Seq(1..emitted)
    BY DEF CaptchaTypes
  <1>3. ASSUME NEW seq \in Seq(1..emitted)
        PROVE  EventsOf(seq) \subseteq 1..emitted
    <2>1. \A i \in DOMAIN seq : seq[i] \in 1..emitted
      <3> DEFINE S == 1..emitted
      <3>1. seq \in Seq(S)
        OBVIOUS
      <3> HIDE DEF S
      <3>2. \A i \in DOMAIN seq : seq[i] \in S
        BY <3>1
      <3> QED
        BY <3>2 DEF S
    <2> QED
      BY <2>1 DEF EventsOf
  <1> QED
    BY <1>1, <1>2, <1>3

(* An event is new: no poll has it, and nobody was told of it.             *)
LEMMA EmitKeepsCaptchas == CaptchaPart /\ EmitEvent => CaptchaPart'
  <1> SUFFICES ASSUME CaptchaPart, EmitEvent PROVE CaptchaPart'
    OBVIOUS
  <1>1. /\ emitted' = emitted + 1 /\ pending_events' = Append(pending_events, emitted + 1)
        /\ polls' = polls /\ captcha' = captcha /\ modal' = modal
        /\ dispatched' = dispatched
    BY DEF EmitEvent, windowVars
  <1>2. /\ emitted \in Nat /\ emitted + 1 \in 1..(emitted + 1) /\ emitted + 1 \notin 1..emitted
        /\ 1..emitted \subseteq 1..(emitted + 1)
    BY DEF CaptchaPart, CaptchaTypes
  <1>3. pending_events \in Seq(1..(emitted + 1)) /\ Seq(1..emitted) \subseteq Seq(1..(emitted + 1))
    BY <1>2 DEF CaptchaPart, CaptchaTypes
  <1>4. CaptchaTypes'
    BY <1>1, <1>2, <1>3 DEF CaptchaPart, CaptchaTypes
  <1>5. EventsOf(pending_events') \subseteq EventsOf(pending_events) \cup {emitted + 1}
    <2>1. pending_events \in Seq(1..emitted)
      BY DEF CaptchaPart, CaptchaTypes
    <2> QED
      BY <1>1, <2>1 DEF EventsOf
  <1>6. /\ emitted + 1 \notin dispatched
        /\ \A t \in Ticks : polls[t] # None => emitted + 1 \notin EventsOf(polls[t])
    BY <1>2, EventTypes DEF CaptchaPart, CaptchaTypes
  <1>7. PollsAreDisjoint'
    <2>1. EventsOf(pending_events') \cap dispatched = {}
      BY <1>5, <1>6 DEF CaptchaPart, PollsAreDisjoint
    <2>2. ASSUME NEW t \in Ticks, polls[t] # None
          PROVE  /\ EventsOf(polls[t]) \cap (EventsOf(pending_events') \cup dispatched) = {}
                 /\ \A u \in Ticks \ {t} : polls[u] # None =>
                      EventsOf(polls[t]) \cap EventsOf(polls[u]) = {}
      <3>1. /\ EventsOf(polls[t]) \cap (EventsOf(pending_events) \cup dispatched) = {}
            /\ \A u \in Ticks \ {t} : polls[u] # None =>
                 EventsOf(polls[t]) \cap EventsOf(polls[u]) = {}
        BY <2>2 DEF CaptchaPart, PollsAreDisjoint
      <3> QED
        BY <1>5, <1>6, <2>2, <3>1
    <2> QED
      BY <1>1, <2>1, <2>2 DEF PollsAreDisjoint
  <1>8. ModalAgrees'
    BY <1>1 DEF CaptchaPart, ModalAgrees
  <1> QED
    BY <1>4, <1>7, <1>8 DEF CaptchaPart

LEMMA PollKeepsCaptchas ==
  ASSUME CaptchaPart, NEW t \in Ticks, Poll(t)
  PROVE  CaptchaPart'
  <1>1. /\ polls[t] = None /\ polls' = [polls EXCEPT ![t] = pending_events]
        /\ pending_events' = <<>>
        /\ emitted' = emitted /\ captcha' = captcha /\ modal' = modal
        /\ dispatched' = dispatched
    BY DEF Poll, windowVars
  <1>2. CaptchaTypes'
    BY <1>1 DEF CaptchaPart, CaptchaTypes
  <1>3. /\ polls'[t] = pending_events
        /\ \A u \in Ticks \ {t} : polls'[u] = polls[u]
    BY <1>1 DEF CaptchaPart, CaptchaTypes
  <1>4. EventsOf(pending_events') = {}
    BY <1>1 DEF EventsOf
  <1>5. PollsAreDisjoint'
    <2>1. ASSUME NEW u \in Ticks, polls'[u] # None
          PROVE  EventsOf(polls'[u]) \cap dispatched' = {}
      BY <1>1, <1>3, <2>1 DEF CaptchaPart, PollsAreDisjoint
    <2>2. ASSUME NEW u \in Ticks, polls'[u] # None,
                 NEW w \in Ticks \ {u}, polls'[w] # None
          PROVE  EventsOf(polls'[u]) \cap EventsOf(polls'[w]) = {}
      <3>1. CASE u = t
        BY <1>3, <2>2, <3>1 DEF CaptchaPart, PollsAreDisjoint
      <3>2. CASE w = t
        BY <1>3, <2>2, <3>2 DEF CaptchaPart, PollsAreDisjoint
      <3>3. CASE u # t /\ w # t
        BY <1>3, <2>2, <3>3 DEF CaptchaPart, PollsAreDisjoint
      <3> QED
        BY <3>1, <3>2, <3>3
    <2> QED
      BY <1>4, <2>1, <2>2 DEF PollsAreDisjoint
  <1>6. ModalAgrees'
    BY <1>1 DEF CaptchaPart, ModalAgrees
  <1> QED
    BY <1>2, <1>5, <1>6 DEF CaptchaPart

LEMMA LastElement ==
  ASSUME NEW S, NEW seq \in Seq(S), seq # <<>>
  PROVE  seq[Len(seq)] \in S
  OBVIOUS

(* Both listeners take the last event, and an event is not None.           *)
LEMMA DeliverKeepsCaptchas ==
  ASSUME CaptchaPart, NEW t \in Ticks, Deliver(t)
  PROVE  CaptchaPart'
  <1>1. /\ polls[t] # None /\ polls' = [polls EXCEPT ![t] = None]
        /\ Dispatch(polls[t])
        /\ emitted' = emitted /\ pending_events' = pending_events
    BY DEF Deliver
  <1>2. polls[t] \in Seq(1..emitted) /\ EventsOf(polls[t]) \subseteq 1..emitted
    BY <1>1, EventTypes DEF CaptchaPart, CaptchaTypes
  <1>3. \A u \in Ticks : polls'[u] # None => u # t /\ polls'[u] = polls[u]
    BY <1>1 DEF CaptchaPart, CaptchaTypes
  <1>4. dispatched' \subseteq dispatched \cup EventsOf(polls[t])
    BY <1>1 DEF Dispatch, windowVars
  <1>5. PollsAreDisjoint'
    <2>1. PollsAreDisjoint
      BY DEF CaptchaPart
    <2>2. EventsOf(pending_events') \cap dispatched' = {}
      BY <1>1, <1>4, <2>1 DEF PollsAreDisjoint
    <2>3. ASSUME NEW u \in Ticks, polls'[u] # None
          PROVE  EventsOf(polls'[u]) \cap (EventsOf(pending_events') \cup dispatched') = {}
      BY <1>1, <1>3, <1>4, <2>1, <2>3 DEF PollsAreDisjoint
    <2>4. ASSUME NEW u \in Ticks, polls'[u] # None, NEW w \in Ticks \ {u}, polls'[w] # None
          PROVE  EventsOf(polls'[u]) \cap EventsOf(polls'[w]) = {}
      BY <1>3, <2>1, <2>4 DEF PollsAreDisjoint
    <2> QED
      BY <2>2, <2>3, <2>4 DEF PollsAreDisjoint
  <1>6. polls' \in [Ticks -> Seq(1..emitted) \cup {None}]
    BY <1>1 DEF CaptchaPart, CaptchaTypes
  <1>7. CASE polls[t] = <<>>
    <2>1. UNCHANGED <<captcha, modal, dispatched>>
      BY <1>1, <1>7 DEF Dispatch, windowVars
    <2> QED
      BY <1>1, <1>5, <1>6, <2>1 DEF CaptchaPart, CaptchaTypes, ModalAgrees
  <1>8. CASE polls[t] # <<>>
    <2> DEFINE last == polls[t][Len(polls[t])]
    <2>1. /\ captcha' = last /\ modal' = [shown |-> TRUE, state |-> last]
          /\ dispatched' = dispatched \cup EventsOf(polls[t])
      BY <1>1, <1>8 DEF Dispatch
    <2>2. last \in 1..emitted
      BY <1>2, <1>8, LastElement
    <2> HIDE DEF last
    <2>3. last # None
      BY <2>2, NoneAssumption
    <2>4. CaptchaTypes'
      BY <1>1, <1>2, <1>6, <2>1, <2>2 DEF CaptchaPart, CaptchaTypes
    <2>5. ModalAgrees'
      BY <2>1, <2>3 DEF ModalAgrees
    <2> QED
      BY <1>5, <2>4, <2>5 DEF CaptchaPart
  <1> QED
    BY <1>7, <1>8

LEMMA CaptchaStep == CaptchaPart /\ [Next]_vars => CaptchaPart'
  <1> SUFFICES ASSUME CaptchaPart, [Next]_vars PROVE CaptchaPart'
    OBVIOUS
  <1>1. ASSUME UNCHANGED captchaVars
        PROVE  CaptchaPart'
    <2> USE <1>1 DEF captchaVars, windowVars
    <2>1. CaptchaTypes'
      BY DEF CaptchaPart, CaptchaTypes
    <2>2. ModalAgrees'
      BY DEF CaptchaPart, ModalAgrees
    <2>3. PollsAreDisjoint'
      BY DEF CaptchaPart, PollsAreDisjoint
    <2> QED
      BY <2>1, <2>2, <2>3 DEF CaptchaPart
  <1>2. CASE Command \/ Respond \/ Die \/ Tick \/ Exit \/ ReadEof \/ PollParent
    BY <1>1, <1>2 DEF Command, Respond, Die, Tick, Exit, ReadEof, PollParent
  <1>3. ASSUME NEW spawned \in BOOLEAN, Terminated(spawned)
        PROVE  CaptchaPart'
    BY <1>1, <1>3 DEF Terminated
  <1>4. ASSUME NEW t \in Ticks, Poll(t) \/ Deliver(t)
        PROVE  CaptchaPart'
    BY <1>4, PollKeepsCaptchas, DeliverKeepsCaptchas
  <1>5. CASE UNCHANGED vars
    BY <1>1, <1>5 DEF vars
  <1> QED
    BY <1>2, <1>3, <1>4, <1>5, EmitKeepsCaptchas DEF Next

LEMMA InitParts == Init => ShellPart /\ CaptchaPart
  <1> SUFFICES ASSUME Init PROVE ShellPart /\ CaptchaPart
    OBVIOUS
  <1>1. ShellPart
    BY DEF Init, ShellPart
  <1>2. CaptchaTypes /\ ModalAgrees
    <2>1. emitted \in Nat /\ pending_events \in Seq(1..emitted)
      BY DEF Init
    <2>2. polls \in [Ticks -> Seq(1..emitted) \cup {None}]
      BY DEF Init
    <2>3. /\ captcha = None /\ modal = [shown |-> FALSE, state |-> None]
          /\ dispatched = {}
      BY DEF Init
    <2> QED
      BY <2>1, <2>2, <2>3 DEF CaptchaTypes, ModalAgrees
  <1>3. PollsAreDisjoint
    <2>1. dispatched = {} /\ \A t \in Ticks : polls[t] = None
      BY DEF Init
    <2> QED
      BY <2>1 DEF PollsAreDisjoint
  <1> QED
    BY <1>1, <1>2, <1>3 DEF CaptchaPart

(* CaptchaModal.js, app.js, main.rs.  The application and its modal always *)
(* agree on the event that is shown, no event is in two answers or told    *)
(* twice, and a sidecar that serves has been lent its command.             *)
THEOREM ApplicationInvariant == Spec => []IInv
  <1> DEFINE All == BudgetIInv /\ ShellPart /\ CaptchaPart
  <1>1. Init => All
    BY InitBudget, InitParts DEF Init
  <1>2. All /\ [Next]_vars => All'
    <2>1. BudgetIInv /\ [Next]_vars => BudgetIInv'
      BY StepOfBudget, BudgetStepKeeps DEF BudgetIInv
    <2> QED
      BY <2>1, ShellStep, CaptchaStep
  <1>3. All => IInv
    BY Parts DEF BudgetIInv
  <1> QED
    BY <1>1, <1>2, <1>3, PTL DEF Spec
=============================================================================
