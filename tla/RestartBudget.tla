--------------------------- MODULE RestartBudget ---------------------------
(***************************************************************************)
(* How often the shell restarts a sidecar that crashes:                    *)
(*   src/src-tauri/src/main.rs (attempt_restart)                           *)
(* The restarts are counted in a window that begins anew, with the count,  *)
(* at the first crash after its end.                                       *)
(***************************************************************************)
EXTENDS Naturals, Sequences

CONSTANTS
  MaxRestarts,  \* MAX_SIDECAR_RESTARTS
  WindowSecs,   \* RESTART_WINDOW_SECS
  Second        \* how many ticks of the clock make a second

ASSUME MaxRestartsAssumption == MaxRestarts \in Nat \ {0}
ASSUME WindowSecsAssumption  == WindowSecs \in Nat
ASSUME SecondAssumption      == Second \in Nat \ {0}

VARIABLES
  clock,         \* Instant::now()
  window_start,  \* restart_window_start
  count,         \* restart_count
  restarts       \* observed: when the sidecar was restarted

budgetVars == <<clock, window_start, count, restarts>>

BudgetInit ==
  /\ clock = 0
  /\ window_start = 0
  /\ count = 0
  /\ restarts = <<>>

(* as_secs drops the fraction, so that the window lasts a second longer.   *)
Period == (WindowSecs + 1) * Second

WindowIsOver == clock >= window_start + Period

(* Whether this crash is within the budget.                                *)
Granted == WindowIsOver \/ count < MaxRestarts

(* Fault: a restart that succeeds clears the count.                        *)
ForgiveOnSuccess(spawned) ==
  /\ window_start' = IF WindowIsOver THEN clock ELSE window_start
  /\ count' = IF Granted /\ spawned THEN 0 ELSE count + 1
  /\ restarts' = IF Granted /\ spawned THEN Append(restarts, clock) ELSE restarts
  /\ UNCHANGED clock

(* A crash is counted even if no restart follows, because the budget is    *)
(* spent or the process cannot be spawned.                                 *)
AttemptRestart(spawned) ==
  /\ window_start' = IF WindowIsOver THEN clock ELSE window_start
  /\ count' = IF WindowIsOver THEN 1 ELSE count + 1
  /\ restarts' = IF Granted /\ spawned THEN Append(restarts, clock) ELSE restarts
  /\ UNCHANGED clock

ClockAdvances ==
  /\ clock' \in Nat
  /\ clock' > clock
  /\ UNCHANGED <<window_start, count, restarts>>

BudgetNext == ClockAdvances \/ \E spawned \in BOOLEAN : AttemptRestart(spawned)

BudgetSpec == BudgetInit /\ [][BudgetNext]_budgetVars

-----------------------------------------------------------------------------
(* Properties.                                                             *)

(* The type invariant; a window begins, and a restart is made, in the past.*)
BudgetTypeOK ==
  /\ clock \in Nat
  /\ window_start \in Nat /\ window_start <= clock
  /\ count \in Nat
  /\ restarts \in Seq(Nat)
  /\ \A i \in 1..Len(restarts) : restarts[i] <= clock

(* The restarts of this window, at most.                                   *)
Spent == IF count <= MaxRestarts THEN count ELSE MaxRestarts

(* Restarts that this window cannot have made precede it; those that the   *)
(* window before it cannot have made either precede that one, which began  *)
(* a whole period earlier.                                                 *)
BudgetInv ==
  /\ \A i \in 1..Len(restarts) :
       i + Spent <= Len(restarts) => restarts[i] <= window_start
  /\ \A i \in 1..Len(restarts) :
       i + Spent + MaxRestarts <= Len(restarts) => restarts[i] + Period <= window_start

(* main.rs:17-18, 37-50.  No RESTART_WINDOW_SECS sees more restarts than   *)
(* twice MAX_SIDECAR_RESTARTS: of one more than those, the last comes at   *)
(* least a period after the first.  (The message speaks of                 *)
(* MAX_SIDECAR_RESTARTS, which is what a window that slides would allow.)  *)
RestartsAreBounded ==
  \A i \in 1..Len(restarts) :
    i + 2 * MaxRestarts <= Len(restarts) =>
      restarts[i] + Period <= restarts[i + 2 * MaxRestarts]
=============================================================================
