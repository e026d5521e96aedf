--------------------------- MODULE SidecarService ---------------------------
(***************************************************************************)
(* What the frontend may rely on when it calls sidecar_command, with the   *)
(* process, its pipes and the handle hidden: a service for one command at  *)
(* a time.  A command takes effect only between its call and its return,   *)
(* a result is returned only for a command that took effect, and a service *)
(* that is down stays down.                                                *)
(***************************************************************************)
CONSTANT Commands

VARIABLES
  status,    \* of each command: "new", "open" or "done"
  effect,    \* the commands that took effect
  answer,    \* what each command that is done has returned
  down       \* the sidecar is lost for the rest of the run

vars == <<status, effect, answer, down>>

Failures == {"write_failed", "terminated", "closed"}

Init ==
  /\ status = [c \in Commands |-> "new"]
  /\ effect = {}
  /\ answer = [c \in Commands |-> "none"]
  /\ down = FALSE

Idle == \A c \in Commands : status[c] # "open"

Call(c) ==
  /\ status[c] = "new"
  /\ Idle /\ ~down
  /\ status' = [status EXCEPT ![c] = "open"]
  /\ UNCHANGED <<effect, answer, down>>

(* Refused without an effect: another command is being served, or down.    *)
Refuse(c) ==
  /\ status[c] = "new"
  /\ ~Idle \/ down
  /\ status' = [status EXCEPT ![c] = "done"]
  /\ answer' = [answer EXCEPT ![c] = "not_running"]
  /\ UNCHANGED <<effect, down>>

TakeEffect(c) ==
  /\ status[c] = "open"
  /\ c \notin effect
  /\ effect' = effect \cup {c}
  /\ UNCHANGED <<status, answer, down>>

Return(c, a) ==
  /\ status[c] = "open"
  /\ a = "ok" => c \in effect
  /\ a = "write_failed" => c \notin effect
  /\ status' = [status EXCEPT ![c] = "done"]
  /\ answer' = [answer EXCEPT ![c] = a]
  /\ down' \in IF a = "terminated" THEN BOOLEAN ELSE {down}
  /\ UNCHANGED effect

Next ==
  \E c \in Commands :
    \/ Call(c)
    \/ Refuse(c)
    \/ TakeEffect(c)
    \/ \E a \in {"ok", "error"} \cup Failures : Return(c, a)

Spec == Init /\ [][Next]_vars
=============================================================================
