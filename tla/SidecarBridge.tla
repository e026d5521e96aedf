--------------------------- MODULE SidecarBridge ---------------------------
(***************************************************************************)
(* The bridge between the webview and the Python sidecar:                  *)
(*   src-tauri/src/main.rs  (sidecar_command, attempt_restart, the poll)   *)
(*   src/main.py            (the loop over stdin, captcha.emit_event)      *)
(*                                                                         *)
(* An element of Commands is one invocation of sidecar_command by the      *)
(* frontend; invocations run concurrently on the async runtime.  The JSON  *)
(* lines carry an id that main.rs never looks at: a response belongs to    *)
(* whoever reads it.  The tag cmd on a line is what the line is about, and *)
(* no guard of main.rs reads it.                                           *)
(***************************************************************************)
EXTENDS Naturals, Sequences, Lists

CONSTANTS
  Commands,       \* the invocations of sidecar_command
  EventCommands,  \* those whose method is captcha.emit_event
  MaxRestarts,    \* MAX_SIDECAR_RESTARTS
  MaxDeaths,      \* bound: how often the sidecar process may die
  None            \* no handle, no command

ASSUME EventCommandsAssumption == EventCommands \subseteq Commands
ASSUME MaxRestartsAssumption   == MaxRestarts \in Nat
ASSUME MaxDeathsAssumption     == MaxDeaths \in Nat
ASSUME NoneAssumption          == None \notin Commands /\ None \notin Nat

VARIABLES
  (* main.rs *)
  inner,           \* SidecarState.inner: the process of the handle, or None
  pending_events,  \* SidecarState.pending_events
  restart_count,   \* SidecarState.restart_count
  pc,              \* where each sidecar_command is
  held,            \* the handle a sidecar_command has taken, or None
  result,          \* what it is about to return, or has returned
  (* the operating system and the shell plugin *)
  spawned,         \* the number of processes spawned, the newest one's pid
  alive,           \* the running processes
  stdin,           \* per process, what was written and not yet read
  rx,              \* per process, the CommandEvents not yet received
  (* main.py *)
  step,            \* per process, where the loop over stdin is
  serving,         \* per process, the command it is handling, or None
  (* observed, read by no action *)
  executed,        \* commands whose handler ran to its effect
  emitted,         \* events written to stdout, in order
  delivered        \* events handed to the frontend, in order

rustVars   == <<inner, pending_events, restart_count, pc, held, result>>
pythonVars == <<step, serving>>
history    == <<executed, emitted, delivered>>
vars == <<rustVars, spawned, alive, stdin, rx, pythonVars, history>>

Pids    == 1 .. (MaxDeaths + 1)
Handle  == Pids \cup {None}
Newline == "newline"
ASSUME NewlineAssumption == Newline \notin Commands

NoResult == [is |-> "none", of |-> None]

(* A CommandEvent: a line on stdout, the end of the process, or one that   *)
(* main.rs only logs.                                                      *)
Event(c)    == [kind |-> "event", cmd |-> c]
Response(c) == [kind |-> "response", cmd |-> c]
Failure(c)  == [kind |-> "failure", cmd |-> c]
Terminated  == [kind |-> "terminated", cmd |-> None]
Ignored     == [kind |-> "ignored", cmd |-> None]
CommandEvent ==
  [kind : {"event", "response", "failure"}, cmd : Commands] \cup {Terminated, Ignored}

ResultKinds ==
  {"none", "ok", "error", "not_running", "write_failed", "terminated", "closed"}

TypeOK ==
  /\ inner \in Handle
  /\ pending_events \in Seq(Commands)
  /\ restart_count \in Nat
  /\ pc \in [Commands -> {"new", "write", "newline", "read",
                          "restore", "restart", "done"}]
  /\ held \in [Commands -> Handle]
  /\ result \in [Commands -> [is : ResultKinds, of : Commands \cup {None}]]
  /\ spawned \in Pids
  /\ alive \subseteq Pids
  /\ stdin \in [Pids -> Seq(Commands \cup {Newline})]
  /\ rx \in [Pids -> Seq(CommandEvent)]
  /\ step \in [Pids -> {"read", "save", "emit", "handle", "reply", "fail"}]
  /\ serving \in [Pids -> Commands \cup {None}]
  /\ executed \subseteq Commands
  /\ emitted \in Seq(Commands)
  /\ delivered \in Seq(Commands)

(* setup has spawned the first sidecar and stored its handle.              *)
Init ==
  /\ inner = 1
  /\ pending_events = <<>>
  /\ restart_count = 0
  /\ pc = [c \in Commands |-> "new"]
  /\ held = [c \in Commands |-> None]
  /\ result = [c \in Commands |-> NoResult]
  /\ spawned = 1
  /\ alive = {1}
  /\ stdin = [p \in Pids |-> <<>>]
  /\ rx = [p \in Pids |-> <<>>]
  /\ step = [p \in Pids |-> "read"]
  /\ serving = [p \in Pids |-> None]
  /\ executed = {}
  /\ emitted = <<>>
  /\ delivered = <<>>

-----------------------------------------------------------------------------
(* sidecar_command in main.rs.                                             *)

Goto(c, to)      == pc' = [pc EXCEPT ![c] = to]
Returns(c, is, of) == result' = [result EXCEPT ![c] = [is |-> is, of |-> of]]

(* Fault: the handle is cloned out of the slot instead of taken.           *)
CloneHandle(c) ==
  /\ pc[c] = "new"
  /\ inner # None
  /\ held' = [held EXCEPT ![c] = inner]
  /\ Goto(c, "write")
  /\ UNCHANGED <<inner, pending_events, restart_count, result, spawned, alive,
                 stdin, rx, pythonVars, history>>

(* guard.take() found the handle.                                          *)
TakeHandle(c) ==
  /\ pc[c] = "new"
  /\ inner # None
  /\ held' = [held EXCEPT ![c] = inner]
  /\ inner' = None
  /\ Goto(c, "write")
  /\ UNCHANGED <<pending_events, restart_count, result, spawned, alive,
                 stdin, rx, pythonVars, history>>

(* guard.take() found nothing.                                             *)
NotRunning(c) ==
  /\ pc[c] = "new"
  /\ inner = None
  /\ Returns(c, "not_running", None)
  /\ Goto(c, "done")
  /\ UNCHANGED <<inner, pending_events, restart_count, held, spawned, alive,
                 stdin, rx, pythonVars, history>>

(* Fault: a failed write returns early and the handle is never put back.   *)
LoseHandle(c, chunk, next) ==
  LET p == held[c]
  IN  \/ /\ p \in alive
         /\ stdin' = [stdin EXCEPT ![p] = Append(@, chunk)]
         /\ Goto(c, next)
         /\ UNCHANGED result
      \/ /\ p \notin alive
         /\ Returns(c, "write_failed", None)
         /\ Goto(c, "done")
         /\ UNCHANGED stdin

(* A write to the pipe of a process that has exited fails.                 *)
WriteChunk(c, chunk, next) ==
  LET p == held[c]
  IN  \/ /\ p \in alive
         /\ stdin' = [stdin EXCEPT ![p] = Append(@, chunk)]
         /\ Goto(c, next)
         /\ UNCHANGED result
      \/ /\ p \notin alive
         /\ Returns(c, "write_failed", None)
         /\ Goto(c, "restore")
         /\ UNCHANGED stdin

WriteInput(c) ==
  /\ pc[c] = "write"
  /\ WriteChunk(c, c, "newline")
  /\ UNCHANGED <<inner, pending_events, restart_count, held, spawned, alive,
                 rx, pythonVars, history>>

WriteNewline(c) ==
  /\ pc[c] = "newline"
  /\ WriteChunk(c, Newline, "read")
  /\ UNCHANGED <<inner, pending_events, restart_count, held, spawned, alive,
                 rx, pythonVars, history>>

(* Faults of the receive loop: an event is taken for the response; a dead  *)
(* process's handle is put back like any other.                            *)
EventEndsLoop(c) ==
  LET p == held[c]
      e == Head(rx[p])
  IN  /\ pc[c] = "read"
      /\ rx[p] # <<>>
      /\ rx' = [rx EXCEPT ![p] = Tail(@)]
      /\ \/ e.kind = "ignored" /\ UNCHANGED <<pc, result>>
         \/ e.kind \in {"event", "response"} /\ Returns(c, "ok", e.cmd) /\ Goto(c, "restore")
         \/ e.kind = "failure" /\ Returns(c, "error", e.cmd) /\ Goto(c, "restore")
         \/ e.kind = "terminated" /\ Returns(c, "terminated", None) /\ Goto(c, "restart")
      /\ UNCHANGED <<inner, pending_events, restart_count, held, spawned,
                     alive, stdin, pythonVars, history>>

KeepDeadHandle(c) ==
  LET p == held[c]
      e == Head(rx[p])
  IN  /\ pc[c] = "read"
      /\ rx[p] # <<>>
      /\ rx' = [rx EXCEPT ![p] = Tail(@)]
      /\ pending_events' = IF e.kind = "event" THEN Append(pending_events, e.cmd)
                                               ELSE pending_events
      /\ \/ e.kind \in {"event", "ignored"} /\ UNCHANGED <<pc, result>>
         \/ e.kind = "response" /\ Returns(c, "ok", e.cmd) /\ Goto(c, "restore")
         \/ e.kind = "failure" /\ Returns(c, "error", e.cmd) /\ Goto(c, "restore")
         \/ e.kind = "terminated" /\ Returns(c, "terminated", None) /\ Goto(c, "restore")
      /\ UNCHANGED <<inner, restart_count, held, spawned, alive, stdin,
                     pythonVars, history>>

(* One turn of the receive loop with an event in the channel.              *)
Receive(c) ==
  LET p == held[c]
  IN  /\ pc[c] = "read"
      /\ rx[p] # <<>>
      /\ rx' = [rx EXCEPT ![p] = Tail(@)]
      /\ LET e == Head(rx[p])
         IN  \/ /\ e.kind = "event"
                /\ pending_events' = Append(pending_events, e.cmd)
                /\ UNCHANGED <<pc, result>>
             \/ /\ e.kind = "ignored"
                /\ UNCHANGED <<pending_events, pc, result>>
             \/ /\ e.kind = "response"
                /\ Returns(c, "ok", e.cmd)
                /\ Goto(c, "restore")
                /\ UNCHANGED pending_events
             \/ /\ e.kind = "failure"
                /\ Returns(c, "error", e.cmd)
                /\ Goto(c, "restore")
                /\ UNCHANGED pending_events
             \/ /\ e.kind = "terminated"
                /\ Returns(c, "terminated", None)
                /\ Goto(c, "restart")
                /\ UNCHANGED pending_events
      /\ UNCHANGED <<inner, restart_count, held, spawned, alive, stdin,
                     pythonVars, history>>

(* Fault: recv() returning None is ignored, and the loop goes on.          *)
IgnoreClosed(c) ==
  /\ pc[c] = "read"
  /\ rx[held[c]] = <<>>
  /\ held[c] \notin alive
  /\ UNCHANGED vars

(* recv() returned None: the plugin dropped its end of the channel.        *)
ReceiveClosed(c) ==
  LET p == held[c]
  IN  /\ pc[c] = "read"
      /\ rx[p] = <<>>
      /\ p \notin alive
      /\ Returns(c, "closed", None)
      /\ Goto(c, "restore")
      /\ UNCHANGED <<inner, pending_events, restart_count, held, spawned,
                     alive, stdin, rx, pythonVars, history>>

RestoreHandle(c) ==
  /\ pc[c] = "restore"
  /\ inner' = held[c]
  /\ held' = [held EXCEPT ![c] = None]
  /\ Goto(c, "done")
  /\ UNCHANGED <<pending_events, restart_count, result, spawned, alive,
                 stdin, rx, pythonVars, history>>

(* Faults of the restart: it follows every failed command; it also resets  *)
(* the event buffer.                                                       *)
RestartOnFailure(c) ==
  /\ \/ pc[c] = "restart"
     \/ pc[c] = "restore" /\ result[c].is # "ok"
  /\ restart_count' = restart_count + 1
  /\ held' = [held EXCEPT ![c] = None]
  /\ Goto(c, "done")
  /\ restart_count' <= MaxRestarts /\ spawned + 1 \in Pids
  /\ spawned' = spawned + 1
  /\ alive' = alive \cup {spawned + 1}
  /\ inner' = spawned + 1
  /\ UNCHANGED <<pending_events, result, stdin, rx, pythonVars, history>>

DropBuffer(c) ==
  /\ pc[c] = "restart"
  /\ restart_count' = restart_count + 1
  /\ pending_events' = <<>>
  /\ held' = [held EXCEPT ![c] = None]
  /\ Goto(c, "done")
  /\ UNCHANGED <<inner, result, spawned, alive, stdin, rx, pythonVars, history>>

(* drop(handle), then attempt_restart.  No clock is kept: the window may   *)
(* or may not have run out (RestartWindow has the clock).  spawn_sidecar   *)
(* may fail, and then inner stays None.                                    *)
AttemptRestart(c) ==
  /\ pc[c] = "restart"
  /\ \E expired \in BOOLEAN :
       restart_count' = IF expired THEN 1 ELSE restart_count + 1
  /\ held' = [held EXCEPT ![c] = None]
  /\ Goto(c, "done")
  /\ \/ UNCHANGED <<inner, spawned, alive>>
     \/ /\ restart_count' <= MaxRestarts
        /\ spawned + 1 \in Pids
        /\ spawned' = spawned + 1
        /\ alive' = alive \cup {spawned + 1}
        /\ inner' = spawned + 1
  /\ UNCHANGED <<pending_events, result, stdin, rx, pythonVars, history>>

(* Fault: the buffer is copied to the frontend and not drained.            *)
PollWithoutDrain ==
  /\ pending_events # <<>>
  /\ Len(delivered) <= Len(emitted)
  /\ delivered' = delivered \o pending_events
  /\ UNCHANGED <<rustVars, spawned, alive, stdin, rx, pythonVars, executed, emitted>>

(* sidecar.poll_events, and the sidecar_poll_events command.               *)
PollEvents ==
  /\ pending_events # <<>>
  /\ delivered' = delivered \o pending_events
  /\ pending_events' = <<>>
  /\ UNCHANGED <<inner, restart_count, pc, held, result, spawned, alive,
                 stdin, rx, pythonVars, executed, emitted>>

-----------------------------------------------------------------------------
(* The loop over stdin in main.py, run by process p.                       *)

WriteLine(p, e) == rx' = [rx EXCEPT ![p] = Append(@, e)]

(* Fault: a text is read as a line before its newline has arrived.         *)
ReadText(p) ==
  /\ p \in alive
  /\ step[p] = "read"
  /\ stdin[p] # <<>> /\ Head(stdin[p]) \in Commands
  /\ stdin' = [stdin EXCEPT ![p] = Tail(@)]
  /\ serving' = [serving EXCEPT ![p] = Head(stdin[p])]
  /\ step' = [step EXCEPT ![p] =
                IF Head(stdin[p]) \in EventCommands THEN "save" ELSE "handle"]
  /\ UNCHANGED <<rustVars, spawned, alive, rx, history>>

(* A line is a text followed by its newline.                               *)
ReadLine(p) ==
  /\ p \in alive
  /\ step[p] = "read"
  /\ Len(stdin[p]) >= 2
  /\ stdin[p][1] \in Commands
  /\ stdin[p][2] = Newline
  /\ stdin' = [stdin EXCEPT ![p] = Tail(Tail(@))]
  /\ serving' = [serving EXCEPT ![p] = stdin[p][1]]
  /\ step' = [step EXCEPT ![p] =
                IF stdin[p][1] \in EventCommands THEN "save" ELSE "handle"]
  /\ UNCHANGED <<rustVars, spawned, alive, rx, history>>

(* _handle_command of a method that emits nothing: a result or an error.   *)
HandleCommand(p) ==
  /\ p \in alive
  /\ step[p] = "handle"
  /\ \/ /\ executed' = executed \cup {serving[p]}
        /\ step' \in {[step EXCEPT ![p] = "reply"], [step EXCEPT ![p] = "fail"]}
     \/ /\ step' = [step EXCEPT ![p] = "fail"]
        /\ UNCHANGED executed
  /\ UNCHANGED <<rustVars, spawned, alive, stdin, rx, serving, emitted, delivered>>

(* Fault: the failure to save the session is swallowed.                    *)
EmitRegardless(p) ==
  /\ p \in alive
  /\ step[p] = "save"
  /\ step' = [step EXCEPT ![p] = "emit"]
  /\ executed' \in {executed, executed \cup {serving[p]}}
  /\ UNCHANGED <<rustVars, spawned, alive, stdin, rx, serving, emitted, delivered>>

(* save_session_state: INSERT and COMMIT, before anything is written.      *)
SaveSession(p) ==
  /\ p \in alive
  /\ step[p] = "save"
  /\ \/ /\ executed' = executed \cup {serving[p]}
        /\ step' = [step EXCEPT ![p] = "emit"]
     \/ /\ step' = [step EXCEPT ![p] = "fail"]
        /\ UNCHANGED executed
  /\ UNCHANGED <<rustVars, spawned, alive, stdin, rx, serving, emitted, delivered>>

EmitEvent(p) ==
  /\ p \in alive
  /\ step[p] = "emit"
  /\ WriteLine(p, Event(serving[p]))
  /\ emitted' = Append(emitted, serving[p])
  /\ step' = [step EXCEPT ![p] = "reply"]
  /\ UNCHANGED <<rustVars, spawned, alive, stdin, serving, executed, delivered>>

WriteResponse(p) ==
  /\ p \in alive
  /\ \/ step[p] = "reply" /\ WriteLine(p, Response(serving[p]))
     \/ step[p] = "fail"  /\ WriteLine(p, Failure(serving[p]))
  /\ step' = [step EXCEPT ![p] = "read"]
  /\ serving' = [serving EXCEPT ![p] = None]
  /\ UNCHANGED <<rustVars, spawned, alive, stdin, history>>

-----------------------------------------------------------------------------
(* The process ends, at any moment; its stdin is gone.  The plugin sends   *)
(* Terminated after the last line of output, or an Error when it cannot    *)
(* wait for the process, and closes the channel.                           *)
Die(p) ==
  /\ p \in alive
  /\ p <= MaxDeaths
  /\ alive' = alive \ {p}
  /\ stdin' = [stdin EXCEPT ![p] = <<>>]
  /\ \E last \in {Terminated, Ignored} : WriteLine(p, last)
  /\ UNCHANGED <<rustVars, spawned, pythonVars, history>>

Invoke(c) == TakeHandle(c) \/ NotRunning(c)

Proceed(c) ==
  \/ WriteInput(c)
  \/ WriteNewline(c)
  \/ Receive(c)
  \/ ReceiveClosed(c)
  \/ RestoreHandle(c)
  \/ AttemptRestart(c)

Serve(p) ==
  \/ ReadLine(p)
  \/ HandleCommand(p)
  \/ SaveSession(p)
  \/ EmitEvent(p)
  \/ WriteResponse(p)

Next ==
  \/ \E c \in Commands : Invoke(c) \/ Proceed(c)
  \/ \E p \in Pids : Serve(p) \/ Die(p)
  \/ PollEvents

Spec == Init /\ [][Next]_vars

(* A started sidecar_command is polled to its end by the async runtime, a  *)
(* running sidecar handles what it reads (its I/O has timeouts), and the   *)
(* frontend polls every two seconds.  Nothing makes the frontend call and  *)
(* nothing makes the sidecar die.                                          *)
Fairness ==
  /\ \A c \in Commands : WF_vars(Proceed(c))
  /\ \A p \in Pids : WF_vars(Serve(p))
  /\ WF_vars(PollEvents)

FairSpec == Spec /\ Fairness

-----------------------------------------------------------------------------
(* The inductive invariant: at most one command and one process are in     *)
(* conversation, and outside a conversation the pipes hold nothing.        *)

Answers == {"response", "failure"}
IsAnswer(e) == e.kind \in Answers
Owning == {"write", "newline", "read", "restore", "restart"}

HandleInv ==
  /\ \A c \in Commands : held[c] # None <=> pc[c] \in Owning
  /\ \A c, d \in Commands : held[c] # None /\ held[d] # None => c = d
  /\ \A c \in Commands : inner # None => held[c] = None
  /\ inner \in {None, spawned}
  /\ \A c \in Commands : held[c] \in {None, spawned}

ProcessInv ==
  /\ alive \subseteq {spawned}
  /\ \A c \in Commands : pc[c] = "restart" => alive = {}
  /\ alive # {} => inner # None \/ \E c \in Commands : held[c] # None
  /\ \A p \in Pids : p > spawned => stdin[p] = <<>> /\ rx[p] = <<>> /\ step[p] = "read"

(* What a running sidecar has been told and is doing.                      *)
ConversationInv ==
  /\ \A p \in alive :
       \/ stdin[p] = <<>> /\ step[p] = "read"
       \/ \E c \in Commands :
            /\ pc[c] = "newline" /\ held[c] = p
            /\ stdin[p] = <<c>> /\ step[p] = "read"
       \/ \E c \in Commands :
            /\ pc[c] = "read" /\ held[c] = p
            /\ \/ stdin[p] = <<c, Newline>> /\ step[p] = "read"
               \/ stdin[p] = <<>> /\ step[p] # "read" /\ serving[p] = c
  /\ \A c \in Commands : pc[c] = "newline" /\ held[c] \in alive => stdin[held[c]] = <<c>>

(* What is still in the channel.                                           *)
ChannelInv ==
  \A p \in Pids :
    /\ \A i, j \in DOMAIN rx[p] : IsAnswer(rx[p][i]) /\ IsAnswer(rx[p][j]) => i = j
    /\ \A i \in DOMAIN rx[p] :
         IsAnswer(rx[p][i]) =>
           \E c \in Commands :
             /\ rx[p][i].cmd = c /\ pc[c] = "read" /\ held[c] = p
             /\ stdin[p] = <<>> /\ (p \in alive => step[p] = "read")
    /\ \A i \in DOMAIN rx[p] :
         rx[p][i].kind = "terminated" => p \notin alive /\ i = Len(rx[p])

EffectInv ==
  /\ \A c \in executed : pc[c] \in {"read", "restore", "restart", "done"}
                         /\ result[c].is \notin {"not_running", "write_failed"}
  /\ \A c \in Commands : pc[c] \in {"new", "write", "newline", "read"} => result[c] = NoResult
  /\ \A p \in alive : step[p] \in {"emit", "reply"} => serving[p] \in executed
  /\ \A p \in Pids : \A i \in DOMAIN rx[p] :
       rx[p][i].kind = "response" => rx[p][i].cmd \in executed
  /\ \A c \in Commands : result[c].is = "ok" => c \in executed
  /\ \A c \in Commands : result[c].is \in {"ok", "error"} => result[c].of = c
  /\ \A c \in Commands :
       /\ pc[c] = "restore" => result[c].is \in {"ok", "error", "write_failed", "closed"}
       /\ pc[c] = "restart" => result[c].is = "terminated"

IInv == TypeOK /\ HandleInv /\ ProcessInv /\ ConversationInv /\ ChannelInv /\ EffectInv

-----------------------------------------------------------------------------
(* Properties.                                                             *)

EventsIn(events) ==
  LET e == Keep(events, {Event(c) : c \in Commands})
  IN  [i \in DOMAIN e |-> e[i].cmd]

Busy == \E c \in Commands : held[c] # None

(* The Option in SidecarState.inner is the only mutual exclusion there is  *)
(* on the sidecar's pipes: the handle is never in two places, neither in   *)
(* the slot and with a command nor with two commands.                      *)
OneHandle ==
  /\ \A c, d \in Commands : held[c] # None /\ held[d] # None => c = d
  /\ inner # None => ~Busy

(* attempt_restart never starts a second sidecar beside a running one:     *)
(* both would have the same database open.                                 *)
OneSidecar == \A p, q \in alive : p = q

(* The lines carry no correlation main.rs checks, yet a command returns    *)
(* the sidecar's answer to itself and not to an earlier command.           *)
OwnAnswer ==
  \A c \in Commands : result[c].is \in {"ok", "error"} => result[c].of = c

(* Of the errors the bridge itself returns, "not running" and a failed     *)
(* write are definite, the command had no effect; a result means that it   *)
(* had.  Only "terminated" and "closed" leave the caller in doubt.         *)
DefiniteAnswer ==
  \A c \in Commands :
    /\ result[c].is \in {"not_running", "write_failed"} => c \notin executed
    /\ result[c].is = "ok" => c \in executed

(* Every event written to stdout is delivered once and in order, or is     *)
(* still in the buffer or the channel, through crashes, restarts and       *)
(* failed commands.                                                        *)
NoEventLost ==
  emitted = delivered \o pending_events \o EventsIn(rx[spawned])

(* handler.py: an event's state_id "MUST have been previously persisted",  *)
(* so what the frontend is told about can be resumed.                      *)
EventHasSession ==
  \A i \in DOMAIN delivered : delivered[i] \in executed

(* No sidecar_command hangs, whatever dies while it waits.                 *)
EveryCallReturns ==
  \A c \in Commands : pc[c] = "write" ~> pc[c] = "done"

(* An event that was written reaches the frontend, even when the sidecar   *)
(* dies right after it.                                                    *)
EveryEventArrives ==
  \A c \in Commands :
    (\E i \in DOMAIN emitted : emitted[i] = c)
      ~> (\E i \in DOMAIN delivered : delivered[i] = c)

(* The bridge implements SidecarService: a command is open from the moment *)
(* it owns the handle until it has given it back.                          *)
Service == INSTANCE SidecarService WITH
  status <- [c \in Commands |-> IF pc[c] \in {"new", "done"} THEN pc[c] ELSE "open"],
  effect <- executed,
  answer <- [c \in Commands |-> IF pc[c] = "done" THEN result[c].is ELSE "none"],
  down   <- inner = None /\ ~Busy

ImplementsService == Service!Spec

(* main.rs:156 says "restart on termination, return handle otherwise": a   *)
(* command that fails because the process has ended leaves no handle of a  *)
(* dead process behind.                                                    *)
RestartOnTermination ==
  [][\A c \in Commands :
       /\ pc[c] # "done" /\ pc'[c] = "done"
       /\ result'[c].is \in {"write_failed", "terminated", "closed"}
       => inner' \in alive' \cup {None}]_vars

(* main.rs:87 says "Sidecar is not running": when a command is told so, no *)
(* sidecar is running.                                                     *)
NotRunningIsTrue ==
  [][\A c \in Commands : NotRunning(c) => alive = {}]_vars
=============================================================================
