------------------------ MODULE SidecarBridgeProofs ------------------------
(***************************************************************************)
(* Theorems about SidecarBridge, for any set of commands, any restart      *)
(* limit and any number of deaths.                                         *)
(***************************************************************************)
EXTENDS SidecarBridge, ListsProofs, SequenceTheorems, TLAPS

USE DEF rustVars, pythonVars, history

LEMMA AssumptionsHold ==
  /\ EventCommands \subseteq Commands
  /\ MaxRestarts \in Nat /\ MaxDeaths \in Nat
  /\ None \notin Commands /\ None \notin Nat
  /\ Newline \notin Commands
BY EventCommandsAssumption, MaxRestartsAssumption, MaxDeathsAssumption,
   NoneAssumption, NewlineAssumption

(* A family of channels stays one when a message enters or leaves one.     *)
LEMMA AppendToChannel ==
  ASSUME NEW S, NEW D, NEW f \in [D -> Seq(S)], NEW p \in D, NEW e \in S
  PROVE  [f EXCEPT ![p] = Append(@, e)] \in [D -> Seq(S)]
OBVIOUS

LEMMA AppendTyped ==
  ASSUME NEW S, NEW s \in Seq(S), NEW e \in S
  PROVE  Append(s, e) \in Seq(S)
OBVIOUS

LEMMA TailTyped ==
  ASSUME NEW S, NEW s \in Seq(S), s # <<>>
  PROVE  Head(s) \in S /\ Tail(s) \in Seq(S) /\ Len(Tail(s)) = Len(s) - 1
OBVIOUS

LEMMA TakeFromChannel ==
  ASSUME NEW S, NEW D, NEW f \in [D -> Seq(S)], NEW p \in D, f[p] # <<>>
  PROVE  /\ Head(f[p]) \in S
         /\ [f EXCEPT ![p] = Tail(@)] \in [D -> Seq(S)]
<1>1. f[p] \in Seq(S) /\ f[p] # <<>>
  OBVIOUS
<1>2. Head(f[p]) \in S /\ Tail(f[p]) \in Seq(S)
  BY <1>1, TailTyped
<1> QED BY <1>2

LEMMA AppendToOne ==
  ASSUME NEW S, NEW a \in S, NEW b \in S
  PROVE  Append(<<a>>, b) = <<a, b>>
<1>1. Append(<<a>>, b) \in Seq(S) /\ <<a, b>> \in Seq(S)
  OBVIOUS
<1>2. Len(Append(<<a>>, b)) = 2 /\ Append(<<a>>, b)[1] = a /\ Append(<<a>>, b)[2] = b
  OBVIOUS
<1>3. Len(<<a, b>>) = 2 /\ \A i \in 1 .. 2 : Append(<<a>>, b)[i] = <<a, b>>[i]
  BY <1>2
<1> QED BY <1>1, <1>2, <1>3, SeqEqual

LEMMA AppendIndex ==
  ASSUME NEW S, NEW s \in Seq(S), NEW e \in S
  PROVE  /\ Len(Append(s, e)) = Len(s) + 1
         /\ \A i \in DOMAIN Append(s, e) :
              \/ i \in DOMAIN s /\ Append(s, e)[i] = s[i]
              \/ i \notin DOMAIN s /\ i = Len(s) + 1 /\ Append(s, e)[i] = e
OBVIOUS

LEMMA TailIndex ==
  ASSUME NEW S, NEW s \in Seq(S), s # <<>>
  PROVE  /\ 1 \in DOMAIN s /\ Head(s) = s[1] /\ Len(s) \in Nat
         /\ Len(Tail(s)) = Len(s) - 1
         /\ \A i \in DOMAIN Tail(s) :
              i \in Nat /\ i + 1 \in DOMAIN s /\ i + 1 # 1 /\ Tail(s)[i] = s[i + 1]
OBVIOUS

(* A command that owns the handle holds the newest process, and no other   *)
(* command holds one.                                                      *)
LEMMA Owner ==
  ASSUME TypeOK, HandleInv, NEW c \in Commands, pc[c] \in Owning
  PROVE  /\ held[c] = spawned /\ held[c] \in Pids /\ inner = None
         /\ \A d \in Commands : d # c => held[d] = None /\ pc[d] \notin Owning
BY AssumptionsHold DEF TypeOK, HandleInv, Handle, Pids

-----------------------------------------------------------------------------
(* Type correctness.                                                       *)

States  == {"new", "write", "newline", "read", "restore", "restart", "done"}
Steps   == {"read", "save", "emit", "handle", "reply", "fail"}
Results == [is : ResultKinds, of : Commands \cup {None}]

LEMMA TypeInit == Init => TypeOK
BY AssumptionsHold DEF Init, TypeOK, Pids, Handle, NoResult, ResultKinds

LEMMA TypeGoto ==
  ASSUME TypeOK, NEW c \in Commands, NEW to \in States, Goto(c, to)
  PROVE  pc' \in [Commands -> States]
BY DEF TypeOK, Goto, States

LEMMA TypeReturns ==
  ASSUME TypeOK, NEW c \in Commands, NEW is \in ResultKinds,
         NEW of \in Commands \cup {None}, Returns(c, is, of)
  PROVE  result' \in [Commands -> Results]
<1>1. [is |-> is, of |-> of] \in Results
  BY DEF Results
<1>2. result \in [Commands -> Results]
  BY DEF TypeOK, Results
<1> QED BY <1>1, <1>2 DEF Returns

LEMMA TypeWriteChunk ==
  ASSUME TypeOK, NEW c \in Commands, held[c] \in Pids, NEW chunk \in Commands \cup {Newline},
         NEW next \in States, WriteChunk(c, chunk, next)
  PROVE  /\ pc' \in [Commands -> States]
         /\ result' \in [Commands -> Results]
         /\ stdin' \in [Pids -> Seq(Commands \cup {Newline})]
<1>1. CASE held[c] \in alive
  <2>1. stdin' = [stdin EXCEPT ![held[c]] = Append(@, chunk)] /\ Goto(c, next) /\ result' = result
    BY <1>1 DEF WriteChunk
  <2>2. pc' \in [Commands -> States]
    BY <2>1, TypeGoto
  <2>3. stdin' \in [Pids -> Seq(Commands \cup {Newline})]
    BY <2>1, AppendToChannel DEF TypeOK
  <2> QED BY <2>1, <2>2, <2>3 DEF TypeOK, Results
<1>2. CASE held[c] \notin alive
  <2>1. stdin' = stdin /\ Goto(c, "restore") /\ Returns(c, "write_failed", None)
    BY <1>2 DEF WriteChunk
  <2>2. pc' \in [Commands -> States]
    BY <2>1, TypeGoto DEF States
  <2>3. result' \in [Commands -> Results]
    BY <2>1, TypeReturns DEF ResultKinds
  <2> QED BY <2>1, <2>2, <2>3 DEF TypeOK
<1> QED BY <1>1, <1>2

LEMMA TypeRust ==
  ASSUME TypeOK, HandleInv, NEW c \in Commands, Invoke(c) \/ Proceed(c)
  PROVE  TypeOK'
<1>1. CASE TakeHandle(c)
  BY <1>1 DEF TakeHandle, TypeOK, Goto, Handle
<1>2. CASE NotRunning(c)
  <2>1. pc' \in [Commands -> States]
    BY <1>2, TypeGoto DEF NotRunning, States
  <2>2. result' \in [Commands -> Results]
    BY <1>2, TypeReturns DEF NotRunning, ResultKinds
  <2> QED BY <1>2, <2>1, <2>2 DEF NotRunning, TypeOK, States, Results
<1>3. CASE WriteInput(c)
  <2>1. held[c] \in Pids
    BY <1>3, Owner DEF WriteInput, Owning
  <2>2. /\ pc' \in [Commands -> States]
        /\ result' \in [Commands -> Results]
        /\ stdin' \in [Pids -> Seq(Commands \cup {Newline})]
    BY <1>3, <2>1, TypeWriteChunk DEF WriteInput, States
  <2> QED BY <1>3, <2>2 DEF WriteInput, TypeOK, States, Results
<1>4. CASE WriteNewline(c)
  <2>1. held[c] \in Pids
    BY <1>4, Owner DEF WriteNewline, Owning
  <2>2. /\ pc' \in [Commands -> States]
        /\ result' \in [Commands -> Results]
        /\ stdin' \in [Pids -> Seq(Commands \cup {Newline})]
    BY <1>4, <2>1, TypeWriteChunk DEF WriteNewline, States
  <2> QED BY <1>4, <2>2 DEF WriteNewline, TypeOK, States, Results
<1>5. CASE Receive(c)
  <2> DEFINE e == Head(rx[held[c]])
  <2>1. held[c] \in Pids
    BY <1>5, Owner DEF Receive, Owning
  <2>2. e \in CommandEvent /\ rx' \in [Pids -> Seq(CommandEvent)]
    BY <1>5, <2>1, TakeFromChannel DEF Receive, TypeOK
  <2>3. /\ e.cmd \in Commands \cup {None}
        /\ e.kind = "event" => e.cmd \in Commands
    BY <2>2 DEF CommandEvent, Terminated, Ignored
  <2>4. pc' \in [Commands -> States]
    BY <1>5, TypeGoto DEF Receive, States, TypeOK
  <2>5. result' \in [Commands -> Results]
    <3>1. \/ result' = result
          \/ Returns(c, "ok", e.cmd)
          \/ Returns(c, "error", e.cmd)
          \/ Returns(c, "terminated", None)
      BY <1>5 DEF Receive
    <3>2. "ok" \in ResultKinds /\ "error" \in ResultKinds /\ "terminated" \in ResultKinds
      BY DEF ResultKinds
    <3> HIDE DEF e
    <3> QED BY <3>1, <3>2, <2>3, TypeReturns DEF TypeOK, Results
  <2>6. pending_events' \in Seq(Commands)
    <3>1. \/ e.kind = "event" /\ pending_events' = Append(pending_events, e.cmd)
          \/ pending_events' = pending_events
      BY <1>5 DEF Receive
    <3>2. pending_events \in Seq(Commands)
      BY DEF TypeOK
    <3> HIDE DEF e
    <3> QED BY <2>3, <3>1, <3>2, AppendTyped
  <2> QED BY <1>5, <2>2, <2>4, <2>5, <2>6 DEF Receive, TypeOK, States, Results
<1>6. CASE ReceiveClosed(c)
  <2>1. pc' \in [Commands -> States]
    BY <1>6, TypeGoto DEF ReceiveClosed, States
  <2>2. result' \in [Commands -> Results]
    BY <1>6, TypeReturns DEF ReceiveClosed, ResultKinds
  <2> QED BY <1>6, <2>1, <2>2 DEF ReceiveClosed, TypeOK, States, Results
<1>7. CASE RestoreHandle(c)
  BY <1>7 DEF RestoreHandle, TypeOK, Goto, Handle
<1>8. CASE AttemptRestart(c)
  BY <1>8 DEF AttemptRestart, TypeOK, Goto, Handle
<1> QED BY <1>1, <1>2, <1>3, <1>4, <1>5, <1>6, <1>7, <1>8 DEF Invoke, Proceed

(* A sidecar in the middle of a command is handling a command.             *)
LEMMA Serving ==
  ASSUME ConversationInv, NEW p \in alive, step[p] # "read"
  PROVE  \E c \in Commands : /\ serving[p] = c /\ pc[c] = "read" /\ held[c] = p
                             /\ stdin[p] = <<>>
BY DEF ConversationInv

LEMMA TypeWriteLine ==
  ASSUME TypeOK, NEW p \in Pids, NEW e \in CommandEvent, WriteLine(p, e)
  PROVE  rx' \in [Pids -> Seq(CommandEvent)]
BY AppendToChannel DEF TypeOK, WriteLine

LEMMA TypePython ==
  ASSUME TypeOK, ConversationInv, NEW p \in Pids, Serve(p) \/ Die(p)
  PROVE  TypeOK'
<1>1. CASE ReadLine(p)
  <2>1. stdin[p] \in Seq(Commands \cup {Newline}) /\ Len(stdin[p]) >= 2
    BY <1>1 DEF ReadLine, TypeOK
  <2>2. Tail(Tail(stdin[p])) \in Seq(Commands \cup {Newline})
    <3>1. Tail(stdin[p]) \in Seq(Commands \cup {Newline}) /\ Tail(stdin[p]) # <<>>
      BY <2>1, TailTyped
    <3> QED BY <3>1, TailTyped
  <2> QED BY <1>1, <2>2 DEF ReadLine, TypeOK
<1>2. CASE HandleCommand(p)
  <2>1. serving[p] \in Commands
    BY <1>2, Serving DEF HandleCommand
  <2> QED BY <1>2, <2>1 DEF HandleCommand, TypeOK
<1>3. CASE SaveSession(p)
  <2>1. serving[p] \in Commands
    BY <1>3, Serving DEF SaveSession
  <2> QED BY <1>3, <2>1 DEF SaveSession, TypeOK
<1>4. CASE EmitEvent(p)
  <2>1. serving[p] \in Commands
    BY <1>4, Serving DEF EmitEvent
  <2>2. Event(serving[p]) \in CommandEvent
    BY <2>1 DEF Event, CommandEvent
  <2>3. rx' \in [Pids -> Seq(CommandEvent)]
    BY <1>4, <2>2, TypeWriteLine DEF EmitEvent
  <2>4. emitted' \in Seq(Commands)
    BY <1>4, <2>1, AppendTyped DEF EmitEvent, TypeOK
  <2> QED BY <1>4, <2>3, <2>4 DEF EmitEvent, TypeOK
<1>5. CASE WriteResponse(p)
  <2>1. serving[p] \in Commands
    BY <1>5, Serving DEF WriteResponse
  <2>2. Response(serving[p]) \in CommandEvent /\ Failure(serving[p]) \in CommandEvent
    BY <2>1 DEF Response, Failure, CommandEvent
  <2>3. rx' \in [Pids -> Seq(CommandEvent)]
    BY <1>5, <2>2, TypeWriteLine DEF WriteResponse
  <2> QED BY <1>5, <2>3 DEF WriteResponse, TypeOK
<1>6. CASE Die(p)
  <2>1. Terminated \in CommandEvent /\ Ignored \in CommandEvent
    BY DEF CommandEvent
  <2>2. rx' \in [Pids -> Seq(CommandEvent)]
    BY <1>6, <2>1, TypeWriteLine DEF Die
  <2>3. stdin' \in [Pids -> Seq(Commands \cup {Newline})]
    <3>1. stdin' = [stdin EXCEPT ![p] = <<>>]
      BY <1>6 DEF Die
    <3>2. stdin \in [Pids -> Seq(Commands \cup {Newline})]
      BY DEF TypeOK
    <3> QED BY <3>1, <3>2
  <2> QED BY <1>6, <2>2, <2>3 DEF Die, TypeOK
<1> QED BY <1>1, <1>2, <1>3, <1>4, <1>5, <1>6 DEF Serve

LEMMA TypePoll ==
  ASSUME TypeOK, PollEvents
  PROVE  TypeOK'
BY DEF TypeOK, PollEvents

-----------------------------------------------------------------------------
(* The handle and the processes.                                           *)

LEMMA HandleRust ==
  ASSUME TypeOK, HandleInv, NEW c \in Commands, Invoke(c) \/ Proceed(c)
  PROVE  HandleInv'
<1> USE AssumptionsHold DEF TypeOK, HandleInv, Goto, Owning, Handle, Pids
<1>1. CASE TakeHandle(c)
  BY <1>1 DEF TakeHandle
<1>2. CASE NotRunning(c)
  BY <1>2 DEF NotRunning
<1>3. CASE WriteInput(c)
  BY <1>3 DEF WriteInput, WriteChunk
<1>4. CASE WriteNewline(c)
  BY <1>4 DEF WriteNewline, WriteChunk
<1>5. CASE Receive(c)
  <2>1. /\ UNCHANGED <<inner, held, spawned>>
        /\ \/ pc' = pc
           \/ pc' = [pc EXCEPT ![c] = "restore"]
           \/ pc' = [pc EXCEPT ![c] = "restart"]
        /\ pc[c] = "read"
    BY <1>5 DEF Receive
  <2> QED BY <2>1
<1>6. CASE ReceiveClosed(c)
  BY <1>6 DEF ReceiveClosed
<1>7. CASE RestoreHandle(c)
  BY <1>7 DEF RestoreHandle
<1>8. CASE AttemptRestart(c)
  BY <1>8 DEF AttemptRestart
<1> QED BY <1>1, <1>2, <1>3, <1>4, <1>5, <1>6, <1>7, <1>8 DEF Invoke, Proceed

LEMMA ProcessRust ==
  ASSUME TypeOK, HandleInv, ProcessInv, ChannelInv, NEW c \in Commands, Invoke(c) \/ Proceed(c)
  PROVE  ProcessInv'
<1> USE AssumptionsHold DEF TypeOK, ProcessInv, Goto, Handle, Pids
<1>1. CASE TakeHandle(c)
  BY <1>1 DEF TakeHandle
<1>2. CASE NotRunning(c)
  BY <1>2 DEF NotRunning
<1>3. CASE WriteInput(c)
  <2>1. held[c] = spawned
    BY <1>3, Owner DEF WriteInput, Owning
  <2>2. /\ UNCHANGED <<inner, held, spawned, alive, rx, step>>
        /\ stdin' = stdin \/ \E s : stdin' = [stdin EXCEPT ![spawned] = s]
        /\ pc' = [pc EXCEPT ![c] = "newline"] \/ pc' = [pc EXCEPT ![c] = "restore"]
    BY <1>3, <2>1 DEF WriteInput, WriteChunk
  <2>3. \A q \in Pids : q > spawned => stdin'[q] = stdin[q]
    <3>1. CASE stdin' = stdin
      BY <3>1
    <3>2. CASE \E s : stdin' = [stdin EXCEPT ![spawned] = s]
      <4>1. PICK s : stdin' = [stdin EXCEPT ![spawned] = s]
        BY <3>2
      <4>2. DOMAIN stdin = Pids /\ spawned \in Nat
        OBVIOUS
      <4>3. \A q \in Pids : q > spawned => q # spawned
        BY <4>2
      <4> QED BY <4>1, <4>2, <4>3
    <3> QED BY <2>2, <3>1, <3>2
  <2> QED BY <2>2, <2>3
<1>4. CASE WriteNewline(c)
  <2>1. held[c] = spawned
    BY <1>4, Owner DEF WriteNewline, Owning
  <2>2. /\ UNCHANGED <<inner, held, spawned, alive, rx, step>>
        /\ stdin' = stdin \/ \E s : stdin' = [stdin EXCEPT ![spawned] = s]
        /\ pc' = [pc EXCEPT ![c] = "read"] \/ pc' = [pc EXCEPT ![c] = "restore"]
    BY <1>4, <2>1 DEF WriteNewline, WriteChunk
  <2>3. \A q \in Pids : q > spawned => stdin'[q] = stdin[q]
    <3>1. CASE stdin' = stdin
      BY <3>1
    <3>2. CASE \E s : stdin' = [stdin EXCEPT ![spawned] = s]
      <4>1. PICK s : stdin' = [stdin EXCEPT ![spawned] = s]
        BY <3>2
      <4>2. DOMAIN stdin = Pids /\ spawned \in Nat
        OBVIOUS
      <4>3. \A q \in Pids : q > spawned => q # spawned
        BY <4>2
      <4> QED BY <4>1, <4>2, <4>3
    <3> QED BY <2>2, <3>1, <3>2
  <2> QED BY <2>2, <2>3
<1>5. CASE Receive(c)
  <2>1. held[c] = spawned
    BY <1>5, Owner DEF Receive, Owning
  <2>2. /\ UNCHANGED <<inner, held, spawned, alive, stdin, step>>
        /\ rx' = [rx EXCEPT ![spawned] = Tail(@)]
        /\ \/ pc' = pc
           \/ pc' = [pc EXCEPT ![c] = "restore"]
           \/ pc' = [pc EXCEPT ![c] = "restart"] /\ Head(rx[spawned]).kind = "terminated"
        /\ rx[spawned] # <<>>
    BY <1>5, <2>1 DEF Receive
  <2>3. Head(rx[spawned]).kind = "terminated" => alive = {}
    BY <2>2 DEF ChannelInv
  <2> QED BY <2>2, <2>3
<1>6. CASE ReceiveClosed(c)
  BY <1>6 DEF ReceiveClosed
<1>7. CASE RestoreHandle(c)
  <2>1. held[c] = spawned
    BY <1>7, Owner DEF RestoreHandle, Owning
  <2> QED BY <1>7, <2>1 DEF RestoreHandle
<1>8. CASE AttemptRestart(c)
  <2>1. alive = {}
    BY <1>8 DEF AttemptRestart
  <2>2. \A d \in Commands : pc'[d] # "restart"
    BY <1>8, Owner DEF AttemptRestart, Owning
  <2>3. CASE UNCHANGED <<inner, spawned, alive>>
    BY <1>8, <2>1, <2>2, <2>3 DEF AttemptRestart
  <2>4. CASE /\ spawned' = spawned + 1
             /\ alive' = alive \cup {spawned + 1}
             /\ inner' = spawned + 1
             /\ spawned + 1 \in Pids
    <3>5. alive' = {spawned'}
      BY <2>1, <2>4
    <3>6. spawned \in Nat /\ spawned' \in Nat
      BY <2>4
    <3>7. inner' # None
      BY <2>4, <3>6
    <3>1. alive' = {spawned'} /\ inner' # None /\ spawned \in Nat
      BY <3>5, <3>6, <3>7
    <3>2. UNCHANGED <<stdin, rx, step>>
      BY <1>8 DEF AttemptRestart
    <3>3. \A q \in Pids : q > spawned' => q > spawned
      BY <2>4
    <3> QED BY <3>1, <3>2, <3>3, <2>2
  <2> QED BY <1>8, <2>3, <2>4 DEF AttemptRestart
<1> QED BY <1>1, <1>2, <1>3, <1>4, <1>5, <1>6, <1>7, <1>8 DEF Invoke, Proceed

LEMMA ProcessPython ==
  ASSUME TypeOK, ProcessInv, NEW p \in Pids, Serve(p) \/ Die(p)
  PROVE  HandleInv => HandleInv' /\ ProcessInv'
<1>1. p \in alive /\ UNCHANGED <<rustVars, spawned>>
  BY DEF Serve, Die, ReadLine, HandleCommand, SaveSession, EmitEvent, WriteResponse
<1>2. p = spawned /\ alive' \subseteq alive
  BY <1>1 DEF ProcessInv, Serve, Die, ReadLine, HandleCommand, SaveSession, EmitEvent, WriteResponse
<1>3. \A q \in Pids : q > spawned => stdin'[q] = stdin[q] /\ rx'[q] = rx[q] /\ step'[q] = step[q]
  <2>1. stdin \in [Pids -> Seq(Commands \cup {Newline})] /\ rx \in [Pids -> Seq(CommandEvent)]
        /\ DOMAIN step = Pids /\ spawned \in Nat
    BY DEF TypeOK, Pids
  <2>2. stdin' = stdin \/ \E s : stdin' = [stdin EXCEPT ![p] = s]
    BY DEF Serve, Die, ReadLine, HandleCommand, SaveSession, EmitEvent, WriteResponse
  <2>3. rx' = rx \/ \E s : rx' = [rx EXCEPT ![p] = s]
    BY DEF Serve, Die, ReadLine, HandleCommand, SaveSession, EmitEvent, WriteResponse, WriteLine
  <2>4. step' = step \/ \E s : step' = [step EXCEPT ![p] = s]
    BY DEF Serve, Die, ReadLine, HandleCommand, SaveSession, EmitEvent, WriteResponse
  <2>5. \A q \in Pids : q > spawned => q # p
    BY <1>2, <2>1 DEF Pids
  <2> QED BY <2>1, <2>2, <2>3, <2>4, <2>5
<1>4. HandleInv => HandleInv'
  BY <1>1 DEF HandleInv
<1>5. ProcessInv'
  BY <1>1, <1>2, <1>3 DEF ProcessInv
<1> QED BY <1>4, <1>5

-----------------------------------------------------------------------------
(* The conversation.                                                       *)

(* Only the newest process can be running, and an owner owns that one.     *)
LEMMA Running ==
  ASSUME TypeOK, HandleInv, ProcessInv, NEW p \in alive
  PROVE  /\ p = spawned /\ p \in Pids /\ alive = {p}
         /\ \A c \in Commands : pc[c] \in Owning => held[c] = p
BY Owner DEF TypeOK, ProcessInv

(* Before its command is written and after its answer is read, a running   *)
(* sidecar waits for a line and has none.                                  *)
LEMMA Waiting ==
  ASSUME TypeOK, HandleInv, ProcessInv, ConversationInv, NEW p \in alive,
         \A d \in Commands : held[d] = p => pc[d] \notin {"newline", "read"}
  PROVE  stdin[p] = <<>> /\ step[p] = "read"
BY DEF ConversationInv

LEMMA ConversationRust ==
  ASSUME TypeOK, HandleInv, ProcessInv, ConversationInv, ChannelInv,
         NEW c \in Commands, Invoke(c) \/ Proceed(c)
  PROVE  ConversationInv'
<1>1. CASE TakeHandle(c) \/ NotRunning(c)
  <2>1. /\ UNCHANGED <<alive, stdin, step, serving>>
        /\ \A d \in Commands : pc[d] \in {"newline", "read"} => pc'[d] = pc[d] /\ held'[d] = held[d]
        /\ pc'[c] # "newline"
        /\ \A d \in Commands : d # c => pc'[d] = pc[d] /\ held'[d] = held[d]
    BY <1>1 DEF TakeHandle, NotRunning, TypeOK, Goto
  <2> QED BY <2>1 DEF ConversationInv
<1>2. CASE WriteInput(c)
  <2>1. /\ UNCHANGED <<alive, held, step, serving>> /\ pc[c] = "write"
        /\ held[c] = spawned /\ held[c] \in Pids
        /\ \A d \in Commands : d # c => held[d] = None /\ pc[d] \notin Owning
    BY <1>2, Owner DEF WriteInput, Owning
  <2>2. CASE held[c] \in alive
    <3>1. stdin[held[c]] = <<>> /\ step[held[c]] = "read"
      <4>1. \A d \in Commands : held[d] = held[c] => d = c
        BY <2>1, AssumptionsHold DEF Pids
      <4> QED BY <2>1, <2>2, <4>1, Waiting
    <3>2. stdin' = [stdin EXCEPT ![held[c]] = Append(@, c)] /\ Goto(c, "newline")
      BY <1>2, <2>2 DEF WriteInput, WriteChunk
    <3>3. stdin'[held[c]] = <<c>> /\ pc'[c] = "newline"
      BY <2>1, <3>1, <3>2 DEF TypeOK, Goto
    <3>4. \A d \in Commands : d # c => pc'[d] # "newline"
      BY <2>1, <3>2 DEF TypeOK, Goto, Owning
    <3>5. alive = {held[c]}
      BY <2>2, Running
    <3> QED BY <2>1, <3>1, <3>3, <3>4, <3>5 DEF ConversationInv
  <2>3. CASE held[c] \notin alive
    <3>1. alive = {}
      BY <2>1, <2>3, Running
    <3> QED BY <2>1, <3>1 DEF ConversationInv
  <2> QED BY <2>2, <2>3
<1>3. CASE WriteNewline(c)
  <2>1. /\ UNCHANGED <<alive, held, step, serving>> /\ pc[c] = "newline"
        /\ held[c] = spawned /\ held[c] \in Pids
        /\ \A d \in Commands : d # c => held[d] = None /\ pc[d] \notin Owning
    BY <1>3, Owner DEF WriteNewline, Owning
  <2>2. CASE held[c] \in alive
    <3>1. stdin[held[c]] = <<c>>
      BY <2>1, <2>2 DEF ConversationInv
    <3>2. step[held[c]] = "read"
      BY <2>1, <2>2, <3>1 DEF ConversationInv, Owning
    <3>3. stdin' = [stdin EXCEPT ![held[c]] = Append(@, Newline)] /\ Goto(c, "read")
      BY <1>3, <2>2 DEF WriteNewline, WriteChunk
    <3>4. stdin'[held[c]] = <<c, Newline>> /\ pc'[c] = "read"
      <4>1. Append(<<c>>, Newline) = <<c, Newline>>
        <5>1. c \in Commands \cup {Newline} /\ Newline \in Commands \cup {Newline}
          OBVIOUS
        <5> QED BY <5>1, AppendToOne, Zenon
      <4>2. stdin'[held[c]] = Append(stdin[held[c]], Newline)
        BY <2>1, <3>3 DEF TypeOK
      <4> QED BY <3>1, <3>3, <4>1, <4>2 DEF TypeOK, Goto
    <3>5. \A d \in Commands : pc'[d] # "newline"
      BY <2>1, <3>3 DEF TypeOK, Goto, Owning
    <3>6. alive = {held[c]}
      BY <2>2, Running
    <3> QED BY <2>1, <3>2, <3>4, <3>5, <3>6 DEF ConversationInv
  <2>3. CASE held[c] \notin alive
    <3>1. alive = {}
      BY <2>1, <2>3, Running
    <3> QED BY <2>1, <3>1 DEF ConversationInv
  <2> QED BY <2>2, <2>3
<1>4. CASE Receive(c)
  <2> DEFINE e == Head(rx[held[c]])
  <2>1. /\ UNCHANGED <<alive, held, stdin, step, serving>> /\ pc[c] = "read"
        /\ held[c] = spawned /\ held[c] \in Pids
        /\ \A d \in Commands : d # c => held[d] = None /\ pc[d] \notin Owning
    BY <1>4, Owner DEF Receive, Owning
  <2>2. 1 \in DOMAIN rx[held[c]] /\ e = rx[held[c]][1]
    BY <1>4, <2>1, TailIndex DEF Receive, TypeOK
  <2>3. \/ pc' = pc
        \/ IsAnswer(e) /\ Goto(c, "restore")
        \/ e.kind = "terminated" /\ Goto(c, "restart")
    BY <1>4 DEF Receive, IsAnswer, Answers
  <2>4. CASE pc' = pc
    BY <2>1, <2>4 DEF ConversationInv
  <2>5. CASE IsAnswer(e) /\ Goto(c, "restore")
    <3>1. stdin[held[c]] = <<>> /\ (held[c] \in alive => step[held[c]] = "read")
      BY <2>1, <2>2, <2>5 DEF ChannelInv
    <3>2. \A p \in alive : p = held[c]
      BY <2>1, Running
    <3>3. \A d \in Commands : pc'[d] # "newline"
      BY <2>1, <2>5 DEF TypeOK, Goto, Owning
    <3> QED BY <2>1, <3>1, <3>2, <3>3 DEF ConversationInv
  <2>6. CASE e.kind = "terminated"
    <3>1. alive = {}
      BY <2>1, <2>2, <2>6, Running DEF ChannelInv
    <3> QED BY <2>1, <3>1 DEF ConversationInv
  <2> QED BY <2>3, <2>4, <2>5, <2>6
<1>5. CASE ReceiveClosed(c)
  <2>1. UNCHANGED <<alive, held>> /\ held[c] = spawned /\ held[c] \notin alive
    BY <1>5, Owner DEF ReceiveClosed, Owning
  <2>2. alive = {}
    BY <2>1, Running
  <2> QED BY <2>1, <2>2 DEF ConversationInv
<1>6. CASE RestoreHandle(c)
  <2>1. /\ UNCHANGED <<alive, stdin, step, serving>>
        /\ \A d \in Commands : pc[d] \in {"newline", "read"} => pc'[d] = pc[d] /\ held'[d] = held[d]
        /\ pc'[c] # "newline"
        /\ \A d \in Commands : d # c => pc'[d] = pc[d] /\ held'[d] = held[d]
    BY <1>6 DEF RestoreHandle, TypeOK, Goto
  <2> QED BY <2>1 DEF ConversationInv
<1>7. CASE AttemptRestart(c)
  <2>1. alive = {}
    BY <1>7 DEF AttemptRestart, ProcessInv
  <2>2. UNCHANGED <<stdin, step>> /\ \A d \in Commands : pc'[d] # "newline"
    BY <1>7, Owner DEF AttemptRestart, Goto, TypeOK, Owning
  <2>3. alive' = {} \/ (alive' = {spawned + 1} /\ spawned + 1 \in Pids)
    BY <1>7, <2>1 DEF AttemptRestart
  <2>4. spawned + 1 \in Pids => stdin[spawned + 1] = <<>> /\ step[spawned + 1] = "read"
    BY DEF ProcessInv, TypeOK, Pids
  <2> QED BY <2>2, <2>3, <2>4 DEF ConversationInv
<1> QED BY <1>1, <1>2, <1>3, <1>4, <1>5, <1>6, <1>7 DEF Invoke, Proceed

LEMMA ConversationPython ==
  ASSUME TypeOK, HandleInv, ProcessInv, ConversationInv, NEW p \in Pids, Serve(p) \/ Die(p)
  PROVE  ConversationInv'
<1>1. p \in alive /\ alive = {p} /\ UNCHANGED <<pc, held>>
  <2>1. p \in alive /\ UNCHANGED <<pc, held>>
    BY DEF Serve, Die, ReadLine, HandleCommand, SaveSession, EmitEvent, WriteResponse
  <2> QED BY <2>1, Running
<1>2. CASE ReadLine(p)
  <2>1. PICK c \in Commands : /\ pc[c] = "read" /\ held[c] = p
                              /\ stdin[p] = <<c, Newline>>
    BY <1>1, <1>2 DEF ReadLine, ConversationInv
  <2>2. Tail(Tail(stdin[p])) = <<>>
    BY <2>1
  <2>3. stdin'[p] = <<>> /\ serving'[p] = c /\ step'[p] # "read" /\ alive' = alive
    BY <1>2, <2>1, <2>2 DEF ReadLine, TypeOK
  <2>4. \A d \in Commands : pc[d] = "newline" => held[d] # p
    BY <2>1, <1>1, Owner, AssumptionsHold DEF Owning
  <2> QED BY <1>1, <2>1, <2>3, <2>4 DEF ConversationInv
<1>3. CASE step[p] # "read"
  <2>1. PICK c \in Commands : /\ serving[p] = c /\ pc[c] = "read" /\ held[c] = p
                              /\ stdin[p] = <<>>
    BY <1>1, <1>3, Serving
  <2>2. \A d \in Commands : pc[d] = "newline" => held[d] # p
    BY <2>1, <1>1, Owner, AssumptionsHold DEF Owning
  <2>3. CASE HandleCommand(p) \/ SaveSession(p) \/ EmitEvent(p)
    <3>1. UNCHANGED <<alive, stdin, serving>> /\ step'[p] # "read"
      BY <2>3 DEF HandleCommand, SaveSession, EmitEvent, TypeOK
    <3> QED BY <1>1, <2>1, <2>2, <3>1 DEF ConversationInv
  <2>4. CASE WriteResponse(p)
    <3>1. UNCHANGED <<alive, stdin>> /\ step'[p] = "read"
      BY <2>4 DEF WriteResponse, TypeOK
    <3> QED BY <1>1, <2>1, <2>2, <3>1 DEF ConversationInv
  <2>5. CASE Die(p)
    <3>1. alive' = {}
      BY <1>1, <2>5 DEF Die
    <3> QED BY <3>1 DEF ConversationInv
  <2>6. ~ReadLine(p)
    BY <1>3 DEF ReadLine
  <2> QED BY <2>3, <2>4, <2>5, <2>6 DEF Serve
<1>4. CASE Die(p)
  <2>1. alive' = {}
    BY <1>1, <1>4 DEF Die
  <2> QED BY <2>1 DEF ConversationInv
<1>5. step[p] = "read" /\ Serve(p) => ReadLine(p)
  BY DEF Serve, HandleCommand, SaveSession, EmitEvent, WriteResponse
<1> QED BY <1>2, <1>3, <1>4, <1>5

-----------------------------------------------------------------------------
(* The channels.                                                           *)

(* While a command is being written or the sidecar has more to do for it,  *)
(* no answer is in any channel.                                            *)
LEMMA NoAnswer ==
  ASSUME TypeOK, HandleInv, ChannelInv, NEW p \in Pids, NEW i \in DOMAIN rx[p], IsAnswer(rx[p][i])
  PROVE  /\ p = spawned
         /\ stdin[p] = <<>>
         /\ p \in alive => step[p] = "read"
         /\ \A c \in Commands : pc[c] \in Owning => pc[c] = "read" /\ rx[p][i].cmd = c
<1>1. PICK c \in Commands : /\ rx[p][i].cmd = c /\ pc[c] = "read" /\ held[c] = p
                            /\ stdin[p] = <<>> /\ (p \in alive => step[p] = "read")
  BY DEF ChannelInv
<1> QED BY <1>1, Owner DEF Owning

LEMMA ChannelRust ==
  ASSUME TypeOK, HandleInv, ProcessInv, ChannelInv,
         NEW c \in Commands, Invoke(c) \/ Proceed(c)
  PROVE  ChannelInv'
<1>1. CASE TakeHandle(c) \/ NotRunning(c) \/ RestoreHandle(c)
  <2>1. /\ UNCHANGED <<alive, stdin, rx, step>>
        /\ \A d \in Commands : pc[d] = "read" => pc'[d] = pc[d] /\ held'[d] = held[d]
    BY <1>1 DEF TakeHandle, NotRunning, RestoreHandle, TypeOK, Goto
  <2> QED BY <2>1 DEF ChannelInv
<1>2. CASE WriteInput(c) \/ WriteNewline(c)
  <2>1. UNCHANGED <<alive, rx>> /\ pc[c] \in Owning /\ pc[c] # "read"
    BY <1>2 DEF WriteInput, WriteNewline, Owning
  <2>2. \A p \in Pids : \A i \in DOMAIN rx[p] : ~IsAnswer(rx[p][i])
    BY <2>1, NoAnswer
  <2> QED BY <2>1, <2>2 DEF ChannelInv
<1>3. CASE Receive(c)
  <2> DEFINE e == Head(rx[held[c]])
  <2>1. /\ UNCHANGED <<alive, held, stdin, step>> /\ pc[c] = "read"
        /\ held[c] = spawned /\ held[c] \in Pids
        /\ rx' = [rx EXCEPT ![held[c]] = Tail(@)] /\ rx[held[c]] # <<>>
    BY <1>3, Owner DEF Receive, Owning
  <2>2. rx[held[c]] \in Seq(CommandEvent) /\ rx \in [Pids -> Seq(CommandEvent)]
    BY <2>1 DEF TypeOK
  <2>3. \A p \in Pids : p # held[c] => rx'[p] = rx[p]
    BY <2>1, <2>2
  <2>4. rx'[held[c]] = Tail(rx[held[c]])
    BY <2>1, <2>2
  <2>5. /\ 1 \in DOMAIN rx[held[c]] /\ e = rx[held[c]][1] /\ Len(rx[held[c]]) \in Nat
        /\ Len(rx'[held[c]]) = Len(rx[held[c]]) - 1
        /\ \A i \in DOMAIN rx'[held[c]] :
             /\ i \in Nat /\ i + 1 \in DOMAIN rx[held[c]] /\ i + 1 # 1
             /\ rx'[held[c]][i] = rx[held[c]][i + 1]
    BY <2>1, <2>2, <2>4, TailIndex
  <2>6. \A p \in Pids : \A i, j \in DOMAIN rx'[p] :
          IsAnswer(rx'[p][i]) /\ IsAnswer(rx'[p][j]) => i = j
    <3>1. \A i, j \in DOMAIN rx'[held[c]] :
            IsAnswer(rx'[held[c]][i]) /\ IsAnswer(rx'[held[c]][j]) => i + 1 = j + 1 /\ i \in Nat /\ j \in Nat
      <4>1. \A i, j \in DOMAIN rx[held[c]] :
              IsAnswer(rx[held[c]][i]) /\ IsAnswer(rx[held[c]][j]) => i = j
        BY <2>1 DEF ChannelInv
      <4> QED BY <2>5, <4>1
    <3>2. \A i, j \in Nat : i + 1 = j + 1 => i = j
      OBVIOUS
    <3>3. \A i, j \in DOMAIN rx'[held[c]] :
            IsAnswer(rx'[held[c]][i]) /\ IsAnswer(rx'[held[c]][j]) => i = j
      BY <3>1, <3>2
    <3>4. \A p \in Pids : \A i, j \in DOMAIN rx[p] :
            IsAnswer(rx[p][i]) /\ IsAnswer(rx[p][j]) => i = j
      BY DEF ChannelInv
    <3> QED
      <4> SUFFICES ASSUME NEW p \in Pids
                   PROVE  \A i, j \in DOMAIN rx'[p] :
                            IsAnswer(rx'[p][i]) /\ IsAnswer(rx'[p][j]) => i = j
        OBVIOUS
      <4>1. CASE p = held[c]
        BY <4>1, <3>3
      <4>2. CASE p # held[c]
        BY <4>2, <3>4, <2>3
      <4> QED BY <4>1, <4>2
  <2>7. \A p \in Pids : \A i \in DOMAIN rx'[p] :
          rx'[p][i].kind = "terminated" => p \notin alive /\ i = Len(rx'[p])
    <3>1. \A i \in DOMAIN rx'[held[c]] : rx'[held[c]][i].kind = "terminated" =>
             held[c] \notin alive /\ i + 1 = Len(rx[held[c]]) /\ i \in Nat
      BY <2>1, <2>5 DEF ChannelInv
    <3>2. \A i \in DOMAIN rx'[held[c]] : rx'[held[c]][i].kind = "terminated" =>
             held[c] \notin alive /\ i = Len(rx'[held[c]])
      BY <2>5, <3>1
    <3> QED BY <2>3, <3>2 DEF ChannelInv
  <2>8. \A p \in Pids : \A i \in DOMAIN rx'[p] : IsAnswer(rx'[p][i]) =>
          /\ p = held[c] /\ rx'[p][i].cmd = c /\ pc'[c] = "read" /\ stdin[p] = <<>>
          /\ p \in alive => step[p] = "read"
    <3> SUFFICES ASSUME NEW p \in Pids, NEW i \in DOMAIN rx'[p], IsAnswer(rx'[p][i])
                 PROVE  /\ p = held[c] /\ rx'[p][i].cmd = c /\ pc'[c] = "read" /\ stdin[p] = <<>>
                        /\ p \in alive => step[p] = "read"
      OBVIOUS
    <3>1. p = held[c]
      BY <2>1, <2>3, NoAnswer
    <3>2. i + 1 \in DOMAIN rx[p] /\ rx[p][i + 1] = rx'[p][i] /\ i + 1 # 1
      BY <3>1, <2>5
    <3>3. /\ rx'[p][i].cmd = c /\ stdin[p] = <<>>
          /\ p \in alive => step[p] = "read"
      BY <3>2, <2>1, NoAnswer DEF Owning
    <3>4. ~IsAnswer(e)
      BY <3>1, <3>2, <2>5 DEF ChannelInv
    <3>5. e.kind # "terminated"
      <4>1. i + 1 \in 1 .. Len(rx[p]) /\ i \in Nat
        BY <3>1, <3>2, <2>5, <2>2
      <4> QED BY <3>1, <2>5, <4>1 DEF ChannelInv
    <3>6. pc' = pc
      BY <1>3, <3>4, <3>5 DEF Receive, IsAnswer, Answers
    <3> QED BY <3>1, <3>3, <3>6, <2>1
  <2>9. \A p \in Pids : \A i \in DOMAIN rx'[p] : IsAnswer(rx'[p][i]) =>
          \E d \in Commands :
            /\ rx'[p][i].cmd = d /\ pc'[d] = "read" /\ held'[d] = p
            /\ stdin'[p] = <<>> /\ (p \in alive' => step'[p] = "read")
    BY <2>1, <2>8
  <2>10. \A p \in Pids : \A i \in DOMAIN rx'[p] :
          rx'[p][i].kind = "terminated" => p \notin alive' /\ i = Len(rx'[p])
    BY <2>1, <2>7
  <2> HIDE DEF e
  <2> QED BY <2>6, <2>9, <2>10 DEF ChannelInv, IsAnswer
<1>4. CASE ReceiveClosed(c)
  <2>1. /\ UNCHANGED <<alive, held, stdin, rx, step>> /\ rx[held[c]] = <<>>
        /\ held[c] = spawned
        /\ \A d \in Commands : d # c => pc'[d] = pc[d]
    BY <1>4, Owner DEF ReceiveClosed, Owning, Goto, TypeOK
  <2>2. \A p \in Pids : \A i \in DOMAIN rx[p] : ~IsAnswer(rx[p][i])
    BY <2>1, NoAnswer
  <2> QED BY <2>1, <2>2 DEF ChannelInv
<1>5. CASE AttemptRestart(c)
  <2>1. UNCHANGED <<stdin, rx, step>> /\ pc[c] = "restart"
    BY <1>5 DEF AttemptRestart
  <2>2. \A p \in Pids : \A i \in DOMAIN rx[p] : ~IsAnswer(rx[p][i])
    BY <2>1, NoAnswer DEF Owning
  <2>3. \A p \in alive' : rx[p] = <<>>
    <3>1. alive = {}
      BY <2>1 DEF ProcessInv
    <3>2. alive' = {} \/ (alive' = {spawned + 1} /\ spawned + 1 \in Pids)
      BY <1>5, <3>1 DEF AttemptRestart
    <3>3. spawned + 1 \in Pids => rx[spawned + 1] = <<>>
      BY DEF ProcessInv, TypeOK, Pids
    <3> QED BY <3>2, <3>3
  <2>4. \A p \in Pids : \A i \in DOMAIN rx[p] : p \notin alive'
    BY <2>3
  <2> QED BY <2>1, <2>2, <2>4 DEF ChannelInv
<1> QED BY <1>1, <1>2, <1>3, <1>4, <1>5 DEF Invoke, Proceed

LEMMA ChannelPython ==
  ASSUME TypeOK, HandleInv, ProcessInv, ConversationInv, ChannelInv,
         NEW p \in Pids, Serve(p) \/ Die(p)
  PROVE  ChannelInv'
<1>1. p \in alive /\ alive = {p} /\ p = spawned /\ UNCHANGED <<pc, held>>
  <2>1. p \in alive /\ UNCHANGED <<pc, held>>
    BY DEF Serve, Die, ReadLine, HandleCommand, SaveSession, EmitEvent, WriteResponse
  <2> QED BY <2>1, Running
<1>2. rx[p] \in Seq(CommandEvent) /\ rx \in [Pids -> Seq(CommandEvent)]
  BY DEF TypeOK
<1>3. \A q \in Pids : q # p => \A i \in DOMAIN rx[q] : ~IsAnswer(rx[q][i])
  BY <1>1, NoAnswer
<1>4. CASE Serve(p) /\ (step[p] # "read" \/ stdin[p] # <<>>)
  <2>1. \A q \in Pids : \A i \in DOMAIN rx[q] : ~IsAnswer(rx[q][i])
    BY <1>1, <1>4, NoAnswer
  <2>2. CASE ReadLine(p) \/ HandleCommand(p) \/ SaveSession(p)
    <3>1. UNCHANGED <<alive, rx>>
      BY <2>2 DEF ReadLine, HandleCommand, SaveSession
    <3> QED BY <2>1, <3>1 DEF ChannelInv
  <2>3. CASE EmitEvent(p)
    <3> DEFINE e == Event(serving[p])
    <3>1. alive' = alive /\ rx' = [rx EXCEPT ![p] = Append(@, e)] /\ e.kind = "event"
      BY <2>3 DEF EmitEvent, WriteLine, Event
    <3>2. e \in CommandEvent
      BY <1>1, <2>3, Serving DEF EmitEvent, Event, CommandEvent
    <3>3. \A i \in DOMAIN rx'[p] : (i \in DOMAIN rx[p] /\ rx'[p][i] = rx[p][i]) \/ rx'[p][i] = e
      BY <1>2, <3>1, <3>2, AppendIndex
    <3>4. \A i \in DOMAIN rx'[p] : ~IsAnswer(rx'[p][i]) /\ rx'[p][i].kind # "terminated"
      BY <1>1, <2>1, <3>1, <3>3 DEF ChannelInv, IsAnswer, Answers
    <3>5. \A q \in Pids : q # p => rx'[q] = rx[q]
      BY <1>2, <3>1
    <3>6. \A q \in Pids : \A i \in DOMAIN rx'[q] : ~IsAnswer(rx'[q][i])
      BY <3>4, <3>5, <2>1
    <3>7. \A q \in Pids : \A i \in DOMAIN rx'[q] :
            rx'[q][i].kind = "terminated" => q \notin alive' /\ i = Len(rx'[q])
      BY <3>1, <3>4, <3>5 DEF ChannelInv
    <3> QED BY <3>6, <3>7 DEF ChannelInv, IsAnswer
  <2>4. CASE WriteResponse(p)
    <3>1. PICK c \in Commands : /\ serving[p] = c /\ pc[c] = "read" /\ held[c] = p
                                /\ stdin[p] = <<>>
      BY <1>1, <2>4, Serving DEF WriteResponse
    <3>2. PICK e \in {Response(c), Failure(c)} : rx' = [rx EXCEPT ![p] = Append(@, e)]
      BY <2>4, <3>1 DEF WriteResponse, WriteLine
    <3>3. e \in CommandEvent /\ e.cmd = c /\ e.kind # "terminated"
      BY <3>2 DEF Response, Failure, CommandEvent
    <3>4. UNCHANGED <<alive, stdin>> /\ step'[p] = "read"
      BY <2>4 DEF WriteResponse, TypeOK
    <3>5. \A i \in DOMAIN rx'[p] :
            \/ i \in DOMAIN rx[p] /\ rx'[p][i] = rx[p][i]
            \/ i = Len(rx[p]) + 1 /\ rx'[p][i] = e
      BY <1>2, <3>2, <3>3, AppendIndex
    <3>6. \A q \in Pids : q # p => rx'[q] = rx[q]
      BY <1>2, <3>2
    <3>7. \A i \in DOMAIN rx'[p] : IsAnswer(rx'[p][i]) => i = Len(rx[p]) + 1 /\ rx'[p][i].cmd = c
      BY <2>1, <3>3, <3>5
    <3>8. \A i \in DOMAIN rx'[p] : rx'[p][i].kind # "terminated"
      BY <1>1, <3>3, <3>5 DEF ChannelInv
    <3>9. \A q \in Pids : \A i, j \in DOMAIN rx'[q] :
            IsAnswer(rx'[q][i]) /\ IsAnswer(rx'[q][j]) => i = j
      BY <1>3, <3>6, <3>7
    <3>10. \A q \in Pids : \A i \in DOMAIN rx'[q] : IsAnswer(rx'[q][i]) =>
             q = p /\ rx'[q][i].cmd = c
      BY <1>3, <3>6, <3>7
    <3>11. \A q \in Pids : \A i \in DOMAIN rx'[q] :
            rx'[q][i].kind = "terminated" => q \notin alive' /\ i = Len(rx'[q])
      BY <3>4, <3>6, <3>8 DEF ChannelInv
    <3>12. \A q \in Pids : \A i \in DOMAIN rx'[q] : IsAnswer(rx'[q][i]) =>
             \E d \in Commands :
               /\ rx'[q][i].cmd = d /\ pc'[d] = "read" /\ held'[d] = q
               /\ stdin'[q] = <<>> /\ (q \in alive' => step'[q] = "read")
      BY <1>1, <3>1, <3>4, <3>10
    <3> QED BY <3>9, <3>11, <3>12 DEF ChannelInv, IsAnswer
  <2> QED BY <1>4, <2>2, <2>3, <2>4 DEF Serve
<1>5. CASE Die(p)
  <2>1. PICK e \in {Terminated, Ignored} : rx' = [rx EXCEPT ![p] = Append(@, e)]
    BY <1>5 DEF Die, WriteLine
  <2>2. e \in CommandEvent /\ ~IsAnswer(e)
    BY <2>1 DEF Terminated, Ignored, CommandEvent, IsAnswer, Answers
  <2>3. alive' = {} /\ stdin'[p] = <<>> /\ \A q \in Pids : q # p => stdin'[q] = stdin[q]
    BY <1>1, <1>5 DEF Die, TypeOK
  <2>4. /\ Len(rx'[p]) = Len(rx[p]) + 1
        /\ \A i \in DOMAIN rx'[p] :
             \/ i \in DOMAIN rx[p] /\ rx'[p][i] = rx[p][i]
             \/ i = Len(rx[p]) + 1 /\ rx'[p][i] = e
    BY <1>2, <2>1, <2>2, AppendIndex
  <2>5. \A q \in Pids : q # p => rx'[q] = rx[q]
    BY <1>2, <2>1
  <2>6. \A i \in DOMAIN rx'[p] : rx'[p][i].kind = "terminated" => i = Len(rx'[p])
    BY <1>1, <2>4 DEF ChannelInv
  <2>7. \A q \in Pids : \A i \in DOMAIN rx'[q] : IsAnswer(rx'[q][i]) =>
          q = p /\ i \in DOMAIN rx[p] /\ rx'[q][i] = rx[p][i]
    BY <1>3, <2>2, <2>4, <2>5
  <2>8. \A q \in Pids : \A i, j \in DOMAIN rx'[q] :
          IsAnswer(rx'[q][i]) /\ IsAnswer(rx'[q][j]) => i = j
    <3>1. \A i, j \in DOMAIN rx[p] : IsAnswer(rx[p][i]) /\ IsAnswer(rx[p][j]) => i = j
      BY DEF ChannelInv
    <3> QED BY <2>7, <3>1
  <2>9. \A q \in Pids : \A i \in DOMAIN rx'[q] :
          rx'[q][i].kind = "terminated" => q \notin alive' /\ i = Len(rx'[q])
    BY <2>3, <2>5, <2>6 DEF ChannelInv
  <2>10. \A q \in Pids : \A i \in DOMAIN rx'[q] : IsAnswer(rx'[q][i]) =>
           \E d \in Commands :
             /\ rx'[q][i].cmd = d /\ pc'[d] = "read" /\ held'[d] = q
             /\ stdin'[q] = <<>> /\ (q \in alive' => step'[q] = "read")
    <3>1. \A i \in DOMAIN rx[p] : IsAnswer(rx[p][i]) =>
            \E d \in Commands : rx[p][i].cmd = d /\ pc[d] = "read" /\ held[d] = p
      BY DEF ChannelInv
    <3> QED BY <1>1, <2>3, <2>7, <3>1
  <2> QED BY <2>8, <2>9, <2>10 DEF ChannelInv, IsAnswer
<1>6. Serve(p) => step[p] # "read" \/ stdin[p] # <<>>
  <2>1. ReadLine(p) => stdin[p] # <<>>
    BY DEF ReadLine
  <2> QED BY <2>1 DEF Serve, HandleCommand, SaveSession, EmitEvent, WriteResponse
<1> QED BY <1>4, <1>5, <1>6

-----------------------------------------------------------------------------
(* The effects and the answers.                                            *)

LEMMA EffectRust ==
  ASSUME IInv, NEW c \in Commands, Invoke(c) \/ Proceed(c)
  PROVE  EffectInv'
<1> USE DEF IInv
<1>1. CASE TakeHandle(c)
  BY <1>1 DEF TakeHandle, EffectInv, TypeOK, Goto
<1>2. CASE NotRunning(c)
  <2>1. UNCHANGED <<alive, executed, rx, step, serving>> /\ pc[c] = "new"
    BY <1>2 DEF NotRunning
  <2>2. /\ pc' = [pc EXCEPT ![c] = "done"]
        /\ result' = [result EXCEPT ![c] = [is |-> "not_running", of |-> None]]
    BY <1>2 DEF NotRunning, Goto, Returns
  <2>3. c \notin executed
    BY <2>1 DEF EffectInv
  <2> QED BY <2>1, <2>2, <2>3 DEF EffectInv, TypeOK
<1>3. CASE WriteInput(c) \/ WriteNewline(c)
  <2>1. UNCHANGED <<alive, executed, rx, step, serving>> /\ pc[c] \in {"write", "newline"}
    BY <1>3 DEF WriteInput, WriteNewline
  <2>2. c \notin executed
    BY <2>1 DEF EffectInv
  <2>3. \/ result' = result /\ (Goto(c, "newline") \/ Goto(c, "read"))
        \/ Returns(c, "write_failed", None) /\ Goto(c, "restore")
    BY <1>3 DEF WriteInput, WriteNewline, WriteChunk
  <2>4. CASE result' = result /\ (Goto(c, "newline") \/ Goto(c, "read"))
    BY <2>1, <2>2, <2>4 DEF EffectInv, TypeOK, Goto
  <2>5. CASE Returns(c, "write_failed", None) /\ Goto(c, "restore")
    BY <2>1, <2>2, <2>5 DEF EffectInv, TypeOK, Goto, Returns
  <2> QED BY <2>3, <2>4, <2>5
<1>4. CASE Receive(c)
  <2> DEFINE e == Head(rx[held[c]])
  <2>1. /\ UNCHANGED <<alive, executed, step, serving>> /\ pc[c] = "read"
        /\ held[c] \in Pids
        /\ rx' = [rx EXCEPT ![held[c]] = Tail(@)] /\ rx[held[c]] # <<>>
    BY <1>4, Owner DEF Receive, Owning
  <2>2. rx[held[c]] \in Seq(CommandEvent) /\ rx \in [Pids -> Seq(CommandEvent)]
    BY <2>1 DEF TypeOK
  <2>3. /\ 1 \in DOMAIN rx[held[c]] /\ e = rx[held[c]][1]
        /\ \A i \in DOMAIN rx'[held[c]] :
             i + 1 \in DOMAIN rx[held[c]] /\ rx'[held[c]][i] = rx[held[c]][i + 1]
    BY <2>1, <2>2, TailIndex
  <2>4. \A p \in Pids : \A i \in DOMAIN rx'[p] :
          rx'[p][i].kind = "response" => rx'[p][i].cmd \in executed
    <3>1. \A p \in Pids : p # held[c] => rx'[p] = rx[p]
      BY <2>1, <2>2
    <3> QED BY <2>1, <2>3, <3>1 DEF EffectInv
  <2>5. IsAnswer(e) => e.cmd = c
    BY <2>1, <2>3, NoAnswer DEF Owning
  <2>6. e.kind = "response" => c \in executed
    BY <2>1, <2>3, <2>5 DEF EffectInv, IsAnswer, Answers
  <2>7. \/ result' = result /\ pc' = pc
        \/ Returns(c, "ok", c) /\ Goto(c, "restore") /\ c \in executed
        \/ Returns(c, "error", c) /\ Goto(c, "restore")
        \/ Returns(c, "terminated", None) /\ Goto(c, "restart")
    BY <1>4, <2>5, <2>6 DEF Receive, IsAnswer, Answers
  <2> HIDE DEF e
  <2>8. CASE result' = result /\ pc' = pc
    BY <2>1, <2>4, <2>8 DEF EffectInv
  <2>9. CASE /\ result'[c].is \in {"ok", "error", "terminated"}
             /\ pc'[c] = "restore" => result'[c].is \in {"ok", "error"}
             /\ pc'[c] = "restart" => result'[c].is = "terminated"
             /\ result'[c].is \in {"ok", "error"} => result'[c].of = c
             /\ result'[c].is = "ok" => c \in executed
             /\ pc'[c] \in {"restore", "restart"}
             /\ \A d \in Commands : d # c => pc'[d] = pc[d] /\ result'[d] = result[d]
    <3>1. \A d \in executed' : /\ pc'[d] \in {"read", "restore", "restart", "done"}
                                /\ result'[d].is \notin {"not_running", "write_failed"}
      BY <2>1, <2>9 DEF EffectInv, TypeOK
    <3>2. \A d \in Commands :
            pc'[d] \in {"new", "write", "newline", "read"} => result'[d] = NoResult
      BY <2>9 DEF EffectInv
    <3>3. \A d \in Commands : /\ result'[d].is = "ok" => d \in executed'
                              /\ result'[d].is \in {"ok", "error"} => result'[d].of = d
      BY <2>1, <2>9 DEF EffectInv
    <3>4. \A d \in Commands :
            /\ pc'[d] = "restore" => result'[d].is \in {"ok", "error", "write_failed", "closed"}
            /\ pc'[d] = "restart" => result'[d].is = "terminated"
      BY <2>9 DEF EffectInv
    <3> QED BY <2>1, <2>4, <3>1, <3>2, <3>3, <3>4 DEF EffectInv
  <2> QED BY <2>7, <2>8, <2>9 DEF Returns, Goto, TypeOK
<1>5. CASE ReceiveClosed(c)
  <2>1. UNCHANGED <<alive, executed, rx, step, serving>> /\ pc[c] = "read"
    BY <1>5 DEF ReceiveClosed
  <2>2. /\ pc' = [pc EXCEPT ![c] = "restore"]
        /\ result' = [result EXCEPT ![c] = [is |-> "closed", of |-> None]]
    BY <1>5 DEF ReceiveClosed, Goto, Returns
  <2> QED BY <2>1, <2>2 DEF EffectInv, TypeOK
<1>6. CASE RestoreHandle(c)
  BY <1>6 DEF RestoreHandle, EffectInv, TypeOK, Goto
<1>7. CASE AttemptRestart(c)
  <2>1. UNCHANGED <<result, executed, rx, step, serving>> /\ pc[c] = "restart"
        /\ pc' = [pc EXCEPT ![c] = "done"]
    BY <1>7 DEF AttemptRestart, Goto
  <2>2. \A p \in alive' : step[p] = "read"
    <3>1. alive = {}
      BY <2>1 DEF ProcessInv
    <3>2. alive' = {} \/ (alive' = {spawned + 1} /\ spawned + 1 \in Pids)
      BY <1>7, <3>1 DEF AttemptRestart
    <3>3. spawned + 1 \in Pids => step[spawned + 1] = "read"
      BY DEF ProcessInv, TypeOK, Pids
    <3> QED BY <3>2, <3>3
  <2> QED BY <2>1, <2>2 DEF EffectInv, TypeOK
<1> QED BY <1>1, <1>2, <1>3, <1>4, <1>5, <1>6, <1>7 DEF Invoke, Proceed

LEMMA EffectPython ==
  ASSUME IInv, NEW p \in Pids, Serve(p) \/ Die(p)
  PROVE  EffectInv'
<1> USE DEF IInv
<1>1. p \in alive /\ alive = {p} /\ UNCHANGED <<pc, result>>
  <2>1. p \in alive /\ UNCHANGED <<pc, result>>
    BY DEF Serve, Die, ReadLine, HandleCommand, SaveSession, EmitEvent, WriteResponse
  <2> QED BY <2>1, Running
<1>2. rx[p] \in Seq(CommandEvent) /\ rx \in [Pids -> Seq(CommandEvent)]
  BY DEF TypeOK
<1>3. CASE ReadLine(p)
  <2>1. UNCHANGED <<alive, executed, rx>> /\ step'[p] \notin {"emit", "reply"}
    BY <1>3 DEF ReadLine, TypeOK
  <2> QED BY <1>1, <2>1 DEF EffectInv
<1>4. CASE HandleCommand(p) \/ SaveSession(p)
  <2>1. PICK c \in Commands : serving[p] = c /\ pc[c] = "read"
    BY <1>1, <1>4, Serving DEF HandleCommand, SaveSession
  <2>2. /\ UNCHANGED <<alive, rx, serving>>
        /\ executed' \in {executed, executed \cup {c}}
        /\ step'[p] \in {"emit", "reply"} => c \in executed'
    BY <1>4, <2>1 DEF HandleCommand, SaveSession, TypeOK
  <2>3. result[c] = NoResult
    BY <2>1 DEF EffectInv
  <2> QED BY <1>1, <2>1, <2>2, <2>3 DEF EffectInv, NoResult
<1>5. CASE EmitEvent(p)
  <2> DEFINE e == Event(serving[p])
  <2>1. /\ UNCHANGED <<alive, executed, serving>> /\ step[p] = "emit"
        /\ rx' = [rx EXCEPT ![p] = Append(@, e)] /\ e.kind # "response"
    BY <1>5 DEF EmitEvent, WriteLine, Event
  <2>2. e \in CommandEvent
    BY <1>1, <2>1, Serving DEF Event, CommandEvent
  <2>3. \A i \in DOMAIN rx'[p] : (i \in DOMAIN rx[p] /\ rx'[p][i] = rx[p][i]) \/ rx'[p][i] = e
    BY <1>2, <2>1, <2>2, AppendIndex
  <2>4. \A q \in Pids : q # p => rx'[q] = rx[q]
    BY <1>2, <2>1
  <2>5. \A q \in Pids : \A i \in DOMAIN rx'[q] :
          rx'[q][i].kind = "response" => rx'[q][i].cmd \in executed
    BY <2>1, <2>3, <2>4 DEF EffectInv
  <2>6. serving[p] \in executed
    BY <1>1, <2>1 DEF EffectInv
  <2> QED BY <1>1, <2>1, <2>5, <2>6 DEF EffectInv
<1>6. CASE WriteResponse(p)
  <2>1. PICK e \in CommandEvent : /\ rx' = [rx EXCEPT ![p] = Append(@, e)]
                                  /\ e.kind = "response" => e.cmd \in executed
    <3>1. serving[p] \in Commands
      BY <1>1, <1>6, Serving DEF WriteResponse
    <3>2. CASE step[p] = "reply" /\ WriteLine(p, Response(serving[p]))
      <4>1. serving[p] \in executed
        BY <1>1, <3>2 DEF EffectInv
      <4>2. /\ Response(serving[p]) \in CommandEvent
            /\ Response(serving[p]).cmd = serving[p]
        BY <3>1 DEF Response, CommandEvent
      <4>3. rx' = [rx EXCEPT ![p] = Append(@, Response(serving[p]))]
        BY <3>2 DEF WriteLine
      <4> QED BY <4>1, <4>2, <4>3
    <3>3. CASE WriteLine(p, Failure(serving[p]))
      <4>1. /\ Failure(serving[p]) \in CommandEvent
            /\ Failure(serving[p]).kind # "response"
        BY <3>1 DEF Failure, CommandEvent
      <4>2. rx' = [rx EXCEPT ![p] = Append(@, Failure(serving[p]))]
        BY <3>3 DEF WriteLine
      <4> QED BY <4>1, <4>2
    <3> QED BY <1>6, <3>2, <3>3 DEF WriteResponse
  <2>2. UNCHANGED <<alive, executed>> /\ step'[p] = "read"
    BY <1>6 DEF WriteResponse, TypeOK
  <2>3. \A i \in DOMAIN rx'[p] : (i \in DOMAIN rx[p] /\ rx'[p][i] = rx[p][i]) \/ rx'[p][i] = e
    BY <1>2, <2>1, AppendIndex
  <2>4. \A q \in Pids : q # p => rx'[q] = rx[q]
    BY <1>2, <2>1
  <2>5. \A q \in Pids : \A i \in DOMAIN rx'[q] :
          rx'[q][i].kind = "response" => rx'[q][i].cmd \in executed
    BY <2>1, <2>3, <2>4 DEF EffectInv
  <2> QED BY <1>1, <2>2, <2>5 DEF EffectInv
<1>7. CASE Die(p)
  <2>1. PICK e \in {Terminated, Ignored} : rx' = [rx EXCEPT ![p] = Append(@, e)]
    BY <1>7 DEF Die, WriteLine
  <2>2. e \in CommandEvent /\ e.kind # "response"
    BY <2>1 DEF Terminated, Ignored, CommandEvent
  <2>3. alive' = {} /\ executed' = executed
    BY <1>1, <1>7 DEF Die
  <2>4. \A i \in DOMAIN rx'[p] : (i \in DOMAIN rx[p] /\ rx'[p][i] = rx[p][i]) \/ rx'[p][i] = e
    BY <1>2, <2>1, <2>2, AppendIndex
  <2>5. \A q \in Pids : q # p => rx'[q] = rx[q]
    BY <1>2, <2>1
  <2>6. \A q \in Pids : \A i \in DOMAIN rx'[q] :
          rx'[q][i].kind = "response" => rx'[q][i].cmd \in executed
    BY <2>2, <2>4, <2>5 DEF EffectInv
  <2> QED BY <1>1, <2>3, <2>6 DEF EffectInv
<1> QED BY <1>3, <1>4, <1>5, <1>6, <1>7 DEF Serve

-----------------------------------------------------------------------------
(* The invariant is inductive.                                             *)

LEMMA InvInit == Init => IInv
<1> SUFFICES ASSUME Init PROVE IInv
  OBVIOUS
<1>1. TypeOK
  BY TypeInit
<1>2. HandleInv /\ ProcessInv /\ ConversationInv
  BY AssumptionsHold DEF Init, HandleInv, ProcessInv, ConversationInv, Owning, Pids
<1>3. \A p \in Pids : rx[p] = <<>> /\ DOMAIN rx[p] = {}
  BY DEF Init
<1>4. ChannelInv
  BY <1>3 DEF ChannelInv
<1>5. EffectInv
  <2>1. /\ executed = {} /\ alive = {1}
        /\ \A p \in Pids : step[p] = "read"
        /\ \A c \in Commands : result[c].is = "none" /\ result[c] = NoResult /\ pc[c] = "new"
    BY DEF Init, NoResult
  <2>2. alive \subseteq Pids
    BY <1>1 DEF TypeOK
  <2> QED BY <1>3, <2>1, <2>2 DEF EffectInv
<1> QED BY <1>1, <1>2, <1>4, <1>5 DEF IInv

LEMMA InvStep == IInv /\ [Next]_vars => IInv'
<1> SUFFICES ASSUME IInv, [Next]_vars PROVE IInv'
  OBVIOUS
<1>1. TypeOK /\ HandleInv /\ ProcessInv /\ ConversationInv /\ ChannelInv /\ EffectInv
  BY DEF IInv
<1>2. CASE \E c \in Commands : Invoke(c) \/ Proceed(c)
  <2>1. PICK c \in Commands : Invoke(c) \/ Proceed(c)
    BY <1>2
  <2> QED
    BY <1>1, <2>1, TypeRust, HandleRust, ProcessRust, ConversationRust, ChannelRust, EffectRust
    DEF IInv
<1>3. CASE \E p \in Pids : Serve(p) \/ Die(p)
  <2>1. PICK p \in Pids : Serve(p) \/ Die(p)
    BY <1>3
  <2> QED
    BY <1>1, <2>1, TypePython, ProcessPython, ConversationPython, ChannelPython, EffectPython
    DEF IInv
<1>4. CASE PollEvents
  <2>1. TypeOK'
    BY <1>1, <1>4, TypePoll
  <2>2. UNCHANGED <<inner, pc, held, result, spawned, alive, stdin, rx, step, serving, executed>>
    BY <1>4 DEF PollEvents
  <2> QED BY <1>1, <2>1, <2>2 DEF IInv, HandleInv, ProcessInv, ConversationInv, ChannelInv, EffectInv
<1>5. CASE UNCHANGED vars
  BY <1>1, <1>5 DEF vars, IInv, TypeOK, HandleInv, ProcessInv, ConversationInv, ChannelInv, EffectInv
<1> QED BY <1>2, <1>3, <1>4, <1>5 DEF Next

(* Every behaviour of the bridge satisfies the inductive invariant.        *)
THEOREM Invariance == Spec => []IInv
BY InvInit, InvStep, PTL DEF Spec

(* The state stays well formed.                                            *)
THEOREM TypeCorrect == Spec => []TypeOK
BY Invariance, PTL DEF IInv

(* The handle is never in two places.                                      *)
THEOREM HandleExclusive == Spec => []OneHandle
<1>1. IInv => OneHandle
  BY DEF IInv, HandleInv, OneHandle, Busy
<1> QED BY <1>1, Invariance, PTL

(* A second sidecar is never started beside a running one.                 *)
THEOREM SidecarExclusive == Spec => []OneSidecar
<1>1. IInv => OneSidecar
  BY DEF IInv, ProcessInv, OneSidecar
<1> QED BY <1>1, Invariance, PTL

(* Without correlating ids, a command still returns its own answer.        *)
THEOREM AnswerIsOwn == Spec => []OwnAnswer
<1>1. IInv => OwnAnswer
  BY DEF IInv, EffectInv, OwnAnswer
<1> QED BY <1>1, Invariance, PTL

(* "ok" means done, "not running" and "write failed" mean not done.        *)
THEOREM AnswerIsDefinite == Spec => []DefiniteAnswer
<1>1. IInv => DefiniteAnswer
  BY DEF IInv, EffectInv, DefiniteAnswer
<1> QED BY <1>1, Invariance, PTL

-----------------------------------------------------------------------------
(* The events: what the channel and the buffer hold of them.               *)

EventLines == {Event(c) : c \in Commands}
Cmds(lines) == [i \in DOMAIN lines |-> lines[i].cmd]

LEMMA EventLine ==
  ASSUME NEW e \in CommandEvent
  PROVE  (e \in EventLines <=> e.kind = "event") /\ (e.kind = "event" => e.cmd \in Commands)
BY DEF EventLines, Event, CommandEvent, Terminated, Ignored

LEMMA CmdsTyped ==
  ASSUME NEW lines \in Seq(CommandEvent \cap EventLines)
  PROVE  Cmds(lines) \in Seq(Commands) /\ Len(Cmds(lines)) = Len(lines)
<1>1. \A i \in 1..Len(lines) : lines[i] \in CommandEvent \cap EventLines
  OBVIOUS
<1>2. \A i \in 1..Len(lines) : lines[i].cmd \in Commands
  BY <1>1, EventLine
<1>3. DOMAIN lines = 1..Len(lines) /\ Len(lines) \in Nat
  OBVIOUS
<1> QED BY <1>2, <1>3 DEF Cmds

LEMMA EventsTyped ==
  ASSUME NEW events \in Seq(CommandEvent)
  PROVE  EventsIn(events) \in Seq(Commands)
BY KeepType, CmdsTyped DEF EventsIn, EventLines, Cmds

(* A line at the end of the channel adds at most its event, at the end.    *)
LEMMA EventsAppend ==
  ASSUME NEW events \in Seq(CommandEvent), NEW e \in CommandEvent
  PROVE  EventsIn(Append(events, e)) =
           IF e.kind = "event" THEN Append(EventsIn(events), e.cmd) ELSE EventsIn(events)
<1> DEFINE kept == Keep(events, EventLines)
<1>1. kept \in Seq(CommandEvent \cap EventLines)
  BY KeepType
<1>2. Keep(Append(events, e), EventLines) = (IF e \in EventLines THEN Append(kept, e) ELSE kept)
  BY KeepAppend
<1>3. EventsIn(events) = Cmds(kept)
      /\ EventsIn(Append(events, e)) = Cmds(Keep(Append(events, e), EventLines))
  BY DEF EventsIn, EventLines, Cmds
<1> HIDE DEF kept
<1>4. CASE e.kind = "event"
  <2>1. e \in CommandEvent \cap EventLines /\ e.cmd \in Commands
    BY <1>4, EventLine
  <2>2. /\ Append(kept, e) \in Seq(CommandEvent \cap EventLines)
        /\ Len(Append(kept, e)) = Len(kept) + 1
        /\ \A i \in 1..Len(kept) : Append(kept, e)[i] = kept[i]
        /\ Append(kept, e)[Len(kept) + 1] = e
        /\ Len(kept) \in Nat
    BY <1>1, <2>1, AppendProperties
  <2>3. /\ Cmds(kept) \in Seq(Commands) /\ Len(Cmds(kept)) = Len(kept)
        /\ Cmds(Append(kept, e)) \in Seq(Commands) /\ Len(Cmds(Append(kept, e))) = Len(kept) + 1
    BY <1>1, <2>2, CmdsTyped
  <2>4. /\ Append(Cmds(kept), e.cmd) \in Seq(Commands)
        /\ Len(Append(Cmds(kept), e.cmd)) = Len(kept) + 1
        /\ \A i \in 1..Len(kept) : Append(Cmds(kept), e.cmd)[i] = Cmds(kept)[i]
        /\ Append(Cmds(kept), e.cmd)[Len(kept) + 1] = e.cmd
    BY <2>1, <2>3, AppendProperties
  <2>5. /\ \A i \in 1..Len(kept) : Cmds(kept)[i] = kept[i].cmd
        /\ \A i \in 1..(Len(kept) + 1) : Cmds(Append(kept, e))[i] = Append(kept, e)[i].cmd
    <3>1. DOMAIN kept = 1..Len(kept) /\ DOMAIN Append(kept, e) = 1..(Len(kept) + 1)
      BY <1>1, <2>2
    <3> QED BY <3>1 DEF Cmds
  <2>6. \A i \in 1..(Len(kept) + 1) : Cmds(Append(kept, e))[i] = Append(Cmds(kept), e.cmd)[i]
    <3>1. TAKE i \in 1..(Len(kept) + 1)
    <3>2. i = Len(kept) + 1 \/ i \in 1..Len(kept)
      BY <2>2
    <3> QED BY <2>2, <2>4, <2>5, <3>2
  <2>7. Cmds(Append(kept, e)) = Append(Cmds(kept), e.cmd)
    BY <2>3, <2>4, <2>6, SeqEqual
  <2> QED BY <1>2, <1>3, <1>4, <2>1, <2>7
<1>5. CASE e.kind # "event"
  BY <1>2, <1>3, <1>5, EventLine
<1> QED BY <1>4, <1>5

(* A line taken from the front of the channel takes at most its event.     *)
LEMMA EventsTail ==
  ASSUME NEW events \in Seq(CommandEvent), events # <<>>
  PROVE  EventsIn(events) =
           IF Head(events).kind = "event" THEN <<Head(events).cmd>> \o EventsIn(Tail(events))
                                         ELSE EventsIn(Tail(events))
<1> DEFINE e == Head(events)
           kept == Keep(Tail(events), EventLines)
<1>1. e \in CommandEvent /\ Tail(events) \in Seq(CommandEvent)
  BY HeadTailProperties
<1>2. kept \in Seq(CommandEvent \cap EventLines)
  BY <1>1, KeepType
<1>3. Keep(events, EventLines) = (IF e \in EventLines THEN <<e>> \o kept ELSE kept)
  BY KeepTail
<1>4. EventsIn(Tail(events)) = Cmds(kept) /\ EventsIn(events) = Cmds(Keep(events, EventLines))
  BY DEF EventsIn, EventLines, Cmds
<1> HIDE DEF kept, e
<1>5. CASE e.kind = "event"
  <2>1. e \in CommandEvent \cap EventLines /\ e.cmd \in Commands
    BY <1>1, <1>5, EventLine
  <2>2. /\ <<e>> \in Seq(CommandEvent \cap EventLines) /\ Len(<<e>>) = 1 /\ <<e>>[1] = e
        /\ <<e.cmd>> \in Seq(Commands) /\ Len(<<e.cmd>>) = 1 /\ <<e.cmd>>[1] = e.cmd
    BY <2>1
  <2>3. /\ <<e>> \o kept \in Seq(CommandEvent \cap EventLines)
        /\ Len(<<e>> \o kept) = 1 + Len(kept)
        /\ \A i \in 1..(1 + Len(kept)) : (<<e>> \o kept)[i] = IF i <= 1 THEN <<e>>[i]
                                                              ELSE kept[i - 1]
        /\ Len(kept) \in Nat
    BY <1>2, <2>2, ConcatProperties
  <2>4. /\ Cmds(kept) \in Seq(Commands) /\ Len(Cmds(kept)) = Len(kept)
        /\ Cmds(<<e>> \o kept) \in Seq(Commands) /\ Len(Cmds(<<e>> \o kept)) = 1 + Len(kept)
    BY <1>2, <2>3, CmdsTyped
  <2>5. /\ <<e.cmd>> \o Cmds(kept) \in Seq(Commands)
        /\ Len(<<e.cmd>> \o Cmds(kept)) = 1 + Len(kept)
        /\ \A i \in 1..(1 + Len(kept)) :
             (<<e.cmd>> \o Cmds(kept))[i] = IF i <= 1 THEN <<e.cmd>>[i] ELSE Cmds(kept)[i - 1]
    BY <2>2, <2>4, ConcatProperties
  <2>6. /\ \A i \in 1..Len(kept) : Cmds(kept)[i] = kept[i].cmd
        /\ \A i \in 1..(1 + Len(kept)) : Cmds(<<e>> \o kept)[i] = (<<e>> \o kept)[i].cmd
    <3>1. DOMAIN kept = 1..Len(kept) /\ DOMAIN (<<e>> \o kept) = 1..(1 + Len(kept))
      BY <1>2, <2>3
    <3> QED BY <3>1 DEF Cmds
  <2>7. \A i \in 1..(1 + Len(kept)) : Cmds(<<e>> \o kept)[i] = (<<e.cmd>> \o Cmds(kept))[i]
    <3>1. TAKE i \in 1..(1 + Len(kept))
    <3>2. i = 1 \/ (i - 1 \in 1..Len(kept) /\ ~(i <= 1))
      BY <2>3
    <3> QED BY <2>2, <2>3, <2>5, <2>6, <3>2
  <2>8. Cmds(<<e>> \o kept) = <<e.cmd>> \o Cmds(kept)
    BY <2>4, <2>5, <2>7, SeqEqual
  <2> QED BY <1>3, <1>4, <1>5, <2>1, <2>8 DEF e
<1>6. CASE e.kind # "event"
  <2>1. e \notin EventLines
    BY <1>1, <1>6, EventLine
  <2> QED BY <1>3, <1>4, <1>6, <2>1 DEF e
<1> QED BY <1>5, <1>6

(* The strengthening under which no event is lost.  The end of a process   *)
(* is the last word in its channel, so when a restart moves on to another  *)
(* process the old channel has nothing left; and what was written to       *)
(* stdout had been saved before.                                           *)
EventsInv ==
  /\ NoEventLost
  /\ \A c \in Commands : pc[c] = "restart" => rx[spawned] = <<>>
  /\ \A i \in 1..Len(emitted) : emitted[i] \in executed

LEMMA EventsInit == Init => EventsInv
<1> SUFFICES ASSUME Init PROVE EventsInv
  OBVIOUS
<1>1. 1 \in Pids /\ rx[spawned] = <<>>
  BY AssumptionsHold DEF Init, Pids
<1>2. EventsIn(<<>>) = <<>>
  <2>1. Keep(<<>>, EventLines) = <<>>
    BY KeepEmpty
  <2>2. Cmds(<<>>) = <<>>
    BY DEF Cmds
  <2> QED BY <2>1, <2>2 DEF EventsIn, EventLines, Cmds
<1>3. <<>> = <<>> \o <<>> \o <<>>
  OBVIOUS
<1>4. NoEventLost
  BY <1>1, <1>2, <1>3 DEF Init, NoEventLost
<1> QED BY <1>4 DEF Init, EventsInv

(* A step that touches neither the events nor the channel.                 *)
LEMMA EventsUntouched ==
  ASSUME EventsInv, UNCHANGED <<emitted, delivered, pending_events, spawned>>,
         executed \subseteq executed',
         rx'[spawned] = rx[spawned],
         \A c \in Commands : pc'[c] = "restart" => pc[c] = "restart"
  PROVE  EventsInv'
<1>1. NoEventLost'
  BY DEF EventsInv, NoEventLost
<1> QED BY <1>1 DEF EventsInv

(* A running process writes a line.                                        *)
LEMMA EventsWritten ==
  ASSUME IInv, EventsInv, NEW p \in alive, NEW e \in CommandEvent,
         UNCHANGED <<delivered, pending_events, spawned, pc, executed>>,
         rx' = [rx EXCEPT ![p] = Append(@, e)],
         emitted' = IF e.kind = "event" THEN Append(emitted, e.cmd) ELSE emitted,
         e.kind = "event" => e.cmd \in executed
  PROVE  EventsInv'
<1>1. /\ p = spawned /\ p \in Pids /\ \A c \in Commands : pc[c] # "restart"
      /\ rx[p] \in Seq(CommandEvent) /\ rx'[p] = Append(rx[p], e)
      /\ emitted \in Seq(Commands) /\ delivered \in Seq(Commands)
      /\ pending_events \in Seq(Commands)
  BY DEF IInv, TypeOK, ProcessInv
<1>2. EventsIn(rx[p]) \in Seq(Commands)
  BY <1>1, EventsTyped
<1>3. EventsIn(rx'[p]) = IF e.kind = "event" THEN Append(EventsIn(rx[p]), e.cmd)
                                             ELSE EventsIn(rx[p])
  BY <1>1, EventsAppend
<1>4. emitted = (delivered \o pending_events) \o EventsIn(rx[p])
  BY <1>1 DEF EventsInv, NoEventLost
<1>5. CASE e.kind = "event"
  <2> DEFINE told == delivered \o pending_events
             inside == EventsIn(rx[p])
  <2>1. told \in Seq(Commands) /\ inside \in Seq(Commands) /\ e.cmd \in Commands
        /\ <<e.cmd>> \in Seq(Commands)
    BY <1>1, <1>2, <1>5, EventLine, ConcatProperties
  <2> HIDE DEF told, inside
  <2>2. (told \o inside) \o <<e.cmd>> = told \o (inside \o <<e.cmd>>)
    BY <2>1, ConcatAssociative
  <2>3. told \o inside \in Seq(Commands)
    BY <2>1, ConcatProperties
  <2>4. Append(told \o inside, e.cmd) = told \o Append(inside, e.cmd)
    BY <2>1, <2>2, <2>3, AppendIsConcat
  <2>5. NoEventLost'
    BY <1>1, <1>3, <1>4, <1>5, <2>4 DEF NoEventLost, told, inside
  <2>6. \A i \in 1..Len(emitted') : emitted'[i] \in executed'
    <3>1. /\ Len(emitted') = Len(emitted) + 1 /\ Len(emitted) \in Nat
          /\ \A i \in 1..Len(emitted) : emitted'[i] = emitted[i]
          /\ emitted'[Len(emitted) + 1] = e.cmd
      BY <1>1, <1>5, <2>1, AppendProperties
    <3>2. \A i \in 1..(Len(emitted) + 1) : i = Len(emitted) + 1 \/ i \in 1..Len(emitted)
      BY <3>1
    <3> QED BY <1>5, <3>1, <3>2 DEF EventsInv
  <2> QED BY <1>1, <2>5, <2>6 DEF EventsInv
<1>6. CASE e.kind # "event"
  <2>1. NoEventLost'
    BY <1>1, <1>3, <1>4, <1>6 DEF NoEventLost
  <2> QED BY <1>1, <1>6, <2>1 DEF EventsInv
<1> QED BY <1>5, <1>6

(* An event moves from the channel into the buffer, another line leaves.   *)
LEMMA EventsReceive ==
  ASSUME IInv, EventsInv, NEW c \in Commands, Receive(c)
  PROVE  EventsInv'
<1> DEFINE p == held[c]
           e == Head(rx[p])
<1>1. /\ pc[c] = "read" /\ rx[p] # <<>> /\ rx' = [rx EXCEPT ![p] = Tail(@)]
      /\ UNCHANGED <<emitted, delivered, spawned, executed>>
  BY DEF Receive
<1>2. p = spawned /\ p \in Pids
  BY <1>1, AssumptionsHold DEF IInv, TypeOK, HandleInv, Owning
<1>3. /\ rx[p] \in Seq(CommandEvent) /\ rx'[p] = Tail(rx[p]) /\ e \in CommandEvent
      /\ Tail(rx[p]) \in Seq(CommandEvent)
      /\ emitted \in Seq(Commands) /\ delivered \in Seq(Commands)
      /\ pending_events \in Seq(Commands)
  BY <1>1, <1>2, HeadTailProperties DEF IInv, TypeOK
<1>4. pending_events' = IF e.kind = "event" THEN Append(pending_events, e.cmd)
                                            ELSE pending_events
  <2>1. e.kind \in {"event", "response", "failure", "terminated", "ignored"}
    BY <1>3 DEF CommandEvent, Terminated, Ignored
  <2> QED BY <2>1 DEF Receive
<1>5. NoEventLost'
  <2> DEFINE rest == EventsIn(Tail(rx[p]))
  <2>1. rest \in Seq(Commands)
    BY <1>3, EventsTyped
  <2>2. EventsIn(rx[p]) = IF e.kind = "event" THEN <<e.cmd>> \o rest ELSE rest
    BY <1>1, <1>3, EventsTail
  <2>3. emitted = (delivered \o pending_events) \o EventsIn(rx[p])
    BY <1>2 DEF EventsInv, NoEventLost
  <2>4. CASE e.kind = "event"
    <3>1. e.cmd \in Commands /\ <<e.cmd>> \in Seq(Commands)
      BY <1>3, <2>4, EventLine
    <3> HIDE DEF rest, e
    <3>2. /\ delivered \o pending_events \in Seq(Commands)
          /\ pending_events \o <<e.cmd>> \in Seq(Commands)
          /\ pending_events \o <<e.cmd>> = Append(pending_events, e.cmd)
      BY <1>3, <3>1, ConcatProperties, AppendIsConcat
    <3>3. (delivered \o pending_events) \o (<<e.cmd>> \o rest)
            = ((delivered \o pending_events) \o <<e.cmd>>) \o rest
      <4> DEFINE a == delivered \o pending_events
                 b == <<e.cmd>>
      <4>1. a \in Seq(Commands) /\ b \in Seq(Commands)
        BY <3>1, <3>2
      <4> HIDE DEF a, b
      <4>2. a \o (b \o rest) = (a \o b) \o rest
        BY <2>1, <4>1, ConcatAssociative
      <4> QED
        BY <4>2 DEF a, b
    <3>4. (delivered \o pending_events) \o <<e.cmd>> = delivered \o (pending_events \o <<e.cmd>>)
      BY <1>3, <3>1, ConcatAssociative
    <3>5. emitted = (delivered \o pending_events') \o rest
      BY <1>4, <2>2, <2>3, <2>4, <3>2, <3>3, <3>4
    <3> QED BY <1>1, <1>2, <1>3, <3>5 DEF NoEventLost, rest
  <2>5. CASE e.kind # "event"
    BY <1>1, <1>2, <1>3, <1>4, <2>2, <2>3, <2>5 DEF NoEventLost
  <2> QED BY <2>4, <2>5
<1>6. ASSUME NEW d \in Commands, pc'[d] = "restart" PROVE rx'[spawned'] = <<>>
  <2>1. CASE pc[d] = "restart"
    <3>1. rx[spawned] = <<>>
      BY <2>1 DEF EventsInv
    <3> QED BY <1>1, <1>2, <3>1
  <2>2. CASE pc[d] # "restart"
    <3>1. e.kind = "terminated"
      BY <1>6, <2>2 DEF Receive, Goto, IInv, TypeOK
    <3>2. 1 \in DOMAIN rx[p] /\ rx[p][1] = e /\ Len(rx[p]) \in Nat
      BY <1>1, <1>3
    <3>3. Len(rx[p]) = 1
      <4>1. \A i \in DOMAIN rx[p] : rx[p][i].kind = "terminated" => i = Len(rx[p])
        BY <1>2 DEF IInv, ChannelInv
      <4> QED BY <3>1, <3>2, <4>1
    <3>4. Len(Tail(rx[p])) = 0
      BY <1>1, <1>3, <3>3, HeadTailProperties
    <3> QED BY <1>1, <1>2, <1>3, <3>4, EmptySeq
  <2> QED BY <2>1, <2>2
<1> QED BY <1>1, <1>5, <1>6 DEF EventsInv

LEMMA EventsRestart ==
  ASSUME IInv, EventsInv, NEW c \in Commands, AttemptRestart(c)
  PROVE  EventsInv'
<1>1. /\ pc[c] = "restart" /\ UNCHANGED <<pending_events, rx, emitted, delivered, executed>>
      /\ spawned' = spawned \/ (spawned' = spawned + 1 /\ spawned + 1 \in Pids)
      /\ pc' = [pc EXCEPT ![c] = "done"]
  BY DEF AttemptRestart, Goto
<1>2. rx[spawned] = <<>>
  BY <1>1 DEF EventsInv
<1>3. rx[spawned'] = <<>>
  <2>1. CASE spawned' = spawned
    BY <1>2, <2>1
  <2>2. CASE spawned' = spawned + 1 /\ spawned + 1 \in Pids
    <3>1. spawned + 1 > spawned
      BY AssumptionsHold DEF IInv, TypeOK, Pids
    <3> QED BY <2>2, <3>1 DEF IInv, ProcessInv
  <2> QED BY <1>1, <2>1, <2>2
<1>4. NoEventLost'
  BY <1>1, <1>2, <1>3 DEF EventsInv, NoEventLost
<1> QED BY <1>1, <1>3, <1>4 DEF EventsInv

LEMMA EventsPoll == ASSUME IInv, EventsInv, PollEvents PROVE EventsInv'
<1>1. /\ delivered' = delivered \o pending_events /\ pending_events' = <<>>
      /\ UNCHANGED <<pc, spawned, rx, executed, emitted>>
  BY DEF PollEvents
<1>2. delivered \in Seq(Commands) /\ pending_events \in Seq(Commands)
  BY DEF IInv, TypeOK
<1>3. delivered \o pending_events \in Seq(Commands)
  BY <1>2, ConcatProperties
<1>4. delivered' \o pending_events' = delivered \o pending_events
  BY <1>1, <1>3, ConcatEmptySeq
<1>5. NoEventLost'
  BY <1>1, <1>4 DEF EventsInv, NoEventLost
<1> QED BY <1>1, <1>5 DEF EventsInv

LEMMA EventsStep == IInv /\ EventsInv /\ [Next]_vars => EventsInv'
<1> SUFFICES ASSUME IInv, EventsInv, [Next]_vars PROVE EventsInv'
  OBVIOUS
<1>0. TypeOK
  BY DEF IInv
<1>1. ASSUME NEW c \in Commands,
             \/ TakeHandle(c) \/ NotRunning(c) \/ WriteInput(c) \/ WriteNewline(c)
             \/ ReceiveClosed(c) \/ RestoreHandle(c)
      PROVE  EventsInv'
  <2>1. /\ UNCHANGED <<emitted, delivered, pending_events, spawned, executed, rx>>
        /\ \E to : to # "restart" /\ (pc' = pc \/ pc' = [pc EXCEPT ![c] = to])
    BY <1>1 DEF TakeHandle, NotRunning, WriteInput, WriteNewline, WriteChunk, ReceiveClosed,
                RestoreHandle, Goto
  <2>2. \A d \in Commands : pc'[d] = "restart" => pc[d] = "restart"
    BY <1>0, <2>1 DEF TypeOK
  <2> QED BY <2>1, <2>2, EventsUntouched
<1>2. ASSUME NEW p \in Pids, ReadLine(p) \/ HandleCommand(p) \/ SaveSession(p)
      PROVE  EventsInv'
  <2>1. /\ UNCHANGED <<emitted, delivered, pending_events, spawned, rx, pc>>
        /\ executed \subseteq executed'
    BY <1>2 DEF ReadLine, HandleCommand, SaveSession
  <2> QED BY <2>1, EventsUntouched
<1>3. ASSUME NEW p \in Pids, EmitEvent(p)
      PROVE  EventsInv'
  <2>1. /\ p \in alive /\ step[p] = "emit"
        /\ UNCHANGED <<delivered, pending_events, spawned, pc, executed>>
        /\ rx' = [rx EXCEPT ![p] = Append(@, Event(serving[p]))]
        /\ emitted' = Append(emitted, serving[p])
    BY <1>3 DEF EmitEvent, WriteLine
  <2>2. serving[p] \in executed /\ serving[p] \in Commands
    BY <2>1 DEF IInv, EffectInv, TypeOK
  <2>3. /\ Event(serving[p]) \in CommandEvent /\ Event(serving[p]).kind = "event"
        /\ Event(serving[p]).cmd = serving[p]
    BY <2>2, AssumptionsHold DEF Event, CommandEvent
  <2> QED BY <2>1, <2>2, <2>3, EventsWritten
<1>4. ASSUME NEW p \in Pids, WriteResponse(p)
      PROVE  EventsInv'
  <2>1. /\ p \in alive /\ step[p] # "read"
        /\ UNCHANGED <<delivered, pending_events, spawned, pc, executed, emitted>>
        /\ \E e \in {Response(serving[p]), Failure(serving[p])} :
             rx' = [rx EXCEPT ![p] = Append(@, e)]
    BY <1>4 DEF WriteResponse, WriteLine
  <2>2. serving[p] \in Commands
    BY <1>4, Serving DEF IInv, WriteResponse
  <2>3. PICK e \in {Response(serving[p]), Failure(serving[p])} :
          rx' = [rx EXCEPT ![p] = Append(@, e)]
    BY <2>1
  <2>4. e \in CommandEvent /\ e.kind # "event"
    BY <2>2, <2>3 DEF Response, Failure, CommandEvent
  <2> QED BY <2>1, <2>3, <2>4, EventsWritten
<1>5. ASSUME NEW p \in Pids, Die(p)
      PROVE  EventsInv'
  <2>1. /\ p \in alive
        /\ UNCHANGED <<delivered, pending_events, spawned, pc, executed, emitted>>
    BY <1>5 DEF Die
  <2>2. PICK e \in {Terminated, Ignored} : rx' = [rx EXCEPT ![p] = Append(@, e)]
    BY <1>5 DEF Die, WriteLine
  <2>3. e \in CommandEvent /\ e.kind # "event"
    BY <2>2 DEF Terminated, Ignored, CommandEvent
  <2> QED BY <2>1, <2>2, <2>3, EventsWritten
<1>6. CASE UNCHANGED vars
  BY <1>6, EventsUntouched DEF vars
<1> QED
  BY <1>1, <1>2, <1>3, <1>4, <1>5, <1>6, EventsReceive, EventsRestart, EventsPoll
     DEF Next, Invoke, Proceed, Serve

LEMMA EventsInvariance == Spec => [](IInv /\ EventsInv)
<1>1. Spec => []EventsInv
  BY EventsInit, EventsStep, Invariance, PTL DEF Spec
<1> QED BY <1>1, Invariance, PTL

(* Whatever dies and however commands fail, every event that was written   *)
(* is delivered, in the buffer or in the channel, once and in order.       *)
THEOREM EventsAreKept == Spec => []NoEventLost
<1>1. EventsInv => NoEventLost
  BY DEF EventsInv
<1> QED BY <1>1, EventsInvariance, PTL

(* What the frontend has been told of is a prefix of what was written, and *)
(* each of it had been saved before it was.                                *)
THEOREM EventsAreSaved == Spec => []EventHasSession
<1>1. IInv /\ EventsInv => EventHasSession
  <2> SUFFICES ASSUME IInv, EventsInv, NEW i \in DOMAIN delivered
               PROVE  delivered[i] \in executed
    BY DEF EventHasSession
  <2>1. /\ delivered \in Seq(Commands) /\ pending_events \in Seq(Commands)
        /\ rx[spawned] \in Seq(CommandEvent)
    BY DEF IInv, TypeOK
  <2> DEFINE told == delivered \o pending_events
             inside == EventsIn(rx[spawned])
  <2>2. inside \in Seq(Commands)
    BY <2>1, EventsTyped
  <2>3. /\ told \in Seq(Commands) /\ Len(told) = Len(delivered) + Len(pending_events)
        /\ \A j \in 1..(Len(delivered) + Len(pending_events)) :
             told[j] = IF j <= Len(delivered) THEN delivered[j]
                       ELSE pending_events[j - Len(delivered)]
    BY <2>1, ConcatProperties
  <2>4. emitted = told \o inside
    BY DEF EventsInv, NoEventLost
  <2> HIDE DEF told, inside
  <2>5. /\ Len(told \o inside) = Len(told) + Len(inside)
        /\ \A j \in 1..(Len(told) + Len(inside)) :
             (told \o inside)[j] = IF j <= Len(told) THEN told[j] ELSE inside[j - Len(told)]
    <3>1. told \in Seq(Commands)
      BY <2>3
    <3> QED BY <2>2, <3>1, ConcatProperties
  <2>6. /\ i \in 1..Len(delivered) /\ Len(delivered) \in Nat /\ Len(pending_events) \in Nat
        /\ Len(inside) \in Nat
    BY <2>1, <2>2
  <2>7. delivered[i] = emitted[i] /\ i \in 1..Len(emitted)
    BY <2>3, <2>4, <2>5, <2>6
  <2> QED BY <2>7 DEF EventsInv
<1> QED BY <1>1, EventsInvariance, PTL

-----------------------------------------------------------------------------
(* The bridge implements SidecarService.                                   *)

LEMMA ServiceInit == Init => Service!Init
BY AssumptionsHold DEF Init, Service!Init, Busy

(* The abstract state, command by command.                                 *)
Status == [c \in Commands |-> IF pc[c] \in {"new", "done"} THEN pc[c] ELSE "open"]
Answer == [c \in Commands |-> IF pc[c] = "done" THEN result[c].is ELSE "none"]
Down   == inner = None /\ ~Busy

LEMMA Open ==
  ASSUME TypeOK, NEW c \in Commands
  PROVE  (Status[c] = "open") <=> (pc[c] \in Owning)
BY DEF Status, TypeOK, Owning

LEMMA OwnerIsBusy ==
  ASSUME TypeOK, HandleInv, NEW c \in Commands, pc[c] \in Owning
  PROVE  Busy
BY DEF HandleInv, Busy

LEMMA Served ==
  ASSUME TypeOK, HandleInv, ProcessInv, ConversationInv, NEW p \in Pids, HandleCommand(p) \/ SaveSession(p)
  PROVE  [Service!Next]_(Service!vars)
<1>1. p \in alive /\ step[p] # "read" /\ UNCHANGED rustVars
  BY DEF HandleCommand, SaveSession
<1>2. PICK c \in Commands : serving[p] = c /\ pc[c] = "read"
  BY <1>1, Serving
<1>3. executed' \in {executed, executed \cup {c}}
  BY <1>2 DEF HandleCommand, SaveSession
<1>4. Status' = Status /\ Answer' = Answer /\ Down' = Down
  BY <1>1 DEF Status, Answer, Down, Busy
<1>5. Status[c] = "open"
  BY <1>2, Open DEF Owning
<1>6. CASE executed' = executed
  BY <1>4, <1>6 DEF Service!vars, Status, Answer, Down
<1>7. CASE executed' # executed
  <2>1. Service!TakeEffect(c)
    BY <1>3, <1>4, <1>5, <1>7 DEF Service!TakeEffect, Status, Answer, Down
  <2> QED BY <2>1 DEF Service!Next
<1> QED BY <1>6, <1>7

LEMMA ServiceStep == IInv /\ IInv' /\ [Next]_vars => [Service!Next]_(Service!vars)
<1> SUFFICES ASSUME IInv, IInv', [Next]_vars
             PROVE  [Service!Next]_(Service!vars)
  OBVIOUS
<1>0. TypeOK /\ TypeOK' /\ HandleInv /\ HandleInv' /\ ProcessInv /\ ConversationInv /\ EffectInv
  BY DEF IInv
<1>1. ASSUME Status' = Status, Answer' = Answer, Down' = Down, executed' = executed
      PROVE  UNCHANGED Service!vars
  BY <1>1 DEF Service!vars, Status, Answer, Down
<1>2. ASSUME NEW c \in Commands, TakeHandle(c)
      PROVE  Service!Next
  <2>1. \A d \in Commands : Status[d] # "open"
    BY <1>0, <1>2, Open DEF TakeHandle, HandleInv
  <2>2. Status' = [Status EXCEPT ![c] = "open"] /\ Status[c] = "new"
    BY <1>0, <1>2 DEF TakeHandle, Goto, TypeOK, Status
  <2>3. Answer' = Answer /\ executed' = executed
    BY <1>0, <1>2 DEF TakeHandle, Goto, TypeOK, Answer
  <2>4. ~Down /\ ~Down'
    <3>1. pc'[c] \in Owning
      BY <1>0, <1>2 DEF TakeHandle, Goto, TypeOK, Owning
    <3>2. held'[c] # None
      BY <1>0, <3>1 DEF HandleInv
    <3> QED BY <1>2, <3>2 DEF Down, Busy, TakeHandle
  <2>5. Service!Call(c)
    BY <2>1, <2>2, <2>3, <2>4 DEF Service!Call, Service!Idle, Status, Answer, Down
  <2> QED BY <2>5 DEF Service!Next
<1>3. ASSUME NEW c \in Commands, NotRunning(c)
      PROVE  Service!Next
  <2>1. Down \/ \E d \in Commands : Status[d] = "open"
    BY <1>0, <1>3, Open DEF NotRunning, Down, Busy, HandleInv
  <2>2. Status' = [Status EXCEPT ![c] = "done"] /\ Status[c] = "new"
    BY <1>0, <1>3 DEF NotRunning, Goto, TypeOK, Status
  <2>3. Answer' = [Answer EXCEPT ![c] = "not_running"] /\ executed' = executed
    BY <1>0, <1>3 DEF NotRunning, Goto, Returns, TypeOK, Answer
  <2>4. Down' = Down
    BY <1>3 DEF NotRunning, Down, Busy
  <2>5. Service!Refuse(c)
    BY <2>1, <2>2, <2>3, <2>4 DEF Service!Refuse, Service!Idle, Status, Answer, Down
  <2> QED BY <2>5 DEF Service!Next
<1>4. ASSUME NEW c \in Commands, WriteInput(c) \/ WriteNewline(c) \/ Receive(c) \/ ReceiveClosed(c)
      PROVE  UNCHANGED Service!vars
  <2>1. /\ UNCHANGED <<inner, held, executed>>
        /\ pc[c] \in {"write", "newline", "read"}
        /\ \/ pc' = pc /\ result' = result
           \/ /\ \E to \in Owning : pc' = [pc EXCEPT ![c] = to]
              /\ result' = result \/ \E r : result' = [result EXCEPT ![c] = r]
    BY <1>4 DEF WriteInput, WriteNewline, WriteChunk, Receive, ReceiveClosed, Goto, Returns, Owning
  <2>2. Down' = Down
    BY <2>1 DEF Down, Busy
  <2>3. /\ \A d \in Commands : d # c => pc'[d] = pc[d] /\ result'[d] = result[d]
        /\ pc'[c] \notin {"new", "done"} /\ pc[c] \notin {"new", "done"}
    BY <1>0, <2>1 DEF TypeOK, Owning
  <2>4. Status' = Status /\ Answer' = Answer
    BY <2>3 DEF Status, Answer
  <2> QED BY <1>1, <2>1, <2>2, <2>4
<1>5. ASSUME NEW c \in Commands, RestoreHandle(c)
      PROVE  Service!Next
  <2>1. Status[c] = "open" /\ Status' = [Status EXCEPT ![c] = "done"]
    BY <1>0, <1>5 DEF RestoreHandle, Goto, TypeOK, Status
  <2>2. Answer' = [Answer EXCEPT ![c] = result[c].is] /\ executed' = executed
    BY <1>0, <1>5 DEF RestoreHandle, Goto, TypeOK, Answer
  <2>3. ~Down /\ ~Down'
    BY <1>0, <1>5, OwnerIsBusy DEF RestoreHandle, Down, HandleInv, Owning
  <2>4. /\ result[c].is \in {"ok", "error", "write_failed", "closed"}
        /\ result[c].is = "ok" => c \in executed
        /\ result[c].is = "write_failed" => c \notin executed
    BY <1>0, <1>5 DEF RestoreHandle, EffectInv
  <2>5. PICK a \in {"ok", "error"} \cup Service!Failures : a = result[c].is
    BY <2>4 DEF Service!Failures
  <2>6. Service!Return(c, a)
    BY <2>1, <2>2, <2>3, <2>4, <2>5 DEF Service!Return, Status, Answer, Down
  <2> QED BY <2>6 DEF Service!Next
<1>6. ASSUME NEW c \in Commands, AttemptRestart(c)
      PROVE  Service!Next
  <2>1. Status[c] = "open" /\ Status' = [Status EXCEPT ![c] = "done"]
    BY <1>0, <1>6 DEF AttemptRestart, Goto, TypeOK, Status
  <2>2. Answer' = [Answer EXCEPT ![c] = "terminated"] /\ executed' = executed
    <3>1. result[c].is = "terminated" /\ result' = result /\ pc' = [pc EXCEPT ![c] = "done"]
      BY <1>0, <1>6 DEF AttemptRestart, Goto, EffectInv
    <3>2. \A d \in Commands : Answer'[d] = [Answer EXCEPT ![c] = "terminated"][d]
      BY <1>0, <3>1 DEF TypeOK, Answer
    <3>3. Answer' = [Answer EXCEPT ![c] = "terminated"]
      BY <3>2 DEF Answer
    <3> QED BY <1>6, <3>3 DEF AttemptRestart
  <2>3. Down' \in BOOLEAN
    BY DEF Down, Busy
  <2>4. Service!Return(c, "terminated")
    BY <2>1, <2>2, <2>3 DEF Service!Return, Status, Answer, Down
  <2>5. "terminated" \in {"ok", "error"} \cup Service!Failures
    BY DEF Service!Failures
  <2> QED BY <2>4, <2>5 DEF Service!Next
<1>7. ASSUME NEW p \in Pids, ReadLine(p) \/ EmitEvent(p) \/ WriteResponse(p) \/ Die(p)
      PROVE  UNCHANGED Service!vars
  <2>1. UNCHANGED <<rustVars, executed>>
    BY <1>7 DEF ReadLine, EmitEvent, WriteResponse, Die
  <2> QED BY <2>1, <1>1 DEF Status, Answer, Down, Busy
<1>8. ASSUME PollEvents \/ UNCHANGED vars
      PROVE  UNCHANGED Service!vars
  <2>1. UNCHANGED <<inner, pc, held, result, executed>>
    BY <1>8 DEF PollEvents, vars
  <2> QED BY <2>1, <1>1 DEF Status, Answer, Down, Busy
<1> QED
  BY <1>0, <1>2, <1>3, <1>4, <1>5, <1>6, <1>7, <1>8, Served DEF Next, Invoke, Proceed, Serve

(* The detailed bridge implements the abstract service.                    *)
THEOREM Refinement == Spec => ImplementsService
BY ServiceInit, ServiceStep, Invariance, PTL DEF Spec, ImplementsService, Service!Spec
=============================================================================
