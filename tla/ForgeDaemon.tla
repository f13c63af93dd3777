---------------------------- MODULE ForgeDaemon -----------------------------
(***************************************************************************)
(* bforge's client and its Blender daemon.  An agent gives commands to the *)
(* MCP server one after the other: batches of operations (one operation,   *)
(* a reset or an inspection is a batch of one), restart and stop.  Each    *)
(* operation is a line on the daemon's stdin, answered by a line on its    *)
(* stdout among lines of chatter; both are pipes that hold only so much.   *)
(* The client starts the daemon when it finds none, gives a call up when   *)
(* its deadline is over, and leaves the request where it is.  Blender may  *)
(* die at any moment, and with it the scene it holds.                      *)
(***************************************************************************)
EXTENDS Naturals, Sequences, FiniteSets

CONSTANTS
  Scripts,                \* what the agent may ask for: sequences of commands
  InRoom, OutRoom,        \* lines the two pipes hold
  MaxDeaths, MaxLate, MaxChatter

ResetOp == "session.reset"
Ops == {"build", ResetOp}
Command == [kind : {"batch"}, ops : Seq(Ops), keepGoing : BOOLEAN]
             \cup [kind : {"restart", "stop"}]

ASSUME ForgeAssumption ==
  /\ Scripts \subseteq Seq(Command)
  /\ \A script \in Scripts : \A i \in DOMAIN script : script[i].kind = "batch" => script[i].ops # <<>>
  /\ InRoom \in Nat \ {0} /\ OutRoom \in Nat \ {0}
  /\ MaxDeaths \in Nat /\ MaxLate \in Nat /\ MaxChatter \in Nat

VARIABLES
  script,     \* the agent's commands
  command,    \* the one being served; past the last, the agent has hung up
  step,       \* the operation of a batch being called
  ctl,        \* where the client is
  processes,  \* every Blender ever started
  current,    \* the one the client holds, 0 for none
  nextId,
  late,       \* the deadline of the call, or of the start, is over
  acks,       \* the answers the client has taken: [id, ok, op, by]
  lates, deaths, chatters

bounds == <<deaths, chatters>>
vars == <<script, command, step, ctl, processes, current, nextId, late, acks, lates, bounds>>

Request == [id : Nat, op : Ops \cup {"__shutdown__"}]
Line == [kind : {"ready", "chatter"}] \cup [kind : {"answer"}, id : Nat, ok : BOOLEAN]
Idle == [state |-> "idle"]

\* busy: the request being dispatched, and once it ran, the answer being written.
Fresh == [alive |-> TRUE, ready |-> FALSE, inbox |-> <<>>, busy |-> Idle, outbox |-> <<>>,
          scene |-> <<>>, ran |-> {}, sent |-> <<>>]

States == {"idle", "call", "starting", "send", "waiting", "stop", "ending", "halted"}

Cmd == script[command]
HungUp == command > Len(script)
Blender == processes[current]
Running == current # 0 /\ Blender.alive

Init ==
  /\ script \in Scripts
  /\ command = 1 /\ step = 1
  /\ ctl = "idle"
  /\ processes = <<>> /\ current = 0
  /\ nextId = 1
  /\ late = FALSE
  /\ acks = {}
  /\ lates = 0 /\ deaths = 0 /\ chatters = 0

-----------------------------------------------------------------------------
(* The client, and the server's loop around it.                            *)

Goes(here, there) == ctl = here /\ ctl' = there

\* The command is over, answered or not: the agent gives the next one.
Over(here) ==
  /\ Goes(here, "idle")
  /\ command' = command + 1
  /\ step' = 1

\* A DaemonError: no caller but the server's catches it, which ends a batch.
DaemonError(here) == Over(here)

Serve ==
  /\ Goes("idle", IF HungUp \/ Cmd.kind # "batch" THEN "stop" ELSE "call")
  /\ UNCHANGED <<script, command, step, processes, current, nextId, late, acks, lates, bounds>>

\* Popen: a new process with an empty scene and empty pipes.
Spawn(here) ==
  /\ Goes(here, "starting")
  /\ processes' = Append(processes, Fresh)
  /\ current' = Len(processes) + 1
  /\ late' = FALSE

\* A mutant: a process that was not seen ready is replaced by another.
EnsureReady ==
  /\ \/ Running /\ Blender.ready /\ Goes("call", "send") /\ UNCHANGED <<processes, current, late>>
     \/ ~(Running /\ Blender.ready) /\ Spawn("call")
  /\ UNCHANGED <<script, command, step, nextId, acks, lates, bounds>>

\* call_raw starts a daemon when there is none, or when the last one is dead.
Ensure ==
  /\ \/ Running /\ Goes("call", "send") /\ UNCHANGED <<processes, current, late>>
     \/ ~Running /\ Spawn("call")
  /\ UNCHANGED <<script, command, step, nextId, acks, lates, bounds>>

\* readline: the next line, or the end of what a dead process left.
Reads == current # 0 /\ Blender.outbox # <<>>
\* A mutant: what a dead process left is never at its end.
EndOfFileNever == FALSE

\* Another: a read that does not block takes silence for the end.
SilenceIsEnd == current # 0 /\ Blender.outbox = <<>>

EndOfFile == current # 0 /\ Blender.outbox = <<>> /\ ~Blender.alive
TakeLine == processes' = [processes EXCEPT ![current].outbox = Tail(@)]

\* start() is over: the call goes on, or restart has its answer.
Started ==
  IF Cmd.kind = "restart" THEN Over("starting")
  ELSE Goes("starting", "send") /\ UNCHANGED <<command, step>>

\* The deadline is looked at before each line, never while waiting for one.
Start ==
  /\ ctl = "starting"
  /\ \/ /\ Reads /\ TakeLine
        /\ IF Head(Blender.outbox).kind = "ready" THEN Started
           ELSE IF late THEN DaemonError("starting")
           ELSE UNCHANGED <<ctl, command, step>>
     \/ /\ EndOfFile /\ DaemonError("starting")
        /\ UNCHANGED processes
  /\ UNCHANGED <<script, current, nextId, late, acks, lates, bounds>>

Put(request) ==
  processes' = [processes EXCEPT
    ![current].inbox = Append(@, request), ![current].sent = Append(@, request)]

\* A mutant: one line more than the pipe holds.
RoomForOneMore == Len(Blender.inbox) <= InRoom

Room == Len(Blender.inbox) < InRoom

\* A write to a full pipe blocks until the daemon reads; to a dead process, it raises.
Send ==
  /\ ctl = "send"
  /\ nextId' = nextId + 1
  /\ \/ /\ Blender.alive /\ Room
        /\ Put([id |-> nextId, op |-> Cmd.ops[step]])
        /\ Goes("send", "waiting")
        /\ late' = FALSE
        /\ UNCHANGED <<command, step>>
     \/ /\ ~Blender.alive
        /\ DaemonError("send")
        /\ UNCHANGED <<processes, late>>
  /\ UNCHANGED <<script, current, acks, lates, bounds>>

\* A mutant: any answer will do.
MineAny(line) == line.kind = "answer"

\* The answer to the request that was sent last.
Mine(line) == line.kind = "answer" /\ line.id = nextId - 1

\* ForgeError ends a batch unless it is to go on; a result, or going on, means the
\* next step.
StepOver(ok) ==
  IF step < Len(Cmd.ops) /\ (ok \/ Cmd.keepGoing)
    THEN Goes("waiting", "call") /\ step' = step + 1 /\ UNCHANGED command
    ELSE Over("waiting")

Answered(line) ==
  /\ acks' = acks \cup {[id |-> nextId - 1, ok |-> line.ok, op |-> Cmd.ops[step], by |-> current]}
  /\ StepOver(line.ok)

Wait ==
  /\ ctl = "waiting"
  /\ \/ /\ Reads /\ TakeLine
        /\ LET line == Head(Blender.outbox) IN
             IF Mine(line) THEN Answered(line)
             ELSE /\ UNCHANGED acks
                  /\ IF late THEN DaemonError("waiting") ELSE UNCHANGED <<ctl, command, step>>
     \/ /\ EndOfFile /\ DaemonError("waiting")
        /\ UNCHANGED <<processes, acks>>
  /\ UNCHANGED <<script, current, nextId, late, lates, bounds>>

\* stop() lets go of the process: restart starts another, and an agent that hung up
\* leaves nothing behind.
Gone(here) ==
  IF HungUp THEN Goes(here, "halted") /\ current' = 0 /\ UNCHANGED <<command, step, late>>
  ELSE Over(here) /\ current' = 0 /\ UNCHANGED late

Killed == [processes EXCEPT ![current].alive = FALSE]

\* restart() is stop() and start().
LetGo(here, left) ==
  IF ~HungUp /\ Cmd.kind = "restart"
    THEN /\ Goes(here, "starting")
         /\ processes' = Append(left, Fresh) /\ current' = Len(left) + 1
         /\ late' = FALSE
         /\ UNCHANGED <<command, step>>
    ELSE Gone(here) /\ processes' = left

Stop ==
  /\ ctl = "stop"
  /\ \/ ~Running /\ LetGo("stop", processes)
     \/ /\ Running /\ Room
        /\ Put([id |-> 0, op |-> "__shutdown__"])
        /\ Goes("stop", "ending")
        /\ UNCHANGED <<command, step, current, late>>
  /\ UNCHANGED <<script, nextId, acks, lates, bounds>>

\* wait(timeout=15): the process ended, or it is killed.
End ==
  /\ ctl = "ending"
  /\ LetGo("ending", Killed)
  /\ UNCHANGED <<script, nextId, acks, lates, bounds>>

ClientStep == Serve \/ Ensure \/ Start \/ Send \/ Wait \/ Stop \/ End

\* A deadline passes while the client reads: 120 s for a start, the timeout of a call.
Expire ==
  /\ ctl \in {"starting", "waiting"}
  /\ ~late /\ late' = TRUE
  /\ lates < MaxLate /\ lates' = lates + 1
  /\ UNCHANGED <<script, command, step, ctl, processes, current, nextId, acks, bounds>>

-----------------------------------------------------------------------------
(* The daemon: one request at a time, in the order of its stdin.           *)

WithOut(i) == Len(processes[i].outbox) < OutRoom
Writes(i, line) == [processes[i] EXCEPT !.outbox = Append(@, line)]

Becomes(i, process) ==
  /\ processes' = [processes EXCEPT ![i] = process]
  /\ UNCHANGED <<script, command, step, ctl, current, nextId, late, acks, lates>>

Boot(i) ==
  /\ ~processes[i].ready
  /\ WithOut(i)
  /\ Becomes(i, [Writes(i, [kind |-> "ready"]) EXCEPT !.ready = TRUE])
  /\ UNCHANGED bounds

Take(i) ==
  /\ processes[i].ready
  /\ processes[i].busy = Idle
  /\ processes[i].inbox # <<>>
  /\ Becomes(i, [processes[i] EXCEPT
       !.inbox = Tail(@), !.busy = [state |-> "running", request |-> Head(processes[i].inbox)]])
  /\ UNCHANGED bounds

\* A mutant: an operation that fails takes the scene with it.
EffectOrNothing(scene, request, ok) ==
  IF ok /\ request.op # ResetOp THEN Append(scene, request.id) ELSE <<>>

\* An operation that raises leaves the scene as it was, as far as is told here.
Effect(scene, request, ok) ==
  CASE ~ok -> scene
    [] ok /\ request.op = ResetOp -> <<>>
    [] ok /\ request.op # ResetOp -> Append(scene, request.id)

\* dispatch: the operation succeeds or raises; whatever it raises is answered.
Dispatch(i) ==
  LET busy == processes[i].busy IN
  /\ busy.state = "running"
  /\ busy.request.op \in Ops
  /\ \E ok \in BOOLEAN :
       Becomes(i, [processes[i] EXCEPT
         !.scene = Effect(@, busy.request, ok),
         !.ran = @ \cup {[id |-> busy.request.id, ok |-> ok]},
         !.busy = [state |-> "answering", id |-> busy.request.id, ok |-> ok]])
  /\ UNCHANGED bounds

\* A write to a full pipe blocks until the client reads.
Answer(i) ==
  LET busy == processes[i].busy IN
  /\ busy.state = "answering"
  /\ WithOut(i)
  /\ Becomes(i, [Writes(i, [kind |-> "answer", id |-> busy.id, ok |-> busy.ok])
                   EXCEPT !.busy = Idle])
  /\ UNCHANGED bounds

\* The farewell is answered too, and then nobody is there.
ShutDown(i) ==
  LET busy == processes[i].busy IN
  /\ busy.state = "running"
  /\ busy.request.op = "__shutdown__"
  /\ WithOut(i)
  /\ Becomes(i, [Writes(i, [kind |-> "answer", id |-> 0, ok |-> TRUE]) EXCEPT !.alive = FALSE])
  /\ UNCHANGED bounds

DaemonStep(i) ==
  /\ processes[i].alive
  /\ Boot(i) \/ Take(i) \/ Dispatch(i) \/ Answer(i) \/ ShutDown(i)

\* Blender talks on the same stdout; a chatter line may hold what JSON cannot read.
Chatter(i) ==
  /\ processes[i].alive
  /\ WithOut(i)
  /\ chatters < MaxChatter
  /\ chatters' = chatters + 1
  /\ Becomes(i, Writes(i, [kind |-> "chatter"]))
  /\ UNCHANGED deaths

Die(i) ==
  /\ processes[i].alive
  /\ deaths < MaxDeaths
  /\ deaths' = deaths + 1
  /\ Becomes(i, [processes[i] EXCEPT !.alive = FALSE])
  /\ UNCHANGED chatters

Next ==
  \/ ClientStep \/ Expire
  \/ \E i \in DOMAIN processes : DaemonStep(i) \/ Chatter(i) \/ Die(i)

\* The client and Blender are processes the system schedules, and every operation
\* ends; nothing has to be late, to talk or to die.
Spec ==
  /\ Init
  /\ [][Next]_vars
  /\ WF_vars(ClientStep)
  /\ WF_vars(\E i \in DOMAIN processes : DaemonStep(i))

-----------------------------------------------------------------------------
TypeOK ==
  /\ script \in Scripts
  /\ command \in 1 .. Len(script) + 1
  /\ HungUp \/ Cmd.kind # "batch" \/ step \in DOMAIN Cmd.ops
  /\ ctl \in States
  /\ current \in 0 .. Len(processes)
  /\ nextId \in Nat \ {0} /\ late \in BOOLEAN
  /\ \A i \in DOMAIN processes :
       LET process == processes[i] IN
         /\ process.alive \in BOOLEAN /\ process.ready \in BOOLEAN
         /\ process.inbox \in Seq(Request) /\ Len(process.inbox) <= InRoom
         /\ process.outbox \in Seq(Line) /\ Len(process.outbox) <= OutRoom
         /\ process.scene \in Seq(1 .. nextId - 1)
         /\ process.busy.state \in {"idle", "running", "answering"}
  /\ acks \subseteq [id : 1 .. nextId - 1, ok : BOOLEAN, op : Ops, by : DOMAIN processes]
  /\ lates \in 0 .. MaxLate /\ deaths \in 0 .. MaxDeaths /\ chatters \in 0 .. MaxChatter

\* However starts time out, calls are given up and daemons die, there is never a
\* Blender that the client does not hold: none is leaked by a restart.
OneBlender == \A i \in DOMAIN processes : processes[i].alive => i = current

\* The answer a call returns is what the daemon did for this very request: an answer
\* that comes after its call was given up is not taken for a later one's.
AnswersMatch ==
  \A ack \in acks : [id |-> ack.id, ok |-> ack.ok] \in processes[ack.by].ran

\* Once a call has its answer, no earlier request can change the scene any more, the
\* ones that were given up on included.
NoGhosts ==
  \A ack \in acks :
    LET process == processes[ack.by]
        pending == {process.inbox[n] : n \in DOMAIN process.inbox}
                     \cup (IF process.busy.state = "running" THEN {process.busy.request} ELSE {})
    IN \A request \in pending : request.op \in Ops => request.id > ack.id

\* So a call that is over is over: its answer was its own, and nothing older is yet
\* to happen.
CallsAreSettled == AnswersMatch /\ NoGhosts

\* Operations build on each other: what a living daemon acknowledged is in its scene,
\* in the order of the calls, unless a reset was asked for since, and whatever failed
\* in between.
BuildsOnEachOther ==
  \A i \in DOMAIN processes :
    LET process == processes[i]
        resets == {n \in DOMAIN process.sent : process.sent[n].op = ResetOp}
    IN /\ \A n \in 1 .. Len(process.scene) - 1 : process.scene[n] < process.scene[n + 1]
       /\ \A ack \in {a \in acks : a.by = i /\ a.ok /\ a.op # ResetOp} :
            (\A n \in resets : process.sent[n].id < ack.id)
              => \E n \in DOMAIN process.scene : process.scene[n] = ack.id

\* Both pipes are full, and both sides write: nothing but the death of Blender ends this.
Wedged ==
  /\ ctl \in {"send", "stop"} /\ Running /\ ~Room
  /\ Len(Blender.outbox) = OutRoom
  /\ ~Blender.ready \/ Blender.busy.state = "answering"

\* Client and daemon wait for each other only when more deadlines were missed than
\* stdin holds lines, with as many calls on this daemon left unanswered.
WedgeNeedsTimeouts ==
  Wedged => /\ lates > InRoom
            /\ Len(Blender.sent) - Cardinality({ack \in acks : ack.by = current}) >= InRoom

\* Every command ends and the agent can hang up, provided that operations end, unless
\* the two wait for each other.
CommandsEnd == <>(ctl = "halted" \/ Wedged)
=============================================================================
