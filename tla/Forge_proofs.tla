---------------------------- MODULE Forge_proofs ----------------------------
(***************************************************************************)
(* What an agent may rely on in its session with Blender, and of the scene *)
(* that is built there: for any script of commands, pipes of any size and  *)
(* any number of deaths and missed deadlines, and for any names, labels    *)
(* and files.                                                              *)
(*                                                                         *)
(* A process works through its stdin in the order of the numbers (InOrder),*)
(* tells only what it did (TellsTrue), and its scene is what it did since  *)
(* the last reset (Keeps); the client knows which request it waits for     *)
(* (ClientIsAt), and what it was told of is with the process that said it  *)
(* (Acked).  That the two wait for each other takes more missed deadlines  *)
(* than stdin holds lines: what was sent, heard and missed is counted      *)
(* (Debt).                                                                 *)
(*                                                                         *)
(* A scene may be snapshot, saved and brought back when it is sound: no    *)
(* two objects of one name, and none that hangs from itself (Sound).       *)
(***************************************************************************)
EXTENDS ForgeDaemon, SceneOps, IntervalInduction, FiniteSetTheorems, SequenceTheorems

Busy == {Idle} \cup [state : {"running"}, request : Request]
               \cup [state : {"answering"}, id : Nat, ok : BOOLEAN]
Done == [id : Nat, ok : BOOLEAN]
Process == [alive : BOOLEAN, ready : BOOLEAN, inbox : Seq(Request), busy : Busy, outbox : Seq(Line),
            scene : Seq(Nat), ran : SUBSET Done, sent : Seq(Request)]

SentTo(p) == {p.sent[n] : n \in DOMAIN p.sent}

\* The operations are read and dispatched in the order of their numbers, each once.
InOrder(p) ==
  /\ \A m, n \in DOMAIN p.inbox :
       m < n /\ p.inbox[m].op \in Ops /\ p.inbox[n].op \in Ops => p.inbox[m].id < p.inbox[n].id
  /\ \A n \in DOMAIN p.inbox :
       p.inbox[n].op \in Ops =>
         /\ p.inbox[n] \in SentTo(p)
         /\ \A r \in p.ran : r.id < p.inbox[n].id
         /\ p.busy.state = "running" /\ p.busy.request.op \in Ops => p.busy.request.id < p.inbox[n].id
  /\ p.busy.state = "running" /\ p.busy.request.op \in Ops =>
       /\ p.busy.request \in SentTo(p)
       /\ \A r \in p.ran : r.id < p.busy.request.id

\* The numbers are those the client has given, no operation's twice.
Numbered(p, next) ==
  /\ \A n \in DOMAIN p.sent : p.sent[n].op \in Ops => p.sent[n].id \in 1 .. next - 1
  /\ \A m, n \in DOMAIN p.sent :
       p.sent[m].op \in Ops /\ p.sent[n].op \in Ops /\ p.sent[m].id = p.sent[n].id => p.sent[m] = p.sent[n]
  /\ \A r \in p.ran : r.id \in 1 .. next - 1

\* What is on its way to the client was done, but for the farewell.
TellsTrue(p) ==
  /\ \A n \in DOMAIN p.outbox :
       p.outbox[n].kind = "answer" /\ p.outbox[n].id # 0 => [id |-> p.outbox[n].id, ok |-> p.outbox[n].ok] \in p.ran
  /\ p.busy.state = "answering" => [id |-> p.busy.id, ok |-> p.busy.ok] \in p.ran

\* What was done since the last reset is in the scene, in its order.
Keeps(p) ==
  /\ \A n \in DOMAIN p.scene : \E r \in p.ran : r.id = p.scene[n]
  /\ \A n \in 1 .. Len(p.scene) - 1 : p.scene[n] < p.scene[n + 1]
  /\ \A q \in SentTo(p) :
       q.op = "build" /\ [id |-> q.id, ok |-> TRUE] \in p.ran
         /\ (\A n \in DOMAIN p.sent : p.sent[n].op = ResetOp => p.sent[n].id < q.id)
       => \E n \in DOMAIN p.scene : p.scene[n] = q.id

Fits(p) == Len(p.inbox) <= InRoom /\ Len(p.outbox) <= OutRoom

Well(p, next) == p \in Process /\ InOrder(p) /\ Numbered(p, next) /\ TellsTrue(p) /\ Keeps(p) /\ Fits(p)

\* A command that is being served has not been passed yet, and the request that is waited
\* for is the last that was numbered, with the process the client holds.
ClientIsAt ==
  /\ script \in Scripts /\ command \in 1 .. Len(script) + 1 /\ ctl \in States
  /\ current \in 0 .. Len(processes) /\ nextId \in Nat \ {0} /\ late \in BOOLEAN
  /\ ctl \in {"call", "starting", "send", "waiting"} => ~HungUp
  /\ ctl \in {"call", "send", "waiting"} => Cmd.kind = "batch"
  /\ ctl = "starting" => Cmd.kind \in {"batch", "restart"}
  /\ ctl \in {"idle", "call", "starting", "send", "waiting"} =>
       HungUp \/ Cmd.kind # "batch" \/ step \in DOMAIN Cmd.ops
  /\ ctl \in {"starting", "send", "waiting", "ending"} => current # 0
  /\ ctl = "waiting" => nextId > 1 /\ [id |-> nextId - 1, op |-> Cmd.ops[step]] \in SentTo(Blender)

Acked ==
  /\ acks \subseteq [id : Nat, ok : BOOLEAN, op : Ops, by : Nat]
  /\ \A ack \in acks :
       /\ ack.by \in DOMAIN processes
       /\ [id |-> ack.id, ok |-> ack.ok] \in processes[ack.by].ran
       /\ [id |-> ack.id, op |-> ack.op] \in SentTo(processes[ack.by])

Processes == processes \in Seq(Process) /\ \A i \in DOMAIN processes : Well(processes[i], nextId)

ForgeInv == ClientIsAt /\ Acked /\ Processes /\ OneBlender

-----------------------------------------------------------------------------
(* Sequences, requests and lines.                                          *)

LEMMA Pushed ==
  ASSUME NEW S, NEW s \in Seq(S), NEW x \in S
  PROVE  /\ Append(s, x) \in Seq(S) /\ Len(Append(s, x)) = Len(s) + 1 /\ Len(s) \in Nat
         /\ DOMAIN s = 1 .. Len(s) /\ DOMAIN Append(s, x) = 1 .. Len(s) + 1
         /\ \A i \in 1 .. Len(s) : Append(s, x)[i] = s[i]
         /\ Append(s, x)[Len(s) + 1] = x
OBVIOUS

LEMMA Rest ==
  ASSUME NEW S, NEW s \in Seq(S), s # <<>>
  PROVE  /\ Len(s) \in Nat \ {0} /\ Head(s) = s[1] /\ Head(s) \in S /\ 1 \in DOMAIN s
         /\ Tail(s) \in Seq(S) /\ Len(Tail(s)) = Len(s) - 1
         /\ DOMAIN s = 1 .. Len(s) /\ DOMAIN Tail(s) = 1 .. Len(s) - 1
         /\ \A i \in 1 .. Len(s) - 1 : Tail(s)[i] = s[i + 1]
OBVIOUS

LEMMA Replaced ==
  ASSUME NEW S, NEW s \in Seq(S), NEW i \in DOMAIN s, NEW x \in S
  PROVE  /\ [s EXCEPT ![i] = x] \in Seq(S) /\ Len([s EXCEPT ![i] = x]) = Len(s)
         /\ DOMAIN [s EXCEPT ![i] = x] = DOMAIN s /\ [s EXCEPT ![i] = x][i] = x
         /\ \A j \in DOMAIN s : j # i => [s EXCEPT ![i] = x][j] = s[j]
OBVIOUS

\* What a script may hold.
LEMMA CommandFacts ==
  ASSUME NEW s \in Scripts, NEW c \in 1 .. Len(s)
  PROVE  /\ s \in Seq(Command) /\ Len(s) \in Nat /\ s[c] \in Command
         /\ s[c].kind = "batch" => s[c].ops \in Seq(Ops) /\ 1 \in DOMAIN s[c].ops
<1>1. s \in Seq(Command) /\ (s[c].kind = "batch" => s[c].ops # <<>>)
  BY ForgeAssumption
<1>2. s[c] \in Command
  BY <1>1
<1>3. s[c].kind = "batch" => s[c].ops \in Seq(Ops)
  BY <1>2 DEF Command
<1>4. s[c].kind = "batch" => 1 \in DOMAIN s[c].ops
  BY <1>1, <1>3, Rest
<1> QED BY <1>1, <1>2, <1>3, <1>4

LEMMA Members ==
  /\ ResetOp \in Ops /\ "build" \in Ops /\ "__shutdown__" \notin Ops
  /\ \A op \in Ops : op = "build" \/ op = ResetOp
  /\ \A id \in Nat : \A op \in Ops \cup {"__shutdown__"} : [id |-> id, op |-> op] \in Request
  /\ [kind |-> "ready"] \in Line /\ [kind |-> "chatter"] \in Line
  /\ \A id \in Nat : \A ok \in BOOLEAN : [kind |-> "answer", id |-> id, ok |-> ok] \in Line
  /\ \A line \in Line : line.kind = "answer" => line.id \in Nat /\ line.ok \in BOOLEAN
  /\ \A busy \in Busy : /\ busy.state = "running" => busy.request \in Request
                        /\ busy.state = "answering" => busy.id \in Nat /\ busy.ok \in BOOLEAN
BY DEF ResetOp, Ops, Request, Line, Busy, Idle

\* A new process.
LEMMA FreshWell == \A next \in Nat \ {0} : Well(Fresh, next)
<1> TAKE next \in Nat \ {0}
<1>1. Fresh \in Process
  BY DEF Fresh, Process, Busy, Done
<1>2. InOrder(Fresh) /\ Numbered(Fresh, next) /\ TellsTrue(Fresh) /\ Keeps(Fresh)
  BY DEF Fresh, Idle, InOrder, Numbered, TellsTrue, Keeps, SentTo
<1>3. Fits(Fresh)
  BY ForgeAssumption DEF Fits, Fresh
<1> QED BY <1>1, <1>2, <1>3 DEF Well

\* A process that writes a line of what it did, or of nothing.
Wrote(p, q, line) ==
  /\ q.outbox = Append(p.outbox, line) /\ q.busy \in {p.busy, Idle}
  /\ q.inbox = p.inbox /\ q.scene = p.scene /\ q.ran = p.ran /\ q.sent = p.sent

Out(p, line) == [p EXCEPT !.outbox = Append(@, line)]

LEMMA WroteGives ==
  ASSUME NEW p \in Process, NEW line \in Line
  PROVE  LET q == Out(p, line) IN
         /\ q \in Process /\ Wrote(p, q, line) /\ q.alive = p.alive
         /\ LET r == [q EXCEPT !.ready = TRUE] IN r \in Process /\ Wrote(p, r, line) /\ r.alive = p.alive
         /\ LET r == [q EXCEPT !.alive = FALSE] IN r \in Process /\ Wrote(p, r, line) /\ r.alive = FALSE
         /\ LET r == [q EXCEPT !.busy = Idle] IN r \in Process /\ Wrote(p, r, line) /\ r.alive = p.alive
<1> DEFINE q == Out(p, line)
<1>1. Append(p.outbox, line) \in Seq(Line)
  BY Pushed DEF Process
<1> DEFINE longer == Append(p.outbox, line)
<1> HIDE DEF longer
<1>2. q = [p EXCEPT !.outbox = longer] /\ longer \in Seq(Line)
  BY <1>1 DEF Out, longer
<1>3. /\ q \in Process /\ q.outbox = longer /\ q.busy = p.busy /\ q.alive = p.alive
      /\ q.inbox = p.inbox /\ q.scene = p.scene /\ q.ran = p.ran /\ q.sent = p.sent
  BY <1>2 DEF Process
<1> HIDE DEF q
<1>4. LET r == [q EXCEPT !.ready = TRUE] IN
      /\ r \in Process /\ r.outbox = longer /\ r.busy = p.busy /\ r.alive = p.alive
      /\ r.inbox = p.inbox /\ r.scene = p.scene /\ r.ran = p.ran /\ r.sent = p.sent
  BY <1>3 DEF Process
<1>5. LET r == [q EXCEPT !.alive = FALSE] IN
      /\ r \in Process /\ r.outbox = longer /\ r.busy = p.busy /\ r.alive = FALSE
      /\ r.inbox = p.inbox /\ r.scene = p.scene /\ r.ran = p.ran /\ r.sent = p.sent
  BY <1>3 DEF Process
<1>6. LET r == [q EXCEPT !.busy = Idle] IN
      /\ r \in Process /\ r.outbox = longer /\ r.busy = Idle /\ r.alive = p.alive
      /\ r.inbox = p.inbox /\ r.scene = p.scene /\ r.ran = p.ran /\ r.sent = p.sent
  BY <1>3 DEF Process, Busy
<1> QED BY <1>3, <1>4, <1>5, <1>6 DEF Wrote, longer, q

LEMMA WritesWell ==
  ASSUME NEW next, NEW p, Well(p, next), Len(p.outbox) < OutRoom, NEW line \in Line,
         line.kind = "answer" /\ line.id # 0 => [id |-> line.id, ok |-> line.ok] \in p.ran,
         NEW q \in Process, Wrote(p, q, line)
  PROVE  Well(q, next)
<1>1. p \in Process /\ InOrder(p) /\ Numbered(p, next) /\ TellsTrue(p) /\ Keeps(p) /\ Fits(p)
  BY DEF Well
<1>2. /\ q.outbox = Append(p.outbox, line)
      /\ q.inbox = p.inbox /\ q.scene = p.scene /\ q.ran = p.ran /\ q.sent = p.sent
  BY DEF Wrote
<1>3. p.outbox \in Seq(Line) /\ p.busy \in Busy
  BY <1>1 DEF Process
<1>4. /\ q.outbox \in Seq(Line) /\ Len(q.outbox) = Len(p.outbox) + 1
      /\ DOMAIN p.outbox = 1 .. Len(p.outbox) /\ DOMAIN q.outbox = 1 .. Len(p.outbox) + 1
      /\ \A n \in 1 .. Len(p.outbox) : q.outbox[n] = p.outbox[n]
      /\ q.outbox[Len(p.outbox) + 1] = line /\ Len(p.outbox) \in Nat
  BY <1>2, <1>3, Pushed
<1>5. q.busy.state # "idle" => q.busy = p.busy
  BY DEF Idle, Wrote
<1>7. InOrder(q) /\ Numbered(q, next) /\ Keeps(q)
  BY <1>1, <1>2, <1>5 DEF InOrder, Numbered, Keeps, SentTo
<1>8. TellsTrue(q)
  <2>1. ASSUME NEW n \in DOMAIN q.outbox, q.outbox[n].kind = "answer" /\ q.outbox[n].id # 0
        PROVE  [id |-> q.outbox[n].id, ok |-> q.outbox[n].ok] \in q.ran
    <3>1. CASE n = Len(p.outbox) + 1
      BY <1>2, <1>4, <2>1, <3>1
    <3>2. CASE n # Len(p.outbox) + 1
      <4>1. n \in DOMAIN p.outbox /\ q.outbox[n] = p.outbox[n]
        BY <1>4, <3>2
      <4> QED BY <1>1, <1>2, <2>1, <4>1 DEF TellsTrue
    <3> QED BY <3>1, <3>2
  <2> QED BY <1>1, <1>2, <1>5, <2>1 DEF TellsTrue
<1>9. Fits(q)
  BY <1>1, <1>2, <1>4, ForgeAssumption DEF Fits
<1> QED BY <1>7, <1>8, <1>9 DEF Well

\* What is said of a process does not ask whether it lives.
Dead(p) == [p EXCEPT !.alive = FALSE]

LEMMA DeadWell ==
  ASSUME NEW next, NEW p, Well(p, next)
  PROVE  LET q == Dead(p) IN
         Well(q, next) /\ q.ran = p.ran /\ q.sent = p.sent /\ q.alive = FALSE
<1> DEFINE q == Dead(p)
<1>1. p \in Process
  BY DEF Well
<1>2. /\ q \in Process /\ q.alive = FALSE
      /\ q.outbox = p.outbox /\ q.busy = p.busy /\ q.inbox = p.inbox /\ q.scene = p.scene
      /\ q.ran = p.ran /\ q.sent = p.sent
  BY <1>1 DEF Process, Dead
<1> HIDE DEF q
<1>3. InOrder(q) /\ Numbered(q, next)
  BY <1>2 DEF Well, InOrder, Numbered, SentTo
<1>4. TellsTrue(q) /\ Fits(q)
  BY <1>2 DEF Well, TellsTrue, Fits
<1>5. Keeps(q)
  BY <1>2 DEF Well, Keeps, SentTo
<1> QED BY <1>2, <1>3, <1>4, <1>5 DEF Well, q

\* The client takes a line.
Read(p) == [p EXCEPT !.outbox = Tail(@)]

LEMMA ReadWell ==
  ASSUME NEW next, NEW p, Well(p, next), p.outbox # <<>>
  PROVE  LET q == Read(p) IN
         /\ Well(q, next) /\ q.ran = p.ran /\ q.sent = p.sent /\ q.alive = p.alive
         /\ Head(p.outbox) \in Line
         /\ Head(p.outbox).kind = "answer" /\ Head(p.outbox).id # 0
              => [id |-> Head(p.outbox).id, ok |-> Head(p.outbox).ok] \in p.ran
<1> DEFINE q == Read(p)
<1>1. p \in Process /\ p.outbox \in Seq(Line) /\ TellsTrue(p)
  BY DEF Well, Process
<1>2. /\ q.outbox = Tail(p.outbox) /\ q.busy = p.busy /\ q.inbox = p.inbox /\ q.scene = p.scene
      /\ q.ran = p.ran /\ q.sent = p.sent /\ q.alive = p.alive /\ q.ready = p.ready
  BY <1>1 DEF Process, Read
<1> HIDE DEF q
<1>3. /\ Len(p.outbox) \in Nat \ {0} /\ Head(p.outbox) = p.outbox[1] /\ Head(p.outbox) \in Line /\ 1 \in DOMAIN p.outbox
      /\ q.outbox \in Seq(Line) /\ Len(q.outbox) = Len(p.outbox) - 1
      /\ DOMAIN p.outbox = 1 .. Len(p.outbox) /\ DOMAIN q.outbox = 1 .. Len(p.outbox) - 1
      /\ \A n \in 1 .. Len(p.outbox) - 1 : q.outbox[n] = p.outbox[n + 1]
  BY <1>1, <1>2, Rest
<1>4. q \in Process
  BY <1>1, <1>2, <1>3 DEF Process, q, Read
<1>5. InOrder(q) /\ Numbered(q, next) /\ Keeps(q)
  BY <1>2 DEF Well, InOrder, Numbered, Keeps, SentTo
<1>6. ASSUME NEW n \in DOMAIN q.outbox PROVE n + 1 \in DOMAIN p.outbox /\ q.outbox[n] = p.outbox[n + 1]
  BY <1>3
<1>7. TellsTrue(q)
  BY <1>1, <1>2, <1>6 DEF TellsTrue
<1>8. Fits(q)
  BY <1>2, <1>3, ForgeAssumption DEF Well, Fits
<1> QED BY <1>1, <1>2, <1>3, <1>4, <1>5, <1>7, <1>8 DEF Well, TellsTrue, q

\* The daemon takes a request.
TakenUp(p) == [p EXCEPT !.inbox = Tail(@), !.busy = [state |-> "running", request |-> Head(p.inbox)]]

LEMMA TakesWell ==
  ASSUME NEW next, NEW p, Well(p, next), p.inbox # <<>>, p.busy = Idle
  PROVE  LET q == TakenUp(p) IN
         Well(q, next) /\ q.ran = p.ran /\ q.sent = p.sent /\ q.alive = p.alive
<1> DEFINE q == TakenUp(p)
<1>1. p \in Process /\ p.inbox \in Seq(Request) /\ InOrder(p)
  BY DEF Well, Process
<1>2. /\ q.inbox = Tail(p.inbox) /\ q.busy = [state |-> "running", request |-> Head(p.inbox)]
      /\ q.outbox = p.outbox /\ q.scene = p.scene
      /\ q.ran = p.ran /\ q.sent = p.sent /\ q.alive = p.alive /\ q.ready = p.ready
  BY <1>1 DEF Process, TakenUp
<1> HIDE DEF q
<1>3. /\ Len(p.inbox) \in Nat \ {0} /\ Head(p.inbox) = p.inbox[1] /\ Head(p.inbox) \in Request /\ 1 \in DOMAIN p.inbox
      /\ q.inbox \in Seq(Request) /\ Len(q.inbox) = Len(p.inbox) - 1
      /\ DOMAIN p.inbox = 1 .. Len(p.inbox) /\ DOMAIN q.inbox = 1 .. Len(p.inbox) - 1
      /\ \A n \in 1 .. Len(p.inbox) - 1 : q.inbox[n] = p.inbox[n + 1]
  BY <1>1, <1>2, Rest
<1>4. q \in Process
  <2>1. q.busy \in Busy
    BY <1>2, <1>3 DEF Busy
  <2> QED BY <1>1, <1>2, <1>3, <2>1 DEF Process, q, TakenUp
<1>5. ASSUME NEW n \in DOMAIN q.inbox PROVE n + 1 \in DOMAIN p.inbox /\ q.inbox[n] = p.inbox[n + 1] /\ 1 < n + 1 /\ n \in Nat
  BY <1>3, SMTT(30), ZenonT(30)
<1>6. q.busy.state = "running" /\ q.busy.request = p.inbox[1]
  BY <1>2, <1>3
<1>7. InOrder(q)
  <2>1. ASSUME NEW m \in DOMAIN q.inbox, NEW n \in DOMAIN q.inbox, m < n, q.inbox[m].op \in Ops, q.inbox[n].op \in Ops
        PROVE  q.inbox[m].id < q.inbox[n].id
    <3>1. m + 1 < n + 1
      BY <1>5, <2>1
    <3> QED BY <1>1, <1>5, <2>1, <3>1 DEF InOrder
  <2>2. ASSUME NEW n \in DOMAIN q.inbox, q.inbox[n].op \in Ops
        PROVE  /\ q.inbox[n] \in SentTo(q)
               /\ \A r \in q.ran : r.id < q.inbox[n].id
               /\ q.busy.request.op \in Ops => q.busy.request.id < q.inbox[n].id
    <3>1. q.inbox[n] = p.inbox[n + 1] /\ n + 1 \in DOMAIN p.inbox /\ 1 \in DOMAIN p.inbox /\ 1 < n + 1
      BY <1>3, <1>5, <2>2
    <3>2. q.inbox[n] \in SentTo(p) /\ \A r \in p.ran : r.id < q.inbox[n].id
      BY <1>1, <2>2, <3>1 DEF InOrder
    <3>3. p.inbox[1].op \in Ops => p.inbox[1].id < q.inbox[n].id
      BY <1>1, <2>2, <3>1 DEF InOrder
    <3>4. SentTo(q) = SentTo(p) /\ q.ran = p.ran
      BY <1>2 DEF SentTo
    <3> QED BY <1>6, <3>2, <3>3, <3>4
  <2>3. q.busy.request.op \in Ops => q.busy.request \in SentTo(q) /\ \A r \in q.ran : r.id < q.busy.request.id
    BY <1>1, <1>2, <1>3, <1>6 DEF InOrder, SentTo
  <2> QED BY <2>1, <2>2, <2>3 DEF InOrder
<1>8. Numbered(q, next) /\ Keeps(q) /\ TellsTrue(q)
  BY <1>2, SMTT(30), ZenonT(30) DEF Well, Numbered, Keeps, TellsTrue, SentTo
<1>9. Fits(q)
  BY <1>2, <1>3, ForgeAssumption DEF Well, Fits
<1> QED BY <1>2, <1>4, <1>7, <1>8, <1>9 DEF Well, q

\* The daemon does what it was asked for, or fails at it.
Did(p, ok) ==
  [p EXCEPT !.scene = Effect(@, p.busy.request, ok),
            !.ran = @ \cup {[id |-> p.busy.request.id, ok |-> ok]},
            !.busy = [state |-> "answering", id |-> p.busy.request.id, ok |-> ok]]

LEMMA DispatchWell ==
  ASSUME NEW next, NEW p, Well(p, next), p.busy.state = "running", p.busy.request.op \in Ops, NEW ok \in BOOLEAN
  PROVE  LET q == Did(p, ok) IN
         Well(q, next) /\ p.ran \subseteq q.ran /\ q.sent = p.sent /\ q.alive = p.alive
<1> DEFINE q == Did(p, ok)
<1> DEFINE request == p.busy.request
           done == [id |-> request.id, ok |-> ok]
<1>1. p \in Process /\ p.busy \in Busy /\ InOrder(p) /\ Numbered(p, next) /\ TellsTrue(p) /\ Keeps(p)
  BY DEF Well, Process
<1>2. request \in Request /\ request.id \in Nat /\ done \in Done
  BY <1>1, Members DEF Request, Done
<1>3. /\ q.scene = Effect(p.scene, request, ok) /\ q.ran = p.ran \cup {done}
      /\ q.busy = [state |-> "answering", id |-> request.id, ok |-> ok]
      /\ q.inbox = p.inbox /\ q.outbox = p.outbox
      /\ q.sent = p.sent /\ q.alive = p.alive /\ q.ready = p.ready
  BY <1>1 DEF Process, Did
<1> HIDE DEF q
<1>4. request \in SentTo(p) /\ \A r \in p.ran : r.id < request.id
  BY <1>1 DEF InOrder
<1>5. p.scene \in Seq(Nat) /\ Len(p.scene) \in Nat
  BY <1>1 DEF Process
<1>6. p.ran \in SUBSET Done
  BY <1>1 DEF Process
<1> HIDE DEF request, done
<1>7. \/ ~ok /\ q.scene = p.scene
      \/ ok /\ request.op = ResetOp /\ q.scene = <<>>
      \/ ok /\ request.op = "build" /\ q.scene = Append(p.scene, request.id)
  <2>1. request.op \in Ops
    BY DEF request
  <2>2. request.op = "build" \/ request.op = ResetOp
    BY <2>1, Members
  <2> QED BY <1>3, <2>2 DEF Effect, ResetOp
<1>16. LET s == Append(p.scene, request.id) IN
       /\ s \in Seq(Nat) /\ Len(s) = Len(p.scene) + 1
       /\ DOMAIN p.scene = 1 .. Len(p.scene) /\ DOMAIN s = 1 .. Len(p.scene) + 1
       /\ \A n \in 1 .. Len(p.scene) : s[n] = p.scene[n]
       /\ s[Len(p.scene) + 1] = request.id
  BY <1>2, <1>5, Pushed
<1>8. q.scene \in Seq(Nat)
  <2>1. q.scene = Append(p.scene, request.id) => q.scene \in Seq(Nat)
    BY <1>16
  <2>2. <<>> \in Seq(Nat) /\ p.scene \in Seq(Nat)
    BY <1>5
  <2> QED BY <1>7, <2>1, <2>2, Zenon
<1>9. q \in Process
  <2>1. q.busy \in Busy
    BY <1>2, <1>3 DEF Busy
  <2> QED BY <1>1, <1>2, <1>3, <1>6, <1>8, <2>1 DEF Process, q, Did, request, done
<1>10. InOrder(q)
  <2>1. ASSUME NEW n \in DOMAIN q.inbox, q.inbox[n].op \in Ops
        PROVE  q.inbox[n] \in SentTo(q) /\ \A r \in q.ran : r.id < q.inbox[n].id
    BY <1>1, <1>3, <2>1 DEF InOrder, SentTo, request, done
  <2>2. \A m, n \in DOMAIN q.inbox :
          m < n /\ q.inbox[m].op \in Ops /\ q.inbox[n].op \in Ops => q.inbox[m].id < q.inbox[n].id
    BY <1>1, <1>3 DEF InOrder
  <2>3. q.busy.state # "running"
    BY <1>3
  <2> QED BY <2>1, <2>2, <2>3 DEF InOrder
<1>11. request.id \in 1 .. next - 1
  BY <1>1, <1>4 DEF Numbered, SentTo, request
<1>12. Numbered(q, next)
  BY <1>1, <1>3, <1>11 DEF Numbered, done
<1>13. TellsTrue(q)
  BY <1>1, <1>3 DEF TellsTrue, done
<1>14. Keeps(q)
  <2>1. \A n \in DOMAIN q.scene : \E r \in q.ran : r.id = q.scene[n]
    <3>1. CASE q.scene = p.scene
      BY <1>1, <1>3, <3>1 DEF Keeps
    <3>2. CASE q.scene = <<>>
      BY <3>2
    <3>3. CASE q.scene = Append(p.scene, request.id)
      <4>1. done \in q.ran /\ done.id = request.id
        BY <1>3 DEF done
      <4>2. ASSUME NEW n \in DOMAIN q.scene PROVE \/ n \in DOMAIN p.scene /\ q.scene[n] = p.scene[n]
                                                  \/ q.scene[n] = request.id
        BY <1>5, <1>16, <3>3
      <4> QED BY <1>1, <1>3, <4>1, <4>2 DEF Keeps
    <3> QED BY <1>7, <3>1, <3>2, <3>3
  <2>2. \A n \in 1 .. Len(q.scene) - 1 : q.scene[n] < q.scene[n + 1]
    <3>1. CASE q.scene = p.scene
      BY <1>1, <3>1 DEF Keeps
    <3>2. CASE q.scene = <<>>
      BY <3>2
    <3>3. CASE q.scene = Append(p.scene, request.id)
      <4>1. /\ Len(q.scene) = Len(p.scene) + 1 /\ DOMAIN p.scene = 1 .. Len(p.scene)
            /\ \A i \in 1 .. Len(p.scene) : q.scene[i] = p.scene[i]
            /\ q.scene[Len(p.scene) + 1] = request.id
        BY <1>16, <3>3
      <4>2. ASSUME NEW n \in 1 .. Len(q.scene) - 1 PROVE q.scene[n] < q.scene[n + 1]
        <5>1. CASE n = Len(p.scene)
          <6>1. n \in DOMAIN p.scene /\ q.scene[n] = p.scene[n] /\ q.scene[n + 1] = request.id
            BY <1>5, <4>1, <4>2, <5>1
          <6> QED BY <1>1, <1>4, <6>1 DEF Keeps
        <5>2. CASE n # Len(p.scene)
          <6>1. n \in Nat /\ 1 <= n /\ n < Len(p.scene)
            BY <1>5, <4>1, <4>2, <5>2
          <6>2. n \in 1 .. Len(p.scene) - 1 /\ n \in 1 .. Len(p.scene) /\ n + 1 \in 1 .. Len(p.scene)
            BY <1>5, <6>1
          <6>3. q.scene[n] = p.scene[n] /\ q.scene[n + 1] = p.scene[n + 1]
            BY <4>1, <6>2
          <6> QED BY <1>1, <6>2, <6>3 DEF Keeps
        <5> QED BY <5>1, <5>2
      <4> QED BY <4>2
    <3> QED BY <1>7, <3>1, <3>2, <3>3
  <2>3. ASSUME NEW a \in SentTo(q), a.op = "build", [id |-> a.id, ok |-> TRUE] \in q.ran,
               \A n \in DOMAIN q.sent : q.sent[n].op = ResetOp => q.sent[n].id < a.id
        PROVE  \E n \in DOMAIN q.scene : q.scene[n] = a.id
    <3>0. a \in SentTo(p)
      BY <1>3, <2>3 DEF SentTo
    <3>1. CASE [id |-> a.id, ok |-> TRUE] \in p.ran
      <4>1. PICK n \in DOMAIN p.scene : p.scene[n] = a.id
        BY <1>1, <1>3, <2>3, <3>0, <3>1 DEF Keeps
      <4>3. a.id < request.id
        BY <1>4, <3>1
      <4>4. ~(ok /\ request.op = ResetOp)
        <5>1. request.op = ResetOp => request.id < a.id
          BY <1>3, <1>4, <2>3 DEF SentTo
        <5>2. a.id \in Nat
          BY <1>5, <4>1
        <5> QED BY <1>2, <4>3, <5>1, <5>2
      <4>5. q.scene = p.scene \/ q.scene = Append(p.scene, request.id)
        BY <1>7, <4>4
      <4>6. n \in DOMAIN q.scene /\ q.scene[n] = p.scene[n]
        BY <1>16, <4>5
      <4> QED BY <4>1, <4>6
    <3>2. CASE [id |-> a.id, ok |-> TRUE] \notin p.ran
      <4>1. a.id = request.id /\ ok
        BY <1>3, <2>3, <3>2 DEF done
      <4>2. a = request
        <5>1. request.op \in Ops /\ a.op \in Ops
          BY <2>3, Members DEF request
        <5> QED BY <1>1, <1>4, <3>0, <4>1, <5>1 DEF Numbered, SentTo
      <4>3. q.scene = Append(p.scene, request.id)
        BY <1>7, <2>3, <4>1, <4>2 DEF ResetOp
      <4>4. Len(p.scene) + 1 \in 1 .. Len(p.scene) + 1
        BY <1>5
      <4>5. Len(p.scene) + 1 \in DOMAIN q.scene /\ q.scene[Len(p.scene) + 1] = a.id
        BY <1>16, <4>1, <4>3, <4>4
      <4> QED BY <4>5
    <3> QED BY <3>1, <3>2
  <2> QED BY <2>1, <2>2, <2>3 DEF Keeps
<1>15. Fits(q)
  BY <1>3 DEF Well, Fits
<1> QED BY <1>3, <1>9, <1>10, <1>12, <1>13, <1>14, <1>15 DEF Well, q

\* The client writes a request, the farewell or an operation with a new number.
Requested(p, request) == [p EXCEPT !.inbox = Append(@, request), !.sent = Append(@, request)]

LEMMA PutWell ==
  ASSUME NEW next \in Nat, NEW p, Well(p, next), Len(p.inbox) < InRoom, NEW request \in Request,
         request.op \in Ops => request.id = next /\ next > 0
  PROVE  LET q == Requested(p, request) IN
         /\ Well(q, next + 1) /\ (request.op \notin Ops => Well(q, next))
         /\ q.ran = p.ran /\ q.alive = p.alive /\ SentTo(p) \subseteq SentTo(q) /\ request \in SentTo(q)
<1> DEFINE q == Requested(p, request)
<1>1. p \in Process /\ InOrder(p) /\ Numbered(p, next) /\ TellsTrue(p) /\ Keeps(p) /\ Fits(p)
  BY DEF Well
<1>2. /\ q.inbox = Append(p.inbox, request) /\ q.sent = Append(p.sent, request)
      /\ q.outbox = p.outbox /\ q.scene = p.scene /\ q.busy = p.busy
      /\ q.ran = p.ran /\ q.alive = p.alive /\ q.ready = p.ready
  BY <1>1 DEF Process, Requested
<1> HIDE DEF q
<1>3. p.inbox \in Seq(Request) /\ p.sent \in Seq(Request)
  BY <1>1 DEF Process
<1>4. /\ q.inbox \in Seq(Request) /\ Len(q.inbox) = Len(p.inbox) + 1 /\ Len(p.inbox) \in Nat
      /\ DOMAIN p.inbox = 1 .. Len(p.inbox) /\ DOMAIN q.inbox = 1 .. Len(p.inbox) + 1
      /\ \A n \in 1 .. Len(p.inbox) : q.inbox[n] = p.inbox[n]
      /\ q.inbox[Len(p.inbox) + 1] = request
  BY <1>2, <1>3, Pushed
<1>5. /\ q.sent \in Seq(Request) /\ Len(q.sent) = Len(p.sent) + 1 /\ Len(p.sent) \in Nat
      /\ DOMAIN p.sent = 1 .. Len(p.sent) /\ DOMAIN q.sent = 1 .. Len(p.sent) + 1
      /\ \A n \in 1 .. Len(p.sent) : q.sent[n] = p.sent[n]
      /\ q.sent[Len(p.sent) + 1] = request
  BY <1>2, <1>3, Pushed
<1>6. q \in Process
  BY <1>1, <1>2, <1>4, <1>5 DEF Process, q, Requested
<1>7. ASSUME NEW n \in DOMAIN q.inbox
      PROVE  \/ n \in DOMAIN p.inbox /\ q.inbox[n] = p.inbox[n]
             \/ n = Len(p.inbox) + 1 /\ q.inbox[n] = request
  BY <1>4
<1>8. ASSUME NEW n \in DOMAIN q.sent
      PROVE  \/ n \in DOMAIN p.sent /\ q.sent[n] = p.sent[n]
             \/ n = Len(p.sent) + 1 /\ q.sent[n] = request
  BY <1>5
<1>9. SentTo(p) \subseteq SentTo(q) /\ request \in SentTo(q)
  <2>1. Len(p.sent) + 1 \in DOMAIN q.sent
    BY <1>5
  <2>2. ASSUME NEW n \in DOMAIN p.sent PROVE n \in DOMAIN q.sent /\ q.sent[n] = p.sent[n]
    BY <1>5
  <2> QED BY <1>5, <2>1, <2>2 DEF SentTo
<1>10. ASSUME NEW a \in SentTo(q) PROVE a \in SentTo(p) \/ a = request
  BY <1>8 DEF SentTo
<1>11. /\ \A a \in SentTo(p) : a.op \in Ops => a.id \in Nat /\ a.id < next
       /\ \A r \in p.ran : r.id \in Nat /\ r.id < next
  BY <1>1 DEF Numbered, SentTo
<1>12. InOrder(q)
  <2>1. ASSUME NEW m \in DOMAIN q.inbox, NEW n \in DOMAIN q.inbox, m < n, q.inbox[m].op \in Ops, q.inbox[n].op \in Ops
        PROVE  q.inbox[m].id < q.inbox[n].id
    <3>1. m \in DOMAIN p.inbox /\ q.inbox[m] = p.inbox[m]
      BY <1>4, <2>1
    <3>2. CASE n \in DOMAIN p.inbox /\ q.inbox[n] = p.inbox[n]
      BY <1>1, <2>1, <3>1, <3>2 DEF InOrder
    <3>3. CASE q.inbox[n] = request
      <4>1. p.inbox[m] \in SentTo(p)
        BY <1>1, <2>1, <3>1 DEF InOrder
      <4> QED BY <1>11, <2>1, <3>1, <3>3, <4>1
    <3> QED BY <1>7, <3>2, <3>3
  <2>2. ASSUME NEW n \in DOMAIN q.inbox, q.inbox[n].op \in Ops
        PROVE  /\ q.inbox[n] \in SentTo(q)
               /\ \A r \in q.ran : r.id < q.inbox[n].id
               /\ q.busy.state = "running" /\ q.busy.request.op \in Ops => q.busy.request.id < q.inbox[n].id
    <3>1. CASE n \in DOMAIN p.inbox /\ q.inbox[n] = p.inbox[n]
      BY <1>1, <1>2, <1>9, <2>2, <3>1 DEF InOrder
    <3>2. CASE q.inbox[n] = request
      BY <1>1, <1>2, <1>9, <1>11, <2>2, <3>2 DEF InOrder
    <3> QED BY <1>7, <3>1, <3>2
  <2>3. q.busy.state = "running" /\ q.busy.request.op \in Ops =>
          q.busy.request \in SentTo(q) /\ \A r \in q.ran : r.id < q.busy.request.id
    BY <1>1, <1>2, <1>9 DEF InOrder
  <2> QED BY <2>1, <2>2, <2>3 DEF InOrder
<1>13. Numbered(q, next + 1) /\ (request.op \notin Ops => Numbered(q, next))
  <2>1. ASSUME NEW n \in DOMAIN q.sent, q.sent[n].op \in Ops
        PROVE  q.sent[n].id \in 1 .. next /\ (request.op \notin Ops => q.sent[n].id \in 1 .. next - 1)
    BY <1>1, <1>8, <2>1 DEF Numbered
  <2>2. ASSUME NEW m \in DOMAIN q.sent, NEW n \in DOMAIN q.sent, q.sent[m].op \in Ops, q.sent[n].op \in Ops,
               q.sent[m].id = q.sent[n].id
        PROVE  q.sent[m] = q.sent[n]
    <3>1. CASE m \in DOMAIN p.sent /\ q.sent[m] = p.sent[m] /\ n \in DOMAIN p.sent /\ q.sent[n] = p.sent[n]
      BY <1>1, <2>2, <3>1 DEF Numbered
    <3>2. CASE q.sent[m] = request /\ q.sent[n] = request
      BY <3>2
    <3>3. CASE m \in DOMAIN p.sent /\ q.sent[m] = p.sent[m] /\ q.sent[n] = request
      <4>1. q.sent[m] \in SentTo(p)
        BY <3>3 DEF SentTo
      <4> QED BY <1>11, <2>2, <3>3, <4>1
    <3>4. CASE n \in DOMAIN p.sent /\ q.sent[n] = p.sent[n] /\ q.sent[m] = request
      <4>1. q.sent[n] \in SentTo(p)
        BY <3>4 DEF SentTo
      <4> QED BY <1>11, <2>2, <3>4, <4>1
    <3> QED BY <1>8, <3>1, <3>2, <3>3, <3>4
  <2>3. \A r \in q.ran : r.id \in 1 .. next - 1 /\ r.id \in 1 .. next
    BY <1>1, <1>2 DEF Numbered
  <2>4. (next + 1) - 1 = next
    OBVIOUS
  <2> QED BY <2>1, <2>2, <2>3, <2>4 DEF Numbered
<1>14. TellsTrue(q) /\ Fits(q)
  BY <1>1, <1>2, <1>4, ForgeAssumption DEF TellsTrue, Fits
<1>15. Keeps(q)
  <2>1. ASSUME NEW a \in SentTo(q), a.op = "build", [id |-> a.id, ok |-> TRUE] \in q.ran,
               \A n \in DOMAIN q.sent : q.sent[n].op = ResetOp => q.sent[n].id < a.id
        PROVE  \E n \in DOMAIN q.scene : q.scene[n] = a.id
    <3>1. a \in SentTo(p)
      <4>1. a # request
        <5>1. a.id < next /\ next \in Nat
          BY <1>2, <1>11, <2>1
        <5>2. a.op \in Ops
          BY <2>1, Members
        <5> QED BY <5>1, <5>2
      <4> QED BY <1>10, <4>1
    <3>2. \A n \in DOMAIN p.sent : p.sent[n].op = ResetOp => p.sent[n].id < a.id
      BY <1>5, <2>1, SMTT(30), ZenonT(30)
    <3> QED BY <1>1, <1>2, <2>1, <3>1, <3>2 DEF Keeps
  <2> QED BY <1>1, <1>2, <2>1 DEF Keeps
<1> QED BY <1>2, <1>6, <1>9, <1>12, <1>13, <1>14, <1>15 DEF Well, q

\* A number more is given.
LEMMA LaterWell ==
  ASSUME NEW next \in Nat, NEW p, Well(p, next) PROVE Well(p, next + 1)
<1>1. Numbered(p, next + 1)
  <2>1. \A k \in 1 .. next - 1 : k \in 1 .. (next + 1) - 1
    OBVIOUS
  <2> QED BY <2>1 DEF Well, Numbered
<1> QED BY <1>1 DEF Well

-----------------------------------------------------------------------------
(* Steps.                                                                  *)

\* The processes are all there, each well for the numbers given, none with less behind it.
Grown(left, next) ==
  /\ left \in Seq(Process) /\ Len(processes) <= Len(left)
  /\ \A i \in DOMAIN left : Well(left[i], next)
  /\ \A i \in DOMAIN processes :
       processes[i].ran \subseteq left[i].ran /\ SentTo(processes[i]) \subseteq SentTo(left[i])

LEMMA GrownKeeps ==
  ASSUME Processes, Acked, Grown(processes', nextId'), acks' = acks
  PROVE  Processes' /\ Acked'
<1>1. Processes'
  BY DEF Grown, Processes
<1>2. \A i \in DOMAIN processes : i \in DOMAIN processes'
  BY DEF Processes, Grown
<1>3. Acked'
  BY <1>2 DEF Acked, Grown
<1> QED BY <1>1, <1>3

\* One process makes a step.
LEMMA OneGrows ==
  ASSUME Processes, NEW next \in {nextId, nextId + 1}, nextId \in Nat, NEW i \in DOMAIN processes, NEW q, Well(q, next),
         processes[i].ran \subseteq q.ran, SentTo(processes[i]) \subseteq SentTo(q)
  PROVE  /\ Grown([processes EXCEPT ![i] = q], next)
         /\ DOMAIN [processes EXCEPT ![i] = q] = DOMAIN processes
         /\ Len([processes EXCEPT ![i] = q]) = Len(processes)
         /\ [processes EXCEPT ![i] = q][i] = q
         /\ \A j \in DOMAIN processes : j # i => [processes EXCEPT ![i] = q][j] = processes[j]
<1>1. q \in Process /\ processes \in Seq(Process) /\ Len(processes) \in Nat
  BY DEF Well, Processes
<1> DEFINE left == [processes EXCEPT ![i] = q]
<1>2. /\ left \in Seq(Process) /\ Len(left) = Len(processes)
      /\ DOMAIN left = DOMAIN processes /\ left[i] = q
      /\ \A j \in DOMAIN processes : j # i => left[j] = processes[j]
  BY <1>1, Replaced
<1> HIDE DEF left
<1>3. ASSUME NEW j \in DOMAIN processes
      PROVE  /\ Well(left[j], next)
             /\ processes[j].ran \subseteq left[j].ran /\ SentTo(processes[j]) \subseteq SentTo(left[j])
  <2>1. CASE j = i
    BY <1>2, <2>1
  <2>2. CASE j # i
    <3>1. left[j] = processes[j] /\ Well(processes[j], nextId)
      BY <1>2, <2>2 DEF Processes
    <3>2. Well(processes[j], next)
      BY <3>1, LaterWell
    <3> QED BY <3>1, <3>2
  <2> QED BY <2>1, <2>2
<1>4. Grown(left, next)
  BY <1>1, <1>2, <1>3 DEF Grown
<1> QED BY <1>2, <1>4 DEF left

\* All of them stay, and a number more may be given.
LEMMA NoneGrows ==
  ASSUME Processes, NEW next \in {nextId, nextId + 1}, nextId \in Nat
  PROVE  Grown(processes, next)
<1>1. processes \in Seq(Process) /\ Len(processes) \in Nat
  BY DEF Processes
<1>2. ASSUME NEW j \in DOMAIN processes PROVE Well(processes[j], next)
  BY LaterWell DEF Processes
<1> QED BY <1>1, <1>2 DEF Grown

\* Another Blender is started when none is alive.
LEMMA AnotherStarts ==
  ASSUME NEW left, Grown(left, nextId), nextId \in Nat \ {0}, \A i \in DOMAIN left : ~left[i].alive, Len(processes) \in Nat,
         processes \in Seq(Process), processes' = Append(left, Fresh), current' = Len(left) + 1, nextId' = nextId
  PROVE  /\ Grown(processes', nextId') /\ OneBlender' /\ current' # 0 /\ current' \in 0 .. Len(processes')
<1>1. left \in Seq(Process) /\ Fresh \in Process /\ Well(Fresh, nextId)
  BY FreshWell DEF Grown, Well
<1>2. /\ processes' \in Seq(Process) /\ Len(processes') = Len(left) + 1 /\ Len(left) \in Nat
      /\ DOMAIN left = 1 .. Len(left) /\ DOMAIN processes' = 1 .. Len(left) + 1
      /\ \A i \in 1 .. Len(left) : processes'[i] = left[i]
      /\ processes'[Len(left) + 1] = Fresh
  BY <1>1, Pushed
<1>3. ASSUME NEW i \in DOMAIN processes'
      PROVE  (i \in DOMAIN left /\ processes'[i] = left[i]) \/ (i = current' /\ processes'[i] = Fresh)
  BY <1>2
<1>4. DOMAIN processes = 1 .. Len(processes) /\ Len(processes) <= Len(left)
  BY DEF Grown
<1>5. \A i \in DOMAIN processes : i \in 1 .. Len(left)
  BY <1>2, <1>4
<1>6. Grown(processes', nextId')
  <2>1. Len(processes) <= Len(processes')
    BY <1>2, <1>4
  <2>2. \A i \in DOMAIN processes' : Well(processes'[i], nextId)
    BY <1>1, <1>3 DEF Grown
  <2>3. \A i \in DOMAIN processes :
          processes[i].ran \subseteq processes'[i].ran /\ SentTo(processes[i]) \subseteq SentTo(processes'[i])
    BY <1>2, <1>5 DEF Grown
  <2> QED BY <1>2, <2>1, <2>2, <2>3 DEF Grown
<1>7. OneBlender'
  BY <1>3 DEF OneBlender
<1> QED BY <1>2, <1>6, <1>7

\* The next command.
LEMMA OverKeeps ==
  ASSUME ClientIsAt, ~HungUp, NEW here, Over(here), UNCHANGED script,
         current' \in 0 .. Len(processes'), nextId' \in Nat \ {0}, late' \in BOOLEAN
  PROVE  ClientIsAt'
<1>1. command \in 1 .. Len(script) /\ script \in Scripts /\ Len(script) \in Nat
  BY ForgeAssumption DEF ClientIsAt, HungUp
<1>2. command' \in 1 .. Len(script') + 1 /\ ctl' = "idle" /\ ctl' \in States /\ step' = 1
  BY <1>1 DEF Over, Goes, States
<1>3. HungUp' \/ Cmd'.kind # "batch" \/ step' \in DOMAIN Cmd'.ops
  <2>1. CASE command' \in 1 .. Len(script')
    BY <1>1, <1>2, <2>1, CommandFacts DEF Cmd
  <2>2. CASE command' \notin 1 .. Len(script')
    BY <1>1, <1>2, <2>2 DEF HungUp
  <2> QED BY <2>1, <2>2
<1> QED BY <1>1, <1>2, <1>3 DEF ClientIsAt

\* A step of one process that neither the client nor the agent takes part in.
LEMMA BecomesKeeps ==
  ASSUME ForgeInv, NEW i \in DOMAIN processes, NEW q, Becomes(i, q), Well(q, nextId),
         processes[i].ran \subseteq q.ran, q.sent = processes[i].sent, q.alive => processes[i].alive
  PROVE  ForgeInv'
<1>1. /\ processes' = [processes EXCEPT ![i] = q]
      /\ UNCHANGED <<script, command, step, ctl, current, nextId, late, acks, lates>>
  BY DEF Becomes
<1>2. ClientIsAt /\ Acked /\ Processes /\ OneBlender /\ nextId \in Nat
  BY DEF ForgeInv, ClientIsAt
<1>3. SentTo(processes[i]) \subseteq SentTo(q)
  BY DEF SentTo
<1>4. /\ Grown(processes', nextId') /\ DOMAIN processes' = DOMAIN processes /\ Len(processes') = Len(processes)
      /\ processes'[i] = q
      /\ \A j \in DOMAIN processes : j # i => processes'[j] = processes[j]
  BY <1>1, <1>2, <1>3, OneGrows
<1>5. Processes' /\ Acked'
  BY <1>1, <1>2, <1>4, GrownKeeps
<1>6. OneBlender'
  BY <1>1, <1>2, <1>4 DEF OneBlender
<1>7. ClientIsAt'
  <2>1. ctl = "waiting" => SentTo(Blender) \subseteq SentTo(Blender')
    <3>1. ctl = "waiting" => current \in DOMAIN processes
      BY <1>2 DEF ClientIsAt, Processes
    <3> QED BY <1>1, <1>4, <3>1 DEF Grown, Blender
  <2> QED BY <1>1, <1>2, <1>4, <2>1 DEF ClientIsAt, HungUp, Cmd
<1> QED BY <1>5, <1>6, <1>7 DEF ForgeInv

LEMMA DaemonSteps ==
  ASSUME ForgeInv, NEW i \in DOMAIN processes, DaemonStep(i) \/ Chatter(i) \/ Die(i)
  PROVE  ForgeInv'
<1> DEFINE p == processes[i]
<1>0. p = processes[i]
  OBVIOUS
<1> HIDE DEF p
<1>1. Well(p, nextId) /\ p \in Process /\ p.alive \in BOOLEAN /\ p.ready \in BOOLEAN /\ p.busy \in Busy /\ p.alive = TRUE
  BY <1>0 DEF ForgeInv, Processes, Well, Process, DaemonStep, Chatter, Die
<1>2. CASE Boot(i)
  <2> DEFINE line == [kind |-> "ready"]
             q == [Out(p, line) EXCEPT !.ready = TRUE]
  <2>1. line \in Line /\ line.kind # "answer"
    BY Members
  <2>2. Len(p.outbox) < OutRoom /\ Becomes(i, q)
    BY <1>0, <1>2 DEF Boot, WithOut, Writes, Out
  <2>3. q \in Process /\ Wrote(p, q, line) /\ q.alive = p.alive
    BY <1>1, <2>1, WroteGives
  <2> HIDE DEF q, line
  <2>4. Well(q, nextId)
    BY <1>1, <2>1, <2>2, <2>3, WritesWell
  <2> QED BY <1>0, <2>2, <2>3, <2>4, BecomesKeeps DEF Wrote
<1>3. CASE Take(i)
  <2> DEFINE q == TakenUp(p)
  <2>1. p.busy = Idle /\ p.inbox # <<>> /\ Becomes(i, q)
    BY <1>0, <1>3 DEF Take, TakenUp
  <2>3. Well(q, nextId) /\ q.ran = p.ran /\ q.sent = p.sent /\ q.alive = p.alive
    BY <1>1, <2>1, TakesWell
  <2> QED BY <1>0, <2>1, <2>3, BecomesKeeps
<1>4. CASE Dispatch(i)
  <2>1. PICK ok \in BOOLEAN : Becomes(i, Did(p, ok))
    BY <1>0, <1>4 DEF Dispatch, Did
  <2> DEFINE q == Did(p, ok)
  <2>2. p.busy.state = "running" /\ p.busy.request.op \in Ops
    BY <1>0, <1>4 DEF Dispatch
  <2>4. Well(q, nextId) /\ p.ran \subseteq q.ran /\ q.sent = p.sent /\ q.alive = p.alive
    BY <1>1, <2>2, DispatchWell
  <2> QED BY <1>0, <2>1, <2>4, BecomesKeeps
<1>5. CASE Answer(i)
  <2> DEFINE line == [kind |-> "answer", id |-> p.busy.id, ok |-> p.busy.ok]
             q == [Out(p, line) EXCEPT !.busy = Idle]
  <2>0. p.busy.state = "answering" /\ Len(p.outbox) < OutRoom /\ Becomes(i, q)
    BY <1>0, <1>5 DEF Answer, WithOut, Writes, Out
  <2>1. /\ line \in Line /\ line.id = p.busy.id /\ line.ok = p.busy.ok
        /\ [id |-> line.id, ok |-> line.ok] \in p.ran
    BY <1>1, <2>0, Members DEF Well, TellsTrue
  <2>3. q \in Process /\ Wrote(p, q, line) /\ q.alive = p.alive
    BY <1>1, <2>1, WroteGives
  <2> HIDE DEF q, line
  <2>4. Well(q, nextId)
    BY <1>1, <2>0, <2>1, <2>3, WritesWell
  <2> QED BY <1>0, <2>0, <2>3, <2>4, BecomesKeeps DEF Wrote
<1>6. CASE ShutDown(i)
  <2> DEFINE line == [kind |-> "answer", id |-> 0, ok |-> TRUE]
             q == [Out(p, line) EXCEPT !.alive = FALSE]
  <2>0. Len(p.outbox) < OutRoom /\ Becomes(i, q)
    BY <1>0, <1>6 DEF ShutDown, WithOut, Writes, Out
  <2>1. line \in Line /\ line.id = 0
    BY Members
  <2>3. q \in Process /\ Wrote(p, q, line) /\ q.alive = FALSE
    BY <1>1, <2>1, WroteGives
  <2> HIDE DEF q, line
  <2>4. Well(q, nextId)
    BY <1>1, <2>0, <2>1, <2>3, WritesWell
  <2> QED BY <1>0, <2>0, <2>3, <2>4, BecomesKeeps DEF Wrote
<1>7. CASE Chatter(i)
  <2> DEFINE line == [kind |-> "chatter"]
             q == Out(p, line)
  <2>1. line \in Line /\ line.kind # "answer"
    BY Members
  <2>2. Len(p.outbox) < OutRoom /\ Becomes(i, q)
    BY <1>0, <1>7 DEF Chatter, WithOut, Writes, Out
  <2>3. q \in Process /\ Wrote(p, q, line) /\ q.alive = p.alive
    BY <1>1, <2>1, WroteGives
  <2> HIDE DEF q, line
  <2>4. Well(q, nextId)
    BY <1>1, <2>1, <2>2, <2>3, WritesWell
  <2> QED BY <1>0, <2>2, <2>3, <2>4, BecomesKeeps DEF Wrote
<1>8. CASE Die(i)
  <2> DEFINE q == Dead(p)
  <2>1. Becomes(i, q)
    BY <1>0, <1>8 DEF Die, Dead
  <2>3. Well(q, nextId) /\ q.ran = p.ran /\ q.sent = p.sent /\ q.alive = FALSE
    BY <1>1, DeadWell
  <2> QED BY <1>0, <2>1, <2>3, BecomesKeeps
<1> QED BY <1>2, <1>3, <1>4, <1>5, <1>6, <1>7, <1>8 DEF DaemonStep

\* The process the client holds, while it holds one.
LEMMA Held ==
  ASSUME ForgeInv, current # 0
  PROVE  /\ current \in DOMAIN processes /\ Blender = processes[current] /\ Well(Blender, nextId) /\ Blender \in Process
         /\ nextId \in Nat
<1>1. current \in DOMAIN processes
  BY DEF ForgeInv, ClientIsAt, Processes
<1> QED BY <1>1 DEF ForgeInv, ClientIsAt, Processes, Blender, Well

\* The client does something to the process it holds, or writes to it.
LEMMA HeldGrows ==
  ASSUME ForgeInv, current # 0, NEW q, NEW next \in {nextId, nextId + 1}, Well(q, next),
         Blender.ran \subseteq q.ran, SentTo(Blender) \subseteq SentTo(q), q.alive => Blender.alive,
         processes' = [processes EXCEPT ![current] = q], current' = current
  PROVE  /\ Grown(processes', next) /\ OneBlender' /\ Blender' = q
         /\ Len(processes') = Len(processes) /\ DOMAIN processes' = DOMAIN processes
<1>1. /\ current \in DOMAIN processes /\ Blender = processes[current] /\ nextId \in Nat
      /\ Processes /\ OneBlender
  BY Held DEF ForgeInv
<1>2. /\ Grown(processes', next) /\ DOMAIN processes' = DOMAIN processes /\ Len(processes') = Len(processes)
      /\ processes'[current] = q /\ \A j \in DOMAIN processes : j # current => processes'[j] = processes[j]
  BY <1>1, OneGrows, ZenonT(30), SMT
<1>3. OneBlender'
  BY <1>1, <1>2 DEF OneBlender
<1> QED BY <1>2, <1>3 DEF Blender

LEMMA TakesLine ==
  ASSUME ForgeInv, Reads, TakeLine, UNCHANGED <<current, nextId>>
  PROVE  /\ Grown(processes', nextId') /\ OneBlender' /\ Len(processes') = Len(processes)
         /\ SentTo(Blender) \subseteq SentTo(Blender')
         /\ current \in DOMAIN processes /\ DOMAIN processes' = DOMAIN processes
         /\ LET line == Head(Blender.outbox) IN
              /\ line \in Line
              /\ line.kind = "answer" /\ line.id # 0 => [id |-> line.id, ok |-> line.ok] \in Blender.ran
<1>1. current # 0 /\ Blender.outbox # <<>>
  BY DEF Reads
<1>2. current \in DOMAIN processes /\ Blender = processes[current] /\ Well(Blender, nextId) /\ Blender \in Process
  BY <1>1, Held
<1> DEFINE q == Read(Blender)
<1>3. /\ Well(q, nextId) /\ q.ran = Blender.ran /\ q.sent = Blender.sent /\ q.alive = Blender.alive
      /\ Head(Blender.outbox) \in Line
      /\ Head(Blender.outbox).kind = "answer" /\ Head(Blender.outbox).id # 0
           => [id |-> Head(Blender.outbox).id, ok |-> Head(Blender.outbox).ok] \in Blender.ran
  BY <1>1, <1>2, ReadWell
<1>4. processes' = [processes EXCEPT ![current] = q]
  BY <1>2 DEF TakeLine, Read
<1>5. SentTo(q) = SentTo(Blender)
  BY <1>3 DEF SentTo
<1> HIDE DEF q
<1>6. /\ Grown(processes', nextId) /\ OneBlender' /\ Blender' = q
      /\ Len(processes') = Len(processes) /\ DOMAIN processes' = DOMAIN processes
  BY <1>1, <1>3, <1>4, <1>5, HeldGrows
<1> QED BY <1>2, <1>3, <1>5, <1>6

\* A step of the client that adds no answer keeps what was acknowledged.
LEMMA NoAnswer ==
  ASSUME ForgeInv, Grown(processes', nextId'), acks' = acks, ClientIsAt', OneBlender' PROVE ForgeInv'
BY GrownKeeps DEF ForgeInv

LEMMA ServeStep == ForgeInv /\ Serve => ForgeInv'
<1> SUFFICES ASSUME ForgeInv, Serve PROVE ForgeInv'
  OBVIOUS
<1>1. /\ ctl = "idle" /\ ctl' = IF HungUp \/ Cmd.kind # "batch" THEN "stop" ELSE "call"
      /\ UNCHANGED <<script, command, step, processes, current, nextId, late, acks>>
  BY DEF Serve, Goes
<1>2. ClientIsAt /\ Processes /\ OneBlender /\ nextId \in Nat
  BY DEF ForgeInv, ClientIsAt
<1>3. Grown(processes', nextId') /\ OneBlender'
  BY <1>1, <1>2, NoneGrows DEF OneBlender
<1>4. ClientIsAt'
  BY <1>1, <1>2 DEF ClientIsAt, HungUp, Cmd, States
<1> QED BY <1>1, <1>3, <1>4, NoAnswer

LEMMA EnsureStep == ForgeInv /\ Ensure => ForgeInv'
<1> SUFFICES ASSUME ForgeInv, Ensure PROVE ForgeInv'
  OBVIOUS
<1>1. UNCHANGED <<script, command, step, nextId, acks>> /\ ctl = "call"
  BY DEF Ensure, Goes, Spawn
<1>2. ClientIsAt /\ Processes /\ OneBlender /\ nextId \in Nat /\ nextId \in Nat \ {0}
  BY DEF ForgeInv, ClientIsAt
<1>3. CASE Running /\ ctl' = "send" /\ UNCHANGED <<processes, current, late>>
  <2>1. Grown(processes', nextId') /\ OneBlender'
    BY <1>1, <1>2, <1>3, NoneGrows DEF OneBlender
  <2>2. ClientIsAt'
    BY <1>1, <1>2, <1>3 DEF ClientIsAt, HungUp, Cmd, States, Running
  <2> QED BY <1>1, <2>1, <2>2, NoAnswer
<1>4. CASE ~Running /\ Spawn("call")
  <2>1. ctl' = "starting" /\ processes' = Append(processes, Fresh) /\ current' = Len(processes) + 1 /\ late' = FALSE
    BY <1>4 DEF Spawn, Goes
  <2>2. \A i \in DOMAIN processes : ~processes[i].alive
    <3>1. 0 \notin DOMAIN processes
      BY <1>2 DEF Processes
    <3> QED BY <1>2, <1>4, <3>1 DEF Running, OneBlender, Blender
  <2>3. Grown(processes, nextId) /\ processes \in Seq(Process) /\ Len(processes) \in Nat
    BY <1>2, NoneGrows DEF Processes
  <2>4. Grown(processes', nextId') /\ OneBlender' /\ current' # 0 /\ current' \in 0 .. Len(processes')
    BY <1>1, <1>2, <2>1, <2>2, <2>3, AnotherStarts
  <2>5. ClientIsAt'
    BY <1>1, <1>2, <2>1, <2>4 DEF ClientIsAt, HungUp, Cmd, States
  <2> QED BY <1>1, <2>4, <2>5, NoAnswer
<1> QED BY <1>3, <1>4 DEF Ensure, Goes

LEMMA StartStep == ForgeInv /\ Start => ForgeInv'
<1> SUFFICES ASSUME ForgeInv, Start PROVE ForgeInv'
  OBVIOUS
<1>1. UNCHANGED <<script, current, nextId, late, acks>> /\ ctl = "starting"
  BY DEF Start
<1>2. ClientIsAt /\ Processes /\ OneBlender /\ nextId \in Nat /\ ~HungUp
  BY <1>1 DEF ForgeInv, ClientIsAt
<1>3. Grown(processes', nextId') /\ OneBlender' /\ Len(processes') = Len(processes)
  <2>1. CASE Reads /\ TakeLine
    BY <1>1, <2>1, TakesLine
  <2>2. CASE UNCHANGED processes
    BY <1>1, <1>2, <2>2, NoneGrows DEF OneBlender
  <2> QED BY <2>1, <2>2 DEF Start
<1>4. current' \in 0 .. Len(processes') /\ nextId' \in Nat \ {0} /\ late' \in BOOLEAN
  <2>1. late' \in BOOLEAN
    BY <1>1, <1>2 DEF ClientIsAt
  <2> QED BY <1>1, <1>2, <1>3, <2>1 DEF ClientIsAt
<1>5. ClientIsAt'
  <2>1. CASE Over("starting")
    BY <1>1, <1>2, <1>4, <2>1, OverKeeps
  <2>2. CASE Cmd.kind # "restart" /\ ctl' = "send" /\ UNCHANGED <<command, step>>
    <3>1. current # 0 /\ Cmd.kind = "batch" /\ step \in DOMAIN Cmd.ops
      BY <1>1, <1>2, <2>2 DEF ClientIsAt
    <3> QED BY <1>1, <1>2, <1>4, <2>2, <3>1 DEF ClientIsAt, HungUp, Cmd, States
  <2>3. CASE UNCHANGED <<ctl, command, step>>
    BY <1>1, <1>2, <1>4, <2>3 DEF ClientIsAt, HungUp, Cmd
  <2> QED BY <2>1, <2>2, <2>3 DEF Start, Started, DaemonError, Goes
<1> QED BY <1>1, <1>3, <1>5, NoAnswer

\* The number after the last is the new request's.
LEMMA SendStep == ForgeInv /\ Send => ForgeInv'
<1> SUFFICES ASSUME ForgeInv, Send PROVE ForgeInv'
  OBVIOUS
<1>1. UNCHANGED <<script, current, acks>> /\ ctl = "send" /\ nextId' = nextId + 1
  BY DEF Send
<1>2. ClientIsAt /\ Processes /\ OneBlender /\ nextId \in Nat \ {0} /\ ~HungUp /\ current # 0 /\ Cmd.kind = "batch"
  BY <1>1 DEF ForgeInv, ClientIsAt
<1>3. step \in DOMAIN Cmd.ops /\ Cmd.ops[step] \in Ops
  <2>1. command \in 1 .. Len(script) /\ script \in Scripts /\ step \in DOMAIN Cmd.ops
    BY <1>1, <1>2, ForgeAssumption DEF ClientIsAt, HungUp
  <2>2. Cmd.ops \in Seq(Ops)
    BY <1>2, <2>1, CommandFacts DEF Cmd
  <2> QED BY <2>1, <2>2
<1>4. CASE /\ Room /\ Put([id |-> nextId, op |-> Cmd.ops[step]])
           /\ ctl' = "waiting" /\ late' = FALSE /\ UNCHANGED <<command, step>>
  <2> DEFINE request == [id |-> nextId, op |-> Cmd.ops[step]]
             q == Requested(Blender, request)
  <2>1. request \in Request /\ request.id = nextId
    BY <1>2, <1>3, Members
  <2>2. Len(Blender.inbox) < InRoom /\ processes' = [processes EXCEPT ![current] = q]
    <3>1. Blender = processes[current] /\ current \in DOMAIN processes
      BY <1>2, Held
    <3> QED BY <1>4, <3>1 DEF Room, Put, Requested
  <2> HIDE DEF request
  <2>3. Well(Blender, nextId) /\ nextId \in Nat /\ nextId > 0
    BY <1>2, Held
  <2>4. Well(q, nextId + 1) /\ q.ran = Blender.ran /\ q.alive = Blender.alive
        /\ SentTo(Blender) \subseteq SentTo(q) /\ request \in SentTo(q)
    BY <2>1, <2>2, <2>3, PutWell
  <2> HIDE DEF q
  <2>5. Grown(processes', nextId') /\ OneBlender' /\ Blender' = q /\ Len(processes') = Len(processes)
    BY <1>1, <1>2, <2>2, <2>4, HeldGrows
  <2>6. ClientIsAt'
    <3>1. nextId' > 1 /\ nextId' - 1 = nextId /\ nextId' \in Nat \ {0}
      BY <1>1, <1>2
    <3>2. [id |-> nextId' - 1, op |-> Cmd'.ops[step']] = request
      BY <1>1, <1>4, <3>1 DEF Cmd, request
    <3>3. [id |-> nextId' - 1, op |-> Cmd'.ops[step']] \in SentTo(Blender')
      BY <2>4, <2>5, <3>2
    <3>4. current' \in 0 .. Len(processes') /\ current' # 0
      BY <1>1, <1>2, <2>5 DEF ClientIsAt
    <3> QED BY <1>1, <1>2, <1>3, <1>4, <3>1, <3>3, <3>4 DEF ClientIsAt, HungUp, Cmd, States
  <2> QED BY <1>1, <2>5, <2>6, NoAnswer
<1>5. CASE Over("send") /\ UNCHANGED <<processes, late>>
  <2>1. Grown(processes', nextId') /\ OneBlender'
    BY <1>1, <1>2, <1>5, NoneGrows DEF OneBlender
  <2>2. current' \in 0 .. Len(processes') /\ nextId' \in Nat \ {0} /\ late' \in BOOLEAN
    <3>1. late' \in BOOLEAN
      BY <1>2, <1>5 DEF ClientIsAt
    <3> QED BY <1>1, <1>2, <1>5, <3>1 DEF ClientIsAt
  <2>3. ClientIsAt'
    BY <1>1, <1>2, <1>5, <2>2, OverKeeps
  <2> QED BY <1>1, <2>1, <2>3, NoAnswer
<1> QED BY <1>4, <1>5 DEF Send, DaemonError, Goes

\* An answer is taken for the request it is to.
LEMMA WaitStep == ForgeInv /\ Wait => ForgeInv'
<1> SUFFICES ASSUME ForgeInv, Wait PROVE ForgeInv'
  OBVIOUS
<1>1. UNCHANGED <<script, current, nextId, late>> /\ ctl = "waiting"
  BY DEF Wait
<1>2. /\ ClientIsAt /\ Processes /\ Acked /\ OneBlender /\ nextId \in Nat \ {0} /\ nextId > 1 /\ ~HungUp /\ current # 0
      /\ Cmd.kind = "batch" /\ step \in DOMAIN Cmd.ops
      /\ [id |-> nextId - 1, op |-> Cmd.ops[step]] \in SentTo(Blender)
  BY <1>1 DEF ForgeInv, ClientIsAt
<1>3. Grown(processes', nextId') /\ OneBlender' /\ Len(processes') = Len(processes)
      /\ SentTo(Blender) \subseteq SentTo(Blender')
  <2>1. CASE Reads /\ TakeLine
    BY <1>1, <2>1, TakesLine
  <2>2. CASE UNCHANGED processes
    BY <1>1, <1>2, <2>2, NoneGrows DEF OneBlender, Blender
  <2> QED BY <2>1, <2>2 DEF Wait
<1>4. current' \in 0 .. Len(processes') /\ nextId' \in Nat \ {0} /\ late' \in BOOLEAN
  <2>1. late' \in BOOLEAN
    BY <1>1, <1>2 DEF ClientIsAt
  <2> QED BY <1>1, <1>2, <1>3, <2>1 DEF ClientIsAt
<1>5. ClientIsAt'
  <2>1. CASE Over("waiting")
    BY <1>1, <1>2, <1>4, <2>1, OverKeeps
  <2>2. CASE step < Len(Cmd.ops) /\ ctl' = "call" /\ step' = step + 1 /\ UNCHANGED command
    <3>1. step' \in DOMAIN Cmd'.ops
      <4>1. command \in 1 .. Len(script) /\ script \in Scripts
        BY <1>1, <1>2, ForgeAssumption DEF ClientIsAt, HungUp
      <4>2. Cmd.ops \in Seq(Ops)
        BY <1>2, <4>1, CommandFacts DEF Cmd
      <4>3. step + 1 \in DOMAIN Cmd.ops
        BY <1>2, <2>2, <4>2
      <4> QED BY <1>1, <2>2, <4>3 DEF Cmd
    <3> QED BY <1>1, <1>2, <1>4, <2>2, <3>1 DEF ClientIsAt, HungUp, Cmd, States
  <2>3. CASE UNCHANGED <<ctl, command, step>>
    <3>1. [id |-> nextId' - 1, op |-> Cmd'.ops[step']] \in SentTo(Blender')
      BY <1>1, <1>2, <1>3, <2>3 DEF Cmd
    <3> QED BY <1>1, <1>2, <1>4, <2>3, <3>1 DEF ClientIsAt, HungUp, Cmd
  <2> QED BY <2>1, <2>2, <2>3 DEF Wait, Answered, StepOver, DaemonError, Goes
<1>6. CASE UNCHANGED acks
  BY <1>3, <1>5, <1>6, NoAnswer
<1>7. CASE Reads /\ TakeLine /\ Mine(Head(Blender.outbox)) /\ Answered(Head(Blender.outbox))
  <2> DEFINE line == Head(Blender.outbox)
             ack == [id |-> nextId - 1, ok |-> line.ok, op |-> Cmd.ops[step], by |-> current]
  <2>1. /\ current \in DOMAIN processes /\ DOMAIN processes' = DOMAIN processes /\ line \in Line
        /\ line.kind = "answer" /\ line.id # 0 => [id |-> line.id, ok |-> line.ok] \in Blender.ran
    BY <1>1, <1>7, TakesLine
  <2>2. line.kind = "answer" /\ line.id = nextId - 1 /\ acks' = acks \cup {ack}
    BY <1>7 DEF Mine, Answered
  <2>3. line.ok \in BOOLEAN
    BY <2>1, <2>2, Members
  <2>4. line.id # 0 /\ nextId - 1 \in Nat
    BY <1>2, <2>2
  <2>5. /\ [id |-> nextId - 1, ok |-> line.ok] \in Blender.ran /\ Blender = processes[current]
        /\ [id |-> nextId - 1, op |-> Cmd.ops[step]] \in SentTo(Blender)
    BY <1>2, <2>1, <2>2, <2>4 DEF Blender
  <2>6. Cmd.ops[step] \in Ops
    <3>1. command \in 1 .. Len(script) /\ script \in Scripts
      BY <1>1, <1>2, ForgeAssumption DEF ClientIsAt, HungUp
    <3>2. Cmd.ops \in Seq(Ops)
      BY <1>2, <3>1, CommandFacts DEF Cmd
    <3> QED BY <1>2, <3>2
  <2>7. current \in Nat
    BY <1>2 DEF ClientIsAt
  <2>8. ack \in [id : Nat, ok : BOOLEAN, op : Ops, by : Nat]
    BY <2>3, <2>4, <2>6, <2>7
  <2>9. /\ ack.by = current /\ [id |-> ack.id, ok |-> ack.ok] \in Blender.ran
        /\ [id |-> ack.id, op |-> ack.op] \in SentTo(Blender)
    BY <2>5
  <2> HIDE DEF ack, line
  <2>10. Acked'
    <3>1. ASSUME NEW a \in acks'
          PROVE  /\ a.by \in DOMAIN processes /\ a.by \in DOMAIN processes'
                 /\ [id |-> a.id, ok |-> a.ok] \in processes[a.by].ran
                 /\ [id |-> a.id, op |-> a.op] \in SentTo(processes[a.by])
      <4>1. CASE a \in acks
        BY <1>2, <2>1, <4>1 DEF Acked
      <4>2. CASE a = ack
        BY <2>1, <2>5, <2>9, <4>2
      <4> QED BY <2>2, <3>1, <4>1, <4>2
    <3>2. \A a \in acks' : /\ [id |-> a.id, ok |-> a.ok] \in processes'[a.by].ran
                           /\ [id |-> a.id, op |-> a.op] \in SentTo(processes'[a.by])
      BY <1>3, <3>1 DEF Grown
    <3>3. acks' \subseteq [id : Nat, ok : BOOLEAN, op : Ops, by : Nat]
      BY <1>2, <2>2, <2>8 DEF Acked
    <3> QED BY <3>1, <3>2, <3>3 DEF Acked
  <2>11. Processes'
    BY <1>3 DEF Processes, Grown
  <2> QED BY <1>3, <1>5, <2>10, <2>11 DEF ForgeInv
<1> QED BY <1>6, <1>7 DEF Wait

\* Nothing lives behind a process that was let go.
LEMMA LetsGo ==
  ASSUME ForgeInv, NEW left, Grown(left, nextId), \A i \in DOMAIN left : ~left[i].alive,
         NEW here, LetGo(here, left), UNCHANGED <<script, nextId, acks>>
  PROVE  ForgeInv'
<1>1. ClientIsAt /\ Processes /\ OneBlender /\ nextId \in Nat \ {0}
  BY DEF ForgeInv, ClientIsAt
<1>2. CASE ~HungUp /\ Cmd.kind = "restart"
  <2>1. /\ ctl' = "starting" /\ processes' = Append(left, Fresh) /\ current' = Len(left) + 1 /\ late' = FALSE
        /\ UNCHANGED <<command, step>>
    BY <1>2 DEF LetGo, Goes
  <2>2. processes \in Seq(Process) /\ Len(processes) \in Nat
    BY <1>1 DEF Processes
  <2>3. Grown(processes', nextId') /\ OneBlender' /\ current' # 0 /\ current' \in 0 .. Len(processes')
    BY <1>1, <2>1, <2>2, AnotherStarts
  <2>4. ClientIsAt'
    BY <1>1, <1>2, <2>1, <2>3 DEF ClientIsAt, HungUp, Cmd, States
  <2> QED BY <2>3, <2>4, NoAnswer
<1>3. CASE ~(~HungUp /\ Cmd.kind = "restart")
  <2>1. Gone(here) /\ processes' = left
    BY <1>3 DEF LetGo
  <2>2. Grown(processes', nextId') /\ OneBlender'
    BY <2>1 DEF OneBlender
  <2>3. current' = 0 /\ late' = late
    BY <2>1 DEF Gone
  <2>4. current' \in 0 .. Len(processes') /\ nextId' \in Nat \ {0} /\ late' \in BOOLEAN
    <3>1. late' \in BOOLEAN
      BY <1>1, <2>3 DEF ClientIsAt
    <3>2. Len(processes') \in Nat
      BY <2>2 DEF Grown
    <3> QED BY <1>1, <2>3, <3>1, <3>2
  <2>5. ClientIsAt'
    <3>1. CASE HungUp
      <4>1. ctl' = "halted" /\ UNCHANGED <<command, step>>
        BY <2>1, <3>1 DEF Gone, Goes
      <4> QED BY <1>1, <2>4, <3>1, <4>1 DEF ClientIsAt, HungUp, Cmd, States
    <3>2. CASE ~HungUp
      <4>1. Over(here)
        BY <2>1, <3>2 DEF Gone
      <4> QED BY <1>1, <2>4, <3>2, <4>1, OverKeeps
    <3> QED BY <3>1, <3>2
  <2> QED BY <2>2, <2>5, NoAnswer
<1> QED BY <1>2, <1>3

LEMMA StopStep == ForgeInv /\ (Stop \/ End) => ForgeInv'
<1> SUFFICES ASSUME ForgeInv, Stop \/ End PROVE ForgeInv'
  OBVIOUS
<1>1. UNCHANGED <<script, nextId, acks>>
  BY DEF Stop, End
<1>2. ClientIsAt /\ Processes /\ OneBlender /\ nextId \in Nat \ {0} /\ nextId \in Nat
  BY DEF ForgeInv, ClientIsAt
<1>3. 0 \notin DOMAIN processes
  BY <1>2 DEF Processes
<1>4. CASE ~Running /\ LetGo("stop", processes)
  <2>1. \A i \in DOMAIN processes : ~processes[i].alive
    BY <1>2, <1>3, <1>4 DEF Running, OneBlender, Blender
  <2>2. Grown(processes, nextId)
    BY <1>2, NoneGrows
  <2> QED BY <1>1, <1>4, <2>1, <2>2, LetsGo
<1>5. CASE /\ Running /\ Room /\ Put([id |-> 0, op |-> "__shutdown__"])
           /\ ctl = "stop" /\ ctl' = "ending" /\ UNCHANGED <<command, step, current, late>>
  <2> DEFINE request == [id |-> 0, op |-> "__shutdown__"]
             q == Requested(Blender, request)
  <2>1. request \in Request /\ request.op \notin Ops
    BY Members
  <2>2. current # 0 /\ Len(Blender.inbox) < InRoom /\ processes' = [processes EXCEPT ![current] = q]
    <3>1. current # 0 /\ Blender = processes[current] /\ current \in DOMAIN processes
      BY <1>5, Held DEF Running
    <3> QED BY <1>5, <3>1 DEF Room, Put, Requested
  <2> HIDE DEF request
  <2>3. Well(Blender, nextId)
    BY <2>2, Held
  <2>4. Well(q, nextId) /\ q.ran = Blender.ran /\ q.alive = Blender.alive /\ SentTo(Blender) \subseteq SentTo(q)
    BY <1>2, <2>1, <2>2, <2>3, PutWell
  <2> HIDE DEF q
  <2>5. Grown(processes', nextId') /\ OneBlender' /\ Len(processes') = Len(processes)
    BY <1>1, <1>5, <2>2, <2>4, HeldGrows
  <2>6. ClientIsAt'
    BY <1>1, <1>2, <1>5, <2>2, <2>5 DEF ClientIsAt, HungUp, Cmd, States
  <2> QED BY <1>1, <2>5, <2>6, NoAnswer
<1>6. CASE ctl = "ending" /\ LetGo("ending", Killed)
  <2>1. current # 0
    BY <1>2, <1>6 DEF ClientIsAt
  <2>2. current \in DOMAIN processes /\ Blender = processes[current] /\ Well(Blender, nextId)
    BY <2>1, Held
  <2> DEFINE q == Dead(Blender)
  <2>3. Well(q, nextId) /\ q.ran = Blender.ran /\ q.sent = Blender.sent /\ q.alive = FALSE
    BY <2>2, DeadWell
  <2>4. Killed = [processes EXCEPT ![current] = q]
    BY <2>2 DEF Killed, Dead
  <2>5. SentTo(q) = SentTo(Blender)
    BY <2>3 DEF SentTo
  <2> HIDE DEF q
  <2>6. /\ Grown(Killed, nextId) /\ DOMAIN Killed = DOMAIN processes /\ Killed[current] = q
        /\ \A j \in DOMAIN processes : j # current => Killed[j] = processes[j]
    BY <1>2, <2>2, <2>3, <2>4, <2>5, OneGrows
  <2>7. \A i \in DOMAIN Killed : ~Killed[i].alive
    BY <1>2, <2>3, <2>6 DEF OneBlender
  <2> QED BY <1>1, <1>6, <2>6, <2>7, LetsGo
<1> QED BY <1>4, <1>5, <1>6 DEF Stop, End, Goes

LEMMA ExpireStep == ForgeInv /\ Expire => ForgeInv'
<1> SUFFICES ASSUME ForgeInv, Expire PROVE ForgeInv'
  OBVIOUS
<1>1. UNCHANGED <<script, command, step, ctl, processes, current, nextId, acks>> /\ late' = TRUE
  BY DEF Expire
<1>2. ClientIsAt /\ Processes /\ OneBlender /\ nextId \in Nat
  BY DEF ForgeInv, ClientIsAt
<1>3. Grown(processes', nextId') /\ OneBlender'
  BY <1>1, <1>2, NoneGrows DEF OneBlender
<1>4. ClientIsAt'
  BY <1>1, <1>2 DEF ClientIsAt, HungUp, Cmd, Blender
<1> QED BY <1>1, <1>3, <1>4, NoAnswer

-----------------------------------------------------------------------------

LEMMA ForgeInvInit == Init => ForgeInv
<1> SUFFICES ASSUME Init PROVE ForgeInv
  OBVIOUS
<1> USE DEF Init
<1>1. script \in Seq(Command) /\ Len(script) \in Nat /\ 1 \in 1 .. Len(script) + 1
  BY ForgeAssumption
<1>2. HungUp \/ Cmd.kind # "batch" \/ step \in DOMAIN Cmd.ops
  <2>1. CASE 1 \in 1 .. Len(script)
    BY <2>1, CommandFacts DEF Cmd
  <2>2. CASE 1 \notin 1 .. Len(script)
    BY <1>1, <2>2 DEF HungUp
  <2> QED BY <2>1, <2>2
<1>3. processes \in Seq(Process) /\ Len(processes) = 0 /\ DOMAIN processes = {}
  OBVIOUS
<1>4. ClientIsAt
  <2>1. late \in BOOLEAN
    OBVIOUS
  <2>2. script \in Scripts /\ command \in 1 .. Len(script) + 1 /\ ctl = "idle"
    BY <1>1
  <2>3. current \in 0 .. Len(processes) /\ nextId \in Nat \ {0}
    BY <1>3
  <2> QED BY <1>2, <2>1, <2>2, <2>3 DEF ClientIsAt, States
<1>5. Acked /\ Processes /\ OneBlender
  BY <1>3 DEF Acked, Processes, OneBlender
<1> QED BY <1>4, <1>5 DEF ForgeInv

LEMMA ForgeInvNext == ForgeInv /\ [Next]_vars => ForgeInv'
<1> SUFFICES ASSUME ForgeInv, [Next]_vars PROVE ForgeInv'
  OBVIOUS
<1>1. CASE ClientStep
  BY <1>1, ServeStep, EnsureStep, StartStep, SendStep, WaitStep, StopStep DEF ClientStep
<1>2. CASE Expire
  BY <1>2, ExpireStep
<1>3. ASSUME NEW i \in DOMAIN processes, DaemonStep(i) \/ Chatter(i) \/ Die(i) PROVE ForgeInv'
  BY <1>3, DaemonSteps
<1>4. CASE UNCHANGED vars
  <2>1. UNCHANGED <<script, command, step, ctl, processes, current, nextId, late, acks>>
    BY <1>4 DEF vars
  <2>2. ClientIsAt' /\ Acked' /\ OneBlender'
    BY <2>1 DEF ForgeInv, ClientIsAt, HungUp, Cmd, Blender, Acked, OneBlender
  <2>3. Processes'
    BY <2>1 DEF ForgeInv, Processes
  <2> QED BY <2>2, <2>3 DEF ForgeInv
<1> QED BY <1>1, <1>2, <1>3, <1>4 DEF Next

LEMMA Always == Spec => []ForgeInv
BY ForgeInvInit, ForgeInvNext, PTL DEF Spec

\* There is never a Blender that the client does not hold, whatever starts time out,
\* restarts and deaths there are.
THEOREM NoneLeaks == Spec => []OneBlender
<1>1. ForgeInv => OneBlender
  BY DEF ForgeInv
<1> QED BY <1>1, Always, PTL

\* The answer of a call is what was done for this very request, and when it is there
\* nothing older is left to happen: for any script, any room in the pipes, any lateness.
THEOREM CallsSettle == Spec => []CallsAreSettled
<1>1. ForgeInv => CallsAreSettled
  <2> SUFFICES ASSUME ForgeInv PROVE CallsAreSettled
    OBVIOUS
  <2>1. ASSUME NEW ack \in acks
        PROVE  /\ [id |-> ack.id, ok |-> ack.ok] \in processes[ack.by].ran
               /\ Well(processes[ack.by], nextId)
    BY DEF ForgeInv, Acked, Processes
  <2>2. AnswersMatch
    BY <2>1 DEF AnswersMatch
  <2>3. ASSUME NEW ack \in acks, NEW n \in DOMAIN processes[ack.by].inbox, processes[ack.by].inbox[n].op \in Ops
        PROVE  processes[ack.by].inbox[n].id > ack.id
    <3> DEFINE p == processes[ack.by]
               r == [id |-> ack.id, ok |-> ack.ok]
    <3>1. r \in p.ran /\ r.id = ack.id /\ InOrder(p)
      BY <2>1 DEF Well
    <3>2. r.id < p.inbox[n].id
      BY <2>3, <3>1 DEF InOrder
    <3>3. ack.id \in Nat /\ p.inbox[n].id \in Nat
      <4>1. p.inbox \in Seq(Request)
        BY <2>1 DEF Well, Process
      <4>2. p.inbox[n] \in Request
        BY <2>3, <4>1
      <4>3. p.inbox[n].id \in Nat
        BY <4>2 DEF Request
      <4> QED BY <4>3 DEF ForgeInv, Acked
    <3> QED BY <3>1, <3>2, <3>3
  <2>4. ASSUME NEW ack \in acks, processes[ack.by].busy.state = "running", processes[ack.by].busy.request.op \in Ops
        PROVE  processes[ack.by].busy.request.id > ack.id
    <3> DEFINE p == processes[ack.by]
               r == [id |-> ack.id, ok |-> ack.ok]
    <3>1. r \in p.ran /\ r.id = ack.id /\ InOrder(p)
      BY <2>1 DEF Well
    <3>2. r.id < p.busy.request.id
      BY <2>4, <3>1 DEF InOrder
    <3>3. ack.id \in Nat /\ p.busy.request.id \in Nat
      <4>1. p.busy \in Busy
        BY <2>1 DEF Well, Process
      <4>2. p.busy.request \in Request
        BY <2>4, <4>1, Members
      <4> QED BY <4>2 DEF ForgeInv, Acked, Request
    <3> QED BY <3>1, <3>2, <3>3
  <2>5. NoGhosts
    BY <2>3, <2>4 DEF NoGhosts
  <2> QED BY <2>2, <2>5 DEF CallsAreSettled
<1> QED BY <1>1, Always, PTL

\* Operations build on each other: what a Blender acknowledged is in its scene, in the
\* order of the calls, unless a reset was asked for since.
THEOREM EachBuilds == Spec => []BuildsOnEachOther
<1>1. ForgeInv => BuildsOnEachOther
  <2> SUFFICES ASSUME ForgeInv, NEW i \in DOMAIN processes
               PROVE  /\ \A n \in 1 .. Len(processes[i].scene) - 1 : processes[i].scene[n] < processes[i].scene[n + 1]
                      /\ \A ack \in {a \in acks : a.by = i /\ a.ok /\ a.op # ResetOp} :
                           (\A n \in {m \in DOMAIN processes[i].sent : processes[i].sent[m].op = ResetOp} :
                              processes[i].sent[n].id < ack.id)
                             => \E n \in DOMAIN processes[i].scene : processes[i].scene[n] = ack.id
    BY DEF BuildsOnEachOther
  <2> DEFINE p == processes[i]
  <2>1. Keeps(p)
    BY DEF ForgeInv, Processes, Well
  <2>2. ASSUME NEW ack \in acks, ack.by = i, ack.ok, ack.op # ResetOp,
               \A n \in {m \in DOMAIN p.sent : p.sent[m].op = ResetOp} : p.sent[n].id < ack.id
        PROVE  \E n \in DOMAIN p.scene : p.scene[n] = ack.id
    <3> DEFINE q == [id |-> ack.id, op |-> ack.op]
    <3>1. ack.op \in Ops /\ ack.ok \in BOOLEAN /\ [id |-> ack.id, ok |-> ack.ok] \in p.ran /\ q \in SentTo(p)
      BY <2>2 DEF ForgeInv, Acked
    <3>2. ack.op = "build" /\ ack.ok = TRUE
      BY <2>2, <3>1, Members
    <3>3. q.id = ack.id /\ q.op = "build" /\ [id |-> q.id, ok |-> TRUE] \in p.ran
      BY <3>1, <3>2
    <3> HIDE DEF q
    <3>4. \A n \in DOMAIN p.sent : p.sent[n].op = ResetOp => p.sent[n].id < q.id
      BY <2>2, <3>3
    <3> QED BY <2>1, <3>1, <3>3, <3>4 DEF Keeps
  <2> QED BY <2>1, <2>2 DEF Keeps
<1> QED BY <1>1, Always, PTL

-----------------------------------------------------------------------------
(* Counting calls: what the two need before they wait for each other.      *)

Num(yes) == IF yes THEN 1 ELSE 0

\* What was done, what waits and what runs was sent, each once; a ready line is written
\* by a process that is ready, and an answer before the next one is at hand.
Tally(p) ==
  /\ IsFiniteSet(p.ran)
  /\ Cardinality(p.ran) + Len(p.inbox) + Num(p.busy.state = "running") <= Len(p.sent)
  /\ \A n \in DOMAIN p.outbox : p.outbox[n].kind = "ready" => p.ready
  /\ p.busy.state = "answering" =>
       \A n \in DOMAIN p.outbox : p.outbox[n].kind = "answer" => p.outbox[n].id # p.busy.id

\* An answer that is still being written was not taken.
Unheard ==
  \A ack \in acks :
    LET busy == processes[ack.by].busy IN busy.state = "answering" => busy.id # ack.id

\* The one that is waited for was not either.
AwaitsTheLast == ctl = "waiting" => \A ack \in acks : ack.id < nextId - 1

Heard == Cardinality({ack \in acks : ack.by = current})

\* A call that is over had its answer or its deadline, and so had a start.
Unready == Num(~Blender.ready /\ ctl # "starting")
Overdue == Num(late /\ ctl \in {"starting", "waiting"})
Pending == Num(ctl \in {"waiting", "ending"})
Balanced == Len(Blender.sent) + Unready + Overdue <= lates + Heard + Pending
Debt == Running => Balanced

Tallied == \A i \in DOMAIN processes : Tally(processes[i])
Counted == IsFiniteSet(acks) /\ lates \in Nat
WedgeInv == Tallied /\ Counted /\ Unheard /\ AwaitsTheLast /\ Debt

LEMMA Sizes ==
  ASSUME NEW p, p \in Process, Tally(p)
  PROVE  /\ Cardinality(p.ran) \in Nat /\ Len(p.inbox) \in Nat /\ Len(p.sent) \in Nat /\ Len(p.outbox) \in Nat
         /\ p.busy \in Busy /\ p.ready \in BOOLEAN /\ p.outbox \in Seq(Line)
BY FS_CardinalityType DEF Process, Tally

LEMMA HeardIs == ASSUME IsFiniteSet(acks) PROVE Heard \in Nat
<1>1. IsFiniteSet({ack \in acks : ack.by = current})
  BY FS_Subset
<1> QED BY <1>1, FS_CardinalityType DEF Heard

LEMMA AreNumbers == Unready \in {0, 1} /\ Overdue \in {0, 1} /\ Pending \in {0, 1}
BY DEF Unready, Overdue, Pending, Num

\* What is owed grows by no more than what is due.
LEMMA BalanceKept ==
  ASSUME Balanced, Counted, Len(Blender.sent) \in Nat, Blender'.sent = Blender.sent, Heard' = Heard, lates' \in Nat,
         lates + Pending + Unready' + Overdue' <= lates' + Pending' + Unready + Overdue
  PROVE  Balanced'
<1>1. Unready' \in Nat /\ Overdue' \in Nat /\ Pending' \in Nat /\ Unready \in Nat /\ Overdue \in Nat /\ Pending \in Nat
  BY DEF Unready, Overdue, Pending, Num
<1>2. PICK unready \in Nat, overdue \in Nat, open \in Nat, missed \in Nat :
        unready = Unready' /\ overdue = Overdue' /\ open = Pending' /\ missed = lates'
  BY <1>1
<1>3. lates + Pending + unready + overdue <= missed + open + Unready + Overdue
  BY <1>2, Zenon
<1>4. Heard \in Nat /\ lates \in Nat /\ Len(Blender.sent) + Unready + Overdue <= lates + Heard + Pending
  BY HeardIs DEF Counted, Balanced
<1>5. Len(Blender.sent) + unready + overdue <= missed + Heard + open
  BY <1>1, <1>3, <1>4
<1> QED BY <1>2, <1>5, Zenon DEF Balanced

LEMMA FreshTally == Tally(Fresh)
BY FS_EmptySet DEF Fresh, Tally, Idle, Num

LEMMA WroteTally ==
  ASSUME NEW p, p \in Process, Tally(p), NEW line \in Line, NEW q \in Process, Wrote(p, q, line),
         p.ready => q.ready, line.kind = "ready" => q.ready, line.kind = "answer" => q.busy.state # "answering"
  PROVE  Tally(q)
<1>1. /\ q.outbox = Append(p.outbox, line) /\ q.inbox = p.inbox /\ q.ran = p.ran /\ q.sent = p.sent
      /\ q.busy = p.busy \/ q.busy.state = "idle"
  BY DEF Wrote, Idle
<1>2. p.outbox \in Seq(Line)
  BY Sizes
<1>3. ASSUME NEW n \in DOMAIN q.outbox PROVE (n \in DOMAIN p.outbox /\ q.outbox[n] = p.outbox[n]) \/ q.outbox[n] = line
  BY <1>1, <1>2, Pushed
<1>4. IsFiniteSet(q.ran) /\ Cardinality(q.ran) + Len(q.inbox) + Num(q.busy.state = "running") <= Len(q.sent)
  BY <1>1, Sizes DEF Tally, Num
<1>5. \A n \in DOMAIN q.outbox : q.outbox[n].kind = "ready" => q.ready
  BY <1>3 DEF Tally
<1>6. ASSUME q.busy.state = "answering", NEW n \in DOMAIN q.outbox, q.outbox[n].kind = "answer"
      PROVE  q.outbox[n].id # q.busy.id
  <2>1. q.busy = p.busy /\ q.outbox[n] # line
    BY <1>1, <1>6
  <2> QED BY <1>3, <1>6, <2>1 DEF Tally
<1> QED BY <1>4, <1>5, <1>6 DEF Tally

LEMMA DeadTally ==
  ASSUME NEW p \in Process, Tally(p)
  PROVE  Tally(Dead(p)) /\ Dead(p).busy = p.busy /\ Dead(p).sent = p.sent
<1>1. LET q == Dead(p) IN /\ q.outbox = p.outbox /\ q.busy = p.busy /\ q.inbox = p.inbox /\ q.ready = p.ready
                          /\ q.ran = p.ran /\ q.sent = p.sent
  BY DEF Process, Dead
<1> QED BY <1>1 DEF Tally

LEMMA ReadTally ==
  ASSUME NEW p \in Process, Tally(p), p.outbox # <<>>
  PROVE  LET q == Read(p) IN
         /\ Tally(q) /\ q.sent = p.sent /\ q.ready = p.ready /\ q.alive = p.alive /\ q.busy = p.busy
         /\ Head(p.outbox).kind = "ready" => p.ready
         /\ Head(p.outbox).kind = "answer" /\ p.busy.state = "answering" => Head(p.outbox).id # p.busy.id
<1> DEFINE q == Read(p)
<1>1. /\ q.outbox = Tail(p.outbox) /\ q.busy = p.busy /\ q.inbox = p.inbox
      /\ q.ran = p.ran /\ q.sent = p.sent /\ q.alive = p.alive /\ q.ready = p.ready
  BY DEF Process, Read
<1> HIDE DEF q
<1>2. p.outbox \in Seq(Line)
  BY Sizes
<1>3. /\ Head(p.outbox) = p.outbox[1] /\ 1 \in DOMAIN p.outbox
      /\ \A n \in DOMAIN q.outbox : n + 1 \in DOMAIN p.outbox /\ q.outbox[n] = p.outbox[n + 1]
  BY <1>1, <1>2, Rest
<1>4. Tally(q)
  BY <1>1, <1>3 DEF Tally
<1> QED BY <1>1, <1>3, <1>4 DEF Tally, q

LEMMA TakenTally ==
  ASSUME NEW p \in Process, Tally(p), p.inbox # <<>>, p.busy = Idle
  PROVE  LET q == TakenUp(p) IN Tally(q) /\ q.ready = p.ready /\ q.busy.state # "answering"
<1> DEFINE q == TakenUp(p)
<1>1. /\ q.inbox = Tail(p.inbox) /\ q.busy.state = "running" /\ p.busy.state = "idle"
      /\ q.ran = p.ran /\ q.sent = p.sent /\ q.outbox = p.outbox /\ q.ready = p.ready
  BY DEF Process, TakenUp, Idle
<1> HIDE DEF q
<1>2. Len(q.inbox) = Len(p.inbox) - 1
  BY <1>1, Rest DEF Process
<1>3. Cardinality(q.ran) + Len(q.inbox) + Num(q.busy.state = "running") <= Len(q.sent)
  BY <1>1, <1>2, Sizes DEF Tally, Num
<1> QED BY <1>1, <1>3 DEF Tally, q

LEMMA DidTally ==
  ASSUME NEW next, NEW p, Well(p, next), Tally(p), p.busy.state = "running", p.busy.request.op \in Ops, NEW ok \in BOOLEAN
  PROVE  LET q == Did(p, ok) IN
         Tally(q) /\ q.ready = p.ready /\ q.busy.id = p.busy.request.id
<1> DEFINE q == Did(p, ok)
           done == [id |-> p.busy.request.id, ok |-> ok]
<1>1. p \in Process /\ InOrder(p) /\ TellsTrue(p) /\ Numbered(p, next)
  BY DEF Well
<1>2. /\ q.ran = p.ran \cup {done} /\ q.busy = [state |-> "answering", id |-> p.busy.request.id, ok |-> ok]
      /\ q.inbox = p.inbox /\ q.outbox = p.outbox /\ q.sent = p.sent /\ q.ready = p.ready
  BY <1>1 DEF Process, Did
<1> HIDE DEF q, done
<1>3. IsFiniteSet(q.ran) /\ Cardinality(q.ran) <= Cardinality(p.ran) + 1 /\ Cardinality(q.ran) \in Nat
  <2>1. IsFiniteSet(p.ran) /\ Cardinality(p.ran) \in Nat
    BY <1>1, Sizes DEF Tally
  <2>2. /\ IsFiniteSet(p.ran \cup {done})
        /\ Cardinality(p.ran \cup {done}) = IF done \in p.ran THEN Cardinality(p.ran) ELSE Cardinality(p.ran) + 1
    BY <2>1, FS_AddElement
  <2> QED BY <1>2, <2>1, <2>2
<1>4. Cardinality(q.ran) + Len(q.inbox) + Num(q.busy.state = "running") <= Len(q.sent)
  BY <1>1, <1>2, <1>3, Sizes DEF Tally, Num
<1>5. \A r \in p.ran : r.id < p.busy.request.id
  BY <1>1 DEF InOrder
<1>6. p.busy.request.id \in 1 .. next - 1
  BY <1>1 DEF InOrder, Numbered, SentTo
<1>7. ASSUME NEW n \in DOMAIN q.outbox, q.outbox[n].kind = "answer" PROVE q.outbox[n].id # q.busy.id
  <2>1. CASE q.outbox[n].id = 0
    BY <1>2, <1>6, <2>1
  <2>2. CASE q.outbox[n].id # 0
    <3> DEFINE r == [id |-> p.outbox[n].id, ok |-> p.outbox[n].ok]
    <3>1. r \in p.ran /\ r.id = q.outbox[n].id
      BY <1>1, <1>2, <1>7, <2>2 DEF TellsTrue
    <3>2. r.id < p.busy.request.id
      BY <1>5, <3>1
    <3> QED BY <1>2, <1>6, <3>1, <3>2
  <2> QED BY <2>1, <2>2
<1> QED BY <1>2, <1>3, <1>4, <1>7 DEF Tally, q

LEMMA AskedTally ==
  ASSUME NEW p \in Process, Tally(p), NEW request \in Request
  PROVE  LET q == Requested(p, request) IN
         Tally(q) /\ q.ready = p.ready /\ q.alive = p.alive /\ q.busy = p.busy /\ Len(q.sent) = Len(p.sent) + 1
<1> DEFINE q == Requested(p, request)
<1>1. /\ q.inbox = Append(p.inbox, request) /\ q.sent = Append(p.sent, request)
      /\ q.outbox = p.outbox /\ q.busy = p.busy /\ q.ran = p.ran /\ q.ready = p.ready /\ q.alive = p.alive
  BY DEF Process, Requested
<1> HIDE DEF q
<1>2. Len(q.inbox) = Len(p.inbox) + 1 /\ Len(q.sent) = Len(p.sent) + 1
  BY <1>1, Pushed DEF Process
<1>3. Cardinality(q.ran) + Len(q.inbox) + Num(q.busy.state = "running") <= Len(q.sent)
  BY <1>1, <1>2, Sizes, SMTT(30), ZenonT(30) DEF Tally, Num
<1> QED BY <1>1, <1>2, <1>3 DEF Tally, q

-----------------------------------------------------------------------------
\* One process makes a step: the others are as they were.
LEMMA TalliesOne ==
  ASSUME Processes, Tallied, NEW i \in DOMAIN processes, NEW q \in Process, Tally(q),
         processes' = [processes EXCEPT ![i] = q]
  PROVE  /\ Tallied' /\ DOMAIN processes' = DOMAIN processes /\ processes'[i] = q
         /\ \A j \in DOMAIN processes : j # i => processes'[j] = processes[j]
<1>1. processes \in Seq(Process)
  BY DEF Processes
<1>2. /\ DOMAIN processes' = DOMAIN processes /\ processes'[i] = q
      /\ \A j \in DOMAIN processes : j # i => processes'[j] = processes[j]
  BY <1>1, Replaced
<1> QED BY <1>2 DEF Tallied

\* A step of the daemon asks no more and is no less ready.
LEMMA BecomesCounts ==
  ASSUME ForgeInv, WedgeInv, NEW i \in DOMAIN processes, NEW q \in Process, Becomes(i, q), Tally(q),
         q.sent = processes[i].sent, q.alive => processes[i].alive, processes[i].ready => q.ready,
         q.busy.state = "answering" => q.busy = processes[i].busy \/ (\A ack \in acks : ack.by = i => q.busy.id # ack.id)
  PROVE  WedgeInv'
<1>1. /\ processes' = [processes EXCEPT ![i] = q]
      /\ UNCHANGED <<script, command, step, ctl, current, nextId, late, acks, lates>>
  BY DEF Becomes
<1>2. /\ Processes /\ ClientIsAt /\ Acked /\ Tallied /\ Counted /\ Unheard /\ AwaitsTheLast /\ Debt
  BY DEF ForgeInv, WedgeInv
<1>3. /\ Tallied' /\ DOMAIN processes' = DOMAIN processes /\ processes'[i] = q
      /\ \A j \in DOMAIN processes : j # i => processes'[j] = processes[j]
  BY <1>1, <1>2, TalliesOne
<1>4. Unheard'
  <2> SUFFICES ASSUME NEW ack \in acks, processes'[ack.by].busy.state = "answering"
               PROVE  processes'[ack.by].busy.id # ack.id
    BY <1>1 DEF Unheard
  <2>1. ack.by \in DOMAIN processes
    BY <1>2 DEF Acked
  <2>2. CASE ack.by # i
    BY <1>2, <1>3, <2>1, <2>2 DEF Unheard
  <2>3. CASE ack.by = i
    BY <1>2, <1>3, <2>3 DEF Unheard
  <2> QED BY <2>2, <2>3
<1>5. Counted' /\ AwaitsTheLast'
  BY <1>1, <1>2 DEF Counted, AwaitsTheLast
<1>6. Debt'
  <2> SUFFICES ASSUME Running'
               PROVE  Balanced'
    BY DEF Debt
  <2>1. Heard' = Heard /\ Heard \in Nat /\ lates \in Nat
    BY <1>1, <1>2, HeardIs DEF Heard, Counted
  <2>2. current # 0 /\ current \in DOMAIN processes /\ Blender = processes[current] /\ Blender' = processes'[current]
    BY <1>1, <1>2 DEF Running, ClientIsAt, Processes, Blender
  <2>3. Running /\ Blender'.sent = Blender.sent /\ (Blender.ready => Blender'.ready)
    BY <1>1, <1>3, <2>2 DEF Running
  <2>4. Len(Blender.sent) \in Nat
    BY <2>2, Held DEF Process
  <2>5. lates + Pending + Unready' + Overdue' <= lates' + Pending' + Unready + Overdue
    BY <1>1, <2>1, <2>3 DEF Unready, Overdue, Pending, Num
  <2>6. Balanced
    BY <1>2, <2>3 DEF Debt
  <2> QED BY <1>1, <1>2, <2>1, <2>3, <2>4, <2>5, <2>6, BalanceKept
<1> QED BY <1>3, <1>4, <1>5, <1>6 DEF WedgeInv

LEMMA DaemonCounts ==
  ASSUME ForgeInv, WedgeInv, NEW i \in DOMAIN processes, DaemonStep(i) \/ Chatter(i) \/ Die(i)
  PROVE  WedgeInv'
<1> DEFINE p == processes[i]
<1>0. p = processes[i]
  OBVIOUS
<1> HIDE DEF p
<1>1. Well(p, nextId) /\ p \in Process /\ p.alive \in BOOLEAN /\ p.ready \in BOOLEAN /\ p.busy \in Busy /\ Tally(p)
      /\ p.alive = TRUE
  BY <1>0 DEF ForgeInv, Processes, Well, Process, WedgeInv, Tallied, DaemonStep, Chatter, Die
<1>2. CASE Boot(i)
  <2> DEFINE line == [kind |-> "ready"]
             q == [Out(p, line) EXCEPT !.ready = TRUE]
  <2>1. line \in Line /\ line.kind = "ready"
    BY Members
  <2>2. Becomes(i, q)
    BY <1>0, <1>2 DEF Boot, Writes, Out
  <2>3. q \in Process /\ Wrote(p, q, line) /\ q.alive = p.alive
    BY <1>1, <2>1, WroteGives
  <2>4. q.ready = TRUE
    BY <1>1 DEF Process, Out
  <2> HIDE DEF q, line
  <2>5. Tally(q)
    BY <1>1, <2>1, <2>3, <2>4, WroteTally
  <2>6. q.sent = p.sent /\ (q.busy.state = "answering" => q.busy = p.busy)
    BY <2>3 DEF Wrote, Idle
  <2> QED BY <1>0, <2>2, <2>3, <2>4, <2>5, <2>6, BecomesCounts
<1>3. CASE Take(i)
  <2> DEFINE q == TakenUp(p)
  <2>1. p.busy = Idle /\ p.inbox # <<>> /\ Becomes(i, q)
    BY <1>0, <1>3 DEF Take, TakenUp
  <2>2. Well(q, nextId) /\ q \in Process /\ q.sent = p.sent /\ q.alive = p.alive
    BY <1>1, <2>1, TakesWell DEF Well
  <2>3. Tally(q) /\ q.ready = p.ready /\ q.busy.state # "answering"
    BY <1>1, <2>1, TakenTally
  <2> HIDE DEF q
  <2> QED BY <1>0, <2>1, <2>2, <2>3, BecomesCounts
<1>4. CASE Dispatch(i)
  <2>1. PICK ok \in BOOLEAN : Becomes(i, Did(p, ok))
    BY <1>0, <1>4 DEF Dispatch, Did
  <2> DEFINE q == Did(p, ok)
  <2>2. p.busy.state = "running" /\ p.busy.request.op \in Ops
    BY <1>0, <1>4 DEF Dispatch
  <2>3. q \in Process /\ q.sent = p.sent /\ q.alive = p.alive
    BY <1>1, <2>2, DispatchWell DEF Well
  <2>4. Tally(q) /\ q.ready = p.ready /\ q.busy.id = p.busy.request.id /\ Becomes(i, q)
    BY <1>1, <2>1, <2>2, DidTally
  <2> HIDE DEF q
  <2>5. ASSUME NEW ack \in acks, ack.by = i PROVE q.busy.id # ack.id
    <3> DEFINE r == [id |-> ack.id, ok |-> ack.ok]
    <3>1. r \in p.ran /\ r.id = ack.id
      BY <1>0, <2>5 DEF ForgeInv, Acked
    <3>2. r.id < p.busy.request.id
      BY <1>1, <2>2, <3>1 DEF Well, InOrder
    <3>3. p.busy.request.id \in Nat /\ ack.id \in Nat
      BY <1>1, <2>2, Members DEF Request, ForgeInv, Acked
    <3> QED BY <2>4, <3>1, <3>2, <3>3
  <2>6. \A ack \in acks : ack.by = i => q.busy.id # ack.id
    BY <2>5
  <2> QED BY <1>0, <2>3, <2>4, <2>6, BecomesCounts
<1>5. CASE Answer(i)
  <2> DEFINE line == [kind |-> "answer", id |-> p.busy.id, ok |-> p.busy.ok]
             q == [Out(p, line) EXCEPT !.busy = Idle]
  <2>0. p.busy.state = "answering" /\ Becomes(i, q)
    BY <1>0, <1>5 DEF Answer, Writes, Out
  <2>1. line \in Line /\ line.kind = "answer"
    BY <1>1, <2>0, Members
  <2>2. q \in Process /\ Wrote(p, q, line) /\ q.alive = p.alive
    BY <1>1, <2>1, WroteGives
  <2>3. q.ready = p.ready /\ q.busy.state = "idle"
    BY <1>1 DEF Process, Out, Idle
  <2> HIDE DEF q, line
  <2>4. Tally(q)
    BY <1>1, <2>1, <2>2, <2>3, WroteTally
  <2> QED BY <1>0, <2>0, <2>2, <2>3, <2>4, BecomesCounts DEF Wrote
<1>6. CASE ShutDown(i)
  <2> DEFINE line == [kind |-> "answer", id |-> 0, ok |-> TRUE]
             q == [Out(p, line) EXCEPT !.alive = FALSE]
  <2>0. p.busy.state = "running" /\ Becomes(i, q)
    BY <1>0, <1>6 DEF ShutDown, Writes, Out
  <2>1. line \in Line /\ line.kind = "answer"
    BY Members
  <2>2. q \in Process /\ Wrote(p, q, line) /\ q.alive = FALSE
    BY <1>1, <2>1, WroteGives
  <2>3. q.ready = p.ready /\ q.busy = p.busy
    BY <1>1 DEF Process, Out
  <2> HIDE DEF q, line
  <2>4. Tally(q)
    BY <1>1, <2>0, <2>1, <2>2, <2>3, WroteTally
  <2> QED BY <1>0, <2>0, <2>2, <2>3, <2>4, BecomesCounts DEF Wrote
<1>7. CASE Chatter(i)
  <2> DEFINE line == [kind |-> "chatter"]
             q == Out(p, line)
  <2>1. line \in Line /\ line.kind = "chatter"
    BY Members
  <2>2. Becomes(i, q)
    BY <1>0, <1>7 DEF Chatter, Writes, Out
  <2>3. q \in Process /\ Wrote(p, q, line) /\ q.alive = p.alive
    BY <1>1, <2>1, WroteGives
  <2>4. q.ready = p.ready /\ q.busy = p.busy
    BY <1>1 DEF Process, Out
  <2> HIDE DEF q, line
  <2>5. Tally(q)
    BY <1>1, <2>1, <2>3, <2>4, WroteTally
  <2> QED BY <1>0, <2>2, <2>3, <2>4, <2>5, BecomesCounts DEF Wrote
<1>8. CASE Die(i)
  <2> DEFINE q == Dead(p)
  <2>1. Becomes(i, q)
    BY <1>0, <1>8 DEF Die, Dead
  <2>2. q \in Process /\ q.sent = p.sent /\ q.alive = FALSE /\ q.ready = p.ready
    BY <1>1 DEF Process, Dead
  <2>3. Tally(q) /\ q.busy = p.busy
    BY <1>1, DeadTally
  <2> HIDE DEF q
  <2> QED BY <1>0, <2>1, <2>2, <2>3, BecomesCounts
<1> QED BY <1>2, <1>3, <1>4, <1>5, <1>6, <1>7, <1>8 DEF DaemonStep

\* The processes stay, and the client goes from one place to another.
LEMMA MovesCounts ==
  ASSUME ForgeInv, WedgeInv, UNCHANGED <<processes, current, acks>>, lates' \in Nat, AwaitsTheLast',
         Running => lates + Pending + Unready' + Overdue' <= lates' + Pending' + Unready + Overdue
  PROVE  WedgeInv'
<1>1. Tallied' /\ Counted' /\ Unheard'
  BY DEF WedgeInv, Tallied, Counted, Unheard
<1>2. Debt'
  <2> SUFFICES ASSUME Running PROVE Balanced'
    BY DEF Debt, Running, Blender
  <2>1. Balanced /\ Counted /\ Heard' = Heard /\ Blender' = Blender
    BY DEF WedgeInv, Debt, Heard, Blender
  <2>2. Len(Blender.sent) \in Nat /\ Blender'.sent = Blender.sent
    BY <2>1, Held DEF Running, Process
  <2> QED BY <2>1, <2>2, BalanceKept
<1> QED BY <1>1, <1>2 DEF WedgeInv

\* The client reads from the process it holds, or writes to it.
LEMMA HeldCounts ==
  ASSUME ForgeInv, WedgeInv, current # 0, NEW q \in Process, Tally(q), q.busy = Blender.busy,
         processes' = [processes EXCEPT ![current] = q], current' = current
  PROVE  /\ Tallied' /\ Blender' = q /\ current \in DOMAIN processes
         /\ acks' = acks => Unheard' /\ Heard' = Heard
         /\ \A i \in DOMAIN processes : processes'[i].busy = processes[i].busy
<1>1. current \in DOMAIN processes /\ Blender = processes[current] /\ Processes /\ Tallied /\ Acked /\ Unheard
  BY Held DEF ForgeInv, WedgeInv
<1>2. /\ Tallied' /\ DOMAIN processes' = DOMAIN processes /\ processes'[current] = q
      /\ \A j \in DOMAIN processes : j # current => processes'[j] = processes[j]
  BY <1>1, TalliesOne
<1>3. \A i \in DOMAIN processes : processes'[i].busy = processes[i].busy
  BY <1>1, <1>2
<1>4. ASSUME acks' = acks PROVE Unheard'
  <2>1. \A ack \in acks : ack.by \in DOMAIN processes
    BY <1>1 DEF Acked
  <2> QED BY <1>1, <1>3, <1>4, <2>1 DEF Unheard
<1> QED BY <1>1, <1>2, <1>3, <1>4 DEF Blender, Heard

\* Of a Blender that is just started nothing is known yet.
Behind(left) ==
  /\ left \in Seq(Process) /\ DOMAIN left = DOMAIN processes
  /\ \A i \in DOMAIN left : Tally(left[i]) /\ left[i].busy = processes[i].busy

LEMMA StartCounts ==
  ASSUME ForgeInv, WedgeInv, NEW left, Behind(left), processes' = Append(left, Fresh), current' = Len(left) + 1,
         ctl' = "starting", late' = FALSE, UNCHANGED <<acks, lates>>
  PROVE  WedgeInv'
<1>1. /\ processes' \in Seq(Process) /\ Len(left) \in Nat
      /\ DOMAIN left = 1 .. Len(left) /\ DOMAIN processes' = 1 .. Len(left) + 1
      /\ \A i \in 1 .. Len(left) : processes'[i] = left[i]
      /\ processes'[Len(left) + 1] = Fresh
  <2>1. Fresh \in Process /\ left \in Seq(Process)
    <3>1. nextId \in Nat \ {0}
      BY DEF ForgeInv, ClientIsAt
    <3> QED BY <3>1, FreshWell DEF Behind, Well
  <2> QED BY <2>1, Pushed
<1>2. Tallied'
  <2>1. ASSUME NEW i \in DOMAIN processes' PROVE Tally(processes'[i])
    <3>1. (i \in DOMAIN left /\ processes'[i] = left[i]) \/ processes'[i] = Fresh
      BY <1>1
    <3> QED BY <3>1, FreshTally DEF Behind
  <2> QED BY <2>1 DEF Tallied
<1>3. ASSUME NEW ack \in acks
      PROVE  ack.by # current' /\ ack.by \in DOMAIN processes /\ processes'[ack.by].busy = processes[ack.by].busy
  <2>1. ack.by \in DOMAIN left /\ ack.by \in DOMAIN processes
    BY DEF ForgeInv, Acked, Behind
  <2> QED BY <1>1, <2>1 DEF Behind
<1>4. Unheard'
  BY <1>3 DEF WedgeInv, Unheard
<1>5. Counted' /\ AwaitsTheLast'
  BY DEF WedgeInv, Counted, AwaitsTheLast
<1>6. Debt'
  <2>1. {ack \in acks : ack.by = current'} = {}
    BY <1>3
  <2>2. Heard' = 0
    BY <2>1, FS_EmptySet DEF Heard
  <2>3. Len(Blender'.sent) = 0
    BY <1>1 DEF Blender, Fresh
  <2>4. Unready' = 0 /\ Overdue' = 0 /\ Pending' \in {0, 1}
    BY DEF Unready, Overdue, Pending, Num
  <2>5. lates' \in Nat
    BY DEF WedgeInv, Counted
  <2>6. ASSUME NEW missed \in Nat, NEW open \in {0, 1} PROVE 0 + 0 + 0 <= missed + 0 + open
    OBVIOUS
  <2>7. Balanced'
    BY <2>2, <2>3, <2>4, <2>5, <2>6, Zenon DEF Balanced
  <2> QED BY <2>7 DEF Debt
<1> QED BY <1>2, <1>4, <1>5, <1>6 DEF WedgeInv

LEMMA LetGoCounts ==
  ASSUME ForgeInv, WedgeInv, NEW left, Behind(left), NEW here, LetGo(here, left), UNCHANGED <<acks, lates>>
  PROVE  WedgeInv'
<1>1. CASE processes' = Append(left, Fresh) /\ current' = Len(left) + 1 /\ ctl' = "starting" /\ late' = FALSE
  BY <1>1, StartCounts
<1>2. CASE processes' = left /\ current' = 0 /\ ctl' \in {"halted", "idle"}
  <2>1. Tallied'
    BY <1>2 DEF Tallied, Behind
  <2>2. Unheard'
    <3>1. \A ack \in acks : ack.by \in DOMAIN left
      BY DEF ForgeInv, Acked, Behind
    <3> QED BY <1>2, <3>1 DEF WedgeInv, Unheard, Behind
  <2>3. Counted' /\ AwaitsTheLast' /\ Debt'
    BY <1>2 DEF WedgeInv, Counted, AwaitsTheLast, Debt, Running
  <2> QED BY <2>1, <2>2, <2>3 DEF WedgeInv
<1> QED BY <1>1, <1>2 DEF LetGo, Gone, Over, Goes

-----------------------------------------------------------------------------
LEMMA ServeCounts == ForgeInv /\ WedgeInv /\ Serve => WedgeInv'
<1> SUFFICES ASSUME ForgeInv, WedgeInv, Serve PROVE WedgeInv'
  OBVIOUS
<1>1. /\ ctl = "idle" /\ ctl' \in {"stop", "call"}
      /\ UNCHANGED <<processes, current, nextId, late, acks, lates>>
  BY DEF Serve, Goes
<1>2. Unready' = Unready /\ Overdue' = Overdue /\ Pending' = Pending /\ AwaitsTheLast' /\ lates' \in Nat
  BY <1>1 DEF Unready, Overdue, Pending, Num, AwaitsTheLast, Blender, WedgeInv, Counted
<1>3. lates + Pending + Unready' + Overdue' <= lates' + Pending' + Unready + Overdue
  BY <1>1, <1>2, AreNumbers
<1> QED BY <1>1, <1>2, <1>3, MovesCounts

LEMMA EnsureCounts == ForgeInv /\ WedgeInv /\ Ensure => WedgeInv'
<1> SUFFICES ASSUME ForgeInv, WedgeInv, Ensure PROVE WedgeInv'
  OBVIOUS
<1>1. UNCHANGED <<nextId, acks, lates>> /\ ctl = "call"
  BY DEF Ensure, Goes, Spawn
<1>2. CASE ctl' = "send" /\ UNCHANGED <<processes, current, late>>
  <2>1. Unready' = Unready /\ Overdue' = Overdue /\ Pending' = Pending /\ AwaitsTheLast' /\ lates' \in Nat
    BY <1>1, <1>2 DEF Unready, Overdue, Pending, Num, AwaitsTheLast, Blender, WedgeInv, Counted
  <2>2. lates + Pending + Unready' + Overdue' <= lates' + Pending' + Unready + Overdue
    BY <1>1, <2>1, AreNumbers
  <2> QED BY <1>1, <1>2, <2>1, <2>2, MovesCounts
<1>3. CASE Spawn("call")
  <2>1. Behind(processes)
    BY DEF ForgeInv, Processes, WedgeInv, Tallied, Behind
  <2> QED BY <1>1, <1>3, <2>1, StartCounts DEF Spawn, Goes
<1> QED BY <1>2, <1>3 DEF Ensure, Goes

\* The client takes a line of the process it holds.
LEMMA TakesCounts ==
  ASSUME ForgeInv, WedgeInv, Reads, TakeLine, UNCHANGED current
  PROVE  /\ Tallied' /\ Blender' = Read(Blender) /\ current \in DOMAIN processes
         /\ acks' = acks => Unheard' /\ Heard' = Heard
         /\ \A i \in DOMAIN processes : processes'[i].busy = processes[i].busy
         /\ Blender'.sent = Blender.sent /\ Blender'.ready = Blender.ready /\ Blender'.alive = Blender.alive
         /\ Len(Blender.sent) \in Nat /\ Blender.ready \in BOOLEAN
         /\ Head(Blender.outbox).kind = "ready" => Blender.ready
         /\ Head(Blender.outbox).kind = "answer" /\ Blender.busy.state = "answering"
              => Head(Blender.outbox).id # Blender.busy.id
<1>1. current # 0 /\ Blender.outbox # <<>>
  BY DEF Reads
<1>2. current \in DOMAIN processes /\ Blender = processes[current] /\ Well(Blender, nextId) /\ Blender \in Process
  BY <1>1, Held
<1>3. Tally(Blender)
  BY <1>2 DEF WedgeInv, Tallied
<1> DEFINE q == Read(Blender)
<1>4. /\ Tally(q) /\ q.sent = Blender.sent /\ q.ready = Blender.ready /\ q.alive = Blender.alive /\ q.busy = Blender.busy
      /\ Head(Blender.outbox).kind = "ready" => Blender.ready
      /\ Head(Blender.outbox).kind = "answer" /\ Blender.busy.state = "answering"
           => Head(Blender.outbox).id # Blender.busy.id
  BY <1>1, <1>2, <1>3, ReadTally
<1>5. q \in Process
  BY <1>1, <1>2, ReadWell DEF Well
<1>6. processes' = [processes EXCEPT ![current] = q]
  BY <1>2 DEF TakeLine, Read
<1> HIDE DEF q
<1>7. /\ Tallied' /\ Blender' = q
      /\ acks' = acks => Unheard' /\ Heard' = Heard
      /\ \A i \in DOMAIN processes : processes'[i].busy = processes[i].busy
  BY <1>1, <1>4, <1>5, <1>6, HeldCounts
<1>8. Len(Blender.sent) \in Nat /\ Blender.ready \in BOOLEAN
  BY <1>2 DEF Process
<1> QED BY <1>2, <1>4, <1>7, <1>8 DEF q

\* A start ends in time, or with a deadline missed, or with the end of the process.
LEMMA StartsCounts == ForgeInv /\ WedgeInv /\ Start => WedgeInv'
<1> SUFFICES ASSUME ForgeInv, WedgeInv, Start PROVE WedgeInv'
  OBVIOUS
<1>1. UNCHANGED <<current, nextId, late, acks, lates>> /\ ctl = "starting"
  BY DEF Start
<1>2. Counted' /\ lates \in Nat /\ Heard \in Nat
  BY <1>1, HeardIs DEF WedgeInv, Counted
<1>3. CASE EndOfFile /\ DaemonError("starting") /\ UNCHANGED processes
  <2>1. ~Running /\ ctl' = "idle"
    BY <1>3 DEF EndOfFile, Running, DaemonError, Over, Goes
  <2> QED BY <1>1, <1>2, <1>3, <2>1, MovesCounts DEF AwaitsTheLast
<1>4. CASE Reads /\ TakeLine
  <2>1. /\ Tallied' /\ Unheard' /\ Heard' = Heard
        /\ Blender'.sent = Blender.sent /\ Blender'.ready = Blender.ready /\ Blender'.alive = Blender.alive
        /\ Len(Blender.sent) \in Nat /\ Blender.ready \in BOOLEAN
        /\ Head(Blender.outbox).kind = "ready" => Blender.ready
    BY <1>1, <1>4, TakesCounts
  <2>2. AwaitsTheLast'
    BY <1>1, <1>4 DEF Start, Started, DaemonError, Over, Goes, AwaitsTheLast
  <2>3. ASSUME Running' PROVE Balanced'
    <3>1. Balanced
      BY <1>1, <2>1, <2>3 DEF WedgeInv, Debt, Running
    <3>2. lates + Pending + Unready' + Overdue' <= lates' + Pending' + Unready + Overdue
      <4>1. CASE Head(Blender.outbox).kind = "ready" /\ ctl' \in {"idle", "send"}
        BY <1>1, <1>2, <2>1, <4>1 DEF Unready, Overdue, Pending, Num
      <4>2. CASE late /\ ctl' = "idle"
        BY <1>1, <1>2, <4>2 DEF Unready, Overdue, Pending, Num
      <4>3. CASE ctl' = ctl
        BY <1>1, <1>2, <4>3 DEF Unready, Overdue, Pending, Num
      <4> QED BY <1>1, <1>4, <4>1, <4>2, <4>3 DEF Start, Started, DaemonError, Over, Goes, Reads, EndOfFile
    <3>3. Counted /\ lates' \in Nat
      BY <1>1, <1>2 DEF WedgeInv
    <3> QED BY <2>1, <3>1, <3>2, <3>3, BalanceKept
  <2> QED BY <1>2, <2>1, <2>2, <2>3 DEF WedgeInv, Debt
<1> QED BY <1>3, <1>4 DEF Start

\* A request more is sent.
LEMMA AsksCounts ==
  ASSUME ForgeInv, WedgeInv, Running, ctl \in {"send", "stop"}, NEW request \in Request, Put(request),
         ctl' = "ending" \/ (ctl' = "waiting" /\ late' = FALSE), UNCHANGED <<current, acks, lates>>
  PROVE  Tallied' /\ Counted' /\ Unheard' /\ Debt'
<1>1. Counted /\ Counted' /\ lates \in Nat /\ Heard \in Nat
  BY HeardIs DEF WedgeInv, Counted
<1>2. /\ current # 0 /\ current \in DOMAIN processes /\ Blender = processes[current] /\ Blender \in Process
      /\ Tally(Blender)
  BY Held DEF Running, WedgeInv, Tallied
<1> DEFINE q == Requested(Blender, request)
<1>3. processes' = [processes EXCEPT ![current] = q]
  BY <1>2 DEF Put, Requested
<1>4. Tally(q) /\ q.ready = Blender.ready /\ q.busy = Blender.busy
      /\ Len(q.sent) = Len(Blender.sent) + 1 /\ Len(Blender.sent) \in Nat /\ Blender.ready \in BOOLEAN
  <2>1. Len(Blender.sent) \in Nat /\ Blender.ready \in BOOLEAN
    BY <1>2, Sizes
  <2> QED BY <1>2, <2>1, AskedTally
<1>5. q \in Process
  <2>1. Append(Blender.inbox, request) \in Seq(Request) /\ Append(Blender.sent, request) \in Seq(Request)
    BY <1>2, Pushed DEF Process
  <2> QED BY <1>2, <2>1 DEF Process, Requested
<1> HIDE DEF q
<1>6. Tallied' /\ Blender' = q /\ Unheard' /\ Heard' = Heard
  BY <1>2, <1>3, <1>4, <1>5, HeldCounts
<1> DEFINE unready == Num(~Blender.ready)
<1>7. unready \in Nat /\ Unready = unready /\ Overdue = 0 /\ Pending = 0
  BY DEF Unready, Overdue, Pending, Num
<1>8. Unready' = unready /\ Overdue' = 0 /\ Pending' = 1
  BY <1>4, <1>6 DEF Unready, Overdue, Pending, Num
<1>9. Len(Blender'.sent) = Len(Blender.sent) + 1
  BY <1>4, <1>6
<1> HIDE DEF unready
<1>10. Len(Blender.sent) + unready + 0 <= lates + Heard + 0
  BY <1>7 DEF WedgeInv, Debt, Balanced
<1>11. (Len(Blender.sent) + 1) + unready + 0 <= lates + Heard + 1
  BY <1>1, <1>4, <1>7, <1>10
<1>12. lates' = lates
  OBVIOUS
<1>13. Balanced'
  BY <1>6, <1>8, <1>9, <1>11, <1>12, Zenon DEF Balanced
<1> QED BY <1>1, <1>6, <1>13 DEF Debt

LEMMA SendCounts == ForgeInv /\ WedgeInv /\ Send => WedgeInv'
<1> SUFFICES ASSUME ForgeInv, WedgeInv, Send PROVE WedgeInv'
  OBVIOUS
<1>1. UNCHANGED <<current, acks, lates>> /\ ctl = "send" /\ nextId' = nextId + 1 /\ nextId \in Nat
  BY DEF Send, ForgeInv, ClientIsAt
<1>2. current # 0 /\ lates' \in Nat
  BY <1>1 DEF ForgeInv, ClientIsAt, WedgeInv, Counted
<1>3. CASE ~Blender.alive /\ ctl' = "idle" /\ UNCHANGED processes
  BY <1>1, <1>2, <1>3, MovesCounts DEF Running, AwaitsTheLast
<1>4. CASE Blender.alive /\ Put([id |-> nextId, op |-> Cmd.ops[step]]) /\ ctl' = "waiting" /\ late' = FALSE
  <2> DEFINE request == [id |-> nextId, op |-> Cmd.ops[step]]
  <2>1. request \in Request
    <3>1. command \in 1 .. Len(script) /\ script \in Scripts /\ step \in DOMAIN Cmd.ops /\ Cmd.kind = "batch"
      BY <1>1, ForgeAssumption DEF ForgeInv, ClientIsAt, HungUp
    <3>2. Cmd.ops \in Seq(Ops)
      BY <3>1, CommandFacts DEF Cmd
    <3> QED BY <1>1, <3>1, <3>2, Members
  <2> HIDE DEF request
  <2>2. Running /\ Put(request)
    BY <1>2, <1>4 DEF Running, request
  <2>3. Tallied' /\ Counted' /\ Unheard' /\ Debt'
    BY <1>1, <1>4, <2>1, <2>2, AsksCounts
  <2>4. AwaitsTheLast'
    <3>1. ASSUME NEW ack \in acks PROVE ack.id < nextId
      <4> DEFINE r == [id |-> ack.id, ok |-> ack.ok]
      <4>1. r \in processes[ack.by].ran /\ r.id = ack.id /\ Well(processes[ack.by], nextId)
        BY DEF ForgeInv, Acked, Processes
      <4>2. r.id \in 1 .. nextId - 1
        BY <4>1 DEF Well, Numbered
      <4> QED BY <1>1, <4>1, <4>2
    <3> QED BY <1>1, <3>1 DEF AwaitsTheLast
  <2> QED BY <2>3, <2>4 DEF WedgeInv
<1> QED BY <1>3, <1>4 DEF Send, DaemonError, Over, Goes

LEMMA WaitCounts == ForgeInv /\ WedgeInv /\ Wait => WedgeInv'
<1> SUFFICES ASSUME ForgeInv, WedgeInv, Wait PROVE WedgeInv'
  OBVIOUS
<1>1. UNCHANGED <<current, nextId, late, lates>> /\ ctl = "waiting" /\ nextId \in Nat
  BY DEF Wait, ForgeInv, ClientIsAt
<1>2. lates \in Nat /\ Heard \in Nat /\ Counted /\ IsFiniteSet(acks) /\ lates' \in Nat
  BY <1>1, HeardIs DEF WedgeInv, Counted
<1>3. CASE EndOfFile /\ ctl' = "idle" /\ UNCHANGED <<processes, acks>>
  BY <1>1, <1>2, <1>3, MovesCounts DEF EndOfFile, Running, AwaitsTheLast
<1>4. ASSUME Reads, TakeLine
      PROVE  /\ Tallied' /\ current \in DOMAIN processes
             /\ acks' = acks => Unheard' /\ Heard' = Heard
             /\ \A i \in DOMAIN processes : processes'[i].busy = processes[i].busy
             /\ Blender'.sent = Blender.sent /\ Blender'.ready = Blender.ready /\ Blender'.alive = Blender.alive
             /\ Len(Blender.sent) \in Nat /\ Blender.ready \in BOOLEAN
             /\ Head(Blender.outbox).kind = "answer" /\ Blender.busy.state = "answering"
                  => Head(Blender.outbox).id # Blender.busy.id
  BY <1>1, <1>4, TakesCounts
<1>5. ASSUME Running', Reads, TakeLine PROVE Balanced
  BY <1>1, <1>4, <1>5 DEF WedgeInv, Debt, Running
<1>6. CASE Reads /\ TakeLine /\ UNCHANGED acks /\ ((late /\ ctl' = "idle") \/ ctl' = ctl)
  <2>1. lates + Pending + Unready' + Overdue' <= lates' + Pending' + Unready + Overdue
    BY <1>1, <1>2, <1>4, <1>6 DEF Unready, Overdue, Pending, Num
  <2>2. Debt'
    BY <1>2, <1>4, <1>5, <1>6, <2>1, BalanceKept DEF Debt
  <2>3. AwaitsTheLast' /\ Counted'
    BY <1>1, <1>2, <1>6 DEF Counted, AwaitsTheLast, WedgeInv
  <2> QED BY <1>4, <1>6, <2>2, <2>3 DEF WedgeInv
<1>7. CASE Reads /\ TakeLine /\ Mine(Head(Blender.outbox)) /\ Answered(Head(Blender.outbox))
  <2> DEFINE line == Head(Blender.outbox)
             ack == [id |-> nextId - 1, ok |-> line.ok, op |-> Cmd.ops[step], by |-> current]
             mine == {a \in acks : a.by = current}
  <2>1. acks' = acks \cup {ack} /\ ack.by = current /\ ack.id = nextId - 1 /\ line.kind = "answer" /\ line.id = nextId - 1
        /\ ctl' \in {"idle", "call"}
    BY <1>7 DEF Mine, Answered, StepOver, Over, Goes
  <2>2. ack \notin acks
    BY <1>1, <2>1 DEF WedgeInv, AwaitsTheLast
  <2> HIDE DEF ack
  <2>3. Counted' /\ AwaitsTheLast'
    <3>1. IsFiniteSet(acks \cup {ack})
      BY <1>2, FS_AddElement
    <3> QED BY <1>2, <2>1, <3>1 DEF Counted, AwaitsTheLast
  <2>4. Heard' = Heard + 1
    <3>1. {a \in acks' : a.by = current'} = mine \cup {ack} /\ ack \notin mine
      BY <1>1, <2>1, <2>2
    <3>2. IsFiniteSet(mine)
      BY <1>2, FS_Subset
    <3> HIDE DEF mine
    <3>3. Cardinality(mine \cup {ack}) = Cardinality(mine) + 1
      BY <3>1, <3>2, FS_AddElement
    <3> QED BY <3>1, <3>3, Zenon DEF Heard, mine
  <2>5. Unheard'
    <3> SUFFICES ASSUME NEW a \in acks', processes'[a.by].busy.state = "answering"
                 PROVE  processes'[a.by].busy.id # a.id
      BY DEF Unheard
    <3>1. CASE a \in acks
      <4>1. a.by \in DOMAIN processes
        BY <3>1 DEF ForgeInv, Acked
      <4> QED BY <1>4, <1>7, <3>1, <4>1 DEF WedgeInv, Unheard
    <3>2. CASE a = ack
      BY <1>4, <1>7, <2>1, <3>2 DEF Blender
    <3> QED BY <2>1, <3>1, <3>2
  <2>6. ASSUME Running' PROVE Balanced'
    <3> DEFINE unready == Num(~Blender.ready)
    <3>1. unready \in Nat /\ Unready = unready /\ Overdue \in Nat /\ Pending = 1
      BY <1>1 DEF Unready, Overdue, Pending, Num
    <3>2. Unready' = unready /\ Overdue' = 0 /\ Pending' = 0
      BY <1>4, <1>7, <2>1 DEF Unready, Overdue, Pending, Num
    <3> HIDE DEF unready
    <3>3. Len(Blender.sent) + unready + Overdue <= lates + Heard + 1
      BY <1>5, <1>7, <2>6, <3>1 DEF Balanced
    <3>4. Len(Blender.sent) + unready + 0 <= lates + (Heard + 1) + 0 /\ lates' = lates /\ Len(Blender'.sent) = Len(Blender.sent)
      BY <1>1, <1>2, <1>4, <1>7, <3>1, <3>3
    <3> QED BY <2>4, <3>2, <3>4, Zenon DEF Balanced
  <2> QED BY <1>4, <1>7, <2>3, <2>5, <2>6 DEF WedgeInv, Debt
<1> QED BY <1>3, <1>6, <1>7 DEF Wait, DaemonError, Over, Goes

LEMMA StopCounts == ForgeInv /\ WedgeInv /\ (Stop \/ End) => WedgeInv'
<1> SUFFICES ASSUME ForgeInv, WedgeInv, Stop \/ End PROVE WedgeInv'
  OBVIOUS
<1>1. UNCHANGED <<nextId, acks, lates>>
  BY DEF Stop, End
<1>2. CASE LetGo("stop", processes)
  <2>1. Behind(processes)
    BY DEF ForgeInv, Processes, WedgeInv, Tallied, Behind
  <2> QED BY <1>1, <1>2, <2>1, LetGoCounts
<1>3. CASE Running /\ Put([id |-> 0, op |-> "__shutdown__"]) /\ ctl = "stop" /\ ctl' = "ending" /\ UNCHANGED current
  <2>1. [id |-> 0, op |-> "__shutdown__"] \in Request
    BY Members
  <2>2. Tallied' /\ Counted' /\ Unheard' /\ Debt'
    BY <1>1, <1>3, <2>1, AsksCounts
  <2> QED BY <1>3, <2>2 DEF WedgeInv, AwaitsTheLast
<1>4. CASE ctl = "ending" /\ LetGo("ending", Killed)
  <2>1. current # 0
    BY <1>4 DEF ForgeInv, ClientIsAt
  <2>2. current \in DOMAIN processes /\ Blender = processes[current] /\ Well(Blender, nextId) /\ Blender \in Process
    BY <2>1, Held
  <2> DEFINE q == Dead(Blender)
  <2>3. Tally(q) /\ q.busy = Blender.busy /\ q \in Process
    BY <2>2, DeadTally, DeadWell DEF WedgeInv, Tallied, Well
  <2>4. Killed = [processes EXCEPT ![current] = q]
    BY <2>2 DEF Killed, Dead
  <2> HIDE DEF q
  <2>5. /\ Killed \in Seq(Process) /\ DOMAIN Killed = DOMAIN processes /\ Killed[current] = q
        /\ \A j \in DOMAIN processes : j # current => Killed[j] = processes[j]
    BY <2>2, <2>3, <2>4, Replaced DEF ForgeInv, Processes
  <2>6. Behind(Killed)
    BY <2>2, <2>3, <2>5 DEF WedgeInv, Tallied, Behind
  <2> QED BY <1>1, <1>4, <2>6, LetGoCounts
<1> QED BY <1>2, <1>3, <1>4 DEF Stop, End, Goes

LEMMA ExpireCounts == ForgeInv /\ WedgeInv /\ Expire => WedgeInv'
<1> SUFFICES ASSUME ForgeInv, WedgeInv, Expire PROVE WedgeInv'
  OBVIOUS
<1>1. /\ UNCHANGED <<ctl, processes, current, nextId, acks>> /\ ~late /\ late' = TRUE
      /\ ctl \in {"starting", "waiting"} /\ lates' = lates + 1 /\ lates \in Nat
  BY DEF Expire, WedgeInv, Counted
<1>2. lates' \in Nat /\ AwaitsTheLast' /\ Blender' = Blender
  BY <1>1 DEF AwaitsTheLast, WedgeInv, Blender
<1>3. lates + Pending + Unready' + Overdue' <= lates' + Pending' + Unready + Overdue
  BY <1>1, <1>2 DEF Unready, Overdue, Pending, Num
<1> QED BY <1>1, <1>2, <1>3, MovesCounts

-----------------------------------------------------------------------------
LEMMA WedgeInvInit == Init => WedgeInv
<1> SUFFICES ASSUME Init PROVE WedgeInv
  OBVIOUS
<1>1. acks = {} /\ lates = 0 /\ processes = <<>> /\ current = 0 /\ ctl = "idle"
  BY DEF Init
<1>2. Tallied /\ Unheard /\ AwaitsTheLast /\ Debt
  BY <1>1 DEF Tallied, Unheard, AwaitsTheLast, Debt, Running
<1>3. Counted
  BY <1>1, FS_EmptySet DEF Counted
<1> QED BY <1>2, <1>3 DEF WedgeInv

LEMMA WedgeInvNext == ForgeInv /\ WedgeInv /\ [Next]_vars => WedgeInv'
<1> SUFFICES ASSUME ForgeInv, WedgeInv, [Next]_vars PROVE WedgeInv'
  OBVIOUS
<1>1. CASE ClientStep
  BY <1>1, ServeCounts, EnsureCounts, StartsCounts, SendCounts, WaitCounts, StopCounts DEF ClientStep
<1>2. CASE Expire
  BY <1>2, ExpireCounts
<1>3. ASSUME NEW i \in DOMAIN processes, DaemonStep(i) \/ Chatter(i) \/ Die(i) PROVE WedgeInv'
  BY <1>3, DaemonCounts
<1>4. CASE UNCHANGED vars
  <2>1. UNCHANGED <<ctl, processes, current, nextId, late, acks, lates>>
    BY <1>4 DEF vars
  <2>2. Tallied' /\ Counted' /\ Unheard' /\ AwaitsTheLast'
    BY <2>1 DEF WedgeInv, Tallied, Counted, Unheard, AwaitsTheLast
  <2>3. Debt'
    BY <2>1 DEF WedgeInv, Debt, Running, Balanced, Unready, Overdue, Pending, Heard, Blender
  <2> QED BY <2>2, <2>3 DEF WedgeInv
<1> QED BY <1>1, <1>2, <1>3, <1>4 DEF Next

\* What a process was heard of it did, and more when an answer is still being written.
LEMMA HeardWasDone ==
  ASSUME ForgeInv, WedgeInv, current # 0
  PROVE  Heard + Num(Blender.busy.state = "answering") <= Cardinality(Blender.ran)
<1>1. /\ current \in DOMAIN processes /\ Blender = processes[current] /\ Well(Blender, nextId) /\ Blender \in Process
      /\ Tally(Blender)
  BY Held DEF WedgeInv, Tallied
<1> DEFINE mine == {ack \in acks : ack.by = current}
           busy == Blender.busy
           kept == IF busy.state = "answering" THEN Blender.ran \ {[id |-> busy.id, ok |-> busy.ok]} ELSE Blender.ran
           done == [ack \in mine |-> [id |-> ack.id, ok |-> ack.ok]]
<1>2. /\ IsFiniteSet(Blender.ran) /\ Cardinality(Blender.ran) \in Nat
      /\ busy.state = "answering" => [id |-> busy.id, ok |-> busy.ok] \in Blender.ran
  BY <1>1, Sizes DEF Tally, Well, TellsTrue
<1>3. IsFiniteSet(kept) /\ Cardinality(kept) + Num(busy.state = "answering") = Cardinality(Blender.ran)
  <2>1. CASE busy.state = "answering"
    <3> DEFINE last == [id |-> busy.id, ok |-> busy.ok]
               others == Blender.ran \ {last}
    <3>1. last \in Blender.ran /\ kept = others /\ Num(busy.state = "answering") = 1
      BY <1>2, <2>1 DEF Num
    <3> HIDE DEF last
    <3>2. IsFiniteSet(others) /\ Cardinality(others) = Cardinality(Blender.ran) - 1
      BY <1>2, <3>1, FS_RemoveElement
    <3> HIDE DEF others, kept
    <3> QED BY <1>2, <3>1, <3>2
  <2>2. CASE busy.state # "answering"
    BY <1>2, <2>2 DEF Num
  <2> QED BY <2>1, <2>2
<1>4. done \in Injection(mine, kept)
  <2>1. ASSUME NEW ack \in mine PROVE done[ack] \in kept
    BY <1>1 DEF ForgeInv, Acked, WedgeInv, Unheard
  <2>2. ASSUME NEW a \in mine, NEW b \in mine, done[a] = done[b] PROVE a = b
    <3>1. /\ a \in [id : Nat, ok : BOOLEAN, op : Ops, by : Nat] /\ b \in [id : Nat, ok : BOOLEAN, op : Ops, by : Nat]
          /\ a.by = current /\ b.by = current
          /\ [id |-> a.id, op |-> a.op] \in SentTo(Blender) /\ [id |-> b.id, op |-> b.op] \in SentTo(Blender)
      BY <1>1 DEF ForgeInv, Acked
    <3>2. a.id = b.id /\ a.ok = b.ok
      BY <2>2
    <3>3. a.op = b.op
      <4>1. PICK m \in DOMAIN Blender.sent : Blender.sent[m] = [id |-> a.id, op |-> a.op]
        BY <3>1 DEF SentTo
      <4>2. PICK n \in DOMAIN Blender.sent : Blender.sent[n] = [id |-> b.id, op |-> b.op]
        BY <3>1 DEF SentTo
      <4>3. Blender.sent[m] = Blender.sent[n]
        BY <1>1, <3>1, <3>2, <4>1, <4>2 DEF Well, Numbered
      <4> QED BY <4>1, <4>2, <4>3
    <3> QED BY <3>1, <3>2, <3>3
  <2>3. done \in [mine -> kept]
    BY <2>1
  <2> HIDE DEF done, mine, kept
  <2> QED BY <2>2, <2>3 DEF Injection, IsInjective
<1>5. Cardinality(mine) <= Cardinality(kept)
  <2> HIDE DEF done, mine, kept
  <2> QED BY <1>3, <1>4, FS_Injection
<1>6. Heard = Cardinality(mine) /\ Heard \in Nat /\ Cardinality(kept) \in Nat
  <2>1. Heard \in Nat
    BY HeardIs DEF WedgeInv, Counted
  <2> HIDE DEF kept
  <2> QED BY <1>3, <2>1, FS_CardinalityType DEF Heard
<1> HIDE DEF mine, kept
<1> QED BY <1>3, <1>5, <1>6 DEF Num

LEMMA WedgeInvIsSafe == ForgeInv /\ WedgeInv => WedgeNeedsTimeouts
<1> SUFFICES ASSUME ForgeInv, WedgeInv, Wedged
             PROVE  lates > InRoom /\ Len(Blender.sent) - Heard >= InRoom
  BY DEF WedgeNeedsTimeouts, Heard
<1>1. /\ current # 0 /\ ctl \in {"send", "stop"} /\ Running /\ ~Room
      /\ ~Blender.ready \/ Blender.busy.state = "answering"
  BY DEF Wedged, Running
<1>2. Blender \in Process /\ Tally(Blender) /\ Fits(Blender)
  BY <1>1, Held DEF WedgeInv, Tallied, Well
<1>3. Len(Blender.inbox) \in Nat /\ Len(Blender.sent) \in Nat /\ Cardinality(Blender.ran) \in Nat
  BY <1>2, Sizes
<1>4. Len(Blender.inbox) = InRoom /\ InRoom \in Nat
  BY <1>1, <1>2, <1>3, ForgeAssumption DEF Room, Fits
<1>5. Heard \in Nat /\ lates \in Nat
  BY HeardIs DEF WedgeInv, Counted
<1>6. Cardinality(Blender.ran) + InRoom <= Len(Blender.sent)
  BY <1>2, <1>3, <1>4 DEF Tally, Num
<1>7. Heard + Num(Blender.busy.state = "answering") <= Cardinality(Blender.ran)
  BY <1>1, HeardWasDone
<1>8. Len(Blender.sent) + Num(~Blender.ready) <= lates + Heard
  <2>1. Balanced
    BY <1>1 DEF WedgeInv, Debt
  <2>2. Unready = Num(~Blender.ready) /\ Overdue = 0 /\ Pending = 0
    BY <1>1 DEF Unready, Overdue, Pending, Num
  <2>3. Num(~Blender.ready) \in Nat
    BY DEF Num
  <2> QED BY <1>3, <1>5, <2>1, <2>2, <2>3 DEF Balanced
<1>9. Num(~Blender.ready) + Num(Blender.busy.state = "answering") >= 1
      /\ Num(~Blender.ready) \in Nat /\ Num(Blender.busy.state = "answering") \in Nat
  BY <1>1 DEF Num
<1> QED BY <1>3, <1>4, <1>5, <1>6, <1>7, <1>8, <1>9, SMTT(30), ZenonT(30)

\* Client and daemon wait for each other only when more deadlines were missed than stdin
\* holds lines, with as many calls left unanswered: for any pipes and any lateness.
THEOREM WedgesNeedTimeouts == Spec => []WedgeNeedsTimeouts
<1>1. Spec => []WedgeInv
  BY WedgeInvInit, WedgeInvNext, Always, PTL DEF Spec
<1> QED BY <1>1, WedgeInvIsSafe, Always, PTL

-----------------------------------------------------------------------------
(* The scene: what may be snapshot, saved and brought back. *)

IsName(n) == \E S : n \in Seq(S)

\* Among any objects there is one that hangs from none of them.
Ringless(s) == \A S \in SUBSET DOMAIN s : S # {} => \E o \in S : s[o].parent \notin S

IsObject(s, o) ==
  /\ s[o] = [name |-> s[o].name, parent |-> s[o].parent, mesh |-> s[o].mesh, shapes |-> s[o].shapes]
  /\ IsName(s[o].name) /\ s[o].parent \in DOMAIN s \cup {NoOne} /\ s[o].mesh \in BOOLEAN

Distinct(s) == \A o, p \in DOMAIN s : s[o].name = s[p].name => o = p

\* A scene that may be snapshot, saved and brought back.
Sound(s) ==
  /\ s = [o \in DOMAIN s |-> s[o]] /\ DOMAIN s \subseteq Objects
  /\ \A o \in DOMAIN s : IsObject(s, o)
  /\ Distinct(s) /\ Ringless(s)

-----------------------------------------------------------------------------
LEMMA NameGrows ==
  ASSUME NEW n, IsName(n), NEW x
  PROVE  /\ IsName(Append(n, x)) /\ Append(n, x) # n
         /\ \A y : Append(n, x) = Append(n, y) => x = y
<1>1. PICK S : n \in Seq(S)
  BY DEF IsName
<1>3. ASSUME NEW y
      PROVE  /\ Append(n, x) \in Seq(S \cup {x, y}) /\ Append(n, y) \in Seq(S \cup {x, y})
             /\ Append(n, x)[Len(n) + 1] = x /\ Append(n, y)[Len(n) + 1] = y
             /\ Len(Append(n, x)) = Len(n) + 1
  <2>1. n \in Seq(S \cup {x, y})
    BY <1>1
  <2> QED BY <2>1
<1>4. Append(n, x) \in Seq(S \cup {x, x})
  BY <1>3
<1>5. Append(n, x) # n
  BY <1>1, <1>3
<1>6. \A y : Append(n, x) = Append(n, y) => x = y
  BY <1>3
<1> QED BY <1>4, <1>5, <1>6 DEF IsName

LEMMA SanitizeNames == ASSUME NEW n, IsName(n) PROVE IsName(Sanitize(n))
<1>1. PICK S : n \in Seq(S)
  BY DEF IsName
<1>2. DOMAIN n = 1 .. Len(n) /\ Len(n) \in Nat
  BY <1>1
<1> DEFINE T == {Sanitize(n)[i] : i \in DOMAIN n}
<1>3. Sanitize(n) \in [1 .. Len(n) -> T]
  BY <1>2 DEF Sanitize
<1>4. Sanitize(n) \in Seq(T)
  BY <1>2, <1>3, SeqDef
<1> QED BY <1>4 DEF IsName

LEMMA MarksSuffice ==
  ASSUME NEW marks \in {Numbers, Dots}
  PROVE  /\ DOMAIN marks = 1 .. Len(marks) /\ Len(marks) \in Nat /\ MaxObjects <= Len(marks)
         /\ \A i, j \in DOMAIN marks : marks[i] = marks[j] => i = j
<1> DEFINE T == {marks[i] : i \in DOMAIN marks}
<1>1. marks \in Seq(T) /\ MaxObjects <= Len(marks) /\ \A i, j \in DOMAIN marks : marks[i] = marks[j] => i = j
  BY NamesSuffice
<1> HIDE DEF T
<1> QED BY <1>1

\* Some of the objects bear fewer names than there are marks.
LEMMA FewerThanMarks ==
  ASSUME NEW T, T \subseteq Objects, NEW gap \in Objects \ T, NEW marks \in {Numbers, Dots},
         NEW w \in [DOMAIN marks -> T]
  PROVE  \E i, j \in DOMAIN marks : i # j /\ w[i] = w[j]
<1> SUFFICES ASSUME \A i, j \in DOMAIN marks : w[i] = w[j] => i = j PROVE FALSE
  OBVIOUS
<1> DEFINE L == Len(marks)
<1>1. DOMAIN marks = 1 .. L /\ L \in Nat /\ MaxObjects <= L /\ MaxObjects \in Nat
  BY MarksSuffice, NamesSuffice
<1>2. IsFiniteSet(Objects) /\ Cardinality(Objects) = MaxObjects
  <2>1. IsFiniteSet(1 .. MaxObjects) /\ Cardinality(1 .. MaxObjects) = MaxObjects
    BY <1>1, FS_Interval
  <2> QED BY <2>1 DEF Objects
<1>3. IsFiniteSet(Objects \ {gap}) /\ Cardinality(Objects \ {gap}) = MaxObjects - 1
  BY <1>2, FS_RemoveElement
<1>4. IsFiniteSet(T) /\ Cardinality(T) <= MaxObjects - 1
  <2>1. T \subseteq Objects \ {gap}
    OBVIOUS
  <2> QED BY <1>3, <2>1, FS_Subset
<1>5. IsFiniteSet(1 .. L) /\ Cardinality(1 .. L) = L
  <2> HIDE DEF L
  <2> QED BY <1>1, FS_Interval
<1>6. w \in Injection(1 .. L, T)
  BY <1>1 DEF Injection, IsInjective
<1>7. Cardinality(1 .. L) <= Cardinality(T) /\ Cardinality(T) \in Nat
  BY <1>4, <1>6, FS_Injection, FS_CardinalityType
<1> HIDE DEF L
<1> QED BY <1>1, <1>4, <1>5, <1>7

\* One of the marks is free when not all of the objects bear the others.
LEMMA FirstFreeIsFree ==
  ASSUME NEW s, NEW base, IsName(base), NEW marks \in {Numbers, Dots},
         NEW T, T \subseteq Objects, NEW gap \in Objects \ T,
         \A i \in DOMAIN marks : Append(base, marks[i]) \in Taken(s)
                                  => \E o \in T : s[o].name = Append(base, marks[i])
  PROVE  /\ FirstFree(s, base, marks) \notin Taken(s) /\ IsName(FirstFree(s, base, marks))
         /\ \E i \in DOMAIN marks : FirstFree(s, base, marks) = Append(base, marks[i])
<1> DEFINE Free(i) == Append(base, marks[i]) \notin Taken(s)
           i0 == CHOOSE i \in DOMAIN marks : Free(i) /\ \A j \in 1 .. i - 1 : ~Free(j)
<1>1. DOMAIN marks = 1 .. Len(marks) /\ Len(marks) \in Nat
      /\ \A i, j \in DOMAIN marks : marks[i] = marks[j] => i = j
  BY MarksSuffice
<1>2. \E i \in DOMAIN marks : Free(i)
  <2> SUFFICES ASSUME \A i \in DOMAIN marks : ~Free(i) PROVE FALSE
    OBVIOUS
  <2> DEFINE w == [i \in DOMAIN marks |-> CHOOSE o \in T : s[o].name = Append(base, marks[i])]
  <2>1. \A i \in DOMAIN marks : w[i] \in T /\ s[w[i]].name = Append(base, marks[i])
    OBVIOUS
  <2>2. w \in [DOMAIN marks -> T]
    BY <2>1
  <2> HIDE DEF w
  <2>3. PICK i, j \in DOMAIN marks : i # j /\ w[i] = w[j]
    BY <2>2, FewerThanMarks
  <2>4. Append(base, marks[i]) = Append(base, marks[j])
    BY <2>1, <2>3
  <2> QED BY <1>1, <2>3, <2>4, NameGrows
<1>3. \E i \in DOMAIN marks : Free(i) /\ \A j \in 1 .. i - 1 : ~Free(j)
  <2> DEFINE F == {i \in DOMAIN marks : Free(i)}
  <2>1. F \subseteq Nat /\ F # {}
    BY <1>1, <1>2
  <2> HIDE DEF Free
  <2>2. PICK i \in F : \A j \in F : i <= j
    <3> HIDE DEF F
    <3> QED BY <2>1, LeastOf
  <2>3. \A j \in 1 .. i - 1 : j \in DOMAIN marks /\ ~(i <= j)
    BY <1>1, <2>2
  <2> QED BY <2>2, <2>3
<1> HIDE DEF Free
<1>4. i0 \in DOMAIN marks /\ Free(i0)
  BY <1>3
<1>5. FirstFree(s, base, marks) = Append(base, marks[i0])
  <2>1. FirstFree(s, base, marks)
          = Append(base, marks[CHOOSE i \in DOMAIN marks :
                                 /\ Append(base, marks[i]) \notin Taken(s)
                                 /\ \A j \in 1 .. i - 1 : Append(base, marks[j]) \in Taken(s)])
    BY DEF FirstFree
  <2>2. ASSUME NEW i
        PROVE  (Free(i) /\ \A j \in 1 .. i - 1 : ~Free(j))
                 <=> /\ Append(base, marks[i]) \notin Taken(s)
                     /\ \A j \in 1 .. i - 1 : Append(base, marks[j]) \in Taken(s)
    BY DEF Free
  <2> QED BY <2>1, <2>2
<1> HIDE DEF i0
<1> QED BY <1>4, <1>5, NameGrows DEF Free

\* What unique_name answers is free.
LEMMA UniqueNameIsFree ==
  ASSUME NEW s, DOMAIN s \subseteq Objects, NEW name, IsName(name)
  PROVE  /\ UniqueName(s, name) \notin Taken(s) /\ IsName(UniqueName(s, name))
         /\ Sanitize(name) \notin Taken(s) => UniqueName(s, name) = Sanitize(name)
<1> DEFINE base == Sanitize(name)
<1>1. IsName(base)
  BY SanitizeNames
<1>2. CASE base \in Taken(s)
  <2>1. PICK o \in DOMAIN s : s[o].name = base
    BY <1>2 DEF Taken
  <2> DEFINE T == DOMAIN s \ {o}
  <2>2. T \subseteq Objects /\ o \in Objects \ T
    BY <2>1
  <2>3. \A i \in DOMAIN Numbers : Append(base, Numbers[i]) # base
    BY <1>1, NameGrows
  <2>4. \A i \in DOMAIN Numbers : Append(base, Numbers[i]) \in Taken(s)
                            => \E p \in T : s[p].name = Append(base, Numbers[i])
    BY <2>1, <2>3 DEF Taken
  <2>5. Numbers \in {Numbers, Dots}
    OBVIOUS
  <2> HIDE DEF T
  <2>6. FirstFree(s, base, Numbers) \notin Taken(s) /\ IsName(FirstFree(s, base, Numbers))
    BY <1>1, <2>2, <2>4, <2>5, FirstFreeIsFree
  <2> QED BY <1>2, <2>6 DEF UniqueName
<1>3. CASE base \notin Taken(s)
  BY <1>1, <1>3 DEF UniqueName
<1> QED BY <1>2, <1>3

\* What Blender makes of a name is free, and the name itself if that is.
Bare(name) ==
  IF name[Len(name)] \in {Dots[i] : i \in DOMAIN Dots} THEN SubSeq(name, 1, Len(name) - 1) ELSE name
Outcomes(name) == {name} \cup {Append(Bare(name), Dots[i]) : i \in DOMAIN Dots}

LEMMA BlenderNameIsFree ==
  ASSUME NEW s, DOMAIN s \subseteq Objects, NEW gap \in Objects \ DOMAIN s, NEW name, IsName(name)
  PROVE  /\ BlenderName(s, name) \notin Taken(s) /\ IsName(BlenderName(s, name))
         /\ BlenderName(s, name) \in Outcomes(name)
         /\ name \notin Taken(s) => BlenderName(s, name) = name
<1> DEFINE bare == Bare(name)
<1>1. IsName(bare)
  <2>1. PICK S : name \in Seq(S)
    BY DEF IsName
  <2>2. SubSeq(name, 1, Len(name) - 1) \in Seq(S)
    <3>1. Len(name) \in Nat /\ DOMAIN name = 1 .. Len(name)
      BY <2>1
    <3>2. \A i \in 1 .. Len(name) - 1 : name[i] \in S
      BY <2>1, <3>1
    <3> QED BY <2>1, <3>1, <3>2, SubSeqProperties
  <2> QED BY <2>1, <2>2 DEF IsName, Bare
<1>2. \A n \in Taken(s) : \E o \in DOMAIN s : s[o].name = n
  BY DEF Taken
<1>3. Dots \in {Numbers, Dots}
  OBVIOUS
<1>4. BlenderName(s, name) = IF name \notin Taken(s) THEN name ELSE FirstFree(s, bare, Dots)
  BY DEF BlenderName, Bare
<1> HIDE DEF bare
<1>5. /\ FirstFree(s, bare, Dots) \notin Taken(s) /\ IsName(FirstFree(s, bare, Dots))
      /\ \E i \in DOMAIN Dots : FirstFree(s, bare, Dots) = Append(bare, Dots[i])
  <2>1. \A i \in DOMAIN Dots : Append(bare, Dots[i]) \in Taken(s)
                               => \E o \in DOMAIN s : s[o].name = Append(bare, Dots[i])
    BY <1>2
  <2> QED BY <1>1, <1>3, <2>1, FirstFreeIsFree
<1> QED BY <1>4, <1>5 DEF Outcomes, bare

-----------------------------------------------------------------------------
(* Rings. *)

\* Objects that hang where they hung, or from nothing, or from which nothing hangs, make
\* no ring.
LEMMA RingsStayAway ==
  ASSUME NEW s, NEW t, Ringless(s), NoOne \notin DOMAIN t,
         \A o \in DOMAIN s : s[o].parent \in DOMAIN s \cup {NoOne},
         \A o \in DOMAIN t \cap DOMAIN s : t[o].parent \in {s[o].parent, NoOne},
         \A o \in DOMAIN t \ DOMAIN s : \A p \in DOMAIN t : t[p].parent # o
  PROVE  Ringless(t)
<1> SUFFICES ASSUME NEW S \in SUBSET DOMAIN t, S # {} PROVE \E o \in S : t[o].parent \notin S
  BY DEF Ringless
<1>1. CASE S \cap DOMAIN s = {}
  <2>1. PICK o \in S : TRUE
    OBVIOUS
  <2>2. t[o].parent \notin S
    BY <1>1, <2>1
  <2> QED BY <2>1, <2>2
<1>2. CASE S \cap DOMAIN s # {}
  <2>1. PICK o \in S \cap DOMAIN s : s[o].parent \notin S \cap DOMAIN s
    BY <1>2 DEF Ringless
  <2>2. s[o].parent \in DOMAIN s \cup {NoOne} /\ t[o].parent \in {s[o].parent, NoOne}
    BY <2>1
  <2> QED BY <2>1, <2>2
<1> QED BY <1>1, <1>2

\* The objects of A hang from objects of A.
Upward(s, A) == \A p \in A \ {NoOne} : s[p].parent \in A

\* A new edge makes no ring when its end does not lead back to its beginning.
LEMMA NewEdge ==
  ASSUME NEW s, NEW t, Ringless(s), DOMAIN t = DOMAIN s, NoOne \notin DOMAIN s,
         NEW o \in DOMAIN s, \A x \in DOMAIN s \ {o} : t[x].parent = s[x].parent,
         NEW A, t[o].parent \in A, o \notin A, Upward(s, A)
  PROVE  Ringless(t)
<1> SUFFICES ASSUME NEW S \in SUBSET DOMAIN t, S # {}, \A x \in S : t[x].parent \in S
             PROVE  FALSE
  BY DEF Ringless
<1>1. CASE o \notin S
  <2>1. PICK x \in S : s[x].parent \notin S
    BY DEF Ringless
  <2> QED BY <1>1, <2>1
<1>2. CASE o \in S
  <2>1. t[o].parent \in S \cap A
    BY <1>2
  <2>2. PICK x \in S \cap A : s[x].parent \notin S \cap A
    BY <2>1 DEF Ringless
  <2>3. x # o /\ x # NoOne /\ x \in DOMAIN s
    BY <2>2
  <2>4. s[x].parent \in A /\ s[x].parent \in S
    BY <2>2, <2>3 DEF Upward
  <2> QED BY <2>2, <2>4
<1> QED BY <1>1, <1>2

\* From an object there is a way up that does not lead back to it.
LEMMA WayUp ==
  ASSUME NEW s, Ringless(s), NoOne \notin DOMAIN s,
         \A o \in DOMAIN s : s[o].parent \in DOMAIN s \cup {NoOne},
         NEW o \in DOMAIN s
  PROVE  \E A \in SUBSET (DOMAIN s \cup {NoOne}) : s[o].parent \in A /\ o \notin A /\ Upward(s, A)
<1> DEFINE Ways == {A \in SUBSET (DOMAIN s \cup {NoOne}) : o \notin A /\ Upward(s, A)}
           Back == {x \in DOMAIN s : \A A \in Ways : x \notin A}
<1>1. o \in Back
  OBVIOUS
<1>2. {NoOne} \in Ways
  BY DEF Upward
<1>3. PICK x \in Back : s[x].parent \notin Back
  BY <1>1 DEF Ringless
<1>4. PICK A \in Ways : s[x].parent \in A
  BY <1>2, <1>3
<1>5. x = o
  <2> SUFFICES ASSUME x # o PROVE FALSE
    OBVIOUS
  <2>1. A \cup {x} \in Ways
    BY <1>3, <1>4 DEF Upward
  <2> QED BY <1>3, <2>1
<1> QED BY <1>4, <1>5

-----------------------------------------------------------------------------
(* The line an object hangs from. *)

Above(u) == u \cup {scene[p].parent : p \in u \ {NoOne}}

IsLine(f, o) == f = [n \in 0 .. MaxObjects |-> IF n = 0 THEN {o} ELSE Above(f[n - 1])]

LEMMA LineExists ==
  ASSUME \A p \in DOMAIN scene : scene[p].parent \in DOMAIN scene \cup {NoOne},
         NEW o \in DOMAIN scene \cup {NoOne}
  PROVE  \E f \in [0 .. MaxObjects -> SUBSET (DOMAIN scene \cup {NoOne})] :
           IsLine(f, o) /\ HangingLine(o) = f[MaxObjects]
<1> DEFINE N == MaxObjects
           T == SUBSET (DOMAIN scene \cup {NoOne})
           g == [k \in 1 .. N |-> [u \in T |-> Above(u)]]
           up == CHOOSE f : IsLine(f, o)
<1>1. N \in Nat /\ {o} \in T
  BY NamesSuffice
<1>2. \A u \in T : Above(u) \in T
  BY DEF Above
<1>3. \A k \in 1 .. N : \A u \in T : g[k][u] = Above(u) /\ g[k][u] \in T
  BY <1>2
<1> HIDE DEF g
<1>4. PICK f0 \in [0 .. N -> T] : Recurs(f0, {o}, g, N)
  <2> HIDE DEF T, N
  <2> QED BY <1>1, <1>3, Recursion
<1>5. IsLine(f0, o)
  <2>1. \A k \in 0 .. N : k # 0 => g[k][f0[k - 1]] = Above(f0[k - 1])
    BY <1>1, <1>3
  <2> QED BY <1>4, <2>1 DEF Recurs, IsLine
<1>6. IsLine(up, o)
  BY <1>5
<1>7. HangingLine(o) = up[N]
  BY DEF HangingLine, IsLine, Above
<1> HIDE DEF up
<1>8. up = f0
  <2>1. up[0] = f0[0]
    BY <1>1, <1>5, <1>6 DEF IsLine
  <2>2. ASSUME NEW n \in Nat, n + 1 <= N, up[n] = f0[n] PROVE up[n + 1] = f0[n + 1]
    <3>1. n + 1 \in 0 .. N /\ n + 1 # 0 /\ (n + 1) - 1 = n
      BY <1>1, <2>2
    <3>2. up[n + 1] = Above(up[n])
      BY <1>6, <3>1 DEF IsLine
    <3>3. f0[n + 1] = Above(f0[n])
      BY <1>5, <3>1 DEF IsLine
    <3> QED BY <2>2, <3>2, <3>3
  <2>3. \A k \in 0 .. N : up[k] = f0[k]
    <3>1. N \in Nat
      BY <1>1
    <3>2. \A n \in Nat : n + 1 <= N /\ up[n] = f0[n] => up[n + 1] = f0[n + 1]
      BY <2>2
    <3> HIDE DEF N
    <3> QED BY <3>1, <3>2, <2>1, Agreeing
  <2>4. up = [k \in 0 .. N |-> up[k]] /\ f0 = [k \in 0 .. N |-> f0[k]]
    BY <1>6 DEF IsLine
  <2> QED BY <2>3, <2>4
<1> QED BY <1>5, <1>7, <1>8

\* The line ends: as many steps as there are objects are enough.
LEMMA LineIsWhole ==
  ASSUME DOMAIN scene \subseteq Objects, NoOne \notin DOMAIN scene,
         \A p \in DOMAIN scene : scene[p].parent \in DOMAIN scene \cup {NoOne},
         NEW o \in DOMAIN scene \cup {NoOne}
  PROVE  /\ o \in HangingLine(o) /\ Upward(scene, HangingLine(o))
         /\ \A A : o \in A /\ Upward(scene, A) => HangingLine(o) \subseteq A
<1> DEFINE N == MaxObjects
           All == DOMAIN scene \cup {NoOne}
<1>1. PICK f \in [0 .. N -> SUBSET All] : IsLine(f, o) /\ HangingLine(o) = f[N]
  BY LineExists
<1>2. N \in Nat /\ IsFiniteSet(All) /\ Cardinality(All) <= N + 1
  <2>1. N \in Nat /\ IsFiniteSet(Objects) /\ Cardinality(Objects) = N
    <3>1. N \in Nat /\ IsFiniteSet(1 .. N) /\ Cardinality(1 .. N) = N
      BY NamesSuffice, FS_Interval
    <3> QED BY <3>1 DEF Objects
  <2>2. IsFiniteSet(DOMAIN scene) /\ Cardinality(DOMAIN scene) <= N
    BY <2>1, FS_Subset
  <2>3. IsFiniteSet(All) /\ Cardinality(All) = Cardinality(DOMAIN scene) + 1
    BY <2>2, FS_AddElement
  <2>4. Cardinality(DOMAIN scene) \in Nat
    BY <2>2, FS_CardinalityType
  <2> HIDE DEF N, All
  <2> QED BY <2>1, <2>2, <2>3, <2>4
<1> HIDE DEF N
<1>3. f[0] = {o} /\ \A k \in Nat : k + 1 <= N => f[k + 1] = Above(f[k])
  <2>1. f[0] = {o}
    BY <1>1, <1>2 DEF IsLine, N
  <2>2. ASSUME NEW k \in Nat, k + 1 <= N PROVE f[k + 1] = Above(f[k])
    <3>1. k + 1 \in 0 .. N /\ k + 1 # 0 /\ (k + 1) - 1 = k
      BY <1>2, <2>2
    <3> QED BY <1>1, <3>1 DEF IsLine, N
  <2> QED BY <2>1, <2>2
<1>4. \A k \in 0 .. N : f[k] \subseteq All /\ IsFiniteSet(f[k]) /\ Cardinality(f[k]) \in Nat
  <2> SUFFICES ASSUME NEW k \in 0 .. N
               PROVE  f[k] \subseteq All /\ IsFiniteSet(f[k]) /\ Cardinality(f[k]) \in Nat
    OBVIOUS
  <2>1. f[k] \subseteq All
    BY <1>1
  <2> HIDE DEF All
  <2>2. IsFiniteSet(f[k])
    BY <1>2, <2>1, FS_Subset
  <2> QED BY <2>1, <2>2, FS_CardinalityType
<1> HIDE DEF All
<1>5. o \in f[N]
  <2> DEFINE S == {k \in Nat : k <= N => o \in f[k]}
  <2>1. 0 \in S
    BY <1>3
  <2>2. \A k \in Nat : k \in S => k + 1 \in S
    BY <1>2, <1>3 DEF Above
  <2>3. Nat \subseteq S
    <3> HIDE DEF S
    <3> QED BY <2>1, <2>2, SetInduction
  <2> QED BY <1>2, <2>3
<1>6. Above(f[N]) = f[N]
  <2> DEFINE Still(u) == Above(u) = u
             S == {k \in Nat : k <= N => Still(f[k]) \/ Cardinality(f[k]) >= k + 1}
  <2>1. 0 \in S
    <3>1. Cardinality({o}) = 1
      BY FS_Singleton
    <3>2. Cardinality(f[0]) >= 0 + 1
      BY <1>3, <3>1
    <3> QED BY <3>2
  <2>2. ASSUME NEW k \in Nat, k \in S PROVE k + 1 \in S
    <3> SUFFICES ASSUME k + 1 <= N PROVE Still(f[k + 1]) \/ Cardinality(f[k + 1]) >= k + 2
      OBVIOUS
    <3>1. k \in 0 .. N /\ k + 1 \in 0 .. N /\ f[k + 1] = Above(f[k])
      BY <1>2, <1>3
    <3>2. CASE Still(f[k])
      BY <3>1, <3>2
    <3>3. CASE ~Still(f[k])
      <4>1. Cardinality(f[k]) >= k + 1
        BY <1>2, <2>2, <3>1, <3>3
      <4>2. f[k] \subseteq f[k + 1] /\ f[k] # f[k + 1]
        BY <3>1, <3>3 DEF Above
      <4>3. Cardinality(f[k]) <= Cardinality(f[k + 1])
        BY <1>4, <3>1, <4>2, FS_Subset
      <4>4. Cardinality(f[k]) # Cardinality(f[k + 1])
        BY <1>4, <3>1, <4>2, FS_Subset
      <4>5. Cardinality(f[k]) \in Nat /\ Cardinality(f[k + 1]) \in Nat
        BY <1>4, <3>1
      <4>6. Cardinality(f[k + 1]) >= k + 2
        BY <4>1, <4>3, <4>4, <4>5
      <4> QED BY <4>6
    <3> QED BY <3>2, <3>3
  <2>3. Nat \subseteq S
    <3> HIDE DEF S
    <3> QED BY <2>1, <2>2, SetInduction
  <2>4. Still(f[N]) \/ Cardinality(f[N]) >= N + 1
    BY <1>2, <2>3
  <2>5. CASE Cardinality(f[N]) >= N + 1
    <3>1. f[N] \subseteq All /\ Cardinality(f[N]) \in Nat
      BY <1>2, <1>4
    <3>2. Cardinality(All) \in Nat /\ Cardinality(f[N]) <= Cardinality(All)
      BY <1>2, <3>1, FS_CardinalityType, FS_Subset
    <3>3. Cardinality(f[N]) = Cardinality(All)
      BY <1>2, <2>5, <3>1, <3>2
    <3>4. f[N] = All
      BY <1>2, <3>1, <3>3, FS_Subset
    <3> QED BY <3>4 DEF Above, All
  <2> QED BY <2>4, <2>5
<1>7. ASSUME NEW A, o \in A, Upward(scene, A) PROVE f[N] \subseteq A
  <2> DEFINE S == {k \in Nat : k <= N => f[k] \subseteq A}
  <2>1. 0 \in S
    BY <1>3, <1>7
  <2>2. \A k \in Nat : k \in S => k + 1 \in S
    <3> SUFFICES ASSUME NEW k \in Nat, k \in S, k + 1 <= N PROVE f[k + 1] \subseteq A
      OBVIOUS
    <3>1. f[k] \subseteq A /\ f[k + 1] = Above(f[k])
      BY <1>2, <1>3
    <3> QED BY <1>7, <3>1 DEF Above, Upward
  <2>3. Nat \subseteq S
    <3> HIDE DEF S
    <3> QED BY <2>1, <2>2, SetInduction
  <2> QED BY <1>2, <2>3
<1>8. Upward(scene, f[N])
  BY <1>6 DEF Upward, Above
<1> QED BY <1>1, <1>5, <1>7, <1>8

-----------------------------------------------------------------------------
(* What one operation after the other does to a scene. *)

LEMMA SoundParts ==
  ASSUME NEW s, Sound(s)
  PROVE  /\ DOMAIN s \subseteq Objects /\ NoOne \notin DOMAIN s
         /\ \A o \in DOMAIN s : /\ s[o] = [name |-> s[o].name, parent |-> s[o].parent, mesh |-> s[o].mesh, shapes |-> s[o].shapes]
                                /\ IsName(s[o].name) /\ s[o].parent \in DOMAIN s \cup {NoOne} /\ s[o].mesh \in BOOLEAN
<1>1. DOMAIN s \subseteq Objects /\ NoOne \notin DOMAIN s
  BY NamesAreLists DEF Sound, Objects
<1> QED BY <1>1 DEF Sound, IsObject

LEMMA WithoutIsSound ==
  ASSUME NEW s, Sound(s), NEW gone
  PROVE  LET t == Without(s, gone)
         IN /\ Sound(t) /\ DOMAIN t = DOMAIN s \ gone
            /\ \A o \in DOMAIN s \ gone : t[o].name = s[o].name
            /\ \A o \in DOMAIN s \ gone : t[o].shapes = s[o].shapes
<1> DEFINE t == Without(s, gone)
<1>1. DOMAIN t = DOMAIN s \ gone /\ t = [o \in DOMAIN t |-> t[o]]
  BY DEF Without
<1>2. ASSUME NEW o \in DOMAIN t
      PROVE  /\ IsObject(t, o) /\ t[o].name = s[o].name /\ t[o].shapes = s[o].shapes
             /\ t[o].parent \in {s[o].parent, NoOne}
  <2>1. t[o] = IF s[o].parent \in gone THEN [s[o] EXCEPT !.parent = NoOne] ELSE s[o]
    BY <1>1 DEF Without
  <2>2. s[o] = [name |-> s[o].name, parent |-> s[o].parent, mesh |-> s[o].mesh, shapes |-> s[o].shapes]
        /\ IsName(s[o].name) /\ s[o].parent \in DOMAIN s \cup {NoOne} /\ s[o].mesh \in BOOLEAN
    BY <1>1, SoundParts
  <2>3. CASE s[o].parent \in gone
    <3>1. t[o] = [name |-> s[o].name, parent |-> NoOne, mesh |-> s[o].mesh, shapes |-> s[o].shapes]
      BY <2>1, <2>2, <2>3
    <3> HIDE DEF t
    <3> QED BY <2>2, <3>1 DEF IsObject
  <2>4. CASE s[o].parent \notin gone
    <3>1. t[o] = s[o]
      BY <2>1, <2>4
    <3> HIDE DEF t
    <3> QED BY <1>1, <2>2, <2>4, <3>1 DEF IsObject
  <2> QED BY <2>3, <2>4
<1> HIDE DEF t
<1>3. Distinct(t)
  BY <1>1, <1>2 DEF Distinct, Sound
<1>4. Ringless(t)
  <2>1. \A o \in DOMAIN s : s[o].parent \in DOMAIN s \cup {NoOne}
    BY SoundParts
  <2>2. NoOne \notin DOMAIN t /\ DOMAIN t \subseteq DOMAIN s
    BY <1>1, SoundParts
  <2>3. \A o \in DOMAIN t \cap DOMAIN s : t[o].parent \in {s[o].parent, NoOne}
    BY <1>2
  <2> QED BY <2>1, <2>2, <2>3, RingsStayAway DEF Sound
<1> QED BY <1>1, <1>2, <1>3, <1>4 DEF Sound, t

\* A new object where there is room.
LEMMA WithIsSound ==
  ASSUME NEW s, Sound(s), Objects \ DOMAIN s # {},
         NEW x, IsName(x.name), x.name \notin Taken(s), x.parent \in DOMAIN s \cup {NoOne}, x.mesh \in BOOLEAN,
         x = [name |-> x.name, parent |-> x.parent, mesh |-> x.mesh, shapes |-> x.shapes]
  PROVE  LET t == With(s, x)
         IN /\ Sound(t) /\ NextId(s) \in Objects \ DOMAIN s
            /\ DOMAIN t = DOMAIN s \cup {NextId(s)} /\ t[NextId(s)] = x
            /\ \A o \in DOMAIN s : t[o] = s[o]
            /\ Taken(t) = Taken(s) \cup {x.name}
<1> DEFINE t == With(s, x)
           new == NextId(s)
<1>1. new \in Objects \ DOMAIN s
  <2>1. Objects \ DOMAIN s \subseteq Nat
    BY NamesSuffice DEF Objects
  <2>2. \E o \in Objects \ DOMAIN s : \A p \in Objects \ DOMAIN s : o <= p
    BY <2>1, LeastOf
  <2> QED BY <2>2 DEF NextId
<1> HIDE DEF new
<1>2. DOMAIN t = DOMAIN s \cup {new} /\ t[new] = x /\ (\A o \in DOMAIN s : t[o] = s[o])
      /\ t = [o \in DOMAIN t |-> t[o]]
  BY <1>1 DEF With, new
<1> HIDE DEF t
<1>3. \A o \in DOMAIN t : IsObject(t, o)
  <2> SUFFICES ASSUME NEW o \in DOMAIN t PROVE IsObject(t, o)
    OBVIOUS
  <2>1. CASE o = new
    BY <1>2, <2>1 DEF IsObject
  <2>2. CASE o \in DOMAIN s
    BY <1>2, <2>2, SoundParts DEF IsObject
  <2> QED BY <1>2, <2>1, <2>2
<1>4. Taken(t) = Taken(s) \cup {x.name}
  BY <1>2 DEF Taken
<1>5. Distinct(t)
  BY <1>1, <1>2 DEF Distinct, Sound, Taken
<1>6. Ringless(t)
  <2>1. NoOne \notin DOMAIN s /\ \A o \in DOMAIN s : s[o].parent \in DOMAIN s \cup {NoOne}
    BY SoundParts
  <2>2. new # NoOne /\ new \notin DOMAIN s
    BY <1>1, NamesAreLists DEF Objects
  <2>3. NoOne \notin DOMAIN t
    BY <1>2, <2>1, <2>2
  <2>4. \A o \in DOMAIN t \cap DOMAIN s : t[o].parent \in {s[o].parent, NoOne}
    BY <1>2
  <2>5. \A o \in DOMAIN t \ DOMAIN s : \A p \in DOMAIN t : t[p].parent # o
    <3> SUFFICES ASSUME NEW p \in DOMAIN t PROVE t[p].parent # new
      BY <1>2
    <3>1. CASE p = new
      BY <1>2, <2>2, <3>1
    <3>2. CASE p \in DOMAIN s
      BY <1>2, <2>1, <2>2, <3>2
    <3> QED BY <1>2, <3>1, <3>2
  <2> QED BY <2>1, <2>3, <2>4, <2>5, RingsStayAway DEF Sound
<1>7. DOMAIN t \subseteq Objects
  BY <1>1, <1>2 DEF Sound
<1>8. Sound(t)
  BY <1>2, <1>3, <1>5, <1>6, <1>7 DEF Sound
<1> QED BY <1>1, <1>2, <1>4, <1>8 DEF t, new

\* An object that is given a name bears it if no other does, and another if one does.
LEMMA NamedIsSound ==
  ASSUME NEW s, Sound(s), NEW o \in DOMAIN s, NEW name, IsName(name)
  PROVE  LET t == Named(s, o, name)
         IN /\ Sound(t) /\ DOMAIN t = DOMAIN s
            /\ \A p \in DOMAIN s \ {o} : t[p] = s[p]
            /\ t[o].name \in Outcomes(name)
            /\ t[o].parent = s[o].parent /\ t[o].mesh = s[o].mesh /\ t[o].shapes = s[o].shapes
            /\ (\A p \in DOMAIN s \ {o} : s[p].name # name) => t[o].name = name
<1> DEFINE t == Named(s, o, name)
           rest == Without(s, {o})
           given == BlenderName(rest, name)
<1>1. Sound(rest) /\ DOMAIN rest = DOMAIN s \ {o} /\ \A p \in DOMAIN rest : rest[p].name = s[p].name
  <2>1. /\ Sound(Without(s, {o})) /\ DOMAIN Without(s, {o}) = DOMAIN s \ {o}
        /\ \A p \in DOMAIN s \ {o} : Without(s, {o})[p].name = s[p].name
    BY WithoutIsSound
  <2> QED BY <2>1
<1>2. DOMAIN s \subseteq Objects /\ NoOne \notin DOMAIN s
  BY SoundParts
<1> HIDE DEF rest
<1>3. given \notin Taken(rest) /\ IsName(given) /\ given \in Outcomes(name) /\ (name \notin Taken(rest) => given = name)
  <2>1. DOMAIN rest \subseteq Objects /\ o \in Objects \ DOMAIN rest
    BY <1>1, <1>2
  <2> QED BY <2>1, BlenderNameIsFree
<1>4. t = [s EXCEPT ![o].name = given]
  BY DEF Named, rest
<1> HIDE DEF given, t
<1>5. /\ DOMAIN t = DOMAIN s /\ t = [p \in DOMAIN t |-> t[p]]
      /\ (\A p \in DOMAIN s \ {o} : t[p] = s[p]) /\ t[o] = [s[o] EXCEPT !.name = given]
  BY <1>4
<1>6. t[o] = [name |-> given, parent |-> s[o].parent, mesh |-> s[o].mesh, shapes |-> s[o].shapes]
  <2>1. s[o] = [name |-> s[o].name, parent |-> s[o].parent, mesh |-> s[o].mesh, shapes |-> s[o].shapes]
    BY SoundParts
  <2> QED BY <1>5, <2>1
<1>7. t[o].name = given /\ t[o].parent = s[o].parent /\ t[o].mesh = s[o].mesh /\ t[o].shapes = s[o].shapes
  BY <1>6
<1>8. \A p \in DOMAIN t : IsObject(t, p)
  <2> SUFFICES ASSUME NEW p \in DOMAIN t PROVE IsObject(t, p)
    OBVIOUS
  <2>1. CASE p = o
    BY <1>3, <1>5, <1>6, <1>7, <2>1, SoundParts DEF IsObject
  <2>2. CASE p # o
    BY <1>5, <2>2, SoundParts DEF IsObject
  <2> QED BY <2>1, <2>2
<1>9. \A p \in DOMAIN s \ {o} : t[p].name # given
  BY <1>1, <1>3, <1>5 DEF Taken
<1>10. Distinct(t)
  <2>1. \A p, q \in DOMAIN t : t[p].name = t[q].name => p = q
    BY <1>5, <1>7, <1>9 DEF Distinct, Sound
  <2> QED BY <2>1 DEF Distinct
<1>11. Ringless(t)
  <2>1. \A p \in DOMAIN s : t[p].parent = s[p].parent /\ s[p].parent \in DOMAIN s \cup {NoOne}
    BY <1>5, <1>7, SoundParts
  <2> QED BY <1>2, <1>5, <2>1, RingsStayAway DEF Sound
<1>12. Sound(t)
  BY <1>5, <1>8, <1>10, <1>11 DEF Sound
<1>13. (\A p \in DOMAIN s \ {o} : s[p].name # name) => t[o].name = name
  BY <1>1, <1>3, <1>7 DEF Taken
<1> QED BY <1>3, <1>5, <1>7, <1>12, <1>13 DEF t

-----------------------------------------------------------------------------
(* The invariant, and the operations one by one. *)

SceneInv ==
  /\ Sound(scene)
  /\ DOMAIN snapshots = Labels /\ \A l \in Labels : snapshots[l] = NoScene \/ Sound(snapshots[l])
  /\ asset = NoScene \/ Sound(asset)
  /\ DOMAIN files = {FileOf[l] : l \in Labels}
  /\ said.names \subseteq Taken(scene)

\* No name that is replaced is one that a replaced name may get.
RenamesApart ==
  \A rename \in Renames : \A i, j \in DOMAIN rename : rename[i][1] \notin Outcomes(rename[j][2])

Operated ==
  SceneInv' /\ RestoreExact /\ JoinAsAsked /\ (RenamesApart => ExportLeavesMaster)

LEMMA NamesAreNames ==
  /\ \A name \in Wanted \cup Foreign \cup Prefixes : IsName(name)
  /\ \A rename \in Renames :
       /\ Len(rename) \in Nat /\ DOMAIN rename = 1 .. Len(rename)
       /\ \A i \in DOMAIN rename : IsName(rename[i][1]) /\ IsName(rename[i][2])
<1>1. ASSUME NEW name \in Wanted \cup Foreign \cup Prefixes PROVE IsName(name)
  BY NamesAreLists DEF IsName
<1>2. ASSUME NEW rename \in Renames
      PROVE  Len(rename) \in Nat /\ DOMAIN rename = 1 .. Len(rename)
  <2> DEFINE S == {rename[i] : i \in DOMAIN rename}
  <2>1. rename \in Seq(S)
    BY NamesAreLists
  <2> HIDE DEF S
  <2> QED BY <2>1
<1>3. ASSUME NEW rename \in Renames, NEW i \in DOMAIN rename
      PROVE  IsName(rename[i][1]) /\ IsName(rename[i][2])
  <2>1. ASSUME NEW k \in 1 .. 2 PROVE IsName(rename[i][k])
    BY NamesAreLists DEF IsName
  <2> QED BY <2>1
<1> QED BY <1>1, <1>2, <1>3

LEMMA RoomIsRoom ==
  ASSUME NEW s, DOMAIN s \subseteq Objects, Cardinality(DOMAIN s) < MaxObjects
  PROVE  Objects \ DOMAIN s # {}
<1>1. Cardinality(Objects) = MaxObjects
  <2>1. MaxObjects \in Nat /\ Cardinality(1 .. MaxObjects) = MaxObjects
    BY NamesSuffice, FS_Interval
  <2> QED BY <2>1 DEF Objects
<1> SUFFICES ASSUME DOMAIN s = Objects PROVE FALSE
  OBVIOUS
<1> QED BY <1>1, NamesSuffice

LEMMA ElsewhereKeeps ==
  ASSUME SceneInv, Elsewhere, Sound(scene'), said'.names \subseteq Taken(scene'),
         said'.op \notin {"restore", "join", "export"} \/ (said'.op = "join" /\ ~said'.ok)
  PROVE  Operated
<1>1. SceneInv'
  BY DEF SceneInv, Elsewhere
<1>2. RestoreExact /\ JoinAsAsked /\ ExportLeavesMaster
  BY DEF RestoreExact, JoinAsAsked, ExportLeavesMaster
<1> QED BY <1>1, <1>2 DEF Operated

LEMMA BuildOperates ==
  ASSUME SceneInv, NEW stem \in Stems, NEW mesh \in BOOLEAN, BuildObject(stem, mesh)
  PROVE  Operated
<1> DEFINE name == UniqueName(scene, <<stem>>)
           x == [name |-> name, parent |-> NoOne, mesh |-> mesh, shapes |-> IF mesh THEN {stem} ELSE {}]
<1>1. /\ Elsewhere /\ scene' = With(scene, x) /\ Sound(scene) /\ Cardinality(DOMAIN scene) < MaxObjects
      /\ said'.op = "build" /\ said'.names = {name}
  BY DEF BuildObject, Tells, HasRoom, SceneInv
<1>2. name \notin Taken(scene) /\ IsName(name)
  <2>1. IsName(<<stem>>)
    <3>1. <<stem>> \in Seq({stem})
      OBVIOUS
    <3> QED BY <3>1 DEF IsName
  <2>2. DOMAIN scene \subseteq Objects
    BY <1>1, SoundParts
  <2> QED BY <2>1, <2>2, UniqueNameIsFree
<1> HIDE DEF name
<1>3. /\ x.name = name /\ x.parent = NoOne /\ x.mesh = mesh
      /\ x = [name |-> x.name, parent |-> x.parent, mesh |-> x.mesh, shapes |-> x.shapes]
  OBVIOUS
<1> HIDE DEF x
<1>4. Objects \ DOMAIN scene # {}
  BY <1>1, RoomIsRoom DEF Sound
<1>5. Sound(scene') /\ Taken(scene') = Taken(scene) \cup {name}
  BY <1>1, <1>2, <1>3, <1>4, WithIsSound
<1> QED BY <1>1, <1>5, ElsewhereKeeps

LEMMA DuplicateOperates ==
  ASSUME SceneInv, NEW o \in DOMAIN scene,
         NEW wanted \in Wanted \cup {Append(scene[o].name, x) : x \in {"_copy", "_lod1"}}, Duplicate(o, wanted)
  PROVE  Operated
<1> DEFINE name == UniqueName(scene, wanted)
           given == BlenderName(scene, name)
           x == [scene[o] EXCEPT !.name = given]
<1>1. /\ Elsewhere /\ scene' = With(scene, x) /\ Sound(scene) /\ Cardinality(DOMAIN scene) < MaxObjects
      /\ said'.op = "duplicate" /\ said'.names = {given}
  BY DEF Duplicate, Tells, HasRoom, SceneInv
<1>2. DOMAIN scene \subseteq Objects /\ NoOne \notin DOMAIN scene
      /\ scene[o] = [name |-> scene[o].name, parent |-> scene[o].parent, mesh |-> scene[o].mesh, shapes |-> scene[o].shapes]
      /\ IsName(scene[o].name) /\ scene[o].parent \in DOMAIN scene \cup {NoOne} /\ scene[o].mesh \in BOOLEAN
  BY <1>1, SoundParts
<1>3. IsName(wanted)
  BY <1>2, NameGrows, NamesAreNames
<1>4. IsName(name)
  BY <1>2, <1>3, UniqueNameIsFree
<1> HIDE DEF name
<1>5. PICK gap \in Objects \ DOMAIN scene : TRUE
  BY <1>1, RoomIsRoom DEF Sound
<1>6. given \notin Taken(scene) /\ IsName(given)
  BY <1>2, <1>4, <1>5, BlenderNameIsFree
<1> HIDE DEF given
<1>7. x = [name |-> given, parent |-> scene[o].parent, mesh |-> scene[o].mesh, shapes |-> scene[o].shapes]
  BY <1>2
<1> HIDE DEF x
<1>8. /\ x.name = given /\ x.parent \in DOMAIN scene \cup {NoOne} /\ x.mesh \in BOOLEAN
      /\ x = [name |-> x.name, parent |-> x.parent, mesh |-> x.mesh, shapes |-> x.shapes]
  BY <1>2, <1>7
<1>9. Sound(scene') /\ Taken(scene') = Taken(scene) \cup {given}
  BY <1>1, <1>5, <1>6, <1>8, WithIsSound
<1> QED BY <1>1, <1>9, ElsewhereKeeps

LEMMA CollisionOperates ==
  ASSUME SceneInv, NEW o \in DOMAIN scene, NEW suffix \in {"-col", "-convcol"}, Collision(o, suffix)
  PROVE  Operated
<1> DEFINE proxy == Append(scene[o].name, suffix)
           name == IF suffix = "-col" THEN UniqueName(scene, proxy) ELSE BlenderName(scene, proxy)
           x == [name |-> name, parent |-> o, mesh |-> TRUE, shapes |-> {}]
<1>1. /\ Elsewhere /\ scene' = With(scene, x) /\ Sound(scene) /\ Cardinality(DOMAIN scene) < MaxObjects
      /\ said'.op = "collision" /\ said'.names = {name}
  BY DEF Collision, Tells, HasRoom, SceneInv
<1>2. DOMAIN scene \subseteq Objects /\ IsName(scene[o].name)
  BY <1>1, SoundParts
<1>3. IsName(proxy)
  BY <1>2, NameGrows
<1> HIDE DEF proxy
<1>4. PICK gap \in Objects \ DOMAIN scene : TRUE
  BY <1>1, RoomIsRoom DEF Sound
<1>5. UniqueName(scene, proxy) \notin Taken(scene) /\ IsName(UniqueName(scene, proxy))
  BY <1>2, <1>3, UniqueNameIsFree
<1>6. BlenderName(scene, proxy) \notin Taken(scene) /\ IsName(BlenderName(scene, proxy))
  BY <1>2, <1>3, <1>4, BlenderNameIsFree
<1>7. name \notin Taken(scene) /\ IsName(name)
  BY <1>5, <1>6
<1> HIDE DEF name
<1>8. /\ x.name = name /\ x.parent = o /\ x.mesh \in BOOLEAN
      /\ x = [name |-> x.name, parent |-> x.parent, mesh |-> x.mesh, shapes |-> x.shapes]
  OBVIOUS
<1> HIDE DEF x
<1>9. Sound(scene') /\ Taken(scene') = Taken(scene) \cup {name}
  BY <1>1, <1>4, <1>7, <1>8, WithIsSound
<1> QED BY <1>1, <1>9, ElsewhereKeeps

LEMMA RenameOperates ==
  ASSUME SceneInv, NEW o \in DOMAIN scene, NEW to \in Wanted, Rename(o, to)
  PROVE  Operated
<1> DEFINE name == UniqueName(scene, to)
<1>1. /\ Elsewhere /\ scene' = Named(scene, o, name) /\ Sound(scene)
      /\ said'.op = "rename" /\ said'.names = {name}
  BY DEF Rename, Tells, SceneInv
<1>2. name \notin Taken(scene) /\ IsName(name)
  BY <1>1, SoundParts, NamesAreNames, UniqueNameIsFree
<1> HIDE DEF name
<1>3. \A p \in DOMAIN scene \ {o} : scene[p].name # name
  BY <1>2 DEF Taken
<1>4. Sound(scene') /\ DOMAIN scene' = DOMAIN scene /\ scene'[o].name = name
  BY <1>1, <1>2, <1>3, NamedIsSound
<1>5. name \in Taken(scene')
  BY <1>4 DEF Taken
<1> QED BY <1>1, <1>4, <1>5, ElsewhereKeeps

LEMMA ParentOperates ==
  ASSUME SceneInv, NEW o \in DOMAIN scene, NEW par \in DOMAIN scene, Parent(o, par)
  PROVE  Operated
<1>1. /\ Elsewhere /\ Sound(scene) /\ said.names \subseteq Taken(scene)
      /\ said'.op = "parent" /\ said'.names \subseteq {scene[o].name}
      /\ scene' = scene \/ (MayHangFrom(o, par) /\ scene' = [scene EXCEPT ![o].parent = par])
  BY DEF Parent, Tells, SceneInv
<1>2. said'.names \subseteq Taken(scene)
  BY <1>1 DEF Taken
<1>3. CASE scene' = scene
  BY <1>1, <1>2, <1>3, ElsewhereKeeps
<1>4. CASE MayHangFrom(o, par) /\ scene' = [scene EXCEPT ![o].parent = par]
  <2>1. scene[o] = [name |-> scene[o].name, parent |-> scene[o].parent, mesh |-> scene[o].mesh, shapes |-> scene[o].shapes]
        /\ NoOne \notin DOMAIN scene
    BY <1>1, SoundParts
  <2>2. /\ DOMAIN scene' = DOMAIN scene /\ scene' = [p \in DOMAIN scene' |-> scene'[p]]
        /\ \A p \in DOMAIN scene \ {o} : scene'[p] = scene[p]
        /\ scene'[o] = [scene[o] EXCEPT !.parent = par]
    <3>1. scene = [p \in DOMAIN scene |-> scene[p]]
      BY <1>1 DEF Sound
    <3> QED BY <1>4, <3>1
  <2>3. scene'[o] = [name |-> scene[o].name, parent |-> par, mesh |-> scene[o].mesh, shapes |-> scene[o].shapes]
    BY <2>1, <2>2
  <2>4. \A p \in DOMAIN scene' : scene'[p].name = scene[p].name /\ IsObject(scene', p)
    <3> SUFFICES ASSUME NEW p \in DOMAIN scene' PROVE scene'[p].name = scene[p].name /\ IsObject(scene', p)
      OBVIOUS
    <3>1. IsObject(scene, p)
      BY <1>1, <2>2 DEF Sound
    <3>2. CASE p = o
      BY <2>2, <2>3, <3>1, <3>2 DEF IsObject
    <3>3. CASE p # o
      BY <2>2, <3>1, <3>3 DEF IsObject
    <3> QED BY <3>2, <3>3
  <2>5. Distinct(scene') /\ Taken(scene') = Taken(scene)
    BY <1>1, <2>2, <2>4 DEF Distinct, Taken, Sound
  <2>6. Ringless(scene')
    <3> DEFINE A == HangingLine(par)
    <3>1. /\ DOMAIN scene \subseteq Objects /\ NoOne \notin DOMAIN scene
          /\ \A p \in DOMAIN scene : scene[p].parent \in DOMAIN scene \cup {NoOne}
      BY <1>1, SoundParts
    <3>2. par \in A /\ Upward(scene, A)
      BY <3>1, LineIsWhole
    <3>3. o \notin A
      BY <1>4 DEF MayHangFrom
    <3>4. scene'[o].parent = par /\ \A x \in DOMAIN scene \ {o} : scene'[x].parent = scene[x].parent
      BY <2>2, <2>3
    <3>5. Ringless(scene)
      BY <1>1 DEF Sound
    <3> HIDE DEF A
    <3> QED BY <2>2, <3>1, <3>2, <3>3, <3>4, <3>5, NewEdge
  <2>7. Sound(scene')
    BY <1>1, <2>2, <2>4, <2>5, <2>6 DEF Sound
  <2> QED BY <1>1, <1>2, <2>5, <2>7, ElsewhereKeeps
<1> QED BY <1>1, <1>3, <1>4

LEMMA DeleteOperates ==
  ASSUME SceneInv, NEW objs, Delete(objs)
  PROVE  Operated
<1>1. PICK gone, ok : /\ Elsewhere /\ scene' = Without(scene, gone)
                      /\ Tells("delete", NoOne, ok, {})
  BY DEF Delete
<1>2. Sound(Without(scene, gone))
  BY WithoutIsSound DEF SceneInv
<1>3. Elsewhere /\ said'.names = {} /\ said'.op = "delete" /\ Sound(scene')
  BY <1>1, <1>2 DEF Tells
<1> QED BY <1>3, ElsewhereKeeps

LEMMA JoinOperates ==
  ASSUME SceneInv, NEW objs \in Pairs, NEW into \in Wanted \cup {<<>>}, Join(objs, into)
  PROVE  Operated
<1> DEFINE meshes    == {i \in DOMAIN objs : scene[objs[i]].mesh}
           first     == CHOOSE i \in meshes : \A j \in meshes : i <= j
           twice     == {i \in meshes : \E j \in meshes : j < i /\ objs[i] = objs[j]}
           freed     == {objs[i] : i \in {i \in meshes : \A j \in twice : i < j}}
           requested == IF into = <<>> THEN Sanitize(scene[objs[first]].name) ELSE into
           name      == JoinedName(freed, requested)
           x         == [name |-> name, parent |-> NoOne, mesh |-> TRUE,
                         shapes |-> UNION {scene[o].shapes : o \in freed}]
<1>1. /\ Sound(scene) /\ said.names \subseteq Taken(scene) /\ Elsewhere
      /\ \/ scene' = scene /\ said'.op = "join" /\ ~said'.ok /\ said'.names = {}
         \/ /\ Cardinality(meshes) = 1 /\ scene' = scene
            /\ said'.op = "kept" /\ said'.names = {scene[objs[first]].name}
         \/ scene' = Without(scene, freed) /\ said'.op = "join" /\ ~said'.ok /\ said'.names = {}
         \/ /\ Cardinality(meshes) > (IF into = <<>> THEN 1 ELSE 0) /\ twice = {}
            /\ scene' = With(Without(scene, freed), x)
            /\ said' = [op |-> "join", on |-> [sources |-> freed, requested |-> requested], ok |-> TRUE, names |-> {name}]
  <2>1. /\ Elsewhere
        /\ \/ /\ meshes = {}
              /\ UNCHANGED scene /\ Tells("join", NoOne, FALSE, {})
           \/ /\ Cardinality(meshes) = 1 /\ into = <<>>
              /\ UNCHANGED scene /\ Tells("kept", NoOne, TRUE, {scene[objs[first]].name})
           \/ /\ Cardinality(meshes) > (IF into = <<>> THEN 1 ELSE 0)
              /\ IF twice # {} THEN scene' = Without(scene, freed) /\ Tells("join", NoOne, FALSE, {})
                 ELSE /\ scene' = With(Without(scene, freed), x)
                      /\ Tells("join", [sources |-> freed, requested |-> requested], TRUE, {name})
    BY DEF Join
  <2> HIDE DEF meshes, first, twice, freed, requested, name, x
  <2> QED BY <2>1 DEF Tells, SceneInv
<1>2. PICK a, b \in DOMAIN scene : objs = <<a, b>>
  BY DEF Pairs
<1>3. DOMAIN objs = {1, 2} /\ \A i \in DOMAIN objs : objs[i] \in DOMAIN scene
  BY <1>2
<1>4. meshes # {} => first \in DOMAIN objs
  <2> SUFFICES ASSUME meshes # {} PROVE first \in DOMAIN objs
    OBVIOUS
  <2>1. meshes \subseteq Nat /\ meshes \subseteq DOMAIN objs
    BY <1>3
  <2>2. \E i \in meshes : \A j \in meshes : i <= j
    BY <2>1, LeastOf
  <2>3. first \in meshes
    BY <2>2
  <2> QED BY <2>1, <2>3
<1> HIDE DEF first
<1>5. Cardinality(meshes) > 0 \/ Cardinality(meshes) = 1 \/ Cardinality(meshes) > 1 => meshes # {}
  <2>1. meshes = {} => Cardinality(meshes) = 0
    BY FS_EmptySet
  <2> HIDE DEF meshes
  <2> QED BY <2>1
<1>6. CASE scene' = scene /\ said'.op = "join" /\ ~said'.ok /\ said'.names = {}
  BY <1>1, <1>6, ElsewhereKeeps
<1>7. CASE /\ Cardinality(meshes) = 1 /\ scene' = scene
           /\ said'.op = "kept" /\ said'.names = {scene[objs[first]].name}
  <2>1. meshes # {}
    BY <1>5, <1>7
  <2>2. objs[first] \in DOMAIN scene
    BY <1>3, <1>4, <2>1
  <2>3. said'.names \subseteq Taken(scene)
    BY <1>7, <2>2 DEF Taken
  <2> QED BY <1>1, <1>7, <2>3, ElsewhereKeeps
<1>8. CASE scene' = Without(scene, freed) /\ said'.op = "join" /\ ~said'.ok /\ said'.names = {}
  <2>1. Sound(scene')
    BY <1>1, <1>8, WithoutIsSound
  <2> QED BY <1>1, <1>8, <2>1, ElsewhereKeeps
<1>9. CASE /\ Cardinality(meshes) > (IF into = <<>> THEN 1 ELSE 0) /\ twice = {}
           /\ scene' = With(Without(scene, freed), x)
           /\ said' = [op |-> "join", on |-> [sources |-> freed, requested |-> requested], ok |-> TRUE, names |-> {name}]
  <2> DEFINE rest == Without(scene, freed)
  <2>1. meshes # {}
    BY <1>5, <1>9
  <2>2. freed \subseteq DOMAIN scene /\ freed # {}
    BY <1>3, <1>9, <2>1, SMTT(30), ZenonT(30)
  <2>3. IsName(requested)
    <3>1. CASE into = <<>>
      <4>1. objs[first] \in DOMAIN scene
        BY <1>3, <1>4, <2>1
      <4>2. IsName(scene[objs[first]].name)
        BY <1>1, <4>1, SoundParts
      <4> QED BY <3>1, <4>2, SanitizeNames
    <3>2. CASE into # <<>>
      BY <3>2, NamesAreNames
    <3> QED BY <3>1, <3>2
  <2> HIDE DEF freed, requested, twice, meshes
  <2>4. /\ Sound(rest) /\ DOMAIN rest = DOMAIN scene \ freed
        /\ \A o \in DOMAIN scene \ freed : rest[o].name = scene[o].name
    BY <1>1, WithoutIsSound
  <2>5. name = UniqueName(rest, requested)
    BY DEF JoinedName
  <2>6. DOMAIN rest \subseteq Objects /\ Objects \ DOMAIN rest # {}
    BY <1>1, <2>2, <2>4, SoundParts DEF Sound
  <2> HIDE DEF rest, name
  <2>7. /\ name \notin Taken(rest) /\ IsName(name)
        /\ Sanitize(requested) \notin Taken(rest) => name = Sanitize(requested)
    BY <2>3, <2>5, <2>6, UniqueNameIsFree
  <2>8. /\ x.name = name /\ x.parent = NoOne /\ x.mesh \in BOOLEAN
        /\ x = [name |-> x.name, parent |-> x.parent, mesh |-> x.mesh, shapes |-> x.shapes]
        /\ x.shapes = UNION {scene[o].shapes : o \in freed}
    OBVIOUS
  <2> HIDE DEF x
  <2>9. /\ Sound(scene') /\ Taken(scene') = Taken(rest) \cup {name}
        /\ NextId(rest) \in DOMAIN scene' /\ scene'[NextId(rest)] = x
    <3>1. scene' = With(rest, x)
      BY <1>9 DEF rest
    <3>2. /\ Sound(rest) /\ Objects \ DOMAIN rest # {} /\ IsName(x.name) /\ x.name \notin Taken(rest)
          /\ x.parent \in DOMAIN rest \cup {NoOne} /\ x.mesh \in BOOLEAN
          /\ x = [name |-> x.name, parent |-> x.parent, mesh |-> x.mesh, shapes |-> x.shapes]
      BY <2>4, <2>6, <2>7, <2>8
    <3>3. LET u == With(rest, x)
          IN /\ Sound(u) /\ NextId(rest) \in Objects \ DOMAIN rest
             /\ DOMAIN u = DOMAIN rest \cup {NextId(rest)} /\ u[NextId(rest)] = x
             /\ \A o \in DOMAIN rest : u[o] = rest[o]
             /\ Taken(u) = Taken(rest) \cup {x.name}
      BY <3>2, WithIsSound
    <3> QED BY <2>8, <3>1, <3>3
  <2>10. said'.op = "join" /\ said'.on.sources = freed /\ said'.on.requested = requested
         /\ said'.names = {name}
    BY <1>9
  <2>11. SceneInv'
    BY <1>1, <2>9, <2>10 DEF SceneInv, Elsewhere
  <2>12. JoinAsAsked
    <3>1. CASE Sanitize(requested) \in Taken(rest)
      <4>1. PICK o \in DOMAIN rest : rest[o].name = Sanitize(requested)
        BY <3>1 DEF Taken
      <4>2. o \in DOMAIN scene \ freed /\ scene[o].name = Sanitize(requested)
        BY <2>4, <4>1
      <4> QED BY <2>10, <4>2 DEF JoinAsAsked
    <3>2. CASE Sanitize(requested) \notin Taken(rest)
      <4>1. name = Sanitize(requested)
        BY <2>7, <3>2
      <4> QED BY <2>8, <2>9, <2>10, <4>1 DEF JoinAsAsked
    <3> QED BY <3>1, <3>2
  <2>13. RestoreExact /\ ExportLeavesMaster
    BY <2>10 DEF RestoreExact, ExportLeavesMaster
  <2> QED BY <2>11, <2>12, <2>13 DEF Operated
<1> HIDE DEF meshes, twice, freed, requested, name, x
<1> QED BY <1>1, <1>6, <1>7, <1>8, <1>9

\* A scene with nothing in it.
LEMMA EmptyIsSound == Sound(NoObjects) /\ Taken(NoObjects) = {} /\ DOMAIN NoObjects = {}
<1>1. DOMAIN NoObjects = {} /\ NoObjects = [o \in DOMAIN NoObjects |-> NoObjects[o]] /\ Taken(NoObjects) = {}
  BY DEF NoObjects, Taken
<1>2. Ringless(NoObjects)
  BY <1>1 DEF Ringless
<1> QED BY <1>1, <1>2 DEF Sound, Distinct

LEMMA SessionOperates ==
  ASSUME SceneInv,
         ResetScene \/ Save \/ Open \/ \E l \in Labels : Snapshot(l) \/ Restore(l)
  PROVE  Operated
<1>1. CASE ResetScene
  <2>1. Elsewhere /\ scene' = NoObjects /\ said'.op = "reset" /\ said'.names = {}
    BY <1>1 DEF ResetScene, Tells
  <2> QED BY <2>1, EmptyIsSound, ElsewhereKeeps
<1>2. CASE Save
  <2>1. /\ scene' = scene /\ asset' = scene /\ UNCHANGED <<snapshots, files>>
        /\ said'.op = "save" /\ said'.names = {}
    BY <1>2 DEF Save, Tells
  <2>2. SceneInv'
    BY <2>1 DEF SceneInv
  <2> QED BY <2>1, <2>2 DEF Operated, RestoreExact, JoinAsAsked, ExportLeavesMaster
<1>3. CASE Open
  <2>1. /\ Elsewhere /\ said'.op = "open"
        /\ \/ scene' = scene /\ said'.names = {}
           \/ asset # NoScene /\ scene' = asset /\ said'.names = Taken(asset)
    BY <1>3 DEF Open, Tells
  <2>2. Sound(scene') /\ said'.names \subseteq Taken(scene')
    BY <2>1 DEF SceneInv
  <2> QED BY <2>1, <2>2, ElsewhereKeeps
<1>4. ASSUME NEW l \in Labels, Snapshot(l) PROVE Operated
  <2>1. /\ scene' = scene /\ asset' = asset /\ files' = [files EXCEPT ![FileOf[l]] = scene]
        /\ snapshots' = [snapshots EXCEPT ![l] = scene]
        /\ said'.op = "snapshot" /\ said'.names = {}
    BY <1>4 DEF Snapshot, Tells
  <2>2. SceneInv'
    BY <2>1 DEF SceneInv
  <2> QED BY <2>1, <2>2 DEF Operated, RestoreExact, JoinAsAsked, ExportLeavesMaster
<1>5. ASSUME NEW l \in Labels, Restore(l) PROVE Operated
  <2>1. FileOf[l] \in DOMAIN files
    BY DEF SceneInv
  <2>2. /\ snapshots' = snapshots /\ asset' = asset /\ said'.op = "restore" /\ said'.names = {}
        /\ \/ UNCHANGED <<scene, files>> /\ ~said'.ok
           \/ /\ snapshots[l] # NoScene /\ said'.on = l
              /\ files' = [files EXCEPT ![FileOf[l]] = snapshots[l]] /\ scene' = files'[FileOf[l]]
    BY <1>5 DEF Restore, Tells, Rewritten
  <2>3. \/ UNCHANGED <<scene, files>> /\ ~said'.ok
        \/ scene' = snapshots[l] /\ Sound(snapshots[l]) /\ said'.on = l /\ DOMAIN files' = DOMAIN files
    BY <2>1, <2>2 DEF SceneInv
  <2>4. SceneInv'
    BY <2>2, <2>3 DEF SceneInv
  <2> QED BY <2>2, <2>3, <2>4 DEF Operated, RestoreExact, JoinAsAsked, ExportLeavesMaster
<1> QED BY <1>1, <1>2, <1>3, <1>4, <1>5

LEMMA ImportOperates ==
  ASSUME SceneInv, NEW name \in Foreign, NEW prefix \in Prefixes, NEW resetFirst \in BOOLEAN,
         Import(name, prefix, resetFirst)
  PROVE  Operated
<1> DEFINE before == IF resetFirst THEN NoObjects ELSE scene
           given  == BlenderName(before, name)
           x      == [name |-> given, parent |-> NoOne, mesh |-> TRUE, shapes |-> {Head(name)}]
           loaded == With(before, x)
           mine   == CASE prefix # <<>>     -> UniqueName(loaded, prefix \o given)
                       [] ~Checked(given)   -> UniqueName(loaded, given)
                       [] OTHER             -> given
<1>1. /\ Sound(before) /\ Elsewhere /\ said'.op = "import"
      /\ \/ scene' = before /\ said'.names = {}
         \/ /\ Cardinality(DOMAIN before) < MaxObjects
            /\ scene' = Named(loaded, NextId(before), mine) /\ said'.names = {mine}
  <2>1. /\ Elsewhere
        /\ \/ scene' = before /\ Tells("import", NoOne, FALSE, {})
           \/ /\ Cardinality(DOMAIN before) < MaxObjects
              /\ scene' = Named(loaded, NextId(before), mine)
              /\ Tells("import", NoOne, TRUE, {mine})
    BY DEF Import
  <2>2. Sound(before)
    BY EmptyIsSound DEF SceneInv
  <2> HIDE DEF before, loaded, mine
  <2> QED BY <2>1, <2>2 DEF Tells
<1>2. CASE scene' = before /\ said'.names = {}
  BY <1>1, <1>2, ElsewhereKeeps
<1>3. CASE /\ Cardinality(DOMAIN before) < MaxObjects
           /\ scene' = Named(loaded, NextId(before), mine) /\ said'.names = {mine}
  <2> HIDE DEF before
  <2> DEFINE id == NextId(before)
  <2>1. PICK gap \in Objects \ DOMAIN before : TRUE
    BY <1>1, <1>3, RoomIsRoom DEF Sound
  <2>2. DOMAIN before \subseteq Objects
    BY <1>1, SoundParts
  <2>3. IsName(name) /\ IsName(prefix)
    BY NamesAreNames
  <2>4. given \notin Taken(before) /\ IsName(given)
    BY <2>1, <2>2, <2>3, BlenderNameIsFree
  <2> HIDE DEF given
  <2>5. /\ x.name = given /\ x.parent = NoOne /\ x.mesh \in BOOLEAN
        /\ x = [name |-> x.name, parent |-> x.parent, mesh |-> x.mesh, shapes |-> x.shapes]
    OBVIOUS
  <2> HIDE DEF x
  <2>6. /\ Sound(loaded) /\ id \in DOMAIN loaded /\ DOMAIN loaded = DOMAIN before \cup {id}
        /\ loaded[id] = x /\ \A p \in DOMAIN before : loaded[p] = before[p]
        /\ Taken(loaded) = Taken(before) \cup {given}
    <3>1. /\ Sound(before) /\ Objects \ DOMAIN before # {} /\ IsName(x.name) /\ x.name \notin Taken(before)
          /\ x.parent \in DOMAIN before \cup {NoOne} /\ x.mesh \in BOOLEAN
          /\ x = [name |-> x.name, parent |-> x.parent, mesh |-> x.mesh, shapes |-> x.shapes]
      BY <1>1, <2>1, <2>4, <2>5
    <3>2. LET u == With(before, x)
          IN /\ Sound(u) /\ NextId(before) \in Objects \ DOMAIN before
             /\ DOMAIN u = DOMAIN before \cup {NextId(before)} /\ u[NextId(before)] = x
             /\ \A o \in DOMAIN before : u[o] = before[o]
             /\ Taken(u) = Taken(before) \cup {x.name}
      BY <3>1, WithIsSound
    <3> QED BY <2>5, <3>2
  <2> HIDE DEF loaded, id
  <2>7. DOMAIN loaded \subseteq Objects
    BY <2>6, SoundParts
  <2>8. IsName(prefix \o given)
    <3>1. PICK S : prefix \in Seq(S)
      BY <2>3 DEF IsName
    <3>2. PICK T : given \in Seq(T)
      BY <2>4 DEF IsName
    <3>3. prefix \in Seq(S \cup T) /\ given \in Seq(S \cup T)
      BY <3>1, <3>2
    <3>4. prefix \o given \in Seq(S \cup T)
      BY <3>3
    <3> QED BY <3>4 DEF IsName
  <2>9. IsName(mine) /\ (mine = given \/ mine \notin Taken(loaded))
    <3>1. /\ UniqueName(loaded, prefix \o given) \notin Taken(loaded) /\ IsName(UniqueName(loaded, prefix \o given))
          /\ UniqueName(loaded, given) \notin Taken(loaded) /\ IsName(UniqueName(loaded, given))
      BY <2>4, <2>7, <2>8, UniqueNameIsFree
    <3>2. CASE prefix # <<>>
      BY <3>1, <3>2
    <3>3. CASE prefix = <<>> /\ ~Checked(given)
      BY <3>1, <3>3
    <3>4. CASE prefix = <<>> /\ Checked(given)
      BY <2>4, <3>4
    <3> QED BY <3>2, <3>3, <3>4
  <2> HIDE DEF mine
  <2>10. \A p \in DOMAIN loaded \ {id} : loaded[p].name # mine
    <3> SUFFICES ASSUME NEW p \in DOMAIN loaded \ {id} PROVE loaded[p].name # mine
      OBVIOUS
    <3>1. loaded[p].name \in Taken(loaded) /\ loaded[p].name \in Taken(before)
      BY <2>6 DEF Taken
    <3> QED BY <2>4, <2>9, <3>1
  <2>11. Sound(scene') /\ DOMAIN scene' = DOMAIN loaded /\ scene'[id].name = mine
    BY <1>3, <2>6, <2>9, <2>10, NamedIsSound DEF id
  <2>12. said'.names \subseteq Taken(scene')
    BY <1>3, <2>6, <2>11 DEF Taken
  <2> QED BY <1>1, <2>11, <2>12, ElsewhereKeeps
<1> HIDE DEF before, given, x, loaded, mine
<1> QED BY <1>1, <1>2, <1>3

-----------------------------------------------------------------------------
(* An export: the names that are replaced, and put back one by one. *)

Froms(rename) == {rename[i][1] : i \in DOMAIN rename}

\* The scene t is this one but for the names, which are its own or wait in restore, behind
\* the first n, to be put back.
Undoable(t, restore, n, rename) ==
  /\ Sound(t) /\ DOMAIN t = DOMAIN scene
  /\ \A o \in DOMAIN scene : t[o].parent = scene[o].parent /\ t[o].mesh = scene[o].mesh /\ t[o].shapes = scene[o].shapes
  /\ RenamesApart =>
       \A o \in DOMAIN scene :
         \/ t[o].name = scene[o].name
         \/ t[o].name \notin Froms(rename) /\ \E k \in DOMAIN restore : k > n /\ restore[k][1] = o

\* The undo pairs say what each object was called.
Pairing(restore, rename) ==
  /\ restore \in Seq((DOMAIN scene) \X Froms(rename))
  /\ RenamesApart => \A k \in DOMAIN restore : restore[k][2] = scene[restore[k][1]].name

LEMMA AppliedIsUndoable ==
  ASSUME Sound(scene), NEW rename \in Renames
  PROVE  LET a == Applied(rename)
         IN Undoable(a.scene, a.restore, 0, rename) /\ Pairing(a.restore, rename)
<1> DEFINE Hits(x, i) == {o \in DOMAIN scene : x.scene[o].name = rename[i][1]}
           Step(x, i) == LET o == CHOOSE o \in Hits(x, i) : TRUE
                         IN IF Hits(x, i) = {} THEN [x EXCEPT !.unmatched = TRUE]
                            ELSE [x EXCEPT !.scene = Named(x.scene, o, rename[i][2]),
                                           !.restore = Append(x.restore, <<o, rename[i][1]>>)]
           init == [scene |-> scene, restore |-> <<>>, unmatched |-> FALSE]
           n == Len(rename)
           Folded(f, m) == f = [i \in 0 .. m |-> IF i = 0 THEN init ELSE Step(f[i - 1], i)]
           E == {m \in Nat : \E f : Folded(f, m)}
           apply == CHOOSE f : Folded(f, n)
           Fine(x) == /\ DOMAIN x = {"scene", "restore", "unmatched"}
                      /\ Undoable(x.scene, x.restore, 0, rename) /\ Pairing(x.restore, rename)
<1>1. Applied(rename) = apply[n]
  BY DEF Applied
<1>2. /\ n \in Nat /\ DOMAIN rename = 1 .. n
      /\ \A i \in DOMAIN rename : IsName(rename[i][1]) /\ IsName(rename[i][2])
  BY NamesAreNames
<1>3. Fine(init)
  <2>1. Pairing(<<>>, rename)
    <3>1. <<>> \in Seq((DOMAIN scene) \X Froms(rename)) /\ DOMAIN <<>> = {}
      OBVIOUS
    <3> QED BY <3>1 DEF Pairing
  <2>2. Undoable(scene, <<>>, 0, rename)
    BY DEF Undoable
  <2>3. DOMAIN init = {"scene", "restore", "unmatched"} /\ init.scene = scene /\ init.restore = <<>>
    OBVIOUS
  <2> HIDE DEF init
  <2> QED BY <2>1, <2>2, <2>3
<1>4. ASSUME NEW x, Fine(x), NEW i \in 1 .. n PROVE Fine(Step(x, i))
  <2> DEFINE o == CHOOSE o \in Hits(x, i) : TRUE
             y == Step(x, i)
  <2>1. CASE Hits(x, i) = {}
    <3>1. y = [x EXCEPT !.unmatched = TRUE]
      BY <2>1
    <3>2. DOMAIN y = DOMAIN x /\ y.scene = x.scene /\ y.restore = x.restore
      BY <1>4, <3>1
    <3> HIDE DEF y
    <3> QED BY <1>4, <3>2 DEF y
  <2>2. CASE Hits(x, i) # {}
    <3> DEFINE t == Named(x.scene, o, rename[i][2])
               u == Append(x.restore, <<o, rename[i][1]>>)
    <3>1. o \in DOMAIN scene /\ x.scene[o].name = rename[i][1]
      <4>1. o \in Hits(x, i)
        BY <2>2
      <4> QED BY <4>1
    <3>2. y = [x EXCEPT !.scene = t, !.restore = u]
      BY <2>2
    <3> HIDE DEF o
    <3>3. DOMAIN y = DOMAIN x /\ y.scene = t /\ y.restore = u
      <4> HIDE DEF t, u
      <4> QED BY <1>4, <3>2
    <3> HIDE DEF y
    <3>4. /\ Undoable(x.scene, x.restore, 0, rename) /\ Pairing(x.restore, rename)
          /\ i \in DOMAIN rename /\ IsName(rename[i][2]) /\ rename[i][1] \in Froms(rename)
      BY <1>2, <1>4 DEF Froms
    <3>5. /\ Sound(t) /\ DOMAIN t = DOMAIN scene /\ t[o].name \in Outcomes(rename[i][2])
          /\ \A p \in DOMAIN scene \ {o} : t[p] = x.scene[p]
          /\ t[o].parent = x.scene[o].parent /\ t[o].mesh = x.scene[o].mesh /\ t[o].shapes = x.scene[o].shapes
      BY <3>1, <3>4, NamedIsSound DEF Undoable
    <3> HIDE DEF t
    <3>6. x.restore \in Seq((DOMAIN scene) \X Froms(rename)) /\ <<o, rename[i][1]>> \in (DOMAIN scene) \X Froms(rename)
      <4>1. x.restore \in Seq((DOMAIN scene) \X Froms(rename))
        BY <3>4 DEF Pairing
      <4>2. <<o, rename[i][1]>> \in (DOMAIN scene) \X Froms(rename)
        BY <3>1, <3>4
      <4> QED BY <4>1, <4>2
    <3>7. /\ u \in Seq((DOMAIN scene) \X Froms(rename)) /\ Len(x.restore) \in Nat
          /\ DOMAIN x.restore = 1 .. Len(x.restore) /\ DOMAIN u = 1 .. Len(x.restore) + 1
          /\ u[Len(x.restore) + 1] = <<o, rename[i][1]>> /\ \A k \in DOMAIN x.restore : u[k] = x.restore[k]
      BY <3>6
    <3> HIDE DEF u
    <3>8. ASSUME RenamesApart
          PROVE  /\ rename[i][1] = scene[o].name
                 /\ \A k \in DOMAIN u : u[k][2] = scene[u[k][1]].name
      <4>1. x.scene[o].name = scene[o].name
        BY <3>1, <3>4, <3>8 DEF Undoable
      <4>2. \A k \in DOMAIN x.restore : x.restore[k][2] = scene[x.restore[k][1]].name
        BY <3>4, <3>8 DEF Pairing
      <4>3. u[Len(x.restore) + 1][1] = o /\ u[Len(x.restore) + 1][2] = rename[i][1]
        BY <3>7
      <4>4. ASSUME NEW k \in DOMAIN u PROVE u[k][2] = scene[u[k][1]].name
        <5>1. CASE k = Len(x.restore) + 1
          BY <3>1, <4>1, <4>3, <5>1
        <5>2. CASE k # Len(x.restore) + 1
          <6>1. k \in DOMAIN x.restore /\ u[k] = x.restore[k]
            BY <3>7, <5>2
          <6> QED BY <4>2, <6>1
        <5> QED BY <5>1, <5>2
      <4> QED BY <3>1, <4>1, <4>4
    <3>9. ASSUME RenamesApart, NEW p \in DOMAIN scene
          PROVE  \/ t[p].name = scene[p].name
                 \/ t[p].name \notin Froms(rename) /\ \E k \in DOMAIN u : k > 0 /\ u[k][1] = p
      <4>1. CASE p = o
        <5>1. t[o].name \notin Froms(rename)
          BY <3>4, <3>5, <3>9 DEF RenamesApart, Froms
        <5>2. Len(x.restore) + 1 \in DOMAIN u /\ Len(x.restore) + 1 > 0 /\ u[Len(x.restore) + 1][1] = o
          BY <3>7
        <5> QED BY <4>1, <5>1, <5>2
      <4>2. CASE p # o
        <5>1. t[p] = x.scene[p]
          BY <3>5, <4>2
        <5>2. \/ x.scene[p].name = scene[p].name
              \/ x.scene[p].name \notin Froms(rename) /\ \E k \in DOMAIN x.restore : k > 0 /\ x.restore[k][1] = p
          BY <3>4, <3>9 DEF Undoable
        <5>3. \A k \in DOMAIN x.restore : k \in DOMAIN u /\ u[k] = x.restore[k]
          BY <3>7
        <5> QED BY <5>1, <5>2, <5>3
      <4> QED BY <4>1, <4>2
    <3>10. Pairing(u, rename)
      BY <3>7, <3>8 DEF Pairing
    <3>11. \A p \in DOMAIN scene : t[p].parent = scene[p].parent /\ t[p].mesh = scene[p].mesh /\ t[p].shapes = scene[p].shapes
      <4>1. \A p \in DOMAIN scene : x.scene[p].parent = scene[p].parent /\ x.scene[p].mesh = scene[p].mesh
                                      /\ x.scene[p].shapes = scene[p].shapes
        BY <3>4 DEF Undoable
      <4> QED BY <3>1, <3>5, <4>1
    <3>12. Undoable(t, u, 0, rename)
      BY <3>5, <3>9, <3>11 DEF Undoable
    <3>13. Fine(y)
      BY <1>4, <3>3, <3>10, <3>12
    <3> QED BY <3>13 DEF y
  <2> QED BY <2>1, <2>2
<1> HIDE DEF Step, init, Fine
<1>5. 0 \in E
  <2> DEFINE f == [i \in 0 .. 0 |-> init]
  <2>1. Folded(f, 0)
    OBVIOUS
  <2> QED BY <2>1
<1>6. ASSUME NEW m \in Nat, m \in E PROVE m + 1 \in E
  <2>1. PICK f : Folded(f, m)
    BY <1>6
  <2> DEFINE h == [i \in 0 .. m + 1 |-> IF i = m + 1 THEN Step(f[m], i) ELSE f[i]]
  <2>2. \A i \in 0 .. m + 1 : h[i] = IF i = 0 THEN init ELSE Step(h[i - 1], i)
    BY <2>1
  <2>3. Folded(h, m + 1)
    BY <2>2
  <2> HIDE DEF h
  <2> QED BY <2>3
<1>7. Folded(apply, n)
  <2>1. n \in E
    <3> HIDE DEF E
    <3> QED BY <1>2, <1>5, <1>6, SetInduction
  <2> QED BY <2>1
<1> HIDE DEF apply, E
<1>8. \A m \in 0 .. n : Fine(apply[m])
  <2> DEFINE S == {m \in Nat : m <= n => Fine(apply[m])}
  <2>1. 0 \in S
    BY <1>2, <1>3, <1>7
  <2>2. ASSUME NEW m \in Nat, m \in S PROVE m + 1 \in S
    <3> SUFFICES ASSUME m + 1 <= n PROVE Fine(apply[m + 1])
      OBVIOUS
    <3>1. Fine(apply[m]) /\ m + 1 \in 1 .. n /\ m + 1 \in 0 .. n /\ (m + 1) - 1 = m
      BY <1>2, <2>2
    <3>2. apply[m + 1] = Step(apply[m], m + 1)
      BY <1>7, <3>1
    <3> QED BY <1>4, <3>1, <3>2
  <2>3. Nat \subseteq S
    <3> HIDE DEF S
    <3> QED BY <2>1, <2>2, SetInduction
  <2> QED BY <2>3
<1>9. Fine(apply[n])
  BY <1>2, <1>8
<1> QED BY <1>1, <1>9 DEF Fine

LEMMA RestoredIsUndone ==
  ASSUME Sound(scene), NEW rename \in Renames, NEW t, NEW restore,
         Undoable(t, restore, 0, rename), Pairing(restore, rename)
  PROVE  /\ Sound(Restored(t, restore))
         /\ RenamesApart => Restored(t, restore) = scene
<1> DEFINE Step(x, i) == Named(x, restore[i][1], restore[i][2])
           n == Len(restore)
           Folded(f, m) == f = [i \in 0 .. m |-> IF i = 0 THEN t ELSE Step(f[i - 1], i)]
           E == {m \in Nat : \E f : Folded(f, m)}
           back == CHOOSE f : Folded(f, n)
<1>1. Restored(t, restore) = back[n]
  BY DEF Restored
<1>2. /\ n \in Nat /\ DOMAIN restore = 1 .. n
      /\ \A i \in 1 .. n : restore[i] \in (DOMAIN scene) \X Froms(rename)
  BY DEF Pairing
<1>3. ASSUME NEW x, NEW m \in Nat, m + 1 <= n, Undoable(x, restore, m, rename)
      PROVE  Undoable(Step(x, m + 1), restore, m + 1, rename)
  <2> DEFINE o == restore[m + 1][1]
             name == restore[m + 1][2]
             y == Named(x, o, name)
  <2>1. m + 1 \in 1 .. n
    BY <1>2, <1>3
  <2>2. o \in DOMAIN scene /\ name \in Froms(rename)
    BY <1>2, <2>1
  <2>3. IsName(name)
    BY <2>2, NamesAreNames DEF Froms
  <2>4. Sound(x) /\ DOMAIN x = DOMAIN scene
    BY <1>3 DEF Undoable
  <2>5. RenamesApart => name = scene[o].name
    BY <1>2, <2>1 DEF Pairing
  <2> HIDE DEF o, name
  <2>6. /\ Sound(y) /\ DOMAIN y = DOMAIN scene
        /\ \A p \in DOMAIN scene \ {o} : y[p] = x[p]
        /\ y[o].parent = x[o].parent /\ y[o].mesh = x[o].mesh /\ y[o].shapes = x[o].shapes
        /\ (\A p \in DOMAIN scene \ {o} : x[p].name # name) => y[o].name = name
    BY <2>2, <2>3, <2>4, NamedIsSound
  <2> HIDE DEF y
  <2>7. \A p \in DOMAIN scene : y[p].parent = scene[p].parent /\ y[p].mesh = scene[p].mesh /\ y[p].shapes = scene[p].shapes
    <3>1. \A p \in DOMAIN scene : x[p].parent = scene[p].parent /\ x[p].mesh = scene[p].mesh /\ x[p].shapes = scene[p].shapes
      BY <1>3 DEF Undoable
    <3> QED BY <2>2, <2>6, <3>1
  <2>8. ASSUME RenamesApart, NEW p \in DOMAIN scene
        PROVE  \/ y[p].name = scene[p].name
               \/ y[p].name \notin Froms(rename) /\ \E k \in DOMAIN restore : k > m + 1 /\ restore[k][1] = p
    <3>1. \A q \in DOMAIN scene :
            \/ x[q].name = scene[q].name
            \/ x[q].name \notin Froms(rename) /\ \E k \in DOMAIN restore : k > m /\ restore[k][1] = q
      BY <1>3, <2>8 DEF Undoable
    <3>2. CASE p = o
      <4>1. \A q \in DOMAIN scene \ {o} : x[q].name # name
        <5> SUFFICES ASSUME NEW q \in DOMAIN scene \ {o}, x[q].name = name PROVE FALSE
          OBVIOUS
        <5>1. x[q].name = scene[q].name /\ scene[q].name = scene[o].name
          BY <2>2, <2>5, <2>8, <3>1
        <5> QED BY <2>2, <5>1 DEF Sound, Distinct
      <4> QED BY <2>5, <2>6, <2>8, <3>2, <4>1
    <3>3. CASE p # o
      <4>1. y[p] = x[p]
        BY <2>6, <3>3
      <4>2. \A k \in DOMAIN restore : k > m /\ restore[k][1] = p => k > m + 1
        BY <1>2, <3>3 DEF o
      <4> QED BY <3>1, <4>1, <4>2
    <3> QED BY <3>2, <3>3
  <2>9. Undoable(y, restore, m + 1, rename)
    BY <2>6, <2>7, <2>8 DEF Undoable
  <2> QED BY <2>9 DEF y, o, name
<1> HIDE DEF Step
<1>4. 0 \in E
  <2> DEFINE f == [i \in 0 .. 0 |-> t]
  <2>1. Folded(f, 0)
    OBVIOUS
  <2> QED BY <2>1
<1>5. ASSUME NEW m \in Nat, m \in E PROVE m + 1 \in E
  <2>1. PICK f : Folded(f, m)
    BY <1>5
  <2> DEFINE h == [i \in 0 .. m + 1 |-> IF i = m + 1 THEN Step(f[m], i) ELSE f[i]]
  <2>2. \A i \in 0 .. m + 1 : h[i] = IF i = 0 THEN t ELSE Step(h[i - 1], i)
    BY <2>1
  <2>3. Folded(h, m + 1)
    BY <2>2
  <2> HIDE DEF h
  <2> QED BY <2>3
<1>6. Folded(back, n)
  <2>1. n \in E
    <3> HIDE DEF E
    <3> QED BY <1>2, <1>4, <1>5, SetInduction
  <2> QED BY <2>1
<1> HIDE DEF back, E
<1>7. \A m \in 0 .. n : Undoable(back[m], restore, m, rename)
  <2> DEFINE S == {m \in Nat : m <= n => Undoable(back[m], restore, m, rename)}
  <2>1. 0 \in S
    BY <1>2, <1>6
  <2>2. ASSUME NEW m \in Nat, m \in S PROVE m + 1 \in S
    <3> SUFFICES ASSUME m + 1 <= n PROVE Undoable(back[m + 1], restore, m + 1, rename)
      OBVIOUS
    <3>1. Undoable(back[m], restore, m, rename) /\ m + 1 \in 0 .. n /\ m + 1 # 0 /\ (m + 1) - 1 = m
      BY <1>2, <2>2
    <3>2. back[m + 1] = Step(back[m], m + 1)
      BY <1>6, <3>1
    <3> QED BY <1>3, <3>1, <3>2
  <2>3. Nat \subseteq S
    <3> HIDE DEF S
    <3> QED BY <2>1, <2>2, SetInduction
  <2> QED BY <2>3
<1> DEFINE last == back[n]
<1>8. Undoable(last, restore, n, rename)
  BY <1>2, <1>7
<1> HIDE DEF last
<1>9. ASSUME RenamesApart PROVE last = scene
  <2>1. \A o \in DOMAIN scene : last[o].name = scene[o].name
    BY <1>2, <1>8, <1>9 DEF Undoable
  <2>2. \A o \in DOMAIN scene : last[o] = scene[o]
    <3> SUFFICES ASSUME NEW o \in DOMAIN scene PROVE last[o] = scene[o]
      OBVIOUS
    <3>1. Sound(last) /\ o \in DOMAIN last
          /\ last[o].parent = scene[o].parent /\ last[o].mesh = scene[o].mesh /\ last[o].shapes = scene[o].shapes
      BY <1>8 DEF Undoable
    <3>2. /\ last[o] = [name |-> last[o].name, parent |-> last[o].parent, mesh |-> last[o].mesh, shapes |-> last[o].shapes]
          /\ scene[o] = [name |-> scene[o].name, parent |-> scene[o].parent, mesh |-> scene[o].mesh, shapes |-> scene[o].shapes]
      BY <3>1, SoundParts
    <3> QED BY <2>1, <3>1, <3>2
  <2>3. /\ last = [o \in DOMAIN last |-> last[o]] /\ scene = [o \in DOMAIN scene |-> scene[o]]
        /\ DOMAIN last = DOMAIN scene
    BY <1>8 DEF Undoable, Sound
  <2> QED BY <2>2, <2>3
<1>10. Sound(last)
  BY <1>8 DEF Undoable
<1> QED BY <1>1, <1>9, <1>10 DEF last

LEMMA ExportOperates ==
  ASSUME SceneInv, NEW rename \in Renames, Export(rename)
  PROVE  Operated
<1> DEFINE a == Applied(rename)
<1>1. Sound(scene) /\ said.names \subseteq Taken(scene)
  BY DEF SceneInv
<1>2. /\ Elsewhere /\ said'.op = "export"
      /\ \/ scene' = scene /\ said'.names = {}
         \/ scene' = Restored(a.scene, a.restore) /\ said'.names \subseteq Taken(scene')
  BY DEF Export, Tells, PutBack
<1>3. Undoable(a.scene, a.restore, 0, rename) /\ Pairing(a.restore, rename)
  BY <1>1, AppliedIsUndoable
<1> HIDE DEF a
<1>4. Sound(Restored(a.scene, a.restore)) /\ (RenamesApart => Restored(a.scene, a.restore) = scene)
  BY <1>1, <1>3, RestoredIsUndone
<1>5. SceneInv'
  BY <1>1, <1>2, <1>4 DEF SceneInv, Elsewhere
<1> QED BY <1>2, <1>4, <1>5 DEF Operated, RestoreExact, JoinAsAsked, ExportLeavesMaster

LEMMA RestartKeeps == ASSUME SceneInv, Restart PROVE Operated
<1>1. /\ scene' = NoObjects /\ snapshots' = [l \in Labels |-> NoScene] /\ UNCHANGED <<files, asset>>
      /\ said'.op = "ready" /\ said'.names = {}
  BY DEF Restart
<1>2. SceneInv'
  BY <1>1, EmptyIsSound DEF SceneInv
<1> QED BY <1>1, <1>2 DEF Operated, RestoreExact, JoinAsAsked, ExportLeavesMaster

LEMMA InvIsSafe == SceneInv => SceneSafe
<1> SUFFICES ASSUME SceneInv PROVE SceneSafe
  OBVIOUS
<1>1. Sound(scene) /\ said.names \subseteq Taken(scene)
  BY DEF SceneInv
<1>2. NoOne \notin DOMAIN scene /\ \A o \in DOMAIN scene : scene[o].parent \in DOMAIN scene \cup {NoOne} /\ scene[o].mesh \in BOOLEAN
  BY <1>1, SoundParts
<1>3. SceneTypeOK /\ NamesHold
  BY <1>1, <1>2 DEF SceneTypeOK, NamesHold, Sound, Distinct
<1>4. Forest
  <2> SUFFICES ASSUME NEW o \in DOMAIN scene PROVE o \notin HangingLine(scene[o].parent)
    BY DEF Forest
  <2> DEFINE par == scene[o].parent
  <2>1. par \in DOMAIN scene \cup {NoOne} /\ DOMAIN scene \subseteq Objects /\ Ringless(scene)
    BY <1>1, <1>2 DEF Sound
  <2>2. PICK A : par \in A /\ o \notin A /\ Upward(scene, A)
    BY <1>2, <2>1, WayUp
  <2>3. HangingLine(par) \subseteq A
    <3> HIDE DEF par
    <3> QED BY <1>2, <2>1, <2>2, LineIsWhole
  <2> QED BY <2>2, <2>3
<1> QED BY <1>3, <1>4 DEF SceneSafe

LEMMA SceneStepOperates == ASSUME SceneInv, SceneNext PROVE Operated
<1>1. CASE \E stem \in Stems, mesh \in BOOLEAN : BuildObject(stem, mesh)
  BY <1>1, BuildOperates
<1>2. ASSUME NEW o \in DOMAIN scene, OnObject(o) PROVE Operated
  <2>1. CASE \E wanted \in Wanted \cup {Append(scene[o].name, x) : x \in {"_copy", "_lod1"}} : Duplicate(o, wanted)
    BY <2>1, DuplicateOperates
  <2>2. CASE \E suffix \in {"-col", "-convcol"} : Collision(o, suffix)
    BY <2>2, CollisionOperates
  <2>3. CASE \E to \in Wanted : Rename(o, to)
    BY <2>3, RenameOperates
  <2>4. CASE \E par \in DOMAIN scene : Parent(o, par)
    BY <2>4, ParentOperates
  <2> QED BY <1>2, <2>1, <2>2, <2>3, <2>4 DEF OnObject
<1>3. ASSUME NEW pair \in Pairs, Delete(pair) \/ \E into \in Wanted \cup {<<>>} : Join(pair, into) PROVE Operated
  BY <1>3, DeleteOperates, JoinOperates
<1>4. CASE \E rename \in Renames : Export(rename)
  BY <1>4, ExportOperates
<1>5. CASE OnSession
  BY <1>5, SessionOperates, ImportOperates DEF OnSession
<1>6. CASE Restart
  BY <1>6, RestartKeeps
<1> QED BY <1>1, <1>2, <1>3, <1>4, <1>5, <1>6 DEF SceneNext, Operation

LEMMA SceneBegins == SceneInit => SceneInv
BY EmptyIsSound DEF SceneInit, SceneInv

LEMMA SceneGoesOn == SceneInv /\ [SceneNext]_sceneVars => SceneInv'
<1> SUFFICES ASSUME SceneInv, [SceneNext]_sceneVars PROVE SceneInv'
  OBVIOUS
<1>1. CASE UNCHANGED sceneVars
  BY <1>1 DEF SceneInv, sceneVars
<1>2. CASE SceneNext
  BY <1>2, SceneStepOperates DEF Operated
<1> QED BY <1>1, <1>2

\* For any names, labels, files, objects and operations: the parents make a forest, every
\* name means one object and the answers' names are there; a snapshot comes back exactly,
\* a join is made of all its sources under the name asked for, and an export leaves the
\* master as it was unless a name it gives is one that it replaces.
THEOREM SceneIsKept ==
  SceneSpec => /\ []SceneSafe /\ [][RestoreExact /\ JoinAsAsked]_sceneVars
               /\ RenamesApart => [][ExportLeavesMaster]_sceneVars
<1>1. SceneInv /\ [SceneNext]_sceneVars => [RestoreExact /\ JoinAsAsked]_sceneVars
  BY SceneStepOperates DEF Operated
<1>2. CASE RenamesApart
  <2>1. SceneInv /\ [SceneNext]_sceneVars => [ExportLeavesMaster]_sceneVars
    BY <1>2, SceneStepOperates DEF Operated
  <2> QED BY <1>1, <2>1, SceneBegins, SceneGoesOn, InvIsSafe, PTL DEF SceneSpec
<1>3. CASE ~RenamesApart
  BY <1>1, <1>3, SceneBegins, SceneGoesOn, InvIsSafe, PTL DEF SceneSpec
<1> QED BY <1>2, <1>3
=============================================================================
