------------------------------ MODULE RiderGate ------------------------------
(***************************************************************************)
(* How a rider signs in to the racing club: the gate of the rider's view,  *)
(* the code it remembers, the requests that trade a token or a remembered  *)
(* code for an entry, and the authed socket, which reconnects for ever     *)
(* with the last code it was given.  The club's server and the network are *)
(* the surroundings: a connection may fail at any moment and lose what it  *)
(* carried, and a code may be reset.                                       *)
(***************************************************************************)
EXTENDS Naturals, Sequences

CONSTANTS
  GoodCodes, BadCodes,   \* the codes of stables, and others a rider may type
  MaxJoins               \* bound: times the rider presses Join

NoCode == ""
Codes == GoodCodes \cup BadCodes
ASSUME CodesAssumption ==
  NoCode \notin Codes /\ GoodCodes \cap BadCodes = {} /\ MaxJoins \in Nat

VARIABLES
  arrival,    \* [web, by, code]: how the rider came: env code, token, saved code, none
  booted, joins,
  good,       \* the codes the club would accept now
  view,       \* what is on the screen and in the store
  flow,       \* the gate's request under way: none, sso, auto
  pending,    \* _pending_code
  answered,   \* how the last of the gate's requests ended
  code,       \* the client's code; NoCode until the client is started
  conn,       \* the state the client last announced
  nsOpen,     \* _authed_namespace_open
  sock,       \* null, connecting, open, closing, closed
  frames,     \* frames of this socket not yet read
  asking      \* the code the server was asked to let in on this socket

channel == <<code, conn, nsOpen, sock, frames, asking>>
gate == <<flow, pending, answered>>
gateVars == <<arrival, booted, joins, good, view, gate, channel>>

FrameTypes == {"eio_open", "connected", "auth_ok", "auth_error", "sio_error"}
Frame(type, c) == [type |-> type, of |-> c]

\* user: whose stable is shown; saved: the code kept between visits.
View == [user : Codes \cup {NoCode}, saved : Codes \cup {NoCode}, panel : BOOLEAN, busy : BOOLEAN]

GateInit ==
  /\ arrival \in [web : BOOLEAN, by : {"env", "token", "saved"}, code : Codes \cup {NoCode}]
  /\ arrival.by \in {"env", "token"} => arrival.code # NoCode
  /\ arrival.by = "token" => arrival.code \in GoodCodes
  /\ booted = FALSE /\ joins = 0 /\ good = GoodCodes
  /\ view = [user |-> NoCode, panel |-> TRUE, busy |-> FALSE,
             saved |-> IF arrival.by = "saved" THEN arrival.code ELSE NoCode]
  /\ flow = "none" /\ pending = NoCode /\ answered = "none"
  /\ code = NoCode /\ conn = "disconnected" /\ nsOpen = FALSE
  /\ sock = "null" /\ frames = <<>> /\ asking = NoCode

-----------------------------------------------------------------------------
(* The gate.                                                               *)

GateBusy(v) == [v EXCEPT !.panel = TRUE, !.busy = TRUE]
Restored(v) == [v EXCEPT !.busy = FALSE]

\* _connect_socket: a socket of its own, in the place of the one there was.
Connect ==
  /\ frames' = <<>> /\ asking' = NoCode
  /\ \/ sock' = "connecting" /\ conn' = "connecting"
     \/ sock' = "closed" /\ conn' = "error"

\* _submit_code, from the view v: the client is started with the code c.
Started(v, c) == view' = GateBusy(v) /\ code' = c /\ UNCHANGED nsOpen
SubmitKeepingSocket(v, c) ==
  Started(v, c) /\ (IF sock = "null" THEN Connect ELSE UNCHANGED <<frames, asking, sock, conn>>)
Submit(v, c) == Started(v, c) /\ Connect

Waits(f, c) == view' = GateBusy(view) /\ flow' = f /\ pending' = c

\* _boot_sign_in.
Boot ==
  /\ ~booted /\ booted' = TRUE
  /\ CASE arrival.by = "env" -> Submit(view, arrival.code) /\ UNCHANGED <<flow, pending>>
       [] arrival.by = "token" -> Waits("sso", pending) /\ UNCHANGED channel
       [] arrival.by = "saved" /\ arrival.web /\ arrival.code # NoCode ->
            Waits("auto", arrival.code) /\ UNCHANGED channel
       [] OTHER -> UNCHANGED <<view, flow, pending, channel>>
  /\ UNCHANGED <<arrival, joins, good, answered>>

MayJoinWhenShown == view.panel
MayJoin == view.panel /\ ~view.busy

\* The rider types a code, or takes the one that is there.
Join ==
  /\ booted /\ MayJoin
  /\ joins < MaxJoins /\ joins' = joins + 1
  /\ \E c \in Codes : Submit(view, c)
  /\ UNCHANGED <<arrival, booted, good, gate>>

\* should_forget: any status from 400 on but 429.
ForgetsUnlessOk(status) == status # "no answer"
Forgets(status) == status \in {"rejected", "server error"}

\* What the club or the network make of the gate's request for the code c.
Outcomes(c) == {"locked out", "server error", "no answer"}
                 \cup (IF c \in good THEN {"ok"} ELSE {"rejected"})

GateAnswers ==
  /\ flow # "none" /\ flow' = "none"
  /\ \E status \in Outcomes(IF flow = "sso" THEN arrival.code ELSE pending) :
       /\ answered' = status
       /\ CASE status = "ok" /\ flow = "sso" ->
                 Submit([Restored(view) EXCEPT !.saved = arrival.code], arrival.code)
            [] status = "ok" /\ flow = "auto" -> Submit(Restored(view), pending)
            [] status # "ok" /\ flow = "auto" /\ Forgets(status) ->
                 view' = [Restored(view) EXCEPT !.saved = NoCode] /\ UNCHANGED channel
            [] OTHER -> view' = Restored(view) /\ UNCHANGED channel
       /\ pending' = IF flow = "auto" /\ status # "no answer" THEN NoCode ELSE pending
  /\ UNCHANGED <<arrival, booted, joins, good>>

-----------------------------------------------------------------------------
(* The club's server and the network.                                      *)

SocketOpens ==
  /\ sock = "connecting" /\ sock' = "open"
  /\ frames' = <<Frame("eio_open", NoCode)>>
  /\ UNCHANGED <<arrival, booted, joins, good, view, gate, code, conn, nsOpen, asking>>

\* A reset may discard what was received and not yet read.
SocketFails ==
  /\ sock \in {"connecting", "open"} /\ sock' = "closed"
  /\ \E n \in 0..Len(frames) : frames' = SubSeq(frames, 1, n)
  /\ UNCHANGED <<arrival, booted, joins, good, view, gate, code, conn, nsOpen, asking>>

SocketCloses ==
  /\ sock = "closing" /\ sock' = "closed"
  /\ UNCHANGED <<arrival, booted, joins, good, view, gate, code, conn, nsOpen, frames, asking>>

\* A code that is wrong gets its error and a disconnect in one breath.
ServerAuths ==
  /\ sock = "open" /\ asking # NoCode /\ asking' = NoCode
  /\ LET answer(type) == frames \o <<Frame("connected", NoCode), Frame(type, asking)>> IN
     \/ asking \in good /\ frames' = answer("auth_ok") /\ UNCHANGED sock
     \/ /\ asking \notin good /\ sock' = "closed"
        /\ \E n \in 0..Len(answer("auth_error")) : frames' = SubSeq(answer("auth_error"), 1, n)
     \/ frames' = Append(frames, Frame("sio_error", NoCode)) /\ UNCHANGED sock
  /\ UNCHANGED <<arrival, booted, joins, good, view, gate, code, conn, nsOpen>>

ResetCode ==
  /\ \E c \in good : good' = good \ {c}
  /\ UNCHANGED <<arrival, booted, joins, view, gate, channel>>

-----------------------------------------------------------------------------
(* The client's pump, and what the view makes of it.                       *)

\* s: [view, conn, nsOpen]. The code saved is the client's of the moment.
Read(s, f) ==
  CASE f.type = "eio_open" -> [s EXCEPT !.nsOpen = FALSE]
    [] f.type = "connected" -> [s EXCEPT !.nsOpen = TRUE, !.conn = "connected"]
    [] f.type = "auth_ok" ->
         [s EXCEPT !.view = [Restored(@) EXCEPT !.user = f.of, !.panel = FALSE, !.saved = code]]
    [] f.type = "auth_error" ->
         [s EXCEPT !.view = [Restored(@) EXCEPT !.user = NoCode, !.panel = TRUE]]
    [] OTHER -> s

Now == [view |-> view, conn |-> conn, nsOpen |-> nsOpen]
Becomes(s) == view' = s.view /\ conn' = s.conn /\ nsOpen' = s.nsOpen

ReadFrame ==
  /\ sock = "open" /\ frames # <<>>
  /\ frames' = Tail(frames) /\ Becomes(Read(Now, Head(frames)))
  /\ asking' = IF Head(frames).type = "eio_open" THEN code ELSE asking
  /\ sock' = IF Head(frames).type = "sio_error" THEN "closing" ELSE sock
  /\ UNCHANGED <<arrival, booted, joins, good, gate, code>>

\* A rider who is dropped before being let in finds the gate open again.
StaysShut(s) == [s EXCEPT !.conn = "disconnected"]
Dropped(s) ==
  [s EXCEPT !.conn = "disconnected",
            !.view = IF s.conn # "disconnected" /\ s.view.user = NoCode /\ code # NoCode
                     THEN [Restored(@) EXCEPT !.panel = TRUE] ELSE @]

\* What the first n frames make of the client and the view.
After(n) ==
  LET read[i \in 0..Len(frames)] == IF i = 0 THEN Now ELSE Read(read[i - 1], frames[i])
  IN read[n]

\* The frames left on a socket that is closed are read first, in one go.
FindDropped ==
  /\ code # NoCode /\ sock = "closed"
  /\ sock' = "null" /\ frames' = <<>> /\ asking' = NoCode
  /\ Becomes(Dropped(After(Len(frames))))
  /\ UNCHANGED <<arrival, booted, joins, good, gate, code>>

Reconnect ==
  /\ code # NoCode /\ sock = "null" /\ Connect
  /\ UNCHANGED <<arrival, booted, joins, good, view, gate, code, nsOpen>>

Pump == ReadFrame \/ FindDropped \/ Reconnect
Club == SocketOpens \/ SocketFails \/ SocketCloses \/ ServerAuths
GateNext == Boot \/ Join \/ GateAnswers \/ Club \/ ResetCode \/ Pump

\* The gate's request ends within its fifteen seconds; the pump runs every frame and its
\* timer fires; a socket opens or fails, one that is being closed ends, and the server
\* lets the code in or drops it.
GateFairness ==
  /\ WF_gateVars(Boot) /\ WF_gateVars(GateAnswers) /\ WF_gateVars(Pump)
  /\ WF_gateVars(SocketOpens \/ SocketCloses \/ ServerAuths)
GateSpec == GateInit /\ [][GateNext]_gateVars /\ GateFairness

-----------------------------------------------------------------------------

GateTypeOK ==
  /\ arrival.web \in BOOLEAN /\ arrival.code \in Codes \cup {NoCode}
  /\ booted \in BOOLEAN /\ joins \in 0..MaxJoins /\ good \subseteq GoodCodes
  /\ view \in View
  /\ flow \in {"none", "sso", "auto"} /\ pending \in Codes \cup {NoCode}
  /\ answered \in {"none", "ok", "rejected", "locked out", "server error", "no answer"}
  /\ code \in Codes \cup {NoCode}
  /\ conn \in {"disconnected", "connecting", "connected", "error"} /\ nsOpen \in BOOLEAN
  /\ sock \in {"null", "connecting", "open", "closing", "closed"}
  /\ \A i \in DOMAIN frames : frames[i].type \in FrameTypes
  /\ asking \in Codes \cup {NoCode}

\* What is kept between visits opens a stable: the one shown, if one is shown, and
\* otherwise the code that was there before or one the club gave or let in.
KeptCodeOpensTheStable ==
  /\ view.user # NoCode => view.saved = view.user
  /\ view.saved \in GoodCodes \cup {NoCode, IF arrival.by = "saved" THEN arrival.code ELSE NoCode}

\* The gate is not in front of a stable that is open: no answer to a request of the
\* gate comes after the rider is let in.
GateShutWhenIn == view.user # NoCode => ~view.panel /\ flow = "none"

\* A code the club would accept is not forgotten over a lockout or a bad network; only
\* an error of the club's own server makes the rider lose it.
KeepsGoodCode ==
  [][view.saved \in good /\ view'.saved = NoCode => answered' = "server error"]_gateVars

\* What a rider may rely on who comes back, or whose connection breaks.
GateKeeps == [](GateTypeOK /\ KeptCodeOpensTheStable /\ GateShutWhenIn) /\ KeepsGoodCode

\* A gate that is busy opens, or opens again.
GateFrees == view.busy ~> ~view.busy
=============================================================================
