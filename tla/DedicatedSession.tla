-------------------------- MODULE DedicatedSession --------------------------
(***************************************************************************)
(* One WebSocket session, from the client's connect_to to the end: the     *)
(* dedicated server's accept loop and session, the Godot client's polled   *)
(* transport, and the connection between them, which may refuse, lose what *)
(* is under way and break.  The caller is a game: it greets when it is     *)
(* told it is connected, asks what it likes and may close at any moment.   *)
(***************************************************************************)
EXTENDS Naturals, Sequences, WireProtocol

CONSTANTS
  MaxTexts,        \* bound: texts a client sends on a connection
  MaxConnections   \* bound: times it connects

VARIABLES
  hasApplication,  \* a game registered a handler for application requests
  phase,           \* the server's session: none, handshake, established, over
  read,            \* texts the session has taken
  nextSeq,         \* the number of the session's last envelope
  acting,          \* the application request being awaited, 0 for none
  link,            \* the connection: none, dialing, up, broken
  up, down,        \* what is under way to the server and to the client
  peer,            \* the client's socket: none, connecting, open, closing, closed
  wasOpen,
  connections,
  signals,         \* what the transport has told the caller of its connection
  sent, got,       \* the texts the client sent, the envelopes it was given
  acted,           \* the requests the application has served
  posted           \* the results the session handed to a working transport

server == <<hasApplication, phase, read, nextSeq, acting, acted, posted>>
client == <<peer, connections, wasOpen, signals, sent, got>>
wire == <<link, up, down>>
sessionVars == <<server, client, wire>>

Close == [type |-> "close"]
Reset == [type |-> "reset"]      \* what a reader finds at the end of a broken stream
Control == {Close, Reset}
Envelope == [type : ReplyTypes, seq : Nat, of : Nat]

SessionInit ==
  /\ hasApplication \in BOOLEAN
  /\ phase = "none" /\ read = 0 /\ nextSeq = 0 /\ acting = 0
  /\ link = "none" /\ up = <<>> /\ down = <<>>
  /\ peer = "none" /\ connections = 0 /\ wasOpen = FALSE /\ signals = <<>>
  /\ sent = <<>> /\ got = <<>> /\ acted = <<>> /\ posted = <<>>

-----------------------------------------------------------------------------
(* The connection.                                                         *)

\* What still reaches the other side goes out on a connection that is up.
Carried(frames) == IF link = "up" THEN frames ELSE <<>>

\* A prefix of what was under way arrives.
Break ==
  /\ link = "up"
  /\ link' = "broken"
  /\ \E n \in 0..Len(up) : up' = Append(SubSeq(up, 1, n), Reset)
  /\ \E n \in 0..Len(down) : down' = SubSeq(down, 1, n)
  /\ UNCHANGED <<server, client>>

\* Nobody listens, or the upgrade to a WebSocket fails: no session is made.
Refuse ==
  /\ link = "dialing"
  /\ link' = "broken"
  /\ UNCHANGED <<server, client, up, down>>

-----------------------------------------------------------------------------
(* The server.                                                             *)

Accept ==
  /\ link = "dialing"
  /\ link' = "up" /\ phase' = "handshake"
  /\ UNCHANGED <<hasApplication, read, nextSeq, acting, acted, posted, client, up, down>>

\* Session::send numbers the envelope whether or not it gets out; a session that is
\* over closes its transport behind it.
Reply(type, of, next) ==
  /\ nextSeq' = nextSeq + 1
  /\ down' = down \o Carried(<<[type |-> type, seq |-> nextSeq', of |-> of]>>
                             \o (IF next = "over" THEN <<Close>> ELSE <<>>))
  /\ phase' = next

Takes(text) ==
  /\ up # <<>> /\ Head(up) = text
  /\ up' = Tail(up) /\ read' = read + 1

\* The first text: only an accepted hello keeps the connection, and then the session
\* is established whether or not the ack got out.
Handshake ==
  /\ phase = "handshake"
  /\ \E text \in Texts :
       LET reply == FirstReply(text) IN
       /\ Takes(text)
       /\ Reply(reply, read', IF reply = "hello_ack" THEN "established" ELSE "over")
  /\ UNCHANGED <<hasApplication, acting, acted, posted, client, link>>

HandshakeWaits == FALSE

HandshakeTimeout ==
  /\ phase = "handshake"
  /\ phase' = "over" /\ down' = down \o Carried(<<Close>>)
  /\ UNCHANGED <<hasApplication, read, nextSeq, acting, acted, posted, client, link, up>>

\* The arms that end the session when their answer cannot be sent; the others go on.
AfterSendGoesOn(mayBreak) == "established"
AfterSend(mayBreak) == IF mayBreak /\ link # "up" THEN "over" ELSE "established"

\* The loop, but for a request that an application is there to serve.
Serve ==
  /\ phase = "established" /\ acting = 0
  /\ \E text \in Texts :
       LET reply == LoopReply(text, hasApplication)
           asked == Decodes(text) /\ text.type \in {"ping", "echo", "application_request"}
       IN
       /\ Takes(text) /\ reply # "application_result"
       /\ Reply(reply, read', IF reply = "bye" THEN "over" ELSE AfterSend(asked))
  /\ UNCHANGED <<hasApplication, acting, acted, posted, client, link>>

CallApplication ==
  /\ phase = "established" /\ acting = 0
  /\ \E text \in Texts :
       Takes(text) /\ LoopReply(text, hasApplication) = "application_result"
  /\ acting' = read'
  /\ UNCHANGED <<hasApplication, phase, nextSeq, acted, posted, client, link, down>>

\* The game's handler, awaited without a limit of time.
ApplicationActs ==
  /\ acting # 0 /\ acting \notin {acted[i] : i \in DOMAIN acted}
  /\ acted' = Append(acted, acting)
  /\ UNCHANGED <<hasApplication, phase, read, nextSeq, acting, posted, client, wire>>

ApplicationAnswers ==
  /\ acting # 0 /\ acting \in {acted[i] : i \in DOMAIN acted}
  /\ Reply("application_result", acting, AfterSend(TRUE))
  /\ posted' = posted \o Carried(<<acting>>)
  /\ acting' = 0
  /\ UNCHANGED <<hasApplication, read, acted, client, link, up>>

\* recv() has nothing more behind either of them.
ResetEnds == {Reset}
Ends == Control

\* The peer closed, or the stream ended: an error first, which the session answers in
\* vain, and then nothing more.
EndOfInput ==
  /\ phase \in {"handshake", "established"} /\ acting = 0
  /\ up # <<>> /\ Head(up) \in Ends
  /\ up' = Tail(up)
  /\ nextSeq' = IF Head(up) = Reset THEN nextSeq + 1 ELSE nextSeq
  /\ phase' = "over" /\ down' = down \o Carried(<<Close>>)
  /\ UNCHANGED <<hasApplication, read, acting, acted, posted, client, link>>

\* The server process ends, whatever its sessions were doing.
Halt ==
  /\ phase \in {"handshake", "established"} /\ link = "up"
  /\ phase' = "over" /\ acting' = 0 /\ link' = "broken" /\ up' = <<>>
  /\ \E n \in 0..Len(down) : down' = SubSeq(down, 1, n)
  /\ UNCHANGED <<hasApplication, read, nextSeq, acted, posted, client>>

-----------------------------------------------------------------------------
(* The client's transport, which learns of everything when it is polled.   *)

\* A new connection has a session of its own; the histories are of the connection.
ConnectTo ==
  /\ peer \in {"none", "closed"} /\ phase \in {"none", "over"}
  /\ connections < MaxConnections /\ connections' = connections + 1
  /\ peer' = "connecting" /\ link' = "dialing" /\ up' = <<>> /\ down' = <<>>
  /\ sent' = <<>> /\ got' = <<>>
  /\ phase' = "none" /\ read' = 0 /\ nextSeq' = 0 /\ acting' = 0
  /\ acted' = <<>> /\ posted' = <<>>
  /\ UNCHANGED <<hasApplication, wasOpen, signals>>

Put(text) ==
  /\ sent' = Append(sent, text)
  /\ up' = up \o Carried(<<text>>)

\* The caller greets from its handler of `connected`: with the hello of the health
\* screen, with something else, or not at all.
PollOpen ==
  /\ peer = "connecting" /\ link = "up"
  /\ peer' = "open" /\ wasOpen' = TRUE /\ signals' = Append(signals, "connected")
  /\ \/ \E text \in Texts : Put(text)
     \/ UNCHANGED <<sent, up>>
  /\ UNCHANGED <<server, connections, got, link, down>>

\* A packet is read only while the socket is open.
PollPacket ==
  /\ peer = "open" /\ down # <<>> /\ Head(down) \notin Control
  /\ down' = Tail(down)
  /\ got' = IF Head(down).type \in KnownReplies THEN Append(got, Head(down)) ELSE got
  /\ UNCHANGED <<server, peer, connections, wasOpen, signals, sent, link, up>>

\* The socket is found closed, and the packets that came with the close are lost. Only
\* a connection that was open is said to be closed.
FindClosed ==
  /\ \/ peer \in {"open", "closing"} /\ (link = "broken" \/ \E i \in DOMAIN down : down[i] = Close)
     \/ peer = "connecting" /\ link = "broken"
  /\ peer' = "closed" /\ down' = <<>>
  /\ UNCHANGED <<server, connections, sent, got, link, up>>
PollClosedKeepsFlag ==
  /\ FindClosed
  /\ wasOpen' = wasOpen
  /\ signals' = IF wasOpen THEN Append(signals, "disconnected") ELSE signals
PollClosed ==
  /\ FindClosed
  /\ wasOpen' = FALSE
  /\ signals' = IF wasOpen THEN Append(signals, "disconnected") ELSE signals

CallerSends ==
  /\ peer = "open" /\ Len(sent) < MaxTexts
  /\ \E text \in Texts : Put(text)
  /\ UNCHANGED <<server, peer, connections, wasOpen, signals, got, link, down>>

\* close() does nothing to a socket that is closing or closed. One that is still
\* connecting is dropped at once, and the server finds its stream ended.
CallerCloses ==
  /\ \/ /\ peer = "open"
        /\ peer' = "closing" /\ up' = up \o Carried(<<Close>>) /\ link' = link
     \/ /\ peer = "connecting"
        /\ peer' = "closed" /\ up' = up \o Carried(<<Reset>>) /\ link' = "broken"
  /\ UNCHANGED <<server, connections, wasOpen, signals, sent, got, down>>

-----------------------------------------------------------------------------

Server == Accept \/ Handshake \/ HandshakeTimeout \/ Serve \/ CallApplication
            \/ ApplicationActs \/ ApplicationAnswers \/ EndOfInput
Poll == PollOpen \/ PollPacket \/ PollClosed
Caller == ConnectTo \/ CallerSends \/ CallerCloses
SessionNext == Server \/ Poll \/ Caller \/ Break \/ Refuse \/ Halt

\* The runtime runs every task that can go on, and fires the timers; an application's
\* handler returns; Studio polls the transport every frame.
SessionFairness == WF_sessionVars(Server) /\ WF_sessionVars(Poll)
SessionSpec == SessionInit /\ [][SessionNext]_sessionVars /\ SessionFairness

-----------------------------------------------------------------------------

SessionTypeOK ==
  /\ hasApplication \in BOOLEAN
  /\ phase \in {"none", "handshake", "established", "over"}
  /\ read \in 0..Len(sent) /\ nextSeq \in Nat /\ acting \in 0..read
  /\ link \in {"none", "dialing", "up", "broken"}
  /\ up \in Seq(Texts \cup Control) /\ down \in Seq(Envelope \cup {Close})
  /\ peer \in {"none", "connecting", "open", "closing", "closed"} /\ wasOpen \in BOOLEAN
  /\ signals \in Seq({"connected", "disconnected"})
  /\ sent \in Seq(Texts) /\ got \in Seq(Envelope)
  /\ acted \in Seq(1..read) /\ posted \in Seq(1..read)

\* Only a hello of our protocol, as the first text, opens a session: nothing is served,
\* and no application acts, behind any other beginning.
OnlyHelloOpens ==
  (phase = "established" \/ acted # <<>>) =>
     /\ sent # <<>>
     /\ sent[1].type = "hello" /\ sent[1].protocol = "ours" /\ sent[1].form = "good"

\* An answer of this type may follow this text; an envelope is the answer to text i.
Suits(type, text) ==
  type \in {"pong", "echo_ack", "application_result"} =>
    /\ Decodes(text)
    /\ type = CASE text.type = "ping" -> "pong"
                [] text.type = "echo" -> "echo_ack"
                [] OTHER -> "application_result"

Counts(envelope, i) ==
  envelope.seq = i /\ envelope.of = i /\ i \in DOMAIN sent /\ Suits(envelope.type, sent[i])

\* The protocol has no field that names the request an answer is for: a client can only
\* count. So every text is answered by one envelope, in the order of the texts, and the
\* envelopes are numbered from one without a gap, up to where the connection ends.
AnswersCount ==
  /\ \A i \in DOMAIN got : Counts(got[i], i)
  /\ \A i \in DOMAIN down : down[i] # Close => Counts(down[i], Len(got) + i)

\* Of all the requests the application has served, one at most has a result that never
\* went out: after the first one that cannot be answered nothing more is served.
OneResultUnsent == Len(acted) <= Len(posted) + 1

\* The caller is told of every connection that opens, once when it opens and once when
\* it is over; a socket that is closed in silence had never opened.
SignalsTellTheTruth ==
  /\ \A i \in DOMAIN signals : signals[i] = IF i % 2 = 1 THEN "connected" ELSE "disconnected"
  /\ peer \in {"open", "closing"} <=> Len(signals) % 2 = 1

\* What the two ends of a connection may rely on.
SessionSafe == SessionTypeOK /\ OnlyHelloOpens /\ AnswersCount /\ OneResultUnsent /\ SignalsTellTheTruth

\* A connection does not stay in its handshake: a client that says nothing is let go.
HandshakeEnds == phase = "handshake" ~> phase # "handshake"

\* A caller that closes its connection sees it closed, whatever the server was doing.
ClosingEnds == peer = "closing" ~> peer = "closed"
=============================================================================
