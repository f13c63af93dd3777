------------------------------ MODULE MCOnline ------------------------------
(***************************************************************************)
(* The instance for TLC of the parts that talk over a network.  They share *)
(* no state, so each behaviour is one of one part, and the others stay in  *)
(* one of their initial states.                                            *)
(***************************************************************************)
EXTENDS DedicatedSession, ControlApi, NakamaBridge, RiderGate, RiderDesks

VARIABLE part

onlineVars == <<part, sessionVars, apiVars, bridgeVars, gateVars, deskVars, boardVars>>
Parts == {"session", "api", "bridge", "gate", "desk", "board"}

Ours(type) == [type |-> type, protocol |-> "ours", form |-> "good"]
MCTexts ==
  {Ours(type) : type \in {"hello", "ping", "application_request", "bye"}}
    \cup {[Ours("hello") EXCEPT !.protocol = "theirs"], [Ours("ping") EXCEPT !.form = "broken"]}

MCCalls == {"c1", "c2", "c3"}
MCLoads ==
  {[c \in MCCalls |-> IF c = "c3" THEN "put" ELSE kinds] : kinds \in {"guest", "probe"}}
MCPlayerOf == [c \in MCCalls |-> "p1"]

\* The one initial state in which a part that does not run stays.
Still ==
  /\ part # "session" => hasApplication
  /\ part # "api" => kind["c1"] = "probe"
  /\ part # "bridge" => caller = [known |-> TRUE, wellFormed |-> TRUE, configured |-> TRUE]
  /\ part # "gate" => arrival = [web |-> FALSE, by |-> "saved", code |-> NoCode]

OnlineInit ==
  /\ part \in Parts
  /\ SessionInit /\ ApiInit /\ BridgeInit /\ GateInit /\ DeskInit /\ BoardInit
  /\ Still

\* A step of one part.
OfSession(A) ==
  part = "session" /\ A /\ UNCHANGED <<part, apiVars, bridgeVars, gateVars, deskVars, boardVars>>
OfApi(A) ==
  part = "api" /\ A /\ UNCHANGED <<part, sessionVars, bridgeVars, gateVars, deskVars, boardVars>>
OfBridge(A) ==
  part = "bridge" /\ A /\ UNCHANGED <<part, sessionVars, apiVars, gateVars, deskVars, boardVars>>
OfGate(A) ==
  part = "gate" /\ A /\ UNCHANGED <<part, sessionVars, apiVars, bridgeVars, deskVars, boardVars>>
OfDesk(A) ==
  part = "desk" /\ A /\ UNCHANGED <<part, sessionVars, apiVars, bridgeVars, gateVars, boardVars>>
OfBoard(A) ==
  part = "board" /\ A /\ UNCHANGED <<part, sessionVars, apiVars, bridgeVars, gateVars, deskVars>>

OnlineNext ==
  \/ OfSession(SessionNext) \/ OfApi(ApiNext) \/ OfBridge(BridgeNext)
  \/ OfGate(GateNext) \/ OfDesk(DeskNext) \/ OfBoard(BoardNext)

\* The fairness of each part, owed only to the part that runs.
OnlineFairness ==
  /\ WF_sessionVars(part = "session" /\ Server)
  /\ WF_sessionVars(part = "session" /\ Poll)
  /\ \A c \in Calls : WF_apiVars(part = "api" /\ Handle(c))
  /\ \A k \in Rpcs : WF_bridgeVars(part = "bridge" /\ GivesUp(k))
  /\ WF_gateVars(part = "gate" /\ Boot)
  /\ WF_gateVars(part = "gate" /\ GateAnswers)
  /\ WF_gateVars(part = "gate" /\ Pump)
  /\ WF_gateVars(part = "gate" /\ (SocketOpens \/ SocketCloses \/ ServerAuths))
  /\ WF_deskVars(part = "desk" /\ RacePhase)

OnlineSpec == OnlineInit /\ [][OnlineNext]_onlineVars /\ OnlineFairness

\* Everything that somebody waits for ends: a handshake, a close, a call of the API, a
\* player's request, a gate that is busy, the door that is shut for a race.
WaitsEnd ==
  /\ HandshakeEnds /\ ClosingEnds
  /\ CallsEnd /\ RpcsEnd
  /\ GateFrees /\ DoorReturns
=============================================================================
