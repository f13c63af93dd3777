---------------------------- MODULE NakamaBridge ----------------------------
(***************************************************************************)
(* The application request a player sends through Nakama.  The bridge asks *)
(* the game's backend once and gives it five seconds; the network may lose *)
(* or delay what it carries, a server in between may answer for the        *)
(* backend, the backend may serve a request after the bridge has given it  *)
(* up, and the player may ask again what was rejected.                     *)
(***************************************************************************)
EXTENDS Naturals

CONSTANT MaxAsked        \* bound: requests the player makes

ASSUME BridgeAssumption == MaxAsked \in Nat

VARIABLES
  caller,      \* who asks: known to Nakama, with a payload that parses, where a backend
               \* is configured
  asked,       \* requests made, one after the other
  call,        \* the call of each request: unsent, travelling, served, lost
  done,        \* what the backend did with each request it served
  reply,       \* what came back over the connection, from whomever
  answer       \* what the player was told of each

bridgeVars == <<caller, asked, call, done, reply, answer>>

Rpcs == 1..MaxAsked
Deeds == {"accepted", "rejected"}
\* A status inside 2xx or not, with a body that says one or the other or has another shape.
Responses == [ok : BOOLEAN, body : Deeds \cup {"malformed"}]
\* The summaries of a rejection are the bridge's own, but for the backend's.
Unasked == {"authentication required", "invalid json"}
Unavailable == "application backend unavailable"
Unsure == {Unavailable, "http error", "malformed"}
Refusals == Unasked \cup Unsure \cup {"rejected"}
Nothing == "nothing"
NoReply == [ok |-> FALSE, body |-> Nothing]

BridgeInit ==
  /\ caller \in [known : BOOLEAN, wellFormed : BOOLEAN, configured : BOOLEAN]
  /\ asked = 0
  /\ call = [k \in Rpcs |-> "unsent"] /\ done = [k \in Rpcs |-> Nothing]
  /\ reply = [k \in Rpcs |-> NoReply] /\ answer = [k \in Rpcs |-> Nothing]

\* The checks before the call, in their order.
Precheck ==
  CASE ~caller.known -> "authentication required"
    [] caller.known /\ ~caller.wellFormed -> "invalid json"
    [] caller.known /\ caller.wellFormed /\ ~caller.configured -> Unavailable
    [] OTHER -> Nothing

AskBackend ==
  /\ asked < MaxAsked /\ (asked > 0 => answer[asked] # Nothing)
  /\ asked' = asked + 1
  /\ IF Precheck = Nothing
     THEN call' = [call EXCEPT ![asked'] = "travelling"] /\ UNCHANGED answer
     ELSE answer' = [answer EXCEPT ![asked'] = Precheck] /\ UNCHANGED call
  /\ UNCHANGED <<caller, done, reply>>

\* What may come back of a request: a well formed body under 2xx is the word of the
\* backend that served it; an error status or another shape may come with anything done.
OwnWord(r) == r.ok /\ r.body \in Deeds

\* The backend, at any time, even after the answer, and its reply if there is none yet.
BackendServes(k) ==
  /\ call[k] = "travelling" /\ call' = [call EXCEPT ![k] = "served"]
  /\ \E deed \in Deeds, r \in Responses :
       /\ OwnWord(r) => r.body = deed
       /\ done' = [done EXCEPT ![k] = deed]
       /\ reply' = IF reply[k] = NoReply THEN [reply EXCEPT ![k] = r] ELSE reply
  /\ UNCHANGED <<caller, asked, answer>>

\* A server in between answers, while the request may still arrive.
HopReplies(k) ==
  /\ call[k] = "travelling" /\ reply[k] = NoReply
  /\ \E r \in Responses : ~OwnWord(r) /\ reply' = [reply EXCEPT ![k] = r]
  /\ UNCHANGED <<caller, asked, call, done, answer>>

CallIsLost(k) ==
  /\ call[k] = "travelling" /\ call' = [call EXCEPT ![k] = "lost"]
  /\ UNCHANGED <<caller, asked, done, reply, answer>>

\* A mutant: under 2xx a body of another shape is taken for an acceptance.
UnderstoodByStatus(r) ==
  CASE ~r.ok -> "http error"
    [] r.ok /\ r.body \in Deeds -> r.body
    [] r.ok /\ r.body \notin Deeds -> "accepted"

\* A status outside 2xx is a rejection whatever the body says, then a body of another
\* shape is; anything else is handed on as the backend said it.
Understood(r) == IF r.ok THEN r.body ELSE "http error"

Responds(k) ==
  /\ reply[k] # NoReply /\ answer[k] = Nothing
  /\ answer' = [answer EXCEPT ![k] = Understood(reply[k])]
  /\ UNCHANGED <<caller, asked, call, done, reply>>

\* httpRequest throws: five seconds are over, or the connection failed. Whether the
\* backend has served the request, or will, is not known.
\* A mutant: a request that was given up is said to be rejected.
GivenUpAsRejected == "rejected"
GivenUpAs == Unavailable
NeverGivesUp(k) == FALSE
GivesUp(k) ==
  /\ call[k] # "unsent" /\ answer[k] = Nothing
  /\ answer' = [answer EXCEPT ![k] = GivenUpAs]
  /\ UNCHANGED <<caller, asked, call, done, reply>>

BridgeNext ==
  \/ AskBackend
  \/ \E k \in Rpcs : BackendServes(k) \/ HopReplies(k) \/ CallIsLost(k) \/ Responds(k) \/ GivesUp(k)

\* The clock of the call.
BridgeSpec == BridgeInit /\ [][BridgeNext]_bridgeVars /\ \A k \in Rpcs : WF_bridgeVars(GivesUp(k))

-----------------------------------------------------------------------------

BridgeTypeOK ==
  /\ caller \in [known : BOOLEAN, wellFormed : BOOLEAN, configured : BOOLEAN]
  /\ asked \in 0..MaxAsked
  /\ call \in [Rpcs -> {"unsent", "travelling", "served", "lost"}]
  /\ done \in [Rpcs -> Deeds \cup {Nothing}]
  /\ reply \in [Rpcs -> Responses \cup {NoReply}]
  /\ answer \in [Rpcs -> Refusals \cup {"accepted", Nothing}]

\* What the player is told of a request is sure in two cases. Said to be accepted, the
\* backend has accepted it. Rejected in the backend's own words, or before it was asked,
\* the backend has not accepted it and never will. After every other summary (an error
\* status, a body of another shape, no answer at all) the request may have been accepted
\* or may yet be: to ask again may be to be served twice.
AnswersAreSure ==
  \A k \in Rpcs :
    /\ answer[k] = "accepted" => done[k] = "accepted"
    /\ answer[k] \in Refusals \ Unsure =>
         done[k] # "accepted" /\ call[k] \in {"unsent", "served"}

\* Every request is answered, though its call may be lost.
Unanswered == asked > 0 /\ answer[asked] = Nothing
RpcsEnd == Unanswered ~> ~Unanswered
=============================================================================
