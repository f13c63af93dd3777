-------------------------- MODULE Services_proofs ---------------------------
(***************************************************************************)
(* What a game may rely on of the control API, of the Nakama bridge, of    *)
(* the rider's gate and desks and of the dedicated server's session, for   *)
(* any number of calls, players, connections, requests, codes, taps,       *)
(* horses, sessions, updates and texts.                                    *)
(*                                                                         *)
(* For the API the invariant adds that what a transaction has written is   *)
(* fixed by the statement its handler is at (Written), so that a commit    *)
(* brings a guest in whole; that a guest who is answered well is in the    *)
(* tables (GuestsAnswered); and that a probe about to commit has read its  *)
(* own value (ProbesRead).                                                 *)
(*                                                                         *)
(* For the bridge it adds where the calls are: requests that were not made *)
(* have no call, no reply and no answer, that a deed belongs to a call     *)
(* that was served (ServedIsDone), and that a reply in the backend's own   *)
(* word says what it did (WordIsDeed), so no step of the backend can come  *)
(* after an answer that speaks for it.                                     *)
(*                                                                         *)
(* For the gate it adds that a socket speaks of one code only, the         *)
(* client's (Carries), and that while a request of the gate is under way   *)
(* no client has been started (Ordered).                                   *)
(*                                                                         *)
(* For the desks it adds that of all sessions that were left only the last *)
(* may still be told of, and is then the one to swallow (Left), and that   *)
(* on an open board the button that is armed says CONFIRM (Drawn).         *)
(*                                                                         *)
(* For the session it counts, as the answers carry no name of the request  *)
(* they are for: the texts under way are those that follow the ones taken  *)
(* (Following), and on a connection that is up the envelopes sent are      *)
(* those the client has and those under way (Numbered).                    *)
(***************************************************************************)
EXTENDS DedicatedSession, ControlApi, NakamaBridge, RiderGate, RiderDesks, TLAPS, IntervalInduction

-----------------------------------------------------------------------------
(* The control API.                                                        *)

\* A handler is at statements of its own kind only.
PlacesOfKind ==
  \A c \in Calls :
    /\ at[c] \in {"account", "session", "audit"} => kind[c] = "guest"
    /\ at[c] \in {"write", "read"} => kind[c] = "probe"
    /\ at[c] = "put" => kind[c] = "put"
    /\ at[c] = "commit" => kind[c] \in {"guest", "probe"}

\* The tables a transaction has written when its handler is at a place.
Due(place, sort) ==
  CASE place = "session" -> {"account"}
    [] place = "audit" -> {"account", "session"}
    [] place = "commit" /\ sort = "guest" -> {"account", "session", "audit"}
    [] place = "read" -> {"kv"}
    [] place = "commit" /\ sort # "guest" -> {"kv"}
    [] OTHER -> {}

Written == \A c \in Calls : written[c] = Due(at[c], kind[c])

GuestsAnswered == \A c \in Calls : kind[c] = "guest" /\ at[c] = "ok" => c \in sessions

ProbesRead == \A c \in Calls : kind[c] = "probe" /\ at[c] = "commit" => readBack[c] = c

ApiInv == ApiSafe /\ PlacesOfKind /\ Written /\ GuestsAnswered /\ ProbesRead

\* The invariant holds before anything was asked.
LEMMA ApiInvInit == ApiInit => ApiInv
BY ControlAssumption, NobodyAssumption
   DEF ApiInit, ApiInv, ApiSafe, ApiTypeOK, WholeGuests, SignedInIsCommitted, ProbesReadThemselves,
       PlacesOfKind, Written, Due, GuestsAnswered, ProbesRead, Serving, Ended, Answered

\* A handler that goes on, or ends without a commit, and changes no table: what its
\* transaction has written is that of its new place.
LEMMA MovesOn ==
  ASSUME ApiInv, NEW c \in Calls, NEW place, place \in {"asked"} \cup Serving \cup Ended,
         Goes(c, place), kind' = kind, guestName' = guestName, waiting' \in [Calls -> BOOLEAN],
         UNCHANGED <<tables, signedIn>>,
         written' = [written EXCEPT ![c] = Due(place, kind[c])],
         readBack' \in [Calls -> Calls \cup {Nobody}], \A d \in Calls \ {c} : readBack'[d] = readBack[d],
         place \in {"account", "session", "audit"} => kind[c] = "guest",
         place \in {"write", "read"} => kind[c] = "probe",
         place = "put" => kind[c] = "put",
         place = "commit" => kind[c] = "guest" \/ (kind[c] = "probe" /\ readBack'[c] = c),
         place = "ok" => FALSE
  PROVE  ApiInv'
<1> USE DEF ApiInv, ApiSafe
<1>1. at' = [at EXCEPT ![c] = place] /\ at' \in [Calls -> {"idle", "asked"} \cup Serving \cup Ended]
  BY DEF Goes, ApiTypeOK
<1>2. Due(place, kind[c]) \subseteq {"account", "session", "audit", "kv"}
  BY DEF Due
<1>3. ApiTypeOK'
  BY <1>1, <1>2 DEF ApiTypeOK, tables
<1>4. WholeGuests' /\ SignedInIsCommitted' /\ GuestsAnswered'
  BY <1>1 DEF WholeGuests, SignedInIsCommitted, GuestsAnswered, tables, ApiTypeOK
<1>5. PlacesOfKind'
  BY <1>1 DEF PlacesOfKind, ApiTypeOK
<1>6. ProbesRead' /\ ProbesReadThemselves'
  BY <1>1, ControlAssumption DEF ProbesRead, ProbesReadThemselves, ApiTypeOK
<1>7. Written'
  BY <1>1 DEF Written, ApiTypeOK
<1> QED BY <1>3, <1>4, <1>5, <1>6, <1>7

\* A commit, whether or not it is reported: the rows of the transaction are in the tables,
\* all of a guest's together.
LEMMA CommitsWhole ==
  ASSUME ApiInv, NEW c \in Calls, NEW place \in {"ok", "error", "dropped"},
         at[c] = "commit", Goes(c, place), Committed(c),
         UNCHANGED <<kind, guestName, readBack, clients>>
  PROVE  ApiInv'
<1> USE DEF ApiInv, ApiSafe
<1>1. at' = [at EXCEPT ![c] = place] /\ written' = [written EXCEPT ![c] = {}]
  BY DEF Goes, Committed, NoTransaction
<1>2. kind[c] \in {"guest", "probe"}
  BY DEF PlacesOfKind
<1>3. written[c] = IF kind[c] = "guest" THEN {"account", "session", "audit"} ELSE {"kv"}
  BY <1>2 DEF Written, Due
<1>4. /\ accounts' = (IF kind[c] = "guest" THEN accounts \cup {c} ELSE accounts)
      /\ sessions' = (IF kind[c] = "guest" THEN sessions \cup {c} ELSE sessions)
      /\ audits' = (IF kind[c] = "guest" THEN audits \cup {c} ELSE audits)
      /\ kv' \in {c, kv}
  BY <1>3 DEF Committed, With
<1>5. ApiTypeOK'
  BY <1>1, <1>4 DEF ApiTypeOK, clients, Ended, Answered
<1>6. WholeGuests' /\ sessions \subseteq sessions'
  BY <1>4 DEF WholeGuests
<1>7. SignedInIsCommitted'
  BY <1>6 DEF SignedInIsCommitted, clients
<1>8. GuestsAnswered'
  BY <1>1, <1>4, <1>6 DEF GuestsAnswered, ApiTypeOK
<1>9. PlacesOfKind' /\ ProbesRead'
  BY <1>1 DEF PlacesOfKind, ProbesRead, ApiTypeOK
<1>10. ProbesReadThemselves'
  BY <1>1 DEF ProbesReadThemselves, ProbesRead, ApiTypeOK
<1>11. Due(place, kind[c]) = {}
  BY DEF Due
<1>12. Written'
  BY <1>1, <1>11 DEF Written, ApiTypeOK
<1> QED BY <1>5, <1>6, <1>7, <1>8, <1>9, <1>10, <1>12

\* A put, whether or not it is reported, writes the one row and nothing else.
LEMMA PutsAlone ==
  ASSUME ApiInv, NEW c \in Calls, NEW place \in {"ok", "error", "dropped"},
         at[c] = "put", Goes(c, place), kv' = c,
         UNCHANGED <<kind, guestName, written, accounts, sessions, audits, readBack, clients>>
  PROVE  ApiInv'
<1> USE DEF clients
<1>1. at' = [at EXCEPT ![c] = place] /\ at \in [Calls -> {"idle", "asked"} \cup Serving \cup Ended]
  BY DEF Goes, ApiInv, ApiSafe, ApiTypeOK
<1>2. kind[c] = "put" /\ written[c] = {} /\ Due(place, kind[c]) = {}
  BY DEF ApiInv, PlacesOfKind, Written, Due
<1>3. ApiTypeOK'
  BY <1>1 DEF ApiInv, ApiSafe, ApiTypeOK, Ended, Answered
<1>4. WholeGuests' /\ SignedInIsCommitted' /\ ProbesReadThemselves'
  BY <1>1, <1>2 DEF ApiInv, ApiSafe, WholeGuests, SignedInIsCommitted, ProbesReadThemselves
<1>5. PlacesOfKind' /\ GuestsAnswered' /\ ProbesRead'
  BY <1>1, <1>2 DEF ApiInv, PlacesOfKind, GuestsAnswered, ProbesRead
<1>6. Written'
  BY <1>1, <1>2 DEF ApiInv, Written
<1> QED BY <1>3, <1>4, <1>5, <1>6 DEF ApiInv, ApiSafe

\* A handler that ends without its commit.
LEMMA RollsBack ==
  ASSUME ApiInv, NEW c \in Calls, NEW place \in {"error", "dropped"},
         Goes(c, place), NoTransaction(c), UNCHANGED <<tables, kind, guestName, readBack, clients>>
  PROVE  ApiInv'
<1>1. Due(place, kind[c]) = {} /\ place \in Ended
  BY DEF Due, Ended, Answered
<1>2. readBack \in [Calls -> Calls \cup {Nobody}] /\ waiting \in [Calls -> BOOLEAN]
  BY DEF ApiInv, ApiSafe, ApiTypeOK
<1> QED BY <1>1, <1>2, MovesOn DEF NoTransaction, clients

\* The server's statements keep the invariant.
LEMMA HandleKeeps ==
  ASSUME ApiInv, NEW c \in Calls, Handle(c)
  PROVE  ApiInv'
<1> USE DEF clients
<1>0. /\ readBack \in [Calls -> Calls \cup {Nobody}] /\ waiting \in [Calls -> BOOLEAN]
      /\ written \in [Calls -> SUBSET {"account", "session", "audit", "kv"}]
      /\ at \in [Calls -> {"idle", "asked"} \cup Serving \cup Ended]
      /\ written[c] = Due(at[c], kind[c]) /\ kind[c] \in {"guest", "probe", "put"}
  BY ControlAssumption DEF ApiInv, ApiSafe, ApiTypeOK, Written
<1>1. CASE Begin(c)
  <2>1. at[c] = "asked" /\ Goes(c, First(c)) /\ UNCHANGED <<kind, guestName, written, tables, readBack, clients>>
    BY <1>1 DEF Begin
  <2>2. /\ First(c) \in {"account", "write", "put"}
        /\ First(c) = "account" => kind[c] = "guest"
        /\ First(c) = "write" => kind[c] = "probe"
        /\ First(c) = "put" => kind[c] = "put"
    BY <1>0 DEF First
  <2>3. Due(First(c), kind[c]) = {} /\ written[c] = {}
    BY <1>0, <2>1, <2>2 DEF Due
  <2>4. written' = [written EXCEPT ![c] = Due(First(c), kind[c])]
    BY <1>0, <2>1, <2>3
  <2>5. First(c) \in Serving
    BY <2>2 DEF Serving
  <2> QED BY <1>0, <2>1, <2>2, <2>4, <2>5, MovesOn
<1>2. CASE InsertAccount(c)
  <2>1. at[c] = "account" /\ UNCHANGED <<kind, guestName, tables, readBack, clients>>
    BY <1>2 DEF InsertAccount
  <2>2. kind[c] = "guest" /\ written[c] = {}
    BY <1>0, <2>1 DEF ApiInv, PlacesOfKind, Due
  <2>3. CASE Goes(c, "error") /\ UNCHANGED written
    BY <1>0, <2>1, <2>2, <2>3, RollsBack DEF NoTransaction
  <2>4. CASE Writes(c, "account") /\ Goes(c, "session")
    <3>1. written' = [written EXCEPT ![c] = Due("session", kind[c])]
      BY <1>0, <2>2, <2>4 DEF Writes, Due
    <3> QED BY <1>0, <2>1, <2>2, <2>4, <3>1, MovesOn DEF Serving
  <2> QED BY <1>2, <2>3, <2>4 DEF InsertAccount
<1>3. CASE InsertSession(c)
  <2>1. /\ at[c] = "session" /\ Writes(c, "session") /\ Goes(c, "audit")
        /\ UNCHANGED <<kind, guestName, tables, readBack, clients>>
    BY <1>3 DEF InsertSession
  <2>2. kind[c] = "guest"
    BY <2>1 DEF ApiInv, PlacesOfKind
  <2>3. written' = [written EXCEPT ![c] = Due("audit", kind[c])]
    BY <1>0, <2>1 DEF Writes, Due
  <2> QED BY <1>0, <2>1, <2>2, <2>3, MovesOn DEF Serving
<1>4. CASE InsertAudit(c)
  <2>1. /\ at[c] = "audit" /\ Writes(c, "audit") /\ Goes(c, "commit")
        /\ UNCHANGED <<kind, guestName, tables, readBack, clients>>
    BY <1>4 DEF InsertAudit
  <2>2. kind[c] = "guest"
    BY <2>1 DEF ApiInv, PlacesOfKind
  <2>3. written' = [written EXCEPT ![c] = Due("commit", kind[c])]
    BY <1>0, <2>1, <2>2 DEF Writes, Due
  <2> QED BY <1>0, <2>1, <2>2, <2>3, MovesOn DEF Serving
<1>5. CASE WriteProbe(c)
  <2>1. /\ at[c] = "write" /\ Writes(c, "kv") /\ Goes(c, "read")
        /\ UNCHANGED <<kind, guestName, tables, readBack, clients>>
    BY <1>5 DEF WriteProbe
  <2>2. kind[c] = "probe"
    BY <2>1 DEF ApiInv, PlacesOfKind
  <2>3. written' = [written EXCEPT ![c] = Due("read", kind[c])]
    BY <1>0, <2>1 DEF Writes, Due
  <2> QED BY <1>0, <2>1, <2>2, <2>3, MovesOn DEF Serving
<1>6. CASE ReadProbe(c)
  <2>1. /\ at[c] = "read" /\ Goes(c, "commit")
        /\ readBack' = [readBack EXCEPT ![c] = IF "kv" \in written[c] THEN c ELSE kv]
        /\ UNCHANGED <<kind, guestName, written, tables, clients>>
    BY <1>6 DEF ReadProbe
  <2>2. kind[c] = "probe" /\ written[c] = {"kv"}
    BY <1>0, <2>1 DEF ApiInv, PlacesOfKind, Due
  <2>3. written' = [written EXCEPT ![c] = Due("commit", kind[c])]
    BY <1>0, <2>1, <2>2 DEF Due
  <2>4. /\ readBack' \in [Calls -> Calls \cup {Nobody}] /\ readBack'[c] = c
        /\ \A d \in Calls \ {c} : readBack'[d] = readBack[d]
    BY <1>0, <2>1, <2>2
  <2> QED BY <1>0, <2>1, <2>2, <2>3, <2>4, MovesOn DEF Serving
<1>7. CASE PutKv(c)
  BY <1>7, PutsAlone DEF PutKv
<1>8. CASE Commit(c)
  BY <1>8, CommitsWhole DEF Commit
<1> QED BY <1>1, <1>2, <1>3, <1>4, <1>5, <1>6, <1>7, <1>8 DEF Handle

\* The client's steps keep the invariant: a session is taken from a call that was
\* answered well only.
LEMMA ClientKeeps ==
  ASSUME ApiInv, NEW c \in Calls, Ask(c) \/ Told(c) \/ GiveUp(c)
  PROVE  ApiInv'
<1> USE ControlAssumption, NobodyAssumption DEF ApiInv, ApiSafe, tables
<1>1. CASE Ask(c)
  <2>1. Due("asked", kind[c]) = {} /\ Due("idle", kind[c]) = {} /\ at[c] = "idle" /\ "asked" \notin Serving
    BY <1>1 DEF Due, Ask, Serving
  <2>2. written' = [written EXCEPT ![c] = Due("asked", kind[c])]
    BY <1>1, <2>1 DEF Ask, Written, ApiTypeOK
  <2>3. waiting' \in [Calls -> BOOLEAN] /\ readBack' \in [Calls -> Calls \cup {Nobody}]
    BY <1>1 DEF Ask, ApiTypeOK
  <2> QED BY <1>1, <2>2, <2>3, MovesOn DEF Ask
<1>2. CASE Told(c)
  <2>1. /\ at[c] \in Answered /\ at' = [at EXCEPT ![c] = "told"] /\ waiting' = [waiting EXCEPT ![c] = FALSE]
        /\ signedIn' = IF kind[c] = "guest" /\ at[c] = "ok"
                       THEN [signedIn EXCEPT ![PlayerOf[c]] = c] ELSE signedIn
        /\ UNCHANGED <<kind, guestName, written, tables, readBack>>
    BY <1>2 DEF Told, Goes
  <2>2. Due("told", kind[c]) = {} /\ written[c] = {}
    BY <2>1 DEF Due, Written, Answered
  <2>3. ApiTypeOK'
    BY <2>1 DEF ApiTypeOK, Ended
  <2>4. SignedInIsCommitted'
    BY <2>1 DEF SignedInIsCommitted, GuestsAnswered, ApiTypeOK
  <2>5. WholeGuests' /\ ProbesReadThemselves' /\ PlacesOfKind' /\ GuestsAnswered' /\ ProbesRead'
    BY <2>1 DEF WholeGuests, ProbesReadThemselves, PlacesOfKind, GuestsAnswered, ProbesRead, ApiTypeOK
  <2>6. Written'
    BY <2>1, <2>2 DEF Written, ApiTypeOK
  <2> QED BY <2>3, <2>4, <2>5, <2>6
<1>3. CASE GiveUp(c)
  BY <1>3 DEF GiveUp, ApiTypeOK, WholeGuests, SignedInIsCommitted, ProbesReadThemselves,
              PlacesOfKind, Written, GuestsAnswered, ProbesRead
<1> QED BY <1>1, <1>2, <1>3

\* Every step keeps the invariant.
LEMMA ApiInvNext == ApiInv /\ [ApiNext]_apiVars => ApiInv'
<1> SUFFICES ASSUME ApiInv, [ApiNext]_apiVars PROVE ApiInv'
  OBVIOUS
<1>1. ASSUME NEW c \in Calls, Ask(c) \/ Told(c) \/ GiveUp(c) PROVE ApiInv'
  BY <1>1, ClientKeeps
<1>2. ASSUME NEW c \in Calls, Handle(c) PROVE ApiInv'
  BY <1>2, HandleKeeps
<1>3. ASSUME NEW c \in Calls, Fail(c) PROVE ApiInv'
  <2>1. Goes(c, "error") /\ UNCHANGED <<kind, guestName, readBack, clients>>
    BY <1>3 DEF Fail
  <2>2. CASE DoneUnreported(c)
    BY <2>1, <2>2, CommitsWhole, PutsAlone DEF DoneUnreported
  <2>3. CASE RolledBack(c)
    BY <2>1, <2>3, RollsBack DEF RolledBack
  <2> QED BY <1>3, <2>2, <2>3 DEF Fail
<1>4. ASSUME NEW c \in Calls, Drop(c) PROVE ApiInv'
  <2>1. Goes(c, "dropped") /\ UNCHANGED <<kind, guestName, readBack, clients>>
    BY <1>4 DEF Drop
  <2>2. CASE DoneUnreported(c)
    BY <2>1, <2>2, CommitsWhole, PutsAlone DEF DoneUnreported
  <2>3. CASE RolledBack(c)
    BY <2>1, <2>3, RollsBack DEF RolledBack
  <2> QED BY <1>4, <2>2, <2>3 DEF Drop
<1>5. ASSUME NEW p \in Players, SignOut(p) PROVE ApiInv'
  BY <1>5, NobodyAssumption
     DEF SignOut, ApiInv, ApiSafe, ApiTypeOK, WholeGuests, SignedInIsCommitted, ProbesReadThemselves,
         PlacesOfKind, Written, GuestsAnswered, ProbesRead, tables
<1>6. CASE UNCHANGED apiVars
  BY <1>6 DEF apiVars, ApiInv, ApiSafe, ApiTypeOK, WholeGuests, SignedInIsCommitted,
              ProbesReadThemselves, PlacesOfKind, Written, GuestsAnswered, ProbesRead
<1> QED BY <1>1, <1>2, <1>3, <1>4, <1>5, <1>6 DEF ApiNext

\* Guests are there whole or not at all, a session that is shown is a committed row of that
\* player's, and an answered probe has read itself: for any number of calls, players and
\* connections, whatever fails, is dropped or goes unreported between two statements.
THEOREM ApiIsSafe == ApiSpec => []ApiSafe
<1>1. ApiInv => ApiSafe
  BY DEF ApiInv
<1> QED BY <1>1, ApiInvInit, ApiInvNext, PTL DEF ApiSpec

-----------------------------------------------------------------------------
(* The Nakama bridge.                                                      *)

\* A request that is yet to be made has left nothing behind.
Unmade ==
  \A k \in Rpcs : k > asked => call[k] = "unsent" /\ answer[k] = Nothing /\ reply[k] = NoReply

\* What the backend did is known when, and only when, the call was served.
ServedIsDone == \A k \in Rpcs : call[k] = "served" <=> done[k] # Nothing

\* A reply in the backend's own word says what the backend did.
WordIsDeed == \A k \in Rpcs : OwnWord(reply[k]) => reply[k].body = done[k]

BridgeInv == BridgeTypeOK /\ Unmade /\ ServedIsDone /\ WordIsDeed /\ AnswersAreSure

\* The strings the bridge tells apart are different ones.
LEMMA Words ==
  /\ Nothing \notin Deeds /\ "accepted" \notin Refusals /\ Nothing \notin Refusals
  /\ Deeds \subseteq Refusals \cup {"accepted"} /\ Deeds \cap Unsure = {}
  /\ Unavailable \in Unsure /\ Unsure \subseteq Refusals
BY DEF Nothing, Deeds, Refusals, Unasked, Unsure, Unavailable

\* No reply is nobody's word, and what came back has another form.
LEMMA NoReplyIsNone == ~OwnWord(NoReply) /\ NoReply \notin Responses
BY DEF OwnWord, NoReply, Responses, Nothing, Deeds

\* What the checks before the call answer is a refusal that no backend has seen.
LEMMA PrecheckRefuses == Precheck \in Unasked \cup {Unavailable, Nothing}
BY DEF Precheck, Unasked, Unavailable, Nothing

\* Anything but the backend's own word is handed on as a summary that is not sure.
LEMMA UnderstoodAsMeant ==
  \A r \in Responses :
    /\ OwnWord(r) => Understood(r) = r.body /\ r.body \in Deeds
    /\ ~OwnWord(r) => Understood(r) \in Unsure
BY DEF Responses, OwnWord, Understood, Unsure, Deeds

\* The invariant holds when nothing was asked.
LEMMA BridgeInvInit == BridgeInit => BridgeInv
<1> SUFFICES ASSUME BridgeInit PROVE BridgeInv
  OBVIOUS
<1>1. BridgeTypeOK
  BY BridgeAssumption DEF BridgeInit, BridgeTypeOK
<1>2. Unmade /\ ServedIsDone
  BY DEF BridgeInit, Unmade, ServedIsDone
<1>3. WordIsDeed
  BY NoReplyIsNone DEF BridgeInit, WordIsDeed
<1>4. AnswersAreSure
  BY Words DEF BridgeInit, AnswersAreSure, Nothing
<1> QED BY <1>1, <1>2, <1>3, <1>4 DEF BridgeInv

\* Every step keeps the invariant.
LEMMA BridgeInvNext == BridgeInv /\ [BridgeNext]_bridgeVars => BridgeInv'
<1> SUFFICES ASSUME BridgeInv, [BridgeNext]_bridgeVars PROVE BridgeInv'
  OBVIOUS
<1> USE BridgeAssumption, Words DEF BridgeInv, BridgeTypeOK, Rpcs
<1>1. CASE AskBackend
  <2> DEFINE next == asked + 1
  <2>1. next \in Rpcs /\ next > asked /\ asked' = next /\ UNCHANGED <<caller, done, reply>>
    BY <1>1 DEF AskBackend
  <2>2. WordIsDeed'
    BY <2>1 DEF WordIsDeed
  <2>3. CASE Precheck = Nothing
    <3>1. call' = [call EXCEPT ![next] = "travelling"] /\ UNCHANGED answer
      BY <1>1, <2>1, <2>3 DEF AskBackend
    <3>2. call[next] = "unsent" /\ answer[next] = Nothing /\ done[next] = Nothing
      BY <2>1 DEF Unmade, ServedIsDone
    <3>3. BridgeTypeOK'
      BY <2>1, <3>1
    <3>4. Unmade' /\ ServedIsDone'
      BY <2>1, <3>1, <3>2 DEF Unmade, ServedIsDone
    <3>5. AnswersAreSure'
      BY <2>1, <3>1, <3>2 DEF AnswersAreSure
    <3> QED BY <2>2, <3>3, <3>4, <3>5
  <2>4. CASE Precheck # Nothing
    <3>1. answer' = [answer EXCEPT ![next] = Precheck] /\ UNCHANGED call
      BY <1>1, <2>1, <2>4 DEF AskBackend
    <3>2. call[next] = "unsent" /\ done[next] = Nothing
      BY <2>1 DEF Unmade, ServedIsDone
    <3>3. Precheck \in Refusals
      BY <2>4, PrecheckRefuses DEF Refusals
    <3>4. BridgeTypeOK'
      BY <2>1, <3>1, <3>3
    <3>5. Unmade' /\ ServedIsDone'
      BY <2>1, <3>1 DEF Unmade, ServedIsDone
    <3>6. AnswersAreSure'
      BY <2>1, <3>1, <3>2, <3>3 DEF AnswersAreSure, Nothing
    <3> QED BY <2>2, <3>4, <3>5, <3>6
  <2> QED BY <2>3, <2>4
<1>2. ASSUME NEW k \in Rpcs, BackendServes(k) PROVE BridgeInv'
  <2>1. PICK deed \in Deeds, r \in Responses :
          /\ OwnWord(r) => r.body = deed
          /\ done' = [done EXCEPT ![k] = deed]
          /\ reply' = IF reply[k] = NoReply THEN [reply EXCEPT ![k] = r] ELSE reply
    BY <1>2 DEF BackendServes
  <2>2. /\ call[k] = "travelling" /\ call' = [call EXCEPT ![k] = "served"]
        /\ UNCHANGED <<caller, asked, answer>>
    BY <1>2 DEF BackendServes
  <2>3. done[k] = Nothing /\ ~OwnWord(reply[k])
    <3>1. done[k] = Nothing
      BY <2>2 DEF ServedIsDone
    <3>2. OwnWord(reply[k]) => reply[k].body \in Deeds
      BY DEF OwnWord
    <3> QED BY <3>1, <3>2 DEF WordIsDeed
  <2>4. BridgeTypeOK'
    BY <2>1, <2>2
  <2>5. Unmade' /\ ServedIsDone'
    BY <2>1, <2>2 DEF Unmade, ServedIsDone
  <2>6. WordIsDeed'
    <3> SUFFICES ASSUME NEW j \in Rpcs, OwnWord(reply'[j]) PROVE reply'[j].body = done'[j]
      BY DEF WordIsDeed, OwnWord
    <3>1. CASE j = k
      <4>1. reply[k] = NoReply /\ reply'[k] = r
        BY <2>1, <2>3, <3>1
      <4> QED BY <2>1, <3>1, <4>1
    <3>2. CASE j # k
      BY <2>1, <3>2 DEF WordIsDeed
    <3> QED BY <3>1, <3>2
  <2>7. answer[k] \notin Refusals \ Unsure /\ answer[k] # "accepted"
    BY <2>2, <2>3 DEF AnswersAreSure, Nothing
  <2>8. AnswersAreSure'
    BY <2>1, <2>2, <2>7 DEF AnswersAreSure
  <2> QED BY <2>4, <2>5, <2>6, <2>8
<1>3. ASSUME NEW k \in Rpcs, HopReplies(k) PROVE BridgeInv'
  <2>1. PICK r \in Responses : ~OwnWord(r) /\ reply' = [reply EXCEPT ![k] = r]
    BY <1>3 DEF HopReplies
  <2>2. call[k] = "travelling" /\ UNCHANGED <<caller, asked, call, done, answer>>
    BY <1>3 DEF HopReplies
  <2>3. BridgeTypeOK'
    BY <2>1, <2>2
  <2>4. ServedIsDone' /\ AnswersAreSure'
    BY <2>2 DEF ServedIsDone, AnswersAreSure
  <2>5. Unmade'
    BY <2>1, <2>2 DEF Unmade
  <2>6. WordIsDeed'
    BY <2>1, <2>2 DEF WordIsDeed, OwnWord
  <2> QED BY <2>3, <2>4, <2>5, <2>6
<1>4. ASSUME NEW k \in Rpcs, CallIsLost(k) PROVE BridgeInv'
  <2>1. /\ call[k] = "travelling" /\ call' = [call EXCEPT ![k] = "lost"]
        /\ UNCHANGED <<caller, asked, done, reply, answer>>
    BY <1>4 DEF CallIsLost
  <2>2. BridgeTypeOK' /\ Unmade' /\ ServedIsDone' /\ WordIsDeed'
    BY <2>1 DEF Unmade, ServedIsDone, WordIsDeed
  <2>3. answer[k] \notin Refusals \ Unsure
    BY <2>1 DEF AnswersAreSure
  <2>4. AnswersAreSure'
    BY <2>1, <2>3 DEF AnswersAreSure
  <2> QED BY <2>2, <2>4
<1>5. ASSUME NEW k \in Rpcs, Responds(k) PROVE BridgeInv'
  <2> DEFINE word == Understood(reply[k])
  <2>1. /\ reply[k] # NoReply /\ answer' = [answer EXCEPT ![k] = word]
        /\ UNCHANGED <<caller, asked, call, done, reply>>
    BY <1>5 DEF Responds
  <2>2. reply[k] \in Responses
    BY <2>1
  <2>3. word \in Unsure \/ (word \in Deeds /\ word = done[k] /\ call[k] = "served")
    BY <2>2, UnderstoodAsMeant DEF WordIsDeed, ServedIsDone
  <2>4. word \in Refusals \cup {"accepted"} /\ word # Nothing
    BY <2>3
  <2>5. ~(k > asked)
    BY <2>1 DEF Unmade
  <2>6. BridgeTypeOK'
    BY <2>1, <2>4
  <2>7. Unmade' /\ ServedIsDone' /\ WordIsDeed'
    BY <2>1, <2>5 DEF Unmade, ServedIsDone, WordIsDeed
  <2>8. AnswersAreSure'
    BY <2>1, <2>3 DEF AnswersAreSure
  <2> QED BY <2>6, <2>7, <2>8
<1>6. ASSUME NEW k \in Rpcs, GivesUp(k) PROVE BridgeInv'
  <2>1. /\ call[k] # "unsent" /\ answer' = [answer EXCEPT ![k] = Unavailable]
        /\ UNCHANGED <<caller, asked, call, done, reply>>
    BY <1>6 DEF GivesUp, GivenUpAs
  <2>2. BridgeTypeOK' /\ Unmade' /\ ServedIsDone' /\ WordIsDeed'
    BY <2>1 DEF Unmade, ServedIsDone, WordIsDeed
  <2>3. AnswersAreSure'
    BY <2>1 DEF AnswersAreSure
  <2> QED BY <2>2, <2>3
<1>7. CASE UNCHANGED bridgeVars
  BY <1>7 DEF bridgeVars, Unmade, ServedIsDone, WordIsDeed, AnswersAreSure
<1> QED BY <1>1, <1>2, <1>3, <1>4, <1>5, <1>6, <1>7 DEF BridgeNext

\* The request, its call, what the backend did and replied and the answer keep their types,
\* for any number of requests.
THEOREM BridgeTypeCorrect == BridgeSpec => []BridgeTypeOK
<1>1. BridgeInv => BridgeTypeOK
  BY DEF BridgeInv
<1> QED BY <1>1, BridgeInvInit, BridgeInvNext, PTL DEF BridgeSpec

\* What rpcApplicationRequest reports as accepted was accepted, and a rejection in the
\* backend's own words, or from before it was asked, is final, however calls are lost, late
\* or given up and whoever answers in between. No other summary says what was done.
THEOREM AnswersSure == BridgeSpec => []AnswersAreSure
<1>1. BridgeInv => AnswersAreSure
  BY DEF BridgeInv
<1> QED BY <1>1, BridgeInvInit, BridgeInvNext, PTL DEF BridgeSpec

-----------------------------------------------------------------------------
(* The rider's desks.                                                      *)

Panels ==
  /\ authed \in BOOLEAN /\ mine \subseteq Horses /\ entries \subseteq Horses /\ mount \in Horses \cup {NoHorse}
  /\ result \in BOOLEAN /\ trainingPanel \in BOOLEAN /\ stablePanel \in BOOLEAN /\ stableButton \in BOOLEAN
  /\ OneDesk /\ (trainingPanel <=> session # 0)

\* What was left is never shown: only the last session may still be told of, and if it
\* was left, it is the one that is swallowed.  While a session is shown, none is.
Left ==
  /\ training \in [last : 0 .. MaxSessions, runs : BOOLEAN]
  /\ session \in 0 .. training.last /\ abandoned \in 0 .. training.last /\ dismissed \subseteq 1 .. training.last
  /\ session \notin dismissed
  /\ session # 0 => abandoned = 0
  /\ training.runs => training.last # 0 /\ (training.last \in dismissed => abandoned = training.last)

DeskInv == Panels /\ Left

LEMMA HearsKeeps ==
  ASSUME DeskInv, NEW s \in 1 .. MaxSessions, NEW settled \in BOOLEAN, Hears(s, settled),
         UNCHANGED <<rider, stableButton, dismissed>>, training.last <= s, s \in dismissed => abandoned = s,
         NEW runs \in BOOLEAN, training' = [last |-> s, runs |-> runs]
  PROVE  DeskInv'
<1>1. /\ training.last \in Nat /\ session \in 0 .. training.last /\ dismissed \subseteq 1 .. training.last
      /\ session # 0 => abandoned = 0
  BY HorsesAssumption DEF DeskInv, Left
<1>2. training'.last = s /\ training'.runs = runs /\ training' \in [last : 0 .. MaxSessions, runs : BOOLEAN]
  BY HorsesAssumption
<1>3. dismissed' \subseteq 1 .. s /\ 0 \notin dismissed /\ s # 0 /\ s \in 0 .. s /\ 0 \in 0 .. s
  BY <1>1, HorsesAssumption
<1>4. CASE abandoned = s
  <2>1. session = 0 /\ session' = 0 /\ result' = FALSE /\ abandoned' = s /\ UNCHANGED <<trainingPanel, stablePanel>>
    BY <1>1, <1>3, <1>4 DEF Hears
  <2>2. Left'
    BY <1>2, <1>3, <2>1 DEF Left
  <2>3. Panels'
    BY <2>1 DEF DeskInv, Panels, OneDesk, rider
  <2> QED BY <2>2, <2>3 DEF DeskInv
<1>5. CASE abandoned # s
  <2>1. session' = s /\ result' = settled /\ abandoned' = 0 /\ trainingPanel' = TRUE /\ stablePanel' = FALSE
    BY <1>5 DEF Hears
  <2>2. Left'
    BY <1>2, <1>3, <1>5, <2>1 DEF Left
  <2>3. Panels'
    BY <1>3, <2>1 DEF DeskInv, Panels, OneDesk, rider
  <2> QED BY <2>2, <2>3 DEF DeskInv
<1> QED BY <1>4, <1>5

\* The club tells of the next session, or the one that runs is done.
LEMMA ClubGoesOn ==
  ASSUME DeskInv
  PROVE  /\ training.runs => /\ training.last \in 1 .. MaxSessions
                             /\ training.last \in dismissed => abandoned = training.last
                             /\ training = [last |-> training.last, runs |-> TRUE]
         /\ training.last < MaxSessions => /\ training.last + 1 \in 1 .. MaxSessions /\ training.last + 1 \notin dismissed
                                           /\ training.last <= training.last + 1
         /\ training.last \in Nat
<1>1. /\ training \in [last : 0 .. MaxSessions, runs : BOOLEAN] /\ dismissed \subseteq 1 .. training.last
      /\ training.runs => training.last # 0 /\ (training.last \in dismissed => abandoned = training.last)
  BY DEF DeskInv, Left
<1>2. training.last \in Nat /\ training.last \in 0 .. MaxSessions
  BY <1>1, HorsesAssumption
<1>3. training.runs => training = [last |-> training.last, runs |-> TRUE]
  BY <1>1
<1>4. training.last + 1 \notin dismissed
  <2>1. training.last + 1 \notin 1 .. training.last
    BY <1>2
  <2> QED BY <1>1, <2>1
<1>5. training.last < MaxSessions => training.last + 1 \in 1 .. MaxSessions /\ training.last <= training.last + 1
  BY <1>2, HorsesAssumption
<1>6. training.last # 0 => training.last \in 1 .. MaxSessions
  BY <1>2, HorsesAssumption
<1> QED BY <1>1, <1>2, <1>3, <1>4, <1>5, <1>6

LEMMA DeskInvNext == DeskInv /\ [DeskNext]_deskVars => DeskInv'
<1> SUFFICES ASSUME DeskInv, [DeskNext]_deskVars PROVE DeskInv'
  OBVIOUS
<1>1. CASE Panels' /\ UNCHANGED <<state, training, dismissed>>
  BY <1>1 DEF DeskInv, Left, state
<1>2. CASE AuthOk \/ AuthError \/ HorsesUpdate
  <2>1. Panels'
    <3>1. CASE AuthOk \/ AuthError
      <4>1. authed' \in BOOLEAN /\ stableButton' \in BOOLEAN
        BY <3>1 DEF AuthOk, AuthError
      <4>2. UNCHANGED <<mine, entries, mount, session, result, trainingPanel, stablePanel>>
        BY <3>1 DEF AuthOk, AuthError, state
      <4> QED BY <4>1, <4>2 DEF DeskInv, Panels, OneDesk
    <3>2. CASE HorsesUpdate
      BY <3>2 DEF HorsesUpdate, Tracks, DeskInv, Panels, OneDesk, state, panels
    <3> QED BY <1>2, <3>1, <3>2
  <2> QED BY <1>1, <1>2, <2>1 DEF AuthOk, AuthError, HorsesUpdate
<1>3. CASE RacePhase
  <2>1. Panels'
    BY <1>3 DEF RacePhase, Tracks, Door, DeskInv, Panels, OneDesk, state
  <2> QED BY <1>1, <1>3, <2>1 DEF RacePhase
<1>4. CASE TrainingTick
  <2> DEFINE settled == result /\ session = training'.last
  <2>1. UNCHANGED <<rider, stableButton, dismissed>> /\ Hears(training'.last, settled)
    BY <1>4 DEF TrainingTick
  <2>2. settled \in BOOLEAN
    OBVIOUS
  <2> HIDE DEF settled
  <2>3. CASE training.runs /\ UNCHANGED training
    <3>1. training' = [last |-> training.last, runs |-> TRUE] /\ Hears(training.last, settled)
      BY <2>1, <2>3, ClubGoesOn
    <3>2. training.last \in 1 .. MaxSessions /\ training.last <= training.last
          /\ (training.last \in dismissed => abandoned = training.last)
      BY <2>3, ClubGoesOn
    <3> QED BY <2>1, <2>2, <3>1, <3>2, HearsKeeps
  <2>4. CASE training.last < MaxSessions /\ training' = [last |-> training.last + 1, runs |-> TRUE]
    <3>1. training'.last = training.last + 1
      BY <2>4
    <3> QED BY <2>1, <2>2, <2>4, <3>1, ClubGoesOn, HearsKeeps
  <2> QED BY <1>4, <2>3, <2>4 DEF TrainingTick
<1>5. CASE TrainingDone
  <2>1. training.runs /\ training' = [last |-> training.last, runs |-> FALSE] /\ UNCHANGED <<rider, stableButton, dismissed>>
    BY <1>5, ClubGoesOn DEF TrainingDone
  <2>2. CASE Hears(training.last, TRUE)
    <3>1. training.last <= training.last
      BY ClubGoesOn
    <3> QED BY <2>1, <2>2, <3>1, ClubGoesOn, HearsKeeps
  <2>3. CASE UNCHANGED <<state, trainingPanel, stablePanel>>
    <3>1. Panels'
      BY <2>1, <2>3 DEF DeskInv, Panels, OneDesk, rider, state
    <3>2. Left'
      BY <2>1, <2>3 DEF DeskInv, Left, state
    <3> QED BY <3>1, <3>2 DEF DeskInv
  <2> QED BY <1>5, <2>2, <2>3 DEF TrainingDone
<1>6. CASE TrainingUnheard
  <2>1. UNCHANGED <<rider, state, panels, dismissed>>
    BY <1>6 DEF TrainingUnheard
  <2>2. Panels'
    BY <2>1 DEF DeskInv, Panels, OneDesk, rider, state, panels
  <2>3. CASE training.runs /\ training' = [last |-> training.last, runs |-> FALSE]
    BY <2>1, <2>2, <2>3 DEF DeskInv, Left, state
  <2>4. CASE training.last < MaxSessions /\ training' = [last |-> training.last + 1, runs |-> TRUE]
    <3>1. training.last \in Nat /\ training'.last = training.last + 1 /\ training'.runs = TRUE
          /\ training' \in [last : 0 .. MaxSessions, runs : BOOLEAN] /\ training'.last \notin dismissed
      BY <2>4, ClubGoesOn
    <3>2. \A k \in 0 .. training.last : k \in 0 .. training'.last
      BY <3>1
    <3>3. \A k \in 1 .. training.last : k \in 1 .. training'.last
      BY <3>1
    <3>4. training'.last # 0
      BY <3>1
    <3>5. Left'
      BY <2>1, <3>1, <3>2, <3>3, <3>4 DEF DeskInv, Left, state
    <3> QED BY <2>2, <3>5 DEF DeskInv
  <2> QED BY <1>6, <2>3, <2>4, ClubGoesOn DEF TrainingUnheard
<1>7. CASE Leaves /\ UNCHANGED <<rider, stableButton, training>> /\ stablePanel' \in BOOLEAN
  <2>1. session' = 0 /\ result' = FALSE /\ trainingPanel' = FALSE
    BY <1>7 DEF Leaves
  <2>2. Panels'
    BY <1>7, <2>1 DEF DeskInv, Panels, OneDesk, rider
  <2>3. CASE Active
    <3>1. session # 0 /\ abandoned = 0 /\ abandoned' = session /\ dismissed' = dismissed \cup {session}
      BY <1>7, <2>3 DEF Leaves, Active, DeskInv, Left
    <3>2. session \in 1 .. training.last /\ 0 \in 0 .. training.last /\ 0 \notin dismissed'
      BY <3>1, ClubGoesOn DEF DeskInv, Left
    <3>3. Left'
      BY <1>7, <2>1, <3>1, <3>2 DEF DeskInv, Left
    <3> QED BY <2>2, <3>3 DEF DeskInv
  <2>4. CASE ~Active
    <3>1. UNCHANGED <<abandoned, dismissed>> /\ 0 \in 0 .. training.last /\ 0 \notin dismissed
      BY <1>7, <2>4, ClubGoesOn DEF Leaves, DeskInv, Left
    <3> QED BY <1>7, <2>1, <2>2, <3>1 DEF DeskInv, Left
  <2> QED BY <2>3, <2>4
<1>8. CASE Dismiss
  BY <1>7, <1>8 DEF Dismiss, DeskInv, Panels
<1>9. CASE ToggleStable
  <2>1. stablePanel' \in BOOLEAN
    BY <1>9 DEF ToggleStable
  <2>2. CASE Leaves
    BY <1>7, <1>9, <2>1, <2>2 DEF ToggleStable
  <2>3. CASE ~Shown /\ UNCHANGED <<state, trainingPanel, dismissed>>
    <3>1. Panels'
      BY <1>9, <2>1, <2>3 DEF ToggleStable, DeskInv, Panels, OneDesk, Shown, rider, state
    <3> QED BY <1>1, <1>9, <2>3, <3>1 DEF ToggleStable
  <2> QED BY <1>9, <2>2, <2>3 DEF ToggleStable
<1>10. CASE UNCHANGED deskVars
  BY <1>10 DEF deskVars, rider, state, panels, DeskInv, Panels, Left, OneDesk
<1> QED BY <1>2, <1>3, <1>4, <1>5, <1>6, <1>8, <1>9, <1>10 DEF DeskNext

LEMMA DeskInvInit == DeskInit => DeskInv
<1> SUFFICES ASSUME DeskInit PROVE DeskInv
  OBVIOUS
<1>1. Panels
  BY DEF DeskInit, Panels, OneDesk
<1>2. Left
  BY HorsesAssumption DEF DeskInit, Left
<1> QED BY <1>1, <1>2 DEF DeskInv

\* The panel and the board are never both open, and a session the rider has left is not
\* shown again, however late the club tells of it and whatever is lost.
LEMMA DesksKept == DeskInv => DeskTypeOK /\ OneDesk /\ LeftIsLeft
<1> SUFFICES ASSUME DeskInv PROVE DeskTypeOK /\ OneDesk /\ LeftIsLeft
  OBVIOUS
<1>1. OneDesk /\ LeftIsLeft
  BY DEF DeskInv, Panels, Left, LeftIsLeft, Shown
<1>2. session \in 0 .. MaxSessions /\ abandoned \in 0 .. MaxSessions /\ dismissed \subseteq 1 .. MaxSessions
  BY HorsesAssumption DEF DeskInv, Left
<1>3. DeskTypeOK
  BY <1>2 DEF DeskInv, Panels, Left, DeskTypeOK
<1> QED BY <1>1, <1>3

-----------------------------------------------------------------------------
\* What is on the board, and says what it does: the boxes hold buttons, an open board
\* those of horses the rider owns, and the one that is armed says CONFIRM.
Offers == visible => \A b \in yard \cup box : b.act \in {"care", "sell", "retire"} => b.horse \in owned
Drawn ==
  /\ yard \subseteq Buttons /\ box \subseteq Buttons /\ confirms \subseteq box \cap TwoTaps
  /\ Offers
  /\ visible /\ fresh /\ armed \in box => armed \in confirms

\* What is asked, and by which button.
CarriedOver ==
  /\ owned \subseteq Stock /\ updates \in 0 .. MaxUpdates /\ visible \in BOOLEAN /\ section \in Sections
  /\ armed \in TwoTaps \cup {NoButton} /\ fresh \in BOOLEAN
  /\ busy = flight /\ flight \in Requests \cup {NoButton}
  /\ fired \in [button : TwoTaps \cup {NoButton}, confirmed : BOOLEAN] /\ fired.confirmed

BoardInv == CarriedOver /\ Drawn

\* The kinds of buttons.
LEMMA ButtonKinds ==
  /\ Careers \subseteq Buttons /\ TwoTaps \subseteq Buttons /\ Buttons \subseteq Requests
  /\ Breed \in TwoTaps /\ Preview \in Buttons /\ NoButton \notin Requests
  /\ Of({"sell", "retire"}) \subseteq TwoTaps /\ Of({"care", "trade", "claim"}) \subseteq Buttons
  /\ \A s \in Fetched : Fetch(s) \in Requests
  /\ Breed.act = "breed" /\ Preview.act = "preview"
BY DEF Careers, Buttons, TwoTaps, Requests, Of, Breed, Preview, Button, NoButton, Fetch, Fetched

\* A box whose buttons are labelled as they are drawn.
LEMMA LabelsDraw ==
  ASSUME Labels(box'), yard' \subseteq Buttons, box' \subseteq Buttons, Offers', armed' \in TwoTaps \cup {NoButton}
  PROVE  Drawn'
<1>1. confirms' = {b \in box' : b = armed' /\ fresh'}
  BY DEF Labels
<1>2. NoButton \notin box'
  BY ButtonKinds
<1>3. confirms' \subseteq box' \cap TwoTaps
  BY <1>1, <1>2
<1> QED BY <1>1, <1>3 DEF Drawn

LEMMA RefreshDraws == ASSUME Refresh, armed' \in TwoTaps \cup {NoButton} PROVE Drawn'
<1>1. /\ yard' = IF section' = "YARD" THEN {b \in Of({"care"}) : b.horse \in owned'} ELSE {}
      /\ box' = IF section' = "BLOODSTOCK"
                THEN {Breed, Preview} \cup {b \in Of({"sell", "retire"}) : b.horse \in owned'}
                ELSE {}
      /\ Labels(box')
  BY DEF Refresh
<1>2. yard' \subseteq Buttons /\ box' \subseteq Buttons
  BY <1>1, ButtonKinds DEF Of
<1>3. \A b \in yard' \cup box' : b.act \in {"care", "sell", "retire"} => b.horse \in owned'
  BY <1>1, ButtonKinds
<1> QED BY <1>1, <1>2, <1>3, LabelsDraw DEF Offers

\* Closed, the board offers nothing whatever its boxes hold.
LEMMA RefreshIfVisibleDraws ==
  ASSUME BoardInv, RefreshIfVisible, armed' \in TwoTaps \cup {NoButton} PROVE Drawn'
<1>1. CASE visible'
  BY <1>1, RefreshDraws DEF RefreshIfVisible
<1>2. CASE ~visible'
  BY <1>2 DEF RefreshIfVisible, BoardInv, Drawn, Offers, drawn
<1> QED BY <1>1, <1>2

\* Nothing is redrawn: the buttons say what they said.
LEMMA NothingDrawn ==
  ASSUME BoardInv, UNCHANGED drawn, UNCHANGED shown, UNCHANGED owned,
         UNCHANGED fresh \/ fresh' = FALSE, armed' \in {armed, NoButton}
  PROVE  Drawn'
<1>1. UNCHANGED <<yard, box, confirms, visible, owned>>
  BY DEF drawn, shown
<1>2. NoButton \notin box
  BY ButtonKinds DEF BoardInv, Drawn
<1> QED BY <1>1, <1>2 DEF BoardInv, Drawn, Offers

LEMMA BoardInvNext == BoardInv /\ [BoardNext]_boardVars => BoardInv'
<1> SUFFICES ASSUME BoardInv, [BoardNext]_boardVars PROVE BoardInv'
  OBVIOUS
<1> USE DEF BoardInv
<1>1. CASE Toggle
  <2>1. CarriedOver' /\ armed' \in TwoTaps \cup {NoButton}
    BY <1>1 DEF Toggle, CarriedOver, arming
  <2>2. Drawn'
    BY <1>1, <2>1, RefreshIfVisibleDraws DEF Toggle
  <2> QED BY <2>1, <2>2
<1>2. CASE WindowCloses
  <2>1. CarriedOver'
    BY <1>2 DEF WindowCloses, CarriedOver, shown
  <2>2. Drawn'
    BY <1>2, NothingDrawn DEF WindowCloses
  <2> QED BY <2>1, <2>2
<1>3. CASE Update
  <2>1. updates' \in 0 .. MaxUpdates
    BY <1>3, BoardAssumption DEF Update, CarriedOver
  <2>2. CarriedOver' /\ armed' \in TwoTaps \cup {NoButton}
    BY <1>3, <2>1 DEF Update, CarriedOver, arming, shown
  <2>3. Drawn'
    BY <1>3, <2>2, RefreshIfVisibleDraws DEF Update
  <2> QED BY <2>2, <2>3
<1>4. CASE Settle
  <2>1. CarriedOver' /\ armed' \in TwoTaps \cup {NoButton} /\ UNCHANGED <<owned, shown, arming>>
    BY <1>4 DEF Settle, CarriedOver, arming, shown
  <2>2. CASE RefreshIfVisible
    BY <2>1, <2>2, RefreshIfVisibleDraws
  <2>3. CASE Note
    <3>1. box' = {} /\ confirms' = {} /\ yard' = yard /\ visible' = visible /\ owned' = owned
      BY <2>1, <2>3 DEF Note, shown
    <3>2. Drawn'
      BY <3>1 DEF Drawn, Offers
    <3> QED BY <2>1, <3>2
  <2>4. CASE Projected(busy)
    <3>1. CASE UNCHANGED drawn
      BY <2>1, <3>1, NothingDrawn DEF arming
    <3>2. ASSUME NEW act \in {"trade", "claim"}, NEW listed \in SUBSET Stock,
                 box' = {b \in Of({act}) : b.horse \in listed}, Labels(box'), UNCHANGED yard
          PROVE  BoardInv'
      <4>1. box' \subseteq Buttons /\ \A b \in box' : b.act \in {"trade", "claim"}
        BY <3>2, ButtonKinds DEF Of
      <4>2. visible' = visible /\ owned' = owned /\ yard' = yard /\ yard \subseteq Buttons
        BY <2>1, <3>2 DEF Drawn, shown
      <4>3. Offers'
        BY <4>1, <4>2 DEF Drawn, Offers
      <4>4. Drawn'
        BY <2>1, <3>2, <4>1, <4>2, <4>3, LabelsDraw
      <4> QED BY <2>1, <4>4
    <3> QED BY <2>4, <3>1, <3>2 DEF Projected
  <2> QED BY <1>4, <2>2, <2>3, <2>4 DEF Settle
<1>5. ASSUME NEW s \in Sections, Open(s) PROVE BoardInv'
  <2>1. /\ section' = s /\ armed' = NoButton
        /\ UNCHANGED <<owned, updates, visible, fresh, fired>>
    BY <1>5 DEF Open
  <2>2. CASE s \in Fetched
    <3>1. Fetch(s) \in Requests
      BY <2>2, ButtonKinds
    <3>2. busy' = flight' /\ flight' \in Requests \cup {NoButton}
      BY <1>5, <2>2, <3>1 DEF Open, Send, CarriedOver
    <3>3. (box' = {} /\ confirms' = {} /\ yard' = {}) \/ RefreshIfVisible
      BY <1>5, <2>2 DEF Open, Send
    <3>4. CarriedOver'
      BY <2>1, <3>2 DEF CarriedOver
    <3>5. Drawn'
      <4>1. CASE RefreshIfVisible
        BY <2>1, <4>1, RefreshIfVisibleDraws
      <4>2. CASE box' = {} /\ confirms' = {} /\ yard' = {}
        BY <4>2 DEF Drawn, Offers
      <4> QED BY <3>3, <4>1, <4>2
    <3> QED BY <3>4, <3>5
  <2>3. CASE s \notin Fetched
    <3>1. Refresh /\ UNCHANGED <<busy, flight>>
      BY <1>5, <2>3 DEF Open
    <3>2. CarriedOver'
      BY <2>1, <3>1 DEF CarriedOver
    <3>3. Drawn'
      BY <2>1, <3>1, RefreshDraws
    <3> QED BY <3>2, <3>3
  <2> QED BY <2>2, <2>3
<1>6. ASSUME NEW b \in Buttons, Tap(b) PROVE BoardInv'
  <2>1. UNCHANGED <<owned, updates, shown, arming, fired>> /\ b \in Requests
    BY <1>6, ButtonKinds DEF Tap
  <2>2. busy' = flight' /\ flight' \in Requests \cup {NoButton}
    BY <1>6, <2>1 DEF Tap, Send, CarriedOver
  <2>3. UNCHANGED drawn \/ RefreshIfVisible
    BY <1>6 DEF Tap, Send
  <2>4. CarriedOver' /\ armed' \in TwoTaps \cup {NoButton}
    BY <2>1, <2>2 DEF CarriedOver, shown, arming
  <2>5. CASE RefreshIfVisible
    BY <2>4, <2>5, RefreshIfVisibleDraws
  <2>6. CASE UNCHANGED drawn
    BY <2>1, <2>4, <2>6, NothingDrawn DEF arming
  <2> QED BY <2>3, <2>5, <2>6
<1>7. ASSUME NEW b \in Buttons, ConfirmAction(b) PROVE BoardInv'
  <2>1. visible /\ b \in box /\ b \in TwoTaps /\ b \in Requests
    BY <1>7, ButtonKinds DEF ConfirmAction
  <2>2. CASE Arm(b)
    <3>1. CarriedOver' /\ armed' \in TwoTaps \cup {NoButton}
      BY <2>1, <2>2 DEF Arm, CarriedOver, shown
    <3> QED BY <2>2, <3>1, RefreshDraws DEF Arm
  <2>3. CASE Fire(b)
    <3>1. armed = b /\ fresh /\ armed' = NoButton /\ UNCHANGED <<owned, updates, shown, fresh>>
          /\ fired' = [button |-> b, confirmed |-> b \in confirms]
      BY <2>3 DEF Fire
    <3>2. b \in confirms
      BY <2>1, <3>1 DEF Drawn
    <3>3. (b \in confirms) = TRUE
      BY <3>2
    <3>4. fired' = [button |-> b, confirmed |-> TRUE]
      BY <3>1, <3>3
    <3>5. fired' \in [button : TwoTaps \cup {NoButton}, confirmed : BOOLEAN] /\ fired'.confirmed
      BY <2>1, <3>4
    <3>6. busy' = flight' /\ flight' \in Requests \cup {NoButton}
      BY <2>1, <2>3 DEF Fire, Send, CarriedOver
    <3>7. UNCHANGED drawn \/ RefreshIfVisible
      BY <2>3 DEF Fire, Send
    <3>8. CarriedOver' /\ armed' \in TwoTaps \cup {NoButton}
      BY <3>1, <3>5, <3>6 DEF CarriedOver, shown
    <3>9. CASE RefreshIfVisible
      BY <3>8, <3>9, RefreshIfVisibleDraws
    <3>10. CASE UNCHANGED drawn
      BY <3>1, <3>8, <3>10, NothingDrawn
    <3> QED BY <3>7, <3>9, <3>10
  <2> QED BY <1>7, <2>2, <2>3 DEF ConfirmAction
<1>8. CASE UNCHANGED boardVars
  BY <1>8 DEF boardVars, shown, arming, drawn, CarriedOver, Drawn, Offers
<1> QED BY <1>1, <1>2, <1>3, <1>4, <1>5, <1>6, <1>7, <1>8 DEF BoardNext

LEMMA BoardInvInit == BoardInit => BoardInv
<1> SUFFICES ASSUME BoardInit PROVE BoardInv
  OBVIOUS
<1>1. CarriedOver
  <2>1. owned \subseteq Stock /\ updates \in 0 .. MaxUpdates /\ section \in Sections
    BY BoardAssumption DEF BoardInit, Sections
  <2>2. /\ visible \in BOOLEAN /\ armed \in TwoTaps \cup {NoButton} /\ fresh \in BOOLEAN
        /\ busy = flight /\ flight \in Requests \cup {NoButton}
    BY DEF BoardInit
  <2>3. fired \in [button : TwoTaps \cup {NoButton}, confirmed : BOOLEAN] /\ fired.confirmed
    BY DEF BoardInit
  <2> QED BY <2>1, <2>2, <2>3 DEF CarriedOver
<1>2. Drawn
  BY DEF BoardInit, Drawn, Offers
<1> QED BY <1>1, <1>2 DEF BoardInv

LEMMA BoardKept == BoardInv => BoardTypeOK /\ FiresWereConfirmed /\ AnswersTheRequest /\ OffersOwnHorses
BY DEF BoardInv, CarriedOver, Drawn, Offers, BoardTypeOK, FiresWereConfirmed, AnswersTheRequest, OffersOwnHorses

\* However late, lost or out of order what the club tells of comes, the two desks are never
\* open together and what the rider has left stays left; what moves coins or careers was
\* confirmed on the button that was tapped; the carrier answers the request it took; and an
\* open board offers only the rider's own horses.
THEOREM DesksStaySafe == DeskSpec /\ BoardSpec => []DesksSafe
<1>1. DeskInv /\ BoardInv => DesksSafe
  BY DesksKept, BoardKept DEF DesksSafe
<1> QED BY <1>1, DeskInvInit, DeskInvNext, BoardInvInit, BoardInvNext, PTL DEF DeskSpec, BoardSpec

-----------------------------------------------------------------------------
(* The rider's gate.                                                       *)

Came == IF arrival.by = "saved" THEN arrival.code ELSE NoCode
Conns == {"disconnected", "connecting", "connected", "error"}
Reads == [view : View, conn : Conns, nsOpen : BOOLEAN]
FrameSet == [type : FrameTypes, of : Codes \cup {NoCode}]

\* What the screen and the store hold together.
Kept(v) ==
  /\ v \in View
  /\ v.user # NoCode => v.saved = v.user /\ ~v.panel
  /\ v.saved \in GoodCodes \cup {NoCode, Came}

\* A socket says of one code only that it is let in: the client's.
OfCode(f, c) == f \in FrameSet /\ (f.type = "auth_ok" => f.of = c /\ c \in GoodCodes)
Carries(fs, c) == fs \in Seq(FrameSet) /\ \A i \in DOMAIN fs : OfCode(fs[i], c)

Arrived ==
  /\ arrival \in [web : BOOLEAN, by : {"env", "token", "saved"}, code : Codes \cup {NoCode}]
  /\ arrival.by \in {"env", "token"} => arrival.code # NoCode
  /\ arrival.by = "token" => arrival.code \in GoodCodes
  /\ booted \in BOOLEAN /\ joins \in 0 .. MaxJoins /\ good \subseteq GoodCodes
Typed ==
  /\ flow \in {"none", "sso", "auto"} /\ pending \in Codes \cup {NoCode}
  /\ answered \in {"none", "ok", "rejected", "locked out", "server error", "no answer"}
  /\ code \in Codes \cup {NoCode} /\ conn \in Conns /\ nsOpen \in BOOLEAN
  /\ sock \in {"null", "connecting", "open", "closing", "closed"} /\ asking \in {NoCode, code}

\* Before the client is started nothing is let in, and the gate waits for one thing only.
Ordered ==
  /\ code = NoCode => sock = "null" /\ frames = <<>> /\ view.user = NoCode
  /\ flow # "none" => code = NoCode /\ view.busy /\ booted
  /\ flow = "auto" => pending = view.saved
  /\ flow = "sso" => arrival.by = "token"
  /\ ~booted => code = NoCode /\ flow = "none" /\ view.saved = Came

GateInv == Arrived /\ Typed /\ Kept(view) /\ Carries(frames, code) /\ Ordered

LEMMA Views ==
  ASSUME NEW v \in View
  PROVE  /\ GateBusy(v) \in View /\ GateBusy(v).user = v.user /\ GateBusy(v).saved = v.saved /\ GateBusy(v).busy
         /\ Restored(v) \in View /\ Restored(v).user = v.user /\ Restored(v).saved = v.saved
         /\ Restored(v).panel = v.panel
         /\ \A c \in Codes \cup {NoCode} : [v EXCEPT !.saved = c] \in View /\ [v EXCEPT !.saved = c].user = v.user
                                           /\ [v EXCEPT !.saved = c].saved = c
<1>1. GateBusy(v) \in View /\ GateBusy(v).user = v.user /\ GateBusy(v).saved = v.saved
  BY DEF View, GateBusy
<1>2. GateBusy(v).busy
  BY DEF View, GateBusy
<1>3. Restored(v) \in View /\ Restored(v).user = v.user /\ Restored(v).saved = v.saved
  BY DEF View, Restored
<1>4. Restored(v).panel = v.panel
  BY DEF View, Restored
<1>5. \A c \in Codes \cup {NoCode} : [v EXCEPT !.saved = c] \in View /\ [v EXCEPT !.saved = c].user = v.user
                                     /\ [v EXCEPT !.saved = c].saved = c
  BY DEF View
<1> QED BY <1>1, <1>2, <1>3, <1>4, <1>5

LEMMA LetIn ==
  ASSUME NEW v \in View, NEW u \in Codes \cup {NoCode}, NEW c \in Codes \cup {NoCode}
  PROVE  LET w == [Restored(v) EXCEPT !.user = u, !.panel = FALSE, !.saved = c]
         IN  w \in View /\ w.user = u /\ w.saved = c /\ ~w.panel
<1> DEFINE w == [Restored(v) EXCEPT !.user = u, !.panel = FALSE, !.saved = c]
<1>1. w \in View /\ w.user = u /\ w.saved = c
  BY DEF View, Restored
<1>2. ~w.panel
  BY DEF View, Restored
<1> QED BY <1>1, <1>2

LEMMA ShutOut ==
  ASSUME NEW v \in View
  PROVE  /\ LET w == [Restored(v) EXCEPT !.user = NoCode, !.panel = TRUE]
            IN  w \in View /\ w.user = NoCode /\ w.saved = v.saved
         /\ LET w == [Restored(v) EXCEPT !.panel = TRUE]
            IN  w \in View /\ w.user = v.user /\ w.saved = v.saved
<1>1. [Restored(v) EXCEPT !.user = NoCode, !.panel = TRUE] \in View
  BY DEF View, Restored
<1>2. [Restored(v) EXCEPT !.user = NoCode, !.panel = TRUE].user = NoCode
      /\ [Restored(v) EXCEPT !.user = NoCode, !.panel = TRUE].saved = v.saved
  BY DEF View, Restored
<1>3. [Restored(v) EXCEPT !.panel = TRUE] \in View
      /\ [Restored(v) EXCEPT !.panel = TRUE].user = v.user /\ [Restored(v) EXCEPT !.panel = TRUE].saved = v.saved
  BY DEF View, Restored
<1> QED BY <1>1, <1>2, <1>3

\* A frame that is read keeps what is on the screen with what is in the store.
LEMMA ReadKeeps ==
  ASSUME NEW s \in Reads, Kept(s.view), NEW f, OfCode(f, code), code \in Codes \cup {NoCode}
  PROVE  Read(s, f) \in Reads /\ Kept(Read(s, f).view) /\ (s.view.saved # NoCode => Read(s, f).view.saved # NoCode)
<1> DEFINE r == Read(s, f)
<1>0. s.view \in View /\ f.type \in FrameTypes
  BY DEF Reads, OfCode, FrameSet
<1>1. CASE f.type = "eio_open"
  <2>1. r = [s EXCEPT !.nsOpen = FALSE]
    BY <1>1 DEF Read
  <2>2. r \in Reads /\ r.view = s.view
    BY <2>1 DEF Reads
  <2> QED BY <2>2
<1>2. CASE f.type = "connected"
  <2>1. r = [s EXCEPT !.nsOpen = TRUE, !.conn = "connected"]
    BY <1>2 DEF Read
  <2>2. r \in Reads /\ r.view = s.view
    BY <2>1 DEF Reads, Conns
  <2> QED BY <2>2
<1>3. CASE f.type = "auth_ok"
  <2> DEFINE w == [Restored(s.view) EXCEPT !.user = f.of, !.panel = FALSE, !.saved = code]
  <2>1. r = [s EXCEPT !.view = w]
    BY <1>3 DEF Read
  <2>2. f.of = code /\ code \in GoodCodes
    BY <1>3 DEF OfCode
  <2>3. w \in View /\ w.user = code /\ w.saved = code /\ ~w.panel
    <3>1. f.of \in Codes \cup {NoCode}
      BY <2>2
    <3>2. w \in View /\ w.user = f.of /\ w.saved = code /\ ~w.panel
      BY <1>0, <3>1, LetIn, Zenon
    <3> HIDE DEF w
    <3> QED BY <2>2, <3>2
  <2> HIDE DEF w
  <2>4. r \in Reads /\ r.view = w
    BY <2>1, <2>3 DEF Reads
  <2>5. code # NoCode
    BY <2>2, CodesAssumption DEF Codes
  <2> QED BY <2>2, <2>3, <2>4, <2>5 DEF Kept
<1>4. CASE f.type = "auth_error"
  <2> DEFINE w == [Restored(s.view) EXCEPT !.user = NoCode, !.panel = TRUE]
  <2>1. r = [s EXCEPT !.view = w]
    BY <1>4 DEF Read
  <2>2. w \in View /\ w.user = NoCode /\ w.saved = s.view.saved
    BY <1>0, ShutOut
  <2> HIDE DEF w
  <2>3. r \in Reads /\ r.view = w
    BY <2>1, <2>2 DEF Reads
  <2> QED BY <2>2, <2>3 DEF Kept
<1>5. CASE f.type = "sio_error"
  BY <1>5 DEF Read
<1> QED BY <1>0, <1>1, <1>2, <1>3, <1>4, <1>5 DEF FrameTypes

\* After is what its definition says, frame by frame.
LEMMA AfterPasses ==
  ASSUME Len(frames) \in Nat
  PROVE  After(0) = Now /\ \A n \in 1 .. Len(frames) : After(n) = Read(After(n - 1), frames[n])
<1> DEFINE Pass(x, i) == Read(x, frames[i])
           Runs(f, n) == f = [i \in 0 .. n |-> IF i = 0 THEN Now ELSE Pass(f[i - 1], i)]
           S == {n \in Nat : \E f : Runs(f, n)}
           after == CHOOSE f : Runs(f, Len(frames))
<1>1. \A n \in 0 .. Len(frames) : After(n) = after[n]
  BY DEF After
<1> HIDE DEF Pass
<1>2. 0 \in S
  <2> DEFINE f == [i \in 0 .. 0 |-> Now]
  <2>1. Runs(f, 0)
    OBVIOUS
  <2> QED BY <2>1
<1>3. ASSUME NEW n \in Nat, n \in S PROVE n + 1 \in S
  <2>1. PICK f : Runs(f, n)
    BY <1>3
  <2> DEFINE h == [i \in 0 .. n + 1 |-> IF i = n + 1 THEN Pass(f[n], i) ELSE f[i]]
  <2>2. \A i \in 0 .. n + 1 : h[i] = IF i = 0 THEN Now ELSE Pass(h[i - 1], i)
    BY <2>1
  <2>3. Runs(h, n + 1)
    BY <2>2
  <2> HIDE DEF h
  <2> QED BY <2>3
<1>4. Runs(after, Len(frames))
  <2>1. Len(frames) \in S
    <3> HIDE DEF S
    <3> QED BY <1>2, <1>3, SetInduction
  <2> QED BY <2>1
<1> HIDE DEF after
<1> DEFINE N == Len(frames)
<1>5. N \in Nat
  OBVIOUS
<1>6. after = [i \in 0 .. N |-> IF i = 0 THEN Now ELSE Pass(after[i - 1], i)]
  BY <1>4
<1> HIDE DEF N
<1>7. after[0] = Now /\ \A n \in 1 .. N : after[n] = Pass(after[n - 1], n)
  BY <1>5, <1>6
<1>8. \A n \in 1 .. N : n \in 0 .. N /\ n - 1 \in 0 .. N
  BY <1>5
<1>9. 0 \in 0 .. N
  BY <1>5
<1> HIDE DEF Runs
<1> QED BY <1>1, <1>7, <1>8, <1>9 DEF Pass, N

\* However many frames were left.
LEMMA AllRead ==
  ASSUME GateInv
  PROVE  LET s == After(Len(frames))
         IN  s \in Reads /\ Kept(s.view) /\ (view.saved # NoCode => s.view.saved # NoCode)
<1> DEFINE Fine(s) == s \in Reads /\ Kept(s.view) /\ (view.saved # NoCode => s.view.saved # NoCode)
           S == {n \in Nat : n <= Len(frames) => Fine(After(n))}
<1>1. Len(frames) \in Nat /\ \A i \in 1 .. Len(frames) : OfCode(frames[i], code)
  BY DEF GateInv, Carries
<1>2. After(0) = Now /\ \A n \in 1 .. Len(frames) : After(n) = Read(After(n - 1), frames[n])
  BY <1>1, AfterPasses
<1>3. Fine(Now)
  <2>1. Now \in Reads /\ Now.view = view
    BY DEF GateInv, Typed, Kept, Now, Reads
  <2> QED BY <2>1 DEF GateInv
<1>4. 0 \in S
  BY <1>2, <1>3
<1>5. ASSUME NEW n \in Nat, n \in S PROVE n + 1 \in S
  <2> SUFFICES ASSUME n + 1 <= Len(frames) PROVE Fine(After(n + 1))
    OBVIOUS
  <2>1. Fine(After(n)) /\ n + 1 \in 1 .. Len(frames) /\ (n + 1) - 1 = n
    BY <1>1, <1>5
  <2>2. After(n + 1) = Read(After(n), frames[n + 1]) /\ OfCode(frames[n + 1], code)
    BY <1>1, <1>2, <2>1
  <2>3. code \in Codes \cup {NoCode}
    BY DEF GateInv, Typed
  <2> QED BY <2>1, <2>2, <2>3, ReadKeeps
<1>6. Len(frames) \in S
  <2> HIDE DEF S
  <2> QED BY <1>1, <1>4, <1>5, SetInduction
<1> QED BY <1>1, <1>6

LEMMA GateInvInit == GateInit => GateInv
<1> SUFFICES ASSUME GateInit PROVE GateInv
  OBVIOUS
<1>1. Arrived
  <2>1. joins \in 0 .. MaxJoins
    BY CodesAssumption DEF GateInit
  <2>2. booted \in BOOLEAN
    BY DEF GateInit
  <2> QED BY <2>1, <2>2 DEF GateInit, Arrived
<1>2. Typed
  BY DEF GateInit, Typed, Conns
<1>3. view.user = NoCode /\ view.saved = Came
  BY DEF GateInit, Came
<1>4. view \in View
  <2>1. Came \in Codes \cup {NoCode}
    BY <1>1 DEF Arrived, Came
  <2>2. view = [user |-> NoCode, panel |-> TRUE, busy |-> FALSE, saved |-> Came]
    BY DEF GateInit, Came
  <2> QED BY <2>1, <2>2 DEF View
<1>5. Kept(view)
  BY <1>3, <1>4 DEF Kept
<1>6. Carries(frames, code)
  BY DEF GateInit, Carries
<1>7. Ordered
  BY <1>3 DEF GateInit, Ordered
<1> QED BY <1>1, <1>2, <1>5, <1>6, <1>7 DEF GateInv

\* A code the club would accept is not forgotten.
KeepsIt == view.saved \in good /\ view'.saved = NoCode => answered' = "server error"

\* A client that is started carries nothing of an earlier one.
LEMMA SubmitStarts ==
  ASSUME Arrived, NEW v \in View, NEW c \in Codes, v.user = NoCode, v.saved \in GoodCodes \cup {NoCode, Came},
         Submit(v, c), UNCHANGED arrival
  PROVE  /\ Kept(view)' /\ view'.user = NoCode /\ view'.saved = v.saved
         /\ code' = c /\ c # NoCode /\ frames' = <<>> /\ asking' = NoCode
         /\ sock' \in {"connecting", "closed"} /\ conn' \in Conns /\ nsOpen' = nsOpen
<1>1. /\ view' = GateBusy(v) /\ code' = c /\ frames' = <<>> /\ asking' = NoCode
      /\ sock' \in {"connecting", "closed"} /\ conn' \in Conns /\ nsOpen' = nsOpen
  BY DEF Submit, Started, Connect, Conns
<1>2. view' \in View /\ view'.user = NoCode /\ view'.saved = v.saved
  BY <1>1, Views
<1>3. Came' = Came
  BY DEF Came
<1>4. Kept(view)'
  BY <1>2, <1>3 DEF Kept
<1> QED BY <1>1, <1>2, <1>4, CodesAssumption

LEMMA BootKeeps == ASSUME GateInv, Boot PROVE GateInv' /\ KeepsIt
<1> USE DEF GateInv
<1>1. /\ ~booted /\ booted' = TRUE /\ UNCHANGED <<arrival, joins, good, answered>>
      /\ code = NoCode /\ flow = "none" /\ view.saved = Came /\ view.user = NoCode /\ sock = "null" /\ frames = <<>>
  BY DEF Boot, Ordered
<1>2. Came' = Came
  BY <1>1 DEF Came
<1>3. Arrived'
  BY <1>1 DEF Arrived
<1>4. CASE arrival.by = "env"
  <2>1. Submit(view, arrival.code) /\ UNCHANGED <<flow, pending>> /\ arrival.code \in Codes
    BY <1>4 DEF Boot, Arrived
  <2>2. /\ Kept(view)' /\ view'.user = NoCode /\ view'.saved = view.saved
        /\ code' \in Codes /\ code' # NoCode /\ frames' = <<>> /\ asking' = NoCode
        /\ sock' \in {"connecting", "closed"} /\ conn' \in Conns /\ nsOpen' = nsOpen
    BY <1>1, <2>1, SubmitStarts DEF Kept
  <2>3. Carries(frames, code)'
    BY <2>2 DEF Carries
  <2>4. Typed'
    BY <1>1, <2>1, <2>2 DEF Typed
  <2>5. Ordered'
    BY <1>1, <2>1, <2>2 DEF Ordered
  <2>6. KeepsIt
    BY <2>2, CodesAssumption DEF KeepsIt, Arrived, Codes
  <2> QED BY <1>3, <2>2, <2>3, <2>4, <2>5, <2>6
<1>5. ASSUME NEW f \in {"sso", "auto"}, NEW c \in Codes \cup {NoCode}, Waits(f, c), UNCHANGED channel,
             f = "sso" => arrival.by = "token", f = "auto" => c = view.saved
      PROVE  GateInv' /\ KeepsIt
  <2>1. view' = GateBusy(view) /\ flow' = f /\ pending' = c
        /\ UNCHANGED <<code, conn, nsOpen, sock, frames, asking>>
    BY <1>5 DEF Waits, channel
  <2>2. view' \in View /\ view'.user = NoCode /\ view'.saved = view.saved /\ view'.busy
    BY <1>1, <2>1, Views DEF Kept
  <2>3. Kept(view)'
    BY <1>2, <2>2 DEF Kept
  <2>4. Carries(frames, code)'
    BY <2>1 DEF Carries
  <2>5. Typed'
    BY <1>1, <2>1 DEF Typed
  <2>6. Ordered'
    BY <1>1, <1>5, <2>1, <2>2 DEF Ordered
  <2>7. KeepsIt
    BY <2>2, CodesAssumption DEF KeepsIt, Arrived, Codes
  <2> QED BY <1>3, <2>3, <2>4, <2>5, <2>6, <2>7
<1>6. CASE arrival.by = "token"
  BY <1>5, <1>6 DEF Boot, Typed
<1>7. CASE arrival.by = "saved" /\ arrival.web /\ arrival.code # NoCode
  BY <1>1, <1>5, <1>7 DEF Boot, Came, Arrived
<1>8. CASE UNCHANGED <<view, flow, pending, channel>>
  <2>1. UNCHANGED <<view, flow, pending, code, conn, nsOpen, sock, frames, asking>>
    BY <1>8 DEF channel
  <2>2. Kept(view)' /\ Carries(frames, code)'
    BY <1>2, <2>1 DEF Kept, Carries
  <2>3. Typed' /\ Ordered'
    BY <1>1, <2>1 DEF Typed, Ordered
  <2>4. KeepsIt
    BY <2>1, CodesAssumption DEF KeepsIt, Arrived, Codes
  <2> QED BY <1>3, <2>2, <2>3, <2>4
<1> QED BY <1>4, <1>6, <1>7, <1>8 DEF Boot

LEMMA JoinKeeps == ASSUME GateInv, Join PROVE GateInv' /\ KeepsIt
<1> USE DEF GateInv
<1>1. /\ booted /\ view.panel /\ ~view.busy /\ joins < MaxJoins /\ joins' = joins + 1
      /\ UNCHANGED <<arrival, booted, good, flow, pending, answered>>
  BY DEF Join, MayJoin, gate
<1>2. PICK c \in Codes : Submit(view, c)
  BY DEF Join
<1>3. view.user = NoCode /\ flow = "none"
  BY <1>1 DEF Kept, Ordered
<1>4. /\ Kept(view)' /\ view'.user = NoCode /\ view'.saved = view.saved
      /\ code' \in Codes /\ code' # NoCode /\ frames' = <<>> /\ asking' = NoCode
      /\ sock' \in {"connecting", "closed"} /\ conn' \in Conns /\ nsOpen' = nsOpen
  BY <1>1, <1>2, <1>3, SubmitStarts DEF Kept
<1>5. Carries(frames, code)'
  BY <1>4 DEF Carries
<1>6. Arrived'
  <2>1. joins' \in 0 .. MaxJoins
    BY <1>1, CodesAssumption DEF Arrived
  <2> QED BY <1>1, <2>1 DEF Arrived
<1>7. Typed'
  BY <1>1, <1>4 DEF Typed
<1>8. Ordered'
  BY <1>1, <1>3, <1>4 DEF Ordered
<1>9. KeepsIt
  BY <1>4, CodesAssumption DEF KeepsIt, Arrived, Codes
<1> QED BY <1>4, <1>5, <1>6, <1>7, <1>8, <1>9

LEMMA AnswerKeeps == ASSUME GateInv, GateAnswers PROVE GateInv' /\ KeepsIt
<1> USE DEF GateInv
<1>1. /\ flow \in {"sso", "auto"} /\ flow' = "none" /\ UNCHANGED <<arrival, booted, joins, good>>
      /\ code = NoCode /\ sock = "null" /\ frames = <<>> /\ view.user = NoCode /\ booted
      /\ flow = "auto" => pending = view.saved
      /\ flow = "sso" => arrival.code \in GoodCodes
      /\ Came' = Came
  BY DEF GateAnswers, Typed, Ordered, Arrived, Came
<1>2. Arrived'
  BY <1>1 DEF Arrived
<1>3. PICK status \in Outcomes(IF flow = "sso" THEN arrival.code ELSE pending) :
        /\ answered' = status
        /\ CASE status = "ok" /\ flow = "sso" ->
                  Submit([Restored(view) EXCEPT !.saved = arrival.code], arrival.code)
             [] status = "ok" /\ flow = "auto" -> Submit(Restored(view), pending)
             [] status # "ok" /\ flow = "auto" /\ Forgets(status) ->
                  view' = [Restored(view) EXCEPT !.saved = NoCode] /\ UNCHANGED channel
             [] OTHER -> view' = Restored(view) /\ UNCHANGED channel
        /\ pending' = IF flow = "auto" /\ status # "no answer" THEN NoCode ELSE pending
  BY DEF GateAnswers
<1>4. answered' \in {"ok", "rejected", "locked out", "server error", "no answer"} /\ pending' \in Codes \cup {NoCode}
  BY <1>3 DEF Outcomes, Typed
<1>5. Restored(view) \in View /\ Restored(view).user = NoCode /\ Restored(view).saved = view.saved
  BY <1>1, Views DEF Kept
<1>6. ASSUME NEW v \in View, NEW c \in Codes, v.user = NoCode, v.saved \in GoodCodes \cup {NoCode, Came},
             v.saved = view.saved \/ v.saved = c, Submit(v, c)
      PROVE  GateInv' /\ KeepsIt
  <2>1. /\ Kept(view)' /\ view'.user = NoCode /\ view'.saved = v.saved
        /\ code' \in Codes /\ code' # NoCode /\ frames' = <<>> /\ asking' = NoCode
        /\ sock' \in {"connecting", "closed"} /\ conn' \in Conns /\ nsOpen' = nsOpen
    BY <1>1, <1>6, SubmitStarts
  <2>2. Carries(frames, code)'
    BY <2>1 DEF Carries
  <2>3. Typed'
    BY <1>1, <1>4, <2>1 DEF Typed
  <2>4. Ordered'
    BY <1>1, <2>1 DEF Ordered
  <2>5. KeepsIt
    BY <1>6, <2>1, CodesAssumption DEF KeepsIt, Arrived, Codes
  <2> QED BY <1>2, <2>1, <2>2, <2>3, <2>4, <2>5
<1>7. ASSUME view' \in View, view'.user = NoCode, view'.saved \in {view.saved, NoCode}, UNCHANGED channel, KeepsIt
      PROVE  GateInv' /\ KeepsIt
  <2>1. UNCHANGED <<code, conn, nsOpen, sock, frames, asking>>
    BY <1>7 DEF channel
  <2>2. Kept(view)'
    BY <1>1, <1>7 DEF Kept
  <2>3. Carries(frames, code)'
    BY <2>1 DEF Carries
  <2>4. Typed'
    BY <1>1, <1>4, <2>1 DEF Typed
  <2>5. Ordered'
    BY <1>1, <1>7, <2>1 DEF Ordered
  <2> QED BY <1>2, <1>7, <2>2, <2>3, <2>4, <2>5
<1>8. CASE status = "ok" /\ flow = "sso"
  <2> DEFINE v == [Restored(view) EXCEPT !.saved = arrival.code]
  <2>1. Submit(v, arrival.code)
    BY <1>3, <1>8
  <2>2. arrival.code \in Codes /\ arrival.code \in GoodCodes
    BY <1>1, <1>8 DEF Codes
  <2>3. v \in View /\ v.user = NoCode /\ v.saved = arrival.code
    BY <1>5, <2>2, Views
  <2> HIDE DEF v
  <2> QED BY <1>6, <2>1, <2>2, <2>3
<1>9. CASE status = "ok" /\ flow = "auto"
  <2>1. Submit(Restored(view), pending)
    BY <1>3, <1>9
  <2>2. pending \in Codes
    BY <1>3, <1>9 DEF Outcomes, Arrived, Codes
  <2> QED BY <1>5, <1>6, <2>1, <2>2 DEF Kept
<1>10. CASE status # "ok" /\ flow = "auto" /\ Forgets(status)
  <2>1. view' = [Restored(view) EXCEPT !.saved = NoCode] /\ UNCHANGED channel
    BY <1>3, <1>10
  <2>2. view' \in View /\ view'.user = NoCode /\ view'.saved = NoCode
    BY <1>5, <2>1, Views
  <2>3. status \in {"rejected", "server error"}
    BY <1>10 DEF Forgets
  <2>4. status = "rejected" => view.saved \notin good
    BY <1>1, <1>3, <1>10 DEF Outcomes
  <2>5. KeepsIt
    BY <1>3, <2>3, <2>4 DEF KeepsIt
  <2> QED BY <1>7, <2>1, <2>2, <2>5
<1>11. CASE view' = Restored(view) /\ UNCHANGED channel
  <2>1. view' \in View /\ view'.user = NoCode /\ view'.saved = view.saved
    BY <1>5, <1>11
  <2>2. KeepsIt
    BY <2>1, CodesAssumption DEF KeepsIt, Arrived, Codes
  <2> QED BY <1>7, <1>11, <2>1, <2>2
<1> QED BY <1>3, <1>8, <1>9, <1>10, <1>11

\* The surroundings leave the screen and the store alone.
LEMMA ClubKeeps == ASSUME GateInv, Club \/ ResetCode PROVE GateInv' /\ KeepsIt
<1> USE DEF GateInv
<1>1. /\ UNCHANGED <<arrival, booted, joins, view, flow, pending, answered, code, conn, nsOpen>>
      /\ good' \subseteq good /\ asking' \in {asking, NoCode}
  BY DEF Club, ResetCode, SocketOpens, SocketFails, SocketCloses, ServerAuths, gate, channel
<1>2. Arrived' /\ Came' = Came
  BY <1>1 DEF Arrived, Came
<1>3. Kept(view)'
  BY <1>1, <1>2 DEF Kept
<1>4. KeepsIt
  BY <1>1, CodesAssumption DEF KeepsIt, Arrived, Codes
<1>5. /\ sock' \in {"null", "connecting", "open", "closing", "closed"}
      /\ (sock = "null" => sock' = "null" /\ frames' = frames) \/ (sock # "null" /\ sock' # "null")
  BY DEF Club, ResetCode, SocketOpens, SocketFails, SocketCloses, ServerAuths, channel, Typed, Ordered
<1>6. Typed'
  BY <1>1, <1>5 DEF Typed
<1>7. Ordered'
  BY <1>1, <1>2, <1>5 DEF Ordered
<1>8. Carries(frames, code)'
  <2> DEFINE NewFrames(fs) == fs \in Seq(FrameSet) /\ \A i \in DOMAIN fs : OfCode(fs[i], code)
  <2>1. frames \in Seq(FrameSet) /\ \A i \in DOMAIN frames : OfCode(frames[i], code)
    BY DEF Carries
  <2>2. \A fs : NewFrames(fs) => \A n \in 0 .. Len(fs) : NewFrames(SubSeq(fs, 1, n))
    <3> SUFFICES ASSUME NEW fs, NewFrames(fs), NEW n \in 0 .. Len(fs) PROVE NewFrames(SubSeq(fs, 1, n))
      OBVIOUS
    <3>1. SubSeq(fs, 1, n) \in Seq(FrameSet) /\ Len(SubSeq(fs, 1, n)) = n
          /\ \A i \in 1 .. n : SubSeq(fs, 1, n)[i] = fs[i]
      OBVIOUS
    <3> QED BY <3>1
  <2>3. \A fs, f : NewFrames(fs) /\ OfCode(f, code) => NewFrames(Append(fs, f))
    <3> SUFFICES ASSUME NEW fs, NEW f, NewFrames(fs), OfCode(f, code) PROVE NewFrames(Append(fs, f))
      OBVIOUS
    <3>1. f \in FrameSet
      BY DEF OfCode
    <3> QED BY <3>1
  <2>4. \A type \in FrameTypes, c \in Codes \cup {NoCode} :
          (type = "auth_ok" => c = code /\ c \in GoodCodes) => OfCode(Frame(type, c), code)
    BY DEF OfCode, Frame, FrameSet
  <2>5. asking \in Codes \cup {NoCode}
    BY DEF Typed
  <2>6. NewFrames(frames')
    <3>1. CASE SocketOpens
      <4>1. frames' = <<Frame("eio_open", NoCode)>> /\ OfCode(Frame("eio_open", NoCode), code)
        BY <2>4, <3>1 DEF SocketOpens, FrameTypes
      <4>2. Frame("eio_open", NoCode) \in FrameSet
        BY <4>1 DEF OfCode
      <4> QED BY <4>1, <4>2
    <3>2. CASE SocketFails
      BY <2>1, <2>2, <3>2 DEF SocketFails
    <3>3. CASE UNCHANGED frames
      BY <2>1, <3>3
    <3>4. CASE ServerAuths
      <4> DEFINE Answer(type) == Append(Append(frames, Frame("connected", NoCode)), Frame(type, asking))
      <4>1. \A type \in FrameTypes :
              frames \o <<Frame("connected", NoCode), Frame(type, asking)>> = Answer(type)
        <5> SUFFICES ASSUME NEW type \in FrameTypes
                     PROVE  frames \o <<Frame("connected", NoCode), Frame(type, asking)>> = Answer(type)
          OBVIOUS
        <5>1. Frame("connected", NoCode) \in FrameSet /\ Frame(type, asking) \in FrameSet
          BY <2>5 DEF Frame, FrameSet, FrameTypes
        <5> QED BY <2>1, <5>1
      <4>2. OfCode(Frame("connected", NoCode), code) /\ OfCode(Frame("auth_error", asking), code)
            /\ OfCode(Frame("sio_error", NoCode), code)
        BY <2>4, <2>5 DEF FrameTypes
      <4>3. asking \in good => OfCode(Frame("auth_ok", asking), code)
        BY <2>4, <2>5, CodesAssumption DEF FrameTypes, Typed, Arrived, Codes
      <4>4. NewFrames(Answer("auth_error")) /\ (asking \in good => NewFrames(Answer("auth_ok")))
        <5> HIDE DEF NewFrames
        <5>1. NewFrames(Append(frames, Frame("connected", NoCode)))
          BY <2>1, <2>3, <4>2 DEF NewFrames
        <5> QED BY <2>3, <4>2, <4>3, <5>1
      <4>5. NewFrames(Append(frames, Frame("sio_error", NoCode)))
        <5> HIDE DEF NewFrames
        <5> QED BY <2>1, <2>3, <4>2 DEF NewFrames
      <4>6. \/ asking \in good /\ frames' = Answer("auth_ok")
            \/ \E n \in 0 .. Len(Answer("auth_error")) : frames' = SubSeq(Answer("auth_error"), 1, n)
            \/ frames' = Append(frames, Frame("sio_error", NoCode))
        <5>1. "auth_ok" \in FrameTypes /\ "auth_error" \in FrameTypes
          BY DEF FrameTypes
        <5> HIDE DEF Answer
        <5> QED BY <3>4, <4>1, <5>1 DEF ServerAuths
      <4> HIDE DEF Answer, NewFrames
      <4> QED BY <2>2, <4>4, <4>5, <4>6
    <3> QED BY <3>1, <3>2, <3>3, <3>4 DEF Club, ResetCode, SocketCloses, channel
  <2> QED BY <1>1, <2>6 DEF Carries
<1> QED BY <1>2, <1>3, <1>4, <1>6, <1>7, <1>8

\* The pump: what it reads, finds and connects again.
LEMMA PumpKeeps == ASSUME GateInv, Pump PROVE GateInv' /\ KeepsIt
<1> USE DEF GateInv
<1>1. ASSUME view' \in View, Kept(view'), view.saved # NoCode => view'.saved # NoCode,
             UNCHANGED <<arrival, booted, joins, good, flow, pending, answered, code>>,
             code # NoCode, Carries(frames', code), asking' \in {NoCode, code}, conn' \in Conns, nsOpen' \in BOOLEAN,
             sock' \in {"null", "connecting", "open", "closing", "closed"}
      PROVE  GateInv' /\ KeepsIt
  <2>1. Arrived' /\ Came' = Came
    BY <1>1 DEF Arrived, Came
  <2>2. Kept(view)' /\ Carries(frames, code)'
    BY <1>1, <2>1 DEF Kept, Carries, OfCode
  <2>3. Typed'
    BY <1>1 DEF Typed
  <2>4. flow = "none" /\ booted
    BY <1>1 DEF Ordered
  <2>5. Ordered'
    BY <1>1, <2>4 DEF Ordered
  <2>6. KeepsIt
    BY <1>1, CodesAssumption DEF KeepsIt, Arrived, Codes
  <2> QED BY <2>1, <2>2, <2>3, <2>5, <2>6
<1>2. Now \in Reads /\ Now.view = view /\ Now.conn = conn /\ Now.nsOpen = nsOpen
  BY DEF Typed, Kept, Now, Reads
<1>3. \A s \in Reads : s.view \in View /\ s.conn \in Conns /\ s.nsOpen \in BOOLEAN
  BY DEF Reads
<1>4. CASE ReadFrame
  <2>1. /\ sock = "open" /\ frames # <<>> /\ frames' = Tail(frames)
        /\ asking' \in {asking, code} /\ sock' \in {sock, "closing"}
        /\ UNCHANGED <<arrival, booted, joins, good, flow, pending, answered, code>>
        /\ Becomes(Read(Now, Head(frames)))
    BY <1>4 DEF ReadFrame, gate
  <2>2. code # NoCode /\ code \in Codes \cup {NoCode}
    BY <2>1 DEF Ordered, Typed
  <2>3. Head(frames) = frames[1] /\ 1 \in DOMAIN frames
    BY <2>1 DEF Carries
  <2>4. OfCode(Head(frames), code)
    BY <2>3 DEF Carries
  <2> DEFINE r == Read(Now, Head(frames))
  <2>5. r \in Reads /\ Kept(r.view) /\ (view.saved # NoCode => r.view.saved # NoCode)
    BY <1>2, <2>2, <2>4, ReadKeeps
  <2>6. view' = r.view /\ conn' = r.conn /\ nsOpen' = r.nsOpen
    BY <2>1 DEF Becomes
  <2> HIDE DEF r
  <2>7. Carries(frames', code)
    <3>1. frames \in Seq(FrameSet) /\ frames # <<>>
      BY <2>1 DEF Carries
    <3>2. Tail(frames) \in Seq(FrameSet) /\ \A i \in DOMAIN Tail(frames) : i + 1 \in DOMAIN frames /\ Tail(frames)[i] = frames[i + 1]
      BY <3>1
    <3> QED BY <2>1, <3>2 DEF Carries
  <2>8. asking' \in {NoCode, code} /\ sock' \in {"null", "connecting", "open", "closing", "closed"}
    BY <2>1 DEF Typed
  <2>9. view' \in View /\ Kept(view') /\ conn' \in Conns /\ nsOpen' \in BOOLEAN
    BY <1>3, <2>5, <2>6
  <2> QED BY <1>1, <2>1, <2>2, <2>5, <2>6, <2>7, <2>8, <2>9
<1>5. CASE FindDropped
  <2> DEFINE s == After(Len(frames))
             d == Dropped(s)
  <2>1. /\ code # NoCode /\ sock' = "null" /\ frames' = <<>> /\ asking' = NoCode
        /\ UNCHANGED <<arrival, booted, joins, good, flow, pending, answered, code>>
        /\ Becomes(d)
    BY <1>5 DEF FindDropped, gate
  <2>2. s \in Reads /\ Kept(s.view) /\ (view.saved # NoCode => s.view.saved # NoCode)
    BY AllRead
  <2> HIDE DEF s
  <2>3. d.view \in View /\ d.view.user = s.view.user /\ d.view.saved = s.view.saved /\ d.conn \in Conns /\ d.nsOpen \in BOOLEAN
        /\ (s.view.user # NoCode => d.view = s.view)
    <3> DEFINE w == [Restored(s.view) EXCEPT !.panel = TRUE]
    <3>1. w \in View /\ w.user = s.view.user /\ w.saved = s.view.saved
      BY <1>3, <2>2, ShutOut
    <3>2. d = [s EXCEPT !.conn = "disconnected",
                        !.view = IF s.conn # "disconnected" /\ s.view.user = NoCode /\ code # NoCode THEN w ELSE s.view]
      BY <2>2 DEF Dropped, Reads
    <3> HIDE DEF w, d
    <3>3. CASE s.conn # "disconnected" /\ s.view.user = NoCode /\ code # NoCode
      <4>1. d = [s EXCEPT !.conn = "disconnected", !.view = w]
        BY <3>2, <3>3
      <4>2. d.view = w /\ d.conn = "disconnected" /\ d.nsOpen = s.nsOpen
        BY <2>2, <4>1 DEF Reads
      <4> QED BY <1>3, <2>2, <3>1, <3>3, <4>2 DEF Conns
    <3>4. CASE ~(s.conn # "disconnected" /\ s.view.user = NoCode /\ code # NoCode)
      <4>1. d = [s EXCEPT !.conn = "disconnected", !.view = s.view]
        BY <3>2, <3>4
      <4>2. d.view = s.view /\ d.conn = "disconnected" /\ d.nsOpen = s.nsOpen
        BY <2>2, <4>1 DEF Reads
      <4> QED BY <1>3, <2>2, <4>2 DEF Conns
    <3> QED BY <3>3, <3>4
  <2>4. Kept(d.view)
    BY <2>2, <2>3 DEF Kept
  <2>5. view' = d.view /\ conn' = d.conn /\ nsOpen' = d.nsOpen
    BY <2>1 DEF Becomes
  <2> HIDE DEF d
  <2>6. Carries(frames', code)
    BY <2>1 DEF Carries
  <2>7. /\ view' \in View /\ Kept(view') /\ (view.saved # NoCode => view'.saved # NoCode)
        /\ conn' \in Conns /\ nsOpen' \in BOOLEAN
    BY <2>2, <2>3, <2>4, <2>5
  <2> QED BY <1>1, <2>1, <2>6, <2>7
<1>6. CASE Reconnect
  <2>1. /\ code # NoCode /\ frames' = <<>> /\ asking' = NoCode /\ sock' \in {"connecting", "closed"} /\ conn' \in Conns
        /\ UNCHANGED <<arrival, booted, joins, good, view, flow, pending, answered, code, nsOpen>>
    BY <1>6 DEF Reconnect, Connect, gate, Conns
  <2>2. Carries(frames', code)
    BY <2>1 DEF Carries
  <2>3. view' \in View /\ Kept(view') /\ nsOpen' \in BOOLEAN
    BY <2>1 DEF Kept, Typed
  <2> QED BY <1>1, <2>1, <2>2, <2>3
<1> QED BY <1>4, <1>5, <1>6 DEF Pump

LEMMA GateInvNext == GateInv /\ [GateNext]_gateVars => GateInv' /\ [KeepsIt]_gateVars
<1> SUFFICES ASSUME GateInv, [GateNext]_gateVars PROVE GateInv' /\ [KeepsIt]_gateVars
  OBVIOUS
<1>1. CASE GateNext
  BY <1>1, BootKeeps, JoinKeeps, AnswerKeeps, ClubKeeps, PumpKeeps DEF GateNext
<1>2. CASE UNCHANGED gateVars
  <2>1. UNCHANGED <<arrival, booted, joins, good, view, flow, pending, answered, code, conn, nsOpen, sock, frames, asking>>
    BY <1>2 DEF gateVars, gate, channel
  <2>2. Came' = Came
    BY <2>1 DEF Came
  <2>3. Arrived'
    BY <2>1 DEF GateInv, Arrived
  <2>4. Typed'
    BY <2>1 DEF GateInv, Typed
  <2>5. Ordered'
    BY <2>1, <2>2 DEF GateInv, Ordered
  <2>6. Kept(view)' /\ Carries(frames, code)'
    BY <2>1, <2>2 DEF GateInv, Kept, Carries
  <2> QED BY <1>2, <2>3, <2>4, <2>5, <2>6 DEF GateInv
<1> QED BY <1>1, <1>2

LEMMA GateKept == GateInv => GateTypeOK /\ KeptCodeOpensTheStable /\ GateShutWhenIn
<1> SUFFICES ASSUME GateInv PROVE GateTypeOK /\ KeptCodeOpensTheStable /\ GateShutWhenIn
  OBVIOUS
<1>1. \A i \in DOMAIN frames : frames[i].type \in FrameTypes
  BY DEF GateInv, Carries, OfCode, FrameSet
<1>2. GateTypeOK
  <2>1. arrival.web \in BOOLEAN /\ arrival.code \in Codes \cup {NoCode}
    BY DEF GateInv, Arrived
  <2> QED BY <1>1, <2>1 DEF GateInv, Arrived, Typed, Kept, Conns, GateTypeOK
<1>3. KeptCodeOpensTheStable
  BY DEF GateInv, Kept, Came, KeptCodeOpensTheStable
<1>4. GateShutWhenIn
  BY DEF GateInv, Kept, Ordered, GateShutWhenIn
<1> QED BY <1>2, <1>3, <1>4

\* For any codes and any number of taps on Join, and whatever the network loses: the code
\* kept between visits opens the stable that is shown and is one the club gave or let in,
\* the gate is never in front of a stable, and a good code is forgotten over nothing but
\* an error of the club's own server.
THEOREM GateIsKept == GateSpec => GateKeeps
<1>1. GateInv /\ GateInv' /\ [KeepsIt]_gateVars
        => [view.saved \in good /\ view'.saved = NoCode => answered' = "server error"]_gateVars
  BY DEF KeepsIt
<1> QED BY <1>1, GateInvInit, GateInvNext, GateKept, PTL DEF GateSpec, GateKeeps, KeepsGoodCode

-----------------------------------------------------------------------------
(* The dedicated server's session.                                         *)

Live == phase \in {"handshake", "established"}

\* A new connection has nothing behind it.
Fresh ==
  link = "dialing" =>
    /\ peer = "connecting" /\ phase = "none" /\ read = 0 /\ nextSeq = 0 /\ acting = 0
    /\ up = <<>> /\ down = <<>> /\ sent = <<>> /\ got = <<>> /\ acted = <<>> /\ posted = <<>>

\* The texts under way are those that follow the ones the session has taken, all of them
\* while the connection is up and the client has not closed it.
Following ==
  Live =>
    /\ \A i \in DOMAIN up : up[i] \notin Control => read + i \in DOMAIN sent /\ up[i] = sent[read + i]
    /\ link = "up" /\ peer \in {"connecting", "open"} => Len(sent) = read + Len(up)

\* A text that was taken is answered, or is the request that is being served.
Numbered ==
  /\ phase = "handshake" => read = 0
  /\ Live => read = nextSeq + (IF acting = 0 THEN 0 ELSE 1)
  /\ Live => \A i \in DOMAIN down : down[i] # Close
  /\ Live /\ link = "up" => nextSeq = Len(got) + Len(down)

\* The request that is being served is the last text taken.
Acting ==
  acting # 0 =>
    /\ phase = "established" /\ acting = read
    /\ Decodes(sent[acting]) /\ sent[acting].type = "application_request"

Served == {acted[i] : i \in DOMAIN acted}

\* What the application has served went out, but for the request it has just served.
Posted ==
  Live => Len(acted) = Len(posted) + (IF acting # 0 /\ acting \in Served THEN 1 ELSE 0)

WasTold == wasOpen <=> peer \in {"open", "closing"}

SessionInv == SessionSafe /\ Fresh /\ Following /\ Numbered /\ Acting /\ Posted /\ WasTold

-----------------------------------------------------------------------------
(* Sequences and frames.                                                   *)

LEMMA Pushed ==
  ASSUME NEW S, NEW s \in Seq(S), NEW x \in S
  PROVE  /\ s \o <<x>> \in Seq(S) /\ Len(s \o <<x>>) = Len(s) + 1
         /\ \A i \in 1 .. Len(s) : (s \o <<x>>)[i] = s[i]
         /\ (s \o <<x>>)[Len(s) + 1] = x
OBVIOUS

LEMMA Cut ==
  ASSUME NEW S, NEW s \in Seq(S), NEW n \in 0 .. Len(s)
  PROVE  /\ SubSeq(s, 1, n) \in Seq(S) /\ Len(SubSeq(s, 1, n)) = n
         /\ \A i \in 1 .. n : SubSeq(s, 1, n)[i] = s[i]
OBVIOUS

LEMMA Rest ==
  ASSUME NEW S, NEW s \in Seq(S), s # <<>>
  PROVE  /\ Len(s) \in Nat \ {0} /\ Head(s) = s[1] /\ Head(s) \in S
         /\ Tail(s) \in Seq(S) /\ Len(Tail(s)) = Len(s) - 1
         /\ \A i \in 1 .. Len(Tail(s)) : Tail(s)[i] = s[i + 1]
OBVIOUS

LEMMA Wider ==
  ASSUME NEW m \in Nat, NEW n \in Nat, m <= n, NEW s \in Seq(1 .. m) PROVE s \in Seq(1 .. n)
OBVIOUS

\* No text and no envelope is a close frame or a reset.
LEMMA Frames ==
  /\ \A text \in Texts : text \notin Control /\ text.type \in RequestTypes
  /\ \A envelope \in Envelope : envelope \notin Control
  /\ Close \in Control
BY TextsAssumption DEF Text, RequestTypes, Envelope, ReplyTypes, Errors, Control, Close, Reset

LEMMA Replies ==
  /\ \A text \in Texts : FirstReply(text) \in ReplyTypes
  /\ \A text \in Texts : LoopReply(text, hasApplication) \in ReplyTypes
BY DEF FirstReply, HandshakeReply, LoopReply, ReplyTypes, Errors

\* What a session that replies puts under way.
LEMMA ReplyGives ==
  ASSUME down \in Seq(Envelope \cup {Close}), nextSeq \in Nat,
         NEW type \in ReplyTypes, NEW of \in Nat, NEW next, Reply(type, of, next)
  PROVE  LET envelope == [type |-> type, seq |-> nextSeq + 1, of |-> of] IN
         /\ nextSeq' = nextSeq + 1 /\ phase' = next
         /\ down' \in Seq(Envelope \cup {Close})
         /\ \A i \in 1 .. Len(down) : down'[i] = down[i]
         /\ link # "up" => down' = down
         /\ link = "up" => down'[Len(down) + 1] = envelope
         /\ link = "up" /\ next # "over" => Len(down') = Len(down) + 1
         /\ link = "up" /\ next = "over" => Len(down') = Len(down) + 2 /\ down'[Len(down) + 2] = Close
<1> DEFINE envelope == [type |-> type, seq |-> nextSeq + 1, of |-> of]
<1>1. envelope \in Envelope \cup {Close} /\ nextSeq' = nextSeq + 1 /\ phase' = next
  BY DEF Envelope, Reply
<1>2. CASE link # "up"
  <2>1. down' = down \o <<>>
    BY <1>2 DEF Reply, Carried
  <2>2. down' = down
    BY <2>1
  <2> QED BY <1>1, <1>2, <2>2
<1>3. CASE link = "up" /\ next # "over"
  <2>1. down' = down \o <<envelope>>
    BY <1>3 DEF Reply, Carried
  <2> HIDE DEF envelope
  <2>2. /\ down' \in Seq(Envelope \cup {Close}) /\ Len(down') = Len(down) + 1
        /\ \A i \in 1 .. Len(down) : down'[i] = down[i]
        /\ down'[Len(down) + 1] = envelope
    BY <1>1, <2>1
  <2> QED BY <1>1, <1>3, <2>2 DEF envelope
<1>4. CASE link = "up" /\ next = "over"
  <2>1. down' = (down \o <<envelope>>) \o <<Close>>
    BY <1>4 DEF Reply, Carried
  <2> DEFINE first == down \o <<envelope>>
  <2> HIDE DEF envelope
  <2>2. /\ first \in Seq(Envelope \cup {Close}) /\ Len(first) = Len(down) + 1
        /\ \A i \in 1 .. Len(down) : first[i] = down[i]
        /\ first[Len(down) + 1] = envelope
    BY <1>1
  <2> HIDE DEF first
  <2>3. /\ down' \in Seq(Envelope \cup {Close}) /\ Len(down') = Len(first) + 1
        /\ \A i \in 1 .. Len(first) : down'[i] = first[i]
        /\ down'[Len(first) + 1] = Close
    BY <2>1, <2>2 DEF first
  <2> QED BY <1>1, <1>4, <2>2, <2>3 DEF envelope
<1> QED BY <1>2, <1>3, <1>4

\* The answers to a text suit it.
LEMMA RepliesSuit ==
  /\ \A text \in Texts : Suits(FirstReply(text), text) /\ Suits(LoopReply(text, hasApplication), text)
  /\ \A text \in Texts : Decodes(text) /\ text.type = "application_request" => Suits("application_result", text)
BY DEF Suits, FirstReply, HandshakeReply, LoopReply, Decodes

\* A reply with the next number, to the text of that number, counts.
LEMMA ReplyCounts ==
  ASSUME SessionInv, Live, NEW type \in ReplyTypes, NEW of \in Nat, NEW next, Reply(type, of, next),
         of = nextSeq + 1, of \in DOMAIN sent, Suits(type, sent[of]), UNCHANGED <<sent, got, link>>
  PROVE  /\ AnswersCount' /\ down' \in Seq(Envelope \cup {Close}) /\ nextSeq' = nextSeq + 1 /\ phase' = next
         /\ next # "over" =>
              /\ \A i \in DOMAIN down' : down'[i] # Close
              /\ link = "up" => nextSeq' = Len(got) + Len(down')
<1> DEFINE envelope == [type |-> type, seq |-> nextSeq + 1, of |-> of]
<1>1. down \in Seq(Envelope \cup {Close}) /\ nextSeq \in Nat /\ got \in Seq(Envelope) /\ AnswersCount
  BY DEF SessionInv, SessionSafe, SessionTypeOK
<1>2. /\ nextSeq' = nextSeq + 1 /\ phase' = next
      /\ down' \in Seq(Envelope \cup {Close})
      /\ \A i \in 1 .. Len(down) : down'[i] = down[i]
      /\ link # "up" => down' = down
      /\ link = "up" => down'[Len(down) + 1] = envelope
      /\ link = "up" /\ next # "over" => Len(down') = Len(down) + 1
      /\ link = "up" /\ next = "over" => Len(down') = Len(down) + 2 /\ down'[Len(down) + 2] = Close
  BY <1>1, ReplyGives
<1>3. /\ link = "up" => nextSeq = Len(got) + Len(down)
      /\ \A i \in DOMAIN down : down[i] # Close
  BY DEF SessionInv, Numbered
<1>4. envelope # Close
  BY DEF Close, ReplyTypes, Errors
<1>5. Counts(envelope, of)
  BY DEF Counts
<1> HIDE DEF envelope
<1>6. ASSUME NEW i \in DOMAIN down', down'[i] # Close PROVE Counts(down'[i], Len(got) + i)
  <2>1. CASE i \in 1 .. Len(down)
    <3>1. down'[i] = down[i] /\ i \in DOMAIN down /\ down[i] # Close
      BY <1>1, <1>2, <1>6, <2>1
    <3> QED BY <1>1, <3>1 DEF AnswersCount
  <2>2. CASE i \notin 1 .. Len(down)
    <3>1. link = "up" /\ i = Len(down) + 1
      BY <1>1, <1>2, <1>6, <2>2
    <3> QED BY <1>1, <1>2, <1>3, <1>5, <3>1
  <2> QED BY <2>1, <2>2
<1>7. AnswersCount'
  BY <1>1, <1>6 DEF AnswersCount, Counts
<1>8. ASSUME next # "over" PROVE /\ \A i \in DOMAIN down' : down'[i] # Close
                                 /\ link = "up" => nextSeq' = Len(got) + Len(down')
  BY <1>1, <1>2, <1>3, <1>4, <1>8
<1> QED BY <1>2, <1>7, <1>8

LEMMA SessionInvInit == SessionInit => SessionInv
<1> SUFFICES ASSUME SessionInit PROVE SessionInv
  OBVIOUS
<1> USE DEF SessionInit
<1>1. SessionTypeOK
  <2>1. hasApplication \in BOOLEAN /\ wasOpen \in BOOLEAN
    OBVIOUS
  <2>2. /\ up \in Seq(Texts \cup Control) /\ down \in Seq(Envelope \cup {Close})
        /\ signals \in Seq({"connected", "disconnected"})
        /\ sent \in Seq(Texts) /\ got \in Seq(Envelope)
    OBVIOUS
  <2>3. /\ read \in 0..Len(sent) /\ nextSeq \in Nat /\ acting \in 0..read
        /\ acted \in Seq(1..read) /\ posted \in Seq(1..read)
    OBVIOUS
  <2> QED BY <2>1, <2>2, <2>3 DEF SessionTypeOK
<1>2. OnlyHelloOpens /\ AnswersCount /\ OneResultUnsent /\ SignalsTellTheTruth
  BY DEF OnlyHelloOpens, AnswersCount, OneResultUnsent, SignalsTellTheTruth
<1>3. Fresh /\ Following /\ Numbered /\ Acting /\ Posted /\ WasTold
  BY DEF Fresh, Following, Numbered, Acting, Posted, WasTold, Live
<1> QED BY <1>1, <1>2, <1>3 DEF SessionInv, SessionSafe

-----------------------------------------------------------------------------
(* The server.                                                             *)

\* A text is taken in the order of the client's.
LEMMA TakesNext ==
  ASSUME SessionInv, Live, NEW text \in Texts, Takes(text), UNCHANGED <<sent, peer, link>>
  PROVE  /\ read + 1 \in DOMAIN sent /\ sent[read + 1] = text
         /\ read' = read + 1 /\ read' \in 0 .. Len(sent) /\ read' \in Nat
         /\ up' \in Seq(Texts \cup Control)
         /\ \A i \in DOMAIN up' : up'[i] \notin Control => read' + i \in DOMAIN sent /\ up'[i] = sent[read' + i]
         /\ link = "up" /\ peer \in {"connecting", "open"} => Len(sent) = read' + Len(up')
         /\ acted \in Seq(1 .. read') /\ posted \in Seq(1 .. read') /\ acting \in 0 .. read'
<1>1. SessionTypeOK /\ Following
  BY DEF SessionInv, SessionSafe
<1>2. up \in Seq(Texts \cup Control) /\ up # <<>> /\ text = Head(up) /\ up' = Tail(up)
  BY <1>1 DEF SessionTypeOK, Takes
<1>3. /\ Len(up) \in Nat \ {0} /\ text = up[1] /\ up' \in Seq(Texts \cup Control) /\ Len(up') = Len(up) - 1
      /\ DOMAIN up = 1 .. Len(up) /\ DOMAIN up' = 1 .. Len(up')
      /\ \A i \in 1 .. Len(up') : up'[i] = up[i + 1]
  BY <1>2
<1>9. read' = read + 1
  BY DEF Takes
<1>4. read + 1 \in DOMAIN sent /\ sent[read + 1] = text
  BY <1>1, <1>3, Frames DEF Following
<1>5. read \in Nat /\ sent \in Seq(Texts) /\ read' \in Nat /\ read' \in 0 .. Len(sent)
  BY <1>1, <1>4, <1>9 DEF SessionTypeOK
<1>6. ASSUME NEW i \in DOMAIN up', up'[i] \notin Control
      PROVE  read' + i \in DOMAIN sent /\ up'[i] = sent[read' + i]
  <2>1. i + 1 \in DOMAIN up /\ up'[i] = up[i + 1] /\ read' + i = read + (i + 1)
    <3>1. i \in 1 .. Len(up') /\ Len(up) \in Nat /\ Len(up') = Len(up) - 1 /\ DOMAIN up = 1 .. Len(up)
          /\ up'[i] = up[i + 1]
      BY <1>3, <1>6
    <3>2. read \in Nat /\ read' = read + 1
      BY <1>5, <1>9
    <3> QED BY <3>1, <3>2
  <2> QED BY <1>1, <1>6, <2>1 DEF Following
<1>7. link = "up" /\ peer \in {"connecting", "open"} => Len(sent) = read' + Len(up')
  <2> SUFFICES ASSUME link = "up" /\ peer \in {"connecting", "open"} PROVE Len(sent) = read' + Len(up')
    OBVIOUS
  <2>1. Len(sent) = read + Len(up)
    BY <1>1 DEF Following
  <2>2. Len(up) \in Nat /\ Len(up') = Len(up) - 1 /\ read \in Nat /\ read' = read + 1
    BY <1>3, <1>5, <1>9
  <2> QED BY <2>1, <2>2
<1>8. acted \in Seq(1 .. read') /\ posted \in Seq(1 .. read') /\ acting \in 0 .. read'
  BY <1>1, <1>5, <1>9, Wider DEF SessionTypeOK
<1> QED BY <1>3, <1>4, <1>5, <1>6, <1>7, <1>8, <1>9

LEMMA HandshakeStep == SessionInv /\ Handshake => SessionInv'
<1> SUFFICES ASSUME SessionInv, Handshake PROVE SessionInv'
  OBVIOUS
<1>0. SessionTypeOK /\ Fresh /\ Following /\ Numbered /\ Acting /\ Posted /\ WasTold /\ OnlyHelloOpens /\ AnswersCount
      /\ OneResultUnsent /\ SignalsTellTheTruth
  BY DEF SessionInv, SessionSafe
<1>1. PICK text \in Texts :
        /\ Takes(text)
        /\ Reply(FirstReply(text), read', IF FirstReply(text) = "hello_ack" THEN "established" ELSE "over")
  BY DEF Handshake
<1>2. /\ phase = "handshake" /\ Live
      /\ UNCHANGED <<hasApplication, acting, acted, posted, client, link, peer, connections, wasOpen, signals, sent, got>>
  BY DEF Handshake, client, Live
<1> DEFINE next == IF FirstReply(text) = "hello_ack" THEN "established" ELSE "over"
<1>3. next \in {"established", "over"} /\ next # "handshake"
  OBVIOUS
<1>4. /\ read + 1 \in DOMAIN sent /\ sent[read + 1] = text
      /\ read' = read + 1 /\ read' \in 0 .. Len(sent) /\ read' \in Nat
      /\ up' \in Seq(Texts \cup Control)
      /\ \A i \in DOMAIN up' : up'[i] \notin Control => read' + i \in DOMAIN sent /\ up'[i] = sent[read' + i]
      /\ link = "up" /\ peer \in {"connecting", "open"} => Len(sent) = read' + Len(up')
      /\ acted \in Seq(1 .. read') /\ posted \in Seq(1 .. read') /\ acting \in 0 .. read'
  BY <1>1, <1>2, TakesNext
<1>5. acting = 0 /\ read = 0 /\ nextSeq = 0 /\ Len(acted) = Len(posted)
  BY <1>0, <1>2 DEF Acting, Numbered, Posted, Live, SessionTypeOK
<1>6. /\ AnswersCount' /\ down' \in Seq(Envelope \cup {Close}) /\ nextSeq' = nextSeq + 1 /\ phase' = next
      /\ next # "over" =>
           /\ \A i \in DOMAIN down' : down'[i] # Close
           /\ link = "up" => nextSeq' = Len(got) + Len(down')
  BY <1>1, <1>2, <1>4, <1>5, Replies, RepliesSuit, ReplyCounts
<1>7. next = "established" => sent[1].type = "hello" /\ sent[1].protocol = "ours" /\ sent[1].form = "good"
  BY <1>4, <1>5 DEF FirstReply, HandshakeReply, Decodes
<1> HIDE DEF next
<1>8. SessionTypeOK'
  <2>1. hasApplication' \in BOOLEAN /\ wasOpen' \in BOOLEAN
    BY <1>0, <1>2 DEF SessionTypeOK
  <2> QED BY <1>0, <1>2, <1>3, <1>4, <1>5, <1>6, <2>1 DEF SessionTypeOK
<1>9. OnlyHelloOpens'
  BY <1>0, <1>2, <1>3, <1>4, <1>6, <1>7 DEF OnlyHelloOpens
<1>10. OneResultUnsent' /\ SignalsTellTheTruth' /\ WasTold'
  BY <1>0, <1>2 DEF OneResultUnsent, SignalsTellTheTruth, WasTold
<1>11. Fresh' /\ Acting'
  BY <1>0, <1>2, <1>5 DEF Fresh, Acting
<1>12. Following'
  BY <1>2, <1>4 DEF Following
<1>13. Numbered'
  BY <1>2, <1>3, <1>4, <1>5, <1>6 DEF Numbered, Live
<1>14. Posted'
  BY <1>2, <1>5 DEF Posted
<1> QED BY <1>6, <1>8, <1>9, <1>10, <1>11, <1>12, <1>13, <1>14 DEF SessionInv, SessionSafe

\* A close frame behind what is under way, or a loss of its end, changes no count.
LEMMA CloseCounts ==
  ASSUME SessionInv, down' = down \o Carried(<<Close>>), UNCHANGED <<sent, got>>
  PROVE  down' \in Seq(Envelope \cup {Close}) /\ AnswersCount'
<1>1. down \in Seq(Envelope \cup {Close}) /\ got \in Seq(Envelope) /\ AnswersCount
  BY DEF SessionInv, SessionSafe, SessionTypeOK
<1>2. CASE link = "up"
  <2>1. down' = down \o <<Close>>
    BY <1>2 DEF Carried
  <2> DEFINE Sendable == Envelope \cup {Close}
  <2>4. down \in Seq(Sendable) /\ Close \in Sendable
    BY <1>1
  <2> HIDE DEF Sendable
  <2>6. /\ down \o <<Close>> \in Seq(Sendable) /\ Len(down \o <<Close>>) = Len(down) + 1
        /\ \A i \in 1 .. Len(down) : (down \o <<Close>>)[i] = down[i]
        /\ (down \o <<Close>>)[Len(down) + 1] = Close
    BY <2>4, Pushed
  <2>5. /\ down' \in Seq(Sendable) /\ Len(down') = Len(down) + 1
        /\ \A i \in 1 .. Len(down) : down'[i] = down[i]
        /\ down'[Len(down) + 1] = Close
    BY <2>1, <2>6
  <2>2. /\ down' \in Seq(Envelope \cup {Close}) /\ Len(down') = Len(down) + 1 /\ Len(down) \in Nat
        /\ DOMAIN down = 1 .. Len(down) /\ DOMAIN down' = 1 .. Len(down')
        /\ \A i \in 1 .. Len(down) : down'[i] = down[i]
        /\ down'[Len(down) + 1] = Close
    BY <2>4, <2>5 DEF Sendable
  <2>3. ASSUME NEW i \in DOMAIN down', down'[i] # Close PROVE i \in DOMAIN down /\ down'[i] = down[i]
    BY <2>2, <2>3
  <2> QED BY <1>1, <2>2, <2>3, SMTT(30), ZenonT(30) DEF AnswersCount, Counts
<1>3. CASE link # "up"
  <2>1. down' = down \o <<>>
    BY <1>3 DEF Carried
  <2>2. down' = down
    BY <1>1, <2>1
  <2> QED BY <1>1, <2>2 DEF AnswersCount, Counts
<1> QED BY <1>2, <1>3

LEMMA PrefixCounts ==
  ASSUME SessionInv, NEW n \in 0 .. Len(down), down' = SubSeq(down, 1, n), UNCHANGED <<sent, got>>
  PROVE  down' \in Seq(Envelope \cup {Close}) /\ AnswersCount'
<1>1. down \in Seq(Envelope \cup {Close}) /\ got \in Seq(Envelope) /\ AnswersCount
  BY DEF SessionInv, SessionSafe, SessionTypeOK
<1>2. /\ down' \in Seq(Envelope \cup {Close}) /\ Len(down') = n
      /\ \A i \in 1 .. n : down'[i] = down[i]
  BY <1>1
<1>3. ASSUME NEW i \in DOMAIN down' PROVE i \in DOMAIN down /\ down'[i] = down[i]
  BY <1>1, <1>2
<1> QED BY <1>1, <1>2, <1>3 DEF AnswersCount, Counts

\* A session that is over owes nothing.
LEMMA EndsKeep ==
  ASSUME SessionInv, phase' = "over", acting' = 0, link' \in {"none", "up", "broken"}, nextSeq' \in Nat,
         UNCHANGED <<hasApplication, read, acted, posted, sent, got, peer, wasOpen, signals>>,
         up' \in Seq(Texts \cup Control), down' \in Seq(Envelope \cup {Close}), AnswersCount'
  PROVE  SessionInv'
<1>0. SessionTypeOK /\ OnlyHelloOpens /\ OneResultUnsent /\ SignalsTellTheTruth /\ WasTold
  BY DEF SessionInv, SessionSafe
<1>1. SessionTypeOK'
  <2>1. hasApplication' \in BOOLEAN /\ wasOpen' \in BOOLEAN
    BY <1>0 DEF SessionTypeOK
  <2>2. read' \in 0 .. Len(sent') /\ acting' \in 0 .. read'
    BY <1>0 DEF SessionTypeOK
  <2> QED BY <1>0, <2>1, <2>2 DEF SessionTypeOK
<1>2. OnlyHelloOpens' /\ OneResultUnsent' /\ SignalsTellTheTruth' /\ WasTold'
  BY <1>0 DEF OnlyHelloOpens, OneResultUnsent, SignalsTellTheTruth, WasTold
<1>3. Fresh' /\ Following' /\ Numbered' /\ Acting' /\ Posted'
  BY DEF Fresh, Following, Numbered, Acting, Posted, Live
<1> QED BY <1>1, <1>2, <1>3 DEF SessionInv, SessionSafe

LEMMA LiveIsUpOrBroken ==
  ASSUME SessionInv, Live
  PROVE  link \in {"none", "up", "broken"} /\ phase # "none" /\ (phase = "handshake" => acting = 0)
BY DEF SessionInv, SessionSafe, SessionTypeOK, Fresh, Live, Acting

LEMMA EndingStep == SessionInv /\ (HandshakeTimeout \/ EndOfInput \/ Halt) => SessionInv'
<1> SUFFICES ASSUME SessionInv, HandshakeTimeout \/ EndOfInput \/ Halt PROVE SessionInv'
  OBVIOUS
<1>0. SessionTypeOK /\ link \in {"none", "up", "broken"}
  <2>1. Live
    BY DEF HandshakeTimeout, EndOfInput, Halt, Live
  <2> QED BY <2>1, LiveIsUpOrBroken DEF SessionInv, SessionSafe
<1>1. CASE HandshakeTimeout
  <2>1. /\ phase' = "over" /\ down' = down \o Carried(<<Close>>) /\ acting = 0 /\ phase = "handshake"
        /\ UNCHANGED <<hasApplication, read, nextSeq, acting, acted, posted, sent, got, peer, wasOpen, signals, link, up>>
    BY <1>1, LiveIsUpOrBroken DEF HandshakeTimeout, client, Live
  <2> QED BY <1>0, <2>1, CloseCounts, EndsKeep DEF SessionTypeOK
<1>2. CASE EndOfInput
  <2>1. /\ phase' = "over" /\ down' = down \o Carried(<<Close>>) /\ acting = 0
        /\ up # <<>> /\ up' = Tail(up) /\ nextSeq' \in {nextSeq, nextSeq + 1}
        /\ UNCHANGED <<hasApplication, read, acting, acted, posted, sent, got, peer, wasOpen, signals, link>>
    BY <1>2 DEF EndOfInput, client
  <2>2. up' \in Seq(Texts \cup Control) /\ nextSeq' \in Nat
    BY <1>0, <2>1 DEF SessionTypeOK
  <2> QED BY <1>0, <2>1, <2>2, CloseCounts, EndsKeep
<1>3. CASE Halt
  <2>1. /\ phase' = "over" /\ acting' = 0 /\ link' = "broken" /\ up' = <<>>
        /\ \E n \in 0 .. Len(down) : down' = SubSeq(down, 1, n)
        /\ UNCHANGED <<hasApplication, read, nextSeq, acted, posted, sent, got, peer, wasOpen, signals>>
    BY <1>3 DEF Halt, client
  <2>2. up' \in Seq(Texts \cup Control) /\ nextSeq' \in Nat
    BY <1>0, <2>1 DEF SessionTypeOK
  <2> QED BY <2>1, <2>2, PrefixCounts, EndsKeep
<1> QED BY <1>1, <1>2, <1>3

LEMMA ServeStep == SessionInv /\ Serve => SessionInv'
<1> SUFFICES ASSUME SessionInv, Serve PROVE SessionInv'
  OBVIOUS
<1>0. SessionTypeOK /\ Fresh /\ Following /\ Numbered /\ Acting /\ Posted /\ WasTold /\ OnlyHelloOpens /\ AnswersCount
      /\ OneResultUnsent /\ SignalsTellTheTruth
  BY DEF SessionInv, SessionSafe
<1>1. PICK text \in Texts, next \in {"established", "over"} :
        Takes(text) /\ Reply(LoopReply(text, hasApplication), read', next)
  BY DEF Serve, AfterSend
<1>2. /\ phase = "established" /\ Live /\ acting = 0
      /\ UNCHANGED <<hasApplication, acting, acted, posted, client, link, peer, connections, wasOpen, signals, sent, got>>
  BY DEF Serve, client, Live
<1>4. /\ read + 1 \in DOMAIN sent /\ sent[read + 1] = text
      /\ read' = read + 1 /\ read' \in 0 .. Len(sent) /\ read' \in Nat
      /\ up' \in Seq(Texts \cup Control)
      /\ \A i \in DOMAIN up' : up'[i] \notin Control => read' + i \in DOMAIN sent /\ up'[i] = sent[read' + i]
      /\ link = "up" /\ peer \in {"connecting", "open"} => Len(sent) = read' + Len(up')
      /\ acted \in Seq(1 .. read') /\ posted \in Seq(1 .. read') /\ acting \in 0 .. read'
  BY <1>1, <1>2, TakesNext
<1>5. read = nextSeq /\ Len(acted) = Len(posted)
  BY <1>0, <1>2 DEF Numbered, Posted, SessionTypeOK
<1>6. /\ AnswersCount' /\ down' \in Seq(Envelope \cup {Close}) /\ nextSeq' = nextSeq + 1 /\ phase' = next
      /\ next # "over" =>
           /\ \A i \in DOMAIN down' : down'[i] # Close
           /\ link = "up" => nextSeq' = Len(got) + Len(down')
  BY <1>1, <1>2, <1>4, <1>5, Replies, RepliesSuit, ReplyCounts
<1>8. SessionTypeOK'
  <2>1. hasApplication' \in BOOLEAN /\ wasOpen' \in BOOLEAN
    BY <1>0, <1>2 DEF SessionTypeOK
  <2> QED BY <1>0, <1>2, <1>4, <1>6, <2>1 DEF SessionTypeOK
<1>9. OnlyHelloOpens'
  BY <1>0, <1>2 DEF OnlyHelloOpens
<1>10. OneResultUnsent' /\ SignalsTellTheTruth' /\ WasTold'
  BY <1>0, <1>2 DEF OneResultUnsent, SignalsTellTheTruth, WasTold
<1>11. Fresh' /\ Acting'
  BY <1>0, <1>2 DEF Fresh, Acting
<1>12. Following'
  BY <1>2, <1>4 DEF Following
<1>13. Numbered'
  BY <1>2, <1>4, <1>5, <1>6 DEF Numbered, Live
<1>14. Posted'
  BY <1>2, <1>5 DEF Posted
<1> QED BY <1>6, <1>8, <1>9, <1>10, <1>11, <1>12, <1>13, <1>14 DEF SessionInv, SessionSafe

LEMMA AcceptStep == SessionInv /\ Accept => SessionInv'
<1> SUFFICES ASSUME SessionInv, Accept PROVE SessionInv'
  OBVIOUS
<1>0. SessionTypeOK /\ Fresh /\ WasTold /\ SignalsTellTheTruth
  BY DEF SessionInv, SessionSafe
<1>1. /\ link = "dialing" /\ link' = "up" /\ phase' = "handshake"
      /\ UNCHANGED <<hasApplication, read, nextSeq, acting, acted, posted, peer, wasOpen, signals, sent, got, up, down>>
  BY DEF Accept, client
<1>2. /\ read' = 0 /\ nextSeq' = 0 /\ acting' = 0
      /\ up' = <<>> /\ down' = <<>> /\ sent' = <<>> /\ got' = <<>> /\ acted' = <<>> /\ posted' = <<>>
  BY <1>0, <1>1 DEF Fresh
<1>3. SessionTypeOK'
  <2>1. hasApplication' \in BOOLEAN /\ wasOpen' \in BOOLEAN
    BY <1>0, <1>1 DEF SessionTypeOK
  <2> QED BY <1>0, <1>1, <2>1 DEF SessionTypeOK
<1>4. OnlyHelloOpens' /\ AnswersCount' /\ OneResultUnsent' /\ SignalsTellTheTruth' /\ WasTold'
  BY <1>0, <1>1, <1>2 DEF OnlyHelloOpens, AnswersCount, OneResultUnsent, SignalsTellTheTruth, WasTold
<1>5. Fresh' /\ Following' /\ Numbered' /\ Acting' /\ Posted'
  BY <1>1, <1>2 DEF Fresh, Following, Numbered, Acting, Posted, Live
<1> QED BY <1>3, <1>4, <1>5 DEF SessionInv, SessionSafe

LEMMA CallApplicationStep == SessionInv /\ CallApplication => SessionInv'
<1> SUFFICES ASSUME SessionInv, CallApplication PROVE SessionInv'
  OBVIOUS
<1>0. SessionTypeOK /\ Fresh /\ Numbered /\ Posted /\ WasTold /\ OnlyHelloOpens /\ AnswersCount
      /\ OneResultUnsent /\ SignalsTellTheTruth
  BY DEF SessionInv, SessionSafe
<1>1. PICK text \in Texts : Takes(text) /\ LoopReply(text, hasApplication) = "application_result"
  BY DEF CallApplication
<1>2. /\ phase = "established" /\ Live /\ acting = 0 /\ acting' = read'
      /\ UNCHANGED <<hasApplication, phase, nextSeq, acted, posted, link, down, peer, wasOpen, signals, sent, got>>
  BY DEF CallApplication, client, Live
<1>3. /\ read + 1 \in DOMAIN sent /\ sent[read + 1] = text
      /\ read' = read + 1 /\ read' \in 0 .. Len(sent) /\ read' \in Nat
      /\ up' \in Seq(Texts \cup Control)
      /\ \A i \in DOMAIN up' : up'[i] \notin Control => read' + i \in DOMAIN sent /\ up'[i] = sent[read' + i]
      /\ link = "up" /\ peer \in {"connecting", "open"} => Len(sent) = read' + Len(up')
      /\ acted \in Seq(1 .. read') /\ posted \in Seq(1 .. read') /\ acting \in 0 .. read'
  BY <1>1, <1>2, TakesNext
<1>4. Decodes(text) /\ text.type = "application_request"
  BY <1>1 DEF LoopReply
<1>5. read = nextSeq /\ Len(acted) = Len(posted) /\ read \in Nat /\ acting' \notin Served
  <2>1. acted \in Seq(1 .. read) /\ read \in Nat
    BY <1>0 DEF SessionTypeOK
  <2>2. acting' \notin Served
    BY <1>2, <1>3, <2>1 DEF Served
  <2> QED BY <1>0, <1>2, <2>1, <2>2 DEF Numbered, Posted, SessionTypeOK
<1>6. SessionTypeOK'
  <2>1. hasApplication' \in BOOLEAN /\ wasOpen' \in BOOLEAN
    BY <1>0, <1>2 DEF SessionTypeOK
  <2> QED BY <1>0, <1>2, <1>3, <2>1 DEF SessionTypeOK
<1>7. OnlyHelloOpens' /\ AnswersCount' /\ OneResultUnsent' /\ SignalsTellTheTruth' /\ WasTold'
  BY <1>0, <1>2 DEF OnlyHelloOpens, AnswersCount, Counts, OneResultUnsent, SignalsTellTheTruth, WasTold
<1>8. Fresh' /\ Following'
  BY <1>0, <1>2, <1>3 DEF Fresh, Following
<1>9. Numbered'
  BY <1>0, <1>2, <1>3, <1>5 DEF Numbered, Live
<1>10. Acting'
  BY <1>2, <1>3, <1>4 DEF Acting
<1>11. Posted'
  BY <1>2, <1>5 DEF Posted, Served
<1> QED BY <1>6, <1>7, <1>8, <1>9, <1>10, <1>11 DEF SessionInv, SessionSafe

LEMMA ApplicationActsStep == SessionInv /\ ApplicationActs => SessionInv'
<1> SUFFICES ASSUME SessionInv, ApplicationActs PROVE SessionInv'
  OBVIOUS
<1>0. SessionTypeOK /\ Fresh /\ Following /\ Numbered /\ Acting /\ Posted /\ WasTold /\ OnlyHelloOpens /\ AnswersCount
      /\ OneResultUnsent /\ SignalsTellTheTruth
  BY DEF SessionInv, SessionSafe
<1>1. /\ acting # 0 /\ acting \notin Served /\ acted' = Append(acted, acting)
      /\ UNCHANGED <<hasApplication, phase, read, nextSeq, acting, posted, link, up, down, peer, wasOpen, signals, sent, got>>
  BY DEF ApplicationActs, Served, client, wire
<1>2. phase = "established" /\ Live
  BY <1>0, <1>1 DEF Acting, Live
<1>3. /\ acted' \in Seq(1 .. read) /\ Len(acted') = Len(acted) + 1 /\ acting \in Served'
      /\ Len(acted) = Len(posted) /\ Len(posted) \in Nat
  <2>1. acted \in Seq(1 .. read) /\ acting \in 1 .. read /\ Len(posted) \in Nat
    BY <1>0, <1>1 DEF SessionTypeOK
  <2>2. /\ acted' \in Seq(1 .. read) /\ Len(acted') = Len(acted) + 1
        /\ Len(acted) + 1 \in DOMAIN acted' /\ acted'[Len(acted) + 1] = acting
    BY <1>1, <2>1
  <2>3. acting \in Served'
    BY <2>2 DEF Served
  <2>4. Len(acted) = Len(posted)
    BY <1>0, <1>1, <1>2, <2>1 DEF Posted
  <2> QED BY <2>1, <2>2, <2>3, <2>4
<1>4. SessionTypeOK'
  <2>1. hasApplication' \in BOOLEAN /\ wasOpen' \in BOOLEAN
    BY <1>0, <1>1 DEF SessionTypeOK
  <2> QED BY <1>0, <1>1, <1>3, <2>1 DEF SessionTypeOK
<1>5. OnlyHelloOpens' /\ AnswersCount' /\ SignalsTellTheTruth' /\ WasTold'
  BY <1>0, <1>1, <1>2 DEF OnlyHelloOpens, AnswersCount, Counts, SignalsTellTheTruth, WasTold
<1>6. OneResultUnsent' /\ Posted'
  BY <1>1, <1>3 DEF OneResultUnsent, Posted
<1>7. Fresh' /\ Following' /\ Numbered' /\ Acting'
  BY <1>0, <1>1, <1>2 DEF Fresh, Following, Numbered, Acting, Live
<1> QED BY <1>4, <1>5, <1>6, <1>7 DEF SessionInv, SessionSafe

LEMMA ApplicationAnswersStep == SessionInv /\ ApplicationAnswers => SessionInv'
<1> SUFFICES ASSUME SessionInv, ApplicationAnswers PROVE SessionInv'
  OBVIOUS
<1>0. SessionTypeOK /\ Fresh /\ Following /\ Numbered /\ Acting /\ Posted /\ WasTold /\ OnlyHelloOpens /\ AnswersCount
      /\ OneResultUnsent /\ SignalsTellTheTruth
  BY DEF SessionInv, SessionSafe
<1> DEFINE next == IF link # "up" THEN "over" ELSE "established"
<1>1. /\ acting # 0 /\ acting \in Served /\ acting' = 0 /\ posted' = posted \o Carried(<<acting>>)
      /\ Reply("application_result", acting, next)
      /\ UNCHANGED <<hasApplication, read, acted, link, up, peer, wasOpen, signals, sent, got>>
  BY DEF ApplicationAnswers, AfterSend, Served, client
<1>2. /\ phase = "established" /\ Live /\ acting = read
      /\ Decodes(sent[acting]) /\ sent[acting].type = "application_request"
  BY <1>0, <1>1 DEF Acting, Live
<1>3. /\ acting \in Nat /\ acting = nextSeq + 1 /\ acting \in DOMAIN sent /\ sent[acting] \in Texts
      /\ acting \in 1 .. read /\ nextSeq \in Nat
  BY <1>0, <1>1, <1>2 DEF Numbered, SessionTypeOK
<1>4. "application_result" \in ReplyTypes /\ Suits("application_result", sent[acting])
  BY <1>2, <1>3, RepliesSuit DEF ReplyTypes
<1>5. /\ AnswersCount' /\ down' \in Seq(Envelope \cup {Close}) /\ nextSeq' = nextSeq + 1 /\ phase' = next
      /\ next # "over" =>
           /\ \A i \in DOMAIN down' : down'[i] # Close
           /\ link = "up" => nextSeq' = Len(got) + Len(down')
  BY <1>1, <1>2, <1>3, <1>4, ReplyCounts
<1>6. /\ posted' \in Seq(1 .. read) /\ Len(posted) \in Nat /\ Len(acted) = Len(posted) + 1
      /\ Len(posted) <= Len(posted') /\ (link = "up" => Len(posted') = Len(posted) + 1)
  <2>1. posted \in Seq(1 .. read) /\ Len(acted) = Len(posted) + 1
    BY <1>0, <1>1, <1>2 DEF SessionTypeOK, Posted
  <2>2. CASE link = "up"
    <3>1. posted' = posted \o <<acting>>
      BY <1>1, <2>2 DEF Carried
    <3> QED BY <1>3, <2>1, <3>1
  <2>3. CASE link # "up"
    <3>1. posted' = posted \o <<>>
      BY <1>1, <2>3 DEF Carried
    <3> QED BY <2>1, <2>3, <3>1
  <2> QED BY <2>2, <2>3
<1>7. (next = "established" /\ link = "up") \/ next = "over"
  OBVIOUS
<1> HIDE DEF next
<1>8. SessionTypeOK'
  <2>1. hasApplication' \in BOOLEAN /\ wasOpen' \in BOOLEAN
    BY <1>0, <1>1 DEF SessionTypeOK
  <2>2. read' \in 0 .. Len(sent') /\ nextSeq' \in Nat /\ acting' \in 0 .. read'
    BY <1>0, <1>1, <1>3, <1>5 DEF SessionTypeOK
  <2>3. phase' \in {"none", "handshake", "established", "over"}
    BY <1>5, <1>7
  <2>4. posted' \in Seq(1 .. read') /\ acted' \in Seq(1 .. read')
    BY <1>0, <1>1, <1>6 DEF SessionTypeOK
  <2>5. /\ link' \in {"none", "dialing", "up", "broken"}
        /\ up' \in Seq(Texts \cup Control) /\ down' \in Seq(Envelope \cup {Close})
        /\ peer' \in {"none", "connecting", "open", "closing", "closed"}
        /\ signals' \in Seq({"connected", "disconnected"})
        /\ sent' \in Seq(Texts) /\ got' \in Seq(Envelope)
    BY <1>0, <1>1, <1>5 DEF SessionTypeOK
  <2> QED BY <2>1, <2>2, <2>3, <2>4, <2>5 DEF SessionTypeOK
<1>9. OnlyHelloOpens' /\ SignalsTellTheTruth' /\ WasTold'
  BY <1>0, <1>1, <1>2 DEF OnlyHelloOpens, SignalsTellTheTruth, WasTold
<1>10. OneResultUnsent' /\ Posted'
  BY <1>1, <1>5, <1>6, <1>7 DEF OneResultUnsent, Posted, Live
<1>11. Fresh' /\ Following' /\ Acting'
  BY <1>0, <1>1, <1>2 DEF Fresh, Following, Acting, Live
<1>12. Numbered'
  BY <1>1, <1>2, <1>3, <1>5, <1>7 DEF Numbered, Live
<1> QED BY <1>5, <1>8, <1>9, <1>10, <1>11, <1>12 DEF SessionInv, SessionSafe

-----------------------------------------------------------------------------
(* The connection and the client.                                          *)

LEMMA BreakStep == SessionInv /\ (Break \/ Refuse) => SessionInv'
<1> SUFFICES ASSUME SessionInv, Break \/ Refuse PROVE SessionInv'
  OBVIOUS
<1>0. SessionTypeOK /\ Fresh /\ Following /\ Numbered /\ Acting /\ Posted /\ WasTold /\ OnlyHelloOpens /\ AnswersCount
      /\ OneResultUnsent /\ SignalsTellTheTruth
  BY DEF SessionInv, SessionSafe
<1>1. /\ link' = "broken"
      /\ UNCHANGED <<hasApplication, phase, read, nextSeq, acting, acted, posted, peer, wasOpen, signals, sent, got>>
  BY DEF Break, Refuse, server, client
<1>2. /\ up' \in Seq(Texts \cup Control)
      /\ \A i \in DOMAIN up' : up'[i] \notin Control => i \in DOMAIN up /\ up'[i] = up[i]
      /\ down' \in Seq(Envelope \cup {Close}) /\ AnswersCount'
      /\ \A i \in DOMAIN down' : i \in DOMAIN down /\ down'[i] = down[i]
  <2>1. CASE Refuse
    BY <1>0, <2>1 DEF Refuse, server, client, SessionTypeOK, AnswersCount, Counts
  <2>2. CASE Break
    <3>1. PICK m \in 0 .. Len(up), n \in 0 .. Len(down) :
            up' = Append(SubSeq(up, 1, m), Reset) /\ down' = SubSeq(down, 1, n)
      BY <2>2 DEF Break
    <3>2. down' \in Seq(Envelope \cup {Close}) /\ AnswersCount'
      BY <1>1, <3>1, PrefixCounts
    <3>3. down \in Seq(Envelope \cup {Close}) /\ up \in Seq(Texts \cup Control) /\ Reset \in Control
      BY <1>0 DEF SessionTypeOK, Control
    <3>4. \A i \in DOMAIN down' : i \in DOMAIN down /\ down'[i] = down[i]
      BY <3>1, <3>3
    <3> DEFINE Sendable == Texts \cup Control
               kept == SubSeq(up, 1, m)
    <3>5. kept \in Seq(Sendable) /\ Len(kept) = m /\ \A i \in 1 .. m : kept[i] = up[i] /\ i \in DOMAIN up
      BY <3>3
    <3>6. Reset \in Sendable /\ up' = Append(kept, Reset)
      BY <3>1, <3>3
    <3> HIDE DEF Sendable, kept
    <3>7. /\ up' \in Seq(Sendable) /\ DOMAIN up' = 1 .. m + 1
          /\ up'[m + 1] = Reset /\ \A i \in 1 .. m : up'[i] = kept[i]
      BY <3>5, <3>6
    <3>8. ASSUME NEW i \in DOMAIN up', up'[i] \notin Control PROVE i \in 1 .. m
      BY <3>3, <3>7, <3>8
    <3> QED BY <3>2, <3>4, <3>5, <3>7, <3>8 DEF Sendable
  <2> QED BY <2>1, <2>2
<1>3. SessionTypeOK'
  <2>1. hasApplication' \in BOOLEAN /\ wasOpen' \in BOOLEAN
    BY <1>0, <1>1 DEF SessionTypeOK
  <2> QED BY <1>0, <1>1, <1>2, <2>1 DEF SessionTypeOK
<1>4. OnlyHelloOpens' /\ OneResultUnsent' /\ SignalsTellTheTruth' /\ WasTold'
  BY <1>0, <1>1 DEF OnlyHelloOpens, OneResultUnsent, SignalsTellTheTruth, WasTold
<1>5. Fresh' /\ Acting' /\ Posted'
  BY <1>0, <1>1 DEF Fresh, Acting, Posted, Live, Served
<1>6. Following'
  BY <1>0, <1>1, <1>2 DEF Following, Live
<1>7. Numbered'
  BY <1>0, <1>1, <1>2 DEF Numbered, Live
<1> QED BY <1>2, <1>3, <1>4, <1>5, <1>6, <1>7 DEF SessionInv, SessionSafe

LEMMA ConnectStep == SessionInv /\ ConnectTo => SessionInv'
<1> SUFFICES ASSUME SessionInv, ConnectTo PROVE SessionInv'
  OBVIOUS
<1>0. SessionTypeOK /\ WasTold /\ SignalsTellTheTruth
  BY DEF SessionInv, SessionSafe
<1>1. /\ peer \in {"none", "closed"} /\ peer' = "connecting" /\ link' = "dialing" /\ phase' = "none"
      /\ up' = <<>> /\ down' = <<>> /\ sent' = <<>> /\ got' = <<>> /\ acted' = <<>> /\ posted' = <<>>
      /\ read' = 0 /\ nextSeq' = 0 /\ acting' = 0
      /\ UNCHANGED <<hasApplication, wasOpen, signals>>
  BY DEF ConnectTo
<1>2. SessionTypeOK'
  <2>1. hasApplication' \in BOOLEAN /\ wasOpen' \in BOOLEAN
    BY <1>0, <1>1 DEF SessionTypeOK
  <2> QED BY <1>0, <1>1, <2>1 DEF SessionTypeOK
<1>3. OnlyHelloOpens' /\ AnswersCount' /\ OneResultUnsent'
  BY <1>1 DEF OnlyHelloOpens, AnswersCount, OneResultUnsent
<1>4. SignalsTellTheTruth' /\ WasTold'
  BY <1>0, <1>1 DEF SignalsTellTheTruth, WasTold
<1>5. Fresh' /\ Following' /\ Numbered' /\ Acting' /\ Posted'
  BY <1>1 DEF Fresh, Following, Numbered, Acting, Posted, Live
<1> QED BY <1>2, <1>3, <1>4, <1>5 DEF SessionInv, SessionSafe

\* A text the client puts behind the others keeps what is said of those.
LEMMA PutKeeps ==
  ASSUME SessionInv, NEW text \in Texts, Put(text), link # "dialing", peer \in {"connecting", "open"}, peer' = "open",
         UNCHANGED <<hasApplication, phase, read, nextSeq, acting, acted, posted, got, link, down>>
  PROVE  /\ Following' /\ OnlyHelloOpens' /\ AnswersCount' /\ Acting'
         /\ up' \in Seq(Texts \cup Control) /\ sent' \in Seq(Texts) /\ read' \in 0 .. Len(sent')
<1>0. SessionTypeOK /\ Following /\ OnlyHelloOpens /\ AnswersCount /\ Acting
  BY DEF SessionInv, SessionSafe
<1>1. sent \in Seq(Texts) /\ up \in Seq(Texts \cup Control) /\ read \in 0 .. Len(sent) /\ Len(sent) \in Nat
  BY <1>0 DEF SessionTypeOK
<1>2. /\ sent' \in Seq(Texts) /\ Len(sent') = Len(sent) + 1 /\ sent'[Len(sent) + 1] = text
      /\ DOMAIN sent = 1 .. Len(sent) /\ DOMAIN sent' = 1 .. Len(sent')
      /\ \A i \in 1 .. Len(sent) : sent'[i] = sent[i]
  BY <1>1 DEF Put
<1>3. ASSUME link = "up" PROVE Following' /\ up' \in Seq(Texts \cup Control)
  <2> DEFINE Sendable == Texts \cup Control
  <2>1. up' = up \o <<text>> /\ text \in Sendable /\ up \in Seq(Sendable)
    BY <1>1, <1>3 DEF Put, Carried
  <2> HIDE DEF Sendable
  <2>2. /\ up' \in Seq(Sendable) /\ Len(up) \in Nat /\ Len(up') = Len(up) + 1 /\ up'[Len(up) + 1] = text
        /\ DOMAIN up = 1 .. Len(up) /\ DOMAIN up' = 1 .. Len(up')
        /\ \A i \in 1 .. Len(up) : up'[i] = up[i]
    BY <2>1
  <2>3. Live => Len(sent) = read + Len(up)
    BY <1>0, <1>3 DEF Following
  <2>4. ASSUME Live, NEW i \in DOMAIN up', up'[i] \notin Control
        PROVE  read' + i \in DOMAIN sent' /\ up'[i] = sent'[read' + i]
    <3>1. CASE i \in DOMAIN up
      <4>1. up'[i] = up[i] /\ up[i] \notin Control
        BY <2>2, <2>4, <3>1
      <4>2. read + i \in DOMAIN sent /\ up[i] = sent[read + i]
        BY <1>0, <2>4, <3>1, <4>1 DEF Following
      <4> QED BY <1>2, <4>1, <4>2
    <3>2. CASE i \notin DOMAIN up
      <4>1. i = Len(up) + 1
        BY <2>2, <2>4, <3>2
      <4>2. read + i = Len(sent) + 1
        BY <1>1, <2>2, <2>3, <2>4, <4>1, SMTT(30), ZenonT(30)
      <4> QED BY <1>1, <1>2, <2>2, <4>1, <4>2
    <3> QED BY <3>1, <3>2
  <2>5. Live => Len(sent') = read' + Len(up')
    <3>1. read' = read /\ read \in Nat /\ Len(sent') = Len(sent) + 1 /\ Len(up') = Len(up) + 1 /\ Len(up) \in Nat
      BY <1>1, <1>2, <2>2
    <3>2. Len(sent) = read + Len(up) => Len(sent') = read' + Len(up')
      BY <3>1
    <3> QED BY <2>3, <3>2
  <2>6. Live' <=> Live
    BY DEF Live
  <2> QED BY <2>2, <2>4, <2>5, <2>6 DEF Following, Sendable
<1>4. ASSUME link # "up" PROVE Following' /\ up' \in Seq(Texts \cup Control)
  <2>1. up' = up \o <<>>
    BY <1>4 DEF Put, Carried
  <2>2. up' = up
    BY <1>1, <2>1
  <2>3. ASSUME Live, NEW i \in DOMAIN up, up[i] \notin Control
        PROVE  read' + i \in DOMAIN sent' /\ up[i] = sent'[read' + i]
    <3>1. read + i \in DOMAIN sent /\ up[i] = sent[read + i]
      BY <1>0, <2>3 DEF Following
    <3> QED BY <1>2, <3>1
  <2>4. Live' <=> Live
    BY DEF Live
  <2> QED BY <1>1, <1>4, <2>2, <2>3, <2>4 DEF Following
<1>5. Following' /\ up' \in Seq(Texts \cup Control)
  BY <1>3, <1>4
<1>6. OnlyHelloOpens'
  <2>1. sent # <<>> => 1 \in DOMAIN sent /\ sent' # <<>> /\ sent'[1] = sent[1]
    BY <1>1, <1>2
  <2> QED BY <1>0, <2>1 DEF OnlyHelloOpens
<1>7. AnswersCount'
  <2>1. \A envelope, i : Counts(envelope, i) => i \in DOMAIN sent' /\ sent'[i] = sent[i]
    BY <1>2 DEF Counts
  <2>2. ASSUME NEW i \in DOMAIN got PROVE got[i].seq = i /\ got[i].of = i /\ i \in DOMAIN sent' /\ Suits(got[i].type, sent'[i])
    BY <1>0, <2>1 DEF AnswersCount, Counts
  <2>3. ASSUME NEW i \in DOMAIN down, down[i] # Close
        PROVE  /\ down[i].seq = Len(got) + i /\ down[i].of = Len(got) + i /\ Len(got) + i \in DOMAIN sent'
               /\ Suits(down[i].type, sent'[Len(got) + i])
    BY <1>0, <2>1, <2>3 DEF AnswersCount, Counts
  <2> QED BY <2>2, <2>3 DEF AnswersCount, Counts
<1>8. Acting'
  <2>1. acting # 0 => acting \in DOMAIN sent
    BY <1>0, <1>1, <1>2 DEF SessionTypeOK
  <2> QED BY <1>0, <1>2, <2>1 DEF Acting
<1>9. read' \in 0 .. Len(sent')
  BY <1>1, <1>2
<1> QED BY <1>2, <1>5, <1>6, <1>7, <1>8, <1>9

\* The caller hears of a connection that opens, and of one that had opened and ends.
LEMMA OpenedTells ==
  ASSUME signals \in Seq({"connected", "disconnected"}), SignalsTellTheTruth, peer \notin {"open", "closing"},
         signals' = Append(signals, "connected"), peer' \in {"open", "closing"}
  PROVE  signals' \in Seq({"connected", "disconnected"}) /\ SignalsTellTheTruth'
<1>1. /\ signals' \in Seq({"connected", "disconnected"}) /\ Len(signals') = Len(signals) + 1 /\ Len(signals) \in Nat
      /\ DOMAIN signals = 1 .. Len(signals) /\ DOMAIN signals' = 1 .. Len(signals')
      /\ signals'[Len(signals) + 1] = "connected" /\ \A i \in 1 .. Len(signals) : signals'[i] = signals[i]
  OBVIOUS
<1>2. Len(signals) % 2 # 1 /\ (Len(signals) + 1) % 2 = 1
  BY <1>1 DEF SignalsTellTheTruth
<1>3. ASSUME NEW i \in DOMAIN signals' PROVE signals'[i] = IF i % 2 = 1 THEN "connected" ELSE "disconnected"
  <2>1. CASE i = Len(signals) + 1
    BY <1>1, <1>2, <2>1
  <2>2. CASE i # Len(signals) + 1
    <3>1. i \in DOMAIN signals /\ signals'[i] = signals[i]
      BY <1>1, <2>2
    <3> QED BY <3>1 DEF SignalsTellTheTruth
  <2> QED BY <2>1, <2>2
<1> QED BY <1>1, <1>2, <1>3 DEF SignalsTellTheTruth

LEMMA ClosedTells ==
  ASSUME signals \in Seq({"connected", "disconnected"}), SignalsTellTheTruth, peer \in {"open", "closing"},
         signals' = Append(signals, "disconnected"), peer' \notin {"open", "closing"}
  PROVE  signals' \in Seq({"connected", "disconnected"}) /\ SignalsTellTheTruth'
<1>1. /\ signals' \in Seq({"connected", "disconnected"}) /\ Len(signals') = Len(signals) + 1 /\ Len(signals) \in Nat
      /\ DOMAIN signals = 1 .. Len(signals) /\ DOMAIN signals' = 1 .. Len(signals')
      /\ signals'[Len(signals) + 1] = "disconnected" /\ \A i \in 1 .. Len(signals) : signals'[i] = signals[i]
  OBVIOUS
<1>2. Len(signals) % 2 = 1 /\ (Len(signals) + 1) % 2 # 1
  BY <1>1 DEF SignalsTellTheTruth
<1>3. ASSUME NEW i \in DOMAIN signals' PROVE signals'[i] = IF i % 2 = 1 THEN "connected" ELSE "disconnected"
  <2>1. CASE i = Len(signals) + 1
    BY <1>1, <1>2, <2>1
  <2>2. CASE i # Len(signals) + 1
    <3>1. i \in DOMAIN signals /\ signals'[i] = signals[i]
      BY <1>1, <2>2
    <3> QED BY <3>1 DEF SignalsTellTheTruth
  <2> QED BY <2>1, <2>2
<1> QED BY <1>1, <1>2, <1>3 DEF SignalsTellTheTruth

LEMMA PollOpenStep == SessionInv /\ PollOpen => SessionInv'
<1> SUFFICES ASSUME SessionInv, PollOpen PROVE SessionInv'
  OBVIOUS
<1>0. SessionTypeOK /\ Fresh /\ Following /\ Numbered /\ Acting /\ Posted /\ OnlyHelloOpens /\ AnswersCount
      /\ OneResultUnsent /\ SignalsTellTheTruth
  BY DEF SessionInv, SessionSafe
<1>1. /\ peer = "connecting" /\ link = "up" /\ peer' = "open" /\ wasOpen' = TRUE
      /\ signals' = Append(signals, "connected")
      /\ UNCHANGED <<hasApplication, phase, read, nextSeq, acting, acted, posted, got, link, down>>
  BY DEF PollOpen, server
<1>2. signals' \in Seq({"connected", "disconnected"}) /\ SignalsTellTheTruth'
  BY <1>0, <1>1, OpenedTells DEF SessionTypeOK
<1>3. /\ Following' /\ OnlyHelloOpens' /\ AnswersCount' /\ Acting'
      /\ up' \in Seq(Texts \cup Control) /\ sent' \in Seq(Texts) /\ read' \in 0 .. Len(sent')
  <2>1. CASE \E text \in Texts : Put(text)
    BY <1>1, <2>1, PutKeeps
  <2>2. CASE UNCHANGED <<sent, up>>
    <3>1. Following' /\ OnlyHelloOpens' /\ AnswersCount' /\ Acting'
      BY <1>0, <1>1, <2>2 DEF Following, OnlyHelloOpens, AnswersCount, Counts, Acting, Live
    <3> QED BY <1>0, <1>1, <2>2, <3>1 DEF SessionTypeOK
  <2> QED BY <2>1, <2>2 DEF PollOpen
<1>4. SessionTypeOK'
  <2>1. hasApplication' \in BOOLEAN /\ wasOpen' \in BOOLEAN
    BY <1>0, <1>1 DEF SessionTypeOK
  <2> QED BY <1>0, <1>1, <1>2, <1>3, <2>1 DEF SessionTypeOK
<1>5. OneResultUnsent' /\ WasTold' /\ Fresh' /\ Numbered' /\ Posted'
  BY <1>0, <1>1 DEF OneResultUnsent, WasTold, Fresh, Numbered, Posted, Live, Served
<1> QED BY <1>2, <1>3, <1>4, <1>5 DEF SessionInv, SessionSafe

LEMMA CallerSendsStep == SessionInv /\ CallerSends => SessionInv'
<1> SUFFICES ASSUME SessionInv, CallerSends PROVE SessionInv'
  OBVIOUS
<1>0. SessionTypeOK /\ Fresh /\ Numbered /\ Posted /\ WasTold /\ OneResultUnsent /\ SignalsTellTheTruth
  BY DEF SessionInv, SessionSafe
<1>1. /\ peer = "open" /\ \E text \in Texts : Put(text)
      /\ UNCHANGED <<hasApplication, phase, read, nextSeq, acting, acted, posted, peer, wasOpen, signals, got, link, down>>
  BY DEF CallerSends, server
<1>2. link # "dialing"
  BY <1>0, <1>1 DEF Fresh
<1>3. /\ Following' /\ OnlyHelloOpens' /\ AnswersCount' /\ Acting'
      /\ up' \in Seq(Texts \cup Control) /\ sent' \in Seq(Texts) /\ read' \in 0 .. Len(sent')
  BY <1>1, <1>2, PutKeeps
<1>4. SessionTypeOK'
  <2>1. hasApplication' \in BOOLEAN /\ wasOpen' \in BOOLEAN
    BY <1>0, <1>1 DEF SessionTypeOK
  <2> QED BY <1>0, <1>1, <1>3, <2>1 DEF SessionTypeOK
<1>5. OneResultUnsent' /\ SignalsTellTheTruth' /\ WasTold' /\ Fresh' /\ Numbered' /\ Posted'
  BY <1>0, <1>1, <1>2 DEF OneResultUnsent, SignalsTellTheTruth, WasTold, Fresh, Numbered, Posted, Live, Served
<1> QED BY <1>3, <1>4, <1>5 DEF SessionInv, SessionSafe

LEMMA PollPacketStep == SessionInv /\ PollPacket => SessionInv'
<1> SUFFICES ASSUME SessionInv, PollPacket PROVE SessionInv'
  OBVIOUS
<1>0. SessionTypeOK /\ Fresh /\ Following /\ Numbered /\ Acting /\ Posted /\ WasTold /\ OnlyHelloOpens /\ AnswersCount
      /\ OneResultUnsent /\ SignalsTellTheTruth
  BY DEF SessionInv, SessionSafe
<1>1. /\ peer = "open" /\ down # <<>> /\ Head(down) \notin Control /\ down' = Tail(down)
      /\ got' = IF Head(down).type \in KnownReplies THEN Append(got, Head(down)) ELSE got
      /\ UNCHANGED <<hasApplication, phase, read, nextSeq, acting, acted, posted, peer, wasOpen, signals, sent, link, up>>
  BY DEF PollPacket, server
<1>2. down \in Seq(Envelope \cup {Close}) /\ got \in Seq(Envelope) /\ nextSeq \in Nat
  BY <1>0 DEF SessionTypeOK
<1> DEFINE packet == Head(down)
           Sendable == Envelope \cup {Close}
<1>3. packet \in Envelope /\ packet # Close
  BY <1>1, <1>2, Frames
<1>4. packet.type \in KnownReplies
  BY <1>3 DEF Envelope, KnownReplies
<1>5. got' = Append(got, packet)
  BY <1>1, <1>4
<1>6. down \in Seq(Sendable) /\ down' = Tail(down)
  BY <1>1, <1>2
<1> HIDE DEF Sendable
<1>7. /\ Len(down) \in Nat \ {0} /\ packet = down[1] /\ down' \in Seq(Sendable) /\ Len(down') = Len(down) - 1
      /\ DOMAIN down = 1 .. Len(down) /\ DOMAIN down' = 1 .. Len(down')
      /\ \A i \in 1 .. Len(down') : down'[i] = down[i + 1]
  BY <1>1, <1>6, Rest
<1> HIDE DEF packet
<1>8. /\ got' \in Seq(Envelope) /\ Len(got) \in Nat /\ Len(got') = Len(got) + 1
      /\ DOMAIN got = 1 .. Len(got) /\ DOMAIN got' = 1 .. Len(got')
      /\ got'[Len(got) + 1] = packet /\ \A i \in 1 .. Len(got) : got'[i] = got[i]
  BY <1>2, <1>3, <1>5
<1>9. Counts(packet, Len(got) + 1)
  <2>1. 1 \in DOMAIN down /\ down[1] # Close
    BY <1>3, <1>7
  <2> QED BY <1>0, <1>7, <2>1 DEF AnswersCount
<1>10. ASSUME NEW i \in DOMAIN got' PROVE Counts(got'[i], i)
  <2>1. CASE i = Len(got) + 1
    BY <1>8, <1>9, <2>1
  <2>2. CASE i # Len(got) + 1
    <3>1. i \in DOMAIN got /\ got'[i] = got[i]
      BY <1>8, <2>2
    <3> QED BY <1>0, <3>1 DEF AnswersCount
  <2> QED BY <2>1, <2>2
<1>11. ASSUME NEW i \in DOMAIN down'
       PROVE  /\ i + 1 \in DOMAIN down /\ down'[i] = down[i + 1] /\ Len(got') + i = Len(got) + (i + 1)
  <2>1. i \in 1 .. Len(down') /\ down'[i] = down[i + 1]
    BY <1>7
  <2>2. i + 1 \in 1 .. Len(down)
    BY <1>7, <2>1
  <2>3. Len(got') + i = Len(got) + (i + 1)
    BY <1>8, <2>1
  <2> QED BY <1>7, <2>1, <2>2, <2>3
<1>12. ASSUME NEW i \in DOMAIN down', down'[i] # Close PROVE Counts(down'[i], Len(got') + i)
  BY <1>0, <1>11, <1>12 DEF AnswersCount
<1>13. AnswersCount'
  BY <1>1, <1>10, <1>12 DEF AnswersCount, Counts
<1>14. SessionTypeOK'
  <2>1. hasApplication' \in BOOLEAN /\ wasOpen' \in BOOLEAN
    BY <1>0, <1>1 DEF SessionTypeOK
  <2>2. down' \in Seq(Envelope \cup {Close})
    BY <1>7 DEF Sendable
  <2> QED BY <1>0, <1>1, <1>8, <2>1, <2>2 DEF SessionTypeOK
<1>15. OnlyHelloOpens' /\ OneResultUnsent' /\ SignalsTellTheTruth' /\ WasTold'
  BY <1>0, <1>1 DEF OnlyHelloOpens, OneResultUnsent, SignalsTellTheTruth, WasTold
<1>16. Fresh' /\ Following' /\ Acting' /\ Posted'
  BY <1>0, <1>1 DEF Fresh, Following, Acting, Posted, Live, Served
<1>17. Numbered'
  <2>1. Len(got') + Len(down') = Len(got) + Len(down)
    BY <1>7, <1>8
  <2>2. Live => \A i \in DOMAIN down' : down'[i] # Close
    BY <1>0, <1>11 DEF Numbered
  <2> QED BY <1>0, <1>1, <2>1, <2>2 DEF Numbered, Live
<1> QED BY <1>13, <1>14, <1>15, <1>16, <1>17 DEF SessionInv, SessionSafe

LEMMA PollClosedStep == SessionInv /\ PollClosed => SessionInv'
<1> SUFFICES ASSUME SessionInv, PollClosed PROVE SessionInv'
  OBVIOUS
<1>0. SessionTypeOK /\ Fresh /\ Following /\ Numbered /\ Acting /\ Posted /\ WasTold /\ OnlyHelloOpens /\ AnswersCount
      /\ OneResultUnsent /\ SignalsTellTheTruth
  BY DEF SessionInv, SessionSafe
<1>1. /\ peer' = "closed" /\ down' = <<>> /\ wasOpen' = FALSE
      /\ signals' = IF wasOpen THEN Append(signals, "disconnected") ELSE signals
      /\ UNCHANGED <<hasApplication, phase, read, nextSeq, acting, acted, posted, sent, got, link, up>>
  BY DEF PollClosed, FindClosed, server
<1>2. \/ peer \in {"open", "closing"} /\ (link = "broken" \/ \E i \in DOMAIN down : down[i] = Close)
      \/ peer = "connecting" /\ link = "broken"
  BY DEF PollClosed, FindClosed
<1>3. link # "dialing" /\ (Live => link = "broken")
  BY <1>0, <1>2 DEF Fresh, Numbered
<1>4. signals' \in Seq({"connected", "disconnected"}) /\ SignalsTellTheTruth'
  <2>1. CASE peer \in {"open", "closing"}
    BY <1>0, <1>1, <2>1, ClosedTells DEF SessionTypeOK, WasTold
  <2>2. CASE peer = "connecting"
    <3>1. signals' = signals
      BY <1>0, <1>1, <2>2 DEF WasTold
    <3> QED BY <1>0, <1>1, <2>2, <3>1 DEF SessionTypeOK, SignalsTellTheTruth
  <2> QED BY <1>2, <2>1, <2>2
<1>5. SessionTypeOK'
  <2>1. hasApplication' \in BOOLEAN /\ wasOpen' \in BOOLEAN
    BY <1>0, <1>1 DEF SessionTypeOK
  <2> QED BY <1>0, <1>1, <1>4, <2>1 DEF SessionTypeOK
<1>6. OnlyHelloOpens' /\ OneResultUnsent' /\ AnswersCount' /\ WasTold'
  BY <1>0, <1>1 DEF OnlyHelloOpens, OneResultUnsent, AnswersCount, Counts, WasTold
<1>7. Fresh' /\ Following' /\ Numbered' /\ Acting' /\ Posted'
  BY <1>0, <1>1, <1>3 DEF Fresh, Following, Numbered, Acting, Posted, Live, Served
<1> QED BY <1>4, <1>5, <1>6, <1>7 DEF SessionInv, SessionSafe

\* A frame behind the texts under way is not one of them.
LEMMA FrameBehind ==
  ASSUME up \in Seq(Texts \cup Control), NEW frame \in Control, up' = up \o Carried(<<frame>>)
  PROVE  /\ up' \in Seq(Texts \cup Control) /\ (link # "up" => up' = up)
         /\ \A i \in DOMAIN up' : up'[i] \notin Control => i \in DOMAIN up /\ up'[i] = up[i]
<1> DEFINE Sendable == Texts \cup Control
<1>1. up \in Seq(Sendable) /\ frame \in Sendable
  OBVIOUS
<1> HIDE DEF Sendable
<1>2. CASE link = "up"
  <2>1. up' = up \o <<frame>>
    BY <1>2 DEF Carried
  <2>4. /\ up \o <<frame>> \in Seq(Sendable) /\ Len(up \o <<frame>>) = Len(up) + 1
        /\ \A i \in 1 .. Len(up) : (up \o <<frame>>)[i] = up[i]
        /\ (up \o <<frame>>)[Len(up) + 1] = frame
    BY <1>1, Pushed
  <2>5. /\ up' \in Seq(Sendable) /\ Len(up') = Len(up) + 1
        /\ \A i \in 1 .. Len(up) : up'[i] = up[i]
        /\ up'[Len(up) + 1] = frame
    BY <2>1, <2>4
  <2>2. /\ up' \in Seq(Sendable) /\ Len(up) \in Nat /\ DOMAIN up = 1 .. Len(up) /\ DOMAIN up' = 1 .. Len(up) + 1
        /\ up'[Len(up) + 1] = frame /\ \A i \in 1 .. Len(up) : up'[i] = up[i]
    BY <1>1, <2>5
  <2>3. ASSUME NEW i \in DOMAIN up', up'[i] \notin Control PROVE i \in 1 .. Len(up)
    BY <2>2, <2>3
  <2> QED BY <1>2, <2>2, <2>3 DEF Sendable
<1>3. CASE link # "up"
  <2>1. up' = up \o <<>>
    BY <1>3 DEF Carried
  <2>2. up' = up
    BY <1>1, <2>1
  <2> QED BY <2>2
<1> QED BY <1>2, <1>3

LEMMA CallerClosesStep == SessionInv /\ CallerCloses => SessionInv'
<1> SUFFICES ASSUME SessionInv, CallerCloses PROVE SessionInv'
  OBVIOUS
<1>0. SessionTypeOK /\ Fresh /\ Following /\ Numbered /\ Acting /\ Posted /\ WasTold /\ OnlyHelloOpens /\ AnswersCount
      /\ OneResultUnsent /\ SignalsTellTheTruth
  BY DEF SessionInv, SessionSafe
<1>1. UNCHANGED <<hasApplication, phase, read, nextSeq, acting, acted, posted, wasOpen, signals, sent, got, down>>
  BY DEF CallerCloses, server
<1>2. \/ peer = "open" /\ peer' = "closing" /\ link' = link
      \/ peer = "connecting" /\ peer' = "closed" /\ link' = "broken"
  BY DEF CallerCloses
<1>3. up \in Seq(Texts \cup Control) /\ Close \in Control /\ Reset \in Control
  BY <1>0 DEF SessionTypeOK, Control
<1>4. \E frame \in Control : up' = up \o Carried(<<frame>>)
  BY <1>3 DEF CallerCloses
<1>5. /\ up' \in Seq(Texts \cup Control) /\ (link # "up" => up' = up)
      /\ \A i \in DOMAIN up' : up'[i] \notin Control => i \in DOMAIN up /\ up'[i] = up[i]
  BY <1>3, <1>4, FrameBehind
<1>6. SessionTypeOK'
  <2>1. hasApplication' \in BOOLEAN /\ wasOpen' \in BOOLEAN
    BY <1>0, <1>1 DEF SessionTypeOK
  <2>2. link' \in {"none", "dialing", "up", "broken"} /\ peer' \in {"none", "connecting", "open", "closing", "closed"}
    BY <1>0, <1>2 DEF SessionTypeOK
  <2> QED BY <1>0, <1>1, <1>5, <2>1, <2>2 DEF SessionTypeOK
<1>7. OnlyHelloOpens' /\ OneResultUnsent' /\ AnswersCount' /\ SignalsTellTheTruth' /\ WasTold'
  BY <1>0, <1>1, <1>2 DEF OnlyHelloOpens, OneResultUnsent, AnswersCount, Counts, SignalsTellTheTruth, WasTold
<1>8. Fresh' /\ Numbered' /\ Acting' /\ Posted'
  BY <1>0, <1>1, <1>2 DEF Fresh, Numbered, Acting, Posted, Live, Served
<1>9. Following'
  BY <1>0, <1>1, <1>2, <1>5 DEF Following, Live
<1> QED BY <1>5, <1>6, <1>7, <1>8, <1>9 DEF SessionInv, SessionSafe

-----------------------------------------------------------------------------

LEMMA SessionInvNext == SessionInv /\ [SessionNext]_sessionVars => SessionInv'
<1> SUFFICES ASSUME SessionInv, [SessionNext]_sessionVars PROVE SessionInv'
  OBVIOUS
<1>1. CASE SessionNext
  BY <1>1, AcceptStep, HandshakeStep, EndingStep, ServeStep, CallApplicationStep, ApplicationActsStep,
     ApplicationAnswersStep, BreakStep, ConnectStep, PollOpenStep, CallerSendsStep, PollPacketStep,
     PollClosedStep, CallerClosesStep
  DEF SessionNext, Server, Poll, Caller
<1>2. CASE UNCHANGED sessionVars
  <2>1. UNCHANGED <<hasApplication, phase, read, nextSeq, acting, acted, posted, peer, connections, wasOpen, signals,
                    sent, got, link, up, down>>
    BY <1>2 DEF sessionVars, server, client, wire
  <2>2. SessionSafe'
    <3>1. SessionTypeOK'
      <4>1. hasApplication' \in BOOLEAN /\ wasOpen' \in BOOLEAN
        BY <2>1 DEF SessionInv, SessionSafe, SessionTypeOK
      <4> QED BY <2>1, <4>1 DEF SessionInv, SessionSafe, SessionTypeOK
    <3>2. OnlyHelloOpens' /\ AnswersCount' /\ OneResultUnsent' /\ SignalsTellTheTruth'
      BY <2>1 DEF SessionInv, SessionSafe, OnlyHelloOpens, AnswersCount, Counts, OneResultUnsent, SignalsTellTheTruth
    <3> QED BY <3>1, <3>2 DEF SessionSafe
  <2>3. Fresh' /\ Following' /\ Numbered' /\ Acting' /\ Posted' /\ WasTold'
    BY <2>1 DEF SessionInv, Fresh, Following, Numbered, Acting, Posted, Live, Served, WasTold
  <2> QED BY <2>2, <2>3 DEF SessionInv
<1> QED BY <1>1, <1>2

\* What the two ends of a connection may rely on, whatever the texts and wherever it
\* breaks: a hello of our protocol before anything is served, one answer to each text, in
\* the order of the texts and numbered without a gap, at most one result of the application
\* that never went out, and a caller who is told of every connection that opens and ends.
THEOREM SessionIsSafe == SessionSpec => []SessionSafe
<1>1. SessionInv => SessionSafe
  BY DEF SessionInv
<1> QED BY <1>1, SessionInvInit, SessionInvNext, PTL DEF SessionSpec
=============================================================================
