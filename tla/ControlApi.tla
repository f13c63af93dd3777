----------------------------- MODULE ControlApi -----------------------------
(***************************************************************************)
(* The control API and the sessions games open with it: guest logins, the  *)
(* bootstrap probe and the writing of its key, requests served at the same *)
(* time over a pool of PostgreSQL connections.  A statement may fail, a    *)
(* commit may be done and not reported, and a client may give a request    *)
(* up, which may make the server drop the handler where it is.  PostgreSQL *)
(* is at READ COMMITTED: a transaction sees its own rows and those that    *)
(* are committed, and waits for another that holds the row it writes.      *)
(***************************************************************************)
EXTENDS Naturals, FiniteSets

CONSTANTS
  Players, Calls,
  Loads,          \* what the calls may be: functions to guest, probe and put
  PlayerOf,       \* who asks for a guest session
  Names,          \* the names a guest may be given
  PoolSize        \* connections the pool opens

ASSUME ControlAssumption ==
  /\ Loads \subseteq [Calls -> {"guest", "probe", "put"}]
  /\ PlayerOf \in [Calls -> Players]
  /\ PoolSize \in Nat \ {0}

Nobody == "nobody"
ASSUME NobodyAssumption == Nobody \notin Calls

VARIABLES
  kind,       \* what each call is
  at,         \* where each call is
  guestName,  \* the name drawn for a guest
  waiting,    \* the client of the call still waits for its answer
  written,    \* the tables a call's transaction has written, uncommitted
  accounts, sessions, audits,  \* the committed rows, each the call that wrote it
  kv,         \* who wrote the committed value of the probe's key
  readBack,   \* whose value the probe of a call has read
  signedIn    \* the call whose session a player shows

apiVars == <<kind, at, guestName, waiting, written, accounts, sessions, audits, kv, readBack, signedIn>>

\* The handlers, await by await: asked is the wait for a connection.
Serving == {"account", "session", "audit", "write", "read", "put", "commit"}
Answered == {"ok", "error"}
Ended == Answered \cup {"told", "dropped"}

ApiInit ==
  /\ kind \in Loads
  /\ at = [c \in Calls |-> "idle"]
  /\ guestName \in [{c \in Calls : kind[c] = "guest"} -> Names]
  /\ waiting = [c \in Calls |-> FALSE]
  /\ written = [c \in Calls |-> {}]
  /\ accounts = {} /\ sessions = {} /\ audits = {} /\ kv = Nobody
  /\ readBack = [c \in Calls |-> Nobody]
  /\ signedIn = [p \in Players |-> Nobody]

tables == <<accounts, sessions, audits, kv>>
clients == <<waiting, signedIn>>

Goes(c, place) == at' = [at EXCEPT ![c] = place]
Writes(c, table) == written' = [written EXCEPT ![c] = @ \cup {table}]
NoTransaction(c) == written' = [written EXCEPT ![c] = {}]

-----------------------------------------------------------------------------
(* The client: StudioApiClient and, for guests, StudioSession.             *)

Ask(c) ==
  /\ at[c] = "idle"
  /\ Goes(c, "asked") /\ waiting' = [waiting EXCEPT ![c] = TRUE]
  /\ UNCHANGED <<kind, guestName, written, tables, readBack, signedIn>>

\* guest_login's answer replaces whatever session the player had, or had ended.
Told(c) ==
  /\ waiting[c] /\ at[c] \in Answered
  /\ Goes(c, "told") /\ waiting' = [waiting EXCEPT ![c] = FALSE]
  /\ signedIn' = IF kind[c] = "guest" /\ at[c] = "ok"
                 THEN [signedIn EXCEPT ![PlayerOf[c]] = c] ELSE signedIn
  /\ UNCHANGED <<kind, guestName, written, tables, readBack>>

\* After ten seconds, or when the game ends; the call goes on at the server.
GiveUp(c) ==
  /\ waiting[c] /\ waiting' = [waiting EXCEPT ![c] = FALSE]
  /\ UNCHANGED <<kind, at, guestName, written, tables, readBack, signedIn>>

SignOut(p) ==
  /\ signedIn[p] # Nobody /\ signedIn' = [signedIn EXCEPT ![p] = Nobody]
  /\ UNCHANGED <<kind, at, guestName, waiting, written, tables, readBack>>

-----------------------------------------------------------------------------
(* The server.                                                             *)

First(c) == CASE kind[c] = "guest" -> "account"
              [] kind[c] = "probe" -> "write"
              [] kind[c] = "put" -> "put"

Begin(c) ==
  /\ at[c] = "asked" /\ Cardinality({d \in Calls : at[d] \in Serving}) < PoolSize
  /\ Goes(c, First(c))
  /\ UNCHANGED <<kind, guestName, written, tables, readBack, clients>>

SameName(c, d) == kind[d] = "guest" /\ guestName[d] = guestName[c]

\* The name is UNIQUE: one that is taken is refused, one that may be taken is waited for.
InsertAccountAlone(c) ==
  /\ at[c] = "account"
  /\ \A d \in accounts : ~SameName(c, d)
  /\ accounts' = accounts \cup {c} /\ Goes(c, "session")
  /\ UNCHANGED <<kind, guestName, written, sessions, audits, kv, readBack, clients>>
InsertAccount(c) ==
  /\ at[c] = "account"
  /\ \A d \in Calls : "account" \in written[d] => ~SameName(c, d)
  /\ IF \E d \in accounts : SameName(c, d)
     THEN Goes(c, "error") /\ UNCHANGED written
     ELSE Writes(c, "account") /\ Goes(c, "session")
  /\ UNCHANGED <<kind, guestName, tables, readBack, clients>>

InsertSession(c) ==
  /\ at[c] = "session" /\ Writes(c, "session") /\ Goes(c, "audit")
  /\ UNCHANGED <<kind, guestName, tables, readBack, clients>>

InsertAudit(c) ==
  /\ at[c] = "audit" /\ Writes(c, "audit") /\ Goes(c, "commit")
  /\ UNCHANGED <<kind, guestName, tables, readBack, clients>>

RowIsFree == \A d \in Calls : "kv" \notin written[d]

WriteProbeAlone(c) ==
  /\ at[c] = "write" /\ RowIsFree /\ kv' = c /\ Goes(c, "read")
  /\ UNCHANGED <<kind, guestName, written, accounts, sessions, audits, readBack, clients>>
WriteProbe(c) ==
  /\ at[c] = "write" /\ RowIsFree
  /\ Writes(c, "kv") /\ Goes(c, "read")
  /\ UNCHANGED <<kind, guestName, tables, readBack, clients>>

ReadProbe(c) ==
  /\ at[c] = "read" /\ Goes(c, "commit")
  /\ readBack' = [readBack EXCEPT ![c] = IF "kv" \in written[c] THEN c ELSE kv]
  /\ UNCHANGED <<kind, guestName, written, tables, clients>>

\* One statement, committed by itself.
PutKv(c) ==
  /\ at[c] = "put" /\ RowIsFree
  /\ kv' = c /\ Goes(c, "ok")
  /\ UNCHANGED <<kind, guestName, written, accounts, sessions, audits, readBack, clients>>

With(rows, table, c) == IF table \in written[c] THEN rows \cup {c} ELSE rows

Committed(c) ==
  /\ accounts' = With(accounts, "account", c)
  /\ sessions' = With(sessions, "session", c)
  /\ audits' = With(audits, "audit", c)
  /\ kv' = IF "kv" \in written[c] THEN c ELSE kv
  /\ NoTransaction(c)

\* A transaction that is dropped uncommitted is rolled back.
CommitForgotten(c) ==
  /\ at[c] = "commit" /\ NoTransaction(c) /\ Goes(c, "ok")
  /\ UNCHANGED <<kind, guestName, tables, readBack, clients>>
Commit(c) ==
  /\ at[c] = "commit" /\ Committed(c) /\ Goes(c, "ok")
  /\ UNCHANGED <<kind, guestName, readBack, clients>>

\* A commit that is done and not reported, or a put, which commits itself.
DoneUnreported(c) ==
  \/ at[c] = "commit" /\ Committed(c)
  \/ /\ at[c] = "put" /\ RowIsFree /\ kv' = c
     /\ UNCHANGED <<written, accounts, sessions, audits>>

RolledBack(c) == NoTransaction(c) /\ UNCHANGED tables

\* The statement or its connection fails, whether what was asked is done or not.
FailUnderTransaction(c) ==
  /\ at[c] \in {"asked"} \cup Serving /\ Goes(c, "error")
  /\ UNCHANGED <<kind, guestName, written, tables, readBack, clients>>
Fail(c) ==
  /\ at[c] \in {"asked"} \cup Serving /\ Goes(c, "error")
  /\ DoneUnreported(c) \/ RolledBack(c)
  /\ UNCHANGED <<kind, guestName, readBack, clients>>

\* The client is gone and the handler's future is dropped at the await it is in.
Drop(c) ==
  /\ ~waiting[c] /\ at[c] \in {"asked"} \cup Serving /\ Goes(c, "dropped")
  /\ DoneUnreported(c) \/ RolledBack(c)
  /\ UNCHANGED <<kind, guestName, readBack, clients>>

Handle(c) == Begin(c) \/ InsertAccount(c) \/ InsertSession(c) \/ InsertAudit(c)
               \/ WriteProbe(c) \/ ReadProbe(c) \/ PutKv(c) \/ Commit(c)
ApiNext ==
  \/ \E c \in Calls : Ask(c) \/ Told(c) \/ GiveUp(c) \/ Handle(c) \/ Fail(c) \/ Drop(c)
  \/ \E p \in Players : SignOut(p)

\* Every handler is run on; none is owed a connection before the others.
ApiFairness == \A c \in Calls : WF_apiVars(Handle(c))
ApiSpec == ApiInit /\ [][ApiNext]_apiVars /\ ApiFairness

-----------------------------------------------------------------------------

ApiTypeOK ==
  /\ kind \in Loads
  /\ at \in [Calls -> {"idle", "asked"} \cup Serving \cup Ended]
  /\ guestName \in [{c \in Calls : kind[c] = "guest"} -> Names]
  /\ waiting \in [Calls -> BOOLEAN]
  /\ written \in [Calls -> SUBSET {"account", "session", "audit", "kv"}]
  /\ accounts \subseteq Calls /\ sessions \subseteq Calls /\ audits \subseteq Calls
  /\ kv \in Calls \cup {Nobody} /\ readBack \in [Calls -> Calls \cup {Nobody}]
  /\ signedIn \in [Players -> Calls \cup {Nobody}]

\* A guest is there whole or not at all: account, session and audit row, whatever
\* failed, was dropped or was not reported.
WholeGuests == accounts = sessions /\ sessions = audits

\* What a game takes for its session is a row that is committed, and it shows it to the
\* player who asked.
SignedInIsCommitted ==
  \A p \in Players : signedIn[p] # Nobody =>
    signedIn[p] \in sessions /\ PlayerOf[signedIn[p]] = p

\* A probe that is answered has read its own value back, whoever else writes the key.
ProbesReadThemselves ==
  \A c \in Calls : kind[c] = "probe" /\ at[c] = "ok" => readBack[c] = c

\* What a game may rely on, whatever failed between two statements.
ApiSafe == ApiTypeOK /\ WholeGuests /\ SignedInIsCommitted /\ ProbesReadThemselves

\* Every call ends at the server, though it may wait for a connection, a name or a row
\* that others hold: as there are finitely many, none is left under way.
UnderWay == \E c \in Calls : at[c] \in {"asked"} \cup Serving
CallsEnd == UnderWay ~> ~UnderWay
=============================================================================
