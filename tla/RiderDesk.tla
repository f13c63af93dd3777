----------------------------- MODULE RiderDesk ------------------------------
(***************************************************************************)
(* The rider's two desks, the training panel and the stable board, and the *)
(* race that closes the stable: RiderState, TrainingState and what the     *)
(* rider's view makes of the club's events.  The club trains one session   *)
(* of an owner at a time and tells of it until it is done; any event may   *)
(* be lost with a connection.                                              *)
(***************************************************************************)
EXTENDS Naturals

CONSTANTS
  Horses,        \* horses that may be the rider's, and in a race
  MaxSessions    \* bound: sessions the club trains

VARIABLES
  authed,
  mine, entries,     \* the rider's horses; those of the race
  mount,             \* my_race_horse_id
  session, result,   \* TrainingState: the session, 0 for none, and whether it is settled
  abandoned,         \* _abandoned_session
  trainingPanel, stablePanel, stableButton,
  training,          \* the club's: the last session it began, and whether it runs
  dismissed          \* the sessions the rider has left while they ran

rider == <<authed, mine, entries, mount>>
state == <<session, result, abandoned>>
panels == <<trainingPanel, stablePanel, stableButton>>
deskVars == <<rider, state, panels, training, dismissed>>

NoHorse == "none"
ASSUME HorsesAssumption == NoHorse \notin Horses /\ MaxSessions \in Nat

DeskInit ==
  /\ authed = FALSE /\ mine = {} /\ entries = {} /\ mount = NoHorse
  /\ session = 0 /\ result = FALSE /\ abandoned = 0
  /\ trainingPanel = FALSE /\ stablePanel = FALSE /\ stableButton = FALSE
  /\ training = [last |-> 0, runs |-> FALSE] /\ dismissed = {}

Active == session # 0 /\ ~result
Shown == session # 0

-----------------------------------------------------------------------------
(* Signing in and out of the club, and the races.                          *)

AuthOk ==
  /\ authed' = TRUE /\ stableButton' = TRUE
  /\ UNCHANGED <<mine, entries, mount, state, trainingPanel, stablePanel, training, dismissed>>

AuthError ==
  /\ authed' = FALSE /\ stableButton' = FALSE
  /\ UNCHANGED <<mine, entries, mount, state, trainingPanel, stablePanel, training, dismissed>>

\* track_my_entry: one of the rider's horses that run, if any.
Tracks == IF mine' \cap entries' = {} THEN mount' = NoHorse ELSE mount' \in mine' \cap entries'

HorsesUpdate ==
  /\ mine' \in SUBSET Horses /\ entries' = entries /\ Tracks
  /\ UNCHANGED <<authed, state, panels, training, dismissed>>

DoorWhileRiding == stableButton' = IF mount' = NoHorse THEN stableButton ELSE FALSE
Door == stableButton' = IF mount' # NoHorse THEN FALSE ELSE stableButton \/ authed

\* spectate:hello and race:phase.
RacePhase ==
  /\ entries' \in SUBSET Horses /\ mine' = mine /\ Tracks
  /\ stablePanel' = (stablePanel /\ mount' = NoHorse)
  /\ Door
  /\ UNCHANGED <<authed, state, trainingPanel, training, dismissed>>

-----------------------------------------------------------------------------
(* Training.                                                               *)

\* The event left the training state with the session s, settled or not: either it is
\* the one that was abandoned, and is swallowed, or it is shown, in the stable's place.
SwallowsOnce(s, settled) ==
  IF abandoned = s
  THEN session' = 0 /\ result' = FALSE /\ abandoned' = 0
       /\ UNCHANGED <<trainingPanel, stablePanel>>
  ELSE session' = s /\ result' = settled /\ abandoned' = 0
       /\ trainingPanel' = TRUE /\ stablePanel' = FALSE
Hears(s, settled) ==
  IF abandoned = s
  THEN session' = 0 /\ result' = FALSE /\ UNCHANGED <<abandoned, trainingPanel, stablePanel>>
  ELSE session' = s /\ result' = settled /\ abandoned' = 0
       /\ trainingPanel' = TRUE /\ stablePanel' = FALSE

\* A tick of another session drops the result that was shown.
TrainingTick ==
  /\ \/ training.runs /\ UNCHANGED training
     \/ ~training.runs /\ training.last < MaxSessions
        /\ training' = [last |-> training.last + 1, runs |-> TRUE]
  /\ Hears(training'.last, result /\ session = training'.last)
  /\ UNCHANGED <<rider, stableButton, dismissed>>

\* A result of another session than the one shown is not taken.
TrainingDone ==
  /\ training.runs /\ training' = [last |-> training.last, runs |-> FALSE]
  /\ IF session \in {0, training.last}
     THEN Hears(training.last, TRUE)
     ELSE UNCHANGED <<state, trainingPanel, stablePanel>>
  /\ UNCHANGED <<rider, stableButton, dismissed>>

\* The session begins or ends while the rider is not connected.
TrainingUnheard ==
  /\ \/ training.runs /\ training' = [last |-> training.last, runs |-> FALSE]
     \/ ~training.runs /\ training.last < MaxSessions
        /\ training' = [last |-> training.last + 1, runs |-> TRUE]
  /\ UNCHANGED <<rider, state, panels, dismissed>>

\* A live session is abandoned, a settled one only put away.
Leaves ==
  /\ session' = 0 /\ result' = FALSE /\ trainingPanel' = FALSE
  /\ abandoned' = IF Active THEN session ELSE abandoned
  /\ dismissed' = IF Active THEN dismissed \cup {session} ELSE dismissed

Dismiss ==
  /\ trainingPanel /\ Leaves
  /\ UNCHANGED <<rider, stablePanel, stableButton, training>>

\* The stable's door, and the button that closes the board.
ToggleLeavingTraining ==
  /\ stableButton \/ stablePanel
  /\ stablePanel' = ~stablePanel
  /\ UNCHANGED <<rider, state, trainingPanel, stableButton, training, dismissed>>
ToggleStable ==
  /\ stableButton \/ stablePanel
  /\ stablePanel' = ~stablePanel
  /\ IF Shown THEN Leaves ELSE UNCHANGED <<state, trainingPanel, dismissed>>
  /\ UNCHANGED <<rider, stableButton, training>>

DeskNext == AuthOk \/ AuthError \/ HorsesUpdate \/ RacePhase \/ TrainingTick
              \/ TrainingDone \/ TrainingUnheard \/ Dismiss \/ ToggleStable

\* The club goes on announcing the phases of its races.
DeskSpec == DeskInit /\ [][DeskNext]_deskVars /\ WF_deskVars(RacePhase)

-----------------------------------------------------------------------------

DeskTypeOK ==
  /\ authed \in BOOLEAN /\ mine \subseteq Horses /\ entries \subseteq Horses
  /\ mount \in Horses \cup {NoHorse}
  /\ session \in 0..MaxSessions /\ result \in BOOLEAN /\ abandoned \in 0..MaxSessions
  /\ trainingPanel \in BOOLEAN /\ stablePanel \in BOOLEAN /\ stableButton \in BOOLEAN
  /\ training \in [last : 0..MaxSessions, runs : BOOLEAN] /\ dismissed \subseteq 1..MaxSessions

\* One desk at a time: the training panel and the stable board are never both open.
OneDesk == ~(trainingPanel /\ stablePanel)

\* The panel shows a session, and never again one the rider has walked out of, however
\* long the club goes on telling of it.
LeftIsLeft ==
  /\ trainingPanel <=> Shown
  /\ session \notin dismissed

\* A rider who has no horse in the race gets the door of the stable back.
DoorReturns == authed /\ mount = NoHorse ~> ~authed \/ mount # NoHorse \/ stableButton
=============================================================================
