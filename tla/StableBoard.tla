----------------------------- MODULE StableBoard -----------------------------
(***************************************************************************)
(* The stable board: its sections, the buttons they show, the two taps for *)
(* what moves coins or careers, and the carrier of its requests, one under *)
(* way at a time.  What the board shows is drawn when something happens,   *)
(* so it may be behind what the rider now owns and what is now armed.      *)
(***************************************************************************)
EXTENDS Naturals

CONSTANTS
  Stock,      \* the horses there are, and what is listed for sale or to be claimed
  MaxUpdates   \* bound: updates of the rider's horses

ASSUME BoardAssumption == MaxUpdates \in Nat

Fetched == {"EXCHANGE", "HONOURS"}      \* CIRCUIT shows no button
Sections == {"YARD", "BLOODSTOCK"} \cup Fetched
Button(act, horse) == [act |-> act, horse |-> horse]
Of(acts) == [act : acts, horse : Stock]
Breed == Button("breed", "the pair")
Preview == Button("preview", "the pair")
Careers == Of({"sell", "retire"}) \cup {Breed}
Buttons == Careers \cup Of({"care", "trade", "claim"}) \cup {Preview}
TwoTaps == Careers \cup Of({"trade"})
Fetch(s) == Button("fetch", s)
Requests == Buttons \cup {Fetch(s) : s \in Fetched}
NoButton == Button("none", "none")

VARIABLES
  owned, updates,    \* the rider's horses, told by the club
  visible, section,
  armed, fresh,      \* _armed_key, and whether its window is still open
  yard, box,         \* the buttons drawn in the yard and in the section's box
  confirms,          \* those of the box that say CONFIRM
  busy, flight,      \* _busy_path, and the request the HTTP node carries
  fired              \* the last request two taps have made, and what its button said

shown == <<visible, section>>
arming == <<armed, fresh>>
drawn == <<yard, box, confirms>>
boardVars == <<owned, updates, shown, arming, drawn, busy, flight, fired>>

BoardInit ==
  /\ owned = {} /\ updates = 0
  /\ visible = FALSE /\ section = "YARD" /\ armed = NoButton /\ fresh = FALSE
  /\ yard = {} /\ box = {} /\ confirms = {} /\ busy = NoButton /\ flight = NoButton
  /\ fired = [button |-> NoButton, confirmed |-> TRUE]

-----------------------------------------------------------------------------
(* Drawing.                                                                *)

\* _action_label, for the buttons drawn.
Labels(buttons) == confirms' = {b \in buttons : b = armed' /\ fresh'}

\* _refresh_stable empties both boxes; only two of the sections fill one again.
Refresh ==
  /\ yard' = IF section' = "YARD" THEN {b \in Of({"care"}) : b.horse \in owned'} ELSE {}
  /\ box' = IF section' = "BLOODSTOCK"
            THEN {Breed, Preview} \cup {b \in Of({"sell", "retire"}) : b.horse \in owned'}
            ELSE {}
  /\ Labels(box')

RefreshIfVisible == IF visible' THEN Refresh ELSE UNCHANGED drawn

Note == box' = {} /\ confirms' = {} /\ UNCHANGED yard

\* What the answer to a fetch draws, whatever section is open by then; a preview has its
\* answer in the status line.
Projected(request) ==
  IF request = Preview THEN UNCHANGED drawn
  ELSE /\ \E listed \in SUBSET Stock :
            box' = {b \in Of({IF request = Fetch("EXCHANGE") THEN "trade" ELSE "claim"}) :
                      b.horse \in listed}
       /\ Labels(box') /\ UNCHANGED yard

-----------------------------------------------------------------------------
(* The carrier: a request while another is under way is dropped, and one   *)
(* that cannot be made is settled at once.  drawing is what the caller     *)
(* draws; a request settled at once draws the board again.                 *)

SendAnyway(request, drawing) ==
  IF flight = NoButton THEN busy' = request /\ flight' = request /\ drawing
                  ELSE busy' = NoButton /\ flight' = flight /\ RefreshIfVisible
Send(request, drawing) ==
  \/ busy # NoButton /\ UNCHANGED <<busy, flight>> /\ drawing
  \/ busy = NoButton /\ flight = NoButton /\ busy' = request /\ flight' = request /\ drawing
  \/ busy = NoButton /\ busy' = NoButton /\ flight' = flight /\ RefreshIfVisible

\* After fifteen seconds at the latest. A request that gets no HTTP answer in time is
\* settled like one that fails at once, a fetch too: only an answer is projected.
Settle ==
  /\ flight # NoButton /\ flight' = NoButton /\ busy' = NoButton
  /\ UNCHANGED <<owned, updates, shown, arming, fired>>
  /\ \/ RefreshIfVisible
     \/ busy.act \in {"fetch", "preview"} /\ (Projected(busy) \/ Note)

-----------------------------------------------------------------------------
(* The rider and the club.                                                 *)

Toggle ==
  /\ visible' = ~visible
  /\ UNCHANGED <<owned, updates, section, arming, busy, flight, fired>>
  /\ RefreshIfVisible

Open(s) ==
  /\ visible /\ section' = s /\ armed' = NoButton
  /\ UNCHANGED <<owned, updates, visible, fresh, fired>>
  /\ IF s \in Fetched
     THEN Send(Fetch(s), box' = {} /\ confirms' = {} /\ yard' = {})
     ELSE Refresh /\ UNCHANGED <<busy, flight>>

\* A button of the yard, of the honours or the preview: one tap.
Tap(b) ==
  /\ visible /\ b \in (IF section = "YARD" THEN yard ELSE box)
  /\ b \notin TwoTaps
  /\ UNCHANGED <<owned, updates, shown, arming, fired>>
  /\ Send(b, UNCHANGED drawn)

\* _confirm_action: the second tap within the window fires what the first one armed.
ArmUnseen(b) ==
  /\ ~(armed = b /\ fresh)
  /\ armed' = b /\ fresh' = TRUE
  /\ UNCHANGED <<owned, updates, shown, busy, flight, fired, drawn>>
Arm(b) ==
  /\ ~(armed = b /\ fresh)
  /\ armed' = b /\ fresh' = TRUE
  /\ UNCHANGED <<owned, updates, shown, busy, flight, fired>>
  /\ Refresh

Fire(b) ==
  /\ armed = b /\ fresh
  /\ armed' = NoButton /\ fired' = [button |-> b, confirmed |-> b \in confirms]
  /\ UNCHANGED <<owned, updates, shown, fresh>>
  /\ Send(b, UNCHANGED drawn)

ConfirmAction(b) ==
  /\ visible /\ section # "YARD" /\ b \in box /\ b \in TwoTaps
  /\ Arm(b) \/ Fire(b)

WindowCloses ==
  /\ fresh /\ fresh' = FALSE
  /\ UNCHANGED <<owned, updates, shown, armed, drawn, busy, flight, fired>>

UpdateUnseen ==
  /\ updates < MaxUpdates /\ updates' = updates + 1
  /\ owned' \in SUBSET Stock
  /\ UNCHANGED <<shown, arming, drawn, busy, flight, fired>>
Update ==
  /\ updates < MaxUpdates /\ updates' = updates + 1
  /\ owned' \in SUBSET Stock
  /\ UNCHANGED <<shown, arming, busy, flight, fired>>
  /\ RefreshIfVisible

BoardNext ==
  \/ Toggle \/ WindowCloses \/ Update \/ Settle
  \/ \E s \in Sections : Open(s)
  \/ \E b \in Buttons : Tap(b) \/ ConfirmAction(b)

BoardSpec == BoardInit /\ [][BoardNext]_boardVars

-----------------------------------------------------------------------------

BoardTypeOK ==
  /\ owned \subseteq Stock /\ updates \in 0..MaxUpdates
  /\ visible \in BOOLEAN /\ section \in Sections
  /\ armed \in TwoTaps \cup {NoButton} /\ fresh \in BOOLEAN
  /\ yard \subseteq Buttons /\ box \subseteq Buttons /\ confirms \subseteq box \cap TwoTaps
  /\ busy \in Requests \cup {NoButton} /\ flight \in Requests \cup {NoButton}
  /\ fired \in [button : TwoTaps \cup {NoButton}, confirmed : BOOLEAN]

\* What moves coins or careers is sent only by a button that said CONFIRM when it was
\* tapped, though what it says was drawn earlier than what is armed was set.
FiresWereConfirmed == fired.confirmed

\* The carrier takes an answer for the request it asked: the two never part, whatever is
\* dropped, fails at once or times out.
AnswersTheRequest == busy = flight

\* An open board offers to feed, train, sell or retire only horses that are still the
\* rider's, wherever the answers of other sections were drawn meanwhile.
OffersOwnHorses ==
  visible => \A b \in yard \cup box : b.act \in {"care", "sell", "retire"} => b.horse \in owned
=============================================================================
