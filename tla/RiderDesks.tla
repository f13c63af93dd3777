----------------------------- MODULE RiderDesks -----------------------------
(***************************************************************************)
(* The desks a rider sits at between races, side by side: the training     *)
(* panel with the stable's door, and the board with its two taps.          *)
(***************************************************************************)
EXTENDS RiderDesk, StableBoard

\* What the rider's desks may not do, however late the club's messages come: the
\* training panel with the stable's door, and the board with its two taps.
DesksSafe ==
  /\ DeskTypeOK /\ OneDesk /\ LeftIsLeft
  /\ BoardTypeOK /\ FiresWereConfirmed /\ AnswersTheRequest /\ OffersOwnHorses
=============================================================================
