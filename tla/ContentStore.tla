---------------------------- MODULE ContentStore ----------------------------
(***************************************************************************)
(* What the content-addressed store promises its clients, without          *)
(* staging, locks, proofs or builds: one accepted package per address,     *)
(* immutable from the moment it is accepted.  Only damage from outside     *)
(* changes an accepted package, and only a package that no longer carries  *)
(* its proof may be removed to make room for another.                      *)
(***************************************************************************)
CONSTANTS
  Clients,      \* whoever asks the store for a package
  Keys,         \* content addresses
  Contents,     \* what the files of a package may hold
  Spoiled,      \* files that are no longer what was accepted
  Empty         \* nothing under an address, or no answer yet

VARIABLES
  ask,          \* [Clients -> [key, stored, makes]]: the address a client wants,
                \*   whether its package may be stored, and what it would build
  cell,         \* [Keys -> {Empty} \cup [files, vouched]]
  told          \* [Clients -> {Empty} \cup Contents]: the package a client was given

sVars == <<ask, cell, told>>

Cell == [files : Contents \cup {Spoiled}, vouched : BOOLEAN]

Init ==
  /\ ask \in [Clients -> [key : Keys, stored : BOOLEAN, makes : Contents]]
  /\ cell = [k \in Keys |-> Empty]
  /\ told = [c \in Clients |-> Empty]

Give(c, content) ==
  /\ told[c] = Empty
  /\ told' = [told EXCEPT ![c] = content]
  /\ UNCHANGED ask

\* A client is given the files that are under its address.
Get(c) ==
  LET held == cell[ask[c].key] IN
    /\ held # Empty
    /\ held.files # Spoiled
    /\ Give(c, held.files)
    /\ UNCHANGED cell

\* A client's own package is accepted under an empty address.
Put(c) ==
  /\ ask[c].stored
  /\ cell[ask[c].key] = Empty
  /\ cell' = [cell EXCEPT ![ask[c].key] = [files |-> ask[c].makes, vouched |-> TRUE]]
  /\ Give(c, ask[c].makes)

\* A client's own package is given without being accepted.
Keep(c) ==
  /\ ~ask[c].stored
  /\ Give(c, ask[c].makes)
  /\ UNCHANGED cell

\* A package that no longer carries its proof is removed.
Evict(k) ==
  /\ cell[k] # Empty
  /\ ~cell[k].vouched
  /\ cell' = [cell EXCEPT ![k] = Empty]
  /\ UNCHANGED <<ask, told>>

\* From outside: files or proof are changed, or the package is deleted.
Damage(k) ==
  /\ cell[k] # Empty
  /\ \E left \in {Empty} \cup {held \in Cell : ~held.vouched} :
       cell' = [cell EXCEPT ![k] = left]
  /\ UNCHANGED <<ask, told>>

Next ==
  \/ \E c \in Clients : Get(c) \/ Put(c) \/ Keep(c)
  \/ \E k \in Keys : Evict(k) \/ Damage(k)

Spec == Init /\ [][Next]_sVars
=============================================================================
