------------------------- MODULE RecipeStore_proofs -------------------------
(***************************************************************************)
(* The recipe cache for any number of cooks, addresses, kills and edits:   *)
(* its types, its lock, its answers, the fate of its builds, and that it   *)
(* implements ContentStore.                                                *)
(*                                                                         *)
(* The lock needs nothing but types.  That answers stand rests on what is  *)
(* true of a cook between reading a proof and hashing the files: unless    *)
(* the address was tampered with, the proof it holds is still the one on   *)
(* disk, or the entry was quarantined as invalid and what is there now, if *)
(* anything, is valid (HeldCurrent).                                       *)
(***************************************************************************)
EXTENDS RecipeStore, TLAPS

-----------------------------------------------------------------------------
(* Types.                                                                  *)

\* A cook that verifies has read a proof.
HeldReady == \A c \in Cooks : pc[c] = "verifying" => held[c] \in Held

TypedInv == TypeOK /\ HeldReady

LEMMA BytesAreContents == \A c \in Cooks : Bytes[c] \in Contents
  BY StoreAssumption

LEMMA InitTyped == Init => TypedInv
<1> SUFFICES ASSUME Init PROVE TypedInv
  OBVIOUS
<1>1. TypeOK
  BY StoreAssumption DEF Init, TypeOK, Steps, Critical, Ended, Causes
<1>2. HeldReady
  BY DEF Init, HeldReady
<1> QED BY <1>1, <1>2 DEF TypedInv

\* The address of a cook is one of the addresses.
LEMMA KeyTyped == ASSUME TypeOK, NEW c \in Cooks PROVE KeyOf(c) \in Keys
  BY StoreAssumption DEF TypeOK, KeyOf, Request

LEMMA BuiltTyped == ASSUME NEW c \in Cooks PROVE Built(c) \in Package
  BY BytesAreContents DEF Built, Package, Proof, ProofKinds, Readable

\* Files that verification accepts are what a build yields.
LEMMA AcceptedFiles ==
  ASSUME NEW k \in Keys, NEW proof \in Proof, NEW package, VerifyEntry(k, proof, package)
  PROVE package.files \in Contents /\ package # Empty
  BY BytesAreContents DEF VerifyEntry, Proof

LEMMA TamperedTyped ==
  ASSUME NEW package \in Package, NEW left \in Tampered(package)
  PROVE left \in Package \cup {Empty}
<1>1. CASE left = Empty
  BY <1>1
<1>2. ASSUME NEW kind \in ProofKinds, left = [package EXCEPT !.proof.kind = kind] PROVE left \in Package
  BY <1>2 DEF Package, Proof
<1>3. CASE left = [package EXCEPT !.files = Spoiled]
  BY <1>3 DEF Package
<1> QED BY <1>1, <1>2, <1>3 DEF Tampered

LEMMA NextTyped == TypedInv /\ [Next]_vars => TypedInv'
<1> SUFFICES ASSUME TypedInv, [Next]_vars PROVE TypedInv'
  OBVIOUS
<1> USE DEF TypedInv
<1>u. CASE UNCHANGED vars
  BY <1>u DEF vars, TypeOK, HeldReady
<1>c. ASSUME NEW c \in Cooks, CookStep(c) \/ Crash(c) PROVE TypedInv'
  <2> DEFINE k == KeyOf(c)
  <2>k. k \in Keys
    BY KeyTyped
  <2>b. Bytes[c] \in Contents /\ Built(c) \in Package
    BY BytesAreContents, BuiltTyped
  <2>t. tampers[k] \in 0 .. MaxTampers /\ objects[k] \in Package \cup {Empty}
    BY <2>k DEF TypeOK
  <2> HIDE DEF k
  <2> USE <2>k, <2>b, <2>t DEF TypeOK, HeldReady, At, Fails, Answer, Steps, Critical, Ended, Causes
  <2>1. CASE LookUp(c)
    BY <2>1 DEF LookUp, Miss, ReadProof, ReadMalformed, Held, k, ProofAt, Readable, Package
  <2>2. CASE Verify(c)
    <3>1. CASE Hit(c)
      <4>1. held[c] \in Held
        BY <3>1 DEF Hit
      <4>2. objects[k].files \in Contents /\ held[c].at \in 0 .. MaxTampers
        BY <3>1, <4>1, AcceptedFiles DEF Hit, k, Held
      <4> QED BY <3>1, <2>2, <4>2 DEF Verify, Hit, Given, k
    <3>2. CASE FallThrough(c)
      BY <3>2, <2>2 DEF Verify, FallThrough
    <3> QED BY <2>2, <3>1, <3>2 DEF Verify
  <2>3. CASE StartForge(c)
    BY <2>3 DEF StartForge, NoForge, WrongToolchain, OpenStaging
  <2>4. CASE Build(c)
    BY <2>4 DEF Build, BuildFails, Refused, ToPublish, Ephemeral, Given, k
  <2>5. CASE KeepFailure(c)
    BY <2>5 DEF KeepFailure, k
  <2>6. CASE Lock(c)
    BY <2>6, StoreAssumption DEF Lock, TakeLock, WaitForLock, LockTimeout
  <2>7. CASE LookAgain(c)
    <3>1. CASE Vacant(c)
      BY <3>1, <2>7 DEF LookAgain, Vacant
    <3>2. CASE Reuse(c)
      <4>1. objects[k].files \in Contents
        BY <3>2, AcceptedFiles DEF Reuse, Valid, k, Package
      <4> QED BY <3>2, <2>7, <4>1 DEF LookAgain, Reuse, Given, k
    <3>3. CASE UnreadableEntry(c)
      BY <3>3, <2>7 DEF LookAgain, UnreadableEntry
    <3>4. CASE Quarantine(c)
      <4>1. objects[k] \in Package
        BY <3>4 DEF Quarantine, ProofAt, Readable, k
      <4> QED BY <3>4, <2>7, <4>1 DEF LookAgain, Quarantine, k
    <3> QED BY <2>7, <3>1, <3>2, <3>3, <3>4 DEF LookAgain
  <2>8. CASE Publish(c)
    BY <2>8 DEF Publish, Given, k
  <2>9. CASE Unlock(c)
    BY <2>9 DEF Unlock
  <2>10. CASE Crash(c)
    BY <2>10, StoreAssumption DEF Crash
  <2> QED BY <1>c, <2>1, <2>2, <2>3, <2>4, <2>5, <2>6, <2>7, <2>8, <2>9, <2>10 DEF CookStep
<1>t. ASSUME NEW k \in Keys, Tamper(k) PROVE TypedInv'
  <2>1. PICK left \in Tampered(objects[k]) : objects' = [objects EXCEPT ![k] = left]
    BY <1>t DEF Tamper
  <2>2. left \in Package \cup {Empty}
    BY <1>t, <2>1, TamperedTyped DEF Tamper, TypeOK
  <2> QED BY <1>t, <2>1, <2>2, StoreAssumption DEF Tamper, TypeOK, HeldReady
<1> QED BY <1>u, <1>c, <1>t DEF Next

\* Every directory of the cache and every cook's local state stay of their types, for
\* any number of cooks, addresses, kills and edits.
THEOREM TypeCorrect == Spec => []TypeOK
<1>1. Spec => []TypedInv
  BY InitTyped, NextTyped, PTL DEF Spec
<1> QED BY <1>1, PTL DEF TypedInv

-----------------------------------------------------------------------------
(* The lock.                                                               *)

\* No step changes what a cook was asked, so its address is its address for ever.
LEMMA SameKey ==
  ASSUME [Next]_vars PROVE request' = request /\ \A c \in Cooks : KeyOf(c)' = KeyOf(c)
  BY DEF Next, vars, CookStep, LookUp, Verify, StartForge, Build, KeepFailure, Lock,
         LookAgain, Publish, Unlock, Crash, Tamper, KeyOf

\* What a step of a cook does to its place and to the lock of its address: the
\* lock is untouched and the cook stays on its side of it or is killed, the cook
\* takes it, or it releases it.
Stays(c) ==
  /\ lock' = lock
  /\ \E to \in Steps :
       /\ pc' = [pc EXCEPT ![c] = to]
       /\ pc[c] # "crashed"
       /\ to \in Critical => pc[c] \in Critical
       /\ pc[c] \in Critical => to \in Critical \cup {"crashed"}

Enters(c) ==
  /\ lock[KeyOf(c)] = Free
  /\ lock' = [lock EXCEPT ![KeyOf(c)] = c]
  /\ pc' = [pc EXCEPT ![c] = "locked"]

Leaves(c) ==
  /\ pc[c] = "unlocking"
  /\ lock' = [lock EXCEPT ![KeyOf(c)] = Free]
  /\ \E to \in {"done", "raised"} : pc' = [pc EXCEPT ![c] = to]

LEMMA LockMoves ==
  ASSUME TypeOK, NEW c \in Cooks, CookStep(c) \/ Crash(c)
  PROVE  Stays(c) \/ Enters(c) \/ Leaves(c)
<1> USE DEF Stays, Enters, Leaves
<1> USE DEF At, Fails, Steps, Critical, Ended, TypeOK
<1>1. CASE LookUp(c)
  BY <1>1 DEF LookUp, Miss, ReadProof, ReadMalformed
<1>2. CASE Verify(c)
  BY <1>2 DEF Verify, Hit, FallThrough
<1>3. CASE StartForge(c)
  BY <1>3 DEF StartForge, NoForge, WrongToolchain, OpenStaging
<1>4. CASE Build(c)
  BY <1>4 DEF Build, BuildFails, Refused, ToPublish, Ephemeral
<1>5. CASE KeepFailure(c)
  BY <1>5 DEF KeepFailure
<1>6. CASE Lock(c)
  <2>1. CASE TakeLock(c)
    BY <2>1 DEF TakeLock
  <2>2. CASE WaitForLock(c)
    BY <2>2 DEF WaitForLock
  <2>3. CASE LockTimeout(c)
    BY <2>3 DEF LockTimeout
  <2> QED BY <1>6, <2>1, <2>2, <2>3 DEF Lock
<1>7. CASE LookAgain(c)
  BY <1>7 DEF LookAgain, Vacant, Reuse, UnreadableEntry, Quarantine
<1>8. CASE Publish(c)
  BY <1>8 DEF Publish
<1>9. CASE Unlock(c)
  BY <1>9 DEF Unlock
<1>10. CASE Crash(c)
  BY <1>10 DEF Crash
<1> QED BY <1>1, <1>2, <1>3, <1>4, <1>5, <1>6, <1>7, <1>8, <1>9, <1>10 DEF CookStep

LEMMA InitLock == Init => LockDiscipline
  BY DEF Init, LockDiscipline, Critical

LEMMA NextLock == TypeOK /\ LockDiscipline /\ [Next]_vars => LockDiscipline'
<1> SUFFICES ASSUME TypeOK, LockDiscipline, [Next]_vars PROVE LockDiscipline'
  OBVIOUS
<1>k. request' = request /\ \A c \in Cooks : KeyOf(c)' = KeyOf(c) /\ KeyOf(c) \in Keys
  BY SameKey, KeyTyped
<1>f. Free \notin Cooks
  BY StoreAssumption
<1>c. ASSUME NEW c \in Cooks, CookStep(c) \/ Crash(c) PROVE LockDiscipline'
  <2>1. CASE Stays(c)
    BY <1>k, <2>1 DEF Stays, LockDiscipline, TypeOK, KeyOf
  <2>2. CASE Enters(c)
    BY <1>k, <1>f, <2>2 DEF Enters, LockDiscipline, TypeOK, Critical, KeyOf
  <2>3. CASE Leaves(c)
    BY <1>k, <1>f, <2>3 DEF Leaves, LockDiscipline, TypeOK, Critical, KeyOf
  <2> QED BY <1>c, <2>1, <2>2, <2>3, LockMoves
<1>t. ASSUME NEW k \in Keys, Tamper(k) PROVE LockDiscipline'
  BY <1>t, <1>k DEF Tamper, LockDiscipline, KeyOf
<1>u. CASE UNCHANGED vars
  BY <1>u, <1>k DEF vars, LockDiscipline, KeyOf
<1> QED BY <1>c, <1>t, <1>u DEF Next

\* One builder per address (the purpose of _KeyLock), whoever is killed, waits or
\* gives up.
THEOREM OneBuilderPerAddress == Spec => []LockDiscipline
<1>1. Init => TypedInv /\ LockDiscipline
  BY InitTyped, InitLock
<1>2. (TypedInv /\ LockDiscipline) /\ [Next]_vars => (TypedInv /\ LockDiscipline)'
  BY NextTyped, NextLock DEF TypedInv
<1> QED BY <1>1, <1>2, PTL DEF Spec

-----------------------------------------------------------------------------
(* Answers.                                                                *)

\* A cook that goes to the lock has verified its package and may store it; one
\* that is still at work was told nothing.
AtWork ==
  \A c \in Cooks :
    /\ pc[c] \in {"locking", "locked", "publishing"} => GatesAgree(KeyOf(c)) /\ Cacheable(c)
    /\ pc[c] \notin {"unlocking", "done", "raised", "crashed"} => answer[c] = Empty

\* Stamps are not from the future.
Stamped ==
  \A c \in Cooks :
    /\ pc[c] = "verifying" => held[c].at <= tampers[KeyOf(c)]
    /\ answer[c] # Empty => answer[c].at <= tampers[KeyOf(c)]

\* The proof a cook has read is, unless somebody tampered with the address since,
\* still the one there, or others quarantined that package, and perhaps
\* published a valid one.
HeldCurrent ==
  \A c \in Cooks :
    pc[c] = "verifying" /\ held[c].at = tampers[KeyOf(c)] =>
      \/ objects[KeyOf(c)] = Empty
      \/ objects[KeyOf(c)].proof = held[c].proof
      \/ Valid(KeyOf(c))

StoreInv == TypedInv /\ AtWork /\ Stamped /\ HeldCurrent /\ AnswersStand

LEMMA InitStore == Init => StoreInv
<1> SUFFICES ASSUME Init PROVE StoreInv
  OBVIOUS
<1>1. AtWork /\ Stamped /\ HeldCurrent /\ AnswersStand
  BY DEF Init, AtWork, Stamped, HeldCurrent, AnswersStand
<1> QED BY <1>1, InitTyped DEF StoreInv

LEMMA NextAtWork == TypedInv /\ AtWork /\ [Next]_vars => AtWork'
<1> SUFFICES ASSUME TypedInv, AtWork, [Next]_vars PROVE AtWork'
  OBVIOUS
<1> USE DEF TypedInv
<1>k. /\ request' = request
      /\ \A c \in Cooks : KeyOf(c)' = KeyOf(c) /\ Cacheable(c)' = Cacheable(c)
  BY SameKey DEF Cacheable
<1>g. \A k \in Keys : GatesAgree(k)' = GatesAgree(k)
  BY DEF GatesAgree
<1>c. ASSUME NEW c \in Cooks, CookStep(c) \/ Crash(c) PROVE AtWork'
  <2> USE <1>k DEF TypeOK, AtWork, At, Fails, Answer, Steps, Critical, Ended
  <2>1. CASE LookUp(c)
    BY <2>1 DEF LookUp, Miss, ReadProof, ReadMalformed
  <2>2. CASE Verify(c)
    BY <2>2 DEF Verify, Hit, FallThrough
  <2>3. CASE StartForge(c)
    BY <2>3 DEF StartForge, NoForge, WrongToolchain, OpenStaging
  <2>4. CASE Build(c)
    BY <2>4 DEF Build, BuildFails, Refused, ToPublish, Ephemeral
  <2>5. CASE KeepFailure(c)
    BY <2>5 DEF KeepFailure
  <2>6. CASE Lock(c)
    BY <2>6 DEF Lock, TakeLock, WaitForLock, LockTimeout
  <2>7. CASE LookAgain(c)
    BY <2>7 DEF LookAgain, Vacant, Reuse, UnreadableEntry, Quarantine
  <2>8. CASE Publish(c)
    BY <2>8 DEF Publish
  <2>9. CASE Unlock(c)
    BY <2>9 DEF Unlock
  <2>10. CASE Crash(c)
    BY <2>10 DEF Crash
  <2> QED BY <1>c, <2>1, <2>2, <2>3, <2>4, <2>5, <2>6, <2>7, <2>8, <2>9, <2>10 DEF CookStep
<1>t. ASSUME NEW k \in Keys, Tamper(k) PROVE AtWork'
  BY <1>t, <1>k DEF Tamper, AtWork
<1>u. CASE UNCHANGED vars
  BY <1>u, <1>k DEF vars, AtWork
<1> QED BY <1>c, <1>t, <1>u DEF Next

\* What a step of a cook does to the store: nothing, an eviction of what is not
\* valid, or the publication of its package under an empty address.
StoreMove(c) ==
  \/ objects' = objects
  \/ ~Valid(KeyOf(c)) /\ objects' = [objects EXCEPT ![KeyOf(c)] = Empty]
  \/ /\ objects[KeyOf(c)] = Empty
     /\ GatesAgree(KeyOf(c))
     /\ objects' = [objects EXCEPT ![KeyOf(c)] = Built(c)]

LEMMA StoreMoves ==
  ASSUME TypedInv, AtWork, NEW c \in Cooks, CookStep(c) \/ Crash(c)
  PROVE  tampers' = tampers /\ StoreMove(c)
<1> USE DEF StoreMove
<1>1. CASE LookAgain(c)
  BY <1>1 DEF LookAgain, Vacant, Reuse, UnreadableEntry, Quarantine
<1>2. CASE Publish(c)
  <2>1. GatesAgree(KeyOf(c))
    BY <1>2 DEF Publish, At, AtWork
  <2>2. KeyOf(c) \in Keys
    BY KeyTyped DEF TypedInv
  <2> QED BY <1>2, <2>1, <2>2 DEF Publish, TypedInv, TypeOK
<1> QED BY <1>1, <1>2 DEF CookStep, LookUp, Verify, StartForge, Build, KeepFailure, Lock, Unlock, Crash

\* A package that is published is valid.
LEMMA PublishedValid ==
  ASSUME TypedInv, NEW c \in Cooks, GatesAgree(KeyOf(c)),
         objects' = [objects EXCEPT ![KeyOf(c)] = Built(c)]
  PROVE  /\ VerifyEntry(KeyOf(c), objects'[KeyOf(c)].proof, objects'[KeyOf(c)])
         /\ objects'[KeyOf(c)].files = Bytes[c]
         /\ objects'[KeyOf(c)] # Empty
<1>1. KeyOf(c) \in Keys
  BY KeyTyped DEF TypedInv
<1>2. objects'[KeyOf(c)] = Built(c)
  BY <1>1 DEF TypedInv, TypeOK
<1>3. Built(c) # Empty
  BY BuiltTyped, EmptyIsNothing
<1> QED BY <1>2, <1>3 DEF VerifyEntry, Built

\* What a step of a cook does to its answer: nothing, or it is told of a package
\* that stands, unless it is one that may not be stored.
AnswerMove(c) ==
  \/ answer' = answer
  \/ \E given \in Given :
       /\ answer' = [answer EXCEPT ![c] = given]
       /\ given.at <= tampers[KeyOf(c)]
       /\ given.kind # "ephemeral" /\ given.at = tampers[KeyOf(c)] =>
            /\ objects'[KeyOf(c)] # Empty
            /\ VerifyEntry(KeyOf(c), objects'[KeyOf(c)].proof, objects'[KeyOf(c)])
            /\ objects'[KeyOf(c)].files = given.files

LEMMA AnswerMoves ==
  ASSUME TypedInv, AtWork, Stamped, HeldCurrent, NEW c \in Cooks, CookStep(c) \/ Crash(c)
  PROVE  AnswerMove(c)
<1> DEFINE k == KeyOf(c)
<1>k. k \in Keys
  BY KeyTyped DEF TypedInv
<1>t. tampers[k] \in 0 .. MaxTampers /\ MaxTampers \in Nat
  BY <1>k, StoreAssumption DEF TypedInv, TypeOK
<1>1. CASE Hit(c) /\ Verify(c)
  <2> DEFINE given == [kind |-> "hit", files |-> objects[k].files, at |-> held[c].at]
  <2>1. pc[c] = "verifying" /\ held[c] \in Held
    BY <1>1 DEF Hit, At, TypedInv, HeldReady
  <2>2. given \in Given
    BY <1>1, <2>1, AcceptedFiles, <1>k DEF Hit, Held, Given
  <2>3. VerifyEntry(k, held[c].proof, objects[k]) /\ objects' = objects
    BY <1>1 DEF Hit, Verify
  <2>4. ASSUME held[c].at = tampers[k] PROVE Valid(k)
    BY <2>1, <2>3, <2>4 DEF HeldCurrent, Valid, VerifyEntry
  <2>5. given.at <= tampers[k]
    BY <2>1 DEF Stamped
  <2>6. answer' = [answer EXCEPT ![c] = given]
    BY <1>1 DEF Hit, Answer
  <2> QED BY <2>2, <2>3, <2>4, <2>5, <2>6 DEF AnswerMove, Valid
<1>2. CASE Ephemeral(c)
  <2> DEFINE given == [kind |-> "ephemeral", files |-> Bytes[c], at |-> tampers[k]]
  <2>1. given \in Given /\ given.at <= tampers[k] /\ given.kind = "ephemeral"
    BY <1>t, BytesAreContents DEF Given
  <2>2. answer' = [answer EXCEPT ![c] = given]
    BY <1>2 DEF Ephemeral, Answer
  <2> QED BY <2>1, <2>2 DEF AnswerMove
<1>3. CASE Reuse(c)
  <2> DEFINE given == [kind |-> "hit", files |-> objects[k].files, at |-> tampers[k]]
  <2>1. Valid(k) /\ objects' = objects /\ objects[k] \in Package
    BY <1>3, <1>k DEF Reuse, Valid, TypedInv, TypeOK
  <2>2. objects[k].files \in Contents
    BY <2>1, <1>k, AcceptedFiles DEF Valid, Package
  <2>3. given \in Given /\ given.at <= tampers[k]
    BY <1>t, <2>2 DEF Given
  <2>4. answer' = [answer EXCEPT ![c] = given]
    BY <1>3 DEF Reuse, Answer
  <2> QED BY <2>1, <2>3, <2>4 DEF AnswerMove, Valid
<1>4. CASE Publish(c)
  <2>1. CASE objects[k] = Empty
    <3> DEFINE given == [kind |-> "published", files |-> Bytes[c], at |-> tampers[k]]
    <3>1. given \in Given /\ given.at <= tampers[k]
      BY <1>t, BytesAreContents DEF Given
    <3>2. answer' = [answer EXCEPT ![c] = given]
      BY <1>4, <2>1 DEF Publish, Answer
    <3>3. GatesAgree(k)
      BY <1>4 DEF Publish, At, AtWork
    <3>4. objects' = [objects EXCEPT ![k] = Built(c)]
      BY <1>4, <2>1 DEF Publish
    <3> QED BY <3>1, <3>2, <3>3, <3>4, PublishedValid DEF AnswerMove
  <2>2. CASE objects[k] # Empty
    BY <1>4, <2>2 DEF Publish, AnswerMove
  <2> QED BY <2>1, <2>2
<1>5. CASE answer' = answer
  BY <1>5 DEF AnswerMove
<1> QED BY <1>1, <1>2, <1>3, <1>4, <1>5
        DEF CookStep, LookUp, Verify, FallThrough, StartForge, Build, BuildFails, Refused,
            ToPublish, KeepFailure, Lock, LookAgain, Vacant, UnreadableEntry, Quarantine,
            Unlock, Crash

\* What a step of a cook does to what it has read: if it is verifying after the
\* step, it has just read the proof that is there.
LEMMA HeldMoves ==
  ASSUME TypedInv, NEW c \in Cooks, CookStep(c) \/ Crash(c)
  PROVE  /\ \A x \in Cooks \ {c} : pc'[x] = pc[x] /\ held'[x] = held[x]
         /\ pc'[c] = "verifying" =>
              held'[c] = [proof |-> objects[KeyOf(c)].proof, at |-> tampers[KeyOf(c)]] /\ objects' = objects
<1> USE DEF TypedInv, TypeOK, At, Fails
<1>1. CASE LookUp(c)
  BY <1>1 DEF LookUp, Miss, ReadProof, ReadMalformed
<1>2. CASE Verify(c)
  BY <1>2 DEF Verify, Hit, FallThrough
<1>3. CASE StartForge(c)
  BY <1>3 DEF StartForge, NoForge, WrongToolchain, OpenStaging
<1>4. CASE Build(c)
  BY <1>4 DEF Build, BuildFails, Refused, ToPublish, Ephemeral
<1>5. CASE KeepFailure(c)
  BY <1>5 DEF KeepFailure
<1>6. CASE Lock(c)
  BY <1>6 DEF Lock, TakeLock, WaitForLock, LockTimeout
<1>7. CASE LookAgain(c)
  BY <1>7 DEF LookAgain, Vacant, Reuse, UnreadableEntry, Quarantine
<1>8. CASE Publish(c)
  BY <1>8 DEF Publish
<1>9. CASE Unlock(c)
  BY <1>9 DEF Unlock
<1>10. CASE Crash(c)
  BY <1>10 DEF Crash
<1> QED BY <1>1, <1>2, <1>3, <1>4, <1>5, <1>6, <1>7, <1>8, <1>9, <1>10 DEF CookStep

LEMMA NextStore == StoreInv /\ [Next]_vars => StoreInv'
<1> SUFFICES ASSUME StoreInv, [Next]_vars PROVE StoreInv'
  OBVIOUS
<1> USE DEF StoreInv
<1>k. \A x \in Cooks : KeyOf(x)' = KeyOf(x) /\ KeyOf(x) \in Keys
  BY SameKey, KeyTyped DEF TypedInv
<1>o. objects \in [Keys -> Package \cup {Empty}] /\ tampers \in [Keys -> 0 .. MaxTampers]
  BY DEF TypedInv, TypeOK
<1>n. answer \in [Cooks -> Given \cup {Empty}] /\ MaxTampers \in Nat
  BY StoreAssumption DEF TypedInv, TypeOK
<1>w. TypedInv' /\ AtWork'
  BY NextTyped, NextAtWork
<1>c. ASSUME NEW c \in Cooks, CookStep(c) \/ Crash(c) PROVE (Stamped /\ HeldCurrent /\ AnswersStand)'
  <2>1. tampers' = tampers /\ StoreMove(c)
    BY <1>c, StoreMoves
  <2>2. AnswerMove(c)
    BY <1>c, AnswerMoves
  <2>3. /\ \A x \in Cooks \ {c} : pc'[x] = pc[x] /\ held'[x] = held[x]
        /\ pc'[c] = "verifying" =>
             held'[c] = [proof |-> objects[KeyOf(c)].proof, at |-> tampers[KeyOf(c)]] /\ objects' = objects
    BY <1>c, HeldMoves
  <2>v. \A k \in Keys : Valid(k) =>
           VerifyEntry(k, objects'[k].proof, objects'[k]) /\ objects'[k] = objects[k] /\ objects'[k] # Empty
    <3>1. CASE objects' = objects
      BY <3>1 DEF Valid
    <3>2. CASE ~Valid(KeyOf(c)) /\ objects' = [objects EXCEPT ![KeyOf(c)] = Empty]
      BY <3>2, <1>o DEF Valid
    <3>3. CASE objects[KeyOf(c)] = Empty /\ objects' = [objects EXCEPT ![KeyOf(c)] = Built(c)]
      BY <3>3, <1>o DEF Valid
    <3> QED BY <3>1, <3>2, <3>3, <2>1 DEF StoreMove
  <2>4. Stamped'
    <3>1. ASSUME NEW x \in Cooks, pc'[x] = "verifying" PROVE held'[x].at <= tampers'[KeyOf(x)]
      BY <3>1, <2>1, <2>3, <1>k, <1>o, <1>n DEF Stamped
    <3>2. ASSUME NEW x \in Cooks, answer'[x] # Empty PROVE answer'[x].at <= tampers'[KeyOf(x)]
      BY <3>2, <2>1, <2>2, <1>n DEF Stamped, AnswerMove
    <3> QED BY <3>1, <3>2, <1>k DEF Stamped
  <2>5. HeldCurrent'
    <3> SUFFICES ASSUME NEW x \in Cooks, pc'[x] = "verifying", held'[x].at = tampers'[KeyOf(x)]
                 PROVE  \/ objects'[KeyOf(x)] = Empty
                        \/ objects'[KeyOf(x)].proof = held'[x].proof
                        \/ VerifyEntry(KeyOf(x), objects'[KeyOf(x)].proof, objects'[KeyOf(x)])
      BY <1>k DEF HeldCurrent, Valid
    <3>1. CASE x = c
      BY <3>1, <2>3
    <3>2. CASE x # c /\ Valid(KeyOf(x))
      BY <3>2, <2>v, <1>k
    <3>3. CASE x # c /\ ~Valid(KeyOf(x))
      <4>1. \/ objects[KeyOf(x)] = Empty
            \/ objects[KeyOf(x)].proof = held[x].proof
        BY <3>3, <2>1, <2>3 DEF HeldCurrent
      <4>2. CASE objects' = objects
        BY <4>1, <4>2, <2>3, <3>3
      <4>3. CASE objects' = [objects EXCEPT ![KeyOf(c)] = Empty]
        BY <4>1, <4>3, <2>3, <3>3, <1>o, <1>k
      <4>4. CASE GatesAgree(KeyOf(c)) /\ objects' = [objects EXCEPT ![KeyOf(c)] = Built(c)]
        <5>1. CASE KeyOf(x) = KeyOf(c)
          BY <4>4, <5>1, PublishedValid
        <5>2. CASE KeyOf(x) # KeyOf(c)
          BY <4>1, <4>4, <5>2, <2>3, <3>3, <1>o, <1>k
        <5> QED BY <5>1, <5>2
      <4> QED BY <4>2, <4>3, <4>4, <2>1 DEF StoreMove
    <3> QED BY <3>1, <3>2, <3>3
  <2>6. AnswersStand'
    <3> SUFFICES ASSUME NEW x \in Cooks, answer'[x] # Empty, answer'[x].kind # "ephemeral",
                        answer'[x].at = tampers'[KeyOf(x)]
                 PROVE  /\ objects'[KeyOf(x)] # Empty
                        /\ VerifyEntry(KeyOf(x), objects'[KeyOf(x)].proof, objects'[KeyOf(x)])
                        /\ objects'[KeyOf(x)].files = answer'[x].files
      BY <1>k DEF AnswersStand, Valid
    <3>1. CASE answer'[x] = answer[x]
      <4>1. Valid(KeyOf(x)) /\ objects[KeyOf(x)].files = answer[x].files
        BY <3>1, <2>1 DEF AnswersStand
      <4> QED BY <3>1, <4>1, <2>v, <1>k
    <3>2. CASE answer'[x] # answer[x]
      BY <3>2, <2>1, <2>2, <1>n DEF AnswerMove
    <3> QED BY <3>1, <3>2
  <2> QED BY <2>4, <2>5, <2>6
<1>t. ASSUME NEW k \in Keys, Tamper(k) PROVE (Stamped /\ HeldCurrent /\ AnswersStand)'
  <2>1. /\ tampers' = [tampers EXCEPT ![k] = @ + 1]
        /\ \A j \in Keys \ {k} : objects'[j] = objects[j] /\ tampers'[j] = tampers[j]
        /\ UNCHANGED <<pc, held, answer>>
        /\ tampers'[k] = tampers[k] + 1
    BY <1>t, <1>o, <1>n DEF Tamper
  <2>2. ASSUME NEW x \in Cooks, pc[x] = "verifying" PROVE held[x] \in Held
    BY <2>2 DEF TypedInv, HeldReady
  <2>3. \A x \in Cooks : pc[x] = "verifying" => held[x].at \in Nat /\ held[x].at <= tampers[KeyOf(x)]
    BY <2>2, <1>n DEF Held, Stamped
  <2>4. \A x \in Cooks : answer[x] # Empty => answer[x].at \in Nat /\ answer[x].at <= tampers[KeyOf(x)]
    BY <1>n DEF Given, Stamped
  <2>5. \A j \in Keys : tampers[j] \in Nat
    BY <1>o, <1>n
  <2>6. Stamped'
    BY <2>1, <2>3, <2>4, <2>5, <1>k DEF Stamped
  <2>7. HeldCurrent'
    BY <2>1, <2>3, <2>5, <1>k DEF HeldCurrent, Valid
  <2>8. AnswersStand'
    BY <2>1, <2>4, <2>5, <1>k DEF AnswersStand, Valid
  <2> QED BY <2>6, <2>7, <2>8
<1>u. ASSUME UNCHANGED vars PROVE (Stamped /\ HeldCurrent /\ AnswersStand)'
  <2>1. UNCHANGED <<pc, held, objects, answer, tampers>>
    BY <1>u DEF vars
  <2>2. Stamped'
    BY <2>1, <1>k DEF Stamped
  <2>3. HeldCurrent'
    BY <2>1, <1>k DEF HeldCurrent, Valid
  <2>4. AnswersStand'
    BY <2>1, <1>k DEF AnswersStand, Valid
  <2> QED BY <2>2, <2>3, <2>4
<1> QED BY <1>w, <1>c, <1>t, <1>u DEF Next

LEMMA StoreInvariant == Spec => []StoreInv
  BY InitStore, NextStore, PTL DEF Spec

\* What a cook was told stands until somebody tampers with the address: neither a
\* race to publish nor a quarantine replaces the package it was given ("Accepted
\* entries are immutable").
THEOREM AcceptedEntriesImmutable == Spec => []AnswersStand
  BY StoreInvariant, PTL DEF StoreInv

-----------------------------------------------------------------------------
(* Where builds end.                                                       *)

\* Before a cook opens its staging directory there is none, an exception has one
\* cause, and under the lock a cook that does not raise has moved or deleted its
\* package.
BuildsUnderWay ==
  \A c \in Cooks :
    /\ pc[c] \in {"lookup", "verifying", "starting"} => staging[c] = "none"
    /\ pc[c] \notin {"failing", "unlocking", "raised", "crashed"} => cause[c] = "none"
    /\ pc[c] = "unlocking" => cause[c] \in {"none", "unreadable", "collision"}
    /\ pc[c] = "unlocking" /\ cause[c] = "none" =>
         staging[c] = "none" /\ answer[c].kind # "ephemeral"

BuildsInv == BuildsUnderWay /\ BuildsAccountedFor

LEMMA InitBuilds == Init => BuildsInv
  BY DEF Init, BuildsInv, BuildsUnderWay, BuildsAccountedFor

LEMMA NextBuilds == TypedInv /\ BuildsInv /\ [Next]_vars => BuildsInv'
<1> SUFFICES ASSUME TypedInv, BuildsInv, [Next]_vars PROVE BuildsInv'
  OBVIOUS
<1> USE DEF TypedInv, BuildsInv, BuildsUnderWay, BuildsAccountedFor
<1>k. \A c \in Cooks : KeyOf(c)' = KeyOf(c)
  BY SameKey
<1>b. \A c \in Cooks : Built(c)' = Built(c)
  BY DEF Built
<1>c. ASSUME NEW c \in Cooks, CookStep(c) \/ Crash(c) PROVE BuildsInv'
  <2> USE <1>k, <1>b DEF TypeOK, At, Fails, Answer, Steps, Critical, Ended
  <2>1. CASE LookUp(c)
    BY <2>1 DEF LookUp, Miss, ReadProof, ReadMalformed
  <2>2. CASE Verify(c)
    BY <2>2 DEF Verify, Hit, FallThrough
  <2>3. CASE StartForge(c)
    BY <2>3 DEF StartForge, NoForge, WrongToolchain, OpenStaging
  <2>4. CASE Build(c)
    BY <2>4 DEF Build, BuildFails, Refused, ToPublish, Ephemeral
  <2>5. CASE KeepFailure(c)
    BY <2>5 DEF KeepFailure
  <2>6. CASE Lock(c)
    BY <2>6 DEF Lock, TakeLock, WaitForLock, LockTimeout
  <2>7. CASE LookAgain(c)
    BY <2>7 DEF LookAgain, Vacant, Reuse, UnreadableEntry, Quarantine
  <2>8. CASE Publish(c)
    BY <2>8 DEF Publish
  <2>9. CASE Unlock(c)
    BY <2>9 DEF Unlock
  <2>10. CASE Crash(c)
    BY <2>10 DEF Crash
  <2> QED BY <1>c, <2>1, <2>2, <2>3, <2>4, <2>5, <2>6, <2>7, <2>8, <2>9, <2>10 DEF CookStep
<1>t. ASSUME NEW k \in Keys, Tamper(k) PROVE BuildsInv'
  BY <1>t, <1>k, <1>b DEF Tamper
<1>u. CASE UNCHANGED vars
  BY <1>u, <1>k, <1>b DEF vars
<1> QED BY <1>c, <1>t, <1>u DEF Next

\* A failed build is in the failure store with its proof, and staging keeps only
\* what may not be stored ("proof of failure is still proof").
THEOREM BuildsEndSomewhere == Spec => []BuildsAccountedFor
<1>1. Init => TypedInv /\ BuildsInv
  BY InitTyped, InitBuilds
<1>2. (TypedInv /\ BuildsInv) /\ [Next]_vars => (TypedInv /\ BuildsInv)'
  BY NextTyped, NextBuilds
<1>3. TypedInv /\ BuildsInv => BuildsAccountedFor
  BY DEF BuildsInv
<1> QED BY <1>1, <1>2, <1>3, PTL DEF Spec

-----------------------------------------------------------------------------
(* The refinement of ContentStore.                                         *)

\* The variables of ContentStore, as RecipeStore maps them.
Asked == [c \in Cooks |-> [key |-> KeyOf(c), stored |-> Cacheable(c), makes |-> Bytes[c]]]

CellAt(k, package) ==
  IF package = Empty THEN Empty
  ELSE [files |-> package.files, vouched |-> package # Empty /\ VerifyEntry(k, package.proof, package)]

Cells == [k \in Keys |-> CellAt(k, objects[k])]

Told == [c \in Cooks |-> IF answer[c] = Empty THEN Empty ELSE answer[c].files]

LEMMA CellsAre ==
  Cells = [k \in Keys |-> IF objects[k] = Empty THEN Empty
                          ELSE [files |-> objects[k].files, vouched |-> Valid(k)]]
  BY DEF Cells, CellAt, Valid

\* A package is seen as something, with its files, vouched for if it verifies.
LEMMA CellFacts ==
  ASSUME NEW k \in Keys, NEW package \in Package
  PROVE  /\ CellAt(k, package) # Empty
         /\ CellAt(k, package).files = package.files
         /\ CellAt(k, package).vouched <=> VerifyEntry(k, package.proof, package)
<1> DEFINE vouched == package # Empty /\ VerifyEntry(k, package.proof, package)
<1>1. package # Empty
  BY EmptyIsNothing
<1>2. vouched \in BOOLEAN
  OBVIOUS
<1>3. vouched <=> VerifyEntry(k, package.proof, package)
  BY <1>1
<1>4. CellAt(k, package) = [files |-> package.files, vouched |-> vouched]
  BY <1>1 DEF CellAt
<1> HIDE DEF vouched
<1>5. CellAt(k, package) \in [files : Contents \cup {Spoiled}, vouched : BOOLEAN]
  BY <1>2, <1>4 DEF Package
<1> QED BY <1>3, <1>4, <1>5, EmptyIsNothing

LEMMA CellsMove ==
  ASSUME TypeOK, NEW k \in Keys, NEW package, objects' = [objects EXCEPT ![k] = package]
  PROVE  Cells' = [Cells EXCEPT ![k] = CellAt(k, package)]
<1>1. ASSUME NEW j \in Keys PROVE CellAt(j, objects'[j]) = [Cells EXCEPT ![k] = CellAt(k, package)][j]
  BY DEF Cells, TypeOK
<1>2. Cells' = [j \in Keys |-> CellAt(j, objects'[j])]
  BY DEF Cells, CellAt, VerifyEntry, GatesAgree
<1> QED BY <1>1, <1>2 DEF Cells

LEMMA ToldMoves ==
  ASSUME TypeOK, NEW c \in Cooks, NEW given \in Given, answer' = [answer EXCEPT ![c] = given]
  PROVE  Told' = [Told EXCEPT ![c] = given.files]
<1>1. given # Empty
  BY EmptyIsNothing
<1>2. ASSUME NEW x \in Cooks
      PROVE  (IF answer'[x] = Empty THEN Empty ELSE answer'[x].files)
               = [Told EXCEPT ![c] = given.files][x]
  BY <1>1 DEF Told, TypeOK
<1> QED BY <1>2 DEF Told

LEMMA AskedStays == [Next]_vars => Asked' = Asked
  BY SameKey DEF Asked, Cacheable, KeyOf

LEMMA InitPromise == Init => Promise!Init
<1> SUFFICES ASSUME Init PROVE Promise!Init
  OBVIOUS
<1>1. TypeOK
  BY InitTyped DEF TypedInv
<1>2. Asked \in [Cooks -> [key : Keys, stored : BOOLEAN, makes : Contents]]
  BY <1>1, KeyTyped, BytesAreContents DEF Asked, Cacheable
<1>3. Cells = [k \in Keys |-> Empty] /\ Told = [c \in Cooks |-> Empty]
  BY DEF Init, Cells, CellAt, Told
<1> QED BY <1>2, <1>3, CellsAre DEF Promise!Init, Asked, Told

-----------------------------------------------------------------------------
(* The steps of ContentStore, over the mapped variables.                   *)

Gets(c) ==
  /\ Told[c] = Empty
  /\ Cells[KeyOf(c)] # Empty
  /\ Cells[KeyOf(c)].files # Spoiled
  /\ Told' = [Told EXCEPT ![c] = Cells[KeyOf(c)].files]
  /\ UNCHANGED <<Asked, Cells>>

Puts(c) ==
  /\ Told[c] = Empty
  /\ Cacheable(c)
  /\ Cells[KeyOf(c)] = Empty
  /\ Cells' = [Cells EXCEPT ![KeyOf(c)] = [files |-> Bytes[c], vouched |-> TRUE]]
  /\ Told' = [Told EXCEPT ![c] = Bytes[c]]
  /\ UNCHANGED Asked

Keeps(c) ==
  /\ Told[c] = Empty
  /\ ~Cacheable(c)
  /\ Told' = [Told EXCEPT ![c] = Bytes[c]]
  /\ UNCHANGED <<Asked, Cells>>

Evicts(k) ==
  /\ Cells[k] # Empty
  /\ ~Cells[k].vouched
  /\ Cells' = [Cells EXCEPT ![k] = Empty]
  /\ UNCHANGED <<Asked, Told>>

Damages(k) ==
  /\ Cells[k] # Empty
  /\ \E left \in {Empty} \cup {cell \in [files : Contents \cup {Spoiled}, vouched : BOOLEAN] :
                                 ~cell.vouched} :
       Cells' = [Cells EXCEPT ![k] = left]
  /\ UNCHANGED <<Asked, Told>>

Quiet == UNCHANGED <<Asked, Cells, Told>>

LEMMA PromiseStep ==
  ASSUME \/ Quiet
         \/ \E c \in Cooks : Gets(c) \/ Puts(c) \/ Keeps(c)
         \/ \E k \in Keys : Evicts(k) \/ Damages(k)
  PROVE  [Promise!Next]_Promise!sVars
<1> USE CellsAre DEF Asked, Told
<1>c. Cells' = [k \in Keys |-> IF objects'[k] = Empty THEN Empty
                              ELSE [files |-> objects'[k].files, vouched |-> Valid(k)']]
  BY DEF Cells, CellAt, Valid
<1>1. CASE Quiet
  BY <1>1, <1>c DEF Quiet, Promise!sVars
<1>2. ASSUME NEW c \in Cooks, Gets(c) PROVE Promise!Get(c)
  BY <1>2, <1>c DEF Gets, Promise!Get, Promise!Give
<1>3. ASSUME NEW c \in Cooks, Puts(c) PROVE Promise!Put(c)
  BY <1>3, <1>c DEF Puts, Promise!Put, Promise!Give
<1>4. ASSUME NEW c \in Cooks, Keeps(c) PROVE Promise!Keep(c)
  BY <1>4, <1>c DEF Keeps, Promise!Keep, Promise!Give
<1>5. ASSUME NEW k \in Keys, Evicts(k) PROVE Promise!Evict(k)
  BY <1>5, <1>c DEF Evicts, Promise!Evict
<1>6. ASSUME NEW k \in Keys, Damages(k) PROVE Promise!Damage(k)
  BY <1>6, <1>c DEF Damages, Promise!Damage, Promise!Cell
<1> QED BY <1>1, <1>2, <1>3, <1>4, <1>5, <1>6 DEF Promise!Next

LEMMA NextPromise == StoreInv /\ [Next]_vars => [Promise!Next]_Promise!sVars
<1> SUFFICES ASSUME StoreInv, [Next]_vars
             PROVE  \/ Quiet
                    \/ \E c \in Cooks : Gets(c) \/ Puts(c) \/ Keeps(c)
                    \/ \E k \in Keys : Evicts(k) \/ Damages(k)
  BY PromiseStep
<1> USE DEF StoreInv, TypedInv
<1>a. Asked' = Asked
  BY AskedStays
<1>q. ASSUME objects' = objects, answer' = answer PROVE Quiet
  BY <1>q, <1>a DEF Quiet, Cells, CellAt, Told, VerifyEntry, GatesAgree
<1>s. ASSUME objects' = objects PROVE Cells' = Cells
  BY <1>s DEF Cells, CellAt, VerifyEntry, GatesAgree
<1>o. ASSUME answer' = answer PROVE Told' = Told
  BY <1>o DEF Told
<1>c. ASSUME NEW c \in Cooks, CookStep(c) \/ Crash(c)
      PROVE  Quiet \/ Gets(c) \/ Puts(c) \/ Keeps(c) \/ Evicts(KeyOf(c))
  <2> DEFINE k == KeyOf(c)
  <2>k. k \in Keys /\ Bytes[c] \in Contents /\ Spoiled \notin Contents
    BY KeyTyped, BytesAreContents, StoreAssumption
  <2>t. tampers[k] \in 0 .. MaxTampers
    BY <2>k DEF TypeOK
  <2>p. objects[k] \in Package \cup {Empty} /\ Cells[k] = CellAt(k, objects[k])
    BY <2>k DEF TypeOK, Cells
  <2>n. \A package \in Package :
           CellAt(k, package) # Empty /\ CellAt(k, package).files = package.files
    BY <2>k, CellFacts
  <2>w. pc[c] \in {"verifying", "building", "locked", "publishing"} => Told[c] = Empty
    BY DEF AtWork, Told
  <2>1. CASE Hit(c) /\ Verify(c)
    <3> DEFINE given == [kind |-> "hit", files |-> objects[k].files, at |-> held[c].at]
    <3>1. held[c] \in Held /\ Told[c] = Empty /\ VerifyEntry(k, held[c].proof, objects[k])
      BY <2>1, <2>w DEF Hit, At, HeldReady
    <3>2. objects[k].files \in Contents /\ objects[k] \in Package
      BY <3>1, <2>k, <2>p, AcceptedFiles DEF Held
    <3>3. given \in Given
      BY <3>1, <3>2 DEF Held, Given
    <3>4. Told' = [Told EXCEPT ![c] = given.files]
      BY <2>1, <3>3, ToldMoves DEF Hit, Answer
    <3>5. Cells' = Cells
      BY <2>1, <1>s DEF Verify
    <3> QED BY <1>a, <2>k, <2>p, <2>n, <3>1, <3>2, <3>4, <3>5 DEF Gets
  <2>2. CASE Ephemeral(c) /\ Build(c)
    <3> DEFINE given == [kind |-> "ephemeral", files |-> Bytes[c], at |-> tampers[k]]
    <3>1. given \in Given
      BY <2>k, <2>t DEF Given
    <3>2. Told' = [Told EXCEPT ![c] = given.files]
      BY <2>2, <3>1, ToldMoves DEF Ephemeral, Answer
    <3>3. Cells' = Cells
      BY <2>2, <1>s DEF Build
    <3> QED BY <1>a, <2>2, <2>w, <3>2, <3>3 DEF Keeps, Ephemeral, At
  <2>3. CASE Reuse(c)
    <3> DEFINE given == [kind |-> "hit", files |-> objects[k].files, at |-> tampers[k]]
    <3>1. Valid(k) /\ objects' = objects /\ objects[k] \in Package /\ Told[c] = Empty
      BY <2>3, <2>p, <2>w DEF Reuse, Valid, At
    <3>2. objects[k].files \in Contents
      BY <3>1, <2>k, AcceptedFiles DEF Valid, Package
    <3>3. given \in Given
      BY <2>t, <3>2 DEF Given
    <3>4. Told' = [Told EXCEPT ![c] = given.files]
      BY <2>3, <3>3, ToldMoves DEF Reuse, Answer
    <3>5. Cells' = Cells
      BY <3>1, <1>s
    <3> QED BY <1>a, <2>k, <2>p, <2>n, <3>1, <3>2, <3>4, <3>5 DEF Gets
  <2>4. CASE Quarantine(c)
    <3>1. objects[k] \in Package /\ ~Valid(k)
      BY <2>4, <2>p DEF Quarantine, ProofAt, Readable
    <3>2. ~Cells[k].vouched
      BY <3>1, <2>k, <2>p, CellFacts, EmptyIsNothing DEF Valid
    <3>3. Cells' = [Cells EXCEPT ![k] = CellAt(k, Empty)]
      BY <2>4, <2>k, CellsMove DEF Quarantine
    <3>4. Told' = Told
      BY <2>4, <1>o DEF Quarantine
    <3> QED BY <1>a, <2>p, <2>n, <3>1, <3>2, <3>3, <3>4 DEF Evicts, CellAt
  <2>5. CASE Publish(c)
    <3>1. CASE objects[k] # Empty
      <4>1. objects' = objects /\ answer' = answer
        BY <2>5, <3>1, <2>k DEF Publish, TypeOK
      <4> QED BY <4>1, <1>q
    <3>2. CASE objects[k] = Empty
      <4> DEFINE given == [kind |-> "published", files |-> Bytes[c], at |-> tampers[k]]
      <4>1. given \in Given
        BY <2>k, <2>t DEF Given
      <4>2. Told' = [Told EXCEPT ![c] = given.files]
        BY <2>5, <3>2, <4>1, ToldMoves DEF Publish, Answer
      <4>3. GatesAgree(k) /\ Cacheable(c) /\ Told[c] = Empty
        BY <2>5, <2>w DEF Publish, At, AtWork
      <4>4. Cells' = [Cells EXCEPT ![k] = CellAt(k, Built(c))]
        BY <2>5, <3>2, <2>k, CellsMove DEF Publish
      <4>5. CellAt(k, Built(c)) = [files |-> Bytes[c], vouched |-> TRUE]
        BY <4>3, BuiltTyped, EmptyIsNothing DEF CellAt, Built, VerifyEntry
      <4>6. Cells[k] = Empty
        BY <3>2, <2>p DEF CellAt
      <4> QED BY <1>a, <4>2, <4>3, <4>4, <4>5, <4>6 DEF Puts
    <3> QED BY <3>1, <3>2
  <2>6. CASE objects' = objects /\ answer' = answer
    BY <2>6, <1>q
  <2> QED BY <1>c, <2>1, <2>2, <2>3, <2>4, <2>5, <2>6
          DEF CookStep, LookUp, Verify, FallThrough, StartForge, Build, BuildFails, Refused,
              ToPublish, KeepFailure, Lock, LookAgain, Vacant, UnreadableEntry, Unlock, Crash
<1>t. ASSUME NEW k \in Keys, Tamper(k) PROVE Damages(k)
  <2>1. PICK left \in Tampered(objects[k]) : objects' = [objects EXCEPT ![k] = left]
    BY <1>t DEF Tamper
  <2>2. objects[k] \in Package /\ left \in Package \cup {Empty}
    BY <1>t, <2>1, TamperedTyped DEF Tamper, TypeOK
  <2>3. ~VerifyEntry(k, left.proof, left) \/ left = Empty
    <3>1. ASSUME NEW kind \in ProofKinds \ {"genuine"}, left = [objects[k] EXCEPT !.proof.kind = kind]
          PROVE  ~VerifyEntry(k, left.proof, left)
      BY <2>2, <3>1 DEF VerifyEntry, Package, Proof
    <3>2. ASSUME left = [objects[k] EXCEPT !.files = Spoiled]
          PROVE  ~VerifyEntry(k, left.proof, left)
      BY <2>2, <3>2, BytesAreContents, StoreAssumption DEF VerifyEntry, Package, Proof
    <3> QED BY <2>1, <3>1, <3>2 DEF Tampered
  <2>4. CellAt(k, left) \in {Empty} \cup {cell \in [files : Contents \cup {Spoiled}, vouched : BOOLEAN] :
                                          ~cell.vouched}
    BY <2>2, <2>3 DEF CellAt, Package
  <2>5. Cells' = [Cells EXCEPT ![k] = CellAt(k, left)]
    BY <2>1, CellsMove
  <2>6. Cells[k] # Empty
    BY <2>2, CellFacts DEF Cells
  <2>7. Told' = Told
    BY <1>t, <1>o DEF Tamper
  <2> QED BY <1>a, <2>4, <2>5, <2>6, <2>7 DEF Damages
<1>u. CASE UNCHANGED vars
  BY <1>u, <1>q DEF vars
<1> QED BY <1>c, <1>t, <1>u, KeyTyped DEF Next

\* The cache implements the store it promises to be: one package per address,
\* accepted once, given as it was accepted, and removed only when it no longer
\* carries its proof.
THEOREM CacheKeepsPromise == Spec => KeepsPromise
  BY StoreInvariant, InitPromise, NextPromise, PTL DEF Spec, KeepsPromise
=============================================================================
