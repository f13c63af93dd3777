---------------------------- MODULE RecipeStore -----------------------------
(***************************************************************************)
(* bforge's content-addressed recipe cache: several processes run cook()   *)
(* on one cache directory.  A cook looks its address up without a lock,    *)
(* builds what is missing in a staging directory of its own, verifies it,  *)
(* and publishes it by rename under a mkdir lock, where it looks again.    *)
(* Processes may be killed anywhere, and what is under an address may be   *)
(* edited, truncated or deleted by whoever has the disk.                   *)
(*                                                                         *)
(* A package is its proof.json and its other files.  A proof is the        *)
(* builder it describes and whether verify_entry would still accept its    *)
(* fields; files are the bytes a build yields, or Spoiled.                 *)
(***************************************************************************)
EXTENDS Naturals, FiniteSets

CONSTANTS
  Cooks,             \* the processes; a cook builds at most once
  Keys,              \* content addresses: recipe, inputs and compiler hashed
  Contents,          \* what a build may yield
  Bytes,             \* [Cooks -> Contents]: what each cook's build yields
  Jobs,              \* what the processes may be asked to cook, and on what machine
  CheckRequirement,  \* [Keys -> {"absent", "off", "on"}]: see GatesAgree
  Spoiled, Empty, Free,
  MaxWaits,          \* attempts at the lock before its timeout
  MaxTampers, MaxCrashes

Blenders == {"pinned", "other"}   \* all are pinned where there is no blender-lock.toml

Request == [key : Keys, noCache : BOOLEAN, allowUnpinned : BOOLEAN, blender : Blenders]

ASSUME StoreAssumption ==
  /\ Bytes \in [Cooks -> Contents]
  /\ Jobs \subseteq [Cooks -> Request]
  /\ CheckRequirement \in [Keys -> {"absent", "off", "on"}]
  /\ Spoiled \notin Contents /\ Empty \notin Contents
  /\ Free \notin Cooks
  /\ MaxWaits \in Nat /\ MaxTampers \in Nat /\ MaxCrashes \in Nat

\* "edited": a field verify_entry compares; "unreadable": no JSON; "missing": no file.
Readable == {"genuine", "edited"}
ProofKinds == Readable \cup {"unreadable", "missing"}
Proof == [kind : ProofKinds, by : Cooks]
Package == [proof : Proof, files : Contents \cup {Spoiled}]

\* The proof read at a lookup, and what cook() returns; `at`, in both, is how often
\* the address had been tampered with when it was read.
Held == [proof : Proof, at : 0 .. MaxTampers]
Given == [kind : {"hit", "published", "ephemeral"}, files : Contents, at : 0 .. MaxTampers]

ASSUME EmptyIsNothing ==
  Empty \notin Package \cup Held \cup Given \cup [files : Contents \cup {Spoiled}, vouched : BOOLEAN]

VARIABLES
  request,    \* [Cooks -> Request], one of the jobs
  pc,         \* where each cook is
  held,       \* [Cooks -> Held or Empty]
  objects,    \* [Keys -> Package or Empty]: objects/<digest>
  lock,       \* [Keys -> Cooks or Free]: locks/<digest>.lock
  staging,    \* [Cooks -> {"none", "open", "sealed"}]: the cook's staging directory
  failures,   \* the packages in failures/, each with the key it failed
  waits,      \* [Cooks -> 0 .. MaxWaits]
  answer,     \* [Cooks -> Given or Empty]
  cause,      \* [Cooks -> ...]: why cook() raises, "none" if it does not
  tampers,    \* [Keys -> 0 .. MaxTampers]: how often each address was tampered with
  crashes

vars == <<request, pc, held, objects, lock, staging, failures, waits, answer,
          cause, tampers, crashes>>

Causes == {"none", "unreadable", "forge", "toolchain", "build", "gates",
           "self-check", "locked", "collision"}
Ended == {"done", "raised", "crashed"}
Critical == {"locked", "publishing", "unlocking"}
Steps == {"lookup", "verifying", "starting", "building", "failing",
          "locking"} \cup Critical \cup Ended

KeyOf(c) == request[c].key

ProofAt(k) == IF objects[k] = Empty THEN "missing" ELSE objects[k].proof.kind

-----------------------------------------------------------------------------
(* What verification accepts.                                              *)

\* The check gates run for a requirement that demands something; verification
\* wants a verdict for a requirement that is written down.
GatesAgree(k) ==
  LET recorded == CheckRequirement[k] = "on"
      needed == CheckRequirement[k] # "absent"
  IN recorded = needed

\* A mutant: the files are not hashed again.
VerifyEntryProofOnly(k, proof, package) ==
  proof.kind = "genuine" /\ GatesAgree(k) /\ package # Empty

VerifyEntry(k, proof, package) ==
  /\ proof.kind = "genuine"
  /\ GatesAgree(k)
  /\ package # Empty
  /\ package.files = Bytes[proof.by]

Valid(k) == objects[k] # Empty /\ VerifyEntry(k, objects[k].proof, objects[k])

\* The package in a cook's staging directory.
Built(c) == [proof |-> [kind |-> "genuine", by |-> c], files |-> Bytes[c]]

Cacheable(c) == ~request[c].noCache /\ request[c].blender = "pinned"

-----------------------------------------------------------------------------
Init ==
  /\ request \in Jobs
  /\ pc = [c \in Cooks |-> "lookup"]
  /\ held = [c \in Cooks |-> Empty]
  /\ objects = [k \in Keys |-> Empty]
  /\ lock = [k \in Keys |-> Free]
  /\ staging = [c \in Cooks |-> "none"]
  /\ failures = {}
  /\ waits = [c \in Cooks |-> 0]
  /\ answer = [c \in Cooks |-> Empty]
  /\ cause = [c \in Cooks |-> "none"]
  /\ tampers = [k \in Keys |-> 0]
  /\ crashes = 0

At(c, here, there) == pc[c] = here /\ pc' = [pc EXCEPT ![c] = there]

Answer(c, kind, files, at) ==
  answer' = [answer EXCEPT ![c] = [kind |-> kind, files |-> files, at |-> at]]

\* cook() raises; the failing exit, if any, is still to come at `there`.
Fails(c, here, why, there) ==
  /\ At(c, here, there)
  /\ cause' = [cause EXCEPT ![c] = why]

-----------------------------------------------------------------------------
(* The lookup, without the lock: read the proof, then compare what is on   *)
(* disk with it.                                                           *)

Miss(c) ==
  /\ request[c].noCache \/ ProofAt(KeyOf(c)) = "missing"
  /\ At(c, "lookup", "starting")
  /\ UNCHANGED <<held, cause>>

ReadProof(c) ==
  /\ ~request[c].noCache
  /\ ProofAt(KeyOf(c)) \in Readable
  /\ At(c, "lookup", "verifying")
  /\ held' = [held EXCEPT ![c] = [proof |-> objects[KeyOf(c)].proof, at |-> tampers[KeyOf(c)]]]
  /\ UNCHANGED cause

ReadMalformed(c) ==
  /\ ~request[c].noCache
  /\ ProofAt(KeyOf(c)) = "unreadable"
  /\ Fails(c, "lookup", "unreadable", "raised")
  /\ UNCHANGED held

LookUp(c) ==
  /\ Miss(c) \/ ReadProof(c) \/ ReadMalformed(c)
  /\ UNCHANGED <<request, objects, lock, staging, failures, waits, answer, tampers, crashes>>

Hit(c) ==
  /\ At(c, "verifying", "done")
  /\ VerifyEntry(KeyOf(c), held[c].proof, objects[KeyOf(c)])
  /\ Answer(c, "hit", objects[KeyOf(c)].files, held[c].at)

FallThrough(c) ==
  /\ At(c, "verifying", "starting")
  /\ ~VerifyEntry(KeyOf(c), held[c].proof, objects[KeyOf(c)])
  /\ UNCHANGED answer

Verify(c) ==
  /\ Hit(c) \/ FallThrough(c)
  /\ UNCHANGED <<request, held, objects, lock, staging, failures, waits, cause, tampers, crashes>>

-----------------------------------------------------------------------------
(* The build, in a staging directory nobody else knows.                    *)

\* forge_factory() or start() raises, or the toolchain is refused: there is no
\* staging directory, so nothing is written and the exception is raised bare.
NoForge(c) ==
  /\ Fails(c, "starting", "forge", "raised")
  /\ UNCHANGED staging

WrongToolchain(c) ==
  /\ request[c].blender # "pinned"
  /\ ~request[c].allowUnpinned
  /\ Fails(c, "starting", "toolchain", "raised")
  /\ UNCHANGED staging

OpenStaging(c) ==
  /\ request[c].blender = "pinned" \/ request[c].allowUnpinned
  /\ At(c, "starting", "building")
  /\ staging' = [staging EXCEPT ![c] = "open"]
  /\ UNCHANGED cause

StartForge(c) ==
  /\ NoForge(c) \/ WrongToolchain(c) \/ OpenStaging(c)
  /\ UNCHANGED <<request, held, objects, lock, failures, waits, answer, tampers, crashes>>

\* Steps, gates and export; whatever happened, the proof is written, and a
\* package whose build and gates passed is verified like any other.
BuildFails(c) ==
  /\ \E why \in {"build", "gates"} : Fails(c, "building", why, "failing")
  /\ UNCHANGED answer

Refused(c) ==
  /\ ~GatesAgree(KeyOf(c))
  /\ Fails(c, "building", "self-check", "failing")
  /\ UNCHANGED answer

ToPublish(c) ==
  /\ GatesAgree(KeyOf(c))
  /\ Cacheable(c)
  /\ At(c, "building", "locking")
  /\ UNCHANGED <<answer, cause>>

Ephemeral(c) ==
  /\ GatesAgree(KeyOf(c))
  /\ ~Cacheable(c)
  /\ At(c, "building", "done")
  /\ Answer(c, "ephemeral", Bytes[c], tampers[KeyOf(c)])
  /\ UNCHANGED cause

Build(c) ==
  /\ BuildFails(c) \/ Refused(c) \/ ToPublish(c) \/ Ephemeral(c)
  /\ staging' = [staging EXCEPT ![c] = "sealed"]
  /\ UNCHANGED <<request, held, objects, lock, failures, waits, tampers, crashes>>

\* shutil.move into failures/.  Failure directories are named by the second and
\* the digest; a second failure of that name lands inside the first one's.
KeepFailure(c) ==
  /\ At(c, "failing", "raised")
  /\ staging' = [staging EXCEPT ![c] = "none"]
  /\ failures' = failures \cup {[key |-> KeyOf(c), package |-> Built(c)]}
  /\ UNCHANGED <<request, held, objects, lock, waits, answer, cause, tampers, crashes>>

-----------------------------------------------------------------------------
(* Publication under the lock.                                             *)

TakeLock(c) ==
  /\ lock[KeyOf(c)] = Free
  /\ At(c, "locking", "locked")
  /\ lock' = [lock EXCEPT ![KeyOf(c)] = c]
  /\ UNCHANGED <<waits, cause>>

\* A mutant: one attempt too many.
WaitOnce(c) ==
  /\ pc[c] = "locking"
  /\ lock[KeyOf(c)] # Free
  /\ waits[c] <= MaxWaits
  /\ waits' = [waits EXCEPT ![c] = @ + 1]
  /\ UNCHANGED <<pc, lock, cause>>

WaitForLock(c) ==
  /\ pc[c] = "locking"
  /\ lock[KeyOf(c)] # Free
  /\ waits[c] < MaxWaits
  /\ waits' = [waits EXCEPT ![c] = @ + 1]
  /\ UNCHANGED <<pc, lock, cause>>

\* Mutants: the cook that gives up removes the lock it never had; the bound on
\* the waiting time is never met.
LockTimeoutReleases(c) ==
  /\ lock[KeyOf(c)] # Free
  /\ waits[c] = MaxWaits
  /\ Fails(c, "locking", "locked", "raised")
  /\ lock' = [lock EXCEPT ![KeyOf(c)] = Free]
  /\ UNCHANGED waits

LockTimeoutNever(c) ==
  /\ waits[c] > MaxWaits
  /\ Fails(c, "locking", "locked", "raised")
  /\ UNCHANGED <<lock, waits>>

\* The staging directory is left behind.
LockTimeout(c) ==
  /\ lock[KeyOf(c)] # Free
  /\ waits[c] = MaxWaits
  /\ Fails(c, "locking", "locked", "raised")
  /\ UNCHANGED <<lock, waits>>

Lock(c) ==
  /\ TakeLock(c) \/ WaitForLock(c) \/ LockTimeout(c)
  /\ UNCHANGED <<request, held, objects, staging, failures, answer, tampers, crashes>>

Vacant(c) ==
  /\ objects[KeyOf(c)] = Empty
  /\ At(c, "locked", "publishing")
  /\ UNCHANGED <<objects, staging, failures, answer, cause>>

\* A mutant: the package of the cook that lost the race is left in staging.
ReuseAndLeave(c) ==
  /\ Valid(KeyOf(c))
  /\ At(c, "locked", "unlocking")
  /\ Answer(c, "hit", objects[KeyOf(c)].files, tampers[KeyOf(c)])
  /\ UNCHANGED <<staging, objects, failures, cause>>

\* Another cook won: its package is returned and this one's deleted.
Reuse(c) ==
  /\ Valid(KeyOf(c))
  /\ At(c, "locked", "unlocking")
  /\ Answer(c, "hit", objects[KeyOf(c)].files, tampers[KeyOf(c)])
  /\ staging' = [staging EXCEPT ![c] = "none"]
  /\ UNCHANGED <<objects, failures, cause>>

\* The staging directory is left behind.
UnreadableEntry(c) ==
  /\ objects[KeyOf(c)] # Empty
  /\ ProofAt(KeyOf(c)) \notin Readable
  /\ Fails(c, "locked", "unreadable", "unlocking")
  /\ UNCHANGED <<objects, staging, failures, answer>>

\* A mutant: whatever is found makes room for this cook's package.
QuarantineAny(c) ==
  /\ ProofAt(KeyOf(c)) \in Readable
  /\ At(c, "locked", "publishing")
  /\ objects' = [objects EXCEPT ![KeyOf(c)] = Empty]
  /\ failures' = failures \cup {[key |-> KeyOf(c), package |-> objects[KeyOf(c)]]}
  /\ UNCHANGED <<staging, answer, cause>>

Quarantine(c) ==
  /\ ProofAt(KeyOf(c)) \in Readable
  /\ ~Valid(KeyOf(c))
  /\ At(c, "locked", "publishing")
  /\ objects' = [objects EXCEPT ![KeyOf(c)] = Empty]
  /\ failures' = failures \cup {[key |-> KeyOf(c), package |-> objects[KeyOf(c)]]}
  /\ UNCHANGED <<staging, answer, cause>>

LookAgain(c) ==
  /\ Vacant(c) \/ Reuse(c) \/ UnreadableEntry(c) \/ Quarantine(c)
  /\ UNCHANGED <<request, held, lock, waits, tampers, crashes>>

\* os.rename: atomic, and refused by a directory that is not empty.
Publish(c) ==
  LET vacant == objects[KeyOf(c)] = Empty IN
    /\ At(c, "publishing", "unlocking")
    /\ objects' = [objects EXCEPT ![KeyOf(c)] = IF vacant THEN Built(c) ELSE @]
    /\ staging' = [staging EXCEPT ![c] = IF vacant THEN "none" ELSE @]
    /\ cause' = [cause EXCEPT ![c] = IF vacant THEN @ ELSE "collision"]
    /\ IF vacant THEN Answer(c, "published", Bytes[c], tampers[KeyOf(c)]) ELSE UNCHANGED answer
    /\ UNCHANGED <<request, held, lock, failures, waits, tampers, crashes>>

\* __exit__, on every way out of the with block.
Unlock(c) ==
  /\ At(c, "unlocking", IF cause[c] = "none" THEN "done" ELSE "raised")
  /\ lock' = [lock EXCEPT ![KeyOf(c)] = Free]
  /\ UNCHANGED <<request, held, objects, staging, failures, waits, answer, cause,
                 tampers, crashes>>

-----------------------------------------------------------------------------
(* From outside.                                                           *)

\* A cook is killed: its staging directory and its lock stay.
Crash(c) ==
  /\ pc[c] \notin Ended
  /\ crashes < MaxCrashes
  /\ crashes' = crashes + 1
  /\ pc' = [pc EXCEPT ![c] = "crashed"]
  /\ UNCHANGED <<request, held, objects, lock, staging, failures, waits, answer,
                 cause, tampers>>

\* What is under an address is deleted, or changed in its proof or its files.
Tampered(package) ==
  {Empty}
    \cup {[package EXCEPT !.proof.kind = kind] : kind \in ProofKinds \ {"genuine"}}
    \cup {[package EXCEPT !.files = Spoiled]}

Tamper(k) ==
  /\ objects[k] # Empty
  /\ tampers[k] < MaxTampers
  /\ tampers' = [tampers EXCEPT ![k] = @ + 1]
  /\ \E left \in Tampered(objects[k]) \ {objects[k]} : objects' = [objects EXCEPT ![k] = left]
  /\ UNCHANGED <<request, pc, held, lock, staging, failures, waits, answer, cause, crashes>>

-----------------------------------------------------------------------------
CookStep(c) ==
  \/ LookUp(c) \/ Verify(c)
  \/ StartForge(c) \/ Build(c) \/ KeepFailure(c)
  \/ Lock(c) \/ LookAgain(c) \/ Publish(c) \/ Unlock(c)

Next ==
  \/ \E c \in Cooks : CookStep(c) \/ Crash(c)
  \/ \E k \in Keys : Tamper(k)

\* Every cook is a process the system schedules; nobody has to kill or tamper.
Spec == Init /\ [][Next]_vars /\ \A c \in Cooks : WF_vars(CookStep(c))

-----------------------------------------------------------------------------
TypeOK ==
  /\ request \in Jobs
  /\ pc \in [Cooks -> Steps]
  /\ held \in [Cooks -> Held \cup {Empty}]
  /\ objects \in [Keys -> Package \cup {Empty}]
  /\ lock \in [Keys -> Cooks \cup {Free}]
  /\ staging \in [Cooks -> {"none", "open", "sealed"}]
  /\ failures \subseteq [key : Keys, package : Package]
  /\ waits \in [Cooks -> 0 .. MaxWaits]
  /\ answer \in [Cooks -> Given \cup {Empty}]
  /\ cause \in [Cooks -> Causes]
  /\ tampers \in [Keys -> 0 .. MaxTampers]
  /\ crashes \in 0 .. MaxCrashes

\* One builder per address: whoever is between the lock and its release holds
\* it, and a lock nobody is under was left by a cook that was killed.
LockDiscipline ==
  /\ \A c \in Cooks : pc[c] \in Critical => lock[KeyOf(c)] = c
  /\ \A k \in Keys : lock[k] # Free =>
       KeyOf(lock[k]) = k /\ pc[lock[k]] \in Critical \cup {"crashed"}

\* What a cook was told stands: until somebody tampers with the address again,
\* the package it was given is still there and still valid, so that all cooks of
\* an address are given one package: neither a race to publish nor another's
\* quarantine replaces it.
AnswersStand ==
  \A c \in Cooks :
    answer[c] # Empty /\ answer[c].kind # "ephemeral" /\ answer[c].at = tampers[KeyOf(c)] =>
      Valid(KeyOf(c)) /\ objects[KeyOf(c)].files = answer[c].files

\* Where a build ends: a failed one in failures/ with its proof; after an answer
\* only a package that may not be stored stays in staging.
BuildsAccountedFor ==
  \A c \in Cooks :
    /\ pc[c] = "raised" /\ cause[c] \in {"build", "gates", "self-check"} =>
         staging[c] = "none" /\ [key |-> KeyOf(c), package |-> Built(c)] \in failures
    /\ pc[c] = "done" =>
         (staging[c] # "none") = (answer[c].kind = "ephemeral")

\* Every cook ends, whoever crashed with the lock.
Terminates == \A c \in Cooks : <>(pc[c] \in Ended)

-----------------------------------------------------------------------------
(* The promise to the clients: ContentStore.                               *)

Promise == INSTANCE ContentStore WITH
  Clients <- Cooks,
  ask <- [c \in Cooks |->
            [key |-> KeyOf(c), stored |-> Cacheable(c), makes |-> Bytes[c]]],
  cell <- [k \in Keys |->
             IF objects[k] = Empty THEN Empty
             ELSE [files |-> objects[k].files, vouched |-> Valid(k)]],
  told <- [c \in Cooks |-> IF answer[c] = Empty THEN Empty ELSE answer[c].files]

\* The cache keeps the promise: accepted packages are immutable, and what a cook
\* is given is what is stored or, where it may not be stored, what it built.
KeepsPromise == Promise!Init /\ [][Promise!Next]_Promise!sVars
=============================================================================
