--------------------------- MODULE WorldCompiler ----------------------------
(***************************************************************************)
(* worldc's two stores above the recipe cache.  A process compiles the     *)
(* entity documents of a world one after the other: it has the recipe      *)
(* cooked, hashes the asset's proof as it is then on disk, looks the       *)
(* entity up under (document, asset proof), verifies what it finds or      *)
(* builds a proof of its own, and publishes it under a lock.  Then it      *)
(* hashes the entity proofs, judges the scenario, and publishes the world  *)
(* under (world, entity proofs).  compile_entity alone is a process        *)
(* without a world.  All three stores may be edited from outside.          *)
(*                                                                         *)
(* The recipe cache is used through its promise, ContentStore; a package   *)
(* there is named by the call that built it, its proof included.           *)
(***************************************************************************)
EXTENDS Naturals, Sequences, FiniteSets

CONSTANTS
  Compilers,      \* the processes
  Docs, Recipes,
  RecipeOf,       \* [Docs -> Recipes]: entities may share an asset
  Honoured,       \* the documents whose asset honours their contract
  WorldDocs,         \* world documents, scenario included
  WorldVerdict,   \* [WorldDocs -> Verdicts]
  Jobs,           \* what the processes may be asked to compile
  NoScenario, Spoiled, Empty, Forged,
  MaxDocs,        \* documents of one process
  MaxTampers, MaxCrashes

Verdicts == {"passes", "mismatch", "unprovable", "breaks"}

Job == [docs : Seq(Docs), world : WorldDocs \cup {NoScenario}, noCache : BOOLEAN]

ASSUME CompilerAssumption ==
  /\ RecipeOf \in [Docs -> Recipes]
  /\ Honoured \subseteq Docs
  /\ WorldVerdict \in [WorldDocs -> Verdicts]
  /\ \A jobs \in Jobs :
       /\ DOMAIN jobs = Compilers
       /\ \A p \in Compilers : jobs[p] \in Job /\ Len(jobs[p].docs) \in 1 .. MaxDocs
  /\ NoScenario \notin WorldDocs
  /\ MaxDocs \in Nat /\ MaxTampers \in Nat /\ MaxCrashes \in Nat

VARIABLES
  ask, assets, told,   \* the recipe cache: see ContentStore
  job,            \* [Compilers -> Job], one of the jobs
  pc,             \* where each compiler is
  place,          \* [Compilers -> Nat]: the document it is at; past the last, the world
  sha,            \* [Compilers -> Shas or Empty]: the asset proof's hash
  seen,           \* [Compilers -> Seen or Empty]: the entity proof found or published;
                  \*   at the world, the entity proofs it binds
  staging,        \* [Compilers -> what its staging directory holds or Empty]
  entries,        \* [Addresses -> Proof or Empty]: entity-cache/<key>
  worlds,         \* world-cache/: [at, kind]
  locks,          \* both stores' lock directories: [on, by]
  failures,       \* both failure stores: [at, proof]
  answer,         \* [Calls -> Seen or Empty]: what compile_entity returns
  published,      \* [Compilers -> WorldKey or Empty]: what compile_world returns
  cause,          \* [Compilers -> ...]: why it raises, "none" if it does not
  entryTouches,   \* [Addresses -> Nat]: how often each entity was tampered with
  assetTouches,   \* [Recipes -> Nat]
  tampers, crashes

recipeCache == <<ask, assets, told>>
outside == <<entryTouches, assetTouches, tampers, crashes>>
stores == <<entries, worlds, locks, failures>>
replies == <<answer, published, cause>>
compilerVars == <<recipeCache, job, pc, place, sha, seen, staging, stores, replies, outside>>

\* A call of compile_entity: the process and which of its documents.
Calls == Compilers \X (1 .. MaxDocs)

\* A proof's hash: the build that wrote it, or that of an edited proof.
Shas == Calls \cup {Forged}
Addresses == [doc : Docs, sha : Shas]

\* What can have happened to a proof: "reworded", nothing compares what was edited;
\* "restated", only the recomputed checks tell; "edited", _entity_entry_valid tells,
\* the canonical document beside it included.
Accepted == {"genuine", "reworded", "restated"}
ProofStates == Accepted \cup {"edited", "unreadable", "missing"}

\* An entity proof: the asset cook() answered with, and the files that were checked.
Proof == [kind : ProofStates, asset : Calls, checked : Calls \cup {Spoiled}]
Ref == [at : Addresses, proof : Proof]
\* An entity proof as a compiler read or wrote it, and how often its address had been
\* tampered with by then.
Seen == [at : Addresses, proof : Proof, touches : Nat]
WorldKey == [world : WorldDocs, refs : Seq(Ref)]

ASSUME MarkerAssumption ==
  /\ Empty \notin Shas \cup {Spoiled} \cup Proof \cup Seen \cup WorldKey
  /\ Empty \notin [files : Calls \cup {Spoiled}, vouched : BOOLEAN]
  /\ Spoiled \notin Shas /\ Forged \notin Calls

DocAt(p) == job[p].docs[place[p]]
InWorld(p) == place[p] > Len(job[p].docs)
Call(p) == <<p, place[p]>>
Address(p) == [doc |-> DocAt(p), sha |-> sha[p]]
Cell(p) == assets[RecipeOf[DocAt(p)]]

Stopped == {"done", "raised", "crashed"}
Critical == {"locked", "publishing", "unlocking"}
Steps == {"cook", "hash", "lookup", "recheck", "verify", "failing", "locking",
          "scenario", "bind", "judge"} \cup Critical \cup Stopped

Assets == INSTANCE ContentStore WITH
  Clients <- Calls, Keys <- Recipes, Contents <- Calls, cell <- assets

-----------------------------------------------------------------------------
CompilerInit ==
  /\ job \in Jobs
  /\ ask = [c \in Calls |->
       LET docs == job[c[1]].docs
           doc == docs[IF c[2] \in DOMAIN docs THEN c[2] ELSE 1]
       IN [key |-> RecipeOf[doc], stored |-> ~job[c[1]].noCache, makes |-> c]]
  /\ Assets!Init
  /\ pc = [p \in Compilers |-> "cook"]
  /\ place = [p \in Compilers |-> 1]
  /\ sha = [p \in Compilers |-> Empty]
  /\ seen = [p \in Compilers |-> Empty]
  /\ staging = [p \in Compilers |-> Empty]
  /\ entries = [a \in Addresses |-> Empty]
  /\ worlds = {} /\ locks = {} /\ failures = {}
  /\ answer = [c \in Calls |-> Empty]
  /\ published = [p \in Compilers |-> Empty]
  /\ cause = [p \in Compilers |-> "none"]
  /\ entryTouches = [a \in Addresses |-> 0]
  /\ assetTouches = [r \in Recipes |-> 0]
  /\ tampers = 0 /\ crashes = 0

At(p, here, there) == pc[p] = here /\ pc' = [pc EXCEPT ![p] = there]

\* An exception leaves compile_entity or compile_world, at once or through `there`.
Fails(p, here, why, there) ==
  /\ At(p, here, there)
  /\ cause' = [cause EXCEPT ![p] = why]

\* The entity proof that will be returned.
See(p, proof) ==
  seen' = [seen EXCEPT ![p] =
    [at |-> Address(p), proof |-> proof, touches |-> entryTouches[Address(p)]]]

\* compile_entity returns: the next document, the world, or the end.
Return(p, here) ==
  /\ At(p, here, IF place[p] < Len(job[p].docs) THEN "cook"
                 ELSE IF job[p].world = NoScenario THEN "done" ELSE "scenario")
  /\ answer' = [answer EXCEPT ![Call(p)] = seen[p]]
  /\ place' = [place EXCEPT ![p] = @ + 1]
  /\ sha' = [sha EXCEPT ![p] = Empty]

-----------------------------------------------------------------------------
(* compile_entity: the asset.                                              *)

CookAsset(p) ==
  /\ At(p, "cook", "hash")
  /\ IF job[p].noCache THEN Assets!Keep(Call(p)) ELSE Assets!Get(Call(p)) \/ Assets!Put(Call(p))
  /\ UNCHANGED cause

CookRaises(p) ==
  /\ Fails(p, "cook", "cook", "raised")
  /\ UNCHANGED recipeCache

Cook(p) ==
  /\ CookAsset(p) \/ CookRaises(p)
  /\ UNCHANGED <<job, place, sha, seen, staging, stores, answer, published, outside>>

\* A cook that finds a package without its proof makes room for its own.
EvictAsset(r) ==
  /\ Assets!Evict(r)
  /\ UNCHANGED <<job, pc, place, sha, seen, staging, stores, replies, outside>>

Intact(p) == Cell(p) # Empty /\ Cell(p).vouched

\* What proof.json may hash to when it is read again from disk.
ShasOnDisk(p) ==
  IF job[p].noCache THEN {Call(p)}
  ELSE IF Cell(p) = Empty THEN {}
  ELSE IF Intact(p) THEN {Cell(p).files}
  ELSE ({Cell(p).files, told[Call(p)]} \ {Spoiled}) \cup {Forged}

HashProof(p) ==
  /\ At(p, "hash", "lookup")
  /\ \E read \in ShasOnDisk(p) : sha' = [sha EXCEPT ![p] = read]
  /\ UNCHANGED cause

ProofGone(p) ==
  /\ Fails(p, "hash", "asset proof", "raised")
  /\ ~job[p].noCache /\ ~Intact(p)
  /\ UNCHANGED sha

Hash(p) ==
  /\ HashProof(p) \/ ProofGone(p)
  /\ UNCHANGED <<recipeCache, job, place, seen, staging, stores, answer, published, outside>>

-----------------------------------------------------------------------------
(* compile_entity: the lookup, without a lock.                             *)

KindAt(a) == IF entries[a] = Empty THEN "missing" ELSE entries[a].kind

Miss(p) ==
  /\ At(p, "lookup", "verify")
  /\ job[p].noCache \/ KindAt(Address(p)) \in {"missing", "edited"}
  /\ UNCHANGED <<seen, cause>>

ReadEntry(p) ==
  /\ At(p, "lookup", "recheck")
  /\ ~job[p].noCache
  /\ KindAt(Address(p)) \in Accepted
  /\ See(p, entries[Address(p)])
  /\ UNCHANGED cause

ReadMalformed(p) ==
  /\ Fails(p, "lookup", "entity proof", "raised")
  /\ ~job[p].noCache
  /\ KindAt(Address(p)) = "unreadable"
  /\ UNCHANGED seen

LookUp(p) ==
  /\ Miss(p) \/ ReadEntry(p) \/ ReadMalformed(p)
  /\ UNCHANGED <<recipeCache, job, place, sha, staging, stores, answer, published, outside>>

\* A mutant: a forced compile verifies the files in the store.
FilesInStore(p) == IF Cell(p) = Empty THEN Empty ELSE Cell(p).files

\* The files verify_artifact opens, and what it may find: nobody has hashed them
\* since cook() did.
FilesOnDisk(p) ==
  IF job[p].noCache THEN Call(p) ELSE IF Cell(p) = Empty THEN Empty ELSE Cell(p).files

Findings(p) ==
  LET files == FilesOnDisk(p) IN
    IF files = Empty THEN {"unusable"}
    ELSE IF files = Spoiled THEN {"unusable", "breaks", "passes"}
    ELSE IF DocAt(p) \in Honoured THEN {"passes"} ELSE {"breaks"}

\* The recorded checks, all ok, against the ones computed now, by name and verdict.
Same(p) == "passes" \in Findings(p) /\ seen[p].proof.kind # "restated"

Hit(p) ==
  /\ Return(p, "recheck")
  /\ Same(p)

FallThrough(p) ==
  /\ At(p, "recheck", "verify")
  /\ ~Same(p) \/ FilesOnDisk(p) = Spoiled
  /\ UNCHANGED <<answer, place, sha>>

Recheck(p) ==
  /\ Hit(p) \/ FallThrough(p)
  /\ seen' = [seen EXCEPT ![p] = Empty]
  /\ UNCHANGED <<recipeCache, job, staging, stores, published, cause, outside>>

-----------------------------------------------------------------------------
(* compile_entity: a proof of its own.                                     *)

NoArtifact(p) ==
  /\ Fails(p, "verify", "artifact", "raised")
  /\ "unusable" \in Findings(p)
  /\ UNCHANGED staging

Stage(p) ==
  staging' = [staging EXCEPT ![p] =
    [kind |-> "genuine", asset |-> told[Call(p)], checked |-> FilesOnDisk(p)]]

ContractBroken(p) ==
  /\ Fails(p, "verify", "contract", "failing")
  /\ "breaks" \in Findings(p)
  /\ Stage(p)

ContractHonoured(p) ==
  /\ At(p, "verify", "locking")
  /\ "passes" \in Findings(p)
  /\ Stage(p)
  /\ UNCHANGED cause

Verify(p) ==
  /\ NoArtifact(p) \/ ContractBroken(p) \/ ContractHonoured(p)
  /\ UNCHANGED <<recipeCache, job, place, sha, seen, stores, answer, published, outside>>

-----------------------------------------------------------------------------
(* Publication, of an entity and of a world, each under its own lock.      *)

WorldAt(p) == [world |-> job[p].world, refs |-> seen[p]]
Target(p) == IF InWorld(p) THEN WorldAt(p) ELSE Address(p)

\* What is staged is moved to the failure store.
KeepFailure(p) ==
  /\ At(p, "failing", "raised")
  /\ failures' = failures \cup {[at |-> Target(p), staged |-> staging[p]]}
  /\ staging' = [staging EXCEPT ![p] = Empty]
  /\ UNCHANGED <<recipeCache, job, place, sha, seen, entries, worlds, locks, replies, outside>>

Holder(target) == {lock.by : lock \in {held \in locks : held.on = target}}

TakeLock(p) ==
  /\ At(p, "locking", "locked")
  /\ Holder(Target(p)) = {}
  /\ locks' = locks \cup {[on |-> Target(p), by |-> p]}
  /\ UNCHANGED cause

\* Mutants: the compiler that gives up removes the lock it never had; it never gives up.
LockTimeoutReleases(p) ==
  /\ Fails(p, "locking", "locked", "raised")
  /\ Holder(Target(p)) # {}
  /\ locks' = {held \in locks : held.on # Target(p)}

LockTimeoutNever(p) ==
  /\ Fails(p, "locking", "locked", "raised")
  /\ Holder(Target(p)) = {Empty}
  /\ UNCHANGED locks

\* The wait itself changes nothing.  What is staged stays where it is.
LockTimeout(p) ==
  /\ Fails(p, "locking", "locked", "raised")
  /\ Holder(Target(p)) # {}
  /\ UNCHANGED locks

Lock(p) ==
  /\ TakeLock(p) \/ LockTimeout(p)
  /\ UNCHANGED <<recipeCache, job, place, sha, seen, staging, entries, worlds, failures,
                 answer, published, outside>>

Vacant(p) ==
  /\ At(p, "locked", "publishing")
  /\ entries[Address(p)] = Empty
  /\ UNCHANGED <<entries, failures, seen, staging, cause>>

\* Another compiler won: its proof is returned, its checks not computed again, and the
\* one in staging deleted.
Reuse(p) ==
  /\ At(p, "locked", "unlocking")
  /\ KindAt(Address(p)) \in Accepted
  /\ See(p, entries[Address(p)])
  /\ staging' = [staging EXCEPT ![p] = Empty]
  /\ UNCHANGED <<entries, failures, cause>>

UnreadableEntry(p) ==
  /\ Fails(p, "locked", "entity proof", "unlocking")
  /\ entries[Address(p)] # Empty
  /\ KindAt(Address(p)) \in {"unreadable", "missing"}
  /\ UNCHANGED <<entries, failures, seen, staging>>

\* A mutant: whatever is found makes room.
QuarantineAny(p) ==
  /\ At(p, "locked", "publishing")
  /\ KindAt(Address(p)) \in Accepted \cup {"edited"}
  /\ failures' = failures \cup {[at |-> Address(p), staged |-> entries[Address(p)]]}
  /\ entries' = [entries EXCEPT ![Address(p)] = Empty]
  /\ UNCHANGED <<seen, staging, cause>>

Quarantine(p) ==
  /\ At(p, "locked", "publishing")
  /\ KindAt(Address(p)) = "edited"
  /\ failures' = failures \cup {[at |-> Address(p), staged |-> entries[Address(p)]]}
  /\ entries' = [entries EXCEPT ![Address(p)] = Empty]
  /\ UNCHANGED <<seen, staging, cause>>

LookAgain(p) ==
  /\ ~InWorld(p)
  /\ Vacant(p) \/ Reuse(p) \/ UnreadableEntry(p) \/ Quarantine(p)
  /\ UNCHANGED <<recipeCache, job, place, sha, worlds, locks, answer, published, outside>>

\* os.rename: nobody else may have filled the address meanwhile.
Publish(p) ==
  /\ At(p, "publishing", "unlocking")
  /\ entries' = [entries EXCEPT ![Address(p)] = staging[p]]
  /\ See(p, staging[p])
  /\ staging' = [staging EXCEPT ![p] = Empty]
  /\ UNCHANGED <<recipeCache, job, place, sha, worlds, locks, failures, replies, outside>>

\* The lock is released on every way out, and compile_entity returns the proof it
\* published or found.
UnlockEntity(p) ==
  /\ ~InWorld(p)
  /\ \/ /\ Return(p, "unlocking")
        /\ cause[p] = "none"
     \/ /\ At(p, "unlocking", "raised")
        /\ cause[p] # "none"
        /\ UNCHANGED <<answer, place, sha>>
  /\ seen' = [seen EXCEPT ![p] = Empty]
  /\ UNCHANGED published

-----------------------------------------------------------------------------
(* compile_world, once every document is compiled.                         *)

\* The scenario has other entities, contracts or wires than the world, or it does not run.
Scenario(p) ==
  /\ \/ /\ Fails(p, "scenario", "scenario", "raised")
        /\ WorldVerdict[job[p].world] = "mismatch"
     \/ /\ At(p, "scenario", "bind")
        /\ WorldVerdict[job[p].world] # "mismatch"
        /\ UNCHANGED cause
  /\ UNCHANGED <<recipeCache, job, place, sha, seen, staging, stores, answer, published, outside>>

\* A mutant: the address is that of the asset that is now in the recipe cache.
OnDiskByAsset(p) ==
  [i \in DOMAIN job[p].docs |->
     LET doc == job[p].docs[i]
         held == assets[RecipeOf[doc]]
         at == IF held # Empty /\ held.vouched THEN [doc |-> doc, sha |-> held.files]
               ELSE answer[<<p, i>>].at
     IN [at |-> at, proof |-> entries[at]]]

\* The entity proofs are hashed as they are now on disk, under the addresses that
\* compile_entity returned; then the world's staging directory is made.
OnDisk(p) ==
  [i \in DOMAIN job[p].docs |->
     [at |-> answer[<<p, i>>].at, proof |-> entries[answer[<<p, i>>].at]]]

\* A mutant: a proof that is gone is bound too.
ReadableAny(ref) == TRUE

Readable(ref) == ref.proof # Empty /\ ref.proof.kind # "missing"

Bind(p) ==
  /\ \/ /\ At(p, "bind", "judge")
        /\ \A i \in DOMAIN job[p].docs : Readable(OnDisk(p)[i])
        /\ seen' = [seen EXCEPT ![p] = OnDisk(p)]
        /\ staging' = [staging EXCEPT ![p] = OnDisk(p)]
        /\ UNCHANGED cause
     \/ /\ Fails(p, "bind", "entity proof", "raised")
        /\ \E i \in DOMAIN job[p].docs : ~Readable(OnDisk(p)[i])
        /\ UNCHANGED <<seen, staging>>
  /\ UNCHANGED <<recipeCache, job, place, sha, stores, answer, published, outside>>

Unprovable(p) ==
  /\ Fails(p, "judge", "properties", "raised")
  /\ WorldVerdict[job[p].world] = "unprovable"
  /\ staging' = [staging EXCEPT ![p] = Empty]

WorldBroken(p) ==
  /\ Fails(p, "judge", "contract", "failing")
  /\ WorldVerdict[job[p].world] = "breaks"
  /\ UNCHANGED staging

WorldHolds(p) ==
  /\ At(p, "judge", "locking")
  /\ WorldVerdict[job[p].world] = "passes"
  /\ UNCHANGED <<staging, cause>>

JudgeScenario(p) ==
  /\ Unprovable(p) \/ WorldBroken(p) \/ WorldHolds(p)
  /\ UNCHANGED <<recipeCache, job, place, sha, seen, stores, answer, published, outside>>

Stored(key) == {w \in worlds : w.at = key}

\* A world that is already there stays, unread, and its twin in staging is deleted.
PublishWorld(p) ==
  /\ InWorld(p)
  /\ At(p, "locked", "unlocking")
  /\ worlds' = IF Stored(WorldAt(p)) # {} THEN worlds
               ELSE worlds \cup {[at |-> WorldAt(p), kind |-> "genuine"]}
  /\ staging' = [staging EXCEPT ![p] = Empty]
  /\ UNCHANGED <<recipeCache, job, place, sha, seen, entries, locks, failures,
                 replies, outside>>

UnlockWorld(p) ==
  /\ InWorld(p)
  /\ At(p, "unlocking", "done")
  /\ published' = [published EXCEPT ![p] = WorldAt(p)]
  /\ seen' = [seen EXCEPT ![p] = Empty]
  /\ UNCHANGED <<answer, place, sha>>

Unlock(p) ==
  /\ UnlockEntity(p) \/ UnlockWorld(p)
  /\ locks' = locks \ {[on |-> Target(p), by |-> p]}
  /\ UNCHANGED <<recipeCache, job, staging, entries, worlds, failures, cause, outside>>

-----------------------------------------------------------------------------
(* From outside.                                                           *)

KillCompiler(p) ==
  /\ pc[p] \notin Stopped
  /\ crashes < MaxCrashes
  /\ crashes' = crashes + 1
  /\ pc' = [pc EXCEPT ![p] = "crashed"]
  /\ UNCHANGED <<recipeCache, job, place, sha, seen, staging, stores, replies,
                 entryTouches, assetTouches, tampers>>

Tampering == tampers < MaxTampers /\ tampers' = tampers + 1

TamperAsset(r) ==
  /\ Tampering
  /\ Assets!Damage(r)
  /\ assets'[r] # Empty => assets'[r].files \in {assets[r].files, Spoiled}
  /\ assetTouches' = [assetTouches EXCEPT ![r] = @ + 1]
  /\ UNCHANGED <<job, pc, place, sha, seen, staging, stores, replies, entryTouches, crashes>>

TamperEntry(a) ==
  /\ Tampering
  /\ entries[a] # Empty
  /\ \E left \in {Empty} \cup {[entries[a] EXCEPT !.kind = kind] :
                                  kind \in ProofStates \ {"genuine"}} :
       entries' = [entries EXCEPT ![a] = left]
  /\ entryTouches' = [entryTouches EXCEPT ![a] = @ + 1]
  /\ UNCHANGED <<recipeCache, job, pc, place, sha, seen, staging, worlds, locks, failures,
                 replies, assetTouches, crashes>>

TamperWorld(w) ==
  /\ Tampering
  /\ \E left \in {{}, {[w EXCEPT !.kind = "edited"]}} : worlds' = (worlds \ {w}) \cup left
  /\ UNCHANGED <<recipeCache, job, pc, place, sha, seen, staging, entries, locks, failures,
                 replies, entryTouches, assetTouches, crashes>>

-----------------------------------------------------------------------------
CompilerStep(p) ==
  \/ Cook(p) \/ Hash(p) \/ LookUp(p) \/ Recheck(p) \/ Verify(p)
  \/ KeepFailure(p) \/ Lock(p) \/ LookAgain(p) \/ Publish(p) \/ Unlock(p)
  \/ Scenario(p) \/ Bind(p) \/ JudgeScenario(p) \/ PublishWorld(p)

CompilerNext ==
  \/ \E p \in Compilers : CompilerStep(p) \/ KillCompiler(p)
  \/ \E r \in Recipes : EvictAsset(r) \/ TamperAsset(r)
  \/ \E a \in Addresses : TamperEntry(a)
  \/ \E w \in worlds : TamperWorld(w)

\* Compilers are processes the system schedules.  A cook that finds a package
\* without its proof evicts it itself, so that eviction is a step of a process too.
CompilerSpec ==
  /\ CompilerInit
  /\ [][CompilerNext]_compilerVars
  /\ \A p \in Compilers : WF_compilerVars(CompilerStep(p))

-----------------------------------------------------------------------------
CompilerTypeOK ==
  /\ job \in Jobs
  /\ pc \in [Compilers -> Steps]
  /\ place \in [Compilers -> 1 .. MaxDocs + 1]
  /\ sha \in [Compilers -> Shas \cup {Empty}]
  /\ entries \in [Addresses -> Proof \cup {Empty}]
  /\ \A w \in worlds : w.at \in WorldKey /\ w.kind \in {"genuine", "edited"}
  /\ \A lock \in locks : lock.on \in Addresses \cup WorldKey /\ lock.by \in Compilers
  /\ \A p \in Compilers : staging[p] # Empty =>
       IF InWorld(p) THEN staging[p] \in Seq(Ref) ELSE staging[p] \in Proof
  /\ \A p \in Compilers : seen[p] # Empty =>
       IF InWorld(p) THEN seen[p] \in Seq(Ref) ELSE seen[p] \in Seen
  /\ answer \in [Calls -> Seen \cup {Empty}]
  /\ \A p \in Compilers : published[p] \in WorldKey \cup {Empty}

\* One publisher per address in both stores: whoever is under a lock holds it
\* alone, a lock nobody is under was left by a killed process, and the address
\* that is about to be renamed into is vacant.
LockDiscipline ==
  /\ \A p \in Compilers : pc[p] \in Critical => Holder(Target(p)) = {p}
  /\ \A lock \in locks : pc[lock.by] \in Critical \cup {"crashed"}
  /\ \A p \in Compilers : pc[p] = "publishing" => entries[Address(p)] = Empty

\* An entity proof is about one asset: while nobody tampers with the asset's
\* address, the proof under (document, asset proof) was computed on the files of
\* the package that carries this very asset proof, that package honours the
\* contract, and it is still what the recipe cache holds unless it was never stored.
ChainClosed ==
  \A a \in Addresses :
    entries[a] # Empty /\ assetTouches[RecipeOf[a.doc]] = 0 =>
      /\ a.doc \in Honoured
      /\ entries[a].asset = a.sha /\ entries[a].checked = a.sha
      /\ \/ assets[RecipeOf[a.doc]] = [files |-> a.sha, vouched |-> TRUE]
         \/ job[a.sha[1]].noCache

\* What compile_entity returned stands: until somebody tampers with the entry
\* again, it is under its address as it was returned, whatever other compilers of
\* the document publish or quarantine.
AnswersStand ==
  \A c \in Calls :
    answer[c] # Empty /\ answer[c].touches = entryTouches[answer[c].at] =>
      entries[answer[c].at] = answer[c].proof

\* A world proof binds, for each of its documents in order, the entity proof that
\* was returned for it, and that is still there while nobody tampers with it.
WorldsBind ==
  \A p \in Compilers :
    published[p] # Empty =>
      \A i \in DOMAIN job[p].docs :
        LET ref == published[p].refs[i] IN
          /\ ref.at.doc = job[p].docs[i]
          /\ entryTouches[ref.at] = 0 =>
               ref.proof = answer[<<p, i>>].proof /\ entries[ref.at] = ref.proof

\* Together: from a world's proof down to the files that were checked, the hashes
\* name what is there.
ChainBinds == ChainClosed /\ WorldsBind

\* Every compiler ends, whoever crashed with a lock.
CompilersEnd == \A p \in Compilers : <>(pc[p] \in Stopped)
=============================================================================
