---------------------------- MODULE EngineSource ----------------------------
(***************************************************************************)
(* The engine's sources, templates and their provenance                    *)
(* (engine/scripts/engine.py, patch_series.py, rebase.py, emdawn_port.py   *)
(* and the identity check of tools/godot/export_game.py): `fetch` makes    *)
(* the patched worktree, `build` compiles it and installs and stamps the   *)
(* templates, `rebase` tries the series on a newer Godot, `record` accepts *)
(* the templates' bytes and an export uses them.  Each command is a        *)
(* process of its own: it reads the lock once, may be killed between any   *)
(* two steps (the fetch of studio-mcp has a time limit), and another shell *)
(* may run another.  In between the developer pulls, edits the sources and *)
(* moves caches aside, never under a command that reads or writes them.    *)
(***************************************************************************)
EXTENDS Integers, Sequences

CONSTANTS
  Shells,
  CommandsOf,  \* shell -> the commands given in it
  LockCount,   \* the lock's versions are 1 .. LockCount, in the order they are pulled
  BaseOf,      \* version -> the official commit the series is for
  SeriesOf,    \* version -> the ordered patches
  PortOf,      \* version -> the locked Emdawn port
  Newer,       \* the official commit a rebase tries
  Backend,     \* the patch without which a template lacks the WebGPU marks
  Nothing,     \* no directory, no file, no answer
  MaxRuns, MaxKills, MaxHands

Versions == 1 .. LockCount
Commands == {"fetch", "build", "rebase", "record", "export"}

ASSUME LocksAreWhole ==
  /\ LockCount \in Nat \ {0} /\ MaxRuns \in Nat /\ MaxKills \in Nat /\ MaxHands \in Nat
  /\ DOMAIN SeriesOf = Versions /\ DOMAIN BaseOf = Versions /\ DOMAIN PortOf = Versions
  /\ \A v \in Versions : Len(SeriesOf[v]) > 0 /\ BaseOf[v] # Newer
  /\ \A v \in Versions : SeriesOf[v] \in Seq({SeriesOf[v][i] : i \in DOMAIN SeriesOf[v]})
  /\ \A s \in Shells : CommandsOf[s] \subseteq Commands

\* What there can be: sources, the trees that hold them with a state or none, ports,
\* templates and their stamps.
Commits   == {BaseOf[v] : v \in Versions} \cup {Newer}
Patches   == UNION {{SeriesOf[v][i] : i \in DOMAIN SeriesOf[v]} : v \in Versions}
Ports     == {PortOf[v] : v \in Versions}
SourceSet == [base : Commits, applied : Seq(Patches), conflict : BOOLEAN, edited : BOOLEAN,
              strayed : BOOLEAN]
PrintSet  == [applied : Seq(Patches), conflict : BOOLEAN, edited : BOOLEAN]
SeriesSet == [base : Commits, patches : Seq(Patches)]
StateSet  == [series : SeriesSet, tree : PrintSet]
TreeSet   == [sources : SourceSet, state : StateSet \cup {Nothing}]
PortSet   == [of : Ports, patched : BOOLEAN, state : Ports \cup {Nothing}]
TemplateSet == [by : 0 .. MaxRuns, of : SourceSet \cup {Nothing}]
PairSet   == [release : TemplateSet \cup {Nothing}, debug : TemplateSet \cup {Nothing},
              stamp : SeriesSet \cup {Nothing}]

ASSUME NothingIsNoThing ==
  Nothing \notin Ports \cup SourceSet \cup SeriesSet \cup StateSet \cup TreeSet \cup PortSet \cup TemplateSet

VARIABLES
  lock,        \* the version in the checkout, with its patch files
  cloned,      \* the official clone is there
  registered,  \* git lists the patched worktree
  tree,        \* the patched worktree
  workspace,   \* the candidate of a rebase
  branch,      \* its branch exists
  port,        \* the cached Emdawn port
  templates,   \* place -> the installed pair and its stamp
  recorded,    \* the pair accepted into the lock
  shells,      \* shell -> the command being run
  runs, kills, hands,
  torn         \* history: the builds that ended between their two renames

engineVars == <<lock, cloned, registered, tree, workspace, branch, port, templates, recorded,
                shells, runs, kills, hands, torn>>

\* Sources: what was checked out, patched in, left in conflict and edited by hand, in a
\* file that some patch names or (strayed) in any other.
Sources(base, applied) ==
  [base |-> base, applied |-> applied, conflict |-> FALSE, edited |-> FALSE, strayed |-> FALSE]

Whole(v) == Sources(BaseOf[v], SeriesOf[v])

\* _patch_tree_fingerprint: the files that the patches name, and no other.
Fingerprint(sources) ==
  [applied |-> sources.applied, conflict |-> sources.conflict, edited |-> sources.edited]

\* What a series id stands for, and what patch_state and the fingerprint write.
SeriesId(v)       == [base |-> BaseOf[v], patches |-> SeriesOf[v]]
State(v, sources) == [series |-> SeriesId(v), tree |-> Fingerprint(sources)]

Empty == [release |-> Nothing, debug |-> Nothing, stamp |-> Nothing]

\* k: the next patch.  build: the run a template is made by.  read: what the command
\* has read or made so far.
Quiet == [at |-> "prompt", mine |-> 1, place |-> "locked", k |-> 0, build |-> 0,
          read |-> Empty, said |-> "nothing"]
EngineInit ==
  /\ lock = 1 /\ cloned = FALSE /\ registered = FALSE
  /\ tree = Nothing /\ workspace = Nothing /\ branch = FALSE /\ port = Nothing
  /\ templates = [place \in {"locked", "candidate"} |-> Empty]
  /\ recorded = Empty
  /\ shells = [s \in Shells |-> Quiet]
  /\ runs = 0 /\ kills = 0 /\ hands = 0 /\ torn = {}

-----------------------------------------------------------------------------
(* A shell's command. *)

At(s, here) == shells[s].at = here
LockRead(s) == shells[s].mine

GoesTo(s, there) == shells' = [shells EXCEPT ![s].at = there]

\* The command ends and the shell shows what it said.
Says(s, word) == shells' = [shells EXCEPT ![s] = [Quiet EXCEPT !.said = word, !.mine = LockRead(s)]]

Begin(s) ==
  /\ At(s, "prompt") /\ runs < MaxRuns
  /\ runs' = runs + 1
  /\ \E command \in CommandsOf[s], place \in {"locked", "candidate"} :
       /\ place = "candidate" => command = "build"
       /\ shells' = [shells EXCEPT ![s] =
                       [Quiet EXCEPT !.at = command, !.mine = lock, !.place = place, !.build = runs + 1]]
  /\ UNCHANGED <<lock, cloned, registered, tree, workspace, branch, port, templates, recorded,
                 kills, torn, hands>>

\* A build that ends here may have moved one template and not the other.
Tears(s) == torn' = IF At(s, "second") THEN torn \cup {shells[s].build} ELSE torn

\* The processes of other commands go on; what this one did so far stays.
KillCommand(s) ==
  /\ ~At(s, "prompt") /\ kills < MaxKills
  /\ kills' = kills + 1
  /\ Says(s, "killed") /\ Tears(s)
  /\ UNCHANGED <<lock, cloned, registered, tree, workspace, branch, port, templates, recorded,
                 runs, hands>>

OnlyShells == UNCHANGED <<lock, cloned, registered, tree, workspace, branch, port, templates,
                          recorded, runs, kills, torn, hands>>

-----------------------------------------------------------------------------
(* fetch. *)

\* The network, git or the disk may fail; a clone that is there is used again.
FetchRepo(s) ==
  /\ At(s, "fetch")
  /\ UNCHANGED <<lock, registered, tree, workspace, branch, port, templates, recorded, runs,
                 kills, torn, hands>>
  /\ \/ Says(s, "error") /\ UNCHANGED cloned
     \/ GoesTo(s, "prepare") /\ cloned' = TRUE

\* A mutant: a state file of this lock is enough.
AcceptedByState(v) == tree.state # Nothing /\ tree.state.series = SeriesId(v)

\* The worktree carries the state of this lock, and no file its patches name has changed
\* since.
Accepted(v) == tree.state = State(v, tree.sources)

PrepareExisting(s) ==
  /\ At(s, "prepare") /\ tree # Nothing
  /\ Says(s, IF Accepted(LockRead(s)) THEN "ready" ELSE "error")
  /\ OnlyShells

\* git refuses a path it still lists, though nothing is there any more.
AddWorktree(s) ==
  /\ At(s, "prepare") /\ tree = Nothing
  /\ UNCHANGED <<lock, cloned, workspace, branch, port, templates, recorded, runs, kills, torn, hands>>
  /\ \/ Says(s, "error") /\ UNCHANGED <<registered, tree>>
     \/ /\ ~registered
        /\ registered' = TRUE
        /\ tree' = [sources |-> Sources(BaseOf[LockRead(s)], <<>>), state |-> Nothing]
        /\ shells' = [shells EXCEPT ![s].at = "patch", ![s].k = 1]

\* A mutant: the state is written before the patches are applied.
ApplyPatchStateFirst(s) ==
  /\ At(s, "patch") /\ shells[s].k <= Len(SeriesOf[LockRead(s)])
  /\ UNCHANGED <<lock, cloned, registered, workspace, branch, port, templates, recorded, runs,
                 kills, torn, hands>>
  /\ \/ Says(s, "error") /\ UNCHANGED tree
     \/ /\ tree' = LET patched == [tree.sources EXCEPT !.applied = Append(@, SeriesOf[LockRead(s)][shells[s].k])]
                   IN [tree EXCEPT !.sources = patched, !.state = State(LockRead(s), patched)]
        /\ shells' = [shells EXCEPT ![s].k = @ + 1]

\* Each patch is tried and applied; the first that does not fit ends the command.
ApplyPatch(s) ==
  /\ At(s, "patch") /\ shells[s].k <= Len(SeriesOf[LockRead(s)])
  /\ UNCHANGED <<lock, cloned, registered, workspace, branch, port, templates, recorded, runs,
                 kills, torn, hands>>
  /\ \/ Says(s, "error") /\ UNCHANGED tree
     \/ /\ tree' = [tree EXCEPT !.sources.applied = Append(@, SeriesOf[LockRead(s)][shells[s].k])]
        /\ shells' = [shells EXCEPT ![s].k = @ + 1]

WriteState(s) ==
  /\ At(s, "patch") /\ shells[s].k > Len(SeriesOf[LockRead(s)])
  /\ tree' = [tree EXCEPT !.state = State(LockRead(s), tree.sources)]
  /\ Says(s, "ready")
  /\ UNCHANGED <<lock, cloned, registered, workspace, branch, port, templates, recorded, runs,
                 kills, torn, hands>>

-----------------------------------------------------------------------------
(* rebase. *)

\* A mutant: a workspace without conflicts is taken for a series that applied.
FoundHopeful == IF workspace.conflict THEN "conflicts" ELSE "patches_applied"

\* _existing_workspace_status: what git says of a workspace that is already there.
Found == IF workspace.conflict THEN "conflicts" ELSE "workspace_exists"

LookAtWorkspace(s) ==
  /\ At(s, "rebase")
  /\ UNCHANGED <<lock, cloned, registered, tree, port, templates, recorded, runs, kills, torn, hands>>
  /\ \/ cloned /\ workspace # Nothing /\ Says(s, Found) /\ UNCHANGED <<workspace, branch>>
     \/ /\ cloned /\ workspace = Nothing
        /\ \E word \in {"up_to_date", "planned"} : Says(s, word)
        /\ UNCHANGED <<workspace, branch>>
     \/ /\ ~cloned \/ (workspace = Nothing /\ branch)
        /\ Says(s, "error") /\ UNCHANGED <<workspace, branch>>
     \/ /\ cloned /\ workspace = Nothing /\ ~branch
        /\ workspace' = Sources(Newer, <<>>) /\ branch' = TRUE
        /\ shells' = [shells EXCEPT ![s].at = "threeway", ![s].k = 1]

\* A patch applies, leaves conflicts behind, or fails without any.
ThreeWay(s) ==
  /\ At(s, "threeway") /\ shells[s].k <= Len(SeriesOf[LockRead(s)])
  /\ UNCHANGED <<lock, cloned, registered, tree, branch, port, templates, recorded, runs, kills, torn,
                 hands>>
  /\ \/ /\ workspace' = [workspace EXCEPT !.applied = Append(@, SeriesOf[LockRead(s)][shells[s].k])]
        /\ shells' = [shells EXCEPT ![s].k = @ + 1]
     \/ workspace' = [workspace EXCEPT !.conflict = TRUE] /\ Says(s, "conflicts")
     \/ Says(s, "error") /\ UNCHANGED workspace

SeriesApplied(s) ==
  /\ At(s, "threeway") /\ shells[s].k > Len(SeriesOf[LockRead(s)])
  /\ Says(s, "patches_applied")
  /\ OnlyShells

-----------------------------------------------------------------------------
(* build: the port first, then the two templates. *)

SourceOf(place) ==
  IF place = "candidate" THEN workspace ELSE IF tree = Nothing THEN Nothing ELSE tree.sources

\* No sources, or not the locked Emscripten: the build does not begin.
LookAtSource(s) ==
  /\ At(s, "build")
  /\ OnlyShells
  /\ \/ Says(s, "error")
     \/ SourceOf(shells[s].place) # Nothing /\ GoesTo(s, "port")

\* A mutant: a port that was patched is used, whatever its state says.
PortReadyUnlocked(v) == port.patched

PortReady(v) == port.patched /\ port.of = PortOf[v] /\ port.state = PortOf[v]

\* prepare_locked_emdawn_port: a port that is there is used or refused, never repaired.
PreparePort(s) ==
  /\ At(s, "port")
  /\ UNCHANGED <<lock, cloned, registered, tree, workspace, branch, templates, recorded, runs,
                 kills, torn, hands>>
  /\ \/ Says(s, "error") /\ UNCHANGED port
     \/ port # Nothing /\ PortReady(LockRead(s)) /\ GoesTo(s, "release") /\ UNCHANGED port
     \/ /\ port = Nothing
        /\ port' = [of |-> PortOf[LockRead(s)], patched |-> FALSE, state |-> Nothing]
        /\ GoesTo(s, "patchport")

\* A patch that does not fit takes the copy away with it.
PatchPort(s) ==
  /\ At(s, "patchport")
  /\ UNCHANGED <<lock, cloned, registered, tree, workspace, branch, templates, recorded, runs,
                 kills, torn, hands>>
  /\ \/ Says(s, "error") /\ port' = Nothing
     \/ GoesTo(s, "stateport") /\ port' = [port EXCEPT !.patched = TRUE]

WritePortState(s) ==
  /\ At(s, "stateport")
  /\ port' = [port EXCEPT !.state = PortOf[LockRead(s)]]
  /\ GoesTo(s, "release")
  /\ UNCHANGED <<lock, cloned, registered, tree, workspace, branch, templates, recorded, runs,
                 kills, torn, hands>>

\* A template: the run that made it and the sources it was compiled from.
Template(s) == [by |-> shells[s].build, of |-> SourceOf(shells[s].place)]

\* A mutant: each template is installed as soon as it is linked.
CompileInstalling(s) ==
  /\ UNCHANGED <<lock, cloned, registered, tree, workspace, branch, port, recorded, runs, kills, torn,
                 hands>>
  /\ \/ /\ At(s, "release")
        /\ shells' = [shells EXCEPT ![s].at = "debug", ![s].read.release = Template(s)]
        /\ templates' = [templates EXCEPT ![shells[s].place].release = Template(s)]
     \/ /\ At(s, "debug") /\ UNCHANGED templates
        /\ shells' = [shells EXCEPT ![s].at = "stage", ![s].read.debug = Template(s)]
     \/ (At(s, "release") \/ At(s, "debug")) /\ Says(s, "error") /\ UNCHANGED templates

\* scons, release then debug, from the sources as they are then.
Compile(s) ==
  /\ OnlyShells
  /\ \/ /\ At(s, "release")
        /\ shells' = [shells EXCEPT ![s].at = "debug", ![s].read.release = Template(s)]
     \/ /\ At(s, "debug")
        /\ shells' = [shells EXCEPT ![s].at = "stage", ![s].read.debug = Template(s)]
     \/ (At(s, "release") \/ At(s, "debug")) /\ Says(s, "error")

HasBackend(template) == \E i \in DOMAIN template.of.applied : template.of.applied[i] = Backend

\* _validate_webgpu_template on both archives, and a copy of each, before either is moved.
Stage(s) ==
  /\ At(s, "stage")
  /\ OnlyShells
  /\ \/ Says(s, "error")
     \/ /\ HasBackend(shells[s].read.release) /\ HasBackend(shells[s].read.debug)
        /\ GoesTo(s, "install")

\* A mutant: a candidate is installed over the locked integration's templates.
PlaceAlways(s) == "locked"

Place(s) == shells[s].place

\* Two renames, then the stamp of the lock this command has read; a stamp that cannot be
\* made is a warning. Each rename and the writing of the stamp may fail, and what was done
\* before stays.
Install(s) ==
  /\ \/ /\ At(s, "install") /\ GoesTo(s, "second") /\ UNCHANGED torn
        /\ templates' = [templates EXCEPT ![Place(s)].release = shells[s].read.release]
     \/ /\ At(s, "second") /\ GoesTo(s, "stamp") /\ UNCHANGED torn
        /\ templates' = [templates EXCEPT ![Place(s)].debug = shells[s].read.debug]
     \/ /\ At(s, "stamp") /\ Says(s, "built") /\ UNCHANGED torn
        /\ templates' \in {templates, [templates EXCEPT ![Place(s)].stamp = SeriesId(LockRead(s))]}
     \/ /\ shells[s].at \in {"install", "second", "stamp"} /\ Says(s, "error") /\ Tears(s)
        /\ UNCHANGED templates
  /\ UNCHANGED <<lock, cloned, registered, tree, workspace, branch, port, recorded, runs, kills,
                 hands>>

-----------------------------------------------------------------------------
(* record-artifacts, and an export. *)

\* A missing template is an error; only a pair is written into the lock.
RecordArtifacts(s) ==
  /\ \/ /\ At(s, "record") /\ UNCHANGED recorded
        /\ shells' = [shells EXCEPT ![s].at = "record debug",
                                    ![s].read.release = templates["locked"].release]
     \/ /\ At(s, "record debug")
        /\ LET pair == [shells[s].read EXCEPT !.debug = templates["locked"].debug]
           IN IF Nothing \in {pair.release, pair.debug}
              THEN Says(s, "error") /\ UNCHANGED recorded
              ELSE Says(s, "recorded") /\ recorded' = pair
  /\ UNCHANGED <<lock, cloned, registered, tree, workspace, branch, port, templates, runs, kills, torn,
                 hands>>

\* _webgpu_template_identity_problem: templates without a stamp are let through.
CheckIdentity(s) ==
  /\ At(s, "export")
  /\ OnlyShells
  /\ LET there == templates["locked"]
     IN IF \/ there.release = Nothing /\ there.debug = Nothing
           \/ there.stamp \notin {Nothing, SeriesId(LockRead(s))}
        THEN Says(s, "error")
        ELSE shells' = [shells EXCEPT ![s].at = "use", ![s].read.stamp = there.stamp]

\* Godot takes the one template the export is for.
UseTemplate(s) ==
  /\ At(s, "use")
  /\ OnlyShells
  /\ \E profile \in {"release", "debug"} :
       IF templates["locked"][profile] = Nothing THEN Says(s, "error")
       ELSE shells' = [shells EXCEPT ![s] =
              [Quiet EXCEPT !.said = "exported", !.mine = LockRead(s),
                            !.read = [shells[s].read EXCEPT ![profile] = templates["locked"][profile]]]]

-----------------------------------------------------------------------------
(* The developer. *)

\* A pull changes the lock and the patch files, never under a command that applies them.
Pull ==
  /\ lock < LockCount
  /\ \A s \in Shells : shells[s].at \notin {"fetch", "prepare", "patch", "rebase", "threeway"}
  /\ lock' = lock + 1
  /\ UNCHANGED <<cloned, registered, tree, workspace, branch, port, templates, recorded, shells,
                 runs, kills, torn, hands>>

Unattended == \A s \in Shells : shells[s].at \in {"prompt", "record", "record debug", "export", "use"}

\* Sources are edited and caches moved aside.
Hand ==
  /\ hands < MaxHands /\ Unattended
  /\ hands' = hands + 1
  /\ UNCHANGED <<lock, cloned, branch, templates, recorded, shells, runs, kills, torn>>
  /\ \/ /\ tree # Nothing
        /\ tree' \in {Nothing, [tree EXCEPT !.sources.edited = TRUE], [tree EXCEPT !.sources.strayed = TRUE]}
        /\ UNCHANGED <<registered, workspace, port>>
     \/ /\ workspace # Nothing
        /\ workspace' \in {Nothing, [workspace EXCEPT !.conflict = FALSE, !.edited = TRUE]}
        /\ UNCHANGED <<registered, tree, port>>
     \/ /\ port # Nothing
        /\ port' \in {Nothing, [port EXCEPT !.patched = FALSE]}
        /\ UNCHANGED <<registered, tree, workspace>>

\* git forgets the worktree that was moved.
Prune ==
  /\ Unattended /\ registered /\ tree = Nothing
  /\ registered' = FALSE
  /\ UNCHANGED <<lock, cloned, tree, workspace, branch, port, templates, recorded, shells, runs,
                 kills, torn, hands>>

-----------------------------------------------------------------------------
CommandStep(s) ==
  \/ FetchRepo(s) \/ PrepareExisting(s) \/ AddWorktree(s) \/ ApplyPatch(s) \/ WriteState(s)
  \/ LookAtWorkspace(s) \/ ThreeWay(s) \/ SeriesApplied(s)
  \/ LookAtSource(s) \/ PreparePort(s) \/ PatchPort(s) \/ WritePortState(s)
  \/ Compile(s) \/ Stage(s) \/ Install(s)
  \/ RecordArtifacts(s) \/ CheckIdentity(s) \/ UseTemplate(s)

EngineNext ==
  \/ \E s \in Shells : Begin(s) \/ CommandStep(s) \/ KillCommand(s)
  \/ Pull \/ Hand \/ Prune

EngineSpec == EngineInit /\ [][EngineNext]_engineVars

-----------------------------------------------------------------------------
(* What the commands promise. *)

Stops ==
  {"prompt", "fetch", "prepare", "patch", "rebase", "threeway", "build", "port", "patchport",
   "stateport", "release", "debug", "stage", "install", "second", "stamp", "record",
   "record debug", "export", "use"}
Words ==
  {"nothing", "killed", "error", "ready", "conflicts", "workspace_exists", "up_to_date", "planned",
   "patches_applied", "built", "recorded", "exported"}
ShellSet ==
  [at : Stops, mine : Versions, place : {"locked", "candidate"}, k : Nat, build : 0 .. MaxRuns,
   read : PairSet, said : Words]

EngineTypeOK ==
  /\ lock \in Versions /\ {cloned, registered, branch} \subseteq BOOLEAN
  /\ tree \in TreeSet \cup {Nothing} /\ workspace \in SourceSet \cup {Nothing} /\ port \in PortSet \cup {Nothing}
  /\ templates \in [{"locked", "candidate"} -> PairSet] /\ recorded \in PairSet
  /\ shells \in [Shells -> ShellSet]
  /\ runs \in 0 .. MaxRuns /\ kills \in 0 .. MaxKills /\ hands \in 0 .. MaxHands
  /\ tree # Nothing => registered
  /\ recorded = Empty \/ Nothing \notin {recorded.release, recorded.debug}
  /\ torn \subseteq 0 .. MaxRuns

\* The official commit of a lock with its patches in order, and no edit in a file they name.
WholeWhereNamed(sources, v) ==
  /\ sources.base = BaseOf[v] /\ sources.applied = SeriesOf[v]
  /\ ~sources.conflict /\ ~sources.edited

\* A fetch that says "ready" has made the official commit of its lock with every patch in
\* order and nothing else, or finds it so in every file that the patches name, whatever was
\* killed, pulled or moved before. An edit of another file it does not see.
ReadyIsWhole ==
  \A s \in Shells : shells'[s].said = "ready" =>
    /\ At(s, "patch") => tree' # Nothing /\ tree'.sources = Whole(LockRead(s))
    /\ At(s, "prepare") => tree' # Nothing /\ WholeWhereNamed(tree'.sources, LockRead(s))

\* A rebase says "patches_applied" only of a workspace that holds the whole series on the
\* new commit, and a run that finds a workspace never says so.
AppliedIsWhole ==
  \A s \in Shells : shells'[s].at = "prompt" /\ shells[s].at # "prompt" =>
    (shells'[s].said = "patches_applied" => workspace' = Sources(Newer, SeriesOf[LockRead(s)]))

\* Engine sources are compiled against the port of the lock, patched, and no other.
PortIsLocked ==
  \A s \in Shells : At(s, "release") => port.patched /\ port.of = PortOf[LockRead(s)]

\* What is installed as the locked integration was never a candidate's; and unless a build
\* is between its two renames, both templates are of one build, or the release is of a build
\* that ended there, killed or by an error.
TemplatesBelong ==
  LET there == templates["locked"]
      pair  == {there.release, there.debug}
  IN /\ \A template \in pair \ {Nothing} : template.of.base # Newer
     /\ (\A s \in Shells : ~At(s, "second")) /\ Nothing \notin pair
          => there.release.by = there.debug.by \/ there.release.by \in torn

EngineKeeps == [](EngineTypeOK /\ PortIsLocked /\ TemplatesBelong) /\ [][ReadyIsWhole /\ AppliedIsWhole]_engineVars

\* export_game.py:30, "Refuse to export against templates that are not this patch series":
\* an export under a stamp uses a template that was made of the series of its lock.
ExportIsThisSeries ==
  \A s \in Shells : shells[s].said = "exported" /\ shells[s].read.stamp # Nothing =>
    \A template \in {shells[s].read.release, shells[s].read.debug} \ {Nothing} :
      template.of = Whole(LockRead(s))
=============================================================================
