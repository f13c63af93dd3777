---------------------------- MODULE Tools_proofs ---------------------------
(***************************************************************************)
(* What a developer may rely on of the engine's commands, a page of its    *)
(* host of the kernel, an agent of the pictures it takes and the materials *)
(* it makes, and all of them of the tools side by side: for any number of  *)
(* shells, locks, patches, kills and edits by hand, of objects and loads,  *)
(* of pictures and of materials.                                           *)
(*                                                                         *)
(* The commands share a worktree, a candidate and a port, which others may *)
(* move or leave half made.  The invariant says of each shell what it may  *)
(* count on at the place it is at (AtWork): while it patches, the tree is  *)
(* its own and holds as many patches as it has applied; while it compiles, *)
(* the port is the one its lock names.  That only one shell is at such a   *)
(* place (Alone) is not a lock's doing: the next comer finds the directory *)
(* there.  A state that is written tells of a whole series (TreeIsTrue).   *)
(*                                                                         *)
(* Two templates are of one build only while one shell builds (OneBuilder).*)
(*                                                                         *)
(* A picture puts each thing back by its own hand; what is left of one     *)
(* (RigInv) is all the next may find.                                      *)
(*                                                                         *)
(* A material's name is looked for among as many variants as operations    *)
(* there may be; one is free because each has made one at most (FewMade).  *)
(***************************************************************************)
EXTENDS MCTools, Forge_proofs, IntervalInduction, FiniteSetTheorems, SequenceTheorems

-----------------------------------------------------------------------------
(* The engine's sources: what a command that is at work may count on.      *)

\* The command c patches a tree that is its own; nobody has written its state.
Patching(c, tr) ==
  c.at = "patch" =>
    /\ tr # Nothing /\ tr.state = Nothing /\ c.k \in 1 .. Len(SeriesOf[c.mine]) + 1
    /\ tr.sources = Sources(BaseOf[c.mine], SubSeq(SeriesOf[c.mine], 1, c.k - 1))
Rebasing(c, ws) ==
  c.at = "threeway" =>
    /\ ws # Nothing /\ c.k \in 1 .. Len(SeriesOf[c.mine]) + 1
    /\ ws = Sources(Newer, SubSeq(SeriesOf[c.mine], 1, c.k - 1))

\* It has seen the sources it compiles, and makes the port in three steps.
Sourced(c, tr) ==
  c.place = "locked" /\ c.at \in {"port", "patchport", "stateport", "release", "debug"} => tr # Nothing
Ported(c, po) ==
  c.at \in {"patchport", "stateport", "release"} =>
    /\ po # Nothing /\ po.of = PortOf[c.mine]
    /\ c.at = "patchport" => ~po.patched /\ po.state = Nothing
    /\ c.at = "stateport" => po.patched /\ po.state = Nothing
    /\ c.at = "release" => po.patched /\ po.state = PortOf[c.mine]

\* What it has compiled is of one run, and of locked sources unless it is a candidate.
FromLock(template) == template # Nothing => template.of # Nothing /\ template.of.base # Newer
Compiled(c) ==
  /\ c.at \in {"debug", "stage", "install", "second"} => c.read.release # Nothing
       /\ c.read.release.by = c.build
  /\ c.at \in {"stage", "install", "second"} => c.read.debug # Nothing /\ c.read.debug.by = c.build
  /\ c.place = "locked" /\ c.at \in {"debug", "stage", "install", "second"} => FromLock(c.read.release)
  /\ c.place = "locked" /\ c.at \in {"stage", "install", "second"} => FromLock(c.read.debug)

AtWork(c, tr, ws, po) ==
  /\ c.at # "prompt" => c.said = "nothing"
  /\ Patching(c, tr) /\ Rebasing(c, ws) /\ Sourced(c, tr) /\ Ported(c, po) /\ Compiled(c)
Working == \A s \in Shells : AtWork(shells[s], tree, workspace, port)

\* Some steps are only one shell's at a time.
Lonely == {"patch", "threeway", "patchport", "stateport"}
Alone == \A s, t \in Shells : shells[s].at \in Lonely /\ shells[t].at = shells[s].at => s = t

\* A tree is of a locked commit, and a state that is written tells of a whole series.
TreeIsTrue ==
  tree # Nothing =>
    /\ \E v \in Versions : tree.sources.base = BaseOf[v]
    /\ tree.state # Nothing =>
         \E v \in Versions : tree.state = State(v, Whole(v)) /\ tree.sources.base = BaseOf[v]
WorkspaceIsTrue == workspace # Nothing => branch

Belong == FromLock(templates["locked"].release) /\ FromLock(templates["locked"].debug)

EngineInv == EngineTypeOK /\ Working /\ Alone /\ TreeIsTrue /\ Belong

LEMMA SourceFields ==
  ASSUME NEW base, NEW applied
  PROVE  /\ Sources(base, applied).base = base /\ Sources(base, applied).applied = applied
         /\ \A more : [Sources(base, applied) EXCEPT !.applied = more] = Sources(base, more)
         /\ base \in Commits /\ applied \in Seq(Patches) => Sources(base, applied) \in SourceSet
<1>1. Sources(base, applied).base = base /\ Sources(base, applied).applied = applied
  BY DEF Sources
<1>2. ASSUME NEW more PROVE [Sources(base, applied) EXCEPT !.applied = more] = Sources(base, more)
  <2> DEFINE S(a, f) == [base |-> base, applied |-> a, conflict |-> f, edited |-> f, strayed |-> f]
  <2>1. \A f : [S(applied, f) EXCEPT !.applied = more] = S(more, f)
    OBVIOUS
  <2>2. Sources(base, applied) = S(applied, FALSE) /\ Sources(base, more) = S(more, FALSE)
    BY DEF Sources
  <2> HIDE DEF S
  <2> QED BY <2>1, <2>2, Zenon
<1>3. base \in Commits /\ applied \in Seq(Patches) => Sources(base, applied) \in SourceSet
  BY DEF Sources, SourceSet
<1> QED BY <1>1, <1>2, <1>3

\* The series of a version is a sequence of its patches.
LEMMA SeriesFacts ==
  ASSUME NEW v \in Versions
  PROVE  /\ SeriesOf[v] \in Seq(Patches) /\ Len(SeriesOf[v]) \in Nat /\ BaseOf[v] \in Commits
              /\ PortOf[v] \in Ports
         /\ SubSeq(SeriesOf[v], 1, 0) = <<>> /\ SubSeq(SeriesOf[v], 1, Len(SeriesOf[v])) = SeriesOf[v]
         /\ \A k \in 1 .. Len(SeriesOf[v]) :
              Append(SubSeq(SeriesOf[v], 1, k - 1), SeriesOf[v][k]) = SubSeq(SeriesOf[v], 1, (k + 1) - 1)
         /\ \A k \in 0 .. Len(SeriesOf[v]) : SubSeq(SeriesOf[v], 1, k) \in Seq(Patches)
<1>1. SeriesOf[v] \in Seq({SeriesOf[v][i] : i \in DOMAIN SeriesOf[v]})
  BY LocksAreWhole
<1>2. {SeriesOf[v][i] : i \in DOMAIN SeriesOf[v]} \subseteq Patches
  BY DEF Patches
<1>3. SeriesOf[v] \in Seq(Patches)
  BY <1>1, <1>2
<1>4. BaseOf[v] \in Commits /\ PortOf[v] \in Ports
  BY DEF Commits, Ports
<1> DEFINE q == SeriesOf[v]
<1>5. q \in Seq(Patches)
  BY <1>3
<1> HIDE DEF q
<1>6. SubSeq(q, 1, 0) = <<>> /\ SubSeq(q, 1, Len(q)) = q
  BY <1>5
<1>7. \A k \in 1 .. Len(q) : Append(SubSeq(q, 1, k - 1), q[k]) = SubSeq(q, 1, (k + 1) - 1)
  BY <1>5
<1>8. \A k \in 0 .. Len(q) : SubSeq(q, 1, k) \in Seq(Patches)
  BY <1>5
<1>9. Len(q) \in Nat
  BY <1>5
<1> QED BY <1>3, <1>4, <1>6, <1>7, <1>8, <1>9 DEF q

\* What is there is not Nothing.
LEMMA PlacesDiffer ==
  /\ \A x \in Ports : x # Nothing
  /\ \A x \in SourceSet : x # Nothing
  /\ \A x \in StateSet : x # Nothing
  /\ \A x \in TreeSet : x # Nothing
  /\ \A x \in PortSet : x # Nothing
  /\ \A x \in TemplateSet : x # Nothing
  /\ \A x \in SeriesSet : x # Nothing
BY NothingIsNoThing

\* A command ends.
Ended(s, word) == [Quiet EXCEPT !.said = word, !.mine = LockRead(s)]

LEMMA QuietFacts ==
  ASSUME EngineTypeOK, NEW s \in Shells
  PROVE  /\ Empty \in PairSet /\ Empty.release = Nothing /\ Empty.debug = Nothing
         /\ shells[s] \in ShellSet /\ LockRead(s) \in Versions
         /\ \A word \in Words :
              /\ Ended(s, word) \in ShellSet /\ Ended(s, word).at = "prompt" /\ Ended(s, word).said = word
              /\ Ended(s, word).mine = LockRead(s)
<1>1. Empty \in PairSet /\ Empty.release = Nothing /\ Empty.debug = Nothing
  BY DEF Empty, PairSet
<1>2. shells[s] \in ShellSet /\ LockRead(s) \in Versions
  BY DEF EngineTypeOK, ShellSet, LockRead
<1>3. Quiet \in [at : {"prompt"}, mine : {1}, place : {"locked"}, k : Nat, build : 0 .. MaxRuns,
        read : PairSet, said : Words]
  <2>1. 0 \in 0 .. MaxRuns
    BY LocksAreWhole
  <2> QED BY <1>1, <2>1 DEF Quiet, Words
<1>4. ASSUME NEW word \in Words
      PROVE  /\ Ended(s, word) \in ShellSet /\ Ended(s, word).at = "prompt" /\ Ended(s, word).said = word
             /\ Ended(s, word).mine = LockRead(s)
  BY <1>2, <1>3 DEF Ended, ShellSet, Stops
<1> QED BY <1>1, <1>2, <1>4

\* A shell goes on to c while the others stay.
Honest(s, c) ==
  /\ c.said = "ready" =>
       \/ At(s, "prompt")
       \/ /\ tree' # Nothing /\ WholeWhereNamed(tree'.sources, LockRead(s))
          /\ At(s, "patch") => tree'.sources = Whole(LockRead(s))
  /\ c.said = "patches_applied" => At(s, "prompt") \/ workspace' = Sources(Newer, SeriesOf[LockRead(s)])

LEMMA Moves ==
  ASSUME EngineInv, NEW s \in Shells, NEW c \in ShellSet, shells' = [shells EXCEPT ![s] = c],
         AtWork(c, tree', workspace', port'), c.mine = LockRead(s) \/ At(s, "prompt"),
         \A t \in Shells : t # s => AtWork(shells[t], tree', workspace', port'),
         c.at \in Lonely => \A t \in Shells : t # s => shells[t].at # c.at,
         Honest(s, c), At(s, "prompt") => c.at # "prompt"
  PROVE  /\ shells' \in [Shells -> ShellSet] /\ Working' /\ Alone' /\ ReadyIsWhole /\ AppliedIsWhole
<1>1. shells \in [Shells -> ShellSet]
  BY DEF EngineInv, EngineTypeOK
<1>2. shells' \in [Shells -> ShellSet] /\ shells'[s] = c /\ \A t \in Shells : t # s => shells'[t] = shells[t]
  BY <1>1
<1>3. Working'
  BY <1>2 DEF Working
<1>4. Alone'
  BY <1>2 DEF EngineInv, Alone
<1>5. \A t \in Shells : shells[t].at # "prompt" => shells[t].said = "nothing"
  BY DEF EngineInv, Working, AtWork
<1>6. ReadyIsWhole
  BY <1>2, <1>5 DEF ReadyIsWhole, Honest, At
<1>7. AppliedIsWhole
  BY <1>2, <1>5 DEF AppliedIsWhole, Honest, At, LockRead
<1> QED BY <1>2, <1>3, <1>4, <1>6, <1>7

\* The rest of the invariant, when only shells move.
EngineGoesOn == EngineInv' /\ ReadyIsWhole /\ AppliedIsWhole

LEMMA Runs ==
  ASSUME EngineInv, NEW s \in Shells, NEW c \in ShellSet, shells' = [shells EXCEPT ![s] = c],
         AtWork(c, tree, workspace, port), c.mine = LockRead(s) \/ At(s, "prompt"), c.at \notin Lonely,
         Honest(s, c), At(s, "prompt") => c.at # "prompt",
         UNCHANGED <<lock, registered, tree, workspace, branch, port, templates>>,
         cloned' \in BOOLEAN, recorded' \in PairSet, (recorded' = Empty \/ Nothing \notin {recorded'.release, recorded'.debug}),
         runs' \in 0 .. MaxRuns, kills' \in 0 .. MaxKills /\ torn' \subseteq 0 .. MaxRuns, hands' \in 0 .. MaxHands
  PROVE  EngineGoesOn
<1>1. \A t \in Shells : AtWork(shells[t], tree, workspace, port)
  BY DEF EngineInv, Working
<1>2. shells' \in [Shells -> ShellSet] /\ Working' /\ Alone' /\ ReadyIsWhole /\ AppliedIsWhole
  BY <1>1, Moves
<1>3. EngineTypeOK'
  BY <1>2 DEF EngineInv, EngineTypeOK
<1>4. TreeIsTrue' /\ Belong'
  BY DEF EngineInv, TreeIsTrue, Belong
<1> QED BY <1>2, <1>3, <1>4 DEF EngineGoesOn, EngineInv

\* A command that ends leaves nothing to count on.
LEMMA EndsWell ==
  ASSUME EngineInv, NEW s \in Shells, NEW word \in Words, NEW tr, NEW ws, NEW po
  PROVE  AtWork(Ended(s, word), tr, ws, po) /\ Ended(s, word) \in ShellSet /\ Ended(s,
           word).mine = LockRead(s)
         /\ Ended(s, word).at = "prompt" /\ Ended(s, word).said = word
<1>1. /\ Ended(s, word) \in ShellSet /\ Ended(s, word).at = "prompt" /\ Ended(s, word).said = word
      /\ Ended(s, word).mine = LockRead(s)
  BY QuietFacts DEF EngineInv
<1>2. AtWork(Ended(s, word), tr, ws, po)
  BY <1>1 DEF AtWork, Patching, Rebasing, Sourced, Ported, Compiled
<1> QED BY <1>1, <1>2

\* It ends and changes nothing.
LEMMA SaysKeeps ==
  ASSUME EngineInv, NEW s \in Shells, NEW word \in Words, Says(s, word), ~At(s, "prompt"),
         word = "ready" => tree # Nothing /\ WholeWhereNamed(tree.sources, LockRead(s)) /\ ~At(s, "patch"),
         word = "patches_applied" => workspace = Sources(Newer, SeriesOf[LockRead(s)]),
         UNCHANGED <<lock, registered, tree, workspace, branch, port, templates>>,
         cloned' \in BOOLEAN, recorded' \in PairSet, (recorded' = Empty \/ Nothing \notin {recorded'.release, recorded'.debug}),
         runs' \in 0 .. MaxRuns, kills' \in 0 .. MaxKills /\ torn' \subseteq 0 .. MaxRuns, hands' \in 0 .. MaxHands
  PROVE  EngineGoesOn
<1> DEFINE c == Ended(s, word)
<1>1. shells' = [shells EXCEPT ![s] = c]
  BY DEF Says, Ended
<1>2. AtWork(c, tree, workspace, port) /\ c \in ShellSet /\ c.mine = LockRead(s) /\ c.at = "prompt"
        /\ c.said = word
  BY EndsWell
<1> HIDE DEF c
<1>3. Honest(s, c)
  BY <1>2 DEF Honest
<1>4. c.at \notin Lonely
  BY <1>2 DEF Lonely
<1> QED BY <1>1, <1>2, <1>3, <1>4, Runs

-----------------------------------------------------------------------------
(* Each command's steps. *)

\* What a shell that is at work knows.
LEMMA AtOnce ==
  ASSUME EngineInv, NEW s \in Shells
  PROVE  /\ shells[s] \in ShellSet /\ LockRead(s) \in Versions /\ LockRead(s) = shells[s].mine
         /\ AtWork(shells[s], tree, workspace, port)
         /\ shells[s].at \in Stops /\ shells[s].read \in PairSet /\ shells[s].k \in Nat
              /\ shells[s].build \in 0 .. MaxRuns
         /\ shells[s].place \in {"locked", "candidate"}
BY QuietFacts DEF EngineInv, Working, LockRead, ShellSet, EngineTypeOK

\* It goes on to a step that it may be at, and touches nothing else.
Onward(s, there) == [shells[s] EXCEPT !.at = there]

LEMMA GoesKeeps ==
  ASSUME EngineInv, NEW s \in Shells, NEW there \in Stops \ (Lonely \cup {"prompt"}), GoesTo(s,
           there), ~At(s, "prompt"),
         UNCHANGED <<lock, registered, tree, workspace, branch, port, templates, recorded, runs,
           kills, torn, hands>>,
         cloned' \in BOOLEAN, AtWork(Onward(s, there), tree, workspace, port)
  PROVE  EngineGoesOn
<1> DEFINE c == Onward(s, there)
<1>1. shells' = [shells EXCEPT ![s] = c]
  BY DEF GoesTo, Onward
<1>2. c \in ShellSet /\ c.at = there /\ c.mine = LockRead(s) /\ c.said = "nothing"
  BY AtOnce DEF Onward, ShellSet, At, AtWork
<1> HIDE DEF c
<1>3. Honest(s, c) /\ c.at \notin Lonely
  BY <1>2 DEF Honest
<1>4. /\ recorded' \in PairSet /\ (recorded' = Empty \/ Nothing \notin {recorded'.release, recorded'.debug})
      /\ runs' \in 0 .. MaxRuns /\ kills' \in 0 .. MaxKills /\ torn' \subseteq 0 .. MaxRuns /\ hands' \in 0 .. MaxHands
  BY DEF EngineInv, EngineTypeOK
<1>5. AtWork(c, tree, workspace, port)
  BY DEF c
<1> QED BY <1>1, <1>2, <1>3, <1>4, <1>5, Runs

LEMMA Same ==
  ASSUME EngineInv, UNCHANGED <<recorded, runs, kills, torn, hands, cloned>>
  PROVE  /\ cloned' \in BOOLEAN
         /\ recorded' \in PairSet /\ (recorded' = Empty \/ Nothing \notin {recorded'.release,
              recorded'.debug})
         /\ runs' \in 0 .. MaxRuns /\ kills' \in 0 .. MaxKills /\ torn' \subseteq 0 .. MaxRuns /\ hands' \in 0 .. MaxHands
BY DEF EngineInv, EngineTypeOK

\* A build that ends is one that began.
LEMMA TearsFacts == ASSUME EngineInv, NEW s \in Shells, Tears(s) PROVE torn' \subseteq 0 .. MaxRuns
BY AtOnce DEF Tears, EngineInv, EngineTypeOK

LEMMA BeginKeeps == ASSUME EngineInv, NEW s \in Shells, Begin(s) PROVE EngineGoesOn
<1>1. PICK verb \in CommandsOf[s], place \in {"locked", "candidate"} :
        shells' = [shells EXCEPT ![s] =
                     [Quiet EXCEPT !.at = verb, !.mine = lock, !.place = place, !.build = runs + 1]]
  BY DEF Begin
<1>2. /\ At(s, "prompt") /\ runs' = runs + 1
      /\ UNCHANGED <<lock, cloned, registered, tree, workspace, branch, port, templates, recorded,
           kills, torn, hands>>
  BY DEF Begin
<1>3. runs + 1 \in 0 .. MaxRuns /\ lock \in Versions
  BY LocksAreWhole DEF EngineInv, EngineTypeOK, Begin
<1>4. verb \in Commands /\ verb \in Stops \ (Lonely \cup {"prompt"})
  BY LocksAreWhole DEF Commands, Stops, Lonely
<1> DEFINE c == [Quiet EXCEPT !.at = verb, !.mine = lock, !.place = place, !.build = runs + 1]
<1>5. Quiet \in [at : {"prompt"}, mine : {1}, place : {"locked"}, k : Nat, build : 0 .. MaxRuns,
        read : PairSet, said : {"nothing"}]
  BY QuietFacts, LocksAreWhole DEF EngineInv, Quiet
<1>7. c \in ShellSet /\ c.at = verb /\ c.said = "nothing"
  BY <1>3, <1>4, <1>5 DEF ShellSet, Words
<1> HIDE DEF c
<1>8. AtWork(c, tree, workspace, port)
  BY <1>4, <1>7 DEF AtWork, Patching, Rebasing, Sourced, Ported, Compiled, Commands
<1>9. Honest(s, c)
  BY <1>7 DEF Honest
<1>10. runs' \in 0 .. MaxRuns /\ kills' \in 0 .. MaxKills /\ torn' \subseteq 0 .. MaxRuns /\ hands' \in 0 .. MaxHands /\ cloned' \in BOOLEAN
       /\ recorded' \in PairSet /\ (recorded' = Empty \/ Nothing \notin {recorded'.release,
            recorded'.debug})
  BY <1>2, <1>3 DEF EngineInv, EngineTypeOK
<1>11. shells' = [shells EXCEPT ![s] = c]
  BY <1>1 DEF c
<1> QED BY <1>2, <1>4, <1>7, <1>8, <1>9, <1>10, <1>11, Runs

LEMMA KillKeeps == ASSUME EngineInv, NEW s \in Shells, KillCommand(s) PROVE EngineGoesOn
<1>1. kills' \in 0 .. MaxKills /\ torn' \subseteq 0 .. MaxRuns
  <2>1. kills' \in 0 .. MaxKills
    BY LocksAreWhole DEF KillCommand, EngineInv, EngineTypeOK
  <2> QED BY <2>1, TearsFacts DEF KillCommand
<1>2. UNCHANGED <<lock, cloned, registered, tree, workspace, branch, port, templates, recorded, runs,
        hands>>
      /\ Says(s, "killed") /\ ~At(s, "prompt") /\ "killed" \in Words
  BY DEF KillCommand, Words
<1>3. /\ cloned' \in BOOLEAN /\ runs' \in 0 .. MaxRuns /\ hands' \in 0 .. MaxHands
      /\ recorded' \in PairSet /\ (recorded' = Empty \/ Nothing \notin {recorded'.release, recorded'.debug})
  BY <1>2 DEF EngineInv, EngineTypeOK
<1> QED BY <1>1, <1>2, <1>3, SaysKeeps

LEMMA FetchRepoKeeps == ASSUME EngineInv, NEW s \in Shells, FetchRepo(s) PROVE EngineGoesOn
<1>1. At(s, "fetch") /\ UNCHANGED <<lock, registered, tree, workspace, branch, port, templates,
        recorded, runs, kills, torn, hands>>
      /\ ~At(s, "prompt")
  BY DEF FetchRepo, At
<1>2. /\ runs' \in 0 .. MaxRuns /\ kills' \in 0 .. MaxKills /\ torn' \subseteq 0 .. MaxRuns /\ hands' \in 0 .. MaxHands
      /\ recorded' \in PairSet /\ (recorded' = Empty \/ Nothing \notin {recorded'.release, recorded'.debug})
  BY <1>1 DEF EngineInv, EngineTypeOK
<1>3. CASE Says(s, "error") /\ UNCHANGED cloned
  BY <1>1, <1>2, <1>3, Same, SaysKeeps DEF Words
<1>4. CASE GoesTo(s, "prepare") /\ cloned' = TRUE
  <2>1. AtWork(Onward(s, "prepare"), tree, workspace, port)
    <3>1. Onward(s, "prepare").at = "prepare" /\ Onward(s, "prepare").said = "nothing"
      BY <1>1, AtOnce DEF Onward, ShellSet, AtWork, At
    <3> QED BY <3>1 DEF AtWork, Patching, Rebasing, Sourced, Ported, Compiled
  <2>2. cloned' \in BOOLEAN /\ "prepare" \in Stops \ (Lonely \cup {"prompt"})
    BY <1>4 DEF Stops, Lonely
  <2> QED BY <1>1, <1>4, <2>1, <2>2, GoesKeeps
<1> QED BY <1>3, <1>4 DEF FetchRepo

\* The fingerprint of a series tells of its patches, and of no edit in a file they name.
LEMMA PrintFacts ==
  ASSUME NEW sources \in SourceSet, NEW v \in Versions, Fingerprint(sources) = Fingerprint(Whole(v)),
         sources.base = BaseOf[v]
  PROVE  WholeWhereNamed(sources, v)
<1> DEFINE mine == Fingerprint(sources)
           its  == Fingerprint(Whole(v))
<1>1. its.applied = SeriesOf[v] /\ ~its.conflict /\ ~its.edited
  BY DEF Fingerprint, Whole, Sources
<1>2. mine.applied = sources.applied /\ mine.conflict = sources.conflict /\ mine.edited = sources.edited
  BY DEF Fingerprint
<1>3. mine = its
  OBVIOUS
<1> HIDE DEF mine, its
<1>4. sources.applied = SeriesOf[v] /\ sources.conflict = its.conflict /\ sources.edited = its.edited
  BY <1>1, <1>2, <1>3
<1>5. ~sources.conflict /\ ~sources.edited
  BY <1>1, <1>4
<1> QED BY <1>4, <1>5 DEF WholeWhereNamed

\* A series that is whole is so where its patches name files, and has a fingerprint.
LEMMA WholeFacts ==
  ASSUME NEW v \in Versions
  PROVE  WholeWhereNamed(Whole(v), v) /\ Whole(v).base = BaseOf[v]
BY DEF WholeWhereNamed, Whole, Sources

\* What is written as a state is one.
LEMMA StateFacts ==
  ASSUME NEW sources \in SourceSet, NEW v \in Versions
  PROVE  /\ State(v, sources) \in StateSet /\ State(v, sources).series = SeriesId(v)
         /\ State(v, sources).tree = Fingerprint(sources)
<1>1. SeriesId(v) \in SeriesSet
  BY SeriesFacts DEF SeriesId, SeriesSet
<1>2. Fingerprint(sources) \in PrintSet
  BY DEF Fingerprint, PrintSet, SourceSet
<1> QED BY <1>1, <1>2 DEF State, StateSet

\* A tree that is accepted is whole where its patches name files: its state tells of a
\* whole series, and of this one.
LEMMA AcceptedIsWhole ==
  ASSUME EngineInv, tree # Nothing, NEW v \in Versions, Accepted(v)
  PROVE  WholeWhereNamed(tree.sources, v)
<1>1. tree.state = State(v, tree.sources) /\ tree \in TreeSet /\ tree.sources \in SourceSet
  BY DEF Accepted, EngineInv, EngineTypeOK, TreeSet
<1>2. tree.state # Nothing
  BY <1>1, StateFacts, PlacesDiffer
<1>3. PICK w \in Versions : tree.state = State(w, Whole(w)) /\ tree.sources.base = BaseOf[w]
  BY <1>2 DEF EngineInv, TreeIsTrue
<1>4. SeriesId(v) = SeriesId(w) /\ Fingerprint(tree.sources) = Fingerprint(Whole(w))
  BY <1>1, <1>3 DEF State
<1>5. BaseOf[v] = BaseOf[w] /\ SeriesOf[v] = SeriesOf[w]
  BY <1>4 DEF SeriesId
<1>6. Whole(v) = Whole(w)
  BY <1>5 DEF Whole
<1> QED BY <1>1, <1>3, <1>4, <1>5, <1>6, PrintFacts

LEMMA PrepareKeeps == ASSUME EngineInv, NEW s \in Shells, PrepareExisting(s) PROVE EngineGoesOn
<1>1. /\ tree # Nothing /\ ~At(s, "prompt")
      /\ UNCHANGED <<lock, cloned, registered, tree, workspace, branch, port, templates, recorded,
           runs, kills, torn, hands>>
      /\ Says(s, IF Accepted(LockRead(s)) THEN "ready" ELSE "error")
      /\ ~At(s, "patch")
  BY DEF PrepareExisting, OnlyShells, At
<1>2. LockRead(s) \in Versions
  BY AtOnce
<1>3. CASE Accepted(LockRead(s))
  <2>1. WholeWhereNamed(tree.sources, LockRead(s))
    BY <1>1, <1>2, <1>3, AcceptedIsWhole
  <2> QED BY <1>1, <1>3, <2>1, Same, SaysKeeps DEF Words
<1>4. CASE ~Accepted(LockRead(s))
  BY <1>1, <1>4, Same, SaysKeeps DEF Words
<1> QED BY <1>3, <1>4

\* Nobody but the shell that patches counts on what the tree holds; those who build count
\* on its being there.
LEMMA TreeMoves ==
  ASSUME EngineInv, NEW s \in Shells, NEW c \in ShellSet, shells' = [shells EXCEPT ![s] = c],
         AtWork(c, tree', workspace, port), c.mine = LockRead(s), ~At(s, "prompt"),
         Honest(s, c), c.at \in {"patch", "prompt"}, tree' \in TreeSet, registered' = TRUE,
         \A t \in Shells : t # s => shells[t].at # "patch", TreeIsTrue',
         UNCHANGED <<lock, cloned, workspace, branch, port, templates, recorded, runs, kills, torn, hands>>
  PROVE  EngineGoesOn
<1>1. \A t \in Shells : AtWork(shells[t], tree, workspace, port)
  BY DEF EngineInv, Working
<1>2. tree' # Nothing
  BY PlacesDiffer
<1>3. \A t \in Shells : t # s => AtWork(shells[t], tree', workspace, port)
  BY <1>1, <1>2 DEF AtWork, Patching, Sourced
<1>4. c.at \in Lonely => \A t \in Shells : t # s => shells[t].at # c.at
  BY DEF Lonely
<1>5. shells' \in [Shells -> ShellSet] /\ Working' /\ Alone' /\ ReadyIsWhole /\ AppliedIsWhole
  BY <1>3, <1>4, Moves
<1>6. EngineTypeOK'
  BY <1>5 DEF EngineInv, EngineTypeOK
<1>7. Belong'
  BY DEF EngineInv, Belong
<1> QED BY <1>5, <1>6, <1>7 DEF EngineGoesOn, EngineInv

LEMMA AddKeeps == ASSUME EngineInv, NEW s \in Shells, AddWorktree(s) PROVE EngineGoesOn
<1> DEFINE v == LockRead(s)
<1>1. /\ tree = Nothing /\ ~At(s, "prompt")
      /\ UNCHANGED <<lock, cloned, workspace, branch, port, templates, recorded, runs, kills, torn, hands>>
  BY DEF AddWorktree, At
<1>2. CASE Says(s, "error") /\ UNCHANGED <<registered, tree>>
  BY <1>1, <1>2, Same, SaysKeeps DEF Words
<1>3. CASE /\ registered' = TRUE
           /\ tree' = [sources |-> Sources(BaseOf[LockRead(s)], <<>>), state |-> Nothing]
           /\ shells' = [shells EXCEPT ![s].at = "patch", ![s].k = 1]
  <2> DEFINE c == [shells[s] EXCEPT !.at = "patch", !.k = 1]
  <2>1. shells' = [shells EXCEPT ![s] = c]
    BY <1>3
  <2>2. c \in ShellSet /\ c.at = "patch" /\ c.k = 1 /\ c.mine = v /\ c.said = "nothing"
    BY <1>1, AtOnce DEF ShellSet, Stops, AtWork, At
  <2> HIDE DEF c
  <2>3. v \in Versions
    BY AtOnce
  <2> HIDE DEF v
  <2>4. /\ SubSeq(SeriesOf[v], 1, 0) = <<>> /\ BaseOf[v] \in Commits /\ Len(SeriesOf[v]) \in Nat
        /\ SubSeq(SeriesOf[v], 1, 0) \in Seq(Patches)
    BY <2>3, SeriesFacts
  <2>5. tree' = [sources |-> Sources(BaseOf[v], <<>>), state |-> Nothing]
    BY <1>3 DEF v
  <2>6. Sources(BaseOf[v], <<>>) \in SourceSet
    BY <2>4, SourceFields
  <2>7. tree' \in TreeSet /\ tree'.state = Nothing /\ tree'.sources = Sources(BaseOf[v], <<>>)
    BY <2>5, <2>6 DEF TreeSet
  <2>8. tree' # Nothing
    BY <2>7, PlacesDiffer
  <2>9. TreeIsTrue'
    BY <2>3, <2>7, SourceFields DEF TreeIsTrue
  <2>10. 1 \in 1 .. Len(SeriesOf[v]) + 1 /\ 1 - 1 = 0
    BY <2>4
  <2>11. AtWork(c, tree', workspace, port)
    BY <2>2, <2>4, <2>7, <2>8, <2>10 DEF AtWork, Patching, Rebasing, Sourced, Ported, Compiled
  <2>12. \A t \in Shells : shells[t].at # "patch"
    BY <1>1, AtOnce DEF AtWork, Patching
  <2>13. Honest(s, c)
    BY <2>2 DEF Honest
  <2> QED BY <1>1, <1>3, <2>1, <2>2, <2>7, <2>9, <2>11, <2>12, <2>13, TreeMoves DEF v
<1> QED BY <1>2, <1>3 DEF AddWorktree

LEMMA PatchKeeps == ASSUME EngineInv, NEW s \in Shells, ApplyPatch(s) PROVE EngineGoesOn
<1> DEFINE v == LockRead(s)
           k == shells[s].k
<1>1. /\ shells[s].at = "patch" /\ ~At(s, "prompt") /\ k <= Len(SeriesOf[v])
      /\ UNCHANGED <<lock, cloned, registered, workspace, branch, port, templates, recorded, runs,
           kills, torn, hands>>
  BY DEF ApplyPatch, At
<1>2. CASE Says(s, "error") /\ UNCHANGED tree
  BY <1>1, <1>2, Same, SaysKeeps DEF Words
<1>3. CASE /\ tree' = [tree EXCEPT !.sources.applied = Append(@, SeriesOf[LockRead(s)][shells[s].k])]
           /\ shells' = [shells EXCEPT ![s].k = @ + 1]
  <2> DEFINE c == [shells[s] EXCEPT !.k = @ + 1]
  <2>1. shells' = [shells EXCEPT ![s] = c]
    BY <1>3
  <2>2. c \in ShellSet /\ c.at = "patch" /\ c.k = k + 1 /\ c.mine = v /\ c.said = "nothing"
    BY <1>1, AtOnce DEF ShellSet, AtWork, At
  <2> HIDE DEF c
  <2>3. v \in Versions /\ v = shells[s].mine
    BY AtOnce
  <2>4. /\ tree # Nothing /\ tree.state = Nothing /\ k \in 1 .. Len(SeriesOf[v]) + 1
        /\ tree.sources = Sources(BaseOf[v], SubSeq(SeriesOf[v], 1, k - 1))
    BY <1>1, <2>3, AtOnce DEF AtWork, Patching
  <2> HIDE DEF v, k
  <2>5. tree \in TreeSet
    BY <2>4 DEF EngineInv, EngineTypeOK
  <2>6. /\ Len(SeriesOf[v]) \in Nat /\ BaseOf[v] \in Commits /\ k \in 1 .. Len(SeriesOf[v])
        /\ k + 1 \in 1 .. Len(SeriesOf[v]) + 1
    BY <1>1, <2>3, <2>4, SeriesFacts
  <2>7. /\ Append(SubSeq(SeriesOf[v], 1, k - 1), SeriesOf[v][k]) = SubSeq(SeriesOf[v], 1, (k + 1) - 1)
        /\ SubSeq(SeriesOf[v], 1, (k + 1) - 1) \in Seq(Patches)
    <3>1. (k + 1) - 1 \in 0 .. Len(SeriesOf[v])
      BY <2>6
    <3> QED BY <2>3, <2>6, <3>1, SeriesFacts
  <2> DEFINE more == SubSeq(SeriesOf[v], 1, (k + 1) - 1)
  <2>8. tree' = [tree EXCEPT !.sources = [tree.sources EXCEPT !.applied = Append(tree.sources.applied, SeriesOf[v][k])]]
    BY <1>3, <2>5 DEF v, k, TreeSet, SourceSet
  <2>9. [tree.sources EXCEPT !.applied = Append(tree.sources.applied,
          SeriesOf[v][k])] = Sources(BaseOf[v], more)
    <3>1. tree.sources.applied = SubSeq(SeriesOf[v], 1, k - 1)
      <4> DEFINE q == SubSeq(SeriesOf[v], 1, k - 1)
      <4>1. Sources(BaseOf[v], q).applied = q
        BY SourceFields
      <4>2. tree.sources = Sources(BaseOf[v], q)
        BY <2>4
      <4> QED BY <4>1, <4>2
    <3>2. [tree.sources EXCEPT !.applied = Append(tree.sources.applied,
            SeriesOf[v][k])] = [tree.sources EXCEPT !.applied = more]
      BY <2>7, <3>1
    <3> HIDE DEF more
    <3> QED BY <2>4, <3>2, SourceFields
  <2>10. Sources(BaseOf[v], more) \in SourceSet
    BY <2>6, <2>7, SourceFields
  <2>11. tree' = [tree EXCEPT !.sources = Sources(BaseOf[v], more)]
    BY <2>8, <2>9
  <2>12. tree' \in TreeSet /\ tree'.state = Nothing /\ tree'.sources = Sources(BaseOf[v], more)
    <3> HIDE DEF more
    <3> QED BY <2>4, <2>5, <2>10, <2>11 DEF TreeSet
  <2>13. tree' # Nothing
    BY <2>12, PlacesDiffer
  <2>14. TreeIsTrue'
    BY <2>3, <2>12, SourceFields DEF TreeIsTrue
  <2>15. AtWork(c, tree', workspace, port)
    BY <2>2, <2>6, <2>12, <2>13 DEF AtWork, Patching, Rebasing, Sourced, Ported, Compiled
  <2>16. \A t \in Shells : t # s => shells[t].at # "patch"
    BY <1>1 DEF EngineInv, Alone, Lonely
  <2>17. Honest(s, c) /\ registered' = TRUE
    BY <1>1, <2>2, <2>4 DEF Honest, EngineInv, EngineTypeOK
  <2> QED BY <1>1, <2>1, <2>2, <2>12, <2>14, <2>15, <2>16, <2>17, TreeMoves DEF v
<1> QED BY <1>2, <1>3 DEF ApplyPatch

LEMMA WriteStateKeeps == ASSUME EngineInv, NEW s \in Shells, WriteState(s) PROVE EngineGoesOn
<1> DEFINE v == LockRead(s)
           k == shells[s].k
           c == Ended(s, "ready")
<1>1. /\ shells[s].at = "patch" /\ ~At(s, "prompt") /\ k > Len(SeriesOf[v])
      /\ UNCHANGED <<lock, cloned, registered, workspace, branch, port, templates, recorded, runs,
           kills, torn, hands>>
      /\ tree' = [tree EXCEPT !.state = State(v, tree.sources)]
      /\ shells' = [shells EXCEPT ![s] = c]
  BY DEF WriteState, At, Says, Ended
<1>2. /\ c \in ShellSet /\ c.at = "prompt" /\ c.mine = LockRead(s) /\ c.said = "ready"
      /\ AtWork(c, tree', workspace, port)
  BY EndsWell DEF Words
<1> HIDE DEF c
<1>3. v \in Versions /\ v = shells[s].mine
  BY AtOnce
<1>4. /\ tree # Nothing /\ k \in 1 .. Len(SeriesOf[v]) + 1
      /\ tree.sources = Sources(BaseOf[v], SubSeq(SeriesOf[v], 1, k - 1))
  BY <1>1, <1>3, AtOnce DEF AtWork, Patching
<1>5. tree \in TreeSet
  BY <1>4 DEF EngineInv, EngineTypeOK
<1>6. tree.sources = Whole(v)
  <2>1. k - 1 = Len(SeriesOf[v]) /\ SubSeq(SeriesOf[v], 1, Len(SeriesOf[v])) = SeriesOf[v]
    BY <1>1, <1>3, <1>4, SeriesFacts
  <2> QED BY <1>4, <2>1 DEF Whole
<1>7. State(v, tree.sources) \in StateSet
  <2>1. tree.sources \in SourceSet
    BY <1>5 DEF TreeSet
  <2> QED BY <1>3, <2>1, StateFacts
<1>8. tree' \in TreeSet /\ tree'.sources = Whole(v) /\ tree'.state = State(v, Whole(v))
  BY <1>1, <1>5, <1>6, <1>7 DEF TreeSet
<1>9. tree' # Nothing
  BY <1>8, PlacesDiffer
<1>10. TreeIsTrue'
  BY <1>3, <1>8, WholeFacts DEF TreeIsTrue
<1>11. \A t \in Shells : t # s => shells[t].at # "patch"
  BY <1>1 DEF EngineInv, Alone, Lonely
<1>12. Honest(s, c) /\ registered' = TRUE
  <2>1. WholeWhereNamed(tree'.sources, v)
    BY <1>3, <1>8, WholeFacts
  <2> QED BY <1>1, <1>2, <1>4, <1>8, <1>9, <2>1 DEF Honest, EngineInv, EngineTypeOK
<1> QED BY <1>1, <1>2, <1>8, <1>10, <1>11, <1>12, TreeMoves

-----------------------------------------------------------------------------
(* A rebase. *)

\* Nobody but the shell that rebases counts on what the candidate holds.
LEMMA WorkspaceMoves ==
  ASSUME EngineInv, NEW s \in Shells, NEW c \in ShellSet, shells' = [shells EXCEPT ![s] = c],
         AtWork(c, tree, workspace', port), c.mine = LockRead(s), ~At(s, "prompt"),
         Honest(s, c), c.at \in {"threeway", "prompt"}, workspace' \in SourceSet, branch' \in BOOLEAN,
         \A t \in Shells : t # s => shells[t].at # "threeway",
         UNCHANGED <<lock, cloned, registered, tree, port, templates, recorded, runs, kills, torn, hands>>
  PROVE  EngineGoesOn
<1>1. \A t \in Shells : AtWork(shells[t], tree, workspace, port)
  BY DEF EngineInv, Working
<1>2. \A t \in Shells : t # s => AtWork(shells[t], tree, workspace', port)
  BY <1>1 DEF AtWork, Rebasing
<1>3. c.at \in Lonely => \A t \in Shells : t # s => shells[t].at # c.at
  BY DEF Lonely
<1>4. shells' \in [Shells -> ShellSet] /\ Working' /\ Alone' /\ ReadyIsWhole /\ AppliedIsWhole
  BY <1>2, <1>3, Moves
<1>5. EngineTypeOK'
  BY <1>4 DEF EngineInv, EngineTypeOK
<1>6. TreeIsTrue' /\ Belong'
  BY DEF EngineInv, TreeIsTrue, Belong
<1> QED BY <1>4, <1>5, <1>6 DEF EngineGoesOn, EngineInv

LEMMA LookKeeps == ASSUME EngineInv, NEW s \in Shells, LookAtWorkspace(s) PROVE EngineGoesOn
<1> DEFINE v == LockRead(s)
<1>1. /\ shells[s].at = "rebase" /\ ~At(s, "prompt")
      /\ UNCHANGED <<lock, cloned, registered, tree, port, templates, recorded, runs, kills, torn, hands>>
  BY DEF LookAtWorkspace, At
<1>2. CASE Says(s, Found) /\ UNCHANGED <<workspace, branch>>
  <2>1. Found \in Words /\ Found \notin {"ready", "patches_applied"}
    BY DEF Found, Words
  <2> QED BY <1>1, <1>2, <2>1, Same, SaysKeeps
<1>3. CASE (\E word \in {"up_to_date", "planned"} : Says(s, word)) /\ UNCHANGED <<workspace, branch>>
  BY <1>1, <1>3, Same, SaysKeeps DEF Words
<1>4. CASE Says(s, "error") /\ UNCHANGED <<workspace, branch>>
  BY <1>1, <1>4, Same, SaysKeeps DEF Words
<1>5. CASE /\ workspace = Nothing
           /\ workspace' = Sources(Newer, <<>>) /\ branch' = TRUE
           /\ shells' = [shells EXCEPT ![s].at = "threeway", ![s].k = 1]
  <2> DEFINE c == [shells[s] EXCEPT !.at = "threeway", !.k = 1]
  <2>1. shells' = [shells EXCEPT ![s] = c]
    BY <1>5
  <2>2. c \in ShellSet /\ c.at = "threeway" /\ c.k = 1 /\ c.mine = v /\ c.said = "nothing"
    BY <1>1, AtOnce DEF ShellSet, Stops, AtWork, At
  <2> HIDE DEF c
  <2>3. v \in Versions
    BY AtOnce
  <2> HIDE DEF v
  <2>4. /\ SubSeq(SeriesOf[v], 1, 0) = <<>> /\ Len(SeriesOf[v]) \in Nat
        /\ SubSeq(SeriesOf[v], 1, 0) \in Seq(Patches) /\ Newer \in Commits
    BY <2>3, SeriesFacts DEF Commits
  <2>5. workspace' \in SourceSet
    BY <1>5, <2>4, SourceFields
  <2>6. workspace' # Nothing
    BY <2>5, PlacesDiffer
  <2>7. 1 \in 1 .. Len(SeriesOf[v]) + 1 /\ 1 - 1 = 0
    BY <2>4
  <2>8. AtWork(c, tree, workspace', port)
    BY <1>5, <2>2, <2>4, <2>6, <2>7 DEF AtWork, Patching, Rebasing, Sourced, Ported, Compiled
  <2>9. \A t \in Shells : shells[t].at # "threeway"
    BY <1>5, AtOnce DEF AtWork, Rebasing
  <2>10. Honest(s, c)
    BY <2>2 DEF Honest
  <2> QED BY <1>1, <1>5, <2>1, <2>2, <2>5, <2>8, <2>9, <2>10, WorkspaceMoves DEF v
<1> QED BY <1>2, <1>3, <1>4, <1>5 DEF LookAtWorkspace

LEMMA ThreeWayKeeps == ASSUME EngineInv, NEW s \in Shells, ThreeWay(s) PROVE EngineGoesOn
<1> DEFINE v == LockRead(s)
           k == shells[s].k
<1>1. /\ shells[s].at = "threeway" /\ ~At(s, "prompt") /\ k <= Len(SeriesOf[v])
      /\ UNCHANGED <<lock, cloned, registered, tree, branch, port, templates, recorded, runs, kills, torn, hands>>
  BY DEF ThreeWay, At
<1>2. CASE Says(s, "error") /\ UNCHANGED workspace
  BY <1>1, <1>2, Same, SaysKeeps DEF Words
<1>3. v \in Versions /\ v = shells[s].mine
  BY AtOnce
<1>4. /\ workspace # Nothing /\ k \in 1 .. Len(SeriesOf[v]) + 1
      /\ workspace = Sources(Newer, SubSeq(SeriesOf[v], 1, k - 1))
  BY <1>1, <1>3, AtOnce DEF AtWork, Rebasing
<1>5. workspace \in SourceSet /\ branch \in BOOLEAN
  BY <1>4 DEF EngineInv, EngineTypeOK
<1>6. \A t \in Shells : t # s => shells[t].at # "threeway"
  BY <1>1 DEF EngineInv, Alone, Lonely
<1>7. CASE workspace' = [workspace EXCEPT !.conflict = TRUE] /\ Says(s, "conflicts")
  <2> DEFINE c == Ended(s, "conflicts")
  <2>1. /\ c \in ShellSet /\ c.at = "prompt" /\ c.mine = LockRead(s) /\ c.said = "conflicts"
        /\ AtWork(c, tree, workspace', port)
    BY EndsWell DEF Words
  <2>2. shells' = [shells EXCEPT ![s] = c]
    BY <1>7 DEF Says, Ended
  <2> HIDE DEF c
  <2>3. workspace' \in SourceSet
    BY <1>5, <1>7 DEF SourceSet
  <2>4. Honest(s, c)
    BY <2>1 DEF Honest
  <2> QED BY <1>1, <1>5, <1>6, <2>1, <2>2, <2>3, <2>4, WorkspaceMoves
<1>8. CASE /\ workspace' = [workspace EXCEPT !.applied = Append(@, SeriesOf[LockRead(s)][shells[s].k])]
           /\ shells' = [shells EXCEPT ![s].k = @ + 1]
  <2> DEFINE c == [shells[s] EXCEPT !.k = @ + 1]
  <2>1. shells' = [shells EXCEPT ![s] = c]
    BY <1>8
  <2>2. c \in ShellSet /\ c.at = "threeway" /\ c.k = k + 1 /\ c.mine = v /\ c.said = "nothing"
    BY <1>1, AtOnce DEF ShellSet, AtWork, At
  <2> HIDE DEF c
  <2>3. workspace' = [workspace EXCEPT !.applied = Append(workspace.applied, SeriesOf[v][k])]
    BY <1>8
  <2> HIDE DEF v, k
  <2>4. Len(SeriesOf[v]) \in Nat /\ k \in 1 .. Len(SeriesOf[v]) /\ k + 1 \in 1 .. Len(SeriesOf[v]) + 1
    BY <1>1, <1>3, <1>4, SeriesFacts
  <2>5. /\ Append(SubSeq(SeriesOf[v], 1, k - 1), SeriesOf[v][k]) = SubSeq(SeriesOf[v], 1, (k + 1) - 1)
        /\ SubSeq(SeriesOf[v], 1, (k + 1) - 1) \in Seq(Patches) /\ Newer \in Commits
    <3>1. (k + 1) - 1 \in 0 .. Len(SeriesOf[v])
      BY <2>4
    <3> QED BY <1>3, <2>4, <3>1, SeriesFacts DEF Commits
  <2> DEFINE q == SubSeq(SeriesOf[v], 1, k - 1)
             more == SubSeq(SeriesOf[v], 1, (k + 1) - 1)
  <2>6. workspace' = Sources(Newer, more)
    <3>1. Sources(Newer, q).applied = q /\ workspace = Sources(Newer, q)
      BY <1>4, SourceFields
    <3>2. workspace' = [workspace EXCEPT !.applied = more]
      BY <2>3, <2>5, <3>1
    <3> HIDE DEF more, q
    <3> QED BY <3>1, <3>2, SourceFields
  <2>7. workspace' \in SourceSet
    BY <2>5, <2>6, SourceFields
  <2>8. workspace' # Nothing
    BY <2>7, PlacesDiffer
  <2>9. AtWork(c, tree, workspace', port)
    BY <2>2, <2>4, <2>6, <2>8 DEF AtWork, Patching, Rebasing, Sourced, Ported, Compiled
  <2>10. Honest(s, c)
    BY <2>2 DEF Honest
  <2> QED BY <1>1, <1>5, <1>6, <2>1, <2>2, <2>7, <2>9, <2>10, WorkspaceMoves DEF v
<1> QED BY <1>2, <1>7, <1>8 DEF ThreeWay

LEMMA SeriesAppliedKeeps == ASSUME EngineInv, NEW s \in Shells, SeriesApplied(s) PROVE EngineGoesOn
<1> DEFINE v == LockRead(s)
           k == shells[s].k
<1>1. /\ shells[s].at = "threeway" /\ ~At(s, "prompt") /\ k > Len(SeriesOf[v]) /\ Says(s, "patches_applied")
      /\ UNCHANGED <<lock, cloned, registered, tree, workspace, branch, port, templates, recorded,
           runs, kills, torn, hands>>
  BY DEF SeriesApplied, At, OnlyShells
<1>2. v \in Versions /\ v = shells[s].mine
  BY AtOnce
<1>3. k \in 1 .. Len(SeriesOf[v]) + 1 /\ workspace = Sources(Newer, SubSeq(SeriesOf[v], 1, k - 1))
  BY <1>1, <1>2, AtOnce DEF AtWork, Rebasing
<1>4. k - 1 = Len(SeriesOf[v]) /\ SubSeq(SeriesOf[v], 1, Len(SeriesOf[v])) = SeriesOf[v]
  BY <1>1, <1>2, <1>3, SeriesFacts
<1>5. workspace = Sources(Newer, SeriesOf[LockRead(s)])
  BY <1>3, <1>4
<1> QED BY <1>1, <1>5, Same, SaysKeeps DEF Words

-----------------------------------------------------------------------------
(* A build. *)

LEMMA LookAtSourceKeeps == ASSUME EngineInv, NEW s \in Shells, LookAtSource(s) PROVE EngineGoesOn
<1>1. /\ shells[s].at = "build" /\ ~At(s, "prompt")
      /\ UNCHANGED <<lock, cloned, registered, tree, workspace, branch, port, templates, recorded,
           runs, kills, torn, hands>>
  BY DEF LookAtSource, At, OnlyShells
<1>2. CASE Says(s, "error")
  BY <1>1, <1>2, Same, SaysKeeps DEF Words
<1>3. CASE SourceOf(shells[s].place) # Nothing /\ GoesTo(s, "port")
  <2>1. /\ Onward(s, "port").at = "port" /\ Onward(s, "port").said = "nothing"
        /\ Onward(s, "port").place = shells[s].place
    BY <1>1, AtOnce DEF Onward, ShellSet, AtWork
  <2>2. shells[s].place = "locked" => tree # Nothing
    BY <1>3 DEF SourceOf
  <2>3. AtWork(Onward(s, "port"), tree, workspace, port)
    BY <2>1, <2>2 DEF AtWork, Patching, Rebasing, Sourced, Ported, Compiled
  <2>4. "port" \in Stops \ (Lonely \cup {"prompt"})
    BY DEF Stops, Lonely
  <2> QED BY <1>1, <1>3, <2>3, <2>4, Same, GoesKeeps
<1> QED BY <1>2, <1>3 DEF LookAtSource

\* The port changes under those who do not count on it.
LEMMA PortMoves ==
  ASSUME EngineInv, NEW s \in Shells, NEW c \in ShellSet, shells' = [shells EXCEPT ![s] = c],
         AtWork(c, tree, workspace, port'), c.mine = LockRead(s), ~At(s, "prompt"), Honest(s, c),
         port' \in PortSet \cup {Nothing},
         \A t \in Shells : t # s => Ported(shells[t], port') /\ (c.at \in Lonely => shells[t].at # c.at),
         UNCHANGED <<lock, cloned, registered, tree, workspace, branch, templates, recorded, runs,
           kills, torn, hands>>
  PROVE  EngineGoesOn
<1>1. \A t \in Shells : AtWork(shells[t], tree, workspace, port)
  BY DEF EngineInv, Working
<1>2. \A t \in Shells : t # s => AtWork(shells[t], tree, workspace, port')
  BY <1>1 DEF AtWork
<1>3. shells' \in [Shells -> ShellSet] /\ Working' /\ Alone' /\ ReadyIsWhole /\ AppliedIsWhole
  BY <1>2, Moves
<1>4. EngineTypeOK'
  BY <1>3 DEF EngineInv, EngineTypeOK
<1>5. TreeIsTrue' /\ Belong'
  BY DEF EngineInv, TreeIsTrue, Belong
<1> QED BY <1>3, <1>4, <1>5 DEF EngineGoesOn, EngineInv

\* While one shell makes the port, or there is none, nobody else is past it.
LEMMA PortIsTheirs ==
  ASSUME EngineInv, NEW s \in Shells, shells[s].at \in {"patchport", "stateport"} \/ port = Nothing
  PROVE  \A t \in Shells : t # s => shells[t].at \notin {"patchport", "stateport", "release"}
<1>1. \A t \in Shells : Ported(shells[t], port)
  BY DEF EngineInv, Working, AtWork
<1>2. CASE port = Nothing
  BY <1>1, <1>2 DEF Ported
<1>3. ASSUME NEW t \in Shells, t # s, shells[t].at \in {"patchport", "stateport", "release"},
             shells[s].at \in {"patchport", "stateport"}
      PROVE  FALSE
  <2>1. shells[t].at # shells[s].at
    BY <1>3 DEF EngineInv, Alone, Lonely
  <2>2. LockRead(t) \in Versions /\ shells[t].mine \in Versions
    BY AtOnce
  <2>3. PortOf[shells[t].mine] # Nothing
    BY <2>2, SeriesFacts, PlacesDiffer
  <2>4. Ported(shells[s], port) /\ Ported(shells[t], port)
    BY <1>1
  <2> QED BY <1>3, <2>1, <2>3, <2>4 DEF Ported
<1> QED BY <1>2, <1>3

LEMMA PreparePortKeeps == ASSUME EngineInv, NEW s \in Shells, PreparePort(s) PROVE EngineGoesOn
<1> DEFINE v == LockRead(s)
<1>1. /\ shells[s].at = "port" /\ ~At(s, "prompt")
      /\ UNCHANGED <<lock, cloned, registered, tree, workspace, branch, templates, recorded, runs,
           kills, torn, hands>>
  BY DEF PreparePort, At
<1>2. /\ v \in Versions /\ v = shells[s].mine /\ PortOf[v] \in Ports
  BY AtOnce, SeriesFacts
<1>3. shells[s].place = "locked" => tree # Nothing
  BY <1>1, AtOnce DEF AtWork, Sourced
<1>4. CASE Says(s, "error") /\ UNCHANGED port
  BY <1>1, <1>4, Same, SaysKeeps DEF Words
<1>5. CASE port # Nothing /\ PortReady(LockRead(s)) /\ GoesTo(s, "release") /\ UNCHANGED port
  <2>1. /\ Onward(s, "release").at = "release" /\ Onward(s, "release").said = "nothing"
        /\ Onward(s, "release").place = shells[s].place /\ Onward(s, "release").mine = v
    BY <1>1, AtOnce DEF Onward, ShellSet, AtWork
  <2>2. AtWork(Onward(s, "release"), tree, workspace, port)
    BY <1>3, <1>5, <2>1 DEF AtWork, Patching, Rebasing, Sourced, Ported, Compiled, PortReady
  <2>3. "release" \in Stops \ (Lonely \cup {"prompt"})
    BY DEF Stops, Lonely
  <2> QED BY <1>1, <1>5, <2>2, <2>3, Same, GoesKeeps
<1>6. CASE /\ port = Nothing
           /\ port' = [of |-> PortOf[LockRead(s)], patched |-> FALSE, state |-> Nothing]
           /\ GoesTo(s, "patchport")
  <2> DEFINE c == Onward(s, "patchport")
  <2>1. shells' = [shells EXCEPT ![s] = c]
    BY <1>6 DEF GoesTo, Onward
  <2>2. c \in ShellSet /\ c.at = "patchport" /\ c.mine = v /\ c.said = "nothing"
          /\ c.place = shells[s].place
    BY <1>1, AtOnce DEF Onward, ShellSet, Stops, AtWork
  <2> HIDE DEF c
  <2>3. port' \in PortSet /\ port'.of = PortOf[v] /\ ~port'.patched /\ port'.state = Nothing
    BY <1>2, <1>6 DEF PortSet
  <2>4. port' # Nothing
    BY <2>3, PlacesDiffer
  <2>5. AtWork(c, tree, workspace, port')
    BY <1>3, <2>2, <2>3, <2>4 DEF AtWork, Patching, Rebasing, Sourced, Ported, Compiled
  <2>6. \A t \in Shells : t # s => Ported(shells[t], port') /\ shells[t].at # "patchport"
    BY <1>6, PortIsTheirs DEF Ported
  <2>7. Honest(s, c)
    BY <2>2 DEF Honest
  <2> QED BY <1>1, <2>1, <2>2, <2>3, <2>5, <2>6, <2>7, PortMoves, ZenonT(30), SMT
<1> QED BY <1>4, <1>5, <1>6 DEF PreparePort

LEMMA PatchPortKeeps == ASSUME EngineInv, NEW s \in Shells, PatchPort(s) PROVE EngineGoesOn
<1> DEFINE v == LockRead(s)
<1>1. /\ shells[s].at = "patchport" /\ ~At(s, "prompt")
      /\ UNCHANGED <<lock, cloned, registered, tree, workspace, branch, templates, recorded, runs,
           kills, torn, hands>>
  BY DEF PatchPort, At
<1>2. v \in Versions /\ v = shells[s].mine
  BY AtOnce
<1>3. /\ port # Nothing /\ port.of = PortOf[v] /\ port.state = Nothing
      /\ shells[s].place = "locked" => tree # Nothing
  BY <1>1, AtOnce DEF AtWork, Sourced, Ported
<1>4. port \in PortSet
  BY <1>3 DEF EngineInv, EngineTypeOK
<1>5. \A t \in Shells : t # s => shells[t].at \notin {"patchport", "stateport", "release"}
  BY <1>1, PortIsTheirs
<1>6. ASSUME NEW po PROVE \A t \in Shells : t # s => Ported(shells[t], po)
  BY <1>5 DEF Ported
<1>7. CASE Says(s, "error") /\ port' = Nothing
  <2> DEFINE c == Ended(s, "error")
  <2>1. /\ c \in ShellSet /\ c.at = "prompt" /\ c.mine = LockRead(s) /\ c.said = "error"
        /\ AtWork(c, tree, workspace, port')
    BY EndsWell DEF Words
  <2>2. shells' = [shells EXCEPT ![s] = c]
    BY <1>7 DEF Says, Ended
  <2> HIDE DEF c
  <2>3. Honest(s, c) /\ c.at \notin Lonely
    BY <2>1 DEF Honest, Lonely
  <2> QED BY <1>1, <1>6, <1>7, <2>1, <2>2, <2>3, PortMoves
<1>8. CASE GoesTo(s, "stateport") /\ port' = [port EXCEPT !.patched = TRUE]
  <2> DEFINE c == Onward(s, "stateport")
  <2>1. shells' = [shells EXCEPT ![s] = c]
    BY <1>8 DEF GoesTo, Onward
  <2>2. c \in ShellSet /\ c.at = "stateport" /\ c.mine = v /\ c.said = "nothing"
          /\ c.place = shells[s].place
    BY <1>1, AtOnce DEF Onward, ShellSet, Stops, AtWork
  <2> HIDE DEF c
  <2>3. port' \in PortSet /\ port'.of = PortOf[v] /\ port'.patched /\ port'.state = Nothing
    BY <1>3, <1>4, <1>8 DEF PortSet
  <2>4. port' # Nothing
    BY <2>3, PlacesDiffer
  <2>5. AtWork(c, tree, workspace, port')
    BY <1>2, <1>3, <2>2, <2>3, <2>4 DEF AtWork, Patching, Rebasing, Sourced, Ported, Compiled
  <2>6. Honest(s, c)
    BY <2>2 DEF Honest
  <2>7. \A t \in Shells : t # s => shells[t].at # c.at
    BY <1>5, <2>2
  <2> QED BY <1>1, <1>6, <2>1, <2>2, <2>3, <2>5, <2>6, <2>7, PortMoves
<1> QED BY <1>7, <1>8 DEF PatchPort

LEMMA WritePortKeeps == ASSUME EngineInv, NEW s \in Shells, WritePortState(s) PROVE EngineGoesOn
<1> DEFINE v == LockRead(s)
           c == Onward(s, "release")
<1>1. /\ shells[s].at = "stateport" /\ ~At(s, "prompt")
      /\ UNCHANGED <<lock, cloned, registered, tree, workspace, branch, templates, recorded, runs,
           kills, torn, hands>>
      /\ port' = [port EXCEPT !.state = PortOf[v]] /\ shells' = [shells EXCEPT ![s] = c]
  BY DEF WritePortState, At, GoesTo, Onward
<1>2. v \in Versions /\ v = shells[s].mine /\ PortOf[v] \in Ports
  BY AtOnce, SeriesFacts
<1>3. /\ port # Nothing /\ port.of = PortOf[v] /\ port.patched
      /\ shells[s].place = "locked" => tree # Nothing
  BY <1>1, AtOnce DEF AtWork, Sourced, Ported
<1>4. port \in PortSet
  BY <1>3 DEF EngineInv, EngineTypeOK
<1>5. \A t \in Shells : t # s => Ported(shells[t], port')
  BY <1>1, PortIsTheirs DEF Ported
<1>6. c \in ShellSet /\ c.at = "release" /\ c.mine = v /\ c.said = "nothing" /\ c.place = shells[s].place
  BY <1>1, AtOnce DEF Onward, ShellSet, Stops, AtWork
<1> HIDE DEF c
<1>7. port' \in PortSet /\ port'.of = PortOf[v] /\ port'.patched /\ port'.state = PortOf[v]
  BY <1>1, <1>2, <1>3, <1>4 DEF PortSet
<1>8. port' # Nothing
  BY <1>7, PlacesDiffer
<1>9. AtWork(c, tree, workspace, port')
  BY <1>2, <1>3, <1>6, <1>7, <1>8 DEF AtWork, Patching, Rebasing, Sourced, Ported, Compiled
<1>10. Honest(s, c) /\ c.at \notin Lonely
  BY <1>6 DEF Honest, Lonely
<1> QED BY <1>1, <1>5, <1>6, <1>7, <1>9, <1>10, PortMoves

\* A template says who made it of what, and of locked sources unless it is a candidate.
LEMMA TemplateFacts ==
  ASSUME EngineInv, NEW s \in Shells, shells[s].place = "locked" => tree # Nothing
  PROVE  /\ Template(s) \in TemplateSet /\ Template(s) # Nothing /\ Template(s).by = shells[s].build
         /\ shells[s].place = "locked" => FromLock(Template(s))
<1>1. workspace \in SourceSet \cup {Nothing} /\ (tree # Nothing => tree \in TreeSet
        /\ tree.sources \in SourceSet)
  BY DEF EngineInv, EngineTypeOK, TreeSet
<1>2. SourceOf(shells[s].place) \in SourceSet \cup {Nothing}
  BY <1>1 DEF SourceOf
<1>3. Template(s) \in TemplateSet /\ Template(s).by = shells[s].build
        /\ Template(s).of = SourceOf(shells[s].place)
  BY <1>2, AtOnce DEF Template, TemplateSet
<1>4. Template(s) # Nothing
  BY <1>3, PlacesDiffer
<1>5. ASSUME shells[s].place = "locked" PROVE FromLock(Template(s))
  <2>1. Template(s).of = tree.sources /\ tree.sources # Nothing
    BY <1>1, <1>3, <1>5, PlacesDiffer DEF SourceOf
  <2>2. PICK v \in Versions : tree.sources.base = BaseOf[v]
    BY <1>5 DEF EngineInv, TreeIsTrue
  <2> QED BY <2>1, <2>2, LocksAreWhole DEF FromLock
<1> QED BY <1>3, <1>4, <1>5

\* The step of a shell that changes what it has read, and nothing else.
LEMMA ReadKeeps ==
  ASSUME EngineInv, NEW s \in Shells, NEW c \in ShellSet, shells' = [shells EXCEPT ![s] = c], ~At(s,
           "prompt"),
         AtWork(c, tree, workspace, port), c.mine = LockRead(s), c.at \notin Lonely,
           c.said \notin {"ready", "patches_applied"},
         UNCHANGED <<lock, cloned, registered, tree, workspace, branch, port, templates, recorded,
           runs, kills, torn, hands>>
  PROVE  EngineGoesOn
<1>1. Honest(s, c)
  BY DEF Honest
<1> QED BY <1>1, Same, Runs

LEMMA CompileKeeps == ASSUME EngineInv, NEW s \in Shells, Compile(s) PROVE EngineGoesOn
<1>1. UNCHANGED <<lock, cloned, registered, tree, workspace, branch, port, templates, recorded, runs,
        kills, torn, hands>>
  BY DEF Compile, OnlyShells
<1>2. CASE (At(s, "release") \/ At(s, "debug")) /\ Says(s, "error")
  BY <1>1, <1>2, Same, SaysKeeps DEF Words, At
<1>3. ASSUME At(s, "release") \/ At(s, "debug")
      PROVE  /\ Template(s) \in TemplateSet /\ Template(s) # Nothing /\ Template(s).by = shells[s].build
             /\ shells[s].place = "locked" => FromLock(Template(s)) /\ tree # Nothing
  <2>1. shells[s].place = "locked" => tree # Nothing
    BY <1>3, AtOnce DEF AtWork, Sourced, At
  <2> QED BY <2>1, TemplateFacts
<1>4. CASE /\ At(s, "release")
           /\ shells' = [shells EXCEPT ![s].at = "debug", ![s].read.release = Template(s)]
  <2> DEFINE T == Template(s)
             read == [shells[s].read EXCEPT !.release = T]
             c == [shells[s] EXCEPT !.at = "debug", !.read = read]
  <2>1. shells' = [shells EXCEPT ![s] = c]
    BY <1>4, AtOnce DEF ShellSet
  <2>2. /\ T \in TemplateSet /\ T # Nothing /\ T.by = shells[s].build
        /\ shells[s].place = "locked" => FromLock(T) /\ tree # Nothing
    BY <1>3, <1>4
  <2> HIDE DEF T
  <2>3. read \in PairSet /\ read.release = T
    BY <2>2, AtOnce DEF PairSet
  <2> HIDE DEF read
  <2>4. /\ c \in ShellSet /\ c.at = "debug" /\ c.mine = LockRead(s) /\ c.said = "nothing" /\ c.read = read
        /\ c.place = shells[s].place /\ c.build = shells[s].build
    BY <1>4, <2>3, AtOnce DEF ShellSet, Stops, AtWork, At
  <2> HIDE DEF c
  <2>5. AtWork(c, tree, workspace, port)
    BY <2>2, <2>3, <2>4 DEF AtWork, Patching, Rebasing, Sourced, Ported, Compiled
  <2>6. c.at \notin Lonely /\ ~At(s, "prompt")
    BY <1>4, <2>4 DEF Lonely, At
  <2> QED BY <1>1, <2>1, <2>4, <2>5, <2>6, ReadKeeps
<1>5. CASE /\ At(s, "debug")
           /\ shells' = [shells EXCEPT ![s].at = "stage", ![s].read.debug = Template(s)]
  <2> DEFINE T == Template(s)
             read == [shells[s].read EXCEPT !.debug = T]
             c == [shells[s] EXCEPT !.at = "stage", !.read = read]
  <2>1. shells' = [shells EXCEPT ![s] = c]
    BY <1>5, AtOnce DEF ShellSet
  <2>2. /\ T \in TemplateSet /\ T # Nothing /\ T.by = shells[s].build
        /\ shells[s].place = "locked" => FromLock(T) /\ tree # Nothing
    BY <1>3, <1>5
  <2> HIDE DEF T
  <2>3. read \in PairSet /\ read.debug = T /\ read.release = shells[s].read.release
    BY <2>2, AtOnce DEF PairSet
  <2> HIDE DEF read
  <2>4. /\ c \in ShellSet /\ c.at = "stage" /\ c.mine = LockRead(s) /\ c.said = "nothing" /\ c.read = read
        /\ c.place = shells[s].place /\ c.build = shells[s].build
    BY <1>5, <2>3, AtOnce DEF ShellSet, Stops, AtWork, At
  <2>5. Compiled(shells[s])
    BY AtOnce DEF AtWork
  <2> HIDE DEF c
  <2>6. Compiled(c)
    BY <1>5, <2>2, <2>3, <2>4, <2>5 DEF Compiled, At
  <2>7. AtWork(c, tree, workspace, port)
    BY <2>4, <2>6 DEF AtWork, Patching, Rebasing, Sourced, Ported
  <2>8. c.at \notin Lonely /\ ~At(s, "prompt")
    BY <1>5, <2>4 DEF Lonely, At
  <2> QED BY <1>1, <2>1, <2>4, <2>7, <2>8, ReadKeeps
<1> QED BY <1>2, <1>4, <1>5 DEF Compile

LEMMA StageKeeps == ASSUME EngineInv, NEW s \in Shells, Stage(s) PROVE EngineGoesOn
<1>1. /\ shells[s].at = "stage" /\ ~At(s, "prompt")
      /\ UNCHANGED <<lock, cloned, registered, tree, workspace, branch, port, templates, recorded,
           runs, kills, torn, hands>>
  BY DEF Stage, At, OnlyShells
<1>2. CASE Says(s, "error")
  BY <1>1, <1>2, Same, SaysKeeps DEF Words
<1>3. CASE GoesTo(s, "install")
  <2> DEFINE c == Onward(s, "install")
  <2>1. /\ c.at = "install" /\ c.said = "nothing" /\ c.place = shells[s].place
        /\ c.read = shells[s].read /\ c.build = shells[s].build
    BY <1>1, AtOnce DEF Onward, ShellSet, AtWork
  <2>2. Compiled(shells[s])
    BY AtOnce DEF AtWork
  <2> HIDE DEF c
  <2>3. Compiled(c)
    BY <1>1, <2>1, <2>2 DEF Compiled
  <2>4. AtWork(c, tree, workspace, port)
    BY <2>1, <2>3 DEF AtWork, Patching, Rebasing, Sourced, Ported
  <2>5. "install" \in Stops \ (Lonely \cup {"prompt"})
    BY DEF Stops, Lonely
  <2> QED BY <1>1, <1>3, <2>4, <2>5, Same, GoesKeeps DEF c
<1> QED BY <1>2, <1>3 DEF Stage

\* One more file is at its place: the command has it from sources of its own place.
LEMMA TemplatesMove ==
  ASSUME EngineInv, NEW s \in Shells, NEW c \in ShellSet, shells' = [shells EXCEPT ![s] = c],
         AtWork(c, tree, workspace, port), c.mine = LockRead(s), ~At(s, "prompt"), c.at \notin Lonely,
         Honest(s, c), templates' \in [{"locked", "candidate"} -> PairSet], Belong',
         UNCHANGED <<lock, cloned, registered, tree, workspace, branch, port, recorded, runs, kills, torn, hands>>
  PROVE  EngineGoesOn
<1>1. \A t \in Shells : AtWork(shells[t], tree, workspace, port)
  BY DEF EngineInv, Working
<1>2. shells' \in [Shells -> ShellSet] /\ Working' /\ Alone' /\ ReadyIsWhole /\ AppliedIsWhole
  BY <1>1, Moves
<1>3. EngineTypeOK'
  BY <1>2 DEF EngineInv, EngineTypeOK
<1>4. TreeIsTrue'
  BY DEF EngineInv, TreeIsTrue
<1> QED BY <1>2, <1>3, <1>4 DEF EngineGoesOn, EngineInv

\* A place gets a file.
LEMMA PlaceFacts ==
  ASSUME EngineInv, NEW s \in Shells, NEW pair \in PairSet, NEW new,
           new = [templates EXCEPT ![Place(s)] = pair],
         Place(s) = "locked" => FromLock(pair.release) /\ FromLock(pair.debug)
  PROVE  /\ new \in [{"locked", "candidate"} -> PairSet] /\ new[Place(s)] = pair
         /\ FromLock(new["locked"].release) /\ FromLock(new["locked"].debug)
<1>1. Place(s) \in {"locked", "candidate"} /\ templates \in [{"locked", "candidate"} -> PairSet]
  BY AtOnce DEF Place, EngineInv, EngineTypeOK
<1>2. /\ new \in [{"locked", "candidate"} -> PairSet] /\ new[Place(s)] = pair
      /\ Place(s) # "locked" => new["locked"] = templates["locked"]
  BY <1>1
<1>3. FromLock(templates["locked"].release) /\ FromLock(templates["locked"].debug)
  BY DEF EngineInv, Belong
<1> QED BY <1>2, <1>3

LEMMA InstallKeeps == ASSUME EngineInv, NEW s \in Shells, Install(s) PROVE EngineGoesOn
<1> DEFINE there == templates[Place(s)]
           read == shells[s].read
<1>1. UNCHANGED <<lock, cloned, registered, tree, workspace, branch, port, recorded, runs, kills, hands>>
  BY DEF Install
<1>2. /\ Place(s) \in {"locked", "candidate"} /\ there \in PairSet /\ read \in PairSet
      /\ templates \in [{"locked", "candidate"} -> PairSet]
  BY AtOnce DEF Place, EngineInv, EngineTypeOK
<1>3. Compiled(shells[s])
  BY AtOnce DEF AtWork
<1>4. Place(s) = "locked" => FromLock(there.release) /\ FromLock(there.debug)
  BY DEF EngineInv, Belong
<1>5. CASE /\ At(s, "install") /\ GoesTo(s, "second") /\ UNCHANGED torn
           /\ templates' = [templates EXCEPT ![Place(s)].release = shells[s].read.release]
  <2> DEFINE c == Onward(s, "second")
             pair == [there EXCEPT !.release = read.release]
  <2>1. pair \in PairSet /\ pair.release = read.release /\ pair.debug = there.debug
    BY <1>2 DEF PairSet
  <2>2. Place(s) = "locked" => FromLock(pair.release) /\ FromLock(pair.debug)
    BY <1>3, <1>4, <1>5, <2>1 DEF Compiled, Place, At
  <2>3. templates' = [templates EXCEPT ![Place(s)] = pair]
    BY <1>2, <1>5
  <2> HIDE DEF pair
  <2>4. templates' \in [{"locked", "candidate"} -> PairSet] /\ Belong'
    BY <2>1, <2>2, <2>3, PlaceFacts DEF Belong
  <2>5. shells' = [shells EXCEPT ![s] = c]
    BY <1>5 DEF GoesTo, Onward
  <2>6. /\ c \in ShellSet /\ c.at = "second" /\ c.mine = LockRead(s) /\ c.said = "nothing"
        /\ c.place = shells[s].place /\ c.read = shells[s].read /\ c.build = shells[s].build
    BY <1>5, AtOnce DEF Onward, ShellSet, AtWork, At, Stops
  <2> HIDE DEF c
  <2>7. Compiled(c)
    BY <1>3, <1>5, <2>6 DEF Compiled, At
  <2>8. AtWork(c, tree, workspace, port)
    BY <2>6, <2>7 DEF AtWork, Patching, Rebasing, Sourced, Ported
  <2>9. Honest(s, c) /\ c.at \notin Lonely /\ ~At(s, "prompt")
    BY <1>5, <2>6 DEF Honest, Lonely, At
  <2> QED BY <1>1, <1>5, <2>4, <2>5, <2>6, <2>8, <2>9, TemplatesMove
<1>6. CASE /\ At(s, "second") /\ GoesTo(s, "stamp") /\ UNCHANGED torn
           /\ templates' = [templates EXCEPT ![Place(s)].debug = shells[s].read.debug]
  <2> DEFINE c == Onward(s, "stamp")
             pair == [there EXCEPT !.debug = read.debug]
  <2>1. pair \in PairSet /\ pair.debug = read.debug /\ pair.release = there.release
    BY <1>2 DEF PairSet
  <2>2. Place(s) = "locked" => FromLock(pair.release) /\ FromLock(pair.debug)
    BY <1>3, <1>4, <1>6, <2>1 DEF Compiled, Place, At
  <2>3. templates' = [templates EXCEPT ![Place(s)] = pair]
    BY <1>2, <1>6
  <2> HIDE DEF pair
  <2>4. templates' \in [{"locked", "candidate"} -> PairSet] /\ Belong'
    BY <2>1, <2>2, <2>3, PlaceFacts DEF Belong
  <2>5. shells' = [shells EXCEPT ![s] = c]
    BY <1>6 DEF GoesTo, Onward
  <2>6. c \in ShellSet /\ c.at = "stamp" /\ c.mine = LockRead(s) /\ c.said = "nothing"
    BY <1>6, AtOnce DEF Onward, ShellSet, AtWork, At, Stops
  <2> HIDE DEF c
  <2>7. AtWork(c, tree, workspace, port)
    BY <2>6 DEF AtWork, Patching, Rebasing, Sourced, Ported, Compiled
  <2>8. Honest(s, c) /\ c.at \notin Lonely /\ ~At(s, "prompt")
    BY <1>6, <2>6 DEF Honest, Lonely, At
  <2> QED BY <1>1, <1>6, <2>4, <2>5, <2>6, <2>7, <2>8, TemplatesMove
<1>7. CASE /\ At(s, "stamp") /\ Says(s, "built") /\ UNCHANGED torn
           /\ templates' \in {templates, [templates EXCEPT ![Place(s)].stamp = SeriesId(LockRead(s))]}
  <2> DEFINE c == Ended(s, "built")
             id == SeriesId(LockRead(s))
             pair == [there EXCEPT !.stamp = id]
  <2>1. id \in SeriesSet
    BY AtOnce, SeriesFacts DEF SeriesId, SeriesSet
  <2> HIDE DEF id
  <2>2. pair \in PairSet /\ pair.debug = there.debug /\ pair.release = there.release
    BY <1>2, <2>1 DEF PairSet
  <2>3. templates' = templates \/ templates' = [templates EXCEPT ![Place(s)] = pair]
    BY <1>2, <1>7 DEF id
  <2> HIDE DEF pair
  <2>4. templates' \in [{"locked", "candidate"} -> PairSet] /\ Belong'
    <3>1. CASE templates' = templates
      BY <1>2, <3>1 DEF Belong, EngineInv
    <3>2. CASE templates' = [templates EXCEPT ![Place(s)] = pair]
      BY <1>4, <2>2, <3>2, PlaceFacts DEF Belong
    <3> QED BY <2>3, <3>1, <3>2
  <2>5. shells' = [shells EXCEPT ![s] = c]
    BY <1>7 DEF Says, Ended
  <2>6. /\ c \in ShellSet /\ c.at = "prompt" /\ c.mine = LockRead(s) /\ c.said = "built"
        /\ AtWork(c, tree, workspace, port)
    BY EndsWell DEF Words
  <2> HIDE DEF c
  <2>7. Honest(s, c) /\ c.at \notin Lonely /\ ~At(s, "prompt")
    BY <1>7, <2>6 DEF Honest, Lonely, At
  <2> QED BY <1>1, <1>7, <2>4, <2>5, <2>6, <2>7, TemplatesMove
<1>8. CASE /\ shells[s].at \in {"install", "second", "stamp"} /\ Says(s, "error") /\ Tears(s)
           /\ UNCHANGED templates
  <2>1. ~At(s, "prompt") /\ "error" \in Words
    BY <1>8 DEF At, Words
  <2>2. torn' \subseteq 0 .. MaxRuns
    BY <1>8, TearsFacts
  <2>3. /\ cloned' \in BOOLEAN /\ runs' \in 0 .. MaxRuns /\ kills' \in 0 .. MaxKills /\ hands' \in 0 .. MaxHands
        /\ recorded' \in PairSet /\ (recorded' = Empty \/ Nothing \notin {recorded'.release, recorded'.debug})
    BY <1>1 DEF EngineInv, EngineTypeOK
  <2> QED BY <1>1, <1>8, <2>1, <2>2, <2>3, SaysKeeps
<1> QED BY <1>5, <1>6, <1>7, <1>8 DEF Install

-----------------------------------------------------------------------------
(* record-artifacts, and an export. *)

LEMMA RecordKeeps == ASSUME EngineInv, NEW s \in Shells, RecordArtifacts(s) PROVE EngineGoesOn
<1> DEFINE there == templates["locked"]
<1>1. UNCHANGED <<lock, cloned, registered, tree, workspace, branch, port, templates, runs, kills, torn, hands>>
  BY DEF RecordArtifacts
<1>2. there \in PairSet
  BY DEF EngineInv, EngineTypeOK
<1>3. runs' \in 0 .. MaxRuns /\ kills' \in 0 .. MaxKills /\ torn' \subseteq 0 .. MaxRuns /\ hands' \in 0 .. MaxHands /\ cloned' \in BOOLEAN
  BY <1>1 DEF EngineInv, EngineTypeOK
<1>4. CASE /\ At(s, "record") /\ UNCHANGED recorded
           /\ shells' = [shells EXCEPT ![s].at = "record debug",
                ![s].read.release = templates["locked"].release]
  <2> DEFINE read == [shells[s].read EXCEPT !.release = there.release]
             c == [shells[s] EXCEPT !.at = "record debug", !.read = read]
  <2>1. shells' = [shells EXCEPT ![s] = c]
    BY <1>4, AtOnce DEF ShellSet
  <2>2. read \in PairSet
    BY <1>2, AtOnce DEF PairSet
  <2> HIDE DEF read
  <2>3. c \in ShellSet /\ c.at = "record debug" /\ c.mine = LockRead(s) /\ c.said = "nothing"
    BY <1>4, <2>2, AtOnce DEF ShellSet, Stops, AtWork, At
  <2> HIDE DEF c
  <2>4. AtWork(c, tree, workspace, port)
    BY <2>3 DEF AtWork, Patching, Rebasing, Sourced, Ported, Compiled
  <2>5. c.at \notin Lonely /\ ~At(s, "prompt")
    BY <1>4, <2>3 DEF Lonely, At
  <2> QED BY <1>1, <1>4, <2>1, <2>3, <2>4, <2>5, ReadKeeps
<1>5. CASE At(s, "record debug")
  <2> DEFINE pair == [shells[s].read EXCEPT !.debug = templates["locked"].debug]
  <2>1. pair \in PairSet
    BY <1>2, AtOnce DEF PairSet
  <2>2. ~At(s, "prompt")
    BY <1>5 DEF At
  <2>3. CASE Says(s, "error") /\ UNCHANGED recorded
    BY <1>1, <2>2, <2>3, Same, SaysKeeps DEF Words
  <2>4. CASE Nothing \notin {pair.release, pair.debug} /\ Says(s, "recorded") /\ recorded' = pair
    <3> HIDE DEF pair
    <3>1. recorded' \in PairSet /\ (recorded' = Empty \/ Nothing \notin {recorded'.release,
            recorded'.debug})
      BY <2>1, <2>4
    <3> QED BY <1>1, <1>3, <2>2, <2>4, <3>1, SaysKeeps DEF Words
  <2> QED BY <1>5, <2>3, <2>4 DEF RecordArtifacts, At
<1> QED BY <1>4, <1>5 DEF RecordArtifacts

LEMMA CheckKeeps == ASSUME EngineInv, NEW s \in Shells, CheckIdentity(s) PROVE EngineGoesOn
<1> DEFINE there == templates["locked"]
<1>1. /\ shells[s].at = "export" /\ ~At(s, "prompt")
      /\ UNCHANGED <<lock, cloned, registered, tree, workspace, branch, port, templates, recorded,
           runs, kills, torn, hands>>
  BY DEF CheckIdentity, OnlyShells, At
<1>2. there \in PairSet
  BY DEF EngineInv, EngineTypeOK
<1>3. CASE Says(s, "error")
  BY <1>1, <1>3, Same, SaysKeeps DEF Words
<1>4. CASE shells' = [shells EXCEPT ![s].at = "use", ![s].read.stamp = there.stamp]
  <2> DEFINE read == [shells[s].read EXCEPT !.stamp = there.stamp]
             c == [shells[s] EXCEPT !.at = "use", !.read = read]
  <2>1. shells' = [shells EXCEPT ![s] = c]
    BY <1>4, AtOnce DEF ShellSet
  <2>2. read \in PairSet
    BY <1>2, AtOnce DEF PairSet
  <2> HIDE DEF read
  <2>3. c \in ShellSet /\ c.at = "use" /\ c.mine = LockRead(s) /\ c.said = "nothing"
    BY <1>1, <2>2, AtOnce DEF ShellSet, Stops, AtWork
  <2> HIDE DEF c
  <2>4. AtWork(c, tree, workspace, port)
    BY <2>3 DEF AtWork, Patching, Rebasing, Sourced, Ported, Compiled
  <2>5. c.at \notin Lonely
    BY <2>3 DEF Lonely
  <2> QED BY <1>1, <2>1, <2>3, <2>4, <2>5, ReadKeeps
<1> QED BY <1>3, <1>4 DEF CheckIdentity

LEMMA UseKeeps == ASSUME EngineInv, NEW s \in Shells, UseTemplate(s) PROVE EngineGoesOn
<1> DEFINE there == templates["locked"]
<1>1. /\ shells[s].at = "use" /\ ~At(s, "prompt")
      /\ UNCHANGED <<lock, cloned, registered, tree, workspace, branch, port, templates, recorded,
           runs, kills, torn, hands>>
  BY DEF UseTemplate, OnlyShells, At
<1>2. there \in PairSet
  BY DEF EngineInv, EngineTypeOK
<1>3. CASE Says(s, "error")
  BY <1>1, <1>3, Same, SaysKeeps DEF Words
<1>4. ASSUME NEW profile \in {"release", "debug"},
             shells' = [shells EXCEPT ![s] =
               [Quiet EXCEPT !.said = "exported", !.mine = LockRead(s),
                             !.read = [shells[s].read EXCEPT ![profile] = templates["locked"][profile]]]]
      PROVE  EngineGoesOn
  <2> DEFINE read == [shells[s].read EXCEPT ![profile] = there[profile]]
             c == [Quiet EXCEPT !.said = "exported", !.mine = LockRead(s), !.read = read]
  <2>1. shells' = [shells EXCEPT ![s] = c]
    BY <1>4
  <2>2. read \in PairSet
    <3>1. CASE profile = "release"
      <4>1. [shells[s].read EXCEPT !.release = there.release] \in PairSet
        BY <1>2, AtOnce DEF PairSet
      <4> QED BY <3>1, <4>1
    <3>2. CASE profile = "debug"
      <4>1. [shells[s].read EXCEPT !.debug = there.debug] \in PairSet
        BY <1>2, AtOnce DEF PairSet
      <4> QED BY <3>2, <4>1
    <3> QED BY <3>1, <3>2
  <2> HIDE DEF read
  <2>3. Quiet \in [at : {"prompt"}, mine : {1}, place : {"locked"}, k : Nat, build : 0 .. MaxRuns,
          read : PairSet, said : {"nothing"}]
    BY QuietFacts, LocksAreWhole DEF EngineInv, Quiet
  <2>4. c \in ShellSet /\ c.at = "prompt" /\ c.mine = LockRead(s) /\ c.said = "exported"
    BY <2>2, <2>3, AtOnce DEF ShellSet, Stops, Words
  <2> HIDE DEF c
  <2>5. AtWork(c, tree, workspace, port)
    BY <2>4 DEF AtWork, Patching, Rebasing, Sourced, Ported, Compiled
  <2>6. c.at \notin Lonely
    BY <2>4 DEF Lonely
  <2> QED BY <1>1, <2>1, <2>4, <2>5, <2>6, ReadKeeps
<1>5. PICK profile \in {"release", "debug"} :
        IF templates["locked"][profile] = Nothing THEN Says(s, "error")
        ELSE shells' = [shells EXCEPT ![s] =
               [Quiet EXCEPT !.said = "exported", !.mine = LockRead(s),
                             !.read = [shells[s].read EXCEPT ![profile] = templates["locked"][profile]]]]
  BY DEF UseTemplate
<1> QED BY <1>3, <1>4, <1>5

-----------------------------------------------------------------------------
(* The developer, and all together. *)

\* Nobody's step.
LEMMA Unmoved ==
  ASSUME EngineInv, UNCHANGED shells
  PROVE  ReadyIsWhole /\ AppliedIsWhole /\ Alone'
<1>1. \A t \in Shells : shells[t].at # "prompt" => shells[t].said = "nothing"
  BY DEF EngineInv, Working, AtWork
<1>2. ReadyIsWhole
  BY <1>1 DEF ReadyIsWhole, At
<1>3. AppliedIsWhole
  BY DEF AppliedIsWhole
<1>4. Alone'
  BY DEF EngineInv, Alone
<1> QED BY <1>2, <1>3, <1>4

LEMMA PullKeeps == ASSUME EngineInv, Pull PROVE EngineGoesOn
<1>1. /\ UNCHANGED <<cloned, registered, tree, workspace, branch, port, templates, recorded, shells,
           runs, kills, torn, hands>>
      /\ lock < LockCount /\ lock' = lock + 1
  BY DEF Pull
<1>2. lock' \in Versions
  BY <1>1, LocksAreWhole DEF EngineInv, EngineTypeOK, Versions
<1>3. EngineTypeOK'
  BY <1>1, <1>2 DEF EngineInv, EngineTypeOK
<1>4. Working' /\ TreeIsTrue' /\ Belong'
  BY <1>1 DEF EngineInv, Working, TreeIsTrue, Belong
<1> QED BY <1>1, <1>3, <1>4, Unmoved DEF EngineGoesOn, EngineInv

\* A shell at the prompt, or one that only reads templates, counts on no sources.
LEMMA HandKeeps == ASSUME EngineInv, Hand PROVE EngineGoesOn
<1>1. UNCHANGED <<lock, cloned, branch, templates, recorded, shells, runs, kills, torn>>
  BY DEF Hand
<1>2. hands' \in 0 .. MaxHands
  BY LocksAreWhole DEF Hand, EngineInv, EngineTypeOK
<1>3. Working'
  <2>1. \A s \in Shells : shells[s].at \in {"prompt", "record", "record debug", "export", "use"}
    BY DEF Hand, Unattended
  <2>2. \A s \in Shells : AtWork(shells[s], tree, workspace, port)
    BY DEF EngineInv, Working
  <2>3. \A s \in Shells : AtWork(shells[s], tree', workspace', port')
    BY <2>1, <2>2 DEF AtWork, Patching, Rebasing, Sourced, Ported
  <2> QED BY <1>1, <2>3 DEF Working
<1>4. Belong'
  BY <1>1 DEF EngineInv, Belong
<1>5. CASE tree # Nothing /\ tree' \in {Nothing, [tree EXCEPT !.sources.edited = TRUE], [tree EXCEPT !.sources.strayed = TRUE]}
             /\ UNCHANGED <<registered, workspace, port>>
  <2>1. tree \in TreeSet /\ registered = TRUE
    BY <1>5 DEF EngineInv, EngineTypeOK
  <2>2. tree' = Nothing \/ \E ours \in SourceSet :
          ours.base = tree.sources.base /\ tree' = [tree EXCEPT !.sources = ours]
    <3> DEFINE named == [tree.sources EXCEPT !.edited = TRUE]
               other == [tree.sources EXCEPT !.strayed = TRUE]
    <3>1. named \in SourceSet /\ named.base = tree.sources.base
      BY <2>1 DEF TreeSet, SourceSet
    <3>2. other \in SourceSet /\ other.base = tree.sources.base
      BY <2>1 DEF TreeSet, SourceSet
    <3>3. \/ tree' = Nothing \/ tree' = [tree EXCEPT !.sources = named]
          \/ tree' = [tree EXCEPT !.sources = other]
      BY <1>5, <2>1 DEF TreeSet, SourceSet
    <3> HIDE DEF named, other
    <3> QED BY <3>1, <3>2, <3>3
  <2>3. CASE tree' = Nothing
    <3>1. EngineTypeOK' /\ TreeIsTrue'
      BY <1>1, <1>2, <1>5, <2>1, <2>3 DEF EngineInv, EngineTypeOK, TreeIsTrue
    <3> QED BY <1>1, <1>3, <1>4, <3>1, Unmoved DEF EngineGoesOn, EngineInv
  <2>4. ASSUME NEW ours \in SourceSet, ours.base = tree.sources.base,
               tree' = [tree EXCEPT !.sources = ours]
        PROVE  EngineGoesOn
    <3>1. tree' \in TreeSet /\ tree'.sources = ours /\ tree'.state = tree.state
      BY <2>1, <2>4 DEF TreeSet
    <3>2. TreeIsTrue'
      BY <1>5, <2>4, <3>1 DEF EngineInv, TreeIsTrue
    <3>3. EngineTypeOK'
      BY <1>1, <1>2, <1>5, <2>1, <3>1 DEF EngineInv, EngineTypeOK
    <3> QED BY <1>1, <1>3, <1>4, <3>2, <3>3, Unmoved DEF EngineGoesOn, EngineInv
  <2> QED BY <2>2, <2>3, <2>4
<1>6. CASE workspace # Nothing /\ workspace' \in {Nothing, [workspace EXCEPT !.conflict = FALSE,
             !.edited = TRUE]} /\ UNCHANGED <<registered, tree, port>>
  <2>1. workspace' \in SourceSet \cup {Nothing}
    BY <1>6 DEF EngineInv, EngineTypeOK, SourceSet
  <2>2. EngineTypeOK' /\ TreeIsTrue'
    BY <1>1, <1>2, <1>6, <2>1 DEF EngineInv, EngineTypeOK, TreeIsTrue
  <2> QED BY <1>1, <1>3, <1>4, <2>2, Unmoved DEF EngineGoesOn, EngineInv
<1>7. CASE port # Nothing /\ port' \in {Nothing, [port EXCEPT !.patched = FALSE]}
             /\ UNCHANGED <<registered, tree, workspace>>
  <2>1. port' \in PortSet \cup {Nothing}
    BY <1>7 DEF EngineInv, EngineTypeOK, PortSet
  <2>2. EngineTypeOK' /\ TreeIsTrue'
    BY <1>1, <1>2, <1>7, <2>1 DEF EngineInv, EngineTypeOK, TreeIsTrue
  <2> QED BY <1>1, <1>3, <1>4, <2>2, Unmoved DEF EngineGoesOn, EngineInv
<1> QED BY <1>5, <1>6, <1>7 DEF Hand

LEMMA PruneKeeps == ASSUME EngineInv, Prune PROVE EngineGoesOn
<1>1. /\ UNCHANGED <<lock, cloned, tree, workspace, branch, port, templates, recorded, shells, runs,
           kills, torn, hands>>
      /\ tree = Nothing /\ registered' = FALSE
  BY DEF Prune
<1>2. EngineTypeOK'
  BY <1>1 DEF EngineInv, EngineTypeOK
<1>3. Working' /\ TreeIsTrue' /\ Belong'
  BY <1>1 DEF EngineInv, Working, TreeIsTrue, Belong
<1> QED BY <1>1, <1>2, <1>3, Unmoved DEF EngineGoesOn, EngineInv

LEMMA StillKeeps == ASSUME EngineInv, UNCHANGED engineVars PROVE EngineGoesOn
<1>1. EngineTypeOK'
  BY DEF EngineInv, EngineTypeOK, engineVars
<1>2. Working' /\ TreeIsTrue' /\ Belong'
  BY DEF EngineInv, Working, TreeIsTrue, Belong, engineVars
<1> QED BY <1>1, <1>2, Unmoved DEF EngineGoesOn, EngineInv, engineVars

LEMMA EngineStep == ASSUME EngineInv, [EngineNext]_engineVars PROVE EngineGoesOn
<1>1. ASSUME NEW s \in Shells, CommandStep(s) PROVE EngineGoesOn
  BY <1>1, FetchRepoKeeps, PrepareKeeps, AddKeeps, PatchKeeps, WriteStateKeeps, LookKeeps, ThreeWayKeeps,
     SeriesAppliedKeeps, LookAtSourceKeeps, PreparePortKeeps, PatchPortKeeps, WritePortKeeps, CompileKeeps,
     StageKeeps, InstallKeeps, RecordKeeps, CheckKeeps, UseKeeps DEF CommandStep
<1> QED BY <1>1, BeginKeeps, KillKeeps, PullKeeps, HandKeeps, PruneKeeps, StillKeeps DEF EngineNext

LEMMA EngineStarts == EngineInit => EngineInv
<1> SUFFICES ASSUME EngineInit PROVE EngineInv
  OBVIOUS
<1>1. Empty \in PairSet /\ Empty.release = Nothing /\ Empty.debug = Nothing
  BY DEF Empty, PairSet
<1>2. Quiet \in ShellSet /\ Quiet.at = "prompt"
  <2>1. 1 \in Versions /\ 0 \in 0 .. MaxRuns
    BY LocksAreWhole DEF Versions
  <2> QED BY <1>1, <2>1 DEF Quiet, ShellSet, Stops, Words
<1>3. shells \in [Shells -> ShellSet] /\ \A s \in Shells : shells[s].at = "prompt"
  BY <1>2 DEF EngineInit
<1>4. templates \in [{"locked", "candidate"} -> PairSet] /\ templates["locked"] = Empty
  BY <1>1 DEF EngineInit
<1>5. 1 \in Versions /\ 0 \in 0 .. MaxRuns /\ 0 \in 0 .. MaxKills /\ 0 \in 0 .. MaxHands
  BY LocksAreWhole DEF Versions
<1>6. EngineTypeOK
  BY <1>1, <1>3, <1>4, <1>5 DEF EngineInit, EngineTypeOK
<1>7. Working
  BY <1>3 DEF Working, AtWork, Patching, Rebasing, Sourced, Ported, Compiled
<1>8. Alone
  BY <1>3 DEF Alone, Lonely
<1>9. TreeIsTrue
  BY DEF EngineInit, TreeIsTrue
<1>10. Belong
  BY <1>1, <1>4 DEF Belong, FromLock
<1> QED BY <1>6, <1>7, <1>8, <1>9, <1>10 DEF EngineInv

-----------------------------------------------------------------------------
(* Two templates of one build. *)

\* Only one shell builds: two that installed at once would mix their templates.
OneBuilder == \A s, t \in Shells : "build" \in CommandsOf[s] \cap CommandsOf[t] => s = t

Building ==
  {"build", "port", "patchport", "stateport", "release", "debug", "stage", "install", "second", "stamp"}
Builders == \A s \in Shells : shells[s].at \in Building => "build" \in CommandsOf[s]

\* Between its two renames a build has its own release template there.
Between(s) == shells[s].at = "second" /\ shells[s].place = "locked"
OneBuild ==
  LET there == templates["locked"]
  IN /\ \A s \in Shells : Between(s) => there.release # Nothing /\ there.release.by = shells[s].build
     /\ (\A s \in Shells : ~Between(s)) /\ Nothing \notin {there.release, there.debug}
          => there.release.by = there.debug.by \/ there.release.by \in torn
BuildInv == Builders /\ OneBuild

\* Any step but an installation's.
LEMMA OtherSteps ==
  ASSUME EngineInv, BuildInv, NEW s \in Shells, NEW c, shells' = [shells EXCEPT ![s] = c],
         c.at # "second", shells[s].at # "second", UNCHANGED torn,
         c.at \in Building => shells[s].at \in Building \/ "build" \in CommandsOf[s],
         UNCHANGED templates
  PROVE  BuildInv'
<1>1. shells'[s] = c /\ \A t \in Shells : t # s => shells'[t] = shells[t]
  BY DEF EngineInv, EngineTypeOK
<1>2. Builders'
  BY <1>1 DEF BuildInv, Builders
<1>3. \A t \in Shells : (Between(t))' <=> Between(t)
  BY <1>1 DEF Between
<1>4. \A t \in Shells : Between(t) => shells'[t] = shells[t]
  BY <1>1 DEF Between
<1>5. OneBuild'
  BY <1>3, <1>4 DEF BuildInv, OneBuild
<1> QED BY <1>2, <1>5 DEF BuildInv

LEMMA SaysBuild ==
  ASSUME EngineInv, BuildInv, NEW s \in Shells, NEW word, Says(s, word),
         shells[s].at # "second", UNCHANGED <<torn, templates>>
  PROVE  BuildInv'
<1> DEFINE c == Ended(s, word)
<1>1. shells' = [shells EXCEPT ![s] = c]
  BY DEF Says, Ended
<1>2. c.at = "prompt"
  BY DEF Ended, Quiet
<1> HIDE DEF c
<1> QED BY <1>1, <1>2, OtherSteps DEF Building

LEMMA GoesBuild ==
  ASSUME EngineInv, BuildInv, NEW s \in Shells, NEW there, GoesTo(s, there), there # "second",
           shells[s].at # "second",
         there \in Building => shells[s].at \in Building, UNCHANGED <<torn, templates>>
  PROVE  BuildInv'
<1> DEFINE c == [shells[s] EXCEPT !.at = there]
<1>1. shells' = [shells EXCEPT ![s] = c]
  BY DEF GoesTo
<1>2. c.at = there
  BY AtOnce DEF ShellSet
<1> HIDE DEF c
<1> QED BY <1>1, <1>2, OtherSteps

LEMMA BeginBuild == ASSUME EngineInv, BuildInv, NEW s \in Shells, Begin(s) PROVE BuildInv'
<1>1. PICK verb \in CommandsOf[s], place \in {"locked", "candidate"} :
        shells' = [shells EXCEPT ![s] =
                     [Quiet EXCEPT !.at = verb, !.mine = lock, !.place = place, !.build = runs + 1]]
  BY DEF Begin
<1>2. verb \in Commands
  BY LocksAreWhole
<1> DEFINE c == [Quiet EXCEPT !.at = verb, !.mine = lock, !.place = place, !.build = runs + 1]
<1>3. c.at = verb /\ shells' = [shells EXCEPT ![s] = c]
  BY <1>1 DEF Quiet
<1> HIDE DEF c
<1>4. c.at # "second" /\ (c.at \in Building => "build" \in CommandsOf[s])
  BY <1>2, <1>3 DEF Commands, Building
<1>5. shells[s].at # "second" /\ UNCHANGED <<torn, templates>>
  BY DEF Begin, At
<1> QED BY <1>3, <1>4, <1>5, OtherSteps

\* A build that ends between its two renames is one of those that did.
LEMMA TearsBuild ==
  ASSUME OneBuilder, EngineInv, BuildInv, NEW s \in Shells, NEW word, Says(s, word), Tears(s),
         UNCHANGED templates
  PROVE  BuildInv'
<1> DEFINE c == Ended(s, word)
           there == templates["locked"]
<1>1. shells' = [shells EXCEPT ![s] = c]
  BY DEF Says, Ended
<1>2. c.at = "prompt"
  BY DEF Ended, Quiet
<1> HIDE DEF c
<1>3. CASE shells[s].at # "second"
  <2>1. UNCHANGED torn
    BY <1>3 DEF Tears, At
  <2> QED BY <1>1, <1>2, <1>3, <2>1, OtherSteps DEF Building
<1>4. CASE shells[s].at = "second"
  <2>1. shells'[s] = c /\ \A t \in Shells : t # s => shells'[t] = shells[t]
    BY <1>1 DEF EngineInv, EngineTypeOK
  <2>2. torn' = torn \cup {shells[s].build}
    BY <1>4 DEF Tears, At
  <2>3. \A t \in Shells : t # s => shells[t].at \notin Building
    BY <1>4 DEF OneBuilder, BuildInv, Builders, Building
  <2>4. \A t \in Shells : ~(Between(t))' /\ (t # s => ~Between(t))
    BY <1>2, <2>1, <2>3 DEF Between, Building
  <2>5. Builders'
    BY <1>2, <2>1 DEF BuildInv, Builders, Building
  <2>6. Between(s) => there.release.by = shells[s].build
    BY DEF BuildInv, OneBuild
  <2>7. ~Between(s) /\ Nothing \notin {there.release, there.debug}
          => there.release.by = there.debug.by \/ there.release.by \in torn
    BY <2>4 DEF BuildInv, OneBuild
  <2>8. OneBuild'
    BY <2>2, <2>4, <2>6, <2>7 DEF OneBuild
  <2> QED BY <2>5, <2>8 DEF BuildInv
<1> QED BY <1>3, <1>4

LEMMA KillBuild == ASSUME OneBuilder, EngineInv, BuildInv, NEW s \in Shells, KillCommand(s) PROVE BuildInv'
<1>1. Says(s, "killed") /\ Tears(s) /\ UNCHANGED templates
  BY DEF KillCommand
<1> QED BY <1>1, TearsBuild

LEMMA FetchBuild ==
  ASSUME EngineInv, BuildInv, NEW s \in Shells,
         FetchRepo(s) \/ PrepareExisting(s) \/ AddWorktree(s) \/ ApplyPatch(s) \/ WriteState(s)
  PROVE  BuildInv'
<1>1. shells[s].at \in {"fetch", "prepare", "patch"} /\ UNCHANGED <<torn, templates>>
  BY DEF FetchRepo, PrepareExisting, AddWorktree, ApplyPatch, WriteState, At, OnlyShells
<1>2. CASE \E word : Says(s, word)
  BY <1>1, <1>2, SaysBuild
<1>3. CASE GoesTo(s, "prepare")
  BY <1>1, <1>3, GoesBuild DEF Building
<1>4. CASE shells' = [shells EXCEPT ![s].at = "patch", ![s].k = 1]
  <2> DEFINE c == [shells[s] EXCEPT !.at = "patch", !.k = 1]
  <2>1. shells' = [shells EXCEPT ![s] = c] /\ c.at = "patch"
    BY <1>4, AtOnce DEF ShellSet
  <2> HIDE DEF c
  <2> QED BY <1>1, <2>1, OtherSteps DEF Building
<1>5. CASE shells' = [shells EXCEPT ![s].k = @ + 1]
  <2> DEFINE c == [shells[s] EXCEPT !.k = @ + 1]
  <2>1. shells' = [shells EXCEPT ![s] = c] /\ c.at = shells[s].at
    BY <1>5, AtOnce DEF ShellSet
  <2> HIDE DEF c
  <2> QED BY <1>1, <2>1, OtherSteps DEF Building
<1> QED BY <1>2, <1>3, <1>4, <1>5 DEF FetchRepo, PrepareExisting, AddWorktree, ApplyPatch, WriteState

LEMMA RebaseBuild ==
  ASSUME EngineInv, BuildInv, NEW s \in Shells, LookAtWorkspace(s) \/ ThreeWay(s) \/ SeriesApplied(s)
  PROVE  BuildInv'
<1>1. shells[s].at \in {"rebase", "threeway"} /\ UNCHANGED <<torn, templates>>
  BY DEF LookAtWorkspace, ThreeWay, SeriesApplied, At, OnlyShells
<1>2. CASE \E word : Says(s, word)
  BY <1>1, <1>2, SaysBuild
<1>3. CASE shells' = [shells EXCEPT ![s].at = "threeway", ![s].k = 1]
  <2> DEFINE c == [shells[s] EXCEPT !.at = "threeway", !.k = 1]
  <2>1. shells' = [shells EXCEPT ![s] = c] /\ c.at = "threeway"
    BY <1>3, AtOnce DEF ShellSet
  <2> HIDE DEF c
  <2> QED BY <1>1, <2>1, OtherSteps DEF Building
<1>4. CASE shells' = [shells EXCEPT ![s].k = @ + 1]
  <2> DEFINE c == [shells[s] EXCEPT !.k = @ + 1]
  <2>1. shells' = [shells EXCEPT ![s] = c] /\ c.at = shells[s].at
    BY <1>4, AtOnce DEF ShellSet
  <2> HIDE DEF c
  <2> QED BY <1>1, <2>1, OtherSteps DEF Building
<1> QED BY <1>2, <1>3, <1>4 DEF LookAtWorkspace, ThreeWay, SeriesApplied

LEMMA MakeBuild ==
  ASSUME EngineInv, BuildInv, NEW s \in Shells,
         LookAtSource(s) \/ PreparePort(s) \/ PatchPort(s) \/ WritePortState(s) \/ Compile(s) \/ Stage(s)
  PROVE  BuildInv'
<1>1. /\ shells[s].at \in {"build", "port", "patchport", "stateport", "release", "debug", "stage"}
      /\ UNCHANGED <<torn, templates>>
  BY DEF LookAtSource, PreparePort, PatchPort, WritePortState, Compile, Stage, At, OnlyShells
<1>2. CASE \E word : Says(s, word)
  BY <1>1, <1>2, SaysBuild
<1>3. CASE \E there \in {"port", "release", "patchport", "stateport", "install"} : GoesTo(s, there)
  BY <1>1, <1>3, GoesBuild DEF Building
<1>4. CASE shells' = [shells EXCEPT ![s].at = "debug", ![s].read.release = Template(s)]
  <2> DEFINE c == [shells[s] EXCEPT !.at = "debug", !.read.release = Template(s)]
  <2>1. shells' = [shells EXCEPT ![s] = c] /\ c.at = "debug"
    BY <1>4, AtOnce DEF ShellSet
  <2> HIDE DEF c
  <2> QED BY <1>1, <2>1, OtherSteps DEF Building
<1>5. CASE shells' = [shells EXCEPT ![s].at = "stage", ![s].read.debug = Template(s)]
  <2> DEFINE c == [shells[s] EXCEPT !.at = "stage", !.read.debug = Template(s)]
  <2>1. shells' = [shells EXCEPT ![s] = c] /\ c.at = "stage"
    BY <1>5, AtOnce DEF ShellSet
  <2> HIDE DEF c
  <2> QED BY <1>1, <2>1, OtherSteps DEF Building
<1> QED BY <1>2, <1>3, <1>4, <1>5 DEF LookAtSource, PreparePort, PatchPort, WritePortState, Compile, Stage

LEMMA UseBuild ==
  ASSUME EngineInv, BuildInv, NEW s \in Shells, RecordArtifacts(s) \/ CheckIdentity(s) \/ UseTemplate(s)
  PROVE  BuildInv'
<1>1. /\ shells[s].at \in {"record", "record debug", "export", "use"}
      /\ UNCHANGED <<torn, templates>>
  BY DEF RecordArtifacts, CheckIdentity, UseTemplate, At, OnlyShells
<1>2. CASE \E word : Says(s, word)
  BY <1>1, <1>2, SaysBuild
<1>3. CASE shells' = [shells EXCEPT ![s].at = "record debug",
             ![s].read.release = templates["locked"].release]
  <2> DEFINE c == [shells[s] EXCEPT !.at = "record debug", !.read.release = templates["locked"].release]
  <2>1. shells' = [shells EXCEPT ![s] = c] /\ c.at = "record debug"
    BY <1>3, AtOnce DEF ShellSet
  <2> HIDE DEF c
  <2> QED BY <1>1, <2>1, OtherSteps DEF Building
<1>4. CASE shells' = [shells EXCEPT ![s].at = "use", ![s].read.stamp = templates["locked"].stamp]
  <2> DEFINE c == [shells[s] EXCEPT !.at = "use", !.read.stamp = templates["locked"].stamp]
  <2>1. shells' = [shells EXCEPT ![s] = c] /\ c.at = "use"
    BY <1>4, AtOnce DEF ShellSet
  <2> HIDE DEF c
  <2> QED BY <1>1, <2>1, OtherSteps DEF Building
<1>5. ASSUME NEW read,
             shells' = [shells EXCEPT ![s] = [Quiet EXCEPT !.said = "exported", !.mine = LockRead(s),
               !.read = read]]
      PROVE  BuildInv'
  <2> DEFINE c == [Quiet EXCEPT !.said = "exported", !.mine = LockRead(s), !.read = read]
  <2>1. shells' = [shells EXCEPT ![s] = c] /\ c.at = "prompt"
    BY <1>5 DEF Quiet
  <2> HIDE DEF c
  <2> QED BY <1>1, <2>1, OtherSteps DEF Building
<1>6. CASE RecordArtifacts(s)
  BY <1>2, <1>3, <1>6 DEF RecordArtifacts
<1>7. CASE CheckIdentity(s)
  BY <1>2, <1>4, <1>7 DEF CheckIdentity
<1>8. CASE UseTemplate(s)
  <2>1. PICK profile \in {"release", "debug"} :
          IF templates["locked"][profile] = Nothing THEN Says(s, "error")
          ELSE shells' = [shells EXCEPT ![s] =
                 [Quiet EXCEPT !.said = "exported", !.mine = LockRead(s),
                               !.read = [shells[s].read EXCEPT ![profile] = templates["locked"][profile]]]]
    BY <1>8 DEF UseTemplate
  <2> QED BY <1>2, <1>5, <2>1
<1> QED BY <1>6, <1>7, <1>8

\* The first rename puts a build's release template there; the second makes the pair.
LEMMA InstallBuild == ASSUME OneBuilder, EngineInv, BuildInv, NEW s \in Shells, Install(s) PROVE BuildInv'
<1> DEFINE there == templates["locked"]
           read == shells[s].read
<1>1. /\ Place(s) \in {"locked", "candidate"} /\ templates \in [{"locked", "candidate"} -> PairSet]
      /\ Place(s) = shells[s].place /\ there \in PairSet
  BY AtOnce DEF Place, EngineInv, EngineTypeOK
<1>2. Compiled(shells[s])
  BY AtOnce DEF AtWork
<1>3. shells[s].at \in Building
  BY DEF Install, At, Building
<1>4. \A t \in Shells : t # s => shells[t].at \notin Building
  BY <1>3 DEF OneBuilder, BuildInv, Builders
<1>5. \A t \in Shells : t # s => ~Between(t)
  BY <1>4 DEF Between, Building
<1>6. ASSUME NEW c, shells' = [shells EXCEPT ![s] = c]
      PROVE  /\ shells'[s] = c /\ \A t \in Shells : t # s => shells'[t] = shells[t]
             /\ Builders' /\ \A t \in Shells : t # s => ~(Between(t))'
  <2>1. shells'[s] = c /\ \A t \in Shells : t # s => shells'[t] = shells[t]
    BY <1>6 DEF EngineInv, EngineTypeOK
  <2>2. Builders'
    BY <1>3, <2>1 DEF BuildInv, Builders
  <2>3. \A t \in Shells : t # s => ~(Between(t))'
    BY <1>5, <2>1 DEF Between
  <2> QED BY <2>1, <2>2, <2>3
<1>7. CASE /\ At(s, "install") /\ GoesTo(s, "second") /\ UNCHANGED torn
           /\ templates' = [templates EXCEPT ![Place(s)].release = shells[s].read.release]
  <2> DEFINE c == Onward(s, "second")
  <2>1. shells' = [shells EXCEPT ![s] = c]
    BY <1>7 DEF GoesTo, Onward
  <2>2. c.at = "second" /\ c.place = shells[s].place /\ c.build = shells[s].build
    BY AtOnce DEF Onward, ShellSet
  <2> HIDE DEF c
  <2>3. /\ shells'[s] = c /\ Builders' /\ \A t \in Shells : t # s => ~(Between(t))'
    BY <1>6, <2>1
  <2>4. CASE shells[s].place = "locked"
    <3>1. templates'["locked"].release = read.release
      BY <1>1, <1>7, <2>4 DEF PairSet
    <3>2. read.release # Nothing /\ read.release.by = shells[s].build
      BY <1>2, <1>7 DEF Compiled, At
    <3>3. (Between(s))'
      BY <2>2, <2>3, <2>4 DEF Between
    <3>4. OneBuild'
      BY <2>2, <2>3, <3>1, <3>2, <3>3 DEF OneBuild
    <3> QED BY <2>3, <3>4 DEF BuildInv
  <2>5. CASE shells[s].place # "locked"
    <3>1. templates'["locked"] = there
      BY <1>1, <1>7, <2>5
    <3>2. ~Between(s) /\ ~(Between(s))'
      BY <2>2, <2>3, <2>5 DEF Between
    <3>3. \A t \in Shells : ~Between(t) /\ ~(Between(t))'
      BY <1>5, <2>3, <3>2
    <3>4. Nothing \notin {there.release, there.debug}
            => there.release.by = there.debug.by \/ there.release.by \in torn
      BY <3>3 DEF OneBuild, BuildInv
    <3>5. UNCHANGED torn
      BY <1>7
    <3>6. LET now == templates'["locked"] IN
            Nothing \notin {now.release, now.debug}
              => now.release.by = now.debug.by \/ now.release.by \in torn'
      BY <3>1, <3>4, <3>5
    <3>7. OneBuild'
      BY <3>3, <3>6 DEF OneBuild
    <3> QED BY <2>3, <3>7 DEF BuildInv
  <2> QED BY <2>4, <2>5
<1>8. CASE /\ At(s, "second") /\ GoesTo(s, "stamp") /\ UNCHANGED torn
           /\ templates' = [templates EXCEPT ![Place(s)].debug = shells[s].read.debug]
  <2> DEFINE c == Onward(s, "stamp")
  <2>1. shells' = [shells EXCEPT ![s] = c]
    BY <1>8 DEF GoesTo, Onward
  <2>2. c.at = "stamp"
    BY AtOnce DEF Onward, ShellSet
  <2> HIDE DEF c
  <2>3. /\ shells'[s] = c /\ Builders' /\ \A t \in Shells : t # s => ~(Between(t))'
    BY <1>6, <2>1
  <2>4. ~(Between(s))'
    BY <2>2, <2>3 DEF Between
  <2>5. CASE shells[s].place = "locked"
    <3>1. templates'["locked"].release = there.release /\ templates'["locked"].debug = read.debug
      BY <1>1, <1>8, <2>5 DEF PairSet
    <3>2. read.debug # Nothing /\ read.debug.by = shells[s].build
      BY <1>2, <1>8 DEF Compiled, At
    <3>3. there.release.by = shells[s].build
      BY <1>8, <2>5 DEF Between, OneBuild, BuildInv, At
    <3>4. OneBuild'
      BY <2>3, <2>4, <3>1, <3>2, <3>3 DEF OneBuild
    <3> QED BY <2>3, <3>4 DEF BuildInv
  <2>6. CASE shells[s].place # "locked"
    <3>1. templates'["locked"] = there
      BY <1>1, <1>8, <2>6
    <3>2. ~Between(s)
      BY <2>6 DEF Between
    <3>3. \A t \in Shells : ~Between(t) /\ ~(Between(t))'
      BY <1>5, <2>3, <2>4, <3>2
    <3>4. Nothing \notin {there.release, there.debug}
            => there.release.by = there.debug.by \/ there.release.by \in torn
      BY <3>3 DEF OneBuild, BuildInv
    <3>5. UNCHANGED torn
      BY <1>8
    <3>6. LET now == templates'["locked"] IN
            Nothing \notin {now.release, now.debug}
              => now.release.by = now.debug.by \/ now.release.by \in torn'
      BY <3>1, <3>4, <3>5
    <3>7. OneBuild'
      BY <3>3, <3>6 DEF OneBuild
    <3> QED BY <2>3, <3>7 DEF BuildInv
  <2> QED BY <2>5, <2>6
<1>9. CASE /\ At(s, "stamp") /\ Says(s, "built") /\ UNCHANGED torn
            /\ templates' \in {templates, [templates EXCEPT ![Place(s)].stamp = SeriesId(LockRead(s))]}
  <2> DEFINE c == Ended(s, "built")
  <2>1. shells' = [shells EXCEPT ![s] = c]
    BY <1>9 DEF Says, Ended
  <2>2. c.at = "prompt"
    BY DEF Ended, Quiet
  <2> HIDE DEF c
  <2>3. /\ shells'[s] = c /\ Builders' /\ \A t \in Shells : t # s => ~(Between(t))'
    BY <1>6, <2>1
  <2>4. ~Between(s) /\ ~(Between(s))'
    BY <1>9, <2>2, <2>3 DEF Between, At
  <2>5. templates'["locked"].release = there.release /\ templates'["locked"].debug = there.debug
    BY <1>1, <1>9 DEF PairSet
  <2>6. OneBuild'
    BY <1>5, <1>9, <2>3, <2>4, <2>5 DEF OneBuild, BuildInv
  <2> QED BY <2>3, <2>6 DEF BuildInv
<1>10. CASE Says(s, "error") /\ Tears(s) /\ UNCHANGED templates
  BY <1>10, TearsBuild
<1> QED BY <1>7, <1>8, <1>9, <1>10 DEF Install

LEMMA BuildStep == ASSUME OneBuilder, EngineInv, BuildInv, [EngineNext]_engineVars PROVE BuildInv'
<1>1. CASE Pull \/ Hand \/ Prune \/ UNCHANGED engineVars
  <2>1. UNCHANGED <<shells, templates, torn>>
    BY <1>1 DEF Pull, Hand, Prune, engineVars
  <2> QED BY <2>1 DEF BuildInv, Builders, OneBuild, Between
<1>2. ASSUME NEW s \in Shells, CommandStep(s) PROVE BuildInv'
  BY <1>2, FetchBuild, RebaseBuild, MakeBuild, InstallBuild, UseBuild DEF CommandStep
<1> QED BY <1>1, <1>2, BeginBuild, KillBuild DEF EngineNext

LEMMA EngineBegins == EngineInit => EngineInv /\ BuildInv
<1>1. EngineInit => BuildInv
  <2>1. EngineInit => \A s \in Shells : shells[s].at = "prompt"
    <3>1. Quiet.at = "prompt"
      BY DEF Quiet
    <3> QED BY <3>1 DEF EngineInit
  <2>2. EngineInit => templates["locked"].release = Nothing
    BY DEF EngineInit, Empty
  <2> QED BY <2>1, <2>2 DEF BuildInv, Builders, OneBuild, Between, Building
<1> QED BY <1>1, EngineStarts

\* EngineKeeps for every number of shells, locks and patches, with one builder: trees that
\* are ready are whole in every file the patches name, ports are the locked ones, templates
\* belong together unless a build ended between their two renames.
THEOREM EngineIsKept == ASSUME OneBuilder PROVE EngineSpec => EngineKeeps
<1>1. EngineInit => EngineInv /\ BuildInv
  BY EngineBegins
<1>2. EngineInv /\ BuildInv /\ [EngineNext]_engineVars => EngineInv' /\ BuildInv'
  BY EngineStep, BuildStep DEF EngineGoesOn
<1>3. EngineInv /\ [EngineNext]_engineVars => [ReadyIsWhole /\ AppliedIsWhole]_engineVars
  BY EngineStep DEF EngineGoesOn
<1>4. EngineInv => PortIsLocked
  BY DEF EngineInv, Working, AtWork, Ported, PortIsLocked, At, LockRead
<1>5. EngineInv /\ BuildInv => TemplatesBelong
  <2> DEFINE there == templates["locked"]
  <2>1. (\A s \in Shells : ~At(s, "second")) => \A s \in Shells : ~Between(s)
    BY DEF At, Between
  <2>2. EngineInv => \A template \in {there.release, there.debug} \ {Nothing} : template.of.base # Newer
    BY DEF EngineInv, Belong, FromLock
  <2>3. BuildInv /\ (\A s \in Shells : ~At(s, "second")) /\ Nothing \notin {there.release, there.debug}
          => there.release.by = there.debug.by \/ there.release.by \in torn
    BY <2>1 DEF BuildInv, OneBuild
  <2> QED BY <2>2, <2>3 DEF TemplatesBelong
<1>6. EngineInv => EngineTypeOK
  BY DEF EngineInv
<1> QED BY <1>1, <1>2, <1>3, <1>4, <1>5, <1>6, PTL DEF EngineSpec, EngineKeeps

-----------------------------------------------------------------------------
(* Godot's host of the kernel. *)

HostStates   == {"none", "idle", "loading", "ready", "error"}
ObjectStates == {"idle", "loading", "ready", "error"}
HostSet   == [status : HostStates, wasm : Urls \cup {NoUrl}]
ObjectSet == [status : ObjectStates, waits : BOOLEAN, answer : {"nothing", "not ready", "result"}]

\* An object that believes the host to be loading had it load, and one that is ready saw
\* it ready; what the host holds is never taken away.
HostInv ==
  /\ host \in HostSet /\ fetching \in Urls \cup {NoUrl} /\ kernel \in [Kernels -> ObjectSet]
  /\ (host.status = "loading") <=> (fetching # NoUrl)
  /\ (host.status = "ready") <=> (host.wasm # NoUrl)
  /\ \A k \in Kernels : kernel[k].status = "loading" => host.status \in {"loading", "ready", "error"}
  /\ \A k \in Kernels : kernel[k].status = "ready" => host.status = "ready"

LEMMA RegisteredFacts ==
  ASSUME HostInv
  PROVE  /\ Registered \in HostSet /\ Registered.status # "none" /\ Registered.wasm = host.wasm
         /\ host.status # "none" => Registered = host
         /\ host.status = "none" => Registered.status = "idle"
<1>1. NoHost \in HostSet /\ NoHost.status = "none" /\ NoHost.wasm = NoUrl
  BY DEF NoHost, HostSet, HostStates
<1>2. host.status = "none" => host = NoHost
  <2>1. ASSUME host.status = "none" PROVE host = [status |-> host.status, wasm |-> host.wasm]
                 /\ host.wasm = NoUrl
    BY <2>1 DEF HostInv, HostSet
  <2> QED BY <2>1 DEF NoHost
<1>3. host \in HostSet
  BY DEF HostInv
<1>4. host = NoHost => Registered = [NoHost EXCEPT !.status = "idle"]
  BY DEF Registered
<1>5. host # NoHost => Registered = host
  BY DEF Registered
<1> HIDE DEF NoHost
<1> QED BY <1>1, <1>2, <1>3, <1>4, <1>5 DEF HostSet, HostStates

\* An object's step, the host's, or both.
LEMMA HostMoves ==
  ASSUME HostInv, NEW k \in Kernels, NEW o \in ObjectSet, kernel' = [kernel EXCEPT ![k] = o],
         host' \in HostSet, fetching' \in Urls \cup {NoUrl},
         (host'.status = "loading") <=> (fetching' # NoUrl), (host'.status = "ready") <=> (host'.wasm # NoUrl),
         host.status \in {"loading", "ready", "error"} => host'.status \in {"loading", "ready", "error"},
         host.status = "ready" => host'.status = "ready",
         o.status = "loading" => host'.status \in {"loading", "ready", "error"},
         o.status = "ready" => host'.status = "ready"
  PROVE  HostInv'
<1>1. kernel' \in [Kernels -> ObjectSet] /\ kernel'[k] = o /\ \A j \in Kernels : j # k => kernel'[j] = kernel[j]
  BY DEF HostInv
<1> QED BY <1>1 DEF HostInv

LEMMA FetchEndsKeeps == ASSUME HostInv, FetchEnds PROVE HostInv'
<1>1. /\ host \in HostSet /\ fetching \in Urls /\ host.status = "loading" /\ host.wasm = NoUrl
      /\ fetching' = NoUrl /\ kernel' = kernel
  BY DEF FetchEnds, HostInv
<1>2. host' = [host EXCEPT !.status = "error"] \/ host' = [host EXCEPT !.status = "ready",
        !.wasm = fetching]
  BY DEF FetchEnds
<1>3. /\ host' \in HostSet /\ host'.status \in {"error", "ready"}
      /\ (host'.status = "ready") <=> (host'.wasm # NoUrl)
  BY <1>1, <1>2, LoadsAreCounted DEF HostSet, HostStates
<1> QED BY <1>1, <1>3 DEF HostInv

LEMMA LoadKeeps == ASSUME HostInv, NEW k \in Kernels, NEW url \in Urls, LoadKernel(k, url) PROVE HostInv'
<1>1. kernel[k] \in ObjectSet /\ host \in HostSet /\ fetching \in Urls \cup {NoUrl}
  BY DEF HostInv
<1>2. /\ Registered \in HostSet /\ Registered.status # "none" /\ Registered.wasm = host.wasm
      /\ host.status # "none" => Registered = host
      /\ host.status = "none" => Registered.status = "idle"
  BY RegisteredFacts
<1>3. CASE /\ kernel' = [kernel EXCEPT ![k].status = "error"]
           /\ host' \in {host, Registered} /\ UNCHANGED fetching
  <2> DEFINE o == [kernel[k] EXCEPT !.status = "error"]
  <2>1. o \in ObjectSet /\ o.status = "error" /\ kernel' = [kernel EXCEPT ![k] = o]
    BY <1>1, <1>3 DEF ObjectSet, ObjectStates
  <2> HIDE DEF o
  <2>2. /\ host' \in HostSet
        /\ (host'.status = "loading") <=> (fetching' # NoUrl)
        /\ (host'.status = "ready") <=> (host'.wasm # NoUrl)
        /\ host.status # "none" => host' = host
    BY <1>1, <1>2, <1>3 DEF HostInv
  <2> QED BY <1>1, <1>3, <2>1, <2>2, HostMoves
<1>4. CASE kernel' = [kernel EXCEPT ![k].status = "loading"] /\ HostLoads(url)
  <2> DEFINE o == [kernel[k] EXCEPT !.status = "loading"]
  <2>1. o \in ObjectSet /\ o.status = "loading" /\ kernel' = [kernel EXCEPT ![k] = o]
    BY <1>1, <1>4 DEF ObjectSet, ObjectStates
  <2> HIDE DEF o
  <2>2. CASE Registered.status \in {"loading", "ready"}
    <3>1. host' = host /\ fetching' = fetching
      BY <1>2, <1>4, <2>2 DEF HostLoads
    <3> QED BY <1>1, <1>2, <2>1, <2>2, <3>1, HostMoves DEF HostInv
  <2>3. CASE Registered.status \notin {"loading", "ready"}
    <3>1. host' = [Registered EXCEPT !.status = "loading"] /\ fetching' = url
      BY <1>4, <2>3 DEF HostLoads
    <3>2. host.status \notin {"loading", "ready"} /\ host.wasm = NoUrl
      BY <1>2, <2>3 DEF HostInv
    <3>3. host' \in HostSet /\ host'.status = "loading" /\ host'.wasm = NoUrl /\ fetching' \in Urls
            /\ fetching' # NoUrl
      BY <1>2, <3>1, <3>2, LoadsAreCounted DEF HostSet, HostStates
    <3> QED BY <2>1, <3>2, <3>3, HostMoves
  <2> QED BY <2>2, <2>3
<1> QED BY <1>3, <1>4 DEF LoadKernel

LEMMA ObjectKeeps == ASSUME HostInv, NEW k \in Kernels, Awaits(k) \/ Frame(k) \/ Run(k) PROVE HostInv'
<1>1. kernel[k] \in ObjectSet /\ host \in HostSet /\ UNCHANGED <<host, fetching>>
  BY DEF HostInv, Awaits, Frame, Run
<1>2. /\ StatusOf(k) \in ObjectStates
      /\ StatusOf(k) = "loading" => host.status = "loading"
      /\ StatusOf(k) = "ready" => host.status = "ready"
  BY <1>1 DEF StatusOf, HostInv, ObjectSet, ObjectStates
<1>3. ASSUME NEW o \in ObjectSet, kernel' = [kernel EXCEPT ![k] = o],
             o.status = "loading" => host.status \in {"loading", "ready", "error"},
               o.status = "ready" => host.status = "ready"
      PROVE  HostInv'
  BY <1>1, <1>3, HostMoves DEF HostInv
<1>4. CASE Awaits(k)
  <2> DEFINE o == [kernel[k] EXCEPT !.waits = TRUE]
  <2>1. o \in ObjectSet /\ o.status = kernel[k].status /\ kernel' = [kernel EXCEPT ![k] = o]
    BY <1>1, <1>4 DEF ObjectSet, Awaits
  <2> HIDE DEF o
  <2> QED BY <1>3, <2>1 DEF HostInv
<1>5. CASE StatusOf(k) # "loading" /\ kernel' = [kernel EXCEPT ![k].status = StatusOf(k),
             ![k].waits = FALSE]
  <2> DEFINE o == [kernel[k] EXCEPT !.status = StatusOf(k), !.waits = FALSE]
  <2>1. o \in ObjectSet /\ o.status = StatusOf(k) /\ kernel' = [kernel EXCEPT ![k] = o]
    BY <1>1, <1>2, <1>5 DEF ObjectSet
  <2> HIDE DEF o
  <2> QED BY <1>2, <1>3, <1>5, <2>1
<1>6. CASE kernel' = [kernel EXCEPT ![k].status = "error", ![k].waits = FALSE]
  <2> DEFINE o == [kernel[k] EXCEPT !.status = "error", !.waits = FALSE]
  <2>1. o \in ObjectSet /\ o.status = "error" /\ kernel' = [kernel EXCEPT ![k] = o]
    BY <1>1, <1>6 DEF ObjectSet, ObjectStates
  <2> HIDE DEF o
  <2> QED BY <1>3, <2>1
<1>7. CASE Run(k)
  <2> DEFINE a == IF StatusOf(k) # "ready" THEN "not ready" ELSE IF host.status # "ready" THEN "host not ready" ELSE "result"
             o == [kernel[k] EXCEPT !.status = StatusOf(k), !.answer = a]
  <2>1. a \in {"not ready", "result"}
    BY <1>2
  <2>2. kernel' = [kernel EXCEPT ![k] = o]
    BY <1>1, <1>7 DEF Run, ObjectSet
  <2> HIDE DEF a
  <2>3. o \in ObjectSet /\ o.status = StatusOf(k)
    BY <1>1, <1>2, <2>1 DEF ObjectSet
  <2> HIDE DEF o
  <2> QED BY <1>2, <1>3, <2>2, <2>3
<1> QED BY <1>4, <1>5, <1>6, <1>7 DEF Frame

LEMMA HostBegins == HostInit => HostInv
<1>1. HostInit => host \in HostSet /\ host.status = "none" /\ host.wasm = NoUrl
  BY DEF HostInit, NoHost, HostSet, HostStates
<1>2. Unused \in ObjectSet /\ Unused.status = "idle"
  BY DEF Unused, ObjectSet, ObjectStates
<1>3. HostInit => kernel \in [Kernels -> ObjectSet] /\ \A k \in Kernels : kernel[k].status = "idle"
  BY <1>2 DEF HostInit
<1>4. HostInit => fetching = NoUrl
  BY DEF HostInit
<1> QED BY <1>1, <1>3, <1>4 DEF HostInv

LEMMA HostGoesOn == HostInv /\ [HostNext]_hostVars => HostInv'
<1> SUFFICES ASSUME HostInv, [HostNext]_hostVars PROVE HostInv'
  OBVIOUS
<1>1. CASE UNCHANGED hostVars
  BY <1>1 DEF HostInv, hostVars
<1> QED BY <1>1, FetchEndsKeeps, LoadKeeps, ObjectKeeps DEF HostNext

LEMMA HostInvIsSafe == HostInv => HostSafe
<1> SUFFICES ASSUME HostInv PROVE HostSafe
  OBVIOUS
<1>1. HostTypeOK
  BY DEF HostInv, HostTypeOK, HostSet, HostStates, ObjectSet, ObjectStates
<1>2. \A k \in Kernels : kernel[k].answer # "host not ready"
        /\ (kernel[k].status = "ready" => host.status = "ready")
  BY DEF HostInv, ObjectSet
<1>3. ReadyStays /\ OneFetch
  BY <1>2 DEF HostInv, ReadyStays, OneFetch
<1> QED BY <1>1, <1>3 DEF HostSafe

\* HostSafe for any number of objects: one fetch at a time, and a run of an object that is
\* ready is never refused by the host.
THEOREM HostIsSafe == HostSpec => []HostSafe
BY HostBegins, HostGoesOn, HostInvIsSafe, PTL DEF HostSpec

-----------------------------------------------------------------------------
(* The pictures: what a render puts back.                                  *)

\* What a mesh of its own gets back after the materials of a panel is what it had.
LEMMA SwappedBackIsSame ==
  ASSUME NEW objs, objs \in Seq(Among(objs)), NEW review, NEW before
  PROVE  /\ DOMAIN SwappedBack(objs, review, before) = DOMAIN before
         /\ \A d \in DOMAIN before : Apart(objs, d) => SwappedBack(objs, review, before)[d] = before[d]
<1>1. DOMAIN SwappedBack(objs, review, before) = DOMAIN before
  BY DEF SwappedBack
<1>2. ASSUME NEW d \in DOMAIN before, Apart(objs, d), OfData(objs, d) # {}
      PROVE  SwappedBack(objs, review, before)[d] = before[d]
  <2>1. DOMAIN objs \subseteq Nat
    OBVIOUS
  <2>2. PICK i \in OfData(objs, d) : TRUE
    BY <1>2
  <2>3. \A j \in OfData(objs, d) : j = i
    BY <1>2, <2>2 DEF Apart
  <2>4. i \in DOMAIN objs /\ i \in Nat /\ DataOf[objs[i]] = d
    BY <2>1, <2>2 DEF OfData
  <2> DEFINE last == CHOOSE k \in OfData(objs, d) : \A j \in OfData(objs, d) : j <= k
  <2>5. last = i
    <3>1. \A j \in OfData(objs, d) : j <= i
      BY <2>3, <2>4
    <3>2. last \in OfData(objs, d)
      BY <2>2, <3>1
    <3> HIDE DEF last
    <3> QED BY <2>3, <3>2
  <2>6. SwappedBack(objs, review, before)[d] = Backup(objs, review, before)[last]
    BY <1>2 DEF SwappedBack
  <2> HIDE DEF last
  <2>7. ~ \E j \in 1 .. i - 1 : DataOf[objs[j]] = DataOf[objs[i]]
    <3>1. ASSUME NEW j \in 1 .. i - 1, DataOf[objs[j]] = DataOf[objs[i]] PROVE FALSE
      <4>1. j \in DOMAIN objs /\ j # i
        BY <2>4
      <4>2. j \in OfData(objs, d)
        BY <2>4, <3>1, <4>1 DEF OfData
      <4> QED BY <2>3, <4>1, <4>2
    <3> QED BY <3>1
  <2>8. Backup(objs, review, before)[i] = before[DataOf[objs[i]]]
    BY <2>4, <2>7 DEF Backup
  <2> QED BY <2>4, <2>5, <2>6, <2>8
<1>3. ASSUME NEW d \in DOMAIN before, OfData(objs, d) = {}
      PROVE  SwappedBack(objs, review, before)[d] = before[d]
  BY <1>3 DEF SwappedBack
<1> QED BY <1>1, <1>2, <1>3

\* So it is panel by panel.
LEMMA SlotsAfterIsSame ==
  ASSUME NEW objs, objs \in Seq(Among(objs)), NEW n \in Nat
  PROVE  \A d \in DOMAIN slots : Apart(objs, d) => SlotsAfter(objs, n)[d] = slots[d]
<1> DEFINE Pass(x, i) == IF Panels[i] \in DOMAIN ReviewOf THEN SwappedBack(objs, ReviewOf[Panels[i]], x) ELSE x
           Folds(f, m) == f = [i \in 0 .. m |-> IF i = 0 THEN slots ELSE Pass(f[i - 1], i)]
           E == {m \in Nat : \E f : Folds(f, m)}
           after == CHOOSE f : Folds(f, n)
<1>1. SlotsAfter(objs, n) = after[n]
  BY DEF SlotsAfter
<1>2. \A x, i : DOMAIN Pass(x, i) = DOMAIN x /\ \A d \in DOMAIN x : Apart(objs, d) => Pass(x, i)[d] = x[d]
  BY SwappedBackIsSame
<1> HIDE DEF Pass
<1>3. 0 \in E
  <2> DEFINE f == [i \in 0 .. 0 |-> slots]
  <2>1. Folds(f, 0)
    OBVIOUS
  <2> QED BY <2>1
<1>4. ASSUME NEW m \in Nat, m \in E PROVE m + 1 \in E
  <2>1. PICK f : Folds(f, m)
    BY <1>4
  <2> DEFINE h == [i \in 0 .. m + 1 |-> IF i = m + 1 THEN Pass(f[m], i) ELSE f[i]]
  <2>2. \A i \in 0 .. m + 1 : h[i] = IF i = 0 THEN slots ELSE Pass(h[i - 1], i)
    BY <2>1
  <2>3. Folds(h, m + 1)
    BY <2>2
  <2> HIDE DEF h
  <2> QED BY <2>3
<1>5. Folds(after, n)
  <2>1. n \in E
    <3> HIDE DEF E
    <3> QED BY <1>3, <1>4, SetInduction
  <2> QED BY <2>1
<1> HIDE DEF after
<1>6. after[0] = slots /\ \A i \in 1 .. n : after[i] = Pass(after[i - 1], i)
  BY <1>5
<1> HIDE DEF Folds
<1> DEFINE AsItWas(x) == DOMAIN x = DOMAIN slots /\ \A d \in DOMAIN slots : Apart(objs, d) => x[d] = slots[d]
           S == {i \in Nat : i <= n => AsItWas(after[i])}
<1>7. 0 \in S
  BY <1>6
<1>8. ASSUME NEW i \in Nat, i \in S PROVE i + 1 \in S
  <2> SUFFICES ASSUME i + 1 <= n PROVE AsItWas(after[i + 1])
    OBVIOUS
  <2>1. AsItWas(after[i]) /\ i + 1 \in 1 .. n /\ (i + 1) - 1 = i
    BY <1>8
  <2>2. after[i + 1] = Pass(after[i], i + 1)
    BY <1>6, <2>1
  <2> QED BY <1>2, <2>1, <2>2
<1>9. n \in S
  <2> HIDE DEF S
  <2> QED BY <1>7, <1>8, SetInduction
<1> QED BY <1>1, <1>9

\* What a step does to who is hidden, to rigs and to the answer.
RigInv == RigTypeOK /\ OnlyWhatIsAsked

LEMMA HidingFacts ==
  ASSUME RigTypeOK, NEW objs
  PROVE  /\ HideOthers(objs) \subseteq Meshes /\ HideOthers(objs) \cap hidden = {}
         /\ hidden \ HideOthers(objs) = hidden
         /\ objs # <<>> => (Meshes \ hidden) \ HideOthers(objs) \subseteq Among(objs)
BY DEF HideOthers, Targets

\* A picture is taken with a rig or not at all.
Pictured(op, how, objs, rig) ==
  /\ lamps' \in {lamps, {}} /\ camera' \in {camera, "rig", "none"}
  /\ left' \in {left, (left \ {"light"}) \cup (IF how = "path" THEN rig ELSE {})}
  /\ hidden' \in {hidden, hidden \cup HideOthers(objs)}
  /\ Answers(op, how, objs, IF op \in {"camera", "cinematic"} THEN {} ELSE HideOthers(objs))
  /\ op \in {"camera", "cinematic"} => objs = <<>>

LEMMA PicturedKeeps ==
  ASSUME RigInv, NEW op, NEW how, NEW objs, NEW rig, rig \subseteq LightAndCamera \cup {"haze"}, Pictured(op, how, objs, rig)
  PROVE  RigInv'
<1>1. /\ left \cap {"haze"} \subseteq left' \cap {"haze"} /\ left' \subseteq LightAndCamera \cup {"haze"}
  BY DEF RigInv, RigTypeOK, Pictured
<1>2. Meshes \subseteq Meshes'
  BY <1>1 DEF Meshes
<1>3. hidden' \subseteq Meshes'
  BY <1>2, HidingFacts DEF RigInv, RigTypeOK, Pictured
<1>4. RigTypeOK'
  BY <1>1, <1>3 DEF RigInv, RigTypeOK, Pictured
<1>5. heard'.of = objs /\ (objs # <<>> => heard'.seen = (Meshes \ hidden) \ HideOthers(objs))
  BY DEF Pictured, Answers
<1>6. OnlyWhatIsAsked'
  BY <1>5, HidingFacts DEF RigInv, OnlyWhatIsAsked
<1> QED BY <1>4, <1>6 DEF RigInv

LEMMA RigParts ==
  ASSUME RigInv, RigNext
  PROVE  \E op, how, objs, rig :
           /\ rig \subseteq LightAndCamera \cup {"haze"} /\ Pictured(op, how, objs, rig)
           /\ how # "path" => left' \subseteq left
           /\ how = "path" \/ (op = "sheet" /\ how = "rendering") \/ hidden' = hidden
           /\ op = "sprite" => settings' = settings
           /\ how # "path" => \A d \in DOMAIN slots : Apart(IF objs = <<>> THEN Master ELSE objs, d) => slots'[d] = slots[d]
           /\ op \in {"sprite", "impostor"} /\ how = "well" => page'.sidecar \in {0, page'.picture}
<1>1. \A objs \in Asked \cup {Master} : objs \in Seq(Among(objs))
  BY ListsAreLists
<1>2. RigTypeOK
  BY DEF RigInv
<1>3. ASSUME NEW objs \in Asked, NEW how \in ToARendering, NEW op \in {"view", "turntable"}, Framed(op, objs, how)
      PROVE  /\ Pictured(op, how, objs, LightAndCamera) /\ (how # "path" => left' \subseteq left)
             /\ (how = "path" \/ hidden' = hidden) /\ slots' = slots
  BY <1>2, <1>3, HidingFacts DEF Framed, Rigged, KeptHidden, ShownAgain, Pictured
<1>4. ASSUME NEW how \in ToARendering, NEW op \in {"camera", "cinematic"}, Placed(op, how)
      PROVE  /\ Pictured(op, how, <<>>, LightAndCamera) /\ (how # "path" => left' \subseteq left)
             /\ hidden' = hidden /\ slots' = slots
  BY <1>4 DEF Placed, Rigged, Pictured
<1>5. ASSUME NEW how \in ToARendering, Hazy(how)
      PROVE  /\ Pictured("cinematic", how, <<>>, LightAndCamera \cup {"haze"}) /\ (how # "path" => left' \subseteq left)
             /\ hidden' = hidden /\ slots' = slots
  BY <1>5 DEF Hazy, Rigged, Pictured
<1>6. ASSUME NEW objs \in Asked, NEW how \in ToARendering \cup {"saving"}, NEW n \in DOMAIN Panels, ContactSheet(objs, n, how)
      PROVE  /\ Pictured("sheet", how, objs, LightAndCamera) /\ (how # "path" => left' \subseteq left)
             /\ how = "path" \/ how = "rendering" \/ hidden' = hidden
             /\ how # "path" => \A d \in DOMAIN slots : Apart(IF objs = <<>> THEN Master ELSE objs, d) => slots'[d] = slots[d]
  <2>1. /\ Pictured("sheet", how, objs, LightAndCamera) /\ (how # "path" => left' \subseteq left)
        /\ how = "path" \/ how = "rendering" \/ hidden' = hidden
    BY <1>2, <1>6, HidingFacts DEF ContactSheet, Rigged, KeptHidden, ShownAgain, Pictured, ToARendering
  <2> DEFINE all == IF objs = <<>> THEN Master ELSE objs
  <2>2. all \in Seq(Among(all)) /\ n \in Nat
    BY <1>1, ListsAreLists
  <2>3. how # "path" => slots' = SlotsAfter(all, n)
    BY <1>6 DEF ContactSheet, SheetSlots
  <2> HIDE DEF all
  <2>4. how # "path" => \A d \in DOMAIN slots : Apart(all, d) => slots'[d] = slots[d]
    BY <2>2, <2>3, SlotsAfterIsSame
  <2> QED BY <2>1, <2>4 DEF all
<1>7. ASSUME NEW how \in ToARendering \cup {"saving"}, NEW objs \in Families, NEW normals \in BOOLEAN, Impostor(objs, normals, how)
      PROVE  /\ Pictured("impostor", how, objs, LightAndCamera) /\ (how # "path" => left' \subseteq left)
             /\ how = "path" \/ hidden' = hidden
             /\ \A d \in DOMAIN slots : Apart(objs, d) => slots'[d] = slots[d]
             /\ how = "well" => page'.sidecar \in {0, page'.picture}
             /\ objs # <<>>
  <2>1. /\ Pictured("impostor", how, objs, LightAndCamera) /\ (how # "path" => left' \subseteq left)
        /\ how = "path" \/ hidden' = hidden
    BY <1>2, <1>7, HidingFacts DEF Impostor, Rigged, KeptHidden, ShownAgain, Pictured
  <2>2. objs \in Seq(Among(objs)) /\ objs # <<>>
    BY <1>1 DEF Families
  <2>3. slots' = slots \/ slots' = SwappedBack(objs, "_bforge_impostor_normal", slots)
    BY <1>7 DEF Impostor
  <2>4. how = "well" => page'.sidecar \in {0, page'.picture}
    BY <1>7 DEF Impostor
  <2> QED BY <2>1, <2>2, <2>3, <2>4, SwappedBackIsSame
<1>8. ASSUME NEW how \in ToARendering \cup {"saving"}, NEW objs \in Families \cup {<<>>}, NEW views \in 1 .. 2, Sprite(objs, views, how)
      PROVE  /\ Pictured("sprite", how, objs, {}) /\ (how # "path" => left' \subseteq left)
             /\ how = "path" \/ hidden' = hidden
             /\ slots' = slots /\ settings' = settings
             /\ how = "well" => page'.sidecar \in {0, page'.picture}
  BY <1>2, <1>8, HidingFacts DEF Sprite, Rigged, KeptHidden, ShownAgain, Pictured, Sidecar
<1>9. CASE \E objs \in Asked, how \in ToARendering : \E op \in {"view", "turntable"} : Framed(op, objs, how)
  <2>1. PICK objs \in Asked, how \in ToARendering, op \in {"view", "turntable"} : Framed(op, objs, how)
    BY <1>9
  <2>2. /\ Pictured(op, how, objs, LightAndCamera) /\ (how # "path" => left' \subseteq left)
        /\ (how = "path" \/ hidden' = hidden) /\ slots' = slots
    BY <1>3, <2>1
  <2> WITNESS op, how, objs, LightAndCamera
  <2> QED BY <2>2
<1>10. CASE \E objs \in Asked, how \in ToARendering \cup {"saving"}, n \in DOMAIN Panels : ContactSheet(objs, n, how)
  <2>1. PICK objs \in Asked, how \in ToARendering \cup {"saving"}, n \in DOMAIN Panels : ContactSheet(objs, n, how)
    BY <1>10
  <2>2. /\ Pictured("sheet", how, objs, LightAndCamera) /\ (how # "path" => left' \subseteq left)
        /\ how = "path" \/ how = "rendering" \/ hidden' = hidden
        /\ how # "path" => \A d \in DOMAIN slots : Apart(IF objs = <<>> THEN Master ELSE objs, d) => slots'[d] = slots[d]
    BY <1>6, <2>1
  <2> WITNESS "sheet", how, objs, LightAndCamera
  <2> QED BY <2>2
<1>11. CASE \E how \in ToARendering : Hazy(how) \/ \E op \in {"camera", "cinematic"} : Placed(op, how)
  <2>1. CASE \E how \in ToARendering : Hazy(how)
    <3>1. PICK how \in ToARendering : Hazy(how)
      BY <2>1
    <3>2. /\ Pictured("cinematic", how, <<>>, LightAndCamera \cup {"haze"}) /\ (how # "path" => left' \subseteq left)
          /\ hidden' = hidden /\ slots' = slots
      BY <1>5, <3>1
    <3> WITNESS "cinematic", how, <<>>, LightAndCamera \cup {"haze"}
    <3> QED BY <3>2
  <2>2. CASE \E how \in ToARendering : \E op \in {"camera", "cinematic"} : Placed(op, how)
    <3>1. PICK how \in ToARendering, op \in {"camera", "cinematic"} : Placed(op, how)
      BY <2>2
    <3>2. /\ Pictured(op, how, <<>>, LightAndCamera) /\ (how # "path" => left' \subseteq left)
          /\ hidden' = hidden /\ slots' = slots
      BY <1>4, <3>1
    <3> WITNESS op, how, <<>>, LightAndCamera
    <3> QED BY <3>2
  <2> QED BY <1>11, <2>1, <2>2
<1>12. CASE \E how \in ToARendering \cup {"saving"} : \E objs \in Families, normals \in BOOLEAN : Impostor(objs, normals, how)
  <2>1. PICK how \in ToARendering \cup {"saving"}, objs \in Families, normals \in BOOLEAN : Impostor(objs, normals, how)
    BY <1>12
  <2>2. /\ Pictured("impostor", how, objs, LightAndCamera) /\ (how # "path" => left' \subseteq left)
        /\ how = "path" \/ hidden' = hidden
        /\ \A d \in DOMAIN slots : Apart(objs, d) => slots'[d] = slots[d]
        /\ how = "well" => page'.sidecar \in {0, page'.picture}
        /\ objs # <<>>
    BY <1>7, <2>1
  <2> WITNESS "impostor", how, objs, LightAndCamera
  <2> QED BY <2>2
<1>13. CASE \E how \in ToARendering \cup {"saving"} : \E objs \in Families \cup {<<>>}, views \in 1 .. 2 : Sprite(objs, views, how)
  <2>1. PICK how \in ToARendering \cup {"saving"}, objs \in Families \cup {<<>>}, views \in 1 .. 2 : Sprite(objs, views, how)
    BY <1>13
  <2>2. /\ Pictured("sprite", how, objs, {}) /\ (how # "path" => left' \subseteq left)
        /\ how = "path" \/ hidden' = hidden
        /\ slots' = slots /\ settings' = settings
        /\ how = "well" => page'.sidecar \in {0, page'.picture}
    BY <1>8, <2>1
  <2> WITNESS "sprite", how, objs, {}
  <2> QED BY <2>2
<1> QED BY <1>9, <1>10, <1>11, <1>12, <1>13 DEF RigNext

LEMMA RigBegins == RigInit => RigInv
<1> SUFFICES ASSUME RigInit PROVE RigInv
  OBVIOUS
<1>1. hidden \subseteq Meshes
  BY ListsAreLists DEF RigInit, Meshes
<1> QED BY <1>1 DEF RigInit, RigInv, RigTypeOK, OnlyWhatIsAsked, LightAndCamera

LEMMA RigGoesOn == RigInv /\ [RigNext]_rigVars => RigInv'
<1> SUFFICES ASSUME RigInv, [RigNext]_rigVars PROVE RigInv'
  OBVIOUS
<1>1. CASE UNCHANGED rigVars
  BY <1>1 DEF RigInv, RigTypeOK, OnlyWhatIsAsked, Meshes, rigVars
<1>2. CASE RigNext
  BY <1>2, RigParts, PicturedKeeps
<1> QED BY <1>1, <1>2

LEMMA PicturesKeep == RigInv /\ [RigNext]_rigVars => [LeavesTheMaster /\ SidecarsDescribe]_rigVars
<1> SUFFICES ASSUME RigInv, RigNext PROVE LeavesTheMaster /\ SidecarsDescribe
  OBVIOUS
<1>1. PICK op, how, objs, rig :
        /\ rig \subseteq LightAndCamera \cup {"haze"} /\ Pictured(op, how, objs, rig)
        /\ how # "path" => left' \subseteq left
        /\ how = "path" \/ (op = "sheet" /\ how = "rendering") \/ hidden' = hidden
        /\ op = "sprite" => settings' = settings
        /\ how # "path" => \A d \in DOMAIN slots : Apart(IF objs = <<>> THEN Master ELSE objs, d) => slots'[d] = slots[d]
        /\ op \in {"sprite", "impostor"} /\ how = "well" => page'.sidecar \in {0, page'.picture}
  BY RigParts
<1>2. heard'.op = op /\ heard'.how = how /\ heard'.of = objs
  BY <1>1 DEF Pictured, Answers
<1>3. LeavesTheMaster
  BY <1>1, <1>2 DEF LeavesTheMaster
<1>4. SidecarsDescribe
  BY <1>1, <1>2 DEF SidecarsDescribe
<1> QED BY <1>3, <1>4

\* For any scene, any lists of objects and panels and any number of pictures: a picture of
\* named objects shows nothing else; unless a path cannot be made no rig is left, a mesh of
\* one object has its materials again, and what was hidden is hidden again (not after a
\* sheet that failed to render); no sidecar describes a picture that is gone.
THEOREM PicturesPutBack ==
  RigSpec => [](RigTypeOK /\ OnlyWhatIsAsked) /\ [][LeavesTheMaster /\ SidecarsDescribe]_rigVars
BY RigBegins, RigGoesOn, PicturesKeep, PTL DEF RigSpec, RigInv

-----------------------------------------------------------------------------
(* Materials: names, slots, bakes and merges. *)

Looks == [colour : Int, diffuse : Int, graph : BOOLEAN, map : Bodies \cup {NoMap}, stray : BOOLEAN]

\* Each operation makes one material at most.
Made == DOMAIN materials \ ImportedNames
FewMade == IsFiniteSet(Made) /\ Cardinality(Made) <= changes

DeskInv ==
  /\ materials = [n \in DOMAIN materials |-> materials[n]]
  /\ DOMAIN materials \subseteq AllNames /\ \A n \in DOMAIN materials : materials[n] \in Looks
  /\ DOMAIN worn = Bodies /\ \A o \in Bodies : worn[o] \in Seq(DOMAIN materials)
  /\ bake \in [selected : {FALSE}, lit : BOOLEAN]
  /\ changes \in Nat /\ FewMade

-----------------------------------------------------------------------------
LEMMA MarkedDiffer ==
  ASSUME NEW name \in GivenNames, NEW mark
  PROVE  \A x, y : name \o <<mark, x>> = name \o <<mark, y>> => x = y
<1> DEFINE S == {name[i] : i \in DOMAIN name}
<1>1. name \in Seq(S)
  BY NamesAreApart
<1> HIDE DEF S
<1>2. ASSUME NEW x PROVE (name \o <<mark, x>>)[Len(name) + 2] = x
  <2> DEFINE T == S \cup {mark, x}
  <2>1. name \in Seq(T) /\ mark \in T /\ x \in T
    BY <1>1
  <2> HIDE DEF T
  <2>2. <<mark, x>> \in Seq(T) /\ Len(<<mark, x>>) = 2 /\ <<mark, x>>[2] = x
    BY <2>1
  <2> QED BY <2>1, <2>2
<1> QED BY <1>2

LEMMA NamesApart ==
  ASSUME NEW name \in GivenNames
  PROVE  /\ name \notin ImportedNames /\ name \in AllNames /\ Marked(name) \subseteq AllNames
         /\ \A m \in Marked(name) : m \notin ImportedNames
<1>1. ({name} \cup Marked(name)) \cap ImportedNames = {}
  BY NamesAreApart
<1> QED BY <1>1 DEF AllNames

\* As many names as there may be operations: while there are more to come, one of them is free.
LEMMA OneIsFree ==
  ASSUME DeskInv, changes < MaxChanges, NEW v, \A x, y \in 1 .. MaxChanges : v[x] = v[y] => x = y,
         \A x \in 1 .. MaxChanges : v[x] \notin ImportedNames
  PROVE  \E x \in 1 .. MaxChanges : v[x] \notin DOMAIN materials
<1> SUFFICES ASSUME \A x \in 1 .. MaxChanges : v[x] \in DOMAIN materials PROVE FALSE
  OBVIOUS
<1> DEFINE N == 1 .. MaxChanges
           w == [x \in N |-> v[x]]
<1>1. MaxChanges \in Nat /\ changes \in Nat /\ IsFiniteSet(Made) /\ Cardinality(Made) <= changes
  BY NamesAreApart DEF DeskInv, FewMade
<1>2. IsFiniteSet(N) /\ Cardinality(N) = MaxChanges
  BY <1>1, FS_Interval
<1>3. w \in [N -> Made] /\ \A x, y \in N : w[x] = w[y] => x = y
  BY DEF Made
<1>4. w \in Injection(N, Made)
  <2> HIDE DEF N, w
  <2> QED BY <1>3 DEF Injection, IsInjective
<1>5. Cardinality(N) <= Cardinality(Made)
  <2> HIDE DEF N, w
  <2> QED BY <1>1, <1>4, FS_Injection
<1>6. Cardinality(Made) \in Nat
  BY <1>1, FS_CardinalityType
<1> HIDE DEF N
<1> QED BY <1>1, <1>2, <1>5, <1>6

\* bpy.data.materials.new answers a name that is free.
LEMMA FreeNameIsFree ==
  ASSUME DeskInv, changes < MaxChanges, NEW name \in GivenNames
  PROVE  FreeName(name) \notin DOMAIN materials /\ FreeName(name) \in {name} \cup Marked(name)
<1> DEFINE marked(k) == name \o <<".", k>>
           N == 1 .. MaxChanges
           v == [k \in N |-> marked(k)]
           Free == {k \in N : marked(k) \notin DOMAIN materials}
           i0 == CHOOSE i \in N : marked(i) \notin DOMAIN materials /\ \A j \in 1 .. i - 1 : marked(j) \in DOMAIN materials
<1>1. \A k \in N : marked(k) \in Marked(name)
  BY DEF Marked
<1>2. \A x, y : marked(x) = marked(y) => x = y
  BY MarkedDiffer
<1>3. FreeName(name) = IF name \notin DOMAIN materials THEN name ELSE marked(i0)
  BY DEF FreeName
<1> HIDE DEF marked
<1>4. /\ \A x, y \in 1 .. MaxChanges : v[x] = v[y] => x = y
      /\ \A x \in 1 .. MaxChanges : v[x] \notin ImportedNames
  BY <1>1, <1>2, NamesApart
<1>5. \E x \in 1 .. MaxChanges : v[x] \notin DOMAIN materials
  <2> HIDE DEF v
  <2> QED BY <1>4, OneIsFree
<1>6. Free \subseteq Nat /\ Free # {}
  BY <1>5
<1>7. PICK i \in Free : \A j \in Free : i <= j
  <2> HIDE DEF Free
  <2> QED BY <1>6, LeastOf
<1>8. i \in N /\ marked(i) \notin DOMAIN materials /\ \A j \in 1 .. i - 1 : marked(j) \in DOMAIN materials
  BY <1>7, NamesAreApart
<1>9. i0 \in N /\ marked(i0) \notin DOMAIN materials
  BY <1>8
<1> HIDE DEF i0, N
<1> QED BY <1>1, <1>3, <1>9

\* principled answers a name that is free or describes itself as asked.
LEMMA PrincipledFits ==
  ASSUME DeskInv, changes < MaxChanges, NEW name \in Called, NEW colour
  PROVE  LET p == Principled(name, colour)
         IN /\ p \in {name} \cup Marked(name)
            /\ p \notin DOMAIN materials \/ Describes(materials[p]) = colour
<1> DEFINE v == Variants(name)
           N == 1 .. MaxChanges + 1
           marked(k) == name \o <<"_", k>>
           Suits(k) == v[k] \notin DOMAIN materials \/ Describes(materials[v[k]]) = colour
           Fit == {k \in N : Suits(k)}
           i0 == CHOOSE i \in DOMAIN v : Suits(i) /\ \A j \in 1 .. i - 1 : ~Suits(j)
           w == [k \in 1 .. MaxChanges |-> v[k + 1]]
<1>1. name \in GivenNames /\ MaxChanges \in Nat
  BY NamesAreApart DEF GivenNames
<1>2. v = [k \in N |-> IF k = 1 THEN name ELSE marked(k)]
  BY DEF Variants
<1>3. Principled(name, colour) = v[i0]
  BY DEF Principled
<1>4. /\ \A x, y : marked(x) = marked(y) => x = y
       /\ \A k \in 2 .. MaxChanges + 1 : marked(k) \in Marked(name)
  BY <1>1, MarkedDiffer DEF Marked
<1> HIDE DEF marked, v
<1>5. DOMAIN v = N /\ v[1] = name /\ \A k \in 2 .. MaxChanges + 1 : v[k] = marked(k)
  BY <1>1, <1>2
<1>6. /\ \A x, y \in 1 .. MaxChanges : w[x] = w[y] => x = y
      /\ \A x \in 1 .. MaxChanges : w[x] \notin ImportedNames
  <2>1. \A x \in 1 .. MaxChanges : x + 1 \in 2 .. MaxChanges + 1
    BY <1>1
  <2>2. \A x \in 1 .. MaxChanges : w[x] = marked(x + 1) /\ w[x] \in Marked(name)
    BY <1>4, <1>5, <2>1
  <2>3. \A x \in 1 .. MaxChanges : w[x] \notin ImportedNames
    BY <1>1, <2>2, NamesApart
  <2>4. \A x, y \in 1 .. MaxChanges : x + 1 = y + 1 => x = y
    OBVIOUS
  <2> HIDE DEF w
  <2> QED BY <1>4, <2>2, <2>3, <2>4
<1>7. PICK x \in 1 .. MaxChanges : w[x] \notin DOMAIN materials
  <2> HIDE DEF w
  <2> QED BY <1>6, OneIsFree
<1>8. x + 1 \in Fit /\ Fit \subseteq Nat
  BY <1>1, <1>7
<1>9. \A k \in N : k \in Fit <=> Suits(k)
  OBVIOUS
<1>10. PICK i \in Fit : \A j \in Fit : i <= j
  <2> HIDE DEF Fit
  <2> QED BY <1>8, LeastOf
<1>11. i \in DOMAIN v /\ Suits(i) /\ \A j \in 1 .. i - 1 : ~Suits(j)
  <2>1. i \in N /\ \A j \in 1 .. i - 1 : j \in N /\ ~(i <= j)
    BY <1>1, <1>10
  <2> HIDE DEF Fit, N
  <2>2. Suits(i)
    BY <1>10, <1>9, <2>1
  <2>3. \A j \in 1 .. i - 1 : ~Suits(j)
    BY <1>10, <1>9, <2>1
  <2> HIDE DEF Suits
  <2> QED BY <1>5, <2>1, <2>2, <2>3
<1>12. i0 \in DOMAIN v /\ Suits(i0)
  <2> HIDE DEF Suits
  <2> QED BY <1>11
<1> HIDE DEF i0
<1>13. v[i0] \in {name} \cup Marked(name)
  <2>1. i0 = 1 \/ i0 \in 2 .. MaxChanges + 1
    <3> HIDE DEF Suits
    <3> QED BY <1>1, <1>5, <1>12
  <2> QED BY <1>4, <1>5, <2>1
<1> QED BY <1>3, <1>12, <1>13 DEF Suits

-----------------------------------------------------------------------------
(* The operations on one object. *)

LEMMA WornIsThere == ASSUME DeskInv PROVE \A o \in Bodies : WornBy(o) \subseteq DOMAIN materials
<1> SUFFICES ASSUME NEW o \in Bodies, NEW i \in DOMAIN worn[o] PROVE worn[o][i] \in DOMAIN materials
  BY DEF WornBy
<1> QED BY DEF DeskInv

\* What an operation on one object may do to the others.
Managed ==
  DeskInv' /\ OthersStay /\ MergesAlike

LEMMA OpParts ==
  ASSUME NEW op, NEW o, NEW name, NEW colour, Does(op, o, name, colour)
  PROVE  /\ changes' = changes + 1 /\ done'.op = op /\ done'.on = o
         /\ done'.name = name /\ done'.asked = colour
BY DEF Does

LEMMA PlainLooks ==
  ASSUME NEW colour \in Int
  PROVE  Plain(colour) \in Looks /\ Describes(Plain(colour)) = colour
<1>1. Plain(colour) \in Looks
  BY LooksAreNumbers DEF Plain, Looks
<1>2. Describes(Plain(colour)) = colour
  BY DEF Plain, Describes
<1> QED BY <1>1, <1>2

\* What is made of one is one, too.
LEMMA LooksStay ==
  ASSUME NEW m \in Looks, NEW o \in Bodies, NEW colour \in Int
  PROVE  /\ [m EXCEPT !.graph = TRUE, !.diffuse = colour] \in Looks
         /\ [m EXCEPT !.map = o] \in Looks
         /\ [m EXCEPT !.graph = TRUE, !.stray = TRUE] \in Looks
         /\ [m EXCEPT !.stray = TRUE] \in Looks
         /\ [m EXCEPT !.graph = FALSE, !.map = o, !.colour = Grey, !.stray = FALSE] \in Looks
         /\ [m EXCEPT !.graph = FALSE, !.stray = TRUE] \in Looks
         /\ [m EXCEPT !.graph = FALSE, !.map = o, !.stray = TRUE] \in Looks
BY LooksAreNumbers DEF Looks

\* A material more, and what wears the old ones wears them still.
LEMMA OneMore ==
  ASSUME DeskInv, NEW name \in AllNames, NEW m \in Looks, materials' = WithMaterial(name, m), changes' = changes + 1
  PROVE  /\ materials' = [n \in DOMAIN materials' |-> materials'[n]]
         /\ DOMAIN materials' = DOMAIN materials \cup {name} /\ materials'[name] = m
         /\ \A n \in DOMAIN materials \ {name} : materials'[n] = materials[n]
         /\ DOMAIN materials' \subseteq AllNames /\ \A n \in DOMAIN materials' : materials'[n] \in Looks
         /\ FewMade' /\ changes' \in Nat
<1>1. /\ materials' = [n \in DOMAIN materials' |-> materials'[n]]
      /\ DOMAIN materials' = DOMAIN materials \cup {name} /\ materials'[name] = m
      /\ \A n \in DOMAIN materials \ {name} : materials'[n] = materials[n]
  BY DEF WithMaterial
<1>2. DOMAIN materials' \subseteq AllNames /\ \A n \in DOMAIN materials' : materials'[n] \in Looks
  BY <1>1 DEF DeskInv
<1>3. changes \in Nat /\ changes' \in Nat
  BY DEF DeskInv
<1>4. FewMade'
  <2>1. IsFiniteSet(Made) /\ Cardinality(Made) <= changes
    BY DEF DeskInv, FewMade
  <2> DEFINE more == Made \cup {name}
  <2>2. Cardinality(Made) \in Nat
    BY <2>1, FS_CardinalityType
  <2>3. IsFiniteSet(more) /\ Cardinality(more) = IF name \in Made THEN Cardinality(Made) ELSE Cardinality(Made) + 1
    BY <2>1, FS_AddElement
  <2>4. IsFiniteSet(more) /\ Cardinality(more) <= Cardinality(Made) + 1
    <3> HIDE DEF more
    <3> QED BY <2>2, <2>3
  <2>5. Made' \subseteq more
    BY <1>1 DEF Made
  <2>6. IsFiniteSet(Made') /\ Cardinality(Made') <= Cardinality(more)
    BY <2>4, <2>5, FS_Subset
  <2>7. Cardinality(more) \in Nat /\ Cardinality(Made') \in Nat
    BY <2>4, <2>6, FS_CardinalityType
  <2>8. Cardinality(Made') <= changes'
    BY <1>3, <2>1, <2>2, <2>4, <2>6, <2>7
  <2> QED BY <2>6, <2>8 DEF FewMade
<1> QED BY <1>1, <1>2, <1>3, <1>4

\* Of fewer materials there are few made.
LEMMA FewStay ==
  ASSUME DeskInv, DOMAIN materials' \subseteq DOMAIN materials, changes' = changes + 1
  PROVE  FewMade' /\ changes' \in Nat
<1>1. IsFiniteSet(Made) /\ Cardinality(Made) <= changes /\ changes \in Nat
  BY DEF DeskInv, FewMade
<1>2. Made' \subseteq Made
  BY DEF Made
<1>3. IsFiniteSet(Made') /\ Cardinality(Made') <= Cardinality(Made)
  BY <1>1, <1>2, FS_Subset
<1>4. Cardinality(Made) \in Nat /\ Cardinality(Made') \in Nat
  BY <1>1, <1>3, FS_CardinalityType
<1>5. Cardinality(Made') <= changes'
  BY <1>1, <1>3, <1>4
<1> QED BY <1>1, <1>3, <1>5 DEF FewMade

\* The slots of one object change, to materials there are.
LEMMA Redressed ==
  ASSUME DeskInv, NEW o \in Bodies, NEW w, worn' = [worn EXCEPT ![o] = w],
         w \in Seq(DOMAIN materials'), DOMAIN materials \subseteq DOMAIN materials'
  PROVE  /\ DOMAIN worn' = Bodies /\ \A p \in Bodies : worn'[p] \in Seq(DOMAIN materials')
         /\ \A p \in Bodies \ {o} : worn'[p] = worn[p]
<1>1. DOMAIN worn = Bodies /\ \A p \in Bodies : worn[p] \in Seq(DOMAIN materials)
  BY DEF DeskInv
<1>2. DOMAIN worn' = Bodies /\ worn'[o] = w /\ \A p \in Bodies \ {o} : worn'[p] = worn[p]
  BY <1>1
<1>3. ASSUME NEW p \in Bodies PROVE worn'[p] \in Seq(DOMAIN materials')
  <2>1. CASE p = o
    BY <1>2, <2>1
  <2>2. CASE p # o
    <3>1. worn'[p] = worn[p] /\ worn[p] \in Seq(DOMAIN materials)
      BY <1>1, <1>2, <2>2
    <3> QED BY <3>1, SeqMonotonic
  <2> QED BY <2>1, <2>2
<1> QED BY <1>2, <1>3

\* What an operation on o does to the others: nothing, but to materials that are worn on o.
LEMMA OtherThings ==
  ASSUME DeskInv', NEW o \in Bodies, done'.on = o, done'.op # "consolidate",
         done'.op = "set" => Describes(materials'[done'.name]) = done'.asked,
         \A p \in Bodies \ {o} : worn'[p] = worn[p],
         \A p \in Bodies \ {o} : done'.op # "bake" \/ WornBy(p) \cap WornBy(o) = {} =>
           \A n \in WornBy(p) : materials'[n] = materials[n]
  PROVE  Managed
<1>1. OthersStay
  BY DEF OthersStay
<1>2. MergesAlike
  BY DEF MergesAlike
<1> QED BY <1>1, <1>2 DEF Managed

\* A material that is made or found is put into the slots of one object.
LEMMA MadeAndWorn ==
  ASSUME DeskInv, NEW o \in Bodies, NEW name \in AllNames, NEW m \in Looks, NEW op, NEW colour,
         materials' = WithMaterial(name, m), name \notin DOMAIN materials \/ m = materials[name],
         \/ worn' = worn
         \/ \E w : worn' = [worn EXCEPT ![o] = w] /\ w \in Seq(DOMAIN materials \cup {name}),
         bake' \in [selected : {FALSE}, lit : BOOLEAN],
         Does(op, o, name, colour), op # "consolidate", op = "set" => Describes(m) = colour
  PROVE  Managed
<1>1. changes' = changes + 1 /\ done'.op = op /\ done'.on = o /\ done'.name = name /\ done'.asked = colour
  BY OpParts
<1>2. /\ materials' = [n \in DOMAIN materials' |-> materials'[n]]
      /\ DOMAIN materials' = DOMAIN materials \cup {name} /\ materials'[name] = m
      /\ \A n \in DOMAIN materials \ {name} : materials'[n] = materials[n]
      /\ DOMAIN materials' \subseteq AllNames /\ \A n \in DOMAIN materials' : materials'[n] \in Looks
      /\ FewMade' /\ changes' \in Nat
  BY <1>1, OneMore
<1>3. /\ DOMAIN worn' = Bodies /\ \A p \in Bodies : worn'[p] \in Seq(DOMAIN materials')
      /\ \A p \in Bodies \ {o} : worn'[p] = worn[p]
  <2>1. CASE worn' = worn
    <3>1. DOMAIN worn' = Bodies /\ \A p \in Bodies : worn'[p] \in Seq(DOMAIN materials)
      BY <2>1 DEF DeskInv
    <3>2. \A p \in Bodies : worn'[p] \in Seq(DOMAIN materials')
      BY <1>2, <3>1, SeqMonotonic
    <3> QED BY <2>1, <3>1, <3>2
  <2>2. ASSUME NEW w, worn' = [worn EXCEPT ![o] = w], w \in Seq(DOMAIN materials \cup {name})
        PROVE  /\ DOMAIN worn' = Bodies /\ \A p \in Bodies : worn'[p] \in Seq(DOMAIN materials')
               /\ \A p \in Bodies \ {o} : worn'[p] = worn[p]
    <3>1. w \in Seq(DOMAIN materials') /\ DOMAIN materials \subseteq DOMAIN materials'
      BY <1>2, <2>2
    <3> QED BY <2>2, <3>1, Redressed
  <2> QED BY <2>1, <2>2
<1>4. \A n \in DOMAIN materials : materials'[n] = materials[n]
  BY <1>2
<1>5. \A p \in Bodies : \A n \in WornBy(p) : materials'[n] = materials[n]
  BY <1>4, WornIsThere
<1>6. DeskInv'
  BY <1>2, <1>3 DEF DeskInv
<1> QED BY <1>1, <1>2, <1>3, <1>5, <1>6, OtherThings

\* The slots of an object with one material in the first, or in the only one.
LEMMA SlotsFilled ==
  ASSUME DeskInv, NEW o \in Bodies, NEW name, NEW then, then = Assigned(o, name) \/ then = Only(o, name)
  PROVE  \E w : then = [worn EXCEPT ![o] = w] /\ w \in Seq(DOMAIN materials \cup {name})
<1> DEFINE T == DOMAIN materials \cup {name}
           v == <<name>> \o (IF worn[o] = <<>> THEN <<>> ELSE Tail(worn[o]))
<1>1. DOMAIN worn = Bodies /\ worn[o] \in Seq(T)
  <2>1. worn[o] \in Seq(DOMAIN materials) /\ DOMAIN worn = Bodies
    BY DEF DeskInv
  <2> QED BY <2>1, SeqMonotonic
<1>2. name \in T
  OBVIOUS
<1> HIDE DEF T
<1>3. <<name>> \in Seq(T)
  BY <1>2
<1>4. (IF worn[o] = <<>> THEN <<>> ELSE Tail(worn[o])) \in Seq(T)
  BY <1>1
<1>5. v \in Seq(T)
  BY <1>3, <1>4
<1>6. Assigned(o, name) = [worn EXCEPT ![o] = v] /\ Only(o, name) = [worn EXCEPT ![o] = <<name>>]
  BY <1>1 DEF Assigned, Only
<1> HIDE DEF v
<1> QED BY <1>3, <1>5, <1>6 DEF T

LEMMA OnlyOne ==
  ASSUME DeskInv, NEW o \in Bodies, NEW name, worn' = Only(o, name) \/ worn' = Assigned(o, name)
  PROVE  \E w : worn' = [worn EXCEPT ![o] = w] /\ w \in Seq(DOMAIN materials \cup {name})
<1>1. \A then : then = Only(o, name) \/ then = Assigned(o, name) =>
         \E w : then = [worn EXCEPT ![o] = w] /\ w \in Seq(DOMAIN materials \cup {name})
  BY SlotsFilled
<1> QED BY <1>1

LEMMA SetManages ==
  ASSUME DeskInv, changes < MaxChanges, NEW o \in Bodies, NEW wanted \in Called, NEW colour \in Colours,
         SetMaterial(o, wanted, colour) \/ FaceAssign(o, wanted, colour)
  PROVE  Managed
<1> DEFINE name == Principled(wanted, colour)
           m == Kept(name, colour)
<1>1. /\ materials' = WithMaterial(name, m) /\ bake' = bake
      /\ \/ worn' = Assigned(o, name) /\ Does("set", o, name, colour)
         \/ /\ worn' = [worn EXCEPT ![o] = IF \E i \in DOMAIN @ : @[i] = name THEN @ ELSE Append(@, name)]
            /\ Does("set", o, name, colour)
  BY DEF SetMaterial, FaceAssign
<1>2. /\ name \in {wanted} \cup Marked(wanted)
      /\ name \notin DOMAIN materials \/ Describes(materials[name]) = colour
  BY PrincipledFits
<1>3. name \in AllNames
  <2>1. wanted \in GivenNames
    BY DEF GivenNames
  <2> QED BY <1>2, <2>1, NamesApart
<1> HIDE DEF name
<1>4. /\ m \in Looks /\ Describes(m) = colour
      /\ name \notin DOMAIN materials \/ m = materials[name]
  <2>1. CASE name \in DOMAIN materials
    BY <1>2, <2>1 DEF Kept, DeskInv
  <2>2. CASE name \notin DOMAIN materials
    BY <2>2, PlainLooks, LooksAreNumbers DEF Kept
  <2> QED BY <2>1, <2>2
<1> HIDE DEF m
<1>5. bake' \in [selected : {FALSE}, lit : BOOLEAN]
  BY <1>1 DEF DeskInv
<1> DEFINE T == DOMAIN materials \cup {name}
<1>6. DOMAIN worn = Bodies /\ worn[o] \in Seq(T)
  <2>1. worn[o] \in Seq(DOMAIN materials) /\ DOMAIN worn = Bodies
    BY DEF DeskInv
  <2> QED BY <2>1, SeqMonotonic
<1>7. name \in T
  OBVIOUS
<1> HIDE DEF T
<1>8. Append(worn[o], name) \in Seq(T)
  BY <1>6, <1>7
<1>11. \E w : worn' = [worn EXCEPT ![o] = w] /\ w \in Seq(T)
  <2>1. CASE worn' = Assigned(o, name)
    <3>1. \E w : Assigned(o, name) = [worn EXCEPT ![o] = w] /\ w \in Seq(DOMAIN materials \cup {name})
      BY SlotsFilled
    <3> QED BY <2>1, <3>1 DEF T
  <2>2. CASE worn' = [worn EXCEPT ![o] = IF \E i \in DOMAIN @ : @[i] = name THEN @ ELSE Append(@, name)]
    <3> DEFINE w == IF \E i \in DOMAIN worn[o] : worn[o][i] = name THEN worn[o] ELSE Append(worn[o], name)
    <3>1. worn' = [worn EXCEPT ![o] = w]
      BY <1>6, <2>2
    <3>2. w \in Seq(T)
      BY <1>6, <1>8
    <3> HIDE DEF w
    <3> QED BY <3>1, <3>2
  <2> QED BY <1>1, <2>1, <2>2
<1>12. Does("set", o, name, colour)
  BY <1>1
<1>13. \E w : worn' = [worn EXCEPT ![o] = w] /\ w \in Seq(DOMAIN materials \cup {name})
  BY <1>11 DEF T
<1> QED BY <1>1, <1>3, <1>4, <1>5, <1>12, <1>13, MadeAndWorn

LEMMA GraphManages ==
  ASSUME DeskInv, changes < MaxChanges, NEW o \in Bodies, NEW wanted \in Called, NEW colour \in Colours,
         NEW pbr \in BOOLEAN, Graph(o, wanted, colour, pbr)
  PROVE  Managed
<1> DEFINE name == FreeName(wanted)
           m == [Plain(Grey) EXCEPT !.graph = TRUE, !.diffuse = IF pbr THEN colour ELSE @]
<1>1. /\ materials' = WithMaterial(name, m) /\ bake' = bake
      /\ worn' = (IF pbr THEN Only(o, name) ELSE Assigned(o, name))
      /\ Does("graph", o, name, colour)
  BY DEF Graph
<1>2. name \notin DOMAIN materials /\ name \in AllNames
  <2>1. wanted \in GivenNames
    BY DEF GivenNames
  <2> QED BY <2>1, FreeNameIsFree, NamesApart
<1> HIDE DEF name
<1>3. m \in Looks
  <2> DEFINE p == Plain(Grey)
  <2>1. p \in Looks /\ p.diffuse = Grey /\ Grey \in Int /\ colour \in Int
    BY PlainLooks, LooksAreNumbers DEF Plain
  <2>2. m = [p EXCEPT !.graph = TRUE, !.diffuse = IF pbr THEN colour ELSE Grey]
    BY <2>1
  <2> HIDE DEF p
  <2> QED BY <2>1, <2>2, LooksStay, ZenonT(30), SMT
<1> HIDE DEF m
<1>4. bake' \in [selected : {FALSE}, lit : BOOLEAN]
  BY <1>1 DEF DeskInv
<1>5. \E w : worn' = [worn EXCEPT ![o] = w] /\ w \in Seq(DOMAIN materials \cup {name})
  BY <1>1, OnlyOne
<1> QED BY <1>1, <1>2, <1>3, <1>4, <1>5, MadeAndWorn

LEMMA TileManages ==
  ASSUME DeskInv, changes < MaxChanges, NEW o \in Bodies, NEW stem \in DOMAIN TileName, NEW reuse \in BOOLEAN,
         NEW ok \in BOOLEAN, ReuseTile(o, stem) \/ BakeTile(o, stem, reuse, ok)
  PROVE  Managed
<1>1. TileName[stem] \in GivenNames /\ SwatchName[stem] \in GivenNames
  BY DEF GivenNames
<1>2. CASE ReuseTile(o, stem)
  <2> DEFINE name == TileName[stem]
             m == materials[name]
  <2>1. /\ name \in DOMAIN materials /\ worn' = Only(o, name) /\ materials' = materials /\ bake' = bake
        /\ Does("reuse", o, name, Grey)
    BY <1>2 DEF ReuseTile
  <2>2. m \in Looks /\ name \in AllNames
    BY <2>1 DEF DeskInv
  <2>3. materials' = WithMaterial(name, m)
    <3>1. DOMAIN materials \cup {name} = DOMAIN materials
      BY <2>1
    <3>2. materials = [n \in DOMAIN materials |-> materials[n]]
      BY DEF DeskInv
    <3> QED BY <2>1, <3>1, <3>2 DEF WithMaterial
  <2>4. bake' \in [selected : {FALSE}, lit : BOOLEAN]
    BY <2>1 DEF DeskInv
  <2> HIDE DEF name, m
  <2>5. \E w : worn' = [worn EXCEPT ![o] = w] /\ w \in Seq(DOMAIN materials \cup {name})
    BY <2>1, OnlyOne
  <2>6. m = materials[name]
    BY DEF m
  <2> QED BY <2>1, <2>2, <2>3, <2>4, <2>5, <2>6, MadeAndWorn
<1>3. CASE BakeTile(o, stem, reuse, ok) /\ ok
  <2> DEFINE name == FreeName(TileName[stem])
             m == [Plain(Grey) EXCEPT !.map = o]
  <2>1. /\ bake' = [bake EXCEPT !.lit = FALSE] /\ materials' = WithMaterial(name, m)
        /\ worn' = Only(o, name) /\ Does("tile", o, name, Grey)
    BY <1>3 DEF BakeTile
  <2>2. name \notin DOMAIN materials /\ name \in AllNames
    BY <1>1, FreeNameIsFree, NamesApart
  <2> HIDE DEF name
  <2>3. m \in Looks
    <3> DEFINE p == Plain(Grey)
    <3>1. p \in Looks
      BY PlainLooks, LooksAreNumbers
    <3> HIDE DEF p
    <3>2. \A k \in Bodies : [p EXCEPT !.map = k] \in Looks /\ [p EXCEPT !.graph = TRUE, !.stray = TRUE] \in Looks
      BY <3>1, LooksStay, LooksAreNumbers
    <3> QED BY <3>2 DEF p
  <2> HIDE DEF m
  <2>4. bake' \in [selected : {FALSE}, lit : BOOLEAN]
    BY <2>1 DEF DeskInv
  <2>5. \E w : worn' = [worn EXCEPT ![o] = w] /\ w \in Seq(DOMAIN materials \cup {name})
    BY <2>1, OnlyOne
  <2> QED BY <2>1, <2>2, <2>3, <2>4, <2>5, MadeAndWorn
<1>4. CASE BakeTile(o, stem, reuse, ok) /\ ~ok
  <2> DEFINE name == FreeName(SwatchName[stem])
             m == [Plain(Grey) EXCEPT !.graph = TRUE, !.stray = TRUE]
  <2>1. /\ bake' = [bake EXCEPT !.lit = FALSE] /\ materials' = WithMaterial(name, m)
        /\ worn' = worn /\ Does("failed", o, name, Grey)
    BY <1>4 DEF BakeTile
  <2>2. name \notin DOMAIN materials /\ name \in AllNames
    BY <1>1, FreeNameIsFree, NamesApart
  <2> HIDE DEF name
  <2>3. m \in Looks
    <3> DEFINE p == Plain(Grey)
    <3>1. p \in Looks
      BY PlainLooks, LooksAreNumbers
    <3> HIDE DEF p
    <3>2. \A k \in Bodies : [p EXCEPT !.map = k] \in Looks /\ [p EXCEPT !.graph = TRUE, !.stray = TRUE] \in Looks
      BY <3>1, LooksStay, LooksAreNumbers
    <3> QED BY <3>2 DEF p
  <2> HIDE DEF m
  <2>4. bake' \in [selected : {FALSE}, lit : BOOLEAN]
    BY <2>1 DEF DeskInv
  <2> QED BY <2>1, <2>2, <2>3, <2>4, MadeAndWorn
<1> QED BY <1>2, <1>3, <1>4

LEMMA BakeManages ==
  ASSUME DeskInv, NEW o \in Bodies, Bake(o)
  PROVE  Managed
<1>1. PICK made : /\ materials' = Remade(o, made) /\ worn' = worn /\ Does("bake", o, <<>>, Grey)
                  /\ \A n \in WornBy(o) : made[n] \in Looks
                  /\ bake' \in [selected : {FALSE}, lit : BOOLEAN]
  <2> DEFINE stray == [n \in WornBy(o) |-> [materials[n] EXCEPT !.stray = TRUE]]
             wired == [n \in WornBy(o) |-> [materials[n] EXCEPT !.graph = FALSE, !.map = o, !.colour = Grey, !.stray = FALSE]]
             stripped == [n \in WornBy(o) |-> [materials[n] EXCEPT !.graph = FALSE, !.stray = TRUE]]
             rewired == [n \in WornBy(o) |-> [materials[n] EXCEPT !.graph = FALSE, !.map = o, !.stray = TRUE]]
             Fine(made) == \A n \in WornBy(o) : made[n] \in Looks
  <2>1. /\ Stray(o) = Remade(o, stray) /\ Wired(o) = Remade(o, wired)
        /\ Stripped(o) = Remade(o, stripped) /\ Rewired(o) = Remade(o, rewired)
    BY DEF Stray, Wired, Stripped, Rewired
  <2>2. \A n \in WornBy(o) : materials[n] \in Looks
    BY WornIsThere DEF DeskInv
  <2>3. Fine(stray) /\ Fine(wired) /\ Fine(stripped) /\ Fine(rewired)
    <3> SUFFICES ASSUME NEW n \in WornBy(o)
                 PROVE  /\ [materials[n] EXCEPT !.stray = TRUE] \in Looks
                        /\ [materials[n] EXCEPT !.graph = FALSE, !.map = o, !.colour = Grey, !.stray = FALSE] \in Looks
                        /\ [materials[n] EXCEPT !.graph = FALSE, !.stray = TRUE] \in Looks
                        /\ [materials[n] EXCEPT !.graph = FALSE, !.map = o, !.stray = TRUE] \in Looks
      OBVIOUS
    <3> DEFINE m == materials[n]
    <3>1. m \in Looks
      BY <2>2
    <3> HIDE DEF m
    <3>2. /\ [m EXCEPT !.stray = TRUE] \in Looks
          /\ [m EXCEPT !.graph = FALSE, !.map = o, !.colour = Grey, !.stray = FALSE] \in Looks
          /\ [m EXCEPT !.graph = FALSE, !.stray = TRUE] \in Looks
          /\ [m EXCEPT !.graph = FALSE, !.map = o, !.stray = TRUE] \in Looks
      BY <3>1, LooksStay, LooksAreNumbers
    <3> QED BY <3>2 DEF m
  <2>4. /\ bake \in [selected : {FALSE}, lit : BOOLEAN]
        /\ [bake EXCEPT !.lit = FALSE] \in [selected : {FALSE}, lit : BOOLEAN]
    BY DEF DeskInv
  <2>5. /\ worn' = worn /\ Does("bake", o, <<>>, Grey) /\ bake' \in {bake, [bake EXCEPT !.lit = FALSE]}
        /\ materials' \in {Stray(o), Wired(o), Stripped(o), Rewired(o)}
    BY DEF Bake, BakePbr, BakeDetail, BakeOne, BakePutBack
  <2>6. bake' \in [selected : {FALSE}, lit : BOOLEAN]
    BY <2>4, <2>5
  <2> HIDE DEF stray, wired, stripped, rewired
  <2> QED BY <2>1, <2>3, <2>5, <2>6
<1>2. changes' = changes + 1 /\ done'.op = "bake" /\ done'.on = o
  BY <1>1, OpParts
<1>3. /\ materials' = [n \in DOMAIN materials' |-> materials'[n]]
      /\ DOMAIN materials' = DOMAIN materials
      /\ \A n \in DOMAIN materials : materials'[n] = IF n \in WornBy(o) THEN made[n] ELSE materials[n]
  BY <1>1 DEF Remade
<1>4. FewMade' /\ changes' \in Nat
  BY <1>2, <1>3, FewStay
<1>5. DeskInv'
  <2>1. \A n \in DOMAIN materials' : materials'[n] \in Looks
    BY <1>1, <1>3 DEF DeskInv
  <2> QED BY <1>1, <1>3, <1>4, <2>1 DEF DeskInv
<1>6. \A p \in Bodies \ {o} : WornBy(p) \cap WornBy(o) = {} => \A n \in WornBy(p) : materials'[n] = materials[n]
  BY <1>3, WornIsThere
<1> QED BY <1>1, <1>2, <1>5, <1>6, OtherThings

-----------------------------------------------------------------------------
(* Merging: the groups, and who is kept of each. *)

LEMMA UsedIsWorn ==
  ASSUME DeskInv, NEW objs \in SUBSET Bodies
  PROVE  Used(objs) \in Seq(UNION {WornBy(o) : o \in objs})
<1> DEFINE T == Seq(UNION {WornBy(o) : o \in objs})
           piece(i) == IF Things[i] \in objs THEN worn[Things[i]] ELSE <<>>
           n == Len(Things)
           g == [i \in 1 .. n |-> [x \in T |-> x \o piece(i)]]
           Folded(f) == f = [i \in 0 .. n |-> IF i = 0 THEN <<>> ELSE f[i - 1] \o piece(i)]
           all == CHOOSE f : Folded(f)
<1>1. Used(objs) = all[n]
  BY DEF Used
<1>2. n \in Nat
  BY LooksAreNumbers
<1>3. <<>> \in T
  OBVIOUS
<1>4. \A i \in 1 .. n : piece(i) \in T
  <2> SUFFICES ASSUME NEW i \in 1 .. n, Things[i] \in objs PROVE worn[Things[i]] \in T
    BY <1>3
  <2> DEFINE o == Things[i]
             W == WornBy(o)
  <2>1. o \in objs /\ o \in Bodies
    OBVIOUS
  <2> HIDE DEF o
  <2>2. worn[o] \in Seq(DOMAIN materials)
    BY <2>1 DEF DeskInv
  <2>3. Len(worn[o]) \in Nat /\ DOMAIN worn[o] = 1 .. Len(worn[o]) /\ worn[o] = [k \in 1 .. Len(worn[o]) |-> worn[o][k]]
    BY <2>2
  <2>4. \A k \in 1 .. Len(worn[o]) : worn[o][k] \in W
    BY <2>3 DEF WornBy
  <2> HIDE DEF W
  <2>5. worn[o] \in Seq(W)
    BY <2>3, <2>4
  <2>6. W \subseteq UNION {WornBy(q) : q \in objs}
    BY <2>1 DEF W
  <2>7. worn[o] \in T
    BY <2>5, <2>6, SeqMonotonic
  <2> QED BY <2>7 DEF o
<1> HIDE DEF piece
<1>5. \A i \in 1 .. n : \A x \in T : x \o piece(i) \in T
  BY <1>4
<1> HIDE DEF T
<1>6. \A i \in 1 .. n : \A x \in T : g[i][x] = x \o piece(i)
  OBVIOUS
<1> HIDE DEF g
<1>7. \A i \in 1 .. n : \A x \in T : g[i][x] \in T
  BY <1>5, <1>6
<1> HIDE DEF n
<1>8. PICK f0 \in [0 .. n -> T] : Recurs(f0, <<>>, g, n)
  BY <1>2, <1>3, <1>7, Recursion
<1>9. Folded(f0)
  <2>1. \A i \in 0 .. n : i # 0 => i \in 1 .. n /\ i - 1 \in 0 .. n
    BY <1>2
  <2>2. \A i \in 0 .. n : i # 0 => g[i][f0[i - 1]] = f0[i - 1] \o piece(i)
    BY <1>6, <1>8, <2>1
  <2> QED BY <1>8, <2>2 DEF Recurs
<1>10. Folded(all)
  BY <1>9
<1> HIDE DEF all
<1>11. all[0] = f0[0]
  BY <1>2, <1>9, <1>10
<1>12. ASSUME NEW k \in Nat, k + 1 <= n, all[k] = f0[k] PROVE all[k + 1] = f0[k + 1]
  <2>1. k + 1 \in 0 .. n /\ k + 1 # 0 /\ (k + 1) - 1 = k
    BY <1>2, <1>12
  <2>2. all[k + 1] = all[k] \o piece(k + 1) /\ f0[k + 1] = f0[k] \o piece(k + 1)
    BY <1>9, <1>10, <2>1
  <2> QED BY <1>12, <2>2
<1> HIDE DEF Folded
<1>13. all[n] = f0[n]
  <2>1. \A k \in Nat : k + 1 <= n /\ all[k] = f0[k] => all[k + 1] = f0[k + 1]
    BY <1>12
  <2>2. \A k \in 0 .. n : all[k] = f0[k]
    BY ONLY <1>2, <1>11, <2>1, Agreeing
  <2> QED BY <1>2, <2>2
<1>14. f0[n] \in T
  BY <1>2, <1>8
<1> QED BY <1>1, <1>13, <1>14 DEF T

\* Groups of names of C: none in two of them, and each like the first of its own.
Grouped(C, G) ==
  /\ G \in Seq(Seq(C)) /\ \A g \in DOMAIN G : G[g] # <<>>
  /\ \A g \in DOMAIN G : \A i \in DOMAIN G[g] : Joins(G[g], G[g][i])
  /\ \A g, h \in DOMAIN G : \A i \in DOMAIN G[g], j \in DOMAIN G[h] : G[g][i] = G[h][j] => g = h

LEMMA GroupMore ==
  ASSUME NEW C, NEW G, Grouped(C, G), NEW n \in C, Having(G, n) = {}, Alike(n, n)
  PROVE  Grouped(C, Append(G, <<n>>))
<1> DEFINE H == Append(G, <<n>>)
           m == Len(G)
<1>1. /\ G \in Seq(Seq(C)) /\ \A g \in DOMAIN G : G[g] # <<>>
      /\ \A g \in DOMAIN G : \A i \in DOMAIN G[g] : Joins(G[g], G[g][i])
      /\ \A g, h \in DOMAIN G : \A i \in DOMAIN G[g], j \in DOMAIN G[h] : G[g][i] = G[h][j] => g = h
      /\ \A g \in DOMAIN G : \A i \in DOMAIN G[g] : G[g][i] # n
  BY DEF Grouped, Having
<1>2. <<n>> \in Seq(C) /\ <<n>> # <<>> /\ DOMAIN <<n>> = {1} /\ <<n>>[1] = n
  BY ONLY n \in C
<1>3. m \in Nat /\ DOMAIN G = 1 .. m
  BY <1>1
<1>4. /\ H \in Seq(Seq(C)) /\ DOMAIN H = 1 .. m + 1 /\ H[m + 1] = <<n>>
      /\ \A g \in 1 .. m : H[g] = G[g]
  BY <1>1, <1>2
<1> HIDE DEF H, m
<1>5. \A g \in DOMAIN H : g \in 1 .. m \/ g = m + 1
  BY <1>3, <1>4
<1>6. ASSUME NEW g \in DOMAIN H PROVE H[g] # <<>> /\ \A i \in DOMAIN H[g] : Joins(H[g], H[g][i])
  <2>1. CASE g \in 1 .. m
    BY <1>1, <1>3, <1>4, <2>1
  <2>2. CASE g = m + 1
    BY <1>2, <1>4, <2>2 DEF Joins
  <2> QED BY <1>5, <2>1, <2>2
<1>7. ASSUME NEW g \in DOMAIN H, NEW h \in DOMAIN H, NEW i \in DOMAIN H[g], NEW j \in DOMAIN H[h], H[g][i] = H[h][j]
      PROVE  g = h
  <2>1. CASE g \in 1 .. m /\ h \in 1 .. m
    BY <1>1, <1>3, <1>4, <1>7, <2>1
  <2>2. CASE g = m + 1 /\ h \in 1 .. m
    <3>1. H[g][i] = n /\ H[h] = G[h] /\ h \in DOMAIN G
      BY <1>2, <1>3, <1>4, <2>2
    <3> QED BY <1>1, <1>7, <3>1
  <2>3. CASE g \in 1 .. m /\ h = m + 1
    <3>1. H[h][j] = n /\ H[g] = G[g] /\ g \in DOMAIN G
      BY <1>2, <1>3, <1>4, <2>3
    <3> QED BY <1>1, <1>7, <3>1
  <2> QED BY <1>5, <2>1, <2>2, <2>3
<1>8. Grouped(C, H)
  BY <1>4, <1>6, <1>7 DEF Grouped
<1> QED BY <1>8 DEF H

LEMMA GroupJoined ==
  ASSUME NEW C, NEW G, Grouped(C, G), NEW n \in C, Having(G, n) = {}, NEW f \in DOMAIN G, Joins(G[f], n)
  PROVE  Grouped(C, [G EXCEPT ![f] = Append(@, n)])
<1> DEFINE H == [G EXCEPT ![f] = Append(@, n)]
           l == Len(G[f])
<1>1. /\ G \in Seq(Seq(C)) /\ \A g \in DOMAIN G : G[g] # <<>>
      /\ \A g \in DOMAIN G : \A i \in DOMAIN G[g] : Joins(G[g], G[g][i])
      /\ \A g, h \in DOMAIN G : \A i \in DOMAIN G[g], j \in DOMAIN G[h] : G[g][i] = G[h][j] => g = h
      /\ \A g \in DOMAIN G : \A i \in DOMAIN G[g] : G[g][i] # n
  BY DEF Grouped, Having
<1>2. G[f] \in Seq(C) /\ G[f] # <<>>
  BY <1>1
<1> DEFINE w == Append(G[f], n)
<1>3. /\ l \in Nat /\ l >= 1 /\ DOMAIN G[f] = 1 .. l /\ w \in Seq(C) /\ w # <<>> /\ DOMAIN w = 1 .. l + 1
      /\ w[l + 1] = n /\ \A i \in 1 .. l : w[i] = G[f][i]
  BY <1>2
<1>4. H \in Seq(Seq(C)) /\ DOMAIN H = DOMAIN G /\ H[f] = w /\ \A g \in DOMAIN G \ {f} : H[g] = G[g]
  BY <1>1, <1>3
<1> HIDE DEF H, w, l
<1>5. w[1] = G[f][1]
  BY <1>3
<1>6. ASSUME NEW g \in DOMAIN H PROVE H[g] # <<>> /\ \A i \in DOMAIN H[g] : Joins(H[g], H[g][i])
  <2>1. CASE g # f
    BY <1>1, <1>4, <2>1
  <2>2. CASE g = f
    <3> SUFFICES ASSUME NEW i \in DOMAIN w PROVE Joins(w, w[i])
      BY <1>3, <1>4, <2>2
    <3>1. i \in 1 .. l \/ i = l + 1
      BY <1>3
    <3>2. Joins(G[f], w[i])
      BY <1>1, <1>3, <3>1
    <3> QED BY <1>5, <3>2 DEF Joins
  <2> QED BY <2>1, <2>2
<1>7. ASSUME NEW g \in DOMAIN H, NEW i \in DOMAIN H[g], H[g][i] # n
      PROVE  g \in DOMAIN G /\ i \in DOMAIN G[g] /\ H[g][i] = G[g][i]
  <2>1. CASE g # f
    BY <1>4, <2>1
  <2>2. CASE g = f
    <3>1. i \in 1 .. l
      BY <1>3, <1>4, <1>7, <2>2
    <3> QED BY <1>3, <1>4, <2>2, <3>1
  <2> QED BY <2>1, <2>2
<1>8. ASSUME NEW g \in DOMAIN H, NEW i \in DOMAIN H[g], H[g][i] = n PROVE g = f
  BY <1>1, <1>4, <1>8
<1>9. ASSUME NEW g \in DOMAIN H, NEW h \in DOMAIN H, NEW i \in DOMAIN H[g], NEW j \in DOMAIN H[h], H[g][i] = H[h][j]
      PROVE  g = h
  <2>1. CASE H[g][i] = n
    BY <1>8, <1>9, <2>1
  <2>2. CASE H[g][i] # n
    <3>1. /\ g \in DOMAIN G /\ i \in DOMAIN G[g] /\ H[g][i] = G[g][i]
          /\ h \in DOMAIN G /\ j \in DOMAIN G[h] /\ H[h][j] = G[h][j]
      BY <1>7, <1>9, <2>2
    <3> QED BY <1>1, <1>9, <3>1
  <2> QED BY <2>1, <2>2
<1>10. Grouped(C, H)
  BY <1>4, <1>6, <1>9 DEF Grouped
<1> QED BY <1>10 DEF H

LEMMA GroupsAreGrouped ==
  ASSUME DeskInv, NEW objs \in SUBSET Bodies
  PROVE  LET C == {n \in UNION {WornBy(o) : o \in objs} : Comparable(n)} IN Grouped(C, Groups(objs))
<1> DEFINE W == UNION {WornBy(o) : o \in objs}
           C == {n \in W : Comparable(n)}
           names == Used(objs)
           n == Len(names)
           T == {G \in Seq(Seq(C)) : Grouped(C, G)}
           Fit(G, i) == {k \in DOMAIN G : Joins(G[k], names[i])}
           First(G, i) == CHOOSE k \in Fit(G, i) : \A h \in Fit(G, i) : k <= h
           Regrouped(G, i) == IF ~Comparable(names[i]) \/ Having(G, names[i]) # {} THEN G
                         ELSE IF Fit(G, i) = {} THEN Append(G, <<names[i]>>)
                         ELSE [G EXCEPT ![First(G, i)] = Append(@, names[i])]
           g == [i \in 1 .. n |-> [G \in T |-> Regrouped(G, i)]]
           Folded(f) == f = [i \in 0 .. n |-> IF i = 0 THEN <<>> ELSE Regrouped(f[i - 1], i)]
           upto == CHOOSE f : Folded(f)
<1>1. Groups(objs) = upto[n]
  BY DEF Groups
<1>2. n \in Nat /\ \A i \in 1 .. n : names[i] \in W
  <2>1. names \in Seq(W)
    BY UsedIsWorn
  <2> HIDE DEF names, W
  <2> QED BY <2>1
<1>3. <<>> \in T
  BY DEF Grouped
<1>4. \A a \in C : Alike(a, a)
  <2> SUFFICES ASSUME NEW a \in C PROVE Alike(a, a)
    OBVIOUS
  <2>1. PICK o \in objs : a \in WornBy(o)
    OBVIOUS
  <2>2. a \in DOMAIN materials
    BY <2>1, WornIsThere
  <2>3. materials[a].colour \in Int
    BY <2>2 DEF DeskInv, Looks
  <2> QED BY <2>3, LooksAreNumbers DEF Alike
<1> HIDE DEF names, n, W
<1>5. ASSUME NEW i \in 1 .. n, NEW G \in T PROVE Regrouped(G, i) \in T
  <2> DEFINE name == names[i]
  <2>1. Grouped(C, G)
    OBVIOUS
  <2>2. \A H : Grouped(C, H) => H \in T
    BY DEF Grouped
  <2>3. name \in W
    BY <1>2
  <2> HIDE DEF T, name
  <2>4. CASE ~Comparable(name) \/ Having(G, name) # {}
    BY <2>1, <2>2, <2>4 DEF name
  <2>5. CASE Comparable(name) /\ Having(G, name) = {} /\ Fit(G, i) = {}
    <3>1. name \in C
      BY <2>3, <2>5
    <3>2. Grouped(C, Append(G, <<name>>))
      <4> HIDE DEF C
      <4> QED BY <1>4, <2>1, <2>5, <3>1, GroupMore
    <3>3. Regrouped(G, i) = Append(G, <<name>>)
      BY <2>5 DEF name
    <3> QED BY <2>2, <3>2, <3>3
  <2>6. CASE Comparable(name) /\ Having(G, name) = {} /\ Fit(G, i) # {}
    <3> DEFINE first == First(G, i)
    <3>1. first \in Fit(G, i)
      <4>1. Fit(G, i) \subseteq Nat
        BY <2>1 DEF Grouped
      <4>2. \E k \in Fit(G, i) : \A h \in Fit(G, i) : k <= h
        <5> HIDE DEF Fit
        <5> QED BY <2>6, <4>1, LeastOf
      <4> HIDE DEF Fit
      <4> QED BY <4>2
    <3>2. name \in C
      BY <2>3, <2>6
    <3>3. Regrouped(G, i) = [G EXCEPT ![first] = Append(@, name)]
      BY <2>6 DEF name
    <3> HIDE DEF first, C
    <3>4. first \in DOMAIN G /\ Joins(G[first], name)
      BY <3>1 DEF name
    <3>5. Grouped(C, [G EXCEPT ![first] = Append(@, name)])
      BY <2>1, <2>6, <3>2, <3>4, GroupJoined
    <3> HIDE DEF Regrouped
    <3> QED BY <2>2, <3>3, <3>5
  <2> QED BY <2>4, <2>5, <2>6
<1> HIDE DEF C, T, Regrouped
<1>6. \A i \in 1 .. n : \A G \in T : g[i][G] = Regrouped(G, i)
  OBVIOUS
<1> HIDE DEF g
<1>7. \A i \in 1 .. n : \A G \in T : g[i][G] \in T
  BY <1>5, <1>6
<1>8. PICK f0 \in [0 .. n -> T] : Recurs(f0, <<>>, g, n)
  BY <1>2, <1>3, <1>7, Recursion
<1>9. Folded(f0)
  <2>1. \A i \in 0 .. n : i # 0 => i \in 1 .. n /\ i - 1 \in 0 .. n
    BY <1>2
  <2>2. \A i \in 0 .. n : i # 0 => g[i][f0[i - 1]] = Regrouped(f0[i - 1], i)
    BY <1>6, <1>8, <2>1
  <2> QED BY <1>8, <2>2 DEF Recurs
<1>10. Folded(upto)
  BY <1>9
<1> HIDE DEF upto
<1>11. upto[0] = f0[0]
  BY <1>2, <1>9, <1>10
<1>12. ASSUME NEW k \in Nat, k + 1 <= n, upto[k] = f0[k] PROVE upto[k + 1] = f0[k + 1]
  <2>1. k + 1 \in 0 .. n /\ k + 1 # 0 /\ (k + 1) - 1 = k
    BY <1>2, <1>12
  <2>2. upto[k + 1] = Regrouped(upto[k], k + 1) /\ f0[k + 1] = Regrouped(f0[k], k + 1)
    BY <1>9, <1>10, <2>1
  <2> QED BY <1>12, <2>2
<1> HIDE DEF Folded
<1>13. upto[n] = f0[n]
  <2>1. \A k \in Nat : k + 1 <= n /\ upto[k] = f0[k] => upto[k + 1] = f0[k + 1]
    BY <1>12
  <2>2. \A k \in 0 .. n : upto[k] = f0[k]
    BY ONLY <1>2, <1>11, <2>1, Agreeing
  <2> QED BY <1>2, <2>2
<1>14. f0[n] \in T
  BY <1>2, <1>8
<1>15. Grouped(C, Groups(objs))
  BY <1>1, <1>13, <1>14 DEF T
<1> QED BY <1>15 DEF C, W

\* Who is kept is the name itself, or of its group.
LEMMA KeeperIsAlike ==
  ASSUME DeskInv, NEW C, C \subseteq DOMAIN materials, NEW G, Grouped(C, G), NEW n
  PROVE  LET k == Keeper(G, n)
         IN k # n => /\ n \in C /\ k \in C
                     /\ materials[n].colour - materials[k].colour \in -2 * Tolerance .. 2 * Tolerance
<1> DEFINE members == UNION {{G[g][i] : i \in DOMAIN G[g]} : g \in Having(G, n)}
           k == Keeper(G, n)
<1>1. /\ G \in Seq(Seq(C)) /\ \A g \in DOMAIN G : G[g] # <<>>
      /\ \A g \in DOMAIN G : \A i \in DOMAIN G[g] : Joins(G[g], G[g][i])
      /\ \A g, h \in DOMAIN G : \A i \in DOMAIN G[g], j \in DOMAIN G[h] : G[g][i] = G[h][j] => g = h
  BY DEF Grouped
<1> SUFFICES ASSUME k # n
             PROVE  /\ n \in C /\ k \in C
                    /\ materials[n].colour - materials[k].colour \in -2 * Tolerance .. 2 * Tolerance
  OBVIOUS
<1>2. members # {}
  BY DEF Keeper
<1>3. k = CHOOSE a \in members : \A b \in members : Rank[a] <= Rank[b]
  BY <1>2 DEF Keeper
<1> HIDE DEF k
<1>4. \A g \in DOMAIN G : G[g] \in Seq(C) /\ \A i \in DOMAIN G[g] : G[g][i] \in C
  BY <1>1
<1>5. \A a \in members : \E g \in Having(G, n) : \E i \in DOMAIN G[g] : a = G[g][i]
  OBVIOUS
<1> HIDE DEF members
<1>6. members \subseteq C
  BY <1>4, <1>5 DEF Having
<1>7. C \subseteq AllNames
  BY DEF DeskInv
<1>8. k \in members
  <2> DEFINE ranks == {Rank[a] : a \in members}
  <2>1. ranks \subseteq Nat /\ ranks # {}
    BY <1>2, <1>6, <1>7, NamesAreApart DEF AllNames
  <2>2. PICK r \in ranks : \A q \in ranks : r <= q
    <3> HIDE DEF ranks
    <3> QED BY <2>1, LeastOf
  <2>3. \E a \in members : \A b \in members : Rank[a] <= Rank[b]
    BY <2>2
  <2> QED BY <1>3, <2>3
<1>9. PICK g \in Having(G, n) : \E i \in DOMAIN G[g] : k = G[g][i]
  BY <1>5, <1>8
<1>10. PICK i \in DOMAIN G[g] : k = G[g][i]
  BY <1>9
<1>11. PICK j \in DOMAIN G[g] : n = G[g][j]
  BY DEF Having
<1>12. g \in DOMAIN G
  BY DEF Having
<1> DEFINE f == G[g][1]
<1>13. f \in C /\ k \in C /\ n \in C
  <2>1. G[g] \in Seq(C) /\ G[g] # <<>>
    BY <1>1, <1>4, <1>12
  <2>2. 1 \in DOMAIN G[g]
    BY <2>1
  <2> QED BY <1>4, <1>10, <1>11, <1>12, <2>2
<1>14. Alike(f, n) /\ Alike(f, k)
  BY <1>1, <1>10, <1>11, <1>12 DEF Joins
<1> HIDE DEF f
<1>15. materials[f].colour \in Int /\ materials[n].colour \in Int /\ materials[k].colour \in Int
  BY <1>13 DEF DeskInv, Looks
<1>16. materials[n].colour - materials[k].colour \in -2 * Tolerance .. 2 * Tolerance
  <2>1. Tolerance \in Nat
    BY LooksAreNumbers
  <2> QED BY <1>14, <1>15, <2>1 DEF Alike
<1> QED BY <1>13, <1>16

LEMMA ConsolidateManages ==
  ASSUME DeskInv, NEW objs \in SUBSET Bodies, NEW dry \in BOOLEAN, Consolidate(objs, dry)
  PROVE  Managed
<1> DEFINE groups == Groups(objs)
           W == UNION {WornBy(o) : o \in objs}
           keeper == [n \in W |-> Keeper(groups, n)]
           then == [o \in Bodies |-> IF o \in objs THEN [i \in DOMAIN worn[o] |-> keeper[worn[o][i]]] ELSE worn[o]]
           gone == Dropped({n \in DOMAIN keeper : keeper[n] # n}, then)
           C == {n \in W : Comparable(n)}
<1>1. /\ bake' = bake /\ Does("consolidate", NoMap, <<>>, Grey)
      /\ \/ materials' = materials /\ worn' = worn
         \/ worn' = then /\ materials' = [n \in DOMAIN materials \ gone |-> materials[n]]
  BY DEF Consolidate
<1>2. changes' = changes + 1 /\ done'.op = "consolidate"
  BY <1>1, OpParts
<1>3. /\ Grouped(C, groups) /\ W \subseteq DOMAIN materials /\ C \subseteq W
      /\ \A n \in C : Comparable(n)
  BY GroupsAreGrouped, WornIsThere
<1>4. \A n \in W : keeper[n] # n =>
         /\ n \in C /\ keeper[n] \in C
         /\ materials[n].colour - materials[keeper[n]].colour \in -2 * Tolerance .. 2 * Tolerance
  <2> SUFFICES ASSUME NEW n \in W, Keeper(groups, n) # n
               PROVE  /\ n \in C /\ Keeper(groups, n) \in C
                      /\ materials[n].colour - materials[Keeper(groups, n)].colour \in -2 * Tolerance .. 2 * Tolerance
    OBVIOUS
  <2>1. C \subseteq DOMAIN materials
    BY <1>3
  <2> HIDE DEF C, W, groups
  <2> QED BY <1>3, <2>1, KeeperIsAlike
<1>5. \A n \in W : keeper[n] \in DOMAIN materials
  BY <1>3, <1>4
<1>6. \A o \in objs : \A i \in DOMAIN worn[o] : worn[o][i] \in W
  BY DEF WornBy
<1> HIDE DEF keeper, C, W, groups
<1>7. \A o \in Bodies : Len(worn[o]) \in Nat /\ DOMAIN worn[o] = 1 .. Len(worn[o])
                        /\ worn[o] = [i \in 1 .. Len(worn[o]) |-> worn[o][i]]
                        /\ \A i \in DOMAIN worn[o] : worn[o][i] \in DOMAIN materials
  <2> SUFFICES ASSUME NEW o \in Bodies
               PROVE  Len(worn[o]) \in Nat /\ DOMAIN worn[o] = 1 .. Len(worn[o])
                      /\ worn[o] = [i \in 1 .. Len(worn[o]) |-> worn[o][i]]
                      /\ \A i \in DOMAIN worn[o] : worn[o][i] \in DOMAIN materials
    OBVIOUS
  <2>1. worn[o] \in Seq(DOMAIN materials)
    BY DEF DeskInv
  <2> QED BY <2>1
<1>8. /\ DOMAIN then = Bodies
      /\ \A o \in Bodies : /\ DOMAIN then[o] = DOMAIN worn[o]
                           /\ then[o] = [i \in 1 .. Len(worn[o]) |-> then[o][i]]
                           /\ \A i \in DOMAIN worn[o] : /\ then[o][i] \in DOMAIN materials
                                                        /\ then[o][i] # worn[o][i] =>
                                                             worn[o][i] \in W /\ then[o][i] = keeper[worn[o][i]]
  <2>1. DOMAIN then = Bodies
    OBVIOUS
  <2>2. ASSUME NEW o \in Bodies
        PROVE  /\ DOMAIN then[o] = DOMAIN worn[o]
               /\ then[o] = [i \in 1 .. Len(worn[o]) |-> then[o][i]]
               /\ \A i \in DOMAIN worn[o] : /\ then[o][i] \in DOMAIN materials
                                            /\ then[o][i] # worn[o][i] =>
                                                 worn[o][i] \in W /\ then[o][i] = keeper[worn[o][i]]
    <3>1. CASE o \in objs
      <4>1. then[o] = [i \in 1 .. Len(worn[o]) |-> keeper[worn[o][i]]]
        BY <1>7, <3>1
      <4>2. \A i \in DOMAIN worn[o] : worn[o][i] \in W
        BY <1>6, <3>1
      <4> HIDE DEF then
      <4> QED BY <1>5, <1>7, <4>1, <4>2
    <3>2. CASE o \notin objs
      <4>1. then[o] = worn[o]
        BY <3>2
      <4> HIDE DEF then
      <4> QED BY <1>7, <4>1
    <3> QED BY <3>1, <3>2
  <2> QED BY <2>1, <2>2
<1>9. \A o \in Bodies : \A i \in DOMAIN then[o] : then[o][i] \notin gone
  BY DEF Dropped
<1> HIDE DEF then, gone
<1>10. MergesAlike
  <2> SUFFICES ASSUME NEW o \in Bodies, NEW i \in DOMAIN worn[o], worn[o][i] # worn'[o][i]
               PROVE  /\ Comparable(worn[o][i]) /\ Comparable(worn'[o][i])
                      /\ materials[worn[o][i]].colour - materials[worn'[o][i]].colour \in -2 * Tolerance .. 2 * Tolerance
    BY DEF MergesAlike
  <2>1. worn' = then
    BY <1>1
  <2>2. worn[o][i] \in W /\ worn'[o][i] = keeper[worn[o][i]]
    BY <1>8, <2>1
  <2> QED BY <1>3, <1>4, <2>2
<1>11. OthersStay
  BY <1>2 DEF OthersStay
<1>12. /\ materials' = [n \in DOMAIN materials' |-> materials'[n]] /\ DOMAIN materials' \subseteq DOMAIN materials
       /\ \A n \in DOMAIN materials' : materials'[n] = materials[n]
  <2>1. CASE materials' = materials
    BY <2>1 DEF DeskInv
  <2>2. CASE materials' = [n \in DOMAIN materials \ gone |-> materials[n]]
    BY <2>2
  <2> QED BY <1>1, <2>1, <2>2
<1>13. DOMAIN worn' = Bodies /\ \A o \in Bodies : worn'[o] \in Seq(DOMAIN materials')
  <2>1. CASE materials' = materials /\ worn' = worn
    BY <2>1 DEF DeskInv
  <2>2. CASE worn' = then /\ materials' = [n \in DOMAIN materials \ gone |-> materials[n]]
    <3> SUFFICES ASSUME NEW o \in Bodies PROVE then[o] \in Seq(DOMAIN materials \ gone)
      BY <1>8, <2>2
    <3>1. \A i \in 1 .. Len(worn[o]) : then[o][i] \in DOMAIN materials \ gone
      BY <1>7, <1>8, <1>9
    <3>2. then[o] = [i \in 1 .. Len(worn[o]) |-> then[o][i]] /\ Len(worn[o]) \in Nat
      BY <1>7, <1>8
    <3> DEFINE s == then[o]
               k == Len(worn[o])
               D == DOMAIN materials \ gone
    <3>3. k \in Nat /\ s = [i \in 1 .. k |-> s[i]] /\ \A i \in 1 .. k : s[i] \in D
      BY <3>1, <3>2
    <3> HIDE DEF s, k, D
    <3>4. s \in [1 .. k -> D]
      BY <3>3
    <3>5. s \in Seq(D)
      BY <3>3, <3>4
    <3> QED BY <3>5 DEF s, D
  <2> QED BY <1>1, <2>1, <2>2
<1>14. FewMade' /\ changes' \in Nat
  BY <1>2, <1>12, FewStay
<1>15. DeskInv'
  <2>1. \A n \in DOMAIN materials' : materials'[n] \in Looks
    BY <1>12 DEF DeskInv
  <2>2. DOMAIN materials' \subseteq AllNames /\ bake' \in [selected : {FALSE}, lit : BOOLEAN]
    BY <1>1, <1>12 DEF DeskInv
  <2> QED BY <1>12, <1>13, <1>14, <2>1, <2>2 DEF DeskInv
<1> QED BY <1>10, <1>11, <1>15 DEF Managed

-----------------------------------------------------------------------------
LEMMA DeskBegins == ASSUME MaterialsInit PROVE DeskInv
<1>1. PICK looks \in Imports :
       /\ materials = [name \in {Imported(n) : n \in DOMAIN looks} |->
                         Plain(looks[CHOOSE n \in DOMAIN looks : Imported(n) = name])]
       /\ worn = [o \in Bodies |->
                           IF o = Things[1] THEN [n \in DOMAIN looks |-> Imported(n)]
                           ELSE [n \in 1 .. (IF looks = <<>> THEN 0 ELSE 1) |-> Imported(Len(looks))]]
  BY DEF MaterialsInit
<1>2. looks \in Seq(Int) /\ Len(looks) \in Nat /\ DOMAIN looks = 1 .. Len(looks) /\ \A n \in DOMAIN looks : looks[n] \in Int
  BY LooksAreNumbers
<1>3. materials = [n \in DOMAIN materials |-> materials[n]] /\ DOMAIN materials = {Imported(n) : n \in DOMAIN looks}
  BY <1>1
<1>4. DOMAIN materials \subseteq ImportedNames
  BY <1>3 DEF ImportedNames
<1>5. \A n \in DOMAIN materials : materials[n] \in Looks
  <2> SUFFICES ASSUME NEW name \in DOMAIN materials PROVE materials[name] \in Looks
    OBVIOUS
  <2> DEFINE k == CHOOSE n \in DOMAIN looks : Imported(n) = name
  <2>1. k \in DOMAIN looks
    BY <1>3
  <2>2. materials[name] = Plain(looks[k])
    BY <1>1, <1>3
  <2> HIDE DEF k
  <2> QED BY <1>2, <2>1, <2>2, PlainLooks
<1>6. DOMAIN worn = Bodies /\ \A o \in Bodies : worn[o] \in Seq(DOMAIN materials)
  <2> SUFFICES ASSUME NEW o \in Bodies PROVE worn[o] \in Seq(DOMAIN materials)
    BY <1>1
  <2>1. CASE o = Things[1]
    <3>1. worn[o] = [n \in 1 .. Len(looks) |-> Imported(n)]
      BY <1>1, <1>2, <2>1
    <3>2. \A n \in 1 .. Len(looks) : Imported(n) \in DOMAIN materials
      BY <1>2, <1>3
    <3> QED BY <1>2, <3>1, <3>2
  <2>2. CASE o # Things[1] /\ looks = <<>>
    <3>1. worn[o] = [n \in 1 .. 0 |-> Imported(Len(looks))]
      BY <1>1, <2>2
    <3> QED BY <3>1
  <2>3. CASE o # Things[1] /\ looks # <<>>
    <3>1. worn[o] = [n \in 1 .. 1 |-> Imported(Len(looks))]
      BY <1>1, <2>3
    <3>2. Len(looks) \in DOMAIN looks
      BY <1>2, <2>3
    <3>3. Imported(Len(looks)) \in DOMAIN materials
      BY <1>3, <3>2
    <3> QED BY <3>1, <3>3
  <2> QED BY <2>1, <2>2, <2>3
<1>7. bake \in [selected : {FALSE}, lit : BOOLEAN] /\ changes = 0
  BY DEF MaterialsInit
<1>8. FewMade
  <2>1. Made = {}
    BY <1>4 DEF Made
  <2> QED BY <1>7, <2>1, FS_EmptySet DEF FewMade
<1>9. DOMAIN materials \subseteq AllNames
  BY <1>4 DEF AllNames
<1> QED BY <1>3, <1>5, <1>6, <1>7, <1>8, <1>9 DEF DeskInv

LEMMA DeskGoesOn ==
  ASSUME DeskInv, [MaterialsNext]_deskVars
  PROVE  DeskInv' /\ [OthersStay /\ MergesAlike]_deskVars
<1>1. CASE MaterialsNext
  <2>1. changes < MaxChanges
    BY <1>1 DEF MaterialsNext
  <2>2. ASSUME NEW o \in Bodies, Make(o) PROVE Managed
    <3>1. ASSUME NEW name \in Called, NEW colour \in Colours,
                 SetMaterial(o, name, colour) \/ FaceAssign(o, name, colour)
          PROVE  Managed
      BY <2>1, <3>1, SetManages
    <3>2. ASSUME NEW name \in Called, NEW colour \in Colours, NEW pbr \in BOOLEAN, Graph(o, name, colour, pbr)
          PROVE  Managed
      BY <2>1, <3>2, GraphManages
    <3>3. ASSUME NEW stem \in DOMAIN TileName, ReuseTile(o, stem) PROVE Managed
      BY <2>1, <3>3, TileManages
    <3>4. ASSUME NEW stem \in DOMAIN TileName, NEW reuse \in BOOLEAN, NEW ok \in BOOLEAN, BakeTile(o, stem, reuse, ok)
          PROVE  Managed
      BY <2>1, <3>4, TileManages
    <3> QED BY <2>2, <3>1, <3>2, <3>3, <3>4 DEF Make
  <2>3. ASSUME NEW o \in Bodies, Bake(o) PROVE Managed
    BY <2>3, BakeManages
  <2>4. ASSUME NEW objs \in SUBSET Bodies, NEW dry \in BOOLEAN, Consolidate(objs, dry) PROVE Managed
    BY <2>4, ConsolidateManages
  <2> QED BY <1>1, <2>2, <2>3, <2>4 DEF MaterialsNext, Managed
<1>2. CASE UNCHANGED deskVars
  BY <1>2 DEF deskVars, DeskInv, FewMade, Made
<1> QED BY <1>1, <1>2

LEMMA DeskInvHolds == ASSUME DeskInv PROVE SlotsHold
<1>1. \A o \in Bodies : WornBy(o) \subseteq DOMAIN materials
  BY WornIsThere
<1>2. bake \in [selected : {FALSE}, lit : BOOLEAN]
  BY DEF DeskInv
<1>3. ~bake.selected
  BY <1>2
<1> QED BY <1>1, <1>3 DEF SlotsHold

\* ops/material.py: whatever is made, baked and merged, what is worn is there and the mode of a
\* later bake is off; what is made or baked for one object leaves the others, and what is
\* merged is alike.
THEOREM MaterialsAreManaged == MaterialsSpec => []SlotsHold /\ [][OthersStay /\ MergesAlike]_deskVars
BY DeskInvHolds, DeskBegins, DeskGoesOn, PTL DEF MaterialsSpec

-----------------------------------------------------------------------------
(* All of them, side by side. *)

\* What holds of each part, whichever part runs.
ToolsInv ==
  /\ ForgeInv /\ WedgeInv /\ SceneInv /\ RigInv /\ DeskInv /\ HostInv
  /\ part # "scene" => said.op = "ready"

\* A step of one part is a step of it or none of every part.
LEMMA PartsStep ==
  ASSUME [ToolsNext]_toolsVars
  PROVE  /\ [Next]_vars /\ [SceneNext]_sceneVars /\ [RigNext]_rigVars
         /\ [MaterialsNext]_deskVars /\ [HostNext]_hostVars
         /\ part' = part /\ IF part = "scene" THEN UNCHANGED <<rigVars, deskVars>> ELSE UNCHANGED sceneVars
<1>1. CASE UNCHANGED toolsVars
  BY <1>1 DEF toolsVars
<1>2. CASE ToolsNext
  BY <1>2 DEF ToolsNext, OfForge, OfScene, OfRig, OfDesk, OfEngine, OfHost
<1> QED BY <1>1, <1>2

LEMMA ToolsBegin == ToolsInit => ToolsInv
BY ForgeInvInit, WedgeInvInit, SceneBegins, RigBegins, DeskBegins, HostBegins DEF ToolsInit, ToolsInv, SceneInit

LEMMA ToolsGoOn == ToolsInv /\ [ToolsNext]_toolsVars => ToolsInv'
<1> SUFFICES ASSUME ToolsInv, [ToolsNext]_toolsVars PROVE ToolsInv'
  OBVIOUS
<1>1. /\ [Next]_vars /\ [SceneNext]_sceneVars /\ [RigNext]_rigVars
      /\ [MaterialsNext]_deskVars /\ [HostNext]_hostVars
  BY PartsStep
<1>2. ForgeInv' /\ WedgeInv'
  BY <1>1, ForgeInvNext, WedgeInvNext DEF ToolsInv
<1>3. SceneInv' /\ RigInv' /\ HostInv'
  BY <1>1, SceneGoesOn, RigGoesOn, HostGoesOn DEF ToolsInv
<1>4. DeskInv'
  BY <1>1, DeskGoesOn DEF ToolsInv
<1>5. part' # "scene" => said'.op = "ready"
  BY PartsStep DEF ToolsInv, sceneVars
<1> QED BY <1>2, <1>3, <1>4, <1>5 DEF ToolsInv

\* ToolsSafe, for every part and every value of its constants.
THEOREM ToolsAreSafe == ToolsSpec => []ToolsSafe
<1>1. ToolsInv => ToolsSafe
  BY WedgeInvIsSafe, HostInvIsSafe, InvIsSafe, DeskInvHolds DEF ToolsInv, ToolsSafe, RigInv
<1> QED BY <1>1, ToolsBegin, ToolsGoOn, PTL DEF ToolsSpec

\* StudioKeeps, where no name that an export gives is one that it replaces.
THEOREM StudioIsKept == ASSUME RenamesApart PROVE ToolsSpec => StudioKeeps
<1>1. ASSUME ToolsInv, [ToolsNext]_toolsVars
      PROVE  [/\ RestoreExact /\ JoinAsAsked /\ ExportLeavesMaster
              /\ LeavesTheMaster /\ SidecarsDescribe
              /\ OthersStay /\ MergesAlike]_<<sceneVars, rigVars, deskVars>>
  <2>1. /\ [SceneNext]_sceneVars /\ [RigNext]_rigVars /\ [MaterialsNext]_deskVars
        /\ part' = part /\ IF part = "scene" THEN UNCHANGED <<rigVars, deskVars>> ELSE UNCHANGED sceneVars
    BY <1>1, PartsStep
  <2>2. [RestoreExact /\ JoinAsAsked /\ ExportLeavesMaster]_sceneVars
    BY <1>1, <2>1, SceneStepOperates DEF Operated, ToolsInv
  <2>3. [LeavesTheMaster /\ SidecarsDescribe]_rigVars
    BY <1>1, <2>1, PicturesKeep DEF ToolsInv
  <2>4. [OthersStay /\ MergesAlike]_deskVars
    BY <1>1, <2>1, DeskGoesOn DEF ToolsInv
  <2>5. UNCHANGED sceneVars /\ part # "scene" => RestoreExact /\ JoinAsAsked /\ ExportLeavesMaster
    BY <1>1 DEF sceneVars, ToolsInv, RestoreExact, JoinAsAsked, ExportLeavesMaster
  <2>6. UNCHANGED rigVars => LeavesTheMaster /\ SidecarsDescribe
    BY DEF rigVars, LeavesTheMaster, SidecarsDescribe
  <2>7. UNCHANGED deskVars => OthersStay /\ MergesAlike
    BY DEF deskVars, OthersStay, MergesAlike
  <2>8. CASE part = "scene"
    BY <2>1, <2>2, <2>6, <2>7, <2>8
  <2>9. CASE part # "scene"
    BY <2>1, <2>3, <2>4, <2>5, <2>6, <2>7, <2>9
  <2> QED BY <2>8, <2>9
<1> QED BY <1>1, ToolsBegin, ToolsGoOn, PTL DEF ToolsSpec, StudioKeeps
=============================================================================
