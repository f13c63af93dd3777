# Studio Foundation: formal models

TLA+ modules, TLC configurations and TLAPS proofs about the parts of this
repository that decide something: the deterministic simulation kernel, the
prover of design properties, the content-addressed stores of compiled assets,
entities and worlds, and the client that drives Blender.  The code under `src/` is the reference; where a document says
otherwise, a run shows it (see *Where documents and code differ*).

    tlc -config MCRecipeStore_cache.cfg MCRecipeStore      model-check one run
    tlapm RecipeStore_proofs.tla                           check one proof module

## 1. The system

A *world* is a few JSON documents.  Each entity document (World IR) holds a
recipe for its geometry and a contract for its behaviour.  `worldc` compiles
entities through `bforge` (recipes, run in a headless Blender, into a cache) and
a world by replaying a scenario in the `sim` kernel and proving the world's
declared properties with a search over that same kernel.  Clients render frames
of the kernel through scene bindings.  Apart from this, game clients talk to a
dedicated server, a control API over PostgreSQL and Nakama.

    entity.json -> worldc.compile_entity -> bforge cook() -> Forge client -> Blender daemon
    world.json  -> worldc.compile_world  -> sim kernel run_replay
                                         -> prover.prove -> kernel tick; witness replays
    kernel frames -> scene_binding -> viewer, Godot host
    game client -> ws_transport -> dedicated server session -> application handler
    Nakama rpc -> application backend;   control API -> PostgreSQL

### Inventory

| Component | State | Operations | Talks to | Hard behaviour | What makes it correct |
|---|---|---|---|---|---|
| **Sim kernel** `tools/sim/kernel.py` | world: entity → variables and controls; snapshots | load and type a replay, deliver events, apply wires, integrate, report navigation | read by worldc, prover, hosts | order within a tick, level-triggered wires, i64 saturation, typing that must be complete | what loads never leaves the vocabulary; a tick is a function of the world and the events due; motion never overshoots |
| **Rust kernel** `services/sim-kernel` | as the Python kernel | the same, and memory handed to a Wasm host | conformance corpus | two implementations of one semantics, which read mistyped values differently | the same world after every replay |
| **Prover** `tools/worldc/prover.py` | explored graph, queue, open nodes, budget | breadth-first search, verdicts, witness replays | kernel tick, kernel replay | horizon and budget cut the search anywhere; off-by-ones between ticks and replays | verdicts true of the whole possibility space, or inconclusive; witnesses really run |
| **Recipe cache** `tools/bforge/bforge/recipe.py` | `objects/`, `locks/`, `staging/`, `failures/` on disk, shared by processes | look up, build, self-verify, lock, reuse, quarantine, publish | Forge client | races to publish, kills under the lock, edited entries, waits with a timeout | accepted packages are immutable; a hit is what was accepted; every cook ends |
| **Entity and world compiler** `tools/worldc/worldc.py` | `entity-cache/`, `world-cache/` beside the asset cache | compile_entity, compile_world, prove_world | recipe cache, kernel, prover | three stores that refer to each other by hash, each entry verified by another rule | a proof names artifacts that exist and were checked |
| **bforge client and daemon** `bforge/client.py`, `mcp_server.py`, `runtime/daemon.py` | the Blender process, request ids, the live scene | start, call, script, restart, stop | pipes to Blender | late answers, deadlines between blocking reads, silent restarts with an empty scene | an answer belongs to its request; a lost scene is noticed |
| **bforge scene** `runtime/lib/scene.py`, `ops/session.py`, `ops/export.py`, `ops/gameready.py` | objects, names, parents, snapshots, files | build, rename, parent, join, snapshot, restore, import, export | daemon | names that Blender makes unique by itself; an export renames what it exports and puts it back | nothing but what was asked for changes, and what was put back is what was there |
| **bforge pictures and materials** `ops/render.py`, `lib/mat.py`, `ops/material.py` | hidden objects, materials in slots, lamps, camera, render settings | views, sheets, sprites, impostors; materials, bakes, merges | daemon | everything is shared and put back by hand, also after a failure | a picture shows what was asked for and leaves the master as it was |
| **Engine sources** `engine/scripts`, `tools/godot/export_game.py` | worktrees, caches, templates and their stamps | fetch, build, rebase, record, identity check | git, scons | a failure or a kill after some patches | what is stamped with a series was made from it |
| **Kernel hosts** `studio_core/sim` | the page's one host, a status per object | load, poll, run | Wasm module | a load that never comes back; a second load while the first is under way | ready stays ready; every wait ends |
| **Dedicated server session** `services/dedicated-server`, `shared-protocol`, client in `studio_core/net` | session phase, sequence numbers, channel | handshake, ping, echo, application request, bye | application handler, game client | timeouts, malformed frames, a peer gone between request and answer | nothing is handled before the handshake; one answer per request, in order |
| **Control API** `services/control-api`, `studio_core/session.gd` | PostgreSQL rows, the session a player shows | kv, bootstrap probe, guest session | PostgreSQL | concurrent probes of one row, partial inserts, commits that are not reported | all or nothing; a probe reads its own write |
| **Nakama bridge** `infra/nakama` | none | application rpc | application backend | timeout after the backend acted | never accepted unless the backend said so |
| **Chariot client state** `games/chariot/project/src` | gate, remembered code, socket, panels, board | sign in, join, train, feed, sell, breed | the club's server | reconnections, late and missing events, taps that race a redraw | what is shown is the rider's, and what is fired was confirmed |
| **Scene binding and the C ABI host** `scene_binding.mjs`, `host_abi.py` | none | resolve models and drives, map frames to transforms | kernel frames | ranges, clamps | a drive stays in its range and is monotone |
| **Release, provenance, SBOM** `studio_tools/release.py` | none | read lock files, write inventory | | | |
| **studio-mcp** `tools/studio-mcp` | a pidfile | run other tools | | | |
| **bforge geometry, characters, kits** | a Blender scene | geometry | | floating point | |
| **Asset pipeline, doctor, CI, benchmarks, templates, viewers, browser tests** | files | commands | | | |

## 2. Modules

| Module | Stands for | Uses |
|---|---|---|
| `KernelSemantics` | values, sources, guards, effects, integrators, clauses, the door profile of 0.1 contracts | |
| `KernelLoad` | everything checked before tick 0: contracts, semantics blocks, wires, replays | `KernelSemantics` |
| `SimKernel` | `run_replay`, its loops unrolled: one action per effect, per wire test, per wire delivery, per integrator, per tick end | `KernelTypes` |
| `KernelTick`, `SimTick` | one tick as a function; a replay as atomic ticks (abstract specification) | `KernelLoad` |
| `KernelTypes` | the shape of a contract in a file, the types its variables may come to hold, what the validator leaves open | `KernelTick` |
| `Prover` | `explore`, `check` and `prove` over an abstract graph of worlds | |
| `WorldProver` | the prover's moves, amounts and tick over real contracts; witness replays run by the kernel | `Prover`, `KernelTypes` |
| `ContentStore` | what the cache promises: get, put, keep, evict, damage (abstract specification) | |
| `RecipeStore` | `cook()` run by several processes on one cache directory | `ContentStore` |
| `WorldCompiler` | `compile_entity` and `compile_world` run by several processes over the entity and world stores, above the cache's promise | |
| `RustKernel` | the Rust kernel's interpreter over the same contracts, worlds and replays | `KernelTick` |
| `TwinKernels` | the Rust tick beside the unrolled Python kernel | `SimKernel`, `RustKernel` |
| `ReplayText` | which JSON the loaders of both kernels take, check by check in their order, and the code they refuse it with | |
| `ForgeDaemon` | the MCP server's commands, `Forge` and `daemon.py` over two pipes that hold only so much | |
| `SceneOps` | the scene's objects and names, the session's operations, copies, proxies, exports | |
| `ReviewRig` | the pictures: what a render hides, adds, swaps and puts back | |
| `MaterialDesk` | materials made, found by name, baked, rewired and merged | |
| `EngineSource` | `fetch`, `build`, `rebase`, `record-artifacts` and an export's identity check, as processes over worktrees, caches and templates | |
| `KernelHost` | the page's host of the Wasm kernel and the `StudioSimKernel` objects over it | |
| `WireProtocol`, `DedicatedSession` | what the server takes for a message; one connection from `connect_to` to its end, with the polled Godot client | |
| `ControlApi` | guest sessions, probes and puts over a pool, statement by statement, and `StudioSession` | |
| `NakamaBridge` | `rpcApplicationRequest` with its five seconds | |
| `RiderGate` | the gate, the code it remembers, the authed socket that reconnects | |
| `RiderDesk` | the training panel and the door of the stable | |
| `StableBoard` | the board: sections, buttons of two taps, one request at a time | |
| `RiderDesks` | the two desks side by side | `RiderDesk`, `StableBoard` |
| `SampleContracts` | contracts shared by the runs: doors, a lever, a lamp, chained wires | `KernelLoad` |
| `KernelLemmas` | what is true of the kernel's operators, Python's and Rust's, whatever runs them | `RustKernel`, `KernelTypes`, TLAPS |
| `SimKernel_proofs`, `Worldc_proofs`, `RecipeStore_proofs`, `Forge_proofs`, `Tools_proofs`, `Services_proofs` | theorems (`Worldc_proofs`: the search, the search in the kernel, the compilers; `Forge_proofs`: client, daemon and scene; `Tools_proofs`: the engine's commands, the page's host, the pictures, the materials, and all of `tools`; `Services_proofs`: the API, the bridge, the gate, the desks and the dedicated session) | TLAPS |
| `IntervalInduction` | lemmas: induction over an interval, functions that are recursive over one | TLAPS |
| `MC*` | constants of the runs, and properties that name a run's own replays | |

A definition whose comment starts with *A mutant* is a plausible bug and is used
by no specification: putting it in the place of the definition it imitates must
make a property fail, which shows that the property depends on that code.

### How state and actions correspond to the code

*SimKernel.*  `file` is the replay; `phase` the place in `run_replay`; `world`
the dictionary of states and controls; `snapshots` the recorded worlds;
`event`, `wire`, `act`, `call`, `turn` the loop counters of `run_replay`,
`apply_wires`, `apply_event` and `step_entity`.  `Load` is `load_replay`, the
contract pins and the initial world; `DeliverEvent`, `ApplyNextEffect`,
`TestWire`, `DeliverAct`, `StepIntegrator`, `EndTick`, `Report` are the loop
bodies in the order they run.  A Python exception outside `SimError` is the
error `Crash`.  State hashes are left out: a world stands for its hash.

*Prover.*  `keys`, `depth`, `parent`, `edges` are the lists of `Graph`; `open`
its set of open nodes; `queue`, `node`, `next` the loops of `explore`.
`TakeNode`, `RefusedMove`, `KnownWorld`, `NewWorld`, `BudgetSpent`, `Exhausted`
are the branches of its body; `Judge` is `check` for every claim, with the
witness replayed.  `WorldProver` gives the moves and `StepOf` their meaning with
`KernelTick`: that a problem is a project's is the assumption `ProblemsAreProjects`,
which the run evaluates on its own projects.

*RecipeStore.*  `objects`, `lock`, `staging`, `failures` are the four directories
of the cache; `pc`, `held`, `waits`, `answer`, `cause` the local state of one
`cook()` per process.  What runs without a lock is split where another process
can come between: reading the proof (`LookUp`) and hashing the files
(`Verify`); the build; each attempt at `mkdir` (`Lock`); looking again
(`LookAgain`, where `shutil.move` quarantines); `os.rename` (`Publish`);
`rmdir` (`Unlock`).  `Crash` kills a process anywhere; `Tamper` edits or deletes
what is under an address.  A build is one step that yields the cook's bytes or
fails: what it does happens in a directory nobody else knows.  `tampers` and the
`at` fields are history: they say how often an address had been tampered with
when a package was read, so that *a cook's answer stands* can be stated.

*WorldCompiler.*  A *job* is the document a process was called with: an entity,
or a world that lists entities.  Compiling a world is compiling its entities one
after the other (`compile_world` calls `compile_entity`), then hashing what is
on disk, then publishing.  The steps of `compile_entity` are those another
process can come between: `cook` and the asset's directory it returns
(`Cook`), the asset's proof read again from disk for the
entity's address (`Hash`), the lookup (`LookUp`), recomputing the
checks on the GLB (`Recheck`), the verification of a staged entry (`Verify`),
the lock (waiting for it changes nothing, so
only taking it and giving up are steps), the second look, quarantine and rename,
the release.  The recipe cache
is used through what `ContentStore` says of it: `cook` returns a directory that
holds a valid package at that moment, and anybody may cook it anew later
(`EvictAsset`).  A proof holds the reference to the asset it was made from, and
the checks; an address stands for the hash of document and asset.  Checks are
abstract: all of them, or an edited list.  Reading the proofs of several
entities in `compile_world` is one step.

*RustKernel.*  The operators are `lib.rs`'s functions with `serde_json`'s typed
reads: a value of another type reads as a default, where Python converts it or
raises.  Its loops are written as the Python kernel's are (`Looped`): `RustTick`
is one pass over the ticks.  `TwinKernels` runs it whenever `SimKernel` finishes
a tick, from the world that tick began in (`TwinsAgree`).

*ReplayText.*  A replay file is a good one but for its *faults*: values of another
JSON kind at a place.  A kernel's loader is a sequence of rows (place, kinds it
takes, code); `FirstRefusal` is the first row that does not take what is there.
`PyRows` and `RustRows` are the two loaders, in the order of their source; whole-file
faults (`text`) come first.  Several wrong values of one kind at one place are one.
`Gap` names where the loaders are known to part.  `LoadersAgree` is about the files
without a gap; that each gap is one (`GapsPart`) TLC evaluates before the run
(`GapsAreGaps` in `MCWorldc`).

*ForgeDaemon.*  `script` is what an agent asks of the server, one command after
the other; `ctl` the place in `call_raw`, `start` or `stop`; `processes` every
Blender ever started, with its two pipes, the request it is busy with and its
scene; `current` is `Forge.process`; `late` says that the deadline of the call
is over, which only `Expire` does and the client looks at only between lines
(`Start`, `Wait`).  `Boot`, `Take`, `Dispatch`, `Answer` and `ShutDown` are the
loop of `daemon.py`; a line that is no answer, or that JSON cannot read, is
`Chatter`; `Die` is Blender crashing or being killed.  The two lines of the
startup message are one.  `acks`, `ran` and `sent` are history.  When the agent
hangs up, the server's `finally` stops the daemon.

*SceneOps.*  `scene` holds the objects with an identity, a name (a sequence of
tokens, so that what Blender and `unique_name` append stays visible), a parent,
a mesh and the shapes it was built from.  An operation is one action; it ends
well or with an error, and what it did before the error stays.  `said` is its
answer.  `Export` renames, writes and puts back; `Restart` is a new Blender.

*ReviewRig.*  `hidden`, `slots`, `lamps`, `left`, `camera`, `settings` are what a
picture changes in the scene; `page` is the picture under one path and the one
its sidecar describes.  Each operation is one action whose outcome says where it
failed: on the way to its rendering, in it, or when the picture is saved.  What
a `finally` puts back is put back in each case, what comes after the loop is not.

*MaterialDesk.*  `materials` maps names to what a material looks like and how it
is wired, `worn` the objects to their slots, `bake` the settings of the scene
that a bake changes.  Two appearances are alike within `Tolerance`, which is not
transitive: `Groups` is the order in which `consolidate` forms its groups.

*EngineSource.*  `tree`, `workspace`, `port`, `templates`, `recorded` are the
worktrees and directories the scripts keep; `shells` the commands under way, each
with the place it is at and the lock it has read.  Every step another process or
a kill can come between is an action; `Pull` and `Hand` are the developer.
Nobody pulls or edits under a command that is applying patches; `Unattended` says so.

*KernelHost.*  `host` is `globalThis.studioSimKernel`, `fetching` the load under
way, `kernel` each object's own status.  `Frame` is one frame of an object that
waits; the native backend is one blocking call and is left out.

*DedicatedSession.*  `phase`, `read`, `nextSeq`, `acting` are the session's, `peer`,
`wasOpen`, `signals` the transport's; `up` and `down` what is under way.  A
connection that breaks delivers a prefix.  The caller greets when it is told
that it is connected, and sends or closes as it likes.  `acted` and `posted` are
history.

*ControlApi.*  `at` is the place of each handler, await by await; `written` what a
transaction has written and not committed; the tables hold the call that wrote
each row.  A statement can fail, a commit can be done and not reported, a client
can go away and the handler be dropped.  A put commits by itself, so that it too may be
done and reported failed (`DoneUnreported`).  READ COMMITTED and row locks are as
PostgreSQL documents them.

*NakamaBridge.*  `call` is the request under way, `done` what the backend did with it,
at any time, `reply` what came back over the connection and from whomever, `answer` what
the player was told.  What was done and what was replied are two things: a server in
between may answer with an error status while the request travels on, and a backend
that has acted may answer with a 5xx or a body of another shape (`OwnWord`,
`BackendServes`, `HopReplies`).  `Understood` is what the bridge makes of a reply.

*RiderGate.*  `arrival` is how the rider came; `flow` the request the gate waits
for; `code`, the socket and its frames are the authed client's; `good` the codes
the club accepts now.  The club and the network are the surroundings.

*RiderDesk*, *StableBoard.*  State is what the panels show and hold; actions are
the rider's taps, the club's messages and the timers.  `confirms` is what the
labels on the screen say, `fired` the last request two taps have made.

## 3. Runs

| Run | Bounds | What it shows |
|---|---|---|
| `replays` | every list of 3 commands (8 different ones) against a 0.1 door in 3 states; every 0.2 contract drawn from 4 operations × 4 targets × 11 sources × 5 guards × 2 moved variables × 6 rates, with a clamp whose ends cross for one argument and not for another; lever, gate and lamp with 6 wire lists × 216 command lists × 2 schedules; i64 is −8..7 | types, error codes, `TickRefinement` (the unrolled loops implement `SimTick`), every replay ends (`ReplaysEnd`), `TwinsAgree` (the Rust kernel takes every step to the same world), motion toward the target, wires that cannot fail or count, broken gates hang open |
| `mistyped_door`, `wire_chain` | one door, one chain | findings 1 and 2 |
| `search` | all graphs of 3 worlds with a wait and a refusable verb under 5 pairs of horizon and budget; all forks of 5 worlds under 3; all 3 claim kinds over every subset of 3 worlds | the search's tree (`TreeOfSteps`), depths and completeness to the horizon (`BreadthFirst`), exactness, every verdict and witness |
| `prover_budget` | graphs of 3 worlds | finding 3 |
| `cache` | 3 cooks, 2 addresses, 4 mixes of plain, `--no-cache`, unpinned and refused jobs; 1 retry at the lock, 1 tampering per address, 1 kill | one builder per address, answers stand, builds accounted for, everyone ends, `ContentStore` is implemented |
| `unreadable_entry` | the same | finding 4 |
| `worldc` | the compilers: 2 processes under 5 pairs of jobs (the same world twice, a document of the other's world, one document twice and forced, worlds that fail, an entity that does), 3 documents, 2 of which share an asset, 1 edit of one of the stores, 1 kill, a wait at the lock may end at any time; the prover: doors and a wired lever, gate and lamp under 3 and 2 pairs of bounds; the loaders: every fault of every JSON kind at every place, every file with two faults that differ in place and code, also on two entities out of order, 8 texts | locks; `ChainBinds` (a proof names the asset it was checked on and a world the entities compiled for it, whatever was evicted and cooked anew meanwhile); answers stand; every compile ends; with the kernel's own tick, every witness replay loads and runs to the world it names, and a move refused in any one world that was met, root or not, is refused in all of them (`ExploresTheKernel`); `LoadersAgree`: both kernels refuse the same files with the same code, but for the gaps of section 4, each of which is shown to part them (`GapsAreGaps`) |
| `edited_verdict` | 1 process, 1 document compiled twice, 1 edit | finding 5 |
| `tools` | forge: 4 sessions of 2 to 3 commands, pipes of 1 line each, 2 missed deadlines, 3 lines of chatter, 1 death; scene: 4 operations on 3 objects, 1 restart; pictures: 2 of a master of 3 objects that share meshes; materials: 3 operations on 2 objects and 4 imports; engine: 2 shells, 3 commands, 1 kill, 1 edit by hand, 2 versions of the lock; host: 2 objects, 4 loads | answers belong to their requests and given-up ones never act after a later answer (`CallsAreSettled`), no Blender leaks, scenes keep what was acknowledged, a wedge takes a missed deadline for each line stdin holds and one more; `StudioKeeps`, `ToolsSafe`: an operation changes what it was asked to change and puts back the rest; `EngineKeeps`: a tree that is ready is whole in every file the patches name, a rebase that claims the series holds it, engine sources meet the locked port, and two templates in place are of one build unless one ended between its two renames; every command and wait ends |
| `stamp` | 1 shell, 3 commands | finding 6 |
| `online` | session: 3 texts, 2 connections; API: 3 calls over a pool of 2; bridge: 2 requests; gate: 2 taps on Join, 1 good and 1 bad code; desk: 3 sessions; board: 2 horses, 2 updates | only a hello opens a session, one answer per request in order, at most one result unsent (`SessionSafe`); guests are whole or absent, who is signed in has a row, probes read themselves (`ApiSafe`); accepted means accepted, and a refusal in the backend's own words, or before it was asked, is final (`AnswersAreSure`); one desk at a time, a session left stays left, what fires was confirmed and is the rider's (`DesksSafe`); a kept code opens the stable and a good one is kept (`GateKeeps`); everything waited for ends |

The parts of `tools`, of `online` and of `worldc` share no state: a behaviour of
the run is one of one part (the variable `part`) and the others stay in one of
their initial states, so nothing is lost by not interleaving them.

*Why the bounds are enough.*  A tick's interactions are pairwise (one effect or
wire reading what another wrote), and three commands over two ticks contain every
order of a command, a second one that undoes or repeats it, and a third that
observes; −8..7 is small enough that one addition saturates at either end, and
`Quantum = 4` leaves room above and below it.  The theorems of `SimKernel_proofs`
then hold for every width and every replay.  Three worlds contain a cycle, a dead
end and a branch; five are needed for one world met again at the same depth along
two paths.  Three cooks contain a winner, one who waits for it and one whose
proof was read before either; a fourth meets nothing new, because a cook sees
only the directories.  Two addresses are there because one of the recipes writes
down a requirement that is off (it can never be published) and to see that
addresses do not interfere.  One kill is enough for a lock that stays; one
tampering per address for an entry edited before, between or after the two
lookups.  `MaxWaits` stands for 480 sleeps of 0.25 s: only whether the bound is
met matters.  Two compilers are enough above the cache for the same reason: a
process meets the others only through the stores, and the third party that
evicts or edits is an action of its own.  The pipes hold one line each because
the daemon holds a second request while it works: two requests are then behind
one that is waited for, an order exists that could be wrong, and both pipes can
be full within reach (a real pipe needs some hundreds of given-up calls, or one
large answer).  One death is enough for a daemon lost in a batch, between
commands and during a start; the client treats each alike and keeps nothing
about earlier ones.  Three objects are a parent, a child and a copy, or two that
are joined and one that is not; four operations build three and do something to
them.  Two pictures are one and another over its path.  Three changes to the
materials are one made, one that finds or bakes it, and one that merges.  Two
shells meet in the engine's directories as two compilers do in the stores; one
edit and one kill are before, between or after the patches of a series of two.
Two connections are one and one that must remember nothing of it; three texts
are a first, one that is answered, and one that meets what the answer left.  Of
three calls two are alike and one writes the probe's row; a pool of two keeps the
third waiting.  Two requests to the backend are one and one asked again.

*Deadlock* is not checked, since every system here stops when its work is done;
that they stop is what `Terminates`, `EveryCompileEnds`, `ToolsEnd` and `WaitsEnd`
say.

*Fairness.*  The kernel and the prover are sequential programs: weak fairness of
`Next` says that they keep running.  Cooks are processes: weak fairness of each
`CookStep(c)`, and of each compiler's step, the operating system's scheduling.
The MCP server and Blender are two processes: weak fairness of `ClientStep` and
of the daemons' steps, which also says that an operation ends (`ToolsEnd` is
about such operations; one that does not end blocks the call, see below).  A kernel's object
is asked each frame while somebody awaits it.  The server's task is run by its
runtime, with its timers; a game polls its transport each frame; a handler of the
API that is not dropped runs on and its statements end; Nakama's clock ends a
call after five seconds.  The gate's requests have a limit of 15 s
(`rider_view.gd`), its socket is pumped each frame, a connection opens, is
answered or closes in the end, and the club announces the phases of its races.
Nothing forces a loss, a kill or an
edit.  No property relies on a lock being released by a killed process: waiting
is bounded by the code's own timeout.

## 4. Where documents and code differ

Shown by runs:

1. `mistyped_door`: a 0.1 contract's schema is never typed against the door
   profile (`kernel.py:581`), and a mistyped door variable ends a run in an
   exception without an error code.
2. `wire_chain`: wires that read controls cascade within one tick
   (`kernel.py:891`), where ADR 0024 says one hop per tick.
3. `prover_budget`: a spent budget forgets the queue without marking it open
   (`prover.py:286`); `live` then names soft-locks that are none.
4. `unreadable_entry`: an entry whose `proof.json` is no JSON makes every cook
   of its address raise (`recipe.py:392`, again under the lock at 533), where a
   comment says such entries are rebuilt.
5. `edited_verdict`: under the lock `compile_entity` accepts an entry without
   recomputing its checks (`worldc.py:611`), so an entry with edited checks is
   refused by the lookup and then returned, by this compile and every later one,
   where `world-ir-v0.1.md:120-123` says an edited verdict invalidates it.
6. `stamp`: a build stamps templates with the series of the lock and not with
   what its worktree holds (`engine.py:437`), so a tree left half patched by a
   failed fetch passes an export's identity check.

Met while modelling, and modelled as the code has it:

- a source may name the parameter `navigation`, an object, when it has a default,
  and a navigation rule may name a string variable (`kernel.py:540`, `634`);
  the theorems exclude both (`Covered`);
- neither validator types the navigation rules of a 0.2 contract.  Over a boolean
  Python compares it as 0 or 1 and Rust reads a fully open one (`lib.rs:1278`); a
  `destroyed` that is a non-zero integer exempts in Python (`kernel.py:476`) and not
  in Rust (`lib.rs:1269`).  Of such contracts the two kernels may derive another
  navigation from one world; `KernelsAgree` excludes them (`TypedNavigation`);
- a guard may name the event's argument and then always reads 0 (`kernel.py:365`);
- a negative rate moves a variable away from its target; `IntegratorsMoveToward`
  is about rates that are not negative;
- a level-safe verb whose effect is conditional, or copies a variable, still
  alternates under a wire (`kernel.py:873` looks at the operations only);
- `require_collision: false` is a requirement for `verify_entry` and none for
  `_run_gates`: such a package fails its self-verification (`GatesAgree`,
  `Refused`), where `recipe.py:222` says the gates are exactly those demanded;
- a cook that times out at the lock, or meets an unreadable entry there, leaves
  its staging directory behind; a killed cook's lock stays for ever, and later
  cooks of that address build, wait and fail;
- an `entity_proof.json` that is no JSON, or no object, raises at the lookup
  (`worldc.py:544`), where the comment at 559 has stale or tampered entries fall
  through; only kind and status of the checks are compared (553), not their
  detail, which the comment at 546-547 names too;
- a world already stored under its key is kept unread (`worldc.py:867`): the
  proof returned is right (`ChainBinds`), the one on disk may have been edited;
- a call's deadline is looked at between lines only (`client.py:251`): Blender
  saying nothing blocks the call for as long, where `mcp_server.py:91` offers
  *seconds before giving up*.  A call that was given up stays in the daemon, and
  once both pipes are full nothing but Blender's death frees the server, a
  `restart` included, since `stop` writes first and waits with a timeout after;
- a daemon that died between two commands is replaced without a word
  (`client.py:236`): the rest of the commands run in an empty scene;
- failure directories are named to the second: a second failure of one address
  in that second lands inside the first;
- the two loaders part (`Gap`, `GapIn` in `ReplayText`): Rust takes the entities in
  the order of their names, so that with several bad ones it may name another
  code; it refuses `-0` where an integer is due, `null` for `semantics`, `guards`
  or `when`, a seed or an argument beyond i64 as no integer, the word `NaN` inside
  a string, deep nesting and `1e400`; it accepts any letter in a hash
  (`is_lower_hex_64`), and `initial` values that are no object; Python takes an
  identifier with a line feed at its end (`$` in `IDENTIFIER`), ends in a
  TypeError when a storage is a list or an object, in an AttributeError when the
  initial values of an entity are no object; a `NaN` behind broken JSON has the
  code of what Python meets first; numbers beyond i64, floats and `-0` in the parts
  of a contract that only the hash reads are spelt differently and break the pin;
- an envelope of another version is answered `malformed` (`session.rs`), where
  `PROTOCOL.md:46` speaks of a version mismatch; a transport whose connection
  never opened says nothing (`transport.gd:21` promises a signal) and packets are
  read only while the socket is open; the application handler has no time limit;
- the bridge answers a request whose five seconds are over, whose reply has an error
  status or whose reply has another shape as *rejected* (`index.ts:66-77`, `93-98`),
  though the backend may have accepted it, or may accept it yet.  A player who asks
  again after such an answer may be served twice; the bridge adds nothing by which
  the backend could tell.  `AnswersAreSure` claims nothing of these summaries (`Unsure`), and that
  a well-formed body under 2xx is the backend's own word is assumed of the network and
  the backend (`OwnWord`);
- `StudioSession` signs in again when a login's answer comes after `sign_out`; a
  guest name drawn twice is an error and not another draw;
- `sso.gd:63-66` forgets a good code on a 5xx; a socket's namespace flag outlives
  it; the two-tap confirmation of EXCHANGE cannot be reached
  (`rider_view.gd:649-666`, comment at 692); BREED's confirmation redraws and
  loses the picked pair; a horse sold stays selected; a request is dropped
  without a word while another is under way (`StableClient.send`); a projection
  is drawn under whatever section is shown; *race time: the stable waits*
  (1166) does not hold when horses or an auth:ok come in mid-race;
- a fetch that finds the patched worktree says *reusing verified patched source*
  (`engine.py:123`) of a tree whose fingerprint covers the files named in the patches'
  `diff --git` lines only (`engine.py:75-95`): an edit in any other file of the
  worktree passes, and is compiled into the templates.  `ReadyIsWhole` therefore asks
  of a tree that was found no more than `WholeWhereNamed`;
- `_install_templates` says *atomically* and replaces two files: when the second
  rename fails (`engine.py:510-512`), or the build is killed between the two, a new
  release stays beside the old debug template, under the old stamp.
  `TemplatesBelong` allows that mix, and only for a release whose build ended there
  (`torn`).  Two builds at once, which nothing prevents, can leave one template of
  each; a rebase killed
  in mid-series is reported as `workspace_exists` without conflicts when run
  again; the advice of `engine.py:127-128` fails until `git worktree prune`;
- a second load of the kernel with another URL is silently ignored; the native
  backend's replay file is shared by the processes of a user
  (`sim_kernel.gd:198-219`);
- an export whose `rename` swaps or chains names leaves the master renamed,
  against `export.py:142-143`; `gameready.collision` twice gives a name that
  `NAME_RE` refuses; joining with a mesh named twice frees it and fails; an
  import that fails after `reset_first` leaves an empty scene, a deletion with a
  wrong name what it had deleted before;
- every render deletes the scene's own lights and leaves no camera; a contact
  sheet that fails leaves other objects hidden (`render.py:788`); an output
  directory that cannot be made leaves the rig; a mesh that instances share keeps
  the sheet's wire or checker; a view over a sprite's path leaves its sidecar;
- a bake with pass `ao` or `combined` and `rewire` links nothing and drops the
  graph; after a bake of colours the bake settings stay unlit for the next one;
  `material.tileable` takes any material of its name for its own; a failed bake
  leaves an image node, which keeps `consolidate` away from that material.

## 5. Proofs

The lemmas about the kernel's operators are in `KernelLemmas`, for every proof that runs
a tick.  `SimKernel_proofs` shows type soundness, for every set of files whose contracts
are `Covered`, every i64 range and every number of entities, events and wires.
`Covered` excludes exactly the gaps listed above.  The invariant `IInv` adds to
`TypeOK` that every accepted contract is `Sound` (each guard, effect and
integrator is typed against the schema), which the validator is shown to
establish (`LoadsSound`); without it a step could not be shown to keep its world
typed.  From it follow `TypeCorrect`, `NeverCrashes`, `WiresSafe` and
`MotionIsTowardTarget`.

`KernelImplementsTicks` is `TickRefinement`, for every set of files, covered or
not: the unrolled kernel implements `SimTick`, whose tick is one function of the
world before it (`TickOf`).  The world alone does not tell how much of the tick is
done, so the invariant `TickInv` says it with the function's own loops: `Target` is
the outcome after the events, wires and verbs delivered so far, and the world is
that outcome, or the rest of the effects of the call in progress leads to it
(`OnTheWay`); a wire whose verbs are being delivered was true when it was tested
(`AtWire`); an entity has been through the integrators before its `turn`, none of
which raised (`AtIntegrator`).  A loop of `TickOf` is a recursive function (`Looped`), used
through the equation of one pass (`AffectedPasses`, `ToldPasses`, `ActedPasses`,
`CoupledPasses`, `SteppedPasses`), and after an error nothing changes any more
(`AffectedFails` and the others), so that a step that fails is the failed tick.
Assumed: the lists of a file have lengths (`ReplaysAreFiles`).

`KernelsAgree` is `TwinsAgree`, from both invariants.  On an entry whose values have
their declared types (`Whole`) a typed read takes no default and a conversion is the
identity, so the kernels' sources, guards, effects and integrators have the same
values (`SameResolve`, `SameGuards`, `SameEffect`, `SameIntegrate`); refusals are decided
by the same checks in the same order; and the loops are equal pass by pass, each
keeping entries whole for the next one (`SameEffects`, `SameActed`, `SameWire`,
`SameCoupled`, `SameStep`).  With `TickInv` the Rust tick is then where Python's
steps arrive.  `TypedNavigation` is assumed besides `CoveredFiles`: rules read
integers, and `destroyed` is a boolean where it exempts.

`GatesHangOpen` is `BrokenGateHangsOpen`.  Between the effects of an attack the
gate is broken and not yet commanded open, so the invariant (`GatesHang`) says of
the call in progress which effect comes next: before the third of an attack a
broken gate may hang otherwise, and then that effect's guard holds; and a `close` is
delivered to a whole gate only, which its effects leave whole (`Hanging`).

`HeldVerbsHold` is `HeldVerbsRepeat`.  The effects of a level-safe verb that is not
conditional assign values they do not read.  After `n` effects of a second
delivery the entry has the first's values where one of those `n` assigned, and what the
first left elsewhere (`VerbRepeats`), so the second leaves what the first left; the
invariant `CallKept` adds that the call in progress has come so far by its own effects.

`LoadersTwin` is `LoadersAgree`, for files with any number of faults, entities and
texts.  The rows of the two loaders stand in the same order but take different kinds,
and either has rows the other lacks (the storage, `extra`, `initial of`).  The lists are
cut into pieces: two pieces are `Twins` over the faults of a file when they refuse
it alike, which holds row by row where no fault is a gap (`AllTwins`, `PlainFacts`);
a row that then refuses nothing may stand in one list alone (`TwinsSkip`); twins one after
the other are twins (`TwinsJoin`); and the faults of an entity are those of a file
(`Part`, `OfFacts`), so what holds of one entity holds of all of them, by induction along
the list (`EachAgree`).  The invariant (`VerdictsMeant`) says that a verdict is that of
the file.  Assumed: a fault is a value of one of the kinds, where it may stand
(`FilesAreFiles`, which TLC evaluates on the files of `worldc`).

`Worldc_proofs` shows, for every problem with any number of worlds and moves, all
that the run `search` checks but termination.  The invariant `SearchInv` adds to
the tree (`TreeOfSteps`) that every node is expanded, open, queued or current, with
each move tried either an edge of the graph or refused (`Frontier`), that nothing
waits once the search ended, and that every set closed under the moves that holds
the root holds every explored world (`OnlyReachable`).  From it follow
`TypeCorrect`, `ExploredIsATree`, `ExhaustiveSearchIsExact` and
`ReachVerdictsCorrect`.  `DepthInv` is what breadth first needs on top: nodes are in
the order of their depth (`InOrder`), the queue holds two depths at most
(`InTurn`), edges are moves (`EdgesAreMoves`), and a depth is a distance
(`SearchIsBreadthFirst`).  Distances, paths, replays and the backward closure are
recursive functions over an interval.  The lemma `Recursion` shows that there is
such a function, from the least element of a set of numbers (`LeastOf`, cited from
the library's theorem on the well-founded order of the naturals), so that its
equations can be used; `SetInduction` is induction as a statement about sets.  Both are in `IntervalInduction`.  With
them `WitnessesAreReplayed` follows a witness tick by tick, and
`LiveVerdictsCorrect` counts nodes to show that the backward closure is closed
after as many rounds as there are nodes.

`SearchRunsTheKernel` is `ExploresTheKernel`: what the search finds by its own copy of
the tick is what the kernel does.  It speaks of any project (`ProblemsAreProjects`:
contracts, wires and initial values have passed the kernel's validators, the lists of
a file have lengths, the events to try are finitely many, and a step of the problem is the
kernel's tick with that event) whose contracts are `Covered`, as above.  The invariant is a
set of worlds: those that are typed and in which a door declared without `health`
has none (`Steady`).  The root is one, a step leads from one to another, and
`OnlyReachable`, proved of the search, says that it never leaves such a closed set.
In a steady world no wire and no integrator fails (`CoupledSteady`, `MovedSteady`), and
a delivery fails in one case only, a verb of the 0.1 door in a contract that never declared
the `health` it requires; a tick does not give it one.  So a move refused in any one world the search has met, the
root or the last, is refused in all of them (`RefusalStands`), and where `_step` swallows
a refusal no edge is lost that another world has.  A witness's path is turned into a file that has one event per tick, in
order, except where the path waits (`PathTold`); at tick `t` that file's due events
are the path's move `t` (`EventsOn` is followed as a recursive function), so each tick of
the run is the step the search took (`TickIsStep`), and by induction over the path the
run arrives at the world the verdict names (`WitnessRuns`).  That the file passes the
load checks is `WitnessLoads`: its amounts are in the kernel's range because
`CandidateAmounts` kept those only.

`RecipeStore_proofs` shows, for any number of cooks, addresses, kills and edits,
`TypeCorrect`, `OneBuilderPerAddress` (`LockDiscipline`),
`AcceptedEntriesImmutable` (`AnswersStand`), `BuildsEndSomewhere`
(`BuildsAccountedFor`) and `CacheKeepsPromise`: the protocol implements
`ContentStore`.  `LockDiscipline` is inductive with the types alone.
`AnswersStand` is not: a hit is decided by a proof read earlier, so the invariant
adds that unless somebody tampered with the address since, that proof is still
the one on disk, or the entry has been quarantined, and what is there now, if
anything, is valid (`HeldCurrent`); that stamps are not from the future
(`Stamped`); and that whoever goes to the lock has verified its package and may
store it (`AtWork`).  The refinement maps every step to one step of
`ContentStore` or to a stutter, from the same invariant.  Assumed of the
constants: a cook's build yields one of the contents, spoiled files are none of
them, and the markers `Empty` and `Free` are no package and no cook.

`Worldc_proofs` also shows, for any number of compilers, documents, kills and
edits, `LocksHold` (`LockDiscipline`), `AnswersLast` (`AnswersStand`) and
`ChainHolds` (`ChainBinds`), all from `CompilerInvariant`.  None of the three is
inductive.  A compile uses what it read some steps ago, so the invariant says for
each place what a process holds: the asset its `cook` returned was vouched for
then, and was there (`AtDoc`, `CellsVouch`); a proof it read or wrote is the one on disk unless the
entry was tampered with or quarantined since (`AnswerInv`, as `HeldCurrent` for the
recipe cache); a world's process holds the entity proofs of the documents it is
through with, in order (`Chained`); and every published proof is chained to its asset
(`ChainClosed`).  Assumed: sets of processes and documents that do not hold the
markers (`MarkerAssumption`), and lists of documents that have an end.

`Forge_proofs` shows, for every script, every size of the two pipes and any
number of missed deadlines, lines of chatter and deaths, `NoneLeaks` (`OneBlender`),
`CallsSettle` (`CallsAreSettled`) and `EachBuilds` (`BuildsOnEachOther`).  The
invariant says of each Blender that the ids in its inbox, the request it works on
and the answers in its outbox are in the order they were sent (`InOrder`), that
each answer tells what was done (`TellsTrue`), that what is done stays in the scene
until a reset (`Keeps`) and of the client where each call is (`ClientIsAt`): that an answer
carries the id waited for says nothing by itself about what else is under way.
`WedgesNeedTimeouts` (the conjunct `WedgeNeedsTimeouts` of `ToolsSafe`) is a count.
Client and daemon can only be stuck when stdin is full, and what stands in stdin was
sent by calls whose answers nobody waits for any more.  The invariant keeps the
accounts (`Debt`): what was sent, and the starts and deadlines still running, are no
more than the deadlines missed, the answers heard and the one call that is open.
Assumed: a script is a sequence of commands, and a batch has an operation.

It also shows `SceneIsKept`, for any names, labels and files and any number of objects
and operations: `SceneSafe`, `RestoreExact` and `JoinAsAsked`.  `SceneSafe` alone is
not inductive; the invariant `SceneInv` adds that a snapshot in memory and a saved
asset are scenes of the same kind (`Sound`), since they come back, and that the
names in the last answer are those of objects that are there.  That no object is
above itself is said as `Ringless` says it, that among any objects one hangs from none
of them; the model's walk up to the root, which takes a fixed number of steps, is then
counted to be long enough (`LineIsWhole`).  That `unique_name` finds a free name is
counted too: there are fewer objects than numbers it tries.  `ExportLeavesMaster` holds under `RenamesApart`, that no name an export gives
is one that it replaces: for a map such as `{"big": "Hull", "rock": "big"}` TLC finds
the scene left renamed, because names are put back in the order they were given
(`export.py:209-214`), where `export.py:141-144` says they are restored.  The run's
maps are apart.  Assumed: there are as many distinct numbers to append to a name as
there may be objects (`NamesSuffice`).

`Tools_proofs` shows `EngineIsKept` (`EngineKeeps`, with what its steps may say) for
any number of shells, locks, patches, kills and edits by hand.  The commands take no
lock: what keeps a half-patched tree from being patched by two is that whoever comes
next finds the directory there.  The invariant therefore says of each shell what it
may count on where it is (`AtWork`: as many patches in the tree as it has applied,
the sources it compiles still there, the port in the state it is making it in), that
such a place is one shell's only (`Alone`), and that a state on disk tells of a whole
series, by whichever version of the lock it was written (`TreeIsTrue`); so a fetch
that believes a state is right about every file the patches name; the fingerprint tells
nothing of the others.  Templates of one build need more than that: a build that ends between its
renames leaves its number in `torn`, and the
theorem assumes `OneBuilder`, that a single shell gives `build`.  Without it TLC
finds two installations whose renames cross.  `HostIsSafe` is `HostSafe`, the conjunct
of `ToolsSafe` about the kernel's host, for any number of objects and loads.
`PicturesPutBack` gives what `ToolsSafe` and `StudioKeeps` say of the pictures
(`OnlyWhatIsAsked`, `LeavesTheMaster`, `SidecarsDescribe`) for any scene and any lists.
Its invariant is small; the work is in the loops over a list: that a mesh no other object
of the list shares gets back what it had although the swap saves each object's slots in
turn (`SwappedBackIsSame`), and that a sheet's panels compose to the same
(`SlotsAfterIsSame`, by induction along the panels).  Assumed (`ListsAreLists`): what is
asked for is a sequence, and the proxies are objects of the scene.

`MaterialsAreManaged` shows what `ToolsSafe` and `StudioKeeps` say of the materials
(`SlotsHold`, `OthersStay`, `MergesAlike`) for any objects, names, imports and
appearances and any number of operations.  `principled` ends its search at a variant
that is free or looks as asked; that there is one among those the model looks at is
again a count, since each operation makes one material at most (`FewMade`) and an
import's names are no variant of a given one.  A merge is right because every member
of a group was compared with its first, and a name is in one group only (`Grouped`,
along the list of names worn).  Assumed: names are sequences with a rank and those of
an import are not given ones (`NamesAreApart`), appearances are integers
(`LooksAreNumbers`).

`ToolsAreSafe` is `ToolsSafe` and `StudioIsKept` is `StudioKeeps`, of the
specification the run `tools` checks: they put the invariants of the parts side by
side (`ToolsInv`), with the parts that do not move at their start.  `StudioIsKept`
needs `RenamesApart`.

`Services_proofs` shows `ApiIsSafe` for any number of calls, players and
connections; added are which rows a transaction has written at each of its
places (`Written`), and that what a call answers was committed
(`GuestsAnswered`, `ProbesRead`).  It also shows `AnswersSure` for any
number of requests (`MaxAsked` is a natural number): a request not yet made was neither served
nor replied to, one that was served was accepted or rejected (`ServedIsDone`), and a reply
that is the backend's own word tells which (`WordIsDeed`).  What it rests on is `OwnWord`:
of error statuses and other shapes nothing is assumed, and nothing is claimed.  And it shows `DesksStaySafe` (`DesksSafe`)
for any number of horses, sessions and updates.  `LeftIsLeft` is not inductive: that
the panel swallows one session only is enough because of all that were left only the
last may still be told of, and is then the one to swallow (`Left`).  Nor is
`FiresWereConfirmed`: what says CONFIRM was drawn earlier than the tap, and the
invariant adds that on an open board the armed button, while its window is open, says
so (`Drawn`).  `GateIsKept` is `GateKeeps`, its action property included, for any
codes and any number of taps: added are that the frames a socket holds speak of the
client's code only (`Carries`) and that no client has been started while the gate waits
for a request (`Ordered`).  A socket that closed may have left any number of frames;
that reading them keeps the screen with the store is an induction along them
(`AfterPasses`, `AllRead`).

It shows `SessionIsSafe` for any texts, any number of
connections and wherever they break.  The four parts of `SessionSafe` are about
what the client was told; the invariant adds where each text is between the
caller and the application (`Following`), the numbers of the answers under way
(`Numbered`), the text being acted on (`Acting`) and what was posted, prefix by
prefix of what was acted (`Posted`, `WasTold`).

*Only model-checked:* liveness under fairness and `ENABLED`, which the prover
does not reach: `ReplaysEnd`, `Terminates`, `EveryCompileEnds`, `ToolsEnd` and
`WaitsEnd`.  And that the gaps between the loaders are gaps (`GapsAreGaps`), which is
about single files.  A `live` verdict under a horizon speaks of schedules within the
horizon only, as ADR 0022 says.

## 6. Plan

Done: the kernel, the prover and the recipe cache with their proofs; the Rust
twin, the compilers, the forge, the scene, pictures and materials, the engine's
sources, the kernel's host, and the six parts of `online`.

Proved since: the compilers, the forge's client and daemon, the session, the API,
the bridge, the rider's gate and desks, the engine's commands, the kernel's host, the
scene, the pictures, the materials, the rest of the prover, that the unrolled kernel implements
`SimTick`, all else the run `replays` checks of the kernel and its twin but that
it ends, that what the prover finds is what the kernel does, and that the kernels'
loaders refuse alike.

To prove next: that the compilers and the cache compose (`WorldCompiler` assumes of the
cache what `CacheKeepsPromise` shows).

## 7. Not modelled

*Without state or decisions of their own:* the release inventory and provenance
(`studio_tools`), `studio-mcp` (it runs other tools; its pidfile is written and
read by one developer's commands), `db.py` beyond the probe, the asset pipeline,
`doctor`, continuous integration, benchmarks and templates.

*Geometry:* bforge's kits, characters and meshes, the art sources of the games,
the render images themselves, and the transforms of `scene_binding.mjs` and the
C ABI host.  They compute floating-point numbers in Blender or a browser; TLC
has no such numbers, and rounding them to integers would say nothing about the
code.  They are well over half of the implementation's lines, which is why the
lines named in the map stay below a third of it.

*Gaps smaller than a step:* `WorldCompiler` takes `is_file` and the reading of a proof
(`worldc.py:543-544`) as one step, so a file that goes between the two, which raises,
is not met.  A put that waits for its row while its handler is dropped may in
PostgreSQL still write it later; in `ControlApi` it writes then and there or never.

*Presentation:* viewers, the broadcast view and the crowd of the chariot game,
labels and layouts.  Of the chariot client only what remembers, waits or
reconnects is modelled.
