---------------------------- MODULE TwinKernels ----------------------------
(***************************************************************************)
(* The Rust kernel beside the Python one.  Native, Wasm and server run the *)
(* Rust kernel, the tools the Python one, and what one of them computed is *)
(* replayed and checked by hash in the other: at every tick SimKernel      *)
(* finishes, RustTick is run from the same world.                          *)
(***************************************************************************)
EXTENDS SimKernel, RustKernel

\* The Rust kernel's tick from the world of the last snapshot.
TwinTick ==
  RustTick(Contracts, Replay.wires, IF Tick = 0 THEN InitialWorld(Replay) ELSE snapshots[Tick],
           Replay.events, Tick)

TwinTicksAgree ==
  [][/\ snapshots' # snapshots => TwinTick = Outcome(world', "none")
     /\ phase \in {"events", "wires", "integrate"} /\ phase' = "failed"
          => TwinTick.error = error']_vars

TwinNavigationAgrees ==
  phase = "done" =>
    blocked = {entity \in DOMAIN Contracts : RustBlocks(Contracts[entity], world[entity].state)}

\* A replay that loads leaves both kernels in the same world after every tick,
\* an event one of them refuses the other refuses with the same code, and from
\* the last world they derive the same navigation ("Divergence between this and
\* the Python twin is the failure mode that matters",
\* services/sim-kernel/src/lib.rs:230).
TwinsAgree == TwinTicksAgree /\ []TwinNavigationAgrees
=============================================================================
