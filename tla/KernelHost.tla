----------------------------- MODULE KernelHost -----------------------------
(***************************************************************************)
(* Godot's view onto the simulation kernel in a browser: StudioSimKernel   *)
(* objects (studio_core/sim/sim_kernel.gd) over the one host a page has    *)
(* (sim_kernel_host.js).  The host loads the module once, by a fetch that  *)
(* may fail or never come back; each object keeps a status of its own and  *)
(* asks the host's only while it believes that it is loading.  The host    *)
(* script may be injected again at any load and must leave a host that is  *)
(* there alone.  On other platforms a status is decided when it is loaded  *)
(* and a run is one blocking call, which is left out.                      *)
(***************************************************************************)
EXTENDS Integers

CONSTANTS
  Kernels,  \* the StudioSimKernel objects of the page
  Urls,
  NoUrl,
  MaxLoads

ASSUME LoadsAreCounted == MaxLoads \in Nat /\ NoUrl \notin Urls

VARIABLES
  host,     \* [status, url, wasm]: the host's, and the module it holds
  fetching, \* the url under way, or NoUrl
  kernel,   \* object -> [status, waits, answer]
  loads

hostVars == <<host, fetching, kernel, loads>>

NoHost == [status |-> "none", wasm |-> NoUrl]
Unused == [status |-> "idle", waits |-> FALSE, answer |-> "nothing"]

HostInit ==
  /\ host = NoHost /\ fetching = NoUrl
  /\ kernel = [k \in Kernels |-> Unused]
  /\ loads = 0

-----------------------------------------------------------------------------
(* The host. *)

\* The script registers the host once; another run of it changes nothing.
Registered == IF host = NoHost THEN [NoHost EXCEPT !.status = "idle"] ELSE host

\* A mutant: a load starts over whatever is there.
LoadsAnew(url) == host' = [Registered EXCEPT !.status = "loading"] /\ fetching' = url

\* host.load: nothing to do while it loads and once it is ready.
HostLoads(url) ==
  IF Registered.status \in {"loading", "ready"} THEN host' = Registered /\ UNCHANGED fetching
  ELSE host' = [Registered EXCEPT !.status = "loading"] /\ fetching' = url

\* The fetch, the compilation or the exports fail, or the kernel is there.
FetchEnds ==
  /\ fetching # NoUrl
  /\ fetching' = NoUrl
  /\ host' \in {[host EXCEPT !.status = "error"], [host EXCEPT !.status = "ready", !.wasm = fetching]}
  /\ UNCHANGED <<kernel, loads>>

-----------------------------------------------------------------------------
(* An object. *)

\* status(): the browser owns the truth while loading.
StatusOf(k) ==
  IF kernel[k].status = "loading" THEN host.status ELSE kernel[k].status

\* No bridge, no script in the package, or another contract: the load fails at once.
LoadKernel(k, url) ==
  /\ loads < MaxLoads /\ kernel[k].status \notin {"loading", "ready"}
  /\ loads' = loads + 1
  /\ \/ /\ kernel' = [kernel EXCEPT ![k].status = "error"]
        /\ host' \in {host, Registered} /\ UNCHANGED fetching
     \/ /\ kernel' = [kernel EXCEPT ![k].status = "loading"]
        /\ HostLoads(url)

\* until_ready begins to poll.
Awaits(k) ==
  /\ kernel[k].status = "loading" /\ ~kernel[k].waits
  /\ kernel' = [kernel EXCEPT ![k].waits = TRUE]
  /\ UNCHANGED <<host, fetching, loads>>

\* A mutant: it waits for an answer of the host, however long that takes.
NeverLate(k) == FALSE

\* More than the timeout has passed.
Late(k) == TRUE

\* One frame of until_ready: the wait ends with the loading or with its time.
Frame(k) ==
  /\ kernel[k].waits
  /\ UNCHANGED <<host, fetching, loads>>
  /\ \/ /\ StatusOf(k) # "loading"
        /\ kernel' = [kernel EXCEPT ![k].status = StatusOf(k), ![k].waits = FALSE]
     \/ /\ StatusOf(k) = "loading" /\ Late(k)
        /\ kernel' = [kernel EXCEPT ![k].status = "error", ![k].waits = FALSE]

\* run(): refused unless ready; the host refuses once more on its own status.
Run(k) ==
  /\ UNCHANGED <<host, fetching, loads>>
  /\ kernel' = [kernel EXCEPT ![k].status = StatusOf(k),
                              ![k].answer = IF StatusOf(k) # "ready" THEN "not ready"
                                            ELSE IF host.status # "ready" THEN "host not ready"
                                            ELSE "result"]

HostNext ==
  \/ FetchEnds
  \/ \E k \in Kernels : Awaits(k) \/ Frame(k) \/ Run(k) \/ \E url \in Urls : LoadKernel(k, url)

\* Frames go on; a fetch owes nothing.
HostSpec == HostInit /\ [][HostNext]_hostVars /\ \A k \in Kernels : WF_hostVars(Frame(k))

-----------------------------------------------------------------------------
HostTypeOK ==
  /\ host.status \in {"none", "idle", "loading", "ready", "error"} /\ fetching \in Urls \cup {NoUrl}
  /\ \A k \in Kernels : kernel[k].status \in {"idle", "loading", "ready", "error"}

\* sim_kernel_host.js:26: once an object is ready it stays so, and no load of another one
\* takes the kernel from under it: a run is never refused by the host.
ReadyStays ==
  /\ (host.status = "ready") = (host.wasm # NoUrl)
  /\ \A k \in Kernels :
       /\ kernel[k].status = "ready" => host.status = "ready"
       /\ kernel[k].answer # "host not ready"

\* Only one fetch is under way, and while one is the host says that it is loading.
OneFetch == (host.status = "loading") = (fetching # NoUrl)

HostSafe == HostTypeOK /\ ReadyStays /\ OneFetch

\* until_ready comes back whatever becomes of the fetch.
WaitsForKernelEnd == \A k \in Kernels : kernel[k].waits ~> ~kernel[k].waits
=============================================================================
