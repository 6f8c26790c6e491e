------------------------------ MODULE JobService ------------------------------
(***************************************************************************)
(* What the daemon promises a caller of submitJob, dispatchTool or dispatch *)
(* (apps/tauri-ui/src/lib/ipc.ts), with every pipe, thread and promise left *)
(* out: a request is answered at most once, work is started only for a     *)
(* request that is still waiting, a piece of work ends once, as completed,  *)
(* failed or cancelled, it is cancelled only after someone who held its     *)
(* handle asked, and a handle settles, once, with the way its work ended.   *)
(*                                                                         *)
(* JobProtocol implements this specification (JobProtocol!Service).         *)
(***************************************************************************)
CONSTANT Requests       \* the JSON-RPC requests, each with an id of its own

VARIABLES
    work,       \* work[r]: how the work request r started stands
    seen,       \* seen[r]: what the caller of r has been told so far
    asked       \* the requests whose work somebody asked to cancel

serviceVars == <<work, seen, asked>>

Ended == {"completed", "failed", "cancelled"}
Tracked == {"tracking"} \cup Ended

ServiceInit ==
    /\ work = [r \in Requests |-> "none"]
    /\ seen = [r \in Requests |-> "none"]
    /\ asked = {}

Open(r) ==
    /\ seen[r] = "none"
    /\ seen' = [seen EXCEPT ![r] = "waiting"]
    /\ UNCHANGED <<work, asked>>

\* A cancellation is a request too, made by whoever holds the handle of j.
OpenCancel(r, j) ==
    /\ seen[r] = "none"
    /\ seen[j] \in Tracked
    /\ seen' = [seen EXCEPT ![r] = "waiting"]
    /\ asked' = asked \cup {j}
    /\ UNCHANGED work

Start(r) ==
    /\ seen[r] = "waiting"
    /\ work[r] = "none"
    /\ work' = [work EXCEPT ![r] = "running"]
    /\ UNCHANGED <<seen, asked>>

\* An answer that is the whole answer: no work was, or will be, done for it.
Answer(r) ==
    /\ seen[r] = "waiting"
    /\ work[r] = "none"
    /\ \E a \in {"ok", "error", "confirm", "rejected"}:
          seen' = [seen EXCEPT ![r] = a]
    /\ UNCHANGED <<work, asked>>

Track(r) ==
    /\ seen[r] = "waiting"
    /\ work[r] # "none"
    /\ seen' = [seen EXCEPT ![r] = "tracking"]
    /\ UNCHANGED <<work, asked>>

Finish(r) ==
    /\ work[r] = "running"
    /\ \E e \in Ended:
          /\ e = "cancelled" => r \in asked
          /\ work' = [work EXCEPT ![r] = e]
    /\ UNCHANGED <<seen, asked>>

Settle(r) ==
    /\ seen[r] = "tracking"
    /\ work[r] \in Ended
    /\ seen' = [seen EXCEPT ![r] = work[r]]
    /\ UNCHANGED <<work, asked>>

ServiceNext ==
    \E r \in Requests:
        \/ Open(r)
        \/ \E j \in Requests: OpenCancel(r, j)
        \/ Start(r)
        \/ Answer(r)
        \/ Track(r)
        \/ Finish(r)
        \/ Settle(r)

ServiceSpec == ServiceInit /\ [][ServiceNext]_serviceVars
===============================================================================
