----------------------------- MODULE MCJobProtocol ----------------------------
(* Small instances of JobProtocol for TLC. *)
EXTENDS JobProtocol, TLC

CONSTANTS r1, r2, r3

\* Two jobs, or a job and a gated call, and a cancellation of either job.
JobsAndCancel ==
    r1 :> {"async"} @@ r2 :> {"async", "gated"} @@ r3 :> {"cancel"}

\* One job among two calls: enough lines to fill both pipes.
JobAndCalls == r1 :> {"async"} @@ r2 :> {"gated"} @@ r3 :> {"sync"}

\* A job, and another one, a gated call or a cancellation of the first.
JobAndRival == r1 :> {"async"} @@ r2 :> {"async", "gated", "cancel"}
===============================================================================
