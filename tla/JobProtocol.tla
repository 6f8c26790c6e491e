------------------------------ MODULE JobProtocol -----------------------------
(***************************************************************************)
(* The path of a request through Copperplane, and of the job it may start: *)
(*                                                                         *)
(*   React (lib/ipc.ts)      dispatch, submitJob, dispatchTool, cancel      *)
(*   Rust (daemon.rs)        dispatch_to_daemon on the main thread, and a   *)
(*                           thread that forwards the daemon's stdout       *)
(*   Python (daemon.py)      main's read loop, handle_request, submit_job,  *)
(*                           cancel_job, and one _run_job thread per job    *)
(*                                                                         *)
(* Each of these is an actor here, and every step another actor could see   *)
(* is an action.  A JavaScript event handler, with the promise reactions it *)
(* triggers, is one step: the engine drains its microtasks before the next  *)
(* event.  A request is named by its JSON-RPC id, and a job by the request  *)
(* that started it (submit_job mints a fresh uuid4 for each).               *)
(***************************************************************************)
EXTENDS Integers, Sequences, Pipes

CONSTANTS
    Requests,       \* the ids nextRequestId hands out
    MayAsk,         \* MayAsk[r]: the kinds of request that r may turn out to be
    PipeCapacity,   \* how many lines the stdin pipe, or the stdout pipe, holds
    DaemonMayDie    \* whether the daemon process may die under the app

\* dispatch of a synchronous route; submitJob, or dispatchTool of a tool that is
\* not gated or is confirmed; dispatchTool of a gated tool, unconfirmed; and the
\* job.cancel of a JobHandle.
Kinds == {"sync", "async", "gated", "cancel"}

ASSUME JobProtocolAssumption ==
    /\ MayAsk \in [Requests -> SUBSET Kinds]
    /\ PipeCapacity \in Nat \ {0}
    /\ DaemonMayDie \in BOOLEAN

VARIABLES
    (* React *)
    kind,       \* kind[r]: what r asks for
    target,     \* target[r]: the job a cancellation is about, else r itself
    phase,      \* phase[r]: where dispatch(r) stands
    listening,  \* unlisten # null: the daemon-response listener is registered
    pending,    \* the keys of the Map `pending`
    reply,      \* reply[r]: a response that came before invoke's own reply
    settled,    \* settled[r]: what dispatch, submitJob or dispatchTool gave
    jobs,       \* the keys of the Map `jobs`
    result,     \* result[r]: how the JobHandle's `result` promise settled
    (* Rust *)
    stdin,      \* the lines written to the daemon, not read yet
    stdout,     \* the lines the daemon wrote, not read by the forwarder yet
    events,     \* the daemon-response events emitted, not handled yet
    (* Python *)
    alive,      \* the daemon process runs
    answering,  \* the response main holds and has not written, if any
    JOBS,       \* the keys of the dict JOBS
    cancelSet,  \* the jobs in JOBS whose cancel_event is set
    thread      \* thread[r]: where _run_job for the job of r stands

uiVars == <<kind, target, phase, listening, pending, reply, settled, jobs,
            result>>
daemonVars == <<alive, answering, JOBS, cancelSet, thread>>
vars == <<uiVars, stdin, stdout, events, daemonVars>>

-------------------------------------------------------------------------------
(* What travels, and the states of the actors. *)

\* What a response says: the result of a sync route, a job_id, the status
\* pending_confirmation, or an error.
Bodies == {"ok", "job", "confirm", "error"}

Terminal == {"completed", "failed", "cancelled"}

Response == [type: {"response"}, req: Requests, body: Bodies]
Notification == [type: {"job"}, req: Requests,
                 body: {"progress"} \cup Terminal]
Message == Response \cup Notification

Nothing == [type |-> "nothing"]

Phases == {"idle", "subscribing", "invoking", "writing", "written", "refused",
           "awaiting", "done"}

\* A thread in a terminal state has written its notification; it is over for
\* the daemon when JOBS has lost it.
Threads == {"none", "started", "running", "returned", "raised", "cancelling",
            "failing"} \cup Terminal

RespondWith(r, b) == [type |-> "response", req |-> r, body |-> b]
Notify(r, s) == [type |-> "job", req |-> r, body |-> s]

Init ==
    /\ kind = [r \in Requests |-> "sync"]
    /\ target = [r \in Requests |-> r]
    /\ phase = [r \in Requests |-> "idle"]
    /\ listening = FALSE
    /\ pending = {}
    /\ reply = [r \in Requests |-> "none"]
    /\ settled = [r \in Requests |-> "none"]
    /\ jobs = {}
    /\ result = [r \in Requests |-> "none"]
    /\ stdin = <<>>
    /\ stdout = <<>>
    /\ events = <<>>
    /\ alive = TRUE
    /\ answering = Nothing
    /\ JOBS = {}
    /\ cancelSet = {}
    /\ thread = [r \in Requests |-> "none"]

-------------------------------------------------------------------------------
(* React: lib/ipc.ts. *)

\* dispatch() up to its first real await: the waiter is registered, then the
\* command is invoked.
Invoke(rs) ==
    /\ pending' = pending \cup rs
    /\ phase' = [r \in Requests |-> IF r \in rs THEN "invoking" ELSE phase[r]]

\* What r asks for.  Only the holder of a JobHandle can cancel.
Ask(r) ==
    \/ /\ \E k \in MayAsk[r] \ {"cancel"}: kind' = [kind EXCEPT ![r] = k]
       /\ UNCHANGED target
    \/ \E j \in Requests:
          /\ "cancel" \in MayAsk[r]
          /\ settled[j] = "job"
          /\ kind' = [kind EXCEPT ![r] = "cancel"]
          /\ target' = [target EXCEPT ![r] = j]

\* ensureListening has nothing to wait for; mutant: nobody waits for it.
HeardAnyway == TRUE
Heard == listening

\* dispatch() takes the next id and awaits ensureListening, which is over at
\* once when the listener is registered.
Dispatch(r) ==
    /\ phase[r] = "idle"
    /\ Ask(r)
    /\ IF Heard
         THEN Invoke({r})
         ELSE /\ phase' = [phase EXCEPT ![r] = "subscribing"]
              /\ UNCHANGED pending
    /\ UNCHANGED <<listening, reply, settled, jobs, result, stdin, stdout,
                   events, daemonVars>>

\* listen() resolved, and every dispatch that waits on it goes on.
Listen ==
    /\ ~listening
    /\ listening' = TRUE
    /\ LET waiting == {r \in Requests: phase[r] = "subscribing"}
       IN waiting # {} /\ Invoke(waiting)
    /\ UNCHANGED <<kind, target, reply, settled, jobs, result, stdin, stdout,
                   events, daemonVars>>

\* Both of dispatch's awaits are over, with b: it returns, and submitJob or
\* dispatchTool goes on to build the handle, all in the same turn.
Return(r, b) ==
    /\ phase' = [phase EXCEPT ![r] = "done"]
    /\ settled' = [settled EXCEPT ![r] = b]
    /\ jobs' = IF b = "job" THEN jobs \cup {r} ELSE jobs

\* The main thread runs one command at a time; while it waits for room in the
\* stdin pipe it runs neither another command nor an event handler.
MainThreadFree == \A r \in Requests: phase[r] # "writing"

\* invoke() resolved: the line is in the daemon's stdin.
InvokeResolves(r) ==
    /\ MainThreadFree
    /\ phase[r] = "written"
    /\ IF reply[r] # "none"
         THEN Return(r, reply[r]) /\ reply' = [reply EXCEPT ![r] = "none"]
         ELSE /\ phase' = [phase EXCEPT ![r] = "awaiting"]
              /\ UNCHANGED <<settled, jobs, reply>>
    /\ UNCHANGED <<kind, target, listening, pending, result, stdin, stdout,
                   events, daemonVars>>

\* invoke() rejected: dispatch throws before its try block, so its entry stays
\* in pending.
InvokeRejects(r) ==
    /\ MainThreadFree
    /\ phase[r] = "refused"
    /\ phase' = [phase EXCEPT ![r] = "done"]
    /\ settled' = [settled EXCEPT ![r] = "rejected"]
    /\ UNCHANGED <<kind, target, listening, pending, reply, jobs, result,
                   stdin, stdout, events, daemonVars>>

\* The listener gets a response: it wakes the waiter of that id, if there is
\* one.
OnResponse(m) ==
    /\ IF m.req \in pending
         THEN /\ pending' = pending \ {m.req}
              /\ IF phase[m.req] = "awaiting"
                   THEN /\ Return(m.req, m.body)
                        /\ UNCHANGED reply
                   ELSE /\ reply' = [reply EXCEPT ![m.req] = m.body]
                        /\ UNCHANGED <<phase, settled, jobs>>
         ELSE UNCHANGED <<pending, phase, settled, jobs, reply>>
    /\ UNCHANGED result

\* The job of a notification has a handle; mutant: it settles a promise that
\* nobody holds yet.
KnownOrNot(m) == TRUE
Known(m) == m.req \in jobs

\* Mutant of OnJobNotification: any update of a job removes its entry.
OnJobNotificationOnce(m) ==
    /\ IF m.req \in jobs
         THEN /\ result' = IF m.body \in Terminal
                             THEN [result EXCEPT ![m.req] = m.body] ELSE result
              /\ jobs' = jobs \ {m.req}
         ELSE UNCHANGED <<result, jobs>>
    /\ UNCHANGED <<pending, phase, settled, reply>>

\* handleJobNotification: an update of a job without an entry is dropped, and
\* progress only reaches listeners, which keep no state here.
OnJobNotification(m) ==
    /\ IF Known(m) /\ m.body \in Terminal
         THEN /\ result' = [result EXCEPT ![m.req] = m.body]
              /\ jobs' = jobs \ {m.req}
         ELSE UNCHANGED <<result, jobs>>
    /\ UNCHANGED <<pending, phase, settled, reply>>

\* The webview handles the oldest event; one that comes before the listener is
\* registered reaches nobody.
Deliver ==
    /\ MainThreadFree
    /\ events # <<>>
    /\ events' = Tail(events)
    /\ LET m == Head(events)
       IN CASE ~listening -> UNCHANGED <<pending, phase, settled, jobs, reply,
                                         result>>
            [] listening /\ m.type = "job" -> OnJobNotification(m)
            [] OTHER -> OnResponse(m)
    /\ UNCHANGED <<kind, target, listening, stdin, stdout, daemonVars>>

-------------------------------------------------------------------------------
(* Rust: daemon.rs. *)

\* write_request: the line goes into the daemon's stdin.
WriteRequest(r) ==
    /\ alive
    /\ Len(stdin) < PipeCapacity
    /\ stdin' = Append(stdin, r)
    /\ phase' = [phase EXCEPT ![r] = "written"]

\* It fails on the broken pipe of a dead daemon; mutant: the error is ignored.
WriteIgnored(r) ==
    /\ ~alive
    /\ phase' = [phase EXCEPT ![r] = "written"]
    /\ UNCHANGED stdin
WriteFails(r) ==
    /\ ~alive
    /\ phase' = [phase EXCEPT ![r] = "refused"]
    /\ UNCHANGED stdin

\* The main thread runs the command dispatch_to_daemon: it writes the line,
\* fails, or waits inside the write for room in the pipe.
RunCommand(r) ==
    /\ MainThreadFree
    /\ phase[r] = "invoking"
    /\ \/ WriteRequest(r)
       \/ WriteFails(r)
       \/ /\ alive /\ Len(stdin) = PipeCapacity
          /\ phase' = [phase EXCEPT ![r] = "writing"]
          /\ UNCHANGED stdin
    /\ UNCHANGED <<kind, target, listening, pending, reply, settled, jobs,
                   result, stdout, events, daemonVars>>

\* The write that waited ends.
ResumeWrite(r) ==
    /\ phase[r] = "writing"
    /\ \/ WriteRequest(r)
       \/ WriteFails(r)
    /\ UNCHANGED <<kind, target, listening, pending, reply, settled, jobs,
                   result, stdout, events, daemonVars>>

\* The forwarding thread turns a line into an event.  emit only queues it, so
\* this thread never waits for the main thread.
Forward ==
    /\ stdout # <<>>
    /\ events' = Append(events, Head(stdout))
    /\ stdout' = Tail(stdout)
    /\ UNCHANGED <<uiVars, stdin, daemonVars>>

-------------------------------------------------------------------------------
(* Python: daemon.py. *)

\* Mutant of WriteLine: without the lock two writers tear each other's lines,
\* and what is read is no message.
WriteLineTorn(m) ==
    /\ Len(stdout) < PipeCapacity
    /\ \/ stdout' = Append(stdout, m)
       \/ stdout' = Append(stdout, Nothing)

\* _write_line: one whole line under _stdout_lock, when the pipe has room.
WriteLine(m) ==
    /\ Len(stdout) < PipeCapacity
    /\ stdout' = Append(stdout, m)

\* submit_job: the job is registered and its thread started, before the
\* response that carries its id exists.
SubmitJob(r) ==
    /\ JOBS' = JOBS \cup {r}
    /\ thread' = [thread EXCEPT ![r] = "started"]
    /\ UNCHANGED cancelSet

\* cancel_job: sets the event of a job that is still registered.
CancelJob(r) ==
    /\ cancelSet' = IF target[r] \in JOBS THEN cancelSet \cup {target[r]}
                                         ELSE cancelSet
    /\ UNCHANGED <<JOBS, thread>>

\* The request runs a job: its route is async, or agent.dispatch_tool finds that
\* its tool is not gated or is confirmed.  Mutant: the gate is missing.
RunsUngated(r) == kind[r] \in {"async", "gated"}
RunsJob(r) == kind[r] = "async"

\* main reads a line and runs handle_request on it, start to end, on the only
\* thread that reads.  Any request but a cancellation may be refused before it
\* does anything (no such method, parameters that do not fit, the route raises).
HandleRequest ==
    /\ alive
    /\ answering = Nothing
    /\ stdin # <<>>
    /\ stdin' = Tail(stdin)
    /\ LET r == Head(stdin)
       IN \/ /\ kind[r] = "sync"
             /\ answering' = RespondWith(r, "ok")
             /\ UNCHANGED <<JOBS, cancelSet, thread>>
          \/ /\ kind[r] = "gated"
             /\ answering' = RespondWith(r, "confirm")
             /\ UNCHANGED <<JOBS, cancelSet, thread>>
          \/ /\ RunsJob(r)
             /\ SubmitJob(r)
             /\ answering' = RespondWith(r, "job")
          \/ /\ kind[r] = "cancel"
             /\ CancelJob(r)
             /\ answering' = RespondWith(
                    r, IF target[r] \in JOBS THEN "ok" ELSE "error")
          \/ /\ kind[r] # "cancel"
             /\ answering' = RespondWith(r, "error")
             /\ UNCHANGED <<JOBS, cancelSet, thread>>
    /\ UNCHANGED <<uiVars, stdout, events, alive>>

\* main writes the response and goes back to reading.
WriteResponse ==
    /\ alive
    /\ answering # Nothing
    /\ WriteLine(answering)
    /\ answering' = Nothing
    /\ UNCHANGED <<uiVars, stdin, events, alive, JOBS, cancelSet, thread>>

\* A step of _run_job from one place to another.
Thread(r, from, to) ==
    /\ alive
    /\ thread[r] = from
    /\ thread' = [thread EXCEPT ![r] = to]
    /\ UNCHANGED <<uiVars, stdin, events, alive, answering, JOBS, cancelSet>>

EmitProgress(r) ==
    /\ Thread(r, "started", "running")
    /\ WriteLine(Notify(r, "progress"))

\* The route's own work ends, or the result cannot be serialised.
RouteReturns(r) == Thread(r, "running", "returned") /\ UNCHANGED stdout
RouteRaises(r) ==
    /\ Thread(r, "running", "raised") \/ Thread(r, "returned", "raised")
    /\ UNCHANGED stdout

\* What an exception of a job counts as; mutant: always as its cancellation.
VerdictBlind(r) == "cancelling"
Verdict(r) == IF r \in cancelSet THEN "cancelling" ELSE "failing"

\* The except branch: the exception is a cancellation if the event is set now.
JudgeException(r) ==
    /\ Thread(r, "raised", Verdict(r))
    /\ UNCHANGED stdout

\* Mutant of EmitTerminal: writing the outcome raises after the line is out.
EmitTerminalTwice(r) ==
    \/ /\ Thread(r, "returned", "completed")
       /\ WriteLine(Notify(r, "completed"))
    \/ /\ Thread(r, "completed", "failed")
       /\ WriteLine(Notify(r, "failed"))

EmitTerminal(r) ==
    \/ /\ Thread(r, "returned", "completed")
       /\ WriteLine(Notify(r, "completed"))
    \/ /\ Thread(r, "cancelling", "cancelled")
       /\ WriteLine(Notify(r, "cancelled"))
    \/ /\ Thread(r, "failing", "failed")
       /\ WriteLine(Notify(r, "failed"))

\* _run_job has come to its finally.  Mutants: the entry goes before the outcome
\* is written; the entry of a job that raised stays.
OverEarly(r) == thread[r] \in {"returned", "cancelling", "failing"} \cup Terminal
OverIfCompleted(r) == thread[r] = "completed"
Over(r) == thread[r] \in Terminal

\* The finally branch; the event goes with the entry.
ForgetJob(r) ==
    /\ alive
    /\ Over(r)
    /\ r \in JOBS
    /\ JOBS' = JOBS \ {r}
    /\ cancelSet' = cancelSet \ {r}
    /\ UNCHANGED <<uiVars, stdin, stdout, events, alive, answering, thread>>

\* The process dies, by itself or killed by the heartbeat monitor: its threads
\* stop where they are, and what it had not read or written is gone.
DaemonDies ==
    /\ DaemonMayDie
    /\ alive
    /\ alive' = FALSE
    /\ stdin' = <<>>
    /\ answering' = Nothing
    /\ UNCHANGED <<uiVars, stdout, events, JOBS, cancelSet, thread>>

-------------------------------------------------------------------------------
(* The system. *)

\* Nothing moves any more.  A response that never comes, or a job's entry that
\* nobody removes, is left to the liveness properties; a wait that keeps a
\* thread, or a line on its way, is a deadlock.
AtRest ==
    /\ \A r \in Requests:
          /\ \/ phase[r] \in {"done", "awaiting"}
             \/ phase[r] = "idle" /\ MayAsk[r] \subseteq {"cancel"}
          /\ alive => thread[r] \in Terminal \cup {"none"}
    /\ stdin = <<>> /\ stdout = <<>> /\ events = <<>>
    /\ answering = Nothing

JobThread(r) ==
    \/ EmitProgress(r)
    \/ RouteReturns(r)
    \/ RouteRaises(r)
    \/ JudgeException(r)
    \/ EmitTerminal(r)
    \/ ForgetJob(r)

Next ==
    \/ \E r \in Requests:
          \/ Dispatch(r)
          \/ InvokeResolves(r)
          \/ InvokeRejects(r)
          \/ RunCommand(r)
          \/ ResumeWrite(r)
          \/ JobThread(r)
    \/ Listen
    \/ Deliver
    \/ Forward
    \/ HandleRequest
    \/ WriteResponse
    \/ DaemonDies
    \/ AtRest /\ UNCHANGED vars

Spec == Init /\ [][Next]_vars

\* Promises, threads and the event loop keep running; a route's work ends
\* (each is bounded by its own timeout).  Nobody has to dispatch anything, and
\* the daemon need not die.  With finitely many requests the main thread and
\* the pipes are contended for only finitely often, so weak fairness is enough.
Fairness ==
    /\ \A r \in Requests:
          /\ WF_vars(InvokeResolves(r) \/ InvokeRejects(r))
          /\ WF_vars(RunCommand(r))
          /\ WF_vars(ResumeWrite(r))
          /\ WF_vars(JobThread(r))
    /\ WF_vars(Listen)
    /\ WF_vars(Deliver)
    /\ WF_vars(Forward)
    /\ WF_vars(HandleRequest)
    /\ WF_vars(WriteResponse)

FairSpec == Spec /\ Fairness

-------------------------------------------------------------------------------
(* What is checked. *)

\* The type of every variable.
TypeOK ==
    /\ kind \in [Requests -> Kinds]
    /\ target \in [Requests -> Requests]
    /\ phase \in [Requests -> Phases]
    /\ listening \in BOOLEAN
    /\ pending \subseteq Requests
    /\ reply \in [Requests -> Bodies \cup {"none"}]
    /\ settled \in [Requests -> Bodies \cup {"none", "rejected"}]
    /\ jobs \subseteq Requests
    /\ result \in [Requests -> Terminal \cup {"none"}]
    /\ stdin \in Seq(Requests)
    /\ stdout \in Seq(Message)
    /\ events \in Seq(Message)
    /\ alive \in BOOLEAN
    /\ answering \in Response \cup {Nothing}
    /\ JOBS \subseteq Requests
    /\ cancelSet \subseteq Requests
    /\ thread \in [Requests -> Threads]

\* The lines on their way to the webview, the next one to be handled first.
wire == events \o stdout
InFlight == Lines(wire)

\* No terminal notification of r is still on its way.
Told(r) == \A s \in Terminal: Notify(r, s) \notin InFlight

\* A job's promise settles only as its thread ended, and a settled promise has
\* no second verdict on its way (handleJobNotification against _run_job's
\* three emits, of which exactly one must happen).
ResultTruthful ==
    \A r \in Requests:
        result[r] # "none" => result[r] = thread[r] /\ Told(r)

\* What a dispatch returned and what the daemon did with the request agree: a
\* job_id names a job that was started; a request that was answered with an
\* error, with pending_confirmation or with a value, and one that the pipe
\* refused, never started one (handle_request, agent_dispatch_tool's gate).
AnswerTruthful ==
    \A r \in Requests:
        /\ settled[r] = "job" => kind[r] = "async" /\ thread[r] # "none"
        /\ settled[r] \in {"ok", "error", "confirm", "rejected"} =>
              thread[r] = "none"

\* Only a job that somebody asked to cancel is reported as cancelled, whatever
\* exception its route raised (_run_job's except branch, cancel_job).
CancelledOnlyIfAsked ==
    \A r \in Requests:
        thread[r] = "cancelled" =>
            \E c \in Requests: kind[c] = "cancel" /\ target[c] = r

\* A cancellation that fails with "No such job" fails because the job is over,
\* and by then the webview has been sent its outcome: JOBS forgets a job only
\* after the outcome is on the same stdout (the order of emit and JOBS.pop).
CancelRefusedAfterReport ==
    \A r \in Requests:
        kind[r] = "cancel" /\ settled[r] = "error" =>
            thread[target[r]] \in Terminal /\ Told(target[r])

-------------------------------------------------------------------------------
(* The inductive invariant behind the four properties above. *)

\* Somebody holds the response b to r: main, a pipe, dispatch, or its caller.
Says(r, b) ==
    \/ answering = RespondWith(r, b)
    \/ RespondWith(r, b) \in InFlight
    \/ reply[r] = b
    \/ settled[r] = b

\* The daemon has done nothing for r yet.
Untouched(r) == thread[r] = "none" /\ \A b \in Bodies: ~Says(r, b)

\* A request is in stdin only after its write and at most once, and the daemon
\* acts on it only by taking it from there.
RequestReadOnce ==
    \A r \in Requests:
        /\ AtMostOnce(stdin, r)
        /\ r \in Lines(stdin) => Untouched(r)
        /\ phase[r] \in {"idle", "subscribing", "invoking", "writing",
                         "refused"} \/ settled[r] = "rejected" =>
              Untouched(r) /\ r \notin Lines(stdin)
        /\ settled[r] = "rejected" => phase[r] = "done"

\* Whoever holds a response holds a true one.
ResponsesTrue ==
    \A r \in Requests:
        /\ Says(r, "job") => kind[r] = "async" /\ thread[r] # "none"
        /\ \A b \in Bodies \ {"job"}: Says(r, b) => thread[r] = "none"

\* Whoever holds the outcome of a job holds the true one, and there is one.
OutcomesTrue ==
    \A r \in Requests:
        /\ \A s \in Terminal:
              /\ Notify(r, s) \in InFlight => thread[r] = s
              /\ AtMostOnce(wire, Notify(r, s))
        /\ result[r] # "none" => result[r] = thread[r] /\ Told(r)

\* A cancellation leads back to the request that made it.
CancellationsAsked ==
    /\ \A r \in Requests: kind[r] = "cancel" => phase[r] # "idle"
    /\ \A r \in Requests:
          r \in cancelSet \/ thread[r] \in {"cancelling", "cancelled"} =>
              \E c \in Requests: kind[c] = "cancel" /\ target[c] = r

\* Holds initially and is kept by every step.
IInv == /\ RequestReadOnce
        /\ ResponsesTrue
        /\ OutcomesTrue
        /\ CancellationsAsked

-------------------------------------------------------------------------------
(* What the protocol implements, and what must happen. *)

\* The protocol implements JobService: work is what the thread of the request
\* has done, seen is what its caller has been told.
Service == INSTANCE JobService WITH
    work <- [r \in Requests |->
                IF thread[r] \in Terminal \cup {"none"} THEN thread[r]
                                                        ELSE "running"],
    seen <- [r \in Requests |->
                IF phase[r] = "idle" THEN "none"
                ELSE IF settled[r] = "none" THEN "waiting"
                ELSE IF settled[r] # "job" THEN settled[r]
                ELSE IF result[r] = "none" THEN "tracking" ELSE result[r]],
    asked <- {target[r] : r \in {c \in Requests: kind[c] = "cancel"}}

\* Every step of the protocol is a step of the service or invisible to it.
ImplementsService == Service!ServiceSpec

\* Every dispatch returns or throws while the daemon lives, however small the
\* pipes: the main thread, the forwarder and the daemon never wait for each
\* other in a circle.
EveryDispatchSettles ==
    \A r \in Requests: phase[r] # "idle" ~> settled[r] # "none" \/ ~alive

\* A handle that exists before its job reports gets the report, unless the
\* daemon dies.
TrackedJobSettles ==
    \A r \in Requests:
        r \in jobs /\ thread[r] \notin Terminal ~> result[r] # "none" \/ ~alive

\* JOBS empties: no job stays registered for ever (the finally branch).
JobsDrain == \A r \in Requests: r \in JOBS ~> r \notin JOBS \/ ~alive

\* What a caller finds when the daemon is gone: a request that had not reached
\* the pipe is rejected, rather than waiting for ever.
RejectedAfterDeath ==
    \A r \in Requests:
        ~alive /\ phase[r] \in {"subscribing", "invoking", "writing"}
            ~> settled[r] = "rejected"

\* The promise of JobHandle ("Resolves on `job.completed`; rejects on
\* `job.failed` or `job.cancelled`"): every handle settles.
EveryHandleSettles == \A r \in Requests: r \in jobs ~> result[r] # "none"
===============================================================================
