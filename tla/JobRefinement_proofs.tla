-------------------------- MODULE JobRefinement_proofs -------------------------
(***************************************************************************)
(* JobProtocol implements JobService: for any set of requests and any pipe *)
(* capacity, every step of the webview, the main thread, the forwarder and *)
(* the daemon is a step of the service or invisible to it.                 *)
(***************************************************************************)
EXTENDS JobProtocol_proofs

\* The refinement mapping, request by request.
WorkOf(r) == IF thread[r] \in Terminal \cup {"none"} THEN thread[r] ELSE "running"
SeenOf(r) == IF phase[r] = "idle" THEN "none"
             ELSE IF settled[r] = "none" THEN "waiting"
             ELSE IF settled[r] # "job" THEN settled[r]
             ELSE IF result[r] = "none" THEN "tracking" ELSE result[r]
AskedFor == {target[r] : r \in {c \in Requests: kind[c] = "cancel"}}

\* A dispatch has returned when its phase is done, and only one that returned a
\* job has a handle.
ReturnedWhenDone ==
    \A r \in Requests:
        /\ settled[r] # "none" <=> phase[r] = "done"
        /\ r \in jobs \/ result[r] # "none" => settled[r] = "job"

\* It holds initially.
LEMMA ReturnedInitially == Init => ReturnedWhenDone
  BY DEF Init, ReturnedWhenDone

\* What Return does.
LEMMA ReturnKept ==
  ASSUME TypeOK, ReturnedWhenDone, NEW r \in Requests, NEW b \in Bodies,
         settled[r] = "none", Return(r, b), result' = result
  PROVE  ReturnedWhenDone'
<1> SUFFICES ASSUME NEW q \in Requests
             PROVE  /\ settled'[q] # "none" <=> phase'[q] = "done"
                    /\ q \in jobs' \/ result'[q] # "none" => settled'[q] = "job"
  BY DEF ReturnedWhenDone
<1>1. CASE q # r
  BY <1>1 DEF TypeOK, ReturnedWhenDone, Return
<1>2. CASE q = r
  <2>1. settled'[r] = b /\ phase'[r] = "done" /\ b # "none"
    BY DEF TypeOK, Return, Bodies
  <2>2. r \in jobs' \/ result'[r] # "none" => b = "job" \/ settled[r] = "job"
    BY DEF ReturnedWhenDone, Return
  <2>3. QED
    BY <1>2, <2>1, <2>2
<1>3. QED
  BY <1>1, <1>2

\* Every step keeps it.
LEMMA ReturnedKept == TypeOK /\ ReturnedWhenDone /\ [Next]_vars => ReturnedWhenDone'
<1> SUFFICES ASSUME TypeOK, ReturnedWhenDone, [Next]_vars
             PROVE  ReturnedWhenDone'
  OBVIOUS
<1>1. ASSUME NEW r \in Requests, Dispatch(r)
      PROVE  ReturnedWhenDone'
  BY <1>1 DEF Dispatch, Invoke, TypeOK, ReturnedWhenDone
<1>2. ASSUME NEW r \in Requests, InvokeResolves(r)
      PROVE  ReturnedWhenDone'
  <2>1. CASE reply[r] # "none"
    <3>1. reply[r] \in Bodies /\ Return(r, reply[r]) /\ result' = result
      BY <1>2, <2>1 DEF InvokeResolves, TypeOK
    <3>2. settled[r] = "none"
      BY <1>2 DEF InvokeResolves, ReturnedWhenDone
    <3>3. QED
      BY <3>1, <3>2, ReturnKept
  <2>2. CASE reply[r] = "none"
    BY <1>2, <2>2 DEF InvokeResolves, TypeOK, ReturnedWhenDone
  <2>3. QED
    BY <2>1, <2>2
<1>3. ASSUME NEW r \in Requests, InvokeRejects(r)
      PROVE  ReturnedWhenDone'
  BY <1>3 DEF InvokeRejects, TypeOK, ReturnedWhenDone
<1>4. ASSUME NEW r \in Requests, RunCommand(r) \/ ResumeWrite(r)
      PROVE  ReturnedWhenDone'
  BY <1>4 DEF RunCommand, ResumeWrite, WriteRequest, WriteFails, TypeOK, ReturnedWhenDone
<1>5. CASE Listen
  BY <1>5 DEF Listen, Invoke, TypeOK, ReturnedWhenDone
<1>6. CASE Deliver
  <2> DEFINE m == Head(events)
  <2>1. m \in Message
    BY <1>6, WireDeliver
  <2>2. CASE UNCHANGED <<phase, settled, jobs, result>>
    BY <2>2 DEF ReturnedWhenDone
  <2>3. CASE listening /\ m.type = "job"
    BY <1>6, <2>1, <2>3, MessageShape DEF Deliver, OnJobNotification, Known, Message, TypeOK,
                                          ReturnedWhenDone
  <2>4. CASE listening /\ m.type # "job"
    <3>1. m.req \in Requests /\ m.body \in Bodies
      BY <2>1, <2>4, MessageShape DEF Message
    <3>2. OnResponse(m)
      BY <1>6, <2>4 DEF Deliver
    <3>3. CASE m.req \in pending /\ phase[m.req] = "awaiting"
      <4>1. Return(m.req, m.body) /\ result' = result /\ settled[m.req] = "none"
        BY <3>1, <3>2, <3>3 DEF OnResponse, ReturnedWhenDone
      <4>2. QED
        BY <3>1, <4>1, ReturnKept
    <3>4. QED
      BY <2>2, <3>2, <3>3 DEF OnResponse
  <2>5. QED
    BY <1>6, <2>2, <2>3, <2>4 DEF Deliver
<1>7. CASE UNCHANGED uiVars
  BY <1>7 DEF uiVars, ReturnedWhenDone
<1>8. QED
  BY <1>1, <1>2, <1>3, <1>4, <1>5, <1>6, <1>7, ThreadMoves
     DEF Next, Forward, HandleRequest, WriteResponse, DaemonDies, vars

-------------------------------------------------------------------------------
(* The steps of the service, seen request by request. *)

SameWork == \A q \in Requests: WorkOf(q)' = WorkOf(q)
SameSeen == \A q \in Requests: SeenOf(q)' = SeenOf(q)
SeenChanges(r, s) ==
    /\ SeenOf(r)' = s
    /\ \A q \in Requests \ {r}: SeenOf(q)' = SeenOf(q)
WorkChanges(r, w) ==
    /\ WorkOf(r)' = w
    /\ \A q \in Requests \ {r}: WorkOf(q)' = WorkOf(q)

\* The service sees nothing.
LEMMA Invisible ==
  ASSUME SameWork, SameSeen, AskedFor' = AskedFor
  PROVE  UNCHANGED Service!serviceVars
  BY DEF SameWork, SameSeen, SeenOf, WorkOf, AskedFor, Service!serviceVars

\* A change of what one caller is told.
LEMMA SeenStep ==
  ASSUME NEW r \in Requests, NEW s, SameWork, SeenChanges(r, s), AskedFor' = AskedFor,
         \/ SeenOf(r) = "none" /\ s = "waiting"
         \/ SeenOf(r) = "waiting" /\ WorkOf(r) = "none" /\ s \in {"ok", "error", "confirm", "rejected"}
         \/ SeenOf(r) = "waiting" /\ WorkOf(r) # "none" /\ s = "tracking"
         \/ SeenOf(r) = "tracking" /\ WorkOf(r) \in Terminal /\ s = WorkOf(r)
  PROVE  Service!ServiceNext
<1> USE DEF SameWork, SeenChanges, SeenOf, WorkOf, AskedFor
<1>1. CASE SeenOf(r) = "none" /\ s = "waiting"
  <2>1. Service!Open(r)
    BY <1>1 DEF Service!Open
  <2>2. QED
    BY <2>1 DEF Service!ServiceNext
<1>2. CASE /\ SeenOf(r) = "waiting" /\ WorkOf(r) = "none"
           /\ s \in {"ok", "error", "confirm", "rejected"}
  <2>1. [q \in Requests |-> SeenOf(q)'] = [[q \in Requests |-> SeenOf(q)] EXCEPT ![r] = s]
    OBVIOUS
  <2>2. Service!Answer(r)
    BY <1>2, <2>1 DEF Service!Answer
  <2>3. QED
    BY <2>2 DEF Service!ServiceNext
<1>3. CASE SeenOf(r) = "waiting" /\ WorkOf(r) # "none" /\ s = "tracking"
  <2>1. Service!Track(r)
    BY <1>3 DEF Service!Track
  <2>2. QED
    BY <2>1 DEF Service!ServiceNext
<1>4. CASE SeenOf(r) = "tracking" /\ WorkOf(r) \in Terminal /\ s = WorkOf(r)
  <2>1. Service!Settle(r)
    BY <1>4 DEF Service!Settle, Service!Ended, Terminal
  <2>2. QED
    BY <2>1 DEF Service!ServiceNext
<1>5. QED
  BY <1>1, <1>2, <1>3, <1>4

\* A cancellation of a job whose handle somebody holds.
LEMMA CancelStep ==
  ASSUME NEW r \in Requests, NEW j \in Requests, SameWork, SeenChanges(r, "waiting"),
         SeenOf(r) = "none", SeenOf(j) \in {"tracking"} \cup Terminal,
         AskedFor' = AskedFor \cup {j}
  PROVE  Service!ServiceNext
<1> USE DEF SameWork, SeenChanges, SeenOf, WorkOf, AskedFor
<1>1. Service!OpenCancel(r, j)
  BY DEF Service!OpenCancel, Service!Tracked, Service!Ended, Terminal
<1>2. QED
  BY <1>1 DEF Service!ServiceNext

\* Work starts for a request that waits, or ends.
LEMMA WorkStep ==
  ASSUME NEW r \in Requests, NEW w, SameSeen, WorkChanges(r, w), AskedFor' = AskedFor,
         \/ SeenOf(r) = "waiting" /\ WorkOf(r) = "none" /\ w = "running"
         \/ WorkOf(r) = "running" /\ w \in Terminal /\ (w = "cancelled" => r \in AskedFor)
  PROVE  Service!ServiceNext
<1> USE DEF SameSeen, WorkChanges, SeenOf, WorkOf, AskedFor
<1>1. CASE SeenOf(r) = "waiting" /\ WorkOf(r) = "none" /\ w = "running"
  <2>1. Service!Start(r)
    BY <1>1 DEF Service!Start
  <2>2. QED
    BY <2>1 DEF Service!ServiceNext
<1>2. CASE WorkOf(r) = "running" /\ w \in Terminal /\ (w = "cancelled" => r \in AskedFor)
  <2>1. Service!Finish(r)
    BY <1>2 DEF Service!Finish, Service!Ended, Terminal
  <2>2. QED
    BY <2>1 DEF Service!ServiceNext
<1>3. QED
  BY <1>1, <1>2

-------------------------------------------------------------------------------
(* The steps of the protocol. *)

\* A dispatch that returns b tells its caller: the whole answer, or a handle.
LEMMA ReturnRefines ==
  ASSUME TypeOK, IInv, ReturnedWhenDone, NEW r \in Requests, NEW b \in Bodies,
         phase[r] \in {"written", "awaiting"}, Says(r, b), Return(r, b),
         UNCHANGED <<kind, target, result, thread>>
  PROVE  Service!ServiceNext
<1>1. SeenOf(r) = "waiting" /\ result[r] = "none"
  BY DEF ReturnedWhenDone, SeenOf
<1>2. (b = "job" /\ WorkOf(r) # "none") \/ (b # "job" /\ WorkOf(r) = "none")
  BY DEF IInv, ResponsesTrue, WorkOf
<1>3. SameWork /\ AskedFor' = AskedFor
  BY DEF SameWork, WorkOf, AskedFor
<1>4. SeenChanges(r, IF b = "job" THEN "tracking" ELSE b)
  BY <1>1 DEF SeenChanges, SeenOf, Return, TypeOK, Bodies
<1>5. QED
  BY <1>1, <1>2, <1>3, <1>4, SeenStep DEF Bodies

\* A dispatch opens a request.
LEMMA DispatchRefines ==
  ASSUME TypeOK, IInv, ReturnedWhenDone, NEW r \in Requests, Dispatch(r)
  PROVE  Service!ServiceNext
<1>1. /\ phase[r] = "idle" /\ settled[r] = "none" /\ kind[r] # "cancel"
      /\ SeenOf(r) = "none"
  BY DEF Dispatch, ReturnedWhenDone, IInv, CancellationsAsked, SeenOf
<1>2. SameWork /\ UNCHANGED <<settled, result>>
  BY DEF Dispatch, SameWork, WorkOf, daemonVars
<1>3. SeenChanges(r, "waiting")
  BY <1>1, <1>2 DEF Dispatch, Invoke, SeenChanges, SeenOf, TypeOK
<1>4. CASE /\ \E k \in MayAsk[r] \ {"cancel"}: kind' = [kind EXCEPT ![r] = k]
           /\ target' = target
  <2>1. AskedFor' = AskedFor
    BY <1>1, <1>4 DEF AskedFor, TypeOK
  <2>2. QED
    BY <1>1, <1>2, <1>3, <2>1, SeenStep
<1>5. ASSUME NEW j \in Requests, settled[j] = "job",
             kind' = [kind EXCEPT ![r] = "cancel"], target' = [target EXCEPT ![r] = j]
      PROVE  Service!ServiceNext
  <2>1. AskedFor' = AskedFor \cup {j}
    BY <1>1, <1>5 DEF AskedFor, TypeOK
  <2>2. SeenOf(j) \in {"tracking"} \cup Terminal
    BY <1>5 DEF SeenOf, ReturnedWhenDone, TypeOK
  <2>3. QED
    BY <1>1, <1>2, <1>3, <2>1, <2>2, CancelStep
<1>6. QED
  BY <1>4, <1>5 DEF Dispatch, Ask

\* A step of a job's thread ends the work, or is invisible.
LEMMA ThreadRefines ==
  ASSUME TypeOK, IInv, NEW r \in Requests, JobThread(r)
  PROVE  Service!ServiceNext \/ UNCHANGED Service!serviceVars
<1>1. SameSeen /\ AskedFor' = AskedFor
  BY ThreadMoves DEF SameSeen, SeenOf, AskedFor, uiVars
<1>2. \A q \in Requests \ {r}: WorkOf(q)' = WorkOf(q)
  BY ThreadMoves DEF WorkOf
<1>3. CASE EmitTerminal(r)
  <2>1. PICK s \in Terminal: thread' = [thread EXCEPT ![r] = s]
                             /\ (s = "cancelled" => thread[r] = "cancelling")
    BY <1>3 DEF EmitTerminal, Thread, Terminal
  <2>2. WorkOf(r) = "running" /\ WorkOf(r)' = s
    BY <1>3, <2>1 DEF EmitTerminal, Thread, WorkOf, Terminal, TypeOK
  <2>3. s = "cancelled" => r \in AskedFor
    BY <2>1 DEF IInv, CancellationsAsked, AskedFor
  <2>4. QED
    BY <1>1, <1>2, <2>1, <2>2, <2>3, WorkStep DEF WorkChanges
<1>4. CASE ~EmitTerminal(r)
  <2>1. WorkOf(r)' = WorkOf(r)
    BY <1>4 DEF JobThread, EmitProgress, RouteReturns, RouteRaises, JudgeException, Verdict,
                ForgetJob, Thread, WorkOf, Terminal, TypeOK
  <2>2. QED
    BY <1>1, <1>2, <2>1, Invisible DEF SameWork
<1>5. QED
  BY <1>3, <1>4

\* Handling a request starts its work, or is invisible.
LEMMA HandleRefines ==
  ASSUME TypeOK, IInv, ReturnedWhenDone, HandleRequest
  PROVE  Service!ServiceNext \/ UNCHANGED Service!serviceVars
<1>1. PICK r \in Requests: r = Head(stdin) /\ r \in Lines(stdin) /\ Untouched(r)
  BY HandleRequestEffect DEF IInv
<1>2. SameSeen /\ AskedFor' = AskedFor
  BY DEF HandleRequest, uiVars, SameSeen, SeenOf, AskedFor
<1>3. SeenOf(r) = "waiting" /\ WorkOf(r) = "none"
  <2>1. phase[r] # "idle" /\ settled[r] # "rejected"
    BY <1>1 DEF IInv, RequestReadOnce
  <2>2. settled[r] \notin Bodies /\ thread[r] = "none"
    BY <1>1 DEF Untouched, Says
  <2>3. settled[r] = "none"
    BY <1>1, <2>1, <2>2 DEF TypeOK
  <2>4. QED
    BY <2>1, <2>2, <2>3 DEF SeenOf, WorkOf
<1>4. CASE thread' = thread
  BY <1>2, <1>4, Invisible DEF SameWork, WorkOf
<1>5. CASE thread' = [thread EXCEPT ![r] = "started"]
  <2>1. WorkChanges(r, "running")
    BY <1>1, <1>5 DEF WorkChanges, WorkOf, Terminal, TypeOK
  <2>2. QED
    BY <1>1, <1>2, <1>3, <2>1, WorkStep
<1>6. QED
  BY <1>1, <1>4, <1>5 DEF HandleRequest, SubmitJob, CancelJob

\* A delivery settles a handle, returns a response, or is invisible.
LEMMA DeliverRefines ==
  ASSUME TypeOK, IInv, ReturnedWhenDone, Deliver
  PROVE  Service!ServiceNext \/ UNCHANGED Service!serviceVars
<1>1. PICK m \in Message: m = Head(events) /\ m \in InFlight
  BY WireDeliver
<1>1a. PICK r \in Requests: r = m.req
  BY <1>1, MessageShape DEF Message
<1>2. SameWork /\ AskedFor' = AskedFor /\ UNCHANGED <<kind, target, thread>>
  BY DEF Deliver, SameWork, WorkOf, AskedFor, daemonVars
<1>3. CASE UNCHANGED <<phase, settled, result>>
  BY <1>2, <1>3, Invisible DEF SameSeen, SeenOf
<1>4. CASE listening /\ m.type = "job" /\ Known(m) /\ m.body \in Terminal
  <2>1. m = Notify(r, m.body)
    BY <1>1, <1>1a, <1>4, MessageShape DEF Message
  <2>2. /\ UNCHANGED <<phase, settled>> /\ result' = [result EXCEPT ![r] = m.body]
        /\ settled[r] = "job" /\ phase[r] = "done"
    BY <1>1, <1>1a, <1>4 DEF Deliver, OnJobNotification, Known, ReturnedWhenDone
  <2>3. result[r] = "none" /\ thread[r] = m.body
    BY <1>1, <1>4, <2>1 DEF IInv, OutcomesTrue, Told
  <2>4. SeenOf(r) = "tracking" /\ WorkOf(r) = m.body
    BY <1>4, <2>2, <2>3 DEF SeenOf, WorkOf
  <2>5. SeenChanges(r, m.body)
    BY <1>4, <2>1, <2>2 DEF SeenChanges, SeenOf, TypeOK, Terminal
  <2>6. QED
    BY <1>2, <1>4, <2>1, <2>4, <2>5, SeenStep
<1>5. CASE listening /\ m.type # "job" /\ r \in pending /\ phase[r] = "awaiting"
  <2>1. m.body \in Bodies /\ m = RespondWith(r, m.body)
    BY <1>1, <1>1a, <1>5, MessageShape DEF Message
  <2>2. Return(r, m.body) /\ result' = result
    BY <1>1, <1>1a, <1>5 DEF Deliver, OnResponse
  <2>3. Says(r, m.body)
    BY <1>1, <2>1 DEF Says
  <2>4. QED
    BY <1>2, <1>5, <2>1, <2>2, <2>3, ReturnRefines
<1>6. QED
  BY <1>1, <1>1a, <1>3, <1>4, <1>5 DEF Deliver, OnJobNotification, OnResponse

\* Every step is a step of the service, or invisible to it.
LEMMA NextRefines ==
  TypeOK /\ IInv /\ ReturnedWhenDone /\ [Next]_vars =>
      Service!ServiceNext \/ UNCHANGED Service!serviceVars
<1> SUFFICES ASSUME TypeOK, IInv, ReturnedWhenDone, [Next]_vars
             PROVE  Service!ServiceNext \/ UNCHANGED Service!serviceVars
  OBVIOUS
<1>1. ASSUME NEW r \in Requests, InvokeResolves(r)
      PROVE  Service!ServiceNext \/ UNCHANGED Service!serviceVars
  <2>1. UNCHANGED <<kind, target, result, thread>> /\ phase[r] = "written"
    BY <1>1 DEF InvokeResolves, daemonVars
  <2>2. CASE reply[r] # "none"
    <3>1. reply[r] \in Bodies /\ Return(r, reply[r]) /\ Says(r, reply[r])
      BY <1>1, <2>2 DEF InvokeResolves, TypeOK, Says
    <3>2. QED
      BY <2>1, <3>1, ReturnRefines
  <2>3. CASE reply[r] = "none"
    <3>1. SameSeen /\ SameWork /\ AskedFor' = AskedFor
      BY <1>1, <2>1, <2>3 DEF InvokeResolves, SameSeen, SeenOf, SameWork, WorkOf, AskedFor, TypeOK
    <3>2. QED
      BY <3>1, Invisible
  <2>4. QED
    BY <2>2, <2>3
<1>2. ASSUME NEW r \in Requests, InvokeRejects(r)
      PROVE  Service!ServiceNext
  <2>1. phase[r] = "refused" /\ settled[r] = "none" /\ thread[r] = "none"
    BY <1>2 DEF InvokeRejects, ReturnedWhenDone, IInv, RequestReadOnce, Untouched
  <2>2. SeenOf(r) = "waiting" /\ WorkOf(r) = "none"
    BY <2>1 DEF SeenOf, WorkOf
  <2>3. SameWork /\ AskedFor' = AskedFor /\ SeenChanges(r, "rejected")
    BY <1>2 DEF InvokeRejects, SameWork, WorkOf, AskedFor, SeenChanges, SeenOf, TypeOK, daemonVars
  <2>4. QED
    BY <2>2, <2>3, SeenStep
<1>3. CASE \/ \E r \in Requests: RunCommand(r) \/ ResumeWrite(r)
           \/ Listen
  <2>1. UNCHANGED <<kind, target, settled, result, thread>>
    BY <1>3 DEF RunCommand, ResumeWrite, Listen, daemonVars
  <2>2. \A q \in Requests: phase'[q] = "idle" <=> phase[q] = "idle"
    BY <1>3 DEF RunCommand, ResumeWrite, WriteRequest, WriteFails, Listen, Invoke, TypeOK
  <2>3. SameSeen /\ SameWork /\ AskedFor' = AskedFor
    BY <2>1, <2>2 DEF SameSeen, SeenOf, SameWork, WorkOf, AskedFor
  <2>4. QED
    BY <2>3, Invisible
<1>4. CASE UNCHANGED <<uiVars, thread>>
  <2>1. SameSeen /\ SameWork /\ AskedFor' = AskedFor
    BY <1>4 DEF uiVars, SameSeen, SeenOf, SameWork, WorkOf, AskedFor
  <2>2. QED
    BY <2>1, Invisible
<1>5. QED
  BY <1>1, <1>2, <1>3, <1>4, DispatchRefines, ThreadRefines, HandleRefines, DeliverRefines
     DEF Next, Forward, WriteResponse, DaemonDies, vars, daemonVars

\* The initial states are initial states of the service.
LEMMA InitRefines == Init => Service!ServiceInit
  BY DEF Init, Service!ServiceInit

\* What the webview, the main thread, the forwarder and the daemon do together
\* is what JobService promises, for any requests and any pipe capacity, and
\* whether or not the daemon may die.
THEOREM ProtocolImplementsService == Spec => ImplementsService
<1>1. Init => ReturnedWhenDone
  BY ReturnedInitially
<1>2. TypeOK /\ ReturnedWhenDone /\ [Next]_vars => ReturnedWhenDone'
  BY ReturnedKept
<1>3. Spec => []ReturnedWhenDone
  BY <1>1, <1>2, TypeCorrect, PTL DEF Spec
<1>4. TypeOK /\ IInv /\ ReturnedWhenDone /\ [Next]_vars =>
          [Service!ServiceNext]_(Service!serviceVars)
  BY NextRefines
<1>5. Spec => Service!ServiceSpec
  BY <1>3, <1>4, IInvHolds, InitRefines, PTL DEF Spec, Service!ServiceSpec
<1>6. QED
  BY <1>5 DEF ImplementsService
===============================================================================
