--------------------------- MODULE JobProtocol_proofs -------------------------
(***************************************************************************)
(* Proofs about JobProtocol, for any set of requests, any pipe capacity,   *)
(* and a daemon that may die or not.                                       *)
(***************************************************************************)
EXTENDS JobProtocol, Pipes_proofs

\* The initial values have their types.
LEMMA InitType == Init => TypeOK
<1> SUFFICES ASSUME Init PROVE TypeOK
  OBVIOUS
<1>1. <<>> \in Seq(Requests) /\ <<>> \in Seq(Message)
  OBVIOUS
<1>2. QED
  BY <1>1 DEF Init, TypeOK, Kinds, Phases, Bodies, Terminal, Threads

\* An empty pipe has its type.
LEMMA EmptyType == ASSUME NEW S PROVE <<>> \in Seq(S)
  OBVIOUS

\* A line appended to a pipe keeps its type.
LEMMA AppendType ==
  ASSUME NEW S, NEW s \in Seq(S), NEW e \in S
  PROVE  Append(s, e) \in Seq(S)
  OBVIOUS

\* The first line of a pipe and what follows it keep their types.
LEMMA HeadTailType ==
  ASSUME NEW S, NEW s \in Seq(S), s # <<>>
  PROVE  Head(s) \in S /\ Tail(s) \in Seq(S)
  OBVIOUS

\* Every step keeps the types: one step of the proof per action.
LEMMA NextType == TypeOK /\ [Next]_vars => TypeOK'
<1> SUFFICES ASSUME TypeOK, [Next]_vars
             PROVE  TypeOK'
  OBVIOUS
<1> USE DEF TypeOK, uiVars, daemonVars
<1>1. ASSUME NEW r \in Requests, Dispatch(r)
      PROVE  TypeOK'
  <2> USE DEF Dispatch, Ask
  <2>1. PICK k \in Kinds: kind' = [kind EXCEPT ![r] = k]
    <3>1. MayAsk[r] \subseteq Kinds /\ "cancel" \in Kinds
      BY JobProtocolAssumption DEF Kinds
    <3>2. QED
      BY <1>1, <3>1
  <2>2. kind' \in [Requests -> Kinds]
    BY <2>1
  <2>3. target' \in [Requests -> Requests]
    <3>1. target' = target \/ \E j \in Requests: target' = [target EXCEPT ![r] = j]
      BY <1>1
    <3>2. QED
      BY <3>1
  <2>4. phase' \in [Requests -> Phases]
    BY <1>1 DEF Invoke, Heard, Phases
  <2>5. pending' \subseteq Requests
    BY <1>1 DEF Invoke, Heard
  <2>6. QED
    BY <1>1, <2>2, <2>3, <2>4, <2>5
<1>2. CASE Listen
  BY <1>2 DEF Listen, Invoke, Phases
<1>3. ASSUME NEW r \in Requests, InvokeResolves(r)
      PROVE  TypeOK'
  <2>1. phase' \in [Requests -> Phases]
    BY <1>3 DEF InvokeResolves, Return, Phases
  <2>2. jobs' \subseteq Requests
    BY <1>3 DEF InvokeResolves, Return
  <2>3. reply' \in [Requests -> Bodies \cup {"none"}]
    <3>1. reply' = reply \/ reply' = [reply EXCEPT ![r] = "none"]
      BY <1>3 DEF InvokeResolves, Return
    <3>2. QED
      BY <3>1
  <2>4. settled' \in [Requests -> Bodies \cup {"none", "rejected"}]
    <3>1. CASE reply[r] = "none"
      BY <1>3, <3>1 DEF InvokeResolves
    <3>2. CASE reply[r] # "none"
      <4>1. reply[r] \in Bodies /\ settled' = [settled EXCEPT ![r] = reply[r]]
        BY <1>3, <3>2 DEF InvokeResolves, Return
      <4>2. QED
        BY <4>1
    <3>3. QED
      BY <3>1, <3>2
  <2>5. QED
    BY <1>3, <2>1, <2>2, <2>3, <2>4 DEF InvokeResolves
<1>4. ASSUME NEW r \in Requests, InvokeRejects(r)
      PROVE  TypeOK'
  BY <1>4 DEF InvokeRejects, Phases
<1>5. ASSUME NEW r \in Requests, RunCommand(r)
      PROVE  TypeOK'
  <2>1. Append(stdin, r) \in Seq(Requests)
    BY AppendType
  <2>2. stdin' \in Seq(Requests)
    BY <1>5, <2>1 DEF RunCommand, WriteRequest, WriteFails
  <2>3. phase' \in [Requests -> Phases]
    <3>1. \E p \in {"written", "refused", "writing"}: phase' = [phase EXCEPT ![r] = p]
      BY <1>5 DEF RunCommand, WriteRequest, WriteFails
    <3>2. QED
      BY <3>1 DEF Phases
  <2>4. QED
    BY <1>5, <2>2, <2>3 DEF RunCommand
<1>6. ASSUME NEW r \in Requests, ResumeWrite(r)
      PROVE  TypeOK'
  <2>1. Append(stdin, r) \in Seq(Requests)
    BY AppendType
  <2>2. stdin' \in Seq(Requests)
    BY <1>6, <2>1 DEF ResumeWrite, WriteRequest, WriteFails
  <2>3. phase' \in [Requests -> Phases]
    <3>1. \E p \in {"written", "refused"}: phase' = [phase EXCEPT ![r] = p]
      BY <1>6 DEF ResumeWrite, WriteRequest, WriteFails
    <3>2. QED
      BY <3>1 DEF Phases
  <2>4. QED
    BY <1>6, <2>2, <2>3 DEF ResumeWrite
<1>7. ASSUME NEW r \in Requests, JobThread(r)
      PROVE  TypeOK'
  <2>1. ASSUME NEW s \in {"progress"} \cup Terminal, WriteLine(Notify(r, s))
        PROVE  stdout' \in Seq(Message)
    <3>1. Notify(r, s) \in Message
      BY DEF Notify, Message, Notification
    <3>2. QED
      BY <2>1, <3>1, AppendType DEF WriteLine
  <2>2. CASE EmitProgress(r)
    BY <2>2, <2>1 DEF EmitProgress, Thread, Threads
  <2>3. CASE RouteReturns(r) \/ RouteRaises(r) \/ JudgeException(r)
    BY <2>3 DEF RouteReturns, RouteRaises, JudgeException, Verdict, Thread, Threads
  <2>4. CASE EmitTerminal(r)
    BY <2>4, <2>1 DEF EmitTerminal, Thread, Threads, Terminal
  <2>5. CASE ForgetJob(r)
    BY <2>5 DEF ForgetJob
  <2>6. QED
    BY <1>7, <2>2, <2>3, <2>4, <2>5 DEF JobThread
<1>8. CASE Deliver
  <2>1. Head(events) \in Message /\ Tail(events) \in Seq(Message)
    BY <1>8, HeadTailType DEF Deliver
  <2>2. CASE ~listening
    BY <1>8, <2>1, <2>2 DEF Deliver
  <2>3. CASE listening /\ Head(events).type = "job"
    BY <1>8, <2>1, <2>3 DEF Deliver, OnJobNotification, Known, Message, Response,
       Notification
  <2>4. CASE listening /\ Head(events).type # "job"
    <3>1. Head(events) \in Response
      BY <2>1, <2>4 DEF Message, Notification
    <3>2. OnResponse(Head(events))
      BY <1>8, <2>4 DEF Deliver
    <3>3. Head(events).req \in Requests /\ Head(events).body \in Bodies
      BY <3>1 DEF Response
    <3>4. UNCHANGED <<kind, target, listening, stdin, stdout, daemonVars>>
          /\ events' = Tail(events)
      BY <1>8 DEF Deliver
    <3>5. UNCHANGED result /\ pending' \subseteq pending
      BY <3>2 DEF OnResponse
    <3>6. phase' \in [Requests -> Phases] /\ jobs' \subseteq Requests
      BY <3>2, <3>3 DEF OnResponse, Return, Phases
    <3>7. settled' \in [Requests -> Bodies \cup {"none", "rejected"}]
          /\ reply' \in [Requests -> Bodies \cup {"none"}]
      BY <3>2, <3>3 DEF OnResponse, Return
    <3>8. QED
      BY <2>1, <3>4, <3>5, <3>6, <3>7
  <2>5. QED
    BY <2>2, <2>3, <2>4
<1>9. CASE Forward
  <2>1. Head(stdout) \in Message /\ Tail(stdout) \in Seq(Message)
    BY <1>9, HeadTailType DEF Forward
  <2>2. QED
    BY <1>9, <2>1, AppendType DEF Forward
<1>10. CASE HandleRequest
  <2> DEFINE r == Head(stdin)
  <2>1. r \in Requests /\ Tail(stdin) \in Seq(Requests)
    BY <1>10, HeadTailType DEF HandleRequest
  <2>2. \A b \in Bodies: RespondWith(r, b) \in Response
    BY <2>1 DEF RespondWith, Response
  <2>3. answering' \in Response
    BY <1>10, <2>1, <2>2 DEF HandleRequest, RunsJob, Bodies
  <2>4. JOBS' \subseteq Requests /\ cancelSet' \subseteq Requests
        /\ thread' \in [Requests -> Threads]
    BY <1>10, <2>1 DEF HandleRequest, RunsJob, SubmitJob, CancelJob, Threads
  <2>5. QED
    BY <1>10, <2>1, <2>3, <2>4 DEF HandleRequest
<1>11. CASE WriteResponse
  <2>1. answering \in Message
    BY <1>11 DEF WriteResponse, Message
  <2>2. QED
    BY <1>11, <2>1, AppendType DEF WriteResponse, WriteLine
<1>12. CASE DaemonDies
  BY <1>12, EmptyType DEF DaemonDies
<1>13. CASE UNCHANGED vars
  BY <1>13 DEF vars
<1>14. QED
  BY <1>1, <1>2, <1>3, <1>4, <1>5, <1>6, <1>7, <1>8, <1>9, <1>10, <1>11,
     <1>12, <1>13 DEF Next

\* Every variable keeps its type, whatever the requests are and whoever dies.
THEOREM TypeCorrect == Spec => []TypeOK
<1>1. QED
  BY InitType, NextType, PTL DEF Spec

-------------------------------------------------------------------------------
(* The wire, and who holds a response. *)

\* Messages of the two types differ, and each is determined by its fields.
LEMMA MessageShape ==
  /\ \A m \in Response: /\ m = RespondWith(m.req, m.body)
                        /\ m.type = "response"
                        /\ m.req \in Requests /\ m.body \in Bodies
  /\ \A m \in Notification: /\ m = Notify(m.req, m.body)
                            /\ m.type = "job"
                            /\ m.req \in Requests
                            /\ m.body \in {"progress"} \cup Terminal
  /\ \A r \in Requests: \A b \in Bodies: RespondWith(r, b) \in Response
  /\ \A r \in Requests: \A t \in {"progress"} \cup Terminal:
        Notify(r, t) \in Notification
  /\ \A r, q, b, t: RespondWith(r, b) # Notify(q, t)
  /\ \A r, q, b, t: RespondWith(r, b) = RespondWith(q, t) => r = q /\ b = t
  /\ \A r, q, b, t: Notify(r, b) = Notify(q, t) => r = q /\ b = t
  /\ \A r, b: RespondWith(r, b) # Nothing
  BY DEF Response, Notification, RespondWith, Notify, Nothing

\* The wire is a sequence of messages.
LEMMA WireType == TypeOK => wire \in Seq(Message)
  BY ConcatProperties DEF TypeOK, wire

\* A written line joins the wire at its end.
LEMMA WireWrite ==
  ASSUME TypeOK, NEW m \in Message, WriteLine(m), UNCHANGED events
  PROVE  wire' = Append(wire, m) /\ InFlight' = InFlight \cup {m}
<1>1. wire' = Append(wire, m)
  BY ConcatAppend DEF TypeOK, wire, WriteLine
<1>2. Lines(Append(wire, m)) = Lines(wire) \cup {m}
  BY WireType, LinesAppend
<1>3. QED
  BY <1>1, <1>2 DEF InFlight

\* Forwarding does not change the wire.
LEMMA WireForward ==
  ASSUME TypeOK, Forward
  PROVE  wire' = wire /\ InFlight' = InFlight
<1>1. wire' = wire
  BY ConcatMove DEF TypeOK, wire, Forward
<1>2. QED
  BY <1>1 DEF InFlight

\* Delivery takes the first line of the wire.
LEMMA WireDeliver ==
  ASSUME TypeOK, Deliver
  PROVE  /\ wire # <<>> /\ Head(wire) = Head(events) /\ wire' = Tail(wire)
         /\ Head(events) \in InFlight /\ InFlight' \subseteq InFlight
         /\ Head(events) \in Message
<1>1. wire # <<>> /\ Head(wire) = Head(events) /\ wire' = Tail(wire)
  BY ConcatTake DEF TypeOK, wire, Deliver
<1>2. Head(wire) \in Lines(wire) /\ Lines(Tail(wire)) \subseteq Lines(wire)
  BY <1>1, WireType, LinesHeadTail
<1>3. Head(events) \in Message
  BY HeadTailType DEF TypeOK, Deliver
<1>4. QED
  BY <1>1, <1>2, <1>3 DEF InFlight

\* Only handle_request makes a response: any other step moves one, or loses it.
LEMMA ResponsesMove ==
  ASSUME TypeOK, [Next]_vars, ~HandleRequest,
         NEW r \in Requests, NEW b \in Bodies, Says(r, b)'
  PROVE  Says(r, b)
<1> USE DEF uiVars, daemonVars
<1>1. CASE UNCHANGED <<answering, wire, reply, settled>>
  BY <1>1 DEF Says, InFlight
<1>2. ASSUME NEW q \in Requests,
             Dispatch(q) \/ InvokeRejects(q) \/ RunCommand(q) \/ ResumeWrite(q)
      PROVE  Says(r, b)
  <2>1. UNCHANGED <<answering, wire, reply>>
    BY <1>2 DEF Dispatch, Heard, InvokeRejects, RunCommand, ResumeWrite, wire
  <2>2. settled'[r] = b => settled[r] = b
    BY <1>2 DEF Dispatch, Heard, InvokeRejects, RunCommand, ResumeWrite, TypeOK, Bodies
  <2>3. QED
    BY <2>1, <2>2 DEF Says, InFlight
<1>3. CASE Listen
  BY <1>3, <1>1 DEF Listen, wire
<1>4. ASSUME NEW q \in Requests, InvokeResolves(q)
      PROVE  Says(r, b)
  <2>1. UNCHANGED <<answering, wire>>
    BY <1>4 DEF InvokeResolves, wire
  <2>2. reply'[r] = b => reply[r] = b
    BY <1>4 DEF InvokeResolves, Return, TypeOK, Bodies
  <2>3. settled'[r] = b => settled[r] = b \/ reply[r] = b
    BY <1>4 DEF InvokeResolves, Return, TypeOK, Bodies
  <2>4. QED
    BY <2>1, <2>2, <2>3 DEF Says, InFlight
<1>5. ASSUME NEW q \in Requests, JobThread(q)
      PROVE  Says(r, b)
  <2>1. UNCHANGED <<answering, reply, settled, events>>
    BY <1>5 DEF JobThread, EmitProgress, RouteReturns, RouteRaises,
       JudgeException, Verdict, EmitTerminal, ForgetJob, Over, Thread
  <2>2. UNCHANGED stdout \/ \E t \in {"progress"} \cup Terminal:
                               WriteLine(Notify(q, t))
    BY <1>5 DEF JobThread, EmitProgress, RouteReturns, RouteRaises,
       JudgeException, Verdict, EmitTerminal, ForgetJob, Terminal
  <2>3. CASE UNCHANGED stdout
    BY <1>1, <2>1, <2>3 DEF wire
  <2>4. ASSUME NEW t \in {"progress"} \cup Terminal, WriteLine(Notify(q, t))
        PROVE  Says(r, b)
    <3>1. Notify(q, t) \in Message /\ RespondWith(r, b) # Notify(q, t)
      BY MessageShape DEF Message
    <3>2. InFlight' = InFlight \cup {Notify(q, t)}
      BY <2>1, <2>4, <3>1, WireWrite
    <3>3. QED
      BY <2>1, <3>1, <3>2 DEF Says
  <2>5. QED
    BY <2>2, <2>3, <2>4
<1>6. CASE Deliver
  <2> DEFINE m == Head(events)
  <2>1. m \in InFlight /\ InFlight' \subseteq InFlight /\ m \in Message
    BY <1>6, WireDeliver
  <2>2. UNCHANGED answering
    BY <1>6 DEF Deliver
  <2>3. CASE ~listening \/ m.type = "job"
    <3>1. UNCHANGED <<reply, settled>>
      BY <1>6, <2>3 DEF Deliver, OnJobNotification, Known
    <3>2. QED
      BY <2>1, <2>2, <3>1 DEF Says
  <2>4. CASE listening /\ m.type # "job"
    <3>1. m \in Response
      BY <2>1, <2>4, MessageShape DEF Message
    <3>2. m = RespondWith(m.req, m.body)
      BY <3>1, MessageShape
    <3>3. OnResponse(m)
      BY <1>6, <2>4 DEF Deliver
    <3>4. reply'[r] = b => reply[r] = b \/ m = RespondWith(r, b)
      BY <3>2, <3>3 DEF OnResponse, Return, TypeOK
    <3>5. settled'[r] = b => settled[r] = b \/ m = RespondWith(r, b)
      BY <3>2, <3>3 DEF OnResponse, Return, TypeOK
    <3>6. QED
      BY <2>1, <2>2, <3>4, <3>5 DEF Says
  <2>5. QED
    BY <2>3, <2>4
<1>7. CASE Forward
  BY <1>7, WireForward DEF Forward, Says
<1>8. CASE WriteResponse
  <2>1. answering \in Message /\ UNCHANGED <<reply, settled, events>>
    BY <1>8 DEF WriteResponse, TypeOK, Message
  <2>2. InFlight' = InFlight \cup {answering} /\ answering' = Nothing
    BY <1>8, <2>1, WireWrite DEF WriteResponse
  <2>3. QED
    BY <2>1, <2>2, MessageShape DEF Says
<1>9. CASE DaemonDies
  <2>1. UNCHANGED <<wire, reply, settled>> /\ answering' = Nothing
    BY <1>9 DEF DaemonDies, wire
  <2>2. QED
    BY <2>1, MessageShape DEF Says, InFlight
<1>10. CASE UNCHANGED vars
  BY <1>10, <1>1 DEF vars, wire
<1>11. QED
  BY <1>2, <1>3, <1>4, <1>5, <1>6, <1>7, <1>8, <1>9, <1>10 DEF Next

-------------------------------------------------------------------------------
(* The inductive invariant. *)

\* Nothing is on its way and nothing has ended at the start.
LEMMA InitIInv == Init => IInv
<1> SUFFICES ASSUME Init PROVE IInv
  OBVIOUS
<1>1. wire = <<>>
  BY ConcatEmptySeq, EmptySeq DEF Init, wire
<1>2. InFlight = {} /\ Lines(stdin) = {}
  BY <1>1, LinesEmpty DEF Init, InFlight
<1>3. \A r \in Requests, b \in Bodies: ~Says(r, b)
  BY <1>2, MessageShape DEF Init, Says, Bodies
<1>4. RequestReadOnce
  BY <1>2, <1>3, LinesEmpty DEF Init, RequestReadOnce, Untouched
<1>5. ResponsesTrue
  BY <1>3 DEF ResponsesTrue, Bodies
<1>6. OutcomesTrue
  BY <1>1, <1>2, LinesEmpty DEF Init, OutcomesTrue
<1>7. CancellationsAsked
  BY DEF Init, CancellationsAsked
<1>8. QED
  BY <1>4, <1>5, <1>6, <1>7 DEF IInv

\* What a thread step may do to the place of its thread.
LEMMA ThreadMoves ==
  ASSUME TypeOK, NEW r \in Requests, JobThread(r)
  PROVE  /\ \A q \in Requests \ {r}: thread'[q] = thread[q]
         /\ thread[r] # "none" /\ thread'[r] # "none"
         /\ UNCHANGED <<uiVars, stdin, events, alive, answering>>
  BY DEF TypeOK, JobThread, EmitProgress, RouteReturns, RouteRaises,
     JudgeException, Verdict, EmitTerminal, ForgetJob, Over, Thread, Terminal

\* A thread starts only when its request is handled, and never unstarts.
LEMMA ThreadsStay ==
  ASSUME TypeOK, [Next]_vars, ~HandleRequest, NEW r \in Requests
  PROVE  thread'[r] = "none" <=> thread[r] = "none"
<1>1. ASSUME NEW q \in Requests, JobThread(q)
      PROVE  thread'[r] = "none" <=> thread[r] = "none"
  BY <1>1, ThreadMoves
<1>2. CASE ~\E q \in Requests: JobThread(q)
  BY <1>2 DEF Next, vars, daemonVars, Dispatch, Listen, InvokeResolves,
     InvokeRejects, RunCommand, ResumeWrite, Deliver, Forward, WriteResponse,
     DaemonDies
<1>3. QED
  BY <1>1, <1>2

\* What taking a request from stdin does.
LEMMA HandleRequestEffect ==
  ASSUME TypeOK, RequestReadOnce, HandleRequest
  PROVE  LET r == Head(stdin)
         IN  /\ r \in Requests /\ r \in Lines(stdin) /\ Untouched(r)
             /\ Lines(stdin') \subseteq Lines(stdin) \ {r}
             /\ \A q \in Requests: AtMostOnce(stdin', q)
             /\ \A q \in Requests \ {r}: thread'[q] = thread[q]
             /\ \E b \in Bodies:
                   /\ \A q \in Requests, c \in Bodies:
                         Says(q, c)' => Says(q, c) \/ (q = r /\ c = b)
                   /\ IF b = "job" THEN /\ kind[r] = "async"
                                        /\ thread'[r] = "started"
                                   ELSE thread' = thread
             /\ UNCHANGED <<uiVars, wire>>
<1> DEFINE r == Head(stdin)
<1>1. stdin \in Seq(Requests) /\ stdin # <<>> /\ stdin' = Tail(stdin)
  BY DEF TypeOK, HandleRequest
<1>2. r \in Requests /\ r \in Lines(stdin) /\ Lines(Tail(stdin)) \subseteq Lines(stdin)
  BY <1>1, HeadTailType, LinesHeadTail
<1>3. Untouched(r)
  BY <1>2 DEF RequestReadOnce
<1>4. \A q \in Requests: /\ AtMostOnce(Tail(stdin), q)
                         /\ r = q => q \notin Lines(Tail(stdin))
  BY <1>1, OnceTail DEF RequestReadOnce
<1>5. UNCHANGED <<uiVars, wire>>
  BY DEF HandleRequest, wire
<1>6. PICK b \in Bodies:
         /\ answering' = RespondWith(r, b)
         /\ IF b = "job" THEN kind[r] = "async" /\ SubmitJob(r)
                         ELSE thread' = thread
  <2>1. CASE kind[r] = "async" /\ SubmitJob(r) /\ answering' = RespondWith(r, "job")
    BY <2>1 DEF Bodies
  <2>2. CASE /\ thread' = thread
             /\ \E b \in Bodies \ {"job"}: answering' = RespondWith(r, b)
    BY <2>2
  <2>3. QED
    BY <2>1, <2>2 DEF HandleRequest, RunsJob, CancelJob, Bodies
<1>7. ASSUME NEW q \in Requests, NEW c \in Bodies, Says(q, c)'
      PROVE  Says(q, c) \/ (q = r /\ c = b)
  <2>1. CASE answering' = RespondWith(q, c)
    BY <1>6, <2>1, MessageShape
  <2>2. CASE answering' # RespondWith(q, c)
    BY <1>5, <1>7, <2>2 DEF Says, InFlight, uiVars
  <2>3. QED
    BY <2>1, <2>2
<1>8. /\ \A q \in Requests \ {r}: thread'[q] = thread[q]
      /\ IF b = "job" THEN kind[r] = "async" /\ thread'[r] = "started"
                      ELSE thread' = thread
  BY <1>2, <1>6 DEF SubmitJob, TypeOK
<1>9. QED
  BY <1>1, <1>2, <1>3, <1>4, <1>5, <1>7, <1>8

\* What a step does to phase, settled and stdin, as far as RequestReadOnce sees.
LEMMA PhaseMoves ==
  ASSUME TypeOK, RequestReadOnce, [Next]_vars, ~HandleRequest,
         NEW r \in Requests
  PROVE  LET Early == {"idle", "subscribing", "invoking", "writing", "refused"}
         IN  /\ phase'[r] \in Early => phase[r] \in Early
             /\ settled'[r] = "rejected" =>
                   \/ settled[r] = "rejected" /\ phase'[r] = phase[r]
                   \/ phase[r] = "refused" /\ phase'[r] = "done"
             /\ r \in Lines(stdin') =>
                   \/ r \in Lines(stdin)
                   \/ phase[r] \in Early /\ phase'[r] = "written"
                      /\ settled'[r] = settled[r]
             /\ AtMostOnce(stdin', r)
<1> DEFINE Early == {"idle", "subscribing", "invoking", "writing", "refused"}
<1> USE DEF uiVars, daemonVars
<1>1. CASE UNCHANGED <<phase, settled, stdin>>
  BY <1>1 DEF RequestReadOnce
<1>2. ASSUME NEW q \in Requests, Dispatch(q)
      PROVE  /\ phase'[r] \in Early => phase[r] \in Early
             /\ phase'[r] # phase[r] => phase[r] = "idle"
             /\ UNCHANGED <<settled, stdin>>
  BY <1>2 DEF Dispatch, Heard, Invoke, TypeOK
<1>3. ASSUME Listen
      PROVE  /\ phase'[r] \in Early => phase[r] \in Early
             /\ phase'[r] # phase[r] => phase[r] = "subscribing"
             /\ UNCHANGED <<settled, stdin>>
  BY <1>3 DEF Listen, Invoke, TypeOK
<1>4. ASSUME NEW q \in Requests, InvokeResolves(q)
      PROVE  /\ phase'[r] # phase[r] =>
                   phase[r] = "written" /\ phase'[r] \in {"done", "awaiting"}
             /\ settled'[r] # settled[r] =>
                   phase[r] = "written" /\ settled'[r] \in Bodies
             /\ UNCHANGED stdin
  BY <1>4 DEF InvokeResolves, Return, TypeOK
<1>5. ASSUME NEW q \in Requests, InvokeRejects(q)
      PROVE  /\ \/ phase'[r] = phase[r] /\ settled'[r] = settled[r]
                \/ phase[r] = "refused" /\ phase'[r] = "done"
             /\ UNCHANGED stdin
  <2>1. CASE q = r
    BY <1>5, <2>1 DEF InvokeRejects, TypeOK
  <2>2. CASE q # r
    BY <1>5, <2>2 DEF InvokeRejects, TypeOK
  <2>3. QED
    BY <2>1, <2>2
<1>6. ASSUME NEW q \in Requests, RunCommand(q) \/ ResumeWrite(q)
      PROVE  /\ UNCHANGED settled
             /\ phase'[r] # phase[r] => phase[r] \in {"invoking", "writing"}
             /\ \/ stdin' = stdin /\ (phase'[r] \in Early <=> phase[r] \in Early)
                \/ /\ stdin' = Append(stdin, q)
                   /\ r = q => phase[r] \in Early /\ phase'[r] = "written"
                   /\ r # q => phase'[r] = phase[r]
  BY <1>6 DEF RunCommand, ResumeWrite, WriteRequest, WriteFails, TypeOK
<1>7. ASSUME Deliver
      PROVE  /\ phase'[r] # phase[r] =>
                   phase[r] = "awaiting" /\ phase'[r] = "done"
             /\ settled'[r] # settled[r] =>
                   phase[r] = "awaiting" /\ settled'[r] \in Bodies
             /\ UNCHANGED stdin
  <2> DEFINE m == Head(events)
  <2>1. m \in Message
    BY <1>7, WireDeliver
  <2>2. CASE ~listening \/ m.type = "job"
    BY <1>7, <2>2 DEF Deliver, OnJobNotification, Known
  <2>3. CASE listening /\ m.type # "job"
    <3>1. m \in Response /\ m.body \in Bodies /\ m.req \in Requests
      BY <2>1, <2>3, MessageShape DEF Message
    <3>2. OnResponse(m) /\ UNCHANGED stdin
      BY <1>7, <2>3 DEF Deliver
    <3>3. QED
      BY <3>1, <3>2 DEF OnResponse, Return, TypeOK
  <2>4. QED
    BY <2>2, <2>3
<1>8. CASE DaemonDies
  BY <1>8, LinesEmpty DEF DaemonDies
<1>9. ASSUME NEW q \in Requests, RunCommand(q) \/ ResumeWrite(q)
      PROVE  /\ AtMostOnce(stdin', r)
             /\ \/ Lines(stdin') = Lines(stdin)
                \/ stdin' # stdin /\ Lines(stdin') = Lines(stdin) \cup {q}
  <2>1. CASE stdin' = stdin
    <3>1. AtMostOnce(stdin, r)
      BY DEF RequestReadOnce
    <3>2. QED
      BY <2>1, <3>1
  <2>2. CASE stdin' = Append(stdin, q)
    <3>1. phase[q] \in Early
      BY <1>9 DEF RunCommand, ResumeWrite, WriteFails
    <3>2. q \notin Lines(stdin) /\ AtMostOnce(stdin, r)
      BY <3>1 DEF RequestReadOnce
    <3>3. stdin \in Seq(Requests)
      BY DEF TypeOK
    <3>4. AtMostOnce(Append(stdin, q), r)
      BY <3>2, <3>3, OnceAppend
    <3>5. Lines(Append(stdin, q)) = Lines(stdin) \cup {q}
      BY <3>3, LinesAppend
    <3>6. stdin' # stdin
      BY <3>2, <3>5, <2>2
    <3>7. QED
      BY <2>2, <3>4, <3>5, <3>6
  <2>3. QED
    BY <1>6, <1>9, <2>1, <2>2
<1>10. \/ \E q \in Requests: Dispatch(q) \/ InvokeResolves(q)
                             \/ InvokeRejects(q) \/ RunCommand(q)
                             \/ ResumeWrite(q)
       \/ Listen \/ Deliver \/ DaemonDies
       \/ UNCHANGED <<phase, settled, stdin>>
  BY ThreadMoves DEF Next, vars, Forward, WriteResponse
<1>11. AtMostOnce(stdin, r)
  BY DEF RequestReadOnce
<1>12. settled[r] = "rejected" => phase[r] = "done"
  BY DEF RequestReadOnce
<1> HIDE DEF RequestReadOnce, uiVars, daemonVars
<1>13. ASSUME NEW q \in Requests, RunCommand(q) \/ ResumeWrite(q)
       PROVE  /\ phase'[r] \in Early => phase[r] \in Early
              /\ settled'[r] = settled[r]
              /\ settled[r] = "rejected" => phase'[r] = phase[r]
              /\ r \in Lines(stdin') =>
                    \/ r \in Lines(stdin)
                    \/ phase[r] \in Early /\ phase'[r] = "written"
  <2>1. CASE stdin' = stdin
    BY <1>6, <1>12, <1>13, <2>1
  <2>2. CASE stdin' # stdin
    BY <1>6, <1>9, <1>12, <1>13, <2>2
  <2>3. QED
    BY <2>1, <2>2
<1>14. CASE UNCHANGED <<phase, settled, stdin>>
  BY <1>11, <1>14
<1>15. CASE \E q \in Requests: Dispatch(q)
  BY <1>2, <1>11, <1>12, <1>15
<1>16. CASE Listen
  BY <1>3, <1>11, <1>12, <1>16
<1>17. CASE \E q \in Requests: InvokeResolves(q)
  BY <1>4, <1>11, <1>12, <1>17 DEF Bodies
<1>18. CASE \E q \in Requests: InvokeRejects(q)
  BY <1>5, <1>11, <1>12, <1>18
<1>19. CASE \E q \in Requests: RunCommand(q) \/ ResumeWrite(q)
  BY <1>9, <1>13, <1>19
<1>20. CASE Deliver
  BY <1>7, <1>11, <1>12, <1>20 DEF Bodies
<1>21. QED
  BY <1>8, <1>10, <1>14, <1>15, <1>16, <1>17, <1>18, <1>19, <1>20

\* No step makes the daemon see a request twice, or one that was not written.
LEMMA NextRequestReadOnce ==
  ASSUME TypeOK, RequestReadOnce, [Next]_vars
  PROVE  RequestReadOnce'
<1> DEFINE Early == {"idle", "subscribing", "invoking", "writing", "refused"}
<1> SUFFICES ASSUME NEW q \in Requests
             PROVE  /\ AtMostOnce(stdin', q)
                    /\ q \in Lines(stdin') => Untouched(q)'
                    /\ phase'[q] \in Early \/ settled'[q] = "rejected" =>
                          Untouched(q)' /\ q \notin Lines(stdin')
                    /\ settled'[q] = "rejected" => phase'[q] = "done"
  BY DEF RequestReadOnce
<1>1. /\ AtMostOnce(stdin, q)
      /\ q \in Lines(stdin) => Untouched(q)
      /\ phase[q] \in Early \/ settled[q] = "rejected" =>
            Untouched(q) /\ q \notin Lines(stdin)
      /\ settled[q] = "rejected" => phase[q] = "done"
  BY DEF RequestReadOnce
<1>2. CASE ~HandleRequest
  <2>1. Untouched(q) => Untouched(q)'
    BY <1>2, ResponsesMove, ThreadsStay DEF Untouched
  <2>2. /\ phase'[q] \in Early => phase[q] \in Early
        /\ settled'[q] = "rejected" =>
              \/ settled[q] = "rejected" /\ phase'[q] = phase[q]
              \/ phase[q] = "refused" /\ phase'[q] = "done"
        /\ q \in Lines(stdin') =>
              \/ q \in Lines(stdin)
              \/ phase[q] \in Early /\ phase'[q] = "written"
                 /\ settled'[q] = settled[q]
        /\ AtMostOnce(stdin', q)
    BY <1>2, PhaseMoves
  <2>3. QED
    BY <1>1, <2>1, <2>2
<1>3. CASE HandleRequest
  <2> DEFINE r == Head(stdin)
  <2>1. /\ r \in Requests /\ r \in Lines(stdin)
        /\ Lines(stdin') \subseteq Lines(stdin) \ {r}
        /\ AtMostOnce(stdin', q)
        /\ UNCHANGED <<phase, settled>>
    BY <1>3, HandleRequestEffect DEF uiVars
  <2>2. q # r /\ Untouched(q) => Untouched(q)'
    BY <1>3, HandleRequestEffect DEF Untouched
  <2>3. CASE q = r
    BY <1>1, <2>1, <2>3
  <2>4. CASE q # r
    BY <1>1, <2>1, <2>2, <2>4
  <2>5. QED
    BY <2>3, <2>4
<1>4. QED
  BY <1>2, <1>3

\* Only dispatch decides what a request asks for, while it is idle.
LEMMA KindsStay ==
  ASSUME TypeOK, [Next]_vars, NEW r \in Requests, phase[r] # "idle"
  PROVE  kind'[r] = kind[r] /\ target'[r] = target[r] /\ phase'[r] # "idle"
<1>1. ASSUME NEW q \in Requests, Dispatch(q)
      PROVE  kind'[r] = kind[r] /\ target'[r] = target[r] /\ phase'[r] # "idle"
  <2>1. q # r
    BY <1>1 DEF Dispatch
  <2>2. kind'[r] = kind[r] /\ target'[r] = target[r]
    BY <1>1, <2>1 DEF Dispatch, Ask, TypeOK
  <2>3. phase'[r] # "idle"
    BY <1>1, <2>1 DEF Dispatch, Heard, Invoke, TypeOK
  <2>4. QED
    BY <2>2, <2>3
<1>2. CASE ~\E q \in Requests: Dispatch(q)
  <2>1. UNCHANGED <<kind, target>>
    BY <1>2, ThreadMoves DEF Next, vars, uiVars, Listen, InvokeResolves,
       InvokeRejects, RunCommand, ResumeWrite, Deliver, Forward,
       HandleRequest, WriteResponse, DaemonDies
  <2>2. ASSUME NEW q \in Requests,
               InvokeResolves(q) \/ InvokeRejects(q) \/ RunCommand(q)
                  \/ ResumeWrite(q)
        PROVE  phase'[r] # "idle"
    BY <2>2 DEF InvokeResolves, Return, InvokeRejects, RunCommand, ResumeWrite,
       WriteRequest, WriteFails, TypeOK
  <2>3. CASE Listen
    BY <2>1, <2>3 DEF Listen, Invoke, TypeOK
  <2>4. CASE Deliver
    <3>1. CASE ~listening \/ Head(events).type = "job"
      BY <2>1, <2>4, <3>1 DEF Deliver, OnJobNotification, Known
    <3>2. CASE listening /\ Head(events).type # "job"
      <4>1. OnResponse(Head(events))
        BY <2>4, <3>2 DEF Deliver
      <4>2. phase' = phase
            \/ \E q \in Requests: phase' = [phase EXCEPT ![q] = "done"]
        BY <4>1 DEF OnResponse, Return, TypeOK
      <4>3. QED
        BY <2>1, <4>2 DEF TypeOK
    <3>3. QED
      BY <3>1, <3>2
  <2>5. CASE UNCHANGED phase
    BY <2>1, <2>5
  <2>6. UNCHANGED phase \/ Listen \/ Deliver
        \/ \E q \in Requests: \/ InvokeResolves(q) \/ InvokeRejects(q)
                              \/ RunCommand(q) \/ ResumeWrite(q)
    BY <1>2, ThreadMoves DEF Next, vars, uiVars, Forward, HandleRequest,
       WriteResponse, DaemonDies
  <2>7. QED
    BY <2>1, <2>2, <2>3, <2>4, <2>5, <2>6
<1>3. QED
  BY <1>1, <1>2

\* Nobody comes to hold a false response: the daemon makes none, and a job that
\* was started stays started.
LEMMA NextResponsesTrue ==
  ASSUME TypeOK, RequestReadOnce, ResponsesTrue, [Next]_vars
  PROVE  ResponsesTrue'
<1> SUFFICES ASSUME NEW q \in Requests, NEW b \in Bodies, Says(q, b)'
             PROVE  IF b = "job" THEN kind'[q] = "async" /\ thread'[q] # "none"
                                 ELSE thread'[q] = "none"
  BY DEF ResponsesTrue, Bodies
<1>1. Says(q, b) => /\ phase[q] # "idle"
                    /\ IF b = "job" THEN kind[q] = "async" /\ thread[q] # "none"
                                    ELSE thread[q] = "none"
  BY DEF ResponsesTrue, RequestReadOnce, Untouched
<1>2. CASE ~HandleRequest
  <2>1. Says(q, b)
    BY <1>2, ResponsesMove
  <2>2. thread'[q] = "none" <=> thread[q] = "none"
    BY <1>2, ThreadsStay
  <2>3. kind'[q] = kind[q]
    BY <1>1, <2>1, KindsStay
  <2>4. QED
    BY <1>1, <2>1, <2>2, <2>3
<1>3. CASE HandleRequest
  <2> DEFINE r == Head(stdin)
  <2>1. PICK c \in Bodies:
           /\ Says(q, b) \/ (q = r /\ b = c)
           /\ IF c = "job" THEN kind[r] = "async" /\ thread'[r] = "started"
                           ELSE thread' = thread
    BY <1>3, HandleRequestEffect
  <2>2. Untouched(r) /\ UNCHANGED kind
    BY <1>3, HandleRequestEffect DEF uiVars
  <2>3. CASE q = r
    <3>1. b = c
      BY <2>1, <2>2, <2>3 DEF Untouched
    <3>2. QED
      BY <2>1, <2>2, <2>3, <3>1 DEF Untouched
  <2>4. CASE q # r
    <3>1. thread'[q] = thread[q]
      BY <1>3, <2>4, HandleRequestEffect
    <3>2. QED
      BY <1>1, <2>1, <2>2, <2>4, <3>1
  <2>5. QED
    BY <2>3, <2>4
<1>4. QED
  BY <1>2, <1>3

\* A notification on the wire was written by the thread step that ended the job.
LEMMA NextOutcomesTrue ==
  ASSUME TypeOK, RequestReadOnce, OutcomesTrue, [Next]_vars
  PROVE  OutcomesTrue'
<1> DEFINE Truth(q) ==
             /\ \A s \in Terminal:
                   /\ Notify(q, s) \in InFlight => thread[q] = s
                   /\ AtMostOnce(wire, Notify(q, s))
             /\ result[q] # "none" => result[q] = thread[q] /\ Told(q)
<1> SUFFICES ASSUME NEW q \in Requests
             PROVE  Truth(q)'
  BY DEF OutcomesTrue
<1>1. Truth(q)
  BY DEF OutcomesTrue
<1>2. wire \in Seq(Message) /\ result[q] \in Terminal \cup {"none"}
  BY WireType DEF TypeOK
<1>3. CASE UNCHANGED <<wire, result>> /\ thread'[q] = thread[q]
  BY <1>1, <1>3 DEF Told, InFlight
<1>4. ASSUME NEW r \in Requests, JobThread(r)
      PROVE  Truth(q)'
  <2>1. UNCHANGED <<result, events>> /\ (r # q => thread'[q] = thread[q])
    BY <1>4, ThreadMoves DEF uiVars
  <2>2. CASE UNCHANGED stdout
    <3>1. UNCHANGED <<wire, result>>
      BY <2>1, <2>2 DEF wire
    <3>2. CASE thread'[q] = thread[q]
      BY <1>3, <3>1, <3>2
    <3>3. CASE thread'[q] # thread[q]
      <4>1. thread[q] \notin Terminal
        BY <1>4, <2>1, <2>2, <3>3 DEF JobThread, EmitProgress, RouteReturns,
           RouteRaises, JudgeException, Verdict, EmitTerminal, ForgetJob, Over, Thread,
           Terminal, TypeOK
      <4>2. result[q] = "none" /\ \A s \in Terminal: Notify(q, s) \notin InFlight
        BY <1>1, <1>2, <4>1
      <4>3. QED
        BY <1>1, <3>1, <4>2 DEF InFlight
    <3>4. QED
      BY <3>2, <3>3
  <2>3. CASE \E t \in Terminal: /\ WriteLine(Notify(r, t)) /\ thread'[r] = t
                                /\ thread[r] \notin Terminal
    <3>1. PICK t \in Terminal: /\ WriteLine(Notify(r, t)) /\ thread'[r] = t
                               /\ thread[r] \notin Terminal
      BY <2>3
    <3>2. Notify(r, t) \in Message
      BY MessageShape DEF Message
    <3>3. wire' = Append(wire, Notify(r, t))
          /\ InFlight' = InFlight \cup {Notify(r, t)}
      BY <2>1, <3>1, <3>2, WireWrite
    <3>4. CASE q = r
      <4>1. result[q] = "none" /\ \A s \in Terminal: Notify(q, s) \notin Lines(wire)
        BY <1>1, <1>2, <3>1, <3>4 DEF InFlight
      <4>2. \A s \in Terminal: AtMostOnce(wire', Notify(q, s))
        BY <1>1, <1>2, <3>2, <3>3, <4>1, OnceAppend
      <4>3. \A s \in Terminal: Notify(q, s) \in InFlight' => s = t
        BY <3>3, <4>1, MessageShape DEF InFlight
      <4>4. QED
        BY <2>1, <3>1, <3>4, <4>1, <4>2, <4>3
    <3>5. CASE q # r
      <4>1. \A s \in Terminal: Notify(q, s) # Notify(r, t)
        BY <3>5, MessageShape
      <4>2. \A s \in Terminal: AtMostOnce(wire', Notify(q, s))
        BY <1>1, <1>2, <3>2, <3>3, <4>1, OnceAppend
      <4>3. QED
        BY <1>1, <2>1, <3>3, <3>5, <4>1, <4>2 DEF Told
    <3>6. QED
      BY <3>4, <3>5
  <2>4. CASE EmitProgress(r)
    <3>1. Notify(r, "progress") \in Message
          /\ \A s \in Terminal: Notify(q, s) # Notify(r, "progress")
      BY MessageShape DEF Message, Terminal
    <3>2. WriteLine(Notify(r, "progress")) /\ thread[r] = "started"
          /\ thread'[r] = "running"
      BY <2>4 DEF EmitProgress, Thread, TypeOK
    <3>3. wire' = Append(wire, Notify(r, "progress"))
          /\ InFlight' = InFlight \cup {Notify(r, "progress")}
      BY <2>1, <3>1, <3>2, WireWrite
    <3>4. \A s \in Terminal: AtMostOnce(wire', Notify(q, s))
      BY <1>1, <1>2, <3>1, <3>3, OnceAppend
    <3>5. CASE q = r
      <4>1. result[q] = "none" /\ \A s \in Terminal: Notify(q, s) \notin InFlight
        BY <1>1, <1>2, <3>2, <3>5 DEF Terminal
      <4>2. QED
        BY <2>1, <3>1, <3>3, <3>4, <4>1
    <3>6. CASE q # r
      BY <1>1, <2>1, <3>1, <3>3, <3>4, <3>6 DEF Told
    <3>7. QED
      BY <3>5, <3>6
  <2>5. UNCHANGED stdout \/ EmitProgress(r)
        \/ \E t \in Terminal: /\ WriteLine(Notify(r, t)) /\ thread'[r] = t
                              /\ thread[r] \notin Terminal
    BY <1>4 DEF JobThread, EmitProgress, RouteReturns, RouteRaises,
       JudgeException, Verdict, EmitTerminal, ForgetJob, Over, Thread, Terminal, TypeOK
  <2>6. QED
    BY <2>2, <2>3, <2>4, <2>5
<1>5. CASE Deliver
  <2> DEFINE m == Head(events)
  <2>1. /\ wire # <<>> /\ Head(wire) = m /\ wire' = Tail(wire)
        /\ m \in InFlight /\ InFlight' \subseteq InFlight /\ m \in Message
    BY <1>5, WireDeliver
  <2>2. \A s \in Terminal: /\ AtMostOnce(wire', Notify(q, s))
                           /\ m = Notify(q, s) => Notify(q, s) \notin InFlight'
    BY <1>1, <1>2, <2>1, OnceTail DEF InFlight
  <2>3. UNCHANGED thread
    BY <1>5 DEF Deliver, daemonVars
  <2>4. CASE result'[q] = result[q]
    BY <1>1, <2>1, <2>2, <2>3, <2>4 DEF Told
  <2>5. CASE result'[q] # result[q]
    <3>1. /\ m.type = "job" /\ m.req = q /\ m.body \in Terminal
          /\ result'[q] = m.body
      BY <1>5, <2>1, <2>5 DEF Deliver, OnJobNotification, Known, OnResponse, TypeOK
    <3>2. m = Notify(q, m.body)
      BY <2>1, <3>1, MessageShape DEF Message
    <3>3. thread[q] = m.body /\ Notify(q, m.body) \notin InFlight'
      BY <1>1, <2>1, <2>2, <3>1, <3>2
    <3>4. \A s \in Terminal: Notify(q, s) \in InFlight' => s = m.body
      BY <1>1, <2>1, <3>3
    <3>5. Told(q)'
      BY <3>3, <3>4 DEF Told
    <3>6. QED
      BY <1>1, <2>1, <2>2, <2>3, <3>1, <3>3, <3>5
  <2>6. QED
    BY <2>4, <2>5
<1>6. CASE HandleRequest
  <2>1. UNCHANGED <<wire, result>> /\ Untouched(Head(stdin))
    BY <1>6, HandleRequestEffect DEF uiVars
  <2>2. CASE thread'[q] = thread[q]
    BY <1>3, <2>1, <2>2
  <2>3. CASE thread'[q] # thread[q]
    <3>1. thread[q] = "none"
      BY <1>6, <2>1, <2>3, HandleRequestEffect DEF Untouched
    <3>2. result[q] = "none" /\ \A s \in Terminal: Notify(q, s) \notin InFlight
      BY <1>1, <1>2, <3>1 DEF Terminal
    <3>3. QED
      BY <1>1, <2>1, <3>2 DEF InFlight
  <2>4. QED
    BY <2>2, <2>3
<1>7. CASE Forward
  <2>1. wire' = wire /\ UNCHANGED <<result, thread>>
    BY <1>7, WireForward DEF Forward, uiVars, daemonVars
  <2>2. QED
    BY <1>3, <2>1
<1>8. CASE WriteResponse
  <2>1. answering \in Response /\ UNCHANGED <<result, thread, events>>
        /\ WriteLine(answering)
    BY <1>8 DEF WriteResponse, TypeOK, uiVars
  <2>2. answering \in Message /\ \A s \in Terminal: Notify(q, s) # answering
    BY <2>1, MessageShape DEF Message
  <2>3. wire' = Append(wire, answering) /\ InFlight' = InFlight \cup {answering}
    BY <2>1, <2>2, WireWrite
  <2>4. \A s \in Terminal: AtMostOnce(wire', Notify(q, s))
    BY <1>1, <1>2, <2>2, <2>3, OnceAppend
  <2>5. QED
    BY <1>1, <2>1, <2>2, <2>3, <2>4 DEF Told
<1>9. CASE DaemonDies \/ UNCHANGED vars \/ Listen
           \/ \E r \in Requests: \/ Dispatch(r) \/ InvokeResolves(r)
                                 \/ InvokeRejects(r) \/ RunCommand(r)
                                 \/ ResumeWrite(r)
  <2>1. UNCHANGED <<stdout, events, result, thread>>
    BY <1>9 DEF DaemonDies, vars, uiVars, daemonVars, Listen, Dispatch,
       InvokeResolves, InvokeRejects, RunCommand, ResumeWrite
  <2>2. QED
    BY <1>3, <2>1 DEF wire
<1>10. QED
  BY <1>4, <1>5, <1>6, <1>7, <1>8, <1>9 DEF Next

\* The event of a job is set by a cancellation, and read by its own thread.
LEMMA NextCancellationsAsked ==
  ASSUME TypeOK, RequestReadOnce, CancellationsAsked, [Next]_vars
  PROVE  CancellationsAsked'
<1> DEFINE Asked(r) == \E c \in Requests: kind[c] = "cancel" /\ target[c] = r
           Marked(r) == r \in cancelSet \/ thread[r] \in {"cancelling", "cancelled"}
<1>1. \A r \in Requests: Asked(r) => Asked(r)'
  BY KindsStay DEF CancellationsAsked
<1>2. ASSUME NEW r \in Requests, Marked(r)', ~Marked(r)
      PROVE  Asked(r)
  <2>1. CASE HandleRequest
    <3> DEFINE h == Head(stdin)
    <3>1. thread'[r] \in {"cancelling", "cancelled"} =>
             thread[r] \in {"cancelling", "cancelled"}
      BY <2>1 DEF HandleRequest, RunsJob, SubmitJob, CancelJob, TypeOK
    <3>2. r \in cancelSet' => r \in cancelSet \/ (kind[h] = "cancel" /\ target[h] = r)
      BY <2>1 DEF HandleRequest, RunsJob, SubmitJob, CancelJob
    <3>3. h \in Requests
      BY <2>1, HandleRequestEffect
    <3>4. QED
      BY <1>2, <3>1, <3>2, <3>3
  <2>2. ASSUME NEW q \in Requests, JobThread(q)
        PROVE  Asked(r)
    <3>1. cancelSet' \subseteq cancelSet
      BY <2>2 DEF JobThread, EmitProgress, RouteReturns, RouteRaises,
         JudgeException, Verdict, EmitTerminal, ForgetJob, Over, Thread
    <3>2. thread'[r] \in {"cancelling", "cancelled"} =>
             thread[r] = "cancelling" \/ r \in cancelSet
             \/ thread'[r] = thread[r]
      BY <2>2 DEF JobThread, EmitProgress, RouteReturns, RouteRaises,
         JudgeException, Verdict, EmitTerminal, ForgetJob, Over, Thread, TypeOK
    <3>3. QED
      BY <1>2, <3>1, <3>2
  <2>3. CASE ~HandleRequest /\ ~\E q \in Requests: JobThread(q)
    <3>1. UNCHANGED <<cancelSet, thread>>
      BY <2>3 DEF Next, vars, daemonVars, Dispatch, Listen, InvokeResolves,
         InvokeRejects, RunCommand, ResumeWrite, Deliver, Forward,
         WriteResponse, DaemonDies
    <3>2. QED
      BY <1>2, <3>1
  <2>4. QED
    BY <2>1, <2>2, <2>3
<1>3. ASSUME NEW r \in Requests, kind'[r] = "cancel"
      PROVE  phase'[r] # "idle"
  <2>1. CASE phase[r] # "idle"
    BY <2>1, KindsStay
  <2>2. CASE phase[r] = "idle"
    <3>1. kind[r] # "cancel"
      BY <2>2 DEF CancellationsAsked
    <3>2. PICK q \in Requests: Dispatch(q)
      BY <1>3, <3>1, ThreadMoves DEF Next, vars, uiVars, Listen,
         InvokeResolves, InvokeRejects, RunCommand, ResumeWrite, Deliver,
         Forward, HandleRequest, WriteResponse, DaemonDies
    <3>3. q = r
      BY <1>3, <3>1, <3>2 DEF Dispatch, Ask, TypeOK
    <3>4. QED
      BY <3>2, <3>3 DEF Dispatch, Heard, Invoke, TypeOK
  <2>3. QED
    BY <2>1, <2>2
<1>4. QED
  BY <1>1, <1>2, <1>3 DEF CancellationsAsked

\* Every step keeps the invariant.
LEMMA NextIInv == TypeOK /\ IInv /\ [Next]_vars => IInv'
  BY NextRequestReadOnce, NextResponsesTrue, NextOutcomesTrue,
     NextCancellationsAsked DEF IInv

\* The invariant holds throughout.
THEOREM IInvHolds == Spec => [](TypeOK /\ IInv)
<1>1. Init => TypeOK /\ IInv
  BY InitType, InitIInv
<1>2. TypeOK /\ IInv /\ [Next]_vars => (TypeOK /\ IInv)'
  BY NextType, NextIInv
<1>3. QED
  BY <1>1, <1>2, PTL DEF Spec

-------------------------------------------------------------------------------
(* What it gives. *)

\* A settled promise says how the thread ended, and nothing contradicts it.
THEOREM ResultsAreTruthful == Spec => []ResultTruthful
<1>1. IInv => ResultTruthful
  BY DEF IInv, OutcomesTrue, ResultTruthful
<1>2. QED
  BY <1>1, IInvHolds, PTL

\* What dispatch returned agrees with what the daemon did.
THEOREM AnswersAreTruthful == Spec => []AnswerTruthful
<1>1. IInv => AnswerTruthful
  <2> SUFFICES ASSUME IInv, NEW r \in Requests
               PROVE  /\ settled[r] = "job" =>
                            kind[r] = "async" /\ thread[r] # "none"
                      /\ settled[r] \in {"ok", "error", "confirm", "rejected"} =>
                            thread[r] = "none"
    BY DEF AnswerTruthful
  <2>1. \A b \in Bodies: settled[r] = b => Says(r, b)
    BY DEF Says
  <2>2. settled[r] = "rejected" => thread[r] = "none"
    BY DEF IInv, RequestReadOnce, Untouched
  <2>3. QED
    BY <2>1, <2>2 DEF IInv, ResponsesTrue, Bodies
<1>2. QED
  BY <1>1, IInvHolds, PTL

\* No job is reported as cancelled that nobody asked to cancel.
THEOREM CancellationsAreAsked == Spec => []CancelledOnlyIfAsked
<1>1. IInv => CancelledOnlyIfAsked
  BY DEF IInv, CancellationsAsked, CancelledOnlyIfAsked
<1>2. QED
  BY <1>1, IInvHolds, PTL

-------------------------------------------------------------------------------
(* A refused cancellation is never ahead of its job's outcome: the two lines *)
(* come from different threads, the outcome from the job's, the refusal from *)
(* the main one, which finds JOBS without the job.  The job emits before it  *)
(* leaves JOBS, and the pipe, the reader and the daemon's write lock keep    *)
(* the order.  The inductive invariant therefore speaks of the order of two  *)
(* lines on their way to the interface, and not only of which are there.     *)

\* In s, every f comes before every e.
Precedes(s, f, e) == \A i, j \in 1..Len(s): s[i] = f /\ s[j] = e => i < j

\* Appending keeps the order, unless it adds an f behind an e.
LEMMA PrecedesAppend ==
  ASSUME NEW S, NEW s \in Seq(S), NEW x \in S, NEW f, NEW e, f # e,
         Precedes(s, f, e), x = f => e \notin Lines(s)
  PROVE  Precedes(Append(s, x), f, e)
<1>1. Len(s) \in Nat /\ Len(Append(s, x)) = Len(s) + 1
  BY AppendProperties, LenProperties
<1>2. Append(s, x)[Len(s) + 1] = x
      /\ \A i \in 1..Len(s): Append(s, x)[i] = s[i]
  BY AppendProperties
<1>3. QED
  BY <1>1, <1>2 DEF Precedes, Lines

\* Taking the first line keeps it, and behind an e that is taken there is no f.
LEMMA PrecedesTail ==
  ASSUME NEW S, NEW s \in Seq(S), s # <<>>, NEW f, NEW e, Precedes(s, f, e)
  PROVE  Precedes(Tail(s), f, e) /\ (Head(s) = e => f \notin Lines(Tail(s)))
<1>1. Len(s) \in Nat /\ Len(s) >= 1 /\ Head(s) = s[1]
  BY LenProperties, EmptySeq
<1>2. Len(Tail(s)) = Len(s) - 1
      /\ \A i \in 1..Len(Tail(s)): Tail(s)[i] = s[i + 1]
  BY HeadTailProperties
<1>3. Precedes(Tail(s), f, e)
  BY <1>1, <1>2 DEF Precedes
<1>4. ASSUME Head(s) = e, f \in Lines(Tail(s)) PROVE FALSE
  <2>1. PICK i \in 1..Len(Tail(s)): Tail(s)[i] = f
    BY <1>4 DEF Lines
  <2>2. s[i + 1] = f /\ i + 1 \in 1..Len(s) /\ 1 \in 1..Len(s) /\ s[1] = e
    BY <1>1, <1>2, <1>4, <2>1
  <2>3. i + 1 < 1
    BY <2>2 DEF Precedes
  <2>4. QED
    BY <1>1, <1>2, <2>1, <2>3
<1>5. QED
  BY <1>3, <1>4

\* JOBS has every job whose outcome is not written yet.
JobsRegistered == \A r \in Requests: thread[r] \notin Terminal \cup {"none"} => r \in JOBS

\* A cancellation is of a job that was started.
CancelsKnowJobs == \A c \in Requests: kind[c] = "cancel" => thread[target[c]] # "none"

\* A refusal of the cancellation c of t follows the outcome of t, on the wire
\* and to its caller.
RefusalLate(c, t) ==
    /\ Says(c, "error") => thread[t] \in Terminal
    /\ \A s \in Terminal: Precedes(wire, Notify(t, s), RespondWith(c, "error"))
    /\ reply[c] = "error" \/ settled[c] = "error" => Told(t)

RefusalsLate == \A c, t \in Requests: kind[c] = "cancel" /\ target[c] = t => RefusalLate(c, t)

CancelIInv == JobsRegistered /\ CancelsKnowJobs /\ RefusalsLate

\* Nothing is asked for, and nothing runs, initially.
LEMMA InitCancelIInv == Init => CancelIInv
  BY DEF Init, CancelIInv, JobsRegistered, CancelsKnowJobs, RefusalsLate

\* A thread that wrote its outcome stays where it is, and each thread but that
\* of a handled request stays started or not.
LEMMA TerminalStays ==
  ASSUME TypeOK, RequestReadOnce, [Next]_vars, NEW r \in Requests
  PROVE  /\ thread[r] \in Terminal => thread'[r] = thread[r]
         /\ thread[r] # "none" => thread'[r] # "none"
<1>1. ASSUME NEW q \in Requests, JobThread(q)
      PROVE  thread[r] \in Terminal => thread'[r] = thread[r]
  BY <1>1 DEF JobThread, EmitProgress, RouteReturns, RouteRaises, JudgeException, Verdict,
     EmitTerminal, ForgetJob, Thread, Terminal, TypeOK
<1>2. CASE HandleRequest
  <2>1. PICK h \in Requests: thread[h] = "none" /\ \A q \in Requests \ {h}: thread'[q] = thread[q]
    BY <1>2, HandleRequestEffect DEF Untouched
  <2>2. QED
    BY <2>1 DEF Terminal
<1>3. CASE ~HandleRequest /\ ~\E q \in Requests: JobThread(q)
  BY <1>3 DEF Next, vars, daemonVars, Dispatch, Listen, InvokeResolves, InvokeRejects,
     RunCommand, ResumeWrite, Deliver, Forward, WriteResponse, DaemonDies
<1>4. QED
  BY <1>1, <1>2, <1>3, ThreadsStay

\* JOBS keeps every job that is not over.
LEMMA NextJobsRegistered ==
  ASSUME TypeOK, JobsRegistered, [Next]_vars
  PROVE  JobsRegistered'
<1>1. ASSUME NEW q \in Requests, JobThread(q)
      PROVE  JobsRegistered'
  BY <1>1 DEF JobThread, EmitProgress, RouteReturns, RouteRaises, JudgeException, Verdict,
     EmitTerminal, ForgetJob, Over, Thread, Terminal, TypeOK, JobsRegistered
<1>2. CASE HandleRequest
  <2>1. PICK r \in Requests: r = Head(stdin)
    BY <1>2, HeadTailType DEF HandleRequest, TypeOK
  <2>2. UNCHANGED <<JOBS, thread>> \/ SubmitJob(r)
    BY <1>2, <2>1 DEF HandleRequest, CancelJob
  <2>3. QED
    BY <2>1, <2>2 DEF SubmitJob, TypeOK, JobsRegistered
<1>3. CASE UNCHANGED <<JOBS, thread>>
  BY <1>3 DEF JobsRegistered
<1>4. QED
  BY <1>1, <1>2, <1>3 DEF Next, vars, daemonVars, Dispatch, Listen, InvokeResolves,
     InvokeRejects, RunCommand, ResumeWrite, Deliver, Forward, WriteResponse, DaemonDies

\* Where a cancellation comes from: it was there, or the holder of a handle makes
\* it now.
LEMMA CancelOrigin ==
  ASSUME TypeOK, IInv, [Next]_vars, NEW c \in Requests, kind'[c] = "cancel"
  PROVE  \/ kind[c] = "cancel" /\ target'[c] = target[c]
         \/ Dispatch(c) /\ settled[target'[c]] = "job"
<1>1. CASE phase[c] # "idle"
  BY <1>1, KindsStay
<1>2. CASE phase[c] = "idle" /\ Dispatch(c)
  BY <1>2 DEF Dispatch, Ask, TypeOK
<1>3. CASE phase[c] = "idle" /\ ~Dispatch(c)
  <2>1. kind'[c] = kind[c]
    <3>1. ASSUME NEW q \in Requests \ {c}, Dispatch(q)
          PROVE  kind'[c] = kind[c]
      BY <3>1 DEF Dispatch, Ask, TypeOK
    <3>2. CASE ~\E q \in Requests: Dispatch(q)
      BY <3>2, ThreadMoves DEF Next, vars, uiVars, Listen, InvokeResolves, InvokeRejects,
         RunCommand, ResumeWrite, Deliver, Forward, HandleRequest, WriteResponse, DaemonDies
    <3>3. QED
      BY <1>3, <3>1, <3>2
  <2>2. QED
    BY <1>3, <2>1 DEF IInv, CancellationsAsked
<1>4. QED
  BY <1>1, <1>2, <1>3

\* A cancellation is of a job that was started, still.
LEMMA NextCancelsKnowJobs ==
  ASSUME TypeOK, IInv, CancelsKnowJobs, [Next]_vars
  PROVE  CancelsKnowJobs'
<1> SUFFICES ASSUME NEW c \in Requests, kind'[c] = "cancel"
             PROVE  thread'[target'[c]] # "none"
  BY DEF CancelsKnowJobs
<1>1. target'[c] \in Requests
  BY NextType DEF TypeOK
<1>2. CASE kind[c] = "cancel" /\ target'[c] = target[c]
  BY <1>1, <1>2, TerminalStays DEF CancelsKnowJobs, IInv
<1>3. CASE Dispatch(c) /\ settled[target'[c]] = "job"
  <2>1. thread[target'[c]] # "none"
    BY <1>1, <1>3 DEF IInv, ResponsesTrue, Says
  <2>2. QED
    BY <1>3, <2>1 DEF Dispatch, daemonVars
<1>4. QED
  BY <1>2, <1>3, CancelOrigin

\* Who holds a refusal holds it of a job whose outcome is written.
LEMMA NextRefusalTrue ==
  ASSUME TypeOK, IInv, CancelIInv, [Next]_vars, NEW c \in Requests, NEW t \in Requests,
         kind[c] = "cancel", target[c] = t, Says(c, "error")'
  PROVE  thread'[t] \in Terminal
<1>1. Says(c, "error") => thread[t] \in Terminal
  BY DEF CancelIInv, RefusalsLate, RefusalLate
<1>2. CASE Says(c, "error")
  BY <1>1, <1>2, TerminalStays DEF IInv
<1>3. CASE ~Says(c, "error")
  <2>1. HandleRequest
    BY <1>3, ResponsesMove DEF Bodies
  <2>2. PICK r \in Requests: r = Head(stdin)
    BY <2>1, HeadTailType DEF HandleRequest, TypeOK
  <2>3. UNCHANGED <<wire, reply, settled>>
    BY <2>1 DEF HandleRequest, wire, uiVars
  <2>4. answering' = RespondWith(c, "error")
    BY <1>3, <2>3 DEF Says, InFlight
  <2>5. r = c /\ t \notin JOBS /\ thread' = thread
    BY <2>1, <2>2, <2>4, MessageShape DEF HandleRequest, RunsJob, SubmitJob, CancelJob, RespondWith
  <2>6. QED
    BY <2>5 DEF CancelIInv, JobsRegistered, CancelsKnowJobs
<1>4. QED
  BY <1>2, <1>3

\* A refusal stays behind the outcome.
LEMMA RefusalStaysLate ==
  ASSUME TypeOK, IInv, CancelIInv, [Next]_vars, NEW c \in Requests, NEW t \in Requests,
         kind[c] = "cancel", target[c] = t, target'[c] = t
  PROVE  RefusalLate(c, t)'
<1> DEFINE E == RespondWith(c, "error")
<1>1. RefusalLate(c, t)
  BY DEF CancelIInv, RefusalsLate
<1>2. Says(c, "error")' => thread'[t] \in Terminal
  BY NextRefusalTrue
<1>3. /\ E \in Message /\ \A s \in Terminal: Notify(t, s) \in Message /\ Notify(t, s) # E
      /\ wire \in Seq(Message)
  BY WireType, MessageShape DEF Message, Bodies
<1>4. ASSUME wire' = wire, UNCHANGED <<reply, settled>>
      PROVE  RefusalLate(c, t)'
  BY <1>1, <1>2, <1>4 DEF RefusalLate, Told, InFlight
<1>5. ASSUME wire' = wire, reply'[c] = "error" \/ settled'[c] = "error" =>
                              reply[c] = "error" \/ settled[c] = "error"
      PROVE  RefusalLate(c, t)'
  BY <1>1, <1>2, <1>5 DEF RefusalLate, Told, InFlight
<1>6. CASE Deliver
  <2>1. wire # <<>> /\ wire' = Tail(wire) /\ Head(wire) = Head(events) /\ InFlight' \subseteq InFlight
    BY <1>6, WireDeliver
  <2>2. \A s \in Terminal: /\ Precedes(wire', Notify(t, s), E)
                           /\ Head(wire) = E => Notify(t, s) \notin InFlight'
    BY <1>1, <1>3, <2>1, PrecedesTail DEF RefusalLate, InFlight
  <2>3. CASE Head(events) = E
    BY <1>2, <2>1, <2>2, <2>3 DEF RefusalLate, Told
  <2>4. CASE Head(events) # E
    <3>1. Head(events) \in Message
      BY <1>6, WireDeliver
    <3>2. reply'[c] = "error" \/ settled'[c] = "error" => reply[c] = "error" \/ settled[c] = "error"
      BY <1>6, <2>4, <3>1, MessageShape DEF Deliver, OnJobNotification, Known, OnResponse, Return,
         Message, TypeOK
    <3>3. QED
      BY <1>1, <1>2, <2>1, <2>2, <3>2 DEF RefusalLate, Told
  <2>5. QED
    BY <2>3, <2>4
<1>7. CASE WriteResponse
  <2>1. answering \in Message /\ WriteLine(answering) /\ UNCHANGED <<events, reply, settled>>
        /\ answering.type = "response"
    BY <1>7, MessageShape DEF WriteResponse, TypeOK, uiVars, Message
  <2>2. wire' = Append(wire, answering) /\ InFlight' = InFlight \cup {answering}
    BY <2>1, WireWrite
  <2>3. \A s \in Terminal: answering # Notify(t, s)
    BY <2>1 DEF Notify
  <2>4. \A s \in Terminal: Precedes(wire', Notify(t, s), E)
    BY <1>1, <1>3, <2>1, <2>2, <2>3, PrecedesAppend DEF RefusalLate
  <2>5. QED
    BY <1>1, <1>2, <2>1, <2>2, <2>3, <2>4 DEF RefusalLate, Told
<1>8. ASSUME NEW r \in Requests, NEW s \in {"progress"} \cup Terminal, WriteLine(Notify(r, s)),
             UNCHANGED <<events, reply, settled>>,
             s \in Terminal => thread[r] \notin Terminal
      PROVE  RefusalLate(c, t)'
  <2>1. Notify(r, s) \in Message
    BY MessageShape DEF Message
  <2>2. wire' = Append(wire, Notify(r, s)) /\ InFlight' = InFlight \cup {Notify(r, s)}
    BY <1>8, <2>1, WireWrite
  <2>3. ASSUME NEW u \in Terminal, Notify(r, s) = Notify(t, u)
        PROVE  thread[t] \notin Terminal
    BY <1>8, <2>3 DEF Notify
  <2>4. \A u \in Terminal: Precedes(wire', Notify(t, u), E)
    <3> SUFFICES ASSUME NEW u \in Terminal PROVE Precedes(wire', Notify(t, u), E)
      OBVIOUS
    <3>1. Notify(r, s) = Notify(t, u) => E \notin Lines(wire)
      BY <1>1, <2>3 DEF RefusalLate, Says, InFlight
    <3>2. QED
      BY <1>1, <1>3, <2>1, <2>2, <3>1, PrecedesAppend DEF RefusalLate
  <2>5. reply[c] = "error" \/ settled[c] = "error" => Told(t)'
    BY <1>1, <2>2, <2>3 DEF RefusalLate, Says, Told
  <2>6. QED
    BY <1>2, <1>8, <2>4, <2>5 DEF RefusalLate
<1>9. ASSUME NEW r \in Requests, JobThread(r)
      PROVE  RefusalLate(c, t)'
  <2>1. UNCHANGED <<events, reply, settled>>
    BY <1>9, ThreadMoves DEF uiVars
  <2>2. CASE EmitProgress(r) \/ EmitTerminal(r)
    <3>1. PICK s \in {"progress"} \cup Terminal:
             WriteLine(Notify(r, s)) /\ thread[r] \notin Terminal
      BY <2>2 DEF EmitProgress, EmitTerminal, Thread, Terminal
    <3>2. QED
      BY <1>8, <2>1, <3>1
  <2>3. CASE ~EmitProgress(r) /\ ~EmitTerminal(r)
    <3>1. wire' = wire
      BY <1>9, <2>1, <2>3 DEF JobThread, RouteReturns, RouteRaises, JudgeException, ForgetJob, wire
    <3>2. QED
      BY <1>4, <2>1, <3>1
  <2>4. QED
    BY <2>2, <2>3
<1>10. CASE Forward
  <2>1. wire' = wire /\ UNCHANGED <<reply, settled>>
    BY <1>10, WireForward DEF Forward, uiVars
  <2>2. QED
    BY <1>4, <2>1
<1>11. ASSUME NEW r \in Requests, InvokeResolves(r) \/ InvokeRejects(r)
       PROVE  RefusalLate(c, t)'
  <2>1. wire' = wire
    BY <1>11 DEF InvokeResolves, InvokeRejects, wire
  <2>2. reply'[c] = "error" \/ settled'[c] = "error" => reply[c] = "error" \/ settled[c] = "error"
    BY <1>11 DEF InvokeResolves, InvokeRejects, Return, TypeOK
  <2>3. QED
    BY <1>5, <2>1, <2>2
<1>12. CASE UNCHANGED <<events, stdout, reply, settled>>
  BY <1>4, <1>12 DEF wire
<1>13. QED
  BY <1>6, <1>7, <1>9, <1>10, <1>11, <1>12 DEF Next, vars, uiVars, Dispatch, Listen, RunCommand,
     ResumeWrite, HandleRequest, DaemonDies

\* A new cancellation has no response yet.
LEMMA NextRefusalsLate ==
  ASSUME TypeOK, IInv, CancelIInv, [Next]_vars
  PROVE  RefusalsLate'
<1> SUFFICES ASSUME NEW c \in Requests, NEW t \in Requests, kind'[c] = "cancel", target'[c] = t
             PROVE  RefusalLate(c, t)'
  BY DEF RefusalsLate
<1>1. CASE kind[c] = "cancel" /\ target'[c] = target[c]
  BY <1>1, RefusalStaysLate
<1>2. CASE Dispatch(c)
  <2>1. ~Says(c, "error") /\ UNCHANGED <<wire, reply, settled, answering>>
    BY <1>2 DEF Dispatch, IInv, RequestReadOnce, Untouched, Bodies, daemonVars, wire
  <2>2. ~Says(c, "error")'
    BY <2>1 DEF Says, InFlight
  <2>3. QED
    BY <2>2 DEF RefusalLate, Says, Precedes, InFlight, Lines
<1>3. QED
  BY <1>1, <1>2, CancelOrigin

\* A cancellation that is refused is refused after its job reported: the outcome
\* is on the same stdout, ahead of the refusal (cancel_job, and the order of
\* emit and JOBS.pop in _run_job).
THEOREM RefusalsFollowReports == Spec => []CancelRefusedAfterReport
<1>1. Init => CancelIInv
  BY InitCancelIInv
<1>2. TypeOK /\ IInv /\ CancelIInv /\ [Next]_vars => CancelIInv'
  BY NextJobsRegistered, NextCancelsKnowJobs, NextRefusalsLate DEF CancelIInv
<1>3. TypeOK /\ CancelIInv => CancelRefusedAfterReport
  <2> SUFFICES ASSUME TypeOK, CancelIInv, NEW r \in Requests, kind[r] = "cancel", settled[r] = "error"
               PROVE  thread[target[r]] \in Terminal /\ Told(target[r])
    BY DEF CancelRefusedAfterReport
  <2>1. target[r] \in Requests
    BY DEF TypeOK
  <2>2. RefusalLate(r, target[r])
    BY <2>1 DEF CancelIInv, RefusalsLate
  <2>3. QED
    BY <2>2 DEF RefusalLate, Says
<1>4. QED
  BY <1>1, <1>2, <1>3, IInvHolds, PTL DEF Spec
===============================================================================
