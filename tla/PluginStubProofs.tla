--------------------------- MODULE PluginStubProofs ---------------------------
(***************************************************************************)
(* Proofs about the plugin stub, for any number of Runs and requests and   *)
(* with every fault the model has, and about the other parts of a plugin's *)
(* process.                                                                *)
(*                                                                         *)
(* The stub's inductive invariant follows a Run through its life: before   *)
(* set-up it has nothing (Fresh), then a session and a server goroutine    *)
(* whose states it ties to the stage of the teardown (Life), the reason    *)
(* the server ended with to what Run's select can receive (Reason), and    *)
(* the registration to the gate (Gate).  Drained says why no request is    *)
(* cut off after the streams were counted, Spent that a connection we have *)
(* closed was closed by a Run that has returned.                           *)
(*                                                                         *)
(* Then docker pass run (RunInv: what is merged, resolved and running at   *)
(* each stage), the socket pair (PairInv: whose descriptors exist, and     *)
(* that all are close-on-exec whenever a fork is possible), the switch     *)
(* from HTTP (HijackInv: what is on its way is what remains to be read)    *)
(* and the sum of the four, whose specification is the one of the run.     *)
(***************************************************************************)
EXTENDS MCPluginStub, SequenceTheorems, TLAPS

\* Program points of a Run that holds the stub's mutex.
Active == {"setup", "register", "abort", "started", "wait", "close"}

\* A Run that was turned away or has not begun has nothing.
Fresh(r) ==
  /\ sess[r] = "none" /\ ~goaway[r] /\ ~gate[r] /\ closer[r] = "off"
  /\ teardown[r] = "none" /\ reg[r] = "none"

Life(r) ==
  /\ pc[r] \in Active <=> holder = r
  /\ pc[r] = "returned" <=> result[r] # "none"
  /\ pc[r] \in {"idle", "setup"} => Fresh(r)
  /\ pc[r] = "returned" => IF result[r] = "busy" THEN Fresh(r) ELSE teardown[r] = "done"
  /\ pc[r] \in {"register", "abort", "started", "wait", "close"} => sess[r] # "none"
  /\ sess[r] = "none" <=> srv[r] = "off"
  /\ srv[r] \in {"stopped", "notified", "done"} => sess[r] = "closed"
  /\ teardown[r] \in {"join", "done"} => sess[r] = "closed"
  /\ teardown[r] = "done" => srv[r] = "done"
  /\ teardown[r] # "none" => sess[r] # "none"
  /\ sess[r] = "closed" => conn = "closed"

Gate(r) ==
  /\ pc[r] = "register" => reg[r] = "none"
  /\ pc[r] = "abort" => reg[r] \in Failures
  /\ pc[r] \in {"started", "wait", "close"} => reg[r] = "ok"
  /\ closer[r] # "off" => pc[r] \in {"started", "wait", "close", "returned"} /\ sess[r] # "none"
  /\ gate[r] => pc[r] \in {"wait", "close", "returned"} /\ reg[r] = "ok"
  /\ pc[r] = "close" => got[r] # "none"

Reason(r) ==
  /\ errCh[r] # "empty" \/ got[r] = "error" => srv[r] \in {"notified", "done"}
  /\ errCh[r] = "error" \/ got[r] = "error" => err[r] \in {"reset", "epipe", "closed"}
  /\ sess[r] = "open" /\ conn = "closed" => reg[r] # "ok"
  /\ err[r] = "closed" => sess[r] = "closed" /\ reg[r] # "ok"
  /\ result[r] = "error" => reg[r] \in Failures \/ (reg[r] = "ok" /\ err[r] \in {"reset", "epipe"})

\* Only an earlier Run can have closed the connection a Run finds closed.
Spent(r) == (sess[r] = "open" /\ conn = "closed") \/ "closed" \in {err[r], reg[r]} => UsedUp(r)

Closed == conn = "closed" => \E s \in Run : sess[s] = "closed"

Drained(r) ==
  /\ teardown[r] \in {"drain", "late", "stop"} => goaway[r]
  /\ teardown[r] = "stop" => \A q \in Request : via[q] = r => req[q] \notin Pending

Served == \A q \in Request : req[q] = "serve" => via[q] \in Run /\ gate[via[q]]

StubInv == (\A r \in Run : Life(r) /\ Gate(r) /\ Reason(r) /\ Spent(r) /\ Drained(r)) /\ Closed /\ Served

USE StubAssumption

-----------------------------------------------------------------------------
(* The inductive invariant *)

\* Every action keeps the types; session.Close cuts the requests it carries.
LEMMA TypeStep == TypeOK /\ [Next]_vars => TypeOK'
<1> SUFFICES ASSUME TypeOK, [Next]_vars PROVE TypeOK'
  OBVIOUS
<1>1. ASSUME UNCHANGED <<conn, holder, pc, ctx, sess, goaway, srv, err, errCh, shutdown, gate, closer,
                         teardown, reg, got, result, req, via>>
      PROVE TypeOK'
  BY <1>1 DEF TypeOK, PC, Pending, Lost
<1>2. ASSUME NEW r \in Run, TryLock(r) PROVE TypeOK'
  BY <1>2 DEF TryLock, Goto, TypeOK, PC, Pending, Lost
<1>3. ASSUME NEW r \in Run, NewClientIPC(r) PROVE TypeOK'
  BY <1>3 DEF NewClientIPC, Goto, TypeOK, PC, Pending, Lost
<1>4. ASSUME NEW r \in Run, Register(r) PROVE TypeOK'
  BY <1>4 DEF Register, Goto, TypeOK, PC, Pending, Lost
<1>5. ASSUME NEW r \in Run, RegisterFails(r) PROVE TypeOK'
  BY <1>5 DEF RegisterFails, Goto, TypeOK, PC, Pending, Lost, Failures
<1>6. ASSUME NEW r \in Run, Abort(r) PROVE TypeOK'
  BY <1>6 DEF Abort, Returned, Goto, TypeOK, PC, Pending, Lost
<1>7. ASSUME NEW r \in Run, StartCloser(r) PROVE TypeOK'
  BY <1>7 DEF StartCloser, TypeOK, PC, Pending, Lost
<1>8. ASSUME NEW r \in Run, CompleteSetup(r) PROVE TypeOK'
  BY <1>8 DEF CompleteSetup, Goto, TypeOK, PC, Pending, Lost
<1>9. ASSUME NEW r \in Run, Wait(r) PROVE TypeOK'
  BY <1>9 DEF Wait, Goto, TypeOK, PC, Pending, Lost
<1>10. ASSUME NEW r \in Run, Return(r) PROVE TypeOK'
  BY <1>10 DEF Return, Returned, Goto, TypeOK, PC, Pending, Lost
<1>11. ASSUME NEW r \in Run, SessionFails(r) PROVE TypeOK'
  BY <1>11 DEF SessionFails, SessionClosed, TypeOK, PC, Pending, Lost
<1>12. ASSUME NEW r \in Run, ServeReturns(r) PROVE TypeOK'
  BY <1>12 DEF ServeReturns, TypeOK, PC, Pending, Lost
<1>13. ASSUME NEW r \in Run, OnClose(r) PROVE TypeOK'
  BY <1>13 DEF OnClose, OnCloseError, TypeOK, PC, Pending, Lost
<1>14. ASSUME NEW r \in Run, ServerDone(r) PROVE TypeOK'
  BY <1>14 DEF ServerDone, SessionClosed, TypeOK, PC, Pending, Lost
<1>15. ASSUME NEW r \in Run, CloserWakes(r) PROVE TypeOK'
  BY <1>15 DEF CloserWakes, TypeOK, PC, Pending, Lost
<1>16. ASSUME NEW r \in Run, BeginTeardown(r) PROVE TypeOK'
  BY <1>16 DEF BeginTeardown, TypeOK, PC, Pending, Lost
<1>17. ASSUME NEW r \in Run, GoAway(r) PROVE TypeOK'
  BY <1>17 DEF GoAway, TypeOK, PC, Pending, Lost
<1>18. ASSUME NEW r \in Run, Drain(r) PROVE TypeOK'
  BY <1>18 DEF Drain, TypeOK, PC, Pending, Lost
<1>19. ASSUME NEW r \in Run, StopServer(r) PROVE TypeOK'
  BY <1>19 DEF StopServer, SessionClosed, TypeOK, PC, Pending, Lost
<1>20. ASSUME NEW r \in Run, Join(r) PROVE TypeOK'
  BY <1>20 DEF Join, TypeOK, PC, Pending, Lost
<1>21. ASSUME NEW r \in Run, Cancel(r) PROVE TypeOK'
  BY <1>21 DEF Cancel, TypeOK, PC, Pending, Lost
<1>22. ASSUME NEW r \in Run, Shutdown(r) PROVE TypeOK'
  BY <1>22 DEF Shutdown, TypeOK, PC, Pending, Lost
<1>23. ASSUME NEW q \in Request, SendRequest(q) PROVE TypeOK'
  BY <1>23 DEF SendRequest, runvars, Reachable, TypeOK, PC, Pending, Lost
<1>24. ASSUME NEW q \in Request, PassGate(q) PROVE TypeOK'
  BY <1>24 DEF PassGate, runvars, TypeOK, PC, Pending, Lost
<1>25. ASSUME NEW q \in Request, GateTimeout(q) PROVE TypeOK'
  BY <1>25 DEF GateTimeout, runvars, TypeOK, PC, Pending, Lost
<1>26. ASSUME NEW q \in Request, Respond(q) PROVE TypeOK'
  BY <1>26 DEF Respond, runvars, TypeOK, PC, Pending, Lost
<1>27. ASSUME Disconnect PROVE TypeOK'
  BY <1>27 DEF Disconnect, runvars, Lost, TypeOK, PC, Pending, Lost
<1> QED
  BY <1>1, <1>2, <1>3, <1>4, <1>5, <1>6, <1>7, <1>8, <1>9, <1>10, <1>11, <1>12, <1>13,
     <1>14, <1>15, <1>16, <1>17, <1>18, <1>19, <1>20, <1>21, <1>22, <1>23, <1>24, <1>25,
     <1>26, <1>27
     DEF Next, Main, Server, Teardown, Handler, vars, runvars

\* Whoever has an open session, a server goroutine or a teardown under way
\* holds the stub's mutex; so nobody else has a session.
LEMMA OneOwner ==
  ASSUME TypeOK, StubInv, NEW r \in Run,
         \/ sess[r] = "open"
         \/ srv[r] \in {"serving", "stopped", "notified"}
         \/ teardown[r] \in {"goaway", "drain", "late", "stop", "join"}
  PROVE  holder = r /\ \A s \in Run \ {r} : sess[s] # "open"
<1>1. ASSUME NEW s \in Run,
             \/ sess[s] = "open"
             \/ srv[s] \in {"serving", "stopped", "notified"}
             \/ teardown[s] \in {"goaway", "drain", "late", "stop", "join"}
      PROVE  holder = s
  BY <1>1 DEF TypeOK, PC, StubInv, Life, Fresh, Active
<1> QED
  BY <1>1

\* The stages of a Run, its session, its server goroutine and its teardown keep
\* together.
LEMMA LifeStep == TypeOK /\ StubInv /\ [Next]_vars => \A s \in Run : Life(s)'
<1> SUFFICES ASSUME TypeOK, StubInv, [Next]_vars PROVE \A s \in Run : Life(s)'
  OBVIOUS
<1>1. ASSUME UNCHANGED <<conn, holder, pc, sess, goaway, srv, gate, closer, teardown, reg, result>>
      PROVE \A s \in Run : Life(s)'
  BY <1>1 DEF TypeOK, StubInv, Life, Fresh, Gate, Active
<1>2. ASSUME NEW r \in Run,
             Cancel(r) \/ Shutdown(r)
      PROVE UNCHANGED <<conn, holder, pc, sess, goaway, srv, gate, closer, teardown, reg, result>>
  BY <1>2 DEF Cancel, Shutdown
<1>3. ASSUME NEW q \in Request, SendRequest(q) \/ PassGate(q) \/ GateTimeout(q) \/ Respond(q)
      PROVE UNCHANGED <<conn, holder, pc, sess, goaway, srv, gate, closer, teardown, reg, result>>
  BY <1>3 DEF SendRequest, PassGate, GateTimeout, Respond, runvars
<1>4. ASSUME NEW r \in Run, TryLock(r) PROVE \A s \in Run : Life(s)'
  BY <1>4 DEF TryLock, Goto, TypeOK, StubInv, Life, Fresh, Gate, Active
<1>5. ASSUME NEW r \in Run, NewClientIPC(r) PROVE \A s \in Run : Life(s)'
  BY <1>5 DEF NewClientIPC, Goto, TypeOK, StubInv, Life, Fresh, Gate, Active
<1>6. ASSUME NEW r \in Run, Register(r) PROVE \A s \in Run : Life(s)'
  BY <1>6 DEF Register, Goto, TypeOK, StubInv, Life, Fresh, Gate, Active
<1>7. ASSUME NEW r \in Run, RegisterFails(r) PROVE \A s \in Run : Life(s)'
  BY <1>7 DEF RegisterFails, Goto, TypeOK, StubInv, Life, Fresh, Gate, Active
<1>8. ASSUME NEW r \in Run, Abort(r) PROVE \A s \in Run : Life(s)'
  BY <1>8 DEF Abort, Returned, Goto, TypeOK, StubInv, Life, Fresh, Gate, Active
<1>9. ASSUME NEW r \in Run, StartCloser(r) PROVE \A s \in Run : Life(s)'
  BY <1>9 DEF StartCloser, TypeOK, StubInv, Life, Fresh, Gate, Active
<1>10. ASSUME NEW r \in Run, CompleteSetup(r) PROVE \A s \in Run : Life(s)'
  BY <1>10 DEF CompleteSetup, Goto, TypeOK, StubInv, Life, Fresh, Gate, Active
<1>11. ASSUME NEW r \in Run, Wait(r) PROVE \A s \in Run : Life(s)'
  BY <1>11 DEF Wait, Goto, TypeOK, StubInv, Life, Fresh, Gate, Active
<1>12. ASSUME NEW r \in Run, Return(r) PROVE \A s \in Run : Life(s)'
  BY <1>12 DEF Return, Returned, Goto, TypeOK, StubInv, Life, Fresh, Gate, Active
<1>13. ASSUME NEW r \in Run, SessionFails(r) PROVE \A s \in Run : Life(s)'
  BY <1>13 DEF SessionFails, SessionClosed, TypeOK, StubInv, Life, Fresh, Gate, Active
<1>14. ASSUME NEW r \in Run, ServeReturns(r) PROVE \A s \in Run : Life(s)'
  BY <1>14 DEF ServeReturns, TypeOK, StubInv, Life, Fresh, Gate, Active
<1>15. ASSUME NEW r \in Run, OnClose(r) PROVE \A s \in Run : Life(s)'
  BY <1>15 DEF OnClose, OnCloseError, TypeOK, StubInv, Life, Fresh, Gate, Active
<1>16. ASSUME NEW r \in Run, ServerDone(r) PROVE \A s \in Run : Life(s)'
  BY <1>16 DEF ServerDone, SessionClosed, TypeOK, StubInv, Life, Fresh, Gate, Active
<1>17. ASSUME NEW r \in Run, CloserWakes(r) PROVE \A s \in Run : Life(s)'
  BY <1>17 DEF CloserWakes, TypeOK, StubInv, Life, Fresh, Gate, Active
<1>18. ASSUME NEW r \in Run, BeginTeardown(r) PROVE \A s \in Run : Life(s)'
  BY <1>18 DEF BeginTeardown, TypeOK, StubInv, Life, Fresh, Gate, Active
<1>19. ASSUME NEW r \in Run, GoAway(r) PROVE \A s \in Run : Life(s)'
  BY <1>19 DEF GoAway, TypeOK, StubInv, Life, Fresh, Gate, Active
<1>20. ASSUME NEW r \in Run, Drain(r) PROVE \A s \in Run : Life(s)'
  BY <1>20 DEF Drain, TypeOK, StubInv, Life, Fresh, Gate, Active
<1>21. ASSUME NEW r \in Run, StopServer(r) PROVE \A s \in Run : Life(s)'
  BY <1>21 DEF StopServer, SessionClosed, TypeOK, StubInv, Life, Fresh, Gate, Active
<1>22. ASSUME NEW r \in Run, Join(r) PROVE \A s \in Run : Life(s)'
  BY <1>22 DEF Join, TypeOK, StubInv, Life, Fresh, Gate, Active
<1>23. ASSUME Disconnect PROVE \A s \in Run : Life(s)'
  BY <1>23 DEF Disconnect, runvars, Lost, TypeOK, StubInv, Life, Fresh, Gate, Active
<1> QED
  BY <1>1, <1>2, <1>3, <1>4, <1>5, <1>6, <1>7, <1>8, <1>9, <1>10, <1>11, <1>12, <1>13,
     <1>14, <1>15, <1>16, <1>17, <1>18, <1>19, <1>20, <1>21, <1>22, <1>23
     DEF Next, Main, Server, Teardown, Handler, vars, runvars

\* The gate opens after a registration the engine has accepted.
LEMMA GateStep == TypeOK /\ StubInv /\ [Next]_vars => \A s \in Run : Gate(s)'
<1> SUFFICES ASSUME TypeOK, StubInv, [Next]_vars PROVE \A s \in Run : Gate(s)'
  OBVIOUS
<1>1. ASSUME UNCHANGED <<pc, sess, gate, closer, reg, got>>
      PROVE \A s \in Run : Gate(s)'
  BY <1>1 DEF TypeOK, StubInv, Life, Fresh, Gate
<1>2. ASSUME NEW r \in Run,
             ServeReturns(r) \/ OnClose(r) \/ BeginTeardown(r) \/ GoAway(r) \/ Drain(r) \/
             Join(r) \/ Cancel(r) \/ Shutdown(r)
      PROVE UNCHANGED <<pc, sess, gate, closer, reg, got>>
  BY <1>2 DEF ServeReturns, OnClose, BeginTeardown, GoAway, Drain, Join, Cancel, Shutdown
<1>3. ASSUME NEW q \in Request, SendRequest(q) \/ PassGate(q) \/ GateTimeout(q) \/ Respond(q)
      PROVE UNCHANGED <<pc, sess, gate, closer, reg, got>>
  BY <1>3 DEF SendRequest, PassGate, GateTimeout, Respond, runvars
<1>4. ASSUME NEW r \in Run, TryLock(r) PROVE \A s \in Run : Gate(s)'
  BY <1>4 DEF TryLock, Goto, TypeOK, StubInv, Life, Fresh, Gate
<1>5. ASSUME NEW r \in Run, NewClientIPC(r) PROVE \A s \in Run : Gate(s)'
  BY <1>5 DEF NewClientIPC, Goto, TypeOK, StubInv, Life, Fresh, Gate
<1>6. ASSUME NEW r \in Run, Register(r) PROVE \A s \in Run : Gate(s)'
  BY <1>6 DEF Register, Goto, TypeOK, StubInv, Life, Fresh, Gate
<1>7. ASSUME NEW r \in Run, RegisterFails(r) PROVE \A s \in Run : Gate(s)'
  BY <1>7 DEF RegisterFails, Goto, TypeOK, StubInv, Life, Fresh, Gate
<1>8. ASSUME NEW r \in Run, Abort(r) PROVE \A s \in Run : Gate(s)'
  BY <1>8 DEF Abort, Returned, Goto, TypeOK, StubInv, Life, Fresh, Gate
<1>9. ASSUME NEW r \in Run, StartCloser(r) PROVE \A s \in Run : Gate(s)'
  BY <1>9 DEF StartCloser, TypeOK, StubInv, Life, Fresh, Gate
<1>10. ASSUME NEW r \in Run, CompleteSetup(r) PROVE \A s \in Run : Gate(s)'
  BY <1>10 DEF CompleteSetup, Goto, TypeOK, StubInv, Life, Fresh, Gate
<1>11. ASSUME NEW r \in Run, Wait(r) PROVE \A s \in Run : Gate(s)'
  BY <1>11 DEF Wait, Goto, TypeOK, StubInv, Life, Fresh, Gate
<1>12. ASSUME NEW r \in Run, Return(r) PROVE \A s \in Run : Gate(s)'
  BY <1>12 DEF Return, Returned, Goto, TypeOK, StubInv, Life, Fresh, Gate
<1>13. ASSUME NEW r \in Run, SessionFails(r) PROVE \A s \in Run : Gate(s)'
  BY <1>13 DEF SessionFails, SessionClosed, TypeOK, StubInv, Life, Fresh, Gate
<1>14. ASSUME NEW r \in Run, ServerDone(r) PROVE \A s \in Run : Gate(s)'
  BY <1>14 DEF ServerDone, SessionClosed, TypeOK, StubInv, Life, Fresh, Gate
<1>15. ASSUME NEW r \in Run, CloserWakes(r) PROVE \A s \in Run : Gate(s)'
  BY <1>15 DEF CloserWakes, TypeOK, StubInv, Life, Fresh, Gate
<1>16. ASSUME NEW r \in Run, StopServer(r) PROVE \A s \in Run : Gate(s)'
  BY <1>16 DEF StopServer, SessionClosed, TypeOK, StubInv, Life, Fresh, Gate
<1>17. ASSUME Disconnect PROVE UNCHANGED <<pc, sess, gate, closer, reg, got>>
  BY <1>17 DEF Disconnect, runvars
<1> QED
  BY <1>1, <1>2, <1>3, <1>4, <1>5, <1>6, <1>7, <1>8, <1>9, <1>10, <1>11, <1>12, <1>13,
     <1>14, <1>15, <1>16, <1>17
     DEF Next, Main, Server, Teardown, Handler, vars, runvars

\* What Run's select receives comes from the reason the server ended with, and
\* a registered Run's session never meets a connection that we closed.
LEMMA ReasonStep == TypeOK /\ StubInv /\ [Next]_vars => \A s \in Run : Reason(s)'
<1> SUFFICES ASSUME TypeOK, StubInv, [Next]_vars PROVE \A s \in Run : Reason(s)'
  OBVIOUS
<1>1. ASSUME UNCHANGED <<conn, sess, srv, err, errCh, reg, got, result>>
      PROVE \A s \in Run : Reason(s)'
  BY <1>1 DEF TypeOK, StubInv, Life, Fresh, Gate, Reason
<1>2. ASSUME NEW r \in Run,
             StartCloser(r) \/ CompleteSetup(r) \/ CloserWakes(r) \/ BeginTeardown(r) \/
             GoAway(r) \/ Drain(r) \/ Join(r) \/ Cancel(r) \/ Shutdown(r)
      PROVE UNCHANGED <<conn, sess, srv, err, errCh, reg, got, result>>
  BY <1>2 DEF StartCloser, CompleteSetup, CloserWakes, BeginTeardown, GoAway, Drain, Join,
       Cancel, Shutdown
<1>3. ASSUME NEW q \in Request, SendRequest(q) \/ PassGate(q) \/ GateTimeout(q) \/ Respond(q)
      PROVE UNCHANGED <<conn, sess, srv, err, errCh, reg, got, result>>
  BY <1>3 DEF SendRequest, PassGate, GateTimeout, Respond, runvars
<1>4. ASSUME NEW r \in Run, TryLock(r) PROVE \A s \in Run : Reason(s)'
  BY <1>4 DEF TryLock, Goto, TypeOK, StubInv, Life, Fresh, Gate, Reason
<1>5. ASSUME NEW r \in Run, NewClientIPC(r) PROVE \A s \in Run : Reason(s)'
  BY <1>5 DEF NewClientIPC, Goto, TypeOK, StubInv, Life, Fresh, Gate, Reason
<1>6. ASSUME NEW r \in Run, Register(r) PROVE \A s \in Run : Reason(s)'
  BY <1>6 DEF Register, Goto, TypeOK, StubInv, Life, Fresh, Gate, Reason
<1>7. ASSUME NEW r \in Run, RegisterFails(r) PROVE \A s \in Run : Reason(s)'
  BY <1>7 DEF RegisterFails, Goto, TypeOK, StubInv, Life, Fresh, Gate, Reason
<1>8. ASSUME NEW r \in Run, Abort(r) PROVE \A s \in Run : Reason(s)'
  BY <1>8 DEF Abort, Returned, Goto, TypeOK, StubInv, Life, Fresh, Gate, Reason
<1>9. ASSUME NEW r \in Run, Wait(r) PROVE \A s \in Run : Reason(s)'
  BY <1>9 DEF Wait, Goto, TypeOK, StubInv, Life, Fresh, Gate, Reason
<1>10. ASSUME NEW r \in Run, Return(r) PROVE \A s \in Run : Reason(s)'
  <2>1. reg[r] = "ok" /\ err[r] # "closed" /\ pc[r] = "close"
    BY <1>10 DEF Return, StubInv, Gate, Reason
  <2>2. /\ got[r] = "error" => err[r] \in {"reset", "epipe"}
        /\ ServerError(err[r]) # "nil" => err[r] \in {"reset", "epipe"}
    BY <2>1 DEF StubInv, Reason, ServerError, TypeOK, Lost
  <2>3. result'[r] = "error" => err[r] \in {"reset", "epipe"}
    <3>1. got[r] \in {"nil", "error"}
      BY <2>1 DEF TypeOK, StubInv, Gate
    <3> QED
      BY <1>10, <2>2, <3>1 DEF Return, Returned, TypeOK
  <2>4. \A s \in Run \ {r} : result'[s] = result[s]
    BY <1>10 DEF Return, Returned, TypeOK
  <2>5. UNCHANGED <<conn, sess, srv, err, errCh, reg, got>>
    BY <1>10 DEF Return
  <2> QED
    BY <2>1, <2>3, <2>4, <2>5 DEF StubInv, Reason
<1>11. ASSUME NEW r \in Run, SessionFails(r) PROVE \A s \in Run : Reason(s)'
  <2>1. \A s \in Run \ {r} : sess[s] # "open"
    BY <1>11, OneOwner DEF SessionFails
  <2>2. srv[r] = "serving" /\ result[r] # "error"
    BY <1>11 DEF SessionFails, TypeOK, StubInv, Life, Fresh
  <2>3. conn = "closed" => reg[r] # "ok"
    BY <1>11 DEF SessionFails, StubInv, Reason
  <2>4. Reason(r)'
    BY <1>11, <2>2, <2>3 DEF SessionFails, SessionClosed, TypeOK, StubInv, Reason
  <2>5. \A s \in Run \ {r} : Reason(s)'
    BY <1>11, <2>1 DEF SessionFails, SessionClosed, TypeOK, StubInv, Reason
  <2> QED
    BY <2>4, <2>5
<1>12. ASSUME NEW r \in Run, ServeReturns(r) PROVE \A s \in Run : Reason(s)'
  <2>1. srv[r] = "serving" /\ UNCHANGED <<conn, sess, errCh, reg, got, result>>
    BY <1>12 DEF ServeReturns
  <2>2. /\ err'[r] \in {err[r], "nil"} /\ srv'[r] = "stopped"
        /\ \A s \in Run \ {r} : err'[s] = err[s] /\ srv'[s] = srv[s]
    BY <1>12 DEF ServeReturns, TypeOK
  <2>3. errCh[r] = "empty" /\ got[r] # "error" /\ result[r] # "error"
    BY <2>1 DEF TypeOK, StubInv, Life, Fresh, Reason
  <2>4. Reason(r)'
    BY <2>1, <2>2, <2>3 DEF StubInv, Reason
  <2>5. \A s \in Run \ {r} : Reason(s)'
    BY <2>1, <2>2 DEF StubInv, Reason
  <2> QED
    BY <2>4, <2>5
<1>13. ASSUME NEW r \in Run, OnClose(r) PROVE \A s \in Run : Reason(s)'
  <2>1. errCh'[r] = "error" => err[r] \in {"reset", "epipe", "closed"}
    BY <1>13 DEF OnClose, OnCloseError, TypeOK, Lost
  <2>2. srv'[r] = "notified" /\ UNCHANGED <<conn, sess, err, reg, got, result>>
    BY <1>13 DEF OnClose, TypeOK
  <2>3. \A s \in Run \ {r} : errCh'[s] = errCh[s] /\ srv'[s] = srv[s]
    BY <1>13 DEF OnClose, TypeOK
  <2>4. Reason(r)'
    BY <2>1, <2>2 DEF StubInv, Reason
  <2>5. \A s \in Run \ {r} : Reason(s)'
    BY <2>2, <2>3 DEF StubInv, Reason
  <2> QED
    BY <2>4, <2>5
<1>14. ASSUME NEW r \in Run, ServerDone(r) PROVE \A s \in Run : Reason(s)'
  <2>1. \A s \in Run \ {r} : sess[s] # "open"
    BY <1>14, OneOwner DEF ServerDone
  <2>2. UNCHANGED <<err, errCh, reg, got, result>> /\ sess' = [sess EXCEPT ![r] = "closed"]
    BY <1>14 DEF ServerDone, SessionClosed
  <2>3. srv' = [srv EXCEPT ![r] = "done"]
    BY <1>14 DEF ServerDone
  <2> QED
    BY <2>1, <2>2, <2>3 DEF TypeOK, StubInv, Reason
<1>15. ASSUME NEW r \in Run, StopServer(r) PROVE \A s \in Run : Reason(s)'
  <2>1. \A s \in Run \ {r} : sess[s] # "open"
    BY <1>15, OneOwner DEF StopServer
  <2>2. UNCHANGED <<srv, err, errCh, reg, got, result>> /\ sess' = [sess EXCEPT ![r] = "closed"]
    BY <1>15 DEF StopServer, SessionClosed
  <2> QED
    BY <2>1, <2>2 DEF TypeOK, StubInv, Reason
<1>16. ASSUME Disconnect PROVE \A s \in Run : Reason(s)'
  BY <1>16 DEF Disconnect, runvars, Lost, TypeOK, StubInv, Life, Fresh, Gate, Reason
<1> QED
  BY <1>1, <1>2, <1>3, <1>4, <1>5, <1>6, <1>7, <1>8, <1>9, <1>10, <1>11, <1>12, <1>13,
     <1>14, <1>15, <1>16
     DEF Next, Main, Server, Teardown, Handler, vars, runvars

\* A Run that has returned stays so, and its session stays closed.
LEMMA UsedUpStays ==
  ASSUME TypeOK, StubInv, [Next]_vars, NEW s \in Run, UsedUp(s)
  PROVE  UsedUp(s)'
<1>0. PICK t \in Run \ {s} : pc[t] = "returned" /\ sess[t] = "closed"
  BY DEF UsedUp
<1>1. ASSUME NEW r \in Run,
             TryLock(r) \/ NewClientIPC(r) \/ Register(r) \/ RegisterFails(r) \/ Abort(r)
               \/ StartCloser(r) \/ CompleteSetup(r) \/ Wait(r) \/ Return(r)
      PROVE  pc'[t] = "returned" /\ sess'[t] = "closed"
  BY <1>0, <1>1 DEF TryLock, NewClientIPC, Register, RegisterFails, Abort, StartCloser, CompleteSetup,
       Wait, Return, Returned, Goto, TypeOK
<1>2. ASSUME NEW r \in Run,
             SessionFails(r) \/ ServeReturns(r) \/ OnClose(r) \/ ServerDone(r) \/ CloserWakes(r)
               \/ BeginTeardown(r) \/ GoAway(r) \/ Drain(r) \/ StopServer(r) \/ Join(r)
               \/ Cancel(r) \/ Shutdown(r)
      PROVE  pc'[t] = "returned" /\ sess'[t] = "closed"
  BY <1>0, <1>2 DEF SessionFails, ServeReturns, OnClose, ServerDone, CloserWakes, BeginTeardown,
       GoAway, Drain, StopServer, Join, Cancel, Shutdown, SessionClosed, TypeOK
<1>3. ASSUME NEW q \in Request, SendRequest(q) \/ Handler(q)
      PROVE  UNCHANGED <<pc, sess>>
  BY <1>3 DEF SendRequest, Handler, PassGate, GateTimeout, Respond, runvars
<1>4. UNCHANGED vars \/ Disconnect => UNCHANGED <<pc, sess>>
  BY DEF vars, runvars, Disconnect
<1>5. pc'[t] = "returned" /\ sess'[t] = "closed"
  BY <1>0, <1>1, <1>2, <1>3, <1>4 DEF Next, Main, Server, Teardown
<1> QED
  BY <1>5 DEF UsedUp

\* A connection that we have closed was closed with a session.
LEMMA ClosedStep == TypeOK /\ StubInv /\ [Next]_vars => Closed'
<1> SUFFICES ASSUME TypeOK, StubInv, [Next]_vars PROVE Closed'
  OBVIOUS
<1>1. ASSUME NEW r \in Run, SessionClosed(r) PROVE Closed'
  BY <1>1 DEF SessionClosed, Closed, TypeOK
<1>2. ASSUME UNCHANGED <<conn, sess>> PROVE Closed'
  BY <1>2 DEF StubInv, Closed
<1>3. ASSUME NEW r \in Run, NewClientIPC(r) PROVE Closed'
  BY <1>3 DEF NewClientIPC, StubInv, Life, Fresh, Closed, TypeOK
<1>4. ASSUME NEW r \in Run,
             TryLock(r) \/ Register(r) \/ RegisterFails(r) \/ Abort(r) \/ StartCloser(r)
               \/ CompleteSetup(r) \/ Wait(r) \/ Return(r) \/ ServeReturns(r) \/ OnClose(r)
               \/ CloserWakes(r) \/ BeginTeardown(r) \/ GoAway(r) \/ Drain(r) \/ Join(r)
               \/ Cancel(r) \/ Shutdown(r)
      PROVE  UNCHANGED <<conn, sess>>
  BY <1>4 DEF TryLock, Register, RegisterFails, Abort, StartCloser, CompleteSetup, Wait, Return,
       ServeReturns, OnClose, CloserWakes, BeginTeardown, GoAway, Drain, Join, Cancel, Shutdown
<1>5. ASSUME NEW q \in Request, SendRequest(q) \/ Handler(q) PROVE UNCHANGED <<conn, sess>>
  BY <1>5 DEF SendRequest, Handler, PassGate, GateTimeout, Respond, runvars
<1>6. Disconnect => Closed'
  BY DEF Disconnect, Closed, Lost
<1>7. UNCHANGED vars => UNCHANGED <<conn, sess>>
  BY DEF vars, runvars
<1>8. ASSUME NEW r \in Run, SessionFails(r) \/ ServerDone(r) \/ StopServer(r) PROVE SessionClosed(r)
  BY <1>8 DEF SessionFails, ServerDone, StopServer
<1> QED
  BY <1>1, <1>2, <1>3, <1>4, <1>5, <1>6, <1>7, <1>8 DEF Next, Main, Server, Teardown

\* A Run finds the connection closed only where an earlier one has returned.
LEMMA SpentStep == TypeOK /\ StubInv /\ [Next]_vars => \A s \in Run : Spent(s)'
<1> SUFFICES ASSUME TypeOK, StubInv, [Next]_vars, NEW s \in Run PROVE Spent(s)'
  OBVIOUS
<1>0. UsedUp(s) => UsedUp(s)'
  BY UsedUpStays
<1>a. Spent(s)
  BY DEF StubInv
<1>1. ASSUME UNCHANGED <<conn, sess, err, reg>> PROVE Spent(s)'
  BY <1>0, <1>1, <1>a DEF Spent
<1>2. ASSUME NEW r \in Run,
             TryLock(r) \/ Abort(r) \/ StartCloser(r) \/ CompleteSetup(r) \/ Wait(r) \/ Return(r)
               \/ OnClose(r) \/ CloserWakes(r) \/ BeginTeardown(r) \/ GoAway(r) \/ Drain(r)
               \/ Join(r) \/ Cancel(r) \/ Shutdown(r)
      PROVE  UNCHANGED <<conn, sess, err, reg>>
  BY <1>2 DEF TryLock, Abort, StartCloser, CompleteSetup, Wait, Return, OnClose, CloserWakes,
       BeginTeardown, GoAway, Drain, Join, Cancel, Shutdown
<1>3. ASSUME NEW q \in Request, SendRequest(q) \/ Handler(q) PROVE UNCHANGED <<conn, sess, err, reg>>
  BY <1>3 DEF SendRequest, Handler, PassGate, GateTimeout, Respond, runvars
<1>4. ASSUME NEW r \in Run, NewClientIPC(r) PROVE Spent(s)'
  <2>1. holder = r /\ sess[r] = "none"
    BY <1>4 DEF NewClientIPC, StubInv, Life, Fresh, Active
  <2>2. conn = "closed" => UsedUp(r)
    <3> SUFFICES ASSUME conn = "closed" PROVE UsedUp(r)
      OBVIOUS
    <3>1. PICK t \in Run : sess[t] = "closed"
      BY DEF StubInv, Closed
    <3>2. t # r /\ pc[t] = "returned"
      BY <2>1, <3>1 DEF StubInv, Life, Fresh, Active, TypeOK, PC
    <3> QED
      BY <3>1, <3>2 DEF UsedUp
  <2>3. sess' = [sess EXCEPT ![r] = "open"] /\ UNCHANGED <<conn, err, reg>>
    BY <1>4 DEF NewClientIPC
  <2> QED
    BY <1>0, <1>a, <2>2, <2>3 DEF Spent, TypeOK
<1>5. ASSUME NEW r \in Run, Register(r) PROVE Spent(s)'
  BY <1>0, <1>5, <1>a DEF Register, Spent, TypeOK
<1>6. ASSUME NEW r \in Run, RegisterFails(r) PROVE Spent(s)'
  <2>1. PICK why \in Failures :
          /\ why = "closed" => why = err[r]
          /\ reg' = [reg EXCEPT ![r] = why]
    BY <1>6 DEF RegisterFails
  <2>2. UNCHANGED <<conn, sess, err>>
    BY <1>6 DEF RegisterFails
  <2> QED
    BY <1>0, <1>a, <2>1, <2>2 DEF Spent, TypeOK
<1>7. ASSUME NEW r \in Run, SessionFails(r) PROVE Spent(s)'
  <2>1. s # r => sess[s] # "open"
    BY <1>7, OneOwner DEF SessionFails
  <2>2. sess[r] = "open" /\ err' = [err EXCEPT ![r] = conn] /\ sess' = [sess EXCEPT ![r] = "closed"] /\ reg' = reg
    BY <1>7 DEF SessionFails, SessionClosed
  <2> QED
    BY <1>0, <1>a, <2>1, <2>2 DEF Spent, TypeOK
<1>8. ASSUME NEW r \in Run, ServeReturns(r) PROVE Spent(s)'
  <2>1. err'[s] \in {err[s], "nil"} /\ UNCHANGED <<conn, sess, reg>>
    BY <1>8 DEF ServeReturns, TypeOK
  <2> QED
    BY <1>0, <1>a, <2>1 DEF Spent
<1>9. ASSUME NEW r \in Run, ServerDone(r) \/ StopServer(r) PROVE Spent(s)'
  <2>1. s # r => sess[s] # "open"
    BY <1>9, OneOwner DEF ServerDone, StopServer
  <2>2. sess' = [sess EXCEPT ![r] = "closed"] /\ UNCHANGED <<err, reg>>
    BY <1>9 DEF ServerDone, StopServer, SessionClosed
  <2> QED
    BY <1>0, <1>a, <2>1, <2>2 DEF Spent, TypeOK
<1>10. ASSUME Disconnect PROVE Spent(s)'
  BY <1>0, <1>10, <1>a DEF Disconnect, runvars, Lost, Spent
<1>11. UNCHANGED vars => UNCHANGED <<conn, sess, err, reg>>
  BY DEF vars, runvars
<1> QED
  BY <1>1, <1>2, <1>3, <1>4, <1>5, <1>6, <1>7, <1>8, <1>9, <1>10, <1>11 DEF Next, Main, Server, Teardown

\* Once the streams are counted, GoAway keeps new ones away.
LEMMA DrainedStep == TypeOK /\ StubInv /\ [Next]_vars => \A s \in Run : Drained(s)'
<1> SUFFICES ASSUME TypeOK, StubInv, [Next]_vars PROVE \A s \in Run : Drained(s)'
  OBVIOUS
<1>1. ASSUME UNCHANGED <<goaway, teardown, req, via>>
      PROVE \A s \in Run : Drained(s)'
  BY <1>1 DEF TypeOK, StubInv, Drained, Pending
<1>2. ASSUME NEW r \in Run,
             TryLock(r) \/ NewClientIPC(r) \/ Register(r) \/ RegisterFails(r) \/ Abort(r)
             \/ StartCloser(r) \/ CompleteSetup(r) \/ Wait(r) \/ Return(r) \/
             ServeReturns(r) \/ OnClose(r) \/ CloserWakes(r) \/ Cancel(r) \/ Shutdown(r)
      PROVE UNCHANGED <<goaway, teardown, req, via>>
  BY <1>2 DEF TryLock, NewClientIPC, Register, RegisterFails, Abort, StartCloser,
       CompleteSetup, Wait, Return, ServeReturns, OnClose, CloserWakes, Cancel, Shutdown
<1>3. ASSUME NEW r \in Run, SessionFails(r) PROVE \A s \in Run : Drained(s)'
  BY <1>3 DEF SessionFails, SessionClosed, TypeOK, StubInv, Drained, Pending
<1>4. ASSUME NEW r \in Run, ServerDone(r) PROVE \A s \in Run : Drained(s)'
  BY <1>4 DEF ServerDone, SessionClosed, TypeOK, StubInv, Drained, Pending
<1>5. ASSUME NEW r \in Run, BeginTeardown(r) PROVE \A s \in Run : Drained(s)'
  BY <1>5 DEF BeginTeardown, TypeOK, StubInv, Drained, Pending
<1>6. ASSUME NEW r \in Run, GoAway(r) PROVE \A s \in Run : Drained(s)'
  BY <1>6 DEF GoAway, TypeOK, StubInv, Drained, Pending
<1>7. ASSUME NEW r \in Run, Drain(r) PROVE \A s \in Run : Drained(s)'
  BY <1>7 DEF Drain, TypeOK, StubInv, Drained, Pending
<1>8. ASSUME NEW r \in Run, StopServer(r) PROVE \A s \in Run : Drained(s)'
  BY <1>8 DEF StopServer, SessionClosed, TypeOK, StubInv, Drained, Pending
<1>9. ASSUME NEW r \in Run, Join(r) PROVE \A s \in Run : Drained(s)'
  BY <1>9 DEF Join, TypeOK, StubInv, Drained, Pending
<1>10. ASSUME NEW q \in Request, SendRequest(q) PROVE \A s \in Run : Drained(s)'
  BY <1>10 DEF SendRequest, runvars, Reachable, TypeOK, StubInv, Drained, Pending
<1>11. ASSUME NEW q \in Request, PassGate(q) PROVE \A s \in Run : Drained(s)'
  BY <1>11 DEF PassGate, runvars, TypeOK, StubInv, Drained, Pending
<1>12. ASSUME NEW q \in Request, GateTimeout(q) PROVE \A s \in Run : Drained(s)'
  BY <1>12 DEF GateTimeout, runvars, TypeOK, StubInv, Drained, Pending
<1>13. ASSUME NEW q \in Request, Respond(q) PROVE \A s \in Run : Drained(s)'
  BY <1>13 DEF Respond, runvars, TypeOK, StubInv, Drained, Pending
<1>14. ASSUME Disconnect PROVE UNCHANGED <<goaway, teardown, req, via>>
  BY <1>14 DEF Disconnect, runvars
<1> QED
  BY <1>1, <1>2, <1>3, <1>4, <1>5, <1>6, <1>7, <1>8, <1>9, <1>10, <1>11, <1>12, <1>13,
     <1>14
     DEF Next, Main, Server, Teardown, Handler, vars, runvars

\* A request is served on a session whose gate is open.
LEMMA ServedStep == TypeOK /\ StubInv /\ [Next]_vars => Served'
<1> SUFFICES ASSUME TypeOK, StubInv, [Next]_vars PROVE Served'
  OBVIOUS
<1>1. ASSUME UNCHANGED <<gate, req, via>>
      PROVE Served'
  BY <1>1 DEF TypeOK, StubInv, Served, Pending
<1>2. ASSUME NEW r \in Run,
             TryLock(r) \/ NewClientIPC(r) \/ Register(r) \/ RegisterFails(r) \/ Abort(r)
             \/ StartCloser(r) \/ Wait(r) \/ Return(r) \/ ServeReturns(r) \/ OnClose(r) \/
             CloserWakes(r) \/ BeginTeardown(r) \/ GoAway(r) \/ Drain(r) \/ Join(r) \/
             Cancel(r) \/ Shutdown(r)
      PROVE UNCHANGED <<gate, req, via>>
  BY <1>2 DEF TryLock, NewClientIPC, Register, RegisterFails, Abort, StartCloser, Wait,
       Return, ServeReturns, OnClose, CloserWakes, BeginTeardown, GoAway, Drain, Join,
       Cancel, Shutdown
<1>3. ASSUME NEW r \in Run, CompleteSetup(r) PROVE Served'
  BY <1>3 DEF CompleteSetup, Goto, TypeOK, StubInv, Served, Pending
<1>4. ASSUME NEW r \in Run, SessionFails(r) PROVE Served'
  BY <1>4 DEF SessionFails, SessionClosed, TypeOK, StubInv, Served, Pending
<1>5. ASSUME NEW r \in Run, ServerDone(r) PROVE Served'
  BY <1>5 DEF ServerDone, SessionClosed, TypeOK, StubInv, Served, Pending
<1>6. ASSUME NEW r \in Run, StopServer(r) PROVE Served'
  BY <1>6 DEF StopServer, SessionClosed, TypeOK, StubInv, Served, Pending
<1>7. ASSUME NEW q \in Request, SendRequest(q) PROVE Served'
  BY <1>7 DEF SendRequest, runvars, Reachable, TypeOK, StubInv, Served, Pending
<1>8. ASSUME NEW q \in Request, PassGate(q) PROVE Served'
  BY <1>8 DEF PassGate, runvars, TypeOK, StubInv, Served, Pending
<1>9. ASSUME NEW q \in Request, GateTimeout(q) PROVE Served'
  BY <1>9 DEF GateTimeout, runvars, TypeOK, StubInv, Served, Pending
<1>10. ASSUME NEW q \in Request, Respond(q) PROVE Served'
  BY <1>10 DEF Respond, runvars, TypeOK, StubInv, Served, Pending
<1>11. ASSUME Disconnect PROVE UNCHANGED <<gate, req, via>>
  BY <1>11 DEF Disconnect, runvars
<1> QED
  BY <1>1, <1>2, <1>3, <1>4, <1>5, <1>6, <1>7, <1>8, <1>9, <1>10, <1>11
     DEF Next, Main, Server, Teardown, Handler, vars, runvars

IInv == TypeOK /\ StubInv

\* The stub's invariant holds in the beginning.
LEMMA InvInit == Init => IInv
BY DEF Init, IInv, TypeOK, PC, Pending, Lost, StubInv, Life, Fresh, Gate, Reason, Drained, Served,
     Active, Spent, Closed, Failures

\* Every step of the stub keeps it.
LEMMA InvStep == IInv /\ [Next]_vars => IInv'
<1> SUFFICES ASSUME IInv, [Next]_vars PROVE IInv'
  OBVIOUS
<1>1. TypeOK'
  BY TypeStep DEF IInv
<1>2. StubInv'
  BY LifeStep, GateStep, ReasonStep, SpentStep, ClosedStep, DrainedStep, ServedStep DEF IInv, StubInv
<1> QED
  BY <1>1, <1>2 DEF IInv

-----------------------------------------------------------------------------
(* Theorems *)

\* The types are an invariant; in particular a request that is in the plugin
\* is carried by an open session.
THEOREM TypeCorrect == Spec => []TypeOK
<1>1. IInv => TypeOK
  BY DEF IInv
<1> QED
  BY <1>1, InvInit, InvStep, PTL DEF Spec

\* Run's TryLock keeps two Runs from ever having a session or a server
\* goroutine at the same time, and setupInterceptor lets the provider see only
\* requests of a session the engine has accepted, for any number of concurrent
\* calls of Run.
THEOREM SessionsAreExclusive == Spec => []OneRegisteredSession
<1>1. IInv => OneRegisteredSession
  <2> SUFFICES ASSUME IInv PROVE OneRegisteredSession
    OBVIOUS
  <2>1. OneSession
    <3> SUFFICES ASSUME NEW r \in Run, NEW s \in Run, r # s, sess[r] = "open",
                        sess[s] = "open" \/ srv[s] \in {"serving", "stopped", "notified"}
                 PROVE  FALSE
      BY DEF OneSession
    <3> QED
      BY OneOwner DEF IInv
  <2>2. ServedOnlyRegistered
    BY DEF IInv, StubInv, Served, Gate, ServedOnlyRegistered
  <2> QED
    BY <2>1, <2>2 DEF OneRegisteredSession
<1> QED
  BY <1>1, InvInit, InvStep, PTL DEF Spec

\* However Run ends (cancelled, shut down, disconnected, not registered, in
\* every order), it leaves no session, connection or server goroutine behind,
\* and it returns an error only if the registration failed, which a connection
\* that we closed makes it do only after an earlier Run has returned, or if the
\* connection broke (Run, newMuxedIPC's teardown, setup's onClose).
THEOREM RunsEndCleanly == Spec => []RunEndsCleanly
<1>1. IInv => RunEndsCleanly
  <2> SUFFICES ASSUME IInv PROVE RunEndsCleanly
    OBVIOUS
  <2>1. NothingLeftBehind
    BY DEF IInv, StubInv, Life, Fresh, NothingLeftBehind
  <2>2. CleanExit
    BY DEF IInv, StubInv, Reason, Spent, CleanExit
  <2> QED
    BY <2>1, <2>2 DEF RunEndsCleanly
<1> QED
  BY <1>1, InvInit, InvStep, PTL DEF Spec

\* A request that has reached the plugin is cut off only when the engine is
\* gone or the drain timed out: the order GoAway, count, close of
\* newMuxedIPC's teardown leaves no gap.
THEOREM StopsGracefully == Spec => GracefulStop
<1> DEFINE Cut == \A q \in Request : req[q] \in Pending /\ req'[q] = "cut" =>
                    conn # "up" \/ teardown[via[q]] = "late"
<1>1. IInv /\ [Next]_vars => [Cut]_vars
  <2> SUFFICES ASSUME IInv, [Next]_vars, NEW q \in Request, req[q] \in Pending, req'[q] = "cut"
               PROVE  conn # "up" \/ teardown[via[q]] = "late"
    OBVIOUS
  <2>0. via[q] \in Run /\ sess[via[q]] = "open"
    BY DEF IInv, TypeOK
  <2>1. ASSUME NEW r \in Run, SessionClosed(r) PROVE via[q] = r
    BY <2>1 DEF SessionClosed, Pending
  <2>2. ASSUME NEW r \in Run, SessionFails(r) PROVE conn # "up"
    BY <2>2 DEF SessionFails
  <2>3. ASSUME NEW r \in Run, ServerDone(r) PROVE FALSE
    BY <2>0, <2>1, <2>3 DEF ServerDone, IInv, StubInv, Life
  <2>4. ASSUME NEW r \in Run, StopServer(r) PROVE teardown[via[q]] = "late"
    BY <2>0, <2>1, <2>4 DEF StopServer, IInv, StubInv, Drained
  <2>5. ASSUME NEW r \in Run,
               TryLock(r) \/ Main(r) \/ ServeReturns(r) \/ OnClose(r) \/ CloserWakes(r)
                 \/ BeginTeardown(r) \/ GoAway(r) \/ Drain(r) \/ Join(r) \/ Cancel(r) \/ Shutdown(r)
        PROVE  UNCHANGED req
    BY <2>5 DEF TryLock, Main, NewClientIPC, Register, RegisterFails, Abort, StartCloser,
         CompleteSetup, Wait, Return, ServeReturns, OnClose, CloserWakes, BeginTeardown, GoAway,
         Drain, Join, Cancel, Shutdown
  <2>6. ASSUME NEW p \in Request, SendRequest(p) \/ Handler(p) PROVE req'[q] # "cut"
    BY <2>6 DEF SendRequest, Handler, PassGate, GateTimeout, Respond, IInv, TypeOK, Pending
  <2>7. UNCHANGED vars \/ Disconnect => UNCHANGED req
    BY DEF vars, Disconnect
  <2> QED
    BY <2>2, <2>3, <2>4, <2>5, <2>6, <2>7 DEF Next, Server, Teardown, Pending
<1> QED
  BY <1>1, InvInit, InvStep, PTL DEF Spec, GracefulStop

-----------------------------------------------------------------------------
(* docker pass run *)

HIDE StubAssumption

\* What the command's process does once the environment is resolved.
Started == {"start", "forward", "wait", "reap"}

\* Each variable read so far has the value of the last source that names it.
MergeInv ==
  /\ DOMAIN merged = UNION {DOMAIN files[i] : i \in 1..(next - 1)}
  /\ \A x \in DOMAIN merged : \E i \in 1..(next - 1) :
       /\ x \in DOMAIN files[i] /\ merged[x] = files[i][x]
       /\ \A j \in (i + 1)..(next - 1) : x \notin DOMAIN files[j]

ResolveInv ==
  /\ runPc = "merge" => DOMAIN env = {}
  /\ runPc \in Started \cup {"resolve"} \/ child # "none" =>
       next = Len(files) + 1 /\ DOMAIN env = DOMAIN merged \ todo
  /\ runPc \in Started \/ child # "none" => todo = {}
  /\ \A x \in DOMAIN env :
       IF merged[x] \in Plain THEN env[x] = merged[x]
       ELSE answer[merged[x]] = "one" /\ env[x] = PR!Resolved(merged[x])

ChildInv ==
  /\ runPc \in Started => notified
  /\ child # "none" => runPc \in {"forward", "wait", "reap", "returned", "dead"}
  /\ runPc = "dead" /\ child # "none" => killer \notin PR!forwardableSignals
  /\ runPc \in {"reap", "returned"} => child # "running"
  /\ runPc = "returned" /\ child # "none" => code = PR!childExitCode

RunInv == PR!TypeOK /\ MergeInv /\ ResolveInv /\ ChildInv

\* A function from some variables to values is an environment.
LEMMA EnvironmentOf ==
  ASSUME NEW D \in SUBSET Var, NEW e \in [D -> Ref \cup Plain]
  PROVE  e \in PR!Environment
BY DEF PR!Environment

\* Nothing is merged, resolved or running in the beginning.
LEMMA RunInitInv == PR!Init => RunInv
<1> SUFFICES ASSUME PR!Init PROVE RunInv
  OBVIOUS
<1>1. files \in Seq(PR!Environment) /\ Len(files) \in Nat
  <2>1. PICK n \in 0..MaxFiles : files \in [1..(n + 1) -> PR!Environment]
    BY DEF PR!Init
  <2> QED
    BY <2>1, RunAssumed DEF PR!RunAssumption
<1>2. merged \in PR!Environment /\ DOMAIN merged = {} /\ DOMAIN env = {}
  <2>1. <<>> \in [{} -> Ref \cup Plain] /\ DOMAIN <<>> = {}
    OBVIOUS
  <2> QED
    BY <2>1, EnvironmentOf DEF PR!Init
<1>3. PR!TypeOK
  <2>1. next \in 1..Len(files) + 1 /\ sent \in 0..MaxSignals
    BY <1>1, RunAssumed DEF PR!Init, PR!RunAssumption
  <2>2. /\ sigCh = "none" /\ killer = "none"
        /\ accepted \in [PR!forwardableSignals -> Nat] /\ delivered \in [PR!forwardableSignals -> Nat]
    BY DEF PR!Init
  <2>3. /\ code = -1
        /\ notified \in BOOLEAN /\ doneCh \in BOOLEAN /\ reaped \in BOOLEAN
        /\ answer \in [Ref -> {"one", "none", "many", "error", "invalid"}]
        /\ runPc = "merge" /\ forwarder = "off" /\ child = "none" /\ todo = {}
    BY DEF PR!Init
  <2> QED
    BY <1>1, <1>2, <2>1, <2>2, <2>3 DEF PR!TypeOK
<1> QED
  BY <1>2, <1>3 DEF PR!Init, RunInv, MergeInv, ResolveInv, ChildInv, Started

\* docker pass run keeps the types.
LEMMA RunTypeStep == RunInv /\ [PR!Next]_prVars => PR!TypeOK'
<1> SUFFICES ASSUME RunInv, [PR!Next]_prVars PROVE PR!TypeOK'
  OBVIOUS
<1> USE DEF RunInv, PR!TypeOK
<1>1. CASE PR!mergeEnv
  <2>1. files[next] \in PR!Environment
    BY <1>1, ElementOfSeq DEF PR!mergeEnv
  <2>2. PR!Override(merged, files[next]) \in PR!Environment
    <3>1. PICK D \in SUBSET Var : merged \in [D -> Ref \cup Plain]
      BY DEF PR!Environment
    <3>2. PICK E \in SUBSET Var : files[next] \in [E -> Ref \cup Plain]
      BY <2>1 DEF PR!Environment
    <3>3. PR!Override(merged, files[next]) \in [D \cup E -> Ref \cup Plain]
      BY <3>1, <3>2 DEF PR!Override
    <3> QED
      BY <3>3, EnvironmentOf
  <2>3. next' \in 1..Len(files) + 1
    BY <1>1, LenProperties DEF PR!mergeEnv
  <2>4. DOMAIN merged \subseteq DOMAIN merged'
    BY <1>1 DEF PR!mergeEnv, PR!Override
  <2> QED
    BY <1>1, <2>2, <2>3, <2>4 DEF PR!mergeEnv, PR!runVars, PR!signalVars
<1>2. CASE PR!Merge \/ PR!MergeFails
  BY <1>2 DEF PR!Merge, PR!MergeFails, PR!runVars, PR!envVars, PR!signalVars
<1>3. ASSUME NEW x \in todo, PR!ResolveRef(x) PROVE PR!TypeOK'
  <2>1. DOMAIN env' \subseteq DOMAIN merged
    BY <1>3 DEF PR!ResolveRef, PR!Override
  <2> QED
    BY <1>3, <2>1 DEF PR!ResolveRef, PR!signalVars
<1>4. CASE \/ PR!Notify \/ PR!Start \/ PR!StartFails \/ PR!StartForwarder \/ PR!Wait
           \/ PR!SignalChild \/ PR!ChildEnds
  <2>1. UNCHANGED <<files, answer, next, merged, todo, env, sigCh, accepted, killer, sent>>
    BY <1>4 DEF PR!Notify, PR!Start, PR!StartFails, PR!StartForwarder, PR!Wait, PR!SignalChild,
         PR!ChildEnds, PR!envVars, PR!signalVars
  <2>2. /\ runPc' \in {"merge", "resolve", "start", "forward", "wait", "reap", "returned", "dead"}
        /\ forwarder' \in PR!forwardableSignals \cup {"off", "select", "done"}
        /\ child' \in {"none", "running", "exited", "failed", "killed"}
        /\ code' \in {-1, 0, PR!Errors, PR!FailureCode, PR!SignalCode}
    BY <1>4 DEF PR!Notify, PR!Start, PR!StartFails, PR!StartForwarder, PR!Wait, PR!SignalChild,
         PR!ChildEnds
  <2>3. notified' \in BOOLEAN /\ doneCh' \in BOOLEAN /\ reaped' \in BOOLEAN
    BY <1>4 DEF PR!Notify, PR!Start, PR!StartFails, PR!StartForwarder, PR!Wait, PR!SignalChild,
         PR!ChildEnds
  <2>4. delivered' \in [PR!forwardableSignals -> Nat]
    BY <1>4 DEF PR!Notify, PR!Start, PR!StartFails, PR!StartForwarder, PR!Wait, PR!SignalChild,
         PR!ChildEnds, PR!signalVars
  <2> QED
    BY <1>4, <2>1, <2>2, <2>3, <2>4
<1>8. CASE PR!Return
  <2>1. PR!childExitCode \in {0, PR!FailureCode, PR!SignalCode}
    BY DEF PR!childExitCode
  <2> QED
    BY <1>8, <2>1 DEF PR!Return, PR!envVars, PR!signalVars
<1>5. CASE PR!Select
  BY <1>5 DEF PR!Select, PR!envVars, PR!signalVars
<1>6. ASSUME NEW s \in Sent, PR!Signal(s) PROVE PR!TypeOK'
  <2>1. s \in PR!Signals /\ sent' \in 0..MaxSignals
    BY <1>6, RunAssumed DEF PR!Signal, PR!RunAssumption
  <2>2. CASE notified /\ s \in PR!forwardableSignals
    <3>1. /\ sigCh' \in PR!forwardableSignals \cup {"none"}
          /\ accepted' \in [PR!forwardableSignals -> Nat]
      <4>1. CASE sigCh = "none"
        <5>1. sigCh' = s /\ accepted' = [accepted EXCEPT ![s] = accepted[s] + 1]
          BY <1>6, <2>2, <4>1 DEF PR!Signal, PR!Deliver
        <5> QED
          BY <2>2, <5>1
      <4>2. CASE sigCh # "none"
        BY <1>6, <2>2, <4>2 DEF PR!Signal, PR!Deliver
      <4> QED
        BY <4>1, <4>2
    <3>2. UNCHANGED <<files, answer, next, merged, todo, env, runPc, forwarder, killer, notified,
                      doneCh, child, reaped, code, delivered>>
      BY <1>6, <2>2 DEF PR!Signal, PR!envVars
    <3> QED
      BY <2>1, <3>1, <3>2, SMTT(30)
  <2>3. CASE ~ (notified /\ s \in PR!forwardableSignals)
    BY <1>6, <2>1, <2>3 DEF PR!Signal, PR!envVars
  <2> QED
    BY <2>2, <2>3
<1>7. CASE UNCHANGED prVars
  BY <1>7 DEF prVars
<1> HIDE DEF RunInv, PR!TypeOK
<1> QED
  BY <1>1, <1>2, <1>3, <1>4, <1>5, <1>6, <1>7, <1>8 DEF PR!Next, PR!Main, PR!Forward

\* What is merged so far is what the sources so far say last.
LEMMA MergeStep == RunInv /\ [PR!Next]_prVars => MergeInv'
<1> SUFFICES ASSUME RunInv, [PR!Next]_prVars PROVE MergeInv'
  OBVIOUS
<1>1. CASE PR!mergeEnv
  <2>1. next \in Nat \ {0} /\ next' = next + 1 /\ files' = files /\ merged' = PR!Override(merged, files[next])
    BY <1>1, LenProperties DEF PR!mergeEnv, RunInv, PR!TypeOK
  <2>2. /\ DOMAIN merged' = DOMAIN merged \cup DOMAIN files[next]
        /\ \A x \in DOMAIN merged' :
             merged'[x] = IF x \in DOMAIN files[next] THEN files[next][x] ELSE merged[x]
    BY <2>1 DEF PR!Override
  <2>3. 1..(next' - 1) = 1..(next - 1) \cup {next}
    BY <2>1
  <2>4. DOMAIN merged' = UNION {DOMAIN files'[i] : i \in 1..(next' - 1)}
    BY <2>1, <2>2, <2>3 DEF RunInv, MergeInv
  <2>5. ASSUME NEW x \in DOMAIN merged'
        PROVE  \E i \in 1..(next' - 1) :
                 /\ x \in DOMAIN files'[i] /\ merged'[x] = files'[i][x]
                 /\ \A j \in (i + 1)..(next' - 1) : x \notin DOMAIN files'[j]
    <3>1. CASE x \in DOMAIN files[next]
      BY <2>1, <2>2, <2>3, <3>1
    <3>2. CASE x \notin DOMAIN files[next]
      <4>1. PICK i \in 1..(next - 1) :
              /\ x \in DOMAIN files[i] /\ merged[x] = files[i][x]
              /\ \A j \in (i + 1)..(next - 1) : x \notin DOMAIN files[j]
        BY <2>2, <2>5, <3>2 DEF RunInv, MergeInv
      <4>2. \A j \in (i + 1)..(next' - 1) : j = next \/ j \in (i + 1)..(next - 1)
        BY <2>1
      <4> QED
        BY <2>1, <2>2, <2>3, <3>2, <4>1, <4>2
    <3> QED
      BY <3>1, <3>2
  <2> QED
    BY <2>4, <2>5 DEF MergeInv
<1>2. CASE UNCHANGED <<files, next, merged>>
  BY <1>2 DEF RunInv, MergeInv
<1>3. PR!mergeEnv \/ UNCHANGED <<files, next, merged>>
  BY DEF PR!Next, PR!Main, PR!Forward, PR!Merge, PR!MergeFails, PR!ResolveRef, PR!Notify, PR!Start,
       PR!StartFails, PR!StartForwarder, PR!Wait, PR!Return, PR!Select, PR!SignalChild, PR!Signal,
       PR!ChildEnds, PR!envVars, prVars
<1> QED
  BY <1>1, <1>2, <1>3

\* References that are no longer to do are resolved.
LEMMA ResolveStep == RunInv /\ [PR!Next]_prVars => ResolveInv'
<1> SUFFICES ASSUME RunInv, [PR!Next]_prVars PROVE ResolveInv'
  OBVIOUS
<1> USE DEF RunInv, ResolveInv, ChildInv, PR!TypeOK, Started
<1>1. CASE PR!mergeEnv
  BY <1>1 DEF PR!mergeEnv, PR!runVars
<1>2. CASE PR!Merge
  BY <1>2, LenProperties DEF PR!Merge, PR!runVars
<1>3. CASE PR!MergeFails
  BY <1>3 DEF PR!MergeFails, PR!envVars
<1>4. ASSUME NEW x \in todo, PR!ResolveRef(x) PROVE ResolveInv'
  <2>1. CASE merged[x] \in Plain \/ answer[merged[x]] = "one"
    <3>1. /\ DOMAIN env' = DOMAIN env \cup {x}
          /\ env'[x] = IF merged[x] \in Plain THEN merged[x] ELSE PR!Resolved(merged[x])
          /\ \A y \in DOMAIN env : y # x => env'[y] = env[y]
      BY <1>4, <2>1 DEF PR!ResolveRef, PR!Override
    <3> QED
      BY <1>4, <2>1, <3>1 DEF PR!ResolveRef
  <2>2. CASE ~ (merged[x] \in Plain \/ answer[merged[x]] = "one")
    BY <1>4, <2>2 DEF PR!ResolveRef
  <2> QED
    BY <2>1, <2>2
<1>5. CASE PR!Notify \/ PR!Start \/ PR!StartFails \/ PR!StartForwarder \/ PR!Wait \/ PR!Return
  BY <1>5 DEF PR!Notify, PR!Start, PR!StartFails, PR!StartForwarder, PR!Wait, PR!Return, PR!envVars
<1>6. CASE PR!Select \/ PR!SignalChild \/ PR!ChildEnds \/ (\E s \in Sent : PR!Signal(s))
  BY <1>6 DEF PR!Select, PR!SignalChild, PR!ChildEnds, PR!Signal, PR!envVars
<1>7. CASE UNCHANGED prVars
  BY <1>7 DEF prVars
<1> QED
  BY <1>1, <1>2, <1>3, <1>4, <1>5, <1>6, <1>7 DEF PR!Next, PR!Main, PR!Forward

\* A child is started only with a complete environment.
LEMMA ChildStep == RunInv /\ [PR!Next]_prVars => ChildInv'
<1> SUFFICES ASSUME RunInv, [PR!Next]_prVars PROVE ChildInv'
  OBVIOUS
<1> USE DEF RunInv, ChildInv, PR!TypeOK, Started, PR!childExitCode
<1>0. CASE PR!mergeEnv \/ PR!Merge \/ PR!MergeFails
  BY <1>0 DEF PR!mergeEnv, PR!Merge, PR!MergeFails, PR!runVars, PR!signalVars
<1>1. ASSUME NEW x \in todo, PR!ResolveRef(x) PROVE ChildInv'
  BY <1>1 DEF PR!ResolveRef, PR!signalVars
<1>2. CASE PR!Notify \/ PR!Start \/ PR!StartFails \/ PR!StartForwarder \/ PR!Wait \/ PR!Return
  BY <1>2 DEF PR!Notify, PR!Start, PR!StartFails, PR!StartForwarder, PR!Wait, PR!Return, PR!signalVars
<1>3. CASE PR!Select \/ PR!SignalChild \/ PR!ChildEnds \/ (\E s \in Sent : PR!Signal(s))
  BY <1>3 DEF PR!Select, PR!SignalChild, PR!ChildEnds, PR!Signal, PR!signalVars
<1>4. CASE UNCHANGED prVars
  BY <1>4 DEF prVars
<1> QED
  BY <1>0, <1>1, <1>2, <1>3, <1>4 DEF PR!Next, PR!Main, PR!Forward

\* The invariant says what the child was given.
LEMMA RunInvTransparent == RunInv => RunIsTransparent
<1> SUFFICES ASSUME RunInv PROVE RunIsTransparent
  OBVIOUS
<1>1. ASSUME child # "none", NEW x \in DOMAIN env PROVE x \in DOMAIN merged /\ PR!LastOf(x) = merged[x]
  <2> DEFINE D == {i \in 1..Len(files) : x \in DOMAIN files[i]}
  <2>1. Len(files) \in Nat /\ next = Len(files) + 1 /\ x \in DOMAIN merged
    BY <1>1, LenProperties DEF RunInv, ResolveInv, PR!TypeOK
  <2>2. PICK i \in 1..(next - 1) :
          /\ x \in DOMAIN files[i] /\ merged[x] = files[i][x]
          /\ \A j \in (i + 1)..(next - 1) : x \notin DOMAIN files[j]
    BY <2>1 DEF RunInv, MergeInv
  <2>3. i \in D /\ \A j \in D : j <= i
    BY <2>1, <2>2
  <2>4. \A k \in D : (\A j \in D : j <= k) => k = i
    BY <2>1, <2>3
  <2>5. (CHOOSE k \in D : \A j \in D : j <= k) = i
    BY <2>3, <2>4
  <2> QED
    BY <2>1, <2>2, <2>5 DEF PR!LastOf
<1>2. child # "none" => DOMAIN env = UNION {DOMAIN files[i] : i \in 1..Len(files)}
  BY LenProperties DEF RunInv, ResolveInv, MergeInv, PR!TypeOK
<1>3. ASSUME child # "none", NEW x \in DOMAIN env
      PROVE  IF PR!LastOf(x) \in Plain THEN env[x] = PR!LastOf(x)
             ELSE answer[PR!LastOf(x)] = "one" /\ env[x] = PR!Resolved(PR!LastOf(x))
  BY <1>1, <1>3 DEF RunInv, ResolveInv
<1> QED
  BY <1>2, <1>3 DEF RunInv, ChildInv, RunIsTransparent, PR!RunIsTransparent, PR!childExitCode

-----------------------------------------------------------------------------
(* The socket pair *)

\* The descriptors the engine and the plugin have at each stage of a launch,
\* and how close-on-exec is set on all of them whenever a fork is possible.
EngineFds ==
  /\ launch \in {"idle", "locked", "failed"} => CP!Of("engine") = {}
  /\ launch = "made" => CP!Of("engine") = {CP!Descriptor("engine", "local", "pair", FALSE),
                                           CP!Descriptor("engine", "peer", "pair", FALSE)}
  /\ launch = "marked" => CP!Of("engine") = {CP!Descriptor("engine", "local", "pair", TRUE),
                                             CP!Descriptor("engine", "peer", "pair", FALSE)}
  /\ launch = "pair" => CP!Of("engine") = {CP!Descriptor("engine", "local", "pair", TRUE),
                                           CP!Descriptor("engine", "peer", "pair", TRUE)}
  /\ launch \in {"cmd", "exec", "started"} =>
       CP!Of("engine") = {CP!Descriptor("engine", "local", "conn", TRUE),
                          CP!Descriptor("engine", "peer", "pair", TRUE)}
  /\ launch = "running" => CP!Of("engine") \subseteq {CP!Descriptor("engine", "local", "conn", TRUE)}

PluginFds ==
  /\ launch = "exec" => CP!Of("plugin") = {CP!Descriptor("plugin", "local", "conn", TRUE),
                                           CP!Descriptor("plugin", "peer", "pair", TRUE),
                                           CP!Descriptor("plugin", "peer", "three", FALSE)}
  /\ launch # "exec" /\ pairChild \in {"none", "failed", "gone"} => CP!Of("plugin") = {}
  /\ pairChild = "restore" => CP!Of("plugin") = {CP!Descriptor("plugin", "peer", "three", FALSE)}
  /\ pairChild = "running" => CP!Of("plugin") = {CP!Descriptor("plugin", "peer", "conn", TRUE)}
  /\ pairChild # "none" <=> launch \in {"started", "running"}

OtherFds ==
  /\ other # "fork" => CP!Of("other") = {}
  /\ \A f \in CP!Of("other") : f.cloexec

ForkInv == readers <=> platform = "unix" /\ launch \in {"locked", "made", "marked"}

PairInv ==
  /\ CP!TypeOK /\ EngineFds /\ PluginFds /\ OtherFds /\ ForkInv
  /\ launch \in {"made", "marked"} => platform = "unix"

\* The descriptors the actions make.
LEMMA DescriptorType ==
  /\ CP!Descriptor("engine", "local", "conn", TRUE) \in CP!Fd
  /\ CP!Descriptor("engine", "peer", "pair", TRUE) \in CP!Fd
  /\ CP!Descriptor("plugin", "local", "conn", TRUE) \in CP!Fd
  /\ CP!Descriptor("plugin", "peer", "pair", TRUE) \in CP!Fd
  /\ CP!Descriptor("plugin", "peer", "conn", TRUE) \in CP!Fd
  /\ CP!Descriptor("plugin", "peer", "three", FALSE) \in CP!Fd
BY DEF CP!Descriptor, CP!Fd, CP!Process

\* A descriptor that fork copies differs in its process only.
LEMMA CopiedDescriptor ==
  ASSUME NEW f \in CP!Fd, NEW g \in CP!Fd, g.proc = "plugin",
         f.end = g.end, f.name = g.name, f.cloexec, g.cloexec
  PROVE  [f EXCEPT !.proc = "plugin"] = g
BY DEF CP!Fd

\* In the beginning there is no descriptor.
LEMMA PairInitInv == CP!Init => PairInv
BY DEF CP!Init, PairInv, EngineFds, PluginFds, OtherFds, ForkInv, CP!TypeOK, CP!Of

\* Every step keeps the pair private.
LEMMA PairStep == PairInv /\ [CP!Next]_cpVars => PairInv'
<1> SUFFICES ASSUME PairInv, [CP!Next]_cpVars PROVE PairInv'
  OBVIOUS
<1> USE DEF PairInv, CP!TypeOK, ForkInv
<1>1. CASE CP!LockFork
  BY <1>1 DEF CP!LockFork, EngineFds, PluginFds, OtherFds, CP!Of
<1>2. CASE CP!Socketpair
  <2> DEFINE local == CP!Descriptor("engine", "local", "pair", platform = "linux")
             peer  == CP!Descriptor("engine", "peer", "pair", platform = "linux")
  <2>1. fds' = fds \cup {local, peer} /\ launch' = IF platform = "linux" THEN "pair" ELSE "made"
    BY <1>2 DEF CP!Socketpair
  <2>2. local \in CP!Fd /\ peer \in CP!Fd /\ local.proc = "engine" /\ peer.proc = "engine"
    BY DEF CP!Fd, CP!Descriptor, CP!Process
  <2>3. CP!Of("engine")' = {local, peer}
    BY <1>2, <2>1, <2>2 DEF CP!Of, CP!Socketpair, EngineFds
  <2>4. CP!Of("plugin")' = CP!Of("plugin") /\ CP!Of("other")' = CP!Of("other")
    BY <2>1, <2>2 DEF CP!Of
  <2>5. EngineFds'
    BY <1>2, <2>1, <2>3 DEF EngineFds, CP!Socketpair
  <2> QED
    BY <1>2, <2>1, <2>2, <2>4, <2>5 DEF CP!Socketpair, PluginFds, OtherFds
<1>3. CASE CP!SocketpairFails
  BY <1>3 DEF CP!SocketpairFails, EngineFds, PluginFds, OtherFds, CP!Of
<1>4. CASE CP!CloseOnExec
  <2> DEFINE end == IF launch = "made" THEN "local" ELSE "peer"
             mark(f) == IF f.proc = "engine" /\ f.end = end THEN [f EXCEPT !.cloexec = TRUE] ELSE f
  <2>1. fds' = {mark(f) : f \in fds}
    BY <1>4 DEF CP!CloseOnExec, CP!Marked
  <2>2. ASSUME NEW f \in fds
        PROVE  mark(f) \in CP!Fd /\ mark(f).proc = f.proc /\ (f.proc # "engine" => mark(f) = f)
    BY DEF CP!Fd
  <2>3. CP!Of("plugin")' = CP!Of("plugin") /\ CP!Of("other")' = CP!Of("other")
    BY <2>1, <2>2 DEF CP!Of
  <2>4. CP!Of("engine")' = {mark(f) : f \in CP!Of("engine")}
    <3> HIDE DEF mark
    <3> QED
      BY <2>1, <2>2 DEF CP!Of
  <2>5. EngineFds'
    <3>1. CASE launch = "made"
      <4>1. CP!Of("engine") = {CP!Descriptor("engine", "local", "pair", FALSE),
                               CP!Descriptor("engine", "peer", "pair", FALSE)}
        BY <3>1 DEF EngineFds
      <4>2. /\ mark(CP!Descriptor("engine", "local", "pair", FALSE)) = CP!Descriptor("engine", "local", "pair", TRUE)
            /\ mark(CP!Descriptor("engine", "peer", "pair", FALSE)) = CP!Descriptor("engine", "peer", "pair", FALSE)
        BY <3>1 DEF CP!Descriptor
      <4>3. CP!Of("engine")' = {CP!Descriptor("engine", "local", "pair", TRUE),
                                CP!Descriptor("engine", "peer", "pair", FALSE)}
        <5> HIDE DEF mark
        <5> QED
          BY <2>4, <4>1, <4>2
      <4> QED
        BY <1>4, <3>1, <4>3 DEF CP!CloseOnExec, EngineFds
    <3>2. CASE launch = "marked"
      <4>1. CP!Of("engine") = {CP!Descriptor("engine", "local", "pair", TRUE),
                               CP!Descriptor("engine", "peer", "pair", FALSE)}
        BY <3>2 DEF EngineFds
      <4>2. /\ mark(CP!Descriptor("engine", "local", "pair", TRUE)) = CP!Descriptor("engine", "local", "pair", TRUE)
            /\ mark(CP!Descriptor("engine", "peer", "pair", FALSE)) = CP!Descriptor("engine", "peer", "pair", TRUE)
        BY <3>2 DEF CP!Descriptor
      <4>3. CP!Of("engine")' = {CP!Descriptor("engine", "local", "pair", TRUE),
                                CP!Descriptor("engine", "peer", "pair", TRUE)}
        <5> HIDE DEF mark
        <5> QED
          BY <2>4, <4>1, <4>2
      <4> QED
        BY <1>4, <3>2, <4>3 DEF CP!CloseOnExec, EngineFds
    <3> QED
      BY <1>4, <3>1, <3>2 DEF CP!CloseOnExec
  <2>6. fds' \subseteq CP!Fd
    BY <2>1, <2>2
  <2> QED
    BY <1>4, <2>3, <2>5, <2>6 DEF CP!CloseOnExec, PluginFds, OtherFds
<1>5. CASE CP!FileConn
  <2>1. fds' \subseteq CP!Fd
    BY <1>5, DescriptorType DEF CP!FileConn
  <2>2. EngineFds'
    BY <1>5 DEF CP!FileConn, EngineFds, CP!Of, CP!Descriptor
  <2>3. CP!Of("plugin")' = CP!Of("plugin") /\ CP!Of("other")' = CP!Of("other")
    BY <1>5 DEF CP!FileConn, CP!Of, CP!Descriptor
  <2> QED
    BY <1>5, <2>1, <2>2, <2>3 DEF CP!FileConn, PluginFds, OtherFds
<1>6. CASE CP!FileConnFails
  BY <1>6 DEF CP!FileConnFails, EngineFds, PluginFds, OtherFds, CP!Of, CP!Descriptor, CP!Fd, CP!Process
<1>7. CASE CP!Fork
  <2>1. CP!Copies("plugin") = {CP!Descriptor("plugin", "local", "conn", TRUE),
                               CP!Descriptor("plugin", "peer", "pair", TRUE)}
    <3>1. CP!Of("engine") = {CP!Descriptor("engine", "local", "conn", TRUE),
                             CP!Descriptor("engine", "peer", "pair", TRUE)}
      BY <1>7 DEF CP!Fork, EngineFds
    <3> DEFINE copy(f) == [f EXCEPT !.proc = "plugin"]
               local == CP!Descriptor("engine", "local", "conn", TRUE)
               localCopy == CP!Descriptor("plugin", "local", "conn", TRUE)
               peer == CP!Descriptor("engine", "peer", "pair", TRUE)
               peerCopy == CP!Descriptor("plugin", "peer", "pair", TRUE)
    <3>2. copy(local) = localCopy /\ copy(peer) = peerCopy
      <4>1. {local, localCopy, peer, peerCopy} \subseteq CP!Fd
        BY DescriptorType
      <4>2. localCopy.proc = "plugin" /\ peerCopy.proc = "plugin"
        BY DEF CP!Descriptor
      <4>3. /\ local.end = localCopy.end /\ local.name = localCopy.name
            /\ peer.end = peerCopy.end /\ peer.name = peerCopy.name
        BY DEF CP!Descriptor
      <4>4. local.cloexec /\ localCopy.cloexec /\ peer.cloexec /\ peerCopy.cloexec
        BY DEF CP!Descriptor
      <4> HIDE DEF local, localCopy, peer, peerCopy
      <4> QED
        BY CopiedDescriptor, <4>1, <4>2, <4>3, <4>4
    <3>3. CP!Copies("plugin") = {copy(f) : f \in CP!Of("engine")}
      BY DEF CP!Copies
    <3> HIDE DEF copy
    <3> QED
      BY <3>1, <3>2, <3>3
  <2>2. fds' = fds \cup {CP!Descriptor("plugin", "local", "conn", TRUE),
                        CP!Descriptor("plugin", "peer", "pair", TRUE),
                        CP!Descriptor("plugin", "peer", "three", FALSE)}
    BY <1>7, <2>1 DEF CP!Fork
  <2>3. fds' \subseteq CP!Fd
    BY <2>2, DescriptorType
  <2>4. CP!Of("engine")' = CP!Of("engine") /\ CP!Of("other")' = CP!Of("other")
    BY <2>2 DEF CP!Of, CP!Descriptor
  <2>5. CP!Of("plugin") = {}
    BY <1>7 DEF CP!Fork, PluginFds
  <2>6. CP!Of("plugin")' = {CP!Descriptor("plugin", "local", "conn", TRUE),
                            CP!Descriptor("plugin", "peer", "pair", TRUE),
                            CP!Descriptor("plugin", "peer", "three", FALSE)}
    BY <2>2, <2>5 DEF CP!Of, CP!Descriptor
  <2> QED
    BY <1>7, <2>3, <2>4, <2>5, <2>6 DEF CP!Fork, EngineFds, PluginFds, OtherFds
<1>8. CASE CP!Exec
  BY <1>8 DEF CP!Exec, EngineFds, PluginFds, OtherFds, CP!Of, CP!Descriptor, CP!Fd, CP!Process
<1>9. CASE CP!StartFails
  BY <1>9 DEF CP!StartFails, EngineFds, PluginFds, OtherFds, CP!Of, CP!Descriptor, CP!Fd, CP!Process
<1>10. CASE CP!ClosePeer
  BY <1>10 DEF CP!ClosePeer, EngineFds, PluginFds, OtherFds, CP!Of, CP!Descriptor, CP!Fd, CP!Process
<1>11. CASE CP!OtherForks
  BY <1>11 DEF CP!OtherForks, CP!Copies, EngineFds, PluginFds, OtherFds, CP!Of, CP!Descriptor, CP!Fd, CP!Process
<1>12. CASE CP!OtherExecs
  BY <1>12 DEF CP!OtherExecs, EngineFds, PluginFds, OtherFds, CP!Of, CP!Descriptor, CP!Fd, CP!Process
<1>13. CASE CP!FromCustomCfg
  <2>1. fds' \subseteq CP!Fd
    BY <1>13, DescriptorType DEF CP!FromCustomCfg
  <2>2. CP!Of("engine")' = CP!Of("engine") /\ CP!Of("other")' = CP!Of("other")
    BY <1>13 DEF CP!FromCustomCfg, CP!Of, CP!Descriptor
  <2>3. PluginFds'
    BY <1>13 DEF CP!FromCustomCfg, PluginFds, CP!Of, CP!Descriptor
  <2>4. EngineFds'
    BY <1>13, <2>2 DEF CP!FromCustomCfg, EngineFds
  <2>5. OtherFds'
    BY <1>13, <2>2 DEF CP!FromCustomCfg, OtherFds
  <2> HIDE DEF PairInv
  <2>6. CP!TypeOK' /\ ForkInv' /\ (launch' \in {"made", "marked"} => platform' = "unix")
    BY <1>13, <2>1 DEF CP!FromCustomCfg, PairInv
  <2> QED
    BY <2>3, <2>4, <2>5, <2>6 DEF PairInv
<1>14. CASE CP!PluginExits
  BY <1>14 DEF CP!PluginExits, EngineFds, PluginFds, OtherFds, CP!Of, CP!Descriptor, CP!Fd, CP!Process
<1>15. CASE CP!EngineCloses
  BY <1>15 DEF CP!EngineCloses, EngineFds, PluginFds, OtherFds, CP!Of, CP!Descriptor, CP!Fd, CP!Process
<1>16. CASE UNCHANGED cpVars
  <2>1. \A p \in CP!Process : CP!Of(p)' = CP!Of(p)
    BY <1>16 DEF cpVars, CP!Of
  <2>2. EngineFds'
    BY <1>16, <2>1 DEF cpVars, EngineFds, CP!Process
  <2>3. PluginFds' /\ OtherFds'
    BY <1>16, <2>1 DEF cpVars, PluginFds, OtherFds, CP!Process
  <2> QED
    BY <1>16, <2>2, <2>3 DEF cpVars
<1> HIDE DEF PairInv, CP!TypeOK, ForkInv
<1> QED
  BY <1>1, <1>2, <1>3, <1>4, <1>5, <1>6, <1>7, <1>8, <1>9, <1>10, <1>11, <1>12, <1>13, <1>14, <1>15, <1>16
     DEF CP!Next

\* The invariant implies the property.
LEMMA PairInvPrivate == PairInv => CP!PairIsPrivate
<1> SUFFICES ASSUME PairInv PROVE CP!PairIsPrivate
  OBVIOUS
<1>1. \A f \in fds : f \in CP!Of("engine") \cup CP!Of("plugin") \cup CP!Of("other")
  BY DEF PairInv, CP!TypeOK, CP!Of, CP!Fd, CP!Process
<1>2. pairChild = "running" => \E f \in fds : CP!Of("plugin") = {f}
  <2>1. CP!Of("plugin") \subseteq fds
    BY DEF CP!Of
  <2> QED
    BY <2>1 DEF PairInv, PluginFds
<1>3. ASSUME other # "fork" PROVE CP!Of("other") = {}
  BY <1>3 DEF PairInv, OtherFds
<1>4. ASSUME other # "fork", launch = "running", pairChild = "gone", NEW f \in fds PROVE f.end = "local"
  BY <1>1, <1>3, <1>4 DEF PairInv, EngineFds, PluginFds, CP!Descriptor
<1>5. ASSUME other # "fork", launch = "failed" PROVE fds = {}
  BY <1>1, <1>3, <1>5 DEF PairInv, EngineFds, PluginFds, CP!TypeOK
<1>6. launch = "running" /\ pairChild = "gone" /\ other # "fork" => \A f \in fds : f.end = "local"
  BY <1>4
<1> QED
  BY <1>2, <1>3, <1>5, <1>6 DEF CP!PairIsPrivate

-----------------------------------------------------------------------------
(* Sequences: what a reader that takes any prefix of a stream leaves as it is *)

Stream(a, b) == a \o b

\* Concatenation is associative.
LEMMA Regroup == \A S : \A a, b, c \in Seq(S) : Stream(Stream(a, b), c) = Stream(a, Stream(b, c))
BY DEF Stream

\* A reader that takes any prefix of a stream leaves the stream as it is.
LEMMA SplitStream ==
  \A a, s \in Seq(H!Chunk) : \A n \in 1..Len(s) :
    /\ a \o SubSeq(s, 1, n) \in Seq(H!Chunk) /\ SubSeq(s, n + 1, Len(s)) \in Seq(H!Chunk)
    /\ (a \o SubSeq(s, 1, n)) \o SubSeq(s, n + 1, Len(s)) = a \o s
<1> SUFFICES ASSUME NEW a \in Seq(H!Chunk), NEW s \in Seq(H!Chunk), NEW n \in 1..Len(s)
             PROVE  /\ a \o SubSeq(s, 1, n) \in Seq(H!Chunk)
                    /\ SubSeq(s, n + 1, Len(s)) \in Seq(H!Chunk)
                    /\ (a \o SubSeq(s, 1, n)) \o SubSeq(s, n + 1, Len(s)) = a \o s
  OBVIOUS
<1>1. Len(s) \in Nat /\ \A i \in 1..Len(s) : s[i] \in H!Chunk
  BY LenProperties, ElementOfSeq
<1>2. SubSeq(s, 1, n) \in Seq(H!Chunk)
  BY <1>1, SubSeqProperties
<1>3. SubSeq(s, n + 1, Len(s)) \in Seq(H!Chunk)
  BY <1>1, SubSeqProperties
<1>4. SubSeq(s, 1, n) \o SubSeq(s, n + 1, Len(s)) = SubSeq(s, 1, Len(s))
  BY <1>1, ConcatAdjacentSubSeq
<1>5. (a \o SubSeq(s, 1, n)) \o SubSeq(s, n + 1, Len(s)) = a \o (SubSeq(s, 1, n) \o SubSeq(s, n + 1, Len(s)))
  <2>1. PICK u \in Seq(H!Chunk) : u = SubSeq(s, 1, n)
    BY <1>2
  <2>2. PICK v \in Seq(H!Chunk) : v = SubSeq(s, n + 1, Len(s))
    BY <1>3
  <2>3. (a \o u) \o v = a \o (u \o v)
    <3>1. Stream(Stream(a, u), v) = Stream(a, Stream(u, v))
      BY Regroup
    <3> QED
      BY <3>1 DEF Stream
  <2> QED
    BY <2>1, <2>2, <2>3
<1>6. a \o SubSeq(s, 1, n) \in Seq(H!Chunk)
  BY <1>2, ConcatProperties
<1> QED
  BY <1>3, <1>4, <1>5, <1>6, SubSeqFull

\* So does one that takes the first element.
LEMMA MoveHead ==
  ASSUME NEW S, NEW a \in Seq(S), NEW s \in Seq(S), s # <<>>
  PROVE  /\ Append(a, Head(s)) \in Seq(S) /\ Tail(s) \in Seq(S)
         /\ Append(a, Head(s)) \o Tail(s) = a \o s
<1>1. Head(s) \in S /\ Tail(s) \in Seq(S)
  BY HeadTailProperties
<1>2. <<Head(s)>> \o Tail(s) = s
  <2>1. <<Head(s)>> \in Seq(S) /\ Len(<<Head(s)>>) = 1 /\ <<Head(s)>>[1] = Head(s)
    BY <1>1
  <2>2. Len(s) \in Nat \ {0} /\ Head(s) = s[1]
    BY EmptySeq, LenProperties
  <2>3. /\ Len(<<Head(s)>> \o Tail(s)) = Len(s) /\ <<Head(s)>> \o Tail(s) \in Seq(S)
        /\ \A i \in 1..Len(s) : (<<Head(s)>> \o Tail(s))[i] = s[i]
    BY <1>1, <2>1, <2>2, ConcatProperties, HeadTailProperties
  <2> QED
    BY <2>3, SeqEqual
<1>3. Append(a, Head(s)) = a \o <<Head(s)>> /\ Append(a, Head(s)) \in Seq(S) /\ <<Head(s)>> \in Seq(S)
  BY <1>1, AppendIsConcat, AppendProperties
<1> QED
  BY <1>1, <1>2, <1>3, ConcatAssociative

\* A writer adds at the end of the stream.
LEMMA AppendToStream ==
  ASSUME NEW S, NEW a \in Seq(S), NEW s \in Seq(S), NEW e \in S
  PROVE  Append(s, e) \in Seq(S) /\ a \o Append(s, e) = Append(a \o s, e)
<1>1. Append(s, e) = s \o <<e>> /\ Append(s, e) \in Seq(S) /\ <<e>> \in Seq(S) /\ a \o s \in Seq(S)
  BY AppendIsConcat, AppendProperties, ConcatProperties
<1> QED
  BY <1>1, AppendIsConcat, ConcatAssociative

\* Two streams with prefixes of two elements agree behind them.
LEMMA DropPrefix ==
  ASSUME NEW S, NEW b \in Seq(S), NEW t \in Seq(S), NEW p \in Seq(S), NEW s \in Seq(S)
  PROVE  Len(p) = 2 /\ Len(b) >= 2 /\ Stream(b, t) = Stream(p, s) => Stream(SubSeq(b, 3, Len(b)), t) = s
<1>0. ASSUME NEW u \in Seq(S) PROVE (p \o u) \o t = p \o s => u \o t = s
  <2>1. (p \o u) \o t = p \o (u \o t)
    <3>1. Stream(Stream(p, u), t) = Stream(p, Stream(u, t))
      BY Regroup
    <3> QED
      BY <3>1 DEF Stream
  <2>2. u \o t \in Seq(S)
    BY ConcatProperties
  <2>3. \A x, y, z \in Seq(S) : x \o y = x \o z => y = z
    BY ConcatSimplifications
  <2> QED
    BY <2>1, <2>2, <2>3
<1> SUFFICES ASSUME Len(p) = 2, Len(b) >= 2, b \o t = p \o s
             PROVE  SubSeq(b, 3, Len(b)) \o t = s
  BY DEF Stream
<1>1. Len(b) \in Nat /\ \A i \in 1..Len(b) : b[i] \in S
  BY LenProperties, ElementOfSeq
<1>2. SubSeq(b, 1, 2) \in Seq(S) /\ Len(SubSeq(b, 1, 2)) = 2 /\ \A i \in 1..2 : SubSeq(b, 1, 2)[i] = b[i]
  BY <1>1, SubSeqProperties
<1>3. SubSeq(b, 3, Len(b)) \in Seq(S)
  BY <1>1, SubSeqProperties
<1>4. \A i \in 1..2 : b[i] = p[i]
  <2>1. \A i \in 1..2 : (b \o t)[i] = b[i]
    BY <1>1, ConcatProperties, LenProperties
  <2>2. \A i \in 1..2 : (p \o s)[i] = p[i]
    <3>1. Len(s) \in Nat
      BY LenProperties
    <3>2. ASSUME NEW i \in 1..2 PROVE (p \o s)[i] = p[i]
      <4>1. i \in 1..Len(p) + Len(s) /\ i <= Len(p)
        BY <3>1
      <4> QED
        BY <4>1, ConcatProperties
    <3> QED
      BY <3>2
  <2> QED
    BY <2>1, <2>2
<1>5. SubSeq(b, 1, 2) = p
  <2>1. PICK c \in Seq(S) : c = SubSeq(b, 1, 2)
    BY <1>2
  <2>2. Len(c) = Len(p) /\ \A i \in 1..Len(c) : c[i] = p[i]
    BY <1>2, <1>4, <2>1
  <2>3. c = p
    BY <2>2, SeqEqual
  <2> QED
    BY <2>1, <2>3
<1>6. SubSeq(b, 1, 2) \o SubSeq(b, 3, Len(b)) = b
  <2>1. SubSeq(b, 1, 2) \o SubSeq(b, 2 + 1, Len(b)) = SubSeq(b, 1, Len(b))
    <3>1. 1 \in 1..(Len(b) + 1) /\ 2 \in (1 - 1)..Len(b) /\ Len(b) \in (2 - 1)..Len(b)
      BY <1>1
    <3> QED
      BY <3>1, ConcatAdjacentSubSeq
  <2> QED
    BY <2>1, SubSeqFull
<1>7. SubSeq(b, 3, Len(b)) \o t = s
  BY <1>0, <1>3, <1>5, <1>6
<1> QED
  BY <1>7

-----------------------------------------------------------------------------
(* The switch from HTTP *)

\* What has reached the plugin and is not read, what the engine writes from
\* the response on, and what each side has of the other's bytes.
Arrived      == Stream(br, toPlugin)
FromSwitch   == Stream(H!Accepted, hsent["engine"])
PluginStream == Stream(hgot["plugin"], Arrived)
EngineStream == Stream(hgot["engine"], toEngine)

\* Before the engine has the request nothing comes back, and only a plugin
\* that has the response writes.
Quiet ==
  /\ handler = "idle" =>
       /\ toEngine \in {<<>>, H!RequestChunks}
       /\ plugin = "request" => toEngine = <<>>
       /\ toPlugin = <<>> /\ br = <<>> /\ rbuf = <<>> /\ callback = "off"
  /\ handler # "idle" => plugin # "request"
  /\ callback \in {"off", "respond", "flush"} => hsent["engine"] = <<>> /\ plugin # "ready"
  /\ callback = "off" => hgot["engine"] = <<>>
  /\ callback = "flush" => brw = H!Accepted
  /\ plugin # "ready" => hsent["plugin"] = <<>> /\ hgot["plugin"] = <<>>

\* While the plugin waits for the response, what has arrived is a beginning of
\* what the engine writes: nothing, a refusal, or the response and its bytes.
Response ==
  plugin = "response" =>
    /\ callback \in {"respond", "flush"} => Arrived = <<>>
    /\ callback = "off" => Arrived \in {<<>>, H!Refused}
    /\ callback = "cb" => Arrived = FromSwitch
    /\ callback = "done" => Arrived \in {<<>>, FromSwitch}

Switched ==
  /\ plugin = "ready" => PluginStream = hsent["engine"] /\ ~deadline
  /\ callback \in {"respond", "flush", "cb"} => EngineStream = hsent["plugin"] /\ rbuf = <<>>

HijackInv == H!TypeOK /\ Quiet /\ Response /\ Switched

\* Request and responses are two chunks each.
LEMMA HttpChunks ==
  /\ H!RequestChunks \in Seq(H!Chunk) /\ Len(H!RequestChunks) = 2
  /\ H!Accepted \in Seq(H!Chunk) /\ Len(H!Accepted) = 2
  /\ H!Refused \in Seq(H!Chunk) /\ Len(H!Refused) = 2
  /\ H!Accepted[1] # H!Refused[1]
BY DEF H!RequestChunks, H!Accepted, H!Refused, H!Chunk

\* The same for chunks.
LEMMA ChunksRegroup ==
  \A a, b, c \in Seq(H!Chunk) : Stream(Stream(a, b), c) = Stream(a, Stream(b, c))
BY DEF Stream

\* Appending to a stream of chunks.
LEMMA ChunksAppend ==
  \A a, b \in Seq(H!Chunk) : \A e \in H!Chunk : Stream(a, Append(b, e)) = Append(Stream(a, b), e)
<1> SUFFICES ASSUME NEW a \in Seq(H!Chunk), NEW b \in Seq(H!Chunk), NEW e \in H!Chunk
             PROVE  Stream(a, Append(b, e)) = Append(Stream(a, b), e)
  OBVIOUS
<1> QED
  BY AppendToStream DEF Stream

\* The buffers hold chunks.
LEMMA HijackTypes ==
  ASSUME H!TypeOK
  PROVE  /\ toEngine \in Seq(H!Chunk) /\ toPlugin \in Seq(H!Chunk) /\ br \in Seq(H!Chunk)
         /\ brw \in Seq(H!Chunk) /\ rbuf \in Seq(H!Chunk)
         /\ hsent["plugin"] \in Seq(H!Chunk) /\ hsent["engine"] \in Seq(H!Chunk)
         /\ hgot["plugin"] \in Seq(H!Chunk) /\ hgot["engine"] \in Seq(H!Chunk)
         /\ Arrived \in Seq(H!Chunk) /\ <<>> \in Seq(H!Chunk)
<1>1. /\ toEngine \in Seq(H!Chunk) /\ toPlugin \in Seq(H!Chunk) /\ br \in Seq(H!Chunk)
      /\ brw \in Seq(H!Chunk) /\ rbuf \in Seq(H!Chunk)
      /\ hsent["plugin"] \in Seq(H!Chunk) /\ hsent["engine"] \in Seq(H!Chunk)
      /\ hgot["plugin"] \in Seq(H!Chunk) /\ hgot["engine"] \in Seq(H!Chunk)
  BY DEF H!TypeOK, H!Side
<1> QED
  BY <1>1, ConcatProperties, EmptySeq DEF Arrived, Stream

\* In the beginning all buffers are empty.
LEMMA HijackInitInv == H!Init => HijackInv
<1> SUFFICES ASSUME H!Init PROVE HijackInv
  OBVIOUS
<1>1. <<>> \in Seq(H!Chunk) /\ Len(<<>>) = 0
  BY EmptySeq
<1>2. \A x \in H!Side : hsent[x] = <<>> /\ hgot[x] = <<>>
  BY DEF H!Init
<1>3. hsent \in [H!Side -> Seq(H!Chunk)] /\ hgot \in [H!Side -> Seq(H!Chunk)]
  BY <1>1 DEF H!Init
<1>4. \A x \in H!Side : Len(hsent[x]) <= MaxBytes /\ Len(hgot[x]) <= MaxBytes
  BY <1>1, <1>2, HijackAssumed DEF H!HijackAssumption
<1>5. H!TypeOK
  BY <1>1, <1>3, <1>4 DEF H!Init, H!TypeOK
<1> QED
  BY <1>2, <1>5 DEF H!Init, HijackInv, Quiet, Response, Switched, H!Side

\* The steps of the plugin.
LEMMA HijackPluginStep ==
  ASSUME HijackInv,
         \/ H!WriteRequest \/ H!WriteFails \/ H!FillReader \/ H!ReadResponse \/ H!ReadFails
         \/ H!PluginRead \/ H!PluginWrite \/ H!PluginClose
  PROVE  HijackInv'
<1>0. H!TypeOK /\ Quiet /\ Response /\ Switched
  BY DEF HijackInv
<1>t. /\ toEngine \in Seq(H!Chunk) /\ toPlugin \in Seq(H!Chunk) /\ br \in Seq(H!Chunk)
      /\ hsent["plugin"] \in Seq(H!Chunk) /\ hsent["engine"] \in Seq(H!Chunk)
      /\ hgot["plugin"] \in Seq(H!Chunk) /\ hgot["engine"] \in Seq(H!Chunk)
  BY <1>0, HijackTypes
<1>1. CASE H!WriteRequest
  <2>1. handler = "idle" /\ toEngine = <<>> /\ callback = "off"
    BY <1>0, <1>1 DEF H!WriteRequest, Quiet
  <2>2. toEngine' = H!RequestChunks /\ toEngine' \in Seq(H!Chunk)
    BY <1>1, <2>1, HttpChunks, ConcatEmptySeq DEF H!WriteRequest
  <2>3. Arrived' = <<>>
    BY <1>0, <1>1, <2>1, HttpChunks, ConcatEmptySeq DEF H!WriteRequest, Arrived, Quiet, Stream
  <2>4. H!TypeOK'
    BY <1>0, <1>1, <2>2 DEF H!WriteRequest, H!TypeOK
  <2>5. Quiet' /\ Switched'
    BY <1>0, <1>1, <2>1, <2>2 DEF H!WriteRequest, Quiet, Switched
  <2>6. Response'
    BY <1>1, <2>1, <2>3 DEF H!WriteRequest, Response
  <2> QED
    BY <2>4, <2>5, <2>6 DEF HijackInv
<1>w. CASE H!WriteFails
  <2>1. handler = "idle" /\ toEngine = <<>> /\ callback = "off"
    BY <1>0, <1>w DEF H!WriteFails, Quiet
  <2>2. toEngine' \in {<<>>, H!RequestChunks} /\ toEngine' \in Seq(H!Chunk)
    BY <1>t, <1>w, <2>1, HttpChunks, ConcatEmptySeq DEF H!WriteFails
  <2>3. H!TypeOK'
    BY <1>0, <1>w, <2>2 DEF H!WriteFails, H!TypeOK
  <2>4. Quiet' /\ Switched' /\ Response'
    BY <1>0, <1>w, <2>1, <2>2 DEF H!WriteFails, Quiet, Switched, Response
  <2> QED
    BY <2>3, <2>4 DEF HijackInv
<1>2. CASE H!FillReader
  <2>1. PICK n \in 1..Len(toPlugin) :
          br' = br \o SubSeq(toPlugin, 1, n) /\ toPlugin' = SubSeq(toPlugin, n + 1, Len(toPlugin))
    BY <1>2 DEF H!FillReader
  <2>2. br' \in Seq(H!Chunk) /\ toPlugin' \in Seq(H!Chunk) /\ Arrived' = Arrived
    <3>1. /\ br \o SubSeq(toPlugin, 1, n) \in Seq(H!Chunk)
          /\ SubSeq(toPlugin, n + 1, Len(toPlugin)) \in Seq(H!Chunk)
          /\ (br \o SubSeq(toPlugin, 1, n)) \o SubSeq(toPlugin, n + 1, Len(toPlugin)) = br \o toPlugin
      BY <1>t, SplitStream
    <3> QED
      BY <2>1, <3>1 DEF Arrived, Stream
  <2>3. handler # "idle"
    BY <1>0, <1>2 DEF H!FillReader, Quiet
  <2>4. UNCHANGED <<toEngine, plugin, deadline, handler, callback, brw, rbuf, server, open, hsent, hgot>>
    BY <1>2 DEF H!FillReader
  <2>5. UNCHANGED <<PluginStream, EngineStream, FromSwitch>>
    BY <2>2, <2>4 DEF PluginStream, EngineStream, FromSwitch
  <2> QED
    BY <1>0, <2>2, <2>3, <2>4, <2>5 DEF HijackInv, Quiet, Response, Switched, H!TypeOK
<1>3. CASE H!ReadResponse
  <2>1. handler # "idle" /\ Len(br) >= 2 /\ plugin = "response"
    <3>1. Len(<<>>) = 0
      OBVIOUS
    <3> QED
      BY <1>0, <1>3, <3>1 DEF H!ReadResponse, Quiet
  <2>2. br' = SubSeq(br, 3, Len(br)) /\ br' \in Seq(H!Chunk)
    <3>1. Len(br) \in Nat /\ \A i \in 3..Len(br) : br[i] \in H!Chunk
      BY <1>t, LenProperties, ElementOfSeq
    <3> QED
      BY <1>3, <3>1, SubSeqProperties DEF H!ReadResponse
  <2>3. UNCHANGED <<toEngine, toPlugin, handler, callback, brw, rbuf, server, open, hsent, hgot>>
    BY <1>3 DEF H!ReadResponse
  <2>4. EngineStream' = EngineStream
    BY <2>3 DEF EngineStream
  <2>5. plugin' \in {"ready", "failed"} /\ ~deadline' /\ deadline' \in BOOLEAN
    BY <1>3 DEF H!ReadResponse
  <2>6. ASSUME plugin' = "ready"
        PROVE  callback \in {"cb", "done"} /\ PluginStream' = hsent'["engine"]
    <3>1. SubSeq(br, 1, 2) = H!Accepted
      BY <1>3, <2>6 DEF H!ReadResponse
    <3>2. Len(Arrived) >= 2 /\ Arrived[1] = H!Accepted[1]
      <4>1. Len(br) \in Nat /\ Len(toPlugin) \in Nat /\ Len(Arrived) = Len(br) + Len(toPlugin)
        BY <1>t, LenProperties, ConcatProperties DEF Arrived, Stream
      <4>2. Arrived[1] = br[1]
        BY <1>t, <2>1, <4>1, ConcatProperties DEF Arrived, Stream
      <4>3. SubSeq(br, 1, 2)[1] = br[1]
        BY <1>t, <2>1, <4>1, SubSeqProperties, ElementOfSeq
      <4> QED
        BY <2>1, <3>1, <4>1, <4>2, <4>3
    <3>3. Arrived # <<>> /\ Arrived # H!Refused
      BY <3>2, HttpChunks, EmptySeq
    <3>4. callback \in {"cb", "done"} /\ Arrived = FromSwitch
      BY <1>0, <2>1, <3>3 DEF Response, H!TypeOK
    <3>5. Stream(br', toPlugin) = hsent["engine"]
      <4>1. Stream(br, toPlugin) = Stream(H!Accepted, hsent["engine"])
        BY <3>4 DEF Arrived, FromSwitch
      <4> QED
        BY <1>t, <2>1, <2>2, <4>1, HttpChunks, DropPrefix
    <3>6. hgot["plugin"] = <<>>
      BY <1>0, <2>1 DEF Quiet
    <3>7. PluginStream' = Arrived' /\ Arrived' = hsent["engine"]
      BY <1>t, <2>3, <3>5, <3>6, ConcatEmptySeq DEF PluginStream, Arrived, Stream
    <3> QED
      BY <2>3, <3>4, <3>7
  <2> QED
    BY <1>0, <2>1, <2>2, <2>3, <2>4, <2>5, <2>6 DEF HijackInv, Quiet, Response, Switched, H!TypeOK
<1>4. CASE H!ReadFails \/ H!PluginClose
  <2>1. UNCHANGED <<toEngine, toPlugin, br, handler, callback, brw, rbuf, server, hsent, hgot>>
    BY <1>4 DEF H!ReadFails, H!PluginClose
  <2>2. UNCHANGED <<Arrived, PluginStream, EngineStream, FromSwitch>>
    BY <2>1 DEF Arrived, PluginStream, EngineStream, FromSwitch
  <2>3. /\ plugin' \in {plugin, "failed"} /\ deadline' \in BOOLEAN /\ open' \subseteq open
        /\ (plugin' = "ready" => plugin = "ready" /\ deadline' = deadline) /\ (plugin = "ready" => plugin' = "ready")
        /\ plugin \in {"response", "ready"}
    BY <1>0, <1>4 DEF H!ReadFails, H!PluginClose, H!TypeOK
  <2> QED
    BY <1>0, <2>1, <2>2, <2>3 DEF HijackInv, Quiet, Response, Switched, H!TypeOK
<1>5. CASE H!PluginRead
  <2>1. /\ UNCHANGED <<toEngine, toPlugin, plugin, deadline, handler, callback, brw, rbuf, server, open, hsent>>
        /\ plugin = "ready" /\ br # <<>> /\ br' = Tail(br)
    BY <1>5 DEF H!PluginRead
  <2>2. hgot' = [hgot EXCEPT !["plugin"] = Append(hgot["plugin"], Head(br))]
    BY <1>5 DEF H!PluginRead
  <2>3. /\ hgot'["plugin"] = Append(hgot["plugin"], Head(br)) /\ hgot'["engine"] = hgot["engine"]
        /\ DOMAIN hgot' = H!Side
    BY <1>0, <2>2 DEF H!Side, H!TypeOK
  <2>4. /\ hgot'["plugin"] \in Seq(H!Chunk) /\ br' \in Seq(H!Chunk)
        /\ Stream(hgot'["plugin"], br') = Stream(hgot["plugin"], br)
    <3>1. /\ Append(hgot["plugin"], Head(br)) \in Seq(H!Chunk) /\ Tail(br) \in Seq(H!Chunk)
          /\ Append(hgot["plugin"], Head(br)) \o Tail(br) = hgot["plugin"] \o br
      BY <1>t, <2>1, MoveHead
    <3> QED
      BY <2>1, <2>3, <3>1 DEF Stream
  <2>5. PluginStream' = PluginStream
    <3>1. PluginStream = Stream(Stream(hgot["plugin"], br), toPlugin)
      BY <1>t, ChunksRegroup DEF PluginStream, Arrived
    <3>2. PluginStream' = Stream(Stream(hgot'["plugin"], br'), toPlugin')
      <4>1. PluginStream' = Stream(hgot'["plugin"], Stream(br', toPlugin'))
        BY DEF PluginStream, Arrived
      <4>2. toPlugin' \in Seq(H!Chunk)
        BY <1>t, <2>1
      <4> QED
        BY <2>4, <4>1, <4>2, ChunksRegroup
    <3> QED
      BY <2>1, <2>4, <3>1, <3>2
  <2>6. UNCHANGED <<EngineStream, FromSwitch>>
    BY <2>1, <2>3 DEF EngineStream, FromSwitch
  <2>7. hgot' \in [H!Side -> Seq(H!Chunk)]
    BY <1>0, <2>2, <2>3, <2>4 DEF H!Side, H!TypeOK
  <2>8. Len(hgot'["plugin"]) <= MaxBytes
    <3>1. Arrived' \in Seq(H!Chunk)
      BY <1>t, <2>1, <2>4, ConcatProperties DEF Arrived, Stream
    <3>2. Len(PluginStream') = Len(hgot'["plugin"]) + Len(Arrived')
      BY <2>4, <3>1, ConcatProperties DEF PluginStream, Stream
    <3>3. Len(hsent["engine"]) <= MaxBytes /\ PluginStream' = hsent["engine"]
      BY <1>0, <2>1, <2>5 DEF H!Side, H!TypeOK, Switched
    <3>4. Len(hsent["engine"]) \in Nat /\ Len(Arrived') \in Nat /\ Len(hgot'["plugin"]) \in Nat /\ MaxBytes \in Nat
      BY <1>t, <2>4, <3>1, LenProperties, HijackAssumed DEF H!HijackAssumption
    <3> QED
      BY <3>2, <3>3, <3>4
  <2> QED
    BY <1>0, <2>1, <2>3, <2>4, <2>5, <2>6, <2>7, <2>8 DEF H!Side, HijackInv, Quiet, Response, Switched, H!TypeOK
<1>6. CASE H!PluginWrite
  <2> DEFINE b == <<"plugin", Len(hsent["plugin"]) + 1>>
  <2>1. /\ UNCHANGED <<toPlugin, plugin, br, deadline, handler, callback, brw, rbuf, server, open, hgot>>
        /\ plugin = "ready" /\ toEngine' = Append(toEngine, b)
        /\ hsent' = [hsent EXCEPT !["plugin"] = Append(hsent["plugin"], b)]
        /\ Len(hsent["plugin"]) < MaxBytes
    BY <1>6 DEF H!PluginWrite
  <2>2. Len(hsent["plugin"]) \in Nat /\ b \in H!Chunk
    <3>1. Len(hsent["plugin"]) \in Nat
      BY <1>t, LenProperties
    <3> QED
      BY <3>1 DEF H!Chunk
  <2> HIDE DEF b
  <2>3. /\ hsent'["plugin"] = Append(hsent["plugin"], b) /\ hsent'["engine"] = hsent["engine"]
        /\ DOMAIN hsent' = H!Side
    BY <1>0, <2>1 DEF H!Side, H!TypeOK
  <2>4. /\ hsent'["plugin"] \in Seq(H!Chunk) /\ Len(hsent'["plugin"]) = Len(hsent["plugin"]) + 1
        /\ toEngine' \in Seq(H!Chunk)
    BY <1>t, <2>1, <2>2, <2>3, AppendProperties
  <2>5. EngineStream' = Append(EngineStream, b)
    BY <1>t, <2>1, <2>2, ChunksAppend DEF EngineStream
  <2>6. UNCHANGED <<Arrived, PluginStream, FromSwitch>>
    BY <2>1, <2>3 DEF Arrived, PluginStream, FromSwitch
  <2>7. hsent' \in [H!Side -> Seq(H!Chunk)]
    BY <1>0, <2>1, <2>3, <2>4 DEF H!Side, H!TypeOK
  <2>8. Len(hsent'["plugin"]) <= MaxBytes
    BY <2>1, <2>2, <2>4, HijackAssumed DEF H!HijackAssumption
  <2>9. handler # "idle" /\ callback \in {"cb", "done"}
    BY <1>0, <2>1 DEF Quiet, H!TypeOK
  <2> QED
    BY <1>0, <2>1, <2>3, <2>4, <2>5, <2>6, <2>7, <2>8, <2>9
       DEF H!Side, HijackInv, Quiet, Response, Switched, H!TypeOK
<1> QED
  BY <1>1, <1>w, <1>2, <1>3, <1>4, <1>5, <1>6

\* The steps of the engine.
LEMMA HijackEngineStep ==
  ASSUME HijackInv,
         \/ H!Refuse \/ H!ServeHTTP \/ H!WriteResponse \/ H!Flush \/ H!EngineRead \/ H!EngineWrite
         \/ H!CallbackReturns \/ H!HandlerReturns \/ H!ContextDone
  PROVE  HijackInv'
<1>0. H!TypeOK /\ Quiet /\ Response /\ Switched
  BY DEF HijackInv
<1>t. /\ toEngine \in Seq(H!Chunk) /\ toPlugin \in Seq(H!Chunk) /\ br \in Seq(H!Chunk) /\ brw \in Seq(H!Chunk)
      /\ hsent["plugin"] \in Seq(H!Chunk) /\ hsent["engine"] \in Seq(H!Chunk)
      /\ hgot["plugin"] \in Seq(H!Chunk) /\ hgot["engine"] \in Seq(H!Chunk) /\ <<>> \in Seq(H!Chunk)
  BY <1>0, HijackTypes
<1>i. ASSUME handler = "idle", Len(toEngine) >= 2
      PROVE  /\ toEngine = H!RequestChunks /\ Len(toEngine) = 2 /\ plugin \notin {"request", "ready"}
             /\ toPlugin = <<>> /\ br = <<>> /\ Arrived = <<>> /\ callback = "off"
  <2>1. Len(<<>>) = 0
    OBVIOUS
  <2>2. /\ toEngine = H!RequestChunks /\ plugin \notin {"request", "ready"}
        /\ toPlugin = <<>> /\ br = <<>> /\ callback = "off"
    BY <1>0, <1>i, <2>1 DEF Quiet
  <2> QED
    BY <1>t, <2>2, HttpChunks, ConcatEmptySeq DEF Arrived, Stream
<1>1. CASE H!Refuse
  <2>1. handler = "idle" /\ Len(toEngine) >= 2
    BY <1>1 DEF H!Refuse
  <2>2. toEngine' = <<>>
    <3>1. toEngine' = SubSeq(toEngine, 3, 2)
      BY <1>1, <1>i, <2>1 DEF H!Refuse
    <3> QED
      BY <3>1, SubSeqEmpty
  <2>3. toPlugin' = H!Refused /\ Arrived' = H!Refused
    BY <1>1, <1>i, <2>1, HttpChunks, ConcatEmptySeq DEF H!Refuse, Arrived, Stream
  <2> QED
    BY <1>0, <1>1, <1>i, <1>t, <2>1, <2>2, <2>3, HttpChunks
       DEF H!Refuse, HijackInv, Quiet, Response, Switched, H!TypeOK
<1>2. CASE H!ServeHTTP
  <2>1. handler = "idle" /\ Len(toEngine) >= 2
    BY <1>2 DEF H!ServeHTTP
  <2>2. toEngine' = <<>> /\ rbuf' = <<>>
    <3>1. PICK n \in 2..Len(toEngine) :
            rbuf' = SubSeq(toEngine, 3, n) /\ toEngine' = SubSeq(toEngine, n + 1, Len(toEngine))
      BY <1>2 DEF H!ServeHTTP
    <3>2. Len(toEngine) = 2 /\ n = 2
      <4>1. Len(toEngine) = 2
        BY <1>i, <2>1
      <4> QED
        BY <4>1
    <3>3. rbuf' = SubSeq(toEngine, 3, 2) /\ toEngine' = SubSeq(toEngine, 3, 2)
      BY <3>1, <3>2
    <3> QED
      BY <3>3, SubSeqEmpty
  <2>3. UNCHANGED <<toPlugin, plugin, br, deadline, brw, server, open, hsent, hgot>>
    BY <1>2 DEF H!ServeHTTP
  <2>4. Arrived' = <<>>
    BY <1>i, <2>1, <2>3 DEF Arrived
  <2>5. EngineStream' = <<>>
    BY <1>0, <1>i, <1>t, <2>1, <2>2, <2>3, ConcatEmptySeq DEF EngineStream, Stream, Quiet
  <2> QED
    BY <1>0, <1>2, <1>i, <1>t, <2>1, <2>2, <2>3, <2>4, <2>5
       DEF H!ServeHTTP, HijackInv, Quiet, Response, Switched, H!TypeOK
<1>3. CASE H!WriteResponse
  <2>1. UNCHANGED <<toEngine, toPlugin, plugin, br, deadline, handler, rbuf, server, open, hsent, hgot>>
    BY <1>3 DEF H!WriteResponse
  <2>2. UNCHANGED <<Arrived, PluginStream, EngineStream, FromSwitch>>
    BY <2>1 DEF Arrived, PluginStream, EngineStream, FromSwitch
  <2> QED
    BY <1>0, <1>3, <2>1, <2>2, HttpChunks DEF H!WriteResponse, HijackInv, Quiet, Response, Switched, H!TypeOK
<1>4. CASE H!Flush
  <2>1. /\ UNCHANGED <<toEngine, plugin, br, deadline, handler, rbuf, server, open, hsent, hgot>>
        /\ callback = "flush" /\ brw' = <<>>
    BY <1>4 DEF H!Flush
  <2>2. brw = H!Accepted /\ hsent["engine"] = <<>> /\ plugin # "ready" /\ handler # "idle"
    BY <1>0, <2>1 DEF Quiet
  <2>3. UNCHANGED EngineStream
    BY <2>1 DEF EngineStream
  <2>4. CASE "engine" \in open
    <3>1. toPlugin' = Stream(toPlugin, brw) /\ callback' = "cb"
      BY <1>4, <2>4 DEF H!Flush, Stream
    <3>2. toPlugin' \in Seq(H!Chunk)
      BY <1>t, <3>1, ConcatProperties DEF Stream
    <3>3. Arrived' = Stream(Arrived, brw)
      BY <1>t, <2>1, <3>1, ChunksRegroup DEF Arrived
    <3>4. plugin = "response" => Arrived' = H!Accepted
      BY <1>0, <1>t, <2>1, <2>2, <3>3, ConcatEmptySeq DEF Stream, Response
    <3>5. FromSwitch' = H!Accepted
      BY <1>t, <2>1, <2>2, ConcatEmptySeq DEF FromSwitch, Stream
    <3> QED
      BY <1>0, <1>t, <2>1, <2>2, <2>3, <3>1, <3>2, <3>4, <3>5
         DEF HijackInv, Quiet, Response, Switched, H!TypeOK
  <2>5. CASE "engine" \notin open
    <3>1. UNCHANGED toPlugin /\ callback' = "done"
      BY <1>4, <2>5 DEF H!Flush
    <3>2. UNCHANGED Arrived
      BY <2>1, <3>1 DEF Arrived
    <3> QED
      BY <1>0, <1>t, <2>1, <2>2, <2>3, <3>1, <3>2 DEF HijackInv, Quiet, Response, Switched, H!TypeOK
  <2> QED
    BY <2>4, <2>5
<1>5. CASE H!EngineRead
  <2>1. /\ UNCHANGED <<toPlugin, plugin, br, deadline, handler, callback, brw, rbuf, server, open, hsent>>
        /\ callback = "cb" /\ toEngine # <<>> /\ toEngine' = Tail(toEngine)
    BY <1>5 DEF H!EngineRead
  <2>2. hgot' = [hgot EXCEPT !["engine"] = Append(hgot["engine"], Head(toEngine))]
    BY <1>5 DEF H!EngineRead
  <2>3. /\ hgot'["engine"] = Append(hgot["engine"], Head(toEngine)) /\ hgot'["plugin"] = hgot["plugin"]
        /\ DOMAIN hgot' = H!Side
    BY <1>0, <2>2 DEF H!Side, H!TypeOK
  <2>4. hgot'["engine"] \in Seq(H!Chunk) /\ toEngine' \in Seq(H!Chunk) /\ EngineStream' = EngineStream
    <3>1. PICK g \in Seq(H!Chunk) : g = hgot["engine"]
      BY <1>t
    <3>2. /\ Append(g, Head(toEngine)) \in Seq(H!Chunk) /\ Tail(toEngine) \in Seq(H!Chunk)
          /\ Stream(Append(g, Head(toEngine)), Tail(toEngine)) = Stream(g, toEngine)
      <4>1. toEngine \in Seq(H!Chunk) /\ toEngine # <<>>
        BY <1>t, <2>1
      <4> QED
        BY <4>1, MoveHead, Zenon DEF Stream
    <3> QED
      BY <2>1, <2>3, <3>1, <3>2 DEF EngineStream
  <2>5. UNCHANGED <<Arrived, PluginStream, FromSwitch>>
    BY <2>1, <2>3 DEF Arrived, PluginStream, FromSwitch
  <2>6. hgot' \in [H!Side -> Seq(H!Chunk)]
    BY <1>0, <2>2, <2>3, <2>4 DEF H!Side, H!TypeOK
  <2>7. Len(hgot'["engine"]) <= MaxBytes
    <3>1. Len(EngineStream') = Len(hgot'["engine"]) + Len(toEngine')
      BY <2>4, ConcatProperties DEF EngineStream, Stream
    <3>2. Len(hsent["plugin"]) <= MaxBytes /\ EngineStream' = hsent["plugin"]
      BY <1>0, <2>1, <2>4 DEF H!Side, H!TypeOK, Switched
    <3>3. Len(hsent["plugin"]) \in Nat /\ Len(toEngine') \in Nat /\ Len(hgot'["engine"]) \in Nat /\ MaxBytes \in Nat
      BY <1>t, <2>4, LenProperties, HijackAssumed DEF H!HijackAssumption
    <3> QED
      BY <3>1, <3>2, <3>3
  <2>8. handler # "idle"
    BY <1>0, <2>1 DEF Quiet
  <2> QED
    BY <1>0, <2>1, <2>3, <2>4, <2>5, <2>6, <2>7, <2>8 DEF H!Side, HijackInv, Quiet, Response, Switched, H!TypeOK
<1>6. CASE H!EngineWrite
  <2> DEFINE b == <<"engine", Len(hsent["engine"]) + 1>>
  <2>1. /\ UNCHANGED <<toEngine, plugin, br, deadline, handler, callback, brw, rbuf, server, open, hgot>>
        /\ callback = "cb" /\ toPlugin' = Append(toPlugin, b)
        /\ hsent' = [hsent EXCEPT !["engine"] = Append(hsent["engine"], b)]
        /\ Len(hsent["engine"]) < MaxBytes
    BY <1>6 DEF H!EngineWrite
  <2>2. Len(hsent["engine"]) \in Nat /\ b \in H!Chunk
    <3>1. Len(hsent["engine"]) \in Nat
      BY <1>t, LenProperties
    <3> QED
      BY <3>1 DEF H!Chunk
  <2> HIDE DEF b
  <2>3. /\ hsent'["engine"] = Append(hsent["engine"], b) /\ hsent'["plugin"] = hsent["plugin"]
        /\ DOMAIN hsent' = H!Side
    BY <1>0, <2>1 DEF H!Side, H!TypeOK
  <2>4. /\ hsent'["engine"] \in Seq(H!Chunk) /\ Len(hsent'["engine"]) = Len(hsent["engine"]) + 1
        /\ toPlugin' \in Seq(H!Chunk)
    BY <1>t, <2>1, <2>2, <2>3, AppendProperties
  <2>5. Arrived' = Append(Arrived, b)
    BY <1>t, <2>1, <2>2, ChunksAppend DEF Arrived
  <2>6. FromSwitch' = Append(FromSwitch, b)
    <3>1. H!Accepted \in Seq(H!Chunk)
      BY HttpChunks
    <3>2. Stream(H!Accepted, Append(hsent["engine"], b)) = Append(Stream(H!Accepted, hsent["engine"]), b)
      BY <1>t, <2>2, <3>1, ChunksAppend
    <3> QED
      BY <2>3, <3>2 DEF FromSwitch
  <2>7. PluginStream' = Append(PluginStream, b)
    <3>1. Arrived \in Seq(H!Chunk)
      BY <1>0, HijackTypes
    <3> QED
      BY <1>t, <2>1, <2>2, <2>5, <3>1, ChunksAppend DEF PluginStream
  <2>8. UNCHANGED EngineStream
    BY <2>1 DEF EngineStream
  <2>9. hsent' \in [H!Side -> Seq(H!Chunk)]
    BY <1>0, <2>1, <2>3, <2>4 DEF H!Side, H!TypeOK
  <2>10. Len(hsent'["engine"]) <= MaxBytes
    BY <2>1, <2>2, <2>4, HijackAssumed DEF H!HijackAssumption
  <2>11. handler # "idle"
    BY <1>0, <2>1 DEF Quiet
  <2> QED
    BY <1>0, <2>1, <2>3, <2>4, <2>5, <2>6, <2>7, <2>8, <2>9, <2>10, <2>11
       DEF H!Side, HijackInv, Quiet, Response, Switched, H!TypeOK
<1>7. CASE H!CallbackReturns \/ H!HandlerReturns \/ H!ContextDone
  <2>1. UNCHANGED <<toEngine, toPlugin, plugin, br, deadline, brw, rbuf, hsent, hgot>>
    BY <1>7 DEF H!CallbackReturns, H!HandlerReturns, H!ContextDone
  <2>2. UNCHANGED <<Arrived, PluginStream, EngineStream, FromSwitch>>
    BY <2>1 DEF Arrived, PluginStream, EngineStream, FromSwitch
  <2> QED
    BY <1>0, <1>7, <2>1, <2>2 DEF H!CallbackReturns, H!HandlerReturns, H!ContextDone, HijackInv, Quiet,
         Response, Switched, H!TypeOK
<1> QED
  BY <1>1, <1>2, <1>3, <1>4, <1>5, <1>6, <1>7

\* Every step of the switch keeps its invariant.
LEMMA HijackStep == HijackInv /\ [H!Next]_hVars => HijackInv'
<1> SUFFICES ASSUME HijackInv, [H!Next]_hVars PROVE HijackInv'
  OBVIOUS
<1>1. CASE UNCHANGED hVars
  <2>1. UNCHANGED <<Arrived, PluginStream, EngineStream, FromSwitch>>
    BY <1>1 DEF hVars, Arrived, PluginStream, EngineStream, FromSwitch
  <2> QED
    BY <1>1, <2>1 DEF hVars, HijackInv, Quiet, Response, Switched, H!TypeOK
<1> QED
  BY <1>1, HijackPluginStep, HijackEngineStep DEF H!Next

\* The invariant implies that nothing is lost.
LEMMA HijackInvWhole == HijackInv => H!SwitchLosesNothing
<1> SUFFICES ASSUME HijackInv PROVE H!SwitchLosesNothing
  OBVIOUS
<1>1. PluginStream = Stream(Stream(hgot["plugin"], br), toPlugin)
  BY HijackTypes, ChunksRegroup DEF HijackInv, PluginStream, Arrived
<1> QED
  BY <1>1 DEF HijackInv, Switched, H!SwitchLosesNothing, Stream, EngineStream

-----------------------------------------------------------------------------
(* The ways of a plugin's process together *)

ProcessInv == part \in {"stub", "hijack", "pair", "run"} /\ IInv /\ HijackInv /\ PairInv /\ RunInv

\* The invariants of all parts hold in the beginning.
LEMMA ProcessInit == MCInit => ProcessInv
BY InvInit, HijackInitInv, PairInitInv, RunInitInv DEF MCInit, ProcessInv, PairRest, RunRest

\* A step is one of one part; the others rest.
LEMMA ProcessStep == ProcessInv /\ [MCNext]_<<part, vars, hVars, cpVars, prVars>> => ProcessInv'
<1> SUFFICES ASSUME ProcessInv, [MCNext]_<<part, vars, hVars, cpVars, prVars>> PROVE ProcessInv'
  OBVIOUS
<1>1. [Next]_vars /\ [H!Next]_hVars /\ [CP!Next]_cpVars /\ [PR!Next]_prVars /\ part' = part
  BY DEF MCNext
<1> QED
  BY <1>1, InvStep, HijackStep, PairStep, RunTypeStep, MergeStep, ResolveStep, ChildStep DEF ProcessInv, RunInv

\* The types of whichever part runs are an invariant: of the stub, of both
\* ways to a connection and of docker pass run.
THEOREM ProcessTypeCorrect == MCSpec => []ProcessTypeOK
<1>1. ProcessInv => ProcessTypeOK
  BY DEF ProcessInv, ProcessTypeOK, IInv, HijackInv, PairInv, RunInv
<1> QED
  BY <1>1, ProcessInit, ProcessStep, PTL DEF MCSpec

\* A plugin's connection is whole and private, however reads cut the stream at
\* the switch from HTTP, for any number of bytes and with every fault
\* (Hijackify, ServeHTTP), and whenever another child is forked while a
\* plugin is launched (newSocketFD, NewConnectionPair, FromCustomCfg).
THEOREM ConnectionsAreWhole == MCSpec => []ConnectionIsWhole
<1>1. ProcessInv => ConnectionIsWhole
  BY HijackInvWhole, PairInvPrivate DEF ProcessInv, ConnectionIsWhole
<1> QED
  BY <1>1, ProcessInit, ProcessStep, PTL DEF MCSpec

\* docker pass run stands for its child, for any environment files, variables,
\* references and answers and any number and order of signals: none of those
\* it forwards (SIGINT, SIGTERM, SIGHUP) kills it once there is a child
\* (RunCommand, forwardableSignals, mergeEnv, resolveEnv, childExitCode).
THEOREM RunsAreTransparent == MCSpec => []RunIsTransparent
<1>1. ProcessInv => RunIsTransparent
  BY RunInvTransparent DEF ProcessInv
<1> QED
  BY <1>1, ProcessInit, ProcessStep, PTL DEF MCSpec

===============================================================================
