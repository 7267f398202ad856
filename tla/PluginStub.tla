------------------------------ MODULE PluginStub ------------------------------
(***************************************************************************)
(* The life of a plugin process: Stub.Run (plugin/stub.go), its set-up and *)
(* registration (setup.go, register.go, lifecycle.go) and the muxed IPC    *)
(* underneath (x/ipc/ipc.go).  Goroutines: the callers of Run, and per Run *)
(* the http server's goroutine, the one that waits for the engine's        *)
(* Shutdown call, and the handlers of the engine's requests.  Teardown is  *)
(* a sync.OnceValue that whoever closes the IPC first starts and all       *)
(* others wait for.                                                        *)
(*                                                                         *)
(* The engine, the socket and the yamux session are external.  All Runs of *)
(* a stub use the one connection its configuration was made with.          *)
(***************************************************************************)
CONSTANTS
  Run,      \* calls of Run
  Request,  \* requests of the engine to the plugin's service
  NoRun,    \* nobody holds the stub's mutex
  Faults    \* what goes wrong: subset of FaultKinds

FaultKinds == {"reject", "eof", "reset", "epipe"}

ASSUME StubAssumption == NoRun \notin Run /\ Faults \subseteq FaultKinds

VARIABLES
  conn,       \* the connection: "up", "eof", "reset", "epipe", or "closed" by us
  holder,     \* the Run that holds stub.m
  pc,         \* where each Run is
  ctx,        \* its context: "live" or "cancelled"
  sess,       \* its yamux session: "none", "open", "closed"
  goaway,     \* TRUE once the session refuses new streams
  srv,        \* the server goroutine: "off", "serving", "stopped", "notified", "done"
  err,        \* what Serve, and so the session, ended with
  errCh,      \* the buffered channel of Run: "empty", "nil", "error"
  shutdown,   \* TRUE once the Shutdown call has closed the channel "closed"
  gate,       \* TRUE once setupCompleted is closed
  closer,     \* the goroutine that waits for it: "off", "wait", "close"
  teardown,   \* the OnceValue: "none", "goaway", "drain", "late", "stop", "join", "done"
  reg,        \* the registration: "none", "ok", or why it failed
  got,        \* what Run's select received: "none", "nil", "error"
  result,     \* what Run returned: "none", "nil", "error", "busy"
  req,        \* a request: "none", "gate", "serve", or how it ended
  via         \* the Run whose session carries it

runvars == <<pc, ctx, sess, goaway, srv, err, errCh, shutdown, gate, closer,
             teardown, reg, got, result>>
vars == <<conn, holder, runvars, req, via>>

PC == {"idle", "setup", "register", "abort", "started", "wait", "close", "returned"}
Pending == {"gate", "serve"}
Lost == {"eof", "reset", "epipe"}

\* Why a registration fails: the engine rejects the plugin or does not answer in
\* time, the context is done, or the session met a connection that was lost or
\* that had been closed before.
Failures == {"refused", "cancelled", "closed"} \cup Lost

\* The types of the variables; a request in the plugin has a session.
TypeOK ==
  /\ conn \in {"up", "closed"} \cup Lost
  /\ holder \in Run \cup {NoRun}
  /\ pc \in [Run -> PC]
  /\ ctx \in [Run -> {"live", "cancelled"}]
  /\ sess \in [Run -> {"none", "open", "closed"}]
  /\ goaway \in [Run -> BOOLEAN]
  /\ srv \in [Run -> {"off", "serving", "stopped", "notified", "done"}]
  /\ err \in [Run -> {"nil", "closed"} \cup Lost]
  /\ errCh \in [Run -> {"empty", "nil", "error"}]
  /\ shutdown \in [Run -> BOOLEAN]
  /\ gate \in [Run -> BOOLEAN]
  /\ closer \in [Run -> {"off", "wait", "close"}]
  /\ teardown \in [Run -> {"none", "goaway", "drain", "late", "stop", "join", "done"}]
  /\ reg \in [Run -> {"none", "ok"} \cup Failures]
  /\ got \in [Run -> {"none", "nil", "error"}]
  /\ result \in [Run -> {"none", "nil", "error", "busy"}]
  /\ req \in [Request -> {"none", "gate", "serve", "answered", "timeout", "cut"}]
  /\ via \in [Request -> Run \cup {NoRun}]
  /\ \A q \in Request : req[q] \in Pending => via[q] \in Run /\ sess[via[q]] = "open"

-----------------------------------------------------------------------------
(* Helpers *)

Goto(r, l) == pc' = [pc EXCEPT ![r] = l]

\* session.Close: the streams and the connection go with it.
SessionClosed(r) ==
  /\ sess' = [sess EXCEPT ![r] = "closed"]
  /\ conn' = "closed"
  /\ req' = [q \in Request |-> IF via[q] = r /\ req[q] \in Pending THEN "cut" ELSE req[q]]

\* The deferred stub.m.Unlock() and Run's result.
Returned(r, res) ==
  /\ Goto(r, "returned")
  /\ result' = [result EXCEPT ![r] = res]
  /\ holder' = NoRun

\* Variant: the error as it is.
OnCloseError_Raw(e) == e

\* setup's onClose: the runtime closing the IPC is not an error.
OnCloseError(e) == IF e \in {"nil", "eof"} THEN "nil" ELSE "error"

\* filterEOF and filterBrokenPipe.
ServerError(e) == IF e \in {"nil", "eof", "epipe"} THEN "nil" ELSE "error"

-----------------------------------------------------------------------------
Init ==
  /\ conn = "up"
  /\ holder = NoRun
  /\ pc = [r \in Run |-> "idle"]
  /\ ctx = [r \in Run |-> "live"]
  /\ sess = [r \in Run |-> "none"]
  /\ goaway = [r \in Run |-> FALSE]
  /\ srv = [r \in Run |-> "off"]
  /\ err = [r \in Run |-> "nil"]
  /\ errCh = [r \in Run |-> "empty"]
  /\ shutdown = [r \in Run |-> FALSE]
  /\ gate = [r \in Run |-> FALSE]
  /\ closer = [r \in Run |-> "off"]
  /\ teardown = [r \in Run |-> "none"]
  /\ reg = [r \in Run |-> "none"]
  /\ got = [r \in Run |-> "none"]
  /\ result = [r \in Run |-> "none"]
  /\ req = [q \in Request |-> "none"]
  /\ via = [q \in Request |-> NoRun]

\* Variant: Run without the mutex.
TryLock_Ignored(r) ==
  /\ pc[r] = "idle"
  /\ holder' = r
  /\ Goto(r, "setup")
  /\ UNCHANGED <<conn, ctx, sess, goaway, srv, err, errCh, shutdown, gate, closer,
                 teardown, reg, got, result, req, via>>

\* Run is called: stub.m.TryLock().
TryLock(r) ==
  /\ pc[r] = "idle"
  /\ \/ /\ holder = NoRun
        /\ holder' = r
        /\ Goto(r, "setup")
        /\ UNCHANGED result
     \/ /\ holder # NoRun
        /\ Goto(r, "returned")
        /\ result' = [result EXCEPT ![r] = "busy"]
        /\ UNCHANGED holder
  /\ UNCHANGED <<conn, ctx, sess, goaway, srv, err, errCh, shutdown, gate, closer,
                 teardown, reg, got, req, via>>

\* NewClientIPC: a session over the connection, whatever its state, and the
\* server goroutine.  (yamux.Client fails only for a configuration it rejects,
\* and it is given the default one.)
NewClientIPC(r) ==
  /\ pc[r] = "setup"
  /\ sess' = [sess EXCEPT ![r] = "open"]
  /\ srv' = [srv EXCEPT ![r] = "serving"]
  /\ Goto(r, "register")
  /\ UNCHANGED <<conn, holder, ctx, goaway, err, errCh, shutdown, gate, closer,
                 teardown, reg, got, result, req, via>>

\* doRegister succeeds.
Register(r) ==
  /\ pc[r] = "register"
  /\ sess[r] = "open" /\ conn = "up"
  /\ reg' = [reg EXCEPT ![r] = "ok"]
  /\ Goto(r, "started")
  /\ UNCHANGED <<conn, holder, ctx, sess, goaway, srv, err, errCh, shutdown, gate, closer,
                 teardown, got, result, req, via>>

\* It fails.
RegisterFails(r) ==
  /\ pc[r] = "register"
  /\ \E why \in Failures :
       /\ \/ why = "refused" /\ "reject" \in Faults
          \/ why = "cancelled" /\ ctx[r] = "cancelled"
          \/ why = err[r] /\ sess[r] = "closed"
       /\ reg' = [reg EXCEPT ![r] = why]
  /\ Goto(r, "abort")
  /\ UNCHANGED <<conn, holder, ctx, sess, goaway, srv, err, errCh, shutdown, gate, closer,
                 teardown, got, result, req, via>>

\* Variant: setup returns the error and keeps the IPC.
Abort_NoClose(r) ==
  /\ pc[r] = "abort"
  /\ Returned(r, "error")
  /\ UNCHANGED <<conn, ctx, sess, goaway, srv, err, errCh, shutdown, gate, closer,
                 teardown, reg, got, req, via>>

\* ipc.Close() has returned; setup and Run return the registration's error.
Abort(r) ==
  /\ pc[r] = "abort"
  /\ teardown[r] = "done"
  /\ Returned(r, "error")
  /\ UNCHANGED <<conn, ctx, sess, goaway, srv, err, errCh, shutdown, gate, closer,
                 teardown, reg, got, req, via>>

\* The goroutine that waits for Shutdown is started, then the gate opens.
StartCloser(r) ==
  /\ pc[r] = "started"
  /\ closer[r] = "off"
  /\ closer' = [closer EXCEPT ![r] = "wait"]
  /\ UNCHANGED <<conn, holder, pc, ctx, sess, goaway, srv, err, errCh, shutdown, gate,
                 teardown, reg, got, result, req, via>>

CompleteSetup(r) ==
  /\ pc[r] = "started"
  /\ closer[r] # "off"
  /\ gate' = [gate EXCEPT ![r] = TRUE]
  /\ Goto(r, "wait")
  /\ UNCHANGED <<conn, holder, ctx, sess, goaway, srv, err, errCh, shutdown, closer,
                 teardown, reg, got, result, req, via>>

\* Run's select: its context is done, or the server goroutine reports.
Wait(r) ==
  /\ pc[r] = "wait"
  /\ \/ /\ ctx[r] = "cancelled"
        /\ got' = [got EXCEPT ![r] = "nil"]
        /\ UNCHANGED errCh
     \/ /\ errCh[r] # "empty"
        /\ got' = [got EXCEPT ![r] = errCh[r]]
        /\ errCh' = [errCh EXCEPT ![r] = "empty"]
  /\ Goto(r, "close")
  /\ UNCHANGED <<conn, holder, ctx, sess, goaway, srv, err, shutdown, gate, closer,
                 teardown, reg, result, req, via>>

\* errors.Join(ipc.Close(), err)
Return(r) ==
  /\ pc[r] = "close"
  /\ teardown[r] = "done"
  /\ Returned(r, IF got[r] = "nil" /\ ServerError(err[r]) = "nil" THEN "nil" ELSE "error")
  /\ UNCHANGED <<conn, ctx, sess, goaway, srv, err, errCh, shutdown, gate, closer,
                 teardown, reg, got, req, via>>

Cancel(r) ==
  /\ pc[r] # "returned"
  /\ ctx[r] = "live"
  /\ ctx' = [ctx EXCEPT ![r] = "cancelled"]
  /\ UNCHANGED <<conn, holder, pc, sess, goaway, srv, err, errCh, shutdown, gate, closer,
                 teardown, reg, got, result, req, via>>

-----------------------------------------------------------------------------
(* The server goroutine *)

\* recvLoop meets the state of the connection and shuts the session down.
SessionFails(r) ==
  /\ sess[r] = "open"
  /\ conn # "up"
  /\ err' = [err EXCEPT ![r] = conn]
  /\ SessionClosed(r)
  /\ UNCHANGED <<holder, pc, ctx, goaway, srv, errCh, shutdown, gate, closer,
                 teardown, reg, got, result, via>>

\* Serve returns; after server.Close() with ErrServerClosed, which is no error.
ServeReturns(r) ==
  /\ srv[r] = "serving"
  /\ sess[r] = "closed"
  /\ srv' = [srv EXCEPT ![r] = "stopped"]
  /\ err' = [err EXCEPT ![r] = IF teardown[r] = "join" THEN "nil" ELSE @]
  /\ UNCHANGED <<conn, holder, pc, ctx, sess, goaway, errCh, shutdown, gate, closer,
                 teardown, reg, got, result, req, via>>

\* Variant: a channel without a buffer.
OnClose_Unbuffered(r) ==
  /\ srv[r] = "stopped"
  /\ pc[r] = "wait"
  /\ errCh' = [errCh EXCEPT ![r] = OnCloseError(err[r])]
  /\ srv' = [srv EXCEPT ![r] = "notified"]
  /\ UNCHANGED <<conn, holder, pc, ctx, sess, goaway, err, shutdown, gate, closer,
                 teardown, reg, got, result, req, via>>

\* onClose(err): the send on errCh, which has room for one value.
OnClose(r) ==
  /\ srv[r] = "stopped"
  /\ errCh[r] = "empty"
  /\ errCh' = [errCh EXCEPT ![r] = OnCloseError(err[r])]
  /\ srv' = [srv EXCEPT ![r] = "notified"]
  /\ UNCHANGED <<conn, holder, pc, ctx, sess, goaway, err, shutdown, gate, closer,
                 teardown, reg, got, result, req, via>>

\* session.Close() and close(result.done).
ServerDone(r) ==
  /\ srv[r] = "notified"
  /\ SessionClosed(r)
  /\ srv' = [srv EXCEPT ![r] = "done"]
  /\ UNCHANGED <<holder, pc, ctx, goaway, err, errCh, shutdown, gate, closer,
                 teardown, reg, got, result, via>>

-----------------------------------------------------------------------------
(* Teardown *)

\* The goroutine after <-closed.
CloserWakes(r) ==
  /\ closer[r] = "wait"
  /\ shutdown[r]
  /\ closer' = [closer EXCEPT ![r] = "close"]
  /\ UNCHANGED <<conn, holder, pc, ctx, sess, goaway, srv, err, errCh, shutdown, gate,
                 teardown, reg, got, result, req, via>>

\* The first ipc.Close().
BeginTeardown(r) ==
  /\ teardown[r] = "none"
  /\ pc[r] \in {"abort", "close"} \/ closer[r] = "close"
  /\ teardown' = [teardown EXCEPT ![r] = "goaway"]
  /\ UNCHANGED <<conn, holder, pc, ctx, sess, goaway, srv, err, errCh, shutdown, gate,
                 closer, reg, got, result, req, via>>

\* Variant: session.GoAway() left out.
GoAway_Skipped(r) ==
  /\ teardown[r] = "goaway"
  /\ teardown' = [teardown EXCEPT ![r] = "drain"]
  /\ UNCHANGED <<conn, holder, pc, ctx, sess, goaway, srv, err, errCh, shutdown, gate,
                 closer, reg, got, result, req, via>>

GoAway(r) ==
  /\ teardown[r] = "goaway"
  /\ goaway' = [goaway EXCEPT ![r] = TRUE]
  /\ teardown' = [teardown EXCEPT ![r] = "drain"]
  /\ UNCHANGED <<conn, holder, pc, ctx, sess, srv, err, errCh, shutdown, gate,
                 closer, reg, got, result, req, via>>

\* waitForClientToDisconnect: no stream is open, or the timeout expires.
Drain(r) ==
  /\ teardown[r] = "drain"
  /\ \/ /\ \A q \in Request : via[q] = r => req[q] \notin Pending
        /\ teardown' = [teardown EXCEPT ![r] = "stop"]
     \/ teardown' = [teardown EXCEPT ![r] = "late"]
  /\ UNCHANGED <<conn, holder, pc, ctx, sess, goaway, srv, err, errCh, shutdown, gate,
                 closer, reg, got, result, req, via>>

\* server.server.Close() closes the listener, which is the session.
StopServer(r) ==
  /\ teardown[r] \in {"stop", "late"}
  /\ SessionClosed(r)
  /\ teardown' = [teardown EXCEPT ![r] = "join"]
  /\ UNCHANGED <<holder, pc, ctx, goaway, srv, err, errCh, shutdown, gate,
                 closer, reg, got, result, via>>

\* <-server.done
Join(r) ==
  /\ teardown[r] = "join"
  /\ srv[r] = "done"
  /\ teardown' = [teardown EXCEPT ![r] = "done"]
  /\ UNCHANGED <<conn, holder, pc, ctx, sess, goaway, srv, err, errCh, shutdown, gate,
                 closer, reg, got, result, req, via>>

-----------------------------------------------------------------------------
(* The engine, and the handlers of its requests *)

\* A new stream reaches the plugin.
Reachable(r) == sess[r] = "open" /\ ~goaway[r] /\ conn = "up"

SendRequest(q) ==
  /\ req[q] = "none"
  /\ \E r \in Run :
       /\ Reachable(r)
       /\ via' = [via EXCEPT ![q] = r]
  /\ req' = [req EXCEPT ![q] = "gate"]
  /\ UNCHANGED <<conn, holder, runvars>>

\* setupInterceptor: the handler runs once setup has completed ...
PassGate(q) ==
  /\ req[q] = "gate"
  /\ gate[via[q]]
  /\ req' = [req EXCEPT ![q] = "serve"]
  /\ UNCHANGED <<conn, holder, runvars, via>>

\* ... or the timeout or the request's context ends the wait.
GateTimeout(q) ==
  /\ req[q] = "gate"
  /\ req' = [req EXCEPT ![q] = "timeout"]
  /\ UNCHANGED <<conn, holder, runvars, via>>

Respond(q) ==
  /\ req[q] = "serve"
  /\ req' = [req EXCEPT ![q] = "answered"]
  /\ UNCHANGED <<conn, holder, runvars, via>>

\* The engine calls Shutdown: once() closes the channel.
Shutdown(r) ==
  /\ Reachable(r)
  /\ ~shutdown[r]
  /\ shutdown' = [shutdown EXCEPT ![r] = TRUE]
  /\ UNCHANGED <<conn, holder, pc, ctx, sess, goaway, srv, err, errCh, gate, closer,
                 teardown, reg, got, result, req, via>>

\* The engine closes its side, or dies.
Disconnect ==
  /\ conn = "up"
  /\ conn' \in Lost \cap Faults
  /\ UNCHANGED <<holder, runvars, req, via>>

Main(r) ==
  \/ NewClientIPC(r) \/ Register(r) \/ RegisterFails(r) \/ Abort(r)
  \/ StartCloser(r) \/ CompleteSetup(r) \/ Wait(r) \/ Return(r)

Server(r) == SessionFails(r) \/ ServeReturns(r) \/ OnClose(r) \/ ServerDone(r)

Teardown(r) == BeginTeardown(r) \/ GoAway(r) \/ Drain(r) \/ StopServer(r) \/ Join(r)

Handler(q) == PassGate(q) \/ GateTimeout(q) \/ Respond(q)

Next ==
  \/ \E r \in Run :
       TryLock(r) \/ Main(r) \/ Server(r) \/ CloserWakes(r) \/ Teardown(r)
         \/ Cancel(r) \/ Shutdown(r)
  \/ \E q \in Request : SendRequest(q) \/ Handler(q)
  \/ Disconnect

Spec == Init /\ [][Next]_vars

\* Goroutines that can run do, the registration has a timeout, and so has the
\* wait for the engine's streams.
FairSpec ==
  /\ Spec
  /\ \A r \in Run : WF_vars(Main(r)) /\ WF_vars(Server(r)) /\ WF_vars(Teardown(r))
                      /\ WF_vars(CloserWakes(r))

-----------------------------------------------------------------------------
(* Properties *)

\* "Calling Run() while the plugin is running, will result in an error": two
\* Runs of a stub never have a session or a server goroutine at the same time,
\* not even while the first one tears down.
OneSession ==
  \A r, s \in Run : r # s =>
    ~(sess[r] = "open" /\ (sess[s] = "open" \/ srv[s] \in {"serving", "stopped", "notified"}))

\* The provider's code runs only for requests that came in over the session
\* the engine accepted the plugin on, however early the engine calls
\* (setupInterceptor).
ServedOnlyRegistered == \A q \in Request : req[q] = "serve" => reg[via[q]] = "ok"

\* A request that has reached the plugin is cut off only when the engine is
\* gone or the drain timed out: GoAway comes before the streams are counted,
\* so none slips in between the count and server.Close (newMuxedIPC).
GracefulStop ==
  [][\A q \in Request : req[q] \in Pending /\ req'[q] = "cut" =>
       conn # "up" \/ teardown[via[q]] = "late"]_vars

\* When Run has returned, whichever way, the session and the connection are
\* closed and the server goroutine has ended.  The goroutine that waits for the
\* Shutdown call is not among what is cleared away: without that call it waits
\* for ever on a channel nobody closes (setup.go:71).
NothingLeftBehind ==
  \A r \in Run : pc[r] = "returned" /\ sess[r] # "none" =>
    sess[r] = "closed" /\ srv[r] = "done" /\ conn = "closed"

\* An earlier Run of the stub has returned, and has closed the connection.
UsedUp(r) == \E s \in Run \ {r} : pc[s] = "returned" /\ sess[s] = "closed"

\* Run returns an error only if the engine refused the plugin, the context was
\* done or the connection was lost before the registration, if the connection
\* broke after it, or if an earlier Run has used the connection up: cancelling
\* the context, the engine's Shutdown and the engine closing the connection
\* are ordinary ends of a registered plugin, in every order in which they meet.
CleanExit ==
  \A r \in Run : result[r] = "error" =>
    \/ reg[r] \in Failures \ {"closed"}
    \/ reg[r] = "closed" /\ UsedUp(r)
    \/ reg[r] = "ok" /\ err[r] \in {"reset", "epipe"}

\* Two Runs of a stub never have a session at the same time, and the provider
\* is asked only over one that the engine has accepted (Run, setupInterceptor).
OneRegisteredSession == OneSession /\ ServedOnlyRegistered

\* However Run ends, it leaves no session, connection or server goroutine
\* behind, and it returns an error only for one of the causes CleanExit names
\* (Run, newMuxedIPC).
RunEndsCleanly == NothingLeftBehind /\ CleanExit

\* "After the plugin service exits, Run() can safely be called again"
\* (types.go): no Run fails because an earlier one, which ended without an
\* error, has closed the connection.
RunAgain == \A r, s \in Run : result[s] = "nil" => reg[r] # "closed"

\* Run returns after its context was cancelled, the engine called Shutdown, or
\* the connection was lost or closed, by itself too.
RunReturns ==
  \A r \in Run :
    pc[r] \notin {"idle", "returned"} /\ (ctx[r] = "cancelled" \/ shutdown[r] \/ conn # "up")
      ~> pc[r] = "returned"

==============================================================================
