------------------------------- MODULE Hijack -------------------------------
(***************************************************************************)
(* How a plugin that the engine did not launch gets its connection         *)
(* (x/ipc/hijack.go, plugin/config.go): it sends an HTTP request, the      *)
(* engine's handler takes the connection over, answers 101 and hands the   *)
(* connection to a callback, and from then on both sides write their own   *)
(* bytes.  A read returns any amount of what has arrived, so the plugin's  *)
(* buffered reader may hold more than the response.                        *)
(*                                                                         *)
(* net/http is external; a request and a response are two chunks each.     *)
(***************************************************************************)
EXTENDS Integers, Sequences

CONSTANTS
  MaxBytes,  \* bound: chunks each side writes once it has the connection
  Faults     \* subset of {"refuse", "timeout", "shutdown", "conn"}

\* What the constants have to be.
HijackAssumption ==
  MaxBytes \in Nat /\ Faults \subseteq {"refuse", "timeout", "shutdown", "conn"}

VARIABLES
  toEngine, toPlugin,  \* what is on its way
  plugin,    \* Hijackify: "request", "response", "ready", "failed"
  br,        \* what the plugin's bufio.Reader holds
  deadline,  \* TRUE while the connection has a deadline
  handler,   \* ServeHTTP: "idle", "hijacked", "returned"
  callback,  \* its goroutine: "off", "respond", "flush", "cb", "done"
  brw,       \* the response in the engine's bufio.Writer
  rbuf,      \* what the engine's bufio.Reader holds beyond the request
  server,    \* the request's context: "live" or "done"
  open,      \* which ends are not closed: subset of {"plugin", "engine"}
  sent,      \* per side, what it has written as its own
  got        \* per side, what it has read of that

vars == <<toEngine, toPlugin, plugin, br, deadline, handler, callback, brw, rbuf, server, open,
          sent, got>>

Side == {"plugin", "engine"}
Chunk == {"request", "101", "404", "plugin", "engine"} \X Nat
RequestChunks == << <<"request", 1>>, <<"request", 2>> >>
Accepted == << <<"101", 1>>, <<"101", 2>> >>
Refused  == << <<"404", 1>>, <<"404", 2>> >>

\* The types of the variables.
TypeOK ==
  /\ {toEngine, toPlugin, br, brw, rbuf} \subseteq Seq(Chunk)
  /\ plugin \in {"request", "response", "ready", "failed"}
  /\ deadline \in BOOLEAN
  /\ handler \in {"idle", "hijacked", "returned"}
  /\ callback \in {"off", "respond", "flush", "cb", "done"}
  /\ server \in {"live", "done"}
  /\ open \subseteq Side
  /\ sent \in [Side -> Seq(Chunk)] /\ got \in [Side -> Seq(Chunk)]
  /\ \A s \in Side : Len(sent[s]) <= MaxBytes /\ Len(got[s]) <= MaxBytes

Init ==
  /\ toEngine = <<>> /\ toPlugin = <<>>
  /\ plugin = "request"
  /\ br = <<>>
  /\ deadline = FALSE
  /\ handler = "idle"
  /\ callback = "off"
  /\ brw = <<>> /\ rbuf = <<>>
  /\ server = "live"
  /\ open = Side
  /\ sent = [s \in Side |-> <<>>]
  /\ got = [s \in Side |-> <<>>]

-----------------------------------------------------------------------------
(* The plugin *)

\* req.Write, then SetDeadline.
WriteRequest ==
  /\ plugin = "request"
  /\ toEngine' = toEngine \o RequestChunks
  /\ deadline' = TRUE
  /\ plugin' = "response"
  /\ UNCHANGED <<toPlugin, br, handler, callback, brw, rbuf, server, open, sent, got>>

\* req.Write fails, or SetDeadline after it; of a request that was cut off the
\* engine reads nothing.
WriteFails ==
  /\ plugin = "request"
  /\ "conn" \in Faults
  /\ toEngine' \in {toEngine, toEngine \o RequestChunks}
  /\ plugin' = "failed"
  /\ UNCHANGED <<toPlugin, br, deadline, handler, callback, brw, rbuf, server, open, sent, got>>

\* The reader takes what has arrived, as much as one read returns.
FillReader ==
  /\ plugin = "response" \/ (plugin = "ready" /\ br = <<>>)
  /\ toPlugin # <<>>
  /\ \E n \in 1..Len(toPlugin) :
       /\ br' = br \o SubSeq(toPlugin, 1, n)
       /\ toPlugin' = SubSeq(toPlugin, n + 1, Len(toPlugin))
  /\ UNCHANGED <<toEngine, plugin, deadline, handler, callback, brw, rbuf, server, open, sent, got>>

\* http.ReadResponse: 101 makes a hijackedConn of the connection and the
\* reader, anything else an error; the deferred call clears the deadline.
ReadResponse ==
  /\ plugin = "response"
  /\ Len(br) >= 2
  /\ plugin' = IF SubSeq(br, 1, 2) = Accepted THEN "ready" ELSE "failed"
  /\ br' = SubSeq(br, 3, Len(br))
  /\ deadline' = FALSE
  /\ UNCHANGED <<toEngine, toPlugin, handler, callback, brw, rbuf, server, open, sent, got>>

\* The read meets the deadline or a closed connection.  Hijackify does not
\* close the connection.
ReadFails ==
  /\ plugin = "response"
  /\ "timeout" \in Faults \/ "engine" \notin open
  /\ plugin' = "failed"
  /\ deadline' = FALSE
  /\ UNCHANGED <<toEngine, toPlugin, br, handler, callback, brw, rbuf, server, open, sent, got>>

\* hijackedConn: Read goes through the reader, Write to the connection.
PluginRead ==
  /\ plugin = "ready"
  /\ br # <<>>
  /\ got' = [got EXCEPT !["plugin"] = Append(@, Head(br))]
  /\ br' = Tail(br)
  /\ UNCHANGED <<toEngine, toPlugin, plugin, deadline, handler, callback, brw, rbuf, server, open, sent>>

PluginWrite ==
  /\ plugin = "ready" /\ "plugin" \in open
  /\ Len(sent["plugin"]) < MaxBytes
  /\ LET b == <<"plugin", Len(sent["plugin"]) + 1>>
     IN  /\ sent' = [sent EXCEPT !["plugin"] = Append(@, b)]
         /\ toEngine' = Append(toEngine, b)
  /\ UNCHANGED <<toPlugin, plugin, br, deadline, handler, callback, brw, rbuf, server, open, got>>

PluginClose ==
  /\ plugin = "ready" /\ "plugin" \in open
  /\ "conn" \in Faults
  /\ open' = open \ {"plugin"}
  /\ UNCHANGED <<toEngine, toPlugin, plugin, br, deadline, handler, callback, brw, rbuf, server, sent, got>>

-----------------------------------------------------------------------------
(* The engine *)

\* net/http reads the request, with whatever has arrived behind it; the
\* handler of another path answers in the ordinary way, and so does ServeHTTP
\* where the connection cannot be hijacked.
Refuse ==
  /\ handler = "idle" /\ Len(toEngine) >= 2
  /\ "refuse" \in Faults
  /\ toEngine' = SubSeq(toEngine, 3, Len(toEngine))
  /\ toPlugin' = toPlugin \o Refused
  /\ handler' = "returned"
  /\ open' = open \ {"engine"}
  /\ UNCHANGED <<plugin, br, deadline, callback, brw, rbuf, server, sent, got>>

\* ServeHTTP: Hijack, and the goroutine is started.
ServeHTTP ==
  /\ handler = "idle" /\ Len(toEngine) >= 2
  /\ \E n \in 2..Len(toEngine) :
       /\ rbuf' = SubSeq(toEngine, 3, n)
       /\ toEngine' = SubSeq(toEngine, n + 1, Len(toEngine))
  /\ handler' = "hijacked"
  /\ callback' = "respond"
  /\ UNCHANGED <<toPlugin, plugin, br, deadline, brw, server, open, sent, got>>

\* resp.Write(brw) fills the writer's buffer ...
WriteResponse ==
  /\ callback = "respond"
  /\ brw' = Accepted
  /\ callback' = "flush"
  /\ UNCHANGED <<toEngine, toPlugin, plugin, br, deadline, handler, rbuf, server, open, sent, got>>

\* ... and brw.Flush() sends it; an error ends the goroutine.
Flush ==
  /\ callback = "flush"
  /\ IF "engine" \in open
     THEN toPlugin' = toPlugin \o brw /\ callback' = "cb"
     ELSE callback' = "done" /\ UNCHANGED toPlugin
  /\ brw' = <<>>
  /\ UNCHANGED <<toEngine, plugin, br, deadline, handler, rbuf, server, open, sent, got>>

\* The callback reads and writes the connection, not the reader.
EngineRead ==
  /\ callback = "cb" /\ "engine" \in open
  /\ toEngine # <<>>
  /\ got' = [got EXCEPT !["engine"] = Append(@, Head(toEngine))]
  /\ toEngine' = Tail(toEngine)
  /\ UNCHANGED <<toPlugin, plugin, br, deadline, handler, callback, brw, rbuf, server, open, sent>>

EngineWrite ==
  /\ callback = "cb" /\ "engine" \in open
  /\ Len(sent["engine"]) < MaxBytes
  /\ LET b == <<"engine", Len(sent["engine"]) + 1>>
     IN  /\ sent' = [sent EXCEPT !["engine"] = Append(@, b)]
         /\ toPlugin' = Append(toPlugin, b)
  /\ UNCHANGED <<toEngine, plugin, br, deadline, handler, callback, brw, rbuf, server, open, got>>

\* The callback returns: by itself, or because the connection is closed.
CallbackReturns ==
  /\ callback = "cb"
  /\ callback' = "done"
  /\ UNCHANGED <<toEngine, toPlugin, plugin, br, deadline, handler, brw, rbuf, server, open, sent, got>>

\* The select of ServeHTTP, and the deferred conn.Close().
HandlerReturns ==
  /\ handler = "hijacked"
  /\ callback = "done" \/ server = "done"
  /\ handler' = "returned"
  /\ open' = open \ {"engine"}
  /\ UNCHANGED <<toEngine, toPlugin, plugin, br, deadline, callback, brw, rbuf, server, sent, got>>

\* The engine's server shuts down.
ContextDone ==
  /\ server = "live"
  /\ "shutdown" \in Faults
  /\ server' = "done"
  /\ UNCHANGED <<toEngine, toPlugin, plugin, br, deadline, handler, callback, brw, rbuf, open, sent, got>>

Next ==
  \/ WriteRequest \/ WriteFails \/ FillReader \/ ReadResponse \/ ReadFails
  \/ PluginRead \/ PluginWrite \/ PluginClose
  \/ Refuse \/ ServeHTTP \/ WriteResponse \/ Flush
  \/ EngineRead \/ EngineWrite \/ CallbackReturns \/ HandlerReturns \/ ContextDone

Spec == Init /\ [][Next]_vars

\* Nothing is lost, doubled or mixed with HTTP at the switch, however reads cut
\* the stream: what a side has read, what its reader holds and what is on its
\* way is what the other side has written.  On the engine's side this needs
\* that the plugin writes only after the response, and that the response is
\* written after the hijack and before the callback (Hijackify, ServeHTTP).
\* Where the plugin is ready, the connection has no deadline any more.
SwitchLosesNothing ==
  /\ plugin = "ready" => got["plugin"] \o br \o toPlugin = sent["engine"] /\ ~deadline
  /\ callback = "cb" => got["engine"] \o toEngine = sent["plugin"] /\ rbuf = <<>>

==============================================================================
