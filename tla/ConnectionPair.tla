--------------------------- MODULE ConnectionPair ---------------------------
(***************************************************************************)
(* The socket pair between the engine and a plugin it launches, on Unix    *)
(* (x/ipc/env_unix.go, socket_linux.go, socket_unix.go, env.go): made by   *)
(* NewConnectionPair, inherited by the plugin as descriptor 3 and turned   *)
(* into a connection again by FromCustomCfg.  A descriptor that another    *)
(* child inherits would keep the connection open after its owner is gone.  *)
(*                                                                         *)
(* External: fork and exec as os/exec does them, under ForkLock; the       *)
(* engine that launches the plugin and, meanwhile, another child.          *)
(***************************************************************************)
EXTENDS Integers

CONSTANTS Faults  \* subset of {"socketpair", "fileconn", "start"}

\* What the constant has to be.
PairAssumption == Faults \subseteq {"socketpair", "fileconn", "start"}

VARIABLES
  platform, \* "linux" has SOCK_CLOEXEC, "unix" does not
  fds,      \* open descriptors: process, end of the pair, name, close-on-exec
  readers,  \* TRUE while newSocketFD holds ForkLock for reading
  launch,   \* where the engine's launch is
  other,    \* where the launch of the other child is
  cfg,      \* the plugin's configuration: its descriptor, 0 for none
  child     \* where the plugin is: "none", "restore", "running", "failed", "gone"

vars == <<platform, fds, readers, launch, other, cfg, child>>

Process == {"engine", "plugin", "other"}
Fd == [proc : Process, end : {"local", "peer"}, name : {"pair", "conn", "three"}, cloexec : BOOLEAN]

\* The types of the variables.
TypeOK ==
  /\ platform \in {"linux", "unix"}
  /\ fds \subseteq Fd
  /\ readers \in BOOLEAN
  /\ launch \in {"idle", "locked", "made", "marked", "pair", "cmd", "exec", "started",
                 "running", "failed"}
  /\ other \in {"idle", "fork", "exec", "done"}
  /\ cfg \in {0, 3}
  /\ child \in {"none", "restore", "running", "failed", "gone"}

Descriptor(p, e, n, c) == [proc |-> p, end |-> e, name |-> n, cloexec |-> c]
Of(p) == {f \in fds : f.proc = p}

Init ==
  /\ platform \in {"linux", "unix"}
  /\ fds = {}
  /\ readers = FALSE
  /\ launch = "idle" /\ other = "idle"
  /\ cfg = 0
  /\ child = "none"

-----------------------------------------------------------------------------
(* newSocketFD *)

\* Variant: the descriptors are marked without the lock.
LockFork_Skipped ==
  /\ launch = "idle"
  /\ launch' = "locked"
  /\ readers' = FALSE
  /\ UNCHANGED <<platform, fds, other, cfg, child>>

\* syscall.ForkLock.RLock(), where the system needs it.
LockFork ==
  /\ launch = "idle"
  /\ IF platform = "linux" THEN UNCHANGED readers
     ELSE readers' = TRUE
  /\ launch' = "locked"
  /\ UNCHANGED <<platform, fds, other, cfg, child>>

\* Socketpair.
Socketpair ==
  /\ launch = "locked"
  /\ fds' = fds \cup {Descriptor("engine", e, "pair", platform = "linux") : e \in {"local", "peer"}}
  /\ launch' = IF platform = "linux" THEN "pair" ELSE "made"
  /\ UNCHANGED <<platform, readers, other, cfg, child>>

SocketpairFails ==
  /\ launch = "locked"
  /\ "socketpair" \in Faults
  /\ readers' = FALSE
  /\ launch' = "failed"
  /\ UNCHANGED <<platform, fds, other, cfg, child>>

Marked(e) == {IF f.proc = "engine" /\ f.end = e THEN [f EXCEPT !.cloexec = TRUE] ELSE f : f \in fds}

\* CloseOnExec for one end, then for the other, then the deferred RUnlock.
CloseOnExec ==
  /\ launch \in {"made", "marked"}
  /\ fds' = Marked(IF launch = "made" THEN "local" ELSE "peer")
  /\ IF launch = "made" THEN launch' = "marked" /\ UNCHANGED readers
     ELSE launch' = "pair" /\ readers' = FALSE
  /\ UNCHANGED <<platform, other, cfg, child>>

-----------------------------------------------------------------------------
(* NewConnectionPair *)

\* net.FileConn duplicates the local end, the deferred Close closes the
\* original; the other end goes into cmd.ExtraFiles.
FileConn ==
  /\ launch = "pair"
  /\ fds' = (fds \ {Descriptor("engine", "local", "pair", TRUE)})
              \cup {Descriptor("engine", "local", "conn", TRUE)}
  /\ launch' = "cmd"
  /\ UNCHANGED <<platform, readers, other, cfg, child>>

FileConnFails ==
  /\ launch = "pair"
  /\ "fileconn" \in Faults
  /\ fds' = fds \ {Descriptor("engine", e, "pair", TRUE) : e \in {"local", "peer"}}
  /\ launch' = "failed"
  /\ UNCHANGED <<platform, readers, other, cfg, child>>

-----------------------------------------------------------------------------
(* os/exec forks with ForkLock held; a child has copies of all descriptors *)
(* until it execs                                                          *)

Copies(p) == {[f EXCEPT !.proc = p] : f \in Of("engine")}

\* The engine starts the plugin with the configuration of ToCustomCfg: the
\* first extra file becomes descriptor 3.
Fork ==
  /\ launch = "cmd"
  /\ ~readers
  /\ fds' = fds \cup Copies("plugin") \cup {Descriptor("plugin", "peer", "three", FALSE)}
  /\ cfg' = 3
  /\ launch' = "exec"
  /\ UNCHANGED <<platform, readers, other, child>>

Exec ==
  /\ launch = "exec"
  /\ fds' = {f \in fds : f.proc = "plugin" => ~f.cloexec}
  /\ launch' = "started"
  /\ child' = "restore"
  /\ UNCHANGED <<platform, readers, other, cfg>>

\* Start fails: the engine closes what NewConnectionPair returned.
StartFails ==
  /\ launch = "cmd"
  /\ "start" \in Faults
  /\ fds' = fds \ Of("engine")
  /\ launch' = "failed"
  /\ UNCHANGED <<platform, readers, other, cfg, child>>

\* FdWrapper.Close, once the plugin has its copy.
ClosePeer ==
  /\ launch = "started"
  /\ fds' = fds \ {Descriptor("engine", "peer", "pair", TRUE)}
  /\ launch' = "running"
  /\ UNCHANGED <<platform, readers, other, cfg, child>>

\* Somebody else in the engine's process starts a child, which runs on.
OtherForks ==
  /\ other = "idle"
  /\ ~readers
  /\ fds' = fds \cup Copies("other")
  /\ other' = "fork"
  /\ UNCHANGED <<platform, readers, launch, cfg, child>>

OtherExecs ==
  /\ other = "fork"
  /\ fds' = {f \in fds : f.proc = "other" => ~f.cloexec}
  /\ other' = "done"
  /\ UNCHANGED <<platform, readers, launch, cfg, child>>

-----------------------------------------------------------------------------
(* The plugin *)

\* NewPluginConfigFromEngineEnv and FromCustomCfg: descriptors below 3 are
\* refused, the connection is a duplicate, and the original is closed.
FromCustomCfg ==
  /\ child = "restore"
  /\ LET three == Descriptor("plugin", "peer", "three", FALSE)
     IN  \/ /\ cfg > 2
            /\ fds' = (fds \ {three}) \cup {Descriptor("plugin", "peer", "conn", TRUE)}
            /\ child' = "running"
         \/ /\ cfg <= 2 \/ "fileconn" \in Faults
            /\ fds' = fds \ {three}
            /\ child' = "failed"
  /\ UNCHANGED <<platform, readers, launch, other, cfg>>

\* The plugin's process ends.
PluginExits ==
  /\ child \in {"restore", "running", "failed"}
  /\ fds' = fds \ Of("plugin")
  /\ child' = "gone"
  /\ UNCHANGED <<platform, readers, launch, other, cfg>>

\* The engine closes its connection.
EngineCloses ==
  /\ launch = "running"
  /\ fds' = fds \ {Descriptor("engine", "local", "conn", TRUE)}
  /\ UNCHANGED <<platform, readers, launch, other, cfg, child>>

Next ==
  \/ LockFork \/ Socketpair \/ SocketpairFails \/ CloseOnExec
  \/ FileConn \/ FileConnFails \/ Fork \/ Exec \/ StartFails \/ ClosePeer
  \/ OtherForks \/ OtherExecs
  \/ FromCustomCfg \/ PluginExits \/ EngineCloses

Spec == Init /\ [][Next]_vars

\* Only the engine and the plugin ever keep an end of the pair, whenever
\* another child is forked: once the plugin is gone and the engine has closed
\* its copy, nobody holds the plugin's end, so the engine reads end of file;
\* and a launch that failed leaves no descriptor (newSocketFD,
\* NewConnectionPair, FromCustomCfg).
PairIsPrivate ==
  /\ other # "fork" =>
       /\ Of("other") = {}
       /\ launch = "running" /\ child = "gone" => \A f \in fds : f.end = "local"
       /\ launch = "failed" => fds = {}
  /\ child = "running" => \E f \in fds : Of("plugin") = {f}

==============================================================================
