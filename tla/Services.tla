------------------------------ MODULE Services ------------------------------
(***************************************************************************)
(* The services a client reaches over one HTTP connection, from the client *)
(* library (client/client.go) through the generated routes                 *)
(* (x/api/.../*connect) to the handlers: the resolver (x/api/resolver)     *)
(* with the credential helper plugin behind it (plugins/credentialhelper), *)
(* the access control service (x/api/accesscontrol), the daemon's version  *)
(* and plugin management.  Calls run side by side, `docker login` changes  *)
(* the helper's credentials meanwhile, and a call may be given up or its   *)
(* connection lost while its handler runs on.                              *)
(***************************************************************************)
EXTENDS Integers, Sequences, SequencesExt

CONSTANTS
  Call,        \* calls in a behaviour
  URL,         \* server URLs: sequences of "https://", "http://", "/", ":" and names
  Secret,      \* secrets of the credential helper
  Plugin,      \* plugins the daemon lists
  MaxChanges,  \* bound: changes of the helper's store and of the daemon
  Procs,       \* the procedures that are called
  Faults,      \* what may fail: "list", "get", "conn", "module"
  Absent       \* no secret

\* What the constants have to be.
ServicesAssumption ==
  /\ MaxChanges \in Nat
  /\ Absent \notin Secret
  /\ Faults \subseteq {"list", "get", "conn", "module"}

VARIABLES
  conf,      \* the client: its configuration, or how far New is
  creds,     \* the credential helper's secrets
  disabled,  \* the plugins that are switched off
  server,    \* what is served, on which platform, and whether anybody listens
  call,      \* the calls
  changes

vars == <<conf, creds, disabled, server, call, changes>>

-----------------------------------------------------------------------------
(* The routes of the generated code *)

RegisterService == {"RegisterPlugin"}
PluginService == {"Shutdown"}
PluginManagementService == {"ListPlugins", "EnablePlugin", "DisablePlugin"}
ResolverService == {"GetSecrets"}
VersionService == {"GetVersion"}
AccessControlService == {"CheckAccess"}

Services == {RegisterService, PluginService, PluginManagementService, ResolverService,
             VersionService, AccessControlService}

ServiceOf(p) == CHOOSE s \in Services : p \in s

\* The procedure a service's handler runs for a path below it; none otherwise.
ServeHTTP(service, path) == IF path \in service THEN path ELSE "none"

\* What a server mounts: the daemon; a plugin, by its configuration (plugin/setup.go).
Mounts == {{VersionService, PluginManagementService, ResolverService, RegisterService},
           {PluginService, ResolverService}, {PluginService, AccessControlService}}

\* The mux finds the service, the service the procedure.
Route(path) ==
  LET s == ServiceOf(path) IN IF s \in server.mounts THEN ServeHTTP(s, path) ELSE "none"

-----------------------------------------------------------------------------
(* Credential helper: from server URLs to identifiers *)

\* DefaultKeyRewriter: no scheme, no trailing slash, and if the first component
\* is a host with a port, "-port-" for every colon.
DefaultKeyRewriter(url) ==
  LET bare  == SelectSeq(url, LAMBDA t : t \notin {"https://", "http://"})
      o     == IF bare # <<>> /\ Last(bare) = "/" THEN Front(bare) ELSE bare
      slash == {i \in DOMAIN o : o[i] = "/"}
      host  == IF slash = {} THEN o
               ELSE SubSeq(o, 1, (CHOOSE i \in slash : \A j \in slash : i <= j) - 1)
  IN IF Len(SelectSeq(host, LAMBDA t : t = ":")) = 1
     THEN [i \in DOMAIN o |-> IF o[i] = ":" THEN "-port-" ELSE o[i]]
     ELSE o

\* ParseID: components separated by single slashes.
ValidID(s) ==
  /\ s # <<>> /\ s[1] # "/" /\ Last(s) # "/"
  /\ \A i \in 1..Len(s) - 1 : ~ (s[i] = "/" /\ s[i + 1] = "/")

\* The identifiers that exist, and the patterns asked for: all, or one.
ID == {DefaultKeyRewriter(u) : u \in URL}
All == <<"**">>
Bad == <<>>
Pattern == {All} \cup {i \in ID : ValidID(i)}
Matches(pattern, id) == pattern = All \/ pattern = id

-----------------------------------------------------------------------------
(* Access control: what a requester says of its signature *)

Platform == {"darwin", "linux", "windows"}
IntegrityLevels == <<"untrusted", "low", "medium", "high", "system">>

Requester ==
  [signed : BOOLEAN, block : {"none", "darwin"}, level : {"unspecified"}, time : {"unset"}]
  \cup [signed : BOOLEAN, block : {"linux"}, level : {"unspecified"}, time : {"unset", "set"}]
  \cup [signed : BOOLEAN, block : {"windows"}, time : {"unset"},
        level : {"unspecified", "untrusted", "low", "medium", "high", "system"}]
NoRequester == [block |-> "no requester"]

\* What the module is given: zero values where the requester says nothing.
SigningInfo == [signed : BOOLEAN, block : Platform \cup {"zero"}, level : Range(IntegrityLevels),
                time : {"zero", "set", "1970"}]
NoInfo == [block |-> "not asked"]

IntegrityLevelFromProto(l) ==
  IF l \in {"low", "medium", "high", "system"} THEN l ELSE "untrusted"

\* Variant: AsTime of a time that is not set.
IntegratedTime_AsTime(t) == IF t = "unset" THEN "1970" ELSE t

\* A time that is not set stays zero.
IntegratedTime(t) == IF t = "unset" THEN "zero" ELSE t

\* Only the block of the plugin's own platform is read.
SigningInfoFromProto(r) ==
  IF r.block # server.platform
  THEN [signed |-> r.signed, block |-> "zero", level |-> "untrusted", time |-> "zero"]
  ELSE [signed |-> r.signed, block |-> r.block, level |-> IntegrityLevelFromProto(r.level),
        time |-> IntegratedTime(r.time)]

-----------------------------------------------------------------------------
(* Calls *)

\* A plugin as the daemon lists it; the client skips what does not parse.
Form == [provider |-> TRUE, module |-> TRUE, noname |-> FALSE, badversion |-> FALSE,
         badpattern |-> FALSE]
Versions == [semver |-> TRUE, noprefix |-> FALSE, empty |-> FALSE, malformed |-> FALSE]

Arg(p) ==
  CASE p = "GetSecrets" -> Pattern \cup {Bad}
    [] p = "CheckAccess" -> Requester \cup {NoRequester}
    [] p \in {"EnablePlugin", "DisablePlugin"} -> Plugin
    [] OTHER -> {"none"}

Idle == [pc |-> "new", proc |-> "none", arg |-> "none", ran |-> "none", todo |-> {},
         items |-> {}, code |-> "none", answer |-> "none", info |-> NoInfo,
         since |-> {}, ctx |-> TRUE]

\* The configuration New starts from: a response timeout of a second, no request timeout.
Defaults == [pc |-> "options", dial |-> "none", request |-> 0, response |-> 1, timed |-> FALSE]

\* The types of the variables.
TypeOK ==
  /\ conf.pc \in {"options", "ready", "failed"}
  /\ conf.dial \in {"none", "path", "func"} /\ conf.request \in Nat /\ conf.response \in Nat
  /\ conf.timed \in BOOLEAN
  /\ creds \in [URL -> Secret \cup {Absent}]
  /\ disabled \subseteq Plugin
  /\ server.mounts \in Mounts /\ server.platform \in Platform /\ server.up \in BOOLEAN
  /\ \A c \in Call :
       /\ call[c].pc \in {"new", "dial", "serve", "get", "reply", "done"}
       /\ call[c].todo \subseteq URL
       /\ call[c].info \in SigningInfo \cup {NoInfo}
       /\ call[c].answer \in {"none", "ok", "notfound", "unavailable", "invalid", "internal",
                              "unimplemented", "error", "allow", "deny"}
  /\ changes \in 0..MaxChanges

Init ==
  /\ conf = Defaults
  /\ creds \in [URL -> Secret \cup {Absent}]
  /\ disabled = {}
  /\ server \in [mounts : Mounts, platform : Platform, up : {TRUE}]
  /\ AccessControlService \notin server.mounts => server.platform = "linux"
  /\ ResolverService \notin server.mounts => creds = [u \in URL |-> Absent]
  /\ call = [c \in Call |-> Idle]
  /\ changes = 0

\* An option changes the configuration or makes New fail: an empty path, a
\* second dialer, a negative timeout.
Option(o) ==
  /\ conf.pc = "options"
  /\ conf' = CASE o \in {"path", "func"} /\ conf.dial = "none" -> [conf EXCEPT !.dial = o]
               [] o = "request" -> [conf EXCEPT !.request = 1]
               [] o = "noresponse" -> [conf EXCEPT !.response = 0]
               [] OTHER -> [conf EXCEPT !.pc = "failed"]
  /\ UNCHANGED <<creds, disabled, server, call, changes>>

\* The client dials as it was told or the daemon's socket, all the same to what
\* follows; it gives up a call if a timeout is left.
New ==
  /\ conf.pc = "options"
  /\ conf' = [Defaults EXCEPT !.pc = "ready", !.dial = "path",
                              !.timed = conf.request > 0 \/ conf.response > 0]
  /\ UNCHANGED <<creds, disabled, server, call, changes>>

Set(c, r) == call' = [call EXCEPT ![c] = r]

Begin(c, p, a) ==
  /\ conf.pc = "ready" /\ call[c].pc = "new"
  /\ p \in Procs
  /\ Set(c, [call[c] EXCEPT !.pc = "dial", !.proc = p, !.arg = a,
                            !.since = {u \in URL : creds[u] # Absent}])
  /\ UNCHANGED <<conf, creds, disabled, server, changes>>

\* Variant: every error of the network.
IsDialError_AnyOp(op) == TRUE

\* isDialError: an error of the network whose operation is dial or connect.
IsDialError(op) == op \in {"dial", "connect"}

\* What a call returns for an error of the network; access control and patterns
\* that do not parse are sent by other callers than the client library.
NetError(c, op) ==
  LET library == /\ call[c].proc # "CheckAccess"
                 /\ call[c].proc = "GetSecrets" => call[c].arg # Bad
  IN [call[c] EXCEPT !.ctx = FALSE,
                     !.answer = IF library /\ IsDialError(op) THEN "unavailable" ELSE "error"]

\* Dial, and the server's mux: nobody listens, no such procedure, or the handler starts.
Dial(c) ==
  /\ call[c].pc = "dial"
  /\ IF ~ server.up
     THEN Set(c, [NetError(c, "dial") EXCEPT !.pc = "done"])
     ELSE IF Route(call[c].proc) = "none"
     THEN Set(c, [call[c] EXCEPT !.pc = "reply", !.code = "http 404"])
     ELSE Set(c, [call[c] EXCEPT !.pc = "serve", !.ran = Route(call[c].proc)])
  /\ UNCHANGED <<conf, creds, disabled, server, changes>>

\* The client's timeout expires, or the connection is lost: the caller has an
\* error, a handler that runs goes on (GetSecrets of the plugin ignores the context).
GiveUp(c) ==
  /\ call[c].pc \in {"serve", "get", "reply"} /\ call[c].ctx
  /\ conf.timed \/ "conn" \in Faults
  /\ Set(c, NetError(c, "read"))
  /\ UNCHANGED <<conf, creds, disabled, server, changes>>

Reply(c, r, code) == Set(c, [r EXCEPT !.pc = "reply", !.code = code])

\* resolverService.GetSecrets: the pattern, then the credential helper's list.
ServeGetSecrets(c) ==
  /\ call[c].pc = "serve" /\ call[c].ran = "GetSecrets"
  /\ \/ call[c].arg = Bad /\ Reply(c, call[c], "invalid_argument")
     \/ call[c].arg # Bad /\ "list" \in Faults /\ Reply(c, call[c], "internal")
     \/ /\ call[c].arg # Bad
        /\ Set(c, [call[c] EXCEPT !.pc = "get", !.todo = {u \in URL : creds[u] # Absent}])
  /\ UNCHANGED <<conf, creds, disabled, server, changes>>

\* One credential: skipped if its URL is no identifier, does not match or
\* cannot be got any more; otherwise its secret as it is now.
GetCredential(c, u) ==
  LET id == DefaultKeyRewriter(u)
      rest == [call[c] EXCEPT !.todo = @ \ {u}]
      wanted == ValidID(id) /\ Matches(call[c].arg, id)
  IN /\ call[c].pc = "get" /\ u \in call[c].todo
     /\ \/ ~ wanted /\ Set(c, rest)
        \/ /\ wanted /\ (creds[u] = Absent \/ "get" \in Faults)
           /\ Set(c, [rest EXCEPT !.since = @ \ {u}])
        \/ /\ wanted /\ creds[u] # Absent
           /\ Set(c, [rest EXCEPT !.items = @ \cup {[id |-> id, url |-> u, value |-> creds[u]]}])
     /\ UNCHANGED <<conf, creds, disabled, server, changes>>

\* Nothing found is an error, for the plugin and for the service.
GetSecretsDone(c) ==
  /\ call[c].pc = "get" /\ call[c].todo = {}
  /\ Reply(c, call[c], IF call[c].items = {} THEN "not_found" ELSE "ok")
  /\ UNCHANGED <<conf, creds, disabled, server, changes>>

\* accessControlService.CheckAccess: the pattern has to parse and a requester
\* to be there, the module decides or fails, and what is not allowed is denied.
ServeCheckAccess(c) ==
  /\ call[c].pc = "serve" /\ call[c].ran = "CheckAccess"
  /\ \/ Reply(c, call[c], "invalid_argument")
     \/ /\ call[c].arg # NoRequester
        /\ LET asked == [call[c] EXCEPT !.info = SigningInfoFromProto(call[c].arg)]
           IN  \/ "module" \in Faults /\ Reply(c, asked, "internal")
               \/ \E decision \in {"allow", "deny"} : Reply(c, asked, decision)
  /\ UNCHANGED <<conf, creds, disabled, server, changes>>

\* The daemon's plugin management and version (not in this repository): it may
\* report a version and list plugins that do not parse.
ServeDaemon(c) ==
  /\ call[c].pc = "serve"
  /\ call[c].ran \in {"GetVersion", "ListPlugins", "EnablePlugin", "DisablePlugin"}
  /\ \E items \in CASE call[c].ran = "ListPlugins" ->
                          {{[name |-> n, form |-> f[n], off |-> n \in disabled] : n \in Plugin} :
                             f \in [Plugin -> DOMAIN Form]}
                     [] call[c].ran = "GetVersion" -> {{v} : v \in DOMAIN Versions}
                     [] OTHER -> {{}} :
       Reply(c, [call[c] EXCEPT !.items = items], "ok")
  /\ disabled' = CASE call[c].ran = "DisablePlugin" -> disabled \cup {call[c].arg}
                   [] call[c].ran = "EnablePlugin" -> disabled \ {call[c].arg}
                   [] OTHER -> disabled
  /\ UNCHANGED <<conf, creds, server, changes>>

-----------------------------------------------------------------------------
(* What the client makes of a response *)

\* The code of a response; connect takes a plain 404 for "unimplemented".
CodeOf(code) == IF code = "http 404" THEN "unimplemented" ELSE code

\* GetSecrets: not_found is ErrNotFound, items without a valid identifier are skipped.
ReceiveSecrets(r) ==
  IF r.code # "ok"
  THEN [r EXCEPT !.answer = CASE CodeOf(r.code) = "not_found" -> "notfound"
                              [] CodeOf(r.code) = "invalid_argument" -> "invalid"
                              [] OTHER -> CodeOf(r.code)]
  ELSE [r EXCEPT !.answer = "ok", !.items = {i \in @ : ValidID(i.id)}]

\* ListPlugins: plugins whose name, version or pattern does not parse are skipped.
ReceivePlugins(r) ==
  IF r.code # "ok"
  THEN [r EXCEPT !.answer = CodeOf(r.code)]
  ELSE [r EXCEPT !.answer = "ok", !.items = {i \in @ : Form[i.form]}]

\* Version: the daemon's version has to be one.
ReceiveVersion(r) ==
  [r EXCEPT !.answer = IF r.code # "ok" THEN CodeOf(r.code)
                       ELSE IF \A v \in r.items : Versions[v] THEN "ok" ELSE "error"]

\* EnablePlugin and DisablePlugin return the error; the engine reads the decision.
ReceiveOther(r) ==
  [r EXCEPT !.answer = IF CodeOf(r.code) = "invalid_argument" THEN "invalid" ELSE CodeOf(r.code)]

Received(r) ==
  CASE r.proc = "GetSecrets" -> ReceiveSecrets(r)
    [] r.proc = "ListPlugins" -> ReceivePlugins(r)
    [] r.proc = "GetVersion" -> ReceiveVersion(r)
    [] OTHER -> ReceiveOther(r)

\* The response arrives, unless the caller is gone.
Receive(c) ==
  /\ call[c].pc = "reply"
  /\ Set(c, [IF call[c].ctx THEN Received(call[c]) ELSE call[c] EXCEPT !.pc = "done"])
  /\ UNCHANGED <<conf, creds, disabled, server, changes>>

-----------------------------------------------------------------------------
\* docker login and docker logout; every call sees them at another time.
ChangeCredential(u, s) ==
  /\ conf.pc = "ready" /\ changes < MaxChanges
  /\ creds[u] # s
  /\ creds' = [creds EXCEPT ![u] = s]
  /\ call' = [c \in Call |->
                IF s = Absent THEN [call[c] EXCEPT !.since = @ \ {u}] ELSE call[c]]
  /\ changes' = changes + 1
  /\ UNCHANGED <<conf, disabled, server>>

\* The server stops listening, or starts again.
Restart ==
  /\ conf.pc = "ready" /\ changes < MaxChanges
  /\ server' = [server EXCEPT !.up = ~ @]
  /\ changes' = changes + 1
  /\ UNCHANGED <<conf, creds, disabled, call>>

Next ==
  \/ \E o \in {"path", "func", "nopath", "request", "noresponse", "negative"} : Option(o)
  \/ New \/ Restart
  \/ \E c \in Call :
       \/ \E p \in Procs : \E a \in Arg(p) : Begin(c, p, a)
       \/ Dial(c) \/ GiveUp(c) \/ Receive(c)
       \/ ServeGetSecrets(c) \/ GetSecretsDone(c) \/ ServeCheckAccess(c) \/ ServeDaemon(c)
       \/ \E u \in URL : GetCredential(c, u)
  \/ \E u \in URL, s \in Secret \cup {Absent} : ChangeCredential(u, s)

Spec == Init /\ [][Next]_vars

-----------------------------------------------------------------------------
(* Properties *)

Wanted(c, urls) ==
  {u \in urls : ValidID(DefaultKeyRewriter(u)) /\ Matches(call[c].arg, DefaultKeyRewriter(u))}

\* What GetSecrets answers is true of the whole call: it misses no credential
\* that matched and could be read from its beginning on, ErrNotFound means that
\* there was none (and not that the server has no such service), every envelope
\* matches the pattern; and ErrSecretsEngineNotAvailable means that nothing was
\* run (client.go GetSecrets, resolver.go, credentialhelper/store.go GetSecrets).
ResolvedAsAsked ==
  \A c \in Call : call[c].pc = "done" =>
    /\ call[c].answer = "unavailable" => call[c].ran = "none"
    /\ call[c].proc = "GetSecrets" =>
         /\ call[c].answer = "notfound" =>
              call[c].ran = "GetSecrets" /\ Wanted(c, call[c].since) = {}
         /\ call[c].answer = "ok" =>
              /\ call[c].items # {}
              /\ \A i \in call[c].items : Matches(call[c].arg, i.id)
              /\ Wanted(c, call[c].since) \subseteq {i.url : i \in call[c].items}

\* Access control fails closed: "allow" reaches the caller only from a module
\* that was asked, and no module is told of more trust than the requester has
\* stated for this platform: not another platform's identity, no integrity level
\* above the stated one, no date for a signature without one
\* (accesscontrol/service.go CheckAccess, service_*.go signingInfoFromProto).
AccessFailsClosed ==
  \A c \in Call :
    /\ call[c].answer = "allow" => call[c].ran = "CheckAccess" /\ call[c].info # NoInfo
    /\ call[c].info # NoInfo =>
         LET sent == call[c].arg
             rank(l) == IF l = "unspecified" THEN 1
                        ELSE CHOOSE n \in DOMAIN IntegrityLevels : IntegrityLevels[n] = l
         IN /\ call[c].info.signed => sent.signed
            /\ call[c].info.block \in {"zero", sent.block}
            /\ rank(call[c].info.level) <= rank(sent.level)
            /\ call[c].info.time # "zero" => sent.time # "unset"
=============================================================================
