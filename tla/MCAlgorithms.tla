---------------------------- MODULE MCAlgorithms ----------------------------
(***************************************************************************)
(* The parts that are about what is computed, each on every small input:   *)
(* pattern matching (Patterns), the keychain attributes (KeychainMetadata),*)
(* the release tool (Release), the session with the secret service         *)
(* (SecretSession) and the services behind the client (Services).  A       *)
(* behaviour works on an input of one of them; the others rest.            *)
(***************************************************************************)
EXTENDS Patterns

CONSTANTS Base, Value, MaxX, MaxKeys, Internal
CONSTANTS Module, PathOrder, PathPrefix, Edge, Levels, MaxRuns, MaxMerges, NoModule, NoVersion,
          Failing
CONSTANTS Primes, Generator, Radix, BlockSize, MaxPlain
CONSTANTS Call, URL, Secret, Plugin, MaxChanges, Procs, Faults, Absent

VARIABLES
  part,                             \* which one a behaviour is about
  metadata, attributes, keys, pc,   \* the variables of KeychainMetadata
  require, work, hist, head, origin, tags, pushed, rpc, opts, current, deps, queue,
  mod, todo, modified, result, runs, merges,  \* the variables of Release
  input, stage, key, wire, stored, read,      \* the variables of SecretSession
  conf, creds, disabled, server, call, changes  \* the variables of Services

KM == INSTANCE KeychainMetadata
R  == INSTANCE Release WITH pc <- rpc
SS == INSTANCE SecretSession
SV == INSTANCE Services

kmVars == <<metadata, attributes, keys, pc>>
rVars  == <<require, work, hist, head, origin, tags, pushed, rpc, opts, current, deps, queue,
            mod, todo, modified, result, runs, merges>>
ssVars == <<input, stage, key, wire, stored, read>>
svVars == <<conf, creds, disabled, server, call, changes>>

ASSUME MetadataAssumed == KM!MetadataAssumption
ASSUME ReleaseAssumed == R!ReleaseAssumption
ASSUME PrefixAssumed == R!PrefixAssumption
ASSUME SessionAssumed == SS!SessionAssumption
ASSUME ServicesAssumed == SV!ServicesAssumption

\* One plugin module and one that requires it, and a module that may require
\* both: every such graph, with direct and indirect requirements, and a circle.
MCPathOrder  == <<"plugin", "plugins/pass", "runtime">>
MCPathPrefix == {<<"plugin", "plugins/pass">>}
MCEdge == {<<"plugins/pass", "plugin">>, <<"runtime", "plugin">>,
           <<"runtime", "plugins/pass">>, <<"plugins/pass", "runtime">>}

\* A host, a host with a port, and a URL that becomes no identifier.
MCURL == {<<"https://", "h", "/">>, <<"http://", "h", ":", "1", "/", "a", ":", "b">>,
          <<"h", "/", "/">>}

PatternsRest == p = <<Glob>> /\ q = <<Glob>> /\ out = NoResult
MetadataRest == metadata = <<>> /\ attributes = <<>> /\ keys = {} /\ pc = "done"
ReleaseRest  == R!Init /\ \A e \in Edge : require[e] = "none"
SessionRest  == SS!Init /\ input.mode = "plain" /\ input.plain = <<>>
ServicesRest ==
  /\ SV!Init /\ creds = [u \in URL |-> Absent]
  /\ server.mounts = {SV!PluginService, SV!ResolverService}

MCInit ==
  \/ part = "patterns" /\ MetadataRest /\ ReleaseRest /\ SessionRest /\ ServicesRest /\ Init
  \/ part = "metadata" /\ PatternsRest /\ ReleaseRest /\ SessionRest /\ ServicesRest /\ KM!Init
  \/ part = "release" /\ PatternsRest /\ MetadataRest /\ SessionRest /\ ServicesRest /\ R!Init
  \/ part = "session" /\ PatternsRest /\ MetadataRest /\ ReleaseRest /\ ServicesRest /\ SS!Init
  \/ part = "services" /\ PatternsRest /\ MetadataRest /\ ReleaseRest /\ SessionRest /\ SV!Init

MCNext ==
  \/ part = "patterns" /\ Evaluate /\ UNCHANGED <<part, kmVars, rVars, ssVars, svVars>>
  \/ part = "metadata" /\ KM!Next /\ UNCHANGED <<part, vars, rVars, ssVars, svVars>>
  \/ part = "release" /\ R!Next /\ UNCHANGED <<part, vars, kmVars, ssVars, svVars>>
  \/ part = "session" /\ SS!Next /\ UNCHANGED <<part, vars, kmVars, rVars, svVars>>
  \/ part = "services" /\ SV!Next /\ UNCHANGED <<part, vars, kmVars, rVars, ssVars>>

MCSpec == MCInit /\ [][MCNext]_<<part, vars, kmVars, rVars, ssVars, svVars>>

\* The types of the part that runs.
PartsTypeOK ==
  CASE part = "metadata" -> KM!TypeOK
    [] part = "release" -> R!TypeOK
    [] part = "session" -> SS!TypeOK
    [] part = "services" -> SV!TypeOK
    [] OTHER -> TRUE

\* What patterns decide is what the words they match say: Match finds the
\* words, Includes covers a reading of the other pattern, Filter keeps what overlaps and
\* ExpandPattern stays inside (Patterns; x/secrets).
PatternsMeanWords ==
  MatchDecidesLanguage /\ IncludesIsComplete /\ IncludesAReading /\ FilterNeedsOverlap
    /\ ExpandStaysInside

\* Metadata survives safelySetMetadata, safelySetID and safelyCleanMetadata
\* in every iteration order, unless some key is used both with and without a
\* leading "x_" (KeychainMetadata).
MetadataRoundTrip == KM!RoundTrip

\* Modules are released in dependency order: a tagged module requires the
\* versions its run has tagged, what a run tags before it commits lies on the
\* remote branch, and the tool finds a next module unless modules depend on
\* each other in a circle (Release; BumpIterative, verifyReleaseRef).
ReleasesAreSound == R!ReleasesFitTogether /\ R!FirstTagOnBranch /\ R!OnlyCyclesStick

\* Client and daemon derive one key, and a secret saved over the session is
\* the secret read, whatever the numbers and the length (SecretSession).
SessionRoundTrip == SS!SessionRoundTrip

\* What GetSecrets answers is true of the whole call, and an engine that is
\* "not available" has run nothing (Services).
ResolvedAsAsked == SV!ResolvedAsAsked

\* Access control fails closed (Services, CheckAccess).
AccessFailsClosed == SV!AccessFailsClosed

==============================================================================
