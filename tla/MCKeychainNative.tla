--------------------------- MODULE MCKeychainNative ---------------------------
(***************************************************************************)
(* What lies under the keychain stores and what uses them: the stores of   *)
(* Windows and macOS (KeychainWindows, KeychainDarwin), the bindings to    *)
(* the macOS Keychain (GoKeychain) and to the secret service of Linux      *)
(* (SecretService), and the pass plugin (PassStore).  A behaviour is one   *)
(* of one of them, the others rest in an initial state.                    *)
(***************************************************************************)
EXTENDS KeychainWindows, TLC

CONSTANTS Process, ProcOf, NoClient
CONSTANTS Name, Account, Alien, MaxBindingCalls, NoStore, BindingFaults
CONSTANTS MaxRetries, MaxRelocks, ServiceFaults
CONSTANTS Actor, Reserved, Value, MaxPassCalls, Zero

VARIABLES
  system,                                       \* what a behaviour is about
  item, mu, dpc, dop, dtodo, dgot, dres, rival, \* the variables of KeychainDarwin
  dsaves, dcalls,
  items, store, gpc, call, attr, gtodo, refs, deferred, dangling, found, result, gres,
  gcalls,                                       \* those of GoKeychain
  addr, owner, sop, spc, conn, opener, locked, script, at, tries, after, prompts, signals,
  done, sres, relocks,                          \* those of SecretService
  keychain, heap, value, pcall, ptodo, failed, left, answer, pres, pcalls  \* those of PassStore

Darwin == INSTANCE KeychainDarwin WITH
  pc <- dpc, op <- dop, todo <- dtodo, got <- dgot, res <- dres,
  saves <- dsaves, calls <- dcalls
GK == INSTANCE GoKeychain WITH
  ID <- Account, MaxCalls <- MaxBindingCalls, Faults <- BindingFaults, todo <- gtodo
Service == INSTANCE SecretService WITH Faults <- ServiceFaults, op <- sop, pc <- spc, res <- sres
Pass == INSTANCE PassStore WITH
  ID <- Account, MaxCalls <- MaxPassCalls, call <- pcall, todo <- ptodo, res <- pres,
  calls <- pcalls

ASSUME DarwinAssumed == Darwin!DarwinAssumption
ASSUME BindingAssumed == GK!GoKeychainAssumption
ASSUME ServiceAssumed == Service!ServiceAssumption
ASSUME PassAssumed == Pass!PassAssumption

darwinVars == <<item, mu, dpc, dop, dtodo, dgot, dres, rival, dsaves, dcalls>>
gkVars == <<items, store, gpc, call, attr, gtodo, refs, deferred, dangling, found, result, gres,
            gcalls>>
serviceVars == <<addr, owner, sop, spc, conn, opener, locked, script, at, tries, after, prompts,
                 signals, done, sres, relocks>>
passVars == <<keychain, heap, value, pcall, ptodo, failed, left, answer, pres, pcalls>>

\* Both callers live in one process.
OneProcess == [c \in Client |-> "p1"]

Symmetry == Permutations(Client) \cup Permutations(ID)

BindingRest == GK!Init /\ items = {}
ServiceRest == Service!Init /\ sop = "probe" /\ addr = {} /\ ~ owner /\ ~ locked

MCInit ==
  /\ Init /\ Darwin!Init /\ Pass!Init
  /\ \/ system \in {"windows", "darwin", "pass"} /\ BindingRest /\ ServiceRest
     \/ system = "binding" /\ ServiceRest /\ GK!Init
     \/ system = "service" /\ BindingRest /\ Service!Init

MCNext ==
  \/ system = "windows" /\ Next /\ UNCHANGED <<system, darwinVars, gkVars, serviceVars, passVars>>
  \/ system = "darwin" /\ Darwin!Next
       /\ UNCHANGED <<system, vars, gkVars, serviceVars, passVars>>
  \/ system = "binding" /\ GK!Next
       /\ UNCHANGED <<system, vars, darwinVars, serviceVars, passVars>>
  \/ system = "service" /\ Service!Next
       /\ UNCHANGED <<system, vars, darwinVars, gkVars, passVars>>
  \/ system = "pass" /\ Pass!Next
       /\ UNCHANGED <<system, vars, darwinVars, gkVars, serviceVars>>

MCSpec == MCInit /\ [][MCNext]_<<system, vars, darwinVars, gkVars, serviceVars, passVars>>

\* The types of the part that runs.
NativeTypeOK ==
  CASE system = "windows" -> TypeOK
    [] system = "darwin" -> Darwin!TypeOK
    [] system = "binding" -> GK!TypeOK
    [] system = "service" -> Service!TypeOK
    [] system = "pass" -> Pass!TypeOK

\* Upserts of one process never collide: one fails on an existing item only if
\* a Save or another process wrote it; and one that succeeded without a rival
\* is what the Keychain holds when it lets the mutex go (keychain_darwin.go,
\* Upsert).
DarwinUpsertsHold == Darwin!UpsertsDontCollide /\ Darwin!UpsertStores

\* Every CoreFoundation object is released as often as it was made, on every
\* way out, and none is used after that (GoKeychain; corefoundation.go).
RefsBalanced == GK!RefsBalanced

\* A store reads, changes and deletes only items of its own name, none of
\* another access group, and with the data protection option only items of its
\* own group (GoKeychain; keychain.go New, newKeychainItem).
StoresIsolated == GK!StoresIsolated

\* An operation on the secret service that succeeds has done all of its work,
\* whatever prompts and relocks came in between, and the probe says
\* "unavailable" only of a bus nobody can reach (SecretService).
ServiceIsHonest == Service!SuccessMeansDone /\ Service!ProbeIsSound

\* No secret is lost to a buffer that somebody else clears, and rm says what it
\* has not removed (PassStore).
PassKeepsSecrets == Pass!SecretsSurviveClearing /\ Pass!RmTellsTheTruth

==============================================================================
