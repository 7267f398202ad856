# A TLA+ model of the Secrets Engine SDK

This directory holds TLA+ modules that model the repository `docker/secrets-engine`,
TLC configurations that check them on small instances, and TLAPS proofs of the
results that hold for instances of any size. `PROJECT.json` says, for every
definition, which lines of the code it stands for, and for every hazard of the
code which property watches it.

## The system and its parts

Secrets Engine is a daemon that resolves names to secrets. This repository is its
SDK: the library plugins are written with, the credential stores, two plugins, the
client library and the tooling around them. The daemon itself is not here.

| part | state | operations | talks to |
|---|---|---|---|
| posixage lock file (`store/posixage/internal/flock`) | lock file at a path, a descriptor, an advisory lock and a heartbeat goroutine per holder | `TryLock`, `TryRLock`, `UnlockFunc`, stale-lock recovery, heartbeat | kernel, file system, other processes |
| posixage store (`store/posixage`) | a directory per credential with a metadata file and one encrypted file per key type; an RWMutex per process | `Save`, `Upsert`, `Delete`, `Get`, `GetAllMetadata`, `Filter` | the lock file, key prompts |
| keychain store, Linux (`keychain_linux.go`) | items of a Secret Service collection that may be locked at any time | the same | daemon over D-Bus, user prompts |
| keychain store, macOS (`keychain_darwin.go`) | one Keychain item per credential, a mutex for `Upsert` | the same | Keychain |
| keychain store, Windows (`keychain_windows.go`) | one primary credential per ID, and chunks when the secret is long | the same | Credential Manager |
| keychain attributes (`keychain.go`) | none (a map that is prefixed and stripped) | `safelySetMetadata`, `safelySetID`, `safelyCleanMetadata` | keychain stores |
| identifiers and patterns (`x/secrets`) | none | `Match`, `Includes`, `Filter`, `ExpandPattern`, `ExpandID` | everybody |
| plugin stub (`plugin`) | one mutex, per `Run` a session, a server goroutine, a set-up gate, a shutdown channel | `Run`, registration, `Shutdown`, requests | engine, over IPC |
| IPC (`x/ipc`) | a yamux session over one connection, an HTTP server on it, a once-only teardown | `NewClientIPC`, `NewServerIPC`, `Close` | stub and engine |
| hijacking (`x/ipc/hijack.go`) | a buffered reader on each side | `Hijackify`, `ServeHTTP` of the engine's handler | plugin that dials, engine |
| connection pair (`x/ipc/env_unix.go`, `socket_*.go`) | descriptors and their close-on-exec flags | `NewConnectionPair`, `ToCustomCfg`, `FromCustomCfg` | engine, the plugin it launches |
| resolver service and client (`x/api/resolver`, `client`) | HTTP client and its options | `GetSecrets`, `Version`, plugin management | engine |
| access control service (`x/api/accesscontrol`) | none | `CheckAccess` | engine, the module that decides |
| pass plugin (`plugins/pass`) | a store; for `run` a child process | `set`, `get`, `rm`, `ls`, `run`, `GetSecrets` | store, engine |
| credential helper plugin (`plugins/credentialhelper`) | none | `GetSecrets` | helper program |
| macOS bindings (`go-keychain/keychain.go`, `corefoundation.go`) | attribute maps, CoreFoundation objects counted by hand | `AddItem`, `UpdateItem`, `DeleteItem`, `QueryItem` | Keychain |
| Linux bindings (`go-keychain/secretservice`) | a private D-Bus connection, a session with a key, a channel of signals | `NewService`, `OpenSession`, `Unlock`, `CreateItem`, `PromptAndWait`, ... | daemon, user |
| release tool (`x/release`) | go.mod files, git tags, commits, remote branch | `bump` | git |

What makes these hard to get right:

* **Several processes on one file system.** The lock file is opened, locked,
  verified, judged stale and unlinked in separate steps, by names that may mean
  another file a moment later; processes die while they hold it.
* **Operations that are not atomic.** A posixage `Save` removes a directory and
  writes files one by one; a Windows `Save` writes chunks and a primary
  credential; a macOS `Upsert` is a `Delete` and an add; a Linux `Save` searches,
  creates or updates, and collapses duplicates with no lock at all.
* **A collection that is locked again** between the unlock and the call that
  needs it, any number of times.
* **A plugin that ends for four reasons at once**: cancelled, shut down by the
  engine, engine gone, registration refused, with requests in flight and a
  teardown that several goroutines start.
* **Answers that come late**: a prompt that is confirmed after its caller gave up, a
  handler that goes on after its client timed out, a signal before the child is there.
* **Owners of memory and descriptors**: buffers that stores clear, CoreFoundation objects
  on error paths, socket ends that a third process inherits, bytes in a reader nobody uses
  any more.
* **Go maps**: orders of iteration nobody chose, over a map that is changed.

For each part the properties that make it correct are the ones listed with its
module below.

## Modules

| module | models | extends / uses |
|---|---|---|
| `Flock`, `FlockProofs`, `MCFlock` | the lock file | |
| `SecretStore` | what a store promises (`store/store.go`): the abstract specification | |
| `PosixStore`, `PosixStoreProofs`, `MCPosixStore` | the posixage store, over the contract of the lock | refines `SecretStore` |
| `KeychainLinux`, `KeychainLinuxProofs`, `MCKeychainLinux` | the Linux store over a Secret Service | |
| `MCStoresLive` | the two stores whose operations wait for others, in one run | extends `MCPosixStore`, instantiates `KeychainLinux` |
| `KeychainDarwin` | the macOS store over the Keychain | |
| `KeychainWindows`, `KeychainWindowsProofs` | the Windows store over the Credential Manager | |
| `GoKeychain` | the macOS bindings under `KeychainDarwin` | |
| `SecretService`, `SecretServiceProofs` | one operation of the Linux store as its connection sees it | |
| `SecretSession` | the encrypted session of the Secret Service | |
| `PassStore` | the pass plugin and its commands over a store | |
| `MCKeychainNative` | what lies under and over the keychain stores, in one run | extends `KeychainWindows`, instantiates `KeychainDarwin`, `GoKeychain`, `SecretService`, `PassStore` |
| `KeychainNativeProofs` | proofs of these parts and of their sum | extends `MCKeychainNative`, `KeychainWindowsProofs`, instantiates `SecretServiceProofs` |
| `KeychainMetadata` | the attribute helpers of `keychain.go` | |
| `Patterns` | `x/secrets` matching | |
| `Release` | the release tool | |
| `Services` | client library, generated routes, resolver, credential helper, access control | |
| `MCAlgorithms` | what is about results rather than steps, in one run | extends `Patterns`, instantiates `KeychainMetadata`, `Release`, `SecretSession`, `Services` |
| `AlgorithmProofs` | proofs of these parts, `Patterns` excepted | extends `MCAlgorithms` |
| `PluginStub` | the stub, the client side of the IPC, the gate and the handlers | |
| `Hijack` | the switch from HTTP to a plugin's own connection | |
| `ConnectionPair` | the connection a launched plugin inherits | |
| `PassRun` | `docker pass run` | |
| `MCPluginStub` | the processes of a plugin, in one run | extends `PluginStub`, instantiates `Hijack`, `ConnectionPair`, `PassRun` |
| `PluginStubProofs` | proofs of the four parts and of their sum | extends `MCPluginStub` |

`MCKeychainNative`, `MCAlgorithms`, `MCPluginStub` and `MCStoresLive` are sums: a behaviour
chooses one part in its initial state (`system`, `part`, `store`) and only that part moves. A property of a sum
that joins properties of one module (such as `DarwinUpsertsHold`) is their conjunction.
A theorem about a sum has the sum's `MCSpec` on its left, with its constants left open: the
invariant of a part holds in every behaviour, since a part that is not chosen rests in a
state that satisfies it. Nothing in `MCSpec` but the choice of the part is particular to a run.

In every module that has several actors, `pc` is the program point of each, an action
is one system call, D-Bus call, Keychain call or channel operation with the code up to
the next one, and auxiliary variables (marked so) record what a property needs and no
guard reads. Operators whose name ends in `_Something` and whose comment begins with
"Variant" are faulty forms of the definition below them; no specification uses them.
They show, one for every property, that the property would notice such a change.

### Flock

`path` is the inode at the lock file's name, `fd` and `lock` the descriptor and the
flock of a caller, `age` the time since an inode's modtime, `hb` and `beat` the
heartbeat. One attempt (`acquireOnce`) is `OpenFile`, `LockFile`, `TruncateFile`,
`VerifyLock` and, on the way out, `DropLock`; `tryLock` follows a failed attempt with
`CheckContext`, one `StatLockFile` / `RemoveLockFile` (`recoverStaleLock`) and the
polling of `retryLock` (`Backoff`, `Retry`, `GiveUp`). `StopHeartbeat`,
`HeartbeatExit` and `UnlockFile` are `UnlockFunc`. Time is a `Tick` that ages all
files; without the fault "starve" it waits for heartbeats that are due and for a
caller between its refresh and its verification (`Deadline`), with it, it does not.
Inode numbers are used again as soon as nothing refers to them. The kernel, the file
system and crashes are external.

* `NothingLeaks`: no error path leaves a descriptor, a lock or a heartbeat behind.
* `HeartbeatHasOpenFile`: the heartbeat is joined before its descriptor is closed.
* `NoGhostLock`: nobody becomes a holder beside a conflicting holder of the current file.
* `NoLiveHolderCondemned`: a holder whose heartbeat runs in time is never judged stale.
* `LockProgress`: waiting ends (`SomeoneAcquires`) and unlocking ends (`UnlockCompletes`).
* `MutualExclusion`: fails, see findings.

### SecretStore and PosixStore

`SecretStore` is a map from IDs to credentials. An operation changes one entry in one
step, a read reports entries as they are together at one moment. Its `Erase` and
`Interrupt` say what the posixage store cannot promise: a `Save` that is stopped half
way has lost the old credential and may leave a torn one.

`PosixStore` has the directories and files, the RWMutex of each process (`mu`), the
file lock (`fl`, used by its contract, see `Flock`), and per client the operation in
flight. `Save` is `PromptForKeys` and then `Persist`: remove what is there
(`RemoveFile`, `RemoveDir`), `MakeDir`, `WriteMetadata`, `WriteSecret` per key type,
removal again when one of them fails. Reads are `ReadMetadata` / `ReadSecrets`, for
`Filter` and `GetAllMetadata` inside a `WalkDir`. A process may `Crash` between any two
steps, a file-system call may fail, a key may not fit.

* `ImplementsSecretStore`: refinement; the map is what the directories hold, or, while a
  writer holds the lock, what they held when it took it.
* `NoMixedVersions`: no directory ever holds files of two Saves.
* `NoLockLeaks`: all exits release both locks, the file lock first.
* `ReadsMissNothing`: a read finds every credential that was saved completely.
* `OperationsReturn`: mutex and file lock do not deadlock.

### KeychainLinux

`items` is the collection (object path to ID, metadata, secret), `locked` its state. A
call is `Connect`, `IsCollectionUnlocked`, `UnlockCollection`, `SearchCollection` and
the steps of the operation; the calls that go through `withRelockRetry` may meet a
locked collection (`MeetsLock`), sleep and `Reunlock`. `Relock` is the daemon's. A search
lists what it finds in any order, another one each time.

* `RelocksAbsorbed`: the caller sees the locked error only if the collection was relocked
  more often, within this call, than the store retries.
* `SaveLeavesOne`, `GetFindsIt`: an undisturbed operation repairs, and finds, what
  concurrent ones have left, relocks included.
* `SaveNeverAbsent`: while a Save runs that no other Save or Delete overlaps, an ID that has
  an item keeps one, in every order of the searches, with failing calls and relocks.
* `OperationsReturn`: nobody retries for ever.
* `NeverAbsent`, `DeleteRemoves`: fail, see findings.

### KeychainDarwin, KeychainWindows

macOS: `item` is the Keychain, `mu` the mutex of each process's store. `rival` records
the running changes of the same ID that no mutex keeps apart. `UpsertsDontCollide`: an
Upsert fails on an existing item only because of a Save or of another process.
`UpsertStores`: one that succeeded without a rival is what the Keychain holds when it
lets the mutex go. The run checks both as `DarwinUpsertsHold`.

Windows: `primary` and `chunk` are the credentials; a Save is `DeleteChunk` per old
chunk, `WriteChunk` per new one, `WritePrimary`; a read is `ReadPrimary` and
`ReadChunk`. A secret is a sequence of units that name the Save and the position, so
that each mixture is visible. `ReadsReturnSaved`: an undisturbed read after an
undisturbed Save returns exactly that Save, whatever was left behind before it.
`NoOrphans`: the chunks of an ID are those its primary counts. The run checks both as
`WindowsKeepsSecrets`.

### GoKeychain

An Item is a function from attributes to values (`attr`); an empty string and nil data
remove theirs. A call converts it attribute by attribute, in any order (`Convert`,
`ConvertFails`), makes the dictionary (`MapToCFDictionary`, `DictionaryFails`), calls the
framework (`AddItem`, `UpdateItem`, `DeleteItem`, `QueryItemRef`, `CallFails`) and converts
what was found (`ConvertResult`, `QueryDone`). `UpdateItem` belongs to the bindings' interface;
no store of this repository calls it.

macOS has two Keychains behind this interface. The items of the file-based one have no access
group; those of the data protection one always have one, which a query must meet. `New` without
`WithUseDataProtectionKeychain` writes to the first and searches both; with it
(`store.protected`) it uses the second only. This is modelled from how the code uses the
framework and from the attribute list at `keychain.go:149`.

`refs` is the bag of CoreFoundation references, `deferred` the bag of `defer Release(...)`
that are due; `Return` runs them.

* `RefsBalanced`: however a call ends, every object made is released exactly once, and none
  before the framework has read it.
* `StoresIsolated`: a store changes and returns only items of its own service, and of an
  identifier it was asked for; never an item of another access group; and with the option none
  that has no group. It rests on the check in `New`, since `SetString` drops an empty attribute
  from the query. Without the option, stores of different groups and one name share items (see
  below).

### SecretService, SecretSession

`SecretService` is one operation from dialling to `Close`. `script` are the calls that are
its work, chosen when the search tells what is stored; `withRelockRetry` is `MeetsLock`,
`Unlock` and `tries`. A prompt is shown, answered at any later time (`Answer`), and its
signal put on `signals`; `ReceiveSignal` takes the first one without looking whose it is, as
`PromptAndWait` does. The goroutine of `OpenSession` is `opener`.

* `ServiceIsHonest`: an operation that reports success has done its work
  (`SuccessMeansDone`): a foreign signal can only be taken after a prompt of the same
  operation timed out and the operation went on, which it does only for the duplicates whose
  outcome `Save` ignores. `ProbeIsSound`: the probe of `New` says "available" only of a service
  that is there, says "no session bus" (no endpoint, or a dial that fails) only if no endpoint
  listens, and every operation closes its connection.

`SecretSession` computes: `Exp` is modular exponentiation with a small prime, bytes have a
small radix, a key is what it is derived from. `SessionRoundTrip`: for every pair of private
numbers, also those whose shared number begins with a zero byte, and for every secret, also
one that ends like a padding, what is saved is what is read.

### PassStore

Each process has, per secret, two buffers: the store's (`raw`) and the value's own (`own`);
`value` says which of them a `PassValue` refers to. `Save` stores what `Marshal` returned
and clears it, `Load` fills a buffer, calls `Unmarshal` and clears it. `set` is `Set` and
`Save`, `rm` is `Rm` or `RmAll` with `RmLists`, then `RmDeletes` per name and `RmReturns`.
The plugin is `GetSecrets`, or `FilterFails` where the store returns an error; `Read` is the
end of `get` and `ls`, which may fail too.

* `PassKeepsSecrets`: no zeroed buffer is ever stored or returned, the plugin returns nothing
  of the engine's realm (`SecretsSurviveClearing`), and `rm` reports success only if each
  name was deleted (`RmTellsTheTruth`).

### KeychainMetadata, Patterns, Release

`KeychainMetadata` makes one turn of a loop an action, so that every iteration order of
a Go map is a behaviour. `RoundTrip`: the caller gets its metadata back.

`Patterns` has `match` as the code has it, an early-return loop written as a recursion
on the components, and the callers of it; the reference is `Describes`, which cuts an identifier into one piece per component.
`MatchDecidesLanguage`, `IncludesIsComplete`, `IncludesAReading`, `FilterNeedsOverlap`,
`ExpandStaysInside`, together `PatternsMeanWords`, compare the two on all patterns and
identifiers of the bounds. `IncludesAReading` is what `Includes` really decides: a wildcard of
the other pattern may count for any one component, as `pattern_test.go:93` asks.

`Release` has the working tree, the commits, the tags and the remote branch, and one
run of `bump` at a time: `GitTag`, `GitPushTags`, `BumpModInFile` per downstream module,
`BeforeCommitHook`, `GitCommit`, `NextModule`. A step may fail and leaves what is done;
`Merge`, `Push` and `Reset` are what people do between and during runs.

* `ReleasesFitTogether`: at the commit a module is tagged on, its go.mod requires the
  versions the same run has tagged.
* `FirstTagOnBranch`: what a run tags before it commits is on the remote branch.
* `OnlyCyclesStick`: the propagation is stuck only if modules depend on each other in a
  circle.

The run checks the three as `ReleasesAreSound`.

### Services

A call (`call`) goes from `Begin` over `Dial` and the routes of the generated code to the
handler of its procedure (`ServeGetSecrets`, `ServeCheckAccess`, `ServeDaemon`; a pattern that
does not parse is an invalid argument to the first two), `Receive`
is what the client makes of the response. `GiveUp` is its timeout or a lost connection; the
handler goes on. `GetCredential` asks the credential helper for one entry of the list it
gave before; `ChangeCredential` is a `docker login` or `logout` meanwhile. `Option` and `New`
are the client's construction. URLs are sequences of tokens, so that `DefaultKeyRewriter`
is what the code does and not the identity.

* `ResolvedAsAsked`: an answer misses no credential that matched and could be read during the
  whole call, returns nothing outside the pattern; "not found" is about credentials and never
  about a service that is not there; "engine not available" means that no handler ran.
* `AccessFailsClosed`: "allow" comes only from a module that was asked, and the module is not
  told of more trust than the requester stated for the plugin's platform.

### PluginStub

`Main` is the goroutine of `Run` (`TryLock`, `NewClientIPC`, `Register`, `StartCloser`,
`CompleteSetup`, `Wait`, `Return`, `Abort`), `Server` the HTTP server's, `CloserWakes` the
one that waits for the engine's `Shutdown`, `Teardown` the once-only close (`GoAway`,
`Drain`, `StopServer`, `Join`), `Handler` a request (`PassGate`, `GateTimeout`,
`Respond`). `reg` is how the registration ended, and why. The engine, the socket and yamux are
external.

* `OneRegisteredSession`: two Runs never have a session at the same time, teardown included
  (`OneSession`), and provider code runs only on a session the engine accepted
  (`ServedOnlyRegistered`).
* `GracefulStop`: a request is cut only if the engine is gone or the drain timed out.
* `RunEndsCleanly`: a Run that has returned leaves no session, connection or server goroutine
  (`NothingLeftBehind`; the goroutine that waits for Shutdown does stay, see below), and
  returns an error only if the engine refused it, the context or the connection ended before
  the registration, the connection broke after it, or an earlier Run has closed the connection
  (`CleanExit`, `UsedUp`).
* `RunReturns`: Run returns once it is cancelled, shut down or disconnected.
* `RunAgain`: fails, see findings.

### Hijack, ConnectionPair

`Hijack` has the bytes on their way, the plugin's buffered reader `br`, the engine's `rbuf`
and `brw`, and a read that returns any part of what has arrived; writing the request may fail
(`WriteFails`). `ConnectionPair` has the
open descriptors of the engine, the plugin and another child that is forked at any moment
when `ForkLock` permits, on systems with and without `SOCK_CLOEXEC`.

* `ConnectionIsWhole`: what one side writes after the switch the other reads, from the first
  byte, without a deadline left on the connection (`SwitchLosesNothing`); nobody but engine
  and plugin keeps an end of the pair, a failed launch leaves no descriptor
  (`PairIsPrivate`).

### PassRun

The command (`mergeEnv` per source, then `Merge`, `ResolveRef` per variable, `Notify`, `Start`, `StartForwarder`, `Wait`,
`Return`), the forwarder (`Select`, `SignalChild`), the child and a user who sends signals.
Signals have a kind. Only `forwardableSignals` have a handler; any other, such as SIGQUIT, kills
the command and leaves the child alone. The channel holds one signal, and a signal of whatever
kind that finds it full is dropped.

* `RunIsTransparent`: no signal of `forwardableSignals` kills the command from the moment it
  starts the child (any other does), the child's environment has each variable's last
  definition with every reference resolved to its one secret, and the exit code is the child's.
* `SignalsReachChild`: every signal the channel has taken, the second and later ones too, is
  sent on as the same signal, unless the child ends or the command is killed first.

## Runs

| run | what it asks | bounds |
|---|---|---|
| `flock` | safety of the lock under every fault | 2 callers, 2 inodes, threshold 3, interval 1 |
| `flock_live` | progress, and no live holder condemned | the same, exclusive locks, crashes only |
| `flock_hijack` | (violation) is an exclusive holder alone? | the same, no fault |
| `posix_store` | refinement and safety under crashes, failing calls, wrong keys | 3 clients in 2 processes, 2 IDs, 2 key types, 2 Saves, 3 calls |
| `stores_live` | no operation waits or retries for ever, reads miss nothing | posixage: the same, crashes only; Linux: 2 callers, Saves only, 3 Saves, 1 retry, relocks without end |
| `keychain_linux` | safety with all operations and faults | 2 clients, 1 ID, 2 metadata, 3 Saves, 4 calls, 2 retries |
| `keychain_linux_absent` | (violation) is a secret that is saved again never absent? | 2 clients, 4 Saves, no fault |
| `keychain_linux_delete` | (violation) does Delete remove? | 2 clients, 3 Saves, no fault |
| `keychain_native` | Windows and macOS stores, both bindings, the pass plugin | 2 clients in 1 process, 2 IDs, blob size 2, lengths 2 and 5, 3 Saves, 4 calls; bindings: 3 names ("" included), 3 calls; secret service: 1 operation, 2 retries, 2 relocks; pass: 2 processes, 2 IDs (one of the engine's realm), 3 calls |
| `algorithms` | patterns, metadata, release tool, session, services | patterns of at most 3 parts, identifiers of at most 4; 3 keys with at most 2 prefixes; 3 modules, 2 runs, 1 foreign merge; prime 23, radix 4, blocks of 2, secrets of at most 3 bytes; 3 URLs, 1 call, 2 changes meanwhile |
| `plugin_stub` | the processes of a plugin, safety and liveness | 2 Runs, 2 requests; 3 writes per side after the switch; 1 other child; 2 variables, 1 env-file, 2 signals of 3 kinds |
| `plugin_stub_again` | (violation) can Run be called again? | 2 Runs, 1 request, no fault |

Why these bounds are enough for the cases to happen:

* Lock: with two callers one can recover while the other acquires; with two inodes a
  file can be replaced and its number come back. Threshold 3 and interval 1 are the
  smallest numbers with `2 * HeartbeatInterval < StaleThreshold`, as 10s and 30s are.
  The proofs remove the bounds.
* Store: two goroutines of one process meet at the mutex, the third in another process
  at the lock only; two Saves of one ID differ in every file, with two key types
  `Persist` stops between secret files; three calls are a Save, one that is interrupted
  and a read. Two IDs let a walk meet an intact and a damaged credential.
* Linux: two searches before either creates give two items; a third Save collapses them
  and a fourth call reads. The four Saves of `keychain_linux_absent` are two concurrent
  collapses of the same duplicates. An item is created only after a search that found none, so one path per
  client and ID is enough. `MaxRetries` 2 with three relocks reaches the limit, which is 5 in
  the code.
* Windows: lengths 2 and 5 with blobs of 2 are "just fits" and "three chunks, the last
  one short"; two Saves that overlap or fail, one that heals and a Get are four calls.
* Patterns: a pattern of three parts has a glob at the front, in the middle and at the
  end, twice in a row, and beside a star; identifiers of four components are longer
  than any pattern without a glob.
* Release: three modules are a chain, a fork, a join or, with one more edge, a circle;
  requirements are direct, indirect or absent. Two runs are a failed one and the next.
* Bindings: three calls are a `New`, an add and a query or a deletion, beside an item that
  another application, or nobody's store, has written. Two names and "" make two groups and
  the missing attribute.
* Secret service: an update with two duplicates has three retried calls, of which two may
  prompt; a late answer to the first is taken by the second.
* Session: below 23 with radix 4 a number has up to three digits, and the shared number has
  leading zeros for many pairs; secrets of 0 to 3 bytes fill no block, one, and one and a half.
* Services: one call is compared with a world that changes twice under it (a logout and a
  login, or a restart); calls share nothing else, so a second one adds only states.
* Switch: a read may cut two chunks of the response and three bytes behind it everywhere.
* Signals: two signals are one in the channel and one, of its kind or of another, that finds
  it full, or two that the forwarder takes one after the other. SIGHUP is treated as SIGINT
  and SIGTERM are and is left out of the run; the proofs have it.

Deadlock is checked for the lock, which never stops. The other specifications bound the
number of calls and so may stop when these are used up.

### Fairness

* `Flock`: weak fairness of acquiring, releasing and the heartbeat: a goroutine that can
  run does. Strong fairness of `HeartbeatExit`: when the ticker and the stop channel are
  both ready, Go's `select` chooses at random and cannot take the ticker for ever.
  Its first half, `SomeoneAcquires`, is stated under the condition that recoveries end, for the
  code has no defence against one that unlinks the file again and again.
* `PosixStore`, `KeychainLinux`: weak fairness of each client's next step: goroutines are
  scheduled, a system call or D-Bus call returns, a prompt is answered or dismissed.
  Nothing is assumed of crashes, relocks or new calls. Mutexes and the file lock are not
  assumed fair; the number of calls is bounded, so nobody is overtaken for ever.
* `PluginStub`: weak fairness of `Run`, of the server goroutine, of the teardown and of
  the goroutine that waits for Shutdown. None of handlers, which are the provider's
  code: the drain has a time limit, and `RunReturns` must hold although a handler hangs.
* `PassRun`: weak fairness of the command's goroutine and of the forwarder. None of the child,
  which may run for ever, nor of the user. In `MCSpec` each condition is that of the part a
  behaviour is about.

## Proofs

`FlockProofs`, for any set of callers and inodes and any thresholds that satisfy
`ConstantsAssumption`:

* `TypeCorrect`: the type invariant.
* `LockInvariant`: `LockInv` ties program points to resources: the flock is held exactly at
  the points in `Locked`, the descriptor is open exactly in `UsesFile`, the heartbeat runs
  only in "held" and "unlock", and two locks on one inode are both shared. It is what
  `NothingLeaks` and `HeartbeatHasOpenFile` need to be inductive: alone, neither says
  anything of the points in between.
* `LeakFreedom`, `HeartbeatSafety`: these two as consequences.
* `GhostFreedom`: `NoGhostLock`; a caller that has verified its descriptor has locked the
  inode at the path, and flock's exclusion per inode does the rest.
* `LiveHolderSafety`: `NoLiveHolderCondemned` if heartbeats run in time and truncates
  succeed (`Timely`). `Fresh` bounds the age of a holder's file by the time since its
  last truncate: at most `beat` before the first tick and `HeartbeatInterval + beat`
  later, thus below the threshold by `2 * HeartbeatInterval < StaleThreshold`.

`PosixStoreProofs`, for any clients, processes, IDs, key types and Saves that satisfy
`StoreAssumption` (among it, as `New` demands, that there is a way to decrypt):

* `TypeCorrect`, and `VersionsNeverMix` (`NoMixedVersions`), `LocksNeverLeak` (`NoLockLeaks`).
  Their common invariant says for every program point which locks its client has and
  that the file lock excludes (`LocksOf`), what it was called for (`CallOf`), how much of
  its credential a `Save` has put into the directory (`StageOf`), and that what a reader
  has collected is still on disk (`ReadOf`), because it holds the file lock.
  `NoMixedVersions` alone is not inductive: writing a file keeps it only if the writer
  began with an empty directory and has been alone since.
* `StoreImplementsSecretStore`: `ImplementsSecretStore`. There is a lemma for each action;
  most steps are stutters, the last step of a writer is the abstract operation, a crash of the
  writer is `Interrupt` or `Erase`.
* `NothingIsMissed`: `ReadsMissNothing`, if no file-system call fails and every key fits
  (`Faults` without "io" and "key"; crashes are allowed), which is what `stores_live`
  checks. With failing calls the code does not promise it: a `Save` that fails half way has
  removed what it was to replace.

`KeychainLinuxProofs`, for any clients, IDs, paths and retry limit:

* `TypeCorrect`; `RelocksAreAbsorbed` (`RelocksAbsorbed`), since every retry of a call has been
  paid for by a relock within it (`RetryInv`).
* `SavesLeaveOneItem` (`SaveLeavesOne`), `GetsFindIt` (`GetFindsIt`): an operation that has been
  alone knows at each program point what the collection holds (`CalmInv`: `Alone`, `SaveOf`,
  `GetOf`), whatever the earlier ones left.
* `SavesAreNeverAbsent` (`SaveNeverAbsent`), for any order of any search and any faults.
  `KeepsInv` is about a Save that has been alone in changing its ID: what its search listed
  still matches until it updates the first, and while it collapses the rest there is an item
  that is not on its list.

`KeychainWindowsProofs`, for any clients and IDs, any blob size and secrets of any lengths
with a longest one: `TypeCorrect`, and `SecretsAreKept` (`WindowsKeepsSecrets`). The first
lemmas are about the chunks: their number, their bounds, and that they join, in order, to the secret
(`ChunksJoin`). The invariant says what an undisturbed Save has written at each
point (`WriterInv`), what an undisturbed read has collected (`ReaderInv`), that an ID whose last
change was undisturbed holds exactly that change (`SettledInv`), and which chunks exist at each point of
a change (`OrphanInv`, `Progress`). `Apart` is the lemma behind all of them: what an
undisturbed operation works on nobody else changes.
`CredentialAssumption` (an absent credential is none that is stored) is of the encoding in
the model, not of the code.

`PluginStubProofs`, for any Runs and requests: `TypeCorrect`, `SessionsAreExclusive`
(`OneRegisteredSession`), `RunsEndCleanly` (`RunEndsCleanly`), and the action property
`StopsGracefully` (`GracefulStop`). `StubInv` has the life of a Run and its teardown
(`Life`), the gate (`Gate`), the reason it ends for (`Reason`), what the drain has
waited for (`Drained`), which session a handler belongs to (`Served`), and that only an
earlier Run can have closed the connection a Run finds closed (`Spent`). `OneSession`
needs all of `Life`: that the mutex is given back only after the teardown is done, and that
the session is closed by then.
The same module proves the sum `MCPluginStub`:

* `ConnectionsAreWhole` (`ConnectionIsWhole`), for any number of bytes and of forks. `HijackInv`
  is about the two streams as wholes: what a side has read, what lies in its buffers and what is
  on its way are, put together, what the other side has written (`Switched`). To get there it
  says what can have arrived while the plugin waits for the response (`Response`), and that
  nobody writes too early (`Quiet`). `PairInv` says which process has which end under which
  name at every point of a launch (`EngineFds`, `PluginFds`, `OtherFds`), and that the read
  lock is held over just the points where a descriptor could be inherited (`ForkInv`).
* `RunsAreTransparent` (`RunIsTransparent`), for any sources, variables, answers and signals.
  `RunInv`: what is merged so far is for each variable the value of the last source that names
  it (`MergeInv`), the environment has exactly the variables resolved so far (`ResolveInv`),
  and while a child exists the forwardable signals have a handler, so that only another one
  can have killed the command (`ChildInv`).
* `ProcessTypeCorrect` (`ProcessTypeOK`).

`SecretServiceProofs`, for any number of retries and relocks (`ServiceAssumption`):
`ServiceTypes`, `SuccessIsDone` (`SuccessMeansDone`) and `ProbesAreSound` (`ProbeIsSound`),
the two halves of `ServiceIsHonest`. `PromptAndWait` takes any Completed signal for its own. That does no
harm because, as long as the outcome of a call counts, the only prompt that is open, or
answered with its signal still in the channel, is the one that is waited for
(`SignalInv`): a prompt that timed out has ended the operation. All later calls
of a script are ones whose outcome Save ignores (`OnlyFirstCounts`). A variant that goes on
after a failed Unlock breaks `SignalInv` first.

`KeychainNativeProofs`, for any constants that satisfy the assumptions of the parts:

* `DarwinTypes`, `UpsertsExclude` and `UpsertsStore`, the properties of the macOS store. The
  inductive invariant `DarwinInv` adds that a caller past the mutex holds it (`MutexInv`), that
  every running change the mutex does not exclude is in `rival` (`RivalInv`), and that what an
  Upsert without a rival deleted stays absent until it adds its item (`StoreInv`). The key
  lemma, `RivalOrExcluded`, is that a second change at its Keychain call is either on record
  or impossible. TLC has both callers in one process; the theorem covers any distribution.
* `NativeUpsertsHold` (`DarwinUpsertsHold`), `NativeServiceIsHonest` (`ServiceIsHonest`): the
  sum's properties of parts that have a specification of their own. `DarwinPart`, `ServicePart`
  and `WindowsPart` show that the sum implies each of these.
* `PassKeeps` (`PassKeepsSecrets`). `BufferInv`: a value refers to its own buffer and
  never to the one the store clears, and that buffer holds the secret while a Save is due. `CommandInv`: what `rm`
  was to delete is deleted, still to do, or reported.
* `BindingsAreBalanced` (`RefsBalanced`) and the action property `BindingsAreIsolated`
  (`StoresIsolated`). `CountInv` gives the exact bags of objects alive and of releases due at
  each point of a call; a dictionary retains what it holds, so releasing it settles its
  contents too (`TakesOver`, `DefersSettle`). `QueryInv` says that a running call has the Items
  its store builds, with service, group and, if it was made with it, the option, because `New`
  refuses an empty service or group.
* `NativeTypes` (`NativeTypeOK`).

`AlgorithmProofs`, for any constants that satisfy the assumptions of the parts:

* `MetadataSurvives` (`MetadataRoundTrip`). `MetadataInv` says what the map is in the middle of
  each loop, as a function of the keys visited: `Prefixing`, `Stored`, `Stripping`.
* `AccessIsClosed` (`AccessFailsClosed`) and `AnswersAreTrue` (`ResolvedAsAsked`), for any number
  of calls at once. `ServicesInv` says of each call which procedure it may have run
  (`RouteInv`), on which grounds a module decided (`AccessInv`), and that of what was in the
  helper's store since the call began, all that has been visited and matches is collected
  (`SecretsInv`, `LiveInv`).
* `ReleasesHold` (`ReleasesAreSound`), for any modules and requirements. `ReleasesFitTogether`
  is about the end of a run and needs the whole of `ReleaseInv`: a module waits for
  exactly those of its requirements that are still in the queue (`QueueInv`), so that what is tagged depends on nothing
  that is tagged later (`DoneInv`), and every go.mod has the versions tagged so far
  (`RequiredInv`, `FitInv`). `FirstTagOnBranch` follows from `BranchInv`, `OnlyCyclesStick` from
  the choice of the next module. Besides `ReleaseAssumption` it rests on `PrefixAssumption`:
  where one module's path begins another's, no module requires both, or the shorter one
  requires none. Without it the theorem is false, because `BumpModInFile` takes a path for
  every path it begins (see below). In this repository `plugin` is such a path, and
  no module requires the two modules under `plugins/` that it begins.
* `SecretsComeBack`: the half of `SessionRoundTrip` that is about the secret. Unpadding undoes
  padding for every length and block size (`PadFacts`), so a session fails only for its keys
  or public numbers (`FailsForKeys`).

The inductive invariants were checked by TLC on small instances before they were proved, except
`SessionInv`, which was proved directly.

Only model-checked:

* liveness (`LockProgress`, `OperationsReturn`, `KeychainReturns`, `RunReturns`,
  `SignalsReachChild`), which needs fairness;
* `PatternsMeanWords`: what the recursive `match` computes needs induction over the components;
* the other half of `SessionRoundTrip`: that client and daemon derive one key is a property of
  the recursive `Exp`, for every exponent;
* `PartsTypeOK`, the types of the parts of `MCAlgorithms`, those of `SecretSession`'s numbers
  for the same reason. The proofs above carry the types they need in their invariants.

## Findings

Four runs refute what the repository says of itself.

1. `flock_hijack`. `recover.go:43` says a missed recovery "cannot let two callers hold the
   same name". It can, without any fault: two callers find the same stale file; the first
   unlinks it, creates, locks, refreshes and verifies a new one; the second, whose `Stat`
   was before, now unlinks the new one by name and locks a third. `NoGhostLock` and
   `LiveHolderSafety` say how much is left: the verification is sound at the moment it is
   made, and no recovery decides to remove a live holder's file; only the gap between
   `Stat` and `Remove` is open.
2. `keychain_linux_delete`. `store.go:77` says Delete removes the credentials of an ID. Two
   concurrent Saves leave two items; Delete removes the first one found and succeeds.
3. `keychain_linux_absent`. `keychain_linux.go:589` updates in place "so the secret is never
   momentarily absent". Two concurrent Saves leave two items; two more search in opposite
   orders, each updates one of the two and deletes the other's, and no item is left.
   `SaveNeverAbsent` is what holds: a Save that overlaps no other change keeps the promise.
4. `plugin_stub_again`. `plugin/types.go:63` says that after the service exits "Run() can safely
   be called again". A stub has one connection; the first `Run` has closed it, and the second
   fails to register.

Also seen while modelling, without a run of their own:

* `store/store.go:89` promises an Upsert that replaces; in posixage it removes first
  (`secret.go:109`), so a failure or crash loses the old credential. The abstract store
  has `Erase` and `Interrupt` for that.
* Metadata with both `k` and `x_k` may lose one of them, depending on the map's order
  (`keychain.go:190`; line 184 says there are no collisions). `RoundTrip` excludes it.
* `pattern.go:86` says `Includes` is true if all matches of the other pattern are matches of
  this one. A literal component matches a `*` of the other pattern (`pattern_test.go:93`
  asserts it), and a `*` its `**`, so `a/b` includes `a/*`. Nothing is missed
  (`IncludesIsComplete`).
* `docker pass run`: SIGQUIT, which `run_unix.go:31` names, has no handler; it kills the command
  and orphans the child, although `run.go:99` says the handler is there so that no signal in
  the window does that. A SIGTERM that comes while a SIGINT is in the channel of one
  (`run.go:102`) is dropped. A signal the forwarder takes after the child was reaped goes to
  `kill(-pid)` (`run_unix.go:49`), which reaches what is left of the group. `run_long.md:2`
  offers `se://<ID|pattern>`, but `resolveRef` refuses a pattern.
* macOS: without `WithUseDataProtectionKeychain` stores of different groups and one name share
  their items, although `keychain.go:117` says of the access group that it "prevents access from
  other applications". An Upsert whose add fails after its Delete has lost the credential.
* Windows: `deleteChunks` stops at the first missing index; chunks behind a hole that a
  failed deletion left stay for ever (`keychain_windows.go:142`). `NoOrphans` excludes
  IDs with failed changes. A reader that overlaps a Save may join chunks of two secrets;
  `ReadsReturnSaved` is about undisturbed reads.
* Release: `--no-propagate` still edits and commits the downstream go.mod files
  (`docs/releasing.md` says it does not bump them) and does not push the tag; the tags of
  downstream modules always lie on local commits; `BumpModInFile` compares paths with
  `HasPrefix`, so a go.mod with a direct requirement of `plugins/pass` and an indirect one
  of `plugin` would get the wrong version.
* Posixage: the wait for the mutex does not look at the context, so a cancelled caller waits
  for a holder who may be in a key prompt (`store.go:64`); a directory with metadata and no
  secret makes a whole `Filter` fail (`store.go:219`).
* macOS `Filter` takes metadata from the listing and the secret from a later call
  (`keychain_darwin.go:252`): an Upsert between them mixes versions.
* Stub: the goroutine that waits for Shutdown is never released when the session ends in
  another way (`setup.go:72`). `NothingLeftBehind` exempts it.
* `OpenSession`: the comment at `secretservice.go:345` says the goroutine left by a timeout "will
  finish eventually"; it sends on a channel without a buffer that nobody receives from any
  more, so it stays ("sending" in `SecretService`).
* `AddMatchSignal` in `NewService` is given the interface's name as the key of a match rule,
  which is no rule D-Bus knows, and its error is not looked at: a Completed signal arrives
  only where the daemon addresses it to the connection. Other signals are skipped (signal 0
  in the model).
* `Hijackify` returns its errors without closing the connection, nor does `plugin/config.go:103`:
  a plugin the engine refuses keeps a dialled connection.
* The callback of the engine's handler gets the connection and not the buffered reader that
  `Hijack` returns. That loses nothing only because the plugin writes nothing between its
  request and the response, which `SwitchLosesNothing` states (`rbuf` is empty).
* Credential helper: `DOCKER_CONFIG` names a directory, and `getConfigPath` returns it as the
  file (`store.go:149`); two server URLs may be rewritten to one ID.
* Client: items whose ID does not parse are skipped, so a non-empty response may become an
  empty list without an error. The handlers of this repository send none.

## Not modelled

* Telemetry, logging, OS helpers, generated message accessors, realms, mocks, test helpers,
  examples and `x/injector`: no behaviour of their own, they convert or forward.
* Windows variants: `flock_windows.go` (`LockFileEx`, other unlink rules), `env_windows.go`
  (two pipes; when the second `CreatePipe` fails the first one stays open),
  `run_windows.go` (SIGINT only, no process group, no signalled exit state).
* The daemon itself, which is not in this repository: its resolver, its registration and its
  plugin management appear only as answers.
* The parts of the macOS bindings no store calls (account listings, Keychain paths,
  synchronisation attributes), and `LockItems` on Linux.
* A custom `KeyRewriter` of the credential helper, and the search for the Docker config.
* The character rules of identifiers are the choice of the component set. `--dry` of the
  release tool changes nothing.

## Plan

Done: the lock and its proofs; the posixage store and its refinement; the three keychain
stores, the bindings under two of them and the pass plugin over them; attributes;
patterns; the release tool; the stub, both ways to its connection; `docker pass run`; the
client and the services.

Proved: the lock; the posixage store with its refinement; the three keychain stores, the
bindings and the Secret Service connection under them and the pass plugin over them; the stub
with both ways to its connection; `docker pass run`; attributes, services, the release tool
and the padding of a session.

Next: a composition of `Services` with `PluginStub`, so that a request meets the gate and the
drain, and `flock_windows.go`. With a prover that can instantiate an induction principle: `match`
against `Describes`, and the agreement on the key.
