---------------------------- MODULE SecretService ----------------------------
(***************************************************************************)
(* One operation of the Linux keychain store as its private D-Bus          *)
(* connection sees it (secretservice.go, and the order of calls in         *)
(* keychain_linux.go): dialling, the availability probe of New, the        *)
(* session opened by a goroutine with a timeout, prompts that the user     *)
(* answers early, late or never, and the Completed signals, which arrive   *)
(* on one channel and do not name the prompt they are compared with.       *)
(* KeychainLinux has what the calls do to the items; here a call is done   *)
(* or not.  The bus, the Secret Service daemon and the user are external.  *)
(***************************************************************************)
EXTENDS Integers, Sequences

CONSTANTS
  MaxRetries,  \* maxRelockRetries, 5 in the code
  MaxRelocks,  \* bound: how often the daemon locks the collection again
  Faults       \* {"fail", "lost"}: calls may fail, the connection may be lost

\* What the constants have to be.
ServiceAssumption == {MaxRetries, MaxRelocks} \subseteq Nat /\ Faults \subseteq {"fail", "lost"}

VARIABLES
  addr,     \* the endpoints DBUS_SESSION_BUS_ADDRESS names, {} when unset
  owner,    \* TRUE if org.freedesktop.secrets has an owner
  op,       \* the operation
  pc,       \* where it is
  conn,     \* its connection: "none", "open", "lost" or "closed"
  opener,   \* the goroutine of OpenSession: "none", "calling", "sending", "done"
  locked,   \* TRUE while the collection is locked
  script,   \* the calls that are the operation's work, once it has searched
  at,       \* which of them is next
  tries,    \* how often withRelockRetry has retried it
  after,    \* what a prompt interrupts: "first" or "retry" Unlock, or "work"
  prompts,  \* the prompts made: what for, which call, and their state
  signals,  \* signalCh: numbers of prompts, 0 for another signal
  done,     \* the calls whose effect has happened
  res,      \* how the operation ended
  relocks

vars == <<addr, owner, op, pc, conn, opener, locked, script, at, tries, after, prompts,
          signals, done, res, relocks>>

Op == {"probe", "get", "create", "update", "delete"}

\* An endpoint of the address: a unix path to stat or not, whether the socket
\* exists, and whether something listens.
Endpoint == {e \in [path : BOOLEAN, exists : BOOLEAN, listens : BOOLEAN] :
               IF e.path THEN e.listens => e.exists ELSE ~e.exists}

\* What Delete, Get and Save call once they know what is stored.
Scripts(o) ==
  CASE o = "get"    -> {<<"read">>}
    [] o = "create" -> {<<"create">>}
    [] o = "delete" -> {<<"delete">>, <<>>}
    [] o = "update" -> {<<"set", "attributes", "label">>,
                        <<"set", "attributes", "label", "dup1", "dup2">>}
    [] OTHER        -> {<<>>}

BestEffort == {"attributes", "label", "dup1", "dup2"}
Retried    == {"read", "create", "delete", "set", "dup1", "dup2"}
Prompting  == {"create", "delete", "dup1", "dup2"}

\* The types of the variables; whoever waits for a prompt has made it.
TypeOK ==
  /\ addr \subseteq Endpoint /\ owner \in BOOLEAN
  /\ op \in Op
  /\ pc \in {"dial", "available", "session", "collection", "unlock", "search", "work",
             "reunlock", "prompt", "close", "returned"}
  /\ conn \in {"none", "open", "lost", "closed"}
  /\ opener \in {"none", "calling", "sending", "done"}
  /\ locked \in BOOLEAN
  /\ script \in Scripts(op) \cup {<<>>}
  /\ at \in 1..Len(script) + 1
  /\ tries \in 0..MaxRetries
  /\ after \in {"none", "first", "retry", "work"}
  /\ prompts \in Seq([for : {"unlock"} \cup Prompting, state : {"shown", "done", "dismissed"}])
  /\ signals \in Seq(0..Len(prompts))
  /\ done \subseteq BestEffort \cup Retried
  /\ res \in {"none", "ok", "nobus", "error"}
  /\ relocks \in 0..MaxRelocks
  /\ pc = "prompt" => prompts # <<>>

-----------------------------------------------------------------------------
(* Helpers *)

Return(r) == pc' = "close" /\ res' = r /\ after' = "none"

\* A call of the script has succeeded, or its failure is ignored.
Advance ==
  /\ at' = at + 1 /\ tries' = 0 /\ after' = "none"
  /\ IF at < Len(script) THEN pc' = "work" /\ UNCHANGED res ELSE pc' = "close" /\ res' = "ok"

\* withRelockRetry returns an error that is not "locked".
GiveUp ==
  IF script[at] \in BestEffort THEN Advance ELSE Return("error") /\ UNCHANGED <<at, tries>>

Init ==
  /\ op \in Op
  /\ addr \in IF op = "probe" THEN SUBSET Endpoint
              ELSE {{[path |-> TRUE, exists |-> TRUE, listens |-> TRUE]}}
  /\ owner \in BOOLEAN /\ (op # "probe" => owner)
  /\ pc = "dial"
  /\ conn = "none"
  /\ opener = "none"
  /\ locked \in BOOLEAN
  /\ script = <<>> /\ at = 1 /\ tries = 0
  /\ after = "none"
  /\ prompts = <<>> /\ signals = <<>>
  /\ done = {}
  /\ res = "none"
  /\ relocks = 0

-----------------------------------------------------------------------------
(* Connecting *)

\* unixSocketPath: a path to stat, or "cannot tell".
unixSocketPath(e) == e.path

\* sessionBusMissingSocket: endpoints are named, and each one is a unix path
\* that does not exist.
sessionBusMissingSocket == addr # {} /\ \A e \in addr : unixSocketPath(e) /\ ~e.exists

\* Some endpoint can be dialled; without an address the default one may be there.
Dialled == addr = {} \/ \E e \in addr : e.listens

\* NewService returns an error: ErrNoSessionBus for the fast path and a failed
\* dial, another one for Auth or Hello, which close the connection.
NewServiceFails ==
  /\ pc = "dial"
  /\ \/ /\ sessionBusMissingSocket \/ ~Dialled \/ addr = {}
        /\ conn' = "none" /\ res' = "nobus"
     \/ /\ "fail" \in Faults /\ ~sessionBusMissingSocket /\ Dialled
        /\ conn' = "closed" /\ res' = "error"
  /\ pc' = "returned"
  /\ UNCHANGED <<addr, owner, op, opener, locked, script, at, tries, after, prompts,
                 signals, done, relocks>>

\* The connection is up, with its signal channel, on which another signal may
\* wait already.
NewService ==
  /\ pc = "dial"
  /\ ~sessionBusMissingSocket /\ Dialled
  /\ conn' = "open"
  /\ signals' \in {<<>>, <<0>>}
  /\ IF op = "probe" THEN pc' = "available" /\ UNCHANGED opener
     ELSE pc' = "session" /\ opener' = "calling"
  /\ UNCHANGED <<addr, owner, op, locked, script, at, tries, after, prompts, done, res, relocks>>

\* Available, the end of ensureAvailable: NameHasOwner, a transport failure or
\* the probe's deadline.
Available ==
  /\ pc = "available"
  /\ \/ conn = "open" /\ Return(IF owner THEN "ok" ELSE "error")
     \/ Return("error")
  /\ UNCHANGED <<addr, owner, op, conn, opener, locked, script, at, tries, prompts, signals,
                 done, relocks>>

-----------------------------------------------------------------------------
(* The session *)

\* openSessionRaw returns in the goroutine, which then sends on a channel
\* without a buffer.
OpenSessionRaw ==
  /\ opener = "calling"
  /\ opener' = "sending"
  /\ UNCHANGED <<addr, owner, op, pc, conn, locked, script, at, tries, after, prompts,
                 signals, done, res, relocks>>

\* The select of OpenSession receives what the goroutine sends ...
OpenSession ==
  /\ pc = "session"
  /\ opener = "sending"
  /\ opener' = "done"
  /\ \/ conn = "open" /\ pc' = "collection" /\ UNCHANGED <<res, after>>
     \/ (conn = "lost" \/ "fail" \in Faults) /\ Return("error")
  /\ UNCHANGED <<addr, owner, op, conn, locked, script, at, tries, prompts, signals, done, relocks>>

\* ... or times out; the goroutine stays.
OpenSessionTimesOut ==
  /\ pc = "session"
  /\ Return("error")
  /\ UNCHANGED <<addr, owner, op, conn, opener, locked, script, at, tries, prompts, signals,
                 done, relocks>>

-----------------------------------------------------------------------------
(* Calls *)

\* Collections, ReadAlias, IsLocked, SearchCollection or an item's call fails.
CallFails ==
  /\ pc \in {"collection", "unlock", "search", "work", "reunlock"}
  /\ conn = "lost" \/ "fail" \in Faults
  /\ IF pc \in {"work", "reunlock"} THEN GiveUp
     ELSE Return("error") /\ UNCHANGED <<at, tries>>
  /\ UNCHANGED <<addr, owner, op, conn, opener, locked, script, prompts, signals, done, relocks>>

\* getDefaultCollection and IsLocked.
IsLocked ==
  /\ pc = "collection" /\ conn = "open"
  /\ pc' = IF locked THEN "unlock" ELSE "search"
  /\ UNCHANGED <<addr, owner, op, conn, opener, locked, script, at, tries, after, prompts,
                 signals, done, res, relocks>>

\* SearchCollection finds items or not.
SearchCollection ==
  /\ pc = "search" /\ conn = "open"
  /\ \E s \in Scripts(op) :
       /\ script' = s
       /\ IF s = <<>> THEN pc' = "close" /\ res' = "ok" ELSE pc' = "work" /\ UNCHANGED res
  /\ UNCHANGED <<addr, owner, op, conn, opener, locked, at, tries, after, prompts, signals,
                 done, relocks>>

\* The daemon answers a call with a prompt, and Prompt.Prompt shows it.
Prompts(what, a) ==
  /\ prompts' = Append(prompts, [for |-> what, state |-> "shown"])
  /\ after' = a
  /\ pc' = "prompt"

\* Unlock, before the search and in withRelockRetry: unlocked with the null
\* prompt, or after a prompt.
Unlock ==
  /\ pc \in {"unlock", "reunlock"} /\ conn = "open"
  /\ \/ /\ locked' = FALSE
        /\ IF pc = "unlock" THEN pc' = "search" /\ UNCHANGED tries
           ELSE pc' = "work" /\ tries' = tries + 1
        /\ UNCHANGED <<prompts, after>>
     \/ /\ locked
        /\ Prompts("unlock", IF pc = "unlock" THEN "first" ELSE "retry")
        /\ UNCHANGED <<locked, tries>>
  /\ UNCHANGED <<addr, owner, op, conn, opener, script, at, signals, done, res, relocks>>

\* The next call of the script, at once or with a prompt.
Work ==
  /\ pc = "work" /\ conn = "open"
  /\ ~locked
  /\ \/ /\ done' = done \cup {script[at]}
        /\ Advance
        /\ UNCHANGED prompts
     \/ /\ script[at] \in Prompting
        /\ Prompts(script[at], "work")
        /\ UNCHANGED <<at, tries, done, res>>
  /\ UNCHANGED <<addr, owner, op, conn, opener, locked, script, signals, relocks>>

\* The collection is locked: withRelockRetry unlocks again, up to the limit;
\* SetItemAttributes and SetItemLabel are called once.
MeetsLock ==
  /\ pc = "work" /\ conn = "open"
  /\ locked
  /\ IF script[at] \in Retried /\ tries < MaxRetries
     THEN pc' = "reunlock" /\ UNCHANGED <<at, tries, after, res>>
     ELSE GiveUp
  /\ UNCHANGED <<addr, owner, op, conn, opener, locked, script, prompts, signals, done, relocks>>

-----------------------------------------------------------------------------
(* PromptAndWait *)

\* Variant: withRelockRetry retries whatever Unlock returned.
PromptFailed_Retries ==
  IF after = "retry" THEN pc' = "work" /\ tries' = tries + 1 /\ after' = "none" /\ UNCHANGED <<at, res>>
  ELSE IF after = "first" THEN Return("error") /\ UNCHANGED <<at, tries>> ELSE GiveUp

\* PromptAndWait returns an error to Unlock, CreateItem or DeleteItem.
PromptFailed == IF after = "first" THEN Return("error") /\ UNCHANGED <<at, tries>> ELSE GiveUp

PromptAnswered ==
  CASE after = "first" -> pc' = "search" /\ after' = "none" /\ UNCHANGED <<at, tries, res>>
    [] after = "retry" -> pc' = "work" /\ tries' = tries + 1 /\ after' = "none"
                            /\ UNCHANGED <<at, res>>
    [] OTHER           -> Advance

\* The next signal: any Completed signal counts, others are skipped.
ReceiveSignal ==
  /\ pc = "prompt"
  /\ signals # <<>>
  /\ signals' = Tail(signals)
  /\ CASE Head(signals) = 0                           -> UNCHANGED <<pc, at, tries, after, res>>
       [] Head(signals) # 0 /\ prompts[Head(signals)].state = "done" -> PromptAnswered
       [] OTHER                                       -> PromptFailed
  /\ UNCHANGED <<addr, owner, op, conn, opener, locked, script, prompts, done, relocks>>

\* The prompt timed out, or the channel was closed with the connection.
PromptTimesOut ==
  /\ pc = "prompt"
  /\ PromptFailed
  /\ UNCHANGED <<addr, owner, op, conn, opener, locked, script, prompts, signals, done, relocks>>

\* The deferred CloseSession and Close.
Close ==
  /\ pc = "close"
  /\ conn' = "closed"
  /\ signals' = <<>>
  /\ pc' = "returned"
  /\ UNCHANGED <<addr, owner, op, opener, locked, script, at, tries, after, prompts,
                 done, res, relocks>>

-----------------------------------------------------------------------------
(* The daemon and the user *)

\* The user confirms or dismisses a prompt, however late; the daemon does what
\* it was for, and signals the connection that asked if it is still there.
Answer(i) ==
  /\ prompts[i].state = "shown"
  /\ \E s \in {"done", "dismissed"} :
       /\ prompts' = [prompts EXCEPT ![i].state = s]
       /\ done' = IF s = "done" /\ prompts[i].for # "unlock" THEN done \cup {prompts[i].for} ELSE done
       /\ locked' = (locked /\ ~(s = "done" /\ prompts[i].for = "unlock"))
  /\ signals' = IF conn = "open" THEN Append(signals, i) ELSE signals
  /\ UNCHANGED <<addr, owner, op, pc, conn, opener, script, at, tries, after, res, relocks>>

Relock ==
  /\ ~locked
  /\ relocks < MaxRelocks
  /\ pc # "returned"
  /\ locked' = TRUE
  /\ relocks' = relocks + 1
  /\ UNCHANGED <<addr, owner, op, pc, conn, opener, script, at, tries, after, prompts,
                 signals, done, res>>

ConnLost ==
  /\ conn = "open"
  /\ "lost" \in Faults
  /\ conn' = "lost"
  /\ UNCHANGED <<addr, owner, op, pc, opener, locked, script, at, tries, after, prompts,
                 signals, done, res, relocks>>

Next ==
  \/ NewServiceFails \/ NewService \/ Available
  \/ OpenSessionRaw \/ OpenSession \/ OpenSessionTimesOut
  \/ CallFails \/ IsLocked \/ SearchCollection \/ Unlock \/ Work \/ MeetsLock
  \/ ReceiveSignal \/ PromptTimesOut \/ Close
  \/ \E i \in 1..Len(prompts) : Answer(i)
  \/ Relock \/ ConnLost

Spec == Init /\ [][Next]_vars

-----------------------------------------------------------------------------
(* Properties *)

\* An operation that reports success has done what it was called for, whatever
\* the user answered and when: a signal that is not the awaited prompt's can
\* only be taken while collapsing duplicates, whose outcome Save ignores
\* (PromptAndWait, withRelockRetry).
SuccessMeansDone ==
  pc = "returned" /\ res = "ok" =>
    \A i \in 1..Len(script) : script[i] \notin BestEffort => script[i] \in done

\* The probe of New reports the keychain available only if it is, takes the
\* fast way out only if no endpoint could be dialled, and leaves no connection
\* behind; nor does any operation (NewService, ensureAvailable, Close).
ProbeIsSound ==
  /\ op = "probe" /\ res = "ok" => owner /\ Dialled
  /\ res = "nobus" => \A e \in addr : ~e.listens
  /\ pc = "returned" => conn \in {"none", "closed"}

==============================================================================
