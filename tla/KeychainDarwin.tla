---------------------------- MODULE KeychainDarwin ----------------------------
(***************************************************************************)
(* The keychain store on macOS (store/keychain/keychain_darwin.go).  The   *)
(* Keychain holds at most one item per service and account and adds none   *)
(* where there is one, so Upsert deletes and then saves, under a mutex     *)
(* that only Upserts of the same store value take.  Everything else is one *)
(* Keychain call, except Filter, which lists first and loads each match    *)
(* with a call of its own.                                                 *)
(***************************************************************************)
EXTENDS Integers, FiniteSets

CONSTANTS
  Client,    \* callers
  Process,   \* the processes they live in, each with one store value
  ProcOf,    \* [Client -> Process]
  ID,        \* credential identifiers
  MaxSaves,  \* bound: Saves and Upserts in a behaviour
  MaxCalls,  \* bound: calls in a behaviour
  Absent, NoID, NoClient, \* no item, no argument, no holder
  Faults     \* {"fail"} if Keychain calls may fail, {} otherwise

\* What the constants have to be.
DarwinAssumption ==
  /\ ProcOf \in [Client -> Process]
  /\ NoClient \notin Client
  /\ NoID \notin ID
  /\ {MaxSaves, MaxCalls} \subseteq Nat
  /\ Faults \subseteq {"fail"}

VARIABLES
  item,   \* the Keychain: per ID, the version its item holds
  mu,     \* per process, who holds the mutex of its store
  pc,     \* where each caller is
  op,     \* what it was called with: kind, ID, version
  todo,   \* pairs of an ID and listed metadata a Filter still has to load
  got,    \* what a read has found: triples of ID, metadata, secret
  res,    \* how the call ends
  rival,  \* auxiliary: what changed the same ID without sharing this call's
          \* mutex while the call ran: kinds of operations
  saves, calls

vars == <<item, mu, pc, op, todo, got, res, rival, saves, calls>>

Version == 1..MaxSaves
Kind   == {"save", "upsert", "delete", "get", "filter", "metadata"}
Writes == {"save", "upsert", "delete"}
NoOp   == [kind |-> "get", id |-> NoID, ver |-> 0]
PC     == {"idle", "mutex", "delete", "add", "query", "load", "close"}

\* The types of the variables; only a running Upsert holds a mutex.
TypeOK ==
  /\ item \in [ID -> Version \cup {Absent}]
  /\ mu \in [Process -> Client \cup {NoClient}]
  /\ pc \in [Client -> PC]
  /\ op \in [Client -> [kind : Kind, id : ID \cup {NoID}, ver : 0..MaxSaves]]
  /\ todo \in [Client -> SUBSET (ID \X Version)]
  /\ got \in [Client -> SUBSET (ID \X Version \X (Version \cup {0}))]
  /\ res \in [Client -> {"none", "ok", "duplicate", "notfound", "error"}]
  /\ rival \in [Client -> SUBSET Writes]
  /\ saves \in 0..MaxSaves /\ calls \in 0..MaxCalls
  /\ \A c \in Client : mu[ProcOf[c]] = c => op[c].kind = "upsert" /\ pc[c] # "idle"

Goto(c, l) == pc' = [pc EXCEPT ![c] = l]
Return(c, r) == Goto(c, "close") /\ res' = [res EXCEPT ![c] = r]

\* Two running changes of one ID that no mutex keeps apart.
Rivals(c, o, d) ==
  /\ d # c /\ pc[d] # "idle" /\ op[d].kind \in Writes /\ o.kind \in Writes /\ op[d].id = o.id
  /\ ~(o.kind = "upsert" /\ op[d].kind = "upsert" /\ ProcOf[c] = ProcOf[d])

Init ==
  /\ item = [id \in ID |-> Absent]
  /\ mu = [p \in Process |-> NoClient]
  /\ pc = [c \in Client |-> "idle"]
  /\ op = [c \in Client |-> NoOp]
  /\ todo = [c \in Client |-> {}]
  /\ got = [c \in Client |-> {}]
  /\ res = [c \in Client |-> "none"]
  /\ rival = [c \in Client |-> {}]
  /\ saves = 0
  /\ calls = 0

Call(c) ==
  /\ pc[c] = "idle"
  /\ calls < MaxCalls
  /\ \/ /\ saves < MaxSaves
        /\ \E k \in {"save", "upsert"}, id \in ID :
             op' = [op EXCEPT ![c] = [kind |-> k, id |-> id, ver |-> saves + 1]]
        /\ saves' = saves + 1
     \/ /\ \E k \in {"delete", "get"}, id \in ID :
             op' = [op EXCEPT ![c] = [kind |-> k, id |-> id, ver |-> 0]]
        /\ UNCHANGED saves
     \/ /\ \E k \in {"filter", "metadata"} : op' = [op EXCEPT ![c] = [NoOp EXCEPT !.kind = k]]
        /\ UNCHANGED saves
  /\ Goto(c, CASE op'[c].kind = "upsert" -> "mutex"
               [] op'[c].kind = "save"   -> "add"
               [] op'[c].kind = "delete" -> "delete"
               [] OTHER                  -> "query")
  /\ rival' = [d \in Client |->
       IF d = c THEN {op[e].kind : e \in {x \in Client : Rivals(c, op'[c], x)}}
       ELSE IF Rivals(c, op'[c], d) THEN rival[d] \cup {op'[c].kind} ELSE rival[d]]
  /\ calls' = calls + 1
  /\ UNCHANGED <<item, mu, todo, got, res>>

\* Variant: Upsert without the mutex.
LockMutex_Skipped(c) ==
  /\ pc[c] = "mutex"
  /\ Goto(c, "delete")
  /\ UNCHANGED <<item, mu, op, todo, got, res, rival, saves, calls>>

\* Upsert: k.mu.Lock().
LockMutex(c) ==
  /\ pc[c] = "mutex"
  /\ mu[ProcOf[c]] = NoClient
  /\ mu' = [mu EXCEPT ![ProcOf[c]] = c]
  /\ Goto(c, "delete")
  /\ UNCHANGED <<item, op, todo, got, res, rival, saves, calls>>

\* Delete: that there is no item is no error.  Upsert goes on with Save.
DeleteItem(c) ==
  /\ pc[c] = "delete"
  /\ item' = [item EXCEPT ![op[c].id] = Absent]
  /\ IF op[c].kind = "upsert" THEN Goto(c, "add") /\ UNCHANGED res ELSE Return(c, "ok")
  /\ UNCHANGED <<mu, op, todo, got, rival, saves, calls>>

\* Save: AddItem refuses an account that has an item.
AddItem(c) ==
  /\ pc[c] = "add"
  /\ \/ /\ item[op[c].id] = Absent
        /\ item' = [item EXCEPT ![op[c].id] = op[c].ver]
        /\ Return(c, "ok")
     \/ /\ item[op[c].id] # Absent
        /\ Return(c, "duplicate")
        /\ UNCHANGED item
  /\ UNCHANGED <<mu, op, todo, got, rival, saves, calls>>

\* QueryItem: Get has metadata and secret from one call; a listing has the
\* metadata of all items, and Filter goes on with those that match.
QueryItem(c) ==
  LET listed == {<<id, item[id]>> : id \in {i \in ID : item[i] # Absent}} IN
  /\ pc[c] = "query"
  /\ \/ /\ op[c].kind = "get"
        /\ IF item[op[c].id] = Absent
             THEN Return(c, "notfound") /\ UNCHANGED got
             ELSE /\ got' = [got EXCEPT ![c] = {<<op[c].id, item[op[c].id], item[op[c].id]>>}]
                  /\ Return(c, "ok")
        /\ UNCHANGED todo
     \/ /\ op[c].kind = "metadata"
        /\ got' = [got EXCEPT ![c] = {<<t[1], t[2], 0>> : t \in listed}]
        /\ Return(c, "ok")
        /\ UNCHANGED todo
     \/ /\ op[c].kind = "filter"
        /\ \E matched \in SUBSET listed : todo' = [todo EXCEPT ![c] = matched]
        /\ Goto(c, "load")
        /\ UNCHANGED <<got, res>>
  /\ UNCHANGED <<item, mu, op, rival, saves, calls>>

\* Filter: loadSecret of the next match, or the end.  An item that has gone
\* since the listing ends the Filter.
LoadSecret(c) ==
  /\ pc[c] = "load"
  /\ \/ /\ todo[c] = {}
        /\ Return(c, "ok")
        /\ UNCHANGED <<todo, got>>
     \/ \E t \in todo[c] :
          /\ todo' = [todo EXCEPT ![c] = @ \ {t}]
          /\ IF item[t[1]] = Absent
               THEN Return(c, "notfound") /\ got' = [got EXCEPT ![c] = {}]
               ELSE /\ got' = [got EXCEPT ![c] = @ \cup {<<t[1], t[2], item[t[1]]>>}]
                    /\ UNCHANGED <<pc, res>>
  /\ UNCHANGED <<item, mu, op, rival, saves, calls>>

\* A Keychain call fails: ErrInteractionNotAllowed, ErrAuthFailed, ...
CallFails(c) ==
  /\ "fail" \in Faults
  /\ pc[c] \in {"delete", "add", "query", "load"}
  /\ Return(c, "error")
  /\ got' = [got EXCEPT ![c] = {}]
  /\ UNCHANGED <<item, mu, op, todo, rival, saves, calls>>

\* The deferred Unlock of Upsert; the call returns.
Close(c) ==
  /\ pc[c] = "close"
  /\ mu' = IF mu[ProcOf[c]] = c THEN [mu EXCEPT ![ProcOf[c]] = NoClient] ELSE mu
  /\ Goto(c, "idle")
  /\ op' = [op EXCEPT ![c] = NoOp]
  /\ todo' = [todo EXCEPT ![c] = {}]
  /\ got' = [got EXCEPT ![c] = {}]
  /\ res' = [res EXCEPT ![c] = "none"]
  /\ rival' = [rival EXCEPT ![c] = {}]
  /\ UNCHANGED <<item, saves, calls>>

Next ==
  \E c \in Client :
    \/ Call(c) \/ LockMutex(c) \/ DeleteItem(c) \/ AddItem(c) \/ QueryItem(c)
    \/ LoadSecret(c) \/ CallFails(c) \/ Close(c)

Spec == Init /\ [][Next]_vars

-----------------------------------------------------------------------------
(* Properties *)

\* "holds a mutex and performs a Delete followed by a Save to ensure no
\* concurrent Upsert can interleave" (Upsert): an Upsert meets an item that is
\* already there only if a Save, or an Upsert of another process, wrote it.
UpsertsDontCollide ==
  \A c \in Client : op[c].kind = "upsert" /\ res[c] = "duplicate" =>
    rival[c] \cap {"save", "upsert"} # {}

\* The mutex is held until the result is decided: an Upsert that succeeded
\* without a rival is what the Keychain holds when it lets the mutex go,
\* however many other Upserts of its process wait.
UpsertStores ==
  \A c \in Client : pc[c] = "close" /\ op[c].kind = "upsert" /\ res[c] = "ok" /\ rival[c] = {} =>
    item[op[c].id] = op[c].ver

==============================================================================
