----------------------------- MODULE KeychainLinux -----------------------------
(***************************************************************************)
(* The keychain store on Linux (store/keychain/keychain_linux.go) over the *)
(* Secret Service (internal/go-keychain/secretservice).  An operation      *)
(* dials a connection, opens a session, makes sure the collection is       *)
(* unlocked, searches the items of its ID and works on what it found, one  *)
(* D-Bus call after the other and with no lock.  The daemon may lock the   *)
(* collection again at any moment; a call that meets a locked collection   *)
(* is retried after another Unlock (withRelockRetry).                      *)
(*                                                                         *)
(* The daemon is external: a collection of items, each at an object path,  *)
(* found by attributes.  An item's attributes are its ID and the caller's  *)
(* metadata, its secret is the number of the Save that wrote it.           *)
(***************************************************************************)
EXTENDS Integers, Sequences, FiniteSets, SequencesExt

CONSTANTS
  Client,      \* callers, in any process
  ID,          \* credential identifiers
  Meta,        \* metadata a caller may save
  MaxItems,    \* bound: object paths of the collection.  An item is created
               \* after a search that found none: one per caller and ID is enough
  MaxSaves,    \* bound: Saves in a behaviour
  MaxCalls,    \* bound: calls in a behaviour
  MaxRetries,  \* maxRelockRetries
  Kinds,       \* the operations callers use: subset of Kind
  Faults,      \* which faults happen: subset of FaultKinds
  NoItem, NoID, NoMeta

Kind == {"save", "delete", "get", "filter", "metadata"}
FaultKinds == {"relock", "dismiss", "dbus"}

ASSUME KeychainAssumption ==
  /\ {MaxItems, MaxSaves, MaxCalls, MaxRetries} \subseteq Nat
  /\ Cardinality(Client) * Cardinality(ID) <= MaxItems
  /\ Kinds \subseteq Kind /\ Faults \subseteq FaultKinds
  /\ NoID \notin ID /\ NoMeta \notin Meta

Path == 1..MaxItems
Version == 1..MaxSaves
Item == [id : ID, meta : Meta, secret : Version]

ASSUME ItemAssumption == NoItem \notin Item

VARIABLES
  items,    \* the collection: object path -> item
  locked,   \* whether the collection is locked
  pc,       \* where each caller is
  op,       \* what it was called with
  asleep,   \* TRUE while withRelockRetry sleeps before it unlocks again
  found,    \* the object paths it still has to work on
  tries,    \* retries of withRelockRetry so far
  got,      \* what a read has collected: pairs of an ID and a secret
  res,      \* how the call ends: "none", "ok", "notfound", "locked", "error"
  relocks,  \* auxiliary: relocks since the call began, at most MaxRetries + 1
  calm,     \* auxiliary: no other call overlapped with this one, none of its
            \* D-Bus calls failed and no prompt was dismissed
  alone,    \* auxiliary: no other Save or Delete overlapped with this call
  saves, calls

daemon == <<items, locked>>
aux    == <<relocks, calm, alone, saves, calls>>
vars   == <<items, locked, pc, op, asleep, found, tries, got, res, relocks, calm, alone,
            saves, calls>>

PC == {"idle", "connect", "check", "unlock", "search", "create", "secret", "attrs",
       "collapse", "remove", "read", "load", "close"}

\* The calls that go through withRelockRetry.
Retried == {"create", "secret", "collapse", "remove", "load"}

NoOp == [kind |-> "get", id |-> NoID, meta |-> NoMeta, ver |-> 0]

\* The types of the variables; a step on an item has an item to work on.
TypeOK ==
  /\ items \in [Path -> Item \cup {NoItem}]
  /\ locked \in BOOLEAN
  /\ pc \in [Client -> PC]
  /\ asleep \in [Client -> BOOLEAN]
  /\ op \in [Client -> [kind : Kind, id : ID \cup {NoID}, meta : Meta \cup {NoMeta},
                        ver : Version \cup {0}]]
  /\ found \in [Client -> Seq(Path)] /\ \A c \in Client : Len(found[c]) <= MaxItems
  /\ tries \in [Client -> 0..MaxRetries]
  /\ got \in [Client -> SUBSET (ID \X Version)]
  /\ res \in [Client -> {"none", "ok", "notfound", "locked", "error"}]
  /\ relocks \in [Client -> 0..(MaxRetries + 1)]
  /\ calm \in [Client -> BOOLEAN] /\ alone \in [Client -> BOOLEAN]
  /\ saves \in 0..MaxSaves /\ calls \in 0..MaxCalls
  /\ \A c \in Client : pc[c] \in {"secret", "attrs", "collapse", "remove", "read", "load"} =>
       found[c] # <<>>

-----------------------------------------------------------------------------
(* Helpers *)

Goto(c, l) == pc' = [pc EXCEPT ![c] = l]

Return(c, r) == Goto(c, "close") /\ res' = [res EXCEPT ![c] = r]

Active(c) == pc[c] # "idle"

Changes == {"save", "delete"}
Changing(c) == Active(c) /\ op[c].kind \in Changes

\* The items whose attributes contain the ID; for a listing, all of them.
Matching(id) == {p \in Path : items[p] # NoItem /\ (id = NoID \/ items[p].id = id)}

\* The lists the daemon may return: any order, another one each time.
Listings(S) == SetToSeqs(S)

\* The next step after a call on the first item of "found" is done: the next
\* item, or the end of the operation.
Rest(c) == Tail(found[c])

\* CreateItem with ReplaceBehaviorReplace: an item with the very same
\* attributes is replaced, otherwise there is one more.
SameAttributes(id, m) == {p \in Path : items[p] # NoItem /\ items[p].id = id /\ items[p].meta = m}
CreatePaths(id, m) ==
  IF SameAttributes(id, m) # {} THEN SameAttributes(id, m)
  ELSE {p \in Path : items[p] = NoItem}

-----------------------------------------------------------------------------
Init ==
  /\ items = [p \in Path |-> NoItem]
  /\ locked = TRUE
  /\ pc = [c \in Client |-> "idle"]
  /\ op = [c \in Client |-> NoOp]
  /\ asleep = [c \in Client |-> FALSE]
  /\ found = [c \in Client |-> <<>>]
  /\ tries = [c \in Client |-> 0]
  /\ got = [c \in Client |-> {}]
  /\ res = [c \in Client |-> "none"]
  /\ relocks = [c \in Client |-> 0]
  /\ calm = [c \in Client |-> TRUE]
  /\ alone = [c \in Client |-> TRUE]
  /\ saves = 0
  /\ calls = 0

\* Save (and Upsert), Delete, Get, Filter or GetAllMetadata is called.
Call(c) ==
  /\ pc[c] = "idle"
  /\ calls < MaxCalls
  /\ \/ /\ "save" \in Kinds /\ saves < MaxSaves
        /\ \E id \in ID, m \in Meta :
             op' = [op EXCEPT ![c] = [kind |-> "save", id |-> id, meta |-> m, ver |-> saves + 1]]
        /\ saves' = saves + 1
     \/ /\ \E k \in Kinds \cap {"delete", "get"}, id \in ID :
             op' = [op EXCEPT ![c] = [kind |-> k, id |-> id, meta |-> NoMeta, ver |-> 0]]
        /\ UNCHANGED saves
     \/ /\ \E k \in Kinds \cap {"filter", "metadata"} :
             op' = [op EXCEPT ![c] = [NoOp EXCEPT !.kind = k]]
        /\ UNCHANGED saves
  /\ Goto(c, "connect")
  /\ calls' = calls + 1
  /\ relocks' = [relocks EXCEPT ![c] = 0]
  /\ calm' = [d \in Client |->
       IF d = c THEN \A e \in Client : ~Active(e) ELSE calm[d] /\ ~Active(d)]
  /\ alone' = [d \in Client |->
       IF d = c THEN \A e \in Client : ~Changing(e)
       ELSE alone[d] /\ (op'[c].kind \in Changes => ~Active(d))]
  /\ UNCHANGED <<daemon, asleep, found, tries, got, res>>

\* operationService, OpenSession and getDefaultCollection.
Connect(c) ==
  /\ pc[c] = "connect"
  /\ Goto(c, "check")
  /\ UNCHANGED <<daemon, op, asleep, found, tries, got, res, aux>>

\* isCollectionUnlocked.
IsCollectionUnlocked(c) ==
  /\ pc[c] = "check"
  /\ Goto(c, IF locked THEN "unlock" ELSE "search")
  /\ UNCHANGED <<daemon, op, asleep, found, tries, got, res, aux>>

\* Unlock before the search; a prompt that is dismissed ends the operation.
UnlockCollection(c) ==
  /\ pc[c] = "unlock"
  /\ \/ /\ locked' = FALSE
        /\ Goto(c, "search")
        /\ UNCHANGED res
     \/ /\ "dismiss" \in Faults
        /\ Return(c, "error")
        /\ UNCHANGED locked
  /\ UNCHANGED <<items, op, asleep, found, tries, got, aux>>

\* Variant: an empty list is not looked for.
SearchCollection_AssumesItems(c) ==
  /\ pc[c] = "search"
  /\ \E list \in Listings(Matching(op[c].id)) : found' = [found EXCEPT ![c] = list]
  /\ Goto(c, CASE op[c].kind = "save"   -> "secret"
               [] op[c].kind = "delete" -> "remove"
               [] OTHER                 -> "read")
  /\ UNCHANGED <<daemon, op, asleep, tries, got, res, aux>>

\* SearchCollection, and what each operation does with the list.
SearchCollection(c) ==
  /\ pc[c] = "search"
  /\ \E list \in Listings(Matching(op[c].id)) :
       /\ found' = [found EXCEPT ![c] = list]
       /\ IF list = <<>>
            THEN CASE op[c].kind = "save"                  -> Goto(c, "create") /\ UNCHANGED res
                   [] op[c].kind \in {"delete", "metadata"} -> Return(c, "ok")
                   [] OTHER                                 -> Return(c, "notfound")
            ELSE /\ Goto(c, CASE op[c].kind = "save"   -> "secret"
                              [] op[c].kind = "delete" -> "remove"
                              [] OTHER                 -> "read")
                 /\ UNCHANGED res
  /\ UNCHANGED <<daemon, op, asleep, tries, got, aux>>

-----------------------------------------------------------------------------
(* withRelockRetry *)

\* The call under withRelockRetry ends with an error: so does the operation,
\* unless it is collapsing duplicates, where it goes on with the next one.
RetryFails(c, r) ==
  /\ tries' = [tries EXCEPT ![c] = 0]
  /\ asleep' = [asleep EXCEPT ![c] = FALSE]
  /\ IF pc[c] = "collapse" /\ Rest(c) # <<>>
       THEN found' = [found EXCEPT ![c] = Rest(c)] /\ UNCHANGED <<pc, res>>
       ELSE Return(c, IF pc[c] = "collapse" THEN "ok" ELSE r) /\ UNCHANGED found

\* Variants: the counter starts again, and the last error is not returned.
MeetsLock_Unbounded(c) ==
  /\ pc[c] \in Retried
  /\ ~asleep[c]
  /\ locked
  /\ asleep' = [asleep EXCEPT ![c] = TRUE]
  /\ tries' = [tries EXCEPT ![c] = IF @ = MaxRetries THEN 0 ELSE @]
  /\ UNCHANGED <<daemon, pc, op, found, got, res, aux>>
MeetsLock_DropsError(c) ==
  /\ pc[c] \in Retried
  /\ ~asleep[c]
  /\ locked
  /\ \/ /\ tries[c] < MaxRetries
        /\ asleep' = [asleep EXCEPT ![c] = TRUE]
        /\ UNCHANGED <<pc, found, tries, res>>
     \/ tries[c] = MaxRetries /\ RetryFails(c, "ok")
  /\ UNCHANGED <<daemon, op, got, aux>>

\* The call is rejected with Error.IsLocked.  With retries left the store
\* sleeps, without it returns that error.
MeetsLock(c) ==
  /\ pc[c] \in Retried
  /\ ~asleep[c]
  /\ locked
  /\ \/ /\ tries[c] < MaxRetries
        /\ asleep' = [asleep EXCEPT ![c] = TRUE]
        /\ UNCHANGED <<pc, found, tries, res>>
     \/ tries[c] = MaxRetries /\ RetryFails(c, "locked")
  /\ UNCHANGED <<daemon, op, got, aux>>

\* Variant: the retry without another Unlock.
Reunlock_Skipped(c) ==
  /\ asleep[c]
  /\ asleep' = [asleep EXCEPT ![c] = FALSE]
  /\ tries' = [tries EXCEPT ![c] = @ + 1]
  /\ UNCHANGED <<daemon, pc, op, found, got, res, aux>>

\* Unlock, then the call once more.
Reunlock(c) ==
  /\ asleep[c]
  /\ locked' = FALSE
  /\ asleep' = [asleep EXCEPT ![c] = FALSE]
  /\ tries' = [tries EXCEPT ![c] = @ + 1]
  /\ UNCHANGED <<items, pc, op, found, got, res, aux>>

\* A dismissed prompt ends withRelockRetry with the error of Unlock.
ReunlockFails(c) ==
  /\ "dismiss" \in Faults
  /\ asleep[c]
  /\ RetryFails(c, "error")
  /\ calm' = [calm EXCEPT ![c] = FALSE]
  /\ UNCHANGED <<daemon, op, got, relocks, alone, saves, calls>>

\* A D-Bus call fails for another reason, or times out, and has had no effect.
CallFails(c) ==
  /\ "dbus" \in Faults
  /\ pc[c] \in {"connect", "check", "search", "read"} \cup Retried
  /\ RetryFails(c, "error")
  /\ calm' = [calm EXCEPT ![c] = FALSE]
  /\ UNCHANGED <<daemon, op, got, relocks, alone, saves, calls>>

-----------------------------------------------------------------------------
(* The calls on items, with the collection unlocked *)

CreateItem(c) ==
  /\ pc[c] = "create"
  /\ ~locked /\ ~asleep[c]
  /\ \E p \in CreatePaths(op[c].id, op[c].meta) :
       items' = [items EXCEPT ![p] = [id |-> op[c].id, meta |-> op[c].meta, secret |-> op[c].ver]]
  /\ tries' = [tries EXCEPT ![c] = 0]
  /\ Return(c, "ok")
  /\ UNCHANGED <<locked, op, asleep, found, got, aux>>

\* SetItemSecret on the first item; it may have been deleted since the search.
SetItemSecret(c) ==
  /\ pc[c] = "secret"
  /\ ~locked /\ ~asleep[c]
  /\ \/ /\ items[Head(found[c])] # NoItem
        /\ items' = [items EXCEPT ![Head(found[c])].secret = op[c].ver]
        /\ Goto(c, "attrs")
        /\ UNCHANGED res
     \/ /\ items[Head(found[c])] = NoItem
        /\ Return(c, "error")
        /\ UNCHANGED items
  /\ tries' = [tries EXCEPT ![c] = 0]
  /\ UNCHANGED <<locked, op, asleep, found, got, aux>>

\* Variant: the duplicates are left out.
SetItemAttributes_NoCollapse(c) ==
  /\ pc[c] = "attrs"
  /\ IF locked \/ items[Head(found[c])] = NoItem
       THEN UNCHANGED items
       ELSE items' = [items EXCEPT ![Head(found[c])].meta = op[c].meta]
  /\ Return(c, "ok")
  /\ UNCHANGED <<locked, op, asleep, found, tries, got, aux>>

\* Variant: the primary is collapsed with the others.
SetItemAttributes_CollapseAll(c) ==
  /\ pc[c] = "attrs"
  /\ IF locked \/ items[Head(found[c])] = NoItem
       THEN UNCHANGED items
       ELSE items' = [items EXCEPT ![Head(found[c])].meta = op[c].meta]
  /\ IF Len(found[c]) > 1 THEN Goto(c, "collapse") /\ UNCHANGED res ELSE Return(c, "ok")
  /\ UNCHANGED <<locked, op, asleep, found, tries, got, aux>>

\* SetItemAttributes and SetItemLabel: one attempt, errors ignored.
SetItemAttributes(c) ==
  /\ pc[c] = "attrs"
  /\ \/ /\ ~locked /\ items[Head(found[c])] # NoItem
        /\ items' = [items EXCEPT ![Head(found[c])].meta = op[c].meta]
        /\ UNCHANGED calm
     \/ /\ locked \/ items[Head(found[c])] = NoItem
        /\ UNCHANGED <<items, calm>>
     \/ /\ "dbus" \in Faults
        /\ calm' = [calm EXCEPT ![c] = FALSE]
        /\ UNCHANGED items
  /\ found' = [found EXCEPT ![c] = Rest(c)]
  /\ IF Rest(c) = <<>> THEN Return(c, "ok") ELSE Goto(c, "collapse") /\ UNCHANGED res
  /\ UNCHANGED <<locked, op, asleep, tries, got, relocks, alone, saves, calls>>

\* DeleteItem on a duplicate; that it is already gone is ignored.
CollapseDuplicate(c) ==
  /\ pc[c] = "collapse"
  /\ ~locked /\ ~asleep[c]
  /\ items' = [items EXCEPT ![Head(found[c])] = NoItem]
  /\ tries' = [tries EXCEPT ![c] = 0]
  /\ IF Rest(c) = <<>> THEN Return(c, "ok") /\ UNCHANGED found
     ELSE found' = [found EXCEPT ![c] = Rest(c)] /\ UNCHANGED <<pc, res>>
  /\ UNCHANGED <<locked, op, asleep, got, aux>>

\* Delete's DeleteItem, on the first item only.
DeleteItem(c) ==
  /\ pc[c] = "remove"
  /\ ~locked /\ ~asleep[c]
  /\ items' = [items EXCEPT ![Head(found[c])] = NoItem]
  /\ tries' = [tries EXCEPT ![c] = 0]
  /\ Return(c, IF items[Head(found[c])] = NoItem THEN "error" ELSE "ok")
  /\ UNCHANGED <<locked, op, asleep, found, got, aux>>

\* GetAttributes; a listing whose item is gone is aborted.  Filter passes
\* over an item that does not match its pattern.
GetAttributes(c) ==
  LET p == Head(found[c])
      skip == /\ found' = [found EXCEPT ![c] = Rest(c)]
              /\ IF Rest(c) # <<>> THEN UNCHANGED <<pc, res>>
                 ELSE Return(c, IF op[c].kind = "metadata" \/ got[c] # {} THEN "ok" ELSE "notfound")
  IN
  /\ pc[c] = "read"
  /\ \/ /\ items[p] = NoItem
        /\ Return(c, "error")
        /\ UNCHANGED found
     \/ /\ items[p] # NoItem
        /\ op[c].kind \in {"get", "filter"}
        /\ Goto(c, "load")
        /\ UNCHANGED <<found, res>>
     \/ /\ items[p] # NoItem
        /\ op[c].kind \in {"filter", "metadata"}
        /\ skip
  /\ UNCHANGED <<daemon, op, asleep, tries, got, aux>>

\* GetSecret, in Get and in loadSecret.
GetSecret(c) ==
  LET p == Head(found[c]) IN
  /\ pc[c] = "load"
  /\ ~locked /\ ~asleep[c]
  /\ tries' = [tries EXCEPT ![c] = 0]
  /\ \/ /\ items[p] = NoItem
        /\ Return(c, "error")
        /\ UNCHANGED <<found, got>>
     \/ /\ items[p] # NoItem
        /\ got' = [got EXCEPT ![c] = @ \cup {<<items[p].id, items[p].secret>>}]
        /\ IF op[c].kind = "get" \/ Rest(c) = <<>>
             THEN Return(c, "ok") /\ UNCHANGED found
             ELSE /\ found' = [found EXCEPT ![c] = Rest(c)]
                  /\ Goto(c, "read")
                  /\ UNCHANGED res
  /\ UNCHANGED <<daemon, op, asleep, aux>>

\* The deferred CloseSession and Close; the call returns.
Close(c) ==
  /\ pc[c] = "close"
  /\ Goto(c, "idle")
  /\ op' = [op EXCEPT ![c] = NoOp]
  /\ found' = [found EXCEPT ![c] = <<>>]
  /\ got' = [got EXCEPT ![c] = {}]
  /\ res' = [res EXCEPT ![c] = "none"]
  /\ UNCHANGED <<daemon, asleep, tries, aux>>

\* The daemon locks the collection: a session that had unlocked it is over,
\* or the user or a timer locked it.
Relock ==
  /\ "relock" \in Faults
  /\ ~locked
  /\ locked' = TRUE
  /\ relocks' = [c \in Client |->
       IF Active(c) /\ relocks[c] <= MaxRetries THEN relocks[c] + 1 ELSE relocks[c]]
  /\ UNCHANGED <<items, pc, op, asleep, found, tries, got, res, calm, alone, saves, calls>>

Step(c) ==
  \/ Connect(c) \/ IsCollectionUnlocked(c) \/ UnlockCollection(c) \/ SearchCollection(c)
  \/ MeetsLock(c) \/ Reunlock(c) \/ ReunlockFails(c) \/ CallFails(c)
  \/ CreateItem(c) \/ SetItemSecret(c) \/ SetItemAttributes(c) \/ CollapseDuplicate(c)
  \/ DeleteItem(c) \/ GetAttributes(c) \/ GetSecret(c) \/ Close(c)

Next == Relock \/ \E c \in Client : Call(c) \/ Step(c)

Spec == Init /\ [][Next]_vars

\* Every D-Bus call is answered or times out, and every goroutine is scheduled.
FairSpec == Spec /\ \A c \in Client : WF_vars(Step(c))

-----------------------------------------------------------------------------
(* Properties *)

\* withRelockRetry absorbs the relock race: an operation fails with the locked
\* error only if the collection was locked again more often than it retries,
\* within this one call.
RelocksAbsorbed == \A c \in Client : res[c] = "locked" => relocks[c] > MaxRetries

\* While a Save runs that no other Save or Delete overlaps, its ID never is
\* without an item once it has one: Save updates the item in place and removes
\* only the others, whatever order the daemon lists them in, whichever of its
\* calls fail and however often the collection is relocked.
SaveNeverAbsent ==
  [][\A c \in Client, id \in ID :
       Active(c) /\ op[c].kind = "save" /\ op[c].id = id /\ alone[c] /\ Matching(id) # {} =>
         Matching(id)' # {}]_vars

\* "the secret is never momentarily absent" (Save, keychain_linux.go:590), said
\* of every Save: where nobody deletes, an ID that has an item keeps one.
NeverAbsent ==
  [][\A id \in ID : Matching(id) # {} => Matching(id)' # {}]_vars

\* A Save that ran undisturbed leaves exactly one item for its ID, with its secret,
\* however many duplicates it found and though the collection was relocked as
\* often as it may retry; without a relock the item has its metadata too.
SaveLeavesOne ==
  \A c \in Client :
    pc[c] = "close" /\ op[c].kind = "save" /\ res[c] = "ok" /\ calm[c]
      /\ relocks[c] <= MaxRetries =>
        \E p \in Path :
          /\ Matching(op[c].id) = {p}
          /\ items[p].secret = op[c].ver
          /\ relocks[c] = 0 => items[p].meta = op[c].meta

\* A Get that ran undisturbed finds the credential whenever there is one, and what it
\* returns is what the collection holds; relocks do not change that.
GetFindsIt ==
  \A c \in Client :
    pc[c] = "close" /\ op[c].kind = "get" /\ res[c] \in {"ok", "notfound"} /\ calm[c] =>
      /\ (res[c] = "ok") = (Matching(op[c].id) # {})
      /\ (res[c] = "ok") = (got[c] # {})
      /\ got[c] \subseteq {<<op[c].id, items[p].secret>> : p \in Matching(op[c].id)}

\* Every operation returns, even when the collection is locked again and again.
OperationsReturn == \A c \in Client : Active(c) ~> ~Active(c)

\* "Delete removes credentials from the store for a given ID" (store.go): after
\* a Delete that ran undisturbed and succeeded nothing is stored under the ID.
DeleteRemoves ==
  \A c \in Client :
    pc[c] = "close" /\ op[c].kind = "delete" /\ res[c] = "ok" /\ calm[c] =>
      Matching(op[c].id) = {}

==============================================================================
