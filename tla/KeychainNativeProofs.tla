------------------------ MODULE KeychainNativeProofs ------------------------
(***************************************************************************)
(* Proofs about the macOS store, about what lies under and over the        *)
(* keychain stores, and about the sum of these parts, for every value of   *)
(* the constants.                                                          *)
(*                                                                         *)
(* The macOS store: an Upsert is two Keychain calls.  A caller between     *)
(* them holds the mutex of its process (MutexInv), every running change of *)
(* the same ID the mutex does not exclude is on record (RivalInv), and so  *)
(* what an Upsert without rivals has deleted stays deleted until it adds   *)
(* its own item (StoreInv).                                                *)
(*                                                                         *)
(* A behaviour of the sum is, for each part, a behaviour of that part's    *)
(* own specification (DarwinPart, ServicePart, WindowsPart), so what is    *)
(* proved of these holds in the sum.                                       *)
(*                                                                         *)
(* The pass plugin: every PassValue refers to a buffer of its own, never   *)
(* to the one the store clears (BufferInv), and what rm has not deleted is *)
(* still to do or was reported (CommandInv).                               *)
(*                                                                         *)
(* The macOS bindings: CountInv says, for each place in a call, exactly    *)
(* which CoreFoundation objects are alive and which are released on the    *)
(* way out.  A dictionary retains what it holds, so the conversion can     *)
(* release its own references and the dictionary's release takes the rest  *)
(* along (AfterDefersIs, TakesOver, DefersSettle).  QueryInv says that the *)
(* attributes of a call are those its store built, service and access      *)
(* group included (ItemsOfIs), so nothing else matches.                    *)
(***************************************************************************)
EXTENDS MCKeychainNative, KeychainWindowsProofs

\* The Secret Service connection, with its theorems.
SP == INSTANCE SecretServiceProofs WITH
  Faults <- ServiceFaults, op <- sop, pc <- spc, res <- sres

-----------------------------------------------------------------------------
(* The macOS store *)

\* What a caller at a program point was called with.
DarwinCallInv ==
  \A c \in Client :
    /\ dpc[c] # "idle" /\ dop[c].kind \in Darwin!Writes \cup {"get"} => dop[c].id \in ID
    /\ dop[c].kind \in {"save", "upsert"} => dop[c].ver \in Darwin!Version
    /\ dpc[c] = "mutex" => dop[c].kind = "upsert"
    /\ dpc[c] = "delete" => dop[c].kind \in {"delete", "upsert"}
    /\ dpc[c] = "add" => dop[c].kind \in {"save", "upsert"}
    /\ dpc[c] \in {"query", "load"} => dop[c].kind \in {"get", "filter", "metadata"}
    /\ dpc[c] # "close" => dres[c] = "none"

\* An Upsert past the mutex holds it, and nobody else does.
MutexInv ==
  \A c \in Client :
    mu[ProcOf[c]] = c <=>
      (dop[c].kind = "upsert" /\ dpc[c] \in {"delete", "add", "close"})

\* The running changes of the same ID the mutex does not exclude are on record.
RivalInv ==
  \A c, d \in Client :
    dpc[c] # "idle" /\ Darwin!Rivals(c, dop[c], d) => dop[d].kind \in rival[c]

\* What an Upsert without a rival has deleted is absent until it adds its item.
StoreInv ==
  \A c \in Client :
    dop[c].kind = "upsert" /\ dpc[c] = "add" /\ rival[c] \cap {"save", "upsert"} = {} =>
      item[dop[c].id] = Absent

\* The inductive invariant of the macOS store.
DarwinInv ==
  /\ Darwin!TypeOK /\ DarwinCallInv /\ MutexInv /\ RivalInv /\ StoreInv
  /\ Darwin!UpsertsDontCollide /\ Darwin!UpsertStores

\* Two running changes of one ID: each is on the other's record, or both are
\* Upserts of one process and at most one of them is past the mutex.
LEMMA RivalOrExcluded ==
  ASSUME Darwin!TypeOK, DarwinCallInv, MutexInv, RivalInv,
         NEW c \in Client, NEW d \in Client, c # d,
         dop[c].kind = "upsert", dpc[c] \in {"delete", "add", "close"},
         dpc[d] \in {"delete", "add"}, dop[d].id = dop[c].id
  PROVE  dop[d].kind \in rival[c]
<1>1. dop[d].kind \in Darwin!Writes
  BY DEF DarwinCallInv, Darwin!Writes
<1>2. CASE dop[d].kind = "upsert" /\ ProcOf[c] = ProcOf[d]
  <2>1. mu[ProcOf[c]] = c /\ mu[ProcOf[d]] = d
    BY <1>2 DEF MutexInv
  <2> QED
    BY <1>2, <2>1
<1>3. CASE ~(dop[d].kind = "upsert" /\ ProcOf[c] = ProcOf[d])
  <2>1. Darwin!Rivals(c, dop[c], d)
    BY <1>1, <1>3 DEF Darwin!Rivals, Darwin!Writes
  <2> QED
    BY <2>1 DEF RivalInv
<1> QED
  BY <1>2, <1>3

\* A call begins: it is not yet past the mutex, and it and every running change
\* of the same ID take note of each other.
LEMMA DarwinCallStep ==
  ASSUME DarwinInv, NEW c \in Client, Darwin!Call(c)
  PROVE  DarwinInv'
<1> USE DEF DarwinInv, Darwin!Version, Darwin!Writes, Darwin!NoOp
<1>1. /\ dpc[c] = "idle"
      /\ UNCHANGED <<item, mu, dtodo, dgot, dres>>
      /\ dcalls' \in 0..MaxCalls
  BY DarwinAssumed DEF Darwin!Call, Darwin!TypeOK, Darwin!DarwinAssumption
<1>2. PICK o \in [kind : Darwin!Kind, id : ID \cup {NoID}, ver : 0..MaxSaves] :
        /\ dop' = [dop EXCEPT ![c] = o]
        /\ o.kind \in Darwin!Writes \cup {"get"} => o.id \in ID
        /\ o.kind \in {"save", "upsert"} => o.ver \in Darwin!Version
  BY DarwinAssumed DEF Darwin!Call, Darwin!TypeOK, Darwin!Kind, Darwin!DarwinAssumption
<1>3. dsaves' \in 0..MaxSaves
  BY DarwinAssumed DEF Darwin!Call, Darwin!TypeOK, Darwin!DarwinAssumption
<1>4. /\ dop'[c] = o
      /\ \A d \in Client : d # c => dop'[d] = dop[d]
  BY <1>2 DEF Darwin!TypeOK
<1>5. PICK l \in {"mutex", "add", "delete", "query"} :
        /\ dpc' = [dpc EXCEPT ![c] = l]
        /\ l = "mutex" <=> o.kind = "upsert"
        /\ l = "add" <=> o.kind = "save"
        /\ l = "delete" <=> o.kind = "delete"
  BY <1>4 DEF Darwin!Call, Darwin!Goto
<1>6. rival' = [d \in Client |->
        IF d = c THEN {dop[e].kind : e \in {x \in Client : Darwin!Rivals(c, o, x)}}
        ELSE IF Darwin!Rivals(c, o, d) THEN rival[d] \cup {o.kind} ELSE rival[d]]
  BY <1>4 DEF Darwin!Call
<1>7. \A d \in Client : dpc[d] = "close" => dpc'[d] = "close" /\ d # c
  BY <1>1, <1>5 DEF Darwin!TypeOK
<1>8. Darwin!TypeOK'
  <2>1. rival' \in [Client -> SUBSET Darwin!Writes]
    BY <1>6 DEF Darwin!TypeOK, Darwin!Rivals
  <2>2. dop' \in [Client -> [kind : Darwin!Kind, id : ID \cup {NoID}, ver : 0..MaxSaves]]
    BY <1>2 DEF Darwin!TypeOK
  <2>3. dpc' \in [Client -> Darwin!PC]
    BY <1>5 DEF Darwin!TypeOK, Darwin!PC
  <2>4. \A d \in Client : mu'[ProcOf[d]] = d => dop'[d].kind = "upsert" /\ dpc'[d] # "idle"
    BY <1>1, <1>2, <1>5 DEF Darwin!TypeOK, MutexInv
  <2> QED
    BY <1>1, <1>3, <2>1, <2>2, <2>3, <2>4 DEF Darwin!TypeOK
<1>9. DarwinCallInv'
  BY <1>1, <1>2, <1>5 DEF DarwinCallInv, Darwin!TypeOK, Darwin!Kind
<1>10. MutexInv'
  BY <1>1, <1>4, <1>5 DEF MutexInv, Darwin!TypeOK
<1>11. RivalInv'
  <2> SUFFICES ASSUME NEW a \in Client, NEW b \in Client,
                      dpc'[a] # "idle", Darwin!Rivals(a, dop[a], b)'
               PROVE  dop'[b].kind \in rival'[a]
    BY DEF RivalInv
  <2>1. CASE a = c
    <3>1. b # c /\ Darwin!Rivals(c, o, b)
      BY <1>4, <1>5, <2>1 DEF Darwin!Rivals, Darwin!TypeOK
    <3> QED
      BY <1>4, <1>6, <2>1, <3>1
  <2>2. CASE a # c /\ b = c
    <3>1. Darwin!Rivals(c, o, a)
      BY <1>4, <1>5, <2>2 DEF Darwin!Rivals, Darwin!TypeOK
    <3> QED
      BY <1>4, <1>6, <2>2, <3>1
  <2>3. CASE a # c /\ b # c
    <3>1. dpc[a] # "idle" /\ Darwin!Rivals(a, dop[a], b)
      BY <1>4, <1>5, <2>3 DEF Darwin!Rivals, Darwin!TypeOK
    <3>2. dop[b].kind \in rival[a]
      BY <3>1 DEF RivalInv
    <3> QED
      BY <1>4, <1>6, <2>3, <3>2
  <2> QED
    BY <2>1, <2>2, <2>3
<1>12. \A d \in Client : d # c => rival[d] \subseteq rival'[d]
  BY <1>6
<1>13. StoreInv'
  <2> SUFFICES ASSUME NEW d \in Client, dop'[d].kind = "upsert", dpc'[d] = "add",
                      rival'[d] \cap {"save", "upsert"} = {}
               PROVE  item'[dop'[d].id] = Absent
    BY DEF StoreInv
  <2>1. d # c
    BY <1>4, <1>5 DEF Darwin!TypeOK
  <2>2. dop'[d] = dop[d] /\ dpc[d] = "add"
    BY <1>4, <1>5, <2>1 DEF Darwin!TypeOK
  <2>3. rival[d] \cap {"save", "upsert"} = {}
    BY <1>12, <2>1
  <2> QED
    BY <1>1, <2>2, <2>3 DEF StoreInv
<1>14. Darwin!UpsertsDontCollide'
  BY <1>1, <1>4, <1>12 DEF Darwin!UpsertsDontCollide, DarwinCallInv
<1>15. Darwin!UpsertStores'
  <2>1. \A d \in Client : d # c /\ rival'[d] = {} => rival[d] = {}
    BY <1>12
  <2> QED
    BY <1>1, <1>4, <1>5, <2>1 DEF Darwin!UpsertStores, Darwin!TypeOK
<1> QED
  BY <1>8, <1>9, <1>10, <1>11, <1>13, <1>14, <1>15

\* The two calls that change the Keychain: nobody but a rival takes away or
\* puts something where an Upsert past the mutex works.
LEMMA DarwinItemStep ==
  ASSUME DarwinInv, NEW c \in Client, Darwin!DeleteItem(c) \/ Darwin!AddItem(c)
  PROVE  DarwinInv'
<1> USE DEF DarwinInv, Darwin!Writes
<1>1. /\ dpc[c] \in {"delete", "add"}
      /\ dpc'[c] \in {"add", "close"}
      /\ dpc'[c] = "add" => dpc[c] = "delete" /\ dop[c].kind = "upsert" /\ dres' = dres
      /\ \A d \in Client : d # c => dpc'[d] = dpc[d] /\ dres'[d] = dres[d]
      /\ dpc' \in [Client -> Darwin!PC]
      /\ dres' \in [Client -> {"none", "ok", "duplicate", "notfound", "error"}]
      /\ dop' = dop /\ mu' = mu /\ rival' = rival
      /\ UNCHANGED <<dtodo, dgot, dsaves, dcalls>>
  BY DEF Darwin!DeleteItem, Darwin!AddItem, Darwin!Goto, Darwin!Return, Darwin!TypeOK, Darwin!PC
<1>2. /\ dop[c].id \in ID
      /\ dpc[c] = "add" => dop[c].ver \in Darwin!Version
  BY <1>1 DEF DarwinCallInv
<1>3. item' \in [ID -> Darwin!Version \cup {Absent}]
  BY <1>2 DEF Darwin!DeleteItem, Darwin!AddItem, Darwin!TypeOK
<1>4. \A id \in ID : id # dop[c].id => item'[id] = item[id]
  BY <1>2 DEF Darwin!DeleteItem, Darwin!AddItem, Darwin!TypeOK
<1>5. Darwin!TypeOK'
  BY <1>1, <1>3 DEF Darwin!TypeOK, MutexInv
<1>6. DarwinCallInv'
  BY <1>1 DEF DarwinCallInv, Darwin!TypeOK
<1>7. MutexInv'
  BY <1>1 DEF MutexInv, Darwin!TypeOK
<1>8. RivalInv'
  <2> SUFFICES ASSUME NEW a \in Client, NEW b \in Client,
                      dpc'[a] # "idle", Darwin!Rivals(a, dop[a], b)'
               PROVE  dop'[b].kind \in rival'[a]
    BY DEF RivalInv
  <2>1. dpc[a] # "idle" /\ Darwin!Rivals(a, dop[a], b)
    BY <1>1 DEF Darwin!Rivals
  <2> QED
    BY <1>1, <2>1 DEF RivalInv
<1>9. \A d \in Client : /\ d # c
                        /\ dop[d].kind = "upsert"
                        /\ dpc[d] \in {"delete", "add", "close"}
                        /\ dop[d].id = dop[c].id
                        => dop[c].kind \in rival[d]
  BY <1>1, RivalOrExcluded
<1>10. StoreInv'
  <2> SUFFICES ASSUME NEW d \in Client, dop[d].kind = "upsert", dpc'[d] = "add",
                      rival[d] \cap {"save", "upsert"} = {}
               PROVE  item'[dop[d].id] = Absent
    BY <1>1 DEF StoreInv
  <2>1. CASE d = c
    BY <1>1, <1>2, <2>1 DEF Darwin!DeleteItem, Darwin!AddItem, Darwin!TypeOK
  <2>2. CASE d # c
    <3>1. dpc[d] = "add" /\ dop[d].id \in ID /\ item[dop[d].id] = Absent
      BY <1>1, <2>2 DEF StoreInv, DarwinCallInv
    <3>2. CASE dop[d].id # dop[c].id
      BY <1>4, <3>1, <3>2
    <3>3. CASE dop[d].id = dop[c].id
      <4>1. dop[c].kind \notin {"save", "upsert"}
        BY <1>9, <2>2, <3>1, <3>3
      <4>2. Darwin!DeleteItem(c)
        BY <4>1 DEF Darwin!AddItem, DarwinCallInv
      <4> QED
        BY <1>2, <3>3, <4>2 DEF Darwin!DeleteItem, Darwin!TypeOK
    <3> QED
      BY <3>2, <3>3
  <2> QED
    BY <2>1, <2>2
<1>11. Darwin!UpsertsDontCollide'
  <2> SUFFICES ASSUME NEW d \in Client, dop[d].kind = "upsert", dres'[d] = "duplicate"
               PROVE  rival[d] \cap {"save", "upsert"} # {}
    BY <1>1 DEF Darwin!UpsertsDontCollide
  <2>1. CASE d # c \/ dres[d] = "duplicate"
    BY <1>1, <2>1 DEF Darwin!UpsertsDontCollide
  <2>2. CASE d = c /\ dres[d] # "duplicate"
    <3>1. dpc[c] = "add" /\ item[dop[c].id] # Absent
      BY <2>2 DEF Darwin!DeleteItem, Darwin!AddItem, Darwin!Return, Darwin!TypeOK
    <3> QED
      BY <2>2, <3>1 DEF StoreInv
  <2> QED
    BY <2>1, <2>2
<1>12. Darwin!UpsertStores'
  <2> SUFFICES ASSUME NEW d \in Client, dpc'[d] = "close", dop[d].kind = "upsert",
                      dres'[d] = "ok", rival[d] = {}
               PROVE  item'[dop[d].id] = dop[d].ver
    BY <1>1 DEF Darwin!UpsertStores
  <2>1. CASE d = c
    <3>1. dpc[c] = "add" /\ dres[c] = "none"
      BY <1>1, <2>1 DEF Darwin!DeleteItem, Darwin!AddItem, Darwin!Goto, DarwinCallInv,
                        Darwin!TypeOK, Darwin!PC
    <3>2. item' = [item EXCEPT ![dop[c].id] = dop[c].ver]
      BY <2>1, <3>1 DEF Darwin!DeleteItem, Darwin!AddItem, Darwin!Return, Darwin!TypeOK
    <3> QED
      BY <1>2, <2>1, <3>2 DEF Darwin!TypeOK
  <2>2. CASE d # c
    <3>1. dpc[d] = "close" /\ dop[d].id \in ID /\ item[dop[d].id] = dop[d].ver
      BY <1>1, <2>2 DEF Darwin!UpsertStores, DarwinCallInv
    <3>2. dop[d].id # dop[c].id
      BY <1>9, <2>2, <3>1
    <3> QED
      BY <1>4, <3>1, <3>2
  <2> QED
    BY <2>1, <2>2
<1> QED
  BY <1>5, <1>6, <1>7, <1>8, <1>10, <1>11, <1>12

\* The other steps leave the Keychain and the record of rivals alone.
LEMMA DarwinOtherStep ==
  ASSUME DarwinInv, NEW c \in Client,
         \/ Darwin!LockMutex(c) \/ Darwin!QueryItem(c) \/ Darwin!LoadSecret(c)
         \/ Darwin!CallFails(c) \/ Darwin!Close(c)
  PROVE  DarwinInv'
<1> USE DEF DarwinInv, Darwin!Writes
<1>1. CASE Darwin!LockMutex(c)
  <2>0. /\ dpc[c] = "mutex" /\ dop[c].kind = "upsert" /\ ProcOf[c] \in Process
        /\ mu[ProcOf[c]] = NoClient /\ mu' = [mu EXCEPT ![ProcOf[c]] = c]
        /\ dpc' = [dpc EXCEPT ![c] = "delete"]
        /\ UNCHANGED <<item, dop, dtodo, dgot, dres, rival, dsaves, dcalls>>
    BY <1>1, DarwinAssumed DEF Darwin!LockMutex, Darwin!Goto, DarwinCallInv, Darwin!DarwinAssumption
  <2>1. Darwin!TypeOK'
    <3>1. mu' \in [Process -> Client \cup {NoClient}] /\ dpc' \in [Client -> Darwin!PC]
      BY <2>0 DEF Darwin!TypeOK, Darwin!PC
    <3>2. \A d \in Client : mu'[ProcOf[d]] = d => dop'[d].kind = "upsert" /\ dpc'[d] # "idle"
      <4> SUFFICES ASSUME NEW d \in Client, mu'[ProcOf[d]] = d
                   PROVE  dop'[d].kind = "upsert" /\ dpc'[d] # "idle"
        OBVIOUS
      <4>1. ProcOf[d] \in Process
        BY DarwinAssumed DEF Darwin!DarwinAssumption
      <4>2. d = c \/ mu[ProcOf[d]] = d
        BY <2>0, <4>1 DEF Darwin!TypeOK
      <4> QED
        BY <2>0, <4>2 DEF Darwin!TypeOK
    <3> QED
      BY <2>0, <3>1, <3>2 DEF Darwin!TypeOK
  <2>2. DarwinCallInv' /\ StoreInv' /\ Darwin!UpsertsDontCollide' /\ Darwin!UpsertStores'
    BY <2>0 DEF Darwin!TypeOK, DarwinCallInv, StoreInv, Darwin!UpsertsDontCollide,
                Darwin!UpsertStores
  <2>3. MutexInv'
    <3> SUFFICES ASSUME NEW d \in Client
                 PROVE  mu'[ProcOf[d]] = d <=>
                          (dop'[d].kind = "upsert" /\ dpc'[d] \in {"delete", "add", "close"})
      BY DEF MutexInv
    <3>1. ProcOf[d] \in Process /\ NoClient \notin Client
      BY DarwinAssumed DEF Darwin!DarwinAssumption
    <3>2. CASE d = c
      BY <2>0, <3>1, <3>2 DEF Darwin!TypeOK
    <3>3. CASE d # c
      <4>1. mu'[ProcOf[d]] = d <=> mu[ProcOf[d]] = d
        BY <2>0, <3>1, <3>3 DEF Darwin!TypeOK
      <4>2. dop'[d] = dop[d] /\ dpc'[d] = dpc[d]
        BY <2>0, <3>3 DEF Darwin!TypeOK
      <4> QED
        BY <4>1, <4>2 DEF MutexInv
    <3> QED
      BY <3>2, <3>3
  <2>4. RivalInv'
    BY <1>1 DEF Darwin!LockMutex, Darwin!Goto, Darwin!TypeOK, RivalInv, Darwin!Rivals
  <2> QED
    BY <2>1, <2>2, <2>3, <2>4
<1>2. CASE Darwin!QueryItem(c) \/ Darwin!LoadSecret(c) \/ Darwin!CallFails(c)
  <2>1. /\ dpc[c] \in {"delete", "add", "query", "load"}
        /\ dpc'[c] \in {"load", "close"}
        /\ dpc'[c] = "load" => dpc[c] \in {"query", "load"} /\ dres' = dres
        /\ dpc'[c] = "close" /\ dpc[c] \in {"delete", "add"} => dres'[c] = "error"
        /\ \A d \in Client : d # c => dpc'[d] = dpc[d] /\ dres'[d] = dres[d]
        /\ dpc' \in [Client -> Darwin!PC]
        /\ dres' \in [Client -> {"none", "ok", "duplicate", "notfound", "error"}]
        /\ dres'[c] # "duplicate"
        /\ UNCHANGED <<item, mu, dop, rival, dsaves, dcalls>>
    BY <1>2 DEF Darwin!QueryItem, Darwin!LoadSecret, Darwin!CallFails, Darwin!Goto,
                Darwin!Return, Darwin!TypeOK, Darwin!PC, DarwinCallInv
  <2>2. Darwin!TypeOK'
    <3>1. dtodo' \in [Client -> SUBSET (ID \X Darwin!Version)]
      BY <1>2 DEF Darwin!QueryItem, Darwin!LoadSecret, Darwin!CallFails, Darwin!TypeOK
    <3>2. dgot' \in [Client -> SUBSET (ID \X Darwin!Version \X (Darwin!Version \cup {0}))]
      BY <1>2 DEF Darwin!QueryItem, Darwin!LoadSecret, Darwin!CallFails, Darwin!TypeOK, DarwinCallInv
    <3> QED
      BY <2>1, <3>1, <3>2 DEF Darwin!TypeOK
  <2>3. DarwinCallInv' /\ MutexInv'
    BY <2>1 DEF DarwinCallInv, MutexInv, Darwin!TypeOK
  <2>4. RivalInv'
    BY <2>1 DEF RivalInv, Darwin!Rivals
  <2>5. StoreInv'
    BY <2>1 DEF StoreInv
  <2>6. Darwin!UpsertsDontCollide'
    BY <2>1 DEF Darwin!UpsertsDontCollide
  <2>7. Darwin!UpsertStores'
    <3>1. dop[c].kind = "upsert" /\ dpc'[c] = "close" => dres'[c] = "error"
      BY <2>1 DEF DarwinCallInv
    <3> QED
      BY <2>1, <3>1 DEF Darwin!UpsertStores
  <2> QED
    BY <2>2, <2>3, <2>4, <2>5, <2>6, <2>7
<1>3. CASE Darwin!Close(c)
  <2>1. Darwin!TypeOK'
    <3>1. mu' \in [Process -> Client \cup {NoClient}]
      BY <1>3, DarwinAssumed DEF Darwin!Close, Darwin!TypeOK, Darwin!DarwinAssumption
    <3>2. dop' \in [Client -> [kind : Darwin!Kind, id : ID \cup {NoID}, ver : 0..MaxSaves]]
      <4>1. Darwin!NoOp \in [kind : Darwin!Kind, id : ID \cup {NoID}, ver : 0..MaxSaves]
        BY DarwinAssumed DEF Darwin!NoOp, Darwin!Kind, Darwin!DarwinAssumption
      <4> QED
        BY <1>3, <4>1 DEF Darwin!Close, Darwin!TypeOK
    <3>3. /\ dpc' \in [Client -> Darwin!PC]
          /\ dtodo' \in [Client -> SUBSET (ID \X Darwin!Version)]
          /\ dgot' \in [Client -> SUBSET (ID \X Darwin!Version \X (Darwin!Version \cup {0}))]
          /\ dres' \in [Client -> {"none", "ok", "duplicate", "notfound", "error"}]
          /\ rival' \in [Client -> SUBSET Darwin!Writes]
          /\ UNCHANGED <<item, dsaves, dcalls>>
      BY <1>3 DEF Darwin!Close, Darwin!Goto, Darwin!TypeOK, Darwin!PC
    <3>4. \A d \in Client : mu'[ProcOf[d]] = d => d # c /\ mu[ProcOf[d]] = d
      BY <1>3, DarwinAssumed DEF Darwin!Close, Darwin!TypeOK, Darwin!DarwinAssumption
    <3>5. \A d \in Client \ {c} : dop'[d] = dop[d] /\ dpc'[d] = dpc[d]
      BY <1>3 DEF Darwin!Close, Darwin!Goto, Darwin!TypeOK
    <3> QED
      BY <3>1, <3>2, <3>3, <3>4, <3>5 DEF Darwin!TypeOK
  <2>2. DarwinCallInv' /\ StoreInv' /\ Darwin!UpsertsDontCollide' /\ Darwin!UpsertStores'
    BY <1>3 DEF Darwin!Close, Darwin!Goto, Darwin!TypeOK, Darwin!NoOp, DarwinCallInv, StoreInv,
                Darwin!UpsertsDontCollide, Darwin!UpsertStores
  <2>3. MutexInv'
    <3>1. \A d \in Client : d # c => (mu'[ProcOf[d]] = d <=> mu[ProcOf[d]] = d)
      BY <1>3, DarwinAssumed DEF Darwin!Close, Darwin!TypeOK, Darwin!DarwinAssumption
    <3>2. mu'[ProcOf[c]] # c
      BY <1>3, DarwinAssumed DEF Darwin!Close, Darwin!TypeOK, Darwin!DarwinAssumption
    <3> QED
      BY <1>3, <3>1, <3>2 DEF Darwin!Close, Darwin!Goto, Darwin!TypeOK, Darwin!NoOp, MutexInv
  <2>4. RivalInv'
    BY <1>3 DEF Darwin!Close, Darwin!Goto, Darwin!TypeOK, Darwin!NoOp, RivalInv, Darwin!Rivals
  <2> QED
    BY <2>1, <2>2, <2>3, <2>4
<1> QED
  BY <1>1, <1>2, <1>3

\* The macOS store's invariant holds in its own specification.
LEMMA DarwinInvariant == Darwin!Spec => []DarwinInv
<1>1. Darwin!Init => DarwinInv
  BY DarwinAssumed DEF Darwin!Init, DarwinInv, Darwin!TypeOK, DarwinCallInv, MutexInv, RivalInv,
         Darwin!Rivals, StoreInv, Darwin!UpsertsDontCollide, Darwin!UpsertStores, Darwin!PC,
         Darwin!NoOp, Darwin!Kind, Darwin!Writes, Darwin!DarwinAssumption
<1>2. DarwinInv /\ [Darwin!Next]_Darwin!vars => DarwinInv'
  <2> SUFFICES ASSUME DarwinInv, [Darwin!Next]_Darwin!vars PROVE DarwinInv'
    OBVIOUS
  <2>1. CASE UNCHANGED Darwin!vars
    BY <2>1 DEF Darwin!vars, DarwinInv, Darwin!TypeOK, DarwinCallInv, MutexInv, RivalInv,
                Darwin!Rivals, StoreInv, Darwin!UpsertsDontCollide, Darwin!UpsertStores
  <2>2. CASE Darwin!Next
    BY <2>2, DarwinCallStep, DarwinItemStep, DarwinOtherStep DEF Darwin!Next
  <2> QED
    BY <2>1, <2>2
<1> QED
  BY <1>1, <1>2, PTL DEF Darwin!Spec

\* The types of the store's variables hold, and only an Upsert holds a mutex.
THEOREM DarwinTypes == Darwin!Spec => []Darwin!TypeOK
<1>1. DarwinInv => Darwin!TypeOK
  BY DEF DarwinInv
<1> QED
  BY <1>1, DarwinInvariant, PTL

\* Upsert, in any number of processes: it fails on an existing item only if a
\* Save or another process's Upsert of the same ID ran meanwhile.
THEOREM UpsertsExclude == Darwin!Spec => []Darwin!UpsertsDontCollide
<1>1. DarwinInv => Darwin!UpsertsDontCollide
  BY DEF DarwinInv
<1> QED
  BY <1>1, DarwinInvariant, PTL

\* Upsert, in any number of processes: one that succeeds without a rival is
\* what the Keychain holds until it lets the mutex go.
THEOREM UpsertsStore == Darwin!Spec => []Darwin!UpsertStores
<1>1. DarwinInv => Darwin!UpsertStores
  BY DEF DarwinInv
<1> QED
  BY <1>1, DarwinInvariant, PTL

\* Every step of the sum is a step of the macOS store or leaves it alone.
LEMMA DarwinPart == MCSpec => Darwin!Spec
<1>1. MCInit => Darwin!Init
  BY DEF MCInit
<1>2. UNCHANGED darwinVars => UNCHANGED Darwin!vars
  BY DEF darwinVars, Darwin!vars
<1>3. [MCNext]_<<system, vars, darwinVars, gkVars, serviceVars, passVars>> => [Darwin!Next]_Darwin!vars
  BY <1>2 DEF MCNext
<1> QED
  BY <1>1, <1>3, PTL DEF MCSpec, Darwin!Spec

\* On macOS, in the specification the run checks, Upserts exclude each other and
\* store: the two theorems above.
THEOREM NativeUpsertsHold == MCSpec => []DarwinUpsertsHold
<1>1. Darwin!UpsertsDontCollide /\ Darwin!UpsertStores => DarwinUpsertsHold
  BY DEF DarwinUpsertsHold
<1> QED
  BY <1>1, UpsertsExclude, UpsertsStore, DarwinPart, PTL

-----------------------------------------------------------------------------
(* The parts that have proofs of their own *)

\* Every step of the sum is one of the Secret Service connection or leaves it alone.
LEMMA ServicePart == MCSpec => SP!Spec
<1>1. MCInit => SP!Init
  BY DEF MCInit, ServiceRest, Service!Init, SP!Init, Service!Op, SP!Op, Service!Endpoint, SP!Endpoint
<1>2. Service!Next => SP!Next
  <2> USE DEF Service!Return, SP!Return, Service!Advance, SP!Advance, Service!GiveUp, SP!GiveUp,
              Service!BestEffort, SP!BestEffort, Service!Retried, SP!Retried,
              Service!Prompting, SP!Prompting, Service!Scripts, SP!Scripts,
              Service!Prompts, SP!Prompts
  <2>1. Service!NewServiceFails => SP!NewServiceFails
    BY DEF Service!NewServiceFails, SP!NewServiceFails, Service!Dialled, SP!Dialled,
           Service!sessionBusMissingSocket, SP!sessionBusMissingSocket,
           Service!unixSocketPath, SP!unixSocketPath
  <2>2. Service!NewService => SP!NewService
    BY DEF Service!NewService, SP!NewService, Service!Dialled, SP!Dialled,
           Service!sessionBusMissingSocket, SP!sessionBusMissingSocket,
           Service!unixSocketPath, SP!unixSocketPath
  <2>3. Service!Available => SP!Available
    BY DEF Service!Available, SP!Available
  <2>4. Service!OpenSessionRaw => SP!OpenSessionRaw
    BY DEF Service!OpenSessionRaw, SP!OpenSessionRaw
  <2>5. Service!OpenSession => SP!OpenSession
    BY DEF Service!OpenSession, SP!OpenSession
  <2>6. Service!OpenSessionTimesOut => SP!OpenSessionTimesOut
    BY DEF Service!OpenSessionTimesOut, SP!OpenSessionTimesOut
  <2>7. Service!CallFails => SP!CallFails
    BY DEF Service!CallFails, SP!CallFails
  <2>8. Service!IsLocked => SP!IsLocked
    BY DEF Service!IsLocked, SP!IsLocked
  <2>9. Service!SearchCollection => SP!SearchCollection
    BY DEF Service!SearchCollection, SP!SearchCollection
  <2>10. Service!Unlock => SP!Unlock
    BY DEF Service!Unlock, SP!Unlock
  <2>11. Service!Work => SP!Work
    BY DEF Service!Work, SP!Work
  <2>12. Service!MeetsLock => SP!MeetsLock
    BY DEF Service!MeetsLock, SP!MeetsLock
  <2>13. Service!ReceiveSignal => SP!ReceiveSignal
    BY DEF Service!ReceiveSignal, SP!ReceiveSignal, Service!PromptAnswered, SP!PromptAnswered,
           Service!PromptFailed, SP!PromptFailed
  <2>14. Service!PromptTimesOut => SP!PromptTimesOut
    BY DEF Service!PromptTimesOut, SP!PromptTimesOut, Service!PromptFailed, SP!PromptFailed
  <2>15. Service!Close => SP!Close
    BY DEF Service!Close, SP!Close
  <2>16. ASSUME NEW i \in 1..Len(prompts) PROVE Service!Answer(i) => SP!Answer(i)
    BY DEF Service!Answer, SP!Answer
  <2>17. Service!Relock => SP!Relock
    BY DEF Service!Relock, SP!Relock
  <2>18. Service!ConnLost => SP!ConnLost
    BY DEF Service!ConnLost, SP!ConnLost
  <2> QED
    BY <2>1, <2>2, <2>3, <2>4, <2>5, <2>6, <2>7, <2>8, <2>9, <2>10, <2>11, <2>12, <2>13,
       <2>14, <2>15, <2>16, <2>17, <2>18 DEF Service!Next, SP!Next
<1>3. UNCHANGED serviceVars => UNCHANGED SP!vars
  BY DEF serviceVars, SP!vars
<1>4. [MCNext]_<<system, vars, darwinVars, gkVars, serviceVars, passVars>> => [SP!Next]_SP!vars
  BY <1>2, <1>3 DEF MCNext
<1> QED
  BY <1>1, <1>4, PTL DEF MCSpec, SP!Spec

\* Every step of the sum is a step of the Windows store or leaves it alone.
LEMMA WindowsPart == MCSpec => Spec
<1>1. MCInit => Init
  BY DEF MCInit
<1>2. [MCNext]_<<system, vars, darwinVars, gkVars, serviceVars, passVars>> => [Next]_vars
  BY DEF MCNext
<1> QED
  BY <1>1, <1>2, PTL DEF MCSpec, Spec

\* Over the Secret Service, an operation that reports success has done its work,
\* although PromptAndWait takes the first Completed signal for its own; the
\* probe of New is right, and every operation closes its connection.
THEOREM NativeServiceIsHonest == MCSpec => []ServiceIsHonest
<1>1. SP!ServiceAssumption
  BY ServiceAssumed DEF Service!ServiceAssumption, SP!ServiceAssumption
<1>2. SP!Spec => []SP!SuccessMeansDone
  BY <1>1, SP!SuccessIsDone
<1>3. SP!Spec => []SP!ProbeIsSound
  BY <1>1, SP!ProbesAreSound
<1>4. SP!SuccessMeansDone /\ SP!ProbeIsSound => ServiceIsHonest
  BY DEF ServiceIsHonest, SP!SuccessMeansDone, SP!ProbeIsSound, SP!BestEffort, SP!Dialled,
         Service!SuccessMeansDone, Service!ProbeIsSound, Service!BestEffort, Service!Dialled
<1> QED
  BY <1>2, <1>3, <1>4, ServicePart, PTL

\* The type invariants of the three stores.
LEMMA PartTypes == MCSpec => [](TypeOK /\ Darwin!TypeOK /\ Service!TypeOK)
<1>1. SP!ServiceAssumption
  BY ServiceAssumed DEF Service!ServiceAssumption, SP!ServiceAssumption
<1>2. SP!Spec => []SP!TypeOK
  BY <1>1, SP!ServiceTypes
<1>3. SP!TypeOK => Service!TypeOK
  BY DEF SP!TypeOK, Service!TypeOK, SP!Endpoint, Service!Endpoint, SP!Op, Service!Op,
         SP!Scripts, Service!Scripts, SP!Prompting, Service!Prompting,
         SP!BestEffort, Service!BestEffort, SP!Retried, Service!Retried
<1> QED
  BY <1>2, <1>3, DarwinTypes, DarwinPart, ServicePart, WindowsPart, TypeCorrect, PTL

-----------------------------------------------------------------------------
(* The pass plugin *)

\* A PassValue refers to a buffer of its own, which holds the secret while a
\* Save is due; the keychain holds no zeros.
BufferInv ==
  /\ \A a \in Actor : \A i \in Pass!AllID : value[a][i] = "own"
  /\ \A a \in Actor : pcall[a].pc \in Pass!Metadata =>
       pcall[a].id \in Pass!AllID /\ heap[a][pcall[a].id].own \in Value
  /\ \A i \in Pass!AllID : keychain[i] # Absent => keychain[i].val \in Value

\* What a process at a step was called for, and what it has to say.
CommandInv ==
  \A a \in Actor :
    /\ pcall[a].pc # "idle" => pres[a] = "none"
    /\ pcall[a].pc = "read" => \/ pcall[a].kind = "ls"
                               \/ pcall[a].kind = "get" /\ pcall[a].id \in Pass!AllID
    /\ pcall[a].pc = "delete" /\ ~ failed[a] => left[a] \subseteq ptodo[a]

\* The inductive invariant of the pass plugin.
PassInv ==
  Pass!TypeOK /\ BufferInv /\ CommandInv /\ Pass!SecretsSurviveClearing /\ Pass!RmTellsTheTruth

\* What a store loads ends up in the values' own buffers.
LEMMA LoadAllIs ==
  ASSUME Pass!TypeOK, NEW a \in Actor, NEW S \in SUBSET Pass!AllID,
         \A i \in S : keychain[i] # Absent /\ keychain[i].val \in Value
  PROVE  /\ Pass!LoadAll(a, S).heap \in
              [Pass!AllID -> [raw : Value \cup {Zero}, own : Value \cup {Zero}]]
         /\ Pass!LoadAll(a, S).value \in [Pass!AllID -> {"raw", "own"}]
         /\ \A i \in Pass!AllID : Pass!LoadAll(a, S).value[i] \in {"own", value[a][i]}
         /\ \A i \in S : /\ Pass!LoadAll(a, S).value[i] = "own"
                         /\ Pass!LoadAll(a, S).heap[i].own = keychain[i].val
         /\ \A i \in Pass!AllID \ S : Pass!LoadAll(a, S).heap[i] = heap[a][i]
<1> DEFINE Buffers == [raw : Value \cup {Zero}, own : Value \cup {Zero}]
<1>1. heap[a] \in [Pass!AllID -> Buffers] /\ value[a] \in [Pass!AllID -> {"raw", "own"}]
  BY DEF Pass!TypeOK
<1>2. ASSUME NEW i \in S
      PROVE  /\ Pass!Load(heap[a], value[a], i).heap[i] \in Buffers
             /\ Pass!Load(heap[a], value[a], i).heap[i].own = keychain[i].val
             /\ Pass!Load(heap[a], value[a], i).value[i] = "own"
  <2>1. keychain[i].val \in Value
    OBVIOUS
  <2>2. heap[a][i] \in Buffers
    BY <1>1
  <2> DEFINE h1 == [heap[a] EXCEPT ![i].raw = keychain[i].val]
             h2 == [h1 EXCEPT ![i].own = h1[i].raw]
  <2>3. h1 \in [Pass!AllID -> Buffers] /\ h1[i].raw = keychain[i].val
    BY <1>1, <2>1, <2>2
  <2> HIDE DEF h1
  <2>4. h2 \in [Pass!AllID -> Buffers] /\ h2[i].own = keychain[i].val
    BY <2>1, <2>3
  <2>5. Pass!Load(heap[a], value[a], i).heap = [h2 EXCEPT ![i]["raw"] = Zero]
    BY DEF Pass!Load, Pass!Unmarshal, Pass!Clear, h1
  <2>6. Pass!Load(heap[a], value[a], i).value = [value[a] EXCEPT ![i] = "own"]
    BY DEF Pass!Load, Pass!Unmarshal
  <2> HIDE DEF h2
  <2>7. /\ [h2 EXCEPT ![i]["raw"] = Zero][i] \in Buffers
        /\ [h2 EXCEPT ![i]["raw"] = Zero][i].own = h2[i].own
    BY <2>4
  <2> QED
    BY <1>1, <2>4, <2>5, <2>6, <2>7
<1>3. /\ Pass!LoadAll(a, S).heap = [i \in Pass!AllID |->
           IF i \in S THEN Pass!Load(heap[a], value[a], i).heap[i] ELSE heap[a][i]]
      /\ Pass!LoadAll(a, S).value = [i \in Pass!AllID |->
           IF i \in S THEN Pass!Load(heap[a], value[a], i).value[i] ELSE value[a][i]]
  BY DEF Pass!LoadAll
<1> QED
  BY <1>1, <1>2, <1>3

\* A step that leaves keychain, memory and answers alone.
LEMMA QuietPass ==
  ASSUME PassInv, UNCHANGED <<keychain, heap, value>>,
         pcall' \in [Actor -> [kind : Pass!Kind, id : Pass!AllID \cup {NoID}, pc : Pass!PC]],
         \A a \in Actor : pcall'[a].pc \notin Pass!Metadata \/ pcall'[a] = pcall[a],
         \A a \in Actor : answer'[a] \in {<<>>, answer[a]}
  PROVE  BufferInv' /\ Pass!SecretsSurviveClearing'
<1> USE DEF PassInv
<1>1. BufferInv'
  BY DEF BufferInv, Pass!AllID, Pass!Metadata
<1>2. Pass!SecretsSurviveClearing'
  BY DEF Pass!SecretsSurviveClearing, Pass!AllID
<1> QED
  BY <1>1, <1>2

\* WithStore begins a command.
LEMMA BeginKeeps ==
  ASSUME PassInv, NEW a \in Actor, NEW i \in Pass!AllID \cup {NoID}, NEW k \in Pass!Kind,
         NEW l \in Pass!PC, Pass!Begin(a, k, i, l)
  PROVE  /\ pcall' \in [Actor -> [kind : Pass!Kind, id : Pass!AllID \cup {NoID}, pc : Pass!PC]]
         /\ pcall'[a] = [kind |-> k, id |-> i, pc |-> l]
         /\ \A b \in Actor \ {a} : pcall'[b] = pcall[b] /\ pres'[b] = pres[b]
         /\ answer' \in [Actor -> UNION {[S -> Value \cup {Zero}] : S \in SUBSET Pass!AllID}]
         /\ \A b \in Actor : answer'[b] \in {<<>>, answer[b]}
         /\ pres' \in [Actor -> {"none", "ok", "notfound", "error"}] /\ pres'[a] = "none"
         /\ pcalls' \in 0..MaxPassCalls
<1> USE DEF PassInv, Pass!TypeOK
<1>1. pcall' = [pcall EXCEPT ![a] = [kind |-> k, id |-> i, pc |-> l]]
  BY DEF Pass!Begin
<1>2. answer' = [answer EXCEPT ![a] = <<>>]
  BY DEF Pass!Begin
<1>3. <<>> \in [{} -> Value \cup {Zero}]
  OBVIOUS
<1>4. <<>> \in UNION {[S -> Value \cup {Zero}] : S \in SUBSET Pass!AllID}
  BY <1>3
<1>5. pcalls' \in 0..MaxPassCalls
  BY PassAssumed DEF Pass!Begin, Pass!PassAssumption
<1>6. pres' = [pres EXCEPT ![a] = "none"]
  BY DEF Pass!Begin
<1>7. answer' \in [Actor -> UNION {[S -> Value \cup {Zero}] : S \in SUBSET Pass!AllID}]
  BY <1>2, <1>4
<1>8. \A b \in Actor : answer'[b] \in {<<>>, answer[b]}
  BY <1>2
<1> QED
  BY <1>1, <1>5, <1>6, <1>7, <1>8

\* set builds the value it will save, in a buffer of its own.
LEMMA SetKeeps ==
  ASSUME PassInv, NEW a \in Actor, NEW i \in Pass!AllID, NEW v \in Value,
         NEW s, NEW f \in BOOLEAN, NEW o \in BOOLEAN,
         Pass!Set(a, i, v, s, f, o)
  PROVE  PassInv'
<1> DEFINE k == IF o THEN "upsert" ELSE "set"
           l == Pass!MergedMetadata(s, f)
           h == [[heap[a] EXCEPT ![i].raw = v] EXCEPT ![i].own = [heap[a] EXCEPT ![i].raw = v][i].raw]
           Buffers == [raw : Value \cup {Zero}, own : Value \cup {Zero}]
<1>1. k \in Pass!Kind /\ l \in Pass!Metadata /\ l \in Pass!PC /\ l # "idle"
  BY DEF Pass!Kind, Pass!MergedMetadata, Pass!Metadata, Pass!PC
<1>2. Pass!Begin(a, k, i, l)
  BY DEF Pass!Set
<1>3. /\ pcall' \in [Actor -> [kind : Pass!Kind, id : Pass!AllID \cup {NoID}, pc : Pass!PC]]
      /\ pcall'[a] = [kind |-> k, id |-> i, pc |-> l]
      /\ \A b \in Actor \ {a} : pcall'[b] = pcall[b] /\ pres'[b] = pres[b]
      /\ answer' \in [Actor -> UNION {[S -> Value \cup {Zero}] : S \in SUBSET Pass!AllID}]
      /\ \A b \in Actor : answer'[b] \in {<<>>, answer[b]}
      /\ pres' \in [Actor -> {"none", "ok", "notfound", "error"}] /\ pres'[a] = "none"
      /\ pcalls' \in 0..MaxPassCalls
  BY <1>1, <1>2, BeginKeeps
<1>4. heap' = [heap EXCEPT ![a] = h] /\ value' = [value EXCEPT ![a] = [value[a] EXCEPT ![i] = "own"]]
  BY DEF Pass!Set, Pass!Unmarshal
<1>5. heap[a] \in [Pass!AllID -> Buffers] /\ value[a] \in [Pass!AllID -> {"raw", "own"}]
  BY DEF PassInv, Pass!TypeOK
<1>6. h \in [Pass!AllID -> Buffers] /\ h[i].own = v
  <2>1. [heap[a] EXCEPT ![i].raw = v] \in [Pass!AllID -> Buffers]
    BY <1>5
  <2>2. [heap[a] EXCEPT ![i].raw = v][i].raw = v
    BY <1>5
  <2> QED
    BY <2>1, <2>2
<1>7. UNCHANGED <<keychain, ptodo, failed, left>>
  BY DEF Pass!Set
<1> HIDE DEF k, l, h
<1>8. Pass!TypeOK'
  <2>1. heap' \in [Actor -> [Pass!AllID -> Buffers]]
    BY <1>4, <1>6 DEF PassInv, Pass!TypeOK
  <2>2. value' \in [Actor -> [Pass!AllID -> {"raw", "own"}]]
    BY <1>4, <1>5 DEF PassInv, Pass!TypeOK
  <2> QED
    BY <1>3, <1>7, <2>1, <2>2 DEF PassInv, Pass!TypeOK
<1>9. BufferInv'
  <2>1. \A b \in Actor : \A j \in Pass!AllID : value'[b][j] = "own"
    BY <1>4, <1>5 DEF PassInv, Pass!TypeOK, BufferInv
  <2>2. heap' [a] = h /\ \A b \in Actor \ {a} : heap'[b] = heap[b]
    BY <1>4 DEF PassInv, Pass!TypeOK
  <2>3. ASSUME NEW b \in Actor, pcall'[b].pc \in Pass!Metadata
        PROVE  pcall'[b].id \in Pass!AllID /\ heap'[b][pcall'[b].id].own \in Value
    <3>1. CASE b = a
      BY <1>3, <1>6, <2>2, <3>1
    <3>2. CASE b # a
      BY <1>3, <2>2, <2>3, <3>2 DEF PassInv, BufferInv
    <3> QED
      BY <3>1, <3>2
  <2> QED
    BY <1>7, <2>1, <2>3 DEF PassInv, BufferInv, Pass!AllID, Pass!Metadata
<1>10. CommandInv'
  <2>1. l # "delete" /\ l # "read"
    BY <1>1 DEF Pass!Metadata
  <2> QED
    BY <1>3, <1>7, <2>1 DEF PassInv, CommandInv, Pass!AllID
<1>11. Pass!SecretsSurviveClearing'
  BY <1>3, <1>7 DEF PassInv, Pass!SecretsSurviveClearing, Pass!AllID
<1>12. Pass!RmTellsTheTruth'
  BY <1>3, <1>7 DEF PassInv, Pass!RmTellsTheTruth
<1> QED
  BY <1>8, <1>9, <1>10, <1>11, <1>12 DEF PassInv

\* A set whose arguments or input are refused.
LEMMA SetFailsKeeps ==
  ASSUME PassInv, NEW a \in Actor, NEW i \in Pass!AllID, Pass!SetFails(a, i)
  PROVE  PassInv'
<1>1. pcall' = [pcall EXCEPT ![a] = [kind |-> "set", id |-> i, pc |-> "idle"]]
  BY DEF Pass!SetFails
<1>2. UNCHANGED <<keychain, heap, value, ptodo, failed, left, answer>>
  BY DEF Pass!SetFails
<1>3. pres' = [pres EXCEPT ![a] = "error"]
  BY DEF Pass!SetFails
<1>4. pcalls' \in 0..MaxPassCalls
  BY PassAssumed DEF Pass!SetFails, Pass!PassAssumption, PassInv, Pass!TypeOK
<1>5. pcall' \in [Actor -> [kind : Pass!Kind, id : Pass!AllID \cup {NoID}, pc : Pass!PC]]
  BY <1>1 DEF PassInv, Pass!TypeOK, Pass!Kind, Pass!PC
<1>6. pcall'[a].kind = "set" /\ pcall'[a].pc = "idle" /\ \A b \in Actor \ {a} : pcall'[b] = pcall[b]
  BY <1>1 DEF PassInv, Pass!TypeOK
<1>7. /\ pres' \in [Actor -> {"none", "ok", "notfound", "error"}] /\ pres'[a] = "error"
      /\ \A b \in Actor \ {a} : pres'[b] = pres[b]
  BY <1>3 DEF PassInv, Pass!TypeOK
<1>8. Pass!TypeOK'
  BY <1>2, <1>4, <1>5, <1>7 DEF PassInv, Pass!TypeOK
<1>9. BufferInv' /\ Pass!SecretsSurviveClearing'
  BY <1>2, <1>5, <1>6, QuietPass DEF Pass!Metadata
<1>10. CommandInv'
  BY <1>2, <1>6, <1>7 DEF PassInv, CommandInv, Pass!AllID
<1>11. Pass!RmTellsTheTruth'
  BY <1>2, <1>6, <1>7 DEF PassInv, Pass!RmTellsTheTruth
<1> QED
  BY <1>8, <1>9, <1>10, <1>11 DEF PassInv

\* A GetSecrets whose Filter fails.
LEMMA FilterFailsKeeps ==
  ASSUME PassInv, NEW a \in Actor, Pass!FilterFails(a)
  PROVE  PassInv'
<1>1. pcall' = [pcall EXCEPT ![a] = [kind |-> "resolve", id |-> NoID, pc |-> "idle"]]
  BY DEF Pass!FilterFails
<1>2. UNCHANGED <<keychain, heap, value, ptodo, failed, left>>
  BY DEF Pass!FilterFails
<1>3. pres' = [pres EXCEPT ![a] = "error"] /\ answer' = [answer EXCEPT ![a] = <<>>]
  BY DEF Pass!FilterFails
<1>4. pcalls' \in 0..MaxPassCalls
  BY PassAssumed DEF Pass!FilterFails, Pass!PassAssumption, PassInv, Pass!TypeOK
<1>5. pcall' \in [Actor -> [kind : Pass!Kind, id : Pass!AllID \cup {NoID}, pc : Pass!PC]]
  BY <1>1 DEF PassInv, Pass!TypeOK, Pass!Kind, Pass!PC
<1>6. pcall'[a].kind = "resolve" /\ pcall'[a].pc = "idle" /\ \A b \in Actor \ {a} : pcall'[b] = pcall[b]
  BY <1>1 DEF PassInv, Pass!TypeOK
<1>7. /\ pres' \in [Actor -> {"none", "ok", "notfound", "error"}] /\ pres'[a] = "error"
      /\ \A b \in Actor \ {a} : pres'[b] = pres[b]
  BY <1>3 DEF PassInv, Pass!TypeOK
<1>8. /\ answer' \in [Actor -> UNION {[S -> Value \cup {Zero}] : S \in SUBSET Pass!AllID}]
      /\ \A b \in Actor : answer'[b] \in {<<>>, answer[b]}
  <2>1. <<>> \in [{} -> Value \cup {Zero}]
    OBVIOUS
  <2>2. <<>> \in UNION {[S -> Value \cup {Zero}] : S \in SUBSET Pass!AllID}
    BY <2>1
  <2> QED
    BY <1>3, <2>2 DEF PassInv, Pass!TypeOK
<1>9. Pass!TypeOK'
  BY <1>2, <1>4, <1>5, <1>7, <1>8 DEF PassInv, Pass!TypeOK
<1>10. BufferInv' /\ Pass!SecretsSurviveClearing'
  BY <1>2, <1>5, <1>6, <1>8, QuietPass DEF Pass!Metadata
<1>11. CommandInv'
  BY <1>2, <1>6, <1>7 DEF PassInv, CommandInv, Pass!AllID
<1>12. Pass!RmTellsTheTruth'
  BY <1>2, <1>6, <1>7 DEF PassInv, Pass!RmTellsTheTruth
<1> QED
  BY <1>9, <1>10, <1>11, <1>12 DEF PassInv

\* A command that returns leaves its call's kind and ID on record.
LEMMA ReturnIs ==
  ASSUME PassInv, NEW a \in Actor, NEW r \in {"ok", "notfound", "error"}, Pass!Return(a, r)
  PROVE  /\ pcall' \in [Actor -> [kind : Pass!Kind, id : Pass!AllID \cup {NoID}, pc : Pass!PC]]
         /\ pcall'[a].kind = pcall[a].kind /\ pcall'[a].pc = "idle"
         /\ \A b \in Actor \ {a} : pcall'[b] = pcall[b] /\ pres'[b] = pres[b]
         /\ pres' \in [Actor -> {"none", "ok", "notfound", "error"}] /\ pres'[a] = r
<1>1. pcall' = [pcall EXCEPT ![a] = [@ EXCEPT !.pc = "idle"]] /\ pres' = [pres EXCEPT ![a] = r]
  BY DEF Pass!Return
<1>2. pcall \in [Actor -> [kind : Pass!Kind, id : Pass!AllID \cup {NoID}, pc : Pass!PC]]
  BY DEF PassInv, Pass!TypeOK
<1>3. pcall[a] \in [kind : Pass!Kind, id : Pass!AllID \cup {NoID}, pc : Pass!PC]
  BY <1>2
<1>4. [pcall[a] EXCEPT !.pc = "idle"] \in [kind : Pass!Kind, id : Pass!AllID \cup {NoID}, pc : Pass!PC]
  BY <1>3 DEF Pass!PC
<1> QED
  BY <1>1, <1>2, <1>3, <1>4 DEF PassInv, Pass!TypeOK

\* A call that returns without touching keychain, memory or answer.
LEMMA QuietReturn ==
  ASSUME PassInv, NEW a \in Actor, NEW r \in {"ok", "notfound", "error"}, Pass!Return(a, r),
         UNCHANGED <<keychain, heap, value, ptodo, failed, left, answer, pcalls>>,
         pcall[a].kind \in {"rm", "rmall"} /\ r = "ok" => left[a] = {}
  PROVE  PassInv'
<1>1. /\ pcall' \in [Actor -> [kind : Pass!Kind, id : Pass!AllID \cup {NoID}, pc : Pass!PC]]
      /\ pcall'[a].kind = pcall[a].kind /\ pcall'[a].pc = "idle"
      /\ \A b \in Actor \ {a} : pcall'[b] = pcall[b] /\ pres'[b] = pres[b]
      /\ pres' \in [Actor -> {"none", "ok", "notfound", "error"}] /\ pres'[a] = r
  BY ReturnIs
<1>2. Pass!TypeOK'
  BY <1>1 DEF PassInv, Pass!TypeOK
<1>3. BufferInv' /\ Pass!SecretsSurviveClearing'
  BY <1>1, QuietPass DEF Pass!Metadata
<1>4. CommandInv'
  BY <1>1 DEF PassInv, CommandInv, Pass!AllID
<1>5. Pass!RmTellsTheTruth'
  BY <1>1 DEF PassInv, Pass!RmTellsTheTruth
<1> QED
  BY <1>2, <1>3, <1>4, <1>5 DEF PassInv

\* kc.Save and kc.Upsert store what Marshal returned before it is zeroed.
LEMMA SaveKeeps ==
  ASSUME PassInv, NEW a \in Actor, Pass!Save(a)
  PROVE  PassInv'
<1> DEFINE i == pcall[a].id
           Buffers == [raw : Value \cup {Zero}, own : Value \cup {Zero}]
           c == [heap[a] EXCEPT ![i]["own"] = Zero]
<1>1. i \in Pass!AllID /\ heap[a][i].own \in Value /\ value[a][i] = "own"
  BY DEF Pass!Save, PassInv, BufferInv
<1>2. heap[a] \in [Pass!AllID -> Buffers] /\ heap[a][i] \in Buffers
  BY <1>1 DEF PassInv, Pass!TypeOK
<1>3. c \in [Pass!AllID -> Buffers]
  BY <1>1, <1>2
<1>4. heap' = heap \/ heap' = [heap EXCEPT ![a] = c]
  BY <1>1 DEF Pass!Save, Pass!Clear
<1>5. PICK r \in {"ok", "error"} : Pass!Return(a, r)
  BY DEF Pass!Save
<1>6. \/ keychain' = keychain
      \/ keychain' = [keychain EXCEPT ![i] = [val |-> heap[a][i].own, meta |-> pcall[a].pc]]
  <2>1. Pass!Marshal(heap[a], value[a], i) = heap[a][i].own
    BY <1>1 DEF Pass!Marshal
  <2> QED
    BY <2>1 DEF Pass!Save
<1>7. UNCHANGED <<value, ptodo, failed, left, answer, pcalls>>
  BY DEF Pass!Save
<1>8. pcall[a].kind \in {"set", "upsert"} /\ pcall[a].pc \in Pass!Metadata
  BY DEF Pass!Save
<1>9. /\ pcall' \in [Actor -> [kind : Pass!Kind, id : Pass!AllID \cup {NoID}, pc : Pass!PC]]
      /\ pcall'[a].kind = pcall[a].kind /\ pcall'[a].pc = "idle"
      /\ \A b \in Actor \ {a} : pcall'[b] = pcall[b] /\ pres'[b] = pres[b]
      /\ pres' \in [Actor -> {"none", "ok", "notfound", "error"}] /\ pres'[a] = r
  BY <1>5, ReturnIs
<1>10. heap' \in [Actor -> [Pass!AllID -> Buffers]] /\ \A b \in Actor \ {a} : heap'[b] = heap[b]
  <2>1. heap \in [Actor -> [Pass!AllID -> Buffers]]
    BY DEF PassInv, Pass!TypeOK
  <2> HIDE DEF c, Buffers
  <2> QED
    BY <1>3, <1>4, <2>1
<1> DEFINE new == [val |-> heap[a][i].own, meta |-> pcall[a].pc]
<1>11. new \in Pass!Stored /\ new.val \in Value
  BY <1>1, <1>8 DEF Pass!Stored
<1> HIDE DEF c, new
<1>12. keychain' = keychain \/ keychain' = [keychain EXCEPT ![i] = new]
  BY <1>6 DEF new
<1> HIDE DEF i
<1>13. keychain \in [Pass!AllID -> Pass!Stored \cup {Absent}]
  BY DEF PassInv, Pass!TypeOK
<1>14. keychain' \in [Pass!AllID -> Pass!Stored \cup {Absent}]
  BY <1>1, <1>11, <1>12, <1>13
<1>15. \A j \in Pass!AllID : keychain'[j] # Absent => keychain'[j].val \in Value
  BY <1>1, <1>11, <1>12, <1>13 DEF PassInv, BufferInv
<1>16. Pass!TypeOK'
  BY <1>7, <1>9, <1>10, <1>14 DEF PassInv, Pass!TypeOK
<1>17. BufferInv'
  <2>1. ASSUME NEW b \in Actor, pcall'[b].pc \in Pass!Metadata
        PROVE  pcall'[b].id \in Pass!AllID /\ heap'[b][pcall'[b].id].own \in Value
    <3>1. b # a
      BY <1>9, <2>1 DEF Pass!Metadata
    <3> QED
      BY <1>9, <1>10, <2>1, <3>1 DEF PassInv, BufferInv
  <2> QED
    BY <1>7, <1>15, <2>1 DEF PassInv, BufferInv, Pass!AllID, Pass!Metadata
<1>18. CommandInv'
  BY <1>7, <1>9 DEF PassInv, CommandInv, Pass!AllID
<1>19. Pass!SecretsSurviveClearing'
  <2>1. Zero \notin Value
    BY PassAssumed DEF Pass!PassAssumption
  <2> QED
    BY <1>7, <1>15, <2>1 DEF PassInv, Pass!SecretsSurviveClearing, Pass!AllID
<1>20. Pass!RmTellsTheTruth'
  BY <1>7, <1>8, <1>9 DEF PassInv, Pass!RmTellsTheTruth
<1> QED
  BY <1>16, <1>17, <1>18, <1>19, <1>20 DEF PassInv

\* rm, its --all, get and ls begin.
LEMMA BeginsKeep ==
  ASSUME PassInv, NEW a \in Actor,
         \/ \E S \in SUBSET Pass!AllID : Pass!Rm(a, S)
         \/ Pass!RmAll(a)
         \/ \E i \in Pass!AllID : Pass!Get(a, i)
         \/ Pass!Ls(a)
  PROVE  PassInv'
<1>1. PICK k \in {"rm", "rmall", "get", "ls"}, i \in Pass!AllID \cup {NoID},
           l \in {"list", "delete", "read"} :
        /\ Pass!Begin(a, k, i, l)
        /\ l = "read" => k = "ls" \/ (k = "get" /\ i \in Pass!AllID)
        /\ l = "delete" => k = "rm"
  <2>1. ASSUME NEW S \in SUBSET Pass!AllID, Pass!Rm(a, S)
        PROVE  Pass!Begin(a, "rm", NoID, "delete")
    BY <2>1 DEF Pass!Rm
  <2>2. Pass!RmAll(a) => Pass!Begin(a, "rmall", NoID, "list")
    BY DEF Pass!RmAll
  <2>3. ASSUME NEW i \in Pass!AllID, Pass!Get(a, i) PROVE Pass!Begin(a, "get", i, "read")
    BY <2>3 DEF Pass!Get
  <2>4. Pass!Ls(a) => Pass!Begin(a, "ls", NoID, "read")
    BY DEF Pass!Ls
  <2> QED
    BY <2>1, <2>2, <2>3, <2>4
<1>2. k \in Pass!Kind /\ l \in Pass!PC /\ l \notin Pass!Metadata
  BY DEF Pass!Kind, Pass!PC, Pass!Metadata
<1>3. /\ pcall' \in [Actor -> [kind : Pass!Kind, id : Pass!AllID \cup {NoID}, pc : Pass!PC]]
      /\ pcall'[a] = [kind |-> k, id |-> i, pc |-> l]
      /\ \A b \in Actor \ {a} : pcall'[b] = pcall[b] /\ pres'[b] = pres[b]
      /\ answer' \in [Actor -> UNION {[S -> Value \cup {Zero}] : S \in SUBSET Pass!AllID}]
      /\ \A b \in Actor : answer'[b] \in {<<>>, answer[b]}
      /\ pres' \in [Actor -> {"none", "ok", "notfound", "error"}] /\ pres'[a] = "none"
      /\ pcalls' \in 0..MaxPassCalls
  BY <1>1, <1>2, BeginKeeps
<1>4. UNCHANGED <<keychain, heap, value>>
  BY DEF Pass!Rm, Pass!RmAll, Pass!Get, Pass!Ls
<1>5. /\ ptodo' \in [Actor -> SUBSET Pass!AllID] /\ left' \in [Actor -> SUBSET Pass!AllID]
      /\ failed' \in [Actor -> BOOLEAN]
      /\ \A b \in Actor \ {a} : ptodo'[b] = ptodo[b] /\ left'[b] = left[b] /\ failed'[b] = failed[b]
  <2>1. /\ ptodo \in [Actor -> SUBSET Pass!AllID] /\ left \in [Actor -> SUBSET Pass!AllID]
        /\ failed \in [Actor -> BOOLEAN]
    BY DEF PassInv, Pass!TypeOK
  <2>2. \E S \in SUBSET Pass!AllID :
           ptodo' \in {ptodo, [ptodo EXCEPT ![a] = S]} /\ left' \in {left, [left EXCEPT ![a] = S]}
    BY DEF Pass!Rm, Pass!RmAll, Pass!Get, Pass!Ls
  <2>3. failed' \in {failed, [failed EXCEPT ![a] = FALSE]}
    BY Zenon DEF Pass!Rm, Pass!RmAll, Pass!Get, Pass!Ls
  <2>4. failed' \in [Actor -> BOOLEAN] /\ \A b \in Actor \ {a} : failed'[b] = failed[b]
    BY <2>1, <2>3
  <2> QED
    BY <2>1, <2>2, <2>4
<1>6. l = "delete" => left'[a] = ptodo'[a]
  <2> SUFFICES ASSUME l = "delete" PROVE left'[a] = ptodo'[a]
    OBVIOUS
  <2>1. pcall'[a].kind = "rm"
    BY <1>1, <1>3
  <2>2. PICK S \in SUBSET Pass!AllID : Pass!Rm(a, S)
    <3>1. Pass!RmAll(a) \/ (\E j \in Pass!AllID : Pass!Get(a, j)) \/ Pass!Ls(a) => pcall'[a].kind # "rm"
      BY DEF Pass!RmAll, Pass!Get, Pass!Ls, Pass!Begin, PassInv, Pass!TypeOK
    <3> QED
      BY <2>1, <3>1
  <2> QED
    BY <2>2 DEF Pass!Rm, PassInv, Pass!TypeOK
<1>7. Pass!TypeOK'
  BY <1>3, <1>4, <1>5 DEF PassInv, Pass!TypeOK
<1>8. BufferInv' /\ Pass!SecretsSurviveClearing'
  BY <1>2, <1>3, <1>4, QuietPass
<1>9. CommandInv'
  BY <1>1, <1>3, <1>5, <1>6 DEF PassInv, CommandInv, Pass!AllID
<1>10. Pass!RmTellsTheTruth'
  BY <1>3, <1>5 DEF PassInv, Pass!RmTellsTheTruth
<1> QED
  BY <1>7, <1>8, <1>9, <1>10 DEF PassInv

\* rm works through its names: what it has not deleted is still to do, or a
\* failure is on record.
LEMMA RmKeeps ==
  ASSUME PassInv, NEW a \in Actor,
         Pass!RmLists(a) \/ Pass!RmReturns(a) \/ \E i \in Pass!AllID : Pass!RmDeletes(a, i)
  PROVE  PassInv'
<1>1. CASE Pass!RmReturns(a)
  <2>1. PICK r \in {"ok", "error"} : Pass!Return(a, r) /\ (r = "ok" => ~ failed[a])
    BY <1>1 DEF Pass!RmReturns
  <2>2. pcall[a].pc = "delete" /\ ptodo[a] = {}
    BY <1>1 DEF Pass!RmReturns
  <2>3. r = "ok" => left[a] = {}
    BY <2>1, <2>2 DEF PassInv, CommandInv
  <2>4. UNCHANGED <<keychain, heap, value, ptodo, failed, left, answer, pcalls>>
    BY <1>1 DEF Pass!RmReturns
  <2> QED
    BY <2>1, <2>3, <2>4, QuietReturn
<1>2. CASE Pass!RmLists(a) /\ Pass!Return(a, "error") /\ UNCHANGED <<ptodo, left>>
  <2>1. UNCHANGED <<keychain, heap, value, ptodo, failed, left, answer, pcalls>>
    BY <1>2 DEF Pass!RmLists
  <2> QED
    BY <1>2, <2>1, QuietReturn
<1>3. CASE /\ Pass!RmLists(a)
           /\ ptodo' = [ptodo EXCEPT ![a] = Pass!Present]
           /\ pcall' = [pcall EXCEPT ![a].pc = "delete"]
           /\ UNCHANGED pres
           /\ left' = [left EXCEPT ![a] = Pass!Present]
  <2>1. UNCHANGED <<keychain, heap, value, failed, answer, pcalls>>
    BY <1>3 DEF Pass!RmLists
  <2>2. pcall[a].kind = "rmall" /\ pcall[a].pc = "list"
    BY <1>3 DEF Pass!RmLists
  <2>3. pcall' \in [Actor -> [kind : Pass!Kind, id : Pass!AllID \cup {NoID}, pc : Pass!PC]]
    <3>1. pcall[a] \in [kind : Pass!Kind, id : Pass!AllID \cup {NoID}, pc : Pass!PC]
      BY DEF PassInv, Pass!TypeOK
    <3>2. [pcall[a] EXCEPT !.pc = "delete"] \in
            [kind : Pass!Kind, id : Pass!AllID \cup {NoID}, pc : Pass!PC]
      BY <3>1 DEF Pass!PC
    <3>3. pcall' = [pcall EXCEPT ![a] = [pcall[a] EXCEPT !.pc = "delete"]]
      BY <1>3
    <3> QED
      BY <3>2, <3>3 DEF PassInv, Pass!TypeOK
  <2>4. pcall'[a].pc = "delete" /\ \A b \in Actor \ {a} : pcall'[b] = pcall[b]
    BY <1>3 DEF PassInv, Pass!TypeOK
  <2>5. Pass!Present \in SUBSET Pass!AllID
    BY DEF Pass!Present
  <2>6. /\ ptodo' \in [Actor -> SUBSET Pass!AllID] /\ left' \in [Actor -> SUBSET Pass!AllID]
        /\ left'[a] = ptodo'[a]
        /\ \A b \in Actor \ {a} : ptodo'[b] = ptodo[b] /\ left'[b] = left[b]
    BY <1>3, <2>5 DEF PassInv, Pass!TypeOK
  <2>7. pres' = pres /\ pres[a] = "none"
    BY <1>3, <2>2 DEF PassInv, CommandInv
  <2>8. Pass!TypeOK'
    BY <2>1, <2>3, <2>6, <2>7 DEF PassInv, Pass!TypeOK
  <2>9. BufferInv' /\ Pass!SecretsSurviveClearing'
    BY <2>1, <2>3, <2>4, QuietPass DEF Pass!Metadata
  <2>10. CommandInv'
    BY <2>1, <2>4, <2>6, <2>7 DEF PassInv, CommandInv, Pass!AllID
  <2>11. Pass!RmTellsTheTruth'
    BY <2>4, <2>6, <2>7 DEF PassInv, Pass!RmTellsTheTruth
  <2> QED
    BY <2>8, <2>9, <2>10, <2>11 DEF PassInv
<1>4. ASSUME NEW i \in Pass!AllID, Pass!RmDeletes(a, i) PROVE PassInv'
  <2>1. UNCHANGED <<heap, value, pcall, answer, pres, pcalls>>
    BY <1>4 DEF Pass!RmDeletes
  <2>2. pcall[a].pc = "delete" /\ pres[a] = "none"
    BY <1>4 DEF Pass!RmDeletes, PassInv, CommandInv
  <2>3. /\ ptodo' = [ptodo EXCEPT ![a] = @ \ {i}]
        /\ \/ /\ keychain' = [keychain EXCEPT ![i] = Absent]
              /\ left' = [left EXCEPT ![a] = @ \ {i}] /\ failed' = failed
           \/ failed' = [failed EXCEPT ![a] = TRUE] /\ keychain' = keychain /\ left' = left
    BY <1>4 DEF Pass!RmDeletes
  <2>4. keychain \in [Pass!AllID -> Pass!Stored \cup {Absent}]
    BY DEF PassInv, Pass!TypeOK
  <2>5. /\ keychain' \in [Pass!AllID -> Pass!Stored \cup {Absent}]
        /\ \A j \in Pass!AllID : keychain'[j] # Absent => keychain'[j] = keychain[j]
    BY <2>3, <2>4
  <2>6. /\ ptodo' \in [Actor -> SUBSET Pass!AllID] /\ left' \in [Actor -> SUBSET Pass!AllID]
        /\ \A b \in Actor \ {a} : ptodo'[b] = ptodo[b] /\ left'[b] = left[b]
    <3>1. left' \in {left, [left EXCEPT ![a] = @ \ {i}]}
      BY <2>3, Zenon
    <3>2. ptodo \in [Actor -> SUBSET Pass!AllID] /\ left \in [Actor -> SUBSET Pass!AllID]
      BY DEF PassInv, Pass!TypeOK
    <3>3. ptodo' = [ptodo EXCEPT ![a] = @ \ {i}]
      BY <2>3
    <3> QED
      BY <3>1, <3>2, <3>3
  <2>7. failed' \in [Actor -> BOOLEAN] /\ \A b \in Actor \ {a} : failed'[b] = failed[b]
    <3>1. failed \in [Actor -> BOOLEAN]
      BY DEF PassInv, Pass!TypeOK
    <3>2. failed' \in {failed, [failed EXCEPT ![a] = TRUE]}
      BY <2>3, Zenon
    <3> QED
      BY <3>1, <3>2
  <2>8. ~ failed'[a] => left'[a] \subseteq ptodo'[a]
    <3>1. failed \in [Actor -> BOOLEAN] /\ left \in [Actor -> SUBSET Pass!AllID]
            /\ ptodo \in [Actor -> SUBSET Pass!AllID]
      BY DEF PassInv, Pass!TypeOK
    <3>2. CASE failed' = [failed EXCEPT ![a] = TRUE]
      BY <3>1, <3>2
    <3>3. CASE left' = [left EXCEPT ![a] = @ \ {i}] /\ failed' = failed
      <4>1. ~ failed[a] => left[a] \subseteq ptodo[a]
        BY <2>2 DEF PassInv, CommandInv
      <4> QED
        BY <2>3, <3>1, <3>3, <4>1
    <3> QED
      BY <2>3, <3>2, <3>3
  <2>9. Pass!TypeOK'
    BY <2>1, <2>5, <2>6, <2>7 DEF PassInv, Pass!TypeOK
  <2>10. BufferInv'
    BY <2>1, <2>5 DEF PassInv, BufferInv, Pass!AllID, Pass!Metadata
  <2>11. CommandInv'
    BY <2>1, <2>6, <2>7, <2>8 DEF PassInv, CommandInv, Pass!AllID
  <2>12. Pass!SecretsSurviveClearing'
    BY <2>1, <2>5 DEF PassInv, Pass!SecretsSurviveClearing, Pass!AllID
  <2>13. Pass!RmTellsTheTruth'
    BY <2>1, <2>2, <2>6 DEF PassInv, Pass!RmTellsTheTruth
  <2> QED
    BY <2>9, <2>10, <2>11, <2>12, <2>13 DEF PassInv
<1> QED
  BY <1>1, <1>2, <1>3, <1>4 DEF Pass!RmLists

\* What get and the plugin load: the values of a process are all its own
\* buffers' afterwards, and the buffers of what was loaded hold the secrets.
LEMMA LoadKeeps ==
  ASSUME PassInv, NEW a \in Actor, NEW S \in SUBSET Pass!Present,
         heap' = [heap EXCEPT ![a] = Pass!LoadAll(a, S).heap],
         value' = [value EXCEPT ![a] = Pass!LoadAll(a, S).value],
         UNCHANGED keychain,
         pcall'[a].pc \notin Pass!Metadata,
         \A b \in Actor \ {a} : pcall'[b] = pcall[b]
  PROVE  /\ heap' \in
              [Actor -> [Pass!AllID -> [raw : Value \cup {Zero}, own : Value \cup {Zero}]]]
         /\ value' \in [Actor -> [Pass!AllID -> {"raw", "own"}]]
         /\ BufferInv'
         /\ \A i \in S : Pass!Marshal(Pass!LoadAll(a, S).heap, Pass!LoadAll(a, S).value, i) \in Value
<1> DEFINE h == Pass!LoadAll(a, S).heap
           v == Pass!LoadAll(a, S).value
           Buffers == [raw : Value \cup {Zero}, own : Value \cup {Zero}]
<1>1. S \in SUBSET Pass!AllID /\ \A i \in S : keychain[i] # Absent /\ keychain[i].val \in Value
  BY DEF Pass!Present, PassInv, BufferInv
<1>2. /\ h \in [Pass!AllID -> Buffers]
      /\ v \in [Pass!AllID -> {"raw", "own"}]
      /\ \A i \in Pass!AllID : v[i] \in {"own", value[a][i]}
      /\ \A i \in S : v[i] = "own" /\ h[i].own = keychain[i].val
      /\ \A i \in Pass!AllID \ S : h[i] = heap[a][i]
  BY <1>1, LoadAllIs DEF PassInv
<1>3. \A i \in S : Pass!Marshal(h, v, i) \in Value
  BY <1>1, <1>2 DEF Pass!Marshal
<1> HIDE DEF h, v, Buffers
<1>4. heap \in [Actor -> [Pass!AllID -> Buffers]] /\ value \in [Actor -> [Pass!AllID -> {"raw", "own"}]]
  BY DEF PassInv, Pass!TypeOK, Buffers
<1>5. heap' = [heap EXCEPT ![a] = h] /\ value' = [value EXCEPT ![a] = v]
  BY DEF h, v
<1>6. /\ heap' \in [Actor -> [Pass!AllID -> Buffers]]
      /\ value' \in [Actor -> [Pass!AllID -> {"raw", "own"}]]
  BY <1>2, <1>4, <1>5
<1>7. \A b \in Actor : \A i \in Pass!AllID : value'[b][i] = "own"
  BY <1>2, <1>4, <1>5 DEF PassInv, BufferInv
<1>8. \A b \in Actor \ {a} : heap'[b] = heap[b]
  BY <1>4, <1>5
<1>9. BufferInv'
  <2>1. ASSUME NEW b \in Actor, pcall'[b].pc \in Pass!Metadata
        PROVE  pcall'[b].id \in Pass!AllID /\ heap'[b][pcall'[b].id].own \in Value
    BY <1>8, <2>1 DEF PassInv, BufferInv
  <2> QED
    BY <1>7, <2>1 DEF PassInv, BufferInv, Pass!AllID, Pass!Metadata
<1> QED
  BY <1>3, <1>6, <1>9 DEF h, v, Buffers

\* get and ls return what they loaded.
LEMMA ReadKeeps ==
  ASSUME PassInv, NEW a \in Actor, Pass!Read(a)
  PROVE  PassInv'
<1>1. pcall[a].pc = "read" /\ pres[a] = "none"
  BY DEF Pass!Read, PassInv, CommandInv
<1>2. UNCHANGED <<keychain, ptodo, failed, left, answer, pcalls>>
  BY DEF Pass!Read
<1>3. pcall[a].kind \notin {"rm", "rmall"}
  BY <1>1 DEF PassInv, CommandInv
<1>4. CASE UNCHANGED <<heap, value>>
  <2>1. PICK r \in {"ok", "notfound", "error"} : Pass!Return(a, r)
    BY DEF Pass!Read
  <2> QED
    BY <1>2, <1>3, <1>4, <2>1, QuietReturn
<1>5. CASE ~ UNCHANGED <<heap, value>>
  <2> DEFINE i == pcall[a].id
  <2>1. /\ pcall[a].kind # "ls" /\ keychain[i] # Absent
        /\ Pass!Return(a, "ok")
        /\ heap' = [heap EXCEPT ![a] = Pass!LoadAll(a, {i}).heap]
        /\ value' = [value EXCEPT ![a] = Pass!LoadAll(a, {i}).value]
    BY <1>5 DEF Pass!Read
  <2>2. {i} \in SUBSET Pass!Present
    BY <1>1, <2>1 DEF PassInv, CommandInv, Pass!Present
  <2>3. /\ pcall' \in [Actor -> [kind : Pass!Kind, id : Pass!AllID \cup {NoID}, pc : Pass!PC]]
        /\ pcall'[a].kind = pcall[a].kind /\ pcall'[a].pc = "idle"
        /\ \A b \in Actor \ {a} : pcall'[b] = pcall[b] /\ pres'[b] = pres[b]
        /\ pres' \in [Actor -> {"none", "ok", "notfound", "error"}] /\ pres'[a] = "ok"
    BY <2>1, ReturnIs
  <2>4. /\ heap' \in
             [Actor -> [Pass!AllID -> [raw : Value \cup {Zero}, own : Value \cup {Zero}]]]
        /\ value' \in [Actor -> [Pass!AllID -> {"raw", "own"}]]
        /\ BufferInv'
    <3> HIDE DEF i
    <3>1. pcall'[a].pc \notin Pass!Metadata
      BY <2>3 DEF Pass!Metadata
    <3> QED
      BY <1>2, <2>1, <2>2, <2>3, <3>1, LoadKeeps
  <2>5. Pass!TypeOK'
    BY <1>2, <2>3, <2>4 DEF PassInv, Pass!TypeOK
  <2>6. CommandInv'
    BY <1>2, <2>3 DEF PassInv, CommandInv, Pass!AllID
  <2>7. Pass!SecretsSurviveClearing'
    BY <1>2 DEF PassInv, Pass!SecretsSurviveClearing, Pass!AllID
  <2>8. Pass!RmTellsTheTruth'
    BY <1>2, <1>3, <2>3 DEF PassInv, Pass!RmTellsTheTruth
  <2> QED
    BY <2>4, <2>5, <2>6, <2>7, <2>8 DEF PassInv
<1> QED
  BY <1>4, <1>5

\* The plugin's GetSecrets returns what it loaded and the realm allows.
LEMMA GetSecretsKeeps ==
  ASSUME PassInv, NEW a \in Actor, NEW S \in SUBSET Pass!AllID, Pass!GetSecrets(a, S)
  PROVE  PassInv'
<1> DEFINE M == S \cap Pass!Present
           h == Pass!LoadAll(a, M).heap
           v == Pass!LoadAll(a, M).value
           A == [i \in Pass!Visible(M) |-> Pass!Marshal(h, v, i)]
<1>1. UNCHANGED <<keychain, ptodo, failed, left>>
  BY DEF Pass!GetSecrets
<1>2. pcall' = [pcall EXCEPT ![a] = [kind |-> "resolve", id |-> NoID, pc |-> "idle"]]
  BY DEF Pass!GetSecrets
<1>3. heap' = [heap EXCEPT ![a] = h] /\ value' = [value EXCEPT ![a] = v]
  BY DEF Pass!GetSecrets
<1>4. answer' = [answer EXCEPT ![a] = A]
  BY DEF Pass!GetSecrets
<1>5. \E r \in {"ok", "notfound"} : pres' = [pres EXCEPT ![a] = r]
  BY DEF Pass!GetSecrets
<1>6. pcalls' \in 0..MaxPassCalls
  BY PassAssumed DEF Pass!GetSecrets, Pass!PassAssumption, PassInv, Pass!TypeOK
<1>7. pcall' \in [Actor -> [kind : Pass!Kind, id : Pass!AllID \cup {NoID}, pc : Pass!PC]]
  BY <1>2 DEF PassInv, Pass!TypeOK, Pass!Kind, Pass!PC
<1>8. pcall'[a].kind = "resolve" /\ pcall'[a].pc = "idle" /\ \A b \in Actor \ {a} : pcall'[b] = pcall[b]
  BY <1>2 DEF PassInv, Pass!TypeOK
<1>9. /\ pres' \in [Actor -> {"none", "ok", "notfound", "error"}]
      /\ \A b \in Actor \ {a} : pres'[b] = pres[b]
  BY <1>5 DEF PassInv, Pass!TypeOK
<1>10. M \in SUBSET Pass!Present /\ pcall'[a].pc \notin Pass!Metadata
  BY <1>8 DEF Pass!Metadata
<1>11. /\ heap' \in
            [Actor -> [Pass!AllID -> [raw : Value \cup {Zero}, own : Value \cup {Zero}]]]
       /\ value' \in [Actor -> [Pass!AllID -> {"raw", "own"}]]
       /\ BufferInv'
       /\ \A i \in M : Pass!Marshal(h, v, i) \in Value
  <2> HIDE DEF M
  <2> QED
    BY <1>1, <1>3, <1>8, <1>10, LoadKeeps
<1>12. Pass!Visible(M) \subseteq M /\ Pass!Visible(M) \cap Reserved = {} /\ M \subseteq Pass!AllID
  BY DEF Pass!Visible
<1> HIDE DEF h, v, M
<1>13. A \in [Pass!Visible(M) -> Value]
  BY <1>11, <1>12
<1>14. A \in UNION {[T -> Value \cup {Zero}] : T \in SUBSET Pass!AllID}
  <2>1. A \in [Pass!Visible(M) -> Value \cup {Zero}] /\ Pass!Visible(M) \in SUBSET Pass!AllID
    BY <1>12, <1>13
  <2> QED
    BY <2>1
<1> HIDE DEF A
<1>15. answer' \in [Actor -> UNION {[T -> Value \cup {Zero}] : T \in SUBSET Pass!AllID}]
  BY <1>4, <1>14 DEF PassInv, Pass!TypeOK
<1>16. answer'[a] = A /\ \A b \in Actor \ {a} : answer'[b] = answer[b]
  BY <1>4 DEF PassInv, Pass!TypeOK
<1>17. Pass!TypeOK'
  BY <1>1, <1>6, <1>7, <1>9, <1>11, <1>15 DEF PassInv, Pass!TypeOK
<1>18. CommandInv'
  BY <1>1, <1>8, <1>9 DEF PassInv, CommandInv, Pass!AllID
<1>19. Pass!SecretsSurviveClearing'
  <2>1. \A i \in DOMAIN answer'[a] : answer'[a][i] \in Value /\ i \notin Reserved
    BY <1>12, <1>13, <1>16
  <2> QED
    BY <1>1, <1>16, <2>1 DEF PassInv, Pass!SecretsSurviveClearing, Pass!AllID
<1>20. Pass!RmTellsTheTruth'
  BY <1>1, <1>8, <1>9 DEF PassInv, Pass!RmTellsTheTruth
<1> QED
  BY <1>11, <1>17, <1>18, <1>19, <1>20 DEF PassInv

\* The pass plugin's invariant holds in the sum.
LEMMA PassInvariant == MCSpec => []PassInv
<1>1. MCInit => PassInv
  <2> SUFFICES ASSUME Pass!Init PROVE PassInv
    BY DEF MCInit
  <2>1. <<>> \in UNION {[S -> Value \cup {Zero}] : S \in SUBSET Pass!AllID}
    <3>1. <<>> \in [{} -> Value \cup {Zero}] /\ {} \in SUBSET Pass!AllID
      OBVIOUS
    <3> QED
      BY <3>1
  <2>2. answer \in [Actor -> UNION {[S -> Value \cup {Zero}] : S \in SUBSET Pass!AllID}]
    BY <2>1 DEF Pass!Init
  <2>3. pcalls \in 0..MaxPassCalls
    BY PassAssumed DEF Pass!Init, Pass!PassAssumption
  <2>4. Pass!TypeOK
    BY <2>2, <2>3 DEF Pass!Init, Pass!TypeOK, Pass!Idle, Pass!Kind, Pass!PC
  <2>5. BufferInv
    BY DEF Pass!Init, BufferInv, Pass!Idle, Pass!Metadata
  <2>6. CommandInv
    BY DEF Pass!Init, CommandInv, Pass!Idle
  <2>7. Pass!SecretsSurviveClearing /\ Pass!RmTellsTheTruth
    BY DEF Pass!Init, Pass!SecretsSurviveClearing, Pass!RmTellsTheTruth
  <2> QED
    BY <2>4, <2>5, <2>6, <2>7 DEF PassInv
<1>2. PassInv /\ Pass!Next => PassInv'
  <2> SUFFICES ASSUME PassInv, Pass!Next PROVE PassInv'
    OBVIOUS
  <2>1. PICK a \in Actor :
          \/ \E i \in Pass!AllID, v \in Value, s \in {"arg", "raw", "json", "jsonmeta"},
                f, o \in BOOLEAN : Pass!Set(a, i, v, s, f, o)
          \/ \E i \in Pass!AllID : Pass!SetFails(a, i) \/ Pass!Get(a, i) \/ Pass!RmDeletes(a, i)
          \/ Pass!Save(a)
          \/ \E S \in SUBSET Pass!AllID : Pass!Rm(a, S) \/ Pass!GetSecrets(a, S)
          \/ Pass!RmAll(a) \/ Pass!RmLists(a) \/ Pass!RmReturns(a)
          \/ Pass!Ls(a) \/ Pass!Read(a) \/ Pass!FilterFails(a)
    BY DEF Pass!Next
  <2>2. ASSUME NEW i \in Pass!AllID, NEW v \in Value, NEW s, NEW f \in BOOLEAN, NEW o \in BOOLEAN,
               Pass!Set(a, i, v, s, f, o)
        PROVE  PassInv'
    BY <2>2, SetKeeps
  <2>3. ASSUME NEW i \in Pass!AllID,
               Pass!SetFails(a, i) \/ Pass!Get(a, i) \/ Pass!RmDeletes(a, i)
        PROVE  PassInv'
    BY <2>3, SetFailsKeeps, BeginsKeep, RmKeeps
  <2>4. ASSUME NEW S \in SUBSET Pass!AllID, Pass!Rm(a, S) \/ Pass!GetSecrets(a, S)
        PROVE  PassInv'
    BY <2>4, BeginsKeep, GetSecretsKeeps
  <2>5. ASSUME \/ Pass!Save(a) \/ Pass!RmAll(a) \/ Pass!RmLists(a) \/ Pass!RmReturns(a)
               \/ Pass!Ls(a) \/ Pass!Read(a) \/ Pass!FilterFails(a)
        PROVE  PassInv'
    BY <2>5, FilterFailsKeeps, SaveKeeps, BeginsKeep, RmKeeps, ReadKeeps
  <2> QED
    BY <2>1, <2>2, <2>3, <2>4, <2>5
<1>3. PassInv /\ UNCHANGED <<keychain, heap, value, pcall, ptodo, failed, left, answer, pres, pcalls>>
        => PassInv'
  <2> SUFFICES ASSUME PassInv, UNCHANGED <<keychain, heap, value, pcall, ptodo, failed, left,
                                           answer, pres, pcalls>>
               PROVE  PassInv'
    OBVIOUS
  <2>1. Pass!TypeOK'
    BY DEF PassInv, Pass!TypeOK
  <2>2. BufferInv'
    BY DEF PassInv, BufferInv, Pass!AllID, Pass!Metadata
  <2>3. CommandInv'
    BY DEF PassInv, CommandInv, Pass!AllID
  <2>4. Pass!SecretsSurviveClearing'
    BY DEF PassInv, Pass!SecretsSurviveClearing, Pass!AllID
  <2>5. Pass!RmTellsTheTruth'
    BY DEF PassInv, Pass!RmTellsTheTruth
  <2> QED
    BY <2>1, <2>2, <2>3, <2>4, <2>5 DEF PassInv
<1>4. PassInv /\ [MCNext]_<<system, vars, darwinVars, gkVars, serviceVars, passVars>> => PassInv'
  BY <1>2, <1>3 DEF MCNext, passVars
<1> QED
  BY <1>1, <1>4, PTL DEF MCSpec

\* Marshal and Unmarshal of PassValue copy: although the stores zero the buffers
\* they were given, no zeroed buffer is ever stored or returned; GetSecrets
\* returns nothing of the engine's realm; rm reports success only if every name
\* it was given, or had listed, was deleted.
THEOREM PassKeeps == MCSpec => []PassKeepsSecrets
<1>1. PassInv => PassKeepsSecrets
  BY DEF PassInv, PassKeepsSecrets
<1> QED
  BY <1>1, PassInvariant, PTL

-----------------------------------------------------------------------------
(* The bindings of the macOS Keychain *)

\* The objects of dictionary d that were made so far, and all its objects
\* with the dictionary itself.
Half(d) ==
  {GK!KeyRef(d, k) : k \in DOMAIN attr[d] \ gtodo[d]} \cup
  {GK!ValueRef(d, k) : k \in (DOMAIN attr[d] \ gtodo[d]) \cap GK!Made}
Whole(d) == GK!Contents(d) \cup {GK!DictRef(d)}

\* The objects of S are alive, those of T will be released on the way out,
\* each of them once.
Holds(S, T) == refs = GK!SetToBag(S) /\ deferred = GK!SetToBag(T)

\* What is alive and what is owed, by the place where the call is.
CountInv ==
  /\ gpc = "idle" => Holds({}, {})
  /\ gpc = "convert" =>
       \/ Holds(Half("query"), Half("query")) /\ gtodo["update"] = DOMAIN attr["update"]
       \/ /\ call.kind = "update" /\ gtodo["query"] = {}
          /\ Holds(Whole("query") \cup Half("update"), {GK!DictRef("query")} \cup Half("update"))
  /\ gpc = "call" =>
       \/ Holds(Whole("query"), {GK!DictRef("query")})
       \/ /\ call.kind = "update"
          /\ Holds(Whole("query") \cup Whole("update"), {GK!DictRef("query"), GK!DictRef("update")})
  /\ gpc = "results" => Holds({GK!ResultRef}, {GK!ResultRef})
  /\ dangling = FALSE

\* The stores New accepts.
Stores == [group : Name \ {""}, name : Name \ {""}, protected : BOOLEAN]

\* A running call has a store with a group and a name, and the Items that
\* store builds for it; what was found matches them.
QueryInv ==
  /\ store \in Stores \cup {NoStore}
  /\ gpc # "idle" =>
       /\ store # NoStore
       /\ call.kind \in GK!Lists <=> call.id = ""
       /\ attr = GK!ItemsOf(call.kind, call.id, call.data)
  /\ gpc = "results" => call.kind # "update"
  /\ gpc # "results" => found = {}
  /\ \A i \in found : GK!Matches(i, attr["query"])

\* The inductive invariant of the bindings.
BindingInv == GK!TypeOK /\ CountInv /\ QueryInv

\* Bags that hold each element once.
LEMMA SetBags ==
  ASSUME NEW S, NEW T
  PROVE  /\ GK!(-)(GK!SetToBag(S), GK!SetToBag(T)) = GK!SetToBag(S \ T)
         /\ S \cap T = {} => GK!(+)(GK!SetToBag(S), GK!SetToBag(T)) = GK!SetToBag(S \cup T)
         /\ GK!\sqsubseteq(GK!SetToBag(T), GK!SetToBag(S)) <=> T \subseteq S
         /\ GK!IsABag(GK!SetToBag(S))
         /\ GK!EmptyBag = GK!SetToBag({})
<1>1. GK!(-)(GK!SetToBag(S), GK!SetToBag(T)) = GK!SetToBag(S \ T)
  BY DEF GK!(-), GK!SetToBag
<1>2. S \cap T = {} => GK!(+)(GK!SetToBag(S), GK!SetToBag(T)) = GK!SetToBag(S \cup T)
  BY DEF GK!(+), GK!SetToBag
<1>3. GK!\sqsubseteq(GK!SetToBag(T), GK!SetToBag(S)) <=> T \subseteq S
  BY DEF GK!\sqsubseteq, GK!SetToBag
<1>4. GK!IsABag(GK!SetToBag(S)) /\ GK!EmptyBag = GK!SetToBag({})
  BY DEF GK!IsABag, GK!SetToBag, GK!EmptyBag
<1> QED
  BY <1>1, <1>2, <1>3, <1>4

\* They are bags.
LEMMA SetIsBag == \A S : GK!IsABag(GK!SetToBag(S))
  BY SetBags

\* Membership in such a bag.
LEMMA InSetBag ==
  ASSUME NEW S, NEW x
  PROVE  GK!BagIn(x, GK!SetToBag(S)) = (x \in S)
  BY DEF GK!BagIn, GK!BagToSet, GK!SetToBag

\* A dictionary retains what the conversion made, then the conversion lets go.
LEMMA Handover ==
  ASSUME NEW S, NEW T, NEW U, T \subseteq S, U \cap S = {}
  PROVE  /\ GK!(-)(GK!(+)(GK!SetToBag(S), GK!SetToBag(T \cup U)), GK!SetToBag(T)) =
              GK!SetToBag(S \cup U)
         /\ GK!\sqsubseteq(GK!SetToBag(T), GK!(+)(GK!SetToBag(S), GK!SetToBag(T)))
         /\ \A x : GK!BagIn(x, GK!(+)(GK!SetToBag(S), GK!SetToBag(T \cup U))) <=> x \in S \cup U
<1>1. GK!(-)(GK!(+)(GK!SetToBag(S), GK!SetToBag(T \cup U)), GK!SetToBag(T)) = GK!SetToBag(S \cup U)
  BY DEF GK!(-), GK!(+), GK!SetToBag
<1>2. GK!\sqsubseteq(GK!SetToBag(T), GK!(+)(GK!SetToBag(S), GK!SetToBag(T)))
  BY DEF GK!\sqsubseteq, GK!(+), GK!SetToBag
<1>3. \A x : GK!BagIn(x, GK!(+)(GK!SetToBag(S), GK!SetToBag(T \cup U))) <=> x \in S \cup U
  BY DEF GK!BagIn, GK!BagToSet, GK!(+), GK!SetToBag
<1> QED
  BY <1>1, <1>2, <1>3

\* The objects of a call are different objects.
LEMMA RefsApart ==
  /\ \A d, e \in GK!Dicts : GK!DictRef(e) \notin GK!Contents(d)
  /\ \A d \in GK!Dicts : GK!ResultRef \notin GK!Contents(d) /\ GK!ResultRef # GK!DictRef(d)
  /\ GK!Contents("query") \cap GK!Contents("update") = {}
  /\ GK!DictRef("query") # GK!DictRef("update")
  /\ \A d \in GK!Dicts : \A x \in GK!Contents(d) : x[1] = d /\ x[3] # "dict"
  /\ \A d \in GK!Dicts : GK!DictRef(d)[3] = "dict"
<1> USE DEF GK!Dicts, GK!Contents, GK!DictRef, GK!ResultRef, GK!KeyRef, GK!ValueRef
<1>1. \A d, e \in GK!Dicts : GK!DictRef(e) \notin GK!Contents(d)
  OBVIOUS
<1>2. \A d \in GK!Dicts : GK!ResultRef \notin GK!Contents(d) /\ GK!ResultRef # GK!DictRef(d)
  OBVIOUS
<1>3. GK!Contents("query") \cap GK!Contents("update") = {}
  OBVIOUS
<1>4. GK!DictRef("query") # GK!DictRef("update")
  OBVIOUS
<1>5. \A d \in GK!Dicts : \A x \in GK!Contents(d) : x[1] = d /\ x[3] # "dict"
  OBVIOUS
<1>6. \A d \in GK!Dicts : GK!DictRef(d)[3] = "dict"
  OBVIOUS
<1> HIDE DEF GK!Dicts, GK!Contents, GK!DictRef, GK!ResultRef, GK!KeyRef, GK!ValueRef
<1> QED
  BY <1>1, <1>2, <1>3, <1>4, <1>5, <1>6

\* Before the first turn of the conversion nothing is made, after the last all.
LEMMA HalfIs ==
  ASSUME NEW d \in GK!Dicts
  PROVE  /\ Half(d) \subseteq GK!Contents(d)
         /\ gtodo[d] = {} => Half(d) = GK!Contents(d)
         /\ gtodo[d] = DOMAIN attr[d] => Half(d) = {}
  BY DEF Half, GK!Contents

\* The deferred calls: a dictionary that goes takes its contents along.
LEMMA AfterDefersIs ==
  ASSUME NEW S, NEW T
  PROVE  GK!AfterDefers(GK!SetToBag(S), GK!SetToBag(T)) =
           GK!SetToBag((S \ T) \ UNION {GK!Contents(d) : d \in
             {e \in GK!Dicts : GK!DictRef(e) \in S /\ GK!DictRef(e) \in T}})
<1> DEFINE E == {e \in GK!Dicts : GK!BagIn(GK!DictRef(e), GK!SetToBag(S)) /\
                                  ~ GK!BagIn(GK!DictRef(e), GK!(-)(GK!SetToBag(S), GK!SetToBag(T)))}
           F == {e \in GK!Dicts : GK!DictRef(e) \in S /\ GK!DictRef(e) \in T}
<1>1. E = F
  <2>1. GK!(-)(GK!SetToBag(S), GK!SetToBag(T)) = GK!SetToBag(S \ T)
    BY SetBags
  <2>2. ASSUME NEW e \in GK!Dicts PROVE e \in E <=> e \in F
    <3>1. GK!BagIn(GK!DictRef(e), GK!SetToBag(S)) <=> GK!DictRef(e) \in S
      BY InSetBag
    <3>2. GK!BagIn(GK!DictRef(e), GK!SetToBag(S \ T)) <=> GK!DictRef(e) \in S \ T
      BY InSetBag
    <3> QED
      BY <2>1, <3>1, <3>2
  <2> QED
    BY <2>2
<1>2. GK!AfterDefers(GK!SetToBag(S), GK!SetToBag(T)) =
        GK!(-)(GK!SetToBag(S \ T), GK!SetToBag(UNION {GK!Contents(d) : d \in E}))
  <2>1. GK!(-)(GK!SetToBag(S), GK!SetToBag(T)) = GK!SetToBag(S \ T)
    BY SetBags
  <2>2. GK!AfterDefers(GK!SetToBag(S), GK!SetToBag(T)) =
          GK!(-)(GK!(-)(GK!SetToBag(S), GK!SetToBag(T)),
                 GK!SetToBag(UNION {GK!Contents(d) : d \in E}))
    BY DEF GK!AfterDefers
  <2> HIDE DEF E
  <2> QED
    BY <2>1, <2>2
<1> HIDE DEF E, F
<1>3. GK!AfterDefers(GK!SetToBag(S), GK!SetToBag(T)) =
        GK!SetToBag((S \ T) \ UNION {GK!Contents(d) : d \in F})
  <2> DEFINE G == UNION {GK!Contents(d) : d \in E}
             R == S \ T
  <2>1. GK!(-)(GK!SetToBag(R), GK!SetToBag(G)) = GK!SetToBag(R \ G)
    <3> HIDE DEF G, R
    <3> QED
      BY SetBags
  <2> QED
    BY <1>1, <1>2, <2>1
<1> QED
  BY <1>3 DEF F

\* Wherever a call is, the deferred calls leave nothing behind, and release
\* nothing that is not there.
LEMMA DefersSettle ==
  ASSUME CountInv, gpc \in {"convert", "call", "results"}
  PROVE  /\ GK!AfterDefers(refs, deferred) = GK!SetToBag({})
         /\ ~ GK!Overreleased(refs, deferred)
<1>1. ASSUME NEW S, NEW T, Holds(S, T), T \subseteq S,
             S \subseteq T \cup UNION {GK!Contents(d) : d \in
               {e \in GK!Dicts : GK!DictRef(e) \in S /\ GK!DictRef(e) \in T}}
      PROVE  GK!AfterDefers(refs, deferred) = GK!SetToBag({}) /\ ~ GK!Overreleased(refs, deferred)
  <2> DEFINE G == UNION {GK!Contents(d) : d \in
               {e \in GK!Dicts : GK!DictRef(e) \in S /\ GK!DictRef(e) \in T}}
  <2>1. refs = GK!SetToBag(S) /\ deferred = GK!SetToBag(T)
    BY <1>1 DEF Holds
  <2>2. GK!AfterDefers(refs, deferred) = GK!SetToBag((S \ T) \ G)
    BY <2>1, AfterDefersIs
  <2>3. (S \ T) \ G = {}
    BY <1>1
  <2>4. ~ GK!Overreleased(refs, deferred)
    BY <1>1, <2>1, SetBags DEF GK!Overreleased
  <2> QED
    BY <2>2, <2>3, <2>4
<1>2. GK!Dicts = {"query", "update"}
  BY DEF GK!Dicts
<1>3. CASE Holds(Half("query"), Half("query"))
  BY <1>1, <1>3
<1>4. CASE Holds(Whole("query") \cup Half("update"), {GK!DictRef("query")} \cup Half("update"))
  BY <1>1, <1>2, <1>4 DEF Whole
<1>5. CASE Holds(Whole("query"), {GK!DictRef("query")})
  BY <1>1, <1>2, <1>5 DEF Whole
<1>6. CASE Holds(Whole("query") \cup Whole("update"), {GK!DictRef("query"), GK!DictRef("update")})
  BY <1>1, <1>2, <1>6 DEF Whole
<1>7. CASE Holds({GK!ResultRef}, {GK!ResultRef})
  BY <1>1, <1>7
<1> QED
  BY <1>3, <1>4, <1>5, <1>6, <1>7 DEF CountInv

\* NewItem has no attributes.
LEMMA NewItemIs == DOMAIN GK!NewItem = {}
<1>1. <<>> \in [{} -> {}]
  OBVIOUS
<1>2. DOMAIN <<>> = {}
  BY <1>1
<1> QED
  BY <1>2 DEF GK!NewItem

\* What a call is called with.
CallIDs == Account \cup {""}
Unnamed(id) == id = ""

\* The query of a call names the store's own service and group, the Keychain its
\* option chose, and the account it was called with.
LEMMA ItemsOfIs ==
  ASSUME store \in Stores, NEW k \in GK!Kinds, NEW id \in CallIDs, NEW b \in GK!Data
  PROVE  /\ DOMAIN GK!ItemsOf(k, id, b) = GK!Dicts
         /\ \A d \in GK!Dicts : DOMAIN GK!ItemsOf(k, id, b)[d] \subseteq GK!Key
         /\ {"service", "accessGroup"} \subseteq DOMAIN GK!ItemsOf(k, id, b)["query"]
         /\ GK!ItemsOf(k, id, b)["query"]["service"] = store.name
         /\ GK!ItemsOf(k, id, b)["query"]["accessGroup"] = store.group
         /\ "dataProtection" \in DOMAIN GK!ItemsOf(k, id, b)["query"] <=> store.protected
         /\ ~ Unnamed(id) =>
              /\ "account" \in DOMAIN GK!ItemsOf(k, id, b)["query"]
              /\ GK!ItemsOf(k, id, b)["query"]["account"] = id
         /\ k = "add" => GK!ItemsOf(k, id, b)["query"]["generic"] = "gob"
<1> USE DEF Stores, CallIDs, Unnamed
<1> DEFINE base == GK!SetMatchLimit(GK!SetSecClass(GK!NewItem), "one")
           service == GK!Set(base, "service", store.name)
           named == GK!Set(service, "accessGroup", store.group)
           placed == IF store.protected THEN GK!Set(named, "dataProtection", "ref") ELSE named
           item1 == IF id = "" THEN placed ELSE GK!Set(placed, "account", id)
           query == GK!ItemsOf(k, id, b)["query"]
<1>1. DOMAIN base = {"class", "limit"}
  <2>1. DOMAIN GK!NewItem = {}
    BY NewItemIs
  <2> QED
    BY <2>1 DEF GK!Set, GK!SetMatchLimit, GK!SetSecClass
<1> HIDE DEF base
<1>2. DOMAIN service = DOMAIN base \cup {"service"} /\ service["service"] = store.name
  BY DEF GK!Set
<1> HIDE DEF service
<1>3. /\ DOMAIN named = DOMAIN service \cup {"accessGroup"}
      /\ named["accessGroup"] = store.group /\ named["service"] = store.name
  BY <1>2 DEF GK!Set
<1> HIDE DEF named
<1>10. /\ DOMAIN placed = DOMAIN named \cup IF store.protected THEN {"dataProtection"} ELSE {}
       /\ placed["accessGroup"] = store.group /\ placed["service"] = store.name
  BY <1>1, <1>2, <1>3 DEF GK!Set
<1> HIDE DEF placed
<1>4. /\ DOMAIN item1 = DOMAIN placed \cup IF id = "" THEN {} ELSE {"account"}
      /\ item1["accessGroup"] = store.group /\ item1["service"] = store.name
      /\ id # "" => item1["account"] = id
  BY <1>1, <1>2, <1>3, <1>10 DEF GK!Set
<1>5. GK!newKeychainItem(id) = item1
  <2>1. store.name # "" /\ store.group # ""
    OBVIOUS
  <2> QED
    BY <2>1 DEF GK!newKeychainItem, GK!SetService, GK!SetAccessGroup, GK!SetAccount, GK!SetString,
                GK!SetUseDataProtectionKeychain, base, service, named, placed
<1> HIDE DEF item1
<1>6. DOMAIN GK!ItemsOf(k, id, b) = GK!Dicts
  BY DEF GK!ItemsOf
<1>7. DOMAIN GK!ItemsOf(k, id, b)["update"] \subseteq {"data"}
  <2>1. DOMAIN GK!NewItem = {}
    BY NewItemIs
  <2>2. DOMAIN GK!SetData(GK!NewItem, "bytes") = {"data"}
    BY <2>1 DEF GK!Set, GK!SetData
  <2>3. GK!ItemsOf(k, id, b)["update"] \in {GK!SetData(GK!NewItem, "bytes"), GK!NewItem}
    BY DEF GK!ItemsOf, GK!Dicts
  <2> QED
    BY <2>1, <2>2, <2>3
<1>11. "data" \notin DOMAIN item1
  BY <1>1, <1>2, <1>3, <1>4, <1>10
<1>8. /\ DOMAIN item1 \subseteq DOMAIN query
      /\ DOMAIN query \subseteq DOMAIN item1 \cup {"data", "label", "generic", "returnData", "limit"}
      /\ \A x \in {"service", "accessGroup", "account"} \cap DOMAIN item1 : query[x] = item1[x]
      /\ k = "add" => query["generic"] = "gob"
  <2>1. CASE k = "add"
    <3> DEFINE a1 == GK!SetData(item1, b)
               a2 == GK!Set(a1, "label", "label")
    <3>1. query = GK!Set(a2, "generic", "gob")
      BY <1>5, <2>1 DEF GK!ItemsOf, GK!Dicts, GK!Lists, GK!SetGenericMetadata, GK!SetLabel,
                        GK!SetString
    <3>2. /\ DOMAIN item1 \subseteq DOMAIN a1 /\ DOMAIN a1 \subseteq DOMAIN item1 \cup {"data"}
          /\ \A x \in DOMAIN item1 : a1[x] = item1[x]
      BY <1>11 DEF GK!SetData, GK!Set, GK!Remove
    <3>3. DOMAIN a2 = DOMAIN a1 \cup {"label"} /\ \A x \in DOMAIN a1 \ {"label"} : a2[x] = a1[x]
      <4> HIDE DEF a1
      <4> QED
        BY DEF GK!Set
    <3> HIDE DEF a1, a2, query
    <3>4. /\ DOMAIN query = DOMAIN a2 \cup {"generic"} /\ query["generic"] = "gob"
          /\ \A x \in DOMAIN a2 \ {"generic"} : query[x] = a2[x]
      BY <3>1 DEF GK!Set
    <3> QED
      BY <3>2, <3>3, <3>4
  <2>2. CASE k = "get"
    <3>1. query = GK!Set(item1, "returnData", "bool")
      BY <1>5, <2>2 DEF GK!ItemsOf, GK!Dicts, GK!Lists, GK!SetReturnData
    <3> QED
      BY <2>2, <3>1 DEF GK!Set
  <2>3. CASE k \in GK!Lists
    <3>1. query = GK!Set(item1, "limit", "all")
      BY <1>5, <2>3 DEF GK!ItemsOf, GK!Dicts, GK!Lists, GK!SetMatchLimit
    <3> QED
      BY <2>3, <3>1 DEF GK!Set, GK!Lists
  <2>4. CASE k \notin {"add", "get"} \cup GK!Lists
    <3>1. query = item1
      BY <1>5, <2>4 DEF GK!ItemsOf, GK!Dicts, GK!Lists
    <3> QED
      BY <2>4, <3>1
  <2> QED
    BY <2>1, <2>2, <2>3, <2>4
<1>9. \A d \in GK!Dicts : DOMAIN GK!ItemsOf(k, id, b)[d] \subseteq GK!Key
  BY <1>1, <1>2, <1>3, <1>10, <1>4, <1>7, <1>8 DEF GK!Dicts, GK!Key
<1>12. "dataProtection" \in DOMAIN query <=> store.protected
  BY <1>1, <1>2, <1>3, <1>10, <1>4, <1>8
<1> QED
  BY <1>1, <1>2, <1>3, <1>10, <1>4, <1>6, <1>8, <1>9, <1>12

\* They depend on the store and the call only.
LEMMA ItemsOfKept ==
  ASSUME NEW k, NEW id, NEW b, UNCHANGED store
  PROVE  GK!ItemsOf(k, id, b)' = GK!ItemsOf(k, id, b)
<1>1. GK!newKeychainItem(id)' = GK!newKeychainItem(id)
  BY DEF GK!newKeychainItem
<1> DEFINE Built(item1) == [d \in GK!Dicts |->
       IF d = "update" THEN IF k = "update" THEN GK!SetData(GK!NewItem, "bytes") ELSE GK!NewItem
       ELSE CASE k = "add"  -> GK!SetGenericMetadata(GK!SetLabel(GK!SetData(item1, b)))
              [] k = "get"  -> GK!SetReturnData(item1)
              [] k \in GK!Lists -> GK!SetMatchLimit(item1, "all")
              [] OTHER      -> item1]
<1>2. GK!ItemsOf(k, id, b) = Built(GK!newKeychainItem(id))
  BY DEF GK!ItemsOf
<1>3. GK!ItemsOf(k, id, b)' = Built(GK!newKeychainItem(id)')
  BY DEF GK!ItemsOf
<1> HIDE DEF Built
<1> QED
  BY <1>1, <1>2, <1>3

\* A call that returns leaves nothing behind.
LEMMA BindingReturns ==
  ASSUME BindingInv, gpc \in {"convert", "call", "results"},
         NEW r \in {"ok", "duplicate", "notfound", "error"}, GK!Return(r, refs, deferred),
         items' \in SUBSET GK!StoredItem, result' \in SUBSET GK!StoredItem,
         UNCHANGED <<store, call, attr, gcalls>>
  PROVE  BindingInv'
<1>1. /\ refs' = GK!AfterDefers(refs, deferred)
      /\ dangling' = (dangling \/ GK!Overreleased(refs, deferred))
      /\ deferred' = GK!EmptyBag
      /\ gtodo' = [d \in GK!Dicts |-> {}]
      /\ gpc' = "idle" /\ gres' = r /\ found' = {}
  BY DEF GK!Return
<1>2. refs' = GK!SetToBag({}) /\ ~ GK!Overreleased(refs, deferred)
  BY <1>1, DefersSettle DEF BindingInv
<1>3. deferred' = GK!SetToBag({}) /\ GK!IsABag(GK!SetToBag({}))
  BY <1>1, SetBags
<1>4. dangling' = FALSE
  BY <1>1, <1>2 DEF BindingInv, CountInv
<1>5. CountInv'
  BY <1>1, <1>2, <1>3, <1>4 DEF CountInv, Holds
<1>6. QueryInv'
  BY <1>1 DEF BindingInv, QueryInv
<1>7. GK!TypeOK'
  <2>1. /\ gtodo' \in [GK!Dicts -> SUBSET GK!Key]
        /\ \A d \in GK!Dicts : gtodo'[d] \subseteq DOMAIN attr'[d]
    BY <1>1
  <2>2. GK!IsABag(refs') /\ GK!IsABag(deferred')
    BY <1>2, <1>3
  <2>3. gpc' \in {"idle", "convert", "call", "results"}
          /\ gres' \in {"none", "ok", "duplicate", "notfound", "error"}
    BY <1>1
  <2>4. dangling' \in BOOLEAN
    BY <1>4
  <2>5. /\ store' \in [group : Name, name : Name, protected : BOOLEAN] \cup {NoStore}
        /\ call' \in [kind : GK!Kinds, id : Account \cup {""}, data : GK!Data]
        /\ DOMAIN attr' = GK!Dicts /\ gcalls' \in 0..MaxBindingCalls
    BY DEF BindingInv, GK!TypeOK
  <2>6. found' \subseteq items'
    BY <1>1
  <2> QED
    BY <2>1, <2>2, <2>3, <2>4, <2>5, <2>6 DEF GK!TypeOK, GK!IsABag
<1> QED
  BY <1>5, <1>6, <1>7 DEF BindingInv

\* A counter below its bound.
LEMMA OneMore == ASSUME NEW m \in Nat, NEW n \in 0..m, n < m PROVE n + 1 \in 0..m
  OBVIOUS

\* New accepts a store only with a group and a name.
LEMMA NewKeeps ==
  ASSUME BindingInv, NEW g \in Name, NEW n \in Name, NEW p \in BOOLEAN, GK!New(g, n, p)
  PROVE  BindingInv'
<1>1. /\ gpc = "idle" /\ gcalls < MaxBindingCalls /\ gcalls' = gcalls + 1 /\ result' = {}
      /\ UNCHANGED <<items, gpc, call, attr, gtodo, refs, deferred, dangling, found>>
  BY DEF GK!New
<1>2. store' \in Stores \cup {NoStore}
  <2>1. CASE g = "" \/ n = ""
    BY <2>1 DEF GK!New
  <2>2. CASE ~ (g = "" \/ n = "")
    <3>1. store' = [group |-> g, name |-> n, protected |-> p]
      BY <2>2 DEF GK!New
    <3> QED
      BY <2>2, <3>1 DEF Stores
  <2> QED
    BY <2>1, <2>2
<1>3. gres' \in {"ok", "error"}
  BY DEF GK!New
<1>4. gcalls' \in 0..MaxBindingCalls
  <2>1. MaxBindingCalls \in Nat /\ gcalls \in 0..MaxBindingCalls
    BY BindingAssumed DEF GK!GoKeychainAssumption, BindingInv, GK!TypeOK
  <2>2. gcalls < MaxBindingCalls /\ gcalls' = gcalls + 1
    BY <1>1
  <2> QED
    BY <2>1, <2>2
<1>5. CountInv'
  BY <1>1 DEF BindingInv, CountInv, Holds
<1>6. QueryInv'
  BY <1>1, <1>2 DEF BindingInv, QueryInv
<1>7. GK!TypeOK'
  <2>1. dangling' \in BOOLEAN
    BY <1>1 DEF BindingInv, GK!TypeOK
  <2>2. store' \in [group : Name, name : Name, protected : BOOLEAN] \cup {NoStore}
    BY <1>2 DEF Stores
  <2> QED
    BY <1>1, <1>3, <1>4, <2>1, <2>2 DEF BindingInv, GK!TypeOK, GK!IsABag
<1> QED
  BY <1>5, <1>6, <1>7 DEF BindingInv

\* Of ItemsOfIs, what the conversion needs.
LEMMA ItemsHaveKeys ==
  ASSUME store \in Stores, NEW k \in GK!Kinds, NEW id \in CallIDs, NEW b \in GK!Data
  PROVE  /\ DOMAIN GK!ItemsOf(k, id, b) = GK!Dicts
         /\ \A d \in GK!Dicts : DOMAIN GK!ItemsOf(k, id, b)[d] \subseteq GK!Key
  BY ItemsOfIs

\* The store of a running call.
LEMMA StoreIs ==
  ASSUME QueryInv, store # NoStore
  PROVE  store \in Stores
  BY DEF QueryInv, Stores

\* A call begins with the Items its store builds, nothing converted yet.
LEMMA CallKeeps ==
  ASSUME BindingInv, NEW k \in GK!Kinds, NEW id \in Account \cup {""}, NEW b \in GK!Data,
         GK!Call(k, id, b)
  PROVE  BindingInv'
<1>1. /\ gpc = "idle" /\ store # NoStore /\ gcalls < MaxBindingCalls /\ gcalls' = gcalls + 1
      /\ call' = [kind |-> k, id |-> id, data |-> b] /\ attr' = GK!ItemsOf(k, id, b)
      /\ gtodo' = [d \in GK!Dicts |-> DOMAIN GK!ItemsOf(k, id, b)[d]]
      /\ gpc' = "convert" /\ result' = {} /\ gres' = "none"
      /\ UNCHANGED <<items, store, refs, deferred, dangling, found>>
  BY DEF GK!Call
<1>2. k \in GK!Lists <=> id = ""
  BY DEF GK!Call
<1>3. /\ DOMAIN attr' = GK!Dicts
      /\ \A d \in GK!Dicts : DOMAIN attr'[d] \subseteq GK!Key
  <2>1. store \in Stores /\ id \in CallIDs
    BY <1>1, StoreIs DEF BindingInv, CallIDs
  <2>2. /\ DOMAIN GK!ItemsOf(k, id, b) = GK!Dicts
        /\ \A d \in GK!Dicts : DOMAIN GK!ItemsOf(k, id, b)[d] \subseteq GK!Key
    BY <2>1, ItemsHaveKeys
  <2>3. attr' = GK!ItemsOf(k, id, b)
    BY <1>1
  <2> QED
    BY <2>2, <2>3
<1>4. gcalls' \in 0..MaxBindingCalls
  <2>1. MaxBindingCalls \in Nat /\ gcalls \in 0..MaxBindingCalls
    BY BindingAssumed DEF GK!GoKeychainAssumption, BindingInv, GK!TypeOK
  <2>2. gcalls < MaxBindingCalls /\ gcalls' = gcalls + 1
    BY <1>1
  <2> QED
    BY <2>1, <2>2, OneMore
<1>5. gtodo' \in [GK!Dicts -> SUBSET GK!Key] /\ \A d \in GK!Dicts : gtodo'[d] = DOMAIN attr'[d]
  BY <1>1, <1>3
<1>6. CountInv'
  <2>1. Half("query")' = {}
    BY <1>5 DEF Half, GK!Dicts
  <2>2. refs' = GK!SetToBag({}) /\ deferred' = GK!SetToBag({}) /\ dangling' = FALSE
    BY <1>1 DEF BindingInv, CountInv, Holds
  <2>3. Holds(Half("query"), Half("query"))'
    BY <2>1, <2>2 DEF Holds
  <2>4. gtodo'["update"] = DOMAIN attr'["update"]
    BY <1>5 DEF GK!Dicts
  <2> QED
    BY <1>1, <2>2, <2>3, <2>4 DEF CountInv
<1>7. QueryInv'
  <2>1. store' # NoStore /\ store' \in Stores \cup {NoStore}
    BY <1>1 DEF BindingInv, QueryInv
  <2>2. call'.kind = k /\ call'.id = id /\ call'.data = b
    BY <1>1
  <2>3. (attr = GK!ItemsOf(call.kind, call.id, call.data))'
    <3>1. GK!ItemsOf(k, id, b)' = GK!ItemsOf(k, id, b)
      BY <1>1, ItemsOfKept
    <3> QED
      BY <1>1, <2>2, <3>1
  <2>4. found' = {}
    BY <1>1 DEF BindingInv, QueryInv
  <2> QED
    BY <1>1, <1>2, <2>1, <2>2, <2>3, <2>4 DEF QueryInv, GK!Lists
<1>8. GK!TypeOK'
  <2>1. dangling' \in BOOLEAN
    BY <1>1 DEF BindingInv, GK!TypeOK
  <2>2. call' \in [kind : GK!Kinds, id : Account \cup {""}, data : GK!Data]
    BY <1>1
  <2>3. found' \subseteq items' /\ items' \subseteq GK!StoredItem /\ result' \subseteq GK!StoredItem
    BY <1>1 DEF BindingInv, GK!TypeOK
  <2>4. GK!IsABag(refs') /\ GK!IsABag(deferred')
    BY <1>1 DEF BindingInv, GK!TypeOK
  <2>5. store' \in [group : Name, name : Name, protected : BOOLEAN] \cup {NoStore}
    BY <1>1 DEF BindingInv, GK!TypeOK
  <2> QED
    BY <1>1, <1>3, <1>4, <1>5, <2>1, <2>2, <2>3, <2>4, <2>5 DEF GK!TypeOK, GK!IsABag
<1> QED
  BY <1>6, <1>7, <1>8 DEF BindingInv

\* A step of a call that goes on with the same Items.
LEMMA QueryKept ==
  ASSUME BindingInv, gpc # "idle", UNCHANGED <<store, call, attr, found>>,
         (gpc' # "results" /\ gpc # "results") \/ UNCHANGED gpc
  PROVE  QueryInv'
<1>1. PICK k, id, b : k = call.kind /\ id = call.id /\ b = call.data
  OBVIOUS
<1>2. GK!ItemsOf(k, id, b)' = GK!ItemsOf(k, id, b)
  BY ItemsOfKept
<1>3. (attr = GK!ItemsOf(call.kind, call.id, call.data))'
  BY <1>1, <1>2 DEF BindingInv, QueryInv
<1>4. \A i \in found' : GK!Matches(i, attr["query"])'
  BY DEF BindingInv, QueryInv, GK!Matches
<1> QED
  BY <1>3, <1>4 DEF BindingInv, QueryInv, GK!Lists

\* The dictionary that is being converted.
LEMMA CurrentIs ==
  ASSUME BindingInv, gpc = "convert"
  PROVE  \/ /\ GK!Current = "query"
            /\ Holds(Half("query"), Half("query")) /\ gtodo["update"] = DOMAIN attr["update"]
         \/ /\ GK!Current = "update"
            /\ call.kind = "update" /\ gtodo["query"] = {}
            /\ Holds(Whole("query") \cup Half("update"), {GK!DictRef("query")} \cup Half("update"))
<1>1. CASE Holds(Half("query"), Half("query")) /\ gtodo["update"] = DOMAIN attr["update"]
  <2>1. GK!DictRef("query") \notin Half("query")
    BY RefsApart, HalfIs DEF GK!Dicts
  <2>2. ~ GK!BagIn(GK!DictRef("query"), refs)
    BY <1>1, <2>1, InSetBag DEF Holds
  <2> QED
    BY <1>1, <2>2 DEF GK!Current
<1>2. CASE /\ call.kind = "update" /\ gtodo["query"] = {}
           /\ Holds(Whole("query") \cup Half("update"), {GK!DictRef("query")} \cup Half("update"))
  <2>1. GK!DictRef("query") \in Whole("query") \cup Half("update")
    BY DEF Whole
  <2>2. GK!BagIn(GK!DictRef("query"), refs)
    BY <1>2, <2>1, InSetBag DEF Holds
  <2> QED
    BY <1>2, <2>2 DEF GK!Current
<1> QED
  BY <1>1, <1>2 DEF BindingInv, CountInv

\* The objects of one attribute.
Attribute(d, k) == {GK!KeyRef(d, k)} \cup {GK!ValueRef(d, x) : x \in {k} \cap GK!Made}

\* One turn of the conversion adds the objects of one attribute.
LEMMA HalfGrows ==
  ASSUME NEW d \in GK!Dicts, NEW k \in gtodo[d], gtodo \in [GK!Dicts -> SUBSET GK!Key],
         gtodo[d] \subseteq DOMAIN attr[d],
         gtodo' = [gtodo EXCEPT ![d] = @ \ {k}], UNCHANGED attr
  PROVE  /\ Half(d)' = Half(d) \cup Attribute(d, k)
         /\ Half(d) \cap Attribute(d, k) = {}
         /\ Attribute(d, k) \subseteq GK!Contents(d)
<1>1. gtodo'[d] = gtodo[d] \ {k}
  OBVIOUS
<1>2. DOMAIN attr'[d] \ gtodo'[d] = (DOMAIN attr[d] \ gtodo[d]) \cup {k}
  BY <1>1
<1>3. \A x : x \in Half(d)' <=> x \in Half(d) \cup Attribute(d, k)
  BY <1>2 DEF Half, Attribute, GK!KeyRef, GK!ValueRef, GK!Made
<1>4. Half(d) \cap Attribute(d, k) = {}
  BY DEF Half, Attribute, GK!KeyRef, GK!ValueRef
<1>5. Attribute(d, k) \subseteq GK!Contents(d)
  BY DEF Attribute, GK!Contents
<1> QED
  BY <1>3, <1>4, <1>5

\* The conversion makes the objects of an attribute and defers their release.
LEMMA ConvertKeeps ==
  ASSUME BindingInv, NEW k \in GK!Key, GK!Convert(k)
  PROVE  BindingInv'
<1>2. PICK d \in GK!Dicts : d = GK!Current
  BY DEF GK!Current, GK!Dicts
<1> DEFINE N == Attribute(d, k)
<1>1. /\ gpc = "convert" /\ k \in gtodo[d]
      /\ refs' = GK!(+)(refs, GK!SetToBag(N)) /\ deferred' = GK!(+)(deferred, GK!SetToBag(N))
      /\ gtodo' = [gtodo EXCEPT ![d] = @ \ {k}]
      /\ UNCHANGED <<items, store, gpc, call, attr, dangling, found, result, gres, gcalls>>
  BY <1>2 DEF GK!Convert, Attribute
<1>3. gtodo \in [GK!Dicts -> SUBSET GK!Key] /\ gtodo[d] \subseteq DOMAIN attr[d]
  BY <1>2 DEF BindingInv, GK!TypeOK
<1>4. /\ Half(d)' = Half(d) \cup N /\ Half(d) \cap N = {}
      /\ N \subseteq GK!Contents(d)
  BY <1>1, <1>2, <1>3, HalfGrows
<1> HIDE DEF N
<1>5. /\ gtodo' \in [GK!Dicts -> SUBSET GK!Key]
      /\ \A e \in GK!Dicts : gtodo'[e] \subseteq gtodo[e] /\ (e # d => gtodo'[e] = gtodo[e])
  <2>1. gtodo' = [gtodo EXCEPT ![d] = @ \ {k}]
    BY <1>1
  <2> QED
    BY <1>2, <1>3, <2>1
<1>6. CountInv'
  <2>1. CASE /\ d = "query" /\ Holds(Half("query"), Half("query"))
             /\ gtodo["update"] = DOMAIN attr["update"]
    <3>1. refs' = GK!SetToBag(Half("query")') /\ deferred' = GK!SetToBag(Half("query")')
      <4>1. GK!(+)(GK!SetToBag(Half("query")), GK!SetToBag(N)) = GK!SetToBag(Half("query") \cup N)
        BY <1>4, <2>1, SetBags
      <4>2. refs = GK!SetToBag(Half("query")) /\ deferred = GK!SetToBag(Half("query"))
        BY <2>1 DEF Holds
      <4>3. refs' = GK!(+)(refs, GK!SetToBag(N)) /\ deferred' = GK!(+)(deferred, GK!SetToBag(N))
        BY <1>1
      <4>4. Half("query")' = Half("query") \cup N
        BY <1>4, <2>1
      <4> QED
        BY <4>1, <4>2, <4>3, <4>4
    <3>2. gtodo'["update"] = DOMAIN attr'["update"]
      BY <1>1, <1>5, <2>1 DEF GK!Dicts
    <3>3. Holds(Half("query"), Half("query"))'
      BY <3>1 DEF Holds
    <3> QED
      BY <1>1, <3>2, <3>3 DEF BindingInv, CountInv
  <2>2. CASE /\ d = "update" /\ call.kind = "update" /\ gtodo["query"] = {}
             /\ Holds(Whole("query") \cup Half("update"), {GK!DictRef("query")} \cup Half("update"))
    <3>1. N \cap Whole("query") = {}
      BY <1>4, <2>2, RefsApart DEF Whole, GK!Dicts
    <3>2. GK!DictRef("query") \notin N
      BY <3>1 DEF Whole
    <3> DEFINE S == Whole("query") \cup Half("update")
               T == {GK!DictRef("query")} \cup Half("update")
    <3>3. S \cap N = {} /\ T \cap N = {}
      BY <1>4, <2>2, <3>1, <3>2
    <3>4. refs = GK!SetToBag(S) /\ deferred = GK!SetToBag(T)
      BY <2>2 DEF Holds
    <3>5. /\ S \cup N = Whole("query") \cup Half("update")'
          /\ T \cup N = {GK!DictRef("query")} \cup Half("update")'
      BY <1>4, <2>2
    <3> HIDE DEF S, T
    <3>6. refs' = GK!SetToBag(S \cup N) /\ deferred' = GK!SetToBag(T \cup N)
      <4>1. GK!(+)(GK!SetToBag(S), GK!SetToBag(N)) = GK!SetToBag(S \cup N)
        BY <3>3, SetBags
      <4>2. GK!(+)(GK!SetToBag(T), GK!SetToBag(N)) = GK!SetToBag(T \cup N)
        BY <3>3, SetBags
      <4>3. refs' = GK!(+)(refs, GK!SetToBag(N)) /\ deferred' = GK!(+)(deferred, GK!SetToBag(N))
        BY <1>1
      <4> QED
        BY <3>4, <4>1, <4>2, <4>3
    <3>7. Whole("query")' = Whole("query") /\ GK!DictRef("query")' = GK!DictRef("query")
      BY <1>1 DEF Whole, GK!Contents, GK!DictRef, GK!Made
    <3>8. Holds(Whole("query") \cup Half("update"), {GK!DictRef("query")} \cup Half("update"))'
      BY <3>5, <3>6, <3>7 DEF Holds
    <3>9. gtodo'["query"] = {}
      BY <1>5, <2>2 DEF GK!Dicts
    <3> QED
      BY <1>1, <2>2, <3>8, <3>9 DEF BindingInv, CountInv
  <2> QED
    BY <1>1, <2>1, <2>2, <1>2, CurrentIs
<1>7. QueryInv'
  BY <1>1, QueryKept
<1>8. GK!TypeOK'
  <2>1. GK!IsABag(refs') /\ GK!IsABag(deferred')
    <3>1. \E S, T : refs' = GK!SetToBag(S) /\ deferred' = GK!SetToBag(T)
      BY <1>1, <1>6 DEF CountInv, Holds
    <3> QED
      BY <3>1, SetIsBag, Zenon
  <2>2. dangling' \in BOOLEAN
    BY <1>1 DEF BindingInv, GK!TypeOK
  <2>3. DOMAIN attr' = GK!Dicts /\ \A e \in GK!Dicts : gtodo'[e] \subseteq DOMAIN attr'[e]
    BY <1>1, <1>5 DEF BindingInv, GK!TypeOK
  <2> QED
    BY <1>1, <1>5, <2>1, <2>2, <2>3 DEF BindingInv, GK!TypeOK, GK!IsABag
<1> QED
  BY <1>6, <1>7, <1>8 DEF BindingInv

\* The conversion's own references are those of the dictionary's contents.
LEMMA OwnIs ==
  ASSUME NEW d \in GK!Dicts, NEW X, \A x \in X : x[3] = "dict",
         deferred = GK!SetToBag(X \cup GK!Contents(d))
  PROVE  [o \in {x \in GK!BagToSet(deferred) : x[1] = d /\ x[3] # "dict"} |-> deferred[o]] =
           GK!SetToBag(GK!Contents(d))
<1>1. \A x \in GK!Contents(d) : x[1] = d /\ x[3] # "dict"
  BY RefsApart
<1>2. GK!BagToSet(deferred) = X \cup GK!Contents(d)
  BY DEF GK!BagToSet, GK!SetToBag
<1>3. {x \in GK!BagToSet(deferred) : x[1] = d /\ x[3] # "dict"} = GK!Contents(d)
  BY <1>1, <1>2
<1>4. \A o \in GK!Contents(d) : deferred[o] = 1
  BY DEF GK!SetToBag
<1> QED
  BY <1>3, <1>4 DEF GK!SetToBag

\* The dictionary takes over: nothing is released for good.
LEMMA TakesOver ==
  ASSUME NEW d \in GK!Dicts, NEW S, NEW T, GK!Contents(d) \subseteq S, GK!DictRef(d) \notin S
  PROVE  /\ GK!AfterDefers(GK!(+)(GK!SetToBag(S), GK!SetToBag(GK!Contents(d) \cup {GK!DictRef(d)})),
                           GK!SetToBag(GK!Contents(d))) = GK!SetToBag(S \cup {GK!DictRef(d)})
         /\ ~ GK!Overreleased(GK!(+)(GK!SetToBag(S), GK!SetToBag(GK!Contents(d))),
                              GK!SetToBag(GK!Contents(d)))
<1> DEFINE C == GK!Contents(d)
           U == {GK!DictRef(d)}
           b == GK!(+)(GK!SetToBag(S), GK!SetToBag(C \cup U))
           rest == GK!(-)(b, GK!SetToBag(C))
           E == {e \in GK!Dicts : GK!BagIn(GK!DictRef(e), b) /\ ~ GK!BagIn(GK!DictRef(e), rest)}
<1>1. GK!AfterDefers(b, GK!SetToBag(C)) =
        GK!(-)(rest, GK!SetToBag(UNION {GK!Contents(e) : e \in E}))
  BY DEF GK!AfterDefers
<1>2. C \subseteq S /\ U \cap S = {}
  OBVIOUS
<1>3. rest = GK!SetToBag(S \cup U) /\ \A x : GK!BagIn(x, b) <=> x \in S \cup U
  <2> HIDE DEF C, U
  <2> QED
    BY <1>2, Handover
<1>4. E = {}
  <2> HIDE DEF b, rest
  <2> SUFFICES ASSUME NEW e \in GK!Dicts, GK!BagIn(GK!DictRef(e), b),
                      ~ GK!BagIn(GK!DictRef(e), rest)
               PROVE  FALSE
    OBVIOUS
  <2>1. GK!DictRef(e) \in S \cup U
    BY <1>3
  <2>2. GK!BagIn(GK!DictRef(e), GK!SetToBag(S \cup U)) = (GK!DictRef(e) \in S \cup U)
    BY InSetBag
  <2> QED
    BY <1>3, <2>1, <2>2
<1> HIDE DEF E
<1>5. UNION {GK!Contents(e) : e \in E} = {}
  BY <1>4
<1>6. GK!(-)(GK!SetToBag(S \cup U), GK!SetToBag({})) = GK!SetToBag(S \cup U)
  <2> HIDE DEF U
  <2>1. GK!(-)(GK!SetToBag(S \cup U), GK!SetToBag({})) = GK!SetToBag((S \cup U) \ {})
    BY SetBags
  <2>2. (S \cup U) \ {} = S \cup U
    OBVIOUS
  <2> QED
    BY <2>1, <2>2
<1>7. GK!AfterDefers(b, GK!SetToBag(C)) = GK!SetToBag(S \cup U)
  <2> HIDE DEF b, rest
  <2> QED
    BY <1>1, <1>3, <1>5, <1>6
<1>8. ~ GK!Overreleased(GK!(+)(GK!SetToBag(S), GK!SetToBag(C)), GK!SetToBag(C))
  <2> HIDE DEF C, U
  <2> QED
    BY <1>2, Handover DEF GK!Overreleased
<1> QED
  BY <1>7, <1>8

\* MapToCFDictionary makes the dictionary and runs the conversion's defers.
LEMMA MapKeeps ==
  ASSUME BindingInv, GK!MapToCFDictionary
  PROVE  BindingInv'
<1>1. PICK d \in GK!Dicts : d = GK!Current
  BY DEF GK!Current, GK!Dicts
<1> DEFINE own == [o \in {x \in GK!BagToSet(deferred) : x[1] = d /\ x[3] # "dict"} |-> deferred[o]]
           C == GK!Contents(d)
           D == GK!DictRef(d)
<1>2. /\ gpc = "convert" /\ gtodo[d] = {}
      /\ refs' = GK!AfterDefers(GK!(+)(refs, GK!SetToBag(C \cup {D})), own)
      /\ deferred' = GK!(+)(GK!(-)(deferred, own), GK!SetToBag({D}))
      /\ dangling' = (dangling \/ GK!Overreleased(GK!(+)(refs, GK!SetToBag(C)), own))
      /\ gpc' = IF d = "query" /\ call.kind = "update" THEN "convert" ELSE "call"
      /\ UNCHANGED <<items, store, call, attr, gtodo, found, result, gres, gcalls>>
  BY <1>1 DEF GK!MapToCFDictionary
<1>3. Half(d) = C
  BY <1>2, HalfIs
<1>4. ASSUME NEW S, NEW X, Holds(S \cup C, X \cup C), \A x \in X : x[3] = "dict" /\ x \notin C,
             D \notin S, D \notin X
      PROVE  /\ refs' = GK!SetToBag(S \cup C \cup {D}) /\ deferred' = GK!SetToBag(X \cup {D})
             /\ dangling' = FALSE
  <2>1. refs = GK!SetToBag(S \cup C) /\ deferred = GK!SetToBag(X \cup C)
    BY <1>4 DEF Holds
  <2>2. own = GK!SetToBag(C)
    BY <1>4, <2>1, OwnIs
  <2> HIDE DEF own
  <2>3. D \notin S \cup C /\ C \subseteq S \cup C
    BY <1>4, RefsApart
  <2>4. /\ GK!AfterDefers(GK!(+)(GK!SetToBag(S \cup C), GK!SetToBag(C \cup {D})), GK!SetToBag(C)) =
             GK!SetToBag((S \cup C) \cup {D})
        /\ ~ GK!Overreleased(GK!(+)(GK!SetToBag(S \cup C), GK!SetToBag(C)), GK!SetToBag(C))
    BY <2>3, TakesOver
  <2>5. refs' = GK!SetToBag(S \cup C \cup {D})
    BY <1>2, <2>1, <2>2, <2>4
  <2>6. dangling' = FALSE
    BY <1>2, <2>1, <2>2, <2>4 DEF BindingInv, CountInv
  <2>7. GK!(-)(GK!SetToBag(X \cup C), GK!SetToBag(C)) = GK!SetToBag(X)
    <3> HIDE DEF C
    <3>1. (X \cup C) \ C = X
      BY <1>4
    <3> QED
      BY <3>1, SetBags
  <2>8. GK!(+)(GK!SetToBag(X), GK!SetToBag({D})) = GK!SetToBag(X \cup {D})
    <3> HIDE DEF D
    <3>1. X \cap {D} = {}
      BY <1>4
    <3> QED
      BY <3>1, SetBags
  <2>9. deferred' = GK!SetToBag(X \cup {D})
    BY <1>2, <2>1, <2>2, <2>7, <2>8
  <2> QED
    BY <2>5, <2>6, <2>9
<1>5. /\ Whole("query")' = Whole("query") /\ Whole("update")' = Whole("update")
      /\ Half("update")' = Half("update")
  BY <1>2 DEF Whole, GK!Contents, Half
<1>6. CountInv'
  <2>1. CASE /\ d = "query" /\ Holds(Half("query"), Half("query"))
             /\ gtodo["update"] = DOMAIN attr["update"]
    <3>0. PICK Z : Z = {}
      OBVIOUS
    <3>1. /\ refs' = GK!SetToBag(Z \cup C \cup {D}) /\ deferred' = GK!SetToBag(Z \cup {D})
          /\ dangling' = FALSE
      <4>1. Z \cup C = Half("query")
        BY <1>3, <2>1, <3>0
      <4>2. Holds(Z \cup C, Z \cup C)
        BY <2>1, <4>1
      <4>3. \A x : x \notin Z
        BY <3>0
      <4> HIDE DEF C, D
      <4> QED
        BY <1>4, <4>2, <4>3
    <3>2. Z \cup C \cup {D} = Whole("query") /\ Z \cup {D} = {GK!DictRef("query")}
      BY <2>1, <3>0 DEF Whole
    <3>3. refs' = GK!SetToBag(Whole("query")) /\ deferred' = GK!SetToBag({GK!DictRef("query")})
      BY <3>1, <3>2
    <3>4. CASE call.kind = "update"
      <4>1. Half("update") = {}
        BY <2>1, HalfIs DEF GK!Dicts
      <4>2. /\ Whole("query") \cup {} = Whole("query")
            /\ {GK!DictRef("query")} \cup {} = {GK!DictRef("query")}
        OBVIOUS
      <4>3. /\ (Whole("query") \cup Half("update"))' = Whole("query")
            /\ ({GK!DictRef("query")} \cup Half("update"))' = {GK!DictRef("query")}
        BY <1>5, <4>1, <4>2
      <4>5. Holds(Whole("query") \cup Half("update"), {GK!DictRef("query")} \cup Half("update"))'
        BY <3>3, <4>3 DEF Holds
      <4>4. gpc' = "convert" /\ call'.kind = "update" /\ gtodo'["query"] = {}
        BY <1>2, <2>1, <3>4
      <4> QED
        BY <3>1, <4>4, <4>5 DEF CountInv
    <3>5. CASE call.kind # "update"
      <4>1. Holds(Whole("query"), {GK!DictRef("query")})'
        BY <1>5, <3>3 DEF Holds
      <4>2. gpc' = "call"
        BY <1>2, <3>5
      <4> QED
        BY <3>1, <4>1, <4>2 DEF CountInv
    <3> QED
      BY <3>4, <3>5
  <2>2. CASE /\ d = "update" /\ call.kind = "update" /\ gtodo["query"] = {}
             /\ Holds(Whole("query") \cup Half("update"), {GK!DictRef("query")} \cup Half("update"))
    <3> DEFINE S == Whole("query")
               X == {GK!DictRef("query")}
    <3>1. Holds(S \cup C, X \cup C)
      BY <1>3, <2>2
    <3>2. \A x \in X : x[3] = "dict" /\ x \notin C
      BY RefsApart DEF GK!Dicts
    <3>3. D \notin S /\ D \notin X
      BY <2>2, RefsApart DEF Whole, GK!Dicts
    <3>4. /\ refs' = GK!SetToBag(S \cup C \cup {D}) /\ deferred' = GK!SetToBag(X \cup {D})
          /\ dangling' = FALSE
      <4> HIDE DEF S, X, C, D
      <4> QED
        BY <1>4, <3>1, <3>2, <3>3
    <3>5. /\ S \cup C \cup {D} = Whole("query") \cup Whole("update")
          /\ X \cup {D} = {GK!DictRef("query"), GK!DictRef("update")}
      BY <2>2 DEF Whole
    <3>6. Holds(Whole("query") \cup Whole("update"), {GK!DictRef("query"), GK!DictRef("update")})'
      BY <1>5, <3>4, <3>5 DEF Holds
    <3>7. gpc' = "call" /\ call'.kind = "update"
      BY <1>2, <2>2
    <3> QED
      BY <3>4, <3>6, <3>7 DEF CountInv
  <2> QED
    BY <1>1, <1>2, <2>1, <2>2, CurrentIs
<1>7. gpc' \in {"convert", "call"}
  BY <1>2
<1>8. QueryInv'
  BY <1>2, <1>7, QueryKept
<1>9. GK!TypeOK'
  <2>1. GK!IsABag(refs') /\ GK!IsABag(deferred')
    <3>1. \E S, T : refs' = GK!SetToBag(S) /\ deferred' = GK!SetToBag(T)
      BY <1>6, <1>7 DEF CountInv, Holds
    <3> QED
      BY <3>1, SetIsBag, Zenon
  <2>2. dangling' \in BOOLEAN
    BY <1>6 DEF CountInv
  <2> QED
    BY <1>2, <1>7, <2>1, <2>2 DEF BindingInv, GK!TypeOK, GK!IsABag
<1> QED
  BY <1>6, <1>8, <1>9 DEF BindingInv

\* The query of a running call is the store's own.
LEMMA QueryIs ==
  ASSUME BindingInv, gpc # "idle"
  PROVE  /\ store \in Stores
         /\ {"service", "accessGroup"} \subseteq DOMAIN attr["query"]
         /\ attr["query"]["service"] = store.name /\ attr["query"]["accessGroup"] = store.group
         /\ "dataProtection" \in DOMAIN attr["query"] <=> store.protected
         /\ ~ Unnamed(call.id) =>
              "account" \in DOMAIN attr["query"] /\ attr["query"]["account"] = call.id
         /\ call.kind = "add" => attr["query"]["generic"] = "gob"
<1>1. store \in Stores
  BY StoreIs DEF BindingInv, QueryInv
<1>2. call.kind \in GK!Kinds /\ call.id \in CallIDs /\ call.data \in GK!Data
  BY DEF BindingInv, GK!TypeOK, CallIDs
<1>3. PICK k \in GK!Kinds, id \in CallIDs, b \in GK!Data :
        k = call.kind /\ id = call.id /\ b = call.data
  BY <1>2
<1>4. attr = GK!ItemsOf(k, id, b)
  BY <1>3 DEF BindingInv, QueryInv
<1>5. /\ {"service", "accessGroup"} \subseteq DOMAIN GK!ItemsOf(k, id, b)["query"]
      /\ GK!ItemsOf(k, id, b)["query"]["service"] = store.name
      /\ GK!ItemsOf(k, id, b)["query"]["accessGroup"] = store.group
      /\ "dataProtection" \in DOMAIN GK!ItemsOf(k, id, b)["query"] <=> store.protected
      /\ ~ Unnamed(id) =>
           /\ "account" \in DOMAIN GK!ItemsOf(k, id, b)["query"]
           /\ GK!ItemsOf(k, id, b)["query"]["account"] = id
      /\ k = "add" => GK!ItemsOf(k, id, b)["query"]["generic"] = "gob"
  BY <1>1, ItemsOfIs
<1> QED
  BY <1>1, <1>3, <1>4, <1>5

\* What matches it is the store's own.
LEMMA MatchIs ==
  ASSUME BindingInv, gpc # "idle", NEW i, GK!Matches(i, attr["query"])
  PROVE  /\ i["service"] = store.name
         /\ GK!Protected(i) => i["accessGroup"] = store.group
         /\ store.protected => GK!Protected(i)
         /\ ~ Unnamed(call.id) => i["account"] = call.id
  BY QueryIs DEF GK!Matches

\* What AddItem adds.
LEMMA AddedIs ==
  ASSUME BindingInv, GK!AddItem
  PROVE  \E i \in GK!StoredItem :
           /\ items' \in {items, items \cup {i}}
           /\ i.service = store.name /\ i.account = call.id
           /\ i.accessGroup = IF store.protected THEN store.group ELSE ""
<1>1. gpc = "call" /\ call.kind = "add"
  BY DEF GK!AddItem
<1>2. call.id \in Account
  <2>1. call.id # "" /\ call.id \in Account \cup {""}
    BY <1>1 DEF BindingInv, QueryInv, GK!TypeOK, GK!Lists
  <2> QED
    BY <2>1
<1>3. /\ store \in Stores
      /\ {"service", "accessGroup"} \subseteq DOMAIN attr["query"]
      /\ attr["query"]["service"] = store.name /\ attr["query"]["accessGroup"] = store.group
      /\ attr["query"]["account"] = call.id /\ attr["query"]["generic"] = "gob"
      /\ "dataProtection" \in DOMAIN attr["query"] <=> store.protected
  <2>1. ~ Unnamed(call.id)
    BY <1>1 DEF BindingInv, QueryInv, GK!Lists, Unnamed
  <2> QED
    BY <1>1, <2>1, QueryIs
<1> DEFINE i == [service |-> IF "service" \in DOMAIN attr["query"] THEN attr["query"]["service"] ELSE "",
                 accessGroup |-> IF {"accessGroup", "dataProtection"} \subseteq DOMAIN attr["query"]
                                 THEN attr["query"]["accessGroup"] ELSE "",
                 account |-> attr["query"]["account"], generic |-> attr["query"]["generic"]]
<1>4. items' \in {items, items \cup {i}}
  BY DEF GK!AddItem
<1>5. i = [service |-> store.name, accessGroup |-> IF store.protected THEN store.group ELSE "",
           account |-> call.id, generic |-> "gob"]
  BY <1>3
<1> HIDE DEF i
<1>6. store.name \in Name /\ (IF store.protected THEN store.group ELSE "") \in Name
  BY <1>3, BindingAssumed DEF Stores, GK!GoKeychainAssumption
<1>7. i \in GK!StoredItem
  BY <1>2, <1>5, <1>6 DEF GK!StoredItem, GK!Generic
<1> QED
  BY <1>4, <1>5, <1>7

\* Each way out of a call runs the deferred releases.
LEMMA CallsReturn ==
  ASSUME BindingInv,
         \/ \E k \in GK!Key : GK!ConvertFails(k)
         \/ GK!DictionaryFails \/ GK!AddItem \/ GK!UpdateItem \/ GK!DeleteItem \/ GK!CallFails \/ GK!QueryDone
         \/ GK!QueryItemRef /\ GK!Found = {}
  PROVE  BindingInv'
<1>1. gpc \in {"convert", "call", "results"}
  BY DEF GK!ConvertFails, GK!DictionaryFails, GK!AddItem, GK!UpdateItem, GK!DeleteItem,
         GK!CallFails, GK!QueryDone, GK!QueryItemRef
<1>2. UNCHANGED <<store, call, attr, gcalls>>
  BY DEF GK!ConvertFails, GK!DictionaryFails, GK!AddItem, GK!UpdateItem, GK!DeleteItem,
         GK!CallFails, GK!QueryDone, GK!QueryItemRef
<1>3. \E r \in {"ok", "duplicate", "notfound", "error"} : GK!Return(r, refs, deferred)
  BY DEF GK!ConvertFails, GK!DictionaryFails, GK!AddItem, GK!UpdateItem, GK!DeleteItem,
         GK!CallFails, GK!QueryDone, GK!QueryItemRef
<1>4. items' \in SUBSET GK!StoredItem
  <2>1. items \in SUBSET GK!StoredItem
    BY DEF BindingInv, GK!TypeOK
  <2>2. GK!AddItem => items' \in SUBSET GK!StoredItem
    BY <2>1, AddedIs
  <2>3. GK!DeleteItem => items' \subseteq items
    BY DEF GK!DeleteItem
  <2> QED
    BY <2>1, <2>2, <2>3 DEF GK!ConvertFails, GK!DictionaryFails, GK!UpdateItem, GK!CallFails,
                            GK!QueryDone, GK!QueryItemRef
<1>5. result' \in SUBSET GK!StoredItem
  <2>1. result' \subseteq result
    BY DEF GK!ConvertFails, GK!DictionaryFails, GK!AddItem, GK!UpdateItem, GK!DeleteItem,
         GK!CallFails, GK!QueryDone, GK!QueryItemRef
  <2> QED
    BY <2>1 DEF BindingInv, GK!TypeOK
<1> QED
  BY <1>1, <1>2, <1>3, <1>4, <1>5, BindingReturns

\* QueryItemRef hands what it found to QueryItem, which has to release it.
LEMMA QueryKeeps ==
  ASSUME BindingInv, GK!QueryItemRef, GK!Found # {}
  PROVE  BindingInv'
<1>1. /\ gpc = "call" /\ call.kind \in {"get"} \cup GK!Lists
      /\ refs' = GK!AfterDefers(GK!(+)(refs, GK!SetToBag({GK!ResultRef})), deferred)
      /\ dangling' = (dangling \/ GK!Overreleased(refs, deferred))
      /\ deferred' = GK!SetToBag({GK!ResultRef})
      /\ gpc' = "results"
      /\ UNCHANGED <<items, store, call, attr, gtodo, result, gres, gcalls>>
  BY DEF GK!QueryItemRef
<1>2. found' \subseteq GK!Found
  BY DEF GK!QueryItemRef
<1>3. call.kind # "update"
  BY <1>1 DEF GK!Lists
<1>4. refs = GK!SetToBag(Whole("query")) /\ deferred = GK!SetToBag({GK!DictRef("query")})
  BY <1>1, <1>3 DEF BindingInv, CountInv, Holds
<1>5. dangling' = FALSE
  BY <1>1, DefersSettle DEF BindingInv, CountInv
<1>6. refs' = GK!SetToBag({GK!ResultRef})
  <2> DEFINE S == Whole("query") \cup {GK!ResultRef}
             T == {GK!DictRef("query")}
             G == UNION {GK!Contents(d) : d \in
                    {e \in GK!Dicts : GK!DictRef(e) \in S /\ GK!DictRef(e) \in T}}
  <2>1. Whole("query") \cap {GK!ResultRef} = {}
    BY RefsApart DEF Whole, GK!Dicts
  <2>2. GK!(+)(GK!SetToBag(Whole("query")), GK!SetToBag({GK!ResultRef})) = GK!SetToBag(S)
    BY <2>1, SetBags
  <2>3. GK!AfterDefers(GK!SetToBag(S), GK!SetToBag(T)) = GK!SetToBag((S \ T) \ G)
    BY AfterDefersIs
  <2>4. \A x : x \in G <=> x \in GK!Contents("query")
    <3>1. \A e \in GK!Dicts : (GK!DictRef(e) \in S /\ GK!DictRef(e) \in T) <=> e = "query"
      BY RefsApart DEF Whole, GK!Dicts
    <3>2. {e \in GK!Dicts : GK!DictRef(e) \in S /\ GK!DictRef(e) \in T} = {"query"}
      BY <3>1 DEF GK!Dicts
    <3> QED
      BY <3>2
  <2>5. (S \ T) \ G = {GK!ResultRef}
    <3> HIDE DEF G
    <3> QED
      BY <2>4, RefsApart DEF Whole, GK!Dicts
  <2> HIDE DEF S, T, G
  <2> QED
    BY <1>1, <1>4, <2>2, <2>3, <2>5 DEF T
<1>7. CountInv'
  <2>1. Holds({GK!ResultRef}, {GK!ResultRef})'
    BY <1>1, <1>6 DEF Holds, GK!ResultRef
  <2> QED
    BY <1>1, <1>5, <2>1 DEF CountInv
<1>8. QueryInv'
  <2>1. PICK k, id, b : k = call.kind /\ id = call.id /\ b = call.data
    OBVIOUS
  <2>2. GK!ItemsOf(k, id, b)' = GK!ItemsOf(k, id, b)
    BY <1>1, ItemsOfKept
  <2>3. (attr = GK!ItemsOf(call.kind, call.id, call.data))'
    BY <1>1, <2>1, <2>2 DEF BindingInv, QueryInv
  <2>4. \A i \in found' : GK!Matches(i, attr["query"])'
    BY <1>1, <1>2 DEF GK!Found, GK!Matches
  <2> QED
    BY <1>1, <1>3, <2>3, <2>4 DEF BindingInv, QueryInv, GK!Lists
<1>9. GK!TypeOK'
  <2>1. GK!IsABag(refs') /\ GK!IsABag(deferred')
    BY <1>1, <1>6, SetIsBag
  <2>2. dangling' \in BOOLEAN
    BY <1>5
  <2>3. found' \subseteq items'
    BY <1>1, <1>2 DEF GK!Found
  <2> QED
    BY <1>1, <2>1, <2>2, <2>3 DEF BindingInv, GK!TypeOK, GK!IsABag
<1> QED
  BY <1>7, <1>8, <1>9 DEF BindingInv

\* One result after the other is converted; a failure ends the call.
LEMMA ConvertResultKeeps ==
  ASSUME BindingInv, NEW i \in found, GK!ConvertResult(i)
  PROVE  BindingInv'
<1>1. gpc = "results" /\ UNCHANGED <<items, store, call, attr, gcalls>>
  BY DEF GK!ConvertResult
<1>2. CASE GK!Return("error", refs, deferred) /\ result' = {}
  <2>1. items' \in SUBSET GK!StoredItem /\ result' \in SUBSET GK!StoredItem
    BY <1>1, <1>2 DEF BindingInv, GK!TypeOK
  <2> QED
    BY <1>1, <1>2, <2>1, BindingReturns
<1>3. CASE /\ found' = found \ {i} /\ result' = result \cup {i}
           /\ UNCHANGED <<gpc, gtodo, refs, deferred, dangling, gres>>
  <2>1. CountInv'
    <3>1. Holds({GK!ResultRef}, {GK!ResultRef})'
      BY <1>1, <1>3 DEF BindingInv, CountInv, Holds, GK!ResultRef
    <3>2. gpc' = "results" /\ dangling' = FALSE
      BY <1>1, <1>3 DEF BindingInv, CountInv
    <3> QED
      BY <3>1, <3>2 DEF CountInv
  <2>2. QueryInv'
    <3>1. PICK k, id, b : k = call.kind /\ id = call.id /\ b = call.data
      OBVIOUS
    <3>2. GK!ItemsOf(k, id, b)' = GK!ItemsOf(k, id, b)
      BY <1>1, ItemsOfKept
    <3>3. (attr = GK!ItemsOf(call.kind, call.id, call.data))'
      BY <1>1, <3>1, <3>2 DEF BindingInv, QueryInv
    <3>4. \A j \in found' : GK!Matches(j, attr["query"])'
      BY <1>1, <1>3 DEF BindingInv, QueryInv, GK!Matches
    <3> QED
      BY <1>1, <1>3, <3>3, <3>4 DEF BindingInv, QueryInv, GK!Lists
  <2>3. GK!TypeOK'
    <3>1. found' \subseteq items' /\ result' \subseteq GK!StoredItem
      BY <1>1, <1>3 DEF BindingInv, GK!TypeOK
    <3>2. dangling' \in BOOLEAN
      BY <1>3 DEF BindingInv, GK!TypeOK
    <3> QED
      BY <1>1, <1>3, <3>1, <3>2 DEF BindingInv, GK!TypeOK, GK!IsABag
  <2> QED
    BY <2>1, <2>2, <2>3 DEF BindingInv
<1> QED
  BY <1>2, <1>3 DEF GK!ConvertResult

\* Every step of the bindings keeps the invariant.
LEMMA BindingStep == BindingInv /\ GK!Next => BindingInv'
<1> SUFFICES ASSUME BindingInv, GK!Next PROVE BindingInv'
  OBVIOUS
<1>1. CASE \E g, n \in Name, p \in BOOLEAN : GK!New(g, n, p)
  BY <1>1, NewKeeps
<1>2. CASE \E k \in GK!Kinds, id \in Account \cup {""}, b \in GK!Data : GK!Call(k, id, b)
  BY <1>2, CallKeeps
<1>3. CASE \E k \in GK!Key : GK!Convert(k)
  BY <1>3, ConvertKeeps
<1>4. CASE \/ \E k \in GK!Key : GK!ConvertFails(k)
           \/ GK!DictionaryFails
           \/ GK!AddItem \/ GK!UpdateItem \/ GK!DeleteItem \/ GK!CallFails \/ GK!QueryDone
           \/ GK!QueryItemRef /\ GK!Found = {}
  BY <1>4, CallsReturn
<1>5. CASE GK!MapToCFDictionary
  BY <1>5, MapKeeps
<1>6. CASE GK!QueryItemRef /\ GK!Found # {}
  BY <1>6, QueryKeeps
<1>7. CASE \E i \in found : GK!ConvertResult(i)
  BY <1>7, ConvertResultKeeps
<1> QED
  BY <1>1, <1>2, <1>3, <1>4, <1>5, <1>6, <1>7 DEF GK!Next

\* The bindings' invariant holds in the sum.
LEMMA BindingInvariant == MCSpec => []BindingInv
<1>1. MCInit => BindingInv
  <2> SUFFICES ASSUME GK!Init PROVE BindingInv
    BY DEF MCInit, BindingRest
  <2>1. refs = GK!SetToBag({}) /\ deferred = GK!SetToBag({})
    BY SetBags DEF GK!Init
  <2>2. CountInv
    BY <2>1 DEF CountInv, Holds, GK!Init
  <2>3. QueryInv
    BY DEF QueryInv, GK!Init
  <2>4. items \subseteq GK!StoredItem
    BY DEF GK!Init
  <2>5. GK!IsABag(refs) /\ GK!IsABag(deferred)
    BY <2>1, SetBags
  <2>6. call \in [kind : GK!Kinds, id : Account \cup {""}, data : GK!Data]
    BY DEF GK!Init, GK!Kinds, GK!Data
  <2>7. gcalls \in 0..MaxBindingCalls
    <3>1. MaxBindingCalls \in Nat /\ gcalls = 0
      BY BindingAssumed DEF GK!GoKeychainAssumption, GK!Init
    <3> QED
      BY <3>1
  <2>8. gtodo \in [GK!Dicts -> SUBSET GK!Key] /\ DOMAIN attr = GK!Dicts
          /\ \A d \in GK!Dicts : gtodo[d] \subseteq DOMAIN attr[d]
    BY DEF GK!Init
  <2>9. dangling \in BOOLEAN
    BY DEF GK!Init
  <2>10. GK!TypeOK
    BY <2>4, <2>5, <2>6, <2>7, <2>8, <2>9 DEF GK!TypeOK, GK!Init
  <2> QED
    BY <2>2, <2>3, <2>10 DEF BindingInv
<1>2. BindingInv /\ UNCHANGED <<items, store, gpc, call, attr, gtodo, refs, deferred, dangling, found,
                                result, gres, gcalls>> => BindingInv'
  <2> SUFFICES ASSUME BindingInv, UNCHANGED <<items, store, gpc, call, attr, gtodo, refs, deferred,
                                              dangling, found, result, gres, gcalls>>
               PROVE  BindingInv'
    OBVIOUS
  <2>1. GK!TypeOK'
    BY DEF BindingInv, GK!TypeOK, GK!IsABag
  <2>2. CountInv'
    BY DEF BindingInv, CountInv, Holds, Half, Whole, GK!Contents
  <2>3. QueryInv'
    <3>1. CASE gpc = "idle"
      BY <3>1 DEF BindingInv, QueryInv
    <3>2. CASE gpc # "idle"
      BY <3>2, QueryKept
    <3> QED
      BY <3>1, <3>2
  <2> QED
    BY <2>1, <2>2, <2>3 DEF BindingInv
<1>3. BindingInv /\ [MCNext]_<<system, vars, darwinVars, gkVars, serviceVars, passVars>> => BindingInv'
  BY <1>2, BindingStep DEF MCNext, gkVars
<1> QED
  BY <1>1, <1>3, PTL DEF MCSpec

\* The defer Release(...) of the bindings: however a call ends, every
\* CoreFoundation object it made is released exactly once, and the framework
\* never reads one that is gone.
THEOREM BindingsAreBalanced == MCSpec => []RefsBalanced
<1>1. BindingInv => RefsBalanced
  <2> SUFFICES ASSUME BindingInv PROVE GK!RefsBalanced
    BY DEF RefsBalanced
  <2>1. gpc = "idle" => refs = GK!EmptyBag
    BY SetBags DEF BindingInv, CountInv, Holds
  <2>2. ASSUME gpc = "call" PROVE GK!Alive
    <3>1. ASSUME NEW S, refs = GK!SetToBag(S),
                 \A d \in GK!Dicts : GK!DictRef(d) \in S => GK!Contents(d) \subseteq S
          PROVE  GK!Alive
      <4>1. \A x : GK!BagIn(x, refs) = (x \in S)
        BY <3>1, InSetBag
      <4> QED
        BY <3>1, <4>1 DEF GK!Alive
    <3>2. CASE Holds(Whole("query"), {GK!DictRef("query")})
      BY <3>1, <3>2, RefsApart DEF Holds, Whole, GK!Dicts
    <3>3. CASE Holds(Whole("query") \cup Whole("update"), {GK!DictRef("query"), GK!DictRef("update")})
      BY <3>1, <3>3 DEF Holds, Whole, GK!Dicts
    <3> QED
      BY <2>2, <3>2, <3>3 DEF BindingInv, CountInv
  <2> QED
    BY <2>1, <2>2 DEF BindingInv, CountInv, GK!RefsBalanced
<1> QED
  BY <1>1, BindingInvariant, PTL

\* A store adds, changes, deletes and returns only items of its own service and
\* none of another access group, and with the option of the data protection
\* Keychain only items of its own group: the check of New keeps SetString from
\* dropping either from the query.
THEOREM BindingsAreIsolated == MCSpec => StoresIsolated
<1> DEFINE Changed == (items \ items') \cup (items' \ items) \cup (result' \ result)
           Own(i) == /\ i.service = store.name
                     /\ GK!Protected(i) => i.accessGroup = store.group
                     /\ store.protected => GK!Protected(i)
                     /\ call.id # "" => i.account = call.id
<1>1. BindingInv /\ GK!Next => \A i \in Changed : Own(i)
  <2> SUFFICES ASSUME BindingInv, GK!Next, NEW i \in Changed PROVE Own(i)
    OBVIOUS
  <2>1. CASE GK!AddItem
    <3>1. i \in items' \ items
      BY <2>1 DEF GK!AddItem
    <3>2. store \in Stores
      BY <2>1, QueryIs DEF GK!AddItem
    <3> QED
      BY <2>1, <3>1, <3>2, AddedIs DEF Stores, GK!Protected
  <2>2. CASE GK!DeleteItem
    <3>1. gpc # "idle" /\ i \in GK!Found
      BY <2>2 DEF GK!DeleteItem
    <3> QED
      BY <3>1, MatchIs DEF GK!Found, Unnamed
  <2>3. CASE \E j \in found : GK!ConvertResult(j)
    <3>1. gpc # "idle" /\ i \in found
      BY <2>3 DEF GK!ConvertResult
    <3>2. GK!Matches(i, attr["query"])
      BY <3>1 DEF BindingInv, QueryInv
    <3> QED
      BY <3>1, <3>2, MatchIs DEF Unnamed
  <2>4. CASE \/ \E g, n \in Name, p \in BOOLEAN : GK!New(g, n, p)
             \/ \E k \in GK!Kinds, id \in Account \cup {""}, b \in GK!Data : GK!Call(k, id, b)
             \/ \E k \in GK!Key : GK!Convert(k) \/ GK!ConvertFails(k)
             \/ GK!MapToCFDictionary \/ GK!DictionaryFails \/ GK!UpdateItem
             \/ GK!QueryItemRef \/ GK!CallFails \/ GK!QueryDone
    <3>1. items' = items /\ result' \subseteq result
      BY <2>4 DEF GK!New, GK!Call, GK!Convert, GK!ConvertFails, GK!MapToCFDictionary,
                  GK!DictionaryFails, GK!UpdateItem, GK!QueryItemRef, GK!CallFails, GK!QueryDone
    <3> QED
      BY <3>1
  <2> QED
    BY <2>1, <2>2, <2>3, <2>4 DEF GK!Next
<1>2. BindingInv /\ [MCNext]_<<system, vars, darwinVars, gkVars, serviceVars, passVars>> =>
        [\A i \in Changed : Own(i)]_GK!vars
  BY <1>1 DEF MCNext, gkVars, GK!vars
<1> QED
  BY <1>2, BindingInvariant, PTL DEF MCSpec, StoresIsolated, GK!StoresIsolated

\* The types of the five parts: callers, calls and buffers are in range, each
\* reference is counted, loops stay within their lists.
THEOREM NativeTypes == MCSpec => []NativeTypeOK
<1>1. BindingInv /\ PassInv /\ TypeOK /\ Darwin!TypeOK /\ Service!TypeOK /\
      system \in {"windows", "darwin", "binding", "service", "pass"} => NativeTypeOK
  BY DEF NativeTypeOK, BindingInv, PassInv
<1> DEFINE Part == system \in {"windows", "darwin", "binding", "service", "pass"}
<1>2. MCSpec => []Part
  <2>1. MCInit => Part
    BY DEF MCInit
  <2>2. Part /\ [MCNext]_<<system, vars, darwinVars, gkVars, serviceVars, passVars>> => Part'
    BY DEF MCNext
  <2> HIDE DEF Part
  <2> QED
    BY <2>1, <2>2, PTL DEF MCSpec
<1> QED
  BY <1>1, <1>2, BindingInvariant, PassInvariant, PartTypes, PTL
===========================================================================
