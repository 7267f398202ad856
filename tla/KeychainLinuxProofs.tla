-------------------------- MODULE KeychainLinuxProofs --------------------------
(***************************************************************************)
(* Proofs about the Linux store, for any number of callers, items, saves   *)
(* and retries, and whichever faults happen.                               *)
(*                                                                         *)
(* No lock orders the D-Bus calls of two operations, so every invariant is *)
(* about one caller: what it was called with (CallOf), how its retries are *)
(* paid for by relocks (RetryOf), and, while nobody else is active, how    *)
(* the list it works on relates to the collection (CalmOf).  That a Save   *)
(* keeps an item is shown where only reads overlap with it and whatever    *)
(* calls fail (KeepsOf).                                                   *)
(***************************************************************************)
EXTENDS KeychainLinux, FiniteSetTheorems, SequenceTheorems, TLAPS

\* What a caller at a program point was called with, and what it has so far.
CallOf(c) ==
  /\ Active(c) /\ op[c].kind \in {"save", "delete", "get"} => op[c].id \in ID
  /\ Active(c) /\ op[c].kind = "save" => op[c].meta \in Meta /\ op[c].ver \in Version
  /\ pc[c] \in {"create", "secret", "attrs", "collapse"} => op[c].kind = "save"
  /\ pc[c] = "remove" => op[c].kind = "delete"
  /\ pc[c] \in {"read", "load"} => op[c].kind \in {"get", "filter", "metadata"}
  /\ op[c].kind = "delete" => "delete" \in Kinds
  /\ pc[c] # "close" => res[c] = "none"
  /\ op[c].kind = "get" /\ pc[c] # "close" => got[c] = {}
  /\ ~Active(c) => got[c] = {}

\* Where an operation is once it has seen the collection unlocked.
PastUnlock == Retried \cup {"search", "attrs", "read"}

\* Every retry, the one it sleeps for, and a lock it has yet to meet was a
\* relock within this call.
RetryOf(c) ==
  /\ pc[c] \notin Retried => tries[c] = 0 /\ ~asleep[c]
  /\ asleep[c] => tries[c] < MaxRetries
  /\ pc[c] \in PastUnlock => relocks[c] >= tries[c]
  /\ pc[c] \in PastUnlock /\ (locked \/ asleep[c]) => relocks[c] > tries[c]
  /\ res[c] = "locked" => relocks[c] > MaxRetries

Alone(c) == \A d \in Client : d # c => ~Active(d)

\* The item the Save keeps has its secret, and its metadata if no relock came
\* between.
Primary(c, p) ==
  /\ items[p] # NoItem /\ items[p].secret = op[c].ver
  /\ relocks[c] = 0 => items[p].meta = op[c].meta

\* An undisturbed Save has listed all the items of its ID.
SaveOf(c) ==
  /\ pc[c] = "create" => Matching(op[c].id) = {}
  /\ pc[c] \in {"secret", "attrs"} =>
       IsInjective(found[c]) /\ Matching(op[c].id) = Range(found[c])
  /\ pc[c] = "attrs" => items[Head(found[c])].secret = op[c].ver
  /\ pc[c] = "collapse" =>
       /\ IsInjective(found[c])
       /\ \E p \in Path \ Range(found[c]) :
            Primary(c, p) /\ Matching(op[c].id) = {p} \cup Range(found[c])
  /\ pc[c] = "close" /\ op[c].kind = "save" /\ res[c] = "ok" =>
       \E p \in Path : Primary(c, p) /\ Matching(op[c].id) = {p}

\* What an undisturbed Get has listed is still there.
GetOf(c) ==
  /\ op[c].kind = "get" /\ pc[c] \in {"read", "load"} => Range(found[c]) \subseteq Matching(op[c].id)
  /\ op[c].kind = "get" /\ pc[c] = "close" /\ res[c] \in {"ok", "notfound"} =>
       /\ (res[c] = "ok") = (Matching(op[c].id) # {})
       /\ (res[c] = "ok") = (got[c] # {})
       /\ got[c] \subseteq {<<op[c].id, items[p].secret>> : p \in Matching(op[c].id)}

CalmOf(c) ==
  Active(c) /\ calm[c] => Alone(c) /\ GetOf(c) /\ (relocks[c] <= MaxRetries => SaveOf(c))

CallInv == \A c \in Client : CallOf(c)
RetryInv == \A c \in Client : RetryOf(c)
CalmInv == \A c \in Client : CalmOf(c)

-----------------------------------------------------------------------------
(* Lists *)

\* A search returns every matching item, once.
LEMMA ListingsAreComplete ==
  ASSUME NEW S \in SUBSET Path, NEW s \in Listings(S)
  PROVE  /\ s \in Seq(Path) /\ Len(s) <= MaxItems
         /\ Range(s) = S /\ IsInjective(s)
<1> DEFINE n == Cardinality(S)
<1>1. MaxItems \in Nat
  BY KeychainAssumption
<1>2. IsFiniteSet(Path) /\ Cardinality(Path) = MaxItems
  BY <1>1, FS_Interval DEF Path
<1>3. IsFiniteSet(S) /\ n <= MaxItems /\ n \in Nat
  BY <1>2, FS_Subset, FS_CardinalityType
<1>4. s \in [1..n -> S] /\ \A i, j \in 1..n : i # j => s[i] # s[j]
  BY DEF Listings, SetToSeqs
<1>5. s \in Injection(1..n, S)
  BY <1>4 DEF Injection, IsInjective
<1>6. Cardinality(1..n) = n
  BY <1>3, FS_Interval
<1>7. s \in Surjection(1..n, S)
  BY <1>3, <1>5, <1>6, FS_Injection
<1>8. Range(s) = S /\ IsInjective(s)
  BY <1>4, <1>7 DEF Range, Surjection, IsInjective
<1>9. s \in Seq(Path) /\ Len(s) = n
  <2>1. s \in [1..n -> Path]
    BY <1>4
  <2>2. s \in Seq(Path)
    BY <1>3, <2>1, SeqDef
  <2> QED
    BY <1>3, <2>1, <2>2, LenProperties
<1> QED
  BY <1>3, <1>8, <1>9

\* A list with no elements is the empty list.
LEMMA EmptyRange ==
  ASSUME NEW s \in Seq(Path)
  PROVE  s = <<>> <=> Range(s) = {}
<1>1. Len(s) \in Nat /\ DOMAIN s = 1..Len(s)
  BY LenProperties
<1>2. CASE s = <<>>
  <2>1. DOMAIN s = 1..0
    BY <1>1, <1>2, EmptySeq
  <2>2. 1..0 = {}
    OBVIOUS
  <2> QED
    BY <1>2, <2>1, <2>2, Zenon DEF Range
<1>3. CASE s # <<>>
  <2>1. 1 \in DOMAIN s
    BY <1>1, <1>3, EmptySeq
  <2> QED
    BY <1>3, <2>1, Zenon DEF Range
<1> QED
  BY <1>2, <1>3

\* The first item of a list, and the rest.
LEMMA HeadAndRest ==
  ASSUME NEW s \in Seq(Path), s # <<>>
  PROVE  /\ Head(s) \in Path /\ Tail(s) \in Seq(Path) /\ Len(Tail(s)) < Len(s)
         /\ Range(s) = {Head(s)} \cup Range(Tail(s))
         /\ IsInjective(s) => IsInjective(Tail(s)) /\ Head(s) \notin Range(Tail(s))
         /\ Tail(s) = <<>> <=> Range(Tail(s)) = {}
<1>1. /\ Head(s) \in Path /\ Tail(s) \in Seq(Path) /\ Len(Tail(s)) = Len(s) - 1
      /\ \A i \in 1..Len(Tail(s)) : Tail(s)[i] = s[i + 1]
  BY HeadTailProperties
<1>2. Len(s) \in Nat \ {0} /\ DOMAIN s = 1..Len(s) /\ Head(s) = s[1]
  BY EmptySeq, LenProperties
<1>3. DOMAIN Tail(s) = 1..Len(Tail(s)) /\ Len(Tail(s)) \in Nat
  BY <1>1, LenProperties
<1>4. Range(s) = {Head(s)} \cup Range(Tail(s))
  <2>1. ASSUME NEW i \in DOMAIN s PROVE s[i] \in {Head(s)} \cup Range(Tail(s))
    <3>1. CASE i = 1
      BY <1>2, <3>1
    <3>2. CASE i # 1
      <4>1. i - 1 \in DOMAIN Tail(s) /\ Tail(s)[i - 1] = s[i]
        BY <1>1, <1>2, <1>3, <2>1, <3>2
      <4> QED
        BY <4>1 DEF Range
    <3> QED
      BY <3>1, <3>2
  <2>2. ASSUME NEW i \in DOMAIN Tail(s) PROVE Tail(s)[i] \in Range(s)
    <3>1. i + 1 \in DOMAIN s /\ Tail(s)[i] = s[i + 1]
      BY <1>1, <1>2, <1>3, <2>2
    <3> QED
      BY <3>1 DEF Range
  <2>3. Head(s) \in Range(s)
    BY <1>2 DEF Range
  <2> QED
    BY <2>1, <2>2, <2>3 DEF Range
<1>5. ASSUME IsInjective(s) PROVE IsInjective(Tail(s)) /\ Head(s) \notin Range(Tail(s))
  BY <1>1, <1>2, <1>3, <1>5 DEF IsInjective, Range
<1>6. Tail(s) = <<>> <=> Range(Tail(s)) = {}
  BY <1>1, EmptyRange
<1> QED
  BY <1>1, <1>2, <1>3, <1>4, <1>5, <1>6


-----------------------------------------------------------------------------
(* Steps *)

\* Writing a field of an item changes that field of that item.
LEMMA SecretWritten ==
  ASSUME NEW f \in [Path -> Item \cup {NoItem}], NEW p \in Path, f[p] # NoItem,
         NEW v \in Version, NEW g, g = [f EXCEPT ![p].secret = v]
  PROVE  /\ g \in [Path -> Item \cup {NoItem}] /\ g[p] \in Item
         /\ g[p].id = f[p].id /\ g[p].meta = f[p].meta /\ g[p].secret = v
         /\ \A q \in Path : q # p => g[q] = f[q]
<1>1. f[p] \in Item
  OBVIOUS
<1>2. g = [f EXCEPT ![p] = [f[p] EXCEPT !.secret = v]]
  BY Zenon
<1>3. [f[p] EXCEPT !.secret = v] = [id |-> f[p].id, meta |-> f[p].meta, secret |-> v]
  BY <1>1 DEF Item
<1> QED
  BY <1>1, <1>2, <1>3 DEF Item

\* Writing the metadata of an item (SetItemAttributes) leaves its ID, its secret and
\* the other items alone.
LEMMA MetaWritten ==
  ASSUME NEW f \in [Path -> Item \cup {NoItem}], NEW p \in Path, f[p] # NoItem,
         NEW m \in Meta, NEW g, g = [f EXCEPT ![p].meta = m]
  PROVE  /\ g \in [Path -> Item \cup {NoItem}] /\ g[p] \in Item
         /\ g[p].id = f[p].id /\ g[p].meta = m /\ g[p].secret = f[p].secret
         /\ \A q \in Path : q # p => g[q] = f[q]
<1>1. f[p] \in Item
  OBVIOUS
<1>2. g = [f EXCEPT ![p] = [f[p] EXCEPT !.meta = m]]
  BY Zenon
<1>3. [f[p] EXCEPT !.meta = m] = [id |-> f[p].id, meta |-> m, secret |-> f[p].secret]
  BY <1>1 DEF Item
<1> QED
  BY <1>1, <1>2, <1>3 DEF Item

\* A step of one caller leaves the others where they are.
LEMMA ActionIsLocal ==
  ASSUME TypeOK, NEW c \in Client, Call(c) \/ Step(c), NEW d \in Client, d # c
  PROVE  /\ pc'[d] = pc[d] /\ op'[d] = op[d] /\ asleep'[d] = asleep[d]
         /\ found'[d] = found[d] /\ tries'[d] = tries[d] /\ got'[d] = got[d]
         /\ res'[d] = res[d] /\ relocks'[d] = relocks[d]
         /\ locked' => locked
<1>1. CASE Call(c)
  BY <1>1 DEF TypeOK, Call, Goto, daemon
<1>2. CASE Connect(c)
  BY <1>2 DEF TypeOK, Connect, Return, Goto, daemon, aux
<1>3. CASE IsCollectionUnlocked(c)
  BY <1>3 DEF TypeOK, IsCollectionUnlocked, Return, Goto, daemon, aux
<1>4. CASE UnlockCollection(c)
  BY <1>4 DEF TypeOK, UnlockCollection, Return, Goto, daemon, aux
<1>5. CASE SearchCollection(c)
  BY <1>5 DEF TypeOK, SearchCollection, Return, Goto, daemon, aux
<1>6. CASE MeetsLock(c)
  BY <1>6 DEF TypeOK, MeetsLock, RetryFails, Return, Goto, daemon, aux
<1>7. CASE Reunlock(c)
  BY <1>7 DEF TypeOK, Reunlock, Return, Goto, daemon, aux
<1>8. CASE ReunlockFails(c)
  BY <1>8 DEF TypeOK, ReunlockFails, RetryFails, Return, Goto, daemon, aux
<1>9. CASE CallFails(c)
  BY <1>9 DEF TypeOK, CallFails, RetryFails, Return, Goto, daemon, aux
<1>10. CASE CreateItem(c)
  BY <1>10 DEF TypeOK, CreateItem, Return, Goto, daemon, aux
<1>11. CASE SetItemSecret(c)
  BY <1>11 DEF TypeOK, SetItemSecret, Return, Goto, daemon, aux
<1>12. CASE SetItemAttributes(c)
  BY <1>12 DEF TypeOK, SetItemAttributes, Return, Goto, daemon, aux
<1>13. CASE CollapseDuplicate(c)
  BY <1>13 DEF TypeOK, CollapseDuplicate, Return, Goto, daemon, aux
<1>14. CASE DeleteItem(c)
  BY <1>14 DEF TypeOK, DeleteItem, Return, Goto, daemon, aux
<1>15. CASE GetAttributes(c)
  BY <1>15 DEF TypeOK, GetAttributes, Return, Goto, daemon, aux
<1>16. CASE GetSecret(c)
  BY <1>16 DEF TypeOK, GetSecret, Return, Goto, daemon, aux
<1>17. CASE Close(c)
  BY <1>17 DEF TypeOK, Close, Return, Goto, daemon, aux
<1> QED
  BY <1>1, <1>2, <1>3, <1>4, <1>5, <1>6, <1>7, <1>8, <1>9, <1>10, <1>11, <1>12, <1>13, <1>14, <1>15, <1>16, <1>17 DEF Step

\* What the call that fails under withRelockRetry leaves behind.
LEMMA RetryFailsIs ==
  ASSUME TypeOK, NEW c \in Client, NEW r \in {"locked", "error"}, RetryFails(c, r),
         pc[c] \in {"connect", "check", "search", "read"} \cup Retried
  PROVE  /\ tries' = [tries EXCEPT ![c] = 0] /\ asleep' = [asleep EXCEPT ![c] = FALSE]
         /\ \E l \in {pc[c], "close"} : pc' = [pc EXCEPT ![c] = l]
         /\ \E v \in {res[c], "ok", r} : res' = [res EXCEPT ![c] = v]
         /\ found' \in [Client -> Seq(Path)]
         /\ \A d \in Client : Len(found'[d]) <= MaxItems
         /\ \A d \in Client : d # c => found'[d] = found[d]
         /\ \/ pc'[c] = "close" /\ pc[c] # "collapse" /\ res'[c] = r
            \/ pc'[c] = "close" /\ pc[c] = "collapse" /\ res'[c] = "ok"
            \/ /\ pc'[c] = "collapse" /\ pc[c] = "collapse" /\ res' = res
               /\ found'[c] # <<>>
<1>1. CASE pc[c] = "collapse" /\ Rest(c) # <<>>
  <2>1. found[c] \in Seq(Path) /\ found[c] # <<>> /\ Len(found[c]) <= MaxItems
    BY <1>1 DEF TypeOK
  <2>2. Rest(c) \in Seq(Path) /\ Len(Rest(c)) <= MaxItems
    BY <2>1, HeadAndRest, LenProperties, KeychainAssumption DEF Rest
  <2>3. found' = [found EXCEPT ![c] = Rest(c)] /\ pc' = pc /\ res' = res
    BY <1>1 DEF RetryFails
  <2>4. /\ found' \in [Client -> Seq(Path)] /\ found'[c] = Rest(c)
        /\ \A d \in Client : d # c => found'[d] = found[d]
    BY <2>2, <2>3 DEF TypeOK
  <2>5. pc' = [pc EXCEPT ![c] = pc[c]] /\ res' = [res EXCEPT ![c] = res[c]]
    BY <2>3 DEF TypeOK
  <2>6. \A d \in Client : Len(found'[d]) <= MaxItems
    BY <2>2, <2>4 DEF TypeOK
  <2> QED
    BY <1>1, <2>3, <2>4, <2>5, <2>6 DEF RetryFails
<1>2. CASE ~(pc[c] = "collapse" /\ Rest(c) # <<>>)
  BY <1>2 DEF RetryFails, Return, Goto, TypeOK
<1> QED
  BY <1>1, <1>2

\* A call that begins keeps the types.
LEMMA CallTypes ==
  ASSUME TypeOK, NEW c \in Client, Call(c)
  PROVE  TypeOK'
<1>1. op' \in [Client -> [kind : Kind, id : ID \cup {NoID}, meta : Meta \cup {NoMeta},
                          ver : Version \cup {0}]]
  <2>1. NoOp \in [kind : Kind, id : ID \cup {NoID}, meta : Meta \cup {NoMeta},
                  ver : Version \cup {0}]
    BY DEF NoOp, Kind
  <2>2. CASE saves < MaxSaves /\ \E id \in ID, m \in Meta :
               op' = [op EXCEPT ![c] = [kind |-> "save", id |-> id, meta |-> m, ver |-> saves + 1]]
    BY <2>2, KeychainAssumption DEF TypeOK, Kind, Version
  <2>3. CASE \E k \in Kinds \cap {"delete", "get"}, id \in ID :
               op' = [op EXCEPT ![c] = [kind |-> k, id |-> id, meta |-> NoMeta, ver |-> 0]]
    BY <2>3 DEF TypeOK, Kind
  <2>4. CASE \E k \in Kinds \cap {"filter", "metadata"} :
               op' = [op EXCEPT ![c] = [NoOp EXCEPT !.kind = k]]
    BY <2>4 DEF TypeOK, Kind, NoOp
  <2> QED
    BY <2>2, <2>3, <2>4 DEF Call
<1>2. {calm', alone'} \subseteq [Client -> BOOLEAN]
  <2>1. calm' \in [Client -> BOOLEAN]
    BY Zenon DEF Call, TypeOK, Active
  <2>2. alone' \in [Client -> BOOLEAN]
    BY Zenon DEF Call, TypeOK, Active, Changing
  <2> QED
    BY <2>1, <2>2
<1>3. /\ items' \in [Path -> Item \cup {NoItem}] /\ locked' \in BOOLEAN
      /\ asleep' \in [Client -> BOOLEAN] /\ found' \in [Client -> Seq(Path)]
      /\ \A d \in Client : Len(found'[d]) <= MaxItems
      /\ tries' \in [Client -> 0..MaxRetries] /\ got' \in [Client -> SUBSET (ID \X Version)]
      /\ res' \in [Client -> {"none", "ok", "notfound", "locked", "error"}]
  BY DEF Call, TypeOK, daemon
<1>4. /\ relocks' \in [Client -> 0..(MaxRetries + 1)] /\ saves' \in 0..MaxSaves
      /\ calls' \in 0..MaxCalls
  <2>1. relocks' = [relocks EXCEPT ![c] = 0] /\ MaxRetries \in Nat
    BY KeychainAssumption DEF Call
  <2>2. saves' \in 0..MaxSaves /\ calls' \in 0..MaxCalls
    <3>1. /\ calls < MaxCalls /\ calls' = calls + 1
          /\ (saves < MaxSaves /\ saves' = saves + 1) \/ saves' = saves
      BY Zenon DEF Call
    <3> QED
      BY <3>1, KeychainAssumption, SMTT(30) DEF TypeOK
  <2>3. relocks \in [Client -> 0..(MaxRetries + 1)] /\ 0 \in 0..(MaxRetries + 1)
    BY <2>1 DEF TypeOK
  <2> QED
    BY <2>1, <2>2, <2>3
<1>5. /\ pc' \in [Client -> PC]
      /\ \A d \in Client : pc'[d] \in {"secret", "attrs", "collapse", "remove", "read", "load"} =>
            found'[d] # <<>>
  BY DEF Call, TypeOK, Goto, PC
<1> QED
  BY <1>1, <1>2, <1>3, <1>4, <1>5 DEF TypeOK

\* So does a call that fails, or meets a lock and goes to sleep.
LEMMA RetryTypes ==
  ASSUME TypeOK, NEW c \in Client, RetryOf(c), MeetsLock(c) \/ ReunlockFails(c) \/ CallFails(c)
  PROVE  TypeOK'
<1>1. CASE MeetsLock(c) /\ tries[c] < MaxRetries /\ asleep' = [asleep EXCEPT ![c] = TRUE]
           /\ UNCHANGED <<pc, found, tries, res>>
  BY <1>1 DEF TypeOK, MeetsLock, daemon, aux
<1>2. CASE \E r \in {"locked", "error"} : RetryFails(c, r)
  <2>1. PICK r \in {"locked", "error"} : RetryFails(c, r)
    BY <1>2
  <2>2. pc[c] \in {"connect", "check", "search", "read"} \cup Retried
    BY DEF MeetsLock, ReunlockFails, CallFails, RetryOf
  <2>3. PICK l \in {pc[c], "close"} : pc' = [pc EXCEPT ![c] = l]
    BY <2>1, <2>2, RetryFailsIs
  <2>4. PICK v \in {res[c], "ok", r} : res' = [res EXCEPT ![c] = v]
    BY <2>1, <2>2, RetryFailsIs
  <2>5. pc' \in [Client -> PC] /\ res' \in [Client -> {"none", "ok", "notfound", "locked", "error"}]
    BY <2>3, <2>4 DEF TypeOK, PC
  <2>6. tries' \in [Client -> 0..MaxRetries] /\ asleep' \in [Client -> BOOLEAN]
    <3>1. tries' = [tries EXCEPT ![c] = 0] /\ asleep' = [asleep EXCEPT ![c] = FALSE]
      BY <2>1, <2>2, RetryFailsIs
    <3> QED
      BY <3>1, KeychainAssumption DEF TypeOK
  <2>7. found' \in [Client -> Seq(Path)] /\ \A d \in Client : Len(found'[d]) <= MaxItems
    BY <2>1, <2>2, RetryFailsIs
  <2>8. \A d \in Client : pc'[d] \in {"secret", "attrs", "collapse", "remove", "read", "load"} =>
            found'[d] # <<>>
    <3> SUFFICES ASSUME NEW d \in Client,
                        pc'[d] \in {"secret", "attrs", "collapse", "remove", "read", "load"}
                 PROVE  found'[d] # <<>>
      OBVIOUS
    <3>1. CASE d = c
      BY <2>1, <2>2, <3>1, RetryFailsIs
    <3>2. CASE d # c
      BY <2>1, <2>2, <2>3, <3>2, RetryFailsIs DEF TypeOK
    <3> QED
      BY <3>1, <3>2
  <2>9. {calm', alone'} \subseteq [Client -> BOOLEAN] /\ UNCHANGED <<daemon, op, got, relocks, saves, calls>>
    <3>1. alone' = alone /\ (calm' = calm \/ calm' = [calm EXCEPT ![c] = FALSE])
      BY DEF MeetsLock, ReunlockFails, CallFails, aux
    <3>2. UNCHANGED <<daemon, op, got, relocks, saves, calls>>
      BY DEF MeetsLock, ReunlockFails, CallFails, aux
    <3>3. calm \in [Client -> BOOLEAN] /\ alone \in [Client -> BOOLEAN]
      BY DEF TypeOK
    <3>4. calm' \in [Client -> BOOLEAN]
      BY <3>1, <3>3, Zenon
    <3> QED
      BY <3>1, <3>2, <3>3, <3>4
  <2> QED
    BY <2>5, <2>6, <2>7, <2>8, <2>9 DEF TypeOK, daemon
<1> QED
  BY <1>1, <1>2 DEF MeetsLock, ReunlockFails, CallFails

\* Every step of a caller preserves the types; a step on an item has one.
LEMMA StepTypes ==
  ASSUME TypeOK, NEW c \in Client, CallOf(c), RetryOf(c), Step(c)
  PROVE  TypeOK'
<1>0. {MaxItems, MaxRetries} \subseteq Nat
  BY KeychainAssumption
<1> DEFINE Lists == /\ found' \in [Client -> Seq(Path)]
                    /\ \A d \in Client : Len(found'[d]) <= MaxItems
<1>a. ASSUME found[c] # <<>>
      PROVE  /\ Head(found[c]) \in Path /\ Rest(c) \in Seq(Path) /\ Len(Rest(c)) <= MaxItems
             /\ found' = [found EXCEPT ![c] = Rest(c)] => Lists
  <2>1. found[c] \in Seq(Path) /\ Len(found[c]) <= MaxItems
    BY DEF TypeOK
  <2>2. Head(found[c]) \in Path /\ Rest(c) \in Seq(Path) /\ Len(Rest(c)) <= MaxItems
    <3>1. /\ Head(found[c]) \in Path /\ Rest(c) \in Seq(Path)
          /\ Len(Rest(c)) < Len(found[c])
      BY <1>a, <2>1, HeadAndRest DEF Rest
    <3>2. Len(Rest(c)) \in Nat /\ Len(found[c]) \in Nat
      BY <2>1, <3>1, LenProperties
    <3> QED
      BY <1>0, <2>1, <3>1, <3>2
  <2>3. found \in [Client -> Seq(Path)] /\ \A d \in Client : Len(found[d]) <= MaxItems
    BY DEF TypeOK
  <2>4. ASSUME found' = [found EXCEPT ![c] = Rest(c)] PROVE Lists
    BY <2>2, <2>3, <2>4
  <2> QED
    BY <2>2, <2>4
<1> HIDE DEF Lists
<1>i. items \in [Path -> Item \cup {NoItem}]
  BY DEF TypeOK
<1>p. /\ pc \in [Client -> PC] /\ found \in [Client -> Seq(Path)]
      /\ \A d \in Client : pc[d] \in {"secret", "attrs", "collapse", "remove", "read", "load"} =>
           found[d] # <<>>
  BY DEF TypeOK
<1>r. res \in [Client -> {"none", "ok", "notfound", "locked", "error"}]
      /\ {calm, alone} \subseteq [Client -> BOOLEAN]
  BY DEF TypeOK
<1>t. tries \in [Client -> 0..MaxRetries]
  BY DEF TypeOK
<1>g. got \in [Client -> SUBSET (ID \X Version)]
  BY DEF TypeOK
<1>1. CASE Connect(c)
  BY <1>0, <1>1, EmptySeq DEF TypeOK, Connect, Return, Goto, daemon, aux, PC, Retried, NoOp, RetryOf, Kind
<1>2. CASE IsCollectionUnlocked(c)
  BY <1>0, <1>2, EmptySeq DEF TypeOK, IsCollectionUnlocked, Return, Goto, daemon, aux, PC, Retried, NoOp, RetryOf, Kind
<1>3. CASE UnlockCollection(c)
  BY <1>0, <1>3, EmptySeq DEF TypeOK, UnlockCollection, Return, Goto, daemon, aux, PC, Retried, NoOp, RetryOf, Kind
<1>4. CASE SearchCollection(c)
  <2>1. PICK list \in Listings(Matching(op[c].id)) :
          /\ found' = [found EXCEPT ![c] = list]
          /\ \/ \E l \in {"create", "close"} : list = <<>> /\ pc' = [pc EXCEPT ![c] = l]
             \/ \E l \in {"secret", "remove", "read"} : list # <<>> /\ pc' = [pc EXCEPT ![c] = l]
          /\ \E v \in {res[c], "ok", "notfound"} : res' = [res EXCEPT ![c] = v]
    BY <1>4, <1>p, <1>r DEF SearchCollection, Return, Goto
  <2>2. list \in Seq(Path) /\ Len(list) <= MaxItems
    BY ListingsAreComplete DEF Matching
  <2>3. Lists /\ \A d \in Client : found'[d] = IF d = c THEN list ELSE found[d]
    BY <2>1, <2>2 DEF TypeOK, Lists
  <2>4. /\ pc' \in [Client -> PC]
        /\ \A d \in Client : pc'[d] \in {"secret", "attrs", "collapse", "remove", "read", "load"} =>
              found'[d] # <<>>
    BY <1>p, <2>1, <2>3 DEF PC
  <2>5. res' \in [Client -> {"none", "ok", "notfound", "locked", "error"}]
    BY <2>1 DEF TypeOK
  <2> QED
    BY <1>4, <2>3, <2>4, <2>5 DEF SearchCollection, TypeOK, Lists, daemon, aux
<1>5. CASE MeetsLock(c)
  BY <1>5, RetryTypes
<1>6. CASE Reunlock(c)
  <2>1. tries' \in [Client -> 0..MaxRetries] /\ asleep' \in [Client -> BOOLEAN]
    BY <1>0, <1>6, <1>t DEF TypeOK, Reunlock, RetryOf
  <2>2. locked' \in BOOLEAN /\ UNCHANGED <<items, pc, op, found, got, res, aux>>
    BY <1>6 DEF Reunlock
  <2> QED
    BY <2>1, <2>2 DEF TypeOK, aux
<1>7. CASE ReunlockFails(c)
  BY <1>7, RetryTypes
<1>8. CASE CallFails(c)
  BY <1>8, RetryTypes
<1>9. CASE CreateItem(c)
  <2>1. op[c].id \in ID /\ op[c].meta \in Meta /\ op[c].ver \in Version
    BY <1>9 DEF CallOf, CreateItem, Active
  <2>2. items' \in [Path -> Item \cup {NoItem}]
    BY <1>9, <2>1 DEF CreateItem, CreatePaths, SameAttributes, TypeOK, Item
  <2>3. Lists
    BY <1>9, <1>a DEF CreateItem, TypeOK, Lists
  <2>4. /\ pc' \in [Client -> PC]
        /\ \A d \in Client : pc'[d] \in {"secret", "attrs", "collapse", "remove", "read", "load"} =>
              found'[d] # <<>>
    BY <1>p, <1>9 DEF CreateItem, PC, Return, Goto
  <2>5. /\ res' \in [Client -> {"none", "ok", "notfound", "locked", "error"}]
        /\ tries' \in [Client -> 0..MaxRetries] /\ {calm', alone'} \subseteq [Client -> BOOLEAN]
    BY <1>0, <1>r, <1>t, <1>9 DEF CreateItem, Return, aux
  <2> QED
    BY <1>9, <2>2, <2>3, <2>4, <2>5 DEF CreateItem, TypeOK, Lists, aux
<1>10. CASE SetItemSecret(c)
  <2>1. op[c].ver \in Version /\ Head(found[c]) \in Path
    BY <1>10, <1>a DEF CallOf, SetItemSecret, Active, TypeOK
  <2>2. items' \in [Path -> Item \cup {NoItem}]
    BY <1>i, <1>10, <2>1, SecretWritten DEF SetItemSecret
  <2>3. Lists
    BY <1>10, <1>a DEF SetItemSecret, TypeOK, Lists
  <2>4. /\ pc' \in [Client -> PC]
        /\ \A d \in Client : pc'[d] \in {"secret", "attrs", "collapse", "remove", "read", "load"} =>
              found'[d] # <<>>
    BY <1>p, <1>10 DEF SetItemSecret, PC, Return, Goto
  <2>5. /\ res' \in [Client -> {"none", "ok", "notfound", "locked", "error"}]
        /\ tries' \in [Client -> 0..MaxRetries] /\ {calm', alone'} \subseteq [Client -> BOOLEAN]
    BY <1>0, <1>r, <1>t, <1>10 DEF SetItemSecret, Return, aux
  <2> QED
    BY <1>10, <2>2, <2>3, <2>4, <2>5 DEF SetItemSecret, TypeOK, Lists, aux
<1>11. CASE SetItemAttributes(c)
  <2>1. op[c].meta \in Meta /\ Head(found[c]) \in Path
    BY <1>11, <1>a DEF CallOf, SetItemAttributes, Active, TypeOK
  <2>2. items' \in [Path -> Item \cup {NoItem}]
    BY <1>i, <1>11, <2>1, MetaWritten DEF SetItemAttributes
  <2>3. Lists
    BY <1>11, <1>a DEF SetItemAttributes, TypeOK, Lists
  <2>4. /\ pc' \in [Client -> PC]
        /\ \A d \in Client : pc'[d] \in {"secret", "attrs", "collapse", "remove", "read", "load"} =>
              found'[d] # <<>>
    BY <1>p, <1>11 DEF SetItemAttributes, PC, Return, Goto
  <2>5. /\ res' \in [Client -> {"none", "ok", "notfound", "locked", "error"}]
        /\ tries' \in [Client -> 0..MaxRetries] /\ {calm', alone'} \subseteq [Client -> BOOLEAN]
    BY <1>0, <1>r, <1>t, <1>11 DEF SetItemAttributes, Return, aux
  <2> QED
    BY <1>11, <2>2, <2>3, <2>4, <2>5 DEF SetItemAttributes, TypeOK, Lists, aux
<1>12. CASE CollapseDuplicate(c)
  <2>1. Head(found[c]) \in Path
    BY <1>12, <1>a DEF CollapseDuplicate, TypeOK
  <2>2. items' \in [Path -> Item \cup {NoItem}]
    BY <1>i, <1>12, <2>1 DEF CollapseDuplicate
  <2>3. Lists
    BY <1>12, <1>a DEF CollapseDuplicate, TypeOK, Lists
  <2>4. /\ pc' \in [Client -> PC]
        /\ \A d \in Client : pc'[d] \in {"secret", "attrs", "collapse", "remove", "read", "load"} =>
              found'[d] # <<>>
    BY <1>p, <1>12 DEF CollapseDuplicate, PC, Return, Goto
  <2>5. /\ res' \in [Client -> {"none", "ok", "notfound", "locked", "error"}]
        /\ tries' \in [Client -> 0..MaxRetries] /\ {calm', alone'} \subseteq [Client -> BOOLEAN]
    <3>1. /\ tries' = [tries EXCEPT ![c] = 0] /\ calm' = calm /\ alone' = alone
          /\ res' = [res EXCEPT ![c] = "ok"] \/ res' = res
      BY <1>12 DEF CollapseDuplicate, Return, aux
    <3> QED
      BY <1>0, <1>r, <1>t, <3>1
  <2> QED
    BY <1>12, <2>2, <2>3, <2>4, <2>5 DEF CollapseDuplicate, TypeOK, Lists, aux
<1>13. CASE DeleteItem(c)
  <2>1. Head(found[c]) \in Path
    BY <1>13, <1>a DEF DeleteItem, TypeOK
  <2>2. items' \in [Path -> Item \cup {NoItem}]
    BY <1>i, <1>13, <2>1 DEF DeleteItem
  <2>3. Lists
    BY <1>13, <1>a DEF DeleteItem, TypeOK, Lists
  <2>4. /\ pc' \in [Client -> PC]
        /\ \A d \in Client : pc'[d] \in {"secret", "attrs", "collapse", "remove", "read", "load"} =>
              found'[d] # <<>>
    BY <1>p, <1>13 DEF DeleteItem, PC, Return, Goto
  <2>5. /\ res' \in [Client -> {"none", "ok", "notfound", "locked", "error"}]
        /\ tries' \in [Client -> 0..MaxRetries] /\ {calm', alone'} \subseteq [Client -> BOOLEAN]
    BY <1>0, <1>r, <1>t, <1>13 DEF DeleteItem, Return, aux
  <2> QED
    BY <1>13, <2>2, <2>3, <2>4, <2>5 DEF DeleteItem, TypeOK, Lists, aux
<1>14. CASE GetAttributes(c)
  <2>1. got' \in [Client -> SUBSET (ID \X Version)]
    BY <1>14 DEF GetAttributes, TypeOK
  <2>3. Lists
    BY <1>14, <1>a DEF GetAttributes, TypeOK, Lists
  <2>4. /\ pc' \in [Client -> PC]
        /\ \A d \in Client : pc'[d] \in {"secret", "attrs", "collapse", "remove", "read", "load"} =>
              found'[d] # <<>>
    BY <1>p, <1>14 DEF GetAttributes, PC, Return, Goto
  <2>5. /\ res' \in [Client -> {"none", "ok", "notfound", "locked", "error"}]
        /\ tries' \in [Client -> 0..MaxRetries]
    BY <1>0, <1>r, <1>t, <1>14 DEF GetAttributes, Return
  <2> QED
    BY <1>14, <2>1, <2>3, <2>4, <2>5 DEF GetAttributes, TypeOK, Lists, daemon, aux
<1>15. CASE GetSecret(c)
  <2>0. Head(found[c]) \in Path
    BY <1>15, <1>a DEF GetSecret, TypeOK
  <2>1. got' \in [Client -> SUBSET (ID \X Version)]
    BY <1>15, <1>i, <1>g, <2>0 DEF GetSecret, Item
  <2>3. Lists
    BY <1>15, <1>a DEF GetSecret, TypeOK, Lists
  <2>4. /\ pc' \in [Client -> PC]
        /\ \A d \in Client : pc'[d] \in {"secret", "attrs", "collapse", "remove", "read", "load"} =>
              found'[d] # <<>>
    BY <1>p, <1>15 DEF GetSecret, PC, Return, Goto
  <2>5. /\ res' \in [Client -> {"none", "ok", "notfound", "locked", "error"}]
        /\ tries' \in [Client -> 0..MaxRetries]
    <3>1. tries' = [tries EXCEPT ![c] = 0]
      BY <1>15 DEF GetSecret
    <3>2. res' = res \/ \E v \in {"ok", "error"} : res' = [res EXCEPT ![c] = v]
      BY <1>15 DEF GetSecret, Return
    <3> QED
      BY <1>0, <1>r, <1>t, <3>1, <3>2
  <2>6. UNCHANGED <<items, locked, op, asleep, relocks, calm, alone, saves, calls>>
    BY <1>15 DEF GetSecret, daemon, aux
  <2> QED
    BY <2>1, <2>3, <2>4, <2>5, <2>6 DEF TypeOK, Lists
<1>16. CASE Close(c)
  BY <1>0, <1>16, EmptySeq DEF TypeOK, Close, Return, Goto, daemon, aux, PC, Retried, NoOp, RetryOf, Kind
<1> QED
  BY <1>1, <1>2, <1>3, <1>4, <1>5, <1>6, <1>7, <1>8, <1>9, <1>10, <1>11, <1>12, <1>13, <1>14, <1>15, <1>16 DEF Step

\* A caller keeps to what it was called with.
LEMMA CallKept ==
  ASSUME TypeOK, NEW c \in Client, CallOf(c), RetryOf(c), Call(c) \/ Step(c)
  PROVE  CallOf(c)'
<1>p. /\ pc \in [Client -> PC] /\ res \in [Client -> {"none", "ok", "notfound", "locked", "error"}]
      /\ got \in [Client -> SUBSET (ID \X Version)]
  BY DEF TypeOK
<1>0. CASE Call(c)
  <2>1. /\ op'[c].kind \in {"save", "delete", "get"} => op'[c].id \in ID
        /\ op'[c].kind = "save" => op'[c].meta \in Meta /\ op'[c].ver \in Version
        /\ op'[c].kind = "delete" => "delete" \in Kinds
    <3>1. CASE /\ saves < MaxSaves
               /\ \E id \in ID, m \in Meta :
                    op' = [op EXCEPT ![c] = [kind |-> "save", id |-> id, meta |-> m, ver |-> saves + 1]]
      BY <3>1, KeychainAssumption DEF TypeOK, Version
    <3>2. CASE \E k \in Kinds \cap {"delete", "get"}, id \in ID :
                 op' = [op EXCEPT ![c] = [kind |-> k, id |-> id, meta |-> NoMeta, ver |-> 0]]
      BY <3>2 DEF TypeOK
    <3>3. CASE \E k \in Kinds \cap {"filter", "metadata"} :
                 op' = [op EXCEPT ![c] = [NoOp EXCEPT !.kind = k]]
      BY <3>3 DEF TypeOK, NoOp
    <3> QED
      BY <1>0, <3>1, <3>2, <3>3 DEF Call
  <2>2. pc'[c] = "connect" /\ res' = res /\ got' = got /\ pc[c] = "idle"
    BY <1>p, <1>0 DEF Call, Goto
  <2>3. res[c] = "none" /\ got[c] = {}
    BY <1>0 DEF Call, CallOf, Active
  <2> QED
    BY <2>1, <2>2, <2>3 DEF CallOf, Active
<1>1. CASE Connect(c)
  BY <1>p, <1>1 DEF CallOf, Active, Connect, Return, Goto
<1>2. CASE IsCollectionUnlocked(c)
  BY <1>p, <1>2 DEF CallOf, Active, IsCollectionUnlocked, Return, Goto
<1>3. CASE UnlockCollection(c)
  BY <1>p, <1>3 DEF CallOf, Active, UnlockCollection, Return, Goto
<1>4. CASE SearchCollection(c)
  <2>1. op' = op /\ got' = got /\ pc[c] = "search"
    BY <1>4 DEF SearchCollection
  <2>2. \/ pc'[c] \in {"create", "secret"} /\ op[c].kind = "save" /\ res' = res
        \/ pc'[c] = "remove" /\ op[c].kind = "delete" /\ res' = res
        \/ pc'[c] = "read" /\ op[c].kind \notin {"save", "delete"} /\ res' = res
        \/ pc'[c] = "close"
    BY <1>p, <1>4 DEF SearchCollection, Return, Goto
  <2>3. op[c].kind \in {"save", "delete", "get", "filter", "metadata"}
    BY DEF TypeOK, Kind
  <2> QED
    BY <2>1, <2>2, <2>3 DEF CallOf, Active
<1>5. CASE MeetsLock(c)
  <2>1. op' = op /\ got' = got
    BY <1>5 DEF MeetsLock
  <2>2. \/ pc' = pc /\ res' = res
        \/ pc'[c] = "close" /\ pc[c] # "idle"
    BY <1>p, <1>5 DEF MeetsLock, RetryFails, Return, Goto, RetryOf, Retried
  <2> QED
    BY <2>1, <2>2 DEF CallOf, Active
<1>6. CASE Reunlock(c)
  BY <1>p, <1>6 DEF CallOf, Active, Reunlock, Return, Goto
<1>7. CASE ReunlockFails(c)
  <2>1. op' = op /\ got' = got
    BY <1>7 DEF ReunlockFails
  <2>2. \/ pc' = pc /\ res' = res
        \/ pc'[c] = "close" /\ pc[c] # "idle"
    BY <1>p, <1>7 DEF ReunlockFails, RetryFails, Return, Goto, RetryOf, Retried
  <2> QED
    BY <2>1, <2>2 DEF CallOf, Active
<1>8. CASE CallFails(c)
  <2>1. op' = op /\ got' = got
    BY <1>8 DEF CallFails
  <2>2. \/ pc' = pc /\ res' = res
        \/ pc'[c] = "close" /\ pc[c] # "idle"
    BY <1>p, <1>8 DEF CallFails, RetryFails, Return, Goto, RetryOf, Retried
  <2> QED
    BY <2>1, <2>2 DEF CallOf, Active
<1>9. CASE CreateItem(c)
  BY <1>p, <1>9 DEF CallOf, Active, CreateItem, Return, Goto
<1>10. CASE SetItemSecret(c)
  BY <1>p, <1>10 DEF CallOf, Active, SetItemSecret, Return, Goto
<1>11. CASE SetItemAttributes(c)
  BY <1>p, <1>11 DEF CallOf, Active, SetItemAttributes, Return, Goto
<1>12. CASE CollapseDuplicate(c)
  BY <1>p, <1>12 DEF CallOf, Active, CollapseDuplicate, Return, Goto
<1>13. CASE DeleteItem(c)
  BY <1>p, <1>13 DEF CallOf, Active, DeleteItem, Return, Goto
<1>14. CASE GetAttributes(c)
  BY <1>p, <1>14 DEF CallOf, Active, GetAttributes, Return, Goto
<1>15. CASE GetSecret(c)
  BY <1>p, <1>15 DEF CallOf, Active, GetSecret, Return, Goto
<1>16. CASE Close(c)
  BY <1>p, <1>16 DEF CallOf, Active, Close, Goto, NoOp, TypeOK
<1> QED
  BY <1>0, <1>1, <1>2, <1>3, <1>4, <1>5, <1>6, <1>7, <1>8, <1>9, <1>10, <1>11, <1>12, <1>13, <1>14, <1>15, <1>16 DEF Step

\* Retries are paid for by relocks.
LEMMA RetryKept ==
  ASSUME TypeOK, NEW c \in Client, CallOf(c), RetryOf(c), Call(c) \/ Step(c)
  PROVE  RetryOf(c)'
<1>p. /\ pc \in [Client -> PC] /\ res \in [Client -> {"none", "ok", "notfound", "locked", "error"}]
      /\ tries \in [Client -> 0..MaxRetries] /\ asleep \in [Client -> BOOLEAN]
      /\ relocks \in [Client -> 0..(MaxRetries + 1)] /\ MaxRetries \in Nat
  BY KeychainAssumption DEF TypeOK
<1>0. CASE Call(c)
  <2>1. /\ pc'[c] = "connect" /\ res' = res /\ tries' = tries /\ asleep' = asleep
        /\ pc[c] = "idle"
    BY <1>p, <1>0 DEF Call, Goto
  <2>2. res[c] = "none"
    BY <1>0 DEF Call, CallOf
  <2> QED
    BY <2>1, <2>2 DEF RetryOf, Retried, PastUnlock
<1>1. CASE Connect(c)
  BY <1>p, <1>1 DEF RetryOf, Retried, PastUnlock, CallOf, Connect, Return, Goto, daemon, aux
<1>2. CASE IsCollectionUnlocked(c)
  BY <1>p, <1>2 DEF RetryOf, Retried, PastUnlock, CallOf, IsCollectionUnlocked, Return, Goto, daemon, aux
<1>3. CASE UnlockCollection(c)
  BY <1>p, <1>3 DEF RetryOf, Retried, PastUnlock, CallOf, UnlockCollection, Return, Goto, daemon, aux
<1>4. CASE SearchCollection(c)
  <2>1. relocks' = relocks /\ locked' = locked /\ asleep' = asleep /\ tries' = tries
    BY <1>p, <1>4 DEF SearchCollection, daemon, aux
  <2>2. /\ ~asleep[c] /\ tries[c] = 0 /\ pc[c] \in PastUnlock /\ res[c] = "none"
    BY <1>4 DEF SearchCollection, RetryOf, CallOf, Retried, PastUnlock
  <2>3. res'[c] # "locked"
    BY <1>p, <1>4, <2>2 DEF SearchCollection, Return
  <2>4. pc'[c] \in PastUnlock \cup {"close"}
    BY <1>p, <1>4 DEF SearchCollection, Return, Goto, PastUnlock, Retried
  <2> QED
    BY <1>p, <2>1, <2>2, <2>3, <2>4 DEF RetryOf
<1>5. CASE MeetsLock(c)
  <2>1. relocks' = relocks /\ locked' = locked
    BY <1>5 DEF MeetsLock, daemon, aux
  <2>2. CASE tries[c] < MaxRetries /\ asleep' = [asleep EXCEPT ![c] = TRUE]
               /\ UNCHANGED <<pc, found, tries, res>>
    BY <1>p, <1>5, <2>1, <2>2 DEF MeetsLock, RetryOf, Retried, PastUnlock
  <2>3. CASE tries[c] = MaxRetries /\ RetryFails(c, "locked")
    <3>1. relocks[c] > MaxRetries
      BY <1>p, <1>5, <2>3 DEF MeetsLock, RetryOf, PastUnlock
    <3>2. /\ tries'[c] = 0 /\ ~asleep'[c]
          /\ pc'[c] = "close" \/ (pc' = pc /\ res' = res)
      BY <1>p, <2>3 DEF RetryFails, Return, Goto
    <3>3. relocks'[c] >= 0 /\ relocks'[c] > 0 /\ relocks'[c] > MaxRetries
      BY <1>p, <2>1, <3>1
    <3> QED
      BY <3>2, <3>3 DEF RetryOf
  <2> QED
    BY <1>5, <2>2, <2>3 DEF MeetsLock
<1>6. CASE Reunlock(c)
  BY <1>p, <1>6 DEF RetryOf, Retried, PastUnlock, CallOf, Reunlock, Return, Goto, daemon, aux
<1>7. CASE ReunlockFails(c)
  <2>1. relocks' = relocks /\ locked' = locked
    BY <1>7 DEF ReunlockFails, daemon, aux
  <2>2. tries'[c] = 0 /\ ~asleep'[c]
    BY <1>p, <1>7 DEF ReunlockFails, RetryFails
  <2>3. (pc'[c] = "close" /\ res'[c] # "locked") \/ (pc' = pc /\ res' = res)
    BY <1>p, <1>7 DEF ReunlockFails, RetryFails, Return, Goto
  <2>4. CASE pc'[c] = "close" /\ res'[c] # "locked"
    BY <2>2, <2>4 DEF RetryOf, Retried, PastUnlock
  <2>5. CASE pc' = pc /\ res' = res
    <3>1. tries[c] \in Int /\ tries[c] >= 0 /\ relocks[c] \in Int /\ relocks[c] >= 0
      BY <1>p
    <3>2. pc[c] \in PastUnlock /\ locked => relocks[c] > 0
      BY <3>1 DEF RetryOf
    <3> QED
      BY <2>1, <2>2, <2>5, <3>1, <3>2 DEF RetryOf
  <2> QED
    BY <2>3, <2>4, <2>5
<1>8. CASE CallFails(c)
  <2>1. relocks' = relocks /\ locked' = locked
    BY <1>8 DEF CallFails, daemon, aux
  <2>2. tries'[c] = 0 /\ ~asleep'[c]
    BY <1>p, <1>8 DEF CallFails, RetryFails
  <2>3. (pc'[c] = "close" /\ res'[c] # "locked") \/ (pc' = pc /\ res' = res)
    BY <1>p, <1>8 DEF CallFails, RetryFails, Return, Goto
  <2>4. CASE pc'[c] = "close" /\ res'[c] # "locked"
    BY <2>2, <2>4 DEF RetryOf, Retried, PastUnlock
  <2>5. CASE pc' = pc /\ res' = res
    <3>1. tries[c] \in Int /\ tries[c] >= 0 /\ relocks[c] \in Int /\ relocks[c] >= 0
      BY <1>p
    <3>2. pc[c] \in PastUnlock /\ locked => relocks[c] > 0
      BY <3>1 DEF RetryOf
    <3> QED
      BY <2>1, <2>2, <2>5, <3>1, <3>2 DEF RetryOf
  <2> QED
    BY <2>3, <2>4, <2>5
<1>9. CASE CreateItem(c)
  <2>1. relocks' = relocks /\ locked' = locked /\ asleep' = asleep /\ tries'[c] = 0
    BY <1>p, <1>9 DEF CreateItem, daemon, aux
  <2>2. /\ ~asleep[c] /\ pc[c] \in PastUnlock /\ res[c] = "none"
    BY <1>9 DEF CreateItem, RetryOf, CallOf, Retried, PastUnlock
  <2>3. res'[c] # "locked"
    BY <1>p, <1>9, <2>2 DEF CreateItem, Return
  <2>4. pc'[c] \in PastUnlock \cup {"close"}
    BY <1>p, <1>9 DEF CreateItem, Return, Goto, PastUnlock, Retried
  <2> QED
    BY <1>p, <2>1, <2>2, <2>3, <2>4 DEF RetryOf
<1>10. CASE SetItemSecret(c)
  <2>1. relocks' = relocks /\ locked' = locked /\ asleep' = asleep /\ tries'[c] = 0
    BY <1>p, <1>10 DEF SetItemSecret, daemon, aux
  <2>2. /\ ~asleep[c] /\ pc[c] \in PastUnlock /\ res[c] = "none"
    BY <1>10 DEF SetItemSecret, RetryOf, CallOf, Retried, PastUnlock
  <2>3. res'[c] # "locked"
    BY <1>p, <1>10, <2>2 DEF SetItemSecret, Return
  <2>4. pc'[c] \in PastUnlock \cup {"close"}
    BY <1>p, <1>10 DEF SetItemSecret, Return, Goto, PastUnlock, Retried
  <2> QED
    BY <1>p, <2>1, <2>2, <2>3, <2>4 DEF RetryOf
<1>11. CASE SetItemAttributes(c)
  <2>1. relocks' = relocks /\ locked' = locked /\ asleep' = asleep /\ tries' = tries
    BY <1>p, <1>11 DEF SetItemAttributes, daemon, aux
  <2>2. /\ ~asleep[c] /\ tries[c] = 0 /\ pc[c] \in PastUnlock /\ res[c] = "none"
    BY <1>11 DEF SetItemAttributes, RetryOf, CallOf, Retried, PastUnlock
  <2>3. res'[c] # "locked"
    BY <1>p, <1>11, <2>2 DEF SetItemAttributes, Return
  <2>4. pc'[c] \in PastUnlock \cup {"close"}
    BY <1>p, <1>11 DEF SetItemAttributes, Return, Goto, PastUnlock, Retried
  <2> QED
    BY <1>p, <2>1, <2>2, <2>3, <2>4 DEF RetryOf
<1>12. CASE CollapseDuplicate(c)
  <2>1. relocks' = relocks /\ locked' = locked /\ asleep' = asleep /\ tries'[c] = 0
    BY <1>p, <1>12 DEF CollapseDuplicate, daemon, aux
  <2>2. /\ ~asleep[c] /\ pc[c] \in PastUnlock /\ res[c] = "none"
    BY <1>12 DEF CollapseDuplicate, RetryOf, CallOf, Retried, PastUnlock
  <2>3. res'[c] # "locked"
    BY <1>p, <1>12, <2>2 DEF CollapseDuplicate, Return
  <2>4. pc'[c] \in PastUnlock \cup {"close"}
    BY <1>p, <1>12 DEF CollapseDuplicate, Return, Goto, PastUnlock, Retried
  <2> QED
    BY <1>p, <2>1, <2>2, <2>3, <2>4 DEF RetryOf
<1>13. CASE DeleteItem(c)
  <2>1. relocks' = relocks /\ locked' = locked /\ asleep' = asleep /\ tries'[c] = 0
    BY <1>p, <1>13 DEF DeleteItem, daemon, aux
  <2>2. /\ ~asleep[c] /\ pc[c] \in PastUnlock /\ res[c] = "none"
    BY <1>13 DEF DeleteItem, RetryOf, CallOf, Retried, PastUnlock
  <2>3. res'[c] # "locked"
    BY <1>p, <1>13, <2>2 DEF DeleteItem, Return
  <2>4. pc'[c] \in PastUnlock \cup {"close"}
    BY <1>p, <1>13 DEF DeleteItem, Return, Goto, PastUnlock, Retried
  <2> QED
    BY <1>p, <2>1, <2>2, <2>3, <2>4 DEF RetryOf
<1>14. CASE GetAttributes(c)
  <2>1. relocks' = relocks /\ locked' = locked /\ asleep' = asleep /\ tries' = tries
    BY <1>p, <1>14 DEF GetAttributes, daemon, aux
  <2>2. /\ ~asleep[c] /\ tries[c] = 0 /\ pc[c] \in PastUnlock /\ res[c] = "none"
    BY <1>14 DEF GetAttributes, RetryOf, CallOf, Retried, PastUnlock
  <2>3. res'[c] # "locked"
    BY <1>p, <1>14, <2>2 DEF GetAttributes, Return
  <2>4. pc'[c] \in PastUnlock \cup {"close"}
    BY <1>p, <1>14 DEF GetAttributes, Return, Goto, PastUnlock, Retried
  <2> QED
    BY <1>p, <2>1, <2>2, <2>3, <2>4 DEF RetryOf
<1>15. CASE GetSecret(c)
  <2>1. relocks' = relocks /\ locked' = locked /\ asleep' = asleep /\ tries'[c] = 0
    BY <1>p, <1>15 DEF GetSecret, daemon, aux
  <2>2. /\ ~asleep[c] /\ pc[c] \in PastUnlock /\ res[c] = "none"
    BY <1>15 DEF GetSecret, RetryOf, CallOf, Retried, PastUnlock
  <2>3. res'[c] # "locked"
    BY <1>p, <1>15, <2>2 DEF GetSecret, Return
  <2>4. pc'[c] \in PastUnlock \cup {"close"}
    BY <1>p, <1>15 DEF GetSecret, Return, Goto, PastUnlock, Retried
  <2> QED
    BY <1>p, <2>1, <2>2, <2>3, <2>4 DEF RetryOf
<1>16. CASE Close(c)
  BY <1>p, <1>16 DEF RetryOf, Retried, PastUnlock, CallOf, Close, Return, Goto, daemon, aux
<1> QED
  BY <1>0, <1>1, <1>2, <1>3, <1>4, <1>5, <1>6, <1>7, <1>8, <1>9, <1>10, <1>11, <1>12, <1>13, <1>14, <1>15, <1>16 DEF Step

\* What another caller does leaves both alone: it can only unlock.
LEMMA OthersKept ==
  ASSUME TypeOK, NEW c \in Client, Call(c) \/ Step(c), NEW d \in Client, d # c
  PROVE  (CallOf(d) => CallOf(d)') /\ (RetryOf(d) => RetryOf(d)')
<1>1. /\ pc'[d] = pc[d] /\ op'[d] = op[d] /\ asleep'[d] = asleep[d]
      /\ found'[d] = found[d] /\ tries'[d] = tries[d] /\ got'[d] = got[d]
      /\ res'[d] = res[d] /\ relocks'[d] = relocks[d]
      /\ locked' => locked
  BY ActionIsLocal
<1> QED
  BY <1>1 DEF CallOf, RetryOf, Active

\* A relock by the daemon keeps what is known of the calls, and pays for a retry.
LEMMA RelockKept ==
  ASSUME TypeOK, CallInv, RetryInv, Relock
  PROVE  TypeOK' /\ CallInv' /\ RetryInv'
<1>1. /\ locked' = TRUE /\ UNCHANGED <<items, pc, op, asleep, found, tries, got, res, calm, alone, saves, calls>>
      /\ relocks' = [c \in Client |->
           IF Active(c) /\ relocks[c] <= MaxRetries THEN relocks[c] + 1 ELSE relocks[c]]
  BY DEF Relock
<1>2. relocks \in [Client -> 0..(MaxRetries + 1)] /\ MaxRetries \in Nat
  BY KeychainAssumption DEF TypeOK
<1>3. relocks' \in [Client -> 0..(MaxRetries + 1)]
  BY <1>1, <1>2
<1>4. TypeOK'
  BY <1>1, <1>3 DEF TypeOK
<1>5. CallInv'
  BY <1>1 DEF CallInv, CallOf, Active
<1>6. ASSUME NEW c \in Client PROVE RetryOf(c)'
  <2>1. RetryOf(c) /\ tries[c] \in 0..MaxRetries
    BY DEF RetryInv, TypeOK
  <2>2. relocks'[c] >= relocks[c]
    BY <1>1, <1>2
  <2>3. pc[c] \in PastUnlock => relocks'[c] > relocks[c] \/ relocks'[c] > MaxRetries
    BY <1>1, <1>2 DEF Active, PastUnlock, Retried
  <2> QED
    BY <1>1, <1>2, <1>3, <2>1, <2>2, <2>3 DEF RetryOf
<1> QED
  BY <1>4, <1>5, <1>6 DEF RetryInv

-----------------------------------------------------------------------------
(* Undisturbed operations *)

\* Only a call in progress takes steps; nobody else's record of being
\* undisturbed changes, and what was disturbed stays disturbed.
LEMMA StepOfActive ==
  ASSUME TypeOK, NEW c \in Client, RetryOf(c), Step(c)
  PROVE  /\ Active(c) /\ relocks' = relocks
         /\ \A d \in Client : d # c => calm'[d] = calm[d]
         /\ calm'[c] => calm[c]
<1>1. Active(c)
  BY DEF Step, Connect, IsCollectionUnlocked, UnlockCollection, SearchCollection, MeetsLock,
         Reunlock, ReunlockFails, CallFails, CreateItem, SetItemSecret, SetItemAttributes,
         CollapseDuplicate, DeleteItem, GetAttributes, GetSecret, Close, RetryOf, Retried, Active
<1>2. relocks' = relocks /\ (calm' = calm \/ calm' = [calm EXCEPT ![c] = FALSE])
  BY DEF Step, Connect, IsCollectionUnlocked, UnlockCollection, SearchCollection, MeetsLock,
         Reunlock, ReunlockFails, CallFails, CreateItem, SetItemSecret, SetItemAttributes,
         CollapseDuplicate, DeleteItem, GetAttributes, GetSecret, Close, aux
<1> QED
  BY <1>1, <1>2 DEF TypeOK

\* The items of an ID.
LEMMA MatchingIs ==
  ASSUME NEW id \in ID
  PROVE  Matching(id) = {p \in Path : items[p] # NoItem /\ items[p].id = id}
BY KeychainAssumption DEF Matching

\* A search of one ID that is undisturbed finds what there is, and a Get
\* returns it.
LEMMA GetKept ==
  ASSUME TypeOK, NEW c \in Client, CallOf(c), RetryOf(c), Step(c), calm'[c], GetOf(c), Active(c)'
  PROVE  GetOf(c)'
<1>p. /\ pc \in [Client -> PC] /\ res \in [Client -> {"none", "ok", "notfound", "locked", "error"}]
      /\ got \in [Client -> SUBSET (ID \X Version)] /\ found \in [Client -> Seq(Path)]
      /\ calm \in [Client -> BOOLEAN]
  BY DEF TypeOK
<1>n. CASE op'[c].kind # "get"
  BY <1>n DEF GetOf
<1>0. ASSUME items' = items, op' = op,
             pc'[c] = pc[c] /\ found'[c] = found[c] /\ res'[c] = res[c] /\ got'[c] = got[c]
      PROVE  GetOf(c)'
  BY <1>0 DEF GetOf, Matching
<1>e. ASSUME pc'[c] \notin {"read", "load", "close"} \/ (pc'[c] = "close" /\ res'[c] \notin {"ok", "notfound"})
      PROVE  GetOf(c)'
  BY <1>e DEF GetOf
<1>1. CASE Connect(c) \/ IsCollectionUnlocked(c) \/ UnlockCollection(c)
  <2>1. pc'[c] \in {"check", "unlock", "search"} \/ (pc'[c] = "close" /\ res'[c] = "error")
    BY <1>p, <1>1 DEF Connect, IsCollectionUnlocked, UnlockCollection, Return, Goto
  <2> QED
    BY <1>e, <2>1
<1>2. CASE SearchCollection(c) /\ op[c].kind = "get"
  <2>1. PICK list \in Listings(Matching(op[c].id)) :
          /\ found' = [found EXCEPT ![c] = list]
          /\ \/ list = <<>> /\ pc' = [pc EXCEPT ![c] = "close"] /\ res' = [res EXCEPT ![c] = "notfound"]
             \/ list # <<>> /\ pc' = [pc EXCEPT ![c] = "read"] /\ res' = res
    BY <1>2 DEF SearchCollection, Return, Goto
  <2>2. list \in Seq(Path) /\ Range(list) = Matching(op[c].id)
    BY ListingsAreComplete DEF Matching
  <2>3. items' = items /\ op' = op /\ got' = got /\ found'[c] = list /\ got[c] = {}
    BY <1>p, <1>2, <2>1 DEF SearchCollection, daemon, CallOf
  <2>4. CASE list # <<>> /\ pc' = [pc EXCEPT ![c] = "read"]
    BY <1>p, <2>2, <2>3, <2>4 DEF GetOf, Matching
  <2>5. CASE list = <<>> /\ pc' = [pc EXCEPT ![c] = "close"] /\ res' = [res EXCEPT ![c] = "notfound"]
    <3>1. Matching(op[c].id) = {}
      BY <2>2, <2>5, EmptyRange
    <3>2. Matching(op[c].id)' = {} /\ got'[c] = {} /\ res'[c] = "notfound" /\ pc'[c] = "close"
      BY <1>p, <2>3, <2>5, <3>1 DEF Matching
    <3> QED
      BY <3>2 DEF GetOf
  <2> QED
    BY <2>1, <2>4, <2>5
<1>3. CASE MeetsLock(c) \/ Reunlock(c)
  <2>1. items' = items /\ op' = op /\ got' = got
    BY <1>3 DEF MeetsLock, Reunlock, daemon
  <2>2. \/ pc'[c] = pc[c] /\ found'[c] = found[c] /\ res'[c] = res[c]
        \/ pc[c] = "collapse"
        \/ pc'[c] = "close" /\ res'[c] = "locked"
    BY <1>p, <1>3 DEF MeetsLock, Reunlock, RetryFails, Return, Goto
  <2>3. pc[c] = "collapse" => op'[c].kind # "get"
    BY <2>1 DEF CallOf
  <2> QED
    BY <1>n, <1>0, <1>e, <2>1, <2>2, <2>3
<1>4. CASE ReunlockFails(c) \/ CallFails(c)
  BY <1>p, <1>4 DEF ReunlockFails, CallFails
<1>5. CASE CreateItem(c) \/ SetItemSecret(c) \/ SetItemAttributes(c) \/ CollapseDuplicate(c) \/ DeleteItem(c)
  BY <1>5, <1>n DEF CreateItem, SetItemSecret, SetItemAttributes, CollapseDuplicate, DeleteItem, CallOf
<1>6. CASE GetAttributes(c) /\ op[c].kind = "get"
  <2>1. items' = items /\ op' = op /\ got' = got /\ pc[c] = "read"
    BY <1>6 DEF GetAttributes, daemon
  <2>2. (pc'[c] = "close" /\ res'[c] = "error") \/ (pc'[c] = "load" /\ found' = found)
    BY <1>p, <1>6 DEF GetAttributes, Return, Goto
  <2> QED
    BY <1>6, <1>e, <2>1, <2>2 DEF GetOf, Matching
<1>7. CASE GetSecret(c) /\ op[c].kind = "get"
  <2>1. items' = items /\ op' = op /\ pc[c] = "load"
    BY <1>7 DEF GetSecret, daemon
  <2>2. found[c] \in Seq(Path) /\ found[c] # <<>>
    BY <1>p, <2>1 DEF TypeOK
  <2> DEFINE p == Head(found[c])
  <2>3. p \in Matching(op[c].id)
    BY <1>7, <2>1, <2>2, HeadAndRest DEF GetOf
  <2>4. op[c].id \in ID
    BY <1>7, <2>1 DEF CallOf, Active
  <2>5. p \in Path /\ items[p] # NoItem /\ items[p].id = op[c].id
    BY <2>3, <2>4, MatchingIs
  <2>6. got[c] = {}
    BY <1>7, <2>1 DEF CallOf
  <2>7. pc'[c] = "close" /\ res'[c] = "ok" /\ got'[c] = got[c] \cup {<<items[p].id, items[p].secret>>}
    BY <1>p, <1>7, <2>5 DEF GetSecret, Return, Goto
  <2>8. got'[c] = {<<op[c].id, items[p].secret>>}
    BY <2>5, <2>6, <2>7
  <2>9. p \in Matching(op[c].id)'
    BY <2>1, <2>3 DEF Matching
  <2>10. got'[c] \subseteq {<<op[c].id, items[q].secret>>' : q \in Matching(op[c].id)'}
    BY <2>1, <2>8, <2>9
  <2>11. Matching(op[c].id)' # {} /\ got'[c] # {}
    BY <2>8, <2>9
  <2> QED
    BY <2>7, <2>10, <2>11 DEF GetOf
<1>8. CASE Close(c)
  BY <1>p, <1>8 DEF Close, Goto, Active
<1>9. op' = op \/ Close(c)
  BY DEF Step, Connect, IsCollectionUnlocked, UnlockCollection, SearchCollection, MeetsLock,
         Reunlock, ReunlockFails, CallFails, CreateItem, SetItemSecret, SetItemAttributes,
         CollapseDuplicate, DeleteItem, GetAttributes, GetSecret
<1> QED
  BY <1>n, <1>1, <1>2, <1>3, <1>4, <1>5, <1>6, <1>7, <1>8, <1>9 DEF Step

\* An undisturbed Save that is relocked no more often than it retries: its
\* list and the collection agree at every call, up to the one item it leaves.
LEMMA SaveKept ==
  ASSUME TypeOK, NEW c \in Client, CallOf(c), RetryOf(c), Step(c), calm'[c],
         relocks[c] <= MaxRetries, SaveOf(c), Active(c)'
  PROVE  SaveOf(c)'
<1>p. /\ pc \in [Client -> PC] /\ res \in [Client -> {"none", "ok", "notfound", "locked", "error"}]
      /\ found \in [Client -> Seq(Path)] /\ calm \in [Client -> BOOLEAN]
      /\ items \in [Path -> Item \cup {NoItem}]
  BY DEF TypeOK
<1>r. relocks' = relocks /\ relocks[c] \in 0..(MaxRetries + 1) /\ MaxRetries \in Nat
  BY StepOfActive, KeychainAssumption DEF TypeOK
<1>0. ASSUME items' = items, op' = op, pc'[c] = pc[c], found'[c] = found[c], res'[c] = res[c]
      PROVE  SaveOf(c)'
  BY <1>0, <1>r DEF SaveOf, Primary, Matching
<1>e. ASSUME pc'[c] \notin {"create", "secret", "attrs", "collapse"},
             pc'[c] = "close" => op'[c].kind # "save" \/ res'[c] # "ok"
      PROVE  SaveOf(c)'
  BY <1>e DEF SaveOf
<1>s. ASSUME pc[c] \in {"create", "secret", "attrs", "collapse"}
      PROVE  /\ op[c].kind = "save" /\ op[c].id \in ID /\ op[c].meta \in Meta
             /\ op[c].ver \in Version
  BY <1>s DEF CallOf, Active
<1>f. ASSUME pc[c] \in {"secret", "attrs", "collapse"}
      PROVE  /\ found[c] \in Seq(Path) /\ found[c] # <<>> /\ Head(found[c]) \in Path
             /\ Range(found[c]) = {Head(found[c])} \cup Range(Rest(c))
             /\ IsInjective(found[c]) => IsInjective(Rest(c)) /\ Head(found[c]) \notin Range(Rest(c))
             /\ Rest(c) = <<>> <=> Range(Rest(c)) = {}
             /\ Rest(c) \in Seq(Path)
  <2>1. found[c] \in Seq(Path) /\ found[c] # <<>>
    BY <1>f DEF TypeOK
  <2> QED
    BY <2>1, HeadAndRest DEF Rest
<1>1. CASE Connect(c) \/ IsCollectionUnlocked(c) \/ UnlockCollection(c)
  <2>1. pc'[c] \in {"check", "unlock", "search"} \/ (pc'[c] = "close" /\ res'[c] = "error")
    BY <1>p, <1>1 DEF Connect, IsCollectionUnlocked, UnlockCollection, Return, Goto
  <2> QED
    BY <1>e, <2>1
<1>2. CASE SearchCollection(c)
  <2>1. CASE op[c].kind # "save"
    <3>1. pc'[c] \in {"remove", "read", "close"} /\ op' = op
      BY <1>p, <1>2, <2>1 DEF SearchCollection, Return, Goto
    <3> QED
      BY <1>e, <2>1, <3>1
  <2>2. CASE op[c].kind = "save"
    <3>1. PICK list \in Listings(Matching(op[c].id)) :
            /\ found' = [found EXCEPT ![c] = list]
            /\ \/ list = <<>> /\ pc' = [pc EXCEPT ![c] = "create"]
               \/ list # <<>> /\ pc' = [pc EXCEPT ![c] = "secret"]
      BY <1>2, <2>2 DEF SearchCollection, Return, Goto
    <3>2. list \in Seq(Path) /\ Range(list) = Matching(op[c].id) /\ IsInjective(list)
      BY ListingsAreComplete DEF Matching
    <3>3. items' = items /\ op' = op /\ found'[c] = list
      BY <1>p, <1>2, <3>1 DEF SearchCollection, daemon
    <3>4. Matching(op[c].id)' = Matching(op[c].id)
      BY <3>3 DEF Matching
    <3>5. CASE list = <<>> /\ pc' = [pc EXCEPT ![c] = "create"]
      <4>1. Matching(op[c].id) = {} /\ pc'[c] = "create"
        BY <1>p, <3>2, <3>5, EmptyRange
      <4> QED
        BY <3>4, <4>1 DEF SaveOf
    <3>6. CASE list # <<>> /\ pc' = [pc EXCEPT ![c] = "secret"]
      <4>1. pc'[c] = "secret"
        BY <1>p, <3>6
      <4> QED
        BY <3>2, <3>3, <3>4, <4>1 DEF SaveOf
    <3> QED
      BY <3>1, <3>5, <3>6
  <2> QED
    BY <2>1, <2>2
<1>3. CASE MeetsLock(c) \/ Reunlock(c)
  <2>1. items' = items /\ op' = op
    BY <1>3 DEF MeetsLock, Reunlock, daemon
  <2>2. CASE pc' = pc /\ found' = found /\ res' = res
    BY <1>0, <2>1, <2>2
  <2>3. CASE MeetsLock(c) /\ tries[c] = MaxRetries
    <3>1. relocks[c] > MaxRetries
      BY <2>3 DEF MeetsLock, RetryOf, PastUnlock
    <3> QED
      BY <1>r, <3>1
  <2> QED
    BY <1>3, <2>2, <2>3 DEF MeetsLock, Reunlock
<1>4. CASE ReunlockFails(c) \/ CallFails(c)
  BY <1>p, <1>4 DEF ReunlockFails, CallFails
<1>5. CASE CreateItem(c)
  <2>1. PICK p \in CreatePaths(op[c].id, op[c].meta) :
          items' = [items EXCEPT ![p] = [id |-> op[c].id, meta |-> op[c].meta, secret |-> op[c].ver]]
    BY <1>5 DEF CreateItem
  <2>2. pc[c] = "create" /\ pc'[c] = "close" /\ op' = op
    BY <1>p, <1>5 DEF CreateItem, Return, Goto
  <2>3. op[c].id \in ID /\ op[c].meta \in Meta /\ op[c].ver \in Version
    BY <1>s, <2>2
  <2>4. \A q \in Path : items[q] # NoItem => items[q].id # op[c].id
    BY <2>2, <2>3, MatchingIs DEF SaveOf
  <2>5. p \in Path
    BY DEF CreatePaths, SameAttributes
  <2>6. items'[p] = [id |-> op[c].id, meta |-> op[c].meta, secret |-> op[c].ver] /\ items'[p] \in Item
    BY <1>p, <2>1, <2>3, <2>5 DEF Item
  <2>7. items'[p] # NoItem /\ \A q \in Path : q # p => items'[q] = items[q]
    BY <1>p, <2>1, <2>5, <2>6, ItemAssumption
  <2>8. Matching(op[c].id)' = {p}
    <3>1. Matching(op[c].id)' = {q \in Path : items'[q] # NoItem /\ items'[q].id = op[c].id}
      BY <2>2, <2>3, KeychainAssumption DEF Matching
    <3> QED
      BY <2>4, <2>5, <2>6, <2>7, <3>1
  <2>9. Primary(c, p)'
    BY <2>2, <2>6, <2>7 DEF Primary
  <2> QED
    BY <2>2, <2>5, <2>8, <2>9 DEF SaveOf
<1>6. CASE SetItemSecret(c)
  <2>h. PICK h : h = Head(found[c])
    OBVIOUS
  <2>1. pc[c] = "secret" /\ op' = op /\ found' = found
    BY <2>h, <1>6 DEF SetItemSecret
  <2>2. op[c].id \in ID /\ op[c].ver \in Version /\ h \in Path
    BY <2>h, <1>s, <1>f, <2>1
  <2>3. IsInjective(found[c]) /\ Matching(op[c].id) = Range(found[c]) /\ h \in Range(found[c])
    BY <2>h, <1>f, <2>1 DEF SaveOf
  <2>4. items[h] # NoItem
    BY <2>2, <2>3, MatchingIs
  <2>5. pc'[c] = "attrs" /\ items' = [items EXCEPT ![h].secret = op[c].ver]
    BY <2>h, <1>p, <1>6, <2>4 DEF SetItemSecret, Goto
  <2>6. /\ items'[h] \in Item /\ items'[h].id = items[h].id /\ items'[h].secret = op[c].ver
        /\ \A q \in Path : q # h => items'[q] = items[q]
    <3>1. items \in [Path -> Item \cup {NoItem}]
      BY <1>p
    <3>2. items' = [items EXCEPT ![h].secret = op[c].ver]
      BY <2>5
    <3>3. h \in Path /\ op[c].ver \in Version
      BY <2>2
    <3> QED
      BY <2>4, <3>1, <3>2, <3>3, SecretWritten
  <2>7. Matching(op[c].id)' = Matching(op[c].id)
    <3>1. Matching(op[c].id)' = {q \in Path : items'[q] # NoItem /\ items'[q].id = op[c].id}
      BY <2>1, <2>2, KeychainAssumption DEF Matching
    <3>2. items'[h] # NoItem
      BY <2>6, ItemAssumption
    <3>3. \A q \in Path : (items'[q] # NoItem /\ items'[q].id = op[c].id)
                            <=> (items[q] # NoItem /\ items[q].id = op[c].id)
      BY <2>2, <2>4, <2>6, <3>2
    <3> QED
      BY <2>2, <3>1, <3>3, MatchingIs
  <2> QED
    BY <2>h, <2>1, <2>3, <2>5, <2>6, <2>7 DEF SaveOf
<1>7. CASE SetItemAttributes(c)
  <2>h. PICK h : h = Head(found[c])
    OBVIOUS
  <2>1. pc[c] = "attrs" /\ op' = op /\ found' = [found EXCEPT ![c] = Rest(c)] /\ found'[c] = Rest(c)
    BY <2>h, <1>p, <1>7 DEF SetItemAttributes
  <2>2. op[c].id \in ID /\ op[c].meta \in Meta /\ h \in Path
    BY <2>h, <1>s, <1>f, <2>1
  <2>3. /\ IsInjective(Rest(c)) /\ Matching(op[c].id) = {h} \cup Range(Rest(c))
        /\ h \notin Range(Rest(c)) /\ items[h].secret = op[c].ver
    BY <2>h, <1>f, <2>1 DEF SaveOf
  <2>4. items[h] # NoItem
    BY <2>2, <2>3, MatchingIs
  <2>5. /\ Primary(c, h)' /\ Matching(op[c].id)' = Matching(op[c].id)
    <3>1. CASE items' = [items EXCEPT ![h].meta = op[c].meta]
      <4>1. /\ items'[h] \in Item /\ items'[h].id = items[h].id /\ items'[h].meta = op[c].meta
            /\ items'[h].secret = items[h].secret
            /\ \A q \in Path : q # h => items'[q] = items[q]
        <5>1. items \in [Path -> Item \cup {NoItem}]
          BY <1>p
        <5>2. h \in Path /\ op[c].meta \in Meta
          BY <2>2
        <5>3. [items[h] EXCEPT !.meta = op[c].meta] =
                [id |-> items[h].id, meta |-> op[c].meta, secret |-> items[h].secret]
          BY <2>4, <5>1, <5>2 DEF Item
        <5>4. items' = [items EXCEPT ![h] =
                [id |-> items[h].id, meta |-> op[c].meta, secret |-> items[h].secret]]
          BY <3>1, <5>3
        <5> QED
          BY <2>4, <5>1, <5>2, <5>4 DEF Item
      <4>2. Matching(op[c].id)' = {q \in Path : items'[q] # NoItem /\ items'[q].id = op[c].id}
        BY <2>1, <2>2, KeychainAssumption DEF Matching
      <4>3. items'[h] # NoItem
        BY <4>1, ItemAssumption
      <4>4. \A q \in Path : (items'[q] # NoItem /\ items'[q].id = op[c].id)
                              <=> (items[q] # NoItem /\ items[q].id = op[c].id)
        BY <2>2, <2>4, <4>1, <4>3
      <4>5. Matching(op[c].id)' = Matching(op[c].id)
        BY <2>2, <4>2, <4>4, MatchingIs
      <4>6. Primary(c, h)'
        BY <2>1, <2>3, <4>1, <4>3 DEF Primary
      <4> QED
        BY <4>5, <4>6
    <3>2. CASE locked /\ items' = items
      <4>1. relocks[c] # 0
        BY <1>r, <2>1, <3>2 DEF RetryOf, PastUnlock, TypeOK
      <4> QED
        BY <1>r, <2>1, <2>3, <2>4, <3>2, <4>1 DEF Primary, Matching
    <3> QED
      BY <2>h, <1>p, <1>7, <2>4, <3>1, <3>2 DEF SetItemAttributes
  <2>6. CASE Rest(c) = <<>>
    <3>1. pc'[c] = "close"
      BY <1>p, <1>7, <2>6 DEF SetItemAttributes, Return, Goto
    <3>2. Matching(op[c].id)' = {h}
      BY <1>f, <2>1, <2>3, <2>5, <2>6
    <3> QED
      BY <2>1, <2>2, <2>5, <3>1, <3>2 DEF SaveOf
  <2>7. CASE Rest(c) # <<>>
    <3>1. pc'[c] = "collapse"
      BY <1>p, <1>7, <2>7 DEF SetItemAttributes, Return, Goto
    <3> QED
      BY <2>1, <2>2, <2>3, <2>5, <3>1 DEF SaveOf
  <2> QED
    BY <2>6, <2>7
<1>8. CASE CollapseDuplicate(c)
  <2>h. PICK h : h = Head(found[c])
    OBVIOUS
  <2>1. pc[c] = "collapse" /\ op' = op /\ items' = [items EXCEPT ![h] = NoItem]
    BY <2>h, <1>8 DEF CollapseDuplicate
  <2>2. op[c].id \in ID /\ h \in Path /\ IsInjective(Rest(c)) /\ h \notin Range(Rest(c))
    BY <2>h, <1>s, <1>f, <2>1 DEF SaveOf
  <2>3. PICK p \in Path \ Range(found[c]) :
          Primary(c, p) /\ Matching(op[c].id) = {p} \cup Range(found[c])
    BY <2>1 DEF SaveOf
  <2>4. p # h /\ p \notin Range(Rest(c)) /\ Matching(op[c].id) = {p, h} \cup Range(Rest(c))
    BY <2>h, <1>f, <2>1, <2>3
  <2>5. items'[h] = NoItem /\ \A q \in Path : q # h => items'[q] = items[q]
    BY <1>p, <2>1, <2>2
  <2>6. Matching(op[c].id)' = {p} \cup Range(Rest(c))
    <3>1. Matching(op[c].id)' = {q \in Path : items'[q] # NoItem /\ items'[q].id = op[c].id}
      BY <2>1, <2>2, KeychainAssumption DEF Matching
    <3>2. Matching(op[c].id)' = Matching(op[c].id) \ {h}
      BY <2>2, <2>5, <3>1, MatchingIs
    <3> QED
      BY <2>2, <2>4, <3>2
  <2>7. Primary(c, p)'
    BY <1>r, <2>1, <2>3, <2>4, <2>5 DEF Primary
  <2>8. CASE Rest(c) = <<>>
    <3>1. pc'[c] = "close" /\ Range(Rest(c)) = {}
      BY <1>p, <1>8, <1>f, <2>1, <2>8 DEF CollapseDuplicate, Return, Goto
    <3>2. Matching(op[c].id)' = {p}
      BY <2>6, <3>1
    <3> QED
      BY <2>1, <2>7, <3>1, <3>2 DEF SaveOf
  <2>9. CASE Rest(c) # <<>>
    <3>1. pc'[c] = "collapse" /\ found'[c] = Rest(c)
      BY <1>p, <1>8, <2>1, <2>9 DEF CollapseDuplicate
    <3> QED
      BY <2>1, <2>2, <2>4, <2>6, <2>7, <3>1 DEF SaveOf
  <2> QED
    BY <2>8, <2>9
<1>9. CASE DeleteItem(c) \/ GetAttributes(c) \/ GetSecret(c)
  <2>1. op' = op /\ op[c].kind # "save"
    BY <1>9 DEF DeleteItem, GetAttributes, GetSecret, CallOf
  <2>2. pc'[c] \in {"close", "read", "load"}
    BY <1>p, <1>9 DEF DeleteItem, GetAttributes, GetSecret, Return, Goto
  <2> QED
    BY <1>e, <2>1, <2>2
<1>10. CASE Close(c)
  BY <1>p, <1>10 DEF Close, Goto, Active
<1> QED
  BY <1>1, <1>2, <1>3, <1>4, <1>5, <1>6, <1>7, <1>8, <1>9, <1>10 DEF Step

\* What an undisturbed operation knows survives its own steps and those of others.
LEMMA CalmKept ==
  ASSUME TypeOK, CallInv, RetryInv, CalmInv, NEW c \in Client, Call(c) \/ Step(c)
  PROVE  CalmInv'
<1> SUFFICES ASSUME NEW d \in Client, Active(d)', calm'[d]
             PROVE  Alone(d)' /\ GetOf(d)' /\ (relocks[d] <= MaxRetries => SaveOf(d))'
  BY DEF CalmInv, CalmOf
<1>0. CallOf(c) /\ RetryOf(c) /\ CalmOf(c) /\ CalmOf(d)
  BY DEF CallInv, RetryInv, CalmInv
<1>1. CASE Call(c)
  <2>1. calm'[d] = IF d = c THEN \A e \in Client : ~Active(e) ELSE calm[d] /\ ~Active(d)
    BY <1>1 DEF Call
  <2>2. d = c
    BY <1>1, <2>1, ActionIsLocal DEF Active
  <2>3. pc'[c] = "connect"
    BY <1>1 DEF Call, Goto, TypeOK
  <2>4. Alone(c)'
    BY <1>1, <2>1, <2>2, ActionIsLocal DEF Alone, Active
  <2> QED
    BY <2>2, <2>3, <2>4 DEF GetOf, SaveOf
<1>2. CASE Step(c)
  <2>1. Active(c) /\ relocks' = relocks
    BY <1>0, <1>2, StepOfActive
  <2>2. d = c
    <3> SUFFICES ASSUME d # c PROVE FALSE
      OBVIOUS
    <3>1. calm[d] /\ Active(d)
      BY <1>0, <1>2, StepOfActive, ActionIsLocal DEF Active
    <3> QED
      BY <1>0, <2>1, <3>1 DEF CalmOf, Alone
  <2>3. Alone(c) /\ GetOf(c) /\ (relocks[c] <= MaxRetries => SaveOf(c))
    BY <1>0, <1>2, <2>1, <2>2, StepOfActive DEF CalmOf
  <2>4. Alone(c)'
    BY <1>2, <2>3, ActionIsLocal DEF Alone, Active
  <2>5. GetOf(c)'
    BY <1>0, <1>2, <2>2, <2>3, GetKept
  <2>6. relocks[c] <= MaxRetries => SaveOf(c)'
    BY <1>0, <1>2, <2>2, <2>3, SaveKept
  <2> QED
    BY <2>1, <2>2, <2>4, <2>5, <2>6
<1> QED
  BY <1>1, <1>2

\* A relock disturbs nobody: it changes no item.
LEMMA RelockIsCalm ==
  ASSUME TypeOK, CalmInv, Relock
  PROVE  CalmInv'
<1>1. /\ UNCHANGED <<items, pc, op, asleep, found, tries, got, res, calm, alone, saves, calls>>
      /\ relocks' = [c \in Client |->
           IF Active(c) /\ relocks[c] <= MaxRetries THEN relocks[c] + 1 ELSE relocks[c]]
  BY DEF Relock
<1>2. relocks \in [Client -> 0..(MaxRetries + 1)] /\ MaxRetries \in Nat
  BY KeychainAssumption DEF TypeOK
<1>3. ASSUME NEW c \in Client PROVE CalmOf(c)'
  <2>1. CalmOf(c)
    BY DEF CalmInv
  <2>2. (relocks'[c] = 0 => relocks[c] = 0) /\ (relocks'[c] <= MaxRetries => relocks[c] <= MaxRetries)
    BY <1>1, <1>2
  <2>3. Alone(c) => Alone(c)'
    BY <1>1 DEF Alone, Active
  <2>4. GetOf(c) => GetOf(c)'
    BY <1>1 DEF GetOf, Matching
  <2>5. \A p \in Path : Primary(c, p) => Primary(c, p)'
    BY <1>1, <2>2 DEF Primary
  <2>6. Matching(op[c].id)' = Matching(op[c].id)
    BY <1>1 DEF Matching
  <2>7. SaveOf(c) => SaveOf(c)'
    BY <1>1, <2>5, <2>6 DEF SaveOf
  <2> QED
    BY <1>1, <2>1, <2>2, <2>3, <2>4, <2>7 DEF CalmOf, Active
<1> QED
  BY <1>3 DEF CalmInv

IInv == TypeOK /\ CallInv /\ RetryInv /\ CalmInv

\* The invariant holds before the first call.
LEMMA InitHolds == Init => IInv
<1> SUFFICES ASSUME Init PROVE IInv
  OBVIOUS
<1>1. TypeOK
  <2>1. {MaxItems, MaxSaves, MaxCalls, MaxRetries} \subseteq Nat /\ <<>> \in Seq(Path) /\ Len(<<>>) = 0
    BY KeychainAssumption, EmptySeq
  <2>2. op \in [Client -> [kind : Kind, id : ID \cup {NoID}, meta : Meta \cup {NoMeta},
                           ver : Version \cup {0}]]
    BY DEF Init, NoOp, Kind
  <2>3. items \in [Path -> Item \cup {NoItem}] /\ pc \in [Client -> PC]
    BY DEF Init, PC
  <2>4. /\ found \in [Client -> Seq(Path)] /\ \A c \in Client : Len(found[c]) <= MaxItems
    BY <2>1 DEF Init
  <2>5. tries \in [Client -> 0..MaxRetries] /\ relocks \in [Client -> 0..(MaxRetries + 1)]
        /\ saves \in 0..MaxSaves /\ calls \in 0..MaxCalls
    BY <2>1 DEF Init
  <2>6. /\ got \in [Client -> SUBSET (ID \X Version)] /\ asleep \in [Client -> BOOLEAN]
        /\ res \in [Client -> {"none", "ok", "notfound", "locked", "error"}]
        /\ {calm, alone} \subseteq [Client -> BOOLEAN] /\ locked \in BOOLEAN
        /\ \A c \in Client : pc[c] = "idle"
    BY DEF Init
  <2> QED
    BY <2>2, <2>3, <2>4, <2>5, <2>6 DEF TypeOK
<1>2. CallInv
  BY DEF Init, CallInv, CallOf, Active, NoOp
<1>3. RetryInv
  BY DEF Init, RetryInv, RetryOf, PastUnlock, Retried
<1>4. CalmInv
  BY DEF Init, CalmInv, CalmOf, Active
<1> QED
  BY <1>1, <1>2, <1>3, <1>4 DEF IInv

\* Every step of a client and every relock keeps the invariant.
LEMMA NextHolds == IInv /\ [Next]_vars => IInv'
<1> SUFFICES ASSUME IInv, [Next]_vars PROVE IInv'
  OBVIOUS
<1>0. TypeOK /\ CallInv /\ RetryInv /\ CalmInv
  BY DEF IInv
<1>1. CASE Relock
  BY <1>0, <1>1, RelockKept, RelockIsCalm DEF IInv
<1>2. ASSUME NEW c \in Client, Call(c) \/ Step(c) PROVE IInv'
  <2>1. CallOf(c) /\ RetryOf(c)
    BY <1>0 DEF CallInv, RetryInv
  <2>2. TypeOK'
    BY <1>0, <1>2, <2>1, CallTypes, StepTypes
  <2>3. ASSUME NEW d \in Client PROVE CallOf(d)' /\ RetryOf(d)'
    <3>1. CASE d = c
      BY <1>0, <1>2, <2>1, <3>1, CallKept, RetryKept
    <3>2. CASE d # c
      <4>1. CallOf(d) /\ RetryOf(d)
        BY <1>0 DEF CallInv, RetryInv
      <4> QED
        BY <1>0, <1>2, <3>2, <4>1, OthersKept
    <3> QED
      BY <3>1, <3>2
  <2>4. CallInv' /\ RetryInv'
    BY <2>3 DEF CallInv, RetryInv
  <2>5. CalmInv'
    BY <1>0, <1>2, CalmKept
  <2> QED
    BY <2>2, <2>4, <2>5 DEF IInv
<1>3. CASE UNCHANGED vars
  <2>1. UNCHANGED <<items, locked, pc, op, asleep, found, tries, got, res, relocks, calm, alone, saves,
                calls>>
    BY <1>3 DEF vars
  <2>2. TypeOK'
    BY <1>0, <2>1 DEF TypeOK
  <2>3. CallInv' /\ RetryInv'
    BY <1>0, <2>1 DEF CallInv, CallOf, RetryInv, RetryOf, Active
  <2>4. CalmInv'
    BY <1>0, <2>1 DEF CalmInv, CalmOf, Active, Alone, GetOf, SaveOf, Primary, Matching
  <2> QED
    BY <2>2, <2>3, <2>4 DEF IInv
<1> QED
  BY <1>1, <1>2, <1>3 DEF Next

-----------------------------------------------------------------------------
(* Theorems *)

\* The inductive invariant holds in every reachable state.
LEMMA Invariant == Spec => []IInv
<1> QED
  BY InitHolds, NextHolds, PTL DEF Spec

\* Every variable keeps its type: in particular a step on an item always has an
\* item to work on, and no call is retried more than maxRelockRetries times.
THEOREM TypeCorrect == Spec => []TypeOK
<1>1. IInv => TypeOK
  BY DEF IInv
<1> QED
  BY <1>1, Invariant, PTL

\* withRelockRetry (keychain_linux.go) absorbs the relock race: whatever the
\* other callers do, an operation returns the locked error only if the
\* collection was locked again more than maxRelockRetries times within it.
THEOREM RelocksAreAbsorbed == Spec => []RelocksAbsorbed
<1>1. IInv => RelocksAbsorbed
  BY DEF IInv, RetryInv, RetryOf, RelocksAbsorbed
<1> QED
  BY <1>1, Invariant, PTL

\* A Save nobody disturbed leaves exactly one item for its ID with its secret,
\* for any number of duplicates it found, any order the daemon lists them in
\* and any number of relocks up to the retry limit.
THEOREM SavesLeaveOneItem == Spec => []SaveLeavesOne
<1>1. IInv => SaveLeavesOne
  <2> SUFFICES ASSUME IInv, NEW c \in Client,
                      pc[c] = "close", op[c].kind = "save", res[c] = "ok", calm[c],
                      relocks[c] <= MaxRetries
               PROVE  \E p \in Path :
                        /\ Matching(op[c].id) = {p}
                        /\ items[p].secret = op[c].ver
                        /\ relocks[c] = 0 => items[p].meta = op[c].meta
    BY DEF SaveLeavesOne
  <2>1. SaveOf(c)
    BY DEF IInv, CalmInv, CalmOf, Active
  <2> QED
    BY <2>1 DEF SaveOf, Primary
<1> QED
  BY <1>1, Invariant, PTL

\* A Get nobody disturbed returns the credential exactly when there is one, and
\* returns what the collection holds, however often the collection is relocked.
THEOREM GetsFindIt == Spec => []GetFindsIt
<1>1. IInv => GetFindsIt
  <2> SUFFICES ASSUME IInv, NEW c \in Client,
                      pc[c] = "close", op[c].kind = "get", res[c] \in {"ok", "notfound"}, calm[c]
               PROVE  /\ (res[c] = "ok") = (Matching(op[c].id) # {})
                      /\ (res[c] = "ok") = (got[c] # {})
                      /\ got[c] \subseteq {<<op[c].id, items[p].secret>> : p \in Matching(op[c].id)}
    BY DEF GetFindsIt
  <2>1. GetOf(c)
    BY DEF IInv, CalmInv, CalmOf, Active
  <2> QED
    BY <2>1 DEF GetOf
<1> QED
  BY <1>1, Invariant, PTL

-----------------------------------------------------------------------------
(* Saves that no other change overlaps *)

\* Such a Save lists each item of its ID once, and keeps one that is not among
\* those it still has to delete.  Unlike SaveOf this survives failing calls.
KeepsOf(c) ==
  Active(c) /\ op[c].kind = "save" /\ alone[c] =>
    /\ \A d \in Client : d # c => ~Changing(d)
    /\ pc[c] \in {"secret", "attrs"} =>
         IsInjective(found[c]) /\ Range(found[c]) \subseteq Matching(op[c].id)
    /\ pc[c] = "collapse" =>
         IsInjective(found[c]) /\ \E p \in Matching(op[c].id) : p \notin Range(found[c])

KeepsInv == \A c \in Client : KeepsOf(c)

\* What the callers have recorded about overlapping changes.
LEMMA RecordOfChanges ==
  ASSUME TypeOK, NEW c \in Client, Step(c)
  PROVE  alone' = alone /\ (op' = op \/ Close(c))
BY DEF Step, Connect, IsCollectionUnlocked, UnlockCollection, SearchCollection, MeetsLock,
       Reunlock, ReunlockFails, CallFails, CreateItem, SetItemSecret, SetItemAttributes,
       CollapseDuplicate, DeleteItem, GetAttributes, GetSecret, Close, aux

\* Reads change no item, and neither does a call that begins.
LEMMA ReadsChangeNothing ==
  ASSUME TypeOK, NEW c \in Client, CallOf(c), Call(c) \/ (Step(c) /\ ~Changing(c) /\ RetryOf(c))
  PROVE  items' = items
<1>1. CASE Call(c)
  BY <1>1 DEF Call, daemon
<1>2. CASE Step(c) /\ ~Changing(c) /\ RetryOf(c)
  <2>1. Active(c) /\ pc[c] \notin {"create", "secret", "attrs", "collapse", "remove"}
    BY <1>2, StepOfActive DEF Changing, Changes, CallOf
  <2> QED
    BY <1>2, <2>1
       DEF Step, Connect, IsCollectionUnlocked, UnlockCollection, SearchCollection, MeetsLock,
           Reunlock, ReunlockFails, CallFails, CreateItem, SetItemSecret, SetItemAttributes,
           CollapseDuplicate, DeleteItem, GetAttributes, GetSecret, Close, daemon
<1> QED
  BY <1>1, <1>2

\* The items a step of a Save leaves: all but the duplicate it deletes.
LEMMA SaveDeletesDuplicate ==
  ASSUME TypeOK, NEW c \in Client, CallOf(c), RetryOf(c), Step(c), op[c].kind = "save",
         NEW p \in Matching(op[c].id)
  PROVE  /\ items'[p] # NoItem \/ (CollapseDuplicate(c) /\ p = Head(found[c]))
         /\ items'[p] # NoItem => items'[p].id = op[c].id
<1>0. Active(c) /\ op[c].id \in ID /\ op[c].meta \in Meta /\ op[c].ver \in Version
  BY StepOfActive DEF CallOf
<1>i. /\ items \in [Path -> Item \cup {NoItem}] /\ p \in Path /\ items[p] # NoItem
      /\ items[p].id = op[c].id
  BY <1>0, MatchingIs DEF TypeOK
<1>f. ASSUME pc[c] \in {"secret", "attrs", "collapse"}
      PROVE  Head(found[c]) \in Path
  <2>1. found[c] \in Seq(Path) /\ found[c] # <<>>
    BY <1>f DEF TypeOK
  <2> QED
    BY <2>1, HeadAndRest
<1>1. CASE CreateItem(c)
  <2>1. PICK q \in CreatePaths(op[c].id, op[c].meta) :
          items' = [items EXCEPT ![q] = [id |-> op[c].id, meta |-> op[c].meta, secret |-> op[c].ver]]
    BY <1>1 DEF CreateItem
  <2>2. [id |-> op[c].id, meta |-> op[c].meta, secret |-> op[c].ver] # NoItem
    BY <1>0, ItemAssumption DEF Item
  <2> QED
    BY <1>i, <2>1, <2>2
<1>2. CASE SetItemSecret(c) /\ items' # items
  <2>1. PICK h : h = Head(found[c])
    OBVIOUS
  <2>2. h \in Path
    BY <1>2, <1>f, <2>1 DEF SetItemSecret
  <2>3. items[h] # NoItem /\ items' = [items EXCEPT ![h].secret = op[c].ver]
    BY <1>2, <2>1 DEF SetItemSecret
  <2>4. /\ items'[h] \in Item /\ items'[h].id = items[h].id
        /\ \A q \in Path : q # h => items'[q] = items[q]
    <3>1. items \in [Path -> Item \cup {NoItem}]
      BY <1>i
    <3>2. items' = [items EXCEPT ![h].secret = op[c].ver] /\ op[c].ver \in Version
      BY <1>0, <2>3
    <3> QED
      BY <2>2, <2>3, <3>1, <3>2, SecretWritten
  <2> QED
    BY <1>i, <2>4, ItemAssumption
<1>3. CASE SetItemAttributes(c) /\ items' # items
  <2>1. PICK h : h = Head(found[c])
    OBVIOUS
  <2>2. h \in Path
    BY <1>3, <1>f, <2>1 DEF SetItemAttributes
  <2>3. items[h] # NoItem /\ items' = [items EXCEPT ![h].meta = op[c].meta]
    BY <1>3, <2>1 DEF SetItemAttributes
  <2>4. /\ items'[h] \in Item /\ items'[h].id = items[h].id
        /\ \A q \in Path : q # h => items'[q] = items[q]
    <3>1. items \in [Path -> Item \cup {NoItem}]
      BY <1>i
    <3>2. items' = [items EXCEPT ![h].meta = op[c].meta] /\ op[c].meta \in Meta
      BY <1>0, <2>3
    <3> QED
      BY <2>2, <2>3, <3>1, <3>2, MetaWritten
  <2> QED
    BY <1>i, <2>4, ItemAssumption
<1>4. CASE CollapseDuplicate(c)
  <2>1. items' = [items EXCEPT ![Head(found[c])] = NoItem] /\ Head(found[c]) \in Path
    BY <1>4, <1>f DEF CollapseDuplicate
  <2> QED
    BY <1>i, <1>4, <2>1
<1>5. CASE items' = items
  BY <1>5, <1>i
<1>6. items' = items \/ CreateItem(c) \/ SetItemSecret(c) \/ SetItemAttributes(c) \/ CollapseDuplicate(c)
  BY DEF Step, Connect, IsCollectionUnlocked, UnlockCollection, SearchCollection, MeetsLock,
         Reunlock, ReunlockFails, CallFails, DeleteItem, GetAttributes, GetSecret, Close, daemon, CallOf
<1> QED
  BY <1>1, <1>2, <1>3, <1>4, <1>5, <1>6

\* While such a Save runs, a step of anybody leaves its ID an item.
LEMMA ItemStays ==
  ASSUME IInv, KeepsInv, Next, NEW c \in Client, Active(c), op[c].kind = "save", alone[c],
         Matching(op[c].id) # {}
  PROVE  \E p \in Matching(op[c].id) :
           /\ items'[p] # NoItem /\ items'[p].id = op[c].id
           /\ pc[c] = "collapse" => p \notin Range(found[c])
           /\ pc[c] = "attrs" => p = Head(found[c])
<1>0. TypeOK /\ CallInv /\ RetryInv
  BY DEF IInv
<1>1. CallOf(c) /\ RetryOf(c) /\ KeepsOf(c) /\ op[c].id \in ID
  BY <1>0 DEF CallInv, RetryInv, KeepsInv, CallOf
<1>2. PICK p \in Matching(op[c].id) :
        /\ pc[c] = "collapse" => p \notin Range(found[c])
        /\ pc[c] = "attrs" => p = Head(found[c])
  <2>1. CASE pc[c] = "collapse"
    BY <1>1, <2>1 DEF KeepsOf
  <2>2. CASE pc[c] = "attrs"
    <3>1. found[c] \in Seq(Path) /\ found[c] # <<>>
      BY <1>0, <2>2 DEF TypeOK
    <3>2. Head(found[c]) \in Range(found[c])
      BY <3>1, HeadAndRest
    <3> QED
      BY <1>1, <2>2, <3>2 DEF KeepsOf
  <2>3. CASE pc[c] \notin {"collapse", "attrs"}
    BY <2>3
  <2> QED
    BY <2>1, <2>2, <2>3
<1>3. p \in Path /\ items[p] # NoItem /\ items[p].id = op[c].id
  BY <1>1, MatchingIs
<1>4. items'[p] # NoItem /\ items'[p].id = op[c].id
  <2>1. CASE Relock
    BY <1>3, <2>1 DEF Relock
  <2>2. ASSUME NEW d \in Client, Call(d) \/ (Step(d) /\ d # c) PROVE items' = items
    <3>1. CallOf(d) /\ RetryOf(d)
      BY <1>0 DEF CallInv, RetryInv
    <3>2. d # c => ~Changing(d)
      BY <1>1 DEF KeepsOf
    <3> QED
      BY <1>0, <2>2, <3>1, <3>2, ReadsChangeNothing
  <2>3. CASE Step(c)
    <3>1. CASE CollapseDuplicate(c) /\ p = Head(found[c])
      <4>1. pc[c] = "collapse" /\ found[c] \in Seq(Path) /\ found[c] # <<>>
        BY <1>0, <3>1 DEF CollapseDuplicate, TypeOK
      <4>2. p \in Range(found[c])
        BY <3>1, <4>1, HeadAndRest
      <4> QED
        BY <1>2, <4>1, <4>2
    <3>2. CASE ~(CollapseDuplicate(c) /\ p = Head(found[c]))
      BY <1>0, <1>1, <2>3, <3>2, SaveDeletesDuplicate
    <3> QED
      BY <3>1, <3>2
  <2> QED
    BY <1>3, <2>1, <2>2, <2>3 DEF Next
<1> QED
  BY <1>2, <1>4

\* The steps of the Save itself keep its list in order.
LEMMA OwnStepKeeps ==
  ASSUME IInv, KeepsInv, NEW c \in Client, Step(c), Active(c)', op'[c].kind = "save", alone'[c]
  PROVE  /\ pc'[c] \in {"secret", "attrs"} =>
              IsInjective(found'[c]) /\ Range(found'[c]) \subseteq Matching(op[c].id)'
         /\ pc'[c] = "collapse" =>
              IsInjective(found'[c]) /\ \E p \in Matching(op[c].id)' : p \notin Range(found'[c])
<1>0. TypeOK /\ CallOf(c) /\ RetryOf(c) /\ KeepsOf(c) /\ Next
  BY DEF IInv, CallInv, RetryInv, KeepsInv, Next
<1>p. /\ pc \in [Client -> PC] /\ found \in [Client -> Seq(Path)]
      /\ items \in [Path -> Item \cup {NoItem}]
  BY <1>0 DEF TypeOK
<1>1. op' = op /\ alone[c] /\ op[c].kind = "save" /\ Active(c)
  <2>1. ~Close(c)
    BY <1>p DEF Close, Goto, Active
  <2> QED
    BY <1>0, <2>1, RecordOfChanges, StepOfActive
<1>2. op[c].id \in ID
  BY <1>0, <1>1 DEF CallOf
<1>m. Matching(op[c].id)' = {q \in Path : items'[q] # NoItem /\ items'[q].id = op[c].id}
  BY <1>1, <1>2, KeychainAssumption DEF Matching
<1>f. ASSUME pc[c] \in {"secret", "attrs", "collapse"}
      PROVE  /\ found[c] \in Seq(Path) /\ found[c] # <<>> /\ Head(found[c]) \in Path
             /\ Range(found[c]) = {Head(found[c])} \cup Range(Rest(c))
             /\ IsInjective(found[c]) => IsInjective(Rest(c)) /\ Head(found[c]) \notin Range(Rest(c))
  <2>1. found[c] \in Seq(Path) /\ found[c] # <<>>
    BY <1>0, <1>f DEF TypeOK
  <2> QED
    BY <2>1, HeadAndRest DEF Rest
<1>3. CASE SearchCollection(c)
  <2>1. PICK list \in Listings(Matching(op[c].id)) : found' = [found EXCEPT ![c] = list]
    BY <1>3 DEF SearchCollection
  <2>2. Range(list) = Matching(op[c].id) /\ IsInjective(list)
    BY ListingsAreComplete DEF Matching
  <2>3. items' = items /\ pc'[c] # "collapse" /\ found'[c] = list
    BY <1>p, <1>3, <2>1 DEF SearchCollection, daemon, Return, Goto
  <2>4. Matching(op[c].id)' = Matching(op[c].id)
    BY <1>1, <2>3 DEF Matching
  <2> QED
    BY <2>2, <2>3, <2>4
<1>4. CASE SetItemSecret(c) /\ pc'[c] = "attrs"
  <2>1. pc[c] = "secret" /\ found' = found
    BY <1>4 DEF SetItemSecret
  <2>2. IsInjective(found[c]) /\ Range(found[c]) \subseteq Matching(op[c].id)
    BY <1>0, <1>1, <2>1 DEF KeepsOf
  <2>3. ~CollapseDuplicate(c)
    BY <2>1 DEF CollapseDuplicate
  <2>4. ASSUME NEW p \in Matching(op[c].id) PROVE p \in Matching(op[c].id)'
    BY <1>0, <1>1, <1>2, <1>m, <2>3, MatchingIs, SaveDeletesDuplicate
  <2> QED
    BY <1>4, <2>1, <2>2, <2>4
<1>5. CASE SetItemAttributes(c) /\ pc'[c] = "collapse"
  <2>1. pc[c] = "attrs" /\ found'[c] = Rest(c)
    BY <1>p, <1>5 DEF SetItemAttributes
  <2>2. IsInjective(found[c]) /\ Range(found[c]) \subseteq Matching(op[c].id)
    BY <1>0, <1>1, <2>1 DEF KeepsOf
  <2>3. Matching(op[c].id) # {}
    BY <1>f, <2>1, <2>2
  <2>4. PICK p \in Matching(op[c].id) :
          items'[p] # NoItem /\ items'[p].id = op[c].id /\ p = Head(found[c])
    BY <1>0, <1>1, <2>1, <2>3, ItemStays
  <2>5. p \in Matching(op[c].id)' /\ p \notin Range(Rest(c)) /\ IsInjective(Rest(c))
    BY <1>2, <1>f, <1>m, <2>1, <2>2, <2>4, MatchingIs
  <2> QED
    BY <1>5, <2>1, <2>5
<1>6. CASE pc[c] = "collapse" /\ pc'[c] = "collapse" /\ found'[c] \in {found[c], Rest(c)}
  <2>1. IsInjective(found[c]) /\ Matching(op[c].id) # {}
    BY <1>0, <1>1, <1>6 DEF KeepsOf
  <2>2. PICK p \in Matching(op[c].id) :
          items'[p] # NoItem /\ items'[p].id = op[c].id /\ p \notin Range(found[c])
    BY <1>0, <1>1, <1>6, <2>1, ItemStays
  <2>3. p \in Matching(op[c].id)' /\ p \notin Range(Rest(c)) /\ IsInjective(Rest(c))
    BY <1>2, <1>f, <1>m, <1>6, <2>1, <2>2, MatchingIs
  <2> QED
    BY <1>6, <2>1, <2>2, <2>3
<1>7. CASE pc'[c] = pc[c] /\ pc[c] \in {"secret", "attrs"} /\ found' = found /\ items' = items
  <2>1. Matching(op[c].id)' = Matching(op[c].id)
    BY <1>1, <1>7 DEF Matching
  <2> QED
    BY <1>0, <1>1, <1>7, <2>1 DEF KeepsOf
<1>8. \/ pc'[c] \notin {"secret", "attrs", "collapse"}
      \/ SearchCollection(c)
      \/ SetItemSecret(c) /\ pc'[c] = "attrs"
      \/ SetItemAttributes(c) /\ pc'[c] = "collapse"
      \/ pc[c] = "collapse" /\ pc'[c] = "collapse" /\ found'[c] \in {found[c], Rest(c)}
      \/ pc'[c] = pc[c] /\ pc[c] \in {"secret", "attrs"} /\ found' = found /\ items' = items
  <2>1. CASE Connect(c) \/ IsCollectionUnlocked(c) \/ UnlockCollection(c) \/ CreateItem(c)
             \/ DeleteItem(c) \/ GetAttributes(c) \/ GetSecret(c) \/ Close(c)
    BY <1>p, <2>1 DEF Connect, IsCollectionUnlocked, UnlockCollection, CreateItem, DeleteItem,
                      GetAttributes, GetSecret, Close, Return, Goto
  <2>2. CASE MeetsLock(c) \/ Reunlock(c) \/ ReunlockFails(c) \/ CallFails(c)
    BY <1>p, <2>2 DEF MeetsLock, Reunlock, ReunlockFails, CallFails, RetryFails, Return, Goto, daemon
  <2>3. CASE SetItemSecret(c) \/ SetItemAttributes(c) \/ CollapseDuplicate(c)
    BY <1>p, <2>3 DEF SetItemSecret, SetItemAttributes, CollapseDuplicate, Return, Goto
  <2> QED
    BY <2>1, <2>2, <2>3 DEF Step
<1> QED
  BY <1>3, <1>4, <1>5, <1>6, <1>7, <1>8

\* Every step keeps what is known of the Saves that no other change overlaps.
LEMMA KeepsKept ==
  ASSUME IInv, KeepsInv, [Next]_vars
  PROVE  KeepsInv'
<1>0. TypeOK /\ CallInv /\ RetryInv
  BY DEF IInv
<1>1. CASE Relock \/ UNCHANGED vars
  BY <1>1 DEF Relock, vars, KeepsInv, KeepsOf, Active, Changing, Matching
<1>2. ASSUME NEW c \in Client, Call(c) \/ Step(c), NEW d \in Client,
             Active(d)', op'[d].kind = "save", alone'[d]
      PROVE  /\ \A e \in Client : e # d => ~Changing(e)'
             /\ pc'[d] \in {"secret", "attrs"} =>
                  IsInjective(found'[d]) /\ Range(found'[d]) \subseteq Matching(op[d].id)'
             /\ pc'[d] = "collapse" =>
                  IsInjective(found'[d]) /\ \E p \in Matching(op[d].id)' : p \notin Range(found'[d])
  <2>0. CallOf(c) /\ RetryOf(c) /\ KeepsOf(d)
    BY <1>0 DEF CallInv, RetryInv, KeepsInv
  <2>1. CASE Call(c)
    <3>1. /\ pc' = [pc EXCEPT ![c] = "connect"] /\ items' = items /\ found' = found
          /\ alone' = [e \in Client |->
               IF e = c THEN \A f \in Client : ~Changing(f)
               ELSE alone[e] /\ (op'[c].kind \in Changes => ~Active(e))]
      BY <2>1 DEF Call, Goto, daemon
    <3>2. CASE d = c
      <4>1. \A e \in Client : ~Changing(e)
        BY <1>2, <3>1, <3>2
      <4>2. \A e \in Client : e # d => ~Changing(e)'
        BY <1>0, <2>1, <3>2, <4>1, ActionIsLocal DEF Changing, Active
      <4>3. pc'[d] = "connect"
        BY <1>0, <3>1, <3>2 DEF TypeOK
      <4> QED
        BY <4>2, <4>3
    <3>3. CASE d # c
      <4>1. pc'[d] = pc[d] /\ op'[d] = op[d]
        BY <1>0, <2>1, <3>3, ActionIsLocal
      <4>2. Active(d) /\ op[d].kind = "save" /\ alone[d] /\ op'[c].kind \notin Changes
        BY <1>2, <3>1, <3>3, <4>1 DEF Active
      <4>3. \A e \in Client : e # d => ~Changing(e)'
        BY <1>0, <2>0, <2>1, <4>2, ActionIsLocal DEF KeepsOf, Changing, Active
      <4>4. Matching(op[d].id)' = Matching(op[d].id)
        BY <3>1, <4>1 DEF Matching
      <4> QED
        BY <2>0, <3>1, <4>1, <4>2, <4>3, <4>4 DEF KeepsOf
    <3> QED
      BY <3>2, <3>3
  <2>2. CASE Step(c)
    <3>1. Active(c) /\ alone' = alone /\ (op' = op \/ Close(c))
      BY <1>0, <2>0, <2>2, RecordOfChanges, StepOfActive
    <3>2. CASE d = c
      <4>1. op' = op /\ Active(d) /\ op[d].kind = "save" /\ alone[d]
        BY <1>0, <1>2, <3>1, <3>2 DEF Close, Goto, Active, TypeOK
      <4>2. \A e \in Client : e # d => ~Changing(e)'
        BY <1>0, <2>0, <2>2, <3>2, <4>1, ActionIsLocal DEF KeepsOf, Changing, Active
      <4> QED
        BY <1>2, <2>2, <3>2, <4>2, OwnStepKeeps
    <3>3. CASE d # c
      <4>1. pc'[d] = pc[d] /\ op'[d] = op[d] /\ found'[d] = found[d]
        BY <1>0, <2>2, <3>3, ActionIsLocal
      <4>2. Active(d) /\ op[d].kind = "save" /\ alone[d]
        BY <1>2, <3>1, <4>1 DEF Active
      <4>3. ~Changing(c)
        BY <2>0, <3>3, <4>2 DEF KeepsOf
      <4>4. items' = items
        BY <1>0, <2>0, <2>2, <4>3, ReadsChangeNothing
      <4>5. ~Changing(c)'
        BY <1>0, <3>1, <4>3 DEF Changing, Active, Close, Goto, TypeOK
      <4>6. \A e \in Client : e # d => ~Changing(e)'
        BY <1>0, <2>0, <2>2, <4>2, <4>5, ActionIsLocal DEF KeepsOf, Changing, Active
      <4>7. Matching(op[d].id)' = Matching(op[d].id)
        BY <4>1, <4>4 DEF Matching
      <4> QED
        BY <2>0, <4>1, <4>2, <4>6, <4>7 DEF KeepsOf
    <3> QED
      BY <3>2, <3>3
  <2> QED
    BY <1>2, <2>1, <2>2
<1>3. ASSUME NEW c \in Client, Call(c) \/ Step(c) PROVE KeepsInv'
  BY <1>2, <1>3 DEF KeepsInv, KeepsOf
<1> QED
  BY <1>1, <1>3 DEF Next

\* While a Save runs that no other Save or Delete overlaps, its ID never is
\* without an item once it has one (keychain_linux.go): whatever order the
\* daemon lists the duplicates in, whichever calls fail and however often the
\* collection is relocked.  Saves that overlap may delete each other's item.
THEOREM SavesAreNeverAbsent == Spec => SaveNeverAbsent
<1>1. Init => KeepsInv
  BY DEF Init, KeepsInv, KeepsOf, Active
<1>2. IInv /\ KeepsInv /\ [Next]_vars => KeepsInv'
  BY KeepsKept
<1>3. IInv /\ KeepsInv /\ [Next]_vars =>
        [\A c \in Client, id \in ID :
           Active(c) /\ op[c].kind = "save" /\ op[c].id = id /\ alone[c] /\ Matching(id) # {} =>
             Matching(id)' # {}]_vars
  <2> SUFFICES ASSUME IInv, KeepsInv, Next, NEW c \in Client, NEW id \in ID, Active(c),
                      op[c].kind = "save", op[c].id = id, alone[c], Matching(id) # {}
               PROVE  Matching(id)' # {}
    OBVIOUS
  <2>1. PICK p \in Matching(id) : items'[p] # NoItem /\ items'[p].id = id
    BY ItemStays
  <2> QED
    BY <2>1 DEF Matching
<1> QED
  BY <1>1, <1>2, <1>3, Invariant, PTL DEF Spec, SaveNeverAbsent
==============================================================================
