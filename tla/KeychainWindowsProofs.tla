------------------------- MODULE KeychainWindowsProofs -------------------------
(***************************************************************************)
(* Proofs about the Windows store, for any number of callers, any limit on *)
(* the size of a credential and secrets of any lengths.                    *)
(*                                                                         *)
(* The argument has three parts.  Undisturbed operations exclude each      *)
(* other (CalmOf), so what one has written stays as it was (WriterOf,      *)
(* SettledOf).  The slices of a secret, joined in order, are the secret,   *)
(* so a reader that goes through what is settled has a prefix of it at     *)
(* every turn (ReaderOf).  And while no change of an ID was cut short the  *)
(* chunks form an interval that the loops of deleteChunks and Save shrink  *)
(* and grow at one end (OrphanOf).                                         *)
(***************************************************************************)
EXTENDS KeychainWindows, SequenceTheorems, TLAPS

Top == ChunkCount(Max(Lengths))

\* Caller c is changing ID id.
Writer(c, id) == Active(c) /\ Writes(op[c]) /\ op[c].id = id

\* What a caller at a program point was called with, and what it has so far.
CallOf(c) ==
  /\ pc[c] \in {"wipe", "chunks", "write", "remove"} <=> Active(c) /\ Writes(op[c])
  /\ pc[c] \in {"primary", "readchunks"} => op[c].kind \in {"get", "filter"} /\ cred[c].id \in ID
  /\ pc[c] = "list" => op[c].kind \in {"filter", "metadata"}
  /\ pc[c] \in {"chunks", "write"} => op[c].kind = "save"
  /\ pc[c] = "remove" => op[c].kind = "delete"
  /\ pc[c] = "chunks" => CountAttribute(op[c].len) > 0 /\ index[c] < ChunkCount(op[c].len)
  /\ pc[c] = "readchunks" => index[c] < cred[c].count /\ cred[c].meta \in Version
  /\ pc[c] \in {"idle", "primary", "list"} => index[c] = 0
  /\ pc[c] # "idle" /\ op[c].kind \in {"save", "delete", "get"} => op[c].id \in ID
  /\ pc[c] # "idle" /\ op[c].kind \in {"filter", "metadata"} => op[c].id = NoID
  /\ pc[c] # "idle" /\ op[c].kind = "save" => op[c].ver \in Version /\ op[c].len \in Lengths
  /\ pc[c] # "idle" /\ op[c].kind = "get" => cred[c].id = op[c].id /\ todo[c] = {}
  /\ pc[c] # "close" => res[c] = "none"
  /\ pc[c] = "idle" => got[c] = {} /\ todo[c] = {}
  /\ pc[c] = "list" => got[c] = {}
  /\ op[c].kind = "get" /\ pc[c] # "close" => got[c] = {}
  /\ op[c].kind = "get" => \A t \in got[c] : t[1] = op[c].id

\* Nobody is changing what an undisturbed operation works on.
CalmOf(c) ==
  calm[c] /\ pc[c] # "idle" =>
    \A e \in Client : e # c /\ Active(e) => ~Disturbs(op[e], op[c])

\* The index after the last chunk is always free.
Placed(id) == \A i \in Index : chunk[id][i] # Absent => i < Top

\* The first n chunks are those of this secret.
Written(id, v, len, n) == \A i \in Index : i < n => chunk[id][i] = ChunkBlob(v, len, i)

Stored(id, v, len) ==
  /\ primary[id] = [meta |-> v, count |-> CountAttribute(len),
                    blob |-> IF CountAttribute(len) > 0 THEN <<>> ELSE Blob(v, len)]
  /\ Written(id, v, len, CountAttribute(len))

\* What is settled is stored.
SettledOf(id) ==
  settled[id] # Unknown =>
    /\ \A c \in Client : ~Writer(c, id)
    /\ settled[id] = Absent => primary[id] = Absent
    /\ settled[id] # Absent =>
         \E v \in Version, len \in Lengths : settled[id] = Blob(v, len) /\ Stored(id, v, len)

WriterOf(c) ==
  calm[c] =>
    /\ pc[c] = "chunks" => Written(op[c].id, op[c].ver, op[c].len, index[c])
    /\ pc[c] = "write" => Written(op[c].id, op[c].ver, op[c].len, CountAttribute(op[c].len))

ReaderOf(c) ==
  calm[c] /\ op[c].kind \in {"get", "filter"} =>
    /\ \A t \in got[c] : settled[t[1]] # Unknown => t[3] = settled[t[1]] /\ t[2] = t[3][1][1]
    /\ pc[c] = "readchunks" /\ settled[cred[c].id] # Unknown =>
         /\ primary[cred[c].id] # Absent
         /\ cred[c].meta = primary[cred[c].id].meta /\ cred[c].count = primary[cred[c].id].count
         /\ cred[c].blob = Blob(cred[c].meta, index[c] * MaxBlob)
    /\ op[c].kind = "get" /\ pc[c] = "close" /\ res[c] # "error" /\ settled[op[c].id] # Unknown =>
         (res[c] = "ok") = (settled[op[c].id] # Absent)

Chunks(id) == {i \in Index : chunk[id][i] # Absent}
Counted(id, k) == {i \in Index : k <= i /\ primary[id] # Absent /\ i < primary[id].count}

\* Which chunks there are at each point of a change.
Progress(c, id) ==
  /\ pc[c] = "wipe" => Chunks(id) = Counted(id, index[c])
  /\ pc[c] = "chunks" => Chunks(id) = {i \in Index : i < index[c]}
  /\ pc[c] = "write" => Chunks(id) = {i \in Index : i < CountAttribute(op[c].len)}
  /\ pc[c] = "remove" => Chunks(id) = {}

\* While every change so far ran calmly to its end.
OrphanOf(id) ==
  intact[id] =>
    /\ (\A c \in Client : ~Writer(c, id)) => Chunks(id) = Counted(id, 0)
    /\ \A c \in Client : Writer(c, id) /\ calm[c] => Progress(c, id)

CallInv == \A c \in Client : CallOf(c)
CalmInv == \A c \in Client : CalmOf(c)
WriterInv == \A c \in Client : WriterOf(c)
ReaderInv == \A c \in Client : ReaderOf(c)
PlacedInv == \A id \in ID : Placed(id)
SettledInv == \A id \in ID : SettledOf(id)
OrphanInv == \A id \in ID : OrphanOf(id)

-----------------------------------------------------------------------------
(* Blobs and chunks *)

\* The number of chunks of a secret: enough for its length, none of them empty,
\* and counted in the primary only if the secret does not fit one credential.
LEMMA ChunkCounts ==
  /\ Top \in Nat /\ Index = 0..Top
  /\ \A len \in Lengths :
       /\ len \in Nat \ {0} /\ ChunkCount(len) \in Nat \ {0} /\ ChunkCount(len) <= Top
       /\ len <= ChunkCount(len) * MaxBlob
       /\ \A i \in Nat : i < ChunkCount(len) => i * MaxBlob < len
       /\ CountAttribute(len) \in Index
       /\ CountAttribute(len) = IF len > MaxBlob THEN ChunkCount(len) ELSE 0
<1>0. MaxBlob \in Nat \ {0} /\ Lengths \subseteq Nat \ {0}
  BY WindowsAssumption
<1>1. Max(Lengths) \in Lengths /\ \A len \in Lengths : len <= Max(Lengths)
  BY WindowsAssumption DEF Max
<1>2. ASSUME NEW x \in Nat
      PROVE  x \div MaxBlob \in Nat /\ MaxBlob * (x \div MaxBlob) <= x /\ x < MaxBlob * (x \div MaxBlob) + MaxBlob
  BY <1>0
<1>3. ASSUME NEW len \in Lengths
      PROVE  /\ len \in Nat \ {0} /\ ChunkCount(len) \in Nat \ {0} /\ len <= ChunkCount(len) * MaxBlob
             /\ \A i \in Nat : i < ChunkCount(len) => i * MaxBlob < len
  <2>1. len \in Nat \ {0} /\ len + MaxBlob - 1 \in Nat
    BY <1>0
  <2>2. ChunkCount(len) \in Nat /\ MaxBlob * ChunkCount(len) <= len + MaxBlob - 1
          /\ len + MaxBlob - 1 < MaxBlob * ChunkCount(len) + MaxBlob
    BY <1>2, <2>1 DEF ChunkCount
  <2>3. len <= ChunkCount(len) * MaxBlob /\ ChunkCount(len) # 0
    BY <1>0, <2>1, <2>2
  <2>4. ASSUME NEW i \in Nat, i < ChunkCount(len) PROVE i * MaxBlob < len
    <3>1. i * MaxBlob + MaxBlob <= MaxBlob * ChunkCount(len)
      BY <1>0, <2>2, <2>4
    <3>2. i * MaxBlob \in Nat
      BY <1>0
    <3> QED
      BY <1>0, <2>1, <2>2, <3>1, <3>2
  <2> QED
    BY <2>1, <2>2, <2>3, <2>4
<1>4. ASSUME NEW len \in Lengths, NEW m \in Lengths, len <= m PROVE ChunkCount(len) <= ChunkCount(m)
  BY <1>0, <1>2, <1>4 DEF ChunkCount
<1>5. Top \in Nat /\ Index = 0..Top
  BY <1>1, <1>3 DEF Top, Index
<1>6. ASSUME NEW len \in Lengths
      PROVE  /\ ChunkCount(len) <= Top /\ CountAttribute(len) \in Index
             /\ CountAttribute(len) = IF len > MaxBlob THEN ChunkCount(len) ELSE 0
  BY <1>1, <1>3, <1>4, <1>5 DEF Top, CountAttribute
<1> QED
  BY <1>3, <1>5, <1>6

\* The units of a secret name its Save and their position.
LEMMA BlobIs ==
  ASSUME NEW v \in Version, NEW n \in Nat
  PROVE  /\ Blob(v, n) \in Blobs /\ Len(Blob(v, n)) = n
         /\ \A k \in 1..n : Blob(v, n)[k] = <<v, k>>
<1>1. Blob(v, n) \in [1..n -> Version \X Nat] /\ \A k \in 1..n : Blob(v, n)[k] = <<v, k>>
  BY DEF Blob
<1>2. Blob(v, n) \in Blobs
  BY <1>1, SeqDef DEF Blobs
<1> QED
  BY <1>1, <1>2, LenProperties DEF Blobs

\* The i-th slice of a secret: not empty, and no larger than a credential.
LEMMA ChunkIs ==
  ASSUME NEW v \in Version, NEW len \in Lengths, NEW i \in Nat, i < ChunkCount(len)
  PROVE  LET a == i * MaxBlob
             b == IF len <= (i + 1) * MaxBlob THEN len ELSE (i + 1) * MaxBlob
         IN  /\ a \in Nat /\ b \in Nat /\ a < b /\ b <= a + MaxBlob
             /\ ChunkBlob(v, len, i) \in Blobs /\ Len(ChunkBlob(v, len, i)) = b - a
             /\ \A k \in 1..(b - a) : ChunkBlob(v, len, i)[k] = <<v, a + k>>
<1>0. MaxBlob \in Nat \ {0} /\ len \in Nat
  BY WindowsAssumption
<1> DEFINE a == i * MaxBlob
           b == IF len <= (i + 1) * MaxBlob THEN len ELSE (i + 1) * MaxBlob
<1>1. a \in Nat /\ (i + 1) * MaxBlob = a + MaxBlob
  BY <1>0
<1>2. a < len
  BY ChunkCounts
<1>3. b \in Nat /\ a < b /\ b <= a + MaxBlob /\ b <= len
  BY <1>0, <1>1, <1>2
<1>4. Min({len, (i + 1) * MaxBlob}) = b
  <2>1. (i + 1) * MaxBlob \in Nat
    BY <1>0, <1>1
  <2> QED
    BY <1>0, <2>1 DEF Min
<1>5. ChunkBlob(v, len, i) = SubSeq(Blob(v, len), a + 1, b)
  BY <1>4 DEF ChunkBlob
<1> HIDE DEF a, b
<1>6. ASSUME NEW k \in (a + 1)..b
      PROVE  Blob(v, len)[k] = <<v, k>> /\ Blob(v, len)[k] \in Version \X Nat
  <2>1. k \in 1..len /\ k \in Nat
    BY <1>0, <1>1, <1>3
  <2>2. Blob(v, len)[k] = <<v, k>>
    BY <1>0, <2>1, BlobIs
  <2> QED
    BY <2>1, <2>2
<1>7. /\ SubSeq(Blob(v, len), a + 1, b) \in Seq(Version \X Nat)
      /\ Len(SubSeq(Blob(v, len), a + 1, b)) = IF a + 1 <= b THEN b - (a + 1) + 1 ELSE 0
      /\ \A k \in 1..(b - (a + 1) + 1) : SubSeq(Blob(v, len), a + 1, b)[k] = Blob(v, len)[(a + 1) + k - 1]
  <2>1. a + 1 \in Int /\ b \in Int
    BY <1>1, <1>3
  <2> QED
    BY <1>6, <2>1, SubSeqProperties
<1>8. ASSUME NEW k \in 1..(b - a) PROVE ChunkBlob(v, len, i)[k] = <<v, a + k>>
  <2>1. k \in 1..(b - (a + 1) + 1) /\ (a + 1) + k - 1 = a + k /\ a + k \in (a + 1)..b
    BY <1>1, <1>3
  <2>2. SubSeq(Blob(v, len), a + 1, b)[k] = Blob(v, len)[a + k]
    BY <1>7, <2>1
  <2> QED
    BY <1>5, <1>6, <2>1, <2>2
<1>9. ChunkBlob(v, len, i) \in Blobs /\ Len(ChunkBlob(v, len, i)) = b - a
  BY <1>1, <1>3, <1>5, <1>7 DEF Blobs
<1> QED
  BY <1>1, <1>3, <1>8, <1>9 DEF a, b

\* readChunks: a prefix of the secret and its next slice are a longer prefix,
\* and after the last slice the whole secret.
LEMMA ChunksJoin ==
  ASSUME NEW v \in Version, NEW len \in Lengths, NEW i \in Nat, i < ChunkCount(len)
  PROVE  /\ i + 1 < ChunkCount(len) =>
              Blob(v, i * MaxBlob) \o ChunkBlob(v, len, i) = Blob(v, (i + 1) * MaxBlob)
         /\ i + 1 = ChunkCount(len) =>
              Blob(v, i * MaxBlob) \o ChunkBlob(v, len, i) = Blob(v, len)
<1> DEFINE a == i * MaxBlob
           b == IF len <= (i + 1) * MaxBlob THEN len ELSE (i + 1) * MaxBlob
           s == Blob(v, a)
           t == ChunkBlob(v, len, i)
<1>1. /\ a \in Nat /\ b \in Nat /\ a < b
      /\ t \in Blobs /\ Len(t) = b - a
      /\ \A k \in 1..(b - a) : t[k] = <<v, a + k>>
  BY ChunkIs
<1> HIDE DEF a, b
<1>2. s \in Blobs /\ Len(s) = a /\ \A k \in 1..a : s[k] = <<v, k>>
  BY <1>1, BlobIs
<1> HIDE DEF s, t
<1>3. /\ s \o t \in Blobs /\ Len(s \o t) = Len(s) + Len(t)
      /\ \A k \in 1..(Len(s) + Len(t)) : (s \o t)[k] = IF k <= Len(s) THEN s[k] ELSE t[k - Len(s)]
  BY <1>1, <1>2, ConcatProperties DEF Blobs
<1>4. \A k \in 1..b : (s \o t)[k] = <<v, k>>
  <2> SUFFICES ASSUME NEW k \in 1..b PROVE (s \o t)[k] = <<v, k>>
    OBVIOUS
  <2>1. CASE k <= a
    BY <1>1, <1>2, <1>3, <2>1
  <2>2. CASE k > a
    <3>1. k - a \in 1..(b - a) /\ a + (k - a) = k
      BY <1>1, <2>2
    <3>2. t[k - a] = <<v, k>>
      BY <1>1, <3>1
    <3>3. k \in 1..(Len(s) + Len(t)) /\ ~(k <= Len(s)) /\ Len(s) = a
      BY <1>1, <1>2, <2>2
    <3> QED
      BY <1>3, <3>2, <3>3
  <2>3. k <= a \/ k > a
    BY <1>1
  <2> QED
    BY <2>1, <2>2, <2>3
<1>5. s \o t = Blob(v, b)
  <2>1. Blob(v, b) \in Seq(Version \X Nat) /\ Len(Blob(v, b)) = b /\ \A k \in 1..b : Blob(v, b)[k] = <<v, k>>
    BY <1>1, BlobIs DEF Blobs
  <2>2. s \o t \in Seq(Version \X Nat) /\ Len(s \o t) = b
    BY <1>1, <1>2, <1>3 DEF Blobs
  <2>3. Len(s \o t) = Len(Blob(v, b)) /\ \A k \in 1..Len(s \o t) : (s \o t)[k] = Blob(v, b)[k]
    BY <1>4, <2>1, <2>2
  <2> QED
    BY <2>1, <2>2, <2>3, SeqEqual, Zenon
<1>6. MaxBlob \in Nat \ {0} /\ len \in Nat /\ i + 1 \in Nat
  BY WindowsAssumption
<1>7. i + 1 < ChunkCount(len) => b = (i + 1) * MaxBlob
  BY <1>6, ChunkCounts DEF b
<1>8. i + 1 = ChunkCount(len) => b = len
  BY <1>6, ChunkCounts DEF b
<1> QED
  BY <1>5, <1>7, <1>8 DEF a, s, t

-----------------------------------------------------------------------------
(* Types *)

\* What a read has of the credential it is loading.
Creds == [id : ID \cup {NoID}, meta : 0..MaxSaves, count : Index, blob : Blobs]

\* The types of the variables that belong to a caller, and of the others.
CallTypes ==
  /\ pc \in [Client -> PC]
  /\ op \in [Client -> [kind : Kind, id : ID \cup {NoID}, ver : 0..MaxSaves, len : Lengths \cup {0}]]
  /\ index \in [Client -> Index]
  /\ res \in [Client -> {"none", "ok", "notfound", "error"}]
ReadTypes ==
  /\ cred \in [Client -> Creds]
  /\ todo \in [Client -> SUBSET ID]
  /\ got \in [Client -> SUBSET (ID \X Version \X Blobs)]
NameTypes ==
  /\ primary \in [ID -> Primary \cup {Absent}]
  /\ chunk \in [ID -> [Index -> Blobs \cup {Absent}]]
  /\ \A id \in ID :
       /\ primary[id] # Absent => Len(primary[id].blob) <= MaxBlob
       /\ \A i \in Index : chunk[id][i] # Absent => Len(chunk[id][i]) \in 1..MaxBlob
AuxTypes ==
  /\ calm \in [Client -> BOOLEAN]
  /\ settled \in [ID -> Blobs \cup {Absent, Unknown}]
  /\ intact \in [ID -> BOOLEAN]
  /\ saves \in 0..MaxSaves /\ calls \in 0..MaxCalls

\* The type invariant by groups of variables, so that a step can keep one by one.
LEMMA Types ==
  TypeOK <=> CallTypes /\ ReadTypes /\ NameTypes /\ AuxTypes
BY Zenon DEF TypeOK, CallTypes, ReadTypes, NameTypes, AuxTypes, Creds

\* Constants have the types the assumptions give them.
LEMMA Constants ==
  /\ MaxBlob \in Nat \ {0} /\ MaxSaves \in Nat /\ MaxCalls \in Nat
  /\ Lengths \subseteq Nat \ {0} /\ NoID \notin ID /\ Absent # Unknown
  /\ Version \subseteq 0..MaxSaves /\ 0 \in Index /\ Index \subseteq Nat
  /\ NoOp \in [kind : Kind, id : ID \cup {NoID}, ver : 0..MaxSaves, len : Lengths \cup {0}]
  /\ NoCred \in Creds
<1>1. /\ MaxBlob \in Nat \ {0} /\ MaxSaves \in Nat /\ MaxCalls \in Nat
      /\ Lengths \subseteq Nat \ {0} /\ NoID \notin ID /\ Absent # Unknown
  BY WindowsAssumption
<1>2. 0 \in Index /\ Index \subseteq Nat
  BY ChunkCounts
<1>3. <<>> \in Blobs
  BY DEF Blobs
<1> QED
  BY <1>1, <1>2, <1>3 DEF Version, NoOp, NoCred, Kind, Creds

\* Only the ID of the credential being loaded is set.
LEMMA CredIdSet ==
  ASSUME NEW f \in [Client -> Creds], NEW c \in Client, NEW id \in ID \cup {NoID},
         NEW g, g = [f EXCEPT ![c].id = id]
  PROVE  /\ g \in [Client -> Creds]
         /\ g[c].id = id /\ \A e \in Client : e # c => g[e] = f[e]
<1>1. g = [f EXCEPT ![c] = [f[c] EXCEPT !.id = id]]
  BY Zenon
<1>2. f[c] \in Creds
  OBVIOUS
<1>3. [f[c] EXCEPT !.id = id] = [id |-> id, meta |-> f[c].meta, count |-> f[c].count, blob |-> f[c].blob]
  BY <1>2 DEF Creds
<1> QED
  BY <1>1, <1>2, <1>3 DEF Creds

\* So is only the blob.
LEMMA CredBlobSet ==
  ASSUME NEW f \in [Client -> Creds], NEW c \in Client, NEW b \in Blobs,
         NEW g, g = [f EXCEPT ![c].blob = b]
  PROVE  /\ g \in [Client -> Creds]
         /\ g[c].id = f[c].id /\ g[c].meta = f[c].meta /\ g[c].count = f[c].count /\ g[c].blob = b
         /\ \A e \in Client : e # c => g[e] = f[e]
<1>1. g = [f EXCEPT ![c] = [f[c] EXCEPT !.blob = b]]
  BY Zenon
<1>2. f[c] \in Creds
  OBVIOUS
<1>3. [f[c] EXCEPT !.blob = b] = [id |-> f[c].id, meta |-> f[c].meta, count |-> f[c].count, blob |-> b]
  BY <1>2 DEF Creds
<1> QED
  BY <1>1, <1>2, <1>3 DEF Creds

\* One chunk credential is written or removed.
LEMMA ChunkSet ==
  ASSUME NEW f \in [ID -> [Index -> Blobs \cup {Absent}]], NEW id \in ID, NEW i \in Index,
         NEW b \in Blobs \cup {Absent}, NEW g, g = [f EXCEPT ![id][i] = b]
  PROVE  /\ g \in [ID -> [Index -> Blobs \cup {Absent}]] /\ g[id][i] = b
         /\ \A j \in Index : j # i => g[id][j] = f[id][j]
         /\ \A x \in ID : x # id => g[x] = f[x]
<1>1. g = [f EXCEPT ![id] = [f[id] EXCEPT ![i] = b]]
  BY Zenon
<1>2. f[id] \in [Index -> Blobs \cup {Absent}]
  OBVIOUS
<1> QED
  BY <1>1, <1>2

-----------------------------------------------------------------------------
(* What a step does *)

\* A step of caller c other than the start of a call.
Works(c) ==
  \/ DeleteChunk(c) \/ WriteChunk(c) \/ WritePrimary(c) \/ DeletePrimary(c)
  \/ ListCredentials(c) \/ ReadPrimary(c) \/ ReadChunk(c) \/ CallFails(c) \/ Close(c)

\* A call begins.
LEMMA CallIs ==
  ASSUME TypeOK, NEW c \in Client, Call(c)
  PROVE  \E o \in [kind : Kind, id : ID \cup {NoID}, ver : 0..MaxSaves, len : Lengths \cup {0}] :
         /\ op' = [op EXCEPT ![c] = o]
         /\ o.kind \in {"save", "delete", "get"} => o.id \in ID
         /\ o.kind \in {"filter", "metadata"} => o.id = NoID
         /\ o.kind = "save" => o.ver \in Version /\ o.len \in Lengths
         /\ pc[c] = "idle"
         /\ pc' = [pc EXCEPT ![c] = IF Writes(o) THEN "wipe" ELSE IF o.kind = "get" THEN "primary" ELSE "list"]
         /\ ReadTypes' /\ AuxTypes'
         /\ cred'[c].id = o.id /\ \A e \in Client : e # c => cred'[e] = cred[e]
         /\ calm'[c] => \A e \in Client : Active(e) => ~Disturbs(op[e], o)
         /\ \A d \in Client : d # c /\ calm'[d] => calm[d] /\ (pc[d] # "idle" => ~Disturbs(o, op[d]))
         /\ settled' = IF Writes(o) THEN [settled EXCEPT ![o.id] = Unknown] ELSE settled
         /\ UNCHANGED <<primary, chunk, todo, index, got, res, intact>>
<1>0. CallTypes /\ ReadTypes /\ AuxTypes
  BY Types
<1>1. PICK o \in [kind : Kind, id : ID \cup {NoID}, ver : 0..MaxSaves, len : Lengths \cup {0}] :
        /\ op' = [op EXCEPT ![c] = o]
        /\ o.kind \in {"save", "delete", "get"} => o.id \in ID
        /\ o.kind \in {"filter", "metadata"} => o.id = NoID
        /\ o.kind = "save" => o.ver \in Version /\ o.len \in Lengths
        /\ saves' \in 0..MaxSaves
  <2>1. CASE saves < MaxSaves /\ saves' = saves + 1 /\ \E id \in ID, len \in Lengths :
               op' = [op EXCEPT ![c] = [kind |-> "save", id |-> id, ver |-> saves + 1, len |-> len]]
    <3>1. saves + 1 \in Version /\ saves + 1 \in 0..MaxSaves
      BY <1>0, <2>1, Constants DEF AuxTypes, Version
    <3> QED
      BY <2>1, <3>1 DEF Kind
  <2>2. CASE UNCHANGED saves /\ \E k \in {"delete", "get"}, id \in ID :
               op' = [op EXCEPT ![c] = [kind |-> k, id |-> id, ver |-> 0, len |-> 0]]
    <3>1. PICK k \in {"delete", "get"}, id \in ID :
            op' = [op EXCEPT ![c] = [kind |-> k, id |-> id, ver |-> 0, len |-> 0]]
      BY <2>2
    <3>2. [kind |-> k, id |-> id, ver |-> 0, len |-> 0] \in
            [kind : Kind, id : ID \cup {NoID}, ver : 0..MaxSaves, len : Lengths \cup {0}]
      BY Constants DEF Kind
    <3> QED
      BY <1>0, <2>2, <3>1, <3>2 DEF AuxTypes
  <2>3. CASE UNCHANGED saves /\ \E k \in {"filter", "metadata"} : op' = [op EXCEPT ![c] = [NoOp EXCEPT !.kind = k]]
    <3>1. PICK k \in {"filter", "metadata"} : op' = [op EXCEPT ![c] = [NoOp EXCEPT !.kind = k]]
      BY <2>3
    <3>2. [NoOp EXCEPT !.kind = k] = [kind |-> k, id |-> NoID, ver |-> 0, len |-> 0]
      BY DEF NoOp
    <3> QED
      BY <1>0, <2>3, <3>1, <3>2, Constants DEF AuxTypes, Kind
  <2> QED
    BY <2>1, <2>2, <2>3 DEF Call
<1>2. op'[c] = o
  BY <1>0, <1>1 DEF CallTypes
<1>3. pc' = [pc EXCEPT ![c] = IF Writes(o) THEN "wipe" ELSE IF o.kind = "get" THEN "primary" ELSE "list"]
  BY <1>2 DEF Call, Goto, Writes
<1>4. /\ cred'[c].id = o.id /\ \A e \in Client : e # c => cred'[e] = cred[e]
      /\ cred' \in [Client -> Creds]
  <2>1. PICK g : g = cred'
    OBVIOUS
  <2>2. o.id \in ID \cup {NoID} /\ g = [cred EXCEPT ![c].id = o.id]
    BY <1>2, <2>1 DEF Call
  <2> QED
    BY <1>0, <2>1, <2>2, CredIdSet DEF ReadTypes
<1>5. ReadTypes'
  BY <1>0, <1>4 DEF ReadTypes, Call
<1>6. /\ pc[c] = "idle" /\ calls' \in 0..MaxCalls
      /\ UNCHANGED <<primary, chunk, todo, index, got, res, intact>>
      /\ settled' = IF Writes(o) THEN [settled EXCEPT ![o.id] = Unknown] ELSE settled
  BY <1>0, <1>2, Constants DEF Call, AuxTypes, names
<1>7. calm' = [d \in Client |->
              IF d = c THEN \A e \in Client : Active(e) => ~Disturbs(op[e], o)
              ELSE calm[d] /\ ~(pc[d] # "idle" /\ Disturbs(o, op[d]))]
  BY <1>2, Zenon DEF Call
<1>8. calm'[c] => \A e \in Client : Active(e) => ~Disturbs(op[e], o)
  BY <1>7, Zenon
<1>9. \A d \in Client : d # c /\ calm'[d] => calm[d] /\ (pc[d] # "idle" => ~Disturbs(o, op[d]))
  BY <1>7, Zenon
<1>10. calm' \in [Client -> BOOLEAN]
  <2>1. \A d \in Client : calm[d] \in BOOLEAN
    BY <1>0 DEF AuxTypes
  <2>2. \A d \in Client : calm'[d] \in BOOLEAN
    BY <1>7, <2>1
  <2> QED
    BY <1>7, <2>2
<1>11. settled' \in [ID -> Blobs \cup {Absent, Unknown}] /\ intact' \in [ID -> BOOLEAN]
  BY <1>0, <1>6 DEF AuxTypes
<1>12. AuxTypes'
  BY <1>1, <1>6, <1>10, <1>11 DEF AuxTypes
<1> QED
  BY <1>1, <1>3, <1>4, <1>5, <1>6, <1>8, <1>9, <1>12, Zenon

\* One turn of deleteChunks.
LEMMA DeleteChunkIs ==
  ASSUME TypeOK, CallInv, PlacedInv, NEW c \in Client, DeleteChunk(c)
  PROVE  LET id == op[c].id
             i == index[c]
         IN  /\ pc[c] = "wipe" /\ id \in ID /\ Writer(c, id) /\ i \in Index
             /\ NameTypes' /\ UNCHANGED <<primary, op, todo, cred, got, res, settled, intact, calm, saves, calls>>
             /\ \/ /\ chunk[id][i] # Absent /\ i + 1 \in Index
                   /\ index' = [index EXCEPT ![c] = i + 1] /\ pc' = pc
                   /\ \A j \in Index : chunk'[id][j] = IF j = i THEN Absent ELSE chunk[id][j]
                   /\ \A x \in ID : x # id => chunk'[x] = chunk[x]
                \/ /\ chunk[id][i] = Absent /\ chunk' = chunk
                   /\ index' = [index EXCEPT ![c] = 0]
                   /\ \E l \in {"remove", "chunks", "write"} :
                        /\ pc' = [pc EXCEPT ![c] = l]
                        /\ l = "remove" => op[c].kind = "delete"
                        /\ l # "remove" => op[c].kind = "save" /\ ((l = "chunks") = (CountAttribute(op[c].len) > 0))
<1>0. CallTypes /\ NameTypes /\ CallOf(c)
  BY Types DEF CallInv
<1>1. pc[c] = "wipe" /\ UNCHANGED <<primary, op, todo, cred, got, res, settled, intact, calm, saves, calls>>
  BY DEF DeleteChunk, read, known, aux
<1>2. Active(c) /\ Writes(op[c]) /\ op[c].id \in ID /\ Writer(c, op[c].id)
  BY <1>0, <1>1 DEF CallOf, Active, Writer, Writes
<1>3. PICK id, i : id = op[c].id /\ i = index[c]
  OBVIOUS
<1>4. id \in ID /\ i \in Index
  BY <1>0, <1>2, <1>3 DEF CallTypes
<1>5. CASE chunk[id][i] # Absent
  <2>1. i < Top /\ i + 1 \in Index
    BY <1>4, <1>5, ChunkCounts DEF PlacedInv, Placed
  <2>2. chunk' = [chunk EXCEPT ![id][i] = Absent] /\ index' = [index EXCEPT ![c] = i + 1] /\ pc' = pc
    BY <1>0, <1>3, <1>5 DEF DeleteChunk, CallTypes
  <2>3. /\ chunk' \in [ID -> [Index -> Blobs \cup {Absent}]] /\ chunk'[id][i] = Absent
        /\ \A j \in Index : j # i => chunk'[id][j] = chunk[id][j]
        /\ \A x \in ID : x # id => chunk'[x] = chunk[x]
    BY <1>0, <1>4, <2>2, ChunkSet DEF NameTypes
  <2>4. NameTypes'
    BY <1>0, <1>1, <1>4, <2>3 DEF NameTypes
  <2> QED
    BY <1>1, <1>2, <1>3, <1>4, <1>5, <2>1, <2>2, <2>3, <2>4
<1>6. CASE chunk[id][i] = Absent
  <2>1. chunk' = chunk /\ index' = [index EXCEPT ![c] = 0]
    BY <1>3, <1>6 DEF DeleteChunk
  <2>2. \E l \in {"remove", "chunks", "write"} :
          /\ pc' = [pc EXCEPT ![c] = l]
          /\ l = "remove" => op[c].kind = "delete"
          /\ l # "remove" => op[c].kind = "save" /\ ((l = "chunks") = (CountAttribute(op[c].len) > 0))
    <3>1. op[c].kind \in {"save", "delete"}
      BY <1>2 DEF Writes
    <3>2. Goto(c, IF op[c].kind = "delete" THEN "remove"
                  ELSE IF CountAttribute(op[c].len) > 0 THEN "chunks" ELSE "write")
      BY <1>3, <1>6 DEF DeleteChunk
    <3>3. CASE op[c].kind = "delete"
      <4>1. pc' = [pc EXCEPT ![c] = "remove"]
        BY <3>2, <3>3 DEF Goto
      <4> QED
        BY <3>3, <4>1
    <3>4. CASE op[c].kind # "delete" /\ CountAttribute(op[c].len) > 0
      BY <3>1, <3>2, <3>4 DEF Goto
    <3>5. CASE op[c].kind # "delete" /\ ~(CountAttribute(op[c].len) > 0)
      BY <3>1, <3>2, <3>5 DEF Goto
    <3> QED
      BY <3>3, <3>4, <3>5
  <2>3. NameTypes'
    BY <1>0, <1>1, <2>1 DEF NameTypes
  <2> QED
    BY <1>1, <1>2, <1>3, <1>4, <1>6, <2>1, <2>2, <2>3
<1> QED
  BY <1>5, <1>6

\* Save writes a slice.
LEMMA WriteChunkIs ==
  ASSUME TypeOK, CallInv, NEW c \in Client, WriteChunk(c)
  PROVE  LET id == op[c].id
             i == index[c]
             piece == ChunkBlob(op[c].ver, op[c].len, index[c])
         IN  /\ pc[c] = "chunks" /\ id \in ID /\ Writer(c, id) /\ op[c].kind = "save"
             /\ op[c].ver \in Version /\ op[c].len \in Lengths
             /\ i \in Index /\ i < ChunkCount(op[c].len) /\ CountAttribute(op[c].len) = ChunkCount(op[c].len)
             /\ NameTypes' /\ UNCHANGED <<primary, op, todo, cred, got, res, settled, intact, calm, saves, calls>>
             /\ piece \in Blobs
             /\ \A j \in Index : chunk'[id][j] = IF j = i THEN piece ELSE chunk[id][j]
             /\ \A x \in ID : x # id => chunk'[x] = chunk[x]
             /\ \/ /\ i + 1 < ChunkCount(op[c].len) /\ i + 1 \in Index
                   /\ index' = [index EXCEPT ![c] = i + 1] /\ pc' = pc
                \/ /\ i + 1 = ChunkCount(op[c].len)
                   /\ index' = [index EXCEPT ![c] = 0] /\ pc' = [pc EXCEPT ![c] = "write"]
<1>0. CallTypes /\ NameTypes /\ CallOf(c)
  BY Types DEF CallInv
<1>1. pc[c] = "chunks" /\ UNCHANGED <<primary, op, todo, cred, got, res, settled, intact, calm, saves, calls>>
  BY DEF WriteChunk, read, known, aux
<1>2. PICK id, i, v, len : id = op[c].id /\ i = index[c] /\ v = op[c].ver /\ len = op[c].len
  OBVIOUS
<1>3. /\ id \in ID /\ Writer(c, id) /\ op[c].kind = "save" /\ v \in Version /\ len \in Lengths
      /\ i \in Index /\ i < ChunkCount(len) /\ CountAttribute(len) > 0
  BY <1>0, <1>1, <1>2 DEF CallOf, CallTypes, Active, Writes, Writer
<1>4. /\ i \in Nat /\ ChunkCount(len) \in Nat /\ ChunkCount(len) <= Top /\ Top \in Nat /\ Index = 0..Top
      /\ CountAttribute(len) = ChunkCount(len)
  BY <1>3, ChunkCounts, Constants
<1>5. PICK piece : piece = ChunkBlob(v, len, i)
  OBVIOUS
<1>6. piece \in Blobs /\ Len(piece) \in 1..MaxBlob
  <2>1. PICK a, b : /\ a \in Nat /\ b \in Nat /\ a < b /\ b <= a + MaxBlob
                    /\ piece \in Blobs /\ Len(piece) = b - a
    BY <1>3, <1>4, <1>5, ChunkIs, Zenon
  <2> QED
    BY <2>1, Constants
<1>7. chunk' = [chunk EXCEPT ![id][i] = piece]
  BY <1>2, <1>5 DEF WriteChunk
<1>8. /\ chunk' \in [ID -> [Index -> Blobs \cup {Absent}]] /\ chunk'[id][i] = piece
      /\ \A j \in Index : j # i => chunk'[id][j] = chunk[id][j]
      /\ \A x \in ID : x # id => chunk'[x] = chunk[x]
  BY <1>0, <1>3, <1>6, <1>7, ChunkSet DEF NameTypes
<1>9. NameTypes'
  <2>1. \A x \in ID, j \in Index : chunk'[x][j] # Absent => Len(chunk'[x][j]) \in 1..MaxBlob
    BY <1>0, <1>6, <1>8 DEF NameTypes
  <2> QED
    BY <1>0, <1>1, <1>8, <2>1 DEF NameTypes
<1>10. \/ /\ i + 1 < ChunkCount(len) /\ i + 1 \in Index
          /\ index' = [index EXCEPT ![c] = i + 1] /\ pc' = pc
       \/ /\ i + 1 = ChunkCount(len)
          /\ index' = [index EXCEPT ![c] = 0] /\ pc' = [pc EXCEPT ![c] = "write"]
  <2>1. CASE i + 1 < ChunkCount(len)
    BY <1>0, <1>2, <1>4, <2>1 DEF WriteChunk, CallTypes
  <2>2. CASE ~(i + 1 < ChunkCount(len))
    BY <1>0, <1>2, <1>3, <1>4, <2>2 DEF WriteChunk, CallTypes, Goto
  <2> QED
    BY <2>1, <2>2
<1> QED
  BY <1>1, <1>2, <1>3, <1>4, <1>5, <1>6, <1>8, <1>9, <1>10

\* The last call of Save, or of Delete: it leaves what, which is w once settled.
Ends(c, what, w) ==
  /\ primary' = [primary EXCEPT ![op[c].id] = what]
  /\ settled' = [settled EXCEPT ![op[c].id] = IF calm[c] THEN w ELSE Unknown]
  /\ intact' = [intact EXCEPT ![op[c].id] = intact[op[c].id] /\ calm[c]]

\* Save ends with the primary credential, which has the whole secret or the number
\* of its chunks.
LEMMA WritePrimaryIs ==
  ASSUME TypeOK, CallInv, NEW c \in Client, WritePrimary(c)
  PROVE  LET count == CountAttribute(op[c].len) IN
         /\ pc[c] = "write" /\ op[c].id \in ID /\ Writer(c, op[c].id) /\ op[c].kind = "save"
         /\ op[c].ver \in Version /\ op[c].len \in Lengths
         /\ Ends(c, [meta |-> op[c].ver, count |-> count, blob |-> IF count > 0 THEN <<>> ELSE Blob(op[c].ver, op[c].len)],
                 Blob(op[c].ver, op[c].len))
         /\ pc' = [pc EXCEPT ![c] = "close"] /\ res' = [res EXCEPT ![c] = "ok"]
         /\ NameTypes' /\ AuxTypes' /\ UNCHANGED <<chunk, op, todo, cred, got, index, calm, saves, calls>>
<1>0. CallTypes /\ NameTypes /\ AuxTypes /\ CallOf(c)
  BY Types DEF CallInv
<1>1. /\ pc[c] = "write" /\ UNCHANGED <<chunk, op, todo, cred, got, index, calm, saves, calls>>
      /\ pc' = [pc EXCEPT ![c] = "close"] /\ res' = [res EXCEPT ![c] = "ok"]
  BY DEF WritePrimary, read, aux, Return, Goto
<1>2. PICK id, v, len : id = op[c].id /\ v = op[c].ver /\ len = op[c].len
  OBVIOUS
<1>3. id \in ID /\ Writer(c, id) /\ op[c].kind = "save" /\ v \in Version /\ len \in Lengths
  BY <1>0, <1>1, <1>2 DEF CallOf, CallTypes, Active, Writes, Writer
<1>4. PICK p : p = [meta |-> v, count |-> CountAttribute(len),
                    blob |-> IF CountAttribute(len) > 0 THEN <<>> ELSE Blob(v, len)]
  OBVIOUS
<1>5. primary' = [primary EXCEPT ![id] = p]
  BY <1>2, <1>4 DEF WritePrimary
<1>6. /\ settled' = [settled EXCEPT ![id] = IF calm[c] THEN Blob(v, len) ELSE Unknown]
      /\ intact' = [intact EXCEPT ![id] = intact[id] /\ calm[c]]
  BY <1>2 DEF WritePrimary, Settle
<1>7. Blob(v, len) \in Blobs /\ Len(Blob(v, len)) = len /\ <<>> \in Blobs /\ Len(<<>>) = 0
  BY <1>3, BlobIs, Constants DEF Blobs
<1>8. p \in Primary /\ Len(p.blob) <= MaxBlob /\ p # Absent
  BY <1>3, <1>4, <1>7, ChunkCounts, Constants, CredentialAssumption DEF Primary
<1>9. NameTypes'
  BY <1>0, <1>1, <1>3, <1>5, <1>8 DEF NameTypes
<1>10. AuxTypes'
  BY <1>0, <1>1, <1>3, <1>6, <1>7 DEF AuxTypes
<1> QED
  BY <1>1, <1>2, <1>3, <1>4, <1>5, <1>6, <1>9, <1>10 DEF Ends

\* Delete ends when the primary credential is gone.
LEMMA DeletePrimaryIs ==
  ASSUME TypeOK, CallInv, NEW c \in Client, DeletePrimary(c)
  PROVE  /\ pc[c] = "remove" /\ op[c].id \in ID /\ Writer(c, op[c].id) /\ op[c].kind = "delete"
         /\ Ends(c, Absent, Absent)
         /\ pc' = [pc EXCEPT ![c] = "close"] /\ res' = [res EXCEPT ![c] = "ok"]
         /\ NameTypes' /\ AuxTypes' /\ UNCHANGED <<chunk, op, todo, cred, got, index, calm, saves, calls>>
<1>0. CallTypes /\ NameTypes /\ AuxTypes /\ CallOf(c)
  BY Types DEF CallInv
<1>1. /\ pc[c] = "remove" /\ UNCHANGED <<chunk, op, todo, cred, got, index, calm, saves, calls>>
      /\ pc' = [pc EXCEPT ![c] = "close"] /\ res' = [res EXCEPT ![c] = "ok"]
  BY DEF DeletePrimary, read, aux, Return, Goto
<1>2. PICK id : id = op[c].id
  OBVIOUS
<1>3. id \in ID /\ Writer(c, id) /\ op[c].kind = "delete"
  BY <1>0, <1>1, <1>2 DEF CallOf, CallTypes, Active, Writes, Writer
<1>4. primary' = [primary EXCEPT ![id] = Absent]
  BY <1>2 DEF DeletePrimary
<1>5. /\ settled' = [settled EXCEPT ![id] = IF calm[c] THEN Absent ELSE Unknown]
      /\ intact' = [intact EXCEPT ![id] = intact[id] /\ calm[c]]
  BY <1>2 DEF DeletePrimary, Settle
<1>6. NameTypes'
  BY <1>0, <1>1, <1>3, <1>4 DEF NameTypes
<1>7. AuxTypes'
  BY <1>0, <1>1, <1>3, <1>5 DEF AuxTypes
<1> QED
  BY <1>1, <1>2, <1>3, <1>4, <1>5, <1>6, <1>7 DEF Ends

\* What belongs to another caller stays as it is.
OthersStay(c) ==
  \A e \in Client : e # c =>
    /\ pc'[e] = pc[e] /\ op'[e] = op[e] /\ index'[e] = index[e] /\ res'[e] = res[e]
    /\ cred'[e] = cred[e] /\ todo'[e] = todo[e] /\ got'[e] = got[e]

\* A step of a read changes nothing but what belongs to its caller.
Reads(c) ==
  /\ UNCHANGED <<primary, chunk, op, calm, settled, intact, saves, calls>>
  /\ pc[c] \in {"list", "primary", "readchunks"} /\ pc'[c] \in {"primary", "readchunks", "close"}
  /\ CallTypes' /\ ReadTypes' /\ CallOf(c)' /\ OthersStay(c)

\* A credential that has been read is added to the result; Filter goes on with the
\* next name, Get is done.
LEMMA LoadedIs ==
  ASSUME TypeOK, NEW c \in Client, CallOf(c), pc[c] \in {"primary", "readchunks"},
         NEW meta \in Version, NEW blob \in Blobs, Loaded(c, meta, blob), op' = op
  PROVE  /\ got'[c] = got[c] \cup {<<cred[c].id, meta, blob>>}
         /\ \/ pc'[c] = "close" /\ res'[c] = "ok"
            \/ pc'[c] = "primary" /\ op[c].kind = "filter"
         /\ CallTypes' /\ ReadTypes' /\ CallOf(c)' /\ OthersStay(c)
<1>0. CallTypes /\ ReadTypes
  BY Types
<1>1. op[c].kind \in {"get", "filter"} /\ cred[c].id \in ID /\ res[c] = "none"
  BY DEF CallOf
<1>2. /\ got' = [got EXCEPT ![c] = got[c] \cup {<<cred[c].id, meta, blob>>}]
      /\ index' = [index EXCEPT ![c] = 0]
  BY DEF Loaded
<1>3. got' \in [Client -> SUBSET (ID \X Version \X Blobs)] /\ got'[c] = got[c] \cup {<<cred[c].id, meta, blob>>}
  BY <1>0, <1>1, <1>2 DEF ReadTypes
<1>4. index' \in [Client -> Index] /\ index'[c] = 0
  BY <1>0, <1>2, Constants DEF CallTypes
<1>5. /\ op[c].kind = "get" => op[c].id \in ID /\ cred[c].id = op[c].id /\ todo[c] = {} /\ got[c] = {}
      /\ op[c].kind = "filter" => op[c].id = NoID
  BY <1>1 DEF CallOf
<1>6. CASE todo[c] = {} /\ Return(c, "ok") /\ UNCHANGED <<cred, todo>>
  <2>1. pc' = [pc EXCEPT ![c] = "close"] /\ res' = [res EXCEPT ![c] = "ok"]
    BY <1>6 DEF Return, Goto
  <2>2. pc'[c] = "close" /\ res'[c] = "ok" /\ pc' \in [Client -> PC]
          /\ res' \in [Client -> {"none", "ok", "notfound", "error"}]
    BY <1>0, <2>1 DEF CallTypes, PC
  <2>3. CallTypes' /\ ReadTypes'
    BY <1>0, <1>3, <1>4, <1>6, <2>2 DEF CallTypes, ReadTypes
  <2>4. OthersStay(c)
    BY <1>0, <1>2, <1>6, <2>1 DEF OthersStay, CallTypes, ReadTypes
  <2>5. op[c].kind = "get" => \A t \in got'[c] : t[1] = op[c].id
    BY <1>3, <1>5
  <2>6. CallOf(c)'
    BY <1>1, <1>5, <1>6, <2>2, <2>5 DEF CallOf, Active, Writes
  <2> QED
    BY <1>3, <2>2, <2>3, <2>4, <2>6
<1>7. CASE \E id \in todo[c] :
             /\ cred' = [cred EXCEPT ![c] = [NoCred EXCEPT !.id = id]]
             /\ todo' = [todo EXCEPT ![c] = todo[c] \ {id}]
             /\ Goto(c, "primary")
             /\ UNCHANGED res
  <2>1. PICK id \in todo[c] :
             /\ cred' = [cred EXCEPT ![c] = [NoCred EXCEPT !.id = id]]
             /\ todo' = [todo EXCEPT ![c] = todo[c] \ {id}]
             /\ pc' = [pc EXCEPT ![c] = "primary"]
             /\ res' = res
    BY <1>7 DEF Goto
  <2>2. id \in ID /\ op[c].kind = "filter"
    BY <1>0, <1>1, <1>5 DEF ReadTypes
  <2>3. [NoCred EXCEPT !.id = id] = [id |-> id, meta |-> 0, count |-> 0, blob |-> <<>>]
    BY DEF NoCred
  <2>4. [NoCred EXCEPT !.id = id] \in Creds /\ [NoCred EXCEPT !.id = id].id = id
    BY <2>2, <2>3, Constants DEF Creds, NoCred
  <2>5. cred' \in [Client -> Creds] /\ cred'[c].id = id /\ \A e \in Client : e # c => cred'[e] = cred[e]
    BY <1>0, <2>1, <2>4 DEF ReadTypes
  <2>6. todo' \in [Client -> SUBSET ID]
    BY <1>0, <2>1 DEF ReadTypes
  <2>7. pc'[c] = "primary" /\ pc' \in [Client -> PC]
    BY <1>0, <2>1 DEF CallTypes, PC
  <2>8. CallTypes' /\ ReadTypes'
    BY <1>0, <1>3, <1>4, <2>1, <2>5, <2>6, <2>7 DEF CallTypes, ReadTypes
  <2>9. OthersStay(c)
    BY <1>0, <1>2, <2>1, <2>5 DEF OthersStay, CallTypes, ReadTypes
  <2>10. CallOf(c)'
    BY <1>1, <1>4, <1>5, <2>1, <2>2, <2>5, <2>7 DEF CallOf, Active, Writes
  <2> QED
    BY <1>3, <2>2, <2>7, <2>8, <2>9, <2>10
<1> QED
  BY <1>6, <1>7 DEF Loaded

\* Listing the credentials changes nothing and reads no secret yet.
LEMMA ListCredentialsIs ==
  ASSUME TypeOK, CallInv, NEW c \in Client, ListCredentials(c)
  PROVE  /\ Reads(c)
         /\ op[c].kind # "get" /\ (op[c].kind = "filter" => got'[c] = {}) /\ pc'[c] # "readchunks"
<1>0. CallTypes /\ ReadTypes /\ NameTypes /\ CallOf(c)
  BY Types DEF CallInv
<1>1. pc[c] = "list" /\ UNCHANGED <<primary, chunk, op, calm, settled, intact, saves, calls, index>>
  BY DEF ListCredentials, names, known, aux
<1>2. op[c].kind \in {"filter", "metadata"} /\ op[c].id = NoID /\ got[c] = {} /\ res[c] = "none" /\ index[c] = 0
  BY <1>0, <1>1 DEF CallOf
<1>3. PICK matched \in SUBSET {id \in ID : primary[id] # Absent} :
       \/ /\ op[c].kind = "filter" /\ matched # {}
          /\ \E id \in matched :
               /\ cred' = [cred EXCEPT ![c].id = id]
               /\ todo' = [todo EXCEPT ![c] = matched \ {id}]
          /\ Goto(c, "primary")
          /\ UNCHANGED <<got, res>>
       \/ /\ op[c].kind = "metadata" \/ matched = {}
          /\ got' = [got EXCEPT ![c] = {<<id, primary[id].meta, <<>> >> : id \in matched}]
          /\ Return(c, "ok")
          /\ UNCHANGED <<cred, todo>>
  BY Zenon DEF ListCredentials
<1>4. CASE /\ op[c].kind = "filter" /\ matched # {}
           /\ \E id \in matched :
               /\ cred' = [cred EXCEPT ![c].id = id]
               /\ todo' = [todo EXCEPT ![c] = matched \ {id}]
           /\ Goto(c, "primary")
           /\ UNCHANGED <<got, res>>
  <2>1. PICK id \in matched : cred' = [cred EXCEPT ![c].id = id] /\ todo' = [todo EXCEPT ![c] = matched \ {id}]
    BY <1>4
  <2>2. id \in ID /\ matched \ {id} \in SUBSET ID
    OBVIOUS
  <2>3. cred' \in [Client -> Creds] /\ cred'[c].id = id /\ \A e \in Client : e # c => cred'[e] = cred[e]
    <3>1. PICK g : g = cred' /\ g = [cred EXCEPT ![c].id = id]
      BY <2>1
    <3> QED
      BY <1>0, <2>2, <3>1, CredIdSet DEF ReadTypes
  <2>4. todo' \in [Client -> SUBSET ID]
    BY <1>0, <2>1, <2>2 DEF ReadTypes
  <2>5. pc' = [pc EXCEPT ![c] = "primary"] /\ pc'[c] = "primary" /\ pc' \in [Client -> PC]
    BY <1>0, <1>4 DEF CallTypes, PC, Goto
  <2>6. CallTypes' /\ ReadTypes'
    BY <1>0, <1>1, <1>4, <2>3, <2>4, <2>5 DEF CallTypes, ReadTypes
  <2>7. OthersStay(c)
    BY <1>0, <1>1, <1>4, <2>1, <2>3, <2>5 DEF OthersStay, CallTypes, ReadTypes
  <2>8. CallOf(c)'
    BY <1>1, <1>2, <1>4, <2>2, <2>3, <2>5 DEF CallOf, Active, Writes
  <2> QED
    BY <1>1, <1>2, <1>4, <2>5, <2>6, <2>7, <2>8 DEF Reads
<1>5. CASE /\ op[c].kind = "metadata" \/ matched = {}
           /\ got' = [got EXCEPT ![c] = {<<id, primary[id].meta, <<>> >> : id \in matched}]
           /\ Return(c, "ok")
           /\ UNCHANGED <<cred, todo>>
  <2>1. pc' = [pc EXCEPT ![c] = "close"] /\ res' = [res EXCEPT ![c] = "ok"]
    BY <1>5 DEF Return, Goto
  <2>2. pc'[c] = "close" /\ pc' \in [Client -> PC] /\ res' \in [Client -> {"none", "ok", "notfound", "error"}]
    BY <1>0, <2>1 DEF CallTypes, PC
  <2>3. got' \in [Client -> SUBSET (ID \X Version \X Blobs)]
    <3>1. \A id \in matched : id \in ID /\ primary[id].meta \in Version /\ <<>> \in Blobs
      BY <1>0 DEF NameTypes, Primary, Blobs
    <3>2. {<<id, primary[id].meta, <<>> >> : id \in matched} \in SUBSET (ID \X Version \X Blobs)
      BY <3>1
    <3> QED
      BY <1>0, <1>5, <3>2 DEF ReadTypes
  <2>4. op[c].kind = "filter" => got'[c] = {}
    BY <1>0, <1>5 DEF ReadTypes
  <2>5. CallTypes' /\ ReadTypes'
    BY <1>0, <1>1, <1>5, <2>2, <2>3 DEF CallTypes, ReadTypes
  <2>6. OthersStay(c)
    BY <1>0, <1>1, <1>5, <2>1 DEF OthersStay, CallTypes, ReadTypes
  <2>7. CallOf(c)'
    BY <1>1, <1>2, <2>2 DEF CallOf, Active, Writes
  <2> QED
    BY <1>1, <1>2, <2>2, <2>4, <2>5, <2>6, <2>7 DEF Reads
<1> QED
  BY <1>3, <1>4, <1>5

\* Reading a primary credential finds none, one with the secret in it, or one
\* whose chunks are read next.
LEMMA ReadPrimaryIs ==
  ASSUME TypeOK, CallInv, NEW c \in Client, ReadPrimary(c)
  PROVE  LET p == primary[cred[c].id] IN
         /\ Reads(c) /\ pc[c] = "primary" /\ index[c] = 0 /\ op[c].kind \in {"get", "filter"} /\ cred[c].id \in ID
         /\ \/ /\ p = Absent /\ got'[c] = got[c]
               /\ pc'[c] = "close" /\ res'[c] = "notfound"
            \/ /\ p # Absent /\ p.count > 0 /\ got'[c] = got[c] /\ pc'[c] = "readchunks" /\ index'[c] = 0
               /\ cred'[c] = [id |-> cred[c].id, meta |-> p.meta, count |-> p.count, blob |-> <<>>]
            \/ /\ p # Absent /\ p.count = 0
               /\ got'[c] = got[c] \cup {<<cred[c].id, p.meta, p.blob>>}
               /\ \/ pc'[c] = "close" /\ res'[c] = "ok"
                  \/ pc'[c] = "primary" /\ op[c].kind = "filter"
<1>0. CallTypes /\ ReadTypes /\ NameTypes /\ CallOf(c)
  BY Types DEF CallInv
<1>1. pc[c] = "primary" /\ UNCHANGED <<primary, chunk, op, calm, settled, intact, saves, calls>>
  BY DEF ReadPrimary, names, known, aux
<1>2. /\ op[c].kind \in {"get", "filter"} /\ cred[c].id \in ID /\ res[c] = "none" /\ index[c] = 0
      /\ op[c].kind = "get" => op[c].id \in ID /\ cred[c].id = op[c].id /\ todo[c] = {} /\ got[c] = {}
      /\ op[c].kind = "filter" => op[c].id = NoID
  BY <1>0, <1>1 DEF CallOf
<1>3. PICK p \in Primary \cup {Absent} : p = primary[cred[c].id]
  BY <1>0, <1>2 DEF NameTypes
<1>4. CASE p = Absent /\ Return(c, "notfound") /\ UNCHANGED <<todo, index, cred, got>>
  <2>1. pc' = [pc EXCEPT ![c] = "close"] /\ res' = [res EXCEPT ![c] = "notfound"]
    BY <1>4 DEF Return, Goto
  <2>2. /\ pc'[c] = "close" /\ pc' \in [Client -> PC] /\ res'[c] = "notfound"
        /\ res' \in [Client -> {"none", "ok", "notfound", "error"}]
    BY <1>0, <2>1 DEF CallTypes, PC
  <2>3. CallTypes' /\ ReadTypes'
    BY <1>0, <1>1, <1>4, <2>2 DEF CallTypes, ReadTypes
  <2>4. OthersStay(c)
    BY <1>0, <1>1, <1>4, <2>1 DEF OthersStay, CallTypes, ReadTypes
  <2>5. CallOf(c)'
    BY <1>1, <1>2, <1>4, <2>2 DEF CallOf, Active, Writes
  <2> QED
    BY <1>1, <1>2, <1>3, <1>4, <2>2, <2>3, <2>4, <2>5 DEF Reads
<1>5. CASE /\ p # Absent /\ p.count > 0
           /\ cred' = [cred EXCEPT ![c] = [id |-> cred[c].id, meta |-> p.meta, count |-> p.count, blob |-> <<>>]]
           /\ Goto(c, "readchunks")
           /\ UNCHANGED <<todo, index, got, res>>
  <2>1. p \in Primary /\ p.meta \in Version /\ p.count \in Index /\ p.count \in Nat
    BY <1>5, Constants DEF Primary
  <2>2. [id |-> cred[c].id, meta |-> p.meta, count |-> p.count, blob |-> <<>>] \in Creds
    <3>1. <<>> \in Blobs
      BY DEF Blobs
    <3>2. p.meta \in 0..MaxSaves
      BY <2>1, Constants
    <3> QED
      BY <1>2, <2>1, <3>1, <3>2 DEF Creds
  <2>3. /\ cred' \in [Client -> Creds] /\ \A e \in Client : e # c => cred'[e] = cred[e]
        /\ cred'[c] = [id |-> cred[c].id, meta |-> p.meta, count |-> p.count, blob |-> <<>>]
    BY <1>0, <1>5, <2>2 DEF ReadTypes
  <2>4. cred'[c].id = cred[c].id /\ cred'[c].meta = p.meta /\ cred'[c].count = p.count
    BY <2>3
  <2>5. pc' = [pc EXCEPT ![c] = "readchunks"] /\ pc'[c] = "readchunks" /\ pc' \in [Client -> PC]
    BY <1>0, <1>5 DEF CallTypes, PC, Goto
  <2>6. CallTypes' /\ ReadTypes'
    BY <1>0, <1>1, <1>5, <2>3, <2>5 DEF CallTypes, ReadTypes
  <2>7. OthersStay(c)
    BY <1>0, <1>1, <1>5, <2>3, <2>5 DEF OthersStay, CallTypes, ReadTypes
  <2>8. CallOf(c)'
    BY <1>1, <1>2, <1>5, <2>1, <2>4, <2>5 DEF CallOf, Active, Writes
  <2> QED
    <3>1. Reads(c)
      BY <1>1, <2>5, <2>6, <2>7, <2>8 DEF Reads
    <3>2. index'[c] = 0 /\ got'[c] = got[c]
      BY <1>2, <1>5
    <3> QED
      BY <1>1, <1>2, <1>3, <1>5, <2>3, <2>5, <3>1, <3>2, Zenon
<1>6. CASE p # Absent /\ p.count = 0 /\ Loaded(c, p.meta, p.blob)
  <2>1. p.meta \in Version /\ p.blob \in Blobs
    BY <1>6 DEF Primary
  <2>2. /\ got'[c] = got[c] \cup {<<cred[c].id, p.meta, p.blob>>}
        /\ \/ pc'[c] = "close" /\ res'[c] = "ok"
           \/ pc'[c] = "primary" /\ op[c].kind = "filter"
        /\ CallTypes' /\ ReadTypes' /\ CallOf(c)' /\ OthersStay(c)
    BY <1>0, <1>1, <1>6, <2>1, LoadedIs
  <2>3. Reads(c)
    BY <1>1, <2>2 DEF Reads
  <2> QED
    BY <1>1, <1>2, <1>3, <1>6, <2>2, <2>3
<1> QED
  BY <1>3, <1>4, <1>5, <1>6 DEF ReadPrimary

\* Reading a chunk finds none, or appends it, and goes on or is done.
LEMMA ReadChunkIs ==
  ASSUME TypeOK, CallInv, NEW c \in Client, ReadChunk(c)
  PROVE  LET piece == chunk[cred[c].id][index[c]] IN
         /\ Reads(c) /\ pc[c] = "readchunks" /\ op[c].kind \in {"get", "filter"}
         /\ cred[c].id \in ID /\ cred[c].meta \in Version /\ index[c] \in Index /\ index[c] < cred[c].count
         /\ \/ /\ piece = Absent /\ got'[c] = got[c]
               /\ pc'[c] = "close" /\ res'[c] = "notfound"
            \/ /\ piece # Absent /\ index[c] + 1 < cred[c].count /\ got'[c] = got[c]
               /\ pc'[c] = "readchunks" /\ index'[c] = index[c] + 1
               /\ cred'[c].id = cred[c].id /\ cred'[c].meta = cred[c].meta
               /\ cred'[c].count = cred[c].count /\ cred'[c].blob = cred[c].blob \o piece
            \/ /\ piece # Absent /\ index[c] + 1 = cred[c].count
               /\ got'[c] = got[c] \cup {<<cred[c].id, cred[c].meta, cred[c].blob \o piece>>}
               /\ \/ pc'[c] = "close" /\ res'[c] = "ok"
                  \/ pc'[c] = "primary" /\ op[c].kind = "filter"
<1>0. CallTypes /\ ReadTypes /\ NameTypes /\ CallOf(c)
  BY Types DEF CallInv
<1>1. pc[c] = "readchunks" /\ UNCHANGED <<primary, chunk, op, calm, settled, intact, saves, calls>>
  BY DEF ReadChunk, names, known, aux
<1>2. /\ op[c].kind \in {"get", "filter"} /\ cred[c].id \in ID /\ res[c] = "none" /\ index[c] \in Index
      /\ index[c] < cred[c].count /\ cred[c].meta \in Version
      /\ op[c].kind = "get" => op[c].id \in ID /\ cred[c].id = op[c].id /\ todo[c] = {} /\ got[c] = {}
      /\ op[c].kind = "filter" => op[c].id = NoID
  BY <1>0, <1>1 DEF CallOf, CallTypes
<1>3. PICK piece \in Blobs \cup {Absent} : piece = chunk[cred[c].id][index[c]]
  BY <1>0, <1>2 DEF NameTypes
<1>a. cred[c].count \in Index /\ cred[c].blob \in Blobs
  BY <1>0 DEF ReadTypes, Creds
<1>b. piece # Absent => cred[c].blob \o piece \in Blobs
  BY <1>a DEF Blobs
<1>4. CASE piece = Absent /\ Return(c, "notfound") /\ UNCHANGED <<todo, index, cred, got>>
  <2>1. pc' = [pc EXCEPT ![c] = "close"] /\ res' = [res EXCEPT ![c] = "notfound"]
    BY <1>4 DEF Return, Goto
  <2>2. /\ pc'[c] = "close" /\ pc' \in [Client -> PC] /\ res'[c] = "notfound"
        /\ res' \in [Client -> {"none", "ok", "notfound", "error"}]
    BY <1>0, <2>1 DEF CallTypes, PC
  <2>3. CallTypes' /\ ReadTypes'
    BY <1>0, <1>1, <1>4, <2>2 DEF CallTypes, ReadTypes
  <2>4. OthersStay(c)
    BY <1>0, <1>1, <1>4, <2>1 DEF OthersStay, CallTypes, ReadTypes
  <2>5. CallOf(c)'
    BY <1>1, <1>2, <1>4, <2>2 DEF CallOf, Active, Writes
  <2> QED
    BY <1>1, <1>2, <1>3, <1>4, <2>2, <2>3, <2>4, <2>5 DEF Reads
<1>5. CASE /\ piece # Absent /\ index[c] + 1 < cred[c].count
           /\ cred' = [cred EXCEPT ![c].blob = cred[c].blob \o piece]
           /\ index' = [index EXCEPT ![c] = index[c] + 1]
           /\ UNCHANGED <<pc, todo, got, res>>
  <2>1. PICK g, b : g = cred' /\ b = cred[c].blob \o piece /\ g = [cred EXCEPT ![c].blob = b]
    BY <1>5
  <2>2. /\ cred' \in [Client -> Creds]
        /\ cred'[c].id = cred[c].id /\ cred'[c].meta = cred[c].meta /\ cred'[c].count = cred[c].count
        /\ cred'[c].blob = b
        /\ \A e \in Client : e # c => cred'[e] = cred[e]
    <3>1. b \in Blobs /\ cred \in [Client -> Creds]
      BY <1>0, <1>5, <1>b, <2>1 DEF ReadTypes
    <3>2. g = [cred EXCEPT ![c].blob = b]
      BY <2>1
    <3>3. /\ g \in [Client -> Creds]
          /\ g[c].id = cred[c].id /\ g[c].meta = cred[c].meta /\ g[c].count = cred[c].count /\ g[c].blob = b
          /\ \A e \in Client : e # c => g[e] = cred[e]
      BY <3>1, <3>2, CredBlobSet
    <3> QED
      BY <2>1, <3>3
  <2>3. index[c] + 1 \in Index
    BY <1>2, <1>5, <1>a, ChunkCounts
  <2>4. index' \in [Client -> Index] /\ index'[c] = index[c] + 1
    BY <1>0, <1>5, <2>3 DEF CallTypes
  <2>5. CallTypes' /\ ReadTypes'
    BY <1>0, <1>1, <1>5, <2>2, <2>4 DEF CallTypes, ReadTypes
  <2>6. OthersStay(c)
    BY <1>0, <1>1, <1>5, <2>2 DEF OthersStay, CallTypes, ReadTypes
  <2>7. CallOf(c)'
    BY <1>1, <1>2, <1>5, <2>2, <2>4 DEF CallOf, Active, Writes
  <2> QED
    <3>1. Reads(c)
      BY <1>1, <1>5, <2>5, <2>6, <2>7 DEF Reads
    <3>2. pc'[c] = "readchunks" /\ got'[c] = got[c]
      BY <1>1, <1>5
    <3> QED
      BY <1>1, <1>2, <1>3, <1>5, <2>1, <2>2, <2>4, <3>1, <3>2, Zenon
<1>6. CASE /\ piece # Absent /\ index[c] + 1 = cred[c].count
           /\ Loaded(c, cred[c].meta, cred[c].blob \o piece)
  <2>1. PICK meta \in Version, blob \in Blobs : meta = cred[c].meta /\ blob = cred[c].blob \o piece
    BY <1>2, <1>6, <1>b
  <2>2. /\ got'[c] = got[c] \cup {<<cred[c].id, meta, blob>>}
        /\ \/ pc'[c] = "close" /\ res'[c] = "ok"
           \/ pc'[c] = "primary" /\ op[c].kind = "filter"
        /\ CallTypes' /\ ReadTypes' /\ CallOf(c)' /\ OthersStay(c)
    BY <1>0, <1>1, <1>6, <2>1, LoadedIs
  <2>3. Reads(c)
    BY <1>1, <2>2 DEF Reads
  <2> QED
    BY <1>1, <1>2, <1>3, <1>6, <2>1, <2>2, <2>3
<1> QED
  BY <1>3, <1>4, <1>5, <1>6 DEF ReadChunk

\* A call of the Credential Manager that fails ends the operation; what it was to
\* change is of unknown content from then on.
LEMMA CallFailsIs ==
  ASSUME TypeOK, CallInv, NEW c \in Client, CallFails(c)
  PROVE  /\ Active(c) /\ pc' = [pc EXCEPT ![c] = "close"] /\ res' = [res EXCEPT ![c] = "error"]
         /\ AuxTypes' /\ UNCHANGED <<primary, chunk, op, todo, cred, got, index, calm, saves, calls>>
         /\ Writes(op[c]) => /\ Writer(c, op[c].id) /\ op[c].id \in ID
                             /\ settled' = [settled EXCEPT ![op[c].id] = Unknown]
                             /\ intact' = [intact EXCEPT ![op[c].id] = FALSE]
         /\ ~Writes(op[c]) => UNCHANGED <<settled, intact>>
<1>0. AuxTypes /\ CallOf(c)
  BY Types DEF CallInv
<1>1. /\ Active(c) /\ pc' = [pc EXCEPT ![c] = "close"] /\ res' = [res EXCEPT ![c] = "error"]
      /\ UNCHANGED <<primary, chunk, op, todo, cred, got, index, calm, saves, calls>>
  BY DEF CallFails, Return, Goto, names, read, aux
<1>2. CASE Writes(op[c])
  <2>1. Writer(c, op[c].id) /\ op[c].id \in ID
    BY <1>0, <1>1, <1>2 DEF Writer, CallOf, Active, Writes
  <2>2. /\ settled' = [settled EXCEPT ![op[c].id] = Unknown]
        /\ intact' = [intact EXCEPT ![op[c].id] = FALSE]
    <3>1. Settle(c, Unknown, FALSE)
      BY <1>2 DEF CallFails
    <3> QED
      BY <3>1 DEF Settle
  <2>3. AuxTypes'
    BY <1>0, <1>1, <2>1, <2>2 DEF AuxTypes
  <2> QED
    BY <1>1, <1>2, <2>1, <2>2, <2>3
<1>3. CASE ~Writes(op[c])
  <2>1. UNCHANGED <<settled, intact>>
    BY <1>3 DEF CallFails, known
  <2> QED
    BY <1>0, <1>1, <1>3, <2>1 DEF AuxTypes
<1> QED
  BY <1>2, <1>3

\* The end of an operation changes no credential.
LEMMA CloseIs ==
  ASSUME TypeOK, CallInv, NEW c \in Client, Close(c)
  PROVE  /\ pc[c] = "close" /\ pc'[c] = "idle" /\ op'[c] = NoOp /\ got'[c] = {}
         /\ UNCHANGED <<primary, chunk, settled, intact, calm, saves, calls>>
         /\ CallTypes' /\ ReadTypes' /\ CallOf(c)' /\ OthersStay(c)
<1>0. CallTypes /\ ReadTypes
  BY Types
<1>1. pc[c] = "close" /\ UNCHANGED <<primary, chunk, settled, intact, calm, saves, calls>>
  BY DEF Close, names, known, aux
<1>2. /\ pc' = [pc EXCEPT ![c] = "idle"] /\ op' = [op EXCEPT ![c] = NoOp]
      /\ todo' = [todo EXCEPT ![c] = {}] /\ index' = [index EXCEPT ![c] = 0]
      /\ cred' = [cred EXCEPT ![c] = NoCred] /\ got' = [got EXCEPT ![c] = {}]
      /\ res' = [res EXCEPT ![c] = "none"]
  BY DEF Close, Goto
<1>3. NoCred \in Creds /\ 0 \in Index
  BY Constants
<1>4. NoOp \in [kind : Kind, id : ID \cup {NoID}, ver : 0..MaxSaves, len : Lengths \cup {0}]
  BY Constants
<1>5. /\ pc' \in [Client -> PC] /\ index' \in [Client -> Index]
      /\ op' \in [Client -> [kind : Kind, id : ID \cup {NoID}, ver : 0..MaxSaves, len : Lengths \cup {0}]]
      /\ res' \in [Client -> {"none", "ok", "notfound", "error"}]
  BY <1>0, <1>2, <1>3, <1>4 DEF CallTypes, PC
<1>6. CallTypes' /\ ReadTypes'
  BY <1>0, <1>2, <1>3, <1>5 DEF CallTypes, ReadTypes
<1>7. /\ pc'[c] = "idle" /\ op'[c] = NoOp /\ todo'[c] = {} /\ index'[c] = 0 /\ got'[c] = {} /\ res'[c] = "none"
  BY <1>0, <1>2 DEF CallTypes, ReadTypes
<1>8. OthersStay(c)
  BY <1>0, <1>2 DEF OthersStay, CallTypes, ReadTypes
<1>9. CallOf(c)'
  BY <1>7 DEF CallOf, Active, NoOp
<1> QED
  BY <1>1, <1>6, <1>7, <1>8, <1>9

\* What a caller has depends on its own variables.
LEMMA CallOfOthers ==
  ASSUME CallInv, NEW c \in Client, OthersStay(c), CallOf(c)'
  PROVE  CallInv'
<1> SUFFICES ASSUME NEW e \in Client, e # c PROVE CallOf(e)'
  BY DEF CallInv
<1>1. CallOf(e)
  BY DEF CallInv
<1>2. /\ pc'[e] = pc[e] /\ op'[e] = op[e] /\ index'[e] = index[e] /\ res'[e] = res[e]
      /\ cred'[e] = cred[e] /\ todo'[e] = todo[e] /\ got'[e] = got[e]
  BY DEF OthersStay
<1>3. Active(e)' <=> Active(e)
  BY <1>2 DEF Active
<1> QED
  BY <1>1, <1>2, <1>3 DEF CallOf

\* A client's step keeps the types and what the other clients were called for.
LEMMA StepTypes ==
  ASSUME TypeOK, CallInv, PlacedInv, NEW c \in Client, Call(c) \/ Works(c)
  PROVE  TypeOK' /\ CallInv' /\ OthersStay(c)
<1>0. CallTypes /\ ReadTypes /\ NameTypes /\ AuxTypes /\ CallOf(c)
  BY Types DEF CallInv
<1>1. SUFFICES CallTypes' /\ ReadTypes' /\ NameTypes' /\ AuxTypes' /\ CallOf(c)' /\ OthersStay(c)
  <2>1. TypeOK' <=> CallTypes' /\ ReadTypes' /\ NameTypes' /\ AuxTypes'
    BY Zenon DEF TypeOK, CallTypes, ReadTypes, NameTypes, AuxTypes, Creds
  <2> QED
    BY <1>1, <2>1, CallOfOthers
<1>2. CASE Call(c)
  <2>1. PICK o \in [kind : Kind, id : ID \cup {NoID}, ver : 0..MaxSaves, len : Lengths \cup {0}] :
         /\ op' = [op EXCEPT ![c] = o]
         /\ o.kind \in {"save", "delete", "get"} => o.id \in ID
         /\ o.kind \in {"filter", "metadata"} => o.id = NoID
         /\ o.kind = "save" => o.ver \in Version /\ o.len \in Lengths
         /\ pc[c] = "idle"
         /\ pc' = [pc EXCEPT ![c] = IF Writes(o) THEN "wipe" ELSE IF o.kind = "get" THEN "primary" ELSE "list"]
         /\ ReadTypes' /\ AuxTypes'
         /\ cred'[c].id = o.id /\ \A e \in Client : e # c => cred'[e] = cred[e]
         /\ UNCHANGED <<primary, chunk, todo, index, got, res, intact>>
    BY <1>2, CallIs, Zenon
  <2>2. /\ op'[c] = o
        /\ pc'[c] = IF Writes(o) THEN "wipe" ELSE IF o.kind = "get" THEN "primary" ELSE "list"
    BY <1>0, <2>1 DEF CallTypes
  <2>3. CallTypes'
    BY <1>0, <2>1 DEF CallTypes, PC
  <2>4. NameTypes'
    BY <1>0, <2>1 DEF NameTypes
  <2>5. OthersStay(c)
    BY <1>0, <2>1 DEF OthersStay, CallTypes
  <2>6. index[c] = 0 /\ got[c] = {} /\ todo[c] = {} /\ res[c] = "none" /\ o.kind \in Kind
    BY <1>0, <2>1 DEF CallOf
  <2>7. CallOf(c)'
    BY <2>1, <2>2, <2>6 DEF CallOf, Active, Writes, Kind
  <2> QED
    BY <2>1, <2>3, <2>4, <2>5, <2>7
<1>3. CASE DeleteChunk(c)
  <2>1. /\ pc[c] = "wipe" /\ NameTypes'
        /\ UNCHANGED <<primary, op, todo, cred, got, res, settled, intact, calm, saves, calls>>
    BY <1>3, DeleteChunkIs
  <2>2. \/ index[c] + 1 \in Index /\ index' = [index EXCEPT ![c] = index[c] + 1] /\ pc' = pc
        \/ /\ index' = [index EXCEPT ![c] = 0]
           /\ \E l \in {"remove", "chunks", "write"} :
                /\ pc' = [pc EXCEPT ![c] = l]
                /\ l = "remove" => op[c].kind = "delete"
                /\ l # "remove" => op[c].kind = "save" /\ ((l = "chunks") = (CountAttribute(op[c].len) > 0))
    BY <1>3, DeleteChunkIs, Zenon
  <2>3. CallTypes'
    BY <1>0, <2>1, <2>2, Constants DEF CallTypes, PC
  <2>4. ReadTypes' /\ AuxTypes'
    BY <1>0, <2>1 DEF ReadTypes, AuxTypes
  <2>5. OthersStay(c)
    BY <1>0, <2>1, <2>2 DEF OthersStay, CallTypes
  <2>6. CallOf(c)'
    <3>1. CASE pc' = pc
      BY <1>0, <2>1, <3>1 DEF CallOf, Active
    <3>2. CASE index' = [index EXCEPT ![c] = 0] /\ \E l \in {"remove", "chunks", "write"} :
                /\ pc' = [pc EXCEPT ![c] = l]
                /\ l = "remove" => op[c].kind = "delete"
                /\ l # "remove" => op[c].kind = "save" /\ ((l = "chunks") = (CountAttribute(op[c].len) > 0))
      <4>1. PICK l \in {"remove", "chunks", "write"} :
                /\ pc'[c] = l /\ index'[c] = 0
                /\ l = "remove" => op[c].kind = "delete"
                /\ l # "remove" => op[c].kind = "save"
                /\ l = "chunks" => CountAttribute(op[c].len) > 0
        BY <1>0, <3>2 DEF CallTypes
      <4>2. l = "chunks" => 0 < ChunkCount(op[c].len)
        BY <1>0, <2>1, <4>1, ChunkCounts DEF CallOf
      <4> QED
        BY <1>0, <2>1, <4>1, <4>2 DEF CallOf, Active, Writes
    <3> QED
      BY <2>2, <3>1, <3>2
  <2> QED
    BY <2>1, <2>3, <2>4, <2>5, <2>6
<1>4. CASE WriteChunk(c)
  <2>1. /\ pc[c] = "chunks" /\ NameTypes'
        /\ UNCHANGED <<primary, op, todo, cred, got, res, settled, intact, calm, saves, calls>>
    BY <1>4, WriteChunkIs
  <2>2. \/ /\ index[c] + 1 < ChunkCount(op[c].len) /\ index[c] + 1 \in Index
           /\ index' = [index EXCEPT ![c] = index[c] + 1] /\ pc' = pc
        \/ index' = [index EXCEPT ![c] = 0] /\ pc' = [pc EXCEPT ![c] = "write"]
    BY <1>4, WriteChunkIs, Zenon
  <2>3. CallTypes'
    <3>1. index' \in [Client -> Index]
      BY <1>0, <2>2, Constants DEF CallTypes
    <3>2. pc' \in [Client -> PC]
      BY <1>0, <2>2 DEF CallTypes, PC
    <3> QED
      BY <1>0, <2>1, <3>1, <3>2 DEF CallTypes
  <2>4. ReadTypes' /\ AuxTypes'
    BY <1>0, <2>1 DEF ReadTypes, AuxTypes
  <2>5. OthersStay(c)
    BY <1>0, <2>1, <2>2 DEF OthersStay, CallTypes
  <2>6. \/ index[c] + 1 < ChunkCount(op[c].len) /\ index'[c] = index[c] + 1 /\ pc'[c] = "chunks"
        \/ pc'[c] = "write"
    BY <1>0, <2>1, <2>2 DEF CallTypes
  <2>7. CallOf(c)'
    BY <1>0, <2>1, <2>6 DEF CallOf, Active, Writes
  <2> QED
    BY <2>1, <2>3, <2>4, <2>5, <2>7
<1>5. ASSUME NEW r \in {"ok", "error"}, Active(c),
             pc' = [pc EXCEPT ![c] = "close"], res' = [res EXCEPT ![c] = r],
             UNCHANGED <<op, todo, cred, got, index>>
      PROVE  CallTypes' /\ ReadTypes' /\ CallOf(c)' /\ OthersStay(c)
  <2>1. pc'[c] = "close" /\ res'[c] = r
    BY <1>0, <1>5 DEF CallTypes
  <2>2. CallTypes' /\ ReadTypes'
    BY <1>0, <1>5 DEF CallTypes, PC, ReadTypes
  <2>3. OthersStay(c)
    BY <1>0, <1>5 DEF OthersStay, CallTypes
  <2>4. CallOf(c)'
    BY <1>0, <1>5, <2>1 DEF CallOf, Active
  <2> QED
    BY <2>2, <2>3, <2>4
<1>6. CASE WritePrimary(c)
  BY <1>5, <1>6, WritePrimaryIs DEF Writer
<1>7. CASE DeletePrimary(c)
  BY <1>5, <1>7, DeletePrimaryIs DEF Writer
<1>8. CASE ListCredentials(c) \/ ReadPrimary(c) \/ ReadChunk(c)
  <2>1. Reads(c)
    BY <1>8, ListCredentialsIs, ReadPrimaryIs, ReadChunkIs
  <2> QED
    BY <1>0, <2>1 DEF Reads, NameTypes, AuxTypes
<1>9. CASE CallFails(c)
  <2>1. NameTypes' /\ AuxTypes'
    BY <1>0, <1>9, CallFailsIs DEF NameTypes
  <2> QED
    BY <1>5, <1>9, <2>1, CallFailsIs
<1>10. CASE Close(c)
  BY <1>0, <1>10, CloseIs DEF NameTypes, AuxTypes
<1> QED
  BY <1>2, <1>3, <1>4, <1>6, <1>7, <1>8, <1>9, <1>10 DEF Works

-----------------------------------------------------------------------------
(* The invariant *)

\* What a step may change: a caller's own state, and what it is the writer of.
LEMMA StepKeeps ==
  ASSUME TypeOK, CallInv, PlacedInv, NEW c \in Client, Works(c)
  PROVE  /\ calm' = calm
         /\ \A x \in Client : Active(x)' => Active(x) /\ op'[x] = op[x]
         /\ \A x \in Client : pc'[x] # "idle" => pc[x] # "idle" /\ op'[x] = op[x]
         /\ \A x \in Client, id \in ID : Writer(x, id)' => Writer(x, id)
         /\ \A id \in ID : Writer(c, id) \/ (/\ primary'[id] = primary[id] /\ chunk'[id] = chunk[id]
                                             /\ settled'[id] = settled[id] /\ intact'[id] = intact[id])
<1>0. CallTypes /\ NameTypes /\ AuxTypes /\ OthersStay(c)
  BY Types, StepTypes
<1>1. SUFFICES /\ calm' = calm
               /\ pc'[c] # "idle" => pc[c] # "idle" /\ op'[c] = op[c]
               /\ Active(c)' => Active(c)
               /\ \A id \in ID : Writer(c, id) \/ (/\ primary'[id] = primary[id] /\ chunk'[id] = chunk[id]
                                                   /\ settled'[id] = settled[id] /\ intact'[id] = intact[id])
  <2>1. \A x \in Client : pc'[x] # "idle" => pc[x] # "idle" /\ op'[x] = op[x]
    BY <1>0, <1>1 DEF OthersStay
  <2>2. \A x \in Client : Active(x)' => Active(x)
    BY <1>0, <1>1 DEF OthersStay, Active
  <2>3. \A x \in Client : Active(x)' => op'[x] = op[x]
    BY <2>1 DEF Active
  <2>4. \A x \in Client, id \in ID : Writer(x, id)' => Writer(x, id)
    BY <2>2, <2>3 DEF Writer, Writes
  <2> QED
    BY <1>1, <2>1, <2>2, <2>3, <2>4
<1>2. CASE DeleteChunk(c)
  BY <1>2, DeleteChunkIs DEF Writer, Active
<1>3. CASE WriteChunk(c)
  BY <1>3, WriteChunkIs DEF Writer, Active
<1>4. CASE WritePrimary(c)
  <2>1. /\ Writer(c, op[c].id) /\ pc' = [pc EXCEPT ![c] = "close"] /\ op' = op /\ calm' = calm /\ chunk' = chunk
        /\ \A id \in ID : id # op[c].id =>
             primary'[id] = primary[id] /\ settled'[id] = settled[id] /\ intact'[id] = intact[id]
    <3>1. PICK what, w : Ends(c, what, w)
      BY <1>4, WritePrimaryIs
    <3>2. /\ Writer(c, op[c].id) /\ pc' = [pc EXCEPT ![c] = "close"]
          /\ op' = op /\ calm' = calm /\ chunk' = chunk
      BY <1>4, WritePrimaryIs
    <3> QED
      BY <1>0, <3>1, <3>2 DEF Ends, NameTypes, AuxTypes
  <2> QED
    BY <1>0, <2>1 DEF Writer, Active, CallTypes
<1>5. CASE DeletePrimary(c)
  <2>1. /\ Writer(c, op[c].id) /\ pc' = [pc EXCEPT ![c] = "close"] /\ op' = op /\ calm' = calm /\ chunk' = chunk
        /\ \A id \in ID : id # op[c].id =>
             primary'[id] = primary[id] /\ settled'[id] = settled[id] /\ intact'[id] = intact[id]
    BY <1>0, <1>5, DeletePrimaryIs DEF Ends, NameTypes, AuxTypes
  <2> QED
    BY <1>0, <2>1 DEF Writer, Active, CallTypes
<1>6. CASE ListCredentials(c) \/ ReadPrimary(c) \/ ReadChunk(c)
  <2>1. Reads(c)
    BY <1>6, ListCredentialsIs, ReadPrimaryIs, ReadChunkIs
  <2> QED
    BY <2>1 DEF Reads, Active
<1>7. CASE CallFails(c)
  <2>1. Active(c) /\ pc' = [pc EXCEPT ![c] = "close"] /\ op' = op /\ calm' = calm /\ chunk' = chunk /\ primary' = primary
    BY <1>7, CallFailsIs
  <2>2. \A id \in ID : Writer(c, id) \/ (settled'[id] = settled[id] /\ intact'[id] = intact[id])
    BY <1>0, <1>7, CallFailsIs DEF AuxTypes, Writer
  <2> QED
    BY <1>0, <2>1, <2>2 DEF Active, CallTypes
<1>8. CASE Close(c)
  BY <1>8, CloseIs DEF Active
<1> QED
  BY <1>2, <1>3, <1>4, <1>5, <1>6, <1>7, <1>8 DEF Works

\* An undisturbed operation works on something nobody else is changing.
LEMMA Apart ==
  ASSUME CalmInv, NEW c \in Client, NEW e \in Client, e # c, calm[e], pc[e] # "idle",
         NEW id \in ID, Writer(c, id)
  PROVE  op[e].id # id /\ op[e].id # NoID
BY DEF CalmInv, CalmOf, Disturbs, Writer

\* Nobody begins a change of what an undisturbed operation works on without
\* disturbing it.
LEMMA CalmKept ==
  ASSUME TypeOK, CallInv, PlacedInv, CalmInv, NEW c \in Client, Call(c) \/ Works(c)
  PROVE  CalmInv'
<1>1. CASE Works(c)
  <2>1. /\ calm' = calm
        /\ \A x \in Client : Active(x)' => Active(x) /\ op'[x] = op[x]
        /\ \A x \in Client : pc'[x] # "idle" => pc[x] # "idle" /\ op'[x] = op[x]
    BY <1>1, StepKeeps
  <2> SUFFICES ASSUME NEW e \in Client, calm'[e], pc'[e] # "idle", NEW x \in Client, x # e, Active(x)'
               PROVE  ~Disturbs(op'[x], op'[e])
    BY DEF CalmInv, CalmOf, Disturbs, Writes
  <2>2. ~Disturbs(op[x], op[e])
    BY <2>1 DEF CalmInv, CalmOf
  <2> QED
    BY <2>1, <2>2
<1>2. CASE Call(c)
  <2>0. OthersStay(c) /\ CallTypes
    BY <1>2, StepTypes, Types
  <2>1. PICK o : /\ op' = [op EXCEPT ![c] = o]
                 /\ calm'[c] => \A e \in Client : Active(e) => ~Disturbs(op[e], o)
                 /\ \A d \in Client : d # c /\ calm'[d] => calm[d] /\ (pc[d] # "idle" => ~Disturbs(o, op[d]))
    BY <1>2, CallIs, Zenon
  <2>2. op'[c] = o
    BY <2>0, <2>1 DEF CallTypes
  <2>3. \A x \in Client : x # c => op'[x] = op[x] /\ pc'[x] = pc[x] /\ (Active(x)' => Active(x))
    BY <2>0 DEF OthersStay, Active
  <2> SUFFICES ASSUME NEW e \in Client, calm'[e], pc'[e] # "idle", NEW x \in Client, x # e, Active(x)'
               PROVE  ~Disturbs(op'[x], op'[e])
    BY DEF CalmInv, CalmOf, Disturbs, Writes
  <2>4. CASE e = c
    BY <2>1, <2>2, <2>3, <2>4
  <2>5. CASE e # c /\ x = c
    BY <2>1, <2>2, <2>3, <2>5
  <2>6. CASE e # c /\ x # c
    <3>1. calm[e] /\ pc[e] # "idle" /\ Active(x)
      BY <2>1, <2>3, <2>6
    <3>2. ~Disturbs(op[x], op[e])
      BY <3>1 DEF CalmInv, CalmOf
    <3> QED
      BY <2>3, <2>6, <3>2
  <2> QED
    BY <2>4, <2>5, <2>6
<1> QED
  BY <1>1, <1>2

\* The index after the last chunk stays free, so the loop that wipes chunks ends.
LEMMA PlacedKept ==
  ASSUME TypeOK, CallInv, PlacedInv, NEW c \in Client, Call(c) \/ Works(c)
  PROVE  PlacedInv'
<1> SUFFICES ASSUME NEW id \in ID, NEW j \in Index, chunk'[id][j] # Absent PROVE j < Top
  BY DEF PlacedInv, Placed
<1>0. chunk[id][j] # Absent => j < Top
  BY DEF PlacedInv, Placed
<1>1. CASE DeleteChunk(c)
  BY <1>0, <1>1, DeleteChunkIs
<1>2. CASE WriteChunk(c)
  <2>1. CASE id = op[c].id /\ j = index[c]
    <3>1. op[c].len \in Lengths /\ index[c] \in Index /\ index[c] < ChunkCount(op[c].len)
      BY <1>2, WriteChunkIs
    <3> QED
      BY <2>1, <3>1, ChunkCounts
  <2>2. CASE ~(id = op[c].id /\ j = index[c])
    <3>1. chunk'[id][j] = chunk[id][j]
      BY <1>2, <2>2, WriteChunkIs
    <3> QED
      BY <1>0, <3>1
  <2> QED
    BY <2>1, <2>2
<1>3. CASE chunk' = chunk
  BY <1>0, <1>3
<1>4. Call(c) \/ WritePrimary(c) \/ DeletePrimary(c) \/ ListCredentials(c) \/ ReadPrimary(c) \/ ReadChunk(c)
        \/ CallFails(c) \/ Close(c) => chunk' = chunk
  BY DEF Call, WritePrimary, DeletePrimary, ListCredentials, ReadPrimary, ReadChunk, CallFails, Close, names
<1> QED
  BY <1>1, <1>2, <1>3, <1>4 DEF Works

\* What an undisturbed Save has written so far stays there.
LEMMA WriterKept ==
  ASSUME TypeOK, CallInv, PlacedInv, CalmInv, WriterInv, NEW c \in Client, Call(c) \/ Works(c)
  PROVE  WriterInv'
<1>0. OthersStay(c) /\ CallTypes /\ CallTypes' /\ CallOf(c) /\ WriterOf(c)
  BY StepTypes, Types DEF CallInv, WriterInv, TypeOK, CallTypes
<1>1. ASSUME NEW e \in Client, e # c, calm'[e], pc'[e] \in {"chunks", "write"}
      PROVE  /\ calm[e] /\ pc'[e] = pc[e] /\ index'[e] = index[e] /\ op'[e] = op[e]
             /\ op[e].id \in ID /\ chunk'[op[e].id] = chunk[op[e].id]
  <2>1. pc'[e] = pc[e] /\ index'[e] = index[e] /\ op'[e] = op[e]
    BY <1>0, <1>1 DEF OthersStay
  <2>2. op[e].id \in ID
    BY <1>1, <2>1 DEF CallInv, CallOf
  <2>3. CASE Call(c)
    <3>1. chunk' = chunk /\ calm[e]
      BY <1>1, <2>3, CallIs
    <3> QED
      BY <2>1, <2>2, <3>1
  <2>4. CASE Works(c)
    <3>1. calm[e] /\ pc[e] # "idle"
      BY <1>1, <2>1, <2>4, StepKeeps
    <3>2. ~Writer(c, op[e].id)
      BY <1>1, <2>2, <3>1, Apart
    <3>3. chunk'[op[e].id] = chunk[op[e].id]
      BY <2>2, <2>4, <3>2, StepKeeps
    <3> QED
      BY <2>1, <2>2, <3>1, <3>3
  <2> QED
    BY <2>3, <2>4
<1>2. ASSUME NEW e \in Client, e # c PROVE WriterOf(e)'
  <2>1. WriterOf(e)
    BY DEF WriterInv
  <2> QED
    BY <1>1, <1>2, <2>1 DEF WriterOf, Written
<1>3. WriterOf(c)'
  <2>1. CASE DeleteChunk(c)
    <3>1. CASE pc' = pc
      <4>1. pc[c] = "wipe"
        BY <2>1, DeleteChunkIs
      <4> QED
        BY <3>1, <4>1 DEF WriterOf
    <3>2. CASE /\ index' = [index EXCEPT ![c] = 0] /\ op' = op
               /\ \E l \in {"remove", "chunks", "write"} :
                    /\ pc' = [pc EXCEPT ![c] = l]
                    /\ l # "remove" => op[c].kind = "save" /\ ((l = "chunks") = (CountAttribute(op[c].len) > 0))
      <4>1. PICK l \in {"remove", "chunks", "write"} :
              /\ pc'[c] = l /\ index'[c] = 0
              /\ l # "remove" => op[c].kind = "save" /\ ((l = "chunks") = (CountAttribute(op[c].len) > 0))
        BY <1>0, <3>2 DEF CallTypes
      <4>2. pc[c] = "wipe"
        BY <2>1, DeleteChunkIs
      <4>3. l = "write" => CountAttribute(op[c].len) = 0
        <5>1. l = "write" => op[c].len \in Lengths /\ ~(CountAttribute(op[c].len) > 0)
          BY <1>0, <4>1, <4>2 DEF CallOf
        <5> QED
          BY <5>1, ChunkCounts
      <4>4. \A i \in Index : ~(i < 0)
        BY ChunkCounts
      <4> QED
        BY <3>2, <4>1, <4>3, <4>4 DEF WriterOf, Written
    <3> QED
      BY <2>1, <3>1, <3>2, DeleteChunkIs, Zenon
  <2>2. CASE WriteChunk(c)
    <3>1. PICK id, i, v, len : id = op[c].id /\ i = index[c] /\ v = op[c].ver /\ len = op[c].len
      OBVIOUS
    <3>2. /\ pc[c] = "chunks" /\ id \in ID /\ i \in Index /\ op' = op /\ calm' = calm /\ len \in Lengths
          /\ CountAttribute(len) = ChunkCount(len)
          /\ \A j \in Index : chunk'[id][j] = IF j = i THEN ChunkBlob(v, len, i) ELSE chunk[id][j]
      BY <2>2, <3>1, WriteChunkIs
    <3>3. \/ i + 1 < ChunkCount(len) /\ index'[c] = i + 1 /\ pc'[c] = "chunks"
          \/ i + 1 = ChunkCount(len) /\ pc'[c] = "write"
      <4>1. \/ i + 1 < ChunkCount(len) /\ index' = [index EXCEPT ![c] = i + 1] /\ pc' = pc
            \/ i + 1 = ChunkCount(len) /\ pc' = [pc EXCEPT ![c] = "write"]
        BY <2>2, <3>1, WriteChunkIs, Zenon
      <4> QED
        BY <1>0, <3>2, <4>1 DEF CallTypes
    <3>4. calm[c] => \A j \in Index : j < i => chunk[id][j] = ChunkBlob(v, len, j)
      BY <1>0, <3>1, <3>2 DEF WriterOf, Written
    <3>5. calm[c] => \A j \in Index : j < i + 1 => chunk'[id][j] = ChunkBlob(v, len, j)
      BY <3>2, <3>4, Constants
    <3> QED
      BY <3>1, <3>2, <3>3, <3>5 DEF WriterOf, Written
  <2>3. CASE pc'[c] \notin {"chunks", "write"}
    BY <2>3 DEF WriterOf
  <2>4. Call(c) => pc'[c] \notin {"chunks", "write"}
    <3> SUFFICES ASSUME Call(c) PROVE pc'[c] \notin {"chunks", "write"}
      OBVIOUS
    <3>1. PICK o \in [kind : Kind, id : ID \cup {NoID}, ver : 0..MaxSaves, len : Lengths \cup {0}] :
            pc' = [pc EXCEPT ![c] = IF Writes(o) THEN "wipe" ELSE IF o.kind = "get" THEN "primary" ELSE "list"]
      BY CallIs
    <3> QED
      BY <1>0, <3>1 DEF CallTypes
  <2>5. WritePrimary(c) \/ DeletePrimary(c) \/ CallFails(c) => pc'[c] = "close"
    <3>1. WritePrimary(c) \/ DeletePrimary(c) \/ CallFails(c) => pc' = [pc EXCEPT ![c] = "close"]
      BY WritePrimaryIs, DeletePrimaryIs, CallFailsIs, Zenon
    <3> QED
      BY <1>0, <3>1 DEF CallTypes
  <2>6. ListCredentials(c) \/ ReadPrimary(c) \/ ReadChunk(c) \/ Close(c) => pc'[c] \notin {"chunks", "write"}
    BY ListCredentialsIs, ReadPrimaryIs, ReadChunkIs, CloseIs DEF Reads
  <2> QED
    BY <2>1, <2>2, <2>3, <2>4, <2>5, <2>6 DEF Works
<1> QED
  BY <1>2, <1>3 DEF WriterInv

\* What is settled is known to no writer.
LEMMA WriterUnsettles ==
  ASSUME SettledInv, NEW c \in Client, NEW id \in ID, Writer(c, id)
  PROVE  settled[id] = Unknown
BY DEF SettledInv, SettledOf

\* An ID whose last change was undisturbed holds exactly that change.
LEMMA SettledKept ==
  ASSUME TypeOK, CallInv, PlacedInv, CalmInv, WriterInv, SettledInv, NEW c \in Client, Call(c) \/ Works(c)
  PROVE  SettledInv'
<1> SUFFICES ASSUME NEW id \in ID, settled'[id] # Unknown
             PROVE  /\ \A x \in Client : ~Writer(x, id)'
                    /\ settled'[id] = Absent => primary'[id] = Absent
                    /\ settled'[id] # Absent =>
                         \E v \in Version, len \in Lengths : settled'[id] = Blob(v, len) /\ Stored(id, v, len)'
  BY DEF SettledInv, SettledOf
<1>0. CallTypes /\ NameTypes /\ AuxTypes /\ CallOf(c) /\ WriterOf(c) /\ SettledOf(id) /\ OthersStay(c)
  BY Types, StepTypes DEF CallInv, WriterInv, SettledInv
<1>1. ASSUME settled'[id] = settled[id], primary'[id] = primary[id], chunk'[id] = chunk[id],
             \A x \in Client : ~Writer(x, id)'
      PROVE  /\ settled'[id] = Absent => primary'[id] = Absent
             /\ settled'[id] # Absent =>
                  \E v \in Version, len \in Lengths : settled'[id] = Blob(v, len) /\ Stored(id, v, len)'
  <2>1. \A v \in Version, len \in Lengths : Stored(id, v, len) => Stored(id, v, len)'
    BY <1>1 DEF Stored, Written
  <2> QED
    BY <1>0, <1>1, <2>1 DEF SettledOf
<1>2. CASE Call(c)
  <2>1. PICK o : /\ o.kind \in {"save", "delete", "get"} => o.id \in ID
                 /\ op' = [op EXCEPT ![c] = o]
                 /\ settled' = IF Writes(o) THEN [settled EXCEPT ![o.id] = Unknown] ELSE settled
                 /\ UNCHANGED <<primary, chunk>>
    BY <1>2, CallIs, Zenon
  <2>2. settled'[id] = settled[id] /\ ~(Writes(o) /\ o.id = id)
    BY <1>0, <2>1 DEF AuxTypes, Writes
  <2>3. \A x \in Client : ~Writer(x, id)
    BY <1>0, <2>2 DEF SettledOf
  <2>4. op'[c] = o
    BY <1>0, <2>1 DEF CallTypes
  <2>5. \A x \in Client : ~Writer(x, id)'
    BY <1>0, <2>2, <2>3, <2>4 DEF Writer, OthersStay, Active
  <2> QED
    BY <1>1, <2>1, <2>2, <2>5
<1>3. CASE Works(c) /\ ~Writer(c, id)
  <2>1. settled'[id] = settled[id] /\ primary'[id] = primary[id] /\ chunk'[id] = chunk[id]
    BY <1>3, StepKeeps
  <2>2. \A x \in Client : Writer(x, id)' => Writer(x, id)
    BY <1>3, StepKeeps
  <2>3. \A x \in Client : ~Writer(x, id)'
    BY <1>0, <2>1, <2>2 DEF SettledOf
  <2> QED
    BY <1>1, <2>1, <2>3
<1>4. CASE Works(c) /\ Writer(c, id)
  <2>1. settled[id] = Unknown /\ op[c].id = id /\ Active(c) /\ Writes(op[c])
    BY <1>4, WriterUnsettles DEF Writer
  <2>2. ASSUME calm[c], pc'[c] = "close"
        PROVE  \A x \in Client : ~Writer(x, id)'
    <3> SUFFICES ASSUME NEW x \in Client, Writer(x, id)' PROVE FALSE
      OBVIOUS
    <3>1. Writer(x, id) /\ x # c
      BY <1>4, <2>2, StepKeeps DEF Writer, Active
    <3>2. pc[c] # "idle"
      BY <2>1 DEF Active
    <3> QED
      BY <2>1, <2>2, <3>1, <3>2, Apart
  <2>3. CASE WritePrimary(c)
    <3>1. PICK v \in Version, len \in Lengths : v = op[c].ver /\ len = op[c].len
      BY <2>3, WritePrimaryIs
    <3>2. /\ pc[c] = "write" /\ pc'[c] = "close" /\ chunk' = chunk
      BY <1>0, <2>3, WritePrimaryIs DEF CallTypes
    <3>3. /\ primary' = [primary EXCEPT ![id] = [meta |-> v, count |-> CountAttribute(len),
                          blob |-> IF CountAttribute(len) > 0 THEN <<>> ELSE Blob(v, len)]]
          /\ settled' = [settled EXCEPT ![id] = IF calm[c] THEN Blob(v, len) ELSE Unknown]
      BY <2>1, <2>3, <3>1, WritePrimaryIs DEF Ends
    <3>4. calm[c] /\ settled'[id] = Blob(v, len)
      BY <1>0, <3>3 DEF AuxTypes
    <3>5. Written(id, v, len, CountAttribute(len))
      BY <1>0, <2>1, <3>1, <3>2, <3>4 DEF WriterOf
    <3>6. Stored(id, v, len)'
      BY <1>0, <3>2, <3>3, <3>5 DEF Stored, Written, NameTypes
    <3>7. Blob(v, len) # Absent
      BY BlobIs, Constants, CredentialAssumption
    <3> QED
      BY <2>2, <3>2, <3>4, <3>6, <3>7
  <2>4. CASE DeletePrimary(c)
    <3>1. pc'[c] = "close"
      BY <1>0, <2>4, DeletePrimaryIs DEF CallTypes
    <3>2. /\ primary' = [primary EXCEPT ![id] = Absent]
          /\ settled' = [settled EXCEPT ![id] = IF calm[c] THEN Absent ELSE Unknown]
      BY <2>1, <2>4, DeletePrimaryIs DEF Ends
    <3>3. calm[c] /\ settled'[id] = Absent /\ primary'[id] = Absent
      BY <1>0, <3>2 DEF AuxTypes, NameTypes
    <3> QED
      BY <2>2, <3>1, <3>3
  <2>5. CASE CallFails(c)
    BY <1>0, <2>1, <2>5, CallFailsIs DEF AuxTypes
  <2>6. DeleteChunk(c) \/ WriteChunk(c) \/ ListCredentials(c) \/ ReadPrimary(c) \/ ReadChunk(c) \/ Close(c)
          => settled' = settled
    BY DeleteChunkIs, WriteChunkIs, ListCredentialsIs, ReadPrimaryIs, ReadChunkIs, CloseIs DEF Reads
  <2> QED
    BY <1>4, <2>1, <2>3, <2>4, <2>5, <2>6 DEF Works
<1> QED
  BY <1>2, <1>3, <1>4

\* A reader that finds an ID settled has what it needs of it.
LEMMA SettledIs ==
  ASSUME TypeOK, SettledInv, NEW id \in ID, settled[id] # Unknown, primary[id] # Absent
  PROVE  \E v \in Version, len \in Lengths :
           /\ settled[id] = Blob(v, len) /\ settled[id] # Absent
           /\ primary[id].meta = v /\ primary[id].count = CountAttribute(len)
           /\ CountAttribute(len) = 0 => primary[id].blob = Blob(v, len)
           /\ \A i \in Index : i < CountAttribute(len) => chunk[id][i] = ChunkBlob(v, len, i)
           /\ Blob(v, len)[1][1] = v
<1>1. SettledOf(id)
  BY DEF SettledInv
<1>2. settled[id] # Absent
  BY <1>1 DEF SettledOf
<1>3. PICK v \in Version, len \in Lengths : settled[id] = Blob(v, len) /\ Stored(id, v, len)
  BY <1>1, <1>2 DEF SettledOf
<1>4. primary[id] = [meta |-> v, count |-> CountAttribute(len),
                     blob |-> IF CountAttribute(len) > 0 THEN <<>> ELSE Blob(v, len)]
  BY <1>3 DEF Stored
<1>5. \A i \in Index : i < CountAttribute(len) => chunk[id][i] = ChunkBlob(v, len, i)
  BY <1>3 DEF Stored, Written
<1>6. Blob(v, len)[1][1] = v
  <2>1. len \in Nat \ {0}
    BY Constants
  <2>2. Blob(v, len)[1] = <<v, 1>>
    BY <2>1, BlobIs
  <2> QED
    BY <2>2
<1> QED
  BY <1>2, <1>3, <1>4, <1>5, <1>6

\* What an undisturbed read has collected is still what is stored.
LEMMA ReaderKept ==
  ASSUME TypeOK, CallInv, PlacedInv, CalmInv, SettledInv, ReaderInv, NEW c \in Client, Call(c) \/ Works(c)
  PROVE  ReaderInv'
<1>0. OthersStay(c) /\ CallTypes /\ ReadTypes /\ NameTypes /\ AuxTypes /\ CallOf(c) /\ ReaderOf(c) /\ ReadTypes'
  BY StepTypes, Types DEF CallInv, ReaderInv, TypeOK, ReadTypes, Creds
\* What a reader relies on is changed by nobody.
<1>1. ASSUME NEW e \in Client, e # c, calm'[e], op[e].kind \in {"get", "filter"}, pc[e] # "idle",
             NEW id \in ID, op[e].kind = "get" => id = op[e].id, settled'[id] # Unknown
      PROVE  settled'[id] = settled[id] /\ primary'[id] = primary[id] /\ calm[e]
  <2>1. CASE Call(c)
    <3>1. PICK o : /\ o.kind \in {"save", "delete", "get"} => o.id \in ID
                   /\ settled' = IF Writes(o) THEN [settled EXCEPT ![o.id] = Unknown] ELSE settled
                   /\ primary' = primary
      BY <2>1, CallIs, Zenon
    <3>2. settled'[id] = settled[id]
      BY <1>0, <1>1, <3>1 DEF AuxTypes
    <3>3. calm[e]
      BY <1>1, <2>1, CallIs
    <3> QED
      BY <3>1, <3>2, <3>3
  <2>2. CASE Works(c)
    <3>1. calm[e]
      BY <1>1, <2>2, StepKeeps
    <3>2. op[e].kind = "filter" => op[e].id = NoID
      BY <1>1 DEF CallInv, CallOf
    <3>3. ~Writer(c, id)
      BY <1>1, <3>1, <3>2, Apart
    <3> QED
      BY <2>2, <3>1, <3>3, StepKeeps
  <2> QED
    BY <2>1, <2>2
<1>2. ASSUME NEW e \in Client, e # c PROVE ReaderOf(e)'
  <2>1. /\ pc'[e] = pc[e] /\ op'[e] = op[e] /\ index'[e] = index[e] /\ res'[e] = res[e]
        /\ cred'[e] = cred[e] /\ got'[e] = got[e]
    BY <1>0, <1>2 DEF OthersStay
  <2>2. SUFFICES ASSUME calm'[e], op[e].kind \in {"get", "filter"}
                 PROVE  ReaderOf(e)'
    BY <2>1 DEF ReaderOf
  <2>3. CallOf(e) /\ ReaderOf(e)
    BY DEF CallInv, ReaderInv
  <2>4. CASE pc[e] = "idle"
    <3>1. got[e] = {}
      BY <2>3, <2>4 DEF CallOf
    <3> QED
      BY <2>1, <2>4, <3>1 DEF ReaderOf
  <2>5. CASE pc[e] # "idle"
    <3>1. ASSUME NEW t \in got[e], settled'[t[1]] # Unknown
          PROVE  t[3] = settled'[t[1]] /\ t[2] = t[3][1][1]
      <4>1. t[1] \in ID
        BY <1>0 DEF ReadTypes
      <4>2. op[e].kind = "get" => t[1] = op[e].id
        BY <2>3 DEF CallOf
      <4>3. settled'[t[1]] = settled[t[1]] /\ calm[e]
        BY <1>1, <1>2, <2>2, <2>5, <3>1, <4>1, <4>2
      <4> QED
        BY <2>2, <2>3, <3>1, <4>3 DEF ReaderOf
    <3>2. ASSUME pc[e] = "readchunks", settled'[cred[e].id] # Unknown
          PROVE  /\ primary'[cred[e].id] # Absent
                 /\ cred[e].meta = primary'[cred[e].id].meta /\ cred[e].count = primary'[cred[e].id].count
                 /\ cred[e].blob = Blob(cred[e].meta, index[e] * MaxBlob)
      <4>1. cred[e].id \in ID /\ (op[e].kind = "get" => cred[e].id = op[e].id)
        BY <2>3, <2>5, <3>2 DEF CallOf
      <4>2. settled'[cred[e].id] = settled[cred[e].id] /\ primary'[cred[e].id] = primary[cred[e].id] /\ calm[e]
        BY <1>1, <1>2, <2>2, <2>5, <3>2, <4>1
      <4> QED
        BY <2>2, <2>3, <3>2, <4>2 DEF ReaderOf
    <3>3. ASSUME op[e].kind = "get", pc[e] = "close", res[e] # "error", settled'[op[e].id] # Unknown
          PROVE  (res[e] = "ok") = (settled'[op[e].id] # Absent)
      <4>1. op[e].id \in ID
        BY <2>3, <2>5, <3>3 DEF CallOf
      <4>2. settled'[op[e].id] = settled[op[e].id] /\ calm[e]
        BY <1>1, <1>2, <2>2, <2>5, <3>3, <4>1
      <4> QED
        BY <2>2, <2>3, <3>3, <4>2 DEF ReaderOf
    <3> QED
      BY <2>1, <3>1, <3>2, <3>3 DEF ReaderOf
  <2> QED
    BY <2>4, <2>5
<1>3. CASE Call(c)
  <2>1. got'[c] = {}
    BY <1>0, <1>3, CallIs DEF CallOf
  <2>2. pc'[c] \in {"wipe", "primary", "list"}
    <3>1. PICK o \in [kind : Kind, id : ID \cup {NoID}, ver : 0..MaxSaves, len : Lengths \cup {0}] :
            pc' = [pc EXCEPT ![c] = IF Writes(o) THEN "wipe" ELSE IF o.kind = "get" THEN "primary" ELSE "list"]
      BY <1>3, CallIs
    <3> QED
      BY <1>0, <3>1 DEF CallTypes
  <2> QED
    BY <1>2, <2>1, <2>2 DEF ReaderInv, ReaderOf
<1>4. CASE DeleteChunk(c) \/ WriteChunk(c) \/ WritePrimary(c) \/ DeletePrimary(c)
  <2>1. op' = op /\ Writes(op[c])
    BY <1>4, DeleteChunkIs, WriteChunkIs, WritePrimaryIs, DeletePrimaryIs DEF Writer
  <2> QED
    BY <1>2, <2>1 DEF ReaderInv, ReaderOf, Writes
<1>5. CASE ListCredentials(c)
  BY <1>2, <1>5, ListCredentialsIs DEF ReaderInv, ReaderOf, Reads
<1>6. CASE CallFails(c)
  <2>1. UNCHANGED <<op, got, calm, primary>> /\ pc'[c] = "close" /\ res'[c] = "error"
    BY <1>0, <1>6, CallFailsIs DEF CallTypes
  <2>2. op[c].kind \in {"get", "filter"} => settled' = settled
    BY <1>6, CallFailsIs DEF Writes
  <2> QED
    BY <1>0, <1>2, <2>1, <2>2 DEF ReaderInv, ReaderOf
<1>7. CASE Close(c)
  BY <1>2, <1>7, CloseIs DEF ReaderInv, ReaderOf
<1>8. CASE ReadPrimary(c) \/ ReadChunk(c)
  <2> SUFFICES ASSUME calm[c] PROVE ReaderOf(c)'
    <3>1. calm' = calm
      BY <1>8, ReadPrimaryIs, ReadChunkIs DEF Reads
    <3> QED
      BY <1>2, <3>1 DEF ReaderInv, ReaderOf
  <2>0. /\ UNCHANGED <<primary, chunk, op, calm, settled>> /\ op[c].kind \in {"get", "filter"}
        /\ pc[c] \in {"primary", "readchunks"} /\ cred[c].id \in ID
    BY <1>8, ReadPrimaryIs, ReadChunkIs DEF Reads
  <2>1. PICK id \in ID : id = cred[c].id
    BY <2>0
  <2>2. op[c].kind = "get" => op[c].id = id
    BY <1>0, <2>0, <2>1 DEF CallOf
  <2>3. \A t \in got[c] : settled[t[1]] # Unknown => t[3] = settled[t[1]] /\ t[2] = t[3][1][1]
    BY <1>0, <2>0 DEF ReaderOf
  \* The credential is not there.
  <2>4. ASSUME got'[c] = got[c], pc'[c] = "close", res'[c] = "notfound", settled[id] # Unknown => settled[id] = Absent
        PROVE  ReaderOf(c)'
    BY <2>0, <2>2, <2>3, <2>4 DEF ReaderOf
  \* The credential is loaded.
  <2>5. ASSUME NEW meta, NEW blob, got'[c] = got[c] \cup {<<id, meta, blob>>},
               pc'[c] = "primary" \/ (pc'[c] = "close" /\ res'[c] = "ok"),
               settled[id] # Unknown => settled[id] # Absent /\ blob = settled[id] /\ meta = blob[1][1]
        PROVE  ReaderOf(c)'
    <3>1. \A t \in got'[c] : settled[t[1]] # Unknown => t[3] = settled[t[1]] /\ t[2] = t[3][1][1]
      <4> SUFFICES ASSUME NEW t \in got'[c], settled[t[1]] # Unknown
                   PROVE  t[3] = settled[t[1]] /\ t[2] = t[3][1][1]
        OBVIOUS
      <4>1. CASE t \in got[c]
        BY <2>3, <4>1
      <4>2. CASE t = <<id, meta, blob>>
        <5>1. t[1] = id /\ t[2] = meta /\ t[3] = blob
          BY <4>2
        <5> QED
          BY <2>5, <5>1
      <4> QED
        BY <2>5, <4>1, <4>2
    <3> QED
      BY <2>0, <2>2, <2>5, <3>1 DEF ReaderOf
  <2>6. CASE ReadPrimary(c)
    <3>1. PICK p : p = primary[id]
      OBVIOUS
    <3>2. \/ p = Absent /\ got'[c] = got[c] /\ pc'[c] = "close" /\ res'[c] = "notfound"
          \/ /\ p # Absent /\ p.count > 0 /\ got'[c] = got[c] /\ pc'[c] = "readchunks" /\ index'[c] = 0
             /\ cred'[c] = [id |-> id, meta |-> p.meta, count |-> p.count, blob |-> <<>>]
          \/ /\ p # Absent /\ p.count = 0
             /\ got'[c] = got[c] \cup {<<id, p.meta, p.blob>>}
             /\ pc'[c] = "primary" \/ (pc'[c] = "close" /\ res'[c] = "ok")
      BY <2>1, <2>6, <3>1, ReadPrimaryIs
    <3>3. CASE p = Absent /\ got'[c] = got[c] /\ pc'[c] = "close" /\ res'[c] = "notfound"
      <4>1. settled[id] # Unknown => settled[id] = Absent
        <5> SUFFICES ASSUME settled[id] # Unknown, settled[id] # Absent PROVE FALSE
          OBVIOUS
        <5>1. PICK v \in Version, len \in Lengths : Stored(id, v, len)
          BY DEF SettledInv, SettledOf
        <5>2. Blob(v, len) \in Blobs /\ <<>> \in Blobs /\ CountAttribute(len) \in Index
          BY BlobIs, ChunkCounts DEF Blobs
        <5>3. primary[id] \in Primary
          BY <5>1, <5>2 DEF Stored, Primary
        <5> QED
          BY <3>1, <3>3, <5>3, CredentialAssumption
      <4> QED
        BY <2>4, <3>3, <4>1
    <3>4. CASE /\ p # Absent /\ p.count > 0 /\ got'[c] = got[c] /\ pc'[c] = "readchunks" /\ index'[c] = 0
               /\ cred'[c] = [id |-> id, meta |-> p.meta, count |-> p.count, blob |-> <<>>]
      <4>1. /\ cred'[c].id = id /\ cred'[c].meta = p.meta /\ cred'[c].count = p.count
            /\ cred'[c].blob = <<>>
        BY <3>4
      <4>2. Blob(p.meta, 0 * MaxBlob) = <<>>
        <5>1. 0 * MaxBlob = 0 /\ p.meta \in Version
          BY <1>0, <3>1, <3>4, Constants DEF NameTypes, Primary
        <5>2. Blob(p.meta, 0) \in Seq(Version \X Nat) /\ Len(Blob(p.meta, 0)) = 0
          BY <5>1, BlobIs DEF Blobs
        <5> QED
          BY <5>1, <5>2, EmptySeq
      <4> QED
        BY <2>0, <2>3, <3>1, <3>4, <4>1, <4>2 DEF ReaderOf
    <3>5. CASE /\ p # Absent /\ p.count = 0
               /\ got'[c] = got[c] \cup {<<id, p.meta, p.blob>>}
               /\ pc'[c] = "primary" \/ (pc'[c] = "close" /\ res'[c] = "ok")
      <4>1. settled[id] # Unknown => settled[id] # Absent /\ p.blob = settled[id] /\ p.meta = p.blob[1][1]
        BY <3>1, <3>5, SettledIs
      <4> QED
        BY <2>5, <3>5, <4>1
    <3> QED
      BY <3>2, <3>3, <3>4, <3>5
  <2>7. CASE ReadChunk(c)
    <3>1. PICK i, m, n, b, piece : /\ i = index[c] /\ m = cred[c].meta /\ n = cred[c].count /\ b = cred[c].blob
                                   /\ piece = chunk[id][i]
      OBVIOUS
    <3>2. /\ pc[c] = "readchunks" /\ i \in Index /\ i < n /\ m \in Version
          /\ \/ piece = Absent /\ got'[c] = got[c] /\ pc'[c] = "close" /\ res'[c] = "notfound"
             \/ /\ piece # Absent /\ i + 1 < n /\ got'[c] = got[c] /\ pc'[c] = "readchunks" /\ index'[c] = i + 1
                /\ cred'[c].id = id /\ cred'[c].meta = m /\ cred'[c].count = n /\ cred'[c].blob = b \o piece
             \/ /\ piece # Absent /\ i + 1 = n /\ got'[c] = got[c] \cup {<<id, m, b \o piece>>}
                /\ pc'[c] = "primary" \/ (pc'[c] = "close" /\ res'[c] = "ok")
      BY <2>1, <2>7, <3>1, ReadChunkIs
    <3>3. ASSUME settled[id] # Unknown
          PROVE  /\ primary[id] # Absent /\ m = primary[id].meta /\ n = primary[id].count
                 /\ \E len \in Lengths : /\ settled[id] = Blob(m, len) /\ settled[id] # Absent
                                         /\ Blob(m, len)[1][1] = m
                                         /\ piece # Absent
                                         /\ i + 1 < n => b \o piece = Blob(m, (i + 1) * MaxBlob)
                                         /\ i + 1 = n => b \o piece = Blob(m, len)
      <4>1. primary[id] # Absent /\ m = primary[id].meta /\ n = primary[id].count /\ b = Blob(m, i * MaxBlob)
        BY <1>0, <2>0, <2>1, <3>1, <3>2, <3>3 DEF ReaderOf
      <4>2. PICK v \in Version, len \in Lengths :
               /\ settled[id] = Blob(v, len) /\ settled[id] # Absent
               /\ primary[id].meta = v /\ primary[id].count = CountAttribute(len)
               /\ \A j \in Index : j < CountAttribute(len) => chunk[id][j] = ChunkBlob(v, len, j)
               /\ Blob(v, len)[1][1] = v
        BY <3>3, <4>1, SettledIs
      <4>3. v = m /\ n = ChunkCount(len) /\ i \in Nat /\ i < ChunkCount(len)
        BY <3>2, <4>1, <4>2, ChunkCounts
      <4>4. piece = ChunkBlob(m, len, i)
        BY <3>1, <3>2, <4>1, <4>2
      <4>5. ChunkBlob(m, len, i) \in Blobs
        BY <3>2, <4>3, ChunkIs
      <4>6. piece # Absent
        BY <4>4, <4>5, CredentialAssumption
      <4>7. /\ i + 1 < n => b \o piece = Blob(m, (i + 1) * MaxBlob)
            /\ i + 1 = n => b \o piece = Blob(m, len)
        <5>1. m \in Version
          BY <3>2
        <5>2. /\ i + 1 < ChunkCount(len) => Blob(m, i * MaxBlob) \o ChunkBlob(m, len, i) = Blob(m, (i + 1) * MaxBlob)
              /\ i + 1 = ChunkCount(len) => Blob(m, i * MaxBlob) \o ChunkBlob(m, len, i) = Blob(m, len)
          BY <4>3, <5>1, ChunksJoin
        <5> QED
          BY <4>1, <4>3, <4>4, <5>2
      <4> QED
        BY <4>1, <4>2, <4>3, <4>6, <4>7
    <3>4. CASE piece = Absent /\ got'[c] = got[c] /\ pc'[c] = "close" /\ res'[c] = "notfound"
      BY <2>4, <3>3, <3>4
    <3>5. CASE /\ piece # Absent /\ i + 1 < n /\ got'[c] = got[c] /\ pc'[c] = "readchunks" /\ index'[c] = i + 1
               /\ cred'[c].id = id /\ cred'[c].meta = m /\ cred'[c].count = n /\ cred'[c].blob = b \o piece
      <4>1. settled[id] # Unknown => b \o piece = Blob(m, (i + 1) * MaxBlob)
        BY <3>3, <3>5
      <4> QED
        BY <2>0, <2>3, <3>3, <3>5, <4>1 DEF ReaderOf
    <3>6. CASE /\ piece # Absent /\ i + 1 = n /\ got'[c] = got[c] \cup {<<id, m, b \o piece>>}
               /\ pc'[c] = "primary" \/ (pc'[c] = "close" /\ res'[c] = "ok")
      <4>1. PICK blob : blob = b \o piece
        OBVIOUS
      <4>2. settled[id] # Unknown => settled[id] # Absent /\ blob = settled[id] /\ m = blob[1][1]
        BY <3>3, <3>6, <4>1
      <4>3. got'[c] = got[c] \cup {<<id, m, blob>>}
        BY <3>6, <4>1
      <4> QED
        BY <2>5, <3>6, <4>2, <4>3
    <3> QED
      BY <3>2, <3>4, <3>5, <3>6
  <2> QED
    BY <1>8, <2>6, <2>7
<1> QED
  BY <1>3, <1>4, <1>5, <1>6, <1>7, <1>8 DEF Works

\* While changes ran calmly, the chunks of an ID are those its primary counts, or
\* those its running change has not yet removed, or has written.
LEMMA OrphanKept ==
  ASSUME TypeOK, CallInv, PlacedInv, CalmInv, OrphanInv, NEW c \in Client, Call(c) \/ Works(c)
  PROVE  OrphanInv'
<1>0. OthersStay(c) /\ CallTypes /\ NameTypes /\ AuxTypes /\ CallOf(c)
  BY StepTypes, Types DEF CallInv
<1>i. \A i \in Index : i \in Nat
  BY Constants
<1> SUFFICES ASSUME NEW id \in ID, intact'[id] PROVE OrphanOf(id)'
  BY DEF OrphanInv, OrphanOf
<1>1. OrphanOf(id)
  BY DEF OrphanInv
\* The other writers of the ID go on undisturbed only if c is none of them.
<1>2. ASSUME NEW x \in Client, x # c, Writer(x, id)', calm'[x]
      PROVE  /\ Writer(x, id) /\ calm[x] /\ pc'[x] = pc[x] /\ index'[x] = index[x] /\ op'[x] = op[x]
             /\ ~Writer(c, id) /\ ~Writer(c, id)'
  <2>1. pc'[x] = pc[x] /\ index'[x] = index[x] /\ op'[x] = op[x]
    BY <1>0, <1>2 DEF OthersStay
  <2>2. Writer(x, id) /\ pc[x] # "idle"
    BY <1>2, <2>1 DEF Writer, Active
  <2>3. calm[x]
    BY <1>2, CallIs, StepKeeps
  <2>4. ~Writer(c, id)
    BY <1>2, <2>2, <2>3, Apart DEF Writer
  <2>5. ~Writer(c, id)'
    <3>1. CalmInv' /\ pc'[x] # "idle"
      BY <2>1, <2>2, CalmKept
    <3> QED
      BY <1>2, <3>1 DEF CalmInv, CalmOf, Disturbs, Writer
  <2> QED
    BY <2>1, <2>2, <2>3, <2>4, <2>5
\* Nothing happens to the ID.
<1>3. ASSUME primary'[id] = primary[id], chunk'[id] = chunk[id], intact'[id] = intact[id],
             ~Writer(c, id), ~Writer(c, id)'
      PROVE  OrphanOf(id)'
  <2>1. Chunks(id)' = Chunks(id) /\ Counted(id, 0)' = Counted(id, 0)
    BY <1>3 DEF Chunks, Counted
  <2>2. (\A x \in Client : ~Writer(x, id)') => \A x \in Client : ~Writer(x, id)
    BY <1>0, <1>3 DEF Writer, Active, OthersStay
  <2>3. (\A x \in Client : ~Writer(x, id)') => Chunks(id) = Counted(id, 0)
    BY <1>1, <1>3, <2>2 DEF OrphanOf
  <2>4. ASSUME NEW x \in Client, Writer(x, id)', calm'[x]
        PROVE  Progress(x, id)'
    <3>1. /\ Writer(x, id) /\ calm[x] /\ pc'[x] = pc[x] /\ index'[x] = index[x] /\ op'[x] = op[x]
      BY <1>2, <1>3, <2>4
    <3>2. Counted(id, index[x])' = Counted(id, index[x])
      BY <1>3, <3>1 DEF Counted
    <3> QED
      BY <1>1, <1>3, <2>1, <3>1, <3>2 DEF OrphanOf, Progress
  <2> QED
    BY <2>1, <2>3, <2>4 DEF OrphanOf, Counted
\* Caller c goes on as the writer of the ID.
<1>4. ASSUME Writer(c, id)', calm'[c] => Progress(c, id)' PROVE OrphanOf(id)'
  BY <1>2, <1>4 DEF OrphanOf
<1>5. CASE Call(c)
  <2>1. PICK o \in [kind : Kind, id : ID \cup {NoID}, ver : 0..MaxSaves, len : Lengths \cup {0}] :
         /\ op' = [op EXCEPT ![c] = o]
         /\ pc[c] = "idle"
         /\ pc' = [pc EXCEPT ![c] = IF Writes(o) THEN "wipe" ELSE IF o.kind = "get" THEN "primary" ELSE "list"]
         /\ calm'[c] => \A e \in Client : Active(e) => ~Disturbs(op[e], o)
         /\ UNCHANGED <<primary, chunk, todo, index, got, res, intact>>
    BY <1>5, CallIs, Zenon
  <2>2. op'[c] = o /\ ~Writer(c, id) /\ index[c] = 0
    BY <1>0, <2>1 DEF CallTypes, Writer, Active, CallOf
  <2>3. CASE ~Writer(c, id)'
    BY <1>3, <2>1, <2>2, <2>3
  <2>4. CASE Writer(c, id)'
    <3>1. Writes(o) /\ o.id = id
      BY <2>2, <2>4 DEF Writer
    <3>2. pc'[c] = "wipe"
      BY <1>0, <2>1, <3>1 DEF CallTypes
    <3>3. calm'[c] => \A e \in Client : ~Writer(e, id)
      BY <2>1, <3>1 DEF Writer, Disturbs
    <3>4. calm'[c] => Chunks(id) = Counted(id, 0)
      BY <1>1, <2>1, <3>3 DEF OrphanOf
    <3>5. Chunks(id)' = Chunks(id) /\ Counted(id, index[c])' = Counted(id, 0)
      BY <2>1, <2>2 DEF Chunks, Counted
    <3> QED
      BY <1>4, <2>4, <3>2, <3>4, <3>5 DEF Progress
  <2> QED
    BY <2>3, <2>4
<1>6. CASE Works(c) /\ ~Writer(c, id)
  BY <1>3, <1>6, StepKeeps
<1>7. CASE Works(c) /\ Writer(c, id)
  <2>1. op[c].id = id /\ Active(c) /\ Writes(op[c])
    BY <1>7 DEF Writer
  <2>2. intact[id] /\ calm[c] => Progress(c, id)
    BY <1>1, <1>7 DEF OrphanOf
  <2>3. CASE DeleteChunk(c)
    <3>1. PICK k : k = index[c]
      OBVIOUS
    <3>2. /\ pc[c] = "wipe" /\ k \in Index /\ k \in Nat
          /\ UNCHANGED <<primary, op, intact, calm>>
      BY <2>3, <3>1, DeleteChunkIs, Constants
    <3>3. calm[c] => Chunks(id) = Counted(id, k)
      BY <2>2, <3>1, <3>2 DEF Progress
    <3>4. CASE /\ chunk[id][k] # Absent /\ index' = [index EXCEPT ![c] = k + 1] /\ pc' = pc
               /\ \A j \in Index : chunk'[id][j] = IF j = k THEN Absent ELSE chunk[id][j]
      <4>1. Writer(c, id)'
        BY <1>7, <3>2, <3>4 DEF Writer, Active
      <4>2. index'[c] = k + 1 /\ pc'[c] = "wipe"
        BY <1>0, <3>2, <3>4 DEF CallTypes
      <4>3. Chunks(id)' = Chunks(id) \ {k}
        BY <3>2, <3>4 DEF Chunks
      <4>4. Counted(id, index[c])' = Counted(id, k) \ {k}
        <5>1. \A i \in Index : k + 1 <= i <=> k <= i /\ i # k
          BY <1>i, <3>2
        <5>2. Counted(id, index[c])' = {i \in Index : k + 1 <= i /\ primary[id] # Absent /\ i < primary[id].count}
          BY <3>2, <4>2 DEF Counted
        <5> QED
          BY <5>1, <5>2 DEF Counted
      <4> QED
        BY <1>4, <3>2, <3>3, <4>1, <4>2, <4>3, <4>4 DEF Progress
    <3>5. CASE /\ chunk[id][k] = Absent /\ chunk' = chunk /\ index' = [index EXCEPT ![c] = 0]
               /\ \E l \in {"remove", "chunks", "write"} :
                    /\ pc' = [pc EXCEPT ![c] = l]
                    /\ l # "remove" => op[c].kind = "save" /\ ((l = "chunks") = (CountAttribute(op[c].len) > 0))
      <4>1. PICK l \in {"remove", "chunks", "write"} :
              /\ pc'[c] = l /\ index'[c] = 0
              /\ l # "remove" => op[c].kind = "save" /\ ((l = "chunks") = (CountAttribute(op[c].len) > 0))
        BY <1>0, <3>5 DEF CallTypes
      <4>2. Writer(c, id)'
        BY <1>7, <3>2, <4>1 DEF Writer, Active
      <4>3. calm[c] => Chunks(id) = {}
        <5>1. k \notin Chunks(id)
          BY <3>5 DEF Chunks
        <5>2. primary[id] # Absent => primary[id].count \in Index
          BY <1>0 DEF NameTypes, Primary
        <5>3. k \notin Counted(id, k) => Counted(id, k) = {}
          <6> SUFFICES ASSUME NEW i \in Counted(id, k) PROVE k \in Counted(id, k)
            OBVIOUS
          <6>1. i \in Index /\ k <= i /\ primary[id] # Absent /\ i < primary[id].count
            BY DEF Counted
          <6>2. k < primary[id].count /\ k <= k
            <7>1. i \in Nat /\ k \in Nat /\ primary[id].count \in Nat
              BY <1>i, <3>2, <5>2, <6>1
            <7> QED
              BY <6>1, <7>1
          <6> QED
            BY <3>2, <6>1, <6>2 DEF Counted
        <5> QED
          BY <3>3, <5>1, <5>3
      <4>4. l = "write" => CountAttribute(op[c].len) = 0
        <5>1. l = "write" => op[c].len \in Lengths /\ ~(CountAttribute(op[c].len) > 0)
          BY <1>0, <3>2, <4>1 DEF CallOf
        <5> QED
          BY <5>1, ChunkCounts
      <4>5. {i \in Index : i < 0} = {}
        BY <1>i
      <4>6. Chunks(id)' = Chunks(id)
        BY <3>5 DEF Chunks
      <4> QED
        BY <1>4, <3>2, <4>1, <4>2, <4>3, <4>4, <4>5, <4>6 DEF Progress
    <3> QED
      <4>1. \/ /\ chunk[id][k] # Absent /\ index' = [index EXCEPT ![c] = k + 1] /\ pc' = pc
               /\ \A j \in Index : chunk'[id][j] = IF j = k THEN Absent ELSE chunk[id][j]
            \/ /\ chunk[id][k] = Absent /\ chunk' = chunk /\ index' = [index EXCEPT ![c] = 0]
               /\ \E l \in {"remove", "chunks", "write"} :
                    /\ pc' = [pc EXCEPT ![c] = l]
                    /\ l # "remove" => op[c].kind = "save" /\ ((l = "chunks") = (CountAttribute(op[c].len) > 0))
        BY <2>1, <2>3, <3>1, DeleteChunkIs
      <4> QED
        BY <3>4, <3>5, <4>1, Zenon
  <2>4. CASE WriteChunk(c)
    <3>1. PICK k, len, piece : k = index[c] /\ len = op[c].len /\ piece = ChunkBlob(op[c].ver, len, k)
      OBVIOUS
    <3>2. /\ pc[c] = "chunks" /\ k \in Index /\ k \in Nat /\ piece \in Blobs
          /\ CountAttribute(len) = ChunkCount(len) /\ k < ChunkCount(len)
          /\ UNCHANGED <<primary, op, intact, calm>>
          /\ \A j \in Index : chunk'[id][j] = IF j = k THEN piece ELSE chunk[id][j]
      BY <1>i, <2>1, <2>4, <3>1, WriteChunkIs
    <3>3. calm[c] => Chunks(id) = {i \in Index : i < k}
      BY <2>2, <3>1, <3>2 DEF Progress
    <3>4. calm[c] => Chunks(id)' = {i \in Index : i < k + 1}
      <4>1. Chunks(id)' = Chunks(id) \cup {k}
        BY <3>2, CredentialAssumption DEF Chunks
      <4> QED
        <5>0. k \in Nat
          BY <3>2
        <5>1. \A i \in Index : i < k + 1 <=> i < k \/ i = k
          BY <1>i, <5>0
        <5>2. {i \in Index : i < k + 1} = {i \in Index : i < k} \cup {k}
          <6>1. k \in Index
            BY <3>2
          <6> QED
            BY <5>1, <6>1
        <5> QED
          BY <3>3, <4>1, <5>2, Zenon
    <3>5. \/ index'[c] = k + 1 /\ pc'[c] = "chunks"
          \/ k + 1 = ChunkCount(len) /\ pc'[c] = "write"
      <4>1. \/ index' = [index EXCEPT ![c] = k + 1] /\ pc' = pc
            \/ k + 1 = ChunkCount(len) /\ pc' = [pc EXCEPT ![c] = "write"]
        BY <2>4, <3>1, WriteChunkIs, Zenon
      <4> QED
        BY <1>0, <3>2, <4>1 DEF CallTypes
    <3>6. Writer(c, id)'
      BY <1>7, <3>2, <3>5 DEF Writer, Active
    <3> QED
      BY <1>4, <3>1, <3>2, <3>4, <3>5, <3>6 DEF Progress
  \* The change is over.
  <2>5. ASSUME pc'[c] = "close", intact[id], calm[c], Chunks(id)' = Counted(id, 0)'
        PROVE  OrphanOf(id)'
    <3>1. \A x \in Client : ~Writer(x, id)'
      <4> SUFFICES ASSUME NEW x \in Client, Writer(x, id)' PROVE FALSE
        OBVIOUS
      <4>1. Writer(x, id) /\ x # c
        BY <1>7, <2>5, StepKeeps DEF Writer, Active
      <4>2. pc[c] # "idle"
        BY <2>1 DEF Active
      <4> QED
        BY <2>1, <2>5, <4>1, <4>2, Apart
    <3> QED
      BY <2>5, <3>1 DEF OrphanOf
  <2>6. CASE WritePrimary(c)
    <3>1. PICK n, w, v, blob : n = CountAttribute(op[c].len) /\ w = Blob(op[c].ver, op[c].len) /\ v = op[c].ver
                              /\ blob = IF n > 0 THEN <<>> ELSE w
      OBVIOUS
    <3>2. /\ pc[c] = "write" /\ pc'[c] = "close" /\ chunk' = chunk /\ op[c].len \in Lengths /\ NameTypes'
      BY <1>0, <2>6, WritePrimaryIs DEF CallTypes
    <3>3. /\ primary' = [primary EXCEPT ![id] = [meta |-> v, count |-> n, blob |-> blob]]
          /\ intact' = [intact EXCEPT ![id] = intact[id] /\ calm[c]]
      BY <2>1, <2>6, <3>1, WritePrimaryIs DEF Ends
    <3>4. intact[id] /\ calm[c]
      BY <1>0, <3>3 DEF AuxTypes
    <3>5. Chunks(id) = {i \in Index : i < n}
      BY <2>2, <3>1, <3>2, <3>4 DEF Progress
    <3>6. primary'[id].count = n /\ primary'[id] # Absent
      <4>1. primary'[id] = [meta |-> v, count |-> n, blob |-> blob]
        BY <1>0, <3>3 DEF NameTypes
      <4>2. v \in Version /\ n \in Index /\ blob \in Blobs
        <5>1. op[c].ver \in Version /\ op[c].len \in Nat /\ <<>> \in Blobs
          <6>1. op[c].ver \in Version
            BY <2>6, WritePrimaryIs
          <6> QED
            <7>1. op[c].len \in Nat
              BY <3>2, ChunkCounts
            <7>2. <<>> \in Blobs
              BY DEF Blobs
            <7> QED
              BY <6>1, <7>1, <7>2
        <5> QED
          BY <3>1, <3>2, <5>1, BlobIs, ChunkCounts
      <4> QED
        BY <4>1, <4>2, CredentialAssumption DEF Primary
    <3>7. Chunks(id)' = Counted(id, 0)'
      BY <1>i, <3>2, <3>5, <3>6 DEF Chunks, Counted
    <3> QED
      BY <2>5, <3>2, <3>4, <3>7
  <2>7. CASE DeletePrimary(c)
    <3>1. pc[c] = "remove" /\ pc'[c] = "close" /\ chunk' = chunk
      BY <1>0, <2>7, DeletePrimaryIs DEF CallTypes
    <3>2. /\ primary' = [primary EXCEPT ![id] = Absent]
          /\ intact' = [intact EXCEPT ![id] = intact[id] /\ calm[c]]
      BY <2>1, <2>7, DeletePrimaryIs DEF Ends
    <3>3. intact[id] /\ calm[c] /\ primary'[id] = Absent
      BY <1>0, <3>2 DEF AuxTypes, NameTypes
    <3>4. Chunks(id) = {}
      BY <2>2, <3>1, <3>3 DEF Progress
    <3>5. Chunks(id)' = Counted(id, 0)'
      BY <3>1, <3>3, <3>4 DEF Chunks, Counted
    <3> QED
      BY <2>5, <3>1, <3>3, <3>5
  <2>8. CASE CallFails(c)
    BY <1>0, <2>1, <2>8, CallFailsIs DEF AuxTypes
  <2>9. ~(ListCredentials(c) \/ ReadPrimary(c) \/ ReadChunk(c) \/ Close(c))
    <3>1. pc[c] \in {"wipe", "chunks", "write", "remove"}
      BY <1>0, <2>1 DEF CallOf
    <3> QED
      BY <3>1 DEF ListCredentials, ReadPrimary, ReadChunk, Close
  <2> QED
    BY <1>7, <2>3, <2>4, <2>6, <2>7, <2>8, <2>9 DEF Works
<1> QED
  BY <1>5, <1>6, <1>7

\* The invariant of the Windows store.
IInv ==
  /\ TypeOK /\ CallInv /\ PlacedInv /\ CalmInv
  /\ WriterInv /\ SettledInv /\ ReaderInv /\ OrphanInv

\* The invariant holds before the first call.
LEMMA InitHolds == Init => IInv
<1> SUFFICES ASSUME Init PROVE IInv
  OBVIOUS
<1>0. 0 \in Index /\ NoCred \in Creds
        /\ NoOp \in [kind : Kind, id : ID \cup {NoID}, ver : 0..MaxSaves, len : Lengths \cup {0}]
  BY Constants
<1>1. CallTypes /\ ReadTypes
  BY <1>0 DEF Init, CallTypes, ReadTypes, PC
<1>2. NameTypes
  BY DEF Init, NameTypes
<1>3. AuxTypes
  BY Constants DEF Init, AuxTypes
<1>4. TypeOK
  BY <1>1, <1>2, <1>3, Types
<1>5. CallInv
  BY DEF Init, CallInv, CallOf, Active, NoOp, Writes
<1>6. PlacedInv /\ CalmInv /\ WriterInv
  BY DEF Init, PlacedInv, Placed, CalmInv, CalmOf, WriterInv, WriterOf
<1>7. SettledInv /\ ReaderInv
  BY DEF Init, SettledInv, SettledOf, Writer, Active, ReaderInv, ReaderOf
<1>8. OrphanInv
  BY DEF Init, OrphanInv, OrphanOf, Writer, Active, Chunks, Counted
<1> QED
  BY <1>4, <1>5, <1>6, <1>7, <1>8 DEF IInv

\* Every step of a client keeps the invariant.
LEMMA NextHolds == IInv /\ [Next]_vars => IInv'
<1> SUFFICES ASSUME IInv, [Next]_vars PROVE IInv'
  OBVIOUS
<1>1. CASE Next
  <2>1. PICK c \in Client : Call(c) \/ Works(c)
    BY <1>1 DEF Next, Works
  <2>2. TypeOK' /\ CallInv' /\ PlacedInv' /\ CalmInv'
    BY <2>1, StepTypes, PlacedKept, CalmKept DEF IInv
  <2>3. WriterInv' /\ SettledInv'
    BY <2>1, WriterKept, SettledKept DEF IInv
  <2>4. ReaderInv' /\ OrphanInv'
    BY <2>1, ReaderKept, OrphanKept DEF IInv
  <2> QED
    BY <2>2, <2>3, <2>4 DEF IInv
<1>2. CASE UNCHANGED vars
  <2>1. UNCHANGED <<primary, chunk, pc, op, todo, index, cred, got, res, calm, settled, intact, saves, calls>>
    BY <1>2 DEF vars
  <2>2. TypeOK'
    BY <2>1 DEF IInv, TypeOK
  <2>3. CallInv' /\ CalmInv'
    BY <2>1 DEF IInv, CallInv, CallOf, Active, CalmInv, CalmOf
  <2>4. PlacedInv' /\ WriterInv'
    BY <2>1 DEF IInv, PlacedInv, Placed, WriterInv, WriterOf, Written
  <2>5. SettledInv' /\ ReaderInv'
    BY <2>1 DEF IInv, SettledInv, SettledOf, Stored, Written, Writer, Active, ReaderInv, ReaderOf
  <2>6. OrphanInv'
    BY <2>1 DEF IInv, OrphanInv, OrphanOf, Progress, Chunks, Counted, Writer, Active
  <2> QED
    BY <2>2, <2>3, <2>4, <2>5, <2>6 DEF IInv
<1> QED
  BY <1>1, <1>2

\* The invariant holds in every behaviour of the store.
LEMMA Invariant == Spec => []IInv
BY InitHolds, NextHolds, PTL DEF Spec

-----------------------------------------------------------------------------
(* Theorems *)

\* Every variable keeps its type; in particular no credential is ever larger
\* than Windows allows, and the loops of deleteChunks and readChunks stay
\* within the chunks a Save can write.
THEOREM TypeCorrect == Spec => []TypeOK
<1>1. IInv => TypeOK
  BY DEF IInv
<1> QED
  BY <1>1, Invariant, PTL

\* A read that nobody disturbed returns what the last Save that ran undisturbed
\* stored, secret and metadata, whatever its length and whatever failed or
\* overlapping operations left behind before it; and operations that run
\* undisturbed to their end leave no chunk without its secret
\* (keychain_windows.go, Save, Delete, Get, Filter).
THEOREM SecretsAreKept == Spec => []WindowsKeepsSecrets
<1>1. IInv => ReadsReturnSaved
  BY DEF IInv, ReaderInv, ReaderOf, ReadsReturnSaved
<1>2. IInv => NoOrphans
  <2> SUFFICES ASSUME IInv, NEW id \in ID, intact[id],
                      \A c \in Client : Active(c) => ~Disturbs(op[c], [NoOp EXCEPT !.id = id])
               PROVE  {i \in Index : chunk[id][i] # Absent} =
                        {i \in Index : primary[id] # Absent /\ i < primary[id].count}
    BY DEF NoOrphans
  <2>1. [NoOp EXCEPT !.id = id].id = id
    BY DEF NoOp
  <2>2. \A c \in Client : ~Writer(c, id)
    BY <2>1 DEF Writer, Disturbs
  <2>3. Chunks(id) = Counted(id, 0)
    BY <2>2 DEF IInv, OrphanInv, OrphanOf
  <2>4. \A i \in Index : 0 <= i
    BY ChunkCounts
  <2> QED
    BY <2>3, <2>4 DEF Chunks, Counted
<1>3. IInv => WindowsKeepsSecrets
  BY <1>1, <1>2 DEF WindowsKeepsSecrets
<1> QED
  BY <1>3, Invariant, PTL

==============================================================================
