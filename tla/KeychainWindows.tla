--------------------------- MODULE KeychainWindows ---------------------------
(***************************************************************************)
(* The keychain store on Windows (store/keychain/keychain_windows.go) over *)
(* the Credential Manager.  A secret longer than a credential may be is    *)
(* cut into chunks, each a credential of its own; the primary credential   *)
(* then holds the metadata and the number of chunks.  An operation is one  *)
(* wincred call after the other and takes no lock; it ends at the first    *)
(* call that fails, and a process that dies leaves what a failed call      *)
(* leaves.                                                                 *)
(*                                                                         *)
(* The encoded secret of a Save is a sequence of units, each the number of *)
(* the Save and a position, so that every mixture shows; its metadata is   *)
(* the number of the Save.                                                 *)
(***************************************************************************)
EXTENDS Integers, Sequences, FiniteSets, FiniteSetsExt

CONSTANTS
  Client,    \* callers, in any process
  ID,        \* credential identifiers
  MaxBlob,   \* maxBlobSize
  Lengths,   \* lengths of encoded secrets
  MaxSaves,  \* bound: Saves in a behaviour
  MaxCalls,  \* bound: calls in a behaviour
  Absent,    \* no credential of this name
  Unknown,   \* auxiliary: an operation may have left something half done
  NoID,
  Faults     \* {"fail"} if wincred calls may fail, {} otherwise

ASSUME WindowsAssumption ==
  /\ MaxBlob \in Nat \ {0} /\ Lengths \subseteq Nat \ {0}
  /\ \E longest \in Lengths : \A len \in Lengths : len <= longest
  /\ {MaxSaves, MaxCalls} \subseteq Nat
  /\ Absent # Unknown
  /\ NoID \notin ID
  /\ Faults \subseteq {"fail"}

VARIABLES
  primary,  \* per ID, its primary credential
  chunk,    \* per ID and index, its chunk credential
  pc,       \* where each caller is
  op,       \* what it was called with: kind, ID and, for a Save, version and length
  todo,     \* IDs a Filter still has to load
  index,    \* the loop variable over chunks
  cred,     \* the credential a read is loading: ID, metadata, chunk count, blob
  got,      \* what a read has loaded: triples of ID, metadata, blob
  res,      \* how the call ends: "none", "ok", "notfound" or "error"
  calm,     \* auxiliary: no other call changed what this one works on
  settled,  \* auxiliary: per ID, what the last change that ran calmly to its
            \* end left, or Unknown when another one came after it
  intact,   \* auxiliary: per ID, every change so far ran calmly to its end
  saves, calls

names == <<primary, chunk>>
read  == <<todo, cred, got>>
known == <<settled, intact>>
aux   == <<calm, saves, calls>>
vars  == <<primary, chunk, pc, op, todo, index, cred, got, res, calm, settled, intact,
           saves, calls>>

Version == 1..MaxSaves
Kind    == {"save", "delete", "get", "filter", "metadata"}
Writes(o) == o.kind \in {"save", "delete"}
PC == {"idle", "wipe", "chunks", "write", "remove", "primary", "list", "readchunks", "close"}

NoOp   == [kind |-> "get", id |-> NoID, ver |-> 0, len |-> 0]
NoCred == [id |-> NoID, meta |-> 0, count |-> 0, blob |-> <<>>]

-----------------------------------------------------------------------------
(* Blobs and chunks *)

\* encodeSecret.
Blob(v, len) == [k \in 1..len |-> <<v, k>>]

\* Variant: the division rounds down.
ChunkCount_NoTail(len) == len \div MaxBlob

\* How many turns the loop of chunkBlob makes.
ChunkCount(len) == (len + MaxBlob - 1) \div MaxBlob

\* The i-th slice chunkBlob returns.
ChunkBlob(v, len, i) ==
  SubSeq(Blob(v, len), i * MaxBlob + 1, Min({len, (i + 1) * MaxBlob}))

\* Variant: the length is taken before the encoding doubles it.
CountAttribute_BeforeEncoding(len) == IF len \div 2 > MaxBlob THEN ChunkCount(len) ELSE 0

\* What Save writes as the chunk count: none when the secret fits.
CountAttribute(len) == IF len > MaxBlob THEN ChunkCount(len) ELSE 0

Index == 0..ChunkCount(Max(Lengths))

\* What a credential holds: units of encoded secrets.
Blobs == Seq(Version \X Nat)
Primary == [meta : Version, count : Index, blob : Blobs]

\* "No credential" and "unknown" are neither a credential nor a blob.
ASSUME CredentialAssumption ==
  Absent \notin Primary /\ \A none \in {Absent, Unknown} : none \notin Blobs

\* The types of the variables; no credential is larger than Windows allows,
\* and the loop over the chunks stays within them.
TypeOK ==
  /\ primary \in [ID -> Primary \cup {Absent}]
  /\ chunk \in [ID -> [Index -> Blobs \cup {Absent}]]
  /\ \A id \in ID :
       /\ primary[id] # Absent => Len(primary[id].blob) <= MaxBlob
       /\ \A i \in Index : chunk[id][i] # Absent => Len(chunk[id][i]) \in 1..MaxBlob
  /\ pc \in [Client -> PC]
  /\ op \in [Client -> [kind : Kind, id : ID \cup {NoID}, ver : 0..MaxSaves, len : Lengths \cup {0}]]
  /\ cred \in [Client -> [id : ID \cup {NoID}, meta : 0..MaxSaves, count : Index, blob : Blobs]]
  /\ todo \in [Client -> SUBSET ID]
  /\ got \in [Client -> SUBSET (ID \X Version \X Blobs)]
  /\ index \in [Client -> Index]
  /\ res \in [Client -> {"none", "ok", "notfound", "error"}]
  /\ calm \in [Client -> BOOLEAN]
  /\ settled \in [ID -> Blobs \cup {Absent, Unknown}]
  /\ intact \in [ID -> BOOLEAN]
  /\ saves \in 0..MaxSaves /\ calls \in 0..MaxCalls

-----------------------------------------------------------------------------
(* Helpers *)

Goto(c, l) == pc' = [pc EXCEPT ![c] = l]

Active(c) == pc[c] \notin {"idle", "close"}

\* Operation o changes what operation p works on.
Disturbs(o, p) == Writes(o) /\ (o.id = p.id \/ p.id = NoID)

Return(c, r) == Goto(c, "close") /\ res' = [res EXCEPT ![c] = r]

\* A change ends: what it leaves is known if it succeeded undisturbed.
Settle(c, what, ok) ==
  /\ settled' = [settled EXCEPT ![op[c].id] = IF ok /\ calm[c] THEN what ELSE Unknown]
  /\ intact' = [intact EXCEPT ![op[c].id] = @ /\ ok /\ calm[c]]

-----------------------------------------------------------------------------
Init ==
  /\ primary = [id \in ID |-> Absent]
  /\ chunk = [id \in ID |-> [i \in Index |-> Absent]]
  /\ pc = [c \in Client |-> "idle"]
  /\ op = [c \in Client |-> NoOp]
  /\ todo = [c \in Client |-> {}]
  /\ index = [c \in Client |-> 0]
  /\ cred = [c \in Client |-> NoCred]
  /\ got = [c \in Client |-> {}]
  /\ res = [c \in Client |-> "none"]
  /\ calm = [c \in Client |-> TRUE]
  /\ settled = [id \in ID |-> Absent]
  /\ intact = [id \in ID |-> TRUE]
  /\ saves = 0
  /\ calls = 0

\* Save (and Upsert), Delete, Get, Filter or GetAllMetadata is called.
Call(c) ==
  /\ pc[c] = "idle"
  /\ calls < MaxCalls
  /\ \/ /\ saves < MaxSaves
        /\ \E id \in ID, len \in Lengths :
             op' = [op EXCEPT ![c] = [kind |-> "save", id |-> id, ver |-> saves + 1, len |-> len]]
        /\ saves' = saves + 1
     \/ /\ \E k \in {"delete", "get"}, id \in ID :
             op' = [op EXCEPT ![c] = [kind |-> k, id |-> id, ver |-> 0, len |-> 0]]
        /\ UNCHANGED saves
     \/ /\ \E k \in {"filter", "metadata"} : op' = [op EXCEPT ![c] = [NoOp EXCEPT !.kind = k]]
        /\ UNCHANGED saves
  /\ Goto(c, CASE Writes(op'[c])         -> "wipe"
               [] op'[c].kind = "get"    -> "primary"
               [] OTHER                  -> "list")
  /\ cred' = [cred EXCEPT ![c].id = op'[c].id]
  /\ calm' = [d \in Client |->
       IF d = c THEN \A e \in Client : Active(e) => ~Disturbs(op[e], op'[c])
       ELSE calm[d] /\ ~(pc[d] # "idle" /\ Disturbs(op'[c], op[d]))]
  /\ calls' = calls + 1
  /\ settled' = IF Writes(op'[c]) THEN [settled EXCEPT ![op'[c].id] = Unknown] ELSE settled
  /\ UNCHANGED <<names, todo, index, got, res, intact>>

\* One turn of deleteChunks: it ends at the first index that is not there.
DeleteChunk(c) ==
  LET id == op[c].id IN
  /\ pc[c] = "wipe"
  /\ IF chunk[id][index[c]] # Absent
       THEN /\ chunk' = [chunk EXCEPT ![id][index[c]] = Absent]
            /\ index' = [index EXCEPT ![c] = @ + 1]
            /\ UNCHANGED pc
       ELSE /\ index' = [index EXCEPT ![c] = 0]
            /\ Goto(c, IF op[c].kind = "delete" THEN "remove"
                       ELSE IF CountAttribute(op[c].len) > 0 THEN "chunks" ELSE "write")
            /\ UNCHANGED chunk
  /\ UNCHANGED <<primary, op, read, res, known, aux>>

\* Save writes one chunk credential.
WriteChunk(c) ==
  /\ pc[c] = "chunks"
  /\ chunk' = [chunk EXCEPT ![op[c].id][index[c]] = ChunkBlob(op[c].ver, op[c].len, index[c])]
  /\ IF index[c] + 1 < ChunkCount(op[c].len)
       THEN index' = [index EXCEPT ![c] = @ + 1] /\ UNCHANGED pc
       ELSE index' = [index EXCEPT ![c] = 0] /\ Goto(c, "write")
  /\ UNCHANGED <<primary, op, read, res, known, aux>>

\* Save's last call: the primary credential, with the blob or the chunk count.
WritePrimary(c) ==
  LET count == CountAttribute(op[c].len) IN
  /\ pc[c] = "write"
  /\ primary' = [primary EXCEPT ![op[c].id] =
       [meta |-> op[c].ver, count |-> count,
        blob |-> IF count > 0 THEN <<>> ELSE Blob(op[c].ver, op[c].len)]]
  /\ Return(c, "ok")
  /\ Settle(c, Blob(op[c].ver, op[c].len), TRUE)
  /\ UNCHANGED <<chunk, op, read, index, aux>>

\* Delete's last call; that there is no such credential is no error.
DeletePrimary(c) ==
  /\ pc[c] = "remove"
  /\ primary' = [primary EXCEPT ![op[c].id] = Absent]
  /\ Return(c, "ok")
  /\ Settle(c, Absent, TRUE)
  /\ UNCHANGED <<chunk, op, read, index, aux>>

\* List, and findServiceCredentials: the primary credentials of the store, for
\* Filter those that match.  GetAllMetadata needs no other call.
ListCredentials(c) ==
  /\ pc[c] = "list"
  /\ \E matched \in SUBSET {id \in ID : primary[id] # Absent} :
       \/ /\ op[c].kind = "filter" /\ matched # {}
          /\ \E id \in matched :
               /\ cred' = [cred EXCEPT ![c].id = id]
               /\ todo' = [todo EXCEPT ![c] = matched \ {id}]
          /\ Goto(c, "primary")
          /\ UNCHANGED <<got, res>>
       \/ /\ op[c].kind = "metadata" \/ matched = {}
          /\ op[c].kind = "metadata" => matched = {id \in ID : primary[id] # Absent}
          /\ got' = [got EXCEPT ![c] = {<<id, primary[id].meta, <<>> >> : id \in matched}]
          /\ Return(c, "ok")
          /\ UNCHANGED <<cred, todo>>
  /\ UNCHANGED <<names, op, index, known, aux>>

\* The credential with this metadata and blob is decoded: Get returns it,
\* Filter adds it and goes on with the next one.
Loaded(c, meta, blob) ==
  /\ got' = [got EXCEPT ![c] = @ \cup {<<cred[c].id, meta, blob>>}]
  /\ index' = [index EXCEPT ![c] = 0]
  /\ \/ /\ todo[c] = {}
        /\ Return(c, "ok")
        /\ UNCHANGED <<cred, todo>>
     \/ \E id \in todo[c] :
          /\ cred' = [cred EXCEPT ![c] = [NoCred EXCEPT !.id = id]]
          /\ todo' = [todo EXCEPT ![c] = @ \ {id}]
          /\ Goto(c, "primary")
          /\ UNCHANGED res

\* Get, and loadSecret for Filter: GetGenericCredential of the primary name.
ReadPrimary(c) ==
  LET p == primary[cred[c].id] IN
  /\ pc[c] = "primary"
  /\ \/ /\ p = Absent
        /\ Return(c, "notfound")
        /\ UNCHANGED <<todo, index, cred, got>>
     \/ /\ p # Absent /\ p.count > 0
        /\ cred' = [cred EXCEPT ![c] =
             [id |-> cred[c].id, meta |-> p.meta, count |-> p.count, blob |-> <<>>]]
        /\ Goto(c, "readchunks")
        /\ UNCHANGED <<todo, index, got, res>>
     \/ /\ p # Absent /\ p.count = 0
        /\ Loaded(c, p.meta, p.blob)
  /\ UNCHANGED <<names, op, known, aux>>

\* One turn of readChunks.
ReadChunk(c) ==
  LET piece == chunk[cred[c].id][index[c]] IN
  /\ pc[c] = "readchunks"
  /\ \/ /\ piece = Absent
        /\ Return(c, "notfound")
        /\ UNCHANGED <<todo, index, cred, got>>
     \/ /\ piece # Absent /\ index[c] + 1 < cred[c].count
        /\ cred' = [cred EXCEPT ![c].blob = @ \o piece]
        /\ index' = [index EXCEPT ![c] = @ + 1]
        /\ UNCHANGED <<pc, todo, got, res>>
     \/ /\ piece # Absent /\ index[c] + 1 = cred[c].count
        /\ Loaded(c, cred[c].meta, cred[c].blob \o piece)
  /\ UNCHANGED <<names, op, known, aux>>

\* A wincred call fails, or the process dies before it.
CallFails(c) ==
  /\ "fail" \in Faults
  /\ Active(c)
  /\ Return(c, "error")
  /\ IF Writes(op[c]) THEN Settle(c, Unknown, FALSE) ELSE UNCHANGED known
  /\ UNCHANGED <<names, op, read, index, aux>>

\* The caller has its answer.
Close(c) ==
  /\ pc[c] = "close"
  /\ Goto(c, "idle")
  /\ op' = [op EXCEPT ![c] = NoOp]
  /\ todo' = [todo EXCEPT ![c] = {}]
  /\ index' = [index EXCEPT ![c] = 0]
  /\ cred' = [cred EXCEPT ![c] = NoCred]
  /\ got' = [got EXCEPT ![c] = {}]
  /\ res' = [res EXCEPT ![c] = "none"]
  /\ UNCHANGED <<names, known, aux>>

Next ==
  \E c \in Client :
    \/ Call(c) \/ DeleteChunk(c) \/ WriteChunk(c) \/ WritePrimary(c) \/ DeletePrimary(c)
    \/ ListCredentials(c) \/ ReadPrimary(c) \/ ReadChunk(c) \/ CallFails(c) \/ Close(c)

Spec == Init /\ [][Next]_vars

-----------------------------------------------------------------------------
(* Properties *)

\* A read that nobody disturbed returns exactly what the last Save that ran
\* undisturbed stored, secret and metadata, however long it is and whatever
\* failed or overlapping operations had left behind before it (Save, readChunks).
ReadsReturnSaved ==
  \A c \in Client : pc[c] = "close" /\ op[c].kind \in {"get", "filter"} /\ calm[c] =>
    /\ \A t \in got[c] : settled[t[1]] # Unknown => t[3] = settled[t[1]] /\ t[2] = t[3][1][1]
    /\ op[c].kind = "get" /\ res[c] # "error" /\ settled[op[c].id] # Unknown =>
         (res[c] = "ok") = (settled[op[c].id] # Absent)

\* "leaves no orphaned chunk credentials behind (and vice-versa)" (Save): the
\* chunks of an ID are the ones its primary credential counts, as long as no
\* change of the ID has failed half-way or overlapped with another one.
NoOrphans ==
  \A id \in ID : intact[id] /\ (\A c \in Client : Active(c) => ~Disturbs(op[c], [NoOp EXCEPT !.id = id])) =>
    {i \in Index : chunk[id][i] # Absent} =
      {i \in Index : primary[id] # Absent /\ i < primary[id].count}

\* On Windows a chunked secret is read back as it was saved, and operations that
\* run undisturbed leave no chunk without its secret (keychain_windows.go).
WindowsKeepsSecrets == ReadsReturnSaved /\ NoOrphans

==============================================================================
