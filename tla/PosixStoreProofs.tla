--------------------------- MODULE PosixStoreProofs ---------------------------
(***************************************************************************)
(* Proofs about the posixage store, for any number of clients, processes,  *)
(* identifiers and key types and with every fault the model has.           *)
(*                                                                         *)
(* The inductive invariant has three parts per client.  LocksOf ties the   *)
(* program point to the operation and to the two locks, and states the     *)
(* exclusion of the file lock.  StageOf says what a Save has put into its  *)
(* directory at each of its points.  ReadOf says that what a reader has    *)
(* collected is still on disk, which holds because it has the file lock.   *)
(***************************************************************************)
EXTENDS PosixStore, WellFoundedInduction, SequenceTheorems, TLAPS

\* Program points of a Save only, of a read only, of all that need the lock.
Saving  == {"prompt", "mkdir", "meta", "secrets", "cleanup"}
Reading == {"readmeta", "readsecrets", "walk"}
Working == Saving \cup Reading \cup {"clear"}

LocksOf(c) ==
  /\ pc[c] \in {"idle", "mutex", "dead"} => mu[c] = "none"
  /\ pc[c] \notin {"idle", "mutex", "dead"} => mu[c] # "none"
  /\ pc[c] \in {"idle", "mutex", "flock", "dead"} => fl[c] = "none"
  /\ pc[c] \in Working => fl[c] = IF Writes(op[c].kind) THEN "ex" ELSE "sh"
  /\ fl[c] \in {"none", IF Writes(op[c].kind) THEN "ex" ELSE "sh"}
  /\ \A d \in Client \ {c} : fl[c] = "ex" => fl[d] = "none"

CallOf(c) ==
  /\ pc[c] \in Saving => op[c].kind = "save"
  /\ pc[c] = "clear" => Writes(op[c].kind)
  /\ pc[c] \in {"readmeta", "readsecrets"} => op[c].kind = "get"
  /\ pc[c] = "walk" => op[c].kind \in {"filter", "metadata"}
  /\ pc[c] \notin {"idle", "dead"} =>
       /\ op[c].kind \in {"save", "delete", "get"} => op[c].id \in ID
       /\ op[c].kind \in {"filter", "metadata"} => op[c].id = NoID
       /\ op[c].kind = "save" => op[c].ver \in Version
  /\ pc[c] \notin {"unlock", "dead"} => res[c] = "none"

StageOf(c) ==
  /\ pc[c] \in {"prompt", "clear", "mkdir", "meta"} => todo[c] = KeyType
  /\ pc[c] = "mkdir" => op[c].id \notin dirs
  /\ pc[c] \in {"meta", "secrets", "cleanup"} => op[c].id \in dirs
  /\ pc[c] = "meta" => files[op[c].id] = NoFiles
  /\ pc[c] = "secrets" =>
       /\ todo[c] \subseteq KeyType
       /\ \A f \in File : files[op[c].id][f] = IF f \in todo[c] THEN Absent ELSE op[c].ver

ReadOf(c) ==
  /\ pc[c] \notin {"readsecrets", "walk", "unlock", "dead"} => \A id \in ID : got[c][id] = NoRead
  /\ pc[c] = "readsecrets" =>
       /\ \A id \in ID \ {op[c].id} : got[c][id] = NoRead
       /\ Restorable(op[c].id)
       /\ got[c][op[c].id].meta = files[op[c].id]["meta"]
  /\ pc[c] = "walk" =>
       /\ todo[c] \subseteq dirs
       /\ \A id \in ID : got[c][id] # NoRead =>
            /\ Restorable(id)
            /\ got[c][id].meta = files[id]["meta"]
            /\ op[c].kind = "filter" => got[c][id].secret = got[c][id].meta

StoreInv == \A c \in Client : LocksOf(c) /\ CallOf(c) /\ StageOf(c) /\ ReadOf(c)

\* What a walk of GetAllMetadata has left: only without I/O errors.
WalkOf(c) ==
  pc[c] = "walk" /\ op[c].kind = "metadata" =>
    \A id \in dirs : id \in todo[c] \/ got[c][id] # NoRead

USE StoreAssumption

-----------------------------------------------------------------------------
(* Operators *)

\* A set of naturals has a smallest element.
LEMMA MinIsMember ==
  ASSUME NEW S, S \subseteq Nat, S # {}
  PROVE  Min(S) \in S
<1>1. PICK x \in S : \A y \in S : ~(<<y, x>> \in OpToRel(<, Nat))
  BY NatLessThanWellFounded, WFMin
<1>2. \A y \in S : ~(y < x)
  BY <1>1 DEF OpToRel
<1>3. \A y \in S : x <= y
  BY <1>2
<1> QED
  BY <1>3 DEF Min

\* What decryptSecret returns is one of the secret files, or nothing.
LEMMA DecryptReadsOneFile ==
  ASSUME NEW fs, NEW fits
  PROVE  DecryptSecret(fs, fits) = Absent \/ \E k \in KeyType : DecryptSecret(fs, fits) = fs[k]
<1> DEFINE ends == {i \in DOMAIN Prompts : fs[Prompts[i]] = Absent \/ fits[i]}
<1>1. CASE ends = {}
  BY <1>1 DEF DecryptSecret
<1>2. CASE ends # {}
  <2>1. DOMAIN Prompts \subseteq Nat
    OBVIOUS
  <2>2. Min(ends) \in DOMAIN Prompts
    BY <1>2, <2>1, MinIsMember
  <2>3. Prompts[Min(ends)] \in KeyType
    BY <2>2
  <2> QED
    BY <1>2, <2>3 DEF DecryptSecret
<1> QED
  BY <1>1, <1>2

\* A file that RestoreSecret hands on is the one on disk; only secret files
\* can be left out.
LEMMA ReadableIsOnDisk ==
  ASSUME TypeOK, NEW id \in ID, NEW readable \in ReadableFiles(id)
  PROVE  /\ readable \in [File -> Version \cup {Absent}]
         /\ readable["meta"] = files[id]["meta"]
         /\ \A f \in File : readable[f] \in {files[id][f], Absent}
<1> USE DEF TypeOK, File
<1>1. CASE readable = files[id]
  BY <1>1
<1>2. ASSUME NEW lost \in SUBSET KeyType,
             readable = [f \in File |-> IF f \in lost THEN Absent ELSE files[id][f]]
      PROVE  /\ readable \in [File -> Version \cup {Absent}]
             /\ readable["meta"] = files[id]["meta"]
             /\ \A f \in File : readable[f] \in {files[id][f], Absent}
  BY <1>2
<1> QED
  BY <1>1, <1>2 DEF ReadableFiles

\* So what a read decrypts is a secret file of the directory, or nothing.
LEMMA DecryptedIsOnDisk ==
  ASSUME TypeOK, NEW id \in ID, NEW fits, NEW readable \in ReadableFiles(id)
  PROVE  /\ DecryptSecret(readable, fits) \in Version \cup {Absent}
         /\ \/ DecryptSecret(readable, fits) = Absent
            \/ \E k \in KeyType : DecryptSecret(readable, fits) = files[id][k]
<1> DEFINE s == DecryptSecret(readable, fits)
<1>1. s = Absent \/ \E k \in KeyType : s = readable[k]
  BY DecryptReadsOneFile
<1>2. \A k \in KeyType : readable[k] \in {files[id][k], Absent}
  BY ReadableIsOnDisk DEF File
<1>3. \A k \in KeyType : files[id][k] \in Version \cup {Absent}
  BY DEF TypeOK, File
<1> QED
  BY <1>1, <1>2, <1>3

-----------------------------------------------------------------------------
(* Types *)

ReadType == [meta : Version \cup {Absent}, secret : Version \cup {Absent}]

\* A reader that has read one more file has collected versions still.
LEMMA ReadTyped ==
  ASSUME NEW g \in [Client -> [ID -> ReadType]], NEW c \in Client, NEW id \in ID,
         NEW v \in Version \cup {Absent}
  PROVE  /\ [g EXCEPT ![c][id].meta = v] \in [Client -> [ID -> ReadType]]
         /\ [g EXCEPT ![c][id].secret = v] \in [Client -> [ID -> ReadType]]
<1>1. g[c] \in [ID -> ReadType] /\ g[c][id] \in ReadType
  OBVIOUS
<1>2. [g[c][id] EXCEPT !.meta = v] \in ReadType /\ [g[c][id] EXCEPT !.secret = v] \in ReadType
  BY <1>1 DEF ReadType
<1> QED
  BY <1>1, <1>2

\* An operation's program point after it has the file lock.
LEMMA FirstPoint ==
  ASSUME NEW c \in Client, LockFile(c), TypeOK
  PROVE  \E l \in {"prompt", "clear", "readmeta", "walk"} :
           /\ pc' = [pc EXCEPT ![c] = l]
           /\ op[c].kind = "save" <=> l = "prompt"
           /\ op[c].kind = "delete" <=> l = "clear"
           /\ op[c].kind = "get" <=> l = "readmeta"
           /\ op[c].kind \in {"filter", "metadata"} <=> l = "walk"
<1>1. op[c].kind \in Kind
  BY DEF TypeOK
<1> QED
  BY <1>1 DEF LockFile, Goto, Kind

\* What a directory holds is one credential, nothing or a torn one.
LEMMA ValueType ==
  ASSUME TypeOK, NEW id \in ID
  PROVE  Value(id) \in Version \cup {Absent, Torn}
BY DEF Value, TypeOK, File

\* Every action keeps the types.  That a directory which is not there holds
\* nothing needs StageOf: Persist writes only after Mkdir.
LEMMA TypeStep == TypeOK /\ StoreInv /\ [Next]_vars => TypeOK'
<1> SUFFICES ASSUME TypeOK, StoreInv, [Next]_vars PROVE TypeOK'
  OBVIOUS
<1> USE DEF TypeOK, Goto, Return, Leave, disk, locks, call, count, PC, NoOp, NoRead, Kind
<1>1. ASSUME NEW c \in Client, Call(c) PROVE TypeOK'
  <2>1. saves' \in 0..MaxSaves /\ calls' \in 0..MaxCalls
    BY <1>1 DEF Call
  <2>2. op' \in [Client -> [kind : Kind, id : ID \cup {NoID}, ver : Version \cup {Absent}]]
    <3>1. PICK o \in [kind : Kind, id : ID \cup {NoID}, ver : Version \cup {Absent}] :
            op' = [op EXCEPT ![c] = o]
      <4>1. ASSUME saves < MaxSaves PROVE saves + 1 \in Version
        BY <4>1 DEF Version
      <4> QED
        BY <1>1, <4>1 DEF Call
    <3> QED
      BY <3>1
  <2> QED
    BY <1>1, <2>1, <2>2 DEF Call
<1>2. ASSUME NEW c \in Client, LockMutex(c) PROVE TypeOK'
  BY <1>2 DEF LockMutex
<1>3. ASSUME NEW c \in Client, LockFile(c) PROVE TypeOK'
  <2>1. pc' \in [Client -> PC]
    BY <1>3, FirstPoint
  <2>2. todo' \in [Client -> SUBSET (File \cup ID)]
    BY <1>3 DEF LockFile, File
  <2>3. before' \in [Client -> [ID -> Version \cup {Absent, Torn}]]
    BY <1>3, ValueType DEF LockFile
  <2> QED
    BY <1>3, <2>1, <2>2, <2>3 DEF LockFile
<1>4. ASSUME NEW c \in Client, LockFileFails(c) \/ UnlockMutex(c) PROVE TypeOK'
  <2>1. Leave(c) /\ UNCHANGED <<dirs, files, fl, saves, calls>>
    BY <1>4 DEF LockFileFails, UnlockMutex
  <2>2. op' \in [Client -> [kind : Kind, id : ID \cup {NoID}, ver : Version \cup {Absent}]]
    BY <2>1
  <2>3. got' \in [Client -> [ID -> ReadType]]
    BY <2>1 DEF ReadType
  <2>4. before' \in [Client -> [ID -> Version \cup {Absent, Torn}]]
    BY <2>1
  <2> QED
    BY <2>1, <2>2, <2>3, <2>4 DEF ReadType
<1>5. ASSUME NEW c \in Client, PromptForKeys(c) \/ RemoveOrMkdirFails(c) \/ WriteFails(c)
      PROVE TypeOK'
  <2>1. pc' \in [Client -> PC] /\ res' \in [Client -> {"none", "ok", "error"}]
    BY <1>5 DEF PromptForKeys, RemoveOrMkdirFails, WriteFails
  <2>2. UNCHANGED <<dirs, files, mu, fl, op, todo, got, before, saves, calls>>
    BY <1>5 DEF PromptForKeys, RemoveOrMkdirFails, WriteFails
  <2> QED
    BY <2>1, <2>2
<1>6. ASSUME NEW c \in Client, RemoveFile(c) PROVE TypeOK'
  <2>1. PICK f \in File : files' = [files EXCEPT ![op[c].id][f] = Absent]
    BY <1>6 DEF RemoveFile
  <2>2. files' \in [ID -> [File -> Version \cup {Absent}]]
    BY <2>1
  <2>3. \A id \in ID \ dirs : files'[id] = NoFiles
    BY <2>1 DEF NoFiles
  <2> QED
    BY <1>6, <2>2, <2>3 DEF RemoveFile
<1>7. ASSUME NEW c \in Client, RemoveDir(c) PROVE TypeOK'
  <2>1. pc' \in [Client -> PC] /\ res' \in [Client -> {"none", "ok", "error"}]
    BY <1>7 DEF RemoveDir
  <2>2. \A id \in ID \ dirs' : files[id] = NoFiles
    BY <1>7 DEF RemoveDir
  <2> QED
    BY <1>7, <2>1, <2>2 DEF RemoveDir
<1>8. ASSUME NEW c \in Client, MakeDir(c) PROVE TypeOK'
  <2>1. op[c].id \in ID
    BY <1>8 DEF MakeDir, StoreInv, CallOf, Saving
  <2> QED
    BY <1>8, <2>1 DEF MakeDir
<1>9. ASSUME NEW c \in Client, WriteMetadata(c) PROVE TypeOK'
  <2>1. op[c].id \in dirs /\ op[c].ver \in Version /\ op[c].id \in ID
    BY <1>9 DEF WriteMetadata, StoreInv, CallOf, StageOf, Saving
  <2>2. files' \in [ID -> [File -> Version \cup {Absent}]]
    BY <1>9, <2>1 DEF WriteMetadata
  <2>3. \A id \in ID \ dirs : files'[id] = NoFiles
    BY <1>9, <2>1 DEF WriteMetadata
  <2> QED
    BY <1>9, <2>2, <2>3 DEF WriteMetadata
<1>10. ASSUME NEW c \in Client, WriteSecret(c) PROVE TypeOK'
  <2>1. op[c].id \in dirs /\ op[c].ver \in Version /\ op[c].id \in ID
    BY <1>10 DEF WriteSecret, StoreInv, CallOf, StageOf, Saving
  <2>2. PICK k \in todo[c] :
          /\ files' = [files EXCEPT ![op[c].id][k] = op[c].ver]
          /\ todo' = [todo EXCEPT ![c] = @ \ {k}]
          /\ IF todo[c] = {k} THEN Return(c, "ok") ELSE UNCHANGED <<pc, res>>
    BY <1>10 DEF WriteSecret
  <2>3. files' \in [ID -> [File -> Version \cup {Absent}]]
    BY <2>1, <2>2
  <2>4. \A id \in ID \ dirs : files'[id] = NoFiles
    BY <2>1, <2>2
  <2>5. pc' \in [Client -> PC] /\ res' \in [Client -> {"none", "ok", "error"}]
    BY <2>2
  <2>6. todo' \in [Client -> SUBSET (File \cup ID)]
    BY <2>2
  <2> QED
    BY <1>10, <2>3, <2>4, <2>5, <2>6 DEF WriteSecret
<1>11. ASSUME NEW c \in Client, ReadMetadata(c) PROVE TypeOK'
  <2>1. op[c].id \in ID
    BY <1>11 DEF ReadMetadata, StoreInv, CallOf
  <2>2. got' \in [Client -> [ID -> ReadType]]
    <3>1. got \in [Client -> [ID -> ReadType]] /\ files[op[c].id]["meta"] \in Version \cup {Absent}
      BY <2>1 DEF ReadType, File
    <3>2. [got EXCEPT ![c][op[c].id].meta = files[op[c].id]["meta"]] \in [Client -> [ID -> ReadType]]
      BY <2>1, <3>1, ReadTyped, Zenon
    <3> QED
      BY <1>11, <3>1, <3>2, Zenon DEF ReadMetadata
  <2> QED
    BY <1>11, <2>2 DEF ReadMetadata, ReadType
<1>12. ASSUME NEW c \in Client, ReadSecrets(c) PROVE TypeOK'
  <2>1. op[c].id \in ID
    BY <1>12 DEF ReadSecrets, StoreInv, CallOf
  <2>2. PICK s \in Version \cup {Absent} :
          /\ got' = [got EXCEPT ![c][op[c].id].secret = s]
          /\ Return(c, IF s = Absent THEN "error" ELSE "ok")
    BY <1>12, <2>1, DecryptedIsOnDisk DEF ReadSecrets
  <2>3. got' \in [Client -> [ID -> ReadType]]
    BY <2>1, <2>2, ReadTyped DEF ReadType
  <2> QED
    BY <1>12, <2>2, <2>3 DEF ReadSecrets, ReadType
<1>13. ASSUME NEW c \in Client, WalkDir(c) PROVE TypeOK'
  <2>1. PICK id \in todo[c] :
          /\ Restorable(id)
          /\ \/ /\ op[c].kind = "metadata"
                /\ got' = [got EXCEPT ![c][id].meta = files[id]["meta"]]
             \/ /\ op[c].kind = "filter"
                /\ \E fits \in KeyAnswers, readable \in ReadableFiles(id) :
                     LET s == DecryptSecret(readable, fits)
                     IN  /\ s # Absent
                         /\ got' = [got EXCEPT ![c][id] = [meta |-> readable["meta"], secret |-> s]]
          /\ todo' = [todo EXCEPT ![c] = @ \ {id}]
    BY <1>13 DEF WalkDir
  <2>2. id \in ID
    BY <2>1 DEF Restorable
  <2>3. got \in [Client -> [ID -> ReadType]] /\ files[id]["meta"] \in Version \cup {Absent}
    BY <2>2 DEF File, ReadType
  <2>4. ASSUME NEW fits \in KeyAnswers, NEW readable \in ReadableFiles(id)
        PROVE  [meta |-> readable["meta"], secret |-> DecryptSecret(readable, fits)] \in ReadType
    BY <2>2, <2>3, DecryptedIsOnDisk, ReadableIsOnDisk DEF ReadType
  <2>5. got' \in [Client -> [ID -> ReadType]]
    <3>1. [got EXCEPT ![c][id].meta = files[id]["meta"]] \in [Client -> [ID -> ReadType]]
      BY <2>2, <2>3, ReadTyped, Zenon
    <3>2. ASSUME NEW r \in ReadType
          PROVE  [got EXCEPT ![c][id] = r] \in [Client -> [ID -> ReadType]]
      BY <2>2, <2>3
    <3>3. ASSUME NEW fits \in KeyAnswers, NEW readable \in ReadableFiles(id),
                 got' = [got EXCEPT ![c][id] = [meta |-> readable["meta"],
                                                secret |-> DecryptSecret(readable, fits)]]
          PROVE  got' \in [Client -> [ID -> ReadType]]
      BY <2>4, <3>2, <3>3, Zenon
    <3> QED
      BY <2>1, <3>1, <3>3, Zenon
  <2> QED
    BY <1>13, <2>1, <2>5 DEF WalkDir, ReadType
<1>14. ASSUME NEW c \in Client, SkipDir(c) \/ WalkAborts(c) \/ WalkEnds(c) \/ UnlockFile(c)
       PROVE TypeOK'
  <2>1. CASE SkipDir(c)
    BY <2>1 DEF SkipDir
  <2>2. CASE WalkAborts(c)
    <3>1. got' \in [Client -> [ID -> ReadType]]
      BY <2>2 DEF WalkAborts, ReadType
    <3> QED
      BY <2>2, <3>1 DEF WalkAborts, ReadType
  <2>3. CASE WalkEnds(c) \/ UnlockFile(c)
    <3>1. pc' \in [Client -> PC] /\ res' \in [Client -> {"none", "ok", "error"}]
      BY <2>3 DEF WalkEnds, UnlockFile
    <3>2. fl' \in [Client -> {"none", "sh", "ex"}]
      BY <2>3 DEF WalkEnds, UnlockFile
    <3>3. UNCHANGED <<dirs, files, mu, op, todo, got, before, saves, calls>>
      BY <2>3 DEF WalkEnds, UnlockFile
    <3> QED
      BY <3>1, <3>2, <3>3
  <2> QED
    BY <1>14, <2>1, <2>2, <2>3
<1>15. ASSUME NEW p \in Process, Crash(p) PROVE TypeOK'
  BY <1>15 DEF Crash
<1>16. ASSUME UNCHANGED vars PROVE TypeOK'
  BY <1>16 DEF vars
<1> QED
  BY <1>1, <1>2, <1>3, <1>4, <1>5, <1>6, <1>7, <1>8, <1>9, <1>10, <1>11, <1>12,
     <1>13, <1>14, <1>15, <1>16 DEF Next, Step

-----------------------------------------------------------------------------
(* The inductive invariant *)

\* An action that leaves the locks alone and keeps its client on the same
\* side of them.
LEMMA LocksKept ==
  ASSUME TypeOK, StoreInv, NEW c \in Client, NEW l \in Working \cup {"unlock"},
         pc[c] \in Working, pc' = [pc EXCEPT ![c] = l], UNCHANGED <<mu, fl, op>>
  PROVE  \A d \in Client : LocksOf(d)'
BY DEF TypeOK, StoreInv, LocksOf, Working, Saving, Reading

\* Every action keeps the lock discipline: only LockFile takes the file lock,
\* and only if the others' holds allow it.
LEMMA LocksStep == TypeOK /\ StoreInv /\ [Next]_vars => \A d \in Client : LocksOf(d)'
<1> SUFFICES ASSUME TypeOK, StoreInv, [Next]_vars PROVE \A d \in Client : LocksOf(d)'
  OBVIOUS
<1> USE DEF Goto, Return, Leave, disk, locks, call, count, Working, Saving, Reading
<1>1. ASSUME NEW c \in Client, Call(c) PROVE \A d \in Client : LocksOf(d)'
  <2>1. fl[c] = "none" /\ UNCHANGED <<mu, fl>> /\ pc' = [pc EXCEPT ![c] = "mutex"]
    BY <1>1 DEF Call, StoreInv, LocksOf
  <2>2. \A d \in Client \ {c} : op'[d] = op[d]
    BY <1>1 DEF Call, TypeOK
  <2> QED
    BY <1>1, <2>1, <2>2 DEF Call, TypeOK, StoreInv, LocksOf
<1>2. ASSUME NEW c \in Client, LockMutex(c) PROVE \A d \in Client : LocksOf(d)'
  BY <1>2 DEF LockMutex, TypeOK, StoreInv, LocksOf
<1>3. ASSUME NEW c \in Client, LockFile(c) PROVE \A d \in Client : LocksOf(d)'
  <2>1. PICK l \in {"prompt", "clear", "readmeta", "walk"} : pc' = [pc EXCEPT ![c] = l]
    BY <1>3, FirstPoint
  <2> QED
    BY <1>3, <2>1 DEF LockFile, TypeOK, StoreInv, LocksOf
<1>4. ASSUME NEW c \in Client, LockFileFails(c) \/ UnlockMutex(c)
      PROVE \A d \in Client : LocksOf(d)'
  <2>1. fl[c] = "none" /\ UNCHANGED fl /\ Leave(c)
    BY <1>4 DEF LockFileFails, UnlockMutex, StoreInv, LocksOf
  <2> QED
    BY <2>1 DEF TypeOK, StoreInv, LocksOf
<1>5. ASSUME NEW c \in Client, PromptForKeys(c) \/ RemoveOrMkdirFails(c) \/ WriteFails(c)
      PROVE \A d \in Client : LocksOf(d)'
  BY <1>5, LocksKept DEF PromptForKeys, RemoveOrMkdirFails, WriteFails
<1>6. ASSUME NEW c \in Client, RemoveFile(c) \/ WalkDir(c) \/ SkipDir(c)
      PROVE \A d \in Client : LocksOf(d)'
  <2>1. UNCHANGED <<pc, mu, fl, op>>
    BY <1>6 DEF RemoveFile, WalkDir, SkipDir
  <2> QED
    BY <2>1 DEF StoreInv, LocksOf
<1>7. ASSUME NEW c \in Client, RemoveDir(c) \/ MakeDir(c) \/ WriteMetadata(c)
      PROVE \A d \in Client : LocksOf(d)'
  BY <1>7, LocksKept DEF RemoveDir, MakeDir, WriteMetadata
<1>8. ASSUME NEW c \in Client, WriteSecret(c) PROVE \A d \in Client : LocksOf(d)'
  <2>1. CASE UNCHANGED pc
    BY <1>8, <2>1 DEF WriteSecret, StoreInv, LocksOf
  <2>2. CASE pc' = [pc EXCEPT ![c] = "unlock"]
    BY <1>8, <2>2, LocksKept DEF WriteSecret
  <2> QED
    BY <1>8, <2>1, <2>2 DEF WriteSecret
<1>9. ASSUME NEW c \in Client,
             ReadMetadata(c) \/ ReadSecrets(c) \/ WalkAborts(c) \/ WalkEnds(c)
      PROVE \A d \in Client : LocksOf(d)'
  <2>1. PICK l \in {"readsecrets", "unlock"} : pc' = [pc EXCEPT ![c] = l]
    BY <1>9 DEF ReadMetadata, ReadSecrets, WalkAborts, WalkEnds
  <2>2. pc[c] \in Working /\ UNCHANGED <<mu, fl, op>>
    BY <1>9 DEF ReadMetadata, ReadSecrets, WalkAborts, WalkEnds
  <2> QED
    BY <2>1, <2>2, LocksKept
<1>10. ASSUME NEW c \in Client, UnlockFile(c) PROVE \A d \in Client : LocksOf(d)'
  BY <1>10 DEF UnlockFile, TypeOK, StoreInv, LocksOf
<1>11. ASSUME NEW p \in Process, Crash(p) PROVE \A d \in Client : LocksOf(d)'
  BY <1>11 DEF Crash, TypeOK, StoreInv, LocksOf
<1>12. ASSUME UNCHANGED vars PROVE \A d \in Client : LocksOf(d)'
  BY <1>12 DEF vars, StoreInv, LocksOf
<1> QED
  BY <1>1, <1>2, <1>3, <1>4, <1>5, <1>6, <1>7, <1>8, <1>9, <1>10, <1>11, <1>12
     DEF Next, Step

\* A step from one point of a call to the next, or to its end.
LEMMA CallKept ==
  ASSUME TypeOK, StoreInv, NEW c \in Client, NEW l \in PC, pc[c] \notin {"idle", "dead", "unlock"},
         pc' = [pc EXCEPT ![c] = l], UNCHANGED op, \A d \in Client \ {c} : res'[d] = res[d],
         \/ l = "unlock"
         \/ /\ res'[c] = res[c]
            /\ \/ l \in Saving \cup {"clear"} /\ op[c].kind = "save"
               \/ l = "readsecrets" /\ op[c].kind = "get"
  PROVE  \A d \in Client : CallOf(d)'
BY DEF TypeOK, StoreInv, CallOf, Saving, Writes

\* Every action keeps the program points and the operation together.
LEMMA CallStep == TypeOK /\ StoreInv /\ [Next]_vars => \A d \in Client : CallOf(d)'
<1> SUFFICES ASSUME TypeOK, StoreInv, [Next]_vars PROVE \A d \in Client : CallOf(d)'
  OBVIOUS
<1> USE DEF Goto, Return, Leave, disk, locks, call, count, Saving, Writes
<1>1. ASSUME NEW c \in Client, Call(c) PROVE \A d \in Client : CallOf(d)'
  <2>1. ASSUME saves < MaxSaves PROVE saves + 1 \in Version
    BY <2>1 DEF Version, TypeOK
  <2>2. /\ op'[c].kind \in {"save", "delete", "get"} => op'[c].id \in ID
        /\ op'[c].kind \in {"filter", "metadata"} => op'[c].id = NoID
        /\ op'[c].kind = "save" => op'[c].ver \in Version
        /\ \A d \in Client \ {c} : op'[d] = op[d]
    BY <1>1, <2>1 DEF Call, TypeOK
  <2>3. pc' = [pc EXCEPT ![c] = "mutex"] /\ UNCHANGED res /\ pc[c] = "idle"
    BY <1>1 DEF Call
  <2> QED
    BY <2>2, <2>3 DEF TypeOK, StoreInv, CallOf
<1>2. ASSUME NEW c \in Client, LockMutex(c) PROVE \A d \in Client : CallOf(d)'
  BY <1>2 DEF LockMutex, TypeOK, StoreInv, CallOf
<1>3. ASSUME NEW c \in Client, LockFile(c) PROVE \A d \in Client : CallOf(d)'
  <2>1. PICK l \in {"prompt", "clear", "readmeta", "walk"} :
          /\ pc' = [pc EXCEPT ![c] = l]
          /\ op[c].kind = "save" <=> l = "prompt"
          /\ op[c].kind = "delete" <=> l = "clear"
          /\ op[c].kind = "get" <=> l = "readmeta"
          /\ op[c].kind \in {"filter", "metadata"} <=> l = "walk"
    BY <1>3, FirstPoint
  <2> QED
    BY <1>3, <2>1 DEF LockFile, TypeOK, StoreInv, CallOf
<1>4. ASSUME NEW c \in Client, LockFileFails(c) \/ UnlockMutex(c)
      PROVE \A d \in Client : CallOf(d)'
  <2>1. /\ op'[c] = NoOp /\ res'[c] = "none" /\ pc'[c] = "idle"
        /\ \A d \in Client \ {c} : op'[d] = op[d] /\ res'[d] = res[d] /\ pc'[d] = pc[d]
    BY <1>4 DEF LockFileFails, UnlockMutex, TypeOK
  <2>2. CallOf(c)'
    BY <2>1 DEF CallOf
  <2>3. ASSUME NEW d \in Client \ {c} PROVE CallOf(d)'
    BY <2>1, <2>3 DEF CallOf, StoreInv
  <2> QED
    BY <2>2, <2>3
<1>5. ASSUME NEW c \in Client, PromptForKeys(c) PROVE \A d \in Client : CallOf(d)'
  <2>1. op[c].kind = "save" /\ UNCHANGED op
    BY <1>5 DEF PromptForKeys, StoreInv, CallOf
  <2>2. \A d \in Client \ {c} : res'[d] = res[d]
    BY <1>5 DEF PromptForKeys, TypeOK
  <2> QED
    BY <1>5, <2>1, <2>2, CallKept DEF PromptForKeys, PC
<1>6. ASSUME NEW c \in Client, RemoveOrMkdirFails(c) \/ WriteFails(c)
      PROVE \A d \in Client : CallOf(d)'
  <2>1. CASE RemoveOrMkdirFails(c)
    BY <2>1, CallKept DEF RemoveOrMkdirFails, TypeOK, PC
  <2>2. CASE WriteFails(c)
    <3>1. op[c].kind = "save"
      BY <2>2 DEF WriteFails, StoreInv, CallOf
    <3> QED
      BY <2>2, <3>1, CallKept DEF WriteFails, PC
  <2> QED
    BY <1>6, <2>1, <2>2
<1>7. ASSUME NEW c \in Client, RemoveFile(c) \/ WalkDir(c) \/ SkipDir(c) \/ UnlockFile(c)
      PROVE \A d \in Client : CallOf(d)'
  <2>1. UNCHANGED <<pc, op, res>>
    BY <1>7 DEF RemoveFile, WalkDir, SkipDir, UnlockFile
  <2> QED
    BY <2>1 DEF StoreInv, CallOf
<1>8. ASSUME NEW c \in Client, RemoveDir(c) PROVE \A d \in Client : CallOf(d)'
  <2>1. UNCHANGED op /\ pc[c] \in {"clear", "cleanup"} /\ \A d \in Client \ {c} : res'[d] = res[d]
    BY <1>8 DEF RemoveDir, TypeOK
  <2> QED
    BY <1>8, <2>1, CallKept DEF RemoveDir, PC
<1>9. ASSUME NEW c \in Client, MakeDir(c) \/ WriteMetadata(c)
      PROVE \A d \in Client : CallOf(d)'
  <2>1. op[c].kind = "save"
    BY <1>9 DEF MakeDir, WriteMetadata, StoreInv, CallOf
  <2> QED
    BY <1>9, <2>1, CallKept DEF MakeDir, WriteMetadata, PC
<1>10. ASSUME NEW c \in Client, WriteSecret(c) PROVE \A d \in Client : CallOf(d)'
  <2>1. \/ UNCHANGED <<pc, res>>
        \/ Return(c, "ok")
    BY <1>10 DEF WriteSecret
  <2> QED
    BY <1>10, <2>1 DEF WriteSecret, TypeOK, StoreInv, CallOf
<1>11. ASSUME NEW c \in Client, ReadMetadata(c) PROVE \A d \in Client : CallOf(d)'
  <2>1. op[c].kind = "get" /\ UNCHANGED op
    BY <1>11 DEF ReadMetadata, StoreInv, CallOf
  <2>2. \A d \in Client \ {c} : res'[d] = res[d]
    BY <1>11 DEF ReadMetadata, TypeOK
  <2> QED
    BY <1>11, <2>1, <2>2, CallKept DEF ReadMetadata, PC
<1>12. ASSUME NEW c \in Client, ReadSecrets(c) \/ WalkAborts(c) \/ WalkEnds(c)
       PROVE \A d \in Client : CallOf(d)'
  <2>1. UNCHANGED op /\ pc' = [pc EXCEPT ![c] = "unlock"] /\ pc[c] \notin {"idle", "dead"}
    BY <1>12 DEF ReadSecrets, WalkAborts, WalkEnds
  <2>2. \A d \in Client \ {c} : res'[d] = res[d]
    BY <1>12 DEF ReadSecrets, WalkAborts, WalkEnds, TypeOK
  <2> QED
    BY <2>1, <2>2 DEF TypeOK, StoreInv, CallOf
<1>13. ASSUME NEW p \in Process, Crash(p) PROVE \A d \in Client : CallOf(d)'
  BY <1>13 DEF Crash, TypeOK, StoreInv, CallOf
<1>14. ASSUME UNCHANGED vars PROVE \A d \in Client : CallOf(d)'
  BY <1>14 DEF vars, StoreInv, CallOf
<1> QED
  BY <1>1, <1>2, <1>3, <1>4, <1>5, <1>6, <1>7, <1>8, <1>9, <1>10, <1>11, <1>12,
     <1>13, <1>14 DEF Next, Step

\* What the actions of a client are, in groups: those that work on the disk
\* and those that do not.
Act(c)  == Call(c) \/ Step(c) \/ LockFileFails(c) \/ RemoveOrMkdirFails(c) \/ WriteFails(c)
Same(d) == /\ pc'[d] = pc[d] /\ op'[d] = op[d] /\ todo'[d] = todo[d] /\ got'[d] = got[d]
           /\ res'[d] = res[d] /\ before'[d] = before[d] /\ fl'[d] = fl[d] /\ mu'[d] = mu[d]

\* A client changes its own variables only, and the disk only under the
\* exclusive file lock, in the directory of its operation.
LEMMA ActionIsLocal ==
  ASSUME TypeOK, StoreInv, NEW c \in Client, Act(c)
  PROVE  /\ \A d \in Client \ {c} : Same(d)
         /\ UNCHANGED <<dirs, files>> \/ (fl[c] = "ex" /\ pc[c] \in Working)
<1> USE DEF TypeOK, Goto, Return, Leave, disk, locks, call, count, Same
<1> DEFINE Goal == /\ \A d \in Client \ {c} : Same(d)
                   /\ UNCHANGED <<dirs, files>> \/ (fl[c] = "ex" /\ pc[c] \in Working)
<1>0. pc[c] \in Saving \cup {"clear"} => fl[c] = "ex" /\ pc[c] \in Working
  BY DEF StoreInv, LocksOf, CallOf, Saving, Working, Writes
<1>1. CASE Call(c)
  BY <1>1 DEF Call
<1>2. CASE LockMutex(c) \/ UnlockFile(c)
  BY <1>2 DEF LockMutex, UnlockFile
<1>3. CASE LockFile(c)
  <2>1. PICK l \in {"prompt", "clear", "readmeta", "walk"} : pc' = [pc EXCEPT ![c] = l]
    BY <1>3, FirstPoint
  <2>2. \A d \in Client \ {c} : todo'[d] = todo[d]
    BY <1>3 DEF LockFile
  <2> QED
    BY <1>3, <2>1, <2>2 DEF LockFile
<1>4. CASE LockFileFails(c) \/ UnlockMutex(c)
  BY <1>4 DEF LockFileFails, UnlockMutex
<1>5. CASE PromptForKeys(c) \/ RemoveOrMkdirFails(c) \/ WriteFails(c)
  BY <1>5 DEF PromptForKeys, RemoveOrMkdirFails, WriteFails
<1>6. CASE RemoveFile(c) \/ MakeDir(c) \/ WriteMetadata(c)
  BY <1>0, <1>6 DEF RemoveFile, MakeDir, WriteMetadata, Saving
<1>7. CASE RemoveDir(c)
  BY <1>0, <1>7 DEF RemoveDir, Saving
<1>8. CASE WriteSecret(c)
  <2>1. \A d \in Client \ {c} : pc'[d] = pc[d] /\ res'[d] = res[d] /\ todo'[d] = todo[d]
    BY <1>8 DEF WriteSecret
  <2> QED
    BY <1>0, <1>8, <2>1 DEF WriteSecret, Saving
<1>9. CASE ReadMetadata(c)
  BY <1>9 DEF ReadMetadata
<1>10. CASE ReadSecrets(c)
  BY <1>10 DEF ReadSecrets
<1>11. CASE WalkDir(c)
  <2>1. \A d \in Client \ {c} : got'[d] = got[d] /\ todo'[d] = todo[d]
    BY <1>11 DEF WalkDir
  <2> QED
    BY <1>11, <2>1 DEF WalkDir
<1>12. CASE SkipDir(c)
  <2>1. \A d \in Client \ {c} : todo'[d] = todo[d]
    BY <1>12 DEF SkipDir
  <2> QED
    BY <1>12, <2>1 DEF SkipDir
<1>13. CASE WalkAborts(c) \/ WalkEnds(c)
  BY <1>13 DEF WalkAborts, WalkEnds
<1> QED
  BY <1>1, <1>2, <1>3, <1>4, <1>5, <1>6, <1>7, <1>8, <1>9, <1>10, <1>11, <1>12, <1>13
     DEF Act, Step

\* The other clients do not notice: one that works has the file lock, so the
\* disk does not change under it.
LEMMA OthersKept ==
  ASSUME TypeOK, StoreInv, NEW c \in Client, Act(c), NEW d \in Client \ {c}
  PROVE  StageOf(d)' /\ ReadOf(d)'
<1>1. Same(d)
  BY ActionIsLocal
<1>2. CASE UNCHANGED <<dirs, files>>
  BY <1>1, <1>2 DEF Same, StoreInv, StageOf, ReadOf, Restorable
<1>3. CASE fl[c] = "ex"
  <2>1. fl[d] = "none" /\ pc[d] \notin Working
    BY <1>3 DEF StoreInv, LocksOf, Writes
  <2> QED
    BY <1>1, <2>1 DEF Same, StoreInv, StageOf, ReadOf, Working, Saving, Reading
<1> QED
  BY <1>2, <1>3, ActionIsLocal

\* Every action keeps what is known of a Save's directory and of what a read
\* has collected.
LEMMA StageStep ==
  TypeOK /\ StoreInv /\ NoMixedVersions /\ [Next]_vars =>
    \A d \in Client : StageOf(d)' /\ ReadOf(d)'
<1> SUFFICES ASSUME TypeOK, StoreInv, NoMixedVersions, [Next]_vars
             PROVE  \A d \in Client : StageOf(d)' /\ ReadOf(d)'
  OBVIOUS
<1> USE DEF TypeOK, Goto, Return, Leave, disk, locks, call, count
<1>0. ASSUME NEW c \in Client, Act(c), StageOf(c)', ReadOf(c)'
      PROVE  \A d \in Client : StageOf(d)' /\ ReadOf(d)'
  BY <1>0, OthersKept
<1>1. ASSUME NEW c \in Client, Call(c) \/ LockMutex(c) PROVE StageOf(c)' /\ ReadOf(c)'
  <2>1. pc'[c] \in {"mutex", "flock"} /\ UNCHANGED got /\ pc[c] \in {"idle", "mutex"}
    BY <1>1 DEF Call, LockMutex
  <2>2. \A id \in ID : got'[c][id] = NoRead
    BY <2>1 DEF StoreInv, ReadOf
  <2> QED
    BY <2>1, <2>2 DEF StageOf, ReadOf
<1>2. ASSUME NEW c \in Client, LockFile(c) PROVE StageOf(c)' /\ ReadOf(c)'
  <2>1. PICK l \in {"prompt", "clear", "readmeta", "walk"} :
          /\ pc' = [pc EXCEPT ![c] = l]
          /\ op[c].kind = "save" <=> l = "prompt"
          /\ op[c].kind = "delete" <=> l = "clear"
          /\ op[c].kind = "get" <=> l = "readmeta"
          /\ op[c].kind \in {"filter", "metadata"} <=> l = "walk"
    BY <1>2, FirstPoint
  <2>2. l # "walk" => op[c].id # NoID
    <3>1. op[c].kind \in {"save", "delete", "get"} => op[c].id \in ID
      BY <1>2 DEF LockFile, StoreInv, CallOf
    <3> QED
      BY <2>1, <3>1
  <2>3. l = "walk" => op[c].id = NoID
    BY <1>2, <2>1 DEF LockFile, StoreInv, CallOf
  <2>4. /\ l # "walk" => todo'[c] = KeyType
        /\ l = "walk" => todo'[c] \subseteq dirs
    BY <1>2, <2>2, <2>3 DEF LockFile
  <2>5. \A id \in ID : got'[c][id] = NoRead
    BY <1>2 DEF LockFile, StoreInv, ReadOf
  <2>6. UNCHANGED <<dirs, files, op>>
    BY <1>2 DEF LockFile
  <2> QED
    BY <2>1, <2>4, <2>5, <2>6 DEF StageOf, ReadOf
<1>3. ASSUME NEW c \in Client, LockFileFails(c) \/ UnlockMutex(c) PROVE StageOf(c)' /\ ReadOf(c)'
  BY <1>3 DEF LockFileFails, UnlockMutex, StageOf, ReadOf
<1>4. ASSUME NEW c \in Client, PromptForKeys(c) PROVE StageOf(c)' /\ ReadOf(c)'
  <2>1. pc[c] = "prompt" /\ UNCHANGED <<dirs, files, op, todo, got>>
    BY <1>4 DEF PromptForKeys
  <2>2. todo[c] = KeyType /\ \A id \in ID : got[c][id] = NoRead
    BY <2>1 DEF StoreInv, StageOf, ReadOf
  <2>3. \/ pc'[c] \in {"clear", "unlock"}
        \/ pc'[c] = "mkdir" /\ op[c].id \notin dirs
    BY <1>4 DEF PromptForKeys
  <2> QED
    BY <2>1, <2>2, <2>3 DEF StageOf, ReadOf
<1>5. ASSUME NEW c \in Client, pc'[c] = "unlock" PROVE StageOf(c)' /\ ReadOf(c)'
  BY <1>5 DEF StageOf, ReadOf
<1>6. ASSUME NEW c \in Client, RemoveFile(c) PROVE StageOf(c)' /\ ReadOf(c)'
  BY <1>6 DEF RemoveFile, StoreInv, StageOf, ReadOf
<1>7. ASSUME NEW c \in Client, RemoveDir(c) PROVE StageOf(c)' /\ ReadOf(c)'
  <2>1. CASE pc'[c] = "unlock"
    BY <1>5, <2>1
  <2>2. CASE pc'[c] = "mkdir"
    <3>1. pc[c] = "clear" /\ op'[c].id \notin dirs' /\ UNCHANGED <<todo, got>>
      BY <1>7, <2>2 DEF RemoveDir
    <3>2. todo'[c] = KeyType /\ \A id \in ID : got'[c][id] = NoRead
      BY <3>1 DEF StoreInv, StageOf, ReadOf
    <3> QED
      BY <2>2, <3>1, <3>2 DEF StageOf, ReadOf
  <2> QED
    BY <1>7, <2>1, <2>2 DEF RemoveDir
<1>8. ASSUME NEW c \in Client, WriteFails(c) PROVE StageOf(c)' /\ ReadOf(c)'
  BY <1>8 DEF WriteFails, StoreInv, StageOf, ReadOf
<1>9. ASSUME NEW c \in Client, MakeDir(c) PROVE StageOf(c)' /\ ReadOf(c)'
  <2>1. op[c].id \in ID \ dirs
    BY <1>9 DEF MakeDir, StoreInv, CallOf, StageOf, Saving
  <2> QED
    BY <1>9, <2>1 DEF MakeDir, StoreInv, StageOf, ReadOf
<1>10. ASSUME NEW c \in Client, WriteMetadata(c) PROVE StageOf(c)' /\ ReadOf(c)'
  <2>1. op[c].id \in ID /\ op[c].id \in dirs /\ files[op[c].id] = NoFiles /\ todo[c] = KeyType
    BY <1>10 DEF WriteMetadata, StoreInv, CallOf, StageOf, Saving
  <2>2. \A f \in File : files'[op[c].id][f] = IF f = "meta" THEN op[c].ver ELSE Absent
    BY <1>10, <2>1 DEF WriteMetadata, NoFiles
  <2>3. StageOf(c)'
    BY <1>10, <2>1, <2>2 DEF WriteMetadata, StageOf, File
  <2> QED
    BY <1>10, <2>3 DEF WriteMetadata, StoreInv, ReadOf
<1>11. ASSUME NEW c \in Client, WriteSecret(c) PROVE StageOf(c)' /\ ReadOf(c)'
  <2>1. CASE pc'[c] = "unlock"
    BY <1>5, <2>1
  <2>2. CASE UNCHANGED <<pc, res>>
    <3>1. PICK k \in todo[c] : /\ files' = [files EXCEPT ![op[c].id][k] = op[c].ver]
                               /\ todo' = [todo EXCEPT ![c] = @ \ {k}]
      BY <1>11 DEF WriteSecret
    <3>2. op[c].id \in ID /\ op[c].id \in dirs /\ todo[c] \subseteq KeyType /\ pc[c] = "secrets"
      BY <1>11 DEF WriteSecret, StoreInv, CallOf, StageOf, Saving
    <3>3. \A f \in File : files[op[c].id][f] = IF f \in todo[c] THEN Absent ELSE op[c].ver
      BY <3>2 DEF StoreInv, StageOf
    <3>4. \A f \in File : files'[op[c].id][f] = IF f \in todo'[c] THEN Absent ELSE op[c].ver
      BY <3>1, <3>2, <3>3
    <3>5. UNCHANGED <<op, dirs, got>> /\ todo'[c] \subseteq KeyType
      BY <1>11, <3>1, <3>2 DEF WriteSecret
    <3> QED
      BY <2>2, <3>2, <3>4, <3>5 DEF StoreInv, StageOf, ReadOf
  <2> QED
    BY <1>11, <2>1, <2>2 DEF WriteSecret
<1>12. ASSUME NEW c \in Client, ReadMetadata(c) PROVE StageOf(c)' /\ ReadOf(c)'
  <2>1. CASE pc'[c] = "unlock"
    BY <1>5, <2>1
  <2>2. CASE pc'[c] = "readsecrets"
    <3>1. op[c].id \in ID /\ Restorable(op[c].id)
      BY <1>12, <2>2 DEF ReadMetadata, StoreInv, CallOf
    <3>2. got' = [got EXCEPT ![c][op[c].id].meta = files[op[c].id]["meta"]]
      BY <1>12, <2>2 DEF ReadMetadata
    <3>3. \A id \in ID : got[c][id] = NoRead
      BY <1>12 DEF ReadMetadata, StoreInv, ReadOf
    <3>4. /\ got'[c][op[c].id].meta = files[op[c].id]["meta"]
          /\ \A id \in ID \ {op[c].id} : got'[c][id] = NoRead
      BY <3>1, <3>2, <3>3
    <3>5. UNCHANGED <<dirs, files, op>>
      BY <1>12 DEF ReadMetadata
    <3> QED
      BY <2>2, <3>1, <3>4, <3>5 DEF StageOf, ReadOf, Restorable
  <2> QED
    BY <1>12, <2>1, <2>2 DEF ReadMetadata
<1>13. ASSUME NEW c \in Client, SkipDir(c) PROVE StageOf(c)' /\ ReadOf(c)'
  <2>1. todo'[c] \subseteq todo[c] /\ UNCHANGED <<pc, dirs, files, op, got>> /\ pc[c] = "walk"
    BY <1>13 DEF SkipDir
  <2> QED
    BY <2>1 DEF StoreInv, StageOf, ReadOf, Restorable
<1>14. ASSUME NEW c \in Client, WalkDir(c) PROVE StageOf(c)' /\ ReadOf(c)'
  <2>1. PICK id \in todo[c] :
          /\ Restorable(id)
          /\ \/ /\ op[c].kind = "metadata"
                /\ got' = [got EXCEPT ![c][id].meta = files[id]["meta"]]
             \/ /\ op[c].kind = "filter"
                /\ \E fits \in KeyAnswers, readable \in ReadableFiles(id) :
                     LET s == DecryptSecret(readable, fits)
                     IN  /\ s # Absent
                         /\ got' = [got EXCEPT ![c][id] = [meta |-> readable["meta"], secret |-> s]]
          /\ todo' = [todo EXCEPT ![c] = @ \ {id}]
    BY <1>14 DEF WalkDir
  <2>2. id \in ID
    BY <2>1 DEF Restorable
  <2>3. UNCHANGED <<pc, dirs, files, op>> /\ pc[c] = "walk"
    BY <1>14 DEF WalkDir
  <2>4. \A i \in ID \ {id} : got'[c][i] = got[c][i]
    BY <2>1, <2>2
  <2>5. got'[c][id].meta = files[id]["meta"]
    BY <2>1, <2>2, ReadableIsOnDisk
  <2>6. op[c].kind = "filter" => got'[c][id].secret = files[id]["meta"]
    <3>1. SUFFICES ASSUME op[c].kind = "filter" PROVE got'[c][id].secret = files[id]["meta"]
      OBVIOUS
    <3>2. PICK fits \in KeyAnswers, readable \in ReadableFiles(id) :
            /\ DecryptSecret(readable, fits) # Absent
            /\ got' = [got EXCEPT ![c][id] = [meta |-> readable["meta"],
                                              secret |-> DecryptSecret(readable, fits)]]
      BY <2>1, <3>1
    <3>3. PICK k \in KeyType : DecryptSecret(readable, fits) = files[id][k]
      BY <2>2, <3>2, DecryptedIsOnDisk
    <3>4. DecryptSecret(readable, fits) = files[id]["meta"]
      BY <2>1, <2>2, <3>2, <3>3 DEF NoMixedVersions, Restorable, File
    <3> QED
      BY <2>2, <3>2, <3>4
  <2>7. todo'[c] \subseteq todo[c]
    BY <2>1
  <2> QED
    BY <2>1, <2>2, <2>3, <2>4, <2>5, <2>6, <2>7 DEF StoreInv, StageOf, ReadOf, Restorable
<1>15. ASSUME NEW c \in Client, UnlockFile(c) PROVE StageOf(c)' /\ ReadOf(c)'
  BY <1>15 DEF UnlockFile, StageOf, ReadOf
<1>16. ASSUME NEW c \in Client,
              RemoveOrMkdirFails(c) \/ ReadSecrets(c) \/ WalkAborts(c) \/ WalkEnds(c)
       PROVE  pc'[c] = "unlock"
  BY <1>16 DEF RemoveOrMkdirFails, ReadSecrets, WalkAborts, WalkEnds
<1>17. ASSUME NEW p \in Process, Crash(p) PROVE \A d \in Client : StageOf(d)' /\ ReadOf(d)'
  BY <1>17 DEF Crash, StoreInv, StageOf, ReadOf, Restorable
<1>18. ASSUME UNCHANGED vars PROVE \A d \in Client : StageOf(d)' /\ ReadOf(d)'
  BY <1>18 DEF vars, StoreInv, StageOf, ReadOf, Restorable
<1>19. ASSUME NEW c \in Client, Act(c) PROVE StageOf(c)' /\ ReadOf(c)'
  BY <1>1, <1>2, <1>3, <1>4, <1>5, <1>6, <1>7, <1>8, <1>9, <1>10, <1>11, <1>12,
     <1>13, <1>14, <1>15, <1>16, <1>19 DEF Act, Step
<1> QED
  BY <1>0, <1>17, <1>18, <1>19 DEF Next, Act

\* No action mixes versions: a Save writes only into a directory that holds
\* nothing but its own files.
LEMMA MixedStep == TypeOK /\ StoreInv /\ NoMixedVersions /\ [Next]_vars => NoMixedVersions'
<1> SUFFICES ASSUME TypeOK, StoreInv, NoMixedVersions, [Next]_vars PROVE NoMixedVersions'
  OBVIOUS
<1>1. ASSUME NEW c \in Client, RemoveFile(c) PROVE NoMixedVersions'
  <2>1. PICK f \in File : files' = [files EXCEPT ![op[c].id][f] = Absent]
    BY <1>1 DEF RemoveFile
  <2>2. \A id \in ID, g \in File : files'[id][g] \in {files[id][g], Absent}
    BY <2>1 DEF TypeOK
  <2> QED
    BY <2>2 DEF NoMixedVersions
<1>2. ASSUME NEW c \in Client, NEW k \in File, op[c].id \in ID,
             files' = [files EXCEPT ![op[c].id][k] = op[c].ver],
             \A f \in File : files[op[c].id][f] \in {Absent, op[c].ver}
      PROVE NoMixedVersions'
  <2>1. \A id \in ID \ {op[c].id} : files'[id] = files[id]
    BY <1>2 DEF TypeOK
  <2>2. \A f \in File : files'[op[c].id][f] \in {Absent, op[c].ver}
    BY <1>2 DEF TypeOK
  <2> QED
    BY <2>1, <2>2 DEF NoMixedVersions
<1>3. ASSUME NEW c \in Client, WriteMetadata(c) PROVE NoMixedVersions'
  <2>1. op[c].id \in ID /\ files[op[c].id] = NoFiles
    BY <1>3 DEF WriteMetadata, StoreInv, CallOf, StageOf, Saving
  <2> QED
    BY <1>2, <1>3, <2>1 DEF WriteMetadata, NoFiles, File
<1>4. ASSUME NEW c \in Client, WriteSecret(c) PROVE NoMixedVersions'
  <2>1. PICK k \in todo[c] : files' = [files EXCEPT ![op[c].id][k] = op[c].ver]
    BY <1>4 DEF WriteSecret
  <2>2. op[c].id \in ID /\ todo[c] \subseteq KeyType
    BY <1>4 DEF WriteSecret, StoreInv, CallOf, StageOf, Saving
  <2>3. \A f \in File : files[op[c].id][f] \in {Absent, op[c].ver}
    BY <1>4 DEF WriteSecret, StoreInv, StageOf
  <2> QED
    BY <1>2, <2>1, <2>2, <2>3 DEF File
<1>5. ASSUME UNCHANGED files PROVE NoMixedVersions'
  BY <1>5 DEF NoMixedVersions
<1>6. ASSUME NEW c \in Client, Act(c), ~RemoveFile(c), ~WriteMetadata(c), ~WriteSecret(c)
      PROVE  UNCHANGED files
  BY <1>6 DEF Act, Step, Call, LockMutex, LockFile, LockFileFails, PromptForKeys, RemoveDir,
       RemoveOrMkdirFails, MakeDir, WriteFails, ReadMetadata, ReadSecrets, WalkDir, SkipDir,
       WalkAborts, WalkEnds, UnlockFile, UnlockMutex, disk
<1>7. ASSUME NEW p \in Process, Crash(p) PROVE UNCHANGED files
  BY <1>7 DEF Crash, disk
<1> QED
  BY <1>1, <1>3, <1>4, <1>5, <1>6, <1>7 DEF Next, Act, vars

IInv == TypeOK /\ StoreInv /\ NoMixedVersions

\* The invariant holds before the first call.
LEMMA InvInit == Init => IInv
<1> SUFFICES ASSUME Init PROVE IInv
  OBVIOUS
<1>1. TypeOK
  BY DEF Init, TypeOK, PC, NoOp, NoRead, NoFiles, Kind
<1>2. StoreInv
  BY DEF Init, StoreInv, LocksOf, CallOf, StageOf, ReadOf, NoOp, Writes, Working, Saving, Reading
<1>3. NoMixedVersions
  BY DEF Init, NoMixedVersions, NoFiles
<1> QED
  BY <1>1, <1>2, <1>3 DEF IInv

\* Every step of a client and every crash keeps the invariant.
LEMMA InvStep == IInv /\ [Next]_vars => IInv'
<1> SUFFICES ASSUME IInv, [Next]_vars PROVE IInv'
  OBVIOUS
<1>1. TypeOK'
  BY TypeStep DEF IInv
<1>2. StoreInv'
  BY LocksStep, CallStep, StageStep DEF IInv, StoreInv
<1>3. NoMixedVersions'
  BY MixedStep DEF IInv
<1> QED
  BY <1>1, <1>2, <1>3 DEF IInv

\* The types are an invariant, with the one that matters for Persist: files
\* are only ever in a directory that is there.
THEOREM TypeCorrect == Spec => []TypeOK
<1>1. IInv => TypeOK
  BY DEF IInv
<1> QED
  BY <1>1, InvInit, InvStep, PTL DEF Spec

\* A credential directory never mixes files of two Saves (Persist), whatever
\* process died and whatever call failed at any earlier point.
THEOREM VersionsNeverMix == Spec => []NoMixedVersions
<1>1. IInv => NoMixedVersions
  BY DEF IInv
<1> QED
  BY <1>1, InvInit, InvStep, PTL DEF Spec

\* Every way out of an operation gives back the mutex and the file lock
\* (tryLock, tryRLock), and no client has the file lock without its mutex.
THEOREM LocksNeverLeak == Spec => []NoLockLeaks
<1>1. IInv => NoLockLeaks
  BY DEF IInv, StoreInv, LocksOf, NoLockLeaks
<1> QED
  BY <1>1, InvInit, InvStep, PTL DEF Spec

-----------------------------------------------------------------------------
(* The store implements the abstract one *)

\* A client that works on the disk or reads it keeps its lock, its operation
\* and what it saw when it took the lock, and touches one directory only.
LEMMA WorkStep ==
  ASSUME IInv, NEW c \in Client, Act(c), pc[c] \in Working
  PROVE  /\ UNCHANGED <<fl, op, before>>
         /\ pc'[c] \in Working \cup {"unlock"}
         /\ \A id \in ID \ {op[c].id} : files'[id] = files[id] /\ (id \in dirs' <=> id \in dirs)
<1> USE DEF Goto, Return, disk, locks, call, count, IInv, TypeOK, Working, Saving, Reading
<1>1. CASE PromptForKeys(c) \/ RemoveOrMkdirFails(c) \/ WriteFails(c)
  BY <1>1 DEF PromptForKeys, RemoveOrMkdirFails, WriteFails
<1>2. CASE RemoveFile(c)
  BY <1>2 DEF RemoveFile
<1>3. CASE RemoveDir(c)
  BY <1>3 DEF RemoveDir
<1>4. CASE MakeDir(c) \/ WriteMetadata(c)
  BY <1>4 DEF MakeDir, WriteMetadata
<1>5. CASE WriteSecret(c)
  BY <1>5 DEF WriteSecret
<1>6. CASE ReadMetadata(c)
  BY <1>6 DEF ReadMetadata
<1>7. CASE ReadSecrets(c)
  BY <1>7 DEF ReadSecrets
<1>8. CASE WalkDir(c) \/ SkipDir(c)
  BY <1>8 DEF WalkDir, SkipDir
<1>9. CASE WalkAborts(c) \/ WalkEnds(c)
  BY <1>9 DEF WalkAborts, WalkEnds
<1> QED
  BY <1>1, <1>2, <1>3, <1>4, <1>5, <1>6, <1>7, <1>8, <1>9
     DEF Act, Step, Call, LockMutex, LockFile, LockFileFails, UnlockFile, UnlockMutex

\* Before it has the file lock and once it is leaving, a client leaves the
\* disk alone; it starts to write by taking the lock.
LEMMA RestStep ==
  ASSUME IInv, NEW c \in Client, Act(c), pc[c] \notin Working
  PROVE  /\ UNCHANGED <<dirs, files>>
         /\ \/ LockFile(c)
            \/ fl'[c] = "none"
<1> USE DEF Goto, Return, Leave, disk, locks, call, count, IInv, TypeOK, Working, Saving, Reading
<1>1. CASE Call(c) \/ LockMutex(c) \/ LockFileFails(c)
  BY <1>1 DEF Call, LockMutex, LockFileFails, StoreInv, LocksOf
<1>2. CASE UnlockFile(c) \/ UnlockMutex(c)
  BY <1>2 DEF UnlockFile, UnlockMutex
<1>3. CASE LockFile(c)
  BY <1>3 DEF LockFile
<1> QED
  BY <1>1, <1>2, <1>3 DEF Act, Step, PromptForKeys, RemoveOrMkdirFails, WriteFails, RemoveFile,
       RemoveDir, MakeDir, WriteMetadata, WriteSecret, ReadMetadata, ReadSecrets, WalkDir, SkipDir,
       WalkAborts, WalkEnds

\* One client at a time writes, so Visible is what that client saw.
LEMMA OneWriter ==
  ASSUME StoreInv, NEW c \in Client, NEW id \in ID, Writing(c, id)
  PROVE  Visible(id) = before[c][id] /\ \A d \in Client : Writing(d, id) => d = c
<1>1. \A d \in Client : Writing(d, id) => d = c
  BY DEF StoreInv, LocksOf, Writing
<1> QED
  BY <1>1 DEF Visible

\* After a step, what is visible of an ID with a writer is what the writer found.
LEMMA OneWriterPrimed ==
  ASSUME StoreInv', NEW c \in Client, NEW id \in ID, Writing(c, id)'
  PROVE  Visible(id)' = before'[c][id]
<1>1. \A d \in Client : Writing(d, id)' => d = c
  BY DEF StoreInv, LocksOf, Writing
<1> QED
  BY <1>1 DEF Visible

\* What a user sees has the type of an entry of the abstract map.
LEMMA VisibleType ==
  ASSUME IInv, NEW id \in ID
  PROVE  Visible(id) \in Version \cup {Absent, Torn}
<1>1. CASE \E c \in Client : Writing(c, id)
  <2>1. PICK c \in Client : Writing(c, id)
    BY <1>1
  <2> QED
    BY <2>1, OneWriter DEF IInv, TypeOK
<1>2. CASE ~\E c \in Client : Writing(c, id)
  BY <1>2, ValueType DEF Visible, IInv
<1> QED
  BY <1>1, <1>2

\* The credential in a directory is a matter of its files only.
LEMMA ValueKept ==
  ASSUME NEW id \in ID, files'[id] = files[id], id \in dirs' <=> id \in dirs
  PROVE  Value(id)' = Value(id)
BY DEF Value

\* A step of a client does not change what is seen of any directory, except
\* the last step of a write, which changes that of the operation's own.
LEMMA VisibleStep ==
  ASSUME IInv, IInv', NEW c \in Client, Act(c), NEW id \in ID,
         ~(Writing(c, id) /\ pc'[c] = "unlock")
  PROVE  Visible(id)' = Visible(id)
<1>0. \A d \in Client \ {c} : Same(d)
  BY ActionIsLocal DEF IInv
<1>1. CASE \E w \in Client \ {c} : Writing(w, id)
  <2>1. PICK w \in Client \ {c} : Writing(w, id)
    BY <1>1
  <2>2. Writing(w, id)' /\ before'[w] = before[w]
    BY <1>0, <2>1 DEF Same, Writing
  <2> QED
    BY <2>1, <2>2, OneWriter, OneWriterPrimed DEF IInv
<1>2. CASE Writing(c, id)
  <2>1. pc[c] \in Working
    <3>1. pc[c] \in PC
      BY DEF IInv, TypeOK
    <3>2. pc[c] \notin {"idle", "mutex", "flock", "dead", "unlock"}
      BY <1>2 DEF IInv, StoreInv, LocksOf, Writing
    <3> QED
      BY <3>1, <3>2 DEF PC, Working, Saving, Reading
  <2>2. Writing(c, id)' /\ before'[c] = before[c]
    BY <1>2, <2>1, WorkStep DEF Writing
  <2> QED
    BY <1>2, <2>2, OneWriter, OneWriterPrimed DEF IInv
<1>3. CASE ~\E w \in Client : Writing(w, id)
  <2>1. Visible(id) = Value(id)
    BY <1>3 DEF Visible
  <2>2. \A w \in Client \ {c} : ~Writing(w, id)'
    BY <1>0, <1>3 DEF Same, Writing
  <2>3. CASE pc[c] \in Working
    <3>1. ~Writing(c, id)'
      BY <1>3, <2>3, WorkStep DEF Writing, Working, Saving, Reading
    <3>2. Value(id)' = Value(id)
      <4>1. CASE id = op[c].id
        <5>1. fl[c] # "ex"
          BY <1>3, <2>3, <4>1 DEF Writing, Working, Saving, Reading
        <5> QED
          BY <5>1, ActionIsLocal, ValueKept DEF IInv
      <4>2. CASE id # op[c].id
        BY <2>3, <4>2, WorkStep, ValueKept
      <4> QED
        BY <4>1, <4>2
    <3> QED
      BY <2>1, <2>2, <3>1, <3>2 DEF Visible
  <2>4. CASE pc[c] \notin Working
    <3>1. Value(id)' = Value(id)
      BY <2>4, RestStep, ValueKept
    <3>2. CASE Writing(c, id)'
      <4>1. LockFile(c)
        BY <2>4, <3>2, RestStep DEF Writing
      <4>2. before'[c][id] = Value(id)
        BY <4>1 DEF LockFile, IInv, TypeOK
      <4> QED
        BY <2>1, <3>2, <4>2, OneWriterPrimed DEF IInv
    <3>3. CASE ~Writing(c, id)'
      BY <2>1, <2>2, <3>1, <3>3 DEF Visible
    <3> QED
      BY <3>2, <3>3
  <2> QED
    BY <2>3, <2>4
<1> QED
  BY <1>1, <1>2, <1>3

\* A reader's file lock keeps every writer away, so it sees the disk as it is.
LEMMA ReaderSeesDisk ==
  ASSUME IInv, NEW c \in Client, fl[c] = "sh", NEW id \in ID
  PROVE  Visible(id) = Value(id)
<1>1. ~\E w \in Client : Writing(w, id)
  BY DEF IInv, StoreInv, LocksOf, Writing
<1> QED
  BY <1>1 DEF Visible

\* What a read reports: entries whose metadata and secret are the version the
\* directory holds, or one of the files of a torn directory.
LEMMA ReadIsReported ==
  ASSUME IInv, NEW c \in Client, Act(c), pc[c] \in Working, res'[c] = "ok", ~Writes(op[c].kind)
  PROVE  \A t \in Answer(c)' :
           /\ t \in ID \X Version \X Version
           /\ t[2] = t[3]
           /\ Visible(t[1]) \in {t[2], Torn}
<1>0. /\ op' = op
      /\ pc[c] \in Reading
      /\ fl[c] = "sh"
      /\ res[c] = "none"
  <2>1. op' = op
    BY WorkStep
  <2>2. pc[c] \in Reading /\ res[c] = "none"
    BY DEF IInv, StoreInv, CallOf, Working, Saving, Reading, Writes
  <2>3. fl[c] = "sh"
    BY DEF IInv, StoreInv, LocksOf
  <2> QED
    BY <2>1, <2>2, <2>3
<1>1. \A id \in ID : Restorable(id) => /\ files[id]["meta"] \in Version
                                       /\ Visible(id) \in {files[id]["meta"], Torn}
  <2>1. \A id \in ID : Visible(id) = Value(id)
    BY <1>0, ReaderSeesDisk
  <2>2. \A id \in ID : files[id]["meta"] \in Version \cup {Absent}
    BY DEF IInv, TypeOK, File
  <2> QED
    BY <2>1, <2>2 DEF Restorable, Value
<1>2. SUFFICES ASSUME NEW id \in ID, got'[c][id] # NoRead
               PROVE  /\ Restorable(id)
                      /\ got'[c][id].meta = files[id]["meta"]
                      /\ op[c].kind # "metadata" => got'[c][id].secret = files[id]["meta"]
  BY <1>0, <1>1 DEF Answer
<1>3. CASE ReadSecrets(c)
  <2>1. op[c].id \in ID /\ op[c].kind = "get" /\ pc[c] = "readsecrets"
    BY <1>3 DEF ReadSecrets, IInv, StoreInv, CallOf
  <2>2. PICK fits \in KeyAnswers, readable \in ReadableFiles(op[c].id) :
          /\ got' = [got EXCEPT ![c][op[c].id].secret = DecryptSecret(readable, fits)]
          /\ Return(c, IF DecryptSecret(readable, fits) = Absent THEN "error" ELSE "ok")
    BY <1>3 DEF ReadSecrets
  <2>3. DecryptSecret(readable, fits) # Absent
    BY <2>2 DEF Return, IInv, TypeOK
  <2>4. PICK k \in KeyType : DecryptSecret(readable, fits) = files[op[c].id][k]
    BY <2>1, <2>3, DecryptedIsOnDisk DEF IInv
  <2>5. /\ Restorable(op[c].id)
        /\ got[c][op[c].id].meta = files[op[c].id]["meta"]
        /\ \A i \in ID \ {op[c].id} : got[c][i] = NoRead
    BY <2>1 DEF IInv, StoreInv, ReadOf
  <2>6. DecryptSecret(readable, fits) = files[op[c].id]["meta"]
    <3>1. files[op[c].id]["meta"] # Absent /\ files[op[c].id][k] # Absent
      BY <2>3, <2>4, <2>5 DEF Restorable
    <3>2. NoMixedVersions
      BY DEF IInv
    <3>3. files[op[c].id]["meta"] = files[op[c].id][k]
      BY <2>1, <3>1, <3>2 DEF NoMixedVersions, File
    <3> QED
      BY <2>4, <3>3
  <2>7. /\ got'[c][op[c].id].meta = got[c][op[c].id].meta
        /\ got'[c][op[c].id].secret = DecryptSecret(readable, fits)
        /\ \A i \in ID \ {op[c].id} : got'[c][i] = got[c][i]
    BY <2>1, <2>2 DEF IInv, TypeOK
  <2>8. id = op[c].id
    BY <1>2, <2>5, <2>7
  <2> QED
    BY <2>5, <2>6, <2>7, <2>8
<1>4. CASE WalkEnds(c)
  <2>1. UNCHANGED got /\ pc[c] = "walk" /\ op[c].kind \in {"filter", "metadata"}
    BY <1>4 DEF WalkEnds, IInv, StoreInv, CallOf
  <2> QED
    BY <1>2, <2>1 DEF IInv, StoreInv, ReadOf
<1>5. CASE ~ReadSecrets(c) /\ ~WalkEnds(c)
  <2>1. ReadMetadata(c) \/ WalkDir(c) \/ SkipDir(c) \/ WalkAborts(c)
    BY <1>0, <1>5 DEF Act, Step, Reading, Call, LockMutex, LockFile, LockFileFails, PromptForKeys,
         RemoveOrMkdirFails, WriteFails, RemoveFile, RemoveDir, MakeDir, WriteMetadata,
         WriteSecret, UnlockFile, UnlockMutex
  <2>2. res'[c] \in {"none", "error"}
    BY <1>0, <2>1 DEF ReadMetadata, WalkDir, SkipDir, WalkAborts, Return, IInv, TypeOK
  <2> QED
    BY <2>2
<1> QED
  BY <1>3, <1>4, <1>5

\* After a step a directory holds a version, nothing, or a torn credential.
LEMMA ValueTypePrimed ==
  ASSUME TypeOK', NEW id \in ID
  PROVE  Value(id)' \in Version \cup {Absent, Torn}
BY DEF Value, TypeOK, File

\* A writer is in the middle of a change.
LEMMA WritingWorks ==
  ASSUME IInv, NEW c \in Client, NEW id \in ID, Writing(c, id)
  PROVE  pc[c] \in Working /\ pc[c] # "idle" /\ Writes(op[c].kind)
<1>1. pc[c] \in PC
  BY DEF IInv, TypeOK
<1>2. pc[c] \notin {"idle", "mutex", "flock", "dead", "unlock"} /\ Writes(op[c].kind)
  BY DEF IInv, StoreInv, LocksOf, Writing
<1> QED
  BY <1>1, <1>2 DEF PC, Working, Saving, Reading

\* Outside its work a client's answer stays or is dropped.
LEMMA RestSilent ==
  ASSUME IInv, NEW c \in Client, Act(c), pc[c] \notin Working
  PROVE  UnlockFile(c) \/ res'[c] = "none"
<1> USE DEF Goto, Leave, call, Working, Saving, Reading
<1>1. CASE Call(c) \/ LockMutex(c) \/ LockFile(c)
  BY <1>1 DEF Call, LockMutex, LockFile, IInv, StoreInv, CallOf
<1>2. CASE LockFileFails(c) \/ UnlockMutex(c)
  BY <1>2 DEF LockFileFails, UnlockMutex, IInv, TypeOK
<1> QED
  BY <1>1, <1>2 DEF Act, Step, PromptForKeys, RemoveOrMkdirFails, WriteFails, RemoveFile,
       RemoveDir, MakeDir, WriteMetadata, WriteSecret, ReadMetadata, ReadSecrets, WalkDir, SkipDir,
       WalkAborts, WalkEnds

\* A client's step, as the abstract store sees it, is an answer to that client
\* while the map stays, or a change of one entry while the answers stay.
LEMMA ActRefines ==
  ASSUME IInv, IInv', NEW c \in Client, Act(c)
  PROVE  Abstract!Next \/ UNCHANGED <<[id \in ID |-> Visible(id)], [d \in Client |-> Answer(d)]>>
<1> DEFINE kv  == [id \in ID |-> Visible(id)]
           ans == [d \in Client |-> Answer(d)]
<1>1. \A d \in Client \ {c} : Answer(d)' = Answer(d)
  <2> TAKE d \in Client \ {c}
  <2>1. Same(d)
    BY ActionIsLocal DEF IInv
  <2>2. op'[d] = op[d] /\ got'[d] = got[d] /\ res'[d] = res[d]
    BY <2>1 DEF Same
  <2> QED
    BY <2>2 DEF Answer
<1>2. CASE \E id \in ID : Writing(c, id) /\ pc'[c] = "unlock"
  <2>1. PICK id \in ID : Writing(c, id) /\ pc'[c] = "unlock"
    BY <1>2
  <2>2. \A i \in ID \ {id} : Visible(i)' = Visible(i)
    BY <2>1, VisibleStep DEF Writing
  <2>3. Visible(id)' \in Version \cup {Absent, Torn}
    <3>1. \A d \in Client : ~Writing(d, id)'
      BY <2>1, ActionIsLocal, OneWriter DEF IInv, Same, Writing
    <3>2. Visible(id)' = Value(id)'
      BY <3>1 DEF Visible
    <3> QED
      BY <3>2, ValueTypePrimed DEF IInv
  <2>4. Answer(c)' = Answer(c)
    <3>1. pc[c] # "idle" /\ Writes(op[c].kind) /\ pc[c] \in Working
      BY <2>1, WritingWorks
    <3> QED
      BY <3>1, WorkStep DEF Answer
  <2>5. kv' = [kv EXCEPT ![id] = Visible(id)'] /\ ans' = ans
    BY <1>1, <2>1, <2>2, <2>4
  <2> QED
    BY <2>1, <2>3, <2>5 DEF Abstract!Next, Abstract!Change, Abstract!Put, Abstract!Erase, Abstract!Interrupt
<1>3. CASE ~\E id \in ID : Writing(c, id) /\ pc'[c] = "unlock"
  <2>1. \A id \in ID : Visible(id)' = Visible(id)
    BY <1>3, VisibleStep
  <2>2. kv' = kv
    BY <2>1
  <2>3. \/ Answer(c)' = Answer(c)
        \/ \A t \in Answer(c)' : /\ t \in ID \X Version \X Version
                                 /\ t[2] = t[3]
                                 /\ Visible(t[1]) \in {t[2], Torn}
    <3>1. CASE pc[c] \in Working
      BY <3>1, WorkStep, ReadIsReported DEF Answer
    <3>2. CASE pc[c] \notin Working
      <4>1. UnlockFile(c) \/ res'[c] = "none"
        BY <3>2, RestSilent
      <4>2. CASE UnlockFile(c)
        BY <4>2 DEF UnlockFile, Answer, call
      <4>3. CASE res'[c] = "none"
        <5>1. Answer(c)' = {}
          BY <4>3 DEF Answer
        <5> QED
          BY <5>1
      <4> QED
        BY <4>1, <4>2, <4>3
    <3> QED
      BY <3>1, <3>2
  <2>4. CASE Answer(c)' = Answer(c)
    BY <1>1, <2>2, <2>4
  <2>5. CASE \A t \in Answer(c)' : /\ t \in ID \X Version \X Version
                                   /\ t[2] = t[3]
                                   /\ Visible(t[1]) \in {t[2], Torn}
    <3>1. ans'[c] \subseteq ID \X Version \X Version
      BY <2>5
    <3>2. \A t \in ans'[c] : t[2] = t[3] /\ t[2] \in Version /\ kv[t[1]] \in {t[2], Torn}
      BY <2>5
    <3>3. \A d \in Client \ {c} : ans'[d] = ans[d]
      BY <1>1
    <3> HIDE DEF kv, ans
    <3>4. Abstract!Lookup(c)
      BY <2>2, <3>1, <3>2, <3>3 DEF Abstract!Lookup, Abstract!Reported, kv, ans
    <3> QED
      BY <3>4 DEF Abstract!Next
  <2> QED
    BY <2>3, <2>4, <2>5
<1> QED
  BY <1>2, <1>3

\* So is the death of a process: it interrupts at most one write.
LEMMA CrashRefines ==
  ASSUME IInv, IInv', NEW p \in Process, Crash(p)
  PROVE  Abstract!Next \/ UNCHANGED <<[id \in ID |-> Visible(id)], [d \in Client |-> Answer(d)]>>
<1> DEFINE kv  == [id \in ID |-> Visible(id)]
           ans == [d \in Client |-> Answer(d)]
<1>1. UNCHANGED <<dirs, files, op, got, res, before>>
  BY DEF Crash, disk, call
<1>2. ans' = ans
  BY <1>1 DEF Answer
<1>3. \A d \in Client : \/ ProcOf[d] = p /\ fl'[d] = "none"
                        \/ ProcOf[d] # p /\ fl'[d] = fl[d] /\ pc'[d] = pc[d]
  BY DEF Crash
<1>4. \A id \in ID : Value(id)' = Value(id)
  BY <1>1, ValueKept
<1>5. ASSUME NEW id \in ID, ~\E w \in Client : ProcOf[w] = p /\ Writing(w, id)
      PROVE  Visible(id)' = Visible(id)
  <2>1. CASE \E w \in Client : Writing(w, id)
    <3>1. PICK w \in Client : Writing(w, id)
      BY <2>1
    <3>2. Writing(w, id)'
      BY <1>1, <1>3, <1>5, <3>1 DEF Writing
    <3> QED
      BY <1>1, <3>1, <3>2, OneWriter, OneWriterPrimed DEF IInv
  <2>2. CASE ~\E w \in Client : Writing(w, id)
    <3>1. ~\E w \in Client : Writing(w, id)'
      BY <1>1, <1>3, <2>2 DEF Writing
    <3> QED
      BY <1>4, <2>2, <3>1 DEF Visible
  <2> QED
    BY <2>1, <2>2
<1>6. CASE \E w \in Client, id \in ID : ProcOf[w] = p /\ Writing(w, id)
  <2>1. PICK w \in Client, id \in ID : ProcOf[w] = p /\ Writing(w, id)
    BY <1>6
  <2>2. \A i \in ID \ {id} : ~\E v \in Client : Writing(v, i)
    BY <2>1 DEF IInv, StoreInv, LocksOf, Writing
  <2>3. \A i \in ID \ {id} : Visible(i)' = Visible(i)
    BY <1>5, <2>2
  <2>4. ~\E v \in Client : Writing(v, id)'
    BY <1>1, <1>3, <2>1, OneWriter DEF Writing, IInv
  <2>5. Visible(id)' \in Version \cup {Absent, Torn}
    BY <1>4, <2>4, ValueType DEF Visible, IInv
  <2>6. kv' = [kv EXCEPT ![id] = Visible(id)']
    BY <2>1, <2>3
  <2> QED
    BY <1>2, <2>1, <2>5, <2>6
       DEF Abstract!Next, Abstract!Change, Abstract!Put, Abstract!Erase, Abstract!Interrupt
<1>7. CASE ~\E w \in Client, id \in ID : ProcOf[w] = p /\ Writing(w, id)
  BY <1>2, <1>5, <1>7
<1> QED
  BY <1>6, <1>7

\* The posixage store implements SecretStore for every number of clients and
\* processes and every fault: a Save, Upsert or Delete is one change of one
\* entry, a Get, Filter or GetAllMetadata reports entries as they are together
\* at one moment, never a mixed credential (fileStore's locking, Persist).
THEOREM StoreImplementsSecretStore == Spec => ImplementsSecretStore
<1>1. Init => Abstract!Init
  <2> SUFFICES ASSUME Init PROVE Abstract!Init
    OBVIOUS
  <2>1. \A id \in ID : Visible(id) = Absent
    BY DEF Init, Visible, Writing, Value
  <2>2. \A c \in Client : Answer(c) = {}
    BY DEF Init, Answer
  <2> QED
    BY <2>1, <2>2 DEF Abstract!Init
<1>2. IInv /\ IInv' /\ [Next]_vars =>
        [Abstract!Next]_<<[id \in ID |-> Visible(id)], [c \in Client |-> Answer(c)]>>
  <2> SUFFICES ASSUME IInv, IInv', [Next]_vars
               PROVE  Abstract!Next
                        \/ UNCHANGED <<[id \in ID |-> Visible(id)], [c \in Client |-> Answer(c)]>>
    OBVIOUS
  <2>1. CASE Next
    BY <2>1, ActRefines, CrashRefines DEF Next, Act
  <2>2. CASE UNCHANGED vars
    BY <2>2 DEF vars, Visible, Writing, Value, Answer
  <2> QED
    BY <2>1, <2>2
<1> QED
  BY <1>1, <1>2, InvInit, InvStep, PTL DEF Spec, ImplementsSecretStore, Abstract!Spec

-----------------------------------------------------------------------------
(* Reads miss nothing *)

\* Without I/O errors and with the right keys, decryptSecret reads the file of
\* its first function.
LEMMA DecryptsWhatIsThere ==
  ASSUME TypeOK, Faults \cap {"io", "key"} = {}, NEW id \in ID,
         NEW fits \in KeyAnswers, NEW readable \in ReadableFiles(id)
  PROVE  \E k \in KeyType : DecryptSecret(readable, fits) = files[id][k]
<1> DEFINE ends == {i \in DOMAIN Prompts : readable[Prompts[i]] = Absent \/ fits[i]}
<1>1. readable = files[id]
  BY DEF ReadableFiles, IOError
<1>2. fits = [i \in DOMAIN Prompts |-> TRUE]
  BY DEF KeyAnswers
<1>3. DOMAIN Prompts # {} /\ DOMAIN Prompts \subseteq Nat
  <2>1. Len(Prompts) \in Nat \ {0}
    BY EmptySeq
  <2>2. DOMAIN Prompts = 1..Len(Prompts)
    BY LenProperties
  <2>3. 1 \in 1..Len(Prompts) /\ 1..Len(Prompts) \subseteq Nat
    BY <2>1
  <2> QED
    BY <2>2, <2>3
<1>4. ends = DOMAIN Prompts
  BY <1>2
<1>5. Min(ends) \in DOMAIN Prompts
  BY <1>3, <1>4, MinIsMember
<1>6. DecryptSecret(readable, fits) = readable[Prompts[Min(ends)]]
  BY <1>3, <1>4 DEF DecryptSecret
<1>7. Prompts[Min(ends)] \in KeyType
  BY <1>5
<1> HIDE DEF ends
<1> QED
  BY <1>1, <1>6, <1>7

\* The entry under an identifier is absent without a directory, and torn where
\* a file is missing.
LEMMA ValueCases ==
  ASSUME TypeOK, NEW id \in ID
  PROVE  /\ Value(id) = Absent <=> id \notin dirs
         /\ Value(id) \notin {Absent, Torn} => \A f \in File : files[id][f] # Absent
BY DEF TypeOK, Value, File, Version

\* What a client that has read, and not yet released its lock, has missed.
Missed(c) ==
  pc[c] = "unlock" /\ fl[c] # "none" =>
    /\ op[c].kind = "get" /\ Visible(op[c].id) # Torn =>
         (res[c] = "ok" <=> Visible(op[c].id) # Absent)
    /\ op[c].kind = "metadata" /\ (\A id \in ID : Visible(id) # Torn) =>
         \A id \in ID : got[c][id] # NoRead <=> Visible(id) # Absent

ReadsInv == \A c \in Client : WalkOf(c) /\ Missed(c)

\* The steps of the other clients leave a reader's state and what it sees.
LEMMA ReaderKept ==
  ASSUME IInv, IInv', ReadsInv, NEW c \in Client, Act(c), NEW d \in Client \ {c}
  PROVE  WalkOf(d)' /\ Missed(d)'
<1>1. Same(d)
  BY ActionIsLocal DEF IInv
<1>2. WalkOf(d)'
  <2>1. SUFFICES ASSUME pc[d] = "walk", op[d].kind = "metadata" PROVE WalkOf(d)'
    BY <1>1 DEF WalkOf, Same
  <2>2. fl[d] = "sh"
    BY <2>1 DEF IInv, StoreInv, LocksOf, Working, Reading, Writes
  <2>3. UNCHANGED dirs
    BY <2>2, ActionIsLocal DEF IInv, StoreInv, LocksOf
  <2> QED
    BY <1>1, <2>1, <2>3 DEF ReadsInv, WalkOf, Same
<1>3. Missed(d)'
  <2>1. SUFFICES ASSUME pc[d] = "unlock", fl[d] # "none", op[d].kind \in {"get", "metadata"}
                 PROVE  Missed(d)'
    BY <1>1 DEF Missed, Same
  <2>2. fl[d] = "sh"
    BY <2>1 DEF IInv, StoreInv, LocksOf, Writes
  <2>3. \A id \in ID : Visible(id)' = Visible(id)
    <3>1. \A id \in ID : ~Writing(c, id)
      BY <2>2 DEF IInv, StoreInv, LocksOf, Writing
    <3> QED
      BY <3>1, VisibleStep
  <2>4. op[d].kind = "get" => op[d].id \in ID
    BY <2>1 DEF IInv, StoreInv, CallOf
  <2> QED
    BY <1>1, <2>1, <2>3, <2>4 DEF ReadsInv, Missed, Same
<1> QED
  BY <1>2, <1>3

\* A client's own step.
LEMMA ReaderStep ==
  ASSUME IInv, IInv', ReadsInv, Faults \cap {"io", "key"} = {}, NEW c \in Client, Act(c)
  PROVE  WalkOf(c)' /\ Missed(c)'
<1> USE DEF IInv, Goto, Return, Leave, disk, locks, call, count
<1>1. CASE LockFile(c)
  <2>1. UNCHANGED <<dirs, op>>
    BY <1>1 DEF LockFile
  <2>2. op[c].kind = "metadata" => todo'[c] = dirs
    <3>1. op[c].kind = "metadata" => op[c].id = NoID
      BY <1>1 DEF LockFile, StoreInv, CallOf
    <3> QED
      BY <1>1, <3>1 DEF LockFile, IOError, TypeOK
  <2>3. pc'[c] # "unlock"
    <3>1. PICK l \in {"prompt", "clear", "readmeta", "walk"} : pc' = [pc EXCEPT ![c] = l]
      BY <1>1, FirstPoint
    <3> QED
      BY <3>1 DEF TypeOK
  <2> QED
    BY <2>1, <2>2, <2>3 DEF WalkOf, Missed
<1>2. CASE pc[c] \in Reading /\ pc'[c] = "unlock"
  <2>1. WalkOf(c)'
    BY <1>2 DEF WalkOf
  <2>2. fl[c] = "sh" /\ UNCHANGED <<op, dirs, files>>
    <3>1. fl[c] = "sh"
      BY <1>2 DEF StoreInv, LocksOf, CallOf, Working, Reading, Writes
    <3> QED
      BY <1>2, <3>1, WorkStep, ActionIsLocal DEF Working
  <2>3. \A id \in ID : Visible(id)' = Value(id)
    <3>1. \A id \in ID : ~Writing(c, id)
      BY <2>2 DEF Writing
    <3> QED
      BY <2>2, <3>1, VisibleStep, ReaderSeesDisk
  <2>4. CASE ReadMetadata(c)
    <3>1. op[c].id \in ID /\ op[c].kind = "get"
      BY <2>4 DEF ReadMetadata, StoreInv, CallOf
    <3>2. ~Restorable(op[c].id) /\ res'[c] = "error"
      BY <1>2, <2>4 DEF ReadMetadata, IOError, TypeOK
    <3>3. Value(op[c].id) \in {Absent, Torn}
      BY <3>1, <3>2, ValueCases DEF Restorable, File
    <3> QED
      BY <2>1, <2>2, <2>3, <3>1, <3>2, <3>3 DEF Missed
  <2>5. CASE ReadSecrets(c)
    <3>1. op[c].id \in ID /\ op[c].kind = "get" /\ Restorable(op[c].id)
      BY <2>5 DEF ReadSecrets, StoreInv, CallOf, ReadOf
    <3>2. PICK k \in KeyType : res'[c] = IF files[op[c].id][k] = Absent THEN "error" ELSE "ok"
      <4>1. PICK fits \in KeyAnswers, readable \in ReadableFiles(op[c].id) :
              res' = [res EXCEPT ![c] = IF DecryptSecret(readable, fits) = Absent THEN "error" ELSE "ok"]
        BY <2>5 DEF ReadSecrets
      <4>2. PICK k \in KeyType : DecryptSecret(readable, fits) = files[op[c].id][k]
        BY <3>1, DecryptsWhatIsThere
      <4> QED
        BY <4>1, <4>2 DEF TypeOK
    <3>3. Value(op[c].id) # Absent
      BY <3>1, ValueCases DEF Restorable
    <3>4. Value(op[c].id) # Torn => res'[c] = "ok"
      BY <3>1, <3>2, <3>3, ValueCases DEF File
    <3> QED
      BY <2>1, <2>2, <2>3, <3>1, <3>3, <3>4 DEF Missed
  <2>6. CASE WalkAborts(c) /\ op[c].kind = "metadata"
    <3>1. PICK id \in todo[c] : ~Restorable(id)
      BY <2>6 DEF WalkAborts, IOError
    <3>2. id \in dirs /\ id \in ID
      BY <2>6, <3>1 DEF WalkAborts, StoreInv, ReadOf, TypeOK
    <3>3. Value(id) = Torn
      BY <3>1, <3>2, ValueCases DEF Restorable, File
    <3> QED
      BY <2>1, <2>2, <2>3, <2>6, <3>2, <3>3 DEF Missed
  <2>7. CASE WalkEnds(c) /\ op[c].kind = "metadata"
    <3>1. todo[c] = {} /\ pc[c] = "walk" /\ UNCHANGED got
      BY <2>7 DEF WalkEnds
    <3>2. \A id \in dirs : got[c][id] # NoRead
      BY <2>7, <3>1 DEF ReadsInv, WalkOf
    <3>3. \A id \in ID : got[c][id] # NoRead => id \in dirs
      BY <3>1 DEF StoreInv, ReadOf, Restorable
    <3>4. \A id \in ID : got'[c][id] # NoRead <=> Visible(id)' # Absent
      BY <2>3, <3>1, <3>2, <3>3, ValueCases
    <3> QED
      BY <2>1, <2>2, <2>7, <3>4 DEF Missed
  <2>8. CASE op[c].kind \notin {"get", "metadata"}
    BY <2>1, <2>2, <2>8 DEF Missed
  <2>9. ReadMetadata(c) \/ ReadSecrets(c) \/ WalkAborts(c) \/ WalkEnds(c)
    BY <1>2 DEF Act, Step, Reading, Call, LockMutex, LockFile, LockFileFails, PromptForKeys,
         RemoveOrMkdirFails, WriteFails, RemoveFile, RemoveDir, MakeDir, WriteMetadata,
         WriteSecret, UnlockFile, UnlockMutex, WalkDir, SkipDir
  <2>10. pc[c] = "walk" => op[c].kind # "get"
    BY DEF StoreInv, CallOf
  <2> QED
    BY <2>4, <2>5, <2>6, <2>7, <2>8, <2>9, <2>10 DEF WalkAborts, WalkEnds
<1>3. CASE WalkDir(c)
  <2>1. PICK id \in todo[c] :
          /\ todo' = [todo EXCEPT ![c] = @ \ {id}]
          /\ Restorable(id)
          /\ op[c].kind = "metadata" => got' = [got EXCEPT ![c][id].meta = files[id]["meta"]]
    BY <1>3 DEF WalkDir
  <2>2. UNCHANGED <<pc, dirs, op>> /\ pc[c] = "walk"
    BY <1>3 DEF WalkDir
  <2>3. ASSUME op[c].kind = "metadata" PROVE \A i \in dirs : i \in todo'[c] \/ got'[c][i] # NoRead
    <3>1. id \in ID /\ dirs \subseteq ID
      BY <2>1 DEF Restorable, TypeOK
    <3>2. got'[c][id].meta = files[id]["meta"] /\ \A i \in ID \ {id} : got'[c][i] = got[c][i]
      BY <2>1, <2>3, <3>1 DEF TypeOK
    <3>3. got'[c][id] # NoRead
      BY <2>1, <3>2 DEF NoRead, Restorable
    <3>4. \A i \in dirs : i \in todo[c] \/ got[c][i] # NoRead
      BY <2>2, <2>3 DEF ReadsInv, WalkOf
    <3> QED
      BY <2>1, <3>1, <3>2, <3>3, <3>4 DEF TypeOK
  <2> QED
    BY <2>2, <2>3 DEF WalkOf, Missed
<1>4. CASE SkipDir(c)
  BY <1>4 DEF SkipDir, WalkOf, Missed
<1>5. CASE UnlockFile(c)
  BY <1>5 DEF UnlockFile, TypeOK, WalkOf, Missed
<1>6. CASE pc[c] \in Saving \cup {"clear"}
  <2>1. op'[c].kind \in {"save", "delete"}
    <3>1. op[c].kind \in {"save", "delete"}
      BY <1>6 DEF StoreInv, CallOf, Writes
    <3> QED
      BY <1>6, <3>1, WorkStep DEF Working
  <2> QED
    BY <2>1 DEF WalkOf, Missed
<1>7. CASE ReadMetadata(c) /\ pc'[c] # "unlock"
  BY <1>7 DEF ReadMetadata, TypeOK, WalkOf, Missed
<1>8. CASE Call(c) \/ LockMutex(c) \/ LockFileFails(c) \/ UnlockMutex(c)
  <2>1. pc'[c] \in {"mutex", "flock", "idle"}
    BY <1>8 DEF Call, LockMutex, LockFileFails, UnlockMutex, TypeOK
  <2> QED
    BY <2>1 DEF WalkOf, Missed
<1>9. CASE ReadSecrets(c) \/ WalkAborts(c) \/ WalkEnds(c)
  <2>1. pc[c] \in Reading /\ pc'[c] = "unlock"
    BY <1>9 DEF ReadSecrets, WalkAborts, WalkEnds, Reading, TypeOK
  <2> QED
    BY <1>2, <2>1
<1>10. ReadMetadata(c) => pc[c] \in Reading
  BY DEF ReadMetadata, Reading
<1>11. PromptForKeys(c) \/ RemoveOrMkdirFails(c) \/ WriteFails(c) \/ RemoveFile(c) \/ RemoveDir(c)
         \/ MakeDir(c) \/ WriteMetadata(c) \/ WriteSecret(c) => pc[c] \in Saving \cup {"clear"}
  BY DEF PromptForKeys, RemoveOrMkdirFails, WriteFails, RemoveFile, RemoveDir, MakeDir,
       WriteMetadata, WriteSecret, Saving
<1> QED
  BY <1>1, <1>2, <1>3, <1>4, <1>5, <1>6, <1>7, <1>8, <1>9, <1>10, <1>11 DEF Act, Step

\* A process that dies takes no lock of a reader of another process with it,
\* and a reader sees what it saw.
LEMMA ReaderSurvives ==
  ASSUME IInv, IInv', ReadsInv, NEW p \in Process, Crash(p), NEW d \in Client
  PROVE  WalkOf(d)' /\ Missed(d)'
<1>1. UNCHANGED <<dirs, files, op, got, res, todo>>
  BY DEF Crash, disk, call
<1>2. \/ pc'[d] = "dead"
      \/ pc'[d] = pc[d] /\ fl'[d] = fl[d]
  BY DEF Crash
<1>3. CASE pc'[d] = "dead"
  BY <1>3 DEF WalkOf, Missed
<1>4. CASE pc'[d] = pc[d] /\ fl'[d] = fl[d]
  <2>1. WalkOf(d)'
    BY <1>1, <1>4 DEF ReadsInv, WalkOf
  <2>2. SUFFICES ASSUME pc[d] = "unlock", fl[d] # "none", op[d].kind \in {"get", "metadata"}
                 PROVE  Missed(d)'
    BY <1>1, <1>4, <2>1 DEF Missed
  <2>3. fl[d] = "sh"
    BY <2>2 DEF IInv, StoreInv, LocksOf, Writes
  <2>4. ASSUME NEW id \in ID PROVE Visible(id)' = Visible(id)
    <3>1. ~\E w \in Client : Writing(w, id)'
      BY <1>4, <2>3 DEF IInv, StoreInv, LocksOf, Writing
    <3>2. Value(id)' = Value(id)
      BY <1>1, ValueKept
    <3> QED
      BY <2>3, <3>1, <3>2, ReaderSeesDisk DEF Visible
  <2>5. op[d].kind = "get" => op[d].id \in ID
    BY <2>2 DEF IInv, StoreInv, CallOf
  <2> QED
    BY <1>1, <1>4, <2>2, <2>4, <2>5 DEF ReadsInv, Missed
<1> QED
  BY <1>2, <1>3, <1>4

\* Where reading works and the user gives the right keys, a read misses
\* nothing, whatever processes died before: Get returns a credential that was
\* completely saved and none where there is none, and GetAllMetadata returns
\* all there are (getSecret, walkMetadata; the torn directories apart).
THEOREM NothingIsMissed ==
  ASSUME Faults \cap {"io", "key"} = {}
  PROVE  Spec => []ReadsMissNothing
<1>1. Init => ReadsInv
  BY DEF Init, ReadsInv, WalkOf, Missed
<1>2. IInv /\ IInv' /\ ReadsInv /\ [Next]_vars => ReadsInv'
  <2> SUFFICES ASSUME IInv, IInv', ReadsInv, [Next]_vars PROVE ReadsInv'
    OBVIOUS
  <2>1. ASSUME NEW c \in Client, Act(c) PROVE ReadsInv'
    BY <2>1, ReaderKept, ReaderStep DEF ReadsInv
  <2>2. ASSUME NEW p \in Process, Crash(p) PROVE ReadsInv'
    BY <2>2, ReaderSurvives DEF ReadsInv
  <2>3. CASE UNCHANGED vars
    <3>1. ASSUME NEW id PROVE Visible(id)' = Visible(id)
      BY <2>3 DEF vars, Visible, Writing, Value
    <3> QED
      BY <2>3, <3>1 DEF vars, ReadsInv, WalkOf, Missed
  <2> QED
    BY <2>1, <2>2, <2>3 DEF Next, Act
<1>3. ReadsInv => ReadsMissNothing
  <2> SUFFICES ASSUME ReadsInv, NEW c \in Client, pc[c] = "unlock", fl[c] # "none"
               PROVE  /\ op[c].kind = "get" /\ Visible(op[c].id) # Torn =>
                           (res[c] = "ok") = (Visible(op[c].id) # Absent)
                      /\ op[c].kind = "metadata" /\ (\A id \in ID : Visible(id) # Torn) =>
                           {id \in ID : got[c][id] # NoRead} = {id \in ID : Visible(id) # Absent}
    BY DEF ReadsMissNothing
  <2> QED
    BY DEF ReadsInv, Missed
<1> QED
  BY <1>1, <1>2, <1>3, InvInit, InvStep, PTL DEF Spec
===============================================================================
