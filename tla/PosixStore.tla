------------------------------ MODULE PosixStore ------------------------------
(***************************************************************************)
(* The posixage store: fileStore (store/posixage/store.go) over the secret *)
(* directories of store/posixage/internal/secretfile.  Clients are         *)
(* goroutines; those of one process share the RWMutex of its fileStore,    *)
(* all of them share the file lock.  An operation takes the mutex and then *)
(* the file lock, works on the directory tree one file-system call at a    *)
(* time and releases both.  A process may die between two calls.           *)
(*                                                                         *)
(* A credential is the number of the Save that wrote it, so a file holds a *)
(* number; cryptography is a key that fits or does not.  atomicWrite is    *)
(* one step, its rename: the ".tmp" file it may leave behind has a name no *)
(* registered key type asks for.  The file lock is used by its contract;   *)
(* module Flock says how far the implementation keeps it.                  *)
(***************************************************************************)
EXTENDS Integers, Sequences, FiniteSets, FiniteSetsExt

CONSTANTS
  Client,     \* callers of the store
  Process,    \* the processes they live in
  ProcOf,     \* [Client -> Process]
  ID,         \* credential identifiers, one directory each
  KeyType,    \* key types of the registered encryption functions
  Prompts,    \* key types of the registered decryption functions, in order
  MaxSaves,   \* bound: Saves in a behaviour
  MaxCalls,   \* bound: calls in a behaviour
  Absent, Torn, NoID, \* no file or credential; a partial one; no argument
  Faults      \* which faults happen: subset of FaultKinds

FaultKinds == {"crash", "io", "key"}

ASSUME StoreAssumption ==
  /\ ProcOf \in [Client -> Process]
  /\ Prompts \in Seq(KeyType) /\ Prompts # <<>>
  /\ {MaxSaves, MaxCalls} \subseteq Nat
  /\ {Absent, Torn} \cap (1..MaxSaves) = {} /\ Absent # Torn
  /\ NoID \notin ID
  /\ KeyType # {} /\ "meta" \notin KeyType
  /\ Faults \subseteq FaultKinds

VARIABLES
  dirs,     \* the IDs that have a directory
  files,    \* per ID, what its metadata file and secret files hold
  mu,       \* what each client holds of its process's RWMutex: "none", "r", "w"
  fl,       \* what it holds of the file lock: "none", "sh", "ex"
  pc,       \* where it is
  op,       \* what it was called with: kind, ID and, for a Save, the version
  todo,     \* the files or directories still to be visited
  got,      \* what a read has collected per ID: metadata and plaintext
  res,      \* how the call ends: "none" (yet), "ok" or "error"
  before,   \* auxiliary: the credentials at the time the file lock was taken
  saves, calls

disk  == <<dirs, files>>
locks == <<mu, fl>>
call  == <<op, todo, got, res>>
count == <<saves, calls>>
vars  == <<dirs, files, mu, fl, pc, op, todo, got, res, before, saves, calls>>

Version == 1..MaxSaves
File    == {"meta"} \cup KeyType
Kind    == {"save", "delete", "get", "filter", "metadata"}
Writes(k) == k \in {"save", "delete"}
PC == {"idle", "mutex", "flock", "prompt", "clear", "mkdir", "meta", "secrets",
       "cleanup", "readmeta", "readsecrets", "walk", "unlock", "dead"}
NoOp    == [kind |-> "get", id |-> NoID, ver |-> Absent]
NoRead  == [meta |-> Absent, secret |-> Absent]
NoFiles == [f \in File |-> Absent]

\* The types of the variables; a directory that is not there holds nothing.
TypeOK ==
  /\ dirs \subseteq ID
  /\ files \in [ID -> [File -> Version \cup {Absent}]]
  /\ \A id \in ID \ dirs : files[id] = NoFiles
  /\ mu \in [Client -> {"none", "r", "w"}]
  /\ fl \in [Client -> {"none", "sh", "ex"}]
  /\ pc \in [Client -> PC]
  /\ op \in [Client -> [kind : Kind, id : ID \cup {NoID}, ver : Version \cup {Absent}]]
  /\ todo \in [Client -> SUBSET (File \cup ID)]
  /\ got \in [Client -> [ID -> [meta : Version \cup {Absent}, secret : Version \cup {Absent}]]]
  /\ res \in [Client -> {"none", "ok", "error"}]
  /\ before \in [Client -> [ID -> Version \cup {Absent, Torn}]]
  /\ saves \in 0..MaxSaves
  /\ calls \in 0..MaxCalls

-----------------------------------------------------------------------------
(* Helpers *)

Goto(c, l) == pc' = [pc EXCEPT ![c] = l]

\* The call returns to its caller; its local variables are gone.
Leave(c) ==
  /\ Goto(c, "idle")
  /\ mu' = [mu EXCEPT ![c] = "none"]
  /\ op' = [op EXCEPT ![c] = NoOp]
  /\ todo' = [todo EXCEPT ![c] = {}]
  /\ got' = [got EXCEPT ![c] = [id \in ID |-> NoRead]]
  /\ res' = [res EXCEPT ![c] = "none"]
  /\ before' = [before EXCEPT ![c] = [id \in ID |-> Absent]]

Return(c, r) == Goto(c, "unlock") /\ res' = [res EXCEPT ![c] = r]

IOError == "io" \in Faults

\* The credential a directory holds: all its files come from one Save.
Value(id) ==
  IF id \notin dirs THEN Absent
  ELSE IF \E v \in Version : \A f \in File : files[id][f] = v
       THEN files[id]["meta"] ELSE Torn

\* RestoreSecret fails without the directory or its metadata file.
Restorable(id) == id \in dirs /\ files[id]["meta"] # Absent

\* decryptSecret: the registered functions are asked in turn.  The first one
\* whose type has no file ends the call with an error (here: Absent), the
\* first one whose key fits yields the plaintext; a wrong key moves on.
DecryptSecret(fs, fits) ==
  LET ends == {i \in DOMAIN Prompts : fs[Prompts[i]] = Absent \/ fits[i]}
  IN  IF ends = {} THEN Absent ELSE fs[Prompts[Min(ends)]]

\* The keys the user types in: right ones, unless "key" is among the faults.
KeyAnswers ==
  IF "key" \in Faults THEN [DOMAIN Prompts -> BOOLEAN]
                      ELSE {[i \in DOMAIN Prompts |-> TRUE]}

\* The files RestoreSecret hands on: a secret file it cannot read is left out.
ReadableFiles(id) ==
  IF IOError THEN {[f \in File |-> IF f \in lost THEN Absent ELSE files[id][f]] :
                     lost \in SUBSET KeyType}
             ELSE {files[id]}

-----------------------------------------------------------------------------
Init ==
  /\ dirs = {}
  /\ files = [id \in ID |-> NoFiles]
  /\ mu = [c \in Client |-> "none"]
  /\ fl = [c \in Client |-> "none"]
  /\ pc = [c \in Client |-> "idle"]
  /\ op = [c \in Client |-> NoOp]
  /\ todo = [c \in Client |-> {}]
  /\ got = [c \in Client |-> [id \in ID |-> NoRead]]
  /\ res = [c \in Client |-> "none"]
  /\ before = [c \in Client |-> [id \in ID |-> Absent]]
  /\ saves = 0
  /\ calls = 0

\* Save (and Upsert, which is Save), Delete, Get, Filter or GetAllMetadata.
Call(c) ==
  /\ pc[c] = "idle"
  /\ calls < MaxCalls
  /\ \/ /\ saves < MaxSaves
        /\ \E id \in ID : op' = [op EXCEPT ![c] = [kind |-> "save", id |-> id, ver |-> saves + 1]]
        /\ saves' = saves + 1
     \/ /\ \E k \in {"delete", "get"}, id \in ID :
             op' = [op EXCEPT ![c] = [kind |-> k, id |-> id, ver |-> Absent]]
        /\ UNCHANGED saves
     \/ /\ \E k \in {"filter", "metadata"} :
             op' = [op EXCEPT ![c] = [kind |-> k, id |-> NoID, ver |-> Absent]]
        /\ UNCHANGED saves
  /\ Goto(c, "mutex")
  /\ calls' = calls + 1
  /\ UNCHANGED <<disk, locks, todo, got, res, before>>

\* f.l.Lock() or f.l.RLock(): waits, whatever the context says.
LockMutex(c) ==
  /\ pc[c] = "mutex"
  /\ \A d \in Client \ {c} : ProcOf[d] = ProcOf[c] =>
       IF Writes(op[c].kind) THEN mu[d] = "none" ELSE mu[d] # "w"
  /\ mu' = [mu EXCEPT ![c] = IF Writes(op[c].kind) THEN "w" ELSE "r"]
  /\ Goto(c, "flock")
  /\ UNCHANGED <<disk, fl, call, before, count>>

\* Variant: a writer that waits for other writers only.
LockFile_IgnoresReaders(c) ==
  /\ pc[c] = "flock"
  /\ \A d \in Client \ {c} : fl[d] # "ex"
  /\ fl' = [fl EXCEPT ![c] = IF Writes(op[c].kind) THEN "ex" ELSE "sh"]
  /\ before' = [before EXCEPT ![c] = [id \in ID |-> Value(id)]]
  /\ todo' = [todo EXCEPT ![c] = IF op[c].id = NoID THEN dirs ELSE KeyType]
  /\ Goto(c, CASE op[c].kind = "save" -> "prompt"
               [] op[c].kind = "delete" -> "clear"
               [] op[c].kind = "get" -> "readmeta"
               [] OTHER -> "walk")
  /\ UNCHANGED <<disk, mu, op, got, res, count>>

\* flock.TryLock or flock.TryRLock succeeds.  A walk visits the directories
\* of the IDs that match: all of them, or those of Filter's pattern.  The
\* walk functions ignore WalkDir's error, so a listing that fails is a short
\* one.
LockFile(c) ==
  /\ pc[c] = "flock"
  /\ \A d \in Client \ {c} :
       IF Writes(op[c].kind) THEN fl[d] = "none" ELSE fl[d] # "ex"
  /\ fl' = [fl EXCEPT ![c] = IF Writes(op[c].kind) THEN "ex" ELSE "sh"]
  /\ before' = [before EXCEPT ![c] = [id \in ID |-> Value(id)]]
  /\ \E matched \in SUBSET dirs :
       /\ op[c].kind # "filter" /\ ~IOError => matched = dirs
       /\ todo' = [todo EXCEPT ![c] = IF op[c].id = NoID THEN matched ELSE KeyType]
  /\ Goto(c, CASE op[c].kind = "save" -> "prompt"
               [] op[c].kind = "delete" -> "clear"
               [] op[c].kind = "get" -> "readmeta"
               [] OTHER -> "walk")
  /\ UNCHANGED <<disk, mu, op, got, res, count>>

\* Variant: the error path of tryLock without f.l.Unlock().
LockFileFails_KeepsMutex(c) ==
  /\ pc[c] = "flock"
  /\ Goto(c, "idle")
  /\ UNCHANGED <<disk, locks, call, before, count>>

\* It fails (the context is done): the mutex is given back.
LockFileFails(c) ==
  /\ pc[c] = "flock"
  /\ Leave(c)
  /\ UNCHANGED <<disk, fl, count>>

\* Variant: Persist writes into the directory that is there.
PromptForKeys_NoRemove(c) ==
  /\ pc[c] = "prompt"
  /\ Goto(c, IF op[c].id \in dirs THEN "meta" ELSE "mkdir")
  /\ UNCHANGED <<disk, locks, call, before, count>>

\* promptForEncryptionKeys, Marshal and Encrypt, with the lock held.
PromptForKeys(c) ==
  /\ pc[c] = "prompt"
  /\ \/ /\ Goto(c, IF op[c].id \in dirs THEN "clear" ELSE "mkdir")
        /\ UNCHANGED res
     \/ "key" \in Faults /\ Return(c, "error")
  /\ UNCHANGED <<disk, locks, op, todo, got, before, count>>

\* RemoveAll unlinks the files of the directory one by one ...
RemoveFile(c) ==
  /\ pc[c] \in {"clear", "cleanup"}
  /\ \E f \in File :
       /\ files[op[c].id][f] # Absent
       /\ files' = [files EXCEPT ![op[c].id][f] = Absent]
  /\ UNCHANGED <<dirs, locks, pc, call, before, count>>

\* ... and then the directory.  Delete is done; Persist goes on to write.
RemoveDir(c) ==
  /\ pc[c] \in {"clear", "cleanup"}
  /\ files[op[c].id] = NoFiles
  /\ dirs' = dirs \ {op[c].id}
  /\ \/ /\ pc[c] = "clear" /\ op[c].kind = "save"
        /\ Goto(c, "mkdir")
        /\ UNCHANGED res
     \/ /\ pc[c] = "clear" /\ op[c].kind = "delete"
        /\ Return(c, "ok")
     \/ /\ pc[c] = "cleanup"
        /\ Return(c, "error")
  /\ UNCHANGED <<files, locks, op, todo, got, before, count>>

\* RemoveAll stops at an error (ignored by Persist's cleanup), or Mkdir does.
RemoveOrMkdirFails(c) ==
  /\ IOError
  /\ pc[c] \in {"clear", "cleanup", "mkdir"}
  /\ Return(c, "error")
  /\ UNCHANGED <<disk, locks, op, todo, got, before, count>>

\* Variant: Mkdir left out.
MakeDir_Skipped(c) ==
  /\ pc[c] = "mkdir"
  /\ Goto(c, "meta")
  /\ UNCHANGED <<disk, locks, call, before, count>>

MakeDir(c) ==
  /\ pc[c] = "mkdir"
  /\ dirs' = dirs \cup {op[c].id}
  /\ Goto(c, "meta")
  /\ UNCHANGED <<files, locks, call, before, count>>

WriteMetadata(c) ==
  /\ pc[c] = "meta"
  /\ files' = [files EXCEPT ![op[c].id]["meta"] = op[c].ver]
  /\ Goto(c, "secrets")
  /\ UNCHANGED <<dirs, locks, call, before, count>>

\* One file per key type, in the order of a Go map's iteration.
WriteSecret(c) ==
  /\ pc[c] = "secrets"
  /\ \E k \in todo[c] :
       /\ files' = [files EXCEPT ![op[c].id][k] = op[c].ver]
       /\ todo' = [todo EXCEPT ![c] = @ \ {k}]
       /\ IF todo[c] = {k} THEN Return(c, "ok") ELSE UNCHANGED <<pc, res>>
  /\ UNCHANGED <<dirs, locks, op, got, before, count>>

\* A write fails: Persist's deferred RemoveAll runs.
WriteFails(c) ==
  /\ IOError
  /\ pc[c] \in {"meta", "secrets"}
  /\ Goto(c, "cleanup")
  /\ UNCHANGED <<disk, locks, call, before, count>>

\* Get: RestoreSecret's metadata ...
ReadMetadata(c) ==
  /\ pc[c] = "readmeta"
  /\ \/ /\ Restorable(op[c].id)
        /\ got' = [got EXCEPT ![c][op[c].id].meta = files[op[c].id]["meta"]]
        /\ Goto(c, "readsecrets")
        /\ UNCHANGED res
     \/ /\ ~Restorable(op[c].id) \/ IOError
        /\ Return(c, "error")
        /\ UNCHANGED got
  /\ UNCHANGED <<disk, locks, op, todo, before, count>>

\* ... then its secret files, and decryptSecret.
ReadSecrets(c) ==
  /\ pc[c] = "readsecrets"
  /\ \E fits \in KeyAnswers, readable \in ReadableFiles(op[c].id) :
       LET s == DecryptSecret(readable, fits)
       IN  /\ got' = [got EXCEPT ![c][op[c].id].secret = s]
           /\ Return(c, IF s = Absent THEN "error" ELSE "ok")
  /\ UNCHANGED <<disk, locks, op, todo, before, count>>

\* One directory of the WalkDir of Filter or GetAllMetadata is taken.
WalkDir(c) ==
  /\ pc[c] = "walk"
  /\ \E id \in todo[c] :
       /\ Restorable(id)
       /\ \/ /\ op[c].kind = "metadata"
             /\ got' = [got EXCEPT ![c][id].meta = files[id]["meta"]]
          \/ /\ op[c].kind = "filter"
             /\ \E fits \in KeyAnswers, readable \in ReadableFiles(id) :
                  LET s == DecryptSecret(readable, fits)
                  IN  /\ s # Absent
                      /\ got' = [got EXCEPT ![c][id] = [meta |-> readable["meta"], secret |-> s]]
       /\ todo' = [todo EXCEPT ![c] = @ \ {id}]
  /\ UNCHANGED <<disk, locks, pc, op, res, before, count>>

\* Filter logs and skips a directory that cannot be restored.
SkipDir(c) ==
  /\ pc[c] = "walk"
  /\ op[c].kind = "filter"
  /\ \E id \in todo[c] :
       /\ ~Restorable(id) \/ IOError
       /\ todo' = [todo EXCEPT ![c] = @ \ {id}]
  /\ UNCHANGED <<disk, locks, pc, op, got, res, before, count>>

\* The walk aborts and returns nothing: GetAllMetadata at a directory it
\* cannot restore, Filter at one it cannot decrypt.
WalkAborts(c) ==
  /\ pc[c] = "walk"
  /\ \E id \in todo[c] :
       \/ /\ op[c].kind = "metadata"
          /\ ~Restorable(id) \/ IOError
       \/ /\ op[c].kind = "filter"
          /\ Restorable(id)
          /\ \E fits \in KeyAnswers, readable \in ReadableFiles(id) :
               DecryptSecret(readable, fits) = Absent
  /\ got' = [got EXCEPT ![c] = [i \in ID |-> NoRead]]
  /\ Return(c, "error")
  /\ UNCHANGED <<disk, locks, op, todo, before, count>>

\* The walk is over; no credential at all is ErrCredentialNotFound.
WalkEnds(c) ==
  /\ pc[c] = "walk"
  /\ todo[c] = {}
  /\ Return(c, IF \A id \in ID : got[c][id] = NoRead THEN "error" ELSE "ok")
  /\ UNCHANGED <<disk, locks, op, todo, got, before, count>>

\* The deferred unlock: the file lock, then the mutex.
UnlockFile(c) ==
  /\ pc[c] = "unlock"
  /\ fl[c] # "none"
  /\ fl' = [fl EXCEPT ![c] = "none"]
  /\ UNCHANGED <<disk, mu, pc, call, before, count>>

UnlockMutex(c) ==
  /\ pc[c] = "unlock"
  /\ fl[c] = "none"
  /\ Leave(c)
  /\ UNCHANGED <<disk, fl, count>>

\* A process dies: its goroutines stop and the kernel drops its file locks.
Crash(p) ==
  LET dying == {c \in Client : ProcOf[c] = p} IN
  /\ "crash" \in Faults
  /\ \E c \in dying : pc[c] \notin {"idle", "dead"}
  /\ pc' = [c \in Client |-> IF c \in dying THEN "dead" ELSE pc[c]]
  /\ mu' = [c \in Client |-> IF c \in dying THEN "none" ELSE mu[c]]
  /\ fl' = [c \in Client |-> IF c \in dying THEN "none" ELSE fl[c]]
  /\ UNCHANGED <<disk, call, before, count>>

Step(c) ==
  \/ LockMutex(c) \/ LockFile(c) \/ PromptForKeys(c) \/ RemoveFile(c) \/ RemoveDir(c)
  \/ MakeDir(c) \/ WriteMetadata(c) \/ WriteSecret(c) \/ ReadMetadata(c)
  \/ ReadSecrets(c) \/ WalkDir(c) \/ SkipDir(c) \/ WalkAborts(c) \/ WalkEnds(c)
  \/ UnlockFile(c) \/ UnlockMutex(c)

Next ==
  \/ \E c \in Client :
       Call(c) \/ Step(c) \/ LockFileFails(c) \/ RemoveOrMkdirFails(c) \/ WriteFails(c)
  \/ \E p \in Process : Crash(p)

Spec == Init /\ [][Next]_vars

\* Running goroutines are scheduled, and the user answers the prompts.
FairSpec == Spec /\ \A c \in Client : WF_vars(Step(c))

-----------------------------------------------------------------------------
(* Properties *)

Writing(c, id) == fl[c] = "ex" /\ op[c].id = id /\ pc[c] # "unlock"

\* The store as its users see it: while a writer has the lock, what was there
\* when it took it.
Visible(id) ==
  IF \E c \in Client : Writing(c, id)
  THEN before[CHOOSE c \in Client : Writing(c, id)][id]
  ELSE Value(id)

\* What a client's last read told it.
Answer(c) ==
  IF res[c] = "ok" /\ ~Writes(op[c].kind)
  THEN {<<id, got[c][id].meta,
          IF op[c].kind = "metadata" THEN got[c][id].meta ELSE got[c][id].secret>> :
            id \in {i \in ID : got[c][i] # NoRead}}
  ELSE {}

Abstract == INSTANCE SecretStore WITH
  kv <- [id \in ID |-> Visible(id)], ans <- [c \in Client |-> Answer(c)]

\* The store implements the abstract one: an operation's file-system calls
\* amount to one change of one entry, and a read reports entries as they are
\* together at one moment, never a half-written or a mixed credential, even
\* when processes die and calls fail in between (fileStore's locking).
ImplementsSecretStore == Abstract!Spec

\* A directory never holds files of two Saves, at any moment, whatever was
\* interrupted: "this prevents secrets encrypted with different keys from
\* becoming out of sync" (Persist).
NoMixedVersions ==
  \A id \in ID : \A f, g \in File :
    files[id][f] = Absent \/ files[id][g] = Absent \/ files[id][f] = files[id][g]

\* Every way out of an operation gives both locks back, the file lock before
\* the mutex (tryLock, tryRLock).
NoLockLeaks ==
  \A c \in Client :
    /\ pc[c] \in {"idle", "mutex", "dead"} => mu[c] = "none"
    /\ mu[c] = "none" => fl[c] = "none"

\* A read misses nothing, whatever crashed before it: Get returns a credential
\* that was completely saved, and finds none where there is none; where no
\* credential is damaged GetAllMetadata returns all there are.
ReadsMissNothing ==
  \A c \in Client : pc[c] = "unlock" /\ fl[c] # "none" =>
    /\ op[c].kind = "get" /\ Visible(op[c].id) # Torn =>
         (res[c] = "ok") = (Visible(op[c].id) # Absent)
    /\ op[c].kind = "metadata" /\ (\A id \in ID : Visible(id) # Torn) =>
         {id \in ID : got[c][id] # NoRead} = {id \in ID : Visible(id) # Absent}

\* Every call returns, whatever the others do with the mutex and the file
\* lock, unless its process dies.
OperationsReturn == \A c \in Client : pc[c] = "mutex" ~> pc[c] \in {"idle", "dead"}

==============================================================================
