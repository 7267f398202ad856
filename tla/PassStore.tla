------------------------------ MODULE PassStore ------------------------------
(***************************************************************************)
(* The pass plugin and the docker pass commands set, rm, get and ls over   *)
(* one keychain (plugins/pass: plugin.go, store/store.go and commands).    *)
(* The stores zero the buffers they were given or have filled, so who owns *)
(* a buffer matters: a PassValue hands its own out and copies what it is   *)
(* given.  Each process has its own memory; the store's operations are one *)
(* step here, KeychainLinux, KeychainDarwin and KeychainWindows have their *)
(* steps.                                                                  *)
(***************************************************************************)
EXTENDS Integers, Sequences, FiniteSets

CONSTANTS
  Actor,     \* processes: commands, and the plugin
  ID,        \* identifiers outside the realm docker/secrets-engine
  Reserved,  \* identifiers in it
  Value,     \* secrets
  MaxCalls,  \* bound: calls in a behaviour
  Absent, Zero,  \* no secret; a buffer of zeros
  NoID       \* no identifier

\* What the constants have to be.
PassAssumption ==
  /\ ID \cap Reserved = {} /\ NoID \notin ID \cup Reserved
  /\ Absent \notin Value /\ Zero \notin Value
  /\ MaxCalls \in Nat

VARIABLES
  keychain,  \* per identifier: the secret and its metadata, or Absent
  heap,      \* per process and identifier: the store's buffer and the value's own
  value,     \* per process and identifier: which buffer the PassValue refers to
  call,      \* what each process does: kind, identifier, step
  todo,      \* the identifiers rm still has to delete
  failed,    \* TRUE once a Delete has failed
  left,      \* auxiliary: what rm was to delete and has not deleted since
  answer,    \* what GetSecrets returned: contents per identifier
  res,       \* how the call ended
  calls

vars == <<keychain, heap, value, call, todo, failed, left, answer, res, calls>>

AllID == ID \cup Reserved
Metadata == {"none", "stdin", "flag"}   \* where the value of the metadata key comes from
Stored == [val : Value \cup {Zero}, meta : Metadata]
Kind == {"none", "set", "upsert", "rm", "rmall", "get", "ls", "resolve"}
PC == {"idle", "list", "delete", "read"} \cup Metadata
Idle == [kind |-> "none", id |-> NoID, pc |-> "idle"]

\* The types of the variables.
TypeOK ==
  /\ keychain \in [AllID -> Stored \cup {Absent}]
  /\ heap \in [Actor -> [AllID -> [raw : Value \cup {Zero}, own : Value \cup {Zero}]]]
  /\ value \in [Actor -> [AllID -> {"raw", "own"}]]
  /\ call \in [Actor -> [kind : Kind, id : AllID \cup {NoID}, pc : PC]]
  /\ todo \in [Actor -> SUBSET AllID] /\ left \in [Actor -> SUBSET AllID]
  /\ failed \in [Actor -> BOOLEAN]
  /\ answer \in [Actor -> UNION {[S -> Value \cup {Zero}] : S \in SUBSET AllID}]
  /\ res \in [Actor -> {"none", "ok", "notfound", "error"}]
  /\ calls \in 0..MaxCalls

Init ==
  /\ keychain = [i \in AllID |-> Absent]
  /\ heap = [a \in Actor |-> [i \in AllID |-> [raw |-> Zero, own |-> Zero]]]
  /\ value = [a \in Actor |-> [i \in AllID |-> "own"]]
  /\ call = [a \in Actor |-> Idle]
  /\ todo = [a \in Actor |-> {}]
  /\ failed = [a \in Actor |-> FALSE]
  /\ left = [a \in Actor |-> {}]
  /\ answer = [a \in Actor |-> <<>>]
  /\ res = [a \in Actor |-> "none"]
  /\ calls = 0

Return(a, r) ==
  /\ call' = [call EXCEPT ![a] = [@ EXCEPT !.pc = "idle"]]
  /\ res' = [res EXCEPT ![a] = r]

Begin(a, k, i, l) ==
  /\ call[a].pc = "idle"
  /\ calls < MaxCalls
  /\ calls' = calls + 1
  /\ call' = [call EXCEPT ![a] = [kind |-> k, id |-> i, pc |-> l]]
  /\ res' = [res EXCEPT ![a] = "none"]
  /\ answer' = [answer EXCEPT ![a] = <<>>]

-----------------------------------------------------------------------------
(* PassValue, on a process's memory h and its values r *)

\* Marshal returns the value's own buffer.
Marshal(h, r, i) == h[i][r[i]]

\* Variant: the value keeps the buffer it is given.
Unmarshal_Alias(h, r, i) == [heap |-> h, value |-> [r EXCEPT ![i] = "raw"]]

\* Unmarshal copies the buffer it is given.
Unmarshal(h, r, i) == [heap |-> [h EXCEPT ![i].own = h[i].raw], value |-> [r EXCEPT ![i] = "own"]]

\* The store's clear(buffer).
Clear(h, i, b) == [h EXCEPT ![i][b] = Zero]

\* A store loads a secret: its data into a buffer, Unmarshal, and clear.
Load(h, r, i) ==
  LET u == Unmarshal([h EXCEPT ![i].raw = keychain[i].val], r, i)
  IN  [heap |-> Clear(u.heap, i, "raw"), value |-> u.value]

\* ... all of S.
LoadAll(a, S) ==
  [heap  |-> [i \in AllID |-> IF i \in S THEN Load(heap[a], value[a], i).heap[i] ELSE heap[a][i]],
   value |-> [i \in AllID |-> IF i \in S THEN Load(heap[a], value[a], i).value[i] ELSE value[a][i]]]

-----------------------------------------------------------------------------
(* set *)

\* The argument id=value, or the payload on stdin: JSON with a secret, with
\* or without metadata, or the secret itself.  Metadata flags win over stdin.
MergedMetadata(source, flag) ==
  IF flag THEN "flag" ELSE IF source = "jsonmeta" THEN "stdin" ELSE "none"

\* SetCommand up to the store's call: the parsed value is copied into a
\* PassValue.
Set(a, i, v, source, flag, force) ==
  /\ Begin(a, IF force THEN "upsert" ELSE "set", i, MergedMetadata(source, flag))
  /\ LET u == Unmarshal([heap[a] EXCEPT ![i].raw = v], value[a], i)
     IN  heap' = [heap EXCEPT ![a] = u.heap] /\ value' = [value EXCEPT ![a] = u.value]
  /\ UNCHANGED <<keychain, todo, failed, left>>

\* stdin ends with the command's context, or an identifier or flag is bad.
SetFails(a, i) ==
  /\ call[a].pc = "idle"
  /\ calls < MaxCalls
  /\ calls' = calls + 1
  /\ call' = [call EXCEPT ![a] = [kind |-> "set", id |-> i, pc |-> "idle"]]
  /\ res' = [res EXCEPT ![a] = "error"]
  /\ UNCHANGED <<keychain, heap, value, todo, failed, left, answer>>

\* kc.Save or kc.Upsert: what Marshal returned is stored and then zeroed; a
\* Save may be refused where there is a secret, either may fail, before or
\* after Marshal.
Save(a) ==
  /\ call[a].kind \in {"set", "upsert"} /\ call[a].pc \in Metadata
  /\ LET i == call[a].id
         cleared == [heap EXCEPT ![a] = Clear(heap[a], i, value[a][i])]
     IN  \/ /\ keychain' = [keychain EXCEPT ![i] =
                  [val |-> Marshal(heap[a], value[a], i), meta |-> call[a].pc]]
            /\ Return(a, "ok")
            /\ heap' = cleared
         \/ /\ Return(a, "error")
            /\ UNCHANGED keychain
            /\ heap' \in {heap, cleared}
  /\ UNCHANGED <<value, todo, failed, left, answer, calls>>

-----------------------------------------------------------------------------
(* rm *)

\* validateArgs: names, or --all, whose names are listed first.
Rm(a, S) ==
  /\ S # {}
  /\ Begin(a, "rm", NoID, "delete")
  /\ todo' = [todo EXCEPT ![a] = S]
  /\ failed' = [failed EXCEPT ![a] = FALSE]
  /\ left' = [left EXCEPT ![a] = S]
  /\ UNCHANGED <<keychain, heap, value>>

RmAll(a) ==
  /\ Begin(a, "rmall", NoID, "list")
  /\ failed' = [failed EXCEPT ![a] = FALSE]
  /\ UNCHANGED <<keychain, heap, value, todo, left>>

Present == {i \in AllID : keychain[i] # Absent}

\* runRm: kc.GetAllMetadata.
RmLists(a) ==
  /\ call[a].kind = "rmall" /\ call[a].pc = "list"
  /\ \/ /\ todo' = [todo EXCEPT ![a] = Present]
        /\ call' = [call EXCEPT ![a].pc = "delete"]
        /\ UNCHANGED res
        /\ left' = [left EXCEPT ![a] = Present]
     \/ Return(a, "error") /\ UNCHANGED <<todo, left>>
  /\ UNCHANGED <<keychain, heap, value, failed, answer, calls>>

\* One kc.Delete (in any order, where the code sorts the names); an error is
\* kept and the loop goes on.
RmDeletes(a, i) ==
  /\ call[a].pc = "delete" /\ i \in todo[a]
  /\ todo' = [todo EXCEPT ![a] = @ \ {i}]
  /\ \/ /\ keychain' = [keychain EXCEPT ![i] = Absent]
        /\ left' = [left EXCEPT ![a] = @ \ {i}]
        /\ UNCHANGED failed
     \/ /\ failed' = [failed EXCEPT ![a] = TRUE]
        /\ UNCHANGED <<keychain, left>>
  /\ UNCHANGED <<heap, value, call, answer, res, calls>>

RmReturns(a) ==
  /\ call[a].pc = "delete" /\ todo[a] = {}
  /\ Return(a, IF failed[a] THEN "error" ELSE "ok")
  /\ UNCHANGED <<keychain, heap, value, todo, failed, left, answer, calls>>

-----------------------------------------------------------------------------
(* get, ls, and the plugin's GetSecrets *)

\* GetCommand and ListCommand only read.
Get(a, i) ==
  /\ Begin(a, "get", i, "read")
  /\ UNCHANGED <<keychain, heap, value, todo, failed, left>>

Ls(a) ==
  /\ Begin(a, "ls", NoID, "read")
  /\ UNCHANGED <<keychain, heap, value, todo, failed, left>>

\* kc.Get or kc.GetAllMetadata, which may also fail.
Read(a) ==
  /\ call[a].pc = "read"
  /\ LET i == call[a].id
     IN  \/ Return(a, "error") /\ UNCHANGED <<heap, value>>
         \/ call[a].kind = "ls" /\ Return(a, "ok") /\ UNCHANGED <<heap, value>>
         \/ /\ call[a].kind = "get" /\ keychain[i] = Absent
            /\ Return(a, "notfound")
            /\ UNCHANGED <<heap, value>>
         \/ /\ call[a].kind = "get" /\ keychain[i] # Absent
            /\ Return(a, "ok")
            /\ heap' = [heap EXCEPT ![a] = LoadAll(a, {i}).heap]
            /\ value' = [value EXCEPT ![a] = LoadAll(a, {i}).value]
  /\ UNCHANGED <<keychain, todo, failed, left, answer, calls>>

\* What callers of the plugin may see.
Visible(S) == S \ Reserved

\* GetSecrets for a pattern that matches S: Filter loads what there is, and an
\* envelope takes the value's own buffer.
GetSecrets(a, S) ==
  /\ call[a].pc = "idle"
  /\ calls < MaxCalls
  /\ calls' = calls + 1
  /\ LET M == S \cap Present
         m == LoadAll(a, M)
     IN  /\ heap' = [heap EXCEPT ![a] = m.heap]
         /\ value' = [value EXCEPT ![a] = m.value]
         /\ answer' = [answer EXCEPT ![a] =
              [i \in Visible(M) |-> Marshal(m.heap, m.value, i)]]
         /\ res' = [res EXCEPT ![a] = IF Visible(M) = {} THEN "notfound" ELSE "ok"]
  /\ call' = [call EXCEPT ![a] = [kind |-> "resolve", id |-> NoID, pc |-> "idle"]]
  /\ UNCHANGED <<keychain, todo, failed, left>>

\* GetSecrets where Filter returns an error.
FilterFails(a) ==
  /\ call[a].pc = "idle"
  /\ calls < MaxCalls
  /\ calls' = calls + 1
  /\ call' = [call EXCEPT ![a] = [kind |-> "resolve", id |-> NoID, pc |-> "idle"]]
  /\ res' = [res EXCEPT ![a] = "error"]
  /\ answer' = [answer EXCEPT ![a] = <<>>]
  /\ UNCHANGED <<keychain, heap, value, todo, failed, left>>

Next ==
  \E a \in Actor :
    \/ \E i \in AllID, v \in Value, s \in {"arg", "raw", "json", "jsonmeta"}, f, o \in BOOLEAN :
         Set(a, i, v, s, f, o)
    \/ \E i \in AllID : SetFails(a, i) \/ Get(a, i) \/ RmDeletes(a, i)
    \/ Save(a)
    \/ \E S \in SUBSET AllID : Rm(a, S) \/ GetSecrets(a, S)
    \/ RmAll(a) \/ RmLists(a) \/ RmReturns(a)
    \/ Ls(a) \/ Read(a) \/ FilterFails(a)

Spec == Init /\ [][Next]_vars

-----------------------------------------------------------------------------
(* Properties *)

\* Secrets survive the zeroing of buffers: the keychain never holds zeros, and
\* the plugin never returns them, whatever commands have run before; nor does
\* it return a secret of the engine's own realm (Unmarshal, Save, GetSecrets).
SecretsSurviveClearing ==
  /\ \A i \in AllID : keychain[i] # Absent => keychain[i].val # Zero
  /\ \A a \in Actor : \A i \in DOMAIN answer[a] : answer[a][i] \in Value /\ i \notin Reserved

\* rm returns no error only if each secret it was called for, or found with
\* --all, was deleted since: one that failed does not keep it from the others,
\* nor do they hide its error (runRm).
RmTellsTheTruth ==
  \A a \in Actor : call[a].kind \in {"rm", "rmall"} /\ res[a] = "ok" => left[a] = {}

==============================================================================
