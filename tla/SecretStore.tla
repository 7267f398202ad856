----------------------------- MODULE SecretStore -----------------------------
(***************************************************************************)
(* What a credential store promises its users (store/store.go): a map from *)
(* IDs to credentials.  One operation changes the entry of one ID, in one  *)
(* step, and a read answers with a subset of the map as it is at one       *)
(* moment, metadata and secret of an entry belonging together.  A backend  *)
(* that is interrupted may lose or damage the one entry it works on.       *)
(***************************************************************************)
CONSTANTS
  Client,   \* users of the store
  ID,       \* credential identifiers
  Version,  \* credentials; each Save stores one of its own
  Absent,   \* no credential under the ID
  Torn      \* an entry a backend was interrupted on

VARIABLES
  kv,       \* the map
  ans       \* what each user was last told: triples of ID, metadata, secret

Init ==
  /\ kv = [id \in ID |-> Absent]
  /\ ans = [c \in Client |-> {}]

\* Save and Upsert, once they have succeeded.
Put(id, v) == kv' = [kv EXCEPT ![id] = v]

\* Delete, and a Save that failed after it had removed the old credential.
Erase(id) == kv' = [kv EXCEPT ![id] = Absent]

\* An operation that stopped half-way.
Interrupt(id) == kv' = [kv EXCEPT ![id] = Torn]

Change ==
  /\ \E id \in ID : (\E v \in Version : Put(id, v)) \/ Erase(id) \/ Interrupt(id)
  /\ UNCHANGED ans

\* An entry as a read may report it.  A torn one still reports a credential
\* whose metadata and secret belong together, or nothing.
Reported(t) ==
  /\ t[2] = t[3]
  /\ t[2] \in Version
  /\ kv[t[1]] \in {t[2], Torn}

\* Get, Filter, GetAllMetadata.
Lookup(c) ==
  /\ ans'[c] \subseteq ID \X Version \X Version
  /\ \A t \in ans'[c] : Reported(t)
  /\ \A d \in Client \ {c} : ans'[d] = ans[d]
  /\ UNCHANGED kv

Next == Change \/ \E c \in Client : Lookup(c)

Spec == Init /\ [][Next]_<<kv, ans>>

==============================================================================
