----------------------------- MODULE MCStoresLive -----------------------------
(***************************************************************************)
(* The stores whose operations wait for others: the posixage store         *)
(* (PosixStore), for a mutex and a file lock, and the Linux keychain store *)
(* (KeychainLinux), for a collection that is locked again and again.  A    *)
(* behaviour is one of one store; the other rests.                         *)
(***************************************************************************)
EXTENDS MCPosixStore

CONSTANTS Caller, Key, Meta, MaxItems, MaxKeySaves, MaxKeyCalls, MaxRetries, KeyKinds, KeyFaults,
          NoItem, NoKey, NoMeta

VARIABLES
  store,  \* which one a behaviour is about
  items, locked, keyPc, keyOp, asleep, found, tries, keyGot, keyRes, relocks, calm, alone,
  keySaves, keyCalls                                       \* the variables of KeychainLinux

K == INSTANCE KeychainLinux WITH
       Client <- Caller, ID <- Key, MaxSaves <- MaxKeySaves, MaxCalls <- MaxKeyCalls,
       Kinds <- KeyKinds, Faults <- KeyFaults, NoID <- NoKey, pc <- keyPc, op <- keyOp,
       got <- keyGot, res <- keyRes, saves <- keySaves, calls <- keyCalls

ASSUME KeychainAssumed == K!KeychainAssumption /\ K!ItemAssumption

kVars == <<items, locked, keyPc, keyOp, asleep, found, tries, keyGot, keyRes, relocks, calm, alone,
           keySaves, keyCalls>>

MCInit == store \in {"posixage", "keychain"} /\ Init /\ K!Init

MCNext ==
  \/ store = "posixage" /\ Next /\ UNCHANGED <<store, kVars>>
  \/ store = "keychain" /\ K!Next /\ UNCHANGED <<store, vars>>

\* With the fairness of PosixStore and of KeychainLinux, for the store that runs.
MCSpec ==
  /\ MCInit /\ [][MCNext]_<<store, vars, kVars>>
  /\ \A c \in Client : WF_vars(store = "posixage" /\ Step(c))
  /\ \A c \in Caller : WF_kVars(store = "keychain" /\ K!Step(c))

\* Every operation of the Linux keychain store returns, even when the collection
\* is locked again and again (KeychainLinux, withRelockRetry).
KeychainReturns == K!OperationsReturn
==============================================================================
