--------------------------- MODULE KeychainMetadata ---------------------------
(***************************************************************************)
(* How a credential's metadata travels through a keychain item's           *)
(* attributes (store/keychain/keychain.go).  Save prefixes every metadata  *)
(* key with "x_" and adds the store's own keys; a read strips both again.  *)
(* The two loops run over the keys in the order of a Go map, which is any. *)
(* A key is its base name and how often "x_" stands before it; a keychain  *)
(* may add attributes of its own (external: "xdg:schema" on Linux).        *)
(***************************************************************************)
EXTENDS Integers, FiniteSets, Functions

CONSTANTS
  Base,     \* base names of metadata keys, the internal ones among them
  Value,    \* metadata values
  MaxX,     \* bound: "x_" prefixes of a key the caller uses
  MaxKeys,  \* bound: keys of the caller's metadata
  Internal  \* what the store writes under its own keys (external keys too)

InternalKey == {"service:group", "service:name", "id"}
ExternalKey == {"xdg:schema"}

\* What the constants have to be.
MetadataAssumption ==
  /\ InternalKey \subseteq Base
  /\ Base \cap ExternalKey = {}
  /\ MaxX \in Nat /\ MaxKeys \in Nat
  /\ Internal \notin Value

VARIABLES
  metadata,   \* what the caller saves
  attributes, \* the map the helpers work on
  keys,       \* keys collected and not yet visited
  pc

vars == <<metadata, attributes, keys, pc>>

Key(b, n) == [base |-> b, x |-> n]
Prefixed(k) == [k EXCEPT !.x = @ + 1]
Stripped(k) == [k EXCEPT !.x = @ - 1]
UserKey == {Key(b, n) : b \in Base, n \in 0..MaxX}

\* m[k] = v and delete(m, k) on Go maps.
Put(m, k, v) == [j \in DOMAIN m \cup {k} |-> IF j = k THEN v ELSE m[j]]
Delete(m, ks) == Restrict(m, DOMAIN m \ ks)

Metadata == UNION {[K -> Value] : K \in {S \in SUBSET UserKey : Cardinality(S) <= MaxKeys}}

\* The types of the variables; the keys to visit are keys of the map.
TypeOK ==
  /\ DOMAIN metadata \subseteq UserKey
  /\ \A k \in DOMAIN metadata : metadata[k] \in Value
  /\ \A k \in DOMAIN attributes :
       /\ k.base \in Base \cup ExternalKey /\ k.x \in 0..(MaxX + 1)
       /\ attributes[k] \in Value \cup {Internal}
  /\ keys \subseteq DOMAIN attributes
  /\ pc \in {"prefix", "stored", "strip", "done"}

Init ==
  /\ metadata \in Metadata
  /\ attributes = metadata
  /\ keys = DOMAIN metadata
  /\ pc = "prefix"

\* Variant: the loop ranges over the map it changes and meets the new keys.
PrefixKey_NotCollected ==
  /\ pc = "prefix"
  /\ \E k \in keys :
       /\ attributes' = Delete(Put(attributes, Prefixed(k), attributes[k]), {k})
       /\ keys' = (keys \ {k}) \cup {Prefixed(k)}
  /\ UNCHANGED <<metadata, pc>>

\* One turn of safelySetMetadata's loop.
PrefixKey ==
  /\ pc = "prefix"
  /\ \E k \in keys :
       /\ attributes' = Delete(Put(attributes, Prefixed(k), attributes[k]), {k})
       /\ keys' = keys \ {k}
  /\ UNCHANGED <<metadata, pc>>

\* The rest of safelySetMetadata, and safelySetID: no "id" key is left that
\* it would have to save.  The keychain stores the item and adds its own.
SetInternal ==
  /\ pc = "prefix"
  /\ keys = {}
  /\ LET own == {Key(b, 0) : b \in InternalKey \cup ExternalKey}
         saved == IF Key("id", 0) \in DOMAIN attributes
                  THEN Put(attributes, Key("id", 1), attributes[Key("id", 0)])
                  ELSE attributes
     IN  attributes' = [k \in DOMAIN saved \cup own |->
                          IF k \in own THEN Internal ELSE saved[k]]
  /\ pc' = "stored"
  /\ UNCHANGED <<metadata, keys>>

\* safelyCleanMetadata on the attributes of an item that was read.
DropInternal ==
  /\ pc = "stored"
  /\ attributes' = Delete(attributes, {Key(b, 0) : b \in InternalKey})
  /\ keys' = DOMAIN attributes'
  /\ pc' = "strip"
  /\ UNCHANGED metadata

\* Variant: only prefixed keys are deleted.
StripKey_KeepsForeign ==
  /\ pc = "strip"
  /\ \E k \in keys :
       /\ attributes' = IF k.x > 0 THEN Delete(Put(attributes, Stripped(k), attributes[k]), {k})
                                   ELSE attributes
       /\ keys' = keys \ {k}
  /\ UNCHANGED <<metadata, pc>>

\* One turn of its loop: a prefixed key is restored, every other one dropped.
StripKey ==
  /\ pc = "strip"
  /\ \E k \in keys :
       /\ attributes' = Delete(IF k.x > 0 THEN Put(attributes, Stripped(k), attributes[k])
                                          ELSE attributes, {k})
       /\ keys' = keys \ {k}
  /\ UNCHANGED <<metadata, pc>>

Finish ==
  /\ pc = "strip"
  /\ keys = {}
  /\ pc' = "done"
  /\ UNCHANGED <<metadata, attributes, keys>>

Next == PrefixKey \/ SetInternal \/ DropInternal \/ StripKey \/ Finish

Spec == Init /\ [][Next]_vars

-----------------------------------------------------------------------------
\* The caller uses a key and the same key with one more "x_".
Nested(m) == \E k \in DOMAIN m : Prefixed(k) \in DOMAIN m

\* Whatever the iteration orders, the caller gets back exactly the metadata it
\* saved, keys that look like the store's own included, as long as it does not
\* use some key both with and without a leading "x_".
RoundTrip == pc = "done" /\ ~Nested(metadata) => attributes = metadata

==============================================================================
