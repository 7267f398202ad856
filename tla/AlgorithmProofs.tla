---------------------------- MODULE AlgorithmProofs ----------------------------
(***************************************************************************)
(* What the parts of MCAlgorithms compute, for every value of the          *)
(* constants: the keychain attributes, the services behind the client, the *)
(* release tool and the blocks of a session.  Each part has an inductive   *)
(* invariant of its own variables, one lemma per step that keeps it, and   *)
(* rests while a behaviour is about another part.                          *)
(***************************************************************************)
EXTENDS MCAlgorithms, TLAPS

-----------------------------------------------------------------------------
(* Keychain attributes *)

OwnKey == {KM!Key(b, 0) : b \in KM!InternalKey \cup KM!ExternalKey}
ForeignKey == {KM!Key(b, 0) : b \in KM!ExternalKey}

\* The keys safelySetMetadata has visited are prefixed, the others as they were.
Prefixing ==
  /\ keys \subseteq DOMAIN metadata
  /\ DOMAIN attributes = keys \cup {KM!Prefixed(k) : k \in DOMAIN metadata \ keys}
  /\ \A k \in keys : attributes[k] = metadata[k]
  /\ \A k \in DOMAIN metadata \ keys : attributes[KM!Prefixed(k)] = metadata[k]

\* An item's attributes: every key prefixed, and the store's own.
Stored ==
  /\ DOMAIN attributes = OwnKey \cup {KM!Prefixed(k) : k \in DOMAIN metadata}
  /\ \A k \in DOMAIN metadata : attributes[KM!Prefixed(k)] = metadata[k]

\* The keys safelyCleanMetadata has visited are stripped or gone.
Stripping ==
  /\ keys \subseteq ForeignKey \cup {KM!Prefixed(k) : k \in DOMAIN metadata}
  /\ DOMAIN attributes = keys \cup {k \in DOMAIN metadata : KM!Prefixed(k) \notin keys}
  /\ \A k \in DOMAIN metadata :
       /\ KM!Prefixed(k) \in keys => attributes[KM!Prefixed(k)] = metadata[k]
       /\ KM!Prefixed(k) \notin keys => attributes[k] = metadata[k]

\* The inductive invariant of the attribute helpers.
MetadataInv ==
  /\ DOMAIN metadata \subseteq KM!UserKey
  /\ metadata = [k \in DOMAIN metadata |-> metadata[k]]
  /\ attributes = [k \in DOMAIN attributes |-> attributes[k]]
  /\ pc \in {"prefix", "stored", "strip", "done"}
  /\ ~ KM!Nested(metadata) =>
       /\ pc = "prefix" => Prefixing
       /\ pc = "stored" => Stored
       /\ pc = "strip" => Stripping
       /\ pc = "done" => attributes = metadata

\* "x_" before a key and away again.
LEMMA KeyFacts ==
  /\ \A k \in KM!UserKey : /\ KM!Prefixed(k).x > 0 /\ KM!Stripped(KM!Prefixed(k)) = k
                           /\ KM!Prefixed(k) # k /\ KM!Prefixed(k).base \in Base
  /\ \A k \in OwnKey : k.x = 0
  /\ \A k \in ForeignKey : k.x = 0 /\ k.base \notin Base
  /\ \A k \in KM!UserKey : k.base \in Base
<1>1. ASSUME NEW k \in KM!UserKey
      PROVE  /\ KM!Prefixed(k).x > 0 /\ KM!Stripped(KM!Prefixed(k)) = k
             /\ KM!Prefixed(k) # k /\ KM!Prefixed(k).base \in Base /\ k.base \in Base
  <2>1. PICK b \in Base, n \in 0..MaxX : k = [base |-> b, x |-> n]
    BY DEF KM!UserKey, KM!Key
  <2>2. n \in Int
    BY MetadataAssumed DEF KM!MetadataAssumption
  <2>3. KM!Prefixed(k) = [base |-> b, x |-> n + 1]
    BY <2>1 DEF KM!Prefixed
  <2>4. KM!Stripped(KM!Prefixed(k)) = [base |-> b, x |-> (n + 1) - 1]
    BY <2>3 DEF KM!Stripped
  <2>5. (n + 1) - 1 = n /\ n + 1 > 0 /\ n + 1 # n
    BY <2>2, MetadataAssumed DEF KM!MetadataAssumption
  <2> QED
    BY <2>1, <2>3, <2>4, <2>5
<1>2. \A k \in OwnKey : k.x = 0
  BY DEF OwnKey, KM!Key
<1>3. \A k \in ForeignKey : k.x = 0 /\ k.base \notin Base
  BY MetadataAssumed DEF ForeignKey, KM!Key, KM!MetadataAssumption
<1> QED
  BY <1>1, <1>2, <1>3

\* What a key that no other key of the metadata nests in can be mistaken for.
LEMMA PrefixedFacts ==
  ASSUME DOMAIN metadata \subseteq KM!UserKey, ~ KM!Nested(metadata)
  PROVE  /\ \A i, j \in DOMAIN metadata : KM!Prefixed(i) = KM!Prefixed(j) => i = j
         /\ \A i \in DOMAIN metadata : KM!Prefixed(i) \notin DOMAIN metadata
         /\ \A i \in DOMAIN metadata : KM!Prefixed(i) \notin OwnKey
         /\ \A i \in DOMAIN metadata : i \notin ForeignKey
         /\ ForeignKey \subseteq OwnKey
<1>1. \A i, j \in DOMAIN metadata : KM!Prefixed(i) = KM!Prefixed(j) => i = j
  BY KeyFacts
<1>2. \A i \in DOMAIN metadata : KM!Prefixed(i) \notin DOMAIN metadata
  BY DEF KM!Nested
<1>3. \A i \in DOMAIN metadata : KM!Prefixed(i) \notin OwnKey
  BY KeyFacts
<1>4. \A i \in DOMAIN metadata : i \notin ForeignKey
  BY KeyFacts
<1>5. ForeignKey \subseteq OwnKey
  BY DEF ForeignKey, OwnKey
<1> QED
  BY <1>1, <1>2, <1>3, <1>4, <1>5

\* safelySetMetadata's loop.
LEMMA PrefixStep == MetadataInv /\ KM!PrefixKey => MetadataInv'
<1> SUFFICES ASSUME MetadataInv, KM!PrefixKey
             PROVE  MetadataInv'
  OBVIOUS
<1>1. PICK k \in keys :
        /\ attributes' = KM!Delete(KM!Put(attributes, KM!Prefixed(k), attributes[k]), {k})
        /\ keys' = keys \ {k}
  BY DEF KM!PrefixKey
<1>2. pc = "prefix" /\ pc' = pc /\ metadata' = metadata
  BY DEF KM!PrefixKey
<1>3. attributes' = [j \in DOMAIN attributes' |-> attributes'[j]]
  BY <1>1 DEF KM!Put, KM!Delete, KM!Restrict
<1>4. ASSUME ~ KM!Nested(metadata)
      PROVE  Prefixing'
  <2>1. Prefixing /\ DOMAIN metadata \subseteq KM!UserKey
    BY <1>2, <1>4 DEF MetadataInv
  <2>2. k \in DOMAIN metadata /\ keys \subseteq DOMAIN metadata
    BY <1>1, <2>1 DEF Prefixing
  <2>3. /\ DOMAIN attributes' = (DOMAIN attributes \cup {KM!Prefixed(k)}) \ {k}
        /\ k # KM!Prefixed(k)
    BY <1>1, <2>1, <2>2, KeyFacts DEF KM!Put, KM!Delete, KM!Restrict
  <2>4. attributes'[KM!Prefixed(k)] = attributes[k]
    BY <1>1, <2>3 DEF KM!Put, KM!Delete, KM!Restrict
  <2>5. \A j \in DOMAIN attributes \ {k, KM!Prefixed(k)} : attributes'[j] = attributes[j]
    BY <1>1 DEF KM!Put, KM!Delete, KM!Restrict
  <2>6. DOMAIN attributes' = keys' \cup {KM!Prefixed(j) : j \in DOMAIN metadata \ keys'}
    BY <1>1, <1>4, <2>1, <2>2, <2>3, PrefixedFacts DEF Prefixing
  <2>7. \A j \in keys' : attributes'[j] = metadata[j]
    BY <1>1, <1>4, <2>1, <2>2, <2>5, PrefixedFacts DEF Prefixing
  <2>8. \A j \in DOMAIN metadata \ keys' : attributes'[KM!Prefixed(j)] = metadata[j]
    <3> TAKE j \in DOMAIN metadata \ keys'
    <3>1. CASE j = k
      BY <3>1, <1>1, <2>1, <2>4 DEF Prefixing
    <3>2. CASE j # k
      BY <3>2, <1>1, <1>4, <2>1, <2>2, <2>5, PrefixedFacts DEF Prefixing
    <3> QED
      BY <3>1, <3>2
  <2>9. keys' \subseteq DOMAIN metadata
    BY <1>1, <2>2
  <2> QED
    BY <1>2, <2>6, <2>7, <2>8, <2>9 DEF Prefixing
<1> QED
  BY <1>2, <1>3, <1>4 DEF MetadataInv, KM!Nested

\* The store's own keys join the prefixed ones.
LEMMA InternalStep == MetadataInv /\ KM!SetInternal => MetadataInv'
<1> SUFFICES ASSUME MetadataInv, KM!SetInternal
             PROVE  MetadataInv'
  OBVIOUS
<1> DEFINE saved == IF KM!Key("id", 0) \in DOMAIN attributes
                    THEN KM!Put(attributes, KM!Key("id", 1), attributes[KM!Key("id", 0)])
                    ELSE attributes
<1>1. /\ keys = {}
      /\ attributes' = [k \in DOMAIN saved \cup OwnKey |->
                          IF k \in OwnKey THEN Internal ELSE saved[k]]
  BY DEF KM!SetInternal, OwnKey
<1>2. pc = "prefix" /\ pc' = "stored" /\ metadata' = metadata
  BY DEF KM!SetInternal
<1>3. attributes' = [j \in DOMAIN attributes' |-> attributes'[j]]
  BY <1>1
<1>4. ASSUME ~ KM!Nested(metadata)
      PROVE  Stored'
  <2>1. /\ DOMAIN metadata \subseteq KM!UserKey
        /\ DOMAIN attributes = {KM!Prefixed(k) : k \in DOMAIN metadata}
        /\ \A k \in DOMAIN metadata : attributes[KM!Prefixed(k)] = metadata[k]
    BY <1>1, <1>2, <1>4 DEF MetadataInv, Prefixing
  <2>2. KM!Key("id", 0) \in OwnKey
    BY DEF OwnKey, KM!InternalKey
  <2>3. saved = attributes
    BY <1>4, <2>1, <2>2, PrefixedFacts
  <2>4. /\ DOMAIN attributes' = DOMAIN attributes \cup OwnKey
        /\ \A k \in DOMAIN attributes \ OwnKey : attributes'[k] = attributes[k]
    BY <1>1, <2>3
  <2>5. DOMAIN attributes' = OwnKey \cup {KM!Prefixed(k) : k \in DOMAIN metadata}
    BY <2>1, <2>4
  <2>6. \A k \in DOMAIN metadata : attributes'[KM!Prefixed(k)] = metadata[k]
    BY <1>4, <2>1, <2>4, PrefixedFacts
  <2> QED
    BY <1>2, <2>5, <2>6 DEF Stored
<1> QED
  BY <1>2, <1>3, <1>4 DEF MetadataInv, KM!Nested

\* A read drops the store's own keys.
LEMMA DropStep == MetadataInv /\ KM!DropInternal => MetadataInv'
<1> SUFFICES ASSUME MetadataInv, KM!DropInternal
             PROVE  MetadataInv'
  OBVIOUS
<1> DEFINE own == {KM!Key(b, 0) : b \in KM!InternalKey}
<1>1. attributes' = KM!Delete(attributes, own) /\ keys' = DOMAIN attributes'
  BY DEF KM!DropInternal
<1>2. pc = "stored" /\ pc' = "strip" /\ metadata' = metadata
  BY DEF KM!DropInternal
<1>3. attributes' = [j \in DOMAIN attributes' |-> attributes'[j]]
  BY <1>1 DEF KM!Put, KM!Delete, KM!Restrict
<1>4. ASSUME ~ KM!Nested(metadata)
      PROVE  Stripping'
  <2>1. Stored /\ DOMAIN metadata \subseteq KM!UserKey
    BY <1>2, <1>4 DEF MetadataInv
  <2>2. own \subseteq OwnKey /\ OwnKey \subseteq own \cup ForeignKey
    BY DEF OwnKey, ForeignKey
  <2>3. ForeignKey \cap own = {}
    BY MetadataAssumed DEF ForeignKey, KM!Key, KM!MetadataAssumption
  <2>4. /\ DOMAIN attributes' = DOMAIN attributes \ own
        /\ \A k \in DOMAIN attributes \ own : attributes'[k] = attributes[k]
    BY <1>1 DEF KM!Put, KM!Delete, KM!Restrict
  <2>5. keys' = ForeignKey \cup {KM!Prefixed(k) : k \in DOMAIN metadata}
    <3>1. PICK P : P = {KM!Prefixed(k) : k \in DOMAIN metadata}
      OBVIOUS
    <3>2. P \cap OwnKey = {} /\ ForeignKey \subseteq OwnKey
      BY <1>4, <2>1, <3>1, PrefixedFacts
    <3>3. keys' = (OwnKey \cup P) \ own
      BY <1>1, <2>1, <2>4, <3>1 DEF Stored
    <3> QED
      BY <2>2, <2>3, <3>1, <3>2, <3>3
  <2>6. \A k \in DOMAIN metadata : attributes'[KM!Prefixed(k)] = metadata[k]
    BY <1>1, <2>1, <2>4, <2>5 DEF Stored
  <2> QED
    BY <1>1, <1>2, <2>5, <2>6 DEF Stripping
<1> QED
  BY <1>2, <1>3, <1>4 DEF MetadataInv, KM!Nested

\* safelyCleanMetadata's loop.
LEMMA StripStep == MetadataInv /\ KM!StripKey => MetadataInv'
<1> SUFFICES ASSUME MetadataInv, KM!StripKey
             PROVE  MetadataInv'
  OBVIOUS
<1>1. PICK k \in keys :
        /\ attributes' = KM!Delete(IF k.x > 0
                                   THEN KM!Put(attributes, KM!Stripped(k), attributes[k])
                                   ELSE attributes, {k})
        /\ keys' = keys \ {k}
  BY DEF KM!StripKey
<1>2. pc = "strip" /\ pc' = pc /\ metadata' = metadata
  BY DEF KM!StripKey
<1>3. attributes' = [j \in DOMAIN attributes' |-> attributes'[j]]
  BY <1>1 DEF KM!Put, KM!Delete, KM!Restrict
<1>4. ASSUME ~ KM!Nested(metadata)
      PROVE  Stripping'
  <2>1. Stripping /\ DOMAIN metadata \subseteq KM!UserKey
    BY <1>2, <1>4 DEF MetadataInv
  <2>2. k \in ForeignKey \/ \E j \in DOMAIN metadata : k = KM!Prefixed(j)
    BY <1>1, <2>1 DEF Stripping
  <2>3. keys' \subseteq ForeignKey \cup {KM!Prefixed(j) : j \in DOMAIN metadata}
    BY <1>1, <2>1 DEF Stripping
  <2>4. CASE k \in ForeignKey
    <3>1. k.x = 0 /\ k \notin DOMAIN metadata
      BY <1>4, <2>1, <2>4, KeyFacts, PrefixedFacts
    <3>2. attributes' = KM!Delete(attributes, {k})
      BY <1>1, <3>1
    <3>3. /\ DOMAIN attributes' = DOMAIN attributes \ {k}
          /\ \A j \in DOMAIN attributes \ {k} : attributes'[j] = attributes[j]
      BY <3>2 DEF KM!Put, KM!Delete, KM!Restrict
    <3>4. \A j \in DOMAIN metadata : KM!Prefixed(j) # k
      BY <1>4, <2>1, <2>4, PrefixedFacts
    <3>5. \A j \in DOMAIN metadata : KM!Prefixed(j) \in keys' <=> KM!Prefixed(j) \in keys
      BY <1>1, <3>4
    <3>6. DOMAIN attributes' = keys' \cup {j \in DOMAIN metadata : KM!Prefixed(j) \notin keys'}
      BY <1>1, <2>1, <3>1, <3>3, <3>5 DEF Stripping
    <3>7. \A j \in DOMAIN metadata :
            /\ KM!Prefixed(j) \in keys' => attributes'[KM!Prefixed(j)] = metadata[j]
            /\ KM!Prefixed(j) \notin keys' => attributes'[j] = metadata[j]
      BY <2>1, <3>1, <3>3, <3>4, <3>5 DEF Stripping
    <3> QED
      BY <1>2, <2>3, <3>6, <3>7 DEF Stripping
  <2>5. ASSUME NEW j \in DOMAIN metadata, k = KM!Prefixed(j)
        PROVE  Stripping'
    <3>1. k.x > 0 /\ KM!Stripped(k) = j
      BY <2>1, <2>5, KeyFacts
    <3>2. attributes' = KM!Delete(KM!Put(attributes, j, attributes[k]), {k})
      BY <1>1, <3>1
    <3>3. j \notin keys /\ k \notin DOMAIN metadata /\ j # k
      BY <1>4, <2>1, <2>5, PrefixedFacts DEF Stripping
    <3>4. /\ DOMAIN attributes' = (DOMAIN attributes \cup {j}) \ {k}
          /\ attributes'[j] = attributes[k]
          /\ \A i \in DOMAIN attributes \ {j, k} : attributes'[i] = attributes[i]
      BY <3>2, <3>3 DEF KM!Put, KM!Delete, KM!Restrict
    <3>5. \A i \in DOMAIN metadata :
            KM!Prefixed(i) \in keys' <=> KM!Prefixed(i) \in keys /\ i # j
      BY <1>1, <1>4, <2>1, <2>5, PrefixedFacts
    <3>6. DOMAIN attributes' = keys' \cup {i \in DOMAIN metadata : KM!Prefixed(i) \notin keys'}
      BY <1>1, <2>1, <2>5, <3>3, <3>4, <3>5 DEF Stripping
    <3>7. attributes'[j] = metadata[j] /\ KM!Prefixed(j) \notin keys'
      BY <1>1, <2>1, <2>5, <3>4 DEF Stripping
    <3>8. \A i \in DOMAIN metadata \ {j} :
            /\ KM!Prefixed(i) \in keys' => attributes'[KM!Prefixed(i)] = metadata[i]
            /\ KM!Prefixed(i) \notin keys' => attributes'[i] = metadata[i]
      <4> TAKE i \in DOMAIN metadata \ {j}
      <4>1. CASE KM!Prefixed(i) \in keys
        BY <4>1, <1>4, <2>1, <2>5, <3>3, <3>4, <3>5, PrefixedFacts DEF Stripping
      <4>2. CASE KM!Prefixed(i) \notin keys
        BY <4>2, <2>1, <3>3, <3>4, <3>5 DEF Stripping
      <4> QED
        BY <4>1, <4>2
    <3> QED
      BY <1>2, <2>3, <3>6, <3>7, <3>8 DEF Stripping
  <2> QED
    BY <2>2, <2>4, <2>5
<1> QED
  BY <1>2, <1>3, <1>4 DEF MetadataInv, KM!Nested

\* With no key left to visit every key is stripped.
LEMMA FinishStep == MetadataInv /\ KM!Finish => MetadataInv'
<1> SUFFICES ASSUME MetadataInv, KM!Finish
             PROVE  MetadataInv'
  OBVIOUS
<1>1. /\ pc = "strip" /\ pc' = "done" /\ keys = {}
      /\ metadata' = metadata /\ attributes' = attributes
  BY DEF KM!Finish
<1>2. ASSUME ~ KM!Nested(metadata)
      PROVE  attributes = metadata
  <2>1. Stripping
    BY <1>1, <1>2 DEF MetadataInv
  <2>2. DOMAIN attributes = DOMAIN metadata
    BY <1>1, <2>1 DEF Stripping
  <2>3. \A k \in DOMAIN metadata : attributes[k] = metadata[k]
    BY <1>1, <2>1 DEF Stripping
  <2> QED
    BY <2>2, <2>3 DEF MetadataInv
<1> QED
  BY <1>1, <1>2 DEF MetadataInv, KM!Nested

\* The invariant holds of a behaviour of the sum, whichever part it is about.
LEMMA MetadataInvariant == MCSpec => []MetadataInv
<1>1. KM!Init => MetadataInv
  <2> SUFFICES ASSUME KM!Init
               PROVE  MetadataInv
    OBVIOUS
  <2>1. PICK K \in SUBSET KM!UserKey : metadata \in [K -> Value]
    BY DEF KM!Init, KM!Metadata
  <2>2. attributes = metadata /\ keys = DOMAIN metadata /\ pc = "prefix"
    BY DEF KM!Init
  <2> QED
    BY <2>1, <2>2 DEF MetadataInv, Prefixing
<1>2. MetadataRest => MetadataInv
  <2> SUFFICES ASSUME MetadataRest
               PROVE  MetadataInv
    OBVIOUS
  <2>1. metadata = <<>> /\ attributes = <<>> /\ pc = "done"
    BY DEF MetadataRest
  <2>2. DOMAIN metadata = {}
    BY <2>1
  <2> QED
    BY <2>1, <2>2 DEF MetadataInv
<1>3. MCInit => MetadataInv
  BY <1>1, <1>2 DEF MCInit
<1>4. MetadataInv /\ UNCHANGED kmVars => MetadataInv'
  BY DEF MetadataInv, kmVars, Prefixing, Stored, Stripping, KM!Nested
<1>5. MetadataInv /\ [MCNext]_<<part, vars, kmVars, rVars, ssVars, svVars>> => MetadataInv'
  <2> SUFFICES ASSUME MetadataInv, [MCNext]_<<part, vars, kmVars, rVars, ssVars, svVars>>
               PROVE  MetadataInv'
    OBVIOUS
  <2>1. KM!Next \/ UNCHANGED kmVars
    BY DEF MCNext
  <2> QED
    BY <2>1, <1>4, PrefixStep, InternalStep, DropStep, StripStep, FinishStep DEF KM!Next
<1> QED
  BY <1>3, <1>5, PTL DEF MCSpec

\* What the caller saves is what it reads: whatever keys and values the
\* metadata holds and in whatever order safelySetMetadata and
\* safelyCleanMetadata visit them, unless a key is used both with and without
\* a leading "x_" (keychain.go).
THEOREM MetadataSurvives == MCSpec => []MetadataRoundTrip
<1>1. MetadataInv => MetadataRoundTrip
  BY DEF MetadataInv, MetadataRoundTrip, KM!RoundTrip
<1> QED
  BY <1>1, MetadataInvariant, PTL

-----------------------------------------------------------------------------
(* The services behind the client *)

Field == {"pc", "proc", "arg", "ran", "todo", "items", "code", "answer", "info", "since", "ctx"}
Code == {"none", "http 404", "invalid_argument", "internal", "ok", "not_found", "allow", "deny"}

\* The place of an integrity level among the levels, the lowest if unspecified.
Rank(l) == IF l = "unspecified" THEN 1
           ELSE CHOOSE n \in DOMAIN SV!IntegrityLevels : SV!IntegrityLevels[n] = l

\* What a module may be told of a requester.
NoMoreTrust(info, sent) ==
  /\ info.signed => sent.signed
  /\ info.block \in {"zero", sent.block}
  /\ Rank(info.level) <= Rank(sent.level)
  /\ info.time # "zero" => sent.time # "unset"

\* The credentials among urls that a call is about.
Asked(r, urls) ==
  {u \in urls : /\ SV!ValidID(SV!DefaultKeyRewriter(u))
                /\ SV!Matches(r.arg, SV!DefaultKeyRewriter(u))}

\* A call has run its own procedure or none.
RouteInv(r) ==
  /\ DOMAIN r = Field
  /\ r.pc \in {"new", "dial", "serve", "get", "reply", "done"}
  /\ r.pc \in {"new", "dial"} => r.ran = "none" /\ r.answer = "none" /\ r.info = SV!NoInfo
  /\ r.pc \in {"new", "dial", "serve", "get"} => r.code = "none"
  /\ r.pc = "serve" => r.ran = r.proc /\ r.info = SV!NoInfo
  /\ r.pc = "get" => r.ran = "GetSecrets"
  /\ r.ran \in {"none", r.proc}
  /\ r.code \in Code
  /\ r.pc \notin {"new", "dial"} => r.code \in {"none", "http 404"} \/ r.ran = r.proc
  /\ r.answer = "unavailable" => r.pc = "done" /\ r.ran = "none"

\* What has been decided about a requester, and on which grounds.
AccessInv(r) ==
  /\ r.proc = "CheckAccess" => r.arg \in SV!Requester \cup {SV!NoRequester}
  /\ r.info # SV!NoInfo => NoMoreTrust(r.info, r.arg)
  /\ r.code = "allow" => r.ran = "CheckAccess" /\ r.info # SV!NoInfo
  /\ r.answer = "allow" => r.code = "allow"

\* What has been collected of what was there all the time.
SecretsInv(r) ==
  /\ r.since \subseteq URL
  /\ r.pc \in {"new", "dial", "serve"} => r.items = {}
  /\ r.ran = "GetSecrets" =>
       /\ \A i \in r.items : SV!Matches(r.arg, i.id) /\ SV!ValidID(i.id)
       /\ r.pc = "get" => Asked(r, r.since \ r.todo) \subseteq {i.url : i \in r.items}
       /\ r.code = "ok" => /\ r.items # {}
                           /\ Asked(r, r.since) \subseteq {i.url : i \in r.items}
       /\ r.code = "not_found" => Asked(r, r.since) = {}
  /\ r.proc = "GetSecrets" /\ r.answer = "ok" => r.code = "ok"
  /\ r.proc = "GetSecrets" /\ r.answer = "notfound" => r.code = "not_found"

CallInv(r) == RouteInv(r) /\ AccessInv(r) /\ SecretsInv(r)

\* What a call counts on has been in the helper's store since it began.
LiveInv(r) == \A u \in r.since : creds[u] # Absent

\* The inductive invariant of the services.
ServicesInv ==
  /\ creds \in [URL -> Secret \cup {Absent}]
  /\ DOMAIN call = Call /\ call = [c \in Call |-> call[c]]
  /\ \A c \in Call : CallInv(call[c]) /\ LiveInv(call[c])

\* A step of one call that leaves the helper's store alone.
LEMMA OneCallStep ==
  ASSUME ServicesInv, NEW c \in Call, NEW r, SV!Set(c, r), UNCHANGED creds,
         CallInv(r), r.since \subseteq call[c].since
  PROVE  ServicesInv'
<1>1. call' = [call EXCEPT ![c] = r]
  BY DEF SV!Set
<1>2. DOMAIN call' = Call /\ call' = [d \in Call |-> call'[d]] /\ call'[c] = r
  BY <1>1 DEF ServicesInv
<1>3. \A d \in Call \ {c} : call'[d] = call[d]
  BY <1>1 DEF ServicesInv
<1>4. \A d \in Call : CallInv(call'[d])
  BY <1>2, <1>3 DEF ServicesInv
<1>5. \A d \in Call : LiveInv(call[d])
  BY DEF ServicesInv
<1>6. \A d \in Call : LiveInv(call[d])'
  BY <1>2, <1>3, <1>5 DEF LiveInv
<1> QED
  BY <1>2, <1>4, <1>6 DEF ServicesInv

\* A call begins: what is in the store now is what it may count on.
LEMMA BeginStep ==
  ASSUME ServicesInv, NEW c \in Call, NEW pr \in Procs, NEW a \in SV!Arg(pr),
         SV!Begin(c, pr, a)
  PROVE  ServicesInv'
<1>1. PICK s : s = call[c]
  OBVIOUS
<1>2. PICK r : r = [s EXCEPT !.pc = "dial", !.proc = pr, !.arg = a,
                             !.since = {u \in URL : creds[u] # Absent}]
  OBVIOUS
<1>3. call' = [call EXCEPT ![c] = r] /\ creds' = creds /\ s.pc = "new"
  BY <1>1, <1>2 DEF SV!Begin, SV!Set
<1>4. CallInv(s)
  BY <1>1 DEF ServicesInv
<1>5. /\ DOMAIN r = Field /\ r.pc = "dial" /\ r.proc = pr /\ r.arg = a
      /\ r.since = {u \in URL : creds[u] # Absent}
      /\ r.ran = s.ran /\ r.items = s.items /\ r.code = s.code /\ r.answer = s.answer
      /\ r.info = s.info
  BY <1>2, <1>4 DEF CallInv, RouteInv, Field
<1>6. RouteInv(r)
  BY <1>3, <1>4, <1>5 DEF CallInv, RouteInv, Code
<1>7. pr = "CheckAccess" => a \in SV!Requester \cup {SV!NoRequester}
  BY DEF SV!Arg
<1>8. AccessInv(r)
  BY <1>3, <1>4, <1>5, <1>7 DEF CallInv, RouteInv, AccessInv
<1>9. SecretsInv(r)
  BY <1>3, <1>4, <1>5 DEF CallInv, RouteInv, SecretsInv
<1>10. DOMAIN call' = Call /\ call' = [d \in Call |-> call'[d]]
  BY <1>3 DEF ServicesInv
<1>11. \A d \in Call : CallInv(call'[d])
  BY <1>3, <1>6, <1>8, <1>9 DEF ServicesInv, CallInv
<1>12. \A d \in Call : LiveInv(call[d])'
  BY <1>3, <1>5 DEF ServicesInv, LiveInv
<1> QED
  BY <1>3, <1>10, <1>11, <1>12 DEF ServicesInv

\* Nobody listens, nobody serves the procedure, or its handler starts.
LEMMA DialStep ==
  ASSUME ServicesInv, NEW c \in Call, SV!Dial(c)
  PROVE  ServicesInv'
<1>1. PICK s : s = call[c]
  OBVIOUS
<1>2. CallInv(s) /\ s.pc = "dial"
  BY <1>1 DEF ServicesInv, SV!Dial
<1>3. PICK op : op = SV!NetError(c, "dial")
  OBVIOUS
<1>4. SV!Route(s.proc) \in {"none", s.proc}
  BY DEF SV!Route, SV!ServeHTTP
<1>5. PICK r : /\ call' = [call EXCEPT ![c] = r]
               /\ \/ r = [op EXCEPT !.pc = "done"]
                  \/ r = [s EXCEPT !.pc = "reply", !.code = "http 404"]
                  \/ r = [s EXCEPT !.pc = "serve", !.ran = s.proc]
  BY <1>1, <1>3, <1>4 DEF SV!Dial, SV!Set
<1>6. PICK w : op = [s EXCEPT !.ctx = FALSE, !.answer = w] /\ w \in {"unavailable", "error"}
  BY <1>1, <1>3 DEF SV!NetError
<1>7. /\ DOMAIN r = Field /\ r.proc = s.proc /\ r.arg = s.arg /\ r.since = s.since
      /\ r.items = s.items /\ r.info = s.info /\ r.todo = s.todo
      /\ \/ r.pc = "done" /\ r.ran = s.ran /\ r.code = s.code /\ r.answer = w
         \/ r.pc = "reply" /\ r.ran = s.ran /\ r.code = "http 404" /\ r.answer = s.answer
         \/ r.pc = "serve" /\ r.ran = s.proc /\ r.code = s.code /\ r.answer = s.answer
  BY <1>2, <1>5, <1>6 DEF CallInv, RouteInv, Field
<1>8. RouteInv(r)
  BY <1>2, <1>6, <1>7 DEF CallInv, RouteInv, Code
<1>9. AccessInv(r)
  BY <1>2, <1>6, <1>7 DEF CallInv, RouteInv, AccessInv
<1>10. SecretsInv(r)
  BY <1>2, <1>6, <1>7 DEF CallInv, RouteInv, SecretsInv
<1> QED
  BY <1>1, <1>5, <1>7, <1>8, <1>9, <1>10, OneCallStep DEF CallInv, SV!Dial, SV!Set

\* The caller leaves; it is not told that the engine is unavailable.
LEMMA GiveUpStep ==
  ASSUME ServicesInv, NEW c \in Call, SV!GiveUp(c)
  PROVE  ServicesInv'
<1>1. PICK s : s = call[c]
  OBVIOUS
<1>2. CallInv(s) /\ s.pc \in {"serve", "get", "reply"}
  BY <1>1 DEF ServicesInv, SV!GiveUp
<1>3. PICK r : r = SV!NetError(c, "read")
  OBVIOUS
<1>4. r = [s EXCEPT !.ctx = FALSE, !.answer = "error"]
  BY <1>1, <1>3 DEF SV!NetError, SV!IsDialError
<1>5. /\ DOMAIN r = Field /\ r.proc = s.proc /\ r.arg = s.arg /\ r.since = s.since
      /\ r.items = s.items /\ r.info = s.info /\ r.todo = s.todo
      /\ r.pc = s.pc /\ r.ran = s.ran /\ r.code = s.code /\ r.answer = "error"
  BY <1>2, <1>4 DEF CallInv, RouteInv, Field
<1>6. RouteInv(r)
  BY <1>2, <1>5 DEF CallInv, RouteInv
<1>7. AccessInv(r)
  BY <1>2, <1>5 DEF CallInv, AccessInv
<1>8. SecretsInv(r)
  BY <1>2, <1>5 DEF CallInv, SecretsInv, Asked
<1> QED
  BY <1>1, <1>3, <1>5, <1>6, <1>7, <1>8, OneCallStep DEF CallInv, SV!GiveUp

\* The handler lists the helper's credentials, what the call counts on among them.
LEMMA ListStep ==
  ASSUME ServicesInv, NEW c \in Call, SV!ServeGetSecrets(c)
  PROVE  ServicesInv'
<1>1. PICK s : s = call[c]
  OBVIOUS
<1>2. CallInv(s) /\ s.pc = "serve" /\ s.ran = "GetSecrets"
  BY <1>1 DEF ServicesInv, SV!ServeGetSecrets
<1>3. PICK all : all = {u \in URL : creds[u] # Absent}
  OBVIOUS
<1>4. s.since \subseteq all
  BY <1>1, <1>2, <1>3 DEF ServicesInv, LiveInv, CallInv, SecretsInv
<1>5. PICK r : /\ call' = [call EXCEPT ![c] = r]
               /\ \/ r = [s EXCEPT !.pc = "reply", !.code = "invalid_argument"]
                  \/ r = [s EXCEPT !.pc = "reply", !.code = "internal"]
                  \/ r = [s EXCEPT !.pc = "get", !.todo = all]
  BY <1>1, <1>3 DEF SV!ServeGetSecrets, SV!Reply, SV!Set
<1>6. /\ DOMAIN r = Field /\ r.proc = s.proc /\ r.arg = s.arg /\ r.since = s.since
      /\ r.items = s.items /\ r.info = s.info /\ r.ran = s.ran /\ r.answer = s.answer
      /\ \/ r.pc = "reply" /\ r.code \in {"invalid_argument", "internal"}
         \/ r.pc = "get" /\ r.code = s.code /\ r.todo = all
  BY <1>2, <1>5 DEF CallInv, RouteInv, Field
<1>7. RouteInv(r)
  BY <1>2, <1>6 DEF CallInv, RouteInv, Code
<1>8. AccessInv(r)
  BY <1>2, <1>6 DEF CallInv, RouteInv, AccessInv
<1>9. Asked(r, r.since \ all) = {}
  BY <1>4, <1>6 DEF Asked
<1>10. SecretsInv(r)
  BY <1>2, <1>6, <1>9 DEF CallInv, RouteInv, SecretsInv
<1> QED
  BY <1>1, <1>5, <1>6, <1>7, <1>8, <1>10, OneCallStep DEF CallInv, SV!ServeGetSecrets, SV!Set

\* One credential is skipped, is gone, or is collected.
LEMMA CredentialStep ==
  ASSUME ServicesInv, NEW c \in Call, NEW u \in URL, SV!GetCredential(c, u)
  PROVE  ServicesInv'
<1>1. PICK s : s = call[c]
  OBVIOUS
<1>2. CallInv(s) /\ s.pc = "get" /\ u \in s.todo
  BY <1>1 DEF ServicesInv, SV!GetCredential
<1>3. PICK id : id = SV!DefaultKeyRewriter(u)
  OBVIOUS
<1>4. PICK item : item = [id |-> id, url |-> u, value |-> creds[u]]
  OBVIOUS
<1>5. PICK r : /\ call' = [call EXCEPT ![c] = r]
               /\ \/ /\ ~ (SV!ValidID(id) /\ SV!Matches(s.arg, id))
                     /\ r = [s EXCEPT !.todo = @ \ {u}]
                  \/ /\ SV!ValidID(id) /\ SV!Matches(s.arg, id)
                     /\ r = [[s EXCEPT !.todo = @ \ {u}] EXCEPT !.since = @ \ {u}]
                  \/ /\ SV!ValidID(id) /\ SV!Matches(s.arg, id)
                     /\ r = [[s EXCEPT !.todo = @ \ {u}] EXCEPT !.items = @ \cup {item}]
  BY <1>1, <1>3, <1>4 DEF SV!GetCredential, SV!Set
<1>6. /\ DOMAIN r = Field /\ r.proc = s.proc /\ r.arg = s.arg /\ r.pc = s.pc /\ r.code = s.code
      /\ r.info = s.info /\ r.ran = s.ran /\ r.answer = s.answer /\ r.todo = s.todo \ {u}
      /\ \/ /\ ~ (SV!ValidID(id) /\ SV!Matches(s.arg, id))
            /\ r.since = s.since /\ r.items = s.items
         \/ r.since = s.since \ {u} /\ r.items = s.items
         \/ /\ SV!ValidID(id) /\ SV!Matches(s.arg, id)
            /\ r.since = s.since /\ r.items = s.items \cup {item}
  BY <1>2, <1>5 DEF CallInv, RouteInv, Field
<1>7. RouteInv(r)
  BY <1>2, <1>6 DEF CallInv, RouteInv
<1>8. AccessInv(r)
  BY <1>2, <1>6 DEF CallInv, RouteInv, AccessInv
<1>9. \A i \in r.items : SV!Matches(r.arg, i.id) /\ SV!ValidID(i.id)
  <2>1. \A i \in s.items : SV!Matches(s.arg, i.id) /\ SV!ValidID(i.id)
    BY <1>2 DEF CallInv, RouteInv, SecretsInv
  <2>2. item.id = id /\ item.url = u
    BY <1>4
  <2>3. \A i \in r.items : i \in s.items \/ (i = item /\ SV!ValidID(id) /\ SV!Matches(s.arg, id))
    BY <1>6
  <2> QED
    BY <1>6, <2>1, <2>2, <2>3
<1>10. Asked(r, r.since \ r.todo) \subseteq {i.url : i \in r.items}
  <2> SUFFICES ASSUME NEW v \in Asked(r, r.since \ r.todo)
               PROVE  \E i \in r.items : v = i.url
    OBVIOUS
  <2>1. /\ v \in r.since /\ v \notin r.todo
        /\ SV!ValidID(SV!DefaultKeyRewriter(v)) /\ SV!Matches(s.arg, SV!DefaultKeyRewriter(v))
    BY <1>6 DEF Asked
  <2>2. CASE v # u
    <3>1. v \in Asked(s, s.since \ s.todo)
      BY <1>6, <2>1, <2>2 DEF Asked
    <3>2. PICK i \in s.items : v = i.url
      BY <1>2, <3>1 DEF CallInv, RouteInv, SecretsInv
    <3> QED
      BY <1>6, <3>2
  <2>3. CASE v = u
    BY <1>3, <1>4, <1>6, <2>1, <2>3
  <2> QED
    BY <2>2, <2>3
<1>11. SecretsInv(r)
  BY <1>2, <1>6, <1>9, <1>10 DEF CallInv, RouteInv, SecretsInv
<1> QED
  BY <1>1, <1>5, <1>6, <1>7, <1>8, <1>11, OneCallStep DEF CallInv, SV!GetCredential, SV!Set

\* The handler is through with the list.
LEMMA ListDoneStep ==
  ASSUME ServicesInv, NEW c \in Call, SV!GetSecretsDone(c)
  PROVE  ServicesInv'
<1>1. PICK s : s = call[c]
  OBVIOUS
<1>2. CallInv(s) /\ s.pc = "get" /\ s.todo = {}
  BY <1>1 DEF ServicesInv, SV!GetSecretsDone
<1>3. PICK r : r = [s EXCEPT !.pc = "reply", !.code = IF s.items = {} THEN "not_found" ELSE "ok"]
  OBVIOUS
<1>4. /\ DOMAIN r = Field /\ r.proc = s.proc /\ r.arg = s.arg /\ r.since = s.since
      /\ r.items = s.items /\ r.info = s.info /\ r.ran = s.ran /\ r.answer = s.answer
      /\ r.pc = "reply" /\ r.todo = s.todo
      /\ r.code \in {"not_found", "ok"} /\ (r.code = "not_found" <=> s.items = {})
  BY <1>2, <1>3 DEF CallInv, RouteInv, Field
<1>5. RouteInv(r)
  BY <1>2, <1>4 DEF CallInv, RouteInv, Code
<1>6. AccessInv(r)
  BY <1>2, <1>4 DEF CallInv, RouteInv, AccessInv
<1>7. Asked(r, r.since) = Asked(s, s.since \ s.todo)
  BY <1>2, <1>4 DEF Asked
<1>8. SecretsInv(r)
  BY <1>2, <1>4, <1>7 DEF CallInv, RouteInv, SecretsInv
<1>9. SV!Set(c, r) /\ creds' = creds
  BY <1>1, <1>3 DEF SV!GetSecretsDone, SV!Reply
<1> QED
  BY <1>1, <1>4, <1>5, <1>6, <1>8, <1>9, OneCallStep DEF CallInv

\* The ranks of the levels.
LEMMA RankFacts ==
  /\ \A l \in {"unspecified", "untrusted", "low", "medium", "high", "system"} : Rank(l) \in 1..5
  /\ Rank("untrusted") = 1 /\ Rank("unspecified") = 1
<1>1. /\ DOMAIN SV!IntegrityLevels = 1..5
      /\ SV!IntegrityLevels[1] = "untrusted" /\ SV!IntegrityLevels[2] = "low"
      /\ SV!IntegrityLevels[3] = "medium" /\ SV!IntegrityLevels[4] = "high"
      /\ SV!IntegrityLevels[5] = "system"
  BY DEF SV!IntegrityLevels
<1>2. \A l \in {"untrusted", "low", "medium", "high", "system"} :
        \E n \in 1..5 : SV!IntegrityLevels[n] = l
  BY <1>1
<1>3. \A l \in {"untrusted", "low", "medium", "high", "system"} :
        Rank(l) \in 1..5 /\ SV!IntegrityLevels[Rank(l)] = l
  BY <1>1, <1>2 DEF Rank
<1>4. \A n \in 1..5 : SV!IntegrityLevels[n] = "untrusted" => n = 1
  BY <1>1
<1>5. Rank("unspecified") = 1
  BY DEF Rank
<1> QED
  BY <1>3, <1>4, <1>5

\* signingInfoFromProto tells a module no more than the requester has stated.
LEMMA SigningFacts ==
  ASSUME NEW sent \in SV!Requester
  PROVE  /\ SV!SigningInfoFromProto(sent) # SV!NoInfo
         /\ NoMoreTrust(SV!SigningInfoFromProto(sent), sent)
<1>1. PICK info : info = SV!SigningInfoFromProto(sent)
  OBVIOUS
<1>2. /\ sent.block \in {"none", "darwin", "linux", "windows"}
      /\ sent.level \in {"unspecified", "untrusted", "low", "medium", "high", "system"}
      /\ sent.time \in {"unset", "set"}
  BY DEF SV!Requester
<1>3. /\ info.signed = sent.signed
      /\ \/ info.block = "zero" /\ info.level = "untrusted" /\ info.time = "zero"
         \/ /\ info.block = sent.block /\ info.level = SV!IntegrityLevelFromProto(sent.level)
            /\ info.time = SV!IntegratedTime(sent.time)
  BY <1>1 DEF SV!SigningInfoFromProto
<1>4. info.block # "not asked"
  BY <1>2, <1>3
<1>5. info # SV!NoInfo
  <2>1. SV!NoInfo.block = "not asked"
    BY DEF SV!NoInfo
  <2> QED
    BY <1>4, <2>1
<1>6. info.time # "zero" => sent.time # "unset"
  BY <1>2, <1>3 DEF SV!IntegratedTime
<1>7. Rank(info.level) <= Rank(sent.level)
  <2>1. info.level = "untrusted" \/ info.level = sent.level
    BY <1>2, <1>3 DEF SV!IntegrityLevelFromProto
  <2> QED
    BY <1>2, <2>1, RankFacts
<1> QED
  BY <1>1, <1>3, <1>5, <1>6, <1>7 DEF NoMoreTrust

\* The handler asks the module about a requester, or refuses to.
LEMMA AccessStep ==
  ASSUME ServicesInv, NEW c \in Call, SV!ServeCheckAccess(c)
  PROVE  ServicesInv'
<1>1. PICK s : s = call[c]
  OBVIOUS
<1>2. CallInv(s) /\ s.pc = "serve" /\ s.ran = "CheckAccess"
  BY <1>1 DEF ServicesInv, SV!ServeCheckAccess
<1>3. s.proc = "CheckAccess" /\ s.arg \in SV!Requester \cup {SV!NoRequester}
  BY <1>2 DEF CallInv, RouteInv, AccessInv
<1>4. PICK info : info = SV!SigningInfoFromProto(s.arg)
  OBVIOUS
<1>5. PICK r : /\ call' = [call EXCEPT ![c] = r]
               /\ \/ r = [s EXCEPT !.pc = "reply", !.code = "invalid_argument"]
                  \/ /\ s.arg # SV!NoRequester
                     /\ \E d \in {"internal", "allow", "deny"} :
                          r = [[s EXCEPT !.info = info] EXCEPT !.pc = "reply", !.code = d]
  BY <1>1, <1>4 DEF SV!ServeCheckAccess, SV!Reply, SV!Set
<1>6. /\ DOMAIN r = Field /\ r.proc = s.proc /\ r.arg = s.arg /\ r.since = s.since
      /\ r.items = s.items /\ r.ran = s.ran /\ r.answer = s.answer /\ r.pc = "reply"
      /\ \/ r.code = "invalid_argument" /\ r.info = s.info
         \/ /\ s.arg # SV!NoRequester /\ r.code \in {"internal", "allow", "deny"}
            /\ r.info = info
  BY <1>2, <1>5 DEF CallInv, RouteInv, Field
<1>7. s.arg # SV!NoRequester => info # SV!NoInfo /\ NoMoreTrust(info, s.arg)
  BY <1>3, <1>4, SigningFacts
<1>8. RouteInv(r)
  BY <1>2, <1>6 DEF CallInv, RouteInv, Code
<1>9. AccessInv(r)
  BY <1>2, <1>6, <1>7 DEF CallInv, RouteInv, AccessInv
<1>10. SecretsInv(r)
  BY <1>2, <1>3, <1>6 DEF CallInv, RouteInv, SecretsInv
<1> QED
  BY <1>1, <1>5, <1>6, <1>8, <1>9, <1>10, OneCallStep DEF CallInv, SV!ServeCheckAccess, SV!Set

\* The daemon answers.
LEMMA DaemonStep ==
  ASSUME ServicesInv, NEW c \in Call, SV!ServeDaemon(c)
  PROVE  ServicesInv'
<1>1. PICK s : s = call[c]
  OBVIOUS
<1>2. /\ CallInv(s) /\ s.pc = "serve"
      /\ s.ran \in {"GetVersion", "ListPlugins", "EnablePlugin", "DisablePlugin"}
  BY <1>1 DEF ServicesInv, SV!ServeDaemon
<1>3. PICK its, r : /\ r = [[s EXCEPT !.items = its] EXCEPT !.pc = "reply", !.code = "ok"]
                    /\ SV!Set(c, r)
  BY <1>1 DEF SV!ServeDaemon, SV!Reply
<1>4. /\ DOMAIN r = Field /\ r.proc = s.proc /\ r.arg = s.arg /\ r.since = s.since
      /\ r.info = s.info /\ r.ran = s.ran /\ r.answer = s.answer
      /\ r.pc = "reply" /\ r.code = "ok"
  BY <1>2, <1>3 DEF CallInv, RouteInv, Field
<1>5. RouteInv(r)
  BY <1>2, <1>4 DEF CallInv, RouteInv, Code
<1>6. AccessInv(r)
  BY <1>2, <1>4 DEF CallInv, RouteInv, AccessInv
<1>7. SecretsInv(r)
  BY <1>2, <1>4 DEF CallInv, RouteInv, SecretsInv
<1>8. creds' = creds
  BY DEF SV!ServeDaemon
<1> QED
  BY <1>1, <1>3, <1>4, <1>5, <1>6, <1>7, <1>8, OneCallStep DEF CallInv

\* What the client makes of a code, and what it keeps.
LEMMA ReceivedFacts ==
  ASSUME NEW s, RouteInv(s), s.pc = "reply", NEW r, r = SV!Received(s)
  PROVE  /\ DOMAIN r = Field /\ r.proc = s.proc /\ r.arg = s.arg /\ r.since = s.since
         /\ r.info = s.info /\ r.ran = s.ran /\ r.code = s.code
         /\ r.answer # "unavailable"
         /\ r.answer = "allow" => s.code = "allow"
         /\ s.proc = "GetSecrets" =>
              /\ r.answer = "ok" => s.code = "ok"
              /\ r.answer = "notfound" => s.code = "not_found"
              /\ r.items = s.items \/ r.items = {i \in s.items : SV!ValidID(i.id)}
<1>1. DOMAIN s = Field /\ s.code \in Code
  BY DEF RouteInv
<1>2. SV!CodeOf(s.code) \in Code \cup {"unimplemented"}
  BY <1>1 DEF SV!CodeOf, Code
<1>3. SV!CodeOf(s.code) \in {"allow", "ok"} => SV!CodeOf(s.code) = s.code
  BY <1>1 DEF SV!CodeOf
<1>4. CASE s.proc = "GetSecrets"
  <2>1. r = SV!ReceiveSecrets(s)
    BY <1>4 DEF SV!Received
  <2>2. CASE s.code = "ok"
    <3>1. r = [s EXCEPT !.answer = "ok", !.items = {i \in @ : SV!ValidID(i.id)}]
      BY <2>1, <2>2 DEF SV!ReceiveSecrets
    <3> QED
      BY <1>1, <1>4, <2>2, <3>1 DEF Field
  <2>3. CASE s.code # "ok"
    <3>1. PICK a : /\ r = [s EXCEPT !.answer = a]
                   /\ a = CASE SV!CodeOf(s.code) = "not_found" -> "notfound"
                            [] SV!CodeOf(s.code) = "invalid_argument" -> "invalid"
                            [] OTHER -> SV!CodeOf(s.code)
      BY <2>1, <2>3 DEF SV!ReceiveSecrets
    <3>2. /\ a # "unavailable" /\ (a = "allow" => s.code = "allow") /\ a # "ok"
          /\ a = "notfound" => s.code = "not_found"
      BY <1>1, <2>3, <3>1 DEF SV!CodeOf, Code
    <3> QED
      BY <1>1, <1>4, <3>1, <3>2 DEF Field
  <2> QED
    BY <2>2, <2>3
<1>5. CASE s.proc # "GetSecrets"
  <2> DEFINE Same == /\ DOMAIN r = Field /\ r.proc = s.proc /\ r.arg = s.arg
                     /\ r.since = s.since /\ r.info = s.info /\ r.ran = s.ran
                     /\ r.code = s.code
             Told == r.answer # "unavailable" /\ (r.answer = "allow" => s.code = "allow")
  <2>1. CASE s.proc = "ListPlugins"
    <3>1. r = SV!ReceivePlugins(s)
      BY <2>1 DEF SV!Received
    <3>2. CASE s.code = "ok"
      <4>1. PICK its : r = [s EXCEPT !.answer = "ok", !.items = its]
        BY <3>1, <3>2 DEF SV!ReceivePlugins
      <4> QED
        BY <1>1, <1>5, <3>2, <4>1 DEF Field
    <3>3. CASE s.code # "ok"
      <4>1. r = [s EXCEPT !.answer = SV!CodeOf(s.code)]
        BY <3>1, <3>3 DEF SV!ReceivePlugins
      <4>2. Same /\ r.answer = SV!CodeOf(s.code)
        BY <1>1, <4>1 DEF Field
      <4> QED
        BY <1>2, <1>3, <1>5, <4>2 DEF Code
    <3> QED
      BY <3>2, <3>3
  <2>2. CASE s.proc = "GetVersion"
    <3>1. r = SV!ReceiveVersion(s)
      BY <2>2 DEF SV!Received
    <3>2. PICK a : r = [s EXCEPT !.answer = a] /\ a \in {"ok", "error", SV!CodeOf(s.code)}
      BY <3>1 DEF SV!ReceiveVersion
    <3>3. Same /\ r.answer = a
      BY <1>1, <3>2 DEF Field
    <3> QED
      BY <1>2, <1>3, <1>5, <3>2, <3>3 DEF Code
  <2>3. CASE s.proc \notin {"ListPlugins", "GetVersion"}
    <3>1. r = SV!ReceiveOther(s)
      BY <1>5, <2>3 DEF SV!Received
    <3>2. PICK a : r = [s EXCEPT !.answer = a] /\ a \in {"invalid", SV!CodeOf(s.code)}
      BY <3>1 DEF SV!ReceiveOther
    <3>3. Same /\ r.answer = a
      BY <1>1, <3>2 DEF Field
    <3> QED
      BY <1>2, <1>3, <1>5, <3>2, <3>3 DEF Code
  <2>4. Same /\ Told
    BY <2>1, <2>2, <2>3
  <2> QED
    BY <1>5, <2>4
<1> QED
  BY <1>4, <1>5

\* The response arrives, or nobody waits for it.
LEMMA ReceiveStep ==
  ASSUME ServicesInv, NEW c \in Call, SV!Receive(c)
  PROVE  ServicesInv'
<1>1. PICK s : s = call[c]
  OBVIOUS
<1>2. CallInv(s) /\ s.pc = "reply"
  BY <1>1 DEF ServicesInv, SV!Receive
<1>3. PICK t : t = (IF s.ctx THEN SV!Received(s) ELSE s)
  OBVIOUS
<1>4. PICK r : r = [t EXCEPT !.pc = "done"]
  OBVIOUS
<1>5. SV!Set(c, r) /\ creds' = creds
  BY <1>1, <1>3, <1>4 DEF SV!Receive
<1>6. /\ DOMAIN t = Field /\ t.proc = s.proc /\ t.arg = s.arg /\ t.since = s.since
      /\ t.info = s.info /\ t.ran = s.ran /\ t.code = s.code
      /\ t.answer # "unavailable"
      /\ t.answer = "allow" => s.code = "allow"
      /\ s.proc = "GetSecrets" =>
           /\ t.answer = "ok" => s.code = "ok"
           /\ t.answer = "notfound" => s.code = "not_found"
           /\ t.items = s.items \/ t.items = {i \in s.items : SV!ValidID(i.id)}
  <2>1. CASE s.ctx
    <3>1. t = SV!Received(s)
      BY <1>3, <2>1
    <3> QED
      BY <1>2, <3>1, ReceivedFacts DEF CallInv
  <2>2. CASE ~ s.ctx
    <3>1. t = s
      BY <1>3, <2>2
    <3> QED
      BY <1>2, <3>1 DEF CallInv, RouteInv, AccessInv, SecretsInv
  <2> QED
    BY <2>1, <2>2
<1>7. /\ DOMAIN r = Field /\ r.proc = s.proc /\ r.arg = s.arg /\ r.since = s.since
      /\ r.info = s.info /\ r.ran = s.ran /\ r.code = s.code /\ r.pc = "done"
      /\ r.answer = t.answer /\ r.items = t.items
  BY <1>4, <1>6 DEF Field
<1>8. RouteInv(r)
  BY <1>2, <1>6, <1>7 DEF CallInv, RouteInv
<1>9. AccessInv(r)
  BY <1>2, <1>6, <1>7 DEF CallInv, AccessInv
<1>10. SecretsInv(r)
  <2>1. CASE s.ran = "GetSecrets"
    <3>1. s.proc = "GetSecrets"
      BY <1>2, <2>1 DEF CallInv, RouteInv
    <3>2. \A i \in s.items : SV!Matches(s.arg, i.id) /\ SV!ValidID(i.id)
      BY <1>2, <2>1 DEF CallInv, SecretsInv
    <3>3. r.items = s.items
      BY <1>6, <1>7, <3>1, <3>2
    <3>4. Asked(r, r.since) = Asked(s, s.since)
      BY <1>7 DEF Asked
    <3> QED
      BY <1>2, <1>6, <1>7, <2>1, <3>1, <3>3, <3>4 DEF CallInv, SecretsInv
  <2>2. CASE s.ran # "GetSecrets"
    BY <1>2, <1>6, <1>7, <2>2 DEF CallInv, SecretsInv
  <2> QED
    BY <2>1, <2>2
<1> QED
  BY <1>1, <1>5, <1>7, <1>8, <1>9, <1>10, OneCallStep DEF CallInv

\* docker login and docker logout: what is gone no call counts on.
LEMMA ChangeStep ==
  ASSUME ServicesInv, NEW u \in URL, NEW x \in Secret \cup {Absent}, SV!ChangeCredential(u, x)
  PROVE  ServicesInv'
<1>1. /\ creds' = [creds EXCEPT ![u] = x]
      /\ call' = [c \in Call |->
                    IF x = Absent THEN [call[c] EXCEPT !.since = @ \ {u}] ELSE call[c]]
  BY DEF SV!ChangeCredential
<1>2. creds' \in [URL -> Secret \cup {Absent}]
  BY <1>1 DEF ServicesInv
<1>3. DOMAIN call' = Call /\ call' = [c \in Call |-> call'[c]]
  BY <1>1
<1>4. ASSUME NEW c \in Call
      PROVE  CallInv(call'[c]) /\ LiveInv(call[c])'
  <2>1. PICK s : s = call[c]
    OBVIOUS
  <2>2. PICK r : r = call'[c]
    OBVIOUS
  <2>3. CallInv(s) /\ \A v \in s.since : creds[v] # Absent
    BY <2>1 DEF ServicesInv, LiveInv
  <2>4. r = IF x = Absent THEN [s EXCEPT !.since = @ \ {u}] ELSE s
    BY <1>1, <2>1, <2>2
  <2>5. /\ DOMAIN r = Field /\ r.proc = s.proc /\ r.arg = s.arg /\ r.pc = s.pc /\ r.code = s.code
        /\ r.info = s.info /\ r.ran = s.ran /\ r.answer = s.answer /\ r.todo = s.todo
        /\ r.items = s.items /\ r.since = IF x = Absent THEN s.since \ {u} ELSE s.since
    BY <2>3, <2>4 DEF CallInv, RouteInv, Field
  <2>6. RouteInv(r)
    BY <2>3, <2>5 DEF CallInv, RouteInv
  <2>7. AccessInv(r)
    BY <2>3, <2>5 DEF CallInv, AccessInv
  <2>8. r.since \subseteq s.since
    BY <2>5
  <2>9. /\ Asked(r, r.since \ r.todo) \subseteq Asked(s, s.since \ s.todo)
        /\ Asked(r, r.since) \subseteq Asked(s, s.since)
    BY <2>5, <2>8 DEF Asked
  <2>10. SecretsInv(r)
    BY <2>3, <2>5, <2>8, <2>9 DEF CallInv, SecretsInv
  <2>11. \A v \in r.since : creds'[v] # Absent
    <3>1. s.since \subseteq URL
      BY <2>3 DEF CallInv, SecretsInv
    <3> QED
      BY <1>1, <2>3, <2>5, <2>8, <3>1 DEF ServicesInv
  <2> QED
    BY <2>2, <2>6, <2>7, <2>10, <2>11 DEF CallInv, LiveInv
<1> QED
  BY <1>2, <1>3, <1>4 DEF ServicesInv

\* The invariant holds of a behaviour of the sum, whichever part it is about.
LEMMA ServicesInvariant == MCSpec => []ServicesInv
<1>1. SV!Init => ServicesInv
  <2> SUFFICES ASSUME SV!Init
               PROVE  ServicesInv
    OBVIOUS
  <2>1. creds \in [URL -> Secret \cup {Absent}] /\ call = [c \in Call |-> SV!Idle]
    BY DEF SV!Init
  <2>2. CallInv(SV!Idle) /\ SV!Idle.since = {}
    BY DEF SV!Idle, CallInv, RouteInv, AccessInv, SecretsInv, Field, Code, Asked
  <2> QED
    BY <2>1, <2>2 DEF ServicesInv, LiveInv
<1>2. MCInit => ServicesInv
  BY <1>1 DEF MCInit, ServicesRest
<1>3. ServicesInv /\ UNCHANGED <<creds, call>> => ServicesInv'
  BY DEF ServicesInv, LiveInv
<1>4. ServicesInv /\ SV!Next => ServicesInv'
  <2> SUFFICES ASSUME ServicesInv, SV!Next
               PROVE  ServicesInv'
    OBVIOUS
  <2>1. \/ UNCHANGED <<creds, call>>
        \/ \E c \in Call :
             \/ \E pr \in Procs : \E a \in SV!Arg(pr) : SV!Begin(c, pr, a)
             \/ SV!Dial(c) \/ SV!GiveUp(c) \/ SV!Receive(c)
             \/ SV!ServeGetSecrets(c) \/ SV!GetSecretsDone(c) \/ SV!ServeCheckAccess(c)
             \/ SV!ServeDaemon(c)
             \/ \E u \in URL : SV!GetCredential(c, u)
        \/ \E u \in URL, x \in Secret \cup {Absent} : SV!ChangeCredential(u, x)
    BY DEF SV!Next, SV!Option, SV!New, SV!Restart
  <2> QED
    BY <2>1, <1>3, BeginStep, DialStep, GiveUpStep, ReceiveStep, ListStep, ListDoneStep,
       AccessStep, DaemonStep, CredentialStep, ChangeStep
<1>5. ServicesInv /\ [MCNext]_<<part, vars, kmVars, rVars, ssVars, svVars>> => ServicesInv'
  <2> SUFFICES ASSUME ServicesInv, [MCNext]_<<part, vars, kmVars, rVars, ssVars, svVars>>
               PROVE  ServicesInv'
    OBVIOUS
  <2>1. SV!Next \/ UNCHANGED svVars
    BY DEF MCNext
  <2> QED
    BY <2>1, <1>3, <1>4 DEF svVars
<1> QED
  BY <1>2, <1>5, PTL DEF MCSpec

\* Access control fails closed: "allow" reaches a caller only from a module
\* that was asked, about no more trust than the requester stated, for every
\* requester and platform and however calls, faults and restarts interleave
\* (accesscontrol/service.go CheckAccess, signingInfoFromProto).
THEOREM AccessIsClosed == MCSpec => []AccessFailsClosed
<1>1. ServicesInv => AccessFailsClosed
  <2> SUFFICES ASSUME ServicesInv, NEW c \in Call
               PROVE  /\ call[c].answer = "allow" =>
                           call[c].ran = "CheckAccess" /\ call[c].info # SV!NoInfo
                      /\ call[c].info # SV!NoInfo => NoMoreTrust(call[c].info, call[c].arg)
    BY DEF AccessFailsClosed, SV!AccessFailsClosed, NoMoreTrust, Rank
  <2> QED
    BY DEF ServicesInv, CallInv, AccessInv
<1> QED
  BY <1>1, ServicesInvariant, PTL

\* What GetSecrets answers is true of the whole call, whatever logins and
\* logouts, faults and other calls happen meanwhile, and an engine that is "not
\* available" has run nothing (client.go, resolver.go, credentialhelper/store.go).
THEOREM AnswersAreTrue == MCSpec => []ResolvedAsAsked
<1>1. ServicesInv => ResolvedAsAsked
  <2> SUFFICES ASSUME ServicesInv, NEW c \in Call, call[c].pc = "done"
               PROVE  /\ call[c].answer = "unavailable" => call[c].ran = "none"
                      /\ call[c].proc = "GetSecrets" =>
                           /\ call[c].answer = "notfound" =>
                                /\ call[c].ran = "GetSecrets"
                                /\ Asked(call[c], call[c].since) = {}
                           /\ call[c].answer = "ok" =>
                                /\ call[c].items # {}
                                /\ \A i \in call[c].items : SV!Matches(call[c].arg, i.id)
                                /\ Asked(call[c], call[c].since)
                                     \subseteq {i.url : i \in call[c].items}
    BY DEF ResolvedAsAsked, SV!ResolvedAsAsked, SV!Wanted, Asked
  <2>1. RouteInv(call[c]) /\ SecretsInv(call[c])
    BY DEF ServicesInv, CallInv
  <2>2. call[c].proc = "GetSecrets" /\ call[c].code \in {"ok", "not_found"}
          => call[c].ran = "GetSecrets"
    BY <2>1 DEF RouteInv
  <2> QED
    BY <2>1, <2>2 DEF RouteInv, SecretsInv
<1> QED
  BY <1>1, ServicesInvariant, PTL

-----------------------------------------------------------------------------
(* The release tool *)

\* The tags of the run, or of the last one.
Mine == {t \in tags : t.run = runs}

\* Dependencies, downstream modules and versions of the run, as functions, and
\* whether modules depend on each other in a circle.
DepOf == [m \in Module |-> R!Dependencies(m)]
DownOf == [m \in Module |-> R!Downstreams(m)]
VersionOf == [m \in Module |-> R!Released(m)]
Cyclic == \E S \in SUBSET Module : R!Circular(S)

\* Requirements are as the repository's modules state them.
RequireInv ==
  \A e \in Module \X Module : require[e] # "none" => e \in Edge

\* Commits and their ancestors.
HistInv ==
  /\ hist \in Seq({hist[i] : i \in DOMAIN hist})
  /\ head \in DOMAIN hist /\ origin \in DOMAIN hist
  /\ \A i \in DOMAIN hist :
       /\ i \in hist[i].anc
       /\ \A j \in hist[i].anc : j \in DOMAIN hist /\ hist[j].anc \subseteq hist[i].anc

\* What is left to do, and what the modules still to be released wait for.
QueueInv ==
  /\ rpc \in {"idle", "tag", "push", "edit", "hook", "commit", "next"}
  /\ rpc = "idle" => mod = NoModule /\ opts = R!NoOpts /\ queue = {} /\ todo = {}
  /\ rpc # "idle" => mod \in Module /\ opts.mod \in Module /\ todo \subseteq DownOf[mod]
  /\ rpc \in {"hook", "commit", "next"} => todo = {}
  /\ rpc # "idle" /\ mod = opts.mod => deps = DepOf
  /\ rpc # "idle" /\ mod # opts.mod =>
       /\ mod \in queue /\ queue \subseteq DownOf[opts.mod]
       /\ deps = [m \in queue |-> DepOf[m] \cap queue]
       /\ deps[mod] = {}
  /\ result = "stuck" => Cyclic

\* Where a run's first tag lies.
BranchInv ==
  /\ runs \in Nat
  /\ \A t \in tags : t.at \in DOMAIN hist /\ t.run \in Nat /\ t.run <= runs
  /\ \A t \in tags : \E r \in tags : r.run = t.run /\ r.at <= t.at /\ r.at \in hist[origin].anc
  /\ rpc = "tag" /\ mod = opts.mod /\ ~ opts.skipGit => head \in hist[origin].anc
  /\ rpc \notin {"idle", "tag"} \/ (rpc = "tag" /\ mod # opts.mod) =>
       opts.skipGit \/ \E r \in Mine : r.at <= head /\ r.at \in hist[origin].anc

\* What the run has tagged, and when.
DoneInv ==
  rpc # "idle" =>
    /\ opts.skipGit => Mine = {}
    /\ \A u \in Mine : u.mod \in Module /\ u.ver = VersionOf[u.mod]
    /\ mod = opts.mod => \A u \in Mine : u.mod = mod /\ rpc # "tag"
    /\ mod # opts.mod =>
         \A u \in Mine : /\ u.mod \in queue => u.mod = mod /\ rpc # "tag"
                         /\ u.mod # opts.mod => DepOf[u.mod] \cap queue = {}

\* Every go.mod requires what the run has tagged, in the working tree and at HEAD;
\* the module the run works on excepted, whose version is still being written.
RequiredInv ==
  rpc # "idle" => \A u \in Mine : \A k \in Module : require[<<k, u.mod>>] = "direct" =>
    /\ u.mod # mod \/ rpc = "next" =>
         work[<<k, u.mod>>] = u.ver /\ hist[head].req[<<k, u.mod>>] = u.ver
    /\ u.mod = mod /\ k \notin todo => work[<<k, u.mod>>] = u.ver /\ modified

\* At the commit a module is tagged on it requires what the run has tagged.
FitInv ==
  ~ Cyclic =>
    \A t, u \in Mine : require[<<t.mod, u.mod>>] = "direct"
                         => hist[t.at].req[<<t.mod, u.mod>>] = u.ver

\* The inductive invariant of the release tool.
ReleaseInv ==
  RequireInv /\ HistInv /\ QueueInv /\ BranchInv /\ DoneInv /\ RequiredInv /\ FitInv

\* A commit is appended to the history.
LEMMA AppendFacts ==
  ASSUME hist \in Seq({hist[i] : i \in DOMAIN hist}), NEW x, hist' = Append(hist, x)
  PROVE  /\ Len(hist) \in Nat /\ DOMAIN hist = 1..Len(hist)
         /\ DOMAIN hist' = DOMAIN hist \cup {Len(hist) + 1}
         /\ \A i \in DOMAIN hist : hist'[i] = hist[i]
         /\ hist'[Len(hist) + 1] = x
         /\ hist' \in Seq({hist'[i] : i \in DOMAIN hist'})
<1>1. PICK S : S = {hist[i] : i \in DOMAIN hist} \cup {x}
  OBVIOUS
<1>2. PICK s, t : s = hist /\ t = hist'
  OBVIOUS
<1>3. s \in Seq(S) /\ x \in S /\ t = Append(s, x)
  BY <1>1, <1>2
<1>4. t \in Seq(S) /\ Len(t) = Len(s) + 1
  BY <1>3
<1>5. /\ Len(s) \in Nat /\ DOMAIN s = 1..Len(s)
      /\ DOMAIN t = DOMAIN s \cup {Len(s) + 1}
  BY <1>3, <1>4
<1>6. /\ \A i \in DOMAIN s : t[i] = s[i]
      /\ t[Len(s) + 1] = x
  BY <1>3, <1>5
<1>7. t \in Seq({t[i] : i \in DOMAIN t})
  BY <1>4
<1> QED
  BY <1>2, <1>5, <1>6, <1>7

\* A commit on top of another one, by the tool or by somebody else.
LEMMA CommitFacts ==
  ASSUME HistInv, NEW b \in DOMAIN hist, NEW q0,
         hist' = Append(hist, [anc |-> hist[b].anc \cup {Len(hist) + 1}, req |-> q0])
  PROVE  /\ Len(hist) + 1 \in DOMAIN hist' /\ hist'[Len(hist) + 1].req = q0
         /\ hist'[Len(hist) + 1].anc = hist[b].anc \cup {Len(hist) + 1}
         /\ DOMAIN hist \subseteq DOMAIN hist' /\ DOMAIN hist \subseteq Nat
         /\ Len(hist) + 1 \in Nat /\ \A i \in DOMAIN hist : i < Len(hist) + 1
         /\ \A i \in DOMAIN hist : hist'[i] = hist[i]
         /\ hist' \in Seq({hist'[i] : i \in DOMAIN hist'})
         /\ \A i \in DOMAIN hist' :
              /\ i \in hist'[i].anc
              /\ \A j \in hist'[i].anc : j \in DOMAIN hist' /\ hist'[j].anc \subseteq hist'[i].anc
<1>1. PICK n : n = Len(hist) + 1
  OBVIOUS
<1>2. PICK x : x = [anc |-> hist[b].anc \cup {n}, req |-> q0]
  OBVIOUS
<1>3. x.anc = hist[b].anc \cup {n} /\ x.req = q0
  BY <1>2
<1>4. hist \in Seq({hist[i] : i \in DOMAIN hist}) /\ hist' = Append(hist, x)
  BY <1>1, <1>2 DEF HistInv
<1>5. /\ Len(hist) \in Nat /\ DOMAIN hist = 1..Len(hist)
      /\ DOMAIN hist' = DOMAIN hist \cup {n} /\ hist'[n] = x
      /\ \A i \in DOMAIN hist : hist'[i] = hist[i]
      /\ hist' \in Seq({hist'[i] : i \in DOMAIN hist'})
  <2>1. /\ Len(hist) \in Nat /\ DOMAIN hist = 1..Len(hist)
        /\ DOMAIN hist' = DOMAIN hist \cup {Len(hist) + 1} /\ hist'[Len(hist) + 1] = x
        /\ \A i \in DOMAIN hist : hist'[i] = hist[i]
        /\ hist' \in Seq({hist'[i] : i \in DOMAIN hist'})
    BY <1>4, AppendFacts
  <2> QED
    BY <1>1, <2>1
<1>6. DOMAIN hist \subseteq Nat /\ n \in Nat /\ \A i \in DOMAIN hist : i < n
  BY <1>1, <1>5
<1>7. ASSUME NEW i \in DOMAIN hist'
      PROVE  /\ i \in hist'[i].anc
             /\ \A j \in hist'[i].anc : j \in DOMAIN hist' /\ hist'[j].anc \subseteq hist'[i].anc
  <2>1. \A l \in DOMAIN hist :
          /\ l \in hist[l].anc
          /\ \A j \in hist[l].anc : j \in DOMAIN hist /\ hist[j].anc \subseteq hist[l].anc
    BY DEF HistInv
  <2>2. CASE i \in DOMAIN hist
    BY <1>5, <2>1, <2>2
  <2>3. CASE i = n
    BY <1>3, <1>5, <2>1, <2>3
  <2> QED
    BY <1>5, <2>2, <2>3
<1> QED
  BY <1>1, <1>3, <1>5, <1>6, <1>7

\* What BumpModInFile finds.
LEMMA BumpFacts ==
  ASSUME NEW k, NEW m \in Module
  PROVE  /\ require[<<k, m>>] = "direct" => R!BumpTarget(k, m) = {m}
         /\ \A x \in R!BumpTarget(k, m) :
              x = m \/ (<<m, x>> \in PathPrefix /\ require[<<k, x>>] = "direct" /\ x \in Module)
<1> DEFINE hits == {i \in DOMAIN PathOrder :
                      /\ require[<<k, PathOrder[i]>>] = "direct"
                      /\ PathOrder[i] = m \/ <<m, PathOrder[i]>> \in PathPrefix}
<1>1. R!BumpTarget(k, m) = {PathOrder[i] : i \in {j \in hits : \A h \in hits : j <= h}}
  BY DEF R!BumpTarget
<1>2. /\ DOMAIN PathOrder \subseteq Int /\ \A i \in DOMAIN PathOrder : PathOrder[i] \in Module
      /\ \E i \in DOMAIN PathOrder : PathOrder[i] = m
      /\ \A i, j \in DOMAIN PathOrder :
           /\ PathOrder[i] = PathOrder[j] => i = j
           /\ <<PathOrder[i], PathOrder[j]>> \in PathPrefix => i < j
  BY ReleaseAssumed DEF R!ReleaseAssumption
<1>3. ASSUME require[<<k, m>>] = "direct"
      PROVE  R!BumpTarget(k, m) = {m}
  <2>1. PICK i \in DOMAIN PathOrder : PathOrder[i] = m
    BY <1>2
  <2>2. i \in hits /\ \A h \in hits : i <= h
    BY <1>2, <1>3, <2>1
  <2>3. \A j \in hits : (\A h \in hits : j <= h) => j = i
    BY <1>2, <2>2
  <2> QED
    BY <1>1, <2>1, <2>2, <2>3
<1>4. \A x \in R!BumpTarget(k, m) :
        x = m \/ (<<m, x>> \in PathPrefix /\ require[<<k, x>>] = "direct" /\ x \in Module)
  BY <1>1, <1>2
<1> QED
  BY <1>3, <1>4

\* Who requires a module, and that none requires itself.
LEMMA EdgeFacts ==
  ASSUME RequireInv
  PROVE  /\ \A k, m \in Module : k \in DownOf[m] <=> require[<<k, m>>] # "none"
         /\ \A k, m \in Module : m \in DepOf[k] <=> require[<<k, m>>] # "none"
         /\ \A k, m \in Module : require[<<k, m>>] # "none" => <<k, m>> \in Edge /\ k # m
         /\ \A m \in Module : DepOf[m] \subseteq Module /\ DownOf[m] \subseteq Module
         /\ DOMAIN DepOf = Module
<1>1. \A k, m \in Module : m \in DepOf[k] <=> require[<<k, m>>] # "none"
  BY DEF DepOf, R!Dependencies
<1>2. \A k, m \in Module : require[<<k, m>>] # "none" => <<k, m>> \in Edge /\ k # m
  BY ReleaseAssumed DEF RequireInv, R!ReleaseAssumption
<1>3. \A m \in Module : DepOf[m] \subseteq Module /\ DownOf[m] \subseteq Module
  BY DEF DepOf, DownOf, R!Dependencies, R!Downstreams
<1>4. \A k, m \in Module : k \in DownOf[m] <=> require[<<k, m>>] # "none"
  BY DEF DownOf, R!Downstreams, R!Dependencies
<1> QED
  BY <1>1, <1>2, <1>3, <1>4 DEF DepOf

\* A set in which every module waits for another one is a circle.
LEMMA CircleFacts ==
  ASSUME NEW S \in SUBSET Module, S # {}, \A m \in S : DepOf[m] \cap S # {}
  PROVE  Cyclic
<1>1. \A m \in S : R!Dependencies(m) = DepOf[m]
  BY DEF DepOf
<1>2. R!Circular(S)
  BY <1>1 DEF R!Circular
<1> QED
  BY <1>2 DEF Cyclic

\* No step changes what modules require.
LEMMA RequireFrame ==
  ASSUME UNCHANGED require
  PROVE  DepOf' = DepOf /\ DownOf' = DownOf /\ (Cyclic' <=> Cyclic)
<1>1. DepOf' = DepOf /\ DownOf' = DownOf
  BY DEF DepOf, DownOf, R!Dependencies, R!Downstreams
<1>2. Cyclic' <=> Cyclic
  <2>1. \A m \in Module : R!Dependencies(m)' = R!Dependencies(m)
    BY DEF R!Dependencies
  <2>2. \A S \in SUBSET Module : R!Circular(S)' <=> R!Circular(S)
    BY <2>1 DEF R!Circular
  <2> QED
    BY <2>2 DEF Cyclic
<1> QED
  BY <1>1, <1>2

\* A run starts: it has tagged nothing yet.
LEMMA StartStep ==
  ASSUME ReleaseInv, NEW o, o.mod \in Module, R!Start(o)
  PROVE  ReleaseInv'
<1>1. /\ rpc = "idle" /\ (o.skipGit \/ head = origin) /\ opts' = o /\ mod' = o.mod /\ rpc' = "tag"
      /\ deps' = DepOf
      /\ result' = "none" /\ runs' = runs + 1 /\ queue' = queue /\ todo' = todo
      /\ require' = require /\ hist' = hist /\ head' = head /\ origin' = origin /\ tags' = tags
  BY DEF R!Start, R!tree, R!repo, R!VerifyReleaseRef, DepOf
<1>2. RequireInv' /\ HistInv'
  BY <1>1 DEF ReleaseInv, RequireInv, HistInv
<1>3. QueueInv'
  <2>1. todo = {} /\ queue = {}
    BY <1>1 DEF ReleaseInv, QueueInv
  <2> QED
    BY <1>1, <2>1, RequireFrame DEF QueueInv
<1>4. Mine' = {}
  BY <1>1 DEF ReleaseInv, BranchInv, Mine
<1>5. BranchInv'
  <2>1. origin \in hist[origin].anc
    BY DEF ReleaseInv, HistInv
  <2>2. runs' \in Nat /\ \A t \in tags : t.run \in Nat /\ t.run <= runs'
    BY <1>1 DEF ReleaseInv, BranchInv
  <2> QED
    BY <1>1, <2>1, <2>2 DEF ReleaseInv, BranchInv
<1>6. DoneInv' /\ RequiredInv' /\ FitInv'
  BY <1>4 DEF DoneInv, RequiredInv, FitInv
<1> QED
  BY <1>2, <1>3, <1>5, <1>6 DEF ReleaseInv

\* A module is tagged: every module the run has tagged before is required by it
\* as tagged, and none of those requires it.
LEMMA TagStep == ReleaseInv /\ R!GitTag => ReleaseInv'
<1> SUFFICES ASSUME ReleaseInv, R!GitTag
             PROVE  ReleaseInv'
  OBVIOUS
<1>0. mod \in Module /\ R!Released(mod) = VersionOf[mod] /\ R!Downstreams(mod) = DownOf[mod]
  BY DEF ReleaseInv, QueueInv, R!GitTag, VersionOf, DownOf
<1>1. PICK new : new = [mod |-> mod, ver |-> R!Released(mod), at |-> head, run |-> runs]
  OBVIOUS
<1>2. new.mod = mod /\ new.ver = VersionOf[mod] /\ new.at = head /\ new.run = runs
  BY <1>1, <1>0
<1>3. /\ rpc = "tag" /\ tags' = IF opts.skipGit THEN tags ELSE tags \cup {new}
      /\ rpc' \in {"push", "edit"} /\ todo' = DownOf[mod]
      /\ require' = require /\ work' = work /\ hist' = hist /\ head' = head /\ origin' = origin
      /\ opts' = opts /\ current' = current /\ deps' = deps /\ queue' = queue
      /\ mod' = mod /\ modified' = modified /\ result' = result /\ runs' = runs
  BY <1>0, <1>1 DEF R!GitTag, R!tree, R!loop
<1>4. RequireInv' /\ HistInv'
  BY <1>3 DEF ReleaseInv, RequireInv, HistInv
<1>5. QueueInv'
  BY <1>3, RequireFrame DEF ReleaseInv, QueueInv
<1>6. Mine' = IF opts.skipGit THEN Mine ELSE Mine \cup {new}
  BY <1>2, <1>3 DEF Mine
<1>7. mod \in Module /\ opts.mod \in Module
  BY <1>3 DEF ReleaseInv, QueueInv
<1>8. \A u \in Mine : u.mod # mod /\ u.mod \in Module /\ mod # opts.mod
  BY <1>3 DEF ReleaseInv, QueueInv, DoneInv
<1>9. BranchInv'
  <2>1. head \in DOMAIN hist /\ head <= head
    BY DEF ReleaseInv, HistInv
  <2>2. CASE opts.skipGit
    BY <1>3, <2>2 DEF ReleaseInv, BranchInv
  <2>3. CASE ~ opts.skipGit
    <3>1. \E r \in Mine \cup {new} : r.at <= head /\ r.at \in hist[origin].anc
      BY <1>2, <1>3, <2>1, <2>3 DEF ReleaseInv, BranchInv
    <3>2. \E r \in tags' : r.run = runs /\ r.at <= head /\ r.at \in hist[origin].anc
      BY <1>2, <1>3, <2>3, <3>1 DEF Mine
    <3>3. \A t \in tags' : t.at \in DOMAIN hist /\ t.run \in Nat /\ t.run <= runs
      BY <1>2, <1>3, <2>1 DEF ReleaseInv, BranchInv
    <3>4. \A t \in tags' : \E r \in tags' :
            r.run = t.run /\ r.at <= t.at /\ r.at \in hist[origin].anc
      BY <1>2, <1>3, <2>3, <3>2 DEF ReleaseInv, BranchInv
    <3>5. runs \in Nat
      BY DEF ReleaseInv, BranchInv
    <3> QED
      BY <1>3, <1>6, <2>3, <3>1, <3>3, <3>4, <3>5 DEF BranchInv
  <2> QED
    BY <2>2, <2>3
<1>10. DoneInv'
  <2>1. VersionOf' = VersionOf
    BY <1>3 DEF VersionOf, R!Released
  <2>2. \A u \in Mine' : u.mod \in Module /\ u.ver = VersionOf[u.mod]
    BY <1>2, <1>3, <1>6, <1>7 DEF ReleaseInv, DoneInv
  <2>3. opts.skipGit => Mine' = {}
    BY <1>3, <1>6 DEF ReleaseInv, DoneInv
  <2>4. mod = opts.mod => \A u \in Mine' : u.mod = mod
    BY <1>2, <1>6, <1>8
  <2>5. mod # opts.mod => DepOf[mod] \cap queue = {}
    BY <1>3 DEF ReleaseInv, QueueInv
  <2>6. mod # opts.mod =>
          \A u \in Mine' : /\ u.mod \in queue => u.mod = mod
                           /\ u.mod # opts.mod => DepOf[u.mod] \cap queue = {}
    BY <1>2, <1>3, <1>6, <2>5 DEF ReleaseInv, DoneInv
  <2> QED
    BY <1>3, <2>1, <2>2, <2>3, <2>4, <2>6, RequireFrame DEF DoneInv
<1>11. RequiredInv'
  <2> SUFFICES ASSUME NEW u \in Mine', NEW k \in Module, require[<<k, u.mod>>] = "direct"
               PROVE  /\ u.mod # mod =>
                           work[<<k, u.mod>>] = u.ver /\ hist[head].req[<<k, u.mod>>] = u.ver
                      /\ ~ (u.mod = mod /\ k \notin todo')
    BY <1>3 DEF RequiredInv
  <2>1. u \in Mine \/ u = new
    BY <1>6
  <2>2. CASE u \in Mine
    BY <1>3, <1>8, <2>2 DEF ReleaseInv, RequiredInv
  <2>3. CASE u = new
    BY <1>2, <1>3, <1>7, <2>3, EdgeFacts DEF ReleaseInv
  <2> QED
    BY <2>1, <2>2, <2>3
<1>12. FitInv'
  <2> SUFFICES ASSUME ~ Cyclic,
                      NEW t \in Mine', NEW u \in Mine', require[<<t.mod, u.mod>>] = "direct"
               PROVE  hist[t.at].req[<<t.mod, u.mod>>] = u.ver
    BY <1>3, RequireFrame DEF FitInv
  <2>1. (t \in Mine \/ t = new) /\ (u \in Mine \/ u = new)
    BY <1>6
  <2>2. CASE t \in Mine /\ u \in Mine
    BY <2>2 DEF ReleaseInv, FitInv
  <2>3. CASE t = new /\ u \in Mine
    BY <1>2, <1>3, <1>7, <1>8, <2>3 DEF ReleaseInv, RequiredInv
  <2>4. CASE t \in Mine /\ u = new
    <3>1. mod \in DepOf[t.mod] /\ t.mod \in Module /\ mod # opts.mod
      BY <1>2, <1>7, <1>8, <2>4, EdgeFacts DEF ReleaseInv
    <3>2. mod \in queue /\ opts.mod \in DepOf[mod]
      BY <1>3, <1>7, <3>1, EdgeFacts DEF ReleaseInv, QueueInv
    <3>3. t.mod = opts.mod
      BY <1>3, <2>4, <3>1, <3>2 DEF ReleaseInv, DoneInv
    <3>4. PICK S \in SUBSET Module : S = {mod, opts.mod}
      BY <1>7
    <3>5. S # {} /\ \A m \in S : DepOf[m] \cap S # {}
      BY <3>1, <3>2, <3>3, <3>4
    <3> QED
      BY <3>5, CircleFacts
  <2>5. CASE t = new /\ u = new
    BY <1>2, <1>7, <2>5, EdgeFacts DEF ReleaseInv
  <2> QED
    BY <2>1, <2>2, <2>3, <2>4, <2>5
<1> QED
  BY <1>4, <1>5, <1>9, <1>10, <1>11, <1>12 DEF ReleaseInv

\* A downstream go.mod is edited; no requirement written before is overwritten.
LEMMA BumpStep ==
  ASSUME ReleaseInv, NEW k0 \in Module, R!BumpModInFile(k0)
  PROVE  ReleaseInv'
<1>1. mod \in Module /\ opts.mod \in Module /\ k0 \in DownOf[mod]
  BY DEF ReleaseInv, QueueInv, R!BumpModInFile
<1>2. PICK B : B = R!BumpTarget(k0, mod)
  OBVIOUS
<1>3. PICK v : v = VersionOf[mod]
  OBVIOUS
<1>4. /\ rpc = "edit" /\ k0 \in todo /\ todo' = todo \ {k0}
      /\ work' = [e \in Module \X Module |-> IF e[1] = k0 /\ e[2] \in B THEN v ELSE work[e]]
      /\ modified' = (modified \/ B # {})
      /\ require' = require /\ hist' = hist /\ head' = head /\ origin' = origin /\ tags' = tags
      /\ rpc' = rpc /\ opts' = opts /\ current' = current /\ deps' = deps /\ queue' = queue
      /\ mod' = mod /\ result' = result /\ runs' = runs
  BY <1>1, <1>2, <1>3 DEF R!BumpModInFile, R!repo, R!loop, VersionOf
<1>5. Mine' = Mine /\ VersionOf' = VersionOf
  BY <1>4 DEF Mine, VersionOf, R!Released
<1>6. RequireInv' /\ HistInv' /\ BranchInv'
  BY <1>4, <1>5 DEF ReleaseInv, RequireInv, HistInv, BranchInv
<1>7. QueueInv'
  BY <1>4, RequireFrame DEF ReleaseInv, QueueInv
<1>8. DoneInv' /\ FitInv'
  BY <1>4, <1>5, RequireFrame DEF ReleaseInv, DoneInv, FitInv
<1>9. RequiredInv'
  <2> SUFFICES ASSUME NEW u \in Mine, NEW k \in Module, require[<<k, u.mod>>] = "direct"
               PROVE  /\ u.mod # mod =>
                           work'[<<k, u.mod>>] = u.ver /\ hist[head].req[<<k, u.mod>>] = u.ver
                      /\ u.mod = mod /\ k \notin todo' =>
                           work'[<<k, u.mod>>] = u.ver /\ modified'
    BY <1>4, <1>5 DEF RequiredInv
  <2>1. u.mod \in Module /\ u.ver = VersionOf[u.mod]
    BY <1>4 DEF ReleaseInv, DoneInv
  <2>2. work'[<<k, u.mod>>] = IF k = k0 /\ u.mod \in B THEN v ELSE work[<<k, u.mod>>]
    BY <1>4, <2>1
  <2>3. /\ u.mod # mod =>
             work[<<k, u.mod>>] = u.ver /\ hist[head].req[<<k, u.mod>>] = u.ver
        /\ u.mod = mod /\ k \notin todo => work[<<k, u.mod>>] = u.ver /\ modified
    BY <1>4 DEF ReleaseInv, RequiredInv
  <2>4. ASSUME u.mod # mod
        PROVE  ~ (k = k0 /\ u.mod \in B)
    <3> SUFFICES ASSUME k = k0, u.mod \in B
                 PROVE  FALSE
      OBVIOUS
    <3>1. <<mod, u.mod>> \in PathPrefix
      BY <1>1, <1>2, <2>4, BumpFacts
    <3>2. <<k0, mod>> \in Edge /\ <<k0, u.mod>> \in Edge
      BY <1>1, <2>1, EdgeFacts DEF ReleaseInv
    <3>3. \A d \in Module : <<mod, d>> \notin Edge
      BY <3>1, <3>2, PrefixAssumed DEF R!PrefixAssumption
    <3>4. mod # opts.mod
      BY <1>4, <2>4 DEF ReleaseInv, DoneInv
    <3>5. mod \in DownOf[opts.mod]
      BY <1>4, <3>4 DEF ReleaseInv, QueueInv
    <3>6. require[<<mod, opts.mod>>] # "none"
      BY <1>1, <3>5, EdgeFacts DEF ReleaseInv
    <3>7. <<mod, opts.mod>> \in Edge
      BY <1>1, <3>6, EdgeFacts DEF ReleaseInv
    <3> QED
      BY <1>1, <3>3, <3>7
  <2>5. ASSUME u.mod = mod, k \notin todo'
        PROVE  work'[<<k, u.mod>>] = u.ver /\ modified'
    <3>1. CASE k = k0
      <4>1. B = {mod}
        BY <1>1, <1>2, <2>5, <3>1, BumpFacts
      <4> QED
        BY <1>3, <1>4, <2>1, <2>2, <2>5, <3>1, <4>1
    <3>2. CASE k # k0
      BY <1>4, <2>2, <2>3, <2>5, <3>2
    <3> QED
      BY <3>1, <3>2
  <2> QED
    BY <2>2, <2>3, <2>4, <2>5
<1> QED
  BY <1>6, <1>7, <1>8, <1>9 DEF ReleaseInv

\* Tags are pushed, the edits are through, or the hook has run: what the run has
\* written is still as it was, and without an edit no module requires this one.
LEMMA PlainStep ==
  ASSUME ReleaseInv, R!GitPushTags \/ R!EditsDone \/ R!BeforeCommitHook
  PROVE  ReleaseInv'
<1>1. /\ require' = require /\ work' = work /\ hist' = hist /\ head' = head /\ origin' = origin
      /\ tags' = tags /\ opts' = opts /\ current' = current /\ deps' = deps /\ queue' = queue
      /\ mod' = mod /\ todo' = todo /\ modified' = modified /\ result' = result /\ runs' = runs
      /\ \/ rpc = "push" /\ rpc' = "edit"
         \/ rpc = "edit" /\ todo = {} /\ modified /\ rpc' = "hook"
         \/ rpc = "edit" /\ todo = {} /\ ~ modified /\ rpc' = "next"
         \/ rpc = "hook" /\ opts.skipGit /\ rpc' = "next"
         \/ rpc = "hook" /\ ~ opts.skipGit /\ rpc' = "commit"
  BY DEF R!GitPushTags, R!EditsDone, R!BeforeCommitHook, R!tree, R!repo, R!loop, R!bump
<1>2. Mine' = Mine /\ VersionOf' = VersionOf
  BY <1>1 DEF Mine, VersionOf, R!Released
<1>3. RequireInv' /\ HistInv' /\ BranchInv'
  BY <1>1, <1>2 DEF ReleaseInv, RequireInv, HistInv, BranchInv
<1>4. QueueInv'
  BY <1>1, RequireFrame DEF ReleaseInv, QueueInv
<1>5. DoneInv' /\ FitInv'
  BY <1>1, <1>2, RequireFrame DEF ReleaseInv, DoneInv, FitInv
<1>6. RequiredInv'
  <2> SUFFICES ASSUME NEW u \in Mine, NEW k \in Module, require[<<k, u.mod>>] = "direct"
               PROVE  /\ u.mod # mod \/ rpc' = "next" =>
                           work[<<k, u.mod>>] = u.ver /\ hist[head].req[<<k, u.mod>>] = u.ver
                      /\ u.mod = mod /\ k \notin todo => work[<<k, u.mod>>] = u.ver /\ modified
    BY <1>1, <1>2 DEF RequiredInv
  <2>1. /\ u.mod # mod =>
             work[<<k, u.mod>>] = u.ver /\ hist[head].req[<<k, u.mod>>] = u.ver
        /\ u.mod = mod /\ k \notin todo => work[<<k, u.mod>>] = u.ver /\ modified
        /\ ~ opts.skipGit
    BY <1>1 DEF ReleaseInv, RequiredInv, DoneInv
  <2> QED
    BY <1>1, <2>1
<1> QED
  BY <1>3, <1>4, <1>5, <1>6 DEF ReleaseInv

\* The working tree is committed: HEAD now requires what it requires.
LEMMA CommitStep == ReleaseInv /\ R!GitCommit => ReleaseInv'
<1> SUFFICES ASSUME ReleaseInv, R!GitCommit
             PROVE  ReleaseInv'
  OBVIOUS
<1>1. /\ require' = require /\ work' = work /\ origin' = origin /\ tags' = tags
      /\ opts' = opts /\ current' = current /\ deps' = deps /\ queue' = queue
      /\ mod' = mod /\ todo' = todo /\ modified' = modified /\ result' = result /\ runs' = runs
      /\ rpc = "commit" /\ rpc' = "next" /\ head' = Len(hist) + 1
      /\ hist' = Append(hist, [anc |-> hist[head].anc \cup {Len(hist) + 1}, req |-> work])
  BY DEF R!GitCommit, R!repo, R!loop, R!bump
<1>2. Mine' = Mine /\ VersionOf' = VersionOf
  BY <1>1 DEF Mine, VersionOf, R!Released
<1>3. HistInv /\ head \in DOMAIN hist /\ origin \in DOMAIN hist
  BY DEF ReleaseInv, HistInv
<1>4. PICK q0 : q0 = work
  OBVIOUS
<1>5. /\ head' \in DOMAIN hist' /\ hist'[head'].req = work
      /\ DOMAIN hist \subseteq DOMAIN hist' /\ DOMAIN hist \subseteq Nat /\ head' \in Nat
      /\ \A i \in DOMAIN hist : i < head' /\ hist'[i] = hist[i]
      /\ hist' \in Seq({hist'[i] : i \in DOMAIN hist'})
      /\ \A i \in DOMAIN hist' :
           /\ i \in hist'[i].anc
           /\ \A j \in hist'[i].anc : j \in DOMAIN hist' /\ hist'[j].anc \subseteq hist'[i].anc
  BY <1>1, <1>3, <1>4, CommitFacts
<1>6. RequireInv' /\ HistInv'
  BY <1>1, <1>3, <1>5 DEF ReleaseInv, RequireInv, HistInv
<1>7. QueueInv'
  BY <1>1, RequireFrame DEF ReleaseInv, QueueInv
<1>8. \A t \in tags : t.at \in DOMAIN hist
  BY DEF ReleaseInv, BranchInv
<1>9. BranchInv'
  <2>1. \A r \in Mine : r.at <= head => r.at <= head'
    BY <1>3, <1>5, <1>8 DEF Mine
  <2>2. hist'[origin].anc = hist[origin].anc
    BY <1>3, <1>5
  <2> QED
    BY <1>1, <1>2, <1>5, <2>1, <2>2 DEF ReleaseInv, BranchInv
<1>10. DoneInv'
  BY <1>1, <1>2, RequireFrame DEF ReleaseInv, DoneInv
<1>11. RequiredInv'
  <2>1. todo = {}
    BY <1>1 DEF ReleaseInv, QueueInv
  <2>2. \A u \in Mine : \A k \in Module : require[<<k, u.mod>>] = "direct" =>
          work[<<k, u.mod>>] = u.ver /\ (u.mod = mod => modified)
    BY <1>1, <2>1 DEF ReleaseInv, RequiredInv
  <2> QED
    BY <1>1, <1>2, <1>5, <2>2 DEF RequiredInv
<1>12. FitInv'
  BY <1>1, <1>2, <1>5, <1>8, RequireFrame DEF ReleaseInv, FitInv, Mine
<1> QED
  BY <1>6, <1>7, <1>9, <1>10, <1>11, <1>12 DEF ReleaseInv

\* A run ends, well or not.
LEMMA EndStep ==
  ASSUME ReleaseInv, NEW r, R!Ends(r), r = "stuck" => Cyclic,
         UNCHANGED <<require, work, hist, head, origin, tags, runs>>
  PROVE  ReleaseInv'
<1>1. /\ rpc' = "idle" /\ result' = r /\ opts' = R!NoOpts /\ queue' = {} /\ mod' = NoModule
      /\ todo' = {}
  BY DEF R!Ends
<1>2. Mine' = Mine
  BY DEF Mine
<1>3. RequireInv' /\ HistInv' /\ BranchInv'
  BY <1>1, <1>2 DEF ReleaseInv, RequireInv, HistInv, BranchInv
<1>4. QueueInv'
  BY <1>1, RequireFrame DEF QueueInv
<1>5. DoneInv' /\ RequiredInv'
  BY <1>1 DEF DoneInv, RequiredInv
<1>6. FitInv'
  BY <1>2, RequireFrame DEF ReleaseInv, FitInv
<1> QED
  BY <1>3, <1>4, <1>5, <1>6 DEF ReleaseInv

\* What BumpIterative goes on with: the modules that are left, and what they wait for.
Left == IF mod = opts.mod THEN R!Downstreams(mod) ELSE queue \ {mod}
Waits == IF mod = opts.mod THEN R!Reduce(deps, Left) ELSE R!RemoveModules(deps, {mod})

\* What is left are downstream modules, each with those among them it depends on.
LEMMA QueueFacts ==
  ASSUME ReleaseInv, rpc = "next", NEW q0, NEW d0, q0 = Left, d0 = Waits
  PROVE  /\ q0 \subseteq DownOf[opts.mod] /\ q0 \subseteq Module /\ opts.mod \notin q0
         /\ mod # opts.mod => q0 = queue \ {mod}
         /\ d0 = [m \in q0 |-> DepOf[m] \cap q0]
<1>1. RequireInv /\ mod \in Module /\ opts.mod \in Module
  BY DEF ReleaseInv, QueueInv
<1>2. DOMAIN DepOf = Module /\ \A m \in Module : DepOf[m] \subseteq Module
  BY <1>1, EdgeFacts
<1>3. CASE mod = opts.mod
  <2>1. q0 = DownOf[opts.mod] /\ d0 = R!RemoveModules(DepOf, Module \ q0)
    BY <1>1, <1>3 DEF ReleaseInv, QueueInv, R!Reduce, DownOf, Left, Waits
  <2>2. q0 \subseteq Module /\ opts.mod \notin q0
    BY <1>1, <2>1, EdgeFacts
  <2>3. d0 = [m \in Module \ (Module \ q0) |-> DepOf[m] \ (Module \ q0)]
    BY <1>2, <2>1 DEF R!RemoveModules
  <2>4. Module \ (Module \ q0) = q0 /\ \A m \in q0 : DepOf[m] \ (Module \ q0) = DepOf[m] \cap q0
    BY <1>2, <2>2
  <2> QED
    BY <1>3, <2>1, <2>2, <2>3, <2>4
<1>4. CASE mod # opts.mod
  <2>1. q0 = queue \ {mod} /\ d0 = R!RemoveModules(deps, {mod})
    BY <1>4 DEF Left, Waits
  <2>2. queue \subseteq DownOf[opts.mod] /\ deps = [m \in queue |-> DepOf[m] \cap queue]
    BY <1>4 DEF ReleaseInv, QueueInv
  <2>3. q0 \subseteq Module /\ opts.mod \notin q0
    BY <1>1, <2>1, <2>2, EdgeFacts
  <2>4. d0 = [m \in queue \ {mod} |-> (DepOf[m] \cap queue) \ {mod}]
    BY <2>1, <2>2 DEF R!RemoveModules
  <2>5. \A m \in q0 : (DepOf[m] \cap queue) \ {mod} = DepOf[m] \cap q0
    BY <2>1
  <2> QED
    BY <1>4, <2>1, <2>2, <2>3, <2>4, <2>5
<1> QED
  BY <1>3, <1>4

\* The next module waits for none of those that are left; if every one of them
\* waits for another, they are a circle.
LEMMA NextModuleStep == ReleaseInv /\ R!NextModule => ReleaseInv'
<1> SUFFICES ASSUME ReleaseInv, R!NextModule
             PROVE  ReleaseInv'
  OBVIOUS
<1>1. PICK q0 : q0 = Left
  OBVIOUS
<1>2. PICK d0 : d0 = Waits
  OBVIOUS
<1>3. /\ rpc = "next"
      /\ require' = require /\ work' = work /\ hist' = hist /\ head' = head /\ origin' = origin
      /\ tags' = tags /\ runs' = runs
      /\ \/ R!Ends("ok")
         \/ q0 # {} /\ R!Ready(q0, d0) = {} /\ R!Ends("stuck")
         \/ /\ \E m \in R!Ready(q0, d0) : mod' = m
            /\ queue' = q0 /\ deps' = d0 /\ rpc' = "tag"
            /\ opts' = opts /\ current' = current /\ todo' = todo /\ result' = result
  BY <1>1, <1>2 DEF R!NextModule, R!tree, R!repo, Left, Waits
<1>4. /\ q0 \subseteq DownOf[opts.mod] /\ q0 \subseteq Module /\ opts.mod \notin q0
      /\ mod # opts.mod => q0 = queue \ {mod}
      /\ d0 = [m \in q0 |-> DepOf[m] \cap q0]
  BY <1>1, <1>2, <1>3, QueueFacts
<1>5. CASE R!Ends("ok")
  BY <1>3, <1>5, EndStep
<1>6. CASE q0 # {} /\ R!Ready(q0, d0) = {} /\ R!Ends("stuck")
  <2>1. \A m \in q0 : DepOf[m] \cap q0 # {}
    BY <1>4, <1>6 DEF R!Ready
  <2>2. Cyclic
    BY <1>4, <1>6, <2>1, CircleFacts
  <2> QED
    BY <1>3, <1>6, <2>2, EndStep
<1>7. ASSUME NEW m \in R!Ready(q0, d0), mod' = m, queue' = q0, deps' = d0, rpc' = "tag",
             opts' = opts, current' = current, todo' = todo, result' = result
      PROVE  ReleaseInv'
  <2>1. m \in q0 /\ m \in Module /\ m # opts.mod /\ d0[m] = {} /\ DepOf[m] \cap q0 = {}
    BY <1>4, <1>7 DEF R!Ready
  <2>2. Mine' = Mine /\ VersionOf' = VersionOf
    BY <1>3, <1>7 DEF Mine, VersionOf, R!Released
  <2>3. RequireInv' /\ HistInv'
    BY <1>3 DEF ReleaseInv, RequireInv, HistInv
  <2>4. todo = {} /\ opts.mod \in Module
    BY <1>3 DEF ReleaseInv, QueueInv
  <2>5. QueueInv'
    BY <1>3, <1>4, <1>7, <2>1, <2>4, RequireFrame DEF ReleaseInv, QueueInv
  <2>6. BranchInv'
    BY <1>3, <1>7, <2>1, <2>2 DEF ReleaseInv, BranchInv
  <2>7. \A u \in Mine : u.mod \notin q0 /\ (u.mod # opts.mod => DepOf[u.mod] \cap q0 = {})
    <3> TAKE u \in Mine
    <3>1. CASE mod = opts.mod
      BY <1>3, <1>4, <3>1 DEF ReleaseInv, DoneInv
    <3>2. CASE mod # opts.mod
      BY <1>3, <1>4, <3>2 DEF ReleaseInv, DoneInv
    <3> QED
      BY <3>1, <3>2
  <2>8. DoneInv'
    BY <1>3, <1>7, <2>1, <2>2, <2>7, RequireFrame DEF ReleaseInv, DoneInv
  <2>9. RequiredInv'
    BY <1>3, <1>7, <2>1, <2>2, <2>7 DEF ReleaseInv, RequiredInv
  <2>10. FitInv'
    BY <1>3, <2>2, RequireFrame DEF ReleaseInv, FitInv
  <2> QED
    BY <2>3, <2>5, <2>6, <2>8, <2>9, <2>10 DEF ReleaseInv
<1> QED
  BY <1>3, <1>5, <1>6, <1>7

\* Somebody merges, pushes or resets.
LEMMA OthersStep ==
  ASSUME ReleaseInv, R!Merge \/ R!Push \/ R!Reset
  PROVE  ReleaseInv'
<1>1. /\ require' = require /\ tags' = tags /\ rpc' = rpc
      /\ opts' = opts /\ current' = current /\ deps' = deps /\ queue' = queue
      /\ mod' = mod /\ todo' = todo /\ modified' = modified /\ result' = result /\ runs' = runs
  BY DEF R!Merge, R!Push, R!Reset, R!repo, R!loop, R!bump
<1>2. Mine' = Mine /\ VersionOf' = VersionOf
  BY <1>1 DEF Mine, VersionOf, R!Released
<1>3. RequireInv' /\ QueueInv' /\ DoneInv'
  <2>1. RequireInv'
    BY <1>1 DEF ReleaseInv, RequireInv
  <2>2. QueueInv'
    BY <1>1, RequireFrame DEF ReleaseInv, QueueInv
  <2>3. DoneInv'
    BY <1>1, <1>2, RequireFrame DEF ReleaseInv, DoneInv
  <2> QED
    BY <2>1, <2>2, <2>3
<1>4. HistInv /\ head \in DOMAIN hist /\ origin \in DOMAIN hist
  BY DEF ReleaseInv, HistInv
<1>5. \A t \in tags : t.at \in DOMAIN hist
  BY DEF ReleaseInv, BranchInv
<1>6. CASE R!Merge
  <2>1. PICK q0 : q0 = hist[origin].req
    OBVIOUS
  <2>2. /\ head' = head /\ work' = work /\ origin' = Len(hist) + 1
        /\ hist' = Append(hist, [anc |-> hist[origin].anc \cup {Len(hist) + 1}, req |-> q0])
    BY <1>6, <2>1 DEF R!Merge
  <2>3. /\ origin' \in DOMAIN hist' /\ hist[origin].anc \subseteq hist'[origin'].anc
        /\ DOMAIN hist \subseteq DOMAIN hist' /\ \A i \in DOMAIN hist : hist'[i] = hist[i]
        /\ hist' \in Seq({hist'[i] : i \in DOMAIN hist'})
        /\ \A i \in DOMAIN hist' :
             /\ i \in hist'[i].anc
             /\ \A j \in hist'[i].anc : j \in DOMAIN hist' /\ hist'[j].anc \subseteq hist'[i].anc
    BY <1>4, <2>2, CommitFacts
  <2>4. HistInv'
    BY <1>4, <2>2, <2>3 DEF HistInv
  <2>5. BranchInv'
    BY <1>1, <1>2, <1>5, <2>2, <2>3 DEF ReleaseInv, BranchInv
  <2>6. RequiredInv'
    BY <1>1, <1>2, <1>4, <2>2, <2>3 DEF ReleaseInv, RequiredInv
  <2>7. FitInv'
    BY <1>1, <1>2, <1>5, <2>3, RequireFrame DEF ReleaseInv, FitInv, Mine
  <2> QED
    BY <1>3, <2>4, <2>5, <2>6, <2>7 DEF ReleaseInv
<1>7. CASE R!Push \/ R!Reset
  <2>1. /\ rpc = "idle" /\ hist' = hist
        /\ \/ origin \in hist[head].anc /\ origin' = head /\ head' = head
           \/ head' = origin /\ origin' = origin
    BY <1>7 DEF R!Push, R!Reset
  <2>2. HistInv'
    BY <1>4, <2>1 DEF HistInv
  <2>3. hist[origin].anc \subseteq hist[origin'].anc
    BY <1>4, <2>1 DEF HistInv
  <2>4. BranchInv'
    BY <1>1, <1>2, <2>1, <2>3 DEF ReleaseInv, BranchInv
  <2>5. RequiredInv'
    BY <1>1, <2>1 DEF RequiredInv
  <2>6. FitInv'
    BY <1>1, <1>2, <2>1, RequireFrame DEF ReleaseInv, FitInv
  <2> QED
    BY <1>3, <2>2, <2>4, <2>5, <2>6 DEF ReleaseInv
<1> QED
  BY <1>6, <1>7

\* The invariant holds of a behaviour of the sum, whichever part it is about.
LEMMA ReleaseInvariant == MCSpec => []ReleaseInv
<1>1. R!Init => ReleaseInv
  <2> SUFFICES ASSUME R!Init
               PROVE  ReleaseInv
    OBVIOUS
  <2>1. /\ hist = <<[anc |-> {1}, req |-> work]>> /\ head = 1 /\ origin = 1 /\ tags = {}
        /\ rpc = "idle" /\ opts = R!NoOpts /\ result = "none" /\ queue = {}
        /\ mod = NoModule /\ todo = {} /\ runs = 0
    BY DEF R!Init
  <2>2. PICK f : require = [e \in Module \X Module |-> IF e \in Edge THEN f[e] ELSE "none"]
    BY DEF R!Init
  <2>3. RequireInv
    BY <2>2 DEF RequireInv
  <2>4. PICK x : x = [anc |-> {1}, req |-> work]
    OBVIOUS
  <2>5. x.anc = {1} /\ hist = <<x>>
    BY <2>1, <2>4
  <2>6. hist \in Seq({x}) /\ DOMAIN hist = {1} /\ hist[1] = x
    BY <2>5
  <2>7. HistInv
    BY <2>1, <2>5, <2>6 DEF HistInv
  <2>8. Mine = {}
    BY <2>1 DEF Mine
  <2> QED
    BY <2>1, <2>3, <2>7, <2>8 DEF ReleaseInv, QueueInv, BranchInv, DoneInv, RequiredInv, FitInv
<1>2. MCInit => ReleaseInv
  BY <1>1 DEF MCInit, ReleaseRest
<1>3. ReleaseInv /\ UNCHANGED rVars => ReleaseInv'
  <2> SUFFICES ASSUME ReleaseInv, UNCHANGED rVars
               PROVE  ReleaseInv'
    OBVIOUS
  <2>1. /\ require' = require /\ work' = work /\ hist' = hist /\ head' = head /\ origin' = origin
        /\ tags' = tags /\ rpc' = rpc /\ opts' = opts /\ current' = current /\ deps' = deps
        /\ queue' = queue /\ mod' = mod /\ todo' = todo /\ modified' = modified
        /\ result' = result /\ runs' = runs
    BY DEF rVars
  <2>2. Mine' = Mine /\ VersionOf' = VersionOf
    BY <2>1 DEF Mine, VersionOf, R!Released
  <2>3. RequireInv' /\ HistInv' /\ BranchInv' /\ RequiredInv'
    BY <2>1, <2>2 DEF ReleaseInv, RequireInv, HistInv, BranchInv, RequiredInv
  <2>4. QueueInv' /\ DoneInv' /\ FitInv'
    BY <2>1, <2>2, RequireFrame DEF ReleaseInv, QueueInv, DoneInv, FitInv
  <2> QED
    BY <2>3, <2>4 DEF ReleaseInv
<1>4. ReleaseInv /\ R!Next => ReleaseInv'
  <2> SUFFICES ASSUME ReleaseInv, R!Next
               PROVE  ReleaseInv'
    OBVIOUS
  <2>1. CASE \E m \in Module, l \in Levels, pr, sk \in BOOLEAN :
               R!Start([mod |-> m, level |-> l, propagate |-> pr, skipGit |-> sk])
    <3>1. PICK m \in Module, l \in Levels, pr \in BOOLEAN, sk \in BOOLEAN :
            R!Start([mod |-> m, level |-> l, propagate |-> pr, skipGit |-> sk])
      BY <2>1
    <3>2. [mod |-> m, level |-> l, propagate |-> pr, skipGit |-> sk].mod \in Module
      OBVIOUS
    <3> QED
      BY <3>1, <3>2, StartStep
  <2>2. CASE R!StepFails
    BY <2>2, EndStep DEF R!StepFails, R!tree, R!repo
  <2>3. CASE \E k \in Module : R!BumpModInFile(k)
    BY <2>3, BumpStep
  <2> QED
    BY <2>1, <2>2, <2>3, TagStep, PlainStep, CommitStep, NextModuleStep, OthersStep
    DEF R!Next
<1>5. ReleaseInv /\ [MCNext]_<<part, vars, kmVars, rVars, ssVars, svVars>> => ReleaseInv'
  <2> SUFFICES ASSUME ReleaseInv, [MCNext]_<<part, vars, kmVars, rVars, ssVars, svVars>>
               PROVE  ReleaseInv'
    OBVIOUS
  <2>1. R!Next \/ UNCHANGED rVars
    BY DEF MCNext
  <2> QED
    BY <2>1, <1>3, <1>4
<1> QED
  BY <1>2, <1>5, PTL DEF MCSpec

\* Releases are in order for every graph of modules, however runs fail and
\* whoever merges meanwhile: a tagged module requires the versions its run has
\* tagged, a run's first tag lies on the remote branch, and only a circle makes
\* the tool give up (BumpIterative, BumpModInFile, verifyReleaseRef).
THEOREM ReleasesHold == MCSpec => []ReleasesAreSound
<1>1. ReleaseInv => R!ReleasesFitTogether
  BY DEF ReleaseInv, FitInv, Mine, Cyclic, R!ReleasesFitTogether
<1>2. ReleaseInv => R!FirstTagOnBranch
  <2> SUFFICES ASSUME ReleaseInv, NEW t \in tags,
                      \A u \in tags : u.run = t.run => t.at <= u.at
               PROVE  t.at \in hist[origin].anc
    BY DEF R!FirstTagOnBranch
  <2>1. PICK r \in tags : r.run = t.run /\ r.at <= t.at /\ r.at \in hist[origin].anc
    BY DEF ReleaseInv, BranchInv
  <2>2. DOMAIN hist \subseteq Int
    BY DEF ReleaseInv, HistInv
  <2>3. t.at \in Int /\ r.at \in Int
    BY <2>2 DEF ReleaseInv, BranchInv
  <2> QED
    BY <2>1, <2>3
<1>3. ReleaseInv => R!OnlyCyclesStick
  BY DEF ReleaseInv, QueueInv, Cyclic, R!OnlyCyclesStick
<1>4. ReleaseInv => ReleasesAreSound
  BY <1>1, <1>2, <1>3 DEF ReleasesAreSound
<1> QED
  BY <1>4, ReleaseInvariant, PTL

-----------------------------------------------------------------------------
(* The session with the secret service *)

\* A multiple of a number leaves no remainder.
LEMMA ModFacts ==
  ASSUME NEW n \in Nat, NEW b \in Nat, b > 0, NEW r, r = n % b
  PROVE  r \in 0..(b - 1) /\ (n + (b - r)) % b = 0
<1>1. r \in 0..(b - 1)
  OBVIOUS
<1>2. PICK k \in Int : n = b * k + r
  <2>1. n \div b \in Int /\ n = b * (n \div b) + r
    OBVIOUS
  <2> QED
    BY <2>1
<1>3. PICK x \in Int : x = n + (b - r)
  BY <1>1
<1>4. x % b = 0
  <2>1. x = b * (k + 1)
    BY <1>1, <1>2, <1>3
  <2>2. PICK s \in 0..(b - 1), q0 \in Int : s = x % b /\ x = b * q0 + s
    OBVIOUS
  <2>3. PICK d \in Int : d = (k + 1) - q0
    OBVIOUS
  <2>4. b * d = s
    BY <2>1, <2>2, <2>3
  <2>5. ~ (d >= 1) /\ ~ (d <= -1)
    BY <2>2, <2>4
  <2>6. d = 0
    BY <2>5
  <2> QED
    BY <2>2, <2>4, <2>6
<1>5. (n + (b - r)) % b = 0
  BY <1>3, <1>4, Zenon
<1> QED
  BY <1>1, <1>5

\* padPKCS7 adds a byte at least and whole blocks; unpadPKCS7 takes off what it added.
LEMMA PadFacts ==
  ASSUME NEW xs \in Seq(SS!Byte), NEW ys, ys = SS!padPKCS7(xs)
  PROVE  Len(ys) >= BlockSize /\ SS!Unpaddable(ys) /\ SS!unpadPKCS7(ys) = xs
<1>1. PICK b, L : b = BlockSize /\ L = Len(xs)
  OBVIOUS
<1>2. b \in Nat /\ b > 0 /\ L \in Nat
  BY <1>1, SessionAssumed DEF SS!SessionAssumption
<1>3. PICK r, m : r = L % b /\ m = b - r
  OBVIOUS
<1>4. m \in 1..b /\ (L + m) % b = 0
  <2>1. r \in 0..(b - 1) /\ (L + (b - r)) % b = 0
    BY <1>2, <1>3, ModFacts
  <2> QED
    BY <1>2, <1>3, <2>1
<1>5. PICK pad : pad = [i \in 1..m |-> m]
  OBVIOUS
<1>6. pad \in Seq(Int) /\ Len(pad) = m /\ \A i \in 1..m : pad[i] = m
  BY <1>4, <1>5
<1>7. xs \in Seq(Int)
  BY SessionAssumed DEF SS!Byte, SS!SessionAssumption
<1>8. ys = xs \o pad
  BY <1>1, <1>3, <1>5 DEF SS!padPKCS7
<1>9. /\ ys \in Seq(Int) /\ Len(ys) = L + m
      /\ \A i \in 1..L : ys[i] = xs[i]
      /\ \A i \in (L + 1)..(L + m) : ys[i] = m
  <2>1. ys \in Seq(Int) /\ Len(ys) = L + m
    <3>1. ys \in Seq(Int)
      BY <1>6, <1>7, <1>8
    <3>2. pad \in Seq(Int) /\ xs \in Seq(Int)
      BY <1>6, <1>7
    <3>3. Len(xs \o pad) = Len(xs) + Len(pad)
      BY <3>2
    <3> QED
      BY <1>1, <1>6, <1>8, <3>1, <3>3
  <2>2. \A i \in 1..L : ys[i] = xs[i]
    BY <1>1, <1>2, <1>4, <1>6, <1>7, <1>8
  <2>3. \A i \in (L + 1)..(L + m) : ys[i] = pad[i - L] /\ i - L \in 1..m
    BY <1>1, <1>2, <1>4, <1>6, <1>7, <1>8
  <2> QED
    BY <1>6, <2>1, <2>2, <2>3
<1>10. Len(ys) >= BlockSize
  <2>1. L >= L % b
    BY <1>2
  <2> QED
    BY <1>1, <1>2, <1>3, <1>4, <1>9, <2>1
<1>11. ys # <<>> /\ ys[Len(ys)] = m
  <2>1. Len(ys) \in (L + 1)..(L + m)
    BY <1>2, <1>4, <1>9
  <2>2. ys[Len(ys)] = m
    BY <1>9, <2>1
  <2>3. Len(ys) # 0
    BY <1>2, <2>1
  <2> QED
    BY <2>2, <2>3
<1>12. Len(ys) - m = L /\ Len(ys) - m + 1 = L + 1
  <2>1. Len(ys) = L + m
    BY <1>9
  <2> QED
    BY <1>2, <1>4, <2>1
<1>13. SS!Unpaddable(ys)
  BY <1>1, <1>2, <1>4, <1>9, <1>11, <1>12 DEF SS!Unpaddable
<1>14. SS!unpadPKCS7(ys) = xs
  <2>1. SS!unpadPKCS7(ys) = SubSeq(ys, 1, L)
    BY <1>11, <1>12 DEF SS!unpadPKCS7
  <2>2. PICK zs : zs = SubSeq(ys, 1, L)
    OBVIOUS
  <2>3. zs \in Seq(Int) /\ Len(zs) = L /\ \A i \in 1..L : zs[i] = ys[i]
    BY <1>2, <1>4, <1>9, <2>2
  <2> QED
    BY <1>1, <1>7, <1>9, <2>1, <2>2, <2>3
<1> QED
  BY <1>10, <1>13, <1>14

\* A session fails because a public number is out of bounds, or because client
\* and daemon have derived different keys: never because of the secret.
FailsForKeys ==
  stage = "failed" => \/ ~ SS!InBounds(SS!Public(input.b, input.p), input.p)
                      \/ key["client"] # key["daemon"]

\* The inductive invariant of a session.
SessionInv ==
  /\ input.plain \in Seq(SS!Byte)
  /\ stage \in {"start", "open", "saved", "read", "failed"}
  /\ stage \in {"saved", "read"} => stored = input.plain
  /\ stage = "read" => read = input.plain
  /\ FailsForKeys

\* What a side that has the key makes of encrypted bytes.
LEMMA CipherFacts ==
  ASSUME NEW xs \in Seq(SS!Byte), NEW k, NEW l
  PROVE  /\ SS!Decryptable(SS!Encrypt(xs, k), l) <=> k = l
         /\ SS!Decrypt(SS!Encrypt(xs, k)) = xs
<1>1. PICK ys : ys = SS!padPKCS7(xs)
  OBVIOUS
<1>2. PICK c : c = SS!Encrypt(xs, k)
  OBVIOUS
<1>3. c.key = k /\ c.blocks = ys
  BY <1>1, <1>2 DEF SS!Encrypt
<1>4. Len(ys) >= BlockSize /\ SS!Unpaddable(ys) /\ SS!unpadPKCS7(ys) = xs
  BY <1>1, PadFacts
<1> QED
  BY <1>2, <1>3, <1>4 DEF SS!Decryptable, SS!Decrypt

\* The invariant holds of a behaviour of the sum, whichever part it is about.
LEMMA SessionInvariant == MCSpec => []SessionInv
<1>1. SS!Init => SessionInv
  <2> SUFFICES ASSUME SS!Init
               PROVE  SessionInv
    OBVIOUS
  <2>1. PICK x \in SS!Plain : input.plain = x
    BY DEF SS!Init
  <2>2. x \in Seq(SS!Byte)
    BY <2>1, SessionAssumed DEF SS!Plain, SS!SessionAssumption
  <2>3. stage = "start"
    BY DEF SS!Init
  <2> QED
    BY <2>1, <2>2, <2>3 DEF SessionInv, FailsForKeys
<1>2. MCInit => SessionInv
  BY <1>1 DEF MCInit, SessionRest
<1>3. SessionInv /\ UNCHANGED ssVars => SessionInv'
  BY DEF SessionInv, FailsForKeys, ssVars
<1>4. SessionInv /\ SS!OpenSession => SessionInv'
  <2> SUFFICES ASSUME SessionInv, SS!OpenSession
               PROVE  SessionInv'
    OBVIOUS
  <2>1. /\ input' = input /\ stored' = stored /\ read' = read
        /\ \/ stage' = "failed" /\ ~ SS!InBounds(SS!Public(input.b, input.p), input.p)
           \/ stage' = "open"
    BY DEF SS!OpenSession
  <2> QED
    BY <2>1 DEF SessionInv, FailsForKeys
<1>5. SessionInv /\ SS!NewSecret => SessionInv'
  <2> SUFFICES ASSUME SessionInv, SS!NewSecret
               PROVE  SessionInv'
    OBVIOUS
  <2>1. PICK xs, k, l : xs = input.plain /\ k = key["client"] /\ l = key["daemon"]
    OBVIOUS
  <2>2. xs \in Seq(SS!Byte)
    BY <2>1 DEF SessionInv
  <2>3. /\ input' = input /\ key' = key /\ read' = read
        /\ \/ stage' = "saved" /\ stored' = SS!Decrypt(SS!Encrypt(xs, k))
           \/ stage' = "failed" /\ ~ SS!Decryptable(SS!Encrypt(xs, k), l)
           \/ stage' = "saved" /\ stored' = xs
    BY <2>1 DEF SS!NewSecret
  <2>4. (stage' = "saved" /\ stored' = xs) \/ (stage' = "failed" /\ k # l)
    BY <2>2, <2>3, CipherFacts
  <2> QED
    BY <2>1, <2>3, <2>4 DEF SessionInv, FailsForKeys
<1>6. SessionInv /\ SS!GetSecret => SessionInv'
  <2> SUFFICES ASSUME SessionInv, SS!GetSecret
               PROVE  SessionInv'
    OBVIOUS
  <2>1. PICK xs, k, l : xs = input.plain /\ k = key["daemon"] /\ l = key["client"]
    OBVIOUS
  <2>2. xs \in Seq(SS!Byte) /\ stored = xs
    BY <2>1 DEF SessionInv, SS!GetSecret
  <2>3. /\ input' = input /\ key' = key /\ stored' = stored
        /\ \/ stage' = "read" /\ read' = SS!Decrypt(SS!Encrypt(xs, k))
           \/ stage' = "failed" /\ ~ SS!Decryptable(SS!Encrypt(xs, k), l)
           \/ stage' = "read" /\ read' = xs
    BY <2>1, <2>2 DEF SS!GetSecret
  <2>4. (stage' = "read" /\ read' = xs) \/ (stage' = "failed" /\ k # l)
    BY <2>2, <2>3, CipherFacts
  <2> QED
    BY <2>1, <2>2, <2>3, <2>4 DEF SessionInv, FailsForKeys
<1>7. SessionInv /\ [MCNext]_<<part, vars, kmVars, rVars, ssVars, svVars>> => SessionInv'
  <2> SUFFICES ASSUME SessionInv, [MCNext]_<<part, vars, kmVars, rVars, ssVars, svVars>>
               PROVE  SessionInv'
    OBVIOUS
  <2>1. SS!Next \/ UNCHANGED ssVars
    BY DEF MCNext
  <2> QED
    BY <2>1, <1>3, <1>4, <1>5, <1>6 DEF SS!Next
<1> QED
  BY <1>2, <1>7, PTL DEF MCSpec

\* A secret that is read is the secret that was saved, whatever its length and
\* its last bytes, for every byte and block size, and a session never fails
\* because of the secret (padPKCS7, unpadPKCS7, NewSecret, GetSecret).  That
\* client and daemon derive the same key is left to the model checker.
THEOREM SecretsComeBack == MCSpec => [](SS!SecretReturns /\ FailsForKeys)
<1>1. SessionInv => SS!SecretReturns /\ FailsForKeys
  BY DEF SessionInv, SS!SecretReturns
<1> QED
  BY <1>1, SessionInvariant, PTL

=============================================================================
