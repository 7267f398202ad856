---------------------------- MODULE SecretSession ----------------------------
(***************************************************************************)
(* A secret on its way to the Secret Service and back (OpenSession,        *)
(* NewSecret and GetSecret of secretservice.go, and                        *)
(* dh_ietf1024_sha256_aes128_cbc_pkcs7.go): Diffie-Hellman, a key derived  *)
(* from the shared number in a fixed width, and padded blocks.  The        *)
(* daemon's half of the protocol, HKDF and AES are external: a key is what *)
(* it is derived from, and only the same key decrypts.                     *)
(***************************************************************************)
EXTENDS Integers, Sequences

CONSTANTS
  Primes,     \* moduli; the code has one of 1024 bits
  Generator,  \* 2 in the code
  Radix,      \* values of a byte, 256 in the code
  BlockSize,  \* aes.BlockSize, 16 in the code
  MaxPlain    \* bound: length of a secret

\* What the constants have to be.
SessionAssumption ==
  /\ Primes \subseteq Nat /\ {Generator, Radix, BlockSize, MaxPlain} \subseteq Nat
  /\ \A p \in Primes : p > 4
  /\ BlockSize > 0 /\ Radix > BlockSize

VARIABLES
  input,  \* mode, modulus, the two private numbers and the secret
  stage,  \* "start", "open", "saved", "read" or "failed"
  key,    \* the AES key of the client and of the daemon
  wire,   \* what the last message carried
  stored, \* the secret the daemon keeps
  read    \* what GetSecret returned

vars == <<input, stage, key, wire, stored, read>>

Byte == 0 .. Radix - 1
Plain == UNION {[1..n -> Byte] : n \in 0..MaxPlain}

\* The types of the variables.
TypeOK ==
  /\ input.mode \in {"plain", "dh-ietf1024-sha256-aes128-cbc-pkcs7"}
  /\ stage \in {"start", "open", "saved", "read", "failed"}
  /\ \A w \in {"client", "daemon"} : \A i \in DOMAIN key[w] : key[w][i] \in Byte
  /\ \A i \in DOMAIN stored : stored[i] \in Byte
  /\ \A i \in DOMAIN read : read[i] \in Byte

-----------------------------------------------------------------------------
(* Diffie-Hellman *)

\* big.Int.Exp: b^e modulo p.
Exp(b, e, p) ==
  LET pow[n \in 0..e] == IF n = 0 THEN 1 ELSE (pow[n - 1] * b) % p
  IN  pow[e]

\* NewKeypair: a private number from 1 to p - 2.
Privates(p) == 1 .. p - 2
Public(a, p) == Exp(Generator, a, p)

\* diffieHellman refuses 0, 1, p - 1 and what is no residue.
InBounds(y, p) == y > 1 /\ y < p - 1
diffieHellman(y, a, p) == Exp(y, a, p)

Width(p) == CHOOSE w \in 1..p : Radix^(w - 1) <= p /\ p < Radix^w

\* FillBytes: big endian, filled up with zeros.
FillBytes(x, w) == [i \in 1..w |-> (x \div Radix^(w - i)) % Radix]

\* Variant: big.Int.Bytes, which drops leading zeros.
Keygen_Minimal(y, a, p) ==
  LET x == diffieHellman(y, a, p) IN FillBytes(x, CHOOSE w \in 0..p : x < Radix^w /\ (w > 0 => Radix^(w - 1) <= x))

\* keygenHKDFSHA256AES128
Keygen(y, a, p) == FillBytes(diffieHellman(y, a, p), Width(p))

-----------------------------------------------------------------------------
(* Blocks *)

padPKCS7(xs) ==
  LET m == BlockSize - (Len(xs) % BlockSize) IN xs \o [i \in 1..m |-> m]

\* unpadPKCS7: the last byte says how many go, and they all must agree.
Unpaddable(xs) ==
  /\ xs # <<>> /\ Len(xs) % BlockSize = 0
  /\ xs[Len(xs)] <= Len(xs)
  /\ \A i \in (Len(xs) - xs[Len(xs)] + 1)..Len(xs) : xs[i] = xs[Len(xs)]
unpadPKCS7(xs) == SubSeq(xs, 1, Len(xs) - xs[Len(xs)])

\* Encrypted bytes, and what decrypting them takes.
Encrypt(xs, k) == [key |-> k, blocks |-> padPKCS7(xs)]
Decryptable(c, k) == c.key = k /\ Len(c.blocks) >= BlockSize /\ Unpaddable(c.blocks)
Decrypt(c) == unpadPKCS7(c.blocks)

-----------------------------------------------------------------------------
NoKey == <<>>
Encrypted == input.mode # "plain"

Init ==
  /\ \E p \in Primes : \E a, b \in Privates(p) : \E x \in Plain, m \in {"plain", "dh-ietf1024-sha256-aes128-cbc-pkcs7"} :
       /\ m = "plain" => a = 1 /\ b = 1
       /\ input = [mode |-> m, p |-> p, a |-> a, b |-> b, plain |-> x]
  /\ stage = "start"
  /\ key = [w \in {"client", "daemon"} |-> NoKey]
  /\ wire = <<>> /\ stored = <<>> /\ read = <<>>

\* OpenSession: the public numbers are exchanged and both sides derive a key.
OpenSession ==
  /\ stage = "start"
  /\ LET p == input.p
         mine == Public(input.a, p)
         theirs == Public(input.b, p)
     IN  IF Encrypted /\ ~InBounds(theirs, p) THEN stage' = "failed" /\ UNCHANGED key
         ELSE /\ stage' = "open"
              /\ key' = IF ~Encrypted THEN key
                        ELSE [client |-> Keygen(theirs, input.a, p),
                              daemon |-> FillBytes(diffieHellman(mine, input.b, p), Width(p))]
  /\ UNCHANGED <<input, wire, stored, read>>

\* NewSecret, and the daemon that takes or refuses it.
NewSecret ==
  /\ stage = "open"
  /\ LET c == Encrypt(input.plain, key["client"])
     IN  IF Encrypted
         THEN /\ wire' = c.blocks
              /\ IF Decryptable(c, key["daemon"]) THEN stage' = "saved" /\ stored' = Decrypt(c)
                 ELSE stage' = "failed" /\ UNCHANGED stored
         ELSE wire' = input.plain /\ stored' = input.plain /\ stage' = "saved"
  /\ UNCHANGED <<input, key, read>>

\* GetSecret decrypts what the daemon sends.
GetSecret ==
  /\ stage = "saved"
  /\ LET c == Encrypt(stored, key["daemon"])
     IN  IF ~Encrypted THEN wire' = stored /\ read' = stored /\ stage' = "read"
         ELSE /\ wire' = c.blocks
              /\ IF Decryptable(c, key["client"]) THEN read' = Decrypt(c) /\ stage' = "read"
                 ELSE stage' = "failed" /\ UNCHANGED read
  /\ UNCHANGED <<input, key, stored>>

Next == OpenSession \/ NewSecret \/ GetSecret

Spec == Init /\ [][Next]_vars

\* What is read is what was saved, of every length and whatever bytes it ends in.
SecretReturns == stage = "read" => stored = input.plain /\ read = input.plain

\* Every secret comes back as it was, for every pair of private numbers: also
\* when the shared number has leading zero bytes.  Only a public number out of
\* bounds fails a session (keygenHKDFSHA256AES128, padPKCS7, unpadPKCS7).
SessionRoundTrip ==
  SecretReturns /\ (stage = "failed" => ~InBounds(Public(input.b, input.p), input.p))

==============================================================================
