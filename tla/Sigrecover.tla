----------------------------- MODULE Sigrecover -----------------------------
(***************************************************************************)
(* The sigrecover precompile of EIP-7932 (assets/precompile.py): the steps *)
(* of one call in their order, each of which may raise.  AssertionError is *)
(* caught and gives INVALID with the gas counted so far, any other         *)
(* exception leaves the precompile.                                        *)
(***************************************************************************)
EXTENDS AlgorithmRegistry

CONSTANTS Lengths,      \* lengths of the input
          Algorithms,   \* first bytes of the input
          Scalars, Parities,
          Datas         \* what is signed

ASSUME LengthAssumption == Lengths \subseteq Nat /\ Scalars \subseteq Nat

\* What recovery hashes or takes for a hash: the data after the signature.
DigestOf(i) == Digest(i.length - SIZE, i.data)

Digests == {Digest(length - SIZE, data) : length \in Lengths, data \in Datas}

\* The nonce point of r and y_parity is the opposite of that of r and 1 - y_parity,
\* and has prime order: by one r, a key signs a digest with s and N - s only.
ASSUME RecoveryAssumption ==
  \A r, s, t \in 1 .. SECP256K1N - 1, y, z \in {0, 1}, digest \in Digests :
    ecdsa_recover(r, s, y, digest) # NoKey =>
      (ecdsa_recover(r, t, z, digest) = ecdsa_recover(r, s, y, digest)
         <=> (t = s /\ z = y) \/ (t = SECP256K1N - s /\ z = 1 - y))

VARIABLES pc, input, gas, output
callVars == <<pc, input, gas, output>>

INVALID == <<"zero bytes">>
SIGRECOVER_BASE_GAS == 3000

\* The signature is cut from the input at exactly the size.
Inputs == [length : Lengths, alg : Algorithms, r : Scalars, s : Scalars,
           y_parity : Parities, extra : {0}, data : Datas]

NoInput == [length |-> 0]

SigrecoverInit == pc = "idle" /\ input = NoInput /\ gas = 0 /\ output = INVALID

Call(i) ==
  /\ pc = "idle"
  /\ input' = i
  /\ gas' = SIGRECOVER_BASE_GAS
  /\ output' = INVALID
  /\ pc' = "decode"

Assert(condition, next) == pc' = IF condition THEN next ELSE "returned"

\* Mutant of Decode: an input without signing data is decoded.
DecodeDataless ==
  /\ pc = "decode"
  /\ Assert(input.length >= 1 /\ input.alg \in algorithm_registry /\ input.length >= SIZE, "charge")
  /\ UNCHANGED <<input, gas, output>>

\* Length of the input, algorithm, and at least one byte of signing data.
Decode ==
  /\ pc = "decode"
  /\ Assert(input.length >= 1 /\ input.alg \in algorithm_registry /\ input.length > SIZE, "charge")
  /\ UNCHANGED <<input, gas, output>>

Charge ==
  /\ pc = "charge"
  /\ gas' = gas + gas_cost(input.length - SIZE)
  /\ pc' = "validate"
  /\ UNCHANGED <<input, output>>

ValidateSignature ==
  /\ pc = "validate"
  /\ Assert(validate_signature(input), "verify")
  /\ UNCHANGED <<input, gas, output>>

\* The exception of the library is not an AssertionError.
Verify ==
  /\ pc = "verify"
  /\ IF RecoveryFails(input, DigestOf(input))
     THEN pc' = "raised" /\ UNCHANGED output
     ELSE /\ pc' = "returned"
          /\ output' = pubkey_to_address(PublicKey(input, DigestOf(input)), input.alg)
  /\ UNCHANGED <<input, gas>>

Return ==
  /\ pc \in {"returned", "raised"}
  /\ pc' = "idle" /\ input' = NoInput /\ gas' = 0 /\ output' = INVALID

SigrecoverNext == (\E i \in Inputs : Call(i)) \/ Decode \/ Charge \/ ValidateSignature \/ Verify \/ Return

SigrecoverSpec == SigrecoverInit /\ [][SigrecoverNext]_callVars

-----------------------------------------------------------------------------
\* What the test cases say of the gas: the base alone when the input is not
\* decoded, the price of the signing data on top of it otherwise, whether or
\* not the signature is then found invalid.
GasAsTested ==
  pc \in {"returned", "raised"} =>
    gas = SIGRECOVER_BASE_GAS
          + IF input.alg \in algorithm_registry /\ input.length > SIZE
            THEN gas_cost(input.length - SIZE) ELSE 0

\* The signature that gives an address cannot be turned into a second one by its
\* s or y_parity.  (Another r is another nonce: the key may sign with that, too.)
AddressesUnique ==
  (pc = "returned" /\ output # INVALID) =>
    \A s \in Scalars, y \in Parities :
      LET other == [input EXCEPT !.s = s, !.y_parity = y]
      IN validate_signature(other)
         /\ pubkey_to_address(PublicKey(other, DigestOf(input)), input.alg) = output
           => other = input

\* A hash given as signing data and the data it is the hash of have one signer.
HashOrData ==
  (pc = "returned" /\ output # INVALID /\ input.length # SIZE + 32) =>
    output = pubkey_to_address(PublicKey(input, Digest(32, Keccak(input.data))), input.alg)

-----------------------------------------------------------------------------
(* What EIP-7932 says and the code does otherwise. *)

\* On failure, the precompile returns zero bytes.
FailureIsReturned == pc # "raised"
=============================================================================
