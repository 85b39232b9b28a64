-------------------------- MODULE AlgorithmRegistry --------------------------
(***************************************************************************)
(* The signature algorithm registry of EIP-7932 (assets/algorithm_registry)*)
(* with its one entry, secp256k1.  A signature is the algorithm byte, r, s *)
(* and y_parity, followed by extra further bytes; where extra is negative  *)
(* it is cut short by so many.  Curve arithmetic is external: a constant   *)
(* operator of which Sigrecover assumes what its property needs.           *)
(***************************************************************************)
EXTENDS Integers

CONSTANTS SECP256K1N,                 \* order of the group
          ecdsa_recover(_, _, _, _)   \* key by which (r, s, y_parity) signs a digest, or NoKey

ASSUME OrderAssumption == SECP256K1N \in Nat /\ SECP256K1N % 2 = 1

NoKey == <<"not recovered">>

SECP256K1_ALGORITHM == 255
SIZE == 66
algorithm_registry == {SECP256K1_ALGORITHM}

SignatureLength(signature) == SIZE + signature.extra

\* A word of keccak, on top of 30, unless the data is a hash already.
gas_cost(length) == IF length = 32 THEN 0 ELSE 30 + 6 * ((length + 31) \div 32)

\* Mutant of secp256k1_validate: the malleable upper half of s is accepted.
ValidateMalleable(signature) ==
  /\ signature.extra >= 0
  /\ 0 < signature.r /\ signature.r < SECP256K1N
  /\ 0 < signature.s /\ signature.s < SECP256K1N
  /\ signature.y_parity \in {0, 1}

\* A signature that is cut short has no y_parity to read.
secp256k1_validate(signature) ==
  /\ signature.extra >= 0
  /\ 0 < signature.r /\ signature.r < SECP256K1N
  /\ 0 < signature.s /\ signature.s <= SECP256K1N \div 2
  /\ signature.y_parity \in {0, 1}

validate_signature(signature) ==
  /\ SignatureLength(signature) > 0
  /\ signature.alg \in algorithm_registry
  /\ secp256k1_validate(signature)

Keccak(data) == <<"keccak", data>>

\* What is recovered from is a hash: 32 bytes are taken for one.
Digest(length, data) == IF length = 32 THEN data ELSE Keccak(data)

PublicKey(signature, digest) ==
  ecdsa_recover(signature.r, signature.s, signature.y_parity, digest)

\* r may be no x-coordinate, and the key the point at infinity.
RecoveryFails(signature, digest) == PublicKey(signature, digest) = NoKey

\* The prefix byte is hashed too for every algorithm but secp256k1.
pubkey_to_address(public_key, algorithm_id) ==
  IF algorithm_id = SECP256K1_ALGORITHM THEN <<"address", public_key>>
                                        ELSE <<"address", public_key, algorithm_id>>
=============================================================================
