--------------------------- MODULE SszTransactions ---------------------------
(***************************************************************************)
(* The SSZ transactions of EIP-6404 (assets/ssz_types.py): the fields of   *)
(* each payload, the signature as bytes of the secp256k1 algorithm, and    *)
(* the validation of a transaction.  A payload is a function on the names  *)
(* of its active fields, the union's selector next to it.                  *)
(***************************************************************************)
EXTENDS RlpTransactions

RlpLegacyReplayableCreateTransactionPayload ==
  {"type_", "nonce", "max_fees_per_gas", "gas", "value", "input_"}
RlpLegacyReplayableBasicTransactionPayload == RlpLegacyReplayableCreateTransactionPayload \cup {"to"}
RlpLegacyCreateTransactionPayload == RlpLegacyReplayableCreateTransactionPayload \cup {"chain_id"}
RlpLegacyBasicTransactionPayload == RlpLegacyCreateTransactionPayload \cup {"to"}
RlpAccessListCreateTransactionPayload == RlpLegacyCreateTransactionPayload \cup {"access_list"}
RlpAccessListBasicTransactionPayload == RlpAccessListCreateTransactionPayload \cup {"to"}
RlpCreateTransactionPayload == RlpAccessListCreateTransactionPayload \cup {"max_priority_fees_per_gas"}
RlpBasicTransactionPayload == RlpCreateTransactionPayload \cup {"to"}
RlpBlobTransactionPayload == RlpBasicTransactionPayload \cup {"blob_versioned_hashes"}
RlpSetCodeTransactionPayload == RlpBasicTransactionPayload \cup {"authorization_list"}

TransactionPayload ==
  <<RlpLegacyReplayableBasicTransactionPayload, RlpLegacyReplayableCreateTransactionPayload,
    RlpLegacyBasicTransactionPayload, RlpLegacyCreateTransactionPayload,
    RlpAccessListBasicTransactionPayload, RlpAccessListCreateTransactionPayload,
    RlpBasicTransactionPayload, RlpCreateTransactionPayload,
    RlpBlobTransactionPayload, RlpSetCodeTransactionPayload>>

\* The selectors of the payloads of each RLP type.
Selectors(type) ==
  CASE type = LEGACY -> 1 .. 4
    [] type = ACCESS_LIST -> 5 .. 6
    [] type = FEE_MARKET -> 7 .. 8
    [] type = BLOB -> {9}
    [] type = SET_CODE -> {10}
    [] OTHER -> {}

RlpReplayableBasicAuthorizationPayload == {"magic", "address", "nonce"}
RlpBasicAuthorizationPayload == RlpReplayableBasicAuthorizationPayload \cup {"chain_id"}
RlpSetCodeAuthorizationPayload == <<RlpReplayableBasicAuthorizationPayload, RlpBasicAuthorizationPayload>>

Has(data, field) == field \in DOMAIN data

\* The transaction as the declared classes of its payload read it: the priority
\* fees of every type are BasicFeesPerGas, which knows the regular fee alone.
AsDeclared(tx) ==
  [tx EXCEPT !.data = [f \in DOMAIN tx.data |->
                         IF f = "max_priority_fees_per_gas" THEN [regular |-> tx.data[f].regular]
                                                            ELSE tx.data[f]]]

secp256k1_pack(r, s, y_parity) ==
  [alg |-> SECP256K1_ALGORITHM, r |-> r, s |-> s, y_parity |-> y_parity, extra |-> 0]

\* The assertions of secp256k1_unpack.
CanUnpack(signature) ==
  SignatureLength(signature) = SIZE /\ signature.alg = SECP256K1_ALGORITHM

validate_execution_signature(signature, expected_algorithm) ==
  /\ SignatureLength(signature) > 0
  /\ signature.alg = expected_algorithm
  /\ validate_signature(signature)

ValidateAuthorization(auth) ==
  /\ auth.data["magic"] = SET_CODE_MAGIC
  /\ Has(auth.data, "chain_id") => auth.data["chain_id"] # 0
  /\ validate_execution_signature(auth.signature, SECP256K1_ALGORITHM)

\* Mutant of validate_transaction: authorizations are not looked at.
ValidateOuter(tx) ==
  /\ tx.selector \in Selectors(tx.data["type_"])
  /\ validate_execution_signature(tx.signature, SECP256K1_ALGORITHM)

\* The payload is one of its type, and every signature is valid.
validate_transaction(tx) ==
  /\ tx.selector \in Selectors(tx.data["type_"])
  /\ Has(tx.data, "authorization_list") =>
       \A i \in DOMAIN tx.data["authorization_list"] :
         ValidateAuthorization(tx.data["authorization_list"][i])
  /\ validate_execution_signature(tx.signature, SECP256K1_ALGORITHM)
=============================================================================
