------------------------ MODULE TransactionConversion ------------------------
(***************************************************************************)
(* Conversion of RLP transactions to SSZ (EIP-6404 assets/convert.py) and  *)
(* recovery of the RLP transaction and its hashes from the SSZ one         *)
(* (assets/tx_hashes.py).                                                  *)
(***************************************************************************)
EXTENDS SszTransactions

CONSTANTS U8, U64, U256    \* 2^8, 2^64, 2^256 in the code

ASSUME RangeAssumption == U8 \in Nat /\ U64 \in Nat /\ U256 \in Nat

Fits(r, s, y_parity) == r < U256 /\ s < U256 /\ y_parity < U8

\* Mutant of upgrade_authorization: chain 0 is kept as a chain.
UpgradeAuthorizationPlain(auth) ==
  [selector |-> 2,
   data |-> [magic |-> SET_CODE_MAGIC, chain_id |-> auth.chain_id,
             address |-> auth.address, nonce |-> auth.nonce],
   signature |-> secp256k1_pack(auth.r, auth.s, auth.y_parity)]

\* Chain 0 stands for every chain: such an authorization is replayable.
upgrade_authorization(auth) ==
  LET selector == IF auth.chain_id # 0 THEN 2 ELSE 1
      field(f) == IF f = "magic" THEN SET_CODE_MAGIC ELSE auth[f]
  IN [selector |-> selector,
      data |-> [f \in RlpSetCodeAuthorizationPayload[selector] |-> field(f)],
      signature |-> secp256k1_pack(auth.r, auth.s, auth.y_parity)]

\* Which payload a transaction becomes: one without to creates a contract,
\* only a legacy one with v 27 or 28 is replayable.
SelectorFor(tx) ==
  LET create == tx.to = Empty
  IN CASE tx.type = SET_CODE -> 10
       [] tx.type = BLOB -> 9
       [] tx.type = FEE_MARKET -> IF create THEN 8 ELSE 7
       [] tx.type = ACCESS_LIST -> IF create THEN 6 ELSE 5
       [] tx.type = LEGACY /\ tx.v \notin {27, 28} -> IF create THEN 4 ELSE 3
       [] tx.type = LEGACY /\ tx.v \in {27, 28} -> IF create THEN 2 ELSE 1

ChainId(tx) == IF tx.type = LEGACY THEN ChainIdOf(tx.v) ELSE tx.chain_id

YParity(tx) == IF tx.type = LEGACY THEN (IF tx.v % 2 = 0 THEN 1 ELSE 0) ELSE tx.y_parity

MaxFees(tx) ==
  CASE tx.type \in {LEGACY, ACCESS_LIST} -> [regular |-> tx.gas_price]
    [] tx.type \in {FEE_MARKET, SET_CODE} -> [regular |-> tx.max_fee_per_gas]
    [] tx.type = BLOB -> [regular |-> tx.max_fee_per_gas, blob |-> tx.max_fee_per_blob_gas]

\* That of a blob transaction is built with both fees, though its payload declares
\* the class with the regular fee alone.
MaxPriorityFees(tx) ==
  IF tx.type = BLOB THEN [regular |-> tx.max_priority_fee_per_gas, blob |-> 0]
                    ELSE [regular |-> tx.max_priority_fee_per_gas]

UpgradeField(tx, f) ==
  CASE f = "type_" -> tx.type
    [] f = "chain_id" -> ChainId(tx)
    [] f = "max_fees_per_gas" -> MaxFees(tx)
    [] f = "max_priority_fees_per_gas" -> MaxPriorityFees(tx)
    [] f = "input_" -> tx.data
    [] f = "authorization_list" ->
         [i \in DOMAIN tx.authorization_list |-> upgrade_authorization(tx.authorization_list[i])]
    [] OTHER -> tx[f]

Upgrade(tx) ==
  LET selector == SelectorFor(tx)
  IN [selector |-> selector,
      data |-> [f \in TransactionPayload[selector] |-> UpgradeField(tx, f)],
      signature |-> secp256k1_pack(tx.r, tx.s, YParity(tx))]

\* Each value must fit its SSZ type, or its constructor raises; only the
\* types that can create a contract decode an empty to.
FeeFields == {"gas_price", "max_fee_per_gas", "max_priority_fee_per_gas", "max_fee_per_blob_gas"}
CanUpgrade(tx) ==
  /\ tx.type \in {BLOB, SET_CODE} => tx.to # Empty
  /\ tx.nonce < U64 /\ tx.gas < U64 /\ tx.value < U256
  /\ \A f \in FeeFields \cap DOMAIN tx : tx[f] < U256
  /\ "chain_id" \in TransactionPayload[SelectorFor(tx)] => ChainId(tx) \in 0 .. U256 - 1
  /\ Fits(tx.r, tx.s, YParity(tx))
  /\ tx.type = SET_CODE =>
       \A i \in DOMAIN tx.authorization_list :
         LET auth == tx.authorization_list[i]
         IN auth.nonce < U64 /\ auth.chain_id < U256 /\ Fits(auth.r, auth.s, auth.y_parity)

-----------------------------------------------------------------------------
recover_set_code_rlp_authorization(auth) ==
  [chain_id |-> IF Has(auth.data, "chain_id") THEN auth.data["chain_id"] ELSE 0,
   address |-> auth.data["address"], nonce |-> auth.data["nonce"],
   y_parity |-> auth.signature.y_parity, r |-> auth.signature.r, s |-> auth.signature.s]

\* Mutant of RecoverV: the parity of an EIP-155 signature is lost.
RecoverVEven(tx) ==
  IF Has(tx.data, "chain_id") THEN 35 + 2 * tx.data["chain_id"] ELSE tx.signature.y_parity + 27

RecoverV(tx) ==
  IF Has(tx.data, "chain_id") THEN tx.signature.y_parity + 35 + 2 * tx.data["chain_id"]
                              ELSE tx.signature.y_parity + 27

\* The RLP type whose recovery a payload goes to, by its class.
TypeFor(tx) == CHOOSE t \in LEGACY .. SET_CODE : tx.selector \in Selectors(t)

RecoverField(tx, f) ==
  CASE f \in {"gas_price", "max_fee_per_gas"} -> tx.data["max_fees_per_gas"].regular
    [] f = "max_fee_per_blob_gas" -> tx.data["max_fees_per_gas"].blob
    [] f = "max_priority_fee_per_gas" -> tx.data["max_priority_fees_per_gas"].regular
    [] f = "to" -> IF Has(tx.data, "to") THEN tx.data["to"] ELSE Empty
    [] f = "data" -> tx.data["input_"]
    [] f = "v" -> RecoverV(tx)
    [] f \in {"r", "s", "y_parity"} -> tx.signature[f]
    [] f = "type" -> TypeFor(tx)
    [] f = "authorization_list" ->
         [i \in DOMAIN tx.data[f] |-> recover_set_code_rlp_authorization(tx.data[f][i])]
    [] OTHER -> tx.data[f]

FieldsOf(type) == {"type"} \cup {RlpClass[type][i] : i \in DOMAIN RlpClass[type]}

Recover(tx) == [f \in FieldsOf(TypeFor(tx)) |-> RecoverField(tx, f)]

\* v is computed in 256 bits, and the signatures are unpacked.
CanRecover(tx) ==
  /\ CanUnpack(tx.signature)
  /\ TypeFor(tx) = LEGACY => RecoverV(tx) < U256
  /\ Has(tx.data, "authorization_list") =>
       \A i \in DOMAIN tx.data["authorization_list"] :
         CanUnpack(tx.data["authorization_list"][i].signature)

compute_sig_hash(tx) == SigHash(Recover(tx))
compute_tx_hash(tx) == TxHash(Recover(tx))
compute_auth_hash(auth) == compute_set_code_auth_hash(recover_set_code_rlp_authorization(auth))
=============================================================================
