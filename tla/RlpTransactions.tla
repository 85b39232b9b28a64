--------------------------- MODULE RlpTransactions ---------------------------
(***************************************************************************)
(* The RLP transaction types that EIP-6404 converts (assets/rlp_types.py): *)
(* the order in which each lists its fields, and what is hashed to sign    *)
(* and to identify it.  A transaction is a record of its type and fields;  *)
(* an encoding is the list of the field values, a hash keeps its preimage. *)
(***************************************************************************)
EXTENDS AlgorithmRegistry, Sequences

\* to of a transaction that creates a contract
CONSTANT Empty

LEGACY == 0
ACCESS_LIST == 1
FEE_MARKET == 2
BLOB == 3
SET_CODE == 4
SET_CODE_MAGIC == 5

LegacyRlpTransactionPayload == <<"nonce", "gas_price", "gas", "to", "value", "data">>
LegacyRlpTransaction == LegacyRlpTransactionPayload \o <<"v", "r", "s">>

AccessListRlpTransactionPayload ==
  <<"chain_id", "nonce", "gas_price", "gas", "to", "value", "data", "access_list">>
AccessListRlpTransaction == AccessListRlpTransactionPayload \o <<"y_parity", "r", "s">>

FeeMarketRlpTransactionPayload ==
  <<"chain_id", "nonce", "max_priority_fee_per_gas", "max_fee_per_gas", "gas", "to", "value",
    "data", "access_list">>
FeeMarketRlpTransaction == FeeMarketRlpTransactionPayload \o <<"y_parity", "r", "s">>

BlobRlpTransactionPayload ==
  FeeMarketRlpTransactionPayload \o <<"max_fee_per_blob_gas", "blob_versioned_hashes">>
BlobRlpTransaction == BlobRlpTransactionPayload \o <<"y_parity", "r", "s">>

SetCodeRlpTransactionPayload == FeeMarketRlpTransactionPayload \o <<"authorization_list">>
SetCodeRlpTransaction == SetCodeRlpTransactionPayload \o <<"y_parity", "r", "s">>

SetCodeRlpAuthorizationPayload == <<"chain_id", "address", "nonce">>
SetCodeRlpAuthorization == SetCodeRlpAuthorizationPayload \o <<"y_parity", "r", "s">>

RlpClass == [t \in LEGACY .. SET_CODE |->
  CASE t = LEGACY -> LegacyRlpTransaction
    [] t = ACCESS_LIST -> AccessListRlpTransaction
    [] t = FEE_MARKET -> FeeMarketRlpTransaction
    [] t = BLOB -> BlobRlpTransaction
    [] t = SET_CODE -> SetCodeRlpTransaction]

Encode(class, tx) == [i \in DOMAIN class |-> tx[class[i]]]

\* The hash of an encoding behind its type byte; a legacy one has none.
TypedHash(prefix, class, tx) == Keccak(<<prefix, Encode(class, tx)>>)

ChainIdOf(v) == (v - 35) \div 2

\* Mutant of compute_legacy_sig_hash: only 27 is recognised as replayable.
SigHashReplayable27(tx) ==
  IF tx.v # 27
  THEN TypedHash(LEGACY, LegacyRlpTransaction, [tx EXCEPT !.v = ChainIdOf(tx.v), !.r = 0, !.s = 0])
  ELSE TypedHash(LEGACY, LegacyRlpTransactionPayload, tx)

\* EIP-155 signs the chain ID in place of v; a replayable one signs neither.
compute_legacy_sig_hash(tx) ==
  IF tx.v \notin {27, 28}
  THEN TypedHash(LEGACY, LegacyRlpTransaction, [tx EXCEPT !.v = ChainIdOf(tx.v), !.r = 0, !.s = 0])
  ELSE TypedHash(LEGACY, LegacyRlpTransactionPayload, tx)

compute_access_list_sig_hash(tx) == TypedHash(ACCESS_LIST, AccessListRlpTransactionPayload, tx)
compute_fee_market_sig_hash(tx) == TypedHash(FEE_MARKET, FeeMarketRlpTransactionPayload, tx)
compute_blob_sig_hash(tx) == TypedHash(BLOB, BlobRlpTransactionPayload, tx)
compute_set_code_sig_hash(tx) == TypedHash(SET_CODE, SetCodeRlpTransactionPayload, tx)
compute_set_code_auth_hash(auth) == TypedHash(SET_CODE_MAGIC, SetCodeRlpAuthorizationPayload, auth)

SigHash(tx) ==
  CASE tx.type = LEGACY -> compute_legacy_sig_hash(tx)
    [] tx.type = ACCESS_LIST -> compute_access_list_sig_hash(tx)
    [] tx.type = FEE_MARKET -> compute_fee_market_sig_hash(tx)
    [] tx.type = BLOB -> compute_blob_sig_hash(tx)
    [] tx.type = SET_CODE -> compute_set_code_sig_hash(tx)

TxHash(tx) == TypedHash(tx.type, RlpClass[tx.type], tx)
=============================================================================
