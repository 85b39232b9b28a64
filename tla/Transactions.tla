---------------------------- MODULE Transactions ----------------------------
(***************************************************************************)
(* A node that takes transactions in both formats, through the functions   *)
(* of EIP-6404: an RLP transaction is upgraded to SSZ or refused, an SSZ   *)
(* one is taken from the wire as it comes, either is then validated.  The  *)
(* hashes by which it is known stay those of its RLP form.                 *)
(***************************************************************************)
EXTENDS TransactionConversion

CONSTANTS Legacy, Typed,    \* RLP transactions that may arrive: v of a legacy one is free
          Wire              \* SSZ transactions that may arrive

\* What decoding yields: the fields of the type, numbers that are natural.
Fields(x, names) == x = [f \in names |-> x[f]]

List(l) == l = [i \in DOMAIN l |-> l[i]]

RlpNumbers == FeeFields \cup {"chain_id", "nonce", "gas", "value", "v", "y_parity", "r", "s"}

RlpDecoded(t) ==
  /\ Fields(t, FieldsOf(t.type))
  /\ \A f \in RlpNumbers \cap FieldsOf(t.type) : t[f] \in Nat
  /\ t.type = SET_CODE =>
       /\ List(t.authorization_list)
       /\ \A i \in DOMAIN t.authorization_list :
            LET auth == t.authorization_list[i]
            IN /\ Fields(auth, {"chain_id", "address", "nonce", "y_parity", "r", "s"})
               /\ \A f \in {"chain_id", "nonce", "y_parity", "r", "s"} : auth[f] \in Nat

SszSignature(g) ==
  /\ Fields(g, {"alg", "r", "s", "y_parity", "extra"})
  /\ g.r \in 0 .. U256 - 1 /\ g.s \in 0 .. U256 - 1 /\ g.y_parity \in 0 .. U8 - 1
  /\ g.extra \in Int

\* An SSZ number fits its type; an authorization is of one of two classes.
SszData(data) ==
  /\ \A f \in {"nonce", "gas"} \cap DOMAIN data : data[f] \in 0 .. U64 - 1
  /\ \A f \in {"value", "chain_id"} \cap DOMAIN data : data[f] \in 0 .. U256 - 1

SszFees(fees, names) ==
  Fields(fees, names) /\ \A f \in names : fees[f] \in 0 .. U256 - 1

SszAuthorization(auth) ==
  /\ Fields(auth, {"selector", "data", "signature"})
  /\ auth.selector \in 1 .. 2
  /\ Fields(auth.data, RlpSetCodeAuthorizationPayload[auth.selector])
  /\ SszData(auth.data) /\ SszSignature(auth.signature)

SszDecoded(t) ==
  /\ Fields(t, {"selector", "data", "signature"})
  /\ t.selector \in 1 .. 10
  /\ Fields(t.data, TransactionPayload[t.selector])
  /\ SszData(t.data) /\ SszSignature(t.signature)
  /\ SszFees(t.data["max_fees_per_gas"],
             IF t.selector = 9 THEN {"regular", "blob"} ELSE {"regular"})
  /\ Has(t.data, "max_priority_fees_per_gas") =>
       SszFees(t.data["max_priority_fees_per_gas"], {"regular"})
  /\ Has(t.data, "to") => t.data["to"] # Empty
  /\ Has(t.data, "authorization_list") =>
       /\ List(t.data["authorization_list"])
       /\ \A i \in DOMAIN t.data["authorization_list"] :
            SszAuthorization(t.data["authorization_list"][i])

ASSUME TransactionAssumption ==
  /\ \A t \in Legacy : t.type = LEGACY /\ RlpDecoded(t)
  /\ \A t \in Typed : t.type \in ACCESS_LIST .. SET_CODE /\ RlpDecoded(t)
  /\ \A t \in Wire : SszDecoded(t)

VARIABLES phase, origin, tx
vars == <<phase, origin, tx>>

None == [selector |-> 0]
RlpTransactionsIn == Legacy \cup Typed
Upgradeable == {t \in RlpTransactionsIn : CanUpgrade(t)}

Init == phase = "idle" /\ origin = None /\ tx = None

ReceiveRlp ==
  /\ phase = "idle"
  /\ phase' = "rlp" /\ origin' \in RlpTransactionsIn
  /\ UNCHANGED tx

upgrade_rlp_transaction_to_ssz ==
  /\ phase = "rlp"
  /\ IF CanUpgrade(origin) THEN phase' = "ssz" /\ tx' = Upgrade(origin)
                           ELSE phase' = "refused" /\ UNCHANGED tx
  /\ UNCHANGED origin

ReceiveSsz ==
  /\ phase = "idle"
  /\ phase' = "ssz" /\ tx' \in Wire
  /\ UNCHANGED origin

Validate ==
  /\ phase = "ssz"
  /\ phase' = IF validate_transaction(tx) THEN "valid" ELSE "invalid"
  /\ UNCHANGED <<origin, tx>>

Done ==
  /\ phase \in {"refused", "valid", "invalid"}
  /\ phase' = "idle" /\ origin' = None /\ tx' = None

Next ==
  \/ ReceiveRlp \/ ReceiveSsz
  \/ upgrade_rlp_transaction_to_ssz \/ Validate \/ Done

Spec == Init /\ [][Next]_vars

-----------------------------------------------------------------------------
Upgraded == tx # None /\ origin # None

\* Nothing of an RLP transaction is lost by the upgrade: it is recovered field
\* by field, and so are its hashes and those of its authorizations.
Recovered ==
  /\ Recover(tx) = origin
  /\ compute_sig_hash(tx) = SigHash(origin)
  /\ compute_tx_hash(tx) = TxHash(origin)
  /\ origin.type = SET_CODE =>
       \A i \in DOMAIN origin.authorization_list :
         compute_auth_hash(tx.data["authorization_list"][i])
           = compute_set_code_auth_hash(origin.authorization_list[i])

\* The upgrade is lossless wherever the code can recover at all.
Lossless == Upgraded /\ CanRecover(tx) => Recovered

\* An RLP signature the network accepts: scalars in range, s in the lower half.
Canonically(sig) ==
  /\ 0 < sig.r /\ sig.r < SECP256K1N
  /\ 0 < sig.s /\ 2 * sig.s <= SECP256K1N

\* Validation decides an upgraded transaction by its RLP signatures alone: the
\* upgrade builds no payload that validation refuses, and repairs none.
UpgradedIsDecidedBySignatures ==
  Upgraded /\ phase \in {"valid", "invalid"} =>
    (phase = "valid"
       <=> /\ Canonically(origin)
           /\ origin.type = LEGACY \/ origin.y_parity \in {0, 1}
           /\ origin.type = SET_CODE =>
                \A i \in DOMAIN origin.authorization_list :
                  /\ Canonically(origin.authorization_list[i])
                  /\ origin.authorization_list[i].y_parity \in {0, 1})

\* An accepted SSZ transaction is the only SSZ form of its RLP transaction: the
\* tx_hash computed for it tells it from every other accepted one.  The upgrade
\* builds this form, that of a blob transaction as its payload declares it.
OneSszForm ==
  phase = "valid" /\ CanRecover(tx) =>
    LET form == Upgrade(Recover(tx))
    IN /\ CanUpgrade(Recover(tx))
       /\ AsDeclared(form) = AsDeclared(tx)
       /\ tx.selector \notin Selectors(BLOB) => form = tx

\* What is signed is exactly the payload: two transactions of a type have the
\* same signing hash when their SSZ payloads are the same, whatever their v,
\* and never when the payloads, or the chains, differ.
SigHashIsOfPayload ==
  phase = "ssz" /\ Upgraded /\ CanRecover(tx) =>
    \A other \in Upgradeable :
      other.type = origin.type =>
        (compute_sig_hash(tx) = SigHash(other) <=> Upgrade(other).data = tx.data)

-----------------------------------------------------------------------------
(* What the functions are for and the code does otherwise. *)

\* The upgrade is lossless, and every upgraded transaction can be recovered.
ConversionLossless == Upgraded => CanRecover(tx) /\ Recovered

\* The upgrade builds what the payload declares: of a blob transaction it does not.
UpgradedAsDeclared == Upgraded => AsDeclared(tx) = tx

\* An accepted transaction has its hashes: the size of its signatures is the
\* one that unpacking asserts.
AcceptedIsIdentified == phase = "valid" => CanRecover(tx)
=============================================================================
