------------------------- MODULE SignaturesProofs -------------------------
(***************************************************************************)
(* Theorems about the conversion of transactions, for any transactions that  *)
(* decode, any widths of numbers and any order of the group, and about the   *)
(* precompile that recovers signers, for every input.                        *)
(***************************************************************************)
EXTENDS Transactions, Sigrecover, SequenceTheorems, TLAPS

-----------------------------------------------------------------------------
(* The fields of the RLP types. *)

\* The names that a class lists.
Named(class) == {class[i] : i \in DOMAIN class}

\* A class that continues another one has the names of both.
LEMMA NamedConcat ==
    ASSUME NEW S, NEW p \in Seq(S), NEW q \in Seq(S)
    PROVE  Named(p \o q) = Named(p) \cup Named(q)
<1>1. Len(p \o q) = Len(p) + Len(q) /\ p \o q \in Seq(S)
  BY ConcatProperties
<1>2. /\ DOMAIN (p \o q) = 1 .. (Len(p) + Len(q))
      /\ DOMAIN p = 1 .. Len(p) /\ DOMAIN q = 1 .. Len(q)
      /\ Len(p) \in Nat /\ Len(q) \in Nat
  BY <1>1
<1>3. \A i \in 1 .. Len(p) + Len(q) : (p \o q)[i] = IF i <= Len(p) THEN p[i] ELSE q[i - Len(p)]
  BY ConcatProperties
<1>4. ASSUME NEW j \in DOMAIN q
      PROVE  Len(p) + j \in DOMAIN (p \o q) /\ (p \o q)[Len(p) + j] = q[j]
  BY <1>2, <1>3
<1>5. Named(q) \subseteq Named(p \o q)
  BY <1>4 DEF Named
<1>6. Named(p) \subseteq Named(p \o q)
  BY <1>2, <1>3 DEF Named
<1>7. Named(p \o q) \subseteq Named(p) \cup Named(q)
  BY <1>2, <1>3 DEF Named
<1>8. QED BY <1>5, <1>6, <1>7

\* Two records have the same encoding when they agree on the names of the class.
LEMMA EncodeTells ==
    ASSUME NEW class, NEW x, NEW y
    PROVE  Encode(class, x) = Encode(class, y) <=> \A f \in Named(class) : x[f] = y[f]
<1>1. ASSUME Encode(class, x) = Encode(class, y), NEW f \in Named(class) PROVE x[f] = y[f]
  <2>1. PICK i \in DOMAIN class : f = class[i]
    BY DEF Named
  <2>2. Encode(class, x)[i] = x[f] /\ Encode(class, y)[i] = y[f]
    BY <2>1 DEF Encode
  <2>3. QED BY <1>1, <2>2
<1>2. ASSUME \A f \in Named(class) : x[f] = y[f] PROVE Encode(class, x) = Encode(class, y)
  <2>1. \A i \in DOMAIN class : class[i] \in Named(class)
    BY DEF Named
  <2>2. \A i \in DOMAIN class : x[class[i]] = y[class[i]]
    BY <1>2, <2>1
  <2>3. QED BY <2>2 DEF Encode
<1>3. QED BY <1>1, <1>2

LegacyNames == {"nonce", "gas_price", "gas", "to", "value", "data"}
AccessListNames == LegacyNames \cup {"chain_id", "access_list"}
FeeMarketNames ==
  {"chain_id", "nonce", "max_priority_fee_per_gas", "max_fee_per_gas", "gas", "to", "value",
   "data", "access_list"}
BlobNames == FeeMarketNames \cup {"max_fee_per_blob_gas", "blob_versioned_hashes"}
SetCodeNames == FeeMarketNames \cup {"authorization_list"}

\* Every name a class may list.
Names == LegacyNames \cup AccessListNames \cup BlobNames \cup SetCodeNames
           \cup {"v", "y_parity", "r", "s"}

\* The payloads are sequences of names.
LEMMA PayloadsAreSequences ==
    /\ LegacyRlpTransactionPayload \in Seq(Names)
    /\ AccessListRlpTransactionPayload \in Seq(Names)
    /\ FeeMarketRlpTransactionPayload \in Seq(Names)
    /\ BlobRlpTransactionPayload \in Seq(Names)
    /\ SetCodeRlpTransactionPayload \in Seq(Names)
<1>1. LegacyRlpTransactionPayload \in Seq(Names)
  BY DEF LegacyRlpTransactionPayload, Names, LegacyNames
<1>2. AccessListRlpTransactionPayload \in Seq(Names)
  BY DEF AccessListRlpTransactionPayload, Names, AccessListNames, LegacyNames
<1>3. FeeMarketRlpTransactionPayload \in Seq(Names)
  BY DEF FeeMarketRlpTransactionPayload, Names, BlobNames, FeeMarketNames
<1>4. <<"max_fee_per_blob_gas", "blob_versioned_hashes">> \in Seq(Names)
      /\ <<"authorization_list">> \in Seq(Names)
  BY DEF Names, BlobNames, SetCodeNames
<1>5. BlobRlpTransactionPayload \in Seq(Names)
  BY <1>3, <1>4, ConcatProperties DEF BlobRlpTransactionPayload
<1>6. SetCodeRlpTransactionPayload \in Seq(Names)
  BY <1>3, <1>4, ConcatProperties DEF SetCodeRlpTransactionPayload
<1>7. QED BY <1>1, <1>2, <1>3, <1>5, <1>6

\* What is signed of each type.
LEMMA SignedNames ==
    /\ Named(LegacyRlpTransactionPayload) = LegacyNames
    /\ Named(AccessListRlpTransactionPayload) = AccessListNames
    /\ Named(FeeMarketRlpTransactionPayload) = FeeMarketNames
    /\ Named(BlobRlpTransactionPayload) = BlobNames
    /\ Named(SetCodeRlpTransactionPayload) = SetCodeNames
<1>1. Named(LegacyRlpTransactionPayload) = LegacyNames
  BY DEF Named, LegacyRlpTransactionPayload, LegacyNames
<1>2. Named(AccessListRlpTransactionPayload) = AccessListNames
  BY DEF Named, AccessListRlpTransactionPayload, AccessListNames, LegacyNames
<1>3. Named(FeeMarketRlpTransactionPayload) = FeeMarketNames
  BY DEF Named, FeeMarketRlpTransactionPayload, FeeMarketNames
<1>4. FeeMarketRlpTransactionPayload \in Seq(Names)
  BY PayloadsAreSequences
<1>5. Named(BlobRlpTransactionPayload) = BlobNames
  <2> DEFINE q == <<"max_fee_per_blob_gas", "blob_versioned_hashes">>
  <2>1. q \in Seq(Names) /\ Named(q) = {"max_fee_per_blob_gas", "blob_versioned_hashes"}
    BY DEF Named, Names, BlobNames
  <2> HIDE DEF q
  <2>2. Named(FeeMarketRlpTransactionPayload \o q) = FeeMarketNames \cup Named(q)
    BY <1>3, <1>4, <2>1, NamedConcat
  <2>3. QED BY <2>1, <2>2 DEF BlobRlpTransactionPayload, BlobNames, q
<1>6. Named(SetCodeRlpTransactionPayload) = SetCodeNames
  <2> DEFINE q == <<"authorization_list">>
  <2>1. q \in Seq(Names) /\ Named(q) = {"authorization_list"}
    BY DEF Named, Names, SetCodeNames
  <2> HIDE DEF q
  <2>2. Named(FeeMarketRlpTransactionPayload \o q) = FeeMarketNames \cup Named(q)
    BY <1>3, <1>4, <2>1, NamedConcat
  <2>3. QED BY <2>1, <2>2 DEF SetCodeRlpTransactionPayload, SetCodeNames, q
<1>7. QED BY <1>1, <1>2, <1>3, <1>5, <1>6

\* The fields of a transaction of each type.
LEMMA FieldNames ==
    /\ FieldsOf(LEGACY) = {"type", "v", "r", "s"} \cup LegacyNames
    /\ FieldsOf(ACCESS_LIST) = {"type", "y_parity", "r", "s"} \cup AccessListNames
    /\ FieldsOf(FEE_MARKET) = {"type", "y_parity", "r", "s"} \cup FeeMarketNames
    /\ FieldsOf(BLOB) = {"type", "y_parity", "r", "s"} \cup BlobNames
    /\ FieldsOf(SET_CODE) = {"type", "y_parity", "r", "s"} \cup SetCodeNames
<1> DEFINE vrs == <<"v", "r", "s">>
           yrs == <<"y_parity", "r", "s">>
<1>1. /\ vrs \in Seq(Names) /\ Named(vrs) = {"v", "r", "s"}
      /\ yrs \in Seq(Names) /\ Named(yrs) = {"y_parity", "r", "s"}
  BY DEF Named, Names
<1>2. /\ RlpClass[LEGACY] = LegacyRlpTransactionPayload \o vrs
      /\ RlpClass[ACCESS_LIST] = AccessListRlpTransactionPayload \o yrs
      /\ RlpClass[FEE_MARKET] = FeeMarketRlpTransactionPayload \o yrs
      /\ RlpClass[BLOB] = BlobRlpTransactionPayload \o yrs
      /\ RlpClass[SET_CODE] = SetCodeRlpTransactionPayload \o yrs
  <2>1. /\ RlpClass[LEGACY] = LegacyRlpTransaction
        /\ RlpClass[ACCESS_LIST] = AccessListRlpTransaction
        /\ RlpClass[FEE_MARKET] = FeeMarketRlpTransaction
        /\ RlpClass[BLOB] = BlobRlpTransaction
        /\ RlpClass[SET_CODE] = SetCodeRlpTransaction
    BY DEF RlpClass, LEGACY, ACCESS_LIST, FEE_MARKET, BLOB, SET_CODE
  <2>2. QED BY <2>1
        DEF LegacyRlpTransaction, AccessListRlpTransaction, FeeMarketRlpTransaction,
            BlobRlpTransaction, SetCodeRlpTransaction
<1>3. \A t : FieldsOf(t) = {"type"} \cup Named(RlpClass[t])
  BY DEF FieldsOf, Named
<1> HIDE DEF vrs, yrs
<1>4. /\ Named(LegacyRlpTransactionPayload \o vrs) = LegacyNames \cup Named(vrs)
      /\ Named(AccessListRlpTransactionPayload \o yrs) = AccessListNames \cup Named(yrs)
      /\ Named(FeeMarketRlpTransactionPayload \o yrs) = FeeMarketNames \cup Named(yrs)
      /\ Named(BlobRlpTransactionPayload \o yrs) = BlobNames \cup Named(yrs)
      /\ Named(SetCodeRlpTransactionPayload \o yrs) = SetCodeNames \cup Named(yrs)
  BY <1>1, SignedNames, PayloadsAreSequences, NamedConcat
<1>5. QED BY <1>1, <1>2, <1>3, <1>4

-----------------------------------------------------------------------------
(* The payload classes. *)

\* The fields of each payload.
LEMMA PayloadFields ==
    /\ TransactionPayload[1] = RlpLegacyReplayableBasicTransactionPayload
    /\ TransactionPayload[2] = RlpLegacyReplayableCreateTransactionPayload
    /\ TransactionPayload[3] = RlpLegacyBasicTransactionPayload
    /\ TransactionPayload[4] = RlpLegacyCreateTransactionPayload
    /\ TransactionPayload[5] = RlpAccessListBasicTransactionPayload
    /\ TransactionPayload[6] = RlpAccessListCreateTransactionPayload
    /\ TransactionPayload[7] = RlpBasicTransactionPayload
    /\ TransactionPayload[8] = RlpCreateTransactionPayload
    /\ TransactionPayload[9] = RlpBlobTransactionPayload
    /\ TransactionPayload[10] = RlpSetCodeTransactionPayload
BY DEF TransactionPayload

\* Which payloads have which fields.
LEMMA PayloadTable ==
    ASSUME NEW k \in 1 .. 10
    PROVE  /\ {"type_", "nonce", "max_fees_per_gas", "gas", "value", "input_"}
                 \subseteq TransactionPayload[k]
           /\ TransactionPayload[k] \subseteq
                {"type_", "chain_id", "max_fees_per_gas", "input_", "nonce", "gas", "to", "value",
                 "access_list", "max_priority_fees_per_gas", "blob_versioned_hashes",
                 "authorization_list"}
           /\ "to" \in TransactionPayload[k] <=> k \in {1, 3, 5, 7, 9, 10}
           /\ "chain_id" \in TransactionPayload[k] <=> k \notin {1, 2}
           /\ "access_list" \in TransactionPayload[k] <=> k \in 5 .. 10
           /\ "max_priority_fees_per_gas" \in TransactionPayload[k] <=> k \in 7 .. 10
           /\ "blob_versioned_hashes" \in TransactionPayload[k] <=> k = 9
           /\ "authorization_list" \in TransactionPayload[k] <=> k = 10
BY PayloadFields
DEF RlpLegacyReplayableBasicTransactionPayload, RlpLegacyReplayableCreateTransactionPayload,
    RlpLegacyBasicTransactionPayload, RlpLegacyCreateTransactionPayload,
    RlpAccessListBasicTransactionPayload, RlpAccessListCreateTransactionPayload,
    RlpBasicTransactionPayload, RlpCreateTransactionPayload,
    RlpBlobTransactionPayload, RlpSetCodeTransactionPayload

Kinds == LEGACY .. SET_CODE

\* A payload class belongs to one type.
LEMMA TypeOfSelector ==
    ASSUME NEW t, NEW type \in Kinds, t.selector \in Selectors(type)
    PROVE  TypeFor(t) = type
<1>1. \A k, l \in Kinds : t.selector \in Selectors(k) /\ t.selector \in Selectors(l) => k = l
  BY DEF Kinds, Selectors, LEGACY, ACCESS_LIST, FEE_MARKET, BLOB, SET_CODE
<1>2. TypeFor(t) = CHOOSE k \in Kinds : t.selector \in Selectors(k)
  BY DEF TypeFor, Kinds
<1>3. QED BY <1>1, <1>2

\* The class a transaction is upgraded to belongs to its type.
LEMMA SelectorOfType ==
    ASSUME NEW t, t.type \in Kinds
    PROVE  SelectorFor(t) \in Selectors(t.type) /\ SelectorFor(t) \in 1 .. 10
BY DEF Kinds, SelectorFor, Selectors, LEGACY, ACCESS_LIST, FEE_MARKET, BLOB, SET_CODE

\* The parts of an upgraded transaction.
LEMMA UpgradeParts ==
    ASSUME NEW t, t.type \in Kinds
    PROVE  /\ Upgrade(t).selector = SelectorFor(t)
           /\ Upgrade(t).signature = secp256k1_pack(t.r, t.s, YParity(t))
           /\ DOMAIN Upgrade(t).data = TransactionPayload[SelectorFor(t)]
           /\ \A f \in TransactionPayload[SelectorFor(t)] : Upgrade(t).data[f] = UpgradeField(t, f)
           /\ TypeFor(Upgrade(t)) = t.type
<1>1. /\ Upgrade(t).selector = SelectorFor(t)
      /\ Upgrade(t).signature = secp256k1_pack(t.r, t.s, YParity(t))
      /\ DOMAIN Upgrade(t).data = TransactionPayload[SelectorFor(t)]
      /\ \A f \in TransactionPayload[SelectorFor(t)] : Upgrade(t).data[f] = UpgradeField(t, f)
  BY DEF Upgrade
<1>2. Upgrade(t).selector \in Selectors(t.type)
  BY <1>1, SelectorOfType
<1>3. TypeFor(Upgrade(t)) = t.type
  BY <1>2, TypeOfSelector
<1>4. QED BY <1>1, <1>3

-----------------------------------------------------------------------------
(* There and back: what is recovered from an upgraded transaction. *)

Copied == {"nonce", "gas", "to", "value", "access_list", "blob_versioned_hashes"}

\* The fields of an SSZ payload, by name.
LEMMA UpgradeFields ==
    ASSUME NEW t
    PROVE  /\ UpgradeField(t, "type_") = t.type
           /\ UpgradeField(t, "chain_id") = ChainId(t)
           /\ UpgradeField(t, "max_fees_per_gas") = MaxFees(t)
           /\ UpgradeField(t, "max_priority_fees_per_gas") = MaxPriorityFees(t)
           /\ MaxPriorityFees(t).regular = t.max_priority_fee_per_gas
           /\ UpgradeField(t, "input_") = t.data
           /\ UpgradeField(t, "authorization_list")
                = [i \in DOMAIN t.authorization_list |->
                     upgrade_authorization(t.authorization_list[i])]
           /\ \A f \in Copied : UpgradeField(t, f) = t[f]
BY DEF UpgradeField, MaxPriorityFees, Copied

\* The fields of the recovered transaction, by name.
LEMMA RecoverFields ==
    ASSUME NEW u
    PROVE  /\ RecoverField(u, "gas_price") = u.data["max_fees_per_gas"].regular
           /\ RecoverField(u, "max_fee_per_gas") = u.data["max_fees_per_gas"].regular
           /\ RecoverField(u, "max_fee_per_blob_gas") = u.data["max_fees_per_gas"].blob
           /\ RecoverField(u, "max_priority_fee_per_gas")
                = u.data["max_priority_fees_per_gas"].regular
           /\ RecoverField(u, "to") = IF Has(u.data, "to") THEN u.data["to"] ELSE Empty
           /\ RecoverField(u, "data") = u.data["input_"]
           /\ RecoverField(u, "v") = RecoverV(u)
           /\ \A f \in {"r", "s", "y_parity"} : RecoverField(u, f) = u.signature[f]
           /\ RecoverField(u, "type") = TypeFor(u)
           /\ RecoverField(u, "authorization_list")
                = [i \in DOMAIN u.data["authorization_list"] |->
                     recover_set_code_rlp_authorization(u.data["authorization_list"][i])]
           /\ \A f \in {"chain_id", "nonce", "gas", "value", "access_list", "blob_versioned_hashes"} :
                 RecoverField(u, f) = u.data[f]
BY DEF RecoverField

\* v of a legacy transaction says three things, and they say v.
LEMMA LegacyV ==
    ASSUME NEW v \in Nat
    PROVE  /\ v \in {27, 28} => (IF v % 2 = 0 THEN 1 ELSE 0) + 27 = v
           /\ ChainIdOf(v) >= 0 => (IF v % 2 = 0 THEN 1 ELSE 0) + 35 + 2 * ChainIdOf(v) = v
           /\ ChainIdOf(v) \in Int
BY DEF ChainIdOf

\* A field that a payload has is that of the transaction.
LEMMA RecoveredAsUpgraded ==
    ASSUME NEW t, t.type \in Kinds, RlpDecoded(t),
           \A f \in FieldsOf(t.type) \ {"type"} : RecoverField(Upgrade(t), f) = t[f]
    PROVE  Recover(Upgrade(t)) = t
<1>1. TypeFor(Upgrade(t)) = t.type
  BY UpgradeParts
<1>2. RecoverField(Upgrade(t), "type") = t.type
  BY <1>1, RecoverFields
<1>3. \A f \in FieldsOf(t.type) : RecoverField(Upgrade(t), f) = t[f]
  <2>1. t["type"] = t.type
    OBVIOUS
  <2>2. QED BY <1>2, <2>1
<1>4. t = [f \in FieldsOf(t.type) |-> t[f]]
  BY DEF RlpDecoded, Fields
<1>5. Recover(Upgrade(t)) = [f \in FieldsOf(t.type) |-> RecoverField(Upgrade(t), f)]
  BY <1>1 DEF Recover
<1>6. QED BY <1>3, <1>4, <1>5

\* A legacy transaction.
LEMMA LegacyRecovered ==
    ASSUME NEW t, t.type = LEGACY, RlpDecoded(t), CanUpgrade(t)
    PROVE  Recover(Upgrade(t)) = t
<1> DEFINE u == Upgrade(t)
           payload == TransactionPayload[SelectorFor(t)]
<1>1. t.type \in Kinds
  BY DEF Kinds, LEGACY, SET_CODE
<1>2. /\ DOMAIN u.data = payload
      /\ \A f \in payload : u.data[f] = UpgradeField(t, f)
      /\ u.signature = secp256k1_pack(t.r, t.s, YParity(t))
  BY <1>1, UpgradeParts
<1>3. SelectorFor(t) = IF t.v \in {27, 28} THEN (IF t.to = Empty THEN 2 ELSE 1)
                                           ELSE (IF t.to = Empty THEN 4 ELSE 3)
  BY DEF SelectorFor, LEGACY, ACCESS_LIST, FEE_MARKET, BLOB, SET_CODE
<1>4. /\ {"type_", "nonce", "max_fees_per_gas", "gas", "value", "input_"} \subseteq payload
      /\ "to" \in payload <=> t.to # Empty
      /\ "chain_id" \in payload <=> t.v \notin {27, 28}
  BY <1>3, PayloadTable
<1>5. t.v \in Nat
  <2>1. "v" \in RlpNumbers \cap FieldsOf(t.type)
    BY FieldNames DEF RlpNumbers
  <2>2. QED BY <2>1 DEF RlpDecoded
<1>6. MaxFees(t) = [regular |-> t.gas_price]
  BY DEF MaxFees, LEGACY, ACCESS_LIST, FEE_MARKET, BLOB, SET_CODE
<1>7. /\ u.signature.r = t.r /\ u.signature.s = t.s
      /\ u.signature.y_parity = (IF t.v % 2 = 0 THEN 1 ELSE 0)
  BY <1>2 DEF secp256k1_pack, YParity
<1>8. RecoverV(u) = t.v
  <2>1. CASE t.v \in {27, 28}
    BY <1>2, <1>4, <1>5, <1>7, <2>1, LegacyV DEF RecoverV, Has
  <2>2. CASE t.v \notin {27, 28}
    <3>1. u.data["chain_id"] = ChainIdOf(t.v)
      BY <1>2, <1>4, <2>2, UpgradeFields DEF ChainId
    <3>2. ChainIdOf(t.v) >= 0
      BY <1>4, <1>5, <2>2, LegacyV DEF CanUpgrade, ChainId
    <3>3. RecoverV(u) = u.signature.y_parity + 35 + 2 * u.data["chain_id"]
      BY <1>2, <1>4, <2>2 DEF RecoverV, Has
    <3>4. QED BY <1>5, <1>7, <3>1, <3>2, <3>3, LegacyV
  <2>3. QED BY <2>1, <2>2
<1>9. /\ u.data["nonce"] = t.nonce /\ u.data["gas"] = t.gas /\ u.data["value"] = t.value
      /\ u.data["input_"] = t.data /\ u.data["max_fees_per_gas"] = [regular |-> t.gas_price]
      /\ Has(u.data, "to") <=> t.to # Empty
      /\ t.to # Empty => u.data["to"] = t.to
  <2>1. \A f \in payload : u.data[f] = UpgradeField(t, f)
    BY <1>2
  <2>2. \A f \in Copied : UpgradeField(t, f) = t[f]
    BY UpgradeFields
  <2>3. /\ UpgradeField(t, "input_") = t.data
        /\ UpgradeField(t, "max_fees_per_gas") = [regular |-> t.gas_price]
    BY <1>6, UpgradeFields
  <2>4. \A f : Has(u.data, f) <=> f \in payload
    BY <1>2 DEF Has
  <2> HIDE DEF u, payload
  <2>5. {"nonce", "gas", "value", "to"} \subseteq Copied
    BY DEF Copied
  <2>6. QED BY <1>4, <2>1, <2>2, <2>3, <2>4, <2>5
<1> HIDE DEF u, payload
<1>10. \A f \in FieldsOf(t.type) \ {"type"} : RecoverField(u, f) = t[f]
  <2>1. FieldsOf(t.type) \ {"type"}
          \subseteq {"v", "r", "s", "nonce", "gas_price", "gas", "to", "value", "data"}
    BY FieldNames DEF LegacyNames
  <2>2. RecoverField(u, "v") = t.v /\ \A f \in {"r", "s"} : RecoverField(u, f) = t[f]
    BY <1>7, <1>8, RecoverFields
  <2>3. /\ RecoverField(u, "gas_price") = t.gas_price
        /\ RecoverField(u, "to") = t.to
        /\ RecoverField(u, "data") = t.data
    BY <1>9, RecoverFields
  <2>4. \A f \in {"nonce", "gas", "value"} : RecoverField(u, f) = t[f]
    BY <1>9, RecoverFields
  <2>5. QED BY <2>1, <2>2, <2>3, <2>4
<1>11. QED BY <1>1, <1>10, RecoveredAsUpgraded DEF u

\* Where the fields that all typed transactions have in common are kept.
LEMMA TypedRecovered ==
    ASSUME NEW t, t.type \in Kinds \ {LEGACY}, RlpDecoded(t), CanUpgrade(t)
    PROVE  LET u == Upgrade(t)
           IN  /\ u.signature.r = t.r /\ u.signature.s = t.s /\ u.signature.y_parity = t.y_parity
               /\ DOMAIN u.data = TransactionPayload[SelectorFor(t)]
               /\ \A f \in {"chain_id", "nonce", "gas", "value", "access_list"} : u.data[f] = t[f]
               /\ u.data["input_"] = t.data
               /\ u.data["max_fees_per_gas"] = MaxFees(t)
               /\ Has(u.data, "to") <=> t.to # Empty
               /\ t.to # Empty => u.data["to"] = t.to
               /\ t.type # ACCESS_LIST => u.data["max_priority_fees_per_gas"] = MaxPriorityFees(t)
               /\ t.type = BLOB => u.data["blob_versioned_hashes"] = t["blob_versioned_hashes"]
               /\ t.type = SET_CODE => u.data["authorization_list"]
                     = [i \in DOMAIN t.authorization_list |->
                          upgrade_authorization(t.authorization_list[i])]
<1> DEFINE u == Upgrade(t)
           payload == TransactionPayload[SelectorFor(t)]
<1>1. /\ DOMAIN u.data = payload
      /\ \A f \in payload : u.data[f] = UpgradeField(t, f)
      /\ u.signature = secp256k1_pack(t.r, t.s, YParity(t))
  BY UpgradeParts
<1>2. SelectorFor(t) = CASE t.type = SET_CODE -> 10
                         [] t.type = BLOB -> 9
                         [] t.type = FEE_MARKET -> IF t.to = Empty THEN 8 ELSE 7
                         [] t.type = ACCESS_LIST -> IF t.to = Empty THEN 6 ELSE 5
  BY DEF Kinds, SelectorFor, LEGACY, ACCESS_LIST, FEE_MARKET, BLOB, SET_CODE
<1>3. t.type \in {BLOB, SET_CODE} => t.to # Empty
  BY DEF CanUpgrade
<1>4. /\ {"type_", "chain_id", "nonce", "max_fees_per_gas", "gas", "value", "input_", "access_list"}
            \subseteq payload
      /\ "to" \in payload <=> t.to # Empty
      /\ t.type # ACCESS_LIST => "max_priority_fees_per_gas" \in payload
      /\ t.type = BLOB => "blob_versioned_hashes" \in payload
      /\ t.type = SET_CODE => "authorization_list" \in payload
  BY <1>2, <1>3, PayloadFields
  DEF Kinds, LEGACY, ACCESS_LIST, FEE_MARKET, BLOB, SET_CODE,
      RlpLegacyReplayableCreateTransactionPayload, RlpLegacyCreateTransactionPayload,
      RlpAccessListBasicTransactionPayload, RlpAccessListCreateTransactionPayload,
      RlpBasicTransactionPayload, RlpCreateTransactionPayload,
      RlpBlobTransactionPayload, RlpSetCodeTransactionPayload
<1>5. YParity(t) = t.y_parity /\ ChainId(t) = t.chain_id
  BY DEF YParity, ChainId
<1>6. u.signature.r = t.r /\ u.signature.s = t.s /\ u.signature.y_parity = t.y_parity
  BY <1>1, <1>5 DEF secp256k1_pack
<1> HIDE DEF u, payload
<1>7. /\ u.data["chain_id"] = t.chain_id /\ u.data["nonce"] = t.nonce /\ u.data["gas"] = t.gas
      /\ u.data["value"] = t.value /\ u.data["access_list"] = t.access_list
      /\ u.data["input_"] = t.data
      /\ u.data["max_fees_per_gas"] = MaxFees(t)
      /\ Has(u.data, "to") <=> t.to # Empty
      /\ t.to # Empty => u.data["to"] = t.to
  BY <1>1, <1>4, <1>5, UpgradeFields DEF Copied, Has
<1>8. /\ t.type # ACCESS_LIST => u.data["max_priority_fees_per_gas"] = MaxPriorityFees(t)
      /\ t.type = BLOB => u.data["blob_versioned_hashes"] = t["blob_versioned_hashes"]
      /\ t.type = SET_CODE => u.data["authorization_list"]
            = [i \in DOMAIN t.authorization_list |-> upgrade_authorization(t.authorization_list[i])]
  BY <1>1, <1>4, UpgradeFields DEF Copied
<1>9. QED BY <1>1, <1>6, <1>7, <1>8 DEF u, payload

\* An authorization.
LEMMA AuthorizationRecovered ==
    ASSUME NEW a, Fields(a, {"chain_id", "address", "nonce", "y_parity", "r", "s"})
    PROVE  recover_set_code_rlp_authorization(upgrade_authorization(a)) = a
<1> DEFINE u == upgrade_authorization(a)
           selector == IF a.chain_id # 0 THEN 2 ELSE 1
           payload == RlpSetCodeAuthorizationPayload[selector]
           field(f) == IF f = "magic" THEN SET_CODE_MAGIC ELSE a[f]
<1>1. /\ u.data = [f \in payload |-> field(f)]
      /\ u.signature = secp256k1_pack(a.r, a.s, a.y_parity)
  BY DEF upgrade_authorization
<1>2. /\ {"address", "nonce"} \subseteq payload
      /\ "chain_id" \in payload <=> a.chain_id # 0
  BY DEF RlpSetCodeAuthorizationPayload, RlpReplayableBasicAuthorizationPayload,
         RlpBasicAuthorizationPayload
<1> HIDE DEF payload, u
<1>3. /\ u.data["address"] = a.address /\ u.data["nonce"] = a.nonce
      /\ (IF Has(u.data, "chain_id") THEN u.data["chain_id"] ELSE 0) = a.chain_id
  BY <1>1, <1>2 DEF Has
<1>4. u.signature.r = a.r /\ u.signature.s = a.s /\ u.signature.y_parity = a.y_parity
  BY <1>1 DEF secp256k1_pack
<1>5. recover_set_code_rlp_authorization(u)
        = [chain_id |-> a.chain_id, address |-> a.address, nonce |-> a.nonce,
           y_parity |-> a.y_parity, r |-> a.r, s |-> a.s]
  BY <1>3, <1>4 DEF recover_set_code_rlp_authorization
<1>6. a = [chain_id |-> a.chain_id, address |-> a.address, nonce |-> a.nonce,
           y_parity |-> a.y_parity, r |-> a.r, s |-> a.s]
  BY DEF Fields
<1>7. QED BY <1>5, <1>6 DEF u

\* What decodes is recovered from its upgrade, field by field.
LEMMA UpgradeRecovered ==
    ASSUME NEW t, t.type \in Kinds, RlpDecoded(t), CanUpgrade(t)
    PROVE  Recover(Upgrade(t)) = t
<1> DEFINE u == Upgrade(t)
<1>1. /\ \A f \in {"r", "s", "y_parity"} : RecoverField(u, f) = u.signature[f]
      /\ \A f \in {"chain_id", "nonce", "gas", "value", "access_list", "blob_versioned_hashes"} :
            RecoverField(u, f) = u.data[f]
      /\ RecoverField(u, "to") = IF Has(u.data, "to") THEN u.data["to"] ELSE Empty
      /\ RecoverField(u, "data") = u.data["input_"]
      /\ RecoverField(u, "gas_price") = u.data["max_fees_per_gas"].regular
      /\ RecoverField(u, "max_fee_per_gas") = u.data["max_fees_per_gas"].regular
      /\ RecoverField(u, "max_fee_per_blob_gas") = u.data["max_fees_per_gas"].blob
      /\ RecoverField(u, "max_priority_fee_per_gas") = u.data["max_priority_fees_per_gas"].regular
      /\ RecoverField(u, "authorization_list")
           = [i \in DOMAIN u.data["authorization_list"] |->
                recover_set_code_rlp_authorization(u.data["authorization_list"][i])]
  BY RecoverFields
<1>2. ASSUME t.type # LEGACY
      PROVE  /\ u.signature.r = t.r /\ u.signature.s = t.s /\ u.signature.y_parity = t.y_parity
             /\ \A f \in {"chain_id", "nonce", "gas", "value", "access_list"} : u.data[f] = t[f]
             /\ u.data["input_"] = t.data
             /\ u.data["max_fees_per_gas"] = MaxFees(t)
             /\ Has(u.data, "to") <=> t.to # Empty
             /\ t.to # Empty => u.data["to"] = t.to
             /\ t.type # ACCESS_LIST => u.data["max_priority_fees_per_gas"] = MaxPriorityFees(t)
             /\ t.type = BLOB => u.data["blob_versioned_hashes"] = t["blob_versioned_hashes"]
             /\ t.type = SET_CODE => u.data["authorization_list"]
                   = [i \in DOMAIN t.authorization_list |->
                        upgrade_authorization(t.authorization_list[i])]
  <2>1. t.type \in Kinds \ {LEGACY}
    BY <1>2
  <2>2. QED BY <2>1, TypedRecovered
<1>3. CASE t.type = LEGACY
  BY <1>3, LegacyRecovered
<1> HIDE DEF u
<1>4. ASSUME t.type # LEGACY
      PROVE  /\ RecoverField(u, "to") = t.to
             /\ \A f \in {"chain_id", "nonce", "gas", "value", "data", "access_list", "r", "s",
                          "y_parity"} : RecoverField(u, f) = t[f]
  BY <1>1, <1>2, <1>4
<1>5. CASE t.type = ACCESS_LIST
  <2>1. t.type # LEGACY /\ MaxFees(t) = [regular |-> t.gas_price]
    BY <1>5 DEF MaxFees, LEGACY, ACCESS_LIST, FEE_MARKET, SET_CODE, BLOB
  <2>2. RecoverField(u, "gas_price") = t.gas_price
    BY <2>1, <1>1, <1>2
  <2>3. \A f \in FieldsOf(t.type) \ {"type"} : RecoverField(u, f) = t[f]
    BY <1>4, <1>5, <2>1, <2>2, FieldNames DEF AccessListNames, LegacyNames
  <2>4. QED BY <2>3, RecoveredAsUpgraded DEF u
<1>6. ASSUME t.type \in {FEE_MARKET, SET_CODE, BLOB}
      PROVE  /\ RecoverField(u, "max_fee_per_gas") = t.max_fee_per_gas
             /\ RecoverField(u, "max_priority_fee_per_gas") = t.max_priority_fee_per_gas
  <2>1. /\ t.type # LEGACY /\ t.type # ACCESS_LIST
        /\ MaxFees(t).regular = t.max_fee_per_gas
    BY <1>6 DEF MaxFees, LEGACY, ACCESS_LIST, FEE_MARKET, SET_CODE, BLOB
  <2>2. MaxPriorityFees(t).regular = t.max_priority_fee_per_gas
    BY UpgradeFields
  <2>3. QED BY <2>1, <2>2, <1>1, <1>2
<1>7. CASE t.type = FEE_MARKET
  <2>1. t.type # LEGACY
    BY <1>7 DEF LEGACY, FEE_MARKET
  <2>2. \A f \in FieldsOf(t.type) \ {"type"} : RecoverField(u, f) = t[f]
    BY <1>4, <1>6, <1>7, <2>1, FieldNames DEF FeeMarketNames
  <2>3. QED BY <2>2, RecoveredAsUpgraded DEF u
<1>8. CASE t.type = BLOB
  <2>1. t.type # LEGACY /\ MaxFees(t).blob = t.max_fee_per_blob_gas
    BY <1>8 DEF MaxFees, LEGACY, ACCESS_LIST, FEE_MARKET, SET_CODE, BLOB
  <2>2. /\ RecoverField(u, "max_fee_per_blob_gas") = t.max_fee_per_blob_gas
        /\ RecoverField(u, "blob_versioned_hashes") = t.blob_versioned_hashes
    BY <1>8, <2>1, <1>1, <1>2
  <2>3. \A f \in FieldsOf(t.type) \ {"type"} : RecoverField(u, f) = t[f]
    BY <1>4, <1>6, <1>8, <2>1, <2>2, FieldNames DEF BlobNames, FeeMarketNames
  <2>4. QED BY <2>3, RecoveredAsUpgraded DEF u
<1>9. CASE t.type = SET_CODE
  <2> DEFINE l == t.authorization_list
             m == u.data["authorization_list"]
  <2>1. t.type # LEGACY
    BY <1>9 DEF LEGACY, SET_CODE
  <2>2. m = [i \in DOMAIN l |-> upgrade_authorization(l[i])]
    BY <1>9, <2>1, <1>2
  <2>3. \A i \in DOMAIN l : recover_set_code_rlp_authorization(upgrade_authorization(l[i])) = l[i]
    BY <1>9, AuthorizationRecovered DEF RlpDecoded
  <2>4. l = [i \in DOMAIN l |-> l[i]]
    BY <1>9 DEF RlpDecoded, List
  <2>5. RecoverField(u, "authorization_list")
          = [i \in DOMAIN m |-> recover_set_code_rlp_authorization(m[i])]
    BY <1>1
  <2> HIDE DEF m
  <2>6. RecoverField(u, "authorization_list") = l
    BY <2>2, <2>3, <2>4, <2>5
  <2>7. \A f \in FieldsOf(t.type) \ {"type"} : RecoverField(u, f) = t[f]
    BY <1>4, <1>6, <1>9, <2>1, <2>6, FieldNames DEF SetCodeNames, FeeMarketNames
  <2>8. QED BY <2>7, RecoveredAsUpgraded DEF u
<1>10. t.type \in {LEGACY, ACCESS_LIST, FEE_MARKET, BLOB, SET_CODE}
  BY DEF Kinds, LEGACY, ACCESS_LIST, FEE_MARKET, BLOB, SET_CODE
<1>11. QED BY <1>3, <1>5, <1>7, <1>8, <1>9, <1>10

-----------------------------------------------------------------------------
(* The node. *)

\* What the phase says of the transaction in hand: it came from the wire, or
\* it is the upgrade of the RLP transaction it arrived as.
InHand ==
  /\ phase = "idle" => origin = None /\ tx = None
  /\ phase \in {"rlp", "refused"} => origin \in RlpTransactionsIn /\ tx = None
  /\ phase \in {"ssz", "valid", "invalid"} =>
       \/ origin = None /\ tx \in Wire
       \/ origin \in Upgradeable /\ tx = Upgrade(origin)

\* A verdict is that of validate_transaction, on the transaction as it is.
Decided ==
  /\ phase = "valid" => validate_transaction(tx)
  /\ phase = "invalid" => ~validate_transaction(tx)

Inv ==
  /\ phase \in {"idle", "rlp", "refused", "ssz", "valid", "invalid"}
  /\ InHand
  /\ Decided

\* Every handler keeps the transaction in hand to what it arrived as.
THEOREM ConversionInvariant == Spec => []Inv
<1>1. Init => Inv
  BY DEF Init, Inv, InHand, Decided
<1>2. Inv /\ [Next]_vars => Inv'
  <2> SUFFICES ASSUME Inv, [Next]_vars PROVE Inv'
    OBVIOUS
  <2>1. CASE ReceiveRlp
    BY <2>1 DEF ReceiveRlp, Inv, InHand, Decided
  <2>2. CASE ReceiveSsz
    BY <2>2 DEF ReceiveSsz, Inv, InHand, Decided
  <2>3. CASE upgrade_rlp_transaction_to_ssz
    <3>1. origin \in RlpTransactionsIn /\ tx = None
      BY <2>3 DEF upgrade_rlp_transaction_to_ssz, Inv, InHand
    <3>2. CASE CanUpgrade(origin)
      <4>1. phase' = "ssz" /\ tx' = Upgrade(origin) /\ origin' = origin
        BY <2>3, <3>2 DEF upgrade_rlp_transaction_to_ssz
      <4>2. origin' \in Upgradeable
        BY <3>1, <3>2, <4>1 DEF Upgradeable
      <4>3. QED BY <4>1, <4>2 DEF Inv, InHand, Decided
    <3>3. CASE ~CanUpgrade(origin)
      BY <2>3, <3>1, <3>3 DEF upgrade_rlp_transaction_to_ssz, Inv, InHand, Decided
    <3>4. QED BY <3>2, <3>3
  <2>4. CASE Validate
    <3>1. InHand'
      BY <2>4 DEF Validate, Inv, InHand
    <3>2. Decided'
      <4>1. tx' = tx
        BY <2>4 DEF Validate
      <4>2. validate_transaction(tx') <=> validate_transaction(tx)
        BY <4>1
      <4>3. CASE validate_transaction(tx)
        <5>1. phase' = "valid"
          BY <2>4, <4>3 DEF Validate
        <5>2. QED BY <4>2, <4>3, <5>1 DEF Decided
      <4>4. CASE ~validate_transaction(tx)
        <5>1. phase' = "invalid"
          BY <2>4, <4>4 DEF Validate
        <5>2. QED BY <4>2, <4>4, <5>1 DEF Decided
      <4>5. QED BY <4>3, <4>4
    <3>3. QED BY <2>4, <3>1, <3>2 DEF Validate, Inv
  <2>5. CASE Done
    BY <2>5 DEF Done, Inv, InHand, Decided
  <2>6. CASE UNCHANGED vars
    BY <2>6 DEF vars, Inv, InHand, Decided
  <2>7. QED BY <2>1, <2>2, <2>3, <2>4, <2>5, <2>6 DEF Next
<1>3. QED BY <1>1, <1>2, PTL DEF Spec

\* What arrives over RLP has decoded, and is of one of the types.
LEMMA Arrived ==
    ASSUME NEW t \in RlpTransactionsIn
    PROVE  t.type \in Kinds /\ RlpDecoded(t)
BY TransactionAssumption
DEF TransactionAssumption, RlpTransactionsIn, Kinds, LEGACY, ACCESS_LIST, SET_CODE

\* An upgraded transaction is the upgrade of one that decoded.
LEMMA UpgradedFromOrigin ==
    ASSUME Inv, Upgraded
    PROVE  /\ phase \in {"ssz", "valid", "invalid"}
           /\ origin \in RlpTransactionsIn /\ CanUpgrade(origin)
           /\ origin.type \in Kinds /\ RlpDecoded(origin)
           /\ tx = Upgrade(origin) /\ Recover(tx) = origin
<1>1. /\ phase \in {"ssz", "valid", "invalid"}
      /\ origin \in Upgradeable /\ tx = Upgrade(origin)
  BY DEF Inv, InHand, Upgraded
<1>2. origin \in RlpTransactionsIn /\ CanUpgrade(origin)
  BY <1>1 DEF Upgradeable
<1>3. origin.type \in Kinds /\ RlpDecoded(origin)
  BY <1>2, Arrived
<1>4. Recover(tx) = origin
  BY <1>1, <1>2, <1>3, UpgradeRecovered
<1>5. QED BY <1>1, <1>2, <1>3, <1>4

\* The authorizations of an upgraded transaction are those it arrived with.
LEMMA UpgradedAuthorizations ==
    ASSUME NEW t, t.type = SET_CODE, RlpDecoded(t), CanUpgrade(t)
    PROVE  /\ Upgrade(t).data["authorization_list"]
                = [i \in DOMAIN t.authorization_list |->
                     upgrade_authorization(t.authorization_list[i])]
           /\ \A i \in DOMAIN t.authorization_list :
                recover_set_code_rlp_authorization(Upgrade(t).data["authorization_list"][i])
                  = t.authorization_list[i]
<1>1. t.type \in Kinds \ {LEGACY}
  BY DEF Kinds, LEGACY, SET_CODE
<1>2. Upgrade(t).data["authorization_list"]
        = [i \in DOMAIN t.authorization_list |->
             upgrade_authorization(t.authorization_list[i])]
  BY <1>1, TypedRecovered
<1>3. \A i \in DOMAIN t.authorization_list :
        recover_set_code_rlp_authorization(upgrade_authorization(t.authorization_list[i]))
          = t.authorization_list[i]
  BY AuthorizationRecovered DEF RlpDecoded
<1>4. QED BY <1>2, <1>3

\* The upgrade loses nothing: the RLP transaction, its hashes and those of its
\* authorizations are recovered from the SSZ one.
THEOREM UpgradeLossless == Spec => []Lossless
<1>1. Inv => Lossless
  <2> SUFFICES ASSUME Inv, Upgraded PROVE Recovered
    BY DEF Lossless
  <2>1. /\ origin.type \in Kinds /\ RlpDecoded(origin) /\ CanUpgrade(origin)
        /\ tx = Upgrade(origin) /\ Recover(tx) = origin
    BY UpgradedFromOrigin
  <2>2. compute_sig_hash(tx) = SigHash(origin) /\ compute_tx_hash(tx) = TxHash(origin)
    BY <2>1 DEF compute_sig_hash, compute_tx_hash
  <2>3. ASSUME origin.type = SET_CODE, NEW i \in DOMAIN origin.authorization_list
        PROVE  compute_auth_hash(tx.data["authorization_list"][i])
                 = compute_set_code_auth_hash(origin.authorization_list[i])
    <3>1. recover_set_code_rlp_authorization(tx.data["authorization_list"][i])
            = origin.authorization_list[i]
      BY <2>1, <2>3, UpgradedAuthorizations
    <3>2. QED BY <3>1 DEF compute_auth_hash
  <2>4. QED BY <2>1, <2>2, <2>3 DEF Recovered
<1>2. QED BY <1>1, ConversionInvariant, PTL

-----------------------------------------------------------------------------
(* Validation of an upgraded transaction. *)

\* What upgrading packs is valid when it is canonical.
LEMMA PackedIsValid ==
    ASSUME NEW r \in Nat, NEW s \in Nat, NEW y
    PROVE  validate_execution_signature(secp256k1_pack(r, s, y), SECP256K1_ALGORITHM)
             <=> /\ 0 < r /\ r < SECP256K1N /\ 0 < s /\ 2 * s <= SECP256K1N
                 /\ y \in {0, 1}
<1> DEFINE g == secp256k1_pack(r, s, y)
<1>1. g.alg = SECP256K1_ALGORITHM /\ g.r = r /\ g.s = s /\ g.y_parity = y /\ g.extra = 0
  BY DEF secp256k1_pack
<1> HIDE DEF g
<1>2. SignatureLength(g) > 0
  BY <1>1 DEF SignatureLength, SIZE
<1>3. s <= SECP256K1N \div 2 <=> 2 * s <= SECP256K1N
  BY OrderAssumption
<1>4. secp256k1_validate(g)
        <=> 0 < r /\ r < SECP256K1N /\ 0 < s /\ s <= SECP256K1N \div 2 /\ y \in {0, 1}
  BY <1>1 DEF secp256k1_validate
<1>5. validate_execution_signature(g, SECP256K1_ALGORITHM) <=> secp256k1_validate(g)
  BY <1>1, <1>2 DEF validate_execution_signature, validate_signature, algorithm_registry
<1>6. QED BY <1>3, <1>4, <1>5 DEF g

\* An upgraded authorization is valid when its signature is.
LEMMA UpgradedAuthorizationIsValid ==
    ASSUME NEW a, a.r \in Nat, a.s \in Nat
    PROVE  ValidateAuthorization(upgrade_authorization(a))
             <=> Canonically(a) /\ a.y_parity \in {0, 1}
<1> DEFINE u == upgrade_authorization(a)
           selector == IF a.chain_id # 0 THEN 2 ELSE 1
           payload == RlpSetCodeAuthorizationPayload[selector]
           field(f) == IF f = "magic" THEN SET_CODE_MAGIC ELSE a[f]
<1>1. /\ u.data = [f \in payload |-> field(f)]
      /\ u.signature = secp256k1_pack(a.r, a.s, a.y_parity)
  BY DEF upgrade_authorization
<1>2. /\ "magic" \in payload
      /\ "chain_id" \in payload <=> a.chain_id # 0
  BY DEF RlpSetCodeAuthorizationPayload, RlpReplayableBasicAuthorizationPayload,
         RlpBasicAuthorizationPayload
<1> HIDE DEF payload, u
<1>3. u.data["magic"] = SET_CODE_MAGIC
  BY <1>1, <1>2
<1>4. Has(u.data, "chain_id") => u.data["chain_id"] # 0
  BY <1>1, <1>2 DEF Has
<1>5. ValidateAuthorization(u)
        <=> validate_execution_signature(u.signature, SECP256K1_ALGORITHM)
  BY <1>3, <1>4 DEF ValidateAuthorization
<1>6. QED BY <1>1, <1>5, PackedIsValid DEF Canonically, u

\* Which payloads have a type, and which have authorizations.
LEMMA PayloadsTyped ==
    ASSUME NEW t, t.type \in Kinds
    PROVE  /\ "type_" \in TransactionPayload[SelectorFor(t)]
           /\ "authorization_list" \in TransactionPayload[SelectorFor(t)] <=> t.type = SET_CODE
<1>1. SelectorFor(t) \in 1 .. 10 /\ (SelectorFor(t) = 10 <=> t.type = SET_CODE)
  BY DEF Kinds, SelectorFor, LEGACY, ACCESS_LIST, FEE_MARKET, BLOB, SET_CODE
<1>2. \A k \in 1 .. 10 : /\ "type_" \in TransactionPayload[k]
                         /\ "authorization_list" \in TransactionPayload[k] <=> k = 10
  BY PayloadTable
<1>3. QED BY <1>1, <1>2

\* The numbers of a signature.
LEMMA SignatureNumbers ==
    ASSUME NEW t, t.type \in Kinds, RlpDecoded(t)
    PROVE  /\ t.r \in Nat /\ t.s \in Nat
           /\ t.type = LEGACY => YParity(t) \in {0, 1}
           /\ t.type # LEGACY => YParity(t) = t.y_parity
<1>1. "r" \in FieldsOf(t.type) /\ "s" \in FieldsOf(t.type)
  BY FieldNames DEF Kinds, LEGACY, ACCESS_LIST, FEE_MARKET, BLOB, SET_CODE
<1>2. t["r"] \in Nat /\ t["s"] \in Nat
  BY <1>1 DEF RlpDecoded, RlpNumbers
<1>3. QED BY <1>2 DEF YParity

\* Validation decides an upgraded transaction by its RLP signatures alone.
LEMMA UpgradeValidated ==
    ASSUME NEW t, t.type \in Kinds, RlpDecoded(t), CanUpgrade(t)
    PROVE  validate_transaction(Upgrade(t))
             <=> /\ Canonically(t)
                 /\ t.type = LEGACY \/ t.y_parity \in {0, 1}
                 /\ t.type = SET_CODE =>
                      \A i \in DOMAIN t.authorization_list :
                        /\ Canonically(t.authorization_list[i])
                        /\ t.authorization_list[i].y_parity \in {0, 1}
<1> DEFINE u == Upgrade(t)
           list == t.authorization_list
<1>1. /\ u.selector = SelectorFor(t)
      /\ u.signature = secp256k1_pack(t.r, t.s, YParity(t))
      /\ Has(u.data, "authorization_list") <=> t.type = SET_CODE
      /\ u.data["type_"] = t.type
  BY UpgradeParts, UpgradeFields, PayloadsTyped DEF Has
<1>2. u.selector \in Selectors(u.data["type_"])
  BY <1>1, SelectorOfType
<1>3. validate_execution_signature(u.signature, SECP256K1_ALGORITHM)
        <=> Canonically(t) /\ (t.type = LEGACY \/ t.y_parity \in {0, 1})
  BY <1>1, PackedIsValid, SignatureNumbers DEF Canonically
<1>4. ASSUME t.type = SET_CODE
      PROVE  (\A i \in DOMAIN u.data["authorization_list"] :
                ValidateAuthorization(u.data["authorization_list"][i]))
               <=> \A i \in DOMAIN list : Canonically(list[i]) /\ list[i].y_parity \in {0, 1}
  <2>1. u.data["authorization_list"] = [i \in DOMAIN list |-> upgrade_authorization(list[i])]
    BY <1>4, UpgradedAuthorizations
  <2>2. \A i \in DOMAIN list : list[i].r \in Nat /\ list[i].s \in Nat
    <3>1. \A i \in DOMAIN list : list[i]["r"] \in Nat /\ list[i]["s"] \in Nat
      BY <1>4 DEF RlpDecoded
    <3>2. QED BY <3>1
  <2>3. \A i \in DOMAIN list : ValidateAuthorization(upgrade_authorization(list[i]))
          <=> Canonically(list[i]) /\ list[i].y_parity \in {0, 1}
    BY <2>2, UpgradedAuthorizationIsValid
  <2> HIDE DEF u, list
  <2>4. QED BY <2>1, <2>3
<1> HIDE DEF u
<1>5. validate_transaction(u)
        <=> /\ t.type = SET_CODE =>
                 \A i \in DOMAIN u.data["authorization_list"] :
                   ValidateAuthorization(u.data["authorization_list"][i])
            /\ validate_execution_signature(u.signature, SECP256K1_ALGORITHM)
  BY <1>1, <1>2 DEF validate_transaction
<1>6. QED BY <1>3, <1>4, <1>5 DEF u

\* An upgraded transaction is accepted exactly when the network accepts its
\* RLP signatures: the upgrade builds no payload that validation refuses.
THEOREM SignaturesDecide == Spec => []UpgradedIsDecidedBySignatures
<1>1. Inv => UpgradedIsDecidedBySignatures
  <2> SUFFICES ASSUME Inv, Upgraded, phase \in {"valid", "invalid"}
               PROVE  UpgradedIsDecidedBySignatures
    BY DEF UpgradedIsDecidedBySignatures
  <2>1. /\ origin.type \in Kinds /\ RlpDecoded(origin) /\ CanUpgrade(origin)
        /\ tx = Upgrade(origin)
    BY UpgradedFromOrigin
  <2>2. phase = "valid" <=> validate_transaction(tx)
    BY DEF Inv, Decided
  <2>3. QED BY <2>1, <2>2, UpgradeValidated DEF UpgradedIsDecidedBySignatures
<1>2. QED BY <1>1, ConversionInvariant, PTL

-----------------------------------------------------------------------------
(* What is signed. *)

\* Hashes of one class and prefix are equal when the encodings are.
LEMMA HashTells ==
    ASSUME NEW prefix, NEW class, NEW x, NEW y
    PROVE  TypedHash(prefix, class, x) = TypedHash(prefix, class, y)
             <=> \A f \in Named(class) : x[f] = y[f]
<1> DEFINE a == Encode(class, x)
           b == Encode(class, y)
<1>1. a = b <=> \A f \in Named(class) : x[f] = y[f]
  BY EncodeTells
<1>2. TypedHash(prefix, class, x) = Keccak(<<prefix, a>>)
      /\ TypedHash(prefix, class, y) = Keccak(<<prefix, b>>)
  BY DEF TypedHash
<1> HIDE DEF a, b
<1>3. Keccak(<<prefix, a>>) = Keccak(<<prefix, b>>) <=> a = b
  BY DEF Keccak
<1>4. QED BY <1>1, <1>2, <1>3

\* What the classes of two transactions of a type depend on.
LEMMA SameData ==
    ASSUME NEW t, NEW o, t.type \in Kinds, o.type = t.type,
           SelectorFor(o) = SelectorFor(t),
           \A f \in TransactionPayload[SelectorFor(t)] : UpgradeField(o, f) = UpgradeField(t, f)
    PROVE  Upgrade(o).data = Upgrade(t).data
BY DEF Upgrade

\* All that is recovered but the signature comes from the payload.
LEMMA RecoveredFromData ==
    ASSUME NEW t, NEW o, t.type \in Kinds, o.type = t.type,
           RlpDecoded(t), RlpDecoded(o), CanUpgrade(t), CanUpgrade(o),
           Upgrade(o).data = Upgrade(t).data
    PROVE  /\ \A f \in FieldsOf(t.type) \ {"type", "v", "r", "s", "y_parity"} : o[f] = t[f]
           /\ t.type = LEGACY => SelectorFor(o) = SelectorFor(t)
<1>1. /\ \A f \in FieldsOf(t.type) : t[f] = RecoverField(Upgrade(t), f)
      /\ \A f \in FieldsOf(t.type) : o[f] = RecoverField(Upgrade(o), f)
  <2>1. TypeFor(Upgrade(t)) = t.type /\ TypeFor(Upgrade(o)) = t.type
    BY UpgradeParts
  <2>2. Recover(Upgrade(t)) = t /\ Recover(Upgrade(o)) = o
    BY UpgradeRecovered
  <2>3. Recover(Upgrade(t)) = [f \in FieldsOf(t.type) |-> RecoverField(Upgrade(t), f)]
        /\ Recover(Upgrade(o)) = [f \in FieldsOf(t.type) |-> RecoverField(Upgrade(o), f)]
    BY <2>1 DEF Recover
  <2>4. QED BY <2>2, <2>3
<1>2. \A f : f \notin {"type", "v", "r", "s", "y_parity"}
               => RecoverField(Upgrade(t), f) = RecoverField(Upgrade(o), f)
  BY DEF RecoverField
<1>3. \A f \in FieldsOf(t.type) \ {"type", "v", "r", "s", "y_parity"} : o[f] = t[f]
  BY <1>1, <1>2
<1>4. DOMAIN Upgrade(o).data = TransactionPayload[SelectorFor(o)]
      /\ DOMAIN Upgrade(t).data = TransactionPayload[SelectorFor(t)]
  BY UpgradeParts
<1>5. t.type = LEGACY => SelectorFor(t) \in 1 .. 4 /\ SelectorFor(o) \in 1 .. 4
  BY DEF SelectorFor, LEGACY, ACCESS_LIST, FEE_MARKET, BLOB, SET_CODE
<1>6. \A k, l \in 1 .. 4 : TransactionPayload[k] = TransactionPayload[l] => k = l
  <2>1. \A k \in 1 .. 4 :
          /\ "to" \in TransactionPayload[k] <=> k \in {1, 3}
          /\ "chain_id" \in TransactionPayload[k] <=> k \in {3, 4}
    BY PayloadTable
  <2>2. QED BY <2>1
<1>7. QED BY <1>3, <1>4, <1>5, <1>6

\* Two typed transactions have one signing hash when they have one payload.
LEMMA TypedSigned ==
    ASSUME NEW t, NEW o, t.type \in Kinds \ {LEGACY}, o.type = t.type,
           RlpDecoded(t), RlpDecoded(o), CanUpgrade(t), CanUpgrade(o)
    PROVE  SigHash(t) = SigHash(o) <=> Upgrade(o).data = Upgrade(t).data
<1> DEFINE names == FieldsOf(t.type) \ {"type", "v", "r", "s", "y_parity"}
<1>1. SigHash(t) = SigHash(o) <=> \A f \in names : t[f] = o[f]
  <2>1. CASE t.type = ACCESS_LIST
    <3>1. names = Named(AccessListRlpTransactionPayload)
      BY <2>1, SignedNames, FieldNames DEF AccessListNames, LegacyNames
    <3>2. /\ SigHash(t) = TypedHash(ACCESS_LIST, AccessListRlpTransactionPayload, t)
          /\ SigHash(o) = TypedHash(ACCESS_LIST, AccessListRlpTransactionPayload, o)
      BY <2>1 DEF SigHash, compute_access_list_sig_hash, LEGACY, ACCESS_LIST, FEE_MARKET, BLOB, SET_CODE
    <3> HIDE DEF names
    <3>3. QED BY <3>1, <3>2, HashTells
  <2>2. CASE t.type = FEE_MARKET
    <3>1. names = Named(FeeMarketRlpTransactionPayload)
      BY <2>2, SignedNames, FieldNames DEF FeeMarketNames
    <3>2. /\ SigHash(t) = TypedHash(FEE_MARKET, FeeMarketRlpTransactionPayload, t)
          /\ SigHash(o) = TypedHash(FEE_MARKET, FeeMarketRlpTransactionPayload, o)
      BY <2>2 DEF SigHash, compute_fee_market_sig_hash, LEGACY, ACCESS_LIST, FEE_MARKET, BLOB, SET_CODE
    <3> HIDE DEF names
    <3>3. QED BY <3>1, <3>2, HashTells
  <2>3. CASE t.type = BLOB
    <3>1. names = Named(BlobRlpTransactionPayload)
      BY <2>3, SignedNames, FieldNames DEF BlobNames, FeeMarketNames
    <3>2. /\ SigHash(t) = TypedHash(BLOB, BlobRlpTransactionPayload, t)
          /\ SigHash(o) = TypedHash(BLOB, BlobRlpTransactionPayload, o)
      BY <2>3 DEF SigHash, compute_blob_sig_hash, LEGACY, ACCESS_LIST, FEE_MARKET, BLOB, SET_CODE
    <3> HIDE DEF names
    <3>3. QED BY <3>1, <3>2, HashTells
  <2>4. CASE t.type = SET_CODE
    <3>1. names = Named(SetCodeRlpTransactionPayload)
      BY <2>4, SignedNames, FieldNames DEF SetCodeNames, FeeMarketNames
    <3>2. /\ SigHash(t) = TypedHash(SET_CODE, SetCodeRlpTransactionPayload, t)
          /\ SigHash(o) = TypedHash(SET_CODE, SetCodeRlpTransactionPayload, o)
      BY <2>4 DEF SigHash, compute_set_code_sig_hash, LEGACY, ACCESS_LIST, FEE_MARKET, BLOB, SET_CODE
    <3> HIDE DEF names
    <3>3. QED BY <3>1, <3>2, HashTells
  <2>5. QED BY <2>1, <2>2, <2>3, <2>4 DEF Kinds, LEGACY, ACCESS_LIST, FEE_MARKET, BLOB, SET_CODE
<1>2. ASSUME Upgrade(o).data = Upgrade(t).data PROVE \A f \in names : t[f] = o[f]
  BY <1>2, RecoveredFromData
<1>3. ASSUME \A f \in names : t[f] = o[f] PROVE Upgrade(o).data = Upgrade(t).data
  <2>1. {"chain_id", "nonce", "gas", "to", "value", "data", "access_list"} \subseteq names
    BY FieldNames DEF Kinds, LEGACY, ACCESS_LIST, FEE_MARKET, BLOB, SET_CODE,
       AccessListNames, LegacyNames, FeeMarketNames, BlobNames, SetCodeNames
  <2>2. /\ t.chain_id = o.chain_id /\ t.nonce = o.nonce /\ t.gas = o.gas /\ t.to = o.to
        /\ t.value = o.value /\ t.data = o.data /\ t.access_list = o.access_list
    <3>1. /\ t["chain_id"] = o["chain_id"] /\ t["nonce"] = o["nonce"] /\ t["gas"] = o["gas"]
          /\ t["to"] = o["to"] /\ t["value"] = o["value"] /\ t["data"] = o["data"]
          /\ t["access_list"] = o["access_list"]
      BY <1>3, <2>1
    <3>2. QED BY <3>1
  <2>3. t.type # ACCESS_LIST => t.max_priority_fee_per_gas = o.max_priority_fee_per_gas
                              /\ t.max_fee_per_gas = o.max_fee_per_gas
    <3>1. t.type # ACCESS_LIST => {"max_priority_fee_per_gas", "max_fee_per_gas"} \subseteq names
      BY FieldNames DEF Kinds, LEGACY, ACCESS_LIST, FEE_MARKET, BLOB, SET_CODE,
         FeeMarketNames, BlobNames, SetCodeNames
    <3>2. t.type # ACCESS_LIST =>
            t["max_priority_fee_per_gas"] = o["max_priority_fee_per_gas"]
            /\ t["max_fee_per_gas"] = o["max_fee_per_gas"]
      BY <1>3, <3>1
    <3>3. QED BY <3>2
  <2>4. t.type = ACCESS_LIST => t.gas_price = o.gas_price
    <3>1. t.type = ACCESS_LIST => "gas_price" \in names
      BY FieldNames DEF AccessListNames, LegacyNames
    <3>2. t.type = ACCESS_LIST => t["gas_price"] = o["gas_price"]
      BY <1>3, <3>1
    <3>3. QED BY <3>2
  <2>5. t.type = BLOB => /\ t.max_fee_per_blob_gas = o.max_fee_per_blob_gas
                         /\ t.blob_versioned_hashes = o.blob_versioned_hashes
    <3>1. t.type = BLOB => {"max_fee_per_blob_gas", "blob_versioned_hashes"} \subseteq names
      BY FieldNames DEF BlobNames
    <3>2. t.type = BLOB => /\ t["max_fee_per_blob_gas"] = o["max_fee_per_blob_gas"]
                           /\ t["blob_versioned_hashes"] = o["blob_versioned_hashes"]
      BY <1>3, <3>1
    <3>3. QED BY <3>2
  <2>6. t.type = SET_CODE => t.authorization_list = o.authorization_list
    <3>1. t.type = SET_CODE => "authorization_list" \in names
      BY FieldNames DEF SetCodeNames
    <3>2. t.type = SET_CODE => t["authorization_list"] = o["authorization_list"]
      BY <1>3, <3>1
    <3>3. QED BY <3>2
  <2> HIDE DEF names
  <2>7. SelectorFor(o) = SelectorFor(t)
    BY <2>2 DEF Kinds, SelectorFor, LEGACY, ACCESS_LIST, FEE_MARKET, BLOB, SET_CODE
  <2>8. /\ MaxFees(o) = MaxFees(t)
        /\ t.type # ACCESS_LIST => MaxPriorityFees(o) = MaxPriorityFees(t)
    BY <2>3, <2>4, <2>5 DEF Kinds, MaxFees, MaxPriorityFees, LEGACY, ACCESS_LIST, FEE_MARKET, BLOB, SET_CODE
  <2>9. ChainId(o) = ChainId(t)
    BY <2>2 DEF ChainId
  <2>10. /\ TransactionPayload[SelectorFor(t)] \subseteq
              {"type_", "chain_id", "max_fees_per_gas", "input_", "nonce", "gas", "to", "value",
               "access_list", "max_priority_fees_per_gas", "blob_versioned_hashes",
               "authorization_list"}
         /\ "max_priority_fees_per_gas" \in TransactionPayload[SelectorFor(t)] => t.type # ACCESS_LIST
         /\ "blob_versioned_hashes" \in TransactionPayload[SelectorFor(t)] => t.type = BLOB
         /\ "authorization_list" \in TransactionPayload[SelectorFor(t)] => t.type = SET_CODE
    <3>1. /\ SelectorFor(t) \in 1 .. 10
          /\ SelectorFor(t) = 10 => t.type = SET_CODE
          /\ SelectorFor(t) = 9 => t.type = BLOB
          /\ SelectorFor(t) \in 7 .. 10 => t.type # ACCESS_LIST
      BY DEF Kinds, SelectorFor, LEGACY, ACCESS_LIST, FEE_MARKET, BLOB, SET_CODE
    <3>2. \A k \in 1 .. 10 :
            /\ TransactionPayload[k] \subseteq
                 {"type_", "chain_id", "max_fees_per_gas", "input_", "nonce", "gas", "to", "value",
                  "access_list", "max_priority_fees_per_gas", "blob_versioned_hashes",
                  "authorization_list"}
            /\ "max_priority_fees_per_gas" \in TransactionPayload[k] => k \in 7 .. 10
            /\ "blob_versioned_hashes" \in TransactionPayload[k] => k = 9
            /\ "authorization_list" \in TransactionPayload[k] => k = 10
      BY PayloadTable
    <3>3. QED BY <3>1, <3>2
  <2>11. ASSUME NEW f \in TransactionPayload[SelectorFor(t)]
         PROVE  UpgradeField(o, f) = UpgradeField(t, f)
    BY <2>2, <2>3, <2>5, <2>6, <2>8, <2>9, <2>10 DEF UpgradeField
  <2>12. QED BY <2>7, <2>11, SameData
<1>4. QED BY <1>1, <1>2, <1>3

\* The class that is hashed to sign a legacy transaction for a chain.
LEMMA LegacyClass ==
    /\ Named(LegacyRlpTransaction) = LegacyNames \cup {"v", "r", "s"}
    /\ DOMAIN LegacyRlpTransaction = 1 .. 9
    /\ DOMAIN LegacyRlpTransactionPayload = 1 .. 6
<1> DEFINE vrs == <<"v", "r", "s">>
<1>1. vrs \in Seq(Names) /\ Named(vrs) = {"v", "r", "s"} /\ Len(vrs) = 3
  BY DEF Named, Names
<1>2. /\ LegacyRlpTransactionPayload \in Seq(Names)
      /\ Len(LegacyRlpTransactionPayload) = 6
      /\ DOMAIN LegacyRlpTransactionPayload = 1 .. 6
  BY PayloadsAreSequences DEF LegacyRlpTransactionPayload
<1>3. LegacyRlpTransaction = LegacyRlpTransactionPayload \o vrs
  BY DEF LegacyRlpTransaction
<1> HIDE DEF vrs
<1>4. Named(LegacyRlpTransaction) = LegacyNames \cup {"v", "r", "s"}
  BY <1>1, <1>2, <1>3, NamedConcat, SignedNames
<1>5. ASSUME NEW p \in Seq(Names), NEW q \in Seq(Names), Len(p) = 6, Len(q) = 3
      PROVE  DOMAIN (p \o q) = 1 .. 9
  <2>1. p \o q \in Seq(Names) /\ Len(p \o q) = Len(p) + Len(q)
    BY ConcatProperties
  <2>2. Len(p \o q) = 9
    BY <1>5, <2>1
  <2>3. QED BY <2>1, <2>2
<1>6. DOMAIN LegacyRlpTransaction = 1 .. 9
  BY <1>1, <1>2, <1>3, <1>5
<1>7. QED BY <1>2, <1>4, <1>6

\* Hashes of encodings of different lengths differ.
LEMMA LengthTells ==
    ASSUME NEW prefix, NEW x, NEW y
    PROVE  TypedHash(prefix, LegacyRlpTransaction, x)
             # TypedHash(prefix, LegacyRlpTransactionPayload, y)
<1> DEFINE a == Encode(LegacyRlpTransaction, x)
           b == Encode(LegacyRlpTransactionPayload, y)
<1>1. DOMAIN a = 1 .. 9 /\ DOMAIN b = 1 .. 6
  BY LegacyClass DEF Encode
<1>2. TypedHash(prefix, LegacyRlpTransaction, x) = Keccak(<<prefix, a>>)
      /\ TypedHash(prefix, LegacyRlpTransactionPayload, y) = Keccak(<<prefix, b>>)
  BY DEF TypedHash
<1> HIDE DEF a, b
<1>3. 9 \in DOMAIN a /\ 9 \notin DOMAIN b
  BY <1>1
<1>4. a # b
  BY <1>3
<1>5. Keccak(<<prefix, a>>) = Keccak(<<prefix, b>>) => a = b
  BY DEF Keccak
<1>6. QED BY <1>2, <1>4, <1>5

\* Two legacy transactions have one signing hash when they have one payload:
\* for a replayable one that is no chain, for another the chain in its v.
LEMMA LegacySigned ==
    ASSUME NEW t, NEW o, t.type = LEGACY, o.type = LEGACY,
           RlpDecoded(t), RlpDecoded(o), CanUpgrade(t), CanUpgrade(o)
    PROVE  SigHash(t) = SigHash(o) <=> Upgrade(o).data = Upgrade(t).data
<1> DEFINE Same == \A f \in LegacyNames : t[f] = o[f]
           forChain(x) == [x EXCEPT !.v = ChainIdOf(x.v), !.r = 0, !.s = 0]
           Replayable(x) == x.v \in {27, 28}
<1>1. t.type \in Kinds
  BY DEF Kinds, LEGACY, SET_CODE
<1>2. LegacyNames \subseteq FieldsOf(LEGACY) \ {"type", "v", "r", "s", "y_parity"}
      /\ {"v", "r", "s"} \subseteq FieldsOf(LEGACY)
  BY FieldNames DEF LegacyNames
<1>3. ASSUME NEW x, x.type = LEGACY
      PROVE  SigHash(x) = IF Replayable(x)
                          THEN TypedHash(LEGACY, LegacyRlpTransactionPayload, x)
                          ELSE TypedHash(LEGACY, LegacyRlpTransaction, forChain(x))
  <2>1. SigHash(x) = compute_legacy_sig_hash(x)
    BY <1>3 DEF SigHash, LEGACY, ACCESS_LIST, FEE_MARKET, BLOB, SET_CODE
  <2>2. QED BY <2>1 DEF compute_legacy_sig_hash
<1>4. ASSUME NEW x, x.type = LEGACY, RlpDecoded(x)
      PROVE  /\ forChain(x).v = ChainIdOf(x.v) /\ forChain(x).r = 0 /\ forChain(x).s = 0
             /\ \A f \in LegacyNames : forChain(x)[f] = x[f]
  <2>1. x = [f \in FieldsOf(LEGACY) |-> x[f]]
    BY <1>4 DEF RlpDecoded, Fields
  <2>2. DOMAIN x = FieldsOf(LEGACY)
    BY <2>1
  <2>3. QED BY <1>2, <2>2 DEF LegacyNames
<1>5. SigHash(t) = SigHash(o)
        <=> /\ Replayable(t) <=> Replayable(o)
            /\ Same
            /\ ~Replayable(t) => ChainIdOf(t.v) = ChainIdOf(o.v)
  <2>1. CASE Replayable(t) /\ Replayable(o)
    <3>1. SigHash(t) = TypedHash(LEGACY, LegacyRlpTransactionPayload, t)
          /\ SigHash(o) = TypedHash(LEGACY, LegacyRlpTransactionPayload, o)
      BY <1>3, <2>1
    <3>2. SigHash(t) = SigHash(o) <=> Same
      BY <3>1, HashTells, SignedNames
    <3>3. QED BY <2>1, <3>2
  <2>2. CASE ~Replayable(t) /\ ~Replayable(o)
    <3> DEFINE a == forChain(t)
               b == forChain(o)
    <3>1. SigHash(t) = TypedHash(LEGACY, LegacyRlpTransaction, a)
          /\ SigHash(o) = TypedHash(LEGACY, LegacyRlpTransaction, b)
      BY <1>3, <2>2
    <3>2. /\ a.v = ChainIdOf(t.v) /\ a.r = 0 /\ a.s = 0
          /\ \A f \in LegacyNames : a[f] = t[f]
          /\ b.v = ChainIdOf(o.v) /\ b.r = 0 /\ b.s = 0
          /\ \A f \in LegacyNames : b[f] = o[f]
      BY <1>4
    <3> HIDE DEF a, b
    <3>3. (\A f \in LegacyNames \cup {"v", "r", "s"} : a[f] = b[f])
            <=> Same /\ ChainIdOf(t.v) = ChainIdOf(o.v)
      BY <3>2
    <3>4. SigHash(t) = SigHash(o) <=> \A f \in LegacyNames \cup {"v", "r", "s"} : a[f] = b[f]
      BY <3>1, HashTells, LegacyClass
    <3>5. QED BY <2>2, <3>3, <3>4
  <2>3. CASE Replayable(t) /\ ~Replayable(o)
    <3>1. SigHash(t) = TypedHash(LEGACY, LegacyRlpTransactionPayload, t)
          /\ SigHash(o) = TypedHash(LEGACY, LegacyRlpTransaction, forChain(o))
      BY <1>3, <2>3
    <3>2. TypedHash(LEGACY, LegacyRlpTransaction, forChain(o))
            # TypedHash(LEGACY, LegacyRlpTransactionPayload, t)
      BY LengthTells
    <3>3. QED BY <2>3, <3>1, <3>2
  <2>4. CASE ~Replayable(t) /\ Replayable(o)
    <3>1. SigHash(t) = TypedHash(LEGACY, LegacyRlpTransaction, forChain(t))
          /\ SigHash(o) = TypedHash(LEGACY, LegacyRlpTransactionPayload, o)
      BY <1>3, <2>4
    <3>2. TypedHash(LEGACY, LegacyRlpTransaction, forChain(t))
            # TypedHash(LEGACY, LegacyRlpTransactionPayload, o)
      BY LengthTells
    <3>3. QED BY <2>4, <3>1, <3>2
  <2>5. QED BY <2>1, <2>2, <2>3, <2>4
<1>6. ASSUME NEW x, x.type = LEGACY
      PROVE  SelectorFor(x) = IF Replayable(x) THEN (IF x.to = Empty THEN 2 ELSE 1)
                                               ELSE (IF x.to = Empty THEN 4 ELSE 3)
  BY <1>6 DEF SelectorFor, LEGACY, ACCESS_LIST, FEE_MARKET, BLOB, SET_CODE
<1>7. ASSUME NEW x, x.type = LEGACY, ~Replayable(x)
      PROVE  "chain_id" \in TransactionPayload[SelectorFor(x)]
             /\ Upgrade(x).data["chain_id"] = ChainIdOf(x.v)
  <2>1. x.type \in Kinds
    BY <1>7 DEF Kinds, LEGACY, SET_CODE
  <2>2. SelectorFor(x) \in 3 .. 4
    BY <1>6, <1>7
  <2>3. "chain_id" \in TransactionPayload[SelectorFor(x)]
    BY <2>2, PayloadFields DEF RlpLegacyBasicTransactionPayload, RlpLegacyCreateTransactionPayload
  <2>4. Upgrade(x).data["chain_id"] = UpgradeField(x, "chain_id")
    BY <2>1, <2>3, UpgradeParts
  <2>5. QED BY <1>7, <2>3, <2>4, UpgradeFields DEF ChainId
<1>8. ASSUME Upgrade(o).data = Upgrade(t).data
      PROVE  /\ Replayable(t) <=> Replayable(o)
             /\ Same
             /\ ~Replayable(t) => ChainIdOf(t.v) = ChainIdOf(o.v)
  <2>1. /\ \A f \in FieldsOf(LEGACY) \ {"type", "v", "r", "s", "y_parity"} : o[f] = t[f]
        /\ SelectorFor(o) = SelectorFor(t)
    BY <1>1, <1>8, RecoveredFromData
  <2>2. Same
    BY <1>2, <2>1
  <2>3. Replayable(t) <=> Replayable(o)
    <3>1. Replayable(t) <=> SelectorFor(t) \in {1, 2}
      BY <1>6
    <3>2. Replayable(o) <=> SelectorFor(o) \in {1, 2}
      BY <1>6
    <3>3. QED BY <2>1, <3>1, <3>2
  <2>4. ~Replayable(t) => ChainIdOf(t.v) = ChainIdOf(o.v)
    BY <1>7, <1>8, <2>3
  <2>5. QED BY <2>2, <2>3, <2>4
<1>9. ASSUME Replayable(t) <=> Replayable(o), Same,
             ~Replayable(t) => ChainIdOf(t.v) = ChainIdOf(o.v)
      PROVE  Upgrade(o).data = Upgrade(t).data
  <2>1. /\ t.nonce = o.nonce /\ t.gas_price = o.gas_price /\ t.gas = o.gas /\ t.to = o.to
        /\ t.value = o.value /\ t.data = o.data
    <3>1. /\ t["nonce"] = o["nonce"] /\ t["gas_price"] = o["gas_price"] /\ t["gas"] = o["gas"]
          /\ t["to"] = o["to"] /\ t["value"] = o["value"] /\ t["data"] = o["data"]
      BY <1>9 DEF LegacyNames
    <3>2. QED BY <3>1
  <2>2. SelectorFor(o) = SelectorFor(t) /\ SelectorFor(t) \in 1 .. 4
        /\ (SelectorFor(t) \in {3, 4} => ~Replayable(t))
    <3>1. SelectorFor(t) = IF Replayable(t) THEN (IF t.to = Empty THEN 2 ELSE 1)
                                            ELSE (IF t.to = Empty THEN 4 ELSE 3)
      BY <1>6
    <3>2. SelectorFor(o) = IF Replayable(o) THEN (IF o.to = Empty THEN 2 ELSE 1)
                                            ELSE (IF o.to = Empty THEN 4 ELSE 3)
      BY <1>6
    <3>3. QED BY <1>9, <2>1, <3>1, <3>2
  <2>3. MaxFees(o) = MaxFees(t)
    BY <2>1 DEF MaxFees, LEGACY, ACCESS_LIST, FEE_MARKET, BLOB, SET_CODE
  <2>4. ~Replayable(t) => ChainId(o) = ChainId(t)
    BY <1>9 DEF ChainId
  <2>5. \A k \in 1 .. 4 :
          /\ TransactionPayload[k] \subseteq
               {"type_", "chain_id", "max_fees_per_gas", "input_", "nonce", "gas", "to", "value"}
          /\ "chain_id" \in TransactionPayload[k] => k \in {3, 4}
    BY PayloadTable
  <2>6. ASSUME NEW f \in TransactionPayload[SelectorFor(t)]
        PROVE  UpgradeField(o, f) = UpgradeField(t, f)
    BY <2>1, <2>2, <2>3, <2>4, <2>5 DEF UpgradeField
  <2>7. QED BY <1>1, <2>2, <2>6, SameData
<1>10. QED BY <1>5, <1>8, <1>9

\* What is signed is exactly the payload: the signing hash of an upgraded
\* transaction is that of another one of its type when their payloads agree.
THEOREM SignedIsPayload == Spec => []SigHashIsOfPayload
<1>1. Inv => SigHashIsOfPayload
  <2> SUFFICES ASSUME Inv, Upgraded, NEW other \in Upgradeable, other.type = origin.type
               PROVE  compute_sig_hash(tx) = SigHash(other) <=> Upgrade(other).data = tx.data
    BY DEF SigHashIsOfPayload
  <2>1. /\ origin.type \in Kinds /\ RlpDecoded(origin) /\ CanUpgrade(origin)
        /\ tx = Upgrade(origin) /\ Recover(tx) = origin
    BY UpgradedFromOrigin
  <2>2. other \in RlpTransactionsIn /\ CanUpgrade(other)
    BY DEF Upgradeable
  <2>3. RlpDecoded(other)
    BY <2>2, Arrived
  <2>4. SigHash(origin) = SigHash(other) <=> Upgrade(other).data = Upgrade(origin).data
    <3>1. CASE origin.type = LEGACY
      BY <2>1, <2>2, <2>3, <3>1, LegacySigned
    <3>2. CASE origin.type # LEGACY
      BY <2>1, <2>2, <2>3, <3>2, TypedSigned
    <3>3. QED BY <3>1, <3>2
  <2>5. compute_sig_hash(tx) = SigHash(origin)
    BY <2>1 DEF compute_sig_hash
  <2>6. QED BY <2>1, <2>4, <2>5
<1>2. QED BY <1>1, ConversionInvariant, PTL

-----------------------------------------------------------------------------
(* Transactions that arrive as SSZ. *)

\* A number that is paired with a parity is told from it, and so is the parity.
LEMMA RecoveredV ==
    ASSUME NEW c \in Nat, NEW y \in {0, 1}
    PROVE  /\ ChainIdOf(y + 35 + 2 * c) = c
           /\ y + 35 + 2 * c \notin {27, 28}
           /\ (IF (y + 35 + 2 * c) % 2 = 0 THEN 1 ELSE 0) = y
           /\ y + 27 \in {27, 28}
           /\ (IF (y + 27) % 2 = 0 THEN 1 ELSE 0) = y
<1>1. CASE y = 0
  BY <1>1 DEF ChainIdOf
<1>2. CASE y = 1
  BY <1>2 DEF ChainIdOf
<1>3. QED BY <1>1, <1>2

\* A signature of the size that unpacking asserts is what packing gives back.
LEMMA Unpacked ==
    ASSUME NEW g, SszSignature(g), CanUnpack(g)
    PROVE  /\ secp256k1_pack(g.r, g.s, g.y_parity) = g
           /\ Fits(g.r, g.s, g.y_parity)
<1>1. g = [f \in {"alg", "r", "s", "y_parity", "extra"} |-> g[f]]
  BY DEF SszSignature, Fields
<1>2. g.alg = SECP256K1_ALGORITHM /\ g.extra = 0
  BY DEF SszSignature, CanUnpack, SignatureLength, SIZE
<1>3. secp256k1_pack(g.r, g.s, g.y_parity)
        = [alg |-> g.alg, r |-> g.r, s |-> g.s, y_parity |-> g.y_parity, extra |-> g.extra]
  BY <1>2 DEF secp256k1_pack
<1>4. g = [alg |-> g.alg, r |-> g.r, s |-> g.s, y_parity |-> g.y_parity, extra |-> g.extra]
  BY <1>1
<1>5. Fits(g.r, g.s, g.y_parity)
  BY RangeAssumption DEF SszSignature, Fits
<1>6. QED BY <1>3, <1>4, <1>5

\* A valid authorization is the only one its RLP form is upgraded to.
LEMMA AuthorizationKept ==
    ASSUME NEW w, SszAuthorization(w), ValidateAuthorization(w), CanUnpack(w.signature)
    PROVE  LET a == recover_set_code_rlp_authorization(w)
           IN  /\ upgrade_authorization(a) = w
               /\ a.nonce < U64 /\ a.chain_id < U256 /\ Fits(a.r, a.s, a.y_parity)
<1> DEFINE a == recover_set_code_rlp_authorization(w)
           selector == IF a.chain_id # 0 THEN 2 ELSE 1
           field(f) == IF f = "magic" THEN SET_CODE_MAGIC ELSE a[f]
<1>1. /\ a.chain_id = IF Has(w.data, "chain_id") THEN w.data["chain_id"] ELSE 0
      /\ a.address = w.data["address"] /\ a.nonce = w.data["nonce"]
      /\ a.y_parity = w.signature.y_parity /\ a.r = w.signature.r /\ a.s = w.signature.s
  BY DEF recover_set_code_rlp_authorization
<1>2. /\ w = [f \in {"selector", "data", "signature"} |-> w[f]]
      /\ w.selector \in 1 .. 2
      /\ w.data = [f \in RlpSetCodeAuthorizationPayload[w.selector] |-> w.data[f]]
      /\ SszData(w.data) /\ SszSignature(w.signature)
  BY DEF SszAuthorization, Fields
<1>3. /\ RlpSetCodeAuthorizationPayload[1] = {"magic", "address", "nonce"}
      /\ RlpSetCodeAuthorizationPayload[2] = {"magic", "address", "nonce", "chain_id"}
  BY DEF RlpSetCodeAuthorizationPayload, RlpReplayableBasicAuthorizationPayload,
         RlpBasicAuthorizationPayload
<1>4. DOMAIN w.data = RlpSetCodeAuthorizationPayload[w.selector]
  BY <1>2
<1>5. /\ Has(w.data, "chain_id") <=> w.selector = 2
      /\ Has(w.data, "nonce")
  BY <1>2, <1>3, <1>4 DEF Has
<1>6. w.data["magic"] = SET_CODE_MAGIC /\ (Has(w.data, "chain_id") => w.data["chain_id"] # 0)
  BY DEF ValidateAuthorization
<1>7. secp256k1_pack(w.signature.r, w.signature.s, w.signature.y_parity) = w.signature
      /\ Fits(w.signature.r, w.signature.s, w.signature.y_parity)
  BY <1>2, Unpacked
<1>8. upgrade_authorization(a)
        = [selector |-> selector,
           data |-> [f \in RlpSetCodeAuthorizationPayload[selector] |-> field(f)],
           signature |-> secp256k1_pack(a.r, a.s, a.y_parity)]
  BY DEF upgrade_authorization
<1>9. /\ w.data["nonce"] < U64
      /\ Has(w.data, "chain_id") => w.data["chain_id"] < U256
  BY <1>2, <1>5, RangeAssumption DEF SszData, Has
<1>10. Has(w.data, "chain_id") \/ U256 > 0
  BY <1>2, RangeAssumption DEF SszSignature
<1> HIDE DEF a
<1>11. selector = w.selector
  BY <1>1, <1>2, <1>5, <1>6
<1>12. \A f \in RlpSetCodeAuthorizationPayload[w.selector] : field(f) = w.data[f]
  <2>1. /\ a["address"] = w.data["address"] /\ a["nonce"] = w.data["nonce"]
        /\ Has(w.data, "chain_id") => a["chain_id"] = w.data["chain_id"]
    BY <1>1
  <2>2. ASSUME NEW f \in RlpSetCodeAuthorizationPayload[w.selector] PROVE field(f) = w.data[f]
    BY <1>2, <1>3, <1>5, <1>6, <2>1
  <2>3. QED BY <2>2
<1> HIDE DEF selector, field
<1>13. [f \in RlpSetCodeAuthorizationPayload[selector] |-> field(f)] = w.data
  BY <1>2, <1>11, <1>12
<1>14. secp256k1_pack(a.r, a.s, a.y_parity) = w.signature
  BY <1>1, <1>7
<1>15. w = [selector |-> w.selector, data |-> w.data, signature |-> w.signature]
  BY <1>2
<1>16. upgrade_authorization(a) = w
  BY <1>8, <1>11, <1>13, <1>14, <1>15
<1>17. a.nonce < U64 /\ a.chain_id < U256 /\ Fits(a.r, a.s, a.y_parity)
  BY <1>1, <1>7, <1>9, <1>10
<1>18. QED BY <1>16, <1>17 DEF a

\* A valid transaction claims the type of its payload class.
LEMMA ClaimedType ==
    ASSUME NEW w, SszDecoded(w), validate_transaction(w)
    PROVE  /\ TypeFor(w) \in Kinds /\ w.selector \in Selectors(TypeFor(w))
           /\ w.data["type_"] = TypeFor(w)
<1>1. w.selector \in Selectors(w.data["type_"])
  BY DEF validate_transaction
<1>2. w.data["type_"] \in Kinds
  BY <1>1 DEF Selectors, Kinds, LEGACY, ACCESS_LIST, FEE_MARKET, BLOB, SET_CODE
<1>3. TypeFor(w) = w.data["type_"]
  BY <1>1, <1>2, TypeOfSelector
<1>4. QED BY <1>1, <1>2, <1>3

\* Which classes are of which type.
LEMMA SelectorTable ==
    ASSUME NEW type \in Kinds, NEW k \in Selectors(type)
    PROVE  /\ k \in 1 .. 10
           /\ type = LEGACY <=> k \in 1 .. 4
           /\ type = ACCESS_LIST <=> k \in 5 .. 6
           /\ type = FEE_MARKET <=> k \in 7 .. 8
           /\ type = BLOB <=> k = 9
           /\ type = SET_CODE <=> k = 10
BY DEF Kinds, Selectors, LEGACY, ACCESS_LIST, FEE_MARKET, BLOB, SET_CODE

\* The RLP fields recovered from a transaction, by name.
LEMMA RecoveredFields ==
    ASSUME NEW w, SszDecoded(w), validate_transaction(w)
    PROVE  LET t == Recover(w)
           IN  /\ DOMAIN t = FieldsOf(TypeFor(w))
               /\ t.type = TypeFor(w)
               /\ t.nonce = w.data["nonce"] /\ t.gas = w.data["gas"] /\ t.value = w.data["value"]
               /\ t.data = w.data["input_"]
               /\ t.to = IF Has(w.data, "to") THEN w.data["to"] ELSE Empty
               /\ t.r = w.signature.r /\ t.s = w.signature.s
               /\ t.type = LEGACY => t.v = RecoverV(w)
               /\ t.type # LEGACY => /\ t.y_parity = w.signature.y_parity
                                     /\ t.chain_id = w.data["chain_id"]
                                     /\ t.access_list = w.data["access_list"]
               /\ t.type \in {LEGACY, ACCESS_LIST} =>
                    t.gas_price = w.data["max_fees_per_gas"].regular
               /\ t.type \in {FEE_MARKET, BLOB, SET_CODE} =>
                    /\ t.max_fee_per_gas = w.data["max_fees_per_gas"].regular
                    /\ t.max_priority_fee_per_gas = w.data["max_priority_fees_per_gas"].regular
               /\ t.type = BLOB =>
                    /\ t.max_fee_per_blob_gas = w.data["max_fees_per_gas"].blob
                    /\ t.blob_versioned_hashes = w.data["blob_versioned_hashes"]
               /\ t.type = SET_CODE =>
                    t.authorization_list
                      = [i \in DOMAIN w.data["authorization_list"] |->
                           recover_set_code_rlp_authorization(w.data["authorization_list"][i])]
<1> DEFINE t == Recover(w)
           type == TypeFor(w)
<1>1. type \in Kinds
  BY ClaimedType
<1>2. DOMAIN t = FieldsOf(type) /\ \A f \in FieldsOf(type) : t[f] = RecoverField(w, f)
  BY DEF Recover
<1>3. /\ {"type", "nonce", "gas", "value", "data", "to", "r", "s"} \subseteq FieldsOf(type)
      /\ type = LEGACY => "v" \in FieldsOf(type)
      /\ type # LEGACY => {"y_parity", "chain_id", "access_list"} \subseteq FieldsOf(type)
      /\ type \in {LEGACY, ACCESS_LIST} => "gas_price" \in FieldsOf(type)
      /\ type \in {FEE_MARKET, BLOB, SET_CODE} =>
           {"max_fee_per_gas", "max_priority_fee_per_gas"} \subseteq FieldsOf(type)
      /\ type = BLOB => {"max_fee_per_blob_gas", "blob_versioned_hashes"} \subseteq FieldsOf(type)
      /\ type = SET_CODE => "authorization_list" \in FieldsOf(type)
  BY <1>1, FieldNames
  DEF Kinds, LEGACY, ACCESS_LIST, FEE_MARKET, BLOB, SET_CODE,
      LegacyNames, AccessListNames, FeeMarketNames, BlobNames, SetCodeNames
<1>4. /\ RecoverField(w, "gas_price") = w.data["max_fees_per_gas"].regular
      /\ RecoverField(w, "max_fee_per_gas") = w.data["max_fees_per_gas"].regular
      /\ RecoverField(w, "max_fee_per_blob_gas") = w.data["max_fees_per_gas"].blob
      /\ RecoverField(w, "max_priority_fee_per_gas") = w.data["max_priority_fees_per_gas"].regular
      /\ RecoverField(w, "to") = IF Has(w.data, "to") THEN w.data["to"] ELSE Empty
      /\ RecoverField(w, "data") = w.data["input_"]
      /\ RecoverField(w, "v") = RecoverV(w)
      /\ \A f \in {"r", "s", "y_parity"} : RecoverField(w, f) = w.signature[f]
      /\ RecoverField(w, "type") = type
      /\ RecoverField(w, "authorization_list")
           = [i \in DOMAIN w.data["authorization_list"] |->
                recover_set_code_rlp_authorization(w.data["authorization_list"][i])]
      /\ \A f \in {"chain_id", "nonce", "gas", "value", "access_list", "blob_versioned_hashes"} :
            RecoverField(w, f) = w.data[f]
  BY RecoverFields
<1> HIDE DEF t, type
<1>5. t.type = type
  BY <1>2, <1>3, <1>4
<1>6. /\ t.nonce = w.data["nonce"] /\ t.gas = w.data["gas"] /\ t.value = w.data["value"]
      /\ t.data = w.data["input_"]
      /\ t.to = IF Has(w.data, "to") THEN w.data["to"] ELSE Empty
      /\ t.r = w.signature.r /\ t.s = w.signature.s
      /\ type = LEGACY => t.v = RecoverV(w)
  BY <1>2, <1>3, <1>4
<1>7. /\ type # LEGACY => /\ t.y_parity = w.signature.y_parity
                          /\ t.chain_id = w.data["chain_id"]
                          /\ t.access_list = w.data["access_list"]
      /\ type \in {LEGACY, ACCESS_LIST} => t.gas_price = w.data["max_fees_per_gas"].regular
      /\ type \in {FEE_MARKET, BLOB, SET_CODE} =>
           /\ t.max_fee_per_gas = w.data["max_fees_per_gas"].regular
           /\ t.max_priority_fee_per_gas = w.data["max_priority_fees_per_gas"].regular
  BY <1>2, <1>3, <1>4
<1>8. /\ type = BLOB =>
           /\ t.max_fee_per_blob_gas = w.data["max_fees_per_gas"].blob
           /\ t.blob_versioned_hashes = w.data["blob_versioned_hashes"]
      /\ type = SET_CODE =>
           t.authorization_list
             = [i \in DOMAIN w.data["authorization_list"] |->
                  recover_set_code_rlp_authorization(w.data["authorization_list"][i])]
  BY <1>2, <1>3, <1>4
<1>9. QED BY <1>2, <1>5, <1>6, <1>7, <1>8 DEF t, type

\* A valid transaction is recovered to one that is upgraded to the class it has.
LEMMA ClassKept ==
    ASSUME NEW w, SszDecoded(w), validate_transaction(w)
    PROVE  LET t == Recover(w)
           IN  /\ SelectorFor(t) = w.selector
               /\ YParity(t) = w.signature.y_parity
               /\ Has(w.data, "chain_id") => ChainId(t) = w.data["chain_id"]
<1> DEFINE t == Recover(w)
           y == w.signature.y_parity
           c == w.data["chain_id"]
<1>1. /\ t.type = TypeFor(w) /\ t.type \in Kinds /\ w.selector \in Selectors(t.type)
      /\ t.to = IF Has(w.data, "to") THEN w.data["to"] ELSE Empty
      /\ t.type = LEGACY => t.v = RecoverV(w)
      /\ t.type # LEGACY => t.y_parity = y /\ t.chain_id = c
  BY ClaimedType, RecoveredFields
<1>2. /\ w.selector \in 1 .. 10
      /\ t.type = LEGACY <=> w.selector \in 1 .. 4
      /\ t.type = ACCESS_LIST <=> w.selector \in 5 .. 6
      /\ t.type = FEE_MARKET <=> w.selector \in 7 .. 8
      /\ t.type = BLOB <=> w.selector = 9
      /\ t.type = SET_CODE <=> w.selector = 10
  BY <1>1, SelectorTable
<1>3. DOMAIN w.data = TransactionPayload[w.selector]
  BY DEF SszDecoded, Fields
<1>4. /\ Has(w.data, "to") <=> w.selector \in {1, 3, 5, 7, 9, 10}
      /\ Has(w.data, "chain_id") <=> w.selector \notin {1, 2}
  BY <1>2, <1>3, PayloadTable DEF Has
<1>5. /\ Has(w.data, "to") => w.data["to"] # Empty
      /\ Has(w.data, "chain_id") => c \in Nat
  BY RangeAssumption DEF SszDecoded, SszData, Has
<1>6. y \in {0, 1}
  BY DEF validate_transaction, validate_execution_signature, validate_signature, secp256k1_validate
<1>7. /\ Has(w.data, "chain_id") => RecoverV(w) = y + 35 + 2 * c
      /\ ~Has(w.data, "chain_id") => RecoverV(w) = y + 27
  BY DEF RecoverV
<1> HIDE DEF t, y, c
<1>8. t.type = LEGACY =>
        /\ YParity(t) = y
        /\ Has(w.data, "chain_id") => ChainId(t) = c
        /\ t.v \in {27, 28} <=> w.selector \in {1, 2}
  <2>1. CASE t.type = LEGACY /\ Has(w.data, "chain_id")
    <3>1. /\ ChainIdOf(y + 35 + 2 * c) = c
          /\ y + 35 + 2 * c \notin {27, 28}
          /\ (IF (y + 35 + 2 * c) % 2 = 0 THEN 1 ELSE 0) = y
      BY <1>5, <1>6, <2>1, RecoveredV
    <3>2. t.v = y + 35 + 2 * c
      BY <1>1, <1>7, <2>1
    <3>3. ChainId(t) = ChainIdOf(t.v) /\ YParity(t) = (IF t.v % 2 = 0 THEN 1 ELSE 0)
      BY <2>1 DEF ChainId, YParity
    <3>4. QED BY <1>2, <1>4, <2>1, <3>1, <3>2, <3>3
  <2>2. CASE t.type = LEGACY /\ ~Has(w.data, "chain_id")
    <3>1. y + 27 \in {27, 28} /\ (IF (y + 27) % 2 = 0 THEN 1 ELSE 0) = y
      BY <1>6, RecoveredV
    <3>2. t.v = y + 27
      BY <1>1, <1>7, <2>2
    <3>3. YParity(t) = (IF t.v % 2 = 0 THEN 1 ELSE 0)
      BY <2>2 DEF YParity
    <3>4. QED BY <1>2, <1>4, <2>2, <3>1, <3>2, <3>3
  <2>3. QED BY <2>1, <2>2
<1>9. t.type # LEGACY => YParity(t) = y /\ ChainId(t) = c
  BY <1>1 DEF YParity, ChainId
<1>10. t.to = Empty <=> w.selector \notin {1, 3, 5, 7, 9, 10}
  BY <1>1, <1>4, <1>5
<1>11. SelectorFor(t) = w.selector
  BY <1>1, <1>2, <1>8, <1>10
  DEF Kinds, SelectorFor, LEGACY, ACCESS_LIST, FEE_MARKET, BLOB, SET_CODE
<1>12. QED BY <1>8, <1>9, <1>11 DEF t, y, c

\* A valid transaction whose signatures unpack is the upgrade of the RLP
\* transaction that is recovered from it.
LEMMA WireKept ==
    ASSUME NEW w, SszDecoded(w), validate_transaction(w), CanRecover(w)
    PROVE  /\ CanUpgrade(Recover(w))
           /\ AsDeclared(Upgrade(Recover(w))) = AsDeclared(w)
           /\ w.selector \notin Selectors(BLOB) => Upgrade(Recover(w)) = w
<1> DEFINE t == Recover(w)
           list == w.data["authorization_list"]
           fees == w.data["max_fees_per_gas"]
           priority == w.data["max_priority_fees_per_gas"]
           payload == TransactionPayload[w.selector]
<1>1. /\ t.type = TypeFor(w) /\ t.type \in Kinds /\ w.selector \in Selectors(t.type)
      /\ w.data["type_"] = t.type
  BY ClaimedType, RecoveredFields
<1>2. /\ w.selector \in 1 .. 10
      /\ t.type = LEGACY <=> w.selector \in 1 .. 4
      /\ t.type = ACCESS_LIST <=> w.selector \in 5 .. 6
      /\ t.type = FEE_MARKET <=> w.selector \in 7 .. 8
      /\ t.type = BLOB <=> w.selector = 9
      /\ t.type = SET_CODE <=> w.selector = 10
  BY <1>1, SelectorTable
<1>3. /\ DOMAIN t = FieldsOf(t.type)
      /\ t.nonce = w.data["nonce"] /\ t.gas = w.data["gas"] /\ t.value = w.data["value"]
      /\ t.data = w.data["input_"]
      /\ t.to = IF Has(w.data, "to") THEN w.data["to"] ELSE Empty
      /\ t.r = w.signature.r /\ t.s = w.signature.s
      /\ t.type # LEGACY => t.access_list = w.data["access_list"]
      /\ t.type \in {LEGACY, ACCESS_LIST} => t.gas_price = fees.regular
      /\ t.type \in {FEE_MARKET, BLOB, SET_CODE} =>
           /\ t.max_fee_per_gas = fees.regular
           /\ t.max_priority_fee_per_gas = priority.regular
      /\ t.type = BLOB =>
           /\ t.max_fee_per_blob_gas = fees.blob
           /\ t.blob_versioned_hashes = w.data["blob_versioned_hashes"]
      /\ t.type = SET_CODE =>
           t.authorization_list
             = [i \in DOMAIN list |-> recover_set_code_rlp_authorization(list[i])]
  BY <1>1, RecoveredFields
<1>4. /\ SelectorFor(t) = w.selector
      /\ YParity(t) = w.signature.y_parity
      /\ Has(w.data, "chain_id") => ChainId(t) = w.data["chain_id"]
  BY ClassKept
<1>5. /\ w = [f \in {"selector", "data", "signature"} |-> w[f]]
      /\ w.data = [f \in payload |-> w.data[f]]
      /\ SszData(w.data) /\ SszSignature(w.signature)
      /\ SszFees(fees, IF w.selector = 9 THEN {"regular", "blob"} ELSE {"regular"})
      /\ Has(w.data, "max_priority_fees_per_gas") => SszFees(priority, {"regular"})
      /\ Has(w.data, "to") => w.data["to"] # Empty
      /\ Has(w.data, "authorization_list") =>
           List(list) /\ \A i \in DOMAIN list : SszAuthorization(list[i])
  BY DEF SszDecoded, Fields
<1>6. DOMAIN w.data = payload
  BY <1>5
<1>7. /\ {"type_", "nonce", "max_fees_per_gas", "gas", "value", "input_"} \subseteq payload
      /\ payload \subseteq
           {"type_", "chain_id", "max_fees_per_gas", "input_", "nonce", "gas", "to", "value",
            "access_list", "max_priority_fees_per_gas", "blob_versioned_hashes",
            "authorization_list"}
      /\ "to" \in payload <=> w.selector \in {1, 3, 5, 7, 9, 10}
      /\ "access_list" \in payload <=> w.selector \in 5 .. 10
      /\ "max_priority_fees_per_gas" \in payload <=> w.selector \in 7 .. 10
      /\ "blob_versioned_hashes" \in payload <=> w.selector = 9
      /\ "authorization_list" \in payload <=> w.selector = 10
  BY <1>2, PayloadTable
<1>8. /\ secp256k1_pack(t.r, t.s, YParity(t)) = w.signature
      /\ Fits(t.r, t.s, YParity(t))
  <2>1. CanUnpack(w.signature)
    BY DEF CanRecover
  <2>2. /\ secp256k1_pack(w.signature.r, w.signature.s, w.signature.y_parity) = w.signature
        /\ Fits(w.signature.r, w.signature.s, w.signature.y_parity)
    BY <1>5, <2>1, Unpacked
  <2>3. QED BY <1>3, <1>4, <2>2
<1>9. ASSUME t.type = SET_CODE, NEW i \in DOMAIN list
      PROVE  LET a == recover_set_code_rlp_authorization(list[i])
             IN  /\ upgrade_authorization(a) = list[i]
                 /\ a.nonce < U64 /\ a.chain_id < U256 /\ Fits(a.r, a.s, a.y_parity)
  <2>1. Has(w.data, "authorization_list")
    BY <1>2, <1>6, <1>7, <1>9 DEF Has
  <2>2. SszAuthorization(list[i]) /\ ValidateAuthorization(list[i]) /\ CanUnpack(list[i].signature)
    BY <1>5, <1>9, <2>1 DEF validate_transaction, CanRecover
  <2>3. QED BY <2>2, AuthorizationKept
<1>10. t.type = SET_CODE =>
         /\ DOMAIN t.authorization_list = DOMAIN list
         /\ \A i \in DOMAIN list :
              t.authorization_list[i] = recover_set_code_rlp_authorization(list[i])
  BY <1>3
<1>11. t.type = SET_CODE =>
         [i \in DOMAIN t.authorization_list |-> upgrade_authorization(t.authorization_list[i])]
           = list
  <2>1. SUFFICES ASSUME t.type = SET_CODE
                 PROVE  [i \in DOMAIN t.authorization_list |->
                           upgrade_authorization(t.authorization_list[i])] = list
    OBVIOUS
  <2>2. \A i \in DOMAIN list : upgrade_authorization(t.authorization_list[i]) = list[i]
    BY <1>9, <1>10, <2>1
  <2>3. list = [i \in DOMAIN list |-> list[i]]
    BY <1>2, <1>5, <1>6, <1>7, <2>1 DEF Has, List
  <2> HIDE DEF list, t
  <2>4. QED BY <1>10, <2>1, <2>2, <2>3
<1>12. MaxFees(t) = fees
  <2>1. CASE t.type = BLOB
    <3>1. fees = [f \in {"regular", "blob"} |-> fees[f]]
      BY <1>2, <1>5, <2>1 DEF SszFees, Fields
    <3>2. MaxFees(t) = [regular |-> fees.regular, blob |-> fees.blob]
      BY <1>3, <2>1 DEF MaxFees, LEGACY, ACCESS_LIST, FEE_MARKET, BLOB, SET_CODE
    <3> HIDE DEF fees
    <3>3. QED BY <3>1, <3>2
  <2>2. CASE t.type # BLOB
    <3>1. fees = [f \in {"regular"} |-> fees[f]]
      BY <1>2, <1>5, <2>2 DEF SszFees, Fields
    <3>2. MaxFees(t) = [regular |-> fees.regular]
      BY <1>1, <1>3, <2>2 DEF Kinds, MaxFees, LEGACY, ACCESS_LIST, FEE_MARKET, BLOB, SET_CODE
    <3> HIDE DEF fees
    <3>3. QED BY <3>1, <3>2
  <2>3. QED BY <2>1, <2>2
<1>13. /\ MaxPriorityFees(t).regular = t.max_priority_fee_per_gas
       /\ w.selector \in 7 .. 10 => priority.regular = t.max_priority_fee_per_gas
       /\ w.selector \in 7 .. 10 /\ w.selector # 9 => MaxPriorityFees(t) = priority
  <2>1. MaxPriorityFees(t).regular = t.max_priority_fee_per_gas
    BY UpgradeFields
  <2>2. w.selector \in 7 .. 10 => t.max_priority_fee_per_gas = priority.regular
    BY <1>2, <1>3
  <2>3. w.selector \in 7 .. 10 => priority = [f \in {"regular"} |-> priority[f]]
    BY <1>5, <1>6, <1>7 DEF SszFees, Fields, Has
  <2>4. w.selector # 9 => MaxPriorityFees(t) = [regular |-> t.max_priority_fee_per_gas]
    BY <1>2 DEF MaxPriorityFees
  <2> HIDE DEF priority, t
  <2>5. QED BY <2>1, <2>2, <2>3, <2>4
<1>14. ASSUME NEW f \in payload
       PROVE  /\ f # "max_priority_fees_per_gas" \/ w.selector # 9 => UpgradeField(t, f) = w.data[f]
              /\ f = "max_priority_fees_per_gas" => UpgradeField(t, f).regular = w.data[f].regular
  <2>1. /\ UpgradeField(t, "type_") = t.type
        /\ UpgradeField(t, "chain_id") = ChainId(t)
        /\ UpgradeField(t, "max_fees_per_gas") = MaxFees(t)
        /\ UpgradeField(t, "max_priority_fees_per_gas") = MaxPriorityFees(t)
        /\ UpgradeField(t, "input_") = t.data
        /\ UpgradeField(t, "authorization_list")
             = [i \in DOMAIN t.authorization_list |->
                  upgrade_authorization(t.authorization_list[i])]
        /\ UpgradeField(t, "nonce") = t.nonce /\ UpgradeField(t, "gas") = t.gas
        /\ UpgradeField(t, "to") = t.to /\ UpgradeField(t, "value") = t.value
        /\ UpgradeField(t, "access_list") = t.access_list
        /\ UpgradeField(t, "blob_versioned_hashes") = t.blob_versioned_hashes
    BY UpgradeFields DEF Copied
  <2> HIDE DEF t, list, fees, priority, payload
  <2>2. CASE f \in {"type_", "nonce", "gas", "value", "input_"}
    BY <1>1, <1>3, <2>1, <2>2
  <2>3. CASE f \in {"chain_id", "to"}
    <3>1. Has(w.data, f)
      BY <1>6 DEF Has
    <3>2. QED BY <1>3, <1>4, <2>1, <2>3, <3>1
  <2>4. CASE f \in {"max_fees_per_gas", "max_priority_fees_per_gas"}
    BY <1>7, <1>12, <1>13, <2>1, <2>4 DEF fees, priority
  <2>5. CASE f \in {"access_list", "blob_versioned_hashes"}
    <3>1. f = "access_list" => t.type # LEGACY
      BY <1>2, <1>7
    <3>2. f = "blob_versioned_hashes" => t.type = BLOB
      BY <1>2, <1>7
    <3>3. QED BY <1>3, <2>1, <2>5, <3>1, <3>2
  <2>6. CASE f = "authorization_list"
    <3>1. t.type = SET_CODE
      BY <1>2, <1>7, <2>6
    <3>2. QED BY <1>11, <2>1, <2>6, <3>1 DEF list
  <2>7. QED BY <1>7, <2>2, <2>3, <2>4, <2>5, <2>6
<1>15. /\ w.selector # 9 => Upgrade(t) = w
       /\ AsDeclared(Upgrade(t)) = AsDeclared(w)
  <2> DEFINE u == Upgrade(t)
             cut(data) == [f \in DOMAIN data |->
                             IF f = "max_priority_fees_per_gas" THEN [regular |-> data[f].regular]
                                                                ELSE data[f]]
  <2>1. u = [selector |-> w.selector,
             data |-> [f \in payload |-> UpgradeField(t, f)],
             signature |-> w.signature]
    BY <1>4, <1>8 DEF Upgrade
  <2>2. w = [selector |-> w.selector, data |-> w.data, signature |-> w.signature]
    BY <1>5
  <2>3. AsDeclared(u) = [selector |-> w.selector, data |-> cut(u.data), signature |-> w.signature]
    BY <2>1 DEF AsDeclared
  <2>4. AsDeclared(w) = [selector |-> w.selector, data |-> cut(w.data), signature |-> w.signature]
    BY <2>2 DEF AsDeclared
  <2>5. DOMAIN u.data = payload /\ \A f \in payload : u.data[f] = UpgradeField(t, f)
    BY <2>1
  <2> HIDE DEF t, u, payload
  <2>6. cut(u.data) = cut(w.data)
    <3>1. ASSUME NEW f \in payload
          PROVE  (IF f = "max_priority_fees_per_gas" THEN [regular |-> u.data[f].regular]
                                                     ELSE u.data[f])
                   = (IF f = "max_priority_fees_per_gas" THEN [regular |-> w.data[f].regular]
                                                         ELSE w.data[f])
      BY <1>14, <2>5
    <3>2. QED BY <1>6, <2>5, <3>1
  <2>7. w.selector # 9 => [f \in payload |-> UpgradeField(t, f)] = w.data
    BY <1>5, <1>14
  <2>8. QED BY <2>1, <2>2, <2>3, <2>4, <2>6, <2>7 DEF u
<1>16. CanUpgrade(t)
  <2>1. t.type \in {BLOB, SET_CODE} => t.to # Empty
    BY <1>2, <1>3, <1>5, <1>6, <1>7 DEF Has
  <2>2. t.nonce < U64 /\ t.gas < U64 /\ t.value < U256
    <3>1. w.data["nonce"] \in 0 .. U64 - 1 /\ w.data["gas"] \in 0 .. U64 - 1
          /\ w.data["value"] \in 0 .. U256 - 1
      BY <1>5, <1>6, <1>7 DEF SszData
    <3>2. QED BY <1>3, <3>1, RangeAssumption
  <2>3. ASSUME NEW f \in FeeFields \cap DOMAIN t PROVE t[f] < U256
    <3>1. fees["regular"] \in 0 .. U256 - 1
      BY <1>5 DEF SszFees
    <3>2. w.selector = 9 => fees["blob"] \in 0 .. U256 - 1
      BY <1>5 DEF SszFees
    <3>3. w.selector \in 7 .. 10 => priority["regular"] \in 0 .. U256 - 1
      BY <1>5, <1>6, <1>7 DEF SszFees, Has
    <3>4. /\ f = "gas_price" => t.type \in {LEGACY, ACCESS_LIST}
          /\ f \in {"max_fee_per_gas", "max_priority_fee_per_gas"} =>
               t.type \in {FEE_MARKET, BLOB, SET_CODE}
          /\ f = "max_fee_per_blob_gas" => t.type = BLOB
      BY <1>1, <1>3, FieldNames
      DEF Kinds, LEGACY, ACCESS_LIST, FEE_MARKET, BLOB, SET_CODE, FeeFields,
          LegacyNames, AccessListNames, FeeMarketNames, BlobNames, SetCodeNames
    <3>5. f \in FeeFields
      OBVIOUS
    <3> HIDE DEF t, fees, priority
    <3>6. t.type \in {FEE_MARKET, BLOB, SET_CODE} => w.selector \in 7 .. 10
      BY <1>2
    <3>7. CASE f = "gas_price"
      BY <1>3, <3>1, <3>4, <3>7, RangeAssumption
    <3>8. CASE f = "max_fee_per_gas"
      BY <1>3, <3>1, <3>4, <3>8, RangeAssumption
    <3>9. CASE f = "max_priority_fee_per_gas"
      BY <1>3, <3>3, <3>4, <3>6, <3>9, RangeAssumption
    <3>10. CASE f = "max_fee_per_blob_gas"
      BY <1>2, <1>3, <3>2, <3>4, <3>10, RangeAssumption
    <3>11. QED BY <3>5, <3>7, <3>8, <3>9, <3>10 DEF FeeFields
  <2>4. "chain_id" \in TransactionPayload[SelectorFor(t)] => ChainId(t) \in 0 .. U256 - 1
    BY <1>4, <1>5, <1>6 DEF SszData, Has
  <2>5. t.type = SET_CODE =>
          \A i \in DOMAIN t.authorization_list :
            LET auth == t.authorization_list[i]
            IN auth.nonce < U64 /\ auth.chain_id < U256 /\ Fits(auth.r, auth.s, auth.y_parity)
    BY <1>9, <1>10
  <2> HIDE DEF t
  <2>6. QED BY <1>8, <2>1, <2>2, <2>3, <2>4, <2>5 DEF CanUpgrade
<1>17. w.selector \notin Selectors(BLOB) => w.selector # 9
  BY DEF Selectors, LEGACY, ACCESS_LIST, FEE_MARKET, BLOB, SET_CODE
<1>18. QED BY <1>15, <1>16, <1>17 DEF t

\* An accepted transaction whose signatures unpack is the only SSZ form of its RLP
\* transaction: what is recovered from it is upgraded to it, as its classes read it.
THEOREM SszFormIsUnique == Spec => []OneSszForm
<1>1. Inv => OneSszForm
  <2> SUFFICES ASSUME Inv, phase = "valid", CanRecover(tx)
               PROVE  /\ CanUpgrade(Recover(tx))
                      /\ AsDeclared(Upgrade(Recover(tx))) = AsDeclared(tx)
                      /\ tx.selector \notin Selectors(BLOB) => Upgrade(Recover(tx)) = tx
    BY DEF OneSszForm
  <2>1. validate_transaction(tx)
    BY DEF Inv, Decided
  <2>2. CASE tx \in Wire
    <3>1. SszDecoded(tx)
      BY <2>2, TransactionAssumption DEF TransactionAssumption
    <3>2. QED BY <2>1, <3>1, WireKept
  <2>3. CASE origin \in Upgradeable /\ tx = Upgrade(origin)
    <3>1. origin \in RlpTransactionsIn /\ CanUpgrade(origin)
      BY <2>3 DEF Upgradeable
    <3>2. Recover(tx) = origin
      BY <2>3, <3>1, Arrived, UpgradeRecovered
    <3>3. QED BY <2>3, <3>1, <3>2
  <2>4. QED BY <2>2, <2>3 DEF Inv, InHand
<1>2. QED BY <1>1, ConversionInvariant, PTL

-----------------------------------------------------------------------------
(* The precompile of EIP-7932: what it charges, and that the signature behind *)
(* an address it returns has no second form.                                  *)

Decoded == input.length >= 1 /\ input.alg \in algorithm_registry /\ input.length > SIZE

Signer(i) == pubkey_to_address(PublicKey(i, DigestOf(i)), i.alg)

\* What each step of a call may rely on.
CallInv ==
  /\ pc \in {"idle", "decode", "charge", "validate", "verify", "returned", "raised"}
  /\ pc # "idle" => input \in Inputs
  /\ pc \in {"decode", "charge"} => gas = SIGRECOVER_BASE_GAS
  /\ pc \in {"charge", "validate", "verify"} => Decoded
  /\ pc \in {"validate", "verify"} => gas = SIGRECOVER_BASE_GAS + gas_cost(input.length - SIZE)
  /\ pc = "verify" => validate_signature(input)
  /\ pc \in {"returned", "raised"} => GasAsTested
  /\ output # INVALID =>
       /\ pc = "returned" /\ validate_signature(input) /\ output = Signer(input)
       /\ PublicKey(input, DigestOf(input)) # NoKey

\* Reaching the signing data is what decoding means: 67 bytes are at least one.
LEMMA DecodedIsLong ==
  ASSUME input \in Inputs
  PROVE  Decoded <=> input.alg \in algorithm_registry /\ input.length > SIZE
<1>1. input.length \in Nat
  BY LengthAssumption DEF LengthAssumption, Inputs
<1>2. input.length > 66 => input.length >= 1
  BY <1>1
<1>3. QED BY <1>2 DEF Decoded, SIZE

\* No call is under way.
LEMMA CallInit == SigrecoverInit => CallInv
BY DEF SigrecoverInit, CallInv, SIGRECOVER_BASE_GAS

\* Every step of a call.
LEMMA CallStep == CallInv /\ [SigrecoverNext]_callVars => CallInv'
<1> SUFFICES ASSUME CallInv, [SigrecoverNext]_callVars PROVE CallInv'
  OBVIOUS
<1>1. ASSUME NEW i \in Inputs, Call(i) PROVE CallInv'
  BY <1>1 DEF Call, CallInv, INVALID
<1>2. CASE Decode
  <2>1. CASE Decoded
    BY <1>2, <2>1 DEF Decode, Assert, CallInv, Decoded
  <2>2. CASE ~Decoded
    <3>1. /\ pc' = "returned" /\ UNCHANGED <<input, gas, output>> /\ input \in Inputs
          /\ gas = SIGRECOVER_BASE_GAS /\ output = INVALID
      BY <1>2, <2>2 DEF Decode, Assert, CallInv, Decoded
    <3>2. GasAsTested'
      BY <2>2, <3>1, DecodedIsLong DEF GasAsTested, SIGRECOVER_BASE_GAS
    <3>3. QED BY <3>1, <3>2 DEF CallInv
  <2>3. QED BY <2>1, <2>2
<1>3. CASE Charge
  BY <1>3 DEF Charge, CallInv, Decoded
<1>4. CASE ValidateSignature
  BY <1>4, DecodedIsLong DEF ValidateSignature, Assert, CallInv, Decoded, GasAsTested
<1>5. CASE Verify
  BY <1>5, DecodedIsLong DEF Verify, RecoveryFails, CallInv, Decoded, GasAsTested, Signer
<1>6. CASE Return
  BY <1>6 DEF Return, CallInv, INVALID
<1>7. CASE UNCHANGED callVars
  BY <1>7 DEF callVars, CallInv, Decoded, GasAsTested
<1>8. QED BY <1>1, <1>2, <1>3, <1>4, <1>5, <1>6, <1>7 DEF SigrecoverNext

\* Every reachable state of the precompile satisfies the invariant.
THEOREM CallInvariance == SigrecoverSpec => []CallInv
<1>1. QED BY CallInit, CallStep, PTL DEF SigrecoverSpec

-----------------------------------------------------------------------------
\* Of two valid signatures by one r, a key has given at most one over a digest: the
\* other of its two forms has s in the upper half.
LEMMA ValidIsCanonical ==
  ASSUME NEW a, NEW b, NEW d \in Digests, validate_signature(a), validate_signature(b),
         a.r \in Nat, a.s \in Nat, b.s \in Nat, b.r = a.r,
         PublicKey(a, d) # NoKey, PublicKey(b, d) = PublicKey(a, d)
  PROVE  b.s = a.s /\ b.y_parity = a.y_parity
<1> DEFINE n == SECP256K1N
<1>1. n \in Nat /\ n % 2 = 1
  BY OrderAssumption DEF OrderAssumption
<1>2. /\ 0 < a.r /\ a.r < n /\ a.y_parity \in {0, 1} /\ b.y_parity \in {0, 1}
      /\ 0 < a.s /\ a.s <= n \div 2 /\ 0 < b.s /\ b.s <= n \div 2
  BY DEF validate_signature, secp256k1_validate
<1>3. 2 * (n \div 2) = n - 1
  BY <1>1
<1>4. a.s < n /\ b.s < n /\ b.s # n - a.s
  BY <1>1, <1>2, <1>3
<1>5. a.r \in 1 .. n - 1 /\ a.s \in 1 .. n - 1 /\ b.s \in 1 .. n - 1
  BY <1>1, <1>2, <1>4
<1>6. /\ ecdsa_recover(a.r, a.s, a.y_parity, d) # NoKey
      /\ ecdsa_recover(a.r, b.s, b.y_parity, d) = ecdsa_recover(a.r, a.s, a.y_parity, d)
  BY DEF PublicKey
<1>7. (b.s = a.s /\ b.y_parity = a.y_parity) \/ (b.s = n - a.s /\ b.y_parity = 1 - a.y_parity)
  BY <1>2, <1>5, <1>6, RecoveryAssumption DEF RecoveryAssumption
<1>8. QED BY <1>4, <1>7

\* Addresses of one algorithm are those of their keys.
LEMMA OneAlgorithmAddresses ==
  ASSUME NEW k, NEW l, NEW alg \in algorithm_registry,
         pubkey_to_address(k, alg) = pubkey_to_address(l, alg)
  PROVE  k = l
BY DEF pubkey_to_address, algorithm_registry

\* Gas is the base price when the input is not decoded, and that plus the price
\* of the signing data otherwise, on success as on failure (sigrecover).
THEOREM GasOfEveryCall == SigrecoverSpec => []GasAsTested
<1>1. CallInv => GasAsTested
  BY DEF CallInv, GasAsTested
<1>2. QED BY <1>1, CallInvariance, PTL

\* No signature that gives an address can be turned into a second valid one by its
\* s or y_parity: validation lets through one of the two forms (secp256k1_validate).
THEOREM OneSignaturePerAddress == SigrecoverSpec => []AddressesUnique
<1>1. CallInv => AddressesUnique
  <2> SUFFICES ASSUME CallInv, pc = "returned", output # INVALID,
                      NEW s \in Scalars, NEW y \in Parities
               PROVE  LET other == [input EXCEPT !.s = s, !.y_parity = y]
                      IN validate_signature(other)
                         /\ pubkey_to_address(PublicKey(other, DigestOf(input)), input.alg) = output
                           => other = input
    BY DEF AddressesUnique
  <2> DEFINE other == [input EXCEPT !.s = s, !.y_parity = y]
  <2>1. SUFFICES ASSUME validate_signature(other),
                        pubkey_to_address(PublicKey(other, DigestOf(input)), input.alg) = output
                 PROVE  other = input
    OBVIOUS
  <2>2. /\ input \in Inputs /\ validate_signature(input) /\ output = Signer(input)
        /\ PublicKey(input, DigestOf(input)) # NoKey
    BY DEF CallInv
  <2>3. input.alg \in algorithm_registry
    BY <2>2 DEF validate_signature
  <2>4. PublicKey(other, DigestOf(input)) = PublicKey(input, DigestOf(input))
    BY <2>1, <2>2, <2>3, OneAlgorithmAddresses DEF Signer
  <2>5. /\ DigestOf(input) \in Digests
        /\ input.r \in Nat /\ input.s \in Nat /\ s \in Nat
        /\ other.r = input.r /\ other.s = s /\ other.y_parity = y
    BY <2>2, LengthAssumption DEF LengthAssumption, Inputs, DigestOf, Digests
  <2>6. other.s = input.s /\ other.y_parity = input.y_parity
    BY <2>1, <2>2, <2>4, <2>5, ValidIsCanonical
  <2>7. QED BY <2>2, <2>5, <2>6 DEF Inputs
<1>2. QED BY <1>1, CallInvariance, PTL

\* Signing data and its hash have the same signer (verify hashes what is not 32 bytes long).
THEOREM OneSignerOfDataAndHash == SigrecoverSpec => []HashOrData
<1>1. CallInv => HashOrData
  BY LengthAssumption DEF LengthAssumption, CallInv, HashOrData, Signer, DigestOf, Digest, Inputs, SIZE
<1>2. QED BY <1>1, CallInvariance, PTL
=============================================================================
