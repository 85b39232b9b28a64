---------------------------- MODULE MCSignatures ----------------------------
(***************************************************************************)
(* The two users of AlgorithmRegistry on small inputs.  A node in the middle *)
(* of a transaction does not call the precompile, and a call ends before one *)
(* is received.  Every field of a transaction has a value of its own, so     *)
(* that two fields taken for each other are noticed.  The group has order 7: *)
(* s up to 3 is its lower half, and three r are x-coordinates of points.     *)
(***************************************************************************)
EXTENDS Transactions, Sigrecover

CONSTANTS account, VS, Chains, Extras, WireSelectors, d, e

MC_U8 == 4
MC_U64 == 32
MC_U256 == 64
MC_Extras == {-1, 0, 1}

\* The points are the multiples 1 .. 6 of the generator; the nonces k and 7 - k
\* have one x-coordinate, and k up to 3 the even y.
Nonce(r) == CASE r = 1 -> 1 [] r = 2 -> 2 [] r = 5 -> 3 [] OTHER -> 0

DigestNumber(digest) ==
  CASE digest = Keccak(d) -> 3 [] digest = Keccak(e) -> 5 [] digest = d -> 1 [] OTHER -> 2

\* The key is (s k - digest) / r times the generator.
MC_Recover(r, s, y_parity, digest) ==
  LET k == IF y_parity = 0 THEN Nonce(r) ELSE 7 - Nonce(r)
      key == CHOOSE q \in 0 .. 6 : (r * q + DigestNumber(digest) - s * k) % 7 = 0
  IN IF Nonce(r) = 0 \/ key = 0 THEN NoKey ELSE <<"point", key>>

Tos == {Empty, account}
Nonces == {1, MC_U64}
Sig == [r : {1, 7, MC_U256}, s : {2, 4}, y_parity : {0, 1, 2, MC_U8}]

MC_Legacy ==
  [type : {LEGACY}, nonce : Nonces, gas_price : {3}, gas : {4}, to : Tos, value : {5},
   data : {"data"}, v : VS, r : {0, 1, 7, MC_U256}, s : {2, 4}]

Authorizations ==
  {[chain_id |-> c, address |-> account, nonce |-> n,
    y_parity |-> g.y_parity, r |-> g.r, s |-> g.s] :
     c \in Chains, n \in {1, MC_U64}, g \in {h \in Sig : h.r < 7}}

AccessList ==
  [type : {ACCESS_LIST}, chain_id : Chains, nonce : {1}, gas_price : {3}, gas : {4}, to : Tos,
   value : {5}, data : {"data"}, access_list : {"accesses"},
   y_parity : {0, 1, 2, MC_U8}, r : {1, 7}, s : {2, 4}]

FeeMarket ==
  [type : {FEE_MARKET}, chain_id : Chains, nonce : {1}, max_priority_fee_per_gas : {6},
   max_fee_per_gas : {7}, gas : {4}, to : Tos, value : {5}, data : {"data"},
   access_list : {"accesses"}, y_parity : {0, 1, 2}, r : {1}, s : {2, 4}]

Blob ==
  [type : {BLOB}, chain_id : Chains, nonce : {1}, max_priority_fee_per_gas : {6},
   max_fee_per_gas : {7}, gas : {4}, to : Tos, value : {5}, data : {"data"},
   access_list : {"accesses"}, max_fee_per_blob_gas : {8, MC_U256},
   blob_versioned_hashes : {"hashes"}, y_parity : {0, 1, 2}, r : {1}, s : {2, 4}]

SetCode ==
  [type : {SET_CODE}, chain_id : Chains, nonce : {1}, max_priority_fee_per_gas : {6},
   max_fee_per_gas : {7}, gas : {4}, to : {Empty, account}, value : {5}, data : {"data"},
   access_list : {"accesses"},
   authorization_list : {<<>>} \cup {<<a>> : a \in Authorizations},
   y_parity : {0, 1}, r : {1}, s : {2, 4}]

MC_Typed == AccessList \cup FeeMarket \cup Blob \cup SetCode

-----------------------------------------------------------------------------
Signatures ==
  [alg : {254, SECP256K1_ALGORITHM}, r : {1}, s : {2, 4}, y_parity : {0, 1, 2}, extra : Extras]

SszAuthorizations ==
  UNION {[selector : {sel},
          data : {[f \in RlpSetCodeAuthorizationPayload[sel] |->
                     CASE f = "magic" -> magic [] f = "chain_id" -> c
                       [] f = "address" -> account [] f = "nonce" -> 1] :
                     magic \in {SET_CODE, SET_CODE_MAGIC}, c \in Chains},
          signature : {g \in Signatures : g.y_parity = 1 /\ g.alg = SECP256K1_ALGORITHM}] : sel \in 1 .. 2}

\* A payload of a class, type_ as claimed, with up to one authorization.
SszPayload(sel, type, c, auths) ==
  [f \in TransactionPayload[sel] |->
     CASE f = "type_" -> type
       [] f = "chain_id" -> c
       [] f = "nonce" -> 1
       [] f = "max_fees_per_gas" ->
            IF sel = 9 THEN [regular |-> 7, blob |-> 8] ELSE [regular |-> 7]
       [] f = "max_priority_fees_per_gas" -> [regular |-> 6]
       [] f = "gas" -> 4
       [] f = "to" -> account
       [] f = "value" -> 5
       [] f = "input_" -> "data"
       [] f = "access_list" -> "accesses"
       [] f = "blob_versioned_hashes" -> "hashes"
       [] f = "authorization_list" -> auths]

AuthorizationLists(sel) ==
  IF sel = 10 THEN {<<>>} \cup {<<a>> : a \in SszAuthorizations} ELSE {<<>>}

MC_Wire ==
  UNION {[selector : {sel},
          data : {SszPayload(sel, type, c, auths) :
                    type \in LEGACY .. SET_CODE_MAGIC, c \in Chains,
                    auths \in AuthorizationLists(sel)},
          signature : Signatures] : sel \in WireSelectors}

-----------------------------------------------------------------------------
SignaturesInit == Init /\ SigrecoverInit

SignaturesNext ==
  \/ phase = "idle" /\ SigrecoverNext /\ UNCHANGED vars
  \/ pc = "idle" /\ Next /\ UNCHANGED callVars

SignaturesSpec == SignaturesInit /\ [][SignaturesNext]_<<vars, callVars>>
=============================================================================
