SPECIFICATION SignaturesSpec
CONSTANTS
  Empty = Empty
  account = account
  SECP256K1N = 7
  ecdsa_recover <- MC_Recover
  U8 <- MC_U8
  U64 <- MC_U64
  U256 <- MC_U256
  VS = {0, 27, 28, 29, 34, 35, 36, 37, 38, 162, 163, 200}
  Chains = {0, 1}
  Extras <- MC_Extras
  WireSelectors = {1, 2, 3, 4, 5, 6, 7, 8, 9, 10}
  Legacy <- MC_Legacy
  Typed <- MC_Typed
  Wire <- MC_Wire
  Lengths = {0, 1, 66, 67, 98, 99}
  Algorithms = {254, 255}
  Scalars = {0, 1, 2, 3, 4, 5, 6, 7}
  Parities = {0, 1, 2}
  Datas = {d, e}
  d = d
  e = e
INVARIANTS GasAsTested AddressesUnique
  Lossless UpgradedIsDecidedBySignatures OneSszForm SigHashIsOfPayload
