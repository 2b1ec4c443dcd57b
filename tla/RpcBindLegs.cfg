\* Up to three authentication legs, every gateway-auth result, failing sends.
CONSTANTS
  GatewayAuthResults = {"SUCCESS", "SKIP", "CANCELLED", "NO_CREDENTIALS", "FAILED"}
  TokenLens = {32, 600}
  MaxLegs = 3
  InitMaxXmitFrag = 4088
  InitMaxRecvFrag = 4088
  ServerXmitFrags = {4088}
  ServerRecvFrags = {1432, 4088}
  SendMayFail = TRUE
SPECIFICATION Spec
INVARIANT TypeOK
INVARIANT TokensInOrder
PROPERTY EventuallySettled
