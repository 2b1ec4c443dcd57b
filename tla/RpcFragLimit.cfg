\* A Kerberos-sized token on a later leg, and a gateway that receives 4088.
CONSTANTS
  GatewayAuthResults = {"SUCCESS"}
  TokenLens = {1500, 5000}
  MaxLegs = 3
  InitMaxXmitFrag = 4088
  InitMaxRecvFrag = 4088
  ServerXmitFrags = {4088}
  ServerRecvFrags = {4088}
  SendMayFail = FALSE
SPECIFICATION Spec
INVARIANT FragWithinNegotiated
