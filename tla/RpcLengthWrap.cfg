\* A token too long for the 16-bit frag_length once the header is added.
CONSTANTS
  GatewayAuthResults = {"SUCCESS"}
  TokenLens = {65500}
  MaxLegs = 1
  InitMaxXmitFrag = 4088
  InitMaxRecvFrag = 4088
  ServerXmitFrags = {4088}
  ServerRecvFrags = {4088}
  SendMayFail = FALSE
SPECIFICATION Spec
INVARIANT AuthWithinFrag
