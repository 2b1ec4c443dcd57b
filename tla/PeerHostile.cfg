\* A client that sends finalization PDUs out of turn, default licensing.
CONSTANTS
  NumChannels = 1
  LicenseCallbackKind = "none"
  LicenseResults = {"COMPLETED"}
  CapabilitiesResults = {TRUE}
  MaxReactivations = 0
  MaxInputs = 0
  MaxLicenseLegs = 0
  MaxInjected = 1
  InputPdus <- NoAppInputPdus
  InputBudget <- NoAppInputBudget
  AppContext <- NoAppContext
  OnActivate <- NoAppActivate
  OnInput <- NoAppInput
SPECIFICATION HostileSpec
INVARIANT ActiveImpliesHandshake
