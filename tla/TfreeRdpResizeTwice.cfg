\* Conforming client, tfreerdp, the resize key pressed twice in a row.
CONSTANTS
  NumChannels = 2
  LicenseCallbackKind = "nolicense"
  LicenseResults = {"COMPLETED"}
  CapabilitiesResults = {TRUE}
  MaxReactivations = 2
  MaxInputs = 2
  MaxLicenseLegs = 0
  HasCodec = TRUE
  IconLoads = TRUE
  InputPdus <- TfInputPdus
  InputBudget <- TfBudgetResizeTwice
  AppContext <- TfContext
  OnActivate <- TfOnActivate
  OnInput <- TfInput
SPECIFICATION TfSpec
INVARIANT ActiveImpliesHandshake
