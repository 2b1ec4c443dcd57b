\* Conforming client, tfreerdp, a mouse move in flight when the user presses x.
CONSTANTS
  NumChannels = 2
  LicenseCallbackKind = "nolicense"
  LicenseResults = {"COMPLETED"}
  CapabilitiesResults = {TRUE}
  MaxReactivations = 0
  MaxInputs = 2
  MaxLicenseLegs = 0
  HasCodec = TRUE
  IconLoads = TRUE
  InputPdus <- TfInputPdus
  InputBudget <- TfBudgetCloseThenDraw
  AppContext <- TfContext
  OnActivate <- TfOnActivate
  OnInput <- TfInput
SPECIFICATION TfSpec
INVARIANT UltimatumLast
