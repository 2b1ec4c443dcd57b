\* Default license callback (freerdp_peer_nolicense), conforming client, and
\* the tfreerdp application drawing on mouse input, resizing on 's' and
\* closing on 'x'.
CONSTANTS
  NumChannels = 2
  LicenseCallbackKind = "nolicense"
  LicenseResults = {"COMPLETED"}
  CapabilitiesResults = {TRUE}
  MaxReactivations = 1
  MaxInputs = 3
  MaxLicenseLegs = 0
  HasCodec = TRUE
  IconLoads = TRUE
  InputPdus <- TfInputPdus
  InputBudget <- TfBudget
  AppContext <- TfContext
  OnActivate <- TfOnActivate
  OnInput <- TfInput
SPECIFICATION TfSpec
INVARIANT ActiveImpliesHandshake
INVARIANT NoSpuriousTeardown
INVARIANT ActivatedOnlyWhenActive
PROPERTY EventuallyActive
PROPERTY ReactivationCompletes
PROPERTY PhasesRefined
