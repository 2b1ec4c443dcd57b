\* An application license callback that may take a leg, complete, abort or
\* fail, a Capabilities callback that may refuse, and the callback removed.
CONSTANTS
  NumChannels = 1
  LicenseCallbackKind = "app"
  LicenseResults = {"IN_PROGRESS", "COMPLETED", "ABORT", "INTERNAL_ERROR"}
  CapabilitiesResults = {TRUE, FALSE}
  MaxReactivations = 1
  MaxInputs = 1
  MaxLicenseLegs = 2
  InputPdus <- NoAppInputPdus
  InputBudget <- NoAppInputBudget
  AppContext <- NoAppContext
  OnActivate <- NoAppActivate
  OnInput <- NoAppInput
SPECIFICATION Spec
INVARIANT TypeOK
INVARIANT ActiveImpliesHandshake
PROPERTY EventuallyActive
