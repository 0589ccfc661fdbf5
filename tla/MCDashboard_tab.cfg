SPECIFICATION Spec
CONSTANTS
  x = x y = y z = z
  Venues = {x, y, z}
  All = All
  None = None
  PublicWindows = {"12h"}
  AdvancedWindows = {"7d"}
  DefaultWindow = "12h"
  DefaultSummary = "12h"
  Samples <- MCSamples
  MaxActs = 5
  HiddenVenues = {z}
  Stored <- MCStored
INVARIANTS BeliefSettles ShownAsSelected ExportTrue ClicksFlipOne
