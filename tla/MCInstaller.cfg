CONSTANTS
  Tools = {"httpx", "sslyze"}
  Checked = {"httpx"}
  ManagedBin = "bin"
  Nowhere = "nowhere"
  Managers = {"go", "apt-get", "pipx"}
  Linking = {"pipx"}
  Lenient = {"apt-get"}
  OneWay = {"go"}
  Source = "source"
  Packages <- MCPackages
  Builds <- MCBuilds
  All <- MCAll
  Elsewhere = "elsewhere"
  Paths <- MCPaths
  Usables <- MCUsables
  Programs = {"none", "wrong"}
  MaxCalls = 3
SPECIFICATION Spec
INVARIANTS
  InstalledIsFound
  RoutesAreTriedInOrder
  RemovedMeansGone
CHECK_DEADLOCK FALSE
