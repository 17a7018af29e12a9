SPECIFICATION Spec
CONSTANTS
  NoPackage = NoPackage
  Directories = {1, 2, 3}
  Packages <- MCPackages
  Requests <- MCRequests
  MaximumLoaded = 2
  MaximumDeploys = 1
  Tools = {"search"}
  Permissions = {"read"}
  Scopes = {"division"}
  Terms = {"evidence", "market", "contract"}
INVARIANT InstructionsAsSelected
CHECK_DEADLOCK FALSE
