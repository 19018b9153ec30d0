SPECIFICATION Spec
CONSTANTS
  Permissions <- MCPermissions
  ReadPaths <- MCPaths
  FetchHosts <- MCHosts
  NetHosts = {"h1", "h2"}
  AllowedHosts = {"h1"}
  Addresses <- MCAddresses
  MaxNetFaults = 1
  FileIds = {"f1", "f2"}
  MaxRead = 2
  MaxFileChanges = 2
  MaxReadFaults = 1
  Names = {"x"}
  Shapes = {"s1", "s2"}
  Roots = {"r1", "r2"}
  MaxIds = 3
  MaxEvents = 2
  PluginIds = {1, 2, 3, 4}
  Capabilities = {1, 2, 3, 4}
  Majors = {1, 2}
  MAX_RESOLVED_EDGES = 5
  PackageDirs = {1, 2}
  Versions = {1, 2}
  MaxPackageEdits = 3
  MaxCacheFaults = 1
  RoutePlugins = {"p1", "p2"}
  RoutePackages <- MCPackages
  MAX_CONTRIBUTIONS_PER_PROJECT = 3
  MaxRouteHosts = 2
  MaxRouteCalls = 2
INVARIANTS RoutesFollowHosts DeliveredAsDeclared  ReadIsOneVersion ValuesAreOfTheirReference PlansAreCanonical HostsRunReviewedPackages
PROPERTIES ResultsAreRouted
CHECK_DEADLOCK FALSE
