CONSTANTS
  Inside = {"server", "mapped"}
  Tunnel = {"roadwarrior"}
  Outside = {"resolver", "blocked"}
  Own = {"wanip", "alias"}
  Address = "wanip"
  Resolvers = {"resolver"}
  Protected = {"server", "mapped", "roadwarrior"}
  Ports = {53, 67, 443, 853, 3000, 8000, 8001}
  Configs <- AllConfigs
  Connections = {c1}
  NoConn = NoConn
SPECIFICATION RulesetSpec
INVARIANTS RulesetTypeOK ConnectionsGoOn
PROPERTIES OpensOnlyWhatIsAsked NatDelivers OwnServicesAnswer
