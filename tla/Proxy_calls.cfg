SPECIFICATION FairSpec
CONSTANTS
  local = local
  remote = remote
  User <- TwoUsers
  LocalUser <- OneLocalUser
  AuthEnabled = TRUE
  MaxVia = 3
  HeaderName <- ProxyHeaderName
CHECK_DEADLOCK FALSE
INVARIANTS
  RoutedHome
  VerifiedOnly
  Underway
PROPERTIES
  Descends
  RequestsAnswered
