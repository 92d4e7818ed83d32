SPECIFICATION FairSpec
CONSTANTS
  local = local
  remote = remote
  User <- TwoUsers
  LocalUser <- OneLocalUser
  AuthEnabled = FALSE
  MaxVia = 3
  HeaderName <- ProxyHeaderName
CHECK_DEADLOCK FALSE
PROPERTY SessionRefreshed
