SPECIFICATION Spec
SYMMETRY Symmetry
CONSTANTS
  k1 = k1  k2 = k2  k3 = k3
  p1 = p1  p2 = p2  p3 = p3
  secret = secret  blank = blank  gone = gone
  origin = origin  elsewhere = elsewhere  other = other  pw = pw
  DefaultId = default
  Empty = Empty  Missing = Missing  Malformed = Malformed  OutOfRange = OutOfRange
  Fine = Fine  Refused = Refused  Down = Down  None = None
  Keys = {k1, k2, k3}
  KeyIds = {default, other}
  Paths = {p1, p2, p3, secret, blank, gone}
  Content <- MCContent
  r1 = r1  r2 = r2
  Replicas = {r1, r2}
  Deployments <- MCDeployments
  Requests <- MCRequests
  TTL = 2
  MaxSkew = 1
  MaxTime = 3
  MaxGen = 2
  MaxTokens = 1
INVARIANTS
  TypeOK
  RunsAsDeployed
  RefusalHasACause
  RouterFitsServices
  AnswersAreGuarded
