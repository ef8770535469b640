SPECIFICATION Spec
CONSTANTS
  Down = Down
  Configs <- MCConfigs
  Secrets <- MCSecrets
  SecretLength <- MCSecretLength
  PublicKeys <- MCPublicKeys
  Tickets <- MCTickets
  Processes = {s1, s2}
  Requests = {r1, r2, r3, r4}
  Bindings = {b1}
  Cookies = {c1, c2}
SYMMETRY DeploymentSymmetry
INVARIANTS DeploymentTypeOK RunningMeansReady StatusIsAboutTheBlob
PROPERTY RetiredSecretsStayRetired
CHECK_DEADLOCK FALSE
