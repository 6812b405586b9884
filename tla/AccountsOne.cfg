\* One admin request at a time, or two on a file that cannot be written; one
\* login that derives a hash meanwhile.
SPECIFICATION AccountsSpec
CONSTANTS
  ann = ann
  bob = bob
  None = None
  Users = {ann, bob}
  Admin = ann
  Hashes = {h1, h2, h3}
  EnvHash = None
  Tokens = {t1}
  Grants = {"admin"}
  Logins = {l1}
  Workers = {w1, w2}
SYMMETRY HashesAndWorkers
INVARIANTS SessionsCurrent FileKeepsAcked
PROPERTIES AdminLeft
CHECK_DEADLOCK FALSE
