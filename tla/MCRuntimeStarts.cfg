SPECIFICATION Spec
CONSTANTS
  qwen = qwen
  m1 = m1
  m2 = m2
  Profiles = {qwen}
  Models = {m1, m2}
  Catalog <- MCCatalog
  DefaultModel <- MCDefaults
  FirstProfile = qwen
  Secrets = {k1}
  Runs = {t1}
  Probe = probe
  Owners <- MCOwners
  Containers = {c1}
  None = None
INVARIANT RuntimeStarts
