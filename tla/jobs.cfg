SPECIFICATION Spec
CONSTANTS
  i1 = i1
  i2 = i2
  k1 = k1
  c1 = c1
  owner = owner
  adm1 = adm1
  adm2 = adm2
  h1 = h1
  h2 = h2
  ext = ext
  Replicas = {i1, i2}
  Days = {2, 10, 15}
  MaxActs = 1
  Mixes <- JobMixes
  Risks = {k1}
  DueDates = {15, 17}
  Controls = {c1}
  ControlDue = 5
  People = {owner}
  Admins = {adm1, adm2}
  Users = {h1, h2, ext}
  Holders = {h1, h2}
  External = {ext}
  MaxRequests = 3
  Hubs <- ModuleHubs
  maxDeparturesPerRun = 2
CHECK_DEADLOCK FALSE
INVARIANTS
  TypeOK
  RemindedOnce
  ClaimsBackedByMail
  AnAdminRemains
PROPERTIES
  AdminsHearOfOverdue
  DeparturesAnnounced
  DepartedAreDisabled
