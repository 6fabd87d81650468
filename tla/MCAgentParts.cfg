SPECIFICATION PartsSpec
CONSTANTS
  Total = 2
  Ports = {1, 2}
  MaxMade = 3
  MaxQueue = 2
  ResourceEvents = {"failure", "restart"}
  p1 = p1
  p2 = p2
  p3 = p3
  home = home
  l1 = l1
  Patients = {p1, p2, p3}
  Locations = {home, l1}
  Home = home
  Cuts = {FALSE}
  m1 = m1
  m2 = m2
  m3 = m3
  Monitors = {m1, m2, m3}
  Brothers <- BrothersDef
  Partnered = {m1, m2, m3}
  Cases <- CasesDef
  MaxAttempts = 1
  MaxInstances = 2
  a1 = a1
  a2 = a2
  a3 = a3
  Agents = {a1, a2, a3}
  Holders = {a1}
  MaxProposals = 2
  MaxByes = 1
  MaxSlots = 2
  Scenes <- ScenesDef
SYMMETRY Symmetry
INVARIANTS
  PartsTypeOK
  Fits
  ClerkSafe
  DeathSafe
  PartnersSafe
PROPERTIES
  NotBeforeQuarantine
  EndsWhenSettled
CHECK_DEADLOCK FALSE
