SPECIFICATION Ensemble
CONSTANTS
  Parties = {"relais", "ducky", "revision", "reprise", "purge", "parts", "garde", "oubli"}
  Hors = Hors
  Connexions = {l1, l2}
  Sources = {o1, o2}
  Reglages <- DeuxReglages
  Defaut <- Large
  Admins = {a1}
  a1 = a1
  Ports = {1, 2}
  Annonces = {1}
  Empruntables = {2}
  MaxRevision = 3
  MaxRapports = 1
  MaxMessages = 2
  MaxOublis = 1
  Cores = {c1, c2}
  c1 = c1
  Proxys = {p1}
  Machines = {m1, m2}
  m1 = m1
  Fenetre = 2
  MaxInstant = 3
  MaxDemandes = 2
  MaxGestes = 3
  Espacees = TRUE
  MaxPannes = 2
INVARIANT RelaisTenu
INVARIANT PilotageTenu
INVARIANT PurgeVraie
PROPERTY MaintenanceTient
CHECK_DEADLOCK FALSE
