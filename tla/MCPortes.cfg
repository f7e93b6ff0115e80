SPECIFICATION Ensemble
CONSTANTS
  Parties = {"tout", "coupure", "passe", "facteur"}
  Hors = Hors
  t1 = t1
  Requetes = {r1, r2}
  Jetons = {t1, t2}
  Portes = {"web", "pam", "ldap", "ducky", "coupure", "profil", "admin", "enrole"}
  MaxVersions = 3
  Pannes = FALSE
  MaxSecrets = 2
  MaxHeure = 0
  SkewSteps = 1
  MaxEssais = 1
  ExigenceDucky = TRUE
  MFABypass = FALSE
  UnSeulOnglet = TRUE
INVARIANT VerrouFermeTout
INVARIANT ObligationTient
INVARIANT FacteurTenu
PROPERTY CodeConsommeUneFois
SYMMETRY Symetrie
CHECK_DEADLOCK FALSE
