SPECIFICATION Ensemble
CONSTANTS
  Parties = {"demandes", "cycle", "tables", "seul"}
  Hors = Hors
  c1 = c1
  c2 = c2
  c3 = c3
  m1 = m1
  a1 = a1
  Aucun = Aucun
  Cores = {c1, c2, c3}
  Machines = {m1}
  Demandeurs = {c1}
  MaxDemandes = 1
  MaxCampagnes = 1
  MaxCoupures = 2
  MaxArrets = 0
  Vue <- Deux
INVARIANT PousseesJustes
 
 
CHECK_DEADLOCK FALSE
