SPECIFICATION Ensemble
CONSTANTS
  Parties = {"refus", "accord", "arbre", "trou", "comptes", "seul"}
  Hors = Hors
  Admins = {a1, a2}
  Uids = {1, 2, 3}
  NomsComptes = {"vaultaire", "alice", "bob"}
  NomsGroupes <- DeuxGroupes
  DomainesGroupes <- DomainesDeLArbre
  Bases <- DeuxBases
  GroupeSocle <- GP
  UidProtege = 1
  MaxDemarrages = 1
  Comptes = {"vaultaire", "alice"}
  Groupes = {"vaultaire", "acme", "paie"}
  Permissions = {1, 2, 3}
  GroupeProtege = "vaultaire"
  CompteProtege = "vaultaire"
  PermissionProtegee = 1
  DomaineDe <- MCDomaineDe
  DomainesRegles <- Domaines2
  ValeursInitiales <- Diverses
  Propagations = {TRUE}
  MaxEnVol = 1
  MaxParGroupe = 2
INVARIANT ReparationPossible
INVARIANT DroitsEvalues
INVARIANT AnnuaireTenu
 
PROPERTY GestesSansDegat
CHECK_DEADLOCK FALSE
SYMMETRY Echanges
