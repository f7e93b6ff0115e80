SPECIFICATION Ensemble
CONSTANTS
  Scenarios = {"calme", "final", "deux", "rattrapage"}
  c1 = c1
  c2 = c2
  Accounts = {u1}
  Machines = {m1}
  Windows = {}
  Services = {}
  Sources = {"rejeu", "demande"}
  Commands = {c1, c2}
  MaxOrders = 3
  Limit = 2
  MaxEnVol = 2
  Monde = {"login", "groupes", "creation"}
  Pannes = {"coupure", "arret", "envoi", "echec", "interruption"}
  MaxPannes = 3
  Aucun = Aucun
INVARIANT LeveesRangees
INVARIANT ComptesLocauxJustes
PROPERTY AcquitteEstDefinitif
PROPERTY LeveNEstPlusRejoue
PROPERTY RattrapageDansLOrdre
CHECK_DEADLOCK FALSE
