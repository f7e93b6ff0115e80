CONSTANTS
  Accounts = {u1}
  Machines = {m1}
  Windows = {}
  Services = {}
  Sources = {"rejeu"}
  Commands = {c1}
  MaxOrders = 2
  Limit = 1
  MaxEnVol = 1
  Monde = {"groupes", "creation"}
  Pannes = {"coupure", "arret", "envoi", "echec", "oubli"}
  MaxPannes = 2
  Aucun = Aucun
SPECIFICATION FairSpec
PROPERTIES ToutFinitParAboutir
CHECK_DEADLOCK FALSE
