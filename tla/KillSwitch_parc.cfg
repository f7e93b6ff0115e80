CONSTANTS
  Accounts = {u1}
  Machines = {m1, w1, s1}
  Windows = {w1}
  Services = {s1}
  Sources = {"rejeu"}
  Commands = {c1}
  MaxOrders = 1
  Limit = 2
  MaxEnVol = 1
  Monde = {"login"}
  Pannes = {"types", "annuaire", "envoi", "interruption", "coupure", "oubli", "echec", "arret", "etat"}
  MaxPannes = 1
  Aucun = Aucun
SPECIFICATION Spec
INVARIANTS TypeOK 
 
CHECK_DEADLOCK FALSE
