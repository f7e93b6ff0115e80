CONSTANTS
  Accounts = {u1}
  Machines = {m1}
  Windows = {}
  Services = {}
  Sources = {"rejeu"}
  Commands = {c1}
  MaxOrders = 3
  Limit = 2
  MaxEnVol = 2
  Monde = {}
  Pannes = {"envoi"}
  MaxPannes = 1
  Aucun = Aucun
SPECIFICATION Spec
PROPERTIES ChronologieTenue
CHECK_DEADLOCK FALSE
