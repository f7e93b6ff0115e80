SPECIFICATION Ensemble
CONSTANTS
  Parties = {"images", "paquets", "maj", "lenteur", "retour"}
  Hors = Hors
  l1 = l1
  m1 = m1
  k1 = k1
  p1 = p1
  p2 = p2
  r1 = r1
  r2 = r2
  Couches = {l1}
  Manifestes = {m1}
  Paquets = {k1}
  Refs <- RefsSimples
  Images = {a}
  Publieurs = {p1, p2}
  Ramasseurs = {r1, r2}
  Grace = 1
  DureeMarque = 2
  MaxHeure = 3
  Aleas = {}
  Jamais = Jamais
  Versions = {1, 2, 3}
  Depart = 1
  NbFichiers = 2
  Coupures = 0
  Pannes = 1
  Chutes = 0
  Gestes = 2
  Courses = 0
  Lenteur = TRUE
  Sources = {"derogation", "parc"}
INVARIANT TypeOK
 
INVARIANT PaquetsTenus
 
PROPERTY JamaisRetrograde
CHECK_DEADLOCK FALSE
