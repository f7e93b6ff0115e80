SPECIFICATION Ensemble
CONSTANTS
  Parties = {"quota", "tables", "vol", "bareme", "debit", "nonces"}
  Hors = Hors
  k1 = k1
  Services = {s1, s2}
  Cles = {k1, k2}
  Quota <- QuotaMC
  MaxConnexions = 3
  MaxPannes = 1
  ChuteDuCore = TRUE
  FenetreOuverte = TRUE
  t1 = t1
  Comptes = {a1}
  Vide = Vide
  Tentatives = {t1, t2}
  EssaisGratuits = 1
  DelaiMaximum = 2
  Oubli = 3
  Impair = 5
  Zeros = 1
  Largeur = 7
  FinDuFrein = 14
  MaxEchecs = 8
  Sauts = {1, 4}
  Sources = {o1}
  Demandes = {d1, d2}
  Fils = {f1, f2}
  Rafale = 3
  ParSeconde = 1
  PurgeDebit = 2
  Fenetre = 2
  PurgeNonces = 1
  Derives <- DerivesMC
  Attente = FALSE
  MaxTemps = 11
  MaxAcceptes = 7
  MaxVies = 2
INVARIANT QuotaJuste
INVARIANT FreinTenu
 
PROPERTY EcheanceNeReculePas
CHECK_DEADLOCK FALSE
