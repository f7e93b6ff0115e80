----------------------------- MODULE MCVivacite -----------------------------
(***************************************************************************)
(* What finally happens: one small instance of each component that         *)
(* promises it, under the fairness its own module states.                  *)
(*                                                                         *)
(* A behaviour is one of the part "partie"; the others keep still.         *)
(***************************************************************************)
EXTENDS Naturals, FiniteSets, Sequences, TLC

CONSTANTS
  Parties,   \* the parts of this run
  m1, c1, c2, a1, s1, k1,
  Aucun      \* nothing, nobody

VARIABLES
  partie,    \* the part that runs
  cleQuota, clientQuota, traceQuota, cnxQuota, serviceQuota, disqueQuota,
  pannesQuota,  \* Enrolement
  ligneNoeud, instantNoeud, vitNoeud, tourNoeud, tunnelNoeud, adminNoeud,
  faitsNoeud, bilanNoeud, usageNoeud,  \* Maintenance
  etatRelais, cnxRelais, activesRelais, parSourceRelais, vusRelais,  \* Relais
  vivantsCycle, sessionsCycle, agentCycle, tramesCycle, baseCycle, relaisCycle,
  campagneCycle, pousseesCycle, duCycle, aleasCycle,  \* DemandesDeCycle
  couranteAgent, transfertAgent, versCoreAgent, versAgentAgent, pcAgent,
  demandeAgent, resultatsAgent, etatAgent, disqueAgent, fraisAgent, aleasAgent,  \* CycleGPO
  gpoTables, modulesTables, definitionsTables, adminTables, lectureTables,
  demandeTables, livreTables, rangeTables, vusTables, compteTables,  \* ResolutionGPO
  placeMaj, gardeMaj, pretesMaj, verrouMaj, etatMaj, tourneMaj, sessionMaj,
  demandeMaj, declareMaj, lueMaj, tourMaj, deroulesMaj, confMaj, majMaj,
  monteMaj, descendMaj, ciblesMaj, declareeMaj, compteMaj, envoiMaj, ditsMaj,
  resteMaj,  \* MiseAJour
  basePilote, rapportPilote, inscritPilote, proxyPilote, copiePilote,
  prisPilote, filPilote, montantsPilote, descendantsPilote, lienPilote,
  pannesPilote, oublisPilote  \* RelaisPilotes

quotaVars == <<cleQuota, clientQuota, traceQuota, cnxQuota, serviceQuota, disqueQuota,
                pannesQuota>>
noeudVars == <<ligneNoeud, instantNoeud, vitNoeud, tourNoeud, tunnelNoeud, adminNoeud,
                faitsNoeud, bilanNoeud, usageNoeud>>
relaisVars == <<etatRelais, cnxRelais, activesRelais, parSourceRelais, vusRelais>>
cycleVars == <<vivantsCycle, sessionsCycle, agentCycle, tramesCycle, baseCycle, relaisCycle,
                campagneCycle, pousseesCycle, duCycle, aleasCycle>>
agentVars == <<couranteAgent, transfertAgent, versCoreAgent, versAgentAgent, pcAgent,
                demandeAgent, resultatsAgent, etatAgent, disqueAgent,
                fraisAgent, aleasAgent>>
tablesVars == <<gpoTables, modulesTables, definitionsTables, adminTables, lectureTables,
                 demandeTables, livreTables, rangeTables, vusTables,
                 compteTables>>
majVars == <<placeMaj, gardeMaj, pretesMaj, verrouMaj, etatMaj, tourneMaj, sessionMaj,
              demandeMaj, declareMaj, lueMaj, tourMaj, deroulesMaj, confMaj,
              majMaj, monteMaj, descendMaj, ciblesMaj, declareeMaj, compteMaj,
              envoiMaj, ditsMaj, resteMaj>>
piloteVars == <<basePilote, rapportPilote, inscritPilote, proxyPilote, copiePilote,
                 prisPilote, filPilote, montantsPilote, descendantsPilote,
                 lienPilote, pannesPilote, oublisPilote>>
tout == <<partie, quotaVars, noeudVars, relaisVars, cycleVars, agentVars, tablesVars, majVars, piloteVars>>

Large == [max |-> 2, parSource |-> 2, inactivite |-> 2]
MCOrdre == [base |-> <<"a", "b">>, suite |-> <<"a", "c", "b">>, veille |-> <<"b">>]
MCVersion == [base |-> [a |-> "a1", b |-> "b1"],
              suite |-> [a |-> "a2", b |-> "b1", c |-> "c1"],
              veille |-> [b |-> "b2"]]
MCAudit == [base |-> {}, suite |-> {"b"}, veille |-> {}]
MCEffet == [a |-> [a1 |-> [x |-> "x1", u |-> "oui"], a2 |-> [x |-> "x2", u |-> "oui"]],
            b |-> [b1 |-> [y |-> "y1", u |-> "oui"], b2 |-> [y |-> "y2"]],
            c |-> [c1 |-> [z |-> "z1"]]]
EnAvant == [base |-> {"suite", "veille"}, suite |-> {"veille"}, veille |-> {}]

E == INSTANCE Enrolement WITH
  Services <- {s1}, Cles <- {k1}, Quota <- [k \in {k1} |-> 2], MaxConnexions <-
  3, MaxPannes <- 2, ChuteDuCore <- TRUE, FenetreOuverte <- FALSE, cle <-
  cleQuota, client <- clientQuota, trace <- traceQuota, cnx <- cnxQuota,
  service <- serviceQuota, disque <- disqueQuota, pannes <- pannesQuota
P == INSTANCE Maintenance WITH
  Cores <- {c1}, Proxys <- {}, Machines <- {m1}, Admins <- {a1}, Fenetre <- 2,
  MaxInstant <- 2, MaxDemandes <- 1, MaxGestes <- 2, MaxPannes <- 1, Espacees
  <- TRUE, ligne <- ligneNoeud, instant <- instantNoeud, vit <- vitNoeud, tour
  <- tourNoeud, tunnel <- tunnelNoeud, admin <- adminNoeud, faits <-
  faitsNoeud, bilan <- bilanNoeud, usage <- usageNoeud
L == INSTANCE Relais WITH
  Connexions <- {c1, c2}, Sources <- {s1}, Reglages <- {Large}, Defaut <- Large,
  etat <- etatRelais, cnx <- cnxRelais, actives <- activesRelais, parSource <-
  parSourceRelais, vus <- vusRelais
D == INSTANCE DemandesDeCycle WITH
  Cores <- {c1, c2}, Machines <- {m1}, Demandeurs <- {c1}, MaxDemandes <- 1,
  MaxCampagnes <- 1, MaxCoupures <- 0, MaxArrets <- 1, Vue <- {TRUE}, vivants
  <- vivantsCycle, sessions <- sessionsCycle, agent <- agentCycle, trames <-
  tramesCycle, base <- baseCycle, relais <- relaisCycle, campagne <-
  campagneCycle, poussees <- pousseesCycle, du <- duCycle, aleas <- aleasCycle
C == INSTANCE CycleGPO WITH
  Cles <- {"a", "b", "c"}, Objets <- {"x", "y", "z", "u"}, Ordre <- MCOrdre,
  Version <- MCVersion, Audit <- MCAudit, Effet <- MCEffet, Suivantes <-
  EnAvant, Premiere <- "base", NonApplicables <- {"c"}, Fragments <- 1,
  MaxMains <- 1, MaxPannes <- 1, MaxArrets <- 0, MaxLenteurs <- 0, Aucun <-
  "aucun", courante <- couranteAgent, transfert <- transfertAgent, versCore <-
  versCoreAgent, versAgent <- versAgentAgent, pc <- pcAgent, demande <-
  demandeAgent, resultats <- resultatsAgent, etat <- etatAgent, disque <-
  disqueAgent, frais <- fraisAgent, aleas <- aleasAgent
R == INSTANCE ResolutionGPO WITH
  NbPolitiques <- 2, Deja <- {1, 2}, Cles <- {1}, Reglages <- {1, 2}, Admins <-
  {a1}, Cores <- {c1}, MaxModules <- 3, MaxEcritures <- 1, MaxPannes <- 0,
  MaxCoupures <- 1, gpo <- gpoTables, modules <- modulesTables, definitions <-
  definitionsTables, admin <- adminTables, lecture <- lectureTables, demande
  <- demandeTables, livre <- livreTables, range <- rangeTables, vus <-
  vusTables, compte <- compteTables
U == INSTANCE MiseAJour WITH
  Versions <- 1..2, Depart <- 1, NbFichiers <- 1, Coupures <- 0, Pannes <- 0,
  Chutes <- 0, Gestes <- 1, Courses <- 0, Sources <- {"parc"}, Lenteur <-
  FALSE, place <- placeMaj, garde <- gardeMaj, pretes <- pretesMaj, verrou <-
  verrouMaj, etat <- etatMaj, tourne <- tourneMaj, session <- sessionMaj,
  demande <- demandeMaj, declare <- declareMaj, lue <- lueMaj, tour <-
  tourMaj, deroules <- deroulesMaj, conf <- confMaj, maj <- majMaj, monte <-
  monteMaj, descend <- descendMaj, cibles <- ciblesMaj, declaree <-
  declareeMaj, compte <- compteMaj, envoi <- envoiMaj, dits <- ditsMaj, reste
  <- resteMaj
J == INSTANCE RelaisPilotes WITH
  Admins <- {a1}, Ports <- {1, 2}, Annonces <- {1}, Empruntables <- {},
  MaxRevision <- 1, MaxRapports <- 1, MaxMessages <- 1, MaxPannes <- 1,
  MaxOublis <- 0, base <- basePilote, rapport <- rapportPilote, inscrit <-
  inscritPilote, proxy <- proxyPilote, copie <- copiePilote, pris <-
  prisPilote, fil <- filPilote, montants <- montantsPilote, descendants <-
  descendantsPilote, lien <- lienPilote, pannes <- pannesPilote, oublis <-
  oublisPilote

\* Two policies that disagree about one thing.
OpposeInit ==
  /\ gpoTables = [p \in 1..2 |-> [R!Creee EXCEPT !.liee = TRUE]]
  /\ modulesTables = {[id |-> p, p |-> p, cle |-> 1, reglage |-> p] : p \in 1..2}
  /\ R!AuRepos(2)

-----------------------------------------------------------------------------
(* A part that does not run keeps its variables as they are.              *)

Depart ==
  /\ partie \in Parties
  /\ E!Init /\ (partie # "enrole" => disqueQuota[s1].paire = 0)
  /\ P!Init
  /\ L!Init
  /\ D!Init
  /\ C!Init
  /\ OpposeInit
  /\ U!Init
  /\ J!Init

Pas ==
  \/ partie = "enrole" /\ E!Next /\ UNCHANGED <<partie, noeudVars, relaisVars, cycleVars, agentVars, tablesVars, majVars, piloteVars>>
  \/ partie = "purge" /\ P!Next /\ UNCHANGED <<partie, quotaVars, relaisVars, cycleVars, agentVars, tablesVars, majVars, piloteVars>>
  \/ partie = "relais" /\ L!Next /\ UNCHANGED <<partie, quotaVars, noeudVars, cycleVars, agentVars, tablesVars, majVars, piloteVars>>
  \/ partie = "demande" /\ D!Next /\ UNCHANGED <<partie, quotaVars, noeudVars, relaisVars, agentVars, tablesVars, majVars, piloteVars>>
  \/ partie = "agent" /\ C!Next /\ UNCHANGED <<partie, quotaVars, noeudVars, relaisVars, cycleVars, tablesVars, majVars, piloteVars>>
  \/ partie = "tables" /\ R!Next /\ UNCHANGED <<partie, quotaVars, noeudVars, relaisVars, cycleVars, agentVars, majVars, piloteVars>>
  \/ partie = "maj" /\ U!Next /\ UNCHANGED <<partie, quotaVars, noeudVars, relaisVars, cycleVars, agentVars, tablesVars, piloteVars>>
  \/ partie = "pilote" /\ J!Next /\ UNCHANGED <<partie, quotaVars, noeudVars, relaisVars, cycleVars, agentVars, tablesVars, majVars>>

Ensemble == Depart /\ [][Pas]_tout

-----------------------------------------------------------------------------
(* What runs by itself goes on, in the part that runs: the fairness that   *)
(* each component states.                                                  *)
EnroleJuste ==
  LET Fait(A) == partie = "enrole" /\ A IN
  /\ WF_quotaVars(Fait(E!Demarrer(s1))) /\ WF_quotaVars(Fait(E!RecevoirIdentite(s1)))
  /\ WF_quotaVars(Fait(E!GenererPaire(s1))) /\ WF_quotaVars(Fait(E!EnvoyerCle(s1)))
  /\ WF_quotaVars(Fait(E!RecevoirConfirmation(s1))) /\ WF_quotaVars(Fait(E!Echouer(s1)))
  /\ \A t \in 1..3 :
       /\ WF_quotaVars(Fait(E!Reserve(t)))
       /\ WF_quotaVars(Fait(\E ok \in BOOLEAN :
            \/ E!Relire(t, ok) \/ E!Creer(t, ok) \/ E!Release(t, ok)
            \/ E!Confirm(t, ok) \/ E!HandleEnrollPublicKey(t, ok)))
DemandeJuste ==
  LET Fait(A) == partie = "demande" /\ A IN
  /\ \A c \in {c1, c2} :
       /\ WF_cycleVars(Fait(D!Relever(c))) /\ WF_cycleVars(Fait(D!Prendre(c)))
       /\ WF_cycleVars(Fait(D!PousserPrise(c))) /\ WF_cycleVars(Fait(D!NoterRemise(c)))
       /\ WF_cycleVars(Fait(D!AttendreLesIssues(c)))
  /\ WF_cycleVars(Fait(\E c \in {c1, c2} : D!Connecter(m1, c)))
  /\ WF_cycleVars(Fait(D!Recevoir0518(m1))) /\ WF_cycleVars(Fait(D!Surveiller(m1)))
  /\ WF_cycleVars(Fait(D!Commencer(m1))) /\ WF_cycleVars(Fait(D!Finir(m1)))
TablesJuste ==
  LET Fait(A) == partie = "tables" /\ A IN
  /\ WF_tablesVars(Fait(R!Continuer(a1))) /\ WF_tablesVars(Fait(R!Servir(c1)))
  /\ WF_tablesVars(Fait(R!AskMachine(c1)))
MajJuste ==
  LET Fait(A) == partie = "maj" /\ A IN
  /\ WF_majVars(Fait(U!RecevoirDeclaration)) /\ WF_majVars(Fait(U!RepondreALaDemande))
  /\ WF_majVars(Fait(U!RecevoirLeCompteRendu)) /\ WF_majVars(Fait(U!UnTour))
  /\ WF_majVars(Fait(U!RepousseApres)) /\ WF_majVars(Fait(U!Connecter))
  /\ WF_majVars(Fait(U!Declarer)) /\ WF_majVars(Fait(U!RendreCompte))
  /\ WF_majVars(Fait(U!Marquer)) /\ WF_majVars(Fait(U!Demander))
  /\ WF_majVars(Fait(U!RecevoirOrdre)) /\ WF_majVars(Fait(U!Deroule))
  /\ WF_majVars(Fait(U!Updater)) /\ WF_majVars(Fait(U!Vieillir))
AgentJuste ==
  LET Fait(A) == partie = "agent" /\ A IN
  /\ WF_agentVars(Fait(C!Agent)) /\ WF_agentVars(Fait(C!Recevoir))
  /\ WF_agentVars(Fait(C!Repondre))
PurgeJuste ==
  LET Fait(A) == partie = "purge" /\ A IN
  /\ WF_noeudVars(Fait(P!Battement(c1))) /\ WF_noeudVars(Fait(P!Demarrer(c1)))
  /\ WF_noeudVars(Fait(P!Lister(c1, c1))) /\ WF_noeudVars(Fait(P!FermerUn(c1, c1, m1)))
  /\ WF_noeudVars(Fait(\E b \in BOOLEAN : P!Terminer(c1, c1, b)))
  /\ WF_noeudVars(Fait(P!PoserMaintenance(a1)))
RelaisJuste ==
  LET Fait(A) == partie = "relais" /\ A IN
  /\ WF_relaisVars(Fait(L!Horloge))
  /\ \A c \in {c1, c2} :
       /\ WF_relaisVars(Fait(L!prendre(c))) /\ WF_relaisVars(Fait(L!recopier(c)))
       /\ WF_relaisVars(Fait(L!Refuser(c) \/ L!joindre(c)))
       /\ \A s \in L!Sens : /\ WF_relaisVars(Fait(L!Expirer(c, s)))
                            /\ WF_relaisVars(Fait(L!Debloquer(c, s)))
PiloteJuste ==
  LET Fait(A) == partie = "pilote" /\ A IN
  /\ WF_piloteVars(Fait(J!boucleDeCompteRendu)) /\ WF_piloteVars(Fait(J!Raccorder))
  /\ WF_piloteVars(Fait(J!demarrer(1)))
  /\ WF_piloteVars(Fait(\E m \in descendantsPilote : J!surConfiguration(m)))
  /\ WF_piloteVars(Fait(\E m \in montantsPilote : J!EnregistrerCompteRendu(m)))
  /\ \A f \in J!Fils : WF_piloteVars(Fait(J!RelaisDemandes(f)))
  /\ WF_piloteVars(Fait(J!LireListe(a1))) /\ WF_piloteVars(Fait(J!EcrireRelaisDemandes(a1)))
  /\ WF_piloteVars(Fait(J!PousserRelais(a1)))

Equitable ==
  /\ Ensemble
  /\ EnroleJuste /\ PurgeJuste /\ RelaisJuste /\ DemandeJuste
  /\ AgentJuste /\ TablesJuste /\ MajJuste /\ PiloteJuste

-----------------------------------------------------------------------------
(* What is asked ends: a purge reaches its end, a service is enrolled      *)
(* unless its keys are used up, a connection one end of which is gone      *)
(* gives its place back, a pushed cycle runs, whatever was lost or         *)
(* restarted before (purge.go, handshake.go, relay.go, demandes.go).       *)
ToutEstServi ==
  /\ partie = "purge" => P!DemandeServie
  /\ partie = "enrole" => E!FinitParEnroler
  /\ partie = "relais" => L!PlaceRendue
  /\ partie = "demande" => D!DemandeSuivie

(* Once nobody writes any more the two ends agree: the machine has what    *)
(* the core compiles from its tables, the core has no update left to       *)
(* order, the proxy runs the relays of the core (drift.go, merge.go,       *)
(* deploiement.go, pilotage.go).                                           *)
ToutConverge ==
  /\ partie = "agent" => C!Convergence
  /\ partie = "tables" => R!FinitConforme
  /\ partie = "maj" => <>[](U!Decider(ciblesMaj, declareeMaj, compteMaj) = 0)
  /\ partie = "pilote" => J!Converge
=============================================================================
