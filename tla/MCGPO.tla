------------------------------- MODULE MCGPO --------------------------------
(***************************************************************************)
(* The group policies: from the tables to what a core delivers             *)
(* (ResolutionGPO), from the core to the files of a machine (CycleGPO),    *)
(* and the pushed cycles (DemandesDeCycle).                                *)
(*                                                                         *)
(* A behaviour is one of the part "partie"; the others keep still.         *)
(***************************************************************************)
EXTENDS DemandesDeCycle

CONSTANTS
  Parties,   \* the parts of this run
  Hors,       \* what the variables hold of a part that does not run
  c1, c2, c3, m1, a1

VARIABLES
  partie,    \* the part that runs
  courante, transfert, versCore, versAgent, pc, demande, resultats, etat,
  disque, frais, aleasCycle,  \* CycleGPO
  gpo, modules, definitions, admin, lecture, enCours, livre, range, vus, compte  \* ResolutionGPO

cycleVars == <<courante, transfert, versCore, versAgent, pc, demande, resultats, etat,
                disque, frais, aleasCycle>>
resolutionVars == <<gpo, modules, definitions, admin, lecture, enCours, livre, range, vus, compte>>
demandesVars == vars
tout == <<partie, demandesVars, cycleVars, resolutionVars>>

\* Two modules that share one object, a third without object on the machine;
\* "u" is a setting both ask for, in every version.
MCOrdre == [base |-> <<"a", "b">>, suite |-> <<"a", "c", "b">>, veille |-> <<"b">>]
MCVersion == [base |-> [a |-> "a1", b |-> "b1"],
              suite |-> [a |-> "a2", b |-> "b1", c |-> "c1"],
              veille |-> [b |-> "b2"]]
MCAudit == [base |-> {}, suite |-> {"b"}, veille |-> {}]
MCEffet == [a |-> [a1 |-> [x |-> "x1", u |-> "oui"], a2 |-> [x |-> "x2", u |-> "oui"]],
            b |-> [b1 |-> [y |-> "y1", u |-> "oui"], b2 |-> [y |-> "y2"]],
            c |-> [c1 |-> [z |-> "z1"]]]
EnAvant == [base |-> {"suite", "veille"}, suite |-> {"veille"}, veille |-> {}]
Deux == BOOLEAN

C == INSTANCE CycleGPO WITH
  Cles <- {"a", "b", "c"}, Objets <- {"x", "y", "z", "u"}, Ordre <- MCOrdre,
  Version <- MCVersion, Audit <- MCAudit, Effet <- MCEffet, Suivantes <-
  EnAvant, Premiere <- "base", NonApplicables <- {"c"}, Fragments <- 2,
  MaxMains <- 1, MaxPannes <- 1, MaxArrets <- 1, MaxLenteurs <- 1, Aucun <-
  "aucun", aleas <- aleasCycle
T == INSTANCE ResolutionGPO WITH
  Cles <- {1, 2}, Reglages <- {1, 2}, Admins <- {a1}, Cores <- {c1}, MaxCoupures
  <- 0, NbPolitiques <- 3, Deja <- {}, MaxModules <- 6, MaxEcritures <- 0,
  MaxPannes <- 0, demande <- enCours
S == INSTANCE ResolutionGPO WITH
  Cles <- {1, 2}, Reglages <- {1, 2}, Admins <- {a1}, Cores <- {c1}, MaxCoupures
  <- 0, NbPolitiques <- 2, Deja <- {1}, MaxModules <- 3, MaxEcritures <- 4,
  MaxPannes <- 1, demande <- enCours

\* Every table of policies, in which no policy sets the same thing twice.
Contenus == [1..2 -> 0..2]
TablesInit ==
  /\ \E active, audit \in [1..3 -> BOOLEAN], contenu \in [1..3 -> Contenus] :
       /\ gpo = [p \in 1..3 |-> [la |-> TRUE, active |-> active[p], liee |-> TRUE,
                                 audit |-> audit[p], version |-> p]]
       /\ modules = {m \in {[id |-> (p - 1) * 2 + k, p |-> p, cle |-> k,
                              reglage |-> contenu[p][k]] : p \in 1..3, k \in 1..2} :
                       m.reglage # 0}
  /\ T!AuRepos(0)

ASSUME C!CycleGPOAssumption
ASSUME T!ResolutionAssumption /\ S!ResolutionAssumption

-----------------------------------------------------------------------------
(* A part that does not run keeps its variables as they are.              *)
cycleHors ==
  /\ courante = Hors /\ transfert = Hors /\ versCore = Hors /\ versAgent = Hors /\
     pc = Hors /\ demande = Hors /\ resultats = Hors /\ etat = Hors /\ disque
     = Hors /\ frais = Hors /\ aleasCycle = Hors
resolutionHors ==
  /\ gpo = Hors /\ modules = Hors /\ definitions = Hors /\ admin = Hors /\ lecture
     = Hors /\ enCours = Hors /\ livre = Hors /\ range = Hors /\ vus = Hors /\
     compte = Hors

Depart ==
  /\ partie \in Parties
  /\ Init
  /\ partie = "cycle" => C!Init
  /\ partie \notin {"cycle"} => cycleHors
  /\ partie = "tables" => TablesInit
  /\ partie = "seul" => S!Init
  /\ partie \notin {"tables", "seul"} => resolutionHors

Pas ==
  \/ partie = "demandes" /\ Next /\ UNCHANGED <<partie, cycleVars, resolutionVars>>
  \/ partie = "cycle" /\ C!Next /\ UNCHANGED <<partie, demandesVars, resolutionVars>>
  \/ partie = "tables" /\ (T!AskMachine(c1) \/ T!Servir(c1)) /\ UNCHANGED <<partie, demandesVars, cycleVars>>
  \/ partie = "seul" /\ S!Next /\ UNCHANGED <<partie, demandesVars, cycleVars>>

Ensemble == Depart /\ [][Pas]_tout

-----------------------------------------------------------------------------
(* The core never answers that nothing changed to a machine that lacks a   *)
(* module; the inventory says what was written; a policy is applied only   *)
(* if it was compiled since the cycle began; an audited drift is left as   *)
(* it is (apply.go, drift.go, chunk.go).                                   *)
CycleTenu ==
  partie = "cycle" => /\ C!TypeOK /\ C!PolitiqueTenue /\ C!InventaireFidele
                      /\ C!PolitiqueFraiche /\ C!AuditGarde

(* Of every table of policies the core delivers what its policies agree    *)
(* on; a policy never sets a thing twice nor names a definition that is    *)
(* gone (merge.go, add_module.go, delete_definition.go).                   *)
ResolutionTenue ==
  /\ partie = "tables" => T!LivraisonExacte
  /\ partie = "seul" => S!TypeOK /\ S!SansDoublon /\ S!DefinitionsTenues
=============================================================================
