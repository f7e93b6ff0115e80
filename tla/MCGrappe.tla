------------------------------ MODULE MCGrappe ------------------------------
(***************************************************************************)
(* The cores and the proxies together: the connections a proxy relays      *)
(* (Relais), the list of relays a core gives it (RelaisPilotes), the       *)
(* maintenance of a node and the purge of its tunnels (Maintenance).       *)
(*                                                                         *)
(* A behaviour is one of the part "partie"; the others keep still.         *)
(***************************************************************************)
EXTENDS Relais

CONSTANTS
  Parties,   \* the parts of this run
  Hors,      \* what the variables hold of a part that does not run
  a1,        \* the administrator that is alone
  c1,        \* the core that is alone
  m1,        \* the machine that is alone
  Admins,    \* the administrators, of the relays and of the nodes
  Ports, Annonces, Empruntables, MaxRevision, MaxRapports, MaxMessages, MaxOublis,  \* RelaisPilotes
  Cores, Proxys, Machines, Fenetre, MaxInstant, MaxDemandes, MaxGestes, Espacees,   \* Maintenance
  MaxPannes  \* faults of a proxy, and of the cores

VARIABLES
  partie,    \* the part that runs
  base, rapport, inscrit, proxy, copie, pris, fil, montants, descendants, lien,
  pannes, oublis,  \* RelaisPilotes
  ligne, instant, vit, tour, tunnel, admin, faits, bilan, usage  \* Maintenance

piloteVars == <<base, rapport, inscrit, proxy, copie, pris, fil, montants, descendants, lien,
                 pannes, oublis>>
maintenanceVars == <<ligne, instant, vit, tour, tunnel, admin, faits, bilan, usage>>
relaisVars == vars
tout == <<partie, relaisVars, piloteVars, maintenanceVars>>

Large  == [max |-> 2, parSource |-> 2, inactivite |-> 2]
Etroit == [max |-> 1, parSource |-> 1, inactivite |-> 1]
DeuxReglages == {Large, Etroit}

R == INSTANCE RelaisPilotes
M == INSTANCE Maintenance

(* Bounds of a part of the piloted relays: so many revisions, messages and *)
(* faults; no other program on the ports, nothing forgotten.               *)
Envois(revisions, messages, arrets) ==
  base'.revision <= revisions /\ Cardinality(descendants') <= messages /\ pannes' <= arrets
PortsLibres == pris' = {}
JamaisOublie == oublis' = 0

(* Bounds of a part of the maintenance: until an instant; the machines of a *)
(* set alone connect; the administrators deal with one core alone, which   *)
(* serves alone (the others only beat, and beat first).                    *)
Jusque(gestes, arrets, demandes, fin) ==
  /\ usage'.gestes <= gestes /\ usage'.pannes <= arrets
  /\ usage'.demandes <= demandes /\ instant' <= fin + 1
Servies(machines) == \A m \in Machines \ machines : tunnel'[m] = M!Absent
UnCoeur(c) ==
  /\ \A a \in Admins : admin'[a].pc = "poser" => admin'[a].cible = c
  /\ Cores \ {c} \subseteq vit'
  /\ \A n \in M!Noeuds \ {c} : ligne'[n] = [M!LigneNeuve EXCEPT !.battu = ligne'[n].battu]
  /\ \A m \in Machines : tunnel'[m] \in {M!Absent, [core |-> c, par |-> "nul"]}
  /\ \/ \A n \in Cores \ {c} : ligne[n].battu = instant
     \/ \E n \in Cores \ {c} : ligne'[n] # ligne[n]
SansProxy ==
  /\ \A a \in Admins : admin'[a].cible \notin Proxys
  /\ \A n \in Proxys : ligne'[n] = [M!LigneNeuve EXCEPT !.battu = ligne'[n].battu]
Seul == Admins = {a1}

Pilotes == {"ducky", "revision", "reprise"}       \* the parts of the piloted relays
Purges == {"purge", "parts", "garde", "oubli"}    \* the parts of the maintenance

ASSUME BornesDesPilotes == R!BornesAssumption
ASSUME BornesDesNoeuds == M!NoeudsDistincts

-----------------------------------------------------------------------------
(* A part that does not run keeps its variables as they are.              *)
piloteHors ==
  /\ base = Hors /\ rapport = Hors /\ inscrit = Hors /\ proxy = Hors /\ copie =
     Hors /\ pris = Hors /\ fil = Hors /\ montants = Hors /\ descendants =
     Hors /\ lien = Hors /\ pannes = Hors /\ oublis = Hors
maintenanceHors ==
  /\ ligne = Hors /\ instant = Hors /\ vit = Hors /\ tour = Hors /\ tunnel = Hors
     /\ admin = Hors /\ faits = Hors /\ bilan = Hors /\ usage = Hors

Depart ==
  /\ partie \in Parties
  /\ Init
  /\ IF partie \in Pilotes THEN R!Init ELSE piloteHors
  /\ IF partie \in Purges THEN M!Init ELSE maintenanceHors

Pas ==
  \/ partie = "relais" /\ Next /\ UNCHANGED <<partie, piloteVars, maintenanceVars>>
  \/ partie = "ducky" /\ R!Next /\ Envois(2, 1, 1) /\ UNCHANGED <<partie, relaisVars, maintenanceVars>>
  \/ partie = "revision" /\ R!Next /\ PortsLibres /\ JamaisOublie /\ Envois(3, 2, 0)
     /\ UNCHANGED <<partie, relaisVars, maintenanceVars>>
  \/ partie = "reprise" /\ R!Next /\ PortsLibres /\ JamaisOublie /\ Envois(3, 1, 1)
     /\ UNCHANGED <<partie, relaisVars, maintenanceVars>>
  \/ partie = "purge" /\ M!Next /\ Jusque(2, 1, 2, 2) /\ UnCoeur(c1)
     /\ UNCHANGED <<partie, relaisVars, piloteVars>>
  \/ partie = "parts" /\ M!Next /\ Jusque(1, 1, 2, 2) /\ Servies({m1})
     /\ UNCHANGED <<partie, relaisVars, piloteVars>>
  \/ partie = "garde" /\ M!Next /\ Jusque(3, 0, 1, 1) /\ Servies({}) /\ SansProxy /\ Seul
     /\ UNCHANGED <<partie, relaisVars, piloteVars>>
  \/ partie = "oubli" /\ M!Next /\ Jusque(2, 2, 2, 3) /\ Servies({m1}) /\ UnCoeur(c1)
     /\ UNCHANGED <<partie, relaisVars, piloteVars>>

Ensemble == Depart /\ [][Pas]_tout

-----------------------------------------------------------------------------
(* While a proxy runs its Ducky relay listens on the port the agents are   *)
(* told of and, as long as its node was not forgotten, one that says it    *)
(* applies the revision of the core has the list of the core (pilotage,    *)
(* cluster_database/relais.go).                                            *)
PilotageTenu ==
  partie \in Pilotes =>
    R!TypeOK /\ R!DuckyToujoursOuvert /\ (oublis = 0 => R!RevisionVautListe)

(* A purge marked as ended was ended, and the tunnels it counts were       *)
(* closed for it, with several cores, proxies, restarts and refused        *)
(* writes (cluster/purge.go, cluster_database/maintenance.go).             *)
PurgeVraie == partie \in Purges => M!TypeOK /\ M!TermineeVraie /\ M!CompteHonnete

(* No process starts a purge twice; heartbeats, restarts and marks of      *)
(* absence leave the maintenance in place; with one administrator and no   *)
(* fault, a gesture empties the list of cores only when its author         *)
(* accepted it (actions_cluster_maintenance.go).                           *)
MaintenanceTient ==
  [][/\ partie \in Purges => M!LanceeUneFois /\ M!MaintenanceGardee
     /\ partie = "garde" => M!ListeVideAssumee]_tout
=============================================================================
