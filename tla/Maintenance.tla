---------------------------- MODULE Maintenance ----------------------------
(***************************************************************************)
(* The maintenance of the nodes of a cluster, and the purge of their       *)
(* sessions: the rows of cluster_nodes, the gestures of the administrators *)
(* and the heartbeat of each core, which carries out the purges it reads.  *)
(*                                                                         *)
(* A purge of a core is made by this core; a purge of a proxy is made by   *)
(* every core, each on the tunnels that reach it through the proxy.  Both  *)
(* are the same purger, here one "tour" per core and per node: the core    *)
(* itself, or a proxy.  An instant stands for one period of the heartbeat, *)
(* and for the precision of the dates of the base.                         *)
(***************************************************************************)
EXTENDS Integers, FiniteSets

CONSTANTS
    Cores, Proxys,   \* the nodes
    Machines,        \* what holds a tunnel, one each
    Admins,          \* the administrators
    Fenetre,         \* how long a purge of a proxy may be started
    MaxInstant,      \* bound on time
    MaxDemandes,     \* bound on the purges asked for
    MaxGestes,       \* bound on the gestures of maintenance and exposure
    MaxPannes,       \* bound on the stops of a core and on refused writes
    Espacees         \* no two purges of a node are asked in the same instant

NoeudsDistincts ==
    /\ Cores \cap Proxys = {}
    /\ IsFiniteSet(Cores) /\ IsFiniteSet(Proxys) /\ IsFiniteSet(Machines)
    /\ Fenetre \in Nat \ {0}
    /\ MaxInstant \in Nat /\ MaxDemandes \in Nat
    /\ MaxGestes \in Nat /\ MaxPannes \in Nat
    /\ Espacees \in BOOLEAN

VARIABLES
    ligne,      \* cluster_nodes: one record per node
    instant,    \* NOW()
    vit,        \* the cores that run
    tour,       \* the memory of each core: its tour for itself and each proxy
    tunnel,     \* where each machine is connected
    admin,      \* the gesture of maintenance an administrator is making
    faits,      \* the requests each process has started, since it started
    bilan,      \* by request: the tunnels its tours closed, the cores that ended it
    usage       \* the bounds: requests, gestures, failures

vars == <<ligne, instant, vit, tour, tunnel, admin, faits, bilan, usage>>

Noeuds   == Cores \cup Proxys
Absent   == [core |-> "nul", par |-> "nul"]
\* A request has a number, the model's own, and the date the base gives it.
Demandes == 1..MaxDemandes
Tours(c) == {c} \cup Proxys

LigneNeuve == [la |-> TRUE, enLigne |-> TRUE, expose |-> TRUE, maint |-> FALSE,
               num |-> 0, dem |-> 0, term |-> 0, ferm |-> 0, battu |-> 1]
TourRepos  == [faite |-> 0, phase |-> "repos", num |-> 0, dem |-> 0,
               reste |-> {}, fermes |-> 0]
GesteRepos == [pc |-> "repos", cible |-> "nul", confirme |-> FALSE]

TypeOK ==
    /\ ligne \in [Noeuds -> [la : BOOLEAN, enLigne : BOOLEAN, expose : BOOLEAN,
                             maint : BOOLEAN, num : Nat, dem : Nat, term : Nat,
                             ferm : Nat, battu : Nat]]
    /\ instant \in 1..MaxInstant + 1
    /\ vit \subseteq Cores
    /\ \A c \in Cores : DOMAIN tour[c] = Tours(c)
    /\ \A c \in Cores : \A k \in Tours(c) :
          /\ tour[c][k].phase \in {"repos", "lancee", "ferme"}
          /\ tour[c][k].reste \subseteq Machines
    /\ tunnel \in [Machines -> {Absent} \cup [core : Cores, par : Proxys \cup {"nul"}]]
    /\ \A a \in Admins : admin[a].pc \in {"repos", "poser"}

Init ==
    /\ ligne = [n \in Noeuds |-> LigneNeuve]
    /\ instant = 1
    /\ vit = Cores
    /\ tour = [c \in Cores |-> [k \in Tours(c) |-> TourRepos]]
    /\ tunnel = [m \in Machines |-> Absent]
    /\ admin = [a \in Admins |-> GesteRepos]
    /\ faits = [c \in Cores |-> [k \in Tours(c) |-> {}]]
    /\ bilan = [d \in Demandes |-> [fermes |-> 0, finis |-> {}]]
    /\ usage = [demandes |-> 0, gestes |-> 0, pannes |-> 0]

(***************************************************************************)
(* The lists and the guard of the last core.                               *)
(***************************************************************************)
\* What the agents are given; the cores among them.
Servis      == {n \in Noeuds : /\ ligne[n].la /\ ligne[n].enLigne
                               /\ ligne[n].expose /\ ~ligne[n].maint}
CoresServis == Servis \cap Cores

(* Mutant of CoresDisponiblesHors: the node that leaves is counted. *)
CoresDisponiblesHors_compris(h) == Cardinality(CoresServis)

\* How many cores stay served when h leaves.
CoresDisponiblesHors(h) == Cardinality(CoresServis \ {h})

\* The gesture "maintenance on", first half: the role, then the count.
DemanderMaintenance(a, n, confirme) ==
    /\ admin[a].pc = "repos"
    /\ ligne[n].la
    /\ usage.gestes < MaxGestes
    /\ n \in Cores => (CoresDisponiblesHors(n) > 0 \/ confirme)
    /\ admin' = [admin EXCEPT ![a] = [pc |-> "poser", cible |-> n, confirme |-> confirme]]
    /\ usage' = [usage EXCEPT !.gestes = @ + 1]
    /\ UNCHANGED <<ligne, instant, vit, tour, tunnel, faits, bilan>>

\* Second half, another statement: the row is written.  A row that has gone
\* is an unknown node.
PoserMaintenance(a) ==
    /\ admin[a].pc = "poser"
    /\ ligne' = IF ligne[admin[a].cible].la
                THEN [ligne EXCEPT ![admin[a].cible].maint = TRUE]
                ELSE ligne
    /\ admin' = [admin EXCEPT ![a] = GesteRepos]
    /\ UNCHANGED <<instant, vit, tour, tunnel, faits, bilan, usage>>

LeverMaintenance(a, n) ==
    /\ admin[a].pc = "repos"
    /\ ligne[n].la
    /\ usage.gestes < MaxGestes
    /\ ligne' = [ligne EXCEPT ![n].maint = FALSE]
    /\ usage' = [usage EXCEPT !.gestes = @ + 1]
    /\ UNCHANGED <<instant, vit, tour, tunnel, admin, faits, bilan>>

\* The rotation is another setting, with no guard of its own.
ReglerExposition(a, n, b) ==
    /\ admin[a].pc = "repos"
    /\ ligne[n].la /\ ligne[n].expose # b
    /\ usage.gestes < MaxGestes
    /\ ligne' = [ligne EXCEPT ![n].expose = b]
    /\ usage' = [usage EXCEPT !.gestes = @ + 1]
    /\ UNCHANGED <<instant, vit, tour, tunnel, admin, faits, bilan>>

\* An administrator forgets a node that is off line and silent.
OublierNoeud(a, n) ==
    /\ admin[a].pc = "repos"
    /\ ligne[n].la /\ ~ligne[n].enLigne
    /\ ligne[n].battu + 1 < instant
    /\ ligne' = [ligne EXCEPT ![n].la = FALSE]
    /\ UNCHANGED <<instant, vit, tour, tunnel, admin, faits, bilan, usage>>

(* Mutant of DemanderPurge: the count of the former purge stays. *)
DemanderPurge_cumul(n) ==
    /\ ligne[n].la /\ ligne[n].maint
    /\ usage.demandes < MaxDemandes
    /\ Espacees => ligne[n].dem # instant
    /\ usage' = [usage EXCEPT !.demandes = @ + 1]
    /\ ligne' = [ligne EXCEPT ![n].num = usage.demandes + 1, ![n].dem = instant,
                              ![n].term = 0]
    /\ UNCHANGED <<instant, vit, tour, tunnel, admin, faits, bilan>>

\* A purge is asked for: the two conditions are those of the statement.
DemanderPurge(n) ==
    /\ ligne[n].la /\ ligne[n].maint
    /\ usage.demandes < MaxDemandes
    /\ Espacees => ligne[n].dem # instant
    /\ usage' = [usage EXCEPT !.demandes = @ + 1]
    /\ ligne' = [ligne EXCEPT ![n] = [@ EXCEPT !.num = usage.demandes + 1,
                                              !.dem = instant,
                                              !.term = 0,
                                              !.ferm = 0]]
    /\ UNCHANGED <<instant, vit, tour, tunnel, admin, faits, bilan>>

(* Mutant of LigneBattue: a registration puts the defaults back. *)
LigneBattue_defauts(l) == [LigneNeuve EXCEPT !.battu = instant, !.num = l.num, !.dem = l.dem]

(***************************************************************************)
(* The heartbeat of a core.                                                *)
(***************************************************************************)
\* The row is dated and put on line; one that has gone is created anew.
LigneBattue(l) ==
    IF l.la THEN [l EXCEPT !.enLigne = TRUE, !.battu = instant]
            ELSE [LigneNeuve EXCEPT !.battu = instant]

PurgeEnCours(l) == l.dem # 0 /\ (l.term = 0 \/ l.term < l.dem)

\* What the core c reads it has to do for the node k.
Demandee(c, k, l) ==
    /\ l.la /\ l.maint
    /\ IF k = c THEN PurgeEnCours(l)
                ELSE l.dem # 0 /\ instant < l.dem + Fenetre

\* Not the request already started by this process, and one tour at a time.
ALancer(c, k, l) ==
    /\ tour[c][k].phase = "repos"
    /\ Demandee(c, k, l)
    /\ tour[c][k].faite # l.dem

(* Mutant of Lance: the request carried out is not remembered. *)
Lance_oublie(t, l) == [t EXCEPT !.phase = "lancee", !.dem = l.dem, !.num = l.num,
                                !.reste = {}, !.fermes = 0]

Lance(t, l) == [t EXCEPT !.phase = "lancee", !.faite = l.dem, !.dem = l.dem,
                         !.num = l.num, !.reste = {}, !.fermes = 0]

Battement(c) ==
    /\ c \in vit
    /\ ligne[c].battu # instant \/ ~ligne[c].la
       \/ \E k \in Tours(c) : ALancer(c, k, ligne[k])
    /\ LET apres == [ligne EXCEPT ![c] = LigneBattue(@)] IN
       /\ ligne' = apres
       /\ tour' = [tour EXCEPT ![c] =
             [k \in Tours(c) |-> IF ALancer(c, k, apres[k])
                                 THEN Lance(tour[c][k], apres[k])
                                 ELSE tour[c][k]]]
       /\ faits' = [faits EXCEPT ![c] =
             [k \in Tours(c) |-> IF ALancer(c, k, apres[k])
                                 THEN faits[c][k] \cup {apres[k].num}
                                 ELSE faits[c][k]]]
    /\ UNCHANGED <<instant, vit, tunnel, admin, bilan, usage>>

(***************************************************************************)
(* The purger: it warns every machine of the view, waits for the grace if  *)
(* one was warned, lists what is left and closes it one by one.            *)
(***************************************************************************)
Vue(c, k) ==
    {m \in Machines : tunnel[m].core = c /\ (k # c => tunnel[m].par = k)}

\* The warning and the grace: what leaves by itself leaves meanwhile.
Lister(c, k) ==
    /\ c \in vit
    /\ tour[c][k].phase = "lancee"
    /\ tour' = [tour EXCEPT ![c][k] = [@ EXCEPT !.phase = "ferme", !.reste = Vue(c, k)]]
    /\ UNCHANGED <<ligne, instant, vit, tunnel, admin, faits, bilan, usage>>

\* One closing: a tunnel that has left since, or that comes by another way,
\* is not closed and not counted.
FermerUn(c, k, m) ==
    /\ c \in vit
    /\ tour[c][k].phase = "ferme"
    /\ m \in tour[c][k].reste
    /\ IF m \in Vue(c, k)
       THEN /\ tunnel' = [tunnel EXCEPT ![m] = Absent]
            /\ tour' = [tour EXCEPT ![c][k] = [@ EXCEPT !.reste = tour[c][k].reste \ {m},
                                                    !.fermes = tour[c][k].fermes + 1]]
            /\ bilan' = [bilan EXCEPT ![tour[c][k].num].fermes = @ + 1]
       ELSE /\ tour' = [tour EXCEPT ![c][k].reste = @ \ {m}]
            /\ UNCHANGED <<tunnel, bilan>>
    /\ UNCHANGED <<ligne, instant, vit, admin, faits, usage>>

(* Mutant of LigneTerminee: the end is written whatever the request. *)
LigneTerminee_sansDate(l, t, propre) ==
    IF l.la THEN [l EXCEPT !.term = instant,
                           !.ferm = IF propre THEN t.fermes ELSE @ + t.fermes]
            ELSE l

(* Mutant of LigneTerminee: the tunnels left are counted down. *)
LigneTerminee_retire(l, t, propre) ==
    IF l.la /\ l.dem = t.dem THEN [l EXCEPT !.term = instant, !.ferm = @ - t.fermes] ELSE l

\* The end is written on the row if the request is still this one: a core
\* writes its count, a part of a proxy adds its own.
LigneTerminee(l, t, propre) ==
    IF l.la /\ l.dem = t.dem
    THEN [l EXCEPT !.term = instant,
                   !.ferm = IF propre THEN t.fermes ELSE @ + t.fermes]
    ELSE l

Terminer(c, k, ecrit) ==
    /\ c \in vit
    /\ tour[c][k].phase = "ferme" /\ tour[c][k].reste = {}
    /\ ~ecrit => usage.pannes < MaxPannes
    /\ ligne' = IF ecrit
                THEN [ligne EXCEPT ![k] = LigneTerminee(@, tour[c][k], k = c)]
                ELSE ligne
    /\ tour' = [tour EXCEPT ![c][k] = [@ EXCEPT !.phase = "repos", !.fermes = 0]]
    /\ bilan' = [bilan EXCEPT ![tour[c][k].num].finis = @ \cup {c}]
    /\ usage' = [usage EXCEPT !.pannes = IF ecrit THEN @ ELSE @ + 1]
    /\ UNCHANGED <<instant, vit, tunnel, admin, faits>>

(***************************************************************************)
(* What surrounds them: machines that come and go, cores that stop, the    *)
(* clean-up of the rows and time.                                          *)
(***************************************************************************)
Connecter(m, c, p) ==
    /\ tunnel[m] = Absent /\ c \in vit
    /\ tunnel' = [tunnel EXCEPT ![m] = [core |-> c, par |-> p]]
    /\ UNCHANGED <<ligne, instant, vit, tour, admin, faits, bilan, usage>>

Partir(m) ==
    /\ tunnel[m] # Absent
    /\ tunnel' = [tunnel EXCEPT ![m] = Absent]
    /\ UNCHANGED <<ligne, instant, vit, tour, admin, faits, bilan, usage>>

Arreter(c) ==
    /\ c \in vit
    /\ usage.pannes < MaxPannes
    /\ vit' = vit \ {c}
    /\ tunnel' = [m \in Machines |-> IF tunnel[m].core = c THEN Absent ELSE tunnel[m]]
    /\ tour' = [tour EXCEPT ![c] = [k \in Tours(c) |-> TourRepos]]
    /\ faits' = [faits EXCEPT ![c] = [k \in Tours(c) |-> {}]]
    /\ usage' = [usage EXCEPT !.pannes = @ + 1]
    /\ UNCHANGED <<ligne, instant, admin, bilan>>

\* The start of a core registers it: the row it finds is put on line again
\* with the settings an administrator gave it.
Demarrer(c) ==
    /\ c \notin vit
    /\ vit' = vit \cup {c}
    /\ ligne' = [ligne EXCEPT ![c] = LigneBattue(@)]
    /\ UNCHANGED <<instant, tour, tunnel, admin, faits, bilan, usage>>

\* A silent node is off line; after a long silence its row goes.
CleanupStaleNodes(n, oubli) ==
    /\ ligne[n].la
    /\ ligne[n].battu + 1 < instant
    /\ \/ /\ ~oubli /\ ligne[n].enLigne
          /\ ligne' = [ligne EXCEPT ![n].enLigne = FALSE]
       \/ /\ oubli /\ ~ligne[n].enLigne
          /\ ligne[n].battu + 2 < instant
          /\ ligne' = [ligne EXCEPT ![n].la = FALSE]
    /\ UNCHANGED <<instant, vit, tour, tunnel, admin, faits, bilan, usage>>

\* Each core that runs beats once per instant; the proxies beat too.
Avancer ==
    /\ instant <= MaxInstant
    /\ \A c \in vit : ligne[c].la /\ ligne[c].battu = instant
    /\ instant' = instant + 1
    /\ ligne' = [n \in Noeuds |-> IF n \in Proxys
                                  THEN [ligne[n] EXCEPT !.battu = instant + 1]
                                  ELSE ligne[n]]
    /\ UNCHANGED <<vit, tour, tunnel, admin, faits, bilan, usage>>

Next ==
    \/ \E a \in Admins, n \in Noeuds :
          \/ \E b \in BOOLEAN : DemanderMaintenance(a, n, b) \/ ReglerExposition(a, n, b)
          \/ LeverMaintenance(a, n)
          \/ OublierNoeud(a, n)
    \/ \E a \in Admins : PoserMaintenance(a)
    \/ \E n \in Noeuds : DemanderPurge(n)
    \/ \E n \in Noeuds, b \in BOOLEAN : CleanupStaleNodes(n, b)
    \/ \E c \in Cores :
          \/ Battement(c) \/ Arreter(c) \/ Demarrer(c)
          \/ \E k \in Tours(c) :
                \/ Lister(c, k)
                \/ \E m \in Machines : FermerUn(c, k, m)
                \/ \E b \in BOOLEAN : Terminer(c, k, b)
          \/ \E m \in Machines, p \in Proxys \cup {"nul"} : Connecter(m, c, p)
    \/ \E m \in Machines : Partir(m)
    \/ Avancer

\* A core that runs beats, and its purger ends each of its sleeps; a core
\* that stopped is started again.
Equite ==
    /\ \A c \in Cores : /\ WF_vars(Battement(c)) /\ WF_vars(Demarrer(c))
                        /\ \A k \in Tours(c) :
                              /\ WF_vars(Lister(c, k))
                              /\ \A m \in Machines : WF_vars(FermerUn(c, k, m))
                              /\ WF_vars(\E b \in BOOLEAN : Terminer(c, k, b))
    /\ \A a \in Admins : WF_vars(PoserMaintenance(a))

Spec == Init /\ [][Next]_vars
SpecJuste == Spec /\ Equite
(***************************************************************************)
(* Properties.                                                             *)
(***************************************************************************)
\* A request for a purge is not started twice by the same process, even when
\* its end could not be written and the row says it is still to be done
\* (derniereFaite, partsFaites).
LanceeUneFois ==
    \A c \in Cores : \A k \in Tours(c) :
       (tour[c][k].phase = "repos" /\ tour'[c][k].phase = "lancee")
          => tour'[c][k].num \notin faits[c][k]
UneFoisParProcessus == [][LanceeUneFois]_vars

\* What the row says is done was done: a purge of a core is marked ended
\* only when this core has ended that very request, that of a proxy when one
\* core at least has ended its part of it (the date in the statements of
\* TerminerPurge and TerminerPartDePurge).
TermineeVraie ==
    \A n \in Noeuds :
       (ligne[n].la /\ ligne[n].dem # 0 /\ ~PurgeEnCours(ligne[n]))
          => IF n \in Cores THEN n \in bilan[ligne[n].num].finis
                            ELSE bilan[ligne[n].num].finis # {}

\* The count shown to the administrator never exceeds the tunnels really
\* closed for the request it shows, whatever cores added their parts, earlier
\* requests ended late or cores started their part again.
CompteHonnete ==
    \A n \in Noeuds :
       (ligne[n].la /\ ligne[n].dem # 0) => ligne[n].ferm <= bilan[ligne[n].num].fermes

\* A gesture of maintenance empties the list of the cores only when its
\* author accepted it (the guard of the last core in reglerMaintenance).
\* With one administrator at a time and cores that stay up, the count and the
\* write see the same rows.
ListeVideAssumee ==
    (CoresServis # {} /\ CoresServis' = {} /\ \E n \in Cores :
       ~ligne[n].maint /\ ligne'[n].maint)
       => \E a \in Admins : admin[a].pc = "poser" /\ admin[a].confirme
DernierCoreAssume == [][ListeVideAssumee]_vars

\* A decision of maintenance survives everything but the gesture that lifts
\* it and the forgetting of the node: heartbeats, restarts and registrations
\* of the node, marks of other nodes as off line.
MaintenanceGardee ==
    \A n \in Noeuds : (ligne[n].la /\ ligne[n].maint /\ ligne'[n].la /\ ~ligne'[n].maint)
       => usage'.gestes = usage.gestes + 1
MaintenanceTient == [][MaintenanceGardee]_vars

\* Every request for the purge of a core is carried out to its end, unless
\* another one replaces it, the maintenance is lifted or the node is
\* forgotten: a restart in the middle, an end that was not written and a
\* request made while another is carried out do not lose it.
DemandeServie ==
    \A c \in Cores, d \in Demandes :
       (ligne[c].la /\ ligne[c].num = d /\ ligne[c].maint)
          ~> \/ c \in bilan[d].finis
             \/ ligne[c].num # d
             \/ ~ligne[c].maint
             \/ ~ligne[c].la

\* The same of a proxy: every core that runs makes its part (the window of
\* PurgesDeProxiesEnCours is said to cover a missed heartbeat and the longest
\* spread).
PartsFaites ==
    \A c \in Cores, p \in Proxys, d \in Demandes :
       (ligne[p].num = d /\ ligne[p].maint)
          ~> \/ c \in bilan[d].finis
             \/ ligne[p].num # d
             \/ ~ligne[p].maint

\* "Une maintenance levee pendant la purge l'interrompt": no tunnel is closed
\* by the purge of a node whose row is not in maintenance.
LeveeEcoutee ==
    \A c \in Cores : \A k \in Tours(c) :
       (ligne[k].la /\ ~ligne[k].maint)
          => tour'[c][k].fermes <= tour[c][k].fermes
LeveeInterrompt == [][LeveeEcoutee]_vars
=============================================================================
