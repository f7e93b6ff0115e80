----------------------------- MODULE RelaisPilotes -----------------------------
(***************************************************************************)
(* The relays of a proxy, piloted by the core: administrators write a list *)
(* under a revision, the core sends it by a push or in answer to a report, *)
(* the proxy applies it, keeps a copy on disk and reports what it got.     *)
(*                                                                         *)
(* The core reads the state of the demand and its rows in two statements;  *)
(* the proxy serves each 04_19 from a goroutine of its own, so messages    *)
(* are applied in any order, or lost. A list is a set of relays: the Ducky *)
(* one and at most one other, known by their name and their port.          *)
(***************************************************************************)
EXTENDS Integers, FiniteSets

CONSTANTS
  Admins,        \* administrators at work
  Ports,         \* ports of the machine of the proxy
  Annonces,      \* ports the proxy may be started to announce (-listen-port)
  Empruntables,  \* ports another program may take
  MaxRevision, MaxRapports, MaxMessages, MaxPannes, MaxOublis

BornesAssumption ==
  /\ Annonces \subseteq Ports /\ Empruntables \subseteq Ports
  /\ {MaxRevision, MaxRapports, MaxMessages, MaxPannes, MaxOublis} \subseteq Nat

Relai(n, p) == [nom |-> n, port |-> p]
Ducky(p) == {Relai("ducky", p)}
Listes == {l \in SUBSET [nom : {"ducky", "https"}, port : Ports] :
             \A r, s \in l : r # s => r.nom # s.nom /\ r.port # s.port}

VARIABLES
  base,      \* cluster_relay_state and cluster_relays of this proxy
  rapport,   \* the last report in the row: a record, or the empty set
  inscrit,   \* the node is in cluster_nodes
  proxy,     \* memory of the proxy
  copie,     \* its copy on disk: revision 0 when there is none
  pris,      \* ports held by other programs
  fil,       \* what the handler of 04_18 and each administrator are doing
  montants,  \* 04_18 on their way
  descendants, \* 04_19 on their way, or in their goroutine
  lien,      \* the proxy has a session on this core
  pannes, oublis \* faults and forgettings so far (bounds)

vars == <<base, rapport, inscrit, proxy, copie, pris, fil, montants, descendants, lien,
          pannes, oublis>>

Fils == Admins \cup {"04_18"}
SansRapport == [origine |-> "aucun", revision |-> 0, refusee |-> 0, annonce |-> 0, actifs |-> {}]
Inerte == [pc |-> "repos", vu |-> SansRapport, pilote |-> FALSE, revision |-> 0, liste |-> {}]

TypeOK ==
  /\ base \in [pilote : BOOLEAN, revision : 0..MaxRevision, liste : Listes]
  /\ inscrit \in BOOLEAN /\ lien \in BOOLEAN
  /\ proxy \in [vit : BOOLEAN, annonce : Annonces, origine : {"core", "fichier"},
                revision : 0..MaxRevision, refusee : 0..MaxRevision,
                demande : Listes, parc : Listes]
  /\ copie \in [revision : 0..MaxRevision, liste : Listes]
  /\ pris \subseteq Empruntables
  /\ \A f \in Fils : fil[f].pc \in {"repos", "base", "ecrire", "pousser", "etat", "liste"}
  /\ Cardinality(montants) <= MaxRapports /\ Cardinality(descendants) <= MaxMessages

Init ==
  /\ base = [pilote |-> FALSE, revision |-> 0, liste |-> {}]
  /\ rapport = SansRapport /\ inscrit = TRUE
  /\ \E a \in Annonces :
       proxy = [vit |-> TRUE, annonce |-> a, origine |-> "fichier", revision |-> 0,
                refusee |-> 0, demande |-> Ducky(a), parc |-> Ducky(a)]
  /\ copie = [revision |-> 0, liste |-> {}]
  /\ pris = {} /\ montants = {} /\ descendants = {}
  /\ fil = [f \in Fils |-> Inerte]
  /\ lien = TRUE /\ pannes = 0 /\ oublis = 0

-----------------------------------------------------------------------------
(* The proxy: what a list becomes (Parc.Appliquer, under its mutex).       *)
Trier(l, a) == {r \in l : r.nom = "ducky" => r.port = a}

(* Mutant of PorteUnRelaisDucky. *)
PorteUnRelaisDucky_oubli(l) == l \in Listes

PorteUnRelaisDucky(l) == \E r \in l : r.nom = "ducky"

(* Port of a listening relay of another name, or of another program.       *)
Occupe(r, parc) == r.port \in pris \/ \E a \in parc : a.nom # r.nom /\ a.port = r.port

(* Relays out of the list are closed first; one that moves opens its new   *)
(* port before it closes the old one, and stays where it is on a refusal.  *)
Parc(l, parc) ==
  LET gardes == {a \in parc : \E r \in l : r.nom = a.nom}
  IN {r \in l : r \in gardes \/ ~Occupe(r, gardes)}
       \cup {a \in gardes : \E r \in l : r.nom = a.nom /\ r # a /\ Occupe(r, gardes)}

Rapport(p) == [origine |-> p.origine, revision |-> p.revision, refusee |-> p.refusee,
               annonce |-> p.annonce, actifs |-> p.parc]

(* A report leaves when there is a session; it may be lost with it.        *)
rendreCompte(p) ==
  montants' = IF lien /\ Cardinality(montants) < MaxRapports
                THEN montants \cup {Rapport(p)} ELSE montants

(* The copy is written beside and renamed, or removed; a failure keeps the *)
(* old one and is only logged.                                             *)
garderCopie(c) ==
  \/ copie' = c /\ UNCHANGED pannes
  \/ pannes < MaxPannes /\ pannes' = pannes + 1 /\ UNCHANGED copie

appliquerDuCore(m) ==
  LET l == Trier(m.liste, proxy.annonce)
  IN IF proxy.origine = "core" /\ proxy.revision = m.revision
       THEN UNCHANGED <<proxy, copie, pannes>>
     ELSE IF ~PorteUnRelaisDucky(l)
       THEN proxy' = [proxy EXCEPT !.refusee = m.revision] /\ UNCHANGED <<copie, pannes>>
     ELSE /\ proxy' = [proxy EXCEPT !.origine = "core", !.revision = m.revision, !.refusee = 0,
                          !.demande = m.liste, !.parc = Parc(l, proxy.parc)]
          /\ garderCopie([revision |-> m.revision, liste |-> m.liste])

(* The file is the default one: one Ducky relay on the announced port.     *)
revenirAuFichier ==
  IF proxy.origine = "fichier" THEN UNCHANGED <<proxy, copie, pannes>>
  ELSE /\ proxy' = [proxy EXCEPT !.origine = "fichier", !.revision = 0, !.refusee = 0,
                       !.demande = Ducky(proxy.annonce),
                       !.parc = Parc(Ducky(proxy.annonce), proxy.parc)]
       /\ garderCopie([revision |-> 0, liste |-> {}])

(* surConfiguration, in the goroutine of the message, under pilote.mu.     *)
surConfiguration(m) ==
  /\ proxy.vit /\ m \in descendants
  /\ descendants' = descendants \ {m}
  /\ IF m.mode = "core" THEN appliquerDuCore(m) ELSE revenirAuFichier
  /\ rendreCompte(proxy')
  /\ UNCHANGED <<base, rapport, inscrit, pris, fil, lien, oublis>>

boucleDeCompteRendu ==
  /\ proxy.vit /\ lien
  /\ Rapport(proxy) \notin montants
  /\ Cardinality(montants) < MaxRapports
  /\ rendreCompte(proxy)
  /\ UNCHANGED <<base, rapport, inscrit, proxy, copie, pris, fil, descendants, lien, pannes, oublis>>

-----------------------------------------------------------------------------
(* Faults of the proxy and of its link.                                    *)
Arreter ==
  /\ pannes < MaxPannes /\ proxy.vit
  /\ proxy' = [proxy EXCEPT !.vit = FALSE, !.parc = {}]
  /\ lien' = FALSE /\ montants' = {} /\ descendants' = {}
  /\ pannes' = pannes + 1
  /\ UNCHANGED <<base, rapport, inscrit, copie, pris, fil, oublis>>

(* demarrer: the copy when its Ducky relay opens, the file otherwise; the  *)
(* program does not start when a relay of its file is refused.             *)
demarrer(a) ==
  LET duCore == Parc(Trier(copie.liste, a), {})
      file == Parc(Ducky(a), {})
  IN /\ ~proxy.vit
     /\ IF copie.revision > 0 /\ PorteUnRelaisDucky(duCore)
          THEN proxy' = [vit |-> TRUE, annonce |-> a, origine |-> "core",
                         revision |-> copie.revision, refusee |-> 0,
                         demande |-> copie.liste, parc |-> duCore]
          ELSE /\ file = Ducky(a)
               /\ proxy' = [vit |-> TRUE, annonce |-> a, origine |-> "fichier",
                            revision |-> 0, refusee |-> 0,
                            demande |-> Ducky(a), parc |-> file]
     /\ UNCHANGED <<base, rapport, inscrit, copie, pris, fil, montants, descendants, lien,
                    pannes, oublis>>

(* A session: the node registers, again if it had been forgotten.          *)
Raccorder ==
  /\ proxy.vit /\ ~lien
  /\ lien' = TRUE /\ inscrit' = TRUE
  /\ UNCHANGED <<base, rapport, proxy, copie, pris, fil, montants, descendants, pannes, oublis>>

(* The goroutines already started keep their message; the others are lost. *)
Couper ==
  /\ pannes < MaxPannes /\ lien
  /\ lien' = FALSE /\ montants' = {}
  /\ descendants' \in SUBSET descendants
  /\ pannes' = pannes + 1
  /\ UNCHANGED <<base, rapport, inscrit, proxy, copie, pris, fil, oublis>>

AutreProgramme ==
  /\ \E p \in Empruntables :
       \/ p \in pris /\ pris' = pris \ {p}
       \/ p \notin pris /\ (\A r \in proxy.parc : r.port # p) /\ pris' = pris \cup {p}
  /\ UNCHANGED <<base, rapport, inscrit, proxy, copie, fil, montants, descendants, lien,
                 pannes, oublis>>

-----------------------------------------------------------------------------
(* The core: RelaisDemandes is a read of the state, then one of the rows.  *)
lireEtat(f, pc) ==
  fil' = [fil EXCEPT ![f].pc = pc, ![f].pilote = base.pilote, ![f].revision = base.revision]

Rangees(f) == IF fil[f].pilote THEN base.liste ELSE {}

RevisionDemandee(f) == IF fil[f].pilote THEN fil[f].revision ELSE 0

(* Mutant of DecisionPourLeProxy. *)
DecisionPourLeProxy_enPlace(f) ==
  LET n == RevisionDemandee(f)
      v == fil[f].vu
  IN IF n = 0 \/ v.revision = n \/ v.refusee = n THEN "inchange" ELSE "core"

DecisionPourLeProxy(f) ==
  LET n == RevisionDemandee(f)
      v == fil[f].vu
  IN IF n = 0 THEN (IF v.origine = "core" THEN "fichier" ELSE "inchange")
     ELSE IF v.origine = "core" /\ v.revision = n THEN "inchange"
     ELSE IF v.refusee = n THEN "inchange"
     ELSE "core"

composerLa0419(mode, f) ==
  [mode |-> mode, revision |-> IF mode = "core" THEN fil[f].revision ELSE 0,
   liste |-> IF mode = "core" THEN Rangees(f) ELSE {}]

(* "inchange" does nothing in the proxy, and is not kept here.             *)
envoyer(m) ==
  \/ /\ lien /\ m.mode # "inchange" /\ Cardinality(descendants \cup {m}) <= MaxMessages
     /\ descendants' = descendants \cup {m}
  \/ /\ ~lien \/ m.mode = "inchange"
     /\ UNCHANGED descendants

(* handleEtatRelais: the report is kept, then the demand is read.          *)
EnregistrerCompteRendu(m) ==
  /\ m \in montants /\ fil["04_18"].pc = "repos"
  /\ montants' = montants \ {m}
  /\ rapport' = m
  /\ fil' = [fil EXCEPT !["04_18"] = [Inerte EXCEPT !.pc = "etat", !.vu = m]]
  /\ UNCHANGED <<base, inscrit, proxy, copie, pris, descendants, lien, pannes, oublis>>

(* Mutant of RelaisDemandes. *)
RelaisDemandes_lignesDAbord(f) ==
  /\ \/ /\ fil[f].pc = "etat"
        /\ fil' = [fil EXCEPT ![f].pc = "liste", ![f].liste = base.liste]
        /\ UNCHANGED descendants
     \/ /\ fil[f].pc = "liste"
        /\ LET mode == IF f \in Admins THEN (IF base.pilote THEN "core" ELSE "fichier")
                       ELSE IF base.pilote /\ fil[f].vu.origine = "core" /\ fil[f].vu.revision = base.revision
                       THEN "inchange" ELSE IF base.pilote THEN "core" ELSE "fichier"
           IN envoyer([mode |-> mode, revision |-> IF mode = "core" THEN base.revision ELSE 0,
                       liste |-> IF mode = "core" THEN fil[f].liste ELSE {}])
        /\ fil' = [fil EXCEPT ![f] = Inerte]
  /\ UNCHANGED <<base, rapport, inscrit, proxy, copie, pris, montants, lien, pannes, oublis>>

RelaisDemandes(f) ==
  /\ \/ /\ fil[f].pc = "etat"
        /\ lireEtat(f, "liste")
        /\ UNCHANGED descendants
     \/ /\ fil[f].pc = "liste"
        /\ envoyer(composerLa0419(
             IF f \in Admins THEN (IF fil[f].pilote THEN "core" ELSE "fichier")
                             ELSE DecisionPourLeProxy(f), f))
        /\ fil' = [fil EXCEPT ![f] = Inerte]
  /\ UNCHANGED <<base, rapport, inscrit, proxy, copie, pris, montants, lien, pannes, oublis>>

-----------------------------------------------------------------------------
(* An administrator changes the list: baseDeLaDemande reads the demand (in *)
(* two statements) and the last report, the new list is written whole.     *)
LireBase(a) ==
  /\ fil[a].pc = "repos" /\ inscrit
  /\ rapport # SansRapport
  /\ lireEtat(a, "base")
  /\ UNCHANGED <<base, rapport, inscrit, proxy, copie, pris, montants, descendants, lien,
                 pannes, oublis>>

(* Without a demand the base is what the proxy reports as active.          *)
LireListe(a) ==
  /\ fil[a].pc = "base"
  /\ fil' = IF rapport = SansRapport THEN [fil EXCEPT ![a] = Inerte]
            ELSE [fil EXCEPT ![a].pc = "ecrire", ![a].vu = rapport,
                    ![a].liste = IF fil[a].pilote THEN base.liste ELSE rapport.actifs]
  /\ UNCHANGED <<base, rapport, inscrit, proxy, copie, pris, montants, descendants, lien,
                 pannes, oublis>>

(* Mutant of ValiderListeDeRelais. *)
ValiderListeDeRelais_sansPorts(l, annonce) == Relai("ducky", annonce) \in l

ValiderListeDeRelais(l, annonce) ==
  /\ l \in Listes
  /\ Relai("ducky", annonce) \in l

(* poserRelais and retirerRelais: one relay put in the list, or taken out. *)
Apres(a) ==
  LET l == fil[a].liste
      sans(n) == {r \in l : r.nom # n}
  IN {sans(n) \cup {Relai(n, p)} : n \in {"ducky", "https"}, p \in Ports}
       \cup (IF sans("https") # l THEN {sans("https")} ELSE {})

EcrireRelaisDemandes(a) ==
  /\ fil[a].pc = "ecrire"
  /\ \/ /\ base.revision < MaxRevision
        /\ \E l \in Apres(a) :
             /\ ValiderListeDeRelais(l, fil[a].vu.annonce)
             /\ base' = [pilote |-> TRUE, revision |-> base.revision + 1, liste |-> l]
        /\ fil' = [fil EXCEPT ![a] = [Inerte EXCEPT !.pc = "pousser"]]
     \/ /\ fil' = [fil EXCEPT ![a] = Inerte]      \* refused, or given up
        /\ UNCHANGED base
  /\ UNCHANGED <<rapport, inscrit, proxy, copie, pris, montants, descendants, lien, pannes, oublis>>

RendreLaMainAuFichier(a) ==
  /\ fil[a].pc = "repos" /\ inscrit /\ base.pilote
  /\ base.revision < MaxRevision
  /\ base' = [pilote |-> FALSE, revision |-> base.revision + 1, liste |-> {}]
  /\ fil' = [fil EXCEPT ![a] = [Inerte EXCEPT !.pc = "pousser"]]
  /\ UNCHANGED <<rapport, inscrit, proxy, copie, pris, montants, descendants, lien, pannes, oublis>>

(* PousserRelais: nothing to push to a proxy without a session here.       *)
PousserRelais(a) ==
  /\ fil[a].pc = "pousser"
  /\ fil' = [fil EXCEPT ![a] = IF lien THEN [Inerte EXCEPT !.pc = "etat"] ELSE Inerte]
  /\ UNCHANGED <<base, rapport, inscrit, proxy, copie, pris, montants, descendants, lien,
                 pannes, oublis>>

(* A node silent for long is forgotten, its relays with it.                *)
OublierNoeud ==
  /\ oublis < MaxOublis
  /\ inscrit /\ ~lien
  /\ inscrit' = FALSE
  /\ base' = [pilote |-> FALSE, revision |-> 0, liste |-> {}]
  /\ rapport' = SansRapport
  /\ oublis' = oublis + 1
  /\ UNCHANGED <<proxy, copie, pris, fil, montants, descendants, lien, pannes>>

-----------------------------------------------------------------------------
Next ==
  \/ \E m \in descendants : surConfiguration(m)
  \/ \E m \in montants : EnregistrerCompteRendu(m)
  \/ \E f \in Fils : RelaisDemandes(f)
  \/ \E a \in Admins :
       LireBase(a) \/ LireListe(a) \/ EcrireRelaisDemandes(a)
         \/ RendreLaMainAuFichier(a) \/ PousserRelais(a)
  \/ boucleDeCompteRendu
  \/ Arreter \/ Raccorder \/ Couper \/ AutreProgramme
  \/ \E a \in Annonces : demarrer(a)
  \/ OublierNoeud

Fairness ==
  /\ WF_vars(boucleDeCompteRendu) /\ WF_vars(Raccorder)
  /\ WF_vars(\E a \in Annonces : demarrer(a))
  /\ WF_vars(\E m \in descendants : surConfiguration(m))
  /\ WF_vars(\E m \in montants : EnregistrerCompteRendu(m))
  /\ \A f \in Fils : WF_vars(RelaisDemandes(f))
  /\ \A a \in Admins : WF_vars(LireListe(a)) /\ WF_vars(EcrireRelaisDemandes(a))
                         /\ WF_vars(PousserRelais(a))

Spec == Init /\ [][Next]_vars
FairSpec == Spec /\ Fairness

-----------------------------------------------------------------------------
(* The proxy that says it applies the revision of the core has the list of *)
(* the core: two statements to read it, messages out of order, restarts on *)
(* the copy never put one list under the revision of another.              *)
RevisionVautListe ==
  base.pilote =>
    /\ proxy.vit /\ proxy.origine = "core" /\ proxy.revision = base.revision
         => proxy.demande = base.liste
    /\ copie.revision = base.revision => copie.liste = base.liste

(* Agents are told of this proxy on its announced port: while it runs, a   *)
(* Ducky relay listens there, whatever list reaches it.                    *)
DuckyToujoursOuvert == proxy.vit => Relai("ducky", proxy.annonce) \in proxy.parc

(* When nobody changes anything any more, the proxy ends up with the last  *)
(* demand, or refuses it for its Ducky relay, or is back on its file.      *)
Accord ==
  IF base.pilote
    THEN \/ proxy.origine = "core" /\ proxy.revision = base.revision
         \/ proxy.refusee = base.revision /\ Relai("ducky", proxy.annonce) \notin base.liste
    ELSE proxy.origine = "fichier"
Converge == <>[](\A a \in Admins : fil[a].pc = "repos") => <>[]Accord
=============================================================================
