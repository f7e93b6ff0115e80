------------------------- MODULE KillSwitchProperties -------------------------
(***************************************************************************)
(* What the kill switch promises, stated over the module KillSwitch.       *)
(***************************************************************************)
EXTENDS KillSwitch

TypeOK ==
  /\ ordre \in [Ids -> Order \cup {Aucun}]
  /\ cible \in [Ids -> [Machines -> TargetStatus]]
  /\ annuaire \subseteq Accounts
  /\ partage \in [Accounts -> SUBSET Machines]
  /\ sessions \subseteq Accounts \X Machines
  /\ cmd \in [Commands -> Commande]
  /\ lot \in [Sources -> [Machines -> SUBSET Ids]]
  /\ tunnel \in [Machines -> BOOLEAN]
  /\ versAgent \in [Machines -> Seq(SUBSET Ids)]
  /\ enCours \in [Machines -> SUBSET Ids]
  /\ retenue \in [Machines -> Seq(Reponse)]
  /\ versCore \in [Machines -> Seq(Reponse)]
  /\ compte \in [Machines -> [Accounts -> CompteLocal]]
  /\ connus \in [Machines -> SUBSET Ids]
  /\ fait \in [Machines -> SUBSET Ids]
  /\ pannes \in Nat

-----------------------------------------------------------------------------
(* What a status tells an administrator who reads "kill --status".         *)

(* "acked" is shown as "ordre applique sur la machine": whatever was lost, *)
(* duplicated or interrupted, the machine has applied the order at least   *)
(* once (trames.go handleAck, agent applyAndReply).                        *)
AcquitteEstApplique ==
  \A o \in Ids, m \in Machines : cible[o][m] = "acked" => o \in fait[m]

(* "lifted" puts away a lock and nothing else: an unlock or a deletion     *)
(* that a machine has not acknowledged is never withdrawn, and a lock is   *)
(* only shown as lifted once an unlock command exists or has been started  *)
(* for it (LiftSoftRevocations).                                           *)
SeulUnVerrouEstLeve ==
  \A o \in Ids, m \in Machines :
    cible[o][m] = "lifted" => Emis(o) /\ ordre[o].mode = "soft"

(* "unsupported" is only ever said of a machine that cannot apply an order:*)
(* a Linux machine never stops being served by it (handleError,            *)
(* RangerLesCiblesSansCompte).                                             *)
NonPrisEnChargeEstVrai ==
  \A o \in Ids, m \in Machines :
    cible[o][m] = "unsupported" => m \in Windows \cup Services

(* A lifted target never becomes deliverable again: the error report of a  *)
(* copy still on its way does not bring the lock back (MarkTarget).        *)
LeveNEstPlusRejoue ==
  [][\A o \in Ids, m \in Machines :
       cible[o][m] = "lifted" => cible'[o][m] \in {"lifted", "acked"}]_vars

(* An acknowledged target is at an end: no later answer of the machine     *)
(* reopens it (create_tables.go: acked and lifted are the two ends).       *)
AcquitteEstDefinitif ==
  [][\A o \in Ids, m \in Machines :
       cible[o][m] = "acked" => cible'[o][m] = "acked"]_vars

(* A lock whose order is lifted has no target left to deliver: the two     *)
(* updates of LiftSoftRevocations are ordered for that.                    *)
LeveJamaisRejouable ==
  \A o \in Ids, m \in Machines :
    Emis(o) /\ ordre[o].leve => cible[o][m] \notin ARejouer

-----------------------------------------------------------------------------
(* The inductive invariant behind these: whatever is on its way, read but  *)
(* not sent, half worked through or half pushed is aimed at the machine,   *)
(* and a reply on its way tells the truth.                                 *)
Visee(o, m) == o \in Ids /\ cible[o][m] # "none"

ReponsesVraies(q, m) ==
  \A i \in DOMAIN q : /\ q[i].res = "ok" => q[i].ordre \in fait[m]
                      /\ q[i].res = "unsupported" => m \in Windows

CiblesEmises == \A o \in Ids, m \in Machines : Visee(o, m) => Emis(o)
LotsVises == \A s \in Sources, m \in Machines : \A o \in lot[s][m] : Visee(o, m)
TramesVisees ==
  \A m \in Machines : \A i \in DOMAIN versAgent[m] :
    \A o \in versAgent[m][i] : Visee(o, m)
EnCoursVises ==
  \A m \in Machines : \A o \in enCours[m] :
    Visee(o, m) /\ m \notin Windows \cup Services
PousseesVisees ==
  \A c \in Commands : \A m \in cmd[c].apousser : Visee(cmd[c].ordre, m)
VoieRetourVraie ==
  \A m \in Machines :
    ReponsesVraies(versCore[m], m) /\ ReponsesVraies(retenue[m], m)
ConnusAppliques == \A m \in Machines : connus[m] \subseteq fait[m]

Surete ==
  /\ CiblesEmises /\ LotsVises /\ TramesVisees /\ EnCoursVises
  /\ PousseesVisees /\ VoieRetourVraie /\ ConnusAppliques
  /\ AcquitteEstApplique /\ SeulUnVerrouEstLeve /\ NonPrisEnChargeEstVrai

-----------------------------------------------------------------------------
(* What the local accounts are once nothing is under way any more.         *)

Tranquille ==
  /\ \A c \in Commands : cmd[c] = Repos
  /\ \A m \in Machines : /\ EnAttente(m) = {}
                         /\ \A s \in Sources : lot[s][m] = {}
                         /\ versAgent[m] = <<>> /\ versCore[m] = <<>>
                         /\ enCours[m] = {}

Linux == Machines \ (Windows \cup Services)

(* Nobody stays locked out: when no lock is in force for an account, none  *)
(* of its local accounts is locked, those of machines it has lost the      *)
(* groups of included (dispatch.go, targets of a lift).                    *)
PersonneResteEnferme ==
  Tranquille => \A u \in Accounts, m \in Linux :
                  ~IsRevoked(u) => compte[m][u] # "verrou"

(* A lock in force is in force on each of its machines: no late copy of an *)
(* older unlock has reopened the account there (handleOrderList order,     *)
(* AlreadyApplied).                                                        *)
VerrouTenu ==
  Tranquille => \A o \in Ids, m \in Linux :
                  EnVigueur(o) /\ cible[o][m] # "none"
                    => compte[m][ordre[o].user] # "ouvert"

(* A lift that is over has reached every machine the lock had closed,      *)
(* whatever groups the account has lost since (dispatch.go, machines under *)
(* lock): no local account stays locked after an unlock that is the last   *)
(* order of the account.                                                   *)
Dernier(o) ==
  Emis(o) /\ \A p \in Ids : Emis(p) /\ ordre[p].user = ordre[o].user => p <= o

LeveeAtteintLesVerrous ==
  Tranquille => \A o \in Ids, m \in Linux :
                  Dernier(o) /\ ordre[o].mode = "unlock"
                    => compte[m][ordre[o].user] # "verrou"

(* An agent does not apply a lock after its lift, nor a lift after a later *)
(* lock (rejeu.go: chronological order is not negotiable).                 *)
PasDansLOrdre ==
  \A m \in Machines, o \in Ids :
    o \in fait'[m] \ fait[m] =>
      ~ \E p \in fait[m] : /\ p > o
                          /\ ordre[p].user = ordre[o].user
                          /\ ordre[p].mode # ordre[o].mode
ChronologieTenue == [][PasDansLOrdre]_vars

-----------------------------------------------------------------------------
(* What an administrator may rely on: KillSwitch implements the promise    *)
(* of KillSwitchPromise.                                                   *)
Promesse == INSTANCE KillSwitchPromise WITH
  Incapables <- Windows \cup Services,
  mode <- [o \in Ids |-> IF Emis(o) THEN ordre[o].mode ELSE Aucun],
  statut <- cible,
  applique <- fait

PromesseTenue == Promesse!Spec

-----------------------------------------------------------------------------
(* A goroutine that has something to do goes on: each command, the reader  *)
(* of each connection, each agent. The replay loop comes back to each      *)
(* machine. Faults, tunnels that fall and people have no fairness; a       *)
(* machine reconnects.                                                     *)
Avancer(c) ==
  \/ LireSousVerrou(c) \/ LeverCibles(c) \/ LeverOrdres(c) \/ CreateOrder(c)
  \/ SupprimerCompte(c) \/ KillSessions(c)
  \/ \E m \in Machines : Pousser(c, m)
  \/ Fin(c)

Traiter(m) ==
  \/ Recevoir(m) \/ DejaApplique(m) \/ AppliquerEtNoter(m) \/ Echouer(m)
  \/ NonPrisEnCharge(m)

Equite ==
  /\ \A c \in Commands : WF_vars(Avancer(c))
  /\ \A m \in Machines :
       /\ SF_vars(LireLot("rejeu", m))
       /\ \A s \in Sources : WF_vars(Remettre(s, m))
       /\ SF_vars(HandleAck(m) \/ HandleError(m))
       /\ WF_vars(Connecter(m))
       /\ WF_vars(Traiter(m))

FairSpec == Spec /\ Equite

(* There is no giving up: a target that waits is settled in the end, once  *)
(* the faults stop (rejeu.go, queueReply: the loop closes by itself). Not  *)
(* so on a service: it never answers, and its targets wait for the next    *)
(* start of the core.                                                      *)
ToutFinitParAboutir ==
  \A o \in Ids, m \in Machines \ Services :
    cible[o][m] \in ARejouer ~> cible[o][m] \notin ARejouer
=============================================================================
