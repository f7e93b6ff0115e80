------------------------------ MODULE KillSwitch ------------------------------
(***************************************************************************)
(* The kill switch: revocation orders from the command that issues them to *)
(* the local accounts they lock, unlock or delete on the machines.         *)
(*                                                                         *)
(* Three kinds of actors run concurrently:                                 *)
(*   - commands (Trigger, dispatch.go), one goroutine per administrator    *)
(*     request, whose database writes are separate statements;             *)
(*   - the core's delivery: the replay loop (rejeu.go) and the answer to   *)
(*     a machine's request 06_04 (trames.go), which READ the orders to     *)
(*     deliver and only then SEND them;                                    *)
(*   - the agents (vaultaire_client/revocation), which apply each order,   *)
(*     remember its id in applied_revocations.json and acknowledge.        *)
(* A replay may happen at any moment, and an order is applied to a local   *)
(* account in one step: the cadence of the replay and the commands of      *)
(* Apply are abstracted.                                                   *)
(*                                                                         *)
(* An operator with a suffix (Executer_sansMemoire) is a faulty form of    *)
(* the operator that follows it. No specification uses one: they are there *)
(* to show that each property can tell the right form from the faulty one. *)
(***************************************************************************)
EXTENDS Naturals, FiniteSets, Sequences

CONSTANTS
  Accounts,    \* names of the directory
  Machines,    \* logiciel_client.computeur_id of the park
  Windows,     \* machines whose agent answers "unsupported" (Windows V1)
  Services,    \* machines whose type holds no local account (proxy, Nexus)
  Sources,     \* who reads and delivers the pending lists, see below
  Commands,    \* Trigger calls that may be under way at the same time
  MaxOrders,   \* bound: orders issued in a behaviour
  Limit,       \* maxOrdersPerFrame
  MaxEnVol,    \* bound: frames and replies under way with a machine at a send
  Monde,       \* what the directory and the people may do in this instance
  Pannes,      \* kinds of fault that may happen in this instance
  MaxPannes,   \* bound: faults in a behaviour
  Aucun        \* no account, no order, no command

ASSUME ParcAssumption ==
  /\ Windows \subseteq Machines
  /\ Services \subseteq Machines
  /\ Windows \cap Services = {}

ASSUME BornesAssumption ==
  /\ MaxOrders \in Nat
  /\ Limit \in Nat \ {0}
  /\ MaxEnVol \in Nat
  /\ MaxPannes \in Nat

Ids == 1..MaxOrders
Modes == {"soft", "unlock", "hard"}
Order == [user : Accounts, mode : Modes, leve : BOOLEAN]

ASSUME AucunAssumption ==
  /\ Aucun \notin Accounts
  /\ Aucun \notin Order
  /\ Aucun \notin Modes

(* Two readers of the pending list: the replay goroutine and the handler   *)
(* of 06_04 in the goroutine of the machine's connection.                  *)
ASSUME SourcesAssumption == Sources \subseteq {"rejeu", "demande"}

(* "none" stands for the absence of a row in user_revocation_target.            *)
TargetStatus == {"none", "pending", "acked", "failed", "lifted", "unsupported"}
ARejouer == {"pending", "failed"}

CompteLocal == {"absent", "ouvert", "verrou"}
Reponse == [ordre : Ids, res : {"ok", "echec", "unsupported"}]

Ecrites == {"annuaire", "sessions", "pousser"}  \* once the order is written
Etapes == {"verrous", "cibles", "ordres", "creer"} \cup Ecrites
Lancee == {r \in [pc : Etapes, user : Accounts, mode : Modes,
                  cibles : SUBSET Machines, ordre : Ids \cup {0},
                  apousser : SUBSET Machines] : r.pc \in Ecrites => r.ordre \in Ids}
Repos == [pc |-> "repos", user |-> Aucun, mode |-> Aucun, cibles |-> {},
          ordre |-> 0, apousser |-> {}]
Commande == Lancee \cup {Repos}

VARIABLES
  ordre,      \* table user_revocation: id -> row, Aucun when not issued yet
  cible,      \* table user_revocation_target: id -> machine -> status
  annuaire,   \* accounts present in the directory
  partage,    \* account -> machines sharing a group with it
  sessions,   \* sessions the server holds in the name of an account
  cmd,        \* the local state of each command
  lot,        \* source -> machine -> ids read from the database, not yet sent
  tunnel,     \* machine -> is its tunnel to the core up
  versAgent,  \* machine -> frames 06_01 / 06_05 on their way, sets of ids
  enCours,    \* machine -> ids of the frame the agent is working through
  retenue,    \* machine -> first reply of that frame, sent after the others
  versCore,   \* machine -> replies 06_02 / 06_03 on their way
  compte,     \* machine -> account -> the local Unix account
  connus,     \* machine -> ids in applied_revocations.json
  fait,       \* history: machine -> ids applied with success at least once
  pannes      \* faults that may still happen

base   == <<ordre, cible>>
monde  == <<annuaire, partage, sessions>>
reseau == <<tunnel, versAgent, versCore>>
agent  == <<enCours, retenue, compte, connus, fait>>
vars   == <<ordre, cible, annuaire, partage, sessions, cmd, lot, tunnel,
            versAgent, enCours, retenue, versCore, compte, connus, fait, pannes>>

-----------------------------------------------------------------------------
Emis(o) == ordre[o] # Aucun

(* A soft order counts as long as lifted_at IS NULL.                       *)
EnVigueur(o) == Emis(o) /\ ordre[o].mode = "soft" /\ ~ordre[o].leve

VerrouDe_tousModes(o, u) == Emis(o) /\ ~ordre[o].leve /\ ordre[o].user = u
VerrouDe(o, u) == EnVigueur(o) /\ ordre[o].user = u

IsRevoked(u) == \E o \in Ids : VerrouDe(o, u)

MachinesSousVerrou_enRetard(u) ==
  {m \in Machines : \E o \in Ids : VerrouDe(o, u) /\ cible[o][m] \in ARejouer}
MachinesSousVerrou(u) ==
  {m \in Machines : \E o \in Ids : VerrouDe(o, u) /\ cible[o][m] # "none"}

(* The ids MarkTarget has not seen answered, oldest first, at most Limit.  *)
EnAttente(m) == {o \in Ids : cible[o][m] \in ARejouer}
EnAttentePour(m) ==
  {o \in EnAttente(m) : Cardinality({p \in EnAttente(m) : p < o}) < Limit}

EnVol(m) ==
  Len(versAgent[m]) + Cardinality(enCours[m]) + Len(versCore[m])

(* A fault of kind k, taken from the budget of the instance.               *)
Panne(k) == k \in Pannes /\ pannes > 0 /\ pannes' = pannes - 1
SansPanne == pannes' = pannes

Init ==
  /\ ordre = [o \in Ids |-> Aucun]
  /\ cible = [o \in Ids |-> [m \in Machines |-> "none"]]
  /\ annuaire = Accounts
  /\ partage = [u \in Accounts |-> Machines]
  /\ sessions = {}
  /\ cmd = [c \in Commands |-> Repos]
  /\ lot = [s \in Sources |-> [m \in Machines |-> {}]]
  /\ tunnel = [m \in Machines |-> TRUE]
  /\ versAgent = [m \in Machines |-> <<>>]
  /\ enCours = [m \in Machines |-> {}]
  /\ retenue = [m \in Machines |-> <<>>]
  /\ versCore = [m \in Machines |-> <<>>]
  /\ compte \in [Machines -> [Accounts -> {"absent", "ouvert"}]]
  /\ connus = [m \in Machines |-> {}]
  /\ fait = [m \in Machines |-> {}]
  /\ pannes = MaxPannes

-----------------------------------------------------------------------------
(* The command.                                                            *)

Etape(c, pc) == cmd' = [cmd EXCEPT ![c].pc = pc]

(* Trigger up to the first write: the account must be in the directory;    *)
(* the targets are the machines of its groups and those of its sessions.   *)
Trigger(c, u, mode) ==
  /\ cmd[c].pc = "repos"
  /\ u \in annuaire
  /\ \E o \in Ids : ~Emis(o)
  /\ cmd' = [cmd EXCEPT ![c] =
       [pc |-> IF mode = "unlock" THEN "verrous" ELSE "creer",
        user |-> u, mode |-> mode,
        cibles |-> partage[u] \cup {m \in Machines : <<u, m>> \in sessions},
        ordre |-> 0, apousser |-> {}]]
  /\ SansPanne
  /\ UNCHANGED <<base, monde, lot, reseau, agent>>

(* unlock: the machines the lock aimed at are targets as well, read before *)
(* the two updates of LiftSoftRevocations.                                 *)
LireSousVerrou(c) ==
  /\ cmd[c].pc = "verrous"
  /\ cmd' = [cmd EXCEPT ![c] =
       [cmd[c] EXCEPT !.pc = "cibles", !.cibles = @ \cup MachinesSousVerrou(cmd[c].user)]]
  /\ SansPanne
  /\ UNCHANGED <<base, monde, lot, reseau, agent>>

LeverCibles_ordresDAbord(c) ==
  /\ cmd[c].pc = "cibles"
  /\ ordre' = [o \in Ids |->
       IF VerrouDe(o, cmd[c].user) THEN [ordre[o] EXCEPT !.leve = TRUE] ELSE ordre[o]]
  /\ Etape(c, "ordres")
  /\ SansPanne
  /\ UNCHANGED <<cible, monde, lot, reseau, agent>>

LeverCibles(c) ==
  /\ cmd[c].pc = "cibles"
  /\ cible' = [o \in Ids |-> [m \in Machines |->
       IF VerrouDe(o, cmd[c].user) /\ cible[o][m] \in ARejouer
       THEN "lifted" ELSE cible[o][m]]]
  /\ Etape(c, "ordres")
  /\ SansPanne
  /\ UNCHANGED <<ordre, monde, lot, reseau, agent>>

LeverOrdres(c) ==
  /\ cmd[c].pc = "ordres"
  /\ ordre' = [o \in Ids |->
       IF VerrouDe(o, cmd[c].user)
       THEN [ordre[o] EXCEPT !.leve = TRUE] ELSE ordre[o]]
  /\ Etape(c, "creer")
  /\ SansPanne
  /\ UNCHANGED <<cible, monde, lot, reseau, agent>>

(* One transaction: the order and its pending targets. The types of the    *)
(* machines are read first; when that reading fails no target is set aside.*)
CreateOrder(c) ==
  LET u == cmd[c].user
      mode == cmd[c].mode
      suite == CASE mode = "hard" -> "annuaire"
                 [] mode = "soft" -> "sessions"
                 [] OTHER -> "pousser"
  IN
  /\ cmd[c].pc = "creer"
  /\ \E o \in Ids, T \in {cmd[c].cibles \ Services, cmd[c].cibles} :
       /\ ~Emis(o)
       /\ \A p \in Ids : p < o => Emis(p)
       /\ \/ T = cmd[c].cibles \ Services /\ SansPanne
          \/ T = cmd[c].cibles /\ Panne("types")
       /\ ordre' = [ordre EXCEPT ![o] =
                      [user |-> u, mode |-> mode, leve |-> FALSE]]
       /\ cible' = [cible EXCEPT ![o] =
                      [m \in Machines |-> IF m \in T THEN "pending" ELSE "none"]]
       /\ cmd' = [cmd EXCEPT ![c] =
            [pc |-> suite, user |-> u, mode |-> mode,
             cibles |-> T, ordre |-> o, apousser |-> T]]
  /\ UNCHANGED <<monde, lot, reseau, agent>>

(* hard: the account leaves the directory; a failure is only reported.     *)
SupprimerCompte(c) ==
  LET u == cmd[c].user IN
  /\ cmd[c].pc = "annuaire"
  /\ \/ /\ annuaire' = annuaire \ {u}
        /\ partage' = [partage EXCEPT ![u] = {}]
        /\ SansPanne
     \/ UNCHANGED <<annuaire, partage>> /\ Panne("annuaire")
  /\ Etape(c, "sessions")
  /\ UNCHANGED <<base, sessions, lot, reseau, agent>>

KillSessions(c) ==
  /\ cmd[c].pc = "sessions"
  /\ sessions' = {s \in sessions : s[1] # cmd[c].user}
  /\ Etape(c, "pousser")
  /\ SansPanne
  /\ UNCHANGED <<base, annuaire, partage, lot, reseau, agent>>

(* pushToOnline, one target: a 06_01 holding this order alone. A machine   *)
(* without a tunnel, or a send that fails on each of its sessions, is      *)
(* left to the replay.                                                     *)
Pousser(c, m) ==
  /\ cmd[c].pc = "pousser"
  /\ m \in cmd[c].apousser
  /\ cmd' = [cmd EXCEPT ![c].apousser = @ \ {m}]
  /\ \/ /\ tunnel[m] /\ EnVol(m) < MaxEnVol
        /\ versAgent' = [versAgent EXCEPT ![m] = Append(@, {cmd[c].ordre})]
        /\ SansPanne
     \/ ~tunnel[m] /\ SansPanne /\ UNCHANGED versAgent
     \/ tunnel[m] /\ Panne("envoi") /\ UNCHANGED versAgent
  /\ UNCHANGED <<base, monde, lot, tunnel, versCore, agent>>

Fin(c) ==
  /\ cmd[c].pc = "pousser"
  /\ cmd[c].apousser = {}
  /\ cmd' = [cmd EXCEPT ![c] = Repos]
  /\ SansPanne
  /\ UNCHANGED <<base, monde, lot, reseau, agent>>

(* The command stops half-way: the core restarts, or a statement fails and *)
(* Trigger returns the error. What was written stays written.              *)
Interrompre(c) ==
  /\ cmd[c].pc # "repos"
  /\ Panne("interruption")
  /\ cmd' = [cmd EXCEPT ![c] = Repos]
  /\ UNCHANGED <<base, monde, lot, reseau, agent>>

-----------------------------------------------------------------------------
(* Delivery by the core.                                                   *)

(* The replay goroutine serves one machine after the other; the handler of *)
(* 06_04 runs in the goroutine of the machine's own connection.            *)
LireLot(s, m) ==
  /\ tunnel[m]
  /\ lot[s][m] = {}
  /\ s = "rejeu" => \A n \in Machines : lot[s][n] = {}
  /\ EnAttentePour(m) # {}
  /\ lot' = [lot EXCEPT ![s][m] = EnAttentePour(m)]
  /\ SansPanne
  /\ UNCHANGED <<base, monde, cmd, reseau, agent>>

Remettre(s, m) ==
  /\ lot[s][m] # {}
  /\ lot' = [lot EXCEPT ![s][m] = {}]
  /\ \/ /\ tunnel[m] /\ EnVol(m) < MaxEnVol
        /\ versAgent' = [versAgent EXCEPT ![m] = Append(@, lot[s][m])]
        /\ SansPanne
     \/ ~tunnel[m] /\ SansPanne /\ UNCHANGED versAgent
     \/ tunnel[m] /\ Panne("envoi") /\ UNCHANGED versAgent
  /\ UNCHANGED <<base, monde, cmd, tunnel, versCore, agent>>

(* MarkTarget: without a row there is nothing to update; a failure does    *)
(* not overwrite "lifted"; an acknowledgement overwrites anything.         *)
MarkTarget_sansGarde(o, m, status) ==
  IF cible[o][m] = "none"
  THEN UNCHANGED cible
  ELSE cible' = [cible EXCEPT ![o][m] = status]

MarkTarget_resultatBrut(o, m, status) ==
  cible' = [cible EXCEPT ![o][m] = IF status = "acked" THEN "applied" ELSE status]

MarkTarget(o, m, status) ==
  IF \/ cible[o][m] = "none"
     \/ status = "failed" /\ cible[o][m] = "lifted"
  THEN UNCHANGED cible
  ELSE cible' = [cible EXCEPT ![o][m] = status]

MarquerMachineNonPriseEnCharge_toutes(m) ==
  cible' = [o \in Ids |-> [n \in Machines |->
    IF cible[o][n] \in ARejouer THEN "unsupported" ELSE cible[o][n]]]

MarquerMachineNonPriseEnCharge(m) ==
  cible' = [o \in Ids |->
    [cible[o] EXCEPT ![m] = IF @ \in ARejouer THEN "unsupported" ELSE @]]

(* The replies of a machine are read in order, and not while the goroutine *)
(* of its connection is busy answering a 06_04.                            *)
Repondu(m, res) ==
  /\ versCore[m] # <<>>
  /\ "demande" \in Sources => lot["demande"][m] = {}
  /\ Head(versCore[m]).res = res
  /\ versCore' = [versCore EXCEPT ![m] = Tail(@)]
  /\ SansPanne
  /\ UNCHANGED <<ordre, monde, cmd, lot, tunnel, versAgent, agent>>

HandleAck(m) ==
  Repondu(m, "ok") /\ MarkTarget(Head(versCore[m]).ordre, m, "acked")

HandleError(m) ==
  \/ Repondu(m, "echec") /\ MarkTarget(Head(versCore[m]).ordre, m, "failed")
  \/ Repondu(m, "unsupported") /\ MarquerMachineNonPriseEnCharge(m)

(* Start-up of the core: targets of a type without accounts are put away.  *)
RangerLesCiblesSansCompte ==
  /\ \E o \in Ids, m \in Services : cible[o][m] \in ARejouer
  /\ cible' = [o \in Ids |-> [m \in Machines |->
       IF m \in Services /\ cible[o][m] \in ARejouer
       THEN "unsupported" ELSE cible[o][m]]]
  /\ SansPanne
  /\ UNCHANGED <<ordre, monde, cmd, lot, reseau, agent>>

-----------------------------------------------------------------------------
(* Tunnels.                                                                *)

Connecter(m) ==
  /\ ~tunnel[m]
  /\ tunnel' = [tunnel EXCEPT ![m] = TRUE]
  /\ SansPanne
  /\ UNCHANGED <<base, monde, cmd, lot, versAgent, versCore, agent>>

(* A tunnel falls: what travels on it is lost, the frame the agent is      *)
(* working through is not.                                                 *)
Couper(m) ==
  /\ tunnel[m]
  /\ Panne("coupure")
  /\ tunnel' = [tunnel EXCEPT ![m] = FALSE]
  /\ versAgent' = [versAgent EXCEPT ![m] = <<>>]
  /\ versCore' = [versCore EXCEPT ![m] = <<>>]
  /\ UNCHANGED <<base, monde, cmd, lot, agent>>

-----------------------------------------------------------------------------
(* The agent.                                                              *)

Recevoir(m) ==
  /\ m \notin Windows \cup Services
  /\ versAgent[m] # <<>>
  /\ enCours[m] = {}
  /\ enCours' = [enCours EXCEPT ![m] = Head(versAgent[m])]
  /\ versAgent' = [versAgent EXCEPT ![m] = Tail(@)]
  /\ SansPanne
  /\ UNCHANGED <<base, monde, cmd, lot, tunnel, versCore, retenue, compte,
                 connus, fait>>

Premier_nImporteLequel(o, m) == o \in enCours[m]
Premier(o, m) == o \in enCours[m] /\ \A p \in enCours[m] : o <= p

Envoyer(m, q) ==
  versCore' = IF tunnel[m] THEN [versCore EXCEPT ![m] = @ \o q] ELSE versCore

(* The reply to the first order of a frame is handed back after the frame, *)
(* the others leave at once; without a tunnel a reply is dropped.          *)
Repondre(o, m, res) ==
  LET r == <<[ordre |-> o, res |-> res]>>
      dernier == enCours[m] = {o}
  IN
  /\ enCours' = [enCours EXCEPT ![m] = @ \ {o}]
  /\ IF retenue[m] = <<>> /\ ~dernier
     THEN retenue' = [retenue EXCEPT ![m] = r] /\ UNCHANGED versCore
     ELSE IF dernier
     THEN retenue' = [retenue EXCEPT ![m] = <<>>] /\ Envoyer(m, r \o retenue[m])
     ELSE Envoyer(m, r) /\ UNCHANGED retenue

(* Already in applied_revocations.json: acknowledged again, not applied.   *)
DejaApplique_enSilence(m) ==
  \E o \in Ids :
    /\ Premier(o, m)
    /\ o \in connus[m]
    /\ enCours' = [enCours EXCEPT ![m] = @ \ {o}]
    /\ SansPanne
    /\ UNCHANGED <<base, monde, cmd, lot, reseau, retenue, compte, connus, fait>>

DejaApplique(m) ==
  \E o \in Ids :
    /\ Premier(o, m)
    /\ o \in connus[m]
    /\ Repondre(o, m, "ok")
    /\ SansPanne
    /\ UNCHANGED <<base, monde, cmd, lot, tunnel, versAgent, compte, connus, fait>>

(* What Apply leaves of a local account when every command succeeds.       *)
Effet(mode, etat) ==
  CASE etat = "absent"  -> "absent"
    [] mode = "soft"   -> "verrou"
    [] mode = "unlock" -> "ouvert"
    [] OTHER           -> "absent"

Executer_sansMemoire(o, m) == Premier(o, m) /\ Emis(o)
Executer(o, m) ==
  /\ Premier(o, m)
  /\ o \notin connus[m]
  /\ Emis(o)

Appliquer(o, m) ==
  /\ compte' = [compte EXCEPT ![m][ordre[o].user] = Effet(ordre[o].mode, @)]
  /\ fait' = [fait EXCEPT ![m] = @ \cup {o}]

(* Apply succeeds, then RecordApplied; a failure to write the file is only *)
(* logged and the order is acknowledged all the same.                      *)
AppliquerEtNoter(m) ==
  \E o \in Ids :
    /\ Executer(o, m)
    /\ Appliquer(o, m)
    /\ \/ SansPanne /\ connus' = [connus EXCEPT ![m] = @ \cup {o}]
       \/ Panne("oubli") /\ UNCHANGED connus
    /\ Repondre(o, m, "ok")
    /\ UNCHANGED <<base, monde, cmd, lot, tunnel, versAgent>>

(* A command of Apply fails: nothing is recorded. A lock that fails may    *)
(* have been put on already; an absent account cannot fail.                *)
Echouer_enNotant(m) ==
  \E o \in Ids :
    /\ Executer(o, m)
    /\ compte[m][ordre[o].user] # "absent"
    /\ Panne("echec")
    /\ connus' = [connus EXCEPT ![m] = @ \cup {o}]
    /\ Repondre(o, m, "echec")
    /\ UNCHANGED <<base, monde, cmd, lot, tunnel, versAgent, compte, fait>>

Echouer(m) ==
  \E o \in Ids :
    /\ Executer(o, m)
    /\ compte[m][ordre[o].user] # "absent"
    /\ Panne("echec")
    /\ \/ UNCHANGED compte
       \/ /\ ordre[o].mode = "soft"
          /\ compte' = [compte EXCEPT ![m][ordre[o].user] = "verrou"]
    /\ Repondre(o, m, "echec")
    /\ UNCHANGED <<base, monde, cmd, lot, tunnel, versAgent, connus, fait>>

Redemarrer(m) ==
  /\ enCours' = [enCours EXCEPT ![m] = {}]
  /\ retenue' = [retenue EXCEPT ![m] = <<>>]
  /\ tunnel' = [tunnel EXCEPT ![m] = FALSE]
  /\ versAgent' = [versAgent EXCEPT ![m] = <<>>]
  /\ versCore' = [versCore EXCEPT ![m] = <<>>]

(* The agent stops between two orders, or after the effect of one and      *)
(* before RecordApplied.                                                   *)
Tomber(m) ==
  /\ m \notin Windows \cup Services
  /\ Panne("arret")
  /\ Redemarrer(m)
  /\ \/ UNCHANGED <<compte, fait>>
     \/ \E o \in Ids : Executer(o, m) /\ Appliquer(o, m)
  /\ UNCHANGED <<base, monde, cmd, lot, connus>>

(* applied_revocations.json is lost or unreadable: start again from zero.  *)
PerdreEtat(m) ==
  /\ connus[m] # {}
  /\ Panne("etat")
  /\ connus' = [connus EXCEPT ![m] = {}]
  /\ UNCHANGED <<base, monde, cmd, lot, reseau, enCours, retenue, compte, fait>>

(* Windows V1 answers "unsupported" to the first order of the frame;       *)
(* a service has no handler for the trames 06.                             *)
NonPrisEnCharge(m) ==
  /\ m \in Windows \cup Services
  /\ versAgent[m] # <<>>
  /\ versAgent' = [versAgent EXCEPT ![m] = Tail(@)]
  /\ IF m \in Windows
     THEN \E o \in Head(versAgent[m]) :
            /\ \A p \in Head(versAgent[m]) : o <= p
            /\ Envoyer(m, <<[ordre |-> o, res |-> "unsupported"]>>)
     ELSE UNCHANGED versCore
  /\ SansPanne
  /\ UNCHANGED <<base, monde, cmd, lot, tunnel, agent>>

-----------------------------------------------------------------------------
(* The directory and the people.                                           *)

(* A login through a tunnel: refused to a revoked account; PAM creates the *)
(* local account and refuses a locked one.                                 *)
Login(u, m) ==
  /\ "login" \in Monde
  /\ m \notin Services
  /\ u \in annuaire /\ m \in partage[u] /\ tunnel[m]
  /\ ~IsRevoked(u)
  /\ compte[m][u] # "verrou"
  /\ <<u, m>> \notin sessions
  /\ compte' = [compte EXCEPT ![m][u] = "ouvert"]
  /\ sessions' = sessions \cup {<<u, m>>}
  /\ SansPanne
  /\ UNCHANGED <<base, annuaire, partage, cmd, lot, reseau, enCours, retenue,
                 connus, fait>>

Logout(u, m) ==
  /\ <<u, m>> \in sessions
  /\ sessions' = sessions \ {<<u, m>>}
  /\ SansPanne
  /\ UNCHANGED <<base, annuaire, partage, cmd, lot, reseau, agent>>

RetirerDuGroupe(u, m) ==
  /\ "groupes" \in Monde
  /\ m \in partage[u]
  /\ partage' = [partage EXCEPT ![u] = @ \ {m}]
  /\ SansPanne
  /\ UNCHANGED <<base, annuaire, sessions, cmd, lot, reseau, agent>>

CreerCompte(u) ==
  /\ "creation" \in Monde
  /\ u \notin annuaire
  /\ annuaire' = annuaire \cup {u}
  /\ partage' = [partage EXCEPT ![u] = Machines]
  /\ SansPanne
  /\ UNCHANGED <<base, sessions, cmd, lot, reseau, agent>>

-----------------------------------------------------------------------------
Commander(c) ==
  \/ \E u \in Accounts, mode \in Modes : Trigger(c, u, mode)
  \/ LireSousVerrou(c) \/ LeverCibles(c) \/ LeverOrdres(c) \/ CreateOrder(c)
  \/ SupprimerCompte(c) \/ KillSessions(c)
  \/ \E m \in Machines : Pousser(c, m)
  \/ Fin(c) \/ Interrompre(c)

Livrer(m) ==
  \/ \E s \in Sources : LireLot(s, m) \/ Remettre(s, m)
  \/ HandleAck(m) \/ HandleError(m)
  \/ Connecter(m) \/ Couper(m)

Agir(m) ==
  \/ Recevoir(m) \/ DejaApplique(m) \/ AppliquerEtNoter(m) \/ Echouer(m)
  \/ Tomber(m) \/ PerdreEtat(m) \/ NonPrisEnCharge(m)

Vivre ==
  \/ \E u \in Accounts, m \in Machines :
       Login(u, m) \/ Logout(u, m) \/ RetirerDuGroupe(u, m)
  \/ \E u \in Accounts : CreerCompte(u)

Next ==
  \/ \E c \in Commands : Commander(c)
  \/ \E m \in Machines : Livrer(m) \/ Agir(m)
  \/ RangerLesCiblesSansCompte
  \/ Vivre

Spec == Init /\ [][Next]_vars
=============================================================================
