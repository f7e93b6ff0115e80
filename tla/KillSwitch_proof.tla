--------------------------- MODULE KillSwitch_proof ---------------------------
(***************************************************************************)
(* Proofs about the kill switch, for any park, any number of commands, of  *)
(* orders and of faults.                                                   *)
(***************************************************************************)
EXTENDS KillSwitchProperties, TLAPS

(* The initial tables, queues and files are well formed.                   *)
LEMMA TypeInit == Init => TypeOK
<1> SUFFICES ASSUME Init PROVE TypeOK
  OBVIOUS
<1>1. Repos \in Commande
  BY DEF Commande
<1>2. QED
  BY <1>1, BornesAssumption
  DEF Init, TypeOK, TargetStatus, CompteLocal, Reponse

(* A command that is under way stays a well formed record.                 *)
LEMMA EnRoute ==
  ASSUME cmd \in [Commands -> Commande], NEW c \in Commands, cmd[c].pc \in Etapes
  PROVE  cmd[c] \in Lancee
BY DEF Commande, Etapes, Ecrites, Repos

LEMMA EtapeType ==
  ASSUME cmd \in [Commands -> Commande], NEW c \in Commands, cmd[c].pc \in Etapes,
         NEW pc \in Etapes, Etape(c, pc),
         pc \in Ecrites => cmd[c].pc \in Ecrites
  PROVE  cmd' \in [Commands -> Commande]
<1>1. cmd[c] \in Lancee
  BY EnRoute
<1>2. [cmd[c] EXCEPT !.pc = pc] \in Lancee
  BY <1>1 DEF Lancee, Etapes
<1>3. QED
  BY <1>2 DEF Commande, Etape

LEMMA CmdType ==
  ASSUME cmd \in [Commands -> Commande], NEW c \in Commands, NEW r \in Commande,
         cmd' = [cmd EXCEPT ![c] = r]
  PROVE  cmd' \in [Commands -> Commande]
OBVIOUS

LEMMA PanneType ==
  ASSUME pannes \in Nat, NEW k, SansPanne \/ Panne(k)
  PROVE  pannes' \in Nat
BY DEF SansPanne, Panne

(* A command keeps the tables well formed at each of its steps.            *)
LEMMA TypeCommande ==
  ASSUME TypeOK, NEW c \in Commands, Commander(c)
  PROVE  TypeOK'
<1> USE DEF TypeOK, base, monde, reseau, agent, SansPanne, Panne
<1>1. ASSUME NEW u \in Accounts, NEW mode \in Modes, Trigger(c, u, mode)
      PROVE  TypeOK'
  <2>1. cmd' \in [Commands -> Commande]
    BY <1>1, CmdType DEF Trigger, Commande, Lancee, Etapes, Ecrites
  <2>2. QED
    BY <1>1, <2>1 DEF Trigger
<1>2. CASE LireSousVerrou(c)
  <2> DEFINE r == [cmd[c] EXCEPT !.pc = "cibles",
                     !.cibles = @ \cup MachinesSousVerrou(cmd[c].user)]
  <2>0. cmd[c] \in Lancee
    BY <1>2, EnRoute DEF LireSousVerrou, Etapes
  <2>1. r \in Lancee
    BY <2>0 DEF Lancee, Etapes, Ecrites, MachinesSousVerrou
  <2>2. cmd' \in [Commands -> Commande]
    <3> HIDE DEF TypeOK
    <3>1. cmd \in [Commands -> Commande] /\ r \in Commande
      BY <2>1 DEF TypeOK, Commande
    <3>2. cmd' = [cmd EXCEPT ![c] = r]
      BY <1>2 DEF LireSousVerrou
    <3> QED
      BY <3>1, <3>2, CmdType
  <2>3. QED
    BY <1>2, <2>2 DEF LireSousVerrou
<1>3. CASE LeverCibles(c)
  <2>1. cmd' \in [Commands -> Commande]
    BY <1>3, EtapeType DEF LeverCibles, Etapes, Ecrites
  <2>2. cible' \in [Ids -> [Machines -> TargetStatus]]
    BY <1>3 DEF LeverCibles, TargetStatus
  <2>3. QED
    BY <1>3, <2>1, <2>2 DEF LeverCibles
<1>4. CASE LeverOrdres(c)
  <2>1. cmd' \in [Commands -> Commande]
    BY <1>4, EtapeType DEF LeverOrdres, Etapes, Ecrites
  <2>2. ordre' \in [Ids -> Order \cup {Aucun}]
    <3> SUFFICES ASSUME NEW o \in Ids, VerrouDe(o, cmd[c].user)
                 PROVE  [ordre[o] EXCEPT !.leve = TRUE] \in Order
      BY <1>4 DEF LeverOrdres
    <3> QED
      <4> ordre[o] \in Order
        BY DEF VerrouDe, EnVigueur, Emis
      <4> QED
        BY DEF Order
  <2>3. QED
    BY <1>4, <2>1, <2>2 DEF LeverOrdres
<1>5. CASE CreateOrder(c)
  <2>0. cmd[c] \in Lancee
    BY <1>5, EnRoute DEF CreateOrder, Etapes
  <2>1. PICK o \in Ids, T \in SUBSET Machines :
          /\ ordre' = [ordre EXCEPT ![o] =
               [user |-> cmd[c].user, mode |-> cmd[c].mode, leve |-> FALSE]]
          /\ cible' = [cible EXCEPT ![o] =
               [m \in Machines |-> IF m \in T THEN "pending" ELSE "none"]]
          /\ \E suite \in Ecrites : cmd' = [cmd EXCEPT ![c] =
               [pc |-> suite, user |-> cmd[c].user, mode |-> cmd[c].mode,
                cibles |-> T, ordre |-> o, apousser |-> T]]
    <3> HIDE DEF TypeOK
    <3>1. cmd[c].cibles \subseteq Machines
      BY <2>0 DEF Lancee
    <3> DEFINE suite == CASE cmd[c].mode = "hard" -> "annuaire"
                          [] cmd[c].mode = "soft" -> "sessions"
                          [] OTHER -> "pousser"
    <3>2. suite \in Ecrites
      BY <2>0 DEF Lancee, Modes, Ecrites
    <3>3. PICK o \in Ids, T \in {cmd[c].cibles \ Services, cmd[c].cibles} :
            /\ ordre' = [ordre EXCEPT ![o] =
                 [user |-> cmd[c].user, mode |-> cmd[c].mode, leve |-> FALSE]]
            /\ cible' = [cible EXCEPT ![o] =
                 [m \in Machines |-> IF m \in T THEN "pending" ELSE "none"]]
            /\ cmd' = [cmd EXCEPT ![c] =
                 [pc |-> suite, user |-> cmd[c].user, mode |-> cmd[c].mode,
                  cibles |-> T, ordre |-> o, apousser |-> T]]
      BY <1>5 DEF CreateOrder
    <3>4. T \in SUBSET Machines
      BY <3>1, <3>3
    <3> HIDE DEF suite
    <3> QED
      BY <3>2, <3>3, <3>4
  <2>2. cmd' \in [Commands -> Commande]
    <3> HIDE DEF TypeOK
    <3>1. PICK suite \in Ecrites : cmd' = [cmd EXCEPT ![c] =
               [pc |-> suite, user |-> cmd[c].user, mode |-> cmd[c].mode,
                cibles |-> T, ordre |-> o, apousser |-> T]]
      BY <2>1
    <3>2. [pc |-> suite, user |-> cmd[c].user, mode |-> cmd[c].mode,
           cibles |-> T, ordre |-> o, apousser |-> T] \in Commande
      BY <2>0 DEF Commande, Lancee, Etapes
    <3> QED
      BY <3>1, <3>2, CmdType DEF TypeOK
  <2>3. ordre' \in [Ids -> Order \cup {Aucun}]
    BY <2>0, <2>1 DEF Order, Lancee
  <2>4. cible' \in [Ids -> [Machines -> TargetStatus]]
    BY <2>1 DEF TargetStatus
  <2>5. QED
    BY <1>5, <2>2, <2>3, <2>4 DEF CreateOrder
<1>6. CASE SupprimerCompte(c)
  <2>1. cmd' \in [Commands -> Commande]
    BY <1>6, EtapeType DEF SupprimerCompte, Etapes, Ecrites
  <2>2. annuaire' \subseteq Accounts /\ partage' \in [Accounts -> SUBSET Machines]
    BY <1>6 DEF SupprimerCompte
  <2>3. QED
    BY <1>6, <2>1, <2>2 DEF SupprimerCompte
<1>7. CASE KillSessions(c)
  <2>1. cmd' \in [Commands -> Commande]
    BY <1>7, EtapeType DEF KillSessions, Etapes, Ecrites
  <2>2. QED
    BY <1>7, <2>1 DEF KillSessions
<1>8. ASSUME NEW m \in Machines, Pousser(c, m)
      PROVE  TypeOK'
  <2>0. cmd[c] \in Lancee
    BY <1>8, EnRoute DEF Pousser, Etapes, Ecrites
  <2>1. [cmd[c] EXCEPT !.apousser = @ \ {m}] \in Lancee
    BY <2>0 DEF Lancee
  <2>2. cmd' \in [Commands -> Commande]
    BY <1>8, <2>1 DEF Pousser, Commande
  <2>3. versAgent' \in [Machines -> Seq(SUBSET Ids)]
    <3>1. {cmd[c].ordre} \in SUBSET Ids
      BY <1>8, <2>0 DEF Pousser, Lancee, Ecrites
    <3>2. Append(versAgent[m], {cmd[c].ordre}) \in Seq(SUBSET Ids)
      BY <3>1
    <3> QED
      BY <1>8, <3>2 DEF Pousser
  <2>4. QED
    BY <1>8, <2>2, <2>3 DEF Pousser
<1>9. CASE Fin(c) \/ Interrompre(c)
  <2>1. cmd' \in [Commands -> Commande]
    BY <1>9, CmdType DEF Fin, Interrompre, Commande
  <2>2. QED
    BY <1>9, <2>1 DEF Fin, Interrompre
<1>10. QED
  BY <1>1, <1>2, <1>3, <1>4, <1>5, <1>6, <1>7, <1>8, <1>9 DEF Commander

(* The delivery by the core and the tunnels keep the tables well formed.   *)
LEMMA TypeLivraison ==
  ASSUME TypeOK, NEW m \in Machines, Livrer(m)
  PROVE  TypeOK'
<1> USE DEF TypeOK, base, monde, reseau, agent, SansPanne, Panne
<1>1. ASSUME NEW s \in Sources, LireLot(s, m)
      PROVE  TypeOK'
  <2>1. EnAttentePour(m) \subseteq Ids
    BY DEF EnAttentePour, EnAttente
  <2>2. QED
    BY <1>1, <2>1 DEF LireLot
<1>2. ASSUME NEW s \in Sources, Remettre(s, m)
      PROVE  TypeOK'
  <2>1. Append(versAgent[m], lot[s][m]) \in Seq(SUBSET Ids)
    OBVIOUS
  <2>2. versAgent' \in [Machines -> Seq(SUBSET Ids)]
    BY <1>2, <2>1 DEF Remettre
  <2>3. QED
    BY <1>2, <2>2 DEF Remettre
<1>3. CASE HandleAck(m) \/ HandleError(m)
  <2>1. PICK res : Repondu(m, res)
    BY <1>3 DEF HandleAck, HandleError
  <2>2. versCore' \in [Machines -> Seq(Reponse)]
    BY <2>1 DEF Repondu
  <2>3. Head(versCore[m]) \in Reponse
    BY <2>1 DEF Repondu
  <2>4. cible' \in [Ids -> [Machines -> TargetStatus]]
    <3>1. ASSUME NEW st \in TargetStatus, MarkTarget(Head(versCore[m]).ordre, m, st)
          PROVE  cible' \in [Ids -> [Machines -> TargetStatus]]
      <4>1. Head(versCore[m]).ordre \in Ids
        BY <2>3 DEF Reponse
      <4>2. cible \in [Ids -> [Machines -> TargetStatus]]
        OBVIOUS
      <4> HIDE DEF TypeOK
      <4>3. QED
        BY <3>1, <4>1, <4>2 DEF MarkTarget
    <3>2. CASE MarquerMachineNonPriseEnCharge(m)
      BY <3>2 DEF MarquerMachineNonPriseEnCharge, TargetStatus
    <3>3. QED
      BY <1>3, <3>1, <3>2 DEF HandleAck, HandleError, TargetStatus
  <2>5. QED
    BY <2>1, <2>2, <2>4 DEF Repondu
<1>4. CASE Connecter(m)
  BY <1>4 DEF Connecter
<1>5. CASE Couper(m)
  BY <1>5 DEF Couper
<1>6. QED
  BY <1>1, <1>2, <1>3, <1>4, <1>5 DEF Livrer

(* What a reply leaves of the frame, of the retained reply and of the way  *)
(* back.                                                                   *)
LEMMA RepondreType ==
  ASSUME TypeOK, NEW m \in Machines, NEW o \in Ids,
         NEW res \in {"ok", "echec", "unsupported"}, Repondre(o, m, res)
  PROVE  /\ enCours' \in [Machines -> SUBSET Ids]
         /\ retenue' \in [Machines -> Seq(Reponse)]
         /\ versCore' \in [Machines -> Seq(Reponse)]
<1> DEFINE r == <<[ordre |-> o, res |-> res]>>
<1>1. r \in Seq(Reponse) /\ r \o retenue[m] \in Seq(Reponse)
  <2>1. [ordre |-> o, res |-> res] \in Reponse
    BY DEF Reponse
  <2>2. r \in Seq(Reponse)
    BY <2>1
  <2>3. retenue[m] \in Seq(Reponse)
    BY DEF TypeOK
  <2> HIDE DEF r
  <2>4. QED
    BY <2>2, <2>3
<1>2. ASSUME NEW q \in Seq(Reponse), Envoyer(m, q)
      PROVE  versCore' \in [Machines -> Seq(Reponse)]
  <2>1. versCore[m] \o q \in Seq(Reponse)
    BY DEF TypeOK
  <2>2. QED
    BY <1>2, <2>1 DEF Envoyer, TypeOK
<1>3. retenue' \in [Machines -> Seq(Reponse)]
  <2>1. \/ UNCHANGED retenue
        \/ retenue' = [retenue EXCEPT ![m] = r]
        \/ retenue' = [retenue EXCEPT ![m] = <<>>]
    BY DEF Repondre
  <2>2. /\ retenue \in [Machines -> Seq(Reponse)]
        /\ r \in Seq(Reponse)
        /\ <<>> \in Seq(Reponse)
    BY <1>1 DEF TypeOK
  <2> HIDE DEF r
  <2>3. QED
    BY <2>1, <2>2
<1>4. UNCHANGED versCore \/ Envoyer(m, r \o retenue[m]) \/ Envoyer(m, r)
  BY DEF Repondre
<1>5. QED
  BY <1>1, <1>2, <1>3, <1>4 DEF Repondre, TypeOK

(* An agent keeps its accounts and its file well formed.                   *)
LEMMA TypeAgent ==
  ASSUME TypeOK, NEW m \in Machines, Agir(m)
  PROVE  TypeOK'
<1> USE DEF base, monde, reseau, agent, SansPanne, Panne
<1>1. CASE Recevoir(m)
  BY <1>1 DEF Recevoir, TypeOK
<1>2. CASE DejaApplique(m)
  BY <1>2, RepondreType DEF DejaApplique, TypeOK
<1>3. ASSUME NEW o \in Ids, Executer(o, m), Appliquer(o, m)
      PROVE  /\ compte' \in [Machines -> [Accounts -> CompteLocal]]
             /\ fait' \in [Machines -> SUBSET Ids]
  <2>1. ordre[o] \in Order
    BY <1>3 DEF Executer, Emis, TypeOK
  <2>2. \A etat \in CompteLocal : Effet(ordre[o].mode, etat) \in CompteLocal
    BY DEF Effet, CompteLocal
  <2>3. QED
    BY <1>3, <2>1, <2>2 DEF Appliquer, TypeOK, Order
<1>4. CASE AppliquerEtNoter(m)
  <2>1. PICK o \in Ids : /\ Executer(o, m) /\ Appliquer(o, m)
                         /\ \/ SansPanne /\ connus' = [connus EXCEPT ![m] = @ \cup {o}]
                            \/ Panne("oubli") /\ UNCHANGED connus
                         /\ Repondre(o, m, "ok")
                         /\ UNCHANGED <<base, monde, cmd, lot, tunnel, versAgent>>
    BY <1>4 DEF AppliquerEtNoter
  <2>2. pannes' \in Nat
    BY <2>1, PanneType DEF TypeOK
  <2>3. connus' \in [Machines -> SUBSET Ids]
    <3>1. connus \in [Machines -> SUBSET Ids]
      BY DEF TypeOK
    <3>2. QED
      BY <2>1, <3>1
  <2>4. QED
    BY <1>3, <2>1, <2>2, <2>3, RepondreType DEF TypeOK
<1>5. CASE Echouer(m)
  <2>1. PICK o \in Ids : /\ Executer(o, m)
                         /\ \/ UNCHANGED compte
                            \/ compte' = [compte EXCEPT ![m][ordre[o].user] = "verrou"]
                         /\ Repondre(o, m, "echec")
                         /\ Panne("echec")
                         /\ UNCHANGED <<base, monde, cmd, lot, tunnel, versAgent,
                                       connus, fait>>
    BY <1>5 DEF Echouer
  <2>2. ordre[o] \in Order
    BY <2>1 DEF Executer, Emis, TypeOK
  <2>3. compte' \in [Machines -> [Accounts -> CompteLocal]]
    <3>1. ordre[o].user \in Accounts /\ "verrou" \in CompteLocal
      BY <2>2 DEF Order, CompteLocal
    <3>2. compte \in [Machines -> [Accounts -> CompteLocal]]
      BY DEF TypeOK
    <3>3. QED
      BY <2>1, <3>1, <3>2
  <2>4. pannes' \in Nat
    BY <2>1, PanneType DEF TypeOK
  <2>5. QED
    BY <2>1, <2>3, <2>4, RepondreType DEF TypeOK
<1>6. CASE Tomber(m)
  <2>1. /\ compte' \in [Machines -> [Accounts -> CompteLocal]]
        /\ fait' \in [Machines -> SUBSET Ids]
    BY <1>3, <1>6 DEF Tomber, TypeOK
  <2>2. pannes' \in Nat
    BY <1>6, PanneType DEF Tomber, TypeOK
  <2>3. /\ enCours' \in [Machines -> SUBSET Ids]
        /\ retenue' \in [Machines -> Seq(Reponse)]
        /\ tunnel' \in [Machines -> BOOLEAN]
        /\ versAgent' \in [Machines -> Seq(SUBSET Ids)]
        /\ versCore' \in [Machines -> Seq(Reponse)]
    BY <1>6 DEF Tomber, Redemarrer, TypeOK
  <2>4. UNCHANGED <<base, monde, cmd, lot, connus>>
    BY <1>6 DEF Tomber
  <2>5. QED
    BY <2>1, <2>2, <2>3, <2>4 DEF TypeOK
<1>7. CASE PerdreEtat(m)
  BY <1>7 DEF PerdreEtat, TypeOK
<1>8. CASE NonPrisEnCharge(m)
  <2>1. versAgent' \in [Machines -> Seq(SUBSET Ids)]
    BY <1>8 DEF NonPrisEnCharge, TypeOK
  <2>2. Head(versAgent[m]) \subseteq Ids
    BY <1>8 DEF NonPrisEnCharge, TypeOK
  <2>3. ASSUME NEW o \in Ids
        PROVE  versCore[m] \o <<[ordre |-> o, res |-> "unsupported"]>> \in Seq(Reponse)
    <3>1. [ordre |-> o, res |-> "unsupported"] \in Reponse
      BY DEF Reponse
    <3>2. <<[ordre |-> o, res |-> "unsupported"]>> \in Seq(Reponse)
      BY <3>1
    <3>3. versCore[m] \in Seq(Reponse)
      BY DEF TypeOK
    <3>4. QED
      BY <3>2, <3>3
  <2>4. versCore' \in [Machines -> Seq(Reponse)]
    <3>1. CASE UNCHANGED versCore
      BY <3>1 DEF TypeOK
    <3>2. ASSUME NEW o \in Ids, Envoyer(m, <<[ordre |-> o, res |-> "unsupported"]>>)
          PROVE  versCore' \in [Machines -> Seq(Reponse)]
      BY <2>3, <3>2 DEF Envoyer, TypeOK
    <3>3. QED
      BY <1>8, <2>2, <3>1, <3>2 DEF NonPrisEnCharge
  <2>5. QED
    BY <1>8, <2>1, <2>4 DEF NonPrisEnCharge, TypeOK
<1>9. QED
  BY <1>1, <1>2, <1>4, <1>5, <1>6, <1>7, <1>8 DEF Agir

(* The directory, the people and a start of the core.                      *)
LEMMA TypeMonde ==
  ASSUME TypeOK, Vivre \/ RangerLesCiblesSansCompte
  PROVE  TypeOK'
<1> USE DEF TypeOK, base, monde, reseau, agent, SansPanne
<1>1. ASSUME NEW u \in Accounts, NEW m \in Machines, Login(u, m)
      PROVE  TypeOK'
  BY <1>1 DEF Login, CompteLocal
<1>2. ASSUME NEW u \in Accounts, NEW m \in Machines,
             Logout(u, m) \/ RetirerDuGroupe(u, m)
      PROVE  TypeOK'
  <2>1. CASE Logout(u, m)
    BY <2>1 DEF Logout
  <2>2. CASE RetirerDuGroupe(u, m)
    BY <2>2 DEF RetirerDuGroupe
  <2>3. QED
    BY <1>2, <2>1, <2>2
<1>3. ASSUME NEW u \in Accounts, CreerCompte(u)
      PROVE  TypeOK'
  BY <1>3 DEF CreerCompte
<1>4. CASE RangerLesCiblesSansCompte
  BY <1>4 DEF RangerLesCiblesSansCompte, TargetStatus
<1>5. QED
  BY <1>1, <1>2, <1>3, <1>4 DEF Vivre

LEMMA TypeStep == TypeOK /\ [Next]_vars => TypeOK'
<1> SUFFICES ASSUME TypeOK, [Next]_vars PROVE TypeOK'
  OBVIOUS
<1>1. CASE UNCHANGED vars
  BY <1>1 DEF vars, TypeOK
<1>2. CASE Next
  BY <1>2, TypeCommande, TypeLivraison, TypeAgent, TypeMonde DEF Next
<1>3. QED
  BY <1>1, <1>2

(* Tables, frames, files and command states only ever hold what the code   *)
(* writes there.                                                           *)
THEOREM TypeCorrect == Spec => []TypeOK
BY TypeInit, TypeStep, PTL DEF Spec

-----------------------------------------------------------------------------
(* No step forgets a target, an order or an application.                   *)
Croissant ==
  /\ \A o \in Ids, m \in Machines : Visee(o, m) => Visee(o, m)'
  /\ \A o \in Ids : Emis(o) => Emis(o)' /\ ordre'[o].mode = ordre[o].mode
  /\ \A m \in Machines : fait[m] \subseteq fait'[m]

LEMMA CroissantBase ==
  ASSUME UNCHANGED base, \A m \in Machines : fait[m] \subseteq fait'[m]
  PROVE  Croissant
BY DEF Croissant, base, Visee, Emis

LEMMA ApousserType ==
  ASSUME TypeOK, NEW c \in Commands
  PROVE  cmd[c].apousser \subseteq Machines
<1>1. cmd[c] \in Lancee \/ cmd[c] = Repos
  BY DEF TypeOK, Commande
<1>2. QED
  BY <1>1 DEF Lancee, Repos

(* What a step that grows keeps of the invariant, variable by variable.    *)
LEMMA Stable ==
  ASSUME TypeOK, Surete, Croissant
  PROVE  /\ UNCHANGED base => /\ CiblesEmises' /\ AcquitteEstApplique'
                             /\ SeulUnVerrouEstLeve' /\ NonPrisEnChargeEstVrai'
         /\ UNCHANGED lot => LotsVises'
         /\ UNCHANGED versAgent => TramesVisees'
         /\ UNCHANGED enCours => EnCoursVises'
         /\ UNCHANGED cmd => PousseesVisees'
         /\ \A q \in Seq(Reponse), m \in Machines :
              ReponsesVraies(q, m) => ReponsesVraies(q, m)'
         /\ UNCHANGED <<versCore, retenue>> => VoieRetourVraie'
         /\ UNCHANGED connus => ConnusAppliques'
<1>1. \A o, m : m \in Machines /\ Visee(o, m) => Visee(o, m)'
  BY DEF Croissant, Visee
<1>2. \A m \in Machines : \A o \in fait[m] : o \in fait'[m]
  BY DEF Croissant
<1>3. ASSUME UNCHANGED base
      PROVE  /\ CiblesEmises' /\ AcquitteEstApplique'
             /\ SeulUnVerrouEstLeve' /\ NonPrisEnChargeEstVrai'
  BY <1>2, <1>3 DEF Surete, base, CiblesEmises, AcquitteEstApplique,
     SeulUnVerrouEstLeve, NonPrisEnChargeEstVrai, Visee, Emis
<1>4. ASSUME UNCHANGED lot PROVE LotsVises'
  BY <1>1, <1>4 DEF Surete, LotsVises
<1>5. ASSUME UNCHANGED versAgent PROVE TramesVisees'
  BY <1>1, <1>5 DEF Surete, TramesVisees
<1>6. ASSUME UNCHANGED enCours PROVE EnCoursVises'
  BY <1>1, <1>6 DEF Surete, EnCoursVises
<1>7. ASSUME UNCHANGED cmd PROVE PousseesVisees'
  <2> SUFFICES ASSUME NEW c \in Commands, NEW m \in cmd[c].apousser
               PROVE  Visee(cmd[c].ordre, m)'
    BY <1>7 DEF PousseesVisees
  <2>1. Visee(cmd[c].ordre, m)
    BY DEF Surete, PousseesVisees
  <2>2. m \in Machines
    BY ApousserType
  <2>3. QED
    BY <1>1, <1>7, <2>1, <2>2 DEF Visee
<1>8. ASSUME NEW q \in Seq(Reponse), NEW m \in Machines, ReponsesVraies(q, m)
      PROVE  ReponsesVraies(q, m)'
  BY <1>2, <1>8 DEF ReponsesVraies
<1>9. ASSUME UNCHANGED <<versCore, retenue>> PROVE VoieRetourVraie'
  BY <1>2, <1>9 DEF Surete, VoieRetourVraie, ReponsesVraies
<1>10. ASSUME UNCHANGED connus PROVE ConnusAppliques'
  BY <1>2, <1>10 DEF Surete, ConnusAppliques
<1>11. QED
  BY <1>3, <1>4, <1>5, <1>6, <1>7, <1>8, <1>9, <1>10

(* A frame that holds only orders aimed at the machine may join the others.*)
LEMMA TrameAjoutee ==
  ASSUME TypeOK, Surete, Croissant, NEW m \in Machines, NEW f \in SUBSET Ids,
         \A o \in f : Visee(o, m),
         versAgent' = [versAgent EXCEPT ![m] = Append(@, f)]
  PROVE  TramesVisees'
<1> SUFFICES ASSUME NEW n \in Machines, NEW i \in DOMAIN versAgent'[n],
                    NEW o \in versAgent'[n][i]
             PROVE  Visee(o, n)'
  BY DEF TramesVisees
<1>1. versAgent[n] \in Seq(SUBSET Ids)
  BY DEF TypeOK
<1>2. CASE i \in DOMAIN versAgent[n] /\ versAgent'[n][i] = versAgent[n][i]
  BY <1>2 DEF Surete, TramesVisees, Croissant, Visee
<1>3. CASE n = m /\ versAgent'[n][i] = f
  BY <1>3 DEF Croissant, Visee
<1>4. CASE n # m
  <2>1. versAgent'[n] = versAgent[n]
    BY <1>4 DEF TypeOK
  <2>2. QED
    BY <1>2, <2>1
<1>5. CASE n = m
  <2> DEFINE q == versAgent[m]
  <2>1. q \in Seq(SUBSET Ids)
    BY <1>1, <1>5
  <2>2. versAgent'[n] = Append(q, f)
    BY <1>5 DEF TypeOK
  <2>3. /\ DOMAIN Append(q, f) = 1..(Len(q) + 1)
        /\ DOMAIN q = 1..Len(q)
        /\ \A j \in 1..Len(q) : Append(q, f)[j] = q[j]
        /\ Append(q, f)[Len(q) + 1] = f
        /\ Len(q) \in Nat
    <3> HIDE DEF q
    <3> QED
      BY <2>1
  <2>4. i \in 1..Len(q) \/ i = Len(q) + 1
    <3>1. i \in 1..(Len(q) + 1)
      BY <2>2, <2>3
    <3> HIDE DEF q
    <3> QED
      BY <2>3, <3>1
  <2>5. CASE i \in 1..Len(q)
    BY <1>2, <1>5, <2>2, <2>3, <2>5
  <2>6. CASE i = Len(q) + 1
    BY <1>3, <1>5, <2>2, <2>3, <2>6
  <2>7. QED
    BY <2>4, <2>5, <2>6
<1>6. QED
  BY <1>4, <1>5

LEMMA SureteInit == Init => Surete
BY DEF Init, Surete, CiblesEmises, LotsVises, TramesVisees, EnCoursVises,
   PousseesVisees, VoieRetourVraie, ConnusAppliques, AcquitteEstApplique,
   SeulUnVerrouEstLeve, NonPrisEnChargeEstVrai, Visee, Emis, ReponsesVraies, Repos

(* The command: only CreateOrder makes targets, and it pushes to no other. *)
LEMMA SureteCommande ==
  ASSUME TypeOK, Surete, NEW c \in Commands, Commander(c)
  PROVE  Surete' /\ Croissant
<1> USE DEF base, monde, reseau, agent
<1>0. ASSUME UNCHANGED <<lot, reseau, agent>>, Croissant, PousseesVisees',
             CiblesEmises', AcquitteEstApplique', SeulUnVerrouEstLeve',
             NonPrisEnChargeEstVrai'
      PROVE  Surete'
  BY <1>0, Stable DEF Surete
<1>a. ASSUME NEW r, r.apousser \subseteq cmd[c].apousser,
             r.ordre = cmd[c].ordre \/ r.apousser = {}, Croissant,
             cmd' = [cmd EXCEPT ![c] = r]
      PROVE  PousseesVisees'
  <2>1. ASSUME NEW d \in Commands, NEW m \in cmd'[d].apousser
        PROVE  cmd'[d].ordre \in Ids /\ cible'[cmd'[d].ordre][m] # "none"
    <3>1. m \in cmd[d].apousser /\ cmd'[d].ordre = cmd[d].ordre
      BY <1>a, <2>1 DEF TypeOK
    <3>2. m \in Machines
      BY <3>1, ApousserType
    <3>3. Visee(cmd[d].ordre, m)
      BY <3>1 DEF Surete, PousseesVisees
    <3>4. QED
      BY <1>a, <3>1, <3>2, <3>3 DEF Croissant, Visee
  <2>2. QED
    BY <2>1 DEF PousseesVisees, Visee
<1>1. ASSUME NEW u \in Accounts, NEW mode \in Modes, Trigger(c, u, mode)
      PROVE  Surete' /\ Croissant
  <2>1. Croissant
    BY <1>1, CroissantBase DEF Trigger
  <2>2. PousseesVisees'
    BY <1>1, <1>a, <2>1 DEF Trigger
  <2>3. QED
    BY <1>0, <1>1, <2>1, <2>2, Stable DEF Trigger
<1>b. ASSUME NEW pc \in Etapes, Etape(c, pc), cmd[c].pc \in Etapes, Croissant
      PROVE  PousseesVisees'
  <2> DEFINE r == [cmd[c] EXCEPT !.pc = pc]
  <2>1. r.apousser = cmd[c].apousser /\ r.ordre = cmd[c].ordre
    BY <1>b, EnRoute DEF TypeOK, Lancee
  <2>2. cmd' = [cmd EXCEPT ![c] = r]
    BY <1>b DEF Etape
  <2> HIDE DEF r
  <2>3. QED
    BY <1>a, <1>b, <2>1, <2>2
<1>2. CASE LireSousVerrou(c)
  <2>1. Croissant
    BY <1>2, CroissantBase DEF LireSousVerrou
  <2> DEFINE r == [cmd[c] EXCEPT !.pc = "cibles",
                     !.cibles = @ \cup MachinesSousVerrou(cmd[c].user)]
  <2>2. r.apousser = cmd[c].apousser /\ r.ordre = cmd[c].ordre
    BY <1>2, EnRoute DEF TypeOK, Lancee, LireSousVerrou, Etapes
  <2>3. cmd' = [cmd EXCEPT ![c] = r]
    BY <1>2 DEF LireSousVerrou
  <2> HIDE DEF r
  <2>4. PousseesVisees'
    BY <1>a, <2>1, <2>2, <2>3
  <2>5. QED
    BY <1>0, <1>2, <2>1, <2>4, Stable DEF LireSousVerrou
<1>3. CASE LeverCibles(c)
  <2>1. \A o \in Ids, m \in Machines :
          \/ cible'[o][m] = cible[o][m]
          \/ cible[o][m] \in ARejouer /\ cible'[o][m] = "lifted" /\ EnVigueur(o)
    BY <1>3 DEF LeverCibles, VerrouDe
  <2>2. UNCHANGED <<ordre, fait, lot, reseau, agent>>
    BY <1>3 DEF LeverCibles
  <2>3. Croissant
    BY <2>1, <2>2 DEF Croissant, Visee, Emis, ARejouer
  <2>4. PousseesVisees'
    BY <1>3, <1>b, <2>3 DEF LeverCibles, Etapes, Ecrites
  <2>5. CiblesEmises' /\ AcquitteEstApplique' /\ SeulUnVerrouEstLeve'
        /\ NonPrisEnChargeEstVrai'
    BY <2>1, <2>2 DEF Surete, CiblesEmises, AcquitteEstApplique, Visee, Emis,
       SeulUnVerrouEstLeve, NonPrisEnChargeEstVrai, EnVigueur, ARejouer
  <2>6. QED
    BY <1>0, <2>2, <2>3, <2>4, <2>5
<1>4. CASE LeverOrdres(c)
  <2>1. \A o \in Ids :
          \/ ordre'[o] = ordre[o]
          \/ Emis(o) /\ ordre'[o] = [ordre[o] EXCEPT !.leve = TRUE]
    BY <1>4 DEF LeverOrdres, VerrouDe, EnVigueur
  <2>2. UNCHANGED <<cible, fait, lot, reseau, agent>>
    BY <1>4 DEF LeverOrdres
  <2>3. \A o \in Ids : Emis(o) => Emis(o)' /\ ordre'[o].mode = ordre[o].mode
    <3> SUFFICES ASSUME NEW o \in Ids, Emis(o)
                 PROVE  Emis(o)' /\ ordre'[o].mode = ordre[o].mode
      OBVIOUS
    <3>1. ordre[o] \in Order
      BY DEF TypeOK, Emis
    <3>2. [ordre[o] EXCEPT !.leve = TRUE] \in Order
          /\ [ordre[o] EXCEPT !.leve = TRUE].mode = ordre[o].mode
      BY <3>1 DEF Order
    <3>3. QED
      BY <2>1, <3>2, AucunAssumption DEF Emis
  <2>4. Croissant
    BY <2>2, <2>3 DEF Croissant, Visee
  <2>5. PousseesVisees'
    BY <1>4, <1>b, <2>4 DEF LeverOrdres, Etapes, Ecrites
  <2>6. CiblesEmises' /\ AcquitteEstApplique' /\ SeulUnVerrouEstLeve'
        /\ NonPrisEnChargeEstVrai'
    BY <2>2, <2>3 DEF Surete, CiblesEmises, AcquitteEstApplique, Visee,
       SeulUnVerrouEstLeve, NonPrisEnChargeEstVrai
  <2>7. QED
    BY <1>0, <2>2, <2>4, <2>5, <2>6
<1>5. CASE CreateOrder(c)
  <2>1. PICK o \in Ids, T \in {cmd[c].cibles \ Services, cmd[c].cibles} :
          /\ ~Emis(o)
          /\ ordre' = [ordre EXCEPT ![o] =
               [user |-> cmd[c].user, mode |-> cmd[c].mode, leve |-> FALSE]]
          /\ cible' = [cible EXCEPT ![o] =
               [m \in Machines |-> IF m \in T THEN "pending" ELSE "none"]]
          /\ \E suite \in Etapes : cmd' = [cmd EXCEPT ![c] =
               [pc |-> suite, user |-> cmd[c].user, mode |-> cmd[c].mode,
                cibles |-> T, ordre |-> o, apousser |-> T]]
    <3> DEFINE suite == CASE cmd[c].mode = "hard" -> "annuaire"
                          [] cmd[c].mode = "soft" -> "sessions"
                          [] OTHER -> "pousser"
    <3>1. suite \in Etapes
      BY DEF Etapes, Ecrites
    <3>2. PICK o \in Ids, T \in {cmd[c].cibles \ Services, cmd[c].cibles} :
            /\ ~Emis(o)
            /\ ordre' = [ordre EXCEPT ![o] =
                 [user |-> cmd[c].user, mode |-> cmd[c].mode, leve |-> FALSE]]
            /\ cible' = [cible EXCEPT ![o] =
                 [m \in Machines |-> IF m \in T THEN "pending" ELSE "none"]]
            /\ cmd' = [cmd EXCEPT ![c] =
                 [pc |-> suite, user |-> cmd[c].user, mode |-> cmd[c].mode,
                  cibles |-> T, ordre |-> o, apousser |-> T]]
      BY <1>5 DEF CreateOrder
    <3> HIDE DEF suite
    <3> QED
      BY <3>1, <3>2
  <2>2. UNCHANGED <<fait, lot, reseau, agent>>
    BY <1>5 DEF CreateOrder
  <2>3. cmd[c] \in Lancee /\ T \subseteq Machines
    BY <1>5, <2>1, EnRoute DEF CreateOrder, TypeOK, Lancee, Etapes
  <2>4. \A m \in Machines : ~Visee(o, m)
    BY <2>1 DEF Surete, CiblesEmises
  <2>5. ordre'[o] \in Order /\ \A p \in Ids : p # o => ordre'[p] = ordre[p]
    BY <2>1, <2>3 DEF TypeOK, Lancee, Order
  <2>6. Emis(o)' /\ \A p \in Ids : p # o => (Emis(p)' <=> Emis(p))
    BY <2>5, AucunAssumption DEF Emis
  <2>7. \A p \in Ids, m \in Machines :
          /\ p # o => cible'[p][m] = cible[p][m]
          /\ p = o => cible'[p][m] = IF m \in T THEN "pending" ELSE "none"
    BY <2>1 DEF TypeOK
  <2>8. Croissant
    BY <2>1, <2>2, <2>4, <2>5, <2>6, <2>7 DEF Croissant, Visee
  <2>9. PousseesVisees'
    <3> SUFFICES ASSUME NEW d \in Commands, NEW m \in cmd'[d].apousser
                 PROVE  cmd'[d].ordre \in Ids /\ cible'[cmd'[d].ordre][m] # "none"
      BY DEF PousseesVisees, Visee
    <3>1. CASE d = c
      <4>1. cmd'[c].apousser = T /\ cmd'[c].ordre = o
        BY <2>1 DEF TypeOK
      <4>2. QED
        BY <2>3, <2>7, <3>1, <4>1
    <3>2. CASE d # c
      <4>1. cmd'[d] = cmd[d]
        BY <2>1, <3>2 DEF TypeOK
      <4>2. Visee(cmd[d].ordre, m) /\ m \in Machines
        BY <4>1, ApousserType DEF Surete, PousseesVisees
      <4>3. QED
        BY <2>8, <4>1, <4>2 DEF Croissant, Visee
    <3>3. QED
      BY <3>1, <3>2
  <2>10. CiblesEmises' /\ AcquitteEstApplique' /\ SeulUnVerrouEstLeve'
         /\ NonPrisEnChargeEstVrai'
    BY <2>2, <2>5, <2>6, <2>7 DEF Surete, CiblesEmises, AcquitteEstApplique,
       SeulUnVerrouEstLeve, NonPrisEnChargeEstVrai, Visee
  <2>11. QED
    BY <1>0, <2>2, <2>8, <2>9, <2>10
<1>6. CASE SupprimerCompte(c)
  <2>1. Croissant
    BY <1>6, CroissantBase DEF SupprimerCompte
  <2>2. PousseesVisees'
    BY <1>6, <1>b, <2>1 DEF SupprimerCompte, Etapes, Ecrites
  <2>3. QED
    BY <1>0, <1>6, <2>1, <2>2, Stable DEF SupprimerCompte
<1>7. CASE KillSessions(c)
  <2>1. Croissant
    BY <1>7, CroissantBase DEF KillSessions
  <2>2. PousseesVisees'
    BY <1>7, <1>b, <2>1 DEF KillSessions, Etapes, Ecrites
  <2>3. QED
    BY <1>0, <1>7, <2>1, <2>2, Stable DEF KillSessions
<1>8. ASSUME NEW m \in Machines, Pousser(c, m)
      PROVE  Surete' /\ Croissant
  <2>1. Croissant
    BY <1>8, CroissantBase DEF Pousser
  <2>2. PousseesVisees'
    <3> DEFINE r == [cmd[c] EXCEPT !.apousser = @ \ {m}]
    <3>1. r.apousser \subseteq cmd[c].apousser /\ r.ordre = cmd[c].ordre
      BY <1>8, EnRoute DEF TypeOK, Lancee, Pousser, Etapes, Ecrites
    <3>2. cmd' = [cmd EXCEPT ![c] = r]
      BY <1>8 DEF Pousser
    <3> HIDE DEF r
    <3>3. QED
      BY <1>a, <2>1, <3>1, <3>2
  <2>3. Visee(cmd[c].ordre, m)
    BY <1>8 DEF Pousser, Surete, PousseesVisees
  <2>4. CASE UNCHANGED versAgent
    BY <1>8, <2>1, <2>2, <2>4, Stable DEF Surete, Pousser
  <2>5. CASE versAgent' = [versAgent EXCEPT ![m] = Append(@, {cmd[c].ordre})]
    <3>1. TramesVisees'
      <4> DEFINE f == {cmd[c].ordre}
      <4>1. f \in SUBSET Ids /\ \A o \in f : Visee(o, m)
        BY <2>3 DEF Visee
      <4>2. versAgent' = [versAgent EXCEPT ![m] = Append(@, f)]
        BY <2>5
      <4> HIDE DEF f
      <4>3. QED
        BY <2>1, <4>1, <4>2, TrameAjoutee
    <3>2. QED
      BY <1>8, <2>1, <2>2, <3>1, Stable DEF Surete, Pousser
  <2>6. QED
    BY <1>8, <2>1, <2>4, <2>5 DEF Pousser
<1>9. CASE Fin(c) \/ Interrompre(c)
  <2>1. Croissant
    BY <1>9, CroissantBase DEF Fin, Interrompre
  <2>2. PousseesVisees'
    BY <1>9, <1>a, <2>1 DEF Fin, Interrompre, Repos
  <2>3. QED
    BY <1>0, <1>9, <2>1, <2>2, Stable DEF Fin, Interrompre
<1>10. QED
  BY <1>1, <1>2, <1>3, <1>4, <1>5, <1>6, <1>7, <1>8, <1>9 DEF Commander

(* What an answer of a machine does to the statuses: nothing to a target   *)
(* that does not exist, and "acked" or "unsupported" only when it is true. *)
LEMMA ReponseMarquee ==
  ASSUME TypeOK, Surete, NEW m \in Machines, HandleAck(m) \/ HandleError(m)
  PROVE  \A o \in Ids, n \in Machines :
           \/ cible'[o][n] = cible[o][n]
           \/ /\ cible[o][n] # "none"
              /\ \/ cible'[o][n] = "failed"
                 \/ cible'[o][n] = "acked" /\ o \in fait[n]
                 \/ cible'[o][n] = "unsupported" /\ n \in Windows
<1> DEFINE q == versCore[m]
           h == Head(q)
<1>1. q # <<>> /\ q \in Seq(Reponse)
  BY DEF HandleAck, HandleError, Repondu, TypeOK
<1>2. 1 \in DOMAIN q /\ h = q[1] /\ h \in Reponse
  <2> HIDE DEF q
  <2>1. QED
    BY <1>1
<1>3. ReponsesVraies(q, m)
  BY DEF Surete, VoieRetourVraie
<1>4. /\ h.ordre \in Ids
      /\ h.res = "ok" => h.ordre \in fait[m]
      /\ h.res = "unsupported" => m \in Windows
  <2> HIDE DEF q, h
  <2>1. QED
    BY <1>2, <1>3 DEF ReponsesVraies, Reponse
<1>5. cible \in [Ids -> [Machines -> TargetStatus]]
  BY DEF TypeOK
<1>6. ASSUME NEW st, MarkTarget(h.ordre, m, st)
      PROVE  \A o \in Ids, n \in Machines :
               \/ cible'[o][n] = cible[o][n]
               \/ /\ cible[o][n] # "none" /\ cible'[o][n] = st
                  /\ o = h.ordre /\ n = m
  <2> HIDE DEF h
  <2>1. QED
    BY <1>4, <1>5, <1>6 DEF MarkTarget
<1>7. CASE HandleAck(m)
  <2>1. h.res = "ok" /\ MarkTarget(h.ordre, m, "acked")
    BY <1>7 DEF HandleAck, Repondu
  <2> HIDE DEF h
  <2>2. QED
    BY <1>4, <1>6, <2>1
<1>8. CASE h.res = "echec" /\ MarkTarget(h.ordre, m, "failed")
  <2> HIDE DEF h
  <2>1. QED
    BY <1>6, <1>8
<1>9. CASE h.res = "unsupported" /\ MarquerMachineNonPriseEnCharge(m)
  BY <1>4, <1>5, <1>9 DEF MarquerMachineNonPriseEnCharge, ARejouer
<1>10. QED
  BY <1>7, <1>8, <1>9 DEF HandleError, Repondu

(* The core sends what it has read, and writes down only what it was told. *)
LEMMA SureteLivraison ==
  ASSUME TypeOK, Surete, NEW m \in Machines, Livrer(m)
  PROVE  Surete' /\ Croissant
<1> USE DEF base, monde, reseau, agent
<1>1. ASSUME NEW s \in Sources, LireLot(s, m)
      PROVE  Surete' /\ Croissant
  <2>1. Croissant
    BY <1>1, CroissantBase DEF LireLot
  <2>2. ASSUME NEW o \in EnAttentePour(m) PROVE Visee(o, m)
    BY DEF EnAttentePour, EnAttente, Visee, ARejouer
  <2>3. lot' = [lot EXCEPT ![s][m] = EnAttentePour(m)] /\ UNCHANGED cible
    BY <1>1 DEF LireLot
  <2>4. LotsVises'
    <3> SUFFICES ASSUME NEW t \in Sources, NEW n \in Machines, NEW o \in lot'[t][n]
                 PROVE  Visee(o, n)
      BY <2>3 DEF LotsVises, Visee
    <3>1. CASE t = s /\ n = m
      BY <2>2, <2>3, <3>1 DEF TypeOK
    <3>2. CASE ~(t = s /\ n = m)
      <4>1. lot'[t][n] = lot[t][n]
        BY <2>3, <3>2 DEF TypeOK
      <4>2. QED
        BY <4>1 DEF Surete, LotsVises
    <3>3. QED
      BY <3>1, <3>2
  <2>5. QED
    BY <1>1, <2>1, <2>4, Stable DEF LireLot, Surete
<1>2. ASSUME NEW s \in Sources, Remettre(s, m)
      PROVE  Surete' /\ Croissant
  <2>1. Croissant
    BY <1>2, CroissantBase DEF Remettre
  <2>2. lot' = [lot EXCEPT ![s][m] = {}] /\ UNCHANGED cible
    BY <1>2 DEF Remettre
  <2>3. LotsVises'
    <3> SUFFICES ASSUME NEW t \in Sources, NEW n \in Machines, NEW o \in lot'[t][n]
                 PROVE  Visee(o, n)
      BY <2>2 DEF LotsVises, Visee
    <3>1. lot'[t][n] = lot[t][n]
      BY <2>2 DEF TypeOK
    <3>2. QED
      BY <3>1 DEF Surete, LotsVises
  <2>4. TramesVisees'
    <3>1. CASE UNCHANGED versAgent
      BY <2>1, <3>1, Stable
    <3>2. CASE versAgent' = [versAgent EXCEPT ![m] = Append(@, lot[s][m])]
      <4>1. lot[s][m] \in SUBSET Ids /\ \A o \in lot[s][m] : Visee(o, m)
        BY DEF TypeOK, Surete, LotsVises
      <4>2. QED
        BY <2>1, <3>2, <4>1, TrameAjoutee
    <3>3. QED
      BY <1>2, <3>1, <3>2 DEF Remettre
  <2>5. QED
    BY <1>2, <2>1, <2>3, <2>4, Stable DEF Remettre, Surete
<1>3. CASE HandleAck(m) \/ HandleError(m)
  <2>1. PICK res : Repondu(m, res)
    BY <1>3 DEF HandleAck, HandleError
  <2>2. UNCHANGED <<ordre, lot, cmd, versAgent, agent>>
    BY <2>1 DEF Repondu
  <2>3. \A o \in Ids, n \in Machines :
          \/ cible'[o][n] = cible[o][n]
          \/ /\ cible[o][n] # "none"
             /\ \/ cible'[o][n] = "failed"
                \/ cible'[o][n] = "acked" /\ o \in fait[n]
                \/ cible'[o][n] = "unsupported" /\ n \in Windows
    BY <1>3, ReponseMarquee
  <2>4. Croissant
    BY <2>2, <2>3 DEF Croissant, Visee, Emis
  <2>5. CiblesEmises' /\ AcquitteEstApplique' /\ SeulUnVerrouEstLeve'
        /\ NonPrisEnChargeEstVrai'
    BY <2>2, <2>3 DEF Surete, CiblesEmises, AcquitteEstApplique, Visee, Emis,
       SeulUnVerrouEstLeve, NonPrisEnChargeEstVrai
  <2>6. VoieRetourVraie'
    <3> SUFFICES ASSUME NEW n \in Machines
                 PROVE  ReponsesVraies(versCore'[n], n) /\ ReponsesVraies(retenue[n], n)
      BY <2>2 DEF VoieRetourVraie, ReponsesVraies
    <3>1. ReponsesVraies(versCore[n], n) /\ ReponsesVraies(retenue[n], n)
      BY DEF Surete, VoieRetourVraie
    <3>2. CASE n # m
      <4>1. versCore'[n] = versCore[n]
        BY <2>1, <3>2 DEF Repondu, TypeOK
      <4>2. QED
        BY <3>1, <4>1
    <3>3. CASE n = m
      <4> DEFINE q == versCore[m]
      <4>1. q # <<>> /\ q \in Seq(Reponse)
        BY <2>1 DEF Repondu, TypeOK
      <4>2. versCore'[m] = Tail(q)
        BY <2>1 DEF Repondu, TypeOK
      <4>3. ReponsesVraies(q, m)
        BY <3>1, <3>3
      <4>4. ReponsesVraies(Tail(q), m)
        <5> HIDE DEF q
        <5>1. QED
          BY <4>1, <4>3 DEF ReponsesVraies
      <4>5. QED
        BY <3>1, <3>3, <4>2, <4>4
    <3>4. QED
      BY <3>2, <3>3
  <2>7. QED
    BY <2>2, <2>4, <2>5, <2>6, Stable DEF Surete
<1>4. CASE Connecter(m)
  <2>1. Croissant
    BY <1>4, CroissantBase DEF Connecter
  <2>2. QED
    BY <1>4, <2>1, Stable DEF Connecter, Surete
<1>5. CASE Couper(m)
  <2>1. Croissant
    BY <1>5, CroissantBase DEF Couper
  <2>2. TramesVisees' /\ VoieRetourVraie'
    <3>1. \A n \in Machines : /\ versAgent'[n] \in {versAgent[n], <<>>}
                              /\ versCore'[n] \in {versCore[n], <<>>}
                              /\ retenue'[n] = retenue[n]
      BY <1>5 DEF Couper, TypeOK
    <3>2. UNCHANGED <<cible, fait>>
      BY <1>5 DEF Couper
    <3>3. QED
      BY <3>1, <3>2 DEF Surete, TramesVisees, VoieRetourVraie, ReponsesVraies, Visee
  <2>3. QED
    BY <1>5, <2>1, <2>2, Stable DEF Couper, Surete
<1>6. QED
  BY <1>1, <1>2, <1>3, <1>4, <1>5 DEF Livrer

(* ReponsesVraies with the orders applied as a parameter.                  *)
Vraies(q, m, F) ==
  \A i \in DOMAIN q : /\ q[i].res = "ok" => q[i].ordre \in F
                      /\ q[i].res = "unsupported" => m \in Windows

LEMMA VraiesJointes ==
  ASSUME NEW q \in Seq(Reponse), NEW r \in Seq(Reponse), NEW m, NEW F,
         Vraies(q, m, F), Vraies(r, m, F)
  PROVE  q \o r \in Seq(Reponse) /\ Vraies(q \o r, m, F)
<1>1. q \o r \in Seq(Reponse)
  OBVIOUS
<1>2. \A i \in DOMAIN (q \o r) :
        \/ i \in DOMAIN q /\ (q \o r)[i] = q[i]
        \/ i - Len(q) \in DOMAIN r /\ (q \o r)[i] = r[i - Len(q)]
  OBVIOUS
<1>3. QED
  BY <1>1, <1>2 DEF Vraies

(* A true reply leaves the way back truthful, and the frame as it was less *)
(* the order answered.                                                     *)
LEMMA RepondreVrai ==
  ASSUME TypeOK, Surete, Croissant, NEW m \in Machines, NEW o \in Ids,
         NEW res \in {"ok", "echec"}, Repondre(o, m, res),
         res = "ok" => o \in fait'[m]
  PROVE  VoieRetourVraie' /\ EnCoursVises'
<1> DEFINE r == <<[ordre |-> o, res |-> res]>>
           V(q, n) == Vraies(q, n, fait'[n])
<1>1. r \in Seq(Reponse) /\ V(r, m)
  <2>1. [ordre |-> o, res |-> res] \in Reponse
    BY DEF Reponse
  <2>2. V(r, m)
    BY DEF Vraies
  <2>3. QED
    BY <2>1, <2>2
<1>2. ASSUME NEW n \in Machines
      PROVE  /\ versCore[n] \in Seq(Reponse) /\ V(versCore[n], n)
             /\ retenue[n] \in Seq(Reponse) /\ V(retenue[n], n)
  <2>1. versCore[n] \in Seq(Reponse) /\ retenue[n] \in Seq(Reponse)
    BY DEF TypeOK
  <2>2. ReponsesVraies(versCore[n], n) /\ ReponsesVraies(retenue[n], n)
    BY DEF Surete, VoieRetourVraie
  <2>3. fait[n] \subseteq fait'[n]
    BY DEF Croissant
  <2>4. QED
    BY <2>1, <2>2, <2>3 DEF ReponsesVraies, Vraies
<1>3. <<>> \in Seq(Reponse) /\ V(<<>>, m)
  BY DEF Vraies
<1>4. r \o retenue[m] \in Seq(Reponse) /\ V(r \o retenue[m], m)
  <2> HIDE DEF r
  <2>1. QED
    BY <1>1, <1>2, VraiesJointes
<1>5. ASSUME NEW q \in Seq(Reponse), V(q, m), Envoyer(m, q), NEW n \in Machines
      PROVE  V(versCore'[n], n)
  <2>1. versCore[m] \o q \in Seq(Reponse) /\ V(versCore[m] \o q, m)
    BY <1>2, <1>5, VraiesJointes
  <2>2. \/ versCore'[n] = versCore[n]
        \/ n = m /\ versCore'[n] = versCore[m] \o q
    BY <1>5 DEF Envoyer, TypeOK
  <2> HIDE DEF V
  <2>3. QED
    BY <1>2, <2>1, <2>2
<1>6. ASSUME NEW n \in Machines PROVE V(versCore'[n], n)
  <2>1. UNCHANGED versCore \/ Envoyer(m, r \o retenue[m]) \/ Envoyer(m, r)
    BY DEF Repondre
  <2> HIDE DEF r, V
  <2>2. QED
    BY <1>1, <1>2, <1>4, <1>5, <2>1
<1>7. ASSUME NEW n \in Machines PROVE V(retenue'[n], n)
  <2>1. \/ UNCHANGED retenue
        \/ retenue' = [retenue EXCEPT ![m] = r]
        \/ retenue' = [retenue EXCEPT ![m] = <<>>]
    BY DEF Repondre
  <2>2. \/ retenue'[n] = retenue[n]
        \/ n = m /\ retenue'[n] \in {r, <<>>}
    <3> HIDE DEF r
    <3>1. QED
      BY <2>1 DEF TypeOK
  <2> HIDE DEF r, V
  <2>3. QED
    BY <1>1, <1>2, <1>3, <2>2
<1>8. VoieRetourVraie'
  BY <1>6, <1>7 DEF VoieRetourVraie, ReponsesVraies, Vraies
<1>9. EnCoursVises'
  <2>1. \A n \in Machines : enCours'[n] \subseteq enCours[n]
    BY DEF Repondre, TypeOK
  <2>2. QED
    BY <2>1 DEF Surete, EnCoursVises, Croissant, Visee
<1>10. QED
  BY <1>8, <1>9

(* A success adds the order to the applied ones, of which there was one    *)
(* target: nothing else of the history moves.                              *)
LEMMA AppliquerCroissant ==
  ASSUME TypeOK, UNCHANGED base, NEW m \in Machines, NEW o \in Ids, Appliquer(o, m)
  PROVE  /\ Croissant
         /\ \A n \in Machines : fait'[n] = IF n = m THEN fait[n] \cup {o} ELSE fait[n]
<1>1. \A n \in Machines : fait'[n] = IF n = m THEN fait[n] \cup {o} ELSE fait[n]
  BY DEF Appliquer, TypeOK
<1>2. QED
  BY <1>1, CroissantBase

(* The agent: it remembers and acknowledges only what it has applied, and  *)
(* works only through what was aimed at it.                                *)
LEMMA SureteAgent ==
  ASSUME TypeOK, Surete, NEW m \in Machines, Agir(m)
  PROVE  Surete' /\ Croissant
<1> USE DEF base, monde, reseau, agent
<1>1. CASE Recevoir(m)
  <2>1. Croissant
    BY <1>1, CroissantBase DEF Recevoir
  <2> DEFINE q == versAgent[m]
  <2>2. q \in Seq(SUBSET Ids) /\ q # <<>>
    BY <1>1 DEF Recevoir, TypeOK
  <2>3. /\ 1 \in DOMAIN q /\ Head(q) = q[1]
        /\ \A i \in DOMAIN Tail(q) : i + 1 \in DOMAIN q /\ Tail(q)[i] = q[i + 1]
    <3> HIDE DEF q
    <3>1. QED
      BY <2>2
  <2>4. \A i \in DOMAIN q : \A o \in q[i] : Visee(o, m)
    BY DEF Surete, TramesVisees
  <2>5. UNCHANGED cible
    BY <1>1 DEF Recevoir
  <2>6. EnCoursVises'
    <3>1. \A n \in Machines : n # m => enCours'[n] = enCours[n]
      BY <1>1 DEF Recevoir, TypeOK
    <3>2. enCours'[m] = Head(q) /\ m \notin Windows \cup Services
      BY <1>1 DEF Recevoir, TypeOK
    <3>3. QED
      BY <2>3, <2>4, <2>5, <3>1, <3>2 DEF Surete, EnCoursVises, Visee
  <2>7. TramesVisees'
    <3>1. \A n \in Machines : n # m => versAgent'[n] = versAgent[n]
      BY <1>1 DEF Recevoir, TypeOK
    <3>2. versAgent'[m] = Tail(q)
      BY <1>1 DEF Recevoir, TypeOK
    <3>3. ASSUME NEW n \in Machines, NEW i \in DOMAIN versAgent'[n],
                 NEW o \in versAgent'[n][i]
          PROVE  Visee(o, n)
      <4>1. CASE n = m
        BY <2>3, <2>4, <3>2, <4>1
      <4>2. CASE n # m
        BY <3>1, <4>2 DEF Surete, TramesVisees
      <4>3. QED
        BY <4>1, <4>2
    <3>4. QED
      BY <2>5, <3>3 DEF TramesVisees, Visee
  <2>8. QED
    BY <1>1, <2>1, <2>6, <2>7, Stable DEF Recevoir, Surete
<1>2. CASE DejaApplique(m)
  <2>1. Croissant
    BY <1>2, CroissantBase DEF DejaApplique
  <2>2. PICK o \in Ids : o \in connus[m] /\ Repondre(o, m, "ok")
    BY <1>2 DEF DejaApplique
  <2>3. o \in fait'[m]
    BY <1>2, <2>2 DEF DejaApplique, Surete, ConnusAppliques
  <2>4. VoieRetourVraie' /\ EnCoursVises'
    BY <2>1, <2>2, <2>3, RepondreVrai
  <2>5. QED
    BY <1>2, <2>1, <2>4, Stable DEF DejaApplique, Surete
<1>3. CASE AppliquerEtNoter(m)
  <2>1. PICK o \in Ids : /\ Appliquer(o, m)
                         /\ \/ connus' = [connus EXCEPT ![m] = @ \cup {o}]
                            \/ UNCHANGED connus
                         /\ Repondre(o, m, "ok")
                         /\ UNCHANGED <<base, monde, cmd, lot, tunnel, versAgent>>
    BY <1>3 DEF AppliquerEtNoter
  <2>2. /\ Croissant
        /\ \A n \in Machines : fait'[n] = IF n = m THEN fait[n] \cup {o} ELSE fait[n]
    BY <2>1, AppliquerCroissant
  <2>3. VoieRetourVraie' /\ EnCoursVises'
    BY <2>1, <2>2, RepondreVrai
  <2>4. ConnusAppliques'
    <3>1. \A n \in Machines :
            \/ connus'[n] = connus[n]
            \/ n = m /\ connus'[n] = connus[n] \cup {o}
      <4>1. connus \in [Machines -> SUBSET Ids]
        BY DEF TypeOK
      <4>2. QED
        BY <2>1, <4>1
    <3>2. QED
      BY <2>2, <3>1 DEF Surete, ConnusAppliques
  <2>5. QED
    BY <2>1, <2>2, <2>3, <2>4, Stable DEF Surete
<1>4. CASE Echouer(m)
  <2>1. PICK o \in Ids : Repondre(o, m, "echec")
    BY <1>4 DEF Echouer
  <2>2. UNCHANGED <<base, monde, cmd, lot, tunnel, versAgent, connus, fait>>
    BY <1>4 DEF Echouer
  <2>3. Croissant
    BY <2>2, CroissantBase
  <2>4. VoieRetourVraie' /\ EnCoursVises'
    BY <2>1, <2>3, RepondreVrai
  <2>5. QED
    BY <2>2, <2>3, <2>4, Stable DEF Surete
<1>5. CASE Tomber(m)
  <2>1. UNCHANGED <<base, monde, cmd, lot, connus>>
    BY <1>5 DEF Tomber
  <2>2. Croissant
    <3>1. CASE UNCHANGED fait
      BY <2>1, <3>1, CroissantBase
    <3>2. CASE \E o \in Ids : Appliquer(o, m)
      BY <2>1, <3>2, AppliquerCroissant
    <3>3. QED
      BY <1>5, <3>1, <3>2 DEF Tomber
  <2>3. \A n \in Machines : /\ versAgent'[n] \in {versAgent[n], <<>>}
                            /\ versCore'[n] \in {versCore[n], <<>>}
                            /\ retenue'[n] \in {retenue[n], <<>>}
                            /\ enCours'[n] \in {enCours[n], {}}
    BY <1>5 DEF Tomber, Redemarrer, TypeOK
  <2>4. TramesVisees' /\ EnCoursVises'
    BY <2>1, <2>3 DEF Surete, TramesVisees, EnCoursVises, Visee
  <2>5. VoieRetourVraie'
    BY <2>2, <2>3 DEF Surete, VoieRetourVraie, ReponsesVraies, Croissant
  <2>6. QED
    BY <2>1, <2>2, <2>4, <2>5, Stable DEF Surete
<1>6. CASE PerdreEtat(m)
  <2>1. Croissant
    BY <1>6, CroissantBase DEF PerdreEtat
  <2>2. ConnusAppliques'
    <3>1. \A n \in Machines : connus'[n] \in {connus[n], {}} /\ fait'[n] = fait[n]
      BY <1>6 DEF PerdreEtat, TypeOK
    <3>2. QED
      BY <3>1 DEF Surete, ConnusAppliques
  <2>3. QED
    BY <1>6, <2>1, <2>2, Stable DEF PerdreEtat, Surete
<1>7. CASE NonPrisEnCharge(m)
  <2>1. Croissant
    BY <1>7, CroissantBase DEF NonPrisEnCharge
  <2>2. UNCHANGED <<base, cmd, lot, enCours, retenue, connus, fait>>
    BY <1>7 DEF NonPrisEnCharge
  <2>3. TramesVisees'
    <3> DEFINE q == versAgent[m]
    <3>1. q \in Seq(SUBSET Ids) /\ q # <<>>
      BY <1>7 DEF NonPrisEnCharge, TypeOK
    <3>2. \A i \in DOMAIN Tail(q) : i + 1 \in DOMAIN q /\ Tail(q)[i] = q[i + 1]
      <4> HIDE DEF q
      <4>1. QED
        BY <3>1
    <3>3. \A n \in Machines : n # m => versAgent'[n] = versAgent[n]
      BY <1>7 DEF NonPrisEnCharge, TypeOK
    <3>4. versAgent'[m] = Tail(q)
      BY <1>7 DEF NonPrisEnCharge, TypeOK
    <3>5. \A i \in DOMAIN q : \A o \in q[i] : Visee(o, m)
      BY DEF Surete, TramesVisees
    <3>6. ASSUME NEW n \in Machines, NEW i \in DOMAIN versAgent'[n],
                 NEW o \in versAgent'[n][i]
          PROVE  Visee(o, n)
      <4>1. CASE n = m
        BY <3>2, <3>4, <3>5, <4>1
      <4>2. CASE n # m
        BY <3>3, <4>2 DEF Surete, TramesVisees
      <4>3. QED
        BY <4>1, <4>2
    <3>7. QED
      BY <2>2, <3>6 DEF TramesVisees, Visee
  <2>4. VoieRetourVraie'
    <3>1. CASE UNCHANGED versCore
      BY <2>1, <2>2, <3>1, Stable
    <3>2. ASSUME NEW o \in Ids, m \in Windows,
                 Envoyer(m, <<[ordre |-> o, res |-> "unsupported"]>>)
          PROVE  VoieRetourVraie'
      <4> DEFINE r == <<[ordre |-> o, res |-> "unsupported"]>>
      <4>1. r \in Seq(Reponse) /\ Vraies(r, m, fait[m])
        <5>1. [ordre |-> o, res |-> "unsupported"] \in Reponse
          BY DEF Reponse
        <5>2. Vraies(r, m, fait[m])
          BY <3>2 DEF Vraies
        <5>3. QED
          BY <5>1, <5>2
      <4>2. \A n \in Machines : /\ versCore[n] \in Seq(Reponse)
                                /\ Vraies(versCore[n], n, fait[n])
                                /\ Vraies(retenue[n], n, fait[n])
        BY DEF TypeOK, Surete, VoieRetourVraie, ReponsesVraies, Vraies
      <4>3. Vraies(versCore[m] \o r, m, fait[m])
        <5> HIDE DEF r
        <5>1. QED
          BY <4>1, <4>2, VraiesJointes
      <4>4. \A n \in Machines : \/ versCore'[n] = versCore[n]
                                \/ n = m /\ versCore'[n] = versCore[m] \o r
        <5>1. Envoyer(m, r)
          BY <3>2
        <5> HIDE DEF r
        <5>2. QED
          BY <5>1 DEF Envoyer, TypeOK
      <4>5. \A n \in Machines : Vraies(versCore'[n], n, fait[n])
        <5> HIDE DEF r
        <5>1. QED
          BY <4>2, <4>3, <4>4
      <4>6. QED
        BY <2>2, <4>2, <4>5 DEF VoieRetourVraie, ReponsesVraies, Vraies
    <3>3. Head(versAgent[m]) \subseteq Ids
      BY <1>7 DEF NonPrisEnCharge, TypeOK
    <3>4. QED
      BY <1>7, <3>1, <3>2, <3>3 DEF NonPrisEnCharge
  <2>5. QED
    BY <2>1, <2>2, <2>3, <2>4, Stable DEF Surete
<1>8. QED
  BY <1>1, <1>2, <1>3, <1>4, <1>5, <1>6, <1>7 DEF Agir

(* The directory, the people and a start of the core.                      *)
LEMMA SureteMonde ==
  ASSUME TypeOK, Surete, Vivre \/ RangerLesCiblesSansCompte
  PROVE  Surete' /\ Croissant
<1> USE DEF base, monde, reseau, agent
<1>1. CASE Vivre
  <2>1. UNCHANGED <<base, cmd, lot, reseau, enCours, retenue, connus, fait>>
    BY <1>1 DEF Vivre, Login, Logout, RetirerDuGroupe, CreerCompte
  <2>2. Croissant
    BY <2>1, CroissantBase
  <2>3. QED
    BY <2>1, <2>2, Stable DEF Surete
<1>2. CASE RangerLesCiblesSansCompte
  <2>1. UNCHANGED <<ordre, cmd, lot, reseau, agent>>
    BY <1>2 DEF RangerLesCiblesSansCompte
  <2>2. \A o \in Ids, n \in Machines :
          \/ cible'[o][n] = cible[o][n]
          \/ /\ cible[o][n] # "none" /\ n \in Services
             /\ cible'[o][n] = "unsupported"
    BY <1>2 DEF RangerLesCiblesSansCompte, ARejouer
  <2>3. Croissant
    BY <2>1, <2>2 DEF Croissant, Visee, Emis
  <2>4. CiblesEmises' /\ AcquitteEstApplique' /\ SeulUnVerrouEstLeve'
        /\ NonPrisEnChargeEstVrai'
    BY <2>1, <2>2 DEF Surete, CiblesEmises, AcquitteEstApplique, Visee, Emis,
       SeulUnVerrouEstLeve, NonPrisEnChargeEstVrai
  <2>5. QED
    BY <2>1, <2>3, <2>4, Stable DEF Surete
<1>3. QED
  BY <1>1, <1>2

LEMMA SureteStep == TypeOK /\ Surete /\ [Next]_vars => Surete'
<1> SUFFICES ASSUME TypeOK, Surete, [Next]_vars PROVE Surete'
  OBVIOUS
<1>1. CASE UNCHANGED vars
  <2>1. Croissant
    BY <1>1, CroissantBase DEF vars, base
  <2>2. QED
    BY <1>1, <2>1, Stable DEF vars, base, Surete
<1>2. CASE Next
  BY <1>2, SureteCommande, SureteLivraison, SureteAgent, SureteMonde DEF Next
<1>3. QED
  BY <1>1, <1>2

(* Whatever is lost, duplicated or interrupted, everything on its way is   *)
(* aimed at the machine it goes to and every answer on its way is true.    *)
THEOREM SureteCorrecte == Spec => []Surete
<1>1. Spec => []TypeOK
  BY TypeCorrect
<1>2. QED
  BY <1>1, SureteInit, SureteStep, PTL DEF Spec

(* A target shown as acknowledged was applied on its machine.              *)
THEOREM AcquitteCorrect == Spec => []AcquitteEstApplique
<1>1. Surete => AcquitteEstApplique
  BY DEF Surete
<1>2. QED
  BY <1>1, SureteCorrecte, PTL

(* Only locks are ever shown as lifted.                                    *)
THEOREM LeveeCorrecte == Spec => []SeulUnVerrouEstLeve
<1>1. Surete => SeulUnVerrouEstLeve
  BY DEF Surete
<1>2. QED
  BY <1>1, SureteCorrecte, PTL

(* Only a machine without local accounts to close is shown as unsupported. *)
THEOREM NonPrisEnChargeCorrect == Spec => []NonPrisEnChargeEstVrai
<1>1. Surete => NonPrisEnChargeEstVrai
  BY DEF Surete
<1>2. QED
  BY <1>1, SureteCorrecte, PTL

-----------------------------------------------------------------------------
(* Each step of the kill switch is a step of the promise, or none.         *)
ModeDe == [o \in Ids |-> IF Emis(o) THEN ordre[o].mode ELSE Aucun]
Abstrait == <<ModeDe, cible, fait>>

LEMMA PromesseInit == Init => Promesse!Init
<1> SUFFICES ASSUME Init PROVE Promesse!Init
  OBVIOUS
<1>1. \A o \in Ids : ~Emis(o)
  BY DEF Init, Emis
<1>2. QED
  BY <1>1 DEF Init, Promesse!Init

LEMMA SansEffet ==
  ASSUME UNCHANGED <<ordre, cible, fait>>
  PROVE  UNCHANGED Abstrait
BY DEF Abstrait, ModeDe, Emis

LEMMA PromesseCommande ==
  ASSUME TypeOK, Surete, NEW c \in Commands, Commander(c)
  PROVE  Promesse!Next \/ UNCHANGED Abstrait
<1> USE DEF base, monde, reseau, agent
<1>1. CASE LeverCibles(c)
  <2> DEFINE S == {o \in Ids : VerrouDe(o, cmd[c].user)}
  <2>1. \A o \in S : ModeDe[o] = "soft"
    BY DEF ModeDe, VerrouDe, EnVigueur
  <2>2. cible' = [o \in Ids |-> [m \in Machines |->
          IF o \in S /\ cible[o][m] \in {"pending", "failed"}
          THEN "lifted" ELSE cible[o][m]]]
    BY <1>1 DEF LeverCibles, ARejouer
  <2>3. UNCHANGED <<ModeDe, fait>>
    BY <1>1 DEF LeverCibles, ModeDe, Emis
  <2>4. Promesse!Lever(S)
    BY <2>1, <2>2, <2>3 DEF Promesse!Lever, Promesse!Attend, ModeDe
  <2>5. QED
    BY <2>4 DEF Promesse!Next
<1>2. CASE LeverOrdres(c)
  <2>1. \A o \in Ids : ordre'[o] = ordre[o] \/
                       (Emis(o) /\ ordre'[o] = [ordre[o] EXCEPT !.leve = TRUE])
    BY <1>2 DEF LeverOrdres, VerrouDe, EnVigueur
  <2>2. ASSUME NEW o \in Ids
        PROVE  (Emis(o)' <=> Emis(o)) /\ (Emis(o) => ordre'[o].mode = ordre[o].mode)
    <3>1. CASE ordre'[o] = ordre[o]
      BY <3>1 DEF Emis
    <3>2. CASE Emis(o) /\ ordre'[o] = [ordre[o] EXCEPT !.leve = TRUE]
      <4>1. ordre[o] \in Order
        BY <3>2 DEF TypeOK, Emis
      <4>2. ordre'[o] \in Order /\ ordre'[o].mode = ordre[o].mode
        BY <3>2, <4>1 DEF Order
      <4>3. QED
        BY <3>2, <4>2, AucunAssumption DEF Emis
    <3>3. QED
      BY <2>1, <3>1, <3>2
  <2>3. ModeDe' = ModeDe
    BY <2>2 DEF ModeDe
  <2>4. QED
    BY <1>2, <2>3 DEF LeverOrdres, Abstrait
<1>3. CASE CreateOrder(c)
  <2>1. PICK o \in Ids, T \in {cmd[c].cibles \ Services, cmd[c].cibles} :
          /\ ~Emis(o)
          /\ ordre' = [ordre EXCEPT ![o] =
               [user |-> cmd[c].user, mode |-> cmd[c].mode, leve |-> FALSE]]
          /\ cible' = [cible EXCEPT ![o] =
               [m \in Machines |-> IF m \in T THEN "pending" ELSE "none"]]
    BY <1>3 DEF CreateOrder
  <2>2. cmd[c] \in Lancee
    BY <1>3, EnRoute DEF CreateOrder, TypeOK, Etapes
  <2>3. cmd[c].mode \in Modes /\ T \in SUBSET Machines
    BY <2>1, <2>2 DEF Lancee
  <2>4. ordre'[o] \in Order /\ ordre'[o].mode = cmd[c].mode
        /\ \A p \in Ids : p # o => ordre'[p] = ordre[p]
    BY <2>1, <2>2 DEF TypeOK, Lancee, Order
  <2>5. ModeDe[o] = Aucun /\ ModeDe' = [ModeDe EXCEPT ![o] = cmd[c].mode]
    <3>1. Emis(o)' /\ ~Emis(o) /\ \A p \in Ids : p # o => (Emis(p)' <=> Emis(p))
      BY <2>1, <2>4, AucunAssumption DEF Emis
    <3>2. \A p \in Ids : ModeDe'[p] = IF p = o THEN cmd[c].mode ELSE ModeDe[p]
      BY <2>4, <3>1 DEF ModeDe
    <3>3. ModeDe[o] = Aucun
      BY <3>1 DEF ModeDe
    <3>4. QED
      BY <3>2, <3>3 DEF ModeDe
  <2>6. UNCHANGED fait
    BY <1>3 DEF CreateOrder
  <2>7. Promesse!Emettre(o, cmd[c].mode, T)
    BY <2>1, <2>5, <2>6 DEF Promesse!Emettre, ModeDe
  <2>8. QED
    BY <2>3, <2>7 DEF Promesse!Next, Modes
<1>4. CASE ~(LeverCibles(c) \/ LeverOrdres(c) \/ CreateOrder(c))
  <2>1. UNCHANGED <<ordre, cible, fait>>
    BY <1>4 DEF Commander, Trigger, LireSousVerrou, SupprimerCompte, KillSessions,
       Pousser, Fin, Interrompre
  <2>2. QED
    BY <2>1, SansEffet
<1>5. QED
  BY <1>1, <1>2, <1>3, <1>4

LEMMA PromesseLivraison ==
  ASSUME TypeOK, Surete, NEW m \in Machines, Livrer(m)
  PROVE  Promesse!Next \/ UNCHANGED Abstrait
<1> USE DEF base, monde, reseau, agent
<1>1. CASE HandleAck(m) \/ HandleError(m)
  <2> DEFINE o == Head(versCore[m]).ordre
  <2>1. UNCHANGED <<ordre, fait>> /\ versCore[m] # <<>>
    BY <1>1 DEF HandleAck, HandleError, Repondu
  <2>2. UNCHANGED <<ModeDe, fait>>
    BY <2>1 DEF ModeDe, Emis
  <2>3. Head(versCore[m]) \in Reponse /\ Head(versCore[m]) = versCore[m][1]
        /\ 1 \in DOMAIN versCore[m]
    <3> DEFINE q == versCore[m]
    <3>1. q \in Seq(Reponse) /\ q # <<>>
      BY <2>1 DEF TypeOK
    <3> HIDE DEF q
    <3>2. Head(q) \in Reponse /\ Head(q) = q[1] /\ 1 \in DOMAIN q
      BY <3>1
    <3>3. QED
      BY <3>2 DEF q
  <2>4. o \in Ids
    BY <2>3 DEF Reponse
  <2>5. CASE HandleAck(m)
    <3>1. o \in fait[m]
      BY <2>3, <2>5 DEF HandleAck, Repondu, Surete, VoieRetourVraie, ReponsesVraies
    <3>2. MarkTarget(o, m, "acked")
      BY <2>5 DEF HandleAck
    <3> HIDE DEF o
    <3>3. CASE cible[o][m] = "none"
      BY <2>1, <3>2, <3>3, SansEffet DEF MarkTarget
    <3>4. CASE cible[o][m] # "none"
      <4>1. Promesse!Acquitter(o, m)
        BY <2>2, <3>1, <3>2, <3>4 DEF MarkTarget, Promesse!Acquitter, ModeDe
      <4>2. QED
        BY <2>4, <4>1 DEF Promesse!Next
    <3>5. QED
      BY <3>3, <3>4
  <2>6. CASE MarkTarget(o, m, "failed")
    <3> HIDE DEF o
    <3>1. CASE cible[o][m] \in {"none", "lifted"}
      BY <2>1, <2>6, <3>1, SansEffet DEF MarkTarget
    <3>2. CASE cible[o][m] \notin {"none", "lifted"}
      <4>1. Promesse!SignalerEchec(o, m)
        BY <2>2, <2>6, <3>2 DEF MarkTarget, Promesse!SignalerEchec, ModeDe
      <4>2. QED
        BY <2>4, <4>1 DEF Promesse!Next
    <3>3. QED
      BY <3>1, <3>2
  <2>7. CASE Repondu(m, "unsupported") /\ MarquerMachineNonPriseEnCharge(m)
    <3>1. m \in Windows
      BY <2>3, <2>7 DEF Repondu, Surete, VoieRetourVraie, ReponsesVraies
    <3>2. cible' = [o1 \in Ids |-> [n \in Machines |->
            IF n \in {m} /\ cible[o1][n] \in {"pending", "failed"}
            THEN "unsupported" ELSE cible[o1][n]]]
      <4>1. cible \in [Ids -> [Machines -> TargetStatus]]
        BY DEF TypeOK
      <4>2. QED
        BY <2>7, <4>1 DEF MarquerMachineNonPriseEnCharge, ARejouer
    <3>3. Promesse!Ranger({m})
      BY <2>2, <3>1, <3>2 DEF Promesse!Ranger, Promesse!Attend, ModeDe
    <3>4. QED
      BY <3>1, <3>3 DEF Promesse!Next
  <2>8. QED
    BY <1>1, <2>5, <2>6, <2>7 DEF HandleError
<1>2. CASE ~(HandleAck(m) \/ HandleError(m))
  <2>1. UNCHANGED <<ordre, cible, fait>>
    BY <1>2 DEF Livrer, LireLot, Remettre, Connecter, Couper
  <2>2. QED
    BY <2>1, SansEffet
<1>3. QED
  BY <1>1, <1>2

LEMMA PromesseAgent ==
  ASSUME TypeOK, Surete, NEW m \in Machines, Agir(m)
  PROVE  Promesse!Next \/ UNCHANGED Abstrait
<1> USE DEF base, monde, reseau, agent
<1>1. ASSUME NEW o \in Ids, Executer(o, m), Appliquer(o, m), UNCHANGED base
      PROVE  Promesse!Next \/ UNCHANGED Abstrait
  <2>1. cible[o][m] # "none" /\ m \notin Windows \cup Services
    BY <1>1 DEF Executer, Premier, Surete, EnCoursVises, Visee
  <2>2. UNCHANGED <<ModeDe, cible>>
    BY <1>1 DEF ModeDe, Emis
  <2>3. fait' = [fait EXCEPT ![m] = @ \cup {o}]
    BY <1>1 DEF Appliquer
  <2>4. Promesse!Appliquer(o, m)
    BY <2>1, <2>2, <2>3 DEF Promesse!Appliquer, ModeDe
  <2>5. QED
    BY <2>4 DEF Promesse!Next
<1>2. UNCHANGED base
  BY DEF Agir, Recevoir, DejaApplique, AppliquerEtNoter, Echouer, Tomber,
     PerdreEtat, NonPrisEnCharge
<1>3. CASE UNCHANGED fait
  BY <1>2, <1>3, SansEffet
<1>4. CASE fait' # fait
  <2>1. \E o \in Ids : Executer(o, m) /\ Appliquer(o, m)
    BY <1>4 DEF Agir, Recevoir, DejaApplique, AppliquerEtNoter, Echouer, Tomber,
       PerdreEtat, NonPrisEnCharge
  <2>2. QED
    BY <1>1, <1>2, <2>1
<1>5. QED
  BY <1>3, <1>4

LEMMA PromesseMonde ==
  ASSUME TypeOK, Surete, Vivre \/ RangerLesCiblesSansCompte
  PROVE  Promesse!Next \/ UNCHANGED Abstrait
<1> USE DEF base, monde, reseau, agent
<1>1. CASE Vivre
  <2>1. UNCHANGED <<ordre, cible, fait>>
    BY <1>1 DEF Vivre, Login, Logout, RetirerDuGroupe, CreerCompte
  <2>2. QED
    BY <2>1, SansEffet
<1>2. CASE RangerLesCiblesSansCompte
  <2>1. UNCHANGED <<ModeDe, fait>>
    BY <1>2 DEF RangerLesCiblesSansCompte, ModeDe, Emis
  <2>2. cible' = [o \in Ids |-> [m \in Machines |->
          IF m \in Services /\ cible[o][m] \in {"pending", "failed"}
          THEN "unsupported" ELSE cible[o][m]]]
    BY <1>2 DEF RangerLesCiblesSansCompte, ARejouer
  <2>3. Promesse!Ranger(Services)
    BY <2>1, <2>2 DEF Promesse!Ranger, Promesse!Attend, ModeDe
  <2>4. QED
    BY <2>3 DEF Promesse!Next
<1>3. QED
  BY <1>1, <1>2

LEMMA PromesseStep ==
  ASSUME TypeOK, Surete, [Next]_vars
  PROVE  Promesse!Next \/ UNCHANGED Abstrait
<1>1. CASE UNCHANGED vars
  BY <1>1, SansEffet DEF vars
<1>2. CASE Next
  BY <1>2, PromesseCommande, PromesseLivraison, PromesseAgent, PromesseMonde
  DEF Next
<1>3. QED
  BY <1>1, <1>2

(* The kill switch keeps the promise made to an administrator: whatever    *)
(* the commands, replays, agents and faults do, a status changes only as   *)
(* KillSwitchPromise says.                                                 *)
THEOREM PromesseCorrecte == Spec => PromesseTenue
<1>1. TypeOK /\ Surete /\ [Next]_vars => [Promesse!Next]_(Promesse!vars)
  <2> SUFFICES ASSUME TypeOK, Surete, [Next]_vars
               PROVE  Promesse!Next \/ UNCHANGED Promesse!vars
    OBVIOUS
  <2>1. UNCHANGED Abstrait => UNCHANGED Promesse!vars
    BY DEF Abstrait, ModeDe, Promesse!vars
  <2>2. QED
    BY <2>1, PromesseStep
<1>2. QED
  BY <1>1, PromesseInit, TypeCorrect, SureteCorrecte, PTL
  DEF Spec, PromesseTenue, Promesse!Spec

(* Once its order is written, a lifted target may at most be acknowledged. *)
LEMMA LeveeGardee ==
  ASSUME TypeOK, Surete, [Next]_vars, NEW o \in Ids, NEW m \in Machines,
         cible[o][m] = "lifted"
  PROVE  cible'[o][m] \in {"lifted", "acked"}
<1>1. ModeDe[o] # Aucun
  <2>1. Emis(o) /\ ordre[o].mode = "soft"
    BY DEF Surete, SeulUnVerrouEstLeve
  <2>2. QED
    BY <2>1, AucunAssumption DEF ModeDe, Modes
<1>2. cible \in [Ids -> [Machines -> TargetStatus]]
  BY DEF TypeOK
<1>3. ASSUME NEW p \in Ids, NEW k, NEW T, Promesse!Emettre(p, k, T)
      PROVE  cible'[o][m] = "lifted"
  <2>1. p # o
    BY <1>1, <1>3 DEF Promesse!Emettre, ModeDe
  <2>2. QED
    BY <1>2, <1>3, <2>1 DEF Promesse!Emettre
<1>4. ASSUME NEW p \in Ids, NEW n \in Machines,
             Promesse!Acquitter(p, n) \/ Promesse!SignalerEchec(p, n)
      PROVE  cible'[o][m] \in {"lifted", "acked"}
  BY <1>2, <1>4 DEF Promesse!Acquitter, Promesse!SignalerEchec
<1>5. ASSUME NEW S, Promesse!Lever(S) \/ Promesse!Ranger(S)
      PROVE  cible'[o][m] = "lifted"
  BY <1>5 DEF Promesse!Lever, Promesse!Ranger, Promesse!Attend
<1>6. CASE UNCHANGED cible
  BY <1>6
<1>7. CASE Promesse!Next
  BY <1>3, <1>4, <1>5, <1>6, <1>7 DEF Promesse!Next, Promesse!Appliquer
<1>8. QED
  BY <1>6, <1>7, PromesseStep DEF Abstrait

(* A lifted target never becomes deliverable again: no step of the promise *)
(* allows it, as an order is written only once.                            *)
THEOREM LeveeDefinitive == Spec => LeveNEstPlusRejoue
<1>1. TypeOK /\ Surete /\ [Next]_vars =>
        [\A o \in Ids, m \in Machines :
           cible[o][m] = "lifted" => cible'[o][m] \in {"lifted", "acked"}]_vars
  BY LeveeGardee
<1>2. QED
  BY <1>1, TypeCorrect, SureteCorrecte, PTL DEF Spec, LeveNEstPlusRejoue

-----------------------------------------------------------------------------
(* An acknowledgement is final as long as applied_revocations.json keeps   *)
(* what the agent wrote there. A machine answers "ok" for the orders of    *)
(* its file only, and an error for the others only; what it answers to an  *)
(* order after an "ok" is "ok" again; and the reply it retains belongs to  *)
(* the frame it is working through.                                        *)
FichierGarde == {"oubli", "etat"} \cap Pannes = {}

(* Replies q that agree with the file k.                                   *)
Conformes(q, k) ==
  \A i \in DOMAIN q : /\ q[i].res = "ok" => q[i].ordre \in k
                      /\ q[i].res = "echec" => q[i].ordre \notin k

(* Replies on their way: a success is in the file, and no failure of the   *)
(* same order follows it.                                                  *)
SansRetour(q, k) ==
  /\ \A i \in DOMAIN q : q[i].res = "ok" => q[i].ordre \in k
  /\ \A i, j \in DOMAIN q :
       i < j /\ q[i].res = "ok" /\ q[j].res = "echec" => q[i].ordre # q[j].ordre

Suivi(v, r, e, k) ==
  /\ SansRetour(v, k)
  /\ Conformes(r, k)
  /\ \A i \in DOMAIN r : r[i].res = "echec" => r[i].ordre \notin e
  /\ e = {} => r = <<>>

FilsSuivis == \A m \in Machines : Suivi(versCore[m], retenue[m], enCours[m], connus[m])

AcquittesGardes ==
  \A o \in Ids, m \in Machines :
    cible[o][m] = "acked" =>
      /\ o \in connus[m]
      /\ \A i \in DOMAIN versCore[m] :
           versCore[m][i].res = "echec" => versCore[m][i].ordre # o

Acquis == FilsSuivis /\ AcquittesGardes

AcquitteReste ==
  \A o \in Ids, m \in Machines : cible[o][m] = "acked" => cible'[o][m] = "acked"

LEMMA AcquisInit == Init => Acquis
<1> SUFFICES ASSUME Init PROVE Acquis
  OBVIOUS
<1>1. ASSUME NEW m \in Machines PROVE Suivi(versCore[m], retenue[m], enCours[m], connus[m])
  <2>1. versCore[m] = <<>> /\ retenue[m] = <<>>
    BY DEF Init
  <2>2. QED
    BY <2>1 DEF Suivi, SansRetour, Conformes
<1>2. \A o \in Ids, m \in Machines : cible[o][m] = "none"
  BY DEF Init
<1>3. QED
  BY <1>1, <1>2 DEF Acquis, FilsSuivis, AcquittesGardes

(* A step that brings no reply and acknowledges nothing.                   *)
LEMMA RienDeNouveau ==
  ASSUME Acquis, UNCHANGED <<retenue, enCours, connus>>,
         \A m \in Machines : versCore'[m] \in {versCore[m], <<>>},
         \A o \in Ids, m \in Machines : cible'[o][m] = "acked" => cible[o][m] = "acked"
  PROVE  Acquis'
<1>1. ASSUME NEW m \in Machines
      PROVE  Suivi(versCore'[m], retenue'[m], enCours'[m], connus'[m])
  <2>1. Suivi(versCore[m], retenue[m], enCours[m], connus[m])
    BY DEF Acquis, FilsSuivis
  <2>2. SansRetour(<<>>, connus[m])
    BY DEF SansRetour
  <2>3. QED
    BY <2>1, <2>2 DEF Suivi
<1>2. ASSUME NEW o \in Ids, NEW m \in Machines, cible'[o][m] = "acked"
      PROVE  /\ o \in connus'[m]
             /\ \A i \in DOMAIN versCore'[m] :
                  versCore'[m][i].res = "echec" => versCore'[m][i].ordre # o
  BY <1>2 DEF Acquis, AcquittesGardes
<1>3. QED
  BY <1>1, <1>2 DEF Acquis, FilsSuivis, AcquittesGardes

(* Replies that agree with the file may follow the others.                 *)
LEMMA RetourJoint ==
  ASSUME NEW v \in Seq(Reponse), NEW q \in Seq(Reponse), NEW k, NEW K,
         SansRetour(v, k), k \subseteq K, Conformes(q, K)
  PROVE  /\ SansRetour(v \o q, K)
         /\ \A i \in DOMAIN (v \o q) :
              \/ i \in DOMAIN v /\ (v \o q)[i] = v[i]
              \/ (v \o q)[i].res = "echec" => (v \o q)[i].ordre \notin K
<1> DEFINE w == v \o q
<1>1. /\ \A i \in DOMAIN w :
           \/ i \in DOMAIN v /\ w[i] = v[i]
           \/ i \notin DOMAIN v /\ i - Len(v) \in DOMAIN q /\ w[i] = q[i - Len(v)]
      /\ \A i, j \in DOMAIN w : i < j /\ j \in DOMAIN v => i \in DOMAIN v
  OBVIOUS
<1> HIDE DEF w
<1>2. \A i \in DOMAIN w : w[i].res = "ok" => w[i].ordre \in K
  BY <1>1 DEF SansRetour, Conformes
<1>3. \A i \in DOMAIN w : \/ i \in DOMAIN v /\ w[i] = v[i]
                          \/ w[i].res = "echec" => w[i].ordre \notin K
  BY <1>1 DEF Conformes
<1>4. ASSUME NEW i \in DOMAIN w, NEW j \in DOMAIN w, i < j, w[i].res = "ok",
             w[j].res = "echec", w[i].ordre = w[j].ordre
      PROVE  FALSE
  <2>1. j \in DOMAIN v /\ w[j] = v[j]
    BY <1>2, <1>3, <1>4
  <2>2. i \in DOMAIN v /\ w[i] = v[i]
    BY <1>1, <1>4, <2>1
  <2>3. QED
    BY <1>4, <2>1, <2>2 DEF SansRetour
<1>5. SansRetour(w, K)
  BY <1>2, <1>4 DEF SansRetour
<1>6. QED
  BY <1>3, <1>5 DEF w

LEMMA ConformesJoints ==
  ASSUME NEW q \in Seq(Reponse), NEW r \in Seq(Reponse), NEW k,
         Conformes(q, k), Conformes(r, k)
  PROVE  Conformes(q \o r, k)
<1>1. \A i \in DOMAIN (q \o r) :
        \/ i \in DOMAIN q /\ (q \o r)[i] = q[i]
        \/ i - Len(q) \in DOMAIN r /\ (q \o r)[i] = r[i - Len(q)]
  OBVIOUS
<1>2. QED
  BY <1>1 DEF Conformes

(* What replies q add to the way back of a machine.                        *)
LEMMA EnvoyerSuivi ==
  ASSUME TypeOK, Acquis, NEW m \in Machines, NEW q \in Seq(Reponse), NEW K,
         connus[m] \subseteq K, Conformes(q, K), Envoyer(m, q)
  PROVE  /\ \A n \in Machines : n # m => versCore'[n] = versCore[n]
         /\ SansRetour(versCore'[m], K)
         /\ \A i \in DOMAIN versCore'[m] :
              \/ i \in DOMAIN versCore[m] /\ versCore'[m][i] = versCore[m][i]
              \/ versCore'[m][i].res = "echec" => versCore'[m][i].ordre \notin K
<1> DEFINE v == versCore[m]
<1>1. v \in Seq(Reponse) /\ versCore \in [Machines -> Seq(Reponse)]
  BY DEF TypeOK
<1>2. SansRetour(v, connus[m])
  BY DEF Acquis, FilsSuivis, Suivi
<1>3. SansRetour(v, K)
  BY <1>2 DEF SansRetour
<1>4. \/ versCore' = versCore
      \/ versCore' = [versCore EXCEPT ![m] = v \o q]
  BY DEF Envoyer
<1>5. \A n \in Machines : n # m => versCore'[n] = versCore[n]
  BY <1>1, <1>4
<1>6. versCore'[m] = v \/ versCore'[m] = v \o q
  BY <1>1, <1>4
<1> HIDE DEF v
<1>7. /\ SansRetour(v \o q, K)
      /\ \A i \in DOMAIN (v \o q) :
           \/ i \in DOMAIN v /\ (v \o q)[i] = v[i]
           \/ (v \o q)[i].res = "echec" => (v \o q)[i].ordre \notin K
  BY <1>1, <1>2, RetourJoint
<1> DEFINE w == versCore'[m]
           u == v \o q
<1>8. w = v \/ w = u
  BY <1>6
<1> HIDE DEF w, u
<1>9. /\ SansRetour(w, K)
      /\ \A i \in DOMAIN w : \/ i \in DOMAIN v /\ w[i] = v[i]
                             \/ w[i].res = "echec" => w[i].ordre \notin K
  BY <1>3, <1>7, <1>8 DEF u
<1>10. QED
  BY <1>5, <1>9 DEF v, w

(* A reply that agrees with the file the agent keeps.                      *)
LEMMA RepondreSuivi ==
  ASSUME TypeOK, Acquis, NEW m \in Machines, NEW o \in enCours[m], NEW res \in {"ok", "echec"},
         Repondre(o, m, res), UNCHANGED cible,
         \A n \in Machines : n # m => connus'[n] = connus[n],
         connus[m] \subseteq connus'[m], connus'[m] \subseteq connus[m] \cup {o},
         res = "ok" <=> o \in connus'[m]
  PROVE  Acquis'
<1> DEFINE r == <<[ordre |-> o, res |-> res]>>
           q == retenue[m]
           K == connus'[m]
<1>0. o \in Ids /\ Suivi(versCore[m], q, enCours[m], connus[m])
  BY DEF TypeOK, Acquis, FilsSuivis
<1>1. r \in Seq(Reponse) /\ q \in Seq(Reponse) /\ <<>> \in Seq(Reponse)
  <2>1. [ordre |-> o, res |-> res] \in Reponse
    BY <1>0 DEF Reponse
  <2>2. QED
    BY <2>1 DEF TypeOK
<1>2. Conformes(r, K) /\ (\A i \in DOMAIN r : r[i].ordre = o)
  BY DEF Conformes
<1>3. Conformes(q, K)
  BY <1>0 DEF Suivi, Conformes
<1>4. Conformes(r \o q, K) /\ r \o q \in Seq(Reponse)
  <2> HIDE DEF r, q, K
  <2>1. QED
    BY <1>1, <1>2, <1>3, ConformesJoints
<1>5. enCours' = [enCours EXCEPT ![m] = enCours[m] \ {o}]
  BY DEF Repondre
<1>6. /\ enCours'[m] = enCours[m] \ {o}
      /\ \A n \in Machines : n # m => enCours'[n] = enCours[n]
  BY <1>5 DEF TypeOK
<1>7. \/ /\ enCours[m] # {o} /\ retenue' = [retenue EXCEPT ![m] = r] /\ UNCHANGED versCore
      \/ /\ enCours[m] = {o} /\ retenue' = [retenue EXCEPT ![m] = <<>>] /\ Envoyer(m, r \o q)
      \/ /\ enCours[m] # {o} /\ Envoyer(m, r) /\ UNCHANGED retenue
  BY DEF Repondre
<1>8. retenue \in [Machines -> Seq(Reponse)]
  BY DEF TypeOK
<1> HIDE DEF r
<1>9. /\ \A n \in Machines : n # m => retenue'[n] = retenue[n]
      /\ \/ enCours[m] # {o} /\ retenue'[m] = r
         \/ enCours[m] = {o} /\ retenue'[m] = <<>>
         \/ enCours[m] # {o} /\ retenue'[m] = q
  BY <1>7, <1>8
<1>10. /\ Conformes(retenue'[m], K)
       /\ \A i \in DOMAIN retenue'[m] :
            retenue'[m][i].res = "echec" => retenue'[m][i].ordre \notin enCours'[m]
       /\ enCours'[m] = {} => retenue'[m] = <<>>
  <2>1. CASE enCours[m] # {o} /\ retenue'[m] = r
    BY <1>2, <1>6, <2>1
  <2>2. CASE enCours[m] = {o} /\ retenue'[m] = <<>>
    BY <2>2 DEF Conformes
  <2>3. CASE enCours[m] # {o} /\ retenue'[m] = q
    BY <1>0, <1>3, <1>6, <2>3 DEF Suivi
  <2>4. QED
    BY <1>9, <2>1, <2>2, <2>3
<1>11. /\ \A n \in Machines : n # m => versCore'[n] = versCore[n]
       /\ SansRetour(versCore'[m], K)
       /\ \A i \in DOMAIN versCore'[m] :
            \/ i \in DOMAIN versCore[m] /\ versCore'[m][i] = versCore[m][i]
            \/ versCore'[m][i].res = "echec" => versCore'[m][i].ordre \notin K
  <2>1. CASE UNCHANGED versCore
    BY <1>0, <2>1 DEF Suivi, SansRetour
  <2>2. CASE Envoyer(m, r \o q)
    <3> HIDE DEF K, q
    <3>1. connus[m] \subseteq K
      BY DEF K
    <3>2. QED
      BY <1>4, <2>2, <3>1, EnvoyerSuivi
  <2>3. CASE Envoyer(m, r)
    <3> HIDE DEF K, q
    <3>1. connus[m] \subseteq K
      BY DEF K
    <3>2. QED
      BY <1>1, <1>2, <2>3, <3>1, EnvoyerSuivi
  <2>4. QED
    BY <1>7, <2>1, <2>2, <2>3
<1>12. Suivi(versCore'[m], retenue'[m], enCours'[m], connus'[m])
  BY <1>10, <1>11 DEF Suivi
<1>13. ASSUME NEW n \in Machines, n # m
       PROVE  Suivi(versCore'[n], retenue'[n], enCours'[n], connus'[n])
  BY <1>6, <1>9, <1>11, <1>13 DEF Acquis, FilsSuivis
<1>14. FilsSuivis'
  BY <1>12, <1>13 DEF FilsSuivis
<1>15. AcquittesGardes'
  <2> SUFFICES ASSUME NEW p \in Ids, NEW n \in Machines, cible[p][n] = "acked"
               PROVE  /\ p \in connus'[n]
                      /\ \A i \in DOMAIN versCore'[n] :
                           versCore'[n][i].res = "echec" => versCore'[n][i].ordre # p
    BY DEF AcquittesGardes
  <2>1. /\ p \in connus[n]
        /\ \A i \in DOMAIN versCore[n] :
             versCore[n][i].res = "echec" => versCore[n][i].ordre # p
    BY DEF Acquis, AcquittesGardes
  <2>2. CASE n # m
    BY <1>11, <2>1, <2>2
  <2>3. CASE n = m
    BY <1>11, <2>1, <2>3
  <2>4. QED
    BY <2>2, <2>3
<1>16. QED
  BY <1>14, <1>15 DEF Acquis

LEMMA AcquisCommande ==
  ASSUME TypeOK, Surete, Acquis, NEW c \in Commands, Commander(c)
  PROVE  Acquis' /\ AcquitteReste
<1> USE DEF base, monde, reseau, agent
<1>1. UNCHANGED <<versCore, retenue, enCours, connus>>
  BY DEF Commander, Trigger, LireSousVerrou, LeverCibles, LeverOrdres, CreateOrder,
     SupprimerCompte, KillSessions, Pousser, Fin, Interrompre
<1>2. \A o \in Ids, m \in Machines :
        \/ cible'[o][m] = cible[o][m]
        \/ cible[o][m] # "acked" /\ cible'[o][m] # "acked"
  <2>1. CASE LeverCibles(c)
    BY <2>1 DEF LeverCibles, ARejouer
  <2>2. CASE CreateOrder(c)
    <3>1. PICK p \in Ids, T \in {cmd[c].cibles \ Services, cmd[c].cibles} :
            /\ ~Emis(p)
            /\ cible' = [cible EXCEPT ![p] =
                 [m \in Machines |-> IF m \in T THEN "pending" ELSE "none"]]
      BY <2>2 DEF CreateOrder
    <3>2. \A m \in Machines : cible[p][m] = "none"
      BY <3>1 DEF Surete, CiblesEmises, Visee
    <3>3. cible \in [Ids -> [Machines -> TargetStatus]]
      BY DEF TypeOK
    <3>4. QED
      BY <3>1, <3>2, <3>3
  <2>3. CASE ~(LeverCibles(c) \/ CreateOrder(c))
    BY <2>3 DEF Commander, Trigger, LireSousVerrou, LeverOrdres, SupprimerCompte,
       KillSessions, Pousser, Fin, Interrompre
  <2>4. QED
    BY <2>1, <2>2, <2>3
<1>3. \A m \in Machines : versCore'[m] \in {versCore[m], <<>>}
  BY <1>1
<1>4. Acquis'
  BY <1>1, <1>2, <1>3, RienDeNouveau
<1>5. QED
  BY <1>2, <1>4 DEF AcquitteReste

(* The core takes the first reply.                                         *)
LEMMA AcquisReponse ==
  ASSUME TypeOK, Acquis, NEW m \in Machines, HandleAck(m) \/ HandleError(m)
  PROVE  Acquis' /\ AcquitteReste
<1> USE DEF base, monde, reseau, agent
<1> DEFINE v == versCore[m]
           o == Head(v).ordre
           k == connus[m]
<1>1. PICK res : Repondu(m, res)
  BY DEF HandleAck, HandleError
<1>2. /\ v \in Seq(Reponse) /\ v # <<>>
      /\ versCore' = [versCore EXCEPT ![m] = Tail(v)]
      /\ UNCHANGED <<retenue, enCours, connus>>
  BY <1>1 DEF Repondu, TypeOK
<1>3. /\ versCore'[m] = Tail(v)
      /\ \A n \in Machines : n # m => versCore'[n] = versCore[n]
  BY <1>2 DEF TypeOK
<1>4. /\ SansRetour(v, k)
      /\ \A p \in Ids : cible[p][m] = "acked" =>
           p \in k /\ \A i \in DOMAIN v : v[i].res = "echec" => v[i].ordre # p
  BY DEF Acquis, FilsSuivis, Suivi, AcquittesGardes
<1>5. cible \in [Ids -> [Machines -> TargetStatus]]
  BY DEF TypeOK
<1>6. /\ 1 \in DOMAIN v /\ Head(v) = v[1] /\ Head(v) \in Reponse
      /\ \A i \in DOMAIN Tail(v) : i + 1 \in DOMAIN v /\ 1 < i + 1 /\ Tail(v)[i] = v[i + 1]
      /\ \A i, j \in DOMAIN Tail(v) : i < j => i + 1 < j + 1
  <2> HIDE DEF v
  <2>1. QED
    BY <1>2
<1>7. o \in Ids
  BY <1>6 DEF Reponse
<1>8. \/ HandleAck(m) /\ v[1].res = "ok"
      \/ /\ v[1].res = "echec"
         /\ MarkTarget(o, m, "failed")
      \/ MarquerMachineNonPriseEnCharge(m)
  BY <1>6 DEF HandleAck, HandleError, Repondu
<1>9. HandleAck(m) => MarkTarget(o, m, "acked")
  BY DEF HandleAck
<1> HIDE DEF o, k
<1>10. \A p \in Ids, n \in Machines :
         \/ cible'[p][n] = cible[p][n]
         \/ cible[p][n] # "acked" /\ cible'[p][n] # "acked"
         \/ p = o /\ n = m /\ cible'[p][n] = "acked" /\ v[1].res = "ok"
  <2>1. CASE HandleAck(m) /\ v[1].res = "ok"
    BY <1>5, <1>7, <1>9, <2>1 DEF MarkTarget
  <2>2. CASE v[1].res = "echec" /\ MarkTarget(o, m, "failed")
    <3>1. cible[o][m] # "acked"
      BY <1>4, <1>6, <1>7, <2>2 DEF o
    <3>2. QED
      BY <1>5, <1>7, <2>2, <3>1 DEF MarkTarget
  <2>3. CASE MarquerMachineNonPriseEnCharge(m)
    BY <1>5, <2>3 DEF MarquerMachineNonPriseEnCharge, ARejouer
  <2>4. QED
    BY <1>8, <2>1, <2>2, <2>3
<1>11. SansRetour(Tail(v), k)
  <2> DEFINE w == Tail(v)
  <2>1. /\ \A i \in DOMAIN w : i + 1 \in DOMAIN v /\ 1 < i + 1 /\ w[i] = v[i + 1]
        /\ \A i, j \in DOMAIN w : i < j => i + 1 < j + 1
    BY <1>6
  <2> HIDE DEF v, w
  <2>2. SansRetour(w, k)
    BY <1>4, <2>1 DEF SansRetour
  <2>3. QED
    BY <2>2 DEF w
<1>12. FilsSuivis'
  <2> SUFFICES ASSUME NEW n \in Machines
               PROVE  Suivi(versCore'[n], retenue[n], enCours[n], connus[n])
    BY <1>2 DEF FilsSuivis
  <2>1. Suivi(versCore[n], retenue[n], enCours[n], connus[n])
    BY DEF Acquis, FilsSuivis
  <2>2. CASE n = m
    BY <1>3, <1>11, <2>1, <2>2 DEF Suivi, k
  <2>3. CASE n # m
    BY <1>3, <2>1, <2>3
  <2>4. QED
    BY <2>2, <2>3
<1>13. AcquittesGardes'
  <2> SUFFICES ASSUME NEW p \in Ids, NEW n \in Machines, cible'[p][n] = "acked"
               PROVE  /\ p \in connus[n]
                      /\ \A i \in DOMAIN versCore'[n] :
                           versCore'[n][i].res = "echec" => versCore'[n][i].ordre # p
    BY <1>2 DEF AcquittesGardes
  <2>1. CASE n # m
    <3>1. cible[p][n] = "acked"
      BY <1>10, <2>1
    <3>2. QED
      BY <1>3, <2>1, <3>1 DEF Acquis, AcquittesGardes
  <2>2. CASE n = m /\ cible[p][m] = "acked"
    <3>1. \A i \in DOMAIN Tail(v) : Tail(v)[i].res = "echec" => Tail(v)[i].ordre # p
      BY <1>4, <1>6, <2>2
    <3>2. QED
      BY <1>3, <1>4, <2>2, <3>1 DEF k
  <2>3. CASE n = m /\ p = o /\ v[1].res = "ok"
    <3>1. o \in k /\ o = v[1].ordre
      BY <1>4, <1>6, <2>3 DEF SansRetour, o
    <3>2. \A i \in DOMAIN Tail(v) : Tail(v)[i].res = "echec" => Tail(v)[i].ordre # o
      BY <1>4, <1>6, <2>3, <3>1 DEF SansRetour
    <3>3. QED
      BY <1>3, <2>3, <3>1, <3>2 DEF k
  <2>4. QED
    BY <1>10, <2>1, <2>2, <2>3
<1>14. QED
  BY <1>10, <1>12, <1>13 DEF Acquis, AcquitteReste

LEMMA AcquisLivraison ==
  ASSUME TypeOK, Acquis, NEW m \in Machines, Livrer(m)
  PROVE  Acquis' /\ AcquitteReste
<1> USE DEF base, monde, reseau, agent
<1>1. CASE HandleAck(m) \/ HandleError(m)
  BY <1>1, AcquisReponse
<1>2. CASE ~(HandleAck(m) \/ HandleError(m))
  <2>1. UNCHANGED <<cible, retenue, enCours, connus>>
    BY <1>2 DEF Livrer, LireLot, Remettre, Connecter, Couper
  <2>2. UNCHANGED versCore \/ versCore' = [versCore EXCEPT ![m] = <<>>]
    BY <1>2 DEF Livrer, LireLot, Remettre, Connecter, Couper
  <2>3. \A n \in Machines : versCore'[n] \in {versCore[n], <<>>}
    BY <2>2 DEF TypeOK
  <2>4. QED
    BY <2>1, <2>3, RienDeNouveau DEF AcquitteReste
<1>3. QED
  BY <1>1, <1>2

LEMMA AcquisAgent ==
  ASSUME FichierGarde, TypeOK, Surete, Acquis, NEW m \in Machines, Agir(m)
  PROVE  Acquis' /\ AcquitteReste
<1> USE DEF base, monde, reseau, agent
<1>0. UNCHANGED cible /\ AcquitteReste
  BY DEF Agir, Recevoir, DejaApplique, AppliquerEtNoter, Echouer, Tomber,
     PerdreEtat, NonPrisEnCharge, AcquitteReste
<1>1. CASE Recevoir(m)
  <2>1. /\ UNCHANGED <<versCore, retenue, connus>> /\ enCours[m] = {}
        /\ \A n \in Machines : n # m => enCours'[n] = enCours[n]
    BY <1>1 DEF Recevoir, TypeOK
  <2>2. retenue[m] = <<>>
    BY <2>1 DEF Acquis, FilsSuivis, Suivi
  <2>3. FilsSuivis'
    <3> SUFFICES ASSUME NEW n \in Machines
                 PROVE  Suivi(versCore[n], retenue[n], enCours'[n], connus[n])
      BY <2>1 DEF FilsSuivis
    <3>1. Suivi(versCore[n], retenue[n], enCours[n], connus[n])
      BY DEF Acquis, FilsSuivis
    <3>2. CASE n = m
      BY <2>2, <3>1, <3>2 DEF Suivi
    <3>3. CASE n # m
      BY <2>1, <3>1, <3>3
    <3>4. QED
      BY <3>2, <3>3
  <2>4. AcquittesGardes'
    BY <1>0, <2>1 DEF Acquis, AcquittesGardes
  <2>5. QED
    BY <1>0, <2>3, <2>4 DEF Acquis
<1>2. CASE DejaApplique(m)
  <2>1. PICK o \in Ids : o \in enCours[m] /\ o \in connus[m] /\ Repondre(o, m, "ok")
                         /\ UNCHANGED connus
    BY <1>2 DEF DejaApplique, Premier
  <2>2. QED
    BY <1>0, <2>1, RepondreSuivi
<1>3. CASE AppliquerEtNoter(m)
  <2>1. PICK o \in Ids : /\ o \in enCours[m]
                         /\ connus' = [connus EXCEPT ![m] = @ \cup {o}]
                         /\ Repondre(o, m, "ok")
    BY <1>3 DEF AppliquerEtNoter, Executer, Premier, Panne, FichierGarde
  <2>2. /\ connus'[m] = connus[m] \cup {o}
        /\ \A n \in Machines : n # m => connus'[n] = connus[n]
    <3>1. connus \in [Machines -> SUBSET Ids]
      BY DEF TypeOK
    <3>2. QED
      BY <2>1, <3>1
  <2>3. QED
    BY <1>0, <2>1, <2>2, RepondreSuivi
<1>4. CASE Echouer(m)
  <2>1. PICK o \in Ids : o \in enCours[m] /\ o \notin connus[m] /\ Repondre(o, m, "echec")
                         /\ UNCHANGED connus
    BY <1>4 DEF Echouer, Executer, Premier
  <2>2. QED
    BY <1>0, <2>1, RepondreSuivi
<1>5. CASE Tomber(m)
  <2>1. /\ UNCHANGED connus
        /\ enCours' = [enCours EXCEPT ![m] = {}]
        /\ retenue' = [retenue EXCEPT ![m] = <<>>]
        /\ versCore' = [versCore EXCEPT ![m] = <<>>]
    BY <1>5 DEF Tomber, Redemarrer
  <2>2. \A n \in Machines :
          IF n = m THEN versCore'[n] = <<>> /\ retenue'[n] = <<>> /\ enCours'[n] = {}
          ELSE UNCHANGED <<versCore[n], retenue[n], enCours[n]>>
    BY <2>1 DEF TypeOK
  <2>3. FilsSuivis'
    <3> SUFFICES ASSUME NEW n \in Machines
                 PROVE  Suivi(versCore'[n], retenue'[n], enCours'[n], connus[n])
      BY <2>1 DEF FilsSuivis
    <3>1. CASE n = m
      BY <2>2, <3>1 DEF Suivi, SansRetour, Conformes
    <3>2. CASE n # m
      BY <2>2, <3>2 DEF Acquis, FilsSuivis
    <3>3. QED
      BY <3>1, <3>2
  <2>4. AcquittesGardes'
    BY <1>0, <2>1, <2>2 DEF Acquis, AcquittesGardes
  <2>5. QED
    BY <1>0, <2>3, <2>4 DEF Acquis
<1>6. ~PerdreEtat(m)
  BY DEF PerdreEtat, Panne, FichierGarde
<1>7. CASE NonPrisEnCharge(m)
  <2>1. UNCHANGED <<retenue, enCours, connus>>
    BY <1>7 DEF NonPrisEnCharge
  <2>2. CASE UNCHANGED versCore
    BY <1>0, <2>1, <2>2, RienDeNouveau
  <2>3. ASSUME NEW o \in Ids, Envoyer(m, <<[ordre |-> o, res |-> "unsupported"]>>)
        PROVE  Acquis'
    <3> DEFINE q == <<[ordre |-> o, res |-> "unsupported"]>>
               k == connus[m]
    <3>1. q \in Seq(Reponse) /\ Conformes(q, k)
      <4>1. [ordre |-> o, res |-> "unsupported"] \in Reponse
        BY DEF Reponse
      <4>2. Conformes(q, k)
        BY DEF Conformes
      <4>3. QED
        BY <4>1, <4>2
    <3>2. Envoyer(m, q)
      BY <2>3
    <3> HIDE DEF q
    <3>3. /\ \A n \in Machines : n # m => versCore'[n] = versCore[n]
          /\ SansRetour(versCore'[m], k)
          /\ \A i \in DOMAIN versCore'[m] :
               \/ i \in DOMAIN versCore[m] /\ versCore'[m][i] = versCore[m][i]
               \/ versCore'[m][i].res = "echec" => versCore'[m][i].ordre \notin k
      BY <3>1, <3>2, EnvoyerSuivi
    <3>4. FilsSuivis'
      <4> SUFFICES ASSUME NEW n \in Machines
                   PROVE  Suivi(versCore'[n], retenue[n], enCours[n], connus[n])
        BY <2>1 DEF FilsSuivis
      <4>1. Suivi(versCore[n], retenue[n], enCours[n], connus[n])
        BY DEF Acquis, FilsSuivis
      <4>2. QED
        BY <3>3, <4>1 DEF Suivi
    <3>5. AcquittesGardes'
      <4> SUFFICES ASSUME NEW p \in Ids, NEW n \in Machines, cible[p][n] = "acked"
                   PROVE  /\ p \in connus[n]
                          /\ \A i \in DOMAIN versCore'[n] :
                               versCore'[n][i].res = "echec" => versCore'[n][i].ordre # p
        BY <1>0, <2>1 DEF AcquittesGardes
      <4>1. /\ p \in connus[n]
            /\ \A i \in DOMAIN versCore[n] :
                 versCore[n][i].res = "echec" => versCore[n][i].ordre # p
        BY DEF Acquis, AcquittesGardes
      <4>2. CASE n = m
        BY <3>3, <4>1, <4>2
      <4>3. CASE n # m
        BY <3>3, <4>1, <4>3
      <4>4. QED
        BY <4>2, <4>3
    <3>6. QED
      BY <3>4, <3>5 DEF Acquis
  <2>4. Head(versAgent[m]) \subseteq Ids
    BY <1>7 DEF NonPrisEnCharge, TypeOK
  <2>5. QED
    BY <1>0, <1>7, <2>2, <2>3, <2>4 DEF NonPrisEnCharge
<1>8. QED
  BY <1>1, <1>2, <1>3, <1>4, <1>5, <1>6, <1>7 DEF Agir

LEMMA AcquisMonde ==
  ASSUME Acquis, Vivre \/ RangerLesCiblesSansCompte
  PROVE  Acquis' /\ AcquitteReste
<1> USE DEF base, monde, reseau, agent
<1>1. UNCHANGED <<versCore, retenue, enCours, connus>>
  BY DEF Vivre, Login, Logout, RetirerDuGroupe, CreerCompte, RangerLesCiblesSansCompte
<1>2. \A o \in Ids, m \in Machines :
        \/ cible'[o][m] = cible[o][m]
        \/ cible[o][m] # "acked" /\ cible'[o][m] # "acked"
  <2>1. CASE Vivre
    <3>1. UNCHANGED cible
      BY <2>1 DEF Vivre, Login, Logout, RetirerDuGroupe, CreerCompte
    <3>2. QED
      BY <3>1
  <2>2. CASE RangerLesCiblesSansCompte
    BY <2>2 DEF RangerLesCiblesSansCompte, ARejouer
  <2>3. QED
    BY <2>1, <2>2
<1>3. QED
  BY <1>1, <1>2, RienDeNouveau DEF AcquitteReste

LEMMA AcquisStep ==
  ASSUME FichierGarde, TypeOK, Surete, Acquis, [Next]_vars
  PROVE  Acquis' /\ AcquitteReste
<1>1. CASE UNCHANGED vars
  BY <1>1, RienDeNouveau DEF vars, AcquitteReste
<1>2. CASE Next
  BY <1>2, AcquisCommande, AcquisLivraison, AcquisAgent, AcquisMonde DEF Next
<1>3. QED
  BY <1>1, <1>2

(* As long as no agent loses or fails to write its file, what a target     *)
(* shows as acknowledged stays so, whatever copies of the order and        *)
(* answers of the machine are still on their way (trames.go handleAck,     *)
(* handleError; state.go RecordApplied).                                   *)
THEOREM AcquittementDefinitif == FichierGarde => (Spec => AcquitteEstDefinitif)
<1> SUFFICES ASSUME FichierGarde PROVE Spec => AcquitteEstDefinitif
  OBVIOUS
<1>1. TypeOK /\ Surete /\ Acquis /\ [Next]_vars => Acquis'
  BY AcquisStep
<1>2. TypeOK /\ Surete /\ Acquis /\ [Next]_vars =>
        [\A o \in Ids, m \in Machines :
           cible[o][m] = "acked" => cible'[o][m] = "acked"]_vars
  BY AcquisStep DEF AcquitteReste
<1>3. QED
  BY <1>1, <1>2, AcquisInit, TypeCorrect, SureteCorrecte, PTL
  DEF Spec, AcquitteEstDefinitif
=============================================================================
