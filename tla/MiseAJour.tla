----------------------------- MODULE MiseAJour ------------------------------
(***************************************************************************)
(* The update of an agent.  The core keeps no order: it deduces one from   *)
(* the version a machine declares, the one it should have and the last     *)
(* report.  The agent takes a lock, prepares the files and launches an     *)
(* updater of its own, which swaps them one by one, restarts the service,  *)
(* watches it and goes back if it does not hold.  One machine, one core;   *)
(* versions are numbers, 0 stands for none.                                *)
(***************************************************************************)
EXTENDS Naturals, Sequences, FiniteSets

CONSTANTS Versions,     \* the versions released, 1..n
          Depart,       \* the version installed at first
          NbFichiers,   \* files of a version, the binary first
          Coupures,     \* power cuts
          Pannes,       \* operations on files that fail, downloads cut short
          Chutes,       \* tunnels cut, agents that stop by themselves
          Gestes,       \* operations of the administrators
          Courses,      \* steps of minutes that fall while a frame is in flight
          Lenteur,      \* downloads may last over half an hour
          Sources       \* where they set a version: "derogation", "groupe", "parc"

\* A version is a number above 0, it has one file at least.
VersionsAssumption ==
  /\ Versions \subseteq Nat \ {0} /\ Depart \in Versions
  /\ NbFichiers \in Nat \ {0}
  /\ {Coupures, Pannes, Chutes, Gestes, Courses} \subseteq Nat
  /\ Lenteur \in BOOLEAN /\ Sources \subseteq {"derogation", "groupe", "parc"}

VARIABLES
  place,      \* the version of each file in place, the unit being the last
  garde,      \* for each target, the files put aside before the swap
  pretes,     \* the versions whose directory "nouveau" is whole
  verrou,     \* the lock: "libre", "frais" or "vieux" (older than 30 min)
  etat,       \* etat.json: the last result, and whether it was sent
  tourne,     \* the version of the process
  session,    \* the tunnel is up
  demande,    \* 09_01 was sent on this session
  declare,    \* 02_12 was sent on this session
  lue,        \* the result being sent, not marked yet
  tour,       \* the loop of the agent: at the "compte" or at the "demande"
  deroules,   \* the orders the agent is preparing
  conf,       \* the reconciliation of this start: "attend", "passe", "fait"
  maj,        \* the updater
  monte,      \* frames to the core
  descend,    \* orders to the agent
  cibles,     \* the versions set for the machine, its group and the park
  declaree,   \* the version the base has
  compte,     \* the report the base has
  envoi,      \* the version pushed less than an hour ago
  dits,       \* what was told: promised by Relancer, failed since a gesture
  reste       \* what is left of each bound

disque == <<place, garde, pretes>>
agent  == <<tourne, session, demande, declare, lue, tour, conf>>
core   == <<cibles, declaree, compte, envoi>>
vars   == <<disque, verrou, etat, agent, deroules, maj, monte, descend, core, dits, reste>>

Pieces == 1..NbFichiers + 1
Unite  == NbFichiers + 1
Rien   == [version |-> 0, resultat |-> "", rapporte |-> TRUE]
Arretee == [pas |-> "arret", version |-> 0, i |-> 0, n |-> 0, retro |-> FALSE, lent |-> FALSE,
            defaut |-> FALSE, motif |-> ""]

Init ==
  /\ place = [p \in Pieces |-> Depart]
  /\ garde = [v \in Versions |-> [p \in Pieces |-> 0]]
  /\ pretes = {} /\ verrou = "libre" /\ etat = Rien
  /\ tourne = Depart /\ session = FALSE /\ demande = FALSE /\ declare = FALSE
  /\ lue = Rien /\ tour = "compte" /\ deroules = {} /\ conf = "attend" /\ maj = Arretee
  /\ monte = <<>> /\ descend = <<>>
  /\ cibles = [derogation |-> 0, groupe |-> 0, parc |-> 0, retro |-> FALSE]
  /\ declaree = Depart /\ compte = Rien /\ envoi = 0
  /\ dits = [promis |-> 0, ratees |-> {}]
  /\ reste = [coupures |-> Coupures, pannes |-> Pannes, chutes |-> Chutes, gestes |-> Gestes,
              courses |-> Courses]

Depense(quoi) == /\ reste[quoi] > 0
                 /\ reste' = [reste EXCEPT ![quoi] = @ - 1]

\* A frame on its way, or a turn of the agent's loop between two statements.
EnVol == \/ monte # <<>> \/ descend # <<>> \/ lue # Rien
         \/ session /\ tour = "demande" /\ ~demande

\* What takes a minute seldom falls in such a moment.
Attendre(moment) == IF moment THEN Depense("courses") ELSE UNCHANGED reste

\* A result goes to etat.json whole, not reported yet.
EcrireEtat(v, r) ==
  /\ etat' = [version |-> v, resultat |-> r, rapporte |-> FALSE]
  /\ dits' = IF r = "echec" THEN [dits EXCEPT !.ratees = @ \cup {v}] ELSE dits

-----------------------------------------------------------------------------
(* The core. *)

Attendue(c) == IF c.derogation # 0 THEN c.derogation
               ELSE IF c.groupe # 0 THEN c.groupe ELSE c.parc

EnAvance(c, d) == Attendue(c) # 0 /\ d > Attendue(c)

RetrogradationDurable(c) == c.retro /\ c.derogation # 0

EstUnEchec(r) == r \notin {"", "installe"}

(* Mutant of Decider: the last report is not looked at. *)
Decider_obstine(c, d, r) ==
  IF \/ Attendue(c) \in {0, d}
     \/ EnAvance(c, d) /\ ~RetrogradationDurable(c)
  THEN 0 ELSE Attendue(c)

\* The version to order, 0 for none.
Decider(c, d, r) ==
  IF \/ Attendue(c) \in {0, d}
     \/ EnAvance(c, d) /\ ~RetrogradationDurable(c)
     \/ r.version = Attendue(c) /\ EstUnEchec(r.resultat)
  THEN 0 ELSE Attendue(c)

DeciderPourRelance(c, d, retro) ==
  IF EnAvance(c, d) THEN IF retro \/ RetrogradationDurable(c) THEN Attendue(c) ELSE 0
  ELSE Decider(c, d, Rien)

Ordre(v) == [version |-> v, retro |-> EnAvance(cibles, declaree)]

Pousser(v) == /\ session
              /\ descend' = Append(descend, Ordre(v))
              /\ envoi' = v

\* The frame at the head of the queue is handled whole.
Recevoir(quoi) == /\ monte # <<>> /\ Head(monte).quoi = quoi
                  /\ monte' = Tail(monte)

RecevoirDeclaration ==
  /\ Recevoir("declare")
  /\ declaree' = Head(monte).version
  /\ UNCHANGED <<disque, verrou, etat, agent, deroules, maj, descend, cibles, compte, envoi, reste, dits>>

RepondreALaDemande ==
  /\ Recevoir("demande")
  /\ LET v == Decider(cibles, declaree, compte)
     IN IF v = 0 THEN UNCHANGED <<descend, envoi>>
        ELSE Pousser(v)
  /\ dits' = [dits EXCEPT !.promis = 0]
  /\ UNCHANGED <<disque, verrou, etat, agent, deroules, maj, cibles, declaree, compte, reste>>

\* The flag of a downgrade is spent by the report of its version.
RecevoirLeCompteRendu ==
  /\ Recevoir("compte")
  /\ LET r == Head(monte)
     IN /\ compte' = [version |-> r.version, resultat |-> r.resultat, rapporte |-> TRUE]
        /\ cibles' = [cibles EXCEPT !.retro = @ /\ ~(r.resultat = "installe" /\ cibles.derogation = r.version)]
  /\ envoi' = 0
  /\ UNCHANGED <<disque, verrou, etat, agent, deroules, maj, descend, declaree, reste, dits>>

\* One machine of a round: once per version and per hour.
UnTour ==
  /\ session /\ Attendre(EnVol \/ ~etat.rapporte)
  /\ LET v == Decider(cibles, declaree, compte)
     IN /\ IF v = 0 THEN envoi' = 0 /\ UNCHANGED descend
           ELSE envoi # v /\ Len(descend) < 2 /\ Pousser(v)
        /\ envoi' # envoi
  /\ dits' = [dits EXCEPT !.promis = 0]
  /\ UNCHANGED <<disque, verrou, etat, agent, deroules, maj, monte, cibles, declaree, compte>>

\* An hour passes: what the last push started is over, and was told.
RepousseApres ==
  /\ envoi # 0 /\ envoi' = 0
  /\ session /\ declare /\ demande /\ etat.rapporte /\ ~EnVol
  /\ deroules = {} /\ maj = Arretee /\ verrou # "frais"
  /\ UNCHANGED <<disque, verrou, etat, agent, deroules, maj, monte, descend, cibles, declaree, compte, reste, dits>>

DefinirCible ==
  /\ Depense("gestes")
  /\ \E v \in Versions \cup {0} :
       \/ \E ou \in Sources \ {"derogation"} : cibles' = [cibles EXCEPT ![ou] = v]
       \/ \E r \in BOOLEAN : /\ "derogation" \in Sources
                             /\ v = 0 => ~r
                             /\ cibles' = [cibles EXCEPT !.derogation = v, !.retro = r]
  /\ dits' = [promis |-> 0, ratees |-> {}]
  /\ UNCHANGED <<disque, verrou, etat, agent, deroules, maj, monte, descend, declaree, compte, envoi>>

Relancer ==
  /\ Depense("gestes")
  /\ compte' = Rien
  /\ \E retro \in BOOLEAN :
       LET v == DeciderPourRelance(cibles, declaree, retro)
       IN IF v # 0 /\ session
          THEN Pousser(v) /\ dits' = [promis |-> 0, ratees |-> {}]
          ELSE /\ envoi' = IF v = 0 THEN envoi ELSE 0
               /\ dits' = [promis |-> IF retro THEN 0 ELSE v, ratees |-> {}]
               /\ UNCHANGED descend
  /\ UNCHANGED <<disque, verrou, etat, agent, deroules, maj, monte, cibles, declaree>>

-----------------------------------------------------------------------------
(* The tunnel and the process of the agent. *)

Tomber == /\ session' = FALSE /\ monte' = <<>> /\ descend' = <<>>

\* The new process has sent nothing and reconciled nothing.
Demarrer(v) == /\ tourne' = v /\ conf' = "attend" /\ lue' = Rien /\ deroules' = {}
               /\ demande' = FALSE /\ declare' = FALSE
               /\ tour' = "compte" /\ Tomber

Connecter ==
  /\ ~session
  /\ session' = TRUE /\ demande' = FALSE /\ declare' = FALSE /\ tour' = "compte"
  /\ UNCHANGED <<disque, verrou, etat, tourne, lue, conf, deroules, maj, monte, descend, core, reste, dits>>

CouperTunnel ==
  /\ session /\ Depense("chutes") /\ Tomber
  /\ UNCHANGED <<disque, verrou, etat, tourne, demande, declare, lue, tour, conf, deroules, maj, core, dits>>

\* systemd starts it again, from the binary in place.
AgentTombe ==
  /\ Depense("chutes") /\ Demarrer(place[1])
  /\ UNCHANGED <<disque, verrou, etat, maj, core, dits>>

\* The machine comes back without its updater; the files stay as they were.
Courant ==
  /\ Depense("coupures") /\ Demarrer(place[1]) /\ maj' = Arretee
  /\ UNCHANGED <<disque, verrou, etat, core, dits>>

Emettre(f) == session /\ Len(monte) < 2 /\ monte' = Append(monte, f)

\* The name and the version go up when the tunnel opens.
Declarer ==
  /\ ~declare /\ declare' = TRUE
  /\ session /\ monte' = Append(monte, [quoi |-> "declare", version |-> tourne, resultat |-> ""])
  /\ UNCHANGED <<disque, verrou, etat, tourne, session, demande, lue, tour, conf, deroules, maj, descend, core, reste, dits>>

\* One turn of the loop: the result is read and sent, marked, then comes the demand.
RendreCompte ==
  /\ tour = "compte" /\ lue = Rien /\ session
  /\ IF etat.rapporte
     THEN tour' = "demande" /\ UNCHANGED <<lue, monte>>
     ELSE /\ Emettre([quoi |-> "compte", version |-> etat.version, resultat |-> etat.resultat])
          /\ lue' = etat /\ UNCHANGED tour
  /\ UNCHANGED <<disque, verrou, etat, tourne, session, demande, declare, conf, deroules, maj, descend, core, reste, dits>>

Marquer ==
  /\ lue # Rien
  /\ etat' = [lue EXCEPT !.rapporte = TRUE] /\ lue' = Rien /\ tour' = "demande"
  /\ UNCHANGED <<disque, verrou, tourne, session, demande, declare, conf, deroules, maj, monte, descend, core, reste, dits>>

\* Once per session.
Demander ==
  /\ tour = "demande" /\ tour' = "compte"
  /\ IF demande \/ ~session THEN UNCHANGED <<demande, monte>>
     ELSE /\ Emettre([quoi |-> "demande", version |-> 0, resultat |-> ""])
          /\ demande' = TRUE
  /\ UNCHANGED <<disque, verrou, etat, tourne, session, declare, lue, conf, deroules, maj, descend, core, reste, dits>>

\* The configuration is put right once per start, and waits for the lock.
Passage ==
  /\ conf = "attend" /\ verrou # "frais" /\ conf' = "passe"
  /\ UNCHANGED <<disque, verrou, etat, tourne, session, demande, declare, lue, tour, deroules, maj, monte, descend, core, reste, dits>>

Reconcilier ==
  /\ conf = "passe" /\ conf' = "fait"
  /\ UNCHANGED <<disque, verrou, etat, tourne, session, demande, declare, lue, tour, deroules, maj, monte, descend, core, reste, dits>>

-----------------------------------------------------------------------------
(* The order on the agent. *)

(* Mutant of Traiter: the agent takes whatever version it is told. *)
Traiter_docile(o) == IF o.version = tourne THEN "installe" ELSE ""

\* What the agent answers at once, "" when it takes the order on.
Traiter(o) == IF o.version = tourne THEN "installe"
              ELSE IF o.version < tourne /\ ~o.retro THEN "refuse" ELSE ""

\* An order received while another is being carried out is dropped.
RecevoirOrdre ==
  /\ descend # <<>>
  /\ descend' = Tail(descend)
  /\ LET o == Head(descend)  r == Traiter(o)
     IN CASE r # "" -> /\ monte' = Append(monte, [quoi |-> "compte", version |-> o.version, resultat |-> r])
                       /\ UNCHANGED <<verrou, deroules>>
          [] r = "" /\ verrou # "frais" ->
                       /\ verrou' = "frais"
                       /\ deroules' = deroules \cup {[version |-> o.version, retro |-> o.retro, pas |-> "attend", lent |-> FALSE]}
                       /\ UNCHANGED monte
          [] OTHER -> UNCHANGED <<verrou, deroules, monte>>
  /\ UNCHANGED <<disque, etat, agent, maj, core, reste, dits>>

LibererVerrou == verrou' = "libre"

\* No source answers, or the download stops: the lock is given back, nothing is said.
Transitoire(d) ==
  /\ d.pas = "attend" /\ Depense("pannes")
  /\ deroules' = deroules \ {d} /\ LibererVerrou
  /\ UNCHANGED <<disque, etat, agent, maj, monte, descend, core, dits>>

\* The directory of the version is emptied, then filled and verified.
Extraire(d) ==
  /\ d.pas = "attend"
  /\ pretes' = pretes \ {d.version}
  /\ deroules' = (deroules \ {d}) \cup {[d EXCEPT !.pas = "prepare"]}
  /\ UNCHANGED <<place, garde, verrou, etat, agent, maj, monte, descend, core, reste, dits>>

Refuser(d) ==
  /\ d.pas = "prepare"
  /\ EcrireEtat(d.version, "refuse") /\ LibererVerrou
  /\ deroules' = deroules \ {d}
  /\ UNCHANGED <<disque, agent, maj, monte, descend, core, reste>>

\* systemd has one unit of that name: it does not start a second updater.
LancerUpdater(d) ==
  /\ d.pas = "prepare" /\ deroules' = deroules \ {d}
  /\ pretes' = pretes \cup {d.version}
  /\ IF maj.pas = "arret"
     THEN /\ maj' = [Arretee EXCEPT !.pas = "garder", !.version = d.version, !.retro = d.retro, !.lent = d.lent]
          /\ UNCHANGED <<verrou, etat, dits>>
     ELSE /\ EcrireEtat(d.version, "echec") /\ LibererVerrou
          /\ UNCHANGED maj
  /\ UNCHANGED <<place, garde, agent, monte, descend, core, reste>>

\* Half an hour passes: whoever asks next takes the lock for abandoned.  Frames
\* take less, a download or a swap lasts over at most one such delay.
Vieillir ==
  /\ verrou = "frais" /\ verrou' = "vieux"
  /\ monte = <<>> /\ descend = <<>> /\ lue = Rien
  /\ IF Lenteur THEN ~maj.lent /\ \A d \in deroules : ~d.lent
     ELSE maj = Arretee /\ deroules = {}
  /\ deroules' = {[d EXCEPT !.lent = TRUE] : d \in deroules}
  /\ maj' = [maj EXCEPT !.lent = maj.pas # "arret"]
  /\ UNCHANGED <<disque, etat, agent, monte, descend, core, reste, dits>>

-----------------------------------------------------------------------------
(* The updater. *)

Avancer(m) == /\ maj' = m
              /\ UNCHANGED <<pretes, verrou, etat, deroules, core>>

Finir(r, motif) == [maj EXCEPT !.pas = r, !.i = 0, !.n = 0, !.motif = motif]

(* Mutant of Garder: the unit is forgotten among what is put aside. *)
Garder_sansUnite ==
  /\ maj.pas = "garder"
  /\ IF maj.version \in pretes
     THEN /\ garde' = [garde EXCEPT ![maj.version] = [place EXCEPT ![Unite] = 0]]
          /\ Avancer([maj EXCEPT !.pas = "basculer", !.i = 1])
     ELSE /\ Avancer(Finir("refuse", "prepare")) /\ UNCHANGED garde
  /\ UNCHANGED <<place, agent, monte, descend, reste, dits>>

Garder ==
  /\ maj.pas = "garder"
  /\ IF maj.version \in pretes
     THEN /\ garde' = [garde EXCEPT ![maj.version] = place]
          /\ Avancer([maj EXCEPT !.pas = "basculer", !.i = 1])
     ELSE /\ Avancer(Finir("refuse", "prepare")) /\ UNCHANGED garde
  /\ UNCHANGED <<place, agent, monte, descend, reste, dits>>

Basculer ==
  /\ maj.pas = "basculer" /\ maj.i <= NbFichiers /\ maj.version \in pretes
  /\ place' = [place EXCEPT ![maj.i] = maj.version]
  /\ Avancer([maj EXCEPT !.i = @ + 1])
  /\ UNCHANGED <<garde, agent, monte, descend, reste, dits>>

(* Mutant of EchecDeBascule: one file too few is put back. *)
EchecDeBascule_court ==
  /\ maj.pas = "basculer" /\ maj.i <= NbFichiers
  /\ IF maj.version \in pretes THEN Depense("pannes") ELSE UNCHANGED reste
  /\ Avancer([maj EXCEPT !.pas = "remettre", !.i = 1, !.motif = "rien",
                         !.n = IF maj.i > 1 THEN maj.i - 2 ELSE 0])
  /\ UNCHANGED <<place, garde, agent, monte, descend, dits>>

\* The files already swapped are put back; the result does not say if that failed.
EchecDeBascule ==
  /\ maj.pas = "basculer" /\ maj.i <= NbFichiers
  /\ IF maj.version \in pretes THEN Depense("pannes") ELSE UNCHANGED reste
  /\ Avancer([maj EXCEPT !.pas = "remettre", !.i = 1, !.n = maj.i - 1, !.motif = "rien"])
  /\ UNCHANGED <<place, garde, agent, monte, descend, dits>>

\* The n first pieces are taken back from what was put aside.
Remettre ==
  /\ maj.pas = "remettre" /\ maj.i <= maj.n
  /\ \/ /\ place' = [place EXCEPT ![maj.i] = garde[maj.version][maj.i]]
        /\ Avancer([maj EXCEPT !.i = @ + 1]) /\ UNCHANGED reste
     \/ /\ Depense("pannes")
        /\ Avancer([maj EXCEPT !.i = @ + 1, !.defaut = TRUE]) /\ UNCHANGED place
  /\ UNCHANGED <<garde, agent, monte, descend, dits>>

EcrireUnite ==
  /\ maj.pas = "basculer" /\ maj.i = Unite
  /\ \/ /\ place' = [place EXCEPT ![Unite] = place[1]]
        /\ Avancer([maj EXCEPT !.pas = "redemarrer"]) /\ UNCHANGED reste
     \/ /\ Depense("pannes") /\ UNCHANGED place
        /\ Avancer([maj EXCEPT !.pas = "remettre", !.i = 1, !.n = Unite, !.motif = "arriere"])
  /\ UNCHANGED <<garde, agent, monte, descend, dits>>

Redemarrer ==
  /\ maj.pas = "redemarrer"
  /\ maj' = [maj EXCEPT !.pas = "porte"] /\ Demarrer(place[1])
  /\ UNCHANGED <<disque, verrou, etat, core, reste, dits>>

\* The gate: the tunnel is back before the deadline, or it is not.
PorteFranchie ==
  /\ maj.pas = "porte" /\ session /\ Attendre(EnVol)
  /\ pretes' = pretes \ {maj.version}
  /\ maj' = Finir("installe", "")
  /\ UNCHANGED <<place, garde, verrou, etat, deroules, core, agent, monte, descend, dits>>

PorteFermee ==
  /\ maj.pas = "porte" /\ Attendre(EnVol)
  /\ Avancer([maj EXCEPT !.pas = "remettre", !.i = 1, !.n = Unite, !.motif = "arriere"])
  /\ UNCHANGED <<place, garde, agent, monte, descend, dits>>

FinDeRemise ==
  /\ maj.pas = "remettre" /\ maj.i > maj.n
  /\ IF maj.motif = "arriere"
     THEN maj' = [maj EXCEPT !.pas = "relance"] /\ Demarrer(place[1])
     ELSE /\ maj' = Finir("echec", "rien")
          /\ UNCHANGED <<agent, deroules, monte, descend>>
  /\ UNCHANGED <<disque, verrou, etat, core, reste, dits>>

\* The old version is watched too, without the tunnel.
PorteDuRetour ==
  /\ maj.pas = "relance" /\ Attendre(EnVol)
  /\ Avancer(Finir("echec", "arriere"))
  /\ UNCHANGED <<place, garde, agent, monte, descend, dits>>

\* The result is written, then the lock is given back.
EcrireResultat ==
  /\ maj.pas \in {"installe", "echec", "refuse"}
  /\ EcrireEtat(maj.version, maj.pas)
  /\ maj' = [maj EXCEPT !.pas = "rendre"]
  /\ UNCHANGED <<disque, verrou, agent, deroules, monte, descend, core, reste>>

Rendre ==
  /\ maj.pas = "rendre" /\ LibererVerrou /\ Attendre(EnVol)
  /\ maj' = Arretee
  /\ UNCHANGED <<disque, etat, agent, deroules, monte, descend, core, dits>>

-----------------------------------------------------------------------------
Core == \/ RecevoirDeclaration \/ RepondreALaDemande \/ RecevoirLeCompteRendu
        \/ UnTour \/ RepousseApres
Agent == \/ Connecter \/ Declarer \/ RendreCompte \/ Marquer \/ Demander
         \/ Passage \/ Reconcilier \/ RecevoirOrdre
Deroule == \E d \in deroules : Transitoire(d) \/ Extraire(d) \/ Refuser(d) \/ LancerUpdater(d)
Updater == \/ Garder \/ Basculer \/ EchecDeBascule \/ Remettre \/ EcrireUnite \/ Redemarrer
           \/ PorteFranchie \/ PorteFermee \/ FinDeRemise \/ PorteDuRetour
           \/ EcrireResultat \/ Rendre
Hasard == DefinirCible \/ Relancer \/ CouperTunnel \/ AgentTombe \/ Courant

Next == Core \/ Agent \/ Deroule \/ Updater \/ Vieillir \/ Hasard

Spec == Init /\ [][Next]_vars

-----------------------------------------------------------------------------
TypeOK ==
  /\ place \in [Pieces -> Versions]
  /\ garde \in [Versions -> [Pieces -> Versions \cup {0}]]
  /\ pretes \subseteq Versions /\ verrou \in {"libre", "frais", "vieux"}
  /\ tourne \in Versions /\ envoi \in Versions \cup {0}
  /\ declaree \in Versions \cup {0}
  /\ maj.i \in 0..Unite + 1 /\ maj.n \in 0..Unite
  /\ \A d \in deroules : d.version \in Versions /\ d.pas \in {"attend", "prepare"}
  /\ tour \in {"compte", "demande"} /\ conf \in {"attend", "passe", "fait"}
  /\ dits.promis \in Versions \cup {0} /\ dits.ratees \subseteq Versions

\* A swap that ends leaves the new version whole, or the former one, unless
\* a file could not be put back.
ToutOuRien ==
  /\ maj.pas = "installe" => \A p \in Pieces : place[p] = maj.version
  /\ maj.pas \in {"echec", "relance"} /\ ~maj.defaut => place = garde[maj.version]

\* "rien n'a changé": the result of a swap stopped on a file tells the truth.
MotifVrai == maj.pas = "echec" /\ maj.motif = "rien" => place = garde[maj.version]

\* The binary in place goes to a lower version only by an order that said so,
\* or back to what was put aside.
BinaireAvance ==
  place'[1] < place[1] => maj.pas = "remettre" \/ maj.retro
JamaisRetrograde == [][BinaireAvance]_vars

\* No configuration is put right before the new version has passed the gate.
ConfApresPorte == conf = "passe" => maj.pas # "porte"

\* A machine that came back and declares the version expected has all of it.
RetourEntier ==
  session /\ maj.pas = "arret" /\ declaree = tourne
    => \A p \in Pieces : place[p] = declaree

\* A swap that failed is not tried again until an administrator says so.
RateeLaissee ==
  maj.pas = "arret" /\ maj'.pas = "garder" => maj'.version \notin dits.ratees
NonRepete == [][RateeLaissee]_vars

\* A machine relaunched while away has its order at its next demand.
RelanceEnvoyee ==
  dits.promis \notin {0, declaree} /\ dits'.promis = 0 /\ cibles' = cibles /\ reste' = reste
    => envoi' = dits.promis
RelanceServie == [][RelanceEnvoyee]_vars
=============================================================================
