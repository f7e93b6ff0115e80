-------------------------- MODULE VerificationEnLigne --------------------------
(***************************************************************************)
(* The online check: how long a tunnel between a machine and the core      *)
(* lives, and how long the machine is listed as connected (did_login).     *)
(*                                                                         *)
(* Four clocks may end a tunnel, and all derive from one setting that an   *)
(* administrator changes while they run:                                   *)
(*   - the round of the core (verifyServersOnline) sends a beat to every   *)
(*     authenticated session, then drops the sessions silent for too long; *)
(*   - each read of the core has a deadline, armed before the read;        *)
(*   - the agent closes a tunnel on which it hears nothing;                *)
(*   - the row of did_login has a validity, renewed by the answers.        *)
(* The answer to the beat is the only regular traffic of a tunnel.         *)
(*                                                                         *)
(* Time is discrete: one Tick is one unit, and every duration is in units. *)
(* An operator with a suffix (Tolerance_uneCadence) is a faulty form of    *)
(* the operator that follows it; no specification uses one.                *)
(***************************************************************************)
EXTENDS Integers, FiniteSets

CONSTANTS
  Machines,          \* machines of the park
  Sessions,          \* connections the core may hold at the same time
  De,                \* the machine at the other end of each
  Cadences,          \* values the setting check_online_minutes may take
  Minute,            \* units of time in a minute
  Retard,            \* bound: lateness of a whole round of the loop
  PlancherTolerance, \* PlancherToleranceDeSilence
  PlancherLecture,   \* SessionReadTimeout
  PlancherValidite,  \* PlancherValiditeDeSession
  PlancherFermeture, \* PlancherDelaiDeFermeture
  DelaiPoignee,      \* handshakeIdleTimeout and HandshakeReadTimeout
  PeriodePoignees,   \* periodeBalayagePoignees
  MaxTours,          \* bound: rounds without an answer that are counted
  Baisse             \* may the setting be lowered while the core runs

ASSUME ParcAssumption == De \in [Sessions -> Machines]

ASSUME DureesAssumption ==
  /\ Cadences \subseteq Nat \ {0} /\ Cadences # {}
  /\ Minute \in Nat /\ Retard \in Nat
  /\ PlancherTolerance \in Nat /\ PlancherLecture \in Nat
  /\ PlancherValidite \in Nat /\ PlancherFermeture \in Nat
  /\ DelaiPoignee \in Nat /\ PeriodePoignees \in Nat
  /\ DelaiPoignee > 0 /\ PeriodePoignees > 0
  /\ MaxTours \in Nat /\ MaxTours >= 3
  /\ Baisse \in BOOLEAN

(* "The minute covers the time of the answer and the shift of the round":  *)
(* a round is not later than a third of it (derives.go, ToleranceDeSilence).*)
ASSUME RetardAssumption == 3 * Retard < Minute

VARIABLES
  cadence,   \* the setting, as every reader sees it
  sommeil,   \* the value for which the loop last went to sleep
  reveil,    \* time before the loop wakes, negative when it is late
  phase,     \* where the loop is: asleep, about to list, dropping
  balayage,  \* time before the next sweep of the handshakes
  etat,      \* registry: free, handshake, encrypted channel, authenticated
  silence,   \* time since the core read a frame (LastSeen)
  lueA,      \* cadence for which the deadline of the read is armed, 0 if short
  bout,      \* is the agent's end of the connection alive
  muet,      \* time since the agent read a frame
  battement, \* cadence announced by the beat under way, 0 if there is none
  tours,     \* times the loop went to sleep since the last recorded answer
  depuis,    \* cadence in force at that answer
  apprise,   \* cadence the agent of a machine has learnt, 0 if none
  ligne,     \* row of did_login: time left, 0 expired, -1 no row
  etapes     \* what each closing has still to do with a session

vars == <<cadence, sommeil, reveil, phase, balayage, etat, silence, lueA,
          bout, muet, battement, tours, depuis, apprise, ligne, etapes>>

boucle == <<cadence, sommeil, reveil, phase, balayage>>
coeur  == <<etat, silence, lueA, battement, tours, depuis>>
agent  == <<bout, muet, apprise>>

Etats == {"libre", "poignee", "sure", "auth"}
Phases == {"dort", "balaie", "ferme"}

(* Who closes: the round, the sweep of the handshakes, a farewell 02_05.    *)
Fermeurs == {"tour", "poignees", "adieu"}
Etapes == {"non", "oublier", "retirer", "constater", "effacer"}

-----------------------------------------------------------------------------
(* The derived durations.                                                  *)

AuMoins(plancher, d) == IF d < plancher THEN plancher ELSE d

Tolerance_uneCadence(c) == AuMoins(PlancherTolerance, c + Minute)

Tolerance(c) == AuMoins(PlancherTolerance, 2 * c + Minute)

Validite_fixe(c) == PlancherValidite

Validite(c) == AuMoins(PlancherValidite, Tolerance(c) + c)

DelaiDeFermeture(c) == IF c = 0 THEN PlancherFermeture
                                ELSE AuMoins(PlancherFermeture, 2 * c + Minute)

(* The deadline of the read under way.                                     *)
Echeance(s) ==
  IF lueA[s] = 0 THEN DelaiPoignee ELSE AuMoins(PlancherLecture, Tolerance(lueA[s]))

-----------------------------------------------------------------------------
Init ==
  /\ cadence \in Cadences
  /\ sommeil = cadence /\ reveil = cadence
  /\ phase = "dort"
  /\ balayage = PeriodePoignees
  /\ etat = [s \in Sessions |-> "libre"]
  /\ silence = [s \in Sessions |-> 0]
  /\ lueA = [s \in Sessions |-> 0]
  /\ bout = [s \in Sessions |-> FALSE]
  /\ muet = [s \in Sessions |-> 0]
  /\ battement = [s \in Sessions |-> 0]
  /\ tours = [s \in Sessions |-> 0]
  /\ depuis = [s \in Sessions |-> 0]
  /\ apprise = [m \in Machines |-> 0]
  /\ ligne = [m \in Machines |-> -1]
  /\ etapes = [p \in Fermeurs |-> [s \in Sessions |-> "non"]]

(* RemoveSession: the socket is closed and the entry leaves the registry.  *)
Retiree(s) ==
  /\ etat' = [etat EXCEPT ![s] = "libre"]
  /\ silence' = [silence EXCEPT ![s] = 0]
  /\ lueA' = [lueA EXCEPT ![s] = 0]
  /\ bout' = [bout EXCEPT ![s] = FALSE]
  /\ muet' = [muet EXCEPT ![s] = 0]
  /\ battement' = [battement EXCEPT ![s] = 0]
  /\ tours' = [tours EXCEPT ![s] = 0]
  /\ depuis' = [depuis EXCEPT ![s] = 0]

(* Touch, then the deadline of the next read armed on the way back.        *)
Lue(s, c) ==
  /\ silence' = [silence EXCEPT ![s] = 0]
  /\ lueA' = [lueA EXCEPT ![s] = c]

Entendue(s) == muet' = [muet EXCEPT ![s] = 0]

ToursAZero == IF phase = "dort" THEN 1 ELSE 0

-----------------------------------------------------------------------------
(* The life of a connection.                                               *)

Ouvrir(s) ==
  /\ etat[s] = "libre"
  /\ \A p \in Fermeurs : etapes[p][s] = "non"
  /\ etat' = [etat EXCEPT ![s] = "poignee"]
  /\ bout' = [bout EXCEPT ![s] = TRUE]
  /\ UNCHANGED <<boucle, silence, lueA, battement, tours, depuis, muet, apprise,
                 ligne, etapes>>

(* A frame that does not carry the handshake further: askkey, 01_01, a     *)
(* refused 02_03.                                                          *)
Negocier(s) ==
  /\ etat[s] \in {"poignee", "sure"} /\ bout[s]
  /\ Lue(s, IF etat[s] = "sure" THEN cadence ELSE 0) /\ Entendue(s)
  /\ UNCHANGED <<boucle, etat, battement, tours, depuis, bout, apprise, ligne, etapes>>

(* 02_01: the channel is encrypted, nobody is authenticated yet.           *)
Chiffrer(s) ==
  /\ etat[s] = "poignee" /\ bout[s]
  /\ etat' = [etat EXCEPT ![s] = "sure"]
  /\ Lue(s, cadence) /\ Entendue(s)
  /\ UNCHANGED <<boucle, battement, tours, depuis, bout, apprise, ligne, etapes>>

(* 02_03 of a machine: the status, then the row (which the database may    *)
(* refuse), and the first beat in the reply.                               *)
Authentifier(s, inscrite) ==
  /\ etat[s] = "sure" /\ bout[s]
  /\ etat' = [etat EXCEPT ![s] = "auth"]
  /\ Lue(s, cadence)
  /\ battement' = [battement EXCEPT ![s] = cadence]
  /\ ligne' = IF inscrite THEN [ligne EXCEPT ![De[s]] = Validite(cadence)] ELSE ligne
  /\ UNCHANGED <<boucle, tours, depuis, agent, etapes>>

(* The goroutine of the connection reads frames of a live tunnel.          *)
EnService(s) == etat[s] = "auth" /\ bout[s] /\ etapes["adieu"][s] = "non"

(* 02_11 then 02_12: the agent learns the cadence; the core renews, or     *)
(* creates again, the row of the machine, unless the database refuses.     *)
Repondre(s, enregistree) ==
  /\ EnService(s) /\ battement[s] # 0
  /\ apprise' = [apprise EXCEPT ![De[s]] = battement[s]]
  /\ battement' = [battement EXCEPT ![s] = 0]
  /\ Lue(s, cadence) /\ Entendue(s)
  /\ IF enregistree
       THEN /\ tours' = [tours EXCEPT ![s] = ToursAZero]
            /\ depuis' = [depuis EXCEPT ![s] = cadence]
            /\ ligne' = [ligne EXCEPT ![De[s]] = Validite(cadence)]
       ELSE UNCHANGED <<tours, depuis, ligne>>
  /\ UNCHANGED <<boucle, etat, bout, etapes>>

(* A beat that could not be sent, or that the agent never gets to read.    *)
Perdre(s) ==
  /\ battement[s] # 0
  /\ battement' = [battement EXCEPT ![s] = 0]
  /\ UNCHANGED <<boucle, etat, silence, lueA, tours, depuis, agent, ligne, etapes>>

(* Any other frame of the agent. The other frames of the core only lengthen *)
(* the patience of the agent: they are left out.                            *)
Monter(s) ==
  /\ EnService(s)
  /\ Lue(s, cadence)
  /\ UNCHANGED <<boucle, etat, battement, tours, depuis, agent, ligne, etapes>>

(* The agent's end is gone: nothing is under way with it.                  *)
Morte(s) ==
  /\ bout' = [bout EXCEPT ![s] = FALSE]
  /\ muet' = [muet EXCEPT ![s] = 0]
  /\ battement' = [battement EXCEPT ![s] = 0]

(* The connection breaks, or the machine vanishes without closing it; the  *)
(* core may be told (a failed read), or have to wait for its clocks.       *)
Couper(s) ==
  /\ etat[s] # "libre" /\ bout[s]
  /\ Morte(s)
  /\ UNCHANGED <<boucle, etat, silence, lueA, tours, depuis, apprise, ligne, etapes>>

Disparaitre(m) ==
  /\ \E s \in Sessions : De[s] = m /\ bout[s]
  /\ bout' = [s \in Sessions |-> bout[s] /\ De[s] # m]
  /\ battement' = [s \in Sessions |-> IF De[s] = m THEN 0 ELSE battement[s]]
  /\ muet' = [s \in Sessions |-> IF De[s] = m THEN 0 ELSE muet[s]]
  /\ apprise' = [apprise EXCEPT ![m] = 0]
  /\ UNCHANGED <<boucle, etat, silence, lueA, tours, depuis, ligne, etapes>>

Rompue(s) ==
  /\ etat[s] # "libre" /\ ~bout[s] /\ etapes["adieu"][s] = "non"
  /\ Retiree(s)
  /\ UNCHANGED <<boucle, apprise, ligne, etapes>>

(* The deadline of the read: closeConnection leaves the row alone.         *)
EchuePour(s) ==
  etat[s] # "libre" /\ etapes["adieu"][s] = "non" /\ silence[s] >= Echeance(s)

EcheanceLue(s) ==
  /\ EchuePour(s)
  /\ Retiree(s)
  /\ UNCHANGED <<boucle, apprise, ligne, etapes>>

(* fermerLesSessionsMuettes, in the agent, which looks every minute.       *)
Impatient(s, marge) ==
  etat[s] = "auth" /\ bout[s] /\ muet[s] > DelaiDeFermeture(apprise[De[s]]) + marge

FermerParAgent(s) ==
  /\ Impatient(s, 0)
  /\ Morte(s)
  /\ UNCHANGED <<boucle, etat, silence, lueA, tours, depuis, apprise, ligne, etapes>>

-----------------------------------------------------------------------------
(* The closings: each reads the registry and only then deletes the row.    *)

AutreSessionAuthentifiee(s) ==
  \E t \in Sessions \ {s} : etat[t] = "auth" /\ De[t] = De[s]

Avancer(p, s, e) == etapes' = [etapes EXCEPT ![p][s] = e]

(* 02_05: the row first, the registry last.                                *)
Quitter(s) ==
  /\ EnService(s)
  /\ Lue(s, cadence)
  /\ Avancer("adieu", s, "constater")
  /\ UNCHANGED <<boucle, etat, battement, tours, depuis, agent, ligne>>

Constater(p, s) ==
  /\ etapes[p][s] = "constater"
  /\ Avancer(p, s, IF ~AutreSessionAuthentifiee(s) THEN "effacer"
                   ELSE IF p = "adieu" THEN "retirer" ELSE "non")
  /\ UNCHANGED <<boucle, coeur, agent, ligne>>

(* DeleteDidLogin, which the database may refuse.                          *)
Effacer(p, s, faite) ==
  /\ etapes[p][s] = "effacer"
  /\ ligne' = IF faite THEN [ligne EXCEPT ![De[s]] = -1] ELSE ligne
  /\ Avancer(p, s, IF p = "adieu" THEN "retirer" ELSE "non")
  /\ UNCHANGED <<boucle, coeur, agent>>

(* dropStaleSession takes the sessions of its list one after the other;    *)
(* a session listed before it was authenticated is only forgotten.         *)
Retirer(p, s) ==
  /\ etapes[p][s] \in {"retirer", "oublier"}
  /\ \A t \in Sessions : etapes[p][t] \notin {"constater", "effacer"} \/ p = "adieu"
  /\ Retiree(s)
  /\ Avancer(p, s, IF etapes[p][s] = "retirer" /\ p # "adieu" THEN "constater" ELSE "non")
  /\ UNCHANGED <<boucle, apprise, ligne>>

-----------------------------------------------------------------------------
(* The loop of the online check.                                           *)

Battre ==
  /\ phase = "dort" /\ reveil <= 0
  /\ phase' = "balaie"
  /\ battement' = [s \in Sessions |->
       IF etat[s] = "auth" /\ bout[s] THEN cadence ELSE battement[s]]
  /\ UNCHANGED <<cadence, sommeil, reveil, balayage, etat, silence, lueA, tours,
                 depuis, agent, ligne, etapes>>

Muette(s, authIdle) ==
  IF etat[s] = "auth" THEN silence[s] > authIdle ELSE silence[s] > DelaiPoignee

Lister ==
  /\ phase = "balaie"
  /\ phase' = "ferme"
  /\ etapes' = [etapes EXCEPT !["tour"] = [s \in Sessions |->
       IF etat[s] = "libre" \/ ~Muette(s, Tolerance(cadence)) THEN "non"
       ELSE IF etat[s] = "auth" THEN "retirer" ELSE "oublier"]]
  /\ UNCHANGED <<cadence, sommeil, reveil, balayage, coeur, agent, ligne>>

(* The loop sleeps for the new setting while the rest goes by the old one. *)
FinDeTour_periodeFigee ==
  /\ phase = "ferme"
  /\ \A s \in Sessions : etapes["tour"][s] = "non"
  /\ phase' = "dort"
  /\ reveil' = cadence
  /\ tours' = [s \in Sessions |-> IF etat[s] = "auth" /\ tours[s] < MaxTours
                                    THEN tours[s] + 1 ELSE tours[s]]
  /\ UNCHANGED <<cadence, sommeil, balayage, etat, silence, lueA, battement, depuis,
                 agent, ligne, etapes>>

(* The end of the round: the period is read again, and the loop sleeps.    *)
FinDeTour ==
  /\ phase = "ferme"
  /\ \A s \in Sessions : etapes["tour"][s] = "non"
  /\ phase' = "dort"
  /\ sommeil' = cadence /\ reveil' = cadence
  /\ tours' = [s \in Sessions |-> IF etat[s] = "auth" /\ tours[s] < MaxTours
                                    THEN tours[s] + 1 ELSE tours[s]]
  /\ UNCHANGED <<cadence, balayage, etat, silence, lueA, battement, depuis, agent,
                 ligne, etapes>>

(* A sweep that only takes the connections whose read has a short deadline.*)
BalayerPoignees_courtes ==
  /\ balayage = 0
  /\ balayage' = PeriodePoignees
  /\ etapes' = [etapes EXCEPT !["poignees"] = [s \in Sessions |->
       IF etat[s] = "poignee" /\ silence[s] > DelaiPoignee
       THEN "oublier" ELSE @[s]]]
  /\ UNCHANGED <<cadence, sommeil, reveil, phase, coeur, agent, ligne>>

(* fermerLesPoigneesExpirees: the tolerance of the others is infinite.     *)
BalayerPoignees ==
  /\ balayage = 0
  /\ balayage' = PeriodePoignees
  /\ etapes' = [etapes EXCEPT !["poignees"] = [s \in Sessions |->
       IF etat[s] \in {"poignee", "sure"} /\ silence[s] > DelaiPoignee
       THEN "oublier" ELSE @[s]]]
  /\ UNCHANGED <<cadence, sommeil, reveil, phase, coeur, agent, ligne>>

Regler(c) ==
  /\ c # cadence
  /\ Baisse \/ c > cadence
  /\ cadence' = c
  /\ UNCHANGED <<sommeil, reveil, phase, balayage, coeur, agent, ligne, etapes>>

(* CleanUpExpiredSessions.                                                 *)
Purger(m) ==
  /\ ligne[m] = 0
  /\ ligne' = [ligne EXCEPT ![m] = -1]
  /\ UNCHANGED <<boucle, coeur, agent, etapes>>

(* Time passes, unless something is due that does not wait: a round at the *)
(* end of its lateness, a deadline, a sweep, the look of the agent.        *)
Tick ==
  /\ reveil > -Retard
  /\ balayage > 0
  /\ \A s \in Sessions : /\ ~EchuePour(s) /\ ~Impatient(s, Minute)
                        /\ etapes["poignees"][s] = "non"
  /\ reveil' = reveil - 1
  /\ balayage' = balayage - 1
  /\ silence' = [s \in Sessions |-> IF etat[s] # "libre" THEN silence[s] + 1 ELSE 0]
  /\ muet' = [s \in Sessions |-> IF bout[s] THEN muet[s] + 1 ELSE muet[s]]
  /\ ligne' = [m \in Machines |-> IF ligne[m] > 0 THEN ligne[m] - 1 ELSE ligne[m]]
  /\ UNCHANGED <<cadence, sommeil, phase, etat, lueA, battement, tours, depuis,
                 bout, apprise, etapes>>

Fermeture(s) ==
  \E p \in Fermeurs :
    Constater(p, s) \/ Retirer(p, s) \/ \E faite \in BOOLEAN : Effacer(p, s, faite)

Next ==
  \/ \E s \in Sessions :
       \/ Ouvrir(s) \/ Negocier(s) \/ Chiffrer(s) \/ Quitter(s)
       \/ \E b \in BOOLEAN : Authentifier(s, b) \/ Repondre(s, b)
       \/ Perdre(s) \/ Monter(s)
       \/ Couper(s) \/ Rompue(s) \/ EcheanceLue(s) \/ FermerParAgent(s)
       \/ Fermeture(s)
  \/ \E m \in Machines : Disparaitre(m) \/ Purger(m)
  \/ Battre \/ Lister \/ FinDeTour \/ BalayerPoignees
  \/ \E c \in Cadences : Regler(c)
  \/ Tick

Spec == Init /\ [][Next]_vars

-----------------------------------------------------------------------------
TypeOK ==
  /\ cadence \in Cadences /\ sommeil \in Cadences
  /\ reveil \in Int /\ reveil >= -Retard /\ reveil <= sommeil
  /\ phase \in Phases
  /\ balayage \in 0..PeriodePoignees
  /\ etat \in [Sessions -> Etats]
  /\ silence \in [Sessions -> Nat]
  /\ lueA \in [Sessions -> Cadences \cup {0}]
  /\ bout \in [Sessions -> BOOLEAN]
  /\ muet \in [Sessions -> Nat]
  /\ battement \in [Sessions -> Cadences \cup {0}]
  /\ tours \in [Sessions -> 0..MaxTours]
  /\ depuis \in [Sessions -> Cadences \cup {0}]
  /\ apprise \in [Machines -> Cadences \cup {0}]
  /\ ligne \in [Machines -> Nat \cup {-1}]
  /\ etapes \in [Fermeurs -> [Sessions -> Etapes]]

(* A healthy tunnel: alive, at most one beat in a row went without a       *)
(* recorded answer, and both ends know at least the period the loop sleeps.*)
Saine(s) ==
  /\ EnService(s)
  /\ tours[s] <= 2
  /\ depuis[s] >= sommeil
  /\ apprise[De[s]] >= sommeil

(* No admitted cadence cuts a healthy tunnel, by any of the three clocks   *)
(* that can: the sweep, the deadline of the read, the agent (derives.go,   *)
(* echeanceDeLecture, DelaiDeFermeturePour).                               *)
SaineGardee ==
  \A s \in Sessions : Saine(s) =>
    /\ phase = "balaie" => ~Muette(s, Tolerance(cadence))
    /\ silence[s] < Echeance(s)
    /\ muet[s] <= DelaiDeFermeture(apprise[De[s]])

(* The row of a machine never expires before the tunnel it describes       *)
(* (ValiditeDeSessionPour).                                                *)
LigneSurvit == \A s \in Sessions : Saine(s) => ligne[De[s]] # 0

(* An unfinished handshake does not stay silent longer than its delay and  *)
(* one period of its sweep, whatever the cadence and however far it went.  *)
PoigneeBornee ==
  \A s \in Sessions : etat[s] \in {"poignee", "sure"}
                        => silence[s] <= DelaiPoignee + PeriodePoignees
=============================================================================
