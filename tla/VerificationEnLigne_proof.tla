---------------------- MODULE VerificationEnLigne_proof ----------------------
(***************************************************************************)
(* Proofs about the online check, for any park, any durations and any set  *)
(* of cadences: which healthy tunnels no clock cuts, and which rows never  *)
(* expire before their tunnel.                                             *)
(***************************************************************************)
EXTENDS VerificationEnLigne, TLAPS

(* The assumptions on the durations, one by one.                           *)
LEMMA Constantes ==
  /\ \A c \in Cadences : c \in Nat /\ c > 0
  /\ Minute \in Nat /\ Retard \in Nat /\ 3 * Retard < Minute
  /\ PlancherTolerance \in Nat /\ PlancherLecture \in Nat
  /\ PlancherValidite \in Nat /\ PlancherFermeture \in Nat
  /\ DelaiPoignee \in Nat /\ PeriodePoignees \in Nat
  /\ DelaiPoignee > 0 /\ PeriodePoignees > 0
  /\ MaxTours \in Nat /\ MaxTours >= 3
  /\ De \in [Sessions -> Machines]
BY DureesAssumption, RetardAssumption, ParcAssumption

(* Every derived duration is a duration.                                   *)
LEMMA DureesType ==
  ASSUME NEW c \in Nat
  PROVE  /\ Tolerance(c) \in Nat
         /\ Validite(c) \in Nat
         /\ DelaiDeFermeture(c) \in Nat
BY Constantes DEF Tolerance, Validite, DelaiDeFermeture, AuMoins

(* A longer cadence never makes a tolerance or a validity shorter.         *)
LEMMA DureesCroissantes ==
  ASSUME NEW c \in Nat, NEW d \in Nat, c <= d
  PROVE  Tolerance(c) <= Tolerance(d) /\ Validite(c) <= Validite(d)
BY Constantes DEF Tolerance, Validite, AuMoins

(* The initial registry, table and clocks are well formed.                 *)
LEMMA TypeInit == Init => TypeOK
BY Constantes DEF Init, TypeOK, Phases, Etats, Etapes

(* Every step keeps the registry, the table and the clocks well formed.    *)
LEMMA TypeSuite ==
  ASSUME TypeOK, [Next]_vars
  PROVE  TypeOK'
<1> USE DEF TypeOK, boucle, coeur, agent, Etats, Phases, Etapes
<1>1. ASSUME NEW s \in Sessions, Ouvrir(s)
      PROVE  TypeOK'
  BY <1>1, Constantes, DureesType DEF Ouvrir
<1>2. ASSUME NEW s \in Sessions, Negocier(s)
      PROVE  TypeOK'
  BY <1>2, Constantes, DureesType DEF Negocier, Lue, Entendue
<1>3. ASSUME NEW s \in Sessions, Chiffrer(s)
      PROVE  TypeOK'
  BY <1>3, Constantes, DureesType DEF Chiffrer, Lue, Entendue
<1>4. ASSUME NEW s \in Sessions, Quitter(s)
      PROVE  TypeOK'
  BY <1>4, Constantes, DureesType DEF Quitter, EnService, Lue, Avancer
<1>5. ASSUME NEW s \in Sessions, NEW b \in BOOLEAN, Authentifier(s, b)
      PROVE  TypeOK'
  BY <1>5, Constantes, DureesType DEF Authentifier, Lue
<1>6. ASSUME NEW s \in Sessions, NEW b \in BOOLEAN, Repondre(s, b)
      PROVE  TypeOK'
  <2>1. etat' \in [Sessions -> Etats] /\ silence' \in [Sessions -> Nat]
        /\ lueA' \in [Sessions -> Cadences \cup {0}]
        /\ battement' \in [Sessions -> Cadences \cup {0}]
        /\ muet' \in [Sessions -> Nat]
        /\ bout' \in [Sessions -> BOOLEAN]
    BY <1>6, Constantes DEF Repondre, Lue, Entendue
  <2>2. apprise' \in [Machines -> Cadences \cup {0}]
    BY <1>6, Constantes DEF Repondre
  <2>3. /\ tours' \in [Sessions -> 0..MaxTours]
        /\ depuis' \in [Sessions -> Cadences \cup {0}]
        /\ ligne' \in [Machines -> Nat \cup {-1}]
    <3>1. CASE b
      <4>1. /\ tours' = [tours EXCEPT ![s] = ToursAZero]
            /\ depuis' = [depuis EXCEPT ![s] = cadence]
            /\ ligne' = [ligne EXCEPT ![De[s]] = Validite(cadence)]
        BY <1>6, <3>1 DEF Repondre
      <4>2. Validite(cadence) \in Nat
        BY Constantes, DureesType
      <4>3. ToursAZero \in 0..MaxTours
        BY Constantes DEF ToursAZero
      <4>4. QED
        BY <4>1, <4>2, <4>3
    <3>2. CASE ~b
      BY <1>6, <3>2 DEF Repondre
    <3>3. QED
      BY <1>6, <3>1, <3>2
  <2>4. QED
    BY <1>6, <2>1, <2>2, <2>3 DEF Repondre
<1>7. ASSUME NEW s \in Sessions, Perdre(s)
      PROVE  TypeOK'
  BY <1>7, Constantes, DureesType DEF Perdre
<1>8. ASSUME NEW s \in Sessions, Monter(s)
      PROVE  TypeOK'
  BY <1>8, Constantes, DureesType DEF Monter, EnService, Lue
<1>9. ASSUME NEW s \in Sessions, Couper(s)
      PROVE  TypeOK'
  BY <1>9, Constantes, DureesType DEF Couper, Morte
<1>10. ASSUME NEW s \in Sessions, Rompue(s)
      PROVE  TypeOK'
  BY <1>10, Constantes, DureesType DEF Rompue, Retiree
<1>11. ASSUME NEW s \in Sessions, EcheanceLue(s)
      PROVE  TypeOK'
  BY <1>11, Constantes, DureesType DEF EcheanceLue, Retiree
<1>12. ASSUME NEW s \in Sessions, FermerParAgent(s)
      PROVE  TypeOK'
  BY <1>12, Constantes, DureesType DEF FermerParAgent, Morte
<1>13. ASSUME NEW s \in Sessions, NEW p \in Fermeurs, Constater(p, s)
      PROVE  TypeOK'
  BY <1>13, Constantes, DureesType DEF Constater, Avancer
<1>14. ASSUME NEW s \in Sessions, NEW p \in Fermeurs, Retirer(p, s)
      PROVE  TypeOK'
  BY <1>14, Constantes, DureesType DEF Retirer, Retiree, Avancer
<1>15. ASSUME NEW s \in Sessions, NEW p \in Fermeurs, NEW b \in BOOLEAN, Effacer(p, s, b)
      PROVE  TypeOK'
  BY <1>15, Constantes, DureesType DEF Effacer, Avancer
<1>16. ASSUME NEW m \in Machines, Disparaitre(m)
      PROVE  TypeOK'
  BY <1>16, Constantes, DureesType DEF Disparaitre
<1>17. ASSUME NEW m \in Machines, Purger(m)
      PROVE  TypeOK'
  BY <1>17, Constantes, DureesType DEF Purger
<1>18. CASE Battre
  BY <1>18, Constantes, DureesType DEF Battre
<1>19. CASE Lister
  BY <1>19, Constantes, DureesType DEF Lister
<1>20. CASE FinDeTour
  BY <1>20, Constantes, DureesType DEF FinDeTour
<1>21. CASE BalayerPoignees
  <2>1. etapes' \in [Fermeurs -> [Sessions -> Etapes]]
    <3>1. PICK f : etapes' = [etapes EXCEPT !["poignees"] = f]
                   /\ f = [s \in Sessions |->
                            IF etat[s] \in {"poignee", "sure"} /\ silence[s] > DelaiPoignee
                            THEN "oublier" ELSE etapes["poignees"][s]]
      BY <1>21 DEF BalayerPoignees
    <3>2. etapes["poignees"] \in [Sessions -> Etapes]
      BY DEF Fermeurs
    <3>3. f \in [Sessions -> Etapes]
      BY <3>1, <3>2
    <3>4. QED
      BY <3>1, <3>3
  <2>2. QED
    BY <1>21, <2>1, Constantes DEF BalayerPoignees
<1>22. ASSUME NEW c \in Cadences, Regler(c)
      PROVE  TypeOK'
  BY <1>22, Constantes, DureesType DEF Regler
<1>23. CASE Tick
  BY <1>23, Constantes, DureesType DEF Tick
<1>24. CASE UNCHANGED vars
  BY <1>24 DEF vars
<1>25. QED
  BY <1>1, <1>2, <1>3, <1>4, <1>5, <1>6, <1>7, <1>8, <1>9, <1>10, <1>11, <1>12, <1>13, <1>14, <1>15, <1>16, <1>17, <1>18, <1>19, <1>20, <1>21, <1>22, <1>23, <1>24 DEF Next, Fermeture

(* The registry, the table of connections and the clocks stay well formed. *)
THEOREM TypeCorrect == Spec => []TypeOK
<1>1. Init => TypeOK
  BY TypeInit
<1>2. TypeOK /\ [Next]_vars => TypeOK'
  BY TypeSuite
<1>3. QED
  BY <1>1, <1>2, PTL DEF Spec

-----------------------------------------------------------------------------
(* Unfinished handshakes. What the sweep has not listed yet is younger than *)
(* the delay, plus the time since the sweep; what it has listed does not    *)
(* grow older.                                                              *)
Poignees ==
  /\ \A s \in Sessions : etapes["poignees"][s] \in {"non", "oublier"}
  /\ \A s \in Sessions : etat[s] = "libre" => silence[s] = 0
  /\ \A s \in Sessions : etat[s] \in {"poignee", "sure"} =>
       \/ silence[s] <= DelaiPoignee + PeriodePoignees - balayage
       \/ /\ etapes["poignees"][s] = "oublier"
          /\ silence[s] <= DelaiPoignee + PeriodePoignees

(* Every step keeps the handshakes young or listed.                         *)
LEMMA PoigneesSuite ==
  ASSUME TypeOK, Poignees, [Next]_vars
  PROVE  Poignees'
<1> USE DEF TypeOK, Poignees, boucle, coeur, agent, Fermeurs
<1>1. ASSUME NEW s \in Sessions, Ouvrir(s)
      PROVE  Poignees'
  BY <1>1, Constantes DEF Ouvrir
<1>2. ASSUME NEW s \in Sessions, Negocier(s)
      PROVE  Poignees'
  BY <1>2, Constantes DEF Negocier, Lue, Entendue
<1>3. ASSUME NEW s \in Sessions, Chiffrer(s)
      PROVE  Poignees'
  BY <1>3, Constantes DEF Chiffrer, Lue, Entendue
<1>4. ASSUME NEW s \in Sessions, Quitter(s)
      PROVE  Poignees'
  BY <1>4, Constantes DEF Quitter, EnService, Lue, Avancer
<1>5. ASSUME NEW s \in Sessions, NEW b \in BOOLEAN, Authentifier(s, b)
      PROVE  Poignees'
  BY <1>5, Constantes DEF Authentifier, Lue
<1>6. ASSUME NEW s \in Sessions, NEW b \in BOOLEAN, Repondre(s, b)
      PROVE  Poignees'
  BY <1>6, Constantes DEF Repondre, EnService, Lue, Entendue, ToursAZero
<1>7. ASSUME NEW s \in Sessions, Perdre(s)
      PROVE  Poignees'
  BY <1>7, Constantes DEF Perdre
<1>8. ASSUME NEW s \in Sessions, Monter(s)
      PROVE  Poignees'
  BY <1>8, Constantes DEF Monter, EnService, Lue
<1>9. ASSUME NEW s \in Sessions, Couper(s)
      PROVE  Poignees'
  BY <1>9, Constantes DEF Couper, Morte
<1>10. ASSUME NEW s \in Sessions, Rompue(s)
      PROVE  Poignees'
  BY <1>10, Constantes DEF Rompue, Retiree
<1>11. ASSUME NEW s \in Sessions, EcheanceLue(s)
      PROVE  Poignees'
  BY <1>11, Constantes DEF EcheanceLue, Retiree
<1>12. ASSUME NEW s \in Sessions, FermerParAgent(s)
      PROVE  Poignees'
  BY <1>12, Constantes DEF FermerParAgent, Morte
<1>13. ASSUME NEW s \in Sessions, NEW p \in Fermeurs, Constater(p, s)
      PROVE  Poignees'
  BY <1>13, Constantes DEF Constater, Avancer
<1>14. ASSUME NEW s \in Sessions, NEW p \in Fermeurs, Retirer(p, s)
      PROVE  Poignees'
  BY <1>14, Constantes DEF Retirer, Retiree, Avancer
<1>15. ASSUME NEW s \in Sessions, NEW p \in Fermeurs, NEW b \in BOOLEAN, Effacer(p, s, b)
      PROVE  Poignees'
  BY <1>15, Constantes DEF Effacer, Avancer
<1>16. ASSUME NEW m \in Machines, Disparaitre(m)
      PROVE  Poignees'
  BY <1>16, Constantes DEF Disparaitre
<1>17. ASSUME NEW m \in Machines, Purger(m)
      PROVE  Poignees'
  BY <1>17, Constantes DEF Purger
<1>18. CASE Battre
  BY <1>18, Constantes DEF Battre
<1>19. CASE Lister
  BY <1>19, Constantes DEF Lister
<1>20. CASE FinDeTour
  BY <1>20, Constantes DEF FinDeTour
<1>21. CASE BalayerPoignees
  BY <1>21, Constantes DEF BalayerPoignees
<1>22. ASSUME NEW c \in Cadences, Regler(c)
      PROVE  Poignees'
  BY <1>22, Constantes DEF Regler
<1>23. CASE Tick
  BY <1>23, Constantes DEF Tick
<1>24. CASE UNCHANGED vars
  BY <1>24 DEF vars
<1>25. QED
  BY <1>1, <1>2, <1>3, <1>4, <1>5, <1>6, <1>7, <1>8, <1>9, <1>10, <1>11, <1>12, <1>13, <1>14, <1>15, <1>16, <1>17, <1>18, <1>19, <1>20, <1>21, <1>22, <1>23, <1>24 DEF Next, Fermeture

(* An unfinished handshake does not stay silent longer than its delay and  *)
(* one period of its sweep, whatever the cadence of the online check.      *)
THEOREM PoigneeCorrecte == Spec => []PoigneeBornee
<1>1. Init => TypeOK /\ Poignees
  BY TypeInit, Constantes DEF Init, Poignees, Fermeurs
<1>2. TypeOK /\ Poignees /\ [Next]_vars => (TypeOK /\ Poignees)'
  BY TypeSuite, PoigneesSuite
<1>3. TypeOK /\ Poignees => PoigneeBornee
  BY Constantes DEF TypeOK, Poignees, PoigneeBornee
<1>4. QED
  BY <1>1, <1>2, <1>3, PTL DEF Spec

-----------------------------------------------------------------------------
(* Tunnels. The setting is not lowered: what the loop, the deadlines and   *)
(* the rows have used is then at most the setting of now.                  *)
Ordre ==
  /\ sommeil <= cadence
  /\ phase # "dort" => reveil <= 0
  /\ \A s \in Sessions : depuis[s] <= lueA[s] /\ lueA[s] <= cadence
  /\ \A s \in Sessions : etat[s] # "auth" => depuis[s] = 0

(* Every step keeps the values in use below the setting.                    *)
LEMMA OrdreSuite ==
  ASSUME ~Baisse, TypeOK, Ordre, [Next]_vars
  PROVE  Ordre'
<1> USE DEF TypeOK, Ordre, boucle, coeur, agent
<1>1. ASSUME NEW s \in Sessions, Ouvrir(s)
      PROVE  Ordre'
  BY <1>1, Constantes DEF Ouvrir
<1>2. ASSUME NEW s \in Sessions, Negocier(s)
      PROVE  Ordre'
  BY <1>2, Constantes DEF Negocier, Lue, Entendue
<1>3. ASSUME NEW s \in Sessions, Chiffrer(s)
      PROVE  Ordre'
  BY <1>3, Constantes DEF Chiffrer, Lue, Entendue
<1>4. ASSUME NEW s \in Sessions, Quitter(s)
      PROVE  Ordre'
  BY <1>4, Constantes DEF Quitter, EnService, Lue, Avancer
<1>5. ASSUME NEW s \in Sessions, NEW b \in BOOLEAN, Authentifier(s, b)
      PROVE  Ordre'
  BY <1>5, Constantes DEF Authentifier, Lue
<1>6. ASSUME NEW s \in Sessions, NEW b \in BOOLEAN, Repondre(s, b)
      PROVE  Ordre'
  BY <1>6, Constantes DEF Repondre, EnService, Lue, Entendue, ToursAZero
<1>7. ASSUME NEW s \in Sessions, Perdre(s)
      PROVE  Ordre'
  BY <1>7, Constantes DEF Perdre
<1>8. ASSUME NEW s \in Sessions, Monter(s)
      PROVE  Ordre'
  BY <1>8, Constantes DEF Monter, EnService, Lue
<1>9. ASSUME NEW s \in Sessions, Couper(s)
      PROVE  Ordre'
  BY <1>9, Constantes DEF Couper, Morte
<1>10. ASSUME NEW s \in Sessions, Rompue(s)
      PROVE  Ordre'
  BY <1>10, Constantes DEF Rompue, Retiree
<1>11. ASSUME NEW s \in Sessions, EcheanceLue(s)
      PROVE  Ordre'
  BY <1>11, Constantes DEF EcheanceLue, Retiree
<1>12. ASSUME NEW s \in Sessions, FermerParAgent(s)
      PROVE  Ordre'
  BY <1>12, Constantes DEF FermerParAgent, Morte
<1>13. ASSUME NEW s \in Sessions, NEW p \in Fermeurs, Constater(p, s)
      PROVE  Ordre'
  BY <1>13, Constantes DEF Constater, Avancer
<1>14. ASSUME NEW s \in Sessions, NEW p \in Fermeurs, Retirer(p, s)
      PROVE  Ordre'
  BY <1>14, Constantes DEF Retirer, Retiree, Avancer
<1>15. ASSUME NEW s \in Sessions, NEW p \in Fermeurs, NEW b \in BOOLEAN, Effacer(p, s, b)
      PROVE  Ordre'
  BY <1>15, Constantes DEF Effacer, Avancer
<1>16. ASSUME NEW m \in Machines, Disparaitre(m)
      PROVE  Ordre'
  BY <1>16, Constantes DEF Disparaitre
<1>17. ASSUME NEW m \in Machines, Purger(m)
      PROVE  Ordre'
  BY <1>17, Constantes DEF Purger
<1>18. CASE Battre
  BY <1>18, Constantes DEF Battre
<1>19. CASE Lister
  BY <1>19, Constantes DEF Lister
<1>20. CASE FinDeTour
  BY <1>20, Constantes DEF FinDeTour
<1>21. CASE BalayerPoignees
  BY <1>21, Constantes DEF BalayerPoignees
<1>22. ASSUME NEW c \in Cadences, Regler(c)
      PROVE  Ordre'
  BY <1>22, Constantes DEF Regler
<1>23. CASE Tick
  BY <1>23, Constantes DEF Tick
<1>24. CASE UNCHANGED vars
  BY <1>24 DEF vars
<1>25. QED
  BY <1>1, <1>2, <1>3, <1>4, <1>5, <1>6, <1>7, <1>8, <1>9, <1>10, <1>11, <1>12, <1>13, <1>14, <1>15, <1>16, <1>17, <1>18, <1>19, <1>20, <1>21, <1>22, <1>23, <1>24 DEF Next, Fermeture

(* The time since the last recorded answer, from the number of times the   *)
(* loop slept since: each sleep lasts the period and a lateness at most.   *)
Ecoule(s) ==
  (CASE tours[s] = 0 -> 0
     [] tours[s] = 1 -> sommeil + Retard
     [] OTHER -> 2 * (sommeil + Retard)) - reveil

AJour(s) == etat[s] = "auth" /\ tours[s] <= 2 /\ depuis[s] >= sommeil

(* No clock of a tunnel is ahead of that time.                             *)
Silences ==
  \A s \in Sessions : AJour(s) => silence[s] <= Ecoule(s) /\ muet[s] <= Ecoule(s)

(* Its row has lost no more than that time since it was renewed.           *)
Lignes ==
  \A s \in Sessions : AJour(s) =>
    ligne[De[s]] = -1 \/ ligne[De[s]] >= Validite(depuis[s]) - Ecoule(s)

(* Every step keeps the clocks of a tunnel within that time.                *)
LEMMA SilencesSuite ==
  ASSUME ~Baisse, TypeOK, Ordre, Silences, [Next]_vars
  PROVE  Silences'
<1> USE DEF TypeOK, Ordre, Silences, AJour, Ecoule, boucle, coeur, agent
<1>1. ASSUME NEW s \in Sessions, Ouvrir(s)
      PROVE  Silences'
  BY <1>1, Constantes DEF Ouvrir
<1>2. ASSUME NEW s \in Sessions, Negocier(s)
      PROVE  Silences'
  BY <1>2, Constantes DEF Negocier, Lue, Entendue
<1>3. ASSUME NEW s \in Sessions, Chiffrer(s)
      PROVE  Silences'
  BY <1>3, Constantes DEF Chiffrer, Lue, Entendue
<1>4. ASSUME NEW s \in Sessions, Quitter(s)
      PROVE  Silences'
  BY <1>4, Constantes DEF Quitter, EnService, Lue, Avancer
<1>5. ASSUME NEW s \in Sessions, NEW b \in BOOLEAN, Authentifier(s, b)
      PROVE  Silences'
  BY <1>5, Constantes DEF Authentifier, Lue
<1>6. ASSUME NEW s \in Sessions, NEW b \in BOOLEAN, Repondre(s, b)
      PROVE  Silences'
  BY <1>6, Constantes DEF Repondre, EnService, Lue, Entendue, ToursAZero
<1>7. ASSUME NEW s \in Sessions, Perdre(s)
      PROVE  Silences'
  BY <1>7, Constantes DEF Perdre
<1>8. ASSUME NEW s \in Sessions, Monter(s)
      PROVE  Silences'
  BY <1>8, Constantes DEF Monter, EnService, Lue
<1>9. ASSUME NEW s \in Sessions, Couper(s)
      PROVE  Silences'
  BY <1>9, Constantes DEF Couper, Morte
<1>10. ASSUME NEW s \in Sessions, Rompue(s)
      PROVE  Silences'
  BY <1>10, Constantes DEF Rompue, Retiree
<1>11. ASSUME NEW s \in Sessions, EcheanceLue(s)
      PROVE  Silences'
  BY <1>11, Constantes DEF EcheanceLue, Retiree
<1>12. ASSUME NEW s \in Sessions, FermerParAgent(s)
      PROVE  Silences'
  BY <1>12, Constantes DEF FermerParAgent, Morte
<1>13. ASSUME NEW s \in Sessions, NEW p \in Fermeurs, Constater(p, s)
      PROVE  Silences'
  BY <1>13, Constantes DEF Constater, Avancer
<1>14. ASSUME NEW s \in Sessions, NEW p \in Fermeurs, Retirer(p, s)
      PROVE  Silences'
  BY <1>14, Constantes DEF Retirer, Retiree, Avancer
<1>15. ASSUME NEW s \in Sessions, NEW p \in Fermeurs, NEW b \in BOOLEAN, Effacer(p, s, b)
      PROVE  Silences'
  BY <1>15, Constantes DEF Effacer, Avancer
<1>16. ASSUME NEW m \in Machines, Disparaitre(m)
      PROVE  Silences'
  BY <1>16, Constantes DEF Disparaitre
<1>17. ASSUME NEW m \in Machines, Purger(m)
      PROVE  Silences'
  BY <1>17, Constantes DEF Purger
<1>18. CASE Battre
  BY <1>18, Constantes DEF Battre
<1>19. CASE Lister
  BY <1>19, Constantes DEF Lister
<1>20. CASE FinDeTour
  BY <1>20, Constantes DEF FinDeTour
<1>21. CASE BalayerPoignees
  BY <1>21, Constantes DEF BalayerPoignees
<1>22. ASSUME NEW c \in Cadences, Regler(c)
      PROVE  Silences'
  BY <1>22, Constantes DEF Regler
<1>23. CASE Tick
  BY <1>23, Constantes DEF Tick
<1>24. CASE UNCHANGED vars
  BY <1>24 DEF vars
<1>25. QED
  BY <1>1, <1>2, <1>3, <1>4, <1>5, <1>6, <1>7, <1>8, <1>9, <1>10, <1>11, <1>12, <1>13, <1>14, <1>15, <1>16, <1>17, <1>18, <1>19, <1>20, <1>21, <1>22, <1>23, <1>24 DEF Next, Fermeture

(* Every step keeps the row of a tunnel within that time.                   *)
LEMMA LignesSuite ==
  ASSUME ~Baisse, TypeOK, Ordre, Silences, Lignes, [Next]_vars
  PROVE  Lignes'
<1> USE DEF TypeOK, Ordre, Silences, Lignes, AJour, Ecoule, boucle, coeur, agent
<1>1. ASSUME NEW s \in Sessions, Ouvrir(s)
      PROVE  Lignes'
  BY <1>1, Constantes DEF Ouvrir
<1>2. ASSUME NEW s \in Sessions, Negocier(s)
      PROVE  Lignes'
  BY <1>2, Constantes DEF Negocier, Lue, Entendue
<1>3. ASSUME NEW s \in Sessions, Chiffrer(s)
      PROVE  Lignes'
  BY <1>3, Constantes DEF Chiffrer, Lue, Entendue
<1>4. ASSUME NEW s \in Sessions, Quitter(s)
      PROVE  Lignes'
  BY <1>4, Constantes DEF Quitter, EnService, Lue, Avancer
<1>5. ASSUME NEW s \in Sessions, NEW b \in BOOLEAN, Authentifier(s, b)
      PROVE  Lignes'
  <2> SUFFICES ASSUME NEW t \in Sessions, AJour(t)'
               PROVE  (ligne[De[t]] = -1 \/ ligne[De[t]] >= Validite(depuis[t]) - Ecoule(t))'
    BY DEF Lignes
  <2>1. Ecoule(t)' = Ecoule(t) /\ depuis'[t] = depuis[t]
    BY <1>5 DEF Authentifier, Lue
  <2>2. CASE t = s
    <3>1. depuis[t] = 0
      BY <1>5, <2>2 DEF Authentifier
    <3>2. QED
      BY <1>5, <2>1, <2>2, <3>1, Constantes DEF Authentifier
  <2>3. CASE t # s
    <3>1. AJour(t)
      BY <1>5, <2>3 DEF Authentifier, Lue
    <3>2. /\ ligne[De[t]] = -1 \/ ligne[De[t]] >= Validite(depuis[t]) - Ecoule(t)
          /\ silence[t] <= Ecoule(t) /\ silence[t] \in Nat
      BY <3>1
    <3>3. Ecoule(t) \in Int
      BY Constantes, <3>1
    <3>4. /\ depuis[t] \in Nat /\ cadence \in Nat /\ depuis[t] <= cadence
          /\ Validite(depuis[t]) \in Nat /\ Validite(cadence) \in Nat
      BY Constantes, DureesType
    <3>5. Validite(cadence) >= Validite(depuis[t]) - Ecoule(t)
      <4>1. Validite(depuis[t]) <= Validite(cadence)
        BY <3>4, DureesCroissantes
      <4>2. QED
        BY <4>1, <3>2, <3>3, <3>4
    <3>6. CASE b /\ De[t] = De[s]
      <4>1. ligne'[De[t]] = Validite(cadence)
        BY <1>5, <3>6, Constantes DEF Authentifier
      <4>2. QED
        BY <2>1, <3>5, <4>1 DEF Validite
    <3>7. CASE ~(b /\ De[t] = De[s])
      <4>1. ligne'[De[t]] = ligne[De[t]]
        BY <1>5, <3>7, Constantes DEF Authentifier
      <4>2. QED
        BY <2>1, <3>2, <4>1 DEF Validite
    <3>8. QED
      BY <3>6, <3>7
  <2>4. QED
    BY <2>2, <2>3
<1>6. ASSUME NEW s \in Sessions, NEW b \in BOOLEAN, Repondre(s, b)
      PROVE  Lignes'
  <2> SUFFICES ASSUME NEW t \in Sessions, AJour(t)'
               PROVE  (ligne[De[t]] = -1 \/ ligne[De[t]] >= Validite(depuis[t]) - Ecoule(t))'
    BY DEF Lignes
  <2>1. CASE ~b
    <3>1. AJour(t) /\ Ecoule(t)' = Ecoule(t)
      BY <1>6, <2>1 DEF Repondre, Lue
    <3>2. QED
      BY <1>6, <2>1, <3>1 DEF Repondre
  <2>2. CASE b /\ t = s
    <3>1. Ecoule(t)' >= 0 /\ Ecoule(t)' \in Int
      BY <1>6, <2>2, Constantes DEF Repondre, ToursAZero, Phases
    <3>2. depuis'[t] = cadence /\ ligne'[De[t]] = Validite(cadence)
      <4>1. /\ depuis' = [depuis EXCEPT ![s] = cadence]
            /\ ligne' = [ligne EXCEPT ![De[s]] = Validite(cadence)]
        BY <1>6, <2>2 DEF Repondre
      <4>2. QED
        BY <2>2, <4>1, Constantes
    <3>3. Validite(cadence) \in Nat
      BY Constantes, DureesType
    <3>4. QED
      BY <3>1, <3>2, <3>3 DEF Validite
  <2>3. CASE b /\ t # s
    <3>1. AJour(t) /\ Ecoule(t)' = Ecoule(t) /\ depuis'[t] = depuis[t]
      BY <1>6, <2>3 DEF Repondre, Lue
    <3>2. /\ ligne[De[t]] = -1 \/ ligne[De[t]] >= Validite(depuis[t]) - Ecoule(t)
          /\ silence[t] <= Ecoule(t) /\ silence[t] \in Nat
      BY <3>1
    <3>3. Ecoule(t) \in Int
      BY Constantes, <3>1
    <3>4. /\ depuis[t] \in Nat /\ cadence \in Nat /\ depuis[t] <= cadence
          /\ Validite(depuis[t]) \in Nat /\ Validite(cadence) \in Nat
      BY Constantes, DureesType
    <3>5. Validite(depuis[t]) <= Validite(cadence)
      BY <3>4, DureesCroissantes
    <3>6. ligne' = [ligne EXCEPT ![De[s]] = Validite(cadence)]
      BY <1>6, <2>3 DEF Repondre
    <3>7. CASE De[t] = De[s]
      <4>1. ligne'[De[t]] = Validite(cadence)
        BY <3>6, <3>7, Constantes
      <4>2. QED
        BY <3>1, <3>2, <3>3, <3>4, <3>5, <4>1 DEF Validite
    <3>8. CASE De[t] # De[s]
      <4>1. ligne'[De[t]] = ligne[De[t]]
        BY <3>6, <3>8, Constantes
      <4>2. QED
        BY <3>1, <3>2, <4>1 DEF Validite
    <3>9. QED
      BY <3>7, <3>8
  <2>4. QED
    BY <1>6, <2>1, <2>2, <2>3
<1>7. ASSUME NEW s \in Sessions, Perdre(s)
      PROVE  Lignes'
  BY <1>7, Constantes DEF Perdre
<1>8. ASSUME NEW s \in Sessions, Monter(s)
      PROVE  Lignes'
  BY <1>8, Constantes DEF Monter, EnService, Lue
<1>9. ASSUME NEW s \in Sessions, Couper(s)
      PROVE  Lignes'
  BY <1>9, Constantes DEF Couper, Morte
<1>10. ASSUME NEW s \in Sessions, Rompue(s)
      PROVE  Lignes'
  BY <1>10, Constantes DEF Rompue, Retiree
<1>11. ASSUME NEW s \in Sessions, EcheanceLue(s)
      PROVE  Lignes'
  BY <1>11, Constantes DEF EcheanceLue, Retiree
<1>12. ASSUME NEW s \in Sessions, FermerParAgent(s)
      PROVE  Lignes'
  BY <1>12, Constantes DEF FermerParAgent, Morte
<1>13. ASSUME NEW s \in Sessions, NEW p \in Fermeurs, Constater(p, s)
      PROVE  Lignes'
  BY <1>13, Constantes DEF Constater, Avancer
<1>14. ASSUME NEW s \in Sessions, NEW p \in Fermeurs, Retirer(p, s)
      PROVE  Lignes'
  BY <1>14, Constantes DEF Retirer, Retiree, Avancer
<1>15. ASSUME NEW s \in Sessions, NEW p \in Fermeurs, NEW b \in BOOLEAN, Effacer(p, s, b)
      PROVE  Lignes'
  BY <1>15, Constantes DEF Effacer, Avancer
<1>16. ASSUME NEW m \in Machines, Disparaitre(m)
      PROVE  Lignes'
  BY <1>16, Constantes DEF Disparaitre
<1>17. ASSUME NEW m \in Machines, Purger(m)
      PROVE  Lignes'
  BY <1>17, Constantes DEF Purger
<1>18. CASE Battre
  BY <1>18, Constantes DEF Battre
<1>19. CASE Lister
  BY <1>19, Constantes DEF Lister
<1>20. CASE FinDeTour
  <2> SUFFICES ASSUME NEW t \in Sessions, AJour(t)'
               PROVE  (ligne[De[t]] = -1 \/ ligne[De[t]] >= Validite(depuis[t]) - Ecoule(t))'
    BY DEF Lignes
  <2>1. /\ tours' = [u \in Sessions |-> IF etat[u] = "auth" /\ tours[u] < MaxTours
                                           THEN tours[u] + 1 ELSE tours[u]]
        /\ depuis' = depuis /\ ligne' = ligne /\ etat' = etat
        /\ sommeil' = cadence /\ reveil' = cadence /\ phase = "ferme"
    BY <1>20 DEF FinDeTour
  <2>2. etat[t] = "auth" /\ tours'[t] <= 2 /\ tours[t] \in 0..MaxTours
    BY <2>1
  <2>3. tours[t] \in 0..1 /\ tours'[t] = tours[t] + 1
    BY <2>1, <2>2, Constantes
  <2>4. /\ tours[t] \in 0..1 /\ tours'[t] = tours[t] + 1
        /\ depuis'[t] = depuis[t] /\ ligne' = ligne /\ etat[t] = "auth"
        /\ sommeil <= cadence /\ cadence \in Nat /\ sommeil \in Nat /\ reveil <= 0
        /\ sommeil' = cadence /\ reveil' = cadence /\ depuis[t] >= cadence
    BY <2>1, <2>2, <2>3, Constantes
  <2>5. AJour(t) /\ depuis[t] \in Nat
    BY <2>4, Constantes
  <2>6. Ecoule(t) \in Int /\ Ecoule(t)' \in Int /\ Ecoule(t)' >= Ecoule(t)
    <3>1. reveil >= -Retard
      OBVIOUS
    <3>2. QED
      BY <2>4, <3>1, Constantes
  <2>7. Validite(depuis[t]) \in Nat
    BY <2>5, DureesType
  <2>8. ligne[De[t]] = -1 \/ ligne[De[t]] >= Validite(depuis[t]) - Ecoule(t)
    BY <2>5
  <2>9. ligne[De[t]] \in Int
    BY Constantes
  <2>10. QED
    BY <2>4, <2>6, <2>7, <2>8, <2>9 DEF Validite
<1>21. CASE BalayerPoignees
  BY <1>21, Constantes DEF BalayerPoignees
<1>22. ASSUME NEW c \in Cadences, Regler(c)
      PROVE  Lignes'
  BY <1>22, Constantes DEF Regler
<1>23. CASE Tick
  <2> SUFFICES ASSUME NEW t \in Sessions, AJour(t)'
               PROVE  (ligne[De[t]] = -1 \/ ligne[De[t]] >= Validite(depuis[t]) - Ecoule(t))'
    BY DEF Lignes
  <2>1. AJour(t) /\ depuis'[t] = depuis[t]
    BY <1>23 DEF Tick
  <2>2. Ecoule(t) \in Int /\ Ecoule(t)' = Ecoule(t) + 1
    BY <1>23, <2>1, Constantes DEF Tick
  <2>3. De[t] \in Machines
    BY Constantes
  <2>4. ligne[De[t]] \in Nat \cup {-1}
        /\ ligne'[De[t]] = IF ligne[De[t]] > 0 THEN ligne[De[t]] - 1 ELSE ligne[De[t]]
    BY <1>23, <2>3 DEF Tick
  <2>5. ligne[De[t]] = -1 \/ ligne[De[t]] >= Validite(depuis[t]) - Ecoule(t)
    BY <2>1
  <2>6. Validite(depuis[t]) \in Nat
    BY Constantes, DureesType
  <2>7. Validite(depuis[t])' = Validite(depuis[t])
    BY <2>1 DEF Validite, Tolerance, AuMoins
  <2>8. QED
    BY <2>2, <2>4, <2>5, <2>6, <2>7
<1>24. CASE UNCHANGED vars
  BY <1>24 DEF vars
<1>25. QED
  BY <1>1, <1>2, <1>3, <1>4, <1>5, <1>6, <1>7, <1>8, <1>9, <1>10, <1>11, <1>12, <1>13, <1>14, <1>15, <1>16, <1>17, <1>18, <1>19, <1>20, <1>21, <1>22, <1>23, <1>24 DEF Next, Fermeture

IInv == TypeOK /\ Ordre /\ Silences /\ Lignes

LEMMA IInvInductif == ASSUME ~Baisse PROVE Spec => []IInv
<1>1. Init => IInv
  BY TypeInit, Constantes
  DEF Init, IInv, Ordre, Silences, Lignes, AJour, TypeOK
<1>2. IInv /\ [Next]_vars => IInv'
  BY TypeSuite, OrdreSuite, SilencesSuite, LignesSuite DEF IInv
<1>3. QED
  BY <1>1, <1>2, PTL DEF Spec

(* No admitted cadence cuts a healthy tunnel, as long as the setting is    *)
(* not lowered: not the sweep, not the deadline of the read, not the agent.*)
THEOREM SaineCorrecte == ASSUME ~Baisse PROVE Spec => []SaineGardee
<1>1. IInv => SaineGardee
  <2> HAVE IInv
  <2> SUFFICES ASSUME NEW s \in Sessions, Saine(s)
               PROVE  /\ phase = "balaie" => ~Muette(s, Tolerance(cadence))
                      /\ silence[s] < Echeance(s)
                      /\ muet[s] <= DelaiDeFermeture(apprise[De[s]])
    BY DEF SaineGardee
  <2>1. /\ sommeil \in Nat /\ cadence \in Nat /\ sommeil > 0 /\ sommeil <= cadence
        /\ lueA[s] \in Nat /\ sommeil <= lueA[s]
        /\ apprise[De[s]] \in Nat /\ sommeil <= apprise[De[s]]
    BY Constantes DEF IInv, TypeOK, Ordre, Saine
  <2>2. silence[s] <= 2 * sommeil + 3 * Retard /\ muet[s] <= 2 * sommeil + 3 * Retard
    BY <2>1, Constantes DEF IInv, TypeOK, Silences, AJour, Ecoule, Saine, EnService
  <2>3. silence[s] < 2 * sommeil + Minute /\ muet[s] < 2 * sommeil + Minute
    BY <2>1, <2>2, Constantes DEF IInv, TypeOK
  <2>4. silence[s] \in Nat /\ muet[s] \in Nat /\ etat[s] = "auth"
    BY DEF IInv, TypeOK, Saine, EnService
  <2>5. silence[s] < Tolerance(cadence) /\ Tolerance(cadence) \in Nat
    BY <2>1, <2>3, <2>4, Constantes DEF Tolerance, AuMoins
  <2>6. ~Muette(s, Tolerance(cadence))
    BY <2>4, <2>5 DEF Muette
  <2>7. silence[s] < Echeance(s)
    BY <2>1, <2>3, <2>4, Constantes DEF Echeance, Tolerance, AuMoins
  <2>8. muet[s] <= DelaiDeFermeture(apprise[De[s]])
    BY <2>1, <2>3, <2>4, Constantes DEF DelaiDeFermeture, AuMoins
  <2>9. QED
    BY <2>6, <2>7, <2>8
<1>2. QED
  BY <1>1, IInvInductif, PTL

(* As long as the setting is not lowered, the row of a machine does not    *)
(* expire before its healthy tunnel.                                       *)
THEOREM LigneCorrecte == ASSUME ~Baisse PROVE Spec => []LigneSurvit
<1>1. IInv => LigneSurvit
  <2> HAVE IInv
  <2> SUFFICES ASSUME NEW s \in Sessions, Saine(s) PROVE ligne[De[s]] # 0
    BY DEF LigneSurvit
  <2>1. sommeil \in Nat /\ depuis[s] \in Nat /\ sommeil <= depuis[s]
    BY Constantes DEF IInv, TypeOK, Saine
  <2>2. Ecoule(s) \in Int /\ Ecoule(s) <= 2 * sommeil + 3 * Retard
    BY <2>1, Constantes DEF IInv, TypeOK, Ecoule, Saine
  <2>3. Validite(depuis[s]) \in Nat /\ Validite(depuis[s]) >= 2 * sommeil + Minute
    BY <2>1, Constantes DEF Validite, Tolerance, AuMoins
  <2>4. AJour(s)
    BY DEF AJour, Saine, EnService
  <2>5. QED
    BY <2>1, <2>2, <2>3, <2>4, Constantes DEF IInv, Lignes
<1>2. QED
  BY <1>1, IInvInductif, PTL
=============================================================================
