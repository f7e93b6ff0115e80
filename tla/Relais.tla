-------------------------------- MODULE Relais --------------------------------
(***************************************************************************)
(* One relay of a proxy: connections accepted under the caps of the        *)
(* setting in force, carried in two directions by two goroutines with a    *)
(* delay of inactivity each, and a setting replaced while they live.       *)
(*                                                                         *)
(* A connection is a slot, used again once it is over. Time is a clock     *)
(* whose ticks fire a deadline no later than its hour.                     *)
(***************************************************************************)
EXTENDS Integers, FiniteSets

CONSTANTS
  Connexions,   \* slots of connections
  Sources,      \* addresses the clients come from
  Reglages,     \* settings the relay may be given
  Defaut        \* the setting of the start

ASSUME ReglagesAssumption ==
  /\ Reglages \subseteq [max : Nat \ {0}, parSource : Nat \ {0}, inactivite : Nat \ {0}]
  /\ Defaut \in Reglages
  /\ \E r \in Reglages : \A q \in Reglages : q.inactivite <= r.inactivite

ASSUME ConnexionsAssumption == IsFiniteSet(Connexions) /\ Sources # {}

Sens == {"montant", "descendant"}
Autre(s) == IF s = "montant" THEN "descendant" ELSE "montant"
(* Longest inactivity of the instance.                                     *)
Attente == CHOOSE n \in {r.inactivite : r \in Reglages} : \A r \in Reglages : r.inactivite <= n

VARIABLES
  etat,        \* the setting in force (atomic pointer)
  cnx,         \* what each connection is doing
  actives,     \* Serveur.actives
  parSource,   \* Serveur.parSource
  vus          \* history: settings that have been in force

vars == <<etat, cnx, actives, parSource, vus>>

(* A direction: "ouvert", "fini" (its reader has met the end), "libre".    *)
Silence == 0..Attente
Absente == [pc |-> "absente", src |-> CHOOSE s \in Sources : TRUE, cfg |-> Defaut,
            sens |-> [s \in Sens |-> "libre"], silence |-> [s \in Sens |-> 0],
            coupe |-> "non"]

TypeOK ==
  /\ etat \in Reglages /\ vus \subseteq Reglages
  /\ actives \in 0..Cardinality(Connexions)
  /\ parSource \in [Sources -> 0..Cardinality(Connexions)]
  /\ cnx \in [Connexions ->
       [pc : {"absente", "lue", "prise", "relie"}, src : Sources, cfg : Reglages,
        sens : [Sens -> {"libre", "ouvert", "fini"}], silence : [Sens -> Silence],
        coupe : {"non", "erreur", "delai"}]]

Init ==
  /\ etat = Defaut /\ vus = {Defaut}
  /\ cnx = [c \in Connexions |-> Absente]
  /\ actives = 0
  /\ parSource = [s \in Sources |-> 0]

-----------------------------------------------------------------------------
(* Reconfigurer: for the connections to come.                              *)
Reconfigurer(r) ==
  /\ r # etat
  /\ etat' = r /\ vus' = vus \cup {r}
  /\ UNCHANGED <<cnx, actives, parSource>>

(* traiter reads the setting once, before it takes a place.                *)
Accepter(c, s) ==
  /\ cnx[c].pc = "absente"
  /\ cnx' = [cnx EXCEPT ![c] = [Absente EXCEPT !.pc = "lue", !.src = s, !.cfg = etat]]
  /\ UNCHANGED <<etat, actives, parSource, vus>>

(* Mutant of Plein. *)
Plein_strict(c) ==
  \/ actives > cnx[c].cfg.max
  \/ parSource[cnx[c].src] >= cnx[c].cfg.parSource

Plein(c) ==
  \/ actives >= cnx[c].cfg.max
  \/ parSource[cnx[c].src] >= cnx[c].cfg.parSource

(* Mutant of prendre. *)
prendre_avant(c) ==
  /\ cnx[c].pc = "lue"
  /\ parSource' = [parSource EXCEPT ![cnx[c].src] = @ + 1]
  /\ IF Plein(c)
       THEN cnx' = [cnx EXCEPT ![c] = Absente] /\ UNCHANGED actives
       ELSE cnx' = [cnx EXCEPT ![c].pc = "prise"] /\ actives' = actives + 1
  /\ UNCHANGED <<etat, vus>>

prendre(c) ==
  /\ cnx[c].pc = "lue"
  /\ IF Plein(c)
       THEN /\ cnx' = [cnx EXCEPT ![c] = Absente]
            /\ UNCHANGED <<actives, parSource>>
       ELSE /\ cnx' = [cnx EXCEPT ![c].pc = "prise"]
            /\ actives' = actives + 1
            /\ parSource' = [parSource EXCEPT ![cnx[c].src] = @ + 1]
  /\ UNCHANGED <<etat, vus>>

rendre(c) ==
  /\ actives' = actives - 1
  /\ parSource' = [parSource EXCEPT ![cnx[c].src] = IF @ <= 1 THEN 0 ELSE @ - 1]
  /\ cnx' = [cnx EXCEPT ![c] = Absente]

(* No target accepts, or its header cannot be written.                     *)
Refuser(c) ==
  /\ cnx[c].pc = "prise"
  /\ rendre(c)
  /\ UNCHANGED <<etat, vus>>

(* Mutant of joindre. *)
joindre_libre(c) ==
  /\ cnx[c].pc = "prise"
  /\ cnx' = [cnx EXCEPT ![c].pc = "relie", ![c].sens = [s \in Sens |-> "ouvert"],
                        ![c].silence = [s \in Sens |-> -1]]
  /\ UNCHANGED <<etat, actives, parSource, vus>>

joindre(c) ==
  /\ cnx[c].pc = "prise"
  /\ cnx' = [cnx EXCEPT ![c].pc = "relie", ![c].sens = [s \in Sens |-> "ouvert"]]
  /\ UNCHANGED <<etat, actives, parSource, vus>>

-----------------------------------------------------------------------------
(* copierAvecInactivite: bytes read in a direction put its deadline back.  *)
Lire(c, s) ==
  /\ cnx[c].pc = "relie" /\ cnx[c].sens[s] = "ouvert" /\ cnx[c].coupe = "non"
  /\ cnx[c].silence[s] > 0
  /\ cnx' = [cnx EXCEPT ![c].silence[s] = 0]
  /\ UNCHANGED <<etat, actives, parSource, vus>>

(* The end of a direction closes the writing side of the other end only.   *)
Finir(c, s) ==
  /\ cnx[c].pc = "relie" /\ cnx[c].sens[s] = "ouvert" /\ cnx[c].coupe = "non"
  /\ cnx' = [cnx EXCEPT ![c].sens[s] = "fini"]
  /\ UNCHANGED <<etat, actives, parSource, vus>>

(* A failure or the deadline closes both ends.                             *)
Echouer(c, s) ==
  /\ cnx[c].pc = "relie" /\ cnx[c].sens[s] = "ouvert" /\ cnx[c].coupe = "non"
  /\ cnx' = [cnx EXCEPT ![c].sens[s] = "fini", ![c].coupe = "erreur"]
  /\ UNCHANGED <<etat, actives, parSource, vus>>

Echu(c, s) == cnx[c].sens[s] = "ouvert" /\ cnx[c].silence[s] >= cnx[c].cfg.inactivite

Expirer(c, s) ==
  /\ cnx[c].pc = "relie" /\ cnx[c].coupe = "non" /\ Echu(c, s)
  /\ cnx' = [cnx EXCEPT ![c].sens[s] = "fini", ![c].coupe = "delai"]
  /\ UNCHANGED <<etat, actives, parSource, vus>>

(* Mutant of Debloquer. *)
Debloquer_duMontant(c, s) ==
  /\ cnx[c].pc = "relie" /\ cnx[c].sens[s] = "ouvert" /\ cnx[c].coupe # "non"
  /\ s = "montant"
  /\ cnx' = [cnx EXCEPT ![c].sens[s] = "fini"]
  /\ UNCHANGED <<etat, actives, parSource, vus>>

(* The other goroutine meets the closed ends.                              *)
Debloquer(c, s) ==
  /\ cnx[c].pc = "relie" /\ cnx[c].sens[s] = "ouvert" /\ cnx[c].coupe # "non"
  /\ cnx' = [cnx EXCEPT ![c].sens[s] = "fini"]
  /\ UNCHANGED <<etat, actives, parSource, vus>>

(* recopier returns when both goroutines have; traiter gives the place.    *)
recopier(c) ==
  /\ cnx[c].pc = "relie" /\ \A s \in Sens : cnx[c].sens[s] = "fini"
  /\ rendre(c)
  /\ UNCHANGED <<etat, vus>>

-----------------------------------------------------------------------------
(* A tick, which waits for the deadlines that have come.                   *)
Horloge ==
  /\ \A c \in Connexions, s \in Sens : cnx[c].pc = "relie" => ~Echu(c, s)
  /\ \E c \in Connexions : cnx[c].pc = "relie"
  /\ cnx' = [c \in Connexions |->
       IF cnx[c].pc # "relie" THEN cnx[c]
       ELSE [cnx[c] EXCEPT !.silence = [s \in Sens |->
               IF @[s] < Attente THEN @[s] + 1 ELSE @[s]]]]
  /\ UNCHANGED <<etat, actives, parSource, vus>>

Next ==
  \/ \E r \in Reglages : Reconfigurer(r)
  \/ \E c \in Connexions :
       \/ \E s \in Sources : Accepter(c, s)
       \/ prendre(c) \/ Refuser(c) \/ joindre(c) \/ recopier(c)
       \/ \E s \in Sens : Lire(c, s) \/ Finir(c, s) \/ Echouer(c, s) \/ Expirer(c, s)
                          \/ Debloquer(c, s)
  \/ Horloge

Fairness ==
  /\ WF_vars(Horloge)
  /\ \A c \in Connexions :
       /\ WF_vars(prendre(c)) /\ WF_vars(Refuser(c) \/ joindre(c)) /\ WF_vars(recopier(c))
       /\ \A s \in Sens : WF_vars(Expirer(c, s)) /\ WF_vars(Debloquer(c, s))

Spec == Init /\ [][Next]_vars
FairSpec == Spec /\ Fairness

-----------------------------------------------------------------------------
Tenues == {c \in Connexions : cnx[c].pc \in {"prise", "relie"}}

(* The counters of the relay are the connections that hold a place, under  *)
(* every path out of traiter; a count that drifts refuses for ever.        *)
ComptesJustes ==
  /\ actives = Cardinality(Tenues)
  /\ \A s \in Sources : parSource[s] = Cardinality({c \in Tenues : cnx[c].src = s})

(* Whatever the moment of a reconfiguration, the connections never exceed  *)
(* the largest cap that has been in force, in all and for a source.        *)
PlafondsTenus ==
  /\ \E r \in vus : actives <= r.max
  /\ \A s \in Sources : \E r \in vus : parSource[s] <= r.parSource

(* The counters and the caps of the relay, together (relais.go).           *)
RelaisTenu == TypeOK /\ ComptesJustes /\ PlafondsTenus

(* A connection one of whose goroutines has closed both ends gives its     *)
(* place back: the other goroutine cannot stay blocked on a dead end.      *)
PlaceRendue == \A c \in Connexions : cnx[c].coupe # "non" ~> cnx[c].pc = "absente"

-----------------------------------------------------------------------------
(* The documentation of inactivite_secondes: only a silent connection is   *)
(* closed by the delay, none that has just carried bytes.                  *)
SeuleLaMuetteEstFermee ==
  \A c \in Connexions : cnx[c].coupe = "delai" =>
    \A s \in Sens : cnx[c].sens[s] = "ouvert" => cnx[c].silence[s] > 0
=============================================================================
