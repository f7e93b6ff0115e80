---------------------------- MODULE Grappe_proof ----------------------------
(***************************************************************************)
(* Proofs about the run of the cluster, MCGrappe, for every value of its   *)
(* constants: the counters of a relay (Relais), the list of relays that a  *)
(* proxy applies (RelaisPilotes), the purges and the maintenance of the    *)
(* nodes (Maintenance).                                                    *)
(***************************************************************************)
EXTENDS MCGrappe, FiniteSetTheorems, TLAPS

-----------------------------------------------------------------------------
(***************************************************************************)
(* The connections of a relay: the counters are the connections that hold  *)
(* a place, and no reconfiguration lets more through than the largest cap  *)
(* ever in force.                                                          *)
(***************************************************************************)
De(s) == {c \in Tenues : cnx[c].src = s}

(* A connection is judged by a setting that has been in force: what        *)
(* traiter read is never newer nor older than the settings of this life.   *)
ReglageLu == etat \in vus /\ Defaut \in vus /\ \A c \in Connexions : cnx[c].cfg \in vus

IInv == RelaisTenu /\ ReglageLu

-----------------------------------------------------------------------------
(* The longest inactivity is a number of the settings.                     *)
LEMMA AttenteNat == Attente \in Nat /\ 0 \in Silence
<1>1. \E n \in {r.inactivite : r \in Reglages} : \A r \in Reglages : r.inactivite <= n
  BY ReglagesAssumption
<1>2. Attente \in {r.inactivite : r \in Reglages}
  BY <1>1 DEF Attente
<1> QED BY <1>2, ReglagesAssumption DEF Silence

(* A free slot is a connection.                                            *)
LEMMA AbsenteType ==
  Absente \in [pc : {"absente", "lue", "prise", "relie"}, src : Sources, cfg : Reglages,
               sens : [Sens -> {"libre", "ouvert", "fini"}], silence : [Sens -> Silence],
               coupe : {"non", "erreur", "delai"}]
<1>1. (CHOOSE s \in Sources : TRUE) \in Sources
  BY ConnexionsAssumption
<1> QED BY <1>1, AttenteNat, ReglagesAssumption DEF Absente

(* Connections are finite in number, and no more than there are slots.     *)
LEMMA PartiesFinies ==
  \A T \in SUBSET Connexions :
    IsFiniteSet(T) /\ Cardinality(T) \in 0..Cardinality(Connexions)
<1> SUFFICES ASSUME NEW T \in SUBSET Connexions
             PROVE  IsFiniteSet(T) /\ Cardinality(T) \in 0..Cardinality(Connexions)
  OBVIOUS
<1>1. IsFiniteSet(T) /\ Cardinality(T) <= Cardinality(Connexions)
  BY ConnexionsAssumption, FS_Subset
<1>2. Cardinality(T) \in Nat /\ Cardinality(Connexions) \in Nat
  BY <1>1, ConnexionsAssumption, FS_CardinalityType
<1> QED BY <1>1, <1>2

(* Those that hold a place are connections, in all and for a source.       *)
LEMMA TenuesFinies ==
  /\ IsFiniteSet(Tenues) /\ Cardinality(Tenues) \in 0..Cardinality(Connexions)
  /\ \A s \in Sources : IsFiniteSet(De(s)) /\ Cardinality(De(s)) \in 0..Cardinality(Connexions)
<1>1. Tenues \in SUBSET Connexions /\ \A s \in Sources : De(s) \in SUBSET Connexions
  BY DEF Tenues, De
<1> QED BY <1>1, PartiesFinies

-----------------------------------------------------------------------------
(* What the counters become when a place is taken or given back.           *)
LEMMA PlacePrise ==
  ASSUME TypeOK, ComptesJustes, NEW c \in Connexions, c \notin Tenues,
         Tenues' = Tenues \cup {c},
         \A d \in Tenues' : cnx'[d].src = cnx[d].src,
         actives' = actives + 1,
         parSource' = [parSource EXCEPT ![cnx[c].src] = @ + 1]
  PROVE  ComptesJustes'
<1>1. cnx[c].src \in Sources
  BY DEF TypeOK
<1>2. actives' = Cardinality(Tenues')
  BY TenuesFinies, FS_AddElement DEF ComptesJustes
<1>3. ASSUME NEW s \in Sources PROVE parSource'[s] = Cardinality(De(s)')
  <2>1. parSource[s] = Cardinality(De(s))
    BY DEF ComptesJustes, De
  <2>2. CASE s = cnx[c].src
    <3>1. De(s)' = De(s) \cup {c} /\ c \notin De(s)
      BY <2>2 DEF De
    <3>2. parSource'[s] = parSource[s] + 1
      BY <2>2, <1>1 DEF TypeOK
    <3> QED BY <3>1, <3>2, <2>1, TenuesFinies, FS_AddElement
  <2>3. CASE s # cnx[c].src
    <3>1. De(s)' = De(s)
      BY <2>3 DEF De
    <3>2. parSource'[s] = parSource[s]
      BY <2>3 DEF TypeOK
    <3> QED BY <3>1, <3>2, <2>1
  <2> QED BY <2>2, <2>3
<1> QED BY <1>2, <1>3 DEF ComptesJustes, De

LEMMA PlaceRenduePar ==
  ASSUME TypeOK, ComptesJustes, NEW c \in Connexions, c \in Tenues, rendre(c)
  PROVE  ComptesJustes'
<1>1. cnx[c].src \in Sources
  BY DEF TypeOK
<1>0. /\ cnx'[c].pc = "absente"
      /\ \A d \in Connexions : d # c => cnx'[d] = cnx[d]
  BY DEF rendre, TypeOK, Absente
<1>4. Tenues' = Tenues \ {c} /\ \A d \in Tenues' : cnx'[d] = cnx[d]
  BY <1>0 DEF Tenues
<1>2. actives' = Cardinality(Tenues')
  <2>1. actives' = actives - 1 /\ actives = Cardinality(Tenues)
    BY DEF rendre, ComptesJustes
  <2>2. Cardinality(Tenues \ {c}) = Cardinality(Tenues) - 1
    BY TenuesFinies, FS_RemoveElement
  <2> QED BY <1>4, <2>1, <2>2
<1>3. ASSUME NEW s \in Sources PROVE parSource'[s] = Cardinality(De(s)')
  <2>1. parSource[s] = Cardinality(De(s)) /\ parSource[s] \in Nat
    BY ConnexionsAssumption, FS_CardinalityType DEF ComptesJustes, De, TypeOK
  <2>2. CASE s = cnx[c].src
    <3>1. De(s)' = De(s) \ {c} /\ c \in De(s)
      BY <2>2, <1>4 DEF De
    <3>2. parSource'[s] = IF parSource[s] <= 1 THEN 0 ELSE parSource[s] - 1
      BY <2>2, <1>1 DEF TypeOK, rendre
    <3>3. Cardinality(De(s)) # 0
      BY <3>1, TenuesFinies, FS_EmptySet
    <3>4. Cardinality(De(s)') = Cardinality(De(s)) - 1
      BY <3>1, TenuesFinies, FS_RemoveElement
    <3> QED BY <3>2, <3>3, <3>4, <2>1
  <2>3. CASE s # cnx[c].src
    <3>1. De(s)' = De(s)
      BY <2>3, <1>4 DEF De
    <3>2. parSource'[s] = parSource[s]
      BY <2>3 DEF TypeOK, rendre
    <3> QED BY <3>1, <3>2, <2>1
  <2> QED BY <2>2, <2>3
<1> QED BY <1>2, <1>3 DEF ComptesJustes, De

-----------------------------------------------------------------------------
(* The steps that neither take nor give a place keep the slots that hold   *)
(* one and their sources; the counters stay what they count.               *)
LEMMA PlacesInchangees ==
  ASSUME ComptesJustes, Tenues' = Tenues,
         \A d \in Tenues : cnx'[d].src = cnx[d].src,
         actives' = actives, parSource' = parSource
  PROVE  ComptesJustes'
<1>1. \A s \in Sources : De(s)' = De(s)
  BY DEF De
<1> QED BY <1>1 DEF ComptesJustes, De

(* One goroutine's step on a connection that is relayed.                   *)
SurUnSens(c) ==
  \E s \in Sens : Lire(c, s) \/ Finir(c, s) \/ Echouer(c, s) \/ Expirer(c, s) \/ Debloquer(c, s)

(* It changes nothing but this connection, which stays relayed under the   *)
(* source and the setting it was accepted with.                            *)
LEMMA SensDeLaConnexion ==
  ASSUME TypeOK, NEW c \in Connexions, SurUnSens(c)
  PROVE  /\ UNCHANGED <<etat, actives, parSource, vus>>
         /\ \A d \in Connexions : /\ cnx'[d].pc = cnx[d].pc
                                  /\ cnx'[d].src = cnx[d].src /\ cnx'[d].cfg = cnx[d].cfg
         /\ TypeOK'
<1> SUFFICES ASSUME NEW s \in Sens,
                    Lire(c, s) \/ Finir(c, s) \/ Echouer(c, s) \/ Expirer(c, s) \/ Debloquer(c, s)
             PROVE  /\ UNCHANGED <<etat, actives, parSource, vus>>
                    /\ \A d \in Connexions : /\ cnx'[d].pc = cnx[d].pc
                                             /\ cnx'[d].src = cnx[d].src
                                             /\ cnx'[d].cfg = cnx[d].cfg
                    /\ TypeOK'
  BY DEF SurUnSens
<1> DEFINE finis == [cnx[c].sens EXCEPT ![s] = "fini"]
           lus == [cnx[c].silence EXCEPT ![s] = 0]
<1>1. /\ finis \in [Sens -> {"libre", "ouvert", "fini"}] /\ lus \in [Sens -> Silence]
      /\ cnx[c].sens \in [Sens -> {"libre", "ouvert", "fini"}]
      /\ cnx[c].silence \in [Sens -> Silence]
      /\ cnx[c].coupe \in {"non", "erreur", "delai"}
  BY AttenteNat DEF TypeOK
<1>2. /\ UNCHANGED <<etat, actives, parSource, vus>>
      /\ cnx' = [d \in Connexions |-> cnx'[d]]
      /\ \A d \in Connexions : d # c => cnx'[d] = cnx[d]
  BY DEF Lire, Finir, Echouer, Expirer, Debloquer, TypeOK
<1>3. \E se \in {finis, cnx[c].sens}, si \in {lus, cnx[c].silence},
        co \in {cnx[c].coupe, "erreur", "delai"} :
          cnx'[c] = [pc |-> cnx[c].pc, src |-> cnx[c].src, cfg |-> cnx[c].cfg,
                     sens |-> se, silence |-> si, coupe |-> co]
  <2>1. CASE Lire(c, s)
    BY <2>1 DEF Lire, TypeOK
  <2>2. CASE Finir(c, s) \/ Debloquer(c, s)
    BY <2>2 DEF Finir, Debloquer, TypeOK
  <2>3. CASE Echouer(c, s)
    BY <2>3 DEF Echouer, TypeOK
  <2>4. CASE Expirer(c, s)
    BY <2>4 DEF Expirer, TypeOK
  <2> QED BY <2>1, <2>2, <2>3, <2>4
<1> HIDE DEF finis, lus
<1>4. /\ cnx'[c].pc = cnx[c].pc /\ cnx'[c].src = cnx[c].src /\ cnx'[c].cfg = cnx[c].cfg
      /\ cnx'[c] \in [pc : {"absente", "lue", "prise", "relie"}, src : Sources, cfg : Reglages,
               sens : [Sens -> {"libre", "ouvert", "fini"}], silence : [Sens -> Silence],
               coupe : {"non", "erreur", "delai"}]
  BY <1>1, <1>3 DEF TypeOK
<1>5. TypeOK'
  BY <1>2, <1>4 DEF TypeOK
<1> QED BY <1>2, <1>4, <1>5

(* A tick moves the silences only.                                         *)
LEMMA TicDesConnexions ==
  ASSUME TypeOK, Horloge
  PROVE  /\ UNCHANGED <<etat, actives, parSource, vus>>
         /\ \A d \in Connexions : /\ cnx'[d].pc = cnx[d].pc
                                  /\ cnx'[d].src = cnx[d].src /\ cnx'[d].cfg = cnx[d].cfg
         /\ TypeOK'
<1>1. ASSUME NEW d \in Connexions
      PROVE  /\ cnx'[d].pc = cnx[d].pc
             /\ cnx'[d].src = cnx[d].src /\ cnx'[d].cfg = cnx[d].cfg
             /\ cnx'[d] \in [pc : {"absente", "lue", "prise", "relie"}, src : Sources, cfg : Reglages,
               sens : [Sens -> {"libre", "ouvert", "fini"}], silence : [Sens -> Silence],
               coupe : {"non", "erreur", "delai"}]
  <2> DEFINE tu == [s \in Sens |-> IF cnx[d].silence[s] < Attente
                                   THEN cnx[d].silence[s] + 1 ELSE cnx[d].silence[s]]
  <2>1. tu \in [Sens -> Silence]
    <3>1. \A s \in Sens : cnx[d].silence[s] \in 0..Attente
      BY DEF TypeOK, Silence
    <3> QED BY <3>1, AttenteNat DEF Silence
  <2>2. cnx'[d] = IF cnx[d].pc # "relie" THEN cnx[d] ELSE [cnx[d] EXCEPT !.silence = tu]
    BY DEF Horloge
  <2> HIDE DEF tu
  <2> QED BY <2>1, <2>2 DEF TypeOK
<1> QED BY <1>1 DEF Horloge, TypeOK

(* A place is taken under the caps of the setting the connection has read. *)
LEMMA PriseDePlace ==
  ASSUME TypeOK, ComptesJustes, NEW c \in Connexions, prendre(c)
  PROVE  ComptesJustes' /\ TypeOK'
<1>1. CASE Plein(c)
  <2>1. cnx' = [cnx EXCEPT ![c] = Absente] /\ UNCHANGED <<actives, parSource, etat, vus>>
    BY <1>1 DEF prendre
  <2>2. /\ cnx[c].pc = "lue" /\ cnx'[c].pc = "absente"
        /\ \A d \in Connexions : d # c => cnx'[d] = cnx[d]
    BY <2>1 DEF prendre, TypeOK, Absente
  <2>3. Tenues' = Tenues /\ \A d \in Tenues : cnx'[d].src = cnx[d].src
    BY <2>2 DEF Tenues
  <2>4. ComptesJustes'
    BY <2>1, <2>3, PlacesInchangees
  <2>5. TypeOK'
    BY <2>1, AbsenteType DEF TypeOK
  <2> QED BY <2>4, <2>5
<1>2. CASE ~Plein(c)
  <2>1. /\ cnx' = [cnx EXCEPT ![c].pc = "prise"] /\ UNCHANGED <<etat, vus>>
        /\ actives' = actives + 1
        /\ parSource' = [parSource EXCEPT ![cnx[c].src] = @ + 1]
    BY <1>2 DEF prendre
  <2>2. /\ cnx[c].pc = "lue" /\ cnx'[c].pc = "prise" /\ cnx'[c].src = cnx[c].src
        /\ \A d \in Connexions : d # c => cnx'[d] = cnx[d]
    BY <2>1 DEF prendre, TypeOK
  <2>3. Tenues' = Tenues \cup {c} /\ \A d \in Tenues' : cnx'[d].src = cnx[d].src
    BY <2>2 DEF Tenues
  <2>4. ComptesJustes'
    BY <2>1, <2>2, <2>3, PlacePrise DEF Tenues
  <2>5. actives' \in 0..Cardinality(Connexions)
    BY <2>4, PartiesFinies DEF ComptesJustes, Tenues
  <2>6. \A s \in Sources : parSource'[s] \in 0..Cardinality(Connexions)
    BY <2>4, PartiesFinies DEF ComptesJustes, Tenues
  <2>7. parSource' \in [Sources -> 0..Cardinality(Connexions)]
    BY <2>1, <2>6 DEF TypeOK
  <2>8. TypeOK'
    BY <2>1, <2>5, <2>7 DEF TypeOK
  <2> QED BY <2>4, <2>8
<1> QED BY <1>1, <1>2

(* It is given back whole, whichever way traiter returns.                  *)
LEMMA RetourDePlace ==
  ASSUME TypeOK, ComptesJustes, NEW c \in Connexions, Refuser(c) \/ recopier(c)
  PROVE  ComptesJustes' /\ TypeOK'
<1>1. c \in Tenues /\ rendre(c) /\ UNCHANGED <<etat, vus>>
  BY DEF Refuser, recopier, Tenues
<1>2. ComptesJustes'
  BY <1>1, PlaceRenduePar
<1>3. actives' \in 0..Cardinality(Connexions)
  BY <1>2, PartiesFinies DEF ComptesJustes, Tenues
<1>4. \A s \in Sources : parSource'[s] \in 0..Cardinality(Connexions)
  BY <1>2, PartiesFinies DEF ComptesJustes, Tenues
<1>5. parSource' \in [Sources -> 0..Cardinality(Connexions)]
  BY <1>1, <1>4 DEF TypeOK, rendre
<1>6. cnx' = [cnx EXCEPT ![c] = Absente]
  BY <1>1 DEF rendre
<1>7. TypeOK'
  BY <1>1, <1>3, <1>5, <1>6, AbsenteType DEF TypeOK
<1> QED BY <1>2, <1>7

(* The type of the state and the counters are kept by every step.          *)
LEMMA ComptesTenus ==
  ASSUME TypeOK, ComptesJustes, [Next]_vars
  PROVE  TypeOK' /\ ComptesJustes'
<1>1. ASSUME NEW r \in Reglages, Reconfigurer(r) PROVE TypeOK' /\ ComptesJustes'
  BY <1>1, PlacesInchangees DEF Reconfigurer, TypeOK, Tenues
<1>2. ASSUME NEW c \in Connexions, NEW s \in Sources, Accepter(c, s)
      PROVE  TypeOK' /\ ComptesJustes'
  <2> DEFINE lue == [Absente EXCEPT !.pc = "lue", !.src = s, !.cfg = etat]
  <2>1. /\ lue \in [pc : {"absente", "lue", "prise", "relie"}, src : Sources, cfg : Reglages,
               sens : [Sens -> {"libre", "ouvert", "fini"}], silence : [Sens -> Silence],
               coupe : {"non", "erreur", "delai"}]
        /\ lue.pc = "lue"
    BY AbsenteType DEF TypeOK
  <2>2. /\ cnx[c].pc = "absente" /\ cnx' = [cnx EXCEPT ![c] = lue]
        /\ UNCHANGED <<etat, actives, parSource, vus>>
    BY <1>2 DEF Accepter
  <2> HIDE DEF lue
  <2>3. TypeOK'
    BY <2>1, <2>2 DEF TypeOK
  <2>4. cnx'[c].pc = "lue" /\ \A d \in Connexions : d # c => cnx'[d] = cnx[d]
    BY <2>1, <2>2 DEF TypeOK
  <2>5. Tenues' = Tenues /\ \A d \in Tenues : cnx'[d].src = cnx[d].src
    BY <2>2, <2>4 DEF Tenues
  <2> QED BY <2>2, <2>3, <2>5, PlacesInchangees
<1>3. ASSUME NEW c \in Connexions, prendre(c) PROVE TypeOK' /\ ComptesJustes'
  BY <1>3, PriseDePlace
<1>4. ASSUME NEW c \in Connexions, Refuser(c) \/ recopier(c)
      PROVE  TypeOK' /\ ComptesJustes'
  BY <1>4, RetourDePlace
<1>5. ASSUME NEW c \in Connexions, joindre(c) PROVE TypeOK' /\ ComptesJustes'
  <2> DEFINE ouverts == [s \in Sens |-> "ouvert"]
  <2>4. ouverts \in [Sens -> {"libre", "ouvert", "fini"}]
    OBVIOUS
  <2> HIDE DEF ouverts
  <2>5. /\ cnx' = [cnx EXCEPT ![c].pc = "relie", ![c].sens = ouverts]
        /\ UNCHANGED <<etat, actives, parSource, vus>>
    BY <1>5 DEF joindre, ouverts
  <2>6. cnx'[c] = [pc |-> "relie", src |-> cnx[c].src, cfg |-> cnx[c].cfg, sens |-> ouverts,
                   silence |-> cnx[c].silence, coupe |-> cnx[c].coupe]
    BY <2>5 DEF TypeOK
  <2>7. \A d \in Connexions : d # c => cnx'[d] = cnx[d]
    BY <2>5 DEF TypeOK
  <2>8. cnx' = [d \in Connexions |-> cnx'[d]]
    BY <2>5 DEF TypeOK
  <2>1. TypeOK'
    BY <2>4, <2>5, <2>6, <2>7, <2>8 DEF TypeOK
  <2>2. /\ cnx[c].pc = "prise" /\ cnx'[c].pc = "relie" /\ cnx'[c].src = cnx[c].src
        /\ \A d \in Connexions : d # c => cnx'[d] = cnx[d]
        /\ UNCHANGED <<actives, parSource>>
    BY <1>5, <2>5 DEF joindre, TypeOK
  <2>3. Tenues' = Tenues /\ \A d \in Tenues : cnx'[d].src = cnx[d].src
    BY <2>2 DEF Tenues
  <2> QED BY <2>1, <2>2, <2>3, PlacesInchangees
<1>6. ASSUME NEW c \in Connexions, SurUnSens(c) PROVE TypeOK' /\ ComptesJustes'
  <2>1. Tenues' = Tenues /\ \A d \in Tenues : cnx'[d].src = cnx[d].src
    BY <1>6, SensDeLaConnexion DEF Tenues
  <2> QED BY <1>6, <2>1, SensDeLaConnexion, PlacesInchangees
<1>7. CASE Horloge
  <2>1. Tenues' = Tenues /\ \A d \in Tenues : cnx'[d].src = cnx[d].src
    BY <1>7, TicDesConnexions DEF Tenues
  <2> QED BY <1>7, <2>1, TicDesConnexions, PlacesInchangees
<1>8. CASE UNCHANGED vars
  BY <1>8, PlacesInchangees DEF vars, TypeOK, Tenues
<1> QED BY <1>1, <1>2, <1>3, <1>4, <1>5, <1>6, <1>7, <1>8 DEF Next, SurUnSens

-----------------------------------------------------------------------------
(* Every setting a connection carries has been in force.                   *)
LEMMA ReglageTenu ==
  ASSUME TypeOK, ReglageLu, [Next]_vars
  PROVE  ReglageLu' /\ vus \subseteq vus'
<1> USE DEF ReglageLu
<1>1. ASSUME NEW r \in Reglages, Reconfigurer(r) PROVE ReglageLu' /\ vus \subseteq vus'
  BY <1>1 DEF Reconfigurer
<1>2. ASSUME NEW c \in Connexions, NEW s \in Sources, Accepter(c, s)
      PROVE  ReglageLu' /\ vus \subseteq vus'
  <2>1. /\ cnx'[c].cfg = etat /\ \A d \in Connexions : d # c => cnx'[d] = cnx[d]
        /\ UNCHANGED <<etat, vus>>
    BY <1>2 DEF Accepter, TypeOK, Absente
  <2> QED BY <2>1
<1>3. ASSUME NEW c \in Connexions, cnx' = [cnx EXCEPT ![c] = Absente], UNCHANGED <<etat, vus>>
      PROVE  ReglageLu' /\ vus \subseteq vus'
  <2>1. cnx'[c].cfg = Defaut /\ \A d \in Connexions : d # c => cnx'[d] = cnx[d]
    BY <1>3 DEF TypeOK, Absente
  <2> QED BY <1>3, <2>1
<1>4. ASSUME UNCHANGED <<etat, vus>>, \A d \in Connexions : cnx'[d].cfg = cnx[d].cfg
      PROVE  ReglageLu' /\ vus \subseteq vus'
  BY <1>4
<1>5. ASSUME NEW c \in Connexions, prendre(c) PROVE ReglageLu' /\ vus \subseteq vus'
  <2>1. CASE Plein(c)
    BY <1>3, <1>5, <2>1 DEF prendre
  <2>2. CASE ~Plein(c)
    <3>1. \A d \in Connexions : cnx'[d].cfg = cnx[d].cfg
      BY <1>5, <2>2 DEF prendre, TypeOK
    <3> QED BY <1>4, <1>5, <3>1 DEF prendre
  <2> QED BY <2>1, <2>2
<1>6. ASSUME NEW c \in Connexions, Refuser(c) \/ recopier(c)
      PROVE  ReglageLu' /\ vus \subseteq vus'
  BY <1>3, <1>6 DEF Refuser, recopier, rendre
<1>7. ASSUME NEW c \in Connexions, joindre(c) PROVE ReglageLu' /\ vus \subseteq vus'
  <2>1. \A d \in Connexions : cnx'[d].cfg = cnx[d].cfg
    BY <1>7 DEF joindre, TypeOK
  <2> QED BY <1>4, <1>7, <2>1 DEF joindre
<1>8. ASSUME NEW c \in Connexions, SurUnSens(c) PROVE ReglageLu' /\ vus \subseteq vus'
  BY <1>4, <1>8, SensDeLaConnexion
<1>9. CASE Horloge
  BY <1>4, <1>9, TicDesConnexions
<1>10. CASE UNCHANGED vars
  BY <1>10 DEF vars
<1> QED BY <1>1, <1>2, <1>5, <1>6, <1>7, <1>8, <1>9, <1>10 DEF Next, SurUnSens

-----------------------------------------------------------------------------
(* No more places are held than before, by anybody, and the settings seen  *)
(* are seen for good: the caps are still held.                             *)
LEMMA PlafondsGardes ==
  ASSUME TypeOK, TypeOK', PlafondsTenus, vus \subseteq vus', actives' <= actives,
         \A s \in Sources : parSource'[s] <= parSource[s]
  PROVE  PlafondsTenus'
<1>1. \A r \in vus : r.max \in Nat /\ r.parSource \in Nat
  BY ReglagesAssumption DEF TypeOK
<1>2. actives \in Int /\ actives' \in Int
  BY ConnexionsAssumption, FS_CardinalityType DEF TypeOK
<1>3. \E r \in vus' : actives' <= r.max
  <2>1. PICK r \in vus : actives <= r.max
    BY DEF PlafondsTenus
  <2> QED BY <1>1, <1>2, <2>1
<1>4. ASSUME NEW s \in Sources PROVE \E r \in vus' : parSource'[s] <= r.parSource
  <2>1. PICK r \in vus : parSource[s] <= r.parSource
    BY DEF PlafondsTenus
  <2>2. parSource[s] \in Int /\ parSource'[s] \in Int
    BY ConnexionsAssumption, FS_CardinalityType DEF TypeOK
  <2> QED BY <1>1, <2>1, <2>2
<1> QED BY <1>3, <1>4 DEF PlafondsTenus

(* A place taken: the setting it was judged by allows one more, and that   *)
(* setting has been in force; the others of the relay are as they were.    *)
LEMMA PlafondsALaPrise ==
  ASSUME TypeOK, TypeOK', PlafondsTenus, ReglageLu, NEW c \in Connexions, prendre(c)
  PROVE  PlafondsTenus'
<1>1. CASE Plein(c)
  <2>1. actives' = actives /\ parSource' = parSource /\ vus' = vus
    BY <1>1 DEF prendre
  <2> QED BY <2>1 DEF PlafondsTenus
<1>2. CASE ~Plein(c)
  <2>1. /\ actives' = actives + 1 /\ vus' = vus
        /\ parSource' = [parSource EXCEPT ![cnx[c].src] = @ + 1]
    BY <1>2 DEF prendre
  <2>2. cnx[c].cfg \in vus /\ cnx[c].src \in Sources
    BY DEF ReglageLu, TypeOK
  <2>3. cnx[c].cfg.max \in Nat /\ cnx[c].cfg.parSource \in Nat
    BY <2>2, ReglagesAssumption DEF TypeOK
  <2>4. actives \in Int /\ \A s \in Sources : parSource[s] \in Int
    BY ConnexionsAssumption, FS_CardinalityType DEF TypeOK
  <2>5. actives' <= cnx[c].cfg.max
    BY <1>2, <2>1, <2>3, <2>4 DEF Plein
  <2>6. ASSUME NEW s \in Sources PROVE \E r \in vus' : parSource'[s] <= r.parSource
    <3>1. CASE s = cnx[c].src
      <4>1. parSource'[s] = parSource[s] + 1
        BY <2>1, <3>1 DEF TypeOK
      <4>2. parSource'[s] <= cnx[c].cfg.parSource
        BY <1>2, <2>2, <2>3, <2>4, <3>1, <4>1 DEF Plein
      <4> QED BY <2>1, <2>2, <4>2
    <3>2. CASE s # cnx[c].src
      <4>1. parSource'[s] = parSource[s]
        BY <2>1, <3>2 DEF TypeOK
      <4> QED BY <2>1, <4>1 DEF PlafondsTenus
    <3> QED BY <3>1, <3>2
  <2> QED BY <2>1, <2>2, <2>5, <2>6 DEF PlafondsTenus
<1> QED BY <1>1, <1>2

(* A place given back lowers the counters, or leaves them.                 *)
LEMMA PlafondsAuRetour ==
  ASSUME TypeOK, TypeOK', PlafondsTenus, vus' = vus, NEW c \in Connexions, rendre(c)
  PROVE  PlafondsTenus'
<1>1. /\ actives' = actives - 1
      /\ parSource' = [parSource EXCEPT ![cnx[c].src] = IF @ <= 1 THEN 0 ELSE @ - 1]
  BY DEF rendre
<1>2. actives \in Int /\ \A s \in Sources : parSource[s] \in Nat
  BY ConnexionsAssumption, FS_CardinalityType DEF TypeOK
<1>3. \A s \in Sources : parSource'[s] <= parSource[s]
  BY <1>1, <1>2 DEF TypeOK
<1> QED BY <1>1, <1>2, <1>3, PlafondsGardes

(* The caps are held by every step.                                        *)
LEMMA PlafondsTenusParUnPas ==
  ASSUME TypeOK, TypeOK', PlafondsTenus, ReglageLu, vus \subseteq vus', [Next]_vars
  PROVE  PlafondsTenus'
<1>1. ASSUME UNCHANGED <<actives, parSource>> PROVE PlafondsTenus'
  BY <1>1 DEF PlafondsTenus
<1>2. ASSUME NEW c \in Connexions, Refuser(c) \/ recopier(c) PROVE PlafondsTenus'
  BY <1>2, PlafondsAuRetour DEF Refuser, recopier
<1>3. ASSUME NEW c \in Connexions, prendre(c) PROVE PlafondsTenus'
  BY <1>3, PlafondsALaPrise
<1>4. ASSUME NEW c \in Connexions, SurUnSens(c) PROVE PlafondsTenus'
  BY <1>1, <1>4, SensDeLaConnexion
<1>5. CASE Horloge
  BY <1>1, <1>5, TicDesConnexions
<1>6. ASSUME NEW r \in Reglages, Reconfigurer(r) PROVE PlafondsTenus'
  BY <1>1, <1>6 DEF Reconfigurer
<1>7. ASSUME NEW c \in Connexions, NEW s \in Sources, Accepter(c, s) PROVE PlafondsTenus'
  BY <1>1, <1>7 DEF Accepter
<1>8. ASSUME NEW c \in Connexions, joindre(c) PROVE PlafondsTenus'
  BY <1>1, <1>8 DEF joindre
<1>9. CASE UNCHANGED vars
  BY <1>1, <1>9 DEF vars
<1> QED BY <1>2, <1>3, <1>4, <1>5, <1>6, <1>7, <1>8, <1>9 DEF Next, SurUnSens

-----------------------------------------------------------------------------
(* The relay starts with no connection, no place taken and one setting.    *)
LEMMA DepartTenu == Init => IInv
<1> SUFFICES ASSUME Init PROVE IInv
  OBVIOUS
<1>1. TypeOK
  BY AbsenteType, ReglagesAssumption, ConnexionsAssumption, FS_CardinalityType
     DEF Init, TypeOK
<1>2. Tenues = {} /\ \A s \in Sources : De(s) = {}
  BY DEF Init, Tenues, De, Absente
<1>3. ComptesJustes
  BY <1>2, FS_EmptySet DEF Init, ComptesJustes, De
<1>4. PlafondsTenus
  BY ReglagesAssumption DEF Init, PlafondsTenus
<1>5. ReglageLu
  BY DEF Init, ReglageLu, Absente
<1> QED BY <1>1, <1>3, <1>4, <1>5 DEF IInv, RelaisTenu

(* For every set of connections, of sources and of settings: the counters  *)
(* of traiter are the connections that hold a place, by every way out of   *)
(* it, and neither count is over the largest cap that has been in force,   *)
(* however the setting is replaced under the connections (relais.go).      *)
THEOREM RelaisCorrect == Spec => []RelaisTenu
<1>1. IInv /\ [Next]_vars => IInv'
  BY ComptesTenus, ReglageTenu, PlafondsTenusParUnPas DEF IInv, RelaisTenu
<1>2. IInv => RelaisTenu
  BY DEF IInv
<1> QED BY DepartTenu, <1>1, <1>2, PTL DEF Spec

(* The setting a connection is judged by and timed by is one the relay has *)
(* had, the default's included: never one composed of two of them.         *)
THEOREM ReglageJamaisInvente == Spec => []ReglageLu
<1>1. IInv /\ [Next]_vars => IInv'
  BY ComptesTenus, ReglageTenu, PlafondsTenusParUnPas DEF IInv, RelaisTenu
<1>2. IInv => ReglageLu
  BY DEF IInv
<1> QED BY DepartTenu, <1>1, <1>2, PTL DEF Spec

-----------------------------------------------------------------------------
(***************************************************************************)
(* The piloted relays.                                                     *)
(***************************************************************************)
UnRelais == [nom : {"ducky", "https"}, port : Ports]
UnProxy == [vit : BOOLEAN, annonce : Annonces, origine : {"core", "fichier"},
            revision : 0..MaxRevision, refusee : 0..MaxRevision,
            demande : R!Listes, parc : R!Listes]
UnCompteRendu == [origine : {"aucun", "core", "fichier"}, revision : 0..MaxRevision,
                  refusee : 0..MaxRevision, annonce : Annonces \cup {0}, actifs : R!Listes]
UnOrdre == [mode : {"core", "fichier"}, revision : 0..MaxRevision, liste : R!Listes]
UnFil == [pc : {"repos", "base", "ecrire", "pousser", "etat", "liste"}, vu : UnCompteRendu,
          pilote : BOOLEAN, revision : 0..MaxRevision, liste : R!Listes]

PilotesTypes ==
  /\ base \in [pilote : BOOLEAN, revision : 0..MaxRevision, liste : R!Listes]
  /\ inscrit \in BOOLEAN /\ lien \in BOOLEAN /\ oublis \in Nat
  /\ proxy \in UnProxy
  /\ copie \in [revision : 0..MaxRevision, liste : R!Listes]
  /\ pris \subseteq Empruntables
  /\ fil \in [R!Fils -> UnFil] /\ rapport \in UnCompteRendu
  /\ montants \subseteq UnCompteRendu /\ IsFiniteSet(montants)
  /\ Cardinality(montants) <= MaxRapports
  /\ descendants \subseteq UnOrdre /\ IsFiniteSet(descendants)
  /\ Cardinality(descendants) <= MaxMessages

(* What x, under its revision, says of the list of the row b: it is older, *)
(* or it is this list.                                                     *)
Fidele(rev, l, b) == rev <= b.revision /\ (rev = b.revision => l = b.liste)

(* Revisions only grow as long as the node is not forgotten: what the      *)
(* proxy, its copy and the messages hold under the present one is the list *)
(* of the row, and what a goroutine has read is not newer.                 *)
Revisions ==
  /\ base.revision = 0 => base.liste = {}
  /\ proxy.revision <= base.revision
  /\ proxy.origine = "core" => Fidele(proxy.revision, proxy.demande, base)
  /\ Fidele(copie.revision, copie.liste, base)
  /\ \A m \in descendants : m.mode = "core" => Fidele(m.revision, m.liste, base)
  /\ \A f \in R!Fils : fil[f].revision <= base.revision

PilotesSuivis == PilotesTypes /\ R!DuckyToujoursOuvert /\ (oublis = 0 => Revisions)

-----------------------------------------------------------------------------
(* The modules instantiated here count as this one does.                   *)
LEMMA Cardinaux == \A S : R!Cardinality(S) = Cardinality(S) /\ M!Cardinality(S) = Cardinality(S)
BY DEF R!Cardinality, M!Cardinality, Cardinality

LEMMA Finis == \A S : R!IsFiniteSet(S) = IsFiniteSet(S) /\ M!IsFiniteSet(S) = IsFiniteSet(S)
BY DEF R!IsFiniteSet, M!IsFiniteSet, IsFiniteSet

LEMMA BornesPilotes ==
  /\ MaxRevision \in Nat /\ MaxRapports \in Nat /\ MaxMessages \in Nat
  /\ Annonces \subseteq Ports /\ Empruntables \subseteq Ports
BY BornesDesPilotes DEF R!BornesAssumption

(* Lists: the Ducky relay alone, a part of a list, what a list becomes.    *)
LEMMA ListeDucky ==
  /\ {} \in R!Listes
  /\ \A p \in Ports : R!Ducky(p) \in R!Listes /\ R!Relai("ducky", p) \in R!Ducky(p)
BY DEF R!Listes, R!Ducky, R!Relai

LEMMA ListeTriee ==
  ASSUME NEW l \in R!Listes, NEW a
  PROVE  /\ R!Trier(l, a) \in R!Listes
         /\ \A r \in R!Trier(l, a) : r.nom = "ducky" => r = R!Relai("ducky", a)
<1>1. R!Trier(l, a) \subseteq l /\ l \subseteq UnRelais
  BY DEF R!Trier, R!Listes, UnRelais
<1>2. \A r \in R!Trier(l, a) : r.nom = "ducky" => r = R!Relai("ducky", a)
  BY <1>1 DEF R!Trier, UnRelais, R!Relai
<1>3. R!Trier(l, a) \in R!Listes
  BY <1>1 DEF R!Listes
<1> QED BY <1>2, <1>3

(* Two relays of a list have two names and two ports, after Parc too.      *)
LEMMA ListeOuverte ==
  ASSUME NEW l \in R!Listes, NEW parc \in R!Listes
  PROVE  R!Parc(l, parc) \in R!Listes
<1> DEFINE gardes == {a \in parc : \E r \in l : r.nom = a.nom}
           ouverts == {r \in l : r \in gardes \/ ~R!Occupe(r, gardes)}
           restes == {a \in gardes : \E r \in l : r.nom = a.nom /\ r # a /\ R!Occupe(r, gardes)}
<1>1. R!Parc(l, parc) = ouverts \cup restes
  BY DEF R!Parc
<1>2. /\ l \subseteq UnRelais /\ parc \subseteq UnRelais
      /\ \A r, s \in l : r # s => r.nom # s.nom /\ r.port # s.port
      /\ \A r, s \in parc : r # s => r.nom # s.nom /\ r.port # s.port
  BY DEF R!Listes, UnRelais
<1>3. ouverts \subseteq l /\ restes \subseteq gardes /\ gardes \subseteq parc
  OBVIOUS
<1>4. ASSUME NEW r \in ouverts, NEW s \in restes, r # s
      PROVE  r.nom # s.nom /\ r.port # s.port
  <2>1. PICK t \in l : t.nom = s.nom /\ t # s /\ R!Occupe(t, gardes)
    OBVIOUS
  <2>2. r.nom # s.nom
    BY <1>2, <1>3, <1>4, <2>1
  <2>3. r.port # s.port
    <3>1. CASE r \in gardes
      BY <1>2, <1>3, <1>4, <3>1
    <3>2. CASE ~R!Occupe(r, gardes)
      BY <1>3, <2>2, <3>2 DEF R!Occupe
    <3> QED BY <3>1, <3>2
  <2> QED BY <2>2, <2>3
<1>5. \A r, s \in ouverts \cup restes : r # s => r.nom # s.nom /\ r.port # s.port
  BY <1>2, <1>3, <1>4
<1>6. ouverts \cup restes \in SUBSET UnRelais
  BY <1>2, <1>3
<1> QED BY <1>1, <1>5, <1>6 DEF R!Listes, UnRelais

(* The Ducky relay that listens on the announced port keeps listening.     *)
LEMMA DuckyGarde ==
  ASSUME NEW l, NEW parc, NEW d, d \in l, d \in parc
  PROVE  d \in R!Parc(l, parc)
BY DEF R!Parc

LEMMA ParcDansLaListe ==
  ASSUME NEW l
  PROVE  R!Parc(l, {}) \subseteq l
BY DEF R!Parc

-----------------------------------------------------------------------------
(* A report added to those on their way.                                   *)
LEMMA CompteRendu ==
  ASSUME NEW p \in UnProxy, lien \in BOOLEAN, montants \subseteq UnCompteRendu, IsFiniteSet(montants),
         Cardinality(montants) <= MaxRapports, R!rendreCompte(p)
  PROVE  /\ montants' \subseteq UnCompteRendu /\ IsFiniteSet(montants')
         /\ Cardinality(montants') <= MaxRapports
<1> DEFINE x == R!Rapport(p)
<1>1. x \in UnCompteRendu
  BY DEF R!Rapport, UnCompteRendu, UnProxy
<1>2. \/ montants' = montants
      \/ montants' = montants \cup {x} /\ Cardinality(montants) < MaxRapports
  BY Cardinaux DEF R!rendreCompte
<1> HIDE DEF x
<1>3. CASE montants' = montants
  BY <1>3
<1>4. CASE montants' = montants \cup {x} /\ Cardinality(montants) < MaxRapports
  <2>1. Cardinality(montants) \in Nat
    BY FS_CardinalityType
  <2>2. IsFiniteSet(montants \cup {x})
        /\ Cardinality(montants \cup {x}) \in {Cardinality(montants), Cardinality(montants) + 1}
    BY FS_AddElement
  <2> QED BY <1>1, <1>4, <2>1, <2>2, BornesPilotes
<1> QED BY <1>2, <1>3, <1>4

(* A set of messages loses some.                                           *)
LEMMA MoinsDeMessages ==
  ASSUME NEW S, NEW N, IsFiniteSet(S), NEW n \in Nat, Cardinality(S) <= n, N \subseteq S
  PROVE  IsFiniteSet(N) /\ Cardinality(N) <= n
<1>1. IsFiniteSet(N) /\ Cardinality(N) <= Cardinality(S)
      /\ Cardinality(S) \in Nat /\ Cardinality(N) \in Nat
  BY FS_Subset, FS_CardinalityType
<1> QED BY <1>1

(* A list of the core is applied, or not: what becomes of the proxy and of *)
(* its copy.                                                               *)
LEMMA ListeDuCore ==
  ASSUME PilotesSuivis, NEW m \in descendants, m.mode = "core", proxy.vit, R!appliquerDuCore(m)
  PROVE  /\ proxy' \in UnProxy /\ copie' \in [revision : 0..MaxRevision, liste : R!Listes]
         /\ proxy'.vit /\ R!Relai("ducky", proxy'.annonce) \in proxy'.parc
         /\ oublis = 0 =>
              /\ proxy'.revision <= base.revision
              /\ proxy'.origine = "core" => Fidele(proxy'.revision, proxy'.demande, base)
              /\ Fidele(copie'.revision, copie'.liste, base)
<1>1. /\ proxy \in UnProxy /\ m \in UnOrdre /\ copie \in [revision : 0..MaxRevision, liste : R!Listes]
      /\ R!Relai("ducky", proxy.annonce) \in proxy.parc
  BY DEF PilotesSuivis, PilotesTypes, R!DuckyToujoursOuvert
<1>2. oublis = 0 => Fidele(m.revision, m.liste, base) /\ Revisions
  BY DEF PilotesSuivis, Revisions
<1> DEFINE l == R!Trier(m.liste, proxy.annonce)
<1>3. CASE UNCHANGED <<proxy, copie>>
  BY <1>1, <1>2, <1>3 DEF Revisions
<1>4. CASE proxy' = [proxy EXCEPT !.refusee = m.revision] /\ UNCHANGED copie
  BY <1>1, <1>2, <1>4 DEF Revisions, UnProxy, UnOrdre
<1>5. CASE /\ R!PorteUnRelaisDucky(l)
           /\ proxy' = [proxy EXCEPT !.origine = "core", !.revision = m.revision, !.refusee = 0,
                          !.demande = m.liste, !.parc = R!Parc(l, proxy.parc)]
           /\ R!garderCopie([revision |-> m.revision, liste |-> m.liste])
  <2>1. m.liste \in R!Listes /\ proxy.parc \in R!Listes /\ m.revision \in 0..MaxRevision
    BY <1>1 DEF UnOrdre, UnProxy
  <2>2. l \in R!Listes /\ R!Relai("ducky", proxy.annonce) \in l
    BY <1>5, <2>1, ListeTriee DEF R!PorteUnRelaisDucky
  <2> DEFINE q == R!Parc(l, proxy.parc)
  <2>3. q \in R!Listes /\ R!Relai("ducky", proxy.annonce) \in q
    BY <1>1, <2>1, <2>2, ListeOuverte, DuckyGarde
  <2>4. proxy' = [proxy EXCEPT !.origine = "core", !.revision = m.revision, !.refusee = 0,
                          !.demande = m.liste, !.parc = q]
    BY <1>5
  <2> HIDE DEF q, l
  <2>5. /\ proxy'.vit /\ proxy'.annonce = proxy.annonce /\ proxy'.parc = q
        /\ proxy'.revision = m.revision /\ proxy'.demande = m.liste /\ proxy' \in UnProxy
    <3> DEFINE x1 == [proxy EXCEPT !.origine = "core"]
               x2 == [x1 EXCEPT !.revision = m.revision]
               x3 == [x2 EXCEPT !.refusee = 0]
               x4 == [x3 EXCEPT !.demande = m.liste]
               x5 == [x4 EXCEPT !.parc = q]
    <3>0. proxy' = x5 /\ 0 \in 0..MaxRevision
      BY <2>4, BornesPilotes
    <3>1. x1 \in UnProxy /\ x1.vit = proxy.vit /\ x1.annonce = proxy.annonce
          /\ x1.origine = "core"
      BY <1>1, <2>1, <2>3 DEF UnProxy
    <3> HIDE DEF x1
    <3>2. x2 \in UnProxy /\ x2.vit = proxy.vit /\ x2.annonce = proxy.annonce
          /\ x2.origine = "core" /\ x2.revision = m.revision
      BY <3>0, <3>1, <2>1, <2>3 DEF UnProxy
    <3> HIDE DEF x2
    <3>3. x3 \in UnProxy /\ x3.vit = proxy.vit /\ x3.annonce = proxy.annonce
          /\ x3.origine = "core" /\ x3.revision = m.revision
      BY <3>0, <3>2, <2>1, <2>3 DEF UnProxy
    <3> HIDE DEF x3
    <3>4. x4 \in UnProxy /\ x4.vit = proxy.vit /\ x4.annonce = proxy.annonce
          /\ x4.origine = "core" /\ x4.revision = m.revision /\ x4.demande = m.liste
      BY <3>0, <3>3, <2>1, <2>3 DEF UnProxy
    <3> HIDE DEF x4
    <3>5. x5 \in UnProxy /\ x5.vit = proxy.vit /\ x5.annonce = proxy.annonce
          /\ x5.origine = "core" /\ x5.revision = m.revision /\ x5.demande = m.liste /\ x5.parc = q
      BY <3>0, <3>4, <2>1, <2>3 DEF UnProxy
    <3> HIDE DEF x5
    <3> QED BY <1>1, <3>0, <3>5
  <2>6. copie' = copie \/ copie' = [revision |-> m.revision, liste |-> m.liste]
    BY <1>5 DEF R!garderCopie
  <2>7. /\ copie' \in [revision : 0..MaxRevision, liste : R!Listes]
        /\ oublis = 0 => Fidele(copie'.revision, copie'.liste, base)
    BY <1>1, <1>2, <2>1, <2>6 DEF Revisions
  <2> QED BY <1>2, <2>3, <2>5, <2>7 DEF Fidele
<1> QED BY <1>3, <1>4, <1>5 DEF R!appliquerDuCore

(* The proxy goes back to its file.                                        *)
LEMMA RetourAuFichier ==
  ASSUME PilotesSuivis, proxy.vit, R!revenirAuFichier
  PROVE  /\ proxy' \in UnProxy /\ copie' \in [revision : 0..MaxRevision, liste : R!Listes]
         /\ proxy'.vit /\ R!Relai("ducky", proxy'.annonce) \in proxy'.parc
         /\ oublis = 0 =>
              /\ proxy'.revision <= base.revision
              /\ proxy'.origine = "core" => Fidele(proxy'.revision, proxy'.demande, base)
              /\ Fidele(copie'.revision, copie'.liste, base)
<1>1. /\ proxy \in UnProxy /\ copie \in [revision : 0..MaxRevision, liste : R!Listes]
      /\ base.revision \in 0..MaxRevision
      /\ R!Relai("ducky", proxy.annonce) \in proxy.parc
  BY DEF PilotesSuivis, PilotesTypes, R!DuckyToujoursOuvert
<1>2. oublis = 0 => Revisions
  BY DEF PilotesSuivis
<1>3. CASE UNCHANGED <<proxy, copie>>
  BY <1>1, <1>2, <1>3 DEF Revisions
<1> DEFINE l == R!Ducky(proxy.annonce)
           q == R!Parc(l, proxy.parc)
<1>4. CASE /\ proxy' = [proxy EXCEPT !.origine = "fichier", !.revision = 0, !.refusee = 0,
                          !.demande = l, !.parc = q]
           /\ R!garderCopie([revision |-> 0, liste |-> {}])
  <2>1. proxy.annonce \in Ports /\ proxy.parc \in R!Listes
    BY <1>1, BornesPilotes DEF UnProxy
  <2>2. l \in R!Listes /\ R!Relai("ducky", proxy.annonce) \in l
    BY <2>1, ListeDucky
  <2>3. q \in R!Listes /\ R!Relai("ducky", proxy.annonce) \in q
    BY <1>1, <2>1, <2>2, ListeOuverte, DuckyGarde
  <2> HIDE DEF q, l
  <2>4. /\ proxy'.vit /\ proxy'.annonce = proxy.annonce /\ proxy'.parc = q
        /\ proxy'.revision = 0 /\ proxy'.origine = "fichier" /\ proxy' \in UnProxy
    <3> DEFINE x1 == [proxy EXCEPT !.origine = "fichier"]
               x2 == [x1 EXCEPT !.revision = 0]
               x3 == [x2 EXCEPT !.refusee = 0]
               x4 == [x3 EXCEPT !.demande = l]
               x5 == [x4 EXCEPT !.parc = q]
    <3>0. proxy' = x5 /\ 0 \in 0..MaxRevision
      BY <1>4, BornesPilotes
    <3>1. x1 \in UnProxy /\ x1.vit = proxy.vit /\ x1.annonce = proxy.annonce
          /\ x1.origine = "fichier"
      BY <1>1, <2>2, <2>3 DEF UnProxy
    <3> HIDE DEF x1
    <3>2. x2 \in UnProxy /\ x2.vit = proxy.vit /\ x2.annonce = proxy.annonce
          /\ x2.origine = "fichier" /\ x2.revision = 0
      BY <3>0, <3>1, <2>2, <2>3 DEF UnProxy
    <3> HIDE DEF x2
    <3>3. x3 \in UnProxy /\ x3.vit = proxy.vit /\ x3.annonce = proxy.annonce
          /\ x3.origine = "fichier" /\ x3.revision = 0
      BY <3>0, <3>2, <2>2, <2>3 DEF UnProxy
    <3> HIDE DEF x3
    <3>4. x4 \in UnProxy /\ x4.vit = proxy.vit /\ x4.annonce = proxy.annonce
          /\ x4.origine = "fichier" /\ x4.revision = 0 /\ x4.demande = l
      BY <3>0, <3>3, <2>2, <2>3 DEF UnProxy
    <3> HIDE DEF x4
    <3>5. x5 \in UnProxy /\ x5.vit = proxy.vit /\ x5.annonce = proxy.annonce
          /\ x5.origine = "fichier" /\ x5.revision = 0 /\ x5.demande = l /\ x5.parc = q
      BY <3>0, <3>4, <2>2, <2>3 DEF UnProxy
    <3> HIDE DEF x5
    <3> QED BY <1>1, <3>0, <3>5
  <2>5. copie' = copie \/ copie' = [revision |-> 0, liste |-> {}]
    BY <1>4 DEF R!garderCopie
  <2>6. /\ copie' \in [revision : 0..MaxRevision, liste : R!Listes]
        /\ oublis = 0 => Fidele(copie'.revision, copie'.liste, base)
    <3>1. CASE copie' = copie
      BY <1>1, <1>2, <3>1 DEF Revisions
    <3>2. CASE copie' = [revision |-> 0, liste |-> {}]
      <4>1. copie'.revision = 0 /\ copie'.liste = {}
        BY <3>2
      <4>2. copie' \in [revision : 0..MaxRevision, liste : R!Listes]
        BY <3>2, ListeDucky, BornesPilotes
      <4> QED BY <1>1, <1>2, <4>1, <4>2, BornesPilotes DEF Revisions, Fidele
    <3> QED BY <2>5, <3>1, <3>2
  <2> QED BY <1>1, <2>3, <2>4, <2>6
<1> QED BY <1>3, <1>4 DEF R!revenirAuFichier

-----------------------------------------------------------------------------
LEMMA PilotesDepart == R!Init => PilotesSuivis
<1> SUFFICES ASSUME R!Init PROVE PilotesSuivis
  OBVIOUS
<1>1. PICK a \in Annonces :
        proxy = [vit |-> TRUE, annonce |-> a, origine |-> "fichier", revision |-> 0,
                 refusee |-> 0, demande |-> R!Ducky(a), parc |-> R!Ducky(a)]
  BY DEF R!Init
<1>2. R!Ducky(a) \in R!Listes /\ R!Relai("ducky", a) \in R!Ducky(a) /\ {} \in R!Listes
  BY ListeDucky, BornesPilotes
<1>3. proxy \in UnProxy /\ R!DuckyToujoursOuvert /\ proxy.revision = 0 /\ proxy.origine = "fichier"
  BY <1>1, <1>2, BornesPilotes DEF UnProxy, R!DuckyToujoursOuvert
<1>4. R!SansRapport \in UnCompteRendu /\ R!Inerte \in UnFil /\ R!Inerte.revision = 0
  BY <1>2, BornesPilotes DEF R!SansRapport, R!Inerte, UnCompteRendu, UnFil
<1>5. /\ base = [pilote |-> FALSE, revision |-> 0, liste |-> {}]
      /\ rapport = R!SansRapport /\ inscrit = TRUE /\ lien = TRUE /\ oublis = 0
      /\ copie = [revision |-> 0, liste |-> {}]
      /\ pris = {} /\ montants = {} /\ descendants = {}
      /\ fil = [f \in R!Fils |-> R!Inerte]
  BY DEF R!Init
<1>6. IsFiniteSet({}) /\ Cardinality({}) = 0
  BY FS_EmptySet
<1>7. PilotesTypes
  BY <1>2, <1>3, <1>4, <1>5, <1>6, BornesPilotes DEF PilotesTypes
<1>8. Revisions
  BY <1>3, <1>4, <1>5 DEF Revisions, Fidele
<1> QED BY <1>3, <1>7, <1>8 DEF PilotesSuivis

(* A list reaches the proxy.                                               *)
LEMMA PasConfiguration ==
  ASSUME PilotesSuivis, NEW m \in descendants, R!surConfiguration(m)
  PROVE  PilotesSuivis'
<1>1. /\ proxy.vit /\ descendants' = descendants \ {m} /\ R!rendreCompte(proxy')
      /\ UNCHANGED <<base, rapport, inscrit, pris, fil, lien, oublis>>
  BY DEF R!surConfiguration
<1>2. PilotesTypes /\ m \in UnOrdre
  BY DEF PilotesSuivis, PilotesTypes
<1>3. /\ proxy' \in UnProxy /\ copie' \in [revision : 0..MaxRevision, liste : R!Listes]
      /\ proxy'.vit /\ R!Relai("ducky", proxy'.annonce) \in proxy'.parc
      /\ oublis = 0 =>
           /\ proxy'.revision <= base.revision
           /\ proxy'.origine = "core" => Fidele(proxy'.revision, proxy'.demande, base)
           /\ Fidele(copie'.revision, copie'.liste, base)
  <2>1. CASE m.mode = "core"
    BY <1>1, <2>1, ListeDuCore DEF R!surConfiguration
  <2>2. CASE m.mode # "core"
    BY <1>1, <2>2, RetourAuFichier DEF R!surConfiguration
  <2> QED BY <2>1, <2>2
<1>4. montants' \subseteq UnCompteRendu /\ IsFiniteSet(montants')
      /\ Cardinality(montants') <= MaxRapports
  BY <1>1, <1>2, <1>3, CompteRendu DEF PilotesTypes
<1>5. descendants' \subseteq UnOrdre /\ IsFiniteSet(descendants')
      /\ Cardinality(descendants') <= MaxMessages
  BY <1>1, <1>2, MoinsDeMessages, BornesPilotes DEF PilotesTypes
<1>6. PilotesTypes'
  BY <1>1, <1>2, <1>3, <1>4, <1>5 DEF PilotesTypes
<1>7. R!DuckyToujoursOuvert'
  BY <1>3 DEF R!DuckyToujoursOuvert
<1>8. oublis' = 0 => Revisions'
  BY <1>1, <1>3 DEF PilotesSuivis, Revisions, Fidele
<1> QED BY <1>6, <1>7, <1>8 DEF PilotesSuivis

(* The proxy reports; its sessions come and go; it stops and starts again. *)
LEMMA PasCompteRendu == ASSUME PilotesSuivis, R!boucleDeCompteRendu PROVE PilotesSuivis'
<1>1. /\ R!rendreCompte(proxy)
      /\ UNCHANGED <<base, rapport, inscrit, proxy, copie, pris, fil, descendants, lien, oublis>>
  BY DEF R!boucleDeCompteRendu
<1>2. montants' \subseteq UnCompteRendu /\ IsFiniteSet(montants')
      /\ Cardinality(montants') <= MaxRapports
  BY <1>1, CompteRendu DEF PilotesSuivis, PilotesTypes
<1> QED BY <1>1, <1>2
     DEF PilotesSuivis, PilotesTypes, R!DuckyToujoursOuvert, Revisions, Fidele

LEMMA PasLien ==
  ASSUME PilotesSuivis, R!Raccorder \/ R!Couper \/ R!AutreProgramme
  PROVE  PilotesSuivis'
<1>1. CASE R!Raccorder
  BY <1>1 DEF R!Raccorder, PilotesSuivis, PilotesTypes, R!DuckyToujoursOuvert, Revisions, Fidele
<1>2. CASE R!Couper
  <2>1. descendants' \subseteq descendants /\ montants' = {} /\ lien' = FALSE
        /\ UNCHANGED <<base, rapport, inscrit, proxy, copie, pris, fil, oublis>>
    BY <1>2 DEF R!Couper
  <2>2. IsFiniteSet(montants') /\ Cardinality(montants') <= MaxRapports
    BY <2>1, FS_EmptySet, BornesPilotes
  <2>3. IsFiniteSet(descendants') /\ Cardinality(descendants') <= MaxMessages
    BY <2>1, MoinsDeMessages, BornesPilotes DEF PilotesSuivis, PilotesTypes
  <2> QED BY <2>1, <2>2, <2>3
       DEF PilotesSuivis, PilotesTypes, R!DuckyToujoursOuvert, Revisions, Fidele
<1>3. CASE R!AutreProgramme
  BY <1>3 DEF R!AutreProgramme, PilotesSuivis, PilotesTypes, R!DuckyToujoursOuvert, Revisions, Fidele
<1> QED BY <1>1, <1>2, <1>3

LEMMA PasArret == ASSUME PilotesSuivis, R!Arreter PROVE PilotesSuivis'
<1>1. /\ proxy' = [proxy EXCEPT !.vit = FALSE, !.parc = {}]
      /\ lien' = FALSE /\ montants' = {} /\ descendants' = {}
      /\ UNCHANGED <<base, rapport, inscrit, copie, pris, fil, oublis>>
  BY DEF R!Arreter
<1>2. proxy \in UnProxy /\ {} \in R!Listes
  BY ListeDucky DEF PilotesSuivis, PilotesTypes
<1>3. proxy' \in UnProxy /\ proxy'.vit = FALSE /\ proxy'.revision = proxy.revision
      /\ proxy'.origine = proxy.origine /\ proxy'.demande = proxy.demande
  <2> DEFINE x1 == [proxy EXCEPT !.vit = FALSE]
             x2 == [x1 EXCEPT !.parc = {}]
  <2>1. proxy' = x2
    BY <1>1
  <2>2. x1 \in UnProxy /\ x1.vit = FALSE /\ x1.revision = proxy.revision
        /\ x1.origine = proxy.origine /\ x1.demande = proxy.demande
    BY <1>2 DEF UnProxy
  <2> HIDE DEF x1
  <2>3. x2 \in UnProxy /\ x2.vit = FALSE /\ x2.revision = proxy.revision
        /\ x2.origine = proxy.origine /\ x2.demande = proxy.demande
    BY <1>2, <2>2 DEF UnProxy
  <2> QED BY <2>1, <2>3
<1>4. IsFiniteSet({}) /\ Cardinality({}) <= MaxRapports /\ Cardinality({}) <= MaxMessages
  BY FS_EmptySet, BornesPilotes
<1> QED BY <1>1, <1>3, <1>4
     DEF PilotesSuivis, PilotesTypes, R!DuckyToujoursOuvert, Revisions, Fidele

LEMMA PasDemarrage ==
  ASSUME PilotesSuivis, NEW a \in Annonces, R!demarrer(a)
  PROVE  PilotesSuivis'
<1> DEFINE duCore == R!Parc(R!Trier(copie.liste, a), {})
           file == R!Parc(R!Ducky(a), {})
<1>1. UNCHANGED <<base, rapport, inscrit, copie, pris, fil, montants, descendants, lien, oublis>>
  BY DEF R!demarrer
<1>2. copie \in [revision : 0..MaxRevision, liste : R!Listes] /\ a \in Ports /\ {} \in R!Listes
  BY ListeDucky, BornesPilotes DEF PilotesSuivis, PilotesTypes
<1>3. /\ proxy' \in UnProxy /\ R!Relai("ducky", a) \in proxy'.parc /\ proxy'.annonce = a
      /\ \/ proxy'.origine = "core" /\ proxy'.revision = copie.revision
            /\ proxy'.demande = copie.liste
         \/ proxy'.origine = "fichier" /\ proxy'.revision = 0
  <2>1. CASE copie.revision > 0 /\ R!PorteUnRelaisDucky(duCore)
    <3>1. proxy' = [vit |-> TRUE, annonce |-> a, origine |-> "core",
                    revision |-> copie.revision, refusee |-> 0,
                    demande |-> copie.liste, parc |-> duCore]
      BY <2>1 DEF R!demarrer
    <3>2. duCore \in R!Listes /\ R!Relai("ducky", a) \in duCore
      BY <1>2, <2>1, ListeTriee, ListeOuverte, ParcDansLaListe DEF R!PorteUnRelaisDucky
    <3> HIDE DEF duCore
    <3> QED BY <1>2, <3>1, <3>2, BornesPilotes DEF UnProxy
  <2>2. CASE ~(copie.revision > 0 /\ R!PorteUnRelaisDucky(duCore))
    <3>1. /\ file = R!Ducky(a)
          /\ proxy' = [vit |-> TRUE, annonce |-> a, origine |-> "fichier",
                       revision |-> 0, refusee |-> 0, demande |-> R!Ducky(a), parc |-> file]
      BY <2>2 DEF R!demarrer
    <3>2. R!Ducky(a) \in R!Listes /\ R!Relai("ducky", a) \in R!Ducky(a)
      BY <1>2, ListeDucky
    <3> HIDE DEF file
    <3> QED BY <1>2, <3>1, <3>2, BornesPilotes DEF UnProxy
  <2> QED BY <2>1, <2>2
<1>4. base.revision \in Nat
  BY BornesPilotes DEF PilotesSuivis, PilotesTypes
<1>5. PilotesTypes'
  BY <1>1, <1>3 DEF PilotesSuivis, PilotesTypes
<1>6. oublis' = 0 => Revisions'
  BY <1>1, <1>3, <1>4 DEF PilotesSuivis, Revisions, Fidele
<1> QED BY <1>3, <1>5, <1>6 DEF PilotesSuivis, R!DuckyToujoursOuvert

-----------------------------------------------------------------------------
LEMMA InerteType == R!Inerte \in UnFil /\ R!Inerte.revision = 0
BY ListeDucky, BornesPilotes DEF R!Inerte, R!SansRapport, UnFil, UnCompteRendu

(* The core. A report is received, the demand is read in two statements.   *)
LEMMA PasReception ==
  ASSUME PilotesSuivis, NEW m \in montants, R!EnregistrerCompteRendu(m)
  PROVE  PilotesSuivis'
<1> DEFINE g1 == [R!Inerte EXCEPT !.pc = "etat"]
           g == [g1 EXCEPT !.vu = m]
<1>1. /\ montants' = montants \ {m} /\ rapport' = m
      /\ fil' = [fil EXCEPT !["04_18"] = g]
      /\ UNCHANGED <<base, inscrit, proxy, copie, pris, descendants, lien, oublis>>
  BY DEF R!EnregistrerCompteRendu
<1>2. m \in UnCompteRendu /\ {} \in R!Listes
  BY ListeDucky DEF PilotesSuivis, PilotesTypes
<1>3. g \in UnFil /\ g.revision = 0
  <2>1. g1 \in UnFil /\ g1.revision = 0
    BY InerteType DEF UnFil
  <2> HIDE DEF g1
  <2> QED BY <1>2, <2>1 DEF UnFil
<1>4. IsFiniteSet(montants') /\ Cardinality(montants') <= MaxRapports
  BY <1>1, MoinsDeMessages, BornesPilotes DEF PilotesSuivis, PilotesTypes
<1> HIDE DEF g
<1>5. PilotesTypes'
  BY <1>1, <1>2, <1>3, <1>4 DEF PilotesSuivis, PilotesTypes
<1>6. \A f \in R!Fils : fil'[f] = fil[f] \/ fil'[f].revision = 0
  BY <1>1, <1>3 DEF PilotesSuivis, PilotesTypes
<1>7. oublis' = 0 => Revisions'
  BY <1>1, <1>6, BornesPilotes DEF PilotesSuivis, PilotesTypes, Revisions, Fidele
<1> QED BY <1>1, <1>5, <1>7 DEF PilotesSuivis, R!DuckyToujoursOuvert

(* A goroutine becomes g, and the rest stays.                              *)
LEMMA FilChange ==
  ASSUME PilotesSuivis, NEW f \in R!Fils, NEW g \in UnFil,
         fil' = [fil EXCEPT ![f] = g], g.revision <= base.revision \/ g.revision = fil[f].revision,
         UNCHANGED <<base, rapport, inscrit, proxy, copie, pris, montants, descendants, lien, oublis>>
  PROVE  PilotesSuivis'
<1>1. PilotesTypes'
  BY DEF PilotesSuivis, PilotesTypes
<1>2. \A h \in R!Fils : fil'[h] = IF h = f THEN g ELSE fil[h]
  BY DEF PilotesSuivis, PilotesTypes
<1>3. oublis' = 0 => Revisions'
  BY <1>2 DEF PilotesSuivis, Revisions, Fidele
<1> QED BY <1>1, <1>3 DEF PilotesSuivis, R!DuckyToujoursOuvert

LEMMA PasEtat ==
  ASSUME PilotesSuivis, NEW f \in R!Fils, NEW p \in {"base", "liste"}, R!lireEtat(f, p),
         UNCHANGED <<base, rapport, inscrit, proxy, copie, pris, montants, descendants, lien, oublis>>
  PROVE  PilotesSuivis'
<1> DEFINE g1 == [fil[f] EXCEPT !.pc = p]
           g2 == [g1 EXCEPT !.pilote = base.pilote]
           g3 == [g2 EXCEPT !.revision = base.revision]
<1>1. fil[f] \in UnFil /\ fil \in [R!Fils -> UnFil]
      /\ base \in [pilote : BOOLEAN, revision : 0..MaxRevision, liste : R!Listes]
  BY DEF PilotesSuivis, PilotesTypes
<1>2. fil' = [fil EXCEPT ![f] = g3]
  BY <1>1 DEF R!lireEtat
<1>3. g1 \in UnFil
  BY <1>1 DEF UnFil
<1> HIDE DEF g1
<1>4. g2 \in UnFil
  BY <1>1, <1>3 DEF UnFil
<1> HIDE DEF g2
<1>5. g3 \in UnFil /\ g3.revision = base.revision
  BY <1>1, <1>4 DEF UnFil
<1> HIDE DEF g3
<1>6. g3.revision <= base.revision
  BY <1>1, <1>5, BornesPilotes
<1> QED BY <1>2, <1>5, <1>6, FilChange

(* What the core sends is the row, under a revision that is not newer.     *)
LEMMA OrdreDuCore ==
  ASSUME PilotesSuivis, NEW f \in R!Fils,
         NEW mode \in {"core", "fichier", "inchange"}, mode = "core" => fil[f].pilote,
         R!envoyer(R!composerLa0419(mode, f))
  PROVE  /\ descendants' \subseteq UnOrdre /\ IsFiniteSet(descendants')
         /\ Cardinality(descendants') <= MaxMessages
         /\ oublis = 0 => \A m \in descendants' : m.mode = "core" => Fidele(m.revision, m.liste, base)
<1> DEFINE m == R!composerLa0419(mode, f)
<1>1. fil[f] \in UnFil /\ PilotesTypes
      /\ base \in [pilote : BOOLEAN, revision : 0..MaxRevision, liste : R!Listes]
  BY DEF PilotesSuivis, PilotesTypes
<1>2. /\ m.mode = mode /\ m.revision \in 0..MaxRevision /\ m.liste \in R!Listes
      /\ mode # "inchange" => m \in UnOrdre
      /\ mode = "core" => m.revision = fil[f].revision /\ m.liste = base.liste
  <2>1. {} \in R!Listes /\ 0 \in 0..MaxRevision
    BY ListeDucky, BornesPilotes
  <2>2. CASE mode = "core"
    <3>1. m = [mode |-> "core", revision |-> fil[f].revision, liste |-> base.liste]
      BY <2>2 DEF R!composerLa0419, R!Rangees
    <3> HIDE DEF m
    <3> QED BY <1>1, <2>2, <3>1 DEF UnOrdre, UnFil
  <2>3. CASE mode # "core"
    <3>1. m = [mode |-> mode, revision |-> 0, liste |-> {}]
      BY <2>3 DEF R!composerLa0419
    <3> HIDE DEF m
    <3> QED BY <2>1, <2>3, <3>1 DEF UnOrdre
  <2> QED BY <2>2, <2>3
<1> HIDE DEF m
<1>3. CASE UNCHANGED descendants
  BY <1>1, <1>3 DEF PilotesSuivis, PilotesTypes, Revisions
<1>4. CASE /\ m.mode # "inchange" /\ Cardinality(descendants \cup {m}) <= MaxMessages
           /\ descendants' = descendants \cup {m}
  <2>1. IsFiniteSet(descendants')
    BY <1>1, <1>4, FS_AddElement DEF PilotesTypes
  <2>2. oublis = 0 => \A d \in descendants' : d.mode = "core" => Fidele(d.revision, d.liste, base)
    BY <1>2, <1>4 DEF PilotesSuivis, Revisions, Fidele
  <2> QED BY <1>1, <1>2, <1>4, <2>1, <2>2 DEF PilotesTypes
<1>5. R!envoyer(m)
  BY DEF m
<1>6. \/ UNCHANGED descendants
      \/ /\ m.mode # "inchange" /\ Cardinality(descendants \cup {m}) <= MaxMessages
         /\ descendants' = descendants \cup {m}
  BY <1>5, Cardinaux DEF R!envoyer
<1> QED BY <1>3, <1>4, <1>6

LEMMA PasDemandes ==
  ASSUME PilotesSuivis, NEW f \in R!Fils, R!RelaisDemandes(f)
  PROVE  PilotesSuivis'
<1>1. UNCHANGED <<base, rapport, inscrit, proxy, copie, pris, montants, lien, oublis>>
  BY DEF R!RelaisDemandes
<1>2. CASE R!lireEtat(f, "liste") /\ UNCHANGED descendants
  BY <1>1, <1>2, PasEtat
<1> DEFINE mode == IF f \in Admins THEN (IF fil[f].pilote THEN "core" ELSE "fichier")
                   ELSE R!DecisionPourLeProxy(f)
<1>3. CASE R!envoyer(R!composerLa0419(mode, f)) /\ fil' = [fil EXCEPT ![f] = R!Inerte]
  <2>1. mode \in {"core", "fichier", "inchange"} /\ (mode = "core" => fil[f].pilote)
    <3>1. fil[f].pilote \in BOOLEAN
      BY DEF PilotesSuivis, PilotesTypes, UnFil
    <3>2. R!DecisionPourLeProxy(f) \in {"core", "fichier", "inchange"}
          /\ (R!DecisionPourLeProxy(f) = "core" => fil[f].pilote)
      BY <3>1 DEF R!DecisionPourLeProxy, R!RevisionDemandee
    <3> QED BY <3>1, <3>2
  <2> HIDE DEF mode
  <2>2. /\ descendants' \subseteq UnOrdre /\ IsFiniteSet(descendants')
        /\ Cardinality(descendants') <= MaxMessages
        /\ oublis = 0 => \A m \in descendants' : m.mode = "core" => Fidele(m.revision, m.liste, base)
    BY <1>3, <2>1, OrdreDuCore
  <2>3. PilotesTypes'
    BY <1>1, <1>3, <2>2, InerteType DEF PilotesSuivis, PilotesTypes
  <2>4. \A h \in R!Fils : fil'[h] = fil[h] \/ fil'[h].revision = 0
    BY <1>3, InerteType DEF PilotesSuivis, PilotesTypes
  <2>5. oublis' = 0 => Revisions'
    BY <1>1, <2>2, <2>4, BornesPilotes DEF PilotesSuivis, PilotesTypes, Revisions, Fidele
  <2> QED BY <1>1, <2>3, <2>5 DEF PilotesSuivis, R!DuckyToujoursOuvert
<1> QED BY <1>2, <1>3 DEF R!RelaisDemandes

-----------------------------------------------------------------------------
(* An administrator. The row is written under a new revision.              *)
LEMMA LigneChange ==
  ASSUME PilotesSuivis, NEW f \in R!Fils, NEW g \in UnFil, g.revision = 0,
         fil' = [fil EXCEPT ![f] = g], base' \in [pilote : BOOLEAN, revision : 0..MaxRevision, liste : R!Listes],
         base'.revision = base.revision + 1,
         UNCHANGED <<rapport, inscrit, proxy, copie, pris, montants, descendants, lien, oublis>>
  PROVE  PilotesSuivis'
<1>1. PilotesTypes'
  BY DEF PilotesSuivis, PilotesTypes
<1>2. /\ base.revision \in Nat /\ proxy.revision \in Nat /\ copie.revision \in Nat
      /\ \A m \in descendants : m.revision \in Nat
      /\ \A h \in R!Fils : fil[h].revision \in Nat
  BY BornesPilotes DEF PilotesSuivis, PilotesTypes, UnProxy, UnOrdre, UnFil
<1>3. \A h \in R!Fils : fil'[h] = fil[h] \/ fil'[h].revision = 0
  BY DEF PilotesSuivis, PilotesTypes
<1>4. ASSUME oublis = 0 PROVE Revisions'
  <2>1. base'.revision # 0 /\ \A n \in Nat : n <= base.revision => n <= base'.revision /\ n # base'.revision
    BY <1>2
  <2>2. /\ proxy.revision <= base.revision /\ copie.revision <= base.revision
        /\ \A m \in descendants : m.mode = "core" => m.revision <= base.revision
        /\ \A h \in R!Fils : fil[h].revision <= base.revision
    BY <1>4 DEF PilotesSuivis, Revisions, Fidele
  <2>3. \A m \in descendants' : m.mode = "core" => m.revision <= base'.revision /\ m.revision # base'.revision
    BY <1>2, <2>1, <2>2
  <2>4. \A h \in R!Fils : fil'[h].revision <= base'.revision
    <3> SUFFICES ASSUME NEW h \in R!Fils PROVE fil'[h].revision <= base'.revision
      OBVIOUS
    <3>1. CASE fil'[h] = fil[h]
      <4>1. fil[h].revision \in Nat /\ fil[h].revision <= base.revision
        BY <1>2, <2>2
      <4>2. fil[h].revision <= base'.revision
        BY <1>2, <2>1, <4>1
      <4> QED BY <3>1, <4>2
    <3>2. CASE fil'[h].revision = 0
      BY <1>2, <3>2
    <3> QED BY <1>3, <3>1, <3>2
  <2> QED BY <1>2, <2>1, <2>2, <2>3, <2>4 DEF Revisions, Fidele
<1> QED BY <1>1, <1>4 DEF PilotesSuivis, R!DuckyToujoursOuvert

LEMMA PousserType ==
  ASSUME NEW p \in {"pousser", "etat"}
  PROVE  [R!Inerte EXCEPT !.pc = p] \in UnFil /\ [R!Inerte EXCEPT !.pc = p].revision = 0
BY InerteType DEF UnFil

LEMMA PasEcriture ==
  ASSUME PilotesSuivis, NEW a \in Admins, R!EcrireRelaisDemandes(a)
  PROVE  PilotesSuivis'
<1>0. a \in R!Fils
  BY DEF R!Fils
<1>1. UNCHANGED <<rapport, inscrit, proxy, copie, pris, montants, descendants, lien, oublis>>
  BY DEF R!EcrireRelaisDemandes
<1>2. ASSUME base.revision < MaxRevision,
             NEW l \in R!Listes, base' = [pilote |-> TRUE, revision |-> base.revision + 1, liste |-> l],
             fil' = [fil EXCEPT ![a] = [R!Inerte EXCEPT !.pc = "pousser"]]
      PROVE  PilotesSuivis'
  <2>1. base'.revision = base.revision + 1
        /\ base' \in [pilote : BOOLEAN, revision : 0..MaxRevision, liste : R!Listes]
    BY <1>2, BornesPilotes DEF PilotesSuivis, PilotesTypes
  <2> DEFINE g == [R!Inerte EXCEPT !.pc = "pousser"]
  <2>2. g \in UnFil /\ g.revision = 0 /\ fil' = [fil EXCEPT ![a] = g]
    BY <1>2, PousserType
  <2> HIDE DEF g
  <2> QED BY <1>0, <1>1, <2>1, <2>2, LigneChange
<1>3. CASE fil' = [fil EXCEPT ![a] = R!Inerte] /\ UNCHANGED base
  <2>1. R!Inerte.revision <= base.revision
    BY InerteType, BornesPilotes DEF PilotesSuivis, PilotesTypes
  <2> QED BY <1>0, <1>1, <1>3, <2>1, InerteType, FilChange
<1> QED BY <1>2, <1>3 DEF R!EcrireRelaisDemandes, R!ValiderListeDeRelais

LEMMA PasFichier ==
  ASSUME PilotesSuivis, NEW a \in Admins, R!RendreLaMainAuFichier(a)
  PROVE  PilotesSuivis'
<1> DEFINE g == [R!Inerte EXCEPT !.pc = "pousser"]
<1>1. /\ base.revision < MaxRevision
      /\ base' = [pilote |-> FALSE, revision |-> base.revision + 1, liste |-> {}]
      /\ fil' = [fil EXCEPT ![a] = g]
      /\ UNCHANGED <<rapport, inscrit, proxy, copie, pris, montants, descendants, lien, oublis>>
  BY DEF R!RendreLaMainAuFichier
<1>2. base'.revision = base.revision + 1
      /\ base' \in [pilote : BOOLEAN, revision : 0..MaxRevision, liste : R!Listes]
  BY <1>1, ListeDucky, BornesPilotes DEF PilotesSuivis, PilotesTypes
<1>3. a \in R!Fils /\ g \in UnFil /\ g.revision = 0
  BY PousserType DEF R!Fils
<1> HIDE DEF g
<1> QED BY <1>1, <1>2, <1>3, LigneChange

LEMMA PasPousser ==
  ASSUME PilotesSuivis, NEW a \in Admins, R!PousserRelais(a)
  PROVE  PilotesSuivis'
<1> DEFINE g == IF lien THEN [R!Inerte EXCEPT !.pc = "etat"] ELSE R!Inerte
<1>1. /\ fil' = [fil EXCEPT ![a] = g]
      /\ UNCHANGED <<base, rapport, inscrit, proxy, copie, pris, montants, descendants, lien, oublis>>
  BY DEF R!PousserRelais
<1>2. a \in R!Fils /\ g \in UnFil /\ g.revision = 0
  BY PousserType, InerteType DEF R!Fils
<1> HIDE DEF g
<1>3. g.revision <= base.revision
  BY <1>2, BornesPilotes DEF PilotesSuivis, PilotesTypes
<1> QED BY <1>1, <1>2, <1>3, FilChange

(* He reads the demand, then its list or the last report.                  *)
LEMMA PasLecture ==
  ASSUME PilotesSuivis, NEW a \in Admins, R!LireBase(a) \/ R!LireListe(a)
  PROVE  PilotesSuivis'
<1>0. a \in R!Fils
  BY DEF R!Fils
<1>1. CASE R!LireBase(a)
  BY <1>0, <1>1, PasEtat DEF R!LireBase
<1>2. CASE R!LireListe(a)
  <2> DEFINE l == IF fil[a].pilote THEN base.liste ELSE rapport.actifs
             g1 == [fil[a] EXCEPT !.pc = "ecrire"]
             g2 == [g1 EXCEPT !.vu = rapport]
             g3 == [g2 EXCEPT !.liste = l]
  <2>1. /\ fil[a] \in UnFil /\ fil \in [R!Fils -> UnFil]
        /\ base \in [pilote : BOOLEAN, revision : 0..MaxRevision, liste : R!Listes]
        /\ rapport \in UnCompteRendu
    BY <1>0 DEF PilotesSuivis, PilotesTypes
  <2>2. /\ fil' = [fil EXCEPT ![a] = R!Inerte] \/ fil' = [fil EXCEPT ![a] = g3]
        /\ UNCHANGED <<base, rapport, inscrit, proxy, copie, pris, montants, descendants, lien, oublis>>
    BY <1>0, <1>2, <2>1 DEF R!LireListe
  <2>3. l \in R!Listes
    BY <2>1 DEF UnCompteRendu
  <2> HIDE DEF l
  <2>4. g1 \in UnFil /\ g1.revision = fil[a].revision
    BY <2>1 DEF UnFil
  <2> HIDE DEF g1
  <2>5. g2 \in UnFil /\ g2.revision = fil[a].revision
    BY <2>1, <2>4 DEF UnFil
  <2> HIDE DEF g2
  <2>6. g3 \in UnFil /\ g3.revision = fil[a].revision
    BY <2>3, <2>5 DEF UnFil
  <2> HIDE DEF g3
  <2>7. R!Inerte.revision <= base.revision
    BY <2>1, InerteType, BornesPilotes
  <2> QED BY <1>0, <2>2, <2>6, <2>7, InerteType, FilChange
<1> QED BY <1>1, <1>2

(* The node is forgotten: from now on the revisions may start again.       *)
LEMMA PasOubli == ASSUME PilotesSuivis, R!OublierNoeud PROVE PilotesSuivis'
<1>1. /\ inscrit' = FALSE /\ oublis' = oublis + 1
      /\ base' = [pilote |-> FALSE, revision |-> 0, liste |-> {}] /\ rapport' = R!SansRapport
      /\ UNCHANGED <<proxy, copie, pris, fil, montants, descendants, lien>>
  BY DEF R!OublierNoeud
<1>2. oublis \in Nat /\ oublis' \in Nat /\ oublis' # 0
  BY <1>1 DEF PilotesSuivis, PilotesTypes
<1>3. R!SansRapport \in UnCompteRendu /\ {} \in R!Listes
  BY ListeDucky, BornesPilotes DEF R!SansRapport, UnCompteRendu
<1>4. base' \in [pilote : BOOLEAN, revision : 0..MaxRevision, liste : R!Listes]
  BY <1>1, <1>3, BornesPilotes
<1>5. PilotesTypes'
  BY <1>1, <1>2, <1>3, <1>4 DEF PilotesSuivis, PilotesTypes
<1> QED BY <1>1, <1>2, <1>5 DEF PilotesSuivis, R!DuckyToujoursOuvert

LEMMA PilotesPas == ASSUME PilotesSuivis, R!Next PROVE PilotesSuivis'
<1>1. ASSUME NEW m \in descendants, R!surConfiguration(m) PROVE PilotesSuivis'
  BY <1>1, PasConfiguration
<1>2. ASSUME NEW m \in montants, R!EnregistrerCompteRendu(m) PROVE PilotesSuivis'
  BY <1>2, PasReception
<1>3. ASSUME NEW f \in R!Fils, R!RelaisDemandes(f) PROVE PilotesSuivis'
  BY <1>3, PasDemandes
<1>4. ASSUME NEW a \in Admins,
             R!LireBase(a) \/ R!LireListe(a) \/ R!EcrireRelaisDemandes(a)
               \/ R!RendreLaMainAuFichier(a) \/ R!PousserRelais(a)
      PROVE  PilotesSuivis'
  BY <1>4, PasLecture, PasEcriture, PasFichier, PasPousser
<1>5. ASSUME NEW a \in Annonces, R!demarrer(a) PROVE PilotesSuivis'
  BY <1>5, PasDemarrage
<1>6. CASE R!boucleDeCompteRendu \/ R!Arreter \/ R!OublierNoeud
  BY <1>6, PasCompteRendu, PasArret, PasOubli
<1>7. CASE R!Raccorder \/ R!Couper \/ R!AutreProgramme
  BY <1>7, PasLien
<1> QED BY <1>1, <1>2, <1>3, <1>4, <1>5, <1>6, <1>7 DEF R!Next

LEMMA PilotesReste == ASSUME PilotesSuivis, UNCHANGED piloteVars PROVE PilotesSuivis'
BY DEF PilotesSuivis, PilotesTypes, R!DuckyToujoursOuvert, Revisions, Fidele, piloteVars

-----------------------------------------------------------------------------
LEMMA PilotesDisent == PilotesSuivis => R!TypeOK /\ R!DuckyToujoursOuvert
                                       /\ (oublis = 0 => R!RevisionVautListe)
<1> SUFFICES ASSUME PilotesSuivis
             PROVE  R!TypeOK /\ R!DuckyToujoursOuvert /\ (oublis = 0 => R!RevisionVautListe)
  OBVIOUS
<1>1. R!TypeOK
  <2>1. \A f \in R!Fils : fil[f].pc \in {"repos", "base", "ecrire", "pousser", "etat", "liste"}
    BY DEF PilotesSuivis, PilotesTypes, UnFil
  <2> QED BY <2>1, Cardinaux DEF PilotesSuivis, PilotesTypes, R!TypeOK, UnProxy
<1>2. oublis = 0 => R!RevisionVautListe
  BY DEF PilotesSuivis, Revisions, Fidele, R!RevisionVautListe
<1> QED BY <1>1, <1>2 DEF PilotesSuivis

(* For every list, number of administrators, revisions, messages and       *)
(* faults: the Ducky relay of a proxy that runs listens on the announced   *)
(* port, and, as long as its node is not forgotten, the revision it says   *)
(* is the list of the core (appliquerDuCore, demarrer, RelaisDemandes).    *)
THEOREM PilotageToujours ==
  R!Spec => [](R!TypeOK /\ R!DuckyToujoursOuvert /\ (oublis = 0 => R!RevisionVautListe))
<1>1. PilotesSuivis /\ [R!Next]_(R!vars) => PilotesSuivis'
  BY PilotesPas, PilotesReste DEF R!vars, piloteVars
<1> QED BY <1>1, PilotesDepart, PilotesDisent, PTL DEF R!Spec

PilotesInv == partie \in Pilotes => PilotesSuivis

(* The same of the three parts of the piloted relays in the run.           *)
THEOREM PilotageCorrect == Ensemble => []PilotageTenu
<1>1. Depart => PilotesInv
  BY PilotesDepart DEF Depart, PilotesInv
<1>2. PilotesInv /\ [Pas]_tout => PilotesInv'
  <2> SUFFICES ASSUME PilotesInv, [Pas]_tout, partie' \in Pilotes PROVE PilotesSuivis'
    BY DEF PilotesInv
  <2>1. partie' = partie /\ (R!Next \/ UNCHANGED piloteVars)
    BY DEF Pas, tout, Pilotes
  <2> QED BY <2>1, PilotesPas, PilotesReste DEF PilotesInv
<1>3. PilotesInv => PilotageTenu
  BY PilotesDisent DEF PilotesInv, PilotageTenu
<1> QED BY <1>1, <1>2, <1>3, PTL DEF Ensemble

-----------------------------------------------------------------------------
(***************************************************************************)
(* The maintenance of the nodes and the purges.                            *)
(***************************************************************************)
UneLigne == [la : BOOLEAN, enLigne : BOOLEAN, expose : BOOLEAN, maint : BOOLEAN,
             num : Nat, dem : Nat, term : Nat, ferm : Nat, battu : Nat]
UnTour == [faite : Nat, phase : {"repos", "lancee", "ferme"}, num : Nat, dem : Nat,
           reste : SUBSET Machines, fermes : Nat]
UnGeste == [pc : {"repos", "poser"}, cible : M!Noeuds \cup {"nul"}, confirme : BOOLEAN]
UnUsage == [demandes : 0..MaxDemandes, gestes : Nat, pannes : Nat]

Lignes(l) == l \in [M!Noeuds -> UneLigne]
Memoires(t, f) ==
  /\ DOMAIN t = Cores /\ \A c \in Cores : t[c] \in [M!Tours(c) -> UnTour]
  /\ DOMAIN f = Cores /\ \A c \in Cores : f[c] \in [M!Tours(c) -> SUBSET Nat]
Bilans(b) == b \in [M!Demandes -> [fermes : Nat, finis : SUBSET Cores]]

NoeudsTypes ==
  /\ Lignes(ligne) /\ Memoires(tour, faits) /\ Bilans(bilan)
  /\ instant \in 1..MaxInstant + 1 /\ vit \subseteq Cores
  /\ tunnel \in [Machines -> {M!Absent} \cup [core : Cores, par : Proxys \cup {"nul"}]]
  /\ admin \in [Admins -> UnGeste] /\ usage \in UnUsage

(* A core that runs, and a proxy, has its row and beats: it is never taken *)
(* for silent. A core that does not run carries out nothing.               *)
Vivants ==
  /\ \A n \in vit \cup Proxys : ligne[n].la /\ instant <= ligne[n].battu + 1
  /\ \A c \in Cores : \A k \in M!Tours(c) : tour[c][k].phase # "repos" => c \in vit

(* Requests are numbered in the order they are asked; a tour is that of a  *)
(* request, and one that a process has started is the one it remembers.    *)
Numeros ==
  /\ \A n \in M!Noeuds : /\ ligne[n].num <= usage.demandes /\ ligne[n].dem <= instant
                         /\ ligne[n].dem # 0 => ligne[n].num # 0
  /\ \A c \in Cores : \A k \in M!Tours(c) :
       /\ tour[c][k].phase # "repos" => tour[c][k].num \in 1..usage.demandes
       /\ faits[c][k] \subseteq 1..usage.demandes
       /\ ligne[k].num \in faits[c][k] => tour[c][k].faite = ligne[k].dem

NoeudsSuivis == NoeudsTypes /\ Vivants /\ Numeros

-----------------------------------------------------------------------------
LEMMA BornesNoeuds ==
  /\ Cores \cap Proxys = {} /\ IsFiniteSet(Cores)
  /\ Fenetre \in Nat \ {0} /\ MaxInstant \in Nat /\ MaxDemandes \in Nat
  /\ Espacees \in BOOLEAN
  /\ \A c \in Cores : c \in M!Tours(c) /\ M!Tours(c) \subseteq M!Noeuds
  /\ \A c \in Cores : \A k \in M!Tours(c) : k \in Cores => k = c
BY BornesDesNoeuds, Finis DEF M!NoeudsDistincts, M!Tours, M!Noeuds

LEMMA ReposType == M!TourRepos \in UnTour /\ M!TourRepos.phase = "repos" /\ M!TourRepos.fermes = 0
BY DEF M!TourRepos, UnTour

LEMMA NeuveType ==
  /\ M!LigneNeuve \in UneLigne
  /\ M!LigneNeuve.num = 0 /\ M!LigneNeuve.dem = 0 /\ M!LigneNeuve.term = 0
  /\ M!LigneNeuve.ferm = 0 /\ M!LigneNeuve.la /\ M!LigneNeuve.enLigne
BY DEF M!LigneNeuve, UneLigne

(* A row that is beaten: it keeps its request, or is new.                  *)
Meme(a, b) == b.num = a.num /\ b.dem = a.dem /\ b.term = a.term /\ b.ferm = a.ferm
(* One whose settings stay.                                                *)
Regles(a, b) == b.la = a.la /\ b.enLigne = a.enLigne /\ b.expose = a.expose /\ b.maint = a.maint

LEMMA LigneBattue ==
  ASSUME NEW l \in UneLigne, instant \in Nat
  PROVE  /\ M!LigneBattue(l) \in UneLigne
         /\ M!LigneBattue(l).la /\ M!LigneBattue(l).enLigne /\ M!LigneBattue(l).battu = instant
         /\ l.la => /\ Meme(l, M!LigneBattue(l)) /\ M!LigneBattue(l).maint = l.maint
                    /\ M!LigneBattue(l).expose = l.expose
         /\ ~l.la => Meme(M!LigneNeuve, M!LigneBattue(l))
<1>1. CASE l.la
  <2> DEFINE x1 == [l EXCEPT !.enLigne = TRUE]
             x2 == [x1 EXCEPT !.battu = instant]
  <2>0. M!LigneBattue(l) = x2
    BY <1>1 DEF M!LigneBattue
  <2>1. x1 \in UneLigne /\ x1.la = l.la /\ x1.enLigne /\ Meme(l, x1) /\ x1.maint = l.maint
        /\ x1.expose = l.expose
    BY DEF UneLigne, Meme
  <2> HIDE DEF x1
  <2>2. x2 \in UneLigne /\ x2.la = l.la /\ x2.enLigne /\ Meme(l, x2) /\ x2.maint = l.maint
        /\ x2.expose = l.expose /\ x2.battu = instant
    BY <2>1 DEF UneLigne, Meme
  <2> HIDE DEF x2
  <2> QED BY <1>1, <2>0, <2>2
<1>2. CASE ~l.la
  <2> DEFINE x == [M!LigneNeuve EXCEPT !.battu = instant]
  <2>0. M!LigneBattue(l) = x
    BY <1>2 DEF M!LigneBattue
  <2>1. x \in UneLigne /\ x.la /\ x.enLigne /\ Meme(M!LigneNeuve, x) /\ x.battu = instant
    BY NeuveType DEF UneLigne, Meme
  <2> HIDE DEF x
  <2> QED BY <1>2, <2>0, <2>1
<1>3. l.la \in BOOLEAN
  BY DEF UneLigne
<1> QED BY <1>1, <1>2, <1>3

-----------------------------------------------------------------------------
(* One tour becomes t.                                                     *)
LEMMA UnTourChange ==
  ASSUME Memoires(tour, faits), NEW c \in Cores, NEW k \in M!Tours(c), NEW t \in UnTour,
         tour' = [tour EXCEPT ![c][k] = t], faits' = faits
  PROVE  /\ Memoires(tour', faits')
         /\ \A d \in Cores : \A j \in M!Tours(d) :
              tour'[d][j] = IF d = c /\ j = k THEN t ELSE tour[d][j]
BY DEF Memoires

(* A step that leaves the purges alone: the rows keep their requests, but  *)
(* that of a core that does not run may be created anew.                   *)
Suit(n, a, b) == Meme(a, b) \/ (n \in Cores \ vit /\ Meme(M!LigneNeuve, b))
Calme == /\ UNCHANGED <<tour, faits, bilan>> /\ usage'.demandes = usage.demandes
         /\ \A n \in M!Noeuds : Suit(n, ligne[n], ligne'[n])

LEMMA LignesMemes ==
  ASSUME NoeudsSuivis, Calme, Lignes(ligne'), instant' \in 1..MaxInstant + 1, instant <= instant',
         tunnel' \in [Machines -> {M!Absent} \cup [core : Cores, par : Proxys \cup {"nul"}]],
         admin' \in [Admins -> UnGeste], usage' \in UnUsage, vit \subseteq vit', vit' \subseteq Cores,
         \A n \in vit' \cup Proxys : ligne'[n].la /\ instant' <= ligne'[n].battu + 1
  PROVE  NoeudsSuivis'
<1>1. NoeudsTypes'
  BY DEF NoeudsSuivis, NoeudsTypes, Calme
<1>2. Vivants'
  BY DEF NoeudsSuivis, Vivants, Calme
<1>3. Numeros'
  <2>1. \A n \in M!Noeuds : /\ ligne'[n].num <= usage'.demandes /\ ligne'[n].dem <= instant'
                            /\ ligne'[n].dem # 0 => ligne'[n].num # 0
    <3> SUFFICES ASSUME NEW n \in M!Noeuds
                 PROVE  /\ ligne'[n].num <= usage'.demandes /\ ligne'[n].dem <= instant'
                        /\ ligne'[n].dem # 0 => ligne'[n].num # 0
      OBVIOUS
    <3>1. /\ ligne[n].num \in Nat /\ ligne[n].dem \in Nat /\ instant \in Nat /\ instant' \in Nat
          /\ usage.demandes \in Nat
      BY BornesNoeuds DEF NoeudsSuivis, NoeudsTypes, Lignes, UneLigne, UnUsage
    <3>2. /\ ligne[n].num <= usage.demandes /\ ligne[n].dem <= instant
          /\ ligne[n].dem # 0 => ligne[n].num # 0
      BY DEF NoeudsSuivis, Numeros
    <3>3. CASE Meme(ligne[n], ligne'[n])
      BY <3>1, <3>2, <3>3 DEF Calme, Meme
    <3>4. CASE Meme(M!LigneNeuve, ligne'[n])
      BY <3>1, <3>4, NeuveType DEF Calme, Meme
    <3> QED BY <3>3, <3>4 DEF Calme, Suit
  <2>2. \A c \in Cores : \A k \in M!Tours(c) : k \in M!Noeuds
    BY BornesNoeuds
  <2>3. \A c \in Cores : \A k \in M!Tours(c) :
           /\ tour'[c][k].phase # "repos" => tour'[c][k].num \in 1..usage'.demandes
           /\ faits'[c][k] \subseteq 1..usage'.demandes
           /\ ligne'[k].num \in faits'[c][k] => tour'[c][k].faite = ligne'[k].dem
    <3> SUFFICES ASSUME NEW c \in Cores, NEW k \in M!Tours(c)
                 PROVE  /\ tour'[c][k].phase # "repos" => tour'[c][k].num \in 1..usage'.demandes
                        /\ faits'[c][k] \subseteq 1..usage'.demandes
                        /\ ligne'[k].num \in faits'[c][k] => tour'[c][k].faite = ligne'[k].dem
      OBVIOUS
    <3>1. /\ tour[c][k].phase # "repos" => tour[c][k].num \in 1..usage.demandes
          /\ faits[c][k] \subseteq 1..usage.demandes
          /\ ligne[k].num \in faits[c][k] => tour[c][k].faite = ligne[k].dem
      BY DEF NoeudsSuivis, Numeros
    <3>2. Suit(k, ligne[k], ligne'[k])
      BY <2>2 DEF Calme
    <3>3. CASE Meme(ligne[k], ligne'[k])
      BY <3>1, <3>3 DEF Calme, Meme
    <3>4. CASE Meme(M!LigneNeuve, ligne'[k])
      BY <3>1, <3>4, NeuveType DEF Calme, Meme
    <3> QED BY <3>2, <3>3, <3>4 DEF Suit
  <2> QED BY <2>1, <2>3 DEF Numeros
<1> QED BY <1>1, <1>2, <1>3 DEF NoeudsSuivis

LEMMA NoeudsDepart == M!Init => NoeudsSuivis
<1> SUFFICES ASSUME M!Init PROVE NoeudsSuivis
  OBVIOUS
<1>1. NoeudsTypes
  <2>1. Lignes(ligne) /\ instant = 1 /\ vit = Cores
    BY NeuveType DEF M!Init, Lignes
  <2>2. Memoires(tour, faits)
    BY ReposType DEF M!Init, Memoires
  <2>3. Bilans(bilan)
    BY DEF M!Init, Bilans
  <2>4. tunnel \in [Machines -> {M!Absent} \cup [core : Cores, par : Proxys \cup {"nul"}]]
    BY DEF M!Init
  <2>5. admin \in [Admins -> UnGeste]
    BY DEF M!Init, M!GesteRepos, UnGeste
  <2>6. usage \in UnUsage
    BY BornesNoeuds DEF M!Init, UnUsage
  <2>7. instant \in 1..MaxInstant + 1
    BY <2>1, BornesNoeuds
  <2> QED BY <2>1, <2>2, <2>3, <2>4, <2>5, <2>6, <2>7 DEF NoeudsTypes
<1>2. \A n \in M!Noeuds : ligne[n] = M!LigneNeuve
  BY DEF M!Init
<1>3. \A c \in Cores : \A k \in M!Tours(c) : tour[c][k] = M!TourRepos /\ faits[c][k] = {}
  BY DEF M!Init
<1>4. usage.demandes = 0 /\ instant = 1 /\ vit = Cores
  BY DEF M!Init
<1>5. Vivants
  <2>1. \A n \in M!Noeuds : ligne[n].la /\ ligne[n].battu = 1
    BY <1>2 DEF M!LigneNeuve
  <2> QED BY <1>3, <1>4, <2>1, ReposType DEF Vivants, M!Noeuds
<1>6. Numeros
  BY <1>2, <1>3, <1>4, NeuveType, ReposType DEF Numeros
<1> QED BY <1>1, <1>5, <1>6 DEF NoeudsSuivis

-----------------------------------------------------------------------------
(* A gesture writes one field of a row that the purges do not read.        *)
LEMMA UneLigneChange ==
  ASSUME Lignes(ligne), NEW n \in M!Noeuds, NEW l \in UneLigne, Meme(ligne[n], l),
         ligne' = [ligne EXCEPT ![n] = l]
  PROVE  /\ Lignes(ligne')
         /\ \A j \in M!Noeuds : ligne'[j] = IF j = n THEN l ELSE ligne[j]
         /\ \A j \in M!Noeuds : Meme(ligne[j], ligne'[j])
BY DEF Lignes, Meme

LEMMA LigneEcrite ==
  ASSUME NEW l \in UneLigne, NEW b \in BOOLEAN
  PROVE  /\ [l EXCEPT !.maint = b] \in UneLigne /\ Meme(l, [l EXCEPT !.maint = b])
         /\ [l EXCEPT !.expose = b] \in UneLigne /\ Meme(l, [l EXCEPT !.expose = b])
         /\ [l EXCEPT !.la = b] \in UneLigne /\ Meme(l, [l EXCEPT !.la = b])
         /\ [l EXCEPT !.enLigne = b] \in UneLigne /\ Meme(l, [l EXCEPT !.enLigne = b])
BY DEF UneLigne, Meme

Ecrit(l, b) == {[l EXCEPT !.maint = b], [l EXCEPT !.expose = b], [l EXCEPT !.la = b],
                [l EXCEPT !.enLigne = b]}

(* What such a step leaves: the row of who is alive, and its date.         *)
LEMMA GesteSuivi ==
  ASSUME NoeudsSuivis, NEW n \in M!Noeuds, NEW b \in BOOLEAN, NEW l \in Ecrit(ligne[n], b),
         ligne' = [ligne EXCEPT ![n] = l], l.la \/ n \notin vit \cup Proxys,
         admin' \in [Admins -> UnGeste], usage' \in UnUsage, usage'.demandes = usage.demandes,
         UNCHANGED <<instant, vit, tour, tunnel, faits, bilan>>
  PROVE  NoeudsSuivis' /\ Calme
<1>1. ligne[n] \in UneLigne /\ NoeudsTypes /\ Lignes(ligne)
  BY DEF NoeudsSuivis, NoeudsTypes, Lignes
<1>2. l \in UneLigne /\ Meme(ligne[n], l)
  BY <1>1, LigneEcrite DEF Ecrit
<1>3. l.battu = ligne[n].battu
  BY <1>1 DEF Ecrit, UneLigne
<1>4. /\ Lignes(ligne') /\ \A j \in M!Noeuds : Meme(ligne[j], ligne'[j])
      /\ \A j \in M!Noeuds : ligne'[j] = IF j = n THEN l ELSE ligne[j]
  BY <1>1, <1>2, UneLigneChange
<1>5. \A j \in vit \cup Proxys : j \in M!Noeuds
  BY <1>1 DEF NoeudsTypes, M!Noeuds
<1>6. \A j \in vit \cup Proxys : ligne'[j].la /\ instant' <= ligne'[j].battu + 1
  BY <1>3, <1>4, <1>5 DEF NoeudsSuivis, Vivants
<1>7. instant \in Nat /\ Calme
  BY <1>1, <1>4, BornesNoeuds DEF NoeudsTypes, Calme, Suit
<1> QED BY <1>1, <1>4, <1>6, <1>7, LignesMemes DEF NoeudsTypes

LEMMA UsageType ==
  ASSUME usage \in UnUsage
  PROVE  /\ [usage EXCEPT !.gestes = @ + 1] \in UnUsage
         /\ [usage EXCEPT !.gestes = @ + 1].demandes = usage.demandes
         /\ [usage EXCEPT !.pannes = @ + 1] \in UnUsage
         /\ [usage EXCEPT !.pannes = @ + 1].demandes = usage.demandes
         /\ [usage EXCEPT !.gestes = @ + 1].gestes = usage.gestes + 1
         /\ [usage EXCEPT !.pannes = @ + 1].gestes = usage.gestes
BY DEF UnUsage

LEMMA PasDemanderMaintenance ==
  ASSUME NoeudsSuivis, NEW a \in Admins, NEW n \in M!Noeuds, NEW b \in BOOLEAN,
         M!DemanderMaintenance(a, n, b)
  PROVE  NoeudsSuivis' /\ Calme
<1> DEFINE g == [pc |-> "poser", cible |-> n, confirme |-> b]
<1>1. /\ admin' = [admin EXCEPT ![a] = g] /\ usage' = [usage EXCEPT !.gestes = @ + 1]
      /\ UNCHANGED <<ligne, instant, vit, tour, tunnel, faits, bilan>>
  BY DEF M!DemanderMaintenance
<1>2. g \in UnGeste
  BY DEF UnGeste
<1> HIDE DEF g
<1>3. NoeudsTypes
  BY DEF NoeudsSuivis
<1>4. admin' \in [Admins -> UnGeste] /\ usage' \in UnUsage /\ usage'.demandes = usage.demandes
  BY <1>1, <1>2, <1>3, UsageType DEF NoeudsTypes
<1>5. instant \in Nat /\ Calme
  BY <1>1, <1>3, <1>4, BornesNoeuds DEF NoeudsTypes, Calme, Suit, Meme
<1> QED BY <1>1, <1>3, <1>4, <1>5, LignesMemes DEF NoeudsTypes, NoeudsSuivis, Vivants

LEMMA PasPoserMaintenance ==
  ASSUME NoeudsSuivis, NEW a \in Admins, M!PoserMaintenance(a)
  PROVE  NoeudsSuivis' /\ Calme
<1>1. /\ admin' = [admin EXCEPT ![a] = M!GesteRepos]
      /\ UNCHANGED <<instant, vit, tour, tunnel, faits, bilan, usage>>
  BY DEF M!PoserMaintenance
<1>2. NoeudsTypes /\ M!GesteRepos \in UnGeste
  BY DEF NoeudsSuivis, M!GesteRepos, UnGeste
<1>3. admin' \in [Admins -> UnGeste]
  BY <1>1, <1>2 DEF NoeudsTypes
<1>4. instant \in Nat
  BY <1>2, BornesNoeuds DEF NoeudsTypes
<1>5. CASE UNCHANGED ligne
  <2>1. Calme
    BY <1>1, <1>5 DEF Calme, Suit, Meme
  <2> QED BY <1>1, <1>2, <1>3, <1>4, <1>5, <2>1, LignesMemes DEF NoeudsTypes, NoeudsSuivis, Vivants
<1> DEFINE n == admin[a].cible
           l == [ligne[n] EXCEPT !.maint = TRUE]
<1>6. CASE ligne[n].la /\ ligne' = [ligne EXCEPT ![n].maint = TRUE]
  <2>1. CASE n \in M!Noeuds
    <3>1. ligne' = [ligne EXCEPT ![n] = l] /\ l \in Ecrit(ligne[n], TRUE)
      BY <1>6 DEF Ecrit
    <3>2. l.la
      BY <1>2, <1>6, <2>1 DEF NoeudsTypes, Lignes, UneLigne
    <3> HIDE DEF l, n
    <3> QED BY <1>1, <1>2, <1>3, <2>1, <3>1, <3>2, GesteSuivi DEF NoeudsTypes
  <2>2. CASE n \notin M!Noeuds
    <3>1. ligne' = ligne
      BY <1>2, <1>6, <2>2 DEF NoeudsTypes, Lignes
    <3> QED BY <1>5, <3>1
  <2> QED BY <2>1, <2>2
<1> QED BY <1>5, <1>6 DEF M!PoserMaintenance

LEMMA PasReglage ==
  ASSUME NoeudsSuivis, NEW a \in Admins, NEW n \in M!Noeuds,
         M!LeverMaintenance(a, n) \/ \E b \in BOOLEAN : M!ReglerExposition(a, n, b)
  PROVE  NoeudsSuivis' /\ Calme
<1>1. /\ usage' = [usage EXCEPT !.gestes = @ + 1] /\ ligne[n].la
      /\ UNCHANGED <<instant, vit, tour, tunnel, admin, faits, bilan>>
      /\ \/ ligne' = [ligne EXCEPT ![n].maint = FALSE]
         \/ \E b \in BOOLEAN : ligne' = [ligne EXCEPT ![n].expose = b]
  BY DEF M!LeverMaintenance, M!ReglerExposition
<1>2. NoeudsTypes /\ ligne[n] \in UneLigne
  BY DEF NoeudsSuivis, NoeudsTypes, Lignes
<1>3. usage' \in UnUsage /\ usage'.demandes = usage.demandes
  BY <1>1, <1>2, UsageType DEF NoeudsTypes
<1>4. CASE ligne' = [ligne EXCEPT ![n].maint = FALSE]
  <2> DEFINE l == [ligne[n] EXCEPT !.maint = FALSE]
  <2>1. ligne' = [ligne EXCEPT ![n] = l] /\ l \in Ecrit(ligne[n], FALSE) /\ l.la
    BY <1>1, <1>2, <1>4 DEF Ecrit, UneLigne
  <2> HIDE DEF l
  <2> QED BY <1>1, <1>2, <1>3, <2>1, GesteSuivi DEF NoeudsTypes
<1>5. ASSUME NEW b \in BOOLEAN, ligne' = [ligne EXCEPT ![n].expose = b]
      PROVE  NoeudsSuivis' /\ Calme
  <2> DEFINE l == [ligne[n] EXCEPT !.expose = b]
  <2>1. ligne' = [ligne EXCEPT ![n] = l] /\ l \in Ecrit(ligne[n], b) /\ l.la
    BY <1>1, <1>2, <1>5 DEF Ecrit, UneLigne
  <2> HIDE DEF l
  <2> QED BY <1>1, <1>2, <1>3, <2>1, GesteSuivi DEF NoeudsTypes
<1> QED BY <1>1, <1>4, <1>5

(* A silent node is not alive: its row may go.                             *)
LEMMA PasOubliNoeud ==
  ASSUME NoeudsSuivis, NEW n \in M!Noeuds, NEW b \in BOOLEAN,
         (\E a \in Admins : M!OublierNoeud(a, n)) \/ M!CleanupStaleNodes(n, b)
  PROVE  NoeudsSuivis' /\ Calme
<1>1. /\ ligne[n].battu + 1 < instant
      /\ UNCHANGED <<instant, vit, tour, tunnel, admin, faits, bilan, usage>>
      /\ \/ ligne' = [ligne EXCEPT ![n].la = FALSE]
         \/ ligne' = [ligne EXCEPT ![n].enLigne = FALSE]
  BY DEF M!OublierNoeud, M!CleanupStaleNodes
<1>2. NoeudsTypes /\ ligne[n] \in UneLigne
  BY DEF NoeudsSuivis, NoeudsTypes, Lignes
<1>3. n \notin vit \cup Proxys
  <2>1. ligne[n].battu \in Nat /\ instant \in Nat
    BY <1>2, BornesNoeuds DEF NoeudsTypes, UneLigne
  <2> QED BY <1>1, <2>1 DEF NoeudsSuivis, Vivants
<1>4. CASE ligne' = [ligne EXCEPT ![n].la = FALSE]
  <2> DEFINE l == [ligne[n] EXCEPT !.la = FALSE]
  <2>1. ligne' = [ligne EXCEPT ![n] = l] /\ l \in Ecrit(ligne[n], FALSE)
    BY <1>4 DEF Ecrit
  <2> HIDE DEF l
  <2> QED BY <1>1, <1>2, <1>3, <2>1, GesteSuivi DEF NoeudsTypes
<1>5. CASE ligne' = [ligne EXCEPT ![n].enLigne = FALSE]
  <2> DEFINE l == [ligne[n] EXCEPT !.enLigne = FALSE]
  <2>1. ligne' = [ligne EXCEPT ![n] = l] /\ l \in Ecrit(ligne[n], FALSE)
    BY <1>5 DEF Ecrit
  <2> HIDE DEF l
  <2> QED BY <1>1, <1>2, <1>3, <2>1, GesteSuivi DEF NoeudsTypes
<1> QED BY <1>1, <1>4, <1>5

-----------------------------------------------------------------------------
(* A tunnel that opens or closes, a core that starts, time that passes.    *)
LEMMA PasTunnel ==
  ASSUME NoeudsSuivis, NEW m \in Machines,
         \/ \E c \in Cores, p \in Proxys \cup {"nul"} : M!Connecter(m, c, p)
         \/ M!Partir(m)
  PROVE  NoeudsSuivis' /\ Calme
<1>1. UNCHANGED <<ligne, instant, vit, tour, admin, faits, bilan, usage>>
  BY DEF M!Connecter, M!Partir
<1>2. NoeudsTypes
  BY DEF NoeudsSuivis
<1>3. tunnel' \in [Machines -> {M!Absent} \cup [core : Cores, par : Proxys \cup {"nul"}]]
  BY <1>2 DEF NoeudsTypes, M!Connecter, M!Partir
<1>4. instant \in Nat /\ Calme
  BY <1>1, <1>2, BornesNoeuds DEF NoeudsTypes, Calme, Suit, Meme
<1> QED BY <1>1, <1>2, <1>3, <1>4, LignesMemes DEF NoeudsTypes, NoeudsSuivis, Vivants

(* The row of a core that beats.                                           *)
LEMMA CoeurBattu ==
  ASSUME NoeudsSuivis, NEW c \in Cores, ligne' = [ligne EXCEPT ![c] = M!LigneBattue(@)]
  PROVE  /\ Lignes(ligne') /\ instant \in Nat
         /\ \A n \in M!Noeuds : ligne'[n] = IF n = c THEN M!LigneBattue(ligne[c]) ELSE ligne[n]
         /\ \A n \in M!Noeuds : Meme(ligne[n], ligne'[n])
                                \/ (n = c /\ ~ligne[c].la /\ Meme(M!LigneNeuve, ligne'[n]))
         /\ \A n \in M!Noeuds : n \in vit \cup Proxys \cup {c} =>
              ligne'[n].la /\ instant <= ligne'[n].battu + 1
<1>1. NoeudsTypes /\ c \in M!Noeuds /\ ligne[c] \in UneLigne /\ instant \in Nat
  BY BornesNoeuds DEF NoeudsSuivis, NoeudsTypes, Lignes, M!Noeuds
<1> DEFINE l == M!LigneBattue(ligne[c])
<1>2. /\ l \in UneLigne /\ l.la /\ l.battu = instant
      /\ ligne[c].la => Meme(ligne[c], l)
      /\ ~ligne[c].la => Meme(M!LigneNeuve, l)
  BY <1>1, LigneBattue
<1>3. ligne' = [ligne EXCEPT ![c] = l]
  OBVIOUS
<1> HIDE DEF l
<1>4. Lignes(ligne') /\ \A n \in M!Noeuds : ligne'[n] = IF n = c THEN l ELSE ligne[n]
  BY <1>1, <1>2, <1>3 DEF NoeudsTypes, Lignes
<1>5. \A n \in M!Noeuds : Meme(ligne[n], ligne'[n])
                          \/ (n = c /\ ~ligne[c].la /\ Meme(M!LigneNeuve, ligne'[n]))
  BY <1>2, <1>4 DEF Meme
<1>6. \A n \in M!Noeuds : n \in vit \cup Proxys \cup {c} =>
         ligne'[n].la /\ instant <= ligne'[n].battu + 1
  BY <1>1, <1>2, <1>4 DEF NoeudsSuivis, Vivants
<1>7. \A n \in M!Noeuds : ligne'[n] = IF n = c THEN M!LigneBattue(ligne[c]) ELSE ligne[n]
  BY <1>4 DEF l
<1> QED BY <1>1, <1>4, <1>5, <1>6, <1>7

LEMMA PasDemarrer ==
  ASSUME NoeudsSuivis, NEW c \in Cores, M!Demarrer(c)
  PROVE  NoeudsSuivis' /\ Calme
<1>1. /\ ligne' = [ligne EXCEPT ![c] = M!LigneBattue(@)] /\ vit' = vit \cup {c} /\ c \notin vit
      /\ UNCHANGED <<instant, tour, tunnel, admin, faits, bilan, usage>>
  BY DEF M!Demarrer
<1>2. NoeudsTypes
  BY DEF NoeudsSuivis
<1>3. /\ Lignes(ligne') /\ instant \in Nat
      /\ \A n \in M!Noeuds : Meme(ligne[n], ligne'[n])
                             \/ (n = c /\ ~ligne[c].la /\ Meme(M!LigneNeuve, ligne'[n]))
      /\ \A n \in M!Noeuds : n \in vit \cup Proxys \cup {c} =>
           ligne'[n].la /\ instant <= ligne'[n].battu + 1
  BY <1>1, CoeurBattu
<1>4. Calme
  BY <1>1, <1>3 DEF Calme, Suit
<1>5. vit \subseteq vit' /\ vit' \subseteq Cores /\ \A n \in vit' \cup Proxys : n \in M!Noeuds
  BY <1>1, <1>2 DEF NoeudsTypes, M!Noeuds
<1>6. \A n \in vit' \cup Proxys : ligne'[n].la /\ instant' <= ligne'[n].battu + 1
  BY <1>1, <1>3, <1>5
<1> QED BY <1>1, <1>2, <1>3, <1>4, <1>5, <1>6, LignesMemes DEF NoeudsTypes

LEMMA PasAvancer ==
  ASSUME NoeudsSuivis, M!Avancer
  PROVE  NoeudsSuivis' /\ Calme /\ \A n \in M!Noeuds : Regles(ligne[n], ligne'[n])
<1>1. /\ instant <= MaxInstant /\ instant' = instant + 1
      /\ \A c \in vit : ligne[c].la /\ ligne[c].battu = instant
      /\ ligne' = [n \in M!Noeuds |-> IF n \in Proxys
                                      THEN [ligne[n] EXCEPT !.battu = instant + 1]
                                      ELSE ligne[n]]
      /\ UNCHANGED <<vit, tour, tunnel, admin, faits, bilan, usage>>
  BY DEF M!Avancer
<1>2. NoeudsTypes
  BY DEF NoeudsSuivis
<1>3. instant \in Nat /\ instant' \in 1..MaxInstant + 1 /\ instant <= instant'
  BY <1>1, <1>2, BornesNoeuds DEF NoeudsTypes
<1>4. \A n \in M!Noeuds : /\ ligne'[n] \in UneLigne /\ Meme(ligne[n], ligne'[n])
                          /\ Regles(ligne[n], ligne'[n])
                          /\ n \in Proxys => ligne'[n].battu = instant + 1
                          /\ n \notin Proxys => ligne'[n] = ligne[n]
  <2> SUFFICES ASSUME NEW n \in M!Noeuds
               PROVE  /\ ligne'[n] \in UneLigne /\ Meme(ligne[n], ligne'[n])
                      /\ Regles(ligne[n], ligne'[n])
                      /\ n \in Proxys => ligne'[n].battu = instant + 1
                      /\ n \notin Proxys => ligne'[n] = ligne[n]
    OBVIOUS
  <2>1. ligne[n] \in UneLigne
    BY <1>2 DEF NoeudsTypes, Lignes
  <2>2. CASE n \in Proxys
    BY <1>1, <1>3, <2>1, <2>2 DEF UneLigne, Meme, Regles
  <2>3. CASE n \notin Proxys
    BY <1>1, <2>1, <2>3 DEF Meme, Regles
  <2> QED BY <2>2, <2>3
<1>5. Lignes(ligne') /\ Calme
  BY <1>1, <1>4 DEF Lignes, Calme, Suit
<1>6. \A n \in vit \cup Proxys : ligne'[n].la /\ instant' <= ligne'[n].battu + 1
  <2> SUFFICES ASSUME NEW n \in vit \cup Proxys
               PROVE  ligne'[n].la /\ instant' <= ligne'[n].battu + 1
    OBVIOUS
  <2>1. n \in M!Noeuds /\ ligne[n].la
    BY <1>2 DEF NoeudsSuivis, Vivants, NoeudsTypes, M!Noeuds
  <2> QED BY <1>1, <1>3, <1>4, <2>1 DEF Regles
<1> QED BY <1>1, <1>2, <1>3, <1>4, <1>5, <1>6, LignesMemes DEF NoeudsTypes

-----------------------------------------------------------------------------
(* A step of the tour t of the core c for the node k: its request stays.   *)
TourAvance(c, k, t) ==
  /\ t \in UnTour /\ tour' = [tour EXCEPT ![c][k] = t] /\ c \in vit
  /\ tour[c][k].phase # "repos"
  /\ t.num = tour[c][k].num /\ t.dem = tour[c][k].dem /\ t.faite = tour[c][k].faite
  /\ UNCHANGED <<instant, vit, admin, faits>> /\ usage'.demandes = usage.demandes

LEMMA TourSuivi ==
  ASSUME NoeudsSuivis, NEW c \in Cores, NEW k \in M!Tours(c), NEW t, TourAvance(c, k, t),
         Lignes(ligne'), Bilans(bilan'), usage' \in UnUsage,
         \A n \in M!Noeuds : /\ ligne'[n].num = ligne[n].num /\ ligne'[n].dem = ligne[n].dem
                             /\ ligne'[n].la = ligne[n].la /\ ligne'[n].battu = ligne[n].battu,
         tunnel' \in [Machines -> {M!Absent} \cup [core : Cores, par : Proxys \cup {"nul"}]]
  PROVE  /\ NoeudsSuivis'
         /\ \A d \in Cores : \A j \in M!Tours(d) :
              tour'[d][j] = IF d = c /\ j = k THEN t ELSE tour[d][j]
<1>1. NoeudsTypes /\ Vivants /\ Numeros
  BY DEF NoeudsSuivis
<1>2. /\ Memoires(tour', faits')
      /\ \A d \in Cores : \A j \in M!Tours(d) :
           tour'[d][j] = IF d = c /\ j = k THEN t ELSE tour[d][j]
  BY <1>1, UnTourChange DEF NoeudsTypes, TourAvance
<1>3. NoeudsTypes'
  BY <1>1, <1>2 DEF NoeudsTypes, TourAvance
<1>4. Vivants'
  <2>1. \A n \in vit' \cup Proxys : ligne'[n].la /\ instant' <= ligne'[n].battu + 1
    <3>1. \A n \in vit' \cup Proxys : n \in M!Noeuds
      BY <1>3 DEF NoeudsTypes, M!Noeuds
    <3> QED BY <1>1, <3>1 DEF Vivants, TourAvance
  <2>2. \A d \in Cores : \A j \in M!Tours(d) : tour'[d][j].phase # "repos" => d \in vit'
    BY <1>1, <1>2 DEF Vivants, TourAvance
  <2> QED BY <2>1, <2>2 DEF Vivants
<1>5. Numeros'
  <2>1. \A n \in M!Noeuds : /\ ligne'[n].num <= usage'.demandes /\ ligne'[n].dem <= instant'
                            /\ ligne'[n].dem # 0 => ligne'[n].num # 0
    BY <1>1 DEF Numeros, TourAvance
  <2>2. \A d \in Cores : \A j \in M!Tours(d) :
           /\ tour'[d][j].phase # "repos" => tour'[d][j].num \in 1..usage'.demandes
           /\ faits'[d][j] \subseteq 1..usage'.demandes
           /\ ligne'[j].num \in faits'[d][j] => tour'[d][j].faite = ligne'[j].dem
    <3> SUFFICES ASSUME NEW d \in Cores, NEW j \in M!Tours(d)
                 PROVE  /\ tour'[d][j].phase # "repos" => tour'[d][j].num \in 1..usage'.demandes
                        /\ faits'[d][j] \subseteq 1..usage'.demandes
                        /\ ligne'[j].num \in faits'[d][j] => tour'[d][j].faite = ligne'[j].dem
      OBVIOUS
    <3>1. j \in M!Noeuds
      BY BornesNoeuds
    <3>2. /\ tour'[d][j].num = tour[d][j].num /\ tour'[d][j].faite = tour[d][j].faite
          /\ tour'[d][j].phase # "repos" => tour[d][j].phase # "repos"
      BY <1>2 DEF TourAvance
    <3>3. /\ tour[d][j].phase # "repos" => tour[d][j].num \in 1..usage.demandes
          /\ faits[d][j] \subseteq 1..usage.demandes
          /\ ligne[j].num \in faits[d][j] => tour[d][j].faite = ligne[j].dem
      BY <1>1 DEF Numeros
    <3>4. faits' = faits /\ usage'.demandes = usage.demandes
      BY DEF TourAvance
    <3> QED BY <3>1, <3>2, <3>3, <3>4
  <2> QED BY <2>1, <2>2 DEF Numeros
<1> QED BY <1>2, <1>3, <1>4, <1>5 DEF NoeudsSuivis

-----------------------------------------------------------------------------
(* The tour t of the core c for the node k counts e closings more, and so  *)
(* does its request.                                                       *)
TourCompte(c, k, t, e) ==
  /\ TourAvance(c, k, t) /\ t.phase = "ferme" /\ e \in {0, 1}
  /\ t.fermes = tour[c][k].fermes + e /\ ligne' = ligne
  /\ \A d \in M!Demandes : /\ bilan'[d].finis = bilan[d].finis
                           /\ bilan'[d].fermes = IF d = t.num THEN bilan[d].fermes + e
                                                 ELSE bilan[d].fermes

LEMMA TourActif ==
  ASSUME NoeudsSuivis, NEW c \in Cores, NEW k \in M!Tours(c)
  PROVE  /\ tour[c][k] \in UnTour /\ k \in M!Noeuds
         /\ tour[c][k].phase # "repos" => tour[c][k].num \in M!Demandes /\ c \in vit
BY BornesNoeuds DEF NoeudsSuivis, NoeudsTypes, Memoires, Numeros, Vivants, UnUsage, M!Demandes

LEMMA PasLister ==
  ASSUME NoeudsSuivis, NEW c \in Cores, NEW k \in M!Tours(c), M!Lister(c, k)
  PROVE  NoeudsSuivis' /\ \E t : TourCompte(c, k, t, 0)
<1> DEFINE v == M!Vue(c, k)
           x1 == [tour[c][k] EXCEPT !.phase = "ferme"]
           x2 == [x1 EXCEPT !.reste = v]
<1>1. /\ tour' = [tour EXCEPT ![c][k] = x2] /\ tour[c][k].phase = "lancee" /\ c \in vit
      /\ UNCHANGED <<ligne, instant, vit, tunnel, admin, faits, bilan, usage>>
  BY DEF M!Lister
<1>2. NoeudsTypes /\ tour[c][k] \in UnTour /\ tour[c][k].num \in M!Demandes
  BY <1>1, TourActif DEF NoeudsSuivis
<1>3. v \subseteq Machines
  BY DEF M!Vue
<1>4. /\ x1 \in UnTour /\ x1.phase = "ferme" /\ x1.num = tour[c][k].num /\ x1.dem = tour[c][k].dem
      /\ x1.faite = tour[c][k].faite /\ x1.fermes = tour[c][k].fermes
  BY <1>2 DEF UnTour
<1> HIDE DEF x1, v
<1>5. /\ x2 \in UnTour /\ x2.phase = "ferme" /\ x2.num = tour[c][k].num /\ x2.dem = tour[c][k].dem
      /\ x2.faite = tour[c][k].faite /\ x2.fermes = tour[c][k].fermes
  BY <1>3, <1>4 DEF UnTour
<1> HIDE DEF x2
<1>6. TourAvance(c, k, x2)
  BY <1>1, <1>5 DEF TourAvance
<1>7. \A d \in M!Demandes : bilan[d].fermes \in Nat
  BY <1>2 DEF NoeudsTypes, Bilans
<1>8. TourCompte(c, k, x2, 0)
  BY <1>1, <1>2, <1>5, <1>6, <1>7 DEF TourCompte, UnTour
<1>9. NoeudsSuivis'
  BY <1>1, <1>2, <1>6, TourSuivi DEF NoeudsTypes
<1> QED BY <1>8, <1>9

LEMMA PasFermer ==
  ASSUME NoeudsSuivis, NEW c \in Cores, NEW k \in M!Tours(c), NEW m \in Machines,
         M!FermerUn(c, k, m)
  PROVE  NoeudsSuivis' /\ \E t, e : TourCompte(c, k, t, e)
<1> DEFINE r == tour[c][k].reste \ {m}
           n == tour[c][k].num
           x1 == [tour[c][k] EXCEPT !.reste = r]
           f == x1.fermes + 1
           x2 == [x1 EXCEPT !.fermes = f]
<1>1. /\ tour[c][k].phase = "ferme" /\ c \in vit
      /\ UNCHANGED <<ligne, instant, vit, admin, faits, usage>>
  BY DEF M!FermerUn
<1>2. NoeudsTypes /\ tour[c][k] \in UnTour /\ n \in M!Demandes
  BY <1>1, TourActif DEF NoeudsSuivis
<1>3. /\ x1 \in UnTour /\ x1.phase = "ferme" /\ x1.num = tour[c][k].num /\ x1.dem = tour[c][k].dem
      /\ x1.faite = tour[c][k].faite /\ x1.fermes = tour[c][k].fermes
  BY <1>1, <1>2 DEF UnTour
<1>4. \A d \in M!Demandes : bilan[d].fermes \in Nat
  BY <1>2 DEF NoeudsTypes, Bilans
<1>5. CASE /\ tunnel' = [tunnel EXCEPT ![m] = M!Absent]
           /\ tour' = [tour EXCEPT ![c][k] = x2]
           /\ bilan' = [bilan EXCEPT ![n].fermes = @ + 1]
  <2> HIDE DEF x1, n
  <2>1. /\ x2 \in UnTour /\ x2.phase = "ferme" /\ x2.num = tour[c][k].num /\ x2.dem = tour[c][k].dem
        /\ x2.faite = tour[c][k].faite /\ x2.fermes = tour[c][k].fermes + 1
    BY <1>2, <1>3 DEF UnTour
  <2> HIDE DEF x2
  <2>2. TourAvance(c, k, x2)
    BY <1>1, <1>5, <2>1 DEF TourAvance
  <2>3. /\ Bilans(bilan')
        /\ \A d \in M!Demandes : /\ bilan'[d].finis = bilan[d].finis
                                 /\ bilan'[d].fermes = IF d = n THEN bilan[d].fermes + 1
                                                       ELSE bilan[d].fermes
    BY <1>2, <1>4, <1>5 DEF NoeudsTypes, Bilans
  <2>4. x2.num = n
    BY <2>1 DEF n
  <2>5. TourCompte(c, k, x2, 1)
    BY <1>1, <2>1, <2>2, <2>3, <2>4 DEF TourCompte
  <2>6. tunnel' \in [Machines -> {M!Absent} \cup [core : Cores, par : Proxys \cup {"nul"}]]
    BY <1>2, <1>5 DEF NoeudsTypes
  <2>7. NoeudsSuivis'
    BY <1>1, <1>2, <2>2, <2>3, <2>6, TourSuivi DEF NoeudsTypes
  <2> QED BY <2>5, <2>7
<1>6. CASE tour' = [tour EXCEPT ![c][k] = x1] /\ UNCHANGED <<tunnel, bilan>>
  <2> HIDE DEF x1, n
  <2>1. TourAvance(c, k, x1)
    BY <1>1, <1>3, <1>6 DEF TourAvance
  <2>2. TourCompte(c, k, x1, 0)
    BY <1>1, <1>2, <1>3, <1>4, <1>6, <2>1 DEF TourCompte, UnTour
  <2>3. NoeudsSuivis'
    BY <1>1, <1>2, <1>6, <2>1, TourSuivi DEF NoeudsTypes
  <2> QED BY <2>2, <2>3
<1>7. \/ /\ tunnel' = [tunnel EXCEPT ![m] = M!Absent]
         /\ tour' = [tour EXCEPT ![c][k] = x2]
         /\ bilan' = [bilan EXCEPT ![n].fermes = @ + 1]
      \/ tour' = [tour EXCEPT ![c][k] = x1] /\ UNCHANGED <<tunnel, bilan>>
  <2>1. CASE m \in M!Vue(c, k)
    <3>1. [tour[c][k] EXCEPT !.reste = tour[c][k].reste \ {m},
                              !.fermes = tour[c][k].fermes + 1] = x2
      BY <1>2 DEF UnTour
    <3> QED BY <2>1, <3>1 DEF M!FermerUn
  <2>2. CASE m \notin M!Vue(c, k)
    BY <2>2 DEF M!FermerUn
  <2> QED BY <2>1, <2>2
<1> QED BY <1>5, <1>6, <1>7

-----------------------------------------------------------------------------
(* The end of a tour: its row, if the request is still this one.           *)
LEMMA LigneFinie ==
  ASSUME NEW l \in UneLigne, NEW t \in UnTour, NEW propre \in BOOLEAN, instant \in Nat
  PROVE  LET x == M!LigneTerminee(l, t, propre)
         IN  /\ x \in UneLigne
             /\ x.num = l.num /\ x.dem = l.dem /\ x.battu = l.battu /\ Regles(l, x)
             /\ \/ x.term = l.term /\ x.ferm = l.ferm
                \/ l.dem = t.dem /\ x.ferm = IF propre THEN t.fermes ELSE l.ferm + t.fermes
<1>1. CASE l.la /\ l.dem = t.dem
  <2> DEFINE f == IF propre THEN t.fermes ELSE l.ferm + t.fermes
             x1 == [l EXCEPT !.term = instant]
             x2 == [x1 EXCEPT !.ferm = f]
  <2>0. M!LigneTerminee(l, t, propre) = x2
    BY <1>1 DEF M!LigneTerminee
  <2>1. f \in Nat
    BY DEF UneLigne, UnTour
  <2>2. /\ x1 \in UneLigne /\ x1.num = l.num /\ x1.dem = l.dem /\ Regles(l, x1)
        /\ x1.battu = l.battu
    BY DEF UneLigne, Regles
  <2> HIDE DEF x1, f
  <2>3. /\ x2 \in UneLigne /\ x2.num = l.num /\ x2.dem = l.dem /\ Regles(l, x2)
        /\ x2.battu = l.battu /\ x2.ferm = f
    BY <2>1, <2>2 DEF UneLigne, Regles
  <2> HIDE DEF x2
  <2> QED BY <1>1, <2>0, <2>3 DEF f
<1>2. CASE ~(l.la /\ l.dem = t.dem)
  <2>1. M!LigneTerminee(l, t, propre) = l
    BY <1>2, Zenon DEF M!LigneTerminee
  <2> QED BY <2>1 DEF Regles
<1> QED BY <1>1, <1>2

(* The tour t of c for k has ended: its request too, for c.                *)
TourFini(c, k, t) ==
  /\ TourAvance(c, k, t) /\ t.phase = "repos" /\ t.fermes = 0
  /\ \A d \in M!Demandes : /\ bilan'[d].fermes = bilan[d].fermes
                           /\ bilan'[d].finis = IF d = t.num THEN bilan[d].finis \cup {c}
                                                ELSE bilan[d].finis
  /\ \A n \in M!Noeuds : /\ ligne'[n].num = ligne[n].num /\ ligne'[n].dem = ligne[n].dem
                         /\ Regles(ligne[n], ligne'[n])
                         /\ \/ ligne'[n].term = ligne[n].term /\ ligne'[n].ferm = ligne[n].ferm
                            \/ /\ n = k /\ ligne[n].dem = t.dem
                               /\ ligne'[n].ferm = IF k = c THEN tour[c][k].fermes
                                                   ELSE ligne[n].ferm + tour[c][k].fermes

LEMMA PasTerminer ==
  ASSUME NoeudsSuivis, NEW c \in Cores, NEW k \in M!Tours(c), NEW b \in BOOLEAN,
         M!Terminer(c, k, b)
  PROVE  NoeudsSuivis' /\ \E t : TourFini(c, k, t)
<1> DEFINE n == tour[c][k].num
           x1 == [tour[c][k] EXCEPT !.phase = "repos"]
           x2 == [x1 EXCEPT !.fermes = 0]
           l == M!LigneTerminee(ligne[k], tour[c][k], k = c)
<1>1. /\ tour[c][k].phase = "ferme" /\ c \in vit
      /\ tour' = [tour EXCEPT ![c][k] = x2]
      /\ bilan' = [bilan EXCEPT ![n].finis = @ \cup {c}]
      /\ ligne' = ligne \/ ligne' = [ligne EXCEPT ![k] = l]
      /\ usage' = [usage EXCEPT !.pannes = IF b THEN @ ELSE @ + 1]
      /\ UNCHANGED <<instant, vit, tunnel, admin, faits>>
  BY DEF M!Terminer
<1>2. /\ NoeudsTypes /\ tour[c][k] \in UnTour /\ n \in M!Demandes /\ k \in M!Noeuds
      /\ ligne[k] \in UneLigne /\ instant \in Nat
  BY <1>1, TourActif, BornesNoeuds DEF NoeudsSuivis, NoeudsTypes, Lignes
<1>3. /\ x1 \in UnTour /\ x1.phase = "repos" /\ x1.num = tour[c][k].num /\ x1.dem = tour[c][k].dem
      /\ x1.faite = tour[c][k].faite
  BY <1>2 DEF UnTour
<1> HIDE DEF x1
<1>4. /\ x2 \in UnTour /\ x2.phase = "repos" /\ x2.num = tour[c][k].num /\ x2.dem = tour[c][k].dem
      /\ x2.faite = tour[c][k].faite /\ x2.fermes = 0
  BY <1>3 DEF UnTour
<1> HIDE DEF x2, n
<1>5. usage' \in UnUsage /\ usage'.demandes = usage.demandes
  BY <1>1, <1>2 DEF NoeudsTypes, UnUsage
<1>6. TourAvance(c, k, x2)
  BY <1>1, <1>4, <1>5 DEF TourAvance
<1>7. /\ Bilans(bilan')
      /\ \A d \in M!Demandes : /\ bilan'[d].fermes = bilan[d].fermes
                               /\ bilan'[d].finis = IF d = n THEN bilan[d].finis \cup {c}
                                                    ELSE bilan[d].finis
  BY <1>1, <1>2 DEF NoeudsTypes, Bilans
<1>8. /\ l \in UneLigne
      /\ l.num = ligne[k].num /\ l.dem = ligne[k].dem /\ l.battu = ligne[k].battu
      /\ Regles(ligne[k], l)
      /\ \/ l.term = ligne[k].term /\ l.ferm = ligne[k].ferm
         \/ /\ ligne[k].dem = tour[c][k].dem
            /\ l.ferm = IF k = c THEN tour[c][k].fermes ELSE ligne[k].ferm + tour[c][k].fermes
  BY <1>2, LigneFinie
<1> HIDE DEF l
<1>9. /\ Lignes(ligne')
      /\ \A j \in M!Noeuds : ligne'[j] = ligne[j] \/ (j = k /\ ligne'[j] = l)
  BY <1>1, <1>2, <1>8 DEF NoeudsTypes, Lignes
<1>10. \A j \in M!Noeuds : /\ ligne'[j].num = ligne[j].num /\ ligne'[j].dem = ligne[j].dem
                           /\ ligne'[j].la = ligne[j].la /\ ligne'[j].battu = ligne[j].battu
  BY <1>8, <1>9 DEF Regles
<1>11. NoeudsSuivis'
  BY <1>1, <1>2, <1>5, <1>6, <1>7, <1>9, <1>10, TourSuivi DEF NoeudsTypes
<1>12. x2.num = n
  BY <1>4 DEF n
<1>13. TourFini(c, k, x2)
  BY <1>4, <1>6, <1>7, <1>8, <1>9, <1>12 DEF TourFini, Regles
<1> QED BY <1>11, <1>13

-----------------------------------------------------------------------------
(* A purge is asked for the node n: its row has a new number, a date and   *)
(* nothing done.                                                           *)
PurgeDemandee(n) ==
  /\ usage'.demandes = usage.demandes + 1 /\ UNCHANGED <<instant, admin, tour, faits, bilan>>
  /\ Espacees => ligne[n].dem # instant
  /\ \A j \in M!Noeuds :
       IF j = n
       THEN /\ ligne'[j].num = usage.demandes + 1 /\ ligne'[j].dem = instant
            /\ ligne'[j].term = 0 /\ ligne'[j].ferm = 0
            /\ Regles(ligne[j], ligne'[j])
       ELSE ligne'[j] = ligne[j]

LEMMA PasDemanderPurge ==
  ASSUME NoeudsSuivis, NEW n \in M!Noeuds, M!DemanderPurge(n)
  PROVE  NoeudsSuivis' /\ PurgeDemandee(n)
<1> DEFINE d == usage.demandes + 1
           x1 == [ligne[n] EXCEPT !.num = d]
           x2 == [x1 EXCEPT !.dem = instant]
           x3 == [x2 EXCEPT !.term = 0]
           x4 == [x3 EXCEPT !.ferm = 0]
<1>1. /\ usage.demandes < MaxDemandes /\ (Espacees => ligne[n].dem # instant)
      /\ usage' = [usage EXCEPT !.demandes = @ + 1]
      /\ ligne' = [ligne EXCEPT ![n] = x4]
      /\ UNCHANGED <<instant, vit, tour, tunnel, admin, faits, bilan>>
  BY DEF M!DemanderPurge
<1>2. NoeudsTypes /\ Vivants /\ Numeros /\ ligne[n] \in UneLigne /\ instant \in Nat
  BY BornesNoeuds DEF NoeudsSuivis, NoeudsTypes, Lignes
<1>3. /\ d \in Nat /\ d \in 1..MaxDemandes /\ usage' \in UnUsage
      /\ usage'.demandes = d /\ usage.demandes \in Nat
  BY <1>1, <1>2, BornesNoeuds DEF NoeudsTypes, UnUsage
<1> HIDE DEF d
<1>4. x1 \in UneLigne /\ x1.num = d /\ x1.battu = ligne[n].battu /\ Regles(ligne[n], x1)
  BY <1>2, <1>3 DEF UneLigne, Regles
<1> HIDE DEF x1
<1>5. x2 \in UneLigne /\ x2.num = d /\ x2.battu = ligne[n].battu /\ Regles(ligne[n], x2)
      /\ x2.dem = instant
  BY <1>2, <1>4 DEF UneLigne, Regles
<1> HIDE DEF x2
<1>6. x3 \in UneLigne /\ x3.num = d /\ x3.battu = ligne[n].battu /\ Regles(ligne[n], x3)
      /\ x3.dem = instant /\ x3.term = 0
  BY <1>5 DEF UneLigne, Regles
<1> HIDE DEF x3
<1>7. x4 \in UneLigne /\ x4.num = d /\ x4.battu = ligne[n].battu /\ Regles(ligne[n], x4)
      /\ x4.dem = instant /\ x4.term = 0 /\ x4.ferm = 0
  BY <1>6 DEF UneLigne, Regles
<1> HIDE DEF x4
<1>8. Lignes(ligne') /\ \A j \in M!Noeuds : ligne'[j] = IF j = n THEN x4 ELSE ligne[j]
  BY <1>1, <1>2, <1>7 DEF NoeudsTypes, Lignes
<1>9. PurgeDemandee(n)
  BY <1>1, <1>3, <1>7, <1>8 DEF PurgeDemandee, d
<1>10. NoeudsTypes'
  BY <1>1, <1>2, <1>3, <1>8 DEF NoeudsTypes
<1>11. Vivants'
  <2>1. \A j \in vit \cup Proxys : j \in M!Noeuds
    BY <1>2 DEF NoeudsTypes, M!Noeuds
  <2>2. \A j \in vit \cup Proxys : ligne'[j].la /\ instant <= ligne'[j].battu + 1
    BY <1>2, <1>7, <1>8, <2>1 DEF Vivants, Regles
  <2> QED BY <1>1, <1>2, <2>2 DEF Vivants
<1>12. Numeros'
  <2>1. \A j \in M!Noeuds : /\ ligne'[j].num <= usage'.demandes /\ ligne'[j].dem <= instant'
                            /\ ligne'[j].dem # 0 => ligne'[j].num # 0
    <3> SUFFICES ASSUME NEW j \in M!Noeuds
                 PROVE  /\ ligne'[j].num <= usage'.demandes /\ ligne'[j].dem <= instant'
                        /\ ligne'[j].dem # 0 => ligne'[j].num # 0
      OBVIOUS
    <3>1. CASE j = n
      BY <1>1, <1>2, <1>3, <1>7, <1>8, <3>1
    <3>2. CASE j # n
      <4>1. ligne[j].num \in Nat
        BY <1>2 DEF NoeudsTypes, Lignes, UneLigne
      <4> QED BY <1>1, <1>2, <1>3, <1>8, <3>2, <4>1 DEF Numeros, d
    <3> QED BY <3>1, <3>2
  <2>2. \A c \in Cores : \A k \in M!Tours(c) :
           /\ tour'[c][k].phase # "repos" => tour'[c][k].num \in 1..usage'.demandes
           /\ faits'[c][k] \subseteq 1..usage'.demandes
           /\ ligne'[k].num \in faits'[c][k] => tour'[c][k].faite = ligne'[k].dem
    <3> SUFFICES ASSUME NEW c \in Cores, NEW k \in M!Tours(c)
                 PROVE  /\ tour'[c][k].phase # "repos" => tour'[c][k].num \in 1..usage'.demandes
                        /\ faits'[c][k] \subseteq 1..usage'.demandes
                        /\ ligne'[k].num \in faits'[c][k] => tour'[c][k].faite = ligne'[k].dem
      OBVIOUS
    <3>1. k \in M!Noeuds
      BY BornesNoeuds
    <3>2. /\ tour[c][k].phase # "repos" => tour[c][k].num \in 1..usage.demandes
          /\ faits[c][k] \subseteq 1..usage.demandes
          /\ ligne[k].num \in faits[c][k] => tour[c][k].faite = ligne[k].dem
      BY <1>2 DEF Numeros
    <3>3. tour' = tour /\ faits' = faits /\ usage'.demandes = usage.demandes + 1
      BY <1>1, <1>3 DEF d
    <3>4. \A i \in 1..usage.demandes : i \in 1..usage'.demandes /\ i # d
      BY <1>3, <3>3 DEF d
    <3>5. ligne'[k] = IF k = n THEN x4 ELSE ligne[k]
      BY <1>8, <3>1
    <3> QED BY <1>7, <3>2, <3>3, <3>4, <3>5
  <2> QED BY <2>1, <2>2 DEF Numeros
<1> QED BY <1>9, <1>10, <1>11, <1>12 DEF NoeudsSuivis

-----------------------------------------------------------------------------
(* A core stops: its tours and what it remembers are lost.                 *)
LEMMA PasArreter ==
  ASSUME NoeudsSuivis, NEW c \in Cores, M!Arreter(c)
  PROVE  /\ NoeudsSuivis' /\ UNCHANGED <<ligne, instant, admin, bilan>>
         /\ \A d \in Cores : \A j \in M!Tours(d) :
              tour'[d][j] = tour[d][j] \/ (tour'[d][j].phase = "repos" /\ tour'[d][j].fermes = 0)
<1>1. /\ vit' = vit \ {c} /\ UNCHANGED <<ligne, instant, admin, bilan>>
      /\ tunnel' = [m \in Machines |-> IF tunnel[m].core = c THEN M!Absent ELSE tunnel[m]]
      /\ tour' = [tour EXCEPT ![c] = [k \in M!Tours(c) |-> M!TourRepos]]
      /\ faits' = [faits EXCEPT ![c] = [k \in M!Tours(c) |-> {}]]
      /\ usage' = [usage EXCEPT !.pannes = @ + 1]
  BY DEF M!Arreter
<1>2. NoeudsTypes /\ Vivants /\ Numeros
  BY DEF NoeudsSuivis
<1>3. usage' \in UnUsage /\ usage'.demandes = usage.demandes
  BY <1>1, <1>2, UsageType DEF NoeudsTypes
<1>4. /\ Memoires(tour', faits')
      /\ \A d \in Cores : \A j \in M!Tours(d) :
           /\ tour'[d][j] = IF d = c THEN M!TourRepos ELSE tour[d][j]
           /\ faits'[d][j] = IF d = c THEN {} ELSE faits[d][j]
  BY <1>1, <1>2, ReposType DEF NoeudsTypes, Memoires
<1>5. tunnel' \in [Machines -> {M!Absent} \cup [core : Cores, par : Proxys \cup {"nul"}]]
  BY <1>1, <1>2 DEF NoeudsTypes
<1>6. NoeudsTypes'
  BY <1>1, <1>2, <1>3, <1>4, <1>5 DEF NoeudsTypes
<1>7. Vivants'
  BY <1>1, <1>2, <1>4, ReposType DEF Vivants
<1>8. Numeros'
  BY <1>1, <1>2, <1>3, <1>4, ReposType DEF Numeros
<1> QED BY <1>1, <1>4, <1>6, <1>7, <1>8, ReposType DEF NoeudsSuivis

-----------------------------------------------------------------------------
LEMMA TourLance ==
  ASSUME NEW t \in UnTour, NEW l \in UneLigne
  PROVE  /\ M!Lance(t, l) \in UnTour
         /\ M!Lance(t, l).phase = "lancee" /\ M!Lance(t, l).faite = l.dem
         /\ M!Lance(t, l).dem = l.dem /\ M!Lance(t, l).num = l.num /\ M!Lance(t, l).fermes = 0
<1> DEFINE x1 == [t EXCEPT !.phase = "lancee"]
           x2 == [x1 EXCEPT !.faite = l.dem]
           x3 == [x2 EXCEPT !.dem = l.dem]
           x4 == [x3 EXCEPT !.num = l.num]
           x5 == [x4 EXCEPT !.reste = {}]
           x6 == [x5 EXCEPT !.fermes = 0]
<1>0. M!Lance(t, l) = x6
  BY DEF M!Lance
<1>1. l.dem \in Nat /\ l.num \in Nat
  BY DEF UneLigne
<1>2. x1 \in UnTour /\ x1.phase = "lancee"
  BY DEF UnTour
<1> HIDE DEF x1
<1>3. x2 \in UnTour /\ x2.phase = "lancee" /\ x2.faite = l.dem
  BY <1>1, <1>2 DEF UnTour
<1> HIDE DEF x2
<1>4. x3 \in UnTour /\ x3.phase = "lancee" /\ x3.faite = l.dem /\ x3.dem = l.dem
  BY <1>1, <1>3 DEF UnTour
<1> HIDE DEF x3
<1>5. x4 \in UnTour /\ x4.phase = "lancee" /\ x4.faite = l.dem /\ x4.dem = l.dem
      /\ x4.num = l.num
  BY <1>1, <1>4 DEF UnTour
<1> HIDE DEF x4
<1>6. x5 \in UnTour /\ x5.phase = "lancee" /\ x5.faite = l.dem /\ x5.dem = l.dem
      /\ x5.num = l.num
  BY <1>5 DEF UnTour
<1> HIDE DEF x5
<1>7. x6 \in UnTour /\ x6.phase = "lancee" /\ x6.faite = l.dem /\ x6.dem = l.dem
      /\ x6.num = l.num /\ x6.fermes = 0
  BY <1>6 DEF UnTour
<1> HIDE DEF x6
<1> QED BY <1>0, <1>7

(* A tour is launched for the request of the row l.                        *)
Lancement(c, k, l) ==
  /\ tour[c][k].phase = "repos" /\ tour[c][k].faite # l.dem /\ l.dem # 0
  /\ tour'[c][k].phase = "lancee" /\ tour'[c][k].fermes = 0 /\ tour'[c][k].num = l.num
  /\ tour'[c][k].dem = l.dem /\ tour'[c][k].faite = l.dem
  /\ faits'[c][k] = faits[c][k] \cup {l.num}

(* The heartbeat of c launches what it reads it has to, and nothing else.  *)
CoeurBat(c) ==
  /\ c \in vit /\ UNCHANGED <<instant, vit, admin, bilan, usage>>
  /\ \A n \in M!Noeuds : Meme(ligne[n], ligne'[n])
  /\ \A d \in Cores : \A j \in M!Tours(d) :
       \/ tour'[d][j] = tour[d][j] /\ faits'[d][j] = faits[d][j]
       \/ d = c /\ Lancement(d, j, ligne'[j])

LEMMA PasBattement ==
  ASSUME NoeudsSuivis, NEW c \in Cores, M!Battement(c)
  PROVE  NoeudsSuivis' /\ CoeurBat(c)
<1>1. /\ c \in vit /\ ligne' = [ligne EXCEPT ![c] = M!LigneBattue(@)]
      /\ tour' = [tour EXCEPT ![c] =
            [k \in M!Tours(c) |-> IF M!ALancer(c, k, ligne'[k])
                                  THEN M!Lance(tour[c][k], ligne'[k]) ELSE tour[c][k]]]
      /\ faits' = [faits EXCEPT ![c] =
            [k \in M!Tours(c) |-> IF M!ALancer(c, k, ligne'[k])
                                  THEN faits[c][k] \cup {ligne'[k].num} ELSE faits[c][k]]]
      /\ UNCHANGED <<instant, vit, tunnel, admin, bilan, usage>>
  BY DEF M!Battement
<1>2. NoeudsTypes /\ Vivants /\ Numeros
  BY DEF NoeudsSuivis
<1>3. /\ Lignes(ligne') /\ instant \in Nat
      /\ \A n \in M!Noeuds : Meme(ligne[n], ligne'[n])
      /\ \A n \in M!Noeuds : n \in vit \cup Proxys =>
           ligne'[n].la /\ instant <= ligne'[n].battu + 1
  BY <1>1, <1>2, CoeurBattu DEF Vivants
<1>4. \A k \in M!Tours(c) : /\ ligne'[k] \in UneLigne /\ tour[c][k] \in UnTour /\ k \in M!Noeuds
                            /\ faits[c][k] \subseteq Nat
  BY <1>2, <1>3, BornesNoeuds DEF NoeudsTypes, Memoires, Lignes
<1>5. \A k \in M!Tours(c) : M!ALancer(c, k, ligne'[k]) =>
         tour[c][k].phase = "repos" /\ tour[c][k].faite # ligne'[k].dem /\ ligne'[k].dem # 0
  BY DEF M!ALancer, M!Demandee, M!PurgeEnCours
<1> DEFINE neuf == [k \in M!Tours(c) |-> IF M!ALancer(c, k, ligne'[k])
                                         THEN M!Lance(tour[c][k], ligne'[k]) ELSE tour[c][k]]
           sus == [k \in M!Tours(c) |-> IF M!ALancer(c, k, ligne'[k])
                                        THEN faits[c][k] \cup {ligne'[k].num} ELSE faits[c][k]]
<1>6. neuf \in [M!Tours(c) -> UnTour]
  BY <1>4, TourLance
<1>7. sus \in [M!Tours(c) -> SUBSET Nat]
  <2>1. \A k \in M!Tours(c) : ligne'[k].num \in Nat
    BY <1>4 DEF UneLigne
  <2> QED BY <1>4, <2>1
<1>8. \A k \in M!Tours(c) :
         \/ neuf[k] = tour[c][k] /\ sus[k] = faits[c][k]
         \/ /\ tour[c][k].phase = "repos" /\ tour[c][k].faite # ligne'[k].dem /\ ligne'[k].dem # 0
            /\ neuf[k].phase = "lancee" /\ neuf[k].fermes = 0 /\ neuf[k].num = ligne'[k].num
            /\ neuf[k].dem = ligne'[k].dem /\ neuf[k].faite = ligne'[k].dem
            /\ sus[k] = faits[c][k] \cup {ligne'[k].num}
  BY <1>4, <1>5, TourLance
<1>9. tour' = [tour EXCEPT ![c] = neuf] /\ faits' = [faits EXCEPT ![c] = sus]
  BY <1>1
<1> HIDE DEF neuf, sus
<1>10. /\ Memoires(tour', faits')
       /\ \A d \in Cores : \A j \in M!Tours(d) :
            IF d = c THEN tour'[d][j] = neuf[j] /\ faits'[d][j] = sus[j]
                     ELSE tour'[d][j] = tour[d][j] /\ faits'[d][j] = faits[d][j]
  BY <1>2, <1>6, <1>7, <1>9 DEF NoeudsTypes, Memoires
<1>11. CoeurBat(c)
  <2>1. ASSUME NEW d \in Cores, NEW j \in M!Tours(d)
        PROVE  \/ tour'[d][j] = tour[d][j] /\ faits'[d][j] = faits[d][j]
               \/ d = c /\ Lancement(d, j, ligne'[j])
    BY <1>8, <1>10 DEF Lancement
  <2> QED BY <1>1, <1>3, <2>1 DEF CoeurBat
<1>12. NoeudsTypes'
  BY <1>1, <1>2, <1>3, <1>10 DEF NoeudsTypes
<1>13. Vivants'
  <2>1. \A n \in vit' \cup Proxys : ligne'[n].la /\ instant' <= ligne'[n].battu + 1
    <3>1. \A n \in vit' \cup Proxys : n \in M!Noeuds
      BY <1>12 DEF NoeudsTypes, M!Noeuds
    <3> QED BY <1>1, <1>3, <3>1
  <2>2. \A d \in Cores : \A j \in M!Tours(d) : tour'[d][j].phase # "repos" => d \in vit'
    BY <1>1, <1>2, <1>11 DEF Vivants, CoeurBat, Lancement
  <2> QED BY <2>1, <2>2 DEF Vivants
<1>14. Numeros'
  <2>1. ASSUME NEW n \in M!Noeuds
        PROVE  /\ ligne'[n].num <= usage'.demandes /\ ligne'[n].dem <= instant'
               /\ ligne'[n].dem # 0 => ligne'[n].num # 0
    BY <1>1, <1>2, <1>3 DEF Numeros, Meme
  <2>2. ASSUME NEW d \in Cores, NEW j \in M!Tours(d)
        PROVE  /\ tour'[d][j].phase # "repos" => tour'[d][j].num \in 1..usage'.demandes
               /\ faits'[d][j] \subseteq 1..usage'.demandes
               /\ ligne'[j].num \in faits'[d][j] => tour'[d][j].faite = ligne'[j].dem
    <3>1. /\ tour[d][j].phase # "repos" => tour[d][j].num \in 1..usage.demandes
          /\ faits[d][j] \subseteq 1..usage.demandes
          /\ ligne[j].num \in faits[d][j] => tour[d][j].faite = ligne[j].dem
      BY <1>2 DEF Numeros
    <3>2. j \in M!Noeuds /\ Meme(ligne[j], ligne'[j]) /\ usage' = usage
      BY <1>1, <1>3, BornesNoeuds
    <3>3. CASE tour'[d][j] = tour[d][j] /\ faits'[d][j] = faits[d][j]
      BY <3>1, <3>2, <3>3 DEF Meme
    <3>4. CASE Lancement(d, j, ligne'[j])
      <4>1. /\ ligne'[j].num \in Nat /\ ligne'[j].num # 0 /\ ligne'[j].num <= usage.demandes
            /\ usage.demandes \in Nat
        BY <1>1, <1>2, <1>3, <2>1, <3>2, <3>4 DEF Lancement, Lignes, UneLigne, NoeudsTypes, UnUsage
      <4> QED BY <3>1, <3>2, <3>4, <4>1 DEF Lancement
    <3> QED BY <1>11, <3>3, <3>4 DEF CoeurBat
  <2> QED BY <2>1, <2>2 DEF Numeros
<1> QED BY <1>11, <1>12, <1>13, <1>14 DEF NoeudsSuivis

-----------------------------------------------------------------------------
(* What a step does to the purges.                                         *)
Purge ==
  \/ Calme
  \/ \E n \in M!Noeuds : PurgeDemandee(n)
  \/ \E c \in Cores : CoeurBat(c)
  \/ /\ UNCHANGED <<ligne, bilan>>
     /\ \A d \in Cores : \A j \in M!Tours(d) :
          tour'[d][j] = tour[d][j] \/ (tour'[d][j].phase = "repos" /\ tour'[d][j].fermes = 0)
  \/ \E c \in Cores : \E k \in M!Tours(c) : \E t, e : TourCompte(c, k, t, e)
  \/ \E c \in Cores : \E k \in M!Tours(c) : \E t : TourFini(c, k, t)

(* What it does to the settings of the rows.                               *)
Reglage ==
  \/ \E a \in Admins : M!PoserMaintenance(a)
  \/ \E a \in Admins, n \in M!Noeuds, b \in BOOLEAN :
       \/ M!DemanderMaintenance(a, n, b) \/ M!LeverMaintenance(a, n)
       \/ M!ReglerExposition(a, n, b) \/ M!OublierNoeud(a, n)
  \/ \E n \in M!Noeuds, b \in BOOLEAN : M!CleanupStaleNodes(n, b)
  \/ \E c \in Cores : ligne' = [ligne EXCEPT ![c] = M!LigneBattue(@)] /\ UNCHANGED <<instant, admin>>
  \/ (\A n \in M!Noeuds : Regles(ligne[n], ligne'[n])) /\ admin' = admin

LEMMA NoeudsPas ==
  ASSUME NoeudsSuivis, M!Next
  PROVE  /\ NoeudsSuivis' /\ Purge /\ Reglage
         /\ vit \subseteq vit' \/ usage'.pannes = usage.pannes + 1
<1> DEFINE Reste == vit \subseteq vit' \/ usage'.pannes = usage.pannes + 1
<1>1. ASSUME NEW a \in Admins, NEW n \in M!Noeuds, NEW b \in BOOLEAN,
             M!DemanderMaintenance(a, n, b)
      PROVE  NoeudsSuivis' /\ Purge /\ Reglage /\ Reste
  <2>1. NoeudsSuivis' /\ Calme
    BY <1>1, PasDemanderMaintenance
  <2>2. Reglage /\ Reste
    BY <1>1 DEF Reglage, M!DemanderMaintenance
  <2> QED BY <2>1, <2>2 DEF Purge
<1>2. ASSUME NEW a \in Admins, M!PoserMaintenance(a)
      PROVE  NoeudsSuivis' /\ Purge /\ Reglage /\ Reste
  <2>1. NoeudsSuivis' /\ Calme
    BY <1>2, PasPoserMaintenance
  <2>2. Reglage /\ Reste
    BY <1>2 DEF Reglage, M!PoserMaintenance
  <2> QED BY <2>1, <2>2 DEF Purge
<1>3. ASSUME NEW a \in Admins, NEW n \in M!Noeuds,
             M!LeverMaintenance(a, n) \/ \E b \in BOOLEAN : M!ReglerExposition(a, n, b)
      PROVE  NoeudsSuivis' /\ Purge /\ Reglage /\ Reste
  <2>1. NoeudsSuivis' /\ Calme
    BY <1>3, PasReglage
  <2>2. Reglage /\ Reste
    BY <1>3 DEF Reglage, M!LeverMaintenance, M!ReglerExposition
  <2> QED BY <2>1, <2>2 DEF Purge
<1>4. ASSUME NEW a \in Admins, NEW n \in M!Noeuds, M!OublierNoeud(a, n)
      PROVE  NoeudsSuivis' /\ Purge /\ Reglage /\ Reste
  <2>1. NoeudsSuivis' /\ Calme
    BY <1>4, PasOubliNoeud
  <2>2. Reglage /\ Reste
    BY <1>4 DEF Reglage, M!OublierNoeud
  <2> QED BY <2>1, <2>2 DEF Purge
<1>5. ASSUME NEW n \in M!Noeuds, NEW b \in BOOLEAN, M!CleanupStaleNodes(n, b)
      PROVE  NoeudsSuivis' /\ Purge /\ Reglage /\ Reste
  <2>1. NoeudsSuivis' /\ Calme
    BY <1>5, PasOubliNoeud
  <2>2. Reglage /\ Reste
    BY <1>5 DEF Reglage, M!CleanupStaleNodes
  <2> QED BY <2>1, <2>2 DEF Purge
<1>6. ASSUME NEW n \in M!Noeuds, M!DemanderPurge(n)
      PROVE  NoeudsSuivis' /\ Purge /\ Reglage /\ Reste
  <2>1. NoeudsSuivis' /\ PurgeDemandee(n)
    BY <1>6, PasDemanderPurge
  <2>2. Reglage /\ Reste
    BY <1>6, <2>1 DEF Reglage, PurgeDemandee, Regles, M!DemanderPurge
  <2> QED BY <2>1, <2>2 DEF Purge
<1>7. ASSUME NEW c \in Cores, M!Battement(c)
      PROVE  NoeudsSuivis' /\ Purge /\ Reglage /\ Reste
  <2>1. NoeudsSuivis' /\ CoeurBat(c)
    BY <1>7, PasBattement
  <2>2. Reglage /\ Reste
    BY <1>7 DEF Reglage, M!Battement
  <2> QED BY <2>1, <2>2 DEF Purge
<1>8. ASSUME NEW c \in Cores, M!Demarrer(c)
      PROVE  NoeudsSuivis' /\ Purge /\ Reglage /\ Reste
  <2>1. NoeudsSuivis' /\ Calme
    BY <1>8, PasDemarrer
  <2>2. Reglage /\ Reste
    BY <1>8 DEF Reglage, M!Demarrer
  <2> QED BY <2>1, <2>2 DEF Purge
<1>9. ASSUME NEW c \in Cores, M!Arreter(c)
      PROVE  NoeudsSuivis' /\ Purge /\ Reglage /\ Reste
  <2>1. /\ NoeudsSuivis' /\ UNCHANGED <<ligne, instant, admin, bilan>>
        /\ \A d \in Cores : \A j \in M!Tours(d) :
             tour'[d][j] = tour[d][j] \/ (tour'[d][j].phase = "repos" /\ tour'[d][j].fermes = 0)
    BY <1>9, PasArreter
  <2>2. Purge
    BY <2>1 DEF Purge
  <2>3. Reglage
    BY <2>1 DEF Reglage, Regles
  <2>4. usage \in UnUsage /\ usage' = [usage EXCEPT !.pannes = @ + 1]
    BY <1>9 DEF NoeudsSuivis, NoeudsTypes, M!Arreter
  <2>5. Reste
    BY <2>4 DEF UnUsage
  <2> QED BY <2>1, <2>2, <2>3, <2>5
<1>10. ASSUME NEW c \in Cores, NEW k \in M!Tours(c),
              M!Lister(c, k) \/ \E m \in Machines : M!FermerUn(c, k, m)
       PROVE  NoeudsSuivis' /\ Purge /\ Reglage /\ Reste
  <2>1. NoeudsSuivis' /\ \E t, e : TourCompte(c, k, t, e)
    BY <1>10, PasLister, PasFermer
  <2>2. Reglage /\ Reste
    BY <1>10 DEF Reglage, Regles, M!Lister, M!FermerUn
  <2> QED BY <2>1, <2>2 DEF Purge
<1>11. ASSUME NEW c \in Cores, NEW k \in M!Tours(c), NEW b \in BOOLEAN, M!Terminer(c, k, b)
       PROVE  NoeudsSuivis' /\ Purge /\ Reglage /\ Reste
  <2>1. NoeudsSuivis' /\ \E t : TourFini(c, k, t)
    BY <1>11, PasTerminer
  <2>2. Reglage /\ Reste
    BY <1>11, <2>1 DEF Reglage, TourFini, M!Terminer
  <2> QED BY <2>1, <2>2 DEF Purge
<1>12. ASSUME NEW m \in Machines,
              \/ \E c \in Cores, p \in Proxys \cup {"nul"} : M!Connecter(m, c, p)
              \/ M!Partir(m)
       PROVE  NoeudsSuivis' /\ Purge /\ Reglage /\ Reste
  <2>1. NoeudsSuivis' /\ Calme
    BY <1>12, PasTunnel
  <2>2. Reglage /\ Reste
    BY <1>12 DEF Reglage, Regles, M!Connecter, M!Partir
  <2> QED BY <2>1, <2>2 DEF Purge
<1>13. ASSUME M!Avancer PROVE NoeudsSuivis' /\ Purge /\ Reglage /\ Reste
  <2>1. NoeudsSuivis' /\ Calme /\ \A n \in M!Noeuds : Regles(ligne[n], ligne'[n])
    BY <1>13, PasAvancer
  <2>2. Reglage /\ Reste
    BY <1>13, <2>1 DEF Reglage, M!Avancer
  <2> QED BY <2>1, <2>2 DEF Purge
<1> HIDE DEF Reste
<1>14. \/ \E a \in Admins, n \in M!Noeuds, b \in BOOLEAN : M!DemanderMaintenance(a, n, b)
       \/ \E a \in Admins : M!PoserMaintenance(a)
       \/ \E a \in Admins, n \in M!Noeuds :
            M!LeverMaintenance(a, n) \/ \E b \in BOOLEAN : M!ReglerExposition(a, n, b)
       \/ \E a \in Admins, n \in M!Noeuds : M!OublierNoeud(a, n)
       \/ \E n \in M!Noeuds, b \in BOOLEAN : M!CleanupStaleNodes(n, b)
       \/ \E n \in M!Noeuds : M!DemanderPurge(n)
       \/ \E c \in Cores : M!Battement(c) \/ M!Demarrer(c) \/ M!Arreter(c)
       \/ \E c \in Cores : \E k \in M!Tours(c) :
            M!Lister(c, k) \/ \E m \in Machines : M!FermerUn(c, k, m)
       \/ \E c \in Cores : \E k \in M!Tours(c) : \E b \in BOOLEAN : M!Terminer(c, k, b)
       \/ \E m \in Machines :
            \/ \E c \in Cores, p \in Proxys \cup {"nul"} : M!Connecter(m, c, p)
            \/ M!Partir(m)
       \/ M!Avancer
  BY DEF M!Next
<1>15. NoeudsSuivis' /\ Purge /\ Reglage /\ Reste
  BY <1>1, <1>2, <1>3, <1>4, <1>5, <1>6, <1>7, <1>8, <1>9, <1>10, <1>11, <1>12, <1>13, <1>14
<1> QED BY <1>15 DEF Reste

LEMMA NoeudsReste ==
  ASSUME NoeudsSuivis, UNCHANGED maintenanceVars
  PROVE  NoeudsSuivis'
BY DEF NoeudsSuivis, NoeudsTypes, Vivants, Numeros, Lignes, Memoires, Bilans, maintenanceVars

-----------------------------------------------------------------------------
LEMMA UneFois == ASSUME NoeudsSuivis, M!Next PROVE M!LanceeUneFois
<1> SUFFICES ASSUME NEW c \in Cores, NEW k \in M!Tours(c),
                    tour[c][k].phase = "repos", tour'[c][k].phase = "lancee"
             PROVE  tour'[c][k].num \notin faits[c][k]
  BY DEF M!LanceeUneFois
<1>1. k \in M!Noeuds /\ (ligne[k].num \in faits[c][k] => tour[c][k].faite = ligne[k].dem)
  BY BornesNoeuds DEF NoeudsSuivis, Numeros
<1>2. CASE \E d \in Cores : CoeurBat(d)
  BY <1>1, <1>2 DEF CoeurBat, Lancement, Meme
<1>3. ~ \E d \in Cores : \E j \in M!Tours(d) : \E t, e : TourCompte(d, j, t, e)
  <2> SUFFICES ASSUME NEW d \in Cores, NEW j \in M!Tours(d), NEW t, NEW e, TourCompte(d, j, t, e)
               PROVE  FALSE
    OBVIOUS
  <2>1. t \in UnTour /\ tour' = [tour EXCEPT ![d][j] = t] /\ t.phase = "ferme" /\ faits' = faits
    BY DEF TourCompte, TourAvance
  <2>2. tour'[c][k] = IF c = d /\ k = j THEN t ELSE tour[c][k]
    BY <2>1, UnTourChange DEF NoeudsSuivis, NoeudsTypes
  <2> QED BY <2>1, <2>2
<1>4. ~ \E d \in Cores : \E j \in M!Tours(d) : \E t : TourFini(d, j, t)
  <2> SUFFICES ASSUME NEW d \in Cores, NEW j \in M!Tours(d), NEW t, TourFini(d, j, t)
               PROVE  FALSE
    OBVIOUS
  <2>1. t \in UnTour /\ tour' = [tour EXCEPT ![d][j] = t] /\ t.phase = "repos" /\ faits' = faits
    BY DEF TourFini, TourAvance
  <2>2. tour'[c][k] = IF c = d /\ k = j THEN t ELSE tour[c][k]
    BY <2>1, UnTourChange DEF NoeudsSuivis, NoeudsTypes
  <2> QED BY <2>1, <2>2
<1>5. ~Calme /\ ~ \E n \in M!Noeuds : PurgeDemandee(n)
  BY DEF Calme, PurgeDemandee
<1> QED BY <1>2, <1>3, <1>4, <1>5, NoeudsPas DEF Purge

LEMMA Gardee == ASSUME NoeudsSuivis, M!Next PROVE M!MaintenanceGardee
<1> SUFFICES ASSUME NEW n \in M!Noeuds, ligne[n].la, ligne[n].maint, ligne'[n].la, ~ligne'[n].maint
             PROVE  usage'.gestes = usage.gestes + 1
  BY DEF M!MaintenanceGardee
<1>0. NoeudsTypes /\ Lignes(ligne)
  BY DEF NoeudsSuivis, NoeudsTypes
<1>1. ASSUME NEW a \in Admins, M!PoserMaintenance(a) PROVE FALSE
  BY <1>0, <1>1 DEF M!PoserMaintenance, Lignes, UneLigne
<1>2. ASSUME NEW a \in Admins, NEW j \in M!Noeuds, NEW b \in BOOLEAN,
             \/ M!DemanderMaintenance(a, j, b) \/ M!ReglerExposition(a, j, b)
             \/ M!OublierNoeud(a, j) \/ M!CleanupStaleNodes(j, b)
      PROVE  FALSE
  BY <1>0, <1>2 DEF M!DemanderMaintenance, M!ReglerExposition, M!OublierNoeud,
     M!CleanupStaleNodes, Lignes, UneLigne
<1>3. ASSUME NEW a \in Admins, NEW j \in M!Noeuds, M!LeverMaintenance(a, j)
      PROVE  usage'.gestes = usage.gestes + 1
  BY <1>0, <1>3, UsageType DEF M!LeverMaintenance, NoeudsTypes
<1>4. ASSUME NEW c \in Cores, ligne' = [ligne EXCEPT ![c] = M!LigneBattue(@)]
      PROVE  FALSE
  <2>1. ligne'[n] = IF n = c THEN M!LigneBattue(ligne[c]) ELSE ligne[n]
    BY <1>4, CoeurBattu
  <2>2. ligne[n] \in UneLigne /\ instant \in Nat
    BY <1>0, BornesNoeuds DEF Lignes, NoeudsTypes
  <2>3. M!LigneBattue(ligne[n]).maint = ligne[n].maint
    BY <2>2, LigneBattue
  <2> QED BY <2>1, <2>3
<1>5. CASE \A j \in M!Noeuds : Regles(ligne[j], ligne'[j])
  BY <1>5 DEF Regles
<1>6. CASE \E j \in M!Noeuds, b \in BOOLEAN : M!CleanupStaleNodes(j, b)
  <2>1. PICK j \in M!Noeuds, b \in BOOLEAN : M!CleanupStaleNodes(j, b)
    BY <1>6
  <2> QED BY <1>0, <2>1 DEF M!CleanupStaleNodes, Lignes, UneLigne
<1> QED BY <1>1, <1>2, <1>3, <1>4, <1>5, <1>6, NoeudsPas DEF Reglage

-----------------------------------------------------------------------------
(* With one administrator and no fault, between the count and the write of *)
(* a gesture that was not confirmed the cores served only become more.     *)
GardeTenue ==
  /\ vit = Cores /\ usage.pannes = 0
  /\ \A a \in Admins :
       (admin[a].pc = "poser" /\ admin[a].cible \in Cores /\ ~admin[a].confirme)
          => M!CoresServis \ {admin[a].cible} # {}

LEMMA CoresQuiRestent ==
  ASSUME NEW n, M!CoresDisponiblesHors(n) > 0
  PROVE  M!CoresServis \ {n} # {}
BY FS_EmptySet, Cardinaux DEF M!CoresDisponiblesHors

LEMMA GardePas ==
  ASSUME NoeudsSuivis, GardeTenue, M!Next, usage'.pannes <= 0, Seul
  PROVE  GardeTenue' /\ M!ListeVideAssumee
<1>0. NoeudsTypes /\ Lignes(ligne) /\ NoeudsTypes' /\ Admins = {a1}
  BY NoeudsPas DEF NoeudsSuivis, NoeudsTypes, Seul
<1>1. vit' = Cores /\ usage'.pannes = 0
  <2>1. usage'.pannes \in Nat /\ vit' \subseteq Cores
    BY <1>0 DEF NoeudsTypes, UnUsage
  <2>2. vit \subseteq vit' \/ usage'.pannes = usage.pannes + 1
    BY NoeudsPas
  <2>3. vit = Cores /\ usage.pannes = 0 /\ usage'.pannes <= 0
    BY DEF GardeTenue
  <2>4. usage'.pannes = 0 /\ usage'.pannes # usage.pannes + 1
    BY <2>1, <2>3
  <2>5. vit \subseteq vit'
    BY <2>2, <2>4
  <2> QED BY <2>1, <2>3, <2>4, <2>5
<1>2. ASSUME NEW a \in Admins, M!PoserMaintenance(a)
      PROVE  GardeTenue' /\ M!ListeVideAssumee
  <2>1. /\ a = a1 /\ admin' = [admin EXCEPT ![a] = M!GesteRepos] /\ admin[a].pc = "poser"
        /\ ligne' = ligne \/ ligne' = [ligne EXCEPT ![admin[a].cible].maint = TRUE]
    BY <1>0, <1>2 DEF M!PoserMaintenance
  <2>2. \A b \in Admins : admin'[b].pc # "poser"
    BY <1>0, <2>1 DEF NoeudsTypes, M!GesteRepos
  <2>3. GardeTenue'
    BY <1>1, <2>2 DEF GardeTenue
  <2>4. ASSUME NEW n \in Cores, ~ligne[n].maint, ligne'[n].maint, M!CoresServis' = {}
        PROVE  admin[a].confirme
    <3>1. n = admin[a].cible /\ n \in M!Noeuds
      BY <1>0, <2>1, <2>4 DEF Lignes, UneLigne, M!Noeuds
    <3>2. \A j \in M!Noeuds : j # n => ligne'[j] = ligne[j]
      BY <1>0, <2>1, <3>1 DEF Lignes
    <3>3. M!CoresServis \ {n} \subseteq M!CoresServis'
      BY <3>2 DEF M!CoresServis, M!Servis
    <3> QED BY <2>1, <2>4, <3>1, <3>3 DEF GardeTenue
  <2> QED BY <2>1, <2>3, <2>4 DEF M!ListeVideAssumee
<1>3. ASSUME NEW a \in Admins, NEW n \in M!Noeuds, NEW b \in BOOLEAN,
             M!DemanderMaintenance(a, n, b)
      PROVE  GardeTenue' /\ M!ListeVideAssumee
  <2> DEFINE g == [pc |-> "poser", cible |-> n, confirme |-> b]
  <2>1. /\ admin' = [admin EXCEPT ![a] = g] /\ ligne' = ligne
        /\ n \in Cores => (M!CoresDisponiblesHors(n) > 0 \/ b)
    BY <1>3 DEF M!DemanderMaintenance
  <2>2. g.cible = n /\ g.confirme = b
    OBVIOUS
  <2> HIDE DEF g
  <2>3. admin'[a1] = g
    BY <1>0, <2>1 DEF NoeudsTypes
  <2>4. M!CoresServis' = M!CoresServis
    BY <2>1 DEF M!CoresServis, M!Servis
  <2>5. (n \in Cores /\ ~b) => M!CoresServis \ {n} # {}
    BY <2>1, CoresQuiRestent
  <2>6. GardeTenue'
    BY <1>0, <1>1, <2>2, <2>3, <2>4, <2>5 DEF GardeTenue
  <2> QED BY <2>1, <2>6 DEF M!ListeVideAssumee
<1>4. ASSUME NEW a \in Admins, NEW n \in M!Noeuds, NEW b \in BOOLEAN,
             M!LeverMaintenance(a, n) \/ M!ReglerExposition(a, n, b) \/ M!OublierNoeud(a, n)
      PROVE  GardeTenue' /\ M!ListeVideAssumee
  <2>1. /\ admin[a].pc = "repos" /\ admin' = admin
        /\ \/ ligne' = [ligne EXCEPT ![n].maint = FALSE]
           \/ ligne' = [ligne EXCEPT ![n].expose = b]
           \/ ligne' = [ligne EXCEPT ![n].la = FALSE]
    BY <1>4 DEF M!LeverMaintenance, M!ReglerExposition, M!OublierNoeud
  <2>2. \A j \in M!Noeuds : ligne'[j].maint => ligne[j].maint
    BY <1>0, <2>1 DEF Lignes, UneLigne
  <2>3. GardeTenue'
    BY <1>0, <1>1, <2>1 DEF GardeTenue
  <2> QED BY <2>2, <2>3 DEF M!ListeVideAssumee, M!Noeuds
<1>5. ASSUME NEW n \in M!Noeuds, NEW b \in BOOLEAN, M!CleanupStaleNodes(n, b) PROVE FALSE
  <2>1. ligne[n].battu \in Nat /\ instant \in Nat /\ n \in vit \cup Proxys
    BY <1>0, BornesNoeuds DEF NoeudsTypes, Lignes, UneLigne, GardeTenue, M!Noeuds
  <2> QED BY <1>5, <2>1 DEF M!CleanupStaleNodes, NoeudsSuivis, Vivants
<1>6. ASSUME admin' = admin, M!CoresServis \subseteq M!CoresServis',
             \A n \in M!Noeuds : ligne'[n].maint = ligne[n].maint
      PROVE  GardeTenue' /\ M!ListeVideAssumee
  <2>1. GardeTenue'
    BY <1>1, <1>6 DEF GardeTenue
  <2> QED BY <1>6, <2>1 DEF M!ListeVideAssumee, M!Noeuds
<1>7. ASSUME NEW c \in Cores, ligne' = [ligne EXCEPT ![c] = M!LigneBattue(@)],
             UNCHANGED <<instant, admin>>
      PROVE  GardeTenue' /\ M!ListeVideAssumee
  <2>1. \A n \in M!Noeuds : ligne'[n] = IF n = c THEN M!LigneBattue(ligne[c]) ELSE ligne[n]
    BY <1>7, CoeurBattu
  <2>2. c \in M!Noeuds /\ ligne[c] \in UneLigne /\ instant \in Nat /\ ligne[c].la
    BY <1>0, BornesNoeuds DEF Lignes, NoeudsTypes, M!Noeuds, NoeudsSuivis, Vivants, GardeTenue
  <2>3. /\ ligne'[c].la /\ ligne'[c].enLigne /\ ligne'[c].maint = ligne[c].maint
        /\ ligne'[c].expose = ligne[c].expose
    BY <2>1, <2>2, LigneBattue
  <2>4. M!CoresServis \subseteq M!CoresServis'
    BY <2>1, <2>3 DEF M!CoresServis, M!Servis
  <2>5. \A n \in M!Noeuds : ligne'[n].maint = ligne[n].maint
    BY <2>1, <2>3
  <2> QED BY <1>6, <1>7, <2>4, <2>5
<1>8. CASE (\A n \in M!Noeuds : Regles(ligne[n], ligne'[n])) /\ admin' = admin
  <2>1. M!CoresServis \subseteq M!CoresServis'
    BY <1>8 DEF M!CoresServis, M!Servis, Regles
  <2>2. \A n \in M!Noeuds : ligne'[n].maint = ligne[n].maint
    BY <1>8 DEF Regles
  <2> QED BY <1>6, <1>8, <2>1, <2>2
<1>9. Reglage
  BY NoeudsPas
<1>10. CASE \E a \in Admins, n \in M!Noeuds, b \in BOOLEAN :
              \/ M!DemanderMaintenance(a, n, b) \/ M!LeverMaintenance(a, n)
              \/ M!ReglerExposition(a, n, b) \/ M!OublierNoeud(a, n)
  BY <1>3, <1>4, <1>10
<1> QED BY <1>2, <1>5, <1>7, <1>8, <1>9, <1>10 DEF Reglage

(* For every set of cores, proxies, machines and administrators, however   *)
(* many purges, gestures and faults: no process starts a request twice,    *)
(* and only a gesture lifts the maintenance of a node (derniereFaite,      *)
(* MarquerMaintenance).                                                    *)
THEOREM MaintenanceToujours ==
  M!Spec => [][M!LanceeUneFois /\ M!MaintenanceGardee]_(M!vars)
<1>1. NoeudsSuivis /\ [M!Next]_(M!vars)
        => NoeudsSuivis' /\ [M!LanceeUneFois /\ M!MaintenanceGardee]_(M!vars)
  BY NoeudsPas, NoeudsReste, UneFois, Gardee DEF M!vars, maintenanceVars
<1> QED BY <1>1, NoeudsDepart, PTL DEF M!Spec

LEMMA GardeDepart == M!Init => GardeTenue
BY DEF M!Init, M!GesteRepos, GardeTenue

(* With one administrator, as long as nothing fails, however many gestures *)
(* and purges: the list of the cores is emptied only by a gesture whose    *)
(* author accepted it (CoresDisponiblesHors).                              *)
THEOREM GardeToujours ==
  Seul => (M!Spec /\ [](usage.pannes <= 0) => [][M!ListeVideAssumee]_(M!vars))
<1> SUFFICES ASSUME Seul
             PROVE  M!Spec /\ [](usage.pannes <= 0) => [][M!ListeVideAssumee]_(M!vars)
  OBVIOUS
<1> DEFINE I == NoeudsSuivis /\ GardeTenue
           Sure == usage.pannes <= 0
<1>1. M!Init => I
  BY NoeudsDepart, GardeDepart
<1>2. I /\ [M!Next]_(M!vars) /\ Sure' => I' /\ [M!ListeVideAssumee]_(M!vars)
  <2>1. ASSUME I, M!Next, Sure' PROVE I' /\ M!ListeVideAssumee
    BY <2>1, NoeudsPas, GardePas
  <2>2. ASSUME I, UNCHANGED M!vars PROVE I'
    BY <2>2, NoeudsReste DEF M!vars, maintenanceVars, GardeTenue, M!CoresServis, M!Servis
  <2> QED BY <2>1, <2>2
<1> HIDE DEF I
<1> QED BY <1>1, <1>2, PTL DEF M!Spec

-----------------------------------------------------------------------------
MaintenanceInv ==
  /\ partie \in Purges => NoeudsSuivis
  /\ partie = "garde" => GardeTenue

LEMMA MaintenanceDepart == Depart => MaintenanceInv
<1> SUFFICES ASSUME Depart PROVE MaintenanceInv
  OBVIOUS
<1>1. ASSUME partie \in Purges PROVE M!Init /\ NoeudsSuivis
  BY <1>1, NoeudsDepart DEF Depart
<1>2. ASSUME partie = "garde" PROVE GardeTenue
  <2>1. M!Init
    BY <1>1, <1>2 DEF Purges
  <2> QED BY <2>1, GardeDepart
<1> QED BY <1>1, <1>2 DEF MaintenanceInv

(* A step of a part of the maintenance is one of the cores, within bounds. *)
LEMMA MaintenancePas ==
  ASSUME Pas, partie \in Purges
  PROVE  /\ partie' = partie /\ M!Next
         /\ partie = "garde" => usage'.pannes <= 0 /\ Seul
BY DEF Pas, Purges, Jusque

LEMMA MaintenanceSuivie == MaintenanceInv /\ [Pas]_tout => MaintenanceInv'
<1> SUFFICES ASSUME MaintenanceInv, [Pas]_tout, partie' \in Purges PROVE MaintenanceInv'
  BY DEF MaintenanceInv, Purges
<1>1. CASE UNCHANGED tout
  <2>1. partie' = partie /\ UNCHANGED maintenanceVars /\ NoeudsSuivis
    BY <1>1 DEF tout, MaintenanceInv
  <2>2. NoeudsSuivis'
    BY <2>1, NoeudsReste
  <2>3. partie = "garde" => GardeTenue'
    BY <2>1 DEF MaintenanceInv, GardeTenue, maintenanceVars, M!CoresServis, M!Servis
  <2> QED BY <2>1, <2>2, <2>3 DEF MaintenanceInv
<1>2. CASE Pas
  <2>1. partie' = partie /\ partie \in Purges
    BY <1>2 DEF Pas, Purges
  <2>2. M!Next /\ NoeudsSuivis /\ (partie = "garde" => usage'.pannes <= 0 /\ Seul /\ GardeTenue)
    BY <1>2, <2>1, MaintenancePas DEF MaintenanceInv
  <2>3. NoeudsSuivis' /\ (partie = "garde" => GardeTenue')
    BY <2>2, NoeudsPas, GardePas
  <2> QED BY <2>1, <2>3 DEF MaintenanceInv
<1> QED BY <1>1, <1>2

(* The same of the parts of the maintenance in the run.                    *)
THEOREM MaintenanceCorrecte == Ensemble => MaintenanceTient
<1> DEFINE Promis == /\ partie \in Purges => M!LanceeUneFois /\ M!MaintenanceGardee
                     /\ partie = "garde" => M!ListeVideAssumee
<1>1. MaintenanceInv /\ [Pas]_tout => [Promis]_tout
  <2> SUFFICES ASSUME MaintenanceInv, Pas, partie \in Purges
               PROVE  Promis
    BY DEF Purges
  <2>1. M!Next /\ NoeudsSuivis /\ (partie = "garde" => usage'.pannes <= 0 /\ Seul /\ GardeTenue)
    BY MaintenancePas DEF MaintenanceInv
  <2> QED BY <2>1, UneFois, Gardee, GardePas
<1>2. Ensemble => [][Promis]_tout
  <2> HIDE DEF Promis
  <2> QED BY <1>1, MaintenanceDepart, MaintenanceSuivie, PTL DEF Ensemble
<1> QED BY <1>2 DEF MaintenanceTient

-----------------------------------------------------------------------------
(* The closings that the tours t in progress for the proxy p count for the *)
(* request d, one by one: they are not on the row yet.                     *)
Fermees(t, p, d) ==
  {x \in Cores \X Nat : /\ t[x[1]][p].phase # "repos" /\ t[x[1]][p].num = d
                        /\ x[2] \in 1..t[x[1]][p].fermes}

TourCompris(c, k) ==
  tour[c][k].phase # "repos" =>
    /\ tour[c][k].dem <= ligne[k].dem
    /\ tour[c][k].dem = ligne[k].dem => tour[c][k].num = ligne[k].num
    /\ tour[c][k].fermes <= bilan[tour[c][k].num].fermes

FinVraie(n) ==
  (ligne[n].dem # 0 /\ ligne[n].term # 0) =>
    IF n \in Cores THEN n \in bilan[ligne[n].num].finis ELSE bilan[ligne[n].num].finis # {}

CoeurCompris(c) == ligne[c].dem # 0 => ligne[c].ferm <= bilan[ligne[c].num].fermes

ProxyCompris(p) ==
  ligne[p].dem # 0 =>
    /\ IsFiniteSet(Fermees(tour, p, ligne[p].num))
    /\ ligne[p].ferm + Cardinality(Fermees(tour, p, ligne[p].num)) <= bilan[ligne[p].num].fermes

Comptes ==
  /\ \A c \in Cores : \A k \in M!Tours(c) : TourCompris(c, k)
  /\ \A n \in M!Noeuds : FinVraie(n)
  /\ \A c \in Cores : CoeurCompris(c)
  /\ \A p \in Proxys : ProxyCompris(p)

LEMMA Numerotee ==
  ASSUME NoeudsSuivis, NEW n \in M!Noeuds
  PROVE  /\ ligne[n] \in UneLigne
         /\ ligne[n].dem # 0 => /\ ligne[n].num \in M!Demandes
                                /\ bilan[ligne[n].num].fermes \in Nat
<1>1. ligne[n] \in UneLigne
  BY DEF NoeudsSuivis, NoeudsTypes, Lignes
<1>2. ligne[n].dem # 0 => ligne[n].num \in M!Demandes
  BY <1>1, BornesNoeuds DEF NoeudsSuivis, NoeudsTypes, Numeros, UneLigne, UnUsage, M!Demandes
<1> QED BY <1>1, <1>2 DEF NoeudsSuivis, NoeudsTypes, Bilans

LEMMA ComptesDepart == M!Init => Comptes
<1> SUFFICES ASSUME M!Init PROVE Comptes
  OBVIOUS
<1>1. \A n \in M!Noeuds : ligne[n].dem = 0
  BY NeuveType DEF M!Init
<1>2. \A c \in Cores : \A k \in M!Tours(c) : tour[c][k].phase = "repos"
  BY ReposType DEF M!Init
<1> QED BY <1>1, <1>2 DEF Comptes, TourCompris, FinVraie, CoeurCompris, ProxyCompris, M!Noeuds

(* Tours that stay, or end without being counted: nothing more to count.   *)
LEMMA FermeesBaissent ==
  ASSUME NEW p \in Proxys, NEW d, IsFiniteSet(Fermees(tour, p, d)),
         \A c \in Cores : \/ tour'[c][p] = tour[c][p]
                          \/ tour'[c][p].phase = "repos" \/ tour'[c][p].fermes = 0
                          \/ tour'[c][p].num # d
  PROVE  /\ IsFiniteSet(Fermees(tour', p, d))
         /\ Cardinality(Fermees(tour', p, d)) <= Cardinality(Fermees(tour, p, d))
<1>1. Fermees(tour', p, d) \subseteq Fermees(tour, p, d)
  <2> SUFFICES ASSUME NEW x \in Fermees(tour', p, d) PROVE x \in Fermees(tour, p, d)
    OBVIOUS
  <2>1. /\ x \in Cores \X Nat /\ tour'[x[1]][p].phase # "repos" /\ tour'[x[1]][p].num = d
        /\ x[2] \in 1..tour'[x[1]][p].fermes
    BY DEF Fermees
  <2>2. x[1] \in Cores /\ tour'[x[1]][p].fermes # 0
    BY <2>1
  <2>3. tour'[x[1]][p] = tour[x[1]][p]
    BY <2>1, <2>2
  <2> QED BY <2>1, <2>3 DEF Fermees
<1> QED BY <1>1, FS_Subset

(* The comparisons of the counts need their types.                         *)
LEMMA CardinalNat == ASSUME NEW S, IsFiniteSet(S) PROVE Cardinality(S) \in Nat
BY FS_CardinalityType

(* The rows keep their request and the tours stay or end: Calme, Arreter,  *)
(* Battement.                                                              *)
LEMMA ComptesMemes ==
  ASSUME NoeudsSuivis, Comptes, bilan' = bilan,
         \A n \in M!Noeuds : Suit(n, ligne[n], ligne'[n]),
         \A c \in Cores : \A k \in M!Tours(c) :
           \/ tour'[c][k] = tour[c][k]
           \/ tour'[c][k].phase = "repos"
           \/ Lancement(c, k, ligne'[k])
  PROVE  Comptes'
<1>1. ASSUME NEW n \in M!Noeuds, ligne'[n].dem # 0
      PROVE  Meme(ligne[n], ligne'[n]) /\ ligne[n].dem # 0
  BY <1>1, NeuveType DEF Suit, Meme
<1>2. ASSUME NEW c \in Cores, NEW k \in M!Tours(c) PROVE TourCompris(c, k)'
  <2> SUFFICES ASSUME tour'[c][k].phase # "repos"
               PROVE  /\ tour'[c][k].dem <= ligne'[k].dem
                      /\ tour'[c][k].dem = ligne'[k].dem => tour'[c][k].num = ligne'[k].num
                      /\ tour'[c][k].fermes <= bilan'[tour'[c][k].num].fermes
    BY DEF TourCompris
  <2>0. k \in M!Noeuds /\ ligne[k] \in UneLigne
    BY BornesNoeuds, Numerotee
  <2>1. CASE tour'[c][k] = tour[c][k]
    <3>1. c \in vit
      BY <2>1 DEF NoeudsSuivis, Vivants
    <3>2. Meme(ligne[k], ligne'[k])
      BY <2>0, <3>1, BornesNoeuds DEF Suit
    <3> QED BY <2>1, <3>2 DEF Comptes, TourCompris, Meme
  <2>2. CASE Lancement(c, k, ligne'[k])
    <3>1. Meme(ligne[k], ligne'[k]) /\ ligne[k].dem # 0
      BY <1>1, <2>0, <2>2 DEF Lancement
    <3>2. bilan[ligne[k].num].fermes \in Nat /\ ligne[k].dem \in Nat
      BY <2>0, <3>1, Numerotee DEF UneLigne
    <3> QED BY <2>2, <3>1, <3>2 DEF Lancement, Meme
  <2> QED BY <2>1, <2>2
<1>3. ASSUME NEW n \in M!Noeuds PROVE FinVraie(n)'
  BY <1>1 DEF Comptes, FinVraie, Meme
<1>4. ASSUME NEW c \in Cores PROVE CoeurCompris(c)'
  <2>1. c \in M!Noeuds
    BY DEF M!Noeuds
  <2> QED BY <1>1, <2>1 DEF Comptes, CoeurCompris, Meme
<1>5. ASSUME NEW p \in Proxys PROVE ProxyCompris(p)'
  <2> SUFFICES ASSUME ligne'[p].dem # 0
               PROVE  /\ IsFiniteSet(Fermees(tour', p, ligne'[p].num))
                      /\ ligne'[p].ferm + Cardinality(Fermees(tour', p, ligne'[p].num))
                           <= bilan'[ligne'[p].num].fermes
    BY DEF ProxyCompris
  <2>1. p \in M!Noeuds
    BY DEF M!Noeuds
  <2>2. Meme(ligne[p], ligne'[p]) /\ ligne[p].dem # 0
    BY <1>1, <2>1
  <2> DEFINE d == ligne[p].num
  <2>3. /\ IsFiniteSet(Fermees(tour, p, d))
        /\ ligne[p].ferm + Cardinality(Fermees(tour, p, d)) <= bilan[d].fermes
    BY <2>2 DEF Comptes, ProxyCompris
  <2>4. ligne'[p].num = d /\ ligne'[p].ferm = ligne[p].ferm
    BY <2>2 DEF Meme
  <2>5. ligne[p].ferm \in Nat /\ bilan[d].fermes \in Nat
    BY <2>1, <2>2, Numerotee DEF UneLigne
  <2> HIDE DEF d
  <2>6. \A c \in Cores : p \in M!Tours(c)
    BY DEF M!Tours
  <2>7. \A c \in Cores : \/ tour'[c][p] = tour[c][p]
                         \/ tour'[c][p].phase = "repos" \/ tour'[c][p].fermes = 0
                         \/ tour'[c][p].num # d
    BY <2>6 DEF Lancement
  <2>8. /\ IsFiniteSet(Fermees(tour', p, d))
        /\ Cardinality(Fermees(tour', p, d)) <= Cardinality(Fermees(tour, p, d))
    BY <2>3, <2>7, FermeesBaissent
  <2>9. Cardinality(Fermees(tour', p, d)) \in Nat /\ Cardinality(Fermees(tour, p, d)) \in Nat
    BY <2>3, <2>8, CardinalNat
  <2>10. ligne[p].ferm + Cardinality(Fermees(tour', p, d)) <= bilan[d].fermes
    BY <2>3, <2>5, <2>8, <2>9
  <2> QED BY <2>4, <2>8, <2>10
<1> QED BY <1>2, <1>3, <1>4, <1>5 DEF Comptes

-----------------------------------------------------------------------------
(* A purge asked anew has another date than the former one.                *)
LEMMA ComptesDemande ==
  ASSUME NoeudsSuivis, NoeudsSuivis', Comptes, Espacees, NEW n \in M!Noeuds, PurgeDemandee(n)
  PROVE  Comptes'
<1>1. /\ usage'.demandes = usage.demandes + 1 /\ instant' = instant
      /\ tour' = tour /\ bilan' = bilan /\ ligne[n].dem # instant
      /\ \A j \in M!Noeuds : j # n => ligne'[j] = ligne[j]
      /\ ligne'[n].num = usage.demandes + 1 /\ ligne'[n].dem = instant
      /\ ligne'[n].term = 0 /\ ligne'[n].ferm = 0
  BY DEF PurgeDemandee
<1>2. /\ instant \in Nat \ {0} /\ usage.demandes \in Nat /\ ligne[n] \in UneLigne
      /\ ligne[n].dem < instant
  <2>1. /\ instant \in Nat \ {0} /\ usage.demandes \in Nat /\ ligne[n] \in UneLigne
        /\ ligne[n].dem <= instant
    BY BornesNoeuds DEF NoeudsSuivis, NoeudsTypes, Lignes, UnUsage, Numeros
  <2> QED BY <1>1, <2>1 DEF UneLigne
<1>3. /\ ligne'[n].num \in M!Demandes /\ bilan[ligne'[n].num].fermes \in Nat
      /\ bilan'[ligne'[n].num].fermes = bilan[ligne'[n].num].fermes
  <2>1. usage'.demandes \in 0..MaxDemandes
    BY DEF NoeudsSuivis, NoeudsTypes, UnUsage
  <2>2. ligne'[n].num \in M!Demandes
    BY <1>1, <1>2, <2>1, BornesNoeuds DEF M!Demandes
  <2> QED BY <1>1, <2>2 DEF NoeudsSuivis, NoeudsTypes, Bilans
<1>4. ASSUME NEW c \in Cores, NEW k \in M!Tours(c) PROVE TourCompris(c, k)'
  <2>1. TourCompris(c, k) /\ k \in M!Noeuds /\ tour[c][k] \in UnTour
    BY TourActif DEF Comptes
  <2>2. CASE k # n
    BY <1>1, <2>1, <2>2 DEF TourCompris
  <2>3. CASE k = n
    BY <1>1, <1>2, <2>1, <2>3 DEF TourCompris, UnTour, UneLigne
  <2> QED BY <2>2, <2>3
<1>5. ASSUME NEW j \in M!Noeuds PROVE FinVraie(j)'
  BY <1>1 DEF Comptes, FinVraie
<1>6. ASSUME NEW c \in Cores PROVE CoeurCompris(c)'
  <2>1. c \in M!Noeuds /\ CoeurCompris(c)
    BY DEF M!Noeuds, Comptes
  <2>2. CASE c = n
    BY <1>1, <1>3, <2>2 DEF CoeurCompris
  <2> QED BY <1>1, <2>1, <2>2 DEF CoeurCompris
<1>7. ASSUME NEW p \in Proxys PROVE ProxyCompris(p)'
  <2>1. p \in M!Noeuds /\ ProxyCompris(p)
    BY DEF M!Noeuds, Comptes
  <2>2. CASE p = n
    <3>1. \A c \in Cores : tour[c][p].phase # "repos" => tour[c][p].num # usage.demandes + 1
      <4> SUFFICES ASSUME NEW c \in Cores, tour[c][p].phase # "repos"
                   PROVE  tour[c][p].num # usage.demandes + 1
        OBVIOUS
      <4>1. p \in M!Tours(c)
        BY DEF M!Tours
      <4>2. tour[c][p].num \in 1..usage.demandes
        BY <4>1 DEF NoeudsSuivis, Numeros
      <4> QED BY <1>2, <4>2
    <3>2. Fermees(tour', p, ligne'[p].num) = {}
      BY <1>1, <2>2, <3>1 DEF Fermees
    <3>3. /\ IsFiniteSet(Fermees(tour', p, ligne'[p].num))
          /\ Cardinality(Fermees(tour', p, ligne'[p].num)) = 0
      BY <3>2, FS_EmptySet
    <3> QED BY <1>1, <1>3, <2>2, <3>3 DEF ProxyCompris
  <2>3. CASE p # n
    BY <1>1, <2>1, <2>3 DEF ProxyCompris
  <2> QED BY <2>2, <2>3
<1> QED BY <1>4, <1>5, <1>6, <1>7 DEF Comptes

-----------------------------------------------------------------------------
(* A closing counts once for the tour and once for its request.            *)
LEMMA ComptesFermeture ==
  ASSUME NoeudsSuivis, Comptes, NEW c \in Cores, NEW k \in M!Tours(c), NEW t, NEW e,
         TourCompte(c, k, t, e)
  PROVE  Comptes'
<1>1. /\ t \in UnTour /\ tour' = [tour EXCEPT ![c][k] = t] /\ faits' = faits /\ ligne' = ligne
      /\ e \in {0, 1} /\ t.fermes = tour[c][k].fermes + e
      /\ t.num = tour[c][k].num /\ t.dem = tour[c][k].dem /\ tour[c][k].phase # "repos"
      /\ \A d \in M!Demandes : /\ bilan'[d].finis = bilan[d].finis
                               /\ bilan'[d].fermes = IF d = t.num THEN bilan[d].fermes + e
                                                     ELSE bilan[d].fermes
  BY DEF TourCompte, TourAvance
<1>2. \A d \in Cores : \A j \in M!Tours(d) :
         tour'[d][j] = IF d = c /\ j = k THEN t ELSE tour[d][j]
  BY <1>1, UnTourChange DEF NoeudsSuivis, NoeudsTypes
<1>3. \A d \in M!Demandes : bilan[d].fermes \in Nat /\ bilan[d].fermes <= bilan'[d].fermes
  <2>1. \A d \in M!Demandes : bilan[d].fermes \in Nat
    BY DEF NoeudsSuivis, NoeudsTypes, Bilans
  <2> QED BY <1>1, <2>1
<1>4. ASSUME NEW d \in Cores, NEW j \in M!Tours(d) PROVE TourCompris(d, j)'
  <2>1. /\ TourCompris(d, j) /\ tour[d][j] \in UnTour
        /\ tour[d][j].phase # "repos" => tour[d][j].num \in M!Demandes
    BY TourActif DEF Comptes
  <2>2. CASE d = c /\ j = k
    BY <1>1, <1>2, <1>3, <2>1, <2>2 DEF TourCompris, UnTour
  <2>3. CASE ~(d = c /\ j = k)
    BY <1>1, <1>2, <1>3, <2>1, <2>3 DEF TourCompris, UnTour
  <2> QED BY <2>2, <2>3
<1>5. ASSUME NEW n \in M!Noeuds PROVE FinVraie(n)'
  BY <1>1, Numerotee DEF Comptes, FinVraie
<1>6. ASSUME NEW d \in Cores PROVE CoeurCompris(d)'
  <2>1. d \in M!Noeuds
    BY DEF M!Noeuds
  <2>2. ligne[d].dem # 0 => ligne[d].num \in M!Demandes /\ ligne[d].ferm \in Nat
    BY <2>1, Numerotee DEF UneLigne
  <2> QED BY <1>1, <1>3, <2>2 DEF Comptes, CoeurCompris
<1>7. ASSUME NEW p \in Proxys PROVE ProxyCompris(p)'
  <2> SUFFICES ASSUME ligne[p].dem # 0
               PROVE  /\ IsFiniteSet(Fermees(tour', p, ligne[p].num))
                      /\ ligne[p].ferm + Cardinality(Fermees(tour', p, ligne[p].num))
                           <= bilan'[ligne[p].num].fermes
    BY <1>1 DEF ProxyCompris
  <2> DEFINE d == ligne[p].num
             F == Fermees(tour, p, d)
             G == Fermees(tour', p, d)
  <2>1. p \in M!Noeuds /\ \A q \in Cores : p \in M!Tours(q)
    BY DEF M!Noeuds, M!Tours
  <2>2. d \in M!Demandes /\ ligne[p].ferm \in Nat
    BY <2>1, Numerotee DEF UneLigne
  <2>3. IsFiniteSet(F) /\ ligne[p].ferm + Cardinality(F) <= bilan[d].fermes
    BY DEF Comptes, ProxyCompris
  <2>4. CASE k = p /\ t.num = d /\ e = 1
    <3>1. G \subseteq F \cup {<<c, t.fermes>>}
      <4> SUFFICES ASSUME NEW x \in G, x \notin F PROVE x = <<c, t.fermes>>
        OBVIOUS
      <4>1. /\ x \in Cores \X Nat /\ tour'[x[1]][p].phase # "repos" /\ tour'[x[1]][p].num = d
            /\ x[2] \in 1..tour'[x[1]][p].fermes
        BY DEF Fermees
      <4>2. x = <<x[1], x[2]>> /\ x[1] \in Cores /\ x[2] \in Nat
        BY <4>1
      <4>3. x[1] = c
        <5>1. CASE x[1] # c
          <6>1. tour'[x[1]][p] = tour[x[1]][p]
            BY <1>2, <2>1, <4>2, <5>1
          <6> QED BY <4>1, <6>1 DEF Fermees
        <5> QED BY <5>1
      <4>4. tour'[c][p] = t /\ tour[c][p].num = d /\ tour[c][p].fermes \in Nat
        BY <1>1, <1>2, <2>1, <2>4, TourActif DEF UnTour
      <4>5. x[2] \in 1..tour[c][p].fermes + 1 /\ x[2] \notin 1..tour[c][p].fermes
        <5>1. x[2] \in 1..tour[c][p].fermes + 1
          BY <1>1, <2>4, <4>1, <4>3, <4>4
        <5>2. x[2] \notin 1..tour[c][p].fermes
          BY <1>1, <2>4, <4>1, <4>3, <4>4 DEF Fermees
        <5> QED BY <5>1, <5>2
      <4>6. x[2] = tour[c][p].fermes + 1
        BY <4>2, <4>4, <4>5
      <4> QED BY <1>1, <2>4, <4>2, <4>3, <4>6
    <3> HIDE DEF F, G, d
    <3>2. /\ IsFiniteSet(F \cup {<<c, t.fermes>>})
          /\ Cardinality(F \cup {<<c, t.fermes>>}) <= Cardinality(F) + 1
      <4> DEFINE x == <<c, t.fermes>>
      <4> HIDE DEF x
      <4>1. Cardinality(F) \in Nat
        BY <2>3, CardinalNat
      <4>2. /\ IsFiniteSet(F \cup {x})
            /\ Cardinality(F \cup {x}) = IF x \in F THEN Cardinality(F) ELSE Cardinality(F) + 1
        BY <2>3, FS_AddElement
      <4> QED BY <4>1, <4>2 DEF x
    <3>3. IsFiniteSet(G) /\ Cardinality(G) <= Cardinality(F \cup {<<c, t.fermes>>})
      BY <3>1, <3>2, FS_Subset
    <3>4. /\ Cardinality(G) \in Nat /\ Cardinality(F) \in Nat
          /\ Cardinality(F \cup {<<c, t.fermes>>}) \in Nat
      BY <2>3, <3>2, <3>3, CardinalNat
    <3>5. bilan'[d].fermes = bilan[d].fermes + 1 /\ bilan[d].fermes \in Nat
      BY <1>1, <1>3, <2>2, <2>4
    <3>6. ligne[p].ferm + Cardinality(G) <= bilan'[d].fermes
      BY <2>2, <2>3, <3>2, <3>3, <3>4, <3>5
    <3> QED BY <3>3, <3>6 DEF G, d
  <2>5. CASE ~(k = p /\ t.num = d /\ e = 1)
    <3>1. \A q \in Cores : tour'[q][p] = tour[q][p] \/ tour'[q][p].num # d
                           \/ (q = c /\ k = p /\ tour'[q][p] = t /\ e = 0 /\ t.num = d)
      BY <1>1, <1>2, <2>1, <2>5
    <3>2. G \subseteq F
      <4> SUFFICES ASSUME NEW x \in G PROVE x \in F
        OBVIOUS
      <4>1. /\ x \in Cores \X Nat /\ tour'[x[1]][p].phase # "repos" /\ tour'[x[1]][p].num = d
            /\ x[2] \in 1..tour'[x[1]][p].fermes
        BY DEF Fermees
      <4>2. x[1] \in Cores
        BY <4>1
      <4>3. CASE tour'[x[1]][p] = tour[x[1]][p]
        BY <4>1, <4>3 DEF Fermees
      <4>4. CASE x[1] = c /\ k = p /\ tour'[x[1]][p] = t /\ e = 0 /\ t.num = d
        <5>1. tour[c][p].fermes \in Nat
          BY <2>1, TourActif DEF UnTour
        <5>2. t.fermes = tour[c][p].fermes /\ tour[c][p].phase # "repos" /\ tour[c][p].num = d
          BY <1>1, <4>4, <5>1
        <5> QED BY <4>1, <4>4, <5>2 DEF Fermees
      <4> QED BY <3>1, <4>1, <4>2, <4>3, <4>4
    <3> HIDE DEF F, G, d
    <3>3. IsFiniteSet(G) /\ Cardinality(G) <= Cardinality(F)
      BY <2>3, <3>2, FS_Subset
    <3>4. Cardinality(G) \in Nat /\ Cardinality(F) \in Nat
      BY <2>3, <3>3, CardinalNat
    <3>5. bilan[d].fermes \in Nat /\ bilan'[d].fermes \in Nat /\ bilan[d].fermes <= bilan'[d].fermes
      BY <1>1, <1>3, <2>2
    <3>6. ligne[p].ferm + Cardinality(G) <= bilan'[d].fermes
      BY <2>2, <2>3, <3>3, <3>4, <3>5
    <3> QED BY <3>3, <3>6 DEF G, d
  <2> QED BY <2>4, <2>5
<1> QED BY <1>4, <1>5, <1>6, <1>7 DEF Comptes
-----------------------------------------------------------------------------
(* The end of a tour moves what it counted to the row, if its request is   *)
(* still the one of the row.                                               *)
LEMMA FermeesFinies ==
  ASSUME NEW p \in Proxys, NEW c \in Cores, NEW d, IsFiniteSet(Fermees(tour, p, d)),
         tour[c][p].fermes \in Nat, tour[c][p].phase # "repos", tour[c][p].num = d,
         \A q \in Cores : q # c => tour'[q][p] = tour[q][p], tour'[c][p].phase = "repos"
  PROVE  /\ IsFiniteSet(Fermees(tour', p, d))
         /\ Cardinality(Fermees(tour', p, d)) + tour[c][p].fermes
              = Cardinality(Fermees(tour, p, d))
<1> DEFINE F == Fermees(tour, p, d)
           G == Fermees(tour', p, d)
           f == tour[c][p].fermes
           H == {c} \X (1..f)
<1>1. F = G \cup H /\ G \cap H = {}
  <2>1. ASSUME NEW x \in H PROVE x \in F /\ x \notin G
    <3>1. x[1] = c /\ x[2] \in 1..f /\ x = <<x[1], x[2]>>
      BY <2>1
    <3>2. x \in Cores \X Nat
      BY <3>1
    <3> QED BY <3>1, <3>2 DEF Fermees
  <2>2. ASSUME NEW x \in G PROVE x \in F
    <3>1. /\ x \in Cores \X Nat /\ tour'[x[1]][p].phase # "repos" /\ tour'[x[1]][p].num = d
          /\ x[2] \in 1..tour'[x[1]][p].fermes
      BY <2>2 DEF Fermees
    <3>2. x[1] \in Cores /\ x[1] # c
      BY <3>1
    <3> QED BY <3>1, <3>2 DEF Fermees
  <2>3. ASSUME NEW x \in F, x \notin G PROVE x \in H
    <3>1. /\ x \in Cores \X Nat /\ tour[x[1]][p].phase # "repos" /\ tour[x[1]][p].num = d
          /\ x[2] \in 1..tour[x[1]][p].fermes
      BY <2>3 DEF Fermees
    <3>2. x[1] = c
      <4>1. CASE x[1] # c
        <5>1. tour'[x[1]][p] = tour[x[1]][p]
          BY <3>1, <4>1
        <5> QED BY <2>3, <3>1, <5>1 DEF Fermees
      <4> QED BY <4>1
    <3>3. x = <<x[1], x[2]>> /\ x[2] \in 1..f
      BY <3>1, <3>2
    <3> QED BY <3>2, <3>3
  <2> HIDE DEF F, G, H
  <2> QED BY <2>1, <2>2, <2>3
<1>2. IsFiniteSet(H) /\ Cardinality(H) = f
  <2>1. IsFiniteSet({c}) /\ Cardinality({c}) = 1
    BY FS_Singleton
  <2>2. f \in Nat /\ 1 \in Int
    OBVIOUS
  <2> DEFINE I == 1..f
  <2>3. IsFiniteSet(I) /\ Cardinality(I) = f
    <3> HIDE DEF f
    <3> QED BY <2>2, FS_Interval
  <2> HIDE DEF I
  <2>4. IsFiniteSet({c} \X I) /\ Cardinality({c} \X I) = Cardinality({c}) * Cardinality(I)
    BY <2>1, <2>3, FS_Product
  <2> HIDE DEF f
  <2>5. 1 * f = f
    BY <2>2
  <2> QED BY <2>1, <2>3, <2>4, <2>5 DEF I
<1> HIDE DEF F, G, H, f
<1>3. IsFiniteSet(F) /\ IsFiniteSet(G)
  <2>1. IsFiniteSet(F)
    BY DEF F
  <2>2. G \in SUBSET F
    BY <1>1
  <2> QED BY <2>1, <2>2, FS_Subset
<1>4. Cardinality(F) = Cardinality(G) + Cardinality(H) - Cardinality(G \cap H)
  BY <1>1, <1>2, <1>3, FS_Union
<1>5. Cardinality(G \cap H) = 0 /\ Cardinality(G) \in Nat /\ f \in Nat
  BY <1>1, <1>3, FS_EmptySet, CardinalNat DEF f
<1>6. Cardinality(G) + f = Cardinality(F)
  BY <1>2, <1>4, <1>5
<1> QED BY <1>3, <1>6 DEF F, G, f

LEMMA ComptesFin ==
  ASSUME NoeudsSuivis, NoeudsSuivis', Comptes, NEW c \in Cores, NEW k \in M!Tours(c), NEW t,
         TourFini(c, k, t)
  PROVE  Comptes'
<1>1. /\ t \in UnTour /\ tour' = [tour EXCEPT ![c][k] = t] /\ faits' = faits
      /\ t.num = tour[c][k].num /\ t.dem = tour[c][k].dem /\ tour[c][k].phase # "repos"
      /\ t.phase = "repos"
      /\ \A d \in M!Demandes : /\ bilan'[d].fermes = bilan[d].fermes
                               /\ bilan[d].finis \subseteq bilan'[d].finis
      /\ bilan'[t.num].finis = bilan[t.num].finis \cup {c}
      /\ \A n \in M!Noeuds :
           /\ ligne'[n].num = ligne[n].num /\ ligne'[n].dem = ligne[n].dem
           /\ \/ ligne'[n].term = ligne[n].term /\ ligne'[n].ferm = ligne[n].ferm
              \/ /\ n = k /\ ligne[n].dem = t.dem
                 /\ ligne'[n].ferm = IF k = c THEN tour[c][k].fermes
                                     ELSE ligne[n].ferm + tour[c][k].fermes
  BY TourActif DEF TourFini, TourAvance
<1>2. \A d \in Cores : \A j \in M!Tours(d) :
         tour'[d][j] = IF d = c /\ j = k THEN t ELSE tour[d][j]
  <2>1. t \in UnTour /\ tour' = [tour EXCEPT ![c][k] = t] /\ faits' = faits
    BY <1>1
  <2>2. Memoires(tour, faits)
    BY DEF NoeudsSuivis, NoeudsTypes
  <2> QED BY <2>1, <2>2, UnTourChange
<1>3. /\ k \in M!Noeuds /\ tour[c][k] \in UnTour /\ tour[c][k].num \in M!Demandes
      /\ TourCompris(c, k)
  BY <1>1, TourActif DEF Comptes
<1>4. ASSUME NEW d \in Cores, NEW j \in M!Tours(d) PROVE TourCompris(d, j)'
  <2>1. /\ TourCompris(d, j) /\ j \in M!Noeuds
        /\ tour[d][j].phase # "repos" => tour[d][j].num \in M!Demandes
    BY TourActif DEF Comptes
  <2>2. CASE d = c /\ j = k
    BY <1>1, <1>2, <2>2 DEF TourCompris
  <2>3. CASE ~(d = c /\ j = k)
    BY <1>1, <1>2, <2>1, <2>3 DEF TourCompris
  <2> QED BY <2>2, <2>3
<1>5. ASSUME NEW n \in M!Noeuds PROVE FinVraie(n)'
  <2> SUFFICES ASSUME ligne'[n].dem # 0, ligne'[n].term # 0
               PROVE  IF n \in Cores THEN n \in bilan'[ligne[n].num].finis
                                     ELSE bilan'[ligne[n].num].finis # {}
    BY <1>1 DEF FinVraie
  <2>1. ligne[n].num \in M!Demandes /\ ligne[n].dem # 0
    BY <1>1, Numerotee
  <2>2. CASE ligne'[n].term = ligne[n].term
    BY <1>1, <2>1, <2>2 DEF Comptes, FinVraie
  <2>3. CASE n = k /\ ligne[n].dem = t.dem
    <3>1. ligne[n].num = t.num
      BY <1>1, <1>3, <2>3 DEF TourCompris
    <3>2. n \in Cores => n = c
      BY <2>3, BornesNoeuds
    <3> QED BY <1>1, <3>1, <3>2
  <2> QED BY <1>1, <2>2, <2>3
<1>6. ASSUME NEW d \in Cores PROVE CoeurCompris(d)'
  <2> SUFFICES ASSUME ligne'[d].dem # 0
               PROVE  ligne'[d].ferm <= bilan'[ligne[d].num].fermes
    BY <1>1 DEF CoeurCompris, M!Noeuds
  <2>1. d \in M!Noeuds
    BY DEF M!Noeuds
  <2>2. ligne[d].num \in M!Demandes /\ ligne[d].dem # 0
    BY <1>1, <2>1, Numerotee
  <2>3. CASE ligne'[d].ferm = ligne[d].ferm
    BY <1>1, <2>2, <2>3 DEF Comptes, CoeurCompris
  <2>4. CASE d = k /\ ligne[d].dem = t.dem
    <3>1. k = c
      BY <2>4, BornesNoeuds
    <3>2. ligne'[d].ferm = tour[c][k].fermes \/ ligne'[d].ferm = ligne[d].ferm
      BY <1>1, <2>1, <3>1
    <3>3. ligne[d].num = t.num /\ tour[c][k].fermes <= bilan[t.num].fermes
      BY <1>1, <1>3, <2>4 DEF TourCompris
    <3> QED BY <1>1, <2>2, <2>3, <3>2, <3>3
  <2> QED BY <1>1, <2>1, <2>3, <2>4
<1>7. ASSUME NEW p \in Proxys PROVE ProxyCompris(p)'
  <2>0. p \in M!Noeuds /\ \A q \in Cores : p \in M!Tours(q)
    BY DEF M!Noeuds, M!Tours
  <2> DEFINE d == ligne[p].num
  <2> SUFFICES ASSUME ligne'[p].dem # 0
               PROVE  /\ IsFiniteSet(Fermees(tour', p, d))
                      /\ ligne'[p].ferm + Cardinality(Fermees(tour', p, d)) <= bilan'[d].fermes
    BY <1>1, <2>0 DEF ProxyCompris
  <2>1. /\ ligne[p].dem # 0 /\ d \in M!Demandes /\ ligne[p].ferm \in Nat
        /\ bilan[d].fermes \in Nat /\ bilan'[d].fermes = bilan[d].fermes
    BY <1>1, <2>0, Numerotee DEF UneLigne
  <2>2. /\ IsFiniteSet(Fermees(tour, p, d))
        /\ ligne[p].ferm + Cardinality(Fermees(tour, p, d)) <= bilan[d].fermes
    BY <2>1 DEF Comptes, ProxyCompris
  <2>3. CASE ligne'[p].ferm = ligne[p].ferm
    <3> HIDE DEF d
    <3>1. \A q \in Cores : tour'[q][p] = tour[q][p] \/ tour'[q][p].phase = "repos"
      BY <1>1, <1>2, <2>0
    <3>2. /\ IsFiniteSet(Fermees(tour', p, d))
          /\ Cardinality(Fermees(tour', p, d)) <= Cardinality(Fermees(tour, p, d))
      BY <2>2, <3>1, FermeesBaissent
    <3>3. Cardinality(Fermees(tour', p, d)) \in Nat /\ Cardinality(Fermees(tour, p, d)) \in Nat
      BY <2>2, <3>2, CardinalNat
    <3>4. ligne[p].ferm + Cardinality(Fermees(tour', p, d)) <= bilan[d].fermes
      BY <2>1, <2>2, <3>2, <3>3
    <3> QED BY <2>1, <2>3, <3>2, <3>4
  <2>4. CASE /\ p = k /\ ligne[p].dem = t.dem
             /\ ligne'[p].ferm = ligne[p].ferm + tour[c][k].fermes
    <3>1. d = tour[c][p].num /\ tour[c][p].fermes \in Nat
      BY <1>1, <1>3, <2>4 DEF TourCompris, UnTour
    <3> HIDE DEF d
    <3>2. (\A q \in Cores : q # c => tour'[q][p] = tour[q][p]) /\ tour'[c][p].phase = "repos"
      BY <1>1, <1>2, <2>0, <2>4
    <3>3. /\ IsFiniteSet(Fermees(tour', p, d))
          /\ Cardinality(Fermees(tour', p, d)) + tour[c][p].fermes
               = Cardinality(Fermees(tour, p, d))
      BY <1>1, <2>2, <2>4, <3>1, <3>2, FermeesFinies
    <3>4. Cardinality(Fermees(tour', p, d)) \in Nat
      BY <3>3, CardinalNat
    <3>5. ligne[p].ferm + tour[c][p].fermes + Cardinality(Fermees(tour', p, d)) <= bilan[d].fermes
      BY <2>1, <2>2, <3>1, <3>3, <3>4
    <3> QED BY <2>1, <2>4, <3>3, <3>5
  <2>5. p # c
    BY BornesNoeuds
  <2> QED BY <1>1, <2>0, <2>3, <2>4, <2>5
<1> QED BY <1>4, <1>5, <1>6, <1>7 DEF Comptes

-----------------------------------------------------------------------------
LEMMA ComptesPas ==
  ASSUME NoeudsSuivis, Comptes, Espacees, M!Next
  PROVE  Comptes'
<1>0. NoeudsSuivis' /\ Purge
  BY NoeudsPas
<1>1. CASE Calme
  BY <1>1, ComptesMemes DEF Calme
<1>2. ASSUME NEW n \in M!Noeuds, PurgeDemandee(n) PROVE Comptes'
  BY <1>0, <1>2, ComptesDemande
<1>3. ASSUME NEW c \in Cores, CoeurBat(c) PROVE Comptes'
  <2>1. bilan' = bilan /\ \A n \in M!Noeuds : Suit(n, ligne[n], ligne'[n])
    BY <1>3 DEF CoeurBat, Suit
  <2>2. \A d \in Cores : \A k \in M!Tours(d) :
           tour'[d][k] = tour[d][k] \/ tour'[d][k].phase = "repos" \/ Lancement(d, k, ligne'[k])
    BY <1>3 DEF CoeurBat
  <2> QED BY <2>1, <2>2, ComptesMemes
<1>4. CASE /\ UNCHANGED <<ligne, bilan>>
           /\ \A d \in Cores : \A j \in M!Tours(d) :
                tour'[d][j] = tour[d][j] \/ (tour'[d][j].phase = "repos" /\ tour'[d][j].fermes = 0)
  <2>1. bilan' = bilan /\ \A n \in M!Noeuds : Suit(n, ligne[n], ligne'[n])
    BY <1>4 DEF Suit, Meme
  <2> QED BY <1>4, <2>1, ComptesMemes
<1>5. ASSUME NEW c \in Cores, NEW k \in M!Tours(c), NEW t, NEW e, TourCompte(c, k, t, e)
      PROVE  Comptes'
  BY <1>5, ComptesFermeture
<1>6. ASSUME NEW c \in Cores, NEW k \in M!Tours(c), NEW t, TourFini(c, k, t)
      PROVE  Comptes'
  BY <1>0, <1>6, ComptesFin
<1> QED BY <1>0, <1>1, <1>2, <1>3, <1>4, <1>5, <1>6 DEF Purge

LEMMA ComptesReste ==
  ASSUME Comptes, UNCHANGED maintenanceVars
  PROVE  Comptes'
BY DEF Comptes, TourCompris, FinVraie, CoeurCompris, ProxyCompris, Fermees, maintenanceVars

LEMMA ComptesDisent ==
  ASSUME NoeudsSuivis, Comptes
  PROVE  M!TypeOK /\ M!TermineeVraie /\ M!CompteHonnete
<1>1. M!TypeOK
  BY DEF NoeudsSuivis, NoeudsTypes, Lignes, UneLigne, Memoires, UnTour, UnGeste, M!TypeOK
<1>2. M!TermineeVraie
  BY Numerotee DEF Comptes, FinVraie, M!TermineeVraie, M!PurgeEnCours, UneLigne
<1>3. M!CompteHonnete
  <2> SUFFICES ASSUME NEW n \in M!Noeuds, ligne[n].dem # 0
               PROVE  ligne[n].ferm <= bilan[ligne[n].num].fermes
    BY DEF M!CompteHonnete
  <2>1. CASE n \in Cores
    BY <2>1 DEF Comptes, CoeurCompris
  <2>2. CASE n \in Proxys
    <3>1. /\ IsFiniteSet(Fermees(tour, n, ligne[n].num))
          /\ ligne[n].ferm + Cardinality(Fermees(tour, n, ligne[n].num))
               <= bilan[ligne[n].num].fermes
      BY <2>2 DEF Comptes, ProxyCompris
    <3>2. /\ ligne[n].ferm \in Nat /\ bilan[ligne[n].num].fermes \in Nat
          /\ Cardinality(Fermees(tour, n, ligne[n].num)) \in Nat
      BY <3>1, Numerotee, CardinalNat DEF UneLigne
    <3> QED BY <3>1, <3>2
  <2> QED BY <2>1, <2>2 DEF M!Noeuds
<1> QED BY <1>1, <1>2, <1>3

(* For every set of cores, proxies and machines, however many purges,      *)
(* stops of a core and ends that are not written, when no two purges of a  *)
(* node bear the same date: a purge that the row marks as ended was ended  *)
(* by its core, or by one core at least for a proxy, and the tunnels it    *)
(* counts were closed for that very request (TerminerPurge,                *)
(* TerminerPartDePurge).                                                   *)
THEOREM PurgesToujours ==
  Espacees => (M!Spec => [](M!TypeOK /\ M!TermineeVraie /\ M!CompteHonnete))
<1> SUFFICES ASSUME Espacees
             PROVE  M!Spec => [](M!TypeOK /\ M!TermineeVraie /\ M!CompteHonnete)
  OBVIOUS
<1> DEFINE I == NoeudsSuivis /\ Comptes
<1>1. M!Init => I
  BY NoeudsDepart, ComptesDepart
<1>2. I /\ [M!Next]_(M!vars) => I'
  BY NoeudsPas, NoeudsReste, ComptesPas, ComptesReste DEF M!vars, maintenanceVars
<1>3. I => M!TypeOK /\ M!TermineeVraie /\ M!CompteHonnete
  BY ComptesDisent
<1> HIDE DEF I
<1> QED BY <1>1, <1>2, <1>3, PTL DEF M!Spec

PurgesInv == partie \in Purges => Comptes

(* The same of the parts of the purges in the run.                         *)
THEOREM PurgesCorrectes == Espacees => (Ensemble => []PurgeVraie)
<1> SUFFICES ASSUME Espacees PROVE Ensemble => []PurgeVraie
  OBVIOUS
<1>1. Depart => PurgesInv
  BY ComptesDepart DEF Depart, PurgesInv
<1>2. MaintenanceInv /\ PurgesInv /\ [Pas]_tout => PurgesInv'
  <2> SUFFICES ASSUME MaintenanceInv, PurgesInv, [Pas]_tout, partie' \in Purges PROVE Comptes'
    BY DEF PurgesInv
  <2>1. CASE UNCHANGED tout
    BY <2>1, ComptesReste DEF tout, PurgesInv
  <2>2. CASE Pas
    <3>1. partie' = partie /\ partie \in Purges
      BY <2>2 DEF Pas, Purges
    <3> QED BY <2>2, <3>1, MaintenancePas, ComptesPas DEF MaintenanceInv, PurgesInv
  <2> QED BY <2>1, <2>2
<1>3. MaintenanceInv /\ PurgesInv => PurgeVraie
  BY ComptesDisent DEF MaintenanceInv, PurgesInv, PurgeVraie
<1> QED BY <1>1, <1>2, <1>3, MaintenanceDepart, MaintenanceSuivie, PTL DEF Ensemble
=============================================================================
