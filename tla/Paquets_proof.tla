---------------------------- MODULE Paquets_proof ----------------------------
(***************************************************************************)
(* Proofs about the packages: the update of a machine, for any versions,   *)
(* files, failures and power cuts, then the store of the Nexus, for every  *)
(* set of digests, images, publishers and collectors and every grace       *)
(* period.                                                                 *)
(*                                                                         *)
(* The update (MiseAJour): the swap of the files is followed piece by      *)
(* piece from what it put aside, and the order it carries out from the     *)
(* version that runs.                                                      *)
(*                                                                         *)
(* The store (NexusBlobs): the types hold, and, as long as publications    *)
(* stay within the grace period and no content is sent again while it is   *)
(* being removed, what the catalogue references stays on the disk.         *)
(***************************************************************************)
EXTENDS MCPaquets, Sequences, TLAPS

-----------------------------------------------------------------------------
(* The update: the types of its variables.                                 *)
UneMaj == [pas : {"arret", "garder", "basculer", "redemarrer", "porte", "remettre", "relance",
                  "installe", "echec", "refuse", "rendre"},
           version : Versions \cup {0}, i : 0..S!Unite + 1, n : 0..S!Unite,
           retro : BOOLEAN, lent : BOOLEAN, defaut : BOOLEAN,
           motif : {"", "rien", "arriere", "prepare"}]
Resultats == {"", "installe", "refuse", "echec"}
UnResultat == [version : Versions \cup {0}, resultat : Resultats, rapporte : BOOLEAN]
UneTrame == [quoi : {"declare", "demande", "compte"}, version : Versions \cup {0},
             resultat : Resultats]
UnOrdre == [version : Versions, retro : BOOLEAN]
UnDeroule == [version : Versions, retro : BOOLEAN, pas : {"attend", "prepare"}, lent : BOOLEAN]
Bornes == {"coupures", "pannes", "chutes", "gestes", "courses"}

DisqueType ==
  /\ place \in [S!Pieces -> Versions]
  /\ garde \in [Versions -> [S!Pieces -> Versions \cup {0}]]
  /\ pretes \in SUBSET Versions /\ maj \in UneMaj
MachineType ==
  /\ verrou \in {"libre", "frais", "vieux"} /\ etat \in UnResultat
  /\ tourne \in Versions /\ lue \in UnResultat
  /\ tour \in {"compte", "demande"} /\ conf \in {"attend", "passe", "fait"}
  /\ deroules \in SUBSET UnDeroule
TramesType == monte \in Seq(UneTrame) /\ descend \in Seq(UnOrdre)
DitsType == dits \in [promis : Versions \cup {0}, ratees : SUBSET Versions]
ResteType == reste \in [Bornes -> Nat]
CoreType ==
  /\ cibles \in [derogation : Versions \cup {0}, groupe : Versions \cup {0},
                 parc : Versions \cup {0}, retro : BOOLEAN]
  /\ declaree \in Versions \cup {0} /\ compte \in UnResultat /\ envoi \in Versions \cup {0}

(* What a swap has done so far, from what it put aside.                    *)
BasculeSuivie ==
  /\ maj.pas # "arret" => maj.version \in Versions
  /\ maj.pas \in {"basculer", "redemarrer", "porte", "remettre"} => garde[maj.version] \in [S!Pieces -> Versions]
  /\ maj.pas = "basculer" =>
       /\ maj.i \in 1..S!Unite
       /\ \A p \in S!Pieces : place[p] = IF p < maj.i THEN maj.version ELSE garde[maj.version][p]
  /\ maj.pas \in {"redemarrer", "porte", "installe"} => \A p \in S!Pieces : place[p] = maj.version
  /\ (maj.pas = "remettre" /\ ~maj.defaut) => /\ maj.i \in 1..maj.n + 1
       /\ \A p \in S!Pieces : (p < maj.i \/ p > maj.n) => place[p] = garde[maj.version][p]
  /\ (maj.pas \in {"echec", "relance"} /\ ~maj.defaut) => place = garde[maj.version]
  /\ maj.pas = "arret" => ~maj.defaut

(* The types, and what the swap has done: inductive.                       *)
MajSuivie ==
  /\ DisqueType /\ MachineType /\ TramesType /\ CoreType /\ DitsType /\ ResteType
  /\ BasculeSuivie


disqueVars == <<place, garde, pretes, maj>>
machineVars == <<verrou, etat, tourne, lue, tour, conf, deroules>>
tramesVars == <<monte, descend>>
coreVars == <<cibles, declaree, compte, envoi>>

LEMMA BornesMaj ==
  /\ Versions \subseteq Nat \ {0} /\ Depart \in Versions
  /\ NbFichiers \in Nat \ {0} /\ S!Unite = NbFichiers + 1 /\ S!Pieces = 1..NbFichiers + 1
  /\ Lenteur \in BOOLEAN /\ Sources \subseteq {"derogation", "groupe", "parc"}
  /\ {Coupures, Pannes, Chutes, Gestes, Courses} \subseteq Nat
BY BornesDesMisesAJour DEF S!VersionsAssumption, S!Unite, S!Pieces

LEMMA DisqueReste ==
  ASSUME MajSuivie, UNCHANGED disqueVars
  PROVE  DisqueType' /\ BasculeSuivie'
BY DEF MajSuivie, disqueVars, DisqueType, BasculeSuivie

LEMMA MachineReste ==
  ASSUME MajSuivie, UNCHANGED machineVars
  PROVE  MachineType'
BY DEF MajSuivie, machineVars, MachineType

LEMMA TramesReste ==
  ASSUME MajSuivie, UNCHANGED tramesVars
  PROVE  TramesType'
BY DEF MajSuivie, tramesVars, TramesType

LEMMA CoreReste ==
  ASSUME MajSuivie, UNCHANGED coreVars
  PROVE  CoreType'
BY DEF MajSuivie, coreVars, CoreType

LEMMA DitsReste == ASSUME MajSuivie, dits' = dits PROVE DitsType'
BY DEF MajSuivie, DitsType

LEMMA ResteReste == ASSUME MajSuivie, reste' = reste PROVE ResteType'
BY DEF MajSuivie, ResteType

LEMMA DepenseType ==
  ASSUME MajSuivie, NEW q \in Bornes, S!Depense(q)
  PROVE  ResteType'
BY DEF MajSuivie, ResteType, S!Depense

LEMMA AttendreType == ASSUME MajSuivie, NEW m, S!Attendre(m) PROVE ResteType'
<1>1. S!Depense("courses") \/ reste' = reste
  BY DEF S!Attendre
<1> QED BY <1>1, DepenseType, ResteReste DEF Bornes

-----------------------------------------------------------------------------
(* What the operators of the core and of the agent return.                 *)
LEMMA DecisionType ==
  ASSUME MajSuivie, NEW r \in BOOLEAN, NEW c
  PROVE  /\ S!Decider(cibles, declaree, c) \in Versions \cup {0}
         /\ S!DeciderPourRelance(cibles, declaree, r) \in Versions \cup {0}
<1>1. S!Attendue(cibles) \in Versions \cup {0}
  BY DEF MajSuivie, CoreType, S!Attendue
<1> DEFINE a == S!Attendue(cibles)
<1>2. \A x : S!Decider(cibles, declaree, x) \in {0, a}
  BY DEF S!Decider
<1>3. S!DeciderPourRelance(cibles, declaree, r) \in {0, a, S!Decider(cibles, declaree, S!Rien)}
  BY DEF S!DeciderPourRelance
<1> QED BY <1>1, <1>2, <1>3

LEMMA PousserType ==
  ASSUME MajSuivie, NEW v \in Versions, S!Pousser(v)
  PROVE  descend' \in Seq(UnOrdre) /\ envoi' = v
<1>1. S!Ordre(v) \in UnOrdre
  BY DEF S!Ordre, S!EnAvance, UnOrdre
<1> QED BY <1>1 DEF MajSuivie, TramesType, S!Pousser

LEMMA RecevoirType ==
  ASSUME MajSuivie, NEW q, S!Recevoir(q)
  PROVE  monte' \in Seq(UneTrame) /\ Head(monte) \in UneTrame /\ Head(monte).quoi = q
BY DEF MajSuivie, TramesType, S!Recevoir

LEMMA EmettreType ==
  ASSUME MajSuivie, NEW f \in UneTrame, S!Emettre(f)
  PROVE  monte' \in Seq(UneTrame)
BY DEF MajSuivie, TramesType, S!Emettre

LEMMA EcrireEtatType ==
  ASSUME MajSuivie, NEW v \in Versions, NEW r \in Resultats, S!EcrireEtat(v, r)
  PROVE  etat' \in UnResultat /\ DitsType'
<1>1. etat' \in UnResultat
  BY DEF S!EcrireEtat, UnResultat
<1> DEFINE x == [dits EXCEPT !.ratees = dits.ratees \cup {v}]
<1>2. dits' = x \/ dits' = dits
  BY DEF S!EcrireEtat
<1>3. x \in [promis : Versions \cup {0}, ratees : SUBSET Versions]
  BY DEF MajSuivie, DitsType
<1> HIDE DEF x
<1> QED BY <1>1, <1>2, <1>3 DEF MajSuivie, DitsType

LEMMA RienType == S!Rien \in UnResultat
BY DEF S!Rien, UnResultat, Resultats

LEMMA DemarrerType ==
  ASSUME MajSuivie, NEW v \in Versions, S!Demarrer(v), UNCHANGED <<verrou, etat>>
  PROVE  MachineType' /\ TramesType'
<1>1. MachineType'
  BY RienType DEF MajSuivie, MachineType, S!Demarrer
<1>2. TramesType'
  BY DEF TramesType, S!Demarrer, S!Tomber
<1> QED BY <1>1, <1>2

-----------------------------------------------------------------------------
(* The core.                                                               *)
LEMMA PasDeclaration == ASSUME MajSuivie, S!RecevoirDeclaration PROVE MajSuivie'
<1>1. /\ UNCHANGED disqueVars /\ UNCHANGED machineVars
      /\ UNCHANGED <<descend, cibles, compte, envoi, reste, dits>>
      /\ S!Recevoir("declare") /\ declaree' = Head(monte).version
  BY DEF S!RecevoirDeclaration, S!disque, S!agent, disqueVars, machineVars
<1>2. monte' \in Seq(UneTrame) /\ declaree' \in Versions \cup {0}
  BY <1>1, RecevoirType DEF UneTrame
<1>3. TramesType' /\ CoreType'
  BY <1>1, <1>2 DEF MajSuivie, TramesType, CoreType
<1> QED BY <1>1, <1>3, DisqueReste, MachineReste, DitsReste, ResteReste DEF MajSuivie

LEMMA PasDemande == ASSUME MajSuivie, S!RepondreALaDemande PROVE MajSuivie'
<1> DEFINE v == S!Decider(cibles, declaree, compte)
           x == [dits EXCEPT !.promis = 0]
<1>1. /\ UNCHANGED disqueVars /\ UNCHANGED machineVars
      /\ UNCHANGED <<cibles, declaree, compte, reste>>
      /\ S!Recevoir("demande") /\ dits' = x
      /\ UNCHANGED <<descend, envoi>> \/ (v # 0 /\ S!Pousser(v))
  BY DEF S!RepondreALaDemande, S!disque, S!agent, disqueVars, machineVars
<1>2. x \in [promis : Versions \cup {0}, ratees : SUBSET Versions]
  BY DEF MajSuivie, DitsType
<1>3. v \in Versions \cup {0}
  BY DecisionType
<1> HIDE DEF x, v
<1>4. monte' \in Seq(UneTrame) /\ DitsType'
  BY <1>1, <1>2, RecevoirType DEF DitsType
<1>5. UNCHANGED <<descend, envoi>> \/ (descend' \in Seq(UnOrdre) /\ envoi' \in Versions)
  BY <1>1, <1>3, PousserType
<1>6. TramesType' /\ CoreType'
  BY <1>1, <1>4, <1>5 DEF MajSuivie, TramesType, CoreType
<1> QED BY <1>1, <1>4, <1>6, DisqueReste, MachineReste, ResteReste DEF MajSuivie

LEMMA PasCompteRecu == ASSUME MajSuivie, S!RecevoirLeCompteRendu PROVE MajSuivie'
<1> DEFINE r == Head(monte)
           b == cibles.retro /\ ~(r.resultat = "installe" /\ cibles.derogation = r.version)
           x == [cibles EXCEPT !.retro = b]
           y == [version |-> r.version, resultat |-> r.resultat, rapporte |-> TRUE]
<1>1. /\ UNCHANGED disqueVars /\ UNCHANGED machineVars
      /\ UNCHANGED <<descend, declaree, reste, dits>>
      /\ S!Recevoir("compte") /\ compte' = y /\ cibles' = x /\ envoi' = 0
  BY DEF S!RecevoirLeCompteRendu, S!disque, S!agent, disqueVars, machineVars
<1>2. monte' \in Seq(UneTrame) /\ r \in UneTrame
  BY <1>1, RecevoirType
<1>3. y \in UnResultat
  BY <1>2 DEF UneTrame, UnResultat
<1>4. b \in BOOLEAN
  OBVIOUS
<1> HIDE DEF b, r
<1>5. x \in [derogation : Versions \cup {0}, groupe : Versions \cup {0},
             parc : Versions \cup {0}, retro : BOOLEAN]
  BY <1>4 DEF MajSuivie, CoreType
<1> HIDE DEF x, y
<1>6. TramesType' /\ CoreType'
  BY <1>1, <1>2, <1>3, <1>5 DEF MajSuivie, TramesType, CoreType
<1> QED BY <1>1, <1>6, DisqueReste, MachineReste, DitsReste, ResteReste DEF MajSuivie

LEMMA PasTourDuCore == ASSUME MajSuivie, S!UnTour PROVE MajSuivie'
<1> DEFINE v == S!Decider(cibles, declaree, compte)
           x == [dits EXCEPT !.promis = 0]
<1>1. /\ UNCHANGED disqueVars /\ UNCHANGED machineVars
      /\ UNCHANGED <<monte, cibles, declaree, compte>>
      /\ S!Attendre(S!EnVol \/ ~etat.rapporte) /\ dits' = x
      /\ (envoi' = 0 /\ descend' = descend) \/ (v # 0 /\ S!Pousser(v))
  BY DEF S!UnTour, S!disque, S!agent, disqueVars, machineVars
<1>2. x \in [promis : Versions \cup {0}, ratees : SUBSET Versions]
  BY DEF MajSuivie, DitsType
<1>3. v \in Versions \cup {0}
  BY DecisionType
<1> HIDE DEF x, v
<1>4. DitsType'
  BY <1>1, <1>2 DEF DitsType
<1>5. (envoi' = 0 /\ descend' = descend) \/ (descend' \in Seq(UnOrdre) /\ envoi' \in Versions)
  BY <1>1, <1>3, PousserType
<1>6. TramesType' /\ CoreType'
  BY <1>1, <1>4, <1>5 DEF MajSuivie, TramesType, CoreType
<1>7. ResteType'
  BY <1>1, AttendreType
<1> QED BY <1>1, <1>4, <1>6, <1>7, DisqueReste, MachineReste DEF MajSuivie

LEMMA PasHeure == ASSUME MajSuivie, S!RepousseApres PROVE MajSuivie'
<1>1. /\ UNCHANGED disqueVars /\ UNCHANGED machineVars /\ UNCHANGED tramesVars
      /\ UNCHANGED <<cibles, declaree, compte, reste, dits>> /\ envoi' = 0
  BY DEF S!RepousseApres, S!disque, S!agent, disqueVars, machineVars, tramesVars
<1>2. CoreType'
  BY <1>1 DEF MajSuivie, CoreType
<1> QED
  BY <1>1, <1>2, DisqueReste, MachineReste, TramesReste, DitsReste, ResteReste DEF MajSuivie

LEMMA PasCible == ASSUME MajSuivie, S!DefinirCible PROVE MajSuivie'
<1> DEFINE C == [derogation : Versions \cup {0}, groupe : Versions \cup {0},
                 parc : Versions \cup {0}, retro : BOOLEAN]
<1>1. /\ UNCHANGED disqueVars /\ UNCHANGED machineVars /\ UNCHANGED tramesVars
      /\ UNCHANGED <<declaree, compte, envoi>> /\ S!Depense("gestes")
      /\ dits' = [promis |-> 0, ratees |-> {}]
  BY DEF S!DefinirCible, S!disque, S!agent, disqueVars, machineVars, tramesVars
<1>2. PICK v \in Versions \cup {0} :
        \/ \E ou \in Sources \ {"derogation"} : cibles' = [cibles EXCEPT ![ou] = v]
        \/ \E r \in BOOLEAN : cibles' = [cibles EXCEPT !.derogation = v, !.retro = r]
  BY DEF S!DefinirCible
<1>0. cibles \in C
  BY DEF MajSuivie, CoreType
<1>3. ASSUME NEW ou \in Sources \ {"derogation"} PROVE [cibles EXCEPT ![ou] = v] \in C
  <2>1. [cibles EXCEPT !.groupe = v] \in C /\ [cibles EXCEPT !.parc = v] \in C
    BY <1>0
  <2> HIDE DEF C
  <2> QED BY <2>1, BornesMaj
<1>4. ASSUME NEW r \in BOOLEAN PROVE [cibles EXCEPT !.derogation = v, !.retro = r] \in C
  <2> DEFINE x1 == [cibles EXCEPT !.derogation = v]
             x2 == [x1 EXCEPT !.retro = r]
  <2>1. x1 \in C
    BY <1>0
  <2> HIDE DEF x1
  <2>2. x2 \in C
    BY <2>1
  <2> QED BY <2>2 DEF x1
<1>5. cibles' \in C
  BY <1>2, <1>3, <1>4
<1>6. CoreType' /\ DitsType'
  BY <1>1, <1>5 DEF MajSuivie, CoreType, DitsType
<1>7. ResteType'
  BY <1>1, DepenseType DEF Bornes
<1> QED BY <1>1, <1>6, <1>7, DisqueReste, MachineReste, TramesReste DEF MajSuivie

LEMMA PasRelance == ASSUME MajSuivie, S!Relancer PROVE MajSuivie'
<1>1. /\ UNCHANGED disqueVars /\ UNCHANGED machineVars
      /\ UNCHANGED <<monte, cibles, declaree>> /\ S!Depense("gestes") /\ compte' = S!Rien
  BY DEF S!Relancer, S!disque, S!agent, disqueVars, machineVars
<1>2. PICK b \in BOOLEAN :
        LET v == S!DeciderPourRelance(cibles, declaree, b)
        IN  \/ v # 0 /\ S!Pousser(v) /\ dits' = [promis |-> 0, ratees |-> {}]
            \/ /\ envoi' \in {envoi, 0} /\ dits' = [promis |-> IF b THEN 0 ELSE v, ratees |-> {}]
               /\ descend' = descend
  BY DEF S!Relancer
<1> DEFINE v == S!DeciderPourRelance(cibles, declaree, b)
<1>3. v \in Versions \cup {0}
  BY DecisionType
<1> HIDE DEF v
<1>4. DitsType'
  BY <1>2, <1>3 DEF DitsType, v
<1>5. \/ descend' = descend /\ envoi' \in {envoi, 0}
      \/ descend' \in Seq(UnOrdre) /\ envoi' \in Versions
  BY <1>2, <1>3, PousserType DEF v
<1>6. TramesType' /\ CoreType'
  BY <1>1, <1>5, RienType DEF MajSuivie, TramesType, CoreType
<1>7. ResteType'
  BY <1>1, DepenseType DEF Bornes
<1> QED BY <1>1, <1>4, <1>6, <1>7, DisqueReste, MachineReste DEF MajSuivie

-----------------------------------------------------------------------------
(* The tunnel and the process of the agent.                                *)
LEMMA PasConnexion == ASSUME MajSuivie, S!Connecter PROVE MajSuivie'
<1>1. /\ UNCHANGED disqueVars /\ UNCHANGED coreVars /\ UNCHANGED tramesVars
      /\ UNCHANGED <<verrou, etat, tourne, lue, conf, deroules, reste, dits>> /\ tour' = "compte"
  BY DEF S!Connecter, S!disque, S!core, disqueVars, coreVars, tramesVars
<1>2. MachineType'
  BY <1>1 DEF MajSuivie, MachineType
<1> QED BY <1>1, <1>2, DisqueReste, CoreReste, TramesReste, DitsReste, ResteReste DEF MajSuivie

LEMMA PasCoupure == ASSUME MajSuivie, S!CouperTunnel PROVE MajSuivie'
<1>1. /\ UNCHANGED disqueVars /\ UNCHANGED coreVars /\ UNCHANGED machineVars
      /\ dits' = dits /\ S!Depense("chutes") /\ monte' = <<>> /\ descend' = <<>>
  BY DEF S!CouperTunnel, S!Tomber, S!disque, S!core, disqueVars, coreVars, machineVars
<1>2. TramesType'
  BY <1>1 DEF TramesType
<1>3. ResteType'
  BY <1>1, DepenseType DEF Bornes
<1> QED BY <1>1, <1>2, <1>3, DisqueReste, CoreReste, MachineReste, DitsReste DEF MajSuivie

LEMMA BinaireType == MajSuivie => place[1] \in Versions
BY BornesMaj DEF MajSuivie, DisqueType

LEMMA PasChute == ASSUME MajSuivie, S!AgentTombe PROVE MajSuivie'
<1>1. /\ UNCHANGED disqueVars /\ UNCHANGED coreVars
      /\ dits' = dits /\ S!Depense("chutes") /\ S!Demarrer(place[1]) /\ UNCHANGED <<verrou, etat>>
  BY DEF S!AgentTombe, S!disque, S!core, disqueVars, coreVars
<1>2. ResteType'
  BY <1>1, DepenseType DEF Bornes
<1> QED BY <1>1, <1>2, BinaireType, DemarrerType, DisqueReste, CoreReste, DitsReste DEF MajSuivie

LEMMA ArreteeType == S!Arretee \in UneMaj /\ S!Arretee.pas = "arret" /\ ~S!Arretee.defaut
                   /\ S!Arretee.motif = ""
BY BornesMaj DEF S!Arretee, UneMaj

LEMMA PasCourant == ASSUME MajSuivie, S!Courant PROVE MajSuivie'
<1>1. /\ UNCHANGED <<place, garde, pretes>> /\ UNCHANGED coreVars
      /\ dits' = dits /\ S!Depense("coupures") /\ S!Demarrer(place[1]) /\ UNCHANGED <<verrou, etat>>
      /\ maj' = S!Arretee
  BY DEF S!Courant, S!disque, S!core, coreVars
<1>2. ResteType'
  BY <1>1, DepenseType DEF Bornes
<1>3. DisqueType' /\ BasculeSuivie'
  BY <1>1, ArreteeType DEF MajSuivie, DisqueType, BasculeSuivie
<1> QED BY <1>1, <1>2, <1>3, BinaireType, DemarrerType, CoreReste, DitsReste DEF MajSuivie

LEMMA PasDeclarer == ASSUME MajSuivie, S!Declarer PROVE MajSuivie'
<1> DEFINE f == [quoi |-> "declare", version |-> tourne, resultat |-> ""]
<1>1. /\ UNCHANGED disqueVars /\ UNCHANGED coreVars /\ UNCHANGED machineVars
      /\ UNCHANGED <<descend, reste, dits>> /\ monte' = Append(monte, f)
  BY DEF S!Declarer, S!disque, S!core, disqueVars, coreVars, machineVars
<1>2. f \in UneTrame
  BY DEF MajSuivie, MachineType, UneTrame, Resultats
<1> HIDE DEF f
<1>3. TramesType'
  BY <1>1, <1>2 DEF MajSuivie, TramesType
<1> QED BY <1>1, <1>3, DisqueReste, CoreReste, MachineReste, DitsReste, ResteReste DEF MajSuivie

LEMMA PasCompteRendu == ASSUME MajSuivie, S!RendreCompte PROVE MajSuivie'
<1> DEFINE f == [quoi |-> "compte", version |-> etat.version, resultat |-> etat.resultat]
<1>1. /\ UNCHANGED disqueVars /\ UNCHANGED coreVars
      /\ UNCHANGED <<verrou, etat, tourne, conf, deroules, descend, reste, dits>>
      /\ \/ tour' = "demande" /\ UNCHANGED <<lue, monte>>
         \/ S!Emettre(f) /\ lue' = etat /\ tour' = tour
  BY DEF S!RendreCompte, S!disque, S!core, disqueVars, coreVars
<1>2. f \in UneTrame
  BY DEF MajSuivie, MachineType, UneTrame, UnResultat
<1> HIDE DEF f
<1>3. MachineType'
  BY <1>1 DEF MajSuivie, MachineType
<1>4. monte' \in Seq(UneTrame)
  BY <1>1, <1>2, EmettreType DEF MajSuivie, TramesType
<1>5. TramesType'
  BY <1>1, <1>4 DEF MajSuivie, TramesType
<1> QED BY <1>1, <1>3, <1>5, DisqueReste, CoreReste, DitsReste, ResteReste DEF MajSuivie

LEMMA PasMarquer == ASSUME MajSuivie, S!Marquer PROVE MajSuivie'
<1> DEFINE x == [lue EXCEPT !.rapporte = TRUE]
<1>1. /\ UNCHANGED disqueVars /\ UNCHANGED coreVars /\ UNCHANGED tramesVars
      /\ UNCHANGED <<verrou, tourne, conf, deroules, reste, dits>>
      /\ etat' = x /\ lue' = S!Rien /\ tour' = "demande"
  BY DEF S!Marquer, S!disque, S!core, disqueVars, coreVars, tramesVars
<1>2. x \in UnResultat
  BY DEF MajSuivie, MachineType, UnResultat
<1> HIDE DEF x
<1>3. MachineType'
  BY <1>1, <1>2, RienType DEF MajSuivie, MachineType
<1> QED BY <1>1, <1>3, DisqueReste, CoreReste, TramesReste, DitsReste, ResteReste DEF MajSuivie

LEMMA PasDemander == ASSUME MajSuivie, S!Demander PROVE MajSuivie'
<1> DEFINE f == [quoi |-> "demande", version |-> 0, resultat |-> ""]
<1>1. /\ UNCHANGED disqueVars /\ UNCHANGED coreVars
      /\ UNCHANGED <<verrou, etat, tourne, lue, conf, deroules, descend, reste, dits>>
      /\ tour' = "compte" /\ (monte' = monte \/ S!Emettre(f))
  BY DEF S!Demander, S!disque, S!core, disqueVars, coreVars
<1>2. f \in UneTrame
  BY DEF UneTrame, Resultats
<1> HIDE DEF f
<1>3. MachineType'
  BY <1>1 DEF MajSuivie, MachineType
<1>4. monte' \in Seq(UneTrame)
  BY <1>1, <1>2, EmettreType DEF MajSuivie, TramesType
<1>5. TramesType'
  BY <1>1, <1>4 DEF MajSuivie, TramesType
<1> QED BY <1>1, <1>3, <1>5, DisqueReste, CoreReste, DitsReste, ResteReste DEF MajSuivie

LEMMA PasConf == ASSUME MajSuivie, S!Passage \/ S!Reconcilier PROVE MajSuivie'
<1>1. /\ UNCHANGED disqueVars /\ UNCHANGED coreVars /\ UNCHANGED tramesVars
      /\ UNCHANGED <<verrou, etat, tourne, lue, tour, deroules, reste, dits>>
      /\ conf' \in {"passe", "fait"}
  BY DEF S!Passage, S!Reconcilier, S!disque, S!core, disqueVars, coreVars, tramesVars
<1>2. MachineType'
  BY <1>1 DEF MajSuivie, MachineType
<1> QED BY <1>1, <1>2, DisqueReste, CoreReste, TramesReste, DitsReste, ResteReste DEF MajSuivie

-----------------------------------------------------------------------------
(* The order on the agent.                                                 *)
LEMMA TraiterType ==
  ASSUME NEW o \in UnOrdre
  PROVE  /\ S!Traiter(o) \in Resultats
         /\ S!Traiter(o) = "" => o.version # tourne /\ (o.version < tourne => o.retro)
BY DEF S!Traiter, Resultats, UnOrdre

LEMMA OrdreRecu ==
  ASSUME MajSuivie, S!RecevoirOrdre
  PROVE  LET o == Head(descend)
             d == [version |-> o.version, retro |-> o.retro, pas |-> "attend", lent |-> FALSE]
         IN  /\ o \in UnOrdre /\ d \in UnDeroule /\ TramesType'
             /\ UNCHANGED disqueVars /\ UNCHANGED coreVars
             /\ UNCHANGED <<etat, tourne, lue, tour, conf, reste, dits>>
             /\ \/ UNCHANGED <<verrou, deroules>>
                \/ /\ S!Traiter(o) = "" /\ verrou # "frais" /\ verrou' = "frais"
                   /\ deroules' = deroules \cup {d}
<1> DEFINE o == Head(descend)
           r == S!Traiter(o)
           f == [quoi |-> "compte", version |-> o.version, resultat |-> r]
           d == [version |-> o.version, retro |-> o.retro, pas |-> "attend", lent |-> FALSE]
<1>1. /\ UNCHANGED disqueVars /\ UNCHANGED coreVars
      /\ UNCHANGED <<etat, tourne, lue, tour, conf, reste, dits>>
      /\ descend # <<>> /\ descend' = Tail(descend)
  BY DEF S!RecevoirOrdre, S!disque, S!core, S!agent, disqueVars, coreVars
<1>2. \/ monte' = Append(monte, f) /\ UNCHANGED <<verrou, deroules>>
      \/ /\ r = "" /\ verrou # "frais" /\ verrou' = "frais"
         /\ deroules' = deroules \cup {d} /\ monte' = monte
      \/ UNCHANGED <<verrou, deroules, monte>>
  BY DEF S!RecevoirOrdre
<1>3. o \in UnOrdre /\ descend' \in Seq(UnOrdre)
  BY <1>1 DEF MajSuivie, TramesType
<1> HIDE DEF o
<1>4. r \in Resultats
  BY <1>3, TraiterType
<1> HIDE DEF r
<1>5. d \in UnDeroule /\ f \in UneTrame
  BY <1>3, <1>4 DEF UnOrdre, UnDeroule, UneTrame
<1> HIDE DEF d, f
<1>6. monte \in Seq(UneTrame) /\ Append(monte, f) \in Seq(UneTrame)
  BY <1>5 DEF MajSuivie, TramesType
<1>7. monte' \in Seq(UneTrame)
  BY <1>2, <1>6
<1> QED BY <1>1, <1>2, <1>3, <1>5, <1>7 DEF TramesType, o, d, r

LEMMA PasOrdre == ASSUME MajSuivie, S!RecevoirOrdre PROVE MajSuivie'
<1>1. MachineType'
  BY OrdreRecu DEF MajSuivie, MachineType
<1> QED BY <1>1, OrdreRecu, DisqueReste, CoreReste, DitsReste, ResteReste DEF MajSuivie

LEMMA PasTransitoire ==
  ASSUME MajSuivie, NEW d \in deroules, S!Transitoire(d)
  PROVE  MajSuivie'
<1>1. /\ UNCHANGED disqueVars /\ UNCHANGED coreVars /\ UNCHANGED tramesVars
      /\ UNCHANGED <<etat, tourne, lue, tour, conf, dits>>
      /\ S!Depense("pannes") /\ deroules' = deroules \ {d} /\ verrou' = "libre"
  BY DEF S!Transitoire, S!LibererVerrou, S!disque, S!core, S!agent, disqueVars, coreVars, tramesVars
<1>2. MachineType'
  BY <1>1 DEF MajSuivie, MachineType
<1>3. ResteType'
  BY <1>1, DepenseType DEF Bornes
<1> QED BY <1>1, <1>2, <1>3, DisqueReste, CoreReste, TramesReste, DitsReste DEF MajSuivie

LEMMA PasExtraire ==
  ASSUME MajSuivie, NEW d \in deroules, S!Extraire(d)
  PROVE  MajSuivie'
<1> DEFINE e == [d EXCEPT !.pas = "prepare"]
<1>1. /\ UNCHANGED <<place, garde, maj>> /\ UNCHANGED coreVars /\ UNCHANGED tramesVars
      /\ UNCHANGED <<verrou, etat, tourne, lue, tour, conf, dits, reste>>
      /\ pretes' = pretes \ {d.version} /\ deroules' = (deroules \ {d}) \cup {e}
  BY DEF S!Extraire, S!core, S!agent, coreVars, tramesVars
<1>0. d \in UnDeroule
  BY DEF MajSuivie, MachineType
<1>2. e \in UnDeroule
  BY <1>0 DEF UnDeroule
<1> HIDE DEF e
<1>3. MachineType'
  BY <1>1, <1>2 DEF MajSuivie, MachineType
<1>4. DisqueType' /\ BasculeSuivie'
  BY <1>1 DEF MajSuivie, DisqueType, BasculeSuivie
<1> QED BY <1>1, <1>3, <1>4, CoreReste, TramesReste, DitsReste, ResteReste DEF MajSuivie

LEMMA PasRefus ==
  ASSUME MajSuivie, NEW d \in deroules, S!Refuser(d)
  PROVE  MajSuivie'
<1>1. /\ UNCHANGED disqueVars /\ UNCHANGED coreVars /\ UNCHANGED tramesVars
      /\ UNCHANGED <<tourne, lue, tour, conf, reste>>
      /\ S!EcrireEtat(d.version, "refuse") /\ deroules' = deroules \ {d} /\ verrou' = "libre"
  BY DEF S!Refuser, S!LibererVerrou, S!disque, S!core, S!agent, disqueVars, coreVars, tramesVars
<1>2. d.version \in Versions
  BY DEF MajSuivie, MachineType, UnDeroule
<1>3. etat' \in UnResultat /\ DitsType'
  BY <1>1, <1>2, EcrireEtatType DEF Resultats
<1>4. MachineType'
  BY <1>1, <1>3 DEF MajSuivie, MachineType
<1> QED BY <1>1, <1>3, <1>4, DisqueReste, CoreReste, TramesReste, ResteReste DEF MajSuivie

(* An updater starts when none runs; systemd refuses a second one.         *)
LEMMA Lancement ==
  ASSUME MajSuivie, NEW d \in deroules, S!LancerUpdater(d)
  PROVE  /\ UNCHANGED <<place, garde, tourne, lue, tour, conf, reste>>
         /\ UNCHANGED coreVars /\ UNCHANGED tramesVars
         /\ pretes' = pretes \cup {d.version} /\ deroules' = deroules \ {d}
         /\ d \in UnDeroule
         /\ \/ /\ maj.pas = "arret" /\ maj' \in UneMaj /\ maj'.pas = "garder"
               /\ maj'.version = d.version /\ maj'.retro = d.retro /\ ~maj'.defaut
               /\ maj'.motif = "" /\ UNCHANGED <<verrou, etat, dits>>
            \/ maj.pas # "arret" /\ maj' = maj /\ S!EcrireEtat(d.version, "echec") /\ verrou' = "libre"
<1>1. /\ UNCHANGED <<place, garde, tourne, lue, tour, conf, reste>>
      /\ UNCHANGED coreVars /\ UNCHANGED tramesVars
      /\ pretes' = pretes \cup {d.version} /\ deroules' = deroules \ {d}
  BY DEF S!LancerUpdater, S!core, S!agent, coreVars, tramesVars
<1>2. d \in UnDeroule
  BY DEF MajSuivie, MachineType
<1>3. CASE maj.pas = "arret"
  <2> DEFINE x1 == [S!Arretee EXCEPT !.pas = "garder"]
             x2 == [x1 EXCEPT !.version = d.version]
             x3 == [x2 EXCEPT !.retro = d.retro]
             x4 == [x3 EXCEPT !.lent = d.lent]
  <2>1. maj' = x4 /\ UNCHANGED <<verrou, etat, dits>>
    BY <1>3 DEF S!LancerUpdater
  <2>2. x1 \in UneMaj /\ x1.pas = "garder" /\ ~x1.defaut /\ x1.motif = ""
    BY ArreteeType DEF UneMaj
  <2> HIDE DEF x1
  <2>3. /\ x2 \in UneMaj /\ x2.pas = "garder" /\ ~x2.defaut /\ x2.version = d.version
        /\ x2.motif = ""
    BY <1>2, <2>2 DEF UneMaj, UnDeroule
  <2> HIDE DEF x2
  <2>4. /\ x3 \in UneMaj /\ x3.pas = "garder" /\ ~x3.defaut /\ x3.version = d.version
        /\ x3.retro = d.retro /\ x3.motif = ""
    BY <1>2, <2>3 DEF UneMaj, UnDeroule
  <2> HIDE DEF x3
  <2>5. /\ x4 \in UneMaj /\ x4.pas = "garder" /\ ~x4.defaut /\ x4.version = d.version
        /\ x4.retro = d.retro /\ x4.motif = ""
    BY <1>2, <2>4 DEF UneMaj, UnDeroule
  <2> HIDE DEF x4
  <2> QED BY <1>1, <1>2, <1>3, <2>1, <2>5
<1>4. CASE maj.pas # "arret"
  <2>1. maj' = maj /\ S!EcrireEtat(d.version, "echec") /\ verrou' = "libre"
    BY <1>4 DEF S!LancerUpdater, S!LibererVerrou
  <2> QED BY <1>1, <1>2, <1>4, <2>1
<1> QED BY <1>3, <1>4

LEMMA PasLancement ==
  ASSUME MajSuivie, NEW d \in deroules, S!LancerUpdater(d)
  PROVE  MajSuivie'
<1> DEFINE Demarre == /\ maj.pas = "arret" /\ maj' \in UneMaj /\ maj'.pas = "garder"
                      /\ maj'.version = d.version /\ maj'.retro = d.retro /\ ~maj'.defaut
                      /\ UNCHANGED <<verrou, etat, dits>>
           Refuse == maj' = maj /\ S!EcrireEtat(d.version, "echec") /\ verrou' = "libre"
<1>1. /\ UNCHANGED <<place, garde, tourne, lue, tour, conf, reste>>
      /\ UNCHANGED coreVars /\ UNCHANGED tramesVars
      /\ pretes' = pretes \cup {d.version} /\ deroules' = deroules \ {d}
      /\ d \in UnDeroule /\ (Demarre \/ Refuse)
  BY Lancement
<1>2. d.version \in Versions
  BY <1>1 DEF UnDeroule
<1>3. UNCHANGED <<verrou, etat, dits>> \/ (etat' \in UnResultat /\ DitsType' /\ verrou' = "libre")
  BY <1>1, <1>2, EcrireEtatType DEF Resultats
<1>4. MachineType' /\ DitsType'
  BY <1>1, <1>3, DitsReste DEF MajSuivie, MachineType
<1>5. DisqueType' /\ BasculeSuivie'
  <2>1. CASE Demarre
    BY <1>1, <1>2, <2>1 DEF MajSuivie, DisqueType, BasculeSuivie
  <2>2. CASE Refuse
    BY <1>1, <1>2, <2>2 DEF MajSuivie, DisqueType, BasculeSuivie
  <2> QED BY <1>1, <2>1, <2>2
<1> QED BY <1>1, <1>4, <1>5, CoreReste, TramesReste, ResteReste DEF MajSuivie

LEMMA PasVieillir == ASSUME MajSuivie, S!Vieillir PROVE MajSuivie'
<1> DEFINE x == [maj EXCEPT !.lent = (maj.pas # "arret")]
<1>1. /\ UNCHANGED <<place, garde, pretes, etat, tourne, lue, tour, conf, reste, dits>>
      /\ UNCHANGED coreVars /\ UNCHANGED tramesVars
      /\ maj' = x /\ verrou' = "vieux" /\ deroules' = {[d EXCEPT !.lent = TRUE] : d \in deroules}
  BY DEF S!Vieillir, S!disque, S!core, S!agent, coreVars, tramesVars
<1>2. \A d \in UnDeroule : [d EXCEPT !.lent = TRUE] \in UnDeroule
  BY DEF UnDeroule
<1>3. MachineType'
  BY <1>1, <1>2 DEF MajSuivie, MachineType
<1>0. maj \in UneMaj
  BY DEF MajSuivie, DisqueType
<1>4. /\ x \in UneMaj /\ x.pas = maj.pas /\ x.version = maj.version /\ x.i = maj.i
      /\ x.n = maj.n /\ x.defaut = maj.defaut
  BY <1>0 DEF UneMaj
<1> HIDE DEF x
<1>6. DisqueType' /\ BasculeSuivie'
  BY <1>1, <1>4 DEF MajSuivie, DisqueType, BasculeSuivie
<1> QED BY <1>1, <1>3, <1>6, CoreReste, TramesReste, DitsReste, ResteReste DEF MajSuivie

-----------------------------------------------------------------------------
(* The updater: maj changes as follows, the rest of its record stays.      *)
Devient(q, j, k, m, f) ==
  /\ maj' \in UneMaj /\ maj'.pas = q /\ maj'.i = j /\ maj'.n = k /\ maj'.motif = m
  /\ maj'.defaut = f /\ maj'.version = maj.version /\ maj'.retro = maj.retro

PasDeMaj == {"arret", "garder", "basculer", "redemarrer", "porte", "remettre", "relance",
             "installe", "echec", "refuse", "rendre"}
Motifs == {"", "rien", "arriere", "prepare"}

LEMMA PasChange ==
  ASSUME MajSuivie, NEW q \in PasDeMaj, maj' = [maj EXCEPT !.pas = q]
  PROVE  Devient(q, maj.i, maj.n, maj.motif, maj.defaut)
<1>0. maj \in UneMaj
  BY DEF MajSuivie, DisqueType
<1> QED BY <1>0 DEF UneMaj, Devient, PasDeMaj

LEMMA ITourne ==
  ASSUME MajSuivie, NEW j \in 0..S!Unite + 1, maj' = [maj EXCEPT !.i = j]
  PROVE  Devient(maj.pas, j, maj.n, maj.motif, maj.defaut)
<1>0. maj \in UneMaj
  BY DEF MajSuivie, DisqueType
<1> QED BY <1>0 DEF UneMaj, Devient

LEMMA PasEtI ==
  ASSUME MajSuivie, NEW q \in PasDeMaj, NEW j \in 0..S!Unite + 1,
         maj' = [maj EXCEPT !.pas = q, !.i = j]
  PROVE  Devient(q, j, maj.n, maj.motif, maj.defaut)
<1>0. maj \in UneMaj
  BY DEF MajSuivie, DisqueType
<1> DEFINE x1 == [maj EXCEPT !.pas = q]
           x2 == [x1 EXCEPT !.i = j]
<1>1. /\ x1 \in UneMaj /\ x1.pas = q /\ x1.n = maj.n /\ x1.motif = maj.motif
      /\ x1.defaut = maj.defaut /\ x1.version = maj.version /\ x1.retro = maj.retro
  BY <1>0 DEF UneMaj, PasDeMaj
<1>2. maj' = x2
  OBVIOUS
<1> HIDE DEF x1
<1> QED BY <1>1, <1>2 DEF UneMaj, Devient

LEMMA IEtDefaut ==
  ASSUME MajSuivie, NEW j \in 0..S!Unite + 1, maj' = [maj EXCEPT !.i = j, !.defaut = TRUE]
  PROVE  Devient(maj.pas, j, maj.n, maj.motif, TRUE)
<1>0. maj \in UneMaj
  BY DEF MajSuivie, DisqueType
<1> DEFINE x1 == [maj EXCEPT !.i = j]
           x2 == [x1 EXCEPT !.defaut = TRUE]
<1>1. /\ x1 \in UneMaj /\ x1.i = j /\ x1.n = maj.n /\ x1.motif = maj.motif
      /\ x1.pas = maj.pas /\ x1.version = maj.version /\ x1.retro = maj.retro
  BY <1>0 DEF UneMaj
<1>2. maj' = x2
  OBVIOUS
<1> HIDE DEF x1
<1> QED BY <1>1, <1>2 DEF UneMaj, Devient

LEMMA ToutChange ==
  ASSUME MajSuivie, NEW q \in PasDeMaj, NEW j \in 0..S!Unite + 1, NEW k \in 0..S!Unite,
         NEW m \in Motifs, maj' = [maj EXCEPT !.pas = q, !.i = j, !.n = k, !.motif = m]
  PROVE  Devient(q, j, k, m, maj.defaut)
<1>0. maj \in UneMaj
  BY DEF MajSuivie, DisqueType
<1> DEFINE x1 == [maj EXCEPT !.pas = q]
           x2 == [x1 EXCEPT !.i = j]
           x3 == [x2 EXCEPT !.n = k]
           x4 == [x3 EXCEPT !.motif = m]
<1>1. /\ x1 \in UneMaj /\ x1.pas = q
      /\ x1.defaut = maj.defaut /\ x1.version = maj.version /\ x1.retro = maj.retro
  BY <1>0 DEF UneMaj, PasDeMaj
<1>2. maj' = x4
  OBVIOUS
<1> HIDE DEF x1
<1>3. /\ x2 \in UneMaj /\ x2.pas = q /\ x2.i = j
      /\ x2.defaut = maj.defaut /\ x2.version = maj.version /\ x2.retro = maj.retro
  BY <1>1 DEF UneMaj
<1> HIDE DEF x2
<1>4. /\ x3 \in UneMaj /\ x3.pas = q /\ x3.i = j /\ x3.n = k
      /\ x3.defaut = maj.defaut /\ x3.version = maj.version /\ x3.retro = maj.retro
  BY <1>3 DEF UneMaj
<1> HIDE DEF x3
<1> QED BY <1>2, <1>4 DEF UneMaj, Devient, Motifs

LEMMA MajFinie ==
  ASSUME MajSuivie, NEW q \in {"installe", "echec", "refuse"}, NEW m \in Motifs,
         maj' = S!Finir(q, m)
  PROVE  Devient(q, 0, 0, m, maj.defaut)
<1>1. maj' = [maj EXCEPT !.pas = q, !.i = 0, !.n = 0, !.motif = m]
  BY DEF S!Finir
<1>2. 0 \in 0..S!Unite /\ 0 \in 0..S!Unite + 1 /\ q \in PasDeMaj
  BY BornesMaj DEF PasDeMaj
<1> QED BY <1>1, <1>2, ToutChange

LEMMA ToutRemettre ==
  ASSUME MajSuivie,
         maj' = [maj EXCEPT !.pas = "remettre", !.i = 1, !.n = S!Unite, !.motif = "arriere"]
  PROVE  Devient("remettre", 1, S!Unite, "arriere", maj.defaut)
<1>1. 1 \in 0..S!Unite + 1 /\ S!Unite \in 0..S!Unite /\ "remettre" \in PasDeMaj /\ "arriere" \in Motifs
  BY BornesMaj DEF PasDeMaj, Motifs
<1> QED BY <1>1, ToutChange

(* What the updater does to nothing but the files and its own record.      *)
LEMMA MajSeule ==
  ASSUME MajSuivie, UNCHANGED machineVars, UNCHANGED coreVars, UNCHANGED tramesVars,
         UNCHANGED dits, ResteType', DisqueType', BasculeSuivie'
  PROVE  MajSuivie'
BY MachineReste, CoreReste, TramesReste, DitsReste DEF MajSuivie

(* A swap is being undone, from its first piece.                           *)
LEMMA RemiseCommencee ==
  ASSUME maj'.version \in Versions, garde'[maj'.version] \in [S!Pieces' -> Versions],
         maj'.pas = "remettre", maj'.i = 1, maj'.n \in 0..S!Unite,
         \A p \in S!Pieces : p > maj'.n => place'[p] = garde'[maj'.version][p]
  PROVE  BasculeSuivie'
<1>1. \A p \in S!Pieces : ~(p < 1)
  BY BornesMaj
<1>2. maj'.i \in 1..maj'.n + 1
  BY BornesMaj
<1> QED BY <1>1, <1>2 DEF BasculeSuivie

LEMMA PasGarder == ASSUME MajSuivie, S!Garder PROVE MajSuivie'
<1>1. /\ UNCHANGED machineVars /\ UNCHANGED coreVars /\ UNCHANGED tramesVars
      /\ UNCHANGED <<dits, reste, place, pretes>> /\ maj.pas = "garder"
  BY DEF S!Garder, S!Avancer, S!core, S!agent, machineVars, coreVars, tramesVars
<1>2. \/ /\ garde' = [garde EXCEPT ![maj.version] = place]
         /\ Devient("basculer", 1, maj.n, maj.motif, maj.defaut)
      \/ garde' = garde /\ Devient("refuse", 0, 0, "prepare", maj.defaut)
  <2>1. CASE maj.version \in pretes
    <3>1. /\ garde' = [garde EXCEPT ![maj.version] = place]
          /\ maj' = [maj EXCEPT !.pas = "basculer", !.i = 1]
      BY <2>1 DEF S!Garder, S!Avancer
    <3>2. 1 \in 0..S!Unite + 1 /\ "basculer" \in PasDeMaj
      BY BornesMaj DEF PasDeMaj
    <3> QED BY <3>1, <3>2, PasEtI
  <2>2. CASE maj.version \notin pretes
    <3>1. garde' = garde /\ maj' = S!Finir("refuse", "prepare")
      BY <2>2 DEF S!Garder, S!Avancer
    <3> QED BY <3>1, MajFinie DEF Motifs
  <2> QED BY <2>1, <2>2
<1>3. DisqueType' /\ BasculeSuivie'
  <2>1. CASE garde' = garde /\ Devient("refuse", 0, 0, "prepare", maj.defaut)
    BY <1>1, <2>1 DEF MajSuivie, DisqueType, BasculeSuivie, Devient
  <2>2. CASE /\ garde' = [garde EXCEPT ![maj.version] = place]
             /\ Devient("basculer", 1, maj.n, maj.motif, maj.defaut)
    <3>1. maj.version \in Versions /\ place \in [S!Pieces -> Versions]
      BY <1>1 DEF MajSuivie, BasculeSuivie, DisqueType
    <3>2. garde' \in [Versions -> [S!Pieces -> Versions \cup {0}]] /\ garde'[maj.version] = place
      BY <2>2, <3>1 DEF MajSuivie, DisqueType
    <3>3. DisqueType'
      BY <1>1, <2>2, <3>2 DEF MajSuivie, DisqueType, Devient
    <3>4. BasculeSuivie'
      BY <1>1, <2>2, <3>1, <3>2, BornesMaj DEF BasculeSuivie, Devient
    <3> QED BY <3>3, <3>4
  <2> QED BY <1>2, <2>1, <2>2
<1> QED BY <1>1, <1>3, MajSeule, ResteReste

LEMMA PasBasculer == ASSUME MajSuivie, S!Basculer PROVE MajSuivie'
<1>1. /\ UNCHANGED machineVars /\ UNCHANGED coreVars /\ UNCHANGED tramesVars
      /\ UNCHANGED <<dits, reste, garde, pretes>> /\ maj.pas = "basculer" /\ maj.i <= NbFichiers
      /\ place' = [place EXCEPT ![maj.i] = maj.version] /\ maj' = [maj EXCEPT !.i = @ + 1]
  BY DEF S!Basculer, S!Avancer, S!core, S!agent, machineVars, coreVars, tramesVars
<1>2. maj.i \in 1..S!Unite /\ maj.i + 1 \in 1..S!Unite /\ maj.version \in Versions
  BY <1>1, BornesMaj DEF MajSuivie, BasculeSuivie
<1>3. Devient("basculer", maj.i + 1, maj.n, maj.motif, maj.defaut)
  <2>1. maj.i + 1 \in 0..S!Unite + 1
    BY <1>2, BornesMaj
  <2> QED BY <1>1, <2>1, ITourne
<1>4. /\ place' \in [S!Pieces -> Versions]
      /\ \A p \in S!Pieces : place'[p] = IF p = maj.i THEN maj.version ELSE place[p]
  BY <1>1, <1>2 DEF MajSuivie, DisqueType
<1>5. DisqueType'
  BY <1>1, <1>3, <1>4 DEF MajSuivie, DisqueType, Devient
<1>6. BasculeSuivie'
  <2>1. garde[maj.version] \in [S!Pieces -> Versions]
    BY <1>1 DEF MajSuivie, BasculeSuivie
  <2>2. \A p \in S!Pieces : place'[p] = IF p < maj.i + 1 THEN maj.version ELSE garde[maj.version][p]
    <3>1. \A p \in S!Pieces : place[p] = IF p < maj.i THEN maj.version ELSE garde[maj.version][p]
      BY <1>1 DEF MajSuivie, BasculeSuivie
    <3>2. \A p \in S!Pieces : p \in Nat /\ (p < maj.i + 1 <=> (p < maj.i \/ p = maj.i))
      BY <1>2, BornesMaj
    <3> QED BY <1>4, <3>1, <3>2
  <2> QED BY <1>1, <1>2, <1>3, <2>1, <2>2 DEF BasculeSuivie, Devient
<1> QED BY <1>1, <1>5, <1>6, MajSeule, ResteReste

LEMMA PasEchec == ASSUME MajSuivie, S!EchecDeBascule PROVE MajSuivie'
<1>1. /\ UNCHANGED machineVars /\ UNCHANGED coreVars /\ UNCHANGED tramesVars
      /\ UNCHANGED <<dits, place, garde, pretes>> /\ maj.pas = "basculer" /\ maj.i <= NbFichiers
      /\ maj' = [maj EXCEPT !.pas = "remettre", !.i = 1, !.n = maj.i - 1, !.motif = "rien"]
      /\ S!Depense("pannes") \/ reste' = reste
  BY DEF S!EchecDeBascule, S!Avancer, S!core, S!agent, machineVars, coreVars, tramesVars
<1>2. maj.i \in 1..S!Unite /\ maj.i - 1 \in 0..S!Unite
  BY <1>1, BornesMaj DEF MajSuivie, BasculeSuivie
<1>3. Devient("remettre", 1, maj.i - 1, "rien", maj.defaut)
  <2>1. 1 \in 0..S!Unite + 1 /\ "remettre" \in PasDeMaj /\ "rien" \in Motifs
    BY BornesMaj DEF PasDeMaj, Motifs
  <2> QED BY <1>1, <1>2, <2>1, ToutChange
<1>4. ResteType'
  BY <1>1, DepenseType, ResteReste DEF Bornes
<1>5. DisqueType'
  BY <1>1, <1>3 DEF MajSuivie, DisqueType, Devient
<1>6. BasculeSuivie'
  <2>1. maj.version \in Versions /\ garde[maj.version] \in [S!Pieces -> Versions]
    BY <1>1 DEF MajSuivie, BasculeSuivie
  <2>2. \A p \in S!Pieces : p > maj.i - 1 => place[p] = garde[maj.version][p]
    BY <1>1, <1>2, BornesMaj DEF MajSuivie, BasculeSuivie
  <2> QED BY <1>1, <1>2, <1>3, <2>1, <2>2, RemiseCommencee DEF Devient
<1> QED BY <1>1, <1>4, <1>5, <1>6, MajSeule

LEMMA PasRemettre == ASSUME MajSuivie, S!Remettre PROVE MajSuivie'
<1>1. /\ UNCHANGED machineVars /\ UNCHANGED coreVars /\ UNCHANGED tramesVars
      /\ UNCHANGED <<dits, garde, pretes>> /\ maj.pas = "remettre" /\ maj.i <= maj.n
      /\ \/ /\ place' = [place EXCEPT ![maj.i] = garde[maj.version][maj.i]]
            /\ maj' = [maj EXCEPT !.i = @ + 1] /\ reste' = reste
         \/ /\ place' = place /\ S!Depense("pannes")
            /\ maj' = [maj EXCEPT !.i = @ + 1, !.defaut = TRUE]
  BY DEF S!Remettre, S!Avancer, S!core, S!agent, machineVars, coreVars, tramesVars
<1>2. /\ maj.i \in 0..S!Unite /\ maj.n \in 0..S!Unite /\ maj.i + 1 \in 0..S!Unite + 1
      /\ maj.version \in Versions /\ garde[maj.version] \in [S!Pieces -> Versions]
  <2>1. maj.version \in Versions /\ garde[maj.version] \in [S!Pieces -> Versions]
    BY <1>1 DEF MajSuivie, BasculeSuivie
  <2>2. maj.i \in 0..S!Unite + 1 /\ maj.n \in 0..S!Unite
    BY DEF MajSuivie, DisqueType, UneMaj
  <2> QED BY <1>1, <2>1, <2>2, BornesMaj
<1>3. ResteType'
  BY <1>1, DepenseType, ResteReste DEF Bornes
<1>4. CASE place' = place /\ maj' = [maj EXCEPT !.i = @ + 1, !.defaut = TRUE]
  <2>1. Devient("remettre", maj.i + 1, maj.n, maj.motif, TRUE)
    BY <1>1, <1>2, <1>4, IEtDefaut
  <2> QED BY <1>1, <1>2, <1>3, <1>4, <2>1, MajSeule
          DEF MajSuivie, DisqueType, BasculeSuivie, Devient
<1>5. CASE /\ place' = [place EXCEPT ![maj.i] = garde[maj.version][maj.i]]
           /\ maj' = [maj EXCEPT !.i = @ + 1]
  <2>1. Devient("remettre", maj.i + 1, maj.n, maj.motif, maj.defaut)
    BY <1>1, <1>2, <1>5, ITourne
  <2>2. /\ place' \in [S!Pieces -> Versions]
        /\ \A p \in S!Pieces : place'[p] = IF p = maj.i THEN garde[maj.version][p] ELSE place[p]
    <3>1. maj.i \in S!Pieces => garde[maj.version][maj.i] \in Versions
      BY <1>2
    <3> QED BY <1>2, <1>5, <3>1 DEF MajSuivie, DisqueType
  <2>3. DisqueType'
    BY <1>1, <2>1, <2>2 DEF MajSuivie, DisqueType, Devient
  <2>4. BasculeSuivie'
    <3>1. ~maj.defaut => /\ maj.i \in 1..maj.n + 1
            /\ \A p \in S!Pieces : (p < maj.i \/ p > maj.n) => place[p] = garde[maj.version][p]
      BY <1>1 DEF MajSuivie, BasculeSuivie
    <3>2. ~maj.defaut => /\ maj.i + 1 \in 1..maj.n + 1
            /\ \A p \in S!Pieces : (p < maj.i + 1 \/ p > maj.n) => place'[p] = garde[maj.version][p]
      <4>1. maj.i + 1 \in 1..maj.n + 1
        BY <1>1, <1>2, BornesMaj
      <4>2. \A p \in S!Pieces : p < maj.i + 1 <=> (p < maj.i \/ p = maj.i)
        BY <1>2, BornesMaj
      <4> QED BY <2>2, <3>1, <4>1, <4>2
    <3> QED BY <1>1, <1>2, <2>1, <3>2 DEF BasculeSuivie, Devient
  <2> QED BY <1>1, <1>3, <2>3, <2>4, MajSeule
<1> QED BY <1>1, <1>4, <1>5

LEMMA PasUnite == ASSUME MajSuivie, S!EcrireUnite PROVE MajSuivie'
<1>1. /\ UNCHANGED machineVars /\ UNCHANGED coreVars /\ UNCHANGED tramesVars
      /\ UNCHANGED <<dits, garde, pretes>> /\ maj.pas = "basculer" /\ maj.i = S!Unite
      /\ \/ /\ place' = [place EXCEPT ![S!Unite] = place[1]]
            /\ maj' = [maj EXCEPT !.pas = "redemarrer"] /\ reste' = reste
         \/ /\ place' = place /\ S!Depense("pannes")
            /\ maj' = [maj EXCEPT !.pas = "remettre", !.i = 1, !.n = S!Unite, !.motif = "arriere"]
  BY DEF S!EcrireUnite, S!Avancer, S!core, S!agent, machineVars, coreVars, tramesVars
<1>2. /\ maj.version \in Versions /\ place[1] = maj.version
      /\ \A p \in S!Pieces \ {S!Unite} : place[p] = maj.version
  BY <1>1, BornesMaj DEF MajSuivie, BasculeSuivie
<1>3. ResteType'
  BY <1>1, DepenseType, ResteReste DEF Bornes
<1>4. CASE place' = place
           /\ maj' = [maj EXCEPT !.pas = "remettre", !.i = 1, !.n = S!Unite, !.motif = "arriere"]
  <2>1. Devient("remettre", 1, S!Unite, "arriere", maj.defaut)
    BY <1>4, ToutRemettre
  <2>2. DisqueType'
    BY <1>1, <1>4, <2>1 DEF MajSuivie, DisqueType, Devient
  <2>3. BasculeSuivie'
    <3>1. garde[maj.version] \in [S!Pieces -> Versions]
      BY <1>1 DEF MajSuivie, BasculeSuivie
    <3>2. \A p \in S!Pieces : ~(p > S!Unite)
      BY BornesMaj
    <3>3. S!Unite \in 0..S!Unite
      BY BornesMaj
    <3> QED BY <1>1, <1>2, <1>4, <2>1, <3>1, <3>2, <3>3, RemiseCommencee DEF Devient
  <2> QED BY <1>1, <1>3, <2>2, <2>3, MajSeule
<1>5. CASE place' = [place EXCEPT ![S!Unite] = place[1]] /\ maj' = [maj EXCEPT !.pas = "redemarrer"]
  <2>1. Devient("redemarrer", maj.i, maj.n, maj.motif, maj.defaut)
    BY <1>5, PasChange DEF PasDeMaj
  <2>2. place' \in [S!Pieces -> Versions] /\ \A p \in S!Pieces : place'[p] = maj.version
    BY <1>2, <1>5, BornesMaj DEF MajSuivie, DisqueType
  <2>3. DisqueType' /\ BasculeSuivie'
    BY <1>1, <1>2, <2>1, <2>2 DEF MajSuivie, DisqueType, BasculeSuivie, Devient
  <2> QED BY <1>1, <1>3, <2>3, MajSeule
<1> QED BY <1>1, <1>4, <1>5

LEMMA PasRedemarrer == ASSUME MajSuivie, S!Redemarrer PROVE MajSuivie'
<1>1. /\ UNCHANGED coreVars /\ UNCHANGED <<dits, reste, place, garde, pretes, verrou, etat>>
      /\ maj.pas = "redemarrer" /\ maj' = [maj EXCEPT !.pas = "porte"] /\ S!Demarrer(place[1])
  BY DEF S!Redemarrer, S!disque, S!core, coreVars
<1>2. Devient("porte", maj.i, maj.n, maj.motif, maj.defaut)
  BY <1>1, PasChange DEF PasDeMaj
<1>3. DisqueType' /\ BasculeSuivie'
  BY <1>1, <1>2 DEF MajSuivie, DisqueType, BasculeSuivie, Devient
<1> QED BY <1>1, <1>3, BinaireType, DemarrerType, CoreReste, DitsReste, ResteReste DEF MajSuivie

LEMMA PasFranchie == ASSUME MajSuivie, S!PorteFranchie PROVE MajSuivie'
<1>1. /\ UNCHANGED machineVars /\ UNCHANGED coreVars /\ UNCHANGED tramesVars
      /\ UNCHANGED <<dits, place, garde>> /\ maj.pas = "porte" /\ S!Attendre(S!EnVol)
      /\ pretes' = pretes \ {maj.version} /\ maj' = S!Finir("installe", "")
  BY DEF S!PorteFranchie, S!core, S!agent, machineVars, coreVars, tramesVars
<1>2. Devient("installe", 0, 0, "", maj.defaut)
  BY <1>1, MajFinie DEF Motifs
<1>3. DisqueType' /\ BasculeSuivie'
  BY <1>1, <1>2 DEF MajSuivie, DisqueType, BasculeSuivie, Devient
<1> QED BY <1>1, <1>3, AttendreType, MajSeule

LEMMA PasFermee == ASSUME MajSuivie, S!PorteFermee PROVE MajSuivie'
<1>1. /\ UNCHANGED machineVars /\ UNCHANGED coreVars /\ UNCHANGED tramesVars
      /\ UNCHANGED <<dits, place, garde, pretes>> /\ maj.pas = "porte" /\ S!Attendre(S!EnVol)
      /\ maj' = [maj EXCEPT !.pas = "remettre", !.i = 1, !.n = S!Unite, !.motif = "arriere"]
  BY DEF S!PorteFermee, S!Avancer, S!core, S!agent, machineVars, coreVars, tramesVars
<1>2. Devient("remettre", 1, S!Unite, "arriere", maj.defaut)
  BY <1>1, ToutRemettre
<1>3. DisqueType'
  BY <1>1, <1>2 DEF MajSuivie, DisqueType, Devient
<1>4. BasculeSuivie'
  <2>1. maj.version \in Versions /\ garde[maj.version] \in [S!Pieces -> Versions]
    BY <1>1 DEF MajSuivie, BasculeSuivie
  <2>2. (\A p \in S!Pieces : ~(p > S!Unite)) /\ S!Unite \in 0..S!Unite
    BY BornesMaj
  <2> QED BY <1>1, <1>2, <2>1, <2>2, RemiseCommencee DEF Devient
<1> QED BY <1>1, <1>3, <1>4, AttendreType, MajSeule

LEMMA PasFinDeRemise == ASSUME MajSuivie, S!FinDeRemise PROVE MajSuivie'
<1>1. /\ UNCHANGED coreVars /\ UNCHANGED <<dits, reste, place, garde, pretes, verrou, etat>>
      /\ maj.pas = "remettre" /\ maj.i > maj.n
      /\ \/ maj' = [maj EXCEPT !.pas = "relance"] /\ S!Demarrer(place[1])
         \/ maj' = S!Finir("echec", "rien") /\ UNCHANGED machineVars /\ UNCHANGED tramesVars
  BY DEF S!FinDeRemise, S!disque, S!core, S!agent, coreVars, machineVars, tramesVars
<1>2. Devient("relance", maj.i, maj.n, maj.motif, maj.defaut) \/ Devient("echec", 0, 0, "rien", maj.defaut)
  BY <1>1, PasChange, MajFinie DEF PasDeMaj, Motifs
<1>3. DisqueType'
  BY <1>1, <1>2 DEF MajSuivie, DisqueType, Devient
<1>4. ~maj.defaut => place = garde[maj.version]
  <2>1. place \in [S!Pieces -> Versions] /\ garde[maj.version] \in [S!Pieces -> Versions]
    BY <1>1 DEF MajSuivie, DisqueType, BasculeSuivie
  <2>2. maj.n \in Nat /\ maj.i \in Nat
    <3>1. maj.n \in 0..S!Unite /\ maj.i \in 0..S!Unite + 1
      BY DEF MajSuivie, DisqueType, UneMaj
    <3> QED BY <3>1
  <2>3. \A p \in S!Pieces : p < maj.i \/ p > maj.n
    BY <1>1, <2>2, BornesMaj
  <2>4. ~maj.defaut => \A p \in S!Pieces : place[p] = garde[maj.version][p]
    BY <1>1, <2>3 DEF MajSuivie, BasculeSuivie
  <2> QED BY <2>1, <2>4
<1>5. BasculeSuivie'
  <2>1. maj.version \in Versions
    BY <1>1 DEF MajSuivie, BasculeSuivie
  <2> QED BY <1>1, <1>2, <1>4, <2>1 DEF BasculeSuivie, Devient
<1>6. MachineType' /\ TramesType'
  BY <1>1, BinaireType, DemarrerType, MachineReste, TramesReste
<1> QED BY <1>1, <1>3, <1>5, <1>6, CoreReste, DitsReste, ResteReste DEF MajSuivie

LEMMA PasDuRetour == ASSUME MajSuivie, S!PorteDuRetour PROVE MajSuivie'
<1>1. /\ UNCHANGED machineVars /\ UNCHANGED coreVars /\ UNCHANGED tramesVars
      /\ UNCHANGED <<dits, place, garde, pretes>> /\ maj.pas = "relance" /\ S!Attendre(S!EnVol)
      /\ maj' = S!Finir("echec", "arriere")
  BY DEF S!PorteDuRetour, S!Avancer, S!core, S!agent, machineVars, coreVars, tramesVars
<1>2. Devient("echec", 0, 0, "arriere", maj.defaut)
  BY <1>1, MajFinie DEF Motifs
<1>3. DisqueType' /\ BasculeSuivie'
  BY <1>1, <1>2 DEF MajSuivie, DisqueType, BasculeSuivie, Devient
<1> QED BY <1>1, <1>3, AttendreType, MajSeule

LEMMA PasResultat == ASSUME MajSuivie, S!EcrireResultat PROVE MajSuivie'
<1>1. /\ UNCHANGED coreVars /\ UNCHANGED tramesVars
      /\ UNCHANGED <<reste, place, garde, pretes, verrou, tourne, lue, tour, conf, deroules>>
      /\ maj.pas \in {"installe", "echec", "refuse"} /\ S!EcrireEtat(maj.version, maj.pas)
      /\ maj' = [maj EXCEPT !.pas = "rendre"]
  BY DEF S!EcrireResultat, S!disque, S!core, S!agent, coreVars, tramesVars
<1>2. Devient("rendre", maj.i, maj.n, maj.motif, maj.defaut)
  BY <1>1, PasChange DEF PasDeMaj
<1>3. maj.version \in Versions /\ maj.pas \in Resultats
  BY <1>1 DEF MajSuivie, BasculeSuivie, Resultats
<1>4. etat' \in UnResultat /\ DitsType'
  BY <1>1, <1>3, EcrireEtatType
<1>5. MachineType'
  BY <1>1, <1>4 DEF MajSuivie, MachineType
<1>6. DisqueType' /\ BasculeSuivie'
  BY <1>1, <1>2, <1>3 DEF MajSuivie, DisqueType, BasculeSuivie, Devient
<1> QED BY <1>1, <1>4, <1>5, <1>6, CoreReste, TramesReste, ResteReste DEF MajSuivie

LEMMA PasRendre == ASSUME MajSuivie, S!Rendre PROVE MajSuivie'
<1>1. /\ UNCHANGED coreVars /\ UNCHANGED tramesVars
      /\ UNCHANGED <<dits, etat, place, garde, pretes, tourne, lue, tour, conf, deroules>>
      /\ verrou' = "libre" /\ maj' = S!Arretee /\ S!Attendre(S!EnVol)
  BY DEF S!Rendre, S!LibererVerrou, S!disque, S!core, S!agent, coreVars, tramesVars
<1>2. MachineType'
  BY <1>1 DEF MajSuivie, MachineType
<1>3. DisqueType' /\ BasculeSuivie'
  BY <1>1, ArreteeType DEF MajSuivie, DisqueType, BasculeSuivie
<1> QED BY <1>1, <1>2, <1>3, AttendreType, CoreReste, TramesReste, DitsReste DEF MajSuivie

-----------------------------------------------------------------------------
LEMMA MajDebute == S!Init => MajSuivie
<1> SUFFICES ASSUME S!Init PROVE MajSuivie
  OBVIOUS
<1> USE BornesMaj
<1>1. DisqueType
  BY ArreteeType DEF S!Init, DisqueType
<1>2. MachineType
  BY RienType DEF S!Init, MachineType
<1>3. TramesType
  BY DEF S!Init, TramesType
<1>4. CoreType
  BY RienType DEF S!Init, CoreType
<1>5. DitsType
  BY DEF S!Init, DitsType
<1>6. ResteType
  BY DEF S!Init, ResteType, Bornes
<1>7. BasculeSuivie
  BY ArreteeType DEF S!Init, BasculeSuivie
<1> QED BY <1>1, <1>2, <1>3, <1>4, <1>5, <1>6, <1>7 DEF MajSuivie

LEMMA MajSePoursuit == MajSuivie /\ S!Next => MajSuivie'
<1> SUFFICES ASSUME MajSuivie, S!Next PROVE MajSuivie'
  OBVIOUS
<1>1. CASE S!Core
  BY <1>1, PasDeclaration, PasDemande, PasCompteRecu, PasTourDuCore, PasHeure DEF S!Core
<1>2. CASE S!Agent
  BY <1>2, PasConnexion, PasDeclarer, PasCompteRendu, PasMarquer, PasDemander,
     PasConf, PasOrdre DEF S!Agent
<1>3. CASE S!Deroule
  BY <1>3, PasTransitoire, PasExtraire, PasRefus, PasLancement DEF S!Deroule
<1>4. CASE S!Updater
  BY <1>4, PasGarder, PasBasculer, PasEchec, PasRemettre, PasUnite, PasRedemarrer, PasFranchie,
     PasFermee, PasFinDeRemise, PasDuRetour, PasResultat, PasRendre DEF S!Updater
<1>5. CASE S!Hasard
  BY <1>5, PasCible, PasRelance, PasCoupure, PasChute, PasCourant DEF S!Hasard
<1> QED BY <1>1, <1>2, <1>3, <1>4, <1>5, PasVieillir DEF S!Next

LEMMA MajFige == MajSuivie /\ UNCHANGED majVars => MajSuivie'
<1> SUFFICES ASSUME MajSuivie, UNCHANGED majVars PROVE MajSuivie'
  OBVIOUS
<1>1. /\ UNCHANGED disqueVars /\ UNCHANGED machineVars /\ UNCHANGED tramesVars
      /\ UNCHANGED coreVars /\ UNCHANGED <<dits, reste>>
  BY DEF majVars, disqueVars, machineVars, tramesVars, coreVars
<1> QED BY <1>1, DisqueReste, MachineReste, TramesReste, CoreReste, DitsReste, ResteReste DEF MajSuivie

LEMMA MajTenue == MajSuivie => S!TypeOK /\ S!ToutOuRien
<1> SUFFICES ASSUME MajSuivie PROVE S!TypeOK /\ S!ToutOuRien
  OBVIOUS
<1>1. S!TypeOK
  BY DEF MajSuivie, DisqueType, MachineType, CoreType, DitsType, UneMaj, UnDeroule, S!TypeOK
<1>2. S!ToutOuRien
  BY DEF MajSuivie, BasculeSuivie, S!ToutOuRien
<1> QED BY <1>1, <1>2

(* For any versions, files, failures, cuts, crashes and gestures: an update *)
(* that ends leaves every file at the new version or all of them at what    *)
(* was put aside, unless a file could not be put back (bascule.go executer, *)
(* retourArriere), and the types hold.                                      *)
THEOREM MiseAJourToujours == S!Spec => [](S!TypeOK /\ S!ToutOuRien)
<1>1. MajSuivie /\ UNCHANGED S!vars => MajSuivie'
  BY MajFige DEF majVars, S!vars, S!disque, S!agent, S!core
<1> QED BY <1>1, MajDebute, MajSePoursuit, MajTenue, PTL DEF S!Spec

PaquetsSuivis == partie \in Machine => MajSuivie

(* The same of the parts of the run (bascule.go executer, retourArriere).  *)
THEOREM PaquetsCorrects == Ensemble => []PaquetsTenus
<1>1. Debut => PaquetsSuivis
  BY MajDebute DEF Debut, PaquetsSuivis
<1>2. PaquetsSuivis /\ [Pas]_tout => PaquetsSuivis'
  <2> SUFFICES ASSUME PaquetsSuivis, [Pas]_tout PROVE PaquetsSuivis'
    OBVIOUS
  <2>1. partie' = partie
    BY DEF Pas, tout
  <2>2. CASE partie \notin Machine
    BY <2>1, <2>2 DEF PaquetsSuivis
  <2>3. CASE partie \in Machine
    <3>1. S!Next \/ UNCHANGED majVars
      BY <2>3 DEF Pas, tout, Machine
    <3> QED BY <2>1, <2>3, <3>1, MajSePoursuit, MajFige DEF PaquetsSuivis
  <2> QED BY <2>2, <2>3
<1>3. PaquetsSuivis => PaquetsTenus
  BY MajTenue DEF PaquetsSuivis, PaquetsTenus
<1> QED BY <1>1, <1>2, <1>3, PTL DEF Ensemble

-----------------------------------------------------------------------------
(* What each step of the updater makes of its own record.                  *)
LEMMA EffetGarder ==
  ASSUME MajSuivie, S!Garder
  PROVE  /\ maj.pas = "garder"
         /\ \/ /\ maj.version \in pretes /\ garde' = [garde EXCEPT ![maj.version] = place]
               /\ Devient("basculer", 1, maj.n, maj.motif, maj.defaut)
            \/ garde' = garde /\ Devient("refuse", 0, 0, "prepare", maj.defaut)
<1>0. maj.pas = "garder"
  BY DEF S!Garder
<1>1. CASE maj.version \in pretes
  <2>1. garde' = [garde EXCEPT ![maj.version] = place] /\ maj' = [maj EXCEPT !.pas = "basculer", !.i = 1]
    BY <1>1 DEF S!Garder, S!Avancer
  <2>2. 1 \in 0..S!Unite + 1 /\ "basculer" \in PasDeMaj
    BY BornesMaj DEF PasDeMaj
  <2> QED BY <1>0, <1>1, <2>1, <2>2, PasEtI
<1>2. CASE maj.version \notin pretes
  <2>1. garde' = garde /\ maj' = S!Finir("refuse", "prepare")
    BY <1>2 DEF S!Garder, S!Avancer
  <2> QED BY <1>0, <2>1, MajFinie DEF Motifs
<1> QED BY <1>1, <1>2

LEMMA EffetBasculer ==
  ASSUME MajSuivie, S!Basculer
  PROVE  /\ maj.pas = "basculer" /\ maj.i + 1 # 1
         /\ Devient("basculer", maj.i + 1, maj.n, maj.motif, maj.defaut)
<1>1. maj.pas = "basculer" /\ maj' = [maj EXCEPT !.i = @ + 1] /\ maj.i <= NbFichiers
  BY DEF S!Basculer, S!Avancer
<1>2. maj.i + 1 \in 0..S!Unite + 1 /\ maj.i + 1 # 1
  BY <1>1, BornesMaj DEF MajSuivie, BasculeSuivie
<1> QED BY <1>1, <1>2, ITourne

LEMMA EffetEchec ==
  ASSUME MajSuivie, S!EchecDeBascule
  PROVE  /\ maj.pas = "basculer" /\ (maj.version \in pretes => S!Depense("pannes"))
         /\ Devient("remettre", 1, maj.i - 1, "rien", maj.defaut)
<1>1. /\ maj.pas = "basculer" /\ maj.i <= NbFichiers /\ (maj.version \in pretes => S!Depense("pannes"))
      /\ maj' = [maj EXCEPT !.pas = "remettre", !.i = 1, !.n = maj.i - 1, !.motif = "rien"]
  BY DEF S!EchecDeBascule, S!Avancer
<1>2. maj.i - 1 \in 0..S!Unite
  BY <1>1, BornesMaj DEF MajSuivie, BasculeSuivie
<1>3. 1 \in 0..S!Unite + 1 /\ "remettre" \in PasDeMaj /\ "rien" \in Motifs
  BY BornesMaj DEF PasDeMaj, Motifs
<1> QED BY <1>1, <1>2, <1>3, ToutChange

LEMMA EffetRemettre ==
  ASSUME MajSuivie, S!Remettre
  PROVE  /\ maj.pas = "remettre"
         /\ \/ Devient("remettre", maj.i + 1, maj.n, maj.motif, maj.defaut)
            \/ S!Depense("pannes") /\ Devient("remettre", maj.i + 1, maj.n, maj.motif, TRUE)
<1>1. /\ maj.pas = "remettre" /\ maj.i <= maj.n
      /\ \/ maj' = [maj EXCEPT !.i = @ + 1]
         \/ S!Depense("pannes") /\ maj' = [maj EXCEPT !.i = @ + 1, !.defaut = TRUE]
  BY DEF S!Remettre, S!Avancer
<1>2. maj.i + 1 \in 0..S!Unite + 1
  <2>1. maj.i \in 0..S!Unite + 1 /\ maj.n \in 0..S!Unite
    BY DEF MajSuivie, DisqueType, UneMaj
  <2> QED BY <1>1, <2>1, BornesMaj
<1> QED BY <1>1, <1>2, ITourne, IEtDefaut

LEMMA EffetUnite ==
  ASSUME MajSuivie, S!EcrireUnite
  PROVE  /\ maj.pas = "basculer"
         /\ \/ Devient("redemarrer", maj.i, maj.n, maj.motif, maj.defaut)
            \/ Devient("remettre", 1, S!Unite, "arriere", maj.defaut)
<1>1. /\ maj.pas = "basculer"
      /\ \/ maj' = [maj EXCEPT !.pas = "redemarrer"]
         \/ maj' = [maj EXCEPT !.pas = "remettre", !.i = 1, !.n = S!Unite, !.motif = "arriere"]
  BY DEF S!EcrireUnite, S!Avancer
<1> QED BY <1>1, PasChange, ToutRemettre DEF PasDeMaj

LEMMA EffetPorte ==
  ASSUME MajSuivie, S!Redemarrer \/ S!PorteFranchie \/ S!PorteFermee
  PROVE  \/ /\ S!Redemarrer /\ maj.pas = "redemarrer"
            /\ Devient("porte", maj.i, maj.n, maj.motif, maj.defaut)
         \/ /\ ~S!Redemarrer /\ maj.pas = "porte"
            /\ \/ Devient("installe", 0, 0, "", maj.defaut)
               \/ Devient("remettre", 1, S!Unite, "arriere", maj.defaut)
<1>1. CASE S!Redemarrer
  <2>1. maj.pas = "redemarrer" /\ maj' = [maj EXCEPT !.pas = "porte"]
    BY <1>1 DEF S!Redemarrer
  <2> QED BY <1>1, <2>1, PasChange DEF PasDeMaj
<1>2. CASE ~S!Redemarrer
  <2>1. /\ maj.pas = "porte"
        /\ \/ maj' = S!Finir("installe", "")
           \/ maj' = [maj EXCEPT !.pas = "remettre", !.i = 1, !.n = S!Unite, !.motif = "arriere"]
    BY <1>2 DEF S!PorteFranchie, S!PorteFermee, S!Avancer
  <2> QED BY <1>2, <2>1, MajFinie, ToutRemettre DEF Motifs
<1> QED BY <1>1, <1>2

LEMMA EffetFin ==
  ASSUME MajSuivie, S!FinDeRemise
  PROVE  /\ maj.pas = "remettre" /\ maj.i > maj.n
         /\ \/ maj.motif = "arriere" /\ Devient("relance", maj.i, maj.n, maj.motif, maj.defaut)
            \/ maj.motif # "arriere" /\ Devient("echec", 0, 0, "rien", maj.defaut)
<1>1. /\ maj.pas = "remettre" /\ maj.i > maj.n
      /\ \/ maj.motif = "arriere" /\ maj' = [maj EXCEPT !.pas = "relance"]
         \/ maj.motif # "arriere" /\ maj' = S!Finir("echec", "rien")
  BY DEF S!FinDeRemise
<1> QED BY <1>1, PasChange, MajFinie DEF PasDeMaj, Motifs

LEMMA EffetResultat ==
  ASSUME MajSuivie, S!PorteDuRetour \/ S!EcrireResultat
  PROVE  \/ maj.pas = "relance" /\ Devient("echec", 0, 0, "arriere", maj.defaut)
         \/ /\ maj.pas \in {"installe", "echec", "refuse"}
            /\ Devient("rendre", maj.i, maj.n, maj.motif, maj.defaut)
<1>1. \/ maj.pas = "relance" /\ maj' = S!Finir("echec", "arriere")
      \/ maj.pas \in {"installe", "echec", "refuse"} /\ maj' = [maj EXCEPT !.pas = "rendre"]
  BY DEF S!PorteDuRetour, S!EcrireResultat, S!Avancer
<1> QED BY <1>1, PasChange, MajFinie DEF PasDeMaj, Motifs

LEMMA EffetRendre == S!Rendre => maj.pas = "rendre" /\ maj' = S!Arretee
BY DEF S!Rendre

-----------------------------------------------------------------------------
(* The binary in place only goes down by an order that said so.            *)

(* The order that a swap carries out was newer than the version that runs, *)
(* or it said that it goes back; the version that runs is the binary in    *)
(* place, but during the swap, where it is the one put aside.              *)
AuRepos == {"arret", "garder", "porte", "relance", "installe", "echec", "refuse", "rendre"}
OrdreSuivi ==
  /\ \A d \in deroules : d.retro \/ d.version > tourne
  /\ maj.pas \in AuRepos => tourne = place[1]
  /\ maj.pas \in {"basculer", "redemarrer"} \/ (maj.pas = "remettre" /\ maj.motif # "arriere")
       => tourne = garde[maj.version][1]
  /\ maj.pas = "garder" \/ (maj.pas = "basculer" /\ maj.i = 1)
       => maj.retro \/ maj.version > place[1]
  /\ maj.pas = "remettre" => maj.motif \in {"rien", "arriere"}

(* No file stayed as it was when a swap said that nothing changed.         *)
RemiseReussie == ~(maj.defaut /\ maj.motif = "rien")

AucuneChute == reste.chutes = 0

LEMMA OrdreReste ==
  ASSUME OrdreSuivi, UNCHANGED <<place, garde, maj, tourne>>,
         \A d \in deroules' : \E e \in deroules : d.retro = e.retro /\ d.version = e.version
  PROVE  OrdreSuivi'
<1>1. \A d \in deroules' : d.retro \/ d.version > tourne
  BY DEF OrdreSuivi
<1> QED BY <1>1 DEF OrdreSuivi

LEMMA OrdreFige == OrdreSuivi /\ UNCHANGED <<place, garde, maj, tourne, deroules>> => OrdreSuivi'
BY OrdreReste

LEMMA OrdreDuCore == ASSUME OrdreSuivi, S!Core PROVE OrdreSuivi'
<1>1. UNCHANGED <<place, garde, maj, tourne, deroules>>
  BY DEF S!Core, S!RecevoirDeclaration, S!RepondreALaDemande, S!RecevoirLeCompteRendu, S!UnTour,
     S!RepousseApres, S!disque, S!agent
<1> QED BY <1>1, OrdreFige

LEMMA OrdreDeLAgent == ASSUME MajSuivie, OrdreSuivi, S!Agent PROVE OrdreSuivi'
<1>1. CASE S!RecevoirOrdre
  <2> DEFINE o == Head(descend)
             d == [version |-> o.version, retro |-> o.retro, pas |-> "attend", lent |-> FALSE]
  <2>1. /\ o \in UnOrdre /\ d \in UnDeroule /\ UNCHANGED disqueVars /\ tourne' = tourne
        /\ \/ deroules' = deroules
           \/ S!Traiter(o) = "" /\ deroules' = deroules \cup {d}
    BY <1>1, OrdreRecu
  <2>2. S!Traiter(o) = "" => o.version # tourne /\ (o.version < tourne => o.retro)
    BY <2>1, TraiterType
  <2>3. o.version \in Nat /\ tourne \in Nat
    BY <2>1, BornesMaj DEF UnOrdre, MajSuivie, MachineType
  <2>4. d.version = o.version /\ d.retro = o.retro
    OBVIOUS
  <2> HIDE DEF o, d
  <2>5. S!Traiter(o) = "" => d.retro \/ d.version > tourne
    <3>1. S!Traiter(o) = "" => o.retro \/ o.version > tourne
      <4>1. o.version < tourne \/ o.version = tourne \/ o.version > tourne
        BY <2>3
      <4> QED BY <2>2, <4>1
    <3>2. o.retro \/ o.version > tourne => d.retro \/ d.version > tourne
      BY <2>4
    <3> QED BY <3>1, <3>2
  <2>6. \A e \in deroules' : e.retro \/ e.version > tourne
    BY <2>1, <2>5 DEF OrdreSuivi
  <2> QED BY <2>1, <2>6 DEF OrdreSuivi, disqueVars
<1>2. CASE ~S!RecevoirOrdre
  <2>1. UNCHANGED <<place, garde, maj, tourne, deroules>>
    BY <1>2 DEF S!Agent, S!Connecter, S!Declarer, S!RendreCompte, S!Marquer, S!Demander, S!Passage,
       S!Reconcilier, S!disque
  <2> QED BY <2>1, OrdreFige
<1> QED BY <1>1, <1>2

LEMMA OrdreDuDeroule == ASSUME MajSuivie, OrdreSuivi, S!Deroule PROVE OrdreSuivi'
<1>0. PICK d \in deroules : S!Transitoire(d) \/ S!Extraire(d) \/ S!Refuser(d) \/ S!LancerUpdater(d)
  BY DEF S!Deroule
<1>1. CASE S!Transitoire(d) \/ S!Refuser(d)
  <2>1. UNCHANGED <<place, garde, maj, tourne>> /\ deroules' = deroules \ {d}
    BY <1>1 DEF S!Transitoire, S!Refuser, S!disque, S!agent
  <2> QED BY <2>1, OrdreReste
<1>2. CASE S!Extraire(d)
  <2> DEFINE e == [d EXCEPT !.pas = "prepare"]
  <2>1. UNCHANGED <<place, garde, maj, tourne>> /\ deroules' = (deroules \ {d}) \cup {e}
    BY <1>2 DEF S!Extraire, S!agent
  <2>0. d \in UnDeroule
    BY DEF MajSuivie, MachineType
  <2>2. e.retro = d.retro /\ e.version = d.version
    BY <2>0 DEF UnDeroule
  <2> HIDE DEF e
  <2> QED BY <2>1, <2>2, OrdreReste
<1>3. CASE S!LancerUpdater(d)
  <2>1. /\ UNCHANGED <<place, garde, tourne>> /\ deroules' = deroules \ {d}
        /\ \/ /\ maj.pas = "arret" /\ maj'.pas = "garder"
              /\ maj'.version = d.version /\ maj'.retro = d.retro
           \/ maj' = maj
    BY <1>3, Lancement
  <2>2. CASE maj' = maj
    BY <2>1, <2>2, OrdreReste
  <2>3. CASE maj.pas = "arret" /\ maj'.pas = "garder" /\ maj'.version = d.version /\ maj'.retro = d.retro
    BY <2>1, <2>3 DEF OrdreSuivi, AuRepos
  <2> QED BY <2>1, <2>2, <2>3
<1> QED BY <1>0, <1>1, <1>2, <1>3

LEMMA OrdreVieillit == ASSUME MajSuivie, OrdreSuivi, S!Vieillir PROVE OrdreSuivi'
<1> DEFINE x == [maj EXCEPT !.lent = (maj.pas # "arret")]
           L(d) == [d EXCEPT !.lent = TRUE]
<1>1. /\ UNCHANGED <<place, garde, tourne>>
      /\ maj' = x /\ deroules' = {L(d) : d \in deroules}
  BY DEF S!Vieillir, S!disque, S!agent
<1>0. maj \in UneMaj /\ deroules \subseteq UnDeroule
  BY DEF MajSuivie, DisqueType, MachineType
<1>2. /\ x.pas = maj.pas /\ x.version = maj.version /\ x.i = maj.i
      /\ x.motif = maj.motif /\ x.retro = maj.retro
  BY <1>0 DEF UneMaj
<1>3. \A d \in deroules : L(d).retro = d.retro /\ L(d).version = d.version
  BY <1>0 DEF UnDeroule
<1> HIDE DEF x, L
<1>4. \A d \in deroules' : d.retro \/ d.version > tourne
  BY <1>1, <1>3 DEF OrdreSuivi
<1> QED BY <1>1, <1>2, <1>4 DEF OrdreSuivi

LEMMA OrdreDuHasard == ASSUME MajSuivie, AucuneChute, OrdreSuivi, S!Hasard PROVE OrdreSuivi'
<1>1. CASE S!DefinirCible \/ S!Relancer
  <2>1. UNCHANGED <<place, garde, maj, tourne, deroules>>
    BY <1>1 DEF S!DefinirCible, S!Relancer, S!disque, S!agent
  <2> QED BY <2>1, OrdreFige
<1>2. CASE S!Courant
  <2>1. UNCHANGED <<place, garde>> /\ tourne' = place[1] /\ deroules' = {} /\ maj'.pas = "arret"
    BY <1>2, ArreteeType DEF S!Courant, S!Demarrer, S!disque
  <2> QED BY <2>1 DEF OrdreSuivi
<1>3. ~S!CouperTunnel /\ ~S!AgentTombe
  BY DEF AucuneChute, S!CouperTunnel, S!AgentTombe, S!Depense
<1> QED BY <1>1, <1>2, <1>3 DEF S!Hasard

(* The updater.                                                            *)
LEMMA FinVraie ==
  ASSUME MajSuivie, maj.pas = "remettre", maj.i > maj.n, ~maj.defaut
  PROVE  place = garde[maj.version]
<1>1. place \in [S!Pieces -> Versions] /\ garde[maj.version] \in [S!Pieces -> Versions]
  BY DEF MajSuivie, DisqueType, BasculeSuivie
<1>2. maj.n \in Nat /\ maj.i \in Nat
  <2>1. maj.n \in 0..S!Unite /\ maj.i \in 0..S!Unite + 1
    BY DEF MajSuivie, DisqueType, UneMaj
  <2> QED BY <2>1
<1>3. \A p \in S!Pieces : p < maj.i \/ p > maj.n
  BY <1>2, BornesMaj
<1>4. \A p \in S!Pieces : place[p] = garde[maj.version][p]
  BY <1>3 DEF MajSuivie, BasculeSuivie
<1> QED BY <1>1, <1>4

(* The swap of the files, as the order sees it.                            *)
LEMMA OrdreDeLaBascule ==
  ASSUME MajSuivie, OrdreSuivi,
         S!Garder \/ S!Basculer \/ S!EchecDeBascule \/ S!Remettre \/ S!EcrireUnite
  PROVE  OrdreSuivi'
<1>0. UNCHANGED <<tourne, deroules>> /\ (S!Garder => place' = place) /\ (~S!Garder => garde' = garde)
  BY DEF S!Garder, S!Basculer, S!EchecDeBascule, S!Remettre, S!EcrireUnite, S!Avancer, S!agent
<1>a. \A d \in deroules' : d.retro \/ d.version > tourne'
  BY <1>0 DEF OrdreSuivi
<1>1. CASE S!Garder
  <2>1. maj.pas = "garder" /\ maj.version \in Versions /\ place \in [S!Pieces -> Versions]
    BY <1>1, EffetGarder DEF MajSuivie, BasculeSuivie, DisqueType
  <2>2. garde' = [garde EXCEPT ![maj.version] = place] => garde'[maj.version] = place
    BY <2>1 DEF MajSuivie, DisqueType
  <2> QED BY <1>0, <1>a, <1>1, <2>2, EffetGarder DEF OrdreSuivi, Devient, AuRepos
<1>2. CASE S!Basculer
  <2>1. ~S!Garder
    BY <1>2, EffetBasculer DEF S!Garder
  <2> QED BY <1>0, <1>a, <1>2, <2>1, EffetBasculer DEF OrdreSuivi, Devient, AuRepos
<1>3. CASE S!EchecDeBascule
  <2>1. ~S!Garder
    BY <1>3, EffetEchec DEF S!Garder
  <2> QED BY <1>0, <1>a, <1>3, <2>1, EffetEchec DEF OrdreSuivi, Devient, AuRepos
<1>4. CASE S!Remettre
  <2>1. ~S!Garder
    BY <1>4, EffetRemettre DEF S!Garder
  <2> QED BY <1>0, <1>a, <1>4, <2>1, EffetRemettre DEF OrdreSuivi, Devient, AuRepos
<1>5. CASE S!EcrireUnite
  <2>1. ~S!Garder
    BY <1>5, EffetUnite DEF S!Garder
  <2> QED BY <1>0, <1>a, <1>5, <2>1, EffetUnite DEF OrdreSuivi, Devient, AuRepos
<1> QED BY <1>1, <1>2, <1>3, <1>4, <1>5

LEMMA OrdreDeLaPorte ==
  ASSUME MajSuivie, OrdreSuivi, S!Redemarrer \/ S!PorteFranchie \/ S!PorteFermee
  PROVE  OrdreSuivi'
<1>1. /\ UNCHANGED <<place, garde>>
      /\ S!Redemarrer => tourne' = place[1] /\ deroules' = {}
      /\ ~S!Redemarrer => UNCHANGED <<tourne, deroules>>
  BY DEF S!Redemarrer, S!PorteFranchie, S!PorteFermee, S!Avancer, S!Demarrer, S!disque, S!agent
<1>2. CASE S!Redemarrer
  <2>1. maj.pas = "redemarrer" /\ Devient("porte", maj.i, maj.n, maj.motif, maj.defaut)
    BY <1>2, EffetPorte
  <2> QED BY <1>1, <1>2, <2>1 DEF OrdreSuivi, Devient, AuRepos
<1>3. CASE ~S!Redemarrer
  <2>1. /\ maj.pas = "porte"
        /\ \/ Devient("installe", 0, 0, "", maj.defaut)
           \/ Devient("remettre", 1, S!Unite, "arriere", maj.defaut)
    BY <1>3, EffetPorte
  <2> QED BY <1>1, <1>3, <2>1 DEF OrdreSuivi, Devient, AuRepos
<1> QED BY <1>2, <1>3

LEMMA OrdreDeLaFin ==
  ASSUME MajSuivie, OrdreSuivi, RemiseReussie,
         S!FinDeRemise \/ S!PorteDuRetour \/ S!EcrireResultat \/ S!Rendre
  PROVE  OrdreSuivi'
<1>0. UNCHANGED <<place, garde>> /\ (~S!FinDeRemise => UNCHANGED <<tourne, deroules>>)
  BY DEF S!FinDeRemise, S!PorteDuRetour, S!EcrireResultat, S!Rendre, S!Avancer, S!disque, S!agent
<1>1. CASE S!FinDeRemise /\ maj.motif = "arriere"
  <2>1. tourne' = place[1] /\ deroules' = {}
    BY <1>1 DEF S!FinDeRemise, S!Demarrer
  <2>2. Devient("relance", maj.i, maj.n, maj.motif, maj.defaut)
    BY <1>1, EffetFin
  <2> QED BY <1>0, <2>1, <2>2 DEF OrdreSuivi, Devient, AuRepos
<1>2. CASE S!FinDeRemise /\ maj.motif # "arriere"
  <2>1. UNCHANGED <<tourne, deroules>>
    BY <1>2 DEF S!FinDeRemise, S!agent
  <2>2. maj.pas = "remettre" /\ maj.i > maj.n /\ Devient("echec", 0, 0, "rien", maj.defaut)
    BY <1>2, EffetFin
  <2>3. maj.motif = "rien" /\ ~maj.defaut
    BY <1>2, <2>2 DEF OrdreSuivi, RemiseReussie
  <2>4. tourne = place[1]
    BY <1>2, <2>2, <2>3, FinVraie DEF OrdreSuivi
  <2> QED BY <1>0, <2>1, <2>2, <2>4 DEF OrdreSuivi, Devient, AuRepos
<1>3. CASE S!PorteDuRetour \/ S!EcrireResultat
  <2>1. ~S!FinDeRemise
    BY <1>3 DEF S!FinDeRemise, S!PorteDuRetour, S!EcrireResultat
  <2> QED BY <1>0, <1>3, <2>1, EffetResultat DEF OrdreSuivi, Devient, AuRepos
<1>4. CASE S!Rendre
  <2>1. ~S!FinDeRemise
    BY <1>4 DEF S!FinDeRemise, S!Rendre
  <2> QED BY <1>0, <1>4, <2>1, EffetRendre, ArreteeType DEF OrdreSuivi, AuRepos
<1> QED BY <1>1, <1>2, <1>3, <1>4

LEMMA OrdreSePoursuit ==
  ASSUME MajSuivie, AucuneChute, OrdreSuivi, RemiseReussie, S!Next
  PROVE  OrdreSuivi'
BY OrdreDuCore, OrdreDeLAgent, OrdreDuDeroule, OrdreVieillit, OrdreDuHasard, OrdreDeLaBascule,
   OrdreDeLaPorte, OrdreDeLaFin DEF S!Next, S!Updater

(* What is spent is not given back.                                        *)
LEMMA ResteDepense ==
  ASSUME S!Next
  PROVE  reste' = reste \/ \E q \in Bornes : S!Depense(q)
<1> USE DEF S!Attendre, Bornes
<1>1. CASE S!Core
  BY <1>1 DEF S!Core, S!RecevoirDeclaration, S!RepondreALaDemande, S!RecevoirLeCompteRendu, S!UnTour,
     S!RepousseApres
<1>2. CASE S!Agent
  BY <1>2 DEF S!Agent, S!Connecter, S!Declarer, S!RendreCompte, S!Marquer, S!Demander, S!Passage,
     S!Reconcilier, S!RecevoirOrdre
<1>3. CASE S!Deroule
  BY <1>3 DEF S!Deroule, S!Transitoire, S!Extraire, S!Refuser, S!LancerUpdater
<1>4. CASE S!Updater
  <2>1. CASE S!Garder \/ S!Basculer \/ S!EchecDeBascule \/ S!Remettre \/ S!EcrireUnite
    BY <2>1 DEF S!Garder, S!Basculer, S!EchecDeBascule, S!Remettre, S!EcrireUnite
  <2>2. CASE S!Redemarrer \/ S!PorteFranchie \/ S!PorteFermee
    BY <2>2 DEF S!Redemarrer, S!PorteFranchie, S!PorteFermee
  <2>3. CASE S!FinDeRemise \/ S!PorteDuRetour \/ S!EcrireResultat \/ S!Rendre
    BY <2>3 DEF S!FinDeRemise, S!PorteDuRetour, S!EcrireResultat, S!Rendre
  <2> QED BY <1>4, <2>1, <2>2, <2>3 DEF S!Updater
<1>5. CASE S!Hasard
  BY <1>5 DEF S!Hasard, S!DefinirCible, S!Relancer, S!CouperTunnel, S!AgentTombe, S!Courant
<1>6. CASE S!Vieillir
  BY <1>6 DEF S!Vieillir
<1> QED BY <1>1, <1>2, <1>3, <1>4, <1>5, <1>6 DEF S!Next

LEMMA ResteBaisse ==
  ASSUME MajSuivie, S!Next
  PROVE  /\ reste'.pannes <= reste.pannes
         /\ AucuneChute => AucuneChute'
<1>1. \A q \in Bornes : reste[q] \in Nat
  BY DEF MajSuivie, ResteType
<1>2. ASSUME NEW q \in Bornes, S!Depense(q)
      PROVE  reste'.pannes <= reste.pannes /\ (AucuneChute => AucuneChute')
  <2>1. reste'.pannes = (IF q = "pannes" THEN reste.pannes - 1 ELSE reste.pannes)
    BY <1>2 DEF S!Depense, MajSuivie, ResteType, Bornes
  <2>2. q # "chutes" => reste'.chutes = reste.chutes
    BY <1>2 DEF S!Depense, MajSuivie, ResteType, Bornes
  <2>3. q = "chutes" => ~AucuneChute
    BY <1>2 DEF S!Depense, AucuneChute
  <2>4. reste.pannes \in Nat
    BY <1>1 DEF Bornes
  <2> QED BY <2>1, <2>2, <2>3, <2>4 DEF AucuneChute
<1>3. reste.pannes \in Nat
  BY <1>1 DEF Bornes
<1>4. CASE reste' = reste
  BY <1>3, <1>4 DEF AucuneChute
<1> QED BY <1>2, <1>4, ResteDepense

(* The step itself: only a swap, or its undoing, touches the binary.       *)
LEMMA BinaireSuivi == ASSUME MajSuivie, OrdreSuivi, S!Next PROVE S!BinaireAvance
<1>1. place' = place \/ S!Basculer \/ S!Remettre \/ S!EcrireUnite
  <2>1. CASE S!Core
    BY <2>1 DEF S!Core, S!RecevoirDeclaration, S!RepondreALaDemande, S!RecevoirLeCompteRendu, S!UnTour,
       S!RepousseApres, S!disque
  <2>2. CASE S!Agent
    BY <2>2 DEF S!Agent, S!Connecter, S!Declarer, S!RendreCompte, S!Marquer, S!Demander, S!Passage,
       S!Reconcilier, S!RecevoirOrdre, S!disque
  <2>3. CASE S!Deroule
    BY <2>3 DEF S!Deroule, S!Transitoire, S!Extraire, S!Refuser, S!LancerUpdater, S!disque
  <2>4. CASE S!Updater
    BY <2>4 DEF S!Updater, S!Garder, S!EchecDeBascule, S!Redemarrer, S!PorteFranchie, S!PorteFermee,
       S!FinDeRemise, S!PorteDuRetour, S!EcrireResultat, S!Rendre, S!disque
  <2>5. CASE S!Hasard
    BY <2>5 DEF S!Hasard, S!DefinirCible, S!Relancer, S!CouperTunnel, S!AgentTombe, S!Courant, S!disque
  <2>6. CASE S!Vieillir
    BY <2>6 DEF S!Vieillir, S!disque
  <2> QED BY <2>1, <2>2, <2>3, <2>4, <2>5, <2>6 DEF S!Next
<1>0. place[1] \in Nat
  BY BinaireType, BornesMaj
<1>2. CASE place' = place
  BY <1>0, <1>2 DEF S!BinaireAvance
<1>3. CASE S!Remettre
  BY <1>3 DEF S!Remettre, S!BinaireAvance
<1>4. CASE S!EcrireUnite
  <2>1. place' = place \/ place' = [place EXCEPT ![S!Unite] = place[1]]
    BY <1>4 DEF S!EcrireUnite
  <2>2. S!Unite # 1
    BY BornesMaj
  <2>3. place'[1] = place[1]
    BY <2>1, <2>2, BornesMaj DEF MajSuivie, DisqueType
  <2> QED BY <1>0, <2>3 DEF S!BinaireAvance
<1>5. CASE S!Basculer
  <2>1. maj.pas = "basculer" /\ place' = [place EXCEPT ![maj.i] = maj.version] /\ maj.version \in Versions
    BY <1>5 DEF S!Basculer, MajSuivie, BasculeSuivie
  <2>2. place'[1] = IF maj.i = 1 THEN maj.version ELSE place[1]
    BY <2>1, BornesMaj DEF MajSuivie, DisqueType
  <2>3. maj.version \in Nat
    BY <2>1, BornesMaj
  <2>4. maj.i = 1 => maj.retro \/ maj.version > place[1]
    BY <2>1 DEF OrdreSuivi
  <2>5. maj.i = 1 /\ ~maj.retro => ~(place'[1] < place[1])
    BY <1>0, <2>2, <2>3, <2>4
  <2>6. maj.i # 1 => ~(place'[1] < place[1])
    BY <1>0, <2>2
  <2> QED BY <2>5, <2>6 DEF S!BinaireAvance
<1> QED BY <1>1, <1>2, <1>3, <1>4, <1>5

LEMMA OrdreDebute == S!Init => OrdreSuivi
<1> SUFFICES ASSUME S!Init PROVE OrdreSuivi
  OBVIOUS
<1>1. place[1] = Depart
  BY BornesMaj DEF S!Init
<1> QED BY <1>1, ArreteeType DEF S!Init, OrdreSuivi

(* While the process of the agent does not restart by itself and no file   *)
(* stays unrestored under the report "rien n'a changé", the binary in       *)
(* place only goes to a lower version by an order that said so, or back to  *)
(* what was put aside (ordre.go, bascule.go remettre).                      *)
THEOREM RetrogradeToujours ==
  ASSUME Chutes = 0
  PROVE  S!Spec /\ []RemiseReussie => [][S!BinaireAvance]_S!vars
<1> DEFINE I == MajSuivie /\ OrdreSuivi /\ AucuneChute
<1>1. S!Init => I
  BY MajDebute, OrdreDebute DEF S!Init, AucuneChute
<1>2. I /\ RemiseReussie /\ [S!Next]_S!vars => I'
  <2> SUFFICES ASSUME I, RemiseReussie, [S!Next]_S!vars PROVE I'
    OBVIOUS
  <2>1. CASE S!Next
    BY <2>1, MajSePoursuit, OrdreSePoursuit, ResteBaisse
  <2>2. CASE UNCHANGED S!vars
    <3>1. UNCHANGED majVars
      BY <2>2 DEF majVars, S!vars, S!disque, S!agent, S!core
    <3> QED BY <3>1, MajFige, OrdreFige DEF majVars, AucuneChute
  <2> QED BY <2>1, <2>2
<1>3. I /\ [S!Next]_S!vars => [S!BinaireAvance]_S!vars
  BY BinaireSuivi
<1> HIDE DEF I
<1> QED BY <1>1, <1>2, <1>3, PTL DEF S!Spec

-----------------------------------------------------------------------------
(* The parts of the run: with one failure and no download of half an hour, *)
(* one order at a time, from its lock to its result.                       *)
UnSeulOrdre ==
  /\ \A d, e \in deroules : d = e
  /\ deroules # {} => verrou = "frais" /\ maj.pas = "arret"
  /\ maj.pas # "arret" => verrou = "frais"
  /\ maj.pas \in {"garder", "basculer"} => maj.version \in pretes
  /\ maj.pas \notin {"remettre", "relance", "echec", "rendre"} => ~maj.defaut
  /\ reste.pannes <= Pannes
  /\ maj.motif = "rien" => ~maj.defaut /\ reste.pannes < Pannes

SansPanne == reste.pannes = Pannes /\ ~maj.defaut

LEMMA PannesNat == ASSUME MajSuivie PROVE reste.pannes \in Nat /\ Pannes \in Nat
BY BornesMaj DEF MajSuivie, ResteType, Bornes

LEMMA PanneDepensee ==
  ASSUME MajSuivie, S!Depense("pannes")
  PROVE  reste'.pannes = reste.pannes - 1 /\ reste.pannes > 0
BY DEF S!Depense, MajSuivie, ResteType, Bornes

LEMMA PannesSuivent ==
  ASSUME MajSuivie, MajSuivie', S!Next, UnSeulOrdre
  PROVE  reste'.pannes <= Pannes /\ (reste.pannes < Pannes => reste'.pannes < Pannes)
<1>1. reste.pannes \in Nat /\ Pannes \in Nat /\ reste'.pannes \in Nat
  BY PannesNat DEF MajSuivie, ResteType, Bornes
<1>2. reste'.pannes <= reste.pannes /\ reste.pannes <= Pannes
  BY ResteBaisse DEF UnSeulOrdre
<1> QED BY <1>1, <1>2

LEMMA SeulReste ==
  ASSUME MajSuivie, MajSuivie', S!Next, UnSeulOrdre, UNCHANGED <<verrou, pretes, maj>>,
         deroules' \in {deroules, {}}
  PROVE  UnSeulOrdre'
<1>1. reste'.pannes <= Pannes /\ (maj.motif = "rien" => reste'.pannes < Pannes)
  BY PannesSuivent DEF UnSeulOrdre
<1> QED BY <1>1 DEF UnSeulOrdre

LEMMA SeulAuCalme ==
  ASSUME MajSuivie, MajSuivie', S!Next, UnSeulOrdre,
         S!Core \/ S!Agent \/ S!Deroule \/ S!Hasard \/ (S!Vieillir /\ Ponctuel)
  PROVE  UnSeulOrdre'
<1>0. reste'.pannes <= Pannes /\ (maj.motif = "rien" => reste'.pannes < Pannes)
  BY PannesSuivent DEF UnSeulOrdre
<1>1. CASE S!Core
  <2>1. UNCHANGED <<verrou, pretes, maj, deroules>>
    BY <1>1 DEF S!Core, S!RecevoirDeclaration, S!RepondreALaDemande, S!RecevoirLeCompteRendu, S!UnTour,
       S!RepousseApres, S!disque
  <2> QED BY <2>1, SeulReste
<1>2. CASE S!Agent
  <2>1. CASE S!RecevoirOrdre
    <3>1. /\ UNCHANGED <<pretes, maj>>
          /\ \/ UNCHANGED <<verrou, deroules>>
             \/ verrou # "frais" /\ verrou' = "frais" /\ \E d : deroules' = deroules \cup {d}
      BY <2>1, OrdreRecu DEF disqueVars
    <3>2. CASE UNCHANGED <<verrou, deroules>>
      BY <3>1, <3>2, SeulReste
    <3>3. CASE verrou # "frais" /\ verrou' = "frais" /\ \E d : deroules' = deroules \cup {d}
      BY <1>0, <3>1, <3>3 DEF UnSeulOrdre
    <3> QED BY <3>1, <3>2, <3>3
  <2>2. CASE ~S!RecevoirOrdre
    <3>1. UNCHANGED <<verrou, pretes, maj, deroules>>
      BY <1>2, <2>2 DEF S!Agent, S!Connecter, S!Declarer, S!RendreCompte, S!Marquer, S!Demander,
         S!Passage, S!Reconcilier, S!disque
    <3> QED BY <3>1, SeulReste
  <2> QED BY <2>1, <2>2
<1>3. CASE S!Deroule
  <2>0. PICK d \in deroules : S!Transitoire(d) \/ S!Extraire(d) \/ S!Refuser(d) \/ S!LancerUpdater(d)
    BY <1>3 DEF S!Deroule
  <2>1. deroules = {d} /\ maj.pas = "arret" /\ verrou = "frais" /\ ~maj.defaut
    BY DEF UnSeulOrdre
  <2>2. CASE S!Transitoire(d) \/ S!Refuser(d)
    <3>1. UNCHANGED <<pretes, maj>> /\ deroules' = {}
      BY <2>1, <2>2 DEF S!Transitoire, S!Refuser, S!disque
    <3> QED BY <1>0, <2>1, <3>1 DEF UnSeulOrdre
  <2>3. CASE S!Extraire(d)
    <3>1. maj' = maj /\ verrou' = verrou /\ \E e : deroules' = {e}
      BY <2>1, <2>3 DEF S!Extraire
    <3> QED BY <1>0, <2>1, <3>1 DEF UnSeulOrdre
  <2>4. CASE S!LancerUpdater(d)
    <3>1. /\ deroules' = {} /\ verrou' = verrou /\ pretes' = pretes \cup {d.version}
          /\ maj'.pas = "garder" /\ maj'.version = d.version /\ ~maj'.defaut /\ maj'.motif = ""
      BY <2>1, <2>4, Lancement
    <3> QED BY <1>0, <2>1, <3>1 DEF UnSeulOrdre
  <2> QED BY <2>0, <2>2, <2>3, <2>4
<1>4. CASE S!Hasard
  <2>1. CASE S!Courant
    <3>1. maj' = S!Arretee /\ deroules' = {}
      BY <2>1 DEF S!Courant, S!Demarrer
    <3> QED BY <1>0, <3>1, ArreteeType DEF UnSeulOrdre
  <2>2. CASE ~S!Courant
    <3>1. UNCHANGED <<verrou, pretes, maj>> /\ deroules' \in {deroules, {}}
      BY <1>4, <2>2 DEF S!Hasard, S!DefinirCible, S!Relancer, S!CouperTunnel, S!AgentTombe, S!Demarrer,
         S!disque
    <3> QED BY <3>1, SeulReste
  <2> QED BY <2>1, <2>2
<1>5. CASE S!Vieillir /\ Ponctuel
  <2> DEFINE x == [maj EXCEPT !.lent = (maj.pas # "arret")]
             L(d) == [d EXCEPT !.lent = TRUE]
  <2>1. /\ maj' = x /\ deroules' = {L(d) : d \in deroules} /\ ~maj'.lent
        /\ \A d \in deroules' : ~d.lent
    BY <1>5 DEF S!Vieillir, Ponctuel
  <2>0. maj \in UneMaj /\ deroules \subseteq UnDeroule
    BY DEF MajSuivie, DisqueType, MachineType
  <2>2. x.pas = maj.pas /\ x.defaut = maj.defaut /\ x.motif = maj.motif /\ x.lent = (maj.pas # "arret")
    BY <2>0 DEF UneMaj
  <2>3. \A d \in deroules : L(d).lent
    BY <2>0 DEF UnDeroule
  <2> HIDE DEF x, L
  <2>4. maj'.pas = "arret" /\ deroules' = {}
    BY <2>1, <2>2, <2>3
  <2> QED BY <1>0, <2>1, <2>2, <2>4 DEF UnSeulOrdre
<1> QED BY <1>1, <1>2, <1>3, <1>4, <1>5

LEMMA SeulEnBascule ==
  ASSUME MajSuivie, MajSuivie', OrdreSuivi, S!Next, UnSeulOrdre, S!Updater,
         Pannes - reste'.pannes <= 1
  PROVE  UnSeulOrdre'
<1>0. reste'.pannes <= Pannes /\ (maj.motif = "rien" => reste'.pannes < Pannes)
  BY PannesSuivent DEF UnSeulOrdre
<1>1. reste.pannes \in Nat /\ Pannes \in Nat
  BY PannesNat
<1>2. maj.pas # "arret"
  BY DEF S!Updater, S!Garder, S!Basculer, S!EchecDeBascule, S!Remettre, S!EcrireUnite, S!Redemarrer,
     S!PorteFranchie, S!PorteFermee, S!FinDeRemise, S!PorteDuRetour, S!EcrireResultat, S!Rendre
<1>3. deroules = {} /\ verrou = "frais"
  BY <1>2 DEF UnSeulOrdre
<1>4. /\ deroules' = {} /\ (~S!Rendre => verrou' = "frais")
      /\ S!Garder \/ S!Basculer => pretes' = pretes
  BY <1>3 DEF S!Updater, S!Garder, S!Basculer, S!EchecDeBascule, S!Remettre, S!EcrireUnite, S!Redemarrer,
     S!PorteFranchie, S!PorteFermee, S!FinDeRemise, S!PorteDuRetour, S!EcrireResultat, S!Rendre,
     S!Avancer, S!Demarrer
<1>5. CASE S!Rendre
  BY <1>0, <1>4, <1>5, EffetRendre, ArreteeType DEF UnSeulOrdre
<1>6. CASE S!Garder \/ S!Basculer
  <2>1. ~S!Rendre
    BY <1>6 DEF S!Rendre, S!Garder, S!Basculer
  <2> QED BY <1>0, <1>4, <1>6, <2>1, EffetGarder, EffetBasculer DEF UnSeulOrdre, Devient
<1>7. CASE S!EchecDeBascule
  <2>1. ~S!Rendre
    BY <1>7 DEF S!Rendre, S!EchecDeBascule
  <2>2. maj.pas = "basculer" /\ maj.version \in pretes /\ ~maj.defaut
    BY <1>7, EffetEchec DEF UnSeulOrdre
  <2>3. reste'.pannes < Pannes
    BY <1>1, <1>7, <2>2, EffetEchec, PanneDepensee DEF UnSeulOrdre
  <2> QED BY <1>0, <1>4, <1>7, <2>1, <2>2, <2>3, EffetEchec DEF UnSeulOrdre, Devient
<1>8. CASE S!Remettre
  <2>1. ~S!Rendre
    BY <1>8 DEF S!Rendre, S!Remettre
  <2>2. maj.motif = "rien" => ~S!Depense("pannes")
    BY <1>1, PanneDepensee DEF UnSeulOrdre
  <2> QED BY <1>0, <1>4, <1>8, <2>1, <2>2, EffetRemettre DEF UnSeulOrdre, Devient
<1>9. CASE S!EcrireUnite
  <2>1. ~S!Rendre
    BY <1>9 DEF S!Rendre, S!EcrireUnite
  <2> QED BY <1>0, <1>4, <1>9, <2>1, EffetUnite DEF UnSeulOrdre, Devient
<1>10. CASE S!Redemarrer \/ S!PorteFranchie \/ S!PorteFermee
  <2>1. ~S!Rendre
    BY <1>10 DEF S!Rendre, S!Redemarrer, S!PorteFranchie, S!PorteFermee
  <2> QED BY <1>0, <1>4, <1>10, <2>1, EffetPorte DEF UnSeulOrdre, Devient
<1>11. CASE S!FinDeRemise
  <2>1. ~S!Rendre
    BY <1>11 DEF S!Rendre, S!FinDeRemise
  <2>2. maj.pas = "remettre" /\ (maj.motif # "arriere" => maj.motif = "rien")
    BY <1>11, EffetFin DEF OrdreSuivi
  <2> QED BY <1>0, <1>4, <1>11, <2>1, <2>2, EffetFin DEF UnSeulOrdre, Devient
<1>12. CASE S!PorteDuRetour \/ S!EcrireResultat
  <2>1. ~S!Rendre
    BY <1>12 DEF S!Rendre, S!PorteDuRetour, S!EcrireResultat
  <2> QED BY <1>0, <1>4, <1>12, <2>1, EffetResultat DEF UnSeulOrdre, Devient
<1> QED BY <1>5, <1>6, <1>7, <1>8, <1>9, <1>10, <1>11, <1>12 DEF S!Updater

(* A file that is not put back is a failure spent.                         *)
LEMMA DefautNeuf ==
  ASSUME MajSuivie, S!Next, ~maj.defaut, ~S!Depense("pannes")
  PROVE  ~maj'.defaut
<1>1. CASE S!Core \/ S!Agent
  <2>1. maj' = maj
    BY <1>1 DEF S!Core, S!RecevoirDeclaration, S!RepondreALaDemande, S!RecevoirLeCompteRendu, S!UnTour,
       S!RepousseApres, S!Agent, S!Connecter, S!Declarer, S!RendreCompte, S!Marquer, S!Demander,
       S!Passage, S!Reconcilier, S!RecevoirOrdre
  <2> QED BY <2>1
<1>2. CASE S!Deroule
  <2>0. PICK d \in deroules : S!Transitoire(d) \/ S!Extraire(d) \/ S!Refuser(d) \/ S!LancerUpdater(d)
    BY <1>2 DEF S!Deroule
  <2>1. S!LancerUpdater(d) => ~maj'.defaut
    BY Lancement
  <2>2. ~S!LancerUpdater(d) => maj' = maj
    BY <2>0 DEF S!Transitoire, S!Extraire, S!Refuser
  <2> QED BY <2>1, <2>2
<1>3. CASE S!Hasard
  <2>1. maj' = maj \/ maj' = S!Arretee
    BY <1>3 DEF S!Hasard, S!DefinirCible, S!Relancer, S!CouperTunnel, S!AgentTombe, S!Courant
  <2> QED BY <2>1, ArreteeType
<1>4. CASE S!Vieillir
  <2>1. maj' = [maj EXCEPT !.lent = (maj.pas # "arret")]
    BY <1>4 DEF S!Vieillir
  <2> QED BY <2>1 DEF MajSuivie, DisqueType, UneMaj
<1>5. CASE S!Updater
  BY <1>5, EffetGarder, EffetBasculer, EffetEchec, EffetRemettre, EffetUnite, EffetPorte, EffetFin,
     EffetResultat, EffetRendre, ArreteeType DEF S!Updater, Devient
<1> QED BY <1>1, <1>2, <1>3, <1>4, <1>5 DEF S!Next

(* What a part of the run keeps, over the files and the orders.            *)
PartieSuivie ==
  partie \in Machine =>
    /\ MajSuivie /\ OrdreSuivi /\ AucuneChute
    /\ IF partie = "maj" THEN UnSeulOrdre ELSE SansPanne

(* In the parts of the run no file stays unrestored under that report: one *)
(* failure at most, one order at a time; the property holds of them for    *)
(* any versions, files, cuts and gestures.                                 *)
THEOREM RetrogradeCorrect ==
  ASSUME Chutes = 0
  PROVE  Ensemble => JamaisRetrograde
<1>1. Debut => PartieSuivie
  <2> SUFFICES ASSUME Debut, partie \in Machine PROVE PartieSuivie
    BY DEF PartieSuivie
  <2>1. S!Init
    BY DEF Debut
  <2>2. reste.pannes = Pannes /\ reste.chutes = 0 /\ deroules = {} /\ maj = S!Arretee
    BY <2>1 DEF S!Init
  <2>3. Pannes <= Pannes
    BY BornesMaj
  <2> QED BY <2>1, <2>2, <2>3, MajDebute, OrdreDebute, ArreteeType
          DEF PartieSuivie, AucuneChute, UnSeulOrdre, SansPanne
<1>2. PartieSuivie /\ [Pas]_tout => PartieSuivie' /\ [(partie \in Machine => S!BinaireAvance)]_tout
  <2> SUFFICES ASSUME PartieSuivie, [Pas]_tout
               PROVE  PartieSuivie' /\ [(partie \in Machine => S!BinaireAvance)]_tout
    OBVIOUS
  <2>1. partie' = partie
    BY DEF Pas, tout
  <2>2. CASE partie \notin Machine
    BY <2>1, <2>2 DEF PartieSuivie
  <2>3. CASE partie \in Machine /\ UNCHANGED majVars
    <3>1. MajSuivie /\ OrdreSuivi /\ AucuneChute /\ IF partie = "maj" THEN UnSeulOrdre ELSE SansPanne
      BY <2>3 DEF PartieSuivie
    <3>2. MajSuivie' /\ OrdreSuivi' /\ AucuneChute'
      BY <2>3, <3>1, MajFige, OrdreFige DEF majVars, AucuneChute
    <3>3. IF partie = "maj" THEN UnSeulOrdre' ELSE SansPanne'
      BY <2>3, <3>1 DEF majVars, UnSeulOrdre, SansPanne
    <3>4. S!BinaireAvance
      <4>1. place[1] \in Nat /\ place' = place
        BY <2>3, <3>1, BinaireType, BornesMaj DEF majVars
      <4> QED BY <4>1 DEF S!BinaireAvance
    <3> QED BY <2>1, <3>2, <3>3, <3>4 DEF PartieSuivie
  <2>4. CASE partie \in Machine /\ S!Next /\ Pas
    <3>1. MajSuivie /\ OrdreSuivi /\ AucuneChute /\ IF partie = "maj" THEN UnSeulOrdre ELSE SansPanne
      BY <2>4 DEF PartieSuivie
    <3>2. RemiseReussie
      BY <3>1 DEF UnSeulOrdre, SansPanne, RemiseReussie
    <3>3. MajSuivie' /\ OrdreSuivi' /\ AucuneChute' /\ S!BinaireAvance
      BY <2>4, <3>1, <3>2, MajSePoursuit, OrdreSePoursuit, ResteBaisse, BinaireSuivi
    <3>4. CASE partie = "maj"
      <4>1. Ponctuel /\ Pannes - reste'.pannes <= 1
        BY <2>4, <3>4 DEF Pas, Jusque
      <4>2. UnSeulOrdre'
        BY <2>4, <3>1, <3>3, <3>4, <4>1, SeulAuCalme, SeulEnBascule DEF S!Next
      <4> QED BY <2>1, <3>3, <3>4, <4>2 DEF PartieSuivie
    <3>5. CASE partie # "maj"
      <4>1. Pannes - reste'.pannes <= 0
        BY <2>4, <3>5 DEF Pas, Jusque, Machine
      <4>2. reste.pannes = Pannes /\ ~maj.defaut
        BY <3>1, <3>5 DEF SansPanne
      <4>3. reste'.pannes \in Nat /\ Pannes \in Nat
        BY <3>3, BornesMaj DEF MajSuivie, ResteType, Bornes
      <4>4. reste'.pannes = Pannes
        BY <2>4, <3>1, <4>1, <4>2, <4>3, ResteBaisse
      <4>5. ~S!Depense("pannes")
        BY <3>1, <4>2, <4>3, <4>4, PanneDepensee
      <4>6. ~maj'.defaut
        BY <2>4, <3>1, <4>2, <4>5, DefautNeuf
      <4> QED BY <2>1, <3>3, <3>5, <4>4, <4>6 DEF PartieSuivie, SansPanne
    <3> QED BY <3>4, <3>5
  <2>5. partie \in Machine => UNCHANGED majVars \/ (S!Next /\ Pas)
    BY DEF Pas, tout, Machine
  <2> QED BY <2>2, <2>3, <2>4, <2>5
<1> QED BY <1>1, <1>2, PTL DEF Ensemble, JamaisRetrograde

-----------------------------------------------------------------------------
(* The store.                                                              *)
USE DigestsAssumption, DelaisAssumption

(* No step takes a variable out of its type.                               *)
LEMMA TypeEtape == TypeOK /\ [Next]_vars => TypeOK'
<1> SUFFICES ASSUME TypeOK, [Next]_vars PROVE TypeOK'
  OBVIOUS
<1> USE DEF TypeOK, Heures, Digests
<1>1. ASSUME NEW p \in Publieurs, StartUpload(p) PROVE TypeOK'
  BY <1>1 DEF StartUpload, Recevoir, Requetes, magasin, catalogue
<1>2. ASSUME NEW p \in Publieurs, Ingest(p) PROVE TypeOK'
  BY <1>2 DEF Ingest, Recevoir, Requetes, magasin, catalogue
<1>3. ASSUME NEW p \in Publieurs, Mount(p) PROVE TypeOK'
  BY <1>3 DEF Mount, magasin, catalogue
<1>4. ASSUME NEW p \in Publieurs, AdopterPresent(p) PROVE TypeOK'
  BY <1>4 DEF AdopterPresent, Suite, Requetes, Libre, magasin, catalogue
<1>5. ASSUME NEW p \in Publieurs, Rafraichir(p) PROVE TypeOK'
  BY <1>5 DEF Rafraichir, Suite, Apres, Requetes, Libre, catalogue
<1>6. ASSUME NEW p \in Publieurs, AdopterAbsent(p) PROVE TypeOK'
  BY <1>6 DEF AdopterAbsent, Suite, Apres, Requetes, Libre, catalogue
<1>7. ASSUME NEW p \in Publieurs, MarkPushed(p) PROVE TypeOK'
  BY <1>7 DEF MarkPushed, Requetes, Libre, catalogue, magasin
<1>8. ASSUME NEW p \in Publieurs, PutManifest(p) PROVE TypeOK'
  BY <1>8 DEF PutManifest, Requetes, Libre, catalogue, magasin
<1>9. ASSUME NEW p \in Publieurs, Controler(p) PROVE TypeOK'
  BY <1>9 DEF Controler, Requetes, Libre, catalogue, magasin
<1>10. ASSUME NEW p \in Publieurs, Enregistrer(p) PROVE TypeOK'
  <2>1. /\ pub[p].digest \in Manifestes \cup Paquets
        /\ pub[p].image \in Images
    BY <1>10 DEF Enregistrer, Requetes, Libre
  <2>2. paquets' \subseteq Paquets /\ images' \in [Images -> SUBSET Manifestes]
    BY <1>10, <2>1 DEF Enregistrer
  <2> QED BY <1>10, <2>2 DEF Enregistrer, Requetes, Libre, magasin
<1>11. ASSUME NEW p \in Publieurs, Abandonner(p) PROVE TypeOK'
  BY <1>11 DEF Abandonner, Requetes, Libre, magasin, catalogue
<1>12. ASSUME NEW r \in Ramasseurs, GC(r) PROVE TypeOK'
  <2>1. ReferencedDigests \subseteq Digests
    BY DEF ReferencedDigests, DeLImage
  <2>2. heure - Grace \in Int
    OBVIOUS
  <2> QED BY <1>12, <2>1, <2>2 DEF GC, Passages, Libre, magasin, catalogue
<1>13. ASSUME NEW r \in Ramasseurs, Examiner(r) PROVE TypeOK'
  BY <1>13 DEF Examiner, Passage, Passages, Libre, magasin, catalogue
<1>14. ASSUME NEW r \in Ramasseurs, Oter(r) PROVE TypeOK'
  BY <1>14 DEF Oter, Passage, Passages, Libre, catalogue
<1>15. ASSUME NEW r \in Ramasseurs, CleanupUploads(r) PROVE TypeOK'
  BY <1>15 DEF CleanupUploads, Passages, Requetes, Libre, magasin, catalogue
<1>16. CASE DeletePackage
  BY <1>16 DEF DeletePackage, magasin
<1>17. CASE DeleteManifest
  BY <1>17 DEF DeleteManifest, magasin
<1>18. CASE Arreter
  BY <1>18 DEF Arreter, Requetes, Passages, Libre, magasin, catalogue
<1>19. CASE Tic
  BY <1>19 DEF Tic, magasin, catalogue
<1>20. CASE UNCHANGED vars
  BY <1>20 DEF vars
<1> QED
  BY <1>1, <1>2, <1>3, <1>4, <1>5, <1>6, <1>7, <1>8, <1>9, <1>10, <1>11, <1>12,
     <1>13, <1>14, <1>15, <1>16, <1>17, <1>18, <1>19, <1>20 DEF Next

(* The variables keep their types, whatever the instance allows: content   *)
(* sent again, late metadata, any number of collectors.                    *)
THEOREM TypeCorrect == Spec => []TypeOK
<1>1. Init => TypeOK
  BY DEF Init, TypeOK, Digests, Heures, Requetes, Passages
<1> QED BY <1>1, TypeEtape, PTL DEF Spec

-----------------------------------------------------------------------------
(* What is referenced are digests, and they have an age.                   *)
LEMMA ReferencesTypees ==
  ASSUME TypeOK
  PROVE  /\ ReferencedDigests \subseteq Digests
         /\ \A d \in Digests : mtime[d] \in Nat
         /\ heure \in Nat
BY DEF TypeOK, ReferencedDigests, DeLImage, Digests, Heures

(* A step that leaves the clock, the files and the catalogue alone keeps   *)
(* the parts of the invariant of the requests and walks it does not move.  *)
LEMMA Calme ==
  ASSUME Surete, UNCHANGED <<heure, blobs, mtime, images, paquets>>
  PROVE  /\ ReferencePresente'
         /\ ReferencedDigests' = ReferencedDigests
         /\ \A d : Gardee(d)' <=> Gardee(d)
         /\ \A q \in Publieurs : pub'[q] = pub[q] => RequeteGardee(q)'
         /\ \A r \in Ramasseurs : gc'[r] = gc[r]
              /\ (gc[r].pc = "oter" => \A d \in gc[r].victime : ~EnReprise(d)')
              => PassageJuste(r)'
<1>1. ReferencedDigests' = ReferencedDigests
  BY DEF ReferencedDigests, DeLImage
<1>2. \A d : Gardee(d)' <=> Gardee(d)
  BY DEF Gardee
<1>3. ASSUME NEW q \in Publieurs, pub'[q] = pub[q] PROVE RequeteGardee(q)'
  BY <1>2, <1>3 DEF Surete, RequeteGardee
<1>4. ASSUME NEW r \in Ramasseurs, gc'[r] = gc[r],
             gc[r].pc = "oter" => \A d \in gc[r].victime : ~EnReprise(d)'
      PROVE  PassageJuste(r)'
  <2>1. PassageJuste(r)
    BY DEF Surete
  <2> QED BY <1>1, <1>4, <2>1 DEF PassageJuste
<1> QED BY <1>1, <1>2, <1>3, <1>4 DEF Surete, ReferencePresente

(* A request that stores or refreshes nothing now: only its own part of    *)
(* the invariant is left to show.                                          *)
LEMMA RequeteSeule ==
  ASSUME Surete, TypeOK', NEW p \in Publieurs,
         \A q \in Publieurs : q # p => pub'[q] = pub[q],
         pub'[p].pc # "rafraichir",
         UNCHANGED <<heure, blobs, mtime, images, paquets, gc>>,
         RequeteGardee(p)'
  PROVE  Surete'
<1>3. \A d : EnReprise(d)' => EnReprise(d)
  BY DEF EnReprise
<1>4. \A r \in Ramasseurs : PassageJuste(r)'
  BY <1>3, Calme DEF Surete, PassageJuste
<1>5. \A q \in Publieurs : RequeteGardee(q)'
  BY Calme
<1> QED BY <1>4, <1>5, Calme DEF Surete

-----------------------------------------------------------------------------
(* The steps of one request that touch no file and no metadata.            *)
LEMMA EtapeDeRequete ==
  ASSUME Surete, TypeOK', NEW p \in Publieurs,
         StartUpload(p) \/ Ingest(p) \/ Mount(p) \/ MarkPushed(p)
         \/ PutManifest(p) \/ Abandonner(p)
  PROVE  Surete'
<1> USE DEF magasin, catalogue
<1> pub \in [Publieurs -> Requetes]
  BY DEF Surete, TypeOK
<1>1. CASE StartUpload(p)
  <2> PICK i \in Images, d \in Couches : Recevoir(p, d, i)
    BY <1>1 DEF StartUpload
  <2> DEFINE s == [pc |-> "adopter", digest |-> d, image |-> i, ecrit |-> heure]
  <2>1. pub' = [pub EXCEPT ![p] = s] /\ pub'[p] = s
    BY DEF Recevoir
  <2>2. RequeteGardee(p)'
    BY <2>1, DigestsAssumption DEF RequeteGardee
  <2> QED BY <1>1, <2>1, <2>2, RequeteSeule DEF StartUpload
<1>2. CASE Ingest(p)
  <2> PICK i \in Images, d \in Paquets : Recevoir(p, d, i)
    BY <1>2 DEF Ingest
  <2> DEFINE s == [pc |-> "adopter", digest |-> d, image |-> i, ecrit |-> heure]
  <2>1. pub' = [pub EXCEPT ![p] = s] /\ pub'[p] = s
    BY DEF Recevoir
  <2>2. RequeteGardee(p)'
    BY <2>1, DigestsAssumption DEF RequeteGardee
  <2> QED BY <1>2, <2>1, <2>2, RequeteSeule DEF Ingest
<1>3. CASE Mount(p)
  <2>1. pub' = [pub EXCEPT ![p] = Libre] /\ pub'[p] = Libre
    BY <1>3 DEF Mount
  <2>2. RequeteGardee(p)'
    BY <2>1 DEF RequeteGardee, Libre
  <2> QED BY <1>3, <2>1, <2>2, RequeteSeule DEF Mount, Libre
<1>4. CASE MarkPushed(p) \/ Abandonner(p)
  <2>1. pub' = [pub EXCEPT ![p] = Libre] /\ pub'[p] = Libre
    BY <1>4 DEF MarkPushed, Abandonner
  <2>2. RequeteGardee(p)'
    BY <2>1 DEF RequeteGardee, Libre
  <2> QED BY <1>4, <2>1, <2>2, RequeteSeule DEF MarkPushed, Abandonner, Libre
<1>5. CASE PutManifest(p)
  <2> PICK i \in Images, m \in Manifestes :
        pub' = [pub EXCEPT ![p] =
                 [pc |-> "controler", digest |-> m, image |-> i, reste |-> Refs[m]]]
    BY <1>5 DEF PutManifest
  <2> DEFINE s == [pc |-> "controler", digest |-> m, image |-> i, reste |-> Refs[m]]
  <2>1. pub' = [pub EXCEPT ![p] = s] /\ pub'[p] = s
    OBVIOUS
  <2>2. RequeteGardee(p)'
    BY <2>1 DEF RequeteGardee
  <2> QED BY <1>5, <2>1, <2>2, RequeteSeule DEF PutManifest
<1> QED BY <1>1, <1>2, <1>3, <1>4, <1>5

(* The look-up of the layers: each one found is on the disk at that moment. *)
LEMMA EtapeControler ==
  ASSUME Surete, TypeOK', NEW p \in Publieurs, Controler(p)
  PROVE  Surete'
<1> USE DEF magasin, catalogue
<1> pub \in [Publieurs -> Requetes]
  BY DEF Surete, TypeOK
<1> DEFINE r == pub[p]
<1>1. /\ r.pc = "controler"
      /\ \A c \in Refs[r.digest] \ r.reste : Gardee(c)
  BY DEF Controler, Surete, RequeteGardee
<1>2. ASSUME NEW c \in r.reste, ~CoucheServie(r.image, c),
             pub' = [pub EXCEPT ![p] = Libre]
      PROVE  Surete'
  <2>1. RequeteGardee(p)'
    BY <1>2 DEF RequeteGardee, Libre
  <2> QED BY <1>2, <2>1, RequeteSeule DEF Controler, Libre
<1>3. ASSUME NEW c \in r.reste, CoucheServie(r.image, c),
             pub' = [pub EXCEPT ![p] =
                      [pc |-> "controler", digest |-> r.digest,
                       image |-> r.image, reste |-> r.reste \ {c}]]
      PROVE  Surete'
  <2> DEFINE s == [pc |-> "controler", digest |-> r.digest,
                   image |-> r.image, reste |-> r.reste \ {c}]
  <2>1. pub'[p] = s
    BY <1>3
  <2>2. Gardee(c)
    BY <1>3 DEF CoucheServie, Gardee
  <2>3. \A x : Gardee(x)' <=> Gardee(x)
    BY DEF Controler, Gardee
  <2>4. RequeteGardee(p)'
    BY <1>1, <2>1, <2>2, <2>3 DEF RequeteGardee
  <2> QED BY <1>3, <2>4, RequeteSeule DEF Controler
<1>4. ASSUME r.reste = {},
             pub' = [pub EXCEPT ![p] = [pc |-> "adopter", digest |-> r.digest,
                                        image |-> r.image, ecrit |-> heure]]
      PROVE  Surete'
  <2> DEFINE s == [pc |-> "adopter", digest |-> r.digest,
                   image |-> r.image, ecrit |-> heure]
  <2>1. pub'[p] = s
    BY <1>4
  <2>3. \A x : Gardee(x)' <=> Gardee(x)
    BY DEF Controler, Gardee
  <2>4. RequeteGardee(p)'
    BY <1>1, <1>4, <2>1, <2>3 DEF RequeteGardee
  <2> QED BY <1>4, <2>4, RequeteSeule DEF Controler
<1> QED BY <1>2, <1>3, <1>4 DEF Controler

(* The stat that finds the content: no collector has condemned it.         *)
LEMMA EtapeAdopterPresent ==
  ASSUME Aleas = {}, Surete, TypeOK', NEW p \in Publieurs, AdopterPresent(p)
  PROVE  Surete'
<1> USE DEF magasin, catalogue
<1> pub \in [Publieurs -> Requetes]
  BY DEF Surete, TypeOK
<1> DEFINE d == pub[p].digest
           s == [pc |-> "rafraichir", digest |-> d, image |-> pub[p].image]
<1>1. pub' = [pub EXCEPT ![p] = s] /\ pub'[p] = s /\ d \in blobs /\ ~Condamne(d)
  BY DEF AdopterPresent, Suite
<1>2. \A x : EnReprise(x)' => EnReprise(x) \/ x = d
  BY <1>1 DEF EnReprise
<1>3. ASSUME NEW r \in Ramasseurs PROVE PassageJuste(r)'
  <2>1. gc[r].pc = "oter" => \A x \in gc[r].victime : ~EnReprise(x)'
    BY <1>1, <1>2 DEF Condamne, Surete, PassageJuste
  <2> QED BY <2>1, Calme DEF AdopterPresent
<1>4. RequeteGardee(p)'
  <2>1. pub[p].pc = "adopter" /\ RequeteGardee(p)
    BY DEF AdopterPresent, Surete
  <2>2. \A x : Gardee(x)' <=> Gardee(x)
    BY DEF AdopterPresent, Gardee
  <2>3. blobs' = blobs
    BY DEF AdopterPresent
  <2> QED BY <1>1, <2>1, <2>2, <2>3 DEF RequeteGardee
<1>5. \A q \in Publieurs : RequeteGardee(q)'
  BY <1>1, <1>4, Calme DEF AdopterPresent
<1> QED BY <1>3, <1>5, Calme DEF Surete, AdopterPresent

(* The refresh: the file is still there, and it only gets younger.         *)
LEMMA EtapeRafraichir ==
  ASSUME Surete, TypeOK', NEW p \in Publieurs, Rafraichir(p)
  PROVE  Surete'
<1> USE DEF magasin, catalogue
<1> pub \in [Publieurs -> Requetes] /\ heure \in Nat /\ mtime \in [Digests -> Heures]
  BY DEF Surete, TypeOK, Heures
<1> DEFINE d == pub[p].digest
           s == [pc |-> Apres(d), digest |-> d, image |-> pub[p].image]
<1>1. /\ pub' = [pub EXCEPT ![p] = s] /\ pub'[p] = s
      /\ d \in blobs /\ d \in Digests /\ mtime' = [mtime EXCEPT ![d] = heure]
      /\ UNCHANGED <<heure, blobs, images, paquets, gc>>
  BY DEF Rafraichir, Suite, Surete, RequeteGardee, TypeOK
<1>2. EnReprise(d)
  BY DEF EnReprise, Rafraichir
<1>3. \A x : EnReprise(x)' => EnReprise(x)
  BY <1>1 DEF EnReprise, Apres
<1>4. \A x \in Digests : Gardee(x) => Gardee(x)'
  BY <1>1 DEF Gardee
<1>5. ReferencedDigests' = ReferencedDigests /\ ReferencedDigests \subseteq Digests
  BY <1>1, ReferencesTypees DEF ReferencedDigests, DeLImage, Surete
<1>6. ASSUME NEW q \in Publieurs PROVE RequeteGardee(q)'
  <2>1. RequeteGardee(q) /\ RequeteGardee(p) /\ pub[p].pc = "rafraichir"
    BY DEF Surete, Rafraichir
  <2>2. \A m \in Manifestes : Refs[m] \subseteq Digests
    BY DigestsAssumption DEF Digests
  <2>3. CASE q = p
    BY <1>1, <1>4, <2>1, <2>2, <2>3, DigestsAssumption DEF RequeteGardee, Apres, Gardee, Digests
  <2>4. CASE q # p
    <3>1. pub'[q] = pub[q] /\ pub[q] \in Requetes
      BY <1>1, <2>4
    <3>2. pub[q].pc \in {"marquer", "enregistrer", "controler"} => pub[q].digest \in Digests
      BY <3>1 DEF Requetes, Libre, Digests
    <3>3. pub[q].pc = "controler" => pub[q].digest \in Manifestes
      BY <3>1 DEF Requetes, Libre
    <3> QED BY <1>1, <1>4, <2>1, <2>2, <3>1, <3>2, <3>3 DEF RequeteGardee
  <2> QED BY <2>3, <2>4
<1>7. ASSUME NEW r \in Ramasseurs PROVE PassageJuste(r)'
  <2>1. PassageJuste(r) /\ gc[r] \in Passages
    BY DEF Surete, TypeOK
  <2>2. gc[r].pc \in {"marche", "oter"} => gc[r].seuil \in Int /\ gc[r].victime \subseteq Digests
    BY <2>1 DEF Passages, Libre
  <2> QED BY <1>1, <1>2, <1>3, <1>5, <2>1, <2>2, DelaisAssumption DEF PassageJuste
<1> QED BY <1>1, <1>5, <1>6, <1>7 DEF Surete, ReferencePresente

(* The rename: the content was absent, hence referenced by nothing.        *)
LEMMA EtapeAdopterAbsent ==
  ASSUME Aleas = {}, Surete, TypeOK', NEW p \in Publieurs, AdopterAbsent(p)
  PROVE  Surete'
<1> USE DEF magasin, catalogue
<1> pub \in [Publieurs -> Requetes] /\ heure \in Nat /\ mtime \in [Digests -> Heures]
  BY DEF Surete, TypeOK, Heures
<1> DEFINE d == pub[p].digest
           s == [pc |-> Apres(d), digest |-> d, image |-> pub[p].image]
<1>1. /\ pub' = [pub EXCEPT ![p] = s] /\ pub'[p] = s
      /\ d \notin blobs /\ blobs' = blobs \cup {d} /\ ~Condamne(d)
      /\ mtime' = [mtime EXCEPT ![d] = pub[p].ecrit]
      /\ UNCHANGED <<heure, images, paquets, gc>>
  BY DEF AdopterAbsent, Suite
<1>2. d \notin ReferencedDigests
  BY <1>1 DEF Surete, ReferencePresente
<1>3. \A x : EnReprise(x)' => EnReprise(x)
  BY <1>1 DEF EnReprise, Apres
<1>4. \A x \in Digests : Gardee(x) => Gardee(x)'
  BY <1>1 DEF Gardee
<1>5. ReferencedDigests' = ReferencedDigests /\ ReferencedDigests \subseteq Digests
  BY <1>1, ReferencesTypees DEF ReferencedDigests, DeLImage, Surete
<1>6. ASSUME NEW q \in Publieurs PROVE RequeteGardee(q)'
  <2>1. RequeteGardee(q) /\ RequeteGardee(p) /\ pub[p].pc = "adopter"
    BY DEF Surete, AdopterAbsent
  <2>2. \A m \in Manifestes : Refs[m] \subseteq Digests
    BY DigestsAssumption DEF Digests
  <2>3. CASE q = p
    BY <1>1, <1>4, <2>1, <2>2, <2>3, DigestsAssumption DEF RequeteGardee, Apres, Gardee, Digests
  <2>4. CASE q # p
    <3>1. pub'[q] = pub[q] /\ pub[q] \in Requetes
      BY <1>1, <2>4
    <3>2. pub[q].pc \in {"marquer", "enregistrer", "controler"} => pub[q].digest \in Digests
      BY <3>1 DEF Requetes, Libre, Digests
    <3>3. pub[q].pc = "controler" => pub[q].digest \in Manifestes
      BY <3>1 DEF Requetes, Libre
    <3> QED BY <1>1, <1>4, <2>1, <2>2, <3>1, <3>2, <3>3 DEF RequeteGardee
  <2> QED BY <2>3, <2>4
<1>7. ASSUME NEW r \in Ramasseurs PROVE PassageJuste(r)'
  <2>1. PassageJuste(r) /\ gc[r] \in Passages
    BY DEF Surete, TypeOK
  <2>2. gc[r].pc \in {"marche", "oter"} => gc[r].victime \subseteq Digests
    BY <2>1 DEF Passages, Libre
  <2>3. gc[r].pc = "oter" => d \notin gc[r].victime
    BY <1>1 DEF Condamne
  <2>4. \A x \in Digests : x # d => mtime'[x] = mtime[x]
    BY <1>1
  <2> QED BY <1>1, <1>2, <1>3, <1>5, <2>1, <2>2, <2>3, <2>4 DEF PassageJuste
<1> QED BY <1>1, <1>5, <1>6, <1>7 DEF Surete, ReferencePresente

(* A publication within the grace period references what is already        *)
(* referenced or what is young: neither is a prey of a walk under way.     *)
LEMMA EtapeEnregistrer ==
  ASSUME Aleas = {}, Surete, TypeOK', NEW p \in Publieurs, Enregistrer(p)
  PROVE  Surete'
<1> USE DEF magasin
<1> pub \in [Publieurs -> Requetes] /\ heure \in Nat /\ mtime \in [Digests -> Heures]
    /\ images \in [Images -> SUBSET Manifestes]
  BY DEF Surete, TypeOK, Heures
<1> DEFINE d == pub[p].digest
           D == {d} \cup IF d \in Manifestes THEN Refs[d] ELSE {}
<1>1. /\ pub[p].pc = "enregistrer" /\ pub'[p] = Libre
      /\ \A q \in Publieurs : q # p => pub'[q] = pub[q]
      /\ UNCHANGED <<heure, blobs, mtime, gc>>
  BY DEF Enregistrer
<1>2. d \in Manifestes \cup Paquets /\ pub[p].image \in Images
  BY <1>1 DEF Requetes, Libre
<1>3. D \subseteq Digests
  BY <1>2, DigestsAssumption DEF Digests
<1>4. \A x \in D : Gardee(x)
  BY <1>1 DEF Surete, RequeteGardee
<1>5. \A x \in D : x \in ReferencedDigests \/ mtime[x] + Grace > heure
  BY DEF Enregistrer, EnTemps
<1>6. D \subseteq blobs
  <2> SUFFICES ASSUME NEW x \in D PROVE x \in blobs
    OBVIOUS
  <2>1. mtime[x] \in Nat
    BY <1>3 DEF Heures
  <2> QED BY <1>4, <1>5, <2>1, DelaisAssumption DEF Gardee, Surete, ReferencePresente
<1>7. ReferencedDigests' \subseteq ReferencedDigests \cup D
  <2>1. CASE d \in Paquets
    BY <2>1 DEF Enregistrer, ReferencedDigests, DeLImage
  <2>2. CASE d \notin Paquets
    <3>1. d \in Manifestes
      BY <1>2, <2>2
    <3>2. paquets' = paquets /\ images' = [images EXCEPT ![pub[p].image] = @ \cup {d}]
      BY <2>2 DEF Enregistrer
    <3>3. ASSUME NEW i \in Images PROVE DeLImage(i)' \subseteq DeLImage(i) \cup D
      <4>1. images'[i] \subseteq images[i] \cup {d}
        BY <3>2
      <4> QED BY <3>1, <4>1 DEF DeLImage
    <3> QED BY <3>2, <3>3 DEF ReferencedDigests
  <2> QED BY <2>1, <2>2
<1>8. ReferencePresente'
  BY <1>1, <1>6, <1>7 DEF ReferencePresente, Surete
<1>9. \A x : Gardee(x)' <=> Gardee(x)
  BY <1>1 DEF Gardee
<1>10. ASSUME NEW q \in Publieurs PROVE RequeteGardee(q)'
  <2>1. RequeteGardee(q)
    BY DEF Surete
  <2> QED BY <1>1, <1>9, <2>1 DEF RequeteGardee, Libre
<1>11. ASSUME NEW r \in Ramasseurs PROVE PassageJuste(r)'
  <2>1. PassageJuste(r) /\ gc[r] \in Passages
    BY DEF Surete, TypeOK
  <2>2. \A x : EnReprise(x)' => EnReprise(x)
    BY <1>1 DEF EnReprise, Libre
  <2>3. ASSUME gc[r].pc \in {"marche", "oter"}, NEW x \in D, x \notin gc[r].refs
        PROVE  mtime[x] > gc[r].seuil
    <3>1. mtime[x] \in Nat /\ gc[r].seuil \in Int
      BY <1>3, <2>1, <2>3 DEF Passages, Libre, Heures
    <3> QED BY <1>5, <2>1, <2>3, <3>1, DelaisAssumption DEF PassageJuste
  <2> QED BY <1>1, <1>7, <2>1, <2>2, <2>3 DEF PassageJuste
<1> QED BY <1>8, <1>10, <1>11 DEF Surete

(* A deletion only shrinks what is referenced.                             *)
LEMMA EtapeSuppression ==
  ASSUME Surete, TypeOK', DeletePackage \/ DeleteManifest
  PROVE  Surete'
<1> USE DEF magasin
<1>1. UNCHANGED <<heure, blobs, mtime, pub, gc>>
  BY DEF DeletePackage, DeleteManifest
<1>2. ReferencedDigests' \subseteq ReferencedDigests
  <2>1. CASE DeletePackage
    BY <2>1 DEF DeletePackage, ReferencedDigests, DeLImage
  <2>2. CASE DeleteManifest
    <3>1. PICK i \in Images : \E m \in images[i] : images' = [images EXCEPT ![i] = @ \ {m}]
      BY <2>2 DEF DeleteManifest
    <3>2. images \in [Images -> SUBSET Manifestes]
      BY DEF Surete, TypeOK
    <3>3. \A j \in Images : images'[j] \subseteq images[j]
      BY <3>1, <3>2
    <3>4. paquets' = paquets
      BY <2>2 DEF DeleteManifest
    <3> QED BY <3>3, <3>4 DEF ReferencedDigests, DeLImage
  <2> QED BY <2>1, <2>2
<1>3. \A q \in Publieurs : RequeteGardee(q)'
  BY <1>1 DEF Surete, RequeteGardee, Gardee
<1>4. \A r \in Ramasseurs : PassageJuste(r)'
  BY <1>1, <1>2 DEF Surete, PassageJuste, EnReprise
<1> QED BY <1>1, <1>2, <1>3, <1>4 DEF Surete, ReferencePresente

-----------------------------------------------------------------------------
(* The walks: a collector that begins knows everything that is referenced. *)
LEMMA EtapeGC ==
  ASSUME Surete, TypeOK', NEW r \in Ramasseurs, GC(r)
  PROVE  Surete'
<1> USE DEF magasin, catalogue
<1> gc \in [Ramasseurs -> Passages] /\ heure \in Nat
  BY DEF Surete, TypeOK, Heures
<1>1. /\ gc'[r].pc = "marche" /\ gc'[r].refs = ReferencedDigests
      /\ gc'[r].seuil = heure - Grace
      /\ \A q \in Ramasseurs : q # r => gc'[q] = gc[q]
      /\ UNCHANGED <<heure, blobs, mtime, images, paquets, pub>>
  BY DEF GC
<1>2. PassageJuste(r)'
  BY <1>1, Calme, DelaisAssumption DEF PassageJuste
<1>3. \A q \in Ramasseurs : q # r => PassageJuste(q)'
  <2>1. \A x : EnReprise(x)' <=> EnReprise(x)
    BY <1>1 DEF EnReprise
  <2> QED BY <1>1, <2>1, Calme DEF Surete, PassageJuste
<1> QED BY <1>1, <1>2, <1>3, Calme DEF Surete

(* What it condemns is older than its cutoff, known to no list, and in     *)
(* nobody's hands.                                                         *)
LEMMA EtapeExaminer ==
  ASSUME Aleas = {}, Surete, TypeOK', NEW r \in Ramasseurs, Examiner(r)
  PROVE  Surete'
<1> USE DEF magasin, catalogue
<1> gc \in [Ramasseurs -> Passages] /\ blobs \subseteq Digests /\ mtime \in [Digests -> Heures]
  BY DEF Surete, TypeOK
<1> DEFINE g == gc[r]
<1>1. PICK d \in g.reste :
        /\ ~EnReprise(d)
        /\ gc' = [gc EXCEPT ![r] =
             IF Epargne(g, d) \/ g.simule THEN Passage(g, "marche", g.reste \ {d}, {})
             ELSE Passage(g, "oter", g.reste \ {d}, {d})]
  BY DEF Examiner
<1>2. g.pc = "marche" /\ UNCHANGED <<heure, blobs, mtime, images, paquets, pub>>
  BY DEF Examiner
<1>3. \A x : EnReprise(x)' <=> EnReprise(x)
  BY <1>2 DEF EnReprise
<1>4. /\ gc'[r].refs = g.refs /\ gc'[r].seuil = g.seuil
      /\ gc'[r].pc = "oter" => gc'[r].victime = {d} /\ ~Epargne(g, d)
  BY <1>1 DEF Passage
<1>5. PassageJuste(r)'
  <2>1. PassageJuste(r)
    BY DEF Surete
  <2>2. gc'[r].pc = "oter" => mtime[d] <= g.seuil /\ d \notin g.refs
    <3>1. g.seuil \in Int
      BY <1>2 DEF Passages, Libre
    <3> QED BY <1>4, <3>1 DEF Epargne, Jeune, Heures
  <2> QED BY <1>1, <1>2, <1>3, <1>4, <2>1, <2>2, Calme DEF PassageJuste
<1>6. \A q \in Ramasseurs : q # r => PassageJuste(q)'
  <2>1. \A q \in Ramasseurs : q # r => gc'[q] = gc[q]
    BY <1>1
  <2> QED BY <1>2, <1>3, <2>1, Calme DEF Surete, PassageJuste
<1> QED BY <1>2, <1>5, <1>6, Calme DEF Surete

(* The removal: the victim is referenced by nothing and too old to be.     *)
LEMMA EtapeOter ==
  ASSUME Surete, TypeOK', NEW r \in Ramasseurs, Oter(r)
  PROVE  Surete'
<1> USE DEF catalogue
<1> gc \in [Ramasseurs -> Passages] /\ mtime \in [Digests -> Heures] /\ heure \in Nat
    /\ pub \in [Publieurs -> Requetes]
  BY DEF Surete, TypeOK, Heures
<1> DEFINE g == gc[r]
<1>1. /\ g.pc = "oter" /\ blobs' = blobs \ g.victime
      /\ UNCHANGED <<heure, mtime, images, paquets, pub>>
      /\ \A q \in Ramasseurs : q # r => gc'[q] = gc[q]
  BY DEF Oter
<1>2. PassageJuste(r) /\ g.seuil \in Int /\ g.victime \subseteq Digests
  BY <1>1 DEF Surete, Passages, Libre
<1>3. ReferencedDigests' = ReferencedDigests /\ ReferencedDigests \subseteq Digests
  BY <1>1, ReferencesTypees DEF ReferencedDigests, DeLImage, Surete
<1>4. ASSUME NEW x \in g.victime
      PROVE  x \notin ReferencedDigests /\ mtime[x] + Grace <= heure /\ ~EnReprise(x)
  <2>1. mtime[x] \in Nat
    BY <1>2 DEF Heures
  <2> QED BY <1>1, <1>2, <2>1, DelaisAssumption DEF PassageJuste
<1>5. ReferencePresente'
  BY <1>1, <1>3, <1>4 DEF Surete, ReferencePresente
<1>6. \A x : Gardee(x) => Gardee(x)'
  BY <1>1, <1>4 DEF Gardee
<1>7. ASSUME NEW q \in Publieurs PROVE RequeteGardee(q)'
  <2>1. RequeteGardee(q) /\ pub'[q] = pub[q]
    BY <1>1 DEF Surete
  <2>2. pub[q].pc = "rafraichir" => EnReprise(pub[q].digest)
    BY DEF EnReprise
  <2> QED BY <1>1, <1>4, <1>6, <2>1, <2>2 DEF RequeteGardee
<1>8. \A x : EnReprise(x)' <=> EnReprise(x)
  BY <1>1 DEF EnReprise
<1>9. PassageJuste(r)'
  <2>1. gc'[r] = IF g.victime \subseteq blobs
                 THEN Passage(g, "marche", g.reste, {}) ELSE Libre
    BY DEF Oter
  <2> QED BY <1>1, <1>2, <1>3, <2>1 DEF Passage, PassageJuste, Libre
<1>10. \A q \in Ramasseurs : q # r => PassageJuste(q)'
  BY <1>1, <1>3, <1>8 DEF Surete, PassageJuste
<1> QED BY <1>5, <1>7, <1>9, <1>10 DEF Surete

(* The end of a walk, and a stop, only drop requests and walks.            *)
LEMMA EtapeFin ==
  ASSUME Surete, TypeOK', (\E r \in Ramasseurs : CleanupUploads(r)) \/ Arreter
  PROVE  Surete'
<1> USE DEF magasin, catalogue
<1> gc \in [Ramasseurs -> Passages] /\ pub \in [Publieurs -> Requetes]
  BY DEF Surete, TypeOK
<1>1. /\ \A q \in Publieurs : pub'[q] \in {pub[q], Libre}
      /\ \A r \in Ramasseurs : gc'[r] \in {gc[r], Libre}
      /\ UNCHANGED <<heure, blobs, mtime, images, paquets>>
  <2>1. CASE Arreter
    BY <2>1 DEF Arreter
  <2>2. ASSUME NEW r \in Ramasseurs, CleanupUploads(r)
        PROVE  /\ \A q \in Publieurs : pub'[q] \in {pub[q], Libre}
               /\ \A s \in Ramasseurs : gc'[s] \in {gc[s], Libre}
               /\ UNCHANGED <<heure, blobs, mtime, images, paquets>>
    BY <2>2 DEF CleanupUploads
  <2> QED BY <2>1, <2>2
<1>2. \A x : EnReprise(x)' => EnReprise(x)
  BY <1>1 DEF EnReprise, Libre
<1>3. \A q \in Publieurs : RequeteGardee(q)'
  <2>1. \A q \in Publieurs : pub'[q] = Libre => RequeteGardee(q)'
    BY DEF RequeteGardee, Libre
  <2> QED BY <1>1, <2>1, Calme
<1>4. \A r \in Ramasseurs : PassageJuste(r)'
  <2>1. \A r \in Ramasseurs : gc'[r] = Libre => PassageJuste(r)'
    BY DEF PassageJuste, Libre
  <2> QED BY <1>1, <1>2, <2>1, Calme DEF Surete, PassageJuste
<1> QED BY <1>1, <1>3, <1>4, Calme DEF Surete

(* Time only makes files older.                                            *)
LEMMA EtapeTic == ASSUME Surete, TypeOK', Tic PROVE Surete'
<1> USE DEF magasin, catalogue
<1>1. heure' = heure + 1 /\ UNCHANGED <<blobs, mtime, images, paquets, marque, pub, gc>>
  BY DEF Tic
<1>2. heure \in Nat /\ mtime \in [Digests -> Nat] /\ gc \in [Ramasseurs -> Passages]
      /\ pub \in [Publieurs -> Requetes]
  BY DEF Surete, TypeOK, Heures
<1>3. ReferencedDigests' = ReferencedDigests /\ \A x : EnReprise(x)' <=> EnReprise(x)
  BY <1>1 DEF ReferencedDigests, DeLImage, EnReprise
<1>4. \A x \in Digests : Gardee(x) => Gardee(x)'
  BY <1>1, <1>2, DelaisAssumption DEF Gardee
<1>5. ASSUME NEW q \in Publieurs PROVE RequeteGardee(q)'
  <2>1. RequeteGardee(q) /\ pub'[q] = pub[q] /\ pub[q] \in Requetes
    BY <1>1, <1>2 DEF Surete
  <2>2. \A m \in Manifestes : Refs[m] \subseteq Digests
    BY DigestsAssumption DEF Digests
  <2>3. pub[q].pc \in {"marquer", "enregistrer"} => pub[q].digest \in Digests
    BY <2>1 DEF Requetes, Libre, Digests
  <2>4. pub[q].pc = "controler" => pub[q].digest \in Manifestes
    BY <2>1 DEF Requetes, Libre
  <2> QED BY <1>1, <1>4, <2>1, <2>2, <2>3, <2>4 DEF RequeteGardee
<1>6. ASSUME NEW r \in Ramasseurs PROVE PassageJuste(r)'
  <2>1. PassageJuste(r) /\ gc'[r] = gc[r]
    BY <1>1 DEF Surete
  <2>2. gc[r].pc \in {"marche", "oter"} => gc[r].seuil \in Int
    BY <1>2 DEF Passages, Libre
  <2> QED BY <1>1, <1>2, <1>3, <2>1, <2>2, DelaisAssumption DEF PassageJuste
<1> QED BY <1>1, <1>3, <1>5, <1>6 DEF Surete, ReferencePresente

-----------------------------------------------------------------------------
(* The strengthened invariant: a request keeps what it is about to         *)
(* reference, a walk condemns nothing that may still be referenced.        *)
LEMMA SureteTenue ==
  ASSUME Aleas = {}
  PROVE  Spec => []Surete
<1>1. Init => Surete
  <2> SUFFICES ASSUME Init PROVE Surete
    OBVIOUS
  <2>1. TypeOK
    BY DEF Init, TypeOK, Digests, Heures, Requetes, Passages
  <2>2. ReferencePresente
    BY DEF Init, ReferencePresente, ReferencedDigests, DeLImage
  <2>3. \A p \in Publieurs : RequeteGardee(p)
    BY DEF Init, RequeteGardee, Libre
  <2>4. \A r \in Ramasseurs : PassageJuste(r)
    BY DEF Init, PassageJuste, Libre
  <2> QED BY <2>1, <2>2, <2>3, <2>4 DEF Surete
<1>2. Surete /\ [Next]_vars => Surete'
  <2> SUFFICES ASSUME Surete, [Next]_vars PROVE Surete'
    OBVIOUS
  <2>1. TypeOK'
    BY TypeEtape DEF Surete
  <2>2. ASSUME NEW p \in Publieurs,
               \/ StartUpload(p) \/ Ingest(p) \/ Mount(p) \/ MarkPushed(p)
               \/ PutManifest(p) \/ Abandonner(p)
        PROVE  Surete'
    BY <2>1, <2>2, EtapeDeRequete
  <2>3. ASSUME NEW p \in Publieurs,
               \/ Controler(p) \/ AdopterPresent(p) \/ Rafraichir(p)
               \/ AdopterAbsent(p) \/ Enregistrer(p)
        PROVE  Surete'
    BY <2>1, <2>3, EtapeControler, EtapeAdopterPresent, EtapeRafraichir,
       EtapeAdopterAbsent, EtapeEnregistrer
  <2>4. ASSUME NEW r \in Ramasseurs, GC(r) \/ Examiner(r) \/ Oter(r) \/ CleanupUploads(r)
        PROVE  Surete'
    BY <2>1, <2>4, EtapeGC, EtapeExaminer, EtapeOter, EtapeFin
  <2>5. CASE DeletePackage \/ DeleteManifest
    BY <2>1, <2>5, EtapeSuppression
  <2>6. CASE Arreter
    BY <2>1, <2>6, EtapeFin
  <2>7. CASE Tic
    BY <2>1, <2>7, EtapeTic
  <2>8. CASE UNCHANGED vars
    BY <2>8 DEF vars, Surete, TypeOK, ReferencePresente, ReferencedDigests, DeLImage,
                RequeteGardee, Gardee, PassageJuste, EnReprise
  <2> QED BY <2>2, <2>3, <2>4, <2>5, <2>6, <2>7, <2>8 DEF Next
<1> QED BY <1>1, <1>2, PTL DEF Spec

(* When publications stay within the grace period and no content is sent   *)
(* again while it is being removed, everything the catalogue references is *)
(* on the disk, for any number of publishers and of collectors at once.    *)
THEOREM ReferenceCorrecte ==
  ASSUME Aleas = {}
  PROVE  Spec => []ReferencePresente
<1>1. Surete => ReferencePresente
  BY DEF Surete
<1> QED BY <1>1, SureteTenue, PTL

(* Under the same conditions a collector removes nothing that anything     *)
(* references at the moment of the removal, whenever it took its list.     *)
THEOREM RetraitCorrect ==
  ASSUME Aleas = {}
  PROVE  Spec => RienDeReferenceNEstOte
<1> DEFINE A == \A d \in Digests : d \in blobs /\ d \notin blobs' => d \notin ReferencedDigests
<1>1. Surete /\ [Next]_vars => [A]_vars
  <2> SUFFICES ASSUME Surete, [Next]_vars, NEW d \in Digests, d \in blobs, d \notin blobs'
               PROVE  d \notin ReferencedDigests
    OBVIOUS
  <2>1. PICK r \in Ramasseurs : Oter(r)
    BY DEF Next, vars, magasin, StartUpload, Recevoir, Ingest, Mount, AdopterPresent,
           Rafraichir, AdopterAbsent, MarkPushed, PutManifest, Controler, Enregistrer,
           Abandonner, GC, Examiner, CleanupUploads, DeletePackage, DeleteManifest,
           Arreter, Tic
  <2>2. d \in gc[r].victime /\ gc[r].pc = "oter"
    BY <2>1 DEF Oter
  <2>3. gc[r].seuil \in Int /\ mtime[d] \in Nat /\ PassageJuste(r)
    BY <2>2 DEF Surete, TypeOK, Passages, Libre, Heures
  <2> QED BY <2>2, <2>3 DEF PassageJuste
<1> QED BY <1>1, SureteTenue, PTL DEF RienDeReferenceNEstOte, Spec
=============================================================================
