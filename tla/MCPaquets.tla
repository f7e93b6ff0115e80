----------------------------- MODULE MCPaquets ------------------------------
(***************************************************************************)
(* What the Nexus stores and what the agents take from it: the blobs of    *)
(* the container registry and of the package shelf while collectors run    *)
(* (NexusBlobs), and the update of a machine (MiseAJour).                  *)
(*                                                                         *)
(* A behaviour is one of the part "partie"; the others keep still. A part  *)
(* adds bounds of its own to the steps of its module.                      *)
(***************************************************************************)
EXTENDS NexusBlobs, TLC

CONSTANTS
  Versions, Depart, NbFichiers, Coupures, Pannes, Chutes, Gestes, Courses,
  Lenteur, Sources,   \* MiseAJour
  Parties,   \* the parts of this run
  Hors,      \* what the variables hold of a part that does not run
  l1, m1, k1, p1, p2, r1, r2

VARIABLES
  partie,    \* the part that runs
  place, garde, pretes, verrou, etat, tourne, session, demande, declare, lue,
  tour, deroules, conf, maj, monte, descend, cibles, declaree, compte, envoi,
  dits, reste  \* MiseAJour

blobsVars == vars
majVars == <<place, garde, pretes, verrou, etat, tourne, session, demande, declare, lue,
              tour, deroules, conf, maj, monte, descend, cibles, declaree,
              compte, envoi, dits, reste>>
tout == <<partie, blobsVars, majVars>>

RefsSimples == [m \in {m1} |-> {l1}]

S == INSTANCE MiseAJour

ASSUME BornesDesMisesAJour == S!VersionsAssumption

(* Bounds of a part of the store: its publishers, its collectors and the   *)
(* digests they deal with; a walk meets the others at once.                *)
Seulement(publieurs, ramasseurs, digests) ==
  /\ \A p \in Publieurs : pub'[p] # Libre => p \in publieurs /\ pub'[p].digest \in digests
  /\ \A r \in Ramasseurs : gc'[r] # Libre => r \in ramasseurs
  /\ \A r \in Ramasseurs : gc[r] # Libre /\ ~(gc[r].reste \subseteq digests) =>
       gc'[r] # Libre /\ gc'[r].reste # gc[r].reste

(* Bounds of a part of the update: the last version, the gestures and the  *)
(* failures, where the version is set; no download of half an hour.        *)
Jusque(version, gestes, pannes, ou) ==
  /\ \A s \in {"derogation", "groupe", "parc"} :
       cibles'[s] <= version /\ (s \notin ou => cibles'[s] = 0)
  /\ Gestes - reste'.gestes <= gestes /\ Pannes - reste'.pannes <= pannes
Ponctuel == ~maj'.lent /\ \A d \in deroules' : ~d.lent

Magasin == {"images", "paquets"}
Machine == {"maj", "lenteur", "retour"}

-----------------------------------------------------------------------------
(* The part that does not run keeps its variables as they are.             *)
majHors ==
  /\ place = Hors /\ garde = Hors /\ pretes = Hors /\ verrou = Hors /\ etat = Hors
  /\ tourne = Hors /\ session = Hors /\ demande = Hors /\ declare = Hors /\ lue = Hors
  /\ tour = Hors /\ deroules = Hors /\ conf = Hors /\ maj = Hors /\ monte = Hors
  /\ descend = Hors /\ cibles = Hors /\ declaree = Hors /\ compte = Hors /\ envoi = Hors
  /\ dits = Hors /\ reste = Hors

Debut ==
  /\ partie \in Parties
  /\ Init
  /\ IF partie \in Machine THEN S!Init ELSE majHors

Pas ==
  \/ partie = "images" /\ Next /\ Seulement({p1}, {r1}, {l1, m1})
     /\ UNCHANGED <<partie, majVars>>
  \/ partie = "paquets" /\ Next /\ Seulement({p1, p2}, {r1, r2}, {k1})
     /\ UNCHANGED <<partie, majVars>>
  \/ partie = "maj" /\ S!Next /\ Jusque(2, 1, 1, {"derogation"}) /\ Ponctuel
     /\ UNCHANGED <<partie, blobsVars>>
  \/ partie = "lenteur" /\ S!Next /\ Jusque(2, 1, 0, {"derogation"})
     /\ UNCHANGED <<partie, blobsVars>>
  \/ partie = "retour" /\ S!Next /\ Jusque(3, 2, 0, {"parc"}) /\ Ponctuel
     /\ UNCHANGED <<partie, blobsVars>>

Ensemble == Debut /\ [][Pas]_tout

-----------------------------------------------------------------------------
(* The files of the agent are those of one version, the new one or the     *)
(* former one, at the end of a swap (bascule.go executer, retourArriere).  *)
PaquetsTenus == partie \in Machine => S!TypeOK /\ S!ToutOuRien

(* The binary in place only goes to a lower version by an order that said  *)
(* so, or back to what was put aside (ordre.go, bascule.go remettre).      *)
JamaisRetrograde == [][(partie \in Machine => S!BinaireAvance)]_tout
=============================================================================
