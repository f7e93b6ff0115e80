------------------------------ MODULE MCPortes ------------------------------
(***************************************************************************)
(* The doors of the core: what a password opens while the account is       *)
(* locked or its password replaced (Portes), and the second factor behind  *)
(* the password (SecondFacteur).                                           *)
(*                                                                         *)
(* A behaviour is one of the part "partie": every door with one request at *)
(* a time; two requests on the doors that change the password; two on the  *)
(* doors the kill switch closes; the factor, while the doors keep still.   *)
(***************************************************************************)
EXTENDS Portes, TLC

CONSTANTS
  Parties,   \* the parts of this run
  Hors,      \* what the variables hold of a part that does not run
  t1,        \* the token of a part with one
  MaxSecrets, MaxHeure, SkewSteps, MaxEssais, ExigenceDucky, MFABypass, UnSeulOnglet  \* SecondFacteur

VARIABLES
  partie,    \* the part that runs
  heure, base, exige, dernier, demande, attentes, prouves, acceptes  \* SecondFacteur

facteurVars == <<heure, base, exige, dernier, demande, attentes, prouves, acceptes>>
tout == <<partie, vars, facteurVars>>

(* Bounds of a part: one request at a time; two passwords; one door other  *)
(* than the portal open; one token.                                        *)
UneRequete == \A r, q \in Requetes : req'[r].pc # "libre" /\ req'[q].pc # "libre" => r = q
DeuxMotsDePasse == compte'.version <= 2
UneDistante ==
  LET d == <<ldap', pam', ducky', defi'>>
  IN \A a, b \in DOMAIN d : d[a].ouvert /\ d[b].ouvert => a = b
UnJeton == \A t \in Jetons \ {t1} : sessions'[t] = SansSession /\ etapes'[t] = Rien

M == INSTANCE Portes WITH
  Portes <- {"web", "profil", "admin", "enrole"}
C == INSTANCE Portes WITH
  Portes <- {"web", "pam", "ldap", "ducky", "coupure", "enrole"}, MaxVersions <- 1
F == INSTANCE SecondFacteur WITH req <- demande, etapes <- attentes
UneAttente == \A t \in Jetons \ {t1} : attentes'[t] = F!Absente

ASSUME C!PortesAssumption /\ M!PortesAssumption
ASSUME BornesDuFacteur == F!BornesAssumption

-----------------------------------------------------------------------------
(* A part that does not run keeps its variables as they are.              *)
facteurHors ==
  /\ heure = Hors /\ base = Hors /\ exige = Hors /\ dernier = Hors /\ demande = Hors
  /\ attentes = Hors /\ prouves = Hors /\ acceptes = Hors

Depart ==
  /\ partie \in Parties
  /\ Init
  /\ partie \in {"tout", "facteur"} => ~compte.facteur /\ ~compte.exige
  /\ IF partie = "facteur" THEN F!Init ELSE facteurHors

Pas ==
  \/ partie = "tout" /\ Next /\ UneRequete /\ DeuxMotsDePasse /\ UnJeton /\ UneDistante
     /\ UNCHANGED <<partie, facteurVars>>
  \/ partie = "passe" /\ M!Next /\ UNCHANGED <<partie, facteurVars>>
  \/ partie = "coupure" /\ C!Next /\ UnJeton /\ UNCHANGED <<partie, facteurVars>>
  \/ partie = "facteur" /\ F!Next /\ UneAttente /\ UNCHANGED <<partie, vars>>

Ensemble == Depart /\ [][Pas]_tout

-----------------------------------------------------------------------------
(* The active factor has a secret somebody has shown a code of, its        *)
(* activation consumed that code, and no door passes without a code a      *)
(* request made wholly while a factor was active or required.              *)
FacteurTenu ==
  partie = "facteur" =>
    F!TypeOK /\ F!ActifConsomme /\ F!PasseSansCode /\ F!SecretProuve

(* A code is accepted once, on all the doors (consume_mfacounter.go).      *)
CodeConsommeUneFois == [][partie = "facteur" => F!AccepteUneFois]_tout

(* Requests and tokens may be exchanged. *)
Symetrie == Permutations(Requetes) \cup Permutations(Jetons)
=============================================================================
