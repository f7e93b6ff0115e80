----------------------------- MODULE MCGuichets -----------------------------
(***************************************************************************)
(* The counters that let in and refuse: the quota of the enrolment keys    *)
(* (Enrolement), the delays after failed logins (Freinage) and the HTTP    *)
(* interface, its rate and its nonces (CommandesApi).                      *)
(*                                                                         *)
(* A behaviour is one of the part "partie"; the others keep still.         *)
(***************************************************************************)
EXTENDS Enrolement

CONSTANTS
  Parties,   \* the parts of this run
  Hors,      \* what the variables hold of a part that does not run
  k1,        \* the key for one use
  t1,        \* the attempt that is alone
  Comptes, Sources, Vide, Tentatives, EssaisGratuits, DelaiMaximum, Oubli, Impair, Zeros,
  Largeur, FinDuFrein, MaxEchecs, Sauts,  \* Freinage
  Demandes, Fils, Rafale, ParSeconde, PurgeDebit, Fenetre, PurgeNonces,
  Derives, Attente, MaxTemps, MaxAcceptes, MaxVies  \* CommandesApi

VARIABLES
  partie,    \* the part that runs
  compteur, temoin, dernierePurge, tentative, rejets, temps,  \* Freinage
  seau, purgeDebit, vus, lastPurge, signee, fil, pris, executees, instant, vie  \* CommandesApi

freinVars == <<compteur, temoin, dernierePurge, tentative, rejets, temps>>
apiVars == <<seau, purgeDebit, vus, lastPurge, signee, fil, pris, executees, instant, vie>>
quotaVars == vars
tout == <<partie, quotaVars, freinVars, apiVars>>

\* A key for one use, and one without a limit.
QuotaMC == [k \in Cles |-> IF k = k1 THEN 1 ELSE 0]
DerivesMC == {-2, 0}   \* the clock of a client is right, or late by two

F == INSTANCE Freinage WITH MaxTemps <- FinDuFrein
A == INSTANCE CommandesApi WITH dernierePurge <- purgeDebit, temps <- instant

(* Bounds of a part of the API: one without signed requests, one whose     *)
(* requests come from an unknown source.                                   *)
SansSignature == signee' = signee
SansSource == UNCHANGED <<seau, purgeDebit, pris>> /\ instant' <= 7

Frein == {"tables", "vol", "bareme"}   \* the parts of the throttle

(* Bounds of a part of the throttle: one attempt at a time, accounts alone, *)
(* until an instant and for so many failures.                              *)
Seule == \A t \in Tentatives \ {t1} : tentative'[t].pc = "repos"
SansOrigine == \A t \in Tentatives : tentative'[t].cles \subseteq Comptes
Jusque(fin, echecs) == temps' <= fin /\ \A c \in F!Entrees : temoin'[c].echecs <= echecs

\* The numbers of the code: one second is 1953125 * 2^9 nanoseconds, in 64 bits.
Reel == INSTANCE Freinage WITH
  EssaisGratuits <- 3, DelaiMaximum <- 30, Oubli <- 900, Impair <- 1953125, Zeros <- 9,
  Largeur <- 64, MaxTemps <- FinDuFrein
ASSUME ReglagesApi == A!Reglages
ASSUME ReglagesFrein == F!Bareme /\ F!MotAssezLarge
ASSUME NombresDuCode == Reel!Bareme /\ Reel!MotAssezLarge

-----------------------------------------------------------------------------
(* A part that does not run keeps its variables as they are.              *)
freinHors ==
  /\ compteur = Hors /\ temoin = Hors /\ dernierePurge = Hors /\ tentative = Hors
     /\ rejets = Hors /\ temps = Hors
apiHors ==
  /\ seau = Hors /\ purgeDebit = Hors /\ vus = Hors /\ lastPurge = Hors /\ signee =
     Hors /\ fil = Hors /\ pris = Hors /\ executees = Hors /\ instant = Hors
     /\ vie = Hors

Depart ==
  /\ partie \in Parties
  /\ Init /\ (partie # "quota" => \A s \in Services : disque[s].paire = 0)
  /\ IF partie \in Frein THEN F!Init ELSE freinHors
  /\ IF partie \in {"debit", "nonces"} THEN A!Init ELSE apiHors

Pas ==
  \/ partie = "quota" /\ Next /\ UNCHANGED <<partie, freinVars, apiVars>>
  \/ partie = "tables" /\ F!Next /\ Seule /\ Jusque(10, 2) /\ UNCHANGED <<partie, quotaVars, apiVars>>
  \/ partie = "vol" /\ F!Next /\ SansOrigine /\ Jusque(9, 4)
     /\ UNCHANGED <<partie, quotaVars, apiVars>>
  \/ partie = "bareme" /\ F!Next /\ Seule /\ SansOrigine /\ UNCHANGED <<partie, quotaVars, apiVars>>
  \/ partie = "debit" /\ A!Next /\ SansSignature /\ UNCHANGED <<partie, quotaVars, freinVars>>
  \/ partie = "nonces" /\ A!Next /\ SansSource /\ UNCHANGED <<partie, quotaVars, freinVars>>

Ensemble == Depart /\ [][Pas]_tout

-----------------------------------------------------------------------------
(* The purge of the counters changes no decision and leaves nothing stale, *)
(* the delay is what the scale says whatever the shift, and only attempts  *)
(* already under way escape it (ratelimit.go).                             *)
FreinTenu ==
  partie \in Frein =>
    F!TypeOK /\ F!PurgeInvisible /\ F!PurgeComplete /\ F!EcheanceTenue /\ F!AdmiseAvant

(* A running deadline is never shortened but by a success (ratelimit.go).  *)
EcheanceNeReculePas == [][partie \notin Frein \/ F!EcheanceGardee]_tout

(* A source never gets through more than a bucket and its refills, and no  *)
(* request is executed twice in one life of the core (debit.go, replay.go).*)
ApiTenue ==
  partie \in {"debit", "nonces"} => A!TypeOK /\ A!VolumeBorne /\ A!JamaisDeuxFois
=============================================================================
