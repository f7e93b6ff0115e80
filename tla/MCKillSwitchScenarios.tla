----------------------- MODULE MCKillSwitchScenarios -----------------------
(***************************************************************************)
(* The kill switch under four sets of circumstances. They differ by what   *)
(* the people do and by the faults that happen; the park and the commands  *)
(* are the same.                                                           *)
(***************************************************************************)
EXTENDS KillSwitchProperties

CONSTANTS
  c1, c2,      \* the commands
  Scenarios    \* the circumstances of this run

VARIABLE scenario

(* One administrator, nothing fails: accounts come and go.                 *)
Calme == INSTANCE KillSwitch WITH
  MaxEnVol <- 1, Monde <- {"groupes", "creation"}, Pannes <- {}, MaxPannes <- 0
(* One administrator, everything fails.                                    *)
Final == INSTANCE KillSwitch WITH Monde <- {}, MaxPannes <- 2
(* Two administrators at the same time, and no failure.                   *)
Deux == INSTANCE KillSwitch WITH Monde <- {}, Pannes <- {}, MaxPannes <- 0
(* The situation handleOrderList is written for: the orders are issued     *)
(* while the machines are away, and caught up later.                       *)
Rattrapage == INSTANCE KillSwitch WITH
  Monde <- {}, Pannes <- {"coupure", "arret"}, MaxPannes <- 2

HorsLigne ==
  (\E c \in Commands : cmd'[c] # cmd[c]) =>
    \A m \in Machines : /\ ~tunnel[m] /\ enCours[m] = {}
                        /\ \A s \in Sources : lot[s][m] = {}

UnSeul == cmd'[c2] = Repos
\* Two orders, and no request of a machine.
Court == /\ \A o \in Ids : o > 2 => ordre'[o] = Aucun
         /\ (\E c \in Commands : cmd[c] = Repos /\ cmd'[c] # Repos) => ordre[2] = Aucun
         /\ \A m \in Machines : lot'["demande"][m] = {}

Depart ==
  /\ scenario \in Scenarios
  /\ scenario = "calme" => Calme!Init
  /\ scenario = "final" => Final!Init
  /\ scenario = "deux" => Deux!Init
  /\ scenario = "rattrapage" => Rattrapage!Init

Pas ==
  \/ scenario = "calme" /\ Calme!Next /\ UnSeul /\ UNCHANGED scenario
  \/ scenario = "final" /\ Final!Next /\ UnSeul /\ Court /\ UNCHANGED scenario
  \/ scenario = "deux" /\ Deux!Next /\ Court /\ UNCHANGED scenario
  \/ scenario = "rattrapage" /\ Rattrapage!Next /\ UnSeul /\ HorsLigne /\ UNCHANGED scenario

Ensemble == Depart /\ [][Pas]_<<vars, scenario>>

-----------------------------------------------------------------------------
(* When nothing fails and nothing is under way, a lock in force closes the *)
(* account of each of its machines, and no account without a lock stays    *)
(* closed, accounts and groups lost in between included (dispatch.go,      *)
(* trames.go, state.go).                                                   *)
ComptesLocauxJustes == scenario = "calme" => VerrouTenu /\ PersonneResteEnferme

(* With one administrator a lifted lock has no target left to deliver,      *)
(* whatever fails (LiftSoftRevocations).                                   *)
LeveesRangees == scenario = "final" => LeveJamaisRejouable

(* Orders caught up by a machine that was away are applied in the order    *)
(* they were issued (trames.go handleOrderList).                           *)
RattrapageDansLOrdre ==
  [][scenario = "rattrapage" => PasDansLOrdre]_<<vars, scenario>>
=============================================================================
