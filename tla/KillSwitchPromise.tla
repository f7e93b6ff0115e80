--------------------------- MODULE KillSwitchPromise ---------------------------
(***************************************************************************)
(* What "kill --status" promises an administrator, without commands,       *)
(* replays, tunnels or files: an order aims at some machines, each machine *)
(* applies it or not, and the status of each target only ever says what    *)
(* happened. KillSwitch implements this specification.                     *)
(***************************************************************************)
CONSTANTS
  Ids,         \* orders
  Machines,
  Incapables,  \* machines that cannot apply an order
  Aucun        \* the mode of an order that is not issued

VARIABLES
  mode,        \* order -> its mode, Aucun until it is issued
  statut,      \* order -> machine -> status shown
  applique     \* machine -> orders it has applied

vars == <<mode, statut, applique>>

Init ==
  /\ mode = [o \in Ids |-> Aucun]
  /\ statut = [o \in Ids |-> [m \in Machines |-> "none"]]
  /\ applique = [m \in Machines |-> {}]

Attend(o, m) == statut[o][m] \in {"pending", "failed"}

(* An order is written with all its targets, once.                         *)
Emettre(o, k, T) ==
  /\ mode[o] = Aucun
  /\ mode' = [mode EXCEPT ![o] = k]
  /\ statut' = [statut EXCEPT ![o] =
                  [m \in Machines |-> IF m \in T THEN "pending" ELSE "none"]]
  /\ UNCHANGED applique

(* Only locks are withdrawn, and only from the machines that have not      *)
(* acknowledged them.                                                      *)
Lever(S) ==
  /\ \A o \in S : mode[o] = "soft"
  /\ statut' = [o \in Ids |-> [m \in Machines |->
                  IF o \in S /\ Attend(o, m) THEN "lifted" ELSE statut[o][m]]]
  /\ UNCHANGED <<mode, applique>>

(* A target applies its order, as often as it likes.                       *)
Appliquer(o, m) ==
  /\ statut[o][m] # "none"
  /\ m \notin Incapables
  /\ applique' = [applique EXCEPT ![m] = @ \cup {o}]
  /\ UNCHANGED <<mode, statut>>

(* Success is never announced before the fact.                             *)
Acquitter(o, m) ==
  /\ statut[o][m] # "none"
  /\ o \in applique[m]
  /\ statut' = [statut EXCEPT ![o][m] = "acked"]
  /\ UNCHANGED <<mode, applique>>

(* A failure does not bring back an order that was lifted.                 *)
SignalerEchec(o, m) ==
  /\ statut[o][m] \notin {"none", "lifted"}
  /\ statut' = [statut EXCEPT ![o][m] = "failed"]
  /\ UNCHANGED <<mode, applique>>

(* What waits for machines that cannot apply an order is put away.         *)
Ranger(M) ==
  /\ M \subseteq Incapables
  /\ statut' = [o \in Ids |-> [m \in Machines |->
                  IF m \in M /\ Attend(o, m) THEN "unsupported" ELSE statut[o][m]]]
  /\ UNCHANGED <<mode, applique>>

Next ==
  \/ \E o \in Ids, k \in {"soft", "unlock", "hard"}, T \in SUBSET Machines :
       Emettre(o, k, T)
  \/ \E S \in SUBSET Ids : Lever(S)
  \/ \E o \in Ids, m \in Machines :
       Appliquer(o, m) \/ Acquitter(o, m) \/ SignalerEchec(o, m)
  \/ \E M \in SUBSET Incapables : Ranger(M)

Spec == Init /\ [][Next]_vars
=============================================================================
