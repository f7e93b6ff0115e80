--------------------------- MODULE DemandesDeCycle ---------------------------
(***************************************************************************)
(* "Apply the policy now", asked of machines whose tunnels are spread over *)
(* the cores of a cluster: a core pushes 05_18 to the machines it holds    *)
(* and writes a request in the database for the others; every core reads   *)
(* the requests at its pace, takes those of the machines it holds and      *)
(* pushes.  The agent runs one cycle at a time and runs one again when its *)
(* tunnel comes back.  The periodic cycle, which would hide every loss, is *)
(* left out.  Errors of the database are left out.                         *)
(***************************************************************************)
EXTENDS Naturals, Sequences, FiniteSets

CONSTANTS
    Cores, Machines,
    Demandeurs,     \* the cores where campaigns are run
    Aucun,          \* no core
    MaxDemandes,    \* bound: requests written in the database
    MaxCampagnes,   \* bound: campaigns of a core
    MaxCoupures,    \* bound: cuts of a tunnel
    MaxArrets,      \* bound: stops of a core
    Vue             \* may the core that held a tunnel not see it cut?

ASSUME DemandesAssumption ==
    /\ Aucun \notin Cores /\ Demandeurs \subseteq Cores
    /\ MaxDemandes \in Nat /\ MaxCampagnes \in Nat /\ MaxCoupures \in Nat /\ MaxArrets \in Nat
    /\ Vue \subseteq BOOLEAN

VARIABLES
    vivants,        \* the cores that run
    sessions,       \* by core, the machines it holds an authenticated tunnel of
    agent,          \* by machine: where its tunnel is, its number, its cycle
    trames,         \* by machine, is a 05_18 on its way in the tunnel?
    base,           \* the requests written
    relais,         \* by core, the round of its relay
    campagne,       \* by core, the campaign it runs
    poussees,       \* by request, how many times it was pushed
    du,             \* by machine, what becomes of the last cycle asked of it
    aleas

vars == <<vivants, sessions, agent, trames, base, relais, campagne, poussees, du, aleas>>

Ids == 1..MaxDemandes

AuRepos  == [pc |-> "repos", lues |-> {}, prise |-> 0]
SansRien == [pc |-> "repos", restantes |-> {}, relayees |-> {}, jointes |-> {},
             nonJointes |-> {}, faites |-> 0]
Neuf     == [lien |-> Aucun, cle |-> 0, derniere |-> 0, reveil |-> FALSE, essai |-> TRUE,
             cycle |-> FALSE]

Init ==
    /\ vivants = Cores
    /\ sessions = [c \in Cores |-> {}]
    /\ agent = [m \in Machines |-> Neuf]
    /\ trames = [m \in Machines |-> FALSE]
    /\ base = <<>>
    /\ relais = [c \in Cores |-> AuRepos]
    /\ campagne = [c \in Cores |-> SansRien]
    /\ poussees = [i \in Ids |-> 0]
    /\ du = [m \in Machines |-> "non"]
    /\ aleas = [coupures |-> 0, arrets |-> 0]

(***************************************************************************)
(* The push.                                                               *)
(***************************************************************************)
\* What a push from c does to m, when c believes it holds its tunnel: the
\* frame is gone, and arrives if the tunnel is there.
Pousser(c, m) ==
    trames' = IF m \in sessions[c] /\ agent[m].lien = c
              THEN [trames EXCEPT ![m] = TRUE] ELSE trames

(***************************************************************************)
(* A campaign: one push or one request by machine, then one wait for all.  *)
(***************************************************************************)
Lancer(c, cibles) ==
    /\ c \in vivants /\ campagne[c].pc = "repos" /\ campagne[c].faites < MaxCampagnes
    /\ campagne' = [campagne EXCEPT ![c] = [SansRien EXCEPT !.pc = "boucle", !.restantes = cibles,
                                                            !.faites = campagne[c].faites + 1]]
    /\ UNCHANGED <<vivants, sessions, agent, trames, base, relais, poussees, du, aleas>>

\* Do other cores exist?  One that stopped may still be told online.
Autres(c) == IF Cores = {c} THEN {FALSE} ELSE IF vivants = {c} THEN BOOLEAN ELSE {TRUE}

(* Mutant of RafraichirMachine: the number of the request is read before it is written. *)
RafraichirMachine_numero(c, m) ==
    /\ campagne[c].pc = "boucle" /\ m \in campagne[c].restantes
    /\ du' = [du EXCEPT ![m] = "demande"]
    /\ \/ /\ m \in sessions[c]
          /\ Pousser(c, m)
          /\ campagne' = [campagne EXCEPT ![c].restantes = @ \ {m}, ![c].jointes = @ \cup {m}]
          /\ UNCHANGED base
       \/ /\ m \notin sessions[c]
          /\ UNCHANGED trames
          /\ \E autres \in Autres(c) :
                IF autres
                THEN /\ Len(base) < MaxDemandes
                     /\ base' = Append(base, [machine |-> m, prisePar |-> Aucun,
                                              remise |-> FALSE, perimee |-> FALSE])
                     /\ campagne' = [campagne EXCEPT ![c].restantes = @ \ {m},
                                                     ![c].relayees = @ \cup {Len(base)}]
                ELSE /\ UNCHANGED base
                     /\ campagne' = [campagne EXCEPT ![c].restantes = @ \ {m},
                                                     ![c].nonJointes = @ \cup {m}]
    /\ UNCHANGED <<vivants, sessions, agent, relais, poussees, aleas>>

RafraichirMachine(c, m) ==
    /\ campagne[c].pc = "boucle" /\ m \in campagne[c].restantes
    /\ du' = [du EXCEPT ![m] = "demande"]
    /\ \/ /\ m \in sessions[c]
          /\ Pousser(c, m)
          /\ campagne' = [campagne EXCEPT ![c].restantes = @ \ {m}, ![c].jointes = @ \cup {m}]
          /\ UNCHANGED base
       \/ /\ m \notin sessions[c]
          /\ UNCHANGED trames
          /\ \E autres \in Autres(c) :
                IF autres
                THEN /\ Len(base) < MaxDemandes
                     /\ base' = Append(base, [machine |-> m, prisePar |-> Aucun,
                                              remise |-> FALSE, perimee |-> FALSE])
                     /\ campagne' = [campagne EXCEPT ![c].restantes = @ \ {m},
                                                     ![c].relayees = @ \cup {Len(base) + 1}]
                ELSE /\ UNCHANGED base
                     /\ campagne' = [campagne EXCEPT ![c].restantes = @ \ {m},
                                                     ![c].nonJointes = @ \cup {m}]
    /\ UNCHANGED <<vivants, sessions, agent, relais, poussees, aleas>>

(* Mutant of AttendreLesIssues: a request that is taken counts as delivered. *)
AttendreLesIssues_prise(c) ==
    LET ids == campagne[c].relayees
        ok  == {base[i].machine : i \in {j \in ids : base[j].prisePar # Aucun}}
        ko  == {base[i].machine : i \in {j \in ids : base[j].prisePar = Aucun}}
    IN  /\ campagne[c].pc = "boucle" /\ campagne[c].restantes = {}
        /\ campagne' = [campagne EXCEPT ![c].pc = "repos", ![c].jointes = @ \cup ok,
                                        ![c].nonJointes = @ \cup ko]
        /\ UNCHANGED <<vivants, sessions, agent, trames, base, relais, poussees, du, aleas>>

\* The wait ends when every request is taken, or at its deadline.
AttendreLesIssues(c) ==
    LET ids == campagne[c].relayees
        ok  == {base[i].machine : i \in {j \in ids : base[j].prisePar # Aucun /\ base[j].remise}}
        ko  == {base[i].machine : i \in {j \in ids : ~(base[j].prisePar # Aucun /\ base[j].remise)}}
    IN  /\ campagne[c].pc = "boucle" /\ campagne[c].restantes = {}
        /\ campagne' = [campagne EXCEPT ![c].pc = "repos", ![c].jointes = @ \cup ok,
                                        ![c].nonJointes = @ \cup ko]
        /\ UNCHANGED <<vivants, sessions, agent, trames, base, relais, poussees, du, aleas>>

(***************************************************************************)
(* The relay of a core.                                                    *)
(***************************************************************************)
\* RemettreLesDemandes reads the requests that are neither taken nor too old.
Relever(c) ==
    /\ c \in vivants /\ relais[c].pc = "repos"
    /\ LET lues == {i \in DOMAIN base : base[i].prisePar = Aucun /\ ~base[i].perimee}
       IN  /\ lues # {}
           /\ relais' = [relais EXCEPT ![c] = [AuRepos EXCEPT !.pc = "boucle", !.lues = lues]]
    /\ UNCHANGED <<vivants, sessions, agent, trames, base, campagne, poussees, du, aleas>>

Suivante(c) == CHOOSE i \in relais[c].lues : \A j \in relais[c].lues : i <= j

(* Mutant of Prendre: the request is taken on the strength of what was read. *)
Prendre_lecture(c) ==
    /\ relais[c].pc = "boucle"
    /\ IF relais[c].lues = {}
       THEN relais' = [relais EXCEPT ![c] = AuRepos] /\ UNCHANGED base
       ELSE LET i == Suivante(c)
                pris == base[i].machine \in sessions[c]
            IN  /\ relais' = [relais EXCEPT ![c].lues = @ \ {i},
                                            ![c].pc = IF pris THEN "prise" ELSE "boucle",
                                            ![c].prise = IF pris THEN i ELSE 0]
                /\ base' = IF pris THEN [base EXCEPT ![i].prisePar = c] ELSE base
    /\ UNCHANGED <<vivants, sessions, agent, trames, campagne, poussees, du, aleas>>

(* Mutant of Prendre: the first core to read a request takes it. *)
Prendre_premier(c) ==
    /\ relais[c].pc = "boucle"
    /\ IF relais[c].lues = {}
       THEN relais' = [relais EXCEPT ![c] = AuRepos] /\ UNCHANGED base
       ELSE LET i == Suivante(c)
                pris == base[i].prisePar = Aucun
            IN  /\ relais' = [relais EXCEPT ![c].lues = @ \ {i},
                                            ![c].pc = IF pris THEN "prise" ELSE "boucle",
                                            ![c].prise = IF pris THEN i ELSE 0]
                /\ base' = IF pris THEN [base EXCEPT ![i].prisePar = c] ELSE base
    /\ UNCHANGED <<vivants, sessions, agent, trames, campagne, poussees, du, aleas>>

\* Taken only if this core holds the machine, and by one core only.
Prendre(c) ==
    /\ relais[c].pc = "boucle"
    /\ IF relais[c].lues = {}
       THEN relais' = [relais EXCEPT ![c] = AuRepos] /\ UNCHANGED base
       ELSE LET i == Suivante(c)
                pris == base[i].machine \in sessions[c] /\ base[i].prisePar = Aucun
            IN  /\ relais' = [relais EXCEPT ![c].lues = @ \ {i},
                                            ![c].pc = IF pris THEN "prise" ELSE "boucle",
                                            ![c].prise = IF pris THEN i ELSE 0]
                /\ base' = IF pris THEN [base EXCEPT ![i].prisePar = c] ELSE base
    /\ UNCHANGED <<vivants, sessions, agent, trames, campagne, poussees, du, aleas>>

\* The push, then the note: the tunnel may be gone since the request was taken.
PousserPrise(c) ==
    /\ relais[c].pc = "prise"
    /\ LET i == relais[c].prise
           m == base[i].machine
       IN  /\ Pousser(c, m)
           /\ poussees' = [poussees EXCEPT ![i] = IF m \in sessions[c] THEN @ + 1 ELSE @]
           /\ relais' = [relais EXCEPT ![c].pc = IF m \in sessions[c] THEN "partie" ELSE "boucle"]
    /\ UNCHANGED <<vivants, sessions, agent, base, campagne, du, aleas>>

NoterRemise(c) ==
    /\ relais[c].pc = "partie"
    /\ base' = [base EXCEPT ![relais[c].prise].remise = TRUE]
    /\ relais' = [relais EXCEPT ![c].pc = "boucle"]
    /\ UNCHANGED <<vivants, sessions, agent, trames, campagne, poussees, du, aleas>>

\* DureeDeVieDemande: thirty rounds of every relay, too long for a machine
\* that a running core holds.
Perimer(i) ==
    /\ i \in DOMAIN base /\ base[i].prisePar = Aucun /\ ~base[i].perimee
    /\ \A c \in vivants : base[i].machine \notin sessions[c]
    /\ base' = [base EXCEPT ![i].perimee = TRUE]
    /\ UNCHANGED <<vivants, sessions, agent, trames, relais, campagne, poussees, du, aleas>>

(***************************************************************************)
(* The agent.                                                              *)
(***************************************************************************)
\* The tunnel is up, under a new key.
Connecter(m, c) ==
    /\ agent[m].lien = Aucun /\ c \in vivants
    /\ sessions' = [sessions EXCEPT ![c] = @ \cup {m}]
    /\ agent' = [agent EXCEPT ![m].lien = c, ![m].cle = @ + 1]
    /\ UNCHANGED <<vivants, trames, base, relais, campagne, poussees, du, aleas>>

\* The tunnel is cut; the core sees it (vue) or keeps the session.
Couper(m, vue) ==
    /\ agent[m].lien # Aucun /\ aleas.coupures < MaxCoupures
    /\ aleas' = [aleas EXCEPT !.coupures = @ + 1]
    /\ sessions' = IF vue THEN [sessions EXCEPT ![agent[m].lien] = @ \ {m}] ELSE sessions
    /\ agent' = [agent EXCEPT ![m].lien = Aucun]
    /\ trames' = [trames EXCEPT ![m] = FALSE]
    /\ UNCHANGED <<vivants, base, relais, campagne, poussees, du>>

\* 05_18 arrives: a wake-up, or nothing more if one is already waiting.
Recevoir0518(m) ==
    /\ trames[m]
    /\ trames' = [trames EXCEPT ![m] = FALSE]
    /\ agent' = [agent EXCEPT ![m].reveil = TRUE]
    /\ UNCHANGED <<vivants, sessions, base, relais, campagne, poussees, du, aleas>>

\* surveillerReconnexion: the key is no longer the one of the last cycle.
Surveiller(m) ==
    /\ agent[m].lien # Aucun
    /\ agent[m].derniere # 0 /\ agent[m].cle # agent[m].derniere
    /\ agent' = [agent EXCEPT ![m].derniere = agent[m].cle, ![m].reveil = TRUE]
    /\ UNCHANGED <<vivants, sessions, trames, base, relais, campagne, poussees, du, aleas>>

\* A cycle begins, by a wake-up or by the timer after a start or a failure.
Commencer(m) ==
    /\ ~agent[m].cycle /\ agent[m].lien # Aucun
    /\ \/ agent[m].reveil /\ agent' = [agent EXCEPT ![m].reveil = FALSE, ![m].cycle = TRUE,
                                                    ![m].derniere = agent[m].cle]
       \/ agent[m].essai /\ agent' = [agent EXCEPT ![m].essai = FALSE, ![m].cycle = TRUE,
                                                   ![m].derniere = agent[m].cle]
    /\ du' = [du EXCEPT ![m] = IF @ = "demande" THEN "enCours" ELSE @]
    /\ UNCHANGED <<vivants, sessions, trames, base, relais, campagne, poussees, aleas>>

\* It succeeds if the tunnel it began under is still there, and is tried again
\* otherwise.
Finir(m) ==
    /\ agent[m].cycle
    /\ LET abouti == agent[m].lien # Aucun /\ agent[m].cle = agent[m].derniere
       IN  /\ agent' = [agent EXCEPT ![m].cycle = FALSE, ![m].essai = ~abouti]
           /\ du' = [du EXCEPT ![m] = IF @ # "enCours" THEN @
                                      ELSE IF abouti THEN "non" ELSE "demande"]
    /\ UNCHANGED <<vivants, sessions, trames, base, relais, campagne, poussees, aleas>>

(***************************************************************************)
(* A core stops: its tunnels are cut, its rounds and campaigns forgotten.  *)
(***************************************************************************)
Arreter(c) ==
    /\ c \in vivants /\ aleas.arrets < MaxArrets /\ Cardinality(vivants) > 1
    /\ vivants' = vivants \ {c}
    /\ sessions' = [sessions EXCEPT ![c] = {}]
    /\ agent' = [m \in Machines |-> IF agent[m].lien = c THEN [agent[m] EXCEPT !.lien = Aucun]
                                    ELSE agent[m]]
    /\ trames' = [m \in Machines |-> trames[m] /\ agent[m].lien # c]
    /\ relais' = [relais EXCEPT ![c] = AuRepos]
    /\ campagne' = [campagne EXCEPT ![c] = [SansRien EXCEPT !.faites = MaxCampagnes]]
    /\ aleas' = [aleas EXCEPT !.arrets = @ + 1]
    /\ UNCHANGED <<base, poussees, du>>

Next ==
    \/ \E c \in Cores :
          \/ c \in Demandeurs /\ \E cibles \in (SUBSET Machines) \ {{}} : Lancer(c, cibles)
          \/ \E m \in Machines : RafraichirMachine(c, m)
          \/ AttendreLesIssues(c)
          \/ Relever(c) \/ Prendre(c) \/ PousserPrise(c) \/ NoterRemise(c)
          \/ Arreter(c)
    \/ \E i \in Ids : Perimer(i)
    \/ \E m \in Machines :
          \/ \E c \in Cores : Connecter(m, c)
          \/ \E vue \in Vue : Couper(m, vue)
          \/ Recevoir0518(m) \/ Surveiller(m) \/ Commencer(m) \/ Finir(m)

Spec == Init /\ [][Next]_vars

\* The loops of a running core go round, the agent reconnects and its loop
\* serves its wake-ups.
FairSpec ==
    /\ Spec
    /\ \A c \in Cores : /\ WF_vars(Relever(c)) /\ WF_vars(Prendre(c))
                        /\ WF_vars(PousserPrise(c)) /\ WF_vars(NoterRemise(c))
                        /\ WF_vars(AttendreLesIssues(c))
    /\ \A m \in Machines : /\ WF_vars(\E c \in Cores : Connecter(m, c))
                           /\ WF_vars(Recevoir0518(m)) /\ WF_vars(Surveiller(m))
                           /\ WF_vars(Commencer(m)) /\ WF_vars(Finir(m))

(***************************************************************************)
(* Properties.                                                             *)
(***************************************************************************)
TypeOK ==
    /\ vivants \subseteq Cores
    /\ sessions \in [Cores -> SUBSET Machines]
    /\ \A m \in Machines : /\ agent[m].lien \in Cores \cup {Aucun}
                           /\ agent[m].derniere \in 0..agent[m].cle
    /\ \A i \in DOMAIN base : base[i].machine \in Machines /\ base[i].prisePar \in Cores \cup {Aucun}
    /\ \A c \in Cores : campagne[c].relayees \subseteq DOMAIN base
    /\ \A c \in Cores : relais[c].lues \subseteq DOMAIN base /\ relais[c].prise \in {0} \cup DOMAIN base
    /\ du \in [Machines -> {"non", "demande", "enCours"}]

\* However many relays read a request at once, one core at most pushes it, and
\* once (PrendreDemandeDeCycle, whose condition is in the WHERE).
UneSeulePoussee == \A i \in Ids : poussees[i] <= 1

\* The report never counts as reached a machine that no core pushed to.
JointeVraie ==
    \A c \in Cores : \A i \in campagne[c].relayees :
       (campagne[c].pc = "repos" /\ poussees[i] = 0) => base[i].machine \notin campagne[c].jointes

\* A request is pushed once at most, and the report is not ahead of the pushes.
PousseesJustes == TypeOK /\ UneSeulePoussee /\ JointeVraie

\* Nor as not reached a machine that a core of the cluster has pushed to by then.
NonJointeVraie ==
    \A c \in Cores : campagne[c].pc = "repos" =>
       \A i \in campagne[c].relayees :
          poussees[i] > 0 => base[i].machine \notin campagne[c].nonJointes

\* A machine asked for a cycle makes one that begins after the request, without
\* its periodic one: by the push, or because its tunnel came back.
DemandeSuivie == \A m \in Machines : du[m] # "non" ~> du[m] = "non"
=============================================================================
