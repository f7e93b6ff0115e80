------------------------------ MODULE CycleGPO ------------------------------
(***************************************************************************)
(* The group policy of one machine, from the core that compiles it to the  *)
(* files the agent writes: the agent checks what it wrote, asks for its    *)
(* policy with the fingerprint it believes in place, receives a manifest   *)
(* and its fragments one at a time, applies the modules whose fingerprint  *)
(* changed and saves what it did.                                          *)
(*                                                                         *)
(* The two directions of the tunnel are queues, because both ends handle   *)
(* one frame after the other.  A policy stands for its fingerprint.  The   *)
(* reports to the core, which change nothing on the machine, and the       *)
(* migrations of states written by older agents are left out.              *)
(***************************************************************************)
EXTENDS Naturals, Sequences, FiniteSets

CONSTANTS
    Cles,            \* state keys of the modules
    Objets,          \* files and system settings the modules write and watch
    Ordre,           \* Ordre[p]: the keys of policy p, in the order of application
    Version,         \* Version[p][k]: fingerprint of module k in policy p
    Audit,           \* Audit[p]: the keys of p whose drift is only signalled
    Effet,           \* Effet[k][v]: function from the objects module k, version v, writes
    Suivantes,       \* Suivantes[p]: the policies an administrator may put after p
    Premiere,        \* the policy at the start
    NonApplicables,  \* keys without object on this machine
    Fragments,       \* fragments of a document
    MaxMains,        \* bound: edits by hand
    MaxPannes,       \* bound: modules and saves that fail
    MaxArrets,       \* bound: stops of the agent and cuts of the tunnel
    MaxLenteurs,     \* bound: answers later than the wait of the agent
    Aucun            \* no policy, no version, no transfer

Politiques == DOMAIN Ordre
CycleGPOAssumption ==
    /\ Premiere \in Politiques /\ Fragments \in Nat \ {0}
    /\ \A p \in Politiques : Suivantes[p] \subseteq Politiques /\ Audit[p] \subseteq Cles

ClesDe(p) == IF p = Aucun THEN {} ELSE {Ordre[p][i] : i \in 1..Len(Ordre[p])}

VARIABLES
    courante,   \* policy the core compiles now
    transfert,  \* policy whose fragments the core holds for this machine
    versCore, versAgent,   \* frames on their way
    pc,         \* step of the cycle of the agent
    demande,    \* the pending fetch: manifest received, fragments received
    resultats,  \* result of each module of the policy being applied, so far
    etat,       \* applied_policies.json
    disque,     \* content of each object
    frais,      \* policies the core has compiled since the cycle began
    aleas       \* how many times each disturbance happened
vars == <<courante, transfert, versCore, versAgent, pc, demande, resultats, etat, disque, frais, aleas>>
reseau == <<transfert, versCore, versAgent>>

SansDemande == [ouverte |-> FALSE, manifeste |-> Aucun, recus |-> {}]
Ouverte == [ouverte |-> TRUE, manifeste |-> Aucun, recus |-> {}]
EtatVide ==
    [empreinte |-> Aucun, version |-> Aucun, audit |-> {},
     modules |-> [k \in Cles |-> Aucun],
     attendu |-> [o \in Objets |-> [contenu |-> Aucun, proprietaires |-> {}]]]

Init ==
    /\ courante = Premiere /\ transfert = Aucun
    /\ versCore = <<>> /\ versAgent = <<>>
    /\ pc = "repos" /\ demande = SansDemande /\ resultats = <<>>
    /\ etat = EtatVide /\ disque = [o \in Objets |-> "origine"]
    /\ frais = {} /\ aleas = [mains |-> 0, pannes |-> 0, arrets |-> 0, lenteurs |-> 0]

Alea(a, max) == aleas[a] < max /\ aleas' = [aleas EXCEPT ![a] = @ + 1]

-----------------------------------------------------------------------------
(* The core. *)

ChangerPolitique(p) ==
    /\ p \in Suivantes[courante] /\ courante' = p /\ frais' = frais \cup {p}
    /\ UNCHANGED <<reseau, pc, demande, resultats, etat, disque, aleas>>

(* Mutant of ServeScope. *)
ServeScope_reprise(m) ==
    IF m.empreinte = courante
    THEN /\ transfert' = Aucun
         /\ versAgent' = Append(versAgent, [t |-> "inchange", p |-> courante, i |-> 0])
    ELSE /\ transfert' = IF transfert = Aucun THEN courante ELSE transfert
         /\ versAgent' = Append(versAgent, [t |-> "manifeste", p |-> transfert', i |-> 0])

\* The request carries the fingerprint the agent applies.
ServeScope(m) ==
    IF m.empreinte = courante
    THEN /\ transfert' = Aucun
         /\ versAgent' = Append(versAgent, [t |-> "inchange", p |-> courante, i |-> 0])
    ELSE /\ transfert' = courante
         /\ versAgent' = Append(versAgent, [t |-> "manifeste", p |-> courante, i |-> 0])

HandleAskChunk(m) ==
    IF transfert = Aucun \/ transfert # m.empreinte \/ m.i >= Fragments
    THEN /\ versAgent' = Append(versAgent, [t |-> "refus", p |-> Aucun, i |-> 0])
         /\ UNCHANGED transfert
    ELSE /\ versAgent' = Append(versAgent, [t |-> "fragment", p |-> transfert, i |-> m.i])
         /\ transfert' = IF m.i = Fragments - 1 THEN Aucun ELSE transfert

Repondre ==
    /\ versCore # <<>> /\ versCore' = Tail(versCore)
    /\ LET m == Head(versCore) IN IF m.t = "demande" THEN ServeScope(m) ELSE HandleAskChunk(m)
    /\ UNCHANGED <<courante, pc, demande, resultats, etat, disque, frais, aleas>>

Expirer ==
    /\ transfert # Aucun /\ transfert' = Aucun /\ Alea("lenteurs", MaxLenteurs)
    /\ UNCHANGED <<courante, versCore, versAgent, pc, demande, resultats, etat, disque, frais>>

-----------------------------------------------------------------------------
(* The agent: the check, then the request. *)

Derives(e, d) == {o \in Objets : e.attendu[o].proprietaires # {} /\ d[o] # e.attendu[o].contenu}

ModulesConcernes(e, d) == UNION {e.attendu[o].proprietaires : o \in Derives(e, d)}

(* Mutant of EnforceDrift. *)
EnforceDrift_tousModes(e, d) ==
    LET corriges == ModulesConcernes(e, d)
    IN IF corriges = {} THEN e
       ELSE [e EXCEPT !.modules = [k \in Cles |-> IF k \in corriges THEN Aucun ELSE @[k]],
                      !.empreinte = Aucun]

(* Mutant of EnforceDrift. *)
EnforceDrift_empreinteGardee(e, d) ==
    [e EXCEPT !.modules = [k \in Cles |-> IF k \in ModulesConcernes(e, d) \ e.audit
                                          THEN Aucun ELSE @[k]]]

\* What a drift makes the state forget: the modules to correct, and the
\* fingerprint, so that the core sends the policy again.
EnforceDrift(e, d) ==
    LET corriges == ModulesConcernes(e, d) \ e.audit
    IN IF corriges = {} THEN e
       ELSE [e EXCEPT !.modules = [k \in Cles |-> IF k \in corriges THEN Aucun ELSE @[k]],
                      !.empreinte = Aucun]

DebutCycle ==
    /\ pc = "repos" /\ pc' = "attend"
    /\ \/ etat' = EnforceDrift(etat, disque) /\ UNCHANGED aleas
       \/ etat' = etat /\ EnforceDrift(etat, disque) # etat /\ Alea("pannes", MaxPannes)
    /\ demande' = Ouverte
    /\ versCore' = Append(versCore, [t |-> "demande", empreinte |-> etat'.empreinte, i |-> 0])
    /\ frais' = {courante}
    /\ UNCHANGED <<courante, transfert, versAgent, resultats, disque>>

Abandonner == pc' = "repos" /\ demande' = SansDemande
Demander(p, i) == versCore' = Append(versCore, [t |-> "fragment", empreinte |-> p, i |-> i])

\* The wait of the cycle ends: nothing is on its way, or it is slow.
Delai ==
    /\ pc = "attend" /\ Abandonner
    /\ \/ versCore = <<>> /\ versAgent = <<>> /\ UNCHANGED aleas
       \/ Alea("lenteurs", MaxLenteurs)
    /\ UNCHANGED <<courante, reseau, resultats, etat, disque, frais>>

HandleManifest(m) ==
    /\ demande' = [ouverte |-> TRUE, manifeste |-> m.p, recus |-> {}]
    /\ Demander(m.p, 0) /\ UNCHANGED pc

(* Mutant of HandleChunk. *)
HandleChunk_resteOuverte(m) ==
    IF demande.manifeste # m.p THEN UNCHANGED <<demande, pc, versCore>>
    ELSE LET recus == demande.recus \cup {m.i} IN
         /\ demande' = [demande EXCEPT !.recus = recus]
         /\ IF Cardinality(recus) < Fragments
            THEN Demander(m.p, m.i + 1) /\ UNCHANGED pc
            ELSE pc' = "applique" /\ UNCHANGED versCore

HandleChunk(m) ==
    IF demande.manifeste # m.p THEN UNCHANGED <<demande, pc, versCore>>
    ELSE LET recus == demande.recus \cup {m.i} IN
         IF Cardinality(recus) < Fragments
         THEN /\ demande' = [demande EXCEPT !.recus = recus]
              /\ Demander(m.p, m.i + 1) /\ UNCHANGED pc
         ELSE /\ demande' = [demande EXCEPT !.ouverte = FALSE, !.recus = recus]
              /\ pc' = "applique" /\ UNCHANGED versCore

Recevoir ==
    /\ versAgent # <<>> /\ versAgent' = Tail(versAgent)
    /\ LET m == Head(versAgent) IN
       CASE ~demande.ouverte -> UNCHANGED <<demande, pc, versCore>>
         [] demande.ouverte /\ m.t = "manifeste" -> HandleManifest(m)
         [] demande.ouverte /\ m.t = "fragment" -> HandleChunk(m)
         [] OTHER -> Abandonner /\ UNCHANGED versCore
    /\ UNCHANGED <<courante, transfert, resultats, etat, disque, frais, aleas>>

-----------------------------------------------------------------------------
(* The agent: the application. *)

Recue == demande.manifeste
Connu(k) == etat.modules[k] = Version[Recue][k]
Ecrits(k) == DOMAIN Effet[k][Version[Recue][k]]

\* The disk after module k wrote the objects of s.
Ecrire(k, s) == [o \in Objets |-> IF o \in s THEN Effet[k][Version[Recue][k]][o] ELSE disque[o]]

ApplyModule ==
    LET k == Ordre[Recue][Len(resultats) + 1]
        Note(r) == resultats' = Append(resultats, r)
    IN /\ pc = "applique" /\ Len(resultats) < Len(Ordre[Recue])
       /\ \/ Connu(k) /\ Note("unchanged") /\ UNCHANGED <<disque, aleas>>
          \/ ~Connu(k) /\ k \in NonApplicables /\ Note("skipped") /\ UNCHANGED <<disque, aleas>>
          \/ ~Connu(k) /\ k \notin NonApplicables /\ Note("applied")
             /\ disque' = Ecrire(k, Ecrits(k)) /\ UNCHANGED aleas
          \/ ~Connu(k) /\ k \notin NonApplicables /\ Note("failed")
             /\ (\E s \in SUBSET Ecrits(k) : disque' = Ecrire(k, s)) /\ Alea("pannes", MaxPannes)
       /\ UNCHANGED <<courante, reseau, pc, demande, etat, frais>>

Avec(r) == {Ordre[Recue][i] : i \in {j \in 1..Len(resultats) : resultats[j] = r}}

\* The last module of the cycle that wrote o, whose content the inventory keeps.
DernierEcrivain(o) ==
    LET ecrivains == {i \in 1..Len(resultats) :
                         resultats[i] = "applied" /\ o \in Ecrits(Ordre[Recue][i])}
    IN IF ecrivains = {} THEN Aucun
       ELSE Ordre[Recue][CHOOSE i \in ecrivains : \A j \in ecrivains : j <= i]

(* Mutant of Proprietaires. *)
Proprietaires_cumules(o) ==
    etat.attendu[o].proprietaires \cup {k \in Avec("applied") : o \in Ecrits(k)}

\* Those who answer for o: what a module declares replaces what it declared.
Proprietaires(o) ==
    ((etat.attendu[o].proprietaires \cap ClesDe(Recue)) \ Avec("applied"))
    \cup {k \in Avec("applied") : o \in Ecrits(k)}

Inventaire(o) ==
    LET dernier == DernierEcrivain(o)
    IN [contenu |-> CASE Proprietaires(o) = {} -> Aucun
                      [] dernier # Aucun -> Effet[dernier][Version[Recue][dernier]][o]
                      [] OTHER -> etat.attendu[o].contenu,
        proprietaires |-> Proprietaires(o)]

(* Mutant of EmpreinteEcrite. *)
EmpreinteEcrite_toujours == Recue

EmpreinteEcrite == IF Avec("failed") = {} THEN Recue ELSE etat.empreinte

BuildScopeState ==
    [empreinte |-> EmpreinteEcrite, version |-> Recue, audit |-> Audit[Recue],
     modules |-> [k \in Cles |-> IF k \in Avec("applied") \cup Avec("unchanged")
                                 THEN Version[Recue][k] ELSE Aucun],
     attendu |-> [o \in Objets |-> Inventaire(o)]]

FinCycle ==
    /\ pc = "applique" /\ Len(resultats) = Len(Ordre[Recue])
    /\ \/ etat' = BuildScopeState /\ UNCHANGED aleas
       \/ etat' = etat /\ Alea("pannes", MaxPannes)
    /\ resultats' = <<>> /\ Abandonner
    /\ UNCHANGED <<courante, reseau, disque, frais>>

-----------------------------------------------------------------------------
(* The environment: hands on the machine, stops, cuts of the tunnel. *)

Editer(o) ==
    /\ disque[o] # "main" /\ disque' = [disque EXCEPT ![o] = "main"]
    /\ Alea("mains", MaxMains)
    /\ UNCHANGED <<courante, reseau, pc, demande, resultats, etat, frais>>

Arret ==
    /\ versCore' = <<>> /\ versAgent' = <<>> /\ resultats' = <<>> /\ Abandonner
    /\ Alea("arrets", MaxArrets)
    /\ UNCHANGED <<courante, transfert, etat, disque, frais>>

Coupure ==
    /\ <<versCore, versAgent>> # <<<<>>, <<>>>> /\ versCore' = <<>> /\ versAgent' = <<>>
    /\ Alea("arrets", MaxArrets)
    /\ UNCHANGED <<courante, transfert, pc, demande, resultats, etat, disque, frais>>

Agent == DebutCycle \/ Delai \/ Recevoir \/ ApplyModule \/ FinCycle
Next ==
    \/ \E p \in Politiques : ChangerPolitique(p)
    \/ Repondre \/ Expirer
    \/ Agent
    \/ \E o \in Objets : Editer(o)
    \/ Arret \/ Coupure
Spec == Init /\ [][Next]_vars

\* The cycle comes back by its timer, both ends keep reading their tunnel.
FairSpec == Spec /\ WF_vars(Agent) /\ WF_vars(Recevoir) /\ WF_vars(Repondre)

-----------------------------------------------------------------------------
TypeOK ==
    /\ courante \in Politiques /\ transfert \in Politiques \cup {Aucun}
    /\ pc \in {"repos", "attend", "applique"}
    /\ demande.ouverte = (pc = "attend") /\ demande.recus \subseteq 0..(Fragments - 1)
    /\ pc = "applique" => demande.manifeste \in Politiques
    /\ etat.empreinte \in Politiques \cup {Aucun} /\ etat.version \in Politiques \cup {Aucun}
    /\ frais \subseteq Politiques

\* When the agent announces the fingerprint the core compiles, which makes the
\* core answer that nothing changed, every module of that policy that has an
\* object on this machine is in place (apply.go:538).
PolitiqueTenue ==
    etat.empreinte = courante =>
        \A k \in ClesDe(courante) \ NonApplicables : etat.modules[k] = Version[courante][k]

\* The inventory says of each module held in place exactly what it wrote, and
\* names nobody the last policy does not hold: neither a change nobody sees
\* nor a drift nobody can correct (apply.go:409-449).
InventaireFidele ==
    /\ \A k \in Cles : etat.modules[k] # Aucun =>
          \A o \in DOMAIN Effet[k][etat.modules[k]] :
             /\ k \in etat.attendu[o].proprietaires
             /\ etat.attendu[o].contenu = Effet[k][etat.modules[k]][o]
    /\ \A o \in Objets : etat.attendu[o].proprietaires \subseteq ClesDe(etat.version)

\* A policy is only applied if the core compiled it at some time since the
\* cycle began, however late the frames of earlier cycles come.
PolitiqueFraiche == pc = "applique" => demande.manifeste \in frais

\* As long as no application fails, a module whose drift is only signalled
\* stays in the state, so no cycle writes over what a hand left in its
\* objects, even in an object a module to correct shares (drift.go:21-28).
AuditGarde ==
    aleas.pannes = 0 =>
        \A k \in etat.audit \ NonApplicables : etat.modules[k] = Version[etat.version][k]

\* Once policies, hands, failures and cuts have ended, the machine holds the
\* policy of the core: every object of its enforced modules has the content
\* they write.
Conforme ==
    \A k \in ClesDe(courante) \ (NonApplicables \cup Audit[courante]) :
        \A o \in DOMAIN Effet[k][Version[courante][k]] :
            disque[o] = Effet[k][Version[courante][k]][o]
Convergence == <>[]Conforme
=============================================================================
