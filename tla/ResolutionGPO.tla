--------------------------- MODULE ResolutionGPO ---------------------------
(***************************************************************************)
(* The machine policy on the core: administrators write policies, modules  *)
(* and definitions in the database, one statement after the other; at each *)
(* cycle of a machine a core reads the policies of its groups and then     *)
(* their modules, merges them, records the conflicts and delivers the      *)
(* rest.  A module is the thing it sets (its identity) and how it sets it; *)
(* every setting is the name of a definition.  One machine, whose groups   *)
(* do not change; scopes, parameters' validation and payloads are left out.*)
(***************************************************************************)
EXTENDS Integers, Sequences, FiniteSets, FiniteSetsExt, SequencesExt

CONSTANTS
    NbPolitiques,   \* the policies, named 1, 2, ... in the order of their names
    Deja,           \* those that exist at first, and are linked
    Cles,           \* the identities of modules, numbers in the order they are applied
    Reglages,       \* the names of definitions, by which a module sets its identity
    Admins, Cores,
    Aucun,          \* no core
    MaxModules,     \* bound: modules ever written
    MaxEcritures,   \* bound: operations of the administrators
    MaxPannes,      \* bound: operations that stop between two statements
    MaxCoupures     \* bound: answers lost with the tunnel

ResolutionAssumption ==
    /\ NbPolitiques \in Nat \ {0} /\ Cles \subseteq Nat /\ Reglages \subseteq Nat \ {0}
    /\ Aucun \notin Cores /\ Deja \subseteq 1..NbPolitiques
    /\ MaxModules \in Nat /\ MaxEcritures \in Nat /\ MaxPannes \in Nat /\ MaxCoupures \in Nat

Politiques == 1..NbPolitiques

VARIABLES
    gpo,            \* by policy: does it exist, is it enabled, linked, audited; its version
    modules,        \* the rows of gpo_module
    definitions,    \* the definitions that exist
    admin,          \* by administrator, the operation it is in
    lecture,        \* by core, the resolution it is in
    demande,        \* the core whose answer the machine waits for
    livre,          \* what the machine was last delivered
    range,          \* the conflicts recorded for the machine
    vus,            \* by core, the conflicts the base held while the core was reading
    compte

vars == <<gpo, modules, definitions, admin, lecture, demande, livre, range, vus, compte>>

Repos   == [pc |-> "repos", p |-> 1, module |-> 0, cle |-> 0, reglage |-> 0]
Inactif == [pc |-> "repos", lignes |-> <<>>, lus |-> {}]
Rien    == [modules |-> {}, conflits |-> {}, version |-> 0]

Absente == [la |-> FALSE, active |-> FALSE, liee |-> FALSE, audit |-> FALSE, version |-> 0]
Creee   == [la |-> TRUE, active |-> TRUE, liee |-> FALSE, audit |-> FALSE, version |-> 1]

\* Nobody has begun anything; the policies took ecrits modules to write.
AuRepos(ecrits) ==
    /\ definitions = Reglages
    /\ admin = [a \in Admins |-> Repos]
    /\ lecture = [c \in Cores |-> Inactif]
    /\ demande = Aucun
    /\ livre = Rien
    /\ range = {}
    /\ vus = [c \in Cores |-> {}]
    /\ compte = [ecrits |-> ecrits, ecritures |-> 0, pannes |-> 0, coupures |-> 0]

Init ==
    /\ gpo = [p \in Politiques |-> IF p \in Deja THEN [Creee EXCEPT !.liee = TRUE] ELSE Absente]
    /\ modules = {}
    /\ AuRepos(0)

De(p) == {m \in modules : m.p = p}

Servies == {p \in Politiques : gpo[p].la /\ gpo[p].active /\ gpo[p].liee}

(***************************************************************************)
(* What the policies of a machine ask for, said without an order: a thing  *)
(* is set when all those who set it agree, and corrected as soon as one of *)
(* them asks for it.                                                       *)
(***************************************************************************)
Sur(k) == {m \in modules : m.p \in Servies /\ m.cle = k}

Accord(k) == Cardinality({m.reglage : m \in Sur(k)}) = 1

Attendus == {[cle     |-> k,
              reglage |-> (CHOOSE m \in Sur(k) : TRUE).reglage,
              audit   |-> \A m \in Sur(k) : gpo[m.p].audit] : k \in {c \in Cles : Accord(c)}}

Opposes == {k \in Cles : Sur(k) # {} /\ ~Accord(k)}

(***************************************************************************)
(* The merge: policies in the order of their names, modules in the order   *)
(* they are applied.                                                       *)
(***************************************************************************)
SortModules(ms) == SetToSortSeq(ms, LAMBDA a, b : a.cle < b.cle \/ (a.cle = b.cle /\ a.id < b.id))

(* Mutant of Fusionner: the last policy read wins, instead of the correction that any asks for. *)
Fusionner_dernier(acc, p, m) ==
    LET deja == {e \in acc.retenus : e.cle = m.cle}
    IN  IF deja = {}
        THEN [acc EXCEPT !.retenus = @ \cup {[cle |-> m.cle, reglage |-> m.reglage,
                                              audit |-> p.audit, de |-> p.id, aussi |-> {}]}]
        ELSE LET e == CHOOSE x \in deja : TRUE
             IN  IF e.reglage = m.reglage
                 THEN [acc EXCEPT !.retenus = (@ \ {e}) \cup {[e EXCEPT !.audit = p.audit]}]
                 ELSE [acc EXCEPT !.conflits = @ \cup {[cle |-> m.cle, premier |-> e.de,
                                                        second |-> p.id]}]

Fusionner(acc, p, m) ==
    LET deja == {e \in acc.retenus : e.cle = m.cle}
        tout(e) == [e EXCEPT !.audit = @ /\ p.audit,
                             !.aussi = IF p.id # e.de THEN @ \cup {p.id} ELSE @]
    IN  IF deja = {}
        THEN [acc EXCEPT !.retenus = @ \cup {[cle |-> m.cle, reglage |-> m.reglage,
                                              audit |-> p.audit, de |-> p.id, aussi |-> {}]}]
        ELSE LET e == CHOOSE x \in deja : TRUE
             IN  IF e.reglage = m.reglage
                 THEN [acc EXCEPT !.retenus = (@ \ {e}) \cup {tout(e)}]
                 ELSE [acc EXCEPT !.conflits = @ \cup {[cle |-> m.cle, premier |-> e.de,
                                                        second |-> p.id]}]

Resolve(politiques) ==
    FoldLeft(LAMBDA acc, p : FoldLeft(LAMBDA a, m : Fusionner(a, p, m), acc, p.modules),
             [retenus |-> {}, conflits |-> {}], politiques)

BuildPolicyForDelivery(politiques) ==
    LET res    == Resolve(politiques)
        exclus == {c.cle : c \in res.conflits}
        reste  == {e \in res.retenus : e.cle \notin exclus}
        sources == UNION {e.aussi \cup {e.de} : e \in reste}
                     \cup UNION {{c.premier, c.second} : c \in res.conflits}
        comptees == SelectSeq(politiques, LAMBDA p : p.id \in sources)
    IN  [modules  |-> {[cle |-> e.cle, reglage |-> e.reglage, audit |-> e.audit] : e \in reste},
         conflits |-> exclus,
         version  |-> FoldLeft(LAMBDA n, p : n + p.version, 0, comptees)]

(***************************************************************************)
(* The writes.                                                             *)
(***************************************************************************)
Compter(champ) == compte' = [compte EXCEPT ![champ] = @ + 1]

\* The conflicts that exist while a core reads are those it may report.
Noter ==
    vus' = [c \in Cores |-> IF lecture[c].pc = "repos" THEN vus[c] ELSE vus[c] \cup Opposes']

LectureSeule == UNCHANGED <<lecture, demande, livre, range>>

PeutEcrire(a) == admin[a].pc = "repos" /\ compte.ecritures < MaxEcritures

CreatePolicy(a, p) ==
    /\ PeutEcrire(a) /\ ~gpo[p].la
    /\ gpo' = [gpo EXCEPT ![p] = Creee]
    /\ Compter("ecritures") /\ LectureSeule
    /\ UNCHANGED <<modules, definitions, admin>>
    /\ Noter

\* Whether it is enabled and how it drifts are one statement with the version.
UpdatePolicyMeta(a, p) ==
    /\ PeutEcrire(a) /\ gpo[p].la
    /\ \E active \in BOOLEAN :
          gpo' = [gpo EXCEPT ![p].active = active, ![p].version = @ + 1]
    /\ Compter("ecritures") /\ LectureSeule
    /\ UNCHANGED <<modules, definitions, admin>>
    /\ Noter

SetPolicyDriftMode(a, p) ==
    /\ PeutEcrire(a) /\ gpo[p].la
    /\ \E audit \in BOOLEAN :
          gpo' = [gpo EXCEPT ![p].audit = audit, ![p].version = @ + 1]
    /\ Compter("ecritures") /\ LectureSeule
    /\ UNCHANGED <<modules, definitions, admin>>
    /\ Noter

\* The links carry no version.
LinkPolicyToGroup(a, p) ==
    /\ PeutEcrire(a) /\ gpo[p].la /\ ~gpo[p].liee
    /\ gpo' = [gpo EXCEPT ![p].liee = TRUE]
    /\ Compter("ecritures") /\ LectureSeule
    /\ UNCHANGED <<modules, definitions, admin>>
    /\ Noter

UnlinkPolicyFromGroup(a, p) ==
    /\ PeutEcrire(a) /\ gpo[p].la /\ gpo[p].liee
    /\ gpo' = [gpo EXCEPT ![p].liee = FALSE]
    /\ Compter("ecritures") /\ LectureSeule
    /\ UNCHANGED <<modules, definitions, admin>>
    /\ Noter

(* Mutant of DeletePolicyByName: the modules stay when the policy goes. *)
DeletePolicyByName_cascade(a, p) ==
    /\ PeutEcrire(a) /\ gpo[p].la
    /\ gpo' = [gpo EXCEPT ![p] = Absente]
    /\ UNCHANGED modules
    /\ Compter("ecritures") /\ LectureSeule
    /\ UNCHANGED <<definitions, admin>>
    /\ Noter

\* The modules and the links go with the policy.
DeletePolicyByName(a, p) ==
    /\ PeutEcrire(a) /\ gpo[p].la
    /\ gpo' = [gpo EXCEPT ![p] = Absente]
    /\ modules' = modules \ De(p)
    /\ Compter("ecritures") /\ LectureSeule
    /\ UNCHANGED <<definitions, admin>>
    /\ Noter

\* A policy is accepted when its definitions exist and it sets nothing twice.
ValidatePolicy(ms) ==
    /\ \A m \in ms : m.reglage \in definitions
    /\ \A m, n \in ms : m.cle = n.cle => m = n

\* AddModule reads the policy and checks it whole, then inserts.
AddModule(a, p, k, r) ==
    /\ PeutEcrire(a) /\ gpo[p].la
    /\ ValidatePolicy(De(p) \cup {[id |-> 0, p |-> p, cle |-> k, reglage |-> r]})
    /\ admin' = [admin EXCEPT ![a] = [pc |-> "inserer", p |-> p, module |-> 0, cle |-> k,
                                      reglage |-> r]]
    /\ Compter("ecritures") /\ LectureSeule
    /\ UNCHANGED <<gpo, modules, definitions, vus>>

\* The insertion fails when the policy was deleted.
Inserer(a) ==
    /\ admin[a].pc = "inserer"
    /\ IF gpo[admin[a].p].la
       THEN /\ compte.ecrits < MaxModules
            /\ modules' = modules \cup {[id |-> compte.ecrits + 1, p |-> admin[a].p,
                                         cle |-> admin[a].cle, reglage |-> admin[a].reglage]}
            /\ admin' = [admin EXCEPT ![a].pc = "version"]
            /\ Compter("ecrits")
       ELSE /\ admin' = [admin EXCEPT ![a] = Repos]
            /\ UNCHANGED <<modules, compte>>
    /\ LectureSeule
    /\ UNCHANGED <<gpo, definitions>>
    /\ Noter

(* Mutant of UpdateModuleParams: the module is checked alone, not the policy it is in. *)
UpdateModuleParams_seul(a, m, k, r) ==
    /\ PeutEcrire(a)
    /\ r \in definitions
    /\ admin' = [admin EXCEPT ![a] = [pc |-> "remplacer", p |-> m.p, module |-> m.id, cle |-> k,
                                      reglage |-> r]]
    /\ Compter("ecritures") /\ LectureSeule
    /\ UNCHANGED <<gpo, modules, definitions, vus>>

\* UpdateModuleParams checks the policy with the module replaced, then writes.
UpdateModuleParams(a, m, k, r) ==
    /\ PeutEcrire(a)
    /\ ValidatePolicy((De(m.p) \ {m}) \cup {[m EXCEPT !.cle = k, !.reglage = r]})
    /\ admin' = [admin EXCEPT ![a] = [pc |-> "remplacer", p |-> m.p, module |-> m.id, cle |-> k,
                                      reglage |-> r]]
    /\ Compter("ecritures") /\ LectureSeule
    /\ UNCHANGED <<gpo, modules, definitions, vus>>

\* A module deleted in between is not written; the version moves all the same.
Remplacer(a) ==
    /\ admin[a].pc = "remplacer"
    /\ modules' = {IF m.id = admin[a].module
                   THEN [m EXCEPT !.cle = admin[a].cle, !.reglage = admin[a].reglage]
                   ELSE m : m \in modules}
    /\ admin' = [admin EXCEPT ![a].pc = "version"]
    /\ LectureSeule
    /\ UNCHANGED <<gpo, definitions, compte>>
    /\ Noter

DeleteModule(a, m) ==
    /\ PeutEcrire(a)
    /\ modules' = modules \ {m}
    /\ admin' = [admin EXCEPT ![a] = [Repos EXCEPT !.pc = "version", !.p = m.p]]
    /\ Compter("ecritures") /\ LectureSeule
    /\ UNCHANGED <<gpo, definitions>>
    /\ Noter

BumpVersion(a) ==
    /\ admin[a].pc = "version"
    /\ gpo' = [gpo EXCEPT ![admin[a].p].version = IF gpo[admin[a].p].la THEN @ + 1 ELSE @]
    /\ admin' = [admin EXCEPT ![a] = Repos]
    /\ LectureSeule
    /\ UNCHANGED <<modules, definitions, vus, compte>>

SaveDefinition(a, r) ==
    /\ PeutEcrire(a) /\ r \notin definitions
    /\ definitions' = definitions \cup {r}
    /\ Compter("ecritures") /\ LectureSeule
    /\ UNCHANGED <<gpo, modules, admin, vus>>

(* Mutant of DeleteDefinition: only the modules of enabled policies are looked at. *)
DeleteDefinition_aveugle(a, r) ==
    /\ PeutEcrire(a) /\ r \in definitions
    /\ \A m \in modules : gpo[m.p].active => m.reglage # r
    /\ admin' = [admin EXCEPT ![a] = [Repos EXCEPT !.pc = "effacer", !.reglage = r]]
    /\ Compter("ecritures") /\ LectureSeule
    /\ UNCHANGED <<gpo, modules, definitions, vus>>

\* DeleteDefinition looks for a module that uses it, then deletes.
DeleteDefinition(a, r) ==
    /\ PeutEcrire(a) /\ r \in definitions
    /\ \A m \in modules : m.reglage # r
    /\ admin' = [admin EXCEPT ![a] = [Repos EXCEPT !.pc = "effacer", !.reglage = r]]
    /\ Compter("ecritures") /\ LectureSeule
    /\ UNCHANGED <<gpo, modules, definitions, vus>>

Effacer(a) ==
    /\ admin[a].pc = "effacer"
    /\ definitions' = definitions \ {admin[a].reglage}
    /\ admin' = [admin EXCEPT ![a] = Repos]
    /\ LectureSeule
    /\ UNCHANGED <<gpo, modules, vus, compte>>

\* The core stops, or the base refuses the next statement.
Interrompre(a) ==
    /\ admin[a].pc # "repos" /\ compte.pannes < MaxPannes
    /\ admin' = [admin EXCEPT ![a] = Repos]
    /\ Compter("pannes") /\ LectureSeule
    /\ UNCHANGED <<gpo, modules, definitions, vus>>

(***************************************************************************)
(* The cycle of the machine.                                               *)
(***************************************************************************)
\* 05_01 reaches a core, which reads the policies and not yet their modules.
\* The fields of a policy come as they are read, its modules later.
AskMachine(c) ==
    /\ demande = Aucun /\ lecture[c].pc = "repos"
    /\ demande' = c
    /\ lecture' = [lecture EXCEPT ![c] =
          [pc |-> "lit",
           lignes |-> [i \in 1..Cardinality(Servies) |->
                         LET p == SetToSortSeq(Servies, <)[i]
                         IN  [id |-> p, audit |-> gpo[p].audit, version |-> gpo[p].version,
                              modules |-> <<>>]],
           lus |-> {}]]
    /\ vus' = [vus EXCEPT ![c] = Opposes]
    /\ UNCHANGED <<gpo, modules, definitions, admin, livre, range, compte>>

GetModulesForPolicy(c) ==
    LET i == Cardinality(lecture[c].lus) + 1
    IN  /\ lecture[c].pc = "lit" /\ i <= Len(lecture[c].lignes)
        /\ lecture' = [lecture EXCEPT ![c].lus = @ \cup {i},
                                      ![c].lignes[i].modules = SortModules(De(lecture[c].lignes[i].id))]
        /\ UNCHANGED <<gpo, modules, definitions, admin, demande, livre, range, vus, compte>>

(* Mutant of ServeScope: the conflicts are recorded only when there are some. *)
ServeScope_garde(c) ==
    LET b == BuildPolicyForDelivery(lecture[c].lignes)
    IN  /\ lecture[c].pc = "lit" /\ Cardinality(lecture[c].lus) = Len(lecture[c].lignes)
        /\ range' = IF b.conflits = {} THEN range ELSE b.conflits
        /\ lecture' = [lecture EXCEPT ![c] = Inactif]
        /\ IF demande = c
           THEN livre' = b /\ demande' = Aucun
           ELSE UNCHANGED <<livre, demande>>
        /\ vus' = [vus EXCEPT ![c] = {}]
        /\ UNCHANGED <<gpo, modules, definitions, admin, compte>>

\* The conflicts are recorded, or erased when there is none; the rest is
\* delivered to the machine, unless its tunnel is gone.
ServeScope(c) ==
    LET b == BuildPolicyForDelivery(lecture[c].lignes)
    IN  /\ lecture[c].pc = "lit" /\ Cardinality(lecture[c].lus) = Len(lecture[c].lignes)
        /\ range' = b.conflits
        /\ lecture' = [lecture EXCEPT ![c] = Inactif]
        /\ IF demande = c
           THEN livre' = b /\ demande' = Aucun
           ELSE UNCHANGED <<livre, demande>>
        /\ vus' = [vus EXCEPT ![c] = {}]
        /\ UNCHANGED <<gpo, modules, definitions, admin, compte>>

\* The tunnel is cut: the machine asks another time, and the core goes on.
Couper ==
    /\ demande # Aucun /\ compte.coupures < MaxCoupures
    /\ demande' = Aucun
    /\ Compter("coupures")
    /\ UNCHANGED <<gpo, modules, definitions, admin, lecture, livre, range, vus>>

Ecrire(a) ==
    \/ \E p \in Politiques : \/ CreatePolicy(a, p) \/ DeletePolicyByName(a, p)
                             \/ UpdatePolicyMeta(a, p) \/ SetPolicyDriftMode(a, p)
                             \/ LinkPolicyToGroup(a, p) \/ UnlinkPolicyFromGroup(a, p)
    \/ \E p \in Politiques, k \in Cles, r \in Reglages : AddModule(a, p, k, r)
    \/ \E m \in modules, k \in Cles, r \in Reglages : UpdateModuleParams(a, m, k, r)
    \/ \E m \in modules : DeleteModule(a, m)
    \/ \E r \in Reglages : SaveDefinition(a, r) \/ DeleteDefinition(a, r)

Continuer(a) == Inserer(a) \/ Remplacer(a) \/ BumpVersion(a) \/ Effacer(a)

Servir(c) == GetModulesForPolicy(c) \/ ServeScope(c)

Next ==
    \/ \E a \in Admins : Ecrire(a) \/ Continuer(a) \/ Interrompre(a)
    \/ \E c \in Cores : AskMachine(c) \/ Servir(c)
    \/ Couper

Spec == Init /\ [][Next]_vars

\* A core ends what it began, and the machine asks at every cycle.
Fairness ==
    /\ \A a \in Admins : WF_vars(Continuer(a))
    /\ \A c \in Cores : WF_vars(Servir(c))
    /\ WF_vars(\E c \in Cores : AskMachine(c))



(***************************************************************************)
(* Properties.                                                             *)
(***************************************************************************)
\* Types; and a core never knows more modules than the policies it read.
TypeOK ==
    /\ gpo \in [Politiques -> [la : BOOLEAN, active : BOOLEAN, liee : BOOLEAN, audit : BOOLEAN,
                               version : Nat]]
    /\ modules \subseteq [id : 1..MaxModules, p : Politiques, cle : Cles, reglage : Reglages]
    /\ definitions \subseteq Reglages
    /\ demande \in Cores \cup {Aucun}
    /\ range \subseteq Cles
    /\ livre.modules \subseteq [cle : Cles, reglage : Reglages, audit : BOOLEAN]
    /\ \A m \in modules : gpo[m.p].la
    /\ \A c \in Cores : lecture[c].lus \subseteq 1..Len(lecture[c].lignes)

\* A policy never sets the same thing twice: AddModule and UpdateModuleParams
\* check the policy whole before they write.
SansDoublon == \A m, n \in modules : m.p = n.p /\ m.cle = n.cle => m = n

\* A module never names a definition that is gone: a definition in use is not
\* deleted.
DefinitionsTenues == \A m \in modules : m.reglage \in definitions

\* What Resolve delivers from a base that does not move is what its policies
\* agree on, whatever their names and their number; a conflict takes away the
\* module it is about and nothing else, and each is recorded.
LivraisonExacte ==
    demande = Aucun /\ livre # Rien => /\ livre.modules = Attendus
                                       /\ range = Opposes /\ livre.conflits = Opposes

\* A recorded conflict opposed two policies at some moment of the resolution
\* that recorded it.
ConflitVu ==
    \A c \in Cores : ServeScope(c) => range' \subseteq vus[c]
ConflitReel == [][ConflitVu]_vars

\* The administrators write finitely often: in the end the machine is delivered
\* what the base says, and its recorded conflicts are the present ones.
Conforme == livre.modules = Attendus /\ range = Opposes

FinitConforme == <>[]Conforme
=============================================================================
