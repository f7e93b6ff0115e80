----------------------------- MODULE Droits_proof -----------------------------
(***************************************************************************)
(* Proofs about Droits for every directory, every set of permissions and   *)
(* of domains, and every bound: the protected account can always lift a    *)
(* deny, the evaluators agree, and, as long as one request is served at a  *)
(* time, only a holder of the global right places or lifts a deny.         *)
(***************************************************************************)
EXTENDS MCDroits, Sequences, FiniteSetTheorems, SequenceTheorems, TLAPS

Requetes == [compte : Comptes, perm : Permissions, op : Operations, domaine : DomainesRegles,
             propage : BOOLEAN, global : BOOLEAN, lu : BOOLEAN, courant : Valeurs]

Tables == /\ valeur \in [Permissions -> Valeurs]
          /\ liens \in [Groupes -> SUBSET Permissions]
          /\ membres \in [Comptes -> SUBSET Groupes]
          /\ demandes \subseteq Requetes

(* The protected account, its group, its permission and what it grants.    *)
Protege == /\ GroupeProtege \in membres[CompteProtege]
           /\ PermissionProtegee \in liens[GroupeProtege]
           /\ valeur[PermissionProtegee] = Genre("all")

IInv == Tables /\ Protege

-----------------------------------------------------------------------------
(* Values.                                                                 *)

(* A value other than a list grants all or nothing, and carries no domain. *)
LEMMA FormeDesValeurs ==
  ASSUME NEW v \in Valeurs
  PROVE  /\ v.genre \in {"nil", "all", "deny", "custom"}
         /\ v.exact \subseteq DomainesRegles /\ v.propage \subseteq DomainesRegles
         /\ v.genre # "custom" => v = Genre(v.genre) /\ v.exact = {} /\ v.propage = {}
BY DEF Valeurs, Genre

(* The kinds of the values that are written without a list.                *)
LEMMA GenresDesValeurs ==
  ASSUME NEW g \in {"nil", "all", "deny"}
  PROVE  Genre(g) \in Valeurs /\ Genre(g).genre = g
BY DEF Valeurs, Genre

(* Adding a domain to a value, or removing one, gives a list of domains.   *)
LEMMA ListeEcrite ==
  ASSUME NEW v \in Valeurs, NEW d \in DomainesRegles, NEW propage \in BOOLEAN,
         NEW ajout \in BOOLEAN
  PROVE  /\ UpdatePermissionAction(v, d, propage, ajout) \in Valeurs
         /\ UpdatePermissionAction(v, d, propage, ajout).genre = "custom"
<1>1. v.exact \subseteq DomainesRegles /\ v.propage \subseteq DomainesRegles
  BY FormeDesValeurs
<1> DEFINE e == IF propage THEN v.exact
                ELSE IF ajout THEN v.exact \cup {d} ELSE v.exact \ {d}
           q == IF propage THEN (IF ajout THEN v.propage \cup {d} ELSE v.propage \ {d})
                ELSE v.propage
<1>2. UpdatePermissionAction(v, d, propage, ajout) = [genre |-> "custom", exact |-> e, propage |-> q]
  BY DEF UpdatePermissionAction
<1>3. e \in SUBSET DomainesRegles /\ q \in SUBSET DomainesRegles
  BY <1>1
<1> HIDE DEF e, q
<1> QED BY <1>2, <1>3 DEF Valeurs

(* What a request writes is a value, and a deny only if it asked for one.  *)
LEMMA NouvelleValeur ==
  ASSUME NEW r \in Requetes
  PROVE  Nouvelle(r) \in Valeurs /\ (Nouvelle(r).genre = "deny" => r.op = "deny")
<1>1. /\ r.op \in Operations /\ r.courant \in Valeurs /\ r.domaine \in DomainesRegles
      /\ r.propage \in BOOLEAN
  BY DEF Requetes
<1>2. CASE r.op = "add"
  <2>1. Nouvelle(r) = UpdatePermissionAction(r.courant, r.domaine, r.propage, TRUE)
    BY <1>2 DEF Nouvelle
  <2> QED BY <1>1, <2>1, ListeEcrite
<1>3. CASE r.op = "remove"
  <2> DEFINE v == UpdatePermissionAction(r.courant, r.domaine, r.propage, FALSE)
  <2>1. v \in Valeurs /\ v.genre = "custom"
    BY <1>1, ListeEcrite
  <2>2. Nouvelle(r) = IF v.exact \cup v.propage = {} THEN Genre("nil") ELSE v
    BY <1>3 DEF Nouvelle
  <2> HIDE DEF v
  <2> QED BY <2>1, <2>2, GenresDesValeurs
<1>4. CASE r.op \in {"nil", "all", "deny"}
  <2>1. Nouvelle(r) = Genre(r.op)
    BY <1>4 DEF Nouvelle
  <2> QED BY <1>4, <2>1, GenresDesValeurs
<1> QED BY <1>1, <1>2, <1>3, <1>4 DEF Operations

-----------------------------------------------------------------------------
(* The tables and what is protected.                                       *)

LEMMA DepartDesDroits == Init => IInv
<1> SUFFICES ASSUME Init PROVE IInv
  OBVIOUS
<1>1. Genre("all") \in Valeurs
  BY GenresDesValeurs
<1> QED BY <1>1, ProtegesAssumption, ValeursAssumption DEF Init, IInv, Tables, Protege

(* A request is written down as the control found it.                      *)
LEMMA RequeteDemandee ==
  ASSUME NEW c \in Comptes, NEW p \in Permissions, NEW op \in Operations,
         NEW d \in DomainesRegles, NEW b \in Propagations, DemanderReglage(c, p, op, d, b)
  PROVE  \E q \in Requetes : /\ demandes' = demandes \cup {q}
                             /\ q.perm = p /\ q.op = op /\ ~q.lu
                             /\ q.global <=> Controler(c, {Tout})
<1> DEFINE gl == Controler(c, {Tout})
           q == [compte |-> c, perm |-> p, op |-> op, domaine |-> d, propage |-> b,
                 global |-> gl, lu |-> FALSE, courant |-> Genre("nil")]
<1>1. demandes' = demandes \cup {q}
  BY DEF DemanderReglage
<1>2. gl \in BOOLEAN
  BY DEF Controler, CheckPermissionsAllDomains
<1>3. Genre("nil") \in Valeurs /\ b \in BOOLEAN
  BY GenresDesValeurs, ProtegesAssumption
<1>4. q.global = gl
  OBVIOUS
<1> HIDE DEF gl
<1>5. q \in Requetes /\ q.perm = p /\ q.op = op /\ q.lu = FALSE
  BY <1>2, <1>3 DEF Requetes
<1> HIDE DEF q
<1> QED BY <1>1, <1>4, <1>5 DEF gl

(* The read fills in the request and changes nothing else of it.           *)
LEMMA RequeteLue ==
  ASSUME NEW r \in Requetes, NEW v \in Valeurs
  PROVE  LET q == [r EXCEPT !.lu = TRUE, !.courant = v]
         IN  q \in Requetes /\ q.perm = r.perm /\ q.op = r.op /\ q.global = r.global
BY DEF Requetes

LEMMA PasDesDroits == IInv /\ [Next]_vars => IInv'
<1> SUFFICES ASSUME IInv, [Next]_vars PROVE IInv'
  OBVIOUS
<1>1. /\ valeur \in [Permissions -> Valeurs] /\ liens \in [Groupes -> SUBSET Permissions]
      /\ membres \in [Comptes -> SUBSET Groupes] /\ demandes \subseteq Requetes /\ Protege
  BY DEF IInv, Tables
<1>2. ASSUME NEW c \in Comptes, NEW p \in Permissions, NEW op \in Operations,
             NEW d \in DomainesRegles, NEW b \in Propagations, DemanderReglage(c, p, op, d, b)
      PROVE  IInv'
  <2>1. demandes' \subseteq Requetes
    BY <1>1, <1>2, RequeteDemandee
  <2> QED BY <1>1, <1>2, <2>1 DEF DemanderReglage, IInv, Tables, Protege
<1>3. ASSUME NEW r \in demandes, LireAction(r) PROVE IInv'
  <2>1. r \in Requetes /\ valeur[r.perm] \in Valeurs
    BY <1>1 DEF Requetes
  <2>2. demandes' \subseteq Requetes
    BY <1>1, <1>3, <2>1, RequeteLue DEF LireAction
  <2> QED BY <1>1, <1>3, <2>2 DEF LireAction, IInv, Tables, Protege
<1>4. ASSUME NEW r \in demandes, ReglerActionPermission(r) PROVE IInv'
  <2>1. r \in Requetes /\ Nouvelle(r) \in Valeurs
    BY <1>1, NouvelleValeur
  <2>2. \/ valeur' = valeur
        \/ r.perm # PermissionProtegee /\ valeur' = [valeur EXCEPT ![r.perm] = Nouvelle(r)]
    BY <1>4 DEF ReglerActionPermission, SetUserPermissionAction
  <2>3. valeur' \in [Permissions -> Valeurs] /\ valeur'[PermissionProtegee] = valeur[PermissionProtegee]
    BY <1>1, <2>1, <2>2, ProtegesAssumption
  <2> QED BY <1>1, <1>4, <2>3 DEF ReglerActionPermission, IInv, Tables, Protege
<1>5. ASSUME NEW c \in Comptes, NEW p \in Permissions, NEW g \in Groupes,
             AjouterPermissionAuGroupe(c, p, g) \/ RetirerPermissionDuGroupe(c, p, g)
      PROVE  IInv'
  <2>1. liens' \in [Groupes -> SUBSET Permissions]
    BY <1>1, <1>5 DEF AjouterPermissionAuGroupe, RetirerPermissionDuGroupe
  <2>2. PermissionProtegee \in liens'[GroupeProtege]
    BY <1>1, <1>5, ProtegesAssumption
       DEF AjouterPermissionAuGroupe, RetirerPermissionDuGroupe, Protege
  <2>3. UNCHANGED <<valeur, membres, demandes>>
    BY <1>5 DEF AjouterPermissionAuGroupe, RetirerPermissionDuGroupe
  <2> QED BY <1>1, <2>1, <2>2, <2>3 DEF IInv, Tables, Protege
<1>6. ASSUME NEW c \in Comptes, NEW u \in Comptes, NEW g \in Groupes,
             AjouterUtilisateurAuGroupe(c, u, g) \/ RetirerUtilisateurDuGroupe(c, u, g)
      PROVE  IInv'
  <2>1. membres' \in [Comptes -> SUBSET Groupes]
    BY <1>1, <1>6 DEF AjouterUtilisateurAuGroupe, RetirerUtilisateurDuGroupe
  <2>2. GroupeProtege \in membres'[CompteProtege]
    BY <1>1, <1>6, ProtegesAssumption
       DEF AjouterUtilisateurAuGroupe, RetirerUtilisateurDuGroupe, Protege
  <2>3. UNCHANGED <<valeur, liens, demandes>>
    BY <1>6 DEF AjouterUtilisateurAuGroupe, RetirerUtilisateurDuGroupe
  <2> QED BY <1>1, <2>1, <2>2, <2>3 DEF IInv, Tables, Protege
<1>7. CASE UNCHANGED vars
  BY <1>1, <1>7 DEF vars, IInv, Tables, Protege
<1>8. CASE Next
  BY <1>2, <1>3, <1>4, <1>5, <1>6, <1>8 DEF Next
<1> QED BY <1>7, <1>8

LEMMA Invariance == Spec => []IInv
BY DepartDesDroits, PasDesDroits, PTL DEF Spec

-----------------------------------------------------------------------------
(* The protected account.                                                  *)

(* The protected group is read by its protected permission, the first.     *)
LEMMA LueProtegee ==
  ASSUME IInv PROVE Lue(GroupeProtege) = PermissionProtegee
<1>1. /\ liens[GroupeProtege] \subseteq Nat /\ PermissionProtegee \in liens[GroupeProtege]
      /\ \A q \in liens[GroupeProtege] : PermissionProtegee <= q
  BY ProtegesAssumption DEF IInv, Tables, Protege
<1>2. \A p \in liens[GroupeProtege] :
        (\A q \in liens[GroupeProtege] : p <= q) => p = PermissionProtegee
  BY <1>1
<1> QED BY <1>1, <1>2 DEF Lue

(* Whatever is asked of a domain or of all, the protected account has it.  *)
LEMMA PouvoirProtege ==
  ASSUME IInv, NEW ds PROVE Controler(CompteProtege, ds)
<1> DEFINE gs == membres[CompteProtege]
<1>1. GroupeProtege \in gs /\ liens[GroupeProtege] # {} /\ valeur[Lue(GroupeProtege)] = Genre("all")
  BY LueProtegee DEF IInv, Protege
<1>2. Genre("all") \in Contenus(gs) /\ Genre("all").genre = "all"
  BY <1>1, GenresDesValeurs DEF Contenus
<1>3. ~RefusExplicite(gs) /\ ~RefuserDomaineProtege(gs, ds)
  BY <1>1 DEF RefusExplicite, RefuserDomaineProtege, Exempte
<1>4. \A d : IsDomainAllowed(gs, d)
  BY <1>2 DEF IsDomainAllowed, Octrois, Accorde
<1> HIDE DEF gs
<1>5. CheckPermissionsAllDomains(gs, ds)
  BY <1>2, <1>3, <1>4 DEF CheckPermissionsAllDomains
<1> QED BY <1>5 DEF Controler, gs

(* Whatever denies, links and memberships the administrators write, one    *)
(* after the other or interleaved, the protected account may still write   *)
(* every value of every permission, so that no deny is beyond repair.      *)
THEOREM ReparationTenue == Spec => []ReparationPossible
<1>1. IInv => ReparationPossible
  BY PouvoirProtege DEF ReparationPossible
<1> QED BY <1>1, Invariance, PTL

-----------------------------------------------------------------------------
(* The evaluators.                                                         *)

(* For any groups: the page, the list and the writes say the same.         *)
LEMMA AccordDesEvaluateurs ==
  ASSUME NEW gs, NEW ds, ds # {}
  PROVE  LET ou == DomainsWhereAllowed(gs)
         IN  /\ HasActionAnywhere(gs) <=> ~IsEmpty(ou)
             /\ CheckPermissionsAllDomains(gs, ds) <=>
                  (\A d \in ds : Allows(ou, d)) /\ ~RefuserDomaineProtege(gs, ds)
             /\ CheckPermissionsMultipleDomains(gs, ds) <=> \E d \in ds : Allows(ou, d)
<1> DEFINE vs == IF RefusExplicite(gs) THEN {} ELSE Octrois(gs)
           ou == DomainsWhereAllowed(gs)
<1>1. /\ ou.global <=> \E v \in vs : v.genre = "all"
      /\ ou.exact = UNION {v.exact : v \in vs} /\ ou.propage = UNION {v.propage : v \in vs}
  BY DEF DomainsWhereAllowed
<1> HIDE DEF ou
<1>2. \A d : Allows(ou, d) <=> \E v \in vs : Accorde(v, d)
  BY <1>1 DEF Allows, Accorde
<1>3. ~IsEmpty(ou) <=> \E v \in vs : v.genre = "all" \/ v.exact # {} \/ v.propage # {}
  BY <1>1 DEF IsEmpty
<1>4. CASE RefusExplicite(gs)
  <2>1. vs = {}
    BY <1>4
  <2> HIDE DEF vs
  <2> QED BY <1>2, <1>3, <1>4, <2>1
          DEF HasActionAnywhere, CheckPermissionsAllDomains, CheckPermissionsMultipleDomains, ou
<1>5. CASE ~RefusExplicite(gs)
  <2>1. vs = Octrois(gs)
    BY <1>5
  <2> HIDE DEF vs
  <2>2. HasActionAnywhere(gs) <=> ~IsEmpty(ou)
    BY <1>3, <1>5, <2>1 DEF HasActionAnywhere
  <2>3. CheckPermissionsAllDomains(gs, ds) <=>
          (\A d \in ds : Allows(ou, d)) /\ ~RefuserDomaineProtege(gs, ds)
    BY <1>2, <1>5, <2>1 DEF CheckPermissionsAllDomains, IsDomainAllowed
  <2>4. CheckPermissionsMultipleDomains(gs, ds) <=> \E d \in ds : Allows(ou, d)
    BY <1>2, <1>5, <2>1 DEF CheckPermissionsMultipleDomains
  <2> QED BY <2>2, <2>3, <2>4 DEF ou
<1> QED BY <1>4, <1>5

LEMMA AccordPartout == Accord
<1> SUFFICES ASSUME NEW c \in Comptes
             PROVE  LET gs == membres[c]
                        ou == DomainsWhereAllowed(gs)
                    IN  /\ HasActionAnywhere(gs) <=> ~IsEmpty(ou)
                        /\ \A ds \in (SUBSET Domaines) \ {{}} :
                             /\ CheckPermissionsAllDomains(gs, ds) <=>
                                  (\A d \in ds : Allows(ou, d)) /\ ~RefuserDomaineProtege(gs, ds)
                             /\ CheckPermissionsMultipleDomains(gs, ds) <=>
                                  \E d \in ds : Allows(ou, d)
  BY DEF Accord
<1>1. HasActionAnywhere(membres[c]) <=> ~IsEmpty(DomainsWhereAllowed(membres[c]))
  <2>1. {Tout} # {}
    OBVIOUS
  <2> QED BY <2>1, AccordDesEvaluateurs, Zenon
<1>2. ASSUME NEW ds \in (SUBSET Domaines) \ {{}}
      PROVE  /\ CheckPermissionsAllDomains(membres[c], ds) <=>
                  /\ \A d \in ds : Allows(DomainsWhereAllowed(membres[c]), d)
                  /\ ~RefuserDomaineProtege(membres[c], ds)
             /\ CheckPermissionsMultipleDomains(membres[c], ds) <=>
                  \E d \in ds : Allows(DomainsWhereAllowed(membres[c]), d)
  <2>1. ds # {}
    OBVIOUS
  <2> QED BY <2>1, AccordDesEvaluateurs, Zenon
<1> QED BY <1>1, <1>2, Zenon

(* A delegate sees in a list the domains he could write on, apart from the *)
(* protected ones, a page opens when one domain is allowed, and an action  *)
(* on any domain passes when one of its domains does.                      *)
THEOREM AccordTenu == Spec => []Accord
BY AccordPartout, PTL

-----------------------------------------------------------------------------
(* The LDAP search and the login.                                          *)

UnParGroupe == \A g \in Groupes : \A p, q \in liens[g] : p = q

(* Groups that may carry one permission carry no second one.               *)
LEMMA PasUnParGroupe ==
  ASSUME MaxParGroupe = 1, IInv, UnParGroupe, [Next]_vars PROVE UnParGroupe'
<1>1. liens \in [Groupes -> SUBSET Permissions]
  BY DEF IInv, Tables
<1>2. ASSUME NEW c \in Comptes, NEW p \in Permissions, NEW g \in Groupes,
             AjouterPermissionAuGroupe(c, p, g)
      PROVE  UnParGroupe'
  <2>1. liens[g] = {}
    <3> SUFFICES ASSUME NEW q \in liens[g] PROVE FALSE
      OBVIOUS
    <3>1. liens[g] = {q}
      BY DEF UnParGroupe
    <3>2. Cardinality(liens[g]) = 1
      BY <3>1, FS_Singleton
    <3> QED BY <1>2, <3>2 DEF AjouterPermissionAuGroupe
  <2>2. liens'[g] = {p} /\ \A h \in Groupes : h # g => liens'[h] = liens[h]
    BY <1>1, <1>2, <2>1 DEF AjouterPermissionAuGroupe
  <2> QED BY <2>2 DEF UnParGroupe
<1>3. ASSUME NEW c \in Comptes, NEW p \in Permissions, NEW g \in Groupes,
             RetirerPermissionDuGroupe(c, p, g)
      PROVE  UnParGroupe'
  <2>1. \A h \in Groupes : liens'[h] \subseteq liens[h]
    BY <1>1, <1>3 DEF RetirerPermissionDuGroupe
  <2> QED BY <2>1 DEF UnParGroupe
<1>4. CASE UNCHANGED liens
  BY <1>4 DEF UnParGroupe
<1>5. Next \/ UNCHANGED vars
  OBVIOUS
<1> QED BY <1>2, <1>3, <1>4, <1>5
        DEF Next, vars, DemanderReglage, LireAction, ReglerActionPermission,
            AjouterUtilisateurAuGroupe, RetirerUtilisateurDuGroupe

(* Then reading one permission per group reads them all.                   *)
LEMMA LuesToutes ==
  ASSUME IInv, UnParGroupe, NEW gs \in SUBSET Groupes
  PROVE  /\ GetUserPermissionsForAction(gs) = Contenus(gs)
         /\ \A g \in gs : \A p \in liens[g] : valeur[p] \in Contenus(gs)
         /\ Contenus(gs) \subseteq Valeurs
<1>1. /\ valeur \in [Permissions -> Valeurs] /\ liens \in [Groupes -> SUBSET Permissions]
      /\ Permissions \subseteq Nat
  BY ProtegesAssumption DEF IInv, Tables
<1>2. ASSUME NEW g \in Groupes, NEW p \in liens[g] PROVE Lue(g) = p
  <2>1. p <= p /\ \A q \in liens[g] : q = p
    BY <1>1 DEF UnParGroupe
  <2> QED BY <2>1 DEF Lue
<1>3. \A g \in gs : \A p \in liens[g] : valeur[p] \in Contenus(gs)
  BY <1>2 DEF Contenus
<1>4. ASSUME NEW v \in Contenus(gs) PROVE \E g \in gs : \E p \in liens[g] : v = valeur[p]
  <2>1. PICK g \in gs : liens[g] # {} /\ v = valeur[Lue(g)]
    BY DEF Contenus
  <2>2. PICK p : p \in liens[g]
    BY <2>1
  <2> QED BY <1>2, <2>1, <2>2
<1>5. GetUserPermissionsForAction(gs) = Contenus(gs)
  BY <1>3, <1>4 DEF GetUserPermissionsForAction
<1>6. Contenus(gs) \subseteq Valeurs
  BY <1>1, <1>4
<1> QED BY <1>3, <1>5, <1>6

(* A value that grants anything is of those an evaluator looks at.         *)
LEMMA AccordeUnOctroi ==
  ASSUME NEW v \in Valeurs, NEW d, Accorde(v, d) PROVE v.genre \in {"all", "custom"}
BY FormeDesValeurs DEF Accorde

LEMMA RechercheEtAction ==
  ASSUME IInv, UnParGroupe, NEW gs \in SUBSET Groupes, NEW d
  PROVE  PorteeDeRecherche(gs, d) <=> CheckPermissionsMultipleDomains(gs, {d})
<1>1. GetUserPermissionsForAction(gs) = Contenus(gs) /\ Contenus(gs) \subseteq Valeurs
  BY LuesToutes
<1>2. (\E v \in Contenus(gs) : Accorde(v, d)) <=> \E v \in Octrois(gs) : Accorde(v, d)
  BY <1>1, AccordeUnOctroi DEF Octrois
<1>3. PorteeDeRecherche(gs, d) <=> ~RefusExplicite(gs) /\ \E v \in Octrois(gs) : Accorde(v, d)
  BY <1>1, <1>2 DEF PorteeDeRecherche, RefusExplicite
<1> QED BY <1>3 DEF CheckPermissionsMultipleDomains

LEMMA AccordLDAPParGroupe ==
  ASSUME IInv, UnParGroupe PROVE AccordLDAP
<1>1. \A c \in Comptes : membres[c] \in SUBSET Groupes
  BY DEF IInv, Tables
<1>2. \A c \in Comptes : \A d : PorteeDeRecherche(membres[c], d) <=>
                                CheckPermissionsMultipleDomains(membres[c], {d})
  BY <1>1, RechercheEtAction
<1> QED BY <1>2 DEF AccordLDAP, CanUserConnectToDomain

LEMMA RefusParGroupe ==
  ASSUME IInv, UnParGroupe PROVE RefusPourTousLesMembres
<1> SUFFICES ASSUME NEW c \in Comptes, NEW g \in membres[c], NEW p \in liens[g],
                    valeur[p].genre = "deny", ~Exempte(membres[c]), NEW d \in Domaines
             PROVE  ~CheckPermissionsMultipleDomains(membres[c], {d})
  BY DEF RefusPourTousLesMembres
<1>1. membres[c] \in SUBSET Groupes
  BY DEF IInv, Tables
<1>2. valeur[p] \in Contenus(membres[c]) /\ valeur[p] \in Valeurs
  BY <1>1, LuesToutes
<1>3. valeur[p] = Genre("deny")
  BY <1>2, FormeDesValeurs
<1> QED BY <1>2, <1>3 DEF CheckPermissionsMultipleDomains, RefusExplicite

(* As long as a group carries one permission, an LDAP search and a login   *)
(* find what the actions allow, and a deny takes the action from every     *)
(* member of the groups that carry it, save the protected one's.           *)
THEOREM UnePermissionParGroupe ==
  MaxParGroupe = 1 => (Spec => [](AccordLDAP /\ RefusPourTousLesMembres))
<1> SUFFICES ASSUME MaxParGroupe = 1 PROVE Spec => [](AccordLDAP /\ RefusPourTousLesMembres)
  OBVIOUS
<1>1. Init => UnParGroupe
  BY DEF Init, UnParGroupe
<1>2. IInv /\ UnParGroupe /\ [Next]_vars => UnParGroupe'
  BY PasUnParGroupe
<1>3. IInv /\ UnParGroupe => AccordLDAP /\ RefusPourTousLesMembres
  BY AccordLDAPParGroupe, RefusParGroupe
<1> QED BY <1>1, <1>2, <1>3, Invariance, PTL DEF Spec

-----------------------------------------------------------------------------
(* Denies.                                                                 *)

Une == \A r, s \in demandes : r = s

(* A request in progress comes from a holder of the global right, or has   *)
(* to do with no deny.                                                     *)
Fidele == \A r \in demandes :
            r.global \/ (r.op # "deny" /\ valeur[r.perm].genre # "deny")

LEMMA PasSeule ==
  ASSUME MaxEnVol = 1, IInv, Une, Fidele, [Next]_vars PROVE Une' /\ Fidele'
<1>1. valeur \in [Permissions -> Valeurs] /\ demandes \subseteq Requetes
  BY DEF IInv, Tables
<1>2. ASSUME NEW c \in Comptes, NEW p \in Permissions, NEW op \in Operations,
             NEW d \in DomainesRegles, NEW b \in Propagations, DemanderReglage(c, p, op, d, b)
      PROVE  Une' /\ Fidele'
  <2>1. demandes = {}
    <3> SUFFICES ASSUME NEW r \in demandes PROVE FALSE
      OBVIOUS
    <3>1. demandes = {r}
      BY DEF Une
    <3>2. Cardinality(demandes) = 1
      BY <3>1, FS_Singleton
    <3> QED BY <1>2, <3>2 DEF DemanderReglage
  <2>2. PICK q \in Requetes : /\ demandes' = demandes \cup {q} /\ q.perm = p /\ q.op = op
                              /\ q.global <=> Controler(c, {Tout})
    BY <1>2, RequeteDemandee
  <2>3. /\ Controler(c, PorteeReglageActionPermission(p, op)) /\ valeur' = valeur
    BY <1>2 DEF DemanderReglage
  <2>4. q.global \/ (q.op # "deny" /\ valeur[q.perm].genre # "deny")
    BY <2>2, <2>3 DEF PorteeReglageActionPermission
  <2> QED BY <2>1, <2>2, <2>3, <2>4 DEF Une, Fidele
<1>3. ASSUME NEW r \in demandes, LireAction(r) PROVE Une' /\ Fidele'
  <2> DEFINE q == [r EXCEPT !.lu = TRUE, !.courant = valeur[r.perm]]
  <2>1. r \in Requetes /\ valeur[r.perm] \in Valeurs
    BY <1>1 DEF Requetes
  <2>2. q.perm = r.perm /\ q.op = r.op /\ q.global = r.global
    BY <2>1, RequeteLue
  <2>3. demandes' = (demandes \ {r}) \cup {q} /\ valeur' = valeur
    BY <1>3 DEF LireAction
  <2> HIDE DEF q
  <2>4. demandes' = {q}
    BY <2>3 DEF Une
  <2> QED BY <2>2, <2>3, <2>4 DEF Une, Fidele
<1>4. ASSUME NEW r \in demandes, ReglerActionPermission(r) PROVE Une' /\ Fidele'
  <2>1. demandes' = {}
    BY <1>4 DEF ReglerActionPermission, Une
  <2> QED BY <2>1 DEF Une, Fidele
<1>5. CASE UNCHANGED <<valeur, demandes>>
  BY <1>5 DEF Une, Fidele
<1>6. Next \/ UNCHANGED vars
  OBVIOUS
<1> QED BY <1>2, <1>3, <1>4, <1>5, <1>6
        DEF Next, vars, AjouterPermissionAuGroupe, RetirerPermissionDuGroupe,
            AjouterUtilisateurAuGroupe, RetirerUtilisateurDuGroupe

(* A value changes by the writing of a request, the one that is gone.      *)
LEMMA RefusEcrit ==
  ASSUME IInv, Fidele, [Next]_vars PROVE RefusParUnGlobal \/ UNCHANGED vars
<1>1. valeur \in [Permissions -> Valeurs] /\ demandes \subseteq Requetes
  BY DEF IInv, Tables
<1>2. ASSUME NEW r \in demandes, ReglerActionPermission(r) PROVE RefusParUnGlobal
  <2> SUFFICES ASSUME NEW p \in Permissions,
                      (valeur[p].genre = "deny") # (valeur'[p].genre = "deny")
               PROVE  \E s \in demandes \ demandes' : s.perm = p /\ s.global
    BY DEF RefusParUnGlobal
  <2>1. /\ r \in Requetes /\ r \in demandes \ demandes'
        /\ Nouvelle(r).genre = "deny" => r.op = "deny"
    BY <1>1, <1>2, NouvelleValeur DEF ReglerActionPermission
  <2>2. valeur' = valeur \/ valeur' = [valeur EXCEPT ![r.perm] = Nouvelle(r)]
    BY <1>2 DEF ReglerActionPermission, SetUserPermissionAction
  <2>3. r.perm = p /\ valeur'[p] = Nouvelle(r)
    BY <1>1, <2>2
  <2>4. r.op = "deny" \/ valeur[r.perm].genre = "deny"
    BY <2>1, <2>3
  <2>5. r.global
    BY <2>4, <1>2 DEF Fidele
  <2> QED BY <2>1, <2>3, <2>5
<1>3. CASE UNCHANGED valeur
  BY <1>3 DEF RefusParUnGlobal
<1>4. Next \/ UNCHANGED vars
  OBVIOUS
<1> QED BY <1>2, <1>3, <1>4
        DEF Next, DemanderReglage, LireAction, AjouterPermissionAuGroupe,
            RetirerPermissionDuGroupe, AjouterUtilisateurAuGroupe, RetirerUtilisateurDuGroupe

(* As long as no two requests overlap, a deny is placed or lifted only by  *)
(* somebody who holds the global right: the value that decides the scope   *)
(* of the control is still the one that is written over.                   *)
THEOREM RefusParUnGlobalSeul == MaxEnVol = 1 => (Spec => RefusGlobal)
<1> SUFFICES ASSUME MaxEnVol = 1 PROVE Spec => RefusGlobal
  OBVIOUS
<1>1. Init => Une /\ Fidele
  BY DEF Init, Une, Fidele
<1>2. IInv /\ Une /\ Fidele /\ [Next]_vars => Une' /\ Fidele'
  BY PasSeule
<1>3. IInv /\ Fidele /\ [Next]_vars => [RefusParUnGlobal]_vars
  BY RefusEcrit
<1> QED BY <1>1, <1>2, <1>3, Invariance, PTL DEF Spec, RefusGlobal

-----------------------------------------------------------------------------
(* The rights of the run.                                                  *)

(* The tables stay within their bounds, ...                                *)
Bornees == /\ \A g \in Groupes : IsFiniteSet(liens[g]) /\ Cardinality(liens[g]) <= MaxParGroupe
           /\ IsFiniteSet(demandes) /\ Cardinality(demandes) <= MaxEnVol

(* ... and no list of domains that is stored is empty.                     *)
Remplies == \A p \in Permissions :
              valeur[p].genre = "custom" => valeur[p].exact \cup valeur[p].propage # {}

(* What a request writes is no empty list.                                 *)
LEMMA NouvelleRemplie ==
  ASSUME NEW r \in Requetes, Nouvelle(r).genre = "custom"
  PROVE  Nouvelle(r).exact \cup Nouvelle(r).propage # {}
<1>1. /\ r.op \in Operations /\ r.courant \in Valeurs /\ r.domaine \in DomainesRegles
      /\ r.propage \in BOOLEAN
  BY DEF Requetes
<1>2. CASE r.op = "add"
  <2> DEFINE v == UpdatePermissionAction(r.courant, r.domaine, r.propage, TRUE)
  <2>1. r.domaine \in v.exact \cup v.propage
    BY <1>1 DEF UpdatePermissionAction
  <2>2. Nouvelle(r) = v
    BY <1>2 DEF Nouvelle
  <2> HIDE DEF v
  <2> QED BY <2>1, <2>2
<1>3. CASE r.op = "remove"
  <2> DEFINE v == UpdatePermissionAction(r.courant, r.domaine, r.propage, FALSE)
  <2>1. Nouvelle(r) = IF v.exact \cup v.propage = {} THEN Genre("nil") ELSE v
    BY <1>3 DEF Nouvelle
  <2> HIDE DEF v
  <2>2. Genre("nil").genre # "custom"
    BY GenresDesValeurs
  <2> QED BY <2>1, <2>2
<1>4. CASE r.op \in {"nil", "all", "deny"}
  <2>1. Nouvelle(r) = Genre(r.op)
    BY <1>4 DEF Nouvelle
  <2> QED BY <1>4, <2>1, GenresDesValeurs
<1> QED BY <1>1, <1>2, <1>3, <1>4 DEF Operations

LEMMA DepartBorne == Init => Bornees /\ Remplies
<1> SUFFICES ASSUME Init PROVE Bornees /\ Remplies
  OBVIOUS
<1>1. \A g \in Groupes : liens[g] = {PermissionProtegee} \/ liens[g] = {}
  BY DEF Init
<1>2. /\ IsFiniteSet({PermissionProtegee}) /\ Cardinality({PermissionProtegee}) = 1
      /\ IsFiniteSet({}) /\ Cardinality({}) = 0
  BY FS_Singleton, FS_EmptySet, Zenon
<1>3. Bornees
  <2>1. \A g \in Groupes : /\ IsFiniteSet(liens[g])
                           /\ Cardinality(liens[g]) = 1 \/ Cardinality(liens[g]) = 0
    BY <1>1, <1>2
  <2> QED BY <1>2, <2>1, BornesAssumption DEF Init, Bornees
<1>4. Remplies
  <2> SUFFICES ASSUME NEW p \in Permissions, valeur[p].genre = "custom"
               PROVE  valeur[p].exact \cup valeur[p].propage # {}
    BY DEF Remplies
  <2>1. valeur[p] \in ValeursInitiales \cup {Genre("all")}
    BY DEF Init
  <2>2. Genre("all").genre # "custom"
    BY GenresDesValeurs
  <2> QED BY <2>1, <2>2, ValeursAssumption
<1> QED BY <1>3, <1>4

LEMMA PasBorne == IInv /\ Bornees /\ [Next]_vars => Bornees'
<1> SUFFICES ASSUME IInv, Bornees, [Next]_vars PROVE Bornees'
  OBVIOUS
<1>1. liens \in [Groupes -> SUBSET Permissions]
  BY DEF IInv, Tables
<1>2. ASSUME IsFiniteSet(demandes'), Cardinality(demandes') <= MaxEnVol, UNCHANGED liens
      PROVE  Bornees'
  BY <1>2 DEF Bornees
<1>3. ASSUME NEW c \in Comptes, NEW p \in Permissions, NEW op \in Operations,
             NEW d \in DomainesRegles, NEW b \in Propagations, DemanderReglage(c, p, op, d, b)
      PROVE  Bornees'
  <2>1. PICK q \in Requetes : demandes' = demandes \cup {q}
    BY <1>3, RequeteDemandee
  <2>2. /\ IsFiniteSet(demandes') /\ Cardinality(demandes) \in Nat
        /\ Cardinality(demandes') \in {Cardinality(demandes), Cardinality(demandes) + 1}
    BY <2>1, FS_AddElement, FS_CardinalityType DEF Bornees
  <2>3. Cardinality(demandes) < MaxEnVol /\ UNCHANGED liens
    BY <1>3 DEF DemanderReglage
  <2> QED BY <1>2, <2>2, <2>3, BornesAssumption
<1>4. ASSUME NEW r \in demandes, LireAction(r) PROVE Bornees'
  <2> DEFINE q == [r EXCEPT !.lu = TRUE, !.courant = valeur[r.perm]]
             reste == demandes \ {r}
  <2>1. demandes' = reste \cup {q} /\ UNCHANGED liens
    BY <1>4 DEF LireAction
  <2>2. IsFiniteSet(reste) /\ Cardinality(reste) = Cardinality(demandes) - 1
    BY FS_RemoveElement DEF Bornees
  <2> HIDE DEF q, reste
  <2>3. /\ IsFiniteSet(demandes') /\ Cardinality(reste) \in Nat
        /\ Cardinality(demandes') \in {Cardinality(reste), Cardinality(reste) + 1}
    BY <2>1, <2>2, FS_AddElement, FS_CardinalityType
  <2>4. Cardinality(demandes) \in Nat /\ Cardinality(demandes) <= MaxEnVol
    BY FS_CardinalityType DEF Bornees
  <2> QED BY <1>2, <2>1, <2>2, <2>3, <2>4, BornesAssumption
<1>5. ASSUME NEW r \in demandes, ReglerActionPermission(r) PROVE Bornees'
  <2>1. demandes' = demandes \ {r} /\ UNCHANGED liens
    BY <1>5 DEF ReglerActionPermission
  <2>2. IsFiniteSet(demandes') /\ Cardinality(demandes') = Cardinality(demandes) - 1
    BY <2>1, FS_RemoveElement DEF Bornees
  <2>3. Cardinality(demandes) \in Nat /\ Cardinality(demandes) <= MaxEnVol
    BY FS_CardinalityType DEF Bornees
  <2> QED BY <1>2, <2>1, <2>2, <2>3, BornesAssumption
<1>6. ASSUME NEW c \in Comptes, NEW p \in Permissions, NEW g \in Groupes,
             AjouterPermissionAuGroupe(c, p, g)
      PROVE  Bornees'
  <2>1. /\ liens'[g] = liens[g] \cup {p} /\ \A h \in Groupes : h # g => liens'[h] = liens[h]
        /\ demandes' = demandes /\ Cardinality(liens[g]) < MaxParGroupe
    BY <1>1, <1>6 DEF AjouterPermissionAuGroupe
  <2> DEFINE avant == liens[g]
             apres == liens'[g]
  <2>a. IsFiniteSet(avant) /\ Cardinality(avant) \in Nat
    BY FS_CardinalityType DEF Bornees
  <2>b. apres = avant \cup {p}
    BY <2>1
  <2> HIDE DEF avant, apres
  <2>2. IsFiniteSet(apres) /\ Cardinality(apres) \in {Cardinality(avant), Cardinality(avant) + 1}
    BY <2>a, <2>b, FS_AddElement
  <2> USE DEF avant, apres
  <2>3. Cardinality(liens'[g]) <= MaxParGroupe
    BY <2>1, <2>2, <2>a, BornesAssumption
  <2> QED BY <2>1, <2>2, <2>3 DEF Bornees
<1>7. ASSUME NEW c \in Comptes, NEW p \in Permissions, NEW g \in Groupes,
             RetirerPermissionDuGroupe(c, p, g)
      PROVE  Bornees'
  <2>1. /\ liens'[g] = liens[g] \ {p} /\ \A h \in Groupes : h # g => liens'[h] = liens[h]
        /\ demandes' = demandes /\ p \in liens[g]
    BY <1>1, <1>7 DEF RetirerPermissionDuGroupe
  <2>2. /\ IsFiniteSet(liens'[g]) /\ Cardinality(liens[g]) \in Nat
        /\ Cardinality(liens'[g]) = Cardinality(liens[g]) - 1
    BY <2>1, FS_RemoveElement, FS_CardinalityType DEF Bornees
  <2>3. Cardinality(liens'[g]) <= MaxParGroupe
    BY <2>2, BornesAssumption DEF Bornees
  <2> QED BY <2>1, <2>2, <2>3 DEF Bornees
<1>8. CASE UNCHANGED <<liens, demandes>>
  BY <1>8 DEF Bornees
<1>9. Next \/ UNCHANGED vars
  OBVIOUS
<1> QED BY <1>3, <1>4, <1>5, <1>6, <1>7, <1>8, <1>9
        DEF Next, vars, AjouterUtilisateurAuGroupe, RetirerUtilisateurDuGroupe

LEMMA PasRempli == IInv /\ Remplies /\ [Next]_vars => Remplies'
<1> SUFFICES ASSUME IInv, Remplies, [Next]_vars PROVE Remplies'
  OBVIOUS
<1>1. valeur \in [Permissions -> Valeurs] /\ demandes \subseteq Requetes
  BY DEF IInv, Tables
<1>2. ASSUME NEW r \in demandes, ReglerActionPermission(r) PROVE Remplies'
  <2>1. r \in Requetes /\ (valeur' = valeur \/ valeur' = [valeur EXCEPT ![r.perm] = Nouvelle(r)])
    BY <1>1, <1>2 DEF ReglerActionPermission, SetUserPermissionAction
  <2>2. \A p \in Permissions : valeur'[p] = valeur[p] \/ valeur'[p] = Nouvelle(r)
    BY <1>1, <2>1
  <2> QED BY <2>1, <2>2, NouvelleRemplie DEF Remplies
<1>3. CASE UNCHANGED valeur
  BY <1>3 DEF Remplies
<1>4. Next \/ UNCHANGED vars
  OBVIOUS
<1> QED BY <1>2, <1>3, <1>4
        DEF Next, vars, DemanderReglage, LireAction, AjouterPermissionAuGroupe,
            RetirerPermissionDuGroupe, AjouterUtilisateurAuGroupe, RetirerUtilisateurDuGroupe

LEMMA AuPlusUn ==
  ASSUME NEW T, IsFiniteSet(T), Cardinality(T) <= 1, NEW p \in T, NEW q \in T PROVE p = q
<1> SUFFICES ASSUME p # q PROVE FALSE
  OBVIOUS
<1>1. IsFiniteSet({p}) /\ Cardinality({p}) = 1
  BY FS_Singleton, Zenon
<1>2. Cardinality({p} \cup {q}) = Cardinality({p}) + 1
  BY <1>1, FS_AddElement
<1>3. Cardinality({p} \cup {q}) <= Cardinality(T)
  BY FS_Subset
<1>4. Cardinality(T) \in Nat
  BY FS_CardinalityType
<1> QED BY <1>1, <1>2, <1>3, <1>4

(* In every part of the run the tables keep their shape and their bounds;  *)
(* in the one that evaluates the rights the pages, the lists, the writes,  *)
(* the LDAP search and the login agree on every account and domain, and a  *)
(* deny takes the action from every member of the groups that carry it.    *)
THEOREM DroitsCorrects == Ensemble => []DroitsEvalues
<1> DEFINE EInv == /\ IInv /\ Bornees /\ Remplies
                   /\ partie = "accord" => UnParGroupe
<1>1. Debut => EInv
  <2>1. Init => UnParGroupe
    BY DEF Init, UnParGroupe
  <2> QED BY <2>1, DepartDesDroits, DepartBorne DEF Debut
<1>2. EInv /\ [Pas]_tout => EInv'
  <2> SUFFICES ASSUME EInv, [Pas]_tout PROVE EInv'
    OBVIOUS
  <2>1. [Next]_vars /\ partie' = partie
    BY DEF Pas, tout, droitsVars, vars, annuaireVars
  <2>2. IInv' /\ Bornees' /\ Remplies'
    BY <2>1, PasDesDroits, PasBorne, PasRempli
  <2>3. ASSUME partie = "accord" PROVE UnParGroupe'
    <3>1. CASE UnePermission
      <4>1. \A g \in Groupes : IsFiniteSet(liens'[g]) /\ Cardinality(liens'[g]) <= 1
        BY <2>2, <3>1 DEF Bornees, UnePermission
      <4>2. \A g \in Groupes : \A p, q \in liens'[g] : p = q
        BY <4>1, AuPlusUn
      <4> QED BY <4>2 DEF UnParGroupe
    <3>2. CASE UNCHANGED tout
      BY <2>3, <3>2 DEF tout, droitsVars, vars, UnParGroupe
    <3> QED BY <2>3, <3>1, <3>2 DEF Pas
  <2> QED BY <2>1, <2>2, <2>3
<1>3. EInv => DroitsEvalues
  <2> SUFFICES ASSUME EInv PROVE DroitsEvalues
    OBVIOUS
  <2>1. TypeOK
    BY DEF TypeOK, IInv, Tables, Bornees, Remplies
  <2> QED BY <2>1, AccordPartout, AccordLDAPParGroupe, RefusParGroupe DEF DroitsEvalues
<1> QED BY <1>1, <1>2, <1>3, PTL DEF Ensemble

-----------------------------------------------------------------------------
(* The directory. A record is written field by field.                      *)

Compte(n, pr, m, p, gs) ==
  [nom |-> n, prenom |-> pr, mdp |-> m, provisoire |-> p, groupes |-> gs]
EstCompte(c) == c = Compte(c.nom, c.prenom, c.mdp, c.provisoire, c.groupes)
EstGroupe(g) == g = [nom |-> g.nom, domaine |-> g.domaine] /\ g.domaine \in Seq(STRING)
EstGeste(r) == r = [pc |-> r.pc, op |-> r.op, cible |-> r.cible, nom |-> r.nom,
                    vu |-> r.vu, uid |-> r.uid, groupe |-> r.groupe]

(* The account u becomes c, the others stay.                               *)
Ecrit(u, c) == comptes' = [v \in Uids |-> IF v = u THEN c ELSE comptes[v]]

(* What a request knows at each of its steps.                              *)
GesteTenu(r) ==
  /\ EstGeste(r) /\ r.pc \in {"repos", "verifie", "lu", "identifie", "ecrit"}
  /\ r.pc = "repos" => r = N!Repos
  /\ r.pc \in {"lu", "identifie", "ecrit"} =>
       /\ r.op \in {"modifier", "motdepasse"}
       /\ r.cible \in NomsComptes /\ r.nom \in NomsComptes /\ r.vu.nom = r.cible
  /\ r.pc = "identifie" => r.uid \in Uids

(* The shape of the tables, a part for each.                               *)
GroupesFormes == IsFiniteSet(groupes) /\ \A g \in groupes : EstGroupe(g)
ComptesFormes ==
  /\ comptes = [u \in Uids |-> comptes[u]]
  /\ \A u \in Uids : EstCompte(comptes[u]) /\ (comptes[u] = N!Absent \/ comptes[u].nom \in NomsComptes)
GestesFormes == gestes = [a \in Admins |-> gestes[a]] /\ \A a \in Admins : GesteTenu(gestes[a])
Formes == GroupesFormes /\ ComptesFormes /\ GestesFormes

LEMMA ChoixDedans ==
  ASSUME NEW T, T # {} PROVE (CHOOSE u \in T : TRUE) \in T
OBVIOUS

(* No account has the name of the absent one.                              *)
LEMMA ExisteParSonNom ==
  ASSUME ComptesFormes, NEW u \in Uids
  PROVE  u \in N!Existants <=> comptes[u].nom \in NomsComptes
<1>1. "" \notin NomsComptes /\ N!Absent.nom = ""
  BY BasesDeLAnnuaire DEF N!BasesAssumption, N!Absent
<1> QED BY <1>1 DEF ComptesFormes, N!Existants

LEMMA Finis == ASSUME NEW T PROVE N!IsFiniteSet(T) <=> IsFiniteSet(T)
BY DEF N!IsFiniteSet, IsFiniteSet

LEMMA Cardinaux == ASSUME NEW T PROVE N!Cardinality(T) = Cardinality(T)
BY DEF N!Cardinality, Cardinality

LEMMA Provisoire ==
  ASSUME NEW c, EstCompte(c), NEW b
  PROVE  [c EXCEPT !.provisoire = b] = Compte(c.nom, c.prenom, c.mdp, b, c.groupes)
BY DEF EstCompte, Compte

LEMMA ChampsDuCompte ==
  ASSUME NEW n, NEW pr, NEW m, NEW b, NEW gs
  PROVE  LET c == Compte(n, pr, m, b, gs) IN
         EstCompte(c) /\ c.nom = n /\ c.prenom = pr /\ c.mdp = m /\ c.groupes = gs
BY DEF Compte, EstCompte

LEMMA CompteAbsent ==
  LET c == N!Absent IN
  EstCompte(c) /\ c.nom = "" /\ c.prenom = "" /\ c.mdp = "initial" /\ c.groupes = {}
<1> DEFINE c == N!Absent
<1>1. c = Compte("", "", "initial", FALSE, {})
  BY Zenon DEF N!Absent, Compte
<1>2. c.nom = "" /\ c.prenom = "" /\ c.mdp = "initial" /\ c.groupes = {}
  BY DEF N!Absent
<1>3. EstCompte(c)
  BY <1>1, ChampsDuCompte, Zenon
<1> QED BY <1>2, <1>3

LEMMA ChampNom ==
  ASSUME NEW c, EstCompte(c), NEW n
  PROVE  [c EXCEPT !.nom = n] = Compte(n, c.prenom, c.mdp, c.provisoire, c.groupes)
BY DEF EstCompte, Compte

(* What each action writes.                                                *)
LEMMA EcritCreer ==
  ASSUME ComptesFormes, NEW a \in Admins, NEW u \in Uids, NEW n \in NomsComptes,
         N!CreateNewUser(a, u, n)
  PROVE  Ecrit(u, Compte(n, n, "initial", TRUE, {}))
<1> DEFINE b == [N!Absent EXCEPT !.nom = n]
           c == [b EXCEPT !.prenom = n]
<1>0. EstCompte(b) /\ b.nom = n /\ b.mdp = "initial" /\ b.groupes = {}
  <2> DEFINE x == N!Absent
  <2>1. EstCompte(x) /\ x.prenom = "" /\ x.mdp = "initial" /\ x.groupes = {}
    BY CompteAbsent
  <2> HIDE DEF x
  <2>2. [x EXCEPT !.nom = n] = Compte(n, x.prenom, x.mdp, x.provisoire, x.groupes)
    BY <2>1, ChampNom
  <2>3. b = [x EXCEPT !.nom = n]
    BY DEF x
  <2> HIDE DEF b
  <2>4. b = Compte(n, x.prenom, x.mdp, x.provisoire, x.groupes)
    BY <2>2, <2>3
  <2> QED BY <2>1, <2>4 DEF EstCompte, Compte
<1>1. EstCompte(c) /\ c.nom = n /\ c.prenom = n /\ c.mdp = "initial" /\ c.groupes = {}
  <2> HIDE DEF b
  <2> QED BY <1>0 DEF Compte, EstCompte
<1>2. [N!Absent EXCEPT !.nom = n, !.prenom = n, !.provisoire = TRUE]
        = Compte(n, n, "initial", TRUE, {})
  <2>1. [N!Absent EXCEPT !.nom = n, !.prenom = n, !.provisoire = TRUE]
          = [c EXCEPT !.provisoire = TRUE]
    OBVIOUS
  <2> HIDE DEF c
  <2>2. [c EXCEPT !.provisoire = TRUE] = Compte(c.nom, c.prenom, c.mdp, TRUE, c.groupes)
    BY <1>1, Provisoire
  <2> QED BY <1>1, <2>1, <2>2
<1>3. comptes' = [comptes EXCEPT ![u] =
                    [N!Absent EXCEPT !.nom = n, !.prenom = n, !.provisoire = TRUE]]
  BY DEF N!CreateNewUser
<1> QED BY <1>2, <1>3 DEF ComptesFormes, Ecrit

LEMMA EcritSupprimer ==
  ASSUME ComptesFormes, NEW a \in Admins, NEW u \in Uids, N!SupprimerUtilisateur(a, u)
  PROVE  Ecrit(u, N!Absent)
BY DEF N!SupprimerUtilisateur, ComptesFormes, Ecrit

LEMMA EcritGroupes ==
  ASSUME ComptesFormes, NEW u \in Uids, NEW gs, comptes' = [comptes EXCEPT ![u].groupes = gs]
  PROVE  LET c == comptes[u] IN Ecrit(u, Compte(c.nom, c.prenom, c.mdp, c.provisoire, gs))
<1> DEFINE c == comptes[u]
           d == [c EXCEPT !.groupes = gs]
<1>1. EstCompte(c)
  BY DEF ComptesFormes
<1>2. d = Compte(c.nom, c.prenom, c.mdp, c.provisoire, gs)
  BY <1>1 DEF EstCompte, Compte
<1>3. comptes' = [comptes EXCEPT ![u] = d]
  OBVIOUS
<1> HIDE DEF d
<1> QED BY <1>2, <1>3 DEF ComptesFormes, Ecrit

LEMMA EcritLeSien ==
  ASSUME ComptesFormes, NEW u \in Uids, N!ChangerLeSien(u)
  PROVE  LET c == comptes[u] IN Ecrit(u, Compte(c.nom, c.prenom, "sien", FALSE, c.groupes))
<1> DEFINE c == comptes[u]
           d == [c EXCEPT !.mdp = "sien"]
           e == [d EXCEPT !.provisoire = FALSE]
           f == [comptes EXCEPT ![u] = d]
<1>1. EstCompte(c)
  BY DEF ComptesFormes
<1>2. d = Compte(c.nom, c.prenom, "sien", c.provisoire, c.groupes)
  BY <1>1 DEF EstCompte, Compte
<1>3. e = Compte(c.nom, c.prenom, "sien", FALSE, c.groupes)
  <2> HIDE DEF d
  <2>1. /\ EstCompte(d) /\ d.nom = c.nom /\ d.prenom = c.prenom /\ d.mdp = "sien"
        /\ d.groupes = c.groupes
    BY <1>2 DEF Compte, EstCompte
  <2>2. e = Compte(d.nom, d.prenom, d.mdp, FALSE, d.groupes)
    BY <2>1, Provisoire
  <2> QED BY <2>1, <2>2
<1>4. f = [v \in Uids |-> IF v = u THEN d ELSE comptes[v]]
  <2> HIDE DEF d
  <2> QED BY DEF ComptesFormes
<1>5. comptes' = [f EXCEPT ![u].provisoire = FALSE]
  BY DEF N!ChangerLeSien
<1> HIDE DEF f
<1>6. comptes' = [f EXCEPT ![u] = e]
  <2>1. f[u] = d
    BY <1>4
  <2> HIDE DEF d
  <2> QED BY <1>5, <2>1
<1> HIDE DEF d, e
<1> QED BY <1>3, <1>4, <1>6 DEF Ecrit

LEMMA EcritModifier ==
  ASSUME ComptesFormes, NEW a \in Admins, N!UpdateUserInfo(a), comptes' # comptes,
         gestes[a].uid \in Uids
  PROVE  LET r == gestes[a]
             c == comptes[r.uid]
         IN  /\ Ecrit(r.uid, Compte(N!NomEcrit(r), N!PrenomEcrit(r),
                               IF r.op = "motdepasse" THEN "tiers" ELSE c.mdp,
                               c.provisoire, c.groupes))
             /\ r.uid \in N!Existants /\ c.groupes # {}
             /\ N!GuardProtectedUserRename(c.nom, N!NomEcrit(r))
             /\ N!UidDe(N!NomEcrit(r)) \subseteq {r.uid}
<1> DEFINE r == gestes[a]
           u == r.uid
           n == N!NomEcrit(r)
           p == N!PrenomEcrit(r)
           c == comptes[u]
           m == IF r.op = "motdepasse" THEN "tiers" ELSE c.mdp
           d == [c EXCEPT !.nom = n]
           e == [d EXCEPT !.prenom = p]
           f == [comptes EXCEPT ![u] = d]
           g == [f EXCEPT ![u] = e]
<1>0. /\ u \in N!Existants /\ c.groupes # {}
      /\ N!GuardProtectedUserRename(c.nom, n) /\ N!UidDe(n) \subseteq {u}
      /\ comptes' = [comptes EXCEPT ![u].nom = n, ![u].prenom = p,
                       ![u].mdp = IF r.op = "motdepasse" THEN "tiers" ELSE @]
  BY DEF N!UpdateUserInfo
<1>u. u \in Uids
  OBVIOUS
<1>1. EstCompte(c)
  BY DEF ComptesFormes
<1> HIDE DEF n, p
<1>2. d = Compte(n, c.prenom, c.mdp, c.provisoire, c.groupes)
  BY <1>1 DEF EstCompte, Compte
<1>3. e = Compte(n, p, c.mdp, c.provisoire, c.groupes)
  <2> HIDE DEF d
  <2> QED BY <1>2 DEF Compte
<1>4. f = [v \in Uids |-> IF v = u THEN d ELSE comptes[v]]
  <2> HIDE DEF d, u
  <2> QED BY <1>u DEF ComptesFormes
<1>5. g = [v \in Uids |-> IF v = u THEN e ELSE comptes[v]]
  <2> HIDE DEF d, e, u, f
  <2> QED BY <1>u, <1>4
<1>6. comptes' = [g EXCEPT ![u].mdp = IF r.op = "motdepasse" THEN "tiers" ELSE @]
  BY <1>0
<1>7. comptes' = [g EXCEPT ![u] = [e EXCEPT !.mdp = IF r.op = "motdepasse" THEN "tiers" ELSE e.mdp]]
  <2>1. g[u] = e
    <3> HIDE DEF e, g, u
    <3> QED BY <1>5, <1>u
  <2> HIDE DEF e, g, u
  <2> QED BY <1>6, <2>1
<1>8. [e EXCEPT !.mdp = IF r.op = "motdepasse" THEN "tiers" ELSE e.mdp]
        = Compte(n, p, m, c.provisoire, c.groupes)
  <2> HIDE DEF e
  <2> QED BY <1>3 DEF Compte
<1>9. Ecrit(u, Compte(n, p, m, c.provisoire, c.groupes))
  <2> HIDE DEF e, g, u, m, c
  <2> QED BY <1>5, <1>7, <1>8, <1>u DEF Ecrit
<1> QED BY <1>0, <1>9 DEF n, p

(* Then the others keep all they had, and it reads as it was written.      *)
Restent(u) == \A v \in Uids \ {u} : comptes'[v] = comptes[v]

LEMMA ApresCompte ==
  ASSUME ComptesFormes, NEW u \in Uids, NEW n \in NomsComptes, NEW pr, NEW m, NEW b, NEW gs,
         Ecrit(u, Compte(n, pr, m, b, gs))
  PROVE  /\ ComptesFormes' /\ Restent(u)
         /\ comptes'[u].nom = n /\ comptes'[u].prenom = pr /\ comptes'[u].mdp = m
         /\ comptes'[u].provisoire = b /\ comptes'[u].groupes = gs
<1> DEFINE c == Compte(n, pr, m, b, gs)
<1>1. /\ EstCompte(c) /\ c.nom = n /\ c.prenom = pr /\ c.mdp = m /\ c.provisoire = b
      /\ c.groupes = gs
  BY DEF Compte, EstCompte
<1> HIDE DEF c
<1>2. comptes' = [v \in Uids |-> IF v = u THEN c ELSE comptes[v]]
  BY DEF Ecrit, c
<1>3. comptes'[u] = c /\ Restent(u)
  BY <1>2 DEF Restent
<1>4. ComptesFormes'
  BY <1>1, <1>2, <1>3 DEF ComptesFormes, Restent
<1> QED BY <1>1, <1>3, <1>4

LEMMA ApresSuppression ==
  ASSUME ComptesFormes, NEW u \in Uids, Ecrit(u, N!Absent)
  PROVE  ComptesFormes' /\ Restent(u) /\ comptes'[u] = N!Absent
<1>1. comptes'[u] = N!Absent /\ Restent(u)
  BY DEF Ecrit, Restent
<1>2. comptes' = [v \in Uids |-> comptes'[v]]
  BY DEF Ecrit
<1>3. ComptesFormes'
  BY <1>1, <1>2, CompteAbsent DEF ComptesFormes, Restent
<1> QED BY <1>1, <1>3

LEMMA ApresCreer ==
  ASSUME ComptesFormes, NEW a \in Admins, NEW u \in Uids, NEW n \in NomsComptes,
         N!CreateNewUser(a, u, n)
  PROVE  /\ ComptesFormes' /\ Restent(u)
         /\ comptes'[u].nom = n /\ comptes'[u].mdp = "initial" /\ comptes'[u].groupes = {}
<1> DEFINE vrai == TRUE
           rien == {}
<1>1. Ecrit(u, Compte(n, n, "initial", vrai, rien))
  BY EcritCreer
<1> HIDE DEF vrai, rien
<1>2. /\ ComptesFormes' /\ Restent(u)
      /\ comptes'[u].nom = n /\ comptes'[u].mdp = "initial" /\ comptes'[u].groupes = rien
  BY <1>1, ApresCompte, Zenon
<1> QED BY <1>2 DEF rien

LEMMA ApresGroupes ==
  ASSUME ComptesFormes, NEW u \in N!Existants, NEW gs,
         comptes' = [comptes EXCEPT ![u].groupes = gs]
  PROVE  /\ ComptesFormes' /\ Restent(u)
         /\ comptes'[u].nom = comptes[u].nom /\ comptes'[u].prenom = comptes[u].prenom
         /\ comptes'[u].mdp = comptes[u].mdp /\ comptes'[u].provisoire = comptes[u].provisoire
         /\ comptes'[u].groupes = gs
<1> DEFINE c == comptes[u]
<1>1. u \in Uids /\ c.nom \in NomsComptes
  BY ExisteParSonNom DEF N!Existants
<1>2. Ecrit(u, Compte(c.nom, c.prenom, c.mdp, c.provisoire, gs))
  BY <1>1, EcritGroupes
<1> HIDE DEF c
<1>3. /\ ComptesFormes' /\ Restent(u)
      /\ comptes'[u].nom = c.nom /\ comptes'[u].prenom = c.prenom /\ comptes'[u].mdp = c.mdp
      /\ comptes'[u].provisoire = c.provisoire /\ comptes'[u].groupes = gs
  BY <1>1, <1>2, ApresCompte, Zenon
<1> QED BY <1>3 DEF c

LEMMA ApresLeSien ==
  ASSUME ComptesFormes, NEW u \in Uids, N!ChangerLeSien(u)
  PROVE  /\ ComptesFormes' /\ Restent(u) /\ u \in N!Existants
         /\ comptes'[u].nom = comptes[u].nom /\ comptes'[u].prenom = comptes[u].prenom
         /\ comptes'[u].mdp = "sien" /\ comptes'[u].groupes = comptes[u].groupes
<1> DEFINE c == comptes[u]
<1>1. u \in N!Existants /\ c.nom \in NomsComptes
  BY ExisteParSonNom DEF N!ChangerLeSien
<1> DEFINE faux == FALSE
<1>2. Ecrit(u, Compte(c.nom, c.prenom, "sien", faux, c.groupes))
  BY EcritLeSien
<1> HIDE DEF c, faux
<1>3. /\ ComptesFormes' /\ Restent(u)
      /\ comptes'[u].nom = c.nom /\ comptes'[u].prenom = c.prenom /\ comptes'[u].mdp = "sien"
      /\ comptes'[u].groupes = c.groupes
  BY <1>1, <1>2, ApresCompte, Zenon
<1> QED BY <1>1, <1>3 DEF c

(* The removal of a group from all, and the mark, on the accounts by name. *)
LEMMA ApresRetrait ==
  ASSUME ComptesFormes, NEW n,
         comptes' = [u \in Uids |-> [comptes[u] EXCEPT !.groupes = @ \ {n}]]
  PROVE  /\ ComptesFormes'
         /\ \A u \in Uids :
              /\ comptes'[u].nom = comptes[u].nom /\ comptes'[u].prenom = comptes[u].prenom
              /\ comptes'[u].mdp = comptes[u].mdp /\ comptes'[u].provisoire = comptes[u].provisoire
              /\ comptes'[u].groupes = comptes[u].groupes \ {n}
<1>1. ASSUME NEW u \in Uids
      PROVE  LET c == comptes[u]
                 d == comptes'[u]
             IN  /\ EstCompte(d) /\ d.nom = c.nom /\ d.prenom = c.prenom /\ d.mdp = c.mdp
                 /\ d.provisoire = c.provisoire /\ d.groupes = c.groupes \ {n}
                 /\ c = N!Absent => d = N!Absent
  <2> DEFINE c == comptes[u]
             d == [c EXCEPT !.groupes = c.groupes \ {n}]
  <2>1. comptes'[u] = d /\ EstCompte(c)
    BY DEF ComptesFormes
  <2> HIDE DEF c
  <2>2. /\ EstCompte(d) /\ d.nom = c.nom /\ d.prenom = c.prenom /\ d.mdp = c.mdp
        /\ d.provisoire = c.provisoire /\ d.groupes = c.groupes \ {n}
    BY <2>1 DEF EstCompte, Compte
  <2>3. ASSUME c = N!Absent PROVE d = N!Absent
    <3>1. c.groupes = {} /\ EstCompte(c)
      BY <2>1, <2>3, CompteAbsent, Zenon
    <3>2. d = c
      BY <2>2, <3>1 DEF EstCompte
    <3> QED BY <2>3, <3>2, Zenon
  <2> HIDE DEF d
  <2> QED BY <2>1, <2>2, <2>3 DEF c
<1>2. comptes' = [u \in Uids |-> comptes'[u]]
  OBVIOUS
<1>3. \A u \in Uids : comptes'[u] = N!Absent \/ comptes'[u].nom \in NomsComptes
  BY <1>1 DEF ComptesFormes
<1>4. ComptesFormes'
  BY <1>1, <1>2, <1>3 DEF ComptesFormes
<1> QED BY <1>1, <1>4

LEMMA ApresMarque ==
  ASSUME ComptesFormes, NEW a \in Admins, N!MarquerProvisoire(a)
  PROVE  /\ ComptesFormes'
         /\ \A u \in Uids :
              /\ comptes'[u].nom = comptes[u].nom /\ comptes'[u].prenom = comptes[u].prenom
              /\ comptes'[u].mdp = comptes[u].mdp /\ comptes'[u].groupes = comptes[u].groupes
              /\ u \notin N!UidDe(gestes[a].cible) => comptes'[u] = comptes[u]
              /\ u \in N!UidDe(gestes[a].cible) => comptes'[u].provisoire
<1> DEFINE touches == N!UidDe(gestes[a].cible)
<1>1. touches \subseteq N!Existants
  BY DEF N!UidDe
<1> HIDE DEF touches
<1>2. comptes' = [u \in Uids |-> IF u \in touches THEN [comptes[u] EXCEPT !.provisoire = TRUE]
                                 ELSE comptes[u]]
  BY DEF N!MarquerProvisoire, touches
<1>3. ASSUME NEW u \in Uids, u \in touches
      PROVE  LET c == comptes[u]
                 d == comptes'[u]
             IN  /\ EstCompte(d) /\ d.nom = c.nom /\ d.prenom = c.prenom /\ d.mdp = c.mdp
                 /\ d.groupes = c.groupes /\ d.provisoire
  <2> DEFINE c == comptes[u]
             d == comptes'[u]
  <2>1. d = [c EXCEPT !.provisoire = TRUE] /\ EstCompte(c)
    BY <1>2, <1>3 DEF ComptesFormes
  <2> HIDE DEF c, d
  <2> DEFINE vrai == TRUE
  <2>2. d = Compte(c.nom, c.prenom, c.mdp, vrai, c.groupes)
    BY <2>1, Provisoire
  <2> HIDE DEF vrai
  <2>3. EstCompte(d) /\ d.nom = c.nom /\ d.prenom = c.prenom /\ d.mdp = c.mdp /\ d.groupes = c.groupes
    BY <2>2 DEF EstCompte, Compte
  <2>4. d.provisoire = vrai
    BY <2>2 DEF Compte
  <2> QED BY <2>3, <2>4 DEF c, d, vrai
<1>4. \A u \in Uids : u \notin touches => comptes'[u] = comptes[u]
  BY <1>2
<1>5. comptes' = [u \in Uids |-> comptes'[u]]
  BY <1>2
<1>6. \A u \in touches : comptes[u].nom \in NomsComptes
  BY <1>1, ExisteParSonNom DEF N!Existants
<1>7. ComptesFormes'
  BY <1>3, <1>4, <1>5, <1>6 DEF ComptesFormes
<1> QED BY <1>3, <1>4, <1>7 DEF touches

-----------------------------------------------------------------------------
(* The tree of the domains.                                                *)

LEMMA ImageFinie ==
  ASSUME NEW T, IsFiniteSet(T), NEW f, f = [x \in T |-> f[x]]
  PROVE  IsFiniteSet({f[x] : x \in T})
<1> DEFINE I == {f[x] : x \in T}
<1>1. f \in [T -> I] /\ \A y \in I : \E x \in T : f[x] = y
  OBVIOUS
<1> HIDE DEF I
<1>2. f \in Surjection(T, I)
  BY <1>1 DEF Surjection
<1>3. IsFiniteSet(I)
  BY <1>2, FS_Surjection
<1> QED BY <1>3 DEF I

(* An ancestor is the beginning of a domain, and its ancestors too.        *)
LEMMA AncetresDe ==
  ASSUME NEW d \in Seq(STRING), NEW p \in N!Ancetres(d)
  PROVE  /\ p \in Seq(STRING) /\ p # d /\ N!SousDomaineDe(d, p)
         /\ N!Ancetres(p) \subseteq N!Ancetres(d)
<1>1. PICK k \in 2..(Len(d) - 1) : p = SubSeq(d, 1, k)
  BY DEF N!Ancetres
<1>2. Len(d) \in Nat /\ k \in 1..Len(d) /\ \A i \in 1..k : d[i] \in STRING
  OBVIOUS
<1>3. p \in Seq(STRING) /\ Len(p) = k
  BY <1>1, <1>2, SubSeqProperties
<1>4. ASSUME NEW q \in N!Ancetres(p) PROVE q \in N!Ancetres(d)
  <2>1. PICK j \in 2..(k - 1) : q = SubSeq(p, 1, j)
    BY <1>3 DEF N!Ancetres
  <2>2. SubSeq(SubSeq(d, 1, k), 1, j) = SubSeq(d, 1 + 1 - 1, 1 + j - 1)
    <3>1. 1 \in 1..Len(d) /\ 1 \in 1..(k - 1 + 1) /\ j \in 1..(k - 1 + 1)
      BY <1>2
    <3> QED BY <1>2, <3>1, SubSeqOfSubSeq
  <2>3. q = SubSeq(d, 1, j) /\ j \in 2..(Len(d) - 1)
    BY <1>1, <1>2, <2>1, <2>2
  <2> QED BY <2>3 DEF N!Ancetres
<1>5. N!SousDomaineDe(d, p)
  BY <1>1, <1>2, <1>3 DEF N!SousDomaineDe, N!IsPrefix
<1> QED BY <1>2, <1>3, <1>4, <1>5

LEMMA AncetresFinis ==
  ASSUME NEW d \in Seq(STRING) PROVE IsFiniteSet(N!Ancetres(d))
<1> DEFINE T == 2..(Len(d) - 1)
           f == [k \in T |-> SubSeq(d, 1, k)]
<1>1. IsFiniteSet(T)
  BY FS_Interval
<1>2. f = [k \in T |-> f[k]] /\ N!Ancetres(d) = {f[k] : k \in T}
  BY DEF N!Ancetres
<1> HIDE DEF f, T
<1> QED BY <1>1, <1>2, ImageFinie

(* The parents that are missing, and their groups.                         *)
LEMMA ParentsDe ==
  ASSUME NEW d \in Seq(STRING)
  PROVE  /\ N!ParentsManquants(d) \subseteq N!Ancetres(d)
         /\ N!ParentsManquants(d) \subseteq Seq(STRING)
         /\ N!ParentsManquants(d) \cap N!DomainesPortes = {}
         /\ N!Ancetres(d) \subseteq N!DomainesPortes \cup N!ParentsManquants(d)
         /\ \A g \in N!GroupesParents(d) :
              g.nom \in N!ParentsManquants(d) /\ g.domaine = g.nom /\ EstGroupe(g)
         /\ \A p \in N!ParentsManquants(d) : \E g \in N!GroupesParents(d) : g.domaine = p
         /\ IsFiniteSet(N!GroupesParents(d))
<1> DEFINE M == N!ParentsManquants(d)
<1>1. /\ M \subseteq N!Ancetres(d) /\ M \cap N!DomainesPortes = {}
      /\ N!Ancetres(d) \subseteq N!DomainesPortes \cup M
  BY DEF N!ParentsManquants
<1>2. M \subseteq Seq(STRING)
  BY <1>1, AncetresDe
<1>3. IsFiniteSet(M)
  BY <1>1, AncetresFinis, FS_Subset
<1> HIDE DEF M
<1>4. N!GroupesParents(d) = {[nom |-> p, domaine |-> p] : p \in M}
  BY DEF N!GroupesParents, M
<1>5. \A g \in N!GroupesParents(d) : g.nom \in M /\ g.domaine = g.nom /\ EstGroupe(g)
  BY <1>2, <1>4 DEF EstGroupe
<1>6. ASSUME NEW p \in M PROVE \E g \in N!GroupesParents(d) : g.domaine = p
  <2> DEFINE g == [nom |-> p, domaine |-> p]
  <2>1. g \in N!GroupesParents(d) /\ g.domaine = p
    BY <1>4
  <2> QED BY <2>1
<1>7. IsFiniteSet(N!GroupesParents(d))
  <2> DEFINE f == [p \in M |-> [nom |-> p, domaine |-> p]]
  <2>1. f = [p \in M |-> f[p]] /\ N!GroupesParents(d) = {f[p] : p \in M}
    <3>1. \A p \in M : f[p] = [nom |-> p, domaine |-> p]
      OBVIOUS
    <3>2. f = [p \in M |-> f[p]]
      OBVIOUS
    <3> HIDE DEF f
    <3> QED BY <1>4, <3>1, <3>2
  <2> HIDE DEF f
  <2> QED BY <1>3, <2>1, ImageFinie
<1> QED BY <1>1, <1>2, <1>5, <1>6, <1>7 DEF M

(* A set of numbers that is not empty has a least.                         *)
LEMMA PlusPetit ==
  ASSUME NEW T \in SUBSET Nat, T # {}
  PROVE  \E x \in T : \A y \in T : x <= y
<1>1. PICK R : /\ IsWellFoundedOn(R, Nat)
               /\ \A x, y \in Nat : x < y => <<x, y>> \in R
  <2>1. \A x, y \in Nat : x < y => <<x, y>> \in OpToRel(<, Nat)
    BY DEF OpToRel
  <2> QED BY <2>1, NatLessThanWellFounded, Zenon
<1>2. PICK x \in T : \A y \in T : ~(<<y, x>> \in R)
  <2>1. T \subseteq Nat /\ T # {}
    OBVIOUS
  <2>2. IsWellFoundedOn(R, Nat)
    BY <1>1
  <2> QED BY <2>1, <2>2, WFMin, Zenon
<1>3. \A y \in T : ~(y < x)
  BY <1>1, <1>2
<1> QED BY <1>3

(* At a start some domains are repaired, all when nothing stops it.        *)
LEMMA Reparation ==
  ASSUME GroupesFormes, N!Demarrer
  PROVE  \E D \in SUBSET N!DomainesPortes :
           /\ IsFiniteSet(D) /\ \A d \in D : ~N!Bloque(d)
           /\ groupes' = groupes \cup UNION {N!GroupesParents(d) : d \in D}
           /\ (\A d \in N!DomainesPortes : ~N!Bloque(d)) => D = N!DomainesPortes
<1> DEFINE P == N!DomainesPortes
           n == Cardinality(P)
<1>1. IsFiniteSet(P)
  <2> DEFINE f == [g \in groupes |-> g.domaine]
  <2>1. f = [g \in groupes |-> f[g]] /\ P = {f[g] : g \in groupes}
    BY DEF N!DomainesPortes
  <2> HIDE DEF f, P
  <2> QED BY <2>1, ImageFinie DEF GroupesFormes
<1>2. n \in Nat
  BY <1>1, FS_CardinalityType
<1> DEFINE premier(s) == IF \E i \in DOMAIN s : N!Bloque(s[i])
             THEN CHOOSE i \in DOMAIN s : N!Bloque(s[i]) /\ \A j \in 1..(i-1) : ~N!Bloque(s[j])
             ELSE Len(s) + 1
<1>3. PICK s \in N!SetToSeqs(P) :
        groupes' = groupes \cup UNION {N!GroupesParents(s[i]) : i \in 1..(premier(s) - 1)}
  BY DEF N!Demarrer, N!CreerDomainesParentsManquants
<1>4. s \in [1..n -> P] /\ \A i, j \in 1..n : i # j => s[i] # s[j]
  BY Cardinaux DEF N!SetToSeqs
<1>5. DOMAIN s = 1..n /\ Len(s) = n
  BY <1>2, <1>4
<1> HIDE DEF P, n
<1>6. CASE \A i \in 1..n : ~N!Bloque(s[i])
  <2>1. premier(s) = n + 1
    BY <1>5, <1>6
  <2>2. \A d \in P : \E i \in 1..n : s[i] = d
    <3>1. s \in Injection(1..n, P)
      BY <1>4 DEF Injection, IsInjective
    <3>2. Cardinality(1..n) = n
      BY <1>2, FS_Interval
    <3>3. s \in Surjection(1..n, P)
      BY <1>1, <3>1, <3>2, FS_Injection DEF n
    <3> QED BY <3>3 DEF Surjection
  <2>3. UNION {N!GroupesParents(s[i]) : i \in 1..(premier(s) - 1)}
          = UNION {N!GroupesParents(d) : d \in P}
    <3>1. premier(s) - 1 = n
      BY <1>2, <2>1
    <3> HIDE DEF premier
    <3> QED BY <1>4, <2>2, <3>1
  <2>4. \A d \in P : ~N!Bloque(d)
    BY <1>6, <2>2
  <2> QED BY <1>1, <1>3, <2>3, <2>4 DEF P
<1>7. CASE \E i \in 1..n : N!Bloque(s[i])
  <2> DEFINE Premier(i) == N!Bloque(s[i]) /\ \A j \in 1..(i-1) : ~N!Bloque(s[j])
             D == {s[i] : i \in 1..(premier(s) - 1)}
  <2>1. \E i \in 1..n : Premier(i)
    <3> DEFINE B == {i \in 1..n : N!Bloque(s[i])}
    <3>1. B \in SUBSET Int /\ B # {} /\ \A i \in B : 1 <= i
      BY <1>7
    <3>2. \E i \in B : \A j \in B : i <= j
      <4> HIDE DEF B
      <4>1. \A i \in B : i \in Nat
        BY <3>1
      <4> QED BY <3>1, <4>1, PlusPetit
    <3>3. PICK i \in B : \A j \in B : i <= j
      BY <3>2
    <3>4. i \in 1..n /\ N!Bloque(s[i])
      OBVIOUS
    <3>5. ASSUME NEW j \in 1..(i - 1) PROVE ~N!Bloque(s[j])
      <4>1. j \in 1..n /\ j < i
        BY <3>4, <1>2
      <4> QED BY <3>3, <4>1
    <3> QED BY <3>4, <3>5
  <2>2. premier(s) \in 1..n /\ Premier(premier(s))
    BY <1>5, <1>7, <2>1
  <2> HIDE DEF premier
  <2>3. D \subseteq P /\ \A d \in D : ~N!Bloque(d)
    BY <1>2, <1>4, <2>2
  <2>4. UNION {N!GroupesParents(s[i]) : i \in 1..(premier(s) - 1)}
          = UNION {N!GroupesParents(d) : d \in D}
    OBVIOUS
  <2>5. ~\A d \in P : ~N!Bloque(d)
    BY <1>4, <1>7
  <2>6. IsFiniteSet(D)
    BY <1>1, <2>3, FS_Subset
  <2>7. groupes' = groupes \cup UNION {N!GroupesParents(d) : d \in D}
    BY <1>3, <2>4
  <2> HIDE DEF D
  <2> QED BY <2>3, <2>5, <2>6, <2>7 DEF P
<1> QED BY <1>6, <1>7

-----------------------------------------------------------------------------
(* The invariant of the directory, whatever the administrators interleave. *)

GroupesUniques == \A g, h \in groupes : g.nom = h.nom => g = h
ComptesUniques == \A u, v \in Uids :
                    comptes[u].nom \in NomsComptes /\ comptes[u].nom = comptes[v].nom => u = v
MembresConnus == \A u \in Uids : comptes[u].groupes \subseteq N!Noms
ProtegeTenu == /\ comptes[UidProtege].nom = CompteProtege
               /\ GroupeSocle \in comptes[UidProtege].groupes

AInv == Formes /\ GroupesUniques /\ ComptesUniques /\ MembresConnus /\ ProtegeTenu

LEMMA DesComptes ==
  UidProtege \in Uids /\ CompteProtege \in NomsComptes /\ "" \notin NomsComptes
BY BasesDeLAnnuaire DEF N!BasesAssumption

(* The accounts of a name.                                                 *)
LEMMA LesUidDe ==
  ASSUME ComptesFormes, NEW n \in NomsComptes, NEW u
  PROVE  u \in N!UidDe(n) <=> u \in Uids /\ comptes[u].nom = n
BY ExisteParSonNom DEF N!UidDe, N!Existants

LEMMA LesUidApres ==
  ASSUME ComptesFormes', NEW n \in NomsComptes, NEW u
  PROVE  u \in N!UidDe(n)' <=> u \in Uids /\ comptes'[u].nom = n
<1>1. "" \notin NomsComptes /\ N!Absent.nom = ""
  BY BasesDeLAnnuaire DEF N!BasesAssumption, N!Absent
<1> QED BY <1>1 DEF ComptesFormes, N!UidDe, N!Existants

LEMMA AInvSuffit == AInv => N!TypeOK /\ N!ProtegeIntact
<1> SUFFICES ASSUME AInv PROVE N!TypeOK /\ N!ProtegeIntact
  OBVIOUS
<1>1. ComptesFormes /\ GestesFormes
  BY DEF AInv, Formes
<1>2. \A u, v \in N!Existants : comptes[u].nom = comptes[v].nom => u = v
  BY <1>1, ExisteParSonNom DEF AInv, ComptesUniques, N!Existants
<1>3. N!TypeOK
  BY <1>1, <1>2 DEF AInv, N!TypeOK, GroupesUniques, MembresConnus, GestesFormes, GesteTenu
<1>4. \A u : u \in N!UidDe(CompteProtege) <=> u = UidProtege
  BY <1>1, LesUidDe, DesComptes DEF AInv, ProtegeTenu, ComptesUniques
<1>5. GroupeSocle \in comptes[UidProtege].groupes /\ GroupeSocle \in N!Noms
  BY DesComptes DEF AInv, ProtegeTenu, MembresConnus
<1>6. \E g \in groupes : g.nom = GroupeSocle
  BY <1>5 DEF N!Noms
<1> QED BY <1>3, <1>4, <1>5, <1>6 DEF N!ProtegeIntact

LEMMA GesteAuRepos == GesteTenu(N!Repos)
BY DEF GesteTenu, EstGeste, N!Repos

LEMMA DepartDeLAnnuaire == N!Init => AInv
<1> SUFFICES ASSUME N!Init PROVE AInv
  OBVIOUS
<1>1. GroupesFormes /\ GroupesUniques
  <2>1. groupes \in Bases
    BY DEF N!Init
  <2>2. /\ N!IsFiniteSet(groupes)
        /\ \A g \in groupes : g = [nom |-> g.nom, domaine |-> g.domaine] /\ g.domaine \in Seq(STRING)
        /\ \A g, h \in groupes : g.nom = h.nom => g = h
    BY <2>1, BasesDeLAnnuaire DEF N!BasesAssumption
  <2> QED BY <2>2, Finis DEF GroupesFormes, GroupesUniques, EstGroupe
<1>2. GestesFormes
  BY GesteAuRepos DEF N!Init, GestesFormes
<1> DEFINE x == N!Absent
           b == [x EXCEPT !.nom = CompteProtege]
           c == [b EXCEPT !.prenom = CompteProtege]
           d == [c EXCEPT !.groupes = {GroupeSocle}]
<1>3. EstCompte(x)
  BY CompteAbsent
<1>4. comptes = [u \in Uids |-> IF u = UidProtege THEN d ELSE x]
  BY DEF N!Init
<1>x. x = N!Absent /\ x.nom = "" /\ x.groupes = {}
  BY CompteAbsent
<1> HIDE DEF x
<1>5. EstCompte(b) /\ b.nom = CompteProtege
  BY <1>3 DEF EstCompte, Compte
<1> HIDE DEF b
<1>6. EstCompte(c) /\ c.nom = CompteProtege
  BY <1>5 DEF EstCompte, Compte
<1> HIDE DEF c
<1>7. EstCompte(d) /\ d.nom = CompteProtege /\ d.groupes = {GroupeSocle}
  BY <1>6 DEF EstCompte, Compte
<1> HIDE DEF d
<1>8. ComptesFormes
  <2>1. comptes = [u \in Uids |-> comptes[u]]
    BY <1>4
  <2>2. \A u \in Uids : comptes[u] = d \/ comptes[u] = N!Absent
    BY <1>4, <1>x
  <2> QED BY <1>3, <1>7, <1>x, <2>1, <2>2, DesComptes DEF ComptesFormes
<1>9. ComptesUniques /\ ProtegeTenu
  BY <1>4, <1>7, <1>x, DesComptes DEF ComptesUniques, ProtegeTenu
<1>10. MembresConnus
  <2>1. GroupeSocle \in N!Noms
    BY BasesDeLAnnuaire DEF N!Init, N!BasesAssumption, N!Noms
  <2>2. \A u \in Uids : comptes[u].groupes = {GroupeSocle} \/ comptes[u].groupes = {}
    BY <1>4, <1>7, <1>x
  <2> QED BY <2>1, <2>2 DEF MembresConnus
<1> QED BY <1>1, <1>2, <1>8, <1>9, <1>10 DEF AInv, Formes

(* More groups, of new names.                                              *)
LEMMA PasGroupesEnPlus ==
  ASSUME AInv, NEW X, groupes' = groupes \cup X, UNCHANGED <<comptes, gestes>>,
         IsFiniteSet(X), \A g \in X : EstGroupe(g) /\ g.nom \notin N!Noms,
         \A g, h \in X : g.nom = h.nom => g = h
  PROVE  AInv'
<1>1. IsFiniteSet(groupes')
  BY FS_Union DEF AInv, Formes, GroupesFormes
<1>2. GroupesFormes'
  BY <1>1 DEF AInv, Formes, GroupesFormes
<1>3. GroupesUniques'
  BY DEF AInv, GroupesUniques, N!Noms
<1>4. MembresConnus'
  <2>1. N!Noms \subseteq N!Noms'
    BY DEF N!Noms
  <2> QED BY <2>1 DEF AInv, MembresConnus
<1>5. ComptesFormes' /\ GestesFormes' /\ ComptesUniques' /\ ProtegeTenu'
  BY DEF AInv, Formes, ComptesFormes, GestesFormes, ComptesUniques, ProtegeTenu
<1> QED BY <1>2, <1>3, <1>4, <1>5 DEF AInv, Formes

LEMMA GroupesCrees ==
  ASSUME AInv, NEW a \in Admins, NEW n \in NomsGroupes, NEW d \in DomainesGroupes,
         N!CreateGroupAvecParents(a, n, d)
  PROVE  LET g == [nom |-> n, domaine |-> d]
             X == N!GroupesParents(d) \cup {g}
         IN  /\ groupes' = groupes \cup X /\ EstGroupe(g) /\ IsFiniteSet(X)
             /\ \A h \in X : EstGroupe(h) /\ h.nom \notin N!Noms
             /\ \A h, i \in X : h.nom = i.nom => h = i
<1> DEFINE g == [nom |-> n, domaine |-> d]
           X == N!GroupesParents(d) \cup {g}
<1>1. d \in Seq(STRING)
  BY BasesDeLAnnuaire DEF N!BasesAssumption
<1>2. EstGroupe(g) /\ g.nom = n
  BY <1>1 DEF EstGroupe
<1>3. /\ n \notin N!Noms \cup N!ParentsManquants(d)
      /\ N!ParentsManquants(d) \cap N!Noms = {}
      /\ groupes' = groupes \cup X
  BY DEF N!CreateGroupAvecParents
<1> HIDE DEF g
<1>4. IsFiniteSet(X)
  BY <1>1, ParentsDe, FS_AddElement
<1>5. \A h \in X : EstGroupe(h) /\ h.nom \notin N!Noms
  BY <1>1, <1>2, <1>3, ParentsDe
<1>6. \A h, i \in N!GroupesParents(d) : h.nom = i.nom => h = i
  BY <1>1, ParentsDe DEF EstGroupe
<1>7. \A h, i \in X : h.nom = i.nom => h = i
  BY <1>1, <1>2, <1>3, <1>6, ParentsDe
<1> QED BY <1>2, <1>3, <1>4, <1>5, <1>7 DEF g

LEMMA PasCreerGroupe ==
  ASSUME AInv, NEW a \in Admins, NEW n \in NomsGroupes, NEW d \in DomainesGroupes,
         N!CreateGroupAvecParents(a, n, d)
  PROVE  AInv'
<1> DEFINE X == N!GroupesParents(d) \cup {[nom |-> n, domaine |-> d]}
<1>1. /\ groupes' = groupes \cup X /\ IsFiniteSet(X)
      /\ \A h \in X : EstGroupe(h) /\ h.nom \notin N!Noms
      /\ \A h, i \in X : h.nom = i.nom => h = i
  BY GroupesCrees
<1>2. UNCHANGED <<comptes, gestes>>
  BY DEF N!CreateGroupAvecParents
<1> HIDE DEF X
<1> QED BY <1>1, <1>2, PasGroupesEnPlus

LEMMA PasDemarrer == ASSUME AInv, N!Demarrer PROVE AInv'
<1>0. GroupesFormes /\ UNCHANGED <<comptes, gestes>>
  BY DEF AInv, Formes, N!Demarrer
<1>1. PICK D \in SUBSET N!DomainesPortes :
        /\ IsFiniteSet(D) /\ \A d \in D : ~N!Bloque(d)
        /\ groupes' = groupes \cup UNION {N!GroupesParents(d) : d \in D}
  BY <1>0, Reparation
<1>2. \A d \in D : d \in Seq(STRING) /\ N!ParentsManquants(d) \cap N!Noms = {}
  BY <1>0, <1>1 DEF GroupesFormes, EstGroupe, N!DomainesPortes, N!Bloque
<1> DEFINE X == UNION {N!GroupesParents(d) : d \in D}
<1>3. \A g \in X : EstGroupe(g) /\ g.nom \notin N!Noms /\ g.domaine = g.nom
  BY <1>2, ParentsDe
<1>4. IsFiniteSet(X)
  <2> DEFINE f == [d \in D |-> N!GroupesParents(d)]
             Y == {f[d] : d \in D}
  <2>1. f = [d \in D |-> f[d]] /\ X = UNION Y
    OBVIOUS
  <2>2. \A d \in D : f[d] = N!GroupesParents(d)
    OBVIOUS
  <2> HIDE DEF f, X
  <2>3. IsFiniteSet(Y)
    BY <1>1, <2>1, ImageFinie
  <2>4. \A T \in Y : IsFiniteSet(T)
    BY <1>2, <2>2, ParentsDe
  <2> QED BY <2>1, <2>3, <2>4, FS_UNION
<1> HIDE DEF X
<1>5. \A g, h \in X : g.nom = h.nom => g = h
  BY <1>3 DEF EstGroupe
<1> QED BY <1>0, <1>1, <1>3, <1>4, <1>5, PasGroupesEnPlus DEF X

(* One account, of no other's name.                                        *)
LEMMA PasUnCompte ==
  ASSUME AInv, NEW u \in Uids, ComptesFormes', Restent(u), UNCHANGED groupes, GestesFormes',
         comptes'[u].groupes \subseteq N!Noms,
         comptes'[u].nom \in NomsComptes =>
           \A v \in Uids \ {u} : comptes[v].nom # comptes'[u].nom,
         u = UidProtege =>
           comptes'[u].nom = CompteProtege /\ GroupeSocle \in comptes'[u].groupes
  PROVE  AInv'
<1>1. GroupesFormes' /\ GroupesUniques' /\ N!Noms' = N!Noms
  BY DEF AInv, Formes, GroupesFormes, GroupesUniques, N!Noms
<1>2. ComptesUniques' /\ MembresConnus' /\ ProtegeTenu'
  BY <1>1, DesComptes DEF AInv, ComptesUniques, MembresConnus, ProtegeTenu, Restent
<1> QED BY <1>1, <1>2 DEF AInv, Formes

LEMMA GestesMemes ==
  ASSUME AInv, UNCHANGED gestes PROVE GestesFormes'
BY DEF AInv, Formes, GestesFormes

LEMMA PasCreerCompte ==
  ASSUME AInv, NEW a \in Admins, NEW u \in Uids, NEW n \in NomsComptes, N!CreateNewUser(a, u, n)
  PROVE  AInv'
<1>1. ComptesFormes
  BY DEF AInv, Formes
<1>2. /\ ComptesFormes' /\ Restent(u) /\ comptes'[u].nom = n /\ comptes'[u].groupes = {}
  BY <1>1, ApresCreer
<1>3. /\ comptes[u] = N!Absent /\ N!UidDe(n) = {} /\ UNCHANGED <<groupes, gestes>>
  BY DEF N!CreateNewUser
<1>4. u # UidProtege
  BY <1>3, CompteAbsent, DesComptes DEF AInv, ProtegeTenu
<1>5. \A v \in Uids : comptes[v].nom # n
  BY <1>1, <1>3, LesUidDe
<1> QED BY <1>2, <1>3, <1>4, <1>5, GestesMemes, PasUnCompte

LEMMA PasSupprimerCompte ==
  ASSUME AInv, NEW a \in Admins, NEW u \in Uids, N!SupprimerUtilisateur(a, u)
  PROVE  AInv'
<1>1. ComptesFormes
  BY DEF AInv, Formes
<1>2. ComptesFormes' /\ Restent(u) /\ comptes'[u] = N!Absent
  BY <1>1, EcritSupprimer, ApresSuppression
<1>3. comptes[u].nom # CompteProtege /\ UNCHANGED <<groupes, gestes>>
  BY DEF N!SupprimerUtilisateur
<1>4. u # UidProtege
  BY <1>3 DEF AInv, ProtegeTenu
<1>5. comptes'[u].nom \notin NomsComptes /\ comptes'[u].groupes = {}
  BY <1>2, CompteAbsent, DesComptes
<1> QED BY <1>2, <1>3, <1>4, <1>5, GestesMemes, PasUnCompte

(* The groups of one account.                                              *)
LEMMA PasSesGroupes ==
  ASSUME AInv, NEW u \in N!Existants, NEW gs, UNCHANGED <<groupes, gestes>>,
         comptes' = [comptes EXCEPT ![u].groupes = gs], gs \subseteq N!Noms,
         u = UidProtege => GroupeSocle \in gs
  PROVE  AInv'
<1>1. ComptesFormes /\ u \in Uids
  BY DEF AInv, Formes, N!Existants
<1>2. /\ ComptesFormes' /\ Restent(u) /\ comptes'[u].nom = comptes[u].nom
      /\ comptes'[u].groupes = gs
  BY <1>1, ApresGroupes
<1>3. u = UidProtege => comptes'[u].nom = CompteProtege
  BY <1>2 DEF AInv, ProtegeTenu
<1>4. comptes'[u].nom \in NomsComptes => \A v \in Uids \ {u} : comptes[v].nom # comptes'[u].nom
  BY <1>1, <1>2 DEF AInv, ComptesUniques
<1> QED BY <1>1, <1>2, <1>3, <1>4, GestesMemes, PasUnCompte

LEMMA PasMembres ==
  ASSUME AInv, NEW a \in Admins, NEW u \in Uids, NEW n \in N!Noms,
         N!AjouterAuGroupe(a, u, n) \/ N!RetirerDuGroupe(a, u, n)
  PROVE  AInv'
<1> DEFINE gs == comptes[u].groupes
<1>0. gs \subseteq N!Noms /\ (u = UidProtege => GroupeSocle \in gs)
  BY DEF AInv, MembresConnus, ProtegeTenu
<1>1. CASE N!AjouterAuGroupe(a, u, n)
  <2>1. /\ u \in N!Existants /\ UNCHANGED <<groupes, gestes>>
        /\ comptes' = [comptes EXCEPT ![u].groupes = gs \cup {n}]
    BY <1>1 DEF N!AjouterAuGroupe
  <2> HIDE DEF gs
  <2>2. gs \cup {n} \subseteq N!Noms /\ (u = UidProtege => GroupeSocle \in gs \cup {n})
    BY <1>0
  <2> QED BY <2>1, <2>2, PasSesGroupes
<1>2. CASE N!RetirerDuGroupe(a, u, n)
  <2>1. /\ u \in N!Existants /\ UNCHANGED <<groupes, gestes>>
        /\ comptes' = [comptes EXCEPT ![u].groupes = gs \ {n}]
        /\ ~(comptes[u].nom = CompteProtege /\ n = GroupeSocle)
    BY <1>2 DEF N!RetirerDuGroupe, N!GuardProtectedMembership
  <2>2. u = UidProtege => n # GroupeSocle
    BY <2>1 DEF AInv, ProtegeTenu
  <2> HIDE DEF gs
  <2>3. gs \ {n} \subseteq N!Noms /\ (u = UidProtege => GroupeSocle \in gs \ {n})
    BY <1>0, <2>2
  <2> QED BY <2>1, <2>3, PasSesGroupes
<1> QED BY <1>1, <1>2

LEMMA PasLeSien ==
  ASSUME AInv, NEW u \in Uids, N!ChangerLeSien(u) PROVE AInv'
<1>1. ComptesFormes
  BY DEF AInv, Formes
<1>2. /\ ComptesFormes' /\ Restent(u) /\ comptes'[u].nom = comptes[u].nom
      /\ comptes'[u].groupes = comptes[u].groupes
  BY <1>1, ApresLeSien
<1>3. UNCHANGED <<groupes, gestes>>
  BY DEF N!ChangerLeSien
<1>4. comptes'[u].nom \in NomsComptes => \A v \in Uids \ {u} : comptes[v].nom # comptes'[u].nom
  BY <1>2 DEF AInv, ComptesUniques
<1>5. comptes'[u].groupes \subseteq N!Noms
  BY <1>2 DEF AInv, MembresConnus
<1>6. u = UidProtege =>
        comptes'[u].nom = CompteProtege /\ GroupeSocle \in comptes'[u].groupes
  BY <1>2 DEF AInv, ProtegeTenu
<1> QED BY <1>2, <1>3, <1>4, <1>5, <1>6, GestesMemes, PasUnCompte

(* The step of a request.                                                  *)
LEMMA PasDeGeste ==
  ASSUME GestesFormes, NEW a \in Admins, NEW r, GesteTenu(r), gestes' = [gestes EXCEPT ![a] = r]
  PROVE  GestesFormes'
<1>1. gestes' = [b \in Admins |-> IF b = a THEN r ELSE gestes[b]]
  BY DEF GestesFormes
<1> QED BY <1>1 DEF GestesFormes

LEMMA PasGesteSeul ==
  ASSUME AInv, NEW a \in Admins, NEW r, GesteTenu(r), gestes' = [gestes EXCEPT ![a] = r],
         UNCHANGED <<groupes, comptes>>
  PROVE  AInv'
<1>1. GestesFormes'
  BY PasDeGeste DEF AInv, Formes
<1> QED BY <1>1 DEF AInv, Formes, GroupesFormes, ComptesFormes, GroupesUniques, ComptesUniques,
                    MembresConnus, ProtegeTenu, N!Noms

(* A request field by field.                                               *)
LEMMA ChampPc ==
  ASSUME NEW q, EstGeste(q), NEW x
  PROVE  LET r == [q EXCEPT !.pc = x] IN
         /\ EstGeste(r) /\ r.pc = x /\ r.op = q.op /\ r.cible = q.cible /\ r.nom = q.nom
         /\ r.vu = q.vu /\ r.uid = q.uid /\ r.groupe = q.groupe
BY DEF EstGeste

LEMMA ChampGroupe ==
  ASSUME NEW q, EstGeste(q), NEW x
  PROVE  LET r == [q EXCEPT !.groupe = x] IN
         /\ EstGeste(r) /\ r.pc = q.pc /\ r.op = q.op /\ r.groupe = x
BY DEF EstGeste

LEMMA ChampUid ==
  ASSUME NEW q, EstGeste(q), NEW x
  PROVE  LET r == [q EXCEPT !.uid = x] IN
         /\ EstGeste(r) /\ r.pc = q.pc /\ r.op = q.op /\ r.cible = q.cible /\ r.nom = q.nom
         /\ r.vu = q.vu /\ r.uid = x
BY DEF EstGeste

(* What each step of a request notes.                                      *)
Note(a, r) == gestes' = [gestes EXCEPT ![a] = r]

LEMMA NoteSupprimer ==
  ASSUME NEW a \in Admins, NEW n, N!SupprimerGroupe(a, n)
  PROVE  \E r : Note(a, r) /\ GesteTenu(r) /\ r.pc = "verifie" /\ r.groupe = n
<1> DEFINE q == N!Repos
           b == [q EXCEPT !.pc = "verifie"]
           r == [b EXCEPT !.groupe = n]
<1>0. Note(a, r)
  BY DEF N!SupprimerGroupe, Note
<1>1. EstGeste(q)
  BY GesteAuRepos DEF GesteTenu
<1> HIDE DEF q
<1>2. EstGeste(b) /\ b.pc = "verifie"
  BY <1>1, ChampPc
<1> HIDE DEF b
<1>3. EstGeste(r) /\ r.pc = "verifie" /\ r.groupe = n
  BY <1>2, ChampGroupe
<1> HIDE DEF r
<1>4. GesteTenu(r)
  BY <1>3 DEF GesteTenu
<1> QED BY <1>0, <1>3, <1>4

OpsDuProfil == {"modifier", "motdepasse"}

LEMMA NoteLireProfil ==
  ASSUME ComptesFormes, NEW a \in Admins, NEW op \in OpsDuProfil,
         NEW c \in NomsComptes, NEW n \in NomsComptes, N!LireProfil(a, op, c, n)
  PROVE  \E r : /\ Note(a, r) /\ GesteTenu(r) /\ r.pc = "lu" /\ r.op = op /\ r.cible = c
                /\ N!UidDe(c) # {} => \E u \in N!UidDe(c) : r.vu = comptes[u]
<1> DEFINE q == N!Repos
           absent == N!Absent
           bare == [absent EXCEPT !.nom = c]
           v == IF N!UidDe(c) = {} THEN bare ELSE comptes[CHOOSE u \in N!UidDe(c) : TRUE]
           b == [q EXCEPT !.pc = "lu"]
           d == [b EXCEPT !.op = op]
           e == [d EXCEPT !.cible = c]
           f == [e EXCEPT !.nom = n]
           r == [f EXCEPT !.vu = v]
<1>0. Note(a, r)
  BY DEF N!LireProfil, Note
<1>1. EstGeste(q)
  BY GesteAuRepos DEF GesteTenu
<1>2. v.nom = c /\ (N!UidDe(c) # {} => \E u \in N!UidDe(c) : v = comptes[u])
  <2>1. CASE N!UidDe(c) = {}
    <3>1. EstCompte(absent)
      BY CompteAbsent
    <3> HIDE DEF absent
    <3>2. bare.nom = c
      BY <3>1, ChampNom DEF Compte
    <3> QED BY <2>1, <3>2
  <2>2. CASE N!UidDe(c) # {}
    <3>1. PICK u \in N!UidDe(c) : v = comptes[u]
      BY <2>2, ChoixDedans
    <3>2. comptes[u].nom = c
      BY DEF N!UidDe
    <3> HIDE DEF v
    <3> QED BY <3>1, <3>2
  <2> QED BY <2>1, <2>2
<1> HIDE DEF q, v
<1>3. EstGeste(b) /\ b.pc = "lu"
  BY <1>1, ChampPc
<1> HIDE DEF b
<1>d. EstGeste(d) /\ d.pc = "lu" /\ d.op = op
  BY <1>3 DEF EstGeste
<1> HIDE DEF d
<1>e. EstGeste(e) /\ e.pc = "lu" /\ e.op = op /\ e.cible = c
  BY <1>d DEF EstGeste
<1> HIDE DEF e
<1>f. EstGeste(f) /\ f.pc = "lu" /\ f.op = op /\ f.cible = c /\ f.nom = n
  BY <1>e DEF EstGeste
<1> HIDE DEF f
<1>4. EstGeste(r) /\ r.pc = "lu" /\ r.op = op /\ r.cible = c /\ r.nom = n /\ r.vu = v
  BY <1>f DEF EstGeste
<1> HIDE DEF r
<1>5. GesteTenu(r)
  BY <1>2, <1>4 DEF GesteTenu, OpsDuProfil
<1> QED BY <1>0, <1>2, <1>4, <1>5

LEMMA NoteLireUid ==
  ASSUME ComptesFormes, GestesFormes, NEW a \in Admins, N!LireUid(a)
  PROVE  LET q == gestes[a] IN
         /\ q.pc = "lu"
         /\ \/ Note(a, N!Repos)
            \/ \E r : /\ Note(a, r) /\ GesteTenu(r) /\ r.pc = "identifie" /\ r.op = q.op
                      /\ r.cible = q.cible /\ r.vu = q.vu /\ r.uid \in N!UidDe(r.cible)
<1> DEFINE q == gestes[a]
           b == [q EXCEPT !.pc = "identifie"]
           u == CHOOSE x \in N!UidDe(q.cible) : TRUE
           r == [b EXCEPT !.uid = u]
<1>1. /\ q.pc = "lu" /\ GesteTenu(q)
      /\ gestes' = [gestes EXCEPT ![a] = IF N!UidDe(q.cible) = {} THEN N!Repos ELSE r]
  BY DEF N!LireUid, GestesFormes
<1>2. CASE N!UidDe(q.cible) = {}
  BY <1>1, <1>2 DEF Note
<1>3. CASE N!UidDe(q.cible) # {}
  <2>1. Note(a, r)
    BY <1>1, <1>3 DEF Note
  <2>2. u \in N!UidDe(q.cible) /\ u \in Uids
    <3>1. u \in N!UidDe(q.cible)
      BY <1>3, ChoixDedans
    <3> QED BY <3>1 DEF N!UidDe, N!Existants
  <2> HIDE DEF q, u
  <2>3. /\ EstGeste(b) /\ b.pc = "identifie" /\ b.op = q.op /\ b.cible = q.cible /\ b.nom = q.nom
        /\ b.vu = q.vu
    BY <1>1, ChampPc DEF GesteTenu
  <2> HIDE DEF b
  <2>4. /\ EstGeste(r) /\ r.pc = "identifie" /\ r.op = q.op /\ r.cible = q.cible
        /\ r.nom = q.nom /\ r.vu = q.vu /\ r.uid = u
    BY <2>3, ChampUid
  <2> HIDE DEF r
  <2>5. GesteTenu(r)
    BY <1>1, <2>2, <2>4 DEF GesteTenu
  <2>6. r.uid \in N!UidDe(r.cible)
    BY <2>2, <2>4
  <2> QED BY <1>1, <2>1, <2>4, <2>5, <2>6 DEF q
<1> QED BY <1>2, <1>3

LEMMA NoteUpdate ==
  ASSUME GestesFormes, NEW a \in Admins, N!UpdateUserInfo(a)
  PROVE  LET q == gestes[a] IN
         /\ q.pc = "identifie"
         /\ \/ /\ Note(a, N!Repos)
               /\ q.op = "motdepasse" => comptes' = comptes
            \/ /\ q.op = "motdepasse"
               /\ \E r : /\ Note(a, r) /\ GesteTenu(r) /\ r.pc = "ecrit" /\ r.op = q.op
                         /\ r.cible = q.cible
<1> DEFINE q == gestes[a]
           r == [q EXCEPT !.pc = "ecrit"]
<1>1. /\ q.pc = "identifie" /\ GesteTenu(q)
      /\ \/ /\ Note(a, N!Repos)
            /\ q.op = "motdepasse" => comptes' = comptes
         \/ q.op = "motdepasse" /\ Note(a, r)
  BY DEF N!UpdateUserInfo, GestesFormes, Note
<1> HIDE DEF q
<1>2. /\ EstGeste(r) /\ r.pc = "ecrit" /\ r.op = q.op /\ r.cible = q.cible /\ r.nom = q.nom
      /\ r.vu = q.vu
  BY <1>1, ChampPc DEF GesteTenu
<1> HIDE DEF r
<1>3. GesteTenu(r)
  BY <1>1, <1>2 DEF GesteTenu
<1> QED BY <1>1, <1>2, <1>3 DEF q

LEMMA PasSupprimerGroupe ==
  ASSUME AInv, NEW a \in Admins, NEW n, N!SupprimerGroupe(a, n) PROVE AInv'
<1>1. PICK r : Note(a, r) /\ GesteTenu(r)
  BY NoteSupprimer
<1>2. UNCHANGED <<groupes, comptes>>
  BY DEF N!SupprimerGroupe
<1> QED BY <1>1, <1>2, PasGesteSeul DEF Note

LEMMA PasLireProfil ==
  ASSUME AInv, NEW a \in Admins, NEW op \in OpsDuProfil,
         NEW c \in NomsComptes, NEW n \in NomsComptes, N!LireProfil(a, op, c, n)
  PROVE  AInv'
<1>1. ComptesFormes /\ UNCHANGED <<groupes, comptes>>
  BY DEF AInv, Formes, N!LireProfil
<1>2. PICK r : Note(a, r) /\ GesteTenu(r)
  BY <1>1, NoteLireProfil, Zenon
<1> QED BY <1>1, <1>2, PasGesteSeul DEF Note

LEMMA PasLireUid ==
  ASSUME AInv, NEW a \in Admins, N!LireUid(a) PROVE AInv'
<1>1. ComptesFormes /\ GestesFormes /\ UNCHANGED <<groupes, comptes>>
  BY DEF AInv, Formes, N!LireUid
<1>2. PICK r : Note(a, r) /\ GesteTenu(r)
  BY <1>1, NoteLireUid, GesteAuRepos
<1> QED BY <1>1, <1>2, PasGesteSeul DEF Note

LEMMA PasDeleteGroup ==
  ASSUME AInv, NEW a \in Admins, N!DeleteGroup(a) PROVE AInv'
<1> DEFINE n == gestes[a].groupe
<1>1. gestes' = [gestes EXCEPT ![a] = N!Repos]
  BY DEF N!DeleteGroup
<1>2. CASE n = GroupeSocle
  <2>1. UNCHANGED <<groupes, comptes>>
    BY <1>2 DEF N!DeleteGroup
  <2> QED BY <1>1, <2>1, GesteAuRepos, PasGesteSeul
<1>3. CASE n # GroupeSocle
  <2>1. /\ groupes' = {g \in groupes : g.nom # n}
        /\ comptes' = [u \in Uids |-> [comptes[u] EXCEPT !.groupes = @ \ {n}]]
    BY <1>3 DEF N!DeleteGroup
  <2> HIDE DEF n
  <2>2. /\ ComptesFormes'
        /\ \A u \in Uids : comptes'[u].nom = comptes[u].nom
                           /\ comptes'[u].groupes = comptes[u].groupes \ {n}
    BY <2>1, ApresRetrait DEF AInv, Formes
  <2>3. GestesFormes'
    BY <1>1, GesteAuRepos, PasDeGeste DEF AInv, Formes
  <2>4. GroupesFormes' /\ GroupesUniques'
    BY <2>1, FS_Subset DEF AInv, Formes, GroupesFormes, GroupesUniques
  <2>5. MembresConnus'
    <3>1. \A x \in N!Noms : x = n \/ x \in N!Noms'
      BY <2>1 DEF N!Noms
    <3> QED BY <2>2, <3>1 DEF AInv, MembresConnus
  <2>6. ComptesUniques' /\ ProtegeTenu'
    BY <1>3, <2>2, DesComptes DEF AInv, ComptesUniques, ProtegeTenu
  <2> QED BY <2>2, <2>3, <2>4, <2>5, <2>6 DEF AInv, Formes
<1> QED BY <1>2, <1>3

LEMMA PasMarquer ==
  ASSUME AInv, NEW a \in Admins, N!MarquerProvisoire(a) PROVE AInv'
<1>1. gestes' = [gestes EXCEPT ![a] = N!Repos] /\ UNCHANGED groupes
  BY DEF N!MarquerProvisoire
<1>2. /\ ComptesFormes'
      /\ \A u \in Uids : comptes'[u].nom = comptes[u].nom /\ comptes'[u].groupes = comptes[u].groupes
  BY ApresMarque DEF AInv, Formes
<1>3. GestesFormes'
  BY <1>1, GesteAuRepos, PasDeGeste DEF AInv, Formes
<1>4. GroupesFormes' /\ GroupesUniques' /\ N!Noms' = N!Noms
  BY <1>1 DEF AInv, Formes, GroupesFormes, GroupesUniques, N!Noms
<1>5. ComptesUniques' /\ ProtegeTenu' /\ MembresConnus'
  BY <1>2, <1>4, DesComptes DEF AInv, ComptesUniques, ProtegeTenu, MembresConnus
<1> QED BY <1>2, <1>3, <1>4, <1>5 DEF AInv, Formes

LEMMA PasUpdateUserInfo ==
  ASSUME AInv, NEW a \in Admins, N!UpdateUserInfo(a) PROVE AInv'
<1> DEFINE q == gestes[a]
           u == q.uid
           n == N!NomEcrit(q)
           p == N!PrenomEcrit(q)
           c == comptes[u]
           m == IF q.op = "motdepasse" THEN "tiers" ELSE c.mdp
           prov == c.provisoire
           gs == c.groupes
<1>1. ComptesFormes /\ GestesFormes /\ UNCHANGED groupes
  BY DEF AInv, Formes, N!UpdateUserInfo
<1>2. PICK r : Note(a, r) /\ GesteTenu(r)
  BY <1>1, NoteUpdate, GesteAuRepos
<1>3. CASE comptes' = comptes
  BY <1>1, <1>2, <1>3, PasGesteSeul DEF Note
<1>4. CASE comptes' # comptes
  <2>1. q.pc = "identifie" /\ GesteTenu(q)
    BY <1>1 DEF GestesFormes, N!UpdateUserInfo
  <2>2. u \in Uids /\ n \in NomsComptes
    BY <2>1 DEF GesteTenu, N!NomEcrit
  <2>3. /\ Ecrit(u, Compte(n, p, m, prov, gs))
        /\ N!GuardProtectedUserRename(c.nom, n) /\ N!UidDe(n) \subseteq {u}
    BY <1>1, <1>4, <2>2, EcritModifier
  <2>4. /\ gs \subseteq N!Noms
        /\ u = UidProtege => n = CompteProtege /\ GroupeSocle \in gs
    BY <2>2, <2>3 DEF AInv, MembresConnus, ProtegeTenu, N!GuardProtectedUserRename
  <2>5. \A v \in Uids \ {u} : comptes[v].nom # n
    BY <1>1, <2>2, <2>3, LesUidDe
  <2>6. GestesFormes'
    BY <1>1, <1>2, PasDeGeste DEF Note
  <2> HIDE DEF u, n, p, m, prov, gs
  <2>7. ComptesFormes' /\ Restent(u) /\ comptes'[u].nom = n /\ comptes'[u].groupes = gs
    BY <1>1, <2>2, <2>3, ApresCompte, Zenon
  <2> QED BY <1>1, <2>2, <2>4, <2>5, <2>6, <2>7, PasUnCompte
<1> QED BY <1>3, <1>4

LEMMA PasDeLAnnuaire == AInv /\ [N!Next]_annuaireVars => AInv'
<1> SUFFICES ASSUME AInv, [N!Next]_annuaireVars PROVE AInv'
  OBVIOUS
<1>1. ASSUME NEW a \in Admins, N!Geste(a) PROVE AInv'
  <2>1. ASSUME NEW n \in NomsGroupes, NEW d \in DomainesGroupes, N!CreateGroupAvecParents(a, n, d)
        PROVE  AInv'
    BY <2>1, PasCreerGroupe
  <2>2. ASSUME NEW n \in N!Noms, N!SupprimerGroupe(a, n) PROVE AInv'
    BY <2>2, PasSupprimerGroupe
  <2>3. ASSUME NEW u \in Uids, NEW n \in NomsComptes, N!CreateNewUser(a, u, n) PROVE AInv'
    BY <2>3, PasCreerCompte
  <2>4. ASSUME NEW u \in Uids, N!SupprimerUtilisateur(a, u) PROVE AInv'
    BY <2>4, PasSupprimerCompte
  <2>5. ASSUME NEW u \in Uids, NEW n \in N!Noms,
               N!AjouterAuGroupe(a, u, n) \/ N!RetirerDuGroupe(a, u, n)
        PROVE  AInv'
    BY <2>5, PasMembres
  <2>6. ASSUME NEW op \in OpsDuProfil, NEW c \in NomsComptes, NEW n \in NomsComptes,
               N!LireProfil(a, op, c, n)
        PROVE  AInv'
    BY <2>6, PasLireProfil
  <2>7. N!DeleteGroup(a) \/ N!LireUid(a) \/ N!UpdateUserInfo(a) \/ N!MarquerProvisoire(a) => AInv'
    BY PasDeleteGroup, PasLireUid, PasUpdateUserInfo, PasMarquer
  <2> QED BY <1>1, <2>1, <2>2, <2>3, <2>4, <2>5, <2>6, <2>7 DEF N!Geste, OpsDuProfil
<1>2. CASE N!Autres
  BY <1>2, PasDemarrer, PasLeSien DEF N!Autres
<1>3. CASE UNCHANGED annuaireVars
  BY <1>3 DEF annuaireVars, AInv, Formes, GroupesFormes, ComptesFormes, GestesFormes,
              GroupesUniques, ComptesUniques, MembresConnus, ProtegeTenu, N!Noms
<1> QED BY <1>1, <1>2, <1>3 DEF N!Next

-----------------------------------------------------------------------------
(* One request at a time. The profile that was read is the one of the      *)
(* account that is written; and an account whose password somebody else    *)
(* set is marked, or is about to be.                                       *)

Calmes(a) == \A b \in Admins \ {a} : gestes[b] = N!Repos
Suit(r) ==
  /\ r.pc = "lu" => \A u \in N!UidDe(r.cible) : comptes[u].prenom = r.vu.prenom
  /\ r.pc = "identifie" => r.uid \in N!UidDe(r.cible) /\ comptes[r.uid].prenom = r.vu.prenom
Marque(u, r) == comptes[u].provisoire \/ (r.pc = "ecrit" /\ comptes[u].nom = r.cible)
TiersSuivis ==
  \A u \in Uids : comptes[u].mdp = "tiers" =>
    comptes[u].provisoire \/ \E a \in Admins : Marque(u, gestes[a])

SInv == (\A a \in Admins : Suit(gestes[a])) /\ TiersSuivis

LEMMA PcAuRepos == N!Repos.pc = "repos"
BY DEF N!Repos

LEMMA SInvSuffit == SInv => N!TiersProvisoire
BY PcAuRepos DEF SInv, TiersSuivis, Marque, N!TiersProvisoire, N!Existants

LEMMA DepartSuivi == N!Init => SInv
<1> SUFFICES ASSUME N!Init PROVE SInv
  OBVIOUS
<1>1. \A a \in Admins : gestes[a] = N!Repos
  BY DEF N!Init
<1>2. \A u \in Uids : comptes[u].mdp # "tiers"
  <2> DEFINE x == N!Absent
             b == [x EXCEPT !.nom = CompteProtege]
             c == [b EXCEPT !.prenom = CompteProtege]
             d == [c EXCEPT !.groupes = {GroupeSocle}]
  <2>1. comptes = [u \in Uids |-> IF u = UidProtege THEN d ELSE x]
    BY DEF N!Init
  <2>2. EstCompte(x) /\ x.mdp = "initial"
    BY CompteAbsent
  <2> HIDE DEF x
  <2>3. EstCompte(b) /\ b.mdp = "initial"
    BY <2>2 DEF EstCompte, Compte
  <2> HIDE DEF b
  <2>4. EstCompte(c) /\ c.mdp = "initial"
    BY <2>3 DEF EstCompte, Compte
  <2> HIDE DEF c
  <2>5. d.mdp = "initial"
    BY <2>4 DEF EstCompte, Compte
  <2> HIDE DEF d
  <2> QED BY <2>1, <2>2, <2>5
<1> QED BY <1>1, <1>2, PcAuRepos DEF SInv, Suit, TiersSuivis

(* The request of a becomes r, alone.                                      *)
LEMMA PasSuivi ==
  ASSUME GestesFormes, NEW a \in Admins, Calmes(a), NEW r, Note(a, r), Suit(r)',
         \A u \in Uids : comptes'[u].mdp = "tiers" => Marque(u, r)'
  PROVE  SInv'
<1>1. gestes' = [b \in Admins |-> IF b = a THEN r ELSE gestes[b]]
  BY DEF Note, GestesFormes
<1>2. gestes'[a] = r /\ \A b \in Admins \ {a} : gestes'[b] = N!Repos
  BY <1>1 DEF Calmes
<1>3. \A b \in Admins : Suit(gestes[b])'
  BY <1>2, PcAuRepos DEF Suit
<1>4. TiersSuivis'
  BY <1>2 DEF TiersSuivis, Marque
<1> QED BY <1>3, <1>4 DEF SInv

(* It was idle, and still is.                                              *)
LEMMA PasSuiviAuRepos ==
  ASSUME GestesFormes, SInv, NEW a \in Admins, Calmes(a), gestes[a] = N!Repos, UNCHANGED gestes,
         \A u \in Uids : comptes'[u].mdp = "tiers" =>
           comptes[u].mdp = "tiers" /\ (comptes[u].provisoire => comptes'[u].provisoire)
  PROVE  SInv'
<1>1. \A u \in Uids : comptes[u].mdp = "tiers" => comptes[u].provisoire
  BY PcAuRepos DEF SInv, TiersSuivis, Marque, Calmes
<1>2. Note(a, N!Repos)
  BY DEF Note, GestesFormes
<1>3. Suit(N!Repos)'
  BY PcAuRepos DEF Suit
<1> QED BY <1>1, <1>2, <1>3, PasSuivi DEF Marque

(* Neither a name nor a password changes.                                  *)
Inchanges == \A u \in Uids : /\ comptes'[u].nom = comptes[u].nom
                             /\ comptes'[u].prenom = comptes[u].prenom
                             /\ comptes'[u].mdp = comptes[u].mdp
                             /\ comptes[u].provisoire => comptes'[u].provisoire

LEMMA SuiviSansEcriture ==
  ASSUME GestesFormes, SInv, NEW a \in Admins, Calmes(a), gestes[a] = N!Repos, UNCHANGED gestes,
         Inchanges
  PROVE  SInv' /\ N!ProfilGarde
<1>1. SInv'
  BY PasSuiviAuRepos DEF Inchanges
<1>2. N!ProfilGarde
  BY DEF Inchanges, N!ProfilGarde, N!Existants
<1> QED BY <1>1, <1>2

LEMMA SuiviCreerCompte ==
  ASSUME ComptesFormes, GestesFormes, SInv, NEW a \in Admins, Calmes(a), NEW u \in Uids,
         NEW n \in NomsComptes, N!CreateNewUser(a, u, n)
  PROVE  SInv' /\ N!ProfilGarde
<1>1. Restent(u) /\ comptes'[u].mdp = "initial"
  BY ApresCreer
<1>2. gestes[a] = N!Repos /\ UNCHANGED gestes /\ u \notin N!Existants
  BY DEF N!CreateNewUser, N!Existants
<1>3. SInv'
  BY <1>1, <1>2, PasSuiviAuRepos DEF Restent
<1>4. N!ProfilGarde
  BY <1>1, <1>2 DEF Restent, N!ProfilGarde, N!Existants
<1> QED BY <1>3, <1>4

LEMMA SuiviSupprimerCompte ==
  ASSUME ComptesFormes, GestesFormes, SInv, NEW a \in Admins, Calmes(a), NEW u \in Uids,
         N!SupprimerUtilisateur(a, u)
  PROVE  SInv' /\ N!ProfilGarde
<1>1. Restent(u) /\ comptes'[u] = N!Absent
  BY EcritSupprimer, ApresSuppression
<1>2. gestes[a] = N!Repos /\ UNCHANGED gestes
  BY DEF N!SupprimerUtilisateur
<1>3. SInv'
  BY <1>1, <1>2, CompteAbsent, PasSuiviAuRepos DEF Restent
<1>4. N!ProfilGarde
  BY <1>1 DEF Restent, N!ProfilGarde, N!Existants
<1> QED BY <1>3, <1>4

LEMMA SuiviMembres ==
  ASSUME ComptesFormes, GestesFormes, SInv, NEW a \in Admins, Calmes(a), NEW u \in Uids, NEW n,
         N!AjouterAuGroupe(a, u, n) \/ N!RetirerDuGroupe(a, u, n)
  PROVE  SInv' /\ N!ProfilGarde
<1> DEFINE plus == comptes[u].groupes \cup {n}
           moins == comptes[u].groupes \ {n}
<1>1. /\ u \in N!Existants /\ gestes[a] = N!Repos /\ UNCHANGED gestes
      /\ \/ comptes' = [comptes EXCEPT ![u].groupes = plus]
         \/ comptes' = [comptes EXCEPT ![u].groupes = moins]
  BY DEF N!AjouterAuGroupe, N!RetirerDuGroupe
<1> HIDE DEF plus, moins
<1>2. /\ Restent(u) /\ comptes'[u].nom = comptes[u].nom /\ comptes'[u].prenom = comptes[u].prenom
      /\ comptes'[u].mdp = comptes[u].mdp /\ comptes'[u].provisoire = comptes[u].provisoire
  BY <1>1, ApresGroupes
<1>3. Inchanges
  BY <1>2 DEF Restent, Inchanges
<1> QED BY <1>1, <1>3, SuiviSansEcriture

(* The steps of a request that leave the accounts.                         *)
LEMMA SuiviSupprimerGroupe ==
  ASSUME GestesFormes, SInv, NEW a \in Admins, Calmes(a), NEW n, N!SupprimerGroupe(a, n)
  PROVE  SInv' /\ N!ProfilGarde
<1>1. gestes[a] = N!Repos /\ UNCHANGED comptes
  BY DEF N!SupprimerGroupe
<1>2. PICK r : Note(a, r) /\ r.pc = "verifie"
  BY NoteSupprimer
<1>3. \A u \in Uids : comptes[u].mdp = "tiers" => comptes[u].provisoire
  BY <1>1, PcAuRepos DEF SInv, TiersSuivis, Marque, Calmes
<1>4. SInv'
  BY <1>1, <1>2, <1>3, PasSuivi DEF Suit, Marque
<1> QED BY <1>1, <1>4 DEF N!ProfilGarde

LEMMA SuiviLireProfil ==
  ASSUME ComptesFormes, GestesFormes, ComptesUniques, SInv, NEW a \in Admins, Calmes(a),
         NEW op \in OpsDuProfil, NEW c \in NomsComptes, NEW n \in NomsComptes,
         N!LireProfil(a, op, c, n)
  PROVE  SInv' /\ N!ProfilGarde
<1>1. gestes[a] = N!Repos /\ UNCHANGED comptes
  BY DEF N!LireProfil
<1>2. \E r : /\ Note(a, r) /\ GesteTenu(r) /\ r.pc = "lu" /\ r.op = op /\ r.cible = c
             /\ N!UidDe(c) # {} => \E u \in N!UidDe(c) : r.vu = comptes[u]
  BY NoteLireProfil
<1>3. PICK r : /\ Note(a, r) /\ r.pc = "lu" /\ r.cible = c
               /\ N!UidDe(c) # {} => \E u \in N!UidDe(c) : r.vu = comptes[u]
  BY <1>2, Zenon
<1>4. \A u, v \in N!UidDe(c) : u = v
  BY LesUidDe DEF ComptesUniques
<1>5. \A u \in N!UidDe(c) : r.vu = comptes[u]
  BY <1>3, <1>4
<1>6. \A u \in Uids : comptes[u].mdp = "tiers" => comptes[u].provisoire
  BY <1>1, PcAuRepos DEF SInv, TiersSuivis, Marque, Calmes
<1>7. N!UidDe(c)' = N!UidDe(c)
  BY <1>1 DEF N!UidDe, N!Existants
<1>8. Suit(r)'
  BY <1>1, <1>3, <1>5, <1>7 DEF Suit
<1>9. SInv'
  BY <1>1, <1>3, <1>6, <1>8, PasSuivi DEF Marque
<1> QED BY <1>1, <1>9 DEF N!ProfilGarde

LEMMA SuiviLireUid ==
  ASSUME ComptesFormes, GestesFormes, SInv, NEW a \in Admins, Calmes(a), N!LireUid(a)
  PROVE  SInv' /\ N!ProfilGarde
<1> DEFINE q == gestes[a]
<1>1. q.pc = "lu" /\ UNCHANGED comptes
  BY DEF N!LireUid
<1>2. PICK r : /\ Note(a, r)
               /\ \/ r = N!Repos
                  \/ /\ r.pc = "identifie" /\ r.cible = q.cible /\ r.vu = q.vu
                     /\ r.uid \in N!UidDe(r.cible)
  BY NoteLireUid
<1>3. \A u \in Uids : comptes[u].mdp = "tiers" => comptes[u].provisoire
  BY <1>1, PcAuRepos DEF SInv, TiersSuivis, Marque, Calmes
<1>4. \A u \in N!UidDe(q.cible) : comptes[u].prenom = q.vu.prenom
  BY <1>1 DEF SInv, Suit
<1>5. \A n : N!UidDe(n)' = N!UidDe(n)
  BY <1>1 DEF N!UidDe, N!Existants
<1> HIDE DEF q
<1>6. Suit(r)'
  BY <1>1, <1>2, <1>4, <1>5, PcAuRepos DEF Suit
<1>7. SInv'
  BY <1>1, <1>2, <1>3, <1>6, PasSuivi DEF Marque
<1> QED BY <1>1, <1>7 DEF N!ProfilGarde

(* The steps that write them.                                              *)
LEMMA SuiviDeleteGroup ==
  ASSUME ComptesFormes, GestesFormes, SInv, NEW a \in Admins, Calmes(a), N!DeleteGroup(a)
  PROVE  SInv' /\ N!ProfilGarde
<1> DEFINE n == gestes[a].groupe
<1>1. gestes[a].pc = "verifie" /\ Note(a, N!Repos)
  BY DEF N!DeleteGroup, Note
<1>2. Inchanges
  <2>1. CASE n = GroupeSocle
    BY <2>1 DEF N!DeleteGroup, Inchanges
  <2>2. CASE n # GroupeSocle
    <3>1. comptes' = [u \in Uids |-> [comptes[u] EXCEPT !.groupes = @ \ {n}]]
      BY <2>2 DEF N!DeleteGroup
    <3> HIDE DEF n
    <3> QED BY <3>1, ApresRetrait DEF Inchanges
  <2> QED BY <2>1, <2>2
<1>3. \A u \in Uids : comptes[u].mdp = "tiers" => comptes[u].provisoire
  BY <1>1, PcAuRepos DEF SInv, TiersSuivis, Marque, Calmes
<1>4. Suit(N!Repos)'
  BY PcAuRepos DEF Suit
<1>5. SInv'
  BY <1>1, <1>2, <1>3, <1>4, PasSuivi DEF Marque, Inchanges
<1>6. N!ProfilGarde
  BY <1>2 DEF Inchanges, N!ProfilGarde, N!Existants
<1> QED BY <1>5, <1>6

LEMMA SuiviMarquer ==
  ASSUME ComptesFormes, GestesFormes, SInv, NEW a \in Admins, Calmes(a), N!MarquerProvisoire(a)
  PROVE  SInv' /\ N!ProfilGarde
<1> DEFINE q == gestes[a]
<1>1. q.pc = "ecrit" /\ Note(a, N!Repos)
  BY DEF N!MarquerProvisoire, Note
<1>2. q.cible \in NomsComptes
  BY <1>1 DEF GestesFormes, GesteTenu
<1>3. \A u \in Uids :
        /\ comptes'[u].nom = comptes[u].nom /\ comptes'[u].prenom = comptes[u].prenom
        /\ comptes'[u].mdp = comptes[u].mdp
        /\ u \notin N!UidDe(q.cible) => comptes'[u] = comptes[u]
        /\ u \in N!UidDe(q.cible) => comptes'[u].provisoire
  BY ApresMarque
<1>4. ASSUME NEW u \in Uids, comptes[u].mdp = "tiers", u \notin N!UidDe(q.cible)
      PROVE  comptes[u].provisoire
  <2>1. comptes[u].nom # q.cible
    BY <1>2, <1>4, LesUidDe
  <2> QED BY <1>4, <2>1, PcAuRepos DEF SInv, TiersSuivis, Marque, Calmes
<1>5. Suit(N!Repos)'
  BY PcAuRepos DEF Suit
<1>6. \A u \in Uids : comptes'[u].mdp = "tiers" => comptes'[u].provisoire
  BY <1>3, <1>4
<1>7. SInv'
  BY <1>1, <1>5, <1>6, PasSuivi DEF Marque
<1>8. N!ProfilGarde
  BY <1>3 DEF N!ProfilGarde, N!Existants
<1> QED BY <1>7, <1>8

LEMMA SuiviUpdate ==
  ASSUME ComptesFormes, GestesFormes, SInv, NEW a \in Admins, Calmes(a), N!UpdateUserInfo(a)
  PROVE  SInv' /\ N!ProfilGarde
<1> DEFINE q == gestes[a]
           u == q.uid
           c == comptes[u]
           n == N!NomEcrit(q)
           p == N!PrenomEcrit(q)
           m == IF q.op = "motdepasse" THEN "tiers" ELSE c.mdp
           prov == c.provisoire
           gs == c.groupes
<1>1. q.pc = "identifie" /\ GesteTenu(q)
  BY DEF GestesFormes, N!UpdateUserInfo
<1>2. PICK r : /\ Note(a, r)
               /\ \/ /\ r = N!Repos
                     /\ q.op = "motdepasse" => comptes' = comptes
                  \/ q.op = "motdepasse" /\ r.pc = "ecrit" /\ r.cible = q.cible
  BY NoteUpdate
<1>3. Suit(r)'
  BY <1>2, PcAuRepos DEF Suit
<1>4. \A v \in Uids : comptes[v].mdp = "tiers" => comptes[v].provisoire
  BY <1>1, PcAuRepos DEF SInv, TiersSuivis, Marque, Calmes
<1>5. CASE comptes' = comptes
  <2>1. SInv'
    BY <1>2, <1>3, <1>4, <1>5, PasSuivi DEF Marque
  <2> QED BY <1>5, <2>1 DEF N!ProfilGarde
<1>6. CASE comptes' # comptes
  <2>1. u \in Uids /\ n \in NomsComptes
    BY <1>1 DEF GesteTenu, N!NomEcrit
  <2>2. Ecrit(u, Compte(n, p, m, prov, gs)) /\ u \in N!Existants
    BY <1>6, <2>1, EcritModifier
  <2>3. /\ q.op = "motdepasse" => n = c.nom /\ p = c.prenom /\ m = "tiers" /\ n = q.cible
        /\ q.op # "motdepasse" => m = c.mdp
    <3>1. u \in N!UidDe(q.cible) /\ c.prenom = q.vu.prenom
      BY <1>1 DEF SInv, Suit
    <3>2. c.nom = q.cible
      BY <3>1 DEF N!UidDe
    <3> QED BY <1>1, <3>1, <3>2 DEF GesteTenu, N!NomEcrit, N!PrenomEcrit
  <2> HIDE DEF n, p, m, prov, gs
  <2>4. /\ Restent(u) /\ comptes'[u].nom = n /\ comptes'[u].prenom = p /\ comptes'[u].mdp = m
        /\ comptes'[u].provisoire = prov
    <3> HIDE DEF u
    <3> QED BY <2>1, <2>2, ApresCompte, Zenon
  <2>5. \A v \in Uids : comptes'[v].mdp = "tiers" => Marque(v, r)'
    <3>1. CASE q.op = "motdepasse"
      <4>1. r.pc = "ecrit" /\ r.cible = q.cible
        BY <1>2, <1>6, <3>1
      <4> QED BY <1>4, <2>3, <2>4, <3>1, <4>1 DEF Marque, Restent
    <3>2. CASE q.op # "motdepasse"
      BY <1>4, <2>1, <2>3, <2>4, <3>2 DEF Marque, Restent, prov
    <3> QED BY <3>1, <3>2
  <2>6. SInv'
    BY <1>2, <1>3, <2>5, PasSuivi
  <2>7. N!ProfilGarde
    BY <2>3, <2>4 DEF N!ProfilGarde, N!Existants, Restent
  <2> QED BY <2>6, <2>7
<1> QED BY <1>5, <1>6

(* A start and the holder's own change.                                    *)
LEMMA SuiviAutres ==
  ASSUME ComptesFormes, GestesFormes, SInv, N!Autres
  PROVE  SInv' /\ N!ProfilGarde
<1>1. UNCHANGED gestes
  BY DEF N!Autres, N!Demarrer, N!ChangerLeSien
<1>2. \A v \in Uids : /\ comptes'[v].nom = comptes[v].nom /\ comptes'[v].prenom = comptes[v].prenom
                      /\ comptes'[v] = comptes[v] \/ comptes'[v].mdp = "sien"
  <2>1. CASE UNCHANGED comptes
    BY <2>1
  <2>2. ASSUME NEW u \in Uids, N!ChangerLeSien(u)
        PROVE  \A v \in Uids :
                 /\ comptes'[v].nom = comptes[v].nom /\ comptes'[v].prenom = comptes[v].prenom
                 /\ comptes'[v] = comptes[v] \/ comptes'[v].mdp = "sien"
    BY <2>2, ApresLeSien DEF Restent
  <2> QED BY <2>1, <2>2 DEF N!Autres, N!Demarrer
<1>3. ComptesFormes'
  BY ApresLeSien DEF N!Autres, N!Demarrer, ComptesFormes
<1>4. \A v, n : n \in NomsComptes => (v \in N!UidDe(n)' <=> v \in N!UidDe(n))
  BY <1>2, <1>3, LesUidDe, LesUidApres
<1>5. ASSUME NEW a \in Admins PROVE Suit(gestes[a])'
  <2>0. PICK r : r = gestes[a]
    OBVIOUS
  <2>1. r.pc \in {"lu", "identifie"} => r.cible \in NomsComptes
    BY <2>0 DEF GestesFormes, GesteTenu
  <2>2. Suit(r)
    BY <2>0 DEF SInv
  <2>3. \A u \in N!UidDe(r.cible) : u \in Uids
    BY DEF N!UidDe, N!Existants
  <2>4. gestes'[a] = r
    BY <1>1, <2>0
  <2>5. r.pc = "lu" => \A u \in N!UidDe(r.cible)' : comptes'[u].prenom = r.vu.prenom
    BY <1>2, <1>4, <2>1, <2>2, <2>3 DEF Suit
  <2>6. r.pc = "identifie" => r.uid \in N!UidDe(r.cible)' /\ comptes'[r.uid].prenom = r.vu.prenom
    BY <1>2, <1>4, <2>1, <2>2, <2>3 DEF Suit
  <2> QED BY <2>4, <2>5, <2>6 DEF Suit
<1>6. TiersSuivis'
  BY <1>1, <1>2 DEF SInv, TiersSuivis, Marque
<1>7. N!ProfilGarde
  BY <1>2 DEF N!ProfilGarde, N!Existants
<1> QED BY <1>5, <1>6, <1>7 DEF SInv

LEMMA PasSuiviGeste ==
  ASSUME AInv, SInv, NEW a \in Admins, N!Geste(a), Calmes(a)
  PROVE  SInv' /\ N!ProfilGarde
<1>0. ComptesFormes /\ GestesFormes /\ ComptesUniques
  BY DEF AInv, Formes
<1> DEFINE But == SInv' /\ N!ProfilGarde
<1>1. ASSUME NEW n \in NomsGroupes, NEW d \in DomainesGroupes, N!CreateGroupAvecParents(a, n, d)
      PROVE  But
  <2>1. gestes[a] = N!Repos /\ UNCHANGED <<comptes, gestes>>
    BY <1>1 DEF N!CreateGroupAvecParents
  <2>2. Inchanges
    BY <2>1 DEF Inchanges
  <2> QED BY <1>0, <2>1, <2>2, SuiviSansEcriture
<1>2. ASSUME NEW n \in N!Noms, N!SupprimerGroupe(a, n) PROVE But
  BY <1>0, <1>2, SuiviSupprimerGroupe
<1>3. ASSUME NEW u \in Uids, NEW n \in NomsComptes, N!CreateNewUser(a, u, n) PROVE But
  BY <1>0, <1>3, SuiviCreerCompte, Zenon
<1>4. ASSUME NEW u \in Uids, N!SupprimerUtilisateur(a, u) PROVE But
  BY <1>0, <1>4, SuiviSupprimerCompte
<1>5. ASSUME NEW u \in Uids, NEW n \in N!Noms,
             N!AjouterAuGroupe(a, u, n) \/ N!RetirerDuGroupe(a, u, n)
      PROVE  But
  BY <1>0, <1>5, SuiviMembres, Zenon
<1>6. ASSUME NEW op \in OpsDuProfil, NEW c \in NomsComptes, NEW n \in NomsComptes,
             N!LireProfil(a, op, c, n)
      PROVE  But
  BY <1>0, <1>6, SuiviLireProfil, Zenon
<1>7. N!DeleteGroup(a) \/ N!LireUid(a) \/ N!UpdateUserInfo(a) \/ N!MarquerProvisoire(a) => But
  BY <1>0, SuiviDeleteGroup, SuiviLireUid, SuiviUpdate, SuiviMarquer
<1> HIDE DEF But
<1>8. But
  BY <1>1, <1>2, <1>3, <1>4, <1>5, <1>6, <1>7 DEF N!Geste, OpsDuProfil
<1> QED BY <1>8 DEF But

LEMMA PasSuiviSeul == AInv /\ SInv /\ [Seul]_annuaireVars => SInv' /\ N!ProfilGarde
<1> SUFFICES ASSUME AInv, SInv, [Seul]_annuaireVars PROVE SInv' /\ N!ProfilGarde
  OBVIOUS
<1>1. ASSUME NEW a \in Admins, N!Geste(a), \A b \in Admins \ {a} : gestes[b] = N!Repos
      PROVE  SInv' /\ N!ProfilGarde
  BY <1>1, PasSuiviGeste DEF Calmes
<1>2. CASE N!Autres
  BY <1>2, SuiviAutres DEF AInv, Formes
<1>3. CASE UNCHANGED annuaireVars
  BY <1>3 DEF annuaireVars, SInv, Suit, TiersSuivis, Marque, N!ProfilGarde, N!UidDe,
              N!Existants
<1> QED BY <1>1, <1>2, <1>3 DEF Seul

-----------------------------------------------------------------------------
(* The tree: the repair at a start, and the groups of the ancestors.       *)

LEMMA PasRepare ==
  ASSUME GroupesFormes, N!Demarrer PROVE N!DemarrageRepare
<1> SUFFICES ASSUME \A d \in N!DomainesPortes : ~N!Bloque(d) PROVE N!ParentsPresents'
  BY DEF N!DemarrageRepare
<1> DEFINE P == N!DomainesPortes
<1>1. groupes' = groupes \cup UNION {N!GroupesParents(d) : d \in P}
  BY Reparation
<1>2. \A d \in P : d \in Seq(STRING)
  BY DEF GroupesFormes, EstGroupe, N!DomainesPortes
<1>3. P \subseteq N!DomainesPortes'
  BY <1>1 DEF N!DomainesPortes
<1>4. ASSUME NEW d \in P PROVE N!Ancetres(d) \subseteq N!DomainesPortes'
  <2>1. N!Ancetres(d) \subseteq P \cup N!ParentsManquants(d)
    BY <1>2, ParentsDe
  <2>2. \A p \in N!ParentsManquants(d) : \E g \in N!GroupesParents(d) : g.domaine = p
    BY <1>2, ParentsDe
  <2>3. N!GroupesParents(d) \subseteq groupes'
    BY <1>1
  <2>4. N!ParentsManquants(d) \subseteq N!DomainesPortes'
    BY <2>2, <2>3 DEF N!DomainesPortes
  <2> QED BY <1>3, <2>1, <2>4
<1>5. ASSUME NEW e \in N!DomainesPortes', e \notin P
      PROVE  \E d \in P : e \in N!Ancetres(d)
  <2>1. PICK g \in groupes' : g.domaine = e
    BY DEF N!DomainesPortes
  <2>2. g \notin groupes
    BY <1>5, <2>1 DEF N!DomainesPortes
  <2>3. PICK d \in P : g \in N!GroupesParents(d)
    BY <1>1, <2>2
  <2>4. g.domaine \in N!ParentsManquants(d) /\ N!ParentsManquants(d) \subseteq N!Ancetres(d)
    BY <1>2, <2>3, ParentsDe
  <2> QED BY <2>1, <2>4
<1>6. ASSUME NEW e \in N!DomainesPortes' PROVE N!Ancetres(e) \subseteq N!DomainesPortes'
  <2>1. CASE e \in P
    BY <1>4, <2>1
  <2>2. CASE e \notin P
    <3>1. PICK d \in P : e \in N!Ancetres(d)
      BY <1>5, <2>2
    <3>2. N!Ancetres(e) \subseteq N!Ancetres(d)
      BY <1>2, <3>1, AncetresDe
    <3> QED BY <1>4, <3>1, <3>2
  <2> QED BY <2>1, <2>2
<1> QED BY <1>6 DEF N!ParentsPresents

(* Only a start counts.                                                    *)
LEMMA GesteSansDemarrage ==
  ASSUME NEW a, N!Geste(a) PROVE UNCHANGED demarrages
<1>1. ASSUME NEW n, NEW d, N!CreateGroupAvecParents(a, n, d) PROVE UNCHANGED demarrages
  BY <1>1 DEF N!CreateGroupAvecParents
<1>2. ASSUME NEW n, N!SupprimerGroupe(a, n) PROVE UNCHANGED demarrages
  BY <1>2 DEF N!SupprimerGroupe
<1>3. ASSUME N!DeleteGroup(a) PROVE UNCHANGED demarrages
  BY <1>3 DEF N!DeleteGroup
<1>4. ASSUME NEW u, NEW n, N!CreateNewUser(a, u, n) PROVE UNCHANGED demarrages
  BY <1>4 DEF N!CreateNewUser
<1>5. ASSUME NEW u, N!SupprimerUtilisateur(a, u) PROVE UNCHANGED demarrages
  BY <1>5 DEF N!SupprimerUtilisateur
<1>6. ASSUME NEW u, NEW n, N!AjouterAuGroupe(a, u, n) \/ N!RetirerDuGroupe(a, u, n)
      PROVE  UNCHANGED demarrages
  BY <1>6 DEF N!AjouterAuGroupe, N!RetirerDuGroupe
<1>7. ASSUME NEW op, NEW c, NEW n, N!LireProfil(a, op, c, n) PROVE UNCHANGED demarrages
  BY <1>7 DEF N!LireProfil
<1>8. ASSUME N!LireUid(a) \/ N!UpdateUserInfo(a) \/ N!MarquerProvisoire(a)
      PROVE  UNCHANGED demarrages
  BY <1>8 DEF N!LireUid, N!UpdateUserInfo, N!MarquerProvisoire
<1> QED BY <1>1, <1>2, <1>3, <1>4, <1>5, <1>6, <1>7, <1>8 DEF N!Geste

LEMMA PasDeReparation == GroupesFormes /\ [N!Next]_annuaireVars => N!DemarrageRepare
<1> SUFFICES ASSUME GroupesFormes, [N!Next]_annuaireVars PROVE N!DemarrageRepare
  OBVIOUS
<1>1. CASE N!Demarrer
  BY <1>1, PasRepare
<1>2. CASE UNCHANGED demarrages
  BY <1>2 DEF N!DemarrageRepare
<1>3. ASSUME NEW u \in Uids, N!ChangerLeSien(u) PROVE UNCHANGED demarrages
  BY <1>3 DEF N!ChangerLeSien
<1>4. UNCHANGED annuaireVars => UNCHANGED demarrages
  BY DEF annuaireVars
<1> QED BY <1>1, <1>2, <1>3, <1>4, GesteSansDemarrage DEF N!Next, N!Autres

(* The ancestors of every domain, and a deletion that was verified.        *)
Verifie(r) == r.pc = "verifie" => N!VerifierSuppressionSansOrphelin(r.groupe)
TInv == N!ParentsPresents /\ \A a \in Admins : Verifie(gestes[a])

LEMMA DepartDeLArbre == N!Init /\ N!ParentsPresents => TInv
BY PcAuRepos DEF N!Init, TInv, Verifie

(* A step that leaves the groups, and verifies at most what it saw.        *)
LEMMA ArbreSansGroupes ==
  ASSUME GestesFormes, TInv, NEW a \in Admins, NEW r, Note(a, r), Verifie(r), UNCHANGED groupes
  PROVE  TInv'
<1>1. gestes' = [b \in Admins |-> IF b = a THEN r ELSE gestes[b]]
  BY DEF Note, GestesFormes
<1>2. \A b \in Admins : Verifie(gestes'[b])
  BY <1>1 DEF TInv
<1>3. N!ParentsPresents'
  BY DEF TInv, N!ParentsPresents, N!DomainesPortes
<1>4. \A b \in Admins : Verifie(gestes[b])'
  BY <1>2 DEF Verifie, N!VerifierSuppressionSansOrphelin, N!Dernier, N!Enfants, N!DomainesPortes
<1> QED BY <1>3, <1>4 DEF TInv

LEMMA ArbreMeme ==
  ASSUME TInv, UNCHANGED <<groupes, gestes>> PROVE TInv'
BY DEF TInv, Verifie, N!ParentsPresents, N!VerifierSuppressionSansOrphelin, N!Dernier, N!Enfants,
       N!DomainesPortes

LEMMA ArbreCreer ==
  ASSUME AInv, TInv, NEW a \in Admins, Calmes(a), NEW n \in NomsGroupes,
         NEW d \in DomainesGroupes, N!CreateGroupAvecParents(a, n, d)
  PROVE  TInv'
<1> DEFINE g == [nom |-> n, domaine |-> d]
           P == N!DomainesPortes
           M == N!ParentsManquants(d)
<1>1. /\ gestes[a] = N!Repos /\ UNCHANGED gestes
      /\ groupes' = groupes \cup N!GroupesParents(d) \cup {g}
  BY DEF N!CreateGroupAvecParents
<1>2. d \in Seq(STRING)
  BY BasesDeLAnnuaire DEF N!BasesAssumption
<1>3. /\ M \subseteq N!Ancetres(d) /\ N!Ancetres(d) \subseteq P \cup M
      /\ \A h \in N!GroupesParents(d) : h.domaine \in M
      /\ \A p \in M : \E h \in N!GroupesParents(d) : h.domaine = p
  BY <1>2, ParentsDe
<1>4. g.domaine = d
  OBVIOUS
<1> HIDE DEF g
<1>5. N!DomainesPortes' = P \cup M \cup {d}
  BY <1>1, <1>3, <1>4 DEF N!DomainesPortes
<1> HIDE DEF P, M
<1>6. ASSUME NEW e \in P PROVE N!Ancetres(e) \subseteq P
  BY DEF TInv, N!ParentsPresents, P
<1>7. ASSUME NEW e \in M PROVE N!Ancetres(e) \subseteq P \cup M
  <2>1. N!Ancetres(e) \subseteq N!Ancetres(d)
    BY <1>2, <1>3, AncetresDe
  <2> QED BY <1>3, <2>1
<1>8. N!ParentsPresents'
  BY <1>3, <1>5, <1>6, <1>7 DEF N!ParentsPresents
<1>9. \A b \in Admins : Verifie(gestes[b])'
  BY <1>1, PcAuRepos DEF Calmes, Verifie
<1> QED BY <1>8, <1>9 DEF TInv

LEMMA ArbreDeleteGroup ==
  ASSUME AInv, TInv, NEW a \in Admins, Calmes(a), N!DeleteGroup(a)
  PROVE  TInv'
<1> DEFINE n == gestes[a].groupe
<1>1. gestes[a].pc = "verifie" /\ Note(a, N!Repos)
  BY DEF N!DeleteGroup, Note
<1>2. gestes' = [b \in Admins |-> IF b = a THEN N!Repos ELSE gestes[b]]
  BY <1>1 DEF Note, AInv, Formes, GestesFormes
<1>3. \A b \in Admins : Verifie(gestes[b])'
  BY <1>2, PcAuRepos DEF Calmes, Verifie
<1>4. N!VerifierSuppressionSansOrphelin(n)
  BY <1>1 DEF TInv, Verifie
<1>5. groupes' \subseteq groupes /\ \A g \in groupes : g.nom # n => g \in groupes'
  BY DEF N!DeleteGroup
<1> HIDE DEF n
<1>6. ASSUME NEW d \in N!DomainesPortes', NEW p \in N!Ancetres(d) PROVE p \in N!DomainesPortes'
  <2>1. d \in N!DomainesPortes /\ d \in Seq(STRING)
    BY <1>5 DEF N!DomainesPortes, AInv, Formes, GroupesFormes, EstGroupe
  <2>2. PICK g \in groupes : g.domaine = p
    BY <2>1 DEF TInv, N!ParentsPresents, N!DomainesPortes
  <2>3. CASE g.nom # n
    BY <1>5, <2>2, <2>3 DEF N!DomainesPortes
  <2>4. CASE g.nom = n
    <3>1. d # p /\ N!SousDomaineDe(d, p)
      BY <2>1, AncetresDe
    <3>2. d \in N!Enfants(g.domaine)
      BY <2>1, <2>2, <3>1 DEF N!Enfants
    <3>3. ~N!Dernier(g)
      BY <1>4, <2>4, <3>2 DEF N!VerifierSuppressionSansOrphelin
    <3>4. PICK h \in groupes : h.domaine = p /\ h # g
      BY <2>2, <3>3 DEF N!Dernier
    <3>5. h.nom # n
      BY <2>4, <3>4 DEF AInv, GroupesUniques
    <3> QED BY <1>5, <3>4, <3>5 DEF N!DomainesPortes
  <2> QED BY <2>3, <2>4
<1>7. N!ParentsPresents'
  BY <1>6 DEF N!ParentsPresents
<1> QED BY <1>3, <1>7 DEF TInv

LEMMA ArbreDemarrer ==
  ASSUME AInv, TInv, N!Demarrer PROVE TInv'
<1>1. GroupesFormes /\ UNCHANGED gestes
  BY DEF AInv, Formes, N!Demarrer
<1>2. PICK D \in SUBSET N!DomainesPortes :
        groupes' = groupes \cup UNION {N!GroupesParents(d) : d \in D}
  BY <1>1, Reparation
<1>3. ASSUME NEW d \in D PROVE N!GroupesParents(d) = {}
  <2>1. d \in Seq(STRING)
    BY <1>1 DEF GroupesFormes, EstGroupe, N!DomainesPortes
  <2>2. N!ParentsManquants(d) = {}
    BY DEF TInv, N!ParentsPresents, N!ParentsManquants
  <2> QED BY <2>1, <2>2, ParentsDe
<1>4. UNCHANGED groupes
  BY <1>2, <1>3
<1> QED BY <1>1, <1>4, ArbreMeme

LEMMA ArbreAutresGestes ==
  ASSUME AInv, TInv, NEW a \in Admins,
         N!LireUid(a) \/ N!UpdateUserInfo(a) \/ N!MarquerProvisoire(a)
  PROVE  TInv'
<1>1. ComptesFormes /\ GestesFormes
  BY DEF AInv, Formes
<1>2. UNCHANGED groupes
  BY DEF N!LireUid, N!UpdateUserInfo, N!MarquerProvisoire
<1>3. \E r : Note(a, r) /\ r.pc # "verifie"
  <2>1. CASE N!LireUid(a)
    <3>1. PICK r : Note(a, r) /\ (r = N!Repos \/ r.pc = "identifie")
      BY <1>1, <2>1, NoteLireUid
    <3> QED BY <3>1, PcAuRepos
  <2>2. CASE N!UpdateUserInfo(a)
    <3>1. PICK r : Note(a, r) /\ (r = N!Repos \/ r.pc = "ecrit")
      BY <1>1, <2>2, NoteUpdate
    <3> QED BY <3>1, PcAuRepos
  <2>3. CASE N!MarquerProvisoire(a)
    <3>1. Note(a, N!Repos)
      BY <2>3 DEF N!MarquerProvisoire, Note
    <3> QED BY <3>1, PcAuRepos
  <2> QED BY <2>1, <2>2, <2>3
<1>4. PICK r : Note(a, r) /\ r.pc # "verifie"
  BY <1>3
<1> QED BY <1>1, <1>2, <1>4, ArbreSansGroupes DEF Verifie

LEMMA PasArbreGeste ==
  ASSUME AInv, TInv, NEW a \in Admins, N!Geste(a), Calmes(a)
  PROVE  TInv'
<1>0. ComptesFormes /\ GestesFormes
  BY DEF AInv, Formes
<1>1. ASSUME NEW n \in NomsGroupes, NEW d \in DomainesGroupes, N!CreateGroupAvecParents(a, n, d)
      PROVE  TInv'
  BY <1>1, ArbreCreer
<1>2. ASSUME NEW n \in N!Noms, N!SupprimerGroupe(a, n) PROVE TInv'
  <2>1. PICK r : Note(a, r) /\ r.pc = "verifie" /\ r.groupe = n
    BY <1>2, NoteSupprimer
  <2>2. UNCHANGED groupes /\ N!VerifierSuppressionSansOrphelin(n)
    BY <1>2 DEF N!SupprimerGroupe
  <2> QED BY <1>0, <2>1, <2>2, ArbreSansGroupes DEF Verifie
<1>3. ASSUME NEW u \in Uids, NEW n,
             N!CreateNewUser(a, u, n) \/ N!AjouterAuGroupe(a, u, n) \/ N!RetirerDuGroupe(a, u, n)
               \/ N!SupprimerUtilisateur(a, u)
      PROVE  TInv'
  <2>1. UNCHANGED <<groupes, gestes>>
    BY <1>3 DEF N!CreateNewUser, N!AjouterAuGroupe, N!RetirerDuGroupe, N!SupprimerUtilisateur
  <2> QED BY <2>1, ArbreMeme
<1>4. ASSUME NEW op \in OpsDuProfil, NEW c \in NomsComptes, NEW n \in NomsComptes,
             N!LireProfil(a, op, c, n)
      PROVE  TInv'
  <2>1. UNCHANGED groupes
    BY <1>4 DEF N!LireProfil
  <2>2. \E r : /\ Note(a, r) /\ GesteTenu(r) /\ r.pc = "lu" /\ r.op = op /\ r.cible = c
               /\ N!UidDe(c) # {} => \E u \in N!UidDe(c) : r.vu = comptes[u]
    BY <1>0, <1>4, NoteLireProfil
  <2>3. PICK r : Note(a, r) /\ r.pc = "lu"
    BY <2>2
  <2> QED BY <1>0, <2>1, <2>3, ArbreSansGroupes DEF Verifie
<1>5. N!DeleteGroup(a) \/ N!LireUid(a) \/ N!UpdateUserInfo(a) \/ N!MarquerProvisoire(a) => TInv'
  BY ArbreDeleteGroup, ArbreAutresGestes
<1> QED BY <1>1, <1>2, <1>3, <1>4, <1>5 DEF N!Geste, OpsDuProfil

LEMMA PasArbre == AInv /\ TInv /\ [Seul]_annuaireVars => TInv'
<1> SUFFICES ASSUME AInv, TInv, [Seul]_annuaireVars PROVE TInv'
  OBVIOUS
<1>1. ASSUME NEW a \in Admins, N!Geste(a), \A b \in Admins \ {a} : gestes[b] = N!Repos
      PROVE  TInv'
  BY <1>1, PasArbreGeste DEF Calmes
<1>2. ASSUME NEW u \in Uids, N!ChangerLeSien(u) PROVE TInv'
  BY <1>2, ArbreMeme DEF N!ChangerLeSien
<1>3. CASE UNCHANGED annuaireVars
  BY <1>3, ArbreMeme DEF annuaireVars
<1> QED BY <1>1, <1>2, <1>3, ArbreDemarrer DEF Seul, N!Autres

LEMMA SeulEstUnPas == [Seul]_annuaireVars => [N!Next]_annuaireVars
BY DEF Seul, N!Next

-----------------------------------------------------------------------------
(* Whatever the administrators interleave, the names stay unique, every    *)
(* membership names a group that exists, and the protected account keeps   *)
(* its name and its group (actions_users.go, actions_groups.go).           *)
THEOREM ProtegeToujours == N!Spec => [](N!TypeOK /\ N!ProtegeIntact)
<1>1. AInv /\ [N!Next]_annuaireVars => AInv'
  BY PasDeLAnnuaire
<1> QED BY <1>1, DepartDeLAnnuaire, AInvSuffit, PTL DEF N!Spec, N!vars, annuaireVars

(* Whatever they interleave, a start leaves no domain without its          *)
(* ancestors when no name is taken (CreerDomainesParentsManquants).        *)
THEOREM ReparationToujours == N!Spec => N!ReparationAuDemarrage
<1>1. AInv /\ [N!Next]_annuaireVars => AInv' /\ N!DemarrageRepare
  BY PasDeLAnnuaire, PasDeReparation DEF AInv, Formes
<1> QED BY <1>1, DepartDeLAnnuaire, PTL
        DEF N!Spec, N!vars, annuaireVars, N!ReparationAuDemarrage

(* One request at a time: a change of password takes the name and the      *)
(* identity as they are, and one by somebody else ends up provisional      *)
(* (user.change_password).                                                 *)
THEOREM MotDePasseDUneSeule ==
  N!Init /\ [][Seul]_annuaireVars => N!MotDePasseSeul /\ []N!TiersProvisoire
<1>1. AInv /\ SInv /\ [Seul]_annuaireVars => AInv' /\ SInv' /\ N!ProfilGarde
  BY PasDeLAnnuaire, SeulEstUnPas, PasSuiviSeul
<1> QED BY <1>1, DepartDeLAnnuaire, DepartSuivi, SInvSuffit, PTL
        DEF N!MotDePasseSeul, N!vars, annuaireVars

(* One request at a time: every domain keeps its ancestors, through every  *)
(* creation and deletion (VerifierSuppressionSansOrphelin).                *)
THEOREM ArbreDUneSeule ==
  N!Init /\ N!ParentsPresents /\ [][Seul]_annuaireVars => []N!ParentsPresents
<1>1. AInv /\ TInv /\ [Seul]_annuaireVars => AInv' /\ TInv'
  BY PasDeLAnnuaire, SeulEstUnPas, PasArbre
<1>2. TInv => N!ParentsPresents
  BY DEF TInv
<1> QED BY <1>1, <1>2, DepartDeLAnnuaire, DepartDeLArbre, PTL

-----------------------------------------------------------------------------
(* The parts together: what holds of the one that runs.                    *)
Tenues ==
  /\ partie \in Annuaires => AInv
  /\ partie \in {"arbre", "trou", "seul"} => SInv
  /\ partie \in {"arbre", "seul"} => TInv

LEMMA DepartDesParties == Debut => Tenues
<1> SUFFICES ASSUME Debut PROVE Tenues
  OBVIOUS
<1>1. partie \in Annuaires => N!Init
  BY DEF Debut
<1>2. partie \in {"arbre", "seul"} => N!ParentsPresents
  BY DEF Debut
<1> QED BY <1>1, <1>2, DepartDeLAnnuaire, DepartSuivi, DepartDeLArbre DEF Tenues, Annuaires

LEMMA PasDesParties ==
  Tenues /\ [Pas]_tout =>
    /\ Tenues'
    /\ partie \in Annuaires => N!DemarrageRepare
    /\ partie \in {"arbre", "trou", "seul"} => N!ProfilGarde
<1> SUFFICES ASSUME Tenues, [Pas]_tout
             PROVE  /\ Tenues'
                    /\ partie \in Annuaires => N!DemarrageRepare
                    /\ partie \in {"arbre", "trou", "seul"} => N!ProfilGarde
  OBVIOUS
<1>1. partie' = partie
  BY DEF Pas, tout
<1>2. /\ partie \in {"arbre", "trou", "seul"} => [Seul]_annuaireVars
      /\ partie = "comptes" => [N!Next]_annuaireVars
  BY DEF Pas, tout
<1>3. partie \in Annuaires => [N!Next]_annuaireVars
  BY <1>2, SeulEstUnPas DEF Annuaires
<1>4. partie \in Annuaires => AInv' /\ N!DemarrageRepare
  BY <1>3, PasDeLAnnuaire, PasDeReparation DEF Tenues, AInv, Formes
<1>5. partie \in {"arbre", "trou", "seul"} => SInv' /\ N!ProfilGarde
  BY <1>2, PasSuiviSeul DEF Tenues, Annuaires
<1>6. partie \in {"arbre", "seul"} => TInv'
  BY <1>2, PasArbre DEF Tenues, Annuaires
<1> QED BY <1>1, <1>4, <1>5, <1>6 DEF Tenues

(* In every part the protected account keeps its name and its group; one   *)
(* request at a time, the domains keep their ancestors and a password set  *)
(* by somebody else ends up provisional (verifier_suppression.go).         *)
THEOREM AnnuaireCorrect == Ensemble => []AnnuaireTenu
<1>1. Tenues /\ [Pas]_tout => Tenues'
  BY PasDesParties
<1>2. Tenues => AnnuaireTenu
  BY AInvSuffit, SInvSuffit DEF Tenues, AnnuaireTenu, TInv
<1> QED BY <1>1, <1>2, DepartDesParties, PTL DEF Ensemble

(* In every part a start repairs the tree, unless a name is taken; one     *)
(* request at a time, a change of password keeps the other fields          *)
(* (actions_groups.go, actions_users.go).                                  *)
THEOREM GestesCorrects == Ensemble => GestesSansDegat
<1>1. Tenues /\ [Pas]_tout =>
        /\ Tenues'
        /\ partie \in Annuaires => N!DemarrageRepare
        /\ partie \in {"arbre", "trou", "seul"} => N!ProfilGarde
  BY PasDesParties
<1> QED BY <1>1, DepartDesParties, PTL DEF Ensemble, GestesSansDegat
=============================================================================
