-------------------------------- MODULE Droits --------------------------------
(***************************************************************************)
(* The rights of the directory: what a permission grants for one action,   *)
(* the evaluators that read it (strict, any domain, anywhere, perimeter,   *)
(* LDAP search, login), and the administrators who change permissions,     *)
(* links and memberships through the registry of actions.                  *)
(*                                                                         *)
(* One action key stands for all of them: the key whose value is changed   *)
(* is also the one that allows the change, as write:update:permission. A   *)
(* domain is the sequence of its labels, the root first. Permissions are   *)
(* numbered in the order of their creation.                                *)
(***************************************************************************)
EXTENDS Integers, Sequences, FiniteSets, SequencesExt

CONSTANTS
  Comptes, Groupes, Permissions,
  GroupeProtege, CompteProtege, PermissionProtegee,
  DomaineDe,        \* the domain each group carries
  DomainesRegles,   \* the domains the administrators write in permissions
  ValeursInitiales, \* what the permissions grant at first
  Propagations,     \* the modes they use: with the sub-domains or not
  MaxEnVol,         \* requests in progress at a time
  MaxParGroupe      \* permissions a group may carry

ASSUME ProtegesAssumption ==
  /\ GroupeProtege \in Groupes /\ CompteProtege \in Comptes
  /\ Propagations \subseteq BOOLEAN /\ Permissions \subseteq Nat /\ PermissionProtegee \in Permissions
  /\ \A p \in Permissions : PermissionProtegee <= p

VARIABLES
  valeur,     \* user_permission_action: the value of the key, by permission
  liens,      \* group_user_permission
  membres,    \* users_group
  demandes    \* requests permission.update_action in progress

vars == <<valeur, liens, membres, demandes>>

-----------------------------------------------------------------------------
(* Values and domains.                                                     *)

Tout == <<"*">>
Domaines == {DomaineDe[g] : g \in Groupes} \cup DomainesRegles
Genre(g) == [genre |-> g, exact |-> {}, propage |-> {}]
Valeurs == {Genre("nil"), Genre("all"), Genre("deny")} \cup
           [genre : {"custom"}, exact : SUBSET DomainesRegles, propage : SUBSET DomainesRegles]

ASSUME ValeursAssumption ==
  /\ ValeursInitiales \subseteq Valeurs
  /\ \A v \in ValeursInitiales : v.genre = "custom" => v.exact \cup v.propage # {}

ASSUME BornesAssumption == MaxEnVol \in Nat /\ MaxParGroupe \in Nat \ {0}

SousDomaineDe(d, parent) == IsPrefix(parent, d)
DomainePrincipal(d) == SubSeq(d, 1, 2)

(* What a value grants on a domain.                                        *)
Accorde(v, d) ==
  \/ v.genre = "all"
  \/ d \in v.exact
  \/ \E p \in v.propage : SousDomaineDe(d, p)

-----------------------------------------------------------------------------
(* The evaluators. Each takes the groups of the caller.                    *)

(* One permission is read per group: the first of the primary key. A group *)
(* without permission reads as an error, and is skipped.                   *)
Lue(g) == CHOOSE p \in liens[g] : \A q \in liens[g] : p <= q
Contenus(gs) == {valeur[Lue(g)] : g \in {h \in gs : liens[h] # {}}}

Exempte(gs) == GroupeProtege \in gs
(* Mutant of RefusExplicite: the first group that grants ends the search.  *)
RefusExplicite_avecLesAccords(gs) ==
  Genre("deny") \in Contenus(gs) /\ Genre("all") \notin Contenus(gs) /\ ~Exempte(gs)

RefusExplicite(gs) == Genre("deny") \in Contenus(gs) /\ ~Exempte(gs)
Octrois(gs) == {v \in Contenus(gs) : v.genre \in {"all", "custom"}}

IsDomainAllowed(gs, d) == \E v \in Octrois(gs) : Accorde(v, d)

EstDomaineProtege(d) == SousDomaineDe(d, DomaineDe[GroupeProtege])
RefuserDomaineProtege(gs, ds) == (\E d \in ds : EstDomaineProtege(d)) /\ ~Exempte(gs)

(* Mutant of CheckPermissionsAllDomains.                                   *)
CheckPermissionsAllDomains_unSuffit(gs, ds) ==
  /\ ~RefusExplicite(gs)
  /\ IF ds = {} THEN \E v \in Contenus(gs) : v.genre = "all"
     ELSE ~RefuserDomaineProtege(gs, ds) /\ \E d \in ds : IsDomainAllowed(gs, d)

CheckPermissionsAllDomains(gs, ds) ==
  /\ ~RefusExplicite(gs)
  /\ IF ds = {} THEN \E v \in Contenus(gs) : v.genre = "all"
     ELSE ~RefuserDomaineProtege(gs, ds) /\ \A d \in ds : IsDomainAllowed(gs, d)

CheckPermissionsMultipleDomains(gs, ds) ==
  /\ ~RefusExplicite(gs)
  /\ IF ds = {} THEN \E v \in Contenus(gs) : v.genre = "all"
     ELSE \E d \in ds : \E v \in Octrois(gs) : Accorde(v, d)

(* Mutant of HasActionAnywhere.                                            *)
HasActionAnywhere_sansRefus(gs) ==
  \E v \in Octrois(gs) : v.genre = "all" \/ v.exact # {} \/ v.propage # {}

HasActionAnywhere(gs) ==
  /\ ~RefusExplicite(gs)
  /\ \E v \in Octrois(gs) : v.genre = "all" \/ v.exact # {} \/ v.propage # {}

DomainsWhereAllowed(gs) ==
  LET vs == IF RefusExplicite(gs) THEN {} ELSE Octrois(gs)
  IN [global |-> \E v \in vs : v.genre = "all",
      exact |-> UNION {v.exact : v \in vs}, propage |-> UNION {v.propage : v \in vs}]

Allows(a, d) == a.global \/ d \in a.exact \/ \E p \in a.propage : SousDomaineDe(d, p)
IsEmpty(a) == ~a.global /\ a.exact = {} /\ a.propage = {}

(* An LDAP search reads every permission of every group of the account.    *)
GetUserPermissionsForAction(gs) == {valeur[p] : p \in UNION {liens[g] : g \in gs}}

(* Mutant of PorteeDeRecherche.                                            *)
PorteeDeRecherche_sansExemption(gs, d) ==
  LET vs == GetUserPermissionsForAction(gs)
  IN Genre("deny") \notin vs /\ \E v \in vs : Accorde(v, d)

PorteeDeRecherche(gs, d) ==
  LET vs == GetUserPermissionsForAction(gs)
  IN /\ ~(Genre("deny") \in vs /\ ~Exempte(gs))
     /\ \E v \in vs : Accorde(v, d)

(* The login compte@cible: the targeted domain is a main one of the        *)
(* account, and the key is granted on one of its domains below.            *)
DomainesDuCompte(c) == {DomaineDe[g] : g \in membres[c]}
DomainesDuCompteSous(c, cible) == {d \in DomainesDuCompte(c) : SousDomaineDe(d, cible)}

CanUserConnectToDomain(c, cible) ==
  /\ \E d \in DomainesDuCompte(c) : DomainePrincipal(d) = cible
  /\ \E d \in DomainesDuCompteSous(c, cible) : CheckPermissionsMultipleDomains(membres[c], {d})

-----------------------------------------------------------------------------
(* The registry of actions: the scope of an action, then its control.      *)

DomainesOuGlobal(ds) == IF ds = {} THEN {Tout} ELSE ds
PorteeGroupe(g) == {DomaineDe[g]}
PorteeGroupeEtUtilisateur(g, c) == {DomaineDe[g]} \cup DomainesDuCompte(c)
PorteePermissionUtilisateur(p) ==
  DomainesOuGlobal({DomaineDe[g] : g \in {h \in Groupes : p \in liens[h]}})

(* Mutant of PorteeReglageActionPermission.                                *)
PorteeReglageActionPermission_sansRelire(p, op) ==
  IF op = "deny" THEN {Tout} ELSE PorteePermissionUtilisateur(p)

(* Placing or lifting a deny asks for the global right.                    *)
PorteeReglageActionPermission(p, op) ==
  IF op = "deny" \/ valeur[p].genre = "deny" THEN {Tout} ELSE PorteePermissionUtilisateur(p)

Controler(c, ds) == CheckPermissionsAllDomains(membres[c], ds)

Init ==
  /\ valeur \in {v \in [Permissions -> ValeursInitiales \cup {Genre("all")}] :
                    v[PermissionProtegee] = Genre("all")}
  /\ liens = [g \in Groupes |-> IF g = GroupeProtege THEN {PermissionProtegee} ELSE {}]
  /\ membres = [c \in Comptes |-> IF c = CompteProtege THEN {GroupeProtege} ELSE {}]
  /\ demandes = {}

(* permission.update_action: controlled, ...                               *)
Operations == {"nil", "all", "deny", "add", "remove"}
DemanderReglage(c, p, op, d, propage) ==
  /\ Cardinality(demandes) < MaxEnVol
  /\ (op \notin {"add", "remove"}) => (d = CHOOSE x \in DomainesRegles : TRUE) /\ propage = CHOOSE b \in Propagations : TRUE
  /\ Controler(c, PorteeReglageActionPermission(p, op))
  /\ demandes' = demandes \cup
       {[compte |-> c, perm |-> p, op |-> op, domaine |-> d, propage |-> propage,
         global |-> Controler(c, {Tout}), lu |-> FALSE, courant |-> Genre("nil")]}
  /\ UNCHANGED <<valeur, liens, membres>>

(* ... then the value is read, ...                                         *)
LireAction(r) ==
  /\ r \in demandes /\ ~r.lu
  /\ demandes' = (demandes \ {r}) \cup {[r EXCEPT !.lu = TRUE, !.courant = valeur[r.perm]]}
  /\ UNCHANGED <<valeur, liens, membres>>

UpdatePermissionAction(v, d, propage, ajout) ==
  LET maj(s) == IF ajout THEN s \cup {d} ELSE s \ {d}
  IN [genre |-> "custom", exact |-> IF propage THEN v.exact ELSE maj(v.exact),
                          propage |-> IF propage THEN maj(v.propage) ELSE v.propage]
DomaineAccorde(v, d, propage) == d \in (IF propage THEN v.propage ELSE v.exact)

(* Mutant of Nouvelle.                                                     *)
Nouvelle_listeVide(r) ==
  CASE r.op = "add" -> UpdatePermissionAction(r.courant, r.domaine, r.propage, TRUE)
    [] r.op = "remove" -> UpdatePermissionAction(r.courant, r.domaine, r.propage, FALSE)
    [] OTHER -> Genre(r.op)

Nouvelle(r) ==
  CASE r.op = "add" -> UpdatePermissionAction(r.courant, r.domaine, r.propage, TRUE)
    [] r.op = "remove" ->
         LET v == UpdatePermissionAction(r.courant, r.domaine, r.propage, FALSE)
         IN IF v.exact \cup v.propage = {} THEN Genre("nil") ELSE v
    [] OTHER -> Genre(r.op)

(* Mutant of SetUserPermissionAction.                                      *)
SetUserPermissionAction_sansGarde(p, v) == valeur' = [valeur EXCEPT ![p] = v]

(* The statement that writes; the protected permission is never written.   *)
SetUserPermissionAction(p, v) ==
  valeur' = IF p = PermissionProtegee THEN valeur ELSE [valeur EXCEPT ![p] = v]

(* ... and the new one written, without a transaction.                     *)
ReglerActionPermission(r) ==
  /\ r \in demandes /\ r.lu
  /\ IF r.op = "remove" /\ ~DomaineAccorde(r.courant, r.domaine, r.propage)
     THEN UNCHANGED valeur
     ELSE SetUserPermissionAction(r.perm, Nouvelle(r))
  /\ demandes' = demandes \ {r}
  /\ UNCHANGED <<liens, membres>>

AjouterPermissionAuGroupe(c, p, g) ==
  /\ Controler(c, PorteeGroupe(g))
  /\ p \notin liens[g] /\ Cardinality(liens[g]) < MaxParGroupe
  /\ liens' = [liens EXCEPT ![g] = @ \cup {p}]
  /\ UNCHANGED <<valeur, membres, demandes>>

(* Mutant of RetirerPermissionDuGroupe.                                    *)
RetirerPermissionDuGroupe_sansGarde(c, p, g) ==
  /\ Controler(c, PorteeGroupe(g))
  /\ p \in liens[g]
  /\ liens' = [liens EXCEPT ![g] = @ \ {p}]
  /\ UNCHANGED <<valeur, membres, demandes>>

RetirerPermissionDuGroupe(c, p, g) ==
  /\ Controler(c, PorteeGroupe(g))
  /\ p \in liens[g] /\ ~(g = GroupeProtege /\ p = PermissionProtegee)
  /\ liens' = [liens EXCEPT ![g] = @ \ {p}]
  /\ UNCHANGED <<valeur, membres, demandes>>

AjouterUtilisateurAuGroupe(c, u, g) ==
  /\ Controler(c, PorteeGroupeEtUtilisateur(g, u))
  /\ g \notin membres[u]
  /\ membres' = [membres EXCEPT ![u] = @ \cup {g}]
  /\ UNCHANGED <<valeur, liens, demandes>>

RetirerUtilisateurDuGroupe(c, u, g) ==
  /\ Controler(c, PorteeGroupeEtUtilisateur(g, u))
  /\ g \in membres[u] /\ ~(u = CompteProtege /\ g = GroupeProtege)
  /\ membres' = [membres EXCEPT ![u] = @ \ {g}]
  /\ UNCHANGED <<valeur, liens, demandes>>

Next ==
  \/ \E c \in Comptes, p \in Permissions, op \in Operations, d \in DomainesRegles, b \in Propagations :
       DemanderReglage(c, p, op, d, b)
  \/ \E r \in demandes : LireAction(r) \/ ReglerActionPermission(r)
  \/ \E c \in Comptes, p \in Permissions, g \in Groupes :
       AjouterPermissionAuGroupe(c, p, g) \/ RetirerPermissionDuGroupe(c, p, g)
  \/ \E c, u \in Comptes, g \in Groupes :
       AjouterUtilisateurAuGroupe(c, u, g) \/ RetirerUtilisateurDuGroupe(c, u, g)

Spec == Init /\ [][Next]_vars

-----------------------------------------------------------------------------
(* Properties.                                                             *)

(* The tables keep their shape, and a stored list of domains is not empty: *)
(* the value written by a removal of the last domain is nil.               *)
TypeOK ==
  /\ valeur \in [Permissions -> Valeurs]
  /\ \A p \in Permissions : valeur[p].genre = "custom" => valeur[p].exact \cup valeur[p].propage # {}
  /\ \A g \in Groupes : liens[g] \subseteq Permissions /\ Cardinality(liens[g]) <= MaxParGroupe
  /\ membres \in [Comptes -> SUBSET Groupes]
  /\ Cardinality(demandes) <= MaxEnVol

(* The evaluators of the actions agree: a delegate sees in a list exactly  *)
(* the domains on which a write would be allowed, apart from the protected *)
(* ones, a list opens when one domain is allowed, and "any domain" means   *)
(* one of them.                                                            *)
Accord ==
  \A c \in Comptes : LET gs == membres[c]
                         ou == DomainsWhereAllowed(gs) IN
    /\ HasActionAnywhere(gs) <=> ~IsEmpty(ou)
    /\ \A ds \in (SUBSET Domaines) \ {{}} :
         /\ CheckPermissionsAllDomains(gs, ds) <=>
              (\A d \in ds : Allows(ou, d)) /\ ~RefuserDomaineProtege(gs, ds)
         /\ CheckPermissionsMultipleDomains(gs, ds) <=> \E d \in ds : Allows(ou, d)

(* An LDAP search shows a domain when the other evaluators allow it, and   *)
(* a login is accepted on a main domain of the account where they do.      *)
AccordLDAP ==
  \A c \in Comptes, d \in Domaines :
    /\ PorteeDeRecherche(membres[c], d) <=> CheckPermissionsMultipleDomains(membres[c], {d})
    /\ CanUserConnectToDomain(c, d) <=>
         d \in {DomainePrincipal(e) : e \in DomainesDuCompte(c)} /\
         \E e \in DomainesDuCompteSous(c, d) : PorteeDeRecherche(membres[c], e)

(* A deny takes the action from every member of every group that carries   *)
(* the permission, save the members of the protected group.                *)
RefusPourTousLesMembres ==
  \A c \in Comptes : \A g \in membres[c] : \A p \in liens[g] :
    valeur[p].genre = "deny" /\ ~Exempte(membres[c]) =>
      \A d \in Domaines : ~CheckPermissionsMultipleDomains(membres[c], {d})

(* Whatever is denied, the protected account can still repair it: it may   *)
(* write every value of every permission.                                  *)
ReparationPossible ==
  \A p \in Permissions, op \in Operations :
    Controler(CompteProtege, PorteeReglageActionPermission(p, op))

(* A deny is placed or lifted only by somebody who held the global right   *)
(* when the request was controlled.                                        *)
RefusParUnGlobal ==
  \A p \in Permissions :
    (valeur[p].genre = "deny") # (valeur'[p].genre = "deny") =>
      \E r \in demandes \ demandes' : r.perm = p /\ r.global
RefusGlobal == [][RefusParUnGlobal]_vars

=============================================================================
