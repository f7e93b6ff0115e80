------------------------------- MODULE Annuaire -------------------------------
(***************************************************************************)
(* The directory: groups that carry the domains, accounts and memberships, *)
(* changed by administrators whose requests are several statements of the  *)
(* database with no transaction around them.                               *)
(*                                                                         *)
(* A domain is the sequence of its labels, the root first; the name of a   *)
(* group is a sequence too, since a parent domain created on the way gets  *)
(* a group named as it is. An account has an identifier that never changes *)
(* and a name that may.                                                    *)
(***************************************************************************)
EXTENDS Integers, Sequences, FiniteSets, SequencesExt

CONSTANTS
  Admins,
  Uids, NomsComptes,            \* identifiers and names of accounts
  NomsGroupes, Domaines,        \* what the administrators ask for
  Bases,                        \* what the groups may be at first
  GroupeProtege, CompteProtege, \* names of the protected group and account
  UidProtege,
  MaxDemarrages

BasesAssumption ==
  /\ \A base \in Bases :
       /\ IsFiniteSet(base)
       /\ \A g \in base : g = [nom |-> g.nom, domaine |-> g.domaine] /\ g.domaine \in Seq(STRING)
       /\ \A g, h \in base : g.nom = h.nom => g = h
       /\ \E g \in base : g.nom = GroupeProtege
  /\ Domaines \subseteq Seq(STRING)
  /\ UidProtege \in Uids /\ CompteProtege \in NomsComptes /\ "" \notin NomsComptes

VARIABLES
  groupes,    \* groups and domain_group: the set of [nom, domaine]
  comptes,    \* users and users_group, by identifier
  demandes,   \* what each administrator is doing
  demarrages  \* starts of a core so far (bound)

vars == <<groupes, comptes, demandes, demarrages>>

Absent == [nom |-> "", prenom |-> "", mdp |-> "initial", provisoire |-> FALSE, groupes |-> {}]
Repos == [pc |-> "repos", op |-> "", cible |-> "", nom |-> "", vu |-> Absent, uid |-> 0, groupe |-> <<>>]

Noms == {g.nom : g \in groupes}
DomainesPortes == {g.domaine : g \in groupes}
Existants == {u \in Uids : comptes[u] # Absent}
UidDe(n) == {u \in Existants : comptes[u].nom = n}

SousDomaineDe(d, parent) == IsPrefix(parent, d)
Ancetres(d) == {SubSeq(d, 1, k) : k \in 2..(Len(d) - 1)}

Init ==
  /\ groupes \in Bases
  /\ comptes = [u \in Uids |->
       IF u = UidProtege
       THEN [Absent EXCEPT !.nom = CompteProtege, !.prenom = CompteProtege, !.groupes = {GroupeProtege}]
       ELSE Absent]
  /\ demandes = [a \in Admins |-> Repos]
  /\ demarrages = 0

-----------------------------------------------------------------------------
(* Groups and domains.                                                     *)

(* Mutant of ParentsManquants.                                             *)
ParentsManquants_leDirect(d) == {p \in Ancetres(d) : Len(p) = Len(d) - 1 /\ p \notin DomainesPortes}

ParentsManquants(d) == {p \in Ancetres(d) : p \notin DomainesPortes}
GroupesParents(d) == {[nom |-> p, domaine |-> p] : p \in ParentsManquants(d)}

(* One transaction: the missing parents, then the group. It fails as a     *)
(* whole when a name is taken.                                             *)
CreateGroupAvecParents(a, n, d) ==
  /\ demandes[a] = Repos
  /\ n \notin Noms \cup ParentsManquants(d)
  /\ ParentsManquants(d) \cap Noms = {}
  /\ groupes' = groupes \cup GroupesParents(d) \cup {[nom |-> n, domaine |-> d]}
  /\ UNCHANGED <<comptes, demandes, demarrages>>

Dernier(g) == \A h \in groupes : h.domaine = g.domaine => h = g
Enfants(d) == {e \in DomainesPortes : e # d /\ SousDomaineDe(e, d)}

(* Mutant of VerifierSuppressionSansOrphelin.                              *)
VerifierSuppressionSansOrphelin_directs(n) ==
  \A g \in groupes : g.nom = n /\ Dernier(g) => \A e \in Enfants(g.domaine) : Len(e) > Len(n) + 1

VerifierSuppressionSansOrphelin(n) ==
  \A g \in groupes : g.nom = n /\ Dernier(g) => Enfants(g.domaine) = {}

SupprimerGroupe(a, n) ==
  /\ demandes[a] = Repos
  /\ VerifierSuppressionSansOrphelin(n)
  /\ demandes' = [demandes EXCEPT ![a] = [Repos EXCEPT !.pc = "verifie", !.groupe = n]]
  /\ UNCHANGED <<groupes, comptes, demarrages>>

(* Mutant of DeleteGroup.                                                  *)
DeleteGroup_sansCascade(a) ==
  /\ demandes[a].pc = "verifie"
  /\ demandes' = [demandes EXCEPT ![a] = Repos]
  /\ groupes' = {g \in groupes : g.nom # demandes[a].groupe \/ g.nom = GroupeProtege}
  /\ UNCHANGED <<comptes, demarrages>>

(* The deletion, guarded by the name alone; the memberships follow.        *)
DeleteGroup(a) ==
  LET n == demandes[a].groupe IN
  /\ demandes[a].pc = "verifie"
  /\ demandes' = [demandes EXCEPT ![a] = Repos]
  /\ IF n = GroupeProtege THEN UNCHANGED <<groupes, comptes>>
     ELSE /\ groupes' = {g \in groupes : g.nom # n}
          /\ comptes' = [u \in Uids |-> [comptes[u] EXCEPT !.groupes = @ \ {n}]]
  /\ UNCHANGED demarrages

(* At the start of a core each domain is repaired in its transaction, in   *)
(* any order; the first that fails ends the repair. s is the order.        *)
Bloque(d) == ParentsManquants(d) \cap Noms # {}
CreerDomainesParentsManquants ==
  \E s \in SetToSeqs(DomainesPortes) :
    LET premier == IF \E i \in DOMAIN s : Bloque(s[i])
                   THEN CHOOSE i \in DOMAIN s : Bloque(s[i]) /\ \A j \in 1..(i-1) : ~Bloque(s[j])
                   ELSE Len(s) + 1
    IN groupes' = groupes \cup UNION {GroupesParents(s[i]) : i \in 1..(premier - 1)}

Demarrer ==
  /\ demarrages < MaxDemarrages
  /\ demarrages' = demarrages + 1
  /\ CreerDomainesParentsManquants
  /\ UNCHANGED <<comptes, demandes>>

-----------------------------------------------------------------------------
(* Accounts.                                                               *)

NomsReserves == {CompteProtege}

CreateNewUser(a, u, n) ==
  /\ demandes[a] = Repos
  /\ comptes[u] = Absent /\ UidDe(n) = {} /\ n \notin NomsReserves
  /\ comptes' = [comptes EXCEPT ![u] = [Absent EXCEPT !.nom = n, !.prenom = n, !.provisoire = TRUE]]
  /\ UNCHANGED <<groupes, demandes, demarrages>>

SupprimerUtilisateur(a, u) ==
  /\ demandes[a] = Repos
  /\ u \in Existants /\ comptes[u].nom # CompteProtege
  /\ comptes' = [comptes EXCEPT ![u] = Absent]
  /\ UNCHANGED <<groupes, demandes, demarrages>>

AjouterAuGroupe(a, u, n) ==
  /\ demandes[a] = Repos
  /\ u \in Existants /\ n \in Noms \ comptes[u].groupes
  /\ comptes' = [comptes EXCEPT ![u].groupes = @ \cup {n}]
  /\ UNCHANGED <<groupes, demandes, demarrages>>

(* Mutant of GuardProtectedMembership.                                     *)
GuardProtectedMembership_groupe(u, n) == n # CompteProtege

GuardProtectedMembership(u, n) == ~(comptes[u].nom = CompteProtege /\ n = GroupeProtege)
RetirerDuGroupe(a, u, n) ==
  /\ demandes[a] = Repos
  /\ u \in Existants /\ n \in comptes[u].groupes /\ GuardProtectedMembership(u, n)
  /\ comptes' = [comptes EXCEPT ![u].groupes = @ \ {n}]
  /\ UNCHANGED <<groupes, demandes, demarrages>>

(* user.update and user.change_password: the profile is read by its name,  *)
(* and reads as its bare name when there is none, ...                      *)
LireProfil(a, op, cible, n) ==
  /\ demandes[a] = Repos
  /\ IF op = "modifier" THEN n \notin NomsReserves ELSE n = cible
  /\ demandes' = [demandes EXCEPT ![a] =
       [Repos EXCEPT !.pc = "lu", !.op = op, !.cible = cible, !.nom = n,
          !.vu = IF UidDe(cible) = {} THEN [Absent EXCEPT !.nom = cible]
                 ELSE comptes[CHOOSE u \in UidDe(cible) : TRUE]]]
  /\ UNCHANGED <<groupes, comptes, demarrages>>

(* ... its identifier is read by the name too, ...                         *)
LireUid(a) ==
  LET r == demandes[a] IN
  /\ r.pc = "lu"
  /\ demandes' = [demandes EXCEPT ![a] =
       IF UidDe(r.cible) = {} THEN Repos
       ELSE [r EXCEPT !.pc = "identifie", !.uid = CHOOSE u \in UidDe(r.cible) : TRUE]]
  /\ UNCHANGED <<groupes, comptes, demarrages>>

(* Mutant of GuardProtectedUserRename.                                     *)
GuardProtectedUserRename_inverse(courant, nouveau) == nouveau = CompteProtege => courant = CompteProtege

GuardProtectedUserRename(courant, nouveau) == courant = CompteProtege => nouveau = CompteProtege

(* Mutant of PrenomEcrit.                                                  *)
PrenomEcrit_duFormulaire(r) == IF r.op = "modifier" THEN r.vu.prenom ELSE ""

PrenomEcrit(r) == r.vu.prenom

(* ... and everything is written under the identifier: the name asked for, *)
(* or the one that was read. An account without group has no main domain,  *)
(* and is refused.                                                         *)
NomEcrit(r) == IF r.op = "modifier" THEN r.nom ELSE r.vu.nom
UpdateUserInfo(a) ==
  LET r == demandes[a]
      ok == /\ r.uid \in Existants
            /\ GuardProtectedUserRename(comptes[r.uid].nom, NomEcrit(r))
            /\ comptes[r.uid].groupes # {}
            /\ UidDe(NomEcrit(r)) \subseteq {r.uid}
  IN /\ r.pc = "identifie"
     /\ comptes' = IF ok
          THEN [comptes EXCEPT ![r.uid].nom = NomEcrit(r), ![r.uid].prenom = PrenomEcrit(r),
                               ![r.uid].mdp = IF r.op = "motdepasse" THEN "tiers" ELSE @]
          ELSE comptes
     /\ demandes' = [demandes EXCEPT ![a] =
          IF ok /\ r.op = "motdepasse" THEN [r EXCEPT !.pc = "ecrit"] ELSE Repos]
     /\ UNCHANGED <<groupes, demarrages>>

(* Mutant of MarquerProvisoire: by the address, which is no name.          *)
MarquerProvisoire_parAdresse(a) ==
  /\ demandes[a].pc = "ecrit"
  /\ demandes' = [demandes EXCEPT ![a] = Repos]
  /\ UNCHANGED <<comptes, groupes, demarrages>>

(* The password set by somebody else is marked provisional, by the name.   *)
MarquerProvisoire(a) ==
  LET r == demandes[a] IN
  /\ r.pc = "ecrit"
  /\ comptes' = [u \in Uids |-> IF u \in UidDe(r.cible)
                                THEN [comptes[u] EXCEPT !.provisoire = TRUE] ELSE comptes[u]]
  /\ demandes' = [demandes EXCEPT ![a] = Repos]
  /\ UNCHANGED <<groupes, demarrages>>

(* The holder changes it on the portal: one step here, Portes has the race *)
(* of its statements.                                                      *)
ChangerLeSien(u) ==
  /\ u \in Existants /\ comptes[u].groupes # {}
  /\ comptes' = [comptes EXCEPT ![u].mdp = "sien", ![u].provisoire = FALSE]
  /\ UNCHANGED <<groupes, demandes, demarrages>>

(* What the request of an administrator may do.                            *)
Geste(a) ==
  \/ \E n \in NomsGroupes, d \in Domaines : CreateGroupAvecParents(a, n, d)
  \/ \E n \in Noms : SupprimerGroupe(a, n)
  \/ DeleteGroup(a)
  \/ \E u \in Uids, n \in NomsComptes : CreateNewUser(a, u, n)
  \/ \E u \in Uids : SupprimerUtilisateur(a, u)
  \/ \E u \in Uids, n \in Noms : AjouterAuGroupe(a, u, n) \/ RetirerDuGroupe(a, u, n)
  \/ \E op \in {"modifier", "motdepasse"}, c, n \in NomsComptes : LireProfil(a, op, c, n)
  \/ LireUid(a) \/ UpdateUserInfo(a) \/ MarquerProvisoire(a)

Autres == Demarrer \/ \E u \in Uids : ChangerLeSien(u)

Next == (\E a \in Admins : Geste(a)) \/ Autres

Spec == Init /\ [][Next]_vars

-----------------------------------------------------------------------------
(* Properties.                                                             *)

(* Names are unique, a group has one domain, and a membership names a      *)
(* group that exists.                                                      *)
TypeOK ==
  /\ \A g, h \in groupes : g.nom = h.nom => g = h
  /\ \A u, v \in Existants : comptes[u].nom = comptes[v].nom => u = v
  /\ \A u \in Uids : comptes[u].groupes \subseteq Noms
  /\ \A a \in Admins : demandes[a].pc \in {"repos", "verifie", "lu", "identifie", "ecrit"}

(* Every domain has its ancestors: none disappears under its children.     *)
ParentsPresents == \A d \in DomainesPortes : Ancetres(d) \subseteq DomainesPortes

(* A start leaves no domain without its ancestors, unless the name of one  *)
(* is taken by a group of another domain.                                  *)
DemarrageRepare ==
  demarrages' # demarrages /\ (\A d \in DomainesPortes : ~Bloque(d)) => ParentsPresents'
ReparationAuDemarrage == [][DemarrageRepare]_vars

(* The protected account keeps its name and its group, whatever renames,   *)
(* deletions and removals interleave.                                      *)
ProtegeIntact ==
  /\ UidDe(CompteProtege) = {UidProtege}
  /\ GroupeProtege \in comptes[UidProtege].groupes
  /\ \E g \in groupes : g.nom = GroupeProtege

(* Only a request user.update changes the name or the identity of an       *)
(* account that stays: a change of password takes the other fields as they *)
(* are.                                                                    *)
ProfilGarde ==
  \A u \in Existants : u \in Existants' /\ comptes'[u].mdp # comptes[u].mdp =>
    comptes'[u].nom = comptes[u].nom /\ comptes'[u].prenom = comptes[u].prenom
MotDePasseSeul == [][ProfilGarde]_vars

(* Once the administrators are idle, the password set by somebody else is  *)
(* provisional.                                                            *)
TiersProvisoire ==
  (\A a \in Admins : demandes[a] = Repos) =>
    \A u \in Existants : comptes[u].mdp = "tiers" => comptes[u].provisoire

=============================================================================
