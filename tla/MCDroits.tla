------------------------------ MODULE MCDroits ------------------------------
(***************************************************************************)
(* The directory and its permissions: the evaluation of the rights and the *)
(* writing of a permission (Droits), groups of a tree, accounts and their  *)
(* guards (Annuaire).                                                      *)
(*                                                                         *)
(* A behaviour is one of the part "partie"; the others keep still. A part  *)
(* adds bounds of its own to the steps of its module.                      *)
(***************************************************************************)
EXTENDS Droits, TLC

CONSTANTS
  Admins, Uids, NomsComptes, NomsGroupes, DomainesGroupes, Bases, GroupeSocle,
  UidProtege, MaxDemarrages,   \* Annuaire
  Parties,   \* the parts of this run
  Hors       \* what the variables hold of a part that does not run

VARIABLES
  partie,    \* the part that runs
  groupes, comptes, gestes, demarrages  \* Annuaire

droitsVars == vars
annuaireVars == <<groupes, comptes, gestes, demarrages>>
tout == <<partie, droitsVars, annuaireVars>>

MCDomaineDe ==
  [g \in {"vaultaire", "acme", "paie"} |->
     CASE g = "vaultaire" -> <<"fr", "vaultaire">>
       [] g = "acme" -> <<"lan", "acme">>
       [] g = "paie" -> <<"lan", "acme", "paie">>]
Fr == <<"fr", "vaultaire">>
Acme == <<"lan", "acme">>
Paie == <<"lan", "acme", "paie">>
Infra == <<"lan", "acme", "infra">>
Cloud == <<"lan", "acme", "infra", "cloud">>
Diverses ==
  {Genre("nil"), Genre("all"), Genre("deny"), [Genre("custom") EXCEPT !.exact = {Acme}],
   [Genre("custom") EXCEPT !.propage = {Acme}], [Genre("custom") EXCEPT !.exact = {Paie}]}
Un == {Acme}
Domaines2 == {Acme, Paie}
DomainesDeLArbre == {Acme, Infra, Cloud}
(* The administrators may be exchanged. *)
Echanges == Permutations(Admins)
GP == <<"vaultaire">>
DeuxGroupes == {<<"rh">>, <<"dev">>}
Socle == {[nom |-> GP, domaine |-> Fr]}
TrouEtNomPris ==
  Socle \cup {[nom |-> <<"rh">>, domaine |-> Cloud], [nom |-> Acme, domaine |-> Fr]}
DeuxBases == {Socle, TrouEtNomPris}

N == INSTANCE Annuaire WITH
  Domaines <- DomainesGroupes, GroupeProtege <- GroupeSocle, demandes <- gestes

ASSUME BasesDeLAnnuaire == N!BasesAssumption

(* Bounds of the parts of the rights. Changing them: a permission whose    *)
(* value is only cleared or denied, one domain, the groups that are not    *)
(* "paie". Evaluating them: no request, one permission at most for each    *)
(* group.                                                                  *)
SansPaie ==
  /\ \A r \in demandes' : r.perm = 3 => r.op \in {"nil", "deny"}
  /\ \A r \in demandes' : r.op \in {"add", "remove"} => r.domaine \in Un
  /\ \A g \in Groupes : DomaineDe[g] = Paie => liens'[g] = {} /\ \A c \in Comptes : g \notin membres'[c]
UnePermission == demandes' = {} /\ \A g \in Groupes : Cardinality(liens'[g]) <= 1

(* Bounds of the parts of the directory: one request at a time, the groups *)
(* as they were, the identifiers and the names in use.                     *)
Seul ==
  \/ \E a \in Admins : (\A b \in Admins \ {a} : gestes[b] = N!Repos) /\ N!Geste(a)
  \/ N!Autres
SansGroupes == groupes' = groupes /\ demarrages' = demarrages
Avec(uids, noms) ==
  /\ \A u \in Uids \ uids : comptes'[u] = N!Absent
  /\ \A u \in uids : comptes'[u] # N!Absent => comptes'[u].nom \in noms
  /\ \A a \in Admins : gestes'[a].op # "" => {gestes'[a].cible, gestes'[a].nom} \subseteq noms
Protege1 == Avec({UidProtege}, {CompteProtege})
DeuxComptes == Avec({UidProtege, UidProtege + 1}, {CompteProtege, "alice"})

Annuaires == {"arbre", "trou", "comptes", "seul"}

-----------------------------------------------------------------------------
(* A part that does not run keeps its variables as they are.              *)
annuaireHors ==
  /\ groupes = Hors /\ comptes = Hors /\ gestes = Hors /\ demarrages = Hors

Debut ==
  /\ partie \in Parties
  /\ Init
  /\ partie # "accord" => \A p \in Permissions \ {PermissionProtegee} : valeur[p] = Genre("nil")
  /\ IF partie \in Annuaires THEN N!Init ELSE annuaireHors
  /\ partie \in {"arbre", "comptes", "seul"} => N!ParentsPresents
  /\ partie = "trou" => ~N!ParentsPresents


Pas ==
  \/ partie = "refus" /\ Next /\ SansPaie /\ UNCHANGED <<partie, annuaireVars>>
  \/ partie = "accord" /\ Next /\ UnePermission /\ UNCHANGED <<partie, annuaireVars>>
  \/ partie = "arbre" /\ Seul /\ Protege1 /\ UNCHANGED <<partie, droitsVars>>
  \/ partie = "trou" /\ Seul /\ Protege1 /\ UNCHANGED <<partie, droitsVars>>
  \/ partie = "comptes" /\ N!Next /\ SansGroupes /\ DeuxComptes /\ UNCHANGED <<partie, droitsVars>>
  \/ partie = "seul" /\ Seul /\ SansGroupes /\ UNCHANGED <<partie, droitsVars>>

Ensemble == Debut /\ [][Pas]_tout

-----------------------------------------------------------------------------
(* The evaluators of the actions, of the lists and of LDAP say the same of *)
(* every account and domain, and a deny takes the action from every member *)
(* of the group that carries it (core/permission, LDAP_search).            *)
DroitsEvalues ==
  /\ TypeOK
  /\ partie = "accord" => Accord /\ AccordLDAP /\ RefusPourTousLesMembres

(* The protected account keeps its name and its group whatever two         *)
(* administrators interleave; a group of a sub-domain keeps the groups of  *)
(* its ancestors through every deletion and creation of one administrator; *)
(* and a password set by somebody else ends up provisional                 *)
(* (verifier_suppression.go, actions_users.go).                            *)
AnnuaireTenu ==
  /\ partie \in Annuaires => N!TypeOK /\ N!ProtegeIntact
  /\ partie \in {"arbre", "trou", "seul"} => N!TiersProvisoire
  /\ partie \in {"arbre", "seul"} => N!ParentsPresents

(* A start leaves no domain without its ancestors, unless a name is taken; *)
(* a change of password takes the other fields of an account as they are   *)
(* (actions_groups.go, actions_users.go).                                  *)
GestesSansDegat ==
  [][/\ partie \in Annuaires => N!DemarrageRepare
     /\ partie \in {"arbre", "trou", "seul"} => N!ProfilGarde]_tout
=============================================================================
