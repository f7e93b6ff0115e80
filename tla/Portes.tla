-------------------------------- MODULE Portes --------------------------------
(***************************************************************************)
(* The doors of one account (portal, ssh through PAM, LDAP bind, Ducky     *)
(* login 02_01/02_03) against what closes them: the lock of the kill       *)
(* switch, and a change of the password by its holder or by a third party. *)
(*                                                                         *)
(* Each request is a goroutine; a step is one statement on the database or *)
(* one critical section of a store in memory. Passwords are versions: a    *)
(* request presents one and the check compares it with the current one.    *)
(***************************************************************************)
EXTENDS Integers

CONSTANTS
  Requetes,      \* requests that may be under way at the same time
  Jetons,        \* tokens of the portal, pending steps and sessions
  Portes,        \* the operations of this instance
  MaxVersions,   \* bound: passwords in a behaviour
  Pannes         \* TRUE: the second read of the state may fail in finishLogin

ToutesPortes == {"web", "pam", "ldap", "ducky", "coupure", "profil", "admin", "enrole"}

ASSUME PortesAssumption ==
  /\ Portes \subseteq ToutesPortes
  /\ MaxVersions \in Nat \ {0}
  /\ Pannes \in BOOLEAN

Versions == 1..MaxVersions
Auteurs == {"titulaire", "tiers", "service"}
Etapes == {"ducky", "pam", "web", "etapes"}   \* the loops of killSessions
PcWeb == {"web.mdp", "web.facteur", "web.fin", "web.ouvrir", "mfa.etat"}
PcPam == {"pam.verrou", "pam.ouvrir"}
PcLdap == {"ldap.groupes", "ldap.mdp", "ldap.lier"}
PcDucky == {"ducky.mdp", "ducky.defi", "ducky.ouvrir"}
PcProfil == {"profil.ecrire", "profil.session", "profil.drapeau", "profil.fermer"}
PcAdmin == {"admin.marquer", "admin.lever"}
Pcs == {"libre"} \cup PcWeb \cup PcPam \cup PcLdap \cup PcDucky \cup PcProfil \cup PcAdmin

VARIABLES
  verrou,      \* the account is revoked
  coupure,     \* loops of killSessions still to run
  compte,      \* the row of the account
  req,         \* the request of each goroutine
  sessions,    \* session.sessions: token -> session
  etapes,      \* session.pendingSessions: token -> pending second factor
  defi,        \* authStore: the challenge of a 02_02
  ducky,       \* the identity of the Ducky session
  pam,         \* the row of user_sessions
  ldap         \* the bind of the LDAP connection

vars == <<verrou, coupure, compte, req, sessions, etapes, defi, ducky, pam, ldap>>
ouvertures == <<sessions, etapes, defi, ducky, pam, ldap>>

(* What a door opens: the version of the password that was proved, whether *)
(* the whole request ran under the lock, whether the lock came later.      *)
Rien == [ouvert |-> FALSE, preuve |-> 1, sous |-> FALSE, avant |-> FALSE]
Acces == [ouvert : BOOLEAN, preuve : Versions, sous : BOOLEAN, avant : BOOLEAN]
SansSession == [acces |-> Rien, contrainte |-> FALSE, obligee |-> FALSE,
                aEnroler |-> FALSE, servie |-> FALSE]
Sessions == [acces : Acces, contrainte : BOOLEAN, obligee : BOOLEAN,
             aEnroler : BOOLEAN, servie : BOOLEAN]
Libre == [pc |-> "libre", presente |-> 1, jeton |-> {}, sous |-> FALSE, oblige |-> FALSE,
          contrainte |-> FALSE, aEnroler |-> FALSE]

TypeOK ==
  /\ verrou \in BOOLEAN /\ coupure \subseteq Etapes
  /\ compte \in [version : Versions, auteur : Auteurs, provisoire : BOOLEAN,
                 facteur : BOOLEAN, exige : BOOLEAN]
  /\ req \in [Requetes -> [pc : Pcs, presente : Versions, jeton : SUBSET Jetons,
                           sous : BOOLEAN, oblige : BOOLEAN, contrainte : BOOLEAN,
                           aEnroler : BOOLEAN]]
  /\ sessions \in [Jetons -> Sessions]
  /\ etapes \in [Jetons -> Acces]
  /\ defi \in Acces /\ ducky \in Acces /\ pam \in Acces /\ ldap \in Acces

Init ==
  /\ verrou = FALSE /\ coupure = {}
  /\ compte \in [version : {1}, auteur : {"titulaire"}, provisoire : {FALSE},
                 facteur : BOOLEAN, exige : BOOLEAN]
  /\ req = [r \in Requetes |-> Libre]
  /\ sessions = [t \in Jetons |-> SansSession]
  /\ etapes = [t \in Jetons |-> Rien]
  /\ defi = Rien /\ ducky = Rien /\ pam = Rien /\ ldap = Rien

-----------------------------------------------------------------------------
Aller(r, pc) == req' = [req EXCEPT ![r].pc = pc]
Refuser(r) == req' = [req EXCEPT ![r] = Libre]
Commencer(r, pc, v) ==
  /\ req[r].pc = "libre"
  /\ req' = [req EXCEPT ![r] = [Libre EXCEPT !.pc = pc, !.presente = v, !.sous = verrou,
                                             !.oblige = compte.provisoire]]
Ouvert(r) == [ouvert |-> TRUE, preuve |-> req[r].presente, sous |-> req[r].sous,
              avant |-> FALSE]

IsRevoked == verrou

(* VerifierMotDePasse, between two other statements of a handler.          *)
VerifierMotDePasse(r, suite) ==
  IF req[r].presente = compte.version THEN Aller(r, suite) ELSE Refuser(r)

-----------------------------------------------------------------------------
(* The portal.                                                             *)
LoginHandler(r, v) ==
  /\ "web" \in Portes /\ ~IsRevoked
  /\ Commencer(r, "web.mdp", v)
  /\ UNCHANGED <<verrou, coupure, compte, ouvertures>>

MotDePasseWeb(r) ==
  /\ req[r].pc = "web.mdp"
  /\ VerifierMotDePasse(r, "web.facteur")
  /\ UNCHANGED <<verrou, coupure, compte, ouvertures>>

CreatePending(r, t) ==
  /\ etapes[t] = Rien /\ sessions[t] = SansSession
  /\ etapes' = [etapes EXCEPT ![t] = Ouvert(r)]

startSecondFactor(r) ==
  /\ req[r].pc = "web.facteur"
  /\ \/ /\ compte.facteur
        /\ \E t \in Jetons : CreatePending(r, t)
        /\ Refuser(r)
     \/ /\ ~compte.facteur
        /\ req' = [req EXCEPT ![r].pc = "web.fin", ![r].aEnroler = compte.exige]
        /\ UNCHANGED etapes
  /\ UNCHANGED <<verrou, coupure, compte, sessions, defi, ducky, pam, ldap>>

PendingUsername(t) == etapes[t].ouvert

(* MFAPageHandler: the step is known, then the lock is looked at again.    *)
MFAPageHandler(r, t) ==
  /\ PendingUsername(t)
  /\ \/ /\ IsRevoked
        /\ etapes' = [etapes EXCEPT ![t] = Rien]
        /\ UNCHANGED req
     \/ /\ ~IsRevoked
        /\ req[r].pc = "libre"
        /\ req' = [req EXCEPT ![r] = [Libre EXCEPT !.pc = "mfa.etat", !.jeton = {t},
                     !.presente = etapes[t].preuve, !.oblige = compte.provisoire]]
        /\ UNCHANGED etapes
  /\ UNCHANGED <<verrou, coupure, compte, sessions, defi, ducky, pam, ldap>>

(* A wrong code, or the factor gone, ends the request here; SecondFacteur  *)
(* counts the failures. A right one deletes the step, present or not.      *)
ConsommerCode(r) ==
  /\ req[r].pc = "mfa.etat"
  /\ etapes' = [t \in Jetons |-> IF t \in req[r].jeton THEN Rien ELSE etapes[t]]
  /\ IF compte.facteur
       THEN req' = [req EXCEPT ![r].pc = "web.fin", ![r].jeton = {}]
       ELSE Refuser(r)
  /\ UNCHANGED <<verrou, coupure, compte, sessions, defi, ducky, pam, ldap>>

CodeFaux(r) ==
  /\ req[r].pc = "mfa.etat"
  /\ Refuser(r)
  /\ UNCHANGED <<verrou, coupure, compte, ouvertures>>

finishLogin(r) ==
  /\ req[r].pc = "web.fin"
  /\ \E c \in {compte.provisoire} \cup (IF Pannes THEN {FALSE} ELSE {}) :
       req' = [req EXCEPT ![r].pc = "web.ouvrir", ![r].contrainte = c]
  /\ UNCHANGED <<verrou, coupure, compte, ouvertures>>

CreateSessionWithConstraint(r, t) ==
  /\ req[r].pc = "web.ouvrir"
  /\ etapes[t] = Rien /\ sessions[t] = SansSession
  /\ sessions' = [sessions EXCEPT ![t] = [acces |-> Ouvert(r), contrainte |-> req[r].contrainte,
                    obligee |-> req[r].oblige, aEnroler |-> req[r].aEnroler, servie |-> FALSE]]
  /\ Refuser(r)
  /\ UNCHANGED <<verrou, coupure, compte, etapes, defi, ducky, pam, ldap>>

(* requireLogin, the gate of every page: a constrained session passes only *)
(* where the password is changed.                                          *)
requireLogin(t, changement) ==
  /\ sessions[t].acces.ouvert
  /\ sessions[t].contrainte => changement

ServirPage(t) ==
  /\ requireLogin(t, FALSE) /\ ~sessions[t].servie
  /\ sessions' = [sessions EXCEPT ![t].servie = TRUE]
  /\ UNCHANGED <<verrou, coupure, compte, req, etapes, defi, ducky, pam, ldap>>

(* A logout, or the expiry noticed by ValidateToken and the purges.        *)
DeleteSession(t) ==
  /\ sessions[t].acces.ouvert
  /\ sessions' = [sessions EXCEPT ![t] = SansSession]
  /\ UNCHANGED <<verrou, coupure, compte, req, etapes, defi, ducky, pam, ldap>>

ExpirerEtape(t) ==
  /\ etapes[t].ouvert
  /\ etapes' = [etapes EXCEPT ![t] = Rien]
  /\ UNCHANGED <<verrou, coupure, compte, req, sessions, defi, ducky, pam, ldap>>

-----------------------------------------------------------------------------
(* Mutant of SSH_SEND_Pubkey_AUTH. *)
SSH_SEND_Pubkey_AUTH_libre(r, v) ==
  /\ "pam" \in Portes
  /\ v = compte.version
  /\ Commencer(r, "pam.ouvrir", v)
  /\ UNCHANGED <<verrou, coupure, compte, ouvertures>>

(* ssh through PAM, trame 03_01: the password first, the lock afterwards.  *)
SSH_SEND_Pubkey_AUTH(r, v) ==
  /\ "pam" \in Portes
  /\ v = compte.version
  /\ Commencer(r, "pam.verrou", v)
  /\ UNCHANGED <<verrou, coupure, compte, ouvertures>>

VerrouPAM(r) ==
  /\ req[r].pc = "pam.verrou"
  /\ IF IsRevoked THEN Refuser(r) ELSE Aller(r, "pam.ouvrir")
  /\ UNCHANGED <<verrou, coupure, compte, ouvertures>>

(* The factor, the expiry, the domain, the machine may still refuse.       *)
RefuserPAM(r) ==
  /\ req[r].pc = "pam.ouvrir"
  /\ Refuser(r)
  /\ UNCHANGED <<verrou, coupure, compte, ouvertures>>

OuvrirSessionUtilisateur(r) ==
  /\ req[r].pc = "pam.ouvrir"
  /\ pam' = Ouvert(r)
  /\ Refuser(r)
  /\ UNCHANGED <<verrou, coupure, compte, sessions, etapes, defi, ducky, ldap>>

SSH_Fin_De_Session ==
  /\ pam.ouvert
  /\ pam' = Rien
  /\ UNCHANGED <<verrou, coupure, compte, req, sessions, etapes, defi, ducky, ldap>>

-----------------------------------------------------------------------------
(* An LDAP bind. Requests of a connection follow one another.              *)
HandleBindRequest(r, v) ==
  /\ "ldap" \in Portes
  /\ \A q \in Requetes : req[q].pc \notin PcLdap
  /\ \/ /\ IsRevoked /\ ldap' = Rien /\ UNCHANGED req
     \/ /\ ~IsRevoked /\ Commencer(r, "ldap.groupes", v) /\ UNCHANGED ldap
  /\ UNCHANGED <<verrou, coupure, compte, sessions, etapes, defi, ducky, pam>>

RefuserLDAP(r) ==
  /\ req[r].pc \in PcLdap
  /\ Refuser(r)
  /\ ldap' = Rien
  /\ UNCHANGED <<verrou, coupure, compte, sessions, etapes, defi, ducky, pam>>

(* GetGroupIDsForUser looks at the lock too: a revoked account has no      *)
(* group, the bind is refused whatever its first check said.               *)
GetGroupIDsForUser(r) ==
  /\ req[r].pc = "ldap.groupes" /\ ~IsRevoked
  /\ Aller(r, "ldap.mdp")
  /\ UNCHANGED <<verrou, coupure, compte, ouvertures>>

MotDePasseLDAP(r) ==
  /\ req[r].pc = "ldap.mdp" /\ req[r].presente = compte.version
  /\ Aller(r, "ldap.lier")
  /\ UNCHANGED <<verrou, coupure, compte, ouvertures>>

SetBindInfo(r) ==
  /\ req[r].pc = "ldap.lier"
  /\ ldap' = Ouvert(r)
  /\ Refuser(r)
  /\ UNCHANGED <<verrou, coupure, compte, sessions, etapes, defi, ducky, pam>>

-----------------------------------------------------------------------------
(* The Ducky login: 02_01 proves the password, 02_03 answers a challenge.  *)
SendAuthRequest(r, v) ==
  /\ "ducky" \in Portes /\ ~IsRevoked
  /\ Commencer(r, "ducky.mdp", v)
  /\ UNCHANGED <<verrou, coupure, compte, ouvertures>>

MotDePasseDucky(r) ==
  /\ req[r].pc = "ducky.mdp"
  /\ VerifierMotDePasse(r, "ducky.defi")
  /\ UNCHANGED <<verrou, coupure, compte, ouvertures>>

(* Mutant of storeAuth. *)
storeAuth_borne(r) ==
  /\ req[r].pc = "ducky.defi"
  /\ defi' = [Ouvert(r) EXCEPT !.preuve = @ - 1]
  /\ Refuser(r)
  /\ UNCHANGED <<verrou, coupure, compte, sessions, etapes, ducky, pam, ldap>>

storeAuth(r) ==
  /\ req[r].pc = "ducky.defi"
  /\ defi' = Ouvert(r)
  /\ Refuser(r)
  /\ UNCHANGED <<verrou, coupure, compte, sessions, etapes, ducky, pam, ldap>>

(* A challenge is taken by its answer, or lapses after two minutes.        *)
GetRandomAuthByAuthID(r) ==
  /\ defi.ouvert
  /\ defi' = Rien
  /\ \/ /\ Commencer(r, "ducky.ouvrir", defi.preuve)
     \/ UNCHANGED req
  /\ UNCHANGED <<verrou, coupure, compte, sessions, etapes, ducky, pam, ldap>>

CheckAuth(r) ==
  /\ req[r].pc = "ducky.ouvrir"
  /\ ducky' = Ouvert(r)
  /\ Refuser(r)
  /\ UNCHANGED <<verrou, coupure, compte, sessions, etapes, defi, pam, ldap>>

-----------------------------------------------------------------------------
(* The kill switch: the lock, then the four loops of killSessions.         *)
Dater(a) == [a EXCEPT !.avant = @ \/ a.ouvert]

Revoquer ==
  /\ "coupure" \in Portes /\ ~verrou
  /\ verrou' = TRUE
  /\ coupure' = Etapes
  /\ sessions' = [t \in Jetons |-> [sessions[t] EXCEPT !.acces = Dater(@)]]
  /\ etapes' = [t \in Jetons |-> Dater(etapes[t])]
  /\ ducky' = Dater(ducky) /\ pam' = Dater(pam)
  /\ UNCHANGED <<compte, req, defi, ldap>>

FermerDucky ==
  /\ coupure = Etapes
  /\ coupure' = coupure \ {"ducky"}
  /\ ducky' = Rien
  /\ UNCHANGED <<verrou, compte, req, sessions, etapes, defi, pam, ldap>>

FermerSessionsUtilisateurPartout ==
  /\ coupure = {"pam", "web", "etapes"}
  /\ coupure' = coupure \ {"pam"}
  /\ pam' = Rien
  /\ UNCHANGED <<verrou, compte, req, sessions, etapes, defi, ducky, ldap>>

DeleteSessionsOf ==
  /\ coupure = {"web", "etapes"}
  /\ coupure' = coupure \ {"web"}
  /\ sessions' = [t \in Jetons |-> SansSession]
  /\ UNCHANGED <<verrou, compte, req, etapes, defi, ducky, pam, ldap>>

(* Mutant of DeletePendingOf. *)
DeletePendingOf_oubli ==
  /\ coupure = {"etapes"}
  /\ coupure' = {}
  /\ UNCHANGED <<verrou, compte, req, ouvertures>>

DeletePendingOf ==
  /\ coupure = {"etapes"}
  /\ coupure' = {}
  /\ etapes' = [t \in Jetons |-> Rien]
  /\ UNCHANGED <<verrou, compte, req, sessions, defi, ducky, pam, ldap>>

(* The lock is lifted once its own closing has ended.                      *)
Lever ==
  /\ verrou /\ coupure = {}
  /\ verrou' = FALSE
  /\ req' = [r \in Requetes |-> [req[r] EXCEPT !.sous = FALSE]]
  /\ UNCHANGED <<coupure, compte, ouvertures>>

-----------------------------------------------------------------------------
(* The holder changes the password on the portal.                          *)
ProfilHandler(r, t) ==
  /\ "profil" \in Portes
  /\ requireLogin(t, TRUE)
  /\ req[r].pc = "libre"
  /\ req' = [req EXCEPT ![r].pc = "profil.ecrire", ![r].jeton = {t},
                        ![r].presente = compte.version]
  /\ UNCHANGED <<verrou, coupure, compte, ouvertures>>

Update_User_Info(r) ==
  /\ req[r].pc = "profil.ecrire"
  /\ compte.version < MaxVersions
  /\ compte' = [compte EXCEPT !.version = @ + 1, !.auteur = "titulaire"]
  /\ req' = [req EXCEPT ![r].pc = "profil.session", ![r].presente = compte.version + 1]
  /\ UNCHANGED <<verrou, coupure, ouvertures>>

(* Mutant of ClearMustChangePassword. *)
ClearMustChangePassword_toutes(r) ==
  /\ req[r].pc = "profil.session"
  /\ sessions' = [t \in Jetons |-> [sessions[t] EXCEPT !.contrainte = FALSE]]
  /\ Aller(r, "profil.drapeau")
  /\ UNCHANGED <<verrou, coupure, compte, etapes, defi, ducky, pam, ldap>>

ClearMustChangePassword(r) ==
  /\ req[r].pc = "profil.session"
  /\ sessions' = [t \in Jetons |->
       IF t \in req[r].jeton /\ sessions[t].acces.ouvert
         THEN [sessions[t] EXCEPT !.contrainte = FALSE, !.obligee = FALSE,
                                  !.acces.preuve = req[r].presente]
         ELSE sessions[t]]
  /\ Aller(r, "profil.drapeau")
  /\ UNCHANGED <<verrou, coupure, compte, etapes, defi, ducky, pam, ldap>>

(* LeverProvisoire, after which nobody is obliged any more.                *)
LeverProvisoire(suite) ==
  /\ compte' = [compte EXCEPT !.provisoire = FALSE]
  /\ req' = [r \in Requetes |-> [req[r] EXCEPT !.oblige = FALSE, !.pc = suite[r]]]

LeverParLeTitulaire(r) ==
  /\ req[r].pc = "profil.drapeau"
  /\ LeverProvisoire([q \in Requetes |-> IF q = r THEN "profil.fermer" ELSE req[q].pc])
  /\ UNCHANGED <<verrou, coupure, ouvertures>>

DeleteOtherSessionsOf(r) ==
  /\ req[r].pc = "profil.fermer"
  /\ sessions' = [t \in Jetons |-> IF t \in req[r].jeton THEN sessions[t] ELSE SansSession]
  /\ Refuser(r)
  /\ UNCHANGED <<verrou, coupure, compte, etapes, defi, ducky, pam, ldap>>

(* An administrator sets the password, provisional or final (a service).   *)
changerMotDePasse(r, definitif) ==
  /\ "admin" \in Portes /\ req[r].pc = "libre"
  /\ compte.version < MaxVersions
  /\ compte' = [compte EXCEPT !.version = @ + 1,
                              !.auteur = IF definitif THEN "service" ELSE "tiers"]
  /\ req' = [req EXCEPT ![r].pc = IF definitif THEN "admin.lever" ELSE "admin.marquer"]
  /\ UNCHANGED <<verrou, coupure, ouvertures>>

MarquerProvisoire(r) ==
  /\ req[r].pc = "admin.marquer"
  /\ compte' = [compte EXCEPT !.provisoire = TRUE]
  /\ Refuser(r)
  /\ UNCHANGED <<verrou, coupure, ouvertures>>

LeverParUnTiers(r) ==
  /\ req[r].pc = "admin.lever"
  /\ LeverProvisoire([q \in Requetes |-> IF q = r THEN "libre" ELSE req[q].pc])
  /\ UNCHANGED <<verrou, coupure, ouvertures>>

(* The factor is enrolled, SecondFacteur has the detail.                   *)
ActivateMFA ==
  /\ "enrole" \in Portes /\ ~compte.facteur
  /\ compte' = [compte EXCEPT !.facteur = TRUE]
  /\ sessions' = [t \in Jetons |-> [sessions[t] EXCEPT !.aEnroler = FALSE]]
  /\ UNCHANGED <<verrou, coupure, req, etapes, defi, ducky, pam, ldap>>

-----------------------------------------------------------------------------
Web ==
  \/ \E r \in Requetes :
       \/ \E v \in Versions : LoginHandler(r, v)
       \/ MotDePasseWeb(r) \/ startSecondFactor(r) \/ ConsommerCode(r) \/ CodeFaux(r)
       \/ finishLogin(r)
       \/ \E t \in Jetons : MFAPageHandler(r, t) \/ CreateSessionWithConstraint(r, t)
  \/ \E t \in Jetons : ServirPage(t) \/ DeleteSession(t) \/ ExpirerEtape(t)

Distantes ==
  \/ \E r \in Requetes :
       \/ \E v \in Versions :
            SSH_SEND_Pubkey_AUTH(r, v) \/ HandleBindRequest(r, v) \/ SendAuthRequest(r, v)
       \/ VerrouPAM(r) \/ RefuserPAM(r) \/ OuvrirSessionUtilisateur(r)
       \/ RefuserLDAP(r) \/ GetGroupIDsForUser(r) \/ MotDePasseLDAP(r) \/ SetBindInfo(r)
       \/ MotDePasseDucky(r) \/ storeAuth(r) \/ GetRandomAuthByAuthID(r) \/ CheckAuth(r)
  \/ SSH_Fin_De_Session

Coupure ==
  \/ Revoquer \/ Lever
  \/ FermerDucky \/ FermerSessionsUtilisateurPartout \/ DeleteSessionsOf \/ DeletePendingOf

MotsDePasse ==
  \/ \E r \in Requetes :
       \/ \E t \in Jetons : ProfilHandler(r, t)
       \/ Update_User_Info(r)
       \/ ClearMustChangePassword(r) \/ LeverParLeTitulaire(r) \/ DeleteOtherSessionsOf(r)
       \/ \E d \in BOOLEAN : changerMotDePasse(r, d)
       \/ MarquerProvisoire(r) \/ LeverParUnTiers(r)
  \/ ActivateMFA

Next == Web \/ Distantes \/ Coupure \/ MotsDePasse
Spec == Init /\ [][Next]_vars

-----------------------------------------------------------------------------
(* A request that ran entirely under the lock opens nothing: no session or *)
(* pending step of the portal, no PAM session, no bind, no challenge.      *)
PorteFermeeSousVerrou ==
  /\ \A t \in Jetons : ~sessions[t].acces.sous /\ ~etapes[t].sous
  /\ ~pam.sous /\ ~ldap.sous /\ ~defi.sous

(* When killSessions has returned and the account is still locked, nothing *)
(* of what was open when it was locked is left: neither session, nor       *)
(* half-way authentication, nor displayed row.                             *)
CoupureComplete ==
  (verrou /\ coupure = {}) =>
    /\ \A t \in Jetons : ~sessions[t].acces.avant /\ ~etapes[t].avant
    /\ ~ducky.avant /\ ~pam.avant

(* A portal session whose opening ran entirely with a password marked to   *)
(* be changed serves no ordinary page before its owner has changed it.     *)
ObligationTient ==
  \A t \in Jetons : sessions[t].obligee => sessions[t].contrainte /\ ~sessions[t].servie

(* The lock closes everything: no door opens to a request made wholly      *)
(* under it, and once killSessions has returned nothing is left of what    *)
(* was open before (dispatch.go, session.go, pending.go).                  *)
VerrouFermeTout == TypeOK /\ PorteFermeeSousVerrou /\ CoupureComplete

-----------------------------------------------------------------------------
(* The comment of SendAuthRequest: the refusal of a revoked account comes  *)
(* before anything else, so no Ducky session starts under the lock.        *)
DuckyFermeSousVerrou == ~ducky.sous

(* The comment of DeletePendingOf: once the closing is over, no session    *)
(* of the portal is open under the lock.                                   *)
AucuneSessionApresCoupure ==
  (verrou /\ coupure = {}) => \A t \in Jetons : ~sessions[t].acces.ouvert

(* The comment of DeleteOtherSessionsOf: a changed password puts out those *)
(* who came in with the old one.                                           *)
AncienMotDePasseEvince ==
  (compte.auteur = "titulaire" /\ \A r \in Requetes : req[r].pc \notin PcProfil) =>
    \A t \in Jetons : sessions[t].acces.ouvert => sessions[t].acces.preuve = compte.version

(* The comment of changerMotDePasse: a password chosen by a third party    *)
(* stays provisional until its holder replaces it.                         *)
TiersToujoursProvisoire ==
  (compte.auteur = "tiers" /\ \A r \in Requetes : req[r].pc # "admin.marquer") =>
    compte.provisoire

(* The comment of startSecondFactor: the session of an account that has to *)
(* enrol a second factor is confined to the page of the enrolment.         *)
EnrolementEnferme == \A t \in Jetons : sessions[t].aEnroler => ~sessions[t].servie
=============================================================================
