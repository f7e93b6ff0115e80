---------------------------- MODULE SecondFacteur ----------------------------
(***************************************************************************)
(* The second factor of one account: its row in the table of users, the    *)
(* enrolment on the portal and the four doors that ask for a code (portal, *)
(* ssh through PAM, service 08_01, LDAP bind).                             *)
(*                                                                         *)
(* Every request is a goroutine that reads the row with GetAuthState,      *)
(* decides on its copy, and writes with a conditional UPDATE: only the     *)
(* statements are atomic. A code stands for the pair (secret, time step):  *)
(* two different pairs never show the same digits here.                    *)
(***************************************************************************)
EXTENDS Integers, FiniteSets

CONSTANTS
  Requetes,       \* requests that may be under way at the same time
  Jetons,         \* tokens of the pending steps of the portal
  MaxSecrets,     \* bound: secrets generated in a behaviour
  MaxHeure,       \* bound: time steps of thirty seconds
  SkewSteps,      \* totp.SkewSteps
  MaxEssais,      \* session.maxMFAAttempts
  ExigenceDucky,  \* setting mfa_ducky_required
  MFABypass,      \* setting ldap.mfa_bypass
  UnSeulOnglet    \* TRUE: the account uses one enrolment page at a time

BornesAssumption ==
  /\ MaxSecrets \in Nat /\ MaxHeure \in Nat /\ SkewSteps \in Nat
  /\ MaxEssais \in Nat \ {0}
  /\ {ExigenceDucky, MFABypass, UnSeulOnglet} \subseteq BOOLEAN

Heures == 0..MaxHeure
Aucun == 0                       \* mfa_secret NULL
Secrets == 1..MaxSecrets
Jamais == -1                     \* mfa_last_counter NULL
Absente == -1                    \* no entry in pendingSessions
Formes == {"absent", "vide", "zero", "code"}
Saisies == [forme : Formes, secret : Secrets \cup {Aucun}, pas : Heures]
PortesMFA == {"portail", "ssh", "service", "ldap"}
Onglets == {"start", "confirm", "activer", "disable"}

VARIABLES
  heure,
  base,       \* the row: mfa_secret, mfa_enabled, mfa_last_counter
  exige,      \* a group of the account has mfa_required
  dernier,    \* secrets generated so far
  req,        \* the request of each goroutine
  etapes,     \* pendingSessions: token -> failed attempts
  prouves,    \* history: secrets for which a confirmation checked a code
  acceptes    \* history: codes accepted since the start

vars == <<heure, base, exige, dernier, req, etapes, prouves, acceptes>>
historique == <<prouves, acceptes>>

Libre == [pc |-> "libre", porte |-> "portail", forme |-> "vide", code |-> Aucun,
          pas |-> 0, secret |-> Aucun, exige |-> FALSE, jeton |-> {},
          actifTenu |-> FALSE, exigeTenu |-> FALSE]

Demandes ==
  [pc : Onglets \cup {"libre", "exigence", "valider", "consommer", "accepte"},
   porte : PortesMFA, forme : Formes, code : Secrets \cup {Aucun}, pas : Heures,
   secret : Secrets \cup {Aucun}, exige : BOOLEAN, jeton : SUBSET Jetons,
   actifTenu : BOOLEAN, exigeTenu : BOOLEAN]
Lignes == [secret : Secrets \cup {Aucun}, actif : BOOLEAN, compteur : Heures \cup {Jamais}]

TypeOK ==
  /\ heure \in Heures
  /\ base \in Lignes
  /\ exige \in BOOLEAN
  /\ dernier \in 0..MaxSecrets
  /\ req \in [Requetes -> Demandes]
  /\ etapes \in [Jetons -> {Absente} \cup 0..(MaxEssais - 1)]
  /\ prouves \subseteq Secrets
  /\ acceptes \subseteq (Secrets \X Heures)

Init ==
  /\ heure = 0
  /\ base = [secret |-> Aucun, actif |-> FALSE, compteur |-> Jamais]
  /\ exige \in BOOLEAN
  /\ dernier = 0
  /\ req = [r \in Requetes |-> Libre]
  /\ etapes = [t \in Jetons |-> Absente]
  /\ prouves = {} /\ acceptes = {}

-----------------------------------------------------------------------------
Horloge ==
  /\ heure < MaxHeure
  /\ heure' = heure + 1
  /\ UNCHANGED <<base, exige, dernier, req, etapes, historique>>

(* totp.Validate: the code of a step of the window around now.             *)
Valide(secret, q) ==
  /\ q.forme = "code" /\ q.code = secret /\ secret # Aucun
  /\ q.pas - heure \in (-SkewSteps)..SkewSteps

(* What has held without interruption since each request began.            *)
Observe(reqs, b, e) ==
  [q \in Requetes |-> [reqs[q] EXCEPT !.actifTenu = @ /\ b.actif, !.exigeTenu = @ /\ e]]

Demande(pc, porte, s) ==
  [pc |-> pc, porte |-> porte, forme |-> s.forme, code |-> s.secret, pas |-> s.pas,
   secret |-> IF base.actif THEN base.secret ELSE Aucun,
   exige |-> exige /\ pc \in Onglets,
   jeton |-> {}, actifTenu |-> base.actif, exigeTenu |-> exige]

SansSaisie == [forme |-> "vide", secret |-> Aucun, pas |-> 0]

-----------------------------------------------------------------------------
(* The page /profil/mfa. ProfilMFAHandler reads the state and the          *)
(* requirement at its top and works on these copies.                       *)
LireProfil(r, geste, s) ==
  /\ req[r].pc = "libre"
  /\ UnSeulOnglet => \A q \in Requetes : req[q].pc \notin Onglets
  /\ geste \in {"start", "confirm", "disable"}
  /\ geste = "start" => ~base.actif
  /\ req' = [req EXCEPT ![r] = Demande(geste, "portail", s)]
  /\ UNCHANGED <<heure, base, exige, dernier, etapes, historique>>

(* Mutant of StartMFAEnrollment. *)
StartMFAEnrollment_sansBorne(r) ==
  /\ req[r].pc = "start"
  /\ dernier' = dernier + 1
  /\ base' = [secret |-> dernier + 1, actif |-> FALSE, compteur |-> base.compteur]
  /\ req' = [req EXCEPT ![r] = Libre]
  /\ UNCHANGED <<heure, exige, etapes, prouves, acceptes>>

(* Mutant of StartMFAEnrollment. *)
StartMFAEnrollment_dUnGeste(r) ==
  /\ req[r].pc = "start"
  /\ dernier < MaxSecrets
  /\ dernier' = dernier + 1
  /\ base' = [secret |-> dernier + 1, actif |-> TRUE, compteur |-> Jamais]
  /\ req' = [req EXCEPT ![r] = Libre]
  /\ UNCHANGED <<heure, exige, etapes, historique>>

StartMFAEnrollment(r) ==
  /\ req[r].pc = "start"
  /\ dernier < MaxSecrets
  /\ dernier' = dernier + 1
  /\ IF base.actif
       THEN UNCHANGED base
       ELSE base' = [secret |-> dernier + 1, actif |-> FALSE, compteur |-> Jamais]
  /\ req' = [req EXCEPT ![r] = Libre]
  /\ UNCHANGED <<heure, exige, etapes, prouves, acceptes>>

(* action=confirm: the secret is read again, the code checked against it.  *)
Confirmer(r) ==
  /\ req[r].pc = "confirm"
  /\ IF Valide(base.secret, req[r])
       THEN /\ req' = [req EXCEPT ![r].pc = "activer"]
            /\ prouves' = prouves \cup {base.secret}
       ELSE /\ req' = [req EXCEPT ![r] = Libre]
            /\ UNCHANGED prouves
  /\ UNCHANGED <<heure, base, exige, dernier, etapes, acceptes>>

(* Mutant of ActivateMFA. *)
ActivateMFA_sansCompteur(r) ==
  /\ req[r].pc = "activer"
  /\ req' = [req EXCEPT ![r] = Libre]
  /\ IF base.secret # Aucun /\ ~base.actif
       THEN /\ base' = [secret |-> base.secret, actif |-> TRUE, compteur |-> Jamais]
            /\ acceptes' = acceptes \cup {<<req[r].code, req[r].pas>>}
       ELSE UNCHANGED <<base, acceptes>>
  /\ UNCHANGED <<heure, exige, dernier, etapes, prouves>>

ActivateMFA(r) ==
  /\ req[r].pc = "activer"
  /\ req' = [req EXCEPT ![r] = Libre]
  /\ IF base.secret # Aucun /\ ~base.actif
       THEN /\ base' = [secret |-> base.secret, actif |-> TRUE, compteur |-> req[r].pas]
            /\ acceptes' = acceptes \cup {<<req[r].code, req[r].pas>>}
       ELSE UNCHANGED <<base, acceptes>>
  /\ UNCHANGED <<heure, exige, dernier, etapes, prouves>>

SansSecret == [secret |-> Aucun, actif |-> FALSE, compteur |-> Jamais]

(* ResetMFA writes without a condition.                                    *)
Effacer(reqs) ==
  /\ base' = SansSecret
  /\ req' = Observe(reqs, SansSecret, exige)
  /\ UNCHANGED <<heure, exige, dernier, etapes, prouves, acceptes>>

(* action=disable, the password proved: the copy of the requirement decides. *)
Desactiver(r) ==
  /\ req[r].pc = "disable"
  /\ ~req[r].exige
  /\ Effacer([req EXCEPT ![r] = Libre])

ResetMFA == base # SansSecret /\ Effacer(req)

SetGroupMFARequired(e) ==
  /\ e # exige
  /\ exige' = e
  /\ req' = Observe(req, base, e)
  /\ UNCHANGED <<heure, base, dernier, etapes, historique>>

-----------------------------------------------------------------------------
(* The doors. First statement: GetAuthState.                               *)
Presenter(r, porte, s) ==
  /\ req[r].pc = "libre"
  /\ porte \in PortesMFA \ {"portail"}
  /\ s.forme = "code" \/ porte = "ssh" \/ s = SansSaisie
  /\ req' = [req EXCEPT ![r] = Demande("exigence", porte, s)]
  /\ UNCHANGED <<heure, base, exige, dernier, etapes, historique>>

(* startSecondFactor, the password proved.                                 *)
StartSecondFactor(r) ==
  /\ req[r].pc = "libre"
  /\ IF base.actif /\ base.secret # Aucun
       THEN /\ \E t \in Jetons :
                 etapes[t] = Absente /\ etapes' = [etapes EXCEPT ![t] = 0]
            /\ UNCHANGED req
       ELSE /\ req' = [req EXCEPT ![r] = Demande("exigence", "portail", SansSaisie)]
            /\ UNCHANGED etapes
  /\ UNCHANGED <<heure, base, exige, dernier, historique>>

(* What each door decides from what it has read: "libre" is a refusal.     *)
Actif(q) == q.secret # Aucun

DeciderSecondFacteur(q, e) ==
  CASE Actif(q) /\ q.forme \in {"absent", "vide"} -> "libre"
    [] Actif(q) /\ q.forme \in {"zero", "code"} -> "valider"
    [] ~Actif(q) /\ e -> "libre"
    [] ~Actif(q) /\ ~e /\ q.forme = "absent" -> IF ExigenceDucky THEN "libre" ELSE "accepte"
    [] ~Actif(q) /\ ~e /\ q.forme = "code" -> "libre"
    [] ~Actif(q) /\ ~e /\ q.forme \in {"zero", "vide"} -> "accepte"

(* Mutant of DeciderService. *)
DeciderService_sansExigence(q, e) ==
  IF Actif(q) /\ q.forme = "code" THEN "valider" ELSE "accepte"

DeciderService(q, e) ==
  CASE Actif(q) -> IF q.forme = "code" THEN "valider" ELSE "libre"
    [] ~Actif(q) -> IF e THEN "libre" ELSE "accepte"

Lie(q, e) == (Actif(q) \/ e) /\ ~MFABypass
DeciderLDAP(q, e) ==
  CASE Lie(q, e) -> IF Actif(q) /\ q.forme = "code" THEN "valider" ELSE "libre"
    [] ~Lie(q, e) -> "accepte"

Decision(q, e) ==
  CASE q.porte = "ssh" -> DeciderSecondFacteur(q, e)
    [] q.porte = "service" -> DeciderService(q, e)
    [] q.porte = "ldap" -> DeciderLDAP(q, e)
    [] q.porte = "portail" -> "accepte"  \* with /profil/mfa still to be visited

(* Accepted: what was typed no longer matters.                             *)
Accepte(q) == [q EXCEPT !.pc = "accepte", !.forme = "vide", !.code = Aucun,
                        !.pas = 0, !.jeton = {}]

(* IsMFARequired: a failed read answers "required"; the bind refuses.      *)
LireExigence(r) ==
  /\ req[r].pc = "exigence"
  /\ \E lue \in {exige, TRUE} :
       req' = [req EXCEPT ![r] =
                 IF Decision(req[r], lue) = "libre" THEN Libre
                 ELSE IF Decision(req[r], lue) = "accepte" THEN Accepte(req[r])
                 ELSE [req[r] EXCEPT !.pc = "valider"]]
  /\ UNCHANGED <<heure, base, exige, dernier, etapes, historique>>

(* MFAPageHandler, a POST: the step must still be there, then GetAuthState. *)
MFAPage(r, t, s) ==
  /\ req[r].pc = "libre"
  /\ etapes[t] # Absente
  /\ IF base.actif /\ base.secret # Aucun
       THEN /\ req' = [req EXCEPT ![r] = [Demande("valider", "portail", s) EXCEPT !.jeton = {t}]]
            /\ UNCHANGED etapes
       ELSE /\ etapes' = [etapes EXCEPT ![t] = Absente]   \* DeletePending
            /\ UNCHANGED req
  /\ UNCHANGED <<heure, base, exige, dernier, historique>>

(* RegisterFailedMFA: the last permitted failure removes the step.         *)
RegisterFailedMFA(jeton) ==
  etapes' = [t \in Jetons |->
    IF t \notin jeton \/ etapes[t] = Absente THEN etapes[t]
    ELSE IF etapes[t] + 1 >= MaxEssais THEN Absente ELSE etapes[t] + 1]

Valider(r) ==
  /\ req[r].pc = "valider"
  /\ IF Valide(req[r].secret, req[r])
       THEN /\ req' = [req EXCEPT ![r].pc = "consommer"]
            /\ UNCHANGED etapes
       ELSE /\ req' = [req EXCEPT ![r] = Libre]
            /\ RegisterFailedMFA(req[r].jeton)
  /\ UNCHANGED <<heure, base, exige, dernier, historique>>

(* Mutant of Consommable. *)
Consommable_egal(pas) == base.compteur = Jamais \/ base.compteur <= pas
(* The condition of the UPDATE.                                            *)
Consommable(pas) == base.compteur = Jamais \/ base.compteur < pas

ConsumeMFACounter(r) ==
  /\ req[r].pc = "consommer"
  /\ IF Consommable(req[r].pas)
       THEN /\ base' = [secret |-> base.secret, actif |-> base.actif, compteur |-> req[r].pas]
            /\ req' = [req EXCEPT ![r] = Accepte(req[r])]
            /\ etapes' = [t \in Jetons |-> IF t \in req[r].jeton THEN Absente ELSE etapes[t]]
            /\ acceptes' = acceptes \cup {<<req[r].code, req[r].pas>>}
       ELSE /\ req' = [req EXCEPT ![r] = Libre]
            /\ RegisterFailedMFA(req[r].jeton)
            /\ UNCHANGED <<base, acceptes>>
  /\ UNCHANGED <<heure, exige, dernier, prouves>>

(* The answer is sent, or a statement failed and the request is refused.   *)
Repondre(r) ==
  /\ req[r].pc # "libre"
  /\ req' = [req EXCEPT ![r] = Libre]
  /\ UNCHANGED <<heure, base, exige, dernier, etapes, historique>>

(* pendingDuration has passed, or another handler removed the step.        *)
ExpirerEtape(t) ==
  /\ etapes[t] # Absente
  /\ etapes' = [etapes EXCEPT ![t] = Absente]
  /\ UNCHANGED <<heure, base, exige, dernier, req, historique>>

(* What may be typed: a code of a secret shown so far, a wrong one, none.  *)
CodesTapes ==
  {[forme |-> f, secret |-> Aucun, pas |-> 0] : f \in Formes}
  \cup {[forme |-> "code", secret |-> s, pas |-> p] : s \in 1..dernier, p \in Heures}

EtapeR(r) ==
  \/ \E g \in {"start", "confirm", "disable"}, s \in CodesTapes :
       (g = "confirm" \/ s = SansSaisie) /\ LireProfil(r, g, s)
  \/ StartMFAEnrollment(r) \/ Confirmer(r) \/ ActivateMFA(r) \/ Desactiver(r)
  \/ \E p \in PortesMFA, s \in CodesTapes : Presenter(r, p, s)
  \/ StartSecondFactor(r) \/ LireExigence(r)
  \/ \E t \in Jetons, s \in CodesTapes : MFAPage(r, t, s)
  \/ Valider(r) \/ ConsumeMFACounter(r) \/ Repondre(r)

Next ==
  \/ Horloge \/ ResetMFA
  \/ \E e \in BOOLEAN : SetGroupMFARequired(e)
  \/ \E r \in Requetes : EtapeR(r)
  \/ \E t \in Jetons : ExpirerEtape(t)

Spec == Init /\ [][Next]_vars

-----------------------------------------------------------------------------
(* The steps whose code of the secret in force was accepted.               *)
Uses == {p \in Heures : <<base.secret, p>> \in acceptes}

(* A request that is accepted with a code of the secret in force uses a    *)
(* later step than every one accepted before it for that secret, whatever  *)
(* the doors and the requests (ConsumeMFACounter decides and writes in one *)
(* UPDATE).                                                                *)
AccepteUneFois ==
  \A r \in Requetes :
    req[r].pc = "consommer" /\ req'[r].pc = "accepte" /\ req[r].secret = base.secret
      => \A p \in Uses : p < req[r].pas
CodeConsommeUneFois == [][AccepteUneFois]_vars

(* An active factor has a secret, and no code of it that was accepted can  *)
(* be used again, the one that activated it included (activate_mfa.go:11:  *)
(* consumed by the same statement).                                        *)
ActifConsomme ==
  base.actif => /\ base.secret # Aucun
                /\ Uses # {}
                /\ \A p \in Uses : p <= base.compteur

(* No door lets a request pass without a code when the factor was active,  *)
(* or required by a group, all along the request (the portal excepted: it  *)
(* opens the session that leads to the enrolment).                         *)
SansCode(q) == q.pc = "accepte" /\ q.secret = Aucun
PasseSansCode ==
  \A r \in Requetes :
    SansCode(req[r]) /\ ~MFABypass =>
      /\ ~req[r].actifTenu
      /\ req[r].porte # "portail" => ~req[r].exigeTenu

(* start_mfaenrollment.go:11: mfa_enabled stays false until the user has   *)
(* proved that he can produce a code of that secret.                       *)
SecretProuve == base.actif => base.secret \in prouves

(* serviceauth/handler.go:203: a code seen on a screen is used once, on    *)
(* all the doors.                                                          *)
CodeNeuf ==
  \A r \in Requetes :
    req[r].pc = "consommer" /\ req'[r].pc = "accepte"
      => <<req[r].code, req[r].pas>> \notin acceptes
CodeUneSeuleFois == [][CodeNeuf]_vars

(* web_profil_mfa.go:174: a factor required by a group is not removed by   *)
(* its owner.                                                              *)
RetraitLibre ==
  \A r \in Requetes :
    req[r].pc = "disable" /\ req'[r].pc = "libre" /\ base.actif /\ ~base'.actif
      => ~exige
RetraitRefuse == [][RetraitLibre]_vars
=============================================================================
