----------------------------- MODULE Portes_proof -----------------------------
(***************************************************************************)
(* Proofs about the doors of the core, for every number of requests, of    *)
(* tokens, of passwords and of secrets and every choice of doors: the lock *)
(* closes them all, a session with a password to be changed serves nothing *)
(* else before (Portes), and a factor that is active is asked for and each *)
(* of its codes accepted once (SecondFacteur).                             *)
(***************************************************************************)
EXTENDS MCPortes, TLAPS

(***************************************************************************)
(* The doors.                                                              *)
(***************************************************************************)
UneReq == [pc : Pcs, presente : Versions, jeton : SUBSET Jetons, sous : BOOLEAN,
           oblige : BOOLEAN, contrainte : BOOLEAN, aEnroler : BOOLEAN]
UnCompte == [version : Versions, auteur : Auteurs, provisoire : BOOLEAN,
             facteur : BOOLEAN, exige : BOOLEAN]

(* A request that began under the lock has not got past a look at it; one  *)
(* that began with a password to be changed carries the constraint to the  *)
(* session it opens. v: the lock; p: the password is to be changed.        *)
Suivie(q, v, p) ==
  /\ q.sous => v /\ q.pc \in {"pam.verrou", "ducky.ouvrir"}
  /\ ~Pannes => /\ q.oblige => p
                /\ q.pc = "web.ouvrir" /\ q.oblige => q.contrainte

ReqSures == /\ req \in [Requetes -> UneReq]
            /\ \A r \in Requetes : Suivie(req[r], verrou, compte.provisoire)

(* A store holds nothing opened under the lock, nor anything from before   *)
(* the lock once its loop of killSessions has run.                         *)
SessionSure(s, close) ==
  /\ ~s.acces.sous /\ (close => ~s.acces.avant)
  /\ ~Pannes => (s.obligee => s.contrainte /\ ~s.servie)
AccesSur(a, close) == ~a.sous /\ (close => ~a.avant)

Cadre == verrou \in BOOLEAN /\ coupure \subseteq Etapes /\ compte \in UnCompte
SessionsSures == /\ sessions \in [Jetons -> Sessions]
                 /\ \A t \in Jetons : SessionSure(sessions[t], "web" \notin coupure)
EtapesSures == /\ etapes \in [Jetons -> Acces]
               /\ \A t \in Jetons : AccesSur(etapes[t], "etapes" \notin coupure)
PamSur == pam \in Acces /\ AccesSur(pam, "pam" \notin coupure)
DuckySur == ducky \in Acces /\ ("ducky" \notin coupure => ~ducky.avant)
LdapSur == ldap \in Acces /\ ~ldap.sous
DefiSur == defi \in Acces /\ ~defi.sous

IInv == /\ Cadre /\ ReqSures /\ SessionsSures /\ EtapesSures
        /\ PamSur /\ DuckySur /\ LdapSur /\ DefiSur

-----------------------------------------------------------------------------
(* What a step leaves alone stays as it was.                               *)
LEMMA Reste ==
  ASSUME IInv
  PROVE  /\ UNCHANGED <<verrou, coupure, compte>> => Cadre'
         /\ UNCHANGED <<verrou, compte, req>> => ReqSures'
         /\ sessions' = sessions /\ ("web" \in coupure => "web" \in coupure') => SessionsSures'
         /\ etapes' = etapes /\ ("etapes" \in coupure => "etapes" \in coupure') => EtapesSures'
         /\ pam' = pam /\ ("pam" \in coupure => "pam" \in coupure') => PamSur'
         /\ ducky' = ducky /\ ("ducky" \in coupure => "ducky" \in coupure') => DuckySur'
         /\ ldap' = ldap => LdapSur'
         /\ defi' = defi => DefiSur'
<1>1. UNCHANGED <<verrou, coupure, compte>> => Cadre'
  BY DEF IInv, Cadre
<1>2. UNCHANGED <<verrou, compte, req>> => ReqSures'
  BY DEF IInv, ReqSures
<1>3. sessions' = sessions /\ ("web" \in coupure => "web" \in coupure') => SessionsSures'
  BY DEF IInv, SessionsSures, SessionSure
<1>4. etapes' = etapes /\ ("etapes" \in coupure => "etapes" \in coupure') => EtapesSures'
  BY DEF IInv, EtapesSures, AccesSur
<1>5. pam' = pam /\ ("pam" \in coupure => "pam" \in coupure') => PamSur'
  BY DEF IInv, PamSur, AccesSur
<1>6. ducky' = ducky /\ ("ducky" \in coupure => "ducky" \in coupure') => DuckySur'
  BY DEF IInv, DuckySur
<1>7. (ldap' = ldap => LdapSur') /\ (defi' = defi => DefiSur')
  BY DEF IInv, LdapSur, DefiSur
<1> QED BY <1>1, <1>2, <1>3, <1>4, <1>5, <1>6, <1>7

(* A step of a request that opens and closes nothing.                      *)
LEMMA ReqSeule ==
  ASSUME IInv, ReqSures', UNCHANGED <<verrou, coupure, compte, ouvertures>> PROVE IInv'
<1>1. /\ UNCHANGED <<verrou, coupure, compte>>
      /\ UNCHANGED <<sessions, etapes, defi, ducky, pam, ldap>>
  BY DEF ouvertures
<1> QED BY <1>1, Reste DEF IInv

(* Nothing is open in an empty place.                                      *)
LEMMA RienSur ==
  /\ Rien \in Acces /\ ~Rien.ouvert /\ ~Rien.sous /\ ~Rien.avant
  /\ SansSession \in Sessions /\ \A close \in BOOLEAN : SessionSure(SansSession, close)
<1>1. 1 \in Versions
  BY PortesAssumption DEF Versions
<1>2. Rien \in Acces /\ ~Rien.ouvert /\ ~Rien.sous /\ ~Rien.avant
  BY <1>1 DEF Rien, Acces
<1>3. /\ SansSession \in Sessions /\ SansSession.acces = Rien
      /\ ~SansSession.obligee
  BY <1>2 DEF SansSession, Sessions
<1> QED BY <1>2, <1>3 DEF SessionSure

-----------------------------------------------------------------------------
(* The requests.                                                           *)

(* The request of one goroutine is replaced.                               *)
LEMMA ReqEcrite ==
  ASSUME ReqSures, UNCHANGED <<verrou, compte>>, NEW r \in Requetes, NEW q \in UneReq,
         Suivie(q, verrou, compte.provisoire), req' = [req EXCEPT ![r] = q]
  PROVE  ReqSures'
<1>1. /\ req' \in [Requetes -> UneReq] /\ req'[r] = q
      /\ \A p \in Requetes : p # r => req'[p] = req[p]
  BY DEF ReqSures
<1> QED BY <1>1 DEF ReqSures

LEMMA LibreSuivi ==
  /\ Libre \in UneReq /\ ~Libre.sous /\ ~Libre.oblige /\ Libre.pc = "libre"
  /\ \A v, p \in BOOLEAN : Suivie(Libre, v, p)
<1>1. 1 \in Versions
  BY PortesAssumption DEF Versions
<1>2. Libre \in UneReq /\ ~Libre.sous /\ ~Libre.oblige /\ Libre.pc = "libre"
  BY <1>1 DEF Libre, UneReq, Pcs
<1> QED BY <1>2 DEF Suivie

LEMMA ReqRefusee ==
  ASSUME Cadre, ReqSures, UNCHANGED <<verrou, compte>>, NEW r \in Requetes, Refuser(r)
  PROVE  ReqSures'
<1>1. verrou \in BOOLEAN /\ compte.provisoire \in BOOLEAN
  BY DEF Cadre, UnCompte
<1>2. req' = [req EXCEPT ![r] = Libre]
  BY DEF Refuser
<1> QED BY <1>1, <1>2, LibreSuivi, ReqEcrite

(* Outside of two places no request that began under the lock is alive.    *)
LEMMA PasSous ==
  ASSUME ReqSures, NEW r \in Requetes, req[r].pc \notin {"pam.verrou", "ducky.ouvrir"}
  PROVE  ~req[r].sous
BY DEF ReqSures, Suivie

LEMMA ReqAvancee ==
  ASSUME ReqSures, UNCHANGED <<verrou, compte>>, NEW r \in Requetes, ~req[r].sous,
         NEW pc \in Pcs, pc # "web.ouvrir", Aller(r, pc)
  PROVE  ReqSures'
<1> DEFINE q == [req[r] EXCEPT !.pc = pc]
<1>1. req[r] \in UneReq /\ Suivie(req[r], verrou, compte.provisoire)
  BY DEF ReqSures
<1>2. req' = [req EXCEPT ![r] = q]
  BY <1>1 DEF Aller
<1>3. q \in UneReq /\ q.pc = pc /\ q.sous = req[r].sous /\ q.oblige = req[r].oblige
  BY <1>1 DEF UneReq
<1> HIDE DEF q
<1>4. Suivie(q, verrou, compte.provisoire)
  BY <1>1, <1>3 DEF Suivie
<1> QED BY <1>2, <1>3, <1>4, ReqEcrite

LEMMA ReqCommencee ==
  ASSUME Cadre, ReqSures, UNCHANGED <<verrou, compte>>, NEW r \in Requetes,
         NEW pc \in Pcs, pc # "web.ouvrir", NEW v \in Versions,
         ~verrou \/ pc \in {"pam.verrou", "ducky.ouvrir"}, Commencer(r, pc, v)
  PROVE  ReqSures'
<1> DEFINE q == [Libre EXCEPT !.pc = pc, !.presente = v, !.sous = verrou,
                              !.oblige = compte.provisoire]
<1>1. req' = [req EXCEPT ![r] = q]
  BY DEF Commencer
<1>2. verrou \in BOOLEAN /\ compte.provisoire \in BOOLEAN
  BY DEF Cadre, UnCompte
<1>3. q \in UneReq /\ q.pc = pc /\ q.sous = verrou /\ q.oblige = compte.provisoire
  BY <1>2, LibreSuivi DEF UneReq
<1> HIDE DEF q
<1>4. Suivie(q, verrou, compte.provisoire)
  BY <1>3 DEF Suivie
<1> QED BY <1>1, <1>3, <1>4, ReqEcrite

LEMMA OuvertSur ==
  ASSUME ReqSures, NEW r \in Requetes
  PROVE  /\ Ouvert(r) \in Acces /\ Ouvert(r).ouvert /\ ~Ouvert(r).avant
         /\ Ouvert(r).sous = req[r].sous
<1>1. req[r] \in UneReq
  BY DEF ReqSures
<1>2. req[r].presente \in Versions /\ req[r].sous \in BOOLEAN
  BY <1>1 DEF UneReq
<1> QED BY <1>2 DEF Ouvert, Acces

-----------------------------------------------------------------------------
(* The portal.                                                             *)

LEMMA PasReqWeb ==
  ASSUME IInv, NEW r \in Requetes,
         \/ \E v \in Versions : LoginHandler(r, v)
         \/ MotDePasseWeb(r) \/ CodeFaux(r) \/ finishLogin(r)
  PROVE  IInv'
<1>1. Cadre /\ ReqSures /\ verrou \in BOOLEAN /\ req[r] \in UneReq
  BY DEF IInv, Cadre, ReqSures
<1>2. UNCHANGED <<verrou, coupure, compte, ouvertures>>
  BY DEF LoginHandler, MotDePasseWeb, CodeFaux, finishLogin
<1>3. ASSUME NEW v \in Versions, LoginHandler(r, v) PROVE ReqSures'
  <2>1. "web.mdp" \in Pcs
    BY DEF Pcs, PcWeb
  <2> QED BY <1>1, <1>2, <1>3, <2>1, ReqCommencee DEF LoginHandler, IsRevoked
<1>4. CASE MotDePasseWeb(r)
  <2>1. "web.facteur" \in Pcs
    BY DEF Pcs, PcWeb
  <2>2. ~req[r].sous /\ (Aller(r, "web.facteur") \/ Refuser(r))
    BY <1>1, <1>4, PasSous DEF MotDePasseWeb, VerifierMotDePasse
  <2>3. ReqSures'
    BY <1>1, <1>2, <2>1, <2>2, ReqAvancee, ReqRefusee
  <2> QED BY <1>2, <2>3, ReqSeule
<1>5. CASE CodeFaux(r)
  <2>1. ReqSures'
    BY <1>1, <1>2, <1>5, ReqRefusee DEF CodeFaux
  <2> QED BY <1>2, <2>1, ReqSeule
<1>6. CASE finishLogin(r)
  <2>1. PICK c \in {compte.provisoire} \cup (IF Pannes THEN {FALSE} ELSE {}) :
               req' = [req EXCEPT ![r].pc = "web.ouvrir", ![r].contrainte = c]
    BY <1>6 DEF finishLogin
  <2>2. c \in BOOLEAN /\ (~Pannes => c = compte.provisoire)
    BY <1>1, PortesAssumption DEF Cadre, UnCompte
  <2> DEFINE q == [req[r] EXCEPT !.pc = "web.ouvrir", !.contrainte = c]
  <2>3. req' = [req EXCEPT ![r] = q]
    BY <1>1, <2>1
  <2>4. /\ q \in UneReq /\ q.pc = "web.ouvrir" /\ q.contrainte = c
        /\ q.sous = req[r].sous /\ q.oblige = req[r].oblige
    BY <1>1, <2>2 DEF UneReq, Pcs, PcWeb
  <2> HIDE DEF q
  <2>5. ~req[r].sous /\ Suivie(req[r], verrou, compte.provisoire)
    BY <1>1, <1>6, PasSous DEF finishLogin, ReqSures
  <2>6. Suivie(q, verrou, compte.provisoire)
    BY <2>2, <2>4, <2>5 DEF Suivie
  <2>7. ReqSures'
    BY <1>1, <1>2, <2>3, <2>4, <2>6, ReqEcrite
  <2> QED BY <1>2, <2>7, ReqSeule
<1> QED BY <1>2, <1>3, <1>4, <1>5, <1>6, ReqSeule

LEMMA PasEtapes ==
  ASSUME IInv, NEW r \in Requetes,
         startSecondFactor(r) \/ ConsommerCode(r) \/ \E t \in Jetons : MFAPageHandler(r, t)
  PROVE  IInv'
<1>1. /\ Cadre /\ ReqSures /\ EtapesSures /\ verrou \in BOOLEAN /\ compte.provisoire \in BOOLEAN
      /\ req[r] \in UneReq /\ Suivie(req[r], verrou, compte.provisoire)
      /\ compte \in UnCompte /\ etapes \in [Jetons -> Acces]
  BY DEF IInv, Cadre, ReqSures, EtapesSures, UnCompte
<1>2. UNCHANGED <<verrou, coupure, compte, sessions, defi, ducky, pam, ldap>>
  BY DEF startSecondFactor, ConsommerCode, MFAPageHandler
<1>3. ReqSures' /\ EtapesSures' => IInv'
  BY <1>2, Reste DEF IInv
<1>4. CASE startSecondFactor(r)
  <2>0. ~req[r].sous
    BY <1>1, <1>4, PasSous DEF startSecondFactor
  <2>1. ASSUME NEW t \in Jetons, CreatePending(r, t), Refuser(r) PROVE ReqSures' /\ EtapesSures'
    <3>1. Ouvert(r) \in Acces /\ ~Ouvert(r).sous /\ ~Ouvert(r).avant
      BY <1>1, <2>0, OuvertSur
    <3>2. etapes' = [etapes EXCEPT ![t] = Ouvert(r)]
      BY <2>1 DEF CreatePending
    <3>3. EtapesSures'
      BY <1>1, <1>2, <3>1, <3>2 DEF EtapesSures, AccesSur
    <3> QED BY <1>1, <1>2, <2>1, <3>3, ReqRefusee
  <2>2. ASSUME req' = [req EXCEPT ![r].pc = "web.fin", ![r].aEnroler = compte.exige],
               UNCHANGED etapes
        PROVE  ReqSures' /\ EtapesSures'
    <3> DEFINE e == compte.exige
               q == [req[r] EXCEPT !.pc = "web.fin", !.aEnroler = e]
    <3>1. e \in BOOLEAN
      BY <1>1 DEF UnCompte
    <3>2. req' = [req EXCEPT ![r] = q]
      BY <1>1, <2>2
    <3> HIDE DEF e
    <3>3. q \in UneReq /\ q.pc = "web.fin" /\ q.sous = req[r].sous /\ q.oblige = req[r].oblige
      BY <1>1, <3>1 DEF UneReq, Pcs, PcWeb
    <3> HIDE DEF q
    <3>4. Suivie(q, verrou, compte.provisoire)
      BY <1>1, <2>0, <3>3 DEF Suivie
    <3> QED BY <1>1, <1>2, <2>2, <3>2, <3>3, <3>4, ReqEcrite, Reste
  <2> QED BY <1>3, <1>4, <2>1, <2>2 DEF startSecondFactor
<1>5. CASE ConsommerCode(r)
  <2>0. ~req[r].sous
    BY <1>1, <1>5, PasSous DEF ConsommerCode
  <2>1. etapes' = [t \in Jetons |-> IF t \in req[r].jeton THEN Rien ELSE etapes[t]]
    BY <1>5 DEF ConsommerCode
  <2>2. EtapesSures'
    BY <1>1, <1>2, <2>1, RienSur DEF EtapesSures, AccesSur
  <2>3. ASSUME req' = [req EXCEPT ![r].pc = "web.fin", ![r].jeton = {}] PROVE ReqSures'
    <3> DEFINE q == [req[r] EXCEPT !.pc = "web.fin", !.jeton = {}]
    <3>2. req' = [req EXCEPT ![r] = q]
      BY <1>1, <2>3
    <3>3. q \in UneReq /\ q.pc = "web.fin" /\ q.sous = req[r].sous /\ q.oblige = req[r].oblige
      BY <1>1 DEF UneReq, Pcs, PcWeb
    <3> HIDE DEF q
    <3>4. Suivie(q, verrou, compte.provisoire)
      BY <1>1, <2>0, <3>3 DEF Suivie
    <3> QED BY <1>1, <1>2, <3>2, <3>3, <3>4, ReqEcrite
  <2>4. ReqSures'
    BY <1>1, <1>2, <1>5, <2>3, ReqRefusee DEF ConsommerCode
  <2> QED BY <1>3, <2>2, <2>4
<1>6. ASSUME NEW t \in Jetons, MFAPageHandler(r, t) PROVE IInv'
  <2>1. CASE etapes' = [etapes EXCEPT ![t] = Rien] /\ UNCHANGED req
    <3>1. EtapesSures'
      BY <1>1, <1>2, <2>1, RienSur DEF EtapesSures, AccesSur
    <3> QED BY <1>2, <1>3, <2>1, <3>1, Reste
  <2>2. CASE /\ req' = [req EXCEPT ![r] = [Libre EXCEPT !.pc = "mfa.etat", !.jeton = {t},
                          !.presente = etapes[t].preuve, !.oblige = compte.provisoire]]
             /\ UNCHANGED etapes
    <3> DEFINE v == etapes[t].preuve
               p == compte.provisoire
               q == [Libre EXCEPT !.pc = "mfa.etat", !.jeton = {t}, !.presente = v, !.oblige = p]
    <3>1. v \in Versions /\ p \in BOOLEAN
      BY <1>1 DEF Acces
    <3>2. req' = [req EXCEPT ![r] = q]
      BY <2>2
    <3>3. p = compte.provisoire
      OBVIOUS
    <3> HIDE DEF v, p
    <3>4. q \in UneReq /\ q.pc = "mfa.etat" /\ ~q.sous /\ q.oblige = p
      BY <3>1, LibreSuivi DEF UneReq, Pcs, PcWeb
    <3> HIDE DEF q
    <3>5. Suivie(q, verrou, compte.provisoire)
      BY <3>3, <3>4 DEF Suivie
    <3> QED BY <1>1, <1>2, <1>3, <2>2, <3>2, <3>4, <3>5, ReqEcrite, Reste
  <2> QED BY <1>6, <2>1, <2>2 DEF MFAPageHandler
<1> QED BY <1>4, <1>5, <1>6

LEMMA PasSessions ==
  ASSUME IInv, NEW t \in Jetons,
         \/ \E r \in Requetes : CreateSessionWithConstraint(r, t)
         \/ ServirPage(t) \/ DeleteSession(t) \/ ExpirerEtape(t)
  PROVE  IInv'
<1>1. /\ Cadre /\ ReqSures /\ SessionsSures /\ EtapesSures
      /\ sessions \in [Jetons -> Sessions] /\ sessions[t] \in Sessions
      /\ SessionSure(sessions[t], "web" \notin coupure)
  BY DEF IInv, SessionsSures
<1>2. UNCHANGED <<verrou, coupure, compte, defi, ducky, pam, ldap>>
  BY DEF CreateSessionWithConstraint, ServirPage, DeleteSession, ExpirerEtape
<1>3. ASSUME NEW s \in Sessions, SessionSure(s, "web" \notin coupure),
             sessions' = [sessions EXCEPT ![t] = s]
      PROVE  SessionsSures'
  <2>1. /\ sessions' \in [Jetons -> Sessions] /\ sessions'[t] = s
        /\ \A u \in Jetons : u # t => sessions'[u] = sessions[u]
    BY <1>1, <1>3
  <2> QED BY <1>1, <1>2, <1>3, <2>1 DEF SessionsSures
<1>4. ASSUME NEW r \in Requetes, CreateSessionWithConstraint(r, t) PROVE IInv'
  <2> DEFINE a == Ouvert(r)
             s == [acces |-> a, contrainte |-> req[r].contrainte, obligee |-> req[r].oblige,
                   aEnroler |-> req[r].aEnroler, servie |-> FALSE]
  <2>1. sessions' = [sessions EXCEPT ![t] = s] /\ req[r].pc = "web.ouvrir"
    BY <1>4 DEF CreateSessionWithConstraint
  <2>2. req[r] \in UneReq /\ Suivie(req[r], verrou, compte.provisoire) /\ ~req[r].sous
    BY <1>1, <2>1, PasSous DEF ReqSures
  <2>3. a \in Acces /\ ~a.sous /\ ~a.avant
    BY <1>1, <2>2, OuvertSur
  <2> HIDE DEF a
  <2>4. /\ s \in Sessions /\ s.acces = a /\ s.obligee = req[r].oblige
        /\ s.contrainte = req[r].contrainte /\ s.servie = FALSE
    BY <2>2, <2>3 DEF Sessions, UneReq
  <2> HIDE DEF s
  <2>5. SessionSure(s, "web" \notin coupure)
    BY <2>1, <2>2, <2>3, <2>4 DEF SessionSure, Suivie
  <2>6. ReqSures' /\ UNCHANGED etapes
    BY <1>1, <1>2, <1>4, ReqRefusee DEF CreateSessionWithConstraint
  <2> QED BY <1>2, <1>3, <2>1, <2>4, <2>5, <2>6, Reste DEF IInv
<1>5. CASE ServirPage(t)
  <2> DEFINE s == [sessions[t] EXCEPT !.servie = TRUE]
  <2>1. sessions' = [sessions EXCEPT ![t] = s] /\ ~sessions[t].contrainte /\ UNCHANGED <<req, etapes>>
    BY <1>1, <1>5 DEF ServirPage, requireLogin
  <2>2. /\ s \in Sessions /\ s.acces = sessions[t].acces /\ s.obligee = sessions[t].obligee
        /\ s.contrainte = sessions[t].contrainte
    BY <1>1 DEF Sessions
  <2> HIDE DEF s
  <2>3. SessionSure(s, "web" \notin coupure)
    BY <1>1, <2>1, <2>2 DEF SessionSure
  <2> QED BY <1>2, <1>3, <2>1, <2>2, <2>3, Reste DEF IInv
<1>6. CASE DeleteSession(t)
  <2>1. sessions' = [sessions EXCEPT ![t] = SansSession] /\ UNCHANGED <<req, etapes>>
    BY <1>6 DEF DeleteSession
  <2>2. ("web" \notin coupure) \in BOOLEAN
    OBVIOUS
  <2>3. SansSession \in Sessions /\ SessionSure(SansSession, "web" \notin coupure)
    BY <2>2, RienSur
  <2> QED BY <1>2, <1>3, <2>1, <2>3, Reste DEF IInv
<1>7. CASE ExpirerEtape(t)
  <2>1. etapes' = [etapes EXCEPT ![t] = Rien] /\ UNCHANGED <<req, sessions>>
    BY <1>7 DEF ExpirerEtape
  <2>2. EtapesSures'
    BY <1>1, <1>2, <2>1, RienSur DEF EtapesSures, AccesSur
  <2> QED BY <1>2, <2>1, <2>2, Reste DEF IInv
<1> QED BY <1>4, <1>5, <1>6, <1>7

-----------------------------------------------------------------------------
(* ssh, LDAP and Ducky.                                                    *)

(* A door opened by a request that began before the lock.                  *)
LEMMA OuvertSansVerrou ==
  ASSUME IInv, NEW r \in Requetes, req[r].pc \notin {"pam.verrou", "ducky.ouvrir"}
  PROVE  Ouvert(r) \in Acces /\ ~Ouvert(r).sous /\ ~Ouvert(r).avant
BY PasSous, OuvertSur DEF IInv

LEMMA PasPam ==
  ASSUME IInv, NEW r \in Requetes,
         \/ \E v \in Versions : SSH_SEND_Pubkey_AUTH(r, v)
         \/ VerrouPAM(r) \/ RefuserPAM(r) \/ OuvrirSessionUtilisateur(r)
  PROVE  IInv'
<1>1. Cadre /\ ReqSures /\ verrou \in BOOLEAN
  BY DEF IInv, Cadre
<1>2. UNCHANGED <<verrou, coupure, compte>>
  BY DEF SSH_SEND_Pubkey_AUTH, VerrouPAM, RefuserPAM, OuvrirSessionUtilisateur
<1>3. ASSUME NEW v \in Versions, SSH_SEND_Pubkey_AUTH(r, v) PROVE IInv'
  <2>1. "pam.verrou" \in Pcs
    BY DEF Pcs, PcPam
  <2>2. ReqSures'
    BY <1>1, <1>2, <1>3, <2>1, ReqCommencee DEF SSH_SEND_Pubkey_AUTH
  <2> QED BY <1>3, <2>2, ReqSeule DEF SSH_SEND_Pubkey_AUTH
<1>4. CASE VerrouPAM(r)
  <2>1. "pam.ouvrir" \in Pcs
    BY DEF Pcs, PcPam
  <2>2. CASE Refuser(r)
    BY <1>1, <1>2, <1>4, <2>2, ReqRefusee, ReqSeule DEF VerrouPAM
  <2>3. CASE ~verrou /\ Aller(r, "pam.ouvrir")
    <3>1. ~req[r].sous
      BY <1>1, <2>3 DEF ReqSures, Suivie
    <3>2. ReqSures'
      BY <1>1, <1>2, <2>1, <2>3, <3>1, ReqAvancee
    <3> QED BY <1>4, <3>2, ReqSeule DEF VerrouPAM
  <2> QED BY <1>4, <2>2, <2>3 DEF VerrouPAM, IsRevoked
<1>5. CASE RefuserPAM(r)
  BY <1>1, <1>2, <1>5, ReqRefusee, ReqSeule DEF RefuserPAM
<1>6. CASE OuvrirSessionUtilisateur(r)
  <2>1. /\ pam' = Ouvert(r) /\ Refuser(r)
        /\ UNCHANGED <<sessions, etapes, defi, ducky, ldap>>
    BY <1>6 DEF OuvrirSessionUtilisateur
  <2>2. PamSur'
    BY <1>6, <2>1, OuvertSansVerrou DEF OuvrirSessionUtilisateur, PamSur, AccesSur
  <2>3. ReqSures'
    BY <1>1, <1>2, <2>1, ReqRefusee
  <2> QED BY <1>2, <2>1, <2>2, <2>3, Reste DEF IInv
<1> QED BY <1>3, <1>4, <1>5, <1>6

LEMMA PasFinPam == ASSUME IInv, SSH_Fin_De_Session PROVE IInv'
<1>1. /\ pam' = Rien
      /\ UNCHANGED <<verrou, coupure, compte, req, sessions, etapes, defi, ducky, ldap>>
  BY DEF SSH_Fin_De_Session
<1>2. PamSur'
  BY <1>1, RienSur DEF PamSur, AccesSur
<1> QED BY <1>1, <1>2, Reste DEF IInv

LEMMA PasLdap ==
  ASSUME IInv, NEW r \in Requetes,
         \/ \E v \in Versions : HandleBindRequest(r, v)
         \/ RefuserLDAP(r) \/ GetGroupIDsForUser(r) \/ MotDePasseLDAP(r) \/ SetBindInfo(r)
  PROVE  IInv'
<1>1. Cadre /\ ReqSures
  BY DEF IInv
<1>2. UNCHANGED <<verrou, coupure, compte, sessions, etapes, defi, ducky, pam>>
  BY DEF HandleBindRequest, RefuserLDAP, GetGroupIDsForUser, MotDePasseLDAP, SetBindInfo,
     ouvertures
<1>3. ReqSures' /\ LdapSur' => IInv'
  BY <1>2, Reste DEF IInv
<1>4. LdapSur /\ (ldap' = Rien => LdapSur') /\ (UNCHANGED ldap => LdapSur')
  BY RienSur DEF IInv, LdapSur
<1>5. {"ldap.groupes", "ldap.mdp", "ldap.lier"} \subseteq Pcs
  BY DEF Pcs, PcLdap
<1>6. ASSUME NEW v \in Versions, HandleBindRequest(r, v) PROVE IInv'
  <2>1. CASE ldap' = Rien /\ UNCHANGED req
    BY <1>2, <1>3, <1>4, <2>1, Reste
  <2>2. CASE ~verrou /\ Commencer(r, "ldap.groupes", v) /\ UNCHANGED ldap
    BY <1>1, <1>2, <1>3, <1>4, <1>5, <2>2, ReqCommencee
  <2> QED BY <1>6, <2>1, <2>2 DEF HandleBindRequest, IsRevoked
<1>7. CASE RefuserLDAP(r)
  BY <1>1, <1>2, <1>3, <1>4, <1>7, ReqRefusee DEF RefuserLDAP
<1>8. CASE GetGroupIDsForUser(r)
  <2>1. ~req[r].sous /\ Aller(r, "ldap.mdp") /\ UNCHANGED ldap
    BY <1>1, <1>8, PasSous DEF GetGroupIDsForUser, ouvertures
  <2> QED BY <1>1, <1>2, <1>3, <1>4, <1>5, <2>1, ReqAvancee
<1>9. CASE MotDePasseLDAP(r)
  <2>1. ~req[r].sous /\ Aller(r, "ldap.lier") /\ UNCHANGED ldap
    BY <1>1, <1>9, PasSous DEF MotDePasseLDAP, ouvertures
  <2> QED BY <1>1, <1>2, <1>3, <1>4, <1>5, <2>1, ReqAvancee
<1>10. CASE SetBindInfo(r)
  <2>1. ldap' = Ouvert(r) /\ Refuser(r)
    BY <1>10 DEF SetBindInfo
  <2>2. LdapSur'
    BY <1>10, <2>1, OuvertSansVerrou DEF SetBindInfo, LdapSur
  <2> QED BY <1>1, <1>2, <1>3, <2>1, <2>2, ReqRefusee
<1> QED BY <1>6, <1>7, <1>8, <1>9, <1>10

LEMMA PasDucky ==
  ASSUME IInv, NEW r \in Requetes,
         \/ \E v \in Versions : SendAuthRequest(r, v)
         \/ MotDePasseDucky(r) \/ storeAuth(r) \/ GetRandomAuthByAuthID(r) \/ CheckAuth(r)
  PROVE  IInv'
<1>1. Cadre /\ ReqSures /\ defi \in Acces
  BY DEF IInv, DefiSur
<1>2. UNCHANGED <<verrou, coupure, compte, sessions, etapes, pam, ldap>>
  BY DEF SendAuthRequest, MotDePasseDucky, storeAuth, GetRandomAuthByAuthID, CheckAuth,
     ouvertures
<1>3. ReqSures' /\ DefiSur' /\ DuckySur' => IInv'
  BY <1>2, Reste DEF IInv
<1>4. /\ defi' = Rien => DefiSur'
      /\ UNCHANGED defi => DefiSur'
      /\ UNCHANGED ducky => DuckySur'
  BY <1>2, RienSur, Reste DEF DefiSur
<1>5. {"ducky.mdp", "ducky.defi", "ducky.ouvrir"} \subseteq Pcs
  BY DEF Pcs, PcDucky
<1>6. ASSUME NEW v \in Versions, SendAuthRequest(r, v) PROVE IInv'
  <2>1. ~verrou /\ Commencer(r, "ducky.mdp", v) /\ UNCHANGED <<defi, ducky>>
    BY <1>6 DEF SendAuthRequest, IsRevoked, ouvertures
  <2> QED BY <1>1, <1>2, <1>3, <1>4, <1>5, <2>1, ReqCommencee
<1>7. CASE MotDePasseDucky(r)
  <2>1. /\ ~req[r].sous /\ UNCHANGED <<defi, ducky>>
        /\ Aller(r, "ducky.defi") \/ Refuser(r)
    BY <1>1, <1>7, PasSous DEF MotDePasseDucky, VerifierMotDePasse, ouvertures
  <2>2. ReqSures'
    BY <1>1, <1>2, <1>5, <2>1, ReqAvancee, ReqRefusee
  <2> QED BY <1>3, <1>4, <2>1, <2>2
<1>8. CASE storeAuth(r)
  <2>1. defi' = Ouvert(r) /\ Refuser(r) /\ UNCHANGED ducky
    BY <1>8 DEF storeAuth
  <2>2. DefiSur'
    BY <1>8, <2>1, OuvertSansVerrou DEF storeAuth, DefiSur
  <2> QED BY <1>1, <1>2, <1>3, <1>4, <2>1, <2>2, ReqRefusee
<1>9. CASE GetRandomAuthByAuthID(r)
  <2>1. /\ defi' = Rien /\ UNCHANGED ducky
        /\ Commencer(r, "ducky.ouvrir", defi.preuve) \/ UNCHANGED req
    BY <1>9 DEF GetRandomAuthByAuthID
  <2>2. defi.preuve \in Versions
    BY <1>1 DEF Acces
  <2>3. ReqSures'
    BY <1>1, <1>2, <1>5, <2>1, <2>2, ReqCommencee, Reste
  <2> QED BY <1>3, <1>4, <2>1, <2>3
<1>10. CASE CheckAuth(r)
  <2>1. ducky' = Ouvert(r) /\ Refuser(r) /\ UNCHANGED defi
    BY <1>10 DEF CheckAuth
  <2>2. DuckySur'
    BY <1>1, <2>1, OuvertSur DEF DuckySur
  <2> QED BY <1>1, <1>2, <1>3, <1>4, <2>1, <2>2, ReqRefusee
<1> QED BY <1>6, <1>7, <1>8, <1>9, <1>10

-----------------------------------------------------------------------------
(* The kill switch.                                                        *)

LEMMA DaterSur ==
  ASSUME NEW a \in Acces PROVE Dater(a) \in Acces /\ Dater(a).sous = a.sous
BY DEF Dater, Acces

LEMMA PasRevoquer == ASSUME IInv, Revoquer PROVE IInv'
<1>1. /\ verrou' = TRUE /\ coupure' = Etapes /\ UNCHANGED <<compte, req, defi, ldap>>
      /\ sessions' = [t \in Jetons |-> [sessions[t] EXCEPT !.acces = Dater(@)]]
      /\ etapes' = [t \in Jetons |-> Dater(etapes[t])]
      /\ ducky' = Dater(ducky) /\ pam' = Dater(pam)
  BY DEF Revoquer
<1>2. {"web", "etapes", "pam", "ducky"} \subseteq coupure'
  BY <1>1 DEF Etapes
<1>3. Cadre'
  BY <1>1 DEF IInv, Cadre
<1>4. ReqSures'
  BY <1>1 DEF IInv, ReqSures, Suivie
<1>5. SessionsSures'
  <2>1. ASSUME NEW t \in Jetons
        PROVE  sessions'[t] \in Sessions /\ SessionSure(sessions'[t], FALSE)
    <3> DEFINE s == sessions[t]
               a == Dater(s.acces)
               n == [s EXCEPT !.acces = a]
    <3>1. s \in Sessions /\ SessionSure(s, "web" \notin coupure)
      BY DEF IInv, SessionsSures
    <3>2. s.acces \in Acces
      BY <3>1 DEF Sessions
    <3>3. a \in Acces /\ a.sous = s.acces.sous
      BY <3>2, DaterSur
    <3>4. sessions'[t] = n
      BY <1>1
    <3> HIDE DEF a, s
    <3>5. /\ n \in Sessions /\ n.acces = a /\ n.obligee = s.obligee
          /\ n.contrainte = s.contrainte /\ n.servie = s.servie
      BY <3>1, <3>3 DEF Sessions
    <3> HIDE DEF n
    <3>6. SessionSure(n, FALSE)
      BY <3>1, <3>3, <3>5 DEF SessionSure
    <3> QED BY <3>4, <3>5, <3>6
  <2> QED BY <1>1, <1>2, <2>1 DEF SessionsSures
<1>6. EtapesSures' /\ PamSur' /\ DuckySur'
  BY <1>1, <1>2, DaterSur DEF IInv, EtapesSures, PamSur, DuckySur, AccesSur
<1> QED BY <1>1, <1>3, <1>4, <1>5, <1>6, Reste DEF IInv

LEMMA PasFermer ==
  ASSUME IInv,
         \/ FermerDucky \/ FermerSessionsUtilisateurPartout
         \/ DeleteSessionsOf \/ DeletePendingOf
  PROVE  IInv'
<1>1. UNCHANGED <<verrou, compte, req, defi, ldap>> /\ coupure' \subseteq coupure
  BY DEF FermerDucky, FermerSessionsUtilisateurPartout, DeleteSessionsOf, DeletePendingOf
<1>2. Cadre'
  BY <1>1 DEF IInv, Cadre
<1>3. ReqSures' /\ LdapSur' /\ DefiSur'
  BY <1>1, Reste
<1>4. CASE FermerDucky
  <2>1. /\ ducky' = Rien /\ UNCHANGED <<sessions, etapes, pam>>
        /\ coupure' = coupure \ {"ducky"}
    BY <1>4 DEF FermerDucky
  <2>2. DuckySur'
    BY <2>1, RienSur DEF DuckySur
  <2> QED BY <1>2, <1>3, <2>1, <2>2, Reste DEF IInv
<1>5. CASE FermerSessionsUtilisateurPartout
  <2>1. /\ pam' = Rien /\ UNCHANGED <<sessions, etapes, ducky>>
        /\ coupure' = coupure \ {"pam"}
    BY <1>5 DEF FermerSessionsUtilisateurPartout
  <2>2. PamSur'
    BY <2>1, RienSur DEF PamSur, AccesSur
  <2> QED BY <1>2, <1>3, <2>1, <2>2, Reste DEF IInv
<1>6. CASE DeleteSessionsOf
  <2>1. /\ sessions' = [t \in Jetons |-> SansSession] /\ UNCHANGED <<etapes, pam, ducky>>
        /\ coupure' = coupure \ {"web"}
    BY <1>6 DEF DeleteSessionsOf
  <2>2. SessionsSures'
    <3>1. SansSession \in Sessions /\ SessionSure(SansSession, TRUE)
      BY RienSur
    <3> QED BY <2>1, <3>1 DEF SessionsSures
  <2> QED BY <1>2, <1>3, <2>1, <2>2, Reste DEF IInv
<1>7. CASE DeletePendingOf
  <2>1. /\ etapes' = [t \in Jetons |-> Rien] /\ UNCHANGED <<sessions, pam, ducky>>
        /\ coupure = {"etapes"} /\ coupure' = {}
    BY <1>7 DEF DeletePendingOf
  <2>2. EtapesSures'
    BY <2>1, RienSur DEF EtapesSures, AccesSur
  <2> QED BY <1>2, <1>3, <2>1, <2>2, Reste DEF IInv
<1> QED BY <1>4, <1>5, <1>6, <1>7

LEMMA PasLever == ASSUME IInv, Lever PROVE IInv'
<1>1. /\ verrou' = FALSE /\ UNCHANGED <<coupure, compte>>
      /\ req' = [r \in Requetes |-> [req[r] EXCEPT !.sous = FALSE]]
      /\ UNCHANGED <<sessions, etapes, defi, ducky, pam, ldap>>
  BY DEF Lever, ouvertures
<1>2. Cadre'
  BY <1>1 DEF IInv, Cadre
<1>3. ReqSures'
  <2>1. ASSUME NEW r \in Requetes
        PROVE  req'[r] \in UneReq /\ Suivie(req'[r], FALSE, compte.provisoire)
    <3> DEFINE q == [req[r] EXCEPT !.sous = FALSE]
    <3>1. req[r] \in UneReq /\ Suivie(req[r], verrou, compte.provisoire)
      BY DEF IInv, ReqSures
    <3>2. req'[r] = q
      BY <1>1
    <3>3. /\ q \in UneReq /\ q.sous = FALSE /\ q.pc = req[r].pc /\ q.oblige = req[r].oblige
          /\ q.contrainte = req[r].contrainte
      BY <3>1 DEF UneReq
    <3> HIDE DEF q
    <3>4. Suivie(q, FALSE, compte.provisoire)
      BY <3>1, <3>3 DEF Suivie
    <3> QED BY <3>2, <3>3, <3>4
  <2> QED BY <1>1, <2>1 DEF ReqSures
<1> QED BY <1>1, <1>2, <1>3, Reste DEF IInv

-----------------------------------------------------------------------------
(* The passwords.                                                          *)

(* A change of the account that does not unmark its password.              *)
LEMMA CompteChange ==
  ASSUME IInv, UNCHANGED <<verrou, coupure>>, compte' \in UnCompte,
         compte.provisoire => compte'.provisoire
  PROVE  Cadre' /\ \A q \in UneReq : Suivie(q, verrou, compte.provisoire) =>
                                       Suivie(q, verrou', compte'.provisoire)
BY DEF IInv, Cadre, Suivie

LEMMA PasTitulaire ==
  ASSUME IInv, NEW r \in Requetes,
         \/ \E t \in Jetons : ProfilHandler(r, t)
         \/ Update_User_Info(r)
  PROVE  IInv'
<1> DEFINE n == compte.version
<1>1. /\ Cadre /\ ReqSures /\ compte \in UnCompte /\ n \in Versions
      /\ req[r] \in UneReq /\ Suivie(req[r], verrou, compte.provisoire)
  BY DEF IInv, Cadre, ReqSures, UnCompte
<1>2. UNCHANGED <<verrou, coupure, sessions, etapes, defi, ducky, pam, ldap>>
  BY DEF ProfilHandler, Update_User_Info, ouvertures
<1>3. Cadre' /\ ReqSures' => IInv'
  BY <1>2, Reste DEF IInv
<1>4. {"profil.ecrire", "profil.session"} \subseteq Pcs
  BY DEF Pcs, PcProfil
<1>5. ASSUME NEW t \in Jetons, ProfilHandler(r, t) PROVE IInv'
  <2> DEFINE q == [req[r] EXCEPT !.pc = "profil.ecrire", !.jeton = {t}, !.presente = n]
  <2>1. ~req[r].sous /\ UNCHANGED compte
    BY <1>1, <1>5, PasSous DEF ProfilHandler
  <2>2. req' = [req EXCEPT ![r] = q]
    BY <1>1, <1>5 DEF ProfilHandler
  <2> HIDE DEF n
  <2>3. /\ q \in UneReq /\ q.pc = "profil.ecrire" /\ q.sous = req[r].sous
        /\ q.oblige = req[r].oblige
    BY <1>1, <1>4 DEF UneReq
  <2> HIDE DEF q
  <2>4. Suivie(q, verrou, compte.provisoire)
    BY <1>1, <2>1, <2>3 DEF Suivie
  <2>5. ReqSures'
    BY <1>1, <1>2, <2>1, <2>2, <2>3, <2>4, ReqEcrite
  <2> QED BY <1>2, <1>3, <2>1, <2>5, Reste
<1>6. CASE Update_User_Info(r)
  <2> DEFINE q == [req[r] EXCEPT !.pc = "profil.session", !.presente = n + 1]
             c == [compte EXCEPT !.version = n + 1, !.auteur = "titulaire"]
  <2>1. ~req[r].sous /\ n < MaxVersions
    BY <1>1, <1>6, PasSous DEF Update_User_Info
  <2>2. n + 1 \in Versions
    BY <1>1, <2>1, PortesAssumption DEF Versions
  <2>3. req' = [req EXCEPT ![r] = q] /\ compte' = c
    BY <1>1, <1>6 DEF Update_User_Info
  <2>4. c \in UnCompte /\ c.provisoire = compte.provisoire
    BY <1>1, <2>2 DEF UnCompte, Auteurs
  <2>5. /\ q \in UneReq /\ q.pc = "profil.session" /\ q.sous = req[r].sous
        /\ q.oblige = req[r].oblige
    BY <1>1, <1>4, <2>2 DEF UneReq
  <2> HIDE DEF q, c
  <2>6. Suivie(q, verrou, compte.provisoire)
    BY <1>1, <2>1, <2>5 DEF Suivie
  <2>7. /\ req' \in [Requetes -> UneReq] /\ req'[r] = q
        /\ \A p \in Requetes : p # r => req'[p] = req[p]
    BY <1>1, <2>3, <2>5 DEF ReqSures
  <2>8. ReqSures'
    BY <1>1, <1>2, <2>3, <2>4, <2>6, <2>7 DEF ReqSures
  <2>9. Cadre'
    BY <1>2, <2>3, <2>4, CompteChange
  <2> QED BY <1>3, <2>8, <2>9
<1> QED BY <1>5, <1>6

LEMMA PasSessionChangee ==
  ASSUME IInv, NEW r \in Requetes, ClearMustChangePassword(r) \/ DeleteOtherSessionsOf(r)
  PROVE  IInv'
<1>1. /\ Cadre /\ ReqSures /\ SessionsSures /\ req[r] \in UneReq
      /\ sessions \in [Jetons -> Sessions]
  BY DEF IInv, ReqSures, SessionsSures
<1>2. UNCHANGED <<verrou, coupure, compte, etapes, defi, ducky, pam, ldap>>
  BY DEF ClearMustChangePassword, DeleteOtherSessionsOf
<1>3. ReqSures' /\ SessionsSures' => IInv'
  BY <1>2, Reste DEF IInv
<1>4. CASE ClearMustChangePassword(r)
  <2>1. ~req[r].sous /\ Aller(r, "profil.drapeau") /\ "profil.drapeau" \in Pcs
    BY <1>1, <1>4, PasSous DEF ClearMustChangePassword, Pcs, PcProfil
  <2>2. ReqSures'
    BY <1>1, <1>2, <2>1, ReqAvancee
  <2>3. ASSUME NEW t \in Jetons
        PROVE  sessions'[t] \in Sessions /\ SessionSure(sessions'[t], "web" \notin coupure)
    <3> DEFINE s == sessions[t]
               v == req[r].presente
               n == [s EXCEPT !.contrainte = FALSE, !.obligee = FALSE, !.acces.preuve = v]
    <3>1. s \in Sessions /\ SessionSure(s, "web" \notin coupure) /\ v \in Versions
      BY <1>1 DEF SessionsSures, UneReq
    <3>2. sessions'[t] \in {s, n}
      BY <1>4 DEF ClearMustChangePassword
    <3> HIDE DEF s, v
    <3>3. s.acces \in Acces
      BY <3>1 DEF Sessions
    <3>4. /\ n \in Sessions /\ ~n.obligee
          /\ n.acces.sous = s.acces.sous /\ n.acces.avant = s.acces.avant
      BY <3>1, <3>3 DEF Sessions, Acces
    <3> HIDE DEF n
    <3>5. SessionSure(n, "web" \notin coupure)
      BY <3>1, <3>4 DEF SessionSure
    <3> QED BY <3>1, <3>2, <3>4, <3>5
  <2>4. sessions' \in [Jetons -> Sessions]
    <3>1. /\ DOMAIN sessions' = Jetons
          /\ sessions' = [t \in Jetons |-> sessions'[t]]
      BY <1>4 DEF ClearMustChangePassword
    <3> QED BY <2>3, <3>1
  <2> QED BY <1>2, <1>3, <2>2, <2>3, <2>4 DEF SessionsSures
<1>5. CASE DeleteOtherSessionsOf(r)
  <2>1. /\ sessions' = [t \in Jetons |-> IF t \in req[r].jeton THEN sessions[t] ELSE SansSession]
        /\ Refuser(r)
    BY <1>5 DEF DeleteOtherSessionsOf
  <2>2. ("web" \notin coupure) \in BOOLEAN
    OBVIOUS
  <2>3. SessionsSures'
    BY <1>1, <1>2, <2>1, <2>2, RienSur DEF SessionsSures
  <2> QED BY <1>1, <1>2, <1>3, <2>1, <2>3, ReqRefusee
<1> QED BY <1>4, <1>5

(* LeverProvisoire, for a request r that moves on.                         *)
LEMMA PasLeverProvisoire ==
  ASSUME IInv, NEW r \in Requetes, LeverParLeTitulaire(r) \/ LeverParUnTiers(r)
  PROVE  IInv'
<1>1. UNCHANGED <<verrou, coupure, sessions, etapes, defi, ducky, pam, ldap>>
  BY DEF LeverParLeTitulaire, LeverParUnTiers, ouvertures
<1>2. PICK pc \in Pcs \ {"web.ouvrir"} :
        /\ req[r].pc \in {"profil.drapeau", "admin.lever"}
        /\ compte' = [compte EXCEPT !.provisoire = FALSE]
        /\ req' = [q \in Requetes |-> [req[q] EXCEPT !.oblige = FALSE,
                     !.pc = IF q = r THEN pc ELSE req[q].pc]]
  <2> DEFINE Saut(pc) ==
        /\ req[r].pc \in {"profil.drapeau", "admin.lever"}
        /\ compte' = [compte EXCEPT !.provisoire = FALSE]
        /\ req' = [q \in Requetes |-> [req[q] EXCEPT !.oblige = FALSE,
                     !.pc = IF q = r THEN pc ELSE req[q].pc]]
  <2>1. "profil.fermer" \in Pcs \ {"web.ouvrir"} /\ "libre" \in Pcs \ {"web.ouvrir"}
    BY DEF Pcs, PcProfil
  <2>2. CASE LeverParLeTitulaire(r)
    <3>1. Saut("profil.fermer")
      BY <2>2 DEF LeverParLeTitulaire, LeverProvisoire
    <3> QED BY <2>1, <3>1
  <2>3. CASE LeverParUnTiers(r)
    <3>1. Saut("libre")
      BY <2>3 DEF LeverParUnTiers, LeverProvisoire
    <3> QED BY <2>1, <3>1
  <2> QED BY <2>2, <2>3
<1>3. Cadre' /\ compte'.provisoire = FALSE
  BY <1>1, <1>2 DEF IInv, Cadre, UnCompte
<1>4. ASSUME NEW q \in Requetes
      PROVE  req'[q] \in UneReq /\ Suivie(req'[q], verrou, FALSE)
  <2> DEFINE s == req[q]
             k == IF q = r THEN pc ELSE s.pc
             n == [s EXCEPT !.oblige = FALSE, !.pc = k]
  <2>1. s \in UneReq /\ Suivie(s, verrou, compte.provisoire)
    BY DEF IInv, ReqSures
  <2>2. req'[q] = n
    BY <1>2
  <2>3. k \in Pcs /\ (s.sous => k = s.pc)
    BY <1>2, <2>1 DEF UneReq, Suivie
  <2> HIDE DEF s, k
  <2>4. n \in UneReq /\ ~n.oblige /\ n.pc = k /\ n.sous = s.sous
    BY <2>1, <2>3 DEF UneReq
  <2> HIDE DEF n
  <2>5. Suivie(n, verrou, FALSE)
    BY <2>1, <2>3, <2>4 DEF Suivie
  <2> QED BY <2>2, <2>4, <2>5
<1>5. ReqSures'
  <2>1. req' \in [Requetes -> UneReq]
    <3>1. req' = [q \in Requetes |-> req'[q]]
      BY <1>2
    <3> QED BY <1>4, <3>1
  <2> QED BY <1>1, <1>3, <1>4, <2>1 DEF ReqSures
<1> QED BY <1>1, <1>3, <1>5, Reste DEF IInv

LEMMA PasTiers ==
  ASSUME IInv, NEW r \in Requetes,
         MarquerProvisoire(r) \/ \E d \in BOOLEAN : changerMotDePasse(r, d)
  PROVE  IInv'
<1> DEFINE n == compte.version
<1>1. /\ Cadre /\ ReqSures /\ compte \in UnCompte /\ n \in Versions
      /\ req[r] \in UneReq /\ Suivie(req[r], verrou, compte.provisoire)
  BY DEF IInv, Cadre, ReqSures, UnCompte
<1>2. UNCHANGED <<verrou, coupure, sessions, etapes, defi, ducky, pam, ldap>>
  BY DEF MarquerProvisoire, changerMotDePasse, ouvertures
<1>3. ASSUME compte' \in UnCompte, compte.provisoire => compte'.provisoire,
             NEW q \in UneReq, Suivie(q, verrou, compte'.provisoire),
             req' = [req EXCEPT ![r] = q]
      PROVE  IInv'
  <2>1. Cadre' /\ \A p \in UneReq : Suivie(p, verrou, compte.provisoire) =>
                                      Suivie(p, verrou', compte'.provisoire)
    BY <1>2, <1>3, CompteChange
  <2>2. /\ req' \in [Requetes -> UneReq] /\ req'[r] = q
        /\ \A p \in Requetes : p # r => req'[p] = req[p]
    BY <1>1, <1>3 DEF ReqSures
  <2>3. ReqSures'
    BY <1>1, <1>2, <1>3, <2>1, <2>2 DEF ReqSures
  <2> QED BY <1>2, <2>1, <2>3, Reste DEF IInv
<1>4. CASE MarquerProvisoire(r)
  <2>1. compte' = [compte EXCEPT !.provisoire = TRUE] /\ req' = [req EXCEPT ![r] = Libre]
    BY <1>4 DEF MarquerProvisoire, Refuser
  <2>2. compte' \in UnCompte /\ compte'.provisoire = TRUE
    BY <1>1, <2>1 DEF UnCompte
  <2>3. Libre \in UneReq /\ Suivie(Libre, verrou, TRUE)
    BY LibreSuivi DEF Suivie
  <2> QED BY <1>3, <2>1, <2>2, <2>3
<1>5. ASSUME NEW d \in BOOLEAN, changerMotDePasse(r, d) PROVE IInv'
  <2> DEFINE pc == IF d THEN "admin.lever" ELSE "admin.marquer"
             a == IF d THEN "service" ELSE "tiers"
             q == [req[r] EXCEPT !.pc = pc]
             c == [compte EXCEPT !.version = n + 1, !.auteur = a]
  <2>1. ~req[r].sous /\ n < MaxVersions
    BY <1>1, <1>5, PasSous DEF changerMotDePasse
  <2>2. n + 1 \in Versions
    BY <1>1, <2>1, PortesAssumption DEF Versions
  <2>3. pc \in Pcs /\ pc # "web.ouvrir" /\ a \in Auteurs
    BY DEF Pcs, PcAdmin, Auteurs
  <2>4. req' = [req EXCEPT ![r] = q] /\ compte' = c
    BY <1>1, <1>5 DEF changerMotDePasse
  <2> HIDE DEF pc, a
  <2>5. c \in UnCompte /\ c.provisoire = compte.provisoire
    BY <1>1, <2>2, <2>3 DEF UnCompte
  <2>6. q \in UneReq /\ q.pc = pc /\ q.sous = req[r].sous /\ q.oblige = req[r].oblige
    BY <1>1, <2>3 DEF UneReq
  <2> HIDE DEF q, c
  <2>7. Suivie(q, verrou, compte.provisoire)
    BY <1>1, <2>1, <2>3, <2>6 DEF Suivie
  <2> QED BY <1>3, <2>4, <2>5, <2>6, <2>7
<1> QED BY <1>4, <1>5

LEMMA PasEnrolement == ASSUME IInv, ActivateMFA PROVE IInv'
<1>1. /\ compte' = [compte EXCEPT !.facteur = TRUE]
      /\ sessions' = [t \in Jetons |-> [sessions[t] EXCEPT !.aEnroler = FALSE]]
      /\ UNCHANGED <<verrou, coupure, req, etapes, defi, ducky, pam, ldap>>
  BY DEF ActivateMFA
<1>2. compte' \in UnCompte /\ compte'.provisoire = compte.provisoire
  BY <1>1 DEF IInv, Cadre, UnCompte
<1>3. Cadre' /\ ReqSures'
  BY <1>1, <1>2, CompteChange DEF IInv, ReqSures
<1>4. SessionsSures'
  <2>1. ASSUME NEW t \in Jetons
        PROVE  sessions'[t] \in Sessions /\ SessionSure(sessions'[t], "web" \notin coupure)
    <3> DEFINE s == sessions[t]
               n == [s EXCEPT !.aEnroler = FALSE]
    <3>1. s \in Sessions /\ SessionSure(s, "web" \notin coupure)
      BY DEF IInv, SessionsSures
    <3>2. sessions'[t] = n
      BY <1>1
    <3> HIDE DEF s
    <3>3. /\ n \in Sessions /\ n.acces = s.acces /\ n.obligee = s.obligee
          /\ n.contrainte = s.contrainte /\ n.servie = s.servie
      BY <3>1 DEF Sessions
    <3> HIDE DEF n
    <3> QED BY <3>1, <3>2, <3>3 DEF SessionSure
  <2> QED BY <1>1, <2>1 DEF SessionsSures
<1> QED BY <1>1, <1>3, <1>4, Reste DEF IInv

-----------------------------------------------------------------------------
LEMMA PortesDepart == Init => IInv
<1> SUFFICES ASSUME Init PROVE IInv
  OBVIOUS
<1>1. 1 \in Versions
  BY PortesAssumption DEF Versions
<1>2. Cadre
  BY <1>1 DEF Init, Cadre, UnCompte, Auteurs
<1>3. ReqSures
  <2>1. verrou \in BOOLEAN /\ compte.provisoire \in BOOLEAN
    BY <1>2 DEF Cadre, UnCompte
  <2> QED BY <2>1, LibreSuivi DEF Init, ReqSures
<1>4. SessionsSures
  <2>1. ("web" \notin coupure) \in BOOLEAN
    OBVIOUS
  <2> QED BY <2>1, RienSur DEF Init, SessionsSures
<1>5. EtapesSures /\ PamSur /\ DuckySur /\ LdapSur /\ DefiSur
  BY RienSur DEF Init, EtapesSures, PamSur, DuckySur, LdapSur, DefiSur, AccesSur
<1> QED BY <1>2, <1>3, <1>4, <1>5 DEF IInv

LEMMA PortesPas == IInv /\ [Next]_vars => IInv'
<1> SUFFICES ASSUME IInv, [Next]_vars PROVE IInv'
  OBVIOUS
<1>1. CASE UNCHANGED vars
  BY <1>1, ReqSeule, Reste DEF vars, ouvertures
<1>2. CASE Web
  BY <1>2, PasReqWeb, PasEtapes, PasSessions DEF Web
<1>3. CASE Distantes
  BY <1>3, PasPam, PasFinPam, PasLdap, PasDucky DEF Distantes
<1>4. CASE Coupure
  BY <1>4, PasRevoquer, PasFermer, PasLever DEF Coupure
<1>5. CASE MotsDePasse
  BY <1>5, PasTitulaire, PasSessionChangee, PasLeverProvisoire, PasTiers, PasEnrolement
  DEF MotsDePasse
<1> QED BY <1>1, <1>2, <1>3, <1>4, <1>5 DEF Next

(* What holds of every request and of every store of sessions, whatever    *)
(* the doors, the requests and the changes of the password.                *)
THEOREM PortesTenues == Spec => []IInv
BY PortesDepart, PortesPas, PTL DEF Spec

(* The lock of the kill switch closes every door: a request made wholly    *)
(* under the lock opens nothing but a Ducky session, and nothing of what   *)
(* was open before is left once killSessions has returned.                 *)
THEOREM VerrouCorrect == Spec => []VerrouFermeTout
<1>1. IInv => VerrouFermeTout
  <2> SUFFICES ASSUME IInv PROVE VerrouFermeTout
    OBVIOUS
  <2>1. TypeOK
    BY DEF IInv, TypeOK, Cadre, ReqSures, UneReq, UnCompte, SessionsSures, EtapesSures, PamSur,
       DuckySur, LdapSur, DefiSur
  <2>2. PorteFermeeSousVerrou
    BY DEF IInv, PorteFermeeSousVerrou, SessionsSures, SessionSure, EtapesSures, PamSur,
       LdapSur, DefiSur, AccesSur
  <2>3. CoupureComplete
    BY DEF IInv, CoupureComplete, SessionsSures, SessionSure, EtapesSures, PamSur, DuckySur,
       AccesSur
  <2> QED BY <2>1, <2>2, <2>3 DEF VerrouFermeTout
<1> QED BY <1>1, PortesTenues, PTL

(* As long as finishLogin reads the state of the account, a session opened *)
(* with a password to be changed is constrained and serves nothing else    *)
(* before its owner has changed it.                                        *)
THEOREM ObligationCorrecte == ~Pannes => (Spec => []ObligationTient)
<1> SUFFICES ASSUME ~Pannes PROVE Spec => []ObligationTient
  OBVIOUS
<1>1. IInv => ObligationTient
  BY DEF IInv, SessionsSures, SessionSure, ObligationTient
<1> QED BY <1>1, PortesTenues, PTL

-----------------------------------------------------------------------------
(***************************************************************************)
(* The second factor.                                                      *)
(***************************************************************************)
(* A request q against the row b, the requirement e, the last secret d and *)
(* the secrets pr somebody has shown a code of.  It holds no secret that   *)
(* is not active, nor one generated after it was read.                     *)
Sure(q, b, e, d, pr) ==
  /\ q.secret <= d /\ q.code <= d
  /\ q.secret # F!Aucun /\ q.secret = b.secret => b.actif
  /\ q.pc = "consommer" => q.secret # F!Aucun /\ q.code = q.secret
  /\ q.pc = "activer" =>
       /\ q.code # F!Aucun /\ q.code \in pr
       /\ UnSeulOnglet => b.secret \in {F!Aucun, q.code}
  /\ q.actifTenu => b.actif /\ q.secret # F!Aucun
  /\ q.exigeTenu => e
  /\ F!SansCode(q) /\ q.porte # "portail" /\ ~MFABypass => ~q.exigeTenu

(* The row b: the codes of its secret that were accepted are behind its    *)
(* counter, and there is none before the secret is active.                 *)
Rangee(b, d, acc) ==
  /\ b.secret <= d
  /\ b.actif => b.secret # F!Aucun /\ b.compteur # F!Jamais
  /\ \A p \in F!Heures : <<b.secret, p>> \in acc => b.actif /\ p <= b.compteur
  /\ \A s \in F!Secrets, p \in F!Heures : <<s, p>> \in acc => s <= d

(* With one enrolment page at a time, what is active was shown a code of.  *)
Prouvee(b, pr, acc) ==
  UnSeulOnglet /\ b.actif => b.secret \in pr /\ \E p \in F!Heures : <<b.secret, p>> \in acc
UneSeulePage(reqs) ==
  UnSeulOnglet =>
    \A r, t \in Requetes : reqs[r].pc \in F!Onglets /\ reqs[t].pc \in F!Onglets => r = t

FacteurSuivi ==
  /\ F!TypeOK
  /\ \A r \in Requetes : Sure(demande[r], base, exige, dernier, prouves)
  /\ Rangee(base, dernier, acceptes)
  /\ Prouvee(base, prouves, acceptes)
  /\ UneSeulePage(demande)

-----------------------------------------------------------------------------
LEMMA BornesFacteur ==
  /\ MaxSecrets \in Nat /\ MaxHeure \in Nat /\ SkewSteps \in Nat /\ MaxEssais \in Nat \ {0}
  /\ ExigenceDucky \in BOOLEAN /\ MFABypass \in BOOLEAN /\ UnSeulOnglet \in BOOLEAN
BY BornesDuFacteur DEF F!BornesAssumption

LEMMA LibreSure ==
  ASSUME F!TypeOK
  PROVE  F!Libre \in F!Demandes /\ Sure(F!Libre, base, exige, dernier, prouves)
<1>1. F!Libre \in F!Demandes
  BY BornesFacteur DEF F!Libre, F!Demandes, F!PortesMFA, F!Formes, F!Heures, F!Aucun
<1>2. Sure(F!Libre, base, exige, dernier, prouves)
  BY DEF F!TypeOK, F!Libre, Sure, F!SansCode, F!Aucun
<1> QED BY <1>1, <1>2

(* What may be typed.                                                      *)
LEMMA CodeTape ==
  ASSUME F!TypeOK, NEW s \in F!CodesTapes \cup {F!SansSaisie}
  PROVE  s.forme \in F!Formes /\ s.secret \in 0..dernier /\ s.pas \in F!Heures
BY BornesFacteur DEF F!TypeOK, F!CodesTapes, F!SansSaisie, F!Formes, F!Heures, F!Aucun

(* A request that begins.                                                  *)
LEMMA NouvelleSure ==
  ASSUME FacteurSuivi, NEW s \in F!CodesTapes \cup {F!SansSaisie}, NEW porte \in F!PortesMFA,
         NEW pc \in {"start", "confirm", "disable", "exigence", "valider"}
  PROVE  /\ F!Demande(pc, porte, s) \in F!Demandes
         /\ F!Demande(pc, porte, s).pc = pc
         /\ Sure(F!Demande(pc, porte, s), base, exige, dernier, prouves)
<1> DEFINE q == F!Demande(pc, porte, s)
<1>1. F!TypeOK /\ Rangee(base, dernier, acceptes)
  BY DEF FacteurSuivi
<1>2. s.forme \in F!Formes /\ s.secret \in 0..dernier /\ s.pas \in F!Heures
  BY <1>1, CodeTape
<1>3. base \in F!Lignes /\ exige \in BOOLEAN /\ dernier \in 0..MaxSecrets
  BY <1>1 DEF F!TypeOK
<1>4. base.secret \in 0..MaxSecrets /\ base.actif \in BOOLEAN
  BY <1>3, BornesFacteur DEF F!Lignes, F!Secrets, F!Aucun
<1>5. q = [pc |-> pc, porte |-> porte, forme |-> s.forme, code |-> s.secret, pas |-> s.pas,
           secret |-> IF base.actif THEN base.secret ELSE F!Aucun,
           exige |-> exige /\ pc \in F!Onglets,
           jeton |-> {}, actifTenu |-> base.actif, exigeTenu |-> exige]
  BY DEF F!Demande
<1>6. q \in F!Demandes
  BY <1>2, <1>3, <1>4, <1>5, BornesFacteur
  DEF F!Demandes, F!Onglets, F!Secrets, F!Aucun
<1>7. Sure(q, base, exige, dernier, prouves)
  <2>1. /\ q.secret = (IF base.actif THEN base.secret ELSE 0) /\ q.code = s.secret
        /\ q.pc = pc /\ q.actifTenu = base.actif /\ q.exigeTenu = exige
    BY <1>5 DEF F!Aucun
  <2> HIDE DEF q
  <2>2. q.secret <= dernier /\ q.code <= dernier
    BY <1>1, <1>2, <1>3, <1>4, <2>1 DEF Rangee
  <2>3. q.secret # 0 => base.actif
    BY <2>1
  <2>4. base.actif => q.secret # 0
    BY <1>1, <2>1 DEF Rangee, F!Aucun
  <2> QED BY <2>1, <2>2, <2>3, <2>4 DEF Sure, F!Aucun, F!SansCode
<1> QED BY <1>5, <1>6, <1>7

(* A step that replaces one request and leaves the row as it is.           *)
LEMMA FacteurCalme ==
  ASSUME FacteurSuivi, NEW r \in Requetes, NEW x \in F!Demandes,
         demande' = [demande EXCEPT ![r] = x],
         UNCHANGED <<heure, base, exige, dernier, acceptes>>,
         prouves \subseteq prouves', prouves' \subseteq F!Secrets,
         attentes' \in [Jetons -> {F!Absente} \cup 0..(MaxEssais - 1)],
         Sure(x, base, exige, dernier, prouves'),
         x.pc = "accepte" => demande[r].pc # "consommer",
         \/ x.pc \notin F!Onglets \/ demande[r].pc \in F!Onglets
         \/ UnSeulOnglet => \A t \in Requetes : demande[t].pc \notin F!Onglets
  PROVE  FacteurSuivi' /\ F!AccepteUneFois
<1>1. F!TypeOK /\ demande \in [Requetes -> F!Demandes]
  BY DEF FacteurSuivi, F!TypeOK
<1>2. F!TypeOK'
  BY <1>1 DEF F!TypeOK, F!Lignes
<1>3. \A t \in Requetes : demande'[t] = IF t = r THEN x ELSE demande[t]
  BY <1>1
<1>4. \A t \in Requetes : Sure(demande'[t], base, exige, dernier, prouves')
  <2> SUFFICES ASSUME NEW t \in Requetes, t # r
               PROVE  Sure(demande[t], base, exige, dernier, prouves')
    BY <1>3
  <2>1. Sure(demande[t], base, exige, dernier, prouves)
    BY DEF FacteurSuivi
  <2> QED BY <2>1 DEF Sure
<1>5. Rangee(base', dernier', acceptes') /\ Prouvee(base', prouves', acceptes')
  BY DEF FacteurSuivi, Rangee, Prouvee
<1>6. UneSeulePage(demande')
  BY <1>3 DEF FacteurSuivi, UneSeulePage
<1>7. F!AccepteUneFois
  BY <1>3 DEF F!AccepteUneFois
<1> QED BY <1>2, <1>4, <1>5, <1>6, <1>7 DEF FacteurSuivi

LEMMA EchecCompte ==
  ASSUME F!TypeOK, NEW jeton, F!RegisterFailedMFA(jeton)
  PROVE  attentes' \in [Jetons -> {F!Absente} \cup 0..(MaxEssais - 1)]
<1>1. \A t \in Jetons : attentes[t] \in {-1} \cup 0..(MaxEssais - 1)
  BY DEF F!TypeOK, F!Absente
<1> QED BY <1>1, BornesFacteur DEF F!RegisterFailedMFA, F!Absente

-----------------------------------------------------------------------------
LEMMA FacteurDepart == F!Init => FacteurSuivi
<1> SUFFICES ASSUME F!Init PROVE FacteurSuivi
  OBVIOUS
<1>1. F!TypeOK
  BY BornesFacteur
  DEF F!Init, F!TypeOK, F!Heures, F!Lignes, F!Aucun, F!Jamais, F!Secrets, F!Demandes, F!Libre,
      F!PortesMFA, F!Formes
<1>2. \A r \in Requetes : Sure(demande[r], base, exige, dernier, prouves)
  BY <1>1, LibreSure DEF F!Init
<1>3. Rangee(base, dernier, acceptes) /\ Prouvee(base, prouves, acceptes)
  BY DEF F!Init, Rangee, Prouvee, F!Aucun
<1>4. UneSeulePage(demande)
  BY DEF F!Init, F!Libre, F!Onglets, UneSeulePage
<1> QED BY <1>1, <1>2, <1>3, <1>4 DEF FacteurSuivi

LEMMA FacteurReste ==
  ASSUME FacteurSuivi, UNCHANGED facteurVars
  PROVE  FacteurSuivi'
BY DEF facteurVars, FacteurSuivi, F!TypeOK, Sure, Rangee, Prouvee, UneSeulePage

(* The pages read the row and the doors read it: a request begins.         *)
LEMMA PasLireProfil ==
  ASSUME FacteurSuivi, NEW r \in Requetes, NEW g \in {"start", "confirm", "disable"},
         NEW s \in F!CodesTapes, F!LireProfil(r, g, s)
  PROVE  FacteurSuivi' /\ F!AccepteUneFois
<1> DEFINE x == F!Demande(g, "portail", s)
<1>1. x \in F!Demandes /\ x.pc = g /\ Sure(x, base, exige, dernier, prouves)
  BY NouvelleSure DEF F!PortesMFA
<1>2. /\ demande' = [demande EXCEPT ![r] = x]
      /\ UNCHANGED <<heure, base, exige, dernier, attentes, prouves, acceptes>>
      /\ UnSeulOnglet => \A t \in Requetes : demande[t].pc \notin F!Onglets
  BY DEF F!LireProfil, F!historique
<1>3. attentes \in [Jetons -> {F!Absente} \cup 0..(MaxEssais - 1)] /\ prouves \subseteq F!Secrets
  BY DEF FacteurSuivi, F!TypeOK
<1> HIDE DEF x
<1> QED BY <1>1, <1>2, <1>3, FacteurCalme

LEMMA PasPresenter ==
  ASSUME FacteurSuivi, NEW r \in Requetes, NEW porte \in F!PortesMFA,
         NEW s \in F!CodesTapes, F!Presenter(r, porte, s)
  PROVE  FacteurSuivi' /\ F!AccepteUneFois
<1> DEFINE x == F!Demande("exigence", porte, s)
<1>1. x \in F!Demandes /\ x.pc = "exigence" /\ Sure(x, base, exige, dernier, prouves)
  BY NouvelleSure
<1>2. /\ demande' = [demande EXCEPT ![r] = x]
      /\ UNCHANGED <<heure, base, exige, dernier, attentes, prouves, acceptes>>
  BY DEF F!Presenter, F!historique
<1>3. attentes \in [Jetons -> {F!Absente} \cup 0..(MaxEssais - 1)] /\ prouves \subseteq F!Secrets
  BY DEF FacteurSuivi, F!TypeOK
<1>4. x.pc \notin F!Onglets
  BY <1>1 DEF F!Onglets
<1> HIDE DEF x
<1> QED BY <1>1, <1>2, <1>3, <1>4, FacteurCalme

(* A step that touches the pending steps of the portal only.               *)
LEMMA FacteurAttentes ==
  ASSUME FacteurSuivi, UNCHANGED <<heure, base, exige, dernier, demande, prouves, acceptes>>,
         attentes' \in [Jetons -> {F!Absente} \cup 0..(MaxEssais - 1)]
  PROVE  FacteurSuivi' /\ F!AccepteUneFois
<1>1. F!TypeOK'
  BY DEF FacteurSuivi, F!TypeOK
<1>2. \A r \in Requetes : Sure(demande[r], base, exige, dernier, prouves)'
  BY DEF FacteurSuivi, Sure
<1>3. Rangee(base, dernier, acceptes)' /\ Prouvee(base, prouves, acceptes)' /\ UneSeulePage(demande)'
  BY DEF FacteurSuivi, Rangee, Prouvee, UneSeulePage
<1>4. F!AccepteUneFois
  BY DEF F!AccepteUneFois
<1> QED BY <1>1, <1>2, <1>3, <1>4 DEF FacteurSuivi

LEMMA PasStartSecondFactor ==
  ASSUME FacteurSuivi, NEW r \in Requetes, F!StartSecondFactor(r)
  PROVE  FacteurSuivi' /\ F!AccepteUneFois
<1>1. attentes \in [Jetons -> {F!Absente} \cup 0..(MaxEssais - 1)] /\ prouves \subseteq F!Secrets
      /\ 0 \in 0..(MaxEssais - 1)
  BY BornesFacteur DEF FacteurSuivi, F!TypeOK
<1>2. CASE base.actif /\ base.secret # F!Aucun
  <2>1. attentes' \in [Jetons -> {F!Absente} \cup 0..(MaxEssais - 1)]
    BY <1>1, <1>2 DEF F!StartSecondFactor
  <2> QED BY <1>2, <2>1, FacteurAttentes DEF F!StartSecondFactor, F!historique
<1>3. CASE ~(base.actif /\ base.secret # F!Aucun)
  <2> DEFINE x == F!Demande("exigence", "portail", F!SansSaisie)
  <2>1. x \in F!Demandes /\ x.pc = "exigence" /\ Sure(x, base, exige, dernier, prouves)
    BY NouvelleSure DEF F!PortesMFA
  <2>2. /\ demande' = [demande EXCEPT ![r] = x]
        /\ UNCHANGED <<heure, base, exige, dernier, attentes, prouves, acceptes>>
    BY <1>3 DEF F!StartSecondFactor, F!historique
  <2>3. x.pc \notin F!Onglets
    BY <2>1 DEF F!Onglets
  <2> HIDE DEF x
  <2> QED BY <1>1, <2>1, <2>2, <2>3, FacteurCalme
<1> QED BY <1>2, <1>3

LEMMA PasMFAPage ==
  ASSUME FacteurSuivi, NEW r \in Requetes, NEW t \in Jetons, NEW s \in F!CodesTapes,
         F!MFAPage(r, t, s)
  PROVE  FacteurSuivi' /\ F!AccepteUneFois
<1>1. attentes \in [Jetons -> {F!Absente} \cup 0..(MaxEssais - 1)] /\ prouves \subseteq F!Secrets
  BY DEF FacteurSuivi, F!TypeOK
<1>2. CASE base.actif /\ base.secret # F!Aucun
  <2> DEFINE d == F!Demande("valider", "portail", s)
             x == [d EXCEPT !.jeton = {t}]
  <2>1. d \in F!Demandes /\ d.pc = "valider" /\ Sure(d, base, exige, dernier, prouves)
    BY NouvelleSure DEF F!PortesMFA
  <2>2. /\ demande' = [demande EXCEPT ![r] = x]
        /\ UNCHANGED <<heure, base, exige, dernier, attentes, prouves, acceptes>>
    BY <1>2 DEF F!MFAPage, F!historique
  <2> HIDE DEF d
  <2>3. x \in F!Demandes /\ x.pc = "valider"
    BY <2>1 DEF F!Demandes
  <2>4. Sure(x, base, exige, dernier, prouves)
    BY <2>1 DEF Sure, F!SansCode, F!Demandes
  <2>5. x.pc \notin F!Onglets
    BY <2>3 DEF F!Onglets
  <2> HIDE DEF x
  <2> QED BY <1>1, <2>2, <2>3, <2>4, <2>5, FacteurCalme
<1>3. CASE ~(base.actif /\ base.secret # F!Aucun)
  <2>1. attentes' \in [Jetons -> {F!Absente} \cup 0..(MaxEssais - 1)]
    BY <1>1, <1>3 DEF F!MFAPage
  <2> QED BY <1>3, <2>1, FacteurAttentes DEF F!MFAPage, F!historique
<1> QED BY <1>2, <1>3

(* A request ends.                                                         *)
LEMMA PasLibere ==
  ASSUME FacteurSuivi, NEW r \in Requetes, demande' = [demande EXCEPT ![r] = F!Libre],
         UNCHANGED <<heure, base, exige, dernier, prouves, acceptes>>,
         attentes' \in [Jetons -> {F!Absente} \cup 0..(MaxEssais - 1)]
  PROVE  FacteurSuivi' /\ F!AccepteUneFois
<1>1. F!Libre \in F!Demandes /\ Sure(F!Libre, base, exige, dernier, prouves)
  BY LibreSure DEF FacteurSuivi
<1>2. F!Libre.pc \notin F!Onglets /\ F!Libre.pc # "accepte" /\ prouves \subseteq F!Secrets
  BY DEF F!Libre, F!Onglets, FacteurSuivi, F!TypeOK
<1> QED BY <1>1, <1>2, FacteurCalme

(* An accepted request: what was typed is forgotten.                       *)
LEMMA AccepteSure ==
  ASSUME F!TypeOK, NEW q \in F!Demandes, Sure(q, base, exige, dernier, prouves),
         q.secret = F!Aucun /\ q.porte # "portail" /\ ~MFABypass => ~q.exigeTenu
  PROVE  /\ F!Accepte(q) \in F!Demandes /\ F!Accepte(q).pc = "accepte"
         /\ Sure(F!Accepte(q), base, exige, dernier, prouves)
<1> DEFINE a == F!Accepte(q)
<1>1. a \in F!Demandes
  <2> DEFINE b == [q EXCEPT !.pc = "accepte"]
             c == [b EXCEPT !.forme = "vide"]
             d == [c EXCEPT !.code = F!Aucun]
             e == [d EXCEPT !.pas = 0]
             f == [e EXCEPT !.jeton = {}]
  <2>1. b \in F!Demandes
    BY DEF F!Demandes
  <2> HIDE DEF b
  <2>2. c \in F!Demandes
    BY <2>1 DEF F!Demandes, F!Formes
  <2> HIDE DEF c
  <2>3. d \in F!Demandes
    BY <2>2 DEF F!Demandes, F!Aucun
  <2> HIDE DEF d
  <2>4. e \in F!Demandes
    BY <2>3, BornesFacteur DEF F!Demandes, F!Heures
  <2> HIDE DEF e
  <2>5. f \in F!Demandes
    BY <2>4 DEF F!Demandes
  <2>6. a = f
    BY DEF F!Accepte, b, c, d, e
  <2> QED BY <2>5, <2>6
<1>2. /\ a.pc = "accepte" /\ a.porte = q.porte /\ a.secret = q.secret /\ a.code = 0
      /\ a.actifTenu = q.actifTenu /\ a.exigeTenu = q.exigeTenu
  BY DEF F!Accepte, F!Demandes, F!Aucun
<1>3. dernier \in Nat
  BY BornesFacteur DEF F!TypeOK
<1> HIDE DEF a
<1>4. Sure(a, base, exige, dernier, prouves)
  BY <1>2, <1>3 DEF Sure, F!SansCode
<1> QED BY <1>1, <1>2, <1>4 DEF a

LEMMA PasLireExigence ==
  ASSUME FacteurSuivi, NEW r \in Requetes, F!LireExigence(r)
  PROVE  FacteurSuivi' /\ F!AccepteUneFois
<1> DEFINE q == demande[r]
<1>1. F!TypeOK /\ q \in F!Demandes /\ Sure(q, base, exige, dernier, prouves)
  BY DEF FacteurSuivi, F!TypeOK
<1>2. /\ q.pc = "exigence" /\ UNCHANGED <<heure, base, exige, dernier, attentes, prouves, acceptes>>
      /\ demande \in [Requetes -> F!Demandes]
  BY <1>1 DEF F!LireExigence, F!historique, F!TypeOK
<1>3. attentes \in [Jetons -> {F!Absente} \cup 0..(MaxEssais - 1)] /\ prouves \subseteq F!Secrets
      /\ exige \in BOOLEAN
  BY <1>1 DEF F!TypeOK
<1>4. PICK lue \in {exige, TRUE} :
        demande' = [demande EXCEPT ![r] =
                      IF F!Decision(q, lue) = "libre" THEN F!Libre
                      ELSE IF F!Decision(q, lue) = "accepte" THEN F!Accepte(q)
                      ELSE [q EXCEPT !.pc = "valider"]]
  BY DEF F!LireExigence
<1>5. CASE F!Decision(q, lue) = "libre"
  BY <1>2, <1>3, <1>4, <1>5, PasLibere
<1>6. CASE F!Decision(q, lue) = "accepte"
  <2>1. demande' = [demande EXCEPT ![r] = F!Accepte(q)]
    BY <1>4, <1>6
  <2>2. q.secret = F!Aucun /\ q.porte # "portail" /\ ~MFABypass => ~q.exigeTenu
    <3> SUFFICES ASSUME q.secret = F!Aucun, q.porte # "portail", ~MFABypass, lue
                 PROVE  FALSE
      BY <1>1, <1>3, <1>4 DEF Sure
    <3>1. q.porte \in {"ssh", "service", "ldap"} /\ q.forme \in F!Formes
      BY <1>1 DEF F!Demandes, F!PortesMFA
    <3>2. ~F!Actif(q) /\ F!Lie(q, lue)
      BY DEF F!Actif, F!Lie
    <3>3. CASE q.porte = "ssh"
      BY <1>6, <3>2, <3>1, <3>3 DEF F!Decision, F!DeciderSecondFacteur
    <3>4. CASE q.porte = "service"
      BY <1>6, <3>2, <3>4 DEF F!Decision, F!DeciderService
    <3>5. CASE q.porte = "ldap"
      BY <1>6, <3>2, <3>5 DEF F!Decision, F!DeciderLDAP
    <3> QED BY <3>1, <3>3, <3>4, <3>5
  <2>3. /\ F!Accepte(q) \in F!Demandes /\ F!Accepte(q).pc = "accepte"
        /\ Sure(F!Accepte(q), base, exige, dernier, prouves)
    BY <1>1, <2>2, AccepteSure
  <2>4. F!Accepte(q).pc \notin F!Onglets
    BY <2>3 DEF F!Onglets
  <2> HIDE DEF q
  <2>5. demande[r].pc # "consommer"
    BY <1>2 DEF q
  <2> QED BY <1>2, <1>3, <2>1, <2>3, <2>4, <2>5, FacteurCalme
<1>7. CASE F!Decision(q, lue) \notin {"libre", "accepte"}
  <2> DEFINE x == [q EXCEPT !.pc = "valider"]
  <2>1. demande' = [demande EXCEPT ![r] = x]
    BY <1>4, <1>7
  <2>2. x \in F!Demandes /\ x.pc = "valider"
    BY <1>1 DEF F!Demandes
  <2>3. Sure(x, base, exige, dernier, prouves)
    BY <1>1, <2>2 DEF Sure, F!SansCode, F!Demandes
  <2>4. x.pc \notin F!Onglets
    BY <2>2 DEF F!Onglets
  <2> HIDE DEF x
  <2> QED BY <1>2, <1>3, <2>1, <2>2, <2>3, <2>4, FacteurCalme
<1> QED BY <1>5, <1>6, <1>7

LEMMA PasValider ==
  ASSUME FacteurSuivi, NEW r \in Requetes, F!Valider(r)
  PROVE  FacteurSuivi' /\ F!AccepteUneFois
<1> DEFINE q == demande[r]
<1>1. F!TypeOK /\ q \in F!Demandes /\ Sure(q, base, exige, dernier, prouves)
  BY DEF FacteurSuivi, F!TypeOK
<1>2. attentes \in [Jetons -> {F!Absente} \cup 0..(MaxEssais - 1)] /\ prouves \subseteq F!Secrets
  BY <1>1 DEF F!TypeOK
<1>3. UNCHANGED <<heure, base, exige, dernier, prouves, acceptes>>
  BY DEF F!Valider, F!historique
<1>4. CASE F!Valide(q.secret, q)
  <2> DEFINE x == [q EXCEPT !.pc = "consommer"]
  <2>1. demande' = [demande EXCEPT ![r] = x] /\ attentes' = attentes
    BY <1>4 DEF F!Valider
  <2>2. q.code = q.secret /\ q.secret # F!Aucun
    BY <1>4 DEF F!Valide
  <2>3. x \in F!Demandes /\ x.pc = "consommer"
    BY <1>1 DEF F!Demandes
  <2>4. Sure(x, base, exige, dernier, prouves)
    BY <1>1, <2>2, <2>3 DEF Sure, F!SansCode, F!Demandes
  <2>5. x.pc \notin F!Onglets
    BY <2>3 DEF F!Onglets
  <2> HIDE DEF x
  <2> QED BY <1>2, <1>3, <2>1, <2>3, <2>4, <2>5, FacteurCalme
<1>5. CASE ~F!Valide(q.secret, q)
  <2>1. demande' = [demande EXCEPT ![r] = F!Libre] /\ F!RegisterFailedMFA(q.jeton)
    BY <1>5 DEF F!Valider
  <2> QED BY <1>1, <1>3, <2>1, EchecCompte, PasLibere
<1> QED BY <1>4, <1>5

(* The counter moves forward and the request passes, in one statement.     *)
LEMMA PasConsumeMFACounter ==
  ASSUME FacteurSuivi, NEW r \in Requetes, F!ConsumeMFACounter(r)
  PROVE  FacteurSuivi' /\ F!AccepteUneFois
<1> DEFINE q == demande[r]
<1>1. F!TypeOK /\ q \in F!Demandes /\ Sure(q, base, exige, dernier, prouves)
  BY DEF FacteurSuivi, F!TypeOK
<1>2. Rangee(base, dernier, acceptes) /\ Prouvee(base, prouves, acceptes) /\ UneSeulePage(demande)
  BY DEF FacteurSuivi
<1>3. attentes \in [Jetons -> {F!Absente} \cup 0..(MaxEssais - 1)] /\ prouves \subseteq F!Secrets
      /\ base \in F!Lignes /\ demande \in [Requetes -> F!Demandes]
      /\ acceptes \subseteq (F!Secrets \X F!Heures) /\ dernier \in 0..MaxSecrets
  BY <1>1 DEF F!TypeOK
<1>4. q.pc = "consommer" /\ UNCHANGED <<heure, exige, dernier, prouves>>
  BY DEF F!ConsumeMFACounter
<1>5. q.secret # F!Aucun /\ q.code = q.secret /\ q.secret \in F!Secrets /\ q.pas \in F!Heures
  BY <1>1, <1>4 DEF Sure, F!Demandes
<1>6. CASE ~F!Consommable(q.pas)
  <2>1. /\ demande' = [demande EXCEPT ![r] = F!Libre] /\ F!RegisterFailedMFA(q.jeton)
        /\ UNCHANGED <<base, acceptes>>
    BY <1>6 DEF F!ConsumeMFACounter
  <2> QED BY <1>1, <1>4, <2>1, EchecCompte, PasLibere
<1>7. CASE F!Consommable(q.pas)
  <2> DEFINE b == [secret |-> base.secret, actif |-> base.actif, compteur |-> q.pas]
             acc == acceptes \cup {<<q.code, q.pas>>}
             x == F!Accepte(q)
  <2>1. /\ base' = b /\ demande' = [demande EXCEPT ![r] = x] /\ acceptes' = acc
        /\ attentes' = [t \in Jetons |-> IF t \in q.jeton THEN F!Absente ELSE attentes[t]]
    BY <1>7 DEF F!ConsumeMFACounter
  <2>2. b.secret = base.secret /\ b.actif = base.actif /\ b.compteur = q.pas /\ b \in F!Lignes
    BY <1>3, <1>5 DEF F!Lignes
  <2>3. q.pas \in Int /\ q.pas >= 0 /\ q.pas # F!Jamais /\ F!Heures \subseteq Int
    BY <1>5, BornesFacteur DEF F!Heures, F!Jamais
  <2>4. base.compteur = F!Jamais \/ base.compteur < q.pas
    BY <1>7 DEF F!Consommable
  <2>5. \A p \in F!Heures : <<base.secret, p>> \in acceptes => base.actif /\ p < q.pas
    <3> SUFFICES ASSUME NEW p \in F!Heures, <<base.secret, p>> \in acceptes
                 PROVE  base.actif /\ p < q.pas
      OBVIOUS
    <3>1. base.actif /\ p <= base.compteur /\ base.compteur # F!Jamais
      BY <1>2 DEF Rangee
    <3>2. base.compteur \in F!Heures
      BY <1>3, <3>1 DEF F!Lignes
    <3>3. p \in Int /\ base.compteur \in Int
      BY <2>3, <3>2
    <3> QED BY <2>3, <2>4, <3>1, <3>3
  <2>6. x \in F!Demandes /\ x.pc = "accepte" /\ Sure(x, base, exige, dernier, prouves)
    BY <1>1, <1>5, AccepteSure
  <2>7. acc \subseteq (F!Secrets \X F!Heures)
    BY <1>3, <1>5
  <2> HIDE DEF x, b, acc
  <2>8. F!TypeOK'
    <3>1. attentes' \in [Jetons -> {F!Absente} \cup 0..(MaxEssais - 1)]
      BY <1>3, <2>1
    <3> QED BY <1>1, <1>4, <2>1, <2>2, <2>6, <2>7, <3>1 DEF F!TypeOK
  <2>9. \A t \in Requetes : Sure(demande'[t], b, exige, dernier, prouves)
    <3> SUFFICES ASSUME NEW t \in Requetes PROVE Sure(demande'[t], b, exige, dernier, prouves)
      OBVIOUS
    <3>1. demande'[t] = IF t = r THEN x ELSE demande[t]
      BY <1>3, <2>1
    <3>2. Sure(demande'[t], base, exige, dernier, prouves)
      BY <2>6, <3>1 DEF FacteurSuivi
    <3> QED BY <2>2, <3>2 DEF Sure
  <2>10. Rangee(b, dernier, acc)
    <3>1. b.secret <= dernier /\ (b.actif => b.secret # F!Aucun /\ b.compteur # F!Jamais)
      BY <1>2, <2>2, <2>3 DEF Rangee
    <3>2. ASSUME NEW p \in F!Heures, <<b.secret, p>> \in acc
          PROVE  b.actif /\ p <= b.compteur
      <4>1. CASE <<b.secret, p>> \in acceptes
        BY <2>2, <2>3, <2>5, <4>1
      <4>2. CASE <<b.secret, p>> = <<q.code, q.pas>>
        <5>1. p = q.pas /\ base.secret = q.secret
          BY <1>5, <2>2, <4>2
        <5>2. base.actif
          BY <1>1, <1>5, <5>1 DEF Sure
        <5> QED BY <2>2, <2>3, <5>1, <5>2
      <4> QED BY <3>2, <4>1, <4>2 DEF acc
    <3>3. ASSUME NEW s \in F!Secrets, NEW p \in F!Heures, <<s, p>> \in acc
          PROVE  s <= dernier
      <4>1. CASE <<s, p>> \in acceptes
        BY <1>2, <4>1 DEF Rangee
      <4>2. CASE <<s, p>> = <<q.code, q.pas>>
        BY <1>1, <4>2 DEF Sure
      <4> QED BY <3>3, <4>1, <4>2 DEF acc
    <3> QED BY <3>1, <3>2, <3>3 DEF Rangee
  <2>11. Prouvee(b, prouves, acc)
    BY <1>2, <2>2 DEF Prouvee, acc
  <2>12. UneSeulePage(demande')
    <3>1. \A t \in Requetes : demande'[t] = IF t = r THEN x ELSE demande[t]
      BY <1>3, <2>1
    <3>2. x.pc \notin F!Onglets
      BY <2>6 DEF F!Onglets
    <3> QED BY <1>2, <3>1, <3>2 DEF UneSeulePage
  <2>13. F!AccepteUneFois
    <3> SUFFICES ASSUME NEW t \in Requetes, demande[t].pc = "consommer",
                        demande'[t].pc = "accepte", demande[t].secret = base.secret,
                        NEW p \in F!Uses
                 PROVE  p < demande[t].pas
      BY DEF F!AccepteUneFois
    <3>1. t = r
      BY <1>3, <2>1
    <3> QED BY <2>5, <3>1 DEF F!Uses
  <2> QED BY <1>4, <2>1, <2>8, <2>9, <2>10, <2>11, <2>12, <2>13 DEF FacteurSuivi
<1> QED BY <1>6, <1>7

(* A page gives the account a new secret.                                  *)
LEMMA PasStartMFAEnrollment ==
  ASSUME FacteurSuivi, NEW r \in Requetes, F!StartMFAEnrollment(r)
  PROVE  FacteurSuivi' /\ F!AccepteUneFois
<1>1. F!TypeOK /\ demande[r].pc = "start" /\ demande \in [Requetes -> F!Demandes]
      /\ dernier \in 0..MaxSecrets /\ dernier < MaxSecrets /\ base.actif \in BOOLEAN
  BY DEF FacteurSuivi, F!TypeOK, F!StartMFAEnrollment, F!Lignes
<1>2. Rangee(base, dernier, acceptes) /\ Prouvee(base, prouves, acceptes) /\ UneSeulePage(demande)
  BY DEF FacteurSuivi
<1>3. /\ dernier' = dernier + 1 /\ demande' = [demande EXCEPT ![r] = F!Libre]
      /\ UNCHANGED <<heure, exige, attentes, prouves, acceptes>>
  BY DEF F!StartMFAEnrollment
<1> DEFINE b == [secret |-> dernier + 1, actif |-> FALSE, compteur |-> F!Jamais]
<1>4. (base.actif => base' = base) /\ (~base.actif => base' = b)
  BY DEF F!StartMFAEnrollment
<1>5. /\ b \in F!Lignes /\ b.secret = dernier + 1 /\ ~b.actif /\ b.compteur = F!Jamais
      /\ dernier + 1 \in 0..MaxSecrets
  BY <1>1, BornesFacteur DEF F!Lignes, F!Secrets, F!Heures
<1>6. F!Libre \in F!Demandes /\ Sure(F!Libre, base, exige, dernier, prouves)
  BY <1>1, LibreSure
<1>7. \A t \in Requetes : demande'[t] = IF t = r THEN F!Libre ELSE demande[t]
  BY <1>1, <1>3
<1> HIDE DEF b
<1>8. F!TypeOK'
  BY <1>1, <1>3, <1>4, <1>5, <1>6 DEF F!TypeOK
<1>9. \A t \in Requetes : Sure(demande'[t], base', exige, dernier', prouves)
  <2> SUFFICES ASSUME NEW t \in Requetes PROVE Sure(demande'[t], base', exige, dernier + 1, prouves)
    BY <1>3
  <2> DEFINE q == demande'[t]
  <2>1. Sure(q, base, exige, dernier, prouves) /\ q \in F!Demandes
    BY <1>1, <1>6, <1>7 DEF FacteurSuivi
  <2>2. q.secret \in Int /\ q.code \in Int /\ dernier \in Int
    BY <1>1, <2>1, BornesFacteur DEF F!Demandes, F!Secrets, F!Aucun
  <2>3. UnSeulOnglet => q.pc # "activer"
    BY <1>1, <1>2, <1>7 DEF UneSeulePage, F!Onglets, F!Libre
  <2> HIDE DEF q
  <2>4. CASE base.actif
    <3>1. base' = base
      BY <1>4, <2>4
    <3>2. q.secret <= dernier + 1 /\ q.code <= dernier + 1
      BY <2>1, <2>2 DEF Sure
    <3>3. Sure(q, base, exige, dernier + 1, prouves)
      BY <2>1, <3>2 DEF Sure
    <3> QED BY <3>1, <3>3 DEF q
  <2>5. CASE ~base.actif
    <3>1. base' = b /\ ~q.actifTenu
      BY <1>4, <2>1, <2>5 DEF Sure
    <3>2. q.secret <= dernier + 1 /\ q.code <= dernier + 1 /\ q.secret # dernier + 1
      BY <2>1, <2>2 DEF Sure
    <3>3. q.pc = "activer" => ~UnSeulOnglet
      BY <2>3
    <3>4. Sure(q, b, exige, dernier + 1, prouves)
      BY <1>5, <2>1, <3>1, <3>2, <3>3 DEF Sure
    <3> QED BY <3>1, <3>4 DEF q
  <2> QED BY <2>4, <2>5
<1>10. Rangee(base', dernier', acceptes)
  <2>1. \A s \in F!Secrets, p \in F!Heures : <<s, p>> \in acceptes => s <= dernier + 1 /\ s # dernier + 1
    BY <1>1, <1>2, BornesFacteur DEF Rangee, F!Secrets
  <2>2. \A p \in F!Heures : <<dernier + 1, p>> \notin acceptes
    BY <1>1, <1>5, <2>1 DEF F!Secrets
  <2>3. CASE base.actif
    <3>1. base.secret \in Int
      BY <1>1, BornesFacteur DEF F!TypeOK, F!Lignes, F!Secrets, F!Aucun
    <3> QED BY <1>1, <1>2, <1>3, <1>4, <2>1, <2>3, <3>1 DEF Rangee
  <2>4. CASE ~base.actif
    BY <1>1, <1>3, <1>4, <1>5, <2>1, <2>2, <2>4 DEF Rangee
  <2> QED BY <2>3, <2>4
<1>11. Prouvee(base', prouves, acceptes)
  BY <1>2, <1>4, <1>5 DEF Prouvee
<1>12. UneSeulePage(demande')
  BY <1>2, <1>7 DEF UneSeulePage, F!Libre, F!Onglets
<1>13. F!AccepteUneFois
  BY <1>7 DEF F!AccepteUneFois, F!Libre
<1> QED BY <1>3, <1>8, <1>9, <1>10, <1>11, <1>12, <1>13 DEF FacteurSuivi

(* A page is shown a code of the secret it read again.                     *)
LEMMA PasConfirmer ==
  ASSUME FacteurSuivi, NEW r \in Requetes, F!Confirmer(r)
  PROVE  FacteurSuivi' /\ F!AccepteUneFois
<1> DEFINE q == demande[r]
<1>1. F!TypeOK /\ q \in F!Demandes /\ Sure(q, base, exige, dernier, prouves)
  BY DEF FacteurSuivi, F!TypeOK
<1>2. /\ q.pc = "confirm" /\ UNCHANGED <<heure, base, exige, dernier, attentes, acceptes>>
      /\ attentes \in [Jetons -> {F!Absente} \cup 0..(MaxEssais - 1)] /\ prouves \subseteq F!Secrets
      /\ base \in F!Lignes
  BY <1>1 DEF F!Confirmer, F!TypeOK
<1>3. CASE F!Valide(base.secret, q)
  <2> DEFINE x == [q EXCEPT !.pc = "activer"]
  <2>1. demande' = [demande EXCEPT ![r] = x] /\ prouves' = prouves \cup {base.secret}
    BY <1>3 DEF F!Confirmer
  <2>2. q.code = base.secret /\ base.secret # F!Aucun /\ base.secret \in F!Secrets
    BY <1>2, <1>3 DEF F!Valide, F!Lignes
  <2>3. x \in F!Demandes /\ x.pc = "activer"
    BY <1>1 DEF F!Demandes, F!Onglets
  <2>4. x.secret = q.secret /\ x.code = q.code /\ x.actifTenu = q.actifTenu
        /\ x.exigeTenu = q.exigeTenu /\ x.porte = q.porte
    BY <1>1 DEF F!Demandes
  <2>5. Sure(x, base, exige, dernier, prouves')
    BY <1>1, <2>1, <2>2, <2>3, <2>4 DEF Sure, F!SansCode
  <2>6. q.pc \in F!Onglets /\ prouves \subseteq prouves' /\ prouves' \subseteq F!Secrets
    BY <1>2, <2>1, <2>2 DEF F!Onglets
  <2> HIDE DEF x
  <2> QED BY <1>2, <2>1, <2>3, <2>5, <2>6, FacteurCalme
<1>4. CASE ~F!Valide(base.secret, q)
  BY <1>2, <1>4, PasLibere DEF F!Confirmer
<1> QED BY <1>3, <1>4

(* The code shown activates the secret and is consumed, in one statement.  *)
LEMMA PasActivateMFA ==
  ASSUME FacteurSuivi, NEW r \in Requetes, F!ActivateMFA(r)
  PROVE  FacteurSuivi' /\ F!AccepteUneFois
<1> DEFINE q == demande[r]
<1>1. F!TypeOK /\ q \in F!Demandes /\ Sure(q, base, exige, dernier, prouves)
  BY DEF FacteurSuivi, F!TypeOK
<1>2. Rangee(base, dernier, acceptes) /\ UneSeulePage(demande)
  BY DEF FacteurSuivi
<1>3. attentes \in [Jetons -> {F!Absente} \cup 0..(MaxEssais - 1)] /\ prouves \subseteq F!Secrets
      /\ base \in F!Lignes /\ demande \in [Requetes -> F!Demandes]
      /\ acceptes \subseteq (F!Secrets \X F!Heures) /\ dernier \in 0..MaxSecrets
  BY <1>1 DEF F!TypeOK
<1>4. /\ q.pc = "activer" /\ demande' = [demande EXCEPT ![r] = F!Libre]
      /\ UNCHANGED <<heure, exige, dernier, attentes, prouves>>
  BY DEF F!ActivateMFA
<1>5. CASE ~(base.secret # F!Aucun /\ ~base.actif)
  BY <1>3, <1>4, <1>5, PasLibere DEF F!ActivateMFA
<1>6. CASE base.secret # F!Aucun /\ ~base.actif
  <2> DEFINE b == [secret |-> base.secret, actif |-> TRUE, compteur |-> q.pas]
             acc == acceptes \cup {<<q.code, q.pas>>}
  <2>1. base' = b /\ acceptes' = acc
    BY <1>6 DEF F!ActivateMFA
  <2>2. /\ q.code \in F!Secrets /\ q.pas \in F!Heures /\ q.code \in prouves /\ q.code <= dernier
        /\ UnSeulOnglet => base.secret = q.code
    BY <1>1, <1>4, <1>6 DEF Sure, F!Demandes
  <2>3. b.secret = base.secret /\ b.actif /\ b.compteur = q.pas /\ b \in F!Lignes
    BY <1>3, <2>2 DEF F!Lignes
  <2>4. q.pas \in Int /\ q.pas >= 0 /\ q.pas # F!Jamais
    BY <2>2, BornesFacteur DEF F!Heures, F!Jamais
  <2>5. acc \subseteq (F!Secrets \X F!Heures)
    BY <1>3, <2>2
  <2>6. F!Libre \in F!Demandes /\ Sure(F!Libre, base, exige, dernier, prouves)
    BY <1>1, LibreSure
  <2>7. \A t \in Requetes : demande'[t] = IF t = r THEN F!Libre ELSE demande[t]
    BY <1>3, <1>4
  <2> HIDE DEF b, acc
  <2>8. F!TypeOK'
    BY <1>1, <1>3, <1>4, <2>1, <2>3, <2>5, <2>6 DEF F!TypeOK
  <2>9. \A t \in Requetes : Sure(demande'[t], b, exige, dernier, prouves)
    <3> SUFFICES ASSUME NEW t \in Requetes PROVE Sure(demande'[t], b, exige, dernier, prouves)
      OBVIOUS
    <3>1. Sure(demande'[t], base, exige, dernier, prouves)
      BY <2>6, <2>7 DEF FacteurSuivi
    <3> QED BY <2>3, <3>1 DEF Sure
  <2>10. Rangee(b, dernier, acc)
    <3>1. ASSUME NEW p \in F!Heures, <<b.secret, p>> \in acc
          PROVE  p <= b.compteur
      <4>1. <<base.secret, p>> \notin acceptes
        BY <1>2, <1>6, <3>1 DEF Rangee
      <4>2. p = q.pas
        BY <2>3, <3>1, <4>1 DEF acc
      <4> QED BY <2>3, <2>4, <4>2
    <3>2. ASSUME NEW s \in F!Secrets, NEW p \in F!Heures, <<s, p>> \in acc
          PROVE  s <= dernier
      BY <1>2, <2>2, <3>2 DEF Rangee, acc
    <3> QED BY <1>2, <1>6, <2>3, <2>4, <3>1, <3>2 DEF Rangee
  <2>11. Prouvee(b, prouves, acc)
    BY <2>2, <2>3 DEF Prouvee, acc
  <2>12. UneSeulePage(demande')
    BY <1>2, <2>7 DEF UneSeulePage, F!Libre, F!Onglets
  <2>13. F!AccepteUneFois
    BY <2>7 DEF F!AccepteUneFois, F!Libre
  <2> QED BY <1>4, <2>1, <2>8, <2>9, <2>10, <2>11, <2>12, <2>13 DEF FacteurSuivi
<1> QED BY <1>5, <1>6

(* The row or the requirement changes for every request under way.         *)
LEMMA PasObserve ==
  ASSUME FacteurSuivi, NEW reqs \in [Requetes -> F!Demandes],
         NEW b \in F!Lignes, NEW e \in BOOLEAN, b = base \/ b = F!SansSecret,
         base' = b, exige' = e, demande' = F!Observe(reqs, b, e),
         \A t \in Requetes : reqs[t] \in {demande[t], F!Libre},
         UNCHANGED <<heure, dernier, attentes, prouves, acceptes>>
  PROVE  FacteurSuivi' /\ F!AccepteUneFois
<1>1. F!TypeOK /\ Rangee(base, dernier, acceptes) /\ Prouvee(base, prouves, acceptes)
      /\ UneSeulePage(demande)
  BY DEF FacteurSuivi
<1>2. \A t \in Requetes : Sure(reqs[t], base, exige, dernier, prouves)
  BY <1>1, LibreSure DEF FacteurSuivi
<1>3. \A t \in Requetes :
        demande'[t] = [reqs[t] EXCEPT !.actifTenu = @ /\ b.actif, !.exigeTenu = @ /\ e]
  BY DEF F!Observe
<1>4. \A t \in Requetes : /\ demande'[t] \in F!Demandes /\ demande'[t].pc = reqs[t].pc
                          /\ Sure(demande'[t], b, e, dernier, prouves)
  <2> SUFFICES ASSUME NEW t \in Requetes
               PROVE  /\ demande'[t] \in F!Demandes /\ demande'[t].pc = reqs[t].pc
                      /\ Sure(demande'[t], b, e, dernier, prouves)
    OBVIOUS
  <2> DEFINE q == reqs[t]
             p == [q EXCEPT !.actifTenu = @ /\ b.actif]
             o == [p EXCEPT !.exigeTenu = @ /\ e]
  <2>1. q \in F!Demandes /\ Sure(q, base, exige, dernier, prouves) /\ demande'[t] = o
    BY <1>2, <1>3
  <2> HIDE DEF q
  <2>2. b.actif \in BOOLEAN /\ q.actifTenu \in BOOLEAN /\ q.exigeTenu \in BOOLEAN
    BY <2>1 DEF F!Lignes, F!Demandes
  <2>3. p \in F!Demandes
    BY <2>1, <2>2 DEF F!Demandes
  <2>4. /\ p.pc = q.pc /\ p.secret = q.secret /\ p.code = q.code /\ p.porte = q.porte
        /\ p.actifTenu = (q.actifTenu /\ b.actif) /\ p.exigeTenu = q.exigeTenu
    BY <2>1 DEF F!Demandes
  <2> HIDE DEF p
  <2>5. o \in F!Demandes
    BY <2>2, <2>3, <2>4 DEF F!Demandes
  <2>6. /\ o.pc = q.pc /\ o.secret = q.secret /\ o.code = q.code /\ o.porte = q.porte
        /\ o.actifTenu = (q.actifTenu /\ b.actif) /\ o.exigeTenu = (q.exigeTenu /\ e)
    BY <2>3, <2>4 DEF F!Demandes
  <2> HIDE DEF o
  <2>7. Sure(o, b, e, dernier, prouves)
    <3>1. CASE b = base
      BY <2>1, <2>2, <2>6, <3>1 DEF Sure, F!SansCode
    <3>2. CASE b = F!SansSecret
      <4>1. b.secret = F!Aucun /\ ~b.actif
        BY <3>2 DEF F!SansSecret
      <4> QED BY <2>1, <2>2, <2>6, <4>1 DEF Sure, F!SansCode
    <3> QED BY <3>1, <3>2
  <2> QED BY <2>1, <2>5, <2>6, <2>7 DEF q
<1>5. F!TypeOK'
  <2>1. demande' \in [Requetes -> F!Demandes]
    BY <1>4 DEF F!Observe
  <2> QED BY <1>1, <2>1 DEF F!TypeOK
<1>6. Rangee(b, dernier, acceptes)
  <2>1. CASE b = base
    BY <1>1, <2>1
  <2>2. CASE b = F!SansSecret
    <3>1. b.secret = 0 /\ ~b.actif
      BY <2>2 DEF F!SansSecret, F!Aucun
    <3>2. \A p \in F!Heures : <<b.secret, p>> \notin acceptes
      BY <1>1, <3>1, BornesFacteur DEF F!TypeOK, F!Secrets
    <3>3. dernier \in Nat
      BY <1>1, BornesFacteur DEF F!TypeOK
    <3> QED BY <1>1, <3>1, <3>2, <3>3 DEF Rangee
  <2> QED BY <2>1, <2>2
<1>7. Prouvee(b, prouves, acceptes)
  BY <1>1 DEF Prouvee, F!SansSecret
<1>8. UneSeulePage(demande')
  BY <1>1, <1>4 DEF UneSeulePage, F!Libre, F!Onglets
<1>9. F!AccepteUneFois
  BY <1>4 DEF F!AccepteUneFois, F!Libre
<1> QED BY <1>4, <1>5, <1>6, <1>7, <1>8, <1>9 DEF FacteurSuivi

LEMMA PasRetire ==
  ASSUME FacteurSuivi, F!ResetMFA \/ \E r \in Requetes : F!Desactiver(r)
  PROVE  FacteurSuivi' /\ F!AccepteUneFois
<1>1. F!SansSecret \in F!Lignes
  BY DEF F!SansSecret, F!Lignes
<1>2. F!TypeOK /\ demande \in [Requetes -> F!Demandes] /\ exige \in BOOLEAN
      /\ F!Libre \in F!Demandes
  BY LibreSure DEF FacteurSuivi, F!TypeOK
<1>3. CASE F!ResetMFA
  BY <1>1, <1>2, <1>3, PasObserve DEF F!ResetMFA, F!Effacer
<1>4. ASSUME NEW r \in Requetes, F!Desactiver(r) PROVE FacteurSuivi' /\ F!AccepteUneFois
  <2> DEFINE reqs == [demande EXCEPT ![r] = F!Libre]
  <2>1. reqs \in [Requetes -> F!Demandes] /\ \A t \in Requetes : reqs[t] \in {demande[t], F!Libre}
    BY <1>2
  <2>2. /\ base' = F!SansSecret /\ demande' = F!Observe(reqs, F!SansSecret, exige)
        /\ UNCHANGED <<heure, exige, dernier, attentes, prouves, acceptes>>
    BY <1>4 DEF F!Desactiver, F!Effacer
  <2> HIDE DEF reqs
  <2> QED BY <1>1, <1>2, <2>1, <2>2, PasObserve
<1> QED BY <1>3, <1>4

LEMMA PasSetGroupMFARequired ==
  ASSUME FacteurSuivi, NEW e \in BOOLEAN, F!SetGroupMFARequired(e)
  PROVE  FacteurSuivi' /\ F!AccepteUneFois
<1>1. demande \in [Requetes -> F!Demandes] /\ base \in F!Lignes
  BY DEF FacteurSuivi, F!TypeOK
<1> QED BY <1>1, PasObserve DEF F!SetGroupMFARequired, F!historique

LEMMA FacteurPas ==
  ASSUME FacteurSuivi, F!Next
  PROVE  FacteurSuivi' /\ F!AccepteUneFois
<1>1. CASE F!Horloge
  <2>1. heure' \in F!Heures
    BY <1>1, BornesFacteur DEF F!Horloge, FacteurSuivi, F!TypeOK, F!Heures
  <2>2. UNCHANGED <<base, exige, dernier, demande, attentes, prouves, acceptes>>
    BY <1>1 DEF F!Horloge, F!historique
  <2>3. FacteurSuivi'
    BY <2>1, <2>2 DEF FacteurSuivi, F!TypeOK, Sure, Rangee, Prouvee, UneSeulePage
  <2> QED BY <2>2, <2>3 DEF F!AccepteUneFois
<1>2. CASE F!ResetMFA
  BY <1>2, PasRetire
<1>3. CASE \E e \in BOOLEAN : F!SetGroupMFARequired(e)
  BY <1>3, PasSetGroupMFARequired
<1>4. ASSUME NEW r \in Requetes, F!EtapeR(r) PROVE FacteurSuivi' /\ F!AccepteUneFois
  <2>1. CASE \E g \in {"start", "confirm", "disable"}, s \in F!CodesTapes :
               (g = "confirm" \/ s = F!SansSaisie) /\ F!LireProfil(r, g, s)
    BY <2>1, PasLireProfil
  <2>2. CASE \E p \in F!PortesMFA, s \in F!CodesTapes : F!Presenter(r, p, s)
    BY <2>2, PasPresenter
  <2>3. CASE \E t \in Jetons, s \in F!CodesTapes : F!MFAPage(r, t, s)
    BY <2>3, PasMFAPage
  <2>4. CASE F!StartMFAEnrollment(r) \/ F!Confirmer(r) \/ F!ActivateMFA(r) \/ F!Desactiver(r)
    BY <2>4, PasStartMFAEnrollment, PasConfirmer, PasActivateMFA, PasRetire
  <2>5. CASE F!StartSecondFactor(r) \/ F!LireExigence(r) \/ F!Valider(r) \/ F!ConsumeMFACounter(r)
    BY <2>5, PasStartSecondFactor, PasLireExigence, PasValider, PasConsumeMFACounter
  <2>6. CASE F!Repondre(r)
    <3>1. attentes' \in [Jetons -> {F!Absente} \cup 0..(MaxEssais - 1)]
      BY <2>6 DEF F!Repondre, FacteurSuivi, F!TypeOK
    <3> QED BY <2>6, <3>1, PasLibere DEF F!Repondre, F!historique
  <2> QED BY <1>4, <2>1, <2>2, <2>3, <2>4, <2>5, <2>6 DEF F!EtapeR
<1>5. ASSUME NEW t \in Jetons, F!ExpirerEtape(t) PROVE FacteurSuivi' /\ F!AccepteUneFois
  <2>1. attentes' \in [Jetons -> {F!Absente} \cup 0..(MaxEssais - 1)]
    BY <1>5 DEF F!ExpirerEtape, FacteurSuivi, F!TypeOK
  <2> QED BY <1>5, <2>1, FacteurAttentes DEF F!ExpirerEtape, F!historique
<1> QED BY <1>1, <1>2, <1>3, <1>4, <1>5 DEF F!Next

-----------------------------------------------------------------------------
(* The second factor by itself, whatever the bounds of a run.              *)
FacteurPromis == F!TypeOK /\ F!ActifConsomme /\ F!PasseSansCode /\ F!SecretProuve

LEMMA FacteurPromesses == UnSeulOnglet /\ FacteurSuivi => FacteurPromis
<1> SUFFICES ASSUME UnSeulOnglet, FacteurSuivi
             PROVE  F!TypeOK /\ F!ActifConsomme /\ F!PasseSansCode /\ F!SecretProuve
  BY DEF FacteurPromis
<1>1. F!TypeOK /\ F!SecretProuve
  BY DEF FacteurSuivi, F!SecretProuve, Prouvee
<1>2. F!ActifConsomme
  BY DEF FacteurSuivi, F!ActifConsomme, F!Uses, Prouvee, Rangee
<1>3. F!PasseSansCode
  BY DEF FacteurSuivi, F!PasseSansCode, Sure, F!SansCode
<1> QED BY <1>1, <1>2, <1>3

(* As long as the account uses one enrolment page at a time, for any       *)
(* number of requests, doors, secrets and steps of the clock and any       *)
(* setting: an active factor has a secret somebody has shown a code of,    *)
(* whose accepted codes are all behind its counter, and no door passes     *)
(* without a code a request made wholly under an active or required factor.*)
THEOREM FacteurToujours == UnSeulOnglet => (F!Spec => []FacteurPromis)
<1> SUFFICES ASSUME UnSeulOnglet PROVE F!Spec => []FacteurPromis
  OBVIOUS
<1>1. FacteurSuivi /\ [F!Next]_(F!vars) => FacteurSuivi'
  BY FacteurPas, FacteurReste DEF F!vars, facteurVars
<1>2. FacteurSuivi => FacteurPromis
  BY FacteurPromesses
<1> QED BY <1>1, <1>2, FacteurDepart, PTL DEF F!Spec

(* Whatever the pages and the doors, a code of the secret in force is      *)
(* accepted once, and never after a later one (consume_mfacounter.go).     *)
THEOREM CodeToujoursUnique == F!Spec => [][F!AccepteUneFois]_(F!vars)
<1>1. FacteurSuivi /\ [F!Next]_(F!vars) => FacteurSuivi' /\ [F!AccepteUneFois]_(F!vars)
  BY FacteurPas, FacteurReste DEF F!vars, facteurVars
<1> QED BY <1>1, FacteurDepart, PTL DEF F!Spec

FacteurInv == partie = "facteur" => FacteurSuivi

LEMMA FacteurEtape ==
  ASSUME FacteurInv, [Pas]_tout
  PROVE  FacteurInv' /\ (partie = "facteur" /\ ~UNCHANGED tout => F!AccepteUneFois)
<1>1. CASE UNCHANGED tout
  BY <1>1, FacteurReste DEF FacteurInv, tout
<1>2. CASE Pas /\ partie # "facteur"
  BY <1>2 DEF FacteurInv, Pas
<1>3. CASE Pas /\ partie = "facteur"
  <2>1. F!Next /\ partie' = partie
    BY <1>3 DEF Pas
  <2> QED BY <1>3, <2>1, FacteurPas DEF FacteurInv
<1> QED BY <1>1, <1>2, <1>3

LEMMA FacteurInvariant == Ensemble => []FacteurInv
<1>1. Depart => FacteurInv
  BY FacteurDepart DEF Depart, FacteurInv
<1>2. FacteurInv /\ [Pas]_tout => FacteurInv'
  BY FacteurEtape
<1> QED BY <1>1, <1>2, PTL DEF Ensemble

(* The same of the part of the second factor in the run.                   *)
THEOREM FacteurCorrect == UnSeulOnglet => (Ensemble => []FacteurTenu)
<1> SUFFICES ASSUME UnSeulOnglet PROVE Ensemble => []FacteurTenu
  OBVIOUS
<1>1. FacteurInv => FacteurTenu
  BY FacteurPromesses DEF FacteurInv, FacteurTenu, FacteurPromis
<1> QED BY <1>1, FacteurInvariant, PTL

(* The same of the part of the second factor in the run.                   *)
THEOREM CodeUnique == Ensemble => CodeConsommeUneFois
<1>1. FacteurInv /\ [Pas]_tout => [partie = "facteur" => F!AccepteUneFois]_tout
  BY FacteurEtape
<1> QED BY <1>1, FacteurInvariant, PTL DEF Ensemble, CodeConsommeUneFois
=============================================================================
