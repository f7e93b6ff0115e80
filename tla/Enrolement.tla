----------------------------- MODULE Enrolement -----------------------------
(***************************************************************************)
(* The enrolment of a service: a connection that carries 01_05 to 01_08,   *)
(* the statements of the core on the enrolment keys and the clients, and   *)
(* the identity and the pair of keys the service writes on its own disk.   *)
(*                                                                         *)
(* A place of the key is counted before the client is created; the client  *)
(* exists before its public key arrives; the service writes its identity,  *)
(* then its pair, before it sends that public key.  Everything can stop in *)
(* between.  Identifiers and pairs are numbers, never given twice.         *)
(***************************************************************************)
EXTENDS Integers, FiniteSets, FiniteSetsExt

CONSTANTS
    Services,       \* the services, one process each
    Cles,           \* the enrolment keys
    Quota,          \* the uses of each, 0 for no limit
    MaxConnexions,  \* bound on the connections opened
    MaxPannes,      \* bound on cuts, stops and failed statements
    ChuteDuCore,    \* the core may stop
    FenetreOuverte  \* a failure may strike between the identity a service
                    \* writes and the record of its public key

ASSUME Parametres ==
    /\ IsFiniteSet(Services) /\ IsFiniteSet(Cles) /\ "nul" \notin Cles
    /\ Quota \in [Cles -> Nat]
    /\ MaxConnexions \in Nat /\ MaxPannes \in Nat
    /\ ChuteDuCore \in BOOLEAN /\ FenetreOuverte \in BOOLEAN

Connexions == 1..MaxConnexions

VARIABLES
    cle,      \* service_enrollment_key
    client,   \* id_logiciels: by identifier, the key used and the public key
    trace,    \* service_enrollment_use: the identifiers recorded
    cnx,      \* the connections: what the core is doing, the frames in flight
    service,  \* the process of each service
    disque,   \* what each service has written: its identity, its pair
    pannes    \* the failures so far

vars == <<cle, client, trace, cnx, service, disque, pannes>>

SansClient    == [par |-> "nul", publique |-> 0]
CnxNeuve      == [ouverte |-> FALSE, pc |-> "neuve", cle |-> "nul", id |-> 0,
                  vers |-> "rien", paire |-> 0]
Etapes        == {"neuve", "demande", "relire", "creer", "rendre", "confirmer",
                  "attend07", "recu07", "finie"}
EtapesService == {"arret", "attend06", "generer", "envoyer", "attend08", "pret"}

TypeOK ==
    /\ cle \in [Cles -> [compte : Nat, vive : BOOLEAN]]
    /\ client \in [Connexions -> [par : Cles \cup {"nul"}, publique : 0..MaxConnexions]]
    /\ trace \subseteq Connexions
    /\ cnx \in [Connexions -> [ouverte : BOOLEAN, pc : Etapes, cle : Cles \cup {"nul"},
                               id : 0..MaxConnexions, paire : 0..MaxConnexions,
                               vers : {"rien", "01_06", "01_08", "01_09"}]]
    /\ service \in [Services -> [pc : EtapesService, cnx : 0..MaxConnexions]]
    /\ disque \in [Services -> [ident : 0..MaxConnexions, paire : 0..MaxConnexions + 1]]
    /\ pannes \in 0..MaxPannes

\* A pair left by an earlier life of the service, that no core ever saw.
PaireAncienne == MaxConnexions + 1

Init ==
    /\ cle = [k \in Cles |-> [compte |-> 0, vive |-> TRUE]]
    /\ client = [i \in Connexions |-> SansClient]
    /\ trace = {}
    /\ cnx = [t \in Connexions |-> CnxNeuve]
    /\ service = [s \in Services |-> [pc |-> "arret", cnx |-> 0]]
    /\ disque \in [Services -> [ident : {0}, paire : {0, PaireAncienne}]]
    /\ pannes = 0

(***************************************************************************)
(* The service.                                                            *)
(***************************************************************************)
Connu(s)       == disque[s].ident # 0
AvecPaire(s)   == disque[s].paire # 0

\* Nothing to do when the identity and the private key are both there.
IdentiteEnPlace(s) == Connu(s) /\ AvecPaire(s)

\* ensureIdentity, then the connection and 01_05.
Demarrer(s) ==
    /\ service[s].pc = "arret"
    /\ \/ /\ IdentiteEnPlace(s)
          /\ service' = [service EXCEPT ![s].pc = "pret"]
          /\ UNCHANGED cnx
       \/ /\ ~IdentiteEnPlace(s)
          /\ \E t \in Connexions, k \in Cles :
                /\ cnx[t].pc = "neuve"
                /\ \A u \in Connexions : u < t => cnx[u].pc # "neuve"
                /\ cnx' = [cnx EXCEPT ![t].ouverte = TRUE, ![t].pc = "demande", ![t].cle = k]
                /\ service' = [service EXCEPT ![s] = [pc |-> "attend06", cnx |-> t]]
    /\ UNCHANGED <<cle, client, trace, disque, pannes>>

Ici(s, trame) == cnx[service[s].cnx].vers = trame

\* 01_06: the identity is written at once.
RecevoirIdentite(s) ==
    /\ service[s].pc = "attend06" /\ Ici(s, "01_06")
    /\ disque' = [disque EXCEPT ![s].ident = cnx[service[s].cnx].id]
    /\ service' = [service EXCEPT ![s].pc = "generer"]
    /\ cnx' = [cnx EXCEPT ![service[s].cnx].vers = "rien"]
    /\ UNCHANGED <<cle, client, trace, pannes>>

\* The pair, the private key first; its number is that of the connection.
GenererPaire(s) ==
    /\ service[s].pc = "generer"
    /\ disque' = [disque EXCEPT ![s].paire = service[s].cnx]
    /\ service' = [service EXCEPT ![s].pc = "envoyer"]
    /\ UNCHANGED <<cle, client, trace, cnx, pannes>>

EnvoyerCle(s) ==
    /\ service[s].pc = "envoyer"
    /\ LET t == service[s].cnx IN
       /\ cnx[t].ouverte /\ cnx[t].pc = "attend07"
       /\ cnx' = [cnx EXCEPT ![t].pc = "recu07", ![t].paire = disque[s].paire]
    /\ service' = [service EXCEPT ![s].pc = "attend08"]
    /\ UNCHANGED <<cle, client, trace, disque, pannes>>

\* 01_08 is read with the private key.
RecevoirConfirmation(s) ==
    /\ service[s].pc = "attend08" /\ Ici(s, "01_08")
    /\ service' = [service EXCEPT ![s].pc = "pret"]
    /\ cnx' = [cnx EXCEPT ![service[s].cnx].vers = "rien"]
    /\ UNCHANGED <<cle, client, trace, disque, pannes>>

\* A refusal, or a connection that ends: the start fails.
Echouer(s) ==
    /\ service[s].pc \notin {"arret", "pret"}
    /\ service[s].pc # "generer"
    /\ \/ Ici(s, "01_09")
       \/ ~cnx[service[s].cnx].ouverte /\ Ici(s, "rien")
    /\ service' = [service EXCEPT ![s] = [pc |-> "arret", cnx |-> 0]]
    /\ UNCHANGED <<cle, client, trace, cnx, disque, pannes>>

(* Mutant of Utilisable: the quota is reached one place later. *)
Utilisable_unDePlus(k) == cle[k].vive /\ (Quota[k] = 0 \/ cle[k].compte <= Quota[k])

(***************************************************************************)
(* The core, on 01_05.                                                     *)
(***************************************************************************)
Utilisable(k) == cle[k].vive /\ (Quota[k] = 0 \/ cle[k].compte < Quota[k])

(* Mutant of Refus: the code of the refusal is not the one the service knows. *)
Refus_code(c) == [c EXCEPT !.pc = "finie", !.vers = "01_10", !.ouverte = FALSE, !.id = 0]

(* Mutant of Refus: the refusal leaves the connection open and silent. *)
Refus_muet(c) == [c EXCEPT !.pc = "finie", !.id = 0]

\* The answer ends the connection; it is lost if that has ended already.
Refus(c) == [c EXCEPT !.pc = "finie", !.vers = IF c.ouverte THEN "01_09" ELSE "rien",
                      !.ouverte = FALSE, !.id = 0]

\* One statement, whose condition is in its WHERE.
Reserve(t) ==
    /\ cnx[t].pc = "demande"
    /\ \/ /\ Utilisable(cnx[t].cle)
          /\ cle' = [cle EXCEPT ![cnx[t].cle].compte = @ + 1]
          /\ cnx' = [cnx EXCEPT ![t].pc = "relire"]
       \/ /\ ~Utilisable(cnx[t].cle)
          /\ cnx' = [cnx EXCEPT ![t] = Refus(@)]
          /\ UNCHANGED cle
    /\ UNCHANGED <<client, trace, service, disque, pannes>>

Panne(ok) == pannes' = IF ok THEN pannes ELSE pannes + 1
Peut(ok)  == ok \/ pannes < MaxPannes

\* A failure after the identity was written and before the key is recorded.
DansLaFenetre(s) ==
    /\ service[s].pc \in {"generer", "envoyer", "attend08"}
    /\ cnx[service[s].cnx].vers # "01_08"
CnxDansLaFenetre(t) == \E s \in Services : service[s].cnx = t /\ DansLaFenetre(s)

\* The key is read again; a failure loses the place.
Relire(t, ok) ==
    /\ cnx[t].pc = "relire" /\ Peut(ok)
    /\ cnx' = [cnx EXCEPT ![t] = IF ok THEN [@ EXCEPT !.pc = "creer"] ELSE Refus(@)]
    /\ Panne(ok)
    /\ UNCHANGED <<cle, client, trace, service, disque>>

\* The client, without a public key.  A refusal of the type or a failure
\* gives the place back.
Creer(t, ok) ==
    /\ cnx[t].pc = "creer" /\ Peut(ok)
    /\ client' = IF ok THEN [client EXCEPT ![t] = [par |-> cnx[t].cle, publique |-> 0]]
                       ELSE client
    /\ cnx' = [cnx EXCEPT ![t].pc = IF ok THEN "confirmer" ELSE "rendre"]
    /\ Panne(ok)
    /\ UNCHANGED <<cle, trace, service, disque>>

(* Mutant of Rendue: the place is given back twice, by the failure and by the refusal. *)
Rendue_deux(n) == IF n > 1 THEN n - 2 ELSE 0

Rendue(n) == IF n > 0 THEN n - 1 ELSE n

Release(t, ok) ==
    /\ cnx[t].pc = "rendre" /\ Peut(ok)
    /\ cle' = IF ok THEN [cle EXCEPT ![cnx[t].cle].compte = Rendue(@)] ELSE cle
    /\ cnx' = [cnx EXCEPT ![t] = Refus(@)]
    /\ Panne(ok)
    /\ UNCHANGED <<client, trace, service, disque>>

\* The use is recorded, or not; the session keeps the identifier and 01_06
\* goes out.
Confirm(t, ok) ==
    /\ cnx[t].pc = "confirmer" /\ Peut(ok)
    /\ trace' = IF ok THEN trace \cup {t} ELSE trace
    /\ cnx' = [cnx EXCEPT ![t].id = t, ![t].pc = "attend07",
                          ![t].vers = IF cnx[t].ouverte THEN "01_06" ELSE "rien"]
    /\ Panne(ok)
    /\ UNCHANGED <<cle, client, service, disque>>

(* Mutant of HandleEnrollPublicKey: 01_08 goes out before the statement. *)
HandleEnrollPublicKey_avant(t, ok) ==
    /\ cnx[t].pc = "recu07" /\ Peut(ok)
    /\ cnx' = [cnx EXCEPT ![t].pc = "finie", ![t].id = 0, ![t].ouverte = FALSE,
                          ![t].vers = IF cnx[t].ouverte THEN "01_08" ELSE "rien"]
    /\ client' = IF ok THEN [client EXCEPT ![cnx[t].id].publique = cnx[t].paire] ELSE client
    /\ Panne(ok)
    /\ UNCHANGED <<cle, trace, service, disque>>

(***************************************************************************)
(* The core, on 01_07: the identifier is that of the session.              *)
(***************************************************************************)
HandleEnrollPublicKey(t, ok) ==
    /\ cnx[t].pc = "recu07" /\ Peut(ok)
    /\ ok \/ FenetreOuverte
    /\ IF ok
       THEN /\ client' = [client EXCEPT ![cnx[t].id].publique = cnx[t].paire]
            /\ cnx' = [cnx EXCEPT ![t].pc = "finie", ![t].id = 0, ![t].ouverte = FALSE,
                                  ![t].vers = IF cnx[t].ouverte THEN "01_08" ELSE "rien"]
       ELSE /\ cnx' = [cnx EXCEPT ![t] = Refus(@)]
            /\ UNCHANGED client
    /\ Panne(ok)
    /\ UNCHANGED <<cle, trace, service, disque>>

(***************************************************************************)
(* What surrounds them.                                                    *)
(***************************************************************************)
\* An administrator revokes a key, or its date passes.
RevokeKey(k) ==
    /\ cle[k].vive
    /\ cle' = [cle EXCEPT ![k].vive = FALSE]
    /\ UNCHANGED <<client, trace, cnx, service, disque, pannes>>

\* The connection is cut, or closed by the deadline of the core: what is in
\* flight to the service is lost, what is in flight to the core may be, and
\* the handler that runs goes on.
Fermee(c, perdue) ==
    [c EXCEPT !.ouverte = FALSE, !.vers = "rien",
              !.pc = IF c.pc = "attend07" \/ (perdue /\ c.pc \in {"demande", "recu07"})
                     THEN "finie" ELSE @]

Couper(t) ==
    /\ pannes < MaxPannes
    /\ cnx[t].ouverte
    /\ FenetreOuverte \/ ~CnxDansLaFenetre(t)
    /\ \E perdue \in BOOLEAN : cnx' = [cnx EXCEPT ![t] = Fermee(@, perdue)]
    /\ pannes' = pannes + 1
    /\ UNCHANGED <<cle, client, trace, service, disque>>

ArreterService(s) ==
    /\ pannes < MaxPannes
    /\ service[s].pc \notin {"arret", "pret"}
    /\ FenetreOuverte \/ ~DansLaFenetre(s)
    /\ service' = [service EXCEPT ![s] = [pc |-> "arret", cnx |-> 0]]
    /\ \E perdue \in BOOLEAN :
          cnx' = [cnx EXCEPT ![service[s].cnx] = Fermee(@, perdue)]
    /\ pannes' = pannes + 1
    /\ UNCHANGED <<cle, client, trace, disque>>

\* The core stops: its handlers and connections go with it.
ArreterCore ==
    /\ ChuteDuCore
    /\ pannes < MaxPannes
    /\ FenetreOuverte \/ \A s \in Services : ~DansLaFenetre(s)
    /\ cnx' = [t \in Connexions |-> IF cnx[t].pc = "neuve" THEN cnx[t]
                                    ELSE [Fermee(cnx[t], TRUE) EXCEPT !.pc = "finie", !.id = 0]]
    /\ pannes' = pannes + 1
    /\ UNCHANGED <<cle, client, trace, service, disque>>

Next ==
    \/ \E s \in Services :
          \/ Demarrer(s) \/ RecevoirIdentite(s) \/ GenererPaire(s) \/ EnvoyerCle(s)
          \/ RecevoirConfirmation(s) \/ Echouer(s) \/ ArreterService(s)
    \/ \E t \in Connexions :
          \/ Reserve(t) \/ Couper(t)
          \/ \E ok \in BOOLEAN : \/ Relire(t, ok) \/ Creer(t, ok) \/ Release(t, ok)
                                 \/ Confirm(t, ok) \/ HandleEnrollPublicKey(t, ok)
    \/ \E k \in Cles : RevokeKey(k)
    \/ ArreterCore

\* The processes run; a service whose start failed is started again.
Equite ==
    /\ \A s \in Services :
          /\ WF_vars(Demarrer(s)) /\ WF_vars(RecevoirIdentite(s)) /\ WF_vars(GenererPaire(s))
          /\ WF_vars(EnvoyerCle(s)) /\ WF_vars(RecevoirConfirmation(s)) /\ WF_vars(Echouer(s))
    /\ \A t \in Connexions :
          /\ WF_vars(Reserve(t))
          /\ WF_vars(\E ok \in BOOLEAN : \/ Relire(t, ok) \/ Creer(t, ok) \/ Release(t, ok)
                                         \/ Confirm(t, ok) \/ HandleEnrollPublicKey(t, ok))

Spec      == Init /\ [][Next]_vars
SpecJuste == Spec /\ Equite

(***************************************************************************)
(* Properties.                                                             *)
(***************************************************************************)
Crees(k)   == {i \in Connexions : client[i].par = k}
EnVol(k)   == {t \in Connexions : cnx[t].cle = k /\ cnx[t].pc \in {"relire", "creer", "rendre"}}

\* The count of a key covers every client created with it and every place a
\* running enrolment holds, whatever fails or stops: a use given back is one
\* that created nobody.
CompteCouvre ==
    \A k \in Cles : Cardinality(Crees(k)) + Cardinality(EnVol(k)) <= cle[k].compte

\* A key never creates more clients than its quota, with any number of
\* services presenting it at once.
QuotaTenu ==
    \A k \in Cles : Quota[k] # 0 => Cardinality(Crees(k)) <= Quota[k]

\* A service that is told its enrolment is done holds the private key of the
\* public key the core recorded under its identity: the same connection, the
\* same identifier and the same pair to the end.
ConfirmationJuste ==
    \A s \in Services :
       (service[s].pc = "attend08" /\ cnx[service[s].cnx].vers = "01_08")
          => client[disque[s].ident].publique = disque[s].paire

\* What the keys and the answers promise, together.
QuotaJuste == TypeOK /\ CompteCouvre /\ QuotaTenu /\ ConfirmationJuste

Enrole(s) == Connu(s) /\ client[disque[s].ident].publique = disque[s].paire

\* A service that goes on to log in can: the core holds its public key
\* (ensureIdentity: better to enrol again than to fail for ever).
PretUtilisable == \A s \in Services : service[s].pc = "pret" => Enrole(s)

\* A service keeps trying until it is enrolled, unless its keys are used up
\* or revoked.
FinitParEnroler ==
    \A s \in Services :
       <>(\/ service[s].pc = "pret" /\ Enrole(s)
          \/ \A k \in Cles : ~Utilisable(k)
          \/ \A t \in Connexions : cnx[t].pc # "neuve")

\* "La perte ne subsiste que si le serveur tombe entre les deux
\* instructions": without a stop of the core no place is lost.
PlaceJamaisPerdue ==
    \A k \in Cles : cle[k].compte = Cardinality(Crees(k)) + Cardinality(EnVol(k))
=============================================================================
