---------------------------- MODULE CommandesApi ----------------------------
(***************************************************************************)
(* The commands of the HTTP API (core/api, core/auth/ratelimit/debit.go):  *)
(* a token bucket by source before anything is read, then the signature,   *)
(* then the date and the nonce of the request.  A signed request may reach *)
(* the core more than once (a client that repeats it after a lost answer,  *)
(* a network that does); the clock of its client is not the core's.        *)
(***************************************************************************)
EXTENDS Integers, Sequences, FiniteSets, FiniteSetsExt

CONSTANTS
    Sources, Vide,     \* where a request comes from; Vide: unknown, never slowed
    Demandes,          \* the signed requests, each with a nonce of its own
    Fils,              \* the handlers running at once
    Rafale, ParSeconde,\* the bucket: what it holds, what it gains by unit of time
    PurgeDebit,        \* the time between two purges of the buckets
    Fenetre,           \* replayWindow
    PurgeNonces,       \* replayPurgeEvery
    Derives,           \* the clock of a client minus the core's
    Attente,           \* may time pass between the reading of the clock and the lock?
    MaxTemps, MaxAcceptes, MaxVies  \* bounds

Reglages ==
    /\ Vide \notin Sources
    /\ Rafale \in Nat \ {0} /\ ParSeconde \in Nat \ {0}
    /\ PurgeDebit \in Nat /\ Fenetre \in Nat /\ PurgeNonces \in Nat
    /\ Derives \subseteq Int /\ Attente \in BOOLEAN
    /\ MaxTemps \in Nat \ {0} /\ MaxAcceptes \in Nat /\ MaxVies \in Nat \ {0}

VARIABLES
    seau,           \* by source, a bucket or Neuf
    dernierePurge,
    vus,            \* the nonces remembered and when (0: not remembered)
    lastPurge,
    signee,         \* by request, the date its client wrote, or Jamais
    fil,            \* the handlers
    pris,           \* by source, the instants of the tokens taken in this life
    executees,      \* by request, its executions in this life of the core
    temps, vie

vars == <<seau, dernierePurge, vus, lastPurge, signee, fil, pris, executees, temps, vie>>

Neuf   == [jetons |-> Rafale, vu |-> 0]
Jamais == -100
Libre  == [pc |-> "libre", demande |-> {}, lu |-> 0]

Init ==
    /\ seau = [s \in Sources |-> Neuf]
    /\ dernierePurge = 0
    /\ vus = [d \in Demandes |-> 0]
    /\ lastPurge = 0
    /\ signee = [d \in Demandes |-> Jamais]
    /\ fil = [f \in Fils |-> Libre]
    /\ pris = [s \in Sources |-> <<>>]
    /\ executees = [d \in Demandes |-> 0]
    /\ temps = 1
    /\ vie = 1

(***************************************************************************)
(* The bucket.  A source whose bucket is full again is forgotten.          *)
(***************************************************************************)
Plein == Rafale \div ParSeconde

(* Mutant of Purges: a bucket is forgotten one refill too early. *)
Purges_tropTot(n) ==
    [s \in Sources |-> IF seau[s].vu # 0 /\ n - seau[s].vu >= ParSeconde THEN Neuf ELSE seau[s]]

Purges(n) ==
    [s \in Sources |-> IF seau[s].vu # 0 /\ n - seau[s].vu > Plein THEN Neuf ELSE seau[s]]

(* Mutant of Rempli: the refill is not capped. *)
Rempli_sansPlafond(b, n) ==
    IF b.vu = 0 THEN Rafale ELSE b.jetons + (n - b.vu) * ParSeconde

(* Mutant of Rempli: a bucket seen again is not refilled. *)
Rempli_jamais(b, n) == IF b.vu = 0 THEN Rafale ELSE b.jetons

Rempli(b, n) ==
    IF b.vu = 0 THEN Rafale
    ELSE Min({Rafale, b.jetons + (n - b.vu) * ParSeconde})

\* Prendre: the purge, the refill, then a token if there is one.  Accepte says
\* whether there was.
Prendre(s, accepte) ==
    LET purge == temps - dernierePurge >= PurgeDebit
        table == IF purge THEN Purges(temps) ELSE seau
        reste == Rempli(table[s], temps)
    IN  /\ dernierePurge' = IF purge THEN temps ELSE dernierePurge
        /\ accepte = (reste >= 1)
        /\ seau' = [table EXCEPT ![s] = [jetons |-> IF accepte THEN reste - 1 ELSE reste,
                                         vu |-> temps]]
        /\ accepte => Len(pris[s]) < MaxAcceptes
        /\ pris' = IF accepte THEN [pris EXCEPT ![s] = Append(@, temps)] ELSE pris

(***************************************************************************)
(* The requests.                                                           *)
(***************************************************************************)
\* A client dates and signs a request, with its own clock.
Signer(d) ==
    /\ signee[d] = Jamais
    /\ \E e \in Derives : signee' = [signee EXCEPT ![d] = temps + e]
    /\ UNCHANGED <<seau, dernierePurge, vus, lastPurge, fil, pris, executees, temps, vie>>

\* The signature is right for a key of the account; an unknown or revoked
\* account, one without a key or a wrong signature go through the same steps
\* and are all refused at the end.
Authentifier(contenu) == contenu # {}

\* A request reaches the core: a signed one, maybe not for the first time, or
\* something that is none ({}).  Past the bucket it is read and its signature
\* verified; anything but a signed request ends there.
Recevoir(f, s, contenu) ==
    /\ fil[f].pc = "libre"
    /\ \A d \in contenu : signee[d] # Jamais
    /\ \E accepte \in BOOLEAN :
          /\ IF s = Vide
             THEN accepte /\ UNCHANGED <<seau, dernierePurge, pris>>
             ELSE Prendre(s, accepte)
          /\ fil' = IF accepte /\ Authentifier(contenu)
                    THEN [fil EXCEPT ![f] = [Libre EXCEPT !.pc = "authentifiee",
                                                          !.demande = contenu]]
                    ELSE fil
    /\ UNCHANGED <<vus, lastPurge, signee, executees, temps, vie>>

\* checkFreshness reads the clock, then compares it with the date.
Dater(f) ==
    /\ fil[f].pc = "authentifiee"
    /\ \A d \in fil[f].demande :
          fil' = [fil EXCEPT ![f] =
                    IF temps - signee[d] \in -Fenetre..Fenetre
                    THEN [@ EXCEPT !.pc = "datee", !.lu = temps] ELSE Libre]
    /\ UNCHANGED <<seau, dernierePurge, vus, lastPurge, signee, pris, executees, temps, vie>>

(* Mutant of Retenir: the purge forgets at its own period. *)
Retenir_periode(f) ==
    /\ fil[f].pc = "datee"
    /\ LET n     == fil[f].lu
           purge == n - lastPurge > PurgeNonces
           table == [d \in Demandes |-> IF purge /\ n - vus[d] > PurgeNonces THEN 0 ELSE vus[d]]
           connu == {d \in fil[f].demande : table[d] # 0}
       IN  /\ lastPurge' = IF purge THEN n ELSE lastPurge
           /\ vus' = [d \in Demandes |-> IF d \in fil[f].demande \ connu THEN n ELSE table[d]]
           /\ fil' = [fil EXCEPT ![f] = IF connu = {} THEN [@ EXCEPT !.pc = "admise"] ELSE Libre]
    /\ UNCHANGED <<seau, dernierePurge, signee, pris, executees, temps, vie>>

\* remember, under its lock: the purge, the test and the insertion, with the
\* clock read before the lock; then the command is executed.
Retenir(f) ==
    /\ fil[f].pc = "datee"
    /\ LET n     == fil[f].lu
           purge == n - lastPurge > PurgeNonces
           table == [d \in Demandes |-> IF purge /\ n - vus[d] > Fenetre THEN 0 ELSE vus[d]]
           connu == {d \in fil[f].demande : table[d] # 0}
       IN  /\ lastPurge' = IF purge THEN n ELSE lastPurge
           /\ vus' = [d \in Demandes |-> IF d \in fil[f].demande \ connu THEN n ELSE table[d]]
           /\ fil' = [fil EXCEPT ![f] = IF connu = {} THEN [@ EXCEPT !.pc = "admise"] ELSE Libre]
    /\ UNCHANGED <<seau, dernierePurge, signee, pris, executees, temps, vie>>

Executer(f) ==
    /\ fil[f].pc = "admise"
    /\ executees' = [d \in Demandes |->
                       IF d \in fil[f].demande THEN executees[d] + 1 ELSE executees[d]]
    /\ fil' = [fil EXCEPT ![f] = Libre]
    /\ UNCHANGED <<seau, dernierePurge, vus, lastPurge, signee, pris, temps, vie>>

\* The core stops and starts again: nothing of the above is kept.
Redemarrer ==
    /\ vie < MaxVies
    /\ vie' = vie + 1
    /\ seau' = [s \in Sources |-> Neuf]
    /\ dernierePurge' = 0
    /\ vus' = [d \in Demandes |-> 0]
    /\ lastPurge' = 0
    /\ fil' = [f \in Fils |-> Libre]
    /\ pris' = [s \in Sources |-> <<>>]
    /\ executees' = [d \in Demandes |-> 0]
    /\ UNCHANGED <<signee, temps>>

Passer ==
    /\ temps < MaxTemps
    /\ Attente \/ \A f \in Fils : fil[f].pc # "datee"
    /\ temps' = temps + 1
    /\ UNCHANGED <<seau, dernierePurge, vus, lastPurge, signee, fil, pris, executees, vie>>

Next ==
    \/ \E d \in Demandes : Signer(d)
    \/ \E f \in Fils :
          \/ \E s \in Sources \cup {Vide}, c \in {{}} \cup {{d} : d \in Demandes} : Recevoir(f, s, c)
          \/ Dater(f) \/ Retenir(f) \/ Executer(f)
    \/ Redemarrer
    \/ Passer

Spec == Init /\ [][Next]_vars

(***************************************************************************)
(* Properties.                                                             *)
(***************************************************************************)
TypeOK ==
    /\ seau \in [Sources -> [jetons : 0..Rafale, vu : 0..temps]]
    /\ dernierePurge \in 0..temps /\ lastPurge \in 0..temps
    /\ vus \in [Demandes -> 0..temps]
    /\ \A f \in Fils : /\ fil[f].pc \in {"libre", "authentifiee", "datee", "admise"}
                       /\ fil[f].demande \subseteq Demandes /\ fil[f].lu \in 0..temps
    /\ temps \in 1..MaxTemps /\ vie \in 1..MaxVies

\* Whatever the purges, a source never gets through more requests in an
\* interval than a full bucket and what the interval refills
\* (Debit.Prendre, purgerSiNecessaire).
VolumeBorne ==
    \A s \in Sources : \A i \in 1..Len(pris[s]) : \A j \in i..Len(pris[s]) :
       j - i + 1 <= Rafale + (pris[s][j] - pris[s][i]) * ParSeconde

\* The throttle never costs a legitimate burst: a source that was refused had
\* taken a whole bucket and its refills by then: it is never refused below its rate.
RefusMerite ==
    \A s \in Sources :
      (seau'[s].vu # 0 /\ seau'[s] # seau[s] /\ pris'[s] = pris[s])
         => \E i \in 1..Len(pris[s]) :
               Len(pris[s]) - i + 1 >= Rafale + (temps - pris[s][i]) * ParSeconde
RafalePasse == [][RefusMerite]_vars

\* While one life of the core lasts, no request is executed twice, however many
\* handlers hold it at once: the window of the date and the memory of the nonce
\* cover each other (checkFreshness, remember).
JamaisDeuxFois == \A d \in Demandes : executees[d] <= 1
=============================================================================
