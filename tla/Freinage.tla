------------------------------ MODULE Freinage ------------------------------
(***************************************************************************)
(* The throttle of the password checks (core/auth/ratelimit): a counter by *)
(* account and one by source, shared by every door.  A door asks whether   *)
(* the attempt may be evaluated, evaluates it without the lock, then       *)
(* reports a failure or a success: other attempts come in between.  The    *)
(* delay of a counter is a shift of a machine word, which overflows.       *)
(***************************************************************************)
EXTENDS Integers, FiniteSets, FiniteSetsExt

CONSTANTS
    Comptes, Sources,  \* the keys of the two tables
    Vide,              \* no account or no source: no counter
    Tentatives,        \* the attempts that may be under way at once
    EssaisGratuits,    \* failures without a delay
    DelaiMaximum,      \* the cap of a delay
    Oubli,             \* the silence after which a counter is worth nothing
    Impair, Zeros,     \* DelaiBase in units of the clock: Impair * 2^Zeros
    Largeur,           \* the width of a Duration, in bits
    MaxTemps,          \* bound on time
    MaxEchecs,         \* bound on the failures of a counter
    Sauts              \* how far time may go at once

Bareme ==
    /\ Comptes \cap Sources = {} /\ Vide \notin Comptes \cup Sources
    /\ EssaisGratuits \in Nat /\ DelaiMaximum \in Nat \ {0}
    /\ Oubli \in Nat /\ DelaiMaximum < Oubli
    /\ Impair \in Nat \ {0} /\ Zeros \in Nat /\ Largeur \in Nat \ {0}
    /\ MaxTemps \in Nat /\ MaxEchecs \in Nat /\ Sauts \subseteq Nat \ {0}

VARIABLES
    compteur,       \* the two tables: by key, a counter or Aucun
    temoin,         \* the same without any purge: what the purge must not change
    dernierePurge,
    tentative,      \* the attempts under way
    rejets,         \* by key, the attempts rejected since the last one accepted
    temps

vars == <<compteur, temoin, dernierePurge, tentative, rejets, temps>>

Entrees == Comptes \cup Sources
Aucun   == [echecs |-> 0, dernier |-> 0, refuse |-> 0]
Repos   == [pc |-> "repos", cles |-> {}, admise |-> 0]

TypeOK ==
    /\ \A t \in {compteur, temoin} :
          t \in [Entrees -> [echecs : 0..MaxEchecs, dernier : Nat, refuse : Nat]]
    /\ dernierePurge \in 0..temps
    /\ tentative \in [Tentatives -> [pc : {"repos", "evalue", "second"}, cles : SUBSET Entrees,
                                     admise : 0..temps]]
    /\ rejets \in [Entrees -> 0..EssaisGratuits + 1]
    /\ temps \in Nat

Init ==
    /\ compteur = [c \in Entrees |-> Aucun]
    /\ temoin = [c \in Entrees |-> Aucun]
    /\ dernierePurge = 1
    /\ tentative = [t \in Tentatives |-> Repos]
    /\ rejets = [c \in Entrees |-> 0]
    /\ temps = 1

(***************************************************************************)
(* The delay of a counter: DelaiBase shifted by the failures beyond the    *)
(* free ones, in a signed word, then capped.                               *)
(***************************************************************************)
\* How many bits a number takes.
Bits(n)  == CHOOSE b \in 0..31 : n < 2^b /\ (b = 0 \/ n >= 2^(b - 1))

\* DelaiBase << k, in units of DelaiBase.  The word keeps Largeur - Zeros - k
\* bits of Impair; the highest of them is the sign.  A word that overflowed
\* and stays positive is some multiple of 2^(Zeros + k) units of the clock.
Decale(k) ==
    LET place == Largeur - Zeros - k
        garde == IF place <= 0 THEN 0
                 ELSE IF place > Bits(Impair) THEN Impair ELSE Impair % (2^place)
    IN  IF place > Bits(Impair) THEN 2^Min({k, 30})
        ELSE IF garde = 0 THEN 0
        ELSE IF garde >= 2^(place - 1) THEN -1
        ELSE DelaiMaximum + 1

(* Mutant of Plafonne: the overflow is not caught. *)
Plafonne_sansSigne(d) == IF d > DelaiMaximum THEN DelaiMaximum ELSE IF d < 0 THEN 0 ELSE d

(* Mutant of Plafonne: beyond the cap the scale starts again. *)
Plafonne_reprise(d) == IF d > DelaiMaximum \/ d <= 0 THEN 1 ELSE d

Plafonne(d) == IF d > DelaiMaximum \/ d <= 0 THEN DelaiMaximum ELSE d

\* The word loses a bit of the delay only beyond the cap, which is in reach.
MotAssezLarge ==
    /\ Bits(Impair) \in 0..31 /\ DelaiMaximum <= 2^20
    /\ \A k \in 0..20 : Largeur - Zeros - k <= Bits(Impair) => DelaiMaximum <= 2^k

Delai(n) == Plafonne(Decale(n - EssaisGratuits - 1))

(***************************************************************************)
(* The operations, each under the lock.                                    *)
(***************************************************************************)
Perime(c) == temps - c.dernier > Oubli

(* Mutant of Purgee: a counter is purged one instant too early. *)
Purgee_tropTot(table) ==
    [c \in Entrees |-> IF temps - table[c].dernier >= DelaiMaximum /\ temps > table[c].refuse
                    THEN Aucun ELSE table[c]]

(* Mutant of Purgee: only the accounts are purged. *)
Purgee_comptes(table) ==
    [c \in Entrees |-> IF c \in Comptes /\ Perime(table[c]) /\ temps > table[c].refuse
                    THEN Aucun ELSE table[c]]

Purgee(table) ==
    [c \in Entrees |-> IF Perime(table[c]) /\ temps > table[c].refuse
                    THEN Aucun ELSE table[c]]

(* Mutant of Autorise: the last instant of a deadline is forgiven. *)
Autorise_arrondi(t, cles) ==
    /\ tentative[t].pc = "repos"
    /\ IF temps - dernierePurge < Oubli
       THEN UNCHANGED <<compteur, dernierePurge>>
       ELSE /\ compteur' = Purgee(compteur)
            /\ dernierePurge' = temps
    /\ tentative' = IF \A c \in cles : compteur'[c].refuse <= temps + 1
                    THEN [tentative EXCEPT ![t] = [pc |-> "evalue", cles |-> cles,
                                                   admise |-> temps]]
                    ELSE tentative
    /\ UNCHANGED <<temoin, rejets, temps>>

\* Asked for every attempt: the farther of the two deadlines decides.  It
\* counts nothing; it purges the tables now and then.
Autorise(t, cles) ==
    /\ tentative[t].pc = "repos"
    /\ IF temps - dernierePurge < Oubli
       THEN UNCHANGED <<compteur, dernierePurge>>
       ELSE /\ compteur' = Purgee(compteur)
            /\ dernierePurge' = temps
    /\ tentative' = IF \A c \in cles : compteur'[c].refuse <= temps
                    THEN [tentative EXCEPT ![t] = [pc |-> "evalue", cles |-> cles,
                                                   admise |-> temps]]
                    ELSE tentative
    /\ UNCHANGED <<temoin, rejets, temps>>

Incremente(c) ==
    LET n == IF c.dernier # 0 /\ Perime(c) THEN 1 ELSE c.echecs + 1 IN
    [echecs |-> n, dernier |-> temps,
     refuse |-> IF n > EssaisGratuits THEN temps + Delai(n) ELSE c.refuse]

\* An attempt that was evaluated is rejected.
Echec(t) ==
    /\ tentative[t].pc \in {"evalue", "second"}
    /\ \A c \in tentative[t].cles : temoin[c].echecs < MaxEchecs
    /\ compteur' = [c \in Entrees |-> IF c \in tentative[t].cles
                                   THEN Incremente(compteur[c]) ELSE compteur[c]]
    /\ temoin' = [c \in Entrees |-> IF c \in tentative[t].cles
                                 THEN Incremente(temoin[c]) ELSE temoin[c]]
    /\ rejets' = [c \in Entrees |->
                     IF c \notin tentative[t].cles THEN rejets[c]
                     ELSE IF Perime(temoin[c]) THEN 1
                     ELSE Min({rejets[c] + 1, EssaisGratuits + 1})]
    /\ tentative' = [tentative EXCEPT ![t] = Repos]
    /\ UNCHANGED <<dernierePurge, temps>>

(* Mutant of Reussite: the counter is taken down, not forgotten. *)
Reussite_partielle(t, suite) ==
    /\ tentative[t].pc = "evalue"
    /\ compteur' = [c \in Entrees |-> IF c \in tentative[t].cles
                                   THEN [compteur[c] EXCEPT !.echecs = @ - 1] ELSE compteur[c]]
    /\ temoin' = [c \in Entrees |-> IF c \in tentative[t].cles THEN Aucun ELSE temoin[c]]
    /\ tentative' = [tentative EXCEPT ![t] = suite]
    /\ rejets' = [c \in Entrees |-> IF suite = Repos /\ c \in tentative[t].cles
                                 THEN 0 ELSE rejets[c]]
    /\ UNCHANGED <<dernierePurge, temps>>

\* The password is proved: both counters are forgotten, before the second
\* factor that some doors ask next and whose rejection is a failure too.
Reussite(t, suite) ==
    /\ tentative[t].pc = "evalue"
    /\ compteur' = [c \in Entrees |-> IF c \in tentative[t].cles THEN Aucun ELSE compteur[c]]
    /\ temoin' = [c \in Entrees |-> IF c \in tentative[t].cles THEN Aucun ELSE temoin[c]]
    /\ tentative' = [tentative EXCEPT ![t] = suite]
    /\ rejets' = [c \in Entrees |-> IF suite = Repos /\ c \in tentative[t].cles
                                 THEN 0 ELSE rejets[c]]
    /\ UNCHANGED <<dernierePurge, temps>>

\* The second factor is right, after the password.
Accepter(t) ==
    /\ tentative[t].pc = "second"
    /\ tentative' = [tentative EXCEPT ![t] = Repos]
    /\ rejets' = [c \in Entrees |-> IF c \in tentative[t].cles THEN 0 ELSE rejets[c]]
    /\ UNCHANGED <<compteur, temoin, dernierePurge, temps>>

\* An attempt may also be dropped without a report: the connection ends.
Abandonner(t) ==
    /\ tentative[t].pc # "repos"
    /\ tentative' = [tentative EXCEPT ![t] = Repos]
    /\ UNCHANGED <<compteur, temoin, dernierePurge, rejets, temps>>

Passer ==
    /\ \E d \in Sauts : temps + d <= MaxTemps /\ temps' = temps + d
    /\ UNCHANGED <<compteur, temoin, dernierePurge, tentative, rejets>>

Next ==
    \/ \E t \in Tentatives :
          \/ \E a \in Comptes \cup {Vide}, s \in Sources \cup {Vide} :
                Autorise(t, {a, s} \ {Vide})
          \/ Echec(t) \/ Accepter(t) \/ Abandonner(t)
          \/ Reussite(t, Repos) \/ Reussite(t, [tentative[t] EXCEPT !.pc = "second"])
    \/ Passer

Spec == Init /\ [][Next]_vars

(***************************************************************************)
(* Properties.                                                             *)
(***************************************************************************)
\* What a counter is worth now: the failures that still count and the
\* deadline that still runs.
Vaut(c) == [echecs |-> IF Perime(c) THEN 0 ELSE c.echecs,
            refuse |-> IF c.refuse > temps THEN c.refuse ELSE 0]

\* The purge changes no decision: every counter is worth what it would be
\* without a purge (purgerSiNecessaire, whose two conditions must cover both
\* the oblivion and the deadline).
PurgeInvisible == \A c \in Entrees : Vaut(compteur[c]) = Vaut(temoin[c])

\* No counter outlives the purge: what the tables hold was touched at most
\* one oblivion before the last purge, for accounts and sources alike.
PurgeComplete ==
    \A c \in Entrees : compteur[c].dernier # 0 => dernierePurge - compteur[c].dernier <= Oubli

\* The delay is what the scale says for any number of failures: doubled from
\* the base, capped, never absent because the shift left the word.
Echelle(n) ==
    LET k == n - EssaisGratuits - 1
    IN  IF k > 20 THEN DelaiMaximum ELSE Min({DelaiMaximum, 2^k})

EcheanceTenue ==
    \A c \in Entrees :
       compteur[c].echecs > EssaisGratuits =>
          compteur[c].refuse - compteur[c].dernier = Echelle(compteur[c].echecs)

\* A running deadline is never shortened but by a success: a late failure, a
\* purge or the oblivion of an older one leaves it or puts it off.
EcheanceGardee ==
    \A c \in Entrees : (compteur[c].refuse > temps /\ compteur'[c] # Aucun)
       => compteur'[c].refuse >= compteur[c].refuse
EcheanceNeReculePas == [][EcheanceGardee]_vars

\* An attempt under evaluation while a deadline of its account or source runs
\* was admitted before that deadline was set: the attempts in flight are the
\* only ones that escape a delay.
AdmiseAvant ==
    \A t \in Tentatives : \A c \in tentative[t].cles :
       compteur[c].refuse > temps => tentative[t].admise <= compteur[c].dernier

\* Three attempts are free, the next ones are spaced: more rejections in a row
\* than that, none older than the oblivion, leave a deadline.  (ratelimit.go
\* says so of every rejection; the doors that forget the counters before the
\* second factor start from nothing at each wrong code.)
RejetsEspaces ==
    \A c \in Entrees : rejets[c] > EssaisGratuits => compteur[c].refuse > 0
=============================================================================
