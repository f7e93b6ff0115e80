------------------------ MODULE DemandesDeCycle_proof ------------------------
(***************************************************************************)
(* Proofs about DemandesDeCycle for every set of cores and of machines and *)
(* every bound: one core at most pushes a request, once, and a campaign    *)
(* never counts as reached a machine nobody has pushed to.                 *)
(***************************************************************************)
EXTENDS DemandesDeCycle, SequenceTheorems, WellFoundedInduction, TLAPS

UneDemande  == [machine : Machines, prisePar : Cores \cup {Aucun}, remise : BOOLEAN,
                perimee : BOOLEAN]
UnRelais    == [pc : {"repos", "boucle", "prise", "partie"}, lues : SUBSET Ids,
                prise : {0} \cup Ids]
UneCampagne == [pc : {"repos", "boucle"}, restantes : SUBSET Machines, relayees : SUBSET Ids,
                jointes : SUBSET Machines, nonJointes : SUBSET Machines, faites : Nat]
UnAgent     == [lien : Cores \cup {Aucun}, cle : Nat, derniere : Nat, reveil : BOOLEAN,
                essai : BOOLEAN, cycle : BOOLEAN]

TypeTunnels ==
    /\ vivants \subseteq Cores /\ sessions \in [Cores -> SUBSET Machines]
    /\ agent \in [Machines -> UnAgent] /\ \A m \in Machines : agent[m].derniere <= agent[m].cle
    /\ du \in [Machines -> {"non", "demande", "enCours"}]

TypeDemandes ==
    /\ base \in Seq(UneDemande) /\ Len(base) <= MaxDemandes
    /\ relais \in [Cores -> UnRelais] /\ campagne \in [Cores -> UneCampagne]
    /\ poussees \in [Ids -> Nat]

(* A request that nobody has taken was never pushed; none is pushed twice; *)
(* a delivery is noted after the push.                                     *)
DemandeSure(i) ==
    /\ poussees[i] <= 1
    /\ i \notin DOMAIN base => poussees[i] = 0
    /\ i \in DOMAIN base /\ base[i].prisePar = Aucun => poussees[i] = 0
    /\ i \in DOMAIN base /\ base[i].remise => poussees[i] > 0

(* A relay is at work on a request that is taken in its name.              *)
RelaisSuivi(c) ==
    /\ relais[c].lues \subseteq DOMAIN base /\ relais[c].prise \in {0} \cup DOMAIN base
    /\ relais[c].pc \in {"prise", "partie"} =>
         relais[c].prise \in DOMAIN base /\ base[relais[c].prise].prisePar = c
    /\ relais[c].pc = "prise" => poussees[relais[c].prise] = 0
    /\ relais[c].pc = "partie" => poussees[relais[c].prise] > 0

(* The machines of a campaign are still to be served, reached by a push,   *)
(* or relayed, each by a request of its own.                               *)
RapportSuivi(c) ==
    /\ campagne[c].relayees \subseteq DOMAIN base
    /\ campagne[c].pc = "boucle" =>
         /\ campagne[c].restantes \cap campagne[c].jointes = {}
         /\ \A i \in campagne[c].relayees :
              base[i].machine \notin campagne[c].restantes \cup campagne[c].jointes
    /\ \A i, j \in campagne[c].relayees : base[i].machine = base[j].machine => i = j
    /\ campagne[c].pc = "repos" => \A i \in campagne[c].relayees :
         poussees[i] = 0 => base[i].machine \notin campagne[c].jointes

Suivi == /\ \A i \in Ids : DemandeSure(i)
         /\ \A c \in Cores : RelaisSuivi(c) /\ RapportSuivi(c)

IInv == TypeTunnels /\ TypeDemandes /\ Suivi

-----------------------------------------------------------------------------
(* A set of numbers that is not empty has a least.                         *)
LEMMA PlusPetit ==
  ASSUME NEW T \in SUBSET Nat, T # {}
  PROVE  \E x \in T : \A y \in T : x <= y
<1>1. PICK R : /\ IsWellFoundedOn(R, Nat)
               /\ \A x, y \in Nat : x < y => <<x, y>> \in R
  <2>1. \A x, y \in Nat : x < y => <<x, y>> \in OpToRel(<, Nat)
    BY DEF OpToRel
  <2> QED BY <2>1, NatLessThanWellFounded, Zenon
<1>2. PICK x \in T : \A y \in T : ~(<<y, x>> \in R)
  <2>1. T \subseteq Nat /\ T # {}
    OBVIOUS
  <2>2. IsWellFoundedOn(R, Nat)
    BY <1>1
  <2> QED BY <2>1, <2>2, WFMin, Zenon
<1>3. \A y \in T : ~(y < x)
  BY <1>1, <1>2
<1> QED BY <1>3

(* The next request of a round is one of those that were read.             *)
LEMMA SuivanteLue ==
  ASSUME NEW c \in Cores, relais[c].lues \subseteq Ids, relais[c].lues # {}
  PROVE  Suivante(c) \in relais[c].lues
<1>1. relais[c].lues \in SUBSET Nat
  BY DEF Ids
<1>2. \E x \in relais[c].lues : \A y \in relais[c].lues : x <= y
  BY <1>1, PlusPetit
<1> QED BY <1>2 DEF Suivante

(* The requests are numbered as they are written.                          *)
LEMMA Numeros ==
  ASSUME base \in Seq(UneDemande), Len(base) <= MaxDemandes
  PROVE  /\ DOMAIN base = 1..Len(base) /\ DOMAIN base \subseteq Ids
         /\ Len(base) \in Nat /\ \A i \in DOMAIN base : base[i] \in UneDemande
<1>1. Len(base) \in Nat /\ DOMAIN base = 1..Len(base) /\ base \in [1..Len(base) -> UneDemande]
  BY LenProperties
<1> QED BY <1>1, DemandesAssumption DEF Ids

(* A request written over keeps its number, and the others.                *)
LEMMA DemandeEcrite ==
  ASSUME base \in Seq(UneDemande), NEW i \in DOMAIN base, NEW e \in UneDemande,
         base' = [base EXCEPT ![i] = e]
  PROVE  /\ base' \in Seq(UneDemande) /\ Len(base') = Len(base) /\ DOMAIN base' = DOMAIN base
         /\ base'[i] = e /\ \A j \in DOMAIN base : j # i => base'[j] = base[j]
<1>1. i \in 1..Len(base) /\ DOMAIN base = 1..Len(base)
  BY LenProperties
<1>2. /\ base' \in Seq(UneDemande) /\ Len(base') = Len(base)
      /\ \A j \in 1..Len(base) : base'[j] = IF j = i THEN e ELSE base[j]
  BY <1>1, ExceptSeq
<1>3. DOMAIN base' = 1..Len(base')
  BY <1>2, LenProperties
<1> QED BY <1>1, <1>2, <1>3

(* A report stays true when requests change otherwise than by their        *)
(* machine and when pushes are added.                                      *)
LEMMA RapportsGardes ==
  ASSUME TypeDemandes, Suivi, campagne' = campagne, DOMAIN base' = DOMAIN base,
         \A i \in DOMAIN base : base'[i].machine = base[i].machine,
         \A i \in Ids : poussees'[i] = 0 => poussees[i] = 0
  PROVE  \A c \in Cores : RapportSuivi(c)'
<1> SUFFICES ASSUME NEW c \in Cores PROVE RapportSuivi(c)'
  OBVIOUS
<1>1. RapportSuivi(c) /\ campagne[c].relayees \subseteq DOMAIN base
  BY DEF Suivi, RapportSuivi
<1>2. DOMAIN base \subseteq Ids
  BY Numeros DEF TypeDemandes
<1> QED BY <1>1, <1>2 DEF RapportSuivi

(* The steps of the agents and the tunnels leave the requests.             *)
LEMMA PasDesTunnels ==
  ASSUME IInv, TypeTunnels', UNCHANGED <<base, relais, campagne, poussees>>
  PROVE  IInv'
<1>1. TypeDemandes'
  BY DEF IInv, TypeDemandes
<1>2. \A i \in Ids : DemandeSure(i)'
  BY DEF IInv, Suivi, DemandeSure
<1>3. \A c \in Cores : RelaisSuivi(c)' /\ RapportSuivi(c)'
  BY DEF IInv, Suivi, RelaisSuivi, RapportSuivi
<1> QED BY <1>1, <1>2, <1>3 DEF IInv, Suivi

(* The record of an agent written over.                                    *)
LEMMA AgentEcrit ==
  ASSUME agent \in [Machines -> UnAgent], NEW m \in Machines, NEW a \in UnAgent,
         agent' = [agent EXCEPT ![m] = a]
  PROVE  /\ agent' \in [Machines -> UnAgent] /\ agent'[m] = a
         /\ \A n \in Machines : n # m => agent'[n] = agent[n]
OBVIOUS

(* A tunnel comes up, is cut, carries a frame; a cycle begins and ends.    *)
LEMMA PasAgent ==
  ASSUME IInv, NEW m \in Machines,
         \/ \E c \in Cores : Connecter(m, c)
         \/ \E vue \in Vue : Couper(m, vue)
         \/ Recevoir0518(m) \/ Surveiller(m) \/ Commencer(m) \/ Finir(m)
  PROVE  IInv'
<1>1. /\ vivants \subseteq Cores /\ sessions \in [Cores -> SUBSET Machines]
      /\ agent \in [Machines -> UnAgent] /\ agent[m] \in UnAgent
      /\ \A n \in Machines : agent[n].derniere <= agent[n].cle
      /\ du \in [Machines -> {"non", "demande", "enCours"}]
  BY DEF IInv, TypeTunnels
<1>2. ASSUME NEW c \in Cores, Connecter(m, c) PROVE IInv'
  <2>1. sessions' \in [Cores -> SUBSET Machines]
    BY <1>1, <1>2 DEF Connecter
  <2> DEFINE k == agent[m].cle + 1
             a == [agent[m] EXCEPT !.lien = c, !.cle = k]
  <2>6. k \in Nat
    BY <1>1 DEF UnAgent
  <2>5. agent' = [agent EXCEPT ![m] = a]
    BY <1>1, <1>2 DEF Connecter
  <2> HIDE DEF k
  <2>4. a \in UnAgent /\ a.derniere = agent[m].derniere /\ a.cle = agent[m].cle + 1
    BY <1>1, <2>6 DEF UnAgent, k
  <2> HIDE DEF a
  <2>2. /\ agent' \in [Machines -> UnAgent]
        /\ agent'[m].derniere = agent[m].derniere /\ agent'[m].cle = agent[m].cle + 1
        /\ \A n \in Machines : n # m => agent'[n] = agent[n]
    BY <1>1, <2>4, <2>5, AgentEcrit
  <2>3. \A n \in Machines : agent'[n].derniere <= agent'[n].cle
    BY <1>1, <2>2 DEF UnAgent
  <2> QED BY <1>1, <1>2, <2>1, <2>2, <2>3, PasDesTunnels DEF Connecter, TypeTunnels
<1>3. ASSUME NEW vue \in Vue, Couper(m, vue) PROVE IInv'
  <2>1. sessions' \in [Cores -> SUBSET Machines]
    BY <1>1, <1>3 DEF Couper
  <2>0. agent' = [agent EXCEPT ![m].lien = Aucun]
    BY <1>3 DEF Couper
  <2>2. /\ agent' \in [Machines -> UnAgent]
        /\ \A n \in Machines : agent'[n].derniere = agent[n].derniere /\ agent'[n].cle = agent[n].cle
    BY <1>1, <2>0 DEF UnAgent
  <2> QED BY <1>1, <1>3, <2>1, <2>2, PasDesTunnels DEF Couper, TypeTunnels
<1>4. CASE Recevoir0518(m)
  <2>1. /\ agent' \in [Machines -> UnAgent]
        /\ \A n \in Machines : agent'[n].derniere = agent[n].derniere /\ agent'[n].cle = agent[n].cle
    BY <1>1, <1>4 DEF Recevoir0518, UnAgent
  <2> QED BY <1>1, <1>4, <2>1, PasDesTunnels DEF Recevoir0518, TypeTunnels
<1>5. CASE Surveiller(m) \/ Commencer(m)
  <2>1. /\ agent' \in [Machines -> UnAgent]
        /\ agent'[m].derniere = agent[m].cle /\ agent'[m].cle = agent[m].cle
        /\ \A n \in Machines : n # m => agent'[n] = agent[n]
    <3>1. CASE Surveiller(m)
      BY <1>1, <3>1 DEF Surveiller, UnAgent
    <3>2. CASE Commencer(m)
      <4> DEFINE a == [agent[m] EXCEPT !.reveil = FALSE, !.cycle = TRUE,
                                       !.derniere = agent[m].cle]
                 b == [agent[m] EXCEPT !.essai = FALSE, !.cycle = TRUE,
                                       !.derniere = agent[m].cle]
      <4>1. a \in UnAgent /\ a.derniere = agent[m].cle /\ a.cle = agent[m].cle
        BY <1>1 DEF UnAgent
      <4>2. b \in UnAgent /\ b.derniere = agent[m].cle /\ b.cle = agent[m].cle
        BY <1>1 DEF UnAgent
      <4>3. agent' = [agent EXCEPT ![m] = a] \/ agent' = [agent EXCEPT ![m] = b]
        BY <1>1, <3>2 DEF Commencer
      <4> HIDE DEF a, b
      <4> QED BY <1>1, <4>1, <4>2, <4>3, AgentEcrit
    <3> QED BY <1>5, <3>1, <3>2
  <2>2. \A n \in Machines : agent'[n].derniere <= agent'[n].cle
    BY <1>1, <2>1 DEF UnAgent
  <2>3. du' \in [Machines -> {"non", "demande", "enCours"}]
    BY <1>1, <1>5 DEF Surveiller, Commencer
  <2>4. UNCHANGED <<vivants, sessions, base, relais, campagne, poussees>>
    BY <1>5 DEF Surveiller, Commencer
  <2> QED BY <1>1, <2>1, <2>2, <2>3, <2>4, PasDesTunnels DEF TypeTunnels
<1>6. CASE Finir(m)
  <2> DEFINE abouti == agent[m].lien # Aucun /\ agent[m].cle = agent[m].derniere
  <2>0. abouti \in BOOLEAN
    OBVIOUS
  <2> HIDE DEF abouti
  <2>4. /\ agent' = [agent EXCEPT ![m].cycle = FALSE, ![m].essai = ~abouti]
        /\ du' = [du EXCEPT ![m] = IF @ # "enCours" THEN @ ELSE IF abouti THEN "non" ELSE "demande"]
        /\ UNCHANGED <<vivants, sessions, base, relais, campagne, poussees>>
    BY <1>6 DEF Finir, abouti
  <2>1. /\ agent' \in [Machines -> UnAgent]
        /\ \A n \in Machines : agent'[n].derniere = agent[n].derniere /\ agent'[n].cle = agent[n].cle
    BY <1>1, <2>4 DEF UnAgent
  <2>3. du' \in [Machines -> {"non", "demande", "enCours"}]
    BY <1>1, <2>4
  <2> QED BY <1>1, <2>1, <2>3, <2>4, PasDesTunnels DEF TypeTunnels
<1> QED BY <1>2, <1>3, <1>4, <1>5, <1>6

-----------------------------------------------------------------------------
(* The campaigns.                                                          *)

(* A campaign starts with every machine to serve and nothing reported.     *)
LEMMA PasLancer ==
  ASSUME IInv, NEW c \in Cores, NEW cibles \in SUBSET Machines, Lancer(c, cibles)
  PROVE  IInv'
<1> DEFINE n == campagne[c].faites + 1
           r == [SansRien EXCEPT !.pc = "boucle", !.restantes = cibles, !.faites = n]
<1>1. /\ campagne \in [Cores -> UneCampagne] /\ TypeTunnels /\ TypeDemandes /\ Suivi
      /\ UNCHANGED <<vivants, sessions, agent, base, relais, poussees, du>>
  BY DEF IInv, TypeDemandes, Lancer
<1>2. n \in Nat
  BY <1>1 DEF UneCampagne
<1>3. campagne' = [campagne EXCEPT ![c] = r]
  BY DEF Lancer
<1> HIDE DEF n
<1>4. r \in UneCampagne /\ r.pc = "boucle" /\ r.relayees = {} /\ r.jointes = {}
  <2>1. SansRien \in UneCampagne /\ SansRien.relayees = {} /\ SansRien.jointes = {}
    BY DEF SansRien, UneCampagne
  <2> QED BY <1>2, <2>1 DEF UneCampagne
<1> HIDE DEF r
<1>5. /\ campagne' \in [Cores -> UneCampagne] /\ campagne'[c] = r
      /\ \A d \in Cores : d # c => campagne'[d] = campagne[d]
  BY <1>1, <1>3, <1>4
<1>6. RapportSuivi(c)'
  BY <1>4, <1>5 DEF RapportSuivi
<1>7. \A d \in Cores : d # c => RapportSuivi(d)'
  BY <1>1, <1>5 DEF Suivi, RapportSuivi
<1>8. (\A d \in Cores : RelaisSuivi(d)') /\ \A i \in Ids : DemandeSure(i)'
  BY <1>1 DEF Suivi, RelaisSuivi, DemandeSure
<1>9. TypeTunnels' /\ TypeDemandes'
  BY <1>1, <1>5 DEF TypeTunnels, TypeDemandes
<1> QED BY <1>6, <1>7, <1>8, <1>9 DEF IInv, Suivi

(* A machine is served: by a push, by a request of its own, or not at all. *)
LEMMA PasRafraichir ==
  ASSUME IInv, NEW c \in Cores, NEW m \in Machines, RafraichirMachine(c, m)
  PROVE  IInv'
<1>1. /\ campagne \in [Cores -> UneCampagne] /\ campagne[c] \in UneCampagne
      /\ TypeTunnels /\ TypeDemandes /\ Suivi /\ RapportSuivi(c)
      /\ campagne[c].pc = "boucle" /\ m \in campagne[c].restantes
      /\ UNCHANGED <<vivants, sessions, agent, relais, poussees>>
  BY DEF IInv, Suivi, TypeDemandes, RafraichirMachine
<1>2. TypeTunnels'
  BY <1>1 DEF TypeTunnels, RafraichirMachine
<1>3. CASE /\ campagne' = [campagne EXCEPT ![c].restantes = @ \ {m}, ![c].jointes = @ \cup {m}]
           /\ UNCHANGED base
  <2> DEFINE r == [campagne[c] EXCEPT !.restantes = @ \ {m}, !.jointes = @ \cup {m}]
  <2>1. /\ r \in UneCampagne /\ r.pc = "boucle" /\ r.relayees = campagne[c].relayees
        /\ r.restantes = campagne[c].restantes \ {m} /\ r.jointes = campagne[c].jointes \cup {m}
    BY <1>1 DEF UneCampagne
  <2>2. campagne' = [campagne EXCEPT ![c] = r]
    BY <1>1, <1>3
  <2> HIDE DEF r
  <2>3. /\ campagne' \in [Cores -> UneCampagne] /\ campagne'[c] = r
        /\ \A d \in Cores : d # c => campagne'[d] = campagne[d]
    BY <1>1, <2>1, <2>2
  <2>4. RapportSuivi(c)'
    BY <1>1, <1>3, <2>1, <2>3 DEF RapportSuivi
  <2>5. \A d \in Cores : d # c => RapportSuivi(d)'
    BY <1>1, <1>3, <2>3 DEF Suivi, RapportSuivi
  <2>6. (\A d \in Cores : RelaisSuivi(d)') /\ \A i \in Ids : DemandeSure(i)'
    BY <1>1, <1>3 DEF Suivi, RelaisSuivi, DemandeSure
  <2>7. TypeDemandes'
    BY <1>1, <1>3, <2>3 DEF TypeDemandes
  <2> QED BY <1>2, <2>4, <2>5, <2>6, <2>7 DEF IInv, Suivi
<1>4. CASE /\ Len(base) < MaxDemandes
           /\ base' = Append(base, [machine |-> m, prisePar |-> Aucun,
                                    remise |-> FALSE, perimee |-> FALSE])
           /\ campagne' = [campagne EXCEPT ![c].restantes = @ \ {m},
                                           ![c].relayees = @ \cup {Len(base) + 1}]
  <2> DEFINE q == [machine |-> m, prisePar |-> Aucun, remise |-> FALSE, perimee |-> FALSE]
             k == Len(base) + 1
             r == [campagne[c] EXCEPT !.restantes = @ \ {m}, !.relayees = @ \cup {k}]
  <2>1. q \in UneDemande /\ q.machine = m /\ q.prisePar = Aucun /\ ~q.remise
    BY DEF UneDemande
  <2>2. /\ DOMAIN base = 1..Len(base) /\ DOMAIN base \subseteq Ids /\ base \in Seq(UneDemande)
        /\ Len(base) \in Nat
    BY <1>1, Numeros DEF TypeDemandes
  <2>3. k \in Ids /\ k \notin DOMAIN base
    BY <1>4, <2>2, DemandesAssumption DEF Ids
  <2>4. campagne' = [campagne EXCEPT ![c] = r]
    BY <1>1, <1>4
  <2> HIDE DEF q
  <2>5. base' = Append(base, q)
    BY <1>4 DEF q
  <2>6. /\ base' \in Seq(UneDemande) /\ Len(base') = k /\ base'[k] = q
        /\ \A i \in DOMAIN base : base'[i] = base[i]
    BY <2>1, <2>2, <2>5, AppendProperties
  <2>7. DOMAIN base' = DOMAIN base \cup {k}
    BY <2>2, <2>6, LenProperties
  <2>13. Len(base') <= MaxDemandes
    BY <1>4, <2>2, <2>6, DemandesAssumption
  <2> HIDE DEF k
  <2>8. /\ r \in UneCampagne /\ r.pc = "boucle" /\ r.relayees = campagne[c].relayees \cup {k}
        /\ r.restantes = campagne[c].restantes \ {m} /\ r.jointes = campagne[c].jointes
    BY <1>1, <2>3 DEF UneCampagne
  <2> HIDE DEF r
  <2>9. /\ campagne' \in [Cores -> UneCampagne] /\ campagne'[c] = r
        /\ \A d \in Cores : d # c => campagne'[d] = campagne[d]
    BY <1>1, <2>4, <2>8
  <2>10. RapportSuivi(c)'
    <3>1. /\ campagne[c].relayees \subseteq DOMAIN base
          /\ \A i \in campagne[c].relayees :
               base'[i] = base[i] /\ base[i].machine \notin campagne[c].restantes
      BY <1>1, <2>6 DEF RapportSuivi
    <3>2. base'[k].machine = m /\ m \notin campagne[c].jointes
      BY <1>1, <2>1, <2>6 DEF RapportSuivi
    <3> QED BY <1>1, <2>7, <2>8, <2>9, <3>1, <3>2 DEF RapportSuivi
  <2>11. \A d \in Cores : d # c => RapportSuivi(d)'
    BY <1>1, <2>6, <2>7, <2>9 DEF Suivi, RapportSuivi
  <2>12. \A d \in Cores : RelaisSuivi(d)'
    BY <1>1, <2>6, <2>7 DEF Suivi, RelaisSuivi
  <2>14. ASSUME NEW i \in Ids PROVE DemandeSure(i)'
    <3>1. DemandeSure(i)
      BY <1>1 DEF Suivi
    <3>2. CASE i = k
      BY <1>1, <2>1, <2>3, <2>6, <2>7, <3>1, <3>2 DEF DemandeSure
    <3>3. CASE i # k
      BY <1>1, <2>6, <2>7, <3>1, <3>3 DEF DemandeSure
    <3> QED BY <3>2, <3>3
  <2>15. TypeDemandes'
    BY <1>1, <2>6, <2>9, <2>13 DEF TypeDemandes
  <2> QED BY <1>2, <2>10, <2>11, <2>12, <2>14, <2>15 DEF IInv, Suivi
<1>5. CASE /\ campagne' = [campagne EXCEPT ![c].restantes = @ \ {m}, ![c].nonJointes = @ \cup {m}]
           /\ UNCHANGED base
  <2> DEFINE r == [campagne[c] EXCEPT !.restantes = @ \ {m}, !.nonJointes = @ \cup {m}]
  <2>1. /\ r \in UneCampagne /\ r.pc = "boucle" /\ r.relayees = campagne[c].relayees
        /\ r.restantes = campagne[c].restantes \ {m} /\ r.jointes = campagne[c].jointes
    BY <1>1 DEF UneCampagne
  <2>2. campagne' = [campagne EXCEPT ![c] = r]
    BY <1>1, <1>5
  <2> HIDE DEF r
  <2>3. /\ campagne' \in [Cores -> UneCampagne] /\ campagne'[c] = r
        /\ \A d \in Cores : d # c => campagne'[d] = campagne[d]
    BY <1>1, <2>1, <2>2
  <2>4. RapportSuivi(c)'
    BY <1>1, <1>5, <2>1, <2>3 DEF RapportSuivi
  <2>5. \A d \in Cores : d # c => RapportSuivi(d)'
    BY <1>1, <1>5, <2>3 DEF Suivi, RapportSuivi
  <2>6. (\A d \in Cores : RelaisSuivi(d)') /\ \A i \in Ids : DemandeSure(i)'
    BY <1>1, <1>5 DEF Suivi, RelaisSuivi, DemandeSure
  <2>7. TypeDemandes'
    BY <1>1, <1>5, <2>3 DEF TypeDemandes
  <2> QED BY <1>2, <2>4, <2>5, <2>6, <2>7 DEF IInv, Suivi
<1> QED BY <1>3, <1>4, <1>5 DEF RafraichirMachine

(* The report is drawn up from the deliveries noted.                       *)
LEMMA PasAttendre ==
  ASSUME IInv, NEW c \in Cores, AttendreLesIssues(c) PROVE IInv'
<1> DEFINE ids == campagne[c].relayees
           ok  == {base[i].machine : i \in {j \in ids : base[j].prisePar # Aucun /\ base[j].remise}}
           ko  == {base[i].machine : i \in {j \in ids : ~(base[j].prisePar # Aucun /\ base[j].remise)}}
           r   == [campagne[c] EXCEPT !.pc = "repos", !.jointes = @ \cup ok,
                                      !.nonJointes = @ \cup ko]
<1>1. /\ campagne \in [Cores -> UneCampagne] /\ campagne[c] \in UneCampagne
      /\ TypeTunnels /\ TypeDemandes /\ Suivi /\ RapportSuivi(c)
      /\ campagne[c].pc = "boucle"
      /\ UNCHANGED <<vivants, sessions, agent, base, relais, poussees, du>>
  BY DEF IInv, Suivi, TypeDemandes, AttendreLesIssues
<1>2. ids \subseteq DOMAIN base /\ \A i \in ids : i \in Ids /\ base[i].machine \in Machines
  BY <1>1, Numeros DEF TypeDemandes, RapportSuivi, UneDemande
<1>3. ok \in SUBSET Machines /\ ko \in SUBSET Machines
  BY <1>2
<1>4. campagne' = [campagne EXCEPT ![c] = r]
  BY <1>1 DEF AttendreLesIssues
<1>5. ASSUME NEW i \in ids, base[i].machine \in ok PROVE poussees[i] > 0
  <2>1. PICK j \in ids : base[j].machine = base[i].machine /\ base[j].remise
    BY <1>5
  <2>2. i = j
    BY <1>1, <2>1 DEF RapportSuivi
  <2> QED BY <1>1, <1>2, <2>1, <2>2 DEF Suivi, DemandeSure
<1> HIDE DEF ok, ko
<1>6. /\ r \in UneCampagne /\ r.pc = "repos" /\ r.relayees = ids
      /\ r.jointes = campagne[c].jointes \cup ok
  BY <1>1, <1>3 DEF UneCampagne
<1> HIDE DEF r
<1>7. /\ campagne' \in [Cores -> UneCampagne] /\ campagne'[c] = r
      /\ \A d \in Cores : d # c => campagne'[d] = campagne[d]
  BY <1>1, <1>4, <1>6
<1>8. RapportSuivi(c)'
  <2>1. \A i \in ids : poussees[i] = 0 => base[i].machine \notin ok
    BY <1>5
  <2> QED BY <1>1, <1>6, <1>7, <2>1 DEF RapportSuivi
<1>9. \A d \in Cores : d # c => RapportSuivi(d)'
  BY <1>1, <1>7 DEF Suivi, RapportSuivi
<1>10. (\A d \in Cores : RelaisSuivi(d)') /\ \A i \in Ids : DemandeSure(i)'
  BY <1>1 DEF Suivi, RelaisSuivi, DemandeSure
<1>11. TypeTunnels' /\ TypeDemandes'
  BY <1>1, <1>7 DEF TypeTunnels, TypeDemandes
<1> QED BY <1>8, <1>9, <1>10, <1>11 DEF IInv, Suivi

-----------------------------------------------------------------------------
(* The relays.                                                             *)

(* A relay reads the requests that are neither taken nor too old.          *)
LEMMA PasRelever ==
  ASSUME IInv, NEW c \in Cores, Relever(c) PROVE IInv'
<1> DEFINE lues == {i \in DOMAIN base : base[i].prisePar = Aucun /\ ~base[i].perimee}
           r == [AuRepos EXCEPT !.pc = "boucle", !.lues = lues]
<1>1. /\ relais \in [Cores -> UnRelais] /\ TypeTunnels /\ TypeDemandes /\ Suivi
      /\ UNCHANGED <<vivants, sessions, agent, base, campagne, poussees, du>>
  BY DEF IInv, TypeDemandes, Relever
<1>2. lues \subseteq DOMAIN base /\ lues \subseteq Ids
  BY <1>1, Numeros DEF TypeDemandes
<1>3. relais' = [relais EXCEPT ![c] = r]
  BY DEF Relever
<1> HIDE DEF lues
<1>4. r \in UnRelais /\ r.pc = "boucle" /\ r.lues = lues /\ r.prise = 0
  <2>1. AuRepos \in UnRelais /\ AuRepos.prise = 0
    BY DEF AuRepos, UnRelais
  <2> QED BY <1>2, <2>1 DEF UnRelais
<1> HIDE DEF r
<1>5. /\ relais' \in [Cores -> UnRelais] /\ relais'[c] = r
      /\ \A d \in Cores : d # c => relais'[d] = relais[d]
  BY <1>1, <1>3, <1>4
<1>6. RelaisSuivi(c)'
  BY <1>1, <1>2, <1>4, <1>5 DEF RelaisSuivi
<1>7. \A d \in Cores : d # c => RelaisSuivi(d)'
  BY <1>1, <1>5 DEF Suivi, RelaisSuivi
<1>8. (\A d \in Cores : RapportSuivi(d)') /\ \A i \in Ids : DemandeSure(i)'
  BY <1>1 DEF Suivi, RapportSuivi, DemandeSure
<1>9. TypeTunnels' /\ TypeDemandes'
  BY <1>1, <1>5 DEF TypeTunnels, TypeDemandes
<1> QED BY <1>6, <1>7, <1>8, <1>9 DEF IInv, Suivi

(* A request is taken by a core that holds the machine if nobody else has  *)
(* taken it meanwhile, and is passed over otherwise.                       *)
LEMMA PasPrendre ==
  ASSUME IInv, NEW c \in Cores, Prendre(c) PROVE IInv'
<1>1. /\ relais \in [Cores -> UnRelais] /\ relais[c] \in UnRelais
      /\ relais[c].pc = "boucle" /\ relais[c].lues \subseteq Ids
      /\ TypeTunnels /\ TypeDemandes /\ Suivi /\ RelaisSuivi(c)
      /\ UNCHANGED <<vivants, sessions, agent, campagne, poussees, du>>
  BY DEF IInv, Suivi, TypeDemandes, Prendre, UnRelais
<1>2. TypeTunnels'
  BY <1>1 DEF TypeTunnels
<1>3. CASE relais[c].lues = {}
  <2>1. /\ relais' = [relais EXCEPT ![c] = AuRepos] /\ UNCHANGED base
        /\ AuRepos \in UnRelais /\ AuRepos.lues = {} /\ AuRepos.prise = 0 /\ AuRepos.pc = "repos"
    BY <1>3 DEF Prendre, AuRepos, UnRelais
  <2>2. /\ relais' \in [Cores -> UnRelais] /\ relais'[c] = AuRepos
        /\ \A d \in Cores : d # c => relais'[d] = relais[d]
    BY <1>1, <2>1
  <2>3. RelaisSuivi(c)'
    BY <2>1, <2>2 DEF RelaisSuivi
  <2>4. \A d \in Cores : d # c => RelaisSuivi(d)'
    BY <1>1, <2>1, <2>2 DEF Suivi, RelaisSuivi
  <2>5. (\A d \in Cores : RapportSuivi(d)') /\ \A i \in Ids : DemandeSure(i)'
    BY <1>1, <2>1 DEF Suivi, RapportSuivi, DemandeSure
  <2>6. TypeDemandes'
    BY <1>1, <2>1, <2>2 DEF TypeDemandes
  <2> QED BY <1>2, <2>3, <2>4, <2>5, <2>6 DEF IInv, Suivi
<1>4. CASE relais[c].lues # {}
  <2> SUFFICES ASSUME NEW i \in relais[c].lues, i = Suivante(c) PROVE IInv'
    BY <1>1, <1>4, SuivanteLue
  <2>1. i \in DOMAIN base /\ i \in Ids /\ base[i] \in UneDemande /\ base \in Seq(UneDemande)
    BY <1>1, Numeros DEF RelaisSuivi, TypeDemandes
  <2>2. CASE base[i].machine \in sessions[c] /\ base[i].prisePar = Aucun
    <3> DEFINE e == [base[i] EXCEPT !.prisePar = c]
               r == [relais[c] EXCEPT !.lues = @ \ {i}, !.pc = "prise", !.prise = i]
    <3>1. /\ e \in UneDemande /\ e.machine = base[i].machine /\ e.prisePar = c
          /\ e.remise = base[i].remise
      BY <2>1 DEF UneDemande
    <3>2. /\ r \in UnRelais /\ r.pc = "prise" /\ r.prise = i /\ r.lues = relais[c].lues \ {i}
      BY <1>1, <2>1 DEF UnRelais
    <3>3. relais' = [relais EXCEPT ![c] = r] /\ base' = [base EXCEPT ![i] = e]
      BY <1>1, <1>4, <2>2 DEF Prendre
    <3> HIDE DEF e, r
    <3>4. /\ base' \in Seq(UneDemande) /\ Len(base') = Len(base) /\ DOMAIN base' = DOMAIN base
          /\ base'[i] = e /\ \A j \in DOMAIN base : j # i => base'[j] = base[j]
      BY <2>1, <3>1, <3>3, DemandeEcrite
    <3>5. /\ relais' \in [Cores -> UnRelais] /\ relais'[c] = r
          /\ \A d \in Cores : d # c => relais'[d] = relais[d]
      BY <1>1, <3>2, <3>3
    <3>6. poussees[i] = 0
      BY <1>1, <2>1, <2>2 DEF Suivi, DemandeSure
    <3>7. RelaisSuivi(c)'
      BY <1>1, <2>1, <3>1, <3>2, <3>4, <3>5, <3>6 DEF RelaisSuivi
    <3>8. ASSUME NEW d \in Cores, d # c PROVE RelaisSuivi(d)'
      <4>1. RelaisSuivi(d) /\ relais'[d] = relais[d]
        BY <1>1, <3>5, <3>8 DEF Suivi
      <4>2. relais[d].pc \in {"prise", "partie"} => relais[d].prise # i
        BY <2>2, <4>1, DemandesAssumption DEF RelaisSuivi
      <4> QED BY <1>1, <3>4, <4>1, <4>2 DEF RelaisSuivi
    <3>9. ASSUME NEW j \in Ids PROVE DemandeSure(j)'
      <4>1. DemandeSure(j) /\ DemandeSure(i)
        BY <1>1, <2>1 DEF Suivi
      <4> QED BY <1>1, <2>1, <2>2, <3>1, <3>4, <4>1, DemandesAssumption DEF DemandeSure
    <3>10. \A d \in Cores : RapportSuivi(d)'
      BY <1>1, <3>1, <3>4, RapportsGardes
    <3>11. TypeDemandes'
      BY <1>1, <3>4, <3>5 DEF TypeDemandes
    <3> QED BY <1>2, <3>7, <3>8, <3>9, <3>10, <3>11 DEF IInv, Suivi
  <2>3. CASE ~(base[i].machine \in sessions[c] /\ base[i].prisePar = Aucun)
    <3> DEFINE r == [relais[c] EXCEPT !.lues = @ \ {i}, !.pc = "boucle", !.prise = 0]
    <3>1. r \in UnRelais /\ r.pc = "boucle" /\ r.prise = 0 /\ r.lues = relais[c].lues \ {i}
      BY <1>1 DEF UnRelais
    <3>2. relais' = [relais EXCEPT ![c] = r] /\ UNCHANGED base
      BY <1>1, <1>4, <2>3 DEF Prendre
    <3> HIDE DEF r
    <3>3. /\ relais' \in [Cores -> UnRelais] /\ relais'[c] = r
          /\ \A d \in Cores : d # c => relais'[d] = relais[d]
      BY <1>1, <3>1, <3>2
    <3>4. RelaisSuivi(c)'
      BY <1>1, <3>1, <3>2, <3>3 DEF RelaisSuivi
    <3>5. \A d \in Cores : d # c => RelaisSuivi(d)'
      BY <1>1, <3>2, <3>3 DEF Suivi, RelaisSuivi
    <3>6. (\A d \in Cores : RapportSuivi(d)') /\ \A j \in Ids : DemandeSure(j)'
      BY <1>1, <3>2 DEF Suivi, RapportSuivi, DemandeSure
    <3>7. TypeDemandes'
      BY <1>1, <3>2, <3>3 DEF TypeDemandes
    <3> QED BY <1>2, <3>4, <3>5, <3>6, <3>7 DEF IInv, Suivi
  <2> QED BY <2>2, <2>3
<1> QED BY <1>3, <1>4

(* The core that took the request pushes it, if it still has the session.  *)
LEMMA PasPousserPrise ==
  ASSUME IInv, NEW c \in Cores, PousserPrise(c) PROVE IInv'
<1> SUFFICES ASSUME NEW i, i = relais[c].prise PROVE IInv'
  OBVIOUS
<1>1. /\ relais \in [Cores -> UnRelais] /\ relais[c] \in UnRelais
      /\ relais[c].pc = "prise" /\ poussees \in [Ids -> Nat]
      /\ TypeTunnels /\ TypeDemandes /\ Suivi /\ RelaisSuivi(c)
      /\ UNCHANGED <<vivants, sessions, agent, base, campagne, du>>
  BY DEF IInv, Suivi, TypeDemandes, PousserPrise
<1>2. /\ i \in DOMAIN base /\ i \in Ids /\ base[i].prisePar = c /\ poussees[i] = 0
      /\ DOMAIN base \subseteq Ids
  BY <1>1, Numeros DEF RelaisSuivi, TypeDemandes
<1>3. TypeTunnels'
  BY <1>1 DEF TypeTunnels
<1>4. CASE base[i].machine \in sessions[c]
  <2> DEFINE r == [relais[c] EXCEPT !.pc = "partie"]
  <2>1. r \in UnRelais /\ r.pc = "partie" /\ r.prise = i /\ r.lues = relais[c].lues
    BY <1>1 DEF UnRelais
  <2>2. relais' = [relais EXCEPT ![c] = r] /\ poussees' = [poussees EXCEPT ![i] = @ + 1]
    BY <1>1, <1>2, <1>4 DEF PousserPrise
  <2> HIDE DEF r
  <2>3. /\ relais' \in [Cores -> UnRelais] /\ relais'[c] = r
        /\ \A d \in Cores : d # c => relais'[d] = relais[d]
    BY <1>1, <2>1, <2>2
  <2>4. /\ poussees' \in [Ids -> Nat] /\ poussees'[i] = 1
        /\ \A j \in Ids : j # i => poussees'[j] = poussees[j]
    BY <1>1, <1>2, <2>2
  <2>5. RelaisSuivi(c)'
    BY <1>1, <1>2, <2>1, <2>3, <2>4 DEF RelaisSuivi
  <2>6. ASSUME NEW d \in Cores, d # c PROVE RelaisSuivi(d)'
    <3>1. RelaisSuivi(d) /\ relais'[d] = relais[d]
      BY <1>1, <2>3, <2>6 DEF Suivi
    <3>2. relais[d].pc \in {"prise", "partie"} => relais[d].prise # i /\ relais[d].prise \in Ids
      BY <1>2, <2>6, <3>1 DEF RelaisSuivi
    <3> QED BY <1>1, <2>4, <3>1, <3>2 DEF RelaisSuivi
  <2>7. ASSUME NEW j \in Ids PROVE DemandeSure(j)'
    <3>1. DemandeSure(j)
      BY <1>1 DEF Suivi
    <3> QED BY <1>1, <1>2, <2>4, <3>1, DemandesAssumption DEF DemandeSure
  <2>8. \A d \in Cores : RapportSuivi(d)'
    BY <1>1, <1>2, <2>4, RapportsGardes
  <2>9. TypeDemandes'
    BY <1>1, <2>3, <2>4 DEF TypeDemandes
  <2> QED BY <1>3, <2>5, <2>6, <2>7, <2>8, <2>9 DEF IInv, Suivi
<1>5. CASE base[i].machine \notin sessions[c]
  <2> DEFINE r == [relais[c] EXCEPT !.pc = "boucle"]
  <2>1. r \in UnRelais /\ r.pc = "boucle" /\ r.prise = i /\ r.lues = relais[c].lues
    BY <1>1 DEF UnRelais
  <2>2. relais' = [relais EXCEPT ![c] = r] /\ poussees' = poussees
    BY <1>1, <1>2, <1>5 DEF PousserPrise
  <2> HIDE DEF r
  <2>3. /\ relais' \in [Cores -> UnRelais] /\ relais'[c] = r
        /\ \A d \in Cores : d # c => relais'[d] = relais[d]
    BY <1>1, <2>1, <2>2
  <2>4. RelaisSuivi(c)'
    BY <1>1, <1>2, <2>1, <2>3 DEF RelaisSuivi
  <2>5. \A d \in Cores : d # c => RelaisSuivi(d)'
    BY <1>1, <2>2, <2>3 DEF Suivi, RelaisSuivi
  <2>6. (\A d \in Cores : RapportSuivi(d)') /\ \A j \in Ids : DemandeSure(j)'
    BY <1>1, <2>2 DEF Suivi, RapportSuivi, DemandeSure
  <2>7. TypeDemandes'
    BY <1>1, <2>2, <2>3 DEF TypeDemandes
  <2> QED BY <1>3, <2>4, <2>5, <2>6, <2>7 DEF IInv, Suivi
<1> QED BY <1>4, <1>5

(* The delivery is noted once the push is gone.                            *)
LEMMA PasNoterRemise ==
  ASSUME IInv, NEW c \in Cores, NoterRemise(c) PROVE IInv'
<1> SUFFICES ASSUME NEW i, i = relais[c].prise PROVE IInv'
  OBVIOUS
<1> DEFINE r == [relais[c] EXCEPT !.pc = "boucle"]
           e == [base[i] EXCEPT !.remise = TRUE]
<1>1. /\ relais \in [Cores -> UnRelais] /\ relais[c] \in UnRelais
      /\ relais[c].pc = "partie" /\ base \in Seq(UneDemande) /\ poussees \in [Ids -> Nat]
      /\ TypeTunnels /\ TypeDemandes /\ Suivi /\ RelaisSuivi(c)
      /\ UNCHANGED <<vivants, sessions, agent, campagne, poussees, du>>
  BY DEF IInv, Suivi, TypeDemandes, NoterRemise
<1>2. i \in DOMAIN base /\ i \in Ids /\ base[i] \in UneDemande /\ poussees[i] > 0
  BY <1>1, Numeros DEF RelaisSuivi, TypeDemandes
<1>3. /\ e \in UneDemande /\ e.machine = base[i].machine /\ e.prisePar = base[i].prisePar
      /\ e.remise
  BY <1>2 DEF UneDemande
<1>4. r \in UnRelais /\ r.pc = "boucle" /\ r.prise = i /\ r.lues = relais[c].lues
  BY <1>1 DEF UnRelais
<1>5. relais' = [relais EXCEPT ![c] = r]
  BY <1>1 DEF NoterRemise
<1>6. base' = [base EXCEPT ![i] = e]
  BY <1>1, <1>2 DEF NoterRemise
<1> HIDE DEF r, e
<1>7. /\ base' \in Seq(UneDemande) /\ Len(base') = Len(base) /\ DOMAIN base' = DOMAIN base
      /\ base'[i] = e /\ \A j \in DOMAIN base : j # i => base'[j] = base[j]
  BY <1>1, <1>2, <1>3, <1>6, DemandeEcrite
<1>8. /\ relais' \in [Cores -> UnRelais] /\ relais'[c] = r
      /\ \A d \in Cores : d # c => relais'[d] = relais[d]
  BY <1>1, <1>4, <1>5
<1>9. ASSUME NEW d \in Cores PROVE RelaisSuivi(d)'
  <2>1. RelaisSuivi(d) /\ \A j \in DOMAIN base : base'[j].prisePar = base[j].prisePar
    BY <1>1, <1>3, <1>7 DEF Suivi
  <2>2. CASE d = c
    BY <1>1, <1>2, <1>4, <1>7, <1>8, <2>2 DEF RelaisSuivi
  <2>3. CASE d # c
    BY <1>1, <1>7, <1>8, <2>1, <2>3 DEF RelaisSuivi
  <2> QED BY <2>2, <2>3
<1>10. ASSUME NEW j \in Ids PROVE DemandeSure(j)'
  <2>1. DemandeSure(j)
    BY <1>1 DEF Suivi
  <2> QED BY <1>1, <1>2, <1>3, <1>7, <2>1 DEF DemandeSure
<1>11. \A d \in Cores : RapportSuivi(d)'
  BY <1>1, <1>3, <1>7, RapportsGardes
<1>12. TypeTunnels' /\ TypeDemandes'
  BY <1>1, <1>7, <1>8 DEF TypeTunnels, TypeDemandes
<1> QED BY <1>9, <1>10, <1>11, <1>12 DEF IInv, Suivi

(* A request that grew too old is marked so.                               *)
LEMMA PasPerimer ==
  ASSUME IInv, NEW i \in Ids, Perimer(i) PROVE IInv'
<1> DEFINE e == [base[i] EXCEPT !.perimee = TRUE]
<1>1. /\ base \in Seq(UneDemande) /\ i \in DOMAIN base
      /\ TypeTunnels /\ TypeDemandes /\ Suivi /\ base' = [base EXCEPT ![i] = e]
      /\ UNCHANGED <<vivants, sessions, agent, relais, campagne, poussees, du>>
  BY DEF IInv, TypeDemandes, Perimer
<1>2. base[i] \in UneDemande
  BY <1>1, Numeros DEF TypeDemandes
<1>3. /\ e \in UneDemande /\ e.machine = base[i].machine /\ e.prisePar = base[i].prisePar
      /\ e.remise = base[i].remise
  BY <1>2 DEF UneDemande
<1> HIDE DEF e
<1>4. /\ base' \in Seq(UneDemande) /\ Len(base') = Len(base) /\ DOMAIN base' = DOMAIN base
      /\ base'[i] = e /\ \A j \in DOMAIN base : j # i => base'[j] = base[j]
  BY <1>1, <1>3, DemandeEcrite
<1>5. \A j \in DOMAIN base : /\ base'[j].machine = base[j].machine
                             /\ base'[j].prisePar = base[j].prisePar
                             /\ base'[j].remise = base[j].remise
  BY <1>3, <1>4
<1>6. \A d \in Cores : RelaisSuivi(d)'
  BY <1>1, <1>4, <1>5 DEF Suivi, RelaisSuivi
<1>7. \A j \in Ids : DemandeSure(j)'
  BY <1>1, <1>4, <1>5 DEF Suivi, DemandeSure
<1>8. \A d \in Cores : RapportSuivi(d)'
  BY <1>1, <1>4, <1>5, RapportsGardes
<1>9. TypeTunnels' /\ TypeDemandes'
  BY <1>1, <1>4 DEF TypeTunnels, TypeDemandes
<1> QED BY <1>6, <1>7, <1>8, <1>9 DEF IInv, Suivi

(* A core that stops forgets its round and its campaign.                   *)
LEMMA PasArreter ==
  ASSUME IInv, NEW c \in Cores, Arreter(c) PROVE IInv'
<1> DEFINE r == [pc |-> "repos", restantes |-> {}, relayees |-> {}, jointes |-> {},
                 nonJointes |-> {}, faites |-> MaxCampagnes]
<1>1. /\ relais \in [Cores -> UnRelais] /\ campagne \in [Cores -> UneCampagne]
      /\ agent \in [Machines -> UnAgent] /\ TypeTunnels /\ TypeDemandes /\ Suivi
      /\ UNCHANGED <<base, poussees, du>>
  BY DEF IInv, TypeTunnels, TypeDemandes, Arreter
<1>2. TypeTunnels'
  <2>1. vivants' \subseteq Cores /\ sessions' \in [Cores -> SUBSET Machines]
    BY <1>1 DEF TypeTunnels, Arreter
  <2>2. \A m \in Machines : /\ agent'[m] \in UnAgent /\ agent'[m].cle = agent[m].cle
                            /\ agent'[m].derniere = agent[m].derniere
    <3> SUFFICES ASSUME NEW m \in Machines
                 PROVE  /\ agent'[m] \in UnAgent /\ agent'[m].cle = agent[m].cle
                        /\ agent'[m].derniere = agent[m].derniere
      OBVIOUS
    <3> DEFINE a == [agent[m] EXCEPT !.lien = Aucun]
    <3>1. a \in UnAgent /\ a.cle = agent[m].cle /\ a.derniere = agent[m].derniere
      BY <1>1 DEF UnAgent
    <3>2. agent'[m] = IF agent[m].lien = c THEN a ELSE agent[m]
      BY DEF Arreter
    <3> HIDE DEF a
    <3> QED BY <1>1, <3>1, <3>2
  <2>3. agent' = [m \in Machines |-> agent'[m]]
    BY DEF Arreter
  <2>4. agent' \in [Machines -> UnAgent]
    BY <2>2, <2>3
  <2> QED BY <1>1, <2>1, <2>2, <2>4 DEF TypeTunnels
<1>3. campagne' = [campagne EXCEPT ![c] = r]
  <2>1. campagne' = [campagne EXCEPT ![c] = [SansRien EXCEPT !.faites = MaxCampagnes]]
    BY DEF Arreter
  <2>2. [SansRien EXCEPT !.faites = MaxCampagnes] = r
    BY DEF SansRien
  <2> QED BY <2>1, <2>2, Zenon
<1>4. r \in UneCampagne
  BY DemandesAssumption DEF UneCampagne
<1>5. /\ campagne' \in [Cores -> UneCampagne] /\ campagne'[c] = r
      /\ \A d \in Cores : d # c => campagne'[d] = campagne[d]
  BY <1>1, <1>3, <1>4
<1>6. /\ relais' = [relais EXCEPT ![c] = AuRepos]
      /\ AuRepos \in UnRelais /\ AuRepos.lues = {} /\ AuRepos.prise = 0 /\ AuRepos.pc = "repos"
  BY DEF Arreter, AuRepos, UnRelais
<1>7. /\ relais' \in [Cores -> UnRelais] /\ relais'[c] = AuRepos
      /\ \A d \in Cores : d # c => relais'[d] = relais[d]
  BY <1>1, <1>6
<1>8. RelaisSuivi(c)' /\ RapportSuivi(c)'
  BY <1>5, <1>6, <1>7 DEF RelaisSuivi, RapportSuivi
<1>9. \A d \in Cores : d # c => RelaisSuivi(d)' /\ RapportSuivi(d)'
  BY <1>1, <1>5, <1>7 DEF Suivi, RelaisSuivi, RapportSuivi
<1>10. \A i \in Ids : DemandeSure(i)'
  BY <1>1 DEF Suivi, DemandeSure
<1>11. TypeDemandes'
  BY <1>1, <1>5, <1>7 DEF TypeDemandes
<1> QED BY <1>2, <1>8, <1>9, <1>10, <1>11 DEF IInv, Suivi

-----------------------------------------------------------------------------
(* Nothing is asked, held or reported at the start.                        *)
LEMMA Depart == Init => IInv
<1> SUFFICES ASSUME Init PROVE IInv
  OBVIOUS
<1>1. /\ base = <<>> /\ base \in Seq(UneDemande) /\ Len(base) = 0 /\ DOMAIN base = {}
  BY EmptySeq DEF Init
<1>2. TypeTunnels
  <2>1. Neuf \in UnAgent /\ Neuf.derniere <= Neuf.cle
    BY DEF Neuf, UnAgent
  <2> QED BY <2>1 DEF Init, TypeTunnels
<1>3. AuRepos \in UnRelais /\ AuRepos.lues = {} /\ AuRepos.prise = 0 /\ AuRepos.pc = "repos"
  BY DEF AuRepos, UnRelais
<1>4. SansRien \in UneCampagne /\ SansRien.relayees = {} /\ SansRien.pc = "repos"
  BY DEF SansRien, UneCampagne
<1>5. TypeDemandes
  BY <1>1, <1>3, <1>4, DemandesAssumption DEF Init, TypeDemandes
<1>6. \A c \in Cores : RelaisSuivi(c) /\ RapportSuivi(c)
  BY <1>1, <1>3, <1>4 DEF Init, RelaisSuivi, RapportSuivi
<1>7. \A i \in Ids : DemandeSure(i)
  BY <1>1 DEF Init, DemandeSure
<1> QED BY <1>2, <1>5, <1>6, <1>7 DEF IInv, Suivi

(* Every step keeps the invariant.                                         *)
LEMMA Pas == IInv /\ [Next]_vars => IInv'
<1> SUFFICES ASSUME IInv, [Next]_vars PROVE IInv'
  OBVIOUS
<1>1. ASSUME NEW c \in Cores, NEW cibles \in (SUBSET Machines) \ {{}}, Lancer(c, cibles) PROVE IInv'
  BY <1>1, PasLancer
<1>2. ASSUME NEW c \in Cores, NEW m \in Machines, RafraichirMachine(c, m) PROVE IInv'
  BY <1>2, PasRafraichir
<1>3. ASSUME NEW c \in Cores, AttendreLesIssues(c) PROVE IInv'
  BY <1>3, PasAttendre
<1>4. ASSUME NEW c \in Cores, Relever(c) PROVE IInv'
  BY <1>4, PasRelever
<1>5. ASSUME NEW c \in Cores, Prendre(c) PROVE IInv'
  BY <1>5, PasPrendre
<1>6. ASSUME NEW c \in Cores, PousserPrise(c) PROVE IInv'
  BY <1>6, PasPousserPrise
<1>7. ASSUME NEW c \in Cores, NoterRemise(c) PROVE IInv'
  BY <1>7, PasNoterRemise
<1>8. ASSUME NEW c \in Cores, Arreter(c) PROVE IInv'
  BY <1>8, PasArreter
<1>9. ASSUME NEW i \in Ids, Perimer(i) PROVE IInv'
  BY <1>9, PasPerimer
<1>10. ASSUME NEW m \in Machines,
              \/ \E c \in Cores : Connecter(m, c)
              \/ \E vue \in Vue : Couper(m, vue)
              \/ Recevoir0518(m) \/ Surveiller(m) \/ Commencer(m) \/ Finir(m)
       PROVE  IInv'
  BY <1>10, PasAgent
<1>11. CASE UNCHANGED vars
  BY <1>11 DEF vars, IInv, TypeTunnels, TypeDemandes, Suivi, DemandeSure, RelaisSuivi,
               RapportSuivi
<1>12. CASE Next
  BY <1>1, <1>2, <1>3, <1>4, <1>5, <1>6, <1>7, <1>8, <1>9, <1>10, <1>12, Zenon DEF Next
<1> QED BY <1>11, <1>12

(* What the invariant says of the pushes and of the reports.               *)
LEMMA Portee == IInv => PousseesJustes
<1> SUFFICES ASSUME IInv PROVE PousseesJustes
  OBVIOUS
<1>1. /\ TypeTunnels /\ TypeDemandes /\ Suivi /\ DOMAIN base \subseteq Ids
      /\ \A i \in DOMAIN base : base[i] \in UneDemande
  BY Numeros DEF IInv, TypeDemandes
<1>2. TypeOK
  <2>1. \A m \in Machines : agent[m].lien \in Cores \cup {Aucun} /\ agent[m].derniere \in 0..agent[m].cle
    BY <1>1 DEF TypeTunnels, UnAgent
  <2>2. \A i \in DOMAIN base : base[i].machine \in Machines /\ base[i].prisePar \in Cores \cup {Aucun}
    BY <1>1 DEF UneDemande
  <2>3. \A c \in Cores : /\ campagne[c].relayees \subseteq DOMAIN base
                         /\ relais[c].lues \subseteq DOMAIN base
                         /\ relais[c].prise \in {0} \cup DOMAIN base
    BY <1>1 DEF Suivi, RelaisSuivi, RapportSuivi
  <2> QED BY <1>1, <2>1, <2>2, <2>3 DEF TypeOK, TypeTunnels
<1>3. UneSeulePoussee
  BY <1>1 DEF Suivi, DemandeSure, UneSeulePoussee
<1>4. JointeVraie
  BY <1>1 DEF Suivi, RapportSuivi, JointeVraie
<1> QED BY <1>2, <1>3, <1>4 DEF PousseesJustes

(* Whatever the relays read at the same time, the tunnels lost between the *)
(* taking and the push and the cores that stop, a request of a cycle is    *)
(* pushed once at most, and a campaign that ends counts as reached, of the *)
(* machines it relayed, only those a core has pushed to.                   *)
THEOREM DemandesCorrectes == Spec => []PousseesJustes
<1>1. Spec => []IInv
  BY Depart, Pas, PTL DEF Spec
<1> QED BY <1>1, Portee, PTL
=============================================================================
