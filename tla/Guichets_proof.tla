---------------------------- MODULE Guichets_proof ----------------------------
(***************************************************************************)
(* Proofs about the counters that let in and refuse, for every value of    *)
(* the constants of MCGuichets: a key never creates more clients than its  *)
(* quota and a service told it is enrolled holds the private key of what   *)
(* the core recorded (Enrolement); the purge of the counters of failures   *)
(* changes no decision and a deadline is never shortened (Freinage); a     *)
(* source never gets more than a bucket and its refills and no request is  *)
(* executed twice (CommandesApi).                                          *)
(***************************************************************************)
EXTENDS MCGuichets, FiniteSetTheorems, SequenceTheorems, TLAPS

(***************************************************************************)
(* The enrolment.                                                          *)
(***************************************************************************)
UneCnx == [ouverte : BOOLEAN, pc : Etapes, cle : Cles \cup {"nul"},
           id : 0..MaxConnexions, paire : 0..MaxConnexions,
           vers : {"rien", "01_06", "01_08", "01_09"}]

(* A connection and the client of its number: the identifier and the pair  *)
(* it carries are its own, its place is held until its client exists, and  *)
(* 01_08 is only in flight when the key is recorded.                       *)
LienCnx(t) ==
  /\ cnx[t].pc # "neuve" => cnx[t].cle \in Cles
  /\ cnx[t].pc \in {"attend07", "recu07"} => cnx[t].id = t
  /\ cnx[t].vers = "01_06" => cnx[t].id = t
  /\ cnx[t].pc = "recu07" => cnx[t].paire = t
  /\ cnx[t].vers = "01_08" => cnx[t].pc = "finie" /\ client[t].publique = t
  /\ cnx[t].pc \in {"neuve", "demande", "relire", "creer", "rendre"} => client[t].par = "nul"

(* A service and what it has written since its connection opened.          *)
LienService(s) ==
  /\ service[s].pc \notin {"arret", "pret"} => service[s].cnx \in Connexions
  /\ service[s].pc \in {"generer", "envoyer", "attend08"} => disque[s].ident = service[s].cnx
  /\ service[s].pc \in {"envoyer", "attend08"} => disque[s].paire = service[s].cnx

Liens == (\A t \in Connexions : LienCnx(t)) /\ \A s \in Services : LienService(s)

(* No key is counted over its quota.                                       *)
CompteBorne == \A k \in Cles : Quota[k] # 0 => cle[k].compte <= Quota[k]

IInv == TypeOK /\ Liens /\ CompteCouvre /\ CompteBorne

Charge(k) == Cardinality(Crees(k)) + Cardinality(EnVol(k))

-----------------------------------------------------------------------------
(* The connections of a set are finite in number.                          *)
LEMMA Finies ==
  \A T \in SUBSET Connexions : IsFiniteSet(T) /\ Cardinality(T) \in Nat
<1> SUFFICES ASSUME NEW T \in SUBSET Connexions
             PROVE  IsFiniteSet(T) /\ Cardinality(T) \in Nat
  OBVIOUS
<1>1. IsFiniteSet(Connexions)
  BY Parametres, FS_Interval DEF Connexions
<1>2. IsFiniteSet(T)
  BY <1>1, FS_Subset
<1> QED BY <1>2, FS_CardinalityType

(* Fewer clients and fewer places held: the count still covers them.       *)
LEMMA CouvertSiMoins ==
  ASSUME CompteCouvre, cle \in [Cles -> [compte : Nat, vive : BOOLEAN]],
         \A k \in Cles : /\ Crees(k)' \subseteq Crees(k) /\ EnVol(k)' \subseteq EnVol(k)
                         /\ cle'[k].compte = cle[k].compte
  PROVE  CompteCouvre'
<1> SUFFICES ASSUME NEW k \in Cles
             PROVE  Cardinality(Crees(k)') + Cardinality(EnVol(k)') <= cle'[k].compte
  BY DEF CompteCouvre
<1>1. /\ IsFiniteSet(Crees(k)) /\ Cardinality(Crees(k)) \in Nat
      /\ IsFiniteSet(EnVol(k)) /\ Cardinality(EnVol(k)) \in Nat
      /\ Cardinality(Crees(k)') \in Nat /\ Cardinality(EnVol(k)') \in Nat
  BY Finies DEF Crees, EnVol
<1>2. Cardinality(Crees(k)') <= Cardinality(Crees(k))
  BY <1>1, FS_Subset
<1>3. Cardinality(EnVol(k)') <= Cardinality(EnVol(k))
  BY <1>1, FS_Subset
<1>4. Cardinality(Crees(k)) + Cardinality(EnVol(k)) <= cle[k].compte
  BY DEF CompteCouvre
<1> QED BY <1>1, <1>2, <1>3, <1>4

(* What a refusal leaves of a connection.                                  *)
LEMMA RefusDe ==
  ASSUME NEW c \in UneCnx
  PROVE  /\ Refus(c) \in UneCnx /\ Refus(c).pc = "finie" /\ Refus(c).cle = c.cle
         /\ Refus(c).vers \in {"rien", "01_09"}
<1> DEFINE v == IF c.ouverte THEN "01_09" ELSE "rien"
<1>1. v \in {"rien", "01_09"}
  OBVIOUS
<1> HIDE DEF v
<1>2. Refus(c) = [c EXCEPT !.pc = "finie", !.vers = v, !.ouverte = FALSE, !.id = 0]
  BY DEF Refus, v
<1>3. 0 \in 0..MaxConnexions
  BY Parametres
<1> QED BY <1>1, <1>2, <1>3 DEF UneCnx, Etapes

(* What the end of a connection leaves of it.                              *)
LEMMA FermeeDe ==
  ASSUME NEW c \in UneCnx, NEW perdue \in BOOLEAN
  PROVE  /\ Fermee(c, perdue) \in UneCnx /\ Fermee(c, perdue).cle = c.cle
         /\ Fermee(c, perdue).pc \in {c.pc, "finie"} /\ Fermee(c, perdue).vers = "rien"
         /\ c.pc \in {"neuve", "relire", "creer", "rendre"} => Fermee(c, perdue).pc = c.pc
         /\ Fermee(c, perdue).id = c.id /\ Fermee(c, perdue).paire = c.paire
BY DEF Fermee, UneCnx, Etapes

(* The type of the state, as the steps below take it.                      *)
LEMMA TypeDeLEtat ==
  TypeOK <=> /\ cle \in [Cles -> [compte : Nat, vive : BOOLEAN]]
             /\ client \in [Connexions -> [par : Cles \cup {"nul"}, publique : 0..MaxConnexions]]
             /\ trace \subseteq Connexions
             /\ cnx \in [Connexions -> UneCnx]
             /\ service \in [Services -> [pc : EtapesService, cnx : 0..MaxConnexions]]
             /\ disque \in [Services -> [ident : 0..MaxConnexions, paire : 0..MaxConnexions + 1]]
             /\ pannes \in 0..MaxPannes
BY DEF TypeOK, UneCnx

(* A failure counted stays within its bound.                               *)
LEMMA PannesBornees ==
  ASSUME NEW ok \in BOOLEAN, pannes \in 0..MaxPannes, Peut(ok), Panne(ok)
  PROVE  pannes' \in 0..MaxPannes
BY Parametres DEF Peut, Panne

(* A step of one connection keeps the links when it keeps its own.         *)
LEMMA UnLien ==
  ASSUME Liens, NEW t \in Connexions, LienCnx(t)',
         \A u \in Connexions \ {t} : cnx'[u] = cnx[u] /\ client'[u] = client[u],
         UNCHANGED <<service, disque>>
  PROVE  Liens'
BY DEF Liens, LienCnx, LienService

(* A step of one connection that takes no place and gives none back to the *)
(* key keeps everything, provided it keeps the links of this connection.   *)
LEMMA PasCalme ==
  ASSUME IInv, NEW t \in Connexions, cnx' \in [Connexions -> UneCnx],
         \A u \in Connexions \ {t} : cnx'[u] = cnx[u],
         cnx'[t].cle = cnx[t].cle,
         cnx'[t].pc \in {"relire", "creer", "rendre"} =>
           cnx[t].pc \in {"relire", "creer", "rendre"},
         LienCnx(t)', UNCHANGED <<cle, client, service, disque>>,
         trace' \subseteq Connexions, pannes' \in 0..MaxPannes
  PROVE  IInv'
<1> USE DEF IInv
<1>1. TypeOK'
  BY TypeDeLEtat DEF TypeOK, UneCnx
<1>2. Liens'
  BY UnLien
<1>3. \A k \in Cles : Crees(k)' \subseteq Crees(k) /\ EnVol(k)' \subseteq EnVol(k)
  BY DEF Crees, EnVol
<1>4. CompteCouvre'
  BY <1>3, CouvertSiMoins, TypeDeLEtat
<1> QED BY <1>1, <1>2, <1>4 DEF CompteBorne

(* A refusal is such a step.                                               *)
LEMMA PasRefus ==
  ASSUME IInv, NEW t \in Connexions, cnx[t].pc # "neuve",
         cnx' = [cnx EXCEPT ![t] = Refus(cnx[t])],
         UNCHANGED <<cle, client, trace, service, disque>>, pannes' \in 0..MaxPannes
  PROVE  IInv'
<1>1. cnx[t] \in UneCnx /\ cnx \in [Connexions -> UneCnx] /\ LienCnx(t) /\ trace \subseteq Connexions
  BY TypeDeLEtat DEF IInv, Liens
<1>2. /\ cnx' \in [Connexions -> UneCnx] /\ cnx'[t].pc = "finie"
      /\ cnx'[t].cle = cnx[t].cle /\ cnx'[t].vers \in {"rien", "01_09"}
      /\ \A u \in Connexions \ {t} : cnx'[u] = cnx[u]
  BY <1>1, RefusDe
<1>3. LienCnx(t)'
  BY <1>1, <1>2 DEF LienCnx
<1> QED BY <1>1, <1>2, <1>3, PasCalme

-----------------------------------------------------------------------------
(* The steps of the core.                                                  *)

(* 01_05: a place is taken, or the connection is refused.                  *)
LEMMA PasReserve ==
  ASSUME IInv, NEW t \in Connexions, Reserve(t) PROVE IInv'
<1> USE DEF IInv
<1>1. /\ cnx[t] \in UneCnx /\ cnx[t].pc = "demande" /\ cnx[t].cle \in Cles
      /\ client[t].par = "nul" /\ cnx \in [Connexions -> UneCnx]
      /\ UNCHANGED <<client, trace, service, disque, pannes>>
  BY TypeDeLEtat DEF Reserve, Liens, LienCnx
<1>2. CASE Utilisable(cnx[t].cle) /\ cle' = [cle EXCEPT ![cnx[t].cle].compte = @ + 1]
           /\ cnx' = [cnx EXCEPT ![t].pc = "relire"]
  <2>1. /\ cnx' \in [Connexions -> UneCnx] /\ cnx'[t].pc = "relire"
        /\ cnx'[t].cle = cnx[t].cle /\ cnx'[t].id = cnx[t].id /\ cnx'[t].vers = cnx[t].vers
        /\ \A u \in Connexions \ {t} : cnx'[u] = cnx[u]
    BY <1>1, <1>2 DEF UneCnx, Etapes
  <2>2. /\ cle' \in [Cles -> [compte : Nat, vive : BOOLEAN]]
        /\ cle'[cnx[t].cle].compte = cle[cnx[t].cle].compte + 1
        /\ \A k \in Cles : k # cnx[t].cle => cle'[k] = cle[k]
    BY <1>1, <1>2, TypeDeLEtat
  <2>3. TypeOK'
    BY <1>1, <2>1, <2>2, TypeDeLEtat DEF TypeOK, UneCnx
  <2>4. Liens'
    <3>1. LienCnx(t)'
      BY <1>1, <2>1 DEF Liens, LienCnx
    <3> QED BY <3>1, <1>1, <2>1, UnLien
  <2>5. ASSUME NEW k \in Cles
        PROVE  Cardinality(Crees(k)') + Cardinality(EnVol(k)') <= cle'[k].compte
    <3>1. Crees(k)' = Crees(k)
      BY <1>1 DEF Crees
    <3>2. /\ Cardinality(Crees(k)) \in Nat /\ Cardinality(EnVol(k)) \in Nat
          /\ IsFiniteSet(EnVol(k)) /\ cle[k].compte \in Nat
          /\ Cardinality(Crees(k)) + Cardinality(EnVol(k)) <= cle[k].compte
      BY Finies, TypeDeLEtat DEF Crees, EnVol, CompteCouvre
    <3>3. CASE k = cnx[t].cle
      <4>1. EnVol(k)' = EnVol(k) \cup {t} /\ t \notin EnVol(k)
        BY <1>1, <2>1, <3>3 DEF EnVol
      <4>2. Cardinality(EnVol(k)') = Cardinality(EnVol(k)) + 1
        BY <3>2, <4>1, FS_AddElement
      <4> QED BY <2>2, <3>1, <3>2, <3>3, <4>2
    <3>4. CASE k # cnx[t].cle
      <4>1. EnVol(k)' = EnVol(k)
        BY <1>1, <2>1, <3>4 DEF EnVol
      <4> QED BY <2>2, <3>1, <3>2, <3>4, <4>1
    <3> QED BY <3>3, <3>4
  <2>6. CompteBorne'
    BY <1>1, <1>2, <2>2, TypeDeLEtat, Parametres DEF CompteBorne, Utilisable
  <2> QED BY <2>3, <2>4, <2>5, <2>6 DEF CompteCouvre
<1>3. CASE cnx' = [cnx EXCEPT ![t] = Refus(cnx[t])] /\ UNCHANGED cle
  BY <1>1, <1>3, PasRefus, TypeDeLEtat
<1> QED BY <1>2, <1>3 DEF Reserve

(* The key is read again.                                                  *)
LEMMA PasRelire ==
  ASSUME IInv, NEW t \in Connexions, NEW ok \in BOOLEAN, Relire(t, ok) PROVE IInv'
<1>1. /\ cnx[t] \in UneCnx /\ cnx \in [Connexions -> UneCnx] /\ cnx[t].pc = "relire"
      /\ LienCnx(t) /\ trace \subseteq Connexions /\ pannes' \in 0..MaxPannes
      /\ UNCHANGED <<cle, client, trace, service, disque>>
  BY TypeDeLEtat, PannesBornees DEF IInv, Liens, Relire
<1>2. CASE ok
  <2>1. cnx' = [cnx EXCEPT ![t].pc = "creer"]
    BY <1>2 DEF Relire
  <2>2. /\ cnx' \in [Connexions -> UneCnx] /\ cnx'[t].pc = "creer"
        /\ cnx'[t].cle = cnx[t].cle /\ cnx'[t].id = cnx[t].id /\ cnx'[t].vers = cnx[t].vers
        /\ \A u \in Connexions \ {t} : cnx'[u] = cnx[u]
    BY <1>1, <2>1 DEF UneCnx, Etapes
  <2>3. LienCnx(t)'
    BY <1>1, <2>2 DEF LienCnx
  <2> QED BY <1>1, <2>2, <2>3, PasCalme
<1>3. CASE ~ok
  <2>1. cnx' = [cnx EXCEPT ![t] = Refus(cnx[t])]
    BY <1>3 DEF Relire
  <2> QED BY <1>1, <2>1, PasRefus
<1> QED BY <1>2, <1>3

(* The client is created in the place the enrolment holds, or the place is *)
(* about to be given back.                                                 *)
LEMMA PasCreer ==
  ASSUME IInv, NEW t \in Connexions, NEW ok \in BOOLEAN, Creer(t, ok) PROVE IInv'
<1>1. /\ cnx[t] \in UneCnx /\ cnx \in [Connexions -> UneCnx] /\ cnx[t].pc = "creer"
      /\ LienCnx(t) /\ trace \subseteq Connexions /\ pannes' \in 0..MaxPannes
      /\ UNCHANGED <<cle, trace, service, disque>>
  BY TypeDeLEtat, PannesBornees DEF IInv, Liens, Creer
<1>2. CASE ok
  <2>1. /\ cnx' = [cnx EXCEPT ![t].pc = "confirmer"]
        /\ client' = [client EXCEPT ![t] = [par |-> cnx[t].cle, publique |-> 0]]
    BY <1>2 DEF Creer
  <2>2. /\ cnx' \in [Connexions -> UneCnx] /\ cnx'[t].pc = "confirmer"
        /\ cnx'[t].cle = cnx[t].cle /\ cnx'[t].id = cnx[t].id /\ cnx'[t].vers = cnx[t].vers
        /\ \A u \in Connexions \ {t} : cnx'[u] = cnx[u]
    BY <1>1, <2>1 DEF UneCnx, Etapes
  <2>3. cnx[t].cle \in Cles /\ client[t].par = "nul" /\ cnx[t].vers # "01_08"
    BY <1>1 DEF LienCnx
  <2>4. /\ client' \in [Connexions -> [par : Cles \cup {"nul"}, publique : 0..MaxConnexions]]
        /\ client'[t].par = cnx[t].cle
        /\ \A u \in Connexions \ {t} : client'[u] = client[u]
    BY <2>1, <2>3, Parametres, TypeDeLEtat DEF IInv
  <2>5. TypeOK'
    BY <1>1, <2>2, <2>4, TypeDeLEtat DEF TypeOK, UneCnx, IInv
  <2>6. LienCnx(t)'
    BY <1>1, <2>2, <2>3 DEF LienCnx
  <2>7. Liens'
    BY <1>1, <2>2, <2>4, <2>6, UnLien DEF IInv
  <2>8. ASSUME NEW k \in Cles
        PROVE  Cardinality(Crees(k)') + Cardinality(EnVol(k)') <= cle'[k].compte
    <3>1. /\ Cardinality(Crees(k)) \in Nat /\ Cardinality(EnVol(k)) \in Nat
          /\ IsFiniteSet(EnVol(k)) /\ IsFiniteSet(Crees(k)) /\ cle[k].compte \in Nat
          /\ Cardinality(Crees(k)) + Cardinality(EnVol(k)) <= cle[k].compte
      BY Finies, TypeDeLEtat DEF Crees, EnVol, CompteCouvre, IInv
    <3>2. CASE k = cnx[t].cle
      <4>1. /\ EnVol(k)' = EnVol(k) \ {t} /\ t \in EnVol(k)
            /\ Crees(k)' = Crees(k) \cup {t} /\ t \notin Crees(k)
        BY <1>1, <2>2, <2>3, <2>4, <3>2, Parametres DEF EnVol, Crees
      <4>2. Cardinality(EnVol(k)') = Cardinality(EnVol(k)) - 1
        BY <3>1, <4>1, FS_RemoveElement
      <4>3. Cardinality(Crees(k)') = Cardinality(Crees(k)) + 1
        BY <3>1, <4>1, FS_AddElement
      <4> QED BY <1>1, <3>1, <4>2, <4>3
    <3>3. CASE k # cnx[t].cle
      <4>1. EnVol(k)' = EnVol(k) /\ Crees(k)' = Crees(k)
        BY <1>1, <2>2, <2>3, <2>4, <3>3, Parametres DEF EnVol, Crees
      <4> QED BY <1>1, <3>1, <4>1
    <3> QED BY <3>2, <3>3
  <2> QED BY <1>1, <2>5, <2>7, <2>8 DEF CompteCouvre, CompteBorne, IInv
<1>3. CASE ~ok
  <2>1. cnx' = [cnx EXCEPT ![t].pc = "rendre"] /\ client' = client
    BY <1>3 DEF Creer
  <2>2. /\ cnx' \in [Connexions -> UneCnx] /\ cnx'[t].pc = "rendre"
        /\ cnx'[t].cle = cnx[t].cle /\ cnx'[t].id = cnx[t].id /\ cnx'[t].vers = cnx[t].vers
        /\ \A u \in Connexions \ {t} : cnx'[u] = cnx[u]
    BY <1>1, <2>1 DEF UneCnx, Etapes
  <2>3. LienCnx(t)'
    BY <1>1, <2>1, <2>2 DEF LienCnx
  <2> QED BY <1>1, <2>1, <2>2, <2>3, PasCalme
<1> QED BY <1>2, <1>3

(* The place is given back, once, by the enrolment that holds it; or it is *)
(* lost, and still counted.                                                *)
LEMMA PasRelease ==
  ASSUME IInv, NEW t \in Connexions, NEW ok \in BOOLEAN, Release(t, ok) PROVE IInv'
<1>1. /\ cnx[t] \in UneCnx /\ cnx \in [Connexions -> UneCnx] /\ cnx[t].pc = "rendre"
      /\ LienCnx(t) /\ trace \subseteq Connexions /\ pannes' \in 0..MaxPannes
      /\ cnx' = [cnx EXCEPT ![t] = Refus(cnx[t])]
      /\ UNCHANGED <<client, trace, service, disque>>
  BY TypeDeLEtat, PannesBornees DEF IInv, Liens, Release
<1>2. CASE ok
  <2>1. cle' = [cle EXCEPT ![cnx[t].cle].compte = Rendue(@)]
    BY <1>2 DEF Release
  <2>2. /\ cnx' \in [Connexions -> UneCnx] /\ cnx'[t].pc = "finie"
        /\ cnx'[t].cle = cnx[t].cle /\ cnx'[t].vers \in {"rien", "01_09"}
        /\ \A u \in Connexions \ {t} : cnx'[u] = cnx[u]
    BY <1>1, RefusDe
  <2>3. cnx[t].cle \in Cles
    BY <1>1 DEF LienCnx
  <2>4. cle[cnx[t].cle].compte \in Nat /\ cle \in [Cles -> [compte : Nat, vive : BOOLEAN]]
    BY <2>3, TypeDeLEtat DEF IInv
  <2>5. /\ cle' \in [Cles -> [compte : Nat, vive : BOOLEAN]]
        /\ cle'[cnx[t].cle].compte = Rendue(cle[cnx[t].cle].compte)
        /\ \A k \in Cles : k # cnx[t].cle => cle'[k] = cle[k]
    BY <2>1, <2>3, <2>4 DEF Rendue
  <2>6. TypeOK'
    BY <1>1, <2>2, <2>5, TypeDeLEtat DEF TypeOK, UneCnx, IInv
  <2>7. LienCnx(t)'
    BY <1>1, <2>2 DEF LienCnx
  <2>8. Liens'
    BY <1>1, <2>2, <2>7, UnLien DEF IInv
  <2>9. ASSUME NEW k \in Cles
        PROVE  Cardinality(Crees(k)') + Cardinality(EnVol(k)') <= cle'[k].compte
    <3>1. /\ Cardinality(Crees(k)) \in Nat /\ Cardinality(EnVol(k)) \in Nat
          /\ IsFiniteSet(EnVol(k)) /\ cle[k].compte \in Nat
          /\ Cardinality(Crees(k)) + Cardinality(EnVol(k)) <= cle[k].compte
      BY Finies, TypeDeLEtat DEF Crees, EnVol, CompteCouvre, IInv
    <3>2. Crees(k)' = Crees(k)
      BY <1>1 DEF Crees
    <3>3. CASE k = cnx[t].cle
      <4>1. EnVol(k)' = EnVol(k) \ {t} /\ t \in EnVol(k)
        BY <1>1, <2>2, <3>3 DEF EnVol
      <4>2. Cardinality(EnVol(k)') = Cardinality(EnVol(k)) - 1 /\ Cardinality(EnVol(k)') \in Nat
        BY <3>1, <4>1, FS_RemoveElement, FS_CardinalityType
      <4>3. cle[k].compte > 0 /\ cle'[k].compte = cle[k].compte - 1
        BY <2>5, <3>1, <3>3, <4>2 DEF Rendue
      <4> QED BY <3>1, <3>2, <4>2, <4>3
    <3>4. CASE k # cnx[t].cle
      <4>1. EnVol(k)' = EnVol(k)
        BY <1>1, <2>2, <3>4 DEF EnVol
      <4> QED BY <2>5, <3>1, <3>2, <3>4, <4>1
    <3> QED BY <3>3, <3>4
  <2>10. CompteBorne'
    <3>1. Rendue(cle[cnx[t].cle].compte) <= cle[cnx[t].cle].compte
      BY <2>4 DEF Rendue
    <3>2. \A k \in Cles : Quota[k] \in Nat /\ cle[k].compte \in Nat /\ cle'[k].compte \in Nat
                         /\ cle'[k].compte <= cle[k].compte
      BY <2>4, <2>5, <3>1, Parametres
    <3> QED BY <3>2 DEF CompteBorne, IInv
  <2> QED BY <2>6, <2>8, <2>9, <2>10 DEF CompteCouvre, IInv
<1>3. CASE ~ok
  BY <1>1, <1>3, PasRefus DEF Release
<1> QED BY <1>2, <1>3

(* The identifier of the session is that of the client it created.         *)
LEMMA PasConfirm ==
  ASSUME IInv, NEW t \in Connexions, NEW ok \in BOOLEAN, Confirm(t, ok) PROVE IInv'
<1> DEFINE v == IF cnx[t].ouverte THEN "01_06" ELSE "rien"
<1>1. /\ cnx[t] \in UneCnx /\ cnx \in [Connexions -> UneCnx] /\ cnx[t].pc = "confirmer"
      /\ LienCnx(t) /\ trace \subseteq Connexions /\ pannes' \in 0..MaxPannes
      /\ cnx' = [cnx EXCEPT ![t].id = t, ![t].pc = "attend07", ![t].vers = v]
      /\ UNCHANGED <<cle, client, service, disque>>
  BY TypeDeLEtat, PannesBornees DEF IInv, Liens, Confirm
<1>2. trace' \subseteq Connexions
  BY <1>1 DEF Confirm
<1>3. v \in {"rien", "01_06"} /\ t \in 0..MaxConnexions
  BY Parametres DEF Connexions
<1> HIDE DEF v
<1>4. /\ cnx' \in [Connexions -> UneCnx] /\ cnx'[t].pc = "attend07" /\ cnx'[t].id = t
      /\ cnx'[t].cle = cnx[t].cle /\ cnx'[t].vers \in {"rien", "01_06"}
      /\ \A u \in Connexions \ {t} : cnx'[u] = cnx[u]
  BY <1>1, <1>3 DEF UneCnx, Etapes
<1>5. LienCnx(t)'
  BY <1>1, <1>4 DEF LienCnx
<1> QED BY <1>1, <1>2, <1>4, <1>5, PasCalme

(* The public key is recorded under the identifier of the session before   *)
(* 01_08 goes out.                                                         *)
LEMMA PasPublicKey ==
  ASSUME IInv, NEW t \in Connexions, NEW ok \in BOOLEAN, HandleEnrollPublicKey(t, ok)
  PROVE  IInv'
<1>1. /\ cnx[t] \in UneCnx /\ cnx \in [Connexions -> UneCnx] /\ cnx[t].pc = "recu07"
      /\ LienCnx(t) /\ trace \subseteq Connexions /\ pannes' \in 0..MaxPannes
      /\ UNCHANGED <<cle, trace, service, disque>>
  BY TypeDeLEtat, PannesBornees DEF IInv, Liens, HandleEnrollPublicKey
<1>2. CASE ok
  <2> DEFINE v == IF cnx[t].ouverte THEN "01_08" ELSE "rien"
  <2>1. cnx[t].id = t /\ cnx[t].paire = t
    BY <1>1 DEF LienCnx
  <2>2. /\ client' = [client EXCEPT ![t].publique = t]
        /\ cnx' = [cnx EXCEPT ![t].pc = "finie", ![t].id = 0, ![t].ouverte = FALSE, ![t].vers = v]
    BY <1>2, <2>1 DEF HandleEnrollPublicKey
  <2>3. v \in {"rien", "01_08"} /\ t \in 0..MaxConnexions /\ 0 \in 0..MaxConnexions
    BY Parametres DEF Connexions
  <2> HIDE DEF v
  <2>4. /\ cnx' \in [Connexions -> UneCnx] /\ cnx'[t].pc = "finie"
        /\ cnx'[t].cle = cnx[t].cle /\ cnx'[t].vers \in {"rien", "01_08"}
        /\ \A u \in Connexions \ {t} : cnx'[u] = cnx[u]
    BY <1>1, <2>2, <2>3 DEF UneCnx, Etapes
  <2>5. /\ client' \in [Connexions -> [par : Cles \cup {"nul"}, publique : 0..MaxConnexions]]
        /\ client'[t].publique = t /\ client'[t].par = client[t].par
        /\ \A u \in Connexions \ {t} : client'[u] = client[u]
    BY <2>2, <2>3, TypeDeLEtat DEF IInv
  <2>6. TypeOK'
    BY <1>1, <2>4, <2>5, TypeDeLEtat DEF TypeOK, UneCnx, IInv
  <2>7. LienCnx(t)'
    BY <1>1, <2>4, <2>5 DEF LienCnx
  <2>8. Liens'
    BY <1>1, <2>4, <2>5, <2>7, UnLien DEF IInv
  <2>9. \A k \in Cles : Crees(k)' \subseteq Crees(k) /\ EnVol(k)' \subseteq EnVol(k)
    BY <1>1, <2>4, <2>5 DEF Crees, EnVol
  <2> QED BY <1>1, <2>6, <2>8, <2>9, CouvertSiMoins, TypeDeLEtat DEF CompteBorne, IInv
<1>3. CASE ~ok
  BY <1>1, <1>3, PasRefus DEF HandleEnrollPublicKey
<1> QED BY <1>2, <1>3

-----------------------------------------------------------------------------
(* The failures and the administrators.                                    *)

(* A connection that ends loses frames, and no place.                      *)
LEMMA PasCouper ==
  ASSUME IInv, NEW t \in Connexions, Couper(t) PROVE IInv'
<1> PICK perdue \in BOOLEAN : cnx' = [cnx EXCEPT ![t] = Fermee(cnx[t], perdue)]
  BY DEF Couper
<1>1. /\ cnx[t] \in UneCnx /\ cnx \in [Connexions -> UneCnx]
      /\ LienCnx(t) /\ trace \subseteq Connexions
      /\ UNCHANGED <<cle, client, trace, service, disque>>
  BY TypeDeLEtat DEF IInv, Liens, Couper
<1>2. pannes' \in 0..MaxPannes
  BY TypeDeLEtat, Parametres DEF IInv, Couper
<1>3. cnx' \in [Connexions -> UneCnx] /\ cnx'[t] = Fermee(cnx[t], perdue)
  BY <1>1, FermeeDe
<1>4. /\ cnx'[t].cle = cnx[t].cle /\ cnx'[t].pc \in {cnx[t].pc, "finie"}
      /\ cnx'[t].vers = "rien" /\ cnx'[t].id = cnx[t].id /\ cnx'[t].paire = cnx[t].paire
      /\ \A u \in Connexions \ {t} : cnx'[u] = cnx[u]
      /\ cnx[t].pc = "neuve" => cnx'[t].pc = "neuve"
  BY <1>1, <1>3, FermeeDe
<1>5. LienCnx(t)'
  BY <1>1, <1>4 DEF LienCnx
<1> QED BY <1>1, <1>2, <1>3, <1>4, <1>5, PasCalme

(* A key revoked keeps its count.                                          *)
LEMMA PasRevokeKey ==
  ASSUME IInv, NEW k \in Cles, RevokeKey(k) PROVE IInv'
<1> USE DEF IInv
<1>1. /\ cle' \in [Cles -> [compte : Nat, vive : BOOLEAN]]
      /\ \A j \in Cles : cle'[j].compte = cle[j].compte
      /\ UNCHANGED <<client, trace, cnx, service, disque, pannes>>
  BY TypeDeLEtat DEF RevokeKey
<1>2. TypeOK'
  BY <1>1, TypeDeLEtat DEF TypeOK
<1>3. Liens'
  BY <1>1 DEF Liens, LienCnx, LienService
<1>4. \A j \in Cles : Crees(j)' \subseteq Crees(j) /\ EnVol(j)' \subseteq EnVol(j)
  BY <1>1 DEF Crees, EnVol
<1> QED BY <1>1, <1>2, <1>3, <1>4, CouvertSiMoins, TypeDeLEtat DEF CompteBorne

(* The core stops: the enrolments that run are over, and the places they   *)
(* held stay counted.                                                      *)
LEMMA PasArreterCore == ASSUME IInv, ArreterCore PROVE IInv'
<1> USE DEF IInv
<1>1. /\ cnx \in [Connexions -> UneCnx] /\ trace \subseteq Connexions
      /\ UNCHANGED <<cle, client, trace, service, disque>>
  BY TypeDeLEtat DEF ArreterCore
<1>2. pannes' \in 0..MaxPannes
  <2>1. pannes' = pannes + 1 /\ pannes < MaxPannes
    BY DEF ArreterCore
  <2>2. pannes \in 0..MaxPannes
    BY TypeDeLEtat
  <2> QED BY <2>1, <2>2, Parametres
<1>3. ASSUME NEW t \in Connexions
      PROVE  /\ cnx'[t] \in UneCnx
             /\ \/ cnx[t].pc = "neuve" /\ cnx'[t] = cnx[t]
                \/ cnx'[t].pc = "finie" /\ cnx'[t].cle = cnx[t].cle /\ cnx'[t].vers = "rien"
                   /\ cnx[t].pc # "neuve"
  <2>1. CASE cnx[t].pc = "neuve"
    BY <1>1, <2>1 DEF ArreterCore
  <2>2. CASE cnx[t].pc # "neuve"
    <3>1. cnx'[t] = [Fermee(cnx[t], TRUE) EXCEPT !.pc = "finie", !.id = 0]
      BY <2>2 DEF ArreterCore
    <3>2. /\ Fermee(cnx[t], TRUE) \in UneCnx /\ Fermee(cnx[t], TRUE).cle = cnx[t].cle
          /\ Fermee(cnx[t], TRUE).vers = "rien"
      BY <1>1, FermeeDe
    <3>3. 0 \in 0..MaxConnexions
      BY Parametres
    <3> QED BY <2>2, <3>1, <3>2, <3>3 DEF UneCnx, Etapes
  <2> QED BY <2>1, <2>2
<1>4. cnx' \in [Connexions -> UneCnx]
  BY <1>3 DEF ArreterCore
<1>5. TypeOK'
  BY <1>1, <1>2, <1>4, TypeDeLEtat DEF TypeOK, UneCnx
<1>6. \A t \in Connexions : LienCnx(t)'
  BY <1>1, <1>3 DEF Liens, LienCnx
<1>7. Liens'
  BY <1>1, <1>6 DEF Liens, LienService
<1>8. \A k \in Cles : Crees(k)' \subseteq Crees(k) /\ EnVol(k)' \subseteq EnVol(k)
  BY <1>1, <1>3 DEF Crees, EnVol
<1> QED BY <1>1, <1>5, <1>7, <1>8, CouvertSiMoins, TypeDeLEtat DEF CompteBorne

-----------------------------------------------------------------------------
(* The steps of a service.                                                 *)

(* It touches its own files and frames of connections, takes no place of a *)
(* key, and keeps its links.                                               *)
LEMMA PasDuService ==
  ASSUME IInv, NEW s \in Services, cnx' \in [Connexions -> UneCnx],
         service' \in [Services -> [pc : EtapesService, cnx : 0..MaxConnexions]],
         disque' \in [Services -> [ident : 0..MaxConnexions, paire : 0..MaxConnexions + 1]],
         \A r \in Services \ {s} : service'[r] = service[r] /\ disque'[r] = disque[r],
         LienService(s)', \A t \in Connexions : LienCnx(t)',
         \A t \in Connexions : cnx'[t].pc \in {"relire", "creer", "rendre"} =>
           cnx'[t].pc = cnx[t].pc /\ cnx'[t].cle = cnx[t].cle,
         UNCHANGED <<cle, client, trace>>, pannes' \in 0..MaxPannes
  PROVE  IInv'
<1> USE DEF IInv
<1>1. TypeOK'
  BY TypeDeLEtat DEF TypeOK, UneCnx
<1>2. \A r \in Services \ {s} : LienService(r)'
  BY DEF Liens, LienService
<1>3. Liens'
  BY <1>2 DEF Liens
<1>4. \A k \in Cles : Crees(k)' \subseteq Crees(k) /\ EnVol(k)' \subseteq EnVol(k)
  BY DEF Crees, EnVol
<1>5. CompteCouvre'
  BY <1>4, CouvertSiMoins, TypeDeLEtat
<1> QED BY <1>1, <1>3, <1>5 DEF CompteBorne

(* What every step of a service starts from.                               *)
LEMMA DepartDuService ==
  ASSUME IInv, NEW s \in Services
  PROVE  /\ cnx \in [Connexions -> UneCnx]
         /\ service \in [Services -> [pc : EtapesService, cnx : 0..MaxConnexions]]
         /\ disque \in [Services -> [ident : 0..MaxConnexions, paire : 0..MaxConnexions + 1]]
         /\ pannes \in 0..MaxPannes /\ LienService(s) /\ \A t \in Connexions : LienCnx(t)
         /\ service[s].pc \notin {"arret", "pret"} =>
              service[s].cnx \in Connexions /\ cnx[service[s].cnx] \in UneCnx
BY TypeDeLEtat DEF IInv, Liens, LienService

(* It starts: identified for good, or on a connection that is its own.     *)
LEMMA PasDemarrer == ASSUME IInv, NEW s \in Services, Demarrer(s) PROVE IInv'
<1>1. CASE service' = [service EXCEPT ![s].pc = "pret"] /\ UNCHANGED cnx
  <2>1. /\ service' \in [Services -> [pc : EtapesService, cnx : 0..MaxConnexions]]
        /\ service'[s].pc = "pret" /\ \A r \in Services \ {s} : service'[r] = service[r]
    BY <1>1, DepartDuService DEF EtapesService
  <2>2. LienService(s)'
    BY <2>1 DEF LienService
  <2>3. \A t \in Connexions : LienCnx(t)'
    BY <1>1, DepartDuService DEF LienCnx, Demarrer
  <2> QED BY <1>1, <2>1, <2>2, <2>3, DepartDuService, PasDuService DEF Demarrer
<1>2. ASSUME NEW t \in Connexions, NEW k \in Cles, cnx[t].pc = "neuve",
             cnx' = [cnx EXCEPT ![t].ouverte = TRUE, ![t].pc = "demande", ![t].cle = k],
             service' = [service EXCEPT ![s] = [pc |-> "attend06", cnx |-> t]]
      PROVE  IInv'
  <2>1. /\ cnx' \in [Connexions -> UneCnx] /\ cnx'[t].pc = "demande" /\ cnx'[t].cle = k
        /\ cnx'[t].vers = cnx[t].vers /\ cnx'[t].id = cnx[t].id
        /\ \A u \in Connexions \ {t} : cnx'[u] = cnx[u]
    BY <1>2, DepartDuService DEF UneCnx, Etapes
  <2>2. t \in 0..MaxConnexions
    BY Parametres DEF Connexions
  <2>3. /\ service' \in [Services -> [pc : EtapesService, cnx : 0..MaxConnexions]]
        /\ service'[s] = [pc |-> "attend06", cnx |-> t]
        /\ \A r \in Services \ {s} : service'[r] = service[r]
    BY <1>2, <2>2, DepartDuService DEF EtapesService
  <2>4. LienService(s)'
    BY <2>3 DEF LienService
  <2>5. UNCHANGED <<cle, client, trace, disque, pannes>>
    BY DEF Demarrer
  <2>6. \A u \in Connexions : LienCnx(u)'
    BY <1>2, <2>1, <2>5, DepartDuService DEF LienCnx
  <2>7. \A u \in Connexions : cnx'[u].pc \in {"relire", "creer", "rendre"} =>
           cnx'[u].pc = cnx[u].pc /\ cnx'[u].cle = cnx[u].cle
    BY <2>1
  <2> QED BY <2>1, <2>3, <2>4, <2>5, <2>6, <2>7, DepartDuService, PasDuService
<1> QED BY <1>1, <1>2 DEF Demarrer

(* The frame a service has read is no longer in flight; nothing else of    *)
(* the connections has changed.                                            *)
LEMMA TrameLue ==
  ASSUME IInv, NEW t \in Connexions, cnx' = [cnx EXCEPT ![t].vers = "rien"], UNCHANGED client
  PROVE  /\ cnx' \in [Connexions -> UneCnx] /\ \A u \in Connexions : LienCnx(u)'
         /\ \A u \in Connexions : cnx'[u].pc = cnx[u].pc /\ cnx'[u].cle = cnx[u].cle
<1>1. /\ cnx[t] \in UneCnx /\ cnx \in [Connexions -> UneCnx]
      /\ \A u \in Connexions : LienCnx(u)
  BY TypeDeLEtat DEF IInv, Liens
<1>2. /\ cnx' \in [Connexions -> UneCnx] /\ cnx'[t].vers = "rien"
      /\ cnx'[t].pc = cnx[t].pc /\ cnx'[t].cle = cnx[t].cle
      /\ cnx'[t].id = cnx[t].id /\ cnx'[t].paire = cnx[t].paire
      /\ \A u \in Connexions \ {t} : cnx'[u] = cnx[u]
  BY <1>1 DEF UneCnx
<1>3. \A u \in Connexions : LienCnx(u)'
  BY <1>1, <1>2 DEF LienCnx
<1> QED BY <1>2, <1>3

(* The identity written is that of the connection.                         *)
LEMMA PasIdentite == ASSUME IInv, NEW s \in Services, RecevoirIdentite(s) PROVE IInv'
<1> DEFINE t == service[s].cnx
<1>1. /\ service[s].pc = "attend06" /\ cnx[t].vers = "01_06"
      /\ cnx' = [cnx EXCEPT ![t].vers = "rien"]
      /\ service' = [service EXCEPT ![s].pc = "generer"]
      /\ disque' = [disque EXCEPT ![s].ident = cnx[t].id]
      /\ UNCHANGED <<cle, client, trace, pannes>>
  BY DEF RecevoirIdentite, Ici
<1>2. t \in Connexions /\ cnx[t].id = t /\ t \in 0..MaxConnexions
  BY <1>1, DepartDuService, Parametres DEF LienCnx, Connexions
<1>3. /\ service' \in [Services -> [pc : EtapesService, cnx : 0..MaxConnexions]]
      /\ service'[s].pc = "generer" /\ service'[s].cnx = t
      /\ \A r \in Services \ {s} : service'[r] = service[r]
  BY <1>1, DepartDuService DEF EtapesService
<1>4. /\ disque' \in [Services -> [ident : 0..MaxConnexions, paire : 0..MaxConnexions + 1]]
      /\ disque'[s].ident = t /\ \A r \in Services \ {s} : disque'[r] = disque[r]
  BY <1>1, <1>2, DepartDuService
<1>5. LienService(s)'
  BY <1>2, <1>3, <1>4 DEF LienService
<1>6. pannes' \in 0..MaxPannes
  BY <1>1, DepartDuService
<1>7. /\ cnx' \in [Connexions -> UneCnx] /\ \A u \in Connexions : LienCnx(u)'
      /\ \A u \in Connexions : cnx'[u].pc = cnx[u].pc /\ cnx'[u].cle = cnx[u].cle
  BY <1>1, <1>2, TrameLue
<1> QED BY <1>1, <1>3, <1>4, <1>5, <1>6, <1>7, PasDuService

(* The pair is that of the connection.                                     *)
LEMMA PasGenerer == ASSUME IInv, NEW s \in Services, GenererPaire(s) PROVE IInv'
<1> SUFFICES ASSUME NEW t \in Connexions, t = service[s].cnx PROVE IInv'
  BY DepartDuService DEF GenererPaire
<1>1. /\ service[s].pc = "generer"
      /\ service' = [service EXCEPT ![s].pc = "envoyer"]
      /\ disque' = [disque EXCEPT ![s].paire = t]
      /\ UNCHANGED <<cle, client, trace, cnx, pannes>>
  BY DEF GenererPaire
<1>2. t \in 0..MaxConnexions + 1 /\ disque[s].ident = t
  <2>1. disque[s].ident = t
    BY <1>1, DepartDuService DEF LienService
  <2>2. t \in 0..MaxConnexions + 1
    BY Parametres DEF Connexions
  <2> QED BY <2>1, <2>2
<1>3. /\ service' \in [Services -> [pc : EtapesService, cnx : 0..MaxConnexions]]
      /\ service'[s].pc = "envoyer" /\ service'[s].cnx = t
      /\ \A r \in Services \ {s} : service'[r] = service[r]
  BY <1>1, DepartDuService DEF EtapesService
<1>4. /\ disque' \in [Services -> [ident : 0..MaxConnexions, paire : 0..MaxConnexions + 1]]
      /\ disque'[s].ident = t /\ disque'[s].paire = t
      /\ \A r \in Services \ {s} : disque'[r] = disque[r]
  BY <1>1, <1>2, DepartDuService
<1>5. LienService(s)'
  BY <1>2, <1>3, <1>4 DEF LienService
<1>6. cnx' \in [Connexions -> UneCnx] /\ pannes' \in 0..MaxPannes
  BY <1>1, DepartDuService
<1>7. \A u \in Connexions : LienCnx(u)'
  BY <1>1, DepartDuService DEF LienCnx
<1> QED BY <1>1, <1>3, <1>4, <1>5, <1>6, <1>7, PasDuService

(* The public key that reaches the core is that of the pair written.       *)
LEMMA PasEnvoyer == ASSUME IInv, NEW s \in Services, EnvoyerCle(s) PROVE IInv'
<1> SUFFICES ASSUME NEW t \in Connexions, t = service[s].cnx PROVE IInv'
  BY DepartDuService DEF EnvoyerCle
<1>1. /\ service[s].pc = "envoyer" /\ cnx[t].pc = "attend07"
      /\ cnx' = [cnx EXCEPT ![t].pc = "recu07", ![t].paire = disque[s].paire]
      /\ service' = [service EXCEPT ![s].pc = "attend08"]
      /\ UNCHANGED <<cle, client, trace, disque, pannes>>
  BY DEF EnvoyerCle
<1>2. t \in 0..MaxConnexions /\ disque[s].ident = t /\ disque[s].paire = t
  BY <1>1, DepartDuService, Parametres DEF LienService, Connexions
<1>3. /\ service' \in [Services -> [pc : EtapesService, cnx : 0..MaxConnexions]]
      /\ service'[s].pc = "attend08" /\ service'[s].cnx = t
      /\ \A r \in Services \ {s} : service'[r] = service[r]
  BY <1>1, DepartDuService DEF EtapesService
<1>4. LienService(s)'
  BY <1>1, <1>2, <1>3 DEF LienService
<1>5. cnx[t] \in UneCnx /\ cnx \in [Connexions -> UneCnx] /\ \A u \in Connexions : LienCnx(u)
  BY DepartDuService
<1>6. cnx' = [cnx EXCEPT ![t].pc = "recu07", ![t].paire = t]
  BY <1>1, <1>2
<1>7. /\ cnx' \in [Connexions -> UneCnx] /\ cnx'[t].pc = "recu07" /\ cnx'[t].paire = t
      /\ cnx'[t].cle = cnx[t].cle /\ cnx'[t].id = cnx[t].id /\ cnx'[t].vers = cnx[t].vers
      /\ \A u \in Connexions \ {t} : cnx'[u] = cnx[u]
  BY <1>2, <1>5, <1>6 DEF UneCnx, Etapes
<1>8. \A u \in Connexions : LienCnx(u)'
  BY <1>1, <1>5, <1>7 DEF LienCnx
<1>9. \A u \in Connexions : cnx'[u].pc \in {"relire", "creer", "rendre"} =>
        cnx'[u].pc = cnx[u].pc /\ cnx'[u].cle = cnx[u].cle
  BY <1>7
<1> QED BY <1>1, <1>3, <1>4, <1>7, <1>8, <1>9, DepartDuService, PasDuService

(* 01_08 read, the service is ready.                                       *)
LEMMA PasConfirmation ==
  ASSUME IInv, NEW s \in Services, RecevoirConfirmation(s) PROVE IInv'
<1>1. /\ service[s].pc = "attend08" /\ cnx' = [cnx EXCEPT ![service[s].cnx].vers = "rien"]
      /\ service' = [service EXCEPT ![s].pc = "pret"]
      /\ UNCHANGED <<cle, client, trace, disque, pannes>>
  BY DEF RecevoirConfirmation
<1>2. /\ service' \in [Services -> [pc : EtapesService, cnx : 0..MaxConnexions]]
      /\ service'[s].pc = "pret" /\ \A r \in Services \ {s} : service'[r] = service[r]
  BY <1>1, DepartDuService DEF EtapesService
<1>3. LienService(s)'
  BY <1>2 DEF LienService
<1>4. /\ cnx' \in [Connexions -> UneCnx] /\ \A u \in Connexions : LienCnx(u)'
      /\ \A u \in Connexions : cnx'[u].pc = cnx[u].pc /\ cnx'[u].cle = cnx[u].cle
  BY <1>1, DepartDuService, TrameLue
<1> QED BY <1>1, <1>2, <1>3, <1>4, DepartDuService, PasDuService

(* A start that fails, or a service that stops, leaves its files.          *)
LEMMA PasEchouer == ASSUME IInv, NEW s \in Services, Echouer(s) PROVE IInv'
<1>1. /\ service' = [service EXCEPT ![s] = [pc |-> "arret", cnx |-> 0]]
      /\ UNCHANGED <<cle, client, trace, cnx, disque, pannes>>
  BY DEF Echouer
<1>2. /\ service' \in [Services -> [pc : EtapesService, cnx : 0..MaxConnexions]]
      /\ service'[s].pc = "arret" /\ \A r \in Services \ {s} : service'[r] = service[r]
  BY <1>1, DepartDuService, Parametres DEF EtapesService
<1>3. LienService(s)'
  BY <1>2 DEF LienService
<1>4. \A u \in Connexions : LienCnx(u)'
  BY <1>1, DepartDuService DEF LienCnx
<1> QED BY <1>1, <1>2, <1>3, <1>4, DepartDuService, PasDuService

(* A service that stops takes its connection with it.                      *)
LEMMA PasArreterService == ASSUME IInv, NEW s \in Services, ArreterService(s) PROVE IInv'
<1> PICK perdue \in BOOLEAN :
      cnx' = [cnx EXCEPT ![service[s].cnx] = Fermee(cnx[service[s].cnx], perdue)]
  BY DEF ArreterService
<1> SUFFICES ASSUME NEW t \in Connexions, t = service[s].cnx PROVE IInv'
  BY DepartDuService DEF ArreterService
<1>1. /\ service' = [service EXCEPT ![s] = [pc |-> "arret", cnx |-> 0]]
      /\ cnx' = [cnx EXCEPT ![t] = Fermee(cnx[t], perdue)]
      /\ pannes' = pannes + 1 /\ pannes < MaxPannes
      /\ UNCHANGED <<cle, client, trace, disque>>
  BY DEF ArreterService
<1>2. /\ service' \in [Services -> [pc : EtapesService, cnx : 0..MaxConnexions]]
      /\ service'[s].pc = "arret" /\ \A r \in Services \ {s} : service'[r] = service[r]
  BY <1>1, DepartDuService, Parametres DEF EtapesService
<1>3. LienService(s)'
  BY <1>2 DEF LienService
<1>4. pannes' \in 0..MaxPannes
  BY <1>1, DepartDuService, Parametres
<1>5. /\ cnx[t] \in UneCnx /\ cnx \in [Connexions -> UneCnx]
      /\ \A u \in Connexions : LienCnx(u)
  BY DepartDuService
<1>6. cnx' \in [Connexions -> UneCnx] /\ cnx'[t] = Fermee(cnx[t], perdue)
  BY <1>1, <1>5, FermeeDe
<1>7. /\ cnx'[t].cle = cnx[t].cle /\ cnx'[t].pc \in {cnx[t].pc, "finie"}
      /\ cnx'[t].vers = "rien" /\ cnx'[t].id = cnx[t].id /\ cnx'[t].paire = cnx[t].paire
      /\ \A u \in Connexions \ {t} : cnx'[u] = cnx[u]
      /\ cnx[t].pc = "neuve" => cnx'[t].pc = "neuve"
  BY <1>1, <1>5, <1>6, FermeeDe
<1>8. \A u \in Connexions : LienCnx(u)'
  BY <1>1, <1>5, <1>7 DEF LienCnx
<1>9. \A u \in Connexions : cnx'[u].pc \in {"relire", "creer", "rendre"} =>
        cnx'[u].pc = cnx[u].pc /\ cnx'[u].cle = cnx[u].cle
  BY <1>7
<1> QED BY <1>1, <1>2, <1>3, <1>4, <1>6, <1>8, <1>9, DepartDuService, PasDuService

-----------------------------------------------------------------------------
(* No client, no connection, no count: the start.                          *)
LEMMA DepartTenu == Init => IInv
<1> SUFFICES ASSUME Init PROVE IInv
  OBVIOUS
<1>1. TypeOK
  <2>1. 0 \in 0..MaxConnexions /\ 0 \in 0..MaxPannes /\ MaxConnexions + 1 \in 0..MaxConnexions + 1
        /\ 0 \in 0..MaxConnexions + 1
    BY Parametres
  <2>2. cle \in [Cles -> [compte : Nat, vive : BOOLEAN]] /\ trace \subseteq Connexions
    BY DEF Init
  <2>3. client \in [Connexions -> [par : Cles \cup {"nul"}, publique : 0..MaxConnexions]]
    BY <2>1 DEF Init, SansClient
  <2>4. cnx \in [Connexions -> UneCnx]
    BY <2>1 DEF Init, CnxNeuve, UneCnx, Etapes
  <2>5. service \in [Services -> [pc : EtapesService, cnx : 0..MaxConnexions]]
    BY <2>1 DEF Init, EtapesService
  <2>6. disque \in [Services -> [ident : 0..MaxConnexions, paire : 0..MaxConnexions + 1]]
    BY <2>1 DEF Init, PaireAncienne
  <2>7. pannes \in 0..MaxPannes
    BY <2>1 DEF Init
  <2> QED BY <2>2, <2>3, <2>4, <2>5, <2>6, <2>7, TypeDeLEtat
<1>2. Liens
  BY DEF Init, Liens, LienCnx, LienService, CnxNeuve, SansClient
<1>3. ASSUME NEW k \in Cles PROVE Cardinality(Crees(k)) + Cardinality(EnVol(k)) <= cle[k].compte
  <2>1. Crees(k) = {} /\ EnVol(k) = {}
    BY Parametres DEF Init, Crees, EnVol, CnxNeuve, SansClient
  <2>2. Cardinality(Crees(k)) = 0 /\ Cardinality(EnVol(k)) = 0
    BY <2>1, FS_EmptySet
  <2>3. cle[k].compte = 0
    BY DEF Init
  <2> QED BY <2>2, <2>3
<1>4. CompteBorne
  BY Parametres DEF Init, CompteBorne
<1> QED BY <1>1, <1>2, <1>3, <1>4 DEF IInv, CompteCouvre

(* Every step keeps what the enrolment rests on.                           *)
LEMMA PasTenu == IInv /\ [Next]_vars => IInv'
<1> SUFFICES ASSUME IInv, [Next]_vars PROVE IInv'
  OBVIOUS
<1>1. ASSUME NEW s \in Services,
             \/ Demarrer(s) \/ RecevoirIdentite(s) \/ GenererPaire(s) \/ EnvoyerCle(s)
             \/ RecevoirConfirmation(s) \/ Echouer(s) \/ ArreterService(s)
      PROVE  IInv'
  BY <1>1, PasDemarrer, PasIdentite, PasGenerer, PasEnvoyer, PasConfirmation, PasEchouer,
     PasArreterService
<1>2. ASSUME NEW t \in Connexions, Reserve(t) \/ Couper(t) PROVE IInv'
  BY <1>2, PasReserve, PasCouper
<1>3. ASSUME NEW t \in Connexions, NEW ok \in BOOLEAN,
             \/ Relire(t, ok) \/ Creer(t, ok) \/ Release(t, ok)
             \/ Confirm(t, ok) \/ HandleEnrollPublicKey(t, ok)
      PROVE  IInv'
  BY <1>3, PasRelire, PasCreer, PasRelease, PasConfirm, PasPublicKey
<1>4. ASSUME NEW k \in Cles, RevokeKey(k) PROVE IInv'
  BY <1>4, PasRevokeKey
<1>5. CASE ArreterCore
  BY <1>5, PasArreterCore
<1>6. CASE UNCHANGED vars
  <2>1. TypeOK'
    BY <1>6 DEF vars, TypeOK, IInv
  <2>2. Liens'
    BY <1>6 DEF vars, IInv, Liens, LienCnx, LienService
  <2>3. \A k \in Cles : Crees(k)' = Crees(k) /\ EnVol(k)' = EnVol(k)
    BY <1>6 DEF vars, Crees, EnVol
  <2> QED BY <1>6, <2>1, <2>2, <2>3 DEF vars, IInv, CompteCouvre, CompteBorne
<1> QED BY <1>1, <1>2, <1>3, <1>4, <1>5, <1>6 DEF Next

(* What is promised follows from what is kept.                             *)
LEMMA PromessesTenues == IInv => QuotaJuste
<1> SUFFICES ASSUME IInv PROVE QuotaJuste
  OBVIOUS
<1>1. ASSUME NEW k \in Cles, Quota[k] # 0 PROVE Cardinality(Crees(k)) <= Quota[k]
  <2>1. /\ Cardinality(Crees(k)) \in Nat /\ Cardinality(EnVol(k)) \in Nat
        /\ cle[k].compte \in Nat /\ Quota[k] \in Nat
    BY Finies, TypeDeLEtat, Parametres DEF Crees, EnVol, IInv
  <2>2. Cardinality(Crees(k)) + Cardinality(EnVol(k)) <= cle[k].compte
    BY DEF IInv, CompteCouvre
  <2>3. cle[k].compte <= Quota[k]
    BY <1>1 DEF IInv, CompteBorne
  <2> QED BY <2>1, <2>2, <2>3
<1>2. ConfirmationJuste
  <2> SUFFICES ASSUME NEW s \in Services, service[s].pc = "attend08",
                      cnx[service[s].cnx].vers = "01_08"
               PROVE  client[disque[s].ident].publique = disque[s].paire
    BY DEF ConfirmationJuste
  <2>1. /\ service[s].cnx \in Connexions
        /\ disque[s].ident = service[s].cnx /\ disque[s].paire = service[s].cnx
    BY DEF IInv, Liens, LienService
  <2>2. client[service[s].cnx].publique = service[s].cnx
    BY <2>1 DEF IInv, Liens, LienCnx
  <2> QED BY <2>1, <2>2
<1> QED BY <1>1, <1>2 DEF IInv, QuotaJuste, QuotaTenu

(* For every set of services and keys, every quota, whatever is cut, stops *)
(* or fails: the count of a key covers its clients and the places held, no *)
(* key creates more than its quota, and a service told it is enrolled has  *)
(* the private key of what was recorded (enrolement.go, service_enroll).   *)
THEOREM EnrolementCorrect == Spec => []QuotaJuste
BY DepartTenu, PasTenu, PromessesTenues, PTL DEF Spec

-----------------------------------------------------------------------------
(***************************************************************************)
(* The throttle of the password checks.                                    *)
(***************************************************************************)
LEMMA MinDuFrein ==
  ASSUME NEW a \in Int, NEW b \in Int
  PROVE  F!Min({a, b}) = IF a <= b THEN a ELSE b
BY DEF F!Min

(* The powers of two, counted as the parts of an interval.                 *)
LEMMA Puissances ==
  ASSUME NEW j \in Nat, NEW k \in Nat, j <= k
  PROVE  2^j \in Nat \ {0} /\ 2^k \in Nat \ {0} /\ 2^j <= 2^k
<1>1. IsFiniteSet(1..j) /\ Cardinality(1..j) = j /\ IsFiniteSet(1..k) /\ Cardinality(1..k) = k
  BY FS_Interval
<1>2. /\ IsFiniteSet(SUBSET (1..j)) /\ Cardinality(SUBSET (1..j)) = 2^j
      /\ IsFiniteSet(SUBSET (1..k)) /\ Cardinality(SUBSET (1..k)) = 2^k
  BY <1>1, FS_SUBSET
<1>3. SUBSET (1..j) \subseteq SUBSET (1..k)
  OBVIOUS
<1>4. 2^j \in Nat /\ 2^k \in Nat
  BY <1>2, FS_CardinalityType
<1>5. 2^j <= 2^k
  BY <1>2, <1>3, FS_Subset
<1>6. 2^j # 0
  BY <1>2, FS_EmptySet
<1> QED BY <1>4, <1>5, <1>6

LEMMA NombresDuFrein ==
  /\ EssaisGratuits \in Nat /\ DelaiMaximum \in Nat \ {0} /\ Oubli \in Nat /\ DelaiMaximum < Oubli
  /\ Largeur \in Nat /\ Zeros \in Nat /\ MaxEchecs \in Nat /\ Sauts \subseteq Nat \ {0}
  /\ F!Bits(Impair) \in 0..31 /\ DelaiMaximum <= 2^20
  /\ \A k \in 0..20 : Largeur - Zeros - k <= F!Bits(Impair) => DelaiMaximum <= 2^k
BY ReglagesFrein DEF F!Bareme, F!MotAssezLarge

(* The scale and the shifted word agree, whatever overflows.               *)
LEMMA DelaiTenu ==
  ASSUME NEW n \in Nat, n > EssaisGratuits
  PROVE  /\ F!Delai(n) = F!Echelle(n)
         /\ F!Delai(n) \in 1..DelaiMaximum
         /\ F!Delai(n) <= F!Delai(n + 1)
<1>1. ASSUME NEW m \in Nat, m > EssaisGratuits
      PROVE  F!Delai(m) = F!Echelle(m) /\ F!Echelle(m) \in 1..DelaiMaximum
  <2> DEFINE k == m - EssaisGratuits - 1
             place == Largeur - Zeros - k
             bits == F!Bits(Impair)
  <2>1. k \in Nat /\ place \in Int /\ bits \in 0..31 /\ DelaiMaximum \in Nat \ {0}
    BY <1>1, NombresDuFrein
  <2>2. F!Echelle(m) = IF k > 20 THEN DelaiMaximum ELSE F!Min({DelaiMaximum, 2^k})
    BY DEF F!Echelle
  <2>3. F!Delai(m) = F!Plafonne(F!Decale(k))
    BY DEF F!Delai
  <2>4. 2^k \in Nat \ {0}
    BY <2>1, Puissances
  <2>5. F!Echelle(m) = IF k > 20 \/ DelaiMaximum <= 2^k THEN DelaiMaximum ELSE 2^k
    BY <2>1, <2>2, <2>4, MinDuFrein
  <2>6. CASE place > bits
    <3>1. F!Decale(k) = 2^F!Min({k, 30})
      BY <2>6, <2>1 DEF F!Decale
    <3>2. CASE k <= 20
      <4>1. F!Min({k, 30}) = k
        BY <2>1, <3>2, MinDuFrein
      <4> QED BY <2>1, <2>3, <2>4, <2>5, <3>1, <3>2, <4>1 DEF F!Plafonne
    <3>3. CASE k > 20
      <4> DEFINE l == F!Min({k, 30})
      <4>1. l \in Nat /\ 20 <= l
        BY <2>1, <3>3, MinDuFrein
      <4>2. 2^l \in Nat /\ 2^20 <= 2^l /\ 2^20 \in Nat
        BY <4>1, Puissances
      <4>3. DelaiMaximum <= 2^l
        <5>1. DelaiMaximum <= 2^20
          BY NombresDuFrein
        <5> HIDE DEF l
        <5> QED BY <2>1, <4>2, <5>1
      <4>4. F!Delai(m) = F!Plafonne(2^l)
        BY <2>3, <3>1
      <4> HIDE DEF l
      <4>5. F!Plafonne(2^l) = DelaiMaximum
        BY <2>1, <4>2, <4>3 DEF F!Plafonne
      <4> QED BY <2>1, <2>5, <3>3, <4>4, <4>5
    <3> QED BY <2>1, <3>2, <3>3
  <2>7. CASE place <= bits
    <3>1. F!Decale(k) \in {0, -1, DelaiMaximum + 1}
      BY <2>7, <2>1 DEF F!Decale
    <3>2. F!Delai(m) = DelaiMaximum
      BY <2>1, <2>3, <3>1 DEF F!Plafonne
    <3>3. k <= 20 => DelaiMaximum <= 2^k
      <4> SUFFICES ASSUME k <= 20 PROVE DelaiMaximum <= 2^k
        OBVIOUS
      <4>1. Largeur - Zeros - k <= F!Bits(Impair)
        BY <2>7
      <4> HIDE DEF k
      <4>2. k \in 0..20
        BY <2>1
      <4> QED BY <4>1, <4>2, NombresDuFrein
    <3> QED BY <2>1, <2>4, <2>5, <3>2, <3>3
  <2> QED BY <2>1, <2>6, <2>7
<1>2. F!Delai(n) = F!Echelle(n) /\ F!Echelle(n) \in 1..DelaiMaximum
  BY <1>1
<1>3. F!Delai(n + 1) = F!Echelle(n + 1) /\ F!Echelle(n + 1) \in 1..DelaiMaximum
  BY <1>1, NombresDuFrein
<1>4. F!Echelle(n) <= F!Echelle(n + 1)
  <2> DEFINE k == n - EssaisGratuits - 1
  <2>1. k \in Nat /\ EssaisGratuits \in Nat /\ DelaiMaximum \in Nat \ {0}
    BY NombresDuFrein
  <2>2. 2^k \in Nat /\ 2^(k + 1) \in Nat /\ 2^k <= 2^(k + 1)
    BY <2>1, Puissances
  <2>3. F!Echelle(n) = IF k > 20 THEN DelaiMaximum ELSE F!Min({DelaiMaximum, 2^k})
    BY DEF F!Echelle
  <2>4. F!Echelle(n + 1) = IF k + 1 > 20 THEN DelaiMaximum ELSE F!Min({DelaiMaximum, 2^(k + 1)})
    <3>1. n + 1 - EssaisGratuits - 1 = k + 1
      BY <2>1
    <3> QED BY <2>1, <3>1 DEF F!Echelle
  <2> DEFINE p == 2^k
             q == 2^(k + 1)
  <2>5. F!Min({DelaiMaximum, p}) = IF DelaiMaximum <= p THEN DelaiMaximum ELSE p
    BY <2>1, <2>2, MinDuFrein
  <2>6. F!Min({DelaiMaximum, q}) = IF DelaiMaximum <= q THEN DelaiMaximum ELSE q
    BY <2>1, <2>2, MinDuFrein
  <2>7. p \in Nat /\ q \in Nat /\ p <= q
    BY <2>2
  <2> HIDE DEF p, q
  <2>8. F!Echelle(n) = IF k > 20 THEN DelaiMaximum ELSE IF DelaiMaximum <= p THEN DelaiMaximum ELSE p
    BY <2>3, <2>5 DEF p
  <2>9. F!Echelle(n + 1) = IF k + 1 > 20 THEN DelaiMaximum ELSE IF DelaiMaximum <= q THEN DelaiMaximum ELSE q
    BY <2>4, <2>6 DEF q
  <2> HIDE DEF k
  <2> QED BY <2>1, <2>7, <2>8, <2>9, <1>2, <1>3
<1> QED BY <1>2, <1>3, <1>4

-----------------------------------------------------------------------------
UnCompteur == [echecs : 0..MaxEchecs, dernier : Nat, refuse : Nat]
UneTentative == [pc : {"repos", "evalue", "second"}, cles : SUBSET F!Entrees, admise : 0..temps]

(* A counter c at the instant n: a deadline never runs past the cap, it is *)
(* the one of the scale beyond the free failures, and none runs before.    *)
Sain(c, n) ==
  /\ c.dernier <= n /\ (c.dernier = 0 => c = F!Aucun)
  /\ c.refuse <= c.dernier + DelaiMaximum
  /\ c.echecs > EssaisGratuits => c.refuse = c.dernier + F!Delai(c.echecs)
  /\ c.refuse > n => c.echecs > EssaisGratuits

(* A counter a of the tables at the instant n, and b the same one without  *)
(* any purge: they differ by a deadline that is over, or b counts no more. *)
Egaux(a, b, n) ==
  /\ a.echecs = b.echecs /\ a.dernier = b.dernier
  /\ a.refuse = b.refuse \/ (a.refuse <= n /\ b.refuse <= n)
Suit(a, b, n) ==
  \/ Egaux(a, b, n)
  \/ a = F!Aucun /\ n - b.dernier > Oubli /\ b.refuse <= n

FreinTypes ==
  /\ temps \in Nat \ {0} /\ dernierePurge \in 0..temps
  /\ compteur \in [F!Entrees -> UnCompteur] /\ temoin \in [F!Entrees -> UnCompteur]
  /\ tentative \in [Tentatives -> UneTentative]
  /\ rejets \in [F!Entrees -> 0..EssaisGratuits + 1]
Compteurs ==
  \A c \in F!Entrees : /\ Sain(compteur[c], temps) /\ Sain(temoin[c], temps)
                       /\ Suit(compteur[c], temoin[c], temps)

FreinSuivi == FreinTypes /\ Compteurs /\ F!PurgeComplete /\ F!AdmiseAvant

-----------------------------------------------------------------------------
(* A counter without failures is in order, at any instant.                 *)
LEMMA AucunSain ==
  ASSUME NEW n \in Nat
  PROVE  F!Aucun \in UnCompteur /\ Sain(F!Aucun, n) /\ Suit(F!Aucun, F!Aucun, n)
BY NombresDuFrein DEF F!Aucun, UnCompteur, Sain, Suit, Egaux

(* A counter in order stays so as time goes.                               *)
LEMMA SainPlusTard ==
  ASSUME NEW n \in Nat, NEW m \in Nat, n <= m, NEW a \in UnCompteur, NEW b \in UnCompteur,
         Sain(a, n), Sain(b, n), Suit(a, b, n)
  PROVE  Sain(a, m) /\ Sain(b, m) /\ Suit(a, b, m)
<1>1. /\ a.echecs \in Nat /\ a.dernier \in Nat /\ a.refuse \in Nat
      /\ b.echecs \in Nat /\ b.dernier \in Nat /\ b.refuse \in Nat
  BY NombresDuFrein DEF UnCompteur
<1>2. Sain(a, m) /\ Sain(b, m)
  BY <1>1, NombresDuFrein DEF Sain
<1>3. Suit(a, b, m)
  BY <1>1, NombresDuFrein DEF Suit, Egaux
<1> QED BY <1>2, <1>3

(* A failure keeps a counter in order and never shortens a deadline that   *)
(* still runs.                                                             *)
LEMMA IncrementeSain ==
  ASSUME temps \in Nat \ {0}, NEW c \in UnCompteur, Sain(c, temps), c.echecs < MaxEchecs
  PROVE  /\ F!Incremente(c) \in UnCompteur /\ Sain(F!Incremente(c), temps)
         /\ F!Incremente(c).dernier = temps
         /\ c.refuse > temps => F!Incremente(c).refuse >= c.refuse
<1> DEFINE n == IF c.dernier # 0 /\ F!Perime(c) THEN 1 ELSE c.echecs + 1
           d == F!Incremente(c)
<1>1. /\ c.echecs \in Nat /\ c.dernier \in Nat /\ c.refuse \in Nat /\ temps \in Nat
      /\ EssaisGratuits \in Nat /\ DelaiMaximum \in Nat \ {0} /\ Oubli \in Nat
      /\ DelaiMaximum < Oubli /\ MaxEchecs \in Nat
  BY NombresDuFrein DEF UnCompteur
<1>2. n \in 1..MaxEchecs /\ n \in Nat
  BY <1>1
<1>3. d = [echecs |-> n, dernier |-> temps,
           refuse |-> IF n > EssaisGratuits THEN temps + F!Delai(n) ELSE c.refuse]
  BY DEF F!Incremente
<1>4. n > EssaisGratuits => F!Delai(n) \in 1..DelaiMaximum
  BY <1>2, DelaiTenu
<1>5. c.refuse > temps => n = c.echecs + 1 /\ n > EssaisGratuits /\ c.echecs > EssaisGratuits
  BY <1>1 DEF Sain, F!Perime
<1> HIDE DEF n, d
<1>6. d \in UnCompteur
  BY <1>1, <1>2, <1>3, <1>4 DEF UnCompteur
<1>7. d.echecs = n /\ d.dernier = temps
      /\ d.refuse = (IF n > EssaisGratuits THEN temps + F!Delai(n) ELSE c.refuse)
  BY <1>3
<1>8. Sain(d, temps)
  BY <1>1, <1>2, <1>4, <1>5, <1>7 DEF Sain
<1>9. ASSUME c.refuse > temps
      PROVE  d.refuse >= c.refuse
  <2>1. c.refuse = c.dernier + F!Delai(c.echecs) /\ c.dernier <= temps
    BY <1>5, <1>9 DEF Sain
  <2>2. /\ F!Delai(c.echecs) \in 1..DelaiMaximum
        /\ F!Delai(c.echecs) <= F!Delai(c.echecs + 1)
    BY <1>1, <1>5, <1>9, DelaiTenu
  <2>3. d.refuse = temps + F!Delai(c.echecs + 1) /\ F!Delai(c.echecs + 1) \in 1..DelaiMaximum
    BY <1>4, <1>5, <1>7, <1>9
  <2> QED BY <1>1, <2>1, <2>2, <2>3
<1> QED BY <1>6, <1>7, <1>8, <1>9 DEF d

(* Two counters worth the same are still worth the same after a failure.   *)
LEMMA IncrementeSuit ==
  ASSUME temps \in Nat \ {0}, NEW a \in UnCompteur, NEW b \in UnCompteur,
         Sain(a, temps), Sain(b, temps), Suit(a, b, temps), b.echecs < MaxEchecs
  PROVE  a.echecs < MaxEchecs /\ Suit(F!Incremente(a), F!Incremente(b), temps)
<1>1. /\ a.echecs \in Nat /\ a.dernier \in Nat /\ a.refuse \in Nat /\ temps \in Nat
      /\ b.echecs \in Nat /\ b.dernier \in Nat /\ b.refuse \in Nat
      /\ EssaisGratuits \in Nat /\ DelaiMaximum \in Nat \ {0} /\ Oubli \in Nat
      /\ DelaiMaximum < Oubli /\ MaxEchecs \in Nat
  BY NombresDuFrein DEF UnCompteur
<1>2. CASE Egaux(a, b, temps)
  <2>1. F!Perime(a) = F!Perime(b)
    BY <1>2 DEF F!Perime, Egaux
  <2>2. Egaux(F!Incremente(a), F!Incremente(b), temps)
    BY <1>1, <1>2, <2>1 DEF F!Incremente, Egaux
  <2> QED BY <1>1, <1>2, <2>2 DEF Suit, Egaux
<1>3. CASE a = F!Aucun /\ temps - b.dernier > Oubli /\ b.refuse <= temps
  <2>1. a.echecs = 0 /\ a.dernier = 0 /\ a.refuse = 0
    BY <1>3 DEF F!Aucun
  <2>2. F!Incremente(a) = [echecs |-> 1, dernier |-> temps,
                           refuse |-> IF 1 > EssaisGratuits THEN temps + F!Delai(1) ELSE 0]
    BY <2>1 DEF F!Incremente
  <2>3. F!Perime(b) /\ (b.dernier = 0 => b.echecs = 0)
    BY <1>3 DEF F!Perime, Sain, F!Aucun
  <2>4. F!Incremente(b) = [echecs |-> 1, dernier |-> temps,
                           refuse |-> IF 1 > EssaisGratuits THEN temps + F!Delai(1) ELSE b.refuse]
    BY <2>3 DEF F!Incremente
  <2>5. Egaux(F!Incremente(a), F!Incremente(b), temps)
    BY <1>1, <1>3, <2>2, <2>4 DEF Egaux
  <2> QED BY <1>1, <2>1, <2>5 DEF Suit
<1> QED BY <1>2, <1>3 DEF Suit

(* What a purge leaves of a counter.                                       *)
LEMMA PurgeSaine ==
  ASSUME FreinTypes, Compteurs
  PROVE  /\ F!Purgee(compteur) \in [F!Entrees -> UnCompteur]
         /\ \A c \in F!Entrees :
              /\ F!Purgee(compteur)[c] \in {compteur[c], F!Aucun}
              /\ compteur[c].refuse > temps => F!Purgee(compteur)[c] = compteur[c]
              /\ Sain(F!Purgee(compteur)[c], temps)
              /\ Suit(F!Purgee(compteur)[c], temoin[c], temps)
              /\ F!Purgee(compteur)[c].dernier # 0 => temps - F!Purgee(compteur)[c].dernier <= Oubli
<1>1. temps \in Nat /\ EssaisGratuits \in Nat /\ DelaiMaximum \in Nat \ {0} /\ Oubli \in Nat
      /\ DelaiMaximum < Oubli
  BY NombresDuFrein DEF FreinTypes
<1>2. \A c \in F!Entrees :
         F!Purgee(compteur)[c] = IF F!Perime(compteur[c]) /\ temps > compteur[c].refuse
                                 THEN F!Aucun ELSE compteur[c]
  BY DEF F!Purgee
<1>3. F!Aucun \in UnCompteur /\ Sain(F!Aucun, temps)
  BY <1>1, AucunSain
<1>4. F!Purgee(compteur) \in [F!Entrees -> UnCompteur]
  BY <1>3 DEF F!Purgee, FreinTypes
<1>5. ASSUME NEW c \in F!Entrees
      PROVE  /\ F!Purgee(compteur)[c] \in {compteur[c], F!Aucun}
             /\ compteur[c].refuse > temps => F!Purgee(compteur)[c] = compteur[c]
             /\ Sain(F!Purgee(compteur)[c], temps)
             /\ Suit(F!Purgee(compteur)[c], temoin[c], temps)
             /\ F!Purgee(compteur)[c].dernier # 0 => temps - F!Purgee(compteur)[c].dernier <= Oubli
  <2> DEFINE a == compteur[c]
             b == temoin[c]
  <2>1. a \in UnCompteur /\ b \in UnCompteur /\ Sain(a, temps) /\ Sain(b, temps) /\ Suit(a, b, temps)
    BY <1>5 DEF FreinTypes, Compteurs
  <2>2. /\ a.echecs \in Nat /\ a.dernier \in Nat /\ a.refuse \in Nat
        /\ b.echecs \in Nat /\ b.dernier \in Nat /\ b.refuse \in Nat
    BY <2>1, NombresDuFrein DEF UnCompteur
  <2>3. F!Purgee(compteur)[c] = IF F!Perime(a) /\ temps > a.refuse THEN F!Aucun ELSE a
    BY <1>2, <1>5
  <2> HIDE DEF a, b
  <2>4. CASE F!Perime(a) /\ temps > a.refuse
    <3>1. F!Purgee(compteur)[c] = F!Aucun
      BY <2>3, <2>4
    <3>2. Suit(F!Aucun, b, temps)
      <4>1. CASE Egaux(a, b, temps)
        BY <1>1, <2>2, <2>4, <4>1 DEF Suit, Egaux, F!Perime
      <4> QED BY <2>1, <4>1 DEF Suit
    <3>3. F!Aucun.dernier = 0
      BY DEF F!Aucun
    <3> QED BY <1>1, <1>3, <2>2, <2>4, <3>1, <3>2, <3>3 DEF a, b
  <2>5. CASE ~(F!Perime(a) /\ temps > a.refuse)
    <3>1. F!Purgee(compteur)[c] = a
      BY <2>3, <2>5
    <3>2. temps - a.dernier <= Oubli
      BY <1>1, <2>1, <2>2, <2>5 DEF F!Perime, Sain
    <3> QED BY <2>1, <3>1, <3>2 DEF a, b
  <2> QED BY <2>4, <2>5
<1> QED BY <1>4, <1>5

-----------------------------------------------------------------------------
LEMMA FreinDepart == F!Init => FreinSuivi
<1> SUFFICES ASSUME F!Init PROVE FreinSuivi
  OBVIOUS
<1>1. temps = 1 /\ dernierePurge = 1
  BY DEF F!Init
<1>2. F!Aucun \in UnCompteur /\ Sain(F!Aucun, temps) /\ Suit(F!Aucun, F!Aucun, temps)
  BY <1>1, AucunSain
<1>3. \A c \in F!Entrees : compteur[c] = F!Aucun /\ temoin[c] = F!Aucun
  BY DEF F!Init
<1>4. FreinTypes
  <2>1. F!Repos \in UneTentative
    BY <1>1 DEF F!Repos, UneTentative
  <2> QED BY <1>1, <1>2, <2>1, NombresDuFrein DEF F!Init, FreinTypes
<1>5. Compteurs
  BY <1>2, <1>3 DEF Compteurs
<1>6. F!PurgeComplete
  BY <1>3 DEF F!PurgeComplete, F!Aucun
<1>7. F!AdmiseAvant
  BY DEF F!Init, F!AdmiseAvant, F!Repos
<1> QED BY <1>4, <1>5, <1>6, <1>7 DEF FreinSuivi

(* The number of attempts and of failures stays within its set.            *)
LEMMA FreinReste ==
  ASSUME FreinSuivi,
         UNCHANGED <<compteur, temoin, dernierePurge, tentative, rejets, temps>>
  PROVE  FreinSuivi'
<1>1. FreinTypes'
  BY DEF FreinSuivi, FreinTypes, UneTentative
<1>2. Compteurs' /\ F!PurgeComplete' /\ F!AdmiseAvant'
  BY DEF FreinSuivi, Compteurs, F!PurgeComplete, F!AdmiseAvant
<1> QED BY <1>1, <1>2 DEF FreinSuivi

(* A door asks: the tables may be purged, and the attempt be admitted.     *)
LEMMA PasAutorise ==
  ASSUME FreinSuivi, NEW t \in Tentatives, NEW cles \in SUBSET F!Entrees, F!Autorise(t, cles)
  PROVE  FreinSuivi' /\ F!EcheanceGardee
<1> DEFINE admise == [pc |-> "evalue", cles |-> cles, admise |-> temps]
<1>1. FreinTypes /\ Compteurs
  BY DEF FreinSuivi
<1>2. UNCHANGED <<temoin, rejets, temps>>
  BY DEF F!Autorise
<1>3. /\ compteur' \in [F!Entrees -> UnCompteur] /\ dernierePurge' \in 0..temps
      /\ \A c \in F!Entrees :
           /\ compteur'[c] \in {compteur[c], F!Aucun}
           /\ compteur[c].refuse > temps => compteur'[c] = compteur[c]
           /\ Sain(compteur'[c], temps) /\ Suit(compteur'[c], temoin[c], temps)
           /\ compteur'[c].dernier # 0 => dernierePurge' - compteur'[c].dernier <= Oubli
  <2>1. CASE compteur' = F!Purgee(compteur) /\ dernierePurge' = temps
    BY <1>1, <2>1, PurgeSaine DEF FreinTypes
  <2>2. CASE UNCHANGED <<compteur, dernierePurge>>
    BY <1>1, <2>2 DEF FreinSuivi, FreinTypes, Compteurs, F!PurgeComplete
  <2> QED BY <2>1, <2>2 DEF F!Autorise
<1>4. /\ tentative' \in [Tentatives -> UneTentative]
      /\ \/ tentative' = tentative
         \/ /\ tentative' = [tentative EXCEPT ![t] = admise]
            /\ \A c \in cles : compteur'[c].refuse <= temps
  <2>1. admise \in UneTentative
    BY <1>1 DEF UneTentative, FreinTypes
  <2> QED BY <1>1, <2>1 DEF F!Autorise, FreinTypes
<1>5. FreinTypes'
  BY <1>1, <1>2, <1>3, <1>4 DEF FreinTypes, UneTentative
<1>6. Compteurs'
  BY <1>1, <1>2, <1>3 DEF Compteurs
<1>7. F!PurgeComplete'
  BY <1>3 DEF F!PurgeComplete
<1>8. F!AdmiseAvant'
  <2> SUFFICES ASSUME NEW u \in Tentatives, NEW c \in tentative'[u].cles, compteur'[c].refuse > temps
               PROVE  tentative'[u].admise <= compteur'[c].dernier
    BY <1>2 DEF F!AdmiseAvant
  <2>1. c \in F!Entrees /\ tentative'[u] \in UneTentative
    BY <1>4 DEF UneTentative
  <2>2. compteur'[c] = compteur[c]
    <3>1. compteur'[c].refuse \in Nat /\ temps \in Nat /\ F!Aucun.refuse = 0
      BY <1>1, <1>3, <2>1 DEF UnCompteur, FreinTypes, F!Aucun
    <3> QED BY <1>3, <2>1, <3>1
  <2>3. CASE tentative'[u] = tentative[u]
    BY <2>2, <2>3 DEF FreinSuivi, F!AdmiseAvant
  <2>4. CASE tentative'[u] # tentative[u]
    <3>1. \A e \in cles : compteur'[e].refuse <= temps
      BY <1>4, <2>4
    <3>2. tentative'[u].cles = cles
      BY <1>1, <1>4, <2>4 DEF FreinTypes
    <3>3. compteur'[c].refuse \in Nat /\ temps \in Nat
      BY <1>1, <1>3, <2>1 DEF UnCompteur, FreinTypes
    <3> QED BY <3>1, <3>2, <3>3
  <2> QED BY <2>3, <2>4
<1>9. F!EcheanceGardee
  <2> SUFFICES ASSUME NEW c \in F!Entrees, compteur[c].refuse > temps
               PROVE  compteur'[c].refuse >= compteur[c].refuse
    BY DEF F!EcheanceGardee
  <2>1. compteur'[c] = compteur[c] /\ compteur[c].refuse \in Nat
    BY <1>1, <1>3 DEF FreinTypes, UnCompteur
  <2> QED BY <2>1
<1> QED BY <1>5, <1>6, <1>7, <1>8, <1>9 DEF FreinSuivi

(* An attempt fails: its account and its source each count it.             *)
LEMMA PasEchec ==
  ASSUME FreinSuivi, NEW t \in Tentatives, F!Echec(t)
  PROVE  FreinSuivi' /\ F!EcheanceGardee
<1> DEFINE cles == tentative[t].cles
<1>1. FreinTypes /\ Compteurs /\ temps \in Nat \ {0}
  BY DEF FreinSuivi, FreinTypes
<1>2. UNCHANGED <<dernierePurge, temps>> /\ tentative' = [tentative EXCEPT ![t] = F!Repos]
  BY DEF F!Echec
<1>3. cles \subseteq F!Entrees /\ \A c \in cles : temoin[c].echecs < MaxEchecs
  BY <1>1 DEF FreinTypes, UneTentative, F!Echec
<1>4. ASSUME NEW c \in cles
      PROVE  /\ compteur'[c] = F!Incremente(compteur[c]) /\ temoin'[c] = F!Incremente(temoin[c])
             /\ compteur'[c] \in UnCompteur /\ temoin'[c] \in UnCompteur
             /\ Sain(compteur'[c], temps) /\ Sain(temoin'[c], temps)
             /\ Suit(compteur'[c], temoin'[c], temps)
             /\ compteur'[c].dernier = temps
             /\ compteur[c].refuse > temps => compteur'[c].refuse >= compteur[c].refuse
  <2>1. c \in F!Entrees /\ temoin[c].echecs < MaxEchecs
    BY <1>3, <1>4
  <2>2. compteur'[c] = F!Incremente(compteur[c]) /\ temoin'[c] = F!Incremente(temoin[c])
    BY <1>4, <2>1 DEF F!Echec
  <2>3. /\ compteur[c] \in UnCompteur /\ temoin[c] \in UnCompteur
        /\ Sain(compteur[c], temps) /\ Sain(temoin[c], temps)
        /\ Suit(compteur[c], temoin[c], temps)
    BY <1>1, <2>1 DEF FreinTypes, Compteurs
  <2>4. /\ compteur[c].echecs < MaxEchecs
        /\ Suit(F!Incremente(compteur[c]), F!Incremente(temoin[c]), temps)
    BY <1>1, <2>1, <2>3, IncrementeSuit
  <2> QED BY <1>1, <2>1, <2>2, <2>3, <2>4, IncrementeSain
<1>5. ASSUME NEW c \in F!Entrees, c \notin cles
      PROVE  compteur'[c] = compteur[c] /\ temoin'[c] = temoin[c]
  BY <1>5 DEF F!Echec
<1>6. FreinTypes'
  <2>1. compteur' \in [F!Entrees -> UnCompteur] /\ temoin' \in [F!Entrees -> UnCompteur]
    <3>1. /\ compteur' = [c \in F!Entrees |-> compteur'[c]]
          /\ temoin' = [c \in F!Entrees |-> temoin'[c]]
      BY DEF F!Echec
    <3>2. \A c \in F!Entrees : compteur'[c] \in UnCompteur /\ temoin'[c] \in UnCompteur
      BY <1>1, <1>4, <1>5 DEF FreinTypes
    <3> QED BY <3>1, <3>2
  <2>2. tentative' \in [Tentatives -> UneTentative]
    <3>1. F!Repos \in UneTentative
      BY <1>1 DEF UneTentative, F!Repos
    <3> QED BY <1>1, <1>2, <3>1 DEF FreinTypes
  <2>3. rejets' \in [F!Entrees -> 0..EssaisGratuits + 1]
    <3>1. \A c \in F!Entrees :
             F!Min({rejets[c] + 1, EssaisGratuits + 1}) \in 0..EssaisGratuits + 1
      <4> SUFFICES ASSUME NEW c \in F!Entrees
                   PROVE  F!Min({rejets[c] + 1, EssaisGratuits + 1}) \in 0..EssaisGratuits + 1
        OBVIOUS
      <4>1. rejets[c] \in Nat /\ EssaisGratuits \in Nat
        BY <1>1, NombresDuFrein DEF FreinTypes
      <4>2. rejets[c] + 1 \in Int /\ EssaisGratuits + 1 \in Int
        BY <4>1
      <4> QED BY <4>1, <4>2, MinDuFrein
    <3> QED BY <1>1, <3>1, NombresDuFrein DEF F!Echec, FreinTypes
  <2> QED BY <1>1, <1>2, <2>1, <2>2, <2>3 DEF FreinTypes, UneTentative
<1>7. Compteurs'
  BY <1>1, <1>2, <1>4, <1>5 DEF Compteurs
<1>8. F!PurgeComplete'
  <2> SUFFICES ASSUME NEW c \in F!Entrees, compteur'[c].dernier # 0
               PROVE  dernierePurge - compteur'[c].dernier <= Oubli
    BY <1>2 DEF F!PurgeComplete
  <2>1. CASE c \in cles
    BY <1>1, <1>4, <2>1, NombresDuFrein DEF FreinTypes
  <2>2. CASE c \notin cles
    BY <1>5, <2>2 DEF FreinSuivi, F!PurgeComplete
  <2> QED BY <2>1, <2>2
<1>9. F!AdmiseAvant'
  <2> SUFFICES ASSUME NEW u \in Tentatives, NEW c \in tentative'[u].cles, compteur'[c].refuse > temps
               PROVE  tentative'[u].admise <= compteur'[c].dernier
    BY <1>2 DEF F!AdmiseAvant
  <2>1. u # t /\ tentative'[u] = tentative[u] /\ tentative[u] \in UneTentative
    BY <1>1, <1>2 DEF F!Repos, FreinTypes
  <2>2. c \in F!Entrees
    BY <2>1 DEF UneTentative
  <2>3. CASE c \in cles
    BY <1>1, <1>4, <2>1, <2>3 DEF UneTentative
  <2>4. CASE c \notin cles
    BY <1>5, <2>1, <2>2, <2>4 DEF FreinSuivi, F!AdmiseAvant
  <2> QED BY <2>3, <2>4
<1>10. F!EcheanceGardee
  <2> SUFFICES ASSUME NEW c \in F!Entrees, compteur[c].refuse > temps
               PROVE  compteur'[c].refuse >= compteur[c].refuse
    BY DEF F!EcheanceGardee
  <2>1. compteur[c].refuse \in Nat
    BY <1>1 DEF FreinTypes, UnCompteur
  <2> QED BY <1>4, <1>5, <2>1
<1> QED BY <1>6, <1>7, <1>8, <1>9, <1>10 DEF FreinSuivi

(* A success forgets its two counters.                                     *)
LEMMA PasReussite ==
  ASSUME FreinSuivi, NEW t \in Tentatives, NEW suite, F!Reussite(t, suite),
         suite = F!Repos \/ suite = [tentative[t] EXCEPT !.pc = "second"]
  PROVE  FreinSuivi' /\ F!EcheanceGardee
<1> DEFINE cles == tentative[t].cles
<1>1. FreinTypes /\ Compteurs /\ temps \in Nat \ {0}
  BY DEF FreinSuivi, FreinTypes
<1>2. UNCHANGED <<dernierePurge, temps>> /\ tentative' = [tentative EXCEPT ![t] = suite]
  BY DEF F!Reussite
<1>3. \A c \in F!Entrees :
        \/ compteur'[c] = compteur[c] /\ temoin'[c] = temoin[c]
        \/ compteur'[c] = F!Aucun /\ temoin'[c] = F!Aucun
  BY DEF F!Reussite
<1>4. F!Aucun \in UnCompteur /\ Sain(F!Aucun, temps) /\ Suit(F!Aucun, F!Aucun, temps)
  BY <1>1, AucunSain
<1>5. suite \in UneTentative /\ suite.cles \subseteq cles
      /\ (suite # F!Repos => suite.admise = tentative[t].admise)
  <2>1. tentative[t] \in UneTentative
    BY <1>1 DEF FreinTypes
  <2> QED BY <1>1, <2>1 DEF UneTentative, F!Repos
<1>6. FreinTypes'
  <2>1. compteur' \in [F!Entrees -> UnCompteur] /\ temoin' \in [F!Entrees -> UnCompteur]
    BY <1>1, <1>4 DEF F!Reussite, FreinTypes
  <2>2. rejets' \in [F!Entrees -> 0..EssaisGratuits + 1]
    BY <1>1, NombresDuFrein DEF F!Reussite, FreinTypes
  <2> QED BY <1>1, <1>2, <1>5, <2>1, <2>2 DEF FreinTypes, UneTentative
<1>7. Compteurs'
  BY <1>1, <1>2, <1>3, <1>4 DEF Compteurs
<1>8. F!PurgeComplete'
  BY <1>2, <1>3 DEF FreinSuivi, F!PurgeComplete, F!Aucun
<1>9. F!AdmiseAvant'
  <2> SUFFICES ASSUME NEW u \in Tentatives, NEW c \in tentative'[u].cles, compteur'[c].refuse > temps
               PROVE  tentative'[u].admise <= compteur'[c].dernier
    BY <1>2 DEF F!AdmiseAvant
  <2>1. tentative[u] \in UneTentative /\ tentative'[u] = IF u = t THEN suite ELSE tentative[u]
    BY <1>1, <1>2 DEF FreinTypes
  <2>2. c \in tentative[u].cles /\ c \in F!Entrees /\ tentative'[u].admise = tentative[u].admise
    BY <1>5, <2>1 DEF UneTentative, F!Repos
  <2>3. compteur'[c] = compteur[c]
    BY <1>1, <1>3, <2>2 DEF F!Aucun
  <2> QED BY <2>2, <2>3 DEF FreinSuivi, F!AdmiseAvant
<1>10. F!EcheanceGardee
  <2> SUFFICES ASSUME NEW c \in F!Entrees, compteur'[c] # F!Aucun
               PROVE  compteur'[c].refuse >= compteur[c].refuse
    BY DEF F!EcheanceGardee
  <2>1. compteur[c].refuse \in Nat /\ compteur'[c] = compteur[c]
    BY <1>1, <1>3 DEF FreinTypes, UnCompteur
  <2> QED BY <2>1
<1> QED BY <1>6, <1>7, <1>8, <1>9, <1>10 DEF FreinSuivi

(* A second factor accepted, or an attempt dropped: the counters stay.     *)
LEMMA PasRendu ==
  ASSUME FreinSuivi, NEW t \in Tentatives, F!Accepter(t) \/ F!Abandonner(t)
  PROVE  FreinSuivi' /\ F!EcheanceGardee
<1>1. FreinTypes /\ temps \in Nat \ {0}
  BY DEF FreinSuivi, FreinTypes
<1>2. /\ UNCHANGED <<compteur, temoin, dernierePurge, temps>>
      /\ tentative' = [tentative EXCEPT ![t] = F!Repos]
  BY DEF F!Accepter, F!Abandonner
<1>3. FreinTypes'
  <2>1. F!Repos \in UneTentative
    BY <1>1 DEF UneTentative, F!Repos
  <2>2. rejets' \in [F!Entrees -> 0..EssaisGratuits + 1]
    BY <1>1, NombresDuFrein DEF F!Accepter, F!Abandonner, FreinTypes
  <2> QED BY <1>1, <1>2, <2>1, <2>2 DEF FreinTypes, UneTentative
<1>4. Compteurs' /\ F!PurgeComplete'
  BY <1>2 DEF FreinSuivi, Compteurs, F!PurgeComplete
<1>5. F!AdmiseAvant'
  <2> SUFFICES ASSUME NEW u \in Tentatives, NEW c \in tentative'[u].cles, compteur[c].refuse > temps
               PROVE  tentative'[u].admise <= compteur[c].dernier
    BY <1>2 DEF F!AdmiseAvant
  <2>1. tentative'[u] = tentative[u]
    BY <1>1, <1>2 DEF FreinTypes, F!Repos
  <2> QED BY <2>1 DEF FreinSuivi, F!AdmiseAvant
<1>6. F!EcheanceGardee
  BY <1>1, <1>2 DEF F!EcheanceGardee, FreinTypes, UnCompteur
<1> QED BY <1>3, <1>4, <1>5, <1>6 DEF FreinSuivi

(* Time goes.                                                              *)
LEMMA PasDuTemps ==
  ASSUME FreinSuivi, F!Passer
  PROVE  FreinSuivi' /\ F!EcheanceGardee
<1>1. FreinTypes /\ Compteurs /\ temps \in Nat \ {0}
  BY DEF FreinSuivi, FreinTypes
<1>2. /\ UNCHANGED <<compteur, temoin, dernierePurge, tentative, rejets>>
      /\ temps' \in Nat /\ temps < temps'
  BY <1>1, NombresDuFrein DEF F!Passer
<1>3. FreinTypes'
  <2>1. tentative' \in [Tentatives -> UneTentative']
    <3>1. UneTentative \subseteq UneTentative'
      <4>1. 0..temps \subseteq 0..temps'
        BY <1>1, <1>2
      <4>2. F!Entrees' = F!Entrees
        OBVIOUS
      <4> QED BY <4>1 DEF UneTentative
    <3> QED BY <1>1, <1>2, <3>1 DEF FreinTypes
  <2> QED BY <1>1, <1>2, <2>1 DEF FreinTypes
<1>4. Compteurs'
  <2> SUFFICES ASSUME NEW c \in F!Entrees
               PROVE  /\ Sain(compteur[c], temps') /\ Sain(temoin[c], temps')
                      /\ Suit(compteur[c], temoin[c], temps')
    BY <1>2 DEF Compteurs
  <2>1. compteur[c] \in UnCompteur /\ temoin[c] \in UnCompteur
    BY <1>1 DEF FreinTypes
  <2>2. Sain(compteur[c], temps) /\ Sain(temoin[c], temps) /\ Suit(compteur[c], temoin[c], temps)
    BY <1>1 DEF Compteurs
  <2> QED BY <1>1, <1>2, <2>1, <2>2, SainPlusTard
<1>5. F!PurgeComplete'
  BY <1>2 DEF FreinSuivi, F!PurgeComplete
<1>6. F!AdmiseAvant'
  <2> SUFFICES ASSUME NEW u \in Tentatives, NEW c \in tentative[u].cles, compteur[c].refuse > temps'
               PROVE  tentative[u].admise <= compteur[c].dernier
    BY <1>2 DEF F!AdmiseAvant
  <2>1. c \in F!Entrees
    BY <1>1 DEF FreinTypes, UneTentative
  <2>2. compteur[c].refuse > temps
    BY <1>1, <1>2, <2>1 DEF FreinTypes, UnCompteur
  <2> QED BY <2>2 DEF FreinSuivi, F!AdmiseAvant
<1>7. F!EcheanceGardee
  BY <1>1, <1>2 DEF F!EcheanceGardee, FreinTypes, UnCompteur
<1> QED BY <1>3, <1>4, <1>5, <1>6, <1>7 DEF FreinSuivi

LEMMA FreinPas ==
  ASSUME FreinSuivi, F!Next
  PROVE  FreinSuivi' /\ F!EcheanceGardee
<1>1. CASE F!Passer
  BY <1>1, PasDuTemps
<1>2. ASSUME NEW t \in Tentatives,
             \/ \E a \in Comptes \cup {Vide}, s \in Sources \cup {Vide} :
                   F!Autorise(t, {a, s} \ {Vide})
             \/ F!Echec(t) \/ F!Accepter(t) \/ F!Abandonner(t)
             \/ F!Reussite(t, F!Repos) \/ F!Reussite(t, [tentative[t] EXCEPT !.pc = "second"])
      PROVE  FreinSuivi' /\ F!EcheanceGardee
  <2>1. ASSUME NEW a \in Comptes \cup {Vide}, NEW s \in Sources \cup {Vide},
               F!Autorise(t, {a, s} \ {Vide})
        PROVE  FreinSuivi' /\ F!EcheanceGardee
    <3>1. {a, s} \ {Vide} \in SUBSET F!Entrees
      BY DEF F!Entrees
    <3> QED BY <2>1, <3>1, PasAutorise
  <2>2. CASE F!Echec(t)
    BY <2>2, PasEchec
  <2>3. CASE F!Accepter(t) \/ F!Abandonner(t)
    BY <2>3, PasRendu
  <2>4. CASE F!Reussite(t, F!Repos) \/ F!Reussite(t, [tentative[t] EXCEPT !.pc = "second"])
    BY <2>4, PasReussite
  <2> QED BY <1>2, <2>1, <2>2, <2>3, <2>4
<1> QED BY <1>1, <1>2 DEF F!Next

(* What the throttle promises follows from the invariant.                  *)
LEMMA FreinPromesses ==
  ASSUME FreinSuivi
  PROVE  /\ F!TypeOK /\ F!PurgeInvisible /\ F!PurgeComplete
         /\ F!EcheanceTenue /\ F!AdmiseAvant
<1>1. FreinTypes /\ Compteurs /\ F!PurgeComplete /\ F!AdmiseAvant
  BY DEF FreinSuivi
<1>2. F!TypeOK
  BY <1>1 DEF F!TypeOK, FreinTypes, UnCompteur, UneTentative
<1>3. F!PurgeInvisible
  <2> SUFFICES ASSUME NEW c \in F!Entrees
               PROVE  F!Vaut(compteur[c]) = F!Vaut(temoin[c])
    BY DEF F!PurgeInvisible
  <2> DEFINE a == compteur[c]
             b == temoin[c]
  <2>1. a \in UnCompteur /\ b \in UnCompteur /\ Suit(a, b, temps)
    BY <1>1 DEF FreinTypes, Compteurs
  <2>2. /\ temps \in Nat /\ Oubli \in Nat
        /\ a.echecs \in Nat /\ a.dernier \in Nat /\ a.refuse \in Nat
        /\ b.echecs \in Nat /\ b.dernier \in Nat /\ b.refuse \in Nat
    BY <1>1, <2>1, NombresDuFrein DEF FreinTypes, UnCompteur
  <2> HIDE DEF a, b
  <2>3. CASE Egaux(a, b, temps)
    <3>1. F!Perime(a) = F!Perime(b)
      BY <2>3 DEF F!Perime, Egaux
    <3>2. a.echecs = b.echecs
      BY <2>3 DEF Egaux
    <3>3. (IF a.refuse > temps THEN a.refuse ELSE 0) = (IF b.refuse > temps THEN b.refuse ELSE 0)
      BY <2>2, <2>3 DEF Egaux
    <3>4. F!Vaut(a) = F!Vaut(b)
      BY <3>1, <3>2, <3>3 DEF F!Vaut
    <3> QED BY <3>4 DEF a, b
  <2>4. CASE a = F!Aucun /\ temps - b.dernier > Oubli /\ b.refuse <= temps
    <3>1. a.echecs = 0 /\ a.refuse = 0
      BY <2>4 DEF F!Aucun
    <3>2. F!Vaut(a) = [echecs |-> 0, refuse |-> 0]
      BY <2>2, <3>1 DEF F!Vaut
    <3>3. F!Vaut(b) = [echecs |-> 0, refuse |-> 0]
      BY <2>2, <2>4 DEF F!Vaut, F!Perime
    <3> QED BY <3>2, <3>3 DEF a, b
  <2> QED BY <2>1, <2>3, <2>4 DEF Suit
<1>4. F!EcheanceTenue
  <2> SUFFICES ASSUME NEW c \in F!Entrees, compteur[c].echecs > EssaisGratuits
               PROVE  compteur[c].refuse - compteur[c].dernier = F!Echelle(compteur[c].echecs)
    BY DEF F!EcheanceTenue
  <2>1. compteur[c] \in UnCompteur /\ Sain(compteur[c], temps)
    BY <1>1 DEF FreinTypes, Compteurs
  <2>2. compteur[c].echecs \in Nat /\ compteur[c].dernier \in Nat
    BY <2>1, NombresDuFrein DEF UnCompteur
  <2>3. compteur[c].refuse = compteur[c].dernier + F!Delai(compteur[c].echecs)
    BY <2>1 DEF Sain
  <2>4. /\ F!Delai(compteur[c].echecs) = F!Echelle(compteur[c].echecs)
        /\ F!Delai(compteur[c].echecs) \in 1..DelaiMaximum
    BY <2>2, DelaiTenu
  <2> QED BY <2>2, <2>3, <2>4
<1> QED BY <1>1, <1>2, <1>3, <1>4

(* The throttle by itself, whatever the bounds of a run.                   *)
FreinPromis ==
  F!TypeOK /\ F!PurgeInvisible /\ F!PurgeComplete /\ F!EcheanceTenue /\ F!AdmiseAvant

(* The throttle, for any accounts and sources, any scale whose word is     *)
(* wide enough, any number of attempts at once: the purge of the counters  *)
(* changes no decision and leaves nothing stale, the delay is the one of   *)
(* the scale, a deadline is escaped only by what was under way, and none   *)
(* is shortened but by a success (ratelimit.go).                           *)
THEOREM FreinToujours == F!Spec => []FreinPromis /\ [][F!EcheanceGardee]_(F!vars)
<1>1. FreinSuivi /\ [F!Next]_(F!vars) => FreinSuivi' /\ [F!EcheanceGardee]_(F!vars)
  BY FreinPas, FreinReste DEF F!vars
<1>2. FreinSuivi => FreinPromis
  BY FreinPromesses DEF FreinPromis
<1> QED BY <1>1, <1>2, FreinDepart, PTL DEF F!Spec

FreinInv == partie \in Frein => FreinSuivi

LEMMA FreinEtape ==
  ASSUME FreinInv, [Pas]_tout
  PROVE  FreinInv' /\ (partie \notin Frein \/ F!EcheanceGardee \/ UNCHANGED tout)
<1>1. CASE UNCHANGED tout
  BY <1>1, FreinReste DEF FreinInv, tout, freinVars
<1>2. CASE Pas /\ partie \notin Frein
  BY <1>2 DEF FreinInv, Pas, Frein
<1>3. CASE Pas /\ partie \in Frein
  <2>1. F!Next /\ partie' = partie
    BY <1>3 DEF Pas, Frein
  <2> QED BY <1>3, <2>1, FreinPas DEF FreinInv
<1> QED BY <1>1, <1>2, <1>3

LEMMA FreinInvariant == Ensemble => []FreinInv
<1>1. Depart => FreinInv
  BY FreinDepart DEF Depart, FreinInv
<1>2. FreinInv /\ [Pas]_tout => FreinInv'
  BY FreinEtape
<1> QED BY <1>1, <1>2, PTL DEF Ensemble

(* The same of the three parts of the throttle in the run.                 *)
THEOREM FreinCorrect == Ensemble => []FreinTenu
<1>1. FreinInv => FreinTenu
  BY FreinPromesses DEF FreinInv, FreinTenu
<1> QED BY <1>1, FreinInvariant, PTL

(* A running deadline is never shortened but by a success.                 *)
THEOREM EcheancesGardees == Ensemble => EcheanceNeReculePas
<1>1. FreinInv /\ [Pas]_tout => [partie \notin Frein \/ F!EcheanceGardee]_tout
  BY FreinEtape
<1> QED BY <1>1, FreinInvariant, PTL DEF Ensemble, EcheanceNeReculePas

-----------------------------------------------------------------------------
(***************************************************************************)
(* The HTTP API.                                                           *)
(***************************************************************************)
UnFil == [pc : {"libre", "authentifiee", "datee", "admise"}, demande : SUBSET Demandes,
          lu : 0..instant]

ApiTypes ==
  /\ seau \in [Sources -> [jetons : 0..Rafale, vu : 0..instant]]
  /\ purgeDebit \in 0..instant /\ lastPurge \in 0..instant
  /\ vus \in [Demandes -> 0..instant]
  /\ signee \in [Demandes -> Int]
  /\ fil \in [Fils -> UnFil]
  /\ pris \in [Sources -> Seq(1..instant)]
  /\ executees \in [Demandes -> Nat]
  /\ instant \in 1..MaxTemps /\ vie \in 1..MaxVies

(* A bucket b and the tokens p taken from it until the instant n: what was *)
(* taken since one of them, and what there is to take now, is never more   *)
(* than a full bucket and its refills.                                     *)
Compense(b, p, n) ==
  \A i \in 1..Len(p) :
    Len(p) - i + 1 + A!Rempli(b, n) <= Rafale + (n - p[i]) * ParSeconde
Borne(p) ==
  \A i \in 1..Len(p) : \A j \in i..Len(p) : j - i + 1 <= Rafale + (p[j] - p[i]) * ParSeconde
Volume == \A s \in Sources : Compense(seau[s], pris[s], instant) /\ Borne(pris[s])

(* A handler past the signature holds one signed request, and its date is  *)
(* right when it comes to the memory of the nonces.                        *)
Tenue(q) ==
  q.pc # "libre" =>
    /\ \E d \in Demandes : q.demande = {d}
    /\ \A d \in q.demande : signee[d] # A!Jamais
    /\ q.pc = "datee" => /\ q.lu = instant
                         /\ \A d \in q.demande : instant - signee[d] <= Fenetre

(* A request that is to be executed, or was, is remembered or too old.     *)
Admise(f, d) == fil[f].pc = "admise" /\ d \in fil[f].demande
Memoire(d) ==
  /\ signee[d] # A!Jamais => signee[d] <= instant
  /\ vus[d] # 0 => signee[d] # A!Jamais /\ signee[d] <= vus[d]
  /\ executees[d] \in {0, 1}
  /\ (executees[d] = 1 \/ \E f \in Fils : Admise(f, d)) =>
        /\ signee[d] # A!Jamais
        /\ vus[d] # 0 \/ instant - signee[d] > Fenetre
  /\ \A f \in Fils : Admise(f, d) => executees[d] = 0
  /\ \A f, g \in Fils : Admise(f, d) /\ Admise(g, d) => f = g

Retenue == (\A f \in Fils : Tenue(fil[f])) /\ \A d \in Demandes : Memoire(d)

ApiSuivie == ApiTypes /\ Volume /\ Retenue

HorlogesJustes == ~Attente /\ \A e \in Derives : e <= 0

-----------------------------------------------------------------------------
(* The smaller of two numbers.                                             *)
LEMMA MinDeux ==
  ASSUME NEW a \in Int, NEW b \in Int
  PROVE  A!Min({a, b}) = IF a <= b THEN a ELSE b
BY DEF A!Min

(* What a bucket holds at the instant n, and one instant later.            *)
LEMMA RempliBorne ==
  ASSUME NEW n \in Nat, NEW b \in [jetons : 0..Rafale, vu : 0..n]
  PROVE  /\ A!Rempli(b, n) \in 0..Rafale
         /\ A!Rempli(b, n + 1) <= A!Rempli(b, n) + ParSeconde
<1>1. Rafale \in Nat \ {0} /\ ParSeconde \in Nat \ {0} /\ b.jetons \in 0..Rafale /\ b.vu \in 0..n
  BY ReglagesApi DEF A!Reglages
<1> DEFINE g == (n - b.vu) * ParSeconde
           h == (n + 1 - b.vu) * ParSeconde
<1>2. g \in Nat /\ h = g + ParSeconde
  BY <1>1
<1>3. /\ A!Rempli(b, n) = IF b.vu = 0 THEN Rafale ELSE A!Min({Rafale, b.jetons + g})
      /\ A!Rempli(b, n + 1) = IF b.vu = 0 THEN Rafale ELSE A!Min({Rafale, b.jetons + h})
  BY DEF A!Rempli
<1> HIDE DEF g, h
<1>4. /\ A!Min({Rafale, b.jetons + g}) = IF Rafale <= b.jetons + g THEN Rafale ELSE b.jetons + g
      /\ A!Min({Rafale, b.jetons + h}) = IF Rafale <= b.jetons + h THEN Rafale ELSE b.jetons + h
  BY <1>1, <1>2, MinDeux
<1> QED BY <1>1, <1>2, <1>3, <1>4

(* The purge forgets only buckets that are full again.                     *)
LEMMA PurgePleins ==
  ASSUME NEW n \in Nat, NEW b \in [jetons : 0..Rafale, vu : 0..n],
         b.vu # 0, n - b.vu > A!Plein
  PROVE  A!Rempli(b, n) = Rafale
<1>1. Rafale \in Nat \ {0} /\ ParSeconde \in Nat \ {0} /\ b.jetons \in 0..Rafale /\ b.vu \in 0..n
  BY ReglagesApi DEF A!Reglages
<1> DEFINE k == n - b.vu
           p == Rafale \div ParSeconde
<1>2. p \in Nat /\ Rafale < (p + 1) * ParSeconde
  BY <1>1
<1>3. k \in Nat /\ k >= p + 1
  BY <1>1, <1>2 DEF A!Plein
<1>4. k * ParSeconde >= (p + 1) * ParSeconde
  <2> HIDE DEF k, p
  <2> QED BY <1>1, <1>2, <1>3
<1>5. k * ParSeconde \in Nat /\ k * ParSeconde >= Rafale
  BY <1>1, <1>2, <1>3, <1>4
<1>6. A!Rempli(b, n) = A!Min({Rafale, b.jetons + k * ParSeconde})
  BY DEF A!Rempli
<1> HIDE DEF k
<1> QED BY <1>1, <1>5, <1>6, MinDeux

(* A bucket written at the instant n holds what it was given.              *)
LEMMA EcritAussitot ==
  ASSUME NEW n \in Nat \ {0}, NEW k \in 0..Rafale
  PROVE  A!Rempli([jetons |-> k, vu |-> n], n) = k
<1>1. Rafale \in Nat \ {0} /\ ParSeconde \in Nat \ {0}
  BY ReglagesApi DEF A!Reglages
<1>2. (n - n) * ParSeconde = 0
  BY <1>1
<1>3. A!Rempli([jetons |-> k, vu |-> n], n) = A!Min({Rafale, k + (n - n) * ParSeconde})
  BY DEF A!Rempli
<1> QED BY <1>1, <1>2, <1>3, MinDeux

(* A token taken.                                                          *)
LEMMA JetonPris ==
  ASSUME NEW n \in Nat \ {0}, NEW b \in [jetons : 0..Rafale, vu : 0..n], NEW p \in Seq(1..n),
         Compense(b, p, n), Borne(p), A!Rempli(b, n) >= 1
  PROVE  /\ Compense([jetons |-> A!Rempli(b, n) - 1, vu |-> n], Append(p, n), n)
         /\ Borne(Append(p, n))
<1> DEFINE r == A!Rempli(b, n)
           c == [jetons |-> r - 1, vu |-> n]
           q == Append(p, n)
           l == Len(p)
<1>1. Rafale \in Nat \ {0} /\ ParSeconde \in Nat \ {0} /\ r \in 1..Rafale
  BY ReglagesApi, RempliBorne DEF A!Reglages
<1>2. A!Rempli(c, n) = r - 1
  BY <1>1, EcritAussitot
<1>3. /\ l \in Nat /\ Len(q) = l + 1 /\ q[l + 1] = n
      /\ \A i \in 1..l : q[i] = p[i] /\ p[i] \in 1..n
  OBVIOUS
<1>4. (n - n) * ParSeconde = 0
  BY <1>1
<1>5. \A i \in 1..l : l - i + 1 + r <= Rafale + (n - p[i]) * ParSeconde
  BY DEF Compense
<1>6. \A i \in 1..l : (n - p[i]) * ParSeconde \in Int
  BY <1>1, <1>3
<1> HIDE DEF r, c, q, l
<1>7. Compense(c, q, n)
  <2> SUFFICES ASSUME NEW i \in 1..Len(q)
               PROVE  Len(q) - i + 1 + (r - 1) <= Rafale + (n - q[i]) * ParSeconde
    BY <1>2 DEF Compense
  <2>1. CASE i \in 1..l
    <3>1. l - i + 1 + r <= Rafale + (n - q[i]) * ParSeconde /\ (n - q[i]) * ParSeconde \in Int
      BY <2>1, <1>3, <1>5, <1>6
    <3> QED BY <2>1, <3>1, <1>1, <1>3
  <2>2. CASE i = l + 1
    BY <2>2, <1>1, <1>3, <1>4
  <2> QED BY <2>1, <2>2, <1>3
<1>8. Borne(q)
  <2> SUFFICES ASSUME NEW i \in 1..Len(q), NEW j \in i..Len(q)
               PROVE  j - i + 1 <= Rafale + (q[j] - q[i]) * ParSeconde
    BY DEF Borne
  <2>1. CASE j \in 1..l
    <3>1. i \in 1..l /\ j \in i..l
      BY <2>1, <1>3
    <3>2. j - i + 1 <= Rafale + (p[j] - p[i]) * ParSeconde
      BY <3>1 DEF Borne, l
    <3> QED BY <3>1, <3>2, <2>1, <1>3
  <2>2. CASE j = l + 1 /\ i \in 1..l
    <3>1. l - i + 1 + r <= Rafale + (n - q[i]) * ParSeconde /\ (n - q[i]) * ParSeconde \in Int
      BY <2>2, <1>3, <1>5, <1>6
    <3>2. q[j] = n
      BY <2>2, <1>3
    <3> QED BY <2>2, <3>1, <3>2, <1>1, <1>3
  <2>3. CASE j = l + 1 /\ i = l + 1
    <3>1. q[j] = n /\ q[i] = n
      BY <2>3, <1>3
    <3> QED BY <2>3, <3>1, <1>1, <1>3, <1>4
  <2> QED BY <2>1, <2>2, <2>3, <1>3
<1> QED BY <1>7, <1>8 DEF r, c, q

(* A bucket refused, or only looked at, and time: x tokens to take at the  *)
(* instant n, y at the instant m.                                          *)
LEMMA RienDePris ==
  ASSUME NEW n \in Nat, NEW m \in Nat, NEW b, NEW c, NEW p \in Seq(1..n), Compense(b, p, n),
         NEW x \in Int, NEW y \in Int, A!Rempli(b, n) = x, A!Rempli(c, m) = y,
         \/ m = n /\ y <= x
         \/ m = n + 1 /\ y <= x + ParSeconde
  PROVE  Compense(c, p, m)
<1>1. Rafale \in Nat \ {0} /\ ParSeconde \in Nat \ {0}
  BY ReglagesApi DEF A!Reglages
<1> SUFFICES ASSUME NEW i \in 1..Len(p)
             PROVE  Len(p) - i + 1 + y <= Rafale + (m - p[i]) * ParSeconde
  BY DEF Compense
<1> DEFINE k == p[i]
           g == (n - k) * ParSeconde
           l == Len(p)
<1>2. l - i + 1 + x <= Rafale + g
  BY DEF Compense
<1>3. k \in 1..n /\ l \in Nat /\ i \in 1..l
  OBVIOUS
<1> HIDE DEF k, l
<1>4. g \in Int /\ (n + 1 - k) * ParSeconde = g + ParSeconde
  BY <1>1, <1>3
<1>5. m = n => (m - k) * ParSeconde = g
  OBVIOUS
<1>6. m = n + 1 => (m - k) * ParSeconde = g + ParSeconde
  <2> HIDE DEF g
  <2>1. m = n + 1 => m - k = n + 1 - k
    BY <1>3
  <2> QED BY <2>1, <1>4
<1> HIDE DEF g
<1>7. l - i + 1 + y <= Rafale + (m - k) * ParSeconde
  BY <1>1, <1>2, <1>3, <1>4, <1>5, <1>6
<1> QED BY <1>7 DEF k, l

-----------------------------------------------------------------------------
LEMMA ApiDepart == A!Init => ApiSuivie
<1> SUFFICES ASSUME A!Init PROVE ApiSuivie
  OBVIOUS
<1>1. /\ Rafale \in Nat \ {0} /\ MaxTemps \in Nat \ {0} /\ MaxVies \in Nat \ {0}
  BY ReglagesApi DEF A!Reglages
<1>2. ApiTypes
  BY <1>1 DEF A!Init, ApiTypes, UnFil, A!Neuf, A!Libre, A!Jamais
<1>3. Volume
  BY DEF A!Init, Volume, Compense, Borne
<1>4. Retenue
  BY DEF A!Init, Retenue, Tenue, Memoire, Admise, A!Libre, A!Jamais
<1> QED BY <1>2, <1>3, <1>4 DEF ApiSuivie

(* What a step leaves alone stays as it was.                               *)
LEMMA ApiReste ==
  ASSUME ApiSuivie, UNCHANGED instant
  PROVE  /\ UNCHANGED <<seau, pris>> => Volume'
         /\ UNCHANGED <<vus, signee, fil, executees>> => Retenue'
<1>1. UNCHANGED <<seau, pris>> => Volume'
  BY DEF ApiSuivie, Volume
<1>2. UNCHANGED <<vus, signee, fil, executees>> => Retenue'
  BY DEF ApiSuivie, Retenue, Tenue, Memoire, Admise
<1> QED BY <1>1, <1>2

LEMMA PasSigner ==
  ASSUME ApiSuivie, HorlogesJustes, NEW d \in Demandes, A!Signer(d)
  PROVE  ApiSuivie'
<1>1. PICK e \in Derives : signee' = [signee EXCEPT ![d] = instant + e]
  BY DEF A!Signer
<1>2. /\ signee[d] = A!Jamais
      /\ UNCHANGED <<seau, purgeDebit, vus, lastPurge, fil, pris, executees, instant, vie>>
  BY DEF A!Signer
<1>3. e \in Int /\ e <= 0 /\ instant \in Nat
  BY ReglagesApi DEF A!Reglages, HorlogesJustes, ApiSuivie, ApiTypes
<1>4. signee'[d] = instant + e /\ \A x \in Demandes : x # d => signee'[x] = signee[x]
  BY <1>1 DEF ApiSuivie, ApiTypes
<1>5. ApiTypes'
  BY <1>1, <1>2, <1>3 DEF ApiSuivie, ApiTypes, UnFil
<1>6. Volume'
  BY <1>2, ApiReste
<1>7. Retenue'
  <2>1. ASSUME NEW f \in Fils PROVE Tenue(fil[f])'
    BY <1>2, <1>4 DEF ApiSuivie, Retenue, Tenue
  <2>2. ASSUME NEW x \in Demandes PROVE Memoire(x)'
    <3>1. CASE x = d
      BY <3>1, <1>2, <1>3, <1>4 DEF ApiSuivie, Retenue, Memoire, Admise
    <3>2. CASE x # d
      BY <3>2, <1>2, <1>4 DEF ApiSuivie, Retenue, Memoire, Admise
    <3> QED BY <3>1, <3>2
  <2> QED BY <2>1, <2>2 DEF Retenue
<1> QED BY <1>5, <1>6, <1>7 DEF ApiSuivie

(* The bucket of a source.                                                 *)
LEMMA PasPrendre ==
  ASSUME ApiSuivie, UNCHANGED instant, NEW s \in Sources, NEW ok \in BOOLEAN,
         A!Prendre(s, ok)
  PROVE  /\ Volume'
         /\ seau' \in [Sources -> [jetons : 0..Rafale, vu : 0..instant]]
         /\ purgeDebit' \in 0..instant /\ pris' \in [Sources -> Seq(1..instant)]
<1> DEFINE purge == instant - purgeDebit >= PurgeDebit
           table == IF purge THEN A!Purges(instant) ELSE seau
           reste == A!Rempli(table[s], instant)
           Seaux == [jetons : 0..Rafale, vu : 0..instant]
<1>1. /\ purgeDebit' = (IF purge THEN instant ELSE purgeDebit)
      /\ ok = (reste >= 1)
      /\ seau' = [table EXCEPT ![s] = [jetons |-> IF ok THEN reste - 1 ELSE reste,
                                       vu |-> instant]]
      /\ pris' = IF ok THEN [pris EXCEPT ![s] = Append(@, instant)] ELSE pris
  BY DEF A!Prendre
<1>2. /\ instant \in Nat \ {0} /\ seau \in [Sources -> Seaux]
      /\ pris \in [Sources -> Seq(1..instant)] /\ Rafale \in Nat \ {0}
      /\ purgeDebit \in 0..instant
  BY ReglagesApi DEF A!Reglages, ApiSuivie, ApiTypes
<1>3. A!Neuf \in Seaux /\ A!Rempli(A!Neuf, instant) = Rafale
  BY <1>2 DEF A!Neuf, A!Rempli
<1>4. /\ table \in [Sources -> Seaux]
      /\ \A x \in Sources : A!Rempli(table[x], instant) = A!Rempli(seau[x], instant)
  <2>1. CASE ~purge
    BY <2>1, <1>2
  <2>2. CASE purge
    <3>1. table = [x \in Sources |-> IF seau[x].vu # 0 /\ instant - seau[x].vu > A!Plein
                                     THEN A!Neuf ELSE seau[x]]
      BY <2>2 DEF A!Purges
    <3> HIDE DEF table
    <3>2. table \in [Sources -> Seaux]
      BY <3>1, <1>2, <1>3
    <3>3. ASSUME NEW x \in Sources
          PROVE  A!Rempli(table[x], instant) = A!Rempli(seau[x], instant)
      <4>1. seau[x] \in Seaux
        BY <1>2
      <4>2. CASE seau[x].vu # 0 /\ instant - seau[x].vu > A!Plein
        BY <4>1, <4>2, <3>1, <1>2, <1>3, PurgePleins
      <4>3. CASE ~(seau[x].vu # 0 /\ instant - seau[x].vu > A!Plein)
        BY <4>3, <3>1
      <4> QED BY <4>2, <4>3
    <3> QED BY <3>2, <3>3
  <2> QED BY <2>1, <2>2
<1> HIDE DEF table, purge
<1>5. reste \in 0..Rafale /\ reste = A!Rempli(seau[s], instant)
  BY <1>2, <1>4, RempliBorne
<1> DEFINE neuf == [jetons |-> IF ok THEN reste - 1 ELSE reste, vu |-> instant]
<1>6. /\ neuf \in Seaux
      /\ seau' \in [Sources -> Seaux]
      /\ seau'[s] = neuf /\ \A x \in Sources : x # s => seau'[x] = table[x]
  <2> HIDE DEF reste
  <2>0. ok => reste >= 1
    BY <1>1
  <2>1. neuf \in Seaux
    BY <2>0, <1>2, <1>5
  <2> HIDE DEF neuf, Seaux
  <2>2. seau' = [table EXCEPT ![s] = neuf]
    BY <1>1 DEF neuf
  <2> QED BY <2>1, <2>2, <1>4
<1>7. /\ pris' \in [Sources -> Seq(1..instant)]
      /\ pris'[s] = IF ok THEN Append(pris[s], instant) ELSE pris[s]
      /\ \A x \in Sources : x # s => pris'[x] = pris[x]
  BY <1>1, <1>2
<1>8. purgeDebit' \in 0..instant
  BY <1>1, <1>2
<1>9. Volume'
  <2> SUFFICES ASSUME NEW x \in Sources
               PROVE  Compense(seau'[x], pris'[x], instant) /\ Borne(pris'[x])
    BY DEF Volume, Compense, Borne, A!Rempli
  <2>1. Compense(seau[x], pris[x], instant) /\ Borne(pris[x]) /\ pris[x] \in Seq(1..instant)
    BY <1>2 DEF ApiSuivie, Volume
  <2>2. CASE x # s
    <3>1. A!Rempli(seau'[x], instant) = A!Rempli(seau[x], instant)
      BY <2>2, <1>4, <1>6
    <3> QED BY <2>1, <2>2, <3>1, <1>7 DEF Compense
  <2>3. CASE x = s /\ ok
    <3>1. A!Rempli(seau[s], instant) >= 1 /\ neuf = [jetons |-> A!Rempli(seau[s], instant) - 1,
                                                       vu |-> instant]
      BY <2>3, <1>1, <1>5
    <3>2. pris'[s] = Append(pris[s], instant)
      BY <2>3, <1>7
    <3>3. seau[s] \in Seaux
      BY <1>2
    <3> HIDE DEF neuf
    <3> QED BY <2>1, <2>3, <3>1, <3>2, <3>3, <1>2, <1>6, JetonPris
  <2>4. CASE x = s /\ ~ok
    <3>1. neuf = [jetons |-> reste, vu |-> instant]
      BY <2>4
    <3>2. A!Rempli(neuf, instant) = reste
      BY <3>1, <1>2, <1>5, EcritAussitot
    <3> HIDE DEF neuf, reste
    <3>3. A!Rempli(seau'[s], instant) = A!Rempli(seau[s], instant) /\ pris'[s] = pris[s]
      BY <2>4, <3>2, <1>5, <1>6, <1>7
    <3> QED BY <2>1, <2>4, <3>3 DEF Compense
  <2> QED BY <2>2, <2>3, <2>4
<1> QED BY <1>6, <1>7, <1>8, <1>9

(* One handler moves on; its request has not begun to be executed.         *)
LEMMA FilEcrit ==
  ASSUME ApiSuivie, NEW f \in Fils, NEW q \in UnFil, q.pc # "admise", Tenue(q),
         fil' = [fil EXCEPT ![f] = q],
         UNCHANGED <<vus, lastPurge, signee, executees, instant, vie>>
  PROVE  Retenue' /\ fil' \in [Fils -> UnFil']
<1>1. /\ fil' \in [Fils -> UnFil] /\ fil'[f] = q
      /\ \A g \in Fils : g # f => fil'[g] = fil[g]
  BY DEF ApiSuivie, ApiTypes
<1>2. \A g \in Fils : Tenue(fil[g])'
  BY <1>1 DEF ApiSuivie, Retenue, Tenue
<1>3. ASSUME NEW d \in Demandes PROVE Memoire(d)'
  BY <1>1 DEF ApiSuivie, Retenue, Memoire, Admise
<1> QED BY <1>1, <1>2, <1>3 DEF Retenue, UnFil

LEMMA LibreTenue == ASSUME ApiSuivie PROVE A!Libre \in UnFil /\ Tenue(A!Libre)
BY DEF ApiSuivie, ApiTypes, A!Libre, UnFil, Tenue

LEMMA PasRecevoir ==
  ASSUME ApiSuivie, NEW f \in Fils, NEW s \in Sources \cup {Vide},
         NEW c \in {{}} \cup {{d} : d \in Demandes}, A!Recevoir(f, s, c)
  PROVE  ApiSuivie'
<1>1. PICK ok \in BOOLEAN :
        /\ IF s = Vide THEN ok /\ UNCHANGED <<seau, purgeDebit, pris>> ELSE A!Prendre(s, ok)
        /\ fil' = IF ok /\ c # {}
                  THEN [fil EXCEPT ![f] = [A!Libre EXCEPT !.pc = "authentifiee", !.demande = c]]
                  ELSE fil
  BY DEF A!Recevoir, A!Authentifier
<1>2. /\ UNCHANGED <<vus, lastPurge, signee, executees, instant, vie>>
      /\ \A d \in c : signee[d] # A!Jamais
  BY DEF A!Recevoir
<1>3. /\ Volume'
      /\ seau' \in [Sources -> [jetons : 0..Rafale, vu : 0..instant]]
      /\ purgeDebit' \in 0..instant /\ pris' \in [Sources -> Seq(1..instant)]
  <2>1. CASE s = Vide
    BY <2>1, <1>1, <1>2, ApiReste DEF ApiSuivie, ApiTypes
  <2>2. CASE s # Vide
    BY <2>2, <1>1, <1>2, PasPrendre
  <2> QED BY <2>1, <2>2
<1>4. Retenue' /\ fil' \in [Fils -> UnFil']
  <2>1. CASE ok /\ c # {}
    <3> DEFINE q == [A!Libre EXCEPT !.pc = "authentifiee", !.demande = c]
    <3>1. \E d \in Demandes : c = {d}
      BY <2>1
    <3>2. q \in UnFil /\ q.pc = "authentifiee" /\ q.demande = c
      BY <3>1, LibreTenue DEF UnFil
    <3> HIDE DEF q
    <3>3. Tenue(q) /\ q.pc # "admise"
      BY <3>1, <3>2, <1>2 DEF Tenue
    <3>4. fil' = [fil EXCEPT ![f] = q]
      BY <2>1, <1>1 DEF q
    <3> QED BY <3>2, <3>3, <3>4, <1>2, FilEcrit
  <2>2. CASE ~(ok /\ c # {})
    <3>1. fil' = fil
      BY <2>2, <1>1
    <3> QED BY <3>1, <1>2, ApiReste DEF ApiSuivie, ApiTypes, UnFil
  <2> QED BY <2>1, <2>2
<1>5. ApiTypes'
  BY <1>2, <1>3, <1>4 DEF ApiSuivie, ApiTypes
<1> QED BY <1>3, <1>4, <1>5 DEF ApiSuivie

LEMMA PasDater == ASSUME ApiSuivie, NEW f \in Fils, A!Dater(f) PROVE ApiSuivie'
<1>1. /\ fil[f].pc = "authentifiee"
      /\ UNCHANGED <<seau, purgeDebit, vus, lastPurge, signee, pris, executees, instant, vie>>
  BY DEF A!Dater
<1>2. fil[f] \in UnFil /\ Tenue(fil[f])
  BY DEF ApiSuivie, ApiTypes, Retenue
<1>3. PICK d \in Demandes : fil[f].demande = {d} /\ signee[d] # A!Jamais
  BY <1>1, <1>2 DEF Tenue
<1> DEFINE q == IF instant - signee[d] \in -Fenetre..Fenetre
                THEN [fil[f] EXCEPT !.pc = "datee", !.lu = instant] ELSE A!Libre
<1>4. fil' = [fil EXCEPT ![f] = q]
  BY <1>3 DEF A!Dater, ApiSuivie, ApiTypes
<1>5. q \in UnFil /\ q.pc # "admise" /\ Tenue(q)
  <2>1. instant \in Nat /\ signee[d] \in Int /\ Fenetre \in Nat
    BY ReglagesApi DEF A!Reglages, ApiSuivie, ApiTypes
  <2>2. CASE instant - signee[d] \in -Fenetre..Fenetre
    <3>1. q = [pc |-> "datee", demande |-> {d}, lu |-> instant]
      BY <2>2, <1>2, <1>3 DEF UnFil
    <3> HIDE DEF q
    <3> QED BY <2>1, <2>2, <3>1, <1>3 DEF UnFil, Tenue
  <2>3. CASE ~(instant - signee[d] \in -Fenetre..Fenetre)
    BY <2>3, LibreTenue DEF A!Libre
  <2> QED BY <2>2, <2>3
<1> HIDE DEF q
<1>6. Retenue' /\ fil' \in [Fils -> UnFil']
  BY <1>1, <1>4, <1>5, FilEcrit
<1>7. Volume' /\ ApiTypes'
  BY <1>1, <1>6, ApiReste DEF ApiSuivie, ApiTypes
<1> QED BY <1>6, <1>7 DEF ApiSuivie

LEMMA PasExecuter == ASSUME ApiSuivie, NEW f \in Fils, A!Executer(f) PROVE ApiSuivie'
<1>1. /\ fil[f].pc = "admise"
      /\ executees' = [d \in Demandes |->
                         IF d \in fil[f].demande THEN executees[d] + 1 ELSE executees[d]]
      /\ fil' = [fil EXCEPT ![f] = A!Libre]
      /\ UNCHANGED <<seau, purgeDebit, vus, lastPurge, signee, pris, instant, vie>>
  BY DEF A!Executer
<1>2. /\ fil' \in [Fils -> UnFil] /\ fil'[f] = A!Libre /\ A!Libre.pc = "libre"
      /\ \A g \in Fils : g # f => fil'[g] = fil[g]
  BY <1>1, LibreTenue DEF ApiSuivie, ApiTypes, A!Libre
<1>3. Volume' /\ ApiTypes'
  BY <1>1, <1>2, ApiReste DEF ApiSuivie, ApiTypes, UnFil
<1>4. \A g \in Fils : Tenue(fil[g])'
  BY <1>1, <1>2 DEF ApiSuivie, Retenue, Tenue
<1>5. ASSUME NEW d \in Demandes PROVE Memoire(d)'
  <2>1. Memoire(d) /\ executees'[d] = (IF d \in fil[f].demande THEN executees[d] + 1 ELSE executees[d])
    BY <1>1 DEF ApiSuivie, Retenue
  <2>2. CASE d \in fil[f].demande
    <3>1. Admise(f, d) /\ \A g \in Fils : Admise(g, d) => g = f
      BY <2>1, <2>2, <1>1 DEF Admise, Memoire
    <3>2. \A g \in Fils : ~Admise(g, d)'
      BY <3>1, <1>2 DEF Admise
    <3> QED BY <2>1, <2>2, <3>1, <3>2, <1>1 DEF Memoire
  <2>3. CASE d \notin fil[f].demande
    <3>1. \A g \in Fils : Admise(g, d)' => Admise(g, d)
      BY <2>3, <1>2 DEF Admise
    <3> QED BY <2>1, <2>3, <3>1, <1>1 DEF Memoire
  <2> QED BY <2>2, <2>3
<1> QED BY <1>3, <1>4, <1>5 DEF ApiSuivie, Retenue

(* The memory of the nonces: a purge forgets only requests that are too    *)
(* old for their date.                                                     *)
LEMMA PasRetenir == ASSUME ApiSuivie, NEW f \in Fils, A!Retenir(f) PROVE ApiSuivie'
<1> DEFINE n == fil[f].lu
           purge == n - lastPurge > PurgeNonces
           table == [d \in Demandes |-> IF purge /\ n - vus[d] > Fenetre THEN 0 ELSE vus[d]]
<1>1. /\ fil[f].pc = "datee"
      /\ UNCHANGED <<seau, purgeDebit, signee, pris, executees, instant, vie>>
  BY DEF A!Retenir
<1>2. fil[f] \in UnFil /\ Tenue(fil[f]) /\ instant \in Nat \ {0} /\ Fenetre \in Nat
  BY ReglagesApi DEF A!Reglages, ApiSuivie, ApiTypes, Retenue
<1>3. PICK x \in Demandes : /\ fil[f].demande = {x} /\ signee[x] # A!Jamais
                            /\ instant - signee[x] <= Fenetre
  BY <1>1, <1>2 DEF Tenue
<1>4. n = instant
  BY <1>1, <1>2 DEF Tenue
<1> DEFINE q == IF table[x] = 0 THEN [fil[f] EXCEPT !.pc = "admise"] ELSE A!Libre
<1>5. /\ lastPurge' = (IF purge THEN n ELSE lastPurge)
      /\ vus' = [d \in Demandes |-> IF d = x /\ table[x] = 0 THEN n ELSE table[d]]
      /\ fil' = [fil EXCEPT ![f] = q]
  BY <1>3 DEF A!Retenir, ApiSuivie, ApiTypes
<1>6. ASSUME NEW d \in Demandes
      PROVE  /\ table[d] \in 0..instant /\ signee[d] \in Int
             /\ \/ table[d] = vus[d]
                \/ vus[d] # 0 /\ table[d] = 0 /\ instant - signee[d] > Fenetre
             /\ vus'[d] = IF d = x /\ table[x] = 0 THEN instant ELSE table[d]
  <2>1. vus[d] \in 0..instant /\ signee[d] \in Int /\ (vus[d] # 0 => signee[d] <= vus[d])
    BY DEF ApiSuivie, ApiTypes, Retenue, Memoire
  <2>2. table[d] = IF purge /\ instant - vus[d] > Fenetre THEN 0 ELSE vus[d]
    BY <1>4
  <2>3. vus'[d] = IF d = x /\ table[x] = 0 THEN instant ELSE table[d]
    BY <1>4, <1>5
  <2> HIDE DEF table, purge
  <2>4. instant - vus[d] > Fenetre /\ vus[d] # 0 => instant - signee[d] > Fenetre
    BY <2>1, <1>2
  <2>5. instant - vus[d] > Fenetre /\ vus[d] = 0 => table[d] = vus[d]
    BY <2>2
  <2>6. table[d] \in 0..instant
    BY <2>1, <2>2, <1>2
  <2>7. \/ table[d] = vus[d]
        \/ vus[d] # 0 /\ table[d] = 0 /\ instant - signee[d] > Fenetre
    BY <2>2, <2>4, <2>5
  <2> QED BY <2>1, <2>3, <2>6, <2>7
<1>7. /\ q = [pc |-> "admise", demande |-> {x}, lu |-> instant] \/ q = A!Libre
      /\ q.pc = "admise" <=> table[x] = 0
  BY <1>2, <1>3, <1>4 DEF UnFil, A!Libre
<1> HIDE DEF q, table
<1>8. q \in UnFil /\ Tenue(q) /\ (q.pc = "admise" => q.demande = {x})
  BY <1>2, <1>3, <1>7, LibreTenue DEF UnFil, Tenue, A!Libre
<1>9. /\ fil' \in [Fils -> UnFil] /\ fil'[f] = q
      /\ \A g \in Fils : g # f => fil'[g] = fil[g]
  BY <1>5, <1>8 DEF ApiSuivie, ApiTypes
<1>10. ApiTypes' /\ Volume'
  <2>1. vus' \in [Demandes -> 0..instant]
    <3>1. DOMAIN vus' = Demandes /\ vus' = [d \in Demandes |-> vus'[d]]
      BY <1>5
    <3>2. \A d \in Demandes : vus'[d] \in 0..instant
      BY <1>2, <1>6
    <3> QED BY <3>1, <3>2
  <2>2. lastPurge' \in 0..instant
    BY <1>4, <1>5, <1>2 DEF ApiSuivie, ApiTypes
  <2> QED BY <1>1, <1>9, <2>1, <2>2, ApiReste DEF ApiSuivie, ApiTypes, UnFil
<1>11. \A g \in Fils : Tenue(fil[g])'
  BY <1>1, <1>8, <1>9 DEF ApiSuivie, Retenue, Tenue
<1>12. ASSUME NEW d \in Demandes PROVE Memoire(d)'
  <2>1. Memoire(d)
    BY DEF ApiSuivie, Retenue
  <2>2. CASE d = x /\ table[x] = 0
    <3>1. vus'[d] = instant
      BY <2>2, <1>6
    <3>2. executees[d] # 1 /\ \A g \in Fils : ~Admise(g, d)
      BY <2>1, <2>2, <1>2, <1>3, <1>6 DEF Memoire
    <3>3. \A g \in Fils : Admise(g, d)' => g = f
      BY <3>2, <1>9 DEF Admise
    <3> QED BY <2>1, <2>2, <3>1, <3>2, <3>3, <1>1, <1>2, <1>3 DEF Memoire
  <2>3. CASE ~(d = x /\ table[x] = 0)
    <3>1. \A g \in Fils : Admise(g, d)' => Admise(g, d)
      BY <2>3, <1>7, <1>8, <1>9 DEF Admise
    <3>2. \/ vus'[d] = vus[d]
          \/ vus'[d] = 0 /\ instant - signee[d] > Fenetre
      BY <2>3, <1>6
    <3> QED BY <2>1, <3>1, <3>2, <1>1 DEF Memoire
  <2> QED BY <2>2, <2>3
<1> QED BY <1>10, <1>11, <1>12 DEF ApiSuivie, Retenue

LEMMA PasRedemarrer == ASSUME ApiSuivie, A!Redemarrer PROVE ApiSuivie'
<1>1. /\ vie < MaxVies /\ vie' = vie + 1
      /\ seau' = [s \in Sources |-> A!Neuf] /\ purgeDebit' = 0
      /\ vus' = [d \in Demandes |-> 0] /\ lastPurge' = 0
      /\ fil' = [f \in Fils |-> A!Libre]
      /\ pris' = [s \in Sources |-> <<>>]
      /\ executees' = [d \in Demandes |-> 0]
      /\ UNCHANGED <<signee, instant>>
  BY DEF A!Redemarrer
<1>2. instant \in Nat \ {0} /\ Rafale \in Nat /\ MaxVies \in Nat \ {0}
  BY ReglagesApi DEF A!Reglages, ApiSuivie, ApiTypes
<1>3. A!Neuf \in [jetons : 0..Rafale, vu : 0..instant] /\ A!Libre \in UnFil
  BY <1>2, LibreTenue DEF A!Neuf
<1>4. ApiTypes'
  BY <1>1, <1>2, <1>3 DEF ApiSuivie, ApiTypes, UnFil
<1>5. Volume'
  BY <1>1 DEF Volume, Compense, Borne
<1>6. Retenue'
  BY <1>1 DEF ApiSuivie, Retenue, Tenue, Memoire, Admise, A!Libre
<1> QED BY <1>4, <1>5, <1>6 DEF ApiSuivie

(* Time passes; no handler is between its date and its nonce.              *)
LEMMA PasPasser == ASSUME ApiSuivie, HorlogesJustes, A!Passer PROVE ApiSuivie'
<1>1. /\ instant < MaxTemps /\ instant' = instant + 1
      /\ \A f \in Fils : fil[f].pc # "datee"
      /\ UNCHANGED <<seau, purgeDebit, vus, lastPurge, signee, fil, pris, executees, vie>>
  BY DEF A!Passer, HorlogesJustes
<1>2. instant \in Nat \ {0} /\ MaxTemps \in Nat /\ Rafale \in Nat /\ ParSeconde \in Nat
      /\ Fenetre \in Nat
  BY ReglagesApi DEF A!Reglages, ApiSuivie, ApiTypes
<1>3. 0..instant \subseteq 0..instant' /\ 1..instant \subseteq 1..instant'
  BY <1>1, <1>2
<1>4. ApiTypes'
  <2>1. pris \in [Sources -> Seq(1..instant')]
    <3>1. \A p \in Seq(1..instant) : p \in Seq(1..instant')
      BY <1>3, SeqMonotonic
    <3> QED BY <3>1 DEF ApiSuivie, ApiTypes
  <2>2. fil \in [Fils -> UnFil']
    BY <1>3 DEF ApiSuivie, ApiTypes, UnFil
  <2>3. seau \in [Sources -> [jetons : 0..Rafale, vu : 0..instant']]
    BY <1>3 DEF ApiSuivie, ApiTypes
  <2>4. vus \in [Demandes -> 0..instant'] /\ purgeDebit \in 0..instant' /\ lastPurge \in 0..instant'
    BY <1>3 DEF ApiSuivie, ApiTypes
  <2>5. instant' \in 1..MaxTemps
    BY <1>1, <1>2
  <2> QED BY <1>1, <2>1, <2>2, <2>3, <2>4, <2>5 DEF ApiSuivie, ApiTypes
<1>5. Volume'
  <2> SUFFICES ASSUME NEW s \in Sources
               PROVE  Compense(seau[s], pris[s], instant + 1)
    BY <1>1 DEF ApiSuivie, Volume, Compense, Borne, A!Rempli
  <2> DEFINE b == seau[s]
             x == A!Rempli(b, instant)
             y == A!Rempli(b, instant + 1)
  <2>1. b \in [jetons : 0..Rafale, vu : 0..instant] /\ pris[s] \in Seq(1..instant)
        /\ Compense(b, pris[s], instant)
    BY DEF ApiSuivie, ApiTypes, Volume
  <2>2. b \in [jetons : 0..Rafale, vu : 0..instant + 1] /\ instant + 1 \in Nat
    BY <2>1, <1>2
  <2>3. x \in Int /\ y \in Int /\ y <= x + ParSeconde
    BY <2>1, <2>2, <1>2, RempliBorne
  <2> HIDE DEF b, x, y
  <2>4. A!Rempli(b, instant) = x /\ A!Rempli(b, instant + 1) = y
    BY DEF x, y
  <2>5. Compense(b, pris[s], instant + 1)
    BY <2>1, <2>2, <2>3, <2>4, <1>2, RienDePris
  <2> QED BY <2>5 DEF b
<1>6. Retenue'
  <2>1. \A f \in Fils : Tenue(fil[f])'
    BY <1>1 DEF ApiSuivie, Retenue, Tenue
  <2>2. ASSUME NEW d \in Demandes PROVE Memoire(d)'
    <3>1. Memoire(d) /\ signee[d] \in Int
      BY DEF ApiSuivie, ApiTypes, Retenue
    <3>2. signee[d] <= instant => signee[d] <= instant + 1
      BY <3>1, <1>2
    <3>3. instant - signee[d] > Fenetre => instant + 1 - signee[d] > Fenetre
      BY <3>1, <1>2
    <3>4. \A f \in Fils : Admise(f, d)' <=> Admise(f, d)
      BY <1>1 DEF Admise
    <3>0. instant' \in Int
      BY <1>1, <1>2
    <3>5. /\ signee[d] # A!Jamais => signee[d] <= instant'
          /\ instant - signee[d] > Fenetre => instant' - signee[d] > Fenetre
      BY <3>0, <3>1, <3>2, <3>3, <1>1, <1>2 DEF Memoire
    <3>6. UNCHANGED <<vus, signee, executees>>
      BY <1>1
    <3> QED BY <3>1, <3>4, <3>5, <3>6 DEF Memoire
  <2> QED BY <2>1, <2>2 DEF Retenue
<1> QED BY <1>4, <1>5, <1>6 DEF ApiSuivie

LEMMA ApiPas == ApiSuivie /\ HorlogesJustes /\ A!Next => ApiSuivie'
<1> SUFFICES ASSUME ApiSuivie, HorlogesJustes, A!Next PROVE ApiSuivie'
  OBVIOUS
<1>1. CASE \E d \in Demandes : A!Signer(d)
  BY <1>1, PasSigner
<1>2. ASSUME NEW f \in Fils, NEW s \in Sources \cup {Vide},
             NEW c \in {{}} \cup {{d} : d \in Demandes}, A!Recevoir(f, s, c)
      PROVE  ApiSuivie'
  BY <1>2, PasRecevoir
<1>3. ASSUME NEW f \in Fils, A!Dater(f) \/ A!Retenir(f) \/ A!Executer(f) PROVE ApiSuivie'
  BY <1>3, PasDater, PasRetenir, PasExecuter
<1>4. CASE A!Redemarrer
  BY <1>4, PasRedemarrer
<1>5. CASE A!Passer
  BY <1>5, PasPasser
<1> QED BY <1>1, <1>2, <1>3, <1>4, <1>5 DEF A!Next

-----------------------------------------------------------------------------
ApiPromise == A!TypeOK /\ A!VolumeBorne /\ A!JamaisDeuxFois

LEMMA ApiPromesses == ApiSuivie => ApiPromise
<1> SUFFICES ASSUME ApiSuivie PROVE A!TypeOK /\ A!VolumeBorne /\ A!JamaisDeuxFois
  BY DEF ApiPromise
<1>1. A!TypeOK
  BY DEF ApiSuivie, ApiTypes, UnFil, A!TypeOK
<1>2. A!VolumeBorne
  BY DEF ApiSuivie, Volume, Borne, A!VolumeBorne
<1>3. A!JamaisDeuxFois
  <2>1. \A d \in Demandes : executees[d] \in {0, 1}
    BY DEF ApiSuivie, Retenue, Memoire
  <2> QED BY <2>1 DEF A!JamaisDeuxFois
<1> QED BY <1>1, <1>2, <1>3

LEMMA ApiImmobile == ASSUME ApiSuivie, UNCHANGED apiVars PROVE ApiSuivie'
BY DEF apiVars, ApiSuivie, ApiTypes, UnFil, Volume, Compense, Borne, A!Rempli, Retenue, Tenue,
   Memoire, Admise

(* For every number of requests, handlers and sources and every setting of *)
(* the bucket and of the windows: a source never gets through more than a  *)
(* full bucket and its refills, and, as long as no clock of a client is    *)
(* ahead of the core's and a handler does not wait between its date and    *)
(* its nonce, no request is executed twice in one life of the core         *)
(* (debit.go Prendre, replay.go checkFreshness and remember).              *)
THEOREM ApiToujours == HorlogesJustes => (A!Spec => []ApiPromise)
<1> SUFFICES ASSUME HorlogesJustes PROVE A!Spec => []ApiPromise
  OBVIOUS
<1>1. ApiSuivie /\ [A!Next]_(A!vars) => ApiSuivie'
  BY ApiPas, ApiImmobile DEF A!vars, apiVars
<1> QED BY <1>1, ApiDepart, ApiPromesses, PTL DEF A!Spec

ApiInv == partie \in {"debit", "nonces"} => ApiSuivie

(* The same of the two parts of the API in the run.                        *)
THEOREM ApiCorrecte == HorlogesJustes => (Ensemble => []ApiTenue)
<1> SUFFICES ASSUME HorlogesJustes PROVE Ensemble => []ApiTenue
  OBVIOUS
<1>1. Depart => ApiInv
  BY ApiDepart DEF Depart, ApiInv
<1>2. ApiInv /\ [Pas]_tout => ApiInv'
  <2> SUFFICES ASSUME ApiInv, [Pas]_tout, partie' \in {"debit", "nonces"} PROVE ApiSuivie'
    BY DEF ApiInv
  <2>1. partie' = partie /\ ApiSuivie
    BY DEF Pas, tout, ApiInv
  <2>2. CASE A!Next
    BY <2>1, <2>2, ApiPas
  <2>3. CASE UNCHANGED apiVars
    BY <2>1, <2>3, ApiImmobile
  <2> QED BY <2>1, <2>2, <2>3 DEF Pas, tout
<1>3. ApiInv => ApiTenue
  BY ApiPromesses DEF ApiInv, ApiTenue, ApiPromise
<1> QED BY <1>1, <1>2, <1>3, PTL DEF Ensemble
=============================================================================
