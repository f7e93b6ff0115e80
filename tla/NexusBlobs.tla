------------------------------ MODULE NexusBlobs ------------------------------
(***************************************************************************)
(* The content store of the package server (vaultaire_nexus): blobs        *)
(* addressed by their digest, the images and packages that reference them, *)
(* and the garbage collector that runs beside the uploads.                 *)
(*                                                                         *)
(* A publisher is one HTTP request after another, each a goroutine: it     *)
(* stats, then renames or refreshes a file, and only then writes the       *)
(* metadata. A collector takes the list of references and a cutoff, then   *)
(* walks the files, deciding on each one before it removes it. Nothing     *)
(* makes the two wait for each other: what protects an upload is that its  *)
(* files are younger than the grace period.                                *)
(*                                                                         *)
(* Time is counted in ticks; Grace and DureeMarque are the hour and the 24 *)
(* hours of the code. Aleas lets the instance leave what the grace period  *)
(* is meant for: "lent" (metadata later than the grace period), "croise"   *)
(* (a content is sent again while the collector is removing it).           *)
(***************************************************************************)
EXTENDS Integers, FiniteSets

CONSTANTS
  Couches,      \* digests of image layers and configurations
  Manifestes,   \* digests of manifests
  Paquets,      \* digests of rpm, deb and plain files
  Refs,         \* manifest -> the layers it names
  Images,       \* images of the Docker repositories
  Publieurs,    \* requests that may be under way at the same time
  Ramasseurs,   \* collections that may be under way at the same time
  Grace,        \* repos.Manager.GC: time.Hour
  DureeMarque,  \* CleanupUploads: 24 hours
  MaxHeure,     \* bound: ticks of a behaviour
  Aleas,
  Jamais        \* no hour: never pushed

ASSUME DigestsAssumption ==
  /\ Couches \cap Manifestes = {}
  /\ (Couches \cup Manifestes) \cap Paquets = {}
  /\ Refs \in [Manifestes -> SUBSET Couches]
ASSUME DelaisAssumption ==
  /\ Grace \in Nat \ {0}
  /\ DureeMarque \in Nat
  /\ MaxHeure \in Nat
  /\ Jamais \notin Nat
ASSUME AleasAssumption == Aleas \subseteq {"lent", "croise"}

Digests == Couches \cup Manifestes \cup Paquets
Heures == 0..MaxHeure

VARIABLES
  heure,
  blobs,      \* files under blobs/sha256
  mtime,      \* digest -> ModTime of its file, the last one if it is gone
  images,     \* image -> manifests of the catalogue
  paquets,    \* digests of the packages of the catalogue
  marque,     \* image -> layer -> hour of its "pushed" marker
  pub,        \* the request of each publisher
  gc          \* the walk of each collector

vars == <<heure, blobs, mtime, images, paquets, marque, pub, gc>>
catalogue == <<images, paquets>>
magasin == <<blobs, mtime>>

Libre == [pc |-> "libre"]
Requetes ==
  {Libre}
  \cup [pc : {"adopter"}, digest : Digests, image : Images, ecrit : Heures]
  \cup [pc : {"rafraichir", "marquer"}, digest : Digests, image : Images]
  \cup [pc : {"controler"}, digest : Manifestes, image : Images,
         reste : SUBSET Couches]
  \cup [pc : {"enregistrer"}, digest : Manifestes \cup Paquets, image : Images]
Passages ==
  {Libre} \cup [pc : {"marche", "oter"}, refs : SUBSET Digests, seuil : Int,
                reste : SUBSET Digests, victime : SUBSET Digests, simule : BOOLEAN]

TypeOK ==
  /\ heure \in Heures
  /\ blobs \subseteq Digests
  /\ mtime \in [Digests -> Heures]
  /\ images \in [Images -> SUBSET Manifestes]
  /\ paquets \subseteq Paquets
  /\ marque \in [Images -> [Couches -> Heures \cup {Jamais}]]
  /\ pub \in [Publieurs -> Requetes]
  /\ gc \in [Ramasseurs -> Passages]

Init ==
  /\ heure = 0
  /\ blobs = {}
  /\ mtime = [d \in Digests |-> 0]
  /\ images = [i \in Images |-> {}]
  /\ paquets = {}
  /\ marque = [i \in Images |-> [c \in Couches |-> Jamais]]
  /\ pub = [p \in Publieurs |-> Libre]
  /\ gc = [r \in Ramasseurs |-> Libre]

-----------------------------------------------------------------------------
DeLImage(i) == images[i] \cup UNION {Refs[m] : m \in images[i]}

ReferencedDigests == paquets \cup UNION {DeLImage(i) : i \in Images}

ImageBlobKnown(i, d) == d \in DeLImage(i)
RecentlyPushed(i, d) == marque[i][d] # Jamais

Jeune(d, seuil) == mtime[d] > seuil

(* The instance keeps its publications within the grace period: what they  *)
(* are about to reference is already referenced, or was written recently.  *)
EnTemps(D) ==
  "lent" \in Aleas
  \/ \A d \in D : d \in ReferencedDigests \/ mtime[d] + Grace > heure

(* Without "croise", no content is stored or sent again between the        *)
(* decision of a collector and its removal, nor decided upon between the   *)
(* stat and the refresh of a request.                                      *)
EnReprise(d) == \E p \in Publieurs : pub[p].pc = "rafraichir" /\ pub[p].digest = d
Condamne(d) == \E r \in Ramasseurs : gc[r].pc = "oter" /\ d \in gc[r].victime

-----------------------------------------------------------------------------
(* The bytes of a request are written to a temporary file: its ModTime is  *)
(* the one the blob will have.                                             *)
Recevoir(p, d, i) ==
  /\ pub[p] = Libre
  /\ pub' = [pub EXCEPT ![p] =
               [pc |-> "adopter", digest |-> d, image |-> i, ecrit |-> heure]]

(* POST or PATCH of a layer; the PUT that commits it may come later.       *)
StartUpload(p) ==
  /\ \E i \in Images, d \in Couches : Recevoir(p, d, i)
  /\ UNCHANGED <<heure, magasin, catalogue, marque, gc>>

(* Ingest of a package (the image plays no part).                          *)
Ingest(p) ==
  /\ \E i \in Images, d \in Paquets : Recevoir(p, d, i)
  /\ UNCHANGED <<heure, magasin, catalogue, marque, gc>>

(* Mount of a layer of another image: a marker and no byte, and the age of *)
(* the file is left as it is.                                              *)
Mount(p) ==
  /\ pub[p] = Libre
  /\ \E i, source \in Images, d \in Couches :
       /\ ImageBlobKnown(source, d)
       /\ d \in blobs
       /\ marque' = [marque EXCEPT ![i][d] = heure]
  /\ UNCHANGED <<heure, magasin, catalogue, pub, gc>>

Apres(d) == IF d \in Couches THEN "marquer" ELSE "enregistrer"
Suite_entiere(p, pc) == pub' = [pub EXCEPT ![p].pc = pc]
Suite(p, pc) == pub' = [pub EXCEPT ![p] = [pc |-> pc, digest |-> @.digest, image |-> @.image]]

(* adopt, content already there: the temporary file is dropped and the age *)
(* of the blob is refreshed by a second call.                              *)
AdopterPresent(p) ==
  LET d == pub[p].digest IN
  /\ pub[p].pc = "adopter"
  /\ d \in blobs
  /\ "croise" \in Aleas \/ ~Condamne(d)
  /\ Suite(p, "rafraichir")
  /\ UNCHANGED <<heure, magasin, catalogue, marque, gc>>

Rafraichir(p) ==
  LET d == pub[p].digest IN
  /\ pub[p].pc = "rafraichir"
  /\ mtime' = IF d \in blobs THEN [mtime EXCEPT ![d] = heure] ELSE mtime
  /\ Suite(p, Apres(d))
  /\ UNCHANGED <<heure, blobs, catalogue, marque, gc>>

(* adopt, content absent: rename keeps the ModTime of the temporary file.  *)
AdopterAbsent(p) ==
  LET d == pub[p].digest IN
  /\ pub[p].pc = "adopter"
  /\ d \notin blobs
  /\ "croise" \in Aleas \/ ~Condamne(d)
  /\ blobs' = blobs \cup {d}
  /\ mtime' = [mtime EXCEPT ![d] = pub[p].ecrit]
  /\ Suite(p, Apres(d))
  /\ UNCHANGED <<heure, catalogue, marque, gc>>

MarkPushed(p) ==
  /\ pub[p].pc = "marquer"
  /\ EnTemps({pub[p].digest})
  /\ marque' = [marque EXCEPT ![pub[p].image][pub[p].digest] = heure]
  /\ pub' = [pub EXCEPT ![p] = Libre]
  /\ UNCHANGED <<heure, magasin, catalogue, gc>>

-----------------------------------------------------------------------------
(* PUT of a manifest: its layers are looked up one by one, its own content *)
(* is stored, and then the catalogue is written.                           *)
PutManifest(p) ==
  /\ pub[p] = Libre
  /\ \E i \in Images, m \in Manifestes :
       pub' = [pub EXCEPT ![p] =
                 [pc |-> "controler", digest |-> m, image |-> i, reste |-> Refs[m]]]
  /\ UNCHANGED <<heure, magasin, catalogue, marque, gc>>

CoucheServie(i, c) == c \in blobs /\ (ImageBlobKnown(i, c) \/ RecentlyPushed(i, c))

Controler(p) ==
  LET r == pub[p] IN
  /\ r.pc = "controler"
  /\ \/ \E c \in r.reste :
          pub' = [pub EXCEPT ![p] = IF ~CoucheServie(r.image, c) THEN Libre
                    ELSE [pc |-> "controler", digest |-> r.digest,
                          image |-> r.image, reste |-> r.reste \ {c}]]
     \/ /\ r.reste = {}
        /\ pub' = [pub EXCEPT ![p] = [pc |-> "adopter", digest |-> r.digest,
                                      image |-> r.image, ecrit |-> heure]]
  /\ UNCHANGED <<heure, magasin, catalogue, marque, gc>>

Enregistrer(p) ==
  LET d == pub[p].digest IN
  /\ pub[p].pc = "enregistrer"
  /\ EnTemps({d} \cup IF d \in Manifestes THEN Refs[d] ELSE {})
  /\ IF d \in Paquets
     THEN paquets' = paquets \cup {d} /\ images' = images
     ELSE images' = [images EXCEPT ![pub[p].image] = @ \cup {d}] /\ paquets' = paquets
  /\ pub' = [pub EXCEPT ![p] = Libre]
  /\ UNCHANGED <<heure, magasin, marque, gc>>

(* A request that fails or whose client goes away: what it stored stays.   *)
Abandonner(p) ==
  /\ pub[p] # Libre
  /\ pub' = [pub EXCEPT ![p] = Libre]
  /\ UNCHANGED <<heure, magasin, catalogue, marque, gc>>

DeletePackage ==
  /\ \E d \in paquets : paquets' = paquets \ {d}
  /\ UNCHANGED <<heure, magasin, images, marque, pub, gc>>

DeleteManifest ==
  /\ \E i \in Images : \E m \in images[i] : images' = [images EXCEPT ![i] = @ \ {m}]
  /\ UNCHANGED <<heure, magasin, paquets, marque, pub, gc>>

-----------------------------------------------------------------------------
(* GC: the references and the cutoff are taken, then the walk begins. A    *)
(* directory is read when the walk reaches it: a file stored meanwhile may *)
(* be met.                                                                 *)
GC_seuilSansGrace(r) ==
  /\ gc[r] = Libre
  /\ \E simule \in BOOLEAN :
       gc' = [gc EXCEPT ![r] = [pc |-> "marche", refs |-> ReferencedDigests,
                                seuil |-> heure, reste |-> Digests,
                                victime |-> {}, simule |-> simule]]
  /\ UNCHANGED <<heure, magasin, catalogue, marque, pub>>

GC(r) ==
  /\ gc[r] = Libre
  /\ \E simule \in BOOLEAN :
       gc' = [gc EXCEPT ![r] = [pc |-> "marche", refs |-> ReferencedDigests,
                                seuil |-> heure - Grace, reste |-> Digests,
                                victime |-> {}, simule |-> simule]]
  /\ UNCHANGED <<heure, magasin, catalogue, marque, pub>>

(* Referenced, vanished since, or younger than the cutoff: kept.           *)
Epargne_sansAge(g, d) == d \in g.refs \/ d \notin blobs
Epargne(g, d) == d \in g.refs \/ d \notin blobs \/ Jeune(d, g.seuil)

Passage(g, pc, reste, victime) ==
  [pc |-> pc, refs |-> g.refs, seuil |-> g.seuil, reste |-> reste,
   victime |-> victime, simule |-> g.simule]

Examiner(r) ==
  LET g == gc[r] IN
  /\ g.pc = "marche"
  /\ \E d \in g.reste :
       /\ "croise" \in Aleas \/ ~EnReprise(d)
       /\ gc' = [gc EXCEPT ![r] =
                   IF Epargne(g, d) \/ g.simule THEN Passage(g, "marche", g.reste \ {d}, {})
                   ELSE Passage(g, "oter", g.reste \ {d}, {d})]
  /\ UNCHANGED <<heure, magasin, catalogue, marque, pub>>

(* os.Remove; when another collector has just taken the file, the error    *)
(* ends the walk and the handler returns before CleanupUploads.            *)
Oter(r) ==
  LET g == gc[r] IN
  /\ g.pc = "oter"
  /\ blobs' = blobs \ g.victime
  /\ gc' = [gc EXCEPT ![r] = IF g.victime \subseteq blobs
                             THEN Passage(g, "marche", g.reste, {}) ELSE Libre]
  /\ UNCHANGED <<heure, mtime, catalogue, marque, pub>>

(* The walk is over: the handlers call CleanupUploads, simulation or not,  *)
(* which drops the old markers and the uploads left unfinished.            *)
CleanupUploads(r) ==
  /\ gc[r].pc = "marche"
  /\ gc[r].reste = {}
  /\ marque' = [i \in Images |-> [c \in Couches |->
                  IF marque[i][c] # Jamais /\ marque[i][c] + DureeMarque < heure
                  THEN Jamais ELSE marque[i][c]]]
  /\ pub' = [p \in Publieurs |->
               IF /\ pub[p].pc = "adopter"
                  /\ pub[p].digest \in Couches
                  /\ pub[p].ecrit + DureeMarque < heure
               THEN Libre ELSE pub[p]]
  /\ gc' = [gc EXCEPT ![r] = Libre]
  /\ UNCHANGED <<heure, magasin, catalogue>>

(* A stop of the server: requests and collections are lost, files stay.    *)
Arreter ==
  /\ pub' = [p \in Publieurs |-> Libre]
  /\ gc' = [r \in Ramasseurs |-> Libre]
  /\ UNCHANGED <<heure, magasin, catalogue, marque>>

Tic ==
  /\ heure < MaxHeure
  /\ heure' = heure + 1
  /\ UNCHANGED <<magasin, catalogue, marque, pub, gc>>

Next ==
  \/ \E p \in Publieurs :
       \/ StartUpload(p) \/ Ingest(p) \/ Mount(p) \/ AdopterPresent(p) \/ Rafraichir(p)
       \/ AdopterAbsent(p) \/ MarkPushed(p) \/ PutManifest(p) \/ Controler(p)
       \/ Enregistrer(p) \/ Abandonner(p)
  \/ \E r \in Ramasseurs : GC(r) \/ Examiner(r) \/ Oter(r) \/ CleanupUploads(r)
  \/ DeletePackage \/ DeleteManifest \/ Arreter \/ Tic

Spec == Init /\ [][Next]_vars

-----------------------------------------------------------------------------
(* Every package and every manifest of the catalogue, and every layer of   *)
(* these manifests, is on the disk: what the catalogue lists can be pulled *)
(* (store/blobs.go:213, the collector beside the uploads).                 *)
ReferencePresente == ReferencedDigests \subseteq blobs

(* A collector removes nothing that is referenced at that very moment      *)
(* (store/blobs.go:236): what templates/admin.html:33 tells the            *)
(* administrator who presses the button.                                   *)
RienDeReferenceNEstOte ==
  [][\A d \in Digests : d \in blobs /\ d \notin blobs' => d \notin ReferencedDigests]_vars

(* A layer pushed to an image, or mounted there, within the grace period   *)
(* is still on the disk: registry.go:303 says that it must stay readable   *)
(* until its manifest arrives.                                             *)
MarqueTenue ==
  \A i \in Images, c \in Couches :
    marque[i][c] # Jamais /\ marque[i][c] + Grace > heure => c \in blobs

-----------------------------------------------------------------------------
(* The strengthening the proof of ReferencePresente rests on. What a       *)
(* request is about to reference is on the disk, or too old to be          *)
(* referenced in time; a collector only condemns files that are older than *)
(* its cutoff, and everything referenced since it took its list is not.    *)
Gardee(d) == d \in blobs \/ mtime[d] + Grace <= heure

RequeteGardee(p) ==
  LET r == pub[p] IN
  /\ r.pc = "rafraichir" => r.digest \in blobs
  /\ r.pc \in {"marquer", "enregistrer"} => Gardee(r.digest)
  /\ r.pc = "controler" => \A c \in Refs[r.digest] \ r.reste : Gardee(c)
  /\ r.pc \in {"adopter", "rafraichir", "enregistrer"} /\ r.digest \in Manifestes =>
       \A c \in Refs[r.digest] : Gardee(c)

PassageJuste(r) ==
  LET g == gc[r] IN
  g.pc \in {"marche", "oter"} =>
    /\ g.seuil + Grace <= heure
    /\ \A d \in ReferencedDigests \ g.refs : mtime[d] > g.seuil
    /\ g.pc = "oter" => \A d \in g.victime :
         mtime[d] <= g.seuil /\ d \notin g.refs /\ ~EnReprise(d)

Surete ==
  /\ TypeOK
  /\ ReferencePresente
  /\ \A p \in Publieurs : RequeteGardee(p)
  /\ \A r \in Ramasseurs : PassageJuste(r)
=============================================================================
