------------------------- MODULE OciRegistryProofs -------------------------
(***************************************************************************)
(* OciRegistry.tla: what a client was told of is served, for any number of *)
(* clients and publications.                                               *)
(***************************************************************************)
EXTENDS OciRegistry, TLAPS

\* What publish() has made available at each of its lines: the blobs of every revision
\* up to the current one, and while the image is about to change those of the next one.
BlobsInv ==
    /\ \A v \in 0..image : BlobsOf(v) \subseteq blobs
    /\ publishing = "blobs" => image + 1 \in Revisions /\ BlobsOf(image + 1) \subseteq blobs
    /\ serial = IF publishing = "image" THEN image - 1 ELSE image
    /\ publishing = "image" => image # 0

\* A reader knows of revisions that were current.
ReaderInv ==
    \A r \in Readers : digest[r] <= image /\ at[r] # "no blob"

RegistryInv == TypeOK /\ BlobsInv /\ ReaderInv

-----------------------------------------------------------------------------
LEMMA ImageIsNat == ASSUME TypeOK PROVE image \in Nat /\ image <= MaxRevision
  <1>1. image \in Revisions
    BY DEF TypeOK
  <1> QED
    BY <1>1, RegistryAssumption DEF Revisions

LEMMA RegistryInit == Init => RegistryInv
  <1> SUFFICES ASSUME Init PROVE RegistryInv
    OBVIOUS
  <1>1. 0 \in Revisions
    BY RegistryAssumption DEF Revisions
  <1>2. TypeOK
    <2>1. blobs \subseteq AllBlobs
      BY <1>1 DEF Init, AllBlobs
    <2> QED
      BY <1>1, <2>1 DEF Init, TypeOK
  <1>3. BlobsInv
    <2>1. \A v \in 0..0 : v = 0
      OBVIOUS
    <2> QED
      BY <2>1 DEF Init, BlobsInv
  <1>4. ReaderInv
    BY DEF Init, ReaderInv
  <1> QED
    BY <1>2, <1>3, <1>4 DEF RegistryInv

LEMMA PublishKeeps == RegistryInv /\ publish => RegistryInv'
  <1> SUFFICES ASSUME RegistryInv, publish PROVE RegistryInv'
    OBVIOUS
  <1>0. TypeOK /\ BlobsInv /\ ReaderInv
    BY DEF RegistryInv
  <1>n. image \in Nat /\ image <= MaxRevision
    BY <1>0, ImageIsNat
  <1>r. \A q \in Readers : digest[q] \in Nat
    <2>1. \A q \in Readers : digest[q] \in Revisions
      BY <1>0 DEF TypeOK
    <2> QED
      BY <2>1, RegistryAssumption DEF Revisions
  <1>1. CASE PublishBlobs
    <2>1. image + 1 \in Revisions
      BY <1>1, <1>n, RegistryAssumption DEF PublishBlobs, Revisions
    <2>2. BlobsOf(image + 1) \subseteq AllBlobs
      BY <2>1 DEF AllBlobs
    <2>3. TypeOK'
      BY <1>0, <1>1, <2>2 DEF PublishBlobs, TypeOK
    <2>4. BlobsInv'
      BY <1>0, <1>1, <2>1 DEF PublishBlobs, BlobsInv
    <2>5. ReaderInv'
      BY <1>0, <1>1 DEF PublishBlobs, ReaderInv
    <2> QED
      BY <2>3, <2>4, <2>5 DEF RegistryInv
  <1>2. CASE PublishImage
    <2>1. image' = image + 1 /\ UNCHANGED <<blobs, serial, at, digest>> /\ publishing' = "image"
      BY <1>2 DEF PublishImage
    <2>2. image' \in Revisions /\ serial = image /\ BlobsOf(image + 1) \subseteq blobs
      BY <1>0, <1>2, <2>1 DEF PublishImage, BlobsInv
    <2>3. TypeOK'
      <3>1. serial' = image' - 1
        BY <1>n, <2>1, <2>2
      <3> QED
        BY <1>0, <2>1, <2>2, <3>1 DEF TypeOK
    <2>4. BlobsInv'
      <3>1. \A v \in 0..image' : v \in 0..image \/ v = image + 1
        BY <1>n, <2>1
      <3>2. \A v \in 0..image' : BlobsOf(v) \subseteq blobs'
        BY <1>0, <2>1, <2>2, <3>1 DEF BlobsInv
      <3>3. serial' = image' - 1 /\ image' # 0
        BY <1>n, <2>1, <2>2
      <3> QED
        BY <2>1, <3>2, <3>3 DEF BlobsInv
    <2>5. ReaderInv'
      <3>1. ASSUME NEW q \in Readers PROVE digest[q] <= image + 1
        <4>1. digest[q] \in Nat /\ digest[q] <= image
          BY <1>0, <1>r DEF ReaderInv
        <4> QED
          BY <1>n, <4>1
      <3> QED
        BY <1>0, <2>1, <3>1 DEF ReaderInv
    <2> QED
      BY <2>3, <2>4, <2>5 DEF RegistryInv
  <1>3. CASE PublishSerial
    <2>1. serial' = image
      BY <1>0, <1>3, <1>n DEF PublishSerial, BlobsInv
    <2>2. TypeOK'
      BY <1>0, <1>3, <2>1 DEF PublishSerial, TypeOK
    <2>3. BlobsInv' /\ ReaderInv'
      BY <1>0, <1>3, <2>1 DEF PublishSerial, BlobsInv, ReaderInv
    <2> QED
      BY <2>2, <2>3 DEF RegistryInv
  <1> QED
    BY <1>1, <1>2, <1>3 DEF publish

LEMMA ReaderKeeps ==
    ASSUME RegistryInv, NEW r \in Readers,
           GetIndex(r) \/ GetManifest(r) \/ GetBlob(r) \/ Retry(r)
    PROVE  RegistryInv'
  <1>0. TypeOK /\ BlobsInv /\ ReaderInv
    BY DEF RegistryInv
  <1>n. image \in Nat /\ image \in Revisions /\ digest \in [Readers -> Revisions]
    BY <1>0, ImageIsNat DEF TypeOK
  <1>1. UNCHANGED registry
    BY DEF GetIndex, GetManifest, GetBlob, Retry
  \* What GetBlob asks for is there.
  <1>2. Layer(digest[r]) \in blobs
    <2>1. digest[r] \in 0..image
      <3>1. digest[r] \in Revisions /\ digest[r] <= image
        BY <1>0, <1>n DEF ReaderInv
      <3> QED
        BY <1>n, <3>1, RegistryAssumption DEF Revisions
    <2> QED
      BY <1>0, <2>1 DEF BlobsInv, BlobsOf
  <1>3. /\ at' \in [Readers -> {"idle", "index", "manifest", "no manifest", "no blob", "done"}]
        /\ \A q \in Readers : at'[q] # "no blob"
    BY <1>0, <1>2 DEF GetIndex, GetManifest, GetBlob, Retry, TypeOK, ReaderInv
  <1>4. digest' = digest \/ digest' = [digest EXCEPT ![r] = image]
    BY DEF GetIndex, GetManifest, GetBlob, Retry
  <1>5. digest' \in [Readers -> Revisions] /\ \A q \in Readers : digest'[q] <= image
    <2>1. \A q \in Readers : digest[q] <= image
      BY <1>0 DEF ReaderInv
    <2>2. image <= image
      BY <1>n
    <2> QED
      BY <1>4, <1>n, <2>1, <2>2
  <1>6. TypeOK'
    BY <1>0, <1>1, <1>3, <1>5 DEF TypeOK, registry
  <1>7. BlobsInv'
    BY <1>0, <1>1 DEF BlobsInv, registry
  <1>8. ReaderInv'
    BY <1>1, <1>3, <1>5 DEF ReaderInv, registry
  <1> QED
    BY <1>6, <1>7, <1>8 DEF RegistryInv

LEMMA RegistryStep == RegistryInv /\ [Next]_vars => RegistryInv'
  <1>1. RegistryInv /\ UNCHANGED vars => RegistryInv'
    BY DEF RegistryInv, TypeOK, BlobsInv, ReaderInv, vars, registry
  <1> QED
    BY <1>1, PublishKeeps, ReaderKeeps DEF Next

\* The registry's state stays well typed; in particular serial counts the images
\* published (oci_registry.py:66), for any number of clients and publications.
THEOREM RegistryTypes == Spec => []TypeOK
  <1>1. RegistryInv => TypeOK
    BY DEF RegistryInv
  <1> QED
    BY RegistryInit, RegistryStep, <1>1, PTL DEF Spec

\* oci_registry.py:59-66, 84-90: a blob a client learnt of is served, however many
\* images were published between its requests.
THEOREM BlobsAreServed == Spec => []BlobsServed
  <1>1. RegistryInv => BlobsServed
    BY DEF RegistryInv, ReaderInv, BlobsServed
  <1> QED
    BY RegistryInit, RegistryStep, <1>1, PTL DEF Spec
=============================================================================
