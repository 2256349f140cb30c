----------------------------- MODULE OciRegistry -----------------------------
(***************************************************************************)
(* oci_registry.py: the OCI fixture server.  Handler threads answer readers *)
(* while the scenario's thread publishes a new image under the same name.  *)
(* A reader (external) follows the OCI protocol: the index, the manifest   *)
(* the index names, then the blobs the manifest names.                     *)
(*                                                                         *)
(* Revisions are numbered; revision v has a manifest, which is itself one  *)
(* of its blobs, and a layer.                                              *)
(***************************************************************************)
EXTENDS Naturals, FiniteSets

CONSTANTS
    Readers,       \* clients of the registry
    MaxRevision    \* bound on published revisions

ASSUME RegistryAssumption == MaxRevision \in Nat

Revisions == 0..MaxRevision

VARIABLES
    image,       \* self.images["application"]: the current revision
    blobs,       \* self.blobs["application"]: digests that are served
    serial,      \* self.serial
    publishing,  \* where publish() is
    at,          \* [Readers -> where each client is in the protocol]
    digest       \* [Readers -> revision of the manifest the index named to it]

registry == <<image, blobs, serial, publishing>>
vars == <<registry, at, digest>>

Manifest(v) == <<"manifest", v>>
Layer(v) == <<"layer", v>>
BlobsOf(v) == {Manifest(v), Layer(v)}
AllBlobs == UNION {BlobsOf(v) : v \in Revisions}

Init ==
    /\ image = 0 /\ blobs = BlobsOf(0) /\ serial = 0
    /\ publishing = "no"
    /\ at = [r \in Readers |-> "idle"] /\ digest = [r \in Readers |-> 0]

-----------------------------------------------------------------------------
\* Mutant: the new image replaces the blobs of the old one.
ForgetBlobs ==
    /\ publishing = "no" /\ image < MaxRevision
    /\ blobs' = BlobsOf(image + 1)
    /\ publishing' = "blobs"
    /\ UNCHANGED <<image, serial, at, digest>>

\* publish(), line by line: the blobs, the image, the serial number.
PublishBlobs ==
    /\ publishing = "no" /\ image < MaxRevision
    /\ blobs' = blobs \union BlobsOf(image + 1)
    /\ publishing' = "blobs"
    /\ UNCHANGED <<image, serial, at, digest>>

PublishImage ==
    /\ publishing = "blobs"
    /\ image' = image + 1
    /\ publishing' = "image"
    /\ UNCHANGED <<blobs, serial, at, digest>>

\* Mutant: the serial number counts the image twice.
SerialTwice ==
    /\ publishing = "image"
    /\ serial' = serial + 2
    /\ publishing' = "no"
    /\ UNCHANGED <<image, blobs, at, digest>>

PublishSerial ==
    /\ publishing = "image"
    /\ serial' = serial + 1
    /\ publishing' = "no"
    /\ UNCHANGED <<image, blobs, at, digest>>

\* response() by kind of path.  The index names the current image.
GetIndex(r) ==
    /\ at[r] \in {"idle", "done"}
    /\ at' = [at EXCEPT ![r] = "index"]
    /\ digest' = [digest EXCEPT ![r] = image]
    /\ UNCHANGED registry

\* Mutant: manifests are served by tag, never by digest.
TagOnly(r) ==
    /\ at[r] = "index"
    /\ at' = [at EXCEPT ![r] = "no manifest"]
    /\ UNCHANGED <<registry, digest>>

\* The manifest is served by digest only while it is the current image's.
GetManifest(r) ==
    /\ at[r] = "index"
    /\ at' = [at EXCEPT ![r] = IF digest[r] = image THEN "manifest" ELSE "no manifest"]
    /\ UNCHANGED <<registry, digest>>

\* A blob is served if it was ever published.
GetBlob(r) ==
    /\ at[r] = "manifest"
    /\ at' = [at EXCEPT ![r] = IF Layer(digest[r]) \in blobs THEN "done" ELSE "no blob"]
    /\ UNCHANGED <<registry, digest>>

\* After a 404 the client begins anew.
Retry(r) ==
    /\ at[r] \in {"no manifest", "no blob"}
    /\ at' = [at EXCEPT ![r] = "idle"]
    /\ UNCHANGED <<registry, digest>>

publish == PublishBlobs \/ PublishImage \/ PublishSerial

Next ==
    \/ publish
    \/ \E r \in Readers : GetIndex(r) \/ GetManifest(r) \/ GetBlob(r) \/ Retry(r)

Spec == Init /\ [][Next]_vars

\* Handler threads answer; publishing and reading go on.
FairSpec ==
    /\ Spec
    /\ WF_vars(publish)
    /\ \A r \in Readers : WF_vars(GetManifest(r) \/ GetBlob(r) \/ Retry(r)) /\ WF_vars(GetIndex(r))

-----------------------------------------------------------------------------
\* The types: the serial counts the publications (oci_registry.py:66).
TypeOK ==
    /\ image \in Revisions
    /\ blobs \subseteq AllBlobs
    /\ serial \in {image, image - 1}
    /\ publishing \in {"no", "blobs", "image"}
    /\ at \in [Readers -> {"idle", "index", "manifest", "no manifest", "no blob", "done"}]
    /\ digest \in [Readers -> Revisions]

\* oci_registry.py:59-66: a blob a reader learnt of is served, whatever was
\* published since: publish() makes the blobs available before the image that
\* names them, and never withdraws one.
BlobsServed == \A r \in Readers : at[r] # "no blob"

\* oci_registry.py:59: "permit in-flight readers to finish": a reader is never
\* refused the manifest the index named to it.
InFlightFinishes == \A r \in Readers : at[r] # "no manifest"

\* oci_registry.py:68-90: a reader that goes on reading finally gets an image, since
\* revisions cannot supersede each other for ever in one scenario.
ReadersServed == \A r \in Readers : <>(at[r] = "done")
=============================================================================
