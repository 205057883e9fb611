---------------------------- MODULE ImageLifecycle ----------------------------
(***************************************************************************)
(* The destination mover's objects of one ReplicationDestination with copy *)
(* method Snapshot: the destination branches of internal/mover/ceph/       *)
(* {mover,pvc,job}.go and rdMachine of internal/controller/                *)
(* replicationdestination_controller.go                                    *)
(*                                                                         *)
(* A cycle waits for the mover Job, preserves the volume as an image (a    *)
(* VolumeSnapshot), publishes it as status.latestImage, and Cleanup        *)
(* deletes the Job and the image published before.  As on the source, each *)
(* action is one API call.                                                 *)
(*                                                                         *)
(* EnsureImage is VolSync's: it notes the name of the image of this cycle  *)
(* in an annotation of the PVC, so that a repeated call finds the same     *)
(* image until RemoveSnapshotAnnotationFromPVC.                            *)
(***************************************************************************)
EXTENDS Integers

CONSTANT MaxImages   \* bound: images ever cut

ASSUME ImageAssumption == MaxImages \in Nat \ {0}

Images == 1 .. MaxImages
NoImage == 0

VARIABLES
    receiver,   \* the destination's mover Job and its pod
    image,      \* the images: state, cleanup mark, whether they are whole
    named,      \* the annotation of the PVC: this cycle's image
    latest,     \* status.latestImage
    step        \* what the operator is doing: "sync" or a step of Cleanup

imageVars == <<receiver, image, named, latest, step>>

ImageInit ==
    /\ receiver = "none"
    /\ image = [i \in Images |-> [state |-> "none", marked |-> FALSE, whole |-> FALSE]]
    /\ named = NoImage
    /\ latest = NoImage
    /\ step = "sync"

(* ensureJob; "serving" is a pod whose server accepts a source.            *)
StartReceiver ==
    /\ step = "sync"
    /\ receiver = "none"
    /\ receiver' = "serving"
    /\ UNCHANGED <<image, named, latest, step>>

(* The backoff limit is reached, be it that a pod ended well since.        *)
DeleteReceiver ==
    /\ step = "sync"
    /\ receiver # "none"
    /\ receiver' = "none"
    /\ UNCHANGED <<image, named, latest, step>>

(* A pod that was told Done ends well, or is lost and a new one serves.    *)
ReceiverEnds ==
    /\ receiver = "ending"
    /\ receiver' \in {"succeeded", "serving"}
    /\ UNCHANGED <<image, named, latest, step>>

(* EnsureImage, reached once the Job has succeeded, picks a name.          *)
NameImage ==
    /\ step = "sync"
    /\ receiver = "succeeded"
    /\ named = NoImage
    /\ \E i \in Images :
         /\ image[i].state = "none"
         /\ \A k \in Images : k < i => image[k].state # "none"
         /\ named' = i
    /\ UNCHANGED <<receiver, image, latest, step>>

(* Mutant of CutImage: cuts what the volume holds once a Job has run. *)
CutImageEarly(whole) ==
    /\ step = "sync"
    /\ receiver # "none"
    /\ image[1].state = "none"
    /\ named' = 1
    /\ image' = [image EXCEPT ![1].state = "ready", ![1].whole = whole]
    /\ UNCHANGED <<receiver, latest, step>>

(* The image of that name is created, and holds the volume as it is.       *)
CutImage(whole) ==
    /\ step = "sync"
    /\ receiver = "succeeded"
    /\ named # NoImage
    /\ image[named].state = "none"
    /\ image' = [image EXCEPT ![named].state = "ready", ![named].whole = whole]
    /\ UNCHANGED <<receiver, named, latest, step>>

(* Synchronize of the mover returns CompleteWithImage. *)
ImageReady ==
    /\ step = "sync"
    /\ receiver = "succeeded"
    /\ named # NoImage
    /\ image[named].state = "ready"

(* MarkOldSnapshotForCleanup: another image than the one just cut.         *)
MarkOldImage ==
    /\ ImageReady
    /\ latest \notin {NoImage, named}
    /\ image' = [image EXCEPT ![latest].marked = TRUE]
    /\ UNCHANGED <<receiver, named, latest, step>>

(* status.latestImage is recorded, with the change to cleaning up.         *)
PublishImage ==
    /\ ImageReady
    /\ latest \notin {NoImage, named} => image[latest].marked
    /\ latest' = named
    /\ step' = "unname"
    /\ UNCHANGED <<receiver, image, named>>

(* RemoveSnapshotAnnotationFromPVC. *)
UnnameImage ==
    /\ step = "unname"
    /\ named' = NoImage
    /\ step' = "delete"
    /\ UNCHANGED <<receiver, image, latest>>

WithoutMarked ==
    [i \in Images |-> IF image[i].marked THEN [image[i] EXCEPT !.state = "gone"]
                                         ELSE image[i]]

(* CleanupObjects: the marked images, then the Job.  A call that fails in  *)
(* between, or whose result is not recorded, is repeated from the start.   *)
DeleteMarked ==
    /\ step = "delete"
    /\ image' = WithoutMarked
    /\ \/ receiver' = "none" /\ step' = "sync"
       \/ receiver' \in {receiver, "none"} /\ step' = "unname"
    /\ UNCHANGED <<named, latest>>

==============================================================================
