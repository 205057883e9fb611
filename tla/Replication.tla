----------------------------- MODULE Replication -----------------------------
(***************************************************************************)
(* A ReplicationSource and a ReplicationDestination, each with its own     *)
(* operator, and the mover pods between them.                              *)
(*                                                                         *)
(* The two operators share nothing but the transfer: a source pod reaches  *)
(* whatever destination pod is up at the time, also one that was told Done *)
(* by another source and has not ended yet.                                *)
(*                                                                         *)
(* Of the volume the model follows one place, a file of CephFS or a block  *)
(* of RBD, whose contents in each snapshot are the constant Data: what is  *)
(* shown for any Data holds at every place.  How a transfer writes its     *)
(* blocks is the subject of CephFSSync, CephFSTransfer and RBDTransfer;    *)
(* here a step of it is that the place is written or that it is not.       *)
(***************************************************************************)
EXTENDS SnapshotLifecycle, ImageLifecycle

CONSTANTS
    Contents,   \* what can be at the place
    Data,       \* what is there in each snapshot
    Unknown     \* contents of which nothing is claimed

ASSUME DataAssumption ==
    /\ Data \in [Snapshots -> Contents]
    /\ Unknown \notin Contents

VARIABLE
    volume   \* the destination's volume:
             \*   at       the snapshot last sent to it with Done
             \*   partial  another snapshot, of which some was written since
             \*   sent     every snapshot ever sent
             \*   data     what is at the place
             \*   strayed  a diff was sent from another base than at

vars == <<sourceVars, imageVars, volume>>

Volume == [at : Snapshots \cup {None}, partial : Snapshots \cup {None},
           sent : SUBSET Snapshots, data : Contents \cup {Unknown}, strayed : BOOLEAN]

Image == [state : {"none", "ready", "gone"}, marked : BOOLEAN, whole : BOOLEAN]

(* A type invariant of both operators. *)
TypeOK ==
    /\ SourceTypeOK
    /\ receiver \in {"none", "serving", "ending", "succeeded"}
    /\ image \in [Images -> Image]
    /\ named \in Images \cup {NoImage}
    /\ latest \in Images \cup {NoImage}
    /\ step \in {"sync", "unname", "delete"}
    /\ volume \in Volume

Init ==
    /\ SourceInit
    /\ ImageInit
    /\ volume = [at |-> None, partial |-> None, sent |-> {}, data |-> Unknown,
                 strayed |-> FALSE]

------------------------------------------------------------------------------

(* A source pod and a destination pod are up, and the base of a diff still *)
(* exists.  A pod that was told Done serves until its server has stopped.  *)
Connected ==
    /\ job.state = "running"
    /\ job.failed <= BackoffLimit
    /\ receiver \in {"serving", "ending"}
    /\ job.base # None => snap[job.base].state # "gone"

(* Whether the transfer has to do with the place: a full copy with every   *)
(* place, a diff with those that differ between its base and its target.   *)
Concerned == job.base = None \/ Data[job.base] # Data[job.target]

(* What is written there: the data of the mounted PVC, or a deletion that  *)
(* the diff reports.  A full copy of RBD is guided by a diff of the live   *)
(* image, and writes zeros where that one has nothing (any longer).  The   *)
(* place is no longer followed once LatestImageWhole claims nothing of it. *)
Written ==
    IF doubled # {} \/ volume.strayed THEN {Unknown}
    ELSE {Data[job.data], Data[job.target]} \cup (IF job.base = None THEN {Unknown} ELSE {})

(* Some of the target is written, perhaps at the place.  Writing again     *)
(* what was sent last leaves nothing half written; what another source     *)
(* writes after Done comes too late for the image that is about to be cut. *)
PodWrites ==
    /\ Connected
    /\ LET again == volume.at = job.target /\ volume.partial = None
           late == receiver = "ending" /\ ~again
       IN  \E d \in {volume.data} \cup Written :
             volume' = [volume EXCEPT !.partial = IF again THEN None ELSE job.target,
                                      !.data = IF late THEN Unknown ELSE d]
    /\ UNCHANGED <<sourceVars, imageVars>>

(* The transfer ends and Done is answered; the answer may be lost, and     *)
(* then the source's pod is retried although everything was sent.  Done is *)
(* also said when the diff broke off or a file was skipped: then what is   *)
(* at the place is unknown.                                                *)
PodSendsDone ==
    /\ Connected
    /\ \E d \in Written \cup {Unknown} \cup (IF Concerned THEN {} ELSE {volume.data}) :
         volume' = [at |-> job.target, partial |-> None,
                    sent |-> volume.sent \cup {job.target}, data |-> d,
                    strayed |-> \/ volume.strayed
                                \/ job.base # None /\ volume.at \notin {job.base, job.target}]
    /\ receiver' = "ending"
    /\ job' = [job EXCEPT !.state = "sent"]
    /\ UNCHANGED <<snapVars, pvc, pc, todo, image, named, latest, step>>

PodFails == PodRetried /\ UNCHANGED <<imageVars, volume>>

(* What an image cut now has at the place is what the snapshot has that    *)
(* was sent last, as far as anything is claimed.                           *)
Whole == volume.at # None /\ volume.data \in {Data[volume.at], Unknown}

ImageNext ==
    \/ StartReceiver \/ DeleteReceiver \/ ReceiverEnds \/ NameImage \/ CutImage(Whole)
    \/ MarkOldImage \/ PublishImage \/ UnnameImage \/ DeleteMarked

SourceOperates == SourceNext /\ UNCHANGED <<imageVars, volume>>
DestinationOperates == ImageNext /\ UNCHANGED <<sourceVars, volume>>

Next == SourceOperates \/ DestinationOperates \/ PodWrites \/ PodSendsDone \/ PodFails

Spec == Init /\ [][Next]_vars

------------------------------------------------------------------------------
(* Properties.                                                             *)

(* The snapshot last sent to the destination is what the next incremental  *)
(* has to start from: however often Cleanup is interrupted and retried, it *)
(* is never marked, never deleted, and keeps a status label.  Two current  *)
(* snapshots at once, which a lagging cache can bring about, are excepted. *)
LastSyncedKept ==
    volume.at # None /\ volume.at \notin doubled =>
      /\ snap[volume.at].state = "ready"
      /\ ~snap[volume.at].marked
      /\ snap[volume.at].label # "none"

(* A destination that was left half written is always completed with the   *)
(* same target: the current snapshot is not given up before its Job        *)
(* succeeded.                                                              *)
PartialIsResumed ==
    volume.partial # None => volume.partial \in Labelled("current") \cup doubled

(* What carries the label "previous" was transferred completely, so a diff *)
(* against it never starts from data the destination did not receive;      *)
(* snapshots that were current at the same time are excepted.              *)
PreviousWasApplied == Labelled("previous") \subseteq volume.sent \cup doubled

(* The image the destination publishes exists until another is published,  *)
(* and has at every place the contents of the snapshot that was sent last: *)
(* it is not cut while a transfer is under way, nor from a volume that was *)
(* left half written, nor deleted by a Cleanup that is repeated.  Nothing  *)
(* is claimed of a place that is Unknown, nor once a diff was sent from a  *)
(* base that the volume did not hold (BaseIsLastSynced) or two snapshots   *)
(* have been current at the same time.                                     *)
LatestImageWhole ==
    latest # NoImage =>
      /\ image[latest].state = "ready"
      /\ doubled = {} /\ volume.strayed = FALSE => image[latest].whole = TRUE

(* docs/architecture.md: the current snapshot is "relabeled as previous    *)
(* (kept for next incremental)": an incremental Job starts from the        *)
(* snapshot the destination holds (or repeats a transfer already done).    *)
BaseIsLastSynced ==
    job.state = "running" /\ job.base # None => volume.at \in {job.base, job.target}

------------------------------------------------------------------------------
(* The inductive invariant behind PreviousWasApplied and PartialIsResumed. *)

(* The server or the cache has it as a current snapshot.                   *)
IsOpen(s) == snap[s].label = "current" \/ view[s].label = "current"

(* The volume holds it, and nothing else was written since.                *)
Landed(s) == volume.at = s /\ volume.partial = None /\ s \in volume.sent

Snapshot == [state : {"none", "pending", "ready", "deleting", "gone"},
             label : {"none", "current", "previous"}, marked : BOOLEAN]

RotationTypes ==
    /\ snap \in [Snapshots -> Snapshot] /\ view \in [Snapshots -> Snapshot]
    /\ doubled \subseteq Snapshots /\ todo \subseteq Snapshots
    /\ pc \in {"sync", "mark", "deletePVCs", "deleteSnapshots", "deleteJobs"}
    /\ job \in [state : {"none", "running", "sent", "succeeded"}, failed : Nat,
                data : Snapshots \cup {None}, base : Snapshots \cup {None},
                target : Snapshots \cup {None}]
    /\ volume \in Volume

(* A status label and its copy in the cache only move from current to      *)
(* previous to none, and the cache is never ahead.                         *)
LabelsMove ==
    \A s \in Snapshots :
      /\ snap[s].label = "current" => snap[s].state \in {"pending", "ready"}
      /\ view[s].label = "current" => view[s].state \in {"pending", "ready"}
      /\ view[s].label = "previous" => snap[s].label # "current"
      /\ snap[s].state = "none" => /\ snap[s].label = "none" /\ view[s].label = "none"
                                   /\ s # job.target /\ s \notin volume.sent \cup todo
      /\ s \in todo => snap[s].label # "current"

OneOpen ==
    \A s, t \in Snapshots : s # t /\ IsOpen(s) /\ IsOpen(t) => s \in doubled

(* The cycle of a snapshot that was current alone: nothing else is sent    *)
(* from its first transfer until it is closed in the cache, too.           *)
CycleOf(s) ==
    /\ view[s].label = "current" /\ snap[s].label # "current" => Landed(s)
    /\ pc # "sync" /\ IsOpen(s) => Landed(s)
    /\ IsOpen(s) /\ job.state # "none" /\ job.target # s => s \notin volume.sent
    /\ snap[s].label = "previous" => s \in volume.sent
    /\ volume.partial = s => snap[s].label = "current"
    /\ job.state # "none" /\ job.target = s =>
         snap[s].label = "current" \/ (volume.at = s /\ volume.partial = None)

RotationInv ==
    /\ RotationTypes
    /\ LabelsMove
    /\ OneOpen
    /\ \A s \in Snapshots \ doubled : CycleOf(s)
    /\ job.state # "none" => job.target \in Snapshots /\ job.data \in Snapshots
    /\ job.state \in {"sent", "succeeded"} => Landed(job.target)
    /\ pc # "sync" => job.state \in {"succeeded", "none"}

(* No snapshot was created after it.                                       *)
Newest(s) == \A t \in Snapshots : t > s => snap[t].state = "none"

(* What LastSyncedKept needs beyond RotationInv: the snapshot last sent is *)
(* the newest one while Cleanup runs, and of the previous ones the newest  *)
(* at any time, so that Cleanup keeps it.                                  *)
SyncedInv ==
    /\ \A s \in Snapshots :
         /\ snap[s].state = "none" => snap[s].marked = FALSE /\ Newest(s)
         /\ view[s].state \in {"ready", "deleting", "gone"} =>
              snap[s].state \notin {"none", "pending"}
         /\ snap[s].label = "current" => snap[s].marked = FALSE
         /\ IsOpen(s) /\ s \notin doubled => Newest(s)
    /\ job.state # "none" => snap[job.target].state \notin {"none", "pending"}
    /\ volume.at # None /\ volume.at \notin doubled =>
         /\ snap[volume.at].state = "ready"
         /\ snap[volume.at].marked = FALSE
         /\ snap[volume.at].label # "none"
         /\ volume.at \notin todo
         /\ pc # "sync" => Newest(volume.at)
         /\ \A t \in Snapshots : t > volume.at =>
              snap[t].label # "previous" /\ view[t].label # "previous"

(* What the contents of LatestImageWhole need: a Job reads the PVC of its  *)
(* target, and a volume that is half written has at each place what it had *)
(* before or what is being sent.                                           *)
ContentsInv ==
    doubled = {} =>
      /\ job.state # "none" => job.data = job.target
      /\ volume.at # None /\ volume.strayed = FALSE =>
           \/ volume.data \in {Data[volume.at], Unknown}
           \/ volume.partial # None /\ volume.data = Data[volume.partial]

(* A destination that was told Done holds a whole snapshot until its Job   *)
(* is deleted, or was written too late; an image that may be published is  *)
(* not marked, and the one published is marked only while another is ready *)
(* to replace it.                                                          *)
ImageInv ==
    /\ receiver \in {"none", "serving", "ending", "succeeded"}
    /\ image \in [Images -> Image]
    /\ named \in Images \cup {NoImage}
    /\ latest \in Images \cup {NoImage}
    /\ step \in {"sync", "unname", "delete"}
    /\ receiver \in {"ending", "succeeded"} =>
         volume.at # None /\ (volume.partial = None \/ volume.data = Unknown)
    /\ \A i \in Images :
         /\ image[i].state = "none" => image[i].marked = FALSE
         /\ image[i].state = "ready" /\ doubled = {} /\ volume.strayed = FALSE =>
              image[i].whole = TRUE
    /\ named # NoImage => image[named].state \in {"none", "ready"} /\ image[named].marked = FALSE
    /\ latest # NoImage =>
         /\ image[latest].state = "ready"
         /\ image[latest].marked = TRUE => step = "sync" /\ named \notin {NoImage, latest}

(* The remaining bounds of TypeOK.                                         *)
BoundsInv ==
    /\ job.failed <= BackoffLimit + 1
    /\ pvc \in [Snapshots -> {"none", "pending", "bound"}]

=============================================================================
