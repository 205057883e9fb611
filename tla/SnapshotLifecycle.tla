-------------------------- MODULE SnapshotLifecycle --------------------------
(***************************************************************************)
(* The source mover's objects of one ReplicationSource with copy method    *)
(* Snapshot: internal/mover/ceph/{mover,pvc,job,snapshot_method}.go        *)
(*                                                                         *)
(* The operator's Synchronize is run again and again until it completes,   *)
(* then Cleanup is run again and again until it completes, then the next   *)
(* cycle begins.  Each action is one API call that changes an object (with *)
(* the reads that precede it in the same reconcile), because the operator  *)
(* may fail or be restarted between any two of them; the snapshotter, the  *)
(* provisioner and the Job controller act in between.                      *)
(*                                                                         *)
(* Snapshots are read from the manager's cache, which follows the API      *)
(* server after a while.  An update carries the resource version it was    *)
(* read with, so one of an outdated copy is refused and tried again.       *)
(*                                                                         *)
(* A snapshot is named by the order of its creation, which is also the     *)
(* order of the time stamps in the names and CreationTimestamps.           *)
(***************************************************************************)
EXTENDS Integers, FiniteSets, FiniteSetsExt

CONSTANTS
    MaxSnapshots,   \* bound: snapshots ever created
    BackoffLimit,   \* job.Spec.BackoffLimit
    MaxLag          \* bound: snapshots of which the cache has no or an old copy,
                    \* not counting one just created; 0: the cache is exact

ASSUME LifecycleAssumption ==
    /\ MaxSnapshots \in Nat \ {0}
    /\ BackoffLimit \in Nat \ {0}
    /\ MaxLag \in Nat

Snapshots == 1 .. MaxSnapshots
None == 0

VARIABLES
    snap,     \* the VolumeSnapshots: state, status label, cleanup mark
    view,     \* the copies of them in the client's cache
    doubled,  \* snapshots that have been current at the same time as another
    pvc,      \* the temporary PVC restored from each snapshot
    job,      \* the mover Job: failed pods, PVC, base and target handles
    pc,       \* what the operator is doing: "sync" or a step of Cleanup
    todo      \* transitionSnapshotStatuses: snapshots still to be marked

snapVars == <<snap, view, doubled>>
sourceVars == <<snapVars, pvc, job, pc, todo>>

NoJob == [state |-> "none", failed |-> 0, data |-> None, base |-> None, target |-> None]
NoSnapshot == [state |-> "none", label |-> "none", marked |-> FALSE]

SourceTypeOK ==
    /\ \A copy \in {snap, view} :
         copy \in [Snapshots -> [state : {"none", "pending", "ready", "deleting", "gone"},
                                 label : {"none", "current", "previous"},
                                 marked : BOOLEAN]]
    /\ doubled \subseteq Snapshots
    /\ pvc \in [Snapshots -> {"none", "pending", "bound"}]
    /\ job \in [state : {"none", "running", "sent", "succeeded"},
                failed : 0 .. (BackoffLimit + 1), data : Snapshots \cup {None},
                base : Snapshots \cup {None}, target : Snapshots \cup {None}]
    /\ pc \in {"sync", "mark", "deletePVCs", "deleteSnapshots", "deleteJobs"}
    /\ todo \subseteq Snapshots

SourceInit ==
    /\ snap = [s \in Snapshots |-> NoSnapshot]
    /\ view = snap
    /\ doubled = {}
    /\ pvc = [s \in Snapshots |-> "none"]
    /\ job = NoJob
    /\ pc = "sync"
    /\ todo = {}

(* listSnapshotsWithStatus on the server or in the cache: the order of the *)
(* list is the cache's.                                                    *)
LabelledIn(copy, label) ==
    {s \in Snapshots : copy[s].state \in {"pending", "ready", "deleting"}
                       /\ copy[s].label = label}

Labelled(label) == LabelledIn(snap, label)
Listed(label) == LabelledIn(view, label)

Lagging(new) == Cardinality({s \in Snapshots : view[s] # new[s]})

(* A snapshot changes on the server, and the cache still has the old copy. *)
Changes(new) ==
    /\ snap' = new
    /\ IF MaxLag = 0 THEN view' = new
       ELSE Lagging(new) <= MaxLag /\ UNCHANGED view

(* The watch delivers the newest state of a snapshot.                      *)
CatchUp ==
    /\ \E s \in Snapshots :
         /\ view[s] # snap[s]
         /\ view' = [view EXCEPT ![s] = snap[s]]
    /\ UNCHANGED <<snap, doubled, pvc, job, pc, todo>>

------------------------------------------------------------------------------
(* Synchronize.                                                            *)

(* findCurrentSnapshot finds none: ensureSnapshotWithStatusLabel.  The new *)
(* name ends in the time, so nothing refuses a second current snapshot.    *)
CreateSnapshot ==
    /\ pc = "sync"
    /\ Listed("current") = {}
    /\ \E s \in Snapshots :
         /\ snap[s].state = "none"
         /\ \A t \in Snapshots : t < s => snap[t].state # "none"
         /\ Lagging(snap) <= MaxLag
         /\ snap' = [snap EXCEPT ![s].state = "pending", ![s].label = "current"]
         /\ view' = IF MaxLag = 0 THEN snap' ELSE view
         /\ doubled' = IF Labelled("current") = {} THEN doubled
                       ELSE doubled \cup Labelled("current") \cup {s}
    /\ UNCHANGED <<pvc, job, pc, todo>>

(* The external snapshotter. *)
SnapshotReady ==
    /\ \E s \in Snapshots :
         /\ snap[s].state = "pending"
         /\ Changes([snap EXCEPT ![s].state = "ready"])
    /\ UNCHANGED <<doubled, pvc, job, pc, todo>>

(* The external snapshotter releases the finalizer of a deleted snapshot.  *)
SnapshotGone ==
    /\ \E s \in Snapshots :
         /\ snap[s].state = "deleting"
         /\ Changes([snap EXCEPT ![s].state = "gone"])
    /\ UNCHANGED <<doubled, pvc, job, pc, todo>>

(* createPVCFromSnapshot: named after the current snapshot, and already    *)
(* marked for cleanup.                                                     *)
CreatePVC ==
    /\ pc = "sync"
    /\ \E s \in Listed("current") :
         /\ view[s].state = "ready"
         /\ pvc[s] = "none"
         /\ pvc' = [pvc EXCEPT ![s] = "pending"]
    /\ UNCHANGED <<snapVars, job, pc, todo>>

(* The external provisioner restores a snapshot that is still there.       *)
BindPVC ==
    /\ \E s \in Snapshots :
         /\ pvc[s] = "pending"
         /\ snap[s].state \in {"ready", "deleting"}
         /\ pvc' = [pvc EXCEPT ![s] = "bound"]
    /\ UNCHANGED <<snapVars, job, pc, todo>>

(* getVolumeEnvVars: without a previous snapshot only the volume handle is *)
(* passed (full copy), otherwise the base is the first of the list.        *)
Bases ==
    LET previous == Listed("previous")
    IN  IF previous = {} THEN {None} ELSE previous

(* The snapshots whose PVC ensurePVCFromSrcWithStatusLabels returns.       *)
DataReady(s) ==
    /\ pc = "sync"
    /\ s \in Listed("current")
    /\ view[s].state = "ready"
    /\ pvc[s] = "bound"

(* What one reconcile may give the Job: the PVC of the current snapshot    *)
(* found first, a base, and the target found by a second look at the list; *)
(* a full copy reads the PVC and needs no target.                          *)
Handles ==
    {h \in [data : Listed("current"), base : Bases, target : Listed("current")] :
       /\ DataReady(h.data)
       /\ view[h.target].state # "pending"
       /\ IF h.base = None THEN h.target = h.data ELSE view[h.base].state # "pending"}

Given == [data |-> job.data, base |-> job.base, target |-> job.target]

CreateJob ==
    /\ job.state = "none"
    /\ \E h \in Handles :
         job' = [state |-> "running", failed |-> 0,
                 data |-> h.data, base |-> h.base, target |-> h.target]
    /\ UNCHANGED <<snapVars, pvc, pc, todo>>

(* Mutant of ReplaceJob: gives up the snapshot together with the Job. *)
ReplaceJobAndSnapshot ==
    /\ job.state = "running"
    /\ job' = NoJob
    /\ Changes([snap EXCEPT ![job.target].label = "none"])
    /\ UNCHANGED <<doubled, pvc, pc, todo>>

(* The pod template is immutable: a reconcile that computes other handles  *)
(* deletes the Job (CreateOrUpdateDeleteOnImmutableErr).                   *)
ReplaceJob ==
    /\ job.state # "none"
    /\ \E h \in Handles : h # Given
    /\ job' = NoJob
    /\ UNCHANGED <<snapVars, pvc, pc, todo>>

(* "If Job had failed, delete it so it can be recreated", also when no     *)
(* handles were found for it.                                              *)
DeleteFailedJob ==
    /\ job.state # "none"
    /\ job.failed >= BackoffLimit
    /\ \E s \in Snapshots : DataReady(s)
    /\ job' = NoJob
    /\ UNCHANGED <<snapVars, pvc, pc, todo>>

(* Mutant of PodRetried: no limit on the failures. *)
PodRetriedForever ==
    /\ job.state \in {"running", "sent"}
    /\ job' = [job EXCEPT !.state = "running", !.failed = @ + 1]
    /\ UNCHANGED <<snapVars, pvc, pc, todo>>

(* A pod fails; the Job controller starts another, a number of times.      *)
PodRetried ==
    /\ job.state \in {"running", "sent"}
    /\ job.failed <= BackoffLimit
    /\ job' = [job EXCEPT !.state = "running", !.failed = @ + 1]
    /\ UNCHANGED <<snapVars, pvc, pc, todo>>

(* spec.paused sets the Job's parallelism to 0: its pod is taken away      *)
(* without counting as failed, and after the pause another one starts.     *)
PausePods ==
    /\ job.state = "sent"
    /\ Given \in Handles
    /\ job' = [job EXCEPT !.state = "running"]
    /\ UNCHANGED <<snapVars, pvc, pc, todo>>

(* The pod got its answer to Done and exits with 0.                        *)
PodSucceeds ==
    /\ job.state = "sent"
    /\ job' = [job EXCEPT !.state = "succeeded"]
    /\ UNCHANGED <<snapVars, pvc, pc, todo>>

------------------------------------------------------------------------------
(* Cleanup.                                                                *)

(* Mutant of OldPrevious: the oldest is the one that is kept. *)
AllButOldest ==
    LET previous == Listed("previous")
    IN  IF Cardinality(previous) > 1 THEN previous \ {Min(previous)} ELSE {}

(* Step 1 of transitionSnapshotStatuses: every previous snapshot but the   *)
(* most recently created.                                                  *)
OldPrevious ==
    LET previous == Listed("previous")
    IN  IF Cardinality(previous) > 1 THEN previous \ {Max(previous)} ELSE {}

(* Mutant of SyncCompletes: does not look at Status.Succeeded. *)
SyncCompletesUnfinished ==
    /\ job.state # "none"
    /\ job.failed < BackoffLimit
    /\ Given \in Handles
    /\ pc' = "mark"
    /\ todo' = OldPrevious
    /\ UNCHANGED <<snapVars, pvc, job>>

(* ensureJob finds the Job succeeded, Synchronize returns Complete, and    *)
(* the first Cleanup lists the previous snapshots.                         *)
SyncCompletes ==
    /\ job.state = "succeeded"
    /\ job.failed < BackoffLimit
    /\ Given \in Handles
    /\ pc' = "mark"
    /\ todo' = OldPrevious
    /\ UNCHANGED <<snapVars, pvc, job>>

(* MarkForCleanup, and RemoveLabel only when the mark was already there;   *)
(* the update of an outdated copy is refused (CleanupRetried).             *)
MarkOld ==
    /\ pc = "mark"
    /\ \E s \in todo :
         /\ view[s] = snap[s]
         /\ Changes([snap EXCEPT ![s].marked = TRUE,
                                 ![s].label = IF snap[s].marked THEN "none" ELSE @])
         /\ todo' = todo \ {s}
    /\ UNCHANGED <<doubled, pvc, job, pc>>

(* Step 2: the first current snapshot of the list becomes a previous one.  *)
Relabel ==
    /\ pc = "mark"
    /\ todo = {}
    /\ pc' = "deletePVCs"
    /\ \/ Listed("current") = {} /\ UNCHANGED snapVars
       \/ \E s \in Listed("current") :
            /\ view[s] = snap[s]
            /\ Changes([snap EXCEPT ![s].label = "previous"])
            /\ UNCHANGED doubled
    /\ UNCHANGED <<pvc, job, todo>>

(* CleanupObjects deletes the marked objects type by type, in the order of *)
(* cleanupTypes; a call that fails may have deleted some of them.          *)
DeletePVCs ==
    /\ pc = "deletePVCs"
    /\ pvc' = [s \in Snapshots |-> "none"]
    /\ pc' = "deleteSnapshots"
    /\ UNCHANGED <<snapVars, job, todo>>

Deletable == {s \in Labelled("none") \cup Labelled("previous") : snap[s].marked}

AfterDelete(part) ==
    [s \in Snapshots |-> IF s \in part THEN [snap[s] EXCEPT !.state = "deleting"]
                                       ELSE snap[s]]

DeleteSnapshots ==
    /\ pc = "deleteSnapshots"
    /\ Changes(AfterDelete(Deletable))
    /\ pc' = "deleteJobs"
    /\ UNCHANGED <<doubled, pvc, job, todo>>

(* The Job goes last, Cleanup returns Complete and the cycle is over.      *)
DeleteJobs ==
    /\ pc = "deleteJobs"
    /\ job' = NoJob
    /\ pc' = "sync"
    /\ UNCHANGED <<snapVars, pvc, todo>>

(* A call of Cleanup fails, the operator restarts, or its result is not    *)
(* recorded in the status: Cleanup starts again from a fresh list.         *)
CleanupRetried ==
    /\ pc # "sync"
    /\ pc' = "mark"
    /\ \E part \in SUBSET Deletable :
         /\ pc = "deleteSnapshots" \/ part = {}
         /\ Changes(AfterDelete(part))
    /\ todo' = OldPrevious
    /\ job' \in {job, IF pc = "deleteJobs" THEN NoJob ELSE job}
    /\ UNCHANGED <<doubled, pvc>>

(* Waiting for the next trigger, at the bound on snapshots.                *)
SourceIdle ==
    /\ pc = "sync"
    /\ Listed("current") = {}
    /\ \A s \in Snapshots : snap[s].state # "none"
    /\ UNCHANGED sourceVars

SourceNext ==
    \/ CatchUp \/ CreateSnapshot \/ SnapshotReady \/ SnapshotGone \/ CreatePVC \/ BindPVC
    \/ CreateJob \/ ReplaceJob \/ DeleteFailedJob \/ PausePods \/ PodSucceeds
    \/ SyncCompletes \/ MarkOld \/ Relabel \/ DeletePVCs \/ DeleteSnapshots
    \/ DeleteJobs \/ CleanupRetried \/ SourceIdle

==============================================================================
