--------------------------- MODULE LifecycleProofs ---------------------------
(***************************************************************************)
(* The rotation of the source's snapshots and the images of a destination, *)
(* for any number of snapshots and images, any backoff limit and a cache   *)
(* that may lag by any amount.                                             *)
(***************************************************************************)
EXTENDS Replication, TLAPS

(* Being in the list of the cache with a label.                            *)
LEMMA ListedLabel ==
  ASSUME NEW l
  PROVE  /\ \A s \in Listed(l) : s \in Snapshots /\ view[s].label = l
         /\ \A s \in Labelled(l) : s \in Snapshots /\ snap[s].label = l
BY DEF Listed, Labelled, LabelledIn

(* A snapshot is not called None.                                          *)
LEMMA NoneIsNoSnapshot == None \notin Snapshots
BY LifecycleAssumption DEF None, Snapshots

LEMMA RotationInit == Init => RotationInv
<1>. SUFFICES ASSUME Init PROVE RotationInv
  OBVIOUS
<1>. USE DEF Init, SourceInit
<1>1. NoSnapshot \in Snapshot
  BY DEF NoSnapshot, Snapshot
<1>2. RotationTypes
  <2>1. snap \in [Snapshots -> Snapshot] /\ view \in [Snapshots -> Snapshot]
    BY <1>1
  <2>2. job \in [state : {"none", "running", "sent", "succeeded"}, failed : Nat,
                 data : Snapshots \cup {None}, base : Snapshots \cup {None},
                 target : Snapshots \cup {None}]
    BY DEF NoJob
  <2>3. volume \in Volume
    BY DEF Volume
  <2>. QED BY <2>1, <2>2, <2>3 DEF RotationTypes
<1>3. \A s \in Snapshots : snap[s].label = "none" /\ view[s].label = "none"
  BY DEF NoSnapshot
<1>4. job.state = "none" /\ job.target = None /\ volume.sent = {} /\ volume.partial = None
  BY DEF NoJob
<1>. QED BY <1>2, <1>3, <1>4, NoneIsNoSnapshot
         DEF RotationInv, LabelsMove, OneOpen, IsOpen, CycleOf

(* Only previous snapshots are to be marked.                               *)
LEMMA OldArePrevious == OldPrevious \subseteq {s \in Snapshots : view[s].label = "previous"}
<1>1. OldPrevious \subseteq Listed("previous")
  BY DEF OldPrevious
<1>. QED BY <1>1, ListedLabel

(* A step that opens no snapshot, changes no label but from previous to    *)
(* none, and leaves alone what is neither marked nor to be marked: what    *)
(* the snapshotter and the cache do, MarkForCleanup, and the deletions.    *)
QuietStep ==
    /\ UNCHANGED <<doubled, volume>>
    /\ job' \in {job, NoJob}
    /\ pc' # "sync" => pc # "sync"
    /\ \A s \in Snapshots :
         /\ view'[s] = view[s] \/ view'[s] = snap'[s]
         /\ \/ snap'[s].label = snap[s].label
            \/ snap[s].label # "current" /\ snap'[s].label = "none"
         /\ snap'[s].state \in {"none", "pending"} => snap'[s].state = snap[s].state
         /\ snap[s].state = "none" => snap'[s] = snap[s]
         /\ snap[s].label = "current" =>
              snap'[s].state \in {"pending", "ready"} /\ snap'[s].marked = snap[s].marked
         /\ snap[s].state = "ready" /\ snap[s].marked = FALSE /\ s \notin todo => snap'[s] = snap[s]
         /\ s \in todo' => s \in todo \/ s \in OldPrevious

LEMMA QuietRotation ==
  ASSUME RotationInv, RotationTypes', QuietStep
  PROVE  RotationInv'
<1>. USE DEF RotationInv, QuietStep
<1>0. NoJob.state = "none" /\ NoJob.target = None
  BY DEF NoJob
<1>1. \A s \in Snapshots : (snap'[s].label = "current" => snap[s].label = "current")
                           /\ (IsOpen(s)' => IsOpen(s))
  BY DEF IsOpen
<1>2. LabelsMove'
  BY <1>0, <1>1, NoneIsNoSnapshot, OldArePrevious DEF LabelsMove
<1>3. OneOpen'
  BY <1>1 DEF OneOpen
<1>4. ASSUME NEW s \in Snapshots \ doubled PROVE CycleOf(s)'
  <2>1. CycleOf(s)
    OBVIOUS
  <2>2. job'.state # "none" => job' = job
    BY <1>0
  <2>3. Landed(s)' = Landed(s)
    BY DEF Landed
  <2>4. view'[s].label = "current" /\ snap'[s].label # "current" =>
          view[s].label = "current" /\ snap[s].label # "current"
    BY DEF LabelsMove
  <2>. QED BY <1>1, <2>1, <2>2, <2>3, <2>4 DEF CycleOf
<1>5. /\ job'.state # "none" => job'.target \in Snapshots /\ job'.data \in Snapshots
      /\ job'.state \in {"sent", "succeeded"} => Landed(job.target)' /\ job' = job
      /\ pc' # "sync" => job'.state \in {"succeeded", "none"}
  BY <1>0 DEF Landed
<1>. QED BY <1>2, <1>3, <1>4, <1>5 DEF Landed

(* Changes puts the new objects on the server, and the cache keeps its     *)
(* copy of each or gets the new one.                                       *)
LEMMA ChangesView ==
  ASSUME RotationTypes, NEW new \in [Snapshots -> Snapshot], Changes(new)
  PROVE  /\ snap' = new
         /\ snap' \in [Snapshots -> Snapshot] /\ view' \in [Snapshots -> Snapshot]
         /\ \A s \in Snapshots : view'[s] = view[s] \/ view'[s] = new[s]
BY DEF Changes, RotationTypes

(* The update of one snapshot keeps the types and the other snapshots.     *)
LEMMA OneUpdated ==
  ASSUME RotationTypes, NEW s \in Snapshots, NEW r \in Snapshot
  PROVE  /\ [snap EXCEPT ![s] = r] \in [Snapshots -> Snapshot]
         /\ [snap EXCEPT ![s] = r][s] = r
         /\ \A t \in Snapshots \ {s} : [snap EXCEPT ![s] = r][t] = snap[t]
BY DEF RotationTypes

LEMMA CatchUpQuiet ==
  ASSUME RotationInv, CatchUp, UNCHANGED volume
  PROVE  RotationTypes' /\ QuietStep
<1>1. PICK s \in Snapshots : view' = [view EXCEPT ![s] = snap[s]]
  BY Zenon DEF CatchUp
<1>2. UNCHANGED <<snap, doubled, job, pc, todo, volume>>
  BY DEF CatchUp
<1>3. RotationTypes'
  BY <1>1, <1>2 DEF RotationInv, RotationTypes
<1>4. \A t \in Snapshots : view'[t] = view[t] \/ view'[t] = snap'[t]
  BY <1>1, <1>2 DEF RotationInv, RotationTypes
<1>. QED BY <1>2, <1>3, <1>4 DEF QuietStep, RotationInv, LabelsMove

(* The snapshotter changes a state and no label.                           *)
LEMMA StateQuiet ==
  ASSUME RotationInv, SnapshotReady \/ SnapshotGone, UNCHANGED volume
  PROVE  RotationTypes' /\ QuietStep
<1>1. PICK s \in Snapshots, st \in {"ready", "gone"} :
        /\ \/ snap[s].state = "pending" /\ st = "ready"
           \/ snap[s].state = "deleting" /\ st = "gone"
        /\ Changes([snap EXCEPT ![s].state = st])
  BY Zenon DEF SnapshotReady, SnapshotGone
<1>2. UNCHANGED <<doubled, job, pc, todo, volume>>
  BY DEF SnapshotReady, SnapshotGone
<1>3. RotationTypes /\ LabelsMove
  BY DEF RotationInv
<1>. DEFINE r == [snap[s] EXCEPT !.state = st]
<1>4. r \in Snapshot /\ r.label = snap[s].label /\ r.state = st /\ r.marked = snap[s].marked
  BY <1>3 DEF RotationTypes, Snapshot
<1>5. Changes([snap EXCEPT ![s] = r])
  BY <1>1
<1>. HIDE DEF r
<1>6. /\ snap' = [snap EXCEPT ![s] = r]
      /\ snap' \in [Snapshots -> Snapshot] /\ view' \in [Snapshots -> Snapshot]
      /\ \A t \in Snapshots : view'[t] = view[t] \/ view'[t] = snap'[t]
  BY <1>3, <1>4, <1>5, OneUpdated, ChangesView
<1>7. snap'[s] = r /\ \A t \in Snapshots \ {s} : snap'[t] = snap[t]
  BY <1>3, <1>4, <1>6, OneUpdated
<1>8. RotationTypes'
  BY <1>2, <1>3, <1>6 DEF RotationTypes
<1>. QED BY <1>1, <1>2, <1>3, <1>4, <1>6, <1>7, <1>8 DEF QuietStep, LabelsMove

LEMMA MarkOldQuiet ==
  ASSUME RotationInv, MarkOld, UNCHANGED volume
  PROVE  RotationTypes' /\ QuietStep
<1>1. PICK s \in todo :
        /\ Changes([snap EXCEPT ![s].marked = TRUE,
                                ![s].label = IF snap[s].marked THEN "none" ELSE @])
        /\ todo' = todo \ {s}
  BY Zenon DEF MarkOld
<1>2. UNCHANGED <<doubled, job, pc, volume>>
  BY DEF MarkOld
<1>3. /\ RotationTypes /\ LabelsMove
      /\ s \in Snapshots /\ snap[s].label # "current" /\ snap[s].state # "none"
  BY DEF RotationInv, RotationTypes, LabelsMove
<1>. DEFINE r == [snap[s] EXCEPT !.marked = TRUE,
                                 !.label = IF snap[s].marked THEN "none" ELSE @]
<1>4. /\ r \in Snapshot /\ r.state = snap[s].state
      /\ r.label = snap[s].label \/ r.label = "none"
  <2>1. snap[s] \in Snapshot
    BY <1>3 DEF RotationTypes
  <2>2. (IF snap[s].marked THEN "none" ELSE snap[s].label) \in {"none", snap[s].label}
    OBVIOUS
  <2>. QED BY Zenon, <2>1, <2>2 DEF Snapshot
<1>5. Changes([snap EXCEPT ![s] = r])
  <2>1. [snap EXCEPT ![s].marked = TRUE, ![s].label = IF snap[s].marked THEN "none" ELSE @]
          = [snap EXCEPT ![s] = r]
    BY Zenon, <1>3 DEF RotationTypes, Snapshot
  <2>. QED BY <1>1, <2>1
<1>. HIDE DEF r
<1>6. /\ snap' = [snap EXCEPT ![s] = r]
      /\ snap' \in [Snapshots -> Snapshot] /\ view' \in [Snapshots -> Snapshot]
      /\ \A t \in Snapshots : view'[t] = view[t] \/ view'[t] = snap'[t]
  BY <1>3, <1>4, <1>5, OneUpdated, ChangesView
<1>7. snap'[s] = r /\ \A t \in Snapshots \ {s} : snap'[t] = snap[t]
  BY <1>3, <1>4, <1>6, OneUpdated
<1>8. RotationTypes'
  BY <1>1, <1>2, <1>3, <1>6 DEF RotationTypes
<1>. QED BY <1>1, <1>2, <1>3, <1>4, <1>6, <1>7, <1>8 DEF QuietStep, LabelsMove

(* The deletion of marked snapshots, complete or cut short.                *)
LEMMA DeletionQuiet ==
  ASSUME RotationInv, UNCHANGED volume, DeleteSnapshots \/ CleanupRetried
  PROVE  RotationTypes' /\ QuietStep
<1>1. PICK part \in SUBSET Deletable : Changes(AfterDelete(part))
  BY DEF DeleteSnapshots, CleanupRetried
<1>2. /\ doubled' = doubled /\ job' \in {job, NoJob} /\ pc # "sync"
      /\ pc' \in {"deleteJobs", "mark"} /\ todo' \in {todo, OldPrevious}
  BY DEF DeleteSnapshots, CleanupRetried
<1>3. RotationTypes /\ LabelsMove
  BY DEF RotationInv
<1>4. \A s \in part : /\ s \in Snapshots /\ snap[s].label # "current"
                      /\ snap[s].state # "none" /\ snap[s].marked # FALSE
  BY Zenon DEF Deletable, Labelled, LabelledIn
<1>5. /\ AfterDelete(part) \in [Snapshots -> Snapshot]
      /\ \A s \in Snapshots : /\ AfterDelete(part)[s].label = snap[s].label
                              /\ s \in part => AfterDelete(part)[s].state = "deleting"
                              /\ s \notin part => AfterDelete(part)[s] = snap[s]
  <2>1. ASSUME NEW s \in Snapshots
        PROVE  /\ [snap[s] EXCEPT !.state = "deleting"] \in Snapshot
               /\ [snap[s] EXCEPT !.state = "deleting"].label = snap[s].label
               /\ [snap[s] EXCEPT !.state = "deleting"].state = "deleting"
               /\ snap[s] \in Snapshot
    BY <1>3 DEF RotationTypes, Snapshot
  <2>. QED BY <2>1 DEF AfterDelete
<1>6. /\ snap' = AfterDelete(part)
      /\ snap' \in [Snapshots -> Snapshot] /\ view' \in [Snapshots -> Snapshot]
      /\ \A t \in Snapshots : view'[t] = view[t] \/ view'[t] = snap'[t]
  BY <1>1, <1>3, <1>5, ChangesView
<1>7. RotationTypes'
  <2>1. job' \in [state : {"none", "running", "sent", "succeeded"}, failed : Nat,
                  data : Snapshots \cup {None}, base : Snapshots \cup {None},
                  target : Snapshots \cup {None}]
    BY <1>2, <1>3 DEF RotationTypes, NoJob
  <2>2. todo' \subseteq Snapshots
    BY <1>2, <1>3, OldArePrevious DEF RotationTypes
  <2>. QED BY <1>2, <1>3, <1>6, <2>1, <2>2 DEF RotationTypes
<1>. QED BY Zenon, <1>2, <1>3, <1>4, <1>5, <1>6, <1>7 DEF QuietStep, LabelsMove

(* The steps of the operator that leave the snapshots alone.               *)
LEMMA OtherQuiet ==
  ASSUME RotationInv, UNCHANGED <<snap, view, doubled, volume, todo>>, job' \in {job, NoJob},
         pc' \in {pc, "sync"} \/ (pc # "sync" /\ pc' \in {"deletePVCs", "deleteSnapshots"})
  PROVE  RotationTypes' /\ QuietStep
<1>1. job' \in [state : {"none", "running", "sent", "succeeded"}, failed : Nat,
                data : Snapshots \cup {None}, base : Snapshots \cup {None},
                target : Snapshots \cup {None}]
  BY DEF RotationInv, RotationTypes, NoJob
<1>2. RotationTypes'
  BY <1>1 DEF RotationInv, RotationTypes
<1>. QED BY <1>2 DEF QuietStep, RotationInv, LabelsMove

(* Relabel does nothing when the cache shows no current snapshot, and      *)
(* otherwise changes the label of one that the server has as current.      *)
LEMMA RelabelStep ==
  ASSUME RotationInv, Relabel, UNCHANGED volume
  PROVE  /\ pc = "mark" /\ pc' = "deletePVCs" /\ todo = {} /\ UNCHANGED <<doubled, job, todo>>
         /\ RotationTypes'
         /\ \/ UNCHANGED <<snap, view>>
            \/ \E s \in Snapshots :
                 /\ snap[s].label = "current" /\ view[s].label = "current"
                 /\ snap'[s].label = "previous" /\ snap'[s].state = snap[s].state
                 /\ snap'[s].marked = snap[s].marked
                 /\ \A t \in Snapshots \ {s} : snap'[t] = snap[t]
                 /\ \A t \in Snapshots : view'[t] = view[t] \/ view'[t] = snap'[t]
<1>1. /\ pc = "mark" /\ pc' = "deletePVCs" /\ todo = {} /\ UNCHANGED <<doubled, job, todo>>
  BY Zenon DEF Relabel, snapVars
<1>2. RotationTypes
  BY DEF RotationInv
<1>3. CASE UNCHANGED snapVars
  BY <1>1, <1>2, <1>3 DEF RotationTypes, snapVars
<1>4. CASE \E s \in Listed("current") :
             view[s] = snap[s] /\ Changes([snap EXCEPT ![s].label = "previous"])
  <2>1. PICK s \in Listed("current") :
          view[s] = snap[s] /\ Changes([snap EXCEPT ![s].label = "previous"])
    BY Zenon, <1>4
  <2>2. s \in Snapshots /\ snap[s].label = "current" /\ view[s].label = "current"
    BY <2>1, ListedLabel
  <2>. DEFINE r == [snap[s] EXCEPT !.label = "previous"]
  <2>3. /\ r \in Snapshot /\ r.label = "previous"
        /\ r.state = snap[s].state /\ r.marked = snap[s].marked
    BY <1>2, <2>2 DEF RotationTypes, Snapshot
  <2>4. Changes([snap EXCEPT ![s] = r])
    BY <2>1
  <2>. HIDE DEF r
  <2>5. /\ snap' = [snap EXCEPT ![s] = r]
        /\ snap' \in [Snapshots -> Snapshot] /\ view' \in [Snapshots -> Snapshot]
        /\ \A t \in Snapshots : view'[t] = view[t] \/ view'[t] = snap'[t]
    BY <1>2, <2>2, <2>3, <2>4, OneUpdated, ChangesView
  <2>6. snap'[s] = r /\ \A t \in Snapshots \ {s} : snap'[t] = snap[t]
    BY <1>2, <2>2, <2>3, <2>5, OneUpdated
  <2>7. RotationTypes'
    BY <1>1, <1>2, <2>5 DEF RotationTypes
  <2>. QED BY <1>1, <2>2, <2>3, <2>5, <2>6, <2>7
<1>. QED BY Zenon, <1>3, <1>4 DEF Relabel

(* A snapshot is relabelled only in Cleanup, so it has landed.             *)
LEMMA RelabelRotation ==
  ASSUME RotationInv, Relabel, UNCHANGED volume
  PROVE  RotationInv'
<1>1. /\ pc = "mark" /\ pc' = "deletePVCs" /\ todo = {} /\ UNCHANGED <<doubled, job, todo>>
      /\ RotationTypes'
  BY RelabelStep
<1>2. CASE UNCHANGED <<snap, view>>
  BY <1>1, <1>2, OtherQuiet, QuietRotation
<1>3. CASE \E s \in Snapshots :
             /\ snap[s].label = "current" /\ view[s].label = "current"
             /\ snap'[s].label = "previous" /\ snap'[s].state = snap[s].state
             /\ \A t \in Snapshots \ {s} : snap'[t] = snap[t]
             /\ \A t \in Snapshots : view'[t] = view[t] \/ view'[t] = snap'[t]
  <2>1. PICK s \in Snapshots :
          /\ snap[s].label = "current" /\ view[s].label = "current"
          /\ snap'[s].label = "previous" /\ snap'[s].state = snap[s].state
          /\ \A t \in Snapshots \ {s} : snap'[t] = snap[t]
          /\ \A t \in Snapshots : view'[t] = view[t] \/ view'[t] = snap'[t]
    BY <1>3
  <2>2. \A t \in Snapshots : IsOpen(t)' => IsOpen(t)
    BY <2>1 DEF IsOpen
  <2>3. LabelsMove'
    BY <1>1, <2>1 DEF LabelsMove, RotationInv
  <2>4. OneOpen'
    BY <1>1, <2>2 DEF OneOpen, RotationInv
  <2>5. ASSUME NEW t \in Snapshots \ doubled PROVE CycleOf(t)'
    <3>1. CycleOf(t) /\ Landed(t)' = Landed(t)
      BY DEF RotationInv, Landed
    <3>2. CASE t = s
      <4>1. Landed(s)
        BY <1>1, <2>1, <3>1, <3>2 DEF CycleOf, IsOpen
      <4>. QED BY <1>1, <2>1, <2>2, <3>1, <3>2, <4>1, NoneIsNoSnapshot
               DEF CycleOf, Landed
    <3>3. CASE t # s
      <4>1. snap'[t] = snap[t] /\ (view'[t] = view[t] \/ view'[t] = snap[t])
        BY <2>1, <3>3
      <4>. QED BY <1>1, <2>2, <3>1, <4>1 DEF CycleOf
    <3>. QED BY <3>2, <3>3
  <2>. QED BY <1>1, <2>3, <2>4, <2>5 DEF RotationInv, Landed
<1>. QED BY <1>2, <1>3, RelabelStep

(* A snapshot is created when the cache shows none that is current: any    *)
(* other that the server has becomes an exception together with it.        *)
LEMMA CreateSnapshotStep ==
  ASSUME RotationInv, CreateSnapshot, UNCHANGED volume
  PROVE  /\ RotationTypes' /\ pc = "sync" /\ UNCHANGED <<job, pc, todo>>
         /\ doubled \subseteq doubled'
         /\ \A t \in Snapshots : view[t].label # "current"
         /\ \A t \in Snapshots : view'[t] = view[t] \/ view'[t] = snap'[t]
         /\ \E s \in Snapshots :
              /\ snap[s].state = "none" /\ snap[s].label = "none" /\ view[s].label = "none"
              /\ \A t \in Snapshots : t < s => snap[t].state # "none"
              /\ s # job.target /\ s \notin volume.sent /\ s \notin todo
              /\ snap'[s].state = "pending" /\ snap'[s].label = "current"
              /\ snap'[s].marked = snap[s].marked
              /\ \A t \in Snapshots \ {s} :
                   /\ snap'[t] = snap[t]
                   /\ IsOpen(t)' \/ snap[t].label = "current" => t \in doubled' /\ s \in doubled'
<1>1. PICK s \in Snapshots :
        /\ snap[s].state = "none"
        /\ \A t \in Snapshots : t < s => snap[t].state # "none"
        /\ snap' = [snap EXCEPT ![s].state = "pending", ![s].label = "current"]
        /\ view' = IF MaxLag = 0 THEN snap' ELSE view
        /\ doubled' = IF Labelled("current") = {} THEN doubled
                      ELSE doubled \cup Labelled("current") \cup {s}
  BY Zenon DEF CreateSnapshot
<1>2. /\ pc = "sync" /\ Listed("current") = {} /\ UNCHANGED <<job, pc, todo, volume>>
  BY DEF CreateSnapshot
<1>3. RotationTypes /\ LabelsMove
  BY DEF RotationInv
<1>. DEFINE r == [snap[s] EXCEPT !.state = "pending", !.label = "current"]
<1>4. r \in Snapshot /\ r.label = "current" /\ r.state = "pending" /\ r.marked = snap[s].marked
  <2>1. snap[s] \in Snapshot
    BY <1>3 DEF RotationTypes
  <2>. QED BY Zenon, <2>1 DEF Snapshot
<1>5. snap' = [snap EXCEPT ![s] = r]
  BY Zenon, <1>1, <1>3 DEF RotationTypes, Snapshot
<1>. HIDE DEF r
<1>6. /\ snap' \in [Snapshots -> Snapshot] /\ snap'[s] = r
      /\ \A t \in Snapshots \ {s} : snap'[t] = snap[t]
  BY <1>3, <1>4, <1>5, OneUpdated
<1>7. /\ view' \in [Snapshots -> Snapshot]
      /\ \A t \in Snapshots : view'[t] = view[t] \/ view'[t] = snap'[t]
  BY <1>1, <1>3, <1>6 DEF RotationTypes
<1>8. /\ doubled' \subseteq Snapshots /\ doubled \subseteq doubled'
      /\ Labelled("current") # {} => s \in doubled'
      /\ Labelled("current") \subseteq doubled'
  BY <1>1, <1>3, ListedLabel DEF RotationTypes
<1>9. RotationTypes'
  BY <1>2, <1>3, <1>6, <1>7, <1>8 DEF RotationTypes
<1>10. \A t \in Snapshots : view[t].label # "current"
  BY <1>2, <1>3 DEF LabelsMove, Listed, LabelledIn
<1>11. \A t \in Snapshots : snap[t].label = "current" => t \in Labelled("current")
  BY <1>3 DEF LabelsMove, Labelled, LabelledIn
<1>12. \A t \in Snapshots \ {s} :
         IsOpen(t)' \/ snap[t].label = "current" => t \in doubled' /\ s \in doubled'
  BY <1>6, <1>7, <1>8, <1>10, <1>11 DEF IsOpen
<1>13. /\ snap[s].label = "none" /\ view[s].label = "none"
       /\ s # job.target /\ s \notin volume.sent /\ s \notin todo
  BY <1>1, <1>3 DEF LabelsMove
<1>. QED BY <1>1, <1>2, <1>4, <1>6, <1>7, <1>8, <1>9, <1>10, <1>12, <1>13

LEMMA CreateSnapshotRotation ==
  ASSUME RotationInv, CreateSnapshot, UNCHANGED volume
  PROVE  RotationInv'
<1>1. /\ RotationTypes' /\ pc = "sync" /\ UNCHANGED <<job, pc, todo, volume>>
      /\ doubled \subseteq doubled'
      /\ \A t \in Snapshots : view[t].label # "current"
      /\ \A t \in Snapshots : view'[t] = view[t] \/ view'[t] = snap'[t]
  BY CreateSnapshotStep
<1>2. PICK s \in Snapshots :
        /\ snap[s].state = "none" /\ view[s].label = "none"
        /\ s # job.target /\ s \notin volume.sent /\ s \notin todo
        /\ snap'[s].state = "pending" /\ snap'[s].label = "current"
        /\ \A t \in Snapshots \ {s} :
             /\ snap'[t] = snap[t]
             /\ IsOpen(t)' \/ snap[t].label = "current" => t \in doubled' /\ s \in doubled'
  BY CreateSnapshotStep
<1>3. LabelsMove'
  BY <1>1, <1>2 DEF RotationInv, LabelsMove
<1>4. OneOpen'
  BY <1>2 DEF OneOpen
<1>5. ASSUME NEW t \in Snapshots \ doubled' PROVE CycleOf(t)'
  <2>1. Landed(t)' = Landed(t) /\ CycleOf(t)
    BY <1>1 DEF RotationInv, Landed
  <2>2. CASE t = s
    BY <1>1, <1>2, <2>1, <2>2 DEF CycleOf
  <2>3. CASE t # s
    <3>1. ~IsOpen(t)' /\ snap'[t] = snap[t] /\ snap[t].label # "current"
      BY <1>2, <2>3
    <3>. QED BY <1>1, <2>1, <3>1 DEF CycleOf, IsOpen
  <2>. QED BY <2>2, <2>3
<1>. QED BY <1>1, <1>3, <1>4, <1>5 DEF RotationInv, Landed

(* A Job is given handles only in Synchronize, and its target is open.     *)
LEMMA HandlesOpen ==
  ASSUME NEW h \in Handles
  PROVE  /\ pc = "sync"
         /\ h.data \in Snapshots /\ h.base \in Snapshots \cup {None} /\ h.target \in Snapshots
         /\ view[h.target].label = "current" /\ IsOpen(h.target)
         /\ view[h.target].state \in {"ready", "deleting"}
<1>1. /\ h.data \in Listed("current") /\ h.base \in Bases /\ h.target \in Listed("current")
      /\ DataReady(h.data) /\ view[h.target].state # "pending"
  BY DEF Handles
<1>2. \A b \in Bases : b \in Snapshots \cup {None}
  BY ListedLabel DEF Bases
<1>3. \A s \in Listed("current") : view[s].state \in {"pending", "ready", "deleting"}
  BY DEF Listed, LabelledIn
<1>. QED BY <1>1, <1>2, <1>3, ListedLabel DEF DataReady, IsOpen

LEMMA CreateJobRotation ==
  ASSUME RotationInv, CreateJob, UNCHANGED volume
  PROVE  RotationInv'
<1>1. PICK h \in Handles :
        job' = [state |-> "running", failed |-> 0,
                data |-> h.data, base |-> h.base, target |-> h.target]
  BY DEF CreateJob
<1>2. UNCHANGED <<snap, view, doubled, pc, todo, volume>>
  BY DEF CreateJob, snapVars
<1>3. /\ pc = "sync" /\ h.target \in Snapshots /\ h.data \in Snapshots
      /\ view[h.target].label = "current" /\ IsOpen(h.target)
      /\ job'.target = h.target /\ job'.data = h.data /\ job'.state = "running"
  BY <1>1, HandlesOpen
<1>4. RotationTypes'
  <2>1. job' \in [state : {"none", "running", "sent", "succeeded"}, failed : Nat,
                  data : Snapshots \cup {None}, base : Snapshots \cup {None},
                  target : Snapshots \cup {None}]
    BY <1>1, HandlesOpen
  <2>. QED BY <1>2, <2>1 DEF RotationInv, RotationTypes
<1>5. LabelsMove'
  BY <1>2, <1>3 DEF RotationInv, LabelsMove
<1>6. OneOpen'
  BY <1>2 DEF RotationInv, OneOpen, IsOpen
<1>7. ASSUME NEW t \in Snapshots \ doubled PROVE CycleOf(t)'
  <2>1. CycleOf(t) /\ (Landed(t)' = Landed(t)) /\ (IsOpen(t)' = IsOpen(t))
    BY <1>2 DEF RotationInv, Landed, IsOpen
  <2>2. IsOpen(t) => t = h.target
    BY <1>3 DEF RotationInv, OneOpen
  <2>. QED BY <1>2, <1>3, <2>1, <2>2 DEF CycleOf, Landed
<1>. QED BY <1>2, <1>3, <1>4, <1>5, <1>6, <1>7 DEF RotationInv

(* A pod of the Job ends.                                                  *)
LEMMA PodEndsStep ==
  ASSUME RotationInv, PodRetried \/ PausePods \/ PodSucceeds, UNCHANGED volume
  PROVE  /\ UNCHANGED <<snap, view, doubled, pc, todo>> /\ RotationTypes'
         /\ job'.target = job.target /\ job'.data = job.data /\ job.state \in {"running", "sent"}
         /\ \/ job'.state = "running"
            \/ job.state = "sent" /\ job'.state = "succeeded"
<1>1. UNCHANGED <<snap, view, doubled, pc, todo, volume>>
  BY DEF PodRetried, PausePods, PodSucceeds, snapVars
<1>2. RotationTypes /\ job.failed + 1 \in Nat
  BY DEF RotationInv, RotationTypes
<1>3. CASE PodRetried
  BY Zenon, <1>1, <1>2, <1>3 DEF PodRetried, RotationTypes
<1>4. CASE PausePods \/ PodSucceeds
  BY <1>1, <1>2, <1>4 DEF PausePods, PodSucceeds, RotationTypes
<1>. QED BY <1>3, <1>4

LEMMA PodEndsRotation ==
  ASSUME RotationInv, PodRetried \/ PausePods \/ PodSucceeds, UNCHANGED volume
  PROVE  RotationInv'
<1>1. /\ UNCHANGED <<snap, view, doubled, pc, todo, volume>> /\ RotationTypes'
      /\ job'.target = job.target /\ job'.data = job.data /\ job.state \in {"running", "sent"}
      /\ \/ job'.state = "running"
         \/ job.state = "sent" /\ job'.state = "succeeded"
  BY PodEndsStep
<1>2. LabelsMove'
  BY <1>1 DEF RotationInv, LabelsMove
<1>3. OneOpen'
  BY <1>1 DEF RotationInv, OneOpen, IsOpen
<1>4. ASSUME NEW t \in Snapshots \ doubled PROVE CycleOf(t)'
  <2>1. CycleOf(t) /\ (Landed(t)' = Landed(t)) /\ (IsOpen(t)' = IsOpen(t))
    BY <1>1 DEF RotationInv, Landed, IsOpen
  <2>. QED BY <1>1, <2>1 DEF CycleOf
<1>5. /\ job'.target \in Snapshots /\ job'.data \in Snapshots /\ pc = "sync"
      /\ job'.state = "succeeded" => Landed(job.target)
  BY <1>1 DEF RotationInv
<1>. QED BY <1>1, <1>2, <1>3, <1>4, <1>5 DEF RotationInv, Landed

(* Cleanup starts when the target has landed, and nothing else is open.    *)
LEMMA SyncCompletesRotation ==
  ASSUME RotationInv, SyncCompletes, UNCHANGED volume
  PROVE  RotationInv'
<1>1. /\ UNCHANGED <<snap, view, doubled, job, volume>>
      /\ job.state = "succeeded" /\ pc' = "mark" /\ todo' = OldPrevious
  BY DEF SyncCompletes, snapVars
<1>2. IsOpen(job.target) /\ job.target \in Snapshots /\ Landed(job.target)
  <2>1. IsOpen(Given.target) /\ Given.target = job.target
    BY HandlesOpen DEF SyncCompletes, Given
  <2>. QED BY <1>1, <2>1 DEF RotationInv
<1>3. RotationTypes'
  BY <1>1, OldArePrevious DEF RotationInv, RotationTypes
<1>4. LabelsMove'
  BY <1>1, OldArePrevious DEF RotationInv, LabelsMove
<1>5. OneOpen'
  BY <1>1 DEF RotationInv, OneOpen, IsOpen
<1>6. ASSUME NEW t \in Snapshots \ doubled PROVE CycleOf(t)'
  <2>1. CycleOf(t) /\ (Landed(t)' = Landed(t)) /\ (IsOpen(t)' = IsOpen(t))
    BY <1>1 DEF RotationInv, Landed, IsOpen
  <2>2. IsOpen(t) => t = job.target
    BY <1>2 DEF RotationInv, OneOpen
  <2>. QED BY <1>1, <1>2, <2>1, <2>2 DEF CycleOf
<1>. QED BY <1>1, <1>2, <1>3, <1>4, <1>5, <1>6 DEF RotationInv, Landed

(* What the pods of a Job make of the volume.                              *)
LEMMA WrittenTypes ==
  ASSUME job.target \in Snapshots, job.data \in Snapshots
  PROVE  Written \subseteq Contents \cup {Unknown}
BY DataAssumption DEF Written

LEMMA PodWritesStep ==
  ASSUME volume \in Volume, job.target \in Snapshots, job.data \in Snapshots, PodWrites
  PROVE  /\ volume' \in Volume
         /\ volume'.at = volume.at /\ volume'.sent = volume.sent
         /\ volume'.strayed = volume.strayed
         /\ volume'.data \in {volume.data, Unknown} \cup Written
         /\ \/ volume.at = job.target /\ volume.partial = None /\ volume'.partial = None
            \/ /\ volume.at # job.target \/ volume.partial # None
               /\ volume'.partial = job.target
               /\ receiver = "ending" => volume'.data = Unknown
<1>. DEFINE again == volume.at = job.target /\ volume.partial = None
            part == IF again THEN None ELSE job.target
<1>1. PICK d \in {volume.data, Unknown} \cup Written :
        /\ volume' = [volume EXCEPT !.partial = part, !.data = d]
        /\ receiver = "ending" /\ ~again => d = Unknown
  BY Zenon DEF PodWrites
<1>2. /\ part \in Snapshots \cup {None}
      /\ again => part = None
      /\ ~again => part = job.target
  OBVIOUS
<1>. HIDE DEF part
<1>3. d \in Contents \cup {Unknown}
  BY WrittenTypes DEF Volume
<1>4. /\ volume' \in Volume /\ volume'.partial = part /\ volume'.data = d
      /\ volume'.at = volume.at /\ volume'.sent = volume.sent
      /\ volume'.strayed = volume.strayed
  BY <1>1, <1>2, <1>3, Zenon DEF Volume
<1>. QED BY <1>1, <1>2, <1>4, Zenon

LEMMA PodDoneStep ==
  ASSUME volume \in Volume, job.target \in Snapshots, job.data \in Snapshots, PodSendsDone
  PROVE  /\ volume' \in Volume
         /\ volume'.at = job.target /\ volume'.partial = None
         /\ volume'.sent = volume.sent \cup {job.target}
         /\ volume'.strayed = FALSE =>
              /\ volume.strayed = FALSE
              /\ job.base = None \/ volume.at \in {job.base, job.target}
         /\ \/ volume'.data \in Written \cup {Unknown}
            \/ ~Concerned /\ volume'.data = volume.data
<1>. DEFINE strays == \/ volume.strayed
                      \/ job.base # None /\ volume.at \notin {job.base, job.target}
<1>1. PICK d \in Written \cup {Unknown} \cup (IF Concerned THEN {} ELSE {volume.data}) :
        volume' = [at |-> job.target, partial |-> None,
                   sent |-> volume.sent \cup {job.target}, data |-> d, strayed |-> strays]
  BY Zenon DEF PodSendsDone
<1>2. d \in Contents \cup {Unknown}
  BY <1>1, WrittenTypes DEF Volume
<1>3. /\ strays \in BOOLEAN
      /\ strays = FALSE => /\ volume.strayed = FALSE
                           /\ job.base = None \/ volume.at \in {job.base, job.target}
  BY DEF Volume
<1>. HIDE DEF strays
<1>. QED BY <1>1, <1>2, <1>3 DEF Volume

(* While a Job runs, a snapshot the server has closed and the cache has    *)
(* not is its target.                                                      *)
LEMMA WritesRotation ==
  ASSUME RotationInv, PodWrites \/ PodSendsDone
  PROVE  RotationInv'
<1>1. /\ UNCHANGED <<snap, view, doubled, pc, todo>>
      /\ job.state = "running" /\ pc = "sync"
      /\ job.target \in Snapshots /\ job.data \in Snapshots
  BY Zenon DEF PodWrites, PodSendsDone, Connected, RotationInv, sourceVars, snapVars
<1>2. RotationTypes
  BY DEF RotationInv
<1>3. \A t \in Snapshots \ doubled :
        view[t].label = "current" /\ snap[t].label # "current" => t = job.target /\ Landed(t)
  BY <1>1 DEF RotationInv, CycleOf, IsOpen, Landed
<1>4. OneOpen'
  BY <1>1 DEF RotationInv, OneOpen, IsOpen
<1>5. CASE PodWrites
  <2>1. /\ volume' \in Volume /\ job' = job
        /\ volume'.at = volume.at /\ volume'.sent = volume.sent
        /\ \/ volume.at = job.target /\ volume.partial = None /\ volume'.partial = None
           \/ /\ volume.at # job.target \/ volume.partial # None
              /\ volume'.partial = job.target
    <3>1. job' = job /\ volume \in Volume
      BY <1>2, <1>5, Zenon DEF PodWrites, sourceVars, RotationTypes
    <3>. QED BY <1>1, <1>5, <3>1, PodWritesStep, Zenon
  <2>2. RotationTypes'
    BY <1>1, <1>2, <2>1 DEF RotationTypes
  <2>3. LabelsMove'
    BY <1>1, <2>1 DEF RotationInv, LabelsMove
  <2>4. ASSUME NEW t \in Snapshots \ doubled PROVE CycleOf(t)'
    <3>1. CycleOf(t) /\ (IsOpen(t)' = IsOpen(t))
      BY <1>1 DEF RotationInv, IsOpen
    <3>2. CASE volume.at = job.target /\ volume.partial = None /\ volume'.partial = None
      BY <1>1, <2>1, <3>1, <3>2 DEF CycleOf, Landed
    <3>3. CASE /\ volume.at # job.target \/ volume.partial # None
               /\ volume'.partial = job.target
      <4>1. view[t].label = "current" => snap[t].label = "current"
        BY <1>3, <3>3 DEF Landed
      <4>2. t = job.target => snap[t].label = "current"
        BY <1>1, <3>1, <3>3 DEF CycleOf
      <4>. QED BY <1>1, <2>1, <3>1, <3>3, <4>1, <4>2 DEF CycleOf
    <3>. QED BY <2>1, <3>2, <3>3
  <2>. QED BY <1>1, <1>4, <2>1, <2>2, <2>3, <2>4 DEF RotationInv
<1>6. CASE PodSendsDone
  <2>1. job' = [job EXCEPT !.state = "sent"]
    BY <1>6 DEF PodSendsDone
  <2>3. /\ volume' \in Volume /\ volume'.at = job.target /\ volume'.partial = None
        /\ volume'.sent = volume.sent \cup {job.target}
    BY <1>1, <1>2, <1>6, PodDoneStep DEF RotationTypes
  <2>4. /\ job' \in [state : {"none", "running", "sent", "succeeded"}, failed : Nat,
                     data : Snapshots \cup {None}, base : Snapshots \cup {None},
                     target : Snapshots \cup {None}]
        /\ job'.target = job.target /\ job'.data = job.data /\ job'.state = "sent"
    BY <1>2, <2>1 DEF RotationTypes
  <2>5. RotationTypes'
    BY <1>1, <1>2, <2>3, <2>4 DEF RotationTypes
  <2>6. LabelsMove'
    BY <1>1, <2>3, <2>4 DEF RotationInv, LabelsMove
  <2>7. ASSUME NEW t \in Snapshots \ doubled PROVE CycleOf(t)'
    <3>1. CycleOf(t) /\ (IsOpen(t)' = IsOpen(t))
      BY <1>1 DEF RotationInv, IsOpen
    <3>2. t = job.target => Landed(t)'
      BY <2>3 DEF Landed
    <3>. QED BY <1>1, <1>3, <2>3, <2>4, <3>1, <3>2, NoneIsNoSnapshot DEF CycleOf
  <2>. QED BY <1>1, <1>4, <2>3, <2>4, <2>5, <2>6, <2>7 DEF RotationInv, Landed
<1>. QED BY <1>5, <1>6, Zenon

(* The quiet steps of the operator and its cache.                          *)
LEMMA SourceQuiet ==
  ASSUME RotationInv, UNCHANGED volume,
         \/ CatchUp \/ SnapshotReady \/ SnapshotGone \/ CreatePVC \/ BindPVC \/ SourceIdle
         \/ ReplaceJob \/ DeleteFailedJob \/ MarkOld \/ DeletePVCs \/ DeleteSnapshots
         \/ DeleteJobs \/ CleanupRetried
  PROVE  RotationTypes' /\ QuietStep
<1>1. CASE CatchUp
  BY <1>1, CatchUpQuiet
<1>2. CASE SnapshotReady \/ SnapshotGone
  BY <1>2, StateQuiet
<1>3. CASE CreatePVC \/ BindPVC \/ SourceIdle
  BY <1>3, OtherQuiet DEF CreatePVC, BindPVC, SourceIdle, sourceVars, snapVars
<1>4. CASE ReplaceJob \/ DeleteFailedJob
  BY <1>4, OtherQuiet DEF ReplaceJob, DeleteFailedJob, snapVars
<1>5. CASE MarkOld
  BY <1>5, MarkOldQuiet
<1>6. CASE DeletePVCs \/ DeleteJobs
  BY <1>6, OtherQuiet DEF DeletePVCs, DeleteJobs, snapVars
<1>7. CASE DeleteSnapshots \/ CleanupRetried
  BY <1>7, DeletionQuiet
<1>. QED BY <1>1, <1>2, <1>3, <1>4, <1>5, <1>6, <1>7

LEMMA SourceRotation ==
  ASSUME RotationInv, SourceNext, UNCHANGED volume
  PROVE  RotationInv'
<1>1. CASE CreateSnapshot
  BY <1>1, CreateSnapshotRotation
<1>2. CASE CreateJob
  BY <1>2, CreateJobRotation
<1>3. CASE PausePods \/ PodSucceeds
  BY <1>3, PodEndsRotation
<1>4. CASE SyncCompletes
  BY <1>4, SyncCompletesRotation
<1>5. CASE Relabel
  BY <1>5, RelabelRotation
<1>. QED BY <1>1, <1>2, <1>3, <1>4, <1>5, SourceQuiet, QuietRotation DEF SourceNext

LEMMA RotationNext == RotationInv /\ [Next]_vars => RotationInv'
<1>. SUFFICES ASSUME RotationInv, [Next]_vars PROVE RotationInv'
  OBVIOUS
<1>1. CASE SourceOperates
  BY <1>1, SourceRotation DEF SourceOperates
<1>2. CASE DestinationOperates \/ UNCHANGED vars
  BY <1>2, OtherQuiet, QuietRotation DEF DestinationOperates, vars, sourceVars, snapVars
<1>3. CASE PodWrites \/ PodSendsDone
  BY <1>3, WritesRotation
<1>4. CASE PodFails
  BY <1>4, PodEndsRotation DEF PodFails
<1>. QED BY <1>1, <1>2, <1>3, <1>4 DEF Next

LEMMA RotationAlways == Spec => []RotationInv
BY RotationInit, RotationNext, PTL DEF Spec

(* transitionSnapshotStatuses gives the label "previous" only to what was  *)
(* transferred completely, whatever the lag of the cache, the number of    *)
(* retries of Cleanup and the order in which the objects are deleted.      *)
THEOREM PreviousIsComplete == Spec => []PreviousWasApplied
<1>1. RotationInv => PreviousWasApplied
  <2>1. RotationInv => \A s \in Labelled("previous") : s \in volume.sent \cup doubled
    BY ListedLabel DEF RotationInv, CycleOf
  <2>. QED BY <2>1 DEF PreviousWasApplied
<1>. QED BY <1>1, RotationAlways, PTL

(* A snapshot of which a part has reached the destination stays the        *)
(* current one: ensureJob never gives up a target before its Job           *)
(* succeeded.                                                              *)
THEOREM PartialKeepsTarget == Spec => []PartialIsResumed
<1>1. RotationInv => PartialIsResumed
  <2>1. ASSUME RotationInv, volume.partial # None
        PROVE  volume.partial \in Labelled("current") \cup doubled
    <3>1. volume.partial \in Snapshots
      BY <2>1 DEF RotationInv, RotationTypes, Volume
    <3>. QED BY <2>1, <3>1 DEF RotationInv, CycleOf, LabelsMove, Labelled, LabelledIn
  <2>. QED BY <2>1 DEF PartialIsResumed
<1>. QED BY <1>1, RotationAlways, PTL

------------------------------------------------------------------------------
(* The snapshot last sent.                                                 *)

LEMMA SyncedInit == Init => SyncedInv
<1>. SUFFICES ASSUME Init PROVE SyncedInv
  OBVIOUS
<1>1. \A s \in Snapshots : snap[s] = NoSnapshot /\ view[s] = NoSnapshot
  BY DEF Init, SourceInit
<1>2. /\ NoSnapshot.state = "none" /\ NoSnapshot.label = "none" /\ NoSnapshot.marked = FALSE
      /\ job.state = "none" /\ volume.at = None
  BY DEF NoSnapshot, Init, SourceInit, NoJob
<1>. QED BY <1>1, <1>2 DEF SyncedInv, Newest, IsOpen

(* Of the previous snapshots Cleanup keeps the newest, and that is the one *)
(* last sent whenever it is among them.                                    *)
LEMMA LastIsNotOld ==
  ASSUME RotationInv, SyncedInv, volume.at # None, volume.at \notin doubled
  PROVE  volume.at \notin OldPrevious
<1>. DEFINE P == Listed("previous")
<1>1. CASE volume.at \notin P
  BY <1>1 DEF OldPrevious
<1>2. CASE volume.at \in P
  <2>1. \A t \in P : t \in Nat /\ view[t].label = "previous" /\ t \in Snapshots
    BY ListedLabel, LifecycleAssumption DEF Snapshots
  <2>2. \A t \in P : volume.at >= t
    BY <1>2, <2>1 DEF SyncedInv
  <2>. HIDE DEF P
  <2>3. Max(P) \in P /\ \A t \in P : Max(P) >= t
    BY <1>2, <2>2 DEF Max
  <2>4. Max(P) = volume.at
    BY SMTT(20), <1>2, <2>1, <2>2, <2>3
  <2>. QED BY <2>4 DEF OldPrevious, P
<1>. QED BY <1>1, <1>2

LEMMA QuietSynced ==
  ASSUME RotationInv, SyncedInv, QuietStep
  PROVE  SyncedInv'
<1>. USE DEF QuietStep
<1>0. NoJob.state = "none"
  BY DEF NoJob
<1>1. \A s \in Snapshots : (Newest(s) => Newest(s)') /\ (IsOpen(s)' => IsOpen(s))
  BY DEF IsOpen, Newest
<1>2. ASSUME NEW s \in Snapshots
      PROVE  /\ snap'[s].state = "none" => snap'[s].marked = FALSE /\ Newest(s)'
             /\ view'[s].state \in {"ready", "deleting", "gone"} =>
                  snap'[s].state \notin {"none", "pending"}
             /\ snap'[s].label = "current" => snap'[s].marked = FALSE
             /\ IsOpen(s)' /\ s \notin doubled => Newest(s)'
  BY <1>1 DEF SyncedInv
<1>3. job'.state # "none" => snap'[job'.target].state \notin {"none", "pending"}
  BY SMTT(20), <1>0 DEF SyncedInv, RotationInv
<1>4. ASSUME volume.at # None, volume.at \notin doubled
      PROVE  /\ snap'[volume.at].state = "ready"
             /\ snap'[volume.at].marked = FALSE
             /\ snap'[volume.at].label # "none"
             /\ volume.at \notin todo'
             /\ pc' # "sync" => Newest(volume.at)'
             /\ \A t \in Snapshots : t > volume.at =>
                  snap'[t].label # "previous" /\ view'[t].label # "previous"
  <2>1. volume.at \in Snapshots
    BY <1>4 DEF RotationInv, RotationTypes, Volume
  <2>2. snap'[volume.at] = snap[volume.at] /\ volume.at \notin todo'
    BY ZenonT(30), <1>4, <2>1, LastIsNotOld DEF SyncedInv
  <2>3. pc' # "sync" => Newest(volume.at)'
    BY <1>1, <1>4, <2>1 DEF SyncedInv
  <2>4. ASSUME NEW t \in Snapshots, t > volume.at
        PROVE  snap'[t].label # "previous" /\ view'[t].label # "previous"
    <3>1. snap[t].label # "previous" /\ view[t].label # "previous"
      BY <1>4, <2>4 DEF SyncedInv
    <3>. QED BY <3>1
  <2>. QED BY <1>4, <2>2, <2>3, <2>4 DEF SyncedInv
<1>. QED BY Zenon, <1>2, <1>3, <1>4 DEF SyncedInv, Newest

(* What is relabelled is not newer than the snapshot last sent.            *)
LEMMA RelabelSynced ==
  ASSUME RotationInv, SyncedInv, Relabel, UNCHANGED volume
  PROVE  SyncedInv'
<1>1. /\ pc = "mark" /\ pc' = "deletePVCs" /\ todo = {} /\ UNCHANGED <<doubled, job, todo, volume>>
  BY RelabelStep
<1>2. CASE UNCHANGED <<snap, view>>
  BY <1>1, <1>2, OtherQuiet, QuietSynced
<1>3. CASE \E s \in Snapshots :
             /\ snap[s].label = "current" /\ view[s].label = "current"
             /\ snap'[s].label = "previous" /\ snap'[s].state = snap[s].state
             /\ snap'[s].marked = snap[s].marked
             /\ \A t \in Snapshots \ {s} : snap'[t] = snap[t]
             /\ \A t \in Snapshots : view'[t] = view[t] \/ view'[t] = snap'[t]
  <2>1. PICK s \in Snapshots :
          /\ snap[s].label = "current" /\ view[s].label = "current"
          /\ snap'[s].label = "previous" /\ snap'[s].state = snap[s].state
          /\ snap'[s].marked = snap[s].marked
          /\ \A t \in Snapshots \ {s} : snap'[t] = snap[t]
          /\ \A t \in Snapshots : view'[t] = view[t] \/ view'[t] = snap'[t]
    BY <1>3
  <2>2. \A t \in Snapshots : /\ snap'[t].state = snap[t].state
                             /\ snap'[t].label = "current" => snap[t].label = "current"
                             /\ IsOpen(t)' => IsOpen(t)
    BY <2>1 DEF IsOpen
  <2>7. \A t \in Snapshots : snap'[t].marked = snap[t].marked
    BY <2>1
  <2>3. \A t \in Snapshots : Newest(t) => Newest(t)'
    BY <2>2 DEF Newest
  <2>4. ASSUME NEW t \in Snapshots
        PROVE  /\ snap'[t].state = "none" => snap'[t].marked = FALSE /\ Newest(t)'
               /\ view'[t].state \in {"ready", "deleting", "gone"} =>
                    snap'[t].state \notin {"none", "pending"}
               /\ snap'[t].label = "current" => snap'[t].marked = FALSE
               /\ IsOpen(t)' /\ t \notin doubled => Newest(t)'
    BY <2>1, <2>2, <2>7, <2>3 DEF SyncedInv
  <2>5. job'.state # "none" => snap'[job'.target].state \notin {"none", "pending"}
    BY SMTT(20), <1>1, <2>2 DEF SyncedInv, RotationInv
  <2>6. ASSUME volume.at # None, volume.at \notin doubled
        PROVE  /\ snap'[volume.at].state = "ready"
               /\ snap'[volume.at].marked = FALSE
               /\ snap'[volume.at].label # "none"
               /\ Newest(volume.at)'
               /\ \A t \in Snapshots : t > volume.at =>
                    snap'[t].label # "previous" /\ view'[t].label # "previous"
    <3>1. volume.at \in Snapshots /\ Newest(volume.at)
      BY <1>1, <2>6 DEF RotationInv, RotationTypes, Volume, SyncedInv
    <3>2. ~(s > volume.at)
      BY <2>1, <3>1 DEF Newest, RotationInv, LabelsMove
    <3>3. \A t \in Snapshots : t > volume.at =>
            snap'[t].label # "previous" /\ view'[t].label # "previous"
      BY <2>1, <2>6, <3>2 DEF SyncedInv
    <3>4. snap'[volume.at].label # "none"
      BY SMTT(20), <2>1, <2>6, <3>1 DEF SyncedInv
    <3>. QED BY <2>2, <2>7, <2>3, <2>6, <3>1, <3>3, <3>4 DEF SyncedInv
  <2>. QED BY Zenon, <1>1, <2>4, <2>5, <2>6 DEF SyncedInv
<1>. QED BY <1>2, <1>3, RelabelStep

LEMMA CreateSnapshotSynced ==
  ASSUME RotationInv, SyncedInv, CreateSnapshot, UNCHANGED volume
  PROVE  SyncedInv'
<1>1. /\ pc = "sync" /\ UNCHANGED <<job, pc, todo, volume>> /\ doubled \subseteq doubled'
      /\ \A t \in Snapshots : view'[t] = view[t] \/ view'[t] = snap'[t]
  BY CreateSnapshotStep
<1>2. PICK s \in Snapshots :
        /\ snap[s].state = "none" /\ snap[s].label = "none" /\ view[s].label = "none"
        /\ \A t \in Snapshots : t < s => snap[t].state # "none"
        /\ s # job.target
        /\ snap'[s].state = "pending" /\ snap'[s].label = "current"
        /\ snap'[s].marked = snap[s].marked
        /\ \A t \in Snapshots \ {s} :
             /\ snap'[t] = snap[t]
             /\ IsOpen(t)' \/ snap[t].label = "current" => t \in doubled' /\ s \in doubled'
  BY CreateSnapshotStep
<1>3. \A t \in Snapshots : snap[t].state = "none" => t >= s
  BY <1>2, LifecycleAssumption DEF Snapshots
<1>4. \A t \in Snapshots : Newest(t) /\ t >= s => Newest(t)'
  BY <1>2, LifecycleAssumption DEF Newest, Snapshots
<1>5. ASSUME NEW t \in Snapshots
      PROVE  /\ snap'[t].state = "none" => snap'[t].marked = FALSE /\ Newest(t)'
             /\ view'[t].state \in {"ready", "deleting", "gone"} =>
                  snap'[t].state \notin {"none", "pending"}
             /\ snap'[t].label = "current" => snap'[t].marked = FALSE
             /\ IsOpen(t)' /\ t \notin doubled' => Newest(t)'
  <2>1. CASE t = s
    <3>1. snap[s].marked = FALSE /\ Newest(s)
      BY <1>2 DEF SyncedInv
    <3>2. Newest(s)'
      BY <1>2, <1>4, <3>1, LifecycleAssumption DEF Snapshots
    <3>3. view'[s].state \notin {"ready", "deleting", "gone"}
      BY <1>1, <1>2 DEF SyncedInv
    <3>. QED BY <1>2, <2>1, <3>1, <3>2, <3>3
  <2>2. CASE t # s
    <3>1. snap'[t] = snap[t] /\ (view'[t] = view[t] \/ view'[t] = snap[t])
      BY <1>1, <1>2, <2>2
    <3>. QED BY <1>2, <1>3, <1>4, <2>2, <3>1 DEF SyncedInv
  <2>. QED BY Zenon, <2>1, <2>2
<1>6. job'.state # "none" => snap'[job'.target].state \notin {"none", "pending"}
  BY <1>1, <1>2 DEF SyncedInv, RotationInv
<1>7. ASSUME volume.at # None, volume.at \notin doubled'
      PROVE  /\ snap'[volume.at] = snap[volume.at] /\ volume.at \notin doubled
             /\ \A t \in Snapshots : t > volume.at =>
                  snap'[t].label # "previous" /\ view'[t].label # "previous"
  <2>1. volume.at \in Snapshots /\ volume.at \notin doubled /\ snap[volume.at].state = "ready"
    BY <1>1, <1>7 DEF RotationInv, RotationTypes, Volume, SyncedInv
  <2>2. \A t \in Snapshots : t > volume.at =>
          snap[t].label # "previous" /\ view[t].label # "previous"
    BY <1>7, <2>1 DEF SyncedInv
  <2>3. snap'[volume.at] = snap[volume.at]
    BY <1>2, <2>1
  <2>4. \A t \in Snapshots : t > volume.at =>
          snap'[t].label # "previous" /\ view'[t].label # "previous"
    BY <1>1, <1>2, <2>2
  <2>. QED BY Zenon, <2>1, <2>3, <2>4
<1>. QED BY Zenon, <1>1, <1>5, <1>6, <1>7 DEF SyncedInv

(* The remaining steps change no snapshot: a Job gets a target that is     *)
(* ready, a pod of it ends, or Cleanup begins.                             *)
LEMMA JobSynced ==
  ASSUME RotationInv, SyncedInv, UNCHANGED volume,
         CreateJob \/ PodRetried \/ PausePods \/ PodSucceeds \/ SyncCompletes
  PROVE  SyncedInv'
<1>1. UNCHANGED <<snap, view, doubled, volume>>
  BY DEF CreateJob, PodRetried, PausePods, PodSucceeds, SyncCompletes, snapVars
<1>2. \A s : (Newest(s)' <=> Newest(s)) /\ (IsOpen(s)' <=> IsOpen(s))
  BY <1>1 DEF Newest, IsOpen
<1>3. job'.state # "none" => snap[job'.target].state \notin {"none", "pending"}
  <2>1. CASE CreateJob
    <3>1. PICK h \in Handles : job'.target = h.target
      BY <2>1 DEF CreateJob
    <3>. QED BY <3>1, HandlesOpen DEF SyncedInv
  <2>2. CASE PodRetried \/ PausePods \/ PodSucceeds
    BY <2>2, PodEndsStep DEF SyncedInv
  <2>3. CASE SyncCompletes
    BY <2>3 DEF SyncCompletes, SyncedInv
  <2>. QED BY Zenon, <2>1, <2>2, <2>3
<1>4. ASSUME volume.at # None, volume.at \notin doubled
      PROVE  volume.at \notin todo' /\ (pc' # "sync" => Newest(volume.at))
  <2>1. CASE UNCHANGED <<pc, todo>>
    BY <1>4, <2>1 DEF SyncedInv
  <2>2. CASE SyncCompletes
    <3>1. Given \in Handles /\ Given.target = job.target /\ job.state = "succeeded"
      BY <2>2 DEF SyncCompletes, Given
    <3>2. IsOpen(volume.at) /\ volume.at \in Snapshots
      BY <3>1, HandlesOpen DEF RotationInv, Landed
    <3>. QED BY ZenonT(30), <1>4, <2>2, <3>2, LastIsNotOld DEF SyncCompletes, SyncedInv
  <2>. QED BY Zenon, <2>1, <2>2 DEF CreateJob, PodRetried, PausePods, PodSucceeds
<1>. QED BY <1>1, <1>2, <1>3, <1>4 DEF SyncedInv

(* What is sent is the current snapshot, which is newer than all others,   *)
(* or once more the snapshot last sent.                                    *)
LEMMA WritesSynced ==
  ASSUME RotationInv, SyncedInv, PodWrites \/ PodSendsDone
  PROVE  SyncedInv'
<1>1. /\ UNCHANGED <<snap, view, doubled, pc, todo>>
      /\ job.state = "running" /\ pc = "sync" /\ job.target \in Snapshots
      /\ job'.target = job.target
  BY Zenon DEF PodWrites, PodSendsDone, Connected, RotationInv, RotationTypes, sourceVars, snapVars
<1>2. \A s : (Newest(s)' <=> Newest(s)) /\ (IsOpen(s)' <=> IsOpen(s))
  BY <1>1 DEF Newest, IsOpen
<1>3. snap[job.target].state \notin {"none", "pending"}
  BY <1>1 DEF SyncedInv
<1>4. CASE volume'.at = volume.at
  BY <1>1, <1>2, <1>3, <1>4 DEF SyncedInv
<1>5. CASE volume'.at # volume.at
  <2>1. volume'.at = job.target
    <3>1. volume \in Volume /\ job.data \in Snapshots
      BY <1>1 DEF RotationInv, RotationTypes
    <3>. QED BY <1>1, <1>5, <3>1, PodWritesStep, PodDoneStep, Zenon
  <2>. DEFINE s == job.target
  <2>2. ASSUME s \notin doubled
        PROVE  /\ snap[s].state = "ready" /\ snap[s].marked = FALSE /\ snap[s].label # "none"
               /\ s \notin todo
               /\ \A t \in Snapshots : t > s =>
                    snap[t].label # "previous" /\ view[t].label # "previous"
    <3>1. snap[s].label = "current"
      BY <1>1, <1>5, <2>1, <2>2 DEF RotationInv, CycleOf
    <3>2. Newest(s)
      BY <1>1, <2>2, <3>1 DEF SyncedInv, IsOpen
    <3>3. \A t \in Snapshots : t > s => snap[t].label # "previous" /\ view[t].label # "previous"
      BY <3>2 DEF Newest, RotationInv, LabelsMove
    <3>. QED BY <1>1, <1>3, <3>1, <3>3 DEF RotationInv, LabelsMove, SyncedInv
  <2>. QED BY ZenonT(30), <1>1, <1>2, <1>3, <2>1, <2>2 DEF SyncedInv
<1>. QED BY <1>4, <1>5, Zenon

LEMMA SyncedNext == RotationInv /\ SyncedInv /\ [Next]_vars => SyncedInv'
<1>. SUFFICES ASSUME RotationInv, SyncedInv, [Next]_vars PROVE SyncedInv'
  OBVIOUS
<1>1. CASE SourceOperates
  <2>0. SourceNext /\ UNCHANGED volume
    BY <1>1 DEF SourceOperates
  <2>1. CASE CreateSnapshot
    BY <2>0, <2>1, CreateSnapshotSynced
  <2>2. CASE CreateJob \/ PausePods \/ PodSucceeds \/ SyncCompletes
    BY <2>0, <2>2, JobSynced
  <2>3. CASE Relabel
    BY <2>0, <2>3, RelabelSynced
  <2>. QED BY <2>0, <2>1, <2>2, <2>3, SourceQuiet, QuietSynced DEF SourceNext
<1>2. CASE DestinationOperates \/ UNCHANGED vars
  BY <1>2, OtherQuiet, QuietSynced DEF DestinationOperates, vars, sourceVars, snapVars
<1>3. CASE PodWrites \/ PodSendsDone
  BY <1>3, WritesSynced
<1>4. CASE PodFails
  BY <1>4, JobSynced DEF PodFails
<1>. QED BY <1>1, <1>2, <1>3, <1>4 DEF Next

LEMMA SyncedAlways == Spec => []SyncedInv
BY RotationAlways, SyncedInit, SyncedNext, PTL DEF Spec

(* Cleanup never marks or deletes the snapshot that was last sent, nor     *)
(* takes its label, however often it is cut short and repeated and however *)
(* old the cache is: getVolumeEnvVars finds the base of the next diff.     *)
THEOREM BaseIsNeverLost == Spec => []LastSyncedKept
<1>1. SyncedInv => LastSyncedKept
  BY DEF SyncedInv, LastSyncedKept
<1>. QED BY <1>1, SyncedAlways, PTL

------------------------------------------------------------------------------
(* The published image.                                                    *)

(* Every step keeps the exceptions and the handles of a Job that it does   *)
(* not create, and only a pod changes the volume.                          *)
HandlesKept ==
    /\ doubled \subseteq doubled'
    /\ \/ CreateJob
       \/ job'.state = "none"
       \/ /\ job.state # "none"
          /\ job'.data = job.data /\ job'.target = job.target
    /\ PodWrites \/ PodSendsDone \/ UNCHANGED volume

LEMMA NextKeepsHandles ==
  ASSUME RotationInv, [Next]_vars
  PROVE  HandlesKept
<1>0. NoJob.state = "none"
  BY DEF NoJob
<1>1. ASSUME QuietStep PROVE HandlesKept
  BY <1>0, <1>1 DEF QuietStep, HandlesKept
<1>2. ASSUME PodRetried \/ PausePods \/ PodSucceeds, UNCHANGED volume PROVE HandlesKept
  <2>1. /\ doubled' = doubled /\ job.state # "none"
        /\ job'.data = job.data /\ job'.target = job.target
    BY <1>2, PodEndsStep
  <2>. QED BY <1>2, <2>1 DEF HandlesKept
<1>3. CASE SourceOperates
  <2>0. SourceNext /\ UNCHANGED volume
    BY <1>3 DEF SourceOperates
  <2>1. CASE CreateSnapshot
    <3>1. doubled \subseteq doubled' /\ job' = job
      BY <2>0, <2>1, CreateSnapshotStep
    <3>. QED BY <2>0, <3>1 DEF HandlesKept
  <2>2. CASE CreateJob
    BY <2>0, <2>2 DEF CreateJob, HandlesKept, snapVars
  <2>3. CASE SyncCompletes
    BY <2>0, <2>3 DEF SyncCompletes, HandlesKept, snapVars
  <2>4. CASE Relabel
    <3>1. UNCHANGED <<doubled, job>>
      BY <2>0, <2>4, RelabelStep
    <3>. QED BY <2>0, <3>1 DEF HandlesKept
  <2>. QED BY <1>1, <1>2, <2>0, <2>1, <2>2, <2>3, <2>4, SourceQuiet DEF SourceNext
<1>4. CASE DestinationOperates \/ UNCHANGED vars
  BY <1>4, Zenon DEF DestinationOperates, vars, sourceVars, snapVars, HandlesKept
<1>5. CASE PodWrites
  BY <1>5, Zenon DEF PodWrites, sourceVars, snapVars, HandlesKept
<1>6. CASE PodSendsDone
  <2>1. /\ UNCHANGED doubled /\ job.state = "running"
        /\ job' = [job EXCEPT !.state = "sent"]
    BY <1>6 DEF PodSendsDone, Connected, snapVars
  <2>2. job'.data = job.data /\ job'.target = job.target
    BY <2>1 DEF RotationInv, RotationTypes
  <2>. QED BY <1>6, <2>1, <2>2 DEF HandlesKept
<1>7. CASE PodFails
  BY <1>2, <1>7 DEF PodFails
<1>. QED BY <1>3, <1>4, <1>5, <1>6, <1>7 DEF Next

(* A new Job reads the PVC of its target, when no two snapshots were       *)
(* current together.                                                       *)
LEMMA HandlesMatch ==
  ASSUME RotationInv, doubled = {}, NEW h \in Handles
  PROVE  h.data = h.target
<1>1. h.data \in Listed("current") /\ h.target \in Listed("current")
  BY DEF Handles
<1>2. /\ h.data \in Snapshots /\ h.target \in Snapshots
      /\ IsOpen(h.data) /\ IsOpen(h.target)
  BY <1>1, ListedLabel DEF IsOpen
<1>. QED BY <1>2 DEF RotationInv, OneOpen

(* What is half written is the target of the Job that runs.                *)
LEMMA PartialIsTarget ==
  ASSUME RotationInv, doubled = {}, job.state = "running"
  PROVE  volume.partial \in {None, job.target}
<1>. SUFFICES ASSUME volume.partial # None PROVE volume.partial = job.target
  OBVIOUS
<1>1. volume.partial \in Snapshots /\ job.target \in Snapshots
  BY DEF RotationInv, RotationTypes, Volume
<1>2. snap[volume.partial].label = "current" /\ snap[job.target].label = "current"
  BY <1>1 DEF RotationInv, CycleOf
<1>. QED BY <1>1, <1>2 DEF RotationInv, OneOpen, IsOpen

(* While the volume is written, the place keeps its contents or gets those *)
(* of the target.                                                          *)
LEMMA WritesContents ==
  ASSUME RotationInv, ContentsInv, doubled = {}, PodWrites,
         volume'.at # None, volume'.strayed = FALSE
  PROVE  \/ volume'.data \in {Data[volume'.at], Unknown}
         \/ volume'.partial # None /\ volume'.data = Data[volume'.partial]
<1>1. /\ job.state = "running" /\ volume \in Volume
      /\ job.target \in Snapshots /\ job.data \in Snapshots /\ job.data = job.target
  BY DEF PodWrites, Connected, RotationInv, RotationTypes, ContentsInv
<1>2. /\ volume'.at = volume.at /\ volume'.strayed = volume.strayed
      /\ volume'.data \in {volume.data, Unknown} \cup Written
      /\ \/ volume.at = job.target /\ volume.partial = None /\ volume'.partial = None
         \/ volume'.partial = job.target
  BY <1>1, PodWritesStep
<1>3. Written \subseteq {Data[job.target], Unknown}
  BY <1>1 DEF Written
<1>4. \/ volume.data \in {Data[volume.at], Unknown}
      \/ volume.partial = job.target /\ volume.data = Data[job.target]
  BY <1>1, <1>2, PartialIsTarget DEF ContentsInv
<1>. QED BY <1>1, <1>2, <1>3, <1>4, NoneIsNoSnapshot

(* With Done it has the contents of the target: a diff leaves it out only  *)
(* when its base and its target agree there, and one of them is what the   *)
(* volume held.                                                            *)
LEMMA DoneContents ==
  ASSUME RotationInv, ContentsInv, doubled = {}, PodSendsDone, volume'.strayed = FALSE
  PROVE  volume'.data \in {Data[volume'.at], Unknown}
<1>1. /\ job.state = "running" /\ volume \in Volume
      /\ job.target \in Snapshots /\ job.data \in Snapshots /\ job.data = job.target
  BY DEF PodSendsDone, Connected, RotationInv, RotationTypes, ContentsInv
<1>2. /\ volume'.at = job.target /\ volume.strayed = FALSE
      /\ job.base = None \/ volume.at \in {job.base, job.target}
      /\ \/ volume'.data \in Written \cup {Unknown}
         \/ ~Concerned /\ volume'.data = volume.data
  BY <1>1, PodDoneStep, Zenon
<1>3. Written \subseteq {Data[job.target], Unknown}
  BY <1>1 DEF Written
<1>4. ASSUME ~Concerned PROVE volume.data \in {Data[job.target], Unknown}
  <2>1. /\ job.base # None /\ Data[job.base] = Data[job.target]
        /\ volume.at # None /\ Data[volume.at] = Data[job.target]
    BY <1>1, <1>2, <1>4, NoneIsNoSnapshot DEF Concerned
  <2>2. \/ volume.data \in {Data[volume.at], Unknown}
        \/ volume.partial = job.target /\ volume.data = Data[volume.partial]
    BY <1>1, <1>2, <2>1, PartialIsTarget DEF ContentsInv
  <2>. QED BY <2>1, <2>2
<1>. QED BY <1>2, <1>3, <1>4

LEMMA ContentsInit == Init => ContentsInv
BY DEF Init, SourceInit, NoJob, ContentsInv

LEMMA ContentsNext == RotationInv /\ ContentsInv /\ [Next]_vars => ContentsInv'
<1>. SUFFICES ASSUME RotationInv, ContentsInv, [Next]_vars, doubled' = {}
              PROVE  /\ job'.state # "none" => job'.data = job'.target
                     /\ volume'.at # None /\ volume'.strayed = FALSE =>
                          \/ volume'.data \in {Data[volume'.at], Unknown}
                          \/ volume'.partial # None /\ volume'.data = Data[volume'.partial]
  BY Zenon DEF ContentsInv
<1>1. HandlesKept
  BY NextKeepsHandles
<1>2. doubled = {}
  BY <1>1 DEF HandlesKept
<1>3. ASSUME job'.state # "none" PROVE job'.data = job'.target
  <2>1. CASE CreateJob
    <3>1. PICK h \in Handles : job' = [state |-> "running", failed |-> 0,
                                       data |-> h.data, base |-> h.base, target |-> h.target]
      BY <2>1 DEF CreateJob
    <3>. QED BY <1>2, <3>1, HandlesMatch
  <2>2. CASE ~CreateJob
    BY <1>1, <1>2, <1>3, <2>2 DEF HandlesKept, ContentsInv
  <2>. QED BY <2>1, <2>2
<1>4. ASSUME volume'.at # None, volume'.strayed = FALSE
      PROVE  \/ volume'.data \in {Data[volume'.at], Unknown}
             \/ volume'.partial # None /\ volume'.data = Data[volume'.partial]
  <2>1. CASE PodWrites
    BY <1>2, <1>4, <2>1, WritesContents, Zenon
  <2>2. CASE PodSendsDone
    BY <1>2, <1>4, <2>2, DoneContents, Zenon
  <2>3. CASE UNCHANGED volume
    BY <1>2, <1>4, <2>3 DEF ContentsInv
  <2>. QED BY <1>1, <2>1, <2>2, <2>3 DEF HandlesKept
<1>. QED BY <1>3, <1>4, Zenon

LEMMA ContentsAlways == Spec => []ContentsInv
BY RotationAlways, ContentsInit, ContentsNext, PTL DEF Spec

LEMMA NoneIsNoImage == NoImage \notin Images
BY ImageAssumption DEF NoImage, Images

LEMMA ImagesInit == Init => ImageInv
<1>. SUFFICES ASSUME Init PROVE ImageInv
  OBVIOUS
<1>1. \A i \in Images : image[i] = [state |-> "none", marked |-> FALSE, whole |-> FALSE]
  BY DEF Init, ImageInit
<1>2. image \in [Images -> Image]
  BY DEF Init, ImageInit, Image
<1>. QED BY <1>1, <1>2 DEF Init, ImageInit, ImageInv

(* What is cut once the Job has succeeded is a whole snapshot.             *)
LEMMA CutIsWhole ==
  ASSUME ContentsInv, ImageInv, receiver = "succeeded", doubled = {}, volume.strayed = FALSE
  PROVE  Whole
BY DEF ImageInv, ContentsInv, Whole

(* The image of this cycle is cut.                                         *)
LEMMA CutKeeps ==
  ASSUME ContentsInv, ImageInv, CutImage(Whole), UNCHANGED <<volume, doubled>>
  PROVE  ImageInv'
<1>1. /\ receiver = "succeeded" /\ named # NoImage /\ image[named].state = "none"
      /\ image' = [image EXCEPT ![named].state = "ready", ![named].whole = Whole]
      /\ UNCHANGED <<receiver, named, latest, step>>
  BY DEF CutImage
<1>2. named \in Images /\ image[named] \in Image /\ image \in [Images -> Image]
  BY <1>1 DEF ImageInv
<1>3. Whole \in BOOLEAN /\ (doubled = {} /\ volume.strayed = FALSE => Whole)
  BY <1>1, CutIsWhole, Zenon DEF Whole
<1>. DEFINE r == [image[named] EXCEPT !.state = "ready", !.whole = Whole]
<1>4. /\ r \in Image /\ r.state = "ready" /\ r.whole = Whole
      /\ r.marked = image[named].marked
  BY Zenon, <1>2, <1>3 DEF Image
<1>5. image' = [image EXCEPT ![named] = r]
  BY Zenon, <1>1, <1>2 DEF Image
<1>. HIDE DEF r
<1>6. /\ image' \in [Images -> Image] /\ image'[named] = r
      /\ \A i \in Images \ {named} : image'[i] = image[i]
  BY <1>2, <1>4, <1>5
<1>7. \A i \in Images :
        /\ image'[i].state = "none" => image'[i].marked = FALSE
        /\ image'[i].state = "ready" /\ doubled = {} /\ volume.strayed = FALSE =>
             image'[i].whole = TRUE
  BY <1>3, <1>4, <1>6 DEF ImageInv
<1>8. latest # NoImage => latest \in Images /\ latest # named
  BY <1>1 DEF ImageInv
<1>9. named # NoImage => image'[named].state \in {"none", "ready"} /\ image'[named].marked = FALSE
  BY <1>1, <1>4, <1>6 DEF ImageInv
<1>10. latest # NoImage => image'[latest] = image[latest]
  BY <1>6, <1>8
<1>. QED BY <1>1, <1>6, <1>7, <1>9, <1>10 DEF ImageInv

(* The old image is marked while the new one is ready.                     *)
LEMMA MarkKeeps ==
  ASSUME ImageInv, MarkOldImage, UNCHANGED <<volume, doubled>>
  PROVE  ImageInv'
<1>1. /\ step = "sync" /\ named # NoImage /\ latest \notin {NoImage, named}
      /\ image' = [image EXCEPT ![latest].marked = TRUE]
      /\ UNCHANGED <<receiver, named, latest, step>>
  BY DEF MarkOldImage, ImageReady
<1>2. /\ named \in Images /\ latest \in Images /\ image[latest].state = "ready"
      /\ image \in [Images -> Image]
  BY <1>1 DEF ImageInv
<1>. DEFINE r == [image[latest] EXCEPT !.marked = TRUE]
<1>3. /\ r \in Image /\ r.state = "ready" /\ r.whole = image[latest].whole
  BY Zenon, <1>2 DEF Image
<1>4. image' = [image EXCEPT ![latest] = r]
  BY <1>1
<1>. HIDE DEF r
<1>5. /\ image' \in [Images -> Image] /\ image'[latest] = r
      /\ \A i \in Images \ {latest} : image'[i] = image[i]
  BY <1>2, <1>3, <1>4
<1>6. \A i \in Images :
        /\ image'[i].state = "none" => image'[i].marked = FALSE
        /\ image'[i].state = "ready" /\ doubled = {} /\ volume.strayed = FALSE =>
             image'[i].whole = TRUE
  BY <1>2, <1>3, <1>5 DEF ImageInv
<1>7. image'[named] = image[named]
  BY <1>1, <1>2, <1>5
<1>. QED BY <1>1, <1>3, <1>5, <1>6, <1>7 DEF ImageInv

(* The images that Cleanup deletes are not the published one.              *)
LEMMA DeleteKeeps ==
  ASSUME ImageInv, DeleteMarked, UNCHANGED <<volume, doubled>>
  PROVE  ImageInv'
<1>1. /\ step = "delete" /\ image' = WithoutMarked /\ UNCHANGED <<named, latest>>
      /\ receiver' \in {receiver, "none"} /\ step' \in {"sync", "unname"}
  BY DEF DeleteMarked
<1>2. image \in [Images -> Image]
  BY DEF ImageInv
<1>3. ASSUME NEW i \in Images
      PROVE  /\ WithoutMarked[i] \in Image
             /\ image[i].marked = FALSE => WithoutMarked[i] = image[i]
             /\ WithoutMarked[i].state = "gone" \/ WithoutMarked[i] = image[i]
  <2>1. /\ [image[i] EXCEPT !.state = "gone"] \in Image
        /\ [image[i] EXCEPT !.state = "gone"].state = "gone"
    BY <1>2 DEF Image
  <2>. QED BY <1>2, <2>1 DEF WithoutMarked
<1>4. image' \in [Images -> Image]
  BY Zenon, <1>1, <1>3 DEF WithoutMarked
<1>5. \A i \in Images :
        /\ image'[i].state = "none" => image'[i].marked = FALSE
        /\ image'[i].state = "ready" /\ doubled = {} /\ volume.strayed = FALSE =>
             image'[i].whole = TRUE
  BY Zenon, <1>1, <1>3 DEF ImageInv
<1>6. named # NoImage => image'[named] = image[named]
  BY Zenon, <1>1, <1>3 DEF ImageInv
<1>7. latest # NoImage => image[latest].marked = FALSE /\ image'[latest] = image[latest]
  <2>1. latest # NoImage => latest \in Images /\ image[latest].marked \in BOOLEAN
    BY <1>2 DEF ImageInv, Image
  <2>. QED BY Zenon, <1>1, <1>3, <2>1 DEF ImageInv
<1>. QED BY <1>1, <1>4, <1>5, <1>6, <1>7 DEF ImageInv

(* The steps of the destination that leave the images alone.               *)
LEMMA NameKeeps ==
  ASSUME ImageInv, UNCHANGED <<volume, doubled>>,
         \/ StartReceiver \/ DeleteReceiver \/ ReceiverEnds \/ NameImage
         \/ PublishImage \/ UnnameImage
  PROVE  ImageInv'
<1>1. CASE StartReceiver \/ DeleteReceiver \/ ReceiverEnds
  BY <1>1 DEF StartReceiver, DeleteReceiver, ReceiverEnds, ImageInv
<1>2. CASE NameImage
  BY <1>2, NoneIsNoImage DEF NameImage, ImageInv
<1>3. CASE PublishImage
  BY <1>3 DEF PublishImage, ImageReady, ImageInv
<1>4. CASE UnnameImage
  BY <1>4 DEF UnnameImage, ImageInv
<1>. QED BY <1>1, <1>2, <1>3, <1>4

(* What the source and its pods do to the volume: after Done, all that is  *)
(* written of another snapshot makes the place unknown.                    *)
LEMMA SourceKeepsImages ==
  ASSUME RotationInv, ImageInv, UNCHANGED <<image, named, latest, step>>,
         doubled \subseteq doubled',
         \/ UNCHANGED <<receiver, volume>>
         \/ PodWrites /\ UNCHANGED receiver
         \/ PodSendsDone
  PROVE  ImageInv'
<1>1. receiver' \in {"none", "serving", "ending", "succeeded"}
  BY Zenon DEF ImageInv, PodSendsDone
<1>2. PodWrites \/ PodSendsDone =>
        /\ job.state = "running" /\ volume \in Volume
        /\ job.target \in Snapshots /\ job.data \in Snapshots
  BY Zenon DEF PodWrites, PodSendsDone, Connected, RotationInv, RotationTypes
<1>3. /\ receiver' \in {"ending", "succeeded"} =>
           volume'.at # None /\ (volume'.partial = None \/ volume'.data = Unknown)
      /\ volume'.strayed = FALSE => volume.strayed = FALSE
  <2>1. CASE UNCHANGED <<receiver, volume>>
    BY <2>1 DEF ImageInv
  <2>2. CASE PodWrites /\ UNCHANGED receiver
    <3>1. receiver \in {"serving", "ending"}
      BY <2>2, Zenon DEF PodWrites, Connected
    <3>. QED BY <1>2, <2>2, <3>1, PodWritesStep DEF ImageInv
  <2>3. CASE PodSendsDone
    BY <1>2, <2>3, PodDoneStep, NoneIsNoSnapshot, Zenon
  <2>. QED BY <2>1, <2>2, <2>3, Zenon
<1>. QED BY <1>1, <1>3 DEF ImageInv

LEMMA ImageStep == RotationInv /\ ContentsInv /\ ImageInv /\ [Next]_vars => ImageInv'
<1>. SUFFICES ASSUME RotationInv, ContentsInv, ImageInv, [Next]_vars PROVE ImageInv'
  OBVIOUS
<1>1. doubled \subseteq doubled'
  BY NextKeepsHandles DEF HandlesKept
<1>2. CASE DestinationOperates
  <2>1. ImageNext /\ UNCHANGED <<volume, doubled>>
    BY <1>2 DEF DestinationOperates, sourceVars, snapVars
  <2>. QED BY <2>1, CutKeeps, MarkKeeps, DeleteKeeps, NameKeeps DEF ImageNext
<1>3. CASE SourceOperates \/ PodFails \/ UNCHANGED vars
  BY <1>1, <1>3, SourceKeepsImages DEF SourceOperates, PodFails, imageVars, vars
<1>4. CASE PodWrites \/ PodSendsDone
  BY <1>1, <1>4, SourceKeepsImages, Zenon DEF PodWrites, PodSendsDone, imageVars
<1>. QED BY <1>2, <1>3, <1>4 DEF Next

LEMMA ImageAlways == Spec => []ImageInv
BY RotationAlways, ContentsAlways, ImagesInit, ImageStep, PTL DEF Spec

(* The image in status.latestImage exists until another is recorded, and   *)
(* has at any place of the volume the contents of the snapshot that was    *)
(* sent last: for any history of the place, any number of cycles and       *)
(* images, Cleanups repeated on either side, answers to Done that were     *)
(* lost, sources that come before the destination has ended, and a cache   *)
(* of any age, with the exceptions that LatestImageWhole names.            *)
THEOREM PublishedIsWhole == Spec => []LatestImageWhole
<1>1. ImageInv => LatestImageWhole
  BY DEF ImageInv, LatestImageWhole
<1>. QED BY <1>1, ImageAlways, PTL

------------------------------------------------------------------------------
(* The types.                                                              *)

LEMMA BoundsNext == RotationInv /\ BoundsInv /\ [Next]_vars => BoundsInv'
<1>. SUFFICES ASSUME RotationInv, BoundsInv, [Next]_vars PROVE BoundsInv'
  OBVIOUS
<1>1. BackoffLimit \in Nat /\ NoJob.failed = 0 /\ job.failed \in Nat
  BY LifecycleAssumption DEF NoJob, RotationInv, RotationTypes
<1>2. ASSUME job' \in {job, NoJob}, UNCHANGED pvc PROVE BoundsInv'
  BY <1>1, <1>2 DEF BoundsInv
<1>3. ASSUME PodRetried \/ PausePods \/ PodSucceeds PROVE BoundsInv'
  <2>1. UNCHANGED pvc
    BY <1>3 DEF PodRetried, PausePods, PodSucceeds
  <2>2. job'.failed = job.failed \/ (job.failed <= BackoffLimit /\ job'.failed = job.failed + 1)
    BY Zenon, <1>3 DEF PodRetried, PausePods, PodSucceeds, RotationInv, RotationTypes
  <2>. QED BY <1>1, <2>1, <2>2 DEF BoundsInv
<1>4. CASE SourceOperates
  <2>0. SourceNext
    BY <1>4 DEF SourceOperates
  <2>1. CASE CatchUp \/ CreateSnapshot \/ SnapshotReady \/ SnapshotGone \/ SourceIdle
    BY <1>2, <2>1 DEF CatchUp, CreateSnapshot, SnapshotReady, SnapshotGone, SourceIdle, sourceVars
  <2>2. CASE CreatePVC \/ BindPVC \/ DeletePVCs
    BY <2>2 DEF CreatePVC, BindPVC, DeletePVCs, BoundsInv
  <2>3. CASE CreateJob
    BY <1>1, <2>3 DEF CreateJob, BoundsInv
  <2>4. CASE ReplaceJob \/ DeleteFailedJob \/ DeleteJobs \/ CleanupRetried
    BY <1>2, <2>4 DEF ReplaceJob, DeleteFailedJob, DeleteJobs, CleanupRetried
  <2>5. CASE SyncCompletes \/ MarkOld \/ Relabel \/ DeleteSnapshots
    BY <1>2, <2>5, Zenon DEF SyncCompletes, MarkOld, Relabel, DeleteSnapshots
  <2>. QED BY <1>3, <2>0, <2>1, <2>2, <2>3, <2>4, <2>5 DEF SourceNext
<1>5. CASE DestinationOperates \/ PodWrites \/ UNCHANGED vars
  BY <1>2, <1>5, Zenon DEF DestinationOperates, PodWrites, vars, sourceVars
<1>6. CASE PodSendsDone
  <2>1. job'.failed = job.failed /\ UNCHANGED pvc
    BY <1>6 DEF PodSendsDone, RotationInv, RotationTypes
  <2>. QED BY <2>1 DEF BoundsInv
<1>7. CASE PodFails
  BY <1>3, <1>7 DEF PodFails
<1>. QED BY <1>4, <1>5, <1>6, <1>7 DEF Next

(* The types of the objects of both operators, with the limit on the pods  *)
(* a Job may lose.                                                         *)
THEOREM LifecycleTypes == Spec => []TypeOK
<1>1. Init => BoundsInv
  BY LifecycleAssumption DEF Init, SourceInit, BoundsInv, NoJob
<1>2. RotationInv /\ ImageInv /\ BoundsInv => TypeOK
  <2>. SUFFICES ASSUME RotationInv, ImageInv, BoundsInv PROVE TypeOK
    OBVIOUS
  <2>1. job.failed \in 0 .. (BackoffLimit + 1)
    BY LifecycleAssumption DEF BoundsInv, RotationInv, RotationTypes
  <2>2. job \in [state : {"none", "running", "sent", "succeeded"},
                 failed : 0 .. (BackoffLimit + 1), data : Snapshots \cup {None},
                 base : Snapshots \cup {None}, target : Snapshots \cup {None}]
    BY <2>1 DEF RotationInv, RotationTypes
  <2>3. SourceTypeOK
    BY <2>2 DEF SourceTypeOK, BoundsInv, RotationInv, RotationTypes, Snapshot
  <2>. QED BY <2>3 DEF TypeOK, ImageInv, RotationInv, RotationTypes
<1>. QED BY <1>1, <1>2, BoundsNext, RotationAlways, ImageAlways, PTL DEF Spec
=============================================================================
