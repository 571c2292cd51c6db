------------------------------ MODULE Backups ------------------------------
(***************************************************************************)
(* Logical backups of one PostgreSQL resource and restores into another    *)
(* one: Cloud's rows (cloud/internal/backup, cloud/internal/restore), the  *)
(* Agent that dumps, uploads, inspects and restores (agent/internal/backup *)
(* and restore, cloudrunner), and the object store.  The Agent works on    *)
(* one lease at a time; a report it gave up on may still reach Cloud.      *)
(***************************************************************************)
EXTENDS Naturals

CONSTANTS
  BackupIds,    \* backups, one per idempotency key
  ReviewIds,    \* restore reviews
  RestoreIds,   \* restores, one per idempotency key
  MaxContents,  \* bound: versions of the source's data
  MaxChanges,   \* bound: updates of the source's or the target's spec
  MaxTokens,    \* bound: leases
  MaxUpsets     \* bound: crashes, lost reports and failed steps

VARIABLES
  source,     \* the source resource: ready, spec, and its data's version
  target,     \* the target resource, its binding, and what its database holds
  backup,     \* backups
  object,     \* the object store: content per backup (0 absent)
  review,     \* restore_reviews
  restore,    \* restores
  worker,     \* the lease the Agent works on and its result
  delayed,    \* a report on its way after the Agent gave up
  tally       \* leases and upsets so far

backupVars ==
  <<source, target, backup, object, review, restore, worker, delayed, tally>>

ActiveBackup == {"queued", "leased", "running"}
ActiveRestore == {"queued", "leased", "running", "verifying"}
NoBackup == [state |-> "absent", spec |-> 0, sha |-> 0, token |-> 0,
             expired |-> FALSE]
NoReview == [state |-> "absent", of |-> "none", spec |-> 0, token |-> 0,
             expired |-> FALSE]
NoRestore == [state |-> "absent", of |-> "none", review |-> "none",
              spec |-> 0, token |-> 0, expired |-> FALSE]
NoJob == [kind |-> "none", id |-> "none", token |-> 0, phase |-> "idle",
          content |-> 0, status |-> "none"]

Init ==
  /\ source = [ready |-> TRUE, spec |-> 1, data |-> 1, changing |-> FALSE]
  /\ target = [ready |-> TRUE, spec |-> 1, changing |-> FALSE,
               binding |-> "none", foreign |-> FALSE, loads |-> 0,
               content |-> 0]
  /\ backup = [b \in BackupIds |-> NoBackup]
  /\ object = [b \in BackupIds |-> 0]
  /\ review = [v \in ReviewIds |-> NoReview]
  /\ restore = [r \in RestoreIds |-> NoRestore]
  /\ worker = NoJob
  /\ delayed = NoJob
  /\ tally = [tokens |-> 0, upsets |-> 0]

Upset == /\ tally.upsets < MaxUpsets
         /\ tally' = [tally EXCEPT !.upsets = @ + 1]
Token == tally.tokens + 1
NewToken == /\ tally.tokens < MaxTokens
            /\ tally' = [tally EXCEPT !.tokens = @ + 1]
Claimable(x, states) == x.state = "queued" \/ (x.state \in states /\ x.expired)
Work(kind, id) ==
  worker' = [NoJob EXCEPT !.kind = kind, !.id = id, !.token = Token,
                          !.phase = "leased"]

HasActive(resource) ==
  IF resource = "source"
    THEN \E b \in BackupIds : backup[b].state \in ActiveBackup
    ELSE \E r \in RestoreIds : restore[r].state \in ActiveRestore

----------------------------------------------------------------------------
(* The resources around them *)

AppWrites ==
  /\ source.data < MaxContents
  /\ source' = [source EXCEPT !.data = @ + 1]
  /\ UNCHANGED <<target, backup, object, review, restore, worker, delayed,
                 tally>>

(* An update of a resource checks for active operations, and writes later. *)
BeginSourceUpdate ==
  /\ source.spec + target.spec < MaxChanges + 2
  /\ ~source.changing /\ ~HasActive("source")
  /\ source' = [source EXCEPT !.changing = TRUE]
  /\ UNCHANGED <<target, backup, object, review, restore, worker, delayed,
                 tally>>

BeginTargetUpdate ==
  /\ source.spec + target.spec < MaxChanges + 2
  /\ ~target.changing /\ ~HasActive("target")
  /\ target' = [target EXCEPT !.changing = TRUE]
  /\ UNCHANGED <<source, backup, object, review, restore, worker, delayed,
                 tally>>

WriteResource ==
  /\ \/ /\ source.changing
        /\ source' = [source EXCEPT !.changing = FALSE, !.spec = @ + 1,
                                    !.ready = FALSE]
        /\ UNCHANGED target
     \/ /\ target.changing
        /\ target' = [target EXCEPT !.changing = FALSE, !.spec = @ + 1,
                                    !.ready = FALSE]
        /\ UNCHANGED source
  /\ UNCHANGED <<backup, object, review, restore, worker, delayed, tally>>

(* The Agent applies the new spec between two other leases.                *)
ApplyResource ==
  /\ worker = NoJob
  /\ source' = [source EXCEPT !.ready = TRUE]
  /\ target' = [target EXCEPT !.ready = TRUE]
  /\ <<source, target>>' # <<source, target>>
  /\ UNCHANGED <<backup, object, review, restore, worker, delayed, tally>>

(* CreateBinding to the target: the same check, then the insert.           *)
ReadBinding ==
  /\ target.binding = "none" /\ target.ready /\ ~HasActive("target")
  /\ target' = [target EXCEPT !.binding = "checked"]
  /\ UNCHANGED <<source, backup, object, review, restore, worker, delayed,
                 tally>>

WriteBinding ==
  /\ target.binding = "checked"
  /\ target' = [target EXCEPT !.binding = "bound"]
  /\ UNCHANGED <<source, backup, object, review, restore, worker, delayed,
                 tally>>

AppUsesTarget ==
  /\ target.binding = "bound" /\ ~target.foreign
  /\ target' = [target EXCEPT !.foreign = TRUE]
  /\ UNCHANGED <<source, backup, object, review, restore, worker, delayed,
                 tally>>

Pristine == ~target.foreign /\ target.loads = 0

----------------------------------------------------------------------------
(* Backups *)

(* Service.Create: ready, and one active backup per resource.              *)
CreateBackup(b) ==
  /\ backup[b] = NoBackup
  /\ source.ready /\ ~HasActive("source")
  /\ backup' = [backup EXCEPT ![b].state = "queued", ![b].spec = source.spec]
  /\ UNCHANGED <<source, target, object, review, restore, worker, delayed,
                 tally>>

(* Service.Lease: the claim, and a failure when the authority changed.     *)
LeaseBackup(b) ==
  /\ worker = NoJob /\ NewToken
  /\ Claimable(backup[b], {"leased", "running"})
  /\ IF source.ready /\ source.spec = backup[b].spec
       THEN /\ backup' = [backup EXCEPT ![b].state = "leased",
                            ![b].token = Token, ![b].expired = FALSE]
            /\ Work("backup", b)
       ELSE /\ backup' = [backup EXCEPT ![b].state = "failed", ![b].token = 0]
            /\ UNCHANGED worker
  /\ UNCHANGED <<source, target, object, review, restore, delayed>>

(* Executor.Execute: pg_dump into a file ...                               *)
Dump ==
  /\ worker.kind = "backup" /\ worker.phase = "started"
  /\ worker' = [worker EXCEPT !.phase = "dumped", !.content = source.data]
  /\ UNCHANGED <<source, target, backup, object, review, restore, delayed,
                 tally>>

(* ... and the upload under the backup's own key; a failed step removes    *)
(* the object again, or tries to.                                          *)
Upload ==
  LET b == worker.id
  IN /\ worker.kind = "backup" /\ worker.phase = "dumped"
     /\ \/ /\ object' = [object EXCEPT ![b] = worker.content]
           /\ worker' = [worker EXCEPT !.phase = "done",
                                       !.status = "succeeded"]
           /\ UNCHANGED tally
        \/ /\ Upset
           /\ \E left \in {0, object[b], worker.content} :
                object' = [object EXCEPT ![b] = left]
           /\ worker' = [worker EXCEPT !.phase = "done", !.status = "failed"]
     /\ UNCHANGED <<source, target, backup, review, restore, delayed>>

(* Service.Complete: the row after a report, unchanged where it is         *)
(* refused.                                                                *)
CompleteBackup(m) ==
  LET b == backup[m.id]
  IN IF b.token # m.token \/ b.state = "succeeded" THEN b
     ELSE IF m.phase = "leased"
       THEN IF b.state \in {"leased", "running"}
              THEN [b EXCEPT !.state = "running", !.expired = FALSE] ELSE b
     ELSE IF b.state # "running" THEN b
     ELSE [b EXCEPT !.state = m.status, !.token = 0, !.expired = FALSE,
                    !.sha = IF m.status = "succeeded" THEN m.content ELSE @]

----------------------------------------------------------------------------
(* Restore reviews and restores *)

validateTarget(b) ==
  /\ backup[b].state = "succeeded"
  /\ target.ready
  /\ target.binding # "bound"

(* Service.Review *)
Review(v, b) ==
  /\ review[v] = NoReview
  /\ validateTarget(b)
  /\ review' = [review EXCEPT ![v].state = "queued", ![v].of = b,
                              ![v].spec = target.spec]
  /\ UNCHANGED <<source, target, backup, object, restore, worker, delayed,
                 tally>>

staleTarget(v) == ~target.ready \/ target.spec # review[v].spec

LeaseReview(v) ==
  /\ worker = NoJob /\ NewToken
  /\ Claimable(review[v], {"leased"})
  /\ IF staleTarget(v)
       THEN /\ review' = [review EXCEPT ![v].state = "failed", ![v].token = 0]
            /\ UNCHANGED worker
       ELSE /\ review' = [review EXCEPT ![v].state = "leased",
                            ![v].token = Token, ![v].expired = FALSE]
            /\ Work("review", v)
  /\ UNCHANGED <<source, target, backup, object, restore, delayed>>

(* Executor.Review: the database must hold nothing.                        *)
Inspect ==
  /\ worker.kind = "review" /\ worker.phase = "leased"
  /\ \/ /\ worker' = [worker EXCEPT !.phase = "done",
            !.status = IF Pristine THEN "succeeded" ELSE "failed"]
        /\ UNCHANGED tally
     \/ /\ Upset
        /\ worker' = [worker EXCEPT !.phase = "done", !.status = "failed"]
  /\ UNCHANGED <<source, target, backup, object, review, restore, delayed>>

CompleteReview(m) ==
  IF review[m.id].token = m.token
    THEN [review[m.id] EXCEPT !.state = m.status, !.token = 0,
                              !.expired = FALSE]
    ELSE review[m.id]

(* Service.Create: a succeeded review that still fits, and one active      *)
(* restore per target.                                                     *)
CreateRestore(r, v) ==
  /\ restore[r] = NoRestore
  /\ review[v].state = "succeeded" /\ ~staleTarget(v)
  /\ validateTarget(review[v].of)
  /\ ~HasActive("target")
  /\ restore' = [restore EXCEPT ![r].state = "queued", ![r].review = v,
                   ![r].of = review[v].of, ![r].spec = target.spec]
  /\ UNCHANGED <<source, target, backup, object, review, worker, delayed,
                 tally>>

LeaseRestore(r) ==
  /\ worker = NoJob /\ NewToken
  /\ Claimable(restore[r], {"leased", "running", "verifying"})
  /\ IF validateTarget(restore[r].of) /\ ~staleTarget(restore[r].review)
       THEN /\ restore' = [restore EXCEPT ![r].state = "leased",
                             ![r].token = Token, ![r].expired = FALSE]
            /\ Work("restore", r)
       ELSE /\ restore' = [restore EXCEPT ![r].state = "failed",
                                          ![r].token = 0]
            /\ UNCHANGED worker
  /\ UNCHANGED <<source, target, backup, object, review, delayed>>

(* Faulty variant: the target is not inspected again before the load.      *)
FetchWithoutInspection ==
  LET b == restore[worker.id].of
      intact == object[b] # 0 /\ object[b] = backup[b].sha
  IN /\ worker.kind = "restore" /\ worker.phase = "started"
     /\ worker' = [worker EXCEPT !.content = object[b],
          !.phase = IF intact THEN "checked" ELSE "done",
          !.status = IF intact THEN @ ELSE "failed"]
     /\ UNCHANGED <<source, target, backup, object, review, restore, delayed,
                    tally>>

(* Executor.Execute: the artifact is downloaded and compared with the      *)
(* backup's checksum, then the target must still be as reviewed ...        *)
Fetch ==
  LET b == restore[worker.id].of
      intact == object[b] # 0 /\ object[b] = backup[b].sha
  IN /\ worker.kind = "restore" /\ worker.phase = "started"
     /\ worker' = [worker EXCEPT !.content = object[b],
          !.phase = IF intact /\ Pristine THEN "checked" ELSE "done",
          !.status = IF intact /\ Pristine THEN @ ELSE "failed"]
     /\ UNCHANGED <<source, target, backup, object, review, restore, delayed,
                    tally>>

(* ... and pg_restore runs in one transaction.  A failed call may have     *)
(* committed: the target's state is then reported as unknown.              *)
Load ==
  /\ worker.kind = "restore" /\ worker.phase = "checked"
  /\ \/ /\ target' = [target EXCEPT !.loads = @ + 1,
                                    !.content = worker.content]
        /\ worker' = [worker EXCEPT !.phase = "done", !.status = "succeeded"]
        /\ UNCHANGED tally
     \/ /\ Upset
        /\ target' \in {target, [target EXCEPT !.loads = @ + 1,
                                               !.content = worker.content]}
        /\ worker' = [worker EXCEPT !.phase = "done", !.status = "failed"]
  /\ UNCHANGED <<source, backup, object, review, restore, delayed>>

(* Service.Complete: a success is stored as verifying and then as          *)
(* succeeded; stopped tells that Cloud stopped between the two.            *)
CompleteRestore(m, stopped) ==
  LET r == restore[m.id]
  IN IF r.token # m.token \/ r.state = "succeeded" THEN r
     ELSE IF m.phase = "leased"
       THEN IF r.state \in {"leased", "running"}
              THEN [r EXCEPT !.state = "running", !.expired = FALSE] ELSE r
     ELSE IF r.state # "running" THEN r
     ELSE IF stopped /\ m.status = "succeeded"
       THEN [r EXCEPT !.state = "verifying"]
     ELSE [r EXCEPT !.state = m.status, !.token = 0, !.expired = FALSE]

----------------------------------------------------------------------------
(* Reports *)

(* What Cloud stores for a report of any kind.                             *)
Report(m, stopped) ==
  \/ /\ m.kind = "backup"
     /\ backup' = [backup EXCEPT ![m.id] = CompleteBackup(m)]
     /\ UNCHANGED <<review, restore>>
  \/ /\ m.kind = "review"
     /\ review' = [review EXCEPT ![m.id] = CompleteReview(m)]
     /\ UNCHANGED <<backup, restore>>
  \/ /\ m.kind = "restore"
     /\ restore' = [restore EXCEPT ![m.id] = CompleteRestore(m, stopped)]
     /\ UNCHANGED <<backup, review>>

(* handleBackup and handleRestore report running before they execute; a    *)
(* refusal ends the work.                                                  *)
StartWork ==
  /\ worker.kind \in {"backup", "restore"} /\ worker.phase = "leased"
  /\ Report(worker, FALSE)
  /\ LET row == IF worker.kind = "backup" THEN backup'[worker.id]
                                          ELSE restore'[worker.id]
     IN worker' = IF row.state = "running" /\ row.token = worker.token
                    THEN [worker EXCEPT !.phase = "started"] ELSE NoJob
  /\ UNCHANGED <<source, target, object, delayed, tally>>

FinishWork ==
  /\ worker.phase = "done"
  /\ \/ Report(worker, FALSE) /\ UNCHANGED tally
     \/ Report(worker, TRUE) /\ worker.kind = "restore" /\ Upset
  /\ worker' = NoJob
  /\ UNCHANGED <<source, target, object, delayed>>

(* The Agent restarts, or its reports fail; the last one may be delayed.   *)
DropJob ==
  /\ Upset
  /\ worker # NoJob
  /\ worker' = NoJob
  /\ delayed' \in {delayed} \cup (IF worker.phase = "done" THEN {worker}
                                                           ELSE {})
  /\ UNCHANGED <<source, target, backup, object, review, restore>>

DeliverDelayed ==
  /\ delayed # NoJob
  /\ Report(delayed, FALSE)
  /\ delayed' = NoJob
  /\ UNCHANGED <<source, target, object, worker, tally>>

(* A lease nobody renews runs out.                                         *)
Expire(x) == x.token # 0 /\ x.token # worker.token /\ ~x.expired

ExpireLease ==
  /\ \/ \E b \in BackupIds : /\ Expire(backup[b])
                             /\ backup' = [backup EXCEPT ![b].expired = TRUE]
                             /\ UNCHANGED <<review, restore>>
     \/ \E v \in ReviewIds : /\ Expire(review[v])
                             /\ review' = [review EXCEPT ![v].expired = TRUE]
                             /\ UNCHANGED <<backup, restore>>
     \/ \E r \in RestoreIds :
          /\ Expire(restore[r])
          /\ restore' = [restore EXCEPT ![r].expired = TRUE]
          /\ UNCHANGED <<backup, review>>
  /\ UNCHANGED <<source, target, object, worker, delayed, tally>>

----------------------------------------------------------------------------
Surroundings ==
  \/ AppWrites \/ BeginSourceUpdate \/ BeginTargetUpdate \/ WriteResource \/ ApplyResource
  \/ ReadBinding \/ WriteBinding \/ AppUsesTarget

BackupSteps ==
  \/ \E b \in BackupIds : CreateBackup(b) \/ LeaseBackup(b)
  \/ Dump \/ Upload

RestoreSteps ==
  \/ \E v \in ReviewIds : LeaseReview(v) \/ \E b \in BackupIds : Review(v, b)
  \/ \E r \in RestoreIds :
       LeaseRestore(r) \/ \E v \in ReviewIds : CreateRestore(r, v)
  \/ Inspect \/ Fetch \/ Load

ReportSteps ==
  \/ StartWork \/ FinishWork \/ DropJob \/ DeliverDelayed \/ ExpireLease

Next == Surroundings \/ BackupSteps \/ RestoreSteps \/ ReportSteps

Spec == Init /\ [][Next]_backupVars

----------------------------------------------------------------------------
(* Rows hold the lifecycles the code writes, and a lease has a token.      *)
BackupTypeOK ==
  /\ \A b \in BackupIds :
       /\ backup[b].state \in ActiveBackup \cup {"absent", "succeeded",
                                                 "failed"}
       /\ backup[b].state \in {"leased", "running"} <=> backup[b].token # 0
  /\ \A v \in ReviewIds :
       review[v].state \in {"absent", "queued", "leased", "succeeded",
                            "failed"}
  /\ \A r \in RestoreIds :
       /\ restore[r].state \in ActiveRestore \cup {"absent", "succeeded",
                                                   "failed"}
       /\ restore[r].state \in {"leased", "running", "verifying"}
            <=> restore[r].token # 0

(* The object of a succeeded backup holds what its checksum says, whatever *)
(* earlier attempts left, removed or report late.                          *)
SucceededBackupIsIntact ==
  \A b \in BackupIds :
    backup[b].state = "succeeded" =>
      backup[b].sha # 0 /\ object[b] = backup[b].sha

(* No two restores, and no two attempts of one, load the target: whoever   *)
(* comes second finds it no longer pristine.  A succeeded restore loaded   *)
(* it with its backup's content (restore/executor.go Execute, Complete).   *)
RestoreIsFaithful ==
  /\ target.loads <= 1
  /\ \A r \in RestoreIds :
       restore[r].state = "succeeded" =>
         target.loads = 1 /\ target.content = backup[restore[r].of].sha
=============================================================================
