------------------------------ MODULE Delivery ------------------------------
(***************************************************************************)
(* delivery.py: apply_export, its previews, its restore path and its       *)
(* receipt, against a checkout that people edit.  The checkout carries no  *)
(* lock of its own, so Requests may overlap.                               *)
(*                                                                         *)
(* The bytes of a file are a token; a lock is the release it names, since  *)
(* its file list is computed from that release.  Left out: the text of the *)
(* generated TypeScript, target path validation, byte sizes.               *)
(***************************************************************************)
EXTENDS Integers, Sequences, FiniteSets, Functions

CONSTANTS Requests, Paths, LockPath, Releases, Content,
          Files,         \* Files[r]: the paths of release r in the order they are written
          Absent, UserBytes, Unreadable, NoRelease,
          MaxApplies,    \* bound: calls of apply_export
          MaxEdits,      \* bound: edits by people
          MaxCrashes,    \* bound: deaths of the server process
          MaxFaults,     \* bound: file operations of an apply that fail
          MaxLosses,     \* bound: receipts, rows and backups that cannot be written back
          EditsInFlight  \* whether people edit while an apply is running

ASSUME DeliveryAssumption ==
    /\ LockPath \notin Paths
    /\ \A r \in Releases :
          /\ DOMAIN Content[r] \subseteq Paths
          /\ Range(Content[r]) \cap {Absent, UserBytes} = {}
          /\ Files[r] \in Seq(Paths) /\ IsInjective(Files[r])
          /\ Range(Files[r]) = DOMAIN Content[r]
    /\ Absent # UserBytes /\ Absent # Unreadable
    /\ {Absent, UserBytes, Unreadable, NoRelease} \cap Releases = {}

VARIABLES disk,       \* the checkout
          damaged,    \* releases whose manifest or blobs no longer hash
          req,        \* the apply_export calls
          deliveries, \* Delivery rows and receipts: <<release, status, stored>>
          count       \* applies, edits, crashes, faults: the bounds

vars == <<disk, damaged, req, deliveries, count>>

AllPaths == Paths \cup {LockPath}
Bytes == (UNION {Range(Content[r]) : r \in Releases})
             \cup Releases \cup {Absent, UserBytes, Unreadable}

\* An apply that is not running.
Idle == [pc |-> "idle", release |-> NoRelease, from |-> NoRelease, prev |-> NoRelease,
         old |-> {}, backup |-> <<>>, created |-> {}, todo |-> <<>>, kept |-> TRUE,
         status |-> "none", base |-> disk]

Running(p) == req[p].pc \notin {"idle", "done"}

-----------------------------------------------------------------------------
(* Preview *)

\* _lock_for: a lock lists the files of the release it names.
ManagedBy(lock) == IF lock \in Releases THEN DOMAIN Content[lock] ELSE {}

\* release_preflight: the manifest and every blob still hash to what the
\* release recorded.
ReleaseIssues(r) == r \in damaged

\* _read_lock: it does not parse, or it is another project's.
LockIssues == disk[LockPath] = Unreadable

\* _preview_changes: a managed file is missing or was edited ...
ManagedEdited ==
    \E f \in ManagedBy(disk[LockPath]) : disk[f] # Content[disk[LockPath]][f]

\* ... or something that is not managed is where a file has to go.
Occupied(r) ==
    \E f \in DOMAIN Content[r] \ ManagedBy(disk[LockPath]) : disk[f] # Absent

\* Mutant: an unmanaged file in the way is not noticed.
ChangesBlockUnoccupied(r) == ManagedEdited

ChangesBlock(r) == ManagedEdited \/ Occupied(r)

\* export_preview
Blocking(r) == ReleaseIssues(r) \/ LockIssues \/ ChangesBlock(r)

NoOp(r) == disk[LockPath] = r /\ \A f \in DOMAIN Content[r] : disk[f] = Content[r][f]

PreviousRelease == IF disk[LockPath] \in Releases THEN disk[LockPath] ELSE NoRelease

-----------------------------------------------------------------------------
(* One apply_export call *)

Move(p, pc) == req' = [req EXCEPT ![p].pc = pc]

\* What was backed up so far, and what is at the paths S now.
BackUp(backup, S) ==
    [f \in DOMAIN backup \cup S |-> IF f \in S THEN disk[f] ELSE backup[f]]

\* Exports apply, or rollback: then the release the lock names is remembered.
Apply(p, r, rollback) ==
    /\ req[p].pc \in {"idle", "done"}
    /\ count.applies < MaxApplies
    /\ count' = [count EXCEPT !.applies = @ + 1]
    /\ req' = [req EXCEPT ![p] = [Idle EXCEPT
                  !.pc = "preview", !.release = r,
                  !.from = IF rollback /\ ~ReleaseIssues(r) THEN PreviousRelease ELSE NoRelease]]
    /\ UNCHANGED <<disk, damaged, deliveries>>

\* The preview a person saw, then the one the apply works from.
FirstPreview(p) ==
    /\ req[p].pc = "preview"
    /\ Move(p, IF Blocking(req[p].release) THEN "refused" ELSE "preview_again")
    /\ UNCHANGED <<disk, damaged, deliveries, count>>

SecondPreview(p) ==
    LET r == req[p].release
    IN  /\ req[p].pc = "preview_again"
        /\ req' = [req EXCEPT
              ![p].base = disk,
              ![p].prev = PreviousRelease,
              ![p].status = IF NoOp(r) THEN "no_op" ELSE @,
              ![p].todo = Append(Files[r], LockPath),
              ![p].pc = IF Blocking(r) THEN "refused"
                        ELSE IF NoOp(r) THEN "receipt" ELSE "stage"]
        /\ UNCHANGED <<disk, damaged, deliveries, count>>

\* A refused or failed call returns an error.
Refuse(p) ==
    /\ req[p].pc = "refused"
    /\ Move(p, "done")
    /\ UNCHANGED <<disk, damaged, deliveries, count>>

\* Mutant: a target that does not exist is not remembered.
StageFileForgets(p) ==
    /\ req[p].pc = "stage" /\ req[p].todo # <<>>
    /\ LET f == Head(req[p].todo)
       IN  req' = IF disk[f] = Absent THEN [req EXCEPT ![p].todo = Tail(@)]
                  ELSE [req EXCEPT ![p].backup = BackUp(@, {f}), ![p].todo = Tail(@)]
    /\ UNCHANGED <<disk, damaged, deliveries, count>>

\* Copies one desired file to staging, and backs up what is at its target.
StageFile(p) ==
    /\ req[p].pc = "stage" /\ req[p].todo # <<>>
    /\ LET f == Head(req[p].todo)
       IN  req' = IF disk[f] = Absent
                  THEN [req EXCEPT ![p].created = @ \cup {f}, ![p].todo = Tail(@)]
                  ELSE [req EXCEPT ![p].backup = BackUp(@, {f}), ![p].todo = Tail(@)]
    /\ UNCHANGED <<disk, damaged, deliveries, count>>

\* Reads the lock once more and backs up the files it is about to delete.
\* Mutant: those are not backed up.
StageDeletionsLost(p) ==
    LET old == ManagedBy(disk[LockPath]) \ DOMAIN Content[req[p].release]
    IN  /\ req[p].pc = "stage" /\ req[p].todo = <<>>
        /\ req' = [req EXCEPT ![p].old = old, ![p].pc = "write",
                              ![p].todo = Files[req[p].release]]
        /\ UNCHANGED <<disk, damaged, deliveries, count>>

StageDeletions(p) ==
    LET old == ManagedBy(disk[LockPath]) \ DOMAIN Content[req[p].release]
    IN  /\ req[p].pc = "stage" /\ req[p].todo = <<>>
        /\ req' = [req EXCEPT
              ![p].old = old,
              ![p].backup = BackUp(@, {f \in old : disk[f] # Absent}),
              ![p].pc = "write",
              ![p].todo = Files[req[p].release]]
        /\ UNCHANGED <<disk, damaged, deliveries, count>>

\* Mutant: a file that is already there is taken for the one to deliver.
WriteFileIfAbsent(p) ==
    /\ req[p].pc = "write" /\ req[p].todo # <<>>
    /\ LET f == Head(req[p].todo)
       IN  disk' = [disk EXCEPT ![f] = IF @ = Absent THEN Content[req[p].release][f] ELSE @]
    /\ req' = [req EXCEPT ![p].todo = Tail(@)]
    /\ UNCHANGED <<damaged, deliveries, count>>

\* _atomic_checkout_write of the staged files, in path order, kept ones too.
WriteFile(p) ==
    /\ req[p].pc = "write" /\ req[p].todo # <<>>
    /\ LET f == Head(req[p].todo)
       IN  disk' = [disk EXCEPT ![f] = Content[req[p].release][f]]
    /\ req' = [req EXCEPT ![p].todo = Tail(@)]
    /\ UNCHANGED <<damaged, deliveries, count>>

DeleteOld(p) ==
    /\ req[p].pc = "write" /\ req[p].todo = <<>>
    /\ IF req[p].old # {}
       THEN \E f \in req[p].old :
               /\ disk' = [disk EXCEPT ![f] = Absent]
               /\ req' = [req EXCEPT ![p].old = @ \ {f}]
       ELSE Move(p, "validate") /\ UNCHANGED disk
    /\ UNCHANGED <<damaged, deliveries, count>>

\* The validation commands of the game; run_commands may be off.
Validate(p) ==
    /\ req[p].pc = "validate"
    /\ \E passed \in BOOLEAN : Move(p, IF passed THEN "lock" ELSE "restore")
    /\ UNCHANGED <<disk, damaged, deliveries, count>>

\* The lock, the last visible write; the staging directory goes after it.
WriteLock(p) ==
    /\ req[p].pc = "lock"
    /\ disk' = [disk EXCEPT ![LockPath] = req[p].release]
    /\ Move(p, "unstage")
    /\ UNCHANGED <<damaged, deliveries, count>>

RemoveStaging(p) ==
    /\ req[p].pc = "unstage"
    /\ req' = [req EXCEPT ![p].kept = FALSE, ![p].pc = "receipt",
                  ![p].status = IF req[p].from = NoRelease THEN "succeeded" ELSE "rolled_back"]
    /\ UNCHANGED <<disk, damaged, deliveries, count>>

\* _record_delivery: the immutable receipt of the project, then the row.
WriteReceipt(p) ==
    /\ req[p].pc = "receipt"
    /\ deliveries' = deliveries \cup {<<req[p].release, req[p].status, "receipt">>}
    /\ Move(p, "row")
    /\ UNCHANGED <<disk, damaged, count>>

CommitRow(p) ==
    /\ req[p].pc = "row"
    /\ deliveries' = deliveries \cup {<<req[p].release, req[p].status, "row">>}
    /\ Move(p, "done")
    /\ UNCHANGED <<disk, damaged, count>>

\* Either cannot be written: a no_op ends, a failure report is swallowed, and
\* an apply that had succeeded is undone.
RecordFails(p) ==
    /\ req[p].pc \in {"receipt", "row"}
    /\ count.losses < MaxLosses
    /\ count' = [count EXCEPT !.losses = @ + 1]
    /\ Move(p, IF req[p].status \in {"succeeded", "rolled_back"} THEN "restore" ELSE "done")
    /\ UNCHANGED <<disk, damaged, deliveries>>

\* Any file operation between staging and the lock fails.
OperationFails(p) ==
    /\ req[p].pc \in {"stage", "write", "lock"}
    /\ count.faults < MaxFaults
    /\ count' = [count EXCEPT !.faults = @ + 1]
    /\ Move(p, "restore")
    /\ UNCHANGED <<disk, damaged, deliveries>>

\* The except branch: the files of gone are removed, those of back come back.
PutBack(p, gone, back) ==
    [f \in AllPaths |-> IF f \in back THEN req[p].backup[f]
                       ELSE IF f \in gone THEN Absent ELSE disk[f]]

\* The backups there are: none once the staging directory is gone.
BackedUp(p) == IF req[p].kept THEN DOMAIN req[p].backup ELSE {}

\* What it saw missing goes, and all the backups come back if they are there.
Restore(p) ==
    LET lost == ~req[p].kept /\ DOMAIN req[p].backup # {}
    IN  /\ req[p].pc = "restore"
        /\ disk' = PutBack(p, req[p].created, BackedUp(p))
        /\ req' = [req EXCEPT ![p].pc = "receipt",
                      ![p].status = IF lost THEN "recovery_required" ELSE "failed"]
        /\ UNCHANGED <<damaged, deliveries, count>>

\* Some files cannot be removed or put back; staging is kept for a person.
RestoreFails(p) ==
    /\ req[p].pc = "restore"
    /\ count.losses < MaxLosses
    /\ count' = [count EXCEPT !.losses = @ + 1]
    /\ \E gone \in SUBSET req[p].created, back \in SUBSET BackedUp(p) :
          /\ gone # req[p].created \/ back # BackedUp(p)
          /\ disk' = PutBack(p, gone, back)
    /\ req' = [req EXCEPT ![p].pc = "receipt", ![p].status = "recovery_required"]
    /\ UNCHANGED <<damaged, deliveries>>

ApplyStep(p) ==
    \/ FirstPreview(p) \/ SecondPreview(p) \/ Refuse(p)
    \/ StageFile(p) \/ StageDeletions(p) \/ WriteFile(p) \/ DeleteOld(p)
    \/ Validate(p) \/ WriteLock(p) \/ RemoveStaging(p)
    \/ WriteReceipt(p) \/ CommitRow(p) \/ RecordFails(p)
    \/ OperationFails(p) \/ Restore(p) \/ RestoreFails(p)

-----------------------------------------------------------------------------
(* Verification, and the world around *)

\* verify_export: what it reports of the checkout.
VerifyOk(r) ==
    /\ ~Blocking(r)
    /\ disk[LockPath] = r
    /\ \A f \in ManagedBy(disk[LockPath]) : disk[f] = Content[disk[LockPath]][f]

\* The server dies: the calls are gone, their staging directories stay.
Crash ==
    /\ count.crashes < MaxCrashes
    /\ \E p \in Requests : Running(p)
    /\ count' = [count EXCEPT !.crashes = @ + 1]
    /\ req' = [p \in Requests |-> IF Running(p) THEN Idle ELSE req[p]]
    /\ UNCHANGED <<disk, damaged, deliveries>>

\* A person writes or removes a file of the checkout.
Edit(f) ==
    /\ count.edits < MaxEdits
    /\ EditsInFlight \/ \A p \in Requests : ~Running(p)
    /\ count' = [count EXCEPT !.edits = @ + 1]
    /\ \E b \in {Absent, IF f = LockPath THEN Unreadable ELSE UserBytes} :
          disk' = [disk EXCEPT ![f] = b]
    /\ UNCHANGED <<damaged, req, deliveries>>

\* A blob or manifest of a release is damaged or repaired in the project,
\* while nothing is being delivered from it.
Damage(r) ==
    /\ \A p \in Requests : Running(p) => req[p].release # r
    /\ damaged' = IF r \in damaged THEN damaged \ {r} ELSE damaged \cup {r}
    /\ UNCHANGED <<disk, req, deliveries, count>>

Init ==
    /\ disk \in [AllPaths -> {Absent, UserBytes}] /\ disk[LockPath] = Absent
    /\ damaged = {}
    /\ req = [p \in Requests |-> Idle]
    /\ deliveries = {}
    /\ count = [applies |-> 0, edits |-> 0, crashes |-> 0, faults |-> 0, losses |-> 0]

Next ==
    \/ \E p \in Requests :
          \/ \E r \in Releases, rollback \in BOOLEAN : Apply(p, r, rollback)
          \/ ApplyStep(p)
    \/ \E f \in AllPaths : Edit(f)
    \/ \E r \in Releases : Damage(r)
    \/ Crash

Spec == Init /\ [][Next]_vars

-----------------------------------------------------------------------------
(* Properties *)

\* Once everything is staged, each file that is going to be written is either
\* backed up or known to be new, and never both.
TypeOK ==
    /\ disk \in [AllPaths -> Bytes]
    /\ damaged \subseteq Releases
    /\ \A p \in Requests :
          /\ req[p].pc \in {"idle", "preview", "preview_again", "refused", "stage", "write",
                            "validate", "lock", "unstage", "receipt", "row", "restore", "done"}
          /\ req[p].created \cup DOMAIN req[p].backup \subseteq AllPaths
          /\ req[p].created \cap DOMAIN req[p].backup = {}
          /\ req[p].pc \in {"write", "validate", "lock"} =>
                DOMAIN Content[req[p].release] \cup {LockPath}
                    \subseteq req[p].created \cup DOMAIN req[p].backup

\* delivery.py and release-delivery.md: a file of the owner's is never
\* overwritten nor removed by a delivery, whenever the owner writes it.
UnknownFilesKept ==
    [][\A f \in Paths :
          disk[f] = UserBytes /\ disk'[f] # UserBytes => count'.edits > count.edits]_vars

\* What a call may cost the owner while the checkout is edited under it: a
\* step that overwrites or removes what a person wrote is one of a call whose
\* second preview did not find it there.  A file that preview found to be the
\* owner's is safe from all the call does afterwards, its restoration of what
\* it saw missing and the deletions it takes from a lock read again included.
SeenFilesKept ==
    [][\A f \in Paths :
          disk[f] = UserBytes /\ disk'[f] # UserBytes /\ count'.edits = count.edits =>
             \E p \in Requests :
                Running(p) /\ req'[p] # req[p] /\ req[p].base[f] # UserBytes]_vars

\* What is recorded as delivered (or as needing nothing) verifies: the lock
\* names the release and every file it lists is there with its bytes, also
\* after earlier deliveries died or failed.
RecordedVerifies ==
    \A p \in Requests :
        /\ req[p].pc \in {"receipt", "row"}
        /\ req[p].status \in {"succeeded", "rolled_back", "no_op"}
        => VerifyOk(req[p].release)

\* release-delivery.md: gams-lock.json is written last, and where it exists
\* the managed files have all been applied.
LockMeansApplied ==
    (\A p \in Requests : ~Running(p)) /\ disk[LockPath] \in Releases
       => \A f \in DOMAIN Content[disk[LockPath]] : disk[f] = Content[disk[LockPath]][f]

\* While a call runs, the owner still sees the checkout it started from,
\* until it is recorded or has nothing left to restore from.
Seen ==
    IF \E p \in Requests : Running(p)
    THEN LET p == CHOOSE q \in Requests : Running(q)
         IN  IF \/ req[p].pc \in {"preview", "preview_again", "refused"}
                \/ req[p].status \in {"failed", "recovery_required"}
                \/ req[p].pc = "restore" /\ ~req[p].kept
             THEN disk ELSE req[p].base
    ELSE disk

\* Calls that do not overlap are atomic: a checkout changes as a whole when
\* the delivery is recorded, a failed one restores every addition, update,
\* deletion and the lock, only a death or a lost receipt tears it, and
\* nothing is delivered onto managed files that were torn or edited.
Atomic == INSTANCE CheckoutDelivery WITH
              tree <- Seen, edits <- count.edits, faults <- count.crashes + count.losses
AtomicDelivery == Atomic!Spec
=============================================================================
