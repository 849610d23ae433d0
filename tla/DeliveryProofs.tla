--------------------------- MODULE DeliveryProofs ---------------------------
(***************************************************************************)
(* What holds of Delivery for every set of requests, paths and releases.   *)
(*                                                                         *)
(* IInv, and with it TypeOK, needs nothing of the calls.  The rest is about *)
(* calls that do not overlap.  SparesInv holds also while the owner edits  *)
(* under a call: it keeps what the second preview found to be the owner's  *)
(* out of all the call is going to touch.  ProgressInv is about checkouts  *)
(* that are edited between calls: at each step it says where the checkout  *)
(* is between the one the call found and the result of the release, and    *)
(* that what the call remembers is enough to undo it.  From it follow      *)
(* RecordedVerifies and the refinement of CheckoutDelivery.                *)
(***************************************************************************)
EXTENDS Delivery, TLAPS

Steps == {"idle", "preview", "preview_again", "refused", "stage", "write",
          "validate", "lock", "unstage", "receipt", "row", "restore", "done"}

Statuses == {"none", "no_op", "succeeded", "rolled_back", "failed", "recovery_required"}

Backups == UNION {[S -> Bytes] : S \in SUBSET AllPaths}

Call == [pc : Steps, release : Releases \cup {NoRelease}, from : Releases \cup {NoRelease},
         prev : Releases \cup {NoRelease}, old : SUBSET Paths, backup : Backups,
         created : SUBSET AllPaths, todo : Seq(AllPaths), kept : BOOLEAN,
         status : Statuses, base : [AllPaths -> Bytes]]

Counts == [applies : Nat, edits : Nat, crashes : Nat, faults : Nat, losses : Nat]

\* The call has passed its second preview and may write.
Past(c) == c.pc \in {"stage", "write", "validate", "lock", "unstage", "receipt", "row", "restore"}

Targets(c) == DOMAIN Content[c.release] \cup {LockPath}

\* What a call remembers is about the files of its own release, and staging
\* leaves none of them out.
Staged(c) ==
    /\ c.pc \notin {"idle", "done"} => c.release \in Releases
    /\ c.created \cap DOMAIN c.backup = {}
    /\ c.pc \in {"preview", "preview_again"} =>
          c.created = {} /\ c.old = {} /\ DOMAIN c.backup = {} /\ c.status = "none" /\ c.kept
    /\ Past(c) => c.created \subseteq Targets(c)
    /\ c.pc = "stage" =>
          /\ IsInjective(c.todo)
          /\ Range(c.todo) \cap (c.created \cup DOMAIN c.backup) = {}
          /\ Targets(c) = Range(c.todo) \cup c.created \cup DOMAIN c.backup
    /\ c.pc \in {"write", "validate", "lock"} => Targets(c) \subseteq c.created \cup DOMAIN c.backup
    /\ c.pc = "write" =>
          /\ IsInjective(c.todo) /\ Range(c.todo) \subseteq DOMAIN Content[c.release]
          /\ c.old \cap DOMAIN Content[c.release] = {}

IInv == /\ disk \in [AllPaths -> Bytes]
        /\ damaged \subseteq Releases
        /\ req \in [Requests -> Call]
        /\ count \in Counts
        /\ \A p \in Requests : Staged(req[p])

-----------------------------------------------------------------------------
(* Sequences without repetition *)

LEMMA TailOfInjective ==
    ASSUME NEW S, NEW s \in Seq(S), s # <<>>, IsInjective(s)
    PROVE  /\ Head(s) \in Range(s) /\ Head(s) \in S
           /\ Tail(s) \in Seq(S) /\ IsInjective(Tail(s))
           /\ Range(Tail(s)) = Range(s) \ {Head(s)}
  <1>1. /\ Len(s) \in Nat /\ Len(s) > 0 /\ s[1] = Head(s) /\ s[1] \in S
        /\ Tail(s) \in Seq(S) /\ Len(Tail(s)) = Len(s) - 1
        /\ DOMAIN s = 1..Len(s) /\ DOMAIN Tail(s) = 1..Len(Tail(s))
    OBVIOUS
  <1>2. ASSUME NEW i \in 1..Len(s) - 1 PROVE Tail(s)[i] = s[i + 1]
    BY <1>1
  <1>3. ASSUME NEW i \in 1..Len(s), i # 1 PROVE s[i] = Tail(s)[i - 1] /\ i - 1 \in 1..Len(Tail(s))
    <2>1. i - 1 \in 1..Len(s) - 1 /\ (i - 1) + 1 = i
      BY <1>1, <1>3
    <2>2. QED BY <2>1, <1>2, <1>1
  <1>4. IsInjective(Tail(s))
    <2> SUFFICES ASSUME NEW a \in 1..Len(s) - 1, NEW b \in 1..Len(s) - 1, Tail(s)[a] = Tail(s)[b]
                 PROVE  a = b
      BY <1>1 DEF IsInjective
    <2>1. a + 1 \in 1..Len(s) /\ b + 1 \in 1..Len(s) /\ s[a + 1] = s[b + 1]
      BY <1>1, <1>2
    <2>2. QED BY <2>1, <1>1 DEF IsInjective
  <1>5. Range(Tail(s)) = Range(s) \ {Head(s)}
    <2>1. ASSUME NEW x \in Range(Tail(s)) PROVE x \in Range(s) /\ x # Head(s)
      <3>1. PICK a \in 1..Len(s) - 1 : x = Tail(s)[a]
        BY <2>1, <1>1 DEF Range
      <3>2. a + 1 \in 1..Len(s) /\ s[a + 1] = x /\ a + 1 # 1
        BY <3>1, <1>1, <1>2
      <3>3. QED BY <3>2, <1>1 DEF IsInjective, Range
    <2>2. ASSUME NEW x \in Range(s), x # Head(s) PROVE x \in Range(Tail(s))
      <3>1. PICK a \in 1..Len(s) : x = s[a] /\ a # 1
        BY <2>2, <1>1 DEF Range
      <3>2. QED BY <3>1, <1>3, <1>1 DEF Range
    <2>3. QED BY <2>1, <2>2
  <1>6. Head(s) \in Range(s)
    BY <1>1 DEF Range
  <1>7. QED BY <1>1, <1>4, <1>5, <1>6

LEMMA AppendInjective ==
    ASSUME NEW S, NEW s \in Seq(S), IsInjective(s), NEW x, x \notin S
    PROVE  /\ Append(s, x) \in Seq(S \cup {x}) /\ IsInjective(Append(s, x))
           /\ Range(Append(s, x)) = Range(s) \cup {x}
  <1> DEFINE t == Append(s, x)
  <1>1. /\ t \in Seq(S \cup {x}) /\ Len(t) = Len(s) + 1 /\ Len(s) \in Nat
        /\ DOMAIN s = 1..Len(s) /\ DOMAIN t = 1..Len(t) /\ t[Len(s) + 1] = x
    OBVIOUS
  <1>2. \A i \in 1..Len(s) : t[i] = s[i] /\ s[i] \in S
    OBVIOUS
  <1> HIDE DEF t
  <1>3. IsInjective(t)
    BY <1>1, <1>2 DEF IsInjective
  <1>4. Range(t) = Range(s) \cup {x}
    BY <1>1, <1>2 DEF Range
  <1>5. QED BY <1>1, <1>3, <1>4 DEF t

\* The order in which a release is written: each of its files once.
LEMMA FilesOfRelease ==
    ASSUME NEW r \in Releases
    PROVE  /\ DOMAIN Content[r] \subseteq Paths /\ LockPath \notin DOMAIN Content[r]
           /\ Files[r] \in Seq(AllPaths) /\ IsInjective(Files[r])
           /\ Range(Files[r]) = DOMAIN Content[r]
           /\ Append(Files[r], LockPath) \in Seq(AllPaths)
           /\ IsInjective(Append(Files[r], LockPath))
           /\ Range(Append(Files[r], LockPath)) = DOMAIN Content[r] \cup {LockPath}
  <1>1. /\ LockPath \notin Paths /\ DOMAIN Content[r] \subseteq Paths
        /\ Files[r] \in Seq(Paths) /\ IsInjective(Files[r]) /\ Range(Files[r]) = DOMAIN Content[r]
    BY DeliveryAssumption
  <1>2. Files[r] \in Seq(AllPaths)
    BY <1>1 DEF AllPaths
  <1>3. QED BY <1>1, <1>2, AppendInjective DEF AllPaths

-----------------------------------------------------------------------------
(* The bytes a file may hold *)

LEMMA BytesOfContent ==
    ASSUME NEW r \in Releases, NEW f \in DOMAIN Content[r]
    PROVE  Content[r][f] \in Bytes /\ Content[r][f] # UserBytes /\ Content[r][f] # Absent
  BY DeliveryAssumption DEF Bytes, Range

LEMMA OtherBytes ==
    {Absent, UserBytes, Unreadable} \cup Releases \subseteq Bytes
  BY DEF Bytes

LEMMA BackUpType ==
    ASSUME disk \in [AllPaths -> Bytes], NEW b \in Backups, NEW S \in SUBSET AllPaths
    PROVE  BackUp(b, S) \in Backups /\ DOMAIN BackUp(b, S) = DOMAIN b \cup S
  <1>1. PICK T \in SUBSET AllPaths : b \in [T -> Bytes]
    BY DEF Backups
  <1>2. BackUp(b, S) \in [T \cup S -> Bytes]
    BY <1>1 DEF BackUp
  <1>3. QED BY <1>1, <1>2 DEF Backups, BackUp

LEMMA ManagedPaths ==
    ASSUME NEW lock PROVE ManagedBy(lock) \subseteq Paths
  BY DeliveryAssumption DEF ManagedBy

-----------------------------------------------------------------------------
(* The invariant *)

\* A call that only moves keeps what it remembers.
LEMMA MovedCall ==
    ASSUME NEW c \in Call, NEW pc \in Steps
    PROVE  [c EXCEPT !.pc = pc] \in Call
  BY DEF Call

LEMMA IdleCall ==
    ASSUME disk \in [AllPaths -> Bytes] PROVE Idle \in Call
  <1>1. <<>> \in Seq(AllPaths)
    OBVIOUS
  <1>2. <<>> \in Backups
    <2>1. <<>> \in [{} -> Bytes]
      OBVIOUS
    <2>2. QED BY <2>1 DEF Backups
  <1>3. QED BY <1>1, <1>2 DEF Idle, Call, Steps, Statuses

\* A call that moves from one step to another keeps Staged when the new step
\* asks for nothing more.
LEMMA MoveStaged ==
    ASSUME IInv, NEW p \in Requests, NEW pc \in Steps, Move(p, pc),
           \/ pc \in {"refused", "done", "unstage", "receipt", "row", "restore"} 
           \/ pc = "preview_again" /\ req[p].pc = "preview"
           \/ pc \in {"validate", "lock"} /\ req[p].pc \in {"write", "validate"},
           pc \in {"unstage", "receipt", "row", "restore", "validate", "lock"} => Past(req[p]),
           req[p].pc \notin {"idle", "done"}
    PROVE  /\ req' \in [Requests -> Call]
           /\ \A q \in Requests : q # p => req'[q] = req[q]
           /\ Staged(req'[p])
  <1> DEFINE c == req[p]
  <1>1. c \in Call /\ Staged(c)
    BY DEF IInv
  <1>2. req'[p] = [c EXCEPT !.pc = pc]
    BY DEF IInv, Move
  <1>3. [c EXCEPT !.pc = pc] \in Call
    BY <1>1, MovedCall
  <1>4. Staged([c EXCEPT !.pc = pc])
    BY <1>1 DEF Staged, Past, Targets, Call, Steps
  <1>5. QED BY <1>2, <1>3, <1>4 DEF IInv, Move

\* One step of a call leaves the record of every other one alone.
LEMMA StepCalls ==
    ASSUME IInv, NEW p \in Requests, ApplyStep(p)
    PROVE  /\ req' \in [Requests -> Call]
           /\ \A q \in Requests : q # p => req'[q] = req[q]
           /\ Staged(req'[p])
  <1> DEFINE c == req[p]
             r == req[p].release
  <1>1. c \in Call /\ Staged(c) /\ req \in [Requests -> Call] /\ disk \in [AllPaths -> Bytes]
    BY DEF IInv
  <1>2. CASE FirstPreview(p)
    <2>1. CASE Blocking(r)
      <3>1. Move(p, "refused") /\ c.pc = "preview"
        BY <1>2, <2>1 DEF FirstPreview
      <3>2. QED BY <3>1, MoveStaged DEF Steps
    <2>2. CASE ~Blocking(r)
      <3>1. Move(p, "preview_again") /\ c.pc = "preview"
        BY <1>2, <2>2 DEF FirstPreview
      <3>2. QED BY <3>1, MoveStaged DEF Steps
    <2>3. QED BY <2>1, <2>2
  <1>3. CASE SecondPreview(p)
    <2> DEFINE d == [c EXCEPT !.base = disk, !.prev = PreviousRelease,
                        !.status = IF NoOp(r) THEN "no_op" ELSE @,
                        !.todo = Append(Files[r], LockPath),
                        !.pc = IF Blocking(r) THEN "refused"
                               ELSE IF NoOp(r) THEN "receipt" ELSE "stage"]
    <2>1. r \in Releases /\ c.created = {} /\ DOMAIN c.backup = {} /\ c.pc = "preview_again"
      BY <1>1, <1>3 DEF SecondPreview, Staged
    <2>2. PreviousRelease \in Releases \cup {NoRelease}
      BY DEF PreviousRelease
    <2>3. d \in Call
      <3> DEFINE status == IF NoOp(r) THEN "no_op" ELSE c.status
                 todo == Append(Files[r], LockPath)
                 pc == IF Blocking(r) THEN "refused" ELSE IF NoOp(r) THEN "receipt" ELSE "stage"
      <3>1. status \in Statuses /\ pc \in Steps
        BY <1>1 DEF Call, Steps, Statuses
      <3>2. todo \in Seq(AllPaths)
        BY <2>1, FilesOfRelease
      <3>3. d = [c EXCEPT !.base = disk, !.prev = PreviousRelease, !.status = status,
                          !.todo = todo, !.pc = pc]
        OBVIOUS
      <3> HIDE DEF status, todo, pc, d
      <3>4. QED BY <1>1, <2>2, <3>1, <3>2, <3>3 DEF Call
    <2>4. /\ d.created = {} /\ DOMAIN d.backup = {} /\ d.release = r
          /\ d.pc \in {"refused", "receipt", "stage"} /\ d.todo = Append(Files[r], LockPath)
      BY <1>1, <2>1 DEF Call
    <2>5. Staged(d)
      BY <2>1, <2>4, FilesOfRelease DEF Staged, Past, Targets
    <2>6. req' = [req EXCEPT ![p] = d]
      BY <1>1, <1>3 DEF SecondPreview
    <2>7. QED BY <1>1, <2>3, <2>5, <2>6
  <1>4. CASE Refuse(p)
    BY <1>4, MoveStaged DEF Refuse, Steps
  <1>5. CASE StageFile(p)
    <2> DEFINE f == Head(c.todo)
               d == IF disk[f] = Absent
                    THEN [c EXCEPT !.created = @ \cup {f}, !.todo = Tail(@)]
                    ELSE [c EXCEPT !.backup = BackUp(@, {f}), !.todo = Tail(@)]
    <2>1. c.pc = "stage" /\ c.todo # <<>> /\ req' = [req EXCEPT ![p] = d]
      BY <1>1, <1>5 DEF StageFile
    <2>2. /\ f \in Range(c.todo) /\ f \in AllPaths /\ Tail(c.todo) \in Seq(AllPaths)
          /\ IsInjective(Tail(c.todo)) /\ Range(Tail(c.todo)) = Range(c.todo) \ {f}
      BY <1>1, <2>1, TailOfInjective DEF Call, Staged
    <2>3. BackUp(c.backup, {f}) \in Backups /\ DOMAIN BackUp(c.backup, {f}) = DOMAIN c.backup \cup {f}
      BY <1>1, <2>2, BackUpType DEF Call
    <2>4. d \in Call
      BY <1>1, <2>2, <2>3 DEF Call
    <2>5. /\ d.pc = "stage" /\ d.release = r /\ d.todo = Tail(c.todo)
          /\ \/ d.created = c.created \cup {f} /\ d.backup = c.backup
             \/ d.created = c.created /\ DOMAIN d.backup = DOMAIN c.backup \cup {f}
      BY <1>1, <2>1, <2>3 DEF Call
    <2> HIDE DEF d, f
    <2>6. Staged(d)
      BY <1>1, <2>1, <2>2, <2>5 DEF Staged, Past, Targets
    <2>7. QED BY <1>1, <2>1, <2>4, <2>6
  <1>6. CASE StageDeletions(p)
    <2> DEFINE old == ManagedBy(disk[LockPath]) \ DOMAIN Content[r]
               here == {f \in old : disk[f] # Absent}
               d == [c EXCEPT !.old = old, !.backup = BackUp(@, here),
                              !.pc = "write", !.todo = Files[r]]
    <2>1. c.pc = "stage" /\ c.todo = <<>> /\ req' = [req EXCEPT ![p] = d]
      BY <1>1, <1>6 DEF StageDeletions
    <2>2. old \in SUBSET Paths /\ here \in SUBSET AllPaths /\ here \subseteq old
      BY ManagedPaths DEF AllPaths
    <2>3. BackUp(c.backup, here) \in Backups /\ DOMAIN BackUp(c.backup, here) = DOMAIN c.backup \cup here
      BY <1>1, <2>2, BackUpType DEF Call
    <2>4. r \in Releases
      BY <1>1, <2>1 DEF Staged
    <2>5. d \in Call
      BY <1>1, <2>2, <2>3, <2>4, FilesOfRelease DEF Call, Steps
    <2>6. /\ d.pc = "write" /\ d.release = r /\ d.todo = Files[r] /\ d.old = old
          /\ d.created = c.created /\ DOMAIN d.backup = DOMAIN c.backup \cup here
      BY <1>1, <2>3 DEF Call
    <2>7. Range(c.todo) = {}
      BY <2>1 DEF Range
    <2>8. old \cap Targets(c) = {}
      BY <2>2, DeliveryAssumption DEF Targets
    <2> HIDE DEF d, here, old
    <2>9. Staged(d)
      BY <1>1, <2>1, <2>2, <2>4, <2>6, <2>7, <2>8, FilesOfRelease DEF Staged, Past, Targets
    <2>10. QED BY <1>1, <2>1, <2>5, <2>9
  <1>7. CASE WriteFile(p)
    <2> DEFINE d == [c EXCEPT !.todo = Tail(@)]
    <2>1. c.pc = "write" /\ c.todo # <<>> /\ req' = [req EXCEPT ![p] = d]
      BY <1>1, <1>7 DEF WriteFile
    <2>2. /\ Tail(c.todo) \in Seq(AllPaths) /\ IsInjective(Tail(c.todo))
          /\ Range(Tail(c.todo)) \subseteq Range(c.todo)
      BY <1>1, <2>1, TailOfInjective DEF Call, Staged
    <2>3. d \in Call /\ Staged(d)
      BY <1>1, <2>1, <2>2 DEF Call, Staged, Past, Targets
    <2>4. QED BY <1>1, <2>1, <2>3
  <1>8. CASE DeleteOld(p)
    <2>1. CASE req[p].old # {}
      <3>1. PICK f \in req[p].old : req' = [req EXCEPT ![p].old = @ \ {f}]
        BY <1>8, <2>1 DEF DeleteOld
      <3> DEFINE d == [c EXCEPT !.old = @ \ {f}]
      <3>2. req' = [req EXCEPT ![p] = d]
        BY <1>1, <3>1
      <3>3. d \in Call /\ Staged(d)
        BY <1>1, <1>8 DEF DeleteOld, Call, Staged, Past, Targets
      <3>4. QED BY <1>1, <3>2, <3>3
    <2>2. CASE req[p].old = {}
      <3>1. Move(p, "validate") /\ c.pc = "write"
        BY <1>8, <2>2 DEF DeleteOld
      <3>2. QED BY <3>1, MoveStaged DEF Steps, Past
    <2>3. QED BY <2>1, <2>2
  <1>9. CASE Validate(p)
    <2>1. c.pc = "validate" /\ (Move(p, "lock") \/ Move(p, "restore"))
      BY <1>9 DEF Validate
    <2>2. QED BY <2>1, MoveStaged DEF Steps, Past
  <1>10. CASE WriteLock(p)
    BY <1>10, MoveStaged DEF WriteLock, Steps, Past
  <1>11. CASE RemoveStaging(p)
    <2> DEFINE d == [c EXCEPT !.kept = FALSE, !.pc = "receipt",
                        !.status = IF c.from = NoRelease THEN "succeeded" ELSE "rolled_back"]
    <2>1. c.pc = "unstage" /\ req' = [req EXCEPT ![p] = d]
      BY <1>1, <1>11 DEF RemoveStaging
    <2>2. d \in Call /\ Staged(d)
      BY <1>1, <2>1 DEF Call, Staged, Past, Targets, Steps, Statuses
    <2>3. QED BY <1>1, <2>1, <2>2
  <1>12. CASE WriteReceipt(p)
    BY <1>12, MoveStaged DEF WriteReceipt, Steps, Past
  <1>13. CASE CommitRow(p)
    BY <1>13, MoveStaged DEF CommitRow, Steps
  <1>14. CASE RecordFails(p)
    <2>1. c.pc \in {"receipt", "row"} /\ (Move(p, "restore") \/ Move(p, "done"))
      BY <1>14 DEF RecordFails
    <2>2. QED BY <2>1, MoveStaged DEF Steps, Past
  <1>15. CASE OperationFails(p)
    BY <1>15, MoveStaged DEF OperationFails, Steps, Past
  <1>16. CASE Restore(p) \/ RestoreFails(p)
    <2>1. PICK status \in Statuses :
             c.pc = "restore" /\ req' = [req EXCEPT ![p].pc = "receipt", ![p].status = status]
      BY <1>16 DEF Restore, RestoreFails, Statuses
    <2> DEFINE d == [c EXCEPT !.pc = "receipt", !.status = status]
    <2>2. req' = [req EXCEPT ![p] = d]
      BY <1>1, <2>1
    <2>3. d \in Call /\ Staged(d)
      BY <1>1, <2>1 DEF Call, Staged, Past, Targets, Steps
    <2>4. QED BY <1>1, <2>2, <2>3
  <1>17. QED
    BY <1>2, <1>3, <1>4, <1>5, <1>6, <1>7, <1>8, <1>9, <1>10, <1>11, <1>12, <1>13, <1>14,
       <1>15, <1>16 DEF ApplyStep

LEMMA PutBackType ==
    ASSUME IInv, NEW p \in Requests, NEW gone, NEW back \in SUBSET DOMAIN req[p].backup
    PROVE  PutBack(p, gone, back) \in [AllPaths -> Bytes]
  <1>1. req[p].backup \in Backups /\ disk \in [AllPaths -> Bytes]
    BY DEF IInv, Call
  <1>2. \A f \in back : req[p].backup[f] \in Bytes
    BY <1>1 DEF Backups
  <1>3. QED BY <1>1, <1>2, OtherBytes DEF PutBack

LEMMA CountStep ==
    ASSUME count \in Counts,
           \/ UNCHANGED count
           \/ count' = [count EXCEPT !.losses = @ + 1]
           \/ count' = [count EXCEPT !.faults = @ + 1]
    PROVE  count' \in Counts /\ count'.edits = count.edits /\ count'.losses >= count.losses
  <1>1. \A n \in Nat : n >= n /\ n + 1 >= n /\ n + 1 \in Nat
    OBVIOUS
  <1>2. count.losses \in Nat /\ count.faults \in Nat
    BY DEF Counts
  <1>3. CASE UNCHANGED count
    BY <1>1, <1>2, <1>3
  <1>4. CASE count' = [count EXCEPT !.losses = @ + 1]
    <2>1. count' \in Counts
      BY <1>1, <1>2, <1>4 DEF Counts
    <2>2. count'.losses = count.losses + 1 /\ count'.edits = count.edits
      BY <1>4 DEF Counts
    <2>3. QED BY <1>1, <1>2, <2>1, <2>2
  <1>5. CASE count' = [count EXCEPT !.faults = @ + 1]
    <2>1. count' \in Counts
      BY <1>1, <1>2, <1>5 DEF Counts
    <2>2. count'.losses = count.losses /\ count'.edits = count.edits
      BY <1>5 DEF Counts
    <2>3. QED BY <1>1, <1>2, <2>1, <2>2
  <1>6. QED BY <1>3, <1>4, <1>5

LEMMA StepDisk ==
    ASSUME IInv, NEW p \in Requests, ApplyStep(p)
    PROVE  disk' \in [AllPaths -> Bytes] /\ damaged' = damaged
           /\ count'.edits = count.edits /\ count'.losses >= count.losses
           /\ count' \in Counts
  <1> DEFINE c == req[p]
             r == req[p].release
  <1>1. c \in Call /\ Staged(c) /\ disk \in [AllPaths -> Bytes]
        /\ count \in Counts
    BY DEF IInv
  <1>2. CASE WriteFile(p)
    <2> DEFINE f == Head(c.todo)
    <2>1. c.pc = "write" /\ c.todo # <<>> /\ disk' = [disk EXCEPT ![f] = Content[r][f]]
      BY <1>2 DEF WriteFile
    <2>2. f \in Range(c.todo)
      BY <1>1, <2>1, TailOfInjective DEF Call, Staged
    <2>3. r \in Releases /\ f \in DOMAIN Content[r]
      BY <1>1, <2>1, <2>2 DEF Staged
    <2>4. Content[r][f] \in Bytes
      BY <2>3, BytesOfContent
    <2>5. QED BY <1>1, <1>2, <2>1, <2>4, CountStep DEF WriteFile
  <1>3. CASE DeleteOld(p)
    BY <1>1, <1>3, OtherBytes, CountStep DEF DeleteOld, Move
  <1>4. CASE WriteLock(p)
    <2>1. r \in Releases /\ disk' = [disk EXCEPT ![LockPath] = r]
      BY <1>1, <1>4 DEF WriteLock, Staged
    <2>2. QED BY <1>1, <1>4, <2>1, OtherBytes, CountStep DEF WriteLock
  <1>5. CASE Restore(p)
    <2>1. disk' = PutBack(p, c.created, IF c.kept THEN DOMAIN c.backup ELSE {})
      BY <1>5 DEF Restore, BackedUp
    <2>2. QED BY <1>1, <1>5, <2>1, PutBackType, CountStep DEF Restore
  <1>6. CASE RestoreFails(p)
    <2>1. PICK gone \in SUBSET c.created, back \in SUBSET DOMAIN c.backup :
             disk' = PutBack(p, gone, back)
      BY <1>6 DEF RestoreFails, BackedUp
    <2>2. disk' \in [AllPaths -> Bytes]
      BY <2>1, PutBackType
    <2>3. UNCHANGED damaged /\ count' = [count EXCEPT !.losses = @ + 1]
      BY <1>6 DEF RestoreFails
    <2>4. QED BY <1>1, <2>2, <2>3, CountStep
  <1>7. CASE FirstPreview(p) \/ SecondPreview(p) \/ Refuse(p) \/ StageFile(p) \/ StageDeletions(p)
             \/ Validate(p) \/ RemoveStaging(p) \/ WriteReceipt(p) \/ CommitRow(p)
    BY <1>1, <1>7, CountStep
       DEF FirstPreview, SecondPreview, Refuse, StageFile, StageDeletions, Validate,
           RemoveStaging, WriteReceipt, CommitRow
  <1>8. CASE RecordFails(p)
    BY <1>1, <1>8, CountStep DEF RecordFails
  <1>9. CASE OperationFails(p)
    BY <1>1, <1>9, CountStep DEF OperationFails
  <1>10. QED
    BY <1>2, <1>3, <1>4, <1>5, <1>6, <1>7, <1>8, <1>9 DEF ApplyStep

LEMMA InvAfter ==
    ASSUME disk' \in [AllPaths -> Bytes], damaged' \subseteq Releases, req' \in [Requests -> Call],
           count' \in Counts,
           \A p \in Requests : Staged(req'[p])
    PROVE  IInv'
  BY DEF IInv

LEMMA InvInit == Init => IInv
  <1> SUFFICES ASSUME Init PROVE IInv
    OBVIOUS
  <1>1. disk \in [AllPaths -> Bytes]
    BY OtherBytes DEF Init
  <1>2. Idle \in Call
    BY <1>1, IdleCall
  <1>3. Staged(Idle)
    BY DEF Staged, Idle, Past
  <1>4. QED BY <1>1, <1>2, <1>3 DEF Init, IInv, Counts

LEMMA InvNext == IInv /\ [Next]_vars => IInv'
  <1> SUFFICES ASSUME IInv, [Next]_vars PROVE IInv'
    OBVIOUS
  <1>1. CASE UNCHANGED vars
    BY <1>1 DEF IInv, vars, Staged, Past, Targets
  <1>2. ASSUME NEW p \in Requests, NEW r \in Releases, NEW rollback \in BOOLEAN, Apply(p, r, rollback)
        PROVE  IInv'
    <2> DEFINE d == [Idle EXCEPT !.pc = "preview", !.release = r,
                        !.from = IF rollback /\ ~ReleaseIssues(r) THEN PreviousRelease ELSE NoRelease]
    <2>1. req' = [req EXCEPT ![p] = d] /\ UNCHANGED <<disk, damaged>>
          /\ count' = [count EXCEPT !.applies = @ + 1]
      BY <1>2 DEF Apply
    <2>2. Idle \in Call
      BY IdleCall DEF IInv
    <2>3. d \in Call
      BY <2>2 DEF Call, Steps, PreviousRelease
    <2>4. d.pc = "preview" /\ d.release = r /\ d.created = {} /\ d.old = {} /\ DOMAIN d.backup = {}
          /\ d.status = "none" /\ d.kept
      BY <2>2 DEF Call, Idle
    <2>5. Staged(d)
      BY <2>4 DEF Staged, Past
    <2> HIDE DEF d
    <2>6. req' \in [Requests -> Call] /\ \A q \in Requests : Staged(req'[q])
      BY <2>1, <2>3, <2>5 DEF IInv
    <2>7. count' \in Counts
      BY <2>1 DEF IInv, Counts
    <2>8. disk' \in [AllPaths -> Bytes] /\ damaged' \subseteq Releases
      BY <2>1 DEF IInv
    <2>9. QED BY <2>6, <2>7, <2>8 DEF IInv, Staged, Past, Targets
  <1>3. ASSUME NEW p \in Requests, ApplyStep(p) PROVE IInv'
    <2>1. req' \in [Requests -> Call] /\ \A q \in Requests : Staged(req'[q])
      BY <1>3, StepCalls DEF IInv
    <2>2. QED BY <1>3, <2>1, StepDisk DEF IInv, Staged, Past, Targets
  <1>4. ASSUME NEW f \in AllPaths, Edit(f) PROVE IInv'
    <2>1. PICK b \in {Absent, Unreadable, UserBytes} : disk' = [disk EXCEPT ![f] = b]
      BY <1>4 DEF Edit
    <2>2. disk' \in [AllPaths -> Bytes]
      BY <2>1, OtherBytes DEF IInv
    <2>3. UNCHANGED <<damaged, req>> /\ count' = [count EXCEPT !.edits = @ + 1]
      BY <1>4 DEF Edit
    <2>4. QED BY <2>2, <2>3, InvAfter DEF IInv, Counts
  <1>5. ASSUME NEW r \in Releases, Damage(r) PROVE IInv'
    BY <1>5 DEF Damage, IInv, Staged, Past, Targets
  <1>6. CASE Crash
    <2>1. /\ req' = [p \in Requests |-> IF Running(p) THEN Idle ELSE req[p]]
          /\ UNCHANGED <<disk, damaged>> /\ count' = [count EXCEPT !.crashes = @ + 1]
      BY <1>6 DEF Crash
    <2>2. Idle \in Call /\ Staged(Idle)
      BY IdleCall DEF IInv, Staged, Idle, Past
    <2>3. req' \in [Requests -> Call] /\ \A p \in Requests : Staged(req'[p])
      BY <2>1, <2>2 DEF IInv
    <2>4. count' \in Counts
      BY <2>1 DEF IInv, Counts
    <2>5. QED BY <2>1, <2>3, <2>4, InvAfter DEF IInv
  <1>7. QED BY <1>1, <1>2, <1>3, <1>4, <1>5, <1>6 DEF Next

THEOREM Invariant == Spec => []IInv
  BY InvInit, InvNext, PTL DEF Spec

\* Each call keeps to its release: what it is about to write is backed up or
\* known to be new, and never both.
THEOREM TypeCorrect == Spec => []TypeOK
  <1>1. IInv => TypeOK
    <2> SUFFICES ASSUME IInv PROVE TypeOK
      OBVIOUS
    <2>1. ASSUME NEW p \in Requests PROVE /\ req[p] \in Call /\ Staged(req[p])
                                          /\ DOMAIN req[p].backup \subseteq AllPaths
      BY DEF IInv, Call, Backups
    <2>2. QED BY <2>1 DEF IInv, TypeOK, Call, Steps, Staged, Targets
  <1>2. QED BY <1>1, Invariant, PTL

-----------------------------------------------------------------------------
(* Files that nobody delivered *)

\* What the second preview found to be the owner's is not among what the call
\* writes, deletes or puts back, nor does the lock it will read again list it.
Spares(c, tree) ==
    \A f \in Paths : c.base[f] = UserBytes =>
        /\ f \notin Targets(c) \cup c.old \cup DOMAIN c.backup
        /\ c.pc = "stage" => f \notin ManagedBy(tree[LockPath])

SparesInv == \A p \in Requests : Past(req[p]) => Spares(req[p], disk)

LEMMA UnblockedIsClear ==
    ASSUME IInv, NEW r \in Releases, ~Blocking(r), NEW f \in Paths, disk[f] = UserBytes
    PROVE  f \notin DOMAIN Content[r] \cup {LockPath} \cup ManagedBy(disk[LockPath])
  <1>1. ~ManagedEdited /\ ~Occupied(r)
    BY DEF Blocking, ChangesBlock
  <1>2. f \notin ManagedBy(disk[LockPath])
    BY <1>1, BytesOfContent DEF ManagedEdited, ManagedBy
  <1>3. f \notin DOMAIN Content[r]
    BY <1>1, <1>2, DeliveryAssumption DEF Occupied
  <1>4. QED BY <1>2, <1>3, DeliveryAssumption

\* What a step takes from the owner the second preview did not see.
LEMMA StepTakesUnseen ==
    ASSUME IInv, SparesInv, NEW p \in Requests, ApplyStep(p),
           NEW f \in Paths, disk[f] = UserBytes, disk'[f] # UserBytes
    PROVE  Past(req[p]) /\ req'[p] # req[p] /\ req[p].base[f] # UserBytes
  <1> DEFINE c == req[p]
             r == req[p].release
  <1>1. /\ c \in Call /\ Staged(c) /\ disk \in [AllPaths -> Bytes] /\ f \in AllPaths
        /\ req \in [Requests -> Call] /\ f # LockPath
        /\ Past(c) => Spares(c, disk)
    BY DeliveryAssumption DEF IInv, SparesInv, AllPaths
  <1>2. CASE WriteFile(p)
    <2> DEFINE g == Head(c.todo)
    <2>1. /\ c.pc = "write" /\ c.todo # <<>> /\ disk' = [disk EXCEPT ![g] = Content[r][g]]
          /\ req'[p].todo = Tail(c.todo)
      BY <1>1, <1>2 DEF WriteFile, Call
    <2>2. g \in Range(c.todo) /\ Len(Tail(c.todo)) # Len(c.todo)
      BY <1>1, <2>1, TailOfInjective DEF Call, Staged
    <2>3. g \in Targets(c)
      BY <1>1, <2>1, <2>2 DEF Staged, Targets
    <2> HIDE DEF g
    <2>4. f = g
      BY <1>1, <2>1
    <2>5. QED BY <1>1, <2>1, <2>2, <2>3, <2>4 DEF Past, Spares
  <1>3. CASE DeleteOld(p)
    <2>1. PICK g \in c.old : /\ c.pc = "write" /\ disk' = [disk EXCEPT ![g] = Absent]
                             /\ req'[p].old = c.old \ {g}
      BY <1>1, <1>3 DEF DeleteOld, Call
    <2>2. f = g
      BY <1>1, <2>1
    <2>3. QED BY <1>1, <2>1, <2>2 DEF Past, Spares
  <1>4. CASE WriteLock(p)
    BY <1>1, <1>4 DEF WriteLock
  <1>5. CASE Restore(p) \/ RestoreFails(p)
    <2>1. PICK gone \in SUBSET c.created, back \in SUBSET DOMAIN c.backup :
             /\ c.pc = "restore" /\ disk' = PutBack(p, gone, back)
             /\ req'[p].pc = "receipt"
      <3>1. BackedUp(p) \subseteq DOMAIN c.backup
        BY DEF BackedUp
      <3>2. CASE Restore(p)
        BY <1>1, <3>1, <3>2 DEF Restore, Call
      <3>3. CASE RestoreFails(p)
        BY <1>1, <3>1, <3>3 DEF RestoreFails, Call
      <3>4. QED BY <1>5, <3>2, <3>3
    <2>2. f \in c.created \cup DOMAIN c.backup
      BY <1>1, <2>1 DEF PutBack
    <2>3. QED BY <1>1, <2>1, <2>2 DEF Past, Spares, Staged
  <1>6. CASE UNCHANGED disk
    BY <1>6
  <1>7. QED
    BY <1>2, <1>3, <1>4, <1>5, <1>6
       DEF ApplyStep, FirstPreview, SecondPreview, Refuse, StageFile, StageDeletions, Validate,
           RemoveStaging, WriteReceipt, CommitRow, RecordFails, OperationFails

LEMMA StepSpares ==
    ASSUME IInv, SparesInv, NEW p \in Requests, ApplyStep(p), Past(req'[p])
    PROVE  Spares(req'[p], disk')
  <1> DEFINE c == req[p]
             r == req[p].release
             d == req'[p]
  <1>1. /\ c \in Call /\ Staged(c) /\ disk \in [AllPaths -> Bytes] /\ req \in [Requests -> Call]
        /\ Past(c) => Spares(c, disk)
        /\ LockPath \notin Paths
    BY DeliveryAssumption DEF IInv, SparesInv
  <1>2. CASE SecondPreview(p)
    <2>1. /\ d = [c EXCEPT !.base = disk, !.prev = PreviousRelease,
                        !.status = IF NoOp(r) THEN "no_op" ELSE @,
                        !.todo = Append(Files[r], LockPath),
                        !.pc = IF Blocking(r) THEN "refused"
                               ELSE IF NoOp(r) THEN "receipt" ELSE "stage"]
          /\ c.pc = "preview_again" /\ UNCHANGED disk
      BY <1>1, <1>2 DEF SecondPreview
    <2>2. d.release = r /\ d.base = disk /\ d.backup = c.backup /\ d.old = c.old /\ ~Blocking(r)
      BY <1>1, <2>1 DEF Call, Past
    <2>3. r \in Releases /\ DOMAIN c.backup = {} /\ c.old = {}
      BY <1>1, <2>1 DEF Staged
    <2>4. QED BY <1>1, <2>1, <2>2, <2>3, UnblockedIsClear DEF Spares, Targets
  <1>3. CASE StageFile(p)
    <2> DEFINE f == Head(c.todo)
    <2>1. c.pc = "stage" /\ c.todo # <<>> /\ UNCHANGED disk
          /\ d = IF disk[f] = Absent
                 THEN [c EXCEPT !.created = @ \cup {f}, !.todo = Tail(@)]
                 ELSE [c EXCEPT !.backup = BackUp(@, {f}), !.todo = Tail(@)]
      BY <1>1, <1>3 DEF StageFile
    <2>2. f \in Targets(c) /\ Spares(c, disk)
      BY <1>1, <2>1, TailOfInjective DEF Call, Staged, Past
    <2>3. DOMAIN BackUp(c.backup, {f}) = DOMAIN c.backup \cup {f}
      BY DEF BackUp
    <2>4. /\ d.release = r /\ d.old = c.old /\ d.base = c.base /\ d.pc = "stage"
          /\ DOMAIN d.backup \subseteq DOMAIN c.backup \cup {f}
      BY <1>1, <2>1, <2>3 DEF Call
    <2> HIDE DEF f
    <2>5. QED BY <2>1, <2>2, <2>4 DEF Spares, Targets
  <1>4. CASE StageDeletions(p)
    <2> DEFINE old == ManagedBy(disk[LockPath]) \ DOMAIN Content[r]
               here == {f \in old : disk[f] # Absent}
    <2>1. c.pc = "stage" /\ UNCHANGED disk
          /\ d = [c EXCEPT !.old = old, !.backup = BackUp(@, here),
                           !.pc = "write", !.todo = Files[r]]
      BY <1>1, <1>4 DEF StageDeletions
    <2>2. DOMAIN BackUp(c.backup, here) = DOMAIN c.backup \cup here
      BY DEF BackUp
    <2>3. /\ d.release = r /\ d.old = old /\ d.base = c.base /\ d.pc = "write"
          /\ DOMAIN d.backup = DOMAIN c.backup \cup here
      BY <1>1, <2>1, <2>2 DEF Call
    <2>4. Spares(c, disk) /\ here \subseteq ManagedBy(disk[LockPath])
          /\ old \subseteq ManagedBy(disk[LockPath])
      BY <1>1, <2>1 DEF Past
    <2> HIDE DEF here, old
    <2>5. QED BY <2>1, <2>3, <2>4 DEF Spares, Targets
  <1>5. CASE \/ WriteFile(p) \/ DeleteOld(p) \/ Validate(p) \/ WriteLock(p) \/ RemoveStaging(p)
             \/ WriteReceipt(p) \/ CommitRow(p) \/ RecordFails(p)
             \/ OperationFails(p) \/ Restore(p) \/ RestoreFails(p)
    <2>1. /\ Past(c) /\ d.release = r /\ d.backup = c.backup /\ d.old \subseteq c.old
          /\ d.base = c.base /\ d.pc # "stage"
      <3>1. CASE DeleteOld(p)
        <4>1. CASE c.old # {}
          <5>1. PICK f \in c.old : d = [c EXCEPT !.old = @ \ {f}] /\ c.pc = "write"
            BY <1>1, <3>1, <4>1 DEF DeleteOld
          <5>2. QED BY <1>1, <5>1 DEF Call, Past
        <4>2. CASE c.old = {}
          BY <1>1, <3>1, <4>2 DEF DeleteOld, Move, Call, Past
        <4>3. QED BY <4>1, <4>2
      <3>2. CASE \/ WriteFile(p) \/ Validate(p) \/ WriteLock(p) \/ RemoveStaging(p)
                 \/ WriteReceipt(p) \/ CommitRow(p) \/ RecordFails(p)
                 \/ OperationFails(p) \/ Restore(p) \/ RestoreFails(p)
        BY <1>1, <3>2
           DEF WriteFile, Validate, WriteLock, RemoveStaging, WriteReceipt, CommitRow, RecordFails,
               OperationFails, Restore, RestoreFails, Move, Call, Past
      <3>3. QED BY <1>5, <3>1, <3>2
    <2>2. QED BY <1>1, <2>1 DEF Spares, Targets
  <1>6. CASE FirstPreview(p) \/ Refuse(p)
    BY <1>1, <1>6 DEF FirstPreview, Refuse, Move, Past, Call
  <1>7. QED
    BY <1>2, <1>3, <1>4, <1>5, <1>6 DEF ApplyStep

\* Calls do not overlap when they are served one after the other.
Serial == \A p, q \in Requests : p = q

LEMMA SparesInit == Init => SparesInv
  BY DEF Init, SparesInv, Idle, Past

LEMMA SparesNext == ASSUME Serial PROVE IInv /\ SparesInv /\ [Next]_vars => SparesInv'
  <1> SUFFICES ASSUME IInv, SparesInv, [Next]_vars,
                      NEW p \in Requests, Past(req'[p])
               PROVE  Spares(req'[p], disk')
    BY DEF SparesInv, Spares, Past, Targets
  <1>1. /\ req \in [Requests -> Call] /\ disk \in [AllPaths -> Bytes]
        /\ Past(req[p]) => Spares(req[p], disk) /\ Running(p)
    BY DEF IInv, SparesInv, Past, Running
  <1>2. CASE UNCHANGED vars
    BY <1>1, <1>2 DEF vars
  <1>3. ASSUME NEW q \in Requests, NEW r \in Releases, NEW rollback \in BOOLEAN, Apply(q, r, rollback)
        PROVE  Spares(req'[p], disk')
    <2>1. p = q
      BY DEF Serial
    <2>2. QED BY <1>1, <1>3, <2>1 DEF Apply, Past, Idle
  <1>4. ASSUME NEW q \in Requests, ApplyStep(q) PROVE Spares(req'[p], disk')
    <2>1. p = q
      BY DEF Serial
    <2>2. QED BY <1>4, <2>1, StepSpares
  <1>5. ASSUME NEW f \in AllPaths, Edit(f) PROVE Spares(req'[p], disk')
    <2>1. PICK b \in {Absent, Unreadable, UserBytes} :
             UNCHANGED req /\ disk' = [disk EXCEPT ![f] = b]
      BY <1>5 DEF Edit
    <2>2. disk'[LockPath] = disk[LockPath] \/ ManagedBy(disk'[LockPath]) = {}
      BY <1>1, <2>1, DeliveryAssumption DEF ManagedBy
    <2>3. QED BY <1>1, <2>1, <2>2 DEF Spares
  <1>6. ASSUME NEW r \in Releases, Damage(r) PROVE Spares(req'[p], disk')
    BY <1>1, <1>6 DEF Damage
  <1>7. CASE Crash
    BY <1>1, <1>7 DEF Crash, Past, Idle, Running
  <1>8. QED BY <1>2, <1>3, <1>4, <1>5, <1>6, <1>7 DEF Next

\* However the owner edits the checkout under a call, and wherever the call
\* fails or dies, it takes nothing that its second preview found to be the
\* owner's.
THEOREM SparesSeenFiles == ASSUME Serial PROVE Spec => SeenFilesKept
  <1>1. ASSUME IInv, SparesInv, [Next]_vars
        PROVE  [\A f \in Paths :
                  disk[f] = UserBytes /\ disk'[f] # UserBytes /\ count'.edits = count.edits =>
                     \E p \in Requests :
                        Running(p) /\ req'[p] # req[p] /\ req[p].base[f] # UserBytes]_vars
    <2> SUFFICES ASSUME NEW f \in Paths, disk[f] = UserBytes, disk'[f] # UserBytes,
                        count'.edits = count.edits
                 PROVE  \E p \in Requests :
                           Running(p) /\ req'[p] # req[p] /\ req[p].base[f] # UserBytes
      OBVIOUS
    <2>1. ASSUME NEW g \in AllPaths, Edit(g) PROVE FALSE
      BY <1>1, <2>1 DEF Edit, IInv, Counts
    <2>2. PICK p \in Requests : ApplyStep(p)
      BY <1>1, <2>1 DEF Next, Apply, Damage, Crash, vars
    <2>3. QED BY <1>1, <2>2, StepTakesUnseen DEF Past, Running
  <1>2. IInv /\ SparesInv /\ [Next]_vars => SparesInv'
    BY SparesNext
  <1>3. QED BY <1>1, <1>2, SparesInit, Invariant, PTL DEF Spec, SeenFilesKept

-----------------------------------------------------------------------------
(* Calls that do not overlap *)

Result(c) == Atomic!Delivered(c.base, c.release)

Old(c) == ManagedBy(c.base[LockPath]) \ DOMAIN Content[c.release]

\* A call that can still be undone, or whose result is on disk.
Undoable(c) == c.pc \in {"stage", "write", "validate", "lock", "unstage"}
Complete(c) == c.pc \in {"receipt", "row", "restore"} /\ c.status \in {"succeeded", "rolled_back"}

\* What a call remembers is enough to undo it.
Remembers(c) ==
    /\ c.release \notin damaged
    /\ c.base[LockPath] \in Releases \cup {Absent} /\ Atomic!Deliverable(c.base, c.release)
    /\ Undoable(c) => c.status = "none" /\ c.kept
    /\ c.pc \in {"receipt", "row"} => c.status # "none"
    /\ c.pc = "restore" => c.status \in {"none", "succeeded", "rolled_back"}
                           /\ (c.kept <=> c.status = "none")
    /\ Complete(c) => ~c.kept
    /\ c.status \in {"none", "succeeded", "rolled_back"} =>
          /\ \A f \in c.created : c.base[f] = Absent
          /\ \A f \in DOMAIN c.backup : c.backup[f] = c.base[f]
    /\ c.pc \in {"write", "validate", "lock"} => Old(c) \subseteq DOMAIN c.backup
    /\ c.pc = "write" => c.old \subseteq Old(c)

\* Where the checkout is between the one the call found and its result.
Between(c, tree) ==
    /\ c.status = "no_op" => tree = c.base /\ c.base[LockPath] = c.release
                             /\ \A f \in DOMAIN Content[c.release] : tree[f] = Content[c.release][f]
    /\ c.pc = "stage" => tree = c.base
    /\ c.pc = "write" =>
          \A f \in AllPaths :
             tree[f] = IF f \in Range(c.todo) \cup c.old \cup {LockPath}
                       THEN c.base[f] ELSE Result(c)[f]
    /\ c.pc \in {"validate", "lock"} =>
          \A f \in AllPaths : tree[f] = IF f = LockPath THEN c.base[f] ELSE Result(c)[f]
    /\ c.pc = "unstage" \/ Complete(c) => tree = Result(c)
    /\ c.pc = "restore" /\ c.kept =>
          \A f \in AllPaths :
             \/ tree[f] = c.base[f]
             \/ tree[f] = Result(c)[f] /\ f \in c.created \cup DOMAIN c.backup

Progress(c, tree) == Remembers(c) /\ Between(c, tree)

ProgressInv == /\ disk[LockPath] \in Releases \cup {Absent, Unreadable}
               /\ \A p \in Requests : Past(req[p]) => Progress(req[p], disk)

LEMMA AbstractDefs ==
    ASSUME NEW t, NEW r
    PROVE  /\ Atomic!Delivered(t, r) =
                 [f \in AllPaths |-> IF f = LockPath THEN r
                                   ELSE IF f \in DOMAIN Content[r] THEN Content[r][f]
                                   ELSE IF f \in ManagedBy(t[LockPath]) THEN Absent ELSE t[f]]
           /\ Atomic!Deliverable(t, r) <=>
                 /\ \A f \in ManagedBy(t[LockPath]) : t[f] = Content[t[LockPath]][f]
                 /\ t[LockPath] \in Releases \cup {Absent}
                 /\ \A f \in DOMAIN Content[r] \ ManagedBy(t[LockPath]) : t[f] = Absent
  BY DEF Atomic!Delivered, Atomic!Deliverable, Atomic!Intact, Atomic!RoomFor, Atomic!ManagedBy,
         Atomic!AllPaths, ManagedBy, AllPaths

\* The result of a delivery, path by path.
LEMMA ResultFacts ==
    ASSUME NEW c \in Call, c.release \in Releases
    PROVE  /\ DOMAIN Result(c) = AllPaths /\ Result(c) = [f \in AllPaths |-> Result(c)[f]]
           /\ Result(c)[LockPath] = c.release
           /\ \A f \in DOMAIN Content[c.release] : Result(c)[f] = Content[c.release][f]
           /\ \A f \in Old(c) : Result(c)[f] = Absent
           /\ \A f \in AllPaths : f \notin Targets(c) \cup Old(c) => Result(c)[f] = c.base[f]
  <1>1. LockPath \notin Paths /\ DOMAIN Content[c.release] \subseteq Paths
        /\ ManagedBy(c.base[LockPath]) \subseteq Paths
    BY DeliveryAssumption, ManagedPaths
  <1>2. Result(c) = [f \in AllPaths |-> IF f = LockPath THEN c.release
                                   ELSE IF f \in DOMAIN Content[c.release] THEN Content[c.release][f]
                                   ELSE IF f \in ManagedBy(c.base[LockPath]) THEN Absent ELSE c.base[f]]
    BY AbstractDefs DEF Result
  <1>3. QED BY <1>1, <1>2 DEF AllPaths, Old, Targets

\* A preview that finds nothing wrong sees a checkout the release can be
\* delivered to.
LEMMA UnblockedIsDeliverable ==
    ASSUME NEW r \in Releases, ~Blocking(r), disk[LockPath] \in Releases \cup {Absent, Unreadable}
    PROVE  /\ Atomic!Deliverable(disk, r) /\ r \notin damaged
           /\ disk[LockPath] \in Releases \cup {Absent}
  BY AbstractDefs DEF Blocking, ReleaseIssues, LockIssues, ChangesBlock, ManagedEdited, Occupied

LEMMA StepProgress ==
    ASSUME IInv, ProgressInv, NEW p \in Requests, ApplyStep(p), Past(req'[p])
    PROVE  Progress(req'[p], disk')
  <1> DEFINE c == req[p]
             r == req[p].release
             d == req'[p]
  <1>1. /\ c \in Call /\ Staged(c) /\ disk \in [AllPaths -> Bytes] /\ req \in [Requests -> Call]
        /\ Past(c) => Progress(c, disk) /\ r \in Releases
        /\ LockPath \in AllPaths /\ LockPath \notin Paths
        /\ disk[LockPath] \in Releases \cup {Absent, Unreadable}
    BY DeliveryAssumption DEF IInv, ProgressInv, AllPaths, Staged, Past
  <1>2. /\ c.base \in [AllPaths -> Bytes] /\ c.old \subseteq Paths /\ c.created \subseteq AllPaths
        /\ DOMAIN c.backup \subseteq AllPaths
    BY <1>1 DEF Call, Backups
  <1>3. ASSUME r \in Releases
        PROVE  /\ DOMAIN Result(c) = AllPaths /\ Result(c) = [f \in AllPaths |-> Result(c)[f]]
               /\ Result(c)[LockPath] = r
               /\ \A f \in DOMAIN Content[r] : Result(c)[f] = Content[r][f]
               /\ \A f \in Old(c) : Result(c)[f] = Absent
               /\ \A f \in AllPaths : f \notin Targets(c) \cup Old(c) => Result(c)[f] = c.base[f]
    BY <1>1, <1>3, ResultFacts
  <1>undo. /\ Undoable(c) => c.status = "none" /\ c.kept
           /\ c.pc = "stage" => disk = c.base
    BY <1>1 DEF Progress, Remembers, Between, Undoable, Past
  <1>4. CASE SecondPreview(p)
    <2>1. /\ d = [c EXCEPT !.base = disk, !.prev = PreviousRelease,
                        !.status = IF NoOp(r) THEN "no_op" ELSE @,
                        !.todo = Append(Files[r], LockPath),
                        !.pc = IF Blocking(r) THEN "refused"
                               ELSE IF NoOp(r) THEN "receipt" ELSE "stage"]
          /\ c.pc = "preview_again" /\ UNCHANGED disk
      BY <1>1, <1>4 DEF SecondPreview
    <2>2. /\ d.release = r /\ d.base = disk /\ ~Blocking(r) /\ d.kept = c.kept
          /\ d.created = c.created /\ d.backup = c.backup
          /\ \/ d.pc = "receipt" /\ d.status = "no_op" /\ NoOp(r)
             \/ d.pc = "stage" /\ d.status = c.status
      BY <1>1, <2>1 DEF Call, Past
    <2>3. r \in Releases /\ DOMAIN c.backup = {} /\ c.created = {} /\ c.status = "none" /\ c.kept
      BY <1>1, <2>1 DEF Staged
    <2>4. Atomic!Deliverable(disk, r) /\ r \notin damaged /\ disk[LockPath] \in Releases \cup {Absent}
      BY <1>1, <2>2, <2>3, UnblockedIsDeliverable
    <2>5. Remembers(d)
      BY <2>2, <2>3, <2>4 DEF Remembers, Undoable, Complete
    <2>6. Between(d, disk')
      <3>1. CASE d.pc = "receipt" /\ d.status = "no_op" /\ NoOp(r)
        <4>1. disk' = disk
          BY <2>1
        <4>2. d.base = disk /\ d.release = r
          BY <2>2
        <4> HIDE DEF d, r
        <4>3. QED BY <3>1, <4>1, <4>2 DEF Between, Complete, NoOp
      <3>2. CASE d.pc = "stage" /\ d.status = "none"
        BY <2>1, <2>2, <3>2 DEF Between, Complete
      <3>3. QED BY <2>2, <2>3, <3>1, <3>2
    <2>7. QED BY <2>5, <2>6 DEF Progress
  <1>5. CASE StageFile(p)
    <2> DEFINE f == Head(c.todo)
               b == BackUp(c.backup, {f})
    <2>1. c.pc = "stage" /\ c.todo # <<>> /\ UNCHANGED disk
          /\ d = IF disk[f] = Absent
                 THEN [c EXCEPT !.created = @ \cup {f}, !.todo = Tail(@)]
                 ELSE [c EXCEPT !.backup = b, !.todo = Tail(@)]
      BY <1>1, <1>5 DEF StageFile
    <2>2. Progress(c, disk) /\ disk = c.base
      BY <1>1, <1>undo, <2>1 DEF Past
    <2>3. /\ d.release = r /\ d.base = c.base /\ d.pc = "stage" /\ d.status = c.status
          /\ d.kept = c.kept
          /\ \/ d.created = c.created \cup {f} /\ d.backup = c.backup /\ disk[f] = Absent
             \/ d.created = c.created /\ d.backup = b
      BY <1>1, <2>1 DEF Call
    <2>4. /\ DOMAIN b = DOMAIN c.backup \cup {f}
          /\ \A g \in DOMAIN b : b[g] = IF g = f THEN disk[f] ELSE c.backup[g]
      BY DEF BackUp
    <2> HIDE DEF b, f
    <2>5. Remembers(c) /\ c.status = "none" /\ c.kept
      BY <1>undo, <2>1, <2>2 DEF Progress, Undoable
    <2>6. Remembers(d)
      BY <2>1, <2>2, <2>3, <2>4, <2>5 DEF Remembers, Undoable, Complete
    <2>7. Between(d, disk')
      BY <2>1, <2>2, <2>3, <2>5 DEF Between, Undoable, Complete
    <2>8. QED BY <2>6, <2>7 DEF Progress
  <1>6. CASE StageDeletions(p)
    <2> DEFINE old == ManagedBy(disk[LockPath]) \ DOMAIN Content[r]
               here == {f \in old : disk[f] # Absent}
               b == BackUp(c.backup, here)
    <2>1. c.pc = "stage" /\ c.todo = <<>> /\ UNCHANGED disk
          /\ d = [c EXCEPT !.old = old, !.backup = b, !.pc = "write", !.todo = Files[r]]
      BY <1>1, <1>6 DEF StageDeletions
    <2>2. Progress(c, disk) /\ disk = c.base /\ r \in Releases
      BY <1>1, <1>undo, <2>1 DEF Past
    <2>3. /\ d.release = r /\ d.base = c.base /\ d.pc = "write" /\ d.status = c.status
          /\ d.kept = c.kept /\ d.created = c.created /\ d.backup = b /\ d.old = old
          /\ d.todo = Files[r]
      BY <1>1, <2>1 DEF Call
    <2>4. /\ DOMAIN b = DOMAIN c.backup \cup here
          /\ \A g \in DOMAIN b : b[g] = IF g \in here THEN disk[g] ELSE c.backup[g]
      BY DEF BackUp
    <2>5. old = Old(c) /\ Old(d) = Old(c) /\ Result(d) = Result(c) /\ Targets(d) = Targets(c)
      BY <2>2, <2>3 DEF Old, Result, Targets
    <2>6. \A g \in old : disk[g] # Absent
      BY <2>2, AbstractDefs, BytesOfContent DEF Progress, Remembers, Between, ManagedBy
    <2>7. here = old
      BY <2>6
    <2>8. Range(Files[r]) = DOMAIN Content[r]
      BY <2>2, FilesOfRelease
    <2>9. \A f \in AllPaths : disk[f] = IF f \in Range(d.todo) \cup d.old \cup {LockPath}
                                        THEN d.base[f] ELSE Result(d)[f]
      BY <1>3, <2>2, <2>3, <2>5, <2>8 DEF Targets
    <2> HIDE DEF b, here, old
    <2>10. Remembers(d)
      BY <2>1, <2>2, <2>3, <2>4, <2>5, <2>7, <2>9 DEF Progress, Remembers, Undoable, Complete
    <2>11. Between(d, disk')
      BY <2>1, <2>2, <2>3, <2>4, <2>5, <2>7, <2>9 DEF Progress, Between, Undoable, Complete
    <2>12. QED BY <2>10, <2>11 DEF Progress
  <1>7. CASE WriteFile(p)
    <2> DEFINE f == Head(c.todo)
    <2>1. c.pc = "write" /\ c.todo # <<>> /\ d = [c EXCEPT !.todo = Tail(@)]
          /\ disk' = [disk EXCEPT ![f] = Content[r][f]]
      BY <1>1, <1>7 DEF WriteFile
    <2>2. Progress(c, disk) /\ r \in Releases
      BY <1>1, <2>1 DEF Past
    <2>3. /\ d.release = r /\ d.base = c.base /\ d.pc = "write" /\ d.status = c.status
          /\ d.kept = c.kept /\ d.created = c.created /\ d.backup = c.backup /\ d.old = c.old
          /\ d.todo = Tail(c.todo)
      BY <1>1, <2>1 DEF Call
    <2>4. f \in Range(c.todo) /\ Range(Tail(c.todo)) = Range(c.todo) \ {f}
      BY <1>1, <2>1, TailOfInjective DEF Call, Staged
    <2>5. f \in DOMAIN Content[r] /\ f \in AllPaths /\ f # LockPath /\ f \notin c.old
      BY <1>1, <2>1, <2>2, <2>4, DeliveryAssumption DEF Staged, AllPaths
    <2>6. Old(d) = Old(c) /\ Result(d) = Result(c)
      BY <2>3 DEF Old, Result
    <2> HIDE DEF f
    <2>7. \A g \in AllPaths : disk'[g] = IF g \in Range(d.todo) \cup d.old \cup {LockPath}
                                         THEN d.base[g] ELSE Result(d)[g]
      BY <1>1, <1>3, <2>1, <2>2, <2>3, <2>4, <2>5, <2>6 DEF Progress, Remembers, Between
    <2>8. Remembers(d)
      <3>1. Remembers(c) /\ c.status = "none" /\ c.kept /\ d.pc = c.pc /\ c.release = d.release
        BY <1>undo, <2>1, <2>2, <2>3 DEF Progress, Undoable
      <3>2. c.pc = "write"
        BY <2>1
      <3> HIDE DEF c, d
      <3>3. QED BY <2>3, <2>6, <3>1, <3>2 DEF Remembers, Undoable, Complete
    <2>9. Between(d, disk')
      BY <1>undo, <2>1, <2>3, <2>7 DEF Between, Undoable, Complete
    <2>10. QED BY <2>8, <2>9 DEF Progress
  <1>8. CASE DeleteOld(p)
    <2>1. c.pc = "write" /\ c.todo = <<>> /\ Range(c.todo) = {} /\ Progress(c, disk) /\ r \in Releases
      BY <1>1, <1>8 DEF DeleteOld, Past, Range
    <2>2. CASE c.old # {}
      <3>1. PICK f \in c.old : d = [c EXCEPT !.old = @ \ {f}] /\ disk' = [disk EXCEPT ![f] = Absent]
        BY <1>1, <1>8, <2>2 DEF DeleteOld
      <3>2. /\ d.release = r /\ d.base = c.base /\ d.pc = "write" /\ d.status = c.status
            /\ d.kept = c.kept /\ d.created = c.created /\ d.backup = c.backup
            /\ d.old = c.old \ {f} /\ d.todo = c.todo
        BY <1>1, <2>1, <3>1 DEF Call
      <3>3. f \in AllPaths /\ f # LockPath /\ Result(c)[f] = Absent
        BY <1>1, <1>2, <1>3, <2>1, <3>1 DEF Progress, Remembers, Between, AllPaths
      <3>4. Old(d) = Old(c) /\ Result(d) = Result(c)
        BY <3>2 DEF Old, Result
      <3>5. \A g \in AllPaths : disk'[g] = IF g \in Range(d.todo) \cup d.old \cup {LockPath}
                                           THEN d.base[g] ELSE Result(d)[g]
        BY <1>1, <2>1, <3>1, <3>2, <3>3, <3>4 DEF Progress, Remembers, Between
        <3>6. Remembers(d)
        BY <2>1, <3>2, <3>4, <3>5 DEF Progress, Remembers, Undoable, Complete
      <3>7. Between(d, disk')
        BY <1>undo, <2>1, <3>2, <3>5 DEF Between, Undoable, Complete
      <3>8. QED BY <3>6, <3>7 DEF Progress
    <2>3. CASE c.old = {}
      <3>1. d = [c EXCEPT !.pc = "validate"] /\ UNCHANGED disk
        BY <1>1, <1>8, <2>3 DEF DeleteOld, Move
      <3>2. /\ d.release = r /\ d.base = c.base /\ d.pc = "validate" /\ d.status = c.status
            /\ d.kept = c.kept /\ d.created = c.created /\ d.backup = c.backup
        BY <1>1, <3>1 DEF Call
      <3>3. Old(d) = Old(c) /\ Result(d) = Result(c)
        BY <3>2 DEF Old, Result
      <3>4. QED BY <2>1, <2>3, <3>1, <3>2, <3>3 DEF Progress, Remembers, Between, Undoable, Complete
    <2>4. QED BY <2>2, <2>3
  <1>9. ASSUME NEW pc \in {"lock", "restore"}, c.pc = "validate" \/ pc = "restore",
               c.pc \in {"stage", "write", "validate", "lock"}, Move(p, pc), UNCHANGED disk
        PROVE  Progress(d, disk')
    <2>1. d = [c EXCEPT !.pc = pc]
      BY <1>1, <1>9 DEF Move
    <2>2. /\ d.release = r /\ d.base = c.base /\ d.pc = pc /\ d.status = c.status
          /\ d.kept = c.kept /\ d.created = c.created /\ d.backup = c.backup
      BY <1>1, <2>1 DEF Call
    <2>3. Old(d) = Old(c) /\ Result(d) = Result(c)
      BY <2>2 DEF Old, Result
    <2>4. Progress(c, disk) /\ r \in Releases
      BY <1>1, <1>9 DEF Past
    <2>5. CASE pc = "restore"
      <3>1. ASSUME NEW f \in AllPaths, disk[f] # c.base[f]
            PROVE  disk[f] = Result(c)[f] /\ f \in c.created \cup DOMAIN c.backup
        <4>1. c.pc \in {"write", "validate", "lock"} /\ disk[f] = Result(c)[f]
          BY <1>9, <2>4, <2>5, <3>1 DEF Progress, Remembers, Between
        <4>2. f \in Targets(c) \cup Old(c)
          BY <1>3, <2>4, <3>1, <4>1
        <4>3. QED BY <1>1, <2>4, <4>1, <4>2 DEF Progress, Remembers, Between, Staged
      <3>2. c.status = "none" /\ c.kept
        BY <1>9, <2>4 DEF Progress, Remembers, Between, Undoable
      <3>3. Remembers(d)
        BY <2>2, <2>4, <2>5, <3>2 DEF Progress, Remembers, Undoable, Complete
      <3>4. Between(d, disk')
        BY <1>9, <2>2, <2>3, <2>5, <3>1, <3>2 DEF Between, Undoable, Complete
      <3>5. QED BY <3>3, <3>4 DEF Progress
    <2>6. CASE pc = "lock"
      BY <1>9, <2>2, <2>3, <2>4, <2>6 DEF Progress, Remembers, Between, Undoable, Complete
    <2>7. QED BY <2>5, <2>6
  <1>10. CASE Validate(p) \/ OperationFails(p)
    <2>1. CASE Validate(p)
      <3>1. c.pc = "validate" /\ UNCHANGED disk /\ (Move(p, "lock") \/ Move(p, "restore"))
        BY <2>1 DEF Validate
      <3>2. QED BY <1>9, <3>1
    <2>2. CASE OperationFails(p)
      BY <1>9, <2>2 DEF OperationFails
    <2>3. QED BY <1>10, <2>1, <2>2
  <1>11. CASE WriteLock(p)
    <2>1. c.pc = "lock" /\ d = [c EXCEPT !.pc = "unstage"] /\ disk' = [disk EXCEPT ![LockPath] = r]
      BY <1>1, <1>11 DEF WriteLock, Move
    <2>2. /\ d.release = r /\ d.base = c.base /\ d.pc = "unstage" /\ d.status = c.status
          /\ d.kept = c.kept /\ d.created = c.created /\ d.backup = c.backup
      BY <1>1, <2>1 DEF Call
    <2>3. Result(d) = Result(c) /\ Progress(c, disk) /\ r \in Releases
      BY <1>1, <2>1, <2>2 DEF Result, Past
    <2>4. \A f \in AllPaths : disk'[f] = Result(c)[f]
      BY <1>1, <1>3, <2>1, <2>3 DEF Progress, Remembers, Between
    <2>5. disk' = Result(c)
      BY <1>1, <1>3, <2>1, <2>3, <2>4
    <2>6. Remembers(d)
      BY <2>1, <2>2, <2>3, <2>5 DEF Progress, Remembers, Undoable, Complete
    <2>7. Between(d, disk')
      BY <1>undo, <2>1, <2>2, <2>3, <2>5 DEF Between, Undoable, Complete
    <2>8. QED BY <2>6, <2>7 DEF Progress
  <1>12. CASE RemoveStaging(p)
    <2>1. c.pc = "unstage" /\ UNCHANGED disk
          /\ d = [c EXCEPT !.kept = FALSE, !.pc = "receipt",
                    !.status = IF c.from = NoRelease THEN "succeeded" ELSE "rolled_back"]
      BY <1>1, <1>12 DEF RemoveStaging
    <2>2. /\ d.release = r /\ d.base = c.base /\ d.pc = "receipt" /\ ~d.kept
          /\ d.status \in {"succeeded", "rolled_back"}
          /\ d.created = c.created /\ d.backup = c.backup
      BY <1>1, <2>1 DEF Call
    <2>3. Result(d) = Result(c) /\ Progress(c, disk)
      BY <1>1, <2>1, <2>2 DEF Result, Past
    <2>4. QED BY <2>1, <2>2, <2>3 DEF Progress, Remembers, Between, Undoable, Complete
  <1>13. CASE WriteReceipt(p) \/ CommitRow(p) \/ RecordFails(p)
    <2>1. /\ c.pc \in {"receipt", "row"} /\ UNCHANGED disk
          /\ \/ d = [c EXCEPT !.pc = "row"]
             \/ d = [c EXCEPT !.pc = "restore"] /\ c.status \in {"succeeded", "rolled_back"}
             \/ d = [c EXCEPT !.pc = "done"]
      BY <1>1, <1>13 DEF WriteReceipt, CommitRow, RecordFails, Move
    <2>2. /\ d.release = r /\ d.base = c.base /\ d.status = c.status
          /\ d.kept = c.kept /\ d.created = c.created /\ d.backup = c.backup
          /\ \/ d.pc = "row"
             \/ d.pc = "restore" /\ c.status \in {"succeeded", "rolled_back"}
      BY <1>1, <2>1 DEF Call, Past
    <2>3. Result(d) = Result(c) /\ Progress(c, disk)
      BY <1>1, <2>1, <2>2 DEF Result, Past
    <2>4. Remembers(d)
      BY <2>1, <2>2, <2>3 DEF Progress, Remembers, Undoable, Complete
    <2>5. /\ Complete(c) => ~c.kept /\ disk = Result(c)
          /\ c.status = "no_op" => disk = c.base /\ c.base[LockPath] = r
                             /\ \A f \in DOMAIN Content[r] : disk[f] = Content[r][f]
      BY <2>3 DEF Progress, Remembers, Between
    <2>6. Between(d, disk')
      BY <2>1, <2>2, <2>3, <2>5 DEF Between, Complete
    <2>7. QED BY <2>4, <2>6 DEF Progress
  <1>14. CASE Restore(p) \/ RestoreFails(p)
    <2>1. PICK status \in {"failed", "recovery_required"} :
             c.pc = "restore" /\ d = [c EXCEPT !.pc = "receipt", !.status = status]
      BY <1>1, <1>14 DEF Restore, RestoreFails
    <2>2. d.release = r /\ d.base = c.base /\ d.status = status /\ d.pc = "receipt"
      BY <1>1, <2>1 DEF Call
    <2>3. Progress(c, disk)
      BY <1>1, <2>1 DEF Past
    <2>4. QED BY <2>1, <2>2, <2>3 DEF Progress, Remembers, Between, Undoable, Complete
  <1>15. CASE FirstPreview(p) \/ Refuse(p)
    BY <1>1, <1>15 DEF FirstPreview, Refuse, Move, Past, Call
  <1>16. QED
    BY <1>4, <1>5, <1>6, <1>7, <1>8, <1>10, <1>11, <1>12, <1>13, <1>14, <1>15 DEF ApplyStep

\* A lock is never something a delivery did not write.
LEMMA StepLock ==
    ASSUME IInv, ProgressInv, NEW p \in Requests, ApplyStep(p)
    PROVE  disk'[LockPath] \in Releases \cup {Absent, Unreadable}
  <1> DEFINE c == req[p]
             r == req[p].release
  <1>1. /\ c \in Call /\ Staged(c) /\ disk \in [AllPaths -> Bytes]
        /\ Past(c) => Progress(c, disk) /\ r \in Releases
        /\ LockPath \in AllPaths /\ LockPath \notin Paths
        /\ disk[LockPath] \in Releases \cup {Absent, Unreadable}
    BY DeliveryAssumption DEF IInv, ProgressInv, AllPaths, Staged, Past
  <1>2. CASE WriteFile(p)
    <2> DEFINE f == Head(c.todo)
    <2>1. c.pc = "write" /\ c.todo # <<>> /\ disk' = [disk EXCEPT ![f] = Content[r][f]]
      BY <1>2 DEF WriteFile
    <2>2. f \in Range(c.todo)
      BY <1>1, <2>1, TailOfInjective DEF Call, Staged
    <2>3. f \in Paths
      BY <1>1, <2>1, <2>2, DeliveryAssumption DEF Staged, Past
    <2> HIDE DEF f
    <2>4. QED BY <1>1, <2>1, <2>3
  <1>3. CASE DeleteOld(p)
    BY <1>1, <1>3 DEF DeleteOld
  <1>4. CASE WriteLock(p)
    BY <1>1, <1>4 DEF WriteLock, Past
  <1>5. ASSUME NEW gone, NEW back \in SUBSET DOMAIN c.backup, c.pc = "restore",
               disk' = PutBack(p, gone, back),
               back # {} => c.kept
        PROVE  disk'[LockPath] \in Releases \cup {Absent, Unreadable}
    <2>1. c.kept => c.status = "none"
      BY <1>1, <1>5 DEF Progress, Remembers, Past
    <2>2. LockPath \in back => c.backup[LockPath] \in Releases \cup {Absent}
      BY <1>1, <1>5, <2>1 DEF Progress, Remembers, Past
    <2>3. QED BY <1>1, <1>5, <2>2 DEF PutBack
  <1>6. CASE Restore(p)
    BY <1>5, <1>6 DEF Restore, BackedUp
  <1>7. CASE RestoreFails(p)
    BY <1>5, <1>7 DEF RestoreFails, BackedUp
  <1>8. CASE UNCHANGED disk
    BY <1>1, <1>8
  <1>9. QED
    BY <1>2, <1>3, <1>4, <1>6, <1>7, <1>8
       DEF ApplyStep, FirstPreview, SecondPreview, Refuse, StageFile, StageDeletions, Validate,
           RemoveStaging, WriteReceipt, CommitRow, RecordFails, OperationFails

LEMMA ProgressInit == Init => ProgressInv
  BY DeliveryAssumption DEF Init, ProgressInv, Idle, Past

LEMMA ProgressAfter ==
    ASSUME disk'[LockPath] \in Releases \cup {Absent, Unreadable},
           \A p \in Requests : Past(req'[p]) => Progress(req'[p], disk') /\ req'[p].release \notin damaged'
    PROVE  ProgressInv'
  <1>1. ASSUME NEW p \in Requests, Past(req'[p]) PROVE Progress(req[p], disk)'
    BY <1>1 DEF Progress, Remembers, Between, Undoable, Complete, Old, Result
  <1>2. QED BY <1>1 DEF ProgressInv, Past

LEMMA ProgressNext ==
    ASSUME EditsInFlight = FALSE, Serial PROVE IInv /\ ProgressInv /\ [Next]_vars => ProgressInv'
  <1> SUFFICES ASSUME IInv, ProgressInv, [Next]_vars PROVE ProgressInv'
    OBVIOUS
  <1>1. /\ req \in [Requests -> Call] /\ disk \in [AllPaths -> Bytes]
        /\ disk[LockPath] \in Releases \cup {Absent, Unreadable}
        /\ LockPath \in AllPaths
    BY DEF IInv, ProgressInv, AllPaths
  <1>2. ASSUME NEW p \in Requests, Past(req[p])
        PROVE  Progress(req[p], disk) /\ req[p].release \notin damaged /\ Running(p)
    BY <1>2 DEF ProgressInv, Progress, Remembers, Past, Running
  <1>3. CASE UNCHANGED vars
    BY <1>1, <1>2, <1>3, ProgressAfter DEF vars
  <1>4. ASSUME NEW p \in Requests, NEW r \in Releases, NEW rollback \in BOOLEAN, Apply(p, r, rollback)
        PROVE  ProgressInv'
    <2>1. /\ UNCHANGED <<disk, damaged>>
          /\ req' = [req EXCEPT ![p] = [Idle EXCEPT !.pc = "preview", !.release = r,
                        !.from = IF rollback /\ ~ReleaseIssues(r) THEN PreviousRelease ELSE NoRelease]]
      BY <1>4 DEF Apply
    <2>2. ~Past(req'[p])
      BY <1>1, <2>1 DEF Past, Idle
    <2>3. \A q \in Requests : q # p => req'[q] = req[q]
      BY <1>1, <2>1
    <2>4. QED BY <1>1, <1>2, <2>1, <2>2, <2>3, ProgressAfter
  <1>5. ASSUME NEW p \in Requests, ApplyStep(p) PROVE ProgressInv'
    <2>1. \A q \in Requests : q = p
      BY DEF Serial
    <2>2. disk'[LockPath] \in Releases \cup {Absent, Unreadable} /\ UNCHANGED damaged
      BY <1>5, StepLock, StepDisk
    <2>3. Past(req'[p]) => Progress(req'[p], disk')
      BY <1>5, StepProgress
    <2>4. QED BY <2>1, <2>2, <2>3, ProgressAfter DEF Progress, Remembers
  <1>6. ASSUME NEW f \in AllPaths, Edit(f) PROVE ProgressInv'
    <2>1. UNCHANGED req /\ \A p \in Requests : ~Running(p)
      BY <1>6 DEF Edit
    <2>2. disk'[LockPath] \in Releases \cup {Absent, Unreadable}
      BY <1>1, <1>6 DEF Edit
    <2>3. QED BY <1>2, <2>1, <2>2, ProgressAfter
  <1>7. ASSUME NEW r \in Releases, Damage(r) PROVE ProgressInv'
    <2>1. UNCHANGED <<disk, req>> /\ damaged' \subseteq damaged \cup {r}
          /\ \A p \in Requests : Running(p) => req[p].release # r
      BY <1>7 DEF Damage
    <2>2. QED BY <1>1, <1>2, <2>1, ProgressAfter
  <1>8. CASE Crash
    <2>1. /\ UNCHANGED <<disk, damaged>>
          /\ req' = [p \in Requests |-> IF Running(p) THEN Idle ELSE req[p]]
      BY <1>8 DEF Crash
    <2>2. \A p \in Requests : ~Past(req'[p])
      BY <2>1 DEF Past, Idle, Running
    <2>3. QED BY <1>1, <2>1, <2>2, ProgressAfter
  <1>9. QED BY <1>3, <1>4, <1>5, <1>6, <1>7, <1>8 DEF Next

\* A delivery that is recorded as made, or as not needed, verifies.
THEOREM RecordsVerify ==
    ASSUME EditsInFlight = FALSE, Serial PROVE Spec => []RecordedVerifies
  <1>1. IInv /\ ProgressInv => RecordedVerifies
    <2> SUFFICES ASSUME IInv, ProgressInv, NEW p \in Requests, req[p].pc \in {"receipt", "row"},
                        req[p].status \in {"succeeded", "rolled_back", "no_op"}
                 PROVE  VerifyOk(req[p].release)
      BY DEF RecordedVerifies
    <2> DEFINE c == req[p]
               r == req[p].release
    <2>1. c \in Call /\ r \in Releases /\ Progress(c, disk)
      BY DEF IInv, ProgressInv, Past, Staged
    <2>2. disk[LockPath] = r /\ \A f \in DOMAIN Content[r] : disk[f] = Content[r][f]
      BY <2>1, ResultFacts DEF Progress, Between, Complete
    <2>3. r \notin damaged /\ r # Unreadable
      BY <2>1, DeliveryAssumption DEF Progress, Remembers
    <2>4. QED
      BY <2>1, <2>2, <2>3 DEF VerifyOk, Blocking, ReleaseIssues, LockIssues, ChangesBlock,
                              ManagedEdited, Occupied, ManagedBy
  <1>2. IInv /\ ProgressInv /\ [Next]_vars => ProgressInv'
    BY ProgressNext
  <1>3. QED BY <1>1, <1>2, ProgressInit, Invariant, PTL DEF Spec

-----------------------------------------------------------------------------
(* Calls that do not overlap implement CheckoutDelivery *)

\* What the owner sees while call c runs on the checkout tree.
View(c, tree) ==
    IF \/ c.pc \in {"preview", "preview_again", "refused"}
       \/ c.status \in {"failed", "recovery_required"}
       \/ c.pc = "restore" /\ ~c.kept
    THEN tree ELSE c.base

Faults == count.crashes + count.losses

\* The backups are only gone where a receipt could not be written.
LossInv == \A p \in Requests : req[p].pc = "restore" /\ ~req[p].kept => count.losses > 0

LEMMA SeenOf ==
    ASSUME Serial, NEW p \in Requests
    PROVE  /\ Seen = IF Running(p) THEN View(req[p], disk) ELSE disk
           /\ Seen' = IF req'[p].pc \notin {"idle", "done"} THEN View(req'[p], disk') ELSE disk'
  <1>1. \A q \in Requests : q = p
    BY DEF Serial
  <1>2. Seen = IF Running(p) THEN View(req[p], disk) ELSE disk
    <2>1. CASE Running(p)
      <3>1. (CHOOSE q \in Requests : Running(q)) = p
        BY <1>1, <2>1
      <3>2. QED BY <2>1, <3>1 DEF Seen, View
    <2>2. CASE ~Running(p)
      BY <1>1, <2>2 DEF Seen
    <2>3. QED BY <2>1, <2>2
  <1>3. Seen' = IF Running(p)' THEN View(req'[p], disk') ELSE disk'
    <2>1. CASE Running(p)'
      <3>1. (CHOOSE q \in Requests : Running(q)') = p
        BY <1>1, <2>1
      <3>2. QED BY <2>1, <3>1 DEF Seen, View
    <2>2. CASE ~Running(p)'
      BY <1>1, <2>2 DEF Seen
    <2>3. QED BY <2>1, <2>2
  <1>4. QED BY <1>2, <1>3 DEF Running

LEMMA SeenIdle ==
    ASSUME \A p \in Requests : ~Running(p) PROVE Seen = disk
  BY DEF Seen

\* One delivery that stops half way.
LEMMA TornView ==
    ASSUME IInv, NEW c \in Call, Progress(c, disk), c.release \in Releases,
           Seen = c.base, NEW tree \in [AllPaths -> Bytes], Seen' = tree,
           c.created \subseteq Targets(c),
           \A f \in AllPaths : \/ tree[f] \in {c.base[f], Result(c)[f]}
                               \/ f \in c.created /\ tree[f] = Absent
    PROVE  Atomic!Tear(c.release)
  <1>1. Atomic!Deliverable(Seen, c.release)
    BY DEF Progress, Remembers
  <1>2. Result(c) = Atomic!Delivered(Seen, c.release)
    BY DEF Result
  <1>3. ASSUME NEW f \in AllPaths, f \notin Targets(c) \cup ManagedBy(c.base[LockPath])
        PROVE  tree[f] = c.base[f]
    BY <1>3, ResultFacts DEF Old
  <1>4. Atomic!AllPaths = AllPaths /\ \A lock : Atomic!ManagedBy(lock) = ManagedBy(lock)
    BY DEF Atomic!AllPaths, AllPaths, Atomic!ManagedBy, ManagedBy
  <1>5. QED BY <1>1, <1>2, <1>3, <1>4 DEF Atomic!Tear, Targets

\* A step of the abstract delivery, or none.
Simulated ==
    \/ Atomic!Next
    \/ Seen' = Seen /\ UNCHANGED count.edits /\ Faults' = Faults

\* The additions of a delivery whose receipt is lost are removed again.
LEMMA WithdrawnView ==
    ASSUME NEW c \in Call, c.release \in Releases, Seen = Result(c),
           Seen' = [f \in AllPaths |-> IF f \in c.created THEN Absent ELSE Result(c)[f]],
           c.created \subseteq Targets(c), Faults > 0, UNCHANGED count
    PROVE  Atomic!Withdraw(c.release)
  <1>1. /\ Atomic!AllPaths = AllPaths /\ Atomic!ManagedBy(c.release) = DOMAIN Content[c.release]
    BY DEF Atomic!AllPaths, AllPaths, Atomic!ManagedBy
  <1>2. Seen[LockPath] = c.release /\ Atomic!Intact(Seen)
    BY <1>1, ResultFacts DEF Atomic!Intact
  <1>3. DOMAIN Seen' = AllPaths
    OBVIOUS
  <1>4. ASSUME NEW f \in AllPaths
        PROVE  Seen'[f] \in IF f \in DOMAIN Content[c.release] \cup {LockPath}
                           THEN {Seen[f], Absent} ELSE {Seen[f]}
    BY DEF Targets
  <1>5. QED BY <1>1, <1>2, <1>3, <1>4 DEF Atomic!Withdraw, Faults

\* Some of the additions are removed and some cannot be.
LEMMA TornResult ==
    ASSUME NEW c \in Call, c.release \in Releases, Seen = Result(c),
           NEW gone \in SUBSET c.created, c.created \subseteq Targets(c),
           Seen' = [f \in AllPaths |-> IF f \in gone THEN Absent ELSE Result(c)[f]]
    PROVE  Atomic!Tear(c.release)
  <1>1. /\ Atomic!AllPaths = AllPaths /\ Atomic!ManagedBy(c.release) = DOMAIN Content[c.release]
    BY DEF Atomic!AllPaths, AllPaths, Atomic!ManagedBy
  <1>2. Seen[LockPath] = c.release /\ Atomic!Intact(Seen)
    BY <1>1, ResultFacts DEF Atomic!Intact
  <1>3. Atomic!Deliverable(Seen, c.release)
    BY <1>1, <1>2 DEF Atomic!Deliverable, Atomic!RoomFor
  <1>4. ASSUME NEW f \in AllPaths
        PROVE  Seen'[f] \in IF f \in DOMAIN Content[c.release] \cup {LockPath}
                           THEN {Seen[f], Absent} ELSE {Seen[f]}
    BY DEF Targets
  <1>5. QED BY <1>1, <1>2, <1>3, <1>4 DEF Atomic!Tear

\* Each step of a call is a delivery, a fault, a withdrawal or nothing.
LEMMA StepSimulates ==
    ASSUME IInv, ProgressInv, LossInv, Serial, NEW p \in Requests, ApplyStep(p)
    PROVE  Simulated
  <1> DEFINE c == req[p]
             r == req[p].release
             d == req'[p]
  <1>1. /\ c \in Call /\ Staged(c) /\ disk \in [AllPaths -> Bytes] /\ req \in [Requests -> Call]
        /\ Past(c) => Progress(c, disk) /\ r \in Releases
        /\ count \in Counts
    BY DEF IInv, ProgressInv, Staged, Past
  <1>after. disk' \in [AllPaths -> Bytes] /\ count'.edits = count.edits /\ d \in Call
    BY StepDisk, StepCalls
  <1>2. /\ Seen = IF Running(p) THEN View(c, disk) ELSE disk
        /\ Seen' = IF d.pc \notin {"idle", "done"} THEN View(d, disk') ELSE disk'
    BY SeenOf
  <1>3. ASSUME UNCHANGED count PROVE Faults' = Faults /\ UNCHANGED count.edits
    BY <1>3 DEF Faults
  <1>4. CASE FirstPreview(p) \/ Refuse(p)
    <2>1. UNCHANGED <<disk, count>> /\ c.pc \in {"preview", "refused"}
          /\ d.pc \in {"refused", "preview_again", "done"}
      BY <1>1, <1>4 DEF FirstPreview, Refuse, Move, Call
    <2>2. Seen = disk /\ Seen' = disk'
      BY <1>2, <2>1 DEF Running, View
    <2>3. QED BY <1>3, <2>1, <2>2 DEF Simulated
  <1>5. CASE SecondPreview(p)
    <2>1. /\ d = [c EXCEPT !.base = disk, !.prev = PreviousRelease,
                        !.status = IF NoOp(r) THEN "no_op" ELSE @,
                        !.todo = Append(Files[r], LockPath),
                        !.pc = IF Blocking(r) THEN "refused"
                               ELSE IF NoOp(r) THEN "receipt" ELSE "stage"]
          /\ c.pc = "preview_again" /\ UNCHANGED <<disk, count>>
      BY <1>1, <1>5 DEF SecondPreview
    <2>2. d.base = disk
      BY <1>1, <2>1 DEF Call
    <2>3. Seen = disk /\ Seen' = disk'
      BY <1>2, <2>1, <2>2 DEF Running, View
    <2>4. QED BY <1>3, <2>1, <2>3 DEF Simulated
  <1>6. ASSUME Past(c), d.base = c.base, UNCHANGED <<count.edits>>, Faults' = Faults,
               c.status \notin {"failed", "recovery_required"}, c.pc = "restore" => c.kept,
               d.status \notin {"failed", "recovery_required"}, d.pc = "restore" => d.kept,
               Past(d)
        PROVE  Simulated
    <2>1. Seen = c.base /\ Seen' = c.base
      BY <1>2, <1>6 DEF View, Running, Past
    <2>2. QED BY <1>6, <2>1 DEF Simulated
  <1>undo. ASSUME Undoable(c), d.base = c.base, d.status = c.status, d.kept = c.kept, Past(d),
                  UNCHANGED <<count.edits>>, Faults' = Faults
           PROVE  Simulated
    <2>1. c.status = "none" /\ c.kept
      BY <1>1, <1>undo DEF Progress, Remembers, Undoable, Past
    <2>2. QED BY <1>6, <1>undo, <2>1 DEF Undoable, Past
  <1>7. CASE StageFile(p) \/ StageDeletions(p) \/ WriteFile(p)
    <2>1. Undoable(c) /\ UNCHANGED count
      BY <1>7 DEF StageFile, StageDeletions, WriteFile, Undoable
    <2>2. d.base = c.base /\ d.status = c.status /\ d.kept = c.kept /\ d.pc \in {"stage", "write"}
      <3>1. CASE StageFile(p)
        BY <1>1, <3>1 DEF StageFile, Call
      <3>2. CASE StageDeletions(p)
        BY <1>1, <3>2 DEF StageDeletions, Call
      <3>3. CASE WriteFile(p)
        BY <1>1, <3>3 DEF WriteFile, Call
      <3>4. QED BY <1>7, <3>1, <3>2, <3>3
    <2>3. QED BY <1>3, <1>undo, <2>1, <2>2 DEF Past
  <1>delete. CASE DeleteOld(p)
    <2>1. c.pc = "write" /\ UNCHANGED count
      BY <1>delete DEF DeleteOld
    <2>2. CASE c.old # {}
      <3>1. PICK f \in c.old : d = [c EXCEPT !.old = @ \ {f}]
        BY <1>1, <1>delete, <2>2 DEF DeleteOld
      <3>2. d.base = c.base /\ d.status = c.status /\ d.kept = c.kept /\ d.pc = "write"
        BY <1>1, <2>1, <3>1 DEF Call
      <3>3. QED BY <1>3, <1>undo, <2>1, <3>2 DEF Past, Undoable
    <2>3. CASE c.old = {}
      <3>1. d = [c EXCEPT !.pc = "validate"]
        BY <1>1, <1>delete, <2>3 DEF DeleteOld, Move
      <3>2. d.base = c.base /\ d.status = c.status /\ d.kept = c.kept /\ d.pc = "validate"
        BY <1>1, <2>1, <3>1 DEF Call
      <3>3. QED BY <1>3, <1>undo, <2>1, <3>2 DEF Past, Undoable
    <2>4. QED BY <2>2, <2>3
  <1>move. CASE Validate(p) \/ WriteLock(p) \/ OperationFails(p)
    <2>1. PICK pc \in {"lock", "restore", "unstage"} : Move(p, pc)
      BY <1>move DEF Validate, WriteLock, OperationFails
    <2>2. d.base = c.base /\ d.status = c.status /\ d.kept = c.kept /\ d.pc = pc
      BY <1>1, <2>1 DEF Move, Call
    <2>3. Undoable(c) /\ UNCHANGED count.edits /\ Faults' = Faults
      BY <1>1, <1>move DEF Validate, WriteLock, OperationFails, Undoable, Faults, Counts
    <2>4. QED BY <1>undo, <2>2, <2>3 DEF Past
  <1>8. CASE RemoveStaging(p)
    <2>1. /\ c.pc = "unstage" /\ d.base = c.base /\ d.status \in {"succeeded", "rolled_back"}
          /\ d.pc = "receipt" /\ UNCHANGED count
      BY <1>1, <1>8 DEF RemoveStaging, Call
    <2>2. c.status = "none"
      BY <1>1, <2>1 DEF Progress, Remembers, Undoable, Past
    <2>3. QED BY <1>3, <1>6, <2>1, <2>2 DEF Past
  <1>9. CASE WriteReceipt(p)
    <2>1. /\ c.pc = "receipt" /\ d.base = c.base /\ d.status = c.status /\ d.pc = "row"
          /\ UNCHANGED <<disk, count>>
      BY <1>1, <1>9 DEF WriteReceipt, Move, Call
    <2>2. Seen' = Seen
      BY <1>2, <2>1 DEF View, Running
    <2>3. QED BY <1>3, <2>1, <2>2 DEF Simulated
  <1>10. CASE CommitRow(p)
    <2>1. c.pc = "row" /\ d.pc = "done" /\ UNCHANGED <<disk, count>>
      BY <1>1, <1>10 DEF CommitRow, Move
    <2>2. Progress(c, disk) /\ r \in Releases /\ Seen' = disk /\ Seen = View(c, disk)
      BY <1>1, <1>2, <2>1 DEF Past, Running
    <2>3. CASE c.status \in {"succeeded", "rolled_back"}
      <3>1. Seen = c.base /\ disk = Result(c) /\ Atomic!Deliverable(c.base, r)
        BY <2>1, <2>2, <2>3 DEF View, Progress, Remembers, Between, Complete
      <3>2. Atomic!Deliver(r)
        BY <1>3, <2>1, <2>2, <3>1 DEF Atomic!Deliver, Result, Faults
      <3>3. QED BY <2>2, <3>2 DEF Atomic!Next, Simulated
    <2>4. CASE c.status \in {"no_op", "failed", "recovery_required"}
      <3>1. Seen = disk
        BY <2>1, <2>2, <2>4 DEF View, Progress, Between
      <3>2. QED BY <1>3, <2>1, <2>2, <3>1 DEF Simulated
    <2>5. QED BY <1>1, <2>1, <2>2, <2>3, <2>4 DEF Progress, Remembers, Call, Statuses
  <1>11. CASE RecordFails(p)
    <2>1. /\ c.pc \in {"receipt", "row"} /\ UNCHANGED disk
          /\ count' = [count EXCEPT !.losses = @ + 1]
          /\ d = [c EXCEPT !.pc = IF c.status \in {"succeeded", "rolled_back"} THEN "restore" ELSE "done"]
      BY <1>1, <1>11 DEF RecordFails, Move
    <2>2. Progress(c, disk) /\ r \in Releases /\ Seen = View(c, disk) /\ Staged(c)
      BY <1>1, <1>2, <2>1 DEF Past, Running
    <2>3. Faults' = Faults + 1 /\ UNCHANGED count.edits
      BY <1>1, <2>1 DEF Faults, Counts
    <2>4. CASE c.status \in {"succeeded", "rolled_back"}
      <3>1. d.pc = "restore" /\ d.kept = c.kept /\ ~c.kept
        BY <1>1, <2>1, <2>2, <2>4 DEF Call, Progress, Remembers, Complete
      <3>2. Seen = c.base /\ disk = Result(c) /\ Seen' = disk
        BY <1>2, <2>1, <2>2, <2>4, <3>1 DEF View, Progress, Between, Complete
      <3>3. c.created \subseteq Targets(c)
        BY <2>1, <2>2 DEF Staged, Past
      <3>4. Atomic!Tear(r)
        BY <1>1, <2>2, <3>2, <3>3, TornView
      <3>5. QED BY <2>2, <2>3, <3>4 DEF Atomic!Fault, Atomic!Next, Simulated, Faults
    <2>5. CASE c.status \in {"no_op", "failed", "recovery_required"}
      <3>1. Seen = disk /\ d.pc = "done"
        BY <1>1, <2>1, <2>2, <2>5 DEF View, Progress, Between, Call
      <3>2. Seen' = disk
        BY <1>2, <2>1, <3>1
      <3>3. QED BY <2>3, <3>1, <3>2 DEF Atomic!Fault, Atomic!Next, Simulated, Faults
    <2>6. QED BY <1>1, <2>1, <2>2, <2>4, <2>5 DEF Progress, Remembers, Call, Statuses
  <1>12. CASE Restore(p)
    <2>1. /\ c.pc = "restore" /\ d.pc = "receipt" /\ d.status \in {"failed", "recovery_required"}
          /\ UNCHANGED count
          /\ disk' = PutBack(p, c.created, IF c.kept THEN DOMAIN c.backup ELSE {})
      BY <1>1, <1>12 DEF Restore, BackedUp, Call
    <2>2. /\ Progress(c, disk) /\ r \in Releases /\ Seen = View(c, disk) /\ Seen' = disk'
          /\ c.created \subseteq Targets(c)
      BY <1>1, <1>2, <2>1 DEF Past, Running, View, Staged
    <2>3. CASE c.kept
      <3>1. c.status = "none" /\ Seen = c.base
        BY <2>1, <2>2, <2>3 DEF View, Progress, Remembers
      <3>2. ASSUME NEW f \in AllPaths PROVE disk'[f] = c.base[f]
        BY <1>1, <2>1, <2>2, <2>3, <3>1 DEF PutBack, Progress, Remembers, Between
      <3>3. c.base \in [AllPaths -> Bytes]
        BY <1>1 DEF Call
      <3>4. disk' = c.base
        BY <1>after, <3>2, <3>3
      <3>5. QED BY <1>3, <2>1, <2>2, <3>1, <3>4 DEF Simulated
    <2>4. CASE ~c.kept
      <3>1. Seen = disk /\ Complete(c) /\ count.losses > 0
        BY <1>1, <2>1, <2>2, <2>4 DEF View, Progress, Remembers, Complete, LossInv, Call
      <3>2. disk' = [f \in AllPaths |-> IF f \in c.created THEN Absent ELSE disk[f]]
        BY <2>1, <2>4 DEF PutBack
      <3>3. Faults > 0
        BY <1>1, <3>1 DEF Faults, Counts
      <3>4. disk = Result(c)
        BY <2>2, <3>1 DEF Progress, Between
      <3>5. Atomic!Withdraw(r)
        BY <1>1, <2>1, <2>2, <3>1, <3>2, <3>3, <3>4, WithdrawnView
      <3>6. QED BY <2>2, <3>5 DEF Atomic!Next, Simulated
    <2>5. QED BY <2>3, <2>4
  <1>13. CASE RestoreFails(p)
    <2>1. PICK gone \in SUBSET c.created, back \in SUBSET DOMAIN c.backup :
             disk' = PutBack(p, gone, back) /\ (back # {} => c.kept)
      BY <1>13 DEF RestoreFails, BackedUp
    <2>2. /\ c.pc = "restore" /\ d.pc = "receipt" /\ d.status = "recovery_required"
          /\ count' = [count EXCEPT !.losses = @ + 1]
      BY <1>1, <1>13 DEF RestoreFails, Call
    <2>3. /\ Progress(c, disk) /\ r \in Releases /\ Seen = View(c, disk) /\ Seen' = disk'
          /\ c.created \subseteq Targets(c)
      BY <1>1, <1>2, <2>2 DEF Past, Running, View, Staged
    <2>4. Atomic!Tear(r)
      <3>1. CASE c.kept
        <4>1. c.status = "none" /\ Seen = c.base
          BY <2>2, <2>3, <3>1 DEF View, Progress, Remembers
        <4>2. ASSUME NEW f \in AllPaths
              PROVE  \/ disk'[f] \in {c.base[f], Result(c)[f]}
                     \/ f \in c.created /\ disk'[f] = Absent
          <5>1. disk[f] \in {c.base[f], Result(c)[f]}
            BY <2>2, <2>3, <3>1 DEF Progress, Between
          <5>2. f \in DOMAIN c.backup => c.backup[f] = c.base[f]
            BY <2>3, <4>1 DEF Progress, Remembers
          <5>3. disk'[f] = IF f \in back THEN c.backup[f] ELSE IF f \in gone THEN Absent ELSE disk[f]
            BY <2>1 DEF PutBack
          <5>4. QED BY <2>1, <5>1, <5>2, <5>3
        <4>3. QED BY <1>1, <1>after, <2>3, <4>1, <4>2, TornView
      <3>2. CASE ~c.kept
        <4>1. Seen = disk /\ Complete(c)
          BY <1>1, <2>2, <2>3, <3>2 DEF View, Progress, Remembers, Complete, Call
        <4>2. disk = Result(c)
          BY <2>3, <4>1 DEF Progress, Between
        <4>3. disk' = [f \in AllPaths |-> IF f \in gone THEN Absent ELSE disk[f]]
          BY <2>1, <3>2 DEF PutBack
        <4>4. QED BY <1>1, <2>1, <2>3, <4>1, <4>2, <4>3, TornResult
      <3>3. QED BY <3>1, <3>2
    <2>5. Faults' = Faults + 1 /\ UNCHANGED count.edits
      BY <1>1, <2>2 DEF Faults, Counts
    <2>6. QED BY <2>3, <2>4, <2>5 DEF Atomic!Fault, Atomic!Next, Simulated, Faults
  <1>14. QED
    BY <1>4, <1>5, <1>7, <1>delete, <1>move, <1>8, <1>9, <1>10, <1>11, <1>12, <1>13
       DEF ApplyStep

LEMMA LossNext == IInv /\ ProgressInv /\ LossInv /\ [Next]_vars => LossInv'
  <1> SUFFICES ASSUME IInv, ProgressInv, LossInv, [Next]_vars, NEW p \in Requests,
                      req'[p].pc = "restore", ~req'[p].kept
               PROVE  count'.losses > 0
    BY DEF LossInv
  <1>1. /\ req \in [Requests -> Call] /\ req[p] \in Call
        /\ count \in Counts
    BY DEF IInv
  <1>2. CASE UNCHANGED vars
    BY <1>2 DEF vars, LossInv
  <1>3. ASSUME NEW q \in Requests, NEW r \in Releases, NEW rollback \in BOOLEAN, Apply(q, r, rollback)
        PROVE  count'.losses > 0
    BY <1>1, <1>3 DEF Apply, LossInv, Idle
  <1>4. ASSUME NEW q \in Requests, ApplyStep(q) PROVE count'.losses > 0
    <2>1. CASE RecordFails(q)
      BY <1>1, <2>1 DEF RecordFails, Counts
    <2>2. CASE ~RecordFails(q)
      <3>1. count'.losses >= count.losses
        BY <1>4, StepDisk
      <3>2. CASE p = q
        <4>1. CASE Validate(p) \/ OperationFails(p)
          <5>1. Undoable(req[p]) /\ req'[p].kept = req[p].kept
            BY <1>1, <4>1 DEF Validate, OperationFails, Move, Undoable, Call
          <5>2. QED BY <5>1 DEF ProgressInv, Progress, Remembers, Past, Undoable
        <4>2. CASE FirstPreview(p) \/ Refuse(p) \/ WriteLock(p) \/ WriteReceipt(p) \/ CommitRow(p)
          <5>1. PICK pc \in Steps \ {"restore"} : Move(p, pc)
            BY <4>2 DEF FirstPreview, Refuse, WriteLock, WriteReceipt, CommitRow, Steps
          <5>2. QED BY <1>1, <5>1 DEF Move, Call
        <4>3. CASE SecondPreview(p) \/ RemoveStaging(p) \/ Restore(p) \/ RestoreFails(p)
          <5>1. req'[p].pc \in {"refused", "receipt", "stage"}
            BY <1>1, <4>3 DEF SecondPreview, RemoveStaging, Restore, RestoreFails, Call
          <5>2. QED BY <5>1
        <4>4. CASE StageFile(p)
          BY <1>1, <4>4 DEF StageFile, Call
        <4>5. CASE StageDeletions(p) \/ WriteFile(p)
          <5>1. req'[p].pc = "write"
            <6>1. CASE StageDeletions(p)
              BY <1>1, <6>1 DEF StageDeletions, Call
            <6>2. CASE WriteFile(p)
              BY <1>1, <6>2 DEF WriteFile, Call
            <6>3. QED BY <4>5, <6>1, <6>2
          <5>2. QED BY <5>1
        <4>6. CASE DeleteOld(p)
          <5>1. CASE req[p].old # {}
            BY <1>1, <4>6, <5>1 DEF DeleteOld, Call
          <5>2. CASE req[p].old = {}
            BY <1>1, <4>6, <5>2 DEF DeleteOld, Move, Call
          <5>3. QED BY <5>1, <5>2
        <4>7. QED BY <1>4, <2>2, <3>2, <4>1, <4>2, <4>3, <4>4, <4>5, <4>6 DEF ApplyStep
      <3>3. CASE p # q
        <4>1. req'[p] = req[p]
          BY <1>4, <3>3, StepCalls
        <4>2. QED BY <1>1, <1>4, <3>1, <4>1, InvNext DEF LossInv, IInv, Counts
      <3>4. QED BY <3>2, <3>3
    <2>3. QED BY <2>1, <2>2
  <1>5. ASSUME NEW f \in AllPaths, Edit(f) PROVE count'.losses > 0
    BY <1>1, <1>5 DEF Edit, LossInv
  <1>6. ASSUME NEW r \in Releases, Damage(r) PROVE count'.losses > 0
    BY <1>6 DEF Damage, LossInv
  <1>7. CASE Crash
    BY <1>1, <1>7 DEF Crash, LossInv, Idle
  <1>8. QED BY <1>2, <1>3, <1>4, <1>5, <1>6, <1>7 DEF Next

LEMMA NextSimulates ==
    ASSUME EditsInFlight = FALSE, Serial
    PROVE  IInv /\ ProgressInv /\ LossInv /\ [Next]_vars => Simulated
  <1> SUFFICES ASSUME IInv, ProgressInv, LossInv, [Next]_vars PROVE Simulated
    OBVIOUS
  <1>1. /\ req \in [Requests -> Call] /\ disk \in [AllPaths -> Bytes]
        /\ count \in Counts
    BY DEF IInv
  <1>2. CASE UNCHANGED vars
    BY <1>2 DEF vars, Simulated, Seen, Running, Faults
  <1>3. ASSUME NEW p \in Requests, NEW r \in Releases, NEW rollback \in BOOLEAN, Apply(p, r, rollback)
        PROVE  Simulated
    <2>1. /\ UNCHANGED disk /\ req[p].pc \in {"idle", "done"} /\ req'[p].pc = "preview"
          /\ UNCHANGED count.edits /\ Faults' = Faults
      BY <1>1, <1>3 DEF Apply, Idle, Faults
    <2>2. Seen = disk /\ Seen' = disk
      BY <2>1, SeenOf DEF Running, View
    <2>3. QED BY <2>1, <2>2 DEF Simulated
  <1>4. ASSUME NEW p \in Requests, ApplyStep(p) PROVE Simulated
    BY <1>4, StepSimulates
  <1>5. ASSUME NEW f \in AllPaths, Edit(f) PROVE Simulated
    <2>1. /\ UNCHANGED req /\ \A p \in Requests : ~Running(p)
          /\ count'.edits = count.edits + 1 /\ Faults' = Faults
      BY <1>1, <1>5 DEF Edit, Faults
    <2>2. Seen = disk /\ Seen' = disk'
      BY <2>1 DEF Seen, Running
    <2>3. Atomic!Edit(f)
      BY <1>5, <2>1, <2>2 DEF Edit, Atomic!Edit, Faults
    <2>4. QED BY <2>3 DEF Simulated, Atomic!Next, Atomic!AllPaths, AllPaths
  <1>6. ASSUME NEW r \in Releases, Damage(r) PROVE Simulated
    BY <1>6 DEF Damage, Simulated, Seen, Running, Faults
  <1>7. CASE Crash
    <2>1. PICK p \in Requests : Running(p)
      BY <1>7 DEF Crash
    <2> DEFINE c == req[p]
               r == req[p].release
    <2>2. UNCHANGED disk /\ \A q \in Requests : req'[q].pc \in {"idle", "done"}
      BY <1>1, <1>7 DEF Crash, Idle, Running
    <2>faults. count' = [count EXCEPT !.crashes = @ + 1] /\ count.crashes \in Nat /\ count.losses \in Nat
      BY <1>1, <1>7 DEF Crash, Counts
    <2>counted. Faults' = Faults + 1 /\ UNCHANGED count.edits
      BY <1>1, <2>faults DEF Faults, Counts
    <2>3. Seen = View(c, disk) /\ Seen' = disk
      BY <2>1, <2>2, SeenOf
    <2>4. CASE Seen = disk
      BY <2>2, <2>counted, <2>3, <2>4 DEF Atomic!Fault, Atomic!Next, Simulated, Faults
    <2>5. CASE Seen # disk
      <3>1. /\ Past(c) /\ Seen = c.base /\ c.status \notin {"failed", "recovery_required"}
            /\ c.pc = "restore" => c.kept
        BY <1>1, <2>1, <2>3, <2>5 DEF View, Past, Running, Call, Steps
      <3>2. c \in Call /\ r \in Releases /\ Progress(c, disk) /\ c.created \subseteq Targets(c)
        BY <1>1, <3>1 DEF IInv, ProgressInv, Staged, Past
      <3>3. ASSUME NEW f \in AllPaths PROVE disk[f] \in {c.base[f], Result(c)[f]}
        BY <3>1, <3>2 DEF Progress, Remembers, Between, Past, Complete, Call, Statuses
      <3>4. Atomic!Tear(r)
        BY <1>1, <2>3, <3>1, <3>2, <3>3, TornView
      <3>5. QED BY <2>2, <2>counted, <3>2, <3>4 DEF Atomic!Fault, Atomic!Next, Simulated, Faults
    <2>6. QED BY <2>4, <2>5
  <1>8. QED BY <1>2, <1>3, <1>4, <1>5, <1>6, <1>7 DEF Next

\* Calls that do not overlap, on a checkout that nobody edits meanwhile,
\* implement the one-step delivery of CheckoutDelivery: the checkout changes
\* as a whole, is restored as a whole, or is torn by a counted fault.
THEOREM DeliversAtomically ==
    ASSUME EditsInFlight = FALSE, Serial PROVE Spec => AtomicDelivery
  <1>1. Init => Atomic!Init /\ LossInv
    <2> SUFFICES ASSUME Init PROVE Atomic!Init /\ LossInv
      OBVIOUS
    <2>1. \A p \in Requests : ~Running(p)
      BY DEF Init, Idle, Running
    <2>2. Seen = disk
      BY <2>1, SeenIdle
    <2>3. QED BY <2>2 DEF Init, Idle, LossInv, Atomic!Init, Atomic!AllPaths, AllPaths
  <1>2. IInv /\ ProgressInv /\ [Next]_vars => ProgressInv'
    BY ProgressNext
  <1>3. IInv /\ ProgressInv /\ LossInv /\ [Next]_vars
           => [Atomic!Next]_<<Seen, count.edits, count.crashes + count.losses>>
    BY NextSimulates DEF Simulated, Faults
  <1>4. QED
    BY <1>1, <1>2, <1>3, LossNext, ProgressInit, Invariant, PTL DEF Spec, AtomicDelivery, Atomic!Spec

=============================================================================
