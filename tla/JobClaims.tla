----------------------------- MODULE JobClaims ------------------------------
(***************************************************************************)
(* Leases: recovery after a restart or an expired lease, the claim loop    *)
(* and the heartbeat of runner.py.                                         *)
(***************************************************************************)
EXTENDS JobStore

-----------------------------------------------------------------------------
(* Recovery of jobs whose executor is gone *)

KnownRetry(j) ==
    /\ Latest(j).phase = "failed"
    /\ Latest(j).sent \notin {"dispatch_started", "not_sent"}
    /\ Latest(j).err = "retryable"
    /\ Cardinality({n \in CallsOf(j, Latest(j).req) : attempts[j][n].sent # "not_sent"})
          < MaxTransportRetries + 1

\* An accepted action that no attempt has started on.
Untouched(j) ==
    /\ job[j].pending # 0
    /\ \/ Count(j) = 0
       \/ /\ Latest(j).req.action # job[j].pending
          /\ Count(j) <= actions[j][job[j].pending].seen

\* Mutant: a staged result counts as a finished candidate.
RecoveryTargetStaged(j, unlocked) ==
    IF Count(j) > 0 /\ Latest(j).rev /\ job[j].pending = 0 THEN "candidate_ready"
    ELSE IF (Count(j) > 0 /\ OutputValid(Latest(j))) \/ PendingKind(j) = "tool_repair"
         THEN "queued" ELSE "awaiting_user"

\* Mutant: what cannot be recovered fails.
RecoveryTargetFailed(j, unlocked) ==
    IF Count(j) = 0 \/ KnownRetry(j) \/ OutputValid(Latest(j)) THEN "queued" ELSE "failed"

RecoveryTarget(j, unlocked) ==
    LET output == Count(j) > 0 /\ OutputValid(Latest(j))
        repair == PendingKind(j) = "tool_repair"
        safe == \/ Count(j) = 0
                \/ Latest(j).phase = "created" /\ Latest(j).sent # "dispatch_started"
                \/ Untouched(j)
                \/ KnownRetry(j)
    IN  IF Count(j) > 0 /\ Latest(j).phase = "succeeded" /\ Latest(j).rev /\ job[j].pending = 0
        THEN "candidate_ready"
        ELSE IF output \/ repair THEN "queued"
        ELSE IF safe THEN IF ProviderOf[j] \in unlocked THEN "queued" ELSE "credentials_locked"
        ELSE "awaiting_user"

\* The row after recovery.  Only the startup path copies the latest revision.
Recovered(j, unlocked, startup) ==
    LET target == RecoveryTarget(j, unlocked)
    IN  [Released(job[j]) EXCEPT
            !.status = target,
            !.dep = FALSE,
            !.pending = IF target = "awaiting_user" THEN 0 ELSE @,
            !.result = IF startup /\ target = "candidate_ready" THEN Count(j) ELSE @]

\* Mutant: the action is forgotten.
RecoveredActionsKept(j, unlocked) == actions[j]

\* Actions of a job whose recovery needs the user fail.
RecoveredActions(j, unlocked) ==
    IF job[j].pending # 0 /\ RecoveryTarget(j, unlocked) = "awaiting_user"
    THEN [actions[j] EXCEPT ![job[j].pending].status = "failed"]
    ELSE actions[j]

\* The process dies and starts again: every task is gone, the vault is empty
\* and recover_interrupted_jobs settles every job in a leased status.
Restart ==
    LET interrupted == {j \in Jobs : job[j].status \in Leased}
        rows == [j \in Jobs |-> IF j \in interrupted THEN Recovered(j, {}, TRUE) ELSE job[j]]
    IN  /\ faults.restarts < MaxRestarts
        /\ faults' = [faults EXCEPT !.restarts = @ + 1]
        /\ job' = rows
        /\ actions' = [j \in Jobs |-> IF j \in interrupted THEN RecoveredActions(j, {})
                                                           ELSE actions[j]]
        /\ exec' = [t \in Tokens |-> IF Alive(t) THEN Finished ELSE exec[t]]
        /\ vault' = {}
        /\ cancelling' = [j \in Jobs |-> "none"]
        /\ resuming' = NotResuming
        /\ planStatus' = Refresh(interrupted, rows)
        /\ UNCHANGED <<attempts, spent, claims>>

-----------------------------------------------------------------------------
(* The claim loop *)

\* Mutant: waits for every job of the plan, the blocked one included.
UnblockedByPlan(rows) ==
    {j \in Jobs : /\ rows[j].status = "awaiting_user" /\ rows[j].dep
                  /\ Count(j) = 0 /\ rows[j].pending = 0 /\ ~ rows[j].cancel
                  /\ \A d \in SamePlan(j) : rows[d].status \in Ready}

\* _recover_blocked_dependents: untouched jobs whose inputs are all ready now.
Unblocked(rows) ==
    {j \in Jobs : /\ rows[j].status = "awaiting_user" /\ rows[j].dep
                  /\ Count(j) = 0 /\ rows[j].pending = 0 /\ ~ rows[j].cancel
                  /\ \A d \in DependsOn[j] : rows[d].status \in Ready /\ rows[d].result # 0}

\* Jobs the claim counts as active, of those that S selects.
ActiveIn(rows, S) ==
    {k \in S : rows[k].status \in Leased /\ rows[k].lease # 0 /\ rows[k].live}

Before(S, j) == {k \in S : k < j}

\* _dependencies_ready finds a dependency that needs the user.  Dependencies
\* dropped or blocked earlier in the same pass count.
BlockedBy(rows, j, settled) ==
    \E d \in DependsOn[j] : rows[d].status \in NeedsAttention \/ d \in Before(settled, j)

\* Mutant: only leases granted in earlier passes count.
WithinLimitsOfRows(rows, j, taken) ==
    /\ Cardinality(ActiveIn(rows, SamePlan(j))) < MaxConcurrency[PlanOf[j]]
    /\ claims + Cardinality(Before(taken, j)) < MaxClaims

\* Mutant: only the plan's own limit counts.
WithinPlanLimit(rows, j, taken) ==
    /\ Cardinality(ActiveIn(rows, SamePlan(j)))
          + Cardinality(Before(taken \cap SamePlan(j), j)) < MaxConcurrency[PlanOf[j]]
    /\ claims + Cardinality(Before(taken, j)) < MaxClaims

\* A limit of 0 admits one job: max(1, n).
AtLeastOne(n) == IF n = 0 THEN 1 ELSE n

\* The concurrency limits, given the jobs claimed earlier in the same pass.
WithinLimits(rows, j, taken) ==
    /\ Cardinality(ActiveIn(rows, SamePlan(j)))
          + Cardinality(Before(taken \cap SamePlan(j), j)) < AtLeastOne(MaxConcurrency[PlanOf[j]])
    /\ j \in LegacyJobs =>
          Cardinality(ActiveIn(rows, SameProvider(j)))
             + Cardinality(Before(taken \cap SameProvider(j), j)) < AtLeastOne(ProviderLimit)
    /\ claims + Cardinality(Before(taken, j)) < MaxClaims    \* bound

TokenOf(taken, j) == claims + Cardinality(Before(taken, j)) + 1

Stale == {j \in Jobs : job[j].status \in Leased /\ job[j].lease # 0 /\ ~ job[j].live}
Expired == [j \in Jobs |-> IF j \in Stale THEN Recovered(j, vault, FALSE) ELSE job[j]]
Requeued(rows, S) ==
    [j \in Jobs |-> IF j \in S THEN [rows[j] EXCEPT !.status = "queued", !.dep = FALSE] ELSE rows[j]]

\* The rows after the walk of the queue.
Walked(rows, dropped, blocked, taken) ==
    [j \in Jobs |->
        IF j \in dropped THEN [rows[j] EXCEPT !.status = "cancelled", !.dep = FALSE]
        ELSE IF j \in blocked THEN [rows[j] EXCEPT !.status = "awaiting_user", !.dep = TRUE]
        ELSE IF j \in taken THEN [rows[j] EXCEPT !.status = "running", !.live = TRUE,
                                                 !.lease = TokenOf(taken, j)]
        ELSE rows[j]]

\* The task that a claim starts.
Claimed(j) == [Idle EXCEPT !.pc = "claimed", !.job = j]

\* One pass of _claim_ready_jobs, a single transaction: expired leases are
\* recovered, dependents requeued, and the queue walked in order of creation.
\* The sets the walk produces are the only ones that satisfy their equations.
Poll ==
    LET expired == Expired
        unblocked == Unblocked(expired)
        rows == Requeued(expired, unblocked)
        queue == {j \in Jobs : rows[j].status = "queued"}
        dropped == {j \in queue : rows[j].cancel}
    IN  \E blocked \in SUBSET (queue \ dropped) :
        \E taken \in SUBSET ((queue \ dropped) \ blocked) :
          LET final == Walked(rows, dropped, blocked, taken)
              \* What the last refresh of a plan in this pass saw.
              seen == [j \in Jobs |-> IF \E c \in taken \cap SamePlan(j) : j <= c
                                      THEN final[j] ELSE rows[j]]
          IN  /\ LoopFree(0)
              /\ blocked = {j \in queue \ dropped : BlockedBy(rows, j, dropped \cup blocked)}
              /\ taken = {j \in (queue \ dropped) \ blocked :
                            /\ \A d \in DependsOn[j] : rows[d].status \in Ready
                            /\ WithinLimits(rows, j, taken)}
              /\ job' = final
              /\ actions' = [j \in Jobs |-> IF j \in Stale THEN RecoveredActions(j, vault)
                                                           ELSE actions[j]]
              /\ exec' = [t \in Tokens |->
                            IF \E j \in taken : TokenOf(taken, j) = t
                            THEN Claimed(CHOOSE j \in taken : TokenOf(taken, j) = t)
                            ELSE exec[t]]
              /\ claims' = claims + Cardinality(taken)
              /\ planStatus' = Refresh(Stale \cup unblocked \cup taken, seen)
              /\ UNCHANGED <<attempts, spent, vault, cancelling, resuming, faults>>

\* The heartbeat of a task renews the lease of its job, also a lease that has
\* expired, as long as no claim has taken the job away.
Heartbeat(t) ==
    /\ Alive(t) /\ LoopFree(0)
    /\ Held(t) /\ job[exec[t].job].status \in Leased
    /\ ~ job[exec[t].job].live
    /\ job' = [job EXCEPT ![exec[t].job].live = TRUE]
    /\ UNCHANGED <<attempts, actions, spent, exec, elsewhere>>

\* No heartbeat for job_lease_seconds: the event loop was blocked, the machine
\* slept or the clock was set forward.
ExpireLease(j) ==
    /\ job[j].lease # 0 /\ job[j].live
    /\ faults.expiries < MaxExpiries
    /\ faults' = [faults EXCEPT !.expiries = @ + 1]
    /\ job' = [job EXCEPT ![j].live = FALSE]
    /\ UNCHANGED <<attempts, actions, spent, exec, claims, vault, planStatus, cancelling, resuming>>
=============================================================================
