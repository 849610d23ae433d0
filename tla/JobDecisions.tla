---------------------------- MODULE JobDecisions ----------------------------
(***************************************************************************)
(* What users decide about jobs and providers through the API: api.py and  *)
(* create_remediation and resume_recoverable_jobs of production.py.        *)
(***************************************************************************)
EXTENDS JobStore

-----------------------------------------------------------------------------
(* Decisions of the user, through the API *)

\* The jobs that unlock_provider puts back in the queue.
LockedJobs(p) == {j \in Jobs : ProviderOf[j] = p /\ job[j].status = "credentials_locked"}

\* unlock_provider, with nothing between its read and its commit.
Unlock(p) ==
    LET waiting == LockedJobs(p)
        rows == [j \in Jobs |-> IF j \in waiting
                    THEN [job[j] EXCEPT !.status = "queued", !.dep = FALSE] ELSE job[j]]
    IN  /\ p \notin vault \/ waiting # {}
        /\ vault' = vault \cup {p}
        /\ job' = rows
        /\ planStatus' = Refresh(waiting, rows)
        /\ UNCHANGED <<attempts, actions, spent, exec, claims, cancelling, resuming, faults>>

\* lock_provider only removes the key from memory.
Lock(p) ==
    /\ p \in vault
    /\ faults.locks < MaxLocks
    /\ faults' = [faults EXCEPT !.locks = @ + 1]
    /\ vault' = vault \ {p}
    /\ UNCHANGED <<job, attempts, actions, spent, exec, claims, planStatus, cancelling, resuming>>

\* cancel_job reads the row in one statement and writes it at commit.
CancelRead(j) ==
    /\ cancelling[j] = "none"
    /\ faults.cancels < MaxCancels
    /\ faults' = [faults EXCEPT !.cancels = @ + 1]
    /\ cancelling' = [cancelling EXCEPT ![j] = job[j].status]
    /\ UNCHANGED <<job, attempts, actions, spent, exec, claims, vault, planStatus, resuming>>

CancelWrite(j) ==
    LET early == cancelling[j] \in {"queued", "credentials_locked"} IN
    /\ cancelling[j] # "none"
    /\ job' = [job EXCEPT ![j] = [@ EXCEPT !.cancel = TRUE,
                                           !.status = IF early THEN "cancelled" ELSE job[j].status,
                                           !.dep = IF early THEN FALSE ELSE job[j].dep]]
    /\ cancelling' = [cancelling EXCEPT ![j] = "none"]
    /\ UNCHANGED <<attempts, actions, spent, exec, claims, vault, planStatus, resuming, faults>>

\* create_remediation: what makes a decision acceptable, short of the budget.
Decidable(j, kind) ==
    /\ job[j].status \in {"candidate_ready", "awaiting_user", "credentials_locked"}
    /\ job[j].pending = 0
    /\ kind = "retry" /\ Count(j) > 0 =>
          \/ Latest(j).sent \notin {"dispatch_started", "legacy_unknown"}
          \/ OutputValid(Latest(j))
    /\ kind = "tool_repair" => j \in ImageJobs

PaidRounds(j) == Cardinality({a \in DOMAIN actions[j] : actions[j][a].kind = "regenerate"})
PaidActions(p) ==
    {paid \in Jobs \X (1..MaxActions) :
        /\ PlanOf[paid[1]] = p
        /\ paid[2] \in DOMAIN actions[paid[1]]
        /\ actions[paid[1]][paid[2]].kind = "regenerate"}

\* extra_calls_used and paid_remediation_rounds count the accepted paid actions.
WithinBudget(j) ==
    /\ Cardinality(PaidActions(PlanOf[j])) + 1 <= ExtraCallBudget
    /\ PaidRounds(j) + 1 <= MaxPaidRounds

NewAction(j, kind, resume) ==
    [kind |-> kind, input |-> InputOf(j), seen |-> Count(j), resume |-> resume,
     status |-> IF kind = "await_user" THEN "completed" ELSE "accepted"]

\* The row of a job that accepts an action.
Accepting(j, kind) ==
    [Released(job[j]) EXCEPT
        !.cancel = FALSE,
        !.status = IF kind = "await_user" THEN "awaiting_user" ELSE "queued",
        !.pending = IF kind = "await_user" THEN 0 ELSE Len(actions[j]) + 1]

Remediate(j, kind) ==
    LET rows == [job EXCEPT ![j] = Accepting(j, kind)] IN
    /\ Decidable(j, kind)
    /\ kind = "regenerate" => WithinBudget(j)
    /\ Len(actions[j]) < MaxActions
    /\ job' = rows
    /\ actions' = [actions EXCEPT ![j] = Append(@, NewAction(j, kind, FALSE))]
    /\ planStatus' = Refresh({j}, rows)
    /\ UNCHANGED <<attempts, spent, exec, claims, vault, cancelling, resuming, faults>>

\* A paid action beyond the budget is refused, and the job waits for the user.
RefuseOverBudget(j) ==
    LET rows == [job EXCEPT ![j].status = "awaiting_user"] IN
    /\ "regenerate" \in ActionKinds
    /\ Decidable(j, "regenerate") /\ ~ WithinBudget(j)
    /\ job' = rows
    /\ planStatus' = Refresh({j}, rows)
    /\ UNCHANGED <<attempts, actions, spent, exec, claims, vault, cancelling, resuming, faults>>

\* Resuming a job whose latest attempt sent nothing accepts a retry, once for
\* every number of attempts (its idempotency key).
ResumesUnsent(j) ==
    /\ job[j].status \in {"awaiting_user", "credentials_locked"}
    /\ job[j].pending = 0
    /\ Count(j) > 0 /\ Latest(j).sent = "not_sent"
ResumedBefore(j) == \E a \in DOMAIN actions[j] : actions[j][a].resume /\ actions[j][a].seen = Count(j)

RecoverableAction(j) ==
    /\ PendingKind(j) = "tool_repair"
    /\ actions[j][job[j].pending].status \in {"accepted", "running"}
HasOutput(j) == Count(j) > 0 /\ OutputValid(Latest(j))

\* A job that resume_job puts in the queue: a locked one goes by its
\* credentials, a waiting one by what can be recovered.
Resumable(j) == IF job[j].status = "credentials_locked" THEN ProviderOf[j] \in vault
                ELSE HasOutput(j) \/ RecoverableAction(j)

\* resume_job, with nothing between its read and its commit.
ResumeJob(j) ==
    LET locked == job[j].status = "credentials_locked"
        retry == ~ locked /\ ResumesUnsent(j)
        unlocked == ProviderOf[j] \in vault
        recoverable == ~ locked /\ (HasOutput(j) \/ RecoverableAction(j))
        rows == [job EXCEPT ![j] =
                    IF retry THEN Accepting(j, "retry")
                    ELSE [@ EXCEPT !.cancel = FALSE,
                             !.status = IF unlocked \/ recoverable THEN "queued"
                                        ELSE "credentials_locked"]]
    IN  /\ job[j].status \in {"awaiting_user", "credentials_locked"}
        /\ retry \/ locked \/ recoverable
        /\ retry => ~ ResumedBefore(j) /\ Len(actions[j]) < MaxActions
        /\ job' = rows
        /\ actions' = IF retry THEN [actions EXCEPT ![j] = Append(@, NewAction(j, "retry", TRUE))]
                      ELSE actions
        /\ planStatus' = IF rows[j].status = job[j].status THEN planStatus ELSE Refresh({j}, rows)
        /\ UNCHANGED <<attempts, spent, exec, claims, vault, cancelling, resuming, faults>>

\* The jobs that resume_recoverable_jobs puts in the queue without a retry.
Resumed(p) ==
    {j \in Jobs : /\ PlanOf[j] = p
                  /\ job[j].status \in {"awaiting_user", "credentials_locked"}
                  /\ ~ ResumesUnsent(j) /\ Resumable(j)}

\* resume_recoverable_jobs, over the jobs of a plan, in one go.
ResumePlan(p) ==
    LET members == {j \in Jobs : PlanOf[j] = p}
        retried == {j \in members : ResumesUnsent(j) /\ ~ ResumedBefore(j)}
        requeued == Resumed(p)
        rows == [j \in Jobs |-> IF j \in retried THEN Accepting(j, "retry")
                    ELSE IF j \in requeued THEN [Released(job[j]) EXCEPT !.status = "queued"]
                    ELSE job[j]]
    IN  /\ retried \cup requeued # {}
        /\ \A j \in retried : Len(actions[j]) < MaxActions
        /\ job' = rows
        /\ actions' = [j \in Jobs |-> IF j \in retried
                          THEN Append(actions[j], NewAction(j, "retry", TRUE)) ELSE actions[j]]
        /\ planStatus' = Refresh(members, rows)
        /\ UNCHANGED <<attempts, spent, exec, claims, vault, cancelling, resuming, faults>>

-----------------------------------------------------------------------------
(* Unlocks and resumptions that something overtakes: they take no lock      *)
(* between their read and their commit.  The retries of a resumption are    *)
(* decisions of their own, which lock the row first.                        *)

Reads(request) ==
    /\ resuming = NotResuming /\ request # NotResuming
    /\ faults.overlaps < MaxOverlaps
    /\ faults' = [faults EXCEPT !.overlaps = @ + 1]
    /\ resuming' = request
    /\ UNCHANGED <<job, attempts, actions, spent, exec, claims, planStatus, cancelling>>

UnlockRead(p) ==
    /\ Reads([NotResuming EXCEPT !.queue = LockedJobs(p)])
    /\ vault' = vault \cup {p}

ResumeRead(j) ==
    /\ \/ job[j].status = "credentials_locked"
       \/ job[j].status = "awaiting_user" /\ ~ ResumesUnsent(j) /\ Resumable(j)
    /\ Reads([queue |-> IF Resumable(j) THEN {j} ELSE {},
              uncancel |-> IF job[j].cancel THEN {j} ELSE {}, free |-> {}])
    /\ UNCHANGED vault

ResumePlanRead(p) ==
    /\ Reads([queue |-> Resumed(p), uncancel |-> {},
              free |-> {j \in Resumed(p) : job[j].lease # 0}])
    /\ UNCHANGED vault

\* The commit writes the columns that the request changes, whatever has become
\* of the row.
ResumedRow(j) ==
    LET row == IF j \in resuming.free THEN Released(job[j]) ELSE job[j] IN
    [row EXCEPT !.status = IF j \in resuming.queue THEN "queued" ELSE @,
                !.cancel = IF j \in resuming.uncancel THEN FALSE ELSE @]

ResumeWrite ==
    LET rows == [j \in Jobs |-> ResumedRow(j)]
    IN  /\ resuming # NotResuming
        /\ job' = rows
        /\ resuming' = NotResuming
        /\ planStatus' = Refresh(resuming.queue, rows)
        /\ UNCHANGED <<attempts, actions, spent, exec, claims, vault, cancelling, faults>>
=============================================================================
