----------------------------- MODULE JobRunner ------------------------------
(***************************************************************************)
(* The runner, its tasks, the users and the environment together, and what *)
(* the composition promises.                                               *)
(***************************************************************************)
EXTENDS JobClaims, JobExecution, JobDecisions

-----------------------------------------------------------------------------
(* The specification *)

\* The steps of one task, in the order of its control flow.
Begin(t) == BeginLost(t) \/ BeginRepair(t) \/ RejectStaleAction(t) \/ PrepareFails(t)
               \/ ReuseOutput(t) \/ CallsExhausted(t) \/ PrepareCall(t)
Attempting(t) == StartAttempt(t) \/ StartLost(t) \/ BuildProvider(t) \/ FailLocally(t)
                    \/ Dispatch(t) \/ RefuseDispatch(t)
Answered(t) == Respond(t) \/ LoseResponse(t) \/ CallAgain(t) \/ ErrorAnswer(t) \/ PersistResult(t)
Settling(t) == FinishAttemptError(t) \/ PauseProviderQueue(t) \/ SetAwaitingUser(t)
Staging(t) == BeginStaging(t) \/ StageFails(t) \/ StageResult(t) \/ CompleteRead(t)
                 \/ CompleteJob(t)
Repairing(t) == RepairStale(t) \/ RepairRejected(t) \/ RepairBegin(t) \/ RepairStage(t)
                   \/ RepairFails(t)
Task(t) == Begin(t) \/ Attempting(t) \/ Answered(t) \/ Settling(t) \/ Staging(t) \/ Repairing(t)

\* The requests that something overtakes between their read and their commit.
Overtaken == \/ \E p \in Providers : UnlockRead(p)
             \/ \E j \in Jobs : ResumeRead(j)
             \/ \E p \in Plans : ResumePlanRead(p)
             \/ ResumeWrite

User == \/ \E p \in Providers : Unlock(p) \/ Lock(p)
        \/ \E j \in Jobs : CancelRead(j) \/ CancelWrite(j) \/ RefuseOverBudget(j) \/ ResumeJob(j)
        \/ \E j \in Jobs : \E kind \in ActionKinds : Remediate(j, kind)
        \/ \E p \in Plans : ResumePlan(p)
        \/ Overtaken

Environment == Restart \/ \E j \in Jobs : ExpireLease(j)

Next == \/ Poll
        \/ \E t \in Tokens : Heartbeat(t) \/ Task(t)
        \/ User
        \/ Environment

Spec == Init /\ [][Next]_vars

\* The event loop runs the claim loop and every task; every call has a timeout.
FairSpec == Spec /\ WF_vars(Poll) /\ \A t \in Tokens : WF_vars(Task(t))

\* A cancel request that read the job as queued, and writes "cancelled" after
\* the runner has claimed it.
CancelsClaim ==
    \E j \in Jobs :
        CancelWrite(j) /\ cancelling[j] \in {"queued", "credentials_locked"} /\ job[j].lease # 0

\* A cancel request that writes "cancelled" over a status it has not read.
OutdatedCancel ==
    \E j \in Jobs :
        /\ CancelWrite(j)
        /\ cancelling[j] \in {"queued", "credentials_locked"}
        /\ job[j].status \notin {"queued", "credentials_locked"}

\* An unlock or a resumption that writes "queued" over a status it has not read.
OutdatedResume ==
    /\ ResumeWrite
    /\ \E j \in resuming.queue : job[j].status \notin {"awaiting_user", "credentials_locked"}

\* One that puts a job in the queue that it would not put there now.
StaleResume ==
    /\ ResumeWrite
    /\ \E j \in resuming.queue :
          ~ \/ job[j].status = "credentials_locked"
            \/ job[j].status = "awaiting_user" /\ Resumable(j)

\* The completion of a repair that has seen no lease, after a claim: the claim
\* keeps its lease, on a job that is no longer in a leased status.
UnseenLease == \E t \in Tokens : CompleteJob(t) /\ ~ exec[t].saw.leased /\ job[exec[t].job].lease # 0

\* A write that overtakes a claim, and takes the claimed job out of its status.
OverwritesClaim == CancelsClaim \/ OutdatedResume \/ UnseenLease

\* A result that arrives after the lease was lost.
LateResult == \E t \in Tokens : PersistResult(t) /\ ~ Held(t)

\* A task that writes to an attempt or a candidate after its lease was lost.
LateWrite ==
    \E t \in Tokens :
        /\ Alive(t) /\ ~ Held(t)
        /\ PersistResult(t) \/ FinishAttemptError(t) \/ StageResult(t) \/ RepairStage(t)

-----------------------------------------------------------------------------
(* Properties *)

Faults == [restarts : 0..MaxRestarts, expiries : 0..MaxExpiries,
           cancels : 0..MaxCancels, locks : 0..MaxLocks, overlaps : 0..MaxOverlaps]

SpentOK ==
    /\ DOMAIN spent = Jobs
    /\ \A j \in Jobs : \A r \in DOMAIN spent[j] : r \in Request /\ spent[j][r] \in Nat

ExecutorsOK ==
    /\ exec \in [Tokens -> Executor]
    /\ \A t \in Tokens : Alive(t) => exec[t].job \in Jobs

\* The type invariant.  A task that works has a job.
TypeOK ==
    /\ job \in [Jobs -> Job]
    /\ attempts \in [Jobs -> Seq(Attempt)]
    /\ actions \in [Jobs -> Seq(Action)]
    /\ SpentOK
    /\ ExecutorsOK
    /\ claims \in Nat
    /\ vault \subseteq Providers
    /\ planStatus \in [Plans -> PlanStatuses]
    /\ cancelling \in [Jobs -> Status \cup {"none"}]
    /\ resuming \in Resumption
    /\ faults \in Faults

\* No request is sent more often than the plan allows, counted over every
\* attempt, retry, format fallback, restart and user decision that repeats it
\* (the SUM in _mark_dispatch).
CallLimit == \A j \in Jobs : \A r \in DOMAIN spent[j] : spent[j][r] <= MaxTransportRetries + 1

InAttempt == {"build", "invoke", "sent", "responded", "failed", "stage", "staging", "staged",
              "repairing", "repaired", "reuse", "completing", "completingRepair"}

\* As long as a task holds the lease of its job, the attempt it started is the
\* latest of the job: recovery, which looks at the latest attempt only, judges
\* the attempt that the lease was about.
HolderOwnsLatest ==
    \A t \in Tokens : Alive(t) /\ Held(t) /\ exec[t].fresh /\ exec[t].pc \in InAttempt
                          => exec[t].at = Count(exec[t].job)

\* A leased job has a task that works on it: no job waits for a lease to run
\* out because its task returned without settling it.
LeaseHasTask ==
    \A j \in Jobs : job[j].status \in Leased /\ job[j].lease # 0 =>
        Alive(job[j].lease) /\ exec[job[j].lease].job = j

\* A request whose delivery is unknown is not sent again by the program
\* (_recovery_state, the delivery check of create_remediation).
UnknownNotRepeated ==
    [][\A t \in Tokens : exec[t].pc = "invoke" /\ exec'[t].pc = "sent" =>
          \A n \in CallsOf(exec[t].job, exec[t].req) :
             attempts[exec[t].job][n].sent # "dispatch_started"]_vars

\* A candidate that failed hard QA is not presented as ready (_complete_job).
CandidateNotFailed ==
    \A j \in Jobs : job[j].status = "candidate_ready" => attempts[j][job[j].result].qa # "fail"

\* A ready job shows the output of an attempt that was staged and completed,
\* and an image one that hard QA has looked at, whichever of completion, reuse
\* and recovery made it ready.
CandidateComplete ==
    \A j \in Jobs : job[j].status = "candidate_ready" =>
        /\ job[j].result \in DOMAIN attempts[j]
        /\ attempts[j][job[j].result].phase = "succeeded"
        /\ attempts[j][job[j].result].rev
        /\ j \in ImageJobs => attempts[j][job[j].result].qa # "none"

\* A completion of the job j that read its row before a cancel was requested.
CompletesUnaware(j) ==
    \E t \in Tokens : CompleteJob(t) /\ exec[t].job = j /\ ~ exec[t].saw.cancel

\* From a cancel request to the next decision of a user, nothing more is sent
\* for the job and it is not claimed.  It may still be made ready, in two ways
\* only: by recovery, which shows a candidate that was completed, and by a
\* completion that the request overtook (_complete_job reads the flag long
\* before it takes the writer lock).
CancelHolds ==
    [][\A j \in Jobs : job[j].cancel /\ job'[j].cancel =>
          /\ spent'[j] = spent[j]
          /\ job'[j].lease \in {0, job[j].lease}
          /\ job'[j].status = "candidate_ready" /\ job[j].status # "candidate_ready" =>
                \/ Count(j) > 0 /\ Latest(j).phase = "succeeded" /\ attempts' = attempts
                \/ CompletesUnaware(j)]_vars

\* A job that waits for the user, with no task left, can be decided about:
\* neither create_remediation nor resume_job refuses every decision.
UserCanAct ==
    \A j \in Jobs :
        job[j].status = "awaiting_user" /\ (\A t \in Tokens : Alive(t) => exec[t].job # j)
           => PendingKind(j) \in {"none", "tool_repair"}

\* The leases in force never exceed the concurrency of the plan, whatever
\* expires, is renewed late or is taken away, as long as no cancel request,
\* resumption or late completion is written over a claim (_claim_ready_jobs).
LeasesWithinLimit ==
    \A p \in Plans :
        Cardinality(ActiveIn(job, {j \in Jobs : PlanOf[j] = p})) <= AtLeastOne(MaxConcurrency[p])

\* The same for the frozen concurrency of a provider profile, among the jobs
\* that it still governs.
ProviderWithinLimit ==
    \A p \in Providers :
        Cardinality(ActiveIn(job, {j \in LegacyJobs : ProviderOf[j] = p})) <= AtLeastOne(ProviderLimit)

\* An action that waits to be executed, or is.
OpenAction(a) == a.status \in {"accepted", "running"}

\* A completion of the job j that drops its pending action a: it has seen a
\* cancel request, or another action than the one that is pending now.
CompletesPast(j, a) ==
    \E t \in Tokens :
        /\ CompleteJob(t) /\ exec[t].job = j
        /\ exec[t].saw.cancel \/ exec[t].saw.pending # a

\* No decision of the user is lost on the way: an accepted action becomes the
\* pending one of its job and stays it, through recovery, pauses and takeovers,
\* until it is completed, failed or rejected.  The exception is a completion
\* that was cancelled, or that a settlement and a new decision overtook.
ActionsSettle ==
    [][\A j \in Jobs : \A a \in DOMAIN actions'[j] :
          /\ OpenAction(actions'[j][a])
          /\ a \in DOMAIN actions[j] => OpenAction(actions[j][a]) /\ job[j].pending = a
          => job'[j].pending = a \/ CompletesPast(j, a)]_vars

\* The check before an action is executed protects a candidate that has been
\* replaced: an action is rejected only if the candidate of its job is not the
\* one it was decided about.
RejectedOnlyIfStale ==
    [][\A j \in Jobs : \A a \in DOMAIN actions[j] :
          actions[j][a].status # "rejected" /\ actions'[j][a].status = "rejected"
             => job[j].result # actions[j][a].input.result]_vars

\* A plan that shows as ready has only ready jobs.
PlanReadyMeansReady ==
    \A p \in Plans : planStatus[p] = "candidate_ready" =>
        \A j \in Jobs : PlanOf[j] = p => job[j].status = "candidate_ready"

\* A claimed job does not stay in a leased status for ever: its task ends, or
\* its lease runs out and is recovered.
LeasedSettles == \A j \in Jobs : job[j].status \in Leased ~> job[j].status \notin Leased

\* An untouched job that was sent to the user because of an upstream job goes
\* back to the queue once its upstream jobs stay ready.
BlockedReturns ==
    \A j \in Jobs :
        <>[](\A d \in DependsOn[j] : job[d].status = "candidate_ready") =>
            []<>~ (job[j].dep /\ Count(j) = 0 /\ job[j].pending = 0 /\ ~ job[j].cancel)
=============================================================================
