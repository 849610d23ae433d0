----------------------------- MODULE JobStore -----------------------------
(***************************************************************************)
(* The generation job runner: runner.py (claim, lease, provider call,      *)
(* staging, completion, recovery), the job decisions of production.py and  *)
(* the job and provider endpoints of api.py.                               *)
(*                                                                         *)
(* One step is one database transaction.  Code on the asyncio event loop   *)
(* that does not await between two commits is kept together by LoopFree:   *)
(* endpoint threads and worker threads may run between the two commits,    *)
(* other tasks of the loop may not.                                        *)
(*                                                                         *)
(* What the model leaves out:                                              *)
(*   - texts, costs, progress, run events, evidence files and the mirror   *)
(*     of a job's status kept on its asset;                                *)
(*   - missing rows (a deleted profile, plan or asset): nothing deletes    *)
(*     them once a plan is confirmed;                                      *)
(*   - image_edit, which takes the path of regenerate, propose_changeset,  *)
(*     which create_remediation refuses, and repeats of a decision under   *)
(*     one idempotency key, which return the action of the first;          *)
(*   - providers that need no key, and the rule that a repeated finding    *)
(*     asks for another strategy, which only refuses decisions;            *)
(*   - attempts written by versions that did not record a dispatch state;  *)
(*   - a revision is named by the number of the attempt that produced it.  *)
(*                                                                         *)
(* SELECTs take no lock, and a session takes the writer lock at its first  *)
(* flush.  Where something may come between, the read and the write are    *)
(* two steps: a cancel, the completion of a job, and an unlock or a        *)
(* resumption that another request or the claim loop overtakes.  A         *)
(* decision (create_remediation) locks the row before it looks.  The       *)
(* status of a plan is derived from the rows at the write.                 *)
(***************************************************************************)
EXTENDS Naturals, Sequences, FiniteSets

CONSTANTS
    Jobs,                \* generation jobs, numbered in order of creation
    ImageJobs,           \* jobs whose task kind is image (the others are text)
    DependsOn,           \* job -> jobs it takes upstream outputs from
    Plans, PlanOf,       \* generation plans, job -> plan
    Providers, ProviderOf,   \* provider profiles, job -> profile
    LegacyJobs,          \* jobs frozen with runtime_policy_version 1
    MaxConcurrency,      \* plan -> max_concurrency
    ProviderLimit,       \* concurrency of a provider profile
    MaxTransportRetries, \* max_transport_retries of every plan
    ExtraCallBudget,     \* extra_call_budget of every plan
    MaxPaidRounds        \* max_paid_remediation_rounds of every plan

CONSTANTS                \* bounds on the environment
    ActionKinds,         \* remediation kinds users choose
    ErrorClasses,        \* classes of provider errors that occur
    MaxClaims,           \* leases ever granted
    MaxActions,          \* remediation actions per job
    MaxRestarts, MaxExpiries, MaxCancels, MaxLocks,
    MaxOverlaps          \* unlocks and resumptions that something overtakes

ASSUME JobsAssumption ==
    /\ Jobs \subseteq Nat \ {0}
    /\ IsFiniteSet(Jobs)
    /\ ImageJobs \subseteq Jobs
    /\ LegacyJobs \subseteq Jobs
    /\ DependsOn \in [Jobs -> SUBSET Jobs]
    /\ PlanOf \in [Jobs -> Plans]
    /\ ProviderOf \in [Jobs -> Providers]

ASSUME LimitsAssumption ==
    /\ MaxConcurrency \in [Plans -> Nat]
    /\ ProviderLimit \in Nat
    /\ MaxTransportRetries \in Nat
    /\ ExtraCallBudget \in Nat
    /\ MaxPaidRounds \in Nat

ASSUME BoundsAssumption ==
    /\ ActionKinds \subseteq {"retry", "regenerate", "tool_repair", "await_user"}
    /\ ErrorClasses \subseteq {"auth", "quota", "retryable", "final"}
    /\ MaxClaims \in Nat
    /\ MaxActions \in Nat
    /\ {MaxRestarts, MaxExpiries, MaxCancels, MaxLocks, MaxOverlaps} \subseteq Nat

VARIABLES
    job,         \* GenerationJob rows
    attempts,    \* GenerationAttempt rows of a job, in order of their number
    actions,     \* RemediationAction rows of a job, in order of creation
    spent,       \* job -> request -> sum of dispatch_count over its attempts
    exec,        \* lease token -> the task that executes the claim
    claims,      \* number of leases granted so far
    vault,       \* providers whose credentials are unlocked in memory
    planStatus,  \* GenerationPlan.status
    cancelling,  \* job -> status a cancel request has read, or "none"
    resuming,    \* what an unlock or a resumption that has read will write
    faults       \* how often each bounded environment event has happened

vars == <<job, attempts, actions, spent, exec, claims, vault, planStatus,
          cancelling, resuming, faults>>
elsewhere == <<claims, vault, planStatus, cancelling, resuming, faults>>

-----------------------------------------------------------------------------
(* Types *)

Leased == {"running", "output_received", "hard_qa", "remediating"}
Ready == {"candidate_ready"}
NeedsAttention == {"awaiting_user", "cancelled"}
Status == Leased \cup Ready \cup NeedsAttention \cup {"queued", "credentials_locked"}

PlanStatuses == {"confirmed", "candidate_ready", "awaiting_user", "running",
                 "credentials_locked", "cancelled"}

Tokens == 1..MaxClaims

\* What the request hash of a call depends on: the action whose parameters it
\* carries (0 for the base request) and the upstream revisions injected in it
\* (0 for jobs it does not depend on).
Request == [action : Nat, up : [Jobs -> Nat]]
NoRequest == [action |-> 0, up |-> [d \in Jobs |-> 0]]

\* What current_job_input_hash covers.
Input == [resolved : SUBSET Request, result : Nat]

Job == [status : Status, lease : Nat, live : BOOLEAN, cancel : BOOLEAN,
        dep : BOOLEAN, pending : Nat, result : Nat, resolved : SUBSET Request]

Phase == {"created", "dispatched", "output_received", "staged", "succeeded", "failed",
          "worker_running"}
DispatchState == {"not_sent", "dispatch_started", "response_received", "legacy_unknown"}
ErrorClass == {"none", "auth", "quota", "retryable", "final"}
Verdict == {"none", "pass", "fail"}

Attempt == [kind : {"call", "worker"}, req : Request, phase : Phase, sent : DispatchState,
            err : ErrorClass, output : BOOLEAN, rev : BOOLEAN, qa : Verdict]

Kind == {"retry", "regenerate", "tool_repair", "await_user"}
ActionStatus == {"accepted", "running", "completed", "failed", "rejected"}
Action == [kind : Kind, status : ActionStatus, input : Input, seen : Nat, resume : BOOLEAN]

\* Where a task is, between two of its transactions.
Position == {"unused", "claimed", "start", "build", "invoke", "sent", "responded", "failed",
             "sleep", "lock", "pause", "giveup", "raised", "stage", "staging", "staged",
             "reuse", "repair", "repairing", "repaired", "completing", "completingRepair",
             "done"}

\* What _complete_job has read of the row of the job.
Seen == [cancel : BOOLEAN, pending : Nat, leased : BOOLEAN]
Unseen == [cancel |-> FALSE, pending |-> 0, leased |-> FALSE]

Executor == [job : Nat, act : Nat, at : Nat, left : Nat, req : Request, fresh : BOOLEAN,
             err : ErrorClass, verdict : Verdict, saw : Seen, pc : Position]

Idle == [job |-> 0, act |-> 0, at |-> 0, left |-> 0, req |-> NoRequest,
         fresh |-> FALSE, err |-> "none", verdict |-> "none", saw |-> Unseen, pc |-> "unused"]
Finished == [Idle EXCEPT !.pc = "done"]

\* The jobs that an unlock or a resumption puts in the queue, those whose
\* cancellation it withdraws and those whose lease it clears.
Resumption == [queue : SUBSET Jobs, uncancel : SUBSET Jobs, free : SUBSET Jobs]
NotResuming == [queue |-> {}, uncancel |-> {}, free |-> {}]

-----------------------------------------------------------------------------
(* Helpers *)

SamePlan(j) == {k \in Jobs : PlanOf[k] = PlanOf[j]}
SameProvider(j) == {k \in Jobs : ProviderOf[k] = ProviderOf[j]}

Count(j) == Len(attempts[j])
Latest(j) == attempts[j][Count(j)]

\* attempt_output_is_valid: files under workspace/candidates are immutable.
OutputValid(a) == a.phase \in {"output_received", "staged"} /\ a.output

\* The attempts of a job that sent, or are about to send, the request r.
CallsOf(j, r) ==
    {n \in DOMAIN attempts[j] : attempts[j][n].kind = "call" /\ attempts[j][n].req = r}

\* The SUM(dispatch_count) query over the attempts with one request hash.
Spent(j, r) == IF r \in DOMAIN spent[j] THEN spent[j][r] ELSE 0

InputOf(j) == [resolved |-> job[j].resolved, result |-> job[j].result]

PendingKind(j) == IF job[j].pending = 0 THEN "none" ELSE actions[j][job[j].pending].kind

\* Mutant: one ready job makes the plan ready.
PlanStatusOfAny(p, rows) ==
    LET S == {rows[j].status : j \in {k \in Jobs : PlanOf[k] = p}}
    IN  IF S \cap Ready # {} THEN "candidate_ready"
        ELSE IF "awaiting_user" \in S THEN "awaiting_user" ELSE "running"

\* The mapping of refresh_plan_status, on job rows that may be uncommitted.
PlanStatusOf(p, rows) ==
    LET S == {rows[j].status : j \in {k \in Jobs : PlanOf[k] = p}}
    IN  IF S \subseteq Ready THEN "candidate_ready"
        ELSE IF "awaiting_user" \in S THEN "awaiting_user"
        ELSE IF S \cap (Leased \cup {"queued"}) # {} THEN "running"
        ELSE IF "credentials_locked" \in S THEN "credentials_locked"
        ELSE "cancelled"

\* refresh_plan_status for the plans of the jobs in changed.
Refresh(changed, rows) ==
    [p \in Plans |-> IF \E j \in changed : PlanOf[j] = p
                     THEN PlanStatusOf(p, rows) ELSE planStatus[p]]

\* Clearing lease_owner, lease_token, lease_expires_at and heartbeat_at.
Released(row) == [row EXCEPT !.lease = 0, !.live = FALSE]

\* The token of a task is still the lease token of its job.
Held(t) == job[exec[t].job].lease = t

Alive(t) == exec[t].pc \notin {"unused", "done"}

\* Positions between two commits of the event loop with no await between them.
Mid == {"start", "build", "failed", "lock", "pause", "giveup", "reuse", "completing"}
LoopFree(t) == \A u \in Tokens \ {t} : exec[u].pc \notin Mid

Goto(t, pc) == exec' = [exec EXCEPT ![t].pc = pc]
Failing(t, e) == exec' = [exec EXCEPT ![t] = [@ EXCEPT !.pc = "failed", !.err = e]]
Finish(t) == exec' = [exec EXCEPT ![t] = Finished]

Init ==
    /\ vault \in SUBSET Providers
    /\ job = [j \in Jobs |->
                [status |-> IF ProviderOf[j] \in vault THEN "queued" ELSE "credentials_locked",
                 lease |-> 0, live |-> FALSE, cancel |-> FALSE, dep |-> FALSE,
                 pending |-> 0, result |-> 0, resolved |-> {}]]
    /\ attempts = [j \in Jobs |-> <<>>]
    /\ actions = [j \in Jobs |-> <<>>]
    /\ spent = [j \in Jobs |-> [r \in {} |-> 0]]
    /\ exec = [t \in Tokens |-> Idle]
    /\ claims = 0
    /\ planStatus = [p \in Plans |->
          IF \A j \in Jobs : PlanOf[j] = p => ProviderOf[j] \notin vault
          THEN "credentials_locked" ELSE "confirmed"]
    /\ cancelling = [j \in Jobs |-> "none"]
    /\ resuming = NotResuming
    /\ faults = [restarts |-> 0, expiries |-> 0, cancels |-> 0, locks |-> 0, overlaps |-> 0]
=============================================================================
