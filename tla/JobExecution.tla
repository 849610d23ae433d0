---------------------------- MODULE JobExecution ----------------------------
(***************************************************************************)
(* What the task of one claim does, from the check of its lease to the     *)
(* completion of the job: _execute_claimed_job and what it calls.          *)
(***************************************************************************)
EXTENDS JobStore

-----------------------------------------------------------------------------
(* Execution of a claim: up to the first provider attempt *)

\* A task that starts after its lease was lost returns.
BeginLost(t) ==
    /\ exec[t].pc = "claimed" /\ LoopFree(t)
    /\ ~ Held(t)
    /\ Finish(t)
    /\ UNCHANGED <<job, attempts, actions, spent, elsewhere>>

\* A pending tool repair goes to a worker thread.
BeginRepair(t) ==
    LET j == exec[t].job IN
    /\ exec[t].pc = "claimed" /\ LoopFree(t)
    /\ Held(t) /\ PendingKind(j) = "tool_repair"
    /\ exec' = [exec EXCEPT ![t] = [@ EXCEPT !.pc = "repair", !.act = job[j].pending]]
    /\ UNCHANGED <<job, attempts, actions, spent, elsewhere>>

\* The guard shared by the branches of _execute_provider_job's first transaction.
Preparing(t) ==
    /\ exec[t].pc = "claimed" /\ LoopFree(t)
    /\ Held(t) /\ PendingKind(exec[t].job) # "tool_repair"

InputChanged(j) == job[j].pending # 0 /\ InputOf(j) # actions[j][job[j].pending].input

\* A retry repeats the request of the latest attempt.
ExactRetry(j) == PendingKind(j) = "retry" /\ Count(j) > 0

\* The request cannot be built: a worker attempt holds no provider request to
\* repeat, or an upstream job has no candidate output.
Unresolvable(j) ==
    IF ExactRetry(j) THEN Latest(j).kind = "worker"
    ELSE \E d \in DependsOn[j] : job[d].status \notin Ready \/ job[d].result = 0

RequestOf(j) ==
    IF ExactRetry(j) THEN Latest(j).req
    ELSE [action |-> job[j].pending,
          up |-> [d \in Jobs |-> IF d \in DependsOn[j] THEN job[d].result ELSE 0]]

\* _recoverable_attempt: attempts of the request whose output can be reused.
Reusable(j, r) ==
    {n \in CallsOf(j, r) : \/ OutputValid(attempts[j][n])
                           \/ attempts[j][n].phase = "succeeded" /\ attempts[j][n].rev}

\* _resolve_request stores the request it resolved; an exact retry does not.
Resolve(j) ==
    job' = IF ExactRetry(j) THEN job ELSE [job EXCEPT ![j].resolved = {RequestOf(j)}]

RejectStaleAction(t) ==
    LET j == exec[t].job IN
    /\ Preparing(t) /\ InputChanged(j)
    /\ actions' = [actions EXCEPT ![j][job[j].pending].status = "rejected"]
    /\ job' = [job EXCEPT ![j].pending = 0]
    /\ Goto(t, "giveup")
    /\ UNCHANGED <<attempts, spent, elsewhere>>

\* Mutant: the task returns without settling the job.
PrepareFailsQuietly(t) ==
    /\ Preparing(t) /\ ~ InputChanged(exec[t].job) /\ Unresolvable(exec[t].job)
    /\ Finish(t)
    /\ UNCHANGED <<job, attempts, actions, spent, elsewhere>>

PrepareFails(t) ==
    LET j == exec[t].job IN
    /\ Preparing(t) /\ ~ InputChanged(j) /\ Unresolvable(j)
    /\ Goto(t, "giveup")
    /\ UNCHANGED <<job, attempts, actions, spent, elsewhere>>

\* The request was answered before: its candidate or its output is reused.
ReuseOutput(t) ==
    LET j == exec[t].job
        reusable == Reusable(j, RequestOf(j))
    IN  /\ Preparing(t) /\ ~ InputChanged(j) /\ ~ Unresolvable(j)
        /\ \E n \in reusable :
              /\ \A m \in reusable : m <= n
              /\ exec' = [exec EXCEPT ![t] = [@ EXCEPT
                    !.pc = IF attempts[j][n].phase = "succeeded" THEN "reuse" ELSE "stage",
                    !.at = n, !.fresh = FALSE, !.verdict = "none"]]
        /\ Resolve(j)
        /\ UNCHANGED <<attempts, actions, spent, elsewhere>>

\* Mutant: the task returns without settling the job.
CallsExhaustedQuietly(t) ==
    LET j == exec[t].job IN
    /\ Preparing(t) /\ ~ InputChanged(j) /\ ~ Unresolvable(j)
    /\ Reusable(j, RequestOf(j)) = {}
    /\ Spent(j, RequestOf(j)) >= MaxTransportRetries + 1
    /\ Finish(t)
    /\ UNCHANGED <<job, attempts, actions, spent, elsewhere>>

CallsExhausted(t) ==
    LET j == exec[t].job IN
    /\ Preparing(t) /\ ~ InputChanged(j) /\ ~ Unresolvable(j)
    /\ Reusable(j, RequestOf(j)) = {}
    /\ Spent(j, RequestOf(j)) >= MaxTransportRetries + 1
    /\ Resolve(j)
    /\ Goto(t, "giveup")
    /\ UNCHANGED <<attempts, actions, spent, elsewhere>>

PrepareCall(t) ==
    LET j == exec[t].job
        r == RequestOf(j)
    IN  /\ Preparing(t) /\ ~ InputChanged(j) /\ ~ Unresolvable(j)
        /\ Reusable(j, r) = {}
        /\ Spent(j, r) < MaxTransportRetries + 1
        /\ Resolve(j)
        /\ exec' = [exec EXCEPT ![t] = [@ EXCEPT
              !.pc = "start", !.req = r, !.left = MaxTransportRetries + 1 - Spent(j, r)]]
        /\ UNCHANGED <<attempts, actions, spent, elsewhere>>

-----------------------------------------------------------------------------
(* Provider attempts *)

NewCall(r) == [kind |-> "call", req |-> r, phase |-> "created", sent |-> "not_sent",
               err |-> "none", output |-> FALSE, rev |-> FALSE, qa |-> "none"]

\* Mutant: the lease is not checked again.
StartAttemptUnchecked(t) ==
    /\ exec[t].pc \in {"start", "sleep"} /\ LoopFree(t)
    /\ attempts' = [attempts EXCEPT ![exec[t].job] = Append(@, NewCall(exec[t].req))]
    /\ exec' = [exec EXCEPT ![t] = [@ EXCEPT
          !.pc = "build", !.at = Count(exec[t].job) + 1, !.fresh = TRUE]]
    /\ UNCHANGED <<job, actions, spent, elsewhere>>

\* The first attempt follows the preparation at once, a retry its delay.
StartAttempt(t) ==
    LET j == exec[t].job IN
    /\ exec[t].pc \in {"start", "sleep"} /\ LoopFree(t)
    /\ Held(t)
    /\ attempts' = [attempts EXCEPT ![j] = Append(@, NewCall(exec[t].req))]
    /\ exec' = [exec EXCEPT ![t] = [@ EXCEPT !.pc = "build", !.at = Count(j) + 1, !.fresh = TRUE]]
    /\ UNCHANGED <<job, actions, spent, elsewhere>>

\* _start_provider_attempt raises outside the try of the retry loop.
StartLost(t) ==
    /\ exec[t].pc \in {"start", "sleep"} /\ LoopFree(t)
    /\ ~ Held(t)
    /\ Goto(t, "giveup")
    /\ UNCHANGED <<job, attempts, actions, spent, elsewhere>>

\* build_provider copies the key out of the vault, or fails without one.
BuildProvider(t) ==
    /\ exec[t].pc = "build" /\ LoopFree(t)
    /\ IF ProviderOf[exec[t].job] \in vault THEN Goto(t, "invoke") ELSE Failing(t, "auth")
    /\ UNCHANGED <<job, attempts, actions, spent, elsewhere>>

\* A failure before anything is sent: address check, reference file, request.
FailLocally(t) ==
    /\ exec[t].pc = "invoke" /\ LoopFree(t)
    /\ \E e \in ErrorClasses \cap {"retryable", "final"} : Failing(t, e)
    /\ UNCHANGED <<job, attempts, actions, spent, elsewhere>>

\* Mutant: a cancel request does not stop the call.
MayDispatchLeased(t) == Held(t) /\ job[exec[t].job].live

\* The conditions _mark_dispatch checks under the database's writer lock.
MayDispatch(t) ==
    LET j == exec[t].job IN Held(t) /\ job[j].live /\ ~ job[j].cancel

\* Mutant: trusts the number of calls left that preparation computed.
CallsLeftCached(t) == exec[t].left > 0

CallsLeft(t) == Spent(exec[t].job, exec[t].req) < MaxTransportRetries + 1

AddCall(j, r) ==
    [spent EXCEPT ![j] = [q \in DOMAIN spent[j] \cup {r} |->
                            Spent(j, q) + (IF q = r THEN 1 ELSE 0)]]

\* _mark_dispatch, committed just before the request goes on the wire.
Dispatch(t) ==
    LET j == exec[t].job
        n == exec[t].at
    IN  /\ exec[t].pc = "invoke" /\ LoopFree(t)
        /\ MayDispatch(t) /\ CallsLeft(t)
        /\ attempts' = [attempts EXCEPT ![j][n] = [@ EXCEPT
              !.phase = "dispatched", !.sent = "dispatch_started"]]
        /\ spent' = AddCall(j, exec[t].req)
        /\ Goto(t, "sent")
        /\ UNCHANGED <<job, actions, elsewhere>>

RefuseDispatch(t) ==
    /\ exec[t].pc = "invoke" /\ LoopFree(t)
    /\ ~ (MayDispatch(t) /\ CallsLeft(t))
    /\ Failing(t, IF MayDispatch(t) THEN "quota" ELSE "final")
    /\ UNCHANGED <<job, attempts, actions, spent, elsewhere>>

\* A complete HTTP response arrived (_mark_response).
Respond(t) ==
    /\ exec[t].pc = "sent" /\ LoopFree(t)
    /\ attempts' = [attempts EXCEPT ![exec[t].job][exec[t].at].sent = "response_received"]
    /\ Goto(t, "responded")
    /\ UNCHANGED <<job, actions, spent, elsewhere>>

\* A timeout or a broken connection; some transport errors are not translated
\* into a ProviderError and leave the retry loop.
LoseResponse(t) ==
    /\ exec[t].pc = "sent" /\ LoopFree(t)
    /\ Failing(t, "retryable") \/ Goto(t, "giveup")
    /\ UNCHANGED <<job, attempts, actions, spent, elsewhere>>

\* structured_text falls back to another format or asks for a repair: another
\* call within the same attempt.
CallAgain(t) ==
    /\ exec[t].pc = "responded" /\ LoopFree(t)
    /\ exec[t].job \notin ImageJobs
    /\ Goto(t, "invoke")
    /\ UNCHANGED <<job, attempts, actions, spent, elsewhere>>

\* The response is an error, or its output cannot be written.
ErrorAnswer(t) ==
    /\ exec[t].pc = "responded" /\ LoopFree(t)
    /\ \E e \in ErrorClasses : Failing(t, e)
    /\ UNCHANGED <<job, attempts, actions, spent, elsewhere>>

\* _persist_provider_result does not look at the lease.
PersistResult(t) ==
    LET j == exec[t].job
        n == exec[t].at
    IN  /\ exec[t].pc = "responded" /\ LoopFree(t)
        /\ attempts' = [attempts EXCEPT ![j][n] = [@ EXCEPT
              !.phase = "output_received", !.output = TRUE]]
        /\ job' = [job EXCEPT ![j].status = "output_received"]
        /\ Goto(t, "stage")
        /\ UNCHANGED <<actions, spent, elsewhere>>

\* Mutant: what failed on the wire is repeated, answered or not.
AfterErrorUnanswered(e, sent, left) ==
    CASE e = "auth" -> "lock"
      [] e = "quota" -> "pause"
      [] e = "retryable" /\ left > 1 -> "sleep"
      [] OTHER -> "giveup"

\* What the retry loop does next about an error of an attempt.
AfterError(e, sent, left) ==
    CASE e = "auth" -> "lock"
      [] e = "quota" -> "pause"
      [] e = "retryable" /\ sent = "response_received" /\ left > 1 -> "sleep"
      [] OTHER -> "giveup"

FinishAttemptError(t) ==
    LET j == exec[t].job
        n == exec[t].at
    IN  /\ exec[t].pc = "failed"
        /\ attempts' = [attempts EXCEPT ![j][n] = [@ EXCEPT
              !.phase = "failed", !.err = exec[t].err]]
        /\ exec' = [exec EXCEPT ![t] = [@ EXCEPT
              !.pc = AfterError(exec[t].err, attempts[j][n].sent, exec[t].left),
              !.left = IF exec[t].left > 0 THEN exec[t].left - 1 ELSE 0]]
        /\ UNCHANGED <<job, actions, spent, elsewhere>>

\* _pause_provider_queue takes the queued and calling jobs of the provider out
\* of the queue; their tasks and pending actions stay as they are.
PauseProviderQueue(t) ==
    LET paused == {k \in SameProvider(exec[t].job) :
                     job[k].status \in {"queued", "running", "output_received"}}
        target == IF exec[t].pc = "lock" THEN "credentials_locked" ELSE "awaiting_user"
        rows == [k \in Jobs |-> IF k \in paused
                    THEN [Released(job[k]) EXCEPT !.status = target, !.dep = FALSE]
                    ELSE job[k]]
    IN  /\ exec[t].pc \in {"lock", "pause"}
        /\ job' = rows
        /\ planStatus' = Refresh(paused, rows)
        /\ Finish(t)
        /\ UNCHANGED <<attempts, actions, spent, claims, vault, cancelling, resuming, faults>>

\* _set_awaiting_user does not look at the lease either.
SetAwaitingUser(t) ==
    LET j == exec[t].job
        a == job[j].pending
        rows == [job EXCEPT ![j] = [Released(@) EXCEPT
                    !.status = "awaiting_user", !.dep = FALSE, !.pending = 0]]
    IN  /\ exec[t].pc \in {"giveup", "raised"} /\ LoopFree(t)
        /\ job' = rows
        /\ actions' = IF a # 0 /\ actions[j][a].status \notin {"completed", "rejected"}
                      THEN [actions EXCEPT ![j][a].status = "failed"] ELSE actions
        /\ planStatus' = Refresh({j}, rows)
        /\ Finish(t)
        /\ UNCHANGED <<attempts, spent, claims, vault, cancelling, resuming, faults>>

-----------------------------------------------------------------------------
(* Staging, hard QA and completion, in worker threads *)

BeginStaging(t) ==
    /\ exec[t].pc = "stage"
    /\ Held(t)
    /\ job' = [job EXCEPT ![exec[t].job].status = "hard_qa"]
    /\ Goto(t, "staging")
    /\ UNCHANGED <<attempts, actions, spent, elsewhere>>

\* The lease was lost before staging, or normalisation, the revision or an
\* evidence file failed.  The retry loop catches that for its own attempts.
StageFails(t) ==
    /\ \/ exec[t].pc = "stage" /\ ~ Held(t)
       \/ exec[t].pc = "staging" /\ "final" \in ErrorClasses
       \/ exec[t].pc = "staged" /\ exec[t].job \in ImageJobs /\ "final" \in ErrorClasses
    /\ LoopFree(t)
    /\ IF exec[t].fresh THEN Failing(t, "final") ELSE Goto(t, "giveup")
    /\ UNCHANGED <<job, attempts, actions, spent, elsewhere>>

\* The verdict of a rendition is computed once and kept.
StageResult(t) ==
    LET j == exec[t].job
        n == exec[t].at
        verdicts == IF j \notin ImageJobs THEN {"none"}
                    ELSE {v \in {"pass", "fail"} : attempts[j][n].qa \in {"none", v}}
    IN  /\ exec[t].pc = "staging"
        /\ \E v \in verdicts :
              /\ attempts' = [attempts EXCEPT ![j][n] = [@ EXCEPT
                    !.phase = "staged", !.rev = TRUE, !.qa = v]]
              /\ exec' = [exec EXCEPT ![t] = [@ EXCEPT !.pc = "staged", !.verdict = v]]
        /\ job' = [job EXCEPT ![j].result = n]
        /\ UNCHANGED <<actions, spent, elsewhere>>

\* _complete_job reads the row.  On the event loop no other task comes between
\* this and its commit, but requests do, and for a repair, in its thread, all.
CompleteRead(t) ==
    LET row == job[exec[t].job] IN
    /\ exec[t].pc \in {"staged", "reuse", "repaired"}
    /\ exec[t].pc # "repaired" => LoopFree(t)
    /\ exec' = [exec EXCEPT ![t] = [@ EXCEPT
          !.pc = IF exec[t].pc = "repaired" THEN "completingRepair" ELSE "completing",
          !.saw = [cancel |-> row.cancel, pending |-> row.pending, leased |-> row.lease # 0]]]
    /\ UNCHANGED <<job, attempts, actions, spent, elsewhere>>

\* The row that the commit of _complete_job leaves: the pending action and the
\* lease are cleared if the task has seen one.
Completed(t, outcome) ==
    LET row == job[exec[t].job] IN
    [(IF exec[t].saw.leased THEN Released(row) ELSE row) EXCEPT
        !.status = outcome, !.result = exec[t].at, !.dep = FALSE,
        !.pending = IF exec[t].saw.pending # 0 THEN 0 ELSE @]

\* Mutant: the attempt is left staged.
CompleteJobOnly(t) ==
    LET rows == [job EXCEPT ![exec[t].job] = Completed(t, "candidate_ready")]
    IN  /\ exec[t].pc \in {"completing", "completingRepair"}
        /\ job' = rows
        /\ planStatus' = Refresh({exec[t].job}, rows)
        /\ Finish(t)
        /\ UNCHANGED <<attempts, actions, spent, claims, vault, cancelling, resuming, faults>>

\* _complete_job does not look at whose lease it is.
CompleteJob(t) ==
    LET j == exec[t].job
        n == exec[t].at
        a == exec[t].saw.pending
        outcome == IF exec[t].saw.cancel THEN "cancelled"
                   ELSE IF exec[t].verdict = "fail" THEN "awaiting_user"
                   ELSE "candidate_ready"
        settled == CASE outcome = "cancelled" -> "unchanged"
                     [] outcome = "awaiting_user" -> "failed"
                     [] OTHER -> "completed"
        rows == [job EXCEPT ![j] = Completed(t, outcome)]
    IN  /\ exec[t].pc \in {"completing", "completingRepair"}
        /\ job' = rows
        /\ attempts' = [attempts EXCEPT ![j][n] = [@ EXCEPT !.phase = "succeeded", !.rev = TRUE]]
        /\ actions' = IF a # 0 /\ settled # "unchanged"
                      THEN [actions EXCEPT ![j][a].status = settled] ELSE actions
        /\ planStatus' = Refresh({j}, rows)
        /\ Finish(t)
        /\ UNCHANGED <<spent, claims, vault, cancelling, resuming, faults>>

\* _execute_tool_remediation, first transaction.
NewRepair(a) ==
    [kind |-> "worker", req |-> [NoRequest EXCEPT !.action = a],
     phase |-> "worker_running", sent |-> "legacy_unknown", err |-> "none",
     output |-> FALSE, rev |-> FALSE, qa |-> "none"]

RepairStale(t) ==
    /\ exec[t].pc = "repair"
    /\ ~ Held(t) \/ job[exec[t].job].result = 0
    /\ Goto(t, "raised")
    /\ UNCHANGED <<job, attempts, actions, spent, elsewhere>>

RepairRejected(t) ==
    LET j == exec[t].job IN
    /\ exec[t].pc = "repair"
    /\ Held(t) /\ job[j].result # 0
    /\ InputOf(j) # actions[j][exec[t].act].input
    /\ actions' = [actions EXCEPT ![j][exec[t].act].status = "rejected"]
    /\ Goto(t, "raised")
    /\ UNCHANGED <<job, attempts, spent, elsewhere>>

RepairBegin(t) ==
    LET j == exec[t].job
        a == exec[t].act
    IN  /\ exec[t].pc = "repair"
        /\ Held(t) /\ job[j].result # 0
        /\ InputOf(j) = actions[j][a].input
        /\ attempts' = [attempts EXCEPT ![j] = Append(@, NewRepair(a))]
        /\ job' = [job EXCEPT ![j].status = "remediating"]
        /\ actions' = [actions EXCEPT ![j][a].status = "running"]
        /\ exec' = [exec EXCEPT ![t] = [@ EXCEPT
              !.pc = "repairing", !.at = Count(j) + 1, !.fresh = TRUE]]
        /\ UNCHANGED <<spent, elsewhere>>

\* The worker's output, its revision and its hard QA.
RepairStage(t) ==
    LET j == exec[t].job
        n == exec[t].at
    IN  /\ exec[t].pc = "repairing"
        /\ \E v \in {"pass", "fail"} :
              /\ attempts' = [attempts EXCEPT ![j][n] = [@ EXCEPT
                    !.phase = "staged", !.output = TRUE, !.rev = TRUE, !.qa = v]]
              /\ exec' = [exec EXCEPT ![t] = [@ EXCEPT !.pc = "repaired", !.verdict = v]]
        /\ job' = [job EXCEPT ![j].result = n]
        /\ UNCHANGED <<actions, spent, elsewhere>>

RepairFails(t) ==
    /\ exec[t].pc \in {"repairing", "repaired"} /\ "final" \in ErrorClasses
    /\ Goto(t, "raised")
    /\ UNCHANGED <<job, attempts, actions, spent, elsewhere>>
=============================================================================
