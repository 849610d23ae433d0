--------------------------- MODULE JobLeaseProofs ---------------------------
(***************************************************************************)
(* A task that holds the lease of its job works on the job's latest        *)
(* attempt.  Two facts make this inductive: tasks are numbered by the      *)
(* claims that started them, so that a new claim never revives the lease   *)
(* of an old task; and every other step that moves a task within an        *)
(* attempt, or adds an attempt, is one of the task that holds the lease.   *)
(*                                                                         *)
(* Leases stay within the limits of plans and providers, each has a task   *)
(* that works on its job, and a cancelled job gets none.  The first two    *)
(* need that no cancel request, resumption or late completion overwrites a *)
(* claim it did not see: such a write leaves a lease on a job that counts  *)
(* as settled until its task makes it active again.                        *)
(*                                                                         *)
(* What a step writes to rows, attempts and tasks is stated once, for the  *)
(* theorems that follow: an open action is the pending one of its job, a   *)
(* plan that shows as ready is, and a ready job shows an output that was   *)
(* completed and looked at.  The last two need that some late or           *)
(* unsynchronised write does not happen, named in their hypotheses.        *)
(***************************************************************************)
EXTENDS JobRunnerProofs, WellFoundedInduction

\* No task has a token that was not granted yet.
TasksClaimed == \A t \in Tokens : Alive(t) => t <= claims

LeaseInv == TasksClaimed /\ HolderOwnsLatest

-----------------------------------------------------------------------------
(* Steps that start no attempt and grant no lease *)

\* A task that is in an attempt of its own after the step was in it before.
KeepsPlace(u) ==
    exec'[u].fresh /\ exec'[u].pc \in InAttempt =>
        /\ exec[u].fresh /\ exec[u].pc \in InAttempt
        /\ exec'[u].at = exec[u].at
        /\ exec'[u].job = exec[u].job

KeepsPlaces ==
    \A u \in Tokens : KeepsPlace(u) /\ (exec'[u].pc \notin {"unused", "done"} => Alive(u))

LeasesKept == \A j \in Jobs : job'[j].lease \in {0, job[j].lease}
CountsKept == \A j \in Jobs : Len(attempts'[j]) = Len(attempts[j])
Steady == KeepsPlaces /\ LeasesKept /\ CountsKept /\ claims' = claims

\* Replacing the record of one task.
LEMMA MoveKeeps ==
    ASSUME ExecutorsOK, NEW t \in Tokens, Alive(t), NEW e, exec' = [exec EXCEPT ![t] = e],
           e.fresh /\ e.pc \in InAttempt =>
              /\ exec[t].fresh /\ exec[t].pc \in InAttempt
              /\ e.at = exec[t].at /\ e.job = exec[t].job
    PROVE  KeepsPlaces
<1>1. \A u \in Tokens : exec'[u] = IF u = t THEN e ELSE exec[u]
  BY DEF ExecutorsOK
<1> QED
  BY <1>1 DEF KeepsPlaces, KeepsPlace, Alive

\* Moving one task, failing it and ending it.
LEMMA GotoKeeps ==
    ASSUME ExecutorsOK, NEW t \in Tokens, Alive(t), NEW p, Goto(t, p),
           p \in InAttempt => exec[t].pc \in InAttempt
    PROVE  KeepsPlaces
<1>1. exec[t] \in Executor
  BY DEF ExecutorsOK
<1>2. exec' = [exec EXCEPT ![t] = [exec[t] EXCEPT !.pc = p]]
  BY DEF Goto
<1>3. /\ [exec[t] EXCEPT !.pc = p].pc = p
      /\ [exec[t] EXCEPT !.pc = p].fresh = exec[t].fresh
      /\ [exec[t] EXCEPT !.pc = p].at = exec[t].at
      /\ [exec[t] EXCEPT !.pc = p].job = exec[t].job
  BY <1>1 DEF Executor
<1> QED
  BY <1>2, <1>3, MoveKeeps

\* A task fails within its attempt.
LEMMA FailingKeeps ==
    ASSUME ExecutorsOK, NEW t \in Tokens, NEW x, Failing(t, x), exec[t].pc \in InAttempt
    PROVE  KeepsPlaces
<1>1. exec[t] \in Executor /\ Alive(t)
  BY DEF ExecutorsOK, Alive, InAttempt
<1> DEFINE e == [exec[t] EXCEPT !.pc = "failed", !.err = x]
<1>2. exec' = [exec EXCEPT ![t] = e]
  BY DEF Failing
<1>3. e.fresh = exec[t].fresh /\ e.at = exec[t].at /\ e.job = exec[t].job
  BY <1>1 DEF Executor
<1> HIDE DEF e
<1> QED
  BY <1>1, <1>2, <1>3, MoveKeeps

\* A task ends.
LEMMA FinishKeeps ==
    ASSUME ExecutorsOK, NEW t \in Tokens, Alive(t), Finish(t)
    PROVE  KeepsPlaces
<1>1. ~ Finished.fresh
  BY DEF Finished, Idle
<1> QED
  BY <1>1, MoveKeeps DEF Finish

\* No task moves.
LEMMA SameKeeps == ASSUME exec' = exec PROVE KeepsPlaces
  BY DEF KeepsPlaces, KeepsPlace, Alive

\* A change of one row that keeps or gives up its lease.
LEMMA RowKeeps ==
    ASSUME TypeOK, NEW j, NEW row, job' = [job EXCEPT ![j] = row],
           j \in Jobs => row.lease \in {0, job[j].lease}
    PROVE  LeasesKept
  BY DEF TypeOK, LeasesKept

\* No row changes.
LEMMA SameLeases == ASSUME job' = job PROVE LeasesKept
  BY DEF LeasesKept

\* A released row has no lease.
LEMMA ReleasedLease ==
    ASSUME NEW row \in Job
    PROVE  Released(row).lease = 0
  BY DEF Released, Job

\* A change of one attempt adds none.
LEMMA CountsUnchanged ==
    ASSUME TypeOK, TypeOK', NEW j, NEW n, NEW a,
           attempts' = [attempts EXCEPT ![j] = [attempts[j] EXCEPT ![n] = a]]
    PROVE  CountsKept
<1>1. ASSUME NEW k \in Jobs PROVE Len(attempts'[k]) = Len(attempts[k])
  <2>1. attempts[k] \in Seq(Attempt) /\ attempts'[k] \in Seq(Attempt)
    BY DEF TypeOK
  <2>2. DOMAIN attempts'[k] = DOMAIN attempts[k]
    BY DEF TypeOK
  <2> QED
    BY <2>1, <2>2, LenProperties
<1> QED
  BY <1>1 DEF CountsKept

\* No attempt changes.
LEMMA SameCounts == ASSUME attempts' = attempts PROVE CountsKept
  BY DEF CountsKept

\* Each step of a task that starts no attempt is steady.
LEMMA BeginSteady ==
    ASSUME TypeOK, NEW t \in Tokens, Begin(t)
    PROVE  Steady
<1> DEFINE j == exec[t].job
<1>0. Alive(t) /\ ExecutorsOK
  BY Zenon DEF Begin, BeginLost, BeginRepair, RejectStaleAction, PrepareFails, ReuseOutput,
         CallsExhausted, PrepareCall, Preparing, Alive, TypeOK
<1>1. exec[t] \in Executor /\ j \in Jobs /\ job[j] \in Job
  BY <1>0, TaskHasJob, Zenon DEF TypeOK
<1>2. CountsKept /\ claims' = claims
  BY SameCounts, Zenon DEF Begin, BeginLost, BeginRepair, RejectStaleAction, PrepareFails, ReuseOutput,
         CallsExhausted, PrepareCall, elsewhere
<1>3. LeasesKept
  <2>1. [job[j] EXCEPT !.pending = 0].lease = job[j].lease
    BY <1>1, Zenon DEF Job
  <2>2. CASE RejectStaleAction(t)
    BY <2>1, <2>2, RowKeeps DEF RejectStaleAction
  <2>3. [job[j] EXCEPT !.resolved = {RequestOf(j)}].lease = job[j].lease
    BY <1>1 DEF Job
  <2>4. CASE Resolve(j)
    BY <2>3, <2>4, RowKeeps, SameLeases DEF Resolve
  <2>5. CASE job' = job
    BY <2>5, SameLeases
  <2> QED
    BY <2>2, <2>4, <2>5 DEF Begin, BeginLost, BeginRepair, PrepareFails, ReuseOutput,
       CallsExhausted, PrepareCall
<1>4. KeepsPlaces
  <2>1. CASE BeginLost(t)
    BY <1>0, <2>1, FinishKeeps DEF BeginLost
  <2>2. CASE BeginRepair(t)
    <3> DEFINE e == [exec[t] EXCEPT !.pc = "repair", !.act = job[j].pending]
    <3>1. e.pc \notin InAttempt
      BY <1>1 DEF InAttempt, Executor
    <3>2. exec' = [exec EXCEPT ![t] = e]
      BY <2>2 DEF BeginRepair
    <3> HIDE DEF e
    <3> QED
      BY <1>0, <3>1, <3>2, MoveKeeps
  <2>3. CASE Goto(t, "giveup")
    BY <1>0, <2>3, GotoKeeps DEF InAttempt
  <2>4. CASE ReuseOutput(t)
    <3>1. PICK n \in Reusable(j, RequestOf(j)) : exec' = [exec EXCEPT ![t] = [exec[t] EXCEPT
              !.pc = IF attempts[j][n].phase = "succeeded" THEN "reuse" ELSE "stage",
              !.at = n, !.fresh = FALSE, !.verdict = "none"]]
      BY <2>4 DEF ReuseOutput
    <3> DEFINE p == IF attempts[j][n].phase = "succeeded" THEN "reuse" ELSE "stage"
               e == [exec[t] EXCEPT !.pc = p, !.at = n, !.fresh = FALSE, !.verdict = "none"]
    <3>2. ~ e.fresh
      BY <1>1 DEF Executor
    <3>3. exec' = [exec EXCEPT ![t] = e]
      BY <3>1
    <3> HIDE DEF e
    <3> QED
      BY <1>0, <3>2, <3>3, MoveKeeps
  <2>5. CASE PrepareCall(t)
    <3> DEFINE e == [exec[t] EXCEPT !.pc = "start", !.req = RequestOf(j),
                       !.left = MaxTransportRetries + 1 - Spent(j, RequestOf(j))]
    <3>1. e.pc \notin InAttempt
      BY <1>1 DEF InAttempt, Executor
    <3>2. exec' = [exec EXCEPT ![t] = e]
      BY <2>5 DEF PrepareCall
    <3> HIDE DEF e
    <3> QED
      BY <1>0, <3>1, <3>2, MoveKeeps
  <2> QED
    BY <2>1, <2>2, <2>3, <2>4, <2>5 DEF Begin, RejectStaleAction, PrepareFails, CallsExhausted
<1> QED
  BY <1>2, <1>3, <1>4, Zenon DEF Steady

\* Of the steps up to the dispatch, only one starts an attempt.
LEMMA AttemptingSteady ==
    ASSUME TypeOK, TypeOK', NEW t \in Tokens, Attempting(t)
    PROVE  Steady \/ StartAttempt(t)
<1> SUFFICES ASSUME ~ StartAttempt(t) PROVE Steady
  OBVIOUS
<1>0. Alive(t) /\ ExecutorsOK
  BY DEF Attempting, StartLost, BuildProvider, FailLocally, Dispatch, RefuseDispatch, Alive, TypeOK
<1>1. LeasesKept /\ claims' = claims
  BY SameLeases DEF Attempting, StartLost, BuildProvider, FailLocally, Dispatch, RefuseDispatch,
     elsewhere
<1>2. CountsKept
  <2>1. CASE Dispatch(t)
    BY <2>1, CountsUnchanged DEF Dispatch
  <2> QED
    BY <2>1, SameCounts DEF Attempting, StartLost, BuildProvider, FailLocally, RefuseDispatch
<1>3. KeepsPlaces
  <2>1. CASE StartLost(t)
    BY <1>0, <2>1, GotoKeeps DEF StartLost, InAttempt
  <2>2. CASE BuildProvider(t)
    BY <1>0, <2>2, GotoKeeps, FailingKeeps DEF BuildProvider, InAttempt
  <2>3. CASE FailLocally(t)
    BY <1>0, <2>3, FailingKeeps DEF FailLocally, InAttempt
  <2>4. CASE Dispatch(t)
    BY <1>0, <2>4, GotoKeeps DEF Dispatch, InAttempt
  <2>5. CASE RefuseDispatch(t)
    BY <1>0, <2>5, FailingKeeps DEF RefuseDispatch, InAttempt
  <2> QED
    BY <2>1, <2>2, <2>3, <2>4, <2>5 DEF Attempting
<1> QED
  BY <1>1, <1>2, <1>3 DEF Steady

\* The steps after a dispatch are steady.
LEMMA AnsweredSteady ==
    ASSUME TypeOK, TypeOK', NEW t \in Tokens, Answered(t)
    PROVE  Steady
<1> DEFINE j == exec[t].job
<1>0. Alive(t) /\ ExecutorsOK
  BY DEF Answered, Respond, LoseResponse, CallAgain, ErrorAnswer, PersistResult, Alive, TypeOK
<1>1. j \in Jobs /\ job[j] \in Job
  BY <1>0, TaskHasJob DEF TypeOK
<1>2. LeasesKept /\ claims' = claims
  <2>1. [job[j] EXCEPT !.status = "output_received"].lease = job[j].lease
    BY <1>1 DEF Job
  <2>2. PersistResult(t) => LeasesKept
    BY <2>1, RowKeeps DEF PersistResult
  <2> QED
    BY <2>2, SameLeases DEF Answered, Respond, LoseResponse, CallAgain, ErrorAnswer, PersistResult,
       elsewhere
<1>3. CountsKept
  <2>1. CASE Respond(t)
    BY <2>1, CountsUnchanged DEF Respond
  <2>2. CASE PersistResult(t)
    BY <2>2, CountsUnchanged DEF PersistResult
  <2> QED
    BY <2>1, <2>2, SameCounts DEF Answered, LoseResponse, CallAgain, ErrorAnswer
<1>4. KeepsPlaces
  <2>1. CASE Respond(t)
    BY <1>0, <2>1, GotoKeeps DEF Respond, InAttempt
  <2>2. CASE LoseResponse(t)
    BY <1>0, <2>2, GotoKeeps, FailingKeeps DEF LoseResponse, InAttempt
  <2>3. CASE CallAgain(t)
    BY <1>0, <2>3, GotoKeeps DEF CallAgain, InAttempt
  <2>4. CASE ErrorAnswer(t)
    BY <1>0, <2>4, FailingKeeps DEF ErrorAnswer, InAttempt
  <2>5. CASE PersistResult(t)
    BY <1>0, <2>5, GotoKeeps DEF PersistResult, InAttempt
  <2> QED
    BY <2>1, <2>2, <2>3, <2>4, <2>5 DEF Answered
<1> QED
  BY <1>2, <1>3, <1>4, Zenon DEF Steady

\* The steps that settle a failed attempt are steady, for every job of the provider.
LEMMA SettlingSteady ==
    ASSUME TypeOK, TypeOK', NEW t \in Tokens, Settling(t)
    PROVE  Steady
<1> DEFINE j == exec[t].job
           n == exec[t].at
<1>0. Alive(t) /\ ExecutorsOK
  BY Zenon DEF Settling, FinishAttemptError, PauseProviderQueue, SetAwaitingUser, Alive, TypeOK
<1>1. exec[t] \in Executor /\ j \in Jobs /\ \A k \in Jobs : job[k] \in Job
  BY <1>0, TaskHasJob DEF TypeOK
<1>2. CASE FinishAttemptError(t)
  <2> DEFINE p == AfterError(exec[t].err, attempts[j][n].sent, exec[t].left)
             m == IF exec[t].left > 0 THEN exec[t].left - 1 ELSE 0
             e == [exec[t] EXCEPT !.pc = p, !.left = m]
  <2>1. p \in {"lock", "pause", "sleep", "giveup"}
    BY DEF AfterError
  <2>2. exec' = [exec EXCEPT ![t] = e]
    BY <1>2 DEF FinishAttemptError
  <2> HIDE DEF p, m
  <2>3. e.pc = p
    BY <1>1 DEF Executor
  <2>4. e.pc \notin InAttempt
    BY <2>1, <2>3 DEF InAttempt
  <2> HIDE DEF e
  <2>5. KeepsPlaces
    BY <1>0, <2>2, <2>4, MoveKeeps
  <2>6. LeasesKept /\ claims' = claims
    BY <1>2, SameLeases DEF FinishAttemptError, elsewhere
  <2>7. CountsKept
    BY <1>2, CountsUnchanged DEF FinishAttemptError
  <2> QED
    BY <2>5, <2>6, <2>7 DEF Steady
<1>3. CASE PauseProviderQueue(t)
  <2> DEFINE target == IF exec[t].pc = "lock" THEN "credentials_locked" ELSE "awaiting_user"
  <2>1. KeepsPlaces
    BY <1>0, <1>3, FinishKeeps DEF PauseProviderQueue
  <2>2. \A k \in Jobs : [Released(job[k]) EXCEPT !.status = target, !.dep = FALSE].lease = 0
    <3>1. \A k \in Jobs : Released(job[k]) \in Job /\ Released(job[k]).lease = 0
      BY <1>1, ReleasedTyped, ReleasedLease
    <3> QED
      BY <3>1 DEF Job
  <2>3. LeasesKept
    BY <1>3, <2>2, Zenon DEF PauseProviderQueue, LeasesKept
  <2> QED
    BY <1>3, <2>1, <2>3, SameCounts DEF Steady, PauseProviderQueue
<1>4. CASE SetAwaitingUser(t)
  <2> DEFINE row == [Released(job[j]) EXCEPT !.status = "awaiting_user", !.dep = FALSE, !.pending = 0]
  <2>1. KeepsPlaces
    BY <1>0, <1>4, FinishKeeps, Zenon DEF SetAwaitingUser
  <2>2. Released(job[j]) \in Job /\ Released(job[j]).lease = 0
    BY <1>1, ReleasedTyped, ReleasedLease
  <2>3. row.lease = 0
    BY <2>2, Zenon DEF Job
  <2>4. job' = [job EXCEPT ![j] = row]
    BY <1>4, Zenon DEF SetAwaitingUser
  <2> HIDE DEF row
  <2>5. LeasesKept
    BY <2>3, <2>4, RowKeeps, Zenon
  <2> QED
    BY <1>4, <2>1, <2>5, SameCounts, Zenon DEF Steady, SetAwaitingUser
<1> QED
  BY <1>2, <1>3, <1>4, Zenon DEF Settling

\* The row that a completion leaves.
LEMMA CompletedRow ==
    ASSUME TypeOK, NEW t \in Tokens, exec[t].job \in Jobs, NEW s
    PROVE  LET row == job[exec[t].job] IN
           /\ Completed(t, s).lease = IF exec[t].saw.leased THEN 0 ELSE row.lease
           /\ Completed(t, s).status = s /\ Completed(t, s).cancel = row.cancel
           /\ Completed(t, s).resolved = row.resolved
           /\ Completed(t, s).result = exec[t].at /\ ~ Completed(t, s).dep
           /\ Completed(t, s).pending = IF exec[t].saw.pending # 0 THEN 0 ELSE row.pending
<1> DEFINE j == exec[t].job
           row == IF exec[t].saw.leased THEN Released(job[j]) ELSE job[j]
           a == IF exec[t].saw.pending # 0 THEN 0 ELSE row.pending
<1>1. /\ row \in Job /\ row.lease = IF exec[t].saw.leased THEN 0 ELSE job[j].lease
      /\ row.cancel = job[j].cancel /\ row.resolved = job[j].resolved /\ row.pending = job[j].pending
  <2>1. /\ Released(job[j]) \in Job /\ Released(job[j]).lease = 0
        /\ Released(job[j]).cancel = job[j].cancel /\ Released(job[j]).resolved = job[j].resolved
        /\ Released(job[j]).pending = job[j].pending
    BY ReleasedTyped DEF TypeOK, Released, Job
  <2> QED
    BY <2>1 DEF TypeOK
<1>2. Completed(t, s) = [row EXCEPT !.status = s, !.result = exec[t].at, !.dep = FALSE, !.pending = a]
  BY DEF Completed
<1>3. a = IF exec[t].saw.pending # 0 THEN 0 ELSE job[j].pending
  BY <1>1
<1> HIDE DEF row, a
<1>4. /\ Completed(t, s).lease = row.lease /\ Completed(t, s).status = s
      /\ Completed(t, s).cancel = row.cancel /\ Completed(t, s).resolved = row.resolved
      /\ Completed(t, s).result = exec[t].at /\ ~ Completed(t, s).dep
      /\ Completed(t, s).pending = a
  BY <1>1, <1>2 DEF Job
<1> QED
  BY <1>1, <1>3, <1>4

\* Staging and completion are steady.
LEMMA StagingSteady ==
    ASSUME TypeOK, TypeOK', NEW t \in Tokens, Staging(t)
    PROVE  Steady
<1> DEFINE j == exec[t].job
           n == exec[t].at
<1>0. Alive(t) /\ ExecutorsOK
  BY Zenon DEF Staging, BeginStaging, StageFails, StageResult, CompleteRead, CompleteJob, Alive, TypeOK
<1>1. exec[t] \in Executor /\ j \in Jobs /\ job[j] \in Job
  BY <1>0, TaskHasJob DEF TypeOK
<1>2. CASE BeginStaging(t)
  <2>1. KeepsPlaces
    BY <1>0, <1>2, GotoKeeps DEF BeginStaging, InAttempt
  <2>2. [job[j] EXCEPT !.status = "hard_qa"].lease = job[j].lease
    BY <1>1 DEF Job
  <2>3. LeasesKept
    BY <1>2, <2>2, RowKeeps DEF BeginStaging
  <2> QED
    BY <1>2, <2>1, <2>3, SameCounts DEF Steady, BeginStaging, elsewhere
<1>3. CASE StageFails(t)
  <2>1. exec[t].pc \in InAttempt
    BY <1>3 DEF StageFails, InAttempt
  <2>2. KeepsPlaces
    BY <1>0, <1>3, <2>1, GotoKeeps, FailingKeeps DEF StageFails
  <2> QED
    BY <1>3, <2>2, SameCounts, SameLeases DEF Steady, StageFails, elsewhere
<1>4. CASE StageResult(t)
  <2>1. PICK v :
            /\ attempts' = [attempts EXCEPT ![j][n] = [attempts[j][n] EXCEPT
                  !.phase = "staged", !.rev = TRUE, !.qa = v]]
            /\ exec' = [exec EXCEPT ![t] = [exec[t] EXCEPT !.pc = "staged", !.verdict = v]]
    BY <1>4 DEF StageResult
  <2> DEFINE e == [exec[t] EXCEPT !.pc = "staged", !.verdict = v]
  <2>2. e.fresh = exec[t].fresh /\ e.at = exec[t].at /\ e.job = exec[t].job
    BY <1>1 DEF Executor
  <2>3. exec[t].pc \in InAttempt
    BY <1>4 DEF StageResult, InAttempt
  <2>4. KeepsPlaces
    <3>1. exec' = [exec EXCEPT ![t] = e]
      BY <2>1
    <3> HIDE DEF e
    <3> QED BY <1>0, <2>2, <2>3, <3>1, MoveKeeps
  <2>5. CountsKept
    BY <2>1, CountsUnchanged
  <2>6. [job[j] EXCEPT !.result = n].lease = job[j].lease
    BY <1>1 DEF Job
  <2>7. LeasesKept
    BY <1>4, <2>6, RowKeeps, Zenon DEF StageResult
  <2> QED
    BY <1>4, <2>4, <2>5, <2>7, Zenon DEF Steady, StageResult, elsewhere
<1>5. CASE CompleteRead(t)
  <2> DEFINE s == [cancel |-> job[j].cancel, pending |-> job[j].pending, leased |-> job[j].lease # 0]
             p == IF exec[t].pc = "repaired" THEN "completingRepair" ELSE "completing"
             e == [exec[t] EXCEPT !.pc = p, !.saw = s]
  <2>1. exec' = [exec EXCEPT ![t] = e]
    BY <1>5, Zenon DEF CompleteRead
  <2>2. e.fresh = exec[t].fresh /\ e.at = exec[t].at /\ e.job = exec[t].job /\ e.pc = p
    BY <1>1 DEF Executor
  <2>3. exec[t].pc \in InAttempt
    BY <1>5 DEF CompleteRead, InAttempt
  <2> HIDE DEF e, s, p
  <2>4. KeepsPlaces
    BY <1>0, <2>1, <2>2, <2>3, MoveKeeps
  <2> QED
    BY <1>5, <2>4, SameCounts, SameLeases DEF Steady, CompleteRead, elsewhere
<1>6. CASE CompleteJob(t)
  <2>1. KeepsPlaces
    BY <1>0, <1>6, FinishKeeps, Zenon DEF CompleteJob
  <2>2. PICK s : job' = [job EXCEPT ![j] = Completed(t, s)]
    BY <1>6 DEF CompleteJob
  <2>3. Completed(t, s).lease \in {0, job[j].lease}
    BY <1>1, CompletedRow
  <2>4. LeasesKept
    BY <2>2, <2>3, RowKeeps, Zenon
  <2>5. CountsKept
    BY <1>6, CountsUnchanged, Zenon DEF CompleteJob
  <2> QED
    BY <1>6, <2>1, <2>4, <2>5, Zenon DEF Steady, CompleteJob
<1> QED
  BY <1>2, <1>3, <1>4, <1>5, <1>6 DEF Staging

\* Of the steps of a tool repair, only its beginning starts an attempt.
LEMMA RepairingSteady ==
    ASSUME TypeOK, TypeOK', NEW t \in Tokens, Repairing(t)
    PROVE  Steady \/ RepairBegin(t)
<1> SUFFICES ASSUME ~ RepairBegin(t) PROVE Steady
  OBVIOUS
<1> DEFINE j == exec[t].job
           n == exec[t].at
<1>0. Alive(t) /\ ExecutorsOK
  BY DEF Repairing, RepairStale, RepairRejected, RepairStage, RepairFails, Alive, TypeOK
<1>1. exec[t] \in Executor /\ j \in Jobs /\ job[j] \in Job
  BY <1>0, TaskHasJob DEF TypeOK
<1>2. CASE RepairStage(t)
  <2>1. PICK v :
            /\ attempts' = [attempts EXCEPT ![j][n] = [attempts[j][n] EXCEPT
                  !.phase = "staged", !.output = TRUE, !.rev = TRUE, !.qa = v]]
            /\ exec' = [exec EXCEPT ![t] = [exec[t] EXCEPT !.pc = "repaired", !.verdict = v]]
    BY <1>2 DEF RepairStage
  <2> DEFINE e == [exec[t] EXCEPT !.pc = "repaired", !.verdict = v]
  <2>2. e.fresh = exec[t].fresh /\ e.at = exec[t].at /\ e.job = exec[t].job
    BY <1>1 DEF Executor
  <2>3. exec[t].pc \in InAttempt
    BY <1>2 DEF RepairStage, InAttempt
  <2>4. KeepsPlaces
    <3>1. exec' = [exec EXCEPT ![t] = e]
      BY <2>1
    <3> HIDE DEF e
    <3> QED BY <1>0, <2>2, <2>3, <3>1, MoveKeeps
  <2>5. CountsKept
    BY <2>1, CountsUnchanged
  <2>6. [job[j] EXCEPT !.result = n].lease = job[j].lease
    BY <1>1 DEF Job
  <2>7. LeasesKept
    BY <1>2, <2>6, RowKeeps DEF RepairStage
  <2> QED
    BY <1>2, <2>4, <2>5, <2>7, Zenon DEF Steady, RepairStage, elsewhere
<1>3. CASE Goto(t, "raised") /\ UNCHANGED <<job, attempts, spent, elsewhere>>
  <2>1. KeepsPlaces
    BY <1>0, <1>3, GotoKeeps DEF InAttempt
  <2> QED
    BY <1>3, <2>1, SameCounts, SameLeases DEF Steady, elsewhere
<1> QED
  BY <1>2, <1>3, Zenon DEF Repairing, RepairStale, RepairRejected, RepairFails

\* A restart ends every task; an expired lease stays with its token.
LEMMA EnvironmentSteady == ASSUME TypeOK, Environment PROVE Steady
<1>1. CASE Restart
  <2>1. KeepsPlaces
    BY <1>1 DEF TypeOK, ExecutorsOK, KeepsPlaces, KeepsPlace, Restart, Alive, Finished, Idle
  <2>2. \A j \in Jobs : job[j] \in Job /\ Recovered(j, {}, TRUE).lease = 0
    <3> TAKE j \in Jobs
    <3>1. job[j] \in Job
      BY DEF TypeOK
    <3>2. Released(job[j]) \in Job /\ Released(job[j]).lease = 0
      BY <3>1, ReleasedTyped, ReleasedLease
    <3>3. Recovered(j, {}, TRUE).lease = Released(job[j]).lease
      <4> DEFINE row == Released(job[j])
      <4>1. row \in Job
        BY <3>2
      <4> HIDE DEF row
      <4>2. \A s, p, r : [row EXCEPT !.status = s, !.dep = FALSE, !.pending = p, !.result = r].lease
                            = row.lease
        BY <4>1 DEF Job
      <4> QED
        BY <4>2 DEF Recovered, row
    <3> QED
      BY <3>1, <3>2, <3>3
  <2>3. LeasesKept
    BY <1>1, <2>2 DEF Restart, LeasesKept
  <2> QED
    BY <1>1, <2>1, <2>3, SameCounts DEF Steady, Restart
<1>2. ASSUME NEW j \in Jobs, ExpireLease(j) PROVE Steady
  <2>1. [job[j] EXCEPT !.live = FALSE].lease = job[j].lease
    BY DEF TypeOK, Job
  <2>2. LeasesKept
    BY <1>2, <2>1, RowKeeps DEF ExpireLease
  <2> QED
    BY <1>2, <2>2, SameKeeps, SameCounts DEF Steady, ExpireLease
<1> QED
  BY <1>1, <1>2 DEF Environment

\* A heartbeat renews a lease under the same token.
LEMMA HeartbeatSteady == ASSUME TypeOK, NEW t \in Tokens, Heartbeat(t) PROVE Steady
<1>1. exec[t].job \in Jobs /\ job[exec[t].job] \in Job
  BY TaskHasJob DEF TypeOK, Heartbeat
<1>2. [job[exec[t].job] EXCEPT !.live = TRUE].lease = job[exec[t].job].lease
  BY <1>1 DEF Job
<1>3. LeasesKept
  BY <1>2, RowKeeps DEF Heartbeat
<1> QED
  BY <1>3, SameKeeps, SameCounts DEF Steady, Heartbeat, elsewhere

\* Decisions of users release leases but grant none.
LEMMA AcceptingLease ==
    ASSUME TypeOK, NEW j \in Jobs, NEW kind
    PROVE  Accepting(j, kind).lease = 0
<1> DEFINE row == Released(job[j])
           n == IF kind = "await_user" THEN 0 ELSE Len(actions[j]) + 1
           s == IF kind = "await_user" THEN "awaiting_user" ELSE "queued"
<1>1. row \in Job /\ row.lease = 0
  BY ReleasedTyped, ReleasedLease DEF TypeOK
<1>2. Accepting(j, kind) = [row EXCEPT !.cancel = FALSE, !.status = s, !.pending = n]
  BY DEF Accepting
<1> HIDE DEF row, s, n
<1> QED
  BY <1>1, <1>2 DEF Job

\* An overtaken unlock or resumption writes its own columns only.
LEMMA ResumedColumns ==
    ASSUME TypeOK, ResumeWrite, NEW k \in Jobs
    PROVE  /\ job'[k].lease \in {0, job[k].lease}
           /\ k \notin resuming.free => job'[k].lease = job[k].lease /\ job'[k].live = job[k].live
           /\ job'[k].status = IF k \in resuming.queue THEN "queued" ELSE job[k].status
           /\ job'[k].dep = job[k].dep /\ job'[k].pending = job[k].pending
           /\ job'[k].result = job[k].result /\ job'[k].resolved = job[k].resolved
           /\ job'[k].cancel => job[k].cancel
<1> DEFINE row == IF k \in resuming.free THEN Released(job[k]) ELSE job[k]
           s == IF k \in resuming.queue THEN "queued" ELSE row.status
           c == IF k \in resuming.uncancel THEN FALSE ELSE row.cancel
<1>1. /\ row \in Job /\ row.lease \in {0, job[k].lease} /\ row.status = job[k].status
      /\ row.dep = job[k].dep /\ row.pending = job[k].pending /\ row.result = job[k].result
      /\ row.resolved = job[k].resolved /\ row.cancel = job[k].cancel
      /\ k \notin resuming.free => row = job[k]
  <2>1. /\ Released(job[k]) \in Job /\ Released(job[k]).lease = 0
        /\ Released(job[k]).status = job[k].status /\ Released(job[k]).dep = job[k].dep
        /\ Released(job[k]).pending = job[k].pending /\ Released(job[k]).result = job[k].result
        /\ Released(job[k]).resolved = job[k].resolved /\ Released(job[k]).cancel = job[k].cancel
    BY ReleasedTyped DEF TypeOK, Released, Job
  <2> QED
    BY <2>1 DEF TypeOK
<1>2. job'[k] = [row EXCEPT !.status = s, !.cancel = c]
  BY DEF ResumeWrite, ResumedRow
<1> HIDE DEF row, s, c
<1>3. /\ job'[k].lease = row.lease /\ job'[k].live = row.live /\ job'[k].status = s
      /\ job'[k].cancel = c /\ job'[k].dep = row.dep /\ job'[k].pending = row.pending
      /\ job'[k].result = row.result /\ job'[k].resolved = row.resolved
  BY <1>1, <1>2 DEF Job
<1>4. s = (IF k \in resuming.queue THEN "queued" ELSE job[k].status) /\ (c => job[k].cancel)
  BY <1>1 DEF s, c
<1> QED
  BY <1>1, <1>3, <1>4

\* No endpoint grants a lease.
LEMMA UserLeases == ASSUME TypeOK, User PROVE LeasesKept
<1>0. \A j \in Jobs : job[j] \in Job
  BY DEF TypeOK
<1>1. ASSUME NEW p \in Providers, Unlock(p) PROVE LeasesKept
  <2>1. \A j \in Jobs : [job[j] EXCEPT !.status = "queued", !.dep = FALSE].lease = job[j].lease
    BY <1>0 DEF Job
  <2> QED
    BY <1>1, <2>1 DEF LeasesKept, Unlock
<1>2. ASSUME NEW p \in Providers, Lock(p) PROVE LeasesKept
  BY <1>2, SameLeases DEF Lock
<1>3. ASSUME NEW j \in Jobs, CancelRead(j) PROVE LeasesKept
  BY <1>3, SameLeases DEF CancelRead
<1>4. ASSUME NEW j \in Jobs, CancelWrite(j) PROVE LeasesKept
  <2> DEFINE early == cancelling[j] \in {"queued", "credentials_locked"}
             s == IF early THEN "cancelled" ELSE job[j].status
             b == IF early THEN FALSE ELSE job[j].dep
             row == [job[j] EXCEPT !.cancel = TRUE, !.status = s, !.dep = b]
  <2>1. job' = [job EXCEPT ![j] = row]
    BY <1>4 DEF CancelWrite
  <2> HIDE DEF s, b
  <2>2. row.lease = job[j].lease
    BY <1>0 DEF Job
  <2> HIDE DEF row
  <2> QED
    BY <2>1, <2>2, RowKeeps
<1>5. ASSUME NEW j \in Jobs, RefuseOverBudget(j) PROVE LeasesKept
  <2>1. [job[j] EXCEPT !.status = "awaiting_user"].lease = job[j].lease
    BY <1>0 DEF Job
  <2> QED
    BY <1>5, <2>1, RowKeeps DEF RefuseOverBudget
<1>6. ASSUME NEW j \in Jobs, NEW kind, Remediate(j, kind) PROVE LeasesKept
  BY <1>6, AcceptingLease, RowKeeps DEF Remediate
<1>7. ASSUME NEW j \in Jobs, ResumeJob(j) PROVE LeasesKept
  <2> DEFINE retry == job[j].status # "credentials_locked" /\ ResumesUnsent(j)
             requeue == ProviderOf[j] \in vault \/ (job[j].status # "credentials_locked"
                                                      /\ (HasOutput(j) \/ RecoverableAction(j)))
             s == IF requeue THEN "queued" ELSE "credentials_locked"
             row == IF retry THEN Accepting(j, "retry")
                    ELSE [job[j] EXCEPT !.cancel = FALSE, !.status = s]
  <2>1. job' = [job EXCEPT ![j] = row]
    BY <1>7 DEF ResumeJob
  <2> HIDE DEF s, retry
  <2>2. [job[j] EXCEPT !.cancel = FALSE, !.status = s].lease = job[j].lease
    BY <1>0 DEF Job
  <2>3. row.lease \in {0, job[j].lease}
    BY <2>2, AcceptingLease
  <2> HIDE DEF row
  <2> QED
    BY <2>1, <2>3, RowKeeps
<1>8. ASSUME NEW p \in Plans, ResumePlan(p) PROVE LeasesKept
  <2>1. \A j \in Jobs : [Released(job[j]) EXCEPT !.status = "queued"].lease = 0
    <3> TAKE j \in Jobs
    <3>1. Released(job[j]) \in Job /\ Released(job[j]).lease = 0
      BY <1>0, ReleasedTyped, ReleasedLease
    <3> QED
      BY <3>1 DEF Job
  <2>2. \A j \in Jobs : Accepting(j, "retry").lease = 0
    BY AcceptingLease
  <2> QED
    BY <1>8, <2>1, <2>2 DEF LeasesKept, ResumePlan
<1>9. CASE Overtaken
  <2>1. job' = job \/ ResumeWrite
    BY <1>9 DEF Overtaken, UnlockRead, ResumeRead, ResumePlanRead, Reads
  <2> QED
    BY <1>0, <2>1, ResumedColumns, SameLeases DEF LeasesKept
<1> QED
  BY <1>1, <1>2, <1>3, <1>4, <1>5, <1>6, <1>7, <1>8, <1>9 DEF User

\* No endpoint moves a task or adds an attempt.
LEMMA UserSteady == ASSUME TypeOK, User PROVE Steady
<1>1. exec' = exec /\ attempts' = attempts /\ claims' = claims
  BY Zenon DEF User, Unlock, Lock, CancelRead, CancelWrite, RefuseOverBudget, Remediate, ResumeJob,
         ResumePlan, Overtaken, Reads, UnlockRead, ResumeRead, ResumePlanRead, ResumeWrite
<1> QED
  BY <1>1, UserLeases, SameKeeps, SameCounts, Zenon DEF Steady

-----------------------------------------------------------------------------
(* The invariant *)

\* A steady step keeps the invariant.
LEMMA SteadyKeeps ==
    ASSUME TypeOK, LeaseInv, Steady
    PROVE  LeaseInv'
<1>1. TasksClaimed'
  BY DEF LeaseInv, TasksClaimed, Steady, KeepsPlaces, Alive
<1>2. HolderOwnsLatest'
  <2> SUFFICES ASSUME NEW t \in Tokens, exec'[t].pc \in InAttempt, exec'[t].fresh,
                      job'[exec'[t].job].lease = t
               PROVE  exec'[t].at = Len(attempts'[exec'[t].job])
    BY DEF HolderOwnsLatest, Held, Count
  <2>1. /\ exec[t].fresh /\ exec[t].pc \in InAttempt
        /\ exec'[t].at = exec[t].at
        /\ exec'[t].job = exec[t].job
    BY DEF Steady, KeepsPlaces, KeepsPlace
  <2>2. Alive(t)
    BY <2>1 DEF Alive, InAttempt
  <2>3. exec[t].job \in Jobs
    BY <2>2 DEF TypeOK, ExecutorsOK
  <2>4. t # 0
    BY DEF Tokens
  <2>5. Held(t)
    BY <2>1, <2>3, <2>4 DEF Steady, LeasesKept, Held
  <2>6. exec[t].at = Len(attempts[exec[t].job])
    BY <2>1, <2>2, <2>5 DEF LeaseInv, HolderOwnsLatest, Count
  <2> QED
    BY <2>1, <2>3, <2>6 DEF Steady, CountsKept
<1> QED
  BY <1>1, <1>2 DEF LeaseInv

\* The task that holds the lease of a job adds an attempt to it.
LEMMA HolderAdds ==
    ASSUME TypeOK, LeaseInv, NEW t \in Tokens, Alive(t), Held(t), NEW e, NEW a \in Attempt,
           exec' = [exec EXCEPT ![t] = e], e.at = Count(exec[t].job) + 1, e.job = exec[t].job,
           attempts' = [attempts EXCEPT ![exec[t].job] = Append(attempts[exec[t].job], a)],
           LeasesKept, claims' = claims
    PROVE  LeaseInv'
<1> DEFINE j == exec[t].job
<1>1. j \in Jobs /\ \A u \in Tokens : exec'[u] = IF u = t THEN e ELSE exec[u]
  BY TaskHasJob DEF TypeOK, ExecutorsOK
<1>2. /\ Len(attempts'[j]) = Count(j) + 1
      /\ \A k \in Jobs \ {j} : attempts'[k] = attempts[k]
  <2>1. attempts[j] \in Seq(Attempt)
    BY <1>1 DEF TypeOK
  <2> QED
    BY <1>1, <2>1, AppendProperties DEF TypeOK, Count
<1>3. TasksClaimed'
  BY <1>1 DEF LeaseInv, TasksClaimed, Alive
<1>4. HolderOwnsLatest'
  <2> SUFFICES ASSUME NEW u \in Tokens, exec'[u].pc \in InAttempt, exec'[u].fresh,
                      job'[exec'[u].job].lease = u
               PROVE  exec'[u].at = Len(attempts'[exec'[u].job])
    BY DEF HolderOwnsLatest, Held, Count
  <2>1. CASE u = t
    BY <1>1, <1>2, <2>1
  <2>2. CASE u # t
    <3>1. exec'[u] = exec[u] /\ u # 0
      BY <1>1, <2>2 DEF Tokens
    <3>2. Alive(u)
      BY <3>1 DEF Alive, InAttempt
    <3>3. exec[u].job \in Jobs
      BY <3>2 DEF TypeOK, ExecutorsOK
    <3>4. Held(u)
      BY <3>1, <3>3 DEF LeasesKept, Held
    <3>5. exec[u].job # j
      BY <2>2, <3>4 DEF Held
    <3>6. exec[u].at = Len(attempts[exec[u].job])
      BY <3>1, <3>2, <3>4 DEF LeaseInv, HolderOwnsLatest, Count
    <3> QED
      BY <1>2, <3>1, <3>3, <3>5, <3>6
  <2> QED
    BY <2>1, <2>2
<1> QED
  BY <1>3, <1>4 DEF LeaseInv

\* _start_provider_attempt checks the lease before it adds the attempt.
LEMMA StartAttemptKeeps ==
    ASSUME TypeOK, LeaseInv, NEW t \in Tokens, StartAttempt(t)
    PROVE  LeaseInv'
<1> DEFINE j == exec[t].job
           e == [exec[t] EXCEPT !.pc = "build", !.at = Count(j) + 1, !.fresh = TRUE]
<1>1. Alive(t) /\ Held(t)
  BY DEF StartAttempt, Alive
<1>2. exec[t] \in Executor /\ j \in Jobs
  BY <1>1, TaskHasJob DEF TypeOK
<1>3. e.at = Count(j) + 1 /\ e.job = exec[t].job
  BY <1>2 DEF Executor
<1>4. NewCall(exec[t].req) \in Attempt
  BY <1>2, NewCallTyped DEF Executor
<1>5. /\ exec' = [exec EXCEPT ![t] = e]
      /\ attempts' = [attempts EXCEPT ![j] = Append(attempts[j], NewCall(exec[t].req))]
      /\ LeasesKept /\ claims' = claims
  BY SameLeases DEF StartAttempt, elsewhere
<1> HIDE DEF e
<1> QED
  BY <1>1, <1>3, <1>4, <1>5, HolderAdds

\* _execute_tool_remediation does as well.
LEMMA RepairBeginKeeps ==
    ASSUME TypeOK, LeaseInv, NEW t \in Tokens, RepairBegin(t)
    PROVE  LeaseInv'
<1> DEFINE j == exec[t].job
           e == [exec[t] EXCEPT !.pc = "repairing", !.at = Count(j) + 1, !.fresh = TRUE]
<1>1. Alive(t) /\ Held(t)
  BY DEF RepairBegin, Alive
<1>2. exec[t] \in Executor /\ j \in Jobs /\ job[j] \in Job
  BY <1>1, TaskHasJob DEF TypeOK
<1>3. e.at = Count(j) + 1 /\ e.job = exec[t].job
  BY <1>2 DEF Executor
<1>4. NewRepair(exec[t].act) \in Attempt
  BY <1>2, NewRepairTyped DEF Executor
<1>5. [job[j] EXCEPT !.status = "remediating"].lease = job[j].lease
  BY <1>2 DEF Job
<1>6. /\ exec' = [exec EXCEPT ![t] = e]
      /\ attempts' = [attempts EXCEPT ![j] = Append(attempts[j], NewRepair(exec[t].act))]
      /\ claims' = claims
  BY Zenon DEF RepairBegin, elsewhere
<1>7. LeasesKept
  BY <1>5, RowKeeps DEF RepairBegin
<1> HIDE DEF e
<1> QED
  BY <1>1, <1>3, <1>4, <1>6, <1>7, HolderAdds

\* A claim gets a token above every token granted before, within its pass.
LEMMA NewToken ==
    ASSUME TypeOK, NEW taken \in SUBSET Jobs, NEW j \in taken
    PROVE  claims < TokenOf(taken, j) /\ TokenOf(taken, j) <= claims + Cardinality(taken)
<1>1. Before(taken, j) \subseteq taken /\ j \notin Before(taken, j)
  BY JobsAssumption DEF Before
<1>2. IsFiniteSet(taken)
  BY FS_Subset, JobsAssumption
<1>3. Cardinality(Before(taken, j)) <= Cardinality(taken)
      /\ Cardinality(Before(taken, j)) # Cardinality(taken)
  BY <1>1, <1>2, FS_Subset
<1>4. Cardinality(Before(taken, j)) \in Nat /\ Cardinality(taken) \in Nat /\ claims \in Nat
  BY TokenTyped DEF TypeOK
<1> QED
  BY <1>3, <1>4 DEF TokenOf

\* Recovery and requeueing grant no lease.
LEMMA RowsLease ==
    ASSUME TypeOK, NEW j \in Jobs
    PROVE  Requeued(Expired, Unblocked(Expired))[j].lease \in {0, job[j].lease}
<1>1. job[j] \in Job /\ Released(job[j]) \in Job /\ Released(job[j]).lease = 0
  BY ReleasedTyped, ReleasedLease DEF TypeOK
<1>2. Recovered(j, vault, FALSE).lease = 0
  <2> DEFINE row == Released(job[j])
  <2>1. row \in Job /\ row.lease = 0
    BY <1>1
  <2> HIDE DEF row
  <2>2. \A s, p, r : [row EXCEPT !.status = s, !.dep = FALSE, !.pending = p, !.result = r].lease = 0
    BY <2>1 DEF Job
  <2> QED
    BY <2>2 DEF Recovered, row
<1>3. Expired[j] \in Job /\ Expired[j].lease \in {0, job[j].lease}
  BY <1>1, <1>2, RecoveredTyped DEF Expired
<1>4. [Expired[j] EXCEPT !.status = "queued", !.dep = FALSE].lease = Expired[j].lease
  BY <1>3 DEF Job
<1> QED
  BY <1>3, <1>4 DEF Requeued

\* A pass of the claim loop leaves the tasks of earlier claims alone.
LEMMA PollKeeps == ASSUME TypeOK, LeaseInv, Poll PROVE LeaseInv'
<1>1. PICK rows, dropped, blocked, taken :
         /\ rows = Requeued(Expired, Unblocked(Expired))
         /\ dropped \cup blocked \cup taken \subseteq {j \in Jobs : rows[j].status = "queued"}
         /\ job' = Walked(rows, dropped, blocked, taken)
         /\ exec' = [t \in Tokens |->
                       IF \E j \in taken : TokenOf(taken, j) = t
                       THEN Claimed(CHOOSE j \in taken : TokenOf(taken, j) = t)
                       ELSE exec[t]]
         /\ claims' = claims + Cardinality(taken)
         /\ attempts' = attempts
  BY PollSteps
<1>2. taken \in SUBSET Jobs
  BY <1>1
<1>3. Cardinality(taken) \in Nat /\ claims \in Nat
  <2>1. Cardinality(taken) \in Nat
    BY <1>2, TokenTyped
  <2> QED
    BY <2>1 DEF TypeOK
<1>4. ASSUME NEW j \in Jobs
      PROVE  job'[j].lease \in {0, job[j].lease} \/ (j \in taken /\ job'[j].lease = TokenOf(taken, j))
  <2>1. rows[j] \in Job /\ rows[j].lease \in {0, job[j].lease}
    BY <1>1, RowsTyped, RowsLease
  <2>2. /\ [rows[j] EXCEPT !.status = "cancelled", !.dep = FALSE].lease = rows[j].lease
        /\ [rows[j] EXCEPT !.status = "awaiting_user", !.dep = TRUE].lease = rows[j].lease
        /\ [rows[j] EXCEPT !.status = "running", !.live = TRUE,
                           !.lease = TokenOf(taken, j)].lease = TokenOf(taken, j)
    BY <2>1 DEF Job
  <2>3. \/ job'[j] = [rows[j] EXCEPT !.status = "cancelled", !.dep = FALSE]
        \/ job'[j] = [rows[j] EXCEPT !.status = "awaiting_user", !.dep = TRUE]
        \/ j \in taken /\ job'[j] = [rows[j] EXCEPT !.status = "running", !.live = TRUE,
                                                    !.lease = TokenOf(taken, j)]
        \/ job'[j] = rows[j]
    BY <1>1 DEF Walked
  <2> QED
    BY <2>1, <2>2, <2>3
<1>5. ASSUME NEW t \in Tokens, \E j \in taken : TokenOf(taken, j) = t
      PROVE  exec'[t].pc = "claimed" /\ t <= claims'
  <2>1. exec'[t] = Claimed(CHOOSE j \in taken : TokenOf(taken, j) = t)
    BY <1>1, <1>5
  <2>2. \A k : Claimed(k).pc = "claimed"
    BY DEF Claimed, Idle
  <2> QED
    BY <1>1, <1>2, <1>5, <2>1, <2>2, NewToken
<1>6. ASSUME NEW t \in Tokens, ~ \E j \in taken : TokenOf(taken, j) = t
      PROVE  exec'[t] = exec[t]
  BY <1>1, <1>6
<1>7. TasksClaimed'
  <2> SUFFICES ASSUME NEW t \in Tokens, exec'[t].pc \notin {"unused", "done"}
               PROVE  t <= claims'
    BY DEF TasksClaimed, Alive
  <2>1. CASE exec'[t] = exec[t]
    <3>1. t <= claims /\ t \in Nat
      BY <2>1 DEF LeaseInv, TasksClaimed, Alive, Tokens
    <3> QED
      BY <1>1, <1>3, <3>1
  <2> QED
    BY <1>5, <1>6, <2>1
<1>8. HolderOwnsLatest'
  <2> SUFFICES ASSUME NEW t \in Tokens, exec'[t].pc \in InAttempt, exec'[t].fresh,
                      job'[exec'[t].job].lease = t
               PROVE  exec'[t].at = Len(attempts'[exec'[t].job])
    BY DEF HolderOwnsLatest, Held, Count
  <2>1. exec'[t] = exec[t]
    <3>1. exec'[t].pc # "claimed"
      BY DEF InAttempt
    <3> QED
      BY <1>5, <1>6, <3>1
  <2>2. Alive(t) /\ exec[t].job \in Jobs
    BY <2>1 DEF Alive, InAttempt, TypeOK, ExecutorsOK
  <2>3. t <= claims /\ t \in Nat /\ t # 0
    BY <2>2 DEF LeaseInv, TasksClaimed, Tokens
  <2>4. \A j \in taken : TokenOf(taken, j) # t
    <3> TAKE j \in taken
    <3>1. claims < TokenOf(taken, j) /\ TokenOf(taken, j) \in Nat
      BY <1>2, NewToken, TokenTyped
    <3> QED
      BY <1>3, <2>3, <3>1
  <2>5. Held(t)
    BY <1>4, <2>1, <2>2, <2>3, <2>4 DEF Held
  <2> QED
    BY <1>1, <2>1, <2>2, <2>5 DEF LeaseInv, HolderOwnsLatest, Count
<1> QED
  BY <1>7, <1>8 DEF LeaseInv

\* Every step keeps the invariant.
LEMMA NextKeeps == ASSUME TypeOK, TypeOK', LeaseInv, Next PROVE LeaseInv'
<1>1. CASE Poll
  BY <1>1, PollKeeps
<1>2. ASSUME NEW t \in Tokens, Heartbeat(t) PROVE LeaseInv'
  BY <1>2, HeartbeatSteady, SteadyKeeps
<1>3. ASSUME NEW t \in Tokens, Task(t) PROVE LeaseInv'
  <2>1. Steady \/ StartAttempt(t) \/ RepairBegin(t)
    BY <1>3, BeginSteady, AttemptingSteady, AnsweredSteady, SettlingSteady, StagingSteady,
       RepairingSteady DEF Task
  <2> QED
    BY <2>1, SteadyKeeps, StartAttemptKeeps, RepairBeginKeeps
<1>4. CASE User
  BY <1>4, UserSteady, SteadyKeeps
<1>5. CASE Environment
  BY <1>5, EnvironmentSteady, SteadyKeeps
<1> QED
  BY <1>1, <1>2, <1>3, <1>4, <1>5 DEF Next

\* The invariant holds.
LEMMA LeaseInvHolds == Spec => []LeaseInv
<1>1. Init => LeaseInv
  BY DEF Init, LeaseInv, TasksClaimed, HolderOwnsLatest, Alive, Idle
<1>2. TypeOK /\ TypeOK' /\ LeaseInv /\ [Next]_vars => LeaseInv'
  <2>1. UNCHANGED vars /\ LeaseInv => LeaseInv'
    BY DEF vars, LeaseInv, TasksClaimed, HolderOwnsLatest, Alive, Held, Count
  <2> QED
    BY <2>1, NextKeeps
<1> QED
  BY <1>1, <1>2, TypeCorrect, PTL DEF Spec

\* As long as a task holds the lease of its job, the attempt it works on is the
\* latest one of the job, for any number of jobs, claims and expiries: the
\* lease check in _start_provider_attempt, made in the transaction that adds
\* the attempt, is enough, although the later writes of a task check no lease.
THEOREM HolderOwnsLatestHolds == Spec => []HolderOwnsLatest
<1>1. LeaseInv => HolderOwnsLatest
  BY DEF LeaseInv
<1> QED
  BY <1>1, LeaseInvHolds, PTL

-----------------------------------------------------------------------------
(* Leases and their tasks *)

\* A task that may still send a request or pause the queue of its provider.
Calls == {"claimed", "start", "build", "invoke", "sent", "responded", "sleep", "lock", "pause"}
Calling(e) == e.pc \in Calls \/ (e.pc = "failed" /\ e.err # "final")

\* A leased job is in a leased status, and the task of its token works on it.
\* While that task may pause the queue, the job is one that the pause releases.
LeaseOK(j) ==
    job[j].lease # 0 =>
        /\ job[j].lease \in Tokens
        /\ job[j].status \in Leased
        /\ Alive(job[j].lease) /\ exec[job[j].lease].job = j
        /\ Calling(exec[job[j].lease]) => job[j].status \in {"running", "output_received"}

TaskInv == \A j \in Jobs : LeaseOK(j)

\* What a step that grants no lease does to a row.
RowKept(k) ==
    job'[k].lease # 0 /\ ~ UnseenLease =>
        /\ job'[k].lease = job[k].lease
        /\ \/ job'[k].status \in {job[k].status, "output_received"}
           \/ job'[k].status \in {"hard_qa", "remediating"} /\ ~ Calling(exec'[job[k].lease])
NotReady(k) ==
    job[k].cancel /\ job'[k].status = "candidate_ready" =>
        job[k].status = "candidate_ready" \/ CompletesUnaware(k)
RowsKept == \A k \in Jobs : RowKept(k) /\ NotReady(k)

\* A task goes on with its job, or gives up the lease.
Moved(t) ==
    /\ \A u \in Tokens \ {t} : exec'[u] = exec[u]
    /\ Held(t) => \/ job'[exec[t].job].lease = 0 \/ UnseenLease
                  \/ /\ exec'[t].pc \notin {"unused", "done"}
                     /\ exec'[t].job = exec[t].job
                     /\ Calling(exec'[t]) => Calling(exec[t])

-----------------------------------------------------------------------------
(* Steps of tasks *)

\* The step of a task that keeps the rows keeps the invariant.
LEMMA TaskKeeps ==
    ASSUME TypeOK, TaskInv, NEW t \in Tokens, Moved(t), RowsKept, ~ UnseenLease
    PROVE  TaskInv'
<1> SUFFICES ASSUME NEW k \in Jobs, job'[k].lease # 0 PROVE LeaseOK(k)'
  BY DEF TaskInv, LeaseOK
<1> DEFINE u == job[k].lease
<1>1. /\ job'[k].lease = u
      /\ \/ job'[k].status \in {job[k].status, "output_received"}
         \/ job'[k].status \in {"hard_qa", "remediating"} /\ ~ Calling(exec'[u])
  BY DEF RowsKept, RowKept
<1>2. /\ u \in Tokens /\ job[k].status \in Leased
      /\ Alive(u) /\ exec[u].job = k
      /\ Calling(exec[u]) => job[k].status \in {"running", "output_received"}
  BY <1>1 DEF TaskInv, LeaseOK
<1>3. job'[k].status \in Leased
  BY <1>1, <1>2 DEF Leased
<1>4. /\ exec'[u].pc \notin {"unused", "done"} /\ exec'[u].job = k
      /\ Calling(exec'[u]) => Calling(exec[u])
  <2>1. CASE u = t
    BY <1>1, <1>2, <2>1 DEF Moved, Held
  <2>2. CASE u # t
    BY <1>2, <2>2 DEF Moved, Alive
  <2> QED
    BY <2>1, <2>2
<1>5. Calling(exec'[u]) => job'[k].status \in {"running", "output_received"}
  BY <1>1, <1>2, <1>4
<1> HIDE DEF u
<1> QED
  BY <1>1, <1>2, <1>3, <1>4, <1>5 DEF LeaseOK, Alive, Calling

\* No row changes.
LEMMA SameRows == ASSUME job' = job PROVE RowsKept
  BY DEF RowsKept, RowKept, NotReady

\* One row changes.
LEMMA OneRow ==
    ASSUME TypeOK, NEW j \in Jobs, NEW row, job' = [job EXCEPT ![j] = row],
           \/ row.lease = 0
           \/ /\ row.lease = job[j].lease
              /\ \/ UnseenLease
                 \/ row.status \in {job[j].status, "output_received"}
                 \/ row.status \in {"hard_qa", "remediating"} /\ ~ Calling(exec'[job[j].lease]),
           job[j].cancel /\ row.status = "candidate_ready" =>
              job[j].status = "candidate_ready" \/ CompletesUnaware(j)
    PROVE  RowsKept
<1>1. \A k \in Jobs : job'[k] = IF k = j THEN row ELSE job[k]
  BY DEF TypeOK
<1> QED
  BY <1>1 DEF RowsKept, RowKept, NotReady

\* A task gets a new record.
LEMMA MoveMoved ==
    ASSUME TypeOK, NEW t \in Tokens, NEW e, exec' = [exec EXCEPT ![t] = e],
           e.pc \notin {"unused", "done"}, e.job = exec[t].job, Calling(e) => Calling(exec[t])
    PROVE  Moved(t)
<1>1. \A u \in Tokens : exec'[u] = IF u = t THEN e ELSE exec[u]
  BY DEF TypeOK, ExecutorsOK
<1> QED
  BY <1>1 DEF Moved

\* A task goes to another position.
LEMMA GotoMoved ==
    ASSUME TypeOK, NEW t \in Tokens, NEW p, Goto(t, p), p \notin {"unused", "done", "failed"},
           p \in Calls => Calling(exec[t])
    PROVE  Moved(t)
<1> DEFINE e == [exec[t] EXCEPT !.pc = p]
<1>1. e.pc = p /\ e.job = exec[t].job
  BY DEF TypeOK, ExecutorsOK, Executor
<1>2. exec' = [exec EXCEPT ![t] = e]
  BY DEF Goto
<1> HIDE DEF e
<1> QED
  BY <1>1, <1>2, MoveMoved DEF Calling

\* A task that may still call fails, or a task fails for good.
LEMMA FailingMoved ==
    ASSUME TypeOK, NEW t \in Tokens, NEW x, Failing(t, x), x = "final" \/ Calling(exec[t])
    PROVE  Moved(t)
<1> DEFINE e == [exec[t] EXCEPT !.pc = "failed", !.err = x]
<1>1. e.pc = "failed" /\ e.job = exec[t].job /\ e.err = x
  BY DEF TypeOK, ExecutorsOK, Executor
<1>2. exec' = [exec EXCEPT ![t] = e]
  BY DEF Failing
<1> HIDE DEF e
<1> QED
  BY <1>1, <1>2, MoveMoved DEF Calling, Calls

\* A task without the lease, or one that gives it up, ends.
LEMMA FinishMoved ==
    ASSUME TypeOK, NEW t \in Tokens, Finish(t),
           ~ Held(t) \/ job'[exec[t].job].lease = 0 \/ UnseenLease
    PROVE  Moved(t)
<1>1. \A u \in Tokens \ {t} : exec'[u] = exec[u]
  BY DEF TypeOK, ExecutorsOK, Finish
<1> QED
  BY <1>1 DEF Moved

\* The preparation of a claim changes no status.
LEMMA BeginMoves ==
    ASSUME TypeOK, NEW t \in Tokens, Begin(t)
    PROVE  Moved(t) /\ RowsKept
<1> DEFINE j == exec[t].job
<1>0. Alive(t) /\ exec[t].pc = "claimed"
  BY Zenon DEF Begin, BeginLost, BeginRepair, RejectStaleAction, PrepareFails, ReuseOutput,
         CallsExhausted, PrepareCall, Preparing, Alive
<1>1. exec[t] \in Executor /\ j \in Jobs /\ job[j] \in Job
  BY <1>0, TaskHasJob, Zenon DEF TypeOK
<1>2. Calling(exec[t])
  BY <1>0 DEF Calling, Calls
<1>3. RowsKept
  <2>1. CASE RejectStaleAction(t)
    <3> DEFINE row == [job[j] EXCEPT !.pending = 0]
    <3>1. row.lease = job[j].lease /\ row.status = job[j].status
      BY <1>1 DEF Job
    <3>2. job' = [job EXCEPT ![j] = row]
      BY <2>1 DEF RejectStaleAction
    <3> HIDE DEF row, j
    <3> QED
      BY <1>1, <3>1, <3>2, OneRow
  <2>2. CASE Resolve(j)
    <3> DEFINE row == [job[j] EXCEPT !.resolved = {RequestOf(j)}]
    <3>1. row.lease = job[j].lease /\ row.status = job[j].status
      BY <1>1 DEF Job
    <3>2. job' = job \/ job' = [job EXCEPT ![j] = row]
      BY <2>2 DEF Resolve
    <3> HIDE DEF row, j
    <3> QED
      BY <1>1, <3>1, <3>2, OneRow, SameRows
  <2>3. CASE job' = job
    BY <2>3, SameRows
  <2> QED
    BY <2>1, <2>2, <2>3 DEF Begin, BeginLost, BeginRepair, PrepareFails, ReuseOutput,
       CallsExhausted, PrepareCall
<1>4. Moved(t)
  <2>1. CASE BeginLost(t)
    BY <2>1, FinishMoved DEF BeginLost
  <2>2. CASE BeginRepair(t)
    <3> DEFINE e == [exec[t] EXCEPT !.pc = "repair", !.act = job[j].pending]
    <3>1. e.pc = "repair" /\ e.job = exec[t].job
      BY <1>1 DEF Executor
    <3>2. exec' = [exec EXCEPT ![t] = e]
      BY <2>2 DEF BeginRepair
    <3> HIDE DEF e
    <3> QED
      BY <1>2, <3>1, <3>2, MoveMoved
  <2>3. CASE Goto(t, "giveup")
    BY <2>3, GotoMoved DEF Calls
  <2>4. CASE ReuseOutput(t)
    <3>1. PICK n \in Reusable(j, RequestOf(j)) : exec' = [exec EXCEPT ![t] = [exec[t] EXCEPT
              !.pc = IF attempts[j][n].phase = "succeeded" THEN "reuse" ELSE "stage",
              !.at = n, !.fresh = FALSE, !.verdict = "none"]]
      BY <2>4 DEF ReuseOutput
    <3> DEFINE p == IF attempts[j][n].phase = "succeeded" THEN "reuse" ELSE "stage"
               e == [exec[t] EXCEPT !.pc = p, !.at = n, !.fresh = FALSE, !.verdict = "none"]
    <3>2. exec' = [exec EXCEPT ![t] = e]
      BY <3>1
    <3>3. p \in {"reuse", "stage"}
      OBVIOUS
    <3> HIDE DEF p
    <3>4. e.pc = p /\ e.job = exec[t].job
      BY <1>1 DEF Executor
    <3> HIDE DEF e
    <3> QED
      BY <1>2, <3>2, <3>3, <3>4, MoveMoved
  <2>5. CASE PrepareCall(t)
    <3> DEFINE e == [exec[t] EXCEPT !.pc = "start", !.req = RequestOf(j),
                       !.left = MaxTransportRetries + 1 - Spent(j, RequestOf(j))]
    <3>1. e.pc = "start" /\ e.job = exec[t].job
      BY <1>1 DEF Executor
    <3>2. exec' = [exec EXCEPT ![t] = e]
      BY <2>5 DEF PrepareCall
    <3> HIDE DEF e
    <3> QED
      BY <1>2, <3>1, <3>2, MoveMoved
  <2> QED
    BY <2>1, <2>2, <2>3, <2>4, <2>5 DEF Begin, RejectStaleAction, PrepareFails, CallsExhausted
<1> QED
  BY <1>3, <1>4

\* The steps up to the dispatch change no row.
LEMMA AttemptingMoves ==
    ASSUME TypeOK, NEW t \in Tokens, Attempting(t)
    PROVE  Moved(t) /\ RowsKept
<1>1. RowsKept
  BY SameRows DEF Attempting, StartAttempt, StartLost, BuildProvider, FailLocally, Dispatch,
     RefuseDispatch
<1>2. Alive(t) /\ exec[t].pc \in Calls
  BY DEF Attempting, StartAttempt, StartLost, BuildProvider, FailLocally, Dispatch,
     RefuseDispatch, Alive, Calls
<1>3. Calling(exec[t]) /\ exec[t] \in Executor
  BY <1>2 DEF Calling, TypeOK, ExecutorsOK
<1>4. CASE StartAttempt(t)
  <2> DEFINE e == [exec[t] EXCEPT !.pc = "build", !.at = Count(exec[t].job) + 1, !.fresh = TRUE]
  <2>1. e.pc = "build" /\ e.job = exec[t].job
    BY <1>3 DEF Executor
  <2>2. exec' = [exec EXCEPT ![t] = e]
    BY <1>4 DEF StartAttempt
  <2> HIDE DEF e
  <2>3. Moved(t)
    BY <1>3, <2>1, <2>2, MoveMoved
  <2> QED
    BY <1>1, <2>3
<1>5. ASSUME NEW p \in {"giveup", "invoke", "sent"}, Goto(t, p) PROVE Moved(t)
  BY <1>3, <1>5, GotoMoved
<1>6. ASSUME NEW x, Failing(t, x) PROVE Moved(t)
  BY <1>3, <1>6, FailingMoved
<1> QED
  BY <1>1, <1>4, <1>5, <1>6 DEF Attempting, StartLost, BuildProvider, FailLocally, Dispatch,
     RefuseDispatch

\* The steps after a dispatch change no status but that of an answered job.
LEMMA AnsweredMoves ==
    ASSUME TypeOK, NEW t \in Tokens, Answered(t)
    PROVE  Moved(t) /\ RowsKept
<1> DEFINE j == exec[t].job
<1>1. Alive(t) /\ exec[t].pc \in Calls
  BY DEF Answered, Respond, LoseResponse, CallAgain, ErrorAnswer, PersistResult, Alive, Calls
<1>2. Calling(exec[t]) /\ exec[t] \in Executor
  BY <1>1 DEF Calling, TypeOK, ExecutorsOK
<1>3. j \in Jobs /\ job[j] \in Job
  BY <1>1, TaskHasJob DEF TypeOK
<1>4. RowsKept
  <2>1. CASE PersistResult(t)
    <3> DEFINE row == [job[j] EXCEPT !.status = "output_received"]
    <3>1. row.lease = job[j].lease /\ row.status = "output_received"
      BY <1>3 DEF Job
    <3>2. job' = [job EXCEPT ![j] = row]
      BY <2>1 DEF PersistResult
    <3> HIDE DEF row, j
    <3> QED
      BY <1>3, <3>1, <3>2, OneRow
  <2> QED
    BY <2>1, SameRows DEF Answered, Respond, LoseResponse, CallAgain, ErrorAnswer
<1>5. ASSUME NEW p \in {"responded", "giveup", "invoke", "stage"}, Goto(t, p) PROVE Moved(t)
  BY <1>2, <1>5, GotoMoved
<1>6. ASSUME NEW x, Failing(t, x) PROVE Moved(t)
  BY <1>2, <1>6, FailingMoved
<1> QED
  BY <1>4, <1>5, <1>6 DEF Answered, Respond, LoseResponse, CallAgain, ErrorAnswer, PersistResult

\* Settling a failed attempt releases leases: pausing the queue includes the
\* lease of the task itself, because it has not begun to stage.
LEMMA SettlingRows == ASSUME TypeOK, NEW t \in Tokens, Settling(t) PROVE RowsKept
<1> DEFINE j == exec[t].job
<1>1. j \in Jobs /\ \A k \in Jobs : job[k] \in Job
  BY TaskHasJob, Zenon DEF TypeOK, Settling, FinishAttemptError, PauseProviderQueue, SetAwaitingUser,
     Alive
<1>2. CASE FinishAttemptError(t)
  BY <1>2, SameRows DEF FinishAttemptError
<1>3. CASE PauseProviderQueue(t)
  <2> DEFINE target == IF exec[t].pc = "lock" THEN "credentials_locked" ELSE "awaiting_user"
             row(k) == [Released(job[k]) EXCEPT !.status = target, !.dep = FALSE]
  <2>1. ASSUME NEW k \in Jobs PROVE row(k).lease = 0 /\ row(k).status # "candidate_ready"
    <3>1. Released(job[k]) \in Job /\ Released(job[k]).lease = 0
      BY <1>1, ReleasedTyped, ReleasedLease
    <3>2. row(k).lease = Released(job[k]).lease /\ row(k).status = target
      BY <3>1 DEF Job
    <3> QED
      BY <3>1, <3>2
  <2>2. \A k \in Jobs : job'[k] = row(k) \/ job'[k] = job[k]
    BY <1>3, Zenon DEF PauseProviderQueue
  <2> HIDE DEF row
  <2> QED
    BY <2>1, <2>2 DEF RowsKept, RowKept, NotReady
<1>4. CASE SetAwaitingUser(t)
  <2> DEFINE row == [Released(job[j]) EXCEPT !.status = "awaiting_user", !.dep = FALSE, !.pending = 0]
  <2>1. Released(job[j]) \in Job /\ Released(job[j]).lease = 0
    BY <1>1, ReleasedTyped, ReleasedLease
  <2>2. row.lease = 0 /\ row.status = "awaiting_user"
    BY <2>1 DEF Job
  <2>3. job' = [job EXCEPT ![j] = row]
    BY <1>4, Zenon DEF SetAwaitingUser
  <2> HIDE DEF row, j
  <2> QED
    BY <1>1, <2>2, <2>3, OneRow
<1> QED
  BY <1>2, <1>3, <1>4, Zenon DEF Settling

\* The lease of a task that pauses the queue is among those released.
LEMMA SettlingMoved ==
    ASSUME TypeOK, TaskInv, NEW t \in Tokens, Settling(t)
    PROVE  Moved(t)
<1> DEFINE j == exec[t].job
<1>1. exec[t] \in Executor /\ j \in Jobs /\ job[j] \in Job
  BY TaskHasJob, Zenon DEF TypeOK, ExecutorsOK, Settling, FinishAttemptError, PauseProviderQueue,
     SetAwaitingUser, Alive
<1>2. Released(job[j]) \in Job /\ Released(job[j]).lease = 0
  BY <1>1, ReleasedTyped, ReleasedLease
<1>3. CASE FinishAttemptError(t)
  <2> DEFINE n == exec[t].at
             p == AfterError(exec[t].err, attempts[j][n].sent, exec[t].left)
             m == IF exec[t].left > 0 THEN exec[t].left - 1 ELSE 0
             e == [exec[t] EXCEPT !.pc = p, !.left = m]
  <2>1. p \in {"lock", "pause", "sleep", "giveup"} /\ (p # "giveup" => exec[t].err # "final")
    BY DEF AfterError
  <2>2. exec' = [exec EXCEPT ![t] = e]
    BY <1>3 DEF FinishAttemptError
  <2> HIDE DEF p, m
  <2>3. e.pc = p /\ e.job = exec[t].job
    BY <1>1 DEF Executor
  <2> HIDE DEF e
  <2>4. exec[t].pc = "failed"
    BY <1>3 DEF FinishAttemptError
  <2>5. Calling(e) => Calling(exec[t])
    BY <2>1, <2>3, <2>4 DEF Calling, Calls
  <2> QED
    BY <2>1, <2>2, <2>3, <2>5, MoveMoved
<1>4. CASE PauseProviderQueue(t)
  <2> DEFINE paused == {k \in SameProvider(j) :
                          job[k].status \in {"queued", "running", "output_received"}}
             target == IF exec[t].pc = "lock" THEN "credentials_locked" ELSE "awaiting_user"
             row(k) == [Released(job[k]) EXCEPT !.status = target, !.dep = FALSE]
  <2>1. Held(t) => job'[j].lease = 0
    <3> SUFFICES ASSUME Held(t) PROVE job'[j].lease = 0
      OBVIOUS
    <3>1. Calling(exec[t])
      BY <1>4 DEF PauseProviderQueue, Calling, Calls
    <3>2. job[j].status \in {"running", "output_received"}
      BY <1>1, <3>1 DEF TaskInv, LeaseOK, Held, Tokens
    <3>3. j \in paused
      BY <1>1, <3>2 DEF SameProvider
    <3>4. job' = [k \in Jobs |-> IF k \in paused THEN row(k) ELSE job[k]]
      BY <1>4, Zenon DEF PauseProviderQueue
    <3> HIDE DEF paused
    <3>5. job'[j] = row(j)
      BY <1>1, <3>3, <3>4
    <3>6. row(j).lease = Released(job[j]).lease
      BY <1>2 DEF Job
    <3> QED
      BY <1>2, <3>5, <3>6
  <2>2. Finish(t)
    BY <1>4 DEF PauseProviderQueue
  <2> QED
    BY <2>1, <2>2, FinishMoved
<1>5. CASE SetAwaitingUser(t)
  <2> DEFINE row == [Released(job[j]) EXCEPT !.status = "awaiting_user", !.dep = FALSE, !.pending = 0]
  <2>1. row.lease = 0
    BY <1>2 DEF Job
  <2>2. job' = [job EXCEPT ![j] = row] /\ Finish(t)
    BY <1>5, Zenon DEF SetAwaitingUser
  <2> HIDE DEF row
  <2>3. job'[j].lease = 0
    BY <1>1, <2>1, <2>2 DEF TypeOK
  <2> QED
    BY <2>2, <2>3, FinishMoved
<1> QED
  BY <1>3, <1>4, <1>5, Zenon DEF Settling

\* Staging moves the row of the holder, and completion ends the lease it has seen.  A job
\* is completed as ready only if its completion has read no cancel request.
LEMMA StagingMoves ==
    ASSUME TypeOK, NEW t \in Tokens, Staging(t)
    PROVE  Moved(t) /\ RowsKept
<1> DEFINE j == exec[t].job
           n == exec[t].at
<1>1. exec[t] \in Executor /\ j \in Jobs /\ job[j] \in Job
  BY TaskHasJob, Zenon DEF Staging, BeginStaging, StageFails, StageResult, CompleteRead, CompleteJob, Alive,
     TypeOK, ExecutorsOK
<1>2. CASE BeginStaging(t)
  <2> DEFINE row == [job[j] EXCEPT !.status = "hard_qa"]
             e == [exec[t] EXCEPT !.pc = "staging"]
  <2>1. row.lease = job[j].lease /\ row.status = "hard_qa" /\ e.pc = "staging"
    BY <1>1 DEF Job, Executor
  <2>2. job' = [job EXCEPT ![j] = row] /\ Goto(t, "staging") /\ job[j].lease = t
    BY <1>2 DEF BeginStaging, Held
  <2>3. exec'[t] = e
    BY <1>1, <2>2 DEF Goto, TypeOK, ExecutorsOK
  <2> HIDE DEF row, e
  <2>4. ~ Calling(exec'[job[j].lease])
    BY <2>1, <2>2, <2>3 DEF Calling, Calls
  <2>5. Moved(t)
    BY <2>2, GotoMoved DEF Calls
  <2>6. RowsKept
    <3> HIDE DEF j
    <3> QED BY <1>1, <2>1, <2>2, <2>4, OneRow
  <2> QED
    BY <2>5, <2>6
<1>3. CASE StageFails(t)
  <2>1. Failing(t, "final") \/ Goto(t, "giveup")
    BY <1>3 DEF StageFails
  <2>2. Moved(t)
    BY <2>1, FailingMoved, GotoMoved DEF Calls
  <2> QED
    BY <1>3, <2>2, SameRows DEF StageFails
<1>4. CASE StageResult(t)
  <2>1. PICK v : exec' = [exec EXCEPT ![t] = [exec[t] EXCEPT !.pc = "staged", !.verdict = v]]
    BY <1>4 DEF StageResult
  <2> DEFINE e == [exec[t] EXCEPT !.pc = "staged", !.verdict = v]
             row == [job[j] EXCEPT !.result = n]
  <2>2. e.pc = "staged" /\ e.job = exec[t].job
    BY <1>1 DEF Executor
  <2>3. row.lease = job[j].lease /\ row.status = job[j].status
    BY <1>1 DEF Job
  <2>4. exec' = [exec EXCEPT ![t] = e] /\ job' = [job EXCEPT ![j] = row]
    BY <1>4, <2>1, Zenon DEF StageResult
  <2> HIDE DEF e, row, j
  <2>5. Moved(t)
    BY <2>2, <2>4, MoveMoved DEF Calling, Calls
  <2>6. RowsKept
    BY <1>1, <2>3, <2>4, OneRow
  <2> QED
    BY <2>5, <2>6
<1>5. CASE CompleteRead(t)
  <2> DEFINE s == [cancel |-> job[j].cancel, pending |-> job[j].pending, leased |-> job[j].lease # 0]
             p == IF exec[t].pc = "repaired" THEN "completingRepair" ELSE "completing"
             e == [exec[t] EXCEPT !.pc = p, !.saw = s]
  <2>1. exec' = [exec EXCEPT ![t] = e]
    BY <1>5, Zenon DEF CompleteRead
  <2>2. e.job = exec[t].job /\ e.pc = p
    BY <1>1 DEF Executor
  <2>3. p \in {"completing", "completingRepair"}
    OBVIOUS
  <2> HIDE DEF e, s, p
  <2>4. Moved(t)
    BY <2>1, <2>2, <2>3, MoveMoved DEF Calling, Calls
  <2> QED
    BY <1>5, <2>4, SameRows DEF CompleteRead
<1>6. CASE CompleteJob(t)
  <2> DEFINE outcome == IF exec[t].saw.cancel THEN "cancelled"
                        ELSE IF exec[t].verdict = "fail" THEN "awaiting_user"
                        ELSE "candidate_ready"
             row == Completed(t, outcome)
  <2>1. job' = [job EXCEPT ![j] = row] /\ Finish(t)
    BY <1>6 DEF CompleteJob
  <2>2. outcome = "candidate_ready" => CompletesUnaware(j)
    BY <1>6 DEF CompletesUnaware
  <2> HIDE DEF outcome
  <2>3. /\ row.lease = IF exec[t].saw.leased THEN 0 ELSE job[j].lease
        /\ row.status = outcome
    BY <1>1, CompletedRow
  <2>4. row.lease = 0 \/ (row.lease = job[j].lease /\ UnseenLease)
    BY <1>6, <2>3 DEF UnseenLease
  <2> HIDE DEF row
  <2>5. job'[j].lease = 0 \/ UnseenLease
    BY <1>1, <2>1, <2>4 DEF TypeOK
  <2>6. Moved(t)
    BY <2>1, <2>5, FinishMoved
  <2>7. RowsKept
    <3> HIDE DEF j
    <3> QED BY <1>1, <2>1, <2>2, <2>3, <2>4, OneRow
  <2> QED
    BY <2>6, <2>7
<1> QED
  BY <1>2, <1>3, <1>4, <1>5, <1>6 DEF Staging

\* A tool repair.
LEMMA RepairingMoves ==
    ASSUME TypeOK, NEW t \in Tokens, Repairing(t)
    PROVE  Moved(t) /\ RowsKept
<1> DEFINE j == exec[t].job
           n == exec[t].at
<1>1. exec[t] \in Executor /\ j \in Jobs /\ job[j] \in Job
  BY TaskHasJob, Zenon DEF Repairing, RepairStale, RepairRejected, RepairBegin, RepairStage,
     RepairFails, Alive, TypeOK, ExecutorsOK
<1>2. CASE RepairBegin(t)
  <2> DEFINE row == [job[j] EXCEPT !.status = "remediating"]
             e == [exec[t] EXCEPT !.pc = "repairing", !.at = Count(j) + 1, !.fresh = TRUE]
  <2>1. /\ row.lease = job[j].lease /\ row.status = "remediating"
        /\ e.pc = "repairing" /\ e.job = exec[t].job
    BY <1>1 DEF Job, Executor
  <2>2. job' = [job EXCEPT ![j] = row] /\ exec' = [exec EXCEPT ![t] = e] /\ job[j].lease = t
    BY <1>2 DEF RepairBegin, Held
  <2> HIDE DEF row, e
  <2>3. exec'[t] = e
    BY <2>2 DEF TypeOK, ExecutorsOK
  <2>4. ~ Calling(exec'[job[j].lease])
    BY <2>1, <2>2, <2>3 DEF Calling, Calls
  <2>5. Moved(t)
    BY <2>1, <2>2, MoveMoved DEF Calling, Calls
  <2>6. RowsKept
    <3> HIDE DEF j
    <3> QED BY <1>1, <2>1, <2>2, <2>4, OneRow
  <2> QED
    BY <2>5, <2>6
<1>3. CASE RepairStage(t)
  <2>1. PICK v : exec' = [exec EXCEPT ![t] = [exec[t] EXCEPT !.pc = "repaired", !.verdict = v]]
    BY <1>3 DEF RepairStage
  <2> DEFINE e == [exec[t] EXCEPT !.pc = "repaired", !.verdict = v]
             row == [job[j] EXCEPT !.result = n]
  <2>2. e.pc = "repaired" /\ e.job = exec[t].job
    BY <1>1 DEF Executor
  <2>3. row.lease = job[j].lease /\ row.status = job[j].status
    BY <1>1 DEF Job
  <2>4. exec' = [exec EXCEPT ![t] = e] /\ job' = [job EXCEPT ![j] = row]
    BY <1>3, <2>1, Zenon DEF RepairStage
  <2> HIDE DEF e, row, j
  <2>5. Moved(t)
    BY <2>2, <2>4, MoveMoved DEF Calling, Calls
  <2>6. RowsKept
    BY <1>1, <2>3, <2>4, OneRow
  <2> QED
    BY <2>5, <2>6
<1>4. CASE Goto(t, "raised") /\ job' = job
  <2>1. Moved(t)
    BY <1>4, GotoMoved DEF Calls
  <2> QED
    BY <1>4, <2>1, SameRows
<1> QED
  BY <1>2, <1>3, <1>4, Zenon DEF Repairing, RepairStale, RepairRejected, RepairFails

\* Every step of a task keeps the rows.
LEMMA TaskRows == ASSUME TypeOK, NEW t \in Tokens, Task(t) PROVE RowsKept
  BY BeginMoves, AttemptingMoves, AnsweredMoves, SettlingRows, StagingMoves, RepairingMoves, Zenon
     DEF Task

\* Every step of a task keeps the invariant.
LEMMA TaskSteps ==
    ASSUME TypeOK, TaskInv, NEW t \in Tokens, Task(t), ~ UnseenLease
    PROVE  TaskInv'
<1>1. Moved(t)
  BY BeginMoves, AttemptingMoves, AnsweredMoves, SettlingMoved, StagingMoves, RepairingMoves, Zenon
     DEF Task
<1> QED
  BY <1>1, TaskRows, TaskKeeps

-----------------------------------------------------------------------------
(* Users, heartbeats and the environment *)

\* Without a move of a task, rows may lose their lease but not their status.
LEMMA QuietKeeps ==
    ASSUME TypeOK, TaskInv, exec' = exec,
           \A k \in Jobs : job'[k].lease # 0 =>
                              job'[k].lease = job[k].lease /\ job'[k].status = job[k].status
    PROVE  TaskInv'
  BY DEF TaskInv, LeaseOK, Alive

\* A heartbeat renews a lease.
LEMMA HeartbeatRow ==
    ASSUME TypeOK, NEW t \in Tokens, Heartbeat(t)
    PROVE  \A k \in Jobs : job'[k].lease = job[k].lease /\ job'[k].status = job[k].status
<1> DEFINE j == exec[t].job
           row == [job[j] EXCEPT !.live = TRUE]
<1>1. j \in Jobs /\ job[j] \in Job
  BY TaskHasJob DEF TypeOK, Heartbeat
<1>2. row.lease = job[j].lease /\ row.status = job[j].status
  BY <1>1 DEF Job
<1>3. job' = [job EXCEPT ![j] = row]
  BY DEF Heartbeat
<1> HIDE DEF row
<1> QED
  BY <1>2, <1>3 DEF TypeOK

\* A lease that runs out stays on its row.
LEMMA ExpiredRow ==
    ASSUME TypeOK, NEW j \in Jobs, ExpireLease(j)
    PROVE  \A k \in Jobs : job'[k].lease = job[k].lease /\ job'[k].status = job[k].status
<1> DEFINE row == [job[j] EXCEPT !.live = FALSE]
<1>1. row.lease = job[j].lease /\ row.status = job[j].status
  BY DEF TypeOK, Job
<1>2. job' = [job EXCEPT ![j] = row]
  BY DEF ExpireLease
<1> HIDE DEF row
<1> QED
  BY <1>1, <1>2 DEF TypeOK

\* Recovery releases the lease, and makes only a completed candidate ready.
LEMMA RecoveredRow ==
    ASSUME TypeOK, NEW j \in Jobs, NEW unlocked, NEW startup
    PROVE  /\ Recovered(j, unlocked, startup).lease = 0
           /\ Recovered(j, unlocked, startup).cancel = job[j].cancel
           /\ Recovered(j, unlocked, startup).status = "candidate_ready"
                 => Count(j) > 0 /\ Latest(j).phase = "succeeded"
<1> DEFINE row == Released(job[j])
           target == RecoveryTarget(j, unlocked)
           p == IF target = "awaiting_user" THEN 0 ELSE row.pending
           r == IF startup /\ target = "candidate_ready" THEN Count(j) ELSE row.result
<1>1. row \in Job /\ row.lease = 0
  BY ReleasedTyped, ReleasedLease DEF TypeOK
<1>2. row.cancel = job[j].cancel
  BY DEF TypeOK, Job, Released
<1>3. Recovered(j, unlocked, startup)
        = [row EXCEPT !.status = target, !.dep = FALSE, !.pending = p, !.result = r]
  BY DEF Recovered
<1>4. target = "candidate_ready" => Count(j) > 0 /\ Latest(j).phase = "succeeded"
  BY DEF RecoveryTarget
<1> HIDE DEF row, target, p, r
<1> QED
  BY <1>1, <1>2, <1>3, <1>4 DEF Job

\* A restart releases every lease.
LEMMA RestartRows ==
    ASSUME TypeOK, Restart
    PROVE  /\ TaskInv => \A k \in Jobs : job'[k].lease = 0
           /\ \A k \in Jobs :
                 job'[k].status = "candidate_ready" /\ job[k].status # "candidate_ready" =>
                    Count(k) > 0 /\ Latest(k).phase = "succeeded"
<1>1. \A k \in Jobs : job'[k] = IF job[k].status \in Leased THEN Recovered(k, {}, TRUE) ELSE job[k]
  BY Zenon DEF Restart
<1>2. \A k \in Jobs : TaskInv /\ job[k].lease # 0 => job[k].status \in Leased
  BY DEF TaskInv, LeaseOK
<1>3. \A k \in Jobs :
         /\ Recovered(k, {}, TRUE).lease = 0
         /\ Recovered(k, {}, TRUE).status = "candidate_ready"
               => Count(k) > 0 /\ Latest(k).phase = "succeeded"
  BY RecoveredRow
<1>4. TaskInv => \A k \in Jobs : job'[k].lease = 0
  BY <1>1, <1>2, <1>3
<1> QED
  BY <1>1, <1>3, <1>4

\* The row of an accepted decision.
LEMMA AcceptingRow ==
    ASSUME TypeOK, NEW j \in Jobs, NEW kind
    PROVE  Accepting(j, kind).status \in {"awaiting_user", "queued"}
<1> DEFINE row == Released(job[j])
           n == IF kind = "await_user" THEN 0 ELSE Len(actions[j]) + 1
           s == IF kind = "await_user" THEN "awaiting_user" ELSE "queued"
<1>1. row \in Job
  BY ReleasedTyped DEF TypeOK
<1>2. Accepting(j, kind) = [row EXCEPT !.cancel = FALSE, !.status = s, !.pending = n]
  BY DEF Accepting
<1>3. s \in {"awaiting_user", "queued"}
  OBVIOUS
<1> HIDE DEF row, s, n
<1> QED
  BY <1>1, <1>2, <1>3 DEF Job

\* What a decision of a user does to a row: it leaves the status of a leased
\* job alone, unless it overwrites a claim that it did not see.
DecidedRow(k) ==
    \/ job'[k].status = job[k].status
    \/ job[k].status \notin Leased /\ job'[k].status # "candidate_ready"
    \/ job'[k].status = "cancelled" /\ (job[k].lease = 0 \/ CancelsClaim)
    \/ job'[k].status = "queued" /\ OutdatedResume

\* Decisions change the status of jobs that are not leased.
LEMMA UserRows == ASSUME TypeOK, User PROVE \A k \in Jobs : DecidedRow(k)
<1>0. \A k \in Jobs : job[k] \in Job
  BY DEF TypeOK
<1>1. ASSUME NEW p \in Providers, Unlock(p) PROVE \A k \in Jobs : DecidedRow(k)
  <2>1. \A k \in Jobs : [job[k] EXCEPT !.status = "queued", !.dep = FALSE].status = "queued"
    BY <1>0 DEF Job
  <2>2. \A k \in Jobs : \/ job'[k] = job[k]
                        \/ job[k].status \notin Leased /\ job'[k].status = "queued"
    BY <1>1, <2>1 DEF Unlock, LockedJobs, Leased
  <2> QED
    BY <2>2 DEF DecidedRow
<1>2. ASSUME job' = job PROVE \A k \in Jobs : DecidedRow(k)
  BY <1>2 DEF DecidedRow
<1>3. ASSUME NEW j \in Jobs, CancelWrite(j) PROVE \A k \in Jobs : DecidedRow(k)
  <2> DEFINE early == cancelling[j] \in {"queued", "credentials_locked"}
             s == IF early THEN "cancelled" ELSE job[j].status
             b == IF early THEN FALSE ELSE job[j].dep
             row == [job[j] EXCEPT !.cancel = TRUE, !.status = s, !.dep = b]
  <2>1. job' = [job EXCEPT ![j] = row]
    BY <1>3 DEF CancelWrite
  <2>2. s = job[j].status \/ (early /\ s = "cancelled")
    OBVIOUS
  <2>3. early => job[j].lease = 0 \/ CancelsClaim
    BY <1>3 DEF CancelsClaim
  <2> HIDE DEF s, b, early
  <2>4. row.status = s
    BY <1>0 DEF Job
  <2> HIDE DEF row
  <2>5. job'[j] = row /\ \A k \in Jobs \ {j} : job'[k] = job[k]
    BY <2>1 DEF TypeOK
  <2> QED
    BY <2>2, <2>3, <2>4, <2>5 DEF DecidedRow
<1>4. ASSUME NEW j \in Jobs, RefuseOverBudget(j) PROVE \A k \in Jobs : DecidedRow(k)
  <2> DEFINE row == [job[j] EXCEPT !.status = "awaiting_user"]
  <2>1. row.status = "awaiting_user" /\ job[j].status \notin Leased
    BY <1>0, <1>4 DEF Job, RefuseOverBudget, Decidable, Leased
  <2>2. job' = [job EXCEPT ![j] = row]
    BY <1>4 DEF RefuseOverBudget
  <2> HIDE DEF row
  <2>3. job'[j] = row /\ \A k \in Jobs \ {j} : job'[k] = job[k]
    BY <2>2 DEF TypeOK
  <2> QED
    BY <2>1, <2>3 DEF DecidedRow
<1>5. ASSUME NEW j \in Jobs, NEW kind, Remediate(j, kind) PROVE \A k \in Jobs : DecidedRow(k)
  <2>1. /\ job'[j] = Accepting(j, kind)
        /\ \A k \in Jobs \ {j} : job'[k] = job[k]
        /\ job[j].status \notin Leased
    BY <1>5 DEF TypeOK, Remediate, Decidable, Leased
  <2> QED
    BY <2>1, AcceptingRow DEF DecidedRow
<1>6. ASSUME NEW j \in Jobs, ResumeJob(j) PROVE \A k \in Jobs : DecidedRow(k)
  <2> DEFINE retry == job[j].status # "credentials_locked" /\ ResumesUnsent(j)
             requeue == ProviderOf[j] \in vault \/ (job[j].status # "credentials_locked"
                                                      /\ (HasOutput(j) \/ RecoverableAction(j)))
             s == IF requeue THEN "queued" ELSE "credentials_locked"
             row == IF retry THEN Accepting(j, "retry")
                    ELSE [job[j] EXCEPT !.cancel = FALSE, !.status = s]
  <2>1. job' = [job EXCEPT ![j] = row] /\ job[j].status \notin Leased
    BY <1>6 DEF ResumeJob, Leased
  <2>2. s \in {"queued", "credentials_locked"}
    OBVIOUS
  <2> HIDE DEF s, retry
  <2>3. [job[j] EXCEPT !.cancel = FALSE, !.status = s].status = s
    BY <1>0 DEF Job
  <2>4. row.status # "candidate_ready"
    BY <2>2, <2>3, AcceptingRow
  <2> HIDE DEF row
  <2>5. job'[j] = row /\ \A k \in Jobs \ {j} : job'[k] = job[k]
    BY <2>1 DEF TypeOK
  <2> QED
    BY <2>1, <2>4, <2>5 DEF DecidedRow
<1>7. ASSUME NEW p \in Plans, ResumePlan(p) PROVE \A k \in Jobs : DecidedRow(k)
  <2>1. ASSUME NEW k \in Jobs PROVE [Released(job[k]) EXCEPT !.status = "queued"].status = "queued"
    <3>1. Released(job[k]) \in Job
      BY <1>0, ReleasedTyped
    <3> QED
      BY <3>1 DEF Job
  <2>2. \A k \in Jobs : \/ job'[k] = job[k]
                        \/ job[k].status \notin Leased /\ job'[k] = Accepting(k, "retry")
                        \/ job[k].status \notin Leased
                             /\ job'[k] = [Released(job[k]) EXCEPT !.status = "queued"]
    BY <1>7 DEF ResumePlan, Resumed, ResumesUnsent, Leased
  <2> QED
    BY <2>1, <2>2, AcceptingRow DEF DecidedRow
<1>8. CASE Overtaken
  <2>1. job' = job \/ ResumeWrite
    BY <1>8 DEF Overtaken, UnlockRead, ResumeRead, ResumePlanRead, Reads
  <2>2. CASE ResumeWrite
    BY <2>2, ResumedColumns DEF DecidedRow, OutdatedResume, Leased
  <2> QED
    BY <1>2, <2>1, <2>2
<1> QED
  BY <1>1, <1>2, <1>3, <1>4, <1>5, <1>6, <1>7, <1>8, Zenon DEF User, Lock, CancelRead

\* Users and the environment take leases away but do not move one to a job
\* that no task works on.
LEMMA OutsideSteps ==
    ASSUME TypeOK, TaskInv, User \/ Environment, ~ OverwritesClaim
    PROVE  TaskInv'
<1>1. CASE User
  <2>1. exec' = exec
    BY <1>1, Zenon DEF User, Unlock, Lock, CancelRead, CancelWrite, RefuseOverBudget, Remediate,
       ResumeJob, ResumePlan, Overtaken, Reads, UnlockRead, ResumeRead, ResumePlanRead, ResumeWrite
  <2>2. ASSUME NEW k \in Jobs, job'[k].lease # 0
        PROVE  job'[k].lease = job[k].lease /\ job'[k].status = job[k].status
    <3>1. job'[k].lease = job[k].lease
      BY <1>1, <2>2, UserLeases DEF LeasesKept
    <3>2. job[k].status \in Leased
      BY <2>2, <3>1 DEF TaskInv, LeaseOK
    <3>3. DecidedRow(k)
      BY <1>1, UserRows
    <3> QED
      BY <2>2, <3>1, <3>2, <3>3 DEF DecidedRow, OverwritesClaim
  <2> QED
    BY <2>1, <2>2, QuietKeeps
<1>2. CASE Restart
  BY <1>2, RestartRows DEF TaskInv, LeaseOK
<1>3. ASSUME NEW j \in Jobs, ExpireLease(j) PROVE TaskInv'
  BY <1>3, ExpiredRow, QuietKeeps DEF ExpireLease
<1> QED
  BY <1>1, <1>2, <1>3 DEF Environment

-----------------------------------------------------------------------------
(* The claim loop *)

\* Within a pass, tokens are given out in the order of the jobs.
LEMMA TokensDiffer ==
    ASSUME TypeOK, NEW taken \in SUBSET Jobs, NEW i \in taken, NEW k \in taken, i # k
    PROVE  TokenOf(taken, i) # TokenOf(taken, k)
<1>1. ASSUME NEW a \in taken, NEW b \in taken, a < b PROVE TokenOf(taken, a) # TokenOf(taken, b)
  <2>1. a \in Nat /\ b \in Nat /\ \A c \in taken : c \in Nat
    BY JobsAssumption
  <2>2. Before(taken, a) \subseteq Before(taken, b)
    <3> SUFFICES ASSUME NEW c \in taken, c < a PROVE c < b
      BY DEF Before
    <3>1. a \in Nat /\ b \in Nat /\ c \in Nat
      BY <2>1
    <3> QED
      BY <1>1, <3>1
  <2>3. a \in Before(taken, b) /\ a \notin Before(taken, a)
    BY <1>1, <2>1 DEF Before
  <2>4. IsFiniteSet(Before(taken, b))
    <3>1. Before(taken, b) \subseteq Jobs
      BY DEF Before
    <3> QED BY <3>1, FS_Subset, JobsAssumption
  <2>5. Cardinality(Before(taken, a)) # Cardinality(Before(taken, b))
    BY <2>2, <2>3, <2>4, FS_Subset
  <2>6. Cardinality(Before(taken, a)) \in Nat /\ Cardinality(Before(taken, b)) \in Nat
        /\ claims \in Nat
    BY TokenTyped DEF TypeOK
  <2> QED
    BY <2>5, <2>6 DEF TokenOf
<1>2. i < k \/ k < i
  BY JobsAssumption
<1> QED
  BY <1>1, <1>2

\* A row that has a lease when the queue is walked has it from an earlier
\* claim: it was neither recovered nor requeued.
LEMMA RowsLeased ==
    ASSUME TypeOK, TaskInv, NEW k \in Jobs, Requeued(Expired, Unblocked(Expired))[k].lease # 0
    PROVE  /\ Requeued(Expired, Unblocked(Expired))[k] = job[k]
           /\ job[k].status \in Leased /\ job[k].live
<1> DEFINE U == Unblocked(Expired)
<1>1. Expired[k] = IF k \in Stale THEN Recovered(k, vault, FALSE) ELSE job[k]
  BY DEF Expired
<1>2. Expired[k] \in Job
  BY <1>1, RecoveredTyped DEF TypeOK
<1>3. [Expired[k] EXCEPT !.status = "queued", !.dep = FALSE].lease = Expired[k].lease
  BY <1>2 DEF Job
<1>4. Requeued(Expired, U)[k]
        = IF k \in U THEN [Expired[k] EXCEPT !.status = "queued", !.dep = FALSE] ELSE Expired[k]
  BY DEF Requeued
<1>5. Expired[k].lease # 0
  BY <1>3, <1>4
<1>6. k \notin Stale /\ Expired[k] = job[k]
  BY <1>1, <1>5, RecoveredRow
<1>7. job[k].status \in Leased /\ job[k].live
  BY <1>5, <1>6 DEF TaskInv, LeaseOK, Stale, TypeOK, Job
<1>8. k \notin U
  BY <1>6, <1>7 DEF Unblocked, Leased
<1> QED
  BY <1>4, <1>6, <1>7, <1>8

\* What a pass does to the lease of a row: it grants one to a job taken from
\* the queue, takes it away, or leaves the row alone.
Granted(rows, taken, k) == k \in taken /\ job'[k].lease = TokenOf(taken, k) /\ job'[k].status = "running"
LeftAlone(rows, k) ==
    /\ job'[k] = job[k] /\ rows[k] = job[k]
    /\ rows[k].status \in Leased /\ rows[k].live

\* A pass grants a lease, takes it away, or leaves the row alone.
LEMMA PollLeases ==
    ASSUME TypeOK, TaskInv, NEW rows, NEW dropped, NEW blocked, NEW taken,
           rows = Requeued(Expired, Unblocked(Expired)),
           dropped \cup blocked \cup taken \subseteq {j \in Jobs : rows[j].status = "queued"},
           job' = Walked(rows, dropped, blocked, taken),
           NEW k \in Jobs, job'[k].lease # 0
    PROVE  Granted(rows, taken, k) \/ LeftAlone(rows, k)
<1>1. rows[k] \in Job
  BY RowsTyped
<1>2. /\ [rows[k] EXCEPT !.status = "cancelled", !.dep = FALSE].lease = rows[k].lease
      /\ [rows[k] EXCEPT !.status = "awaiting_user", !.dep = TRUE].lease = rows[k].lease
      /\ [rows[k] EXCEPT !.status = "running", !.live = TRUE,
                         !.lease = TokenOf(taken, k)].lease = TokenOf(taken, k)
      /\ [rows[k] EXCEPT !.status = "running", !.live = TRUE,
                         !.lease = TokenOf(taken, k)].status = "running"
  BY <1>1 DEF Job
<1>3. job'[k] = IF k \in dropped THEN [rows[k] EXCEPT !.status = "cancelled", !.dep = FALSE]
                ELSE IF k \in blocked THEN [rows[k] EXCEPT !.status = "awaiting_user", !.dep = TRUE]
                ELSE IF k \in taken THEN [rows[k] EXCEPT !.status = "running", !.live = TRUE,
                                                         !.lease = TokenOf(taken, k)]
                ELSE rows[k]
  BY DEF Walked
<1>4. rows[k].status = "queued" => rows[k].lease = 0
  BY RowsLeased DEF Leased
<1>5. k \in dropped \cup blocked => rows[k].status = "queued"
  OBVIOUS
<1>6. k \notin dropped \cup blocked
  BY <1>2, <1>3, <1>4, <1>5
<1>7. CASE k \in taken
  BY <1>2, <1>3, <1>6, <1>7 DEF Granted
<1>8. CASE k \notin taken
  <2>1. job'[k] = rows[k]
    BY <1>3, <1>6, <1>8
  <2> QED
    BY <2>1, RowsLeased DEF LeftAlone
<1> QED
  BY <1>7, <1>8

\* A pass starts a task for every lease it grants.
LEMMA PollTasks == ASSUME TypeOK, TaskInv, LeaseInv, Poll PROVE TaskInv'
<1>1. PICK rows, dropped, blocked, taken :
         /\ rows = Requeued(Expired, Unblocked(Expired))
         /\ dropped \cup blocked \cup taken \subseteq {j \in Jobs : rows[j].status = "queued"}
         /\ \A j \in taken : WithinLimits(rows, j, taken)
         /\ job' = Walked(rows, dropped, blocked, taken)
         /\ exec' = [t \in Tokens |->
                       IF \E j \in taken : TokenOf(taken, j) = t
                       THEN Claimed(CHOOSE j \in taken : TokenOf(taken, j) = t)
                       ELSE exec[t]]
  BY PollSteps
<1>2. taken \in SUBSET Jobs
  BY <1>1
<1> SUFFICES ASSUME NEW k \in Jobs, job'[k].lease # 0 PROVE LeaseOK(k)'
  BY DEF TaskInv, LeaseOK
<1>3. Granted(rows, taken, k) \/ LeftAlone(rows, k)
  BY <1>1, PollLeases
<1>4. CASE Granted(rows, taken, k)
  <2> DEFINE t == TokenOf(taken, k)
  <2>1. k \in taken /\ job'[k].lease = t /\ job'[k].status = "running"
    BY <1>4 DEF Granted
  <2>2. t \in Tokens
    <3>1. claims + Cardinality(Before(taken, k)) < MaxClaims
      BY <1>1, <2>1 DEF WithinLimits
    <3>2. claims \in Nat /\ Cardinality(Before(taken, k)) \in Nat /\ MaxClaims \in Nat
      BY <1>2, TokenTyped, BoundsAssumption DEF TypeOK
    <3> QED
      BY <3>1, <3>2 DEF TokenOf, Tokens
  <2>3. (CHOOSE j \in taken : TokenOf(taken, j) = t) = k
    <3> DEFINE c == CHOOSE j \in taken : TokenOf(taken, j) = t
    <3>1. c \in taken /\ TokenOf(taken, c) = t
      BY <2>1
    <3> HIDE DEF c
    <3> QED
      BY <1>2, <2>1, <3>1, TokensDiffer
  <2>4. exec'[t] = Claimed(k)
    BY <1>1, <2>1, <2>2, <2>3
  <2>5. Claimed(k).pc = "claimed" /\ Claimed(k).job = k
    BY DEF Claimed, Idle
  <2> HIDE DEF t
  <2> QED
    BY <2>1, <2>2, <2>4, <2>5 DEF LeaseOK, Alive, Leased
<1>5. CASE LeftAlone(rows, k)
  <2> DEFINE u == job[k].lease
  <2>1. job'[k] = job[k] /\ u # 0
    BY <1>5 DEF LeftAlone
  <2>2. u \in Tokens /\ Alive(u)
    BY <2>1 DEF TaskInv, LeaseOK
  <2>3. u <= claims /\ u \in Nat /\ claims \in Nat
    BY <2>2 DEF LeaseInv, TasksClaimed, Tokens, TypeOK
  <2>4. \A j \in taken : TokenOf(taken, j) # u
    <3> TAKE j \in taken
    <3>1. claims < TokenOf(taken, j) /\ TokenOf(taken, j) \in Nat
      BY <1>2, NewToken, TokenTyped
    <3> QED
      BY <2>3, <3>1
  <2>5. exec'[u] = exec[u]
    BY <1>1, <2>2, <2>4
  <2> QED
    BY <2>1, <2>5 DEF TaskInv, LeaseOK, Alive
<1> QED
  BY <1>3, <1>4, <1>5

\* Every step keeps the invariant, unless it overwrites a claim it did not see.
LEMMA NextTasks ==
    ASSUME TypeOK, LeaseInv, TaskInv, Next, ~ OverwritesClaim
    PROVE  TaskInv'
<1>1. ASSUME NEW t \in Tokens, Heartbeat(t) PROVE TaskInv'
  BY <1>1, HeartbeatRow, QuietKeeps DEF Heartbeat
<1> QED
  BY <1>1, PollTasks, TaskSteps, OutsideSteps, Zenon DEF Next, OverwritesClaim

\* A claim always has its task: no path of a task returns before it has settled
\* the job or lost the lease to another claim, a pause or a recovery, for any
\* number of jobs, claims, expiries and restarts, as long as no cancel request,
\* resumption or late completion overwrites a claim.  A path that breaks off
\* inside a worker thread ends at the handlers of _execute_claimed_job, which
\* set the job aside.
THEOREM LeaseHasTaskHolds == Spec /\ [][~ OverwritesClaim]_vars => []LeaseHasTask
<1>1. Init => TaskInv
  BY DEF Init, TaskInv, LeaseOK
<1>2. TypeOK /\ LeaseInv /\ TaskInv /\ [Next]_vars /\ [~ OverwritesClaim]_vars => TaskInv'
  <2>1. UNCHANGED vars /\ TaskInv => TaskInv'
    BY Zenon DEF vars, TaskInv, LeaseOK, Alive
  <2> QED
    BY <2>1, NextTasks
<1>3. TaskInv => LeaseHasTask
  BY DEF TaskInv, LeaseOK, LeaseHasTask
<1> QED
  BY <1>1, <1>2, <1>3, TypeCorrect, LeaseInvHolds, PTL DEF Spec

-----------------------------------------------------------------------------
(* The limits on claims *)

\* A set of jobs has a job that was created last.
LEMMA LastJob ==
    ASSUME NEW T \in SUBSET Jobs, T # {}
    PROVE  \E m \in T : \A k \in T \ {m} : k \in Before(T, m)
<1> DEFINE After(m) == {k \in T : m < k}
           Sizes == {n \in Nat : \E m \in T : n = Cardinality(After(m))}
<1>1. \A m \in T : IsFiniteSet(After(m)) /\ Cardinality(After(m)) \in Nat
  <2> TAKE m \in T
  <2>1. IsFiniteSet(After(m))
    BY FS_Subset, JobsAssumption
  <2> QED
    BY <2>1, FS_CardinalityType
<1>2. Sizes \subseteq Nat /\ Sizes # {}
  BY <1>1
<1>3. PICK n \in Sizes : \A i \in Sizes : ~ (<<i, n>> \in OpToRel(<, Nat))
  BY <1>2, WFMin, NatLessThanWellFounded
<1>4. PICK m \in T : n = Cardinality(After(m))
  OBVIOUS
<1>5. \A k \in T : k \in Nat
  BY JobsAssumption
<1>6. \A k \in T : k <= m
  <2> SUFFICES ASSUME NEW k \in T, m < k PROVE FALSE
    BY <1>5
  <2>1. After(k) \subseteq After(m) \ {k}
    <3> SUFFICES ASSUME NEW c \in T, k < c PROVE m < c /\ c # k
      OBVIOUS
    <3>1. c \in Nat /\ k \in Nat /\ m \in Nat
      BY <1>5
    <3> QED
      BY <3>1
  <2>2. k \in After(m)
    OBVIOUS
  <2>3. Cardinality(After(k)) < Cardinality(After(m))
    <3> DEFINE C == After(m)
               D == After(k)
    <3>1. IsFiniteSet(C) /\ Cardinality(C) \in Nat /\ Cardinality(D) \in Nat
      BY <1>1
    <3>2. D \subseteq C \ {k} /\ k \in C
      BY <2>1, <2>2
    <3> HIDE DEF C, D
    <3>3. D \subseteq C /\ D # C
      BY <3>2
    <3>4. Cardinality(D) <= Cardinality(C) /\ Cardinality(D) # Cardinality(C)
      BY <3>1, <3>3, FS_Subset
    <3>5. Cardinality(D) < Cardinality(C)
      BY <3>1, <3>4
    <3> QED
      BY <3>5 DEF C, D
  <2>4. Cardinality(After(k)) \in Sizes /\ Cardinality(After(k)) < n /\ n \in Nat
    <3>1. Cardinality(After(k)) \in Sizes
      BY <1>1
    <3> HIDE DEF After
    <3> QED
      BY <1>4, <2>3, <3>1
  <2> QED
    BY <1>3, <2>4 DEF OpToRel
<1>7. \A k \in T \ {m} : k < m
  BY <1>5, <1>6
<1> QED
  BY <1>7 DEF Before

\* One more than a number of jobs below the limit is within it.
LEMMA OneMore ==
    ASSUME NEW A \in SUBSET Jobs, NEW B \in SUBSET Jobs, NEW m, NEW limit \in Nat,
           Cardinality(A) + Cardinality(B) < limit,
           NEW H \in SUBSET (A \cup B \cup {m})
    PROVE  Cardinality(H) <= limit
<1>1. IsFiniteSet(A) /\ IsFiniteSet(B)
  BY FS_Subset, JobsAssumption
<1>2. IsFiniteSet(A \cup B) /\ Cardinality(A \cup B) <= Cardinality(A) + Cardinality(B)
  <2>1. IsFiniteSet(A \cap B)
    BY <1>1, FS_Subset
  <2>2. Cardinality(A) \in Nat /\ Cardinality(B) \in Nat /\ Cardinality(A \cap B) \in Nat
    BY <1>1, <2>1, FS_CardinalityType
  <2>3. /\ IsFiniteSet(A \cup B)
        /\ Cardinality(A \cup B) = Cardinality(A) + Cardinality(B) - Cardinality(A \cap B)
    BY <1>1, FS_Union
  <2> QED
    BY <2>2, <2>3
<1> DEFINE C == A \cup B
<1>3. IsFiniteSet(C \cup {m}) /\ Cardinality(C \cup {m}) <= Cardinality(C) + 1
  <2>1. IsFiniteSet(C)
    BY <1>2
  <2> HIDE DEF C
  <2>2. Cardinality(C) \in Nat
    BY <2>1, FS_CardinalityType
  <2>3. /\ IsFiniteSet(C \cup {m})
        /\ Cardinality(C \cup {m}) = IF m \in C THEN Cardinality(C) ELSE Cardinality(C) + 1
    BY <2>1, FS_AddElement
  <2> QED
    BY <2>2, <2>3
<1>4. Cardinality(H) <= Cardinality(C \cup {m})
  BY <1>3, FS_Subset
<1>5. IsFiniteSet(H)
  BY <1>3, FS_Subset
<1>6. /\ Cardinality(A) \in Nat /\ Cardinality(B) \in Nat /\ Cardinality(C) \in Nat
      /\ Cardinality(C \cup {m}) \in Nat /\ Cardinality(H) \in Nat
  BY <1>1, <1>2, <1>3, <1>5, FS_CardinalityType
<1>7. Cardinality(C) <= Cardinality(A) + Cardinality(B)
  BY <1>2
<1> HIDE DEF C
<1> QED
  BY <1>3, <1>4, <1>6, <1>7

\* The jobs of a set that hold a lease, in force or expired.
LeasedIn(S) == {k \in S : job[k].lease # 0}

LimitInv ==
    /\ \A p \in Plans :
          Cardinality(LeasedIn({j \in Jobs : PlanOf[j] = p})) <= AtLeastOne(MaxConcurrency[p])
    /\ \A p \in Providers :
          Cardinality(LeasedIn({j \in LegacyJobs : ProviderOf[j] = p})) <= AtLeastOne(ProviderLimit)

\* Leases that are only given up stay within a limit.
LEMMA FewerLeases ==
    ASSUME LeasesKept, NEW S \in SUBSET Jobs, NEW limit \in Nat, Cardinality(LeasedIn(S)) <= limit
    PROVE  Cardinality(LeasedIn(S)') <= limit
<1> DEFINE H == LeasedIn(S)
           G == {k \in S : job'[k].lease # 0}
<1>1. G \subseteq H
  BY DEF LeasesKept, LeasedIn
<1>2. IsFiniteSet(H) /\ IsFiniteSet(G)
  <2>1. H \subseteq Jobs /\ G \subseteq Jobs
    BY DEF LeasedIn
  <2> QED
    BY <2>1, FS_Subset, JobsAssumption
<1>3. Cardinality(G) <= Cardinality(H) /\ Cardinality(G) \in Nat /\ Cardinality(H) \in Nat
  BY <1>1, <1>2, FS_Subset, FS_CardinalityType
<1>4. Cardinality(H) <= limit
  OBVIOUS
<1>5. LeasedIn(S)' = G
  BY DEF LeasedIn
<1> HIDE DEF H, G
<1> QED
  BY <1>3, <1>4, <1>5

\* A pass that grants a lease in S leaves the leases of S within the limit:
\* when it granted the last of them, it counted all the others.
LEMMA PollWithin ==
    ASSUME TypeOK, TaskInv, NEW rows, NEW taken \in SUBSET Jobs,
           \A k \in Jobs : job'[k].lease # 0 => Granted(rows, taken, k) \/ LeftAlone(rows, k),
           NEW S \in SUBSET Jobs, NEW limit \in Nat, Cardinality(LeasedIn(S)) <= limit,
           \A m \in taken \cap S : \E G \in SUBSET Jobs :
              /\ S \subseteq G
              /\ Cardinality(ActiveIn(rows, G)) + Cardinality(Before(taken \cap G, m)) < limit
    PROVE  Cardinality(LeasedIn(S)') <= limit
<1>1. LeasedIn(S)' = {k \in S : job'[k].lease # 0}
  BY DEF LeasedIn
<1>2. \A k \in Jobs : LeftAlone(rows, k) => job'[k] = job[k]
  BY DEF LeftAlone
<1>3. CASE taken \cap S = {}
  <2> DEFINE H == LeasedIn(S)
             G == {k \in S : job'[k].lease # 0}
  <2>1. G \subseteq H
    BY <1>2, <1>3 DEF LeasedIn, Granted
  <2>2. IsFiniteSet(H) /\ IsFiniteSet(G)
    <3>1. H \subseteq Jobs /\ G \subseteq Jobs
      BY DEF LeasedIn
    <3> QED
      BY <3>1, FS_Subset, JobsAssumption
  <2>3. Cardinality(G) <= Cardinality(H) /\ Cardinality(G) \in Nat /\ Cardinality(H) \in Nat
    BY <2>1, <2>2, FS_Subset, FS_CardinalityType
  <2>4. Cardinality(H) <= limit
    OBVIOUS
  <2>5. LeasedIn(S)' = G
    BY <1>1
  <2> HIDE DEF H, G
  <2> QED
    BY <2>3, <2>4, <2>5
<1>4. CASE taken \cap S # {}
  <2>1. PICK m \in taken \cap S : \A k \in (taken \cap S) \ {m} : k \in Before(taken \cap S, m)
    BY <1>4, LastJob
  <2>2. PICK G \in SUBSET Jobs :
           /\ S \subseteq G
           /\ Cardinality(ActiveIn(rows, G)) + Cardinality(Before(taken \cap G, m)) < limit
    OBVIOUS
  <2> DEFINE A == ActiveIn(rows, G)
             B == Before(taken \cap G, m)
             H == {k \in S : job'[k].lease # 0}
  <2>3. A \subseteq Jobs /\ B \subseteq Jobs
    BY DEF ActiveIn, Before
  <2>4. ASSUME NEW k \in H PROVE k \in A \cup B \cup {m}
    <3>1. CASE LeftAlone(rows, k)
      BY <2>2, <3>1 DEF LeftAlone, ActiveIn
    <3>2. CASE Granted(rows, taken, k)
      <4>1. k = m \/ k \in Before(taken \cap S, m)
        BY <2>1, <3>2 DEF Granted
      <4> QED
        BY <2>2, <4>1 DEF Before
    <3> QED
      BY <3>1, <3>2
  <2>5. Cardinality(A) + Cardinality(B) < limit
    BY <2>2
  <2>6. H \in SUBSET (A \cup B \cup {m}) /\ A \in SUBSET Jobs /\ B \in SUBSET Jobs
    <3> HIDE DEF A, B, H
    <3> QED BY <2>3, <2>4
  <2> HIDE DEF A, B, H
  <2>7. Cardinality(H) <= limit
    BY <2>5, <2>6, OneMore
  <2> QED
    BY <1>1, <2>7 DEF H
<1> QED
  BY <1>3, <1>4

\* A pass claims a job only below the limits, counting the jobs it claimed before.
LEMMA PollLimits == ASSUME TypeOK, TaskInv, LimitInv, Poll PROVE LimitInv'
<1>1. PICK rows, dropped, blocked, taken :
         /\ rows = Requeued(Expired, Unblocked(Expired))
         /\ dropped \cup blocked \cup taken \subseteq {j \in Jobs : rows[j].status = "queued"}
         /\ \A j \in taken : WithinLimits(rows, j, taken)
         /\ job' = Walked(rows, dropped, blocked, taken)
  BY PollSteps
<1>2. taken \in SUBSET Jobs
  BY <1>1
<1>3. \A k \in Jobs : job'[k].lease # 0 => Granted(rows, taken, k) \/ LeftAlone(rows, k)
  BY <1>1, PollLeases
<1>4. ASSUME NEW p \in Plans
      PROVE  Cardinality(LeasedIn({j \in Jobs : PlanOf[j] = p})') <= AtLeastOne(MaxConcurrency[p])
  <2> DEFINE S == {j \in Jobs : PlanOf[j] = p}
             limit == AtLeastOne(MaxConcurrency[p])
  <2>1. S \in SUBSET Jobs /\ limit \in Nat /\ Cardinality(LeasedIn(S)) <= limit
    BY LimitsAssumption DEF LimitInv, AtLeastOne
  <2>2. ASSUME NEW m \in taken \cap S
        PROVE  /\ S \in SUBSET Jobs /\ S \subseteq S
               /\ Cardinality(ActiveIn(rows, S)) + Cardinality(Before(taken \cap S, m)) < limit
    <3>1. S = SamePlan(m) /\ PlanOf[m] = p /\ m \in taken
      BY DEF SamePlan
    <3> QED
      BY <1>1, <3>1 DEF WithinLimits
  <2> HIDE DEF S, limit
  <2>3. Cardinality(LeasedIn(S)') <= limit
    BY <1>2, <1>3, <2>1, <2>2, PollWithin
  <2> QED
    BY <2>3 DEF S, limit
<1>5. ASSUME NEW p \in Providers
      PROVE  Cardinality(LeasedIn({j \in LegacyJobs : ProviderOf[j] = p})') <= AtLeastOne(ProviderLimit)
  <2> DEFINE S == {j \in LegacyJobs : ProviderOf[j] = p}
             limit == AtLeastOne(ProviderLimit)
  <2>1. S \in SUBSET Jobs /\ limit \in Nat /\ Cardinality(LeasedIn(S)) <= limit
    BY LimitsAssumption, JobsAssumption DEF LimitInv, AtLeastOne
  <2>2. ASSUME NEW m \in taken \cap S
        PROVE  /\ SameProvider(m) \in SUBSET Jobs /\ S \subseteq SameProvider(m)
               /\ Cardinality(ActiveIn(rows, SameProvider(m)))
                     + Cardinality(Before(taken \cap SameProvider(m), m)) < limit
    <3>1. S \subseteq SameProvider(m) /\ m \in LegacyJobs /\ m \in taken
      BY JobsAssumption DEF SameProvider
    <3> QED
      BY <1>1, <3>1 DEF WithinLimits, SameProvider
  <2> HIDE DEF S, limit
  <2>3. Cardinality(LeasedIn(S)') <= limit
    BY <1>2, <1>3, <2>1, <2>2, PollWithin
  <2> QED
    BY <2>3 DEF S, limit
<1>6. /\ \A p \in Plans : LeasedIn({j \in Jobs : PlanOf[j] = p})'
                             = {k \in {j \in Jobs : PlanOf[j] = p} : job'[k].lease # 0}
      /\ \A p \in Providers : LeasedIn({j \in LegacyJobs : ProviderOf[j] = p})'
                             = {k \in {j \in LegacyJobs : ProviderOf[j] = p} : job'[k].lease # 0}
  BY DEF LeasedIn
<1> QED
  BY <1>4, <1>5, <1>6 DEF LimitInv, LeasedIn

\* No other step grants a lease.
LEMMA LeasesOnlyPolled ==
    ASSUME TypeOK, TypeOK', Next, ~ Poll
    PROVE  LeasesKept
<1>1. ASSUME NEW t \in Tokens, StartAttempt(t) PROVE LeasesKept
  BY <1>1, SameLeases DEF StartAttempt
<1>2. ASSUME NEW t \in Tokens, RepairBegin(t) PROVE LeasesKept
  <2> DEFINE j == exec[t].job
             row == [job[j] EXCEPT !.status = "remediating"]
  <2>1. j \in Jobs /\ job[j] \in Job
    BY <1>2, TaskHasJob DEF TypeOK, RepairBegin, Alive
  <2>2. row.lease = job[j].lease
    BY <2>1 DEF Job
  <2>3. job' = [job EXCEPT ![j] = row]
    BY <1>2 DEF RepairBegin
  <2> HIDE DEF row, j
  <2> QED
    BY <2>1, <2>2, <2>3, RowKeeps
<1>3. ASSUME NEW t \in Tokens, Task(t) PROVE LeasesKept
  <2>1. Steady \/ StartAttempt(t) \/ RepairBegin(t)
    BY <1>3, BeginSteady, AttemptingSteady, AnsweredSteady, SettlingSteady, StagingSteady,
       RepairingSteady DEF Task
  <2> QED
    BY <1>1, <1>2, <2>1 DEF Steady
<1> QED
  BY <1>3, HeartbeatSteady, UserSteady, EnvironmentSteady DEF Next, Steady

\* Every step keeps the leases within the limits.
LEMMA NextLimits == ASSUME TypeOK, TypeOK', TaskInv, LimitInv, Next PROVE LimitInv'
<1>1. CASE Poll
  BY <1>1, PollLimits
<1>2. CASE ~ Poll
  <2>1. LeasesKept
    BY <1>2, LeasesOnlyPolled
  <2>2. \A p \in Plans : AtLeastOne(MaxConcurrency[p]) \in Nat
    BY LimitsAssumption DEF AtLeastOne
  <2>3. AtLeastOne(ProviderLimit) \in Nat
    BY LimitsAssumption DEF AtLeastOne
  <2>4. ASSUME NEW p \in Plans
        PROVE  Cardinality(LeasedIn({j \in Jobs : PlanOf[j] = p})') <= AtLeastOne(MaxConcurrency[p])
    <3> DEFINE S == {j \in Jobs : PlanOf[j] = p}
    <3>1. S \in SUBSET Jobs /\ Cardinality(LeasedIn(S)) <= AtLeastOne(MaxConcurrency[p])
      BY DEF LimitInv
    <3> HIDE DEF S
    <3>2. Cardinality(LeasedIn(S)') <= AtLeastOne(MaxConcurrency[p])
      BY <2>1, <2>2, <3>1, FewerLeases
    <3> QED
      BY <3>2 DEF S
  <2>5. ASSUME NEW p \in Providers
        PROVE  Cardinality(LeasedIn({j \in LegacyJobs : ProviderOf[j] = p})') <= AtLeastOne(ProviderLimit)
    <3> DEFINE S == {j \in LegacyJobs : ProviderOf[j] = p}
    <3>1. S \in SUBSET Jobs /\ Cardinality(LeasedIn(S)) <= AtLeastOne(ProviderLimit)
      BY JobsAssumption DEF LimitInv
    <3> HIDE DEF S
    <3>2. Cardinality(LeasedIn(S)') <= AtLeastOne(ProviderLimit)
      BY <2>1, <2>3, <3>1, FewerLeases
    <3> QED
      BY <3>2 DEF S
  <2> QED
    BY <2>4, <2>5 DEF LimitInv, LeasedIn
<1> QED
  BY <1>1, <1>2

\* No lease is granted at the start.
LEMMA InitLimits == Init => TaskInv /\ LimitInv
<1> SUFFICES ASSUME Init PROVE TaskInv /\ LimitInv
  OBVIOUS
<1>1. \A j \in Jobs : job[j].lease = 0
  BY DEF Init
<1>2. TaskInv
  BY <1>1 DEF TaskInv, LeaseOK
<1>3. \A S \in SUBSET Jobs : LeasedIn(S) = {}
  BY <1>1 DEF LeasedIn
<1>4. Cardinality({}) = 0
  BY FS_EmptySet
<1>5. \A n \in Nat : AtLeastOne(n) \in Nat
  BY DEF AtLeastOne
<1>6. \A p \in Plans : Cardinality(LeasedIn({j \in Jobs : PlanOf[j] = p})) <= AtLeastOne(MaxConcurrency[p])
  <2> TAKE p \in Plans
  <2>1. LeasedIn({j \in Jobs : PlanOf[j] = p}) = {}
    BY <1>3
  <2>2. AtLeastOne(MaxConcurrency[p]) \in Nat
    BY <1>5, LimitsAssumption
  <2> QED
    BY <1>4, <2>1, <2>2
<1>7. \A p \in Providers :
         Cardinality(LeasedIn({j \in LegacyJobs : ProviderOf[j] = p})) <= AtLeastOne(ProviderLimit)
  <2> TAKE p \in Providers
  <2>1. {j \in LegacyJobs : ProviderOf[j] = p} \in SUBSET Jobs
    BY JobsAssumption
  <2>2. LeasedIn({j \in LegacyJobs : ProviderOf[j] = p}) = {}
    BY <1>3, <2>1
  <2>3. AtLeastOne(ProviderLimit) \in Nat
    BY <1>5, LimitsAssumption
  <2> QED
    BY <1>4, <2>2, <2>3
<1> QED
  BY <1>2, <1>6, <1>7 DEF LimitInv

\* Every active job holds a lease.
LEMMA LimitsImplied == LimitInv => LeasesWithinLimit /\ ProviderWithinLimit
<1>1. ASSUME NEW S \in SUBSET Jobs, NEW limit \in Nat, Cardinality(LeasedIn(S)) <= limit
      PROVE  Cardinality(ActiveIn(job, S)) <= limit
  <2>1. ActiveIn(job, S) \subseteq LeasedIn(S)
    BY DEF ActiveIn, LeasedIn
  <2>2. IsFiniteSet(LeasedIn(S))
    <3>1. LeasedIn(S) \subseteq Jobs
      BY DEF LeasedIn
    <3> QED
      BY <3>1, FS_Subset, JobsAssumption
  <2>3. /\ Cardinality(ActiveIn(job, S)) <= Cardinality(LeasedIn(S))
        /\ IsFiniteSet(ActiveIn(job, S))
    BY <2>1, <2>2, FS_Subset
  <2>4. Cardinality(ActiveIn(job, S)) \in Nat /\ Cardinality(LeasedIn(S)) \in Nat
    BY <2>2, <2>3, FS_CardinalityType
  <2> QED
    BY <1>1, <2>3, <2>4
<1>2. \A n \in Nat : AtLeastOne(n) \in Nat
  BY DEF AtLeastOne
<1>3. LimitInv => LeasesWithinLimit
  BY <1>1, <1>2, LimitsAssumption DEF LimitInv, LeasesWithinLimit
<1>4. LimitInv => ProviderWithinLimit
  <2>1. \A p \in Providers : {j \in LegacyJobs : ProviderOf[j] = p} \in SUBSET Jobs
    BY JobsAssumption
  <2> QED
    BY <1>1, <1>2, <2>1, LimitsAssumption DEF LimitInv, ProviderWithinLimit
<1> QED
  BY <1>3, <1>4

\* Both invariants hold as long as nothing overwrites a claim.
LEMMA LimitInvHolds == Spec /\ [][~ OverwritesClaim]_vars => [](TaskInv /\ LimitInv)
<1>1. TypeOK /\ TypeOK' /\ LeaseInv /\ TaskInv /\ LimitInv /\ [Next]_vars /\ [~ OverwritesClaim]_vars
         => TaskInv' /\ LimitInv'
  <2>1. UNCHANGED vars /\ TaskInv => TaskInv'
    BY Zenon DEF vars, TaskInv, LeaseOK, Alive
  <2>2. UNCHANGED vars /\ LimitInv => LimitInv'
    BY Zenon DEF vars, LimitInv, LeasedIn
  <2> QED
    BY <2>1, <2>2, NextTasks, NextLimits
<1> QED
  BY <1>1, InitLimits, TypeCorrect, LeaseInvHolds, PTL DEF Spec

\* However jobs, plans and claims fall together, the leases in force never
\* exceed the concurrency of a plan, because expired leases are recovered in
\* the transaction that counts the active ones and grants new ones.
THEOREM LeasesWithinLimitHolds == Spec /\ [][~ OverwritesClaim]_vars => []LeasesWithinLimit
  BY LimitInvHolds, LimitsImplied, PTL

\* The same for the legacy jobs of a provider.
THEOREM ProviderWithinLimitHolds == Spec /\ [][~ OverwritesClaim]_vars => []ProviderWithinLimit
  BY LimitInvHolds, LimitsImplied, PTL

-----------------------------------------------------------------------------
(* Cancelled jobs *)

\* A pass grants no lease to a cancelled job, and makes it ready only if its
\* latest attempt was completed.
LEMMA PollCancelled ==
    ASSUME TypeOK, Poll, NEW k \in Jobs, job[k].cancel
    PROVE  /\ job'[k].lease \in {0, job[k].lease}
           /\ job'[k].status = "candidate_ready" /\ job[k].status # "candidate_ready" =>
                 Count(k) > 0 /\ Latest(k).phase = "succeeded"
<1>1. PICK rows, dropped, blocked, taken :
         /\ rows = Requeued(Expired, Unblocked(Expired))
         /\ \A j \in taken : ~ rows[j].cancel /\ WithinLimits(rows, j, taken)
         /\ job' = Walked(rows, dropped, blocked, taken)
  BY PollSteps
<1>2. /\ Expired[k] = IF k \in Stale THEN Recovered(k, vault, FALSE) ELSE job[k]
      /\ Expired[k] \in Job
  BY RecoveredTyped DEF Expired, TypeOK
<1>3. /\ [Expired[k] EXCEPT !.status = "queued", !.dep = FALSE].cancel = Expired[k].cancel
      /\ [Expired[k] EXCEPT !.status = "queued", !.dep = FALSE].status = "queued"
  BY <1>2 DEF Job
<1>4. rows[k] = Expired[k] \/ rows[k] = [Expired[k] EXCEPT !.status = "queued", !.dep = FALSE]
  BY <1>1 DEF Requeued
<1> DEFINE recovered == Recovered(k, vault, FALSE)
<1>5. /\ recovered.cancel = job[k].cancel
      /\ recovered.status = "candidate_ready" => Count(k) > 0 /\ Latest(k).phase = "succeeded"
  BY RecoveredRow
<1>6. Expired[k] = recovered \/ Expired[k] = job[k]
  BY <1>2
<1> HIDE DEF recovered
<1>7. rows[k].cancel = job[k].cancel
  BY <1>3, <1>4, <1>5, <1>6
<1>8. rows[k].status = "candidate_ready" /\ job[k].status # "candidate_ready" =>
         Count(k) > 0 /\ Latest(k).phase = "succeeded"
  BY <1>3, <1>4, <1>5, <1>6
<1>9. rows[k] \in Job /\ rows[k].lease \in {0, job[k].lease}
  BY <1>1, RowsTyped, RowsLease
<1>10. /\ [rows[k] EXCEPT !.status = "cancelled", !.dep = FALSE].lease = rows[k].lease
       /\ [rows[k] EXCEPT !.status = "cancelled", !.dep = FALSE].status = "cancelled"
       /\ [rows[k] EXCEPT !.status = "awaiting_user", !.dep = TRUE].lease = rows[k].lease
       /\ [rows[k] EXCEPT !.status = "awaiting_user", !.dep = TRUE].status = "awaiting_user"
  BY <1>9 DEF Job
<1>11. \/ job'[k] = [rows[k] EXCEPT !.status = "cancelled", !.dep = FALSE]
       \/ job'[k] = [rows[k] EXCEPT !.status = "awaiting_user", !.dep = TRUE]
       \/ job'[k] = rows[k]
  <2>1. k \notin taken
    BY <1>1, <1>7
  <2> QED
    BY <1>1, <2>1 DEF Walked
<1> QED
  BY <1>8, <1>9, <1>10, <1>11

\* A dispatch counts a call of a job without a cancel request.
LEMMA CancelledNotSent ==
    ASSUME TypeOK, Next, NEW k \in Jobs, job[k].cancel
    PROVE  spent'[k] = spent[k]
<1>1. ASSUME NEW t \in Tokens, Dispatch(t) PROVE spent'[k] = spent[k]
  <2>1. exec[t].job # k
    BY <1>1 DEF Dispatch, MayDispatch
  <2> QED
    BY <1>1, <2>1 DEF Dispatch, AddCall, TypeOK, SpentOK
<1> QED
  BY <1>1, SpentChanges

\* A cancelled job that becomes ready does so by recovery, or by a completion
\* that the request overtook.
LEMMA CancelledNotReady ==
    ASSUME TypeOK, Next, NEW k \in Jobs, job[k].cancel,
           job'[k].status = "candidate_ready", job[k].status # "candidate_ready",
           ~ CompletesUnaware(k)
    PROVE  Count(k) > 0 /\ Latest(k).phase = "succeeded" /\ attempts' = attempts
<1>1. CASE Poll
  BY <1>1, PollCancelled DEF Poll
<1>2. CASE Restart
  BY <1>2, RestartRows DEF Restart
<1>3. ASSUME NEW t \in Tokens, Task(t) PROVE FALSE
  BY <1>3, TaskRows DEF RowsKept, NotReady
<1>4. ASSUME NEW t \in Tokens, Heartbeat(t) PROVE FALSE
  BY <1>4, HeartbeatRow
<1>5. ASSUME NEW j \in Jobs, ExpireLease(j) PROVE FALSE
  BY <1>5, ExpiredRow
<1>6. CASE User
  BY <1>6, UserRows DEF DecidedRow
<1> QED
  BY <1>1, <1>2, <1>3, <1>4, <1>5, <1>6 DEF Next, Environment

\* Whatever a cancel request meets, from then to the next decision of a user
\* nothing more is sent for the job and it is not claimed: each transaction that
\* could do so checks cancel_requested under the writer lock.  The job becomes
\* ready only by recovery, which shows a candidate that was completed before,
\* or by a completion that had read its row before the request was written.
THEOREM CancelHoldsHolds == Spec => CancelHolds
<1> DEFINE Holds(j) ==
             /\ spent'[j] = spent[j]
             /\ job'[j].lease \in {0, job[j].lease}
             /\ job'[j].status = "candidate_ready" /\ job[j].status # "candidate_ready" =>
                   \/ Count(j) > 0 /\ Latest(j).phase = "succeeded" /\ attempts' = attempts
                   \/ CompletesUnaware(j)
<1>1. TypeOK /\ TypeOK' /\ Next => \A j \in Jobs : job[j].cancel /\ job'[j].cancel => Holds(j)
  <2> SUFFICES ASSUME TypeOK, TypeOK', Next, NEW j \in Jobs, job[j].cancel
               PROVE  Holds(j)
    OBVIOUS
  <2>1. job'[j].lease \in {0, job[j].lease}
    BY PollCancelled, LeasesOnlyPolled DEF LeasesKept
  <2> QED
    BY <2>1, CancelledNotSent, CancelledNotReady
<1> QED
  BY <1>1, TypeCorrect, PTL DEF Spec, CancelHolds


-----------------------------------------------------------------------------
(* What each step writes to the rows of jobs *)

\* A row keeps its status, its candidate and its pending action.
SameFacts(k) ==
    /\ job'[k].status = job[k].status
    /\ job'[k].result = job[k].result
    /\ job'[k].pending = job[k].pending

Others(j) == \A k \in Jobs \ {j} : job'[k] = job[k]

\* Unchanged rows keep everything.
LEMMA SameJobs == ASSUME job' = job PROVE \A k \in Jobs : SameFacts(k) /\ job'[k].lease = job[k].lease
  BY DEF SameFacts

\* The update of one row.
LEMMA RowWritten ==
    ASSUME TypeOK, NEW j \in Jobs, NEW row, job' = [job EXCEPT ![j] = row]
    PROVE  job'[j] = row /\ Others(j)
  BY DEF TypeOK, Others

\* Steps of a task that leave the facts of every row as they were.
LEMMA BeginFacts ==
    ASSUME TypeOK, NEW t \in Tokens, Begin(t)
    PROVE  /\ exec[t].pc = "claimed" /\ exec[t].job \in Jobs
           /\ \A k \in Jobs : job'[k].lease = job[k].lease
           /\ ~ RejectStaleAction(t) => \A k \in Jobs : SameFacts(k)
           /\ RejectStaleAction(t) =>
                 /\ Others(exec[t].job)
                 /\ job'[exec[t].job].status = job[exec[t].job].status
                 /\ job'[exec[t].job].pending = 0
                 /\ job'[exec[t].job].result = job[exec[t].job].result
<1> DEFINE j == exec[t].job
<1>0. exec[t].pc = "claimed"
  BY Zenon DEF Begin, BeginLost, BeginRepair, RejectStaleAction, PrepareFails, ReuseOutput,
         CallsExhausted, PrepareCall, Preparing
<1>1. j \in Jobs /\ job[j] \in Job
  BY <1>0, TaskHasJob DEF TypeOK, Alive
<1>2. CASE job' = job /\ ~ RejectStaleAction(t)
  BY <1>0, <1>1, <1>2, SameJobs
<1>3. CASE RejectStaleAction(t)
  <2> DEFINE row == [job[j] EXCEPT !.pending = 0]
  <2>1. row.lease = job[j].lease /\ row.status = job[j].status /\ row.pending = 0
        /\ row.result = job[j].result
    BY <1>1 DEF Job
  <2>2. job' = [job EXCEPT ![j] = row]
    BY <1>3 DEF RejectStaleAction
  <2> HIDE DEF row
  <2>3. job'[j] = row /\ Others(j)
    BY <1>1, <2>2, RowWritten
  <2> QED
    BY <1>0, <1>1, <1>3, <2>1, <2>3 DEF Others
<1>4. CASE Resolve(j) /\ ~ RejectStaleAction(t)
  <2> DEFINE row == [job[j] EXCEPT !.resolved = {RequestOf(j)}]
  <2>1. row.lease = job[j].lease /\ row.status = job[j].status /\ row.pending = job[j].pending
        /\ row.result = job[j].result
    BY <1>1 DEF Job
  <2>2. job' = job \/ job' = [job EXCEPT ![j] = row]
    BY <1>4 DEF Resolve
  <2> HIDE DEF row
  <2>3. job' # job => job'[j] = row /\ Others(j)
    BY <1>1, <2>2, RowWritten
  <2>4. job' # job => \A k \in Jobs : SameFacts(k) /\ job'[k].lease = job[k].lease
    BY <2>1, <2>3 DEF Others, SameFacts
  <2> QED
    BY <1>0, <1>1, <1>2, <1>4, <2>4
<1> QED
  BY <1>2, <1>3, <1>4 DEF Begin, BeginLost, BeginRepair, PrepareFails, ReuseOutput,
     CallsExhausted, PrepareCall

\* An attempt changes no row until its result is persisted.
LEMMA AttemptingFacts == ASSUME NEW t \in Tokens, Attempting(t) PROVE job' = job
  BY Zenon DEF Attempting, StartAttempt, StartLost, BuildProvider, FailLocally, Dispatch, RefuseDispatch

\* Answers change a row only when the result is persisted.
LEMMA AnsweredFacts ==
    ASSUME TypeOK, NEW t \in Tokens, Answered(t)
    PROVE  \/ job' = job
           \/ /\ PersistResult(t) /\ exec[t].job \in Jobs /\ Others(exec[t].job)
              /\ job'[exec[t].job].status = "output_received"
              /\ job'[exec[t].job].pending = job[exec[t].job].pending
              /\ job'[exec[t].job].result = job[exec[t].job].result
              /\ job'[exec[t].job].lease = job[exec[t].job].lease
<1> DEFINE j == exec[t].job
<1>1. CASE PersistResult(t)
  <2> DEFINE row == [job[j] EXCEPT !.status = "output_received"]
  <2>1. j \in Jobs /\ job[j] \in Job
    BY <1>1, TaskHasJob DEF TypeOK, Alive, PersistResult
  <2>2. row.status = "output_received" /\ row.pending = job[j].pending /\ row.result = job[j].result
        /\ row.lease = job[j].lease
    BY <2>1 DEF Job
  <2>3. job' = [job EXCEPT ![j] = row]
    BY <1>1 DEF PersistResult
  <2> HIDE DEF row
  <2>4. job'[j] = row /\ Others(j)
    BY <2>1, <2>3, RowWritten
  <2> QED
    BY <1>1, <2>1, <2>2, <2>4
<1>2. CASE ~ PersistResult(t)
  BY <1>2, Zenon DEF Answered, Respond, LoseResponse, CallAgain, ErrorAnswer
<1> QED
  BY <1>1, <1>2

\* A pause takes jobs out of the queue and away from their tasks.
Paused(t) ==
    {k \in SameProvider(exec[t].job) : job[k].status \in {"queued", "running", "output_received"}}

\* The rows after it.
LEMMA PauseFacts ==
    ASSUME TypeOK, NEW t \in Tokens, PauseProviderQueue(t)
    PROVE  /\ exec[t].job \in Jobs /\ exec[t].pc \in {"lock", "pause"}
           /\ \A k \in Jobs \ Paused(t) : job'[k] = job[k]
           /\ \A k \in Paused(t) :
                 /\ job'[k].status = IF exec[t].pc = "lock" THEN "credentials_locked" ELSE "awaiting_user"
                 /\ job'[k].lease = 0
                 /\ job'[k].pending = job[k].pending
                 /\ job'[k].result = job[k].result
<1> DEFINE target == IF exec[t].pc = "lock" THEN "credentials_locked" ELSE "awaiting_user"
           row(k) == [Released(job[k]) EXCEPT !.status = target, !.dep = FALSE]
<1>1. exec[t].job \in Jobs /\ exec[t].pc \in {"lock", "pause"}
  BY TaskHasJob DEF TypeOK, Alive, PauseProviderQueue
<1>2. job' = [k \in Jobs |-> IF k \in Paused(t) THEN row(k) ELSE job[k]]
  BY Zenon DEF PauseProviderQueue, Paused
<1>3. Paused(t) \subseteq Jobs
  BY DEF Paused, SameProvider
<1>4. ASSUME NEW k \in Jobs
      PROVE  row(k).status = target /\ row(k).lease = 0 /\ row(k).pending = job[k].pending
             /\ row(k).result = job[k].result
  <2>1. /\ Released(job[k]) \in Job /\ Released(job[k]).lease = 0
        /\ Released(job[k]).pending = job[k].pending /\ Released(job[k]).result = job[k].result
    BY ReleasedTyped, ReleasedLease DEF TypeOK, Job, Released
  <2> HIDE DEF target
  <2> QED
    BY <2>1 DEF Job
<1> HIDE DEF row, target
<1>5. \A k \in Jobs \ Paused(t) : job'[k] = job[k]
  BY <1>2
<1>6. \A k \in Paused(t) : job'[k] = row(k)
  BY <1>2, <1>3
<1> QED
  BY <1>1, <1>3, <1>4, <1>5, <1>6 DEF target

\* A job set aside.
LEMMA AwaitingFacts ==
    ASSUME TypeOK, NEW t \in Tokens, SetAwaitingUser(t)
    PROVE  /\ exec[t].job \in Jobs /\ Others(exec[t].job)
           /\ job'[exec[t].job].status = "awaiting_user" /\ job'[exec[t].job].lease = 0
           /\ job'[exec[t].job].pending = 0
           /\ job'[exec[t].job].result = job[exec[t].job].result
<1> DEFINE j == exec[t].job
           row == [Released(job[j]) EXCEPT !.status = "awaiting_user", !.dep = FALSE, !.pending = 0]
<1>1. j \in Jobs /\ job[j] \in Job
  BY TaskHasJob DEF TypeOK, Alive, SetAwaitingUser
<1>2. /\ Released(job[j]) \in Job /\ Released(job[j]).lease = 0
      /\ Released(job[j]).result = job[j].result
  BY <1>1, ReleasedTyped, ReleasedLease DEF Job, Released
<1>3. row.status = "awaiting_user" /\ row.lease = 0 /\ row.pending = 0 /\ row.result = job[j].result
  BY <1>2 DEF Job
<1>4. job' = [job EXCEPT ![j] = row]
  BY Zenon DEF SetAwaitingUser
<1> HIDE DEF row
<1>5. job'[j] = row /\ Others(j)
  BY <1>1, <1>4, RowWritten
<1> QED
  BY <1>1, <1>3, <1>5

\* A completed job.
LEMMA CompletedFacts ==
    ASSUME TypeOK, NEW t \in Tokens, CompleteJob(t)
    PROVE  /\ exec[t].job \in Jobs /\ Others(exec[t].job)
           /\ exec[t].pc \in {"completing", "completingRepair"}
           /\ job'[exec[t].job].status
                 = IF exec[t].saw.cancel THEN "cancelled"
                   ELSE IF exec[t].verdict = "fail" THEN "awaiting_user" ELSE "candidate_ready"
           /\ job'[exec[t].job].lease = IF exec[t].saw.leased THEN 0 ELSE job[exec[t].job].lease
           /\ job'[exec[t].job].pending
                 = IF exec[t].saw.pending # 0 THEN 0 ELSE job[exec[t].job].pending
           /\ job'[exec[t].job].result = exec[t].at
<1> DEFINE j == exec[t].job
           outcome == IF exec[t].saw.cancel THEN "cancelled"
                      ELSE IF exec[t].verdict = "fail" THEN "awaiting_user" ELSE "candidate_ready"
           row == Completed(t, outcome)
<1>1. j \in Jobs /\ exec[t].pc \in {"completing", "completingRepair"}
  BY TaskHasJob DEF TypeOK, Alive, CompleteJob
<1>2. job' = [job EXCEPT ![j] = row]
  BY Zenon DEF CompleteJob
<1> HIDE DEF outcome
<1>3. /\ row.status = outcome /\ row.result = exec[t].at
      /\ row.lease = IF exec[t].saw.leased THEN 0 ELSE job[j].lease
      /\ row.pending = IF exec[t].saw.pending # 0 THEN 0 ELSE job[j].pending
  BY <1>1, CompletedRow
<1> HIDE DEF row
<1>4. job'[j] = row /\ Others(j)
  BY <1>1, <1>2, RowWritten
<1> QED
  BY <1>1, <1>3, <1>4 DEF outcome

\* Staging changes the status or the candidate of a row.
LEMMA StagingFacts ==
    ASSUME TypeOK, NEW t \in Tokens, Staging(t), ~ CompleteJob(t)
    PROVE  \/ job' = job
           \/ /\ BeginStaging(t) \/ StageResult(t)
              /\ exec[t].job \in Jobs /\ Others(exec[t].job)
              /\ job'[exec[t].job].status
                    = IF StageResult(t) THEN job[exec[t].job].status ELSE "hard_qa"
              /\ job'[exec[t].job].pending = job[exec[t].job].pending
              /\ job'[exec[t].job].result
                    = IF StageResult(t) THEN exec[t].at ELSE job[exec[t].job].result
              /\ job'[exec[t].job].lease = job[exec[t].job].lease
<1> DEFINE j == exec[t].job
<1>1. CASE BeginStaging(t)
  <2> DEFINE row == [job[j] EXCEPT !.status = "hard_qa"]
  <2>1. j \in Jobs /\ job[j] \in Job /\ ~ StageResult(t)
    BY <1>1, TaskHasJob DEF TypeOK, Alive, BeginStaging, StageResult
  <2>2. row.status = "hard_qa" /\ row.pending = job[j].pending /\ row.result = job[j].result
        /\ row.lease = job[j].lease
    BY <2>1 DEF Job
  <2>3. job' = [job EXCEPT ![j] = row]
    BY <1>1 DEF BeginStaging
  <2> HIDE DEF row
  <2>4. job'[j] = row /\ Others(j)
    BY <2>1, <2>3, RowWritten
  <2> QED
    BY <1>1, <2>1, <2>2, <2>4
<1>2. CASE StageResult(t)
  <2> DEFINE row == [job[j] EXCEPT !.result = exec[t].at]
  <2>1. j \in Jobs /\ job[j] \in Job
    BY <1>2, TaskHasJob DEF TypeOK, Alive, StageResult
  <2>2. row.status = job[j].status /\ row.pending = job[j].pending /\ row.result = exec[t].at
        /\ row.lease = job[j].lease
    BY <2>1 DEF Job
  <2>3. job' = [job EXCEPT ![j] = row]
    BY <1>2 DEF StageResult
  <2> HIDE DEF row
  <2>4. job'[j] = row /\ Others(j)
    BY <2>1, <2>3, RowWritten
  <2> QED
    BY <1>2, <2>1, <2>2, <2>4
<1>3. CASE StageFails(t) \/ CompleteRead(t)
  BY <1>3, Zenon DEF StageFails, CompleteRead
<1> QED
  BY <1>1, <1>2, <1>3 DEF Staging

\* So does a repair.
LEMMA RepairingFacts ==
    ASSUME TypeOK, NEW t \in Tokens, Repairing(t)
    PROVE  \/ job' = job
           \/ /\ RepairBegin(t) \/ RepairStage(t)
              /\ exec[t].job \in Jobs /\ Others(exec[t].job)
              /\ job'[exec[t].job].status
                    = IF RepairStage(t) THEN job[exec[t].job].status ELSE "remediating"
              /\ job'[exec[t].job].pending = job[exec[t].job].pending
              /\ job'[exec[t].job].result
                    = IF RepairStage(t) THEN exec[t].at ELSE job[exec[t].job].result
              /\ job'[exec[t].job].lease = job[exec[t].job].lease
<1> DEFINE j == exec[t].job
<1>1. CASE RepairBegin(t)
  <2> DEFINE row == [job[j] EXCEPT !.status = "remediating"]
  <2>1. j \in Jobs /\ job[j] \in Job /\ ~ RepairStage(t)
    BY <1>1, TaskHasJob DEF TypeOK, Alive, RepairBegin, RepairStage
  <2>2. row.status = "remediating" /\ row.pending = job[j].pending /\ row.result = job[j].result
        /\ row.lease = job[j].lease
    BY <2>1 DEF Job
  <2>3. job' = [job EXCEPT ![j] = row]
    BY <1>1 DEF RepairBegin
  <2> HIDE DEF row
  <2>4. job'[j] = row /\ Others(j)
    BY <2>1, <2>3, RowWritten
  <2> QED
    BY <1>1, <2>1, <2>2, <2>4
<1>2. CASE RepairStage(t)
  <2> DEFINE row == [job[j] EXCEPT !.result = exec[t].at]
  <2>1. j \in Jobs /\ job[j] \in Job
    BY <1>2, TaskHasJob DEF TypeOK, Alive, RepairStage
  <2>2. row.status = job[j].status /\ row.pending = job[j].pending /\ row.result = exec[t].at
        /\ row.lease = job[j].lease
    BY <2>1 DEF Job
  <2>3. job' = [job EXCEPT ![j] = row]
    BY <1>2 DEF RepairStage
  <2> HIDE DEF row
  <2>4. job'[j] = row /\ Others(j)
    BY <2>1, <2>3, RowWritten
  <2> QED
    BY <1>2, <2>1, <2>2, <2>4
<1>3. CASE ~ RepairBegin(t) /\ ~ RepairStage(t)
  BY <1>3, Zenon DEF Repairing, RepairStale, RepairRejected, RepairFails
<1> QED
  BY <1>1, <1>2, <1>3

\* Heartbeats and expiries change neither the facts nor the lease of a row.
LEMMA RenewedFacts ==
    ASSUME TypeOK, (\E t \in Tokens : Heartbeat(t)) \/ (\E j \in Jobs : ExpireLease(j))
    PROVE  \A k \in Jobs : SameFacts(k) /\ job'[k].lease = job[k].lease
<1>1. PICK j \in Jobs, b \in BOOLEAN : job' = [job EXCEPT ![j] = [job[j] EXCEPT !.live = b]]
  BY TaskHasJob DEF TypeOK, Heartbeat, ExpireLease
<1> DEFINE row == [job[j] EXCEPT !.live = b]
<1>2. row.status = job[j].status /\ row.result = job[j].result /\ row.pending = job[j].pending
      /\ row.lease = job[j].lease
  BY DEF TypeOK, Job
<1>3. job' = [job EXCEPT ![j] = row]
  BY <1>1
<1> HIDE DEF row
<1>4. job'[j] = row /\ Others(j)
  BY <1>3, RowWritten
<1> QED
  BY <1>2, <1>4 DEF SameFacts, Others

\* The row after recovery.
LEMMA RecoveredFacts ==
    ASSUME TypeOK, NEW j \in Jobs, NEW unlocked, NEW startup
    PROVE  /\ Recovered(j, unlocked, startup).status = RecoveryTarget(j, unlocked)
           /\ Recovered(j, unlocked, startup).lease = 0
           /\ Recovered(j, unlocked, startup).pending
                 = IF RecoveryTarget(j, unlocked) = "awaiting_user" THEN 0 ELSE job[j].pending
           /\ Recovered(j, unlocked, startup).result
                 = IF startup /\ RecoveryTarget(j, unlocked) = "candidate_ready"
                   THEN Count(j) ELSE job[j].result
<1> DEFINE row == Released(job[j])
           target == RecoveryTarget(j, unlocked)
           p == IF target = "awaiting_user" THEN 0 ELSE row.pending
           r == IF startup /\ target = "candidate_ready" THEN Count(j) ELSE row.result
<1>1. row \in Job /\ row.lease = 0
  BY ReleasedTyped, ReleasedLease DEF TypeOK
<1>2. row.pending = job[j].pending /\ row.result = job[j].result
  BY DEF TypeOK, Job, Released
<1>3. Recovered(j, unlocked, startup)
        = [row EXCEPT !.status = target, !.dep = FALSE, !.pending = p, !.result = r]
  BY DEF Recovered
<1> HIDE DEF row, target, p, r
<1>4. /\ Recovered(j, unlocked, startup).status = target
      /\ Recovered(j, unlocked, startup).lease = 0
      /\ Recovered(j, unlocked, startup).pending = p
      /\ Recovered(j, unlocked, startup).result = r
  BY <1>1, <1>3 DEF Job
<1> QED
  BY <1>2, <1>4 DEF p, r, target

\* What a decision does to a job: nothing, or one of four things.
Unlocks(k) == job[k].status = "credentials_locked" /\ job'[k].status = "queued"
Cancels(k) ==
    /\ job'[k].status = "cancelled"
    /\ job[k].status \in {"queued", "credentials_locked"} \/ OutdatedCancel
Refuses(k) ==
    /\ job[k].pending = 0
    /\ job[k].status \in {"candidate_ready", "awaiting_user", "credentials_locked"}
    /\ job'[k].status = "awaiting_user"
Requeues(k) ==
    /\ job'[k].status \in {"queued", "credentials_locked"}
    /\ job[k].status \in {"awaiting_user", "credentials_locked"} \/ OutdatedResume
    /\ \/ job[k].status = "credentials_locked" \/ StaleResume
       \/ job[k].status = "awaiting_user" /\ (HasOutput(k) \/ RecoverableAction(k))
Accepts(k, kind, resume) ==
    /\ job[k].pending = 0
    /\ job[k].status \in {"candidate_ready", "awaiting_user", "credentials_locked"}
    /\ kind = "retry" /\ Count(k) > 0 =>
          \/ Latest(k).sent \notin {"dispatch_started", "legacy_unknown"}
          \/ OutputValid(Latest(k))
    /\ job'[k].status = IF kind = "await_user" THEN "awaiting_user" ELSE "queued"
    /\ job'[k].pending = IF kind = "await_user" THEN 0 ELSE Len(actions[k]) + 1
    /\ actions'[k] = Append(actions[k], NewAction(k, kind, resume))
Decided(k) ==
    /\ job'[k].result = job[k].result
    /\ \/ \E kind \in Kind : \E resume \in BOOLEAN : Accepts(k, kind, resume)
       \/ /\ actions'[k] = actions[k] /\ job'[k].pending = job[k].pending
          /\ \/ job'[k].status = job[k].status
             \/ Unlocks(k) \/ Cancels(k) \/ Refuses(k) \/ Requeues(k)

\* The row of an accepted action.
LEMMA AcceptedFacts ==
    ASSUME TypeOK, NEW j \in Jobs, NEW kind
    PROVE  /\ Accepting(j, kind).result = job[j].result
           /\ Accepting(j, kind).status = IF kind = "await_user" THEN "awaiting_user" ELSE "queued"
           /\ Accepting(j, kind).pending = IF kind = "await_user" THEN 0 ELSE Len(actions[j]) + 1
<1> DEFINE row == Released(job[j])
           n == IF kind = "await_user" THEN 0 ELSE Len(actions[j]) + 1
           s == IF kind = "await_user" THEN "awaiting_user" ELSE "queued"
<1>1. row \in Job /\ row.result = job[j].result
  BY ReleasedTyped DEF TypeOK, Job, Released
<1>2. Accepting(j, kind) = [row EXCEPT !.cancel = FALSE, !.status = s, !.pending = n]
  BY DEF Accepting
<1> HIDE DEF row, s, n
<1>3. Accepting(j, kind).result = row.result /\ Accepting(j, kind).status = s
      /\ Accepting(j, kind).pending = n
  BY <1>1, <1>2 DEF Job
<1> QED
  BY <1>1, <1>3 DEF s, n

\* A row that does not change, with its actions.
LEMMA UntouchedDecided ==
    ASSUME NEW k \in Jobs, job'[k] = job[k], actions'[k] = actions[k]
    PROVE  Decided(k)
  BY DEF Decided

\* Unlocking a provider.
LEMMA UnlockDecides == ASSUME TypeOK, NEW p \in Providers, Unlock(p) PROVE \A k \in Jobs : Decided(k)
<1> TAKE k \in Jobs
<1> DEFINE row == [job[k] EXCEPT !.status = "queued", !.dep = FALSE]
<1>1. row.status = "queued" /\ row.result = job[k].result /\ row.pending = job[k].pending
  BY DEF TypeOK, Job
<1>2. job'[k] = job[k] \/ (job[k].status = "credentials_locked" /\ job'[k] = row)
  BY DEF Unlock, LockedJobs
<1>3. actions' = actions
  BY DEF Unlock
<1> HIDE DEF row
<1> QED
  BY <1>1, <1>2, <1>3 DEF Decided, Unlocks

\* The write of a cancel request.
LEMMA CancelDecides == ASSUME TypeOK, NEW j \in Jobs, CancelWrite(j) PROVE \A k \in Jobs : Decided(k)
<1> DEFINE early == cancelling[j] \in {"queued", "credentials_locked"}
           s == IF early THEN "cancelled" ELSE job[j].status
           b == IF early THEN FALSE ELSE job[j].dep
           row == [job[j] EXCEPT !.cancel = TRUE, !.status = s, !.dep = b]
<1>1. job' = [job EXCEPT ![j] = row] /\ actions' = actions
  BY DEF CancelWrite
<1>2. s = job[j].status
      \/ (s = "cancelled" /\ (job[j].status \in {"queued", "credentials_locked"} \/ OutdatedCancel))
  BY DEF OutdatedCancel
<1> HIDE DEF s, b
<1>3. row.status = s /\ row.result = job[j].result /\ row.pending = job[j].pending
  BY DEF TypeOK, Job
<1> HIDE DEF row
<1>4. job'[j] = row /\ Others(j)
  BY <1>1, RowWritten
<1> QED
  BY <1>1, <1>2, <1>3, <1>4 DEF Decided, Cancels, Others

\* A decision beyond the budget.
LEMMA RefuseDecides == ASSUME TypeOK, NEW j \in Jobs, RefuseOverBudget(j) PROVE \A k \in Jobs : Decided(k)
<1> DEFINE row == [job[j] EXCEPT !.status = "awaiting_user"]
<1>1. job' = [job EXCEPT ![j] = row] /\ actions' = actions
  BY DEF RefuseOverBudget
<1>2. row.status = "awaiting_user" /\ row.result = job[j].result /\ row.pending = job[j].pending
  BY DEF TypeOK, Job
<1>3. job[j].pending = 0 /\ job[j].status \in {"candidate_ready", "awaiting_user", "credentials_locked"}
  BY DEF RefuseOverBudget, Decidable
<1> HIDE DEF row
<1>4. job'[j] = row /\ Others(j)
  BY <1>1, RowWritten
<1> QED
  BY <1>1, <1>2, <1>3, <1>4 DEF Decided, Refuses, Others

\* An accepted decision.
LEMMA RemediateDecides ==
    ASSUME TypeOK, NEW j \in Jobs, NEW kind \in ActionKinds, Remediate(j, kind)
    PROVE  \A k \in Jobs : Decided(k)
<1>1. kind \in Kind
  BY BoundsAssumption DEF Kind
<1>2. /\ job' = [job EXCEPT ![j] = Accepting(j, kind)]
      /\ actions' = [actions EXCEPT ![j] = Append(actions[j], NewAction(j, kind, FALSE))]
      /\ Decidable(j, kind)
  BY DEF Remediate
<1>3. job'[j] = Accepting(j, kind) /\ Others(j)
  BY <1>2, RowWritten
<1>4. actions'[j] = Append(actions[j], NewAction(j, kind, FALSE))
      /\ \A k \in Jobs \ {j} : actions'[k] = actions[k]
  BY <1>2 DEF TypeOK
<1>5. /\ job'[j].result = job[j].result
      /\ job'[j].status = IF kind = "await_user" THEN "awaiting_user" ELSE "queued"
      /\ job'[j].pending = IF kind = "await_user" THEN 0 ELSE Len(actions[j]) + 1
  <2>1. /\ Accepting(j, kind).result = job[j].result
        /\ Accepting(j, kind).status = IF kind = "await_user" THEN "awaiting_user" ELSE "queued"
        /\ Accepting(j, kind).pending = IF kind = "await_user" THEN 0 ELSE Len(actions[j]) + 1
    BY AcceptedFacts
  <2> QED
    BY <1>3, <2>1
<1>6. Accepts(j, kind, FALSE)
  BY <1>2, <1>4, <1>5, Zenon DEF Accepts, Decidable
<1> QED
  BY <1>1, <1>3, <1>4, <1>5, <1>6 DEF Decided, Others

\* The retry that resuming accepts.
LEMMA ResumedAccepts ==
    ASSUME TypeOK, NEW j \in Jobs, ResumesUnsent(j), job'[j] = Accepting(j, "retry"),
           actions'[j] = Append(actions[j], NewAction(j, "retry", TRUE))
    PROVE  Decided(j)
<1>1. Accepts(j, "retry", TRUE) /\ job'[j].result = job[j].result
  BY AcceptedFacts DEF Accepts, ResumesUnsent
<1> QED
  BY <1>1 DEF Decided, Kind

\* Resuming one job.
LEMMA ResumeDecides == ASSUME TypeOK, NEW j \in Jobs, ResumeJob(j) PROVE \A k \in Jobs : Decided(k)
<1> DEFINE locked == job[j].status = "credentials_locked"
           retry == ~ locked /\ ResumesUnsent(j)
           recoverable == ~ locked /\ (HasOutput(j) \/ RecoverableAction(j))
           s == IF ProviderOf[j] \in vault \/ recoverable THEN "queued" ELSE "credentials_locked"
           row == [job[j] EXCEPT !.cancel = FALSE, !.status = s]
<1>1. /\ job' = [job EXCEPT ![j] = IF retry THEN Accepting(j, "retry") ELSE row]
      /\ actions' = IF retry THEN [actions EXCEPT ![j] = Append(actions[j], NewAction(j, "retry", TRUE))]
                    ELSE actions
      /\ job[j].status \in {"awaiting_user", "credentials_locked"}
      /\ retry \/ locked \/ recoverable
  BY DEF ResumeJob
<1>2. job'[j] = (IF retry THEN Accepting(j, "retry") ELSE row) /\ Others(j)
  BY <1>1, RowWritten
<1>3. CASE retry
  <2>1. actions'[j] = Append(actions[j], NewAction(j, "retry", TRUE))
        /\ \A k \in Jobs \ {j} : actions'[k] = actions[k]
    BY <1>1, <1>3 DEF TypeOK
  <2> QED
    BY <1>2, <1>3, <2>1, ResumedAccepts, UntouchedDecided DEF Others
<1>4. CASE ~ retry
  <2>1. s \in {"queued", "credentials_locked"}
    OBVIOUS
  <2> HIDE DEF s
  <2>2. row.status = s /\ row.result = job[j].result /\ row.pending = job[j].pending
    BY DEF TypeOK, Job
  <2>3. actions' = actions /\ job'[j] = row
    BY <1>1, <1>2, <1>4
  <2>4. \/ job[j].status = "credentials_locked"
        \/ job[j].status = "awaiting_user" /\ (HasOutput(j) \/ RecoverableAction(j))
    BY <1>1, <1>4
  <2> HIDE DEF row, recoverable, locked, retry
  <2>5. Decided(j)
    BY <2>1, <2>2, <2>3, <2>4 DEF Decided, Requeues
  <2> QED
    BY <1>2, <2>3, <2>5, UntouchedDecided DEF Others
<1> QED
  BY <1>3, <1>4

\* Resuming the jobs of a plan.
LEMMA ResumePlanDecides == ASSUME TypeOK, NEW p \in Plans, ResumePlan(p) PROVE \A k \in Jobs : Decided(k)
<1> DEFINE members == {j \in Jobs : PlanOf[j] = p}
           retried == {j \in members : ResumesUnsent(j) /\ ~ ResumedBefore(j)}
           requeued == Resumed(p)
<1> TAKE k \in Jobs
<1> DEFINE row == [Released(job[k]) EXCEPT !.status = "queued"]
<1>1. /\ job'[k] = IF k \in retried THEN Accepting(k, "retry")
                   ELSE IF k \in requeued THEN row ELSE job[k]
      /\ actions'[k] = IF k \in retried THEN Append(actions[k], NewAction(k, "retry", TRUE)) ELSE actions[k]
  BY DEF ResumePlan
<1>2. row.status = "queued" /\ row.result = job[k].result /\ row.pending = job[k].pending
  <2>1. Released(job[k]) \in Job /\ Released(job[k]).result = job[k].result
        /\ Released(job[k]).pending = job[k].pending
    BY ReleasedTyped DEF TypeOK, Job, Released
  <2> QED
    BY <2>1 DEF Job
<1> HIDE DEF row
<1>3. CASE k \in retried
  BY <1>1, <1>3, ResumedAccepts
<1>4. CASE k \notin retried /\ k \in requeued
  <2>1. job'[k] = row /\ actions'[k] = actions[k]
    BY <1>1, <1>4
  <2>2. \/ job[k].status = "credentials_locked"
        \/ job[k].status = "awaiting_user" /\ (HasOutput(k) \/ RecoverableAction(k))
    BY <1>4 DEF Resumed, Resumable
  <2> HIDE DEF requeued, retried
  <2> QED
    BY <1>2, <2>1, <2>2 DEF Decided, Requeues
<1>5. CASE k \notin retried /\ k \notin requeued
  BY <1>1, <1>5, UntouchedDecided
<1> QED
  BY <1>3, <1>4, <1>5

\* An unlock or a resumption that something overtakes.
LEMMA OvertakenDecides == ASSUME TypeOK, Overtaken PROVE \A k \in Jobs : Decided(k)
<1> TAKE k \in Jobs
<1>1. actions' = actions
  BY DEF Overtaken, Reads, UnlockRead, ResumeRead, ResumePlanRead, ResumeWrite
<1>2. job' = job \/ ResumeWrite
  BY DEF Overtaken, Reads, UnlockRead, ResumeRead, ResumePlanRead
<1>3. CASE job' = job
  BY <1>1, <1>3, UntouchedDecided
<1>4. CASE ResumeWrite
  <2>1. /\ job'[k].status = IF k \in resuming.queue THEN "queued" ELSE job[k].status
        /\ job'[k].pending = job[k].pending /\ job'[k].result = job[k].result
    BY <1>4, ResumedColumns
  <2>2. k \in resuming.queue => Requeues(k)
    BY <1>4, <2>1 DEF Requeues, OutdatedResume, StaleResume, Resumable
  <2> QED
    BY <1>1, <2>1, <2>2 DEF Decided
<1> QED
  BY <1>2, <1>3, <1>4

\* What the users do to the jobs.
LEMMA UserFacts ==
    ASSUME TypeOK, User
    PROVE  exec' = exec /\ attempts' = attempts /\ \A k \in Jobs : Decided(k)
<1>1. exec' = exec /\ attempts' = attempts
  BY Zenon DEF User, Unlock, Lock, CancelRead, CancelWrite, RefuseOverBudget, Remediate, ResumeJob,
     ResumePlan, Overtaken, Reads, UnlockRead, ResumeRead, ResumePlanRead, ResumeWrite
<1>2. ASSUME job' = job, actions' = actions PROVE \A k \in Jobs : Decided(k)
  BY <1>2, UntouchedDecided
<1> QED
  BY <1>1, <1>2, UnlockDecides, CancelDecides, RefuseDecides, RemediateDecides, ResumeDecides,
     ResumePlanDecides, OvertakenDecides, Zenon DEF User, Lock, CancelRead

\* A restart recovers the jobs in leased statuses and ends every task.
LEMMA RestartFacts ==
    ASSUME TypeOK, Restart
    PROVE  /\ attempts' = attempts
           /\ \A t \in Tokens : exec'[t].pc \in {"unused", "done"}
           /\ \A k \in Jobs :
                 IF job[k].status \in Leased
                 THEN job'[k] = Recovered(k, {}, TRUE) /\ actions'[k] = RecoveredActions(k, {})
                 ELSE job'[k] = job[k] /\ actions'[k] = actions[k]
<1>1. \A k \in Jobs : job'[k] = IF job[k].status \in Leased THEN Recovered(k, {}, TRUE) ELSE job[k]
  BY Zenon DEF Restart
<1>2. \A k \in Jobs : actions'[k] = IF job[k].status \in Leased THEN RecoveredActions(k, {}) ELSE actions[k]
  BY Zenon DEF Restart
<1>3. \A t \in Tokens : exec'[t].pc \in {"unused", "done"}
  <2>1. Finished.pc = "done"
    BY DEF Finished, Idle
  <2> QED
    BY <2>1 DEF Restart, Alive
<1>4. attempts' = attempts
  BY Zenon DEF Restart
<1> QED
  BY <1>1, <1>2, <1>3, <1>4

\* What a pass does to a row: an expired lease is recovered, and a job in the
\* queue may be claimed, dropped, blocked, or left there.
Swept(k) == IF k \in Stale THEN Recovered(k, vault, FALSE) ELSE job[k]
Queueing(k) == Swept(k).status = "queued" \/ (Swept(k).status = "awaiting_user" /\ Count(k) = 0)
PolledRow(k) ==
    /\ job'[k].pending = Swept(k).pending /\ job'[k].result = Swept(k).result
    /\ actions'[k] = IF k \in Stale THEN RecoveredActions(k, vault) ELSE actions[k]
    /\ \/ job'[k].status = Swept(k).status /\ job'[k].lease = Swept(k).lease
       \/ /\ Queueing(k) /\ job'[k].lease = Swept(k).lease
          /\ job'[k].status \in {"queued", "cancelled", "awaiting_user"}
       \/ Queueing(k) /\ job'[k].status = "running" /\ job'[k].lease # 0

\* The task of a token after a pass: the one it had, or a new one whose job has
\* the token as its lease.
PolledTask(t) ==
    \/ exec'[t] = exec[t] /\ \A k \in Jobs : job'[k].lease = t => job[k].lease = t /\ k \notin Stale
    \/ /\ t > claims /\ exec'[t].pc = "claimed" /\ exec'[t].job \in Jobs
       /\ exec'[t].req.action = 0 /\ exec'[t].act = 0
       /\ job'[exec'[t].job].lease = t /\ Queueing(exec'[t].job)

\* The row that a pass takes a lease from is no longer leased.
LEMMA SweptFacts ==
    ASSUME TypeOK, NEW k \in Jobs
    PROVE  Swept(k) \in Job /\ Swept(k).lease \in {0, job[k].lease} /\ (k \in Stale => Swept(k).lease = 0)
  BY RecoveredTyped, RecoveredFacts DEF TypeOK, Swept

\* A requeued row.
LEMMA RequeuedFacts ==
    ASSUME TypeOK, NEW rows, rows = Requeued(Expired, Unblocked(Expired)), NEW k \in Jobs
    PROVE  /\ rows[k] \in Job
           /\ rows[k].lease = Swept(k).lease
           /\ rows[k].pending = Swept(k).pending
           /\ rows[k].result = Swept(k).result
           /\ rows[k].status = Swept(k).status \/ rows[k].status = "queued"
           /\ rows[k].status = "queued" => Queueing(k)
<1> DEFINE row == [Expired[k] EXCEPT !.status = "queued", !.dep = FALSE]
<1>1. Expired[k] = Swept(k) /\ Swept(k) \in Job
  BY SweptFacts DEF Expired, Swept
<1>2. row.status = "queued" /\ row.lease = Swept(k).lease /\ row.pending = Swept(k).pending
      /\ row.result = Swept(k).result
  BY <1>1 DEF Job
<1>3. rows[k] = IF k \in Unblocked(Expired) THEN row ELSE Expired[k]
  BY DEF Requeued
<1>4. k \in Unblocked(Expired) => Expired[k].status = "awaiting_user" /\ Count(k) = 0
  BY DEF Unblocked
<1>5. rows[k] \in Job
  BY RowsTyped
<1> HIDE DEF row
<1> QED
  BY <1>1, <1>2, <1>3, <1>4, <1>5 DEF Queueing

\* A pass of the claim loop.
LEMMA PollFacts ==
    ASSUME TypeOK, Poll
    PROVE  /\ attempts' = attempts
           /\ \A k \in Jobs : PolledRow(k)
           /\ \A t \in Tokens : PolledTask(t)
<1>1. PICK rows, dropped, blocked, taken :
         /\ rows = Requeued(Expired, Unblocked(Expired))
         /\ dropped \cup blocked \cup taken \subseteq {j \in Jobs : rows[j].status = "queued"}
         /\ taken \cap (dropped \cup blocked) = {}
         /\ job' = Walked(rows, dropped, blocked, taken)
         /\ actions' = [j \in Jobs |-> IF j \in Stale THEN RecoveredActions(j, vault)
                                                      ELSE actions[j]]
         /\ exec' = [t \in Tokens |->
                       IF \E j \in taken : TokenOf(taken, j) = t
                       THEN Claimed(CHOOSE j \in taken : TokenOf(taken, j) = t)
                       ELSE exec[t]]
         /\ attempts' = attempts
  BY PollSteps
<1>2. taken \in SUBSET Jobs
  BY <1>1
<1>3. ASSUME NEW k \in Jobs
      PROVE  /\ job'[k].pending = Swept(k).pending /\ job'[k].result = Swept(k).result
             /\ \/ job'[k].status = rows[k].status
                \/ rows[k].status = "queued" /\ job'[k].status \in {"cancelled", "awaiting_user"}
                \/ k \in taken
             /\ job'[k].lease = IF k \in taken THEN TokenOf(taken, k) ELSE Swept(k).lease
             /\ k \in taken => job'[k].status = "running" /\ rows[k].status = "queued"
  <2> DEFINE d == [rows[k] EXCEPT !.status = "cancelled", !.dep = FALSE]
             b == [rows[k] EXCEPT !.status = "awaiting_user", !.dep = TRUE]
             n == TokenOf(taken, k)
             c == [rows[k] EXCEPT !.status = "running", !.live = TRUE, !.lease = n]
  <2>1. /\ rows[k] \in Job /\ rows[k].lease = Swept(k).lease /\ rows[k].pending = Swept(k).pending
        /\ rows[k].result = Swept(k).result
    BY <1>1, RequeuedFacts
  <2>2. job'[k] = IF k \in dropped THEN d ELSE IF k \in blocked THEN b ELSE IF k \in taken THEN c ELSE rows[k]
    BY <1>1 DEF Walked
  <2> HIDE DEF n
  <2>3. d.status = "cancelled" /\ d.lease = rows[k].lease /\ d.pending = rows[k].pending
        /\ d.result = rows[k].result
    BY <2>1 DEF Job
  <2>4. b.status = "awaiting_user" /\ b.lease = rows[k].lease /\ b.pending = rows[k].pending
        /\ b.result = rows[k].result
    BY <2>1 DEF Job
  <2>5. c.status = "running" /\ c.lease = n /\ c.pending = rows[k].pending /\ c.result = rows[k].result
    BY <2>1 DEF Job
  <2> HIDE DEF d, b, c
  <2>6. k \in dropped \cup blocked \cup taken => rows[k].status = "queued"
    BY <1>1
  <2>7. k \in taken => k \notin dropped /\ k \notin blocked
    BY <1>1
  <2> QED
    BY <2>1, <2>2, <2>3, <2>4, <2>5, <2>6, <2>7 DEF n
<1>4. ASSUME NEW k \in Jobs PROVE PolledRow(k)
  <2>1. /\ rows[k].status = Swept(k).status \/ rows[k].status = "queued"
        /\ rows[k].status = "queued" => Queueing(k)
    BY <1>1, RequeuedFacts
  <2>2. actions'[k] = IF k \in Stale THEN RecoveredActions(k, vault) ELSE actions[k]
    BY <1>1
  <2>3. k \in taken => TokenOf(taken, k) # 0
    <3> SUFFICES ASSUME k \in taken PROVE TokenOf(taken, k) # 0
      OBVIOUS
    <3>1. claims < TokenOf(taken, k) /\ TokenOf(taken, k) \in Nat /\ claims \in Nat
      BY <1>2, NewToken, TokenTyped DEF TypeOK
    <3> QED
      BY <3>1
  <2> QED
    BY <1>3, <2>1, <2>2, <2>3 DEF PolledRow
<1>5. ASSUME NEW t \in Tokens PROVE PolledTask(t)
  <2>1. CASE \E j \in taken : TokenOf(taken, j) = t
    <3>1. PICK c \in taken : TokenOf(taken, c) = t /\ exec'[t] = Claimed(c)
      BY <1>1, <2>1
    <3>2. /\ c \in Jobs /\ Claimed(c).job = c /\ Claimed(c).pc = "claimed"
          /\ Claimed(c).req.action = 0 /\ Claimed(c).act = 0
      BY <1>2 DEF Claimed, Idle, NoRequest
    <3>3. job'[c].lease = t /\ Queueing(c)
      BY <1>1, <1>3, <3>1, <3>2, RequeuedFacts
    <3>4. t > claims
      <4>1. claims < TokenOf(taken, c) /\ TokenOf(taken, c) \in Nat /\ claims \in Nat
        BY <1>2, <3>1, NewToken, TokenTyped DEF TypeOK
      <4> QED
        BY <3>1, <4>1
    <3> QED
      BY <3>1, <3>2, <3>3, <3>4 DEF PolledTask
  <2>2. CASE ~ \E j \in taken : TokenOf(taken, j) = t
    <3>1. exec'[t] = exec[t] /\ t # 0
      BY <1>1, <2>2 DEF Tokens
    <3>2. ASSUME NEW k \in Jobs, job'[k].lease = t PROVE job[k].lease = t /\ k \notin Stale
      BY <1>3, <2>2, <3>1, <3>2, SweptFacts
    <3> QED
      BY <3>1, <3>2 DEF PolledTask
  <2> QED
    BY <2>1, <2>2
<1> QED
  BY <1>1, <1>4, <1>5

-----------------------------------------------------------------------------
(* Where each step takes its task *)

\* Only one task moves; it keeps its job, its attempt, its request and its action.
OthersStay(t) == \A u \in Tokens \ {t} : exec'[u] = exec[u]
SameWork(t) ==
    /\ exec'[t].job = exec[t].job
    /\ exec'[t].at = exec[t].at
    /\ exec'[t].req = exec[t].req
    /\ exec'[t].fresh = exec[t].fresh
    /\ exec'[t].act = exec[t].act
Goes(t, p) == OthersStay(t) /\ exec'[t].pc = p /\ SameWork(t)
Ends(t) == OthersStay(t) /\ exec'[t].pc = "done"

\* The record of one task is replaced.
LEMMA TaskWritten ==
    ASSUME TypeOK, NEW t \in Tokens, NEW e, exec' = [exec EXCEPT ![t] = e]
    PROVE  exec'[t] = e /\ OthersStay(t)
  BY DEF TypeOK, ExecutorsOK, OthersStay

\* A task that goes to a position.
LEMMA Gone ==
    ASSUME TypeOK, NEW t \in Tokens, NEW p, Goto(t, p)
    PROVE  Goes(t, p)
<1> DEFINE e == [exec[t] EXCEPT !.pc = p]
<1>1. exec' = [exec EXCEPT ![t] = e] /\ exec[t] \in Executor
  BY DEF Goto, TypeOK, ExecutorsOK
<1>2. e.pc = p /\ e.job = exec[t].job /\ e.at = exec[t].at /\ e.req = exec[t].req
      /\ e.fresh = exec[t].fresh /\ e.act = exec[t].act
  BY <1>1 DEF Executor
<1> HIDE DEF e
<1>3. exec'[t] = e /\ OthersStay(t)
  BY <1>1, TaskWritten
<1> QED
  BY <1>2, <1>3 DEF Goes, SameWork

\* A failure keeps its class.
LEMMA FailingGoes ==
    ASSUME TypeOK, NEW t \in Tokens, NEW x, Failing(t, x)
    PROVE  Goes(t, "failed") /\ exec'[t].err = x
<1> DEFINE e == [exec[t] EXCEPT !.pc = "failed", !.err = x]
<1>1. exec' = [exec EXCEPT ![t] = e] /\ exec[t] \in Executor
  BY DEF Failing, TypeOK, ExecutorsOK
<1>2. e.pc = "failed" /\ e.job = exec[t].job /\ e.at = exec[t].at /\ e.req = exec[t].req
      /\ e.fresh = exec[t].fresh /\ e.act = exec[t].act /\ e.err = x
  BY <1>1 DEF Executor
<1> HIDE DEF e
<1>3. exec'[t] = e /\ OthersStay(t)
  BY <1>1, TaskWritten
<1> QED
  BY <1>2, <1>3 DEF Goes, SameWork

\* The end of a task.
LEMMA Ended ==
    ASSUME TypeOK, NEW t \in Tokens, Finish(t)
    PROVE  Ends(t)
<1>1. Finished.pc = "done"
  BY DEF Finished, Idle
<1>2. exec'[t] = Finished /\ OthersStay(t)
  BY TaskWritten DEF Finish
<1> QED
  BY <1>1, <1>2 DEF Ends

\* The preparation of a claim.
LEMMA BeginGoes ==
    ASSUME TypeOK, NEW t \in Tokens, Begin(t)
    PROVE  \/ BeginLost(t) /\ Ends(t)
           \/ /\ BeginRepair(t) /\ OthersStay(t) /\ exec'[t].pc = "repair"
              /\ exec'[t].job = exec[t].job /\ exec'[t].act = job[exec[t].job].pending
              /\ exec'[t].req = exec[t].req
           \/ (RejectStaleAction(t) \/ PrepareFails(t) \/ CallsExhausted(t)) /\ Goes(t, "giveup")
           \/ /\ ReuseOutput(t) /\ OthersStay(t) /\ exec'[t].job = exec[t].job /\ ~ exec'[t].fresh
              /\ exec'[t].req = exec[t].req /\ exec'[t].act = exec[t].act
              /\ exec'[t].at \in Reusable(exec[t].job, RequestOf(exec[t].job))
              /\ exec'[t].pc = IF attempts[exec[t].job][exec'[t].at].phase = "succeeded"
                               THEN "reuse" ELSE "stage"
           \/ /\ PrepareCall(t) /\ OthersStay(t) /\ exec'[t].job = exec[t].job
              /\ exec'[t].pc = "start" /\ exec'[t].req = RequestOf(exec[t].job)
              /\ exec'[t].act = exec[t].act
<1> DEFINE j == exec[t].job
<1>0. exec[t] \in Executor
  BY DEF TypeOK, ExecutorsOK
<1>1. CASE BeginLost(t)
  BY <1>1, Ended DEF BeginLost
<1>2. CASE BeginRepair(t)
  <2> DEFINE e == [exec[t] EXCEPT !.pc = "repair", !.act = job[j].pending]
  <2>1. e.pc = "repair" /\ e.job = exec[t].job /\ e.act = job[j].pending /\ e.req = exec[t].req
    BY <1>0 DEF Executor
  <2>2. exec' = [exec EXCEPT ![t] = e]
    BY <1>2 DEF BeginRepair
  <2> HIDE DEF e
  <2>3. exec'[t] = e /\ OthersStay(t)
    BY <2>2, TaskWritten
  <2> QED
    BY <1>2, <2>1, <2>3
<1>3. CASE RejectStaleAction(t) \/ PrepareFails(t) \/ CallsExhausted(t)
  BY <1>3, Gone DEF RejectStaleAction, PrepareFails, CallsExhausted
<1>4. CASE ReuseOutput(t)
  <2>1. PICK n \in Reusable(j, RequestOf(j)) :
           exec' = [exec EXCEPT ![t] = [exec[t] EXCEPT
                      !.pc = IF attempts[j][n].phase = "succeeded" THEN "reuse" ELSE "stage",
                      !.at = n, !.fresh = FALSE, !.verdict = "none"]]
    BY <1>4 DEF ReuseOutput
  <2> DEFINE p == IF attempts[j][n].phase = "succeeded" THEN "reuse" ELSE "stage"
             e == [exec[t] EXCEPT !.pc = p, !.at = n, !.fresh = FALSE, !.verdict = "none"]
  <2>2. exec' = [exec EXCEPT ![t] = e]
    BY <2>1
  <2> HIDE DEF p
  <2>3. e.pc = p /\ e.at = n /\ e.fresh = FALSE /\ e.job = exec[t].job
        /\ e.req = exec[t].req /\ e.act = exec[t].act
    BY <1>0 DEF Executor
  <2> HIDE DEF e
  <2>4. exec'[t] = e /\ OthersStay(t)
    BY <2>2, TaskWritten
  <2> QED
    BY <1>4, <2>3, <2>4 DEF p
<1>5. CASE PrepareCall(t)
  <2> DEFINE r == RequestOf(j)
             m == MaxTransportRetries + 1 - Spent(j, r)
             e == [exec[t] EXCEPT !.pc = "start", !.req = r, !.left = m]
  <2>1. exec' = [exec EXCEPT ![t] = e]
    BY <1>5 DEF PrepareCall
  <2> HIDE DEF r, m
  <2>2. e.pc = "start" /\ e.req = r /\ e.job = exec[t].job /\ e.act = exec[t].act
    BY <1>0 DEF Executor
  <2> HIDE DEF e
  <2>3. exec'[t] = e /\ OthersStay(t)
    BY <2>1, TaskWritten
  <2> QED
    BY <1>5, <2>2, <2>3 DEF r
<1> QED
  BY <1>1, <1>2, <1>3, <1>4, <1>5, Zenon DEF Begin

\* An attempt up to the moment it is sent.
LEMMA AttemptingGoes ==
    ASSUME TypeOK, NEW t \in Tokens, Attempting(t)
    PROVE  \/ /\ StartAttempt(t) /\ OthersStay(t) /\ exec'[t].pc = "build" /\ exec'[t].fresh
              /\ exec'[t].job = exec[t].job /\ exec'[t].at = Count(exec[t].job) + 1
              /\ exec'[t].req = exec[t].req /\ exec'[t].act = exec[t].act
           \/ StartLost(t) /\ Goes(t, "giveup")
           \/ BuildProvider(t) /\ (Goes(t, "invoke") \/ (Goes(t, "failed") /\ exec'[t].err = "auth"))
           \/ FailLocally(t) /\ Goes(t, "failed")
           \/ Dispatch(t) /\ Goes(t, "sent")
           \/ RefuseDispatch(t) /\ Goes(t, "failed")
<1> DEFINE j == exec[t].job
<1>0. exec[t] \in Executor
  BY DEF TypeOK, ExecutorsOK
<1>1. CASE StartAttempt(t)
  <2> DEFINE n == Count(j) + 1
             e == [exec[t] EXCEPT !.pc = "build", !.at = n, !.fresh = TRUE]
  <2>1. exec' = [exec EXCEPT ![t] = e]
    BY <1>1 DEF StartAttempt
  <2> HIDE DEF n
  <2>2. e.pc = "build" /\ e.at = n /\ e.fresh = TRUE /\ e.job = exec[t].job /\ e.req = exec[t].req
        /\ e.act = exec[t].act
    BY <1>0 DEF Executor
  <2> HIDE DEF e
  <2>3. exec'[t] = e /\ OthersStay(t)
    BY <2>1, TaskWritten
  <2> QED
    BY <1>1, <2>2, <2>3 DEF n
<1>2. CASE StartLost(t)
  BY <1>2, Gone DEF StartLost
<1>3. CASE BuildProvider(t)
  BY <1>3, Gone, FailingGoes DEF BuildProvider
<1>4. CASE FailLocally(t)
  BY <1>4, FailingGoes DEF FailLocally
<1>5. CASE Dispatch(t)
  BY <1>5, Gone DEF Dispatch
<1>6. CASE RefuseDispatch(t)
  BY <1>6, FailingGoes DEF RefuseDispatch
<1> QED
  BY <1>1, <1>2, <1>3, <1>4, <1>5, <1>6, Zenon DEF Attempting

\* Its answer.
LEMMA AnsweredGoes ==
    ASSUME TypeOK, NEW t \in Tokens, Answered(t)
    PROVE  \/ Respond(t) /\ Goes(t, "responded")
           \/ /\ LoseResponse(t)
              /\ Goes(t, "giveup") \/ (Goes(t, "failed") /\ exec'[t].err = "retryable")
           \/ CallAgain(t) /\ Goes(t, "invoke")
           \/ ErrorAnswer(t) /\ Goes(t, "failed")
           \/ PersistResult(t) /\ Goes(t, "stage")
<1>1. CASE Respond(t)
  BY <1>1, Gone DEF Respond
<1>2. CASE LoseResponse(t)
  BY <1>2, Gone, FailingGoes DEF LoseResponse
<1>3. CASE CallAgain(t)
  BY <1>3, Gone DEF CallAgain
<1>4. CASE ErrorAnswer(t)
  BY <1>4, FailingGoes DEF ErrorAnswer
<1>5. CASE PersistResult(t)
  BY <1>5, Gone DEF PersistResult
<1> QED
  BY <1>1, <1>2, <1>3, <1>4, <1>5, Zenon DEF Answered

\* What the task does about an error.
LEMMA SettlingGoes ==
    ASSUME TypeOK, NEW t \in Tokens, Settling(t)
    PROVE  \/ /\ FinishAttemptError(t)
              /\ Goes(t, AfterError(exec[t].err, attempts[exec[t].job][exec[t].at].sent, exec[t].left))
           \/ (PauseProviderQueue(t) \/ SetAwaitingUser(t)) /\ Ends(t)
<1> DEFINE j == exec[t].job
<1>1. CASE FinishAttemptError(t)
  <2> DEFINE p == AfterError(exec[t].err, attempts[j][exec[t].at].sent, exec[t].left)
             m == IF exec[t].left > 0 THEN exec[t].left - 1 ELSE 0
             e == [exec[t] EXCEPT !.pc = p, !.left = m]
  <2>1. exec' = [exec EXCEPT ![t] = e] /\ exec[t] \in Executor
    BY <1>1 DEF FinishAttemptError, TypeOK, ExecutorsOK
  <2> HIDE DEF p, m
  <2>2. e.pc = p /\ e.job = exec[t].job /\ e.at = exec[t].at /\ e.req = exec[t].req
        /\ e.fresh = exec[t].fresh /\ e.act = exec[t].act
    BY <2>1 DEF Executor
  <2> HIDE DEF e
  <2>3. exec'[t] = e /\ OthersStay(t)
    BY <2>1, TaskWritten
  <2> QED
    BY <1>1, <2>2, <2>3 DEF Goes, SameWork, p
<1>2. CASE PauseProviderQueue(t)
  BY <1>2, Ended DEF PauseProviderQueue
<1>3. CASE SetAwaitingUser(t)
  BY <1>3, Ended DEF SetAwaitingUser
<1> QED
  BY <1>1, <1>2, <1>3, Zenon DEF Settling

\* Staging and completion.
LEMMA StagingGoes ==
    ASSUME TypeOK, NEW t \in Tokens, Staging(t)
    PROVE  \/ BeginStaging(t) /\ Goes(t, "staging")
           \/ /\ StageFails(t)
              /\ Goes(t, "giveup") \/ (Goes(t, "failed") /\ exec[t].fresh /\ exec'[t].err = "final")
           \/ StageResult(t) /\ Goes(t, "staged")
           \/ CompleteRead(t) /\ exec[t].pc # "repaired" /\ Goes(t, "completing")
           \/ CompleteRead(t) /\ exec[t].pc = "repaired" /\ Goes(t, "completingRepair")
           \/ CompleteJob(t) /\ Ends(t)
<1>1. CASE BeginStaging(t)
  BY <1>1, Gone DEF BeginStaging
<1>2. CASE StageFails(t)
  BY <1>2, Gone, FailingGoes DEF StageFails
<1>3. CASE StageResult(t)
  <2>1. PICK v : exec' = [exec EXCEPT ![t] = [exec[t] EXCEPT !.pc = "staged", !.verdict = v]]
    BY <1>3 DEF StageResult
  <2> DEFINE e == [exec[t] EXCEPT !.pc = "staged", !.verdict = v]
  <2>2. e.pc = "staged" /\ e.job = exec[t].job /\ e.at = exec[t].at /\ e.req = exec[t].req
        /\ e.fresh = exec[t].fresh /\ e.act = exec[t].act
    BY DEF Executor, TypeOK, ExecutorsOK
  <2>3. exec' = [exec EXCEPT ![t] = e]
    BY <2>1
  <2> HIDE DEF e
  <2>4. exec'[t] = e /\ OthersStay(t)
    BY <2>3, TaskWritten
  <2> QED
    BY <1>3, <2>2, <2>4 DEF Goes, SameWork
<1>4. CASE CompleteJob(t)
  BY <1>4, Ended DEF CompleteJob
<1>5. CASE CompleteRead(t)
  <2> DEFINE row == job[exec[t].job]
             s == [cancel |-> row.cancel, pending |-> row.pending, leased |-> row.lease # 0]
             p == IF exec[t].pc = "repaired" THEN "completingRepair" ELSE "completing"
             e == [exec[t] EXCEPT !.pc = p, !.saw = s]
  <2>1. exec' = [exec EXCEPT ![t] = e]
    BY <1>5, Zenon DEF CompleteRead
  <2> HIDE DEF s, p
  <2>2. e.pc = p /\ e.job = exec[t].job /\ e.at = exec[t].at /\ e.req = exec[t].req
        /\ e.fresh = exec[t].fresh /\ e.act = exec[t].act
    BY DEF Executor, TypeOK, ExecutorsOK
  <2> HIDE DEF e
  <2>3. exec'[t] = e /\ OthersStay(t)
    BY <2>1, TaskWritten
  <2>4. Goes(t, p)
    BY <2>2, <2>3 DEF Goes, SameWork
  <2> QED
    BY <1>5, <2>4 DEF p
<1> QED
  BY <1>1, <1>2, <1>3, <1>4, <1>5, Zenon DEF Staging

\* A repair.
LEMMA RepairingGoes ==
    ASSUME TypeOK, NEW t \in Tokens, Repairing(t)
    PROVE  \/ (RepairStale(t) \/ RepairRejected(t) \/ RepairFails(t)) /\ Goes(t, "raised")
           \/ /\ RepairBegin(t) /\ OthersStay(t) /\ exec'[t].pc = "repairing" /\ exec'[t].fresh
              /\ exec'[t].job = exec[t].job /\ exec'[t].at = Count(exec[t].job) + 1
              /\ exec'[t].req = exec[t].req /\ exec'[t].act = exec[t].act
           \/ RepairStage(t) /\ Goes(t, "repaired")
<1> DEFINE j == exec[t].job
<1>0. exec[t] \in Executor
  BY DEF TypeOK, ExecutorsOK
<1>1. CASE RepairStale(t) \/ RepairRejected(t) \/ RepairFails(t)
  BY <1>1, Gone DEF RepairStale, RepairRejected, RepairFails
<1>2. CASE RepairBegin(t)
  <2> DEFINE n == Count(j) + 1
             e == [exec[t] EXCEPT !.pc = "repairing", !.at = n, !.fresh = TRUE]
  <2>1. exec' = [exec EXCEPT ![t] = e]
    BY <1>2, Zenon DEF RepairBegin
  <2> HIDE DEF n
  <2>2. e.pc = "repairing" /\ e.at = n /\ e.fresh = TRUE /\ e.job = exec[t].job
        /\ e.req = exec[t].req /\ e.act = exec[t].act
    BY <1>0 DEF Executor
  <2> HIDE DEF e
  <2>3. exec'[t] = e /\ OthersStay(t)
    BY <2>1, TaskWritten
  <2> QED
    BY <1>2, <2>2, <2>3 DEF n
<1>3. CASE RepairStage(t)
  <2>1. PICK v : exec' = [exec EXCEPT ![t] = [exec[t] EXCEPT !.pc = "repaired", !.verdict = v]]
    BY <1>3 DEF RepairStage
  <2> DEFINE e == [exec[t] EXCEPT !.pc = "repaired", !.verdict = v]
  <2>2. e.pc = "repaired" /\ e.job = exec[t].job /\ e.at = exec[t].at /\ e.req = exec[t].req
        /\ e.fresh = exec[t].fresh /\ e.act = exec[t].act
    BY <1>0 DEF Executor
  <2>3. exec' = [exec EXCEPT ![t] = e]
    BY <2>1
  <2> HIDE DEF e
  <2>4. exec'[t] = e /\ OthersStay(t)
    BY <2>3, TaskWritten
  <2> QED
    BY <1>3, <2>2, <2>4 DEF Goes, SameWork
<1> QED
  BY <1>1, <1>2, <1>3, Zenon DEF Repairing

-----------------------------------------------------------------------------
(* Actions stay pending until they are settled *)

\* An action of the job k that is accepted, or was open and pending, and is open
\* after the step, is pending after the step.
ActionsHeld(k) ==
    \A a \in DOMAIN actions'[k] :
        /\ OpenAction(actions'[k][a])
        /\ a \in DOMAIN actions[k] => OpenAction(actions[k][a]) /\ job[k].pending = a
        => job'[k].pending = a \/ CompletesPast(k, a)

\* The status of one action is written.
Marks(j, a, s) == actions' = [actions EXCEPT ![j][a].status = s]

\* The pending action of a job stays, and nothing is accepted.
LEMMA PendingKept ==
    ASSUME NEW k \in Jobs, DOMAIN actions'[k] = DOMAIN actions[k], job'[k].pending = job[k].pending
    PROVE  ActionsHeld(k)
  BY DEF ActionsHeld

\* What writing a status does to the actions.
LEMMA ActionMarked ==
    ASSUME TypeOK, NEW j \in Jobs, NEW a, NEW s, Marks(j, a, s)
    PROVE  /\ \A k \in Jobs \ {j} : actions'[k] = actions[k]
           /\ DOMAIN actions'[j] = DOMAIN actions[j]
           /\ a \in DOMAIN actions[j] => actions'[j][a].status = s
<1> DEFINE x == [actions[j][a] EXCEPT !.status = s]
           f == [actions[j] EXCEPT ![a] = x]
<1>1. actions' = [actions EXCEPT ![j] = f]
  BY DEF Marks
<1>2. actions[j] \in Seq(Action) /\ actions \in [Jobs -> Seq(Action)]
  BY DEF TypeOK
<1>3. ASSUME a \in DOMAIN actions[j] PROVE x.status = s
  <2>1. actions[j][a] \in Action
    BY <1>2, <1>3, ElementOfSeq
  <2> QED
    BY <2>1 DEF Action
<1> HIDE DEF x
<1>4. DOMAIN f = DOMAIN actions[j] /\ (a \in DOMAIN actions[j] => f[a] = x)
  BY <1>2
<1> HIDE DEF f
<1>5. actions'[j] = f /\ \A k \in Jobs \ {j} : actions'[k] = actions[k]
  BY <1>1, <1>2
<1> QED
  BY <1>3, <1>4, <1>5

\* The pending action of a job is settled.
LEMMA PendingSettled ==
    ASSUME TypeOK, NEW j \in Jobs, NEW s, ~ OpenAction([status |-> s]), Marks(j, job[j].pending, s)
    PROVE  ActionsHeld(j)
<1>1. s \notin {"accepted", "running"}
  BY DEF OpenAction
<1> DEFINE a == job[j].pending
<1>2. /\ DOMAIN actions'[j] = DOMAIN actions[j]
      /\ a \in DOMAIN actions[j] => actions'[j][a].status = s
  BY ActionMarked
<1> QED
  BY <1>1, <1>2 DEF ActionsHeld, OpenAction

\* The pending action of a job is cleared, but there was none, or it was settled.
LEMMA PendingCleared ==
    ASSUME TypeOK, NEW j \in Jobs, actions'[j] = actions[j],
           job[j].pending = 0 \/ ~ OpenAction(actions[j][job[j].pending])
    PROVE  ActionsHeld(j)
<1>1. 0 \notin DOMAIN actions[j]
  BY DEF TypeOK
<1> QED
  BY <1>1 DEF ActionsHeld

\* A step of a task moves no other task.
LEMMA TaskAlone ==
    ASSUME TypeOK, NEW t \in Tokens, Task(t)
    PROVE  OthersStay(t)
<1>1. ASSUME NEW p, Goes(t, p) PROVE OthersStay(t)
  BY <1>1 DEF Goes
<1>2. Ends(t) => OthersStay(t)
  BY DEF Ends
<1>3. CASE Begin(t)
  BY <1>1, <1>2, <1>3, BeginGoes
<1>4. CASE Attempting(t)
  BY <1>1, <1>2, <1>4, AttemptingGoes
<1>5. CASE Answered(t)
  BY <1>1, <1>2, <1>5, AnsweredGoes
<1>6. CASE Settling(t)
  BY <1>1, <1>2, <1>6, SettlingGoes
<1>7. CASE Staging(t)
  BY <1>1, <1>2, <1>7, StagingGoes
<1>8. CASE Repairing(t)
  BY <1>1, <1>2, <1>8, RepairingGoes
<1> QED
  BY <1>3, <1>4, <1>5, <1>6, <1>7, <1>8 DEF Task

\* A completion settles the action that it has seen; it drops the pending one if
\* that is another, or if it has seen a cancel request.
LEMMA CompletionSettles ==
    ASSUME TypeOK, NEW t \in Tokens, CompleteJob(t)
    PROVE  \A k \in Jobs : ActionsHeld(k)
<1> DEFINE j == exec[t].job
           a == exec[t].saw.pending
<1>1. /\ j \in Jobs /\ Others(j)
      /\ job'[j].pending = IF a # 0 THEN 0 ELSE job[j].pending
  BY CompletedFacts
<1>2. CASE a = 0 \/ exec[t].saw.cancel
  <2>1. actions' = actions
    BY <1>2 DEF CompleteJob
  <2>2. exec[t].saw.cancel => \A b : CompletesPast(j, b)
    BY DEF CompletesPast
  <2>3. ActionsHeld(j)
    <3>1. CASE exec[t].saw.cancel
      BY <2>2, <3>1 DEF ActionsHeld
    <3>2. CASE a = 0
      BY <1>1, <2>1, <3>2, PendingKept
    <3> QED
      BY <1>2, <3>1, <3>2
  <2> QED
    BY <1>1, <2>1, <2>3, PendingKept DEF Others
<1>3. CASE a # 0 /\ ~ exec[t].saw.cancel
  <2>1. PICK s \in {"failed", "completed"} : Marks(j, a, s)
    BY <1>3 DEF CompleteJob, Marks
  <2>2. \A k \in Jobs \ {j} : actions'[k] = actions[k]
    BY <1>1, <2>1, ActionMarked
  <2>3. CASE job[j].pending = a
    <3>1. ActionsHeld(j)
      BY <1>1, <2>1, <2>3, PendingSettled DEF OpenAction
    <3> QED
      BY <1>1, <2>2, <3>1, PendingKept DEF Others
  <2>4. CASE job[j].pending # a
    <3>1. CompletesPast(j, job[j].pending)
      BY <2>4 DEF CompletesPast
    <3>2. DOMAIN actions'[j] = DOMAIN actions[j]
      BY <1>1, <2>1, ActionMarked
    <3>3. ActionsHeld(j)
      BY <3>1, <3>2 DEF ActionsHeld
    <3> QED
      BY <1>1, <2>2, <3>3, PendingKept DEF Others
  <2> QED
    BY <2>3, <2>4
<1> QED
  BY <1>2, <1>3

\* The steps of a task settle the action that they take from its job.
LEMMA TaskSettles ==
    ASSUME TypeOK, NEW t \in Tokens, Task(t)
    PROVE  \A k \in Jobs : ActionsHeld(k)
<1> DEFINE j == exec[t].job
           a == job[j].pending
<1>1. CASE Begin(t)
  <2>1. CASE RejectStaleAction(t)
    <3>1. j \in Jobs /\ Others(j)
      BY <1>1, <2>1, BeginFacts
    <3>2. Marks(j, a, "rejected")
      BY <2>1 DEF RejectStaleAction, Marks
    <3>3. \A k \in Jobs \ {j} : actions'[k] = actions[k]
      BY <3>1, <3>2, ActionMarked
    <3>4. ActionsHeld(j)
      BY <3>1, <3>2, PendingSettled DEF OpenAction
    <3> QED
      BY <3>1, <3>3, <3>4, PendingKept DEF Others
  <2>2. CASE ~ RejectStaleAction(t)
    <3>1. actions' = actions
      BY <1>1, <2>2, Zenon DEF Begin, BeginLost, BeginRepair, PrepareFails, ReuseOutput, CallsExhausted,
         PrepareCall
    <3> QED
      BY <1>1, <2>2, <3>1, BeginFacts, PendingKept DEF SameFacts
  <2> QED
    BY <2>1, <2>2
<1>2. CASE Attempting(t)
  <2>1. actions' = actions
    BY <1>2, Zenon DEF Attempting, StartAttempt, StartLost, BuildProvider, FailLocally, Dispatch,
       RefuseDispatch
  <2> QED
    BY <1>2, <2>1, AttemptingFacts, PendingKept
<1>3. CASE Answered(t)
  <2>1. actions' = actions
    BY <1>3, Zenon DEF Answered, Respond, LoseResponse, CallAgain, ErrorAnswer, PersistResult
  <2> QED
    BY <1>3, <2>1, AnsweredFacts, PendingKept DEF Others
<1>4. CASE FinishAttemptError(t)
  BY <1>4, PendingKept DEF FinishAttemptError
<1>5. CASE PauseProviderQueue(t)
  <2>1. actions' = actions
    BY <1>5 DEF PauseProviderQueue
  <2> QED
    BY <1>5, <2>1, PauseFacts, PendingKept
<1>6. CASE SetAwaitingUser(t)
  <2>1. j \in Jobs /\ Others(j)
    BY <1>6, AwaitingFacts
  <2>2. CASE a # 0 /\ actions[j][a].status \notin {"completed", "rejected"}
    <3>1. Marks(j, a, "failed")
      BY <1>6, <2>2, Zenon DEF SetAwaitingUser, Marks
    <3>2. \A k \in Jobs \ {j} : actions'[k] = actions[k]
      BY <2>1, <3>1, ActionMarked
    <3>3. ActionsHeld(j)
      BY <2>1, <3>1, PendingSettled DEF OpenAction
    <3> QED
      BY <2>1, <3>2, <3>3, PendingKept DEF Others
  <2>3. CASE ~ (a # 0 /\ actions[j][a].status \notin {"completed", "rejected"})
    <3>1. actions' = actions
      BY <1>6, <2>3, Zenon DEF SetAwaitingUser
    <3>2. ActionsHeld(j)
      BY <2>1, <2>3, <3>1, PendingCleared DEF OpenAction
    <3> QED
      BY <2>1, <3>1, <3>2, PendingKept DEF Others
  <2> QED
    BY <2>2, <2>3
<1>7. CASE CompleteJob(t)
  BY <1>7, CompletionSettles
<1>8. CASE Staging(t) /\ ~ CompleteJob(t)
  <2>1. actions' = actions
    BY <1>8, Zenon DEF Staging, BeginStaging, StageFails, StageResult, CompleteRead
  <2> QED
    BY <1>8, <2>1, StagingFacts, PendingKept DEF Others
<1>9. CASE Repairing(t)
  <2>1. \A k \in Jobs : job'[k].pending = job[k].pending
    BY <1>9, RepairingFacts DEF Others
  <2>2. j \in Jobs
    BY <1>9, TaskHasJob, Zenon DEF Repairing, RepairStale, RepairRejected, RepairBegin, RepairStage,
       RepairFails, Alive, TypeOK
  <2>3. actions' = actions \/ \E s : Marks(j, exec[t].act, s)
    BY <1>9, Zenon DEF Repairing, RepairStale, RepairRejected, RepairBegin, RepairStage, RepairFails,
       Marks
  <2>4. \A k \in Jobs : DOMAIN actions'[k] = DOMAIN actions[k]
    BY <2>2, <2>3, ActionMarked
  <2> QED
    BY <2>1, <2>4, PendingKept
<1> QED
  BY <1>1, <1>2, <1>3, <1>4, <1>5, <1>6, <1>7, <1>8, <1>9 DEF Task, Settling

\* A recovery that needs the user fails the pending action it clears.
LEMMA RecoverySettles ==
    ASSUME TypeOK, NEW k \in Jobs, NEW unlocked, NEW startup,
           actions'[k] = RecoveredActions(k, unlocked),
           job'[k].pending = Recovered(k, unlocked, startup).pending
    PROVE  ActionsHeld(k)
<1> DEFINE a == job[k].pending
<1>1. CASE a # 0 /\ RecoveryTarget(k, unlocked) = "awaiting_user"
  <2> SUFFICES ASSUME a \in DOMAIN actions'[k] PROVE ~ OpenAction(actions'[k][a])
    <3>1. DOMAIN actions'[k] = DOMAIN actions[k]
      BY <1>1 DEF RecoveredActions
    <3> QED
      BY <3>1 DEF ActionsHeld
  <2>1. actions'[k] = [actions[k] EXCEPT ![a].status = "failed"]
    BY <1>1 DEF RecoveredActions
  <2>2. a \in DOMAIN actions[k] /\ actions'[k][a] = [actions[k][a] EXCEPT !.status = "failed"]
    BY <2>1
  <2>3. actions[k][a] \in Action
    BY <2>2, ElementOfSeq DEF TypeOK
  <2>4. actions'[k][a].status = "failed"
    BY <2>2, <2>3 DEF Action
  <2> QED
    BY <2>4 DEF OpenAction
<1>2. CASE ~ (a # 0 /\ RecoveryTarget(k, unlocked) = "awaiting_user")
  <2>1. actions'[k] = actions[k] /\ job'[k].pending = a
    BY <1>2, RecoveredFacts DEF RecoveredActions
  <2> QED
    BY <2>1, PendingKept
<1> QED
  BY <1>1, <1>2

\* An action is accepted when none is pending.
LEMMA DecisionSettles ==
    ASSUME TypeOK, NEW k \in Jobs, Decided(k)
    PROVE  ActionsHeld(k)
<1>1. ASSUME NEW kind \in Kind, NEW resume \in BOOLEAN, Accepts(k, kind, resume)
      PROVE  ActionsHeld(k)
  <2> SUFFICES ASSUME NEW b \in DOMAIN actions'[k], OpenAction(actions'[k][b]),
                      b \in DOMAIN actions[k] => job[k].pending = b
               PROVE  job'[k].pending = b
    BY DEF ActionsHeld
  <2> DEFINE x == NewAction(k, kind, resume)
             n == Len(actions[k])
  <2>1. /\ actions[k] \in Seq(Action) /\ actions'[k] = Append(actions[k], x)
        /\ job[k].pending = 0
        /\ job'[k].pending = IF kind = "await_user" THEN 0 ELSE n + 1
    BY <1>1 DEF TypeOK, Accepts
  <2>2. x \in Action
    BY AcceptingTyped
  <2>3. kind = "await_user" => ~ OpenAction(x)
    BY DEF NewAction, OpenAction
  <2> HIDE DEF x
  <2>4. b \in 1..(n + 1) /\ actions'[k][n + 1] = x /\ n \in Nat /\ DOMAIN actions[k] = 1..n
    BY <2>1, <2>2, AppendProperties
  <2>5. b = n + 1
    BY <2>1, <2>4
  <2> QED
    BY <2>1, <2>3, <2>4, <2>5
<1> QED
  BY <1>1, PendingKept DEF Decided

\* Every step keeps what is open pending.
LEMMA NextSettles ==
    ASSUME TypeOK, Next, NEW k \in Jobs
    PROVE  ActionsHeld(k)
<1>1. CASE Poll
  <2>1. PolledRow(k)
    BY <1>1, PollFacts
  <2> QED
    BY <2>1, RecoverySettles, PendingKept DEF PolledRow, Swept
<1>2. CASE User
  BY <1>2, UserFacts, DecisionSettles
<1>3. CASE Restart
  <2>1. CASE job[k].status \in Leased
    <3>1. job'[k] = Recovered(k, {}, TRUE) /\ actions'[k] = RecoveredActions(k, {})
      BY <1>3, <2>1, RestartFacts
    <3> QED
      BY <3>1, RecoverySettles
  <2>2. CASE job[k].status \notin Leased
    <3>1. job'[k] = job[k] /\ actions'[k] = actions[k]
      BY <1>3, <2>2, RestartFacts
    <3> QED
      BY <3>1, PendingKept
  <2> QED
    BY <2>1, <2>2
<1>4. CASE (\E t \in Tokens : Heartbeat(t)) \/ (\E j \in Jobs : ExpireLease(j))
  <2>1. actions' = actions
    BY <1>4 DEF Heartbeat, ExpireLease
  <2> QED
    BY <1>4, <2>1, RenewedFacts, PendingKept DEF SameFacts
<1> QED
  BY <1>1, <1>2, <1>3, <1>4, TaskSettles, Zenon DEF Next, Environment

\* A decision of a user becomes the pending action of its job and stays it until
\* a task, a recovery or a rejection settles it, in every execution.  What takes
\* a pending action away without settling it is a completion that has seen a
\* cancel request, or another action than the one that is pending by then.
THEOREM ActionsSettleHolds == Spec => ActionsSettle
<1>1. TypeOK /\ Next => \A j \in Jobs : ActionsHeld(j)
  BY NextSettles
<1> QED
  BY <1>1, TypeCorrect, PTL DEF Spec, ActionsSettle, ActionsHeld

-----------------------------------------------------------------------------
(* The statuses of jobs with a lease *)

\* A job with a lease does not show as ready, and unless a resumption overwrites
\* its status, it is leased, or a cancel request has overwritten that.
LeasedNotReady == \A k \in Jobs : job[k].lease # 0 => job[k].status # "candidate_ready"
LeasedOrCancelled == \A k \in Jobs : job[k].lease # 0 => job[k].status \in Leased \cup {"cancelled"}

\* Leases stay with such statuses.
LEMMA NextLeased ==
    ASSUME TypeOK, LeasedNotReady, Next, ~ UnseenLease
    PROVE  /\ LeasedNotReady'
           /\ LeasedOrCancelled /\ ~ OutdatedResume => LeasedOrCancelled'
<1> DEFINE Kept(k) == job[k].status \in Leased \cup {"cancelled"} /\ ~ OutdatedResume
<1> SUFFICES ASSUME NEW k \in Jobs, job'[k].lease # 0
             PROVE  /\ job'[k].status # "candidate_ready"
                    /\ (job[k].lease # 0 => Kept(k)) => job'[k].status \in Leased \cup {"cancelled"}
  BY DEF LeasedNotReady, LeasedOrCancelled
<1>0. job[k].lease # 0 => job[k].status # "candidate_ready"
  BY DEF LeasedNotReady
<1>1. CASE \E t \in Tokens : Task(t)
  <2>1. RowKept(k)
    BY <1>1, TaskRows DEF RowsKept
  <2> QED
    BY <1>0, <2>1 DEF RowKept, Leased
<1>2. CASE Poll
  <2>1. PolledRow(k)
    BY <1>2, PollFacts
  <2>2. CASE job'[k].status = "running"
    BY <2>2 DEF Leased
  <2>3. CASE job'[k].lease = Swept(k).lease /\ k \notin Stale
    BY <1>0, <2>1, <2>3 DEF PolledRow, Swept, Queueing, Leased
  <2>4. CASE job'[k].lease = Swept(k).lease /\ k \in Stale
    BY <2>4, SweptFacts
  <2> QED
    BY <2>1, <2>2, <2>3, <2>4 DEF PolledRow
<1>3. CASE User
  <2>1. job'[k].lease = job[k].lease /\ Decided(k)
    BY <1>3, UserLeases, UserFacts DEF LeasesKept
  <2> QED
    BY <1>0, <2>1 DEF Decided, Accepts, Unlocks, Cancels, Refuses, Requeues, Leased
<1>4. CASE Restart
  <2>1. CASE job[k].status \in Leased
    <3>1. job'[k] = Recovered(k, {}, TRUE)
      BY <1>4, <2>1, RestartFacts
    <3>2. Recovered(k, {}, TRUE).lease = 0
      BY RecoveredFacts
    <3> QED
      BY <3>1, <3>2, Zenon
  <2>2. CASE job[k].status \notin Leased
    BY <1>0, <1>4, <2>2, RestartFacts
  <2> QED
    BY <2>1, <2>2
<1>5. CASE (\E t \in Tokens : Heartbeat(t)) \/ (\E j \in Jobs : ExpireLease(j))
  BY <1>0, <1>5, RenewedFacts DEF SameFacts
<1> QED
  BY <1>1, <1>2, <1>3, <1>4, <1>5, Zenon DEF Next, Environment

-----------------------------------------------------------------------------
(* A ready plan has only ready jobs *)

\* refresh_plan_status finds a plan ready only when all its jobs are.
LEMMA ReadyPlan ==
    ASSUME NEW p, NEW rows, PlanStatusOf(p, rows) = "candidate_ready",
           NEW k \in Jobs, PlanOf[k] = p
    PROVE  rows[k].status = "candidate_ready"
<1> DEFINE S == {rows[j].status : j \in {i \in Jobs : PlanOf[i] = p}}
<1>1. S \subseteq Ready
  BY DEF PlanStatusOf
<1>2. rows[k].status \in S
  OBVIOUS
<1> QED
  BY <1>1, <1>2 DEF Ready

\* A ready job stays ready where the plan is not refreshed, and where it is,
\* what the refresh sees as ready is ready after the step.
LEMMA PlansRefreshed ==
    ASSUME TypeOK, PlanReadyMeansReady, NEW S, NEW rows, planStatus' = Refresh(S, rows),
           \A k \in Jobs : rows[k].status = "candidate_ready" => job'[k].status = "candidate_ready",
           \A k \in Jobs \ S : job[k].status = "candidate_ready" => job'[k].status = "candidate_ready"
    PROVE  PlanReadyMeansReady'
<1> SUFFICES ASSUME NEW p \in Plans, planStatus'[p] = "candidate_ready", NEW k \in Jobs, PlanOf[k] = p
             PROVE  job'[k].status = "candidate_ready"
  BY DEF PlanReadyMeansReady
<1>1. planStatus'[p] = IF \E j \in S : PlanOf[j] = p THEN PlanStatusOf(p, rows) ELSE planStatus[p]
  BY DEF Refresh
<1>2. CASE \E j \in S : PlanOf[j] = p
  BY <1>1, <1>2, ReadyPlan
<1>3. CASE ~ \E j \in S : PlanOf[j] = p
  <2>1. planStatus[p] = "candidate_ready" /\ k \notin S
    BY <1>1, <1>3
  <2> QED
    BY <2>1 DEF PlanReadyMeansReady
<1> QED
  BY <1>2, <1>3

\* The plans of every job that changes are refreshed from the new rows.
LEMMA ChangesRefreshed ==
    ASSUME TypeOK, PlanReadyMeansReady, NEW S, planStatus' = Refresh(S, job'),
           \A k \in Jobs \ S : job'[k] = job[k]
    PROVE  PlanReadyMeansReady'
  BY PlansRefreshed

\* No plan is refreshed and no ready job changes its status.
LEMMA PlansKept ==
    ASSUME PlanReadyMeansReady, planStatus' = planStatus,
           \A k \in Jobs : job[k].status = "candidate_ready" => job'[k].status = "candidate_ready"
    PROVE  PlanReadyMeansReady'
  BY DEF PlanReadyMeansReady

\* A task that holds its lease works on a job that is not ready.
LEMMA HolderNotReady ==
    ASSUME LeasedNotReady, NEW t \in Tokens, exec[t].job \in Jobs, Held(t)
    PROVE  job[exec[t].job].status # "candidate_ready"
  BY DEF LeasedNotReady, Held, Tokens

\* The steps of a task, unless a result arrives after the lease was lost.
LEMMA TaskPlans ==
    ASSUME TypeOK, LeasedNotReady, PlanReadyMeansReady, NEW t \in Tokens, Task(t), ~ LateResult
    PROVE  PlanReadyMeansReady'
<1> DEFINE j == exec[t].job
<1>1. CASE Begin(t)
  <2>1. planStatus' = planStatus
    BY <1>1, Zenon DEF Begin, BeginLost, BeginRepair, RejectStaleAction, PrepareFails, ReuseOutput,
       CallsExhausted, PrepareCall, elsewhere
  <2>2. \A k \in Jobs : job'[k].status = job[k].status
    BY <1>1, BeginFacts DEF SameFacts, Others
  <2> QED
    BY <2>1, <2>2, PlansKept
<1>2. CASE Attempting(t)
  <2>1. planStatus' = planStatus
    BY <1>2, Zenon DEF Attempting, StartAttempt, StartLost, BuildProvider, FailLocally, Dispatch,
       RefuseDispatch, elsewhere
  <2> QED
    BY <1>2, <2>1, AttemptingFacts, PlansKept
<1>3. CASE Answered(t)
  <2>1. planStatus' = planStatus
    BY <1>3, Zenon DEF Answered, Respond, LoseResponse, CallAgain, ErrorAnswer, PersistResult, elsewhere
  <2>2. PersistResult(t) => Held(t)
    BY DEF LateResult
  <2>3. CASE job' = job
    BY <2>1, <2>3, PlansKept
  <2>4. CASE PersistResult(t) /\ j \in Jobs /\ Others(j)
    <3>1. job[j].status # "candidate_ready"
      BY <2>2, <2>4, HolderNotReady
    <3> QED
      BY <2>1, <2>4, <3>1, PlansKept DEF Others
  <2> QED
    BY <1>3, <2>3, <2>4, AnsweredFacts
<1>4. CASE FinishAttemptError(t)
  BY <1>4, PlansKept DEF FinishAttemptError, elsewhere
<1>5. CASE PauseProviderQueue(t)
  <2>1. planStatus' = Refresh(Paused(t), job')
    BY <1>5, Zenon DEF PauseProviderQueue, Paused
  <2> QED
    BY <1>5, <2>1, PauseFacts, ChangesRefreshed
<1>6. CASE SetAwaitingUser(t)
  <2>1. planStatus' = Refresh({j}, job')
    BY <1>6, Zenon DEF SetAwaitingUser
  <2> QED
    BY <1>6, <2>1, AwaitingFacts, ChangesRefreshed DEF Others
<1>7. CASE CompleteJob(t)
  <2>1. planStatus' = Refresh({j}, job')
    BY <1>7, Zenon DEF CompleteJob
  <2> QED
    BY <1>7, <2>1, CompletedFacts, ChangesRefreshed DEF Others
<1>8. CASE Staging(t) /\ ~ CompleteJob(t)
  <2>1. planStatus' = planStatus
    BY <1>8, Zenon DEF Staging, BeginStaging, StageFails, StageResult, CompleteRead, elsewhere
  <2>2. \A k \in Jobs : job[k].status = "candidate_ready" => job'[k].status = "candidate_ready"
    <3>1. BeginStaging(t) /\ j \in Jobs => job[j].status # "candidate_ready"
      BY HolderNotReady DEF BeginStaging
    <3> QED
      BY <1>8, <3>1, StagingFacts DEF Others
  <2> QED
    BY <2>1, <2>2, PlansKept
<1>9. CASE Repairing(t)
  <2>1. planStatus' = planStatus
    BY <1>9, Zenon DEF Repairing, RepairStale, RepairRejected, RepairBegin, RepairStage, RepairFails,
       elsewhere
  <2>2. \A k \in Jobs : job[k].status = "candidate_ready" => job'[k].status = "candidate_ready"
    <3>1. RepairBegin(t) /\ j \in Jobs => job[j].status # "candidate_ready"
      BY HolderNotReady DEF RepairBegin
    <3> QED
      BY <1>9, <3>1, RepairingFacts DEF Others
  <2> QED
    BY <2>1, <2>2, PlansKept
<1> QED
  BY <1>1, <1>2, <1>3, <1>4, <1>5, <1>6, <1>7, <1>8, <1>9 DEF Task, Settling

\* A pass refreshes plans from the rows before or after the walk of the queue,
\* and no job that the refresh saw as ready leaves that status.
LEMMA PollPlans == ASSUME TypeOK, PlanReadyMeansReady, Poll PROVE PlanReadyMeansReady'
<1> DEFINE rows == Requeued(Expired, Unblocked(Expired))
           queue == {j \in Jobs : rows[j].status = "queued"}
           dropped == {j \in queue : rows[j].cancel}
           S(taken) == Stale \cup Unblocked(Expired) \cup taken
           seen(final, taken) == [j \in Jobs |-> IF \E c \in taken \cap SamePlan(j) : j <= c
                                                THEN final[j] ELSE rows[j]]
           Walks(blocked, taken) ==
              /\ job' = Walked(rows, dropped, blocked, taken)
              /\ planStatus' = Refresh(S(taken), seen(Walked(rows, dropped, blocked, taken), taken))
<1>0. PICK blocked \in SUBSET (queue \ dropped) :
         \E taken \in SUBSET ((queue \ dropped) \ blocked) : Walks(blocked, taken)
  BY Zenon DEF Poll
<1>1. PICK taken \in SUBSET ((queue \ dropped) \ blocked) : Walks(blocked, taken)
  BY <1>0
<1>2. /\ job' = Walked(rows, dropped, blocked, taken)
      /\ planStatus' = Refresh(S(taken), seen(job', taken))
  BY <1>1
<1>3. \A k \in dropped \cup blocked \cup taken : rows[k].status = "queued"
  OBVIOUS
<1>4. \A k \in Jobs : seen(job', taken)[k] \in {job'[k], rows[k]}
  OBVIOUS
<1>5. ASSUME NEW k \in Jobs, rows[k].status = "candidate_ready"
      PROVE  job'[k].status = "candidate_ready"
  <2>1. k \notin dropped /\ k \notin blocked /\ k \notin taken
    BY <1>3, <1>5
  <2> HIDE DEF dropped, rows
  <2>2. job'[k] = rows[k]
    BY <1>2, <2>1 DEF Walked
  <2> QED
    BY <1>5, <2>2
<1>6. ASSUME NEW k \in Jobs, job[k].status = "candidate_ready"
      PROVE  rows[k] = job[k]
  <2>1. k \notin Stale
    BY <1>6 DEF Stale, Leased
  <2>2. Expired[k] = job[k]
    BY <2>1 DEF Expired
  <2>3. k \notin Unblocked(Expired)
    BY <1>6, <2>2 DEF Unblocked
  <2> QED
    BY <2>2, <2>3 DEF Requeued
<1> HIDE DEF rows, dropped, seen, S
<1>7. \A k \in Jobs : seen(job', taken)[k].status = "candidate_ready" => job'[k].status = "candidate_ready"
  BY <1>4, <1>5
<1>8. \A k \in Jobs : job[k].status = "candidate_ready" => job'[k].status = "candidate_ready"
  BY <1>5, <1>6
<1> QED
  BY <1>2, <1>7, <1>8, PlansRefreshed

\* Decisions of users, unless a cancel request overwrites a status it has not read.
LEMMA UserPlans ==
    ASSUME TypeOK, PlanReadyMeansReady, User, ~ OutdatedCancel
    PROVE  PlanReadyMeansReady'
<1>1. ASSUME NEW p \in Providers, Unlock(p) PROVE PlanReadyMeansReady'
  <2> DEFINE waiting == LockedJobs(p)
  <2>1. /\ planStatus' = Refresh(waiting, job')
        /\ job' = [j \in Jobs |-> IF j \in waiting
                                  THEN [job[j] EXCEPT !.status = "queued", !.dep = FALSE] ELSE job[j]]
    BY <1>1, Zenon DEF Unlock
  <2>2. \A k \in Jobs \ waiting : job'[k] = job[k]
    BY <2>1
  <2> HIDE DEF waiting
  <2> QED
    BY <2>1, <2>2, ChangesRefreshed
<1>2. ASSUME NEW p \in Providers, Lock(p) PROVE PlanReadyMeansReady'
  BY <1>2, PlansKept DEF Lock
<1>3. ASSUME NEW j \in Jobs, CancelRead(j) PROVE PlanReadyMeansReady'
  BY <1>3, PlansKept DEF CancelRead
<1>4. ASSUME NEW j \in Jobs, CancelWrite(j) PROVE PlanReadyMeansReady'
  <2>1. planStatus' = planStatus
    BY <1>4 DEF CancelWrite
  <2>2. \A k \in Jobs : Decided(k)
    BY <1>4, CancelDecides
  <2>3. \A k \in Jobs \ {j} : job'[k] = job[k]
    BY <1>4 DEF CancelWrite, TypeOK
  <2>4. job'[j].status = job[j].status
        \/ (cancelling[j] \in {"queued", "credentials_locked"} /\ job'[j].status = "cancelled")
    BY <1>4 DEF CancelWrite, TypeOK, Job
  <2>5. cancelling[j] \in {"queued", "credentials_locked"} => job[j].status # "candidate_ready"
    BY <1>4 DEF OutdatedCancel
  <2> QED
    BY <2>1, <2>3, <2>4, <2>5, PlansKept
<1>5. ASSUME NEW j \in Jobs, planStatus' = Refresh({j}, job'), NEW row, job' = [job EXCEPT ![j] = row]
      PROVE  PlanReadyMeansReady'
  <2>1. \A k \in Jobs \ {j} : job'[k] = job[k]
    BY <1>5 DEF TypeOK
  <2> QED
    BY <1>5, <2>1, ChangesRefreshed
<1>6. ASSUME NEW j \in Jobs, RefuseOverBudget(j) PROVE PlanReadyMeansReady'
  <2>1. /\ planStatus' = Refresh({j}, job')
        /\ job' = [job EXCEPT ![j] = [job[j] EXCEPT !.status = "awaiting_user"]]
    BY <1>6 DEF RefuseOverBudget
  <2> QED
    BY <1>5, <2>1
<1>7. ASSUME NEW j \in Jobs, NEW kind \in ActionKinds, Remediate(j, kind) PROVE PlanReadyMeansReady'
  <2>1. planStatus' = Refresh({j}, job') /\ job' = [job EXCEPT ![j] = Accepting(j, kind)]
    BY <1>7, Zenon DEF Remediate
  <2> QED
    BY <1>5, <2>1
<1>8. ASSUME NEW j \in Jobs, ResumeJob(j) PROVE PlanReadyMeansReady'
  <2>1. PICK row :
           /\ job' = [job EXCEPT ![j] = row]
           /\ planStatus' = IF job'[j].status = job[j].status THEN planStatus ELSE Refresh({j}, job')
    BY <1>8, Zenon DEF ResumeJob
  <2>2. CASE job'[j].status = job[j].status
    BY <2>1, <2>2, PlansKept DEF TypeOK
  <2>3. CASE job'[j].status # job[j].status
    BY <1>5, <2>1, <2>3
  <2> QED
    BY <2>2, <2>3
<1>9. ASSUME NEW p \in Plans, ResumePlan(p) PROVE PlanReadyMeansReady'
  <2> DEFINE members == {j \in Jobs : PlanOf[j] = p}
  <2>1. planStatus' = Refresh(members, job')
    BY <1>9, Zenon DEF ResumePlan
  <2>2. \A k \in Jobs \ members : job'[k] = job[k]
    BY <1>9 DEF ResumePlan, Resumed
  <2> HIDE DEF members
  <2> QED
    BY <2>1, <2>2, ChangesRefreshed
<1>10. CASE Overtaken
  <2>1. CASE ResumeWrite
    <3>1. planStatus' = Refresh(resuming.queue, job')
      BY <2>1, Zenon DEF ResumeWrite
    <3>2. \A k \in Jobs \ resuming.queue : job'[k].status = job[k].status
      BY <2>1, ResumedColumns
    <3> QED
      BY <3>1, <3>2, PlansRefreshed
  <2>2. CASE ~ ResumeWrite
    BY <1>10, <2>2, PlansKept DEF Overtaken, Reads, UnlockRead, ResumeRead, ResumePlanRead
  <2> QED
    BY <2>1, <2>2
<1> QED
  BY <1>1, <1>2, <1>3, <1>4, <1>6, <1>7, <1>8, <1>9, <1>10, Zenon DEF User

\* Every step keeps the statuses of plans true.
LEMMA NextPlans ==
    ASSUME TypeOK, LeasedNotReady, PlanReadyMeansReady, Next, ~ OutdatedCancel, ~ LateResult
    PROVE  PlanReadyMeansReady'
<1>1. CASE Restart
  <2> DEFINE interrupted == {j \in Jobs : job[j].status \in Leased}
  <2>1. planStatus' = Refresh(interrupted, job')
    BY <1>1, Zenon DEF Restart
  <2>2. \A k \in Jobs \ interrupted : job'[k] = job[k]
    BY <1>1, RestartFacts
  <2> HIDE DEF interrupted
  <2> QED
    BY <2>1, <2>2, ChangesRefreshed
<1>2. CASE (\E t \in Tokens : Heartbeat(t)) \/ (\E j \in Jobs : ExpireLease(j))
  <2>1. planStatus' = planStatus
    BY <1>2 DEF Heartbeat, ExpireLease, elsewhere
  <2> QED
    BY <1>2, <2>1, RenewedFacts, PlansKept DEF SameFacts
<1> QED
  BY <1>1, <1>2, TaskPlans, PollPlans, UserPlans, Zenon DEF Next, Environment

\* A plan that shows as ready has only ready jobs, for any number of plans,
\* jobs, expiries and restarts, as long as no cancel request overwrites a status
\* that it has not read, no late completion leaves a claim on a ready job, and
\* no result is persisted by a task without its lease: whatever makes a job leave
\* "candidate_ready" refreshes its plan in the same transaction, and a pass of
\* the claim loop refreshes from rows that still hold when it commits.
THEOREM PlanReadyMeansReadyHolds ==
    Spec /\ [][~ OutdatedCancel]_vars /\ [][~ UnseenLease]_vars /\ [][~ LateResult]_vars
       => []PlanReadyMeansReady
<1> DEFINE Inv == LeasedNotReady /\ PlanReadyMeansReady
<1>1. Init => Inv
  <2>1. Init => LeasedNotReady
    BY DEF Init, LeasedNotReady
  <2>2. Init => PlanReadyMeansReady
    <3>1. Init => \A p \in Plans : planStatus[p] \in {"credentials_locked", "confirmed"}
      BY DEF Init
    <3> QED
      BY <3>1 DEF PlanReadyMeansReady
  <2> QED
    BY <2>1, <2>2
<1>2. TypeOK /\ Inv /\ [Next]_vars /\ [~ OutdatedCancel]_vars /\ [~ UnseenLease]_vars
        /\ [~ LateResult]_vars => Inv'
  <2> SUFFICES ASSUME TypeOK, Inv, [Next]_vars, [~ OutdatedCancel]_vars, [~ UnseenLease]_vars,
                      [~ LateResult]_vars
               PROVE  Inv'
    OBVIOUS
  <2>1. CASE UNCHANGED vars
    BY <2>1, Zenon DEF vars, LeasedNotReady, PlanReadyMeansReady
  <2>2. CASE Next /\ ~ OutdatedCancel /\ ~ UnseenLease /\ ~ LateResult
    BY <2>2, NextLeased, NextPlans
  <2> QED
    BY <2>1, <2>2
<1>3. Inv => PlanReadyMeansReady
  OBVIOUS
<1> HIDE DEF Inv
<1> QED
  BY <1>1, <1>2, <1>3, TypeCorrect, PTL DEF Spec

-----------------------------------------------------------------------------
(* What each step of a task writes to the attempts *)

\* An attempt is added to a job.
Added(j, a) ==
    attempts'[j] = Append(attempts[j], a) /\ \A k \in Jobs \ {j} : attempts'[k] = attempts[k]

\* At most one attempt of a job is written.
Wrote(j, n) ==
    /\ DOMAIN attempts'[j] = DOMAIN attempts[j]
    /\ \A m \in DOMAIN attempts[j] \ {n} : attempts'[j][m] = attempts[j][m]
    /\ \A k \in Jobs \ {j} : attempts'[k] = attempts[k]

\* The written attempt keeps its request and what staging found.
SameCall(j, n) ==
    /\ attempts'[j][n].kind = attempts[j][n].kind
    /\ attempts'[j][n].req = attempts[j][n].req
SameOutput(j, n) ==
    /\ attempts'[j][n].rev = attempts[j][n].rev
    /\ attempts'[j][n].qa = attempts[j][n].qa

\* The phase and the dispatch state that the written attempt has after the step.
Becomes(j, n, phase, sent) ==
    /\ Wrote(j, n)
    /\ n \in DOMAIN attempts[j] =>
          /\ SameCall(j, n)
          /\ attempts'[j][n].phase = phase
          /\ attempts'[j][n].sent = sent

\* The writes of a task: every other step leaves the attempts alone.
Adds(t) == StartAttempt(t) \/ RepairBegin(t)
Rewrites(t) ==
    \/ Dispatch(t) \/ Respond(t) \/ PersistResult(t) \/ FinishAttemptError(t) \/ StageResult(t)
    \/ CompleteJob(t) \/ RepairStage(t)
Written(t) ==
    LET j == exec[t].job
        n == exec[t].at
        sent == attempts[j][n].sent
    IN  /\ StartAttempt(t) => Added(j, NewCall(exec[t].req))
        /\ RepairBegin(t) => Added(j, NewRepair(exec[t].act))
        /\ Dispatch(t) =>
              /\ Becomes(j, n, "dispatched", "dispatch_started")
              /\ n \in DOMAIN attempts[j] => SameOutput(j, n)
        /\ Respond(t) =>
              /\ Becomes(j, n, attempts[j][n].phase, "response_received")
              /\ n \in DOMAIN attempts[j] => SameOutput(j, n)
        /\ PersistResult(t) =>
              /\ Becomes(j, n, "output_received", sent)
              /\ n \in DOMAIN attempts[j] => SameOutput(j, n)
        /\ FinishAttemptError(t) =>
              /\ Becomes(j, n, "failed", sent)
              /\ n \in DOMAIN attempts[j] => SameOutput(j, n)
        /\ StageResult(t) =>
              /\ Becomes(j, n, "staged", sent)
              /\ n \in DOMAIN attempts[j] /\ j \in ImageJobs => attempts'[j][n].qa # "none"
        /\ RepairStage(t) =>
              /\ Becomes(j, n, "staged", sent)
              /\ n \in DOMAIN attempts[j] => attempts'[j][n].qa # "none"
        /\ CompleteJob(t) =>
              /\ Becomes(j, n, "succeeded", sent)
              /\ n \in DOMAIN attempts[j] =>
                    attempts'[j][n].rev /\ attempts'[j][n].qa = attempts[j][n].qa
        /\ ~ Adds(t) /\ ~ Rewrites(t) => attempts' = attempts

\* One attempt is replaced.
LEMMA AttemptWritten ==
    ASSUME TypeOK, NEW j \in Jobs, NEW n, NEW a,
           attempts' = [attempts EXCEPT ![j] = [attempts[j] EXCEPT ![n] = a]]
    PROVE  Wrote(j, n) /\ (n \in DOMAIN attempts[j] => attempts'[j][n] = a)
<1>1. attempts[j] \in Seq(Attempt) /\ attempts \in [Jobs -> Seq(Attempt)]
  BY DEF TypeOK
<1> DEFINE f == [attempts[j] EXCEPT ![n] = a]
<1>2. DOMAIN f = DOMAIN attempts[j] /\ (\A m \in DOMAIN attempts[j] \ {n} : f[m] = attempts[j][m])
      /\ (n \in DOMAIN attempts[j] => f[n] = a)
  BY <1>1
<1>3. attempts' = [attempts EXCEPT ![j] = f]
  OBVIOUS
<1> HIDE DEF f
<1>4. attempts'[j] = f /\ \A k \in Jobs \ {j} : attempts'[k] = attempts[k]
  BY <1>1, <1>3
<1> QED
  BY <1>2, <1>4 DEF Wrote

\* An attempt is appended.
LEMMA AttemptAdded ==
    ASSUME TypeOK, NEW j \in Jobs, NEW a, attempts' = [attempts EXCEPT ![j] = Append(attempts[j], a)]
    PROVE  Added(j, a)
  BY DEF TypeOK, Added

\* An attempt's record.
LEMMA AttemptFields ==
    ASSUME NEW a \in Attempt, NEW p, NEW d, NEW x, NEW v
    PROVE  /\ LET b == [a EXCEPT !.phase = p, !.sent = d]
              IN  b.kind = a.kind /\ b.req = a.req /\ b.phase = p /\ b.sent = d /\ b.rev = a.rev /\ b.qa = a.qa
           /\ LET b == [a EXCEPT !.sent = d]
              IN  b.kind = a.kind /\ b.req = a.req /\ b.phase = a.phase /\ b.sent = d /\ b.rev = a.rev /\ b.qa = a.qa
           /\ LET b == [a EXCEPT !.phase = p, !.output = TRUE]
              IN  b.kind = a.kind /\ b.req = a.req /\ b.phase = p /\ b.sent = a.sent /\ b.rev = a.rev /\ b.qa = a.qa
           /\ LET b == [a EXCEPT !.phase = p, !.err = x]
              IN  b.kind = a.kind /\ b.req = a.req /\ b.phase = p /\ b.sent = a.sent /\ b.rev = a.rev /\ b.qa = a.qa
           /\ LET b == [a EXCEPT !.phase = p, !.rev = TRUE]
              IN  b.kind = a.kind /\ b.req = a.req /\ b.phase = p /\ b.sent = a.sent /\ b.rev /\ b.qa = a.qa
           /\ LET b == [a EXCEPT !.phase = p, !.rev = TRUE, !.qa = v]
              IN  b.kind = a.kind /\ b.req = a.req /\ b.phase = p /\ b.sent = a.sent /\ b.rev /\ b.qa = v
           /\ LET b == [a EXCEPT !.phase = p, !.output = TRUE, !.rev = TRUE, !.qa = v]
              IN  b.kind = a.kind /\ b.req = a.req /\ b.phase = p /\ b.sent = a.sent /\ b.rev /\ b.qa = v
  BY DEF Attempt

\* The writes of each step.
LEMMA TaskWrites == ASSUME TypeOK, NEW t \in Tokens, Task(t) PROVE Written(t)
<1> DEFINE j == exec[t].job
           n == exec[t].at
           a == attempts[j][n]
<1>0. Alive(t)
  BY Zenon DEF Task, Begin, BeginLost, BeginRepair, RejectStaleAction, PrepareFails, ReuseOutput,
     CallsExhausted, PrepareCall, Preparing, Attempting, StartAttempt, StartLost, BuildProvider,
     FailLocally, Dispatch, RefuseDispatch, Answered, Respond, LoseResponse, CallAgain, ErrorAnswer,
     PersistResult, Settling, FinishAttemptError, PauseProviderQueue, SetAwaitingUser, Staging,
     BeginStaging, StageFails, StageResult, CompleteRead, CompleteJob, Repairing, RepairStale,
     RepairRejected, RepairBegin, RepairStage, RepairFails, Alive
<1>1. j \in Jobs
  BY <1>0, TaskHasJob DEF TypeOK
<1>2. n \in DOMAIN attempts[j] => a \in Attempt
  BY <1>1, AttemptTyped DEF TypeOK
<1>5. ASSUME NEW b, attempts' = [attempts EXCEPT ![j] = [attempts[j] EXCEPT ![n] = b]]
      PROVE  Wrote(j, n) /\ (n \in DOMAIN attempts[j] => attempts'[j][n] = b)
  BY <1>1, <1>5, AttemptWritten
<1>6. ASSUME Dispatch(t)
      PROVE  /\ Becomes(j, n, "dispatched", "dispatch_started")
             /\ n \in DOMAIN attempts[j] => SameOutput(j, n)
  <2> DEFINE b == [a EXCEPT !.phase = "dispatched", !.sent = "dispatch_started"]
  <2>1. attempts' = [attempts EXCEPT ![j] = [attempts[j] EXCEPT ![n] = b]]
    BY <1>6, Zenon DEF Dispatch
  <2>2. n \in DOMAIN attempts[j] => /\ b.phase = "dispatched" /\ b.sent = "dispatch_started"
                                    /\ b.kind = a.kind /\ b.req = a.req /\ b.rev = a.rev /\ b.qa = a.qa
    BY <1>2, AttemptFields
  <2> HIDE DEF b
  <2> QED
    BY <1>5, <2>1, <2>2 DEF Becomes, SameCall, SameOutput
<1>7. ASSUME Respond(t)
      PROVE  /\ Becomes(j, n, a.phase, "response_received")
             /\ n \in DOMAIN attempts[j] => SameOutput(j, n)
  <2> DEFINE b == [a EXCEPT !.sent = "response_received"]
  <2>1. attempts' = [attempts EXCEPT ![j] = [attempts[j] EXCEPT ![n] = b]]
    BY <1>7, Zenon DEF Respond
  <2>2. n \in DOMAIN attempts[j] => /\ b.phase = a.phase /\ b.sent = "response_received"
                                    /\ b.kind = a.kind /\ b.req = a.req /\ b.rev = a.rev /\ b.qa = a.qa
    BY <1>2, AttemptFields
  <2> HIDE DEF b
  <2> QED
    BY <1>5, <2>1, <2>2 DEF Becomes, SameCall, SameOutput
<1>8. ASSUME PersistResult(t)
      PROVE  /\ Becomes(j, n, "output_received", a.sent)
             /\ n \in DOMAIN attempts[j] => SameOutput(j, n)
  <2> DEFINE b == [a EXCEPT !.phase = "output_received", !.output = TRUE]
  <2>1. attempts' = [attempts EXCEPT ![j] = [attempts[j] EXCEPT ![n] = b]]
    BY <1>8, Zenon DEF PersistResult
  <2>2. n \in DOMAIN attempts[j] => /\ b.phase = "output_received" /\ b.sent = a.sent
                                    /\ b.kind = a.kind /\ b.req = a.req /\ b.rev = a.rev /\ b.qa = a.qa
    BY <1>2, AttemptFields
  <2> HIDE DEF b
  <2> QED
    BY <1>5, <2>1, <2>2 DEF Becomes, SameCall, SameOutput
<1>9. ASSUME FinishAttemptError(t)
      PROVE  /\ Becomes(j, n, "failed", a.sent)
             /\ n \in DOMAIN attempts[j] => SameOutput(j, n)
  <2> DEFINE b == [a EXCEPT !.phase = "failed", !.err = exec[t].err]
  <2>1. attempts' = [attempts EXCEPT ![j] = [attempts[j] EXCEPT ![n] = b]]
    BY <1>9, Zenon DEF FinishAttemptError
  <2>2. n \in DOMAIN attempts[j] => /\ b.phase = "failed" /\ b.sent = a.sent
                                    /\ b.kind = a.kind /\ b.req = a.req /\ b.rev = a.rev /\ b.qa = a.qa
    BY <1>2, AttemptFields
  <2> HIDE DEF b
  <2> QED
    BY <1>5, <2>1, <2>2 DEF Becomes, SameCall, SameOutput
<1>10. ASSUME StageResult(t)
       PROVE  /\ Becomes(j, n, "staged", a.sent)
              /\ n \in DOMAIN attempts[j] /\ j \in ImageJobs => attempts'[j][n].qa # "none"
  <2>1. PICK v : /\ j \in ImageJobs => v \in {"pass", "fail"}
                 /\ attempts' = [attempts EXCEPT ![j][n] =
                                    [@ EXCEPT !.phase = "staged", !.rev = TRUE, !.qa = v]]
    BY <1>10, Zenon DEF StageResult
  <2> DEFINE b == [a EXCEPT !.phase = "staged", !.rev = TRUE, !.qa = v]
  <2>2. attempts' = [attempts EXCEPT ![j] = [attempts[j] EXCEPT ![n] = b]]
    BY <2>1, Zenon
  <2>3. n \in DOMAIN attempts[j] => /\ b.phase = "staged" /\ b.sent = a.sent
                                    /\ b.kind = a.kind /\ b.req = a.req /\ b.qa = v
    BY <1>2, AttemptFields
  <2> HIDE DEF b
  <2> QED
    BY <1>5, <2>1, <2>2, <2>3 DEF Becomes, SameCall
<1>11. ASSUME RepairStage(t)
       PROVE  /\ Becomes(j, n, "staged", a.sent)
              /\ n \in DOMAIN attempts[j] => attempts'[j][n].qa # "none"
  <2>1. PICK v \in {"pass", "fail"} :
           attempts' = [attempts EXCEPT ![j][n] =
                           [@ EXCEPT !.phase = "staged", !.output = TRUE, !.rev = TRUE, !.qa = v]]
    BY <1>11, Zenon DEF RepairStage
  <2> DEFINE b == [a EXCEPT !.phase = "staged", !.output = TRUE, !.rev = TRUE, !.qa = v]
  <2>2. attempts' = [attempts EXCEPT ![j] = [attempts[j] EXCEPT ![n] = b]]
    BY <2>1, Zenon
  <2>3. n \in DOMAIN attempts[j] => /\ b.phase = "staged" /\ b.sent = a.sent
                                    /\ b.kind = a.kind /\ b.req = a.req /\ b.qa = v
    BY <1>2, AttemptFields
  <2> HIDE DEF b
  <2> QED
    BY <1>5, <2>1, <2>2, <2>3 DEF Becomes, SameCall
<1>12. ASSUME CompleteJob(t)
       PROVE  /\ Becomes(j, n, "succeeded", a.sent)
              /\ n \in DOMAIN attempts[j] => attempts'[j][n].rev /\ attempts'[j][n].qa = a.qa
  <2> DEFINE b == [a EXCEPT !.phase = "succeeded", !.rev = TRUE]
  <2>1. attempts' = [attempts EXCEPT ![j] = [attempts[j] EXCEPT ![n] = b]]
    BY <1>12, Zenon DEF CompleteJob
  <2>2. n \in DOMAIN attempts[j] => /\ b.phase = "succeeded" /\ b.sent = a.sent
                                    /\ b.kind = a.kind /\ b.req = a.req /\ b.rev /\ b.qa = a.qa
    BY <1>2, AttemptFields
  <2> HIDE DEF b
  <2> QED
    BY <1>5, <2>1, <2>2 DEF Becomes, SameCall
<1>13. ASSUME ~ Adds(t), ~ Rewrites(t) PROVE attempts' = attempts
  BY <1>13, Zenon DEF Adds, Rewrites, Task, Begin, BeginLost, BeginRepair, RejectStaleAction, PrepareFails,
     ReuseOutput, CallsExhausted, PrepareCall, Attempting, StartLost, BuildProvider, FailLocally,
     RefuseDispatch, Answered, LoseResponse, CallAgain, ErrorAnswer, Settling, PauseProviderQueue,
     SetAwaitingUser, Staging, BeginStaging, StageFails, CompleteRead, Repairing, RepairStale,
     RepairRejected, RepairFails
<1>14. StartAttempt(t) => Added(j, NewCall(exec[t].req))
  BY <1>1, AttemptAdded DEF StartAttempt
<1>15. RepairBegin(t) => Added(j, NewRepair(exec[t].act))
  BY <1>1, AttemptAdded DEF RepairBegin
<1> QED
  BY <1>6, <1>7, <1>8, <1>9, <1>10, <1>11, <1>12, <1>13, <1>14, <1>15, Zenon DEF Written

-----------------------------------------------------------------------------
(* What stages and completes an attempt has looked at it *)

\* A task works on an attempt that exists.
AttemptsExist ==
    \A t \in Tokens : exec[t].pc \in InAttempt =>
        exec[t].at \in DOMAIN attempts[exec[t].job]

\* An image attempt with a revision has a verdict of hard QA, and so has the one
\* that a task is about to complete.
Judged(j) == j \in ImageJobs => \A n \in DOMAIN attempts[j] : attempts[j][n].rev => attempts[j][n].qa # "none"
Completes == {"staged", "repaired", "reuse", "completing", "completingRepair"}
CompletesJudged ==
    \A t \in Tokens : exec[t].pc \in Completes /\ exec[t].job \in ImageJobs =>
        attempts[exec[t].job][exec[t].at].qa # "none"

OutputInv == AttemptsExist /\ (\A j \in Jobs : Judged(j)) /\ CompletesJudged

\* The task of a step has a job.
LEMMA TaskAlive == ASSUME TypeOK, NEW t \in Tokens, Task(t) PROVE Alive(t) /\ exec[t].job \in Jobs
<1>1. Alive(t)
  BY Zenon DEF Task, Begin, BeginLost, BeginRepair, RejectStaleAction, PrepareFails, ReuseOutput,
     CallsExhausted, PrepareCall, Preparing, Attempting, StartAttempt, StartLost, BuildProvider,
     FailLocally, Dispatch, RefuseDispatch, Answered, Respond, LoseResponse, CallAgain, ErrorAnswer,
     PersistResult, Settling, FinishAttemptError, PauseProviderQueue, SetAwaitingUser, Staging,
     BeginStaging, StageFails, StageResult, CompleteRead, CompleteJob, Repairing, RepairStale,
     RepairRejected, RepairBegin, RepairStage, RepairFails, Alive
<1> QED
  BY <1>1, TaskHasJob DEF TypeOK

\* The elements of a sequence after another was appended.
LEMMA AddedElements ==
    ASSUME TypeOK, NEW j \in Jobs, NEW a \in Attempt, Added(j, a)
    PROVE  /\ Count(j) \in Nat /\ DOMAIN attempts[j] = 1..Count(j)
           /\ DOMAIN attempts'[j] = 1..(Count(j) + 1)
           /\ \A n \in DOMAIN attempts[j] : attempts'[j][n] = attempts[j][n]
           /\ attempts'[j][Count(j) + 1] = a
           /\ Len(attempts'[j]) = Count(j) + 1
<1>1. attempts[j] \in Seq(Attempt)
  BY DEF TypeOK
<1> QED
  BY <1>1, AppendProperties DEF Added, Count

\* A new attempt has neither a revision nor a verdict.
LEMMA NewAttempt ==
    ASSUME TypeOK, NEW t \in Tokens, Adds(t)
    PROVE  \E a \in Attempt : Added(exec[t].job, a) /\ ~ a.rev /\ a.phase # "succeeded"
<1>0. exec[t] \in Executor /\ exec[t].job \in Jobs
  BY TaskHasJob DEF Adds, StartAttempt, RepairBegin, Alive, TypeOK
<1>1. CASE StartAttempt(t)
  <2>1. NewCall(exec[t].req) \in Attempt
    BY <1>0, NewCallTyped DEF Executor
  <2>2. Added(exec[t].job, NewCall(exec[t].req))
    BY <1>0, <1>1, AttemptAdded DEF StartAttempt
  <2>3. ~ NewCall(exec[t].req).rev /\ NewCall(exec[t].req).phase = "created"
    BY DEF NewCall
  <2> QED
    BY <2>1, <2>2, <2>3
<1>2. CASE RepairBegin(t)
  <2>1. NewRepair(exec[t].act) \in Attempt
    BY <1>0, NewRepairTyped DEF Executor
  <2>2. Added(exec[t].job, NewRepair(exec[t].act))
    BY <1>0, <1>2, AttemptAdded DEF RepairBegin
  <2>3. ~ NewRepair(exec[t].act).rev /\ NewRepair(exec[t].act).phase = "worker_running"
    BY DEF NewRepair
  <2> QED
    BY <2>1, <2>2, <2>3
<1> QED
  BY <1>1, <1>2 DEF Adds

\* No step removes an attempt, and one that is not written stays as it is.
LEMMA AttemptStays ==
    ASSUME TypeOK, NEW t \in Tokens, Task(t), NEW k \in Jobs, NEW n \in DOMAIN attempts[k]
    PROVE  /\ n \in DOMAIN attempts'[k]
           /\ k # exec[t].job \/ n # exec[t].at \/ ~ Rewrites(t) => attempts'[k][n] = attempts[k][n]
<1>1. Written(t) /\ exec[t].job \in Jobs
  BY TaskWrites, TaskAlive
<1>2. CASE Adds(t)
  <2>1. PICK a \in Attempt : Added(exec[t].job, a)
    BY <1>2, NewAttempt
  <2>2. k = exec[t].job => n \in DOMAIN attempts'[k] /\ attempts'[k][n] = attempts[k][n]
    <3>1. k = exec[t].job => n \in 1..Count(k) /\ Count(k) \in Nat /\ DOMAIN attempts'[k] = 1..(Count(k) + 1)
                             /\ attempts'[k][n] = attempts[k][n]
      BY <1>1, <2>1, AddedElements
    <3> QED
      BY <3>1
  <2>3. k # exec[t].job => attempts'[k] = attempts[k]
    BY <2>1 DEF Added
  <2> QED
    BY <2>2, <2>3
<1>3. CASE Rewrites(t)
  <2>1. Wrote(exec[t].job, exec[t].at)
    BY <1>1, <1>3 DEF Rewrites, Written, Becomes
  <2> QED
    BY <1>3, <2>1 DEF Wrote
<1>4. CASE ~ Adds(t) /\ ~ Rewrites(t)
  BY <1>1, <1>4 DEF Written
<1> QED
  BY <1>2, <1>3, <1>4

\* A verdict is never taken back.
LEMMA VerdictStays ==
    ASSUME TypeOK, NEW t \in Tokens, Task(t), NEW k \in ImageJobs, NEW n \in DOMAIN attempts[k],
           attempts[k][n].qa # "none"
    PROVE  attempts'[k][n].qa # "none"
<1>0. k \in Jobs
  BY JobsAssumption
<1>1. Written(t)
  BY TaskWrites
<1>2. CASE k # exec[t].job \/ n # exec[t].at \/ ~ Rewrites(t)
  BY <1>0, <1>2, AttemptStays
<1>3. CASE k = exec[t].job /\ n = exec[t].at /\ Rewrites(t)
  BY <1>1, <1>3 DEF Rewrites, Written, SameOutput
<1> QED
  BY <1>2, <1>3

\* Where a task is in an attempt, it was in that attempt before, or it has just
\* started it, or it has just found it to reuse.
LEMMA TaskAt ==
    ASSUME TypeOK, NEW t \in Tokens, Task(t), exec'[t].pc \in InAttempt
    PROVE  /\ exec'[t].job = exec[t].job
           /\ \/ exec[t].pc \in InAttempt /\ exec'[t].at = exec[t].at /\ exec'[t].pc # "reuse"
              \/ Adds(t) /\ exec'[t].at = Count(exec[t].job) + 1 /\ exec'[t].pc \in {"build", "repairing"}
              \/ /\ ReuseOutput(t) /\ exec'[t].at \in Reusable(exec[t].job, RequestOf(exec[t].job))
                 /\ exec'[t].pc = IF attempts[exec[t].job][exec'[t].at].phase = "succeeded"
                                  THEN "reuse" ELSE "stage"
           /\ exec'[t].pc = "staged" => StageResult(t)
           /\ exec'[t].pc = "repaired" => RepairStage(t)
           /\ exec'[t].pc \in {"completing", "completingRepair"} => CompleteRead(t) /\ exec'[t].at = exec[t].at
<1>1. ASSUME NEW p, Goes(t, p) PROVE exec'[t].pc = p /\ exec'[t].job = exec[t].job /\ exec'[t].at = exec[t].at
  BY <1>1 DEF Goes, SameWork
<1>2. ~ Ends(t)
  BY DEF Ends, InAttempt
<1>3. CASE Begin(t)
  BY <1>1, <1>2, <1>3, BeginGoes DEF InAttempt
<1>4. CASE Attempting(t)
  <2>1. exec[t].pc \in {"start", "sleep", "build", "invoke"}
    BY <1>4 DEF Attempting, StartAttempt, StartLost, BuildProvider, FailLocally, Dispatch, RefuseDispatch
  <2>2. (BuildProvider(t) \/ FailLocally(t) \/ Dispatch(t) \/ RefuseDispatch(t)) => exec[t].pc \in InAttempt
    BY DEF BuildProvider, FailLocally, Dispatch, RefuseDispatch, InAttempt
  <2>3. CASE StartAttempt(t) /\ exec'[t].pc = "build"
    BY <1>1, <1>2, <1>4, <2>3, AttemptingGoes DEF Adds, InAttempt
  <2>4. CASE ~ (StartAttempt(t) /\ exec'[t].pc = "build")
    <3>1. \/ Goes(t, "giveup")
          \/ exec[t].pc \in InAttempt /\ (Goes(t, "invoke") \/ Goes(t, "failed") \/ Goes(t, "sent"))
      BY <1>4, <2>2, <2>4, AttemptingGoes
    <3> QED
      BY <1>1, <3>1 DEF InAttempt
  <2> QED
    BY <2>3, <2>4
<1>5. CASE Answered(t)
  <2>1. exec[t].pc \in InAttempt
    BY <1>5 DEF Answered, Respond, LoseResponse, CallAgain, ErrorAnswer, PersistResult, InAttempt
  <2> QED
    BY <1>1, <1>2, <1>5, <2>1, AnsweredGoes DEF InAttempt
<1>6. CASE Settling(t)
  <2>1. AfterError(exec[t].err, attempts[exec[t].job][exec[t].at].sent, exec[t].left)
           \notin InAttempt
    BY DEF AfterError, InAttempt
  <2> QED
    BY <1>1, <1>2, <1>6, <2>1, SettlingGoes
<1>7. CASE Staging(t)
  <2>1. ~ CompleteJob(t) \/ Ends(t)
    BY Ended DEF CompleteJob
  <2>2. ~ CompleteJob(t) => exec[t].pc \in InAttempt
    BY <1>7 DEF Staging, BeginStaging, StageFails, StageResult, CompleteRead, InAttempt
  <2> QED
    BY <1>1, <1>2, <1>7, <2>1, <2>2, StagingGoes DEF InAttempt
<1>8. CASE Repairing(t)
  <2>1. (RepairStage(t) \/ RepairFails(t)) => exec[t].pc \in InAttempt
    BY DEF RepairStage, RepairFails, InAttempt
  <2> QED
    BY <1>1, <1>2, <1>8, <2>1, RepairingGoes DEF InAttempt, Adds
<1> QED
  BY <1>3, <1>4, <1>5, <1>6, <1>7, <1>8 DEF Task

\* An output that can be reused is one of the job's, and a completed one has a
\* revision.
LEMMA ReusableFacts ==
    ASSUME NEW j, NEW r, NEW n \in Reusable(j, r)
    PROVE  /\ n \in DOMAIN attempts[j]
           /\ attempts[j][n].phase = "succeeded" => attempts[j][n].rev
  BY DEF Reusable, CallsOf, OutputValid

\* Every step of a task keeps that.
LEMMA TaskOutputs == ASSUME TypeOK, OutputInv, NEW t \in Tokens, Task(t) PROVE OutputInv'
<1> DEFINE j == exec[t].job
           n == exec[t].at
<1>0. j \in Jobs /\ Alive(t) /\ Written(t) /\ OthersStay(t)
  BY TaskAlive, TaskWrites, TaskAlone
<1>1. ASSUME NEW u \in Tokens, exec'[u].pc \in InAttempt
      PROVE  exec'[u].at \in DOMAIN attempts'[exec'[u].job] /\ exec'[u].job \in Jobs
  <2>1. CASE u # t
    <3>1. exec'[u] = exec[u]
      BY <1>0, <2>1 DEF OthersStay
    <3>2. exec[u].job \in Jobs /\ exec[u].at \in DOMAIN attempts[exec[u].job]
      BY <1>1, <3>1, TaskHasJob DEF OutputInv, AttemptsExist, TypeOK, Alive, InAttempt
    <3> QED
      BY <3>1, <3>2, AttemptStays
  <2>2. CASE u = t
    <3>1. CASE exec[t].pc \in InAttempt /\ exec'[t].at = n /\ exec'[t].job = j
      <4>1. n \in DOMAIN attempts[j]
        BY <3>1 DEF OutputInv, AttemptsExist
      <4> QED
        BY <1>0, <2>2, <3>1, <4>1, AttemptStays
    <3>2. CASE Adds(t) /\ exec'[t].at = Count(j) + 1 /\ exec'[t].job = j
      <4>1. PICK a \in Attempt : Added(j, a)
        BY <3>2, NewAttempt
      <4>2. Count(j) \in Nat /\ DOMAIN attempts'[j] = 1..(Count(j) + 1)
        BY <1>0, <4>1, AddedElements
      <4> QED
        BY <1>0, <2>2, <3>2, <4>2
    <3>3. CASE ReuseOutput(t) /\ exec'[t].at \in Reusable(j, RequestOf(j)) /\ exec'[t].job = j
      BY <1>0, <2>2, <3>3, ReusableFacts, AttemptStays
    <3> QED
      BY <1>1, <2>2, <3>1, <3>2, <3>3, TaskAt
  <2> QED
    BY <2>1, <2>2
<1>2. ASSUME NEW k \in ImageJobs, NEW m \in DOMAIN attempts'[k], attempts'[k][m].rev
      PROVE  attempts'[k][m].qa # "none"
  <2>0. k \in Jobs
    BY JobsAssumption
  <2>1. CASE m \in DOMAIN attempts[k] /\ attempts'[k][m] = attempts[k][m]
    BY <1>2, <2>0, <2>1 DEF OutputInv, Judged
  <2>2. CASE Adds(t) /\ ~ (m \in DOMAIN attempts[k] /\ attempts'[k][m] = attempts[k][m])
    <3>1. PICK a \in Attempt : Added(j, a) /\ ~ a.rev
      BY <2>2, NewAttempt
    <3>2. k = j
      BY <1>2, <2>0, <2>2, <3>1 DEF Added
    <3>3. /\ Count(j) \in Nat /\ DOMAIN attempts[j] = 1..Count(j)
          /\ DOMAIN attempts'[j] = 1..(Count(j) + 1)
          /\ \A i \in DOMAIN attempts[j] : attempts'[j][i] = attempts[j][i]
          /\ attempts'[j][Count(j) + 1] = a
      BY <1>0, <3>1, AddedElements
    <3>4. m = Count(j) + 1
      BY <1>2, <2>2, <3>2, <3>3
    <3> QED
      BY <1>2, <3>1, <3>2, <3>3, <3>4
  <2>3. CASE Rewrites(t) /\ ~ (m \in DOMAIN attempts[k] /\ attempts'[k][m] = attempts[k][m])
    <3>1. Wrote(j, n)
      BY <1>0, <2>3 DEF Rewrites, Written, Becomes
    <3>2. k = j /\ m = n /\ n \in DOMAIN attempts[j]
      BY <1>2, <2>0, <2>3, <3>1 DEF Wrote
    <3>3. CASE CompleteJob(t)
      <4>1. attempts[j][n].qa # "none"
        BY <1>2, <3>2, <3>3 DEF CompleteJob, OutputInv, CompletesJudged, Completes
      <4> QED
        BY <1>2, <3>2, <4>1, VerdictStays
    <3>4. CASE StageResult(t) \/ RepairStage(t)
      BY <1>0, <1>2, <3>2, <3>4 DEF Written
    <3>5. CASE ~ (CompleteJob(t) \/ StageResult(t) \/ RepairStage(t))
      <4>1. SameOutput(j, n)
        BY <1>0, <2>3, <3>2, <3>5 DEF Written, Rewrites
      <4> QED
        BY <1>2, <2>0, <3>2, <4>1 DEF SameOutput, OutputInv, Judged
    <3> QED
      BY <3>3, <3>4, <3>5
  <2>4. CASE ~ Adds(t) /\ ~ Rewrites(t)
    <3>1. attempts' = attempts
      BY <1>0, <2>4 DEF Written
    <3> QED
      BY <1>2, <2>1, <3>1
  <2> QED
    BY <2>1, <2>2, <2>3, <2>4
<1>3. ASSUME NEW u \in Tokens, exec'[u].pc \in Completes, exec'[u].job \in ImageJobs
      PROVE  attempts'[exec'[u].job][exec'[u].at].qa # "none"
  <2>1. CASE u # t
    <3>1. exec'[u] = exec[u]
      BY <1>0, <2>1 DEF OthersStay
    <3>2. exec[u].at \in DOMAIN attempts[exec[u].job] /\ attempts[exec[u].job][exec[u].at].qa # "none"
      BY <1>3, <3>1 DEF OutputInv, AttemptsExist, CompletesJudged, Completes, InAttempt
    <3> QED
      BY <1>3, <3>1, <3>2, VerdictStays
  <2>2. CASE u = t
    <3>0. exec'[t].pc \in InAttempt /\ exec'[t].job = j
      BY <1>3, <2>2, TaskAt DEF Completes, InAttempt
    <3>1. CASE exec'[t].pc \in {"staged", "repaired"}
      <4>1. StageResult(t) \/ RepairStage(t)
        BY <3>0, <3>1, TaskAt
      <4>2. exec[t].pc \in {"staging", "repairing"} /\ exec'[t].at = n
        <5>1. CASE StageResult(t)
          BY <5>1 DEF StageResult, TypeOK, ExecutorsOK, Executor
        <5>2. CASE RepairStage(t)
          BY <5>2 DEF RepairStage, TypeOK, ExecutorsOK, Executor
        <5> QED
          BY <4>1, <5>1, <5>2
      <4>3. n \in DOMAIN attempts[j]
        BY <4>2 DEF OutputInv, AttemptsExist, InAttempt
      <4> QED
        BY <1>0, <1>3, <2>2, <3>0, <4>1, <4>2, <4>3 DEF Written
    <3>2. CASE exec'[t].pc = "reuse"
      <4>1. /\ ReuseOutput(t) /\ exec'[t].at \in Reusable(j, RequestOf(j))
            /\ attempts[j][exec'[t].at].phase = "succeeded"
        BY <3>0, <3>2, TaskAt DEF InAttempt
      <4>2. exec'[t].at \in DOMAIN attempts[j] /\ attempts[j][exec'[t].at].rev
        BY <4>1, ReusableFacts
      <4>3. attempts[j][exec'[t].at].qa # "none"
        BY <1>0, <1>3, <2>2, <3>0, <4>2 DEF OutputInv, Judged
      <4> QED
        BY <1>3, <2>2, <3>0, <4>2, <4>3, VerdictStays
    <3>3. CASE exec'[t].pc \in {"completing", "completingRepair"}
      <4>1. CompleteRead(t) /\ exec'[t].at = n
        BY <3>0, <3>3, TaskAt
      <4>2. exec[t].pc \in Completes /\ n \in DOMAIN attempts[j] /\ attempts[j][n].qa # "none"
        BY <1>3, <2>2, <3>0, <4>1 DEF CompleteRead, OutputInv, AttemptsExist, CompletesJudged, Completes, InAttempt
      <4> QED
        BY <1>3, <2>2, <3>0, <4>1, <4>2, VerdictStays
    <3> QED
      BY <1>3, <2>2, <3>1, <3>2, <3>3 DEF Completes
  <2> QED
    BY <2>1, <2>2
<1> QED
  BY <1>1, <1>2, <1>3 DEF OutputInv, AttemptsExist, Judged, CompletesJudged

\* So does every other step.
LEMMA NextOutputs == ASSUME TypeOK, OutputInv, Next PROVE OutputInv'
<1>1. ASSUME attempts' = attempts,
             \A t \in Tokens : exec'[t] = exec[t] \/ exec'[t].pc \in {"claimed", "unused", "done"}
      PROVE  OutputInv'
  BY <1>1 DEF OutputInv, AttemptsExist, Judged, CompletesJudged, InAttempt, Completes
<1>2. CASE Poll
  BY <1>1, <1>2, PollFacts DEF PolledTask
<1>3. CASE User
  BY <1>1, <1>3, UserFacts
<1>4. CASE Restart
  BY <1>1, <1>4, RestartFacts
<1>5. CASE (\E t \in Tokens : Heartbeat(t)) \/ (\E j \in Jobs : ExpireLease(j))
  BY <1>1, <1>5 DEF Heartbeat, ExpireLease
<1> QED
  BY <1>2, <1>3, <1>4, <1>5, TaskOutputs, Zenon DEF Next, Environment

-----------------------------------------------------------------------------
(* A ready job shows a completed candidate *)

\* At most one task is between two commits of the event loop.
MidAlone == \A t, u \in Tokens : exec[t].pc \in Mid /\ exec[u].pc \in Mid => t = u

\* What recovery presents as ready.
Shown(j) ==
    Count(j) > 0 /\ Latest(j).phase = "succeeded" /\ Latest(j).rev /\ job[j].pending = 0

\* Such a job is settled, or its task is about to set it aside: the task has
\* just rejected an outdated action, and no pass of the claim loop comes between.
Settled(k) ==
    \/ job[k].status \in {"candidate_ready", "awaiting_user", "cancelled"}
    \/ job[k].status \in Leased /\ \E t \in Tokens : exec[t].pc = "giveup" /\ exec[t].job = k

\* No other task holds its lease.
Left(k) == \A t \in Tokens : Alive(t) /\ exec[t].job = k /\ Held(t) => exec[t].pc = "giveup"

ShownSettled(k) == Shown(k) => Settled(k) /\ Left(k)

\* CandidateComplete for one job.
Complete(j) ==
    job[j].status = "candidate_ready" =>
        /\ job[j].result \in DOMAIN attempts[j]
        /\ attempts[j][job[j].result].phase = "succeeded"
        /\ attempts[j][job[j].result].rev
        /\ j \in ImageJobs => attempts[j][job[j].result].qa # "none"

CandidateInv ==
    /\ OutputInv /\ LeasedNotReady /\ LeasedOrCancelled /\ MidAlone
    /\ \A j \in Jobs : ShownSettled(j) /\ Complete(j)

\* A task enters the part between two commits only when no other is there.
LEMMA TaskEnters ==
    ASSUME TypeOK, NEW t \in Tokens, Task(t)
    PROVE  exec'[t].pc \notin Mid \/ exec[t].pc \in Mid \/ LoopFree(t)
<1>1. ASSUME NEW p, Goes(t, p) PROVE exec'[t].pc = p
  BY <1>1 DEF Goes
<1>2. Ends(t) => exec'[t].pc \notin Mid
  BY DEF Ends, Mid
<1>3. CASE Begin(t)
  BY <1>3 DEF Begin, BeginLost, BeginRepair, RejectStaleAction, PrepareFails, ReuseOutput,
     CallsExhausted, PrepareCall, Preparing
<1>4. CASE Attempting(t)
  BY <1>4 DEF Attempting, StartAttempt, StartLost, BuildProvider, FailLocally, Dispatch, RefuseDispatch
<1>5. CASE Answered(t)
  BY <1>5 DEF Answered, Respond, LoseResponse, CallAgain, ErrorAnswer, PersistResult
<1>6. CASE Settling(t)
  BY <1>6 DEF Settling, FinishAttemptError, PauseProviderQueue, SetAwaitingUser, Mid
<1>7. CASE Staging(t)
  <2>1. StageFails(t) \/ (CompleteRead(t) /\ exec[t].pc # "repaired") => LoopFree(t)
    BY DEF StageFails, CompleteRead
  <2> QED
    BY <1>1, <1>2, <1>7, <2>1, StagingGoes DEF Mid
<1>8. CASE Repairing(t)
  BY <1>1, <1>8, RepairingGoes DEF Mid
<1> QED
  BY <1>3, <1>4, <1>5, <1>6, <1>7, <1>8 DEF Task

\* Every step leaves at most one task there.
LEMMA NextAlone == ASSUME TypeOK, MidAlone, Next PROVE MidAlone'
<1>1. ASSUME \A t \in Tokens : exec'[t].pc \in Mid => exec'[t] = exec[t] PROVE MidAlone'
  BY <1>1 DEF MidAlone
<1>2. ASSUME NEW t \in Tokens, Task(t) PROVE MidAlone'
  <2>1. OthersStay(t)
    BY <1>2, TaskAlone
  <2>2. exec'[t].pc \notin Mid \/ exec[t].pc \in Mid \/ LoopFree(t)
    BY <1>2, TaskEnters
  <2> QED
    BY <2>1, <2>2 DEF MidAlone, OthersStay, LoopFree
<1>3. CASE Poll
  BY <1>1, <1>3, PollFacts DEF PolledTask, Mid
<1>4. CASE User
  BY <1>1, <1>4, UserFacts
<1>5. CASE Restart
  BY <1>1, <1>5, RestartFacts DEF Mid
<1>6. CASE (\E t \in Tokens : Heartbeat(t)) \/ (\E j \in Jobs : ExpireLease(j))
  BY <1>1, <1>6 DEF Heartbeat, ExpireLease
<1> QED
  BY <1>2, <1>3, <1>4, <1>5, <1>6, Zenon DEF Next, Environment

\* How a task changes the status of a job.
TaskStatus(t, k) ==
    \/ job'[k].status = job[k].status
    \/ k = exec[t].job /\ job'[k].status \in Leased /\ (PersistResult(t) \/ (Held(t) /\ ~ Rewrites(t)))
    \/ PauseProviderQueue(t) /\ k \in Paused(t) /\ job'[k].status \in {"credentials_locked", "awaiting_user"}
    \/ k = exec[t].job /\ (SetAwaitingUser(t) \/ CompleteJob(t))

\* No step of a task does anything else to it.
LEMMA TaskStatuses ==
    ASSUME TypeOK, NEW t \in Tokens, Task(t), NEW k \in Jobs
    PROVE  TaskStatus(t, k)
<1>1. CASE Begin(t)
  BY <1>1, BeginFacts DEF SameFacts, Others, TaskStatus
<1>2. CASE Attempting(t)
  BY <1>2, AttemptingFacts DEF TaskStatus
<1>3. CASE Answered(t)
  BY <1>3, AnsweredFacts DEF Others, TaskStatus, Leased
<1>4. CASE FinishAttemptError(t)
  BY <1>4 DEF FinishAttemptError, TaskStatus
<1>5. CASE PauseProviderQueue(t)
  BY <1>5, PauseFacts DEF TaskStatus
<1>6. CASE SetAwaitingUser(t)
  BY <1>6, AwaitingFacts DEF Others, TaskStatus
<1>7. CASE CompleteJob(t)
  BY <1>7, CompletedFacts DEF Others, TaskStatus
<1>8. CASE Staging(t) /\ ~ CompleteJob(t)
  <2>1. BeginStaging(t) => Held(t) /\ exec[t].pc = "stage"
    BY DEF BeginStaging
  <2>2. exec[t].pc = "stage" => ~ Rewrites(t)
    BY DEF Rewrites, Dispatch, Respond, PersistResult, FinishAttemptError, StageResult, CompleteJob,
       RepairStage
  <2> QED
    BY <1>8, <2>1, <2>2, StagingFacts DEF Others, TaskStatus, Leased
<1>9. CASE Repairing(t)
  <2>1. RepairBegin(t) => Held(t) /\ exec[t].pc = "repair"
    BY DEF RepairBegin
  <2>2. exec[t].pc = "repair" => ~ Rewrites(t)
    BY DEF Rewrites, Dispatch, Respond, PersistResult, FinishAttemptError, StageResult, CompleteJob,
       RepairStage
  <2> QED
    BY <1>9, <2>1, <2>2, RepairingFacts DEF Others, TaskStatus, Leased
<1> QED
  BY <1>1, <1>2, <1>3, <1>4, <1>5, <1>6, <1>7, <1>8, <1>9 DEF Task, Settling

\* A task completes or sets aside the job it makes recovery show, or it has just
\* rejected its action.
LEMMA TaskShows ==
    ASSUME TypeOK, TypeOK', NEW t \in Tokens, Task(t), NEW k \in Jobs, Shown(k)'
    PROVE  \/ k = exec[t].job /\ (SetAwaitingUser(t) \/ CompleteJob(t) \/ RejectStaleAction(t))
           \/ Shown(k)
<1> DEFINE j == exec[t].job
           n == exec[t].at
<1> SUFFICES ASSUME ~ (k = j /\ (SetAwaitingUser(t) \/ CompleteJob(t) \/ RejectStaleAction(t)))
             PROVE  Shown(k)
  OBVIOUS
<1>0. j \in Jobs /\ Written(t)
  BY TaskAlive, TaskWrites
<1>1. /\ Len(attempts'[k]) > 0 /\ attempts'[k][Len(attempts'[k])].phase = "succeeded"
      /\ attempts'[k][Len(attempts'[k])].rev /\ job'[k].pending = 0
  BY DEF Shown, Count, Latest
<1>2. job[k].pending = 0
  <2>1. CASE Begin(t)
    BY <1>1, <2>1, BeginFacts DEF SameFacts, Others
  <2>2. CASE Attempting(t)
    BY <1>1, <2>2, AttemptingFacts
  <2>3. CASE Answered(t)
    BY <1>1, <2>3, AnsweredFacts DEF Others
  <2>4. CASE FinishAttemptError(t)
    BY <1>1, <2>4 DEF FinishAttemptError
  <2>5. CASE PauseProviderQueue(t)
    BY <1>1, <2>5, PauseFacts
  <2>6. CASE SetAwaitingUser(t)
    BY <1>1, <2>6, AwaitingFacts DEF Others
  <2>7. CASE CompleteJob(t)
    BY <1>1, <2>7, CompletedFacts DEF Others
  <2>8. CASE Staging(t) /\ ~ CompleteJob(t)
    BY <1>1, <2>8, StagingFacts DEF Others
  <2>9. CASE Repairing(t)
    BY <1>1, <2>9, RepairingFacts DEF Others
  <2> QED
    BY <2>1, <2>2, <2>3, <2>4, <2>5, <2>6, <2>7, <2>8, <2>9 DEF Task, Settling
<1>3. CASE Adds(t)
  <2>1. PICK a \in Attempt : Added(j, a) /\ a.phase # "succeeded"
    BY <1>3, NewAttempt
  <2>2. Len(attempts'[j]) = Count(j) + 1 /\ attempts'[j][Count(j) + 1] = a
    BY <1>0, <2>1, AddedElements
  <2>3. k # j
    BY <1>1, <2>1, <2>2
  <2> QED
    BY <1>1, <1>2, <2>1, <2>3 DEF Added, Shown, Count, Latest
<1>4. CASE Rewrites(t)
  <2>1. Wrote(j, n)
    BY <1>0, <1>4 DEF Rewrites, Written, Becomes
  <2>2. attempts[k] \in Seq(Attempt) /\ attempts'[k] \in Seq(Attempt)
    BY DEF TypeOK
  <2>3. Len(attempts'[k]) = Len(attempts[k])
    BY <2>1, <2>2 DEF Wrote
  <2>4. CASE k # j \/ n # Count(k)
    BY <1>1, <1>2, <2>1, <2>2, <2>3, <2>4 DEF Wrote, Shown, Count, Latest
  <2>5. CASE k = j /\ n = Count(j)
    <3>1. n \in DOMAIN attempts[j] /\ attempts'[j][n].phase = "succeeded" /\ attempts'[j][n].rev
      BY <1>1, <2>2, <2>3, <2>5 DEF Count
    <3>2. Respond(t) => attempts[j][n].phase = "succeeded" /\ attempts[j][n].rev
      BY <1>0, <3>1 DEF Written, Becomes, SameOutput
    <3>3. Respond(t)
      BY <1>0, <1>4, <2>5, <3>1 DEF Rewrites, Written, Becomes
    <3> QED
      BY <1>1, <1>2, <2>3, <2>5, <3>2, <3>3 DEF Shown, Count, Latest
  <2> QED
    BY <2>4, <2>5
<1>5. CASE ~ Adds(t) /\ ~ Rewrites(t)
  <2>1. attempts' = attempts
    BY <1>0, <1>5 DEF Written
  <2> QED
    BY <1>1, <1>2, <2>1 DEF Shown, Count, Latest
<1> QED
  BY <1>3, <1>4, <1>5

\* A task that goes on stays with its job, and one that is about to set its job
\* aside does that.
LEMMA TaskStays ==
    ASSUME TypeOK, NEW t \in Tokens, Task(t)
    PROVE  /\ Alive(t)' => exec'[t].job = exec[t].job
           /\ exec[t].pc = "giveup" => SetAwaitingUser(t)
<1>1. exec[t].pc = "giveup" => SetAwaitingUser(t)
  BY Zenon DEF Task, Begin, BeginLost, BeginRepair, RejectStaleAction, PrepareFails, ReuseOutput,
     CallsExhausted, PrepareCall, Preparing, Attempting, StartAttempt, StartLost, BuildProvider,
     FailLocally, Dispatch, RefuseDispatch, Answered, Respond, LoseResponse, CallAgain, ErrorAnswer,
     PersistResult, Settling, FinishAttemptError, PauseProviderQueue, Staging,
     BeginStaging, StageFails, StageResult, CompleteRead, CompleteJob, Repairing, RepairStale,
     RepairRejected, RepairBegin, RepairStage, RepairFails
<1>2. ASSUME NEW p, Goes(t, p) PROVE exec'[t].job = exec[t].job
  BY <1>2 DEF Goes, SameWork
<1>3. Ends(t) => ~ Alive(t)'
  BY DEF Ends, Alive
<1>4. CASE Begin(t)
  BY <1>1, <1>2, <1>3, <1>4, BeginGoes
<1>5. CASE Attempting(t)
  BY <1>1, <1>2, <1>5, AttemptingGoes
<1>6. CASE Answered(t)
  BY <1>1, <1>2, <1>6, AnsweredGoes
<1>7. CASE Settling(t)
  BY <1>1, <1>2, <1>3, <1>7, SettlingGoes
<1>8. CASE Staging(t)
  BY <1>1, <1>2, <1>3, <1>8, StagingGoes
<1>9. CASE Repairing(t)
  BY <1>1, <1>2, <1>9, RepairingGoes
<1> QED
  BY <1>1, <1>4, <1>5, <1>6, <1>7, <1>8, <1>9 DEF Task

\* A step of a task settles the jobs that it makes recovery show.
LEMMA TaskSettlesShown ==
    ASSUME TypeOK, TypeOK', CandidateInv, NEW t \in Tokens, Task(t), ~ LateWrite, ~ UnseenLease,
           NEW k \in Jobs, Shown(k)'
    PROVE  Settled(k)' /\ Left(k)'
<1> DEFINE j == exec[t].job
<1>0. /\ Alive(t) /\ j \in Jobs /\ OthersStay(t) /\ RowKept(k) /\ TaskStatus(t, k)
      /\ Alive(t)' => exec'[t].job = j
      /\ exec[t].pc = "giveup" => SetAwaitingUser(t)
  BY TaskAlive, TaskAlone, TaskRows, TaskStatuses, TaskStays DEF RowsKept
<1>1. CASE k = j /\ (SetAwaitingUser(t) \/ CompleteJob(t))
  <2>1. /\ job'[k].status \in {"candidate_ready", "awaiting_user", "cancelled"}
        /\ job'[k].lease = 0
    BY <1>1, AwaitingFacts, CompletedFacts DEF UnseenLease
  <2> QED
    BY <2>1 DEF Settled, Left, Held, Tokens
<1>2. CASE k = j /\ RejectStaleAction(t)
  <2>1. Begin(t) /\ Held(t)
    BY <1>2 DEF Begin, RejectStaleAction, Preparing
  <2>2. job'[k].lease = t /\ job'[k].status = job[k].status
    BY <1>2, <2>1, BeginFacts DEF Held
  <2>3. job[k].status \in Leased \cup {"cancelled"}
    BY <1>2, <2>1 DEF Held, CandidateInv, LeasedOrCancelled, Tokens
  <2>4. exec'[t].pc = "giveup" /\ exec'[t].job = j
    <3>1. Goes(t, "giveup")
      BY <1>2, Gone DEF RejectStaleAction
    <3> QED
      BY <3>1 DEF Goes, SameWork
  <2> QED
    BY <1>2, <2>2, <2>3, <2>4 DEF Settled, Left, Held
<1>3. CASE ~ (k = j /\ (SetAwaitingUser(t) \/ CompleteJob(t) \/ RejectStaleAction(t)))
  <2>1. Shown(k)
    BY <1>3, TaskShows
  <2>2. Settled(k) /\ Left(k)
    BY <2>1 DEF CandidateInv, ShownSettled
  <2>3. ~ (k = j /\ Held(t))
    BY <1>0, <1>3, <2>2 DEF Left
  <2>4. Left(k)'
    <3> SUFFICES ASSUME NEW u \in Tokens, Alive(u)', exec'[u].job = k, job'[k].lease = u
                 PROVE  exec'[u].pc = "giveup"
      BY DEF Left, Held
    <3>1. job[k].lease = u
      BY <1>0 DEF RowKept, Tokens
    <3>2. u # t
      BY <1>0, <2>3, <3>1 DEF Held
    <3>3. exec'[u] = exec[u]
      BY <1>0, <3>2 DEF OthersStay
    <3> QED
      BY <2>2, <3>1, <3>3 DEF Left, Held, Alive
  <2>5. Settled(k)'
    <3>1. CASE job'[k].status = job[k].status
      <4>1. CASE job[k].status \in Leased /\ \E u \in Tokens : exec[u].pc = "giveup" /\ exec[u].job = k
        <5>1. PICK u \in Tokens : exec[u].pc = "giveup" /\ exec[u].job = k
          BY <4>1
        <5>2. u # t
          BY <1>0, <1>3, <5>1
        <5>3. exec'[u] = exec[u]
          BY <1>0, <5>2 DEF OthersStay
        <5> QED
          BY <3>1, <4>1, <5>1, <5>3 DEF Settled
      <4> QED
        BY <2>2, <3>1, <4>1 DEF Settled
    <3>2. CASE k = j /\ (PersistResult(t) \/ Held(t))
      BY <1>0, <2>3, <3>2 DEF LateWrite
    <3>3. CASE PauseProviderQueue(t) /\ k \in Paused(t)
      <4>1. job[k].status \in {"queued", "running", "output_received"} /\ exec[t].pc \in {"lock", "pause"}
        BY <3>3, PauseFacts DEF Paused
      <4>2. PICK u \in Tokens : exec[u].pc = "giveup"
        BY <2>2, <4>1 DEF Settled
      <4>3. u = t
        BY <4>1, <4>2 DEF CandidateInv, MidAlone, Mid
      <4> QED
        BY <4>1, <4>2, <4>3
    <3> QED
      BY <1>0, <1>3, <3>1, <3>2, <3>3 DEF TaskStatus
  <2> QED
    BY <2>4, <2>5
<1> QED
  BY <1>1, <1>2, <1>3

\* Staging and completion choose the candidate.
LEMMA TaskResult ==
    ASSUME TypeOK, NEW t \in Tokens, Task(t), NEW k \in Jobs
    PROVE  \/ job'[k].result = job[k].result
           \/ k = exec[t].job /\ (CompleteJob(t) \/ StageResult(t) \/ RepairStage(t))
<1>1. CASE Begin(t)
  BY <1>1, BeginFacts DEF SameFacts, Others
<1>2. CASE Attempting(t)
  BY <1>2, AttemptingFacts
<1>3. CASE Answered(t)
  BY <1>3, AnsweredFacts DEF Others
<1>4. CASE FinishAttemptError(t)
  BY <1>4 DEF FinishAttemptError
<1>5. CASE PauseProviderQueue(t)
  BY <1>5, PauseFacts
<1>6. CASE SetAwaitingUser(t)
  BY <1>6, AwaitingFacts DEF Others
<1>7. CASE CompleteJob(t)
  BY <1>7, CompletedFacts DEF Others
<1>8. CASE Staging(t) /\ ~ CompleteJob(t)
  BY <1>8, StagingFacts DEF Others
<1>9. CASE Repairing(t)
  BY <1>9, RepairingFacts DEF Others
<1> QED
  BY <1>1, <1>2, <1>3, <1>4, <1>5, <1>6, <1>7, <1>8, <1>9 DEF Task, Settling

\* The job that a task makes ready shows the attempt of the task; another ready
\* job keeps its candidate.
LEMMA TaskCompletes ==
    ASSUME TypeOK, CandidateInv, NEW t \in Tokens, Task(t), ~ LateWrite, NEW k \in Jobs
    PROVE  Complete(k)'
<1> DEFINE j == exec[t].job
           n == exec[t].at
           r == job[k].result
<1> SUFFICES ASSUME job'[k].status = "candidate_ready"
             PROVE  /\ job'[k].result \in DOMAIN attempts'[k]
                    /\ attempts'[k][job'[k].result].phase = "succeeded"
                    /\ attempts'[k][job'[k].result].rev
                    /\ k \in ImageJobs => attempts'[k][job'[k].result].qa # "none"
  BY DEF Complete
<1>0. /\ Alive(t) /\ j \in Jobs /\ Written(t) /\ TaskStatus(t, k)
      /\ SetAwaitingUser(t) /\ k = j => job'[k].status = "awaiting_user"
  BY TaskAlive, TaskWrites, TaskStatuses, AwaitingFacts
<1>1. CASE k = j /\ CompleteJob(t)
  <2>1. exec[t].pc \in {"completing", "completingRepair"} /\ job'[k].result = n
    BY <1>1, CompletedFacts
  <2>2. n \in DOMAIN attempts[j]
    BY <2>1 DEF CandidateInv, OutputInv, AttemptsExist, InAttempt
  <2>3. k \in ImageJobs => attempts[j][n].qa # "none"
    BY <1>1, <2>1 DEF CandidateInv, OutputInv, CompletesJudged, Completes
  <2>4. /\ DOMAIN attempts'[j] = DOMAIN attempts[j]
        /\ attempts'[j][n].phase = "succeeded" /\ attempts'[j][n].rev
        /\ attempts'[j][n].qa = attempts[j][n].qa
    BY <1>0, <1>1, <2>2 DEF Written, Becomes, Wrote
  <2> QED
    BY <1>1, <2>1, <2>2, <2>3, <2>4
<1>2. CASE ~ (k = j /\ CompleteJob(t))
  <2>1. job[k].status = "candidate_ready"
    BY <1>0, <1>2 DEF TaskStatus, Leased
  <2>2. /\ r \in DOMAIN attempts[k] /\ attempts[k][r].phase = "succeeded" /\ attempts[k][r].rev
        /\ k \in ImageJobs => attempts[k][r].qa # "none"
    BY <2>1 DEF CandidateInv, Complete
  <2>3. ~ (k = j /\ Held(t))
    BY <2>1 DEF CandidateInv, LeasedNotReady, Held, Tokens
  <2>4. k = j => ~ (Dispatch(t) \/ PersistResult(t) \/ FinishAttemptError(t) \/ StageResult(t) \/ RepairStage(t))
    BY <1>0, <2>3 DEF LateWrite, Dispatch, MayDispatch
  <2>5. job'[k].result = r
    BY <1>2, <2>4, TaskResult
  <2>6. r \in DOMAIN attempts'[k] /\ (k # j \/ r # n \/ ~ Rewrites(t) => attempts'[k][r] = attempts[k][r])
    BY <2>2, AttemptStays
  <2>7. CASE k = j /\ r = n /\ Rewrites(t)
    <3>1. Respond(t)
      BY <1>2, <2>4, <2>7 DEF Rewrites
    <3>2. attempts'[j][n].phase = attempts[j][n].phase /\ SameOutput(j, n)
      BY <1>0, <2>2, <2>7, <3>1 DEF Written, Becomes
    <3> QED
      BY <2>2, <2>5, <2>6, <2>7, <3>2 DEF SameOutput
  <2> QED
    BY <2>2, <2>5, <2>6, <2>7
<1> QED
  BY <1>1, <1>2

\* Recovery shows a job as ready only if its latest attempt is completed, and
\* sets such a job aside if its action is lost.
LEMMA RecoveryShows ==
    ASSUME TypeOK, NEW k \in Jobs, NEW unlocked
    PROVE  /\ RecoveryTarget(k, unlocked) = "candidate_ready" =>
                Count(k) > 0 /\ Latest(k).phase = "succeeded" /\ Latest(k).rev /\ job[k].pending = 0
           /\ Count(k) > 0 /\ Latest(k).phase = "succeeded" /\ Latest(k).rev =>
                \/ job[k].pending = 0 /\ RecoveryTarget(k, unlocked) = "candidate_ready"
                \/ job[k].pending # 0 /\ RecoveryTarget(k, unlocked) # "candidate_ready"
  BY DEF RecoveryTarget

\* A pass keeps them, too.
LEMMA PollCandidates ==
    ASSUME TypeOK, CandidateInv, Poll, NEW k \in Jobs
    PROVE  /\ Shown(k)' => Settled(k)' /\ Left(k)'
           /\ Complete(k)'
<1>0. /\ attempts' = attempts /\ PolledRow(k) /\ \A t \in Tokens : PolledTask(t)
      /\ Count(k)' = Count(k) /\ Latest(k)' = Latest(k)
  BY PollFacts DEF Count, Latest
<1>1. \A t \in Tokens : exec[t].pc # "giveup"
  <2>1. LoopFree(0)
    BY Zenon DEF Poll
  <2> QED
    BY <2>1 DEF LoopFree, Mid, Tokens
<1>2. ASSUME Shown(k) PROVE k \notin Stale
  BY <1>1, <1>2 DEF CandidateInv, ShownSettled, Settled, Stale, Leased
<1>3. ASSUME Shown(k)' PROVE Settled(k)' /\ Left(k)'
  <2>1. /\ Count(k) > 0 /\ Latest(k).phase = "succeeded" /\ Latest(k).rev /\ Swept(k).pending = 0
    BY <1>0, <1>3 DEF Shown, PolledRow
  <2>2. CASE k \in Stale
    <3>1. job[k].pending # 0
      BY <1>2, <2>1, <2>2 DEF Shown
    <3>2. Swept(k) = Recovered(k, vault, FALSE)
      BY <2>2 DEF Swept
    <3>3. /\ Swept(k).status = RecoveryTarget(k, vault) /\ Swept(k).lease = 0
          /\ Swept(k).pending = IF RecoveryTarget(k, vault) = "awaiting_user" THEN 0 ELSE job[k].pending
      <4>1. /\ Recovered(k, vault, FALSE).status = RecoveryTarget(k, vault)
            /\ Recovered(k, vault, FALSE).lease = 0
            /\ Recovered(k, vault, FALSE).pending
                  = IF RecoveryTarget(k, vault) = "awaiting_user" THEN 0 ELSE job[k].pending
        BY RecoveredFacts
      <4> QED
        BY <3>2, <4>1, Zenon
    <3>4. Swept(k).status = "awaiting_user"
      BY <2>1, <3>1, <3>3
    <3>5. ~ Queueing(k)
      BY <2>1, <3>4 DEF Queueing
    <3>6. job'[k].status = "awaiting_user" /\ job'[k].lease = 0
      BY <1>0, <3>3, <3>4, <3>5 DEF PolledRow
    <3> QED
      BY <3>6 DEF Settled, Left, Held, Tokens
  <2>3. CASE k \notin Stale
    <3>1. Swept(k) = job[k] /\ Shown(k)
      BY <2>1, <2>3 DEF Swept, Shown
    <3>2. job[k].status \in {"candidate_ready", "awaiting_user", "cancelled"}
      BY <1>1, <3>1 DEF CandidateInv, ShownSettled, Settled
    <3>3. ~ Queueing(k)
      BY <2>1, <3>1, <3>2 DEF Queueing
    <3>4. job'[k].status = job[k].status /\ job'[k].lease = job[k].lease
      BY <1>0, <3>1, <3>2, <3>3 DEF PolledRow
    <3>5. Left(k)'
      <4> SUFFICES ASSUME NEW u \in Tokens, Alive(u)', exec'[u].job = k, job'[k].lease = u
                   PROVE  exec'[u].pc = "giveup"
        BY DEF Left, Held
      <4>1. exec'[u] = exec[u]
        BY <1>0, <3>3 DEF PolledTask
      <4>2. Alive(u) /\ exec[u].job = k /\ Held(u)
        BY <3>4, <4>1 DEF Alive, Held
      <4> QED
        BY <3>1, <4>1, <4>2 DEF CandidateInv, ShownSettled, Left
    <3> QED
      BY <3>2, <3>4, <3>5 DEF Settled
  <2> QED
    BY <2>2, <2>3
<1>4. Complete(k)'
  <2> SUFFICES ASSUME job'[k].status = "candidate_ready"
               PROVE  job'[k].result = job[k].result /\ job[k].status = "candidate_ready"
    BY <1>0 DEF CandidateInv, Complete
  <2>1. Swept(k).status = "candidate_ready" /\ job'[k].result = Swept(k).result
    BY <1>0 DEF PolledRow
  <2>2. k \notin Stale
    <3> SUFFICES ASSUME k \in Stale PROVE FALSE
      OBVIOUS
    <3>1. Recovered(k, vault, FALSE).status = "candidate_ready"
      BY <2>1 DEF Swept
    <3>2. RecoveryTarget(k, vault) = "candidate_ready"
      BY <3>1, RecoveredFacts
    <3>3. Shown(k)
      BY <3>2, RecoveryShows DEF Shown
    <3> QED
      BY <1>2, <3>3
  <2> QED
    BY <2>1, <2>2 DEF Swept
<1> QED
  BY <1>3, <1>4

\* So does a decision of a user.
LEMMA UserCandidates ==
    ASSUME TypeOK, CandidateInv, User, ~ StaleResume, NEW k \in Jobs
    PROVE  /\ Shown(k)' => Settled(k)' /\ Left(k)'
           /\ Complete(k)'
<1>0. /\ attempts' = attempts /\ exec' = exec /\ Decided(k) /\ job'[k].lease \in {0, job[k].lease}
      /\ Count(k)' = Count(k) /\ Latest(k)' = Latest(k)
  BY UserFacts, UserLeases DEF Count, Latest, LeasesKept
<1>1. Len(actions[k]) + 1 # 0
  BY DEF TypeOK
<1>2. ASSUME Shown(k)' PROVE Settled(k)' /\ Left(k)'
  <2>1. Count(k) > 0 /\ Latest(k).phase = "succeeded" /\ Latest(k).rev /\ job'[k].pending = 0
    BY <1>0, <1>2 DEF Shown
  <2>2. job[k].pending = 0
    BY <1>0, <2>1 DEF Decided, Accepts
  <2>3. Shown(k)
    BY <2>1, <2>2 DEF Shown
  <2>4. Settled(k) /\ Left(k)
    BY <2>3 DEF CandidateInv, ShownSettled
  <2>5. Left(k)'
    BY <1>0, <2>4 DEF Left, Held, Alive, Tokens
  <2>6. ~ HasOutput(k) /\ ~ RecoverableAction(k)
    BY <2>1, <2>2 DEF HasOutput, OutputValid, RecoverableAction, PendingKind
  <2>7. job[k].status # "credentials_locked"
    BY <2>4 DEF Settled, Leased
  <2>8. job'[k].status = job[k].status \/ job'[k].status \in {"awaiting_user", "cancelled"}
    <3>1. CASE \E kind \in Kind : \E resume \in BOOLEAN : Accepts(k, kind, resume)
      BY <1>1, <2>1, <3>1 DEF Accepts
    <3> QED
      BY <1>0, <2>6, <2>7, <3>1 DEF Decided, Unlocks, Cancels, Refuses, Requeues
  <2> QED
    BY <1>0, <2>4, <2>5, <2>8 DEF Settled
<1>3. Complete(k)'
  <2> SUFFICES ASSUME job'[k].status = "candidate_ready"
               PROVE  job'[k].result = job[k].result /\ job[k].status = "candidate_ready"
    BY <1>0 DEF CandidateInv, Complete
  <2> QED
    BY <1>0 DEF Decided, Accepts, Unlocks, Cancels, Refuses, Requeues
<1> QED
  BY <1>2, <1>3

\* And so does a restart, which shows the latest attempt.
LEMMA RestartCandidates ==
    ASSUME TypeOK, CandidateInv, Restart, NEW k \in Jobs
    PROVE  /\ Shown(k)' => Settled(k)' /\ Left(k)'
           /\ Complete(k)'
<1>0. /\ attempts' = attempts /\ \A t \in Tokens : exec'[t].pc \in {"unused", "done"}
      /\ Count(k)' = Count(k) /\ Latest(k)' = Latest(k)
  BY RestartFacts DEF Count, Latest
<1>1. Left(k)'
  BY <1>0 DEF Left, Alive
<1>2. CASE job[k].status \in Leased
  <2>1. job'[k] = Recovered(k, {}, TRUE)
    BY <1>2, RestartFacts
  <2>2. /\ job'[k].status = RecoveryTarget(k, {})
        /\ job'[k].pending = IF RecoveryTarget(k, {}) = "awaiting_user" THEN 0 ELSE job[k].pending
        /\ job'[k].result = IF RecoveryTarget(k, {}) = "candidate_ready" THEN Count(k) ELSE job[k].result
    BY <2>1, RecoveredFacts
  <2>3. Shown(k)' => Settled(k)'
    BY <1>0, <2>2, RecoveryShows DEF Shown, Settled
  <2>4. ASSUME job'[k].status = "candidate_ready" PROVE Complete(k)'
    <3>1. /\ Count(k) > 0 /\ Latest(k).phase = "succeeded" /\ Latest(k).rev
          /\ job'[k].result = Count(k)
      BY <2>2, <2>4, RecoveryShows
    <3>2. Count(k) \in DOMAIN attempts[k]
      BY <3>1 DEF TypeOK, Count
    <3>3. k \in ImageJobs => Latest(k).qa # "none"
      BY <3>1, <3>2 DEF CandidateInv, OutputInv, Judged, Latest
    <3> QED
      BY <1>0, <3>1, <3>2, <3>3 DEF Complete, Latest
  <2> QED
    BY <1>1, <2>3, <2>4 DEF Complete
<1>3. CASE job[k].status \notin Leased
  <2>1. job'[k] = job[k]
    BY <1>3, RestartFacts
  <2>2. Complete(k)'
    BY <1>0, <2>1 DEF CandidateInv, Complete
  <2>3. ASSUME Shown(k)' PROVE Settled(k)'
    <3>1. Shown(k)
      BY <1>0, <2>1, <2>3 DEF Shown
    <3> QED
      BY <1>3, <2>1, <3>1 DEF CandidateInv, ShownSettled, Settled
  <2> QED
    BY <1>1, <2>2, <2>3
<1> QED
  BY <1>2, <1>3

\* The invariant is inductive as long as no task writes without its lease, and
\* neither a resumption nor a completion overtakes a claim.
LEMMA NextCandidates ==
    ASSUME TypeOK, TypeOK', CandidateInv, Next, ~ LateWrite, ~ StaleResume, ~ UnseenLease
    PROVE  CandidateInv'
<1>1. OutputInv' /\ LeasedNotReady' /\ LeasedOrCancelled' /\ MidAlone'
  <2>1. ~ OutdatedResume
    BY DEF OutdatedResume, StaleResume
  <2> QED
    BY <2>1, NextOutputs, NextLeased, NextAlone DEF CandidateInv
<1>2. ASSUME NEW k \in Jobs PROVE (Shown(k)' => Settled(k)' /\ Left(k)') /\ Complete(k)'
  <2>1. CASE \E t \in Tokens : Task(t)
    BY <2>1, TaskSettlesShown, TaskCompletes
  <2>2. CASE Poll
    BY <2>2, PollCandidates
  <2>3. CASE User
    BY <2>3, UserCandidates
  <2>4. CASE Restart
    BY <2>4, RestartCandidates
  <2>5. CASE (\E t \in Tokens : Heartbeat(t)) \/ (\E j \in Jobs : ExpireLease(j))
    <3>1. exec' = exec /\ attempts' = attempts
      BY <2>5 DEF Heartbeat, ExpireLease
    <3>2. SameFacts(k) /\ job'[k].lease = job[k].lease
      BY <2>5, RenewedFacts
    <3>3. Shown(k) = Shown(k)' /\ Settled(k) = Settled(k)' /\ Complete(k) = Complete(k)'
      BY <3>1, <3>2 DEF Shown, Settled, Complete, Count, Latest, SameFacts
    <3>4. Left(k) = Left(k)'
      BY <3>1, <3>2 DEF Left, Held, Alive
    <3>5. (Shown(k) => Settled(k) /\ Left(k)) /\ Complete(k)
      BY DEF CandidateInv, ShownSettled
    <3> QED
      BY <3>3, <3>4, <3>5
  <2> QED
    BY <2>1, <2>2, <2>3, <2>4, <2>5, Zenon DEF Next, Environment
<1>3. \A k \in Jobs : ShownSettled(k)' /\ Complete(k)'
  BY <1>2 DEF ShownSettled
<1> QED
  BY <1>1, <1>3 DEF CandidateInv

\* A ready job shows the output of a completed attempt, and an image one that
\* hard QA has looked at: as long as no task writes to an attempt or a candidate
\* after its lease was lost, no resumption queues a job that it would not queue
\* if it read it again, and no late completion leaves a claim on a ready job.
THEOREM CandidateCompleteHolds ==
    Spec /\ [][~ LateWrite]_vars /\ [][~ StaleResume]_vars /\ [][~ UnseenLease]_vars
       => []CandidateComplete
<1>1. Init => CandidateInv
  <2> SUFFICES ASSUME Init PROVE CandidateInv
    OBVIOUS
  <2>1. \A t \in Tokens : exec[t].pc = "unused"
    BY DEF Init, Idle
  <2>2. \A k \in Jobs : /\ job[k].lease = 0 /\ job[k].status \in {"queued", "credentials_locked"}
                        /\ attempts[k] = <<>>
    BY DEF Init
  <2>3. OutputInv /\ MidAlone
    BY <2>1, <2>2, JobsAssumption DEF OutputInv, AttemptsExist, Judged, CompletesJudged, Completes, InAttempt, MidAlone, Mid
  <2>4. LeasedNotReady /\ LeasedOrCancelled
    BY <2>2 DEF LeasedNotReady, LeasedOrCancelled
  <2>5. \A k \in Jobs : Complete(k) /\ ~ Shown(k)
    BY <2>2 DEF Complete, Shown, Count
  <2> QED
    BY <2>3, <2>4, <2>5 DEF CandidateInv, ShownSettled
<1>2. TypeOK /\ TypeOK' /\ CandidateInv /\ [Next]_vars /\ [~ LateWrite]_vars
        /\ [~ StaleResume]_vars /\ [~ UnseenLease]_vars => CandidateInv'
  <2>1. UNCHANGED vars /\ CandidateInv => CandidateInv'
    BY DEF vars, CandidateInv, OutputInv, AttemptsExist, Judged, CompletesJudged, LeasedNotReady, LeasedOrCancelled,
       MidAlone, ShownSettled, Settled, Left, Complete, Shown, Count, Latest, Held, Alive
  <2> QED
    BY <2>1, NextCandidates
<1>3. CandidateInv => CandidateComplete
  BY DEF CandidateInv, Complete, CandidateComplete
<1> QED
  BY <1>1, <1>2, <1>3, TypeCorrect, PTL DEF Spec
=============================================================================
