-------------------------- MODULE JobRunnerProofs ---------------------------
(***************************************************************************)
(* Theorems about JobRunner, for any jobs, plans, providers, limits and    *)
(* bounds: its types, the limit on calls and the ownership of attempts.    *)
(***************************************************************************)
EXTENDS JobRunner, SequenceTheorems, FiniteSetTheorems, TLAPS

-----------------------------------------------------------------------------
(* Updates of rows *)

\* Changing one element of one of the sequences of a function to an element
\* of the same set leaves the type of the function as it was.
LEMMA ElementUpdated ==
    ASSUME NEW S, NEW f \in [Jobs -> Seq(S)], NEW j, NEW n, NEW a,
           j \in Jobs /\ n \in DOMAIN f[j] => a \in S
    PROVE  [f EXCEPT ![j] = [f[j] EXCEPT ![n] = a]] \in [Jobs -> Seq(S)]
<1>1. CASE j \notin Jobs
  BY <1>1
<1>2. CASE j \in Jobs
  <2>1. f[j] \in Seq(S) /\ DOMAIN f[j] = 1..Len(f[j])
    BY <1>2
  <2>2. [f[j] EXCEPT ![n] = a] \in Seq(S)
    <3>1. CASE n \in 1..Len(f[j])
      BY <1>2, <2>1, <3>1, ExceptSeq
    <3>2. CASE n \notin 1..Len(f[j])
      <4>1. [f[j] EXCEPT ![n] = a] = f[j]
        BY <2>1, <3>2
      <4> QED BY <2>1, <4>1
    <3> QED BY <3>1, <3>2
  <2> QED BY <1>2, <2>2
<1> QED BY <1>1, <1>2

\* Appending an element of the set to one of the sequences does so as well.
LEMMA ElementAppended ==
    ASSUME NEW S, NEW f \in [Jobs -> Seq(S)], NEW j, NEW a \in S
    PROVE  [f EXCEPT ![j] = Append(f[j], a)] \in [Jobs -> Seq(S)]
<1>1. CASE j \notin Jobs
  BY <1>1
<1>2. CASE j \in Jobs
  <2>1. Append(f[j], a) \in Seq(S)
    BY <1>2
  <2> QED BY <1>2, <2>1
<1> QED BY <1>1, <1>2

\* The names used for positions, statuses, phases and verdicts.
LEMMA Names ==
    /\ {"claimed", "start", "build", "invoke", "sent", "responded", "failed", "sleep",
        "lock", "pause", "giveup", "raised", "stage", "staging", "staged", "reuse",
        "repair", "repairing", "repaired", "completing", "completingRepair", "done", "unused"} \subseteq Position
    /\ {"queued", "running", "output_received", "hard_qa", "remediating", "candidate_ready",
        "awaiting_user", "cancelled", "credentials_locked"} \subseteq Status
    /\ {"none", "auth", "quota", "retryable", "final"} \subseteq ErrorClass
    /\ {"none", "pass", "fail"} \subseteq Verdict
    /\ {"accepted", "running", "completed", "failed", "rejected"} \subseteq ActionStatus
    /\ {"retry", "regenerate", "tool_repair", "await_user"} \subseteq Kind
    /\ {"created", "dispatched", "output_received", "staged", "succeeded", "failed",
        "worker_running"} \subseteq Phase
    /\ {"not_sent", "dispatch_started", "response_received", "legacy_unknown"}
          \subseteq DispatchState
  BY Zenon DEF Position, Status, Leased, Ready, NeedsAttention, ErrorClass, Verdict,
     ActionStatus, Kind, Phase, DispatchState

\* The updates of rows that the actions make.
LEMMA JobUpdated ==
    ASSUME NEW row \in Job, NEW s \in Status
    PROVE  [row EXCEPT !.status = s] \in Job
  BY DEF Job

\* Giving up a lease.
LEMMA ReleasedTyped ==
    ASSUME NEW row \in Job
    PROVE  Released(row) \in Job
  BY DEF Job, Released

\* Recording the progress of an attempt.
LEMMA AttemptUpdated ==
    ASSUME NEW a \in Attempt, NEW p \in Phase, NEW d \in DispatchState, NEW x \in ErrorClass,
           NEW v \in Verdict
    PROVE  /\ [a EXCEPT !.sent = d] \in Attempt
           /\ [a EXCEPT !.phase = p, !.sent = d] \in Attempt
           /\ [a EXCEPT !.phase = p, !.output = TRUE] \in Attempt
           /\ [a EXCEPT !.phase = p, !.err = x] \in Attempt
           /\ [a EXCEPT !.phase = p, !.rev = TRUE] \in Attempt
           /\ [a EXCEPT !.phase = p, !.rev = TRUE, !.qa = v] \in Attempt
           /\ [a EXCEPT !.phase = p, !.output = TRUE, !.rev = TRUE, !.qa = v] \in Attempt
  BY DEF Attempt

\* Settling an action.
LEMMA ActionUpdated ==
    ASSUME NEW a \in Action, NEW s \in ActionStatus
    PROVE  [a EXCEPT !.status = s] \in Action
  BY DEF Action

-----------------------------------------------------------------------------
(* Types *)

\* The database, the tasks and the vault start with their types.
LEMMA InitTyped == Init => TypeOK
<1> SUFFICES ASSUME Init PROVE TypeOK
  OBVIOUS
<1> USE JobsAssumption, LimitsAssumption, BoundsAssumption DEF Init
<1>1. job \in [Jobs -> Job]
  BY DEF Job, Status, Leased, Ready, NeedsAttention
<1>2. attempts \in [Jobs -> Seq(Attempt)] /\ actions \in [Jobs -> Seq(Action)]
  OBVIOUS
<1>3. exec \in [Tokens -> Executor]
  BY Names DEF Idle, Executor, NoRequest, Request, Seen, Unseen
<1>4. /\ cancelling \in [Jobs -> Status \cup {"none"}] /\ claims \in Nat /\ vault \subseteq Providers
      /\ resuming \in Resumption
  BY DEF NotResuming, Resumption
<1>5. planStatus \in [Plans -> PlanStatuses]
  BY DEF PlanStatuses
<1>6. faults \in Faults
  BY DEF Faults
<1>7. SpentOK
  BY DEF SpentOK
<1>8. ExecutorsOK
  BY <1>3 DEF ExecutorsOK, Alive, Idle
<1> QED
  BY <1>1, <1>2, <1>4, <1>5, <1>6, <1>7, <1>8 DEF TypeOK

\* A step that replaces the record of one task by one that is typed and has a job.
LEMMA TaskMoves ==
    ASSUME ExecutorsOK, NEW t \in Tokens, NEW e \in Executor,
           e.job \in Jobs \/ e.pc = "done", exec' = [exec EXCEPT ![t] = e]
    PROVE  ExecutorsOK'
  BY DEF ExecutorsOK, Alive

\* Moving a task on, with or without an error, and ending it.
LEMMA GotoTyped ==
    ASSUME ExecutorsOK, NEW t \in Tokens, Alive(t), NEW p \in Position, Goto(t, p)
    PROVE  ExecutorsOK'
<1>1. exec[t] \in Executor /\ exec[t].job \in Jobs
  BY DEF ExecutorsOK
<1>2. [exec[t] EXCEPT !.pc = p] \in Executor
  BY <1>1 DEF Executor
<1>3. [exec[t] EXCEPT !.pc = p].job = exec[t].job
  BY <1>1 DEF Executor
<1> QED
  BY <1>1, <1>2, <1>3, TaskMoves DEF Goto

\* A task whose attempt failed keeps its job.
LEMMA FailingTyped ==
    ASSUME ExecutorsOK, NEW t \in Tokens, Alive(t), NEW x \in ErrorClass, Failing(t, x)
    PROVE  ExecutorsOK'
<1> DEFINE e == [exec[t] EXCEPT !.pc = "failed", !.err = x]
<1>1. exec[t] \in Executor /\ exec[t].job \in Jobs
  BY DEF ExecutorsOK
<1>2. e \in Executor
  <2>1. "failed" \in Position
    BY Names
  <2> QED
    BY <1>1, <2>1 DEF Executor
<1>3. e.job = exec[t].job
  BY <1>1 DEF Executor
<1> QED
  BY <1>1, <1>2, <1>3, TaskMoves DEF Failing

\* A task that ends needs no job.
LEMMA FinishTyped ==
    ASSUME ExecutorsOK, NEW t \in Tokens, Finish(t)
    PROVE  ExecutorsOK'
<1>1. Finished \in Executor /\ Finished.pc = "done"
  BY Names, JobsAssumption DEF Finished, Idle, Executor, NoRequest, Request, Seen, Unseen
<1> QED
  BY <1>1, TaskMoves DEF Finish

\* refresh_plan_status computes one of the plan statuses.
LEMMA RefreshTyped ==
    ASSUME planStatus \in [Plans -> PlanStatuses], NEW S, NEW rows
    PROVE  Refresh(S, rows) \in [Plans -> PlanStatuses]
<1>1. \A p \in Plans : PlanStatusOf(p, rows) \in PlanStatuses
  BY DEF PlanStatusOf, PlanStatuses
<1> QED
  BY <1>1 DEF Refresh

\* A change of the status of one action.
LEMMA ActionSettled ==
    ASSUME actions \in [Jobs -> Seq(Action)], NEW j, NEW a, NEW s \in ActionStatus
    PROVE  [actions EXCEPT ![j][a].status = s] \in [Jobs -> Seq(Action)]
<1>1. j \in Jobs /\ a \in DOMAIN actions[j] => actions[j][a] \in Action
  BY ElementOfSeq
<1>2. j \in Jobs /\ a \in DOMAIN actions[j] => [actions[j][a] EXCEPT !.status = s] \in Action
  BY <1>1, ActionUpdated
<1> QED
  BY <1>2, ElementUpdated

\* A change of the row of one job.
LEMMA RowChanged ==
    ASSUME job \in [Jobs -> Job], NEW j, NEW row, j \in Jobs => row \in Job
    PROVE  [job EXCEPT ![j] = row] \in [Jobs -> Job]
  OBVIOUS

\* The number of attempts of a job, and its latest attempt.
LEMMA AttemptTyped ==
    ASSUME attempts \in [Jobs -> Seq(Attempt)], NEW j \in Jobs
    PROVE  /\ Count(j) \in Nat
           /\ \A n \in DOMAIN attempts[j] : n \in Nat /\ attempts[j][n] \in Attempt
           /\ Count(j) > 0 => Latest(j) \in Attempt
  BY ElementOfSeq DEF Count, Latest

\* The request of a call is one, also when it repeats the latest attempt's.
LEMMA RequestTyped ==
    ASSUME TypeOK, NEW j \in Jobs
    PROVE  RequestOf(j) \in Request
<1>1. CASE ExactRetry(j)
  <2>1. Latest(j) \in Attempt
    BY <1>1, AttemptTyped DEF TypeOK, ExactRetry
  <2> QED
    BY <1>1, <2>1 DEF RequestOf, Attempt
<1>2. CASE ~ ExactRetry(j)
  <2>1. \A k \in Jobs : job[k].pending \in Nat /\ job[k].result \in Nat
    BY DEF TypeOK, Job
  <2> QED
    BY <1>2, <2>1 DEF RequestOf, Request
<1> QED
  BY <1>1, <1>2

\* Storing the resolved request in the job's row.
LEMMA ResolveTyped ==
    ASSUME TypeOK, NEW j \in Jobs, Resolve(j)
    PROVE  job' \in [Jobs -> Job]
<1>0. job[j] \in Job /\ RequestOf(j) \in Request
  BY RequestTyped DEF TypeOK
<1>1. [job[j] EXCEPT !.resolved = {RequestOf(j)}] \in Job
  BY <1>0 DEF Job
<1> QED
  BY <1>1, RowChanged DEF TypeOK, Resolve

\* The sum of dispatch counts is a number, also for a request never sent.
LEMMA SpentTyped ==
    ASSUME SpentOK, NEW j \in Jobs, NEW r
    PROVE  Spent(j, r) \in Nat
  BY DEF SpentOK, Spent

\* The steps of a task before its first attempt.
LEMMA BeginTyped ==
    ASSUME TypeOK, NEW t \in Tokens, Begin(t)
    PROVE  TypeOK'
<1> DEFINE j == exec[t].job
<1>1. CASE BeginLost(t)
  <2>1. ExecutorsOK'
    BY <1>1, FinishTyped DEF TypeOK, BeginLost
  <2> QED
    BY <1>1, <2>1 DEF TypeOK, SpentOK, BeginLost, elsewhere
<1>2. CASE BeginRepair(t)
  <2>1. j \in Jobs /\ exec[t] \in Executor
    BY <1>2 DEF TypeOK, ExecutorsOK, BeginRepair, Alive
  <2>2. job[j].pending \in Nat /\ "repair" \in Position
    BY <2>1, Names DEF TypeOK, Job
  <2> DEFINE e == [exec[t] EXCEPT !.pc = "repair", !.act = job[j].pending]
  <2>3. e \in Executor /\ e.job \in Jobs
    BY <2>1, <2>2 DEF Executor
  <2>4. ExecutorsOK'
    BY <1>2, <2>3, TaskMoves, Zenon DEF TypeOK, BeginRepair
  <2> QED
    BY <1>2, <2>4 DEF TypeOK, SpentOK, BeginRepair, elsewhere
<1>3. CASE RejectStaleAction(t)
  <2>1. Alive(t) /\ j \in Jobs
    BY <1>3 DEF TypeOK, ExecutorsOK, RejectStaleAction, Preparing, Alive
  <2>2. ExecutorsOK'
    BY <1>3, <2>1, GotoTyped, Names, Zenon DEF TypeOK, RejectStaleAction
  <2>3. actions' \in [Jobs -> Seq(Action)]
    BY <1>3, ActionSettled, Names, Zenon DEF TypeOK, RejectStaleAction
  <2>4. job' \in [Jobs -> Job]
    <3>1. job[j] \in Job
      BY <2>1 DEF TypeOK
    <3>2. [job[j] EXCEPT !.pending = 0] \in Job
      BY <3>1 DEF Job
    <3> QED
      BY <1>3, <3>2, RowChanged DEF TypeOK, RejectStaleAction
  <2> QED
    BY <1>3, <2>2, <2>3, <2>4, Zenon DEF TypeOK, SpentOK, RejectStaleAction, elsewhere
<1>4. CASE PrepareFails(t)
  <2>1. Alive(t)
    BY <1>4 DEF PrepareFails, Preparing, Alive
  <2>2. ExecutorsOK'
    BY <1>4, <2>1, GotoTyped, Names DEF TypeOK, PrepareFails
  <2> QED
    BY <1>4, <2>2 DEF TypeOK, SpentOK, PrepareFails, elsewhere
<1>5. CASE ReuseOutput(t)
  <2>1. j \in Jobs /\ exec[t] \in Executor
    BY <1>5 DEF TypeOK, ExecutorsOK, ReuseOutput, Preparing, Alive
  <2>2. job' \in [Jobs -> Job]
    BY <1>5, <2>1, ResolveTyped DEF ReuseOutput
  <2>3. PICK n \in Reusable(j, RequestOf(j)) : exec' = [exec EXCEPT ![t] = [exec[t] EXCEPT
            !.pc = IF attempts[j][n].phase = "succeeded" THEN "reuse" ELSE "stage",
            !.at = n, !.fresh = FALSE, !.verdict = "none"]]
    BY <1>5 DEF ReuseOutput
  <2>4. n \in Nat
    BY <2>1, AttemptTyped DEF TypeOK, Reusable, CallsOf
  <2> DEFINE p == IF attempts[j][n].phase = "succeeded" THEN "reuse" ELSE "stage"
             e == [exec[t] EXCEPT !.pc = p, !.at = n, !.fresh = FALSE, !.verdict = "none"]
  <2>5. p \in Position /\ "none" \in Verdict
    BY Names
  <2>6. e \in Executor /\ e.job \in Jobs
    <3> HIDE DEF p
    <3> QED BY <2>1, <2>4, <2>5 DEF Executor
  <2>7. ExecutorsOK'
    BY <2>3, <2>6, TaskMoves DEF TypeOK
  <2> QED
    BY <1>5, <2>2, <2>7 DEF TypeOK, SpentOK, ReuseOutput, elsewhere
<1>6. CASE CallsExhausted(t)
  <2>1. Alive(t) /\ j \in Jobs
    BY <1>6 DEF TypeOK, ExecutorsOK, CallsExhausted, Preparing, Alive
  <2>2. ExecutorsOK'
    BY <1>6, <2>1, GotoTyped, Names DEF TypeOK, CallsExhausted
  <2>3. job' \in [Jobs -> Job]
    BY <1>6, <2>1, ResolveTyped DEF CallsExhausted
  <2> QED
    BY <1>6, <2>2, <2>3 DEF TypeOK, SpentOK, CallsExhausted, elsewhere
<1>7. CASE PrepareCall(t)
  <2> DEFINE r == RequestOf(j)
             n == MaxTransportRetries + 1 - Spent(j, r)
             e == [exec[t] EXCEPT !.pc = "start", !.req = r, !.left = n]
  <2>1. j \in Jobs /\ exec[t] \in Executor
    BY <1>7 DEF TypeOK, ExecutorsOK, PrepareCall, Preparing, Alive
  <2>2. job' \in [Jobs -> Job]
    BY <1>7, <2>1, ResolveTyped DEF PrepareCall
  <2>3. r \in Request /\ n \in Nat /\ "start" \in Position
    BY <1>7, <2>1, RequestTyped, SpentTyped, Names, LimitsAssumption DEF TypeOK, PrepareCall
  <2>4. e \in Executor /\ e.job \in Jobs
    <3> HIDE DEF r, n
    <3> QED BY <2>1, <2>3 DEF Executor
  <2>5. ExecutorsOK'
    BY <1>7, <2>4, TaskMoves DEF TypeOK, PrepareCall
  <2> QED
    BY <1>7, <2>2, <2>5 DEF TypeOK, SpentOK, PrepareCall, elsewhere
<1> QED
  BY <1>1, <1>2, <1>3, <1>4, <1>5, <1>6, <1>7 DEF Begin

\* The task of a position before the end has a record and a job.
LEMMA TaskHasJob ==
    ASSUME ExecutorsOK, NEW t \in Tokens, Alive(t)
    PROVE  exec[t] \in Executor /\ exec[t].job \in Jobs
  BY DEF ExecutorsOK

\* A change of the attempt that a task works on.
LEMMA AttemptChanged ==
    ASSUME attempts \in [Jobs -> Seq(Attempt)], NEW j, NEW n, NEW a,
           j \in Jobs /\ n \in DOMAIN attempts[j] /\ attempts[j][n] \in Attempt => a \in Attempt,
           attempts' = [attempts EXCEPT ![j] = [attempts[j] EXCEPT ![n] = a]]
    PROVE  attempts' \in [Jobs -> Seq(Attempt)]
<1>1. j \in Jobs /\ n \in DOMAIN attempts[j] => attempts[j][n] \in Attempt
  BY ElementOfSeq
<1> QED
  BY <1>1, ElementUpdated

\* The row that _start_provider_attempt adds.
LEMMA NewCallTyped ==
    ASSUME NEW r \in Request
    PROVE  NewCall(r) \in Attempt
<1>1. "created" \in Phase /\ "not_sent" \in DispatchState /\ "none" \in ErrorClass /\ "none" \in Verdict
  BY Names
<1> QED
  BY <1>1 DEF NewCall, Attempt

\* Counting one more call of a request.
LEMMA AddCallTyped ==
    ASSUME SpentOK, NEW j \in Jobs, NEW r \in Request, spent' = AddCall(j, r)
    PROVE  SpentOK'
<1>1. \A q : Spent(j, q) \in Nat
  BY SpentTyped
<1> DEFINE f == [q \in DOMAIN spent[j] \cup {r} |-> Spent(j, q) + (IF q = r THEN 1 ELSE 0)]
<1>2. \A q \in DOMAIN f : q \in Request /\ f[q] \in Nat
  BY <1>1 DEF SpentOK
<1>3. spent' = [spent EXCEPT ![j] = f]
  BY DEF AddCall
<1> HIDE DEF f
<1>4. DOMAIN spent' = Jobs /\ \A k \in Jobs : spent'[k] = IF k = j THEN f ELSE spent[k]
  BY <1>3 DEF SpentOK
<1> QED
  BY <1>2, <1>4 DEF SpentOK

\* The steps of a provider attempt up to the moment it is sent.
LEMMA AttemptingTyped ==
    ASSUME TypeOK, NEW t \in Tokens, Attempting(t)
    PROVE  TypeOK'
<1> DEFINE j == exec[t].job
           n == exec[t].at
<1>0. Alive(t)
  BY DEF Attempting, StartAttempt, StartLost, BuildProvider, FailLocally, Dispatch,
         RefuseDispatch, Alive
<1>1. exec[t] \in Executor /\ j \in Jobs /\ ExecutorsOK
  BY <1>0, TaskHasJob DEF TypeOK
<1>2. CASE StartAttempt(t)
  <2>1. Count(j) + 1 \in Nat /\ "build" \in Position
    BY <1>1, AttemptTyped, Names DEF TypeOK
  <2> DEFINE c == Count(j) + 1
             e == [exec[t] EXCEPT !.pc = "build", !.at = c, !.fresh = TRUE]
  <2>2. e \in Executor /\ e.job \in Jobs
    <3> HIDE DEF c
    <3> QED BY <1>1, <2>1 DEF Executor, c
  <2>3. ExecutorsOK'
    BY <1>1, <1>2, <2>2, TaskMoves DEF StartAttempt
  <2>4. NewCall(exec[t].req) \in Attempt
    BY <1>1, NewCallTyped DEF Executor
  <2>5. attempts' \in [Jobs -> Seq(Attempt)]
    BY <1>2, <2>4, ElementAppended DEF TypeOK, StartAttempt
  <2> QED
    BY <1>2, <2>3, <2>5 DEF TypeOK, SpentOK, StartAttempt, elsewhere
<1>3. CASE StartLost(t)
  <2>1. ExecutorsOK'
    BY <1>0, <1>1, <1>3, GotoTyped, Names DEF StartLost
  <2> QED
    BY <1>3, <2>1 DEF TypeOK, SpentOK, StartLost, elsewhere
<1>4. CASE BuildProvider(t)
  <2>1. ExecutorsOK'
    BY <1>0, <1>1, <1>4, GotoTyped, FailingTyped, Names DEF BuildProvider
  <2> QED
    BY <1>4, <2>1 DEF TypeOK, SpentOK, BuildProvider, elsewhere
<1>5. CASE FailLocally(t)
  <2>1. ExecutorsOK'
    BY <1>0, <1>1, <1>5, FailingTyped, Names DEF FailLocally
  <2> QED
    BY <1>5, <2>1 DEF TypeOK, SpentOK, FailLocally, elsewhere
<1>6. CASE Dispatch(t)
  <2>1. ExecutorsOK'
    BY <1>0, <1>1, <1>6, GotoTyped, Names DEF Dispatch
  <2>2. attempts' \in [Jobs -> Seq(Attempt)]
    <3> DEFINE a == [attempts[j][n] EXCEPT !.phase = "dispatched", !.sent = "dispatch_started"]
    <3>1. attempts[j][n] \in Attempt => a \in Attempt
      BY Names, AttemptUpdated, Zenon
    <3> QED
      BY <1>6, <3>1, AttemptChanged, Zenon DEF TypeOK, Dispatch
  <2>3. SpentOK'
    BY <1>1, <1>6, AddCallTyped DEF TypeOK, Dispatch, Executor
  <2> QED
    BY <1>6, <2>1, <2>2, <2>3 DEF TypeOK, Dispatch, elsewhere
<1>7. CASE RefuseDispatch(t)
  <2>1. ExecutorsOK'
    BY <1>0, <1>1, <1>7, FailingTyped, Names DEF RefuseDispatch
  <2> QED
    BY <1>7, <2>1 DEF TypeOK, SpentOK, RefuseDispatch, elsewhere
<1> QED
  BY <1>2, <1>3, <1>4, <1>5, <1>6, <1>7 DEF Attempting

\* The steps of a provider attempt after it was sent.
LEMMA AnsweredTyped ==
    ASSUME TypeOK, NEW t \in Tokens, Answered(t)
    PROVE  TypeOK'
<1> DEFINE j == exec[t].job
           n == exec[t].at
<1>0. Alive(t)
  BY DEF Answered, Respond, LoseResponse, CallAgain, ErrorAnswer, PersistResult, Alive
<1>1. exec[t] \in Executor /\ j \in Jobs /\ ExecutorsOK
  BY <1>0, TaskHasJob DEF TypeOK
<1>2. CASE Respond(t)
  <2>1. ExecutorsOK'
    BY <1>0, <1>1, <1>2, GotoTyped, Names, Zenon DEF Respond
  <2>2. attempts' \in [Jobs -> Seq(Attempt)]
    <3> DEFINE a == [attempts[j][n] EXCEPT !.sent = "response_received"]
    <3>1. attempts[j][n] \in Attempt => a \in Attempt
      BY Names, AttemptUpdated, Zenon
    <3> QED
      BY <1>2, <3>1, AttemptChanged, Zenon DEF TypeOK, Respond
  <2> QED
    BY <1>2, <2>1, <2>2 DEF TypeOK, SpentOK, Respond, elsewhere
<1>3. CASE LoseResponse(t)
  <2>1. ExecutorsOK'
    BY <1>0, <1>1, <1>3, GotoTyped, FailingTyped, Names DEF LoseResponse
  <2> QED
    BY <1>3, <2>1 DEF TypeOK, SpentOK, LoseResponse, elsewhere
<1>4. CASE CallAgain(t)
  <2>1. ExecutorsOK'
    BY <1>0, <1>1, <1>4, GotoTyped, Names DEF CallAgain
  <2> QED
    BY <1>4, <2>1 DEF TypeOK, SpentOK, CallAgain, elsewhere
<1>5. CASE ErrorAnswer(t)
  <2>1. ErrorClasses \subseteq ErrorClass
    BY Names, BoundsAssumption
  <2>2. ExecutorsOK'
    BY <1>0, <1>1, <1>5, <2>1, FailingTyped DEF ErrorAnswer
  <2> QED
    BY <1>5, <2>2 DEF TypeOK, SpentOK, ErrorAnswer, elsewhere
<1>6. CASE PersistResult(t)
  <2>1. ExecutorsOK'
    BY <1>0, <1>1, <1>6, GotoTyped, Names, Zenon DEF PersistResult
  <2>2. attempts' \in [Jobs -> Seq(Attempt)]
    <3> DEFINE a == [attempts[j][n] EXCEPT !.phase = "output_received", !.output = TRUE]
    <3>1. attempts[j][n] \in Attempt => a \in Attempt
      BY Names, AttemptUpdated, Zenon
    <3> QED
      BY <1>6, <3>1, AttemptChanged, Zenon DEF TypeOK, PersistResult
  <2>3. job' \in [Jobs -> Job]
    <3>1. job[j] \in Job
      BY <1>1, Zenon DEF TypeOK
    <3>2. [job[j] EXCEPT !.status = "output_received"] \in Job
      BY <3>1, JobUpdated, Names, Zenon
    <3> QED
      BY <1>6, <3>2, RowChanged DEF TypeOK, PersistResult
  <2> QED
    BY <1>6, <2>1, <2>2, <2>3 DEF TypeOK, SpentOK, PersistResult, elsewhere
<1> QED
  BY <1>2, <1>3, <1>4, <1>5, <1>6, Zenon DEF Answered

\* The steps that settle a failed attempt.
LEMMA SettlingTyped ==
    ASSUME TypeOK, NEW t \in Tokens, Settling(t)
    PROVE  TypeOK'
<1> DEFINE j == exec[t].job
           n == exec[t].at
<1>0. Alive(t)
  BY Zenon DEF Settling, FinishAttemptError, PauseProviderQueue, SetAwaitingUser, Alive
<1>1. exec[t] \in Executor /\ j \in Jobs /\ ExecutorsOK
  BY <1>0, TaskHasJob DEF TypeOK
<1>2. CASE FinishAttemptError(t)
  <2> DEFINE p == AfterError(exec[t].err, attempts[j][n].sent, exec[t].left)
             m == IF exec[t].left > 0 THEN exec[t].left - 1 ELSE 0
             e == [exec[t] EXCEPT !.pc = p, !.left = m]
  <2>1. p \in Position
    BY Names DEF AfterError
  <2>2. exec[t].left \in Nat
    BY <1>1 DEF Executor
  <2>3. m \in Nat
    BY <2>2
  <2>4. exec' = [exec EXCEPT ![t] = e]
    BY <1>2 DEF FinishAttemptError
  <2>5. e \in Executor /\ e.job \in Jobs
    <3> HIDE DEF p, m
    <3> QED BY <1>1, <2>1, <2>3 DEF Executor
  <2>6. ExecutorsOK'
    BY <1>1, <2>4, <2>5, TaskMoves
  <2>7. attempts' \in [Jobs -> Seq(Attempt)]
    <3> DEFINE a == [attempts[j][n] EXCEPT !.phase = "failed", !.err = exec[t].err]
    <3>1. exec[t].err \in ErrorClass
      BY <1>1 DEF Executor
    <3>2. attempts[j][n] \in Attempt => a \in Attempt
      BY <3>1, Names, AttemptUpdated, Zenon
    <3> QED
      BY <1>2, <3>2, AttemptChanged, Zenon DEF TypeOK, FinishAttemptError
  <2> QED
    BY <1>2, <2>6, <2>7 DEF TypeOK, SpentOK, FinishAttemptError, elsewhere
<1>3. CASE PauseProviderQueue(t)
  <2>1. ExecutorsOK'
    BY <1>1, <1>3, FinishTyped DEF PauseProviderQueue
  <2> DEFINE target == IF exec[t].pc = "lock" THEN "credentials_locked" ELSE "awaiting_user"
  <2>2. target \in Status
    BY Names
  <2>3. \A k \in Jobs : [Released(job[k]) EXCEPT !.status = target, !.dep = FALSE] \in Job
    <3> HIDE DEF target
    <3>1. \A k \in Jobs : Released(job[k]) \in Job
      BY ReleasedTyped DEF TypeOK
    <3> QED
      BY <2>2, <3>1 DEF Job
  <2>4. job' \in [Jobs -> Job]
    BY <1>3, <2>3 DEF TypeOK, PauseProviderQueue
  <2>5. planStatus' \in [Plans -> PlanStatuses]
    BY <1>3, RefreshTyped, Zenon DEF TypeOK, PauseProviderQueue
  <2> QED
    BY <1>3, <2>1, <2>4, <2>5 DEF TypeOK, SpentOK, PauseProviderQueue
<1>4. CASE SetAwaitingUser(t)
  <2>1. ExecutorsOK'
    BY <1>1, <1>4, FinishTyped, Zenon DEF SetAwaitingUser
  <2>2. job' \in [Jobs -> Job]
    <3>1. job[j] \in Job
      BY <1>1 DEF TypeOK
    <3>2. Released(job[j]) \in Job /\ "awaiting_user" \in Status
      BY <3>1, Names DEF Job, Released
    <3>3. [Released(job[j]) EXCEPT !.status = "awaiting_user", !.dep = FALSE, !.pending = 0] \in Job
      BY <3>2, Zenon DEF Job
    <3> QED
      BY <1>4, <3>3, RowChanged DEF TypeOK, SetAwaitingUser
  <2>3. actions' \in [Jobs -> Seq(Action)]
    BY <1>4, ActionSettled, Names, Zenon DEF TypeOK, SetAwaitingUser
  <2>4. planStatus' \in [Plans -> PlanStatuses]
    BY <1>4, RefreshTyped DEF TypeOK, SetAwaitingUser
  <2> QED
    BY <1>4, <2>1, <2>2, <2>3, <2>4, Zenon DEF TypeOK, SpentOK, SetAwaitingUser
<1> QED
  BY <1>2, <1>3, <1>4 DEF Settling

\* The row that a completion writes.
LEMMA CompletedTyped ==
    ASSUME job \in [Jobs -> Job], NEW t \in Tokens, exec[t] \in Executor, exec[t].job \in Jobs,
           NEW s \in Status
    PROVE  Completed(t, s) \in Job
<1> DEFINE j == exec[t].job
           row == IF exec[t].saw.leased THEN Released(job[j]) ELSE job[j]
           a == IF exec[t].saw.pending # 0 THEN 0 ELSE row.pending
<1>1. row \in Job /\ exec[t].at \in Nat
  BY ReleasedTyped DEF Executor
<1>2. a \in Nat
  BY <1>1 DEF Job
<1>3. Completed(t, s) = [row EXCEPT !.status = s, !.result = exec[t].at, !.dep = FALSE, !.pending = a]
  BY DEF Completed
<1> HIDE DEF row, a
<1>4. [row EXCEPT !.status = s, !.result = exec[t].at, !.dep = FALSE, !.pending = a] \in Job
  BY <1>1, <1>2 DEF Job
<1> QED
  BY <1>3, <1>4

\* Staging, completion and their failures.
LEMMA StagingTyped ==
    ASSUME TypeOK, NEW t \in Tokens, Staging(t)
    PROVE  TypeOK'
<1> DEFINE j == exec[t].job
           n == exec[t].at
<1>0. Alive(t)
  BY Zenon DEF Staging, BeginStaging, StageFails, StageResult, CompleteRead, CompleteJob, Alive
<1>1. exec[t] \in Executor /\ j \in Jobs /\ ExecutorsOK
  BY <1>0, TaskHasJob DEF TypeOK
<1>a. job[j] \in Job /\ n \in Nat
  BY <1>1 DEF TypeOK, Executor
<1>2. CASE BeginStaging(t)
  <2>1. ExecutorsOK'
    BY <1>0, <1>1, <1>2, GotoTyped, Names, Zenon DEF BeginStaging
  <2>2. [job[j] EXCEPT !.status = "hard_qa"] \in Job
    BY <1>a, JobUpdated, Names, Zenon
  <2>3. job' \in [Jobs -> Job]
    BY <1>2, <2>2, RowChanged DEF TypeOK, BeginStaging
  <2> QED
    BY <1>2, <2>1, <2>3 DEF TypeOK, SpentOK, BeginStaging, elsewhere
<1>3. CASE StageFails(t)
  <2>1. ExecutorsOK'
    BY <1>0, <1>1, <1>3, GotoTyped, FailingTyped, Names DEF StageFails
  <2> QED
    BY <1>3, <2>1 DEF TypeOK, SpentOK, StageFails, elsewhere
<1>4. CASE StageResult(t)
  <2> DEFINE verdicts == IF j \notin ImageJobs THEN {"none"}
                         ELSE {v \in {"pass", "fail"} : attempts[j][n].qa \in {"none", v}}
  <2>1. PICK v \in verdicts :
            /\ attempts' = [attempts EXCEPT ![j][n] = [attempts[j][n] EXCEPT
                  !.phase = "staged", !.rev = TRUE, !.qa = v]]
            /\ exec' = [exec EXCEPT ![t] = [exec[t] EXCEPT !.pc = "staged", !.verdict = v]]
    BY <1>4 DEF StageResult
  <2>2. v \in Verdict /\ "staged" \in Position
    BY Names
  <2> HIDE DEF verdicts
  <2>3. attempts' \in [Jobs -> Seq(Attempt)]
    <3> DEFINE a == [attempts[j][n] EXCEPT !.phase = "staged", !.rev = TRUE, !.qa = v]
    <3>1. attempts[j][n] \in Attempt => a \in Attempt
      BY <2>2, Names, AttemptUpdated, Zenon
    <3> QED
      BY <2>1, <3>1, AttemptChanged, Zenon DEF TypeOK
  <2> DEFINE e == [exec[t] EXCEPT !.pc = "staged", !.verdict = v]
  <2>4. e \in Executor /\ e.job \in Jobs
    BY <1>1, <2>2 DEF Executor
  <2>5. ExecutorsOK'
    BY <1>1, <2>1, <2>4, TaskMoves
  <2>6. [job[j] EXCEPT !.result = n] \in Job
    BY <1>a DEF Job
  <2>7. job' \in [Jobs -> Job]
    BY <1>4, <2>6, RowChanged, Zenon DEF TypeOK, StageResult
  <2> QED
    BY <1>4, <2>3, <2>5, <2>7, Zenon DEF TypeOK, SpentOK, StageResult, elsewhere
<1>5. CASE CompleteJob(t)
  <2>1. ExecutorsOK'
    BY <1>1, <1>5, FinishTyped, Zenon DEF CompleteJob
  <2> DEFINE outcome == IF exec[t].saw.cancel THEN "cancelled"
                        ELSE IF exec[t].verdict = "fail" THEN "awaiting_user"
                        ELSE "candidate_ready"
  <2>2. job' = [job EXCEPT ![j] = Completed(t, outcome)] /\ planStatus' = Refresh({j}, job')
    BY <1>5, Zenon DEF CompleteJob
  <2>3. job' \in [Jobs -> Job]
    <3>1. outcome \in Status
      BY Names
    <3> HIDE DEF outcome
    <3>2. Completed(t, outcome) \in Job
      BY <1>1, <3>1, CompletedTyped DEF TypeOK
    <3> QED
      BY <2>2, <3>2, RowChanged DEF TypeOK
  <2>4. attempts' \in [Jobs -> Seq(Attempt)]
    <3> DEFINE a == [attempts[j][n] EXCEPT !.phase = "succeeded", !.rev = TRUE]
    <3>1. attempts[j][n] \in Attempt => a \in Attempt
      BY Names, AttemptUpdated, Zenon
    <3> QED
      BY <1>5, <3>1, AttemptChanged, Zenon DEF TypeOK, CompleteJob
  <2>5. actions' \in [Jobs -> Seq(Action)]
    BY <1>5, ActionSettled, Names, Zenon DEF TypeOK, CompleteJob
  <2>6. planStatus' \in [Plans -> PlanStatuses]
    BY <2>2, RefreshTyped DEF TypeOK
  <2> QED
    BY <1>5, <2>1, <2>3, <2>4, <2>5, <2>6, Zenon DEF TypeOK, SpentOK, CompleteJob
<1>6. CASE CompleteRead(t)
  <2> DEFINE s == [cancel |-> job[j].cancel, pending |-> job[j].pending, leased |-> job[j].lease # 0]
             p == IF exec[t].pc = "repaired" THEN "completingRepair" ELSE "completing"
             e == [exec[t] EXCEPT !.pc = p, !.saw = s]
  <2>1. s \in Seen /\ p \in Position
    BY <1>a, Names DEF Job, Seen
  <2>2. exec' = [exec EXCEPT ![t] = e]
    BY <1>6, Zenon DEF CompleteRead
  <2> HIDE DEF s, p
  <2>3. e \in Executor /\ e.job \in Jobs
    BY <1>1, <2>1 DEF Executor
  <2>4. ExecutorsOK'
    BY <1>1, <2>2, <2>3, TaskMoves
  <2> QED
    BY <1>6, <2>4, Zenon DEF TypeOK, SpentOK, CompleteRead, elsewhere
<1> QED
  BY <1>2, <1>3, <1>4, <1>5, <1>6, Zenon DEF Staging

\* The row that a tool repair adds.
LEMMA NewRepairTyped ==
    ASSUME NEW a \in Nat
    PROVE  NewRepair(a) \in Attempt
<1>1. NoRequest \in Request /\ [NoRequest EXCEPT !.action = a] \in Request
  BY JobsAssumption DEF NoRequest, Request
<1>2. /\ "worker_running" \in Phase /\ "legacy_unknown" \in DispatchState
      /\ "none" \in ErrorClass /\ "none" \in Verdict
  BY Names
<1> QED
  BY <1>1, <1>2 DEF NewRepair, Attempt

\* The steps of a tool repair.
LEMMA RepairingTyped ==
    ASSUME TypeOK, NEW t \in Tokens, Repairing(t)
    PROVE  TypeOK'
<1> DEFINE j == exec[t].job
           n == exec[t].at
           a == exec[t].act
<1>0. Alive(t)
  BY Zenon DEF Repairing, RepairStale, RepairRejected, RepairBegin, RepairStage, RepairFails, Alive
<1>1. exec[t] \in Executor /\ j \in Jobs /\ ExecutorsOK
  BY <1>0, TaskHasJob DEF TypeOK
<1>a. job[j] \in Job /\ n \in Nat /\ a \in Nat
  BY <1>1 DEF TypeOK, Executor
<1>2. CASE RepairStale(t)
  <2>1. ExecutorsOK'
    BY <1>0, <1>1, <1>2, GotoTyped, Names, Zenon DEF RepairStale
  <2> QED
    BY <1>2, <2>1 DEF TypeOK, SpentOK, RepairStale, elsewhere
<1>3. CASE RepairRejected(t)
  <2>1. ExecutorsOK'
    BY <1>0, <1>1, <1>3, GotoTyped, Names, Zenon DEF RepairRejected
  <2>2. actions' \in [Jobs -> Seq(Action)]
    BY <1>3, ActionSettled, Names DEF TypeOK, RepairRejected
  <2> QED
    BY <1>3, <2>1, <2>2 DEF TypeOK, SpentOK, RepairRejected, elsewhere
<1>4. CASE RepairBegin(t)
  <2> DEFINE c == Count(j) + 1
             e == [exec[t] EXCEPT !.pc = "repairing", !.at = c, !.fresh = TRUE]
  <2>1. c \in Nat /\ "repairing" \in Position
    BY <1>1, AttemptTyped, Names DEF TypeOK
  <2>2. e \in Executor /\ e.job \in Jobs
    <3> HIDE DEF c
    <3> QED BY <1>1, <2>1 DEF Executor
  <2>3. ExecutorsOK'
    BY <1>1, <1>4, <2>2, TaskMoves DEF RepairBegin
  <2>4. attempts' \in [Jobs -> Seq(Attempt)]
    BY <1>4, <1>a, NewRepairTyped, ElementAppended, Zenon DEF TypeOK, RepairBegin
  <2>5. [job[j] EXCEPT !.status = "remediating"] \in Job
    BY <1>a, JobUpdated, Names, Zenon
  <2>6. job' \in [Jobs -> Job]
    BY <1>4, <2>5, RowChanged, Zenon DEF TypeOK, RepairBegin
  <2>7. actions' \in [Jobs -> Seq(Action)]
    BY <1>4, ActionSettled, Names DEF TypeOK, RepairBegin
  <2> QED
    BY <1>4, <2>3, <2>4, <2>6, <2>7 DEF TypeOK, SpentOK, RepairBegin, elsewhere
<1>5. CASE RepairStage(t)
  <2>1. PICK v \in {"pass", "fail"} :
            /\ attempts' = [attempts EXCEPT ![j][n] = [attempts[j][n] EXCEPT
                  !.phase = "staged", !.output = TRUE, !.rev = TRUE, !.qa = v]]
            /\ exec' = [exec EXCEPT ![t] = [exec[t] EXCEPT !.pc = "repaired", !.verdict = v]]
    BY <1>5 DEF RepairStage
  <2>2. v \in Verdict /\ "repaired" \in Position
    BY Names
  <2>3. attempts' \in [Jobs -> Seq(Attempt)]
    <3> DEFINE x == [attempts[j][n] EXCEPT
                       !.phase = "staged", !.output = TRUE, !.rev = TRUE, !.qa = v]
    <3>1. attempts[j][n] \in Attempt => x \in Attempt
      BY <2>2, Names, AttemptUpdated, Zenon
    <3> QED
      BY <2>1, <3>1, AttemptChanged, Zenon DEF TypeOK
  <2> DEFINE e == [exec[t] EXCEPT !.pc = "repaired", !.verdict = v]
  <2>4. e \in Executor /\ e.job \in Jobs
    BY <1>1, <2>2 DEF Executor
  <2>5. ExecutorsOK'
    BY <1>1, <2>1, <2>4, TaskMoves
  <2>6. [job[j] EXCEPT !.result = n] \in Job
    BY <1>a DEF Job
  <2>7. job' \in [Jobs -> Job]
    BY <1>5, <2>6, RowChanged DEF TypeOK, RepairStage
  <2> QED
    BY <1>5, <2>3, <2>5, <2>7, Zenon DEF TypeOK, SpentOK, RepairStage, elsewhere
<1>6. CASE RepairFails(t)
  <2>1. ExecutorsOK'
    BY <1>0, <1>1, <1>6, GotoTyped, Names DEF RepairFails
  <2> QED
    BY <1>6, <2>1 DEF TypeOK, SpentOK, RepairFails, elsewhere
<1> QED
  BY <1>2, <1>3, <1>4, <1>5, <1>6 DEF Repairing

-----------------------------------------------------------------------------
(* Types: recovery, claims and leases *)

\* The row and the actions of a job after recovery.
LEMMA RecoveredTyped ==
    ASSUME TypeOK, NEW j \in Jobs, NEW unlocked, NEW startup
    PROVE  /\ Recovered(j, unlocked, startup) \in Job
           /\ RecoveredActions(j, unlocked) \in Seq(Action)
<1> DEFINE target == RecoveryTarget(j, unlocked)
<1>1. job[j] \in Job /\ Count(j) \in Nat
  BY AttemptTyped DEF TypeOK
<1>2. Released(job[j]) \in Job
  BY <1>1, ReleasedTyped
<1>3. target \in Status
  BY Names DEF RecoveryTarget
<1>4. Recovered(j, unlocked, startup) \in Job
  <2> DEFINE row == Released(job[j])
             p == IF target = "awaiting_user" THEN 0 ELSE row.pending
             r == IF startup /\ target = "candidate_ready" THEN Count(j) ELSE row.result
  <2>1. p \in Nat /\ r \in Nat
    BY <1>1, <1>2 DEF Job
  <2>2. Recovered(j, unlocked, startup)
          = [row EXCEPT !.status = target, !.dep = FALSE, !.pending = p, !.result = r]
    BY DEF Recovered
  <2> HIDE DEF p, r, row, target
  <2>3. row \in Job
    BY <1>2 DEF row
  <2>4. [row EXCEPT !.status = target, !.dep = FALSE, !.pending = p, !.result = r] \in Job
    BY <1>3, <2>1, <2>3 DEF Job, target
  <2> QED
    BY <2>2, <2>4
<1>5. RecoveredActions(j, unlocked) \in Seq(Action)
  <2>1. actions[j] \in Seq(Action)
    BY DEF TypeOK
  <2> DEFINE a == job[j].pending
  <2>2. a \in DOMAIN actions[j] => [actions[j][a] EXCEPT !.status = "failed"] \in Action
    BY <2>1, ElementOfSeq, ActionUpdated, Names
  <2>3. [actions[j] EXCEPT ![a].status = "failed"] \in Seq(Action)
    <3>1. CASE a \in DOMAIN actions[j]
      BY <2>1, <2>2, <3>1, ExceptSeq
    <3>2. CASE a \notin DOMAIN actions[j]
      <4>1. [actions[j] EXCEPT ![a].status = "failed"] = actions[j]
        BY <2>1, <3>2
      <4> QED BY <2>1, <4>1
    <3> QED BY <3>1, <3>2
  <2> QED
    BY <2>1, <2>3 DEF RecoveredActions
<1> QED
  BY <1>4, <1>5

\* Counting an event of the environment that has not reached its bound.
LEMMA FaultCounted ==
    ASSUME faults \in Faults
    PROVE  /\ faults.restarts < MaxRestarts => [faults EXCEPT !.restarts = @ + 1] \in Faults
           /\ faults.expiries < MaxExpiries => [faults EXCEPT !.expiries = @ + 1] \in Faults
           /\ faults.cancels < MaxCancels => [faults EXCEPT !.cancels = @ + 1] \in Faults
           /\ faults.locks < MaxLocks => [faults EXCEPT !.locks = @ + 1] \in Faults
           /\ faults.overlaps < MaxOverlaps => [faults EXCEPT !.overlaps = @ + 1] \in Faults
<1>0. /\ MaxRestarts \in Nat /\ MaxExpiries \in Nat /\ MaxCancels \in Nat /\ MaxLocks \in Nat
      /\ faults.restarts \in 0..MaxRestarts /\ faults.expiries \in 0..MaxExpiries
      /\ faults.cancels \in 0..MaxCancels /\ faults.locks \in 0..MaxLocks
      /\ MaxOverlaps \in Nat /\ faults.overlaps \in 0..MaxOverlaps
  BY BoundsAssumption DEF Faults
<1> DEFINE n == faults.restarts + 1
           e == faults.expiries + 1
           c == faults.cancels + 1
           l == faults.locks + 1
           o == faults.overlaps + 1
<1>1. /\ faults.restarts < MaxRestarts => n \in 0..MaxRestarts
      /\ faults.expiries < MaxExpiries => e \in 0..MaxExpiries
      /\ faults.cancels < MaxCancels => c \in 0..MaxCancels
      /\ faults.locks < MaxLocks => l \in 0..MaxLocks
      /\ faults.overlaps < MaxOverlaps => o \in 0..MaxOverlaps
  BY <1>0
<1> HIDE DEF n, e, c, l, o
<1>2. /\ faults.restarts < MaxRestarts => [faults EXCEPT !.restarts = n] \in Faults
      /\ faults.expiries < MaxExpiries => [faults EXCEPT !.expiries = e] \in Faults
      /\ faults.cancels < MaxCancels => [faults EXCEPT !.cancels = c] \in Faults
      /\ faults.locks < MaxLocks => [faults EXCEPT !.locks = l] \in Faults
      /\ faults.overlaps < MaxOverlaps => [faults EXCEPT !.overlaps = o] \in Faults
  BY <1>1 DEF Faults
<1> QED
  BY <1>2 DEF n, e, c, l, o

\* A restart.
LEMMA RestartTyped == ASSUME TypeOK, Restart PROVE TypeOK'
<1>1. job' \in [Jobs -> Job]
  <2>1. \A j \in Jobs : Recovered(j, {}, TRUE) \in Job /\ job[j] \in Job
    BY RecoveredTyped DEF TypeOK
  <2> QED
    BY <2>1 DEF Restart
<1>2. actions' \in [Jobs -> Seq(Action)]
  <2>1. \A j \in Jobs : RecoveredActions(j, {}) \in Seq(Action) /\ actions[j] \in Seq(Action)
    BY RecoveredTyped DEF TypeOK
  <2> QED
    BY <2>1 DEF Restart
<1>3. ExecutorsOK'
  <2>1. Finished \in Executor /\ Finished.pc = "done"
    BY Names, JobsAssumption DEF Finished, Idle, Executor, NoRequest, Request, Seen, Unseen
  <2> QED
    BY <2>1 DEF TypeOK, ExecutorsOK, Restart, Alive
<1>4. faults' \in Faults
  BY FaultCounted DEF TypeOK, Restart
<1>5. planStatus' \in [Plans -> PlanStatuses]
  BY RefreshTyped DEF TypeOK, Restart
<1>6. cancelling' \in [Jobs -> Status \cup {"none"}] /\ resuming' \in Resumption
  BY DEF Restart, NotResuming, Resumption
<1> QED
  BY <1>1, <1>2, <1>3, <1>4, <1>5, <1>6 DEF TypeOK, SpentOK, Restart

\* What a pass of the claim loop does, without how it chooses the jobs.
LEMMA PollSteps ==
    ASSUME Poll
    PROVE  \E rows, dropped, blocked, taken :
              /\ rows = Requeued(Expired, Unblocked(Expired))
              /\ dropped \cup blocked \cup taken \subseteq {j \in Jobs : rows[j].status = "queued"}
              /\ \A j \in taken : ~ rows[j].cancel /\ WithinLimits(rows, j, taken)
              /\ taken \cap (dropped \cup blocked) = {}
              /\ job' = Walked(rows, dropped, blocked, taken)
              /\ actions' = [j \in Jobs |-> IF j \in Stale THEN RecoveredActions(j, vault)
                                                           ELSE actions[j]]
              /\ exec' = [t \in Tokens |->
                            IF \E j \in taken : TokenOf(taken, j) = t
                            THEN Claimed(CHOOSE j \in taken : TokenOf(taken, j) = t)
                            ELSE exec[t]]
              /\ claims' = claims + Cardinality(taken)
              /\ \E S, seen : planStatus' = Refresh(S, seen)
              /\ UNCHANGED <<attempts, spent, vault, cancelling, resuming, faults>>
<1> DEFINE rows == Requeued(Expired, Unblocked(Expired))
           queue == {j \in Jobs : rows[j].status = "queued"}
           dropped == {j \in queue : rows[j].cancel}
<1> DEFINE Steps(blocked, taken) ==
         /\ \A j \in taken : WithinLimits(rows, j, taken)
         /\ job' = Walked(rows, dropped, blocked, taken)
         /\ actions' = [j \in Jobs |-> IF j \in Stale THEN RecoveredActions(j, vault)
                                                      ELSE actions[j]]
         /\ exec' = [t \in Tokens |->
                       IF \E j \in taken : TokenOf(taken, j) = t
                       THEN Claimed(CHOOSE j \in taken : TokenOf(taken, j) = t)
                       ELSE exec[t]]
         /\ claims' = claims + Cardinality(taken)
         /\ \E S, seen : planStatus' = Refresh(S, seen)
         /\ UNCHANGED <<attempts, spent, vault, cancelling, resuming, faults>>
<1>1. \E blocked \in SUBSET (queue \ dropped) : \E taken \in SUBSET ((queue \ dropped) \ blocked) :
         Steps(blocked, taken)
  BY Zenon DEF Poll
<1>2. PICK blocked \in SUBSET (queue \ dropped) :
         \E taken \in SUBSET ((queue \ dropped) \ blocked) : Steps(blocked, taken)
  BY <1>1
<1>3. PICK taken \in SUBSET ((queue \ dropped) \ blocked) : Steps(blocked, taken)
  BY <1>2
<1>4. /\ dropped \cup blocked \cup taken \subseteq queue
      /\ \A j \in taken : ~ rows[j].cancel
      /\ taken \cap (dropped \cup blocked) = {}
  OBVIOUS
<1> HIDE DEF rows, dropped
<1> QED
  BY <1>3, <1>4, Zenon DEF rows

\* Tokens are numbers because a pass claims finitely many jobs.
LEMMA TokenTyped ==
    ASSUME TypeOK, NEW S \in SUBSET Jobs, NEW j
    PROVE  /\ Cardinality(S) \in Nat
           /\ Cardinality(Before(S, j)) \in Nat
           /\ TokenOf(S, j) \in Nat
<1>1. Before(S, j) \subseteq S
  BY DEF Before
<1>2. IsFiniteSet(S) /\ IsFiniteSet(Before(S, j))
  BY <1>1, FS_Subset, JobsAssumption
<1>3. Cardinality(S) \in Nat /\ Cardinality(Before(S, j)) \in Nat
  BY <1>2, FS_CardinalityType
<1> QED
  BY <1>3 DEF TypeOK, TokenOf

\* The task of a new claim.
LEMMA ClaimedTyped ==
    ASSUME NEW j \in Jobs
    PROVE  Claimed(j) \in Executor /\ Claimed(j).job = j
<1>1. Idle \in Executor /\ "claimed" \in Position /\ j \in Nat
  BY Names, JobsAssumption DEF Idle, Executor, NoRequest, Request, Seen, Unseen
<1> QED
  BY <1>1 DEF Claimed, Executor

\* The rows before and after the walk of the queue.
LEMMA RowsTyped ==
    ASSUME TypeOK
    PROVE  Requeued(Expired, Unblocked(Expired)) \in [Jobs -> Job]
<1>1. Expired \in [Jobs -> Job]
  <2>1. \A j \in Jobs : job[j] \in Job /\ Recovered(j, vault, FALSE) \in Job
    BY RecoveredTyped DEF TypeOK
  <2> QED
    BY <2>1 DEF Expired
<1>2. \A j \in Jobs : [Expired[j] EXCEPT !.status = "queued", !.dep = FALSE] \in Job
  <2> TAKE j \in Jobs
  <2>1. Expired[j] \in Job /\ "queued" \in Status
    BY <1>1, Names, Zenon
  <2> QED
    BY <2>1 DEF Job
<1> QED
  BY <1>1, <1>2 DEF Requeued

\* The rows after the walk of the queue.
LEMMA WalkedTyped ==
    ASSUME TypeOK, NEW rows \in [Jobs -> Job], NEW dropped, NEW blocked, NEW taken \in SUBSET Jobs
    PROVE  Walked(rows, dropped, blocked, taken) \in [Jobs -> Job]
<1>1. ASSUME NEW j \in Jobs PROVE Walked(rows, dropped, blocked, taken)[j] \in Job
  <2>1. rows[j] \in Job /\ TokenOf(taken, j) \in Nat
    BY TokenTyped
  <2>2. {"cancelled", "awaiting_user", "running"} \subseteq Status
    BY Names
  <2>3. [rows[j] EXCEPT !.status = "cancelled", !.dep = FALSE] \in Job
    BY <2>1, <2>2 DEF Job
  <2>4. [rows[j] EXCEPT !.status = "awaiting_user", !.dep = TRUE] \in Job
    BY <2>1, <2>2 DEF Job
  <2>5. [rows[j] EXCEPT !.status = "running", !.live = TRUE, !.lease = TokenOf(taken, j)] \in Job
    BY <2>1, <2>2 DEF Job
  <2> QED
    BY <2>1, <2>3, <2>4, <2>5 DEF Walked
<1> QED
  BY <1>1, Zenon DEF Walked

\* A pass of the claim loop.
LEMMA PollTyped == ASSUME TypeOK, Poll PROVE TypeOK'
<1>1. PICK rows, dropped, blocked, taken :
         /\ rows = Requeued(Expired, Unblocked(Expired))
         /\ dropped \cup blocked \cup taken \subseteq {j \in Jobs : rows[j].status = "queued"}
         /\ job' = Walked(rows, dropped, blocked, taken)
         /\ actions' = [j \in Jobs |-> IF j \in Stale THEN RecoveredActions(j, vault)
                                                      ELSE actions[j]]
         /\ exec' = [t \in Tokens |->
                       IF \E j \in taken : TokenOf(taken, j) = t
                       THEN Claimed(CHOOSE j \in taken : TokenOf(taken, j) = t)
                       ELSE exec[t]]
         /\ claims' = claims + Cardinality(taken)
         /\ \E S, seen : planStatus' = Refresh(S, seen)
         /\ UNCHANGED <<attempts, spent, vault, cancelling, resuming, faults>>
  BY PollSteps
<1>2. taken \in SUBSET Jobs
  BY <1>1
<1>3. job' \in [Jobs -> Job]
  BY <1>1, <1>2, RowsTyped, WalkedTyped
<1>4. actions' \in [Jobs -> Seq(Action)]
  <2>1. \A j \in Jobs : RecoveredActions(j, vault) \in Seq(Action) /\ actions[j] \in Seq(Action)
    BY RecoveredTyped DEF TypeOK
  <2> QED
    BY <1>1, <2>1
<1>5. ExecutorsOK'
  <2>1. ASSUME NEW t \in Tokens
        PROVE  exec'[t] \in Executor /\ (exec'[t].pc \notin {"unused", "done"} => exec'[t].job \in Jobs)
    <3>1. CASE \E j \in taken : TokenOf(taken, j) = t
      <4>1. PICK j \in taken : j = CHOOSE k \in taken : TokenOf(taken, k) = t
        BY <3>1
      <4>2. exec'[t] = Claimed(j) /\ j \in Jobs
        BY <1>1, <1>2, <3>1, <4>1
      <4> QED
        BY <4>2, ClaimedTyped
    <3>2. CASE ~ \E j \in taken : TokenOf(taken, j) = t
      <4>1. exec'[t] = exec[t]
        BY <1>1, <3>2
      <4> QED
        BY <4>1 DEF TypeOK, ExecutorsOK, Alive
    <3> QED
      BY <3>1, <3>2
  <2>2. exec' = [t \in Tokens |-> exec'[t]]
    BY <1>1, Zenon
  <2> QED
    BY <2>1, <2>2 DEF ExecutorsOK, Alive
<1>6. claims' \in Nat
  <2>1. Cardinality(taken) \in Nat
    BY <1>2, TokenTyped
  <2>2. claims \in Nat /\ claims' = claims + Cardinality(taken)
    BY <1>1 DEF TypeOK
  <2> QED
    BY <2>1, <2>2
<1>7. planStatus' \in [Plans -> PlanStatuses]
  BY <1>1, RefreshTyped DEF TypeOK
<1> QED
  BY <1>1, <1>3, <1>4, <1>5, <1>6, <1>7 DEF TypeOK, SpentOK

\* A heartbeat.
LEMMA HeartbeatTyped == ASSUME TypeOK, NEW t \in Tokens, Heartbeat(t) PROVE TypeOK'
<1>1. job[exec[t].job] \in Job
  BY TaskHasJob DEF TypeOK, Heartbeat
<1>2. [job[exec[t].job] EXCEPT !.live = TRUE] \in Job
  BY <1>1 DEF Job
<1>3. job' \in [Jobs -> Job]
  BY <1>2, RowChanged DEF TypeOK, Heartbeat
<1> QED
  BY <1>3 DEF TypeOK, SpentOK, ExecutorsOK, Alive, Heartbeat, elsewhere

\* A lease that runs out.
LEMMA ExpireLeaseTyped == ASSUME TypeOK, NEW j \in Jobs, ExpireLease(j) PROVE TypeOK'
<1>1. job[j] \in Job
  BY DEF TypeOK
<1>2. [job[j] EXCEPT !.live = FALSE] \in Job
  BY <1>1 DEF Job
<1>3. job' \in [Jobs -> Job]
  BY <1>2, RowChanged DEF TypeOK, ExpireLease
<1>4. faults' \in Faults
  BY FaultCounted DEF TypeOK, ExpireLease
<1> QED
  BY <1>3, <1>4 DEF TypeOK, SpentOK, ExecutorsOK, Alive, ExpireLease

-----------------------------------------------------------------------------
(* Types: decisions of the users *)

\* A job's row and the action it accepts.
LEMMA AcceptingTyped ==
    ASSUME TypeOK, NEW j \in Jobs, NEW kind \in Kind, NEW resume \in BOOLEAN
    PROVE  /\ Accepting(j, kind) \in Job
           /\ NewAction(j, kind, resume) \in Action
           /\ Append(actions[j], NewAction(j, kind, resume)) \in Seq(Action)
<1>1. job[j] \in Job /\ actions[j] \in Seq(Action) /\ Count(j) \in Nat
  BY AttemptTyped DEF TypeOK
<1>2. Accepting(j, kind) \in Job
  <2> DEFINE row == Released(job[j])
             s == IF kind = "await_user" THEN "awaiting_user" ELSE "queued"
             n == IF kind = "await_user" THEN 0 ELSE Len(actions[j]) + 1
  <2>1. row \in Job /\ s \in Status /\ n \in Nat
    BY <1>1, ReleasedTyped, Names
  <2>2. Accepting(j, kind) = [row EXCEPT !.cancel = FALSE, !.status = s, !.pending = n]
    BY DEF Accepting
  <2> HIDE DEF row, s, n
  <2>3. [row EXCEPT !.cancel = FALSE, !.status = s, !.pending = n] \in Job
    BY <2>1 DEF Job
  <2> QED
    BY <2>2, <2>3
<1>3. NewAction(j, kind, resume) \in Action
  <2> DEFINE s == IF kind = "await_user" THEN "completed" ELSE "accepted"
  <2>1. s \in ActionStatus
    BY Names
  <2>2. InputOf(j) \in Input
    BY <1>1 DEF InputOf, Input, Job
  <2> HIDE DEF s
  <2>3. [kind |-> kind, input |-> InputOf(j), seen |-> Count(j), resume |-> resume, status |-> s]
          \in Action
    BY <1>1, <2>1, <2>2 DEF Action
  <2> QED
    BY <2>3 DEF NewAction, s
<1> QED
  BY <1>1, <1>2, <1>3

\* unlock_provider.
LEMMA UnlockTyped == ASSUME TypeOK, NEW p \in Providers, Unlock(p) PROVE TypeOK'
<1>1. \A j \in Jobs : [job[j] EXCEPT !.status = "queued", !.dep = FALSE] \in Job
  <2> TAKE j \in Jobs
  <2>1. job[j] \in Job /\ "queued" \in Status
    BY Names DEF TypeOK
  <2> QED
    BY <2>1 DEF Job
<1>2. job' \in [Jobs -> Job]
  BY <1>1 DEF TypeOK, Unlock
<1>3. planStatus' \in [Plans -> PlanStatuses]
  BY RefreshTyped DEF TypeOK, Unlock
<1> QED
  BY <1>2, <1>3 DEF TypeOK, SpentOK, ExecutorsOK, Alive, Unlock

\* lock_provider.
LEMMA LockTyped == ASSUME TypeOK, NEW p \in Providers, Lock(p) PROVE TypeOK'
<1>1. faults' \in Faults
  BY FaultCounted DEF TypeOK, Lock
<1> QED
  BY <1>1 DEF TypeOK, SpentOK, ExecutorsOK, Alive, Lock

\* The read of a cancel request.
LEMMA CancelReadTyped == ASSUME TypeOK, NEW j \in Jobs, CancelRead(j) PROVE TypeOK'
<1>1. faults' \in Faults
  BY FaultCounted DEF TypeOK, CancelRead
<1>2. job[j].status \in Status
  BY DEF TypeOK, Job
<1>3. cancelling' \in [Jobs -> Status \cup {"none"}]
  BY <1>2 DEF TypeOK, CancelRead
<1> QED
  BY <1>1, <1>3 DEF TypeOK, SpentOK, ExecutorsOK, Alive, CancelRead

\* The write of a cancel request.
LEMMA CancelWriteTyped == ASSUME TypeOK, NEW j \in Jobs, CancelWrite(j) PROVE TypeOK'
<1> DEFINE early == cancelling[j] \in {"queued", "credentials_locked"}
           s == IF early THEN "cancelled" ELSE job[j].status
           b == IF early THEN FALSE ELSE job[j].dep
<1>1. job[j] \in Job
  BY DEF TypeOK
<1>2. s \in Status /\ b \in BOOLEAN
  BY <1>1, Names DEF Job
<1>3. job' = [job EXCEPT ![j] = [job[j] EXCEPT !.cancel = TRUE, !.status = s, !.dep = b]]
  BY DEF CancelWrite
<1>4. [job[j] EXCEPT !.cancel = TRUE, !.status = s, !.dep = b] \in Job
  <2> HIDE DEF s, b
  <2> QED BY <1>1, <1>2 DEF Job
<1>5. job' \in [Jobs -> Job]
  BY <1>3, <1>4, RowChanged DEF TypeOK
<1>6. cancelling' \in [Jobs -> Status \cup {"none"}]
  BY DEF TypeOK, CancelWrite
<1> QED
  BY <1>5, <1>6 DEF TypeOK, SpentOK, ExecutorsOK, Alive, CancelWrite

\* An accepted decision.
LEMMA RemediateTyped ==
    ASSUME TypeOK, NEW j \in Jobs, NEW kind \in ActionKinds, Remediate(j, kind)
    PROVE  TypeOK'
<1>1. kind \in Kind
  BY BoundsAssumption, Names
<1>2. /\ Accepting(j, kind) \in Job
      /\ NewAction(j, kind, FALSE) \in Action
  BY <1>1, AcceptingTyped
<1>3. job' = [job EXCEPT ![j] = Accepting(j, kind)] /\ planStatus' = Refresh({j}, job')
  BY DEF Remediate
<1>4. job' \in [Jobs -> Job]
  BY <1>2, <1>3, RowChanged DEF TypeOK
<1>5. actions' \in [Jobs -> Seq(Action)]
  BY <1>2, ElementAppended DEF TypeOK, Remediate
<1>6. planStatus' \in [Plans -> PlanStatuses]
  BY <1>3, RefreshTyped DEF TypeOK
<1> QED
  BY <1>4, <1>5, <1>6 DEF TypeOK, SpentOK, ExecutorsOK, Alive, Remediate

\* A decision refused because of the budget.
LEMMA RefuseOverBudgetTyped ==
    ASSUME TypeOK, NEW j \in Jobs, RefuseOverBudget(j) PROVE TypeOK'
<1>1. job[j] \in Job /\ "awaiting_user" \in Status
  BY Names DEF TypeOK
<1>2. [job[j] EXCEPT !.status = "awaiting_user"] \in Job
  BY <1>1 DEF Job
<1>3. job' \in [Jobs -> Job]
  BY <1>2, RowChanged DEF TypeOK, RefuseOverBudget
<1>4. planStatus' \in [Plans -> PlanStatuses]
  BY RefreshTyped DEF TypeOK, RefuseOverBudget
<1> QED
  BY <1>3, <1>4 DEF TypeOK, SpentOK, ExecutorsOK, Alive, RefuseOverBudget

\* resume_job.
LEMMA ResumeJobTyped == ASSUME TypeOK, NEW j \in Jobs, ResumeJob(j) PROVE TypeOK'
<1> DEFINE retry == job[j].status # "credentials_locked" /\ ResumesUnsent(j)
           requeue == ProviderOf[j] \in vault \/ (job[j].status # "credentials_locked"
                                                    /\ (HasOutput(j) \/ RecoverableAction(j)))
           s == IF requeue THEN "queued" ELSE "credentials_locked"
           row == IF retry THEN Accepting(j, "retry")
                  ELSE [job[j] EXCEPT !.cancel = FALSE, !.status = s]
<1>1. /\ "retry" \in Kind /\ s \in Status
      /\ job[j] \in Job
  BY Names DEF TypeOK
<1>2. Accepting(j, "retry") \in Job /\ NewAction(j, "retry", TRUE) \in Action
  BY <1>1, AcceptingTyped
<1>3. row \in Job
  <2> HIDE DEF s, retry
  <2>1. [job[j] EXCEPT !.cancel = FALSE, !.status = s] \in Job
    BY <1>1 DEF Job
  <2> QED
    BY <1>2, <2>1
<1>4. job' = [job EXCEPT ![j] = row]
  BY DEF ResumeJob
<1>5. job' \in [Jobs -> Job]
  <2> HIDE DEF row
  <2> QED BY <1>3, <1>4, RowChanged DEF TypeOK
<1>6. actions' \in [Jobs -> Seq(Action)]
  BY <1>2, ElementAppended DEF TypeOK, ResumeJob
<1>7. planStatus' \in [Plans -> PlanStatuses]
  BY RefreshTyped DEF TypeOK, ResumeJob
<1> QED
  BY <1>5, <1>6, <1>7 DEF TypeOK, SpentOK, ExecutorsOK, Alive, ResumeJob

\* resume_recoverable_jobs.
LEMMA ResumePlanTyped == ASSUME TypeOK, NEW p \in Plans, ResumePlan(p) PROVE TypeOK'
<1>1. "retry" \in Kind /\ "queued" \in Status
  BY Names
<1>2. \A j \in Jobs : /\ Accepting(j, "retry") \in Job
                      /\ Append(actions[j], NewAction(j, "retry", TRUE)) \in Seq(Action)
  BY <1>1, AcceptingTyped
<1>3. \A j \in Jobs : [Released(job[j]) EXCEPT !.status = "queued"] \in Job
  <2> TAKE j \in Jobs
  <2>1. Released(job[j]) \in Job
    BY ReleasedTyped DEF TypeOK
  <2> QED
    BY <1>1, <2>1 DEF Job
<1>4. job' \in [Jobs -> Job]
  BY <1>2, <1>3 DEF TypeOK, ResumePlan
<1>5. actions' \in [Jobs -> Seq(Action)]
  BY <1>2 DEF TypeOK, ResumePlan
<1>6. planStatus' \in [Plans -> PlanStatuses]
  BY RefreshTyped DEF TypeOK, ResumePlan
<1> QED
  BY <1>4, <1>5, <1>6 DEF TypeOK, SpentOK, ExecutorsOK, Alive, ResumePlan

\* The read and the write of an unlock or a resumption that something overtakes.
LEMMA OvertakenTyped == ASSUME TypeOK, Overtaken PROVE TypeOK'
<1>1. ASSUME NEW r \in Resumption, Reads(r), vault' \subseteq Providers PROVE TypeOK'
  <2>1. faults' \in Faults
    BY <1>1, FaultCounted DEF TypeOK, Reads
  <2> QED
    BY <1>1, <2>1 DEF TypeOK, SpentOK, ExecutorsOK, Alive, Reads
<1>2. ASSUME NEW p \in Providers, UnlockRead(p) PROVE TypeOK'
  <2>1. [NotResuming EXCEPT !.queue = LockedJobs(p)] \in Resumption
    BY DEF NotResuming, Resumption, LockedJobs
  <2> QED
    BY <1>1, <1>2, <2>1 DEF UnlockRead, TypeOK
<1>3. ASSUME NEW j \in Jobs, ResumeRead(j) PROVE TypeOK'
  <2> DEFINE r == [queue |-> IF Resumable(j) THEN {j} ELSE {},
                   uncancel |-> IF job[j].cancel THEN {j} ELSE {}, free |-> {}]
  <2>1. r \in Resumption /\ Reads(r)
    BY <1>3 DEF Resumption, ResumeRead
  <2> QED
    BY <1>1, <1>3, <2>1 DEF ResumeRead, TypeOK
<1>4. ASSUME NEW p \in Plans, ResumePlanRead(p) PROVE TypeOK'
  <2> DEFINE r == [queue |-> Resumed(p), uncancel |-> {},
                   free |-> {j \in Resumed(p) : job[j].lease # 0}]
  <2>1. r \in Resumption /\ Reads(r)
    BY <1>4 DEF Resumption, ResumePlanRead, Resumed
  <2> QED
    BY <1>1, <1>4, <2>1 DEF ResumePlanRead, TypeOK
<1>5. CASE ResumeWrite
  <2>1. \A j \in Jobs : ResumedRow(j) \in Job
    <3> TAKE j \in Jobs
    <3> DEFINE row == IF j \in resuming.free THEN Released(job[j]) ELSE job[j]
               s == IF j \in resuming.queue THEN "queued" ELSE row.status
               c == IF j \in resuming.uncancel THEN FALSE ELSE row.cancel
    <3>1. row \in Job
      BY ReleasedTyped DEF TypeOK
    <3>2. s \in Status /\ c \in BOOLEAN
      BY <3>1, Names DEF Job
    <3>3. ResumedRow(j) = [row EXCEPT !.status = s, !.cancel = c]
      BY DEF ResumedRow
    <3> HIDE DEF row, s, c
    <3> QED
      BY <3>1, <3>2, <3>3 DEF Job
  <2>2. job' \in [Jobs -> Job]
    BY <1>5, <2>1 DEF ResumeWrite
  <2>3. planStatus' \in [Plans -> PlanStatuses]
    BY <1>5, RefreshTyped DEF TypeOK, ResumeWrite
  <2>4. resuming' \in Resumption
    BY <1>5 DEF ResumeWrite, NotResuming, Resumption
  <2> QED
    BY <1>5, <2>2, <2>3, <2>4 DEF TypeOK, SpentOK, ExecutorsOK, Alive, ResumeWrite
<1> QED
  BY <1>2, <1>3, <1>4, <1>5 DEF Overtaken

-----------------------------------------------------------------------------
(* Type correctness of the system *)

\* Every step keeps the types.
LEMMA NextTyped == ASSUME TypeOK, Next PROVE TypeOK'
<1>1. CASE Poll
  BY <1>1, PollTyped
<1>2. ASSUME NEW t \in Tokens, Heartbeat(t) PROVE TypeOK'
  BY <1>2, HeartbeatTyped
<1>3. ASSUME NEW t \in Tokens, Task(t) PROVE TypeOK'
  BY <1>3, BeginTyped, AttemptingTyped, AnsweredTyped, SettlingTyped, StagingTyped,
     RepairingTyped DEF Task
<1>4. CASE User
  BY <1>4, UnlockTyped, LockTyped, CancelReadTyped, CancelWriteTyped, RemediateTyped,
     RefuseOverBudgetTyped, ResumeJobTyped, ResumePlanTyped, OvertakenTyped DEF User
<1>5. CASE Environment
  BY <1>5, RestartTyped, ExpireLeaseTyped DEF Environment
<1> QED
  BY <1>1, <1>2, <1>3, <1>4, <1>5 DEF Next

\* TypeOK holds in every reachable state: a task that works always has a job,
\* and every row, record and counter stays within its type, whatever the
\* runner, its tasks, the users and the environment do.
THEOREM TypeCorrect == Spec => []TypeOK
<1>1. TypeOK /\ UNCHANGED vars => TypeOK'
  BY Zenon DEF TypeOK, SpentOK, ExecutorsOK, Alive, vars
<1> QED
  BY <1>1, InitTyped, NextTyped, PTL DEF Spec

-----------------------------------------------------------------------------
(* The limit on provider calls *)

\* Only the dispatch of a task changes the number of calls of a request.
LEMMA SpentChanges ==
    ASSUME TypeOK, Next
    PROVE  spent' = spent \/ \E t \in Tokens : exec[t].pc = "invoke" /\ Dispatch(t)
<1>1. CASE Poll
  BY <1>1, Zenon DEF Poll
<1>2. CASE User
  BY <1>2, Zenon DEF User, Unlock, Lock, CancelRead, CancelWrite, Remediate, RefuseOverBudget, ResumeJob,
     ResumePlan, Overtaken, Reads, UnlockRead, ResumeRead, ResumePlanRead, ResumeWrite
<1>3. CASE Environment
  BY <1>3 DEF Environment, Restart, ExpireLease
<1>4. ASSUME NEW t \in Tokens, Heartbeat(t) PROVE spent' = spent
  BY <1>4 DEF Heartbeat
<1>5. ASSUME NEW t \in Tokens, Task(t) PROVE spent' = spent \/ Dispatch(t)
  <2>1. CASE Begin(t)
    BY <2>1, Zenon DEF Begin, BeginLost, BeginRepair, RejectStaleAction, PrepareFails, ReuseOutput,
       CallsExhausted, PrepareCall
  <2>2. CASE Attempting(t)
    BY <2>2, Zenon DEF Attempting, StartAttempt, StartLost, BuildProvider, FailLocally, RefuseDispatch
  <2>3. CASE Answered(t)
    BY <2>3, Zenon DEF Answered, Respond, LoseResponse, CallAgain, ErrorAnswer, PersistResult
  <2>4. CASE Settling(t)
    BY <2>4, Zenon DEF Settling, FinishAttemptError, PauseProviderQueue, SetAwaitingUser
  <2>5. CASE Staging(t)
    BY <2>5, Zenon DEF Staging, BeginStaging, StageFails, StageResult, CompleteRead, CompleteJob
  <2>6. CASE Repairing(t)
    BY <2>6, Zenon DEF Repairing, RepairStale, RepairRejected, RepairBegin, RepairStage, RepairFails
  <2> QED
    BY <1>5, <2>1, <2>2, <2>3, <2>4, <2>5, <2>6, Zenon DEF Task
<1> QED
  BY <1>1, <1>2, <1>3, <1>4, <1>5, Zenon DEF Next, Dispatch

\* One more call of a request that is below the limit.
LEMMA DispatchWithinLimit ==
    ASSUME TypeOK, CallLimit, NEW t \in Tokens, Dispatch(t)
    PROVE  CallLimit'
<1> DEFINE j == exec[t].job
           r == exec[t].req
           f == [q \in DOMAIN spent[j] \cup {r} |-> Spent(j, q) + (IF q = r THEN 1 ELSE 0)]
<1>1. j \in Jobs
  BY TaskHasJob DEF TypeOK, Dispatch, Alive
<1>2. Spent(j, r) < MaxTransportRetries + 1
  BY DEF Dispatch, CallsLeft
<1>3. \A q : Spent(j, q) \in Nat /\ (q \in DOMAIN spent[j] => Spent(j, q) = spent[j][q])
  BY <1>1, SpentTyped DEF TypeOK, Spent
<1>4. \A q \in DOMAIN f : f[q] <= MaxTransportRetries + 1
  BY <1>1, <1>2, <1>3, LimitsAssumption DEF CallLimit
<1>5. spent' = [spent EXCEPT ![j] = f]
  BY DEF Dispatch, AddCall
<1> HIDE DEF f
<1>6. \A k \in Jobs : spent'[k] = IF k = j THEN f ELSE spent[k]
  BY <1>5 DEF TypeOK, SpentOK
<1> QED
  BY <1>4, <1>6 DEF CallLimit

\* No request is sent more than MaxTransportRetries + 1 times, for any number
\* of jobs, attempts, restarts and decisions.  CallLimit is inductive once the
\* types are known, because Dispatch counts every earlier call of the request
\* in the same transaction that adds one.
THEOREM CallLimitHolds == Spec => []CallLimit
<1>1. Init => CallLimit
  BY DEF Init, CallLimit
<1>2. TypeOK /\ CallLimit /\ [Next]_vars => CallLimit'
  <2> SUFFICES ASSUME TypeOK, CallLimit, [Next]_vars PROVE CallLimit'
    OBVIOUS
  <2>1. CASE spent' = spent
    BY <2>1 DEF CallLimit
  <2>2. CASE spent' # spent
    <3>1. Next
      BY <2>2 DEF vars
    <3>2. PICK t \in Tokens : Dispatch(t)
      BY <2>2, <3>1, SpentChanges
    <3> QED
      BY <3>2, DispatchWithinLimit
  <2> QED
    BY <2>1, <2>2
<1> QED
  BY <1>1, <1>2, TypeCorrect, PTL DEF Spec
=============================================================================
