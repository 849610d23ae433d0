------------------------- MODULE RemediationProofs -------------------------
(***************************************************************************)
(* What overlapping decisions on a plan keep, for every number of users,   *)
(* jobs, rounds and requests.  A request decides on the row of its job as  *)
(* it finds it, so nothing has to be known of the copies that requests     *)
(* carry: the types of the rows and the property itself are inductive.     *)
(***************************************************************************)
EXTENDS Remediation, FiniteSetTheorems, TLAPS

Row == [status : {"queued", "running", "candidate_ready", "awaiting_user"},
        pending : Kinds \union {"none"},
        rounds : Nat, tasks : Nat, candidate : Nat]

RowsOK == jobs \in [Jobs -> Row]

\* A request that decides is about a job of the plan.
AboutJobs == \A c \in Callers : call[c].kind \in Kinds \union {"diagnosis"} => call[c].job \in Jobs

CallsOK == DOMAIN call = Callers /\ AboutJobs

IInv == RowsOK /\ CallsOK /\ overruled \in BOOLEAN /\ RoundsWithinLimit

-----------------------------------------------------------------------------
(* What one decision does to the row it is given *)

\* The row of job j, changed by a step.
RowBecomes(j, r) == jobs' = [jobs EXCEPT ![j] = r]

\* What a row must be, given whether an execution was overruled.
RowGood(r, o) ==
    /\ r.rounds <= MaxRounds
    /\ ~o => /\ r.pending # "none" => r.status \in {"queued", "running"}
             /\ r.tasks = IF r.status = "running" THEN 1 ELSE 0

\* What no step may do to the pending action of a row.
RowKeeps(r, q) == r.pending # "none" => q.pending \in {r.pending, "none"} /\ q.rounds = r.rounds

\* One row is replaced by a good one, and nothing else is overruled.
LEMMA OneRow ==
    ASSUME RowsOK, NEW j \in Jobs, NEW r \in Row, RowBecomes(j, r),
           RoundsWithinLimit, RowGood(r, overruled'), overruled => overruled'
    PROVE  RowsOK' /\ RoundsWithinLimit'
<1>1. RowsOK'
  BY DEF RowsOK, RowBecomes
<1>2. \A i \in Jobs : jobs'[i] = IF i = j THEN r ELSE jobs[i]
  BY DEF RowsOK, RowBecomes
<1>3. RoundsWithinLimit'
  BY <1>2 DEF RoundsWithinLimit, RowGood
<1> QED
  BY <1>1, <1>3

\* A decision replaces the row of its job by a row that keeps what the given
\* one had pending, and that is good if the given one was.
LEMMA DecisionOnRow ==
    ASSUME MaxRounds \in Nat, NEW c \in Callers, NEW kind \in Kinds, NEW row \in Row, NEW o \in BOOLEAN,
           RowGood(row, o), Decide(c, kind, row)
    PROVE  \E r \in Row : RowBecomes(call[c].job, r) /\ RowGood(r, o) /\ RowKeeps(row, r)
<1>1. CASE Refuse(c, row)
  BY <1>1 DEF Refuse, RowBecomes, RowKeeps
<1>2. CASE RefusePaid(c, row)
  <2> DEFINE r == [row EXCEPT !.status = "awaiting_user"]
  <2>1. r \in Row /\ RowGood(r, o) /\ RowKeeps(row, r)
    BY <1>2 DEF RefusePaid, Open, Row, RowGood, RowKeeps
  <2> QED
    BY <1>2, <2>1 DEF RefusePaid, RowBecomes
<1>3. CASE AcceptPaid(c, row)
  <2> DEFINE r == [row EXCEPT !.status = "queued", !.pending = "paid", !.rounds = @ + 1]
  <2>1. /\ r.status = "queued" /\ r.pending = "paid"
        /\ r.rounds = row.rounds + 1 /\ r.tasks = row.tasks
    BY DEF Row
  <2>2. r \in Row
    <3>1. row.rounds + 1 \in Nat
      BY DEF Row
    <3> QED
      BY <3>1 DEF Row, Kinds
  <2>3. /\ row.pending = "none" /\ row.status # "running"
        /\ row.rounds + 1 <= MaxRounds
    BY <1>3 DEF AcceptPaid, Open, RoundsLeft
  <2>4. RowGood(r, o) /\ RowKeeps(row, r)
    BY <2>1, <2>3 DEF RowGood, RowKeeps
  <2> QED
    BY <1>3, <2>2, <2>4 DEF AcceptPaid, RowBecomes
<1>4. CASE AcceptFree(c, row)
  <2> DEFINE r == [row EXCEPT !.status = "queued", !.pending = "free"]
  <2>1. r \in Row /\ RowGood(r, o) /\ RowKeeps(row, r)
    BY <1>4 DEF AcceptFree, Open, Row, RowGood, RowKeeps, Kinds
  <2> QED
    BY <1>4, <2>1 DEF AcceptFree, RowBecomes
<1>5. CASE AcceptWait(c, row)
  <2> DEFINE r == [row EXCEPT !.status = "awaiting_user"]
  <2>1. r \in Row /\ RowGood(r, o) /\ RowKeeps(row, r)
    BY <1>5 DEF AcceptWait, Open, Row, RowGood, RowKeeps
  <2> QED
    BY <1>5, <2>1 DEF AcceptWait, RowBecomes
<1> QED
  BY <1>1, <1>2, <1>3, <1>4, <1>5 DEF Decide

\* The finding of the agent leaves a good row, unless it overrules an
\* execution, and nothing of its pending action.
LEMMA ReportedRow ==
    ASSUME MaxRounds \in Nat, RowsOK, RoundsWithinLimit, NEW c \in Callers, NEW blocking \in BOOLEAN,
           call[c].job \in Jobs, overruled \in BOOLEAN
    PROVE  LET row == Reported(c, blocking)
           IN  /\ row \in Row
               /\ RowGood(row, overruled \/ Overrules(c, blocking))
               /\ row.pending = jobs[call[c].job].pending
               /\ row.rounds = jobs[call[c].job].rounds
<1> DEFINE was == jobs[call[c].job]
<1>1. was \in Row /\ RowGood(was, overruled)
  BY DEF RowsOK, RoundsWithinLimit, RowGood
<1>2. CASE Reported(c, blocking) = was
  BY <1>1, <1>2 DEF RowGood
<1>3. CASE /\ Reported(c, blocking) = [was EXCEPT !.status = "awaiting_user"]
           /\ blocking /\ call[c].copy.status # "awaiting_user"
  <2>1. [was EXCEPT !.status = "awaiting_user"] \in Row
    BY <1>1 DEF Row
  <2>2. CASE was.status \in {"queued", "running"}
    BY <1>1, <1>3, <2>1, <2>2 DEF Overrules, RowGood, Row
  <2>3. CASE was.status \notin {"queued", "running"}
    BY <1>1, <1>3, <2>1, <2>3 DEF RowGood, Row
  <2> QED
    BY <2>2, <2>3
<1> QED
  BY <1>2, <1>3 DEF Reported

-----------------------------------------------------------------------------
(* The actions *)

\* A step that leaves the jobs and what was overruled alone.
LEMMA JobsUntouched ==
    ASSUME IInv, CallsOK', UNCHANGED <<jobs, overruled>>
    PROVE  IInv'
  BY DEF IInv, RowsOK, RoundsWithinLimit

\* A request that begins is about a job of the plan.
LEMMA RequestBegins ==
    ASSUME IInv, NEW c \in Callers, NEW r, Request(c, r),
           r.kind \in Kinds \union {"diagnosis"} => r.job \in Jobs
    PROVE  IInv'
<1>1. UNCHANGED <<jobs, overruled>> /\ call' = [call EXCEPT ![c] = r]
  BY DEF Request
<1>2. CallsOK'
  BY <1>1 DEF IInv, CallsOK, AboutJobs
<1> QED
  BY <1>1, <1>2, JobsUntouched

\* A request that ends is about none.
LEMMA RequestEnds ==
    ASSUME CallsOK, NEW c \in Callers, call' = [call EXCEPT ![c] = NoCall]
    PROVE  CallsOK'
  BY DEF CallsOK, AboutJobs, NoCall, Kinds

\* The runner settles one row.
LEMMA RunnerStep ==
    ASSUME IInv,
           NEW j \in Jobs, Claim(j) \/ Settle(j) \/ Leave(j)
    PROVE  \E r \in Row : RowBecomes(j, r) /\ RowGood(r, overruled') /\ RowKeeps(jobs[j], r)
<1> DEFINE was == jobs[j]
<1>1. was \in Row /\ RowGood(was, overruled)
  BY DEF IInv, RowsOK, RoundsWithinLimit, RowGood
<1>2. CASE Claim(j)
  <2> DEFINE r == [was EXCEPT !.status = "running", !.tasks = @ + 1]
  <2>0. was.tasks \in Nat /\ was.tasks + 1 \in Nat
    BY <1>1 DEF Row
  <2>1. /\ r \in Row /\ r.tasks = was.tasks + 1 /\ r.status = "running"
        /\ r.pending = was.pending /\ r.rounds = was.rounds
    BY <1>1, <2>0 DEF Row
  <2>2. was.status = "queued" /\ overruled' = overruled /\ RowBecomes(j, r)
    BY <1>2 DEF Claim, RowBecomes
  <2>3. RowGood(r, overruled') /\ RowKeeps(was, r)
    BY <1>1, <2>0, <2>1, <2>2 DEF RowGood, RowKeeps
  <2> QED
    BY <2>1, <2>2, <2>3
<1>3. CASE Settle(j)
  <2>1. PICK result \in {<<"candidate_ready", 1>>, <<"awaiting_user", 1>>, <<"awaiting_user", 0>>} :
          jobs' = [jobs EXCEPT ![j].status = result[1], ![j].pending = "none",
                               ![j].tasks = @ - 1, ![j].candidate = @ + result[2]]
    BY <1>3 DEF Settle
  <2> DEFINE r == [was EXCEPT !.status = result[1], !.pending = "none",
                              !.tasks = @ - 1, !.candidate = @ + result[2]]
  <2>2. was.tasks \in Nat /\ was.tasks > 0 /\ was.candidate \in Nat
    BY <1>1, <1>3 DEF Row, Settle
  <2>3. /\ r.status = result[1] /\ r.pending = "none" /\ r.tasks = was.tasks - 1
        /\ r.rounds = was.rounds /\ r \in Row
    <3>1. /\ was.tasks - 1 \in Nat /\ was.candidate + result[2] \in Nat
          /\ result[1] \in {"candidate_ready", "awaiting_user"}
      BY <2>1, <2>2
    <3> QED
      BY <1>1, <3>1 DEF Row
  <2>4. RowBecomes(j, r) /\ overruled' = overruled
    BY <1>3, <2>1 DEF Settle, RowBecomes
  <2>5. RowGood(r, overruled') /\ RowKeeps(was, r)
    BY <1>1, <2>1, <2>2, <2>3, <2>4 DEF RowGood, RowKeeps
  <2> QED
    BY <2>3, <2>4, <2>5
<1>4. CASE Leave(j)
  <2> DEFINE r == [was EXCEPT !.tasks = @ - 1]
  <2>1. /\ was.tasks \in Nat /\ was.tasks > 0
        /\ was.status # "running" \/ was.tasks > 1
        /\ overruled' = overruled /\ RowBecomes(j, r)
    BY <1>1, <1>4 DEF Row, Leave, RowBecomes
  <2>2. /\ r \in Row /\ r.tasks = was.tasks - 1 /\ r.status = was.status
        /\ r.pending = was.pending /\ r.rounds = was.rounds
    BY <1>1, <2>1 DEF Row
  <2>3. RowGood(r, overruled') /\ RowKeeps(was, r)
    BY <1>1, <2>1, <2>2 DEF RowGood, RowKeeps
  <2> QED
    BY <2>1, <2>2, <2>3
<1> QED
  BY <1>2, <1>3, <1>4

\* The requests that settle a row: decisions of users and of the agent.
LEMMA RequestStep ==
    ASSUME MaxRounds \in Nat, IInv, NEW c \in Callers,
           \/ UserDecides(c)
           \/ \E kind \in Kinds, blocking \in BOOLEAN : AgentDecides(c, kind, blocking)
           \/ \E blocking \in BOOLEAN : AgentHandsOver(c, blocking)
    PROVE  /\ call[c].job \in Jobs
           /\ \E r \in Row : /\ RowBecomes(call[c].job, r) /\ RowGood(r, overruled')
                             /\ RowKeeps(jobs[call[c].job], r)
           /\ call' = [call EXCEPT ![c] = NoCall]
           /\ overruled' \in BOOLEAN /\ (overruled => overruled')
<1>1. CASE UserDecides(c)
  <2>1. call[c].kind \in Kinds /\ call[c].job \in Jobs
    BY <1>1 DEF UserDecides, IInv, CallsOK, AboutJobs
  <2>2. jobs[call[c].job] \in Row /\ RowGood(jobs[call[c].job], overruled)
    BY <2>1 DEF IInv, RowsOK, RoundsWithinLimit, RowGood
  <2>3. Decide(c, call[c].kind, jobs[call[c].job])
    BY <1>1 DEF UserDecides
  <2>4. overruled \in BOOLEAN
    BY DEF IInv
  <2>5. \E r \in Row : /\ RowBecomes(call[c].job, r) /\ RowGood(r, overruled)
                       /\ RowKeeps(jobs[call[c].job], r)
    BY <2>1, <2>2, <2>3, <2>4, DecisionOnRow
  <2>6. overruled' = overruled /\ call' = [call EXCEPT ![c] = NoCall]
    BY <1>1 DEF UserDecides, Done
  <2> QED
    BY <2>1, <2>4, <2>5, <2>6
<1>2. ASSUME NEW kind \in Kinds, NEW blocking \in BOOLEAN, AgentDecides(c, kind, blocking)
      PROVE  /\ call[c].job \in Jobs
             /\ \E r \in Row : /\ RowBecomes(call[c].job, r) /\ RowGood(r, overruled')
                               /\ RowKeeps(jobs[call[c].job], r)
             /\ call' = [call EXCEPT ![c] = NoCall]
             /\ overruled' \in BOOLEAN /\ (overruled => overruled')
  <2> DEFINE row == Reported(c, blocking)
  <2>1. call[c].job \in Jobs
    BY <1>2 DEF AgentDecides, IInv, CallsOK, AboutJobs
  <2>2. RowsOK /\ RoundsWithinLimit /\ overruled \in BOOLEAN
    BY DEF IInv
  <2>3. /\ overruled' = (overruled \/ Overrules(c, blocking))
        /\ Decide(c, kind, row) /\ call' = [call EXCEPT ![c] = NoCall]
    BY <1>2 DEF AgentDecides, Done
  <2>4. /\ row \in Row /\ RowGood(row, overruled \/ Overrules(c, blocking))
        /\ row.pending = jobs[call[c].job].pending /\ row.rounds = jobs[call[c].job].rounds
    BY <2>1, <2>2, ReportedRow
  <2>5. (overruled \/ Overrules(c, blocking)) \in BOOLEAN
    BY <2>2 DEF Overrules
  <2>6. \E r \in Row : /\ RowBecomes(call[c].job, r)
                       /\ RowGood(r, overruled \/ Overrules(c, blocking)) /\ RowKeeps(row, r)
    <3> HIDE DEF row
    <3> QED
      BY <2>3, <2>4, <2>5, DecisionOnRow
  <2>7. PICK r \in Row : /\ RowBecomes(call[c].job, r)
                         /\ RowGood(r, overruled \/ Overrules(c, blocking)) /\ RowKeeps(row, r)
    BY <2>6
  <2>8. RowKeeps(jobs[call[c].job], r)
    BY <2>4, <2>7 DEF RowKeeps
  <2>9. RowGood(r, overruled')
    BY <2>3, <2>7
  <2>10. overruled' \in BOOLEAN /\ (overruled => overruled')
    BY <2>3, <2>5
  <2> QED
    BY <2>1, <2>3, <2>7, <2>8, <2>9, <2>10
<1>3. ASSUME NEW blocking \in BOOLEAN, AgentHandsOver(c, blocking)
      PROVE  /\ call[c].job \in Jobs
             /\ \E r \in Row : /\ RowBecomes(call[c].job, r) /\ RowGood(r, overruled')
                               /\ RowKeeps(jobs[call[c].job], r)
             /\ call' = [call EXCEPT ![c] = NoCall]
             /\ overruled' \in BOOLEAN /\ (overruled => overruled')
  <2> DEFINE row == Reported(c, blocking)
  <2>1. call[c].job \in Jobs
    BY <1>3 DEF AgentHandsOver, IInv, CallsOK, AboutJobs
  <2>2. RowsOK /\ RoundsWithinLimit /\ overruled \in BOOLEAN
    BY DEF IInv
  <2>3. /\ overruled' = (overruled \/ Overrules(c, blocking))
        /\ RowBecomes(call[c].job, row) /\ call' = [call EXCEPT ![c] = NoCall]
    BY <1>3 DEF AgentHandsOver, RowBecomes
  <2>4. /\ row \in Row /\ RowGood(row, overruled \/ Overrules(c, blocking))
        /\ row.pending = jobs[call[c].job].pending /\ row.rounds = jobs[call[c].job].rounds
    BY <2>1, <2>2, ReportedRow
  <2>5. RowKeeps(jobs[call[c].job], row)
    BY <2>4 DEF RowKeeps
  <2>6. RowGood(row, overruled') /\ overruled' \in BOOLEAN /\ (overruled => overruled')
    BY <2>2, <2>3, <2>4 DEF Overrules
  <2> QED
    BY <2>1, <2>3, <2>4, <2>5, <2>6
<1> QED
  BY <1>1, <1>2, <1>3

\* A row that is replaced by one that keeps its pending action.
LEMMA RowReplaced ==
    ASSUME RowsOK, NEW j \in Jobs, NEW r \in Row, RowBecomes(j, r), RowKeeps(jobs[j], r)
    PROVE  \A i \in Jobs : RowKeeps(jobs[i], jobs'[i])
<1>1. \A i \in Jobs : jobs'[i] = IF i = j THEN r ELSE jobs[i]
  BY DEF RowsOK, RowBecomes
<1> QED
  BY <1>1 DEF RowKeeps

-----------------------------------------------------------------------------
(* The theorems *)

LEMMA InitOK == ASSUME MaxRounds \in Nat, DecisionInit PROVE IInv
<1>1. NewJob \in Row
  BY DEF NewJob, Row
<1>2. RowsOK
  BY <1>1 DEF DecisionInit, RowsOK
<1>3. CallsOK
  BY DEF DecisionInit, CallsOK, AboutJobs, NoCall, Kinds
<1>4. overruled \in BOOLEAN
  BY DEF DecisionInit
<1>5. RoundsWithinLimit
  BY DEF DecisionInit, RoundsWithinLimit, NewJob
<1> QED
  BY <1>2, <1>3, <1>4, <1>5 DEF IInv

\* Every step keeps the invariant, and the pending actions.
LEMMA StepOK ==
    ASSUME MaxRounds \in Nat, IInv, [DecisionNext]_decisionVars
    PROVE  IInv' /\ \A i \in Jobs : RowKeeps(jobs[i], jobs'[i])
<1>1. CASE UNCHANGED decisionVars
  BY <1>1 DEF decisionVars, IInv, RowsOK, CallsOK, AboutJobs, RoundsWithinLimit, RowKeeps
<1>2. ASSUME NEW c \in Callers, CallerNext(c)
      PROVE  IInv' /\ \A i \in Jobs : RowKeeps(jobs[i], jobs'[i])
  <2>1. ASSUME NEW r, Request(c, r), r.kind \in Kinds \union {"diagnosis"} => r.job \in Jobs
        PROVE  IInv' /\ \A i \in Jobs : RowKeeps(jobs[i], jobs'[i])
    <3>1. IInv'
      BY <2>1, RequestBegins
    <3>2. jobs' = jobs
      BY <2>1 DEF Request
    <3> QED
      BY <3>1, <3>2 DEF RowKeeps
  <2>2. ASSUME NEW j \in Jobs, NEW kind \in Kinds, ReadPlan(c, j, kind)
        PROVE  IInv' /\ \A i \in Jobs : RowKeeps(jobs[i], jobs'[i])
    BY <2>1, <2>2 DEF ReadPlan, NoCall
  <2>3. ASSUME NEW j \in Jobs, StartDiagnosis(c, j)
        PROVE  IInv' /\ \A i \in Jobs : RowKeeps(jobs[i], jobs'[i])
    BY <2>1, <2>3 DEF StartDiagnosis, NoCall
  <2>4. ASSUME NEW b \in Budgets, ReadBudget(c, b)
        PROVE  IInv' /\ \A i \in Jobs : RowKeeps(jobs[i], jobs'[i])
    BY <2>1, <2>4 DEF ReadBudget, NoCall, Kinds
  <2>5. CASE \/ UserDecides(c)
             \/ \E kind \in Kinds, blocking \in BOOLEAN : AgentDecides(c, kind, blocking)
             \/ \E blocking \in BOOLEAN : AgentHandsOver(c, blocking)
    <3>1. /\ call[c].job \in Jobs
          /\ \E r \in Row : /\ RowBecomes(call[c].job, r) /\ RowGood(r, overruled')
                            /\ RowKeeps(jobs[call[c].job], r)
          /\ call' = [call EXCEPT ![c] = NoCall]
          /\ overruled' \in BOOLEAN /\ (overruled => overruled')
      BY <2>5, RequestStep
    <3>2. RowsOK /\ CallsOK /\ RoundsWithinLimit
      BY DEF IInv
    <3>3. RowsOK' /\ RoundsWithinLimit'
      BY <3>1, <3>2, OneRow
    <3>4. \A i \in Jobs : RowKeeps(jobs[i], jobs'[i])
      BY <3>1, <3>2, RowReplaced
    <3>5. CallsOK'
      BY <3>1, <3>2, RequestEnds
    <3> QED
      BY <3>1, <3>3, <3>4, <3>5 DEF IInv
  <2>6. CASE WriteBudget(c)
    <3>1. UNCHANGED <<jobs, overruled>> /\ call' = [call EXCEPT ![c] = NoCall]
      BY <2>6 DEF WriteBudget, Done
    <3>2. CallsOK'
      BY <3>1, RequestEnds DEF IInv
    <3>3. IInv'
      BY <3>1, <3>2, JobsUntouched
    <3> QED
      BY <3>1, <3>3 DEF RowKeeps
  <2> QED
    BY <1>2, <2>2, <2>3, <2>4, <2>5, <2>6 DEF CallerNext
<1>3. ASSUME NEW j \in Jobs, Claim(j) \/ Settle(j) \/ Leave(j)
      PROVE  IInv' /\ \A i \in Jobs : RowKeeps(jobs[i], jobs'[i])
  <2>1. \E r \in Row : RowBecomes(j, r) /\ RowGood(r, overruled') /\ RowKeeps(jobs[j], r)
    BY <1>3, RunnerStep
  <2>2. UNCHANGED <<call, overruled>>
    BY <1>3 DEF Claim, Settle, Leave
  <2>3. RowsOK /\ RoundsWithinLimit /\ CallsOK' /\ overruled' \in BOOLEAN
    BY <2>2 DEF IInv, CallsOK, AboutJobs
  <2>4. RowsOK' /\ RoundsWithinLimit'
    BY <2>1, <2>2, <2>3, OneRow
  <2>5. \A i \in Jobs : RowKeeps(jobs[i], jobs'[i])
    BY <2>1, <2>3, RowReplaced
  <2> QED
    BY <2>3, <2>4, <2>5 DEF IInv
<1> QED
  BY <1>1, <1>2, <1>3 DEF DecisionNext

\* Whatever requests of users and of the diagnosing agent overlap, no job is
\* given more paid decisions than its plan has rounds, and unless a finding
\* overruled an execution an action is pending only while its job is queued
\* or runs, in exactly one task (create_remediation, diagnose_job).
THEOREM RoundsHold == DecisionSpec => []RoundsWithinLimit
<1>1. DecisionInit => IInv
  BY BudgetAssumption, InitOK
<1>2. IInv /\ [DecisionNext]_decisionVars => IInv'
  BY BudgetAssumption, StepOK
<1>3. IInv => RoundsWithinLimit
  BY DEF IInv
<1> QED
  BY <1>1, <1>2, <1>3, PTL DEF DecisionSpec

\* And no decision replaces the pending action of another: the row is read
\* again under the writer lock (create_remediation).
THEOREM DecisionsExclusive == DecisionSpec => OneDecisionAtATime
<1>1. DecisionInit => IInv
  BY BudgetAssumption, InitOK
<1>2. IInv /\ [DecisionNext]_decisionVars => IInv'
  BY BudgetAssumption, StepOK
<1>3. IInv /\ [DecisionNext]_decisionVars =>
        [\A j \in Jobs : jobs[j].pending # "none" => jobs'[j].pending \in {jobs[j].pending, "none"}
                                                     /\ jobs'[j].rounds = jobs[j].rounds]_decisionVars
  BY BudgetAssumption, StepOK DEF RowKeeps
<1> QED
  BY <1>1, <1>2, <1>3, PTL DEF DecisionSpec, OneDecisionAtATime

-----------------------------------------------------------------------------
(* The budget.  What the plan's row counts is what the jobs' rows count as *)
(* long as every request wrote over the plan it had read: the sum that one *)
(* writes is then the present one, and the budget it compared with is the  *)
(* one in force.                                                           *)

\* What a request carries of the plan, and the budget it asks for.
PlanRow == [budget : Nat, used : Nat]

CopiesOK ==
    \A c \in Callers :
        /\ call[c].seen \in PlanRow /\ call[c].budget \in Nat
        /\ call[c].kind = "budget" => MayLower(call[c].budget, call[c].seen)

BInv == plan \in PlanRow /\ CopiesOK /\ IsFiniteSet(PaidRounds) /\ BudgetKept

\* The rounds of the jobs are what is paid.
LEMMA RoundsKept ==
    ASSUME \A j \in Jobs : jobs'[j].rounds = jobs[j].rounds
    PROVE  PaidRounds' = PaidRounds
  BY DEF PaidRounds

\* A row that is replaced by one with the same count changes nothing paid.
LEMMA RowKeepsRounds ==
    ASSUME RowsOK, NEW j \in Jobs, NEW r, RowBecomes(j, r), r.rounds = jobs[j].rounds
    PROVE  PaidRounds' = PaidRounds
<1>1. \A i \in Jobs : jobs'[i] = IF i = j THEN r ELSE jobs[i]
  BY DEF RowsOK, RowBecomes
<1> QED
  BY <1>1, RoundsKept

\* One more round of one job is one more paid decision.
LEMMA RowAddsRound ==
    ASSUME RowsOK, IsFiniteSet(PaidRounds), NEW j \in Jobs, NEW r, RowBecomes(j, r),
           r.rounds = jobs[j].rounds + 1
    PROVE  IsFiniteSet(PaidRounds') /\ Paid \in Nat /\ Paid' = Paid + 1
<1> DEFINE n == jobs[j].rounds
           new == <<j, n + 1>>
<1>1. \A i \in Jobs : jobs'[i] = IF i = j THEN r ELSE jobs[i]
  BY DEF RowsOK, RowBecomes
<1>2. \A i \in Jobs : jobs[i].rounds \in Nat
  BY DEF RowsOK, Row
<1>3. (1 .. n + 1) = (1 .. n) \union {n + 1}
  BY <1>2
<1>4. new \notin PaidRounds
  BY <1>2 DEF PaidRounds
<1>5. PaidRounds' = PaidRounds \union {new}
  <2>1. \A i \in Jobs : (1 .. jobs'[i].rounds) = IF i = j THEN (1 .. n) \union {n + 1}
                                                 ELSE (1 .. jobs[i].rounds)
    BY <1>1, <1>3
  <2>2. \A i \in Jobs : i # j => {i} \X (1 .. jobs'[i].rounds) = {i} \X (1 .. jobs[i].rounds)
    BY <2>1
  <2>3. {j} \X (1 .. jobs'[j].rounds) = {j} \X ((1 .. n) \union {n + 1})
    BY <2>1
  <2>4. \A m, S : {j} \X (S \union {m}) = ({j} \X S) \union {<<j, m>>}
    OBVIOUS
  <2>5. {j} \X (1 .. jobs'[j].rounds) = ({j} \X (1 .. n)) \union {new}
    BY <2>3, <2>4
  <2> HIDE DEF new
  <2> QED
    BY <2>2, <2>5 DEF PaidRounds
<1>6. /\ IsFiniteSet(PaidRounds \union {new})
      /\ Cardinality(PaidRounds \union {new}) = Cardinality(PaidRounds) + 1
  BY <1>4, FS_AddElement
<1>7. Cardinality(PaidRounds) \in Nat
  BY FS_CardinalityType
<1> QED
  BY <1>5, <1>6, <1>7 DEF Paid

\* A request that begins carries the plan it read.
LEMMA BudgetAsRequestBegins ==
    ASSUME BInv, DOMAIN call = Callers, NEW c \in Callers, NEW r, Request(c, r),
           r.seen \in PlanRow, r.budget \in Nat,
           r.kind = "budget" => MayLower(r.budget, r.seen)
    PROVE  BInv'
<1>1. UNCHANGED <<plan, jobs, raced>> /\ call' = [call EXCEPT ![c] = r]
  BY DEF Request
<1>2. CopiesOK'
  BY <1>1 DEF BInv, CopiesOK, MayLower
<1>3. PaidRounds' = PaidRounds
  BY <1>1 DEF PaidRounds
<1> QED
  BY <1>1, <1>2, <1>3 DEF BInv, BudgetKept, Paid

\* One that ends carries none.
LEMMA CopyDropped ==
    ASSUME CopiesOK, DOMAIN call = Callers, NEW c \in Callers, call' = [call EXCEPT ![c] = NoCall]
    PROVE  CopiesOK'
  BY DEF CopiesOK, PlanRow, NoCall, MayLower

\* A step that leaves plan, copies and counts alone.
LEMMA BudgetUntouched ==
    ASSUME BInv, CopiesOK', UNCHANGED plan, PaidRounds' = PaidRounds, raced \/ raced' = raced,
           raced => raced'
    PROVE  BInv'
  BY DEF BInv, BudgetKept, Paid

\* A decision on the row of its job, or on what the agent's finding made of
\* it, counts a paid one in the plan's row as in the job's.
LEMMA BudgetOfDecision ==
    ASSUME RowsOK, BInv, CallsOK, NEW c \in Callers, NEW kind, NEW row \in Row,
           call[c].job \in Jobs, row.rounds = jobs[call[c].job].rounds,
           Decide(c, kind, row), Done(c)
    PROVE  BInv'
<1> DEFINE j == call[c].job
           seen == call[c].seen
<1>1. /\ raced' = (raced \/ seen # plan) /\ call' = [call EXCEPT ![c] = NoCall]
  BY DEF Done
<1>2. CopiesOK'
  BY <1>1, CopyDropped DEF BInv, CallsOK
<1>3. seen \in PlanRow /\ plan \in PlanRow /\ IsFiniteSet(PaidRounds)
  BY DEF BInv, CopiesOK
<1>4. ASSUME NEW r, RowBecomes(j, r), r.rounds = row.rounds, UNCHANGED plan
      PROVE  BInv'
  <2>1. PaidRounds' = PaidRounds
    BY <1>4, RowKeepsRounds
  <2> QED
    BY <1>1, <1>2, <1>3, <1>4, <2>1 DEF BInv, BudgetKept, Paid
<1>5. CASE Refuse(c, row)
  BY <1>4, <1>5 DEF Refuse, RowBecomes
<1>6. CASE RefusePaid(c, row)
  <2>1. [row EXCEPT !.status = "awaiting_user"].rounds = row.rounds
    BY DEF Row
  <2> QED
    BY <1>4, <1>6, <2>1 DEF RefusePaid, RowBecomes
<1>7. CASE AcceptFree(c, row)
  <2>1. [row EXCEPT !.status = "queued", !.pending = "free"].rounds = row.rounds
    BY DEF Row
  <2> QED
    BY <1>4, <1>7, <2>1 DEF AcceptFree, RowBecomes
<1>8. CASE AcceptWait(c, row)
  <2>1. [row EXCEPT !.status = "awaiting_user"].rounds = row.rounds
    BY DEF Row
  <2> QED
    BY <1>4, <1>8, <2>1 DEF AcceptWait, RowBecomes
<1>9. CASE AcceptPaid(c, row)
  <2> DEFINE r == [row EXCEPT !.status = "queued", !.pending = "paid", !.rounds = @ + 1]
  <2>1. r.rounds = jobs[j].rounds + 1
    BY DEF Row
  <2>2. /\ RowBecomes(j, r) /\ plan' = [plan EXCEPT !.used = seen.used + 1]
        /\ seen.used + 1 <= seen.budget
    BY <1>9 DEF AcceptPaid, RowBecomes, BudgetLeft
  <2>3. IsFiniteSet(PaidRounds') /\ Paid \in Nat /\ Paid' = Paid + 1
    <3> HIDE DEF r, j
    <3> QED
      BY <1>3, <2>1, <2>2, RowAddsRound DEF j
  <2>4. plan' \in PlanRow /\ plan'.used = seen.used + 1 /\ plan'.budget = plan.budget
    BY <1>3, <2>2 DEF PlanRow
  <2>5. ASSUME ~raced'
        PROVE  plan'.used = Paid' /\ Paid' <= plan'.budget
    <3>1. seen = plan /\ plan.used = Paid
      BY <1>1, <2>5 DEF BInv, BudgetKept
    <3> QED
      BY <2>2, <2>3, <2>4, <3>1
  <2> QED
    BY <1>2, <2>3, <2>4, <2>5 DEF BInv, BudgetKept
<1> QED
  BY <1>5, <1>6, <1>7, <1>8, <1>9 DEF Decide

\* A changed budget is not below what was used of the plan that was read.
LEMMA BudgetOfChange ==
    ASSUME BInv, CallsOK, NEW c \in Callers, WriteBudget(c)
    PROVE  BInv'
<1> DEFINE seen == call[c].seen
<1>1. /\ raced' = (raced \/ seen # plan) /\ call' = [call EXCEPT ![c] = NoCall]
      /\ jobs' = jobs /\ call[c].kind = "budget"
  BY DEF WriteBudget, Done
<1>2. CopiesOK'
  BY <1>1, CopyDropped DEF BInv, CallsOK
<1>3. PaidRounds' = PaidRounds
  BY <1>1 DEF PaidRounds
<1>4. /\ seen \in PlanRow /\ call[c].budget \in Nat /\ call[c].budget >= seen.used
      /\ plan \in PlanRow
  BY <1>1 DEF BInv, CopiesOK, MayLower
<1>5. CASE plan' = plan
  BY <1>1, <1>2, <1>3, <1>5 DEF BInv, BudgetKept, Paid
<1>6. CASE plan' = [plan EXCEPT !.budget = call[c].budget]
  <2>1. plan' \in PlanRow /\ plan'.used = plan.used /\ plan'.budget = call[c].budget
    BY <1>4, <1>6 DEF PlanRow
  <2>2. ASSUME ~raced'
        PROVE  plan'.used = Paid' /\ Paid' <= plan'.budget
    <3>1. seen = plan /\ plan.used = Paid /\ Paid' = Paid
      BY <1>1, <1>3, <2>2 DEF BInv, BudgetKept, Paid
    <3> QED
      BY <1>4, <2>1, <3>1
  <2> QED
    BY <1>2, <1>3, <2>1, <2>2 DEF BInv, BudgetKept
<1> QED
  BY <1>5, <1>6 DEF WriteBudget

LEMMA BudgetAtFirst == ASSUME DecisionInit PROVE BInv
<1>1. plan \in PlanRow /\ plan.used = 0 /\ plan.budget \in Nat
  BY BudgetAssumption DEF DecisionInit, PlanRow
<1>2. CopiesOK
  BY DEF DecisionInit, CopiesOK, NoCall, PlanRow
<1>3. PaidRounds = {}
  <2>1. \A j \in Jobs : jobs[j].rounds = 0
    BY DEF DecisionInit, NewJob
  <2>2. \A j \in Jobs : (1 .. jobs[j].rounds) = {}
    BY <2>1
  <2> QED
    BY <2>2 DEF PaidRounds
<1>4. IsFiniteSet(PaidRounds) /\ Paid = 0
  BY <1>3, FS_EmptySet DEF Paid
<1> QED
  BY <1>1, <1>2, <1>4 DEF BInv, BudgetKept

LEMMA BudgetStep ==
    ASSUME IInv, BInv, [DecisionNext]_decisionVars
    PROVE  BInv'
<1>1. RowsOK /\ CallsOK /\ RoundsWithinLimit /\ overruled \in BOOLEAN
  BY DEF IInv
<1>2. CASE UNCHANGED decisionVars
  BY <1>2 DEF decisionVars, BInv, CopiesOK, MayLower, PaidRounds, Paid, BudgetKept
<1>3. ASSUME NEW c \in Callers, CallerNext(c)
      PROVE  BInv'
  <2>1. DOMAIN call = Callers /\ plan \in PlanRow
    BY <1>1 DEF CallsOK, BInv
  <2>2. ASSUME NEW j \in Jobs, NEW kind \in Kinds, ReadPlan(c, j, kind)
        PROVE  BInv'
    <3> DEFINE r == [NoCall EXCEPT !.kind = kind, !.job = j, !.seen = plan]
    <3>1. r.seen = plan /\ r.budget = 0 /\ r.kind # "budget"
      BY DEF NoCall, Kinds
    <3>2. Request(c, r)
      BY <2>2 DEF ReadPlan
    <3> HIDE DEF r
    <3> QED
      BY <2>1, <3>1, <3>2, BudgetAsRequestBegins
  <2>3. ASSUME NEW j \in Jobs, StartDiagnosis(c, j)
        PROVE  BInv'
    <3> DEFINE r == [NoCall EXCEPT !.kind = "diagnosis", !.job = j, !.seen = plan, !.copy = jobs[j]]
    <3>1. r.seen = plan /\ r.budget = 0 /\ r.kind # "budget"
      BY DEF NoCall
    <3>2. Request(c, r)
      BY <2>3 DEF StartDiagnosis
    <3> HIDE DEF r
    <3> QED
      BY <2>1, <3>1, <3>2, BudgetAsRequestBegins
  <2>4. ASSUME NEW b \in Budgets, ReadBudget(c, b)
        PROVE  BInv'
    <3> DEFINE r == [NoCall EXCEPT !.kind = "budget", !.seen = plan, !.budget = b]
    <3>1. r.seen = plan /\ r.budget = b
      BY DEF NoCall
    <3>2. Request(c, r) /\ MayLower(b, plan) /\ b \in Nat
      BY <2>4, BudgetAssumption DEF ReadBudget
    <3> HIDE DEF r
    <3> QED
      BY <2>1, <3>1, <3>2, BudgetAsRequestBegins
  <2>5. CASE UserDecides(c)
    <3>1. call[c].job \in Jobs /\ jobs[call[c].job] \in Row
      BY <1>1, <2>5 DEF UserDecides, CallsOK, AboutJobs, RowsOK
    <3> QED
      BY <1>1, <2>5, <3>1, BudgetOfDecision DEF UserDecides
  <2>6. ASSUME NEW kind \in Kinds, NEW blocking \in BOOLEAN, AgentDecides(c, kind, blocking)
        PROVE  BInv'
    <3>1. call[c].job \in Jobs
      BY <1>1, <2>6 DEF AgentDecides, CallsOK, AboutJobs
    <3>2. Reported(c, blocking) \in Row
          /\ Reported(c, blocking).rounds = jobs[call[c].job].rounds
      BY <1>1, <3>1, ReportedRow, BudgetAssumption
    <3> QED
      BY <1>1, <2>6, <3>1, <3>2, BudgetOfDecision DEF AgentDecides
  <2>7. ASSUME NEW blocking \in BOOLEAN, AgentHandsOver(c, blocking)
        PROVE  BInv'
    <3>1. call[c].job \in Jobs
      BY <1>1, <2>7 DEF AgentHandsOver, CallsOK, AboutJobs
    <3>2. Reported(c, blocking).rounds = jobs[call[c].job].rounds
      BY <1>1, <3>1, ReportedRow, BudgetAssumption
    <3>3. /\ RowBecomes(call[c].job, Reported(c, blocking))
          /\ UNCHANGED <<plan, raced>> /\ call' = [call EXCEPT ![c] = NoCall]
      BY <2>7 DEF AgentHandsOver, RowBecomes
    <3>4. PaidRounds' = PaidRounds
      BY <1>1, <3>1, <3>2, <3>3, RowKeepsRounds
    <3>5. CopiesOK'
      BY <2>1, <3>3, CopyDropped DEF BInv
    <3> QED
      BY <3>3, <3>4, <3>5, BudgetUntouched
  <2>8. CASE WriteBudget(c)
    BY <1>1, <2>8, BudgetOfChange
  <2> QED
    BY <1>3, <2>2, <2>3, <2>4, <2>5, <2>6, <2>7, <2>8 DEF CallerNext
<1>4. ASSUME NEW j \in Jobs, Claim(j) \/ Settle(j) \/ Leave(j)
      PROVE  BInv'
  <2>1. \A i \in Jobs : jobs'[i].rounds = jobs[i].rounds
    BY <1>1, <1>4 DEF Claim, Settle, Leave, RowsOK, Row
  <2>2. UNCHANGED <<plan, call, raced>>
    BY <1>4 DEF Claim, Settle, Leave
  <2>3. CopiesOK'
    BY <2>2 DEF BInv, CopiesOK, MayLower
  <2> QED
    BY <2>1, <2>2, <2>3, RoundsKept, BudgetUntouched
<1> QED
  BY <1>2, <1>3, <1>4 DEF DecisionNext

\* As long as no request wrote over a plan it had not read, extra_calls_used
\* is the number of paid decisions of all jobs, and within the budget in
\* force, whatever was decided, diagnosed or changed before
\* (create_remediation, update_extra_call_budget).
THEOREM BudgetHolds == DecisionSpec => []BudgetKept
<1>1. DecisionInit => IInv /\ BInv
  BY BudgetAssumption, InitOK, BudgetAtFirst
<1>2. IInv /\ BInv /\ [DecisionNext]_decisionVars => IInv' /\ BInv'
  BY BudgetAssumption, StepOK, BudgetStep
<1>3. BInv => BudgetKept
  BY DEF BInv
<1> QED
  BY <1>1, <1>2, <1>3, PTL DEF DecisionSpec
=============================================================================
