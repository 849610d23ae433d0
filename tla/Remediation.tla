---------------------------- MODULE Remediation ----------------------------
(***************************************************************************)
(* Decisions on the jobs of one confirmed plan, and the extra calls they   *)
(* reserve.  A user's decision reads the plan's row, takes the writer lock *)
(* by updating its job, and reads the job's row again; the plan's it does  *)
(* not read again, and it writes the sum it computed from what it read.    *)
(* The diagnosing agent reads plan and job, thinks, and decides in the     *)
(* same session: what it read is what it still sees of both.               *)
(*                                                                         *)
(* JobDecisions has the whole decision in one step; here it has the two    *)
(* that the code has, and of the runner only claims and results.  Left     *)
(* out: idempotency keys (a repeated key changes nothing), the counting of *)
(* findings, strategy checks, change sets, the plan's status.  A job that  *)
(* waits, failed or was locked is "awaiting_user".                         *)
(***************************************************************************)
EXTENDS Naturals, FiniteSets

CONSTANTS Callers,       \* requests of users and of the diagnosing agent
          Jobs,          \* jobs of the plan
          InitialBudget, \* extra_call_budget the plan was confirmed with
          Budgets,       \* values a user may change it to
          NoJob,         \* a request that is about no job
          MaxRounds,     \* max_paid_remediation_rounds of the plan
          MaxRequests    \* bound: requests

ASSUME BudgetAssumption == InitialBudget \in Nat /\ Budgets \subseteq Nat /\ MaxRounds \in Nat

VARIABLES plan,      \* extra_call_budget and extra_calls_used
          jobs,      \* the row of each job, and how many tasks execute it
          call,      \* what each request is doing and what it read
          requests,  \* what MaxRequests bounds
          raced,     \* history: the plan changed between a request's read of it
                     \* and the request's write
          overruled  \* history: a finding of the agent was written over the
                     \* status of a job that was queued or running

decisionVars == <<plan, jobs, call, requests, raced, overruled>>

Kinds == {"paid", "free", "wait"}

\* A job as it is confirmed; candidate numbers its results.
NewJob == [status |-> "queued", pending |-> "none", rounds |-> 0, tasks |-> 0, candidate |-> 0]

NoCall == [kind |-> "none", job |-> NoJob, seen |-> [budget |-> 0, used |-> 0],
           budget |-> 0, copy |-> NewJob]

DecisionInit ==
    /\ plan = [budget |-> InitialBudget, used |-> 0]
    /\ jobs = [j \in Jobs |-> NewJob]
    /\ call = [c \in Callers |-> NoCall]
    /\ requests = 0
    /\ raced = FALSE /\ overruled = FALSE

Request(c, r) ==
    /\ call[c] = NoCall
    /\ requests < MaxRequests /\ requests' = requests + 1
    /\ call' = [call EXCEPT ![c] = r]
    /\ UNCHANGED <<plan, jobs, raced, overruled>>

Done(c) ==
    /\ call' = [call EXCEPT ![c] = NoCall]
    /\ raced' = (raced \/ call[c].seen # plan)
    /\ UNCHANGED requests

-----------------------------------------------------------------------------
(* The runner claims a queued job and writes what became of it: a          *)
(* candidate, one that failed QA, or an error.  Its lease it looks at only *)
(* before it sends or stages something.                                    *)

Claim(j) ==
    /\ jobs[j].status = "queued"
    /\ jobs' = [jobs EXCEPT ![j].status = "running", ![j].tasks = @ + 1]
    /\ UNCHANGED <<plan, call, requests, raced, overruled>>

Settle(j) ==
    /\ jobs[j].tasks > 0
    /\ \E result \in {<<"candidate_ready", 1>>, <<"awaiting_user", 1>>, <<"awaiting_user", 0>>} :
          jobs' = [jobs EXCEPT ![j].status = result[1], ![j].pending = "none",
                               ![j].tasks = @ - 1, ![j].candidate = @ + result[2]]
    /\ UNCHANGED <<plan, call, requests, raced, overruled>>

\* A task finds that its lease is gone.
Leave(j) ==
    /\ jobs[j].tasks > 0
    /\ jobs[j].status # "running" \/ jobs[j].tasks > 1
    /\ jobs' = [jobs EXCEPT ![j].tasks = @ - 1]
    /\ UNCHANGED <<plan, call, requests, raced, overruled>>

-----------------------------------------------------------------------------
(* create_remediation, from the job's row as it finds it: "paid" is a      *)
(* regeneration or an edit of the image, "free" a tool repair, "wait"      *)
(* leaves the job to the user.                                             *)

\* Mutant: the job is not read again after the lock.
OpenEvenQueued(row) == TRUE

Open(row) == row.status \in {"candidate_ready", "awaiting_user"} /\ row.pending = "none"

\* Mutant: the budget may be exceeded by one.
BudgetLeftInclusive(seen) == seen.used <= seen.budget

BudgetLeft(seen) == seen.used + 1 <= seen.budget

\* Mutant: the rounds of the job are not compared.
RoundsLeftAlways(row) == TRUE

RoundsLeft(row) == row.rounds + 1 <= MaxRounds

\* The job is not ready, or has an action already.
Refuse(c, row) ==
    /\ ~Open(row)
    /\ jobs' = [jobs EXCEPT ![call[c].job] = row]
    /\ UNCHANGED plan

\* The plan's budget or the job's rounds are used up: the job waits.
RefusePaid(c, row) ==
    /\ Open(row) /\ ~(BudgetLeft(call[c].seen) /\ RoundsLeft(row))
    /\ jobs' = [jobs EXCEPT ![call[c].job] = [row EXCEPT !.status = "awaiting_user"]]
    /\ UNCHANGED plan

AcceptPaid(c, row) ==
    /\ Open(row) /\ BudgetLeft(call[c].seen) /\ RoundsLeft(row)
    /\ jobs' = [jobs EXCEPT ![call[c].job] = [row EXCEPT !.status = "queued",
                                                 !.pending = "paid", !.rounds = @ + 1]]
    /\ plan' = [plan EXCEPT !.used = call[c].seen.used + 1]

AcceptFree(c, row) ==
    /\ Open(row)
    /\ jobs' = [jobs EXCEPT ![call[c].job] = [row EXCEPT !.status = "queued",
                                                 !.pending = "free"]]
    /\ UNCHANGED plan

AcceptWait(c, row) ==
    /\ Open(row)
    /\ jobs' = [jobs EXCEPT ![call[c].job] = [row EXCEPT !.status = "awaiting_user"]]
    /\ UNCHANGED plan

Decide(c, kind, row) ==
    \/ Refuse(c, row)
    \/ kind = "paid" /\ (RefusePaid(c, row) \/ AcceptPaid(c, row))
    \/ kind = "free" /\ AcceptFree(c, row)
    \/ kind = "wait" /\ AcceptWait(c, row)

ReadPlan(c, j, kind) == Request(c, [NoCall EXCEPT !.kind = kind, !.job = j, !.seen = plan])

UserDecides(c) ==
    /\ call[c].kind \in Kinds
    /\ Decide(c, call[c].kind, jobs[call[c].job])
    /\ Done(c)
    /\ UNCHANGED overruled

-----------------------------------------------------------------------------
(* diagnose_job: the agent is shown a job, whatever its status.            *)

StartDiagnosis(c, j) ==
    Request(c, [NoCall EXCEPT !.kind = "diagnosis", !.job = j, !.seen = plan, !.copy = jobs[j]])

\* A blocking finding sets the status of the copy; the row gets it if the
\* copy had another one.
Reported(c, blocking) ==
    IF blocking /\ call[c].copy.status # "awaiting_user"
    THEN [jobs[call[c].job] EXCEPT !.status = "awaiting_user"]
    ELSE jobs[call[c].job]

Overrules(c, blocking) ==
    /\ jobs[call[c].job].status \in {"queued", "running"}
    /\ Reported(c, blocking).status # jobs[call[c].job].status

\* The agent answers; the input hash it must name is that of the copy.  Its
\* action is decided like a user's.
AgentDecides(c, kind, blocking) ==
    /\ call[c].kind = "diagnosis"
    /\ Decide(c, kind, Reported(c, blocking))
    /\ overruled' = (overruled \/ Overrules(c, blocking))
    /\ Done(c)

\* It fails, is not sure, names an unknown action or finding, or proposes a
\* change set: the session waits for the user.
AgentHandsOver(c, blocking) ==
    /\ call[c].kind = "diagnosis"
    /\ jobs' = [jobs EXCEPT ![call[c].job] = Reported(c, blocking)]
    /\ overruled' = (overruled \/ Overrules(c, blocking))
    /\ call' = [call EXCEPT ![c] = NoCall]
    /\ UNCHANGED <<plan, requests, raced>>

-----------------------------------------------------------------------------
(* update_extra_call_budget. *)

MayLower(b, seen) == b >= seen.used

ReadBudget(c, b) ==
    /\ MayLower(b, plan)
    /\ Request(c, [NoCall EXCEPT !.kind = "budget", !.seen = plan, !.budget = b])

\* The row's budget is written if it differs from the one that was read.
WriteBudget(c) ==
    /\ call[c].kind = "budget"
    /\ plan' = IF call[c].budget = call[c].seen.budget THEN plan
               ELSE [plan EXCEPT !.budget = call[c].budget]
    /\ Done(c)
    /\ UNCHANGED <<jobs, overruled>>

CallerNext(c) ==
    \/ \E j \in Jobs, kind \in Kinds : ReadPlan(c, j, kind)
    \/ UserDecides(c)
    \/ \E j \in Jobs : StartDiagnosis(c, j)
    \/ \E kind \in Kinds, blocking \in BOOLEAN : AgentDecides(c, kind, blocking)
    \/ \E blocking \in BOOLEAN : AgentHandsOver(c, blocking)
    \/ \E b \in Budgets : ReadBudget(c, b)
    \/ WriteBudget(c)

DecisionNext ==
    \/ \E c \in Callers : CallerNext(c)
    \/ \E j \in Jobs : Claim(j) \/ Settle(j) \/ Leave(j)

DecisionSpec == DecisionInit /\ [][DecisionNext]_decisionVars

-----------------------------------------------------------------------------
(* Properties. *)

\* Paid decisions that were accepted: a job's row is read under the lock, so
\* its own count of them is exact.
PaidRounds == UNION {{j} \X (1 .. jobs[j].rounds) : j \in Jobs}
Paid == Cardinality(PaidRounds)

\* The paid decisions on a job never exceed the plan's rounds, whatever
\* requests overlap (create_remediation refreshes the job after it took the
\* lock).  Unless the agent's finding overruled an execution, an action is
\* pending only while its job is queued or runs, in one task.
RoundsWithinLimit ==
    \A j \in Jobs :
        /\ jobs[j].rounds <= MaxRounds
        /\ ~overruled =>
              /\ jobs[j].pending # "none" => jobs[j].status \in {"queued", "running"}
              /\ jobs[j].tasks = IF jobs[j].status = "running" THEN 1 ELSE 0

\* No decision replaces the pending action of another.
OneDecisionAtATime ==
    [][\A j \in Jobs : jobs[j].pending # "none" => jobs'[j].pending \in {jobs[j].pending, "none"}
                                                   /\ jobs'[j].rounds = jobs[j].rounds]_decisionVars

\* As long as no two requests overlapped on the plan's row, it counts the
\* paid decisions, and there are no more of them than the budget allows.
BudgetKept == ~raced => plan.used = Paid /\ Paid <= plan.budget

\* What the project's documents say of the budget: a hard limit.
BudgetIsHard == Paid <= plan.budget

\* What they say of the Controller: it checks the current status of the job
\* before it takes an action.
DecidesReadyJobs ==
    [][\A j \in Jobs : jobs[j].pending = "none" /\ jobs'[j].pending # "none"
          => jobs[j].status \in {"candidate_ready", "awaiting_user"}]_decisionVars

\* And the candidate the agent was shown, so that none of its actions is for
\* an outdated one.
ActsOnItsCandidate ==
    [][\A c \in Callers : call[c].kind = "diagnosis" /\ jobs' # jobs /\ call'[c] = NoCall
          => \A j \in Jobs : jobs'[j].pending # jobs[j].pending
                                => jobs[j].candidate = call[c].copy.candidate]_decisionVars
=============================================================================
