----------------------------- MODULE JobHistory -----------------------------
(***************************************************************************)
(* The job runner with a history of what it sent on its own account: for   *)
(* each job the attempts dispatched since a user last put the job in the   *)
(* queue, as long as no answer is known, and the jobs that were put there  *)
(* while a task worked on them.                                            *)
(* The variables only watch: every step of JobRunner is a step here.       *)
(***************************************************************************)
EXTENDS JobRunner

VARIABLES
    unasked,    \* job -> attempts sent since a user asked, and not answered
    requeued    \* jobs that an unlock or a resumption queued after their claim

historyVars == <<vars, unasked, requeued>>

\* A user puts the job j in the queue: unlock, resume, retry or another decision.
AsksFor(j) == job'[j].status = "queued" /\ job'[j] # job[j] /\ User

\* An unlock or a resumption that read the job j before the runner claimed it,
\* and puts it back in the queue.
Requeues(j) == j \in resuming.queue /\ job[j].lease # 0 /\ ResumeWrite

\* The attempt of the job j whose call goes on the wire.
SentBy(j) == {exec[t].at : t \in {u \in Tokens : /\ exec[u].pc = "invoke" /\ exec'[u].pc = "sent"
                                                /\ exec[u].job = j}}

HistoryInit == Init /\ unasked = [j \in Jobs |-> {}] /\ requeued = {}

HistoryNext ==
    /\ Next
    /\ requeued' = requeued \cup {j \in Jobs : Requeues(j)}
    /\ unasked' = [j \in Jobs |-> IF AsksFor(j) \/ j \in requeued' THEN {}
                                 ELSE {n \in unasked[j] \cup SentBy(j) :
                                          attempts'[j][n].sent = "dispatch_started"}]

HistorySpec == HistoryInit /\ [][HistoryNext]_historyVars

\* What is sent again without a user asking for the job in between was answered
\* before: no retry, recovery, takeover of a lease, reuse or restart repeats a
\* request of unknown delivery, whatever happens to the other jobs of the
\* provider (_recovery_state, _known_retry_is_due, the retry loop).  The exception
\* is a job that was put back in the queue under the task that works on it.
NotRepeatedUnasked ==
    [][\A j \in Jobs \ requeued : \A m \in SentBy(j) : \A n \in unasked[j] :
          attempts[j][n].req # attempts[j][m].req]_historyVars
=============================================================================
