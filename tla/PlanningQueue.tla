--------------------------- MODULE PlanningQueue ---------------------------
(***************************************************************************)
(* One planning conversation: the API that appends messages, stops and     *)
(* recovers turns and answers questions, and the worker that claims        *)
(* attempts under a lease, runs them as tasks of its event loop and        *)
(* executes the API's commands.  The worker may die at any point; its      *)
(* supervisor starts it again.                                             *)
(***************************************************************************)
EXTENDS PlanningStore

CONSTANTS MaxQuestions,   \* bound: questions an adapter asks
          MaxTroubles     \* bound: stops, recoveries and answers of the user, and
                          \* deaths of the worker

ASSUME BoundsAssumption == MaxQuestions \in Nat /\ MaxTroubles \in Nat

VARIABLES db,        \* the conversation's rows
          commands,  \* PlanningCommand rows, in order of creation
          worker,    \* where the worker's loop is
          task,      \* the task that runs a turn, in the worker's memory
          stopping,  \* a queued turn that the API is about to cancel
          recovering,    \* the recoveries, by the user's request and by the worker,
                         \* that have read their turn and not written it
          stopped,       \* history: turns the user stopped and did not recover
          lateStop,      \* history: a stop was written when the open attempts of its
                         \* turn were no longer those it had read as queued
          lateRecovery,  \* history: a recovery was written when the conversation had
                         \* changed since it read it
          troubles       \* what MaxTroubles bounds

vars == <<db, commands, worker, task, stopping, recovering, stopped, lateStop,
          lateRecovery, troubles>>

NoTask == [turn |-> 0, pc |-> "none", event |-> FALSE, killed |-> FALSE]
NoStop == [turn |-> 0, attempts |-> {}]
NoRecovery == [turn |-> 0, columns |-> {}, attempts |-> 0]

Init ==
    /\ db = NewSession
    /\ commands = <<>>
    /\ worker = [pc |-> "down", waits |-> "no"]
    /\ task = NoTask
    /\ stopping = NoStop
    /\ recovering = [who \in {"user", "worker"} |-> NoRecovery]
    /\ stopped = {}
    /\ lateStop = FALSE /\ lateRecovery = FALSE
    /\ troubles = 0

HasTask == task.pc # "none"

\* A task that has written its result ends without giving the loop a chance
\* to do anything else; other processes can.
LoopFree == task.pc # "ending"

Trouble == troubles < MaxTroubles /\ troubles' = troubles + 1

-----------------------------------------------------------------------------
(* Requests of the API. *)

Send ==
    /\ CanAppend(db)
    /\ db' = AppendMessage(db)
    /\ UNCHANGED <<commands, worker, task, stopping, recovering, stopped, lateStop, lateRecovery,
                   troubles>>

Command(kind, input) == [kind |-> kind, input |-> input, status |-> "queued"]

\* PlanningQueueClient.cancel: the latest turn if an attempt of it is queued,
\* read before it is written; a command to the worker otherwise.
RequestStop ==
    /\ Latest(db) # 0 /\ stopping = NoStop
    /\ Trouble
    /\ LET t == Latest(db)
           queued == {i \in AttemptsOf(db, t) : db.attempts[i].status = "queued"}
       IN  IF queued # {}
           THEN stopping' = [turn |-> t, attempts |-> queued] /\ UNCHANGED commands
           ELSE commands' = Append(commands, Command("cancel", 0)) /\ UNCHANGED stopping
    /\ UNCHANGED <<db, worker, task, recovering, stopped, lateStop, lateRecovery>>

\* The worker claimed an attempt that a request is about to cancel, or a
\* recovery added one.
Overtaken ==
    /\ stopping # NoStop
    /\ \/ OpenAttempts(db, stopping.turn) # stopping.attempts
       \/ \E i \in stopping.attempts : db.attempts[i].status # "queued"

StopQueued ==
    /\ stopping # NoStop
    /\ db' = [Close(db, stopping.attempts, "cancelled") EXCEPT
                 !.turns[stopping.turn] = "cancelled",
                 !.status = "awaiting_user", !.stop = "cancelled"]
    /\ stopped' = stopped \cup {stopping.turn}
    /\ stopping' = NoStop
    /\ lateStop' = (lateStop \/ Overtaken)
    /\ UNCHANGED <<commands, worker, task, recovering, lateRecovery, troubles>>

\* recover_turn without the writer lock: its search for an open attempt ...
ReadTurn(who, t) ==
    recovering' = [recovering EXCEPT ![who] =
        [turn |-> t, columns |-> Outdated(db, t), attempts |-> Cardinality(AttemptsOf(db, t))]]

\* ... and its first flush, which takes the lock.  Meanwhile another attempt may
\* have been added to the turn, or what was read may have changed otherwise.
Outrun(who) == Cardinality(AttemptsOf(db, recovering[who].turn)) # recovering[who].attempts

Late(who) ==
    LET r == recovering[who]
    IN  r.turn # Latest(db) \/ r.columns # Outdated(db, r.turn) \/ Outrun(who)

WriteTurn(who) ==
    /\ LET r == recovering[who]
       IN  /\ r # NoRecovery
           /\ db' = Restarted(db, r.turn, r.columns, who = "worker")
    /\ recovering' = [recovering EXCEPT ![who] = NoRecovery]
    /\ lateRecovery' = (lateRecovery \/ Late(who))

RequestRecovery ==
    /\ Latest(db) # 0 /\ recovering["user"] = NoRecovery
    /\ Trouble
    /\ IF Recoverable(db, Latest(db))
       THEN ReadTurn("user", Latest(db)) /\ UNCHANGED stopped
       ELSE stopped' = stopped \ {Latest(db)} /\ UNCHANGED recovering
    /\ UNCHANGED <<db, commands, worker, task, stopping, lateStop, lateRecovery>>

Recover ==
    /\ WriteTurn("user")
    /\ stopped' = stopped \ {recovering["user"].turn}
    /\ UNCHANGED <<commands, worker, task, stopping, lateStop, troubles>>

Answer ==
    /\ Trouble
    /\ \E i \in Pending(db) : commands' = Append(commands, Command("answer_input", i))
    /\ UNCHANGED <<db, worker, task, stopping, recovering, stopped, lateStop, lateRecovery>>

-----------------------------------------------------------------------------
(* The worker's loop. *)

At(step) == worker.pc = step /\ worker.waits = "no" /\ LoopFree
Goto(step) == worker' = [pc |-> step, waits |-> "no"]

\* The lock of the state directory proves that the former worker is gone.
Start ==
    /\ worker.pc \in {"down", "failed"}
    /\ db' = [db EXCEPT !.attempts = [i \in DOMAIN @ |->
                 IF @[i].status = "running" THEN [@[i] EXCEPT !.lapsed = TRUE] ELSE @[i]]]
    /\ commands' = [c \in DOMAIN commands |->
                       IF commands[c].status = "running"
                       THEN [commands[c] EXCEPT !.status = "queued"] ELSE commands[c]]
    /\ Goto("expire")
    /\ UNCHANGED <<task, stopping, recovering, stopped, lateStop, lateRecovery, troubles>>

\* A refusal of recover_turn is not caught: the worker ends with its tasks.
Expire ==
    /\ At("expire")
    /\ LET taken == TakeOverLapsed(db)
       IN  IF taken.refused
           THEN Goto("failed") /\ task' = NoTask /\ UNCHANGED db
           ELSE Goto("retry") /\ db' = taken.rows /\ UNCHANGED task
    /\ UNCHANGED <<commands, stopping, recovering, stopped, lateStop, lateRecovery, troubles>>

\* A failed turn is read, and written without an await between.
ReadRetry ==
    /\ At("retry")
    /\ IF (\E t \in DOMAIN db.turns : Retryable(db, t)) /\ Recoverable(db, Latest(db))
       THEN ReadTurn("worker", Latest(db)) /\ Goto("retrying")
       ELSE Goto("claim") /\ UNCHANGED recovering
    /\ UNCHANGED <<db, commands, task, stopping, stopped, lateStop, lateRecovery, troubles>>

Retry ==
    /\ At("retrying")
    /\ WriteTurn("worker")
    /\ Goto("claim")
    /\ UNCHANGED <<commands, task, stopping, stopped, lateStop, troubles>>

StartTask(t) == task' = [NoTask EXCEPT !.turn = t, !.pc = "starting"]

\* One task per conversation: the others of its attempts wait.
Claim ==
    /\ At("claim")
    /\ Goto("beat")
    /\ LET queued == {i \in DOMAIN db.attempts : db.attempts[i].status = "queued"}
           first == CHOOSE i \in queued : \A j \in queued : i <= j
       IN  IF HasTask \/ queued = {}
           THEN UNCHANGED <<db, task>>
           ELSE /\ db' = [db EXCEPT !.attempts[first].status = "running"]
                /\ StartTask(db.attempts[first].turn)
    /\ UNCHANGED <<commands, stopping, recovering, stopped, lateStop, lateRecovery, troubles>>

\* Every running attempt of this worker is renewed, and commands are taken.
Beat ==
    /\ At("beat")
    /\ db' = [db EXCEPT !.attempts = [i \in DOMAIN @ |-> [@[i] EXCEPT !.lapsed = FALSE]]]
    /\ commands' = [c \in DOMAIN commands |->
                       IF commands[c].status = "queued"
                       THEN [commands[c] EXCEPT !.status = "running"] ELSE commands[c]]
    /\ Goto(IF \E c \in DOMAIN commands : commands[c].status = "queued"
            THEN "commands" ELSE "expire")
    /\ UNCHANGED <<task, stopping, recovering, stopped, lateStop, lateRecovery, troubles>>

\* The loop stands still while a command waits for the adapter.
Lapse ==
    /\ worker.waits # "no"
    /\ \E i \in DOMAIN db.attempts :
          /\ db.attempts[i].status = "running" /\ ~db.attempts[i].lapsed
          /\ db' = [db EXCEPT !.attempts[i].lapsed = TRUE]
    /\ UNCHANGED <<commands, worker, task, stopping, recovering, stopped, lateStop, lateRecovery,
                   troubles>>

Crash ==
    /\ worker.pc \notin {"down", "failed"}
    /\ Trouble
    /\ Goto("down") /\ task' = NoTask
    /\ recovering' = [recovering EXCEPT !["worker"] = NoRecovery]
    /\ UNCHANGED <<db, commands, stopping, stopped, lateStop, lateRecovery>>

-----------------------------------------------------------------------------
(* Commands, executed one after the other. *)

Taken == {c \in DOMAIN commands : commands[c].status = "running"}
Current == CHOOSE c \in Taken : \A e \in Taken : c <= e

Executing(kind) == At("commands") /\ Taken # {} /\ commands[Current].kind = kind
Waiting(for) == worker.waits = for /\ LoopFree

Wait(for) == worker' = [worker EXCEPT !.waits = for] /\ UNCHANGED commands
Done(status) ==
    /\ commands' = [commands EXCEPT ![Current].status = status]
    /\ Goto(IF Taken = {Current} THEN "expire" ELSE "commands")

\* runner.cancel: the event is set, the adapter interrupted, then the row
\* written and the task cancelled.
Cancel ==
    /\ Executing("cancel")
    /\ IF HasTask
       THEN task' = [task EXCEPT !.event = TRUE] /\ Wait("interrupt")
       ELSE Done("completed") /\ UNCHANGED task
    /\ UNCHANGED <<db, stopping, recovering, stopped, lateStop, lateRecovery, troubles>>

Kill == task' = IF HasTask THEN [task EXCEPT !.killed = TRUE] ELSE task

Interrupted ==
    /\ Waiting("interrupt")
    /\ db' = Stop(db)
    /\ Kill
    /\ stopped' = stopped \cup {Latest(db)}
    /\ Done("completed")
    /\ UNCHANGED <<stopping, recovering, lateStop, lateRecovery, troubles>>

\* A question that is answered in a new turn.  The message and the answer are
\* committed before submit finds that a task is still there.
Resolved(d, i) == [d EXCEPT !.inputs[i].status = "resolved"]

AnswerInNewTurn(d, i, old) ==
    IF ~CanAppend(d)
    THEN db' = d /\ task' = old /\ Done("failed")
    ELSE /\ db' = Resolved(AppendMessage(d), i)
         /\ IF old.pc # "none"
            THEN task' = old /\ Done("failed")
            ELSE StartTask(Latest(d) + 1) /\ Done("completed")

AnswerInput ==
    /\ Executing("answer_input")
    /\ LET i == commands[Current].input
           item == db.inputs[i]
       IN  CASE item.status = "resolved" -> Done("completed") /\ UNCHANGED <<db, task>>
             [] item.status = "cancelled" -> Done("failed") /\ UNCHANGED <<db, task>>
             [] item.status = "pending" /\ item.mode = "resume_turn" ->
                   CASE task.turn = item.turn /\ task.pc # "closing" ->
                           /\ db' = [Resolved(db, i) EXCEPT !.status = "running"]
                           /\ Wait("answer") /\ UNCHANGED task
                     [] task.turn = item.turn /\ task.pc = "closing" ->   \* refused
                           /\ db' = [Fallback(db) EXCEPT !.status = "awaiting_user"]
                           /\ Done("failed") /\ UNCHANGED task
                     [] OTHER -> AnswerInNewTurn([Fallback(db) EXCEPT !.status = "awaiting_user"],
                                        i, task)
             [] item.status = "pending" /\ item.mode = "new_turn" ->
                   CASE ~Active(db) -> AnswerInNewTurn(db, i, task)
                     [] Active(db) /\ HasTask ->
                           /\ task' = [task EXCEPT !.event = TRUE]
                           /\ Wait("clear") /\ UNCHANGED db
                     [] Active(db) /\ ~HasTask ->   \* cancel does nothing, and is tried again
                           Done("failed") /\ UNCHANGED <<db, task>>
    /\ UNCHANGED <<stopping, recovering, stopped, lateStop, lateRecovery, troubles>>

\* The turn that asked has been interrupted; the answer is tried again at once.
Cleared ==
    /\ Waiting("clear")
    /\ LET i == commands[Current].input
           old == IF HasTask THEN [task EXCEPT !.killed = TRUE] ELSE task
       IN  IF db.inputs[i].status # "pending"
           THEN db' = Stop(db) /\ task' = old /\ Done("failed")
           ELSE AnswerInNewTurn(Stop(db), i, old)
    /\ UNCHANGED <<stopping, recovering, stopped, lateStop, lateRecovery, troubles>>

\* The transport took the answer, or it did not.
Answered ==
    /\ Waiting("answer")
    /\ \/ UNCHANGED db /\ Done("completed")
       \/ /\ db' = [db EXCEPT !.inputs[commands[Current].input] =
                                 [@ EXCEPT !.status = "pending", !.mode = "new_turn"],
                              !.status = "awaiting_user"]
          /\ Done("failed")
    /\ UNCHANGED <<task, stopping, recovering, stopped, lateStop, lateRecovery, troubles>>

-----------------------------------------------------------------------------
(* The task that runs a turn. *)

\* It runs while the loop awaits something, so not within a retry.
TaskOnly ==
    /\ worker.pc # "retrying"
    /\ UNCHANGED <<commands, worker, stopping, recovering, stopped, lateStop, lateRecovery,
                   troubles>>
Ending == task' = [task EXCEPT !.pc = "ending"]

Begin ==
    /\ task.pc = "starting"
    /\ task' = [task EXCEPT !.pc = IF task.event \/ task.killed THEN "ending" ELSE "streaming"]
    /\ UNCHANGED db /\ TaskOnly

Silenced == task.event \/ db.stop = "cancelled"
Streaming == task.pc = "streaming" /\ ~task.killed

\* The next event finds the turn stopped, or the task is cancelled.
Leave ==
    /\ task.pc = "streaming" /\ (task.killed \/ Silenced)
    /\ Ending /\ UNCHANGED db /\ TaskOnly

\* user_input.requested; refused while another question is pending.
Question ==
    /\ Streaming /\ ~Silenced /\ Len(db.inputs) < MaxQuestions
    /\ IF Pending(db) # {}
       THEN Ending /\ db' = Fail(db, "other")
       ELSE /\ \E mode \in Modes :
                  db' = [Ask(db, task.turn, mode) EXCEPT
                            !.status = IF mode = "resume_turn" THEN "awaiting_input"
                                                               ELSE "awaiting_user"]
            /\ UNCHANGED task
    /\ TaskOnly

\* draft.updated with questions instead of tasks; the row stays as it is.
DraftQuestion ==
    /\ Streaming /\ ~Silenced /\ Pending(db) = {} /\ Len(db.inputs) < MaxQuestions
    /\ db' = Ask(db, task.turn, "new_turn")
    /\ UNCHANGED task /\ TaskOnly

\* user_input.fallback: nobody answered in time.
Unanswered ==
    /\ Streaming /\ ~Silenced /\ Pending(db) # {}
    /\ db' = [Fallback(db) EXCEPT !.status = "awaiting_user"]
    /\ Ending /\ TaskOnly

\* turn.failed: the adapter's last event.  The task goes on until the adapter
\* has stopped its process; the row stays as it is.
TurnFails ==
    /\ Streaming /\ ~Silenced
    /\ \E error \in Errors \ {"none"} :
          db' = [db EXCEPT !.status = "awaiting_user", !.stop = "failed", !.error = error]
    /\ task' = [task EXCEPT !.pc = "closing"]
    /\ TaskOnly

Closes ==
    /\ task.pc = "closing"
    /\ Ending /\ UNCHANGED db /\ TaskOnly

\* A draft that does not validate ends the task at once.
DraftInvalid ==
    /\ Streaming /\ ~Silenced
    /\ db' = [db EXCEPT !.status = "awaiting_user", !.stop = "failed", !.error = "other"]
    /\ Ending /\ TaskOnly

\* The adapter raises, whether or not the turn was stopped.
Raise ==
    /\ Streaming
    /\ \E error \in Errors \ {"none"} : db' = Fail(db, error)
    /\ Ending /\ TaskOnly

Finish ==
    /\ Streaming
    /\ db' = IF Silenced THEN db
             ELSE [db EXCEPT !.status = "awaiting_user", !.stop = "none", !.error = "none"]
    /\ Ending /\ TaskOnly


End ==
    /\ task.pc = "ending"
    /\ db' = FinishAttempt(db, task.turn)
    /\ task' = NoTask
    /\ TaskOnly

-----------------------------------------------------------------------------
Api == Send \/ RequestStop \/ StopQueued \/ RequestRecovery \/ Recover \/ Answer
Loop == Expire \/ ReadRetry \/ Retry \/ Claim \/ Beat
Commands == Cancel \/ Interrupted \/ AnswerInput \/ Cleared \/ Answered
Task ==
    \/ Begin \/ Leave \/ Question \/ DraftQuestion \/ Unanswered
    \/ TurnFails \/ Closes \/ DraftInvalid \/ Raise \/ Finish \/ End

Next == Api \/ Start \/ Loop \/ Lapse \/ Crash \/ Commands \/ Task

Spec == Init /\ [][Next]_vars

-----------------------------------------------------------------------------
(* Types. *)

Turns == 1..MaxTurns

AttemptRows ==
    [turn : Turns, status : AttemptStatuses, lapsed : BOOLEAN, auto : BOOLEAN]
InputRows ==
    [turn : Turns, mode : Modes, status : {"pending", "resolved", "cancelled"}]
Sessions ==
    [status : RowStatuses, stop : Stops, error : Errors, turns : Seq(TurnStatuses),
     attempts : Seq(AttemptRows), inputs : Seq(InputRows)]
CommandRows ==
    [kind : {"cancel", "answer_input"}, input : 0..MaxQuestions,
     status : {"queued", "running", "completed", "failed"}]

\* Types of the variables; only a running attempt has a lease that can lapse.
TypeOK ==
    /\ db \in Sessions
    /\ commands \in Seq(CommandRows)
    /\ worker \in [pc : {"down", "failed", "expire", "retry", "retrying", "claim", "beat",
                         "commands"},
                   waits : {"no", "interrupt", "clear", "answer"}]
    /\ task \in [turn : 0..MaxTurns, event : BOOLEAN, killed : BOOLEAN,
                 pc : {"none", "starting", "streaming", "closing", "ending"}]
    /\ recovering \in [{"user", "worker"} ->
                         [turn : 0..MaxTurns, columns : SUBSET Columns, attempts : Nat]]
    /\ stopping.turn \in 0..MaxTurns /\ stopping.attempts \subseteq DOMAIN db.attempts
    /\ stopped \subseteq Turns /\ lateStop \in BOOLEAN /\ lateRecovery \in BOOLEAN
    /\ troubles \in 0..MaxTroubles
    /\ \A i \in DOMAIN db.attempts : db.attempts[i].lapsed => db.attempts[i].status = "running"

-----------------------------------------------------------------------------
(* Properties. *)

\* New messages, lapsed leases, retries and recoveries by the user start a turn
\* once: an attempt that is added is the only open one of its turn, unless it
\* is added by a recovery that read the turn before the other was there (the
\* user's and the worker's are not kept apart by anything).
AddedAttemptIsAlone ==
    [][\A i \in DOMAIN db'.attempts \ DOMAIN db.attempts :
          \/ OpenAttempts(db', db'.attempts[i].turn) = {i}
          \/ Recover /\ Outrun("user")
          \/ Retry /\ Outrun("worker")]_vars

\* A turn is recovered automatically at most AttemptLimit - 1 times, whether its
\* leases ran out or its errors were transient (run_worker has two places that
\* recover and each counts for itself).
AutomaticRecoveriesBounded ==
    \A t \in DOMAIN db.turns :
        Cardinality({i \in AttemptsOf(db, t) : db.attempts[i].auto}) < AttemptLimit

\* Only the user starts a turn again that was completed or cancelled: no late
\* lease, no error of another turn and no restart of the worker does; unless
\* a stop or a recovery was written over attempts that it had not read.
SettledNotRestarted ==
    [][\A t \in DOMAIN db.turns :
          /\ ~lateStop /\ ~lateRecovery'
          /\ db.turns[t] \in {"completed", "cancelled"}
          /\ db'.turns[t] = "recovering"
          => Recover]_vars

\* A worker that starts again takes over the leases of the one before: none of
\* them makes it end.
TakesOverLeases == worker.pc # "failed"

\* The worker does not start a turn again that the user has stopped.
StoppedNotRecovered ==
    [][\A i \in DOMAIN db'.attempts \ DOMAIN db.attempts :
          db'.attempts[i].auto => db'.attempts[i].turn \notin stopped]_vars

\* Fairness.  The supervisor starts the worker again, the loop and the commands
\* go on, and an adapter ends its turn: AppServerCodexAdapter and watched_events
\* have timeouts, except while the turn waits for the user's answer.
TaskProceeds ==
    \/ Begin \/ Leave \/ Closes \/ End
    \/ db.status # "awaiting_input" /\ (TurnFails \/ Raise \/ Finish)

FairSpec ==
    /\ Spec
    /\ WF_vars(Start) /\ WF_vars(Loop) /\ WF_vars(Commands)
    /\ WF_vars(StopQueued) /\ WF_vars(Recover) /\ WF_vars(TaskProceeds)

\* The conversation runs, or has an attempt in the queue that does not wait for
\* the user's answer to another.
AtWork ==
    \/ db.status = "running"
    \/ db.status # "awaiting_input" /\ \E i \in DOMAIN db.attempts : db.attempts[i].status = "queued"

=============================================================================
