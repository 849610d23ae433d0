--------------------------- MODULE PlanningStore ---------------------------
(***************************************************************************)
(* The rows of one planning conversation, and the functions of             *)
(* planning_runtime and generation_planning that read and write them in    *)
(* one transaction.  They are shared by the requests of the API and by the *)
(* planning worker, which are two processes.                               *)
(***************************************************************************)
EXTENDS Naturals, Sequences, FiniteSets

CONSTANTS MaxTurns,     \* the session's budget_limit: messages it may still take
          AttemptLimit  \* executions a turn may have before the worker stops
                        \* recovering it: 4 in the code

ASSUME StoreAssumption == MaxTurns \in Nat /\ AttemptLimit \in Nat \ {0}

\* "unavailable" is "awaiting_user" here: nothing below tells them apart.
RowStatuses == {"created", "running", "awaiting_input", "awaiting_user"}
Stops == {"none", "cancelled", "failed", "exhausted"}
\* An error is transient if it is one the worker recovers from by itself.
Errors == {"none", "transient", "other"}
TurnStatuses == {"queued", "recovering", "completed", "failed", "cancelled"}
AttemptStatuses == {"queued", "running", "completed", "failed", "cancelled"}
Modes == {"resume_turn", "new_turn"}

\* status, stop, error: the AgentSession; turns, attempts and inputs (the
\* questions asked of the user) in order of creation.
NewSession == [status |-> "created", stop |-> "none", error |-> "none",
               turns |-> <<>>, attempts |-> <<>>, inputs |-> <<>>]

Active(d) == d.status \in {"running", "awaiting_input"}

Latest(d) == Len(d.turns)

AttemptsOf(d, t) == {i \in DOMAIN d.attempts : d.attempts[i].turn = t}

OpenAttempts(d, t) ==
    {i \in AttemptsOf(d, t) : d.attempts[i].status \in {"queued", "running"}}

\* pending_input_request: there is at most one.
Pending(d) == {i \in DOMAIN d.inputs : d.inputs[i].status = "pending"}

WithAttempt(d, t, auto) ==
    [d EXCEPT !.attempts = Append(@, [turn |-> t, status |-> "queued",
                                      lapsed |-> FALSE, auto |-> auto])]

\* append_generation_message: a new turn with its first attempt.
CanAppend(d) == ~Active(d) /\ Len(d.turns) < MaxTurns

AppendMessage(d) ==
    WithAttempt([d EXCEPT !.status = "running", !.stop = "none", !.error = "none",
                          !.turns = Append(@, "queued")],
                Len(d.turns) + 1, FALSE)

\* recover_turn refuses every turn but the latest with 409 ...
RecoveryRefused(d, t) == t # Latest(d)

\* ... for that one it returns an attempt that is still open, and looks for it
\* without the writer lock ...
\* Mutant: does not look for one.
RecoverableAnyhow(d, t) == TRUE

Recoverable(d, t) == OpenAttempts(d, t) = {}

\* ... and if there is none it adds one and writes the columns whose values
\* are not those it has read.
Columns == {"turn", "status", "stop", "error"}

Outdated(d, t) ==
    (IF d.turns[t] # "recovering" THEN {"turn"} ELSE {})
        \cup (IF d.status # "running" THEN {"status"} ELSE {})
        \cup (IF d.stop # "none" THEN {"stop"} ELSE {})
        \cup (IF d.error # "none" THEN {"error"} ELSE {})

Restarted(d, t, columns, auto) ==
    WithAttempt([d EXCEPT !.status = IF "status" \in columns THEN "running" ELSE @,
                          !.stop = IF "stop" \in columns THEN "none" ELSE @,
                          !.error = IF "error" \in columns THEN "none" ELSE @,
                          !.turns[t] = IF "turn" \in columns THEN "recovering" ELSE @],
                t, auto)

\* In a transaction that has the writer lock already.
RecoverTurn(d, t, auto) ==
    IF Recoverable(d, t) THEN Restarted(d, t, Columns, auto) ELSE d

\* finish_attempt: nothing if the row is active without a reason to stop, so
\* that a worker that shuts down leaves a lease to recover.
Settled(d) ==
    CASE d.stop = "none" -> "completed"
      [] d.stop = "cancelled" -> "cancelled"
      [] OTHER -> "failed"

\* Mutant: leaves the lease of a closed attempt.
CloseLeaseKept(d, indexes, status) ==
    [d EXCEPT !.attempts = [i \in DOMAIN @ |->
        IF i \in indexes THEN [@[i] EXCEPT !.status = status] ELSE @[i]]]

Close(d, indexes, status) ==
    [d EXCEPT !.attempts = [i \in DOMAIN @ |->
        IF i \in indexes THEN [@[i] EXCEPT !.status = status, !.lapsed = FALSE] ELSE @[i]]]

\* Mutant: forgets the attempts.
FinishTurnOnly(d, t) ==
    IF Active(d) /\ d.stop = "none" THEN d ELSE [d EXCEPT !.turns[t] = Settled(d)]

FinishAttempt(d, t) ==
    IF Active(d) /\ d.stop = "none"
    THEN d
    ELSE Close([d EXCEPT !.turns[t] = Settled(d)], OpenAttempts(d, t), Settled(d))

\* The pending question can no longer be answered within its turn.
Fallback(d) ==
    [d EXCEPT !.inputs = [i \in DOMAIN @ |->
        IF @[i].status = "pending" THEN [@[i] EXCEPT !.mode = "new_turn"] ELSE @[i]]]

Ask(d, t, mode) ==
    [d EXCEPT !.inputs = Append(@, [turn |-> t, mode |-> mode, status |-> "pending"])]

\* runner.cancel, after it has interrupted the adapter.
Stop(d) ==
    IF ~Active(d) THEN d
    ELSE [d EXCEPT !.status = "awaiting_user", !.stop = "cancelled", !.error = "other",
                   !.inputs = [i \in DOMAIN @ |->
                        IF @[i].status = "pending" /\ @[i].mode = "resume_turn"
                        THEN [@[i] EXCEPT !.status = "cancelled"] ELSE @[i]]]

\* _finish_failed and _finish_unavailable, which do not look for a cancel.
Fail(d, error) ==
    [Fallback(d) EXCEPT !.status = "awaiting_user", !.stop = "failed", !.error = error]

\* Mutant: gives up without saying so.
TakeOverStillRunning(s, i) ==
    LET t == s.rows.attempts[i].turn
        d == Close(s.rows, {i}, "failed")
    IN  CASE s.refused -> s
          [] ~s.refused /\ Pending(d) # {} ->
                [s EXCEPT !.rows = [Fallback(d) EXCEPT !.status = "awaiting_user"]]
          [] ~s.refused /\ Pending(d) = {} /\ d.stop = "cancelled" -> [s EXCEPT !.rows = d]
          [] OTHER ->
                IF Cardinality(AttemptsOf(d, t)) >= AttemptLimit
                THEN [s EXCEPT !.rows = [d EXCEPT !.stop = "exhausted"]]
                ELSE IF RecoveryRefused(d, t)
                     THEN [s EXCEPT !.refused = TRUE]
                     ELSE [s EXCEPT !.rows = RecoverTurn(d, t, TRUE)]

\* One attempt whose lease has run out; s.refused once recover_turn raises.
TakeOver(s, i) ==
    LET t == s.rows.attempts[i].turn
        d == Close(s.rows, {i}, "failed")
    IN  CASE s.refused -> s
          [] ~s.refused /\ Pending(d) # {} ->
                [s EXCEPT !.rows = [Fallback(d) EXCEPT !.status = "awaiting_user"]]
          [] ~s.refused /\ Pending(d) = {} /\ d.stop = "cancelled" -> [s EXCEPT !.rows = d]
          [] OTHER ->
                IF Cardinality(AttemptsOf(d, t)) >= AttemptLimit
                THEN [s EXCEPT !.rows = [d EXCEPT !.status = "awaiting_user",
                                                  !.stop = "exhausted"]]
                ELSE IF RecoveryRefused(d, t)
                     THEN [s EXCEPT !.refused = TRUE]
                     ELSE [s EXCEPT !.rows = RecoverTurn(d, t, TRUE)]

Lapsed(d) == {i \in DOMAIN d.attempts : d.attempts[i].status = "running" /\ d.attempts[i].lapsed}

\* In one transaction, in order of creation.
TakeOverLapsed(d) ==
    LET taken[n \in 0..Len(d.attempts)] ==
            IF n = 0 THEN [rows |-> d, refused |-> FALSE]
            ELSE IF n \in Lapsed(d) THEN TakeOver(taken[n - 1], n) ELSE taken[n - 1]
    IN  taken[Len(d.attempts)]

\* A failed turn that the worker starts again by itself.
\* Mutant: counts one too many.
RetryableOnceMore(d, t) ==
    /\ d.turns[t] = "failed" /\ t = Latest(d)
    /\ d.stop # "cancelled" /\ d.error = "transient"
    /\ Pending(d) = {}
    /\ AttemptsOf(d, t) # {} /\ Cardinality(AttemptsOf(d, t)) <= AttemptLimit

Retryable(d, t) ==
    /\ d.turns[t] = "failed" /\ t = Latest(d)
    /\ d.stop # "cancelled" /\ d.error = "transient"
    /\ Pending(d) = {}
    /\ AttemptsOf(d, t) # {} /\ Cardinality(AttemptsOf(d, t)) < AttemptLimit
=============================================================================
