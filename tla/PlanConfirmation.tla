------------------------- MODULE PlanConfirmation -------------------------
(***************************************************************************)
(* The draft of one planning conversation and what becomes of it: tabs     *)
(* edit it, the planning agent replaces it, a confirmation registers its   *)
(* new assets in the catalog files and turns it into a plan with jobs.     *)
(* Plans that are created without a conversation are approved here too.    *)
(*                                                                         *)
(* A draft is the set of its tasks and the facts of the project it was     *)
(* made for; equal drafts have equal hashes.  Left out: the contents of    *)
(* tasks, providers and models, warnings, relations between media, turns   *)
(* that ask questions (PlanningQueue has them), deletion of conversations. *)
(* A request writes the fields of the row that it changed, and its whole   *)
(* copy of the row to the row's file.                                      *)
(***************************************************************************)
EXTENDS Naturals, FiniteSets

CONSTANTS Tabs,        \* concurrent requests of the user
          NewTasks,    \* tasks that register an asset of their own
          OldTasks,    \* tasks for an asset the project has
          NoTab,       \* no request holds the database's writer lock
          Media,       \* an asset whose candidate somebody approves meanwhile
          MaxTurns,    \* bound: messages to the planning agent
          MaxEdits,    \* bound: edits of the draft by tabs
          MaxDrafts,   \* bound: drafts the agent proposes
          MaxPlans,    \* bound: plans
          MaxFaults    \* bound: failing confirmations and crashes of the API

ASSUME TabsAssumption == NoTab \notin Tabs
ASSUME BoundsAssumption == MaxPlans \in Nat

VARIABLES conv,      \* the AgentSession row
          audit,     \* the same, in its file under history/agent/sessions
          turn,      \* the agent's turn, in the worker
          req,       \* what each tab's request is doing
          writer,    \* the request whose transaction holds the writer lock
          rows,      \* assets registered and assets approved, in the database
          files,     \* the same, in the project's catalog files
          approval,  \* "filed": the approval of Media has written its files only
          plans,     \* GenerationPlan rows and the jobs of each
          batches,   \* ConversationBatch rows
          disturbed, \* history: since the last scan, a catalog file was written while
                     \* another request held a copy of the files
          outdated,  \* history: a scan took the row from a file that was not its copy
          count      \* what the bounds count

vars == <<conv, audit, turn, req, writer, rows, files, approval, plans, batches,
          disturbed, outdated, count>>

Tasks == NewTasks \cup OldTasks
Facts == [assets : SUBSET (NewTasks \cup {Media}), approved : SUBSET {Media}]
Drafts == [tasks : SUBSET Tasks, context : Facts]
Plan(p) == plans[p]
PlanIds == 1..MaxPlans
NoPlan == [status |-> "none", tasks |-> {}, jobs |-> [t \in Tasks |-> 0]]
NoDraft == [tasks |-> {}, context |-> [assets |-> {}, approved |-> {}]]

InitialFacts == [assets |-> {Media}, approved |-> {}]
NewConversation ==
    [draft |-> [tasks |-> {}, context |-> InitialFacts], status |-> "created",
     plan |-> 0, context |-> InitialFacts, proposals |-> {}]

Idle == [pc |-> "idle", draft |-> NoDraft, todo |-> {},
         saved |-> NoDraft.context, plan |-> 0, row |-> NewConversation]
NoTurn == [pc |-> "none", base |-> NoDraft, row |-> NewConversation, offer |-> {}]

Registered(tasks) == tasks \cap NewTasks

\* validate_planning_draft: the key of a new asset must not be taken.
Valid(tasks, facts) == Registered(tasks) \cap facts.assets = {}

CanWrite(u) == writer \in {NoTab, u}

\* Another request is between the copy of the catalog files and the end of
\* its confirmation or restore.
CopyHeld(u) == \E v \in Tabs \ {u} : req[v].pc \in {"confirming", "restoring"}

FreePlan == CHOOSE p \in PlanIds : Plan(p).status = "none" /\
                \A q \in PlanIds : Plan(q).status = "none" => p <= q
PlanLeft == \E p \in PlanIds : Plan(p).status = "none"

\* confirm_plan: one job for every task.
Confirmed(tasks) == [status |-> "confirmed", tasks |-> tasks,
                     jobs |-> [t \in Tasks |-> IF t \in tasks THEN 1 ELSE 0]]

Init ==
    /\ conv = NewConversation /\ audit = NewConversation
    /\ turn = NoTurn
    /\ req = [u \in Tabs |-> Idle]
    /\ writer = NoTab
    /\ rows = InitialFacts /\ files = InitialFacts
    /\ approval = "none"
    /\ plans = [p \in PlanIds |-> NoPlan]
    /\ batches = {}
    /\ disturbed = FALSE /\ outdated = FALSE
    /\ count = [turns |-> 0, edits |-> 0, drafts |-> 0, faults |-> 0]

-----------------------------------------------------------------------------
(* The planning agent's turn. *)

Active == conv.status = "running"

StartTurn ==
    /\ turn.pc = "queued"
    /\ turn' = [turn EXCEPT !.pc = "planning", !.base = conv.draft]
    /\ UNCHANGED <<conv, audit, req, writer, rows, files, approval, plans, batches,
                   disturbed, outdated, count>>

\* A draft.updated event: the row is read, the agent's draft validated ...
AgentDrafts(tasks) ==
    /\ turn.pc = "planning"
    /\ Valid(tasks, rows)
    /\ count.drafts < MaxDrafts /\ count' = [count EXCEPT !.drafts = @ + 1]
    /\ turn' = [turn EXCEPT !.pc = "proposing", !.row = conv, !.offer = tasks]
    /\ UNCHANGED <<conv, audit, req, writer, rows, files, approval, plans, batches,
                   disturbed, outdated>>

\* Mutant: the agent's draft always replaces the conversation's.
KeptNever == turn.row.draft # turn.row.draft

Kept == turn.row.draft # turn.base

\* ... and written, beside the user's draft if that is not the one the turn
\* started from; the file of the row has no such proposal then.
AgentWrites ==
    /\ turn.pc = "proposing"
    /\ CanWrite(NoTab)
    /\ conv' = IF Kept
               THEN [conv EXCEPT !.proposals = {turn.offer}]
               ELSE [conv EXCEPT !.draft = [tasks |-> turn.offer, context |-> turn.row.context]]
    /\ audit' = IF Kept THEN audit
                ELSE [turn.row EXCEPT !.draft = conv'.draft]
    /\ turn' = [NoTurn EXCEPT !.pc = "planning", !.base = turn.base]
    /\ UNCHANGED <<req, writer, rows, files, approval, plans, batches,
                   disturbed, outdated, count>>

\* Mutant: the turn ends and the row still says that it runs.
EndTurnStillRunning ==
    /\ turn.pc = "planning"
    /\ turn' = NoTurn
    /\ UNCHANGED <<conv, audit, req, writer, rows, files, approval, plans, batches,
                   disturbed, outdated, count>>

EndTurn ==
    /\ turn.pc = "planning"
    /\ CanWrite(NoTab)
    /\ conv' = [conv EXCEPT !.status = "awaiting_user"]
    /\ audit' = conv'
    /\ turn' = NoTurn
    /\ UNCHANGED <<req, writer, rows, files, approval, plans, batches,
                   disturbed, outdated, count>>

-----------------------------------------------------------------------------
(* Messages of the user, which start a turn.  The route is a coroutine      *)
(* without an await: no second message is read before the first is written. *)

\* A message after a confirmed batch empties the draft; the context of the
\* draft becomes that of the project if the project's facts have moved.
MessageDraft ==
    [tasks |-> IF conv.plan # 0 /\ conv.status = "completed" THEN {} ELSE conv.draft.tasks,
     context |-> IF conv.context = rows THEN conv.draft.context ELSE rows]

\* append_generation_message reads the row and the facts without a lock ...
SendMessage(u) ==
    /\ req[u] = Idle
    /\ ~Active /\ \A v \in Tabs : req[v].pc # "sending"
    /\ count.turns < MaxTurns /\ count' = [count EXCEPT !.turns = @ + 1]
    /\ req' = [req EXCEPT ![u] = [Idle EXCEPT !.pc = "sending", !.row = conv,
                                     !.draft = MessageDraft, !.saved = rows]]
    /\ UNCHANGED <<conv, audit, turn, writer, rows, files, approval, plans, batches,
                   disturbed, outdated>>

\* ... and writes what it changed of them.
WriteMessage(u) ==
    LET read == req[u].row
        written(row) == [row EXCEPT
            !.draft = IF req[u].draft = read.draft THEN @ ELSE req[u].draft,
            !.context = IF req[u].saved = read.context THEN @ ELSE req[u].saved,
            !.status = "running"]
    IN  /\ req[u].pc = "sending"
        /\ CanWrite(u)
        /\ conv' = written(conv) /\ audit' = written(read)
        /\ turn' = [NoTurn EXCEPT !.pc = "queued"]
        /\ req' = [req EXCEPT ![u] = Idle]
        /\ UNCHANGED <<writer, rows, files, approval, plans, batches,
                       disturbed, outdated, count>>

-----------------------------------------------------------------------------
(* Edits of tabs. *)

\* The draft of the request is validated for the row as it was read: its hash
\* must be the one the tab's edit is based on.
Edit(u, tasks, next) ==
    /\ req[u] = Idle
    /\ Valid(tasks, rows)
    /\ count.edits < MaxEdits /\ count' = [count EXCEPT !.edits = @ + 1]
    /\ req' = [req EXCEPT ![u] = [Idle EXCEPT !.pc = next, !.row = conv,
                                     !.draft = [tasks |-> tasks, context |-> conv.context]]]
    /\ UNCHANGED <<conv, audit, turn, writer, rows, files, approval, plans, batches,
                   disturbed, outdated>>

EditDraft(u) == \E tasks \in SUBSET Tasks : Edit(u, tasks, "editing")
ApplyProposal(u) == \E tasks \in conv.proposals : Edit(u, tasks, "applying")

WriteEdit(u) ==
    /\ req[u].pc \in {"editing", "applying"}
    /\ CanWrite(u)
    /\ conv' = [conv EXCEPT !.draft = req[u].draft]
    /\ audit' = [req[u].row EXCEPT !.draft = req[u].draft]
    /\ req' = [req EXCEPT ![u] = IF @.pc = "editing" THEN Idle
                                 ELSE [Idle EXCEPT !.pc = "dropping"]]
    /\ UNCHANGED <<turn, writer, rows, files, approval, plans, batches,
                   disturbed, outdated, count>>

\* The proposal is dropped in a transaction of its own, after it was applied
\* or when the user keeps the draft; the file of the row is not written.
DropProposal(u) ==
    /\ req[u].pc = "dropping" \/ (req[u] = Idle /\ conv.proposals # {})
    /\ CanWrite(u)
    /\ conv' = [conv EXCEPT !.proposals = {}]
    /\ req' = [req EXCEPT ![u] = Idle]
    /\ UNCHANGED <<audit, turn, writer, rows, files, approval, plans, batches,
                   disturbed, outdated, count>>

-----------------------------------------------------------------------------
(* Confirmation of the conversation's draft. *)

BatchesOf(d) == {b \in batches : b.draft = d}

\* A draft that has a batch, and any draft the row holds while it is
\* completed, is answered with a plan that exists.
Answerable(d) == BatchesOf(d) # {} \/ (d = conv.draft /\ conv.plan # 0
                                         /\ conv.status = "completed")

\* Mutant: the row's latest plan before the batches.
AnswerLatest(d) ==
    IF d = conv.draft /\ conv.status = "completed" THEN conv.plan
    ELSE (CHOOSE b \in BatchesOf(d) : TRUE).plan

Answer(d) ==
    IF BatchesOf(d) # {} THEN (CHOOSE b \in BatchesOf(d) : TRUE).plan ELSE conv.plan

MayConfirm ==
    /\ ~Answerable(conv.draft)
    /\ ~Active
    /\ conv.context = rows
    /\ conv.draft.tasks # {}
    /\ Valid(conv.draft.tasks, rows)

\* Mutant: the draft is read in a transaction that has no writer lock.
StartConfirmUnlocked(u) ==
    /\ req[u] = Idle
    /\ CanWrite(NoTab)
    /\ MayConfirm /\ PlanLeft
    /\ req' = [req EXCEPT ![u] = [Idle EXCEPT !.pc = "confirming", !.draft = conv.draft,
                                     !.todo = Registered(conv.draft.tasks), !.saved = files]]
    /\ disturbed' = (disturbed \/ CopyHeld(u))
    /\ UNCHANGED <<conv, audit, turn, rows, writer, files, approval, plans, batches,
                   outdated, count>>

\* BEGIN IMMEDIATE comes before the draft is read; the catalog files are
\* copied before any of them changes.
StartConfirm(u) ==
    /\ req[u] = Idle
    /\ CanWrite(NoTab)
    /\ MayConfirm /\ PlanLeft
    /\ writer' = u
    /\ req' = [req EXCEPT ![u] = [Idle EXCEPT !.pc = "confirming", !.draft = conv.draft,
                                     !.todo = Registered(conv.draft.tasks), !.saved = files]]
    /\ disturbed' = (disturbed \/ CopyHeld(u))
    /\ UNCHANGED <<conv, audit, turn, rows, files, approval, plans, batches,
                   outdated, count>>

\* _materialize_new_asset: the row is flushed, the descriptor written.
Register(u, t) ==
    /\ req[u].pc = "confirming" /\ t \in req[u].todo
    /\ CanWrite(u)
    /\ files' = [files EXCEPT !.assets = @ \cup {t}]
    /\ req' = [req EXCEPT ![u].todo = @ \ {t}]
    /\ disturbed' = (disturbed \/ CopyHeld(u))
    /\ UNCHANGED <<conv, audit, turn, writer, rows, approval, plans, batches,
                   outdated, count>>

CommitConfirm(u) ==
    /\ req[u].pc = "confirming" /\ req[u].todo = {}
    /\ CanWrite(u) /\ PlanLeft
    /\ LET d == req[u].draft
           b == [draft |-> d, plan |-> FreePlan]
       IN  /\ plans' = [plans EXCEPT ![FreePlan] = Confirmed(d.tasks)]
           /\ batches' = batches \cup {b}
           /\ conv' = [conv EXCEPT !.draft = [d EXCEPT !.context = conv.context],
                                   !.plan = FreePlan, !.status = "completed"]
           /\ rows' = [rows EXCEPT !.assets = @ \cup Registered(d.tasks)]
    /\ writer' = NoTab
    /\ req' = [req EXCEPT ![u] = [Idle EXCEPT !.pc = "auditing", !.row = conv']]
    /\ UNCHANGED <<audit, turn, files, approval, disturbed, outdated, count>>

\* The file of the row follows the commit, with what this request made of the
\* row; that it cannot be written is not an error.
AuditConfirm(u) ==
    /\ req[u].pc = "auditing"
    /\ \/ audit' = req[u].row /\ UNCHANGED count
       \/ /\ count.faults < MaxFaults /\ count' = [count EXCEPT !.faults = @ + 1]
          /\ UNCHANGED audit
    /\ req' = [req EXCEPT ![u] = Idle]
    /\ UNCHANGED <<conv, turn, writer, rows, files, approval, plans, batches,
                   disturbed, outdated>>

\* Any step may raise; the transaction is rolled back before the files are
\* restored, and with it the writer lock is gone.
FailConfirm(u) ==
    /\ req[u].pc = "confirming"
    /\ count.faults < MaxFaults /\ count' = [count EXCEPT !.faults = @ + 1]
    /\ writer' = IF writer = u THEN NoTab ELSE writer
    /\ req' = [req EXCEPT ![u].pc = "restoring"]
    /\ UNCHANGED <<conv, audit, turn, rows, files, approval, plans, batches,
                   disturbed, outdated>>

\* Mutant: the files that the confirmation created are not removed.
RestoredKnown(saved, now) == [now EXCEPT !.approved = saved.approved]

Restored(saved, now) == saved

\* _restore_catalog_files: every file of the copy is written, every other
\* one removed, without any lock.
RestoreFiles(u) ==
    /\ req[u].pc = "restoring"
    /\ files' = Restored(req[u].saved, files)
    /\ disturbed' = (disturbed \/ CopyHeld(u))
    /\ req' = [req EXCEPT ![u] = Idle]
    /\ UNCHANGED <<conv, audit, turn, writer, rows, approval, plans, batches,
                   outdated, count>>

-----------------------------------------------------------------------------
(* Plans without a conversation. *)

CreatePlan ==
    /\ PlanLeft /\ CanWrite(NoTab)
    /\ \A p \in PlanIds : Plan(p).status # "draft"
    /\ plans' = [plans EXCEPT ![FreePlan] = [NoPlan EXCEPT !.status = "draft",
                                                           !.tasks = OldTasks]]
    /\ UNCHANGED <<conv, audit, turn, req, writer, rows, files, approval, batches,
                   disturbed, outdated, count>>

\* confirm_plan: the status is read before the jobs are inserted ...
ApprovePlan(u, p) ==
    /\ req[u] = Idle
    /\ Plan(p).status = "draft"
    /\ req' = [req EXCEPT ![u] = [Idle EXCEPT !.pc = "approving", !.plan = p]]
    /\ UNCHANGED <<conv, audit, turn, writer, rows, files, approval, plans, batches,
                   disturbed, outdated, count>>

\* Mutant: nothing keeps a second job of a task out.
HasJobsNever(p) == \E t \in Tasks : Plan(p).jobs[t] > 1

\* ... and uq_job_plan_task refuses those of a second confirmation.
HasJobs(p) == \E t \in Tasks : Plan(p).jobs[t] > 0

CommitPlan(u) ==
    /\ req[u].pc = "approving" /\ CanWrite(u)
    /\ LET p == req[u].plan IN
           IF HasJobs(p) THEN UNCHANGED plans
           ELSE plans' = [plans EXCEPT ![p].status = "confirmed",
                              ![p].jobs = [t \in Tasks |-> @[t] + IF t \in Plan(p).tasks
                                                                  THEN 1 ELSE 0]]
    /\ req' = [req EXCEPT ![u] = Idle]
    /\ UNCHANGED <<conv, audit, turn, writer, rows, files, approval, batches,
                   disturbed, outdated, count>>

-----------------------------------------------------------------------------
(* What happens beside them: the approval of a candidate writes its files  *)
(* before its rows; the API may stop anywhere, and scans when it starts:   *)
(* then the rows, the conversation's too, become what the files say.       *)

FileApproval ==
    /\ approval = "none" /\ files.approved = {}
    /\ approval' = "filed"
    /\ files' = [files EXCEPT !.approved = {Media}]
    /\ disturbed' = (disturbed \/ CopyHeld(NoTab))
    /\ UNCHANGED <<conv, audit, turn, req, writer, rows, plans, batches,
                   outdated, count>>

RecordApproval ==
    /\ approval = "filed" /\ CanWrite(NoTab)
    /\ approval' = "none"
    /\ rows' = [rows EXCEPT !.approved = {Media}]
    /\ UNCHANGED <<conv, audit, turn, req, writer, files, plans, batches,
                   disturbed, outdated, count>>

RestartApi ==
    /\ count.faults < MaxFaults /\ count' = [count EXCEPT !.faults = @ + 1]
    /\ req' = [u \in Tabs |-> Idle] /\ writer' = NoTab /\ approval' = "none"
    /\ rows' = files /\ disturbed' = FALSE
    /\ conv' = audit /\ outdated' = (outdated \/ audit # conv)
    /\ UNCHANGED <<audit, turn, files, plans, batches>>

TabNext(u) ==
    \/ SendMessage(u) \/ WriteMessage(u)
    \/ EditDraft(u) \/ ApplyProposal(u) \/ WriteEdit(u) \/ DropProposal(u)
    \/ StartConfirm(u)
    \/ \E t \in NewTasks : Register(u, t)
    \/ CommitConfirm(u) \/ AuditConfirm(u) \/ FailConfirm(u) \/ RestoreFiles(u)
    \/ \E p \in PlanIds : ApprovePlan(u, p)
    \/ CommitPlan(u)

Next ==
    \/ StartTurn \/ AgentWrites \/ EndTurn
    \/ \E tasks \in SUBSET Tasks : AgentDrafts(tasks)
    \/ \E u \in Tabs : TabNext(u)
    \/ CreatePlan \/ FileApproval \/ RecordApproval \/ RestartApi

Spec == Init /\ [][Next]_vars

-----------------------------------------------------------------------------
(* Properties. *)

Conversations ==
    [draft : Drafts, status : {"created", "running", "awaiting_user", "completed"},
     plan : 0..MaxPlans, context : Facts, proposals : SUBSET SUBSET Tasks]

\* The state stays in its types; a request that holds the writer lock is a
\* confirmation, and the row is running exactly while the agent has its turn.
TypeOK ==
    /\ conv \in Conversations /\ audit \in Conversations
    /\ turn \in [pc : {"none", "queued", "planning", "proposing"}, base : Drafts,
                 row : Conversations, offer : SUBSET Tasks]
    /\ ~outdated => (turn.pc # "none") = Active
    /\ req \in [Tabs -> [pc : {"idle", "editing", "applying", "dropping", "confirming",
                               "restoring", "approving", "auditing", "sending"},
                         draft : Drafts, todo : SUBSET NewTasks,
                         saved : Facts, plan : 0..MaxPlans, row : Conversations]]
    /\ writer # NoTab => req[writer].pc = "confirming"
    /\ rows \in Facts /\ files \in Facts
    /\ approval \in {"none", "filed"}
    /\ \A p \in PlanIds : Plan(p).tasks \subseteq Tasks
    /\ batches \subseteq [draft : Drafts, plan : PlanIds]

\* However two confirmations of one plan interleave, each task of a confirmed
\* plan has exactly one job, and a plan that is not confirmed has none
\* (confirm_plan reads the status before it writes).
OneJobPerTask ==
    \A p \in PlanIds : \A t \in Tasks :
        Plan(p).jobs[t] = IF Plan(p).status = "confirmed" /\ t \in Plan(p).tasks THEN 1 ELSE 0

\* When no request is under way, the catalog files and the database name the
\* same assets and approvals, whatever confirmations failed and wherever the
\* API was stopped before its last start; unless a catalog file was written,
\* copied or restored while another confirmation held a copy of the files
\* (_restore_catalog_files runs after the rollback, without any lock).
Quiet == approval = "none" /\ \A u \in Tabs : req[u].pc \notin {"confirming", "restoring"}
CatalogAgrees == Quiet /\ ~disturbed => files = rows

\* A batch is made for the project as it is: what the conversation's context
\* was checked against is still true, and the draft still the conversation's,
\* when the batch is committed (the route takes the writer lock first).
ConfirmedOnCurrentFacts ==
    [][batches' # batches =>
          /\ conv.context = rows
          /\ \E b \in batches' \ batches : b.draft = conv.draft]_vars

\* A retried confirmation is answered with the batch its draft has, whatever
\* was confirmed, edited and planned since (confirm_generation_conversation
\* looks the batch up before it looks at the row).
RetriesFindTheirBatch ==
    \A b \in batches : Answerable(b.draft) /\ Answer(b.draft) = b.plan

\* The agent never replaces a draft that a user edited since its turn began,
\* as long as the edit came before the agent's draft was checked.
AgentKeepsEdits ==
    [][turn.pc = "proposing" /\ turn'.pc = "planning" /\ conv'.draft # conv.draft
          /\ turn.row.draft = conv.draft
       => conv.draft = turn.base]_vars

\* What the project's documents say of an edit: the hash of the draft it is
\* based on protects a draft that changed meanwhile.
EditsSurvive ==
    [][\A u \in Tabs : req[u].pc = "editing" /\ req'[u] = Idle /\ conv'.draft # conv.draft
          => req[u].row.draft = conv.draft]_vars

\* What they say of a confirmation: it is answered by the batch of the draft
\* whose hash it names.
AnsweredByItsBatch ==
    Answerable(conv.draft) => [draft |-> conv.draft, plan |-> Answer(conv.draft)] \in batches

\* And that a confirmation registers its new assets atomically: when nothing
\* is under way, the assets of every batch have their catalog files.
BatchAssetsAreFiled ==
    Quiet => \A b \in batches : Registered(b.draft.tasks) \subseteq files.assets

\* And that the database is authoritative when the file of a confirmed
\* conversation could not be written: a scan does not undo the confirmation.
ScanKeepsConfirmation ==
    [][RestartApi /\ conv.status = "completed"
          => conv'.status = "completed" /\ conv'.plan = conv.plan]_vars
=============================================================================
