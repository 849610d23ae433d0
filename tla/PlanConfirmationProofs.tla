----------------------- MODULE PlanConfirmationProofs -----------------------
(***************************************************************************)
(* What confirmations keep, for every number of tabs, tasks, plans and     *)
(* faults: the batches, the jobs of plans, the types, the catalog files    *)
(* and the user's edits.  Whoever confirms holds the writer lock from      *)
(* before it read the draft: nobody else changes the conversation, the     *)
(* rows or the batches, so that the draft it commits has no batch yet and  *)
(* is the one it has checked.                                              *)
(***************************************************************************)
EXTENDS PlanConfirmation, WellFoundedInduction, TLAPS

Shape ==
    /\ DOMAIN req = Tabs
    /\ \A u \in Tabs : DOMAIN req[u] = {"pc", "draft", "todo", "saved", "plan", "row"}

\* What the request of a tab knows while it confirms.
Exclusive(u) ==
    req[u].pc = "confirming" =>
        /\ writer = u
        /\ BatchesOf(req[u].draft) = {}
        /\ conv.draft = req[u].draft
        /\ conv.context = rows

OneBatchPerDraft == \A b, c \in batches : b.draft = c.draft => b.plan = c.plan

LockInv == Shape /\ (\A u \in Tabs : Exclusive(u)) /\ OneBatchPerDraft

-----------------------------------------------------------------------------
(* The steps *)

\* While the writer lock is free nobody confirms, and whatever then becomes
\* of the conversation and the rows disturbs nobody.
LEMMA Undisturbed ==
    ASSUME NoTab \notin Tabs, LockInv, Shape', UNCHANGED <<batches, writer>>,
           \A u \in Tabs : req'[u].pc = "confirming" =>
                              req[u].pc = "confirming" /\ req'[u].draft = req[u].draft,
           UNCHANGED <<conv, rows>> \/ writer = NoTab
                \/ \A u \in Tabs : writer = u => req'[u].pc # "confirming"
    PROVE  LockInv'
<1>1. ASSUME NEW u \in Tabs PROVE Exclusive(u)'
  BY <1>1 DEF LockInv, Exclusive, BatchesOf
<1>2. OneBatchPerDraft'
  BY DEF LockInv, OneBatchPerDraft
<1> QED
  BY <1>1, <1>2 DEF LockInv

\* The steps of the agent's turn, and what happens beside the tabs.
LEMMA Others ==
    ASSUME NoTab \notin Tabs, LockInv,
           \/ StartTurn \/ AgentWrites \/ EndTurn
           \/ \E tasks \in SUBSET Tasks : AgentDrafts(tasks)
           \/ CreatePlan \/ FileApproval \/ RecordApproval
    PROVE  LockInv' /\ batches' = batches
<1>1. /\ UNCHANGED <<batches, writer, req>>
      /\ UNCHANGED <<conv, rows>> \/ writer = NoTab
  BY DEF StartTurn, AgentWrites, EndTurn, AgentDrafts, CreatePlan, FileApproval,
         RecordApproval, CanWrite
<1>2. Shape'
  BY <1>1 DEF LockInv, Shape
<1> QED
  BY <1>1, <1>2, Undisturbed

LEMMA Restart ==
    ASSUME LockInv, RestartApi
    PROVE  LockInv' /\ batches' = batches
<1>1. req' = [u \in Tabs |-> Idle] /\ batches' = batches
  BY DEF RestartApi
<1>2. Shape' /\ \A u \in Tabs : req'[u].pc # "confirming"
  BY <1>1 DEF Shape, Idle
<1>3. \A u \in Tabs : Exclusive(u)'
  BY <1>2 DEF Exclusive
<1>4. OneBatchPerDraft'
  BY <1>1 DEF LockInv, OneBatchPerDraft
<1> QED
  BY <1>1, <1>2, <1>3, <1>4 DEF LockInv

\* A tab's request becomes another one that does not confirm.
LEMMA NotConfirming ==
    ASSUME NoTab \notin Tabs, LockInv, NEW u \in Tabs, NEW r,
           req' = [req EXCEPT ![u] = r],
           DOMAIN r = {"pc", "draft", "todo", "saved", "plan", "row"}, r.pc # "confirming",
           UNCHANGED <<batches, writer>>, UNCHANGED <<conv, rows>> \/ CanWrite(u)
    PROVE  LockInv'
<1>1. \A v \in Tabs : req'[v] = IF v = u THEN r ELSE req[v]
  BY DEF LockInv, Shape
<1>2. Shape'
  BY <1>1 DEF LockInv, Shape
<1>3. UNCHANGED <<conv, rows>> \/ writer = NoTab
         \/ \A v \in Tabs : writer = v => req'[v].pc # "confirming"
  BY <1>1 DEF CanWrite
<1> QED
  BY <1>1, <1>2, <1>3, Undisturbed

\* Edits, proposals and messages.
LEMMA Edits ==
    ASSUME NoTab \notin Tabs, LockInv, NEW u \in Tabs,
           \/ SendMessage(u) \/ WriteMessage(u)
           \/ EditDraft(u) \/ ApplyProposal(u) \/ WriteEdit(u) \/ DropProposal(u)
           \/ AuditConfirm(u) \/ RestoreFiles(u)
           \/ \E p \in PlanIds : ApprovePlan(u, p)
           \/ CommitPlan(u)
    PROVE  LockInv' /\ batches' = batches
<1> DEFINE ends(r) == /\ DOMAIN r = {"pc", "draft", "todo", "saved", "plan", "row"}
                      /\ r.pc # "confirming"
<1>1. ends(Idle)
  BY DEF Idle
<1>2. \A d, w : ends([Idle EXCEPT !.pc = "editing", !.row = w, !.draft = d])
  BY DEF Idle
<1>3. \A d, w : ends([Idle EXCEPT !.pc = "applying", !.row = w, !.draft = d])
  BY DEF Idle
<1>4. ends([Idle EXCEPT !.pc = "dropping"])
  BY DEF Idle
<1>5. \A p : ends([Idle EXCEPT !.pc = "approving", !.plan = p])
  BY DEF Idle
<1>6. CASE EditDraft(u) \/ ApplyProposal(u)
  <2>1. PICK tasks, next : next \in {"editing", "applying"} /\ Edit(u, tasks, next)
    BY <1>6 DEF EditDraft, ApplyProposal
  <2>2. PICK r : req' = [req EXCEPT ![u] = r] /\ ends(r)
    BY <1>2, <1>3, <2>1 DEF Edit
  <2> QED
    BY <2>1, <2>2, NotConfirming DEF Edit
<1>7. CASE WriteEdit(u)
  <2>1. PICK r : req' = [req EXCEPT ![u] = r] /\ ends(r)
    BY <1>1, <1>4, <1>7 DEF WriteEdit
  <2> QED
    BY <1>7, <2>1, NotConfirming DEF WriteEdit
<1>8. CASE DropProposal(u)
  BY <1>1, <1>8, NotConfirming DEF DropProposal
<1>9. CASE AuditConfirm(u)
  BY <1>1, <1>9, NotConfirming DEF AuditConfirm
<1>10. CASE RestoreFiles(u)
  BY <1>1, <1>10, NotConfirming DEF RestoreFiles
<1>11. CASE \E p \in PlanIds : ApprovePlan(u, p)
  BY <1>5, <1>11, NotConfirming DEF ApprovePlan
<1>12. CASE CommitPlan(u)
  BY <1>1, <1>12, NotConfirming DEF CommitPlan
<1>13. CASE SendMessage(u)
  <2> DEFINE r == [Idle EXCEPT !.pc = "sending", !.row = conv,
                               !.draft = MessageDraft, !.saved = rows]
  <2>1. ends(r)
    BY DEF Idle
  <2>2. /\ req' = [req EXCEPT ![u] = r]
        /\ UNCHANGED <<batches, writer, conv, rows>>
    BY <1>13 DEF SendMessage
  <2> HIDE DEF r
  <2> QED
    BY <2>1, <2>2, NotConfirming
<1>14. CASE WriteMessage(u)
  <2>1. /\ req' = [req EXCEPT ![u] = Idle] /\ CanWrite(u)
        /\ UNCHANGED <<batches, writer>>
    BY <1>14 DEF WriteMessage
  <2> QED
    BY <1>1, <2>1, NotConfirming
<1> QED
  BY <1>6, <1>7, <1>8, <1>9, <1>10, <1>11, <1>12, <1>13, <1>14

\* A confirmation begins.
LEMMA Begins ==
    ASSUME NoTab \notin Tabs, LockInv, NEW u \in Tabs, StartConfirm(u)
    PROVE  LockInv' /\ batches' = batches
<1> DEFINE r == [Idle EXCEPT !.pc = "confirming", !.draft = conv.draft,
                             !.todo = Registered(conv.draft.tasks), !.saved = files]
<1>1. /\ req' = [req EXCEPT ![u] = r] /\ writer' = u /\ CanWrite(NoTab)
      /\ UNCHANGED <<batches, conv, rows>>
      /\ ~Answerable(conv.draft) /\ conv.context = rows
  BY DEF StartConfirm, MayConfirm
<1>2. /\ DOMAIN r = {"pc", "draft", "todo", "saved", "plan", "row"}
      /\ r.pc = "confirming" /\ r.draft = conv.draft
  BY DEF Idle
<1>3. \A v \in Tabs : req'[v] = IF v = u THEN r ELSE req[v]
  BY <1>1 DEF LockInv, Shape
<1>4. Shape'
  BY <1>1, <1>2, <1>3 DEF LockInv, Shape
<1>5. BatchesOf(conv.draft) = {}
  BY <1>1 DEF Answerable
<1>6. ASSUME NEW v \in Tabs PROVE Exclusive(v)'
  <2>1. CASE v = u
    <3>1. req'[v].draft = conv.draft /\ writer' = v /\ conv'.draft = conv.draft
      BY <1>1, <1>2, <1>3, <2>1
    <3>2. BatchesOf(req[v].draft)' = BatchesOf(conv.draft)
      BY <1>1, <3>1 DEF BatchesOf
    <3> QED
      BY <1>1, <1>5, <3>1, <3>2 DEF Exclusive
  <2>2. CASE v # u
    <3>1. writer = NoTab
      BY <1>1 DEF CanWrite
    <3>2. req[v].pc # "confirming"
      BY <3>1 DEF LockInv, Exclusive
    <3> QED
      BY <1>3, <2>2, <3>2 DEF Exclusive
  <2> QED
    BY <2>1, <2>2
<1>7. OneBatchPerDraft'
  BY <1>1 DEF LockInv, OneBatchPerDraft
<1> QED
  BY <1>1, <1>4, <1>6, <1>7 DEF LockInv

\* It registers an asset.
LEMMA Registers ==
    ASSUME NoTab \notin Tabs, LockInv, NEW u \in Tabs, NEW t, Register(u, t)
    PROVE  LockInv' /\ batches' = batches
<1>1. /\ req' = [req EXCEPT ![u] = [req[u] EXCEPT !.todo = req[u].todo \ {t}]]
      /\ UNCHANGED <<batches, writer, conv, rows>>
  BY DEF Register
<1>2. /\ \A v \in Tabs : req'[v] = IF v = u THEN [req[u] EXCEPT !.todo = req[u].todo \ {t}] ELSE req[v]
      /\ DOMAIN req' = Tabs
  BY <1>1 DEF LockInv, Shape
<1>3. /\ DOMAIN [req[u] EXCEPT !.todo = req[u].todo \ {t}] = DOMAIN req[u]
      /\ [req[u] EXCEPT !.todo = req[u].todo \ {t}].pc = req[u].pc
      /\ [req[u] EXCEPT !.todo = req[u].todo \ {t}].draft = req[u].draft
  BY DEF LockInv, Shape
<1>4. Shape'
  BY <1>2, <1>3 DEF LockInv, Shape
<1> QED
  BY <1>1, <1>2, <1>3, <1>4, Undisturbed

\* It fails.
LEMMA Fails ==
    ASSUME NoTab \notin Tabs, LockInv, NEW u \in Tabs, FailConfirm(u)
    PROVE  LockInv' /\ batches' = batches
<1>1. /\ req' = [req EXCEPT ![u] = [req[u] EXCEPT !.pc = "restoring"]]
      /\ UNCHANGED <<batches, conv, rows>> /\ req[u].pc = "confirming"
  BY DEF FailConfirm
<1>2. /\ \A v \in Tabs : req'[v] = IF v = u THEN [req[u] EXCEPT !.pc = "restoring"] ELSE req[v]
      /\ DOMAIN req' = Tabs
  BY <1>1 DEF LockInv, Shape
<1>3. /\ DOMAIN [req[u] EXCEPT !.pc = "restoring"] = DOMAIN req[u]
      /\ [req[u] EXCEPT !.pc = "restoring"].pc = "restoring"
  BY DEF LockInv, Shape
<1>4. Shape'
  BY <1>2, <1>3 DEF LockInv, Shape
<1>5. ASSUME NEW v \in Tabs PROVE Exclusive(v)'
  <2>1. CASE v = u
    BY <1>2, <1>3, <2>1 DEF Exclusive
  <2>2. CASE v # u
    \* Both would hold the lock.
    <3>1. req'[v] = req[v] /\ req[v].pc # "confirming"
      BY <1>1, <1>2, <2>2 DEF LockInv, Exclusive
    <3> QED
      BY <3>1 DEF Exclusive
  <2> QED
    BY <2>1, <2>2
<1>6. OneBatchPerDraft'
  BY <1>1 DEF LockInv, OneBatchPerDraft
<1> QED
  BY <1>1, <1>4, <1>5, <1>6 DEF LockInv

\* It commits: the one step that makes a batch.
LEMMA Commits ==
    ASSUME NoTab \notin Tabs, LockInv, NEW u \in Tabs, CommitConfirm(u)
    PROVE  /\ LockInv'
           /\ conv.context = rows
           /\ \E b \in batches' \ batches : b.draft = conv.draft
<1> DEFINE b == [draft |-> req[u].draft, plan |-> FreePlan]
           r == [Idle EXCEPT !.pc = "auditing", !.row = conv']
<1>1. /\ req[u].pc = "confirming" /\ writer' = NoTab
      /\ batches' = batches \cup {b} /\ req' = [req EXCEPT ![u] = r]
  BY DEF CommitConfirm
<1>2. DOMAIN r = {"pc", "draft", "todo", "saved", "plan", "row"} /\ r.pc = "auditing"
  BY DEF Idle
<1>3. \A v \in Tabs : req'[v] = IF v = u THEN r ELSE req[v]
  BY <1>1 DEF LockInv, Shape
<1>4. Shape'
  BY <1>1, <1>2, <1>3 DEF LockInv, Shape
<1>5. \A v \in Tabs : req'[v].pc # "confirming"
  <2>1. \A v \in Tabs \ {u} : req[v].pc # "confirming"
    BY <1>1 DEF LockInv, Exclusive
  <2> HIDE DEF r
  <2> QED
    BY <1>2, <1>3, <2>1
<1>6. \A c \in batches : c.draft # b.draft
  BY <1>1 DEF LockInv, Exclusive, BatchesOf
<1>7. OneBatchPerDraft'
  BY <1>1, <1>6 DEF LockInv, OneBatchPerDraft
<1>8. b \in batches' \ batches /\ b.draft = conv.draft /\ conv.context = rows
  BY <1>1, <1>6 DEF LockInv, Exclusive
<1> QED
  BY <1>4, <1>5, <1>7, <1>8 DEF LockInv, Exclusive

-----------------------------------------------------------------------------
(* The theorems *)

LEMMA LockInit == Init => LockInv
<1> SUFFICES ASSUME Init PROVE LockInv
  OBVIOUS
<1>1. req = [u \in Tabs |-> Idle] /\ batches = {}
  BY DEF Init
<1>2. Shape /\ \A u \in Tabs : req[u].pc # "confirming"
  BY <1>1 DEF Shape, Idle
<1> QED
  BY <1>1, <1>2 DEF LockInv, Exclusive, OneBatchPerDraft

\* A step keeps the invariant, and makes no batch but one for the draft and
\* the facts of the conversation.
MakesGoodBatch ==
    batches' # batches =>
        conv.context = rows /\ \E b \in batches' \ batches : b.draft = conv.draft

LEMMA LockStep ==
    ASSUME NoTab \notin Tabs, LockInv, [Next]_vars
    PROVE  LockInv' /\ MakesGoodBatch
<1>1. CASE UNCHANGED vars
  BY <1>1 DEF vars, LockInv, Shape, Exclusive, BatchesOf, OneBatchPerDraft, MakesGoodBatch
<1>2. CASE \/ StartTurn \/ AgentWrites \/ EndTurn
           \/ \E tasks \in SUBSET Tasks : AgentDrafts(tasks)
           \/ CreatePlan \/ FileApproval \/ RecordApproval
  BY <1>2, Others DEF MakesGoodBatch
<1>3. CASE RestartApi
  BY <1>3, Restart DEF MakesGoodBatch
<1>4. ASSUME NEW u \in Tabs, TabNext(u)
      PROVE  LockInv' /\ MakesGoodBatch
  <2>1. CASE StartConfirm(u)
    BY <2>1, Begins DEF MakesGoodBatch
  <2>2. CASE \E t \in NewTasks : Register(u, t)
    BY <2>2, Registers DEF MakesGoodBatch
  <2>3. CASE CommitConfirm(u)
    BY <2>3, Commits DEF MakesGoodBatch
  <2>4. CASE FailConfirm(u)
    BY <2>4, Fails DEF MakesGoodBatch
  <2>5. CASE \/ SendMessage(u) \/ WriteMessage(u)
             \/ EditDraft(u) \/ ApplyProposal(u) \/ WriteEdit(u) \/ DropProposal(u)
             \/ AuditConfirm(u) \/ RestoreFiles(u)
             \/ \E p \in PlanIds : ApprovePlan(u, p)
             \/ CommitPlan(u)
    BY <2>5, Edits DEF MakesGoodBatch
  <2> QED
    BY <1>4, <2>1, <2>2, <2>3, <2>4, <2>5 DEF TabNext
<1> QED
  BY <1>1, <1>2, <1>3, <1>4 DEF Next

\* However confirmations, edits, turns of the agent, failures and restarts
\* interleave, a repeated confirmation finds the batch of its draft: there is
\* one for each draft that was confirmed (confirm_generation_conversation).
THEOREM RetriesAnswered == Spec => []RetriesFindTheirBatch
<1>1. Init => LockInv
  BY LockInit
<1>2. LockInv /\ [Next]_vars => LockInv'
  BY LockStep, TabsAssumption
<1>3. LockInv => RetriesFindTheirBatch
  <2> SUFFICES ASSUME LockInv, NEW b \in batches
               PROVE  Answerable(b.draft) /\ Answer(b.draft) = b.plan
    BY DEF RetriesFindTheirBatch
  <2>1. b \in BatchesOf(b.draft)
    BY DEF BatchesOf
  <2>2. \A c \in BatchesOf(b.draft) : c.plan = b.plan
    BY DEF BatchesOf, LockInv, OneBatchPerDraft
  <2>3. (CHOOSE c \in BatchesOf(b.draft) : TRUE) \in BatchesOf(b.draft)
    BY <2>1
  <2> QED
    BY <2>1, <2>2, <2>3 DEF Answerable, Answer
<1> QED
  BY <1>1, <1>2, <1>3, PTL DEF Spec

\* And every batch is made for the draft the conversation has and for the
\* project as it is: the route takes the writer lock before it reads them.
THEOREM ConfirmsCurrentFacts == Spec => ConfirmedOnCurrentFacts
<1>1. Init => LockInv
  BY LockInit
<1>2. LockInv /\ [Next]_vars => LockInv'
  BY LockStep, TabsAssumption
<1>3. LockInv /\ [Next]_vars =>
        [batches' # batches =>
             /\ conv.context = rows
             /\ \E b \in batches' \ batches : b.draft = conv.draft]_vars
  BY LockStep, TabsAssumption DEF MakesGoodBatch
<1> QED
  BY <1>1, <1>2, <1>3, PTL DEF Spec, ConfirmedOnCurrentFacts

-----------------------------------------------------------------------------
(* The jobs of plans *)

PlanShape(r) == DOMAIN r = {"status", "tasks", "jobs"} /\ DOMAIN r.jobs = Tasks

JobsOnce(r) ==
    \A t \in Tasks : r.jobs[t] = IF r.status = "confirmed" /\ t \in r.tasks THEN 1 ELSE 0

JobsInv ==
    /\ DOMAIN plans = PlanIds
    /\ \A p \in PlanIds : PlanShape(plans[p]) /\ JobsOnce(plans[p])

\* The row of one plan is replaced.
LEMMA PlanReplaced ==
    ASSUME JobsInv, NEW p, NEW r, PlanShape(r), JobsOnce(r), plans' = [plans EXCEPT ![p] = r]
    PROVE  JobsInv'
<1>1. DOMAIN plans' = PlanIds /\ \A q \in PlanIds : plans'[q] = IF q = p THEN r ELSE plans[q]
  BY DEF JobsInv
<1> QED
  BY <1>1 DEF JobsInv, PlanShape, JobsOnce

\* The jobs of a plan are inserted, whatever a second approval did meanwhile.
LEMMA JobsInserted ==
    ASSUME JobsInv, NEW u \in Tabs, CommitPlan(u)
    PROVE  JobsInv'
<1> DEFINE p == req[u].plan
           jobs == [t \in Tasks |-> plans[p].jobs[t] + IF t \in plans[p].tasks THEN 1 ELSE 0]
           r == [plans[p] EXCEPT !.status = "confirmed", !.jobs = jobs]
<1>1. CASE HasJobs(p)
  BY <1>1 DEF CommitPlan, JobsInv, PlanShape, JobsOnce
<1>2. CASE ~HasJobs(p) /\ p \in PlanIds
  <2>1. plans' = [plans EXCEPT ![p] = r]
    BY <1>2 DEF CommitPlan, Plan
  <2>2. PlanShape(plans[p]) /\ JobsOnce(plans[p])
    BY <1>2 DEF JobsInv
  <2>3. r.jobs = jobs /\ r.status = "confirmed" /\ r.tasks = plans[p].tasks /\ PlanShape(r)
    BY <2>2 DEF PlanShape
  <2>4. \A t \in Tasks : plans[p].jobs[t] = 0
    BY <1>2, <2>2 DEF JobsOnce, HasJobs, Plan
  <2>5. JobsOnce(r)
    BY <2>3, <2>4 DEF JobsOnce
  <2> HIDE DEF r
  <2> QED
    BY <2>1, <2>3, <2>5, PlanReplaced
<1>3. CASE ~HasJobs(p) /\ p \notin PlanIds
  <2>1. plans' = [plans EXCEPT ![p] = r]
    BY <1>3 DEF CommitPlan, Plan
  <2>2. DOMAIN plans' = PlanIds /\ \A q \in PlanIds : plans'[q] = plans[q]
    BY <1>3, <2>1 DEF JobsInv
  <2> QED
    BY <2>2 DEF JobsInv, PlanShape, JobsOnce
<1> QED
  BY <1>1, <1>2, <1>3

LEMMA JobsInit == ASSUME Init PROVE JobsInv
<1>1. PlanShape(NoPlan) /\ JobsOnce(NoPlan)
  BY DEF NoPlan, PlanShape, JobsOnce
<1> QED
  BY <1>1 DEF Init, JobsInv

LEMMA JobsStep == ASSUME JobsInv, [Next]_vars PROVE JobsInv'
<1>1. CASE UNCHANGED plans
  BY <1>1 DEF JobsInv, PlanShape, JobsOnce
<1>2. CASE CreatePlan
  <2> DEFINE r == [NoPlan EXCEPT !.status = "draft", !.tasks = OldTasks]
  <2>1. plans' = [plans EXCEPT ![FreePlan] = r]
    BY <1>2 DEF CreatePlan
  <2>2. PlanShape(r) /\ JobsOnce(r)
    BY DEF NoPlan, PlanShape, JobsOnce
  <2> HIDE DEF r
  <2> QED
    BY <2>1, <2>2, PlanReplaced
<1>3. ASSUME NEW u \in Tabs, CommitConfirm(u) PROVE JobsInv'
  <2>1. plans' = [plans EXCEPT ![FreePlan] = Confirmed(req[u].draft.tasks)]
    BY <1>3 DEF CommitConfirm
  <2>2. PlanShape(Confirmed(req[u].draft.tasks)) /\ JobsOnce(Confirmed(req[u].draft.tasks))
    BY DEF Confirmed, PlanShape, JobsOnce
  <2> QED
    BY <2>1, <2>2, PlanReplaced
<1>4. ASSUME NEW u \in Tabs, CommitPlan(u) PROVE JobsInv'
  BY <1>4, JobsInserted
<1>5. \/ UNCHANGED plans \/ CreatePlan
      \/ \E u \in Tabs : CommitConfirm(u) \/ CommitPlan(u)
  BY DEF Next, vars, TabNext, SendMessage, WriteMessage, StartTurn, AgentWrites, EndTurn, AgentDrafts,
         FileApproval, RecordApproval, RestartApi, EditDraft, ApplyProposal, Edit, WriteEdit,
         DropProposal, StartConfirm, Register, AuditConfirm, FailConfirm, RestoreFiles,
         ApprovePlan
<1> QED
  BY <1>1, <1>2, <1>3, <1>4, <1>5

\* However approvals and confirmations of plans interleave, each task of a
\* confirmed plan has one job and a plan that is not confirmed has none
\* (confirm_plan and the unique index of its jobs).
THEOREM JobsOncePerTask == Spec => []OneJobPerTask
<1>1. Init => JobsInv
  BY JobsInit
<1>2. JobsInv /\ [Next]_vars => JobsInv'
  BY JobsStep
<1>3. JobsInv => OneJobPerTask
  BY DEF JobsInv, JobsOnce, OneJobPerTask, Plan
<1> QED
  BY <1>1, <1>2, <1>3, PTL DEF Spec

-----------------------------------------------------------------------------
(* Types *)

Turns == [pc : {"none", "queued", "planning", "proposing"}, base : Drafts,
          row : Conversations, offer : SUBSET Tasks]

Calls == [pc : {"idle", "editing", "applying", "dropping", "confirming",
                "restoring", "approving", "auditing", "sending"},
          draft : Drafts, todo : SUBSET NewTasks,
          saved : Facts, plan : 0..MaxPlans, row : Conversations]

PlanRows == [status : {"none", "draft", "confirmed"}, tasks : SUBSET Tasks, jobs : [Tasks -> Nat]]

ConvInv == conv \in Conversations /\ audit \in Conversations
TurnInv == turn \in Turns /\ outdated \in BOOLEAN /\ (~outdated => (turn.pc # "none") = Active)
ReqInv == req \in [Tabs -> Calls]
WriterInv ==
    /\ writer \in Tabs \cup {NoTab}
    /\ writer # NoTab => req[writer].pc = "confirming"
    /\ \A u \in Tabs : req[u].pc = "confirming" => writer = u /\ ~Active
FactsInv == rows \in Facts /\ files \in Facts /\ approval \in {"none", "filed"} /\ disturbed \in BOOLEAN
PlansInv == plans \in [PlanIds -> PlanRows] /\ batches \subseteq [draft : Drafts, plan : PlanIds]

TypeInv == ConvInv /\ TurnInv /\ ReqInv /\ WriterInv /\ FactsInv /\ PlansInv

LEMMA TypeInvImpliesTypeOK == ASSUME TypeInv PROVE TypeOK
BY DEF TypeInv, ConvInv, TurnInv, ReqInv, WriterInv, FactsInv, PlansInv, TypeOK, Turns, Calls,
       PlanRows, Plan

\* While plans are left, FreePlan is one of them.
LEMMA FreePlanIsFree ==
    ASSUME PlanLeft
    PROVE  FreePlan \in PlanIds /\ plans[FreePlan].status = "none"
<1> DEFINE Free == {p \in PlanIds : plans[p].status = "none"}
<1>1. Free # {} /\ Free \subseteq Nat
  BY BoundsAssumption DEF PlanLeft, PlanIds, Plan
<1>2. PICK p \in Free : \A q \in Free : ~(<<q, p>> \in OpToRel(<, Nat))
  BY <1>1, WFMin, NatLessThanWellFounded
<1>3. \A q \in Free : p <= q
  <2> HIDE DEF Free
  <2>1. \A q \in Free : q \in Nat /\ p \in Nat /\ ~(q < p)
    BY <1>1, <1>2 DEF OpToRel
  <2> QED
    BY <2>1
<1> QED
  BY <1>3 DEF FreePlan, Plan

LEMMA InitialTypes ==
    /\ InitialFacts \in Facts /\ NoDraft \in Drafts
    /\ NewConversation \in Conversations /\ NoTurn \in Turns /\ Idle \in Calls
<1>1. InitialFacts \in Facts /\ NoDraft \in Drafts
  BY DEF InitialFacts, Facts, NoDraft, Drafts
<1>2. NewConversation \in Conversations
  BY <1>1, BoundsAssumption DEF NewConversation, Conversations, Drafts
<1>3. NoTurn \in Turns
  BY <1>1, <1>2 DEF NoTurn, Turns
<1>4. NoDraft.context \in Facts
  BY DEF NoDraft, Facts
<1>5. Idle \in Calls
  BY <1>1, <1>2, <1>4, BoundsAssumption DEF Idle, Calls
<1> QED
  BY <1>1, <1>2, <1>3, <1>5

LEMMA TypeInit == ASSUME Init PROVE TypeInv
<1>1. ConvInv /\ TurnInv /\ ReqInv
  BY InitialTypes DEF Init, ConvInv, TurnInv, ReqInv, Active, NewConversation, NoTurn
<1>2. WriterInv
  BY TabsAssumption DEF Init, WriterInv, Idle
<1>3. FactsInv
  BY InitialTypes DEF Init, FactsInv
<1>4. NoPlan \in PlanRows
  BY DEF NoPlan, PlanRows, Tasks
<1>5. PlansInv
  BY <1>4 DEF Init, PlansInv
<1> QED
  BY <1>1, <1>2, <1>3, <1>5 DEF TypeInv

\* The agent's turn.  Nobody confirms while the writer lock is free.
LEMMA TurnTypes ==
    ASSUME TypeInv,
           \/ StartTurn \/ AgentWrites \/ EndTurn
           \/ \E tasks \in SUBSET Tasks : AgentDrafts(tasks)
    PROVE  TypeInv'
<1>1. UNCHANGED <<req, writer, rows, files, approval, plans, batches, disturbed, outdated>>
  BY DEF StartTurn, AgentWrites, EndTurn, AgentDrafts
<1>2. ReqInv' /\ FactsInv' /\ PlansInv'
  BY <1>1 DEF TypeInv, ReqInv, FactsInv, PlansInv
<1>3. ASSUME conv'.status = conv.status \/ writer = NoTab
      PROVE  WriterInv'
  <2>1. CASE conv'.status = conv.status
    BY <1>1, <2>1 DEF TypeInv, WriterInv, Active
  <2>2. CASE writer = NoTab
    BY <1>1, <2>2, TabsAssumption DEF TypeInv, WriterInv, Active
  <2> QED
    BY <1>3, <2>1, <2>2
<1>5. CASE StartTurn
  <2>1. /\ turn.pc = "queued" /\ UNCHANGED <<conv, audit>>
        /\ turn' = [turn EXCEPT !.pc = "planning", !.base = conv.draft]
    BY <1>5 DEF StartTurn
  <2>2. conv.draft \in Drafts
    BY DEF TypeInv, ConvInv, Conversations
  <2>3. turn' \in Turns /\ turn'.pc = "planning"
    BY <2>1, <2>2 DEF TypeInv, TurnInv, Turns
  <2>4. ConvInv' /\ TurnInv'
    BY <1>1, <2>1, <2>3 DEF TypeInv, ConvInv, TurnInv, Active
  <2> QED
    BY <1>2, <1>3, <2>1, <2>4 DEF TypeInv
<1>6. CASE AgentWrites
  <2> DEFINE c1 == [conv EXCEPT !.proposals = {turn.offer}]
             d == [tasks |-> turn.offer, context |-> turn.row.context]
             c2 == [conv EXCEPT !.draft = d]
             a2 == [turn.row EXCEPT !.draft = c2.draft]
  <2>1. /\ turn.pc = "proposing"
        /\ conv' = IF Kept THEN c1 ELSE c2
        /\ audit' = IF Kept THEN audit ELSE [turn.row EXCEPT !.draft = conv'.draft]
        /\ turn' = [NoTurn EXCEPT !.pc = "planning", !.base = turn.base]
    BY <1>6 DEF AgentWrites
  <2>2. turn.offer \subseteq Tasks /\ d \in Drafts /\ turn.row \in Conversations /\ turn.base \in Drafts
    BY DEF TypeInv, TurnInv, Turns, Conversations, Drafts
  <2> HIDE DEF d
  <2>3. c1 \in Conversations /\ c1.status = conv.status
    BY <2>2 DEF TypeInv, ConvInv, Conversations
  <2>4. c2 \in Conversations /\ c2.status = conv.status /\ c2.draft = d
    BY <2>2 DEF TypeInv, ConvInv, Conversations
  <2>5. a2 \in Conversations
    BY <2>2, <2>4 DEF Conversations
  <2>6. conv' \in Conversations /\ conv'.status = conv.status
    <3> HIDE DEF c1, c2
    <3> QED
      BY <2>1, <2>3, <2>4
  <2>7. audit' \in Conversations
    <3>1. audit' = IF Kept THEN audit ELSE a2
      BY <2>1
    <3> HIDE DEF a2
    <3> QED
      BY <2>5, <3>1 DEF TypeInv, ConvInv
  <2>8. turn' \in Turns /\ turn'.pc = "planning"
    BY <2>1, <2>2, InitialTypes DEF Turns
  <2>9. ConvInv' /\ TurnInv'
    BY <1>1, <2>1, <2>6, <2>7, <2>8 DEF TypeInv, ConvInv, TurnInv, Active
  <2> QED
    BY <1>2, <1>3, <2>6, <2>9 DEF TypeInv
<1>7. CASE EndTurn
  <2>1. /\ turn.pc = "planning" /\ writer = NoTab
        /\ conv' = [conv EXCEPT !.status = "awaiting_user"]
        /\ audit' = conv' /\ turn' = NoTurn
    BY <1>7, TabsAssumption DEF EndTurn, CanWrite
  <2>2. ConvInv' /\ conv'.status = "awaiting_user"
    BY <2>1 DEF TypeInv, ConvInv, Conversations
  <2>3. turn' \in Turns /\ turn'.pc = "none"
    BY <2>1, InitialTypes DEF NoTurn
  <2>4. TurnInv'
    BY <1>1, <2>2, <2>3 DEF TypeInv, TurnInv, Active
  <2> QED
    BY <1>2, <1>3, <2>1, <2>2, <2>4 DEF TypeInv
<1>8. ASSUME NEW tasks \in SUBSET Tasks, AgentDrafts(tasks)
      PROVE  TypeInv'
  <2>1. /\ turn.pc = "planning" /\ UNCHANGED <<conv, audit>>
        /\ turn' = [turn EXCEPT !.pc = "proposing", !.row = conv, !.offer = tasks]
    BY <1>8 DEF AgentDrafts
  <2>2. turn' \in Turns /\ turn'.pc = "proposing"
    BY <2>1 DEF TypeInv, TurnInv, Turns, ConvInv
  <2>3. ConvInv' /\ TurnInv'
    BY <1>1, <2>1, <2>2 DEF TypeInv, ConvInv, TurnInv, Active
  <2> QED
    BY <1>2, <1>3, <2>1, <2>3 DEF TypeInv
<1> QED
  BY <1>5, <1>6, <1>7, <1>8

\* The request of a tab becomes r, and the writer lock stays with who has it.
LEMMA CallReplaced ==
    ASSUME TypeInv, NEW u \in Tabs, NEW r \in Calls, req' = [req EXCEPT ![u] = r],
           UNCHANGED writer, conv'.status = conv.status,
           r.pc = "confirming" <=> req[u].pc = "confirming"
    PROVE  ReqInv' /\ WriterInv'
<1>1. \A v \in Tabs : req'[v] = IF v = u THEN r ELSE req[v]
  BY DEF TypeInv, ReqInv
<1>2. ReqInv'
  BY <1>1 DEF TypeInv, ReqInv
<1>3. WriterInv'
  BY <1>1 DEF TypeInv, WriterInv, Active
<1> QED
  BY <1>2, <1>3

\* A request that holds no lock begins, goes on or ends.
LEMMA CallGoesOn ==
    ASSUME TypeInv, NEW u \in Tabs, NEW r \in Calls, req' = [req EXCEPT ![u] = r],
           r.pc # "confirming", req[u].pc # "confirming",
           UNCHANGED <<writer, turn, outdated>>, ConvInv', conv'.status = conv.status,
           FactsInv', PlansInv'
    PROVE  TypeInv'
<1>1. ReqInv' /\ WriterInv'
  BY CallReplaced
<1>2. TurnInv'
  BY DEF TypeInv, TurnInv, Active
<1> QED
  BY <1>1, <1>2 DEF TypeInv

\* A message is read like an edit, and written while nobody confirms.
LEMMA MessageTypes ==
    ASSUME TypeInv, NEW u \in Tabs, SendMessage(u) \/ WriteMessage(u)
    PROVE  TypeInv'
<1>1. /\ UNCHANGED <<writer, rows, files, approval, plans, batches, disturbed, outdated>>
      /\ FactsInv' /\ PlansInv'
  BY DEF SendMessage, WriteMessage, TypeInv, FactsInv, PlansInv
<1>2. /\ req[u] \in Calls /\ conv \in Conversations /\ rows \in Facts
      /\ Idle \in Calls /\ Idle.pc = "idle"
  BY InitialTypes DEF TypeInv, ReqInv, ConvInv, FactsInv, Idle
<1>3. CASE SendMessage(u)
  <2> DEFINE r == [Idle EXCEPT !.pc = "sending", !.row = conv,
                               !.draft = MessageDraft, !.saved = rows]
  <2>1. req' = [req EXCEPT ![u] = r] /\ req[u] = Idle /\ UNCHANGED <<conv, audit, turn>>
    BY <1>3 DEF SendMessage
  <2>2. MessageDraft \in Drafts
    BY <1>2 DEF MessageDraft, Conversations, Drafts
  <2>3. r \in Calls /\ r.pc # "confirming"
    BY <1>2, <2>2 DEF Calls
  <2>4. ConvInv'
    BY <2>1 DEF TypeInv, ConvInv
  <2> HIDE DEF r
  <2> QED
    BY <1>1, <1>2, <2>1, <2>3, <2>4, CallGoesOn
<1>4. CASE WriteMessage(u)
  <2> DEFINE read == req[u].row
             draft(row) == IF req[u].draft = read.draft THEN row.draft ELSE req[u].draft
             context(row) == IF req[u].saved = read.context THEN row.context ELSE req[u].saved
             written(row) == [row EXCEPT !.draft = draft(row), !.context = context(row),
                                         !.status = "running"]
  <2>1. /\ req[u].pc = "sending" /\ CanWrite(u)
        /\ conv' = written(conv) /\ audit' = written(read)
        /\ turn' = [NoTurn EXCEPT !.pc = "queued"]
        /\ req' = [req EXCEPT ![u] = Idle]
    BY <1>4 DEF WriteMessage
  <2>2. read \in Conversations /\ req[u].draft \in Drafts /\ req[u].saved \in Facts
    BY <1>2 DEF Calls
  <2>3. ASSUME NEW row \in Conversations
        PROVE  written(row) \in Conversations /\ written(row).status = "running"
    <3>1. draft(row) \in Drafts /\ context(row) \in Facts
      BY <2>2 DEF Conversations
    <3> HIDE DEF draft, context
    <3> QED
      BY <3>1 DEF Conversations
  <2>4. ConvInv' /\ conv'.status = "running"
    <3> HIDE DEF written
    <3> QED
      BY <1>2, <2>1, <2>2, <2>3 DEF ConvInv
  <2>5. turn' \in Turns /\ turn'.pc = "queued"
    BY <2>1, InitialTypes DEF Turns
  <2>6. TurnInv'
    BY <1>1, <2>4, <2>5 DEF TypeInv, TurnInv, Active
  <2>7. \A v \in Tabs : req'[v] = IF v = u THEN Idle ELSE req[v]
    BY <2>1 DEF TypeInv, ReqInv
  <2>8. ReqInv'
    BY <1>2, <2>1, <2>7 DEF TypeInv, ReqInv
  <2>9. writer = NoTab
    BY <2>1, TabsAssumption DEF CanWrite, TypeInv, WriterInv
  <2>10. \A v \in Tabs : req'[v].pc # "confirming"
    BY <1>2, <2>7, <2>9, TabsAssumption DEF TypeInv, WriterInv
  <2>11. WriterInv'
    BY <1>1, <2>9, <2>10 DEF WriterInv
  <2> QED
    BY <1>1, <2>4, <2>6, <2>8, <2>11 DEF TypeInv
<1> QED
  BY <1>3, <1>4

LEMMA EditTypes ==
    ASSUME TypeInv, NEW u \in Tabs,
           EditDraft(u) \/ ApplyProposal(u) \/ WriteEdit(u) \/ DropProposal(u)
    PROVE  TypeInv'
<1>1. /\ UNCHANGED <<turn, writer, rows, files, approval, plans, batches, disturbed, outdated>>
      /\ FactsInv' /\ PlansInv'
  BY DEF EditDraft, ApplyProposal, Edit, WriteEdit, DropProposal, TypeInv, FactsInv, PlansInv
<1>2. req[u] \in Calls /\ conv \in Conversations /\ audit \in Conversations
  BY DEF TypeInv, ReqInv, ConvInv
<1>3. ASSUME NEW tasks \in SUBSET Tasks, NEW next \in {"editing", "applying"}, Edit(u, tasks, next)
      PROVE  TypeInv'
  <2> DEFINE d == [tasks |-> tasks, context |-> conv.context]
             r == [Idle EXCEPT !.pc = next, !.row = conv, !.draft = d]
  <2>1. req' = [req EXCEPT ![u] = r] /\ req[u] = Idle /\ UNCHANGED <<conv, audit>>
    BY <1>3 DEF Edit
  <2>2. d \in Drafts
    BY <1>2 DEF Conversations, Drafts
  <2> HIDE DEF d
  <2>3. r \in Calls /\ r.pc # "confirming" /\ Idle.pc # "confirming"
    BY <1>2, <2>2, InitialTypes DEF Calls, Idle
  <2>4. ConvInv'
    BY <1>2, <2>1 DEF ConvInv
  <2> HIDE DEF r
  <2> QED
    BY <1>1, <2>1, <2>3, <2>4, CallGoesOn
<1>4. CASE EditDraft(u)
  BY <1>3, <1>4 DEF EditDraft
<1>5. CASE ApplyProposal(u)
  BY <1>2, <1>3, <1>5 DEF ApplyProposal, Conversations
<1>6. CASE WriteEdit(u)
  <2> DEFINE r == IF req[u].pc = "editing" THEN Idle ELSE [Idle EXCEPT !.pc = "dropping"]
  <2>1. /\ req[u].pc \in {"editing", "applying"}
        /\ conv' = [conv EXCEPT !.draft = req[u].draft]
        /\ audit' = [req[u].row EXCEPT !.draft = req[u].draft]
        /\ req' = [req EXCEPT ![u] = r]
    BY <1>6 DEF WriteEdit
  <2>2. req[u].draft \in Drafts /\ req[u].row \in Conversations
    BY <1>2 DEF Calls
  <2>3. ConvInv' /\ conv'.status = conv.status
    BY <1>2, <2>1, <2>2 DEF ConvInv, Conversations
  <2>4. r \in Calls /\ r.pc # "confirming"
    BY InitialTypes DEF Calls, Idle
  <2> HIDE DEF r
  <2> QED
    BY <1>1, <2>1, <2>3, <2>4, CallGoesOn
<1>7. CASE DropProposal(u)
  <2>1. /\ req[u].pc = "dropping" \/ req[u] = Idle
        /\ conv' = [conv EXCEPT !.proposals = {}] /\ audit' = audit
        /\ req' = [req EXCEPT ![u] = Idle]
    BY <1>7 DEF DropProposal
  <2>2. ConvInv' /\ conv'.status = conv.status
    BY <1>2, <2>1 DEF ConvInv, Conversations
  <2>3. Idle \in Calls /\ Idle.pc # "confirming"
    BY InitialTypes DEF Idle
  <2> QED
    BY <1>1, <2>1, <2>2, <2>3, CallGoesOn
<1> QED
  BY <1>4, <1>5, <1>6, <1>7

LEMMA StartConfirmTypes ==
    ASSUME TypeInv, NEW u \in Tabs, StartConfirm(u)
    PROVE  TypeInv'
<1> DEFINE todo == Registered(conv.draft.tasks)
           r == [Idle EXCEPT !.pc = "confirming", !.draft = conv.draft, !.todo = todo, !.saved = files]
<1>1. /\ req' = [req EXCEPT ![u] = r] /\ writer' = u /\ writer = NoTab /\ ~Active
      /\ disturbed' = (disturbed \/ CopyHeld(u))
      /\ UNCHANGED <<conv, audit, turn, rows, files, approval, plans, batches, outdated>>
  BY TabsAssumption DEF StartConfirm, CanWrite, MayConfirm
<1>2. conv.draft \in Drafts /\ todo \in SUBSET NewTasks /\ files \in Facts
  BY DEF TypeInv, ConvInv, Conversations, FactsInv, Registered
<1> HIDE DEF todo
<1>3. r \in Calls /\ r.pc = "confirming"
  BY <1>2, InitialTypes DEF Calls
<1> HIDE DEF r
<1>4. \A v \in Tabs : req'[v] = IF v = u THEN r ELSE req[v]
  BY <1>1 DEF TypeInv, ReqInv
<1>5. ReqInv'
  BY <1>1, <1>3, <1>4 DEF TypeInv, ReqInv
<1>6. \A v \in Tabs \ {u} : req'[v].pc # "confirming"
  BY <1>1, <1>4, TabsAssumption DEF TypeInv, WriterInv
<1>7. WriterInv'
  BY <1>1, <1>3, <1>4, <1>6 DEF WriterInv, Active
<1>8. ConvInv' /\ TurnInv' /\ PlansInv'
  BY <1>1 DEF TypeInv, ConvInv, TurnInv, PlansInv, Active
<1>9. FactsInv'
  BY <1>1 DEF TypeInv, FactsInv, CopyHeld
<1> QED
  BY <1>5, <1>7, <1>8, <1>9 DEF TypeInv

LEMMA RegisterTypes ==
    ASSUME TypeInv, NEW u \in Tabs, NEW t \in NewTasks, Register(u, t)
    PROVE  TypeInv'
<1> DEFINE r == [req[u] EXCEPT !.todo = req[u].todo \ {t}]
<1>1. /\ req' = [req EXCEPT ![u] = r] /\ req[u].pc = "confirming"
      /\ files' = [files EXCEPT !.assets = @ \cup {t}]
      /\ disturbed' = (disturbed \/ CopyHeld(u))
      /\ UNCHANGED <<conv, audit, turn, writer, rows, approval, plans, batches, outdated>>
  BY DEF Register
<1>2. r \in Calls /\ r.pc = "confirming"
  BY <1>1 DEF TypeInv, ReqInv, Calls
<1> HIDE DEF r
<1>3. ReqInv' /\ WriterInv'
  BY <1>1, <1>2, CallReplaced
<1>4. ConvInv' /\ TurnInv' /\ PlansInv'
  BY <1>1 DEF TypeInv, ConvInv, TurnInv, PlansInv, Active
<1>5. FactsInv'
  BY <1>1 DEF TypeInv, FactsInv, CopyHeld, Facts
<1> QED
  BY <1>3, <1>4, <1>5 DEF TypeInv

LEMMA CommitConfirmTypes ==
    ASSUME TypeInv, NEW u \in Tabs, CommitConfirm(u)
    PROVE  TypeInv'
<1> DEFINE d == req[u].draft
           b == [draft |-> d, plan |-> FreePlan]
           d2 == [d EXCEPT !.context = conv.context]
           r == [Idle EXCEPT !.pc = "auditing", !.row = conv']
<1>1. /\ req[u].pc = "confirming" /\ PlanLeft
      /\ plans' = [plans EXCEPT ![FreePlan] = Confirmed(d.tasks)]
      /\ batches' = batches \cup {b}
      /\ conv' = [conv EXCEPT !.draft = d2, !.plan = FreePlan, !.status = "completed"]
      /\ rows' = [rows EXCEPT !.assets = @ \cup Registered(d.tasks)]
      /\ writer' = NoTab
      /\ req' = [req EXCEPT ![u] = r]
      /\ UNCHANGED <<audit, turn, files, approval, disturbed, outdated>>
  BY DEF CommitConfirm
<1>2. /\ d \in Drafts /\ conv \in Conversations /\ audit \in Conversations
      /\ d.tasks \in SUBSET Tasks /\ writer = u /\ ~Active
  BY <1>1 DEF TypeInv, ReqInv, ConvInv, WriterInv, Calls, Drafts
<1>3. FreePlan \in PlanIds /\ FreePlan \in 0..MaxPlans
  BY <1>1, FreePlanIsFree, BoundsAssumption DEF PlanIds
<1>4. d2 \in Drafts
  BY <1>2 DEF Drafts, Conversations
<1> HIDE DEF d2
<1>5. conv' \in Conversations /\ conv'.status = "completed"
  BY <1>1, <1>2, <1>3, <1>4 DEF Conversations
<1>6. r \in Calls /\ r.pc = "auditing"
  BY <1>5, InitialTypes DEF Calls
<1> HIDE DEF r
<1>7. \A v \in Tabs : req'[v] = IF v = u THEN r ELSE req[v]
  BY <1>1 DEF TypeInv, ReqInv
<1>8. ReqInv'
  BY <1>1, <1>6, <1>7 DEF TypeInv, ReqInv
<1>9. \A v \in Tabs : req'[v].pc # "confirming"
  BY <1>2, <1>6, <1>7 DEF TypeInv, WriterInv
<1>10. WriterInv'
  BY <1>1, <1>9 DEF WriterInv
<1>11. ConvInv'
  BY <1>1, <1>2, <1>5 DEF ConvInv
<1>12. TurnInv'
  BY <1>1, <1>2, <1>5 DEF TypeInv, TurnInv, Active
<1>13. FactsInv'
  BY <1>1 DEF TypeInv, FactsInv, Facts, Registered
<1>14. Confirmed(d.tasks) \in PlanRows
  BY <1>2 DEF Confirmed, PlanRows
<1>15. plans' \in [PlanIds -> PlanRows]
  BY <1>1, <1>14 DEF TypeInv, PlansInv
<1>16. PlansInv'
  BY <1>1, <1>2, <1>3, <1>15 DEF TypeInv, PlansInv
<1> QED
  BY <1>8, <1>10, <1>11, <1>12, <1>13, <1>16 DEF TypeInv

LEMMA EndConfirmTypes ==
    ASSUME TypeInv, NEW u \in Tabs, AuditConfirm(u) \/ FailConfirm(u) \/ RestoreFiles(u)
    PROVE  TypeInv'
<1>1. Idle \in Calls /\ Idle.pc # "confirming" /\ req[u] \in Calls
  BY InitialTypes DEF Idle, TypeInv, ReqInv
<1>2. CASE AuditConfirm(u)
  <2>1. /\ req[u].pc = "auditing" /\ req' = [req EXCEPT ![u] = Idle]
        /\ audit' = req[u].row \/ audit' = audit
        /\ UNCHANGED <<conv, turn, writer, rows, files, approval, plans, batches,
                       disturbed, outdated>>
    BY <1>2 DEF AuditConfirm
  <2>2. ConvInv'
    BY <1>1, <2>1 DEF TypeInv, ConvInv, Calls
  <2>3. FactsInv' /\ PlansInv'
    BY <2>1 DEF TypeInv, FactsInv, PlansInv
  <2> QED
    BY <1>1, <2>1, <2>2, <2>3, CallGoesOn
<1>3. CASE FailConfirm(u)
  <2> DEFINE r == [req[u] EXCEPT !.pc = "restoring"]
  <2>1. /\ req[u].pc = "confirming" /\ req' = [req EXCEPT ![u] = r]
        /\ writer' = IF writer = u THEN NoTab ELSE writer
        /\ UNCHANGED <<conv, audit, turn, rows, files, approval, plans, batches,
                       disturbed, outdated>>
    BY <1>3 DEF FailConfirm
  <2>2. r \in Calls /\ r.pc = "restoring"
    BY <1>1 DEF Calls
  <2> HIDE DEF r
  <2>3. \A v \in Tabs : req'[v] = IF v = u THEN r ELSE req[v]
    BY <2>1 DEF TypeInv, ReqInv
  <2>4. ReqInv'
    BY <2>1, <2>2, <2>3 DEF TypeInv, ReqInv
  <2>5. writer' = NoTab /\ \A v \in Tabs : req'[v].pc # "confirming"
    BY <2>1, <2>2, <2>3 DEF TypeInv, WriterInv
  <2>6. WriterInv'
    BY <2>5 DEF WriterInv
  <2>7. ConvInv' /\ TurnInv' /\ FactsInv' /\ PlansInv'
    BY <2>1 DEF TypeInv, ConvInv, TurnInv, FactsInv, PlansInv, Active
  <2> QED
    BY <2>4, <2>6, <2>7 DEF TypeInv
<1>4. CASE RestoreFiles(u)
  <2>1. /\ req[u].pc = "restoring" /\ req' = [req EXCEPT ![u] = Idle]
        /\ files' = req[u].saved /\ disturbed' = (disturbed \/ CopyHeld(u))
        /\ UNCHANGED <<conv, audit, turn, writer, rows, approval, plans, batches, outdated>>
    BY <1>4 DEF RestoreFiles, Restored
  <2>2. FactsInv'
    BY <1>1, <2>1 DEF TypeInv, FactsInv, CopyHeld, Calls
  <2>3. ConvInv' /\ PlansInv'
    BY <2>1 DEF TypeInv, ConvInv, PlansInv
  <2> QED
    BY <1>1, <2>1, <2>2, <2>3, CallGoesOn
<1> QED
  BY <1>2, <1>3, <1>4

LEMMA PlanTypes ==
    ASSUME TypeInv, NEW u \in Tabs, (\E p \in PlanIds : ApprovePlan(u, p)) \/ CommitPlan(u)
    PROVE  TypeInv'
<1>1. CASE \E p \in PlanIds : ApprovePlan(u, p)
  <2>1. PICK p \in PlanIds : ApprovePlan(u, p)
    BY <1>1
  <2> DEFINE r == [Idle EXCEPT !.pc = "approving", !.plan = p]
  <2>2. /\ req[u] = Idle /\ req' = [req EXCEPT ![u] = r]
        /\ UNCHANGED <<conv, audit, turn, writer, rows, files, approval, plans, batches,
                       disturbed, outdated>>
    BY <2>1 DEF ApprovePlan
  <2>a. p \in 0..MaxPlans
    BY BoundsAssumption DEF PlanIds
  <2>b. Idle \in Calls /\ Idle.pc = "idle"
    BY InitialTypes DEF Idle
  <2>3. r \in Calls /\ r.pc # "confirming" /\ Idle.pc # "confirming"
    BY <2>a, <2>b DEF Calls
  <2>4. ConvInv' /\ FactsInv' /\ PlansInv'
    BY <2>2 DEF TypeInv, ConvInv, FactsInv, PlansInv
  <2> HIDE DEF r
  <2> QED
    BY <2>2, <2>3, <2>4, CallGoesOn
<1>2. CASE CommitPlan(u)
  <2> DEFINE p == req[u].plan
             jobs == [t \in Tasks |-> plans[p].jobs[t] + IF t \in plans[p].tasks THEN 1 ELSE 0]
             r == [plans[p] EXCEPT !.status = "confirmed", !.jobs = jobs]
  <2>1. /\ req[u].pc = "approving" /\ req' = [req EXCEPT ![u] = Idle]
        /\ plans' = plans \/ plans' = [plans EXCEPT ![p] = r]
        /\ UNCHANGED <<conv, audit, turn, writer, rows, files, approval, batches,
                       disturbed, outdated>>
    BY <1>2 DEF CommitPlan, Plan
  <2>2. ASSUME p \in PlanIds
        PROVE  r \in PlanRows
    <3>1. plans[p] \in PlanRows
      BY <2>2 DEF TypeInv, PlansInv
    <3>2. jobs \in [Tasks -> Nat]
      BY <3>1 DEF PlanRows
    <3> HIDE DEF jobs
    <3> QED
      BY <3>1, <3>2 DEF PlanRows
  <2> HIDE DEF r
  <2>3. plans' \in [PlanIds -> PlanRows]
    BY <2>1, <2>2 DEF TypeInv, PlansInv
  <2>4. PlansInv'
    BY <2>1, <2>3 DEF TypeInv, PlansInv
  <2>5. ConvInv' /\ FactsInv'
    BY <2>1 DEF TypeInv, ConvInv, FactsInv
  <2>6. Idle \in Calls /\ Idle.pc # "confirming"
    BY InitialTypes DEF Idle
  <2> QED
    BY <2>1, <2>4, <2>5, <2>6, CallGoesOn
<1> QED
  BY <1>1, <1>2

LEMMA BesidesTypes ==
    ASSUME TypeInv, CreatePlan \/ FileApproval \/ RecordApproval \/ RestartApi
    PROVE  TypeInv'
<1>1. CASE CreatePlan
  <2> DEFINE r == [NoPlan EXCEPT !.status = "draft", !.tasks = OldTasks]
  <2>1. plans' = [plans EXCEPT ![FreePlan] = r]
        /\ UNCHANGED <<conv, audit, turn, req, writer, rows, files, approval, batches,
                       disturbed, outdated>>
    BY <1>1 DEF CreatePlan
  <2>2. r \in PlanRows
    BY DEF NoPlan, PlanRows, Tasks
  <2> HIDE DEF r
  <2>3. plans' \in [PlanIds -> PlanRows]
    BY <2>1, <2>2 DEF TypeInv, PlansInv
  <2> QED
    BY <2>1, <2>3 DEF TypeInv, ConvInv, TurnInv, ReqInv, WriterInv, FactsInv, PlansInv, Active
<1>2. CASE FileApproval \/ RecordApproval
  <2>1. /\ FactsInv'
        /\ UNCHANGED <<conv, audit, turn, req, writer, plans, batches, outdated>>
    BY <1>2 DEF FileApproval, RecordApproval, TypeInv, FactsInv, Facts, CopyHeld
  <2> QED
    BY <2>1 DEF TypeInv, ConvInv, TurnInv, ReqInv, WriterInv, PlansInv, Active
<1>3. CASE RestartApi
  <2>1. /\ req' = [u \in Tabs |-> Idle] /\ writer' = NoTab /\ approval' = "none"
        /\ rows' = files /\ disturbed' = FALSE
        /\ conv' = audit /\ outdated' = (outdated \/ audit # conv)
        /\ UNCHANGED <<audit, turn, files, plans, batches>>
    BY <1>3 DEF RestartApi
  <2>2. ConvInv' /\ TurnInv'
    BY <2>1 DEF TypeInv, ConvInv, TurnInv, Active
  <2>3. ReqInv'
    BY <2>1, InitialTypes DEF ReqInv
  <2>4. WriterInv'
    BY <2>1 DEF WriterInv, Idle
  <2>5. FactsInv' /\ PlansInv'
    BY <2>1 DEF TypeInv, FactsInv, PlansInv
  <2> QED
    BY <2>2, <2>3, <2>4, <2>5 DEF TypeInv
<1> QED
  BY <1>1, <1>2, <1>3

LEMMA TypeStep ==
    ASSUME TypeInv, [Next]_vars
    PROVE  TypeInv'
<1>1. CASE UNCHANGED vars
  BY <1>1 DEF vars, TypeInv, ConvInv, TurnInv, ReqInv, WriterInv, FactsInv, PlansInv, Active
<1>2. ASSUME NEW u \in Tabs, TabNext(u)
      PROVE  TypeInv'
  BY <1>2, MessageTypes, EditTypes, StartConfirmTypes, RegisterTypes, CommitConfirmTypes, EndConfirmTypes,
     PlanTypes DEF TabNext
<1> QED
  BY <1>1, <1>2, TurnTypes, BesidesTypes DEF Next

\* The state stays in its types for any number of tabs, tasks and plans; only
\* a confirmation holds the writer lock, and the conversation runs while the
\* agent has its turn, unless a scan took an older copy of it.
THEOREM TypeCorrect == Spec => []TypeOK
<1>1. TypeInv /\ [Next]_vars => TypeInv'
  BY TypeStep
<1>2. Init => TypeInv
  BY TypeInit
<1>3. TypeInv => TypeOK
  BY TypeInvImpliesTypeOK
<1> QED
  BY <1>1, <1>2, <1>3, PTL DEF Spec

-----------------------------------------------------------------------------
(* The catalog files *)

\* Between the copy of the catalog files and the end of the confirmation or
\* of the restore.
Holds(u) == req[u].pc \in {"confirming", "restoring"}

OneHolder == \A u, v \in Tabs : Holds(u) /\ Holds(v) => u = v
ApprovalsAgree == files.approved = IF approval = "filed" THEN {Media} ELSE rows.approved
AssetsAgree == (\A u \in Tabs : ~Holds(u)) => files.assets = rows.assets

\* What the holder of a copy can restore, and what it has written so far.
CopyIsGood(u) ==
    /\ Holds(u) => req[u].saved = [assets |-> rows.assets, approved |-> files.approved]
    /\ req[u].pc = "confirming" =>
          /\ req[u].todo \subseteq Registered(req[u].draft.tasks)
          /\ files.assets = rows.assets \cup (Registered(req[u].draft.tasks) \ req[u].todo)

CatalogInv ==
    ~disturbed => OneHolder /\ ApprovalsAgree /\ AssetsAgree /\ \A u \in Tabs : CopyIsGood(u)

LEMMA CatalogInit == ASSUME Init PROVE CatalogInv
<1>1. \A u \in Tabs : req[u].pc = "idle"
  BY DEF Init, Idle
<1>2. approval = "none" /\ files = rows
  BY DEF Init
<1> QED
  BY <1>1, <1>2 DEF CatalogInv, OneHolder, ApprovalsAgree, AssetsAgree, CopyIsGood, Holds

\* The catalog does not notice a step of a request that holds no copy.
LEMMA CatalogUntouched ==
    ASSUME CatalogInv, UNCHANGED <<rows, files, approval, disturbed>>,
           \A u \in Tabs : req'[u] = req[u] \/ (~Holds(u) /\ ~Holds(u)')
    PROVE  CatalogInv'
<1>1. \A u \in Tabs : Holds(u)' = Holds(u)
  BY DEF Holds
<1>2. ASSUME ~disturbed PROVE OneHolder' /\ ApprovalsAgree' /\ AssetsAgree'
  BY <1>1, <1>2 DEF CatalogInv, OneHolder, ApprovalsAgree, AssetsAgree
<1>3. ASSUME ~disturbed, NEW u \in Tabs PROVE CopyIsGood(u)'
  <2>1. CASE req'[u] = req[u]
    BY <1>1, <1>3, <2>1 DEF CatalogInv, CopyIsGood
  <2>2. CASE ~Holds(u) /\ ~Holds(u)'
    BY <2>2 DEF CopyIsGood, Holds
  <2> QED
    BY <2>1, <2>2
<1> QED
  BY <1>2, <1>3 DEF CatalogInv

LEMMA CatalogCalls ==
    ASSUME TypeInv, CatalogInv, NEW u \in Tabs, NEW r, req' = [req EXCEPT ![u] = r],
           ~Holds(u), r.pc \notin {"confirming", "restoring"},
           UNCHANGED <<rows, files, approval, disturbed>>
    PROVE  CatalogInv'
<1>1. \A v \in Tabs : req'[v] = IF v = u THEN r ELSE req[v]
  BY DEF TypeInv, ReqInv
<1>2. \A v \in Tabs : req'[v] = req[v] \/ (~Holds(v) /\ ~Holds(v)')
  BY <1>1 DEF Holds
<1> QED
  BY <1>2, CatalogUntouched

LEMMA CatalogOthers ==
    ASSUME CatalogInv,
           \/ StartTurn \/ AgentWrites \/ EndTurn \/ CreatePlan
           \/ \E tasks \in SUBSET Tasks : AgentDrafts(tasks)
    PROVE  CatalogInv'
<1>1. UNCHANGED <<req, rows, files, approval, disturbed>>
  BY DEF StartTurn, AgentWrites, EndTurn, CreatePlan, AgentDrafts
<1> QED
  BY <1>1, CatalogUntouched

LEMMA CatalogTabs ==
    ASSUME TypeInv, CatalogInv, NEW u \in Tabs,
           \/ SendMessage(u) \/ WriteMessage(u)
           \/ EditDraft(u) \/ ApplyProposal(u) \/ WriteEdit(u) \/ DropProposal(u)
           \/ AuditConfirm(u) \/ CommitPlan(u) \/ \E p \in PlanIds : ApprovePlan(u, p)
    PROVE  CatalogInv'
<1> DEFINE edit(tasks, next) == [Idle EXCEPT !.pc = next, !.row = conv,
                                    !.draft = [tasks |-> tasks, context |-> conv.context]]
           drop == [Idle EXCEPT !.pc = "dropping"]
           approve(p) == [Idle EXCEPT !.pc = "approving", !.plan = p]
<1>1. Idle.pc = "idle" /\ drop.pc = "dropping" /\ (\A p \in PlanIds : approve(p).pc = "approving")
  BY DEF Idle
<1>2. \A tasks, next : edit(tasks, next).pc = next
  BY DEF Idle
<1> HIDE DEF edit, drop, approve
<1>3. ASSUME NEW tasks, NEW next \in {"editing", "applying"}, Edit(u, tasks, next)
      PROVE  CatalogInv'
  <2>1. /\ req' = [req EXCEPT ![u] = edit(tasks, next)] /\ req[u] = Idle
        /\ UNCHANGED <<rows, files, approval, disturbed>>
    BY <1>3 DEF Edit, edit
  <2>2. ~Holds(u) /\ edit(tasks, next).pc \notin {"confirming", "restoring"}
    BY <1>1, <1>2, <2>1 DEF Holds
  <2> QED
    BY <2>1, <2>2, CatalogCalls
<1>4. CASE EditDraft(u) \/ ApplyProposal(u)
  BY <1>3, <1>4 DEF EditDraft, ApplyProposal
<1>5. CASE WriteEdit(u)
  <2> DEFINE r == IF req[u].pc = "editing" THEN Idle ELSE drop
  <2>1. /\ req' = [req EXCEPT ![u] = r] /\ req[u].pc \in {"editing", "applying"}
        /\ UNCHANGED <<rows, files, approval, disturbed>>
    BY <1>5 DEF WriteEdit, drop
  <2>2. ~Holds(u) /\ r.pc \notin {"confirming", "restoring"}
    BY <1>1, <2>1 DEF Holds
  <2> HIDE DEF r
  <2> QED
    BY <2>1, <2>2, CatalogCalls
<1>6. CASE DropProposal(u) \/ AuditConfirm(u) \/ CommitPlan(u)
  <2>1. /\ req' = [req EXCEPT ![u] = Idle]
        /\ req[u].pc \in {"dropping", "auditing", "approving"} \/ req[u] = Idle
        /\ UNCHANGED <<rows, files, approval, disturbed>>
    BY <1>6 DEF DropProposal, AuditConfirm, CommitPlan
  <2>2. ~Holds(u) /\ Idle.pc \notin {"confirming", "restoring"}
    BY <1>1, <2>1 DEF Holds
  <2> QED
    BY <2>1, <2>2, CatalogCalls
<1>7. CASE \E p \in PlanIds : ApprovePlan(u, p)
  <2>1. PICK p \in PlanIds : ApprovePlan(u, p)
    BY <1>7
  <2>2. /\ req' = [req EXCEPT ![u] = approve(p)] /\ req[u] = Idle
        /\ UNCHANGED <<rows, files, approval, disturbed>>
    BY <2>1 DEF ApprovePlan, approve
  <2>3. ~Holds(u) /\ approve(p).pc \notin {"confirming", "restoring"}
    BY <1>1, <2>2 DEF Holds
  <2> QED
    BY <2>2, <2>3, CatalogCalls
<1>8. CASE SendMessage(u)
  <2> DEFINE r == [Idle EXCEPT !.pc = "sending", !.row = conv,
                               !.draft = MessageDraft, !.saved = rows]
  <2>1. /\ req' = [req EXCEPT ![u] = r] /\ req[u] = Idle
        /\ UNCHANGED <<rows, files, approval, disturbed>>
    BY <1>8 DEF SendMessage
  <2>2. ~Holds(u) /\ r.pc \notin {"confirming", "restoring"}
    BY <1>1, <2>1 DEF Holds, Idle
  <2> HIDE DEF r
  <2> QED
    BY <2>1, <2>2, CatalogCalls
<1>9. CASE WriteMessage(u)
  <2>1. /\ req' = [req EXCEPT ![u] = Idle] /\ req[u].pc = "sending"
        /\ UNCHANGED <<rows, files, approval, disturbed>>
    BY <1>9 DEF WriteMessage
  <2>2. ~Holds(u) /\ Idle.pc \notin {"confirming", "restoring"}
    BY <1>1, <2>1 DEF Holds
  <2> QED
    BY <2>1, <2>2, CatalogCalls
<1> QED
  BY <1>4, <1>5, <1>6, <1>7, <1>8, <1>9

\* When a file is written undisturbed, nobody else holds a copy.
LEMMA CatalogStart ==
    ASSUME TypeInv, CatalogInv, NEW u \in Tabs, StartConfirm(u)
    PROVE  CatalogInv'
<1> SUFFICES ASSUME ~disturbed'
             PROVE  OneHolder' /\ ApprovalsAgree' /\ AssetsAgree' /\ \A v \in Tabs : CopyIsGood(v)'
  BY DEF CatalogInv
<1> DEFINE r == [Idle EXCEPT !.pc = "confirming", !.draft = conv.draft,
                             !.todo = Registered(conv.draft.tasks), !.saved = files]
<1>1. /\ req' = [req EXCEPT ![u] = r] /\ req[u] = Idle
      /\ ~disturbed /\ ~CopyHeld(u) /\ UNCHANGED <<rows, files, approval>>
  BY DEF StartConfirm
<1>2. /\ r.pc = "confirming" /\ r.draft = conv.draft /\ r.saved = files
      /\ r.todo = Registered(conv.draft.tasks)
  BY DEF Idle
<1> HIDE DEF r
<1>3. \A v \in Tabs : req'[v] = IF v = u THEN r ELSE req[v]
  BY <1>1 DEF TypeInv, ReqInv
<1>4. \A v \in Tabs : ~Holds(v)
  BY <1>1 DEF CopyHeld, Holds, Idle
<1>5. \A v \in Tabs \ {u} : ~Holds(v)'
  BY <1>3, <1>4 DEF Holds
<1>6. ApprovalsAgree' /\ files.assets = rows.assets
  BY <1>1, <1>4 DEF CatalogInv, ApprovalsAgree, AssetsAgree
<1>7. files = [assets |-> rows.assets, approved |-> files.approved]
  BY <1>6 DEF TypeInv, FactsInv, Facts
<1>8. CopyIsGood(u)'
  <2>1. req'[u].saved = [assets |-> rows'.assets, approved |-> files'.approved]
    BY <1>1, <1>2, <1>3, <1>7
  <2>2. /\ req'[u].todo = Registered(req'[u].draft.tasks)
        /\ files'.assets = rows'.assets
    BY <1>1, <1>2, <1>3, <1>6
  <2> QED
    BY <2>1, <2>2 DEF CopyIsGood
<1>9. \A v \in Tabs \ {u} : CopyIsGood(v)'
  BY <1>5 DEF CopyIsGood, Holds
<1>10. Holds(u)'
  BY <1>2, <1>3 DEF Holds
<1> QED
  BY <1>5, <1>6, <1>8, <1>9, <1>10 DEF OneHolder, AssetsAgree

LEMMA CatalogRegister ==
    ASSUME TypeInv, CatalogInv, NEW u \in Tabs, NEW t \in NewTasks, Register(u, t)
    PROVE  CatalogInv'
<1> SUFFICES ASSUME ~disturbed'
             PROVE  OneHolder' /\ ApprovalsAgree' /\ AssetsAgree' /\ \A v \in Tabs : CopyIsGood(v)'
  BY DEF CatalogInv
<1> DEFINE r == [req[u] EXCEPT !.todo = req[u].todo \ {t}]
<1>1. /\ req[u].pc = "confirming" /\ t \in req[u].todo
      /\ files' = [files EXCEPT !.assets = @ \cup {t}]
      /\ req' = [req EXCEPT ![u] = r]
      /\ ~disturbed /\ ~CopyHeld(u) /\ UNCHANGED <<rows, approval>>
  BY DEF Register
<1>2. /\ r.pc = "confirming" /\ r.draft = req[u].draft /\ r.saved = req[u].saved
      /\ r.todo = req[u].todo \ {t}
  BY <1>1 DEF TypeInv, ReqInv, Calls
<1> HIDE DEF r
<1>3. \A v \in Tabs : req'[v] = IF v = u THEN r ELSE req[v]
  BY <1>1 DEF TypeInv, ReqInv
<1>4. files'.assets = files.assets \cup {t} /\ files'.approved = files.approved
  BY <1>1 DEF TypeInv, FactsInv, Facts
<1>5. \A v \in Tabs \ {u} : ~Holds(v)'
  BY <1>1, <1>3 DEF CopyHeld, Holds
<1>6. Holds(u) /\ Holds(u)'
  BY <1>1, <1>2, <1>3 DEF Holds
<1>7. ApprovalsAgree'
  BY <1>1, <1>4 DEF CatalogInv, ApprovalsAgree
<1>8. CopyIsGood(u)'
  <2> DEFINE todo == req[u].todo
             new == Registered(req[u].draft.tasks)
  <2>1. /\ req[u].saved = [assets |-> rows.assets, approved |-> files.approved]
        /\ todo \subseteq new /\ files.assets = rows.assets \cup (new \ todo)
    BY <1>1, <1>6 DEF CatalogInv, CopyIsGood
  <2>2. req'[u].saved = [assets |-> rows'.assets, approved |-> files'.approved]
    BY <1>1, <1>2, <1>3, <1>4, <2>1
  <2>3. req'[u].todo = todo \ {t} /\ Registered(req'[u].draft.tasks) = new
    BY <1>2, <1>3
  <2> HIDE DEF todo, new
  <2>4. t \in todo
    BY <1>1 DEF todo
  <2>5. files'.assets = rows'.assets \cup (new \ (todo \ {t})) /\ todo \ {t} \subseteq new
    BY <1>1, <1>4, <2>1, <2>4
  <2> QED
    BY <2>2, <2>3, <2>5 DEF CopyIsGood
<1>9. \A v \in Tabs \ {u} : CopyIsGood(v)'
  BY <1>5 DEF CopyIsGood, Holds
<1> QED
  BY <1>5, <1>6, <1>7, <1>8, <1>9 DEF OneHolder, AssetsAgree

\* The commit makes the rows what the files are already.
LEMMA CatalogCommit ==
    ASSUME TypeInv, CatalogInv, NEW u \in Tabs, CommitConfirm(u)
    PROVE  CatalogInv'
<1> SUFFICES ASSUME ~disturbed'
             PROVE  OneHolder' /\ ApprovalsAgree' /\ AssetsAgree' /\ \A v \in Tabs : CopyIsGood(v)'
  BY DEF CatalogInv
<1> DEFINE r == [Idle EXCEPT !.pc = "auditing", !.row = conv']
           new == Registered(req[u].draft.tasks)
<1>1. /\ req[u].pc = "confirming" /\ req[u].todo = {}
      /\ rows' = [rows EXCEPT !.assets = @ \cup new]
      /\ req' = [req EXCEPT ![u] = r]
      /\ ~disturbed /\ UNCHANGED <<files, approval>>
  BY DEF CommitConfirm
<1>2. r.pc = "auditing"
  BY DEF Idle
<1> HIDE DEF r
<1>3. \A v \in Tabs : req'[v] = IF v = u THEN r ELSE req[v]
  BY <1>1 DEF TypeInv, ReqInv
<1>4. files.assets = rows.assets \cup new
  BY <1>1 DEF CatalogInv, CopyIsGood
<1> HIDE DEF new
<1>5. rows'.assets = rows.assets \cup new /\ rows'.approved = rows.approved
  BY <1>1 DEF TypeInv, FactsInv, Facts
<1>6. \A v \in Tabs : ~Holds(v)'
  BY <1>1, <1>2, <1>3 DEF CatalogInv, OneHolder, Holds
<1>7. ApprovalsAgree' /\ AssetsAgree'
  BY <1>1, <1>4, <1>5 DEF CatalogInv, ApprovalsAgree, AssetsAgree
<1> QED
  BY <1>6, <1>7 DEF OneHolder, CopyIsGood, Holds

LEMMA CatalogFails ==
    ASSUME TypeInv, CatalogInv, NEW u \in Tabs, FailConfirm(u)
    PROVE  CatalogInv'
<1> SUFFICES ASSUME ~disturbed'
             PROVE  OneHolder' /\ ApprovalsAgree' /\ AssetsAgree' /\ \A v \in Tabs : CopyIsGood(v)'
  BY DEF CatalogInv
<1> DEFINE r == [req[u] EXCEPT !.pc = "restoring"]
<1>1. /\ req[u].pc = "confirming" /\ req' = [req EXCEPT ![u] = r]
      /\ ~disturbed /\ UNCHANGED <<rows, files, approval>>
  BY DEF FailConfirm
<1>2. r.pc = "restoring" /\ r.saved = req[u].saved
  BY <1>1 DEF TypeInv, ReqInv, Calls
<1> HIDE DEF r
<1>3. \A v \in Tabs : req'[v] = IF v = u THEN r ELSE req[v]
  BY <1>1 DEF TypeInv, ReqInv
<1>4. \A v \in Tabs : Holds(v)' = Holds(v)
  BY <1>1, <1>2, <1>3 DEF Holds
<1>5. OneHolder' /\ ApprovalsAgree' /\ AssetsAgree'
  BY <1>1, <1>4 DEF CatalogInv, OneHolder, ApprovalsAgree, AssetsAgree
<1>6. CopyIsGood(u)'
  BY <1>1, <1>2, <1>3 DEF CatalogInv, CopyIsGood, Holds
<1>7. ASSUME NEW v \in Tabs \ {u} PROVE CopyIsGood(v)'
  BY <1>1, <1>3, <1>4 DEF CatalogInv, CopyIsGood
<1> QED
  BY <1>5, <1>6, <1>7

LEMMA CatalogRestores ==
    ASSUME TypeInv, CatalogInv, NEW u \in Tabs, RestoreFiles(u)
    PROVE  CatalogInv'
<1> SUFFICES ASSUME ~disturbed'
             PROVE  OneHolder' /\ ApprovalsAgree' /\ AssetsAgree' /\ \A v \in Tabs : CopyIsGood(v)'
  BY DEF CatalogInv
<1>1. /\ req[u].pc = "restoring" /\ req' = [req EXCEPT ![u] = Idle] /\ files' = req[u].saved
      /\ ~disturbed /\ ~CopyHeld(u) /\ UNCHANGED <<rows, approval>>
  BY DEF RestoreFiles, Restored
<1>2. \A v \in Tabs : req'[v] = IF v = u THEN Idle ELSE req[v]
  BY <1>1 DEF TypeInv, ReqInv
<1>3. \A v \in Tabs : ~Holds(v)'
  BY <1>1, <1>2 DEF CopyHeld, Holds, Idle
<1>4. files'.assets = rows.assets /\ files'.approved = files.approved
  BY <1>1 DEF CatalogInv, CopyIsGood, Holds
<1>5. ApprovalsAgree' /\ AssetsAgree'
  BY <1>1, <1>4 DEF CatalogInv, ApprovalsAgree, AssetsAgree
<1> QED
  BY <1>3, <1>5 DEF OneHolder, CopyIsGood, Holds

\* Approvals write their file before their rows; a start scans the files.
LEMMA CatalogBesides ==
    ASSUME TypeInv, CatalogInv, FileApproval \/ RecordApproval \/ RestartApi
    PROVE  CatalogInv'
<1> SUFFICES ASSUME ~disturbed'
             PROVE  OneHolder' /\ ApprovalsAgree' /\ AssetsAgree' /\ \A v \in Tabs : CopyIsGood(v)'
  BY DEF CatalogInv
<1>1. CASE FileApproval
  <2>1. /\ approval' = "filed" /\ files' = [files EXCEPT !.approved = {Media}]
        /\ ~disturbed /\ ~CopyHeld(NoTab) /\ UNCHANGED <<req, rows>>
    BY <1>1 DEF FileApproval
  <2>2. \A v \in Tabs : ~Holds(v) /\ ~Holds(v)'
    BY <2>1, TabsAssumption DEF CopyHeld, Holds
  <2>3. files'.assets = files.assets /\ files'.approved = {Media}
    BY <2>1 DEF TypeInv, FactsInv, Facts
  <2>4. ApprovalsAgree' /\ AssetsAgree'
    BY <2>1, <2>2, <2>3 DEF CatalogInv, ApprovalsAgree, AssetsAgree
  <2> QED
    BY <2>2, <2>4 DEF OneHolder, CopyIsGood, Holds
<1>2. CASE RecordApproval
  <2>1. /\ approval = "filed" /\ approval' = "none" /\ rows' = [rows EXCEPT !.approved = {Media}]
        /\ ~disturbed /\ UNCHANGED <<req, files>>
    BY <1>2 DEF RecordApproval
  <2>2. rows'.assets = rows.assets /\ rows'.approved = {Media}
    BY <2>1 DEF TypeInv, FactsInv, Facts
  <2>3. \A v \in Tabs : Holds(v)' = Holds(v)
    BY <2>1 DEF Holds
  <2>4. OneHolder' /\ ApprovalsAgree' /\ AssetsAgree'
    BY <2>1, <2>2, <2>3 DEF CatalogInv, OneHolder, ApprovalsAgree, AssetsAgree
  <2>5. ASSUME NEW v \in Tabs PROVE CopyIsGood(v)'
    BY <2>1, <2>2, <2>3 DEF CatalogInv, CopyIsGood
  <2> QED
    BY <2>4, <2>5
<1>3. CASE RestartApi
  <2>1. req' = [v \in Tabs |-> Idle] /\ approval' = "none" /\ rows' = files' /\ files' = files
    BY <1>3 DEF RestartApi
  <2>2. \A v \in Tabs : ~Holds(v)'
    BY <2>1 DEF Holds, Idle
  <2> QED
    BY <2>1, <2>2 DEF OneHolder, ApprovalsAgree, AssetsAgree, CopyIsGood, Holds
<1> QED
  BY <1>1, <1>2, <1>3

LEMMA CatalogStep ==
    ASSUME TypeInv, CatalogInv, [Next]_vars
    PROVE  CatalogInv'
<1>1. CASE UNCHANGED vars
  BY <1>1, CatalogUntouched DEF vars
<1>2. ASSUME NEW u \in Tabs, TabNext(u)
      PROVE  CatalogInv'
  BY <1>2, CatalogTabs, CatalogStart, CatalogRegister, CatalogCommit, CatalogFails,
     CatalogRestores DEF TabNext
<1> QED
  BY <1>1, <1>2, CatalogOthers, CatalogBesides DEF Next

\* When nothing is under way, the catalog files and the rows name the same
\* assets and approvals, whatever failed and wherever the API was stopped,
\* unless a file was written while somebody held a copy of the files.
THEOREM FilesAndRowsAgree == Spec => []CatalogAgrees
<1>1. TypeInv /\ CatalogInv /\ [Next]_vars => TypeInv' /\ CatalogInv'
  BY TypeStep, CatalogStep
<1>2. Init => TypeInv /\ CatalogInv
  BY TypeInit, CatalogInit
<1>3. TypeInv /\ CatalogInv => CatalogAgrees
  <2> SUFFICES ASSUME TypeInv, CatalogInv, Quiet, ~disturbed
               PROVE  files = rows
    BY DEF CatalogAgrees
  <2>1. files.assets = rows.assets /\ files.approved = rows.approved
    BY DEF CatalogInv, ApprovalsAgree, AssetsAgree, Quiet, Holds
  <2> QED
    BY <2>1 DEF TypeInv, FactsInv, Facts
<1> QED
  BY <1>1, <1>2, <1>3, PTL DEF Spec

\* The agent's draft replaces the conversation's only while that is the one
\* the turn started from.
THEOREM AgentSparesEdits == Spec => AgentKeepsEdits
<1>1. ASSUME TypeInv, [Next]_vars, turn.pc = "proposing", turn'.pc = "planning",
             conv'.draft # conv.draft, turn.row.draft = conv.draft
      PROVE  conv.draft = turn.base
  <2>1. CASE AgentWrites
    <3>1. conv' = IF Kept THEN [conv EXCEPT !.proposals = {turn.offer}]
                  ELSE [conv EXCEPT !.draft = [tasks |-> turn.offer, context |-> turn.row.context]]
      BY <2>1 DEF AgentWrites
    <3>2. ~Kept
      BY <1>1, <3>1 DEF TypeInv, ConvInv, Conversations
    <3> QED
      BY <1>1, <3>2 DEF Kept
  <2>2. ASSUME NEW u \in Tabs, WriteMessage(u)
        PROVE  turn'.pc # "planning"
    BY <2>2 DEF WriteMessage, NoTurn
  <2>3. CASE StartTurn \/ EndTurn \/ \E tasks \in SUBSET Tasks : AgentDrafts(tasks)
    BY <1>1, <2>3 DEF StartTurn, EndTurn, AgentDrafts
  <2>4. CASE CreatePlan \/ FileApproval \/ RecordApproval \/ RestartApi \/ UNCHANGED vars
    BY <1>1, <2>4 DEF CreatePlan, FileApproval, RecordApproval, RestartApi, vars
  <2>5. ASSUME NEW u \in Tabs, TabNext(u), ~WriteMessage(u)
        PROVE  turn' = turn
    BY <2>5 DEF TabNext, SendMessage, EditDraft, ApplyProposal, Edit, WriteEdit, DropProposal, StartConfirm,
                Register, CommitConfirm, AuditConfirm, FailConfirm, RestoreFiles, ApprovePlan,
                CommitPlan
  <2> QED
    BY <1>1, <2>1, <2>2, <2>3, <2>4, <2>5 DEF Next
<1>2. TypeInv /\ [Next]_vars
        => (turn.pc = "proposing" /\ turn'.pc = "planning" /\ conv'.draft # conv.draft
               /\ turn.row.draft = conv.draft
            => conv.draft = turn.base)
  BY <1>1
<1>3. TypeInv /\ [Next]_vars => TypeInv'
  BY TypeStep
<1>4. Init => TypeInv
  BY TypeInit
<1> QED
  BY <1>2, <1>3, <1>4, PTL DEF Spec, AgentKeepsEdits

=============================================================================
