------------------------ MODULE PlanningQueueProofs ------------------------
(***************************************************************************)
(* What the queue of planning attempts keeps, for every number of turns,   *)
(* questions and troubles and every limit of attempts.                     *)
(***************************************************************************)
EXTENDS PlanningQueue, FiniteSetTheorems, SequenceTheorems, WellFoundedInduction, TLAPS

-----------------------------------------------------------------------------
(* The invariant *)

Open(d, i) == d.attempts[i].status \in {"queued", "running"}
Autos(d, t) == {i \in AttemptsOf(d, t) : d.attempts[i].auto}

\* Types of the rows; attempts and questions are of turns that exist, and only
\* a running attempt has a lease that can lapse.
RowsOK(d) ==
    /\ d \in Sessions
    /\ Len(d.turns) <= MaxTurns /\ Len(d.inputs) <= MaxQuestions
    /\ \A i \in DOMAIN d.attempts :
          /\ d.attempts[i].turn \in DOMAIN d.turns
          /\ d.attempts[i].lapsed => d.attempts[i].status = "running"
    /\ \A i \in DOMAIN d.inputs : d.inputs[i].turn \in DOMAIN d.turns

\* The first attempt of a turn is one the user asked for.
AskedFor(d) ==
    \A i \in DOMAIN d.attempts :
        \E j \in AttemptsOf(d, d.attempts[i].turn) : ~d.attempts[j].auto

AutosBounded(d) == \A t \in DOMAIN d.turns : Cardinality(Autos(d, t)) < AttemptLimit

DbInv(d) == RowsOK(d) /\ AskedFor(d) /\ AutosBounded(d)

\* A turn with an open attempt is not settled.
OpenUnsettled(d) ==
    \A i \in DOMAIN d.attempts :
        Open(d, i) => d.turns[d.attempts[i].turn] \in {"queued", "recovering"}

CommandInv ==
    /\ commands \in Seq(CommandRows)
    /\ \A c \in DOMAIN commands :
          commands[c].kind = "answer_input" => commands[c].input \in DOMAIN db.inputs

WorkerInv ==
    /\ worker \in [pc : {"down", "failed", "expire", "retry", "retrying", "claim", "beat",
                         "commands"},
                   waits : {"no", "interrupt", "clear", "answer"}]
    /\ worker.waits # "no" => Latest(db) # 0 /\ worker.pc = "commands"

TaskInv ==
    /\ task \in [turn : 0..MaxTurns, event : BOOLEAN, killed : BOOLEAN,
                 pc : {"none", "starting", "streaming", "closing", "ending"}]
    /\ HasTask => task.turn \in DOMAIN db.turns

\* What a request to stop has read.
StopInv ==
    /\ stopping \in [turn : 0..MaxTurns, attempts : SUBSET (DOMAIN db.attempts)]
    /\ stopping # NoStop =>
          /\ stopping.turn \in DOMAIN db.turns /\ stopping.attempts # {}
          /\ \A i \in stopping.attempts : db.attempts[i].turn = stopping.turn

\* What a recovery has read: unless an attempt was added since, its turn has
\* none that is open.
ReadOK(who) ==
    LET r == recovering[who]
    IN  r # NoRecovery =>
          /\ r.turn \in DOMAIN db.turns
          /\ Cardinality(AttemptsOf(db, r.turn)) >= r.attempts
          /\ OpenAttempts(db, r.turn) # {} => Outrun(who)

\* The worker has read a turn that failed, and that it may start once more.
RetryOK ==
    LET r == recovering["worker"]
    IN  r # NoRecovery =>
          /\ worker.pc = "retrying"
          /\ AttemptsOf(db, r.turn) # {} /\ Cardinality(Autos(db, r.turn)) + 1 < AttemptLimit
          /\ ~lateStop /\ ~Outrun("worker") => db.turns[r.turn] \notin {"completed", "cancelled"}

Recoveries == [turn : 0..MaxTurns, columns : SUBSET Columns, attempts : Nat]

RecoverInv ==
    /\ recovering \in [{"user", "worker"} -> Recoveries]
    /\ ReadOK("user") /\ ReadOK("worker") /\ RetryOK

HistoryInv ==
    /\ stopped \subseteq Turns /\ lateStop \in BOOLEAN /\ lateRecovery \in BOOLEAN
    /\ troubles \in 0..MaxTroubles

IInv ==
    /\ DbInv(db) /\ (~lateStop /\ ~lateRecovery => OpenUnsettled(db))
    /\ CommandInv /\ WorkerInv /\ TaskInv /\ StopInv /\ RecoverInv /\ HistoryInv

-----------------------------------------------------------------------------
(* Sequences and sets of indexes *)

\* A sequence whose elements are replaced one for one.
LEMMA Replaced ==
    ASSUME NEW S, NEW s \in Seq(S), NEW f \in [DOMAIN s -> S]
    PROVE  f \in Seq(S) /\ Len(f) = Len(s) /\ DOMAIN f = DOMAIN s
<1>1. Len(s) \in Nat /\ DOMAIN s = 1..Len(s)
  OBVIOUS
<1>2. f \in [1..Len(s) -> S]
  BY <1>1
<1>3. f \in Seq(S)
  BY <1>1, <1>2, SeqDef
<1> QED
  BY <1>1, <1>2, <1>3

LEMMA IndexesFinite ==
    ASSUME NEW S, NEW s \in Seq(S), NEW I, I \subseteq DOMAIN s
    PROVE  IsFiniteSet(I) /\ Cardinality(I) \in Nat
<1>1. Len(s) \in Nat /\ DOMAIN s = 1..Len(s)
  OBVIOUS
<1>2. IsFiniteSet(1..Len(s))
  BY <1>1, FS_Interval
<1> QED
  BY <1>1, <1>2, FS_Subset, FS_CardinalityType

\* A set of indexes that is not empty has a first.
LEMMA FirstIndex ==
    ASSUME NEW I \in SUBSET Nat, I # {}
    PROVE  LET first == CHOOSE i \in I : \A j \in I : i <= j
           IN  first \in I /\ \A j \in I : first <= j
<1>1. PICK i \in I : \A j \in I : ~(<<j, i>> \in OpToRel(<, Nat))
  BY WFMin, NatLessThanWellFounded
<1>2. \A j \in I : i <= j
  <2>1. \A j \in I : j \in Nat /\ i \in Nat /\ ~(j < i)
    BY <1>1 DEF OpToRel
  <2> QED
    BY <2>1
<1> QED
  BY <1>2

-----------------------------------------------------------------------------
(* What the operations on rows keep *)

\* Nothing of the conversation is ever deleted, and no attempt is opened again.
Grows(d, e) ==
    /\ Len(d.turns) <= Len(e.turns) /\ Len(d.attempts) <= Len(e.attempts)
    /\ Len(d.inputs) <= Len(e.inputs)
    /\ \A i \in DOMAIN d.attempts :
          e.attempts[i].turn = d.attempts[i].turn /\ (Open(e, i) => Open(d, i))

\* No attempt is added or opened.
OnlyCloses(d, e) ==
    /\ Len(e.turns) = Len(d.turns) /\ Len(e.attempts) = Len(d.attempts)
    /\ \A i \in DOMAIN d.attempts :
          /\ e.attempts[i].turn = d.attempts[i].turn /\ e.attempts[i].auto = d.attempts[i].auto
          /\ Open(e, i) => Open(d, i)

LEMMA RowsDomains ==
    ASSUME NEW d, d \in Sessions
    PROVE  /\ Len(d.turns) \in Nat /\ Len(d.attempts) \in Nat /\ Len(d.inputs) \in Nat
           /\ DOMAIN d.turns = 1..Len(d.turns) /\ DOMAIN d.attempts = 1..Len(d.attempts)
           /\ DOMAIN d.inputs = 1..Len(d.inputs)
           /\ \A i \in DOMAIN d.attempts : d.attempts[i] \in AttemptRows
           /\ \A i \in DOMAIN d.inputs : d.inputs[i] \in InputRows
           /\ \A t \in DOMAIN d.turns : d.turns[t] \in TurnStatuses
BY DEF Sessions

LEMMA ClosingKeeps ==
    ASSUME NEW d, NEW e, DbInv(d), RowsOK(e), OnlyCloses(d, e)
    PROVE  DbInv(e)
<1>1. DOMAIN e.attempts = DOMAIN d.attempts /\ DOMAIN e.turns = DOMAIN d.turns
  BY RowsDomains DEF DbInv, RowsOK, OnlyCloses
<1>3. \A t : AttemptsOf(e, t) = AttemptsOf(d, t) /\ Autos(e, t) = Autos(d, t)
  BY <1>1 DEF AttemptsOf, Autos, OnlyCloses
<1>4. AskedFor(e)
  BY <1>1, <1>3 DEF DbInv, AskedFor, OnlyCloses, AttemptsOf
<1>5. AutosBounded(e)
  BY <1>1, <1>3 DEF DbInv, AutosBounded
<1> QED
  BY <1>4, <1>5 DEF DbInv

LEMMA ClosingUnsettled ==
    ASSUME NEW d, NEW e, DbInv(d), RowsOK(e), OnlyCloses(d, e), OpenUnsettled(d),
           \A i \in DOMAIN e.attempts :
               Open(e, i) => e.turns[e.attempts[i].turn] = d.turns[e.attempts[i].turn]
    PROVE  OpenUnsettled(e)
<1>1. DOMAIN e.attempts = DOMAIN d.attempts
  BY RowsDomains DEF DbInv, RowsOK, OnlyCloses
<1> QED
  BY <1>1 DEF OpenUnsettled, OnlyCloses

\* One of the attempts of a turn was asked for: a limit on all of them leaves the
\* worker one less.
LEMMA LimitLeavesRoom ==
    ASSUME NEW d, DbInv(d), NEW t, AttemptsOf(d, t) # {},
           Cardinality(AttemptsOf(d, t)) < AttemptLimit
    PROVE  Cardinality(Autos(d, t)) + 1 < AttemptLimit
<1>1. PICK i \in AttemptsOf(d, t) : ~d.attempts[i].auto
  <2>1. PICK k \in AttemptsOf(d, t) : TRUE
    OBVIOUS
  <2> QED
    BY <2>1 DEF DbInv, AskedFor, AttemptsOf
<1>2. /\ AttemptsOf(d, t) \subseteq DOMAIN d.attempts /\ d.attempts \in Seq(AttemptRows)
      /\ Autos(d, t) \subseteq DOMAIN d.attempts
  BY DEF AttemptsOf, Autos, DbInv, RowsOK, Sessions
<1>3. /\ IsFiniteSet(AttemptsOf(d, t)) /\ Cardinality(AttemptsOf(d, t)) \in Nat
      /\ IsFiniteSet(Autos(d, t)) /\ Cardinality(Autos(d, t)) \in Nat
  BY <1>2, IndexesFinite
<1>4. Autos(d, t) \subseteq AttemptsOf(d, t) /\ Autos(d, t) # AttemptsOf(d, t)
  BY <1>1 DEF Autos
<1>5. Cardinality(Autos(d, t)) < Cardinality(AttemptsOf(d, t))
  BY <1>3, <1>4, FS_Subset
<1> QED
  BY <1>3, <1>5, StoreAssumption

\* An attempt is added: the worker does so only below the limit, and beside an
\* attempt that was asked for.
LEMMA AddingKeeps ==
    ASSUME NEW d, NEW e, DbInv(d), RowsOK(e), NEW t \in DOMAIN e.turns, NEW auto \in BOOLEAN,
           Len(d.turns) <= Len(e.turns),
           e.attempts = Append(d.attempts, [turn |-> t, status |-> "queued",
                                            lapsed |-> FALSE, auto |-> auto]),
           auto => AttemptsOf(d, t) # {} /\ Cardinality(Autos(d, t)) + 1 < AttemptLimit
    PROVE  DbInv(e)
<1> DEFINE n == Len(d.attempts) + 1
<1>1. /\ DOMAIN d.attempts = 1..(n - 1) /\ DOMAIN e.attempts = 1..n /\ n \in Nat \ {0}
      /\ DOMAIN d.turns \subseteq DOMAIN e.turns
  BY RowsDomains DEF DbInv, RowsOK
<1>2. \A i \in DOMAIN d.attempts : e.attempts[i] = d.attempts[i]
  BY RowsDomains DEF DbInv, RowsOK, Sessions
<1>3. /\ e.attempts[n].turn = t /\ e.attempts[n].auto = auto
      /\ \A i \in DOMAIN e.attempts : i \in DOMAIN d.attempts \/ i = n
      /\ n \notin DOMAIN d.attempts
  <2>1. e.attempts[n] = [turn |-> t, status |-> "queued", lapsed |-> FALSE, auto |-> auto]
    BY DEF DbInv, RowsOK, Sessions
  <2> QED
    BY <1>1, <2>1
<1>a. n \in DOMAIN e.attempts /\ DOMAIN d.attempts \subseteq DOMAIN e.attempts
  BY <1>1
<1> HIDE DEF n
<1>5. AskedFor(e)
  <2>1. \A s : AttemptsOf(d, s) \subseteq AttemptsOf(e, s)
    BY <1>2, <1>a DEF AttemptsOf
  <2>2. ASSUME NEW i \in DOMAIN d.attempts
        PROVE  \E j \in AttemptsOf(e, e.attempts[i].turn) : ~e.attempts[j].auto
    <3>1. PICK j \in AttemptsOf(d, d.attempts[i].turn) : ~d.attempts[j].auto
      BY <2>2 DEF DbInv, AskedFor
    <3>2. j \in DOMAIN d.attempts
      BY DEF AttemptsOf
    <3> QED
      BY <1>2, <2>1, <2>2, <3>1, <3>2
  <2>3. \E j \in AttemptsOf(e, e.attempts[n].turn) : ~e.attempts[j].auto
    <3>1. CASE ~auto
      BY <1>3, <1>a, <3>1 DEF AttemptsOf
    <3>2. CASE auto
      <4>1. PICK i \in AttemptsOf(d, t) : TRUE
        BY <3>2
      <4>2. i \in DOMAIN d.attempts /\ e.attempts[i].turn = t
        BY <1>2, <4>1 DEF AttemptsOf
      <4> QED
        BY <1>3, <2>2, <4>2
    <3> QED
      BY <3>1, <3>2
  <2> QED
    BY <1>3, <2>2, <2>3 DEF AskedFor
<1>6. AutosBounded(e)
  <2> SUFFICES ASSUME NEW s \in DOMAIN e.turns
               PROVE  Cardinality(Autos(e, s)) < AttemptLimit
    BY DEF AutosBounded
  <2>1. Autos(e, s) = Autos(d, s) \cup (IF s = t /\ auto THEN {n} ELSE {})
    BY <1>2, <1>3, <1>a DEF Autos, AttemptsOf
  <2>2. Autos(d, s) \subseteq DOMAIN d.attempts /\ d.attempts \in Seq(AttemptRows)
    BY DEF Autos, AttemptsOf, DbInv, RowsOK, Sessions
  <2>3. IsFiniteSet(Autos(d, s)) /\ Cardinality(Autos(d, s)) \in Nat
    BY <2>2, IndexesFinite
  <2>4. CASE ~(s = t /\ auto)
    <3>1. CASE s \in DOMAIN d.turns
      BY <2>1, <2>4, <3>1 DEF DbInv, AutosBounded
    <3>2. CASE s \notin DOMAIN d.turns
      <4>1. Autos(e, s) = {}
        BY <2>1, <2>4, <3>2 DEF Autos, AttemptsOf, DbInv, RowsOK
      <4> QED
        BY <4>1, FS_EmptySet, StoreAssumption
    <3> QED
      BY <3>1, <3>2
  <2>5. CASE s = t /\ auto
    <3>6. n \notin Autos(d, t)
      BY <1>3 DEF Autos, AttemptsOf
    <3>7. Cardinality(Autos(e, s)) = Cardinality(Autos(d, t)) + 1
      BY <2>1, <2>3, <2>5, <3>6, FS_AddElement
    <3> QED
      BY <2>3, <2>5, <3>7, StoreAssumption
  <2> QED
    BY <2>4, <2>5
<1> QED
  BY <1>5, <1>6 DEF DbInv

LEMMA AddingUnsettled ==
    ASSUME NEW d, NEW e, DbInv(d), RowsOK(e), NEW t \in DOMAIN e.turns, NEW auto \in BOOLEAN,
           Len(d.turns) <= Len(e.turns),
           e.attempts = Append(d.attempts, [turn |-> t, status |-> "queued",
                                            lapsed |-> FALSE, auto |-> auto]),
           OpenUnsettled(d), e.turns[t] \in {"queued", "recovering"},
           \A s \in DOMAIN d.turns \ {t} : e.turns[s] = d.turns[s]
    PROVE  OpenUnsettled(e)
<1> DEFINE n == Len(d.attempts) + 1
<1>2. \A i \in DOMAIN d.attempts : e.attempts[i] = d.attempts[i] /\ d.attempts[i].turn \in DOMAIN d.turns
  BY RowsDomains DEF DbInv, RowsOK, Sessions
<1>3. e.attempts[n].turn = t /\ \A i \in DOMAIN e.attempts : i \in DOMAIN d.attempts \/ i = n
  <2>1. e.attempts[n] = [turn |-> t, status |-> "queued", lapsed |-> FALSE, auto |-> auto]
    BY DEF DbInv, RowsOK, Sessions
  <2>2. \A i \in DOMAIN e.attempts : i \in DOMAIN d.attempts \/ i = n
    BY RowsDomains DEF DbInv, RowsOK
  <2> QED
    BY <2>1, <2>2
<1> HIDE DEF n
<1> QED
  BY <1>2, <1>3 DEF OpenUnsettled, Open

-----------------------------------------------------------------------------
(* The operations *)

Fine(d, e) == DbInv(e) /\ Grows(d, e) /\ (OpenUnsettled(d) => OpenUnsettled(e))

\* Nothing but the user starts a turn again that was completed or cancelled.
Spares(d, e) ==
    \A t \in DOMAIN d.turns :
        d.turns[t] \in {"completed", "cancelled"} => e.turns[t] # "recovering"

\* What is added is the only open attempt of its turn.
Alone(d, e) ==
    \A i \in DOMAIN e.attempts \ DOMAIN d.attempts : OpenAttempts(e, e.attempts[i].turn) = {i}

Calm(d, e) == Spares(d, e) /\ Alone(d, e)

\* The worker starts no turn again.
AutosKept(d, e) ==
    \A i \in DOMAIN e.attempts : e.attempts[i].auto => i \in DOMAIN d.attempts /\ d.attempts[i].auto

LEMMA SameCalm ==
    ASSUME NEW d, NEW e, e.turns = d.turns, DOMAIN e.attempts = DOMAIN d.attempts
    PROVE  Calm(d, e)
BY DEF Calm, Spares, Alone

LEMMA AloneTwice ==
    ASSUME NEW d, NEW e, NEW g, Alone(d, e), Alone(e, g), Grows(e, g),
           DOMAIN e.attempts \subseteq DOMAIN g.attempts,
           \A k \in DOMAIN e.attempts \ DOMAIN d.attempts : Open(e, k) => Open(g, k)
    PROVE  Alone(d, g)
<1> SUFFICES ASSUME NEW i \in DOMAIN g.attempts \ DOMAIN d.attempts
             PROVE  OpenAttempts(g, g.attempts[i].turn) = {i}
  BY DEF Alone
<1>1. CASE i \notin DOMAIN e.attempts
  BY <1>1 DEF Alone
<1>2. CASE i \in DOMAIN e.attempts
  <2>1. OpenAttempts(e, e.attempts[i].turn) = {i} /\ g.attempts[i].turn = e.attempts[i].turn
    BY <1>2 DEF Alone, Grows
  <2>2. i \in OpenAttempts(g, g.attempts[i].turn)
    BY <1>2, <2>1 DEF OpenAttempts, AttemptsOf, Open
  <2>3. ASSUME NEW k \in OpenAttempts(g, g.attempts[i].turn) PROVE k = i
    <3>1. CASE k \in DOMAIN e.attempts
      BY <2>1, <3>1 DEF OpenAttempts, AttemptsOf, Open, Grows
    <3>2. CASE k \notin DOMAIN e.attempts
      <4>1. OpenAttempts(g, g.attempts[k].turn) = {k} /\ g.attempts[k].turn = g.attempts[i].turn
        BY <3>2 DEF Alone, OpenAttempts, AttemptsOf
      <4> QED
        BY <2>2, <4>1
    <3> QED
      BY <3>1, <3>2
  <2> QED
    BY <2>2, <2>3
<1> QED
  BY <1>1, <1>2

\* The conversation and its questions change, turns and attempts do not.
Reworded(d, e) ==
    /\ e \in Sessions /\ e.turns = d.turns /\ e.attempts = d.attempts
    /\ Len(e.inputs) = Len(d.inputs)
    /\ \A i \in DOMAIN d.inputs : e.inputs[i].turn = d.inputs[i].turn

LEMMA RewordedFine ==
    ASSUME NEW d, NEW e, DbInv(d), Reworded(d, e)
    PROVE  Fine(d, e) /\ Calm(d, e)
<1>1. DOMAIN e.inputs = DOMAIN d.inputs /\ d \in Sessions
  BY RowsDomains DEF DbInv, RowsOK, Reworded
<1>2. RowsOK(e)
  BY <1>1 DEF DbInv, RowsOK, Reworded
<1>3. OnlyCloses(d, e)
  BY DEF Reworded, OnlyCloses, Open
<1>4. Grows(d, e)
  BY <1>1, RowsDomains DEF Reworded, Grows, Open
<1>5. OpenUnsettled(d) => OpenUnsettled(e)
  BY DEF OpenUnsettled, Open, Reworded
<1> QED
  BY <1>2, <1>3, <1>4, <1>5, ClosingKeeps, SameCalm DEF Fine, Reworded

LEMMA StatusReworded ==
    ASSUME NEW d \in Sessions, NEW status \in RowStatuses, NEW stop \in Stops, NEW error \in Errors
    PROVE  Reworded(d, [d EXCEPT !.status = status, !.stop = stop, !.error = error])
BY DEF Sessions, Reworded

LEMMA InputsReworded ==
    ASSUME NEW d \in Sessions, NEW f \in [DOMAIN d.inputs -> InputRows],
           \A i \in DOMAIN d.inputs : f[i].turn = d.inputs[i].turn
    PROVE  Reworded(d, [d EXCEPT !.inputs = f])
<1>1. d.inputs \in Seq(InputRows)
  BY DEF Sessions
<1>2. f \in Seq(InputRows) /\ Len(f) = Len(d.inputs)
  BY <1>1, Replaced
<1> QED
  BY <1>2 DEF Sessions, Reworded

LEMMA RewordedTwice ==
    ASSUME NEW d \in Sessions, NEW e, NEW g, Reworded(d, e), Reworded(e, g)
    PROVE  Reworded(d, g)
<1>1. DOMAIN e.inputs = DOMAIN d.inputs
  BY RowsDomains DEF Reworded
<1> QED
  BY <1>1 DEF Reworded

LEMMA FallbackReworded ==
    ASSUME NEW d \in Sessions
    PROVE  /\ Reworded(d, Fallback(d))
           /\ Fallback(d).status = d.status /\ Fallback(d).stop = d.stop
           /\ Fallback(d).error = d.error
<1> DEFINE f == [i \in DOMAIN d.inputs |->
                    IF d.inputs[i].status = "pending" THEN [d.inputs[i] EXCEPT !.mode = "new_turn"]
                    ELSE d.inputs[i]]
<1>1. \A i \in DOMAIN d.inputs : f[i] \in InputRows /\ f[i].turn = d.inputs[i].turn
  BY RowsDomains DEF InputRows, Modes
<1>2. f \in [DOMAIN d.inputs -> InputRows]
  BY <1>1
<1>3. Fallback(d) = [d EXCEPT !.inputs = f]
  BY DEF Fallback
<1> HIDE DEF f
<1>4. Reworded(d, Fallback(d))
  BY <1>1, <1>2, <1>3, InputsReworded
<1> QED
  BY <1>3, <1>4 DEF Sessions

LEMMA StopReworded ==
    ASSUME NEW d \in Sessions
    PROVE  Reworded(d, Stop(d))
<1> DEFINE f == [i \in DOMAIN d.inputs |->
                    IF d.inputs[i].status = "pending" /\ d.inputs[i].mode = "resume_turn"
                    THEN [d.inputs[i] EXCEPT !.status = "cancelled"] ELSE d.inputs[i]]
           e == [d EXCEPT !.inputs = f]
<1>1. \A i \in DOMAIN d.inputs : f[i] \in InputRows /\ f[i].turn = d.inputs[i].turn
  BY RowsDomains DEF InputRows
<1>2. f \in [DOMAIN d.inputs -> InputRows]
  BY <1>1
<1>3. CASE Active(d)
  <2>1. Stop(d) = [d EXCEPT !.status = "awaiting_user", !.stop = "cancelled", !.error = "other",
                            !.inputs = f]
    BY <1>3 DEF Stop
  <2> HIDE DEF f
  <2>2. Stop(d) = [e EXCEPT !.status = "awaiting_user", !.stop = "cancelled", !.error = "other"]
    BY <2>1 DEF Sessions
  <2>3. Reworded(d, e)
    BY <1>1, <1>2, InputsReworded
  <2> HIDE DEF e
  <2>4. "awaiting_user" \in RowStatuses /\ "cancelled" \in Stops /\ "other" \in Errors
    BY DEF RowStatuses, Stops, Errors
  <2> QED
    BY <2>2, <2>3, <2>4 DEF Reworded, Sessions
<1>4. CASE ~Active(d)
  BY <1>4 DEF Stop, Reworded
<1> QED
  BY <1>3, <1>4

LEMMA ResolvedReworded ==
    ASSUME NEW d \in Sessions, NEW i
    PROVE  /\ Reworded(d, Resolved(d, i))
           /\ Resolved(d, i).stop = d.stop /\ Resolved(d, i).error = d.error
<1> DEFINE f == [d.inputs EXCEPT ![i].status = "resolved"]
<1>1. \A k \in DOMAIN d.inputs : f[k] \in InputRows /\ f[k].turn = d.inputs[k].turn
  BY RowsDomains DEF InputRows
<1>2. f \in [DOMAIN d.inputs -> InputRows]
  BY <1>1
<1>3. Resolved(d, i) = [d EXCEPT !.inputs = f]
  BY DEF Resolved
<1> HIDE DEF f
<1>4. Reworded(d, Resolved(d, i))
  BY <1>1, <1>2, <1>3, InputsReworded
<1> QED
  BY <1>3, <1>4 DEF Sessions

LEMMA FailReworded ==
    ASSUME NEW d \in Sessions, NEW error \in Errors
    PROVE  Reworded(d, Fail(d, error))
<1> DEFINE e == Fallback(d)
<1>1. Reworded(d, e)
  BY FallbackReworded
<1>2. Fail(d, error) = [e EXCEPT !.status = "awaiting_user", !.stop = "failed", !.error = error]
  BY DEF Fail
<1>3. "awaiting_user" \in RowStatuses /\ "failed" \in Stops
  BY DEF RowStatuses, Stops
<1> HIDE DEF e
<1> QED
  BY <1>1, <1>2, <1>3 DEF Reworded, Sessions

\* A question is put, beside those there are.
LEMMA AskFine ==
    ASSUME NEW d, DbInv(d), NEW t \in DOMAIN d.turns, NEW mode \in Modes,
           NEW status \in RowStatuses, Len(d.inputs) < MaxQuestions
    PROVE  LET e == [Ask(d, t, mode) EXCEPT !.status = status]
           IN  Fine(d, e) /\ Calm(d, e)
<1> DEFINE q == [turn |-> t, mode |-> mode, status |-> "pending"]
           inputs == Append(d.inputs, q)
           e == [d EXCEPT !.inputs = inputs, !.status = status]
<1>1. d \in Sessions /\ t \in Turns
  BY RowsDomains, StoreAssumption DEF DbInv, RowsOK, Turns
<1>2. q \in InputRows
  BY <1>1 DEF InputRows
<1>3. [Ask(d, t, mode) EXCEPT !.status = status] = e
  BY <1>1 DEF Ask, Sessions
<1>4. /\ inputs \in Seq(InputRows) /\ Len(inputs) = Len(d.inputs) + 1
      /\ \A i \in DOMAIN inputs : inputs[i] = IF i \in DOMAIN d.inputs THEN d.inputs[i] ELSE q
  <2>1. d.inputs \in Seq(InputRows)
    BY <1>1 DEF Sessions
  <2> HIDE DEF q
  <2> QED
    BY <1>2, <2>1
<1>5. \A i \in DOMAIN inputs : inputs[i].turn \in DOMAIN d.turns
  BY <1>4 DEF DbInv, RowsOK
<1> HIDE DEF inputs
<1>6. /\ e \in Sessions /\ e.turns = d.turns /\ e.attempts = d.attempts /\ e.inputs = inputs
  BY <1>1, <1>4 DEF Sessions
<1> HIDE DEF e
<1>7. Len(e.inputs) <= MaxQuestions /\ Len(d.inputs) <= Len(e.inputs)
  BY <1>1, <1>4, <1>6, RowsDomains, BoundsAssumption
<1>8. RowsOK(e)
  BY <1>5, <1>6, <1>7 DEF DbInv, RowsOK
<1>9. OnlyCloses(d, e) /\ Grows(d, e)
  BY <1>1, <1>6, <1>7, RowsDomains DEF OnlyCloses, Grows, Open
<1>10. OpenUnsettled(d) => OpenUnsettled(e)
  BY <1>6 DEF OpenUnsettled, Open
<1> QED
  BY <1>3, <1>6, <1>8, <1>9, <1>10, ClosingKeeps, SameCalm DEF Fine

\* Attempts are closed, or their leases and states change while they are open.
LEMMA AttemptsChanged ==
    ASSUME NEW d, DbInv(d), NEW f \in [DOMAIN d.attempts -> AttemptRows],
           \A i \in DOMAIN d.attempts :
               /\ f[i].turn = d.attempts[i].turn /\ f[i].auto = d.attempts[i].auto
               /\ f[i].status \in {"queued", "running"} => Open(d, i)
               /\ f[i].lapsed => f[i].status = "running"
    PROVE  LET e == [d EXCEPT !.attempts = f]
           IN  Fine(d, e) /\ Calm(d, e) /\ OnlyCloses(d, e) /\ e.turns = d.turns
<1> DEFINE e == [d EXCEPT !.attempts = f]
<1>1. d \in Sessions /\ d.attempts \in Seq(AttemptRows)
  BY DEF DbInv, RowsOK, Sessions
<1>2. f \in Seq(AttemptRows) /\ Len(f) = Len(d.attempts) /\ DOMAIN f = DOMAIN d.attempts
  BY <1>1, Replaced
<1>3. /\ e \in Sessions /\ e.turns = d.turns /\ e.inputs = d.inputs /\ e.attempts = f
  BY <1>1, <1>2 DEF Sessions
<1> HIDE DEF e
<1>4. RowsOK(e)
  BY <1>2, <1>3 DEF DbInv, RowsOK
<1>5. OnlyCloses(d, e)
  BY <1>2, <1>3 DEF OnlyCloses, Open
<1>6. Grows(d, e)
  BY <1>1, <1>2, <1>3, <1>5, RowsDomains DEF Grows, OnlyCloses
<1>7. OpenUnsettled(d) => OpenUnsettled(e)
  BY <1>3, <1>4, <1>5, ClosingUnsettled
<1>8. Calm(d, e)
  BY <1>2, <1>3, SameCalm
<1> QED
  BY <1>3, <1>4, <1>5, <1>6, <1>7, <1>8, ClosingKeeps DEF Fine, e

LEMMA CloseFine ==
    ASSUME NEW d, DbInv(d), NEW indexes, NEW status \in {"completed", "failed", "cancelled"}
    PROVE  LET e == Close(d, indexes, status)
           IN  /\ Fine(d, e) /\ OnlyCloses(d, e)
               /\ e = [d EXCEPT !.attempts = e.attempts] /\ e.turns = d.turns
               /\ e.inputs = d.inputs /\ e.stop = d.stop
               /\ \A i \in DOMAIN d.attempts :
                     /\ i \in indexes => ~Open(e, i)
                     /\ i \notin indexes => e.attempts[i] = d.attempts[i]
<1> DEFINE f == [i \in DOMAIN d.attempts |->
                    IF i \in indexes THEN [d.attempts[i] EXCEPT !.status = status, !.lapsed = FALSE]
                    ELSE d.attempts[i]]
           e == [d EXCEPT !.attempts = f]
<1>1. Close(d, indexes, status) = e /\ d \in Sessions
  BY DEF Close, DbInv, RowsOK
<1>2. \A i \in DOMAIN d.attempts : d.attempts[i] \in AttemptRows
  BY <1>1, RowsDomains
<1>3. \A i \in DOMAIN d.attempts :
          /\ f[i] \in AttemptRows /\ f[i].turn = d.attempts[i].turn
          /\ f[i].auto = d.attempts[i].auto
          /\ i \in indexes => f[i].status = status /\ ~f[i].lapsed
          /\ i \notin indexes => f[i] = d.attempts[i]
  BY <1>2 DEF AttemptRows, AttemptStatuses
<1>4. f \in [DOMAIN d.attempts -> AttemptRows]
  BY <1>3
<1> HIDE DEF f
<1>5. \A i \in DOMAIN d.attempts :
          /\ f[i].status \in {"queued", "running"} => Open(d, i)
          /\ f[i].lapsed => f[i].status = "running"
  BY <1>3 DEF Open, DbInv, RowsOK
<1>6. Fine(d, e) /\ OnlyCloses(d, e) /\ e.turns = d.turns
  BY <1>3, <1>4, <1>5, AttemptsChanged
<1>7. e.attempts = f /\ e.inputs = d.inputs /\ e.stop = d.stop
  BY <1>1 DEF Sessions
<1>8. \A i \in DOMAIN d.attempts :
          /\ i \in indexes => ~Open(e, i)
          /\ i \notin indexes => e.attempts[i] = d.attempts[i]
  BY <1>3, <1>7 DEF Open
<1> QED
  BY <1>1, <1>6, <1>7, <1>8

LEMMA AddedAlone ==
    ASSUME NEW d \in Sessions, NEW e, NEW t, NEW auto,
           e.attempts = Append(d.attempts, [turn |-> t, status |-> "queued",
                                            lapsed |-> FALSE, auto |-> auto]),
           OpenAttempts(d, t) = {}
    PROVE  Alone(d, e)
<1> DEFINE n == Len(d.attempts) + 1
           a == [turn |-> t, status |-> "queued", lapsed |-> FALSE, auto |-> auto]
<1>1. /\ \A i \in DOMAIN d.attempts : e.attempts[i] = d.attempts[i]
      /\ DOMAIN e.attempts = DOMAIN d.attempts \cup {n} /\ e.attempts[n] = a
  <2> HIDE DEF a
  <2>1. d.attempts \in Seq(AttemptRows) /\ e.attempts = Append(d.attempts, a)
    BY DEF Sessions, a
  <2> QED
    BY <2>1
<1>2. a.turn = t /\ a.status = "queued"
  OBVIOUS
<1> HIDE DEF n, a
<1>3. OpenAttempts(e, t) = {n}
  <2>1. ASSUME NEW i \in DOMAIN d.attempts, d.attempts[i].turn = t
        PROVE  ~Open(d, i)
    BY <2>1 DEF OpenAttempts, AttemptsOf, Open
  <2> QED
    BY <1>1, <1>2, <2>1 DEF OpenAttempts, AttemptsOf, Open
<1> QED
  BY <1>1, <1>2, <1>3 DEF Alone

\* A message begins a turn of its own.
LEMMA AppendFine ==
    ASSUME NEW d, DbInv(d), CanAppend(d)
    PROVE  LET e == AppendMessage(d)
           IN  /\ Fine(d, e) /\ Calm(d, e) /\ AutosKept(d, e)
               /\ Len(e.turns) = Len(d.turns) + 1 /\ e.inputs = d.inputs
               /\ \A s \in DOMAIN d.turns : e.turns[s] = d.turns[s]
<1> DEFINE t == Len(d.turns) + 1
           a == [turn |-> t, status |-> "queued", lapsed |-> FALSE, auto |-> FALSE]
           turns == Append(d.turns, "queued")
           attempts == Append(d.attempts, a)
           e == [d EXCEPT !.status = "running", !.stop = "none", !.error = "none",
                          !.turns = turns, !.attempts = attempts]
<1>1. /\ d \in Sessions /\ Len(d.turns) < MaxTurns /\ t \in Turns
      /\ d.turns \in Seq(TurnStatuses) /\ d.attempts \in Seq(AttemptRows)
  BY RowsDomains, StoreAssumption DEF DbInv, RowsOK, CanAppend, Turns, Sessions
<1>2. AppendMessage(d) = e
  BY <1>1 DEF AppendMessage, WithAttempt, Sessions
<1>3. a \in AttemptRows
  BY <1>1 DEF AttemptRows, AttemptStatuses
<1>4. /\ turns \in Seq(TurnStatuses) /\ Len(turns) = t /\ DOMAIN turns = 1..t /\ turns[t] = "queued"
      /\ \A s \in DOMAIN d.turns : turns[s] = d.turns[s]
  <2>1. "queued" \in TurnStatuses
    BY DEF TurnStatuses
  <2> QED
    BY <1>1, <2>1
<1>5. /\ attempts \in Seq(AttemptRows) /\ Len(attempts) = Len(d.attempts) + 1
      /\ \A i \in DOMAIN attempts : attempts[i] = IF i \in DOMAIN d.attempts THEN d.attempts[i] ELSE a
  <2> HIDE DEF a
  <2> QED
    BY <1>1, <1>3
<1>6. \A i \in DOMAIN attempts : attempts[i].turn \in 1..t /\ ~(attempts[i].lapsed /\ attempts[i].status # "running")
  <2>1. /\ \A i \in DOMAIN d.attempts :
              /\ d.attempts[i].turn \in DOMAIN d.turns
              /\ d.attempts[i].lapsed => d.attempts[i].status = "running"
        /\ DOMAIN d.turns = 1..Len(d.turns) /\ Len(d.turns) \in Nat
    BY RowsDomains DEF DbInv, RowsOK
  <2>2. a.turn = t /\ ~a.lapsed
    OBVIOUS
  <2> HIDE DEF a, attempts
  <2> QED
    BY <1>5, <2>1, <2>2
<1> HIDE DEF a, turns, attempts
<1>7. /\ e \in Sessions /\ e.turns = turns /\ e.attempts = attempts /\ e.inputs = d.inputs
  BY <1>1, <1>4, <1>5 DEF Sessions, RowStatuses, Stops, Errors
<1> HIDE DEF e
<1>8. DOMAIN d.turns \subseteq DOMAIN e.turns /\ t \in DOMAIN e.turns
  BY <1>1, <1>4, <1>7, RowsDomains
<1>9. RowsOK(e)
  <2>1. Len(e.turns) <= MaxTurns /\ Len(e.inputs) <= MaxQuestions
    BY <1>1, <1>4, <1>7, StoreAssumption DEF DbInv, RowsOK, Turns
  <2>2. \A i \in DOMAIN e.inputs : e.inputs[i].turn \in DOMAIN e.turns
    BY <1>7, <1>8 DEF DbInv, RowsOK
  <2> QED
    BY <1>4, <1>6, <1>7, <2>1, <2>2 DEF RowsOK
<1>10. OpenAttempts(d, t) = {}
  BY RowsDomains DEF DbInv, RowsOK, OpenAttempts, AttemptsOf
<1>11. /\ Len(d.turns) <= Len(e.turns)
       /\ e.attempts = Append(d.attempts, [turn |-> t, status |-> "queued",
                                           lapsed |-> FALSE, auto |-> FALSE])
  BY <1>1, <1>4, <1>7 DEF attempts, a
<1>12. DbInv(e)
  BY <1>8, <1>9, <1>11, AddingKeeps
<1>13. Grows(d, e)
  BY <1>1, <1>5, <1>7, <1>11, RowsDomains DEF Grows, Open
<1>14. ASSUME OpenUnsettled(d) PROVE OpenUnsettled(e)
  <2>1. e.turns[t] \in {"queued", "recovering"} /\ \A s \in DOMAIN d.turns \ {t} : e.turns[s] = d.turns[s]
    BY <1>4, <1>7
  <2> QED
    BY <1>8, <1>9, <1>11, <1>14, <2>1, AddingUnsettled
<1>15. Spares(d, e)
  BY <1>4, <1>7 DEF Spares
<1>16. Alone(d, e)
  BY <1>1, <1>10, <1>11, AddedAlone
<1>17. \A i \in DOMAIN e.attempts : e.attempts[i].auto => i \in DOMAIN d.attempts /\ d.attempts[i].auto
  BY <1>5, <1>7 DEF a
<1> QED
  BY <1>2, <1>4, <1>7, <1>12, <1>13, <1>14, <1>15, <1>16, <1>17 DEF Fine, Calm, AutosKept

\* A turn is started again by the user, or by the worker below the limit; it
\* stays settled if the recovery does not write its status.
LEMMA RestartFine ==
    ASSUME NEW d, DbInv(d), NEW t \in DOMAIN d.turns, NEW columns, NEW auto \in BOOLEAN,
           auto => AttemptsOf(d, t) # {} /\ Cardinality(Autos(d, t)) + 1 < AttemptLimit
    PROVE  LET e == Restarted(d, t, columns, auto)
           IN  /\ DbInv(e) /\ Grows(d, e) /\ (~auto => AutosKept(d, e))
               /\ OpenAttempts(d, t) = {} => Alone(d, e)
               /\ \A i \in DOMAIN d.attempts : e.attempts[i] = d.attempts[i]
               /\ \A s \in DOMAIN d.turns \ {t} : e.turns[s] = d.turns[s]
               /\ e.turns[t] = IF "turn" \in columns THEN "recovering" ELSE d.turns[t]
               /\ e.turns[t] = "recovering" /\ OpenUnsettled(d) => OpenUnsettled(e)
<1> DEFINE a == [turn |-> t, status |-> "queued", lapsed |-> FALSE, auto |-> auto]
           written == IF "turn" \in columns THEN "recovering" ELSE d.turns[t]
           status == IF "status" \in columns THEN "running" ELSE d.status
           stop == IF "stop" \in columns THEN "none" ELSE d.stop
           error == IF "error" \in columns THEN "none" ELSE d.error
           turns == [d.turns EXCEPT ![t] = written]
           attempts == Append(d.attempts, a)
           e == [d EXCEPT !.status = status, !.stop = stop, !.error = error,
                          !.turns = turns, !.attempts = attempts]
<1>1. /\ d \in Sessions /\ t \in Turns
      /\ d.turns \in Seq(TurnStatuses) /\ d.attempts \in Seq(AttemptRows)
  BY RowsDomains, StoreAssumption DEF DbInv, RowsOK, Turns, Sessions
<1>2. Restarted(d, t, columns, auto) = e
  BY <1>1 DEF Restarted, WithAttempt, Sessions
<1>3. a \in AttemptRows
  BY <1>1 DEF AttemptRows, AttemptStatuses
<1>4. /\ written \in TurnStatuses /\ status \in RowStatuses /\ stop \in Stops /\ error \in Errors
  BY <1>1 DEF Sessions, TurnStatuses, RowStatuses, Stops, Errors
<1> HIDE DEF written, status, stop, error
<1>5. /\ turns \in Seq(TurnStatuses) /\ Len(turns) = Len(d.turns) /\ DOMAIN turns = DOMAIN d.turns
      /\ turns[t] = written /\ \A s \in DOMAIN d.turns \ {t} : turns[s] = d.turns[s]
  <2>1. turns \in [DOMAIN d.turns -> TurnStatuses]
    BY <1>1, <1>4
  <2>2. turns \in Seq(TurnStatuses) /\ Len(turns) = Len(d.turns) /\ DOMAIN turns = DOMAIN d.turns
    BY <1>1, <2>1, Replaced
  <2> QED
    BY <2>2
<1>6. /\ attempts \in Seq(AttemptRows) /\ Len(attempts) = Len(d.attempts) + 1
      /\ \A i \in DOMAIN attempts : attempts[i] = IF i \in DOMAIN d.attempts THEN d.attempts[i] ELSE a
      /\ DOMAIN d.attempts \subseteq DOMAIN attempts
  <2> HIDE DEF a
  <2> QED
    BY <1>1, <1>3
<1>7. \A i \in DOMAIN attempts :
          attempts[i].turn \in DOMAIN turns /\ (attempts[i].lapsed => attempts[i].status = "running")
  <2>1. a.turn = t /\ ~a.lapsed
    OBVIOUS
  <2>2. \A i \in DOMAIN d.attempts :
            /\ d.attempts[i].turn \in DOMAIN d.turns
            /\ d.attempts[i].lapsed => d.attempts[i].status = "running"
    BY DEF DbInv, RowsOK
  <2> HIDE DEF a, attempts, turns
  <2> QED
    BY <1>5, <1>6, <2>1, <2>2
<1>8. a.auto = auto
  OBVIOUS
<1> HIDE DEF a, turns, attempts
<1>9. /\ e \in Sessions /\ e.turns = turns /\ e.attempts = attempts /\ e.inputs = d.inputs
  BY <1>1, <1>4, <1>5, <1>6 DEF Sessions
<1> HIDE DEF e
<1>10. RowsOK(e)
  BY <1>5, <1>7, <1>9 DEF DbInv, RowsOK
<1>11. /\ t \in DOMAIN e.turns /\ Len(d.turns) <= Len(e.turns)
       /\ e.attempts = Append(d.attempts, [turn |-> t, status |-> "queued",
                                           lapsed |-> FALSE, auto |-> auto])
  BY <1>1, <1>5, <1>9, RowsDomains DEF attempts, a
<1>12. DbInv(e)
  BY <1>10, <1>11, AddingKeeps
<1>13. \A i \in DOMAIN d.attempts : e.attempts[i] = d.attempts[i]
  BY <1>6, <1>9
<1>14. Grows(d, e)
  BY <1>1, <1>6, <1>9, <1>11, <1>13, RowsDomains DEF Grows, Open
<1>15. ASSUME e.turns[t] = "recovering", OpenUnsettled(d) PROVE OpenUnsettled(e)
  <2>1. \A s \in DOMAIN d.turns \ {t} : e.turns[s] = d.turns[s]
    BY <1>5, <1>9
  <2> QED
    BY <1>10, <1>11, <1>15, <2>1, AddingUnsettled
<1>16. ASSUME OpenAttempts(d, t) = {} PROVE Alone(d, e)
  BY <1>1, <1>11, <1>16, AddedAlone
<1>17. ASSUME ~auto PROVE AutosKept(d, e)
  BY <1>6, <1>8, <1>9, <1>17 DEF AutosKept
<1> QED
  BY <1>2, <1>5, <1>9, <1>12, <1>13, <1>14, <1>15, <1>16, <1>17 DEF written

LEMMA RecoverFine ==
    ASSUME NEW d, DbInv(d), NEW t \in DOMAIN d.turns, NEW auto \in BOOLEAN,
           auto => AttemptsOf(d, t) # {} /\ Cardinality(Autos(d, t)) + 1 < AttemptLimit
    PROVE  LET e == RecoverTurn(d, t, auto)
           IN  /\ Fine(d, e) /\ Alone(d, e)
               /\ \A i \in DOMAIN d.attempts : e.attempts[i] = d.attempts[i]
               /\ \A s \in DOMAIN d.turns \ {t} : e.turns[s] = d.turns[s]
<1>1. CASE OpenAttempts(d, t) # {}
  <2>1. RecoverTurn(d, t, auto) = d
    BY <1>1 DEF RecoverTurn, Recoverable
  <2>2. Grows(d, d)
    BY RowsDomains DEF Grows, DbInv, RowsOK
  <2> QED
    BY <2>1, <2>2 DEF Fine, Alone
<1>2. CASE OpenAttempts(d, t) = {}
  <2>1. RecoverTurn(d, t, auto) = Restarted(d, t, Columns, auto) /\ "turn" \in Columns
    BY <1>2 DEF RecoverTurn, Recoverable, Columns
  <2> QED
    BY <1>2, <2>1, RestartFine DEF Fine
<1> QED
  BY <1>1, <1>2

LEMMA SettledStatus == \A d : Settled(d) \in {"completed", "failed", "cancelled"}
BY DEF Settled

LEMMA GrowsTwice ==
    ASSUME NEW d \in Sessions, NEW e \in Sessions, NEW g \in Sessions, Grows(d, e), Grows(e, g)
    PROVE  Grows(d, g)
<1>1. DOMAIN d.attempts \subseteq DOMAIN e.attempts
  BY RowsDomains DEF Grows
<1> QED
  BY <1>1, RowsDomains DEF Grows

LEMMA FinishFine ==
    ASSUME NEW d, DbInv(d), NEW t \in DOMAIN d.turns
    PROVE  LET e == FinishAttempt(d, t)
           IN  Fine(d, e) /\ Calm(d, e)
<1>1. CASE Active(d) /\ d.stop = "none"
  <2>1. FinishAttempt(d, t) = d
    BY <1>1 DEF FinishAttempt
  <2>2. Grows(d, d)
    BY RowsDomains DEF Grows, DbInv, RowsOK
  <2> QED
    BY <2>1, <2>2, SameCalm DEF Fine
<1>2. CASE ~(Active(d) /\ d.stop = "none")
  <2> DEFINE status == Settled(d)
             turns == [d.turns EXCEPT ![t] = status]
             m == [d EXCEPT !.turns = turns]
             open == OpenAttempts(d, t)
             e == Close(m, open, status)
  <2>1. d \in Sessions /\ d.turns \in Seq(TurnStatuses)
    BY DEF DbInv, RowsOK, Sessions
  <2>2. FinishAttempt(d, t) = e
    BY <1>2 DEF FinishAttempt
  <2>3. status \in {"completed", "failed", "cancelled"}
    BY SettledStatus
  <2> HIDE DEF status
  <2>4. /\ turns \in Seq(TurnStatuses) /\ Len(turns) = Len(d.turns) /\ DOMAIN turns = DOMAIN d.turns
        /\ turns[t] = status /\ \A s \in DOMAIN d.turns \ {t} : turns[s] = d.turns[s]
    <3>1. turns \in [DOMAIN d.turns -> TurnStatuses]
      BY <2>1, <2>3 DEF TurnStatuses
    <3>2. turns \in Seq(TurnStatuses) /\ Len(turns) = Len(d.turns) /\ DOMAIN turns = DOMAIN d.turns
      BY <2>1, <3>1, Replaced
    <3> QED
      BY <3>2
  <2> HIDE DEF turns
  <2>5. m \in Sessions /\ m.turns = turns /\ m.attempts = d.attempts /\ m.inputs = d.inputs
    BY <2>1, <2>4 DEF Sessions
  <2> HIDE DEF m
  <2>6. RowsOK(m)
    BY <2>4, <2>5 DEF DbInv, RowsOK
  <2>7. DbInv(m)
    BY <2>4, <2>5, <2>6, ClosingKeeps DEF OnlyCloses, Open
  <2> HIDE DEF open
  <2>8. /\ Fine(m, e) /\ OnlyCloses(m, e) /\ e.turns = m.turns
        /\ \A i \in DOMAIN m.attempts :
              /\ i \in open => ~Open(e, i)
              /\ i \notin open => e.attempts[i] = m.attempts[i]
    BY <2>3, <2>7, CloseFine
  <2> HIDE DEF e
  <2>9. Grows(d, m)
    BY <2>1, <2>4, <2>5, RowsDomains DEF Grows, Open
  <2>10. DbInv(e) /\ RowsOK(e) /\ e \in Sessions /\ Grows(m, e)
    BY <2>8 DEF Fine, DbInv, RowsOK
  <2>11. Grows(d, e)
    BY <2>1, <2>5, <2>9, <2>10, GrowsTwice
  <2>12. ASSUME OpenUnsettled(d) PROVE OpenUnsettled(e)
    <3>1. DOMAIN e.attempts = DOMAIN d.attempts
      BY <2>5, <2>8, <2>10, RowsDomains DEF OnlyCloses
    <3>2. ASSUME NEW i \in DOMAIN d.attempts, Open(e, i)
          PROVE  e.turns[e.attempts[i].turn] \in {"queued", "recovering"}
      <4>1. i \notin open /\ e.attempts[i] = d.attempts[i]
        BY <2>5, <2>8, <3>2
      <4>2. Open(d, i) /\ d.attempts[i].turn # t
        BY <3>2, <4>1 DEF Open, open, OpenAttempts, AttemptsOf
      <4>3. d.attempts[i].turn \in DOMAIN d.turns
        BY DEF DbInv, RowsOK
      <4> QED
        BY <2>4, <2>5, <2>8, <2>12, <4>1, <4>2, <4>3 DEF OpenUnsettled
    <3> QED
      BY <3>1, <3>2 DEF OpenUnsettled
  <2>13. Spares(d, e)
    BY <2>3, <2>4, <2>5, <2>8 DEF Spares
  <2>14. Alone(d, e)
    BY <2>5, <2>8, <2>10, RowsDomains DEF Alone, OnlyCloses
  <2> QED
    BY <2>2, <2>10, <2>11, <2>12, <2>13, <2>14 DEF Fine, Calm
<1> QED
  BY <1>1, <1>2

-----------------------------------------------------------------------------
(* Leases that ran out *)

\* Turns that were completed or cancelled stay so.
Leaves(d, e) ==
    \A t \in DOMAIN d.turns :
        d.turns[t] \in {"completed", "cancelled"} => e.turns[t] = d.turns[t]

\* From the rows d the worker has come to the rows e.
Follows(d, e) == Fine(d, e) /\ (OpenUnsettled(d) => Leaves(d, e))

LEMMA FollowsTwice ==
    ASSUME NEW d, NEW e, NEW g, DbInv(d), Follows(d, e), Follows(e, g)
    PROVE  Follows(d, g)
<1>1. d \in Sessions /\ e \in Sessions /\ g \in Sessions
  BY DEF Follows, Fine, DbInv, RowsOK
<1>2. Grows(d, e) /\ Grows(e, g)
  BY DEF Follows, Fine
<1>3. Grows(d, g)
  BY <1>1, <1>2, GrowsTwice
<1>4. DOMAIN d.turns \subseteq DOMAIN e.turns
  BY <1>1, <1>2, RowsDomains DEF Grows
<1>5. ASSUME OpenUnsettled(d) PROVE Leaves(d, g)
  BY <1>4, <1>5 DEF Follows, Fine, Leaves
<1> QED
  BY <1>3, <1>5 DEF Follows, Fine

LEMMA RewordedFollows ==
    ASSUME NEW d, NEW e, DbInv(d), Reworded(d, e)
    PROVE  Follows(d, e)
BY RewordedFine DEF Follows, Leaves, Reworded

Results == [rows : Sessions, refused : BOOLEAN]

LEMMA TakeOverFine ==
    ASSUME NEW s \in Results, DbInv(s.rows), NEW i \in DOMAIN s.rows.attempts, Open(s.rows, i)
    PROVE  LET r == TakeOver(s, i)
           IN  /\ r \in Results /\ Follows(s.rows, r.rows) /\ Alone(s.rows, r.rows)
               /\ \A k \in DOMAIN s.rows.attempts \ {i} : r.rows.attempts[k] = s.rows.attempts[k]
<1> DEFINE rows == s.rows
           t == rows.attempts[i].turn
           d == Close(rows, {i}, "failed")
           r == TakeOver(s, i)
           Kept(e) == /\ \A k \in DOMAIN rows.attempts \ {i} : e.attempts[k] = rows.attempts[k]
                      /\ Alone(rows, e)
<1> SUFFICES r \in Results /\ Follows(rows, r.rows) /\ Kept(r.rows)
  OBVIOUS
<1> HIDE DEF r
<1>1. /\ Fine(rows, d) /\ OnlyCloses(rows, d) /\ d.turns = rows.turns /\ d.stop = rows.stop
      /\ \A k \in DOMAIN rows.attempts \ {i} : d.attempts[k] = rows.attempts[k]
  BY CloseFine
<1>2. /\ rows \in Sessions /\ d \in Sessions /\ DbInv(d)
      /\ t \in DOMAIN rows.turns /\ t \in DOMAIN d.turns
  BY <1>1 DEF Results, Fine, DbInv, RowsOK
<1>3. Follows(rows, d) /\ DOMAIN d.attempts = DOMAIN rows.attempts /\ Kept(d)
  BY <1>1, <1>2, RowsDomains DEF Follows, Leaves, OnlyCloses, Alone
<1>4. ASSUME NEW e, Reworded(d, e)
      PROVE  e \in Sessions /\ Follows(rows, e) /\ Kept(e)
  <2>1. Follows(d, e)
    BY <1>2, <1>4, RewordedFollows
  <2> QED
    BY <1>1, <1>3, <1>4, <2>1, FollowsTwice DEF Reworded, Alone
<1>5. Follows(rows, rows) /\ Kept(rows)
  BY RewordedFollows DEF Reworded, Results, Alone
<1>6. i \in AttemptsOf(d, t)
  BY <1>1, <1>3 DEF AttemptsOf, OnlyCloses
<1>7. \A x : [s EXCEPT !.rows = x].rows = x /\ [s EXCEPT !.rows = x].refused = s.refused
  BY DEF Results
<1>8. \A x \in Sessions : [s EXCEPT !.rows = x] \in Results
  BY DEF Results
<1>9. CASE s.refused
  <2>1. r = s
    BY <1>9 DEF TakeOver, r
  <2> QED
    BY <1>5, <2>1
<1>10. CASE ~s.refused /\ Pending(d) # {}
  <2> DEFINE e == [Fallback(d) EXCEPT !.status = "awaiting_user"]
  <2>1. r = [s EXCEPT !.rows = e]
    BY <1>10 DEF TakeOver, r
  <2>2. Reworded(d, e)
    BY <1>2, FallbackReworded DEF Reworded, Sessions, RowStatuses
  <2> HIDE DEF e, d
  <2> QED
    BY <1>4, <1>7, <1>8, <2>1, <2>2
<1>11. CASE ~s.refused /\ Pending(d) = {} /\ d.stop = "cancelled"
  <2>1. r = [s EXCEPT !.rows = d]
    BY <1>11 DEF TakeOver, r
  <2> HIDE DEF d
  <2> QED
    BY <1>1, <1>2, <1>3, <1>7, <1>8, <2>1
<1>12. CASE ~s.refused /\ Pending(d) = {} /\ d.stop # "cancelled"
  <2>1. r = IF Cardinality(AttemptsOf(d, t)) >= AttemptLimit
            THEN [s EXCEPT !.rows = [d EXCEPT !.status = "awaiting_user", !.stop = "exhausted"]]
            ELSE IF RecoveryRefused(d, t)
                 THEN [s EXCEPT !.refused = TRUE]
                 ELSE [s EXCEPT !.rows = RecoverTurn(d, t, TRUE)]
    BY <1>12 DEF TakeOver, r
  <2>2. CASE r = [s EXCEPT !.rows = [d EXCEPT !.status = "awaiting_user", !.stop = "exhausted"]]
    <3> DEFINE e == [d EXCEPT !.status = "awaiting_user", !.stop = "exhausted"]
    <3>1. Reworded(d, e)
      BY <1>2 DEF Reworded, Sessions, RowStatuses, Stops
    <3> HIDE DEF e, d
    <3> QED
      BY <1>4, <1>7, <1>8, <2>2, <3>1 DEF e
  <2>3. CASE r = [s EXCEPT !.refused = TRUE]
    <3>1. r \in Results /\ r.rows = rows
      BY <2>3 DEF Results
    <3> QED
      BY <1>5, <3>1
  <2>4. CASE r = [s EXCEPT !.rows = RecoverTurn(d, t, TRUE)]
             /\ ~(Cardinality(AttemptsOf(d, t)) >= AttemptLimit)
    <3> DEFINE e == RecoverTurn(d, t, TRUE)
    <3>1. AttemptsOf(d, t) \subseteq DOMAIN d.attempts /\ d.attempts \in Seq(AttemptRows)
      BY <1>2 DEF AttemptsOf, Sessions
    <3>2. Cardinality(Autos(d, t)) + 1 < AttemptLimit
      <4> HIDE DEF d, t
      <4>1. Cardinality(AttemptsOf(d, t)) \in Nat
        BY <3>1, IndexesFinite
      <4>2. Cardinality(AttemptsOf(d, t)) < AttemptLimit
        BY <2>4, <4>1, StoreAssumption
      <4> QED
        BY <1>2, <1>6, <4>2, LimitLeavesRoom
    <3>3. /\ Fine(d, e) /\ Alone(d, e)
          /\ \A k \in DOMAIN d.attempts : e.attempts[k] = d.attempts[k]
          /\ \A q \in DOMAIN d.turns \ {t} : e.turns[q] = d.turns[q]
      BY <1>2, <1>6, <3>2, RecoverFine
    <3>4. ASSUME OpenUnsettled(rows) PROVE Leaves(rows, e)
      <4>1. rows.turns[t] \in {"queued", "recovering"}
        BY <3>4 DEF OpenUnsettled
      <4> HIDE DEF e, d
      <4> QED
        BY <1>1, <3>3, <4>1 DEF Leaves
    <3> HIDE DEF e, d
    <3>5. e \in Sessions /\ DbInv(e) /\ Grows(d, e) /\ Grows(rows, d)
      BY <1>1, <3>3 DEF Fine, DbInv, RowsOK
    <3>6. Grows(rows, e)
      BY <1>2, <3>5, GrowsTwice
    <3>7. Follows(rows, e)
      BY <1>1, <3>3, <3>4, <3>5, <3>6 DEF Follows, Fine
    <3>8. Kept(e)
      BY <1>1, <1>3, <3>3 DEF Alone
    <3> QED
      BY <1>7, <1>8, <2>4, <3>5, <3>7, <3>8 DEF e
  <2> QED
    BY <2>1, <2>2, <2>3, <2>4
<1> QED
  BY <1>9, <1>10, <1>11, <1>12 DEF Results

\* A function on 0..L whose values are computed one from the other ...
Stepwise(L, S, s0, g, G) ==
    /\ L \in Nat /\ g \in [1..L -> [S -> S]] /\ G \in [0..L -> SUBSET S] /\ s0 \in G[0]
    /\ \A n \in 1..L : \A s \in G[n - 1] : g[n][s] \in G[n]

Computes(f, L, S, s0, g, G) ==
    /\ f \in [0..L -> S]
    /\ f[0] = s0 /\ \A n \in 1..L : f[n] = g[n][f[n - 1]]
    /\ \A n \in 0..L : f[n] \in G[n]

\* ... exists, and keeps what each step keeps.
LEMMA Iterated ==
    ASSUME NEW L, NEW S, NEW s0, NEW g, NEW G, Stepwise(L, S, s0, g, G)
    PROVE  \E f : Computes(f, L, S, s0, g, G)
<1> USE DEF Stepwise, Computes
<1> DEFINE Computed(n) == \E f \in [0..n -> S] :
               /\ f[0] = s0 /\ \A k \in 1..n : f[k] = g[k][f[k - 1]]
               /\ \A k \in 0..n : f[k] \in G[k]
           Bad == {n \in 0..L : ~Computed(n)}
<1>1. Computed(0)
  <2> DEFINE f == [k \in 0..0 |-> s0]
  <2>1. f \in [0..0 -> S] /\ f[0] = s0 /\ \A k \in 0..0 : k = 0
    OBVIOUS
  <2>2. \A k \in 1..0 : FALSE
    OBVIOUS
  <2> QED
    BY <2>1, <2>2
<1>2. ASSUME NEW n \in 1..L, Computed(n - 1)
      PROVE  Computed(n)
  <2>1. PICK f \in [0..(n - 1) -> S] :
            /\ f[0] = s0 /\ \A k \in 1..(n - 1) : f[k] = g[k][f[k - 1]]
            /\ \A k \in 0..(n - 1) : f[k] \in G[k]
    BY <1>2
  <2> DEFINE h == [k \in 0..n |-> IF k = n THEN g[n][f[n - 1]] ELSE f[k]]
  <2>2. n - 1 \in 0..(n - 1) /\ f[n - 1] \in S /\ g[n][f[n - 1]] \in S
    OBVIOUS
  <2>3. h \in [0..n -> S]
    BY <2>2
  <2>4. h[0] = s0 /\ \A k \in 1..n : h[k] = g[k][h[k - 1]]
    BY <2>1
  <2>5. \A k \in 0..n : h[k] \in G[k]
    BY <2>1, <2>2
  <2> QED
    BY <2>3, <2>4, <2>5
<1> HIDE DEF Computed
<1>3. Bad = {}
  <2> SUFFICES ASSUME Bad # {} PROVE FALSE
    OBVIOUS
  <2>1. Bad \in SUBSET Nat
    OBVIOUS
  <2> HIDE DEF Bad
  <2>2. PICK n \in Bad : \A k \in Bad : ~(<<k, n>> \in OpToRel(<, Nat))
    BY <2>1, WFMin, NatLessThanWellFounded
  <2>3. n \in 0..L /\ ~Computed(n)
    BY DEF Bad
  <2>4. n # 0
    BY <1>1, <2>3
  <2>5. n - 1 \in 0..L /\ n - 1 < n
    BY <2>3, <2>4
  <2>6. n - 1 \notin Bad
    BY <2>1, <2>2, <2>3, <2>5 DEF OpToRel
  <2> QED
    BY <1>2, <2>3, <2>4, <2>5, <2>6 DEF Bad
<1>4. Computed(L)
  BY <1>3
<1> QED
  BY <1>4 DEF Computed

LEMMA TakeOverLapsedFine ==
    ASSUME NEW d, DbInv(d)
    PROVE  /\ TakeOverLapsed(d) \in Results
           /\ Follows(d, TakeOverLapsed(d).rows) /\ Alone(d, TakeOverLapsed(d).rows)
<1> DEFINE last == Len(d.attempts)
           start == [rows |-> d, refused |-> FALSE]
           Good == [n \in 0..last |-> {s \in Results :
                    /\ Follows(d, s.rows) /\ Alone(d, s.rows)
                    /\ \A k \in DOMAIN d.attempts : k > n => s.rows.attempts[k] = d.attempts[k]}]
           step == [n \in 1..last |-> [s \in Results |->
                    IF n \in Lapsed(d) /\ s \in Good[n - 1] THEN TakeOver(s, n) ELSE s]]
<1>1. last \in Nat /\ DOMAIN d.attempts = 1..last /\ d \in Sessions
  BY RowsDomains DEF DbInv, RowsOK
<1> HIDE DEF last
<1>2. start \in Results /\ Follows(d, d) /\ Alone(d, d) /\ start.rows = d
  BY <1>1, RewordedFollows DEF Results, Reworded, Alone
<1>3. 0 \in 0..last /\ start \in Good[0]
  BY <1>1, <1>2
<1>4. \A n \in 0..last : \A s \in Good[n] :
          /\ s \in Results /\ Follows(d, s.rows) /\ Alone(d, s.rows)
          /\ \A k \in DOMAIN d.attempts : k > n => s.rows.attempts[k] = d.attempts[k]
  OBVIOUS
<1>5. \A n \in 0..last : \A s \in Results :
          /\ Follows(d, s.rows) /\ Alone(d, s.rows)
          /\ \A k \in DOMAIN d.attempts : k > n => s.rows.attempts[k] = d.attempts[k]
          => s \in Good[n]
  OBVIOUS
<1>6. Good \in [0..last -> SUBSET Results]
  OBVIOUS
<1> HIDE DEF Good, start
<1>7. ASSUME NEW n \in 1..last, n \in Lapsed(d), NEW s \in Good[n - 1]
      PROVE  TakeOver(s, n) \in Results /\ TakeOver(s, n) \in Good[n]
  <2>1. n \in DOMAIN d.attempts /\ Open(d, n) /\ n - 1 \in 0..last /\ n \in 0..last /\ n > n - 1
    BY <1>1, <1>7 DEF Lapsed, Open
  <2>2. /\ s \in Results /\ Follows(d, s.rows) /\ Alone(d, s.rows)
        /\ \A k \in DOMAIN d.attempts : k > n - 1 => s.rows.attempts[k] = d.attempts[k]
    BY <1>4, <1>7, <2>1
  <2>3. s.rows \in Sessions /\ DbInv(s.rows) /\ Grows(d, s.rows)
    BY <2>2 DEF Follows, Fine, DbInv, RowsOK
  <2>4. DOMAIN d.attempts \subseteq DOMAIN s.rows.attempts /\ n \in DOMAIN s.rows.attempts
    BY <1>1, <2>1, <2>3, RowsDomains DEF Grows
  <2>5. Open(s.rows, n)
    BY <2>1, <2>2 DEF Open
  <2> DEFINE r == TakeOver(s, n)
  <2>6. /\ r \in Results /\ Follows(s.rows, r.rows) /\ Alone(s.rows, r.rows)
        /\ \A k \in DOMAIN s.rows.attempts \ {n} : r.rows.attempts[k] = s.rows.attempts[k]
    BY <2>2, <2>3, <2>4, <2>5, TakeOverFine
  <2> HIDE DEF r
  <2>7. Follows(d, r.rows)
    BY <2>2, <2>6, FollowsTwice
  <2>8. \A k \in DOMAIN d.attempts : k > n => r.rows.attempts[k] = d.attempts[k]
    BY <1>1, <2>2, <2>4, <2>6
  <2>9. Alone(d, r.rows)
    <3>1. Grows(s.rows, r.rows) /\ r.rows \in Sessions
      BY <2>6 DEF Follows, Fine, DbInv, RowsOK
    <3>2. DOMAIN s.rows.attempts \subseteq DOMAIN r.rows.attempts
      BY <2>3, <3>1, RowsDomains DEF Grows
    <3>3. \A k \in DOMAIN s.rows.attempts \ DOMAIN d.attempts : r.rows.attempts[k] = s.rows.attempts[k]
      BY <2>1, <2>6
    <3> QED
      BY <2>2, <2>6, <3>1, <3>2, <3>3, AloneTwice DEF Open
  <2>10. r \in Good[n]
    BY <1>5, <2>1, <2>6, <2>7, <2>8, <2>9
  <2> QED
    BY <2>6, <2>10 DEF r
<1>8. ASSUME NEW n \in 1..last, NEW s \in Good[n - 1]
      PROVE  s \in Good[n] /\ s \in Results
  BY <1>1, <1>4, <1>5, <1>8
<1>9. step \in [1..last -> [Results -> Results]]
  BY <1>7
<1>10. \A n \in 1..last : \A s \in Good[n - 1] :
           step[n][s] = (IF n \in Lapsed(d) THEN TakeOver(s, n) ELSE s) /\ step[n][s] \in Good[n]
  BY <1>7, <1>8
<1> HIDE DEF step
<1>11. PICK f \in [0..last -> Results] :
           /\ f[0] = start /\ \A n \in 1..last : f[n] = step[n][f[n - 1]]
           /\ \A n \in 0..last : f[n] \in Good[n]
  <2>1. Stepwise(last, Results, start, step, Good)
    BY <1>1, <1>3, <1>6, <1>9, <1>10 DEF Stepwise
  <2>2. PICK f : Computes(f, last, Results, start, step, Good)
    BY <2>1, Iterated
  <2> QED
    BY <2>2 DEF Computes
<1>12. \A n \in 1..last : f[n] = IF n \in Lapsed(d) THEN TakeOver(f[n - 1], n) ELSE f[n - 1]
  <2>1. \A n \in 1..last : n - 1 \in 0..last
    BY <1>1
  <2> QED
    BY <1>10, <1>11, <2>1
<1> DEFINE Next1(h) == [n \in 0..last |-> IF n = 0 THEN start
                        ELSE IF n \in Lapsed(d) THEN TakeOver(h[n - 1], n) ELSE h[n - 1]]
           taken == CHOOSE h : h = Next1(h)
<1>13. f = Next1(f)
  <2>1. \A n \in 0..last : n = 0 \/ n \in 1..last
    BY <1>1
  <2> QED
    BY <1>11, <1>12, <2>1
<1>14. taken = Next1(taken)
  <2> HIDE DEF Next1
  <2> QED
    BY <1>13
<1>15. /\ taken[0] = start
       /\ \A n \in 1..last : taken[n] = IF n \in Lapsed(d) THEN TakeOver(taken[n - 1], n) ELSE taken[n - 1]
  <2> HIDE DEF taken
  <2>1. \A n \in 1..last : n \in 0..last /\ n # 0
    BY <1>1
  <2> QED
    BY <1>3, <1>14, <2>1
<1>16. TakeOverLapsed(d) = taken[last]
  BY DEF TakeOverLapsed, start, last
<1> HIDE DEF taken, Next1
<1>17. \A n \in 0..last : taken[n] = f[n]
  <2> DEFINE Bad == {n \in 0..last : taken[n] # f[n]}
  <2> SUFFICES ASSUME Bad # {} PROVE FALSE
    OBVIOUS
  <2>1. Bad \in SUBSET Nat
    BY <1>1
  <2> HIDE DEF Bad
  <2>2. PICK n \in Bad : \A k \in Bad : ~(<<k, n>> \in OpToRel(<, Nat))
    BY <2>1, WFMin, NatLessThanWellFounded
  <2>3. n \in 0..last /\ taken[n] # f[n]
    BY DEF Bad
  <2>4. n \in 1..last /\ n - 1 \in 0..last /\ n - 1 < n
    BY <1>1, <1>11, <1>15, <2>3
  <2>5. n - 1 \notin Bad
    BY <2>1, <2>2, <2>4 DEF OpToRel
  <2>6. taken[n - 1] = f[n - 1]
    BY <2>4, <2>5 DEF Bad
  <2> QED
    BY <1>12, <1>15, <2>3, <2>4, <2>6
<1>18. last \in 0..last
  BY <1>1
<1> QED
  BY <1>4, <1>11, <1>16, <1>17, <1>18

-----------------------------------------------------------------------------
(* Steps *)

Tasks == [turn : 0..MaxTurns, event : BOOLEAN, killed : BOOLEAN,
          pc : {"none", "starting", "streaming", "closing", "ending"}]

LEMMA InvInit == ASSUME Init PROVE IInv
<1>1. /\ db.turns = <<>> /\ db.attempts = <<>> /\ db.inputs = <<>>
      /\ db \in Sessions
  BY DEF Init, NewSession, Sessions, RowStatuses, Stops, Errors
<1>2. RowsOK(db)
  BY <1>1, StoreAssumption, BoundsAssumption DEF RowsOK
<1>3. AskedFor(db) /\ AutosBounded(db) /\ OpenUnsettled(db)
  BY <1>1 DEF AskedFor, AutosBounded, OpenUnsettled
<1>4. CommandInv
  BY DEF Init, CommandInv
<1>5. WorkerInv /\ TaskInv
  BY StoreAssumption DEF Init, WorkerInv, TaskInv, HasTask, NoTask
<1>6. StopInv
  BY StoreAssumption DEF Init, StopInv, NoStop
<1>7. HistoryInv
  <2>1. lateStop \in BOOLEAN /\ lateRecovery \in BOOLEAN
    BY DEF Init
  <2>2. stopped \subseteq Turns /\ troubles \in 0..MaxTroubles
    BY BoundsAssumption DEF Init
  <2> QED
    BY <2>1, <2>2 DEF HistoryInv
<1>8. RecoverInv
  <2>1. recovering = [who \in {"user", "worker"} |-> NoRecovery] /\ NoRecovery \in Recoveries
    BY StoreAssumption DEF Init, NoRecovery, Recoveries
  <2> HIDE DEF NoRecovery
  <2> QED
    BY <2>1 DEF RecoverInv, ReadOK, RetryOK
<1> QED
  BY <1>2, <1>3, <1>4, <1>5, <1>6, <1>7, <1>8 DEF IInv, DbInv

LEMMA FineTwice ==
    ASSUME NEW d, NEW e, NEW g, DbInv(d), Fine(d, e), Fine(e, g)
    PROVE  Fine(d, g)
<1>1. d \in Sessions /\ e \in Sessions /\ g \in Sessions
  BY DEF Fine, DbInv, RowsOK
<1> QED
  BY <1>1, GrowsTwice DEF Fine

LEMMA SameFine == ASSUME NEW d, DbInv(d) PROVE Fine(d, d) /\ Calm(d, d)
BY RewordedFine DEF Reworded, DbInv, RowsOK

\* Once an attempt was added to a turn since it was read, this can be seen.
LEMMA ReadStands ==
    ASSUME NEW d, NEW e, DbInv(d), DbInv(e), Grows(d, e), NEW t, NEW n \in Nat,
           Cardinality(AttemptsOf(d, t)) >= n,
           OpenAttempts(d, t) # {} => Cardinality(AttemptsOf(d, t)) # n
    PROVE  /\ AttemptsOf(d, t) \subseteq AttemptsOf(e, t) /\ Cardinality(AttemptsOf(e, t)) >= n
           /\ Cardinality(AttemptsOf(d, t)) # n => Cardinality(AttemptsOf(e, t)) # n
           /\ OpenAttempts(e, t) # {} => Cardinality(AttemptsOf(e, t)) # n
<1>1. /\ d \in Sessions /\ e \in Sessions
      /\ d.attempts \in Seq(AttemptRows) /\ e.attempts \in Seq(AttemptRows)
  BY DEF DbInv, RowsOK, Sessions
<1>2. AttemptsOf(d, t) \subseteq AttemptsOf(e, t)
  BY <1>1, RowsDomains DEF Grows, AttemptsOf
<1>3. /\ IsFiniteSet(AttemptsOf(d, t)) /\ Cardinality(AttemptsOf(d, t)) \in Nat
      /\ IsFiniteSet(AttemptsOf(e, t)) /\ Cardinality(AttemptsOf(e, t)) \in Nat
  <2>1. AttemptsOf(d, t) \subseteq DOMAIN d.attempts /\ AttemptsOf(e, t) \subseteq DOMAIN e.attempts
    BY DEF AttemptsOf
  <2> QED
    BY <1>1, <2>1, IndexesFinite
<1>4. /\ Cardinality(AttemptsOf(d, t)) <= Cardinality(AttemptsOf(e, t))
      /\ Cardinality(AttemptsOf(d, t)) = Cardinality(AttemptsOf(e, t))
             => AttemptsOf(d, t) = AttemptsOf(e, t)
  BY <1>2, <1>3, FS_Subset
<1>5. ASSUME OpenAttempts(e, t) # {}, AttemptsOf(d, t) = AttemptsOf(e, t)
      PROVE  OpenAttempts(d, t) # {}
  <2>1. PICK i \in AttemptsOf(e, t) : Open(e, i)
    BY <1>5 DEF OpenAttempts, Open
  <2>2. i \in AttemptsOf(d, t) /\ Open(d, i)
    BY <1>5, <2>1 DEF Grows, AttemptsOf
  <2> QED
    BY <2>2 DEF OpenAttempts, Open
<1> QED
  BY <1>2, <1>3, <1>4, <1>5

\* The conversation has grown; what does not change besides stays good.
LEMMA GrownKept ==
    ASSUME IInv, DbInv(db'), Grows(db, db')
    PROVE  /\ commands' = commands => CommandInv'
           /\ stopping' = stopping => StopInv'
           /\ task' \in Tasks /\ task'.turn = task.turn /\ (task'.pc # "none" => HasTask) => TaskInv'
           /\ task' = NoTask => TaskInv'
           /\ \A who \in {"user", "worker"} : recovering'[who] = recovering[who] => ReadOK(who)'
           /\ recovering' = recovering /\ worker.pc # "retrying" => RecoverInv'
           /\ Latest(db) # 0 => Latest(db)' # 0
           /\ DOMAIN db.turns \subseteq DOMAIN db'.turns
<1>1. /\ DOMAIN db.turns \subseteq DOMAIN db'.turns /\ DOMAIN db.inputs \subseteq DOMAIN db'.inputs
      /\ DOMAIN db.attempts \subseteq DOMAIN db'.attempts
      /\ \A i \in DOMAIN db.attempts : db'.attempts[i].turn = db.attempts[i].turn
      /\ Latest(db) # 0 => Latest(db)' # 0
  BY RowsDomains DEF IInv, Grows, DbInv, RowsOK, Latest
<1>2. commands' = commands => CommandInv'
  BY <1>1 DEF IInv, CommandInv
<1>3. stopping' = stopping => StopInv'
  BY <1>1 DEF IInv, StopInv
<1>4. task' \in Tasks /\ task'.turn = task.turn /\ (task'.pc # "none" => HasTask) => TaskInv'
  BY <1>1 DEF IInv, TaskInv, HasTask, Tasks
<1>5. task' = NoTask => TaskInv'
  BY StoreAssumption DEF TaskInv, HasTask, NoTask
<1>6. ASSUME NEW who \in {"user", "worker"}, recovering'[who] = recovering[who]
      PROVE  ReadOK(who)'
  <2> DEFINE r == recovering[who]
  <2>1. CASE r = NoRecovery
    BY <1>6, <2>1 DEF ReadOK, NoRecovery
  <2>2. CASE r # NoRecovery
    <3>1. /\ r.turn \in DOMAIN db.turns /\ r.attempts \in Nat
          /\ Cardinality(AttemptsOf(db, r.turn)) >= r.attempts
          /\ OpenAttempts(db, r.turn) # {} => Cardinality(AttemptsOf(db, r.turn)) # r.attempts
      BY <2>2 DEF IInv, RecoverInv, ReadOK, Recoveries, Outrun
    <3> HIDE DEF r
    <3>2. /\ Cardinality(AttemptsOf(db', r.turn)) >= r.attempts
          /\ OpenAttempts(db', r.turn) # {} => Cardinality(AttemptsOf(db', r.turn)) # r.attempts
      BY <3>1, ReadStands DEF IInv
    <3> QED
      BY <1>1, <1>6, <3>1, <3>2 DEF ReadOK, Outrun, r, NoRecovery
  <2> QED
    BY <2>1, <2>2
<1>7. ASSUME recovering' = recovering, worker.pc # "retrying" PROVE RecoverInv'
  <2>1. recovering["worker"] = NoRecovery
    BY <1>7 DEF IInv, RecoverInv, RetryOK
  <2>2. RetryOK'
    BY <1>7, <2>1 DEF RetryOK, NoRecovery
  <2> QED
    BY <1>6, <1>7, <2>2 DEF IInv, RecoverInv
<1> QED
  BY <1>1, <1>2, <1>3, <1>4, <1>5, <1>6, <1>7

LEMMA RestKept ==
    ASSUME IInv, Fine(db, db')
    PROVE  /\ commands' = commands => CommandInv'
           /\ stopping' = stopping => StopInv'
           /\ task' \in Tasks /\ task'.turn = task.turn /\ (task'.pc # "none" => HasTask) => TaskInv'
           /\ task' = NoTask => TaskInv'
           /\ \A who \in {"user", "worker"} : recovering'[who] = recovering[who] => ReadOK(who)'
           /\ recovering' = recovering /\ worker.pc # "retrying" => RecoverInv'
           /\ Latest(db) # 0 => Latest(db)' # 0
           /\ DOMAIN db.turns \subseteq DOMAIN db'.turns
<1>1. DbInv(db') /\ Grows(db, db')
  BY DEF Fine
<1> QED
  BY <1>1, GrownKept

LEMMA Assembled ==
    ASSUME IInv, Fine(db, db'), UNCHANGED <<lateStop, lateRecovery>>, CommandInv', WorkerInv',
           TaskInv', StopInv', RecoverInv', stopped' \subseteq Turns, troubles' \in 0..MaxTroubles
    PROVE  IInv'
<1>1. DbInv(db') /\ (OpenUnsettled(db) => OpenUnsettled(db'))
  BY DEF Fine
<1> QED
  BY <1>1 DEF IInv, HistoryInv

LEMMA CommandsMapped ==
    ASSUME IInv, Fine(db, db'), NEW f \in [DOMAIN commands -> CommandRows], commands' = f,
           \A c \in DOMAIN commands : f[c].kind = commands[c].kind /\ f[c].input = commands[c].input
    PROVE  CommandInv'
<1>1. f \in Seq(CommandRows) /\ DOMAIN f = DOMAIN commands
  BY Replaced DEF IInv, CommandInv
<1>2. DOMAIN db.inputs \subseteq DOMAIN db'.inputs
  BY RowsDomains DEF IInv, Fine, Grows, DbInv, RowsOK
<1> QED
  BY <1>1, <1>2 DEF IInv, CommandInv

LEMMA CommandsDomain ==
    ASSUME CommandInv
    PROVE  /\ \A c \in DOMAIN commands : commands[c] \in CommandRows
           /\ DOMAIN commands \subseteq Nat
BY DEF CommandInv

\* The command that is executed is done with.
LEMMA DoneKept ==
    ASSUME IInv, Fine(db, db'), NEW status \in {"completed", "failed"}, Done(status)
    PROVE  CommandInv' /\ WorkerInv'
<1> DEFINE f == [commands EXCEPT ![Current].status = status]
<1>1. \A c \in DOMAIN commands :
          f[c] \in CommandRows /\ f[c].kind = commands[c].kind /\ f[c].input = commands[c].input
  BY CommandsDomain DEF IInv, CommandRows
<1>2. f \in [DOMAIN commands -> CommandRows]
  BY <1>1
<1>3. commands' = f
  BY DEF Done
<1> HIDE DEF f
<1>4. CommandInv'
  BY <1>1, <1>2, <1>3, CommandsMapped
<1>5. WorkerInv'
  BY DEF Done, Goto, WorkerInv
<1> QED
  BY <1>4, <1>5

LEMMA Appended ==
    ASSUME IInv, UNCHANGED db, NEW kind \in {"cancel", "answer_input"}, NEW input \in 0..MaxQuestions,
           kind = "answer_input" => input \in DOMAIN db.inputs,
           commands' = Append(commands, Command(kind, input))
    PROVE  CommandInv'
<1> DEFINE c == Command(kind, input)
<1>1. c \in CommandRows /\ c.kind = kind /\ c.input = input
  BY DEF Command, CommandRows
<1> HIDE DEF c
<1>2. commands \in Seq(CommandRows)
  BY DEF IInv, CommandInv
<1>3. /\ commands' \in Seq(CommandRows)
      /\ \A k \in DOMAIN commands' : commands'[k] = IF k \in DOMAIN commands THEN commands[k] ELSE c
  BY <1>1, <1>2 DEF c
<1> QED
  BY <1>1, <1>3 DEF IInv, CommandInv

LEMMA CurrentTaken ==
    ASSUME CommandInv, Taken # {}
    PROVE  Current \in Taken /\ Current \in DOMAIN commands
<1>1. Taken \in SUBSET Nat /\ Taken \subseteq DOMAIN commands
  BY CommandsDomain DEF Taken
<1> QED
  BY <1>1, FirstIndex DEF Current

-----------------------------------------------------------------------------
(* Requests of the API *)

\* A recovery that the worker is about to write stays right whatever the API
\* does: what settles the turn meanwhile is late, or an attempt was added.
LEMMA ApiKept ==
    ASSUME IInv, DbInv(db'), Grows(db, db'), AutosKept(db, db'), worker' = worker,
           recovering' \in [{"user", "worker"} -> Recoveries],
           recovering'["worker"] = recovering["worker"], ReadOK("user")', lateStop => lateStop',
           \A s \in DOMAIN db.turns :
               db'.turns[s] \in {"completed", "cancelled"} =>
                   db'.turns[s] = db.turns[s] \/ lateStop' \/ OpenAttempts(db, s) # {}
    PROVE  RecoverInv'
<1> DEFINE r == recovering["worker"]
<1>1. ReadOK("worker")'
  BY GrownKept
<1>2. RetryOK'
  <2>1. CASE r = NoRecovery
    BY <2>1 DEF RetryOK, NoRecovery
  <2>2. CASE r # NoRecovery
    <3>1. /\ r.turn \in DOMAIN db.turns /\ r.attempts \in Nat
          /\ Cardinality(AttemptsOf(db, r.turn)) >= r.attempts
          /\ OpenAttempts(db, r.turn) # {} => Cardinality(AttemptsOf(db, r.turn)) # r.attempts
          /\ worker.pc = "retrying"
          /\ AttemptsOf(db, r.turn) # {} /\ Cardinality(Autos(db, r.turn)) + 1 < AttemptLimit
          /\ ~lateStop /\ Cardinality(AttemptsOf(db, r.turn)) = r.attempts
                => db.turns[r.turn] \notin {"completed", "cancelled"}
      BY <2>2 DEF IInv, RecoverInv, ReadOK, RetryOK, Recoveries, Outrun
    <3> HIDE DEF r
    <3>2. /\ AttemptsOf(db, r.turn) \subseteq AttemptsOf(db', r.turn)
          /\ Cardinality(AttemptsOf(db', r.turn)) = r.attempts
                => Cardinality(AttemptsOf(db, r.turn)) = r.attempts
      BY <3>1, ReadStands DEF IInv
    <3>3. Cardinality(Autos(db', r.turn)) <= Cardinality(Autos(db, r.turn))
          /\ Cardinality(Autos(db', r.turn)) \in Nat /\ Cardinality(Autos(db, r.turn)) \in Nat
      <4>1. Autos(db', r.turn) \subseteq Autos(db, r.turn)
        BY DEF AutosKept, Autos, AttemptsOf, Grows
      <4>2. Autos(db, r.turn) \subseteq DOMAIN db.attempts /\ db.attempts \in Seq(AttemptRows)
        BY DEF IInv, DbInv, RowsOK, Sessions, Autos, AttemptsOf
      <4>3. IsFiniteSet(Autos(db, r.turn)) /\ Cardinality(Autos(db, r.turn)) \in Nat
        BY <4>2, IndexesFinite
      <4> QED
        BY <4>1, <4>3, FS_Subset, FS_CardinalityType
    <3>4. Cardinality(Autos(db', r.turn)) + 1 < AttemptLimit
      BY <3>1, <3>3, StoreAssumption
    <3>5. ASSUME ~lateStop', Cardinality(AttemptsOf(db', r.turn)) = r.attempts
          PROVE  db'.turns[r.turn] \notin {"completed", "cancelled"}
      BY <3>1, <3>2, <3>5
    <3> QED
      BY <3>1, <3>2, <3>4, <3>5 DEF RetryOK, Outrun, r
  <2> QED
    BY <2>1, <2>2
<1> QED
  BY <1>1, <1>2 DEF RecoverInv

LEMMA ApiSteps ==
    ASSUME IInv, Send \/ RequestStop \/ Answer
    PROVE  IInv' /\ Calm(db, db')
<1>1. DbInv(db) /\ WorkerInv /\ HistoryInv /\ db \in Sessions
  BY DEF IInv, DbInv, RowsOK
<1>2. CASE Send
  <2>1. CanAppend(db) /\ db' = AppendMessage(db)
        /\ UNCHANGED <<commands, worker, task, stopping, recovering, stopped, lateStop, lateRecovery,
                       troubles>>
    BY <1>2 DEF Send
  <2>2. /\ Fine(db, db') /\ Calm(db, db') /\ AutosKept(db, db')
        /\ \A s \in DOMAIN db.turns : db'.turns[s] = db.turns[s]
    BY <1>1, <2>1, AppendFine
  <2>3. CommandInv' /\ StopInv' /\ WorkerInv' /\ TaskInv'
    BY <1>1, <2>1, <2>2, RestKept DEF WorkerInv, IInv, TaskInv, HasTask
  <2>4. DbInv(db') /\ Grows(db, db')
    BY <2>2 DEF Fine
  <2>5. ReadOK("user")'
    BY <2>1, <2>4, GrownKept
  <2>6. RecoverInv'
    BY <2>1, <2>2, <2>4, <2>5, ApiKept DEF IInv, RecoverInv
  <2> QED
    BY <1>1, <2>1, <2>2, <2>3, <2>6, Assembled DEF HistoryInv
<1>4. CASE RequestStop \/ Answer
  <2>1. /\ db' = db /\ troubles' \in 0..MaxTroubles
        /\ UNCHANGED <<worker, task, recovering, stopped, lateStop, lateRecovery>>
    BY <1>1, <1>4, BoundsAssumption DEF RequestStop, Answer, Trouble, HistoryInv
  <2>2. Fine(db, db') /\ Calm(db, db')
    BY <1>1, <2>1, SameFine
  <2>3. WorkerInv' /\ TaskInv' /\ RecoverInv'
    BY <1>1, <2>1 DEF WorkerInv, IInv, TaskInv, HasTask, RecoverInv, ReadOK, RetryOK, Outrun
  <2>4. CASE commands' = commands /\ stopping' = stopping
    <3>1. CommandInv' /\ StopInv'
      BY <2>2, <2>4, RestKept
    <3> QED
      BY <1>1, <2>1, <2>2, <2>3, <3>1, Assembled DEF HistoryInv
  <2>5. CASE commands' = Append(commands, Command("cancel", 0)) /\ stopping' = stopping
    <3>1. CommandInv'
      BY <2>1, <2>5, Appended, BoundsAssumption
    <3>2. StopInv'
      BY <2>2, <2>5, RestKept
    <3> QED
      BY <1>1, <2>1, <2>2, <2>3, <3>1, <3>2, Assembled DEF HistoryInv
  <2>6. ASSUME NEW i \in Pending(db), commands' = Append(commands, Command("answer_input", i)),
               stopping' = stopping
        PROVE  IInv'
    <3>1. i \in DOMAIN db.inputs /\ i \in 0..MaxQuestions
      BY <1>1, RowsDomains, BoundsAssumption DEF Pending, DbInv, RowsOK
    <3>2. CommandInv'
      BY <2>1, <2>6, <3>1, Appended
    <3>3. StopInv'
      BY <2>2, <2>6, RestKept
    <3> QED
      BY <1>1, <2>1, <2>2, <2>3, <3>2, <3>3, Assembled DEF HistoryInv
  <2> DEFINE t == Latest(db)
             queued == {i \in AttemptsOf(db, t) : db.attempts[i].status = "queued"}
  <2>7. CASE queued # {} /\ stopping' = [turn |-> t, attempts |-> queued] /\ commands' = commands
             /\ Latest(db) # 0
    <3>1. t \in DOMAIN db.turns /\ t \in 0..MaxTurns
      BY <1>1, <2>7, RowsDomains, StoreAssumption DEF Latest, DbInv, RowsOK
    <3>2. queued \subseteq DOMAIN db.attempts /\ \A i \in queued : db.attempts[i].turn = t
      BY DEF AttemptsOf
    <3> HIDE DEF queued, t
    <3>3. StopInv'
      BY <2>1, <2>7, <3>1, <3>2 DEF StopInv
    <3>4. CommandInv'
      BY <2>2, <2>7, RestKept
    <3> QED
      BY <1>1, <2>1, <2>2, <2>3, <3>3, <3>4, Assembled DEF HistoryInv
  <2>8. CASE RequestStop
    <3>1. \/ queued # {} /\ stopping' = [turn |-> t, attempts |-> queued] /\ commands' = commands
                /\ Latest(db) # 0
          \/ commands' = Append(commands, Command("cancel", 0)) /\ stopping' = stopping
      BY <2>8 DEF RequestStop
    <3> QED
      BY <2>2, <2>5, <2>7, <3>1
  <2>9. CASE Answer
    <3>1. \E i \in Pending(db) : commands' = Append(commands, Command("answer_input", i))
      BY <2>9 DEF Answer
    <3>2. stopping' = stopping
      BY <2>9 DEF Answer
    <3> QED
      BY <2>2, <2>6, <3>1, <3>2
  <2> QED
    BY <1>4, <2>8, <2>9
<1> QED
  BY <1>2, <1>4

\* A turn is read that has no open attempt.
LEMMA TurnRead ==
    ASSUME IInv, UNCHANGED db, NEW who \in {"user", "worker"}, Latest(db) # 0,
           OpenAttempts(db, Latest(db)) = {}, ReadTurn(who, Latest(db))
    PROVE  /\ recovering' \in [{"user", "worker"} -> Recoveries] /\ ReadOK(who)'
           /\ \A other \in {"user", "worker"} \ {who} : recovering'[other] = recovering[other]
           /\ recovering'[who].turn = Latest(db)
<1> DEFINE t == Latest(db)
           r == [turn |-> t, columns |-> Outdated(db, t), attempts |-> Cardinality(AttemptsOf(db, t))]
<1>1. t \in DOMAIN db.turns /\ t \in 0..MaxTurns
  BY RowsDomains, StoreAssumption DEF Latest, IInv, DbInv, RowsOK
<1>2. Cardinality(AttemptsOf(db, t)) \in Nat
  <2>1. AttemptsOf(db, t) \subseteq DOMAIN db.attempts /\ db.attempts \in Seq(AttemptRows)
    BY DEF IInv, DbInv, RowsOK, Sessions, AttemptsOf
  <2> QED
    BY <2>1, IndexesFinite
<1>3. Outdated(db, t) \subseteq Columns
  BY DEF Outdated, Columns
<1> HIDE DEF t
<1>4. r \in Recoveries /\ r.turn = t /\ r.attempts = Cardinality(AttemptsOf(db, t))
  BY <1>1, <1>2, <1>3 DEF Recoveries
<1>5. recovering' = [recovering EXCEPT ![who] = r] /\ recovering \in [{"user", "worker"} -> Recoveries]
  BY DEF ReadTurn, t, IInv, RecoverInv
<1> HIDE DEF r
<1>6. recovering'[who] = r
  BY <1>5
<1>7. ReadOK(who)'
  BY <1>1, <1>2, <1>4, <1>6 DEF ReadOK, Outrun, t
<1> QED
  BY <1>4, <1>5, <1>6, <1>7 DEF t

LEMMA RequestRecoveryStep ==
    ASSUME IInv, RequestRecovery
    PROVE  IInv' /\ Calm(db, db')
<1>1. /\ DbInv(db) /\ WorkerInv /\ HistoryInv /\ db' = db /\ Latest(db) # 0
      /\ troubles' \in 0..MaxTroubles
      /\ UNCHANGED <<commands, worker, task, stopping, lateStop, lateRecovery>>
  BY BoundsAssumption DEF IInv, RequestRecovery, Trouble, HistoryInv
<1>2. Fine(db, db') /\ Calm(db, db')
  BY <1>1, SameFine
<1>3. CommandInv' /\ StopInv' /\ WorkerInv' /\ TaskInv'
  BY <1>1, <1>2, RestKept DEF WorkerInv, IInv, TaskInv, HasTask
<1>4. CASE OpenAttempts(db, Latest(db)) = {}
  <2>1. ReadTurn("user", Latest(db)) /\ stopped' = stopped
    BY <1>4 DEF RequestRecovery, Recoverable
  <2>2. /\ recovering' \in [{"user", "worker"} -> Recoveries] /\ ReadOK("user")'
        /\ recovering'["worker"] = recovering["worker"]
    BY <1>1, <1>4, <2>1, TurnRead
  <2>3. RecoverInv'
    BY <1>1, <2>2 DEF IInv, RecoverInv, ReadOK, RetryOK, Outrun
  <2> QED
    BY <1>1, <1>2, <1>3, <2>1, <2>3, Assembled DEF HistoryInv
<1>5. CASE OpenAttempts(db, Latest(db)) # {}
  <2>1. recovering' = recovering /\ stopped' = stopped \ {Latest(db)}
    BY <1>5 DEF RequestRecovery, Recoverable
  <2>2. RecoverInv'
    BY <1>1, <2>1 DEF IInv, RecoverInv, ReadOK, RetryOK, Outrun
  <2> QED
    BY <1>1, <1>2, <1>3, <2>1, <2>2, Assembled DEF HistoryInv
<1> QED
  BY <1>2, <1>4, <1>5

\* What a recovery has read is written: the turn is recovering, and the attempt
\* it adds is alone, unless the conversation changed meanwhile.
LEMMA TurnWritten ==
    ASSUME IInv, NEW who \in {"user", "worker"}, WriteTurn(who)
    PROVE  LET t == recovering[who].turn
           IN  /\ DbInv(db') /\ Grows(db, db') /\ (who = "user" => AutosKept(db, db'))
               /\ t \in DOMAIN db.turns /\ db'.turns[t] \in {db.turns[t], "recovering"}
               /\ \A s \in DOMAIN db.turns \ {t} : db'.turns[s] = db.turns[s]
               /\ Outrun(who) \/ Alone(db, db')
               /\ ~lateStop /\ ~lateRecovery' => OpenUnsettled(db')
               /\ lateRecovery' \in BOOLEAN /\ lateRecovery' = (lateRecovery \/ Late(who))
               /\ recovering' \in [{"user", "worker"} -> Recoveries]
               /\ recovering'[who] = NoRecovery
               /\ \A other \in {"user", "worker"} \ {who} : recovering'[other] = recovering[other]
<1> DEFINE r == recovering[who]
           t == r.turn
           auto == who = "worker"
<1>1. /\ r # NoRecovery /\ db' = Restarted(db, r.turn, r.columns, who = "worker")
      /\ recovering' = [recovering EXCEPT ![who] = NoRecovery]
      /\ lateRecovery' = (lateRecovery \/ Late(who))
  BY DEF WriteTurn
<1>2. /\ DbInv(db) /\ t \in DOMAIN db.turns /\ (OpenAttempts(db, t) # {} => Outrun(who))
      /\ who = "worker" => AttemptsOf(db, t) # {} /\ Cardinality(Autos(db, t)) + 1 < AttemptLimit
  BY <1>1 DEF IInv, RecoverInv, ReadOK, RetryOK
<1>3. (who = "worker") \in BOOLEAN /\ ((who = "user") => ~(who = "worker"))
  OBVIOUS
<1> HIDE DEF t
<1>4. /\ DbInv(db') /\ Grows(db, db') /\ (who = "user" => AutosKept(db, db'))
      /\ OpenAttempts(db, t) = {} => Alone(db, db')
      /\ \A s \in DOMAIN db.turns \ {t} : db'.turns[s] = db.turns[s]
      /\ db'.turns[t] = IF "turn" \in r.columns THEN "recovering" ELSE db.turns[t]
      /\ db'.turns[t] = "recovering" /\ OpenUnsettled(db) => OpenUnsettled(db')
  <2> DEFINE e == Restarted(db, t, r.columns, auto)
  <2>1. /\ DbInv(e) /\ Grows(db, e) /\ (~auto => AutosKept(db, e))
        /\ OpenAttempts(db, t) = {} => Alone(db, e)
        /\ \A s \in DOMAIN db.turns \ {t} : e.turns[s] = db.turns[s]
        /\ e.turns[t] = IF "turn" \in r.columns THEN "recovering" ELSE db.turns[t]
        /\ e.turns[t] = "recovering" /\ OpenUnsettled(db) => OpenUnsettled(e)
    <3>1. /\ auto \in BOOLEAN
          /\ auto => AttemptsOf(db, t) # {} /\ Cardinality(Autos(db, t)) + 1 < AttemptLimit
      BY <1>2
    <3> HIDE DEF r, auto
    <3> QED
      BY <1>2, <3>1, RestartFine
  <2>2. db' = e
    BY <1>1 DEF t
  <2> HIDE DEF e, r
  <2> QED
    BY <1>3, <2>1, <2>2
<1>5. ASSUME ~lateStop, ~lateRecovery' PROVE OpenUnsettled(db')
  <2>1. ~lateRecovery /\ ~Late(who)
    BY <1>1, <1>5 DEF IInv, HistoryInv
  <2>2. r.columns = Outdated(db, t) /\ OpenUnsettled(db)
    BY <1>5, <2>1 DEF Late, IInv, t
  <2>3. "turn" \in r.columns \/ db.turns[t] = "recovering"
    BY <2>2 DEF Outdated
  <2> QED
    BY <1>4, <2>2, <2>3
<1>6. lateRecovery' \in BOOLEAN
  BY <1>1 DEF Late, Outrun, IInv, HistoryInv
<1>7. NoRecovery \in Recoveries
  BY StoreAssumption DEF NoRecovery, Recoveries
<1>8. /\ recovering' \in [{"user", "worker"} -> Recoveries] /\ recovering'[who] = NoRecovery
      /\ \A other \in {"user", "worker"} \ {who} : recovering'[other] = recovering[other]
  BY <1>1, <1>7 DEF IInv, RecoverInv
<1> HIDE DEF r
<1> QED
  BY <1>1, <1>2, <1>4, <1>5, <1>6, <1>8 DEF t, r

LEMMA RecoverStep ==
    ASSUME IInv, Recover
    PROVE  IInv' /\ (Alone(db, db') \/ Outrun("user"))
<1> DEFINE t == recovering["user"].turn
<1>1. /\ DbInv(db) /\ WorkerInv /\ HistoryInv /\ WriteTurn("user") /\ stopped' = stopped \ {t}
      /\ UNCHANGED <<commands, worker, task, stopping, lateStop, troubles>>
  BY DEF IInv, Recover
<1> HIDE DEF t
<1>2. /\ DbInv(db') /\ Grows(db, db') /\ AutosKept(db, db')
      /\ db'.turns[t] \in {db.turns[t], "recovering"}
      /\ \A s \in DOMAIN db.turns \ {t} : db'.turns[s] = db.turns[s]
      /\ Outrun("user") \/ Alone(db, db')
      /\ ~lateStop /\ ~lateRecovery' => OpenUnsettled(db')
      /\ lateRecovery' \in BOOLEAN
      /\ recovering' \in [{"user", "worker"} -> Recoveries] /\ recovering'["user"] = NoRecovery
      /\ recovering'["worker"] = recovering["worker"]
  BY <1>1, TurnWritten DEF t
<1>3. CommandInv' /\ StopInv' /\ WorkerInv' /\ TaskInv'
  BY <1>1, <1>2, GrownKept DEF WorkerInv, IInv, TaskInv, HasTask
<1>4. ReadOK("user")'
  BY <1>2 DEF ReadOK, NoRecovery
<1>5. \A s \in DOMAIN db.turns :
          db'.turns[s] \in {"completed", "cancelled"} => db'.turns[s] = db.turns[s]
  BY <1>2
<1>6. RecoverInv'
  BY <1>1, <1>2, <1>4, <1>5, ApiKept
<1> QED
  BY <1>1, <1>2, <1>3, <1>6 DEF IInv, HistoryInv

\* A stop closes what it read, and the turn has no other open attempt, unless
\* the worker claimed one of them or another was added meanwhile.
LEMMA StopQueuedStep ==
    ASSUME IInv, StopQueued
    PROVE  IInv' /\ Calm(db, db')
<1> DEFINE t == stopping.turn
           I == stopping.attempts
           d == Close(db, I, "cancelled")
           turns == [d.turns EXCEPT ![t] = "cancelled"]
           e == [d EXCEPT !.turns = turns, !.status = "awaiting_user", !.stop = "cancelled"]
<1>1. /\ DbInv(db) /\ WorkerInv /\ HistoryInv /\ db \in Sessions
      /\ t \in DOMAIN db.turns /\ I # {} /\ \A i \in I : db.attempts[i].turn = t
      /\ I \subseteq DOMAIN db.attempts
  BY DEF IInv, DbInv, RowsOK, StopInv, StopQueued
<1>2. /\ db' = e /\ stopping' = NoStop /\ stopped' = stopped \cup {t}
      /\ lateStop' = (lateStop \/ Overtaken)
      /\ UNCHANGED <<commands, worker, task, recovering, lateRecovery, troubles>>
  BY DEF StopQueued
<1>3. /\ Fine(db, d) /\ OnlyCloses(db, d) /\ d.turns = db.turns /\ d.inputs = db.inputs
      /\ \A i \in DOMAIN db.attempts :
            /\ i \in I => ~Open(d, i)
            /\ i \notin I => d.attempts[i] = db.attempts[i]
  BY <1>1, CloseFine
<1> HIDE DEF d, t, I
<1>4. d \in Sessions /\ DbInv(d) /\ DOMAIN d.attempts = DOMAIN db.attempts
  BY <1>1, <1>3, RowsDomains DEF Fine, DbInv, RowsOK, OnlyCloses
<1>5. /\ turns \in Seq(TurnStatuses) /\ Len(turns) = Len(d.turns) /\ DOMAIN turns = DOMAIN d.turns
      /\ turns[t] = "cancelled" /\ \A s \in DOMAIN d.turns \ {t} : turns[s] = d.turns[s]
  <2>1. d.turns \in Seq(TurnStatuses) /\ d.turns \in [DOMAIN d.turns -> TurnStatuses]
    BY <1>4 DEF Sessions
  <2>2. turns \in [DOMAIN d.turns -> TurnStatuses]
    <3>1. "cancelled" \in TurnStatuses
      BY DEF TurnStatuses
    <3> QED
      BY <2>1, <3>1
  <2>3. turns \in Seq(TurnStatuses) /\ Len(turns) = Len(d.turns) /\ DOMAIN turns = DOMAIN d.turns
    BY <2>1, <2>2, Replaced
  <2> QED
    BY <1>1, <1>3, <2>3
<1> HIDE DEF turns
<1>6. e \in Sessions /\ e.turns = turns /\ e.attempts = d.attempts /\ e.inputs = d.inputs
  BY <1>4, <1>5 DEF Sessions, RowStatuses, Stops
<1> HIDE DEF e
<1>7. RowsOK(e)
  BY <1>4, <1>5, <1>6 DEF DbInv, RowsOK
<1>8. DbInv(e)
  BY <1>4, <1>5, <1>6, <1>7, ClosingKeeps DEF OnlyCloses, Open
<1>9. Grows(d, e)
  BY <1>4, <1>5, <1>6, RowsDomains DEF Grows, Open
<1>10. Grows(db, e)
  BY <1>1, <1>3, <1>4, <1>6, <1>9, GrowsTwice DEF Fine
<1>11. ASSUME ~lateStop, ~lateRecovery, ~Overtaken
       PROVE  OpenUnsettled(e)
  <2>1. OpenUnsettled(db)
    BY <1>11 DEF IInv
  <2>2. OpenAttempts(db, t) = I
    BY <1>11 DEF Overtaken, StopQueued, I, t
  <2>3. ASSUME NEW i \in DOMAIN db.attempts, Open(e, i)
        PROVE  e.turns[e.attempts[i].turn] \in {"queued", "recovering"}
    <3>1. i \notin I /\ e.attempts[i] = db.attempts[i] /\ Open(db, i)
      BY <1>3, <1>6, <2>3 DEF Open
    <3>2. db.attempts[i].turn # t
      BY <2>2, <3>1 DEF OpenAttempts, AttemptsOf, Open
    <3>3. db.attempts[i].turn \in DOMAIN db.turns
      BY <1>1 DEF DbInv, RowsOK
    <3> QED
      BY <1>3, <1>5, <1>6, <2>1, <3>1, <3>2, <3>3 DEF OpenUnsettled
  <2> QED
    BY <1>4, <1>6, <2>3 DEF OpenUnsettled
<1>12. Calm(db, db')
  BY <1>2, <1>3, <1>4, <1>5, <1>6 DEF Calm, Spares, Alone
<1>13. CommandInv'
  <2>1. DOMAIN db.inputs = DOMAIN db'.inputs
    BY <1>2, <1>3, <1>6
  <2> QED
    BY <1>2, <2>1 DEF IInv, CommandInv
<1>14. DOMAIN db.turns = DOMAIN db'.turns /\ Len(db'.turns) = Len(db.turns)
  BY <1>2, <1>3, <1>5, <1>6
<1>15. TaskInv' /\ WorkerInv'
  BY <1>1, <1>2, <1>14 DEF IInv, TaskInv, HasTask, WorkerInv, Latest
<1>16. StopInv'
  BY <1>2, StoreAssumption DEF StopInv, NoStop
<1>17. HistoryInv'
  <2>1. t \in Turns
    BY <1>1, RowsDomains, StoreAssumption DEF DbInv, RowsOK, Turns
  <2>2. stopped' \subseteq Turns /\ troubles' \in 0..MaxTroubles
    BY <1>1, <1>2, <2>1 DEF HistoryInv
  <2>3. lateStop' \in BOOLEAN /\ lateRecovery' \in BOOLEAN
    BY <1>1, <1>2 DEF Overtaken, HistoryInv
  <2> QED
    BY <2>2, <2>3 DEF HistoryInv
<1>18. ~lateStop' /\ ~lateRecovery' => OpenUnsettled(db')
  BY <1>2, <1>11
<1>19. RecoverInv'
  <2>1. AutosKept(db, db')
    BY <1>2, <1>3, <1>4, <1>6 DEF AutosKept, OnlyCloses
  <2>2. DbInv(db') /\ Grows(db, db')
    BY <1>2, <1>8, <1>10
  <2>3. ASSUME NEW s \in DOMAIN db.turns
        PROVE  db'.turns[s] = db.turns[s] \/ lateStop' \/ OpenAttempts(db, s) # {}
    <3>1. CASE s # t
      BY <1>2, <1>3, <1>5, <1>6, <3>1
    <3>2. CASE s = t
      <4>1. Overtaken \/ OpenAttempts(db, t) = I
        BY DEF Overtaken, StopQueued, I, t
      <4> QED
        BY <1>1, <1>2, <3>2, <4>1
    <3> QED
      BY <3>1, <3>2
  <2>4. ReadOK("user")'
    BY <1>2, <2>2, GrownKept
  <2> QED
    BY <1>2, <2>1, <2>2, <2>3, <2>4, ApiKept DEF IInv, RecoverInv
<1> QED
  BY <1>2, <1>8, <1>12, <1>13, <1>15, <1>16, <1>17, <1>18, <1>19 DEF IInv

-----------------------------------------------------------------------------
(* The worker's loop *)

\* A step of the loop: the conversation has grown and nothing was asked of it.
LEMMA LoopKept ==
    ASSUME IInv, Fine(db, db'), CommandInv', TaskInv', NEW step, Goto(step),
           step \in {"down", "failed", "expire", "retry", "retrying", "claim", "beat", "commands"},
           RecoverInv' \/ (UNCHANGED recovering /\ worker.pc # "retrying"),
           UNCHANGED <<stopping, stopped, lateStop, lateRecovery>>, troubles' \in 0..MaxTroubles
    PROVE  IInv'
<1>1. WorkerInv'
  BY DEF Goto, WorkerInv
<1>2. StopInv' /\ stopped' \subseteq Turns /\ RecoverInv'
  BY RestKept DEF IInv, HistoryInv
<1> QED
  BY <1>1, <1>2, Assembled

LEMMA StartStep ==
    ASSUME IInv, Start
    PROVE  IInv' /\ Calm(db, db')
<1> DEFINE f == [i \in DOMAIN db.attempts |->
                    IF db.attempts[i].status = "running"
                    THEN [db.attempts[i] EXCEPT !.lapsed = TRUE] ELSE db.attempts[i]]
           g == [c \in DOMAIN commands |->
                    IF commands[c].status = "running"
                    THEN [commands[c] EXCEPT !.status = "queued"] ELSE commands[c]]
<1>1. /\ DbInv(db) /\ db \in Sessions /\ TaskInv /\ HistoryInv
      /\ \A i \in DOMAIN db.attempts : db.attempts[i] \in AttemptRows
      /\ \A i \in DOMAIN db.attempts : db.attempts[i].lapsed => db.attempts[i].status = "running"
  BY RowsDomains DEF IInv, DbInv, RowsOK
<1>2. \A i \in DOMAIN db.attempts :
          /\ f[i] \in AttemptRows /\ f[i].turn = db.attempts[i].turn
          /\ f[i].auto = db.attempts[i].auto /\ f[i].status = db.attempts[i].status
          /\ f[i].lapsed => f[i].status = "running"
  BY <1>1 DEF AttemptRows
<1>3. f \in [DOMAIN db.attempts -> AttemptRows]
  BY <1>2
<1>4. \A c \in DOMAIN commands :
          g[c] \in CommandRows /\ g[c].kind = commands[c].kind /\ g[c].input = commands[c].input
  BY CommandsDomain DEF IInv, CommandRows
<1>5. g \in [DOMAIN commands -> CommandRows]
  BY <1>4
<1>6. /\ db' = [db EXCEPT !.attempts = f] /\ commands' = g /\ Goto("expire")
      /\ UNCHANGED <<task, stopping, recovering, stopped, lateStop, lateRecovery, troubles>>
      /\ worker.pc # "retrying"
  BY DEF Start
<1> HIDE DEF f, g
<1>7. \A i \in DOMAIN db.attempts : f[i].status \in {"queued", "running"} => Open(db, i)
  BY <1>2 DEF Open
<1>8. Fine(db, db') /\ Calm(db, db')
  <2> DEFINE e == [db EXCEPT !.attempts = f]
  <2>1. Fine(db, e) /\ Calm(db, e)
    BY <1>1, <1>2, <1>3, <1>7, AttemptsChanged
  <2> HIDE DEF e
  <2> QED
    BY <1>6, <2>1 DEF e
<1>9. CommandInv'
  BY <1>4, <1>5, <1>6, <1>8, CommandsMapped
<1>10. TaskInv'
  BY <1>1, <1>6, <1>8, RestKept DEF TaskInv, HasTask
<1> QED
  BY <1>1, <1>6, <1>8, <1>9, <1>10, LoopKept DEF HistoryInv

LEMMA ExpireStep ==
    ASSUME IInv, Expire
    PROVE  IInv' /\ (~lateStop /\ ~lateRecovery => Spares(db, db')) /\ Alone(db, db')
<1> DEFINE taken == TakeOverLapsed(db)
<1>1. /\ DbInv(db) /\ TaskInv /\ HistoryInv /\ worker.pc # "retrying"
      /\ UNCHANGED <<commands, stopping, recovering, stopped, lateStop, lateRecovery, troubles>>
  BY DEF IInv, Expire, At
<1>2. taken \in Results /\ Follows(db, taken.rows) /\ Alone(db, taken.rows)
  BY <1>1, TakeOverLapsedFine
<1>3. IF taken.refused
      THEN Goto("failed") /\ task' = NoTask /\ UNCHANGED db
      ELSE Goto("retry") /\ db' = taken.rows /\ UNCHANGED task
  BY DEF Expire
<1> HIDE DEF taken
<1>4. CASE taken.refused
  <2>1. Fine(db, db') /\ Calm(db, db')
    BY <1>1, <1>3, <1>4, SameFine
  <2>2. CommandInv' /\ TaskInv'
    BY <1>1, <1>3, <1>4, <2>1, RestKept
  <2> QED
    BY <1>1, <1>3, <1>4, <2>1, <2>2, LoopKept DEF HistoryInv, Calm
<1>5. CASE ~taken.refused
  <2>1. Fine(db, db') /\ Alone(db, db')
    BY <1>2, <1>3, <1>5 DEF Follows
  <2>2. ~lateStop /\ ~lateRecovery => Spares(db, db')
    BY <1>2, <1>3, <1>5 DEF Follows, Leaves, Spares, IInv
  <2>3. CommandInv' /\ TaskInv'
    BY <1>1, <1>3, <1>5, <2>1, RestKept DEF TaskInv, HasTask
  <2> QED
    BY <1>1, <1>3, <1>5, <2>1, <2>2, <2>3, LoopKept DEF HistoryInv
<1> QED
  BY <1>4, <1>5

LEMMA ReadRetryStep ==
    ASSUME IInv, ReadRetry
    PROVE  IInv' /\ Calm(db, db')
<1>1. /\ DbInv(db) /\ TaskInv /\ HistoryInv /\ worker.pc # "retrying" /\ db' = db
      /\ UNCHANGED <<commands, task, stopping, stopped, lateStop, lateRecovery, troubles>>
  BY DEF IInv, ReadRetry, At
<1>2. Fine(db, db') /\ Calm(db, db')
  BY <1>1, SameFine
<1>3. CommandInv' /\ TaskInv'
  BY <1>1, <1>2, RestKept DEF TaskInv, HasTask
<1>4. CASE (\E t \in DOMAIN db.turns : Retryable(db, t)) /\ Recoverable(db, Latest(db))
  <2> DEFINE t == Latest(db)
  <2>1. /\ ReadTurn("worker", t) /\ Goto("retrying")
        /\ t \in DOMAIN db.turns /\ db.turns[t] = "failed" /\ OpenAttempts(db, t) = {}
        /\ AttemptsOf(db, t) # {} /\ Cardinality(AttemptsOf(db, t)) < AttemptLimit
    BY <1>4 DEF ReadRetry, Retryable, Recoverable
  <2>2. t # 0
    BY <1>1, <2>1, RowsDomains DEF DbInv, RowsOK
  <2>3. /\ recovering' \in [{"user", "worker"} -> Recoveries] /\ ReadOK("worker")'
        /\ recovering'["user"] = recovering["user"] /\ recovering'["worker"].turn = t
    BY <1>1, <2>1, <2>2, TurnRead
  <2>4. ReadOK("user")'
    BY <1>2, <2>3, RestKept
  <2>5. Cardinality(Autos(db, t)) + 1 < AttemptLimit
    BY <1>1, <2>1, LimitLeavesRoom
  <2> HIDE DEF t
  <2>6. RetryOK'
    BY <1>1, <2>1, <2>3, <2>5 DEF RetryOK, Goto
  <2>7. RecoverInv'
    BY <2>3, <2>4, <2>6 DEF RecoverInv
  <2> QED
    BY <1>1, <1>2, <1>3, <2>1, <2>7, LoopKept DEF HistoryInv
<1>5. CASE ~((\E t \in DOMAIN db.turns : Retryable(db, t)) /\ Recoverable(db, Latest(db)))
  <2>1. Goto("claim") /\ recovering' = recovering
    BY <1>5 DEF ReadRetry
  <2> QED
    BY <1>1, <1>2, <1>3, <2>1, LoopKept DEF HistoryInv
<1> QED
  BY <1>2, <1>4, <1>5

LEMMA RetryStep ==
    ASSUME IInv, Retry
    PROVE  /\ IInv' /\ (~lateStop /\ ~lateRecovery' => Spares(db, db'))
           /\ Alone(db, db') \/ Outrun("worker")
<1> DEFINE t == recovering["worker"].turn
<1>1. /\ DbInv(db) /\ TaskInv /\ HistoryInv /\ Goto("claim") /\ WriteTurn("worker")
      /\ UNCHANGED <<commands, task, stopping, stopped, lateStop, troubles>>
  BY DEF IInv, Retry
<1>2. recovering["worker"] # NoRecovery
  BY <1>1 DEF WriteTurn
<1>3. ~lateStop /\ ~Outrun("worker") => db.turns[t] \notin {"completed", "cancelled"}
  BY <1>2 DEF IInv, RecoverInv, RetryOK
<1> HIDE DEF t
<1>4. /\ DbInv(db') /\ Grows(db, db')
      /\ \A s \in DOMAIN db.turns \ {t} : db'.turns[s] = db.turns[s]
      /\ Outrun("worker") \/ Alone(db, db')
      /\ ~lateStop /\ ~lateRecovery' => OpenUnsettled(db')
      /\ lateRecovery' \in BOOLEAN /\ lateRecovery' = (lateRecovery \/ Late("worker"))
      /\ recovering' \in [{"user", "worker"} -> Recoveries] /\ recovering'["worker"] = NoRecovery
      /\ recovering'["user"] = recovering["user"]
  BY <1>1, TurnWritten DEF t
<1>5. ASSUME ~lateStop, ~lateRecovery' PROVE Spares(db, db')
  <2>1. ~Outrun("worker")
    BY <1>4, <1>5 DEF Late
  <2> QED
    BY <1>3, <1>4, <1>5, <2>1 DEF Spares
<1>6. CommandInv' /\ TaskInv' /\ StopInv' /\ ReadOK("user")'
  BY <1>1, <1>4, GrownKept DEF TaskInv, HasTask
<1>7. RecoverInv'
  BY <1>4, <1>6 DEF RecoverInv, ReadOK, RetryOK, NoRecovery
<1>8. WorkerInv'
  BY <1>1 DEF Goto, WorkerInv
<1> QED
  BY <1>1, <1>4, <1>5, <1>6, <1>7, <1>8 DEF IInv, HistoryInv

\* An attempt is claimed, or its lease changes.
LEMMA AttemptSet ==
    ASSUME NEW d, DbInv(d), NEW i \in DOMAIN d.attempts, Open(d, i), NEW lapsed \in BOOLEAN
    PROVE  LET e == [d EXCEPT !.attempts[i] = [@ EXCEPT !.status = "running", !.lapsed = lapsed]]
           IN  Fine(d, e) /\ Calm(d, e)
<1> DEFINE a == [d.attempts[i] EXCEPT !.status = "running", !.lapsed = lapsed]
           f == [d.attempts EXCEPT ![i] = a]
           e == [d EXCEPT !.attempts = f]
<1>1. /\ d \in Sessions
      /\ \A k \in DOMAIN d.attempts : d.attempts[k] \in AttemptRows
      /\ \A k \in DOMAIN d.attempts : d.attempts[k].lapsed => d.attempts[k].status = "running"
  BY RowsDomains DEF DbInv, RowsOK
<1>2. /\ a \in AttemptRows /\ a.turn = d.attempts[i].turn /\ a.auto = d.attempts[i].auto
      /\ a.status = "running"
  BY <1>1 DEF AttemptRows, AttemptStatuses
<1> HIDE DEF a
<1>3. DOMAIN f = DOMAIN d.attempts /\ f[i] = a /\ \A k \in DOMAIN d.attempts \ {i} : f[k] = d.attempts[k]
  OBVIOUS
<1> HIDE DEF f
<1>4. \A k \in DOMAIN d.attempts :
          /\ f[k] \in AttemptRows
          /\ f[k].turn = d.attempts[k].turn /\ f[k].auto = d.attempts[k].auto
          /\ f[k].status \in {"queued", "running"} => Open(d, k)
          /\ f[k].lapsed => f[k].status = "running"
  BY <1>1, <1>2, <1>3 DEF Open
<1>5. f \in [DOMAIN d.attempts -> AttemptRows]
  <2>1. f = [k \in DOMAIN d.attempts |-> f[k]]
    BY <1>3 DEF f
  <2> QED
    BY <1>4, <2>1
<1>6. Fine(d, e) /\ Calm(d, e)
  BY <1>4, <1>5, AttemptsChanged
<1>7. [d EXCEPT !.attempts[i] = [@ EXCEPT !.status = "running", !.lapsed = lapsed]] = e
  BY <1>1 DEF f, a, Sessions
<1> HIDE DEF e
<1> QED
  BY <1>6, <1>7

LEMMA ClaimStep ==
    ASSUME IInv, Claim
    PROVE  IInv' /\ Calm(db, db')
<1> DEFINE queued == {i \in DOMAIN db.attempts : db.attempts[i].status = "queued"}
           first == CHOOSE i \in queued : \A j \in queued : i <= j
<1>1. /\ DbInv(db) /\ db \in Sessions /\ TaskInv /\ HistoryInv /\ Goto("beat")
      /\ UNCHANGED <<commands, stopping, recovering, stopped, lateStop, lateRecovery, troubles>>
      /\ worker.pc # "retrying"
  BY DEF IInv, Claim, At, DbInv, RowsOK
<1>2. IF HasTask \/ queued = {}
      THEN UNCHANGED <<db, task>>
      ELSE /\ db' = [db EXCEPT !.attempts[first].status = "running"]
           /\ StartTask(db.attempts[first].turn)
  BY DEF Claim
<1>3. CASE HasTask \/ queued = {}
  <2>1. db' = db /\ task' = task
    BY <1>2, <1>3
  <2>2. Fine(db, db') /\ Calm(db, db')
    BY <1>1, <2>1, SameFine
  <2>3. CommandInv' /\ TaskInv'
    BY <1>1, <2>1, <2>2, RestKept DEF TaskInv, HasTask
  <2> QED
    BY <1>1, <2>2, <2>3, LoopKept DEF HistoryInv
<1>4. CASE ~(HasTask \/ queued = {})
  <2>1. queued \in SUBSET Nat /\ queued # {}
    BY <1>1, <1>4, RowsDomains
  <2>2. first \in queued
    BY <2>1, FirstIndex
  <2> HIDE DEF first
  <2>3. /\ first \in DOMAIN db.attempts /\ db.attempts[first].status = "queued"
        /\ db.attempts[first] \in AttemptRows
        /\ db.attempts[first].turn \in DOMAIN db.turns /\ db.attempts[first].turn \in Turns
        /\ db.attempts[first].lapsed = FALSE
    BY <1>1, <2>2, RowsDomains DEF DbInv, RowsOK, AttemptRows
  <2>4. db' = [db EXCEPT !.attempts[first] = [@ EXCEPT !.status = "running", !.lapsed = FALSE]]
    <3>1. [db.attempts[first] EXCEPT !.status = "running"]
            = [db.attempts[first] EXCEPT !.status = "running", !.lapsed = FALSE]
      BY <2>3 DEF AttemptRows
    <3>2. db' = [db EXCEPT !.attempts[first].status = "running"]
      BY <1>2, <1>4
    <3> QED
      BY <3>1, <3>2
  <2>5. Fine(db, db') /\ Calm(db, db')
    BY <1>1, <2>3, <2>4, AttemptSet DEF Open
  <2>6. task' = [NoTask EXCEPT !.turn = db.attempts[first].turn, !.pc = "starting"]
    BY <1>2, <1>4 DEF StartTask
  <2>7. task' \in Tasks /\ task'.turn = db.attempts[first].turn
    <3>1. task' = [turn |-> db.attempts[first].turn, pc |-> "starting",
                   event |-> FALSE, killed |-> FALSE]
      BY <2>6 DEF NoTask
    <3>2. db.attempts[first].turn \in 0..MaxTurns
      BY <2>3, StoreAssumption DEF Turns
    <3> HIDE DEF queued
    <3> QED
      BY <3>1, <3>2 DEF Tasks
  <2>8. TaskInv'
    BY <2>3, <2>5, <2>7, RestKept DEF TaskInv, HasTask, Tasks
  <2>9. CommandInv'
    BY <1>1, <2>5, RestKept
  <2> QED
    BY <1>1, <2>5, <2>8, <2>9, LoopKept DEF HistoryInv
<1> QED
  BY <1>3, <1>4

LEMMA BeatStep ==
    ASSUME IInv, Beat
    PROVE  IInv' /\ Calm(db, db')
<1> DEFINE f == [i \in DOMAIN db.attempts |-> [db.attempts[i] EXCEPT !.lapsed = FALSE]]
           g == [c \in DOMAIN commands |->
                    IF commands[c].status = "queued"
                    THEN [commands[c] EXCEPT !.status = "running"] ELSE commands[c]]
           step == IF \E c \in DOMAIN commands : commands[c].status = "queued"
                   THEN "commands" ELSE "expire"
<1>1. /\ DbInv(db) /\ db \in Sessions /\ TaskInv /\ HistoryInv
      /\ \A i \in DOMAIN db.attempts : db.attempts[i] \in AttemptRows
  BY RowsDomains DEF IInv, DbInv, RowsOK
<1>2. \A i \in DOMAIN db.attempts :
          /\ f[i] \in AttemptRows /\ f[i].turn = db.attempts[i].turn
          /\ f[i].auto = db.attempts[i].auto /\ f[i].status = db.attempts[i].status
          /\ ~f[i].lapsed
  BY <1>1 DEF AttemptRows
<1>3. f \in [DOMAIN db.attempts -> AttemptRows]
  BY <1>2
<1>4. \A c \in DOMAIN commands :
          g[c] \in CommandRows /\ g[c].kind = commands[c].kind /\ g[c].input = commands[c].input
  BY CommandsDomain DEF IInv, CommandRows
<1>5. g \in [DOMAIN commands -> CommandRows]
  BY <1>4
<1>6. /\ db' = [db EXCEPT !.attempts = f] /\ commands' = g /\ Goto(step)
      /\ UNCHANGED <<task, stopping, recovering, stopped, lateStop, lateRecovery, troubles>>
      /\ worker.pc # "retrying"
  BY DEF Beat, At
<1>7. step \in {"expire", "commands"}
  OBVIOUS
<1> HIDE DEF f, g, step
<1>8. \A i \in DOMAIN db.attempts : f[i].status \in {"queued", "running"} => Open(db, i)
  BY <1>2 DEF Open
<1>9. Fine(db, db') /\ Calm(db, db')
  <2> DEFINE e == [db EXCEPT !.attempts = f]
  <2>1. Fine(db, e) /\ Calm(db, e)
    BY <1>1, <1>2, <1>3, <1>8, AttemptsChanged
  <2> HIDE DEF e
  <2> QED
    BY <1>6, <2>1 DEF e
<1>10. CommandInv'
  BY <1>4, <1>5, <1>6, <1>9, CommandsMapped
<1>11. TaskInv'
  BY <1>1, <1>6, <1>9, RestKept DEF TaskInv, HasTask
<1> QED
  BY <1>1, <1>6, <1>7, <1>9, <1>10, <1>11, LoopKept DEF HistoryInv

LEMMA LapseStep ==
    ASSUME IInv, Lapse
    PROVE  IInv' /\ Calm(db, db')
<1>1. /\ DbInv(db) /\ db \in Sessions /\ TaskInv /\ HistoryInv /\ WorkerInv
      /\ UNCHANGED <<commands, worker, task, stopping, recovering, stopped, lateStop, lateRecovery,
                     troubles>>
      /\ worker.pc # "retrying"
  BY DEF IInv, Lapse, DbInv, RowsOK, WorkerInv
<1>2. PICK i \in DOMAIN db.attempts :
          db.attempts[i].status = "running" /\ db' = [db EXCEPT !.attempts[i].lapsed = TRUE]
  BY DEF Lapse
<1>3. db' = [db EXCEPT !.attempts[i] = [@ EXCEPT !.status = "running", !.lapsed = TRUE]]
  <2>1. db.attempts[i] \in AttemptRows
    BY <1>1, RowsDomains
  <2>2. [db.attempts[i] EXCEPT !.lapsed = TRUE]
          = [db.attempts[i] EXCEPT !.status = "running", !.lapsed = TRUE]
    BY <1>2, <2>1 DEF AttemptRows
  <2> QED
    BY <1>2, <2>2
<1>4. Fine(db, db') /\ Calm(db, db')
  <2> DEFINE e == [db EXCEPT !.attempts[i] = [@ EXCEPT !.status = "running", !.lapsed = TRUE]]
  <2>1. Open(db, i)
    BY <1>2 DEF Open
  <2>2. Fine(db, e) /\ Calm(db, e)
    BY <1>1, <2>1, AttemptSet
  <2> HIDE DEF e
  <2> QED
    BY <1>3, <2>2 DEF e
<1>5. CommandInv' /\ StopInv' /\ TaskInv' /\ WorkerInv' /\ RecoverInv'
  BY <1>1, <1>4, RestKept DEF TaskInv, HasTask, WorkerInv
<1> QED
  BY <1>1, <1>4, <1>5, Assembled DEF HistoryInv

LEMMA CrashStep ==
    ASSUME IInv, Crash
    PROVE  IInv' /\ Calm(db, db')
<1>1. /\ DbInv(db) /\ Goto("down") /\ task' = NoTask /\ db' = db
      /\ UNCHANGED <<commands, stopping, stopped, lateStop, lateRecovery>>
      /\ recovering' = [recovering EXCEPT !["worker"] = NoRecovery]
      /\ troubles' \in 0..MaxTroubles
  BY BoundsAssumption DEF IInv, Crash, Trouble, HistoryInv
<1>2. Fine(db, db') /\ Calm(db, db')
  BY <1>1, SameFine
<1>3. CommandInv' /\ TaskInv'
  BY <1>1, <1>2, RestKept
<1>4. NoRecovery \in Recoveries
  BY StoreAssumption DEF NoRecovery, Recoveries
<1>5. /\ recovering' \in [{"user", "worker"} -> Recoveries] /\ recovering'["worker"] = NoRecovery
      /\ recovering'["user"] = recovering["user"]
  BY <1>1, <1>4 DEF IInv, RecoverInv
<1>6. ReadOK("user")'
  BY <1>2, <1>5, RestKept
<1>7. RecoverInv'
  BY <1>5, <1>6 DEF RecoverInv, ReadOK, RetryOK, NoRecovery
<1> QED
  BY <1>1, <1>2, <1>3, <1>7, LoopKept

-----------------------------------------------------------------------------
(* Commands *)

\* The worker waits for the adapter: there is a turn it works on.
LEMMA WaitKept ==
    ASSUME IInv, Fine(db, db'), NEW for \in {"interrupt", "clear", "answer"}, Wait(for),
           Latest(db) # 0, worker.pc = "commands"
    PROVE  CommandInv' /\ WorkerInv'
<1>1. CommandInv' /\ Latest(db)' # 0
  BY RestKept DEF Wait
<1>2. worker' = [worker EXCEPT !.waits = for]
  BY DEF Wait
<1>3. WorkerInv
  BY DEF IInv
<1> QED
  BY <1>1, <1>2, <1>3 DEF WorkerInv

LEMMA HasLatest == ASSUME IInv, HasTask PROVE Latest(db) # 0
BY RowsDomains DEF IInv, TaskInv, DbInv, RowsOK, Latest

LEMMA InCommands ==
    ASSUME IInv, Commands
    PROVE  /\ worker.pc = "commands"
           /\ UNCHANGED <<stopping, recovering, lateStop, lateRecovery, troubles>>
BY DEF IInv, WorkerInv, Commands, Cancel, Interrupted, AnswerInput, Cleared, Answered, Executing,
       At, Waiting

\* What a command changes besides the conversation is good again.
LEMMA CommandKept ==
    ASSUME IInv, Commands, Fine(db, db'), CommandInv', WorkerInv', TaskInv', stopped' \subseteq Turns
    PROVE  IInv'
<1>1. StopInv' /\ troubles' \in 0..MaxTroubles /\ RecoverInv' /\ UNCHANGED <<lateStop, lateRecovery>>
  BY RestKept, InCommands DEF IInv, HistoryInv
<1> QED
  BY <1>1, Assembled

LEMMA CancelStep ==
    ASSUME IInv, Cancel
    PROVE  IInv' /\ Calm(db, db')
<1>1. /\ DbInv(db) /\ task \in Tasks /\ TaskInv /\ db' = db /\ stopped' \subseteq Turns
      /\ Commands /\ worker.pc = "commands"
  BY InCommands DEF IInv, Cancel, TaskInv, Tasks, HistoryInv, Commands
<1>2. Fine(db, db') /\ Calm(db, db')
  BY <1>1, SameFine
<1>3. CASE HasTask
  <2>1. task' = [task EXCEPT !.event = TRUE] /\ Wait("interrupt")
    BY <1>3 DEF Cancel
  <2>2. CommandInv' /\ WorkerInv'
    BY <1>1, <1>2, <1>3, <2>1, HasLatest, WaitKept
  <2>3. task' \in Tasks /\ task'.turn = task.turn /\ task'.pc = task.pc
    BY <1>1, <2>1 DEF Tasks
  <2>4. TaskInv'
    BY <1>2, <2>3, RestKept DEF HasTask
  <2> QED
    BY <1>1, <1>2, <2>2, <2>4, CommandKept
<1>4. CASE ~HasTask
  <2>1. Done("completed") /\ task' = task
    BY <1>4 DEF Cancel
  <2>2. CommandInv' /\ WorkerInv'
    BY <1>2, <2>1, DoneKept
  <2>3. TaskInv'
    BY <1>1, <1>2, <2>1, RestKept DEF HasTask
  <2> QED
    BY <1>1, <1>2, <2>2, <2>3, CommandKept
<1> QED
  BY <1>3, <1>4

LEMMA InterruptedStep ==
    ASSUME IInv, Interrupted
    PROVE  IInv' /\ Calm(db, db')
<1>1. /\ DbInv(db) /\ db \in Sessions /\ task \in Tasks /\ stopped \subseteq Turns
      /\ Latest(db) # 0 /\ Commands
  BY DEF IInv, Interrupted, Waiting, WorkerInv, TaskInv, Tasks, HistoryInv, DbInv, RowsOK, Commands
<1>2. /\ db' = Stop(db) /\ Kill /\ Done("completed")
      /\ stopped' = stopped \cup {Latest(db)}
  BY DEF Interrupted
<1>3. Fine(db, db') /\ Calm(db, db')
  BY <1>1, <1>2, StopReworded, RewordedFine
<1>4. CommandInv' /\ WorkerInv'
  BY <1>2, <1>3, DoneKept
<1>5. task' \in Tasks /\ task'.turn = task.turn /\ task'.pc = task.pc
  BY <1>1, <1>2 DEF Kill, Tasks
<1>6. TaskInv'
  BY <1>3, <1>5, RestKept DEF HasTask
<1>7. Latest(db) \in Turns
  BY <1>1, RowsDomains, StoreAssumption DEF Latest, Turns, DbInv, RowsOK
<1> QED
  BY <1>1, <1>2, <1>3, <1>4, <1>6, <1>7, CommandKept

LEMMA NewTurnFine ==
    ASSUME IInv, NEW d, Reworded(db, d), NEW i, NEW old \in Tasks, old.turn = task.turn,
           old.pc # "none" => HasTask, AnswerInNewTurn(d, i, old)
    PROVE  /\ Fine(db, db') /\ Calm(db, db')
           /\ CommandInv' /\ WorkerInv' /\ TaskInv'
<1>1. DbInv(db) /\ db \in Sessions /\ d \in Sessions /\ d.turns = db.turns
  BY DEF IInv, DbInv, RowsOK, Reworded
<1>2. Fine(db, d) /\ Calm(db, d) /\ DbInv(d)
  BY <1>1, RewordedFine DEF Fine
<1>3. CASE ~CanAppend(d)
  <2>1. db' = d /\ task' = old /\ Done("failed")
    BY <1>3 DEF AnswerInNewTurn
  <2>2. CommandInv' /\ WorkerInv'
    BY <1>2, <2>1, DoneKept
  <2>3. TaskInv'
    BY <1>2, <2>1, RestKept
  <2> QED
    BY <1>2, <2>1, <2>2, <2>3
<1>4. CASE CanAppend(d)
  <2> DEFINE e == AppendMessage(d)
             g == Resolved(e, i)
  <2>1. /\ Fine(d, e) /\ Calm(d, e)
        /\ Len(e.turns) = Len(d.turns) + 1
    BY <1>2, <1>4, AppendFine
  <2>2. /\ db' = g
        /\ \/ old.pc # "none" /\ task' = old /\ Done("failed")
           \/ old.pc = "none" /\ StartTask(Latest(d) + 1) /\ Done("completed")
    BY <1>4 DEF AnswerInNewTurn
  <2> HIDE DEF e
  <2>3. DbInv(e) /\ e \in Sessions
    BY <2>1 DEF Fine, DbInv, RowsOK
  <2>4. Reworded(e, g)
    BY <2>3, ResolvedReworded
  <2> HIDE DEF g
  <2>5. Fine(e, g) /\ g.turns = e.turns
    BY <2>3, <2>4, RewordedFine DEF Reworded
  <2>6. Fine(db, e)
    BY <1>1, <1>2, <2>1, FineTwice
  <2>7. Fine(db, g)
    BY <1>1, <2>5, <2>6, FineTwice
  <2>8. Calm(db, g)
    <3>1. g.attempts = e.attempts /\ d.attempts = db.attempts
      BY <2>4 DEF Reworded
    <3> QED
      BY <1>1, <2>1, <2>5, <3>1 DEF Calm, Spares, Alone, OpenAttempts, AttemptsOf
  <2>9. Fine(db, db') /\ Calm(db, db')
    BY <2>2, <2>7, <2>8
  <2>10. CommandInv' /\ WorkerInv'
    BY <2>2, <2>9, DoneKept
  <2>11. TaskInv'
    <3>1. CASE task' = old
      BY <2>9, <3>1, RestKept
    <3>2. CASE StartTask(Latest(d) + 1)
      <4> DEFINE t == Latest(d) + 1
      <4>1. g \in Sessions /\ Len(g.turns) = t /\ Len(g.turns) <= MaxTurns
        BY <2>1, <2>5, <2>7 DEF Latest, Fine, DbInv, RowsOK
      <4>2. t \in DOMAIN g.turns /\ t \in 0..MaxTurns
        BY <1>1, <4>1, RowsDomains, StoreAssumption DEF Latest
      <4>3. task' = [turn |-> t, pc |-> "starting", event |-> FALSE, killed |-> FALSE]
        BY <3>2 DEF StartTask, NoTask
      <4> HIDE DEF t
      <4>4. task' \in Tasks /\ task'.turn = t
        BY <4>2, <4>3 DEF Tasks
      <4> QED
        BY <2>2, <4>2, <4>4 DEF TaskInv, Tasks, HasTask
    <3> QED
      BY <2>2, <3>1, <3>2
  <2> QED
    BY <2>9, <2>10, <2>11
<1> QED
  BY <1>3, <1>4

LEMMA AnswerInputStep ==
    ASSUME IInv, AnswerInput
    PROVE  IInv' /\ Calm(db, db')
<1> DEFINE i == commands[Current].input
           item == db.inputs[i]
           d == [Fallback(db) EXCEPT !.status = "awaiting_user"]
           r == [Resolved(db, i) EXCEPT !.status = "running"]
<1>1. /\ DbInv(db) /\ db \in Sessions /\ TaskInv /\ task \in Tasks /\ CommandInv
      /\ stopped' \subseteq Turns /\ Commands /\ worker.pc = "commands"
  BY InCommands DEF IInv, DbInv, RowsOK, TaskInv, Tasks, HistoryInv, AnswerInput, Commands
<1>2. Executing("answer_input")
  BY DEF AnswerInput
<1>3. i \in DOMAIN db.inputs /\ item \in InputRows /\ item.turn \in DOMAIN db.turns
  <2>1. Taken # {} /\ commands[Current].kind = "answer_input"
    BY <1>2 DEF Executing
  <2>2. i \in DOMAIN db.inputs
    BY <1>1, <2>1, CurrentTaken DEF CommandInv
  <2> QED
    BY <1>1, <2>2, RowsDomains DEF DbInv, RowsOK
<1>4. \/ (Done("completed") \/ Done("failed")) /\ UNCHANGED <<db, task>>
      \/ db' = d /\ Done("failed") /\ UNCHANGED task
      \/ /\ task.turn = item.turn
         /\ db' = r /\ Wait("answer") /\ UNCHANGED task
      \/ AnswerInNewTurn(d, i, task)
      \/ AnswerInNewTurn(db, i, task)
      \/ HasTask /\ task' = [task EXCEPT !.event = TRUE] /\ Wait("clear") /\ UNCHANGED db
  <2>1. /\ item.status \in {"pending", "resolved", "cancelled"}
        /\ item.mode \in {"resume_turn", "new_turn"}
    BY <1>3 DEF InputRows, Modes
  <2>2. CASE item.status = "resolved"
    BY <2>2 DEF AnswerInput
  <2>3. CASE item.status = "cancelled"
    BY <2>3 DEF AnswerInput
  <2>4. CASE item.status = "pending" /\ item.mode = "resume_turn"
    BY <2>4 DEF AnswerInput
  <2>5. CASE item.status = "pending" /\ item.mode = "new_turn"
    BY <2>5 DEF AnswerInput
  <2> QED
    BY <2>1, <2>2, <2>3, <2>4, <2>5
<1> HIDE DEF i
<1>5. CASE (Done("completed") \/ Done("failed")) /\ UNCHANGED <<db, task>>
  <2>1. Fine(db, db') /\ Calm(db, db')
    BY <1>1, <1>5, SameFine
  <2>2. CommandInv' /\ WorkerInv'
    BY <1>5, <2>1, DoneKept
  <2>3. TaskInv'
    BY <1>1, <1>5, <2>1, RestKept DEF HasTask
  <2> QED
    BY <1>1, <2>1, <2>2, <2>3, CommandKept
<1>6. CASE db' = r /\ Wait("answer") /\ UNCHANGED task
  <2>1. Reworded(db, r)
    <3> DEFINE m == Resolved(db, i)
    <3>1. Reworded(db, m)
      BY <1>1, ResolvedReworded
    <3>2. r = [m EXCEPT !.status = "running"]
      OBVIOUS
    <3> HIDE DEF m, r
    <3> QED
      BY <3>1, <3>2 DEF Reworded, Sessions, RowStatuses
  <2> HIDE DEF r
  <2>2. Fine(db, db') /\ Calm(db, db')
    BY <1>1, <1>6, <2>1, RewordedFine
  <2>3. Latest(db) # 0
    BY <1>1, <1>3, RowsDomains DEF Latest
  <2>4. CommandInv' /\ WorkerInv'
    BY <1>1, <1>6, <2>2, <2>3, WaitKept
  <2>5. TaskInv'
    BY <1>1, <1>6, <2>2, RestKept DEF HasTask
  <2> QED
    BY <1>1, <2>2, <2>4, <2>5, CommandKept
<1>7. CASE AnswerInNewTurn(d, i, task) \/ AnswerInNewTurn(db, i, task)
  <2>1. Reworded(db, d)
    BY <1>1, FallbackReworded DEF Reworded, Sessions, RowStatuses
  <2>2. Reworded(db, db)
    BY <1>1 DEF Reworded
  <2> HIDE DEF d
  <2>3. Fine(db, db') /\ Calm(db, db') /\ CommandInv' /\ WorkerInv' /\ TaskInv'
    BY <1>1, <1>7, <2>1, <2>2, NewTurnFine DEF HasTask
  <2> QED
    BY <1>1, <2>3, CommandKept
<1>8. CASE HasTask /\ task' = [task EXCEPT !.event = TRUE] /\ Wait("clear") /\ UNCHANGED db
  <2>1. Fine(db, db') /\ Calm(db, db')
    BY <1>1, <1>8, SameFine
  <2>2. CommandInv' /\ WorkerInv'
    BY <1>1, <1>8, <2>1, HasLatest, WaitKept
  <2>3. task' \in Tasks /\ task'.turn = task.turn /\ task'.pc = task.pc
    BY <1>1, <1>8 DEF Tasks
  <2>4. TaskInv'
    BY <2>1, <2>3, RestKept DEF HasTask
  <2> QED
    BY <1>1, <2>1, <2>2, <2>4, CommandKept
<1>9. CASE db' = d /\ Done("failed") /\ UNCHANGED task
  <2>1. Reworded(db, d)
    BY <1>1, FallbackReworded DEF Reworded, Sessions, RowStatuses
  <2> HIDE DEF d
  <2>2. Fine(db, db') /\ Calm(db, db')
    BY <1>1, <1>9, <2>1, RewordedFine
  <2>3. CommandInv' /\ WorkerInv'
    BY <1>9, <2>2, DoneKept
  <2>4. TaskInv'
    BY <1>1, <1>9, <2>2, RestKept DEF HasTask
  <2> QED
    BY <1>1, <2>2, <2>3, <2>4, CommandKept
<1> HIDE DEF d, r, item
<1> QED
  BY <1>4, <1>5, <1>6, <1>7, <1>8, <1>9

LEMMA ClearedStep ==
    ASSUME IInv, Cleared
    PROVE  IInv' /\ Calm(db, db')
<1> DEFINE i == commands[Current].input
           old == IF HasTask THEN [task EXCEPT !.killed = TRUE] ELSE task
           d == Stop(db)
<1>1. /\ DbInv(db) /\ db \in Sessions /\ task \in Tasks /\ stopped' \subseteq Turns /\ Commands
  BY DEF IInv, DbInv, RowsOK, TaskInv, Tasks, HistoryInv, Cleared, Commands
<1>2. old \in Tasks /\ old.turn = task.turn /\ old.pc = task.pc
  BY <1>1 DEF Tasks
<1>3. \/ db' = d /\ task' = old /\ Done("failed")
      \/ AnswerInNewTurn(d, i, old)
  BY DEF Cleared
<1>4. Reworded(db, d)
  BY <1>1, StopReworded
<1> HIDE DEF i, old, d
<1>5. Fine(db, db') /\ Calm(db, db') /\ CommandInv' /\ WorkerInv' /\ TaskInv'
  <2>1. CASE db' = d /\ task' = old /\ Done("failed")
    <3>1. Fine(db, db') /\ Calm(db, db')
      BY <1>1, <1>4, <2>1, RewordedFine
    <3>2. CommandInv' /\ WorkerInv'
      BY <2>1, <3>1, DoneKept
    <3>3. TaskInv'
      BY <1>2, <2>1, <3>1, RestKept DEF HasTask
    <3> QED
      BY <3>1, <3>2, <3>3
  <2>2. CASE AnswerInNewTurn(d, i, old)
    BY <1>2, <1>4, <2>2, NewTurnFine DEF HasTask
  <2> QED
    BY <1>3, <2>1, <2>2
<1> QED
  BY <1>1, <1>5, CommandKept

LEMMA AnsweredStep ==
    ASSUME IInv, Answered
    PROVE  IInv' /\ Calm(db, db')
<1> DEFINE i == commands[Current].input
           f == [db.inputs EXCEPT ![i] = [@ EXCEPT !.status = "pending", !.mode = "new_turn"]]
           m == [db EXCEPT !.inputs = f]
           e == [db EXCEPT !.inputs[i] = [@ EXCEPT !.status = "pending", !.mode = "new_turn"],
                           !.status = "awaiting_user"]
<1>1. /\ DbInv(db) /\ db \in Sessions /\ TaskInv /\ stopped' \subseteq Turns /\ Commands
      /\ UNCHANGED task
  BY DEF IInv, DbInv, RowsOK, HistoryInv, Answered, Commands
<1>2. \/ db' = db /\ Done("completed")
      \/ db' = e /\ Done("failed")
  BY DEF Answered
<1>3. Reworded(db, e)
  <2>1. \A k \in DOMAIN db.inputs : f[k] \in InputRows /\ f[k].turn = db.inputs[k].turn
    <3>1. \A k \in DOMAIN db.inputs : db.inputs[k] \in InputRows
      BY <1>1, RowsDomains
    <3>2. \A q \in InputRows :
              LET p == [q EXCEPT !.status = "pending", !.mode = "new_turn"]
              IN  p \in InputRows /\ p.turn = q.turn
      BY DEF InputRows, Modes
    <3>3. \A k \in DOMAIN db.inputs :
              f[k] = IF k = i THEN [db.inputs[k] EXCEPT !.status = "pending", !.mode = "new_turn"]
                     ELSE db.inputs[k]
      OBVIOUS
    <3> HIDE DEF f
    <3> QED
      BY <3>1, <3>2, <3>3
  <2>2. f \in [DOMAIN db.inputs -> InputRows]
    BY <2>1
  <2>3. e = [m EXCEPT !.status = "awaiting_user"]
    BY <1>1 DEF Sessions
  <2> HIDE DEF f, e
  <2>4. Reworded(db, m)
    BY <1>1, <2>1, <2>2, InputsReworded
  <2> HIDE DEF m
  <2> QED
    BY <2>3, <2>4 DEF Reworded, Sessions, RowStatuses
<1>4. Reworded(db, db)
  BY <1>1 DEF Reworded
<1> HIDE DEF i, f, m, e
<1>5. Fine(db, db') /\ Calm(db, db')
  BY <1>1, <1>2, <1>3, <1>4, RewordedFine
<1>6. CommandInv' /\ WorkerInv'
  BY <1>2, <1>5, DoneKept
<1>7. TaskInv'
  BY <1>1, <1>5, RestKept DEF TaskInv, HasTask
<1> QED
  BY <1>1, <1>5, <1>6, <1>7, CommandKept

-----------------------------------------------------------------------------
(* The task that runs a turn *)

\* The task goes on or ends; its turn stays the same.
LEMMA TaskKept ==
    ASSUME IInv, Fine(db, db'), TaskOnly,
           \/ task' \in Tasks /\ task'.turn = task.turn /\ HasTask
           \/ task' = NoTask
    PROVE  IInv'
<1>1. CommandInv' /\ StopInv' /\ TaskInv' /\ WorkerInv' /\ stopped' \subseteq Turns
      /\ troubles' \in 0..MaxTroubles /\ RecoverInv'
  BY RestKept DEF TaskOnly, IInv, WorkerInv, HistoryInv
<1> QED
  BY <1>1, Assembled DEF TaskOnly

LEMMA TaskStep ==
    ASSUME IInv, Task
    PROVE  IInv' /\ Calm(db, db')
<1>1. DbInv(db) /\ db \in Sessions /\ TaskInv /\ task \in Tasks
  BY DEF IInv, DbInv, RowsOK, TaskInv, Tasks
<1>2. ASSUME Ending, HasTask
      PROVE  task' \in Tasks /\ task'.turn = task.turn /\ HasTask
  BY <1>1, <1>2 DEF Ending, Tasks
<1>3. ASSUME Fine(db, db'), Calm(db, db'), TaskOnly, HasTask, Ending \/ task' = task
      PROVE  IInv' /\ Calm(db, db')
  BY <1>1, <1>2, <1>3, TaskKept
<1>4. ASSUME Reworded(db, db'), TaskOnly, HasTask, Ending \/ task' = task
      PROVE  IInv' /\ Calm(db, db')
  BY <1>1, <1>3, <1>4, RewordedFine
<1>5. Reworded(db, db)
  BY <1>1 DEF Reworded
<1>6. CASE Begin
  <2>1. /\ HasTask /\ TaskOnly /\ db' = db
        /\ task' = [task EXCEPT !.pc = IF task.event \/ task.killed THEN "ending" ELSE "streaming"]
    BY <1>6 DEF Begin, HasTask
  <2>2. task' \in Tasks /\ task'.turn = task.turn
    BY <1>1, <2>1 DEF Tasks
  <2> QED
    BY <1>1, <2>1, <2>2, SameFine, TaskKept
<1>7. CASE Leave
  <2>1. HasTask /\ TaskOnly /\ db' = db /\ Ending
    BY <1>7 DEF Leave, HasTask
  <2> QED
    BY <1>4, <1>5, <2>1
<1>8. ASSUME NEW mode \in Modes, NEW status \in RowStatuses, HasTask, Len(db.inputs) < MaxQuestions,
             db' = [Ask(db, task.turn, mode) EXCEPT !.status = status], TaskOnly, task' = task
      PROVE  IInv' /\ Calm(db, db')
  <2> DEFINE e == [Ask(db, task.turn, mode) EXCEPT !.status = status]
  <2>1. task.turn \in DOMAIN db.turns
    BY <1>1, <1>8 DEF TaskInv
  <2>2. Fine(db, e) /\ Calm(db, e)
    BY <1>1, <1>8, <2>1, AskFine
  <2> HIDE DEF e
  <2>3. Fine(db, db') /\ Calm(db, db')
    BY <1>8, <2>2 DEF e
  <2> QED
    BY <1>3, <1>8, <2>3
<1>9. CASE Question
  <2>1. HasTask /\ TaskOnly /\ Len(db.inputs) < MaxQuestions
    BY <1>9 DEF Question, Streaming, HasTask
  <2>2. CASE Pending(db) # {}
    <3>1. Ending /\ db' = Fail(db, "other")
      BY <1>9, <2>2 DEF Question
    <3>2. Reworded(db, db')
      BY <1>1, <3>1, FailReworded DEF Errors
    <3> QED
      BY <1>4, <2>1, <3>1, <3>2
  <2>3. CASE Pending(db) = {}
    <3>1. task' = task
      BY <1>9, <2>3 DEF Question
    <3>2. PICK mode \in Modes :
              db' = [Ask(db, task.turn, mode) EXCEPT
                        !.status = IF mode = "resume_turn" THEN "awaiting_input"
                                                           ELSE "awaiting_user"]
      BY <1>9, <2>3 DEF Question
    <3>3. (IF mode = "resume_turn" THEN "awaiting_input" ELSE "awaiting_user") \in RowStatuses
      BY DEF RowStatuses
    <3> QED
      BY <1>8, <2>1, <3>1, <3>2, <3>3
  <2> QED
    BY <2>2, <2>3
<1>10. CASE DraftQuestion
  <2>1. /\ HasTask /\ TaskOnly /\ Len(db.inputs) < MaxQuestions /\ task' = task
        /\ db' = Ask(db, task.turn, "new_turn")
    BY <1>10 DEF DraftQuestion, Streaming, HasTask
  <2>2. db.status \in RowStatuses /\ "new_turn" \in Modes
    BY <1>1 DEF Sessions, Modes
  <2>3. db' = [Ask(db, task.turn, "new_turn") EXCEPT !.status = db.status]
    <3>1. Ask(db, task.turn, "new_turn") = [Ask(db, task.turn, "new_turn") EXCEPT !.status = db.status]
      BY <1>1 DEF Ask, Sessions
    <3> QED
      BY <2>1, <3>1
  <2> QED
    BY <1>8, <2>1, <2>2, <2>3
<1>11. CASE Unanswered
  <2> DEFINE d == Fallback(db)
  <2>1. HasTask /\ TaskOnly /\ Ending /\ db' = [d EXCEPT !.status = "awaiting_user"]
    BY <1>11 DEF Unanswered, Streaming, HasTask
  <2>2. Reworded(db, d)
    BY <1>1, FallbackReworded
  <2> HIDE DEF d
  <2>3. Reworded(db, db')
    BY <2>1, <2>2 DEF Reworded, Sessions, RowStatuses
  <2> QED
    BY <1>4, <2>1, <2>3
<1>12. CASE TurnFails
  <2>1. HasTask /\ TaskOnly /\ task' = [task EXCEPT !.pc = "closing"]
    BY <1>12 DEF TurnFails, Streaming, HasTask
  <2>2. PICK error \in Errors :
            db' = [db EXCEPT !.status = "awaiting_user", !.stop = "failed", !.error = error]
    BY <1>12 DEF TurnFails
  <2>3. "awaiting_user" \in RowStatuses /\ "failed" \in Stops
    BY DEF RowStatuses, Stops
  <2>4. Reworded(db, db')
    BY <1>1, <2>2, <2>3 DEF Reworded, Sessions
  <2>5. Fine(db, db') /\ Calm(db, db')
    BY <1>1, <2>4, RewordedFine
  <2>6. task' \in Tasks /\ task'.turn = task.turn
    BY <1>1, <2>1 DEF Tasks
  <2> QED
    BY <2>1, <2>5, <2>6, TaskKept
<1>16. CASE Closes
  <2>1. HasTask /\ TaskOnly /\ db' = db /\ Ending
    BY <1>16 DEF Closes, HasTask
  <2> QED
    BY <1>4, <1>5, <2>1
<1>17. CASE DraftInvalid
  <2>1. /\ HasTask /\ TaskOnly /\ Ending
        /\ db' = [db EXCEPT !.status = "awaiting_user", !.stop = "failed", !.error = "other"]
    BY <1>17 DEF DraftInvalid, Streaming, HasTask
  <2>2. "awaiting_user" \in RowStatuses /\ "failed" \in Stops /\ "other" \in Errors
    BY DEF RowStatuses, Stops, Errors
  <2>3. Reworded(db, db')
    BY <1>1, <2>1, <2>2 DEF Reworded, Sessions
  <2> QED
    BY <1>4, <2>1, <2>3
<1>13. CASE Raise
  <2>1. HasTask /\ TaskOnly /\ Ending
    BY <1>13 DEF Raise, Streaming, HasTask
  <2>2. PICK error \in Errors : db' = Fail(db, error)
    BY <1>13 DEF Raise
  <2>3. Reworded(db, db')
    BY <1>1, <2>2, FailReworded
  <2> QED
    BY <1>4, <2>1, <2>3
<1>14. CASE Finish
  <2>1. HasTask /\ TaskOnly /\ Ending
    BY <1>14 DEF Finish, Streaming, HasTask
  <2>2. \/ db' = db
        \/ db' = [db EXCEPT !.status = "awaiting_user", !.stop = "none", !.error = "none"]
    BY <1>14 DEF Finish
  <2>3. "awaiting_user" \in RowStatuses /\ "none" \in Stops /\ "none" \in Errors
    BY DEF RowStatuses, Stops, Errors
  <2>4. Reworded(db, db')
    BY <1>1, <2>2, <2>3 DEF Reworded, Sessions
  <2> QED
    BY <1>4, <2>1, <2>4
<1>15. CASE End
  <2>1. HasTask /\ TaskOnly /\ task' = NoTask /\ db' = FinishAttempt(db, task.turn)
    BY <1>15 DEF End, HasTask
  <2>2. task.turn \in DOMAIN db.turns
    BY <1>1, <2>1 DEF TaskInv
  <2>3. Fine(db, db') /\ Calm(db, db')
    BY <1>1, <2>1, <2>2, FinishFine
  <2> QED
    BY <2>1, <2>3, TaskKept
<1> QED
  BY <1>6, <1>7, <1>9, <1>10, <1>11, <1>12, <1>13, <1>14, <1>15, <1>16, <1>17 DEF Task

-----------------------------------------------------------------------------
(* The invariant is inductive *)

\* What a step adds is alone, and it starts no settled turn again.
Permitted ==
    /\ ~lateStop /\ ~lateRecovery' /\ ~Recover => Spares(db, db')
    /\ \/ Alone(db, db')
       \/ Recover /\ Outrun("user")
       \/ Retry /\ Outrun("worker")

LEMMA NextStep ==
    ASSUME IInv, Next
    PROVE  IInv' /\ Permitted
<1> USE DEF Permitted, Calm
<1>1. CASE Api
  BY <1>1, ApiSteps, StopQueuedStep, RequestRecoveryStep, RecoverStep DEF Api
<1>2. CASE Start \/ Lapse \/ Crash
  BY <1>2, StartStep, LapseStep, CrashStep
<1>3. CASE Expire
  <2>1. lateRecovery' = lateRecovery
    BY <1>3 DEF Expire
  <2> QED
    BY <1>3, <2>1, ExpireStep
<1>4. CASE ReadRetry \/ Retry \/ Claim \/ Beat
  BY <1>4, ReadRetryStep, RetryStep, ClaimStep, BeatStep
<1>5. CASE Commands
  BY <1>5, CancelStep, InterruptedStep, AnswerInputStep, ClearedStep, AnsweredStep DEF Commands
<1>6. CASE Task
  BY <1>6, TaskStep
<1> QED
  BY <1>1, <1>2, <1>3, <1>4, <1>5, <1>6 DEF Next, Loop

LEMMA StutterStep ==
    ASSUME IInv, UNCHANGED vars
    PROVE  IInv' /\ Calm(db, db')
<1>1. Fine(db, db') /\ Calm(db, db')
  BY SameFine DEF vars, IInv
<1>2. CommandInv' /\ StopInv' /\ TaskInv' /\ WorkerInv' /\ stopped' \subseteq Turns
      /\ troubles' \in 0..MaxTroubles
  BY <1>1, RestKept DEF vars, IInv, TaskInv, HasTask, WorkerInv, HistoryInv
<1>3. RecoverInv'
  BY DEF vars, IInv, RecoverInv, ReadOK, RetryOK, Outrun
<1> QED
  BY <1>1, <1>2, <1>3, Assembled DEF vars

LEMMA Step ==
    ASSUME IInv, [Next]_vars
    PROVE  IInv' /\ Permitted
BY NextStep, StutterStep DEF Permitted, Calm

LEMMA Inductive == Spec => []IInv
<1>1. Init => IInv
  BY InvInit
<1>2. IInv /\ [Next]_vars => IInv'
  BY Step
<1> QED
  BY <1>1, <1>2, PTL DEF Spec

-----------------------------------------------------------------------------
(* What it gives *)

\* The rows have their types whatever the API and the worker do to them, and
\* only a running attempt has a lease that can lapse.
THEOREM TypeCorrect == Spec => []TypeOK
<1>1. IInv => TypeOK
  <2> SUFFICES ASSUME IInv PROVE TypeOK
    OBVIOUS
  <2>1. lateStop \in BOOLEAN /\ lateRecovery \in BOOLEAN
    BY DEF IInv, HistoryInv
  <2>2. stopping.turn \in 0..MaxTurns /\ stopping.attempts \subseteq DOMAIN db.attempts
    BY DEF IInv, StopInv
  <2>3. stopped \subseteq Turns /\ troubles \in 0..MaxTroubles
    BY DEF IInv, HistoryInv
  <2>4. /\ db \in Sessions
        /\ \A i \in DOMAIN db.attempts :
               db.attempts[i].lapsed => db.attempts[i].status = "running"
    BY DEF IInv, DbInv, RowsOK
  <2>5. recovering \in [{"user", "worker"} -> Recoveries]
    BY DEF IInv, RecoverInv
  <2> QED
    BY <2>1, <2>2, <2>3, <2>4, <2>5 DEF IInv, CommandInv, WorkerInv, TaskInv, Recoveries, TypeOK
<1> QED
  BY <1>1, Inductive, PTL

\* append_generation_message and the places that recover a turn add an attempt
\* only where no other is open, unless the worker and the user recover the same
\* turn at once and the second of them writes over the first.
THEOREM AddedAttemptsAlone == Spec => AddedAttemptIsAlone
<1> DEFINE A == \A i \in DOMAIN db'.attempts \ DOMAIN db.attempts :
                   \/ OpenAttempts(db', db'.attempts[i].turn) = {i}
                   \/ Recover /\ Outrun("user")
                   \/ Retry /\ Outrun("worker")
<1>1. IInv /\ [Next]_vars => A
  BY Step DEF Permitted, Alone
<1>2. Spec => [][A]_vars
  BY <1>1, Inductive, PTL DEF Spec
<1> QED
  BY <1>2 DEF AddedAttemptIsAlone

\* However leases run out and transient errors come together, the worker starts
\* a turn again at most AttemptLimit - 1 times.
THEOREM RecoveriesBounded == Spec => []AutomaticRecoveriesBounded
<1>1. IInv => AutomaticRecoveriesBounded
  BY DEF IInv, DbInv, AutosBounded, Autos, AutomaticRecoveriesBounded
<1> QED
  BY <1>1, Inductive, PTL

\* Neither a lease that ran out, nor an error, nor a restart of the worker starts
\* a turn again that was completed or cancelled, as long as no stop and no
\* recovery was written over attempts that it had not read.
THEOREM SettledStaysSettled == Spec => SettledNotRestarted
<1> DEFINE A == \A t \in DOMAIN db.turns :
                   /\ ~lateStop /\ ~lateRecovery'
                   /\ db.turns[t] \in {"completed", "cancelled"}
                   /\ db'.turns[t] = "recovering"
                   => Recover
<1>1. IInv /\ [Next]_vars => A
  BY Step DEF Permitted, Spares
<1>2. Spec => [][A]_vars
  BY <1>1, Inductive, PTL DEF Spec
<1> QED
  BY <1>2 DEF SettledNotRestarted

=============================================================================
