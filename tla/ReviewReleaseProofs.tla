------------------------ MODULE ReviewReleaseProofs ------------------------
(***************************************************************************)
(* What holds of ReviewRelease for any number of requests, assets and      *)
(* relations, whatever overlaps, fails or dies.                            *)
(*                                                                         *)
(* IInv follows a release from the preflight to its last file: the rows it *)
(* was checked against, the order of the files it has still to write, the  *)
(* files it would put back, and who holds the lock of the project.  Rows   *)
(* and requests are known by the names of their fields only: what is in a  *)
(* catalog does not matter here.                                           *)
(***************************************************************************)
EXTENDS ReviewRelease, FiniteSetTheorems, SequenceTheorems, TLAPS

-----------------------------------------------------------------------------
(* Finite sets and sequences *)

\* What a function returns for the elements of a finite set is a finite set.
LEMMA ImageIsFinite ==
    ASSUME NEW S, IsFiniteSet(S), NEW f, DOMAIN f = S
    PROVE  IsFiniteSet({f[x] : x \in S})
<1> DEFINE T == {f[x] : x \in S}
           g == [x \in S |-> f[x]]
<1>1. g \in Surjection(S, T)
  BY DEF Surjection
<1> QED
  BY <1>1, FS_Surjection

\* A finite set of numbers that has an element has a largest one.
LEMMA LargestExists ==
    ASSUME NEW S, IsFiniteSet(S), S # {}, S \subseteq Nat
    PROVE  \E m \in S : \A n \in S : n <= m
<1> DEFINE Unbounded(T) == \A m \in T : \E n \in T : ~(n <= m)
           Sizes == {k \in Nat : \E T \in SUBSET S : T # {} /\ Unbounded(T) /\ Cardinality(T) = k}
<1>1. SUFFICES ASSUME Sizes # {}
               PROVE  FALSE
  <2>1. Cardinality(S) \in Nat
    BY FS_CardinalityType
  <2> QED
    BY <1>1, <2>1
<1>2. PICK k \in Sizes : \A j \in Sizes : ~(<<j, k>> \in OpToRel(<, Nat))
  BY <1>1, WFMin, NatLessThanWellFounded
<1>3. \A j \in Sizes : ~(j < k)
  BY <1>2 DEF OpToRel
<1>4. PICK T \in SUBSET S : T # {} /\ Unbounded(T) /\ Cardinality(T) = k
  OBVIOUS
<1>5. PICK x \in T : TRUE
  BY <1>4
<1> DEFINE U == T \ {x}
<1>6. IsFiniteSet(T)
  BY FS_Subset
<1>7. IsFiniteSet(U) /\ Cardinality(U) = k - 1 /\ Cardinality(U) \in Nat
  BY <1>4, <1>5, <1>6, FS_RemoveElement, FS_CardinalityType
<1>8. Unbounded(U)
  <2>1. SUFFICES ASSUME NEW m \in U, \A n \in U : n <= m
                 PROVE  FALSE
    OBVIOUS
  <2>2. m \in Nat /\ x \in Nat
    OBVIOUS
  <2>3. CASE x <= m
    BY <1>4, <2>1, <2>2, <2>3
  <2>4. CASE ~(x <= m)
    <3>1. \A n \in T : n \in Nat /\ n <= x
      BY <2>1, <2>2, <2>4
    <3> QED
      BY <1>4, <3>1
  <2> QED
    BY <2>3, <2>4
<1>9. U # {}
  <2>1. SUFFICES ASSUME U = {}
                 PROVE  FALSE
    OBVIOUS
  <2>2. \A n \in T : n = x /\ n <= x
    BY <2>1
  <2> QED
    BY <1>4, <2>2
<1>10. k - 1 \in Sizes
  BY <1>7, <1>8, <1>9
<1> QED
  BY <1>3, <1>10

-----------------------------------------------------------------------------
(* The invariant *)

FileNames == {"catalog", "superseded", "relations", "artifacts", "revisions",
              "reviews", "passed", "manifests", "pointer"}

RowNames == {"asset", "status", "relations", "reviews", "valid", "passed", "releases"}

RequestNames == {"op", "pc", "asset", "revision", "asked", "data", "view", "rows", "todo",
                 "locked", "saved"}

Kinds == {"artifacts", "revision", "review", "relations", "manifest", "pointer", "catalog"}

\* Of finitely many reviews with numbers for ids one is the latest.
Dated(reviews) == IsFiniteSet(reviews) /\ \A v \in reviews : v.id \in Nat

\* The assets of a release fit together.
Fits(manifest) ==
    \A e, g \in manifest.entries : \A d \in e.dependencies : d[1] = g.asset => d[2] = g.revision

Named(pointer, manifests) == pointer # None => \E m \in manifests : m.id = pointer

GoodFiles(f) ==
    /\ DOMAIN f = FileNames
    /\ Dated(f.reviews)
    /\ \A m \in f.manifests : Fits(m)
    /\ Named(f.pointer, f.manifests)

GoodRows(rows) == DOMAIN rows = RowNames /\ Dated(rows.reviews)

GoodEntry(e) ==
    /\ e.file \in Kinds
    /\ e.file = "review" => e.review.id \in Nat
    /\ e.file = "manifest" => Fits(e.manifest)

GoodTodo(todo) == todo \in Seq(Range(todo)) /\ \A e \in Range(todo) : GoodEntry(e)

\* What a request remembers: rows and files, each at the steps that use them.
GoodRequest(r) ==
    /\ DOMAIN r = RequestNames
    /\ GoodTodo(r.todo)
    /\ r.locked \in BOOLEAN
    /\ r.pc # "idle" => GoodRows(r.view)
    /\ r.rows # None => r.pc = "files" /\ GoodRows(r.rows)
    /\ r.pc \in {"history", "rebuild"} => GoodFiles(r.data)
    /\ r.op = "approve_media" /\ r.pc = "files" => r.data.review.id \in Nat
    /\ r.op = "release" /\ r.pc = "read" => r.asked \subseteq Assets /\ Preflight(r.view, r.asked)

\* While it holds the lock of the project it has files to write and knows what
\* there was before the first of them.
GoodLock(r) == r.locked => r.pc = "files" /\ r.todo # <<>> /\ GoodFiles(r.saved)

\* Only a release writes manifests and the pointer, and in this order: the
\* pointer when its manifest is there.
Writes(todo, kinds) == \A i \in 1..Len(todo) : todo[i].file \in kinds

GoodOrder(op, locked, todo, manifests) ==
    \/ Writes(todo, Kinds \ {"manifest", "pointer"})
    \/ /\ op = "release" /\ ~locked
       /\ Len(todo) > 1 /\ todo[1].file = "manifest" /\ todo[2].file = "pointer"
       /\ todo[2].id = todo[1].manifest.id
       /\ \A i \in 3..Len(todo) : todo[i].file = "catalog"
    \/ /\ locked
       /\ Len(todo) > 0 /\ todo[1].file = "pointer"
       /\ \E m \in manifests : m.id = todo[1].id
       /\ \A i \in 2..Len(todo) : todo[i].file = "catalog"

FilesInv == GoodFiles(files)
RowsInv == GoodRows(db)
RequestInv ==
    /\ DOMAIN req = Requests
    /\ \A p \in Requests :
          /\ GoodRequest(req[p]) /\ GoodLock(req[p])
          /\ GoodOrder(req[p].op, req[p].locked, req[p].todo, files.manifests)
LockInv == \A p, q \in Requests : req[p].locked /\ req[q].locked => p = q

IInv == FilesInv /\ RowsInv /\ RequestInv /\ LockInv


-----------------------------------------------------------------------------
(* Reviews, rows and files *)

LEMMA DatedWithOne ==
    ASSUME NEW S, Dated(S), NEW v, v.id \in Nat
    PROVE  Dated(S \cup {v})
BY FS_AddElement DEF Dated

LEMMA DatedPart ==
    ASSUME NEW S, Dated(S), NEW T, T \subseteq S
    PROVE  Dated(T)
BY FS_Subset DEF Dated

\* The latest review of a finite set is one of them.
LEMMA LatestIsOne ==
    ASSUME NEW S, Dated(S), S # {}
    PROVE  Latest(S) \in S
<1> DEFINE id == [v \in S |-> v.id]
           Ids == {id[v] : v \in S}
<1>1. IsFiniteSet(Ids)
  BY ImageIsFinite DEF Dated
<1>2. PICK m \in Ids : \A n \in Ids : n <= m
  <2>1. Ids # {} /\ Ids \subseteq Nat
    BY DEF Dated
  <2> QED
    BY <1>1, <2>1, LargestExists
<1>3. PICK v \in S : v.id = m
  OBVIOUS
<1>4. \A w \in S : w.id <= v.id
  BY <1>2, <1>3
<1> QED
  BY <1>4 DEF Latest

\* The rows keep their form when anything but the reviews changes.
LEMMA SameReviews ==
    ASSUME NEW rows, GoodRows(rows), NEW x, DOMAIN x = DOMAIN rows, x.reviews = rows.reviews
    PROVE  GoodRows(x)
BY DEF GoodRows

LEMMA GoodAssign ==
    ASSUME NEW rows, GoodRows(rows), NEW view, NEW a, NEW new
    PROVE  GoodRows(Assign(rows, view, a, new))
<1>1. /\ DOMAIN Assign(rows, view, a, new) = DOMAIN rows
      /\ Assign(rows, view, a, new).reviews = rows.reviews
  BY DEF Assign, GoodRows, RowNames
<1> QED
  BY <1>1, SameReviews

LEMMA GoodInvalidate ==
    ASSUME NEW rows, GoodRows(rows), NEW assets
    PROVE  GoodRows(Invalidate(rows, assets))
<1>1. /\ DOMAIN Invalidate(rows, assets) = DOMAIN rows
      /\ Invalidate(rows, assets).reviews = rows.reviews
  BY DEF Invalidate, GoodRows, RowNames
<1> QED
  BY <1>1, SameReviews

LEMMA GoodDecide ==
    ASSUME NEW rows, GoodRows(rows), NEW review, review.id \in Nat
    PROVE  GoodRows(Decide(rows, review))
<1>1. DOMAIN Decide(rows, review) = RowNames
  BY DEF Decide, GoodRows
<1>2. Decide(rows, review).reviews = rows.reviews \cup {review}
  BY DEF Decide, GoodRows, RowNames
<1> QED
  BY <1>1, <1>2, DatedWithOne DEF GoodRows

LEMMA GoodBlock ==
    ASSUME NEW rows, GoodRows(rows), NEW a
    PROVE  GoodRows(BlockDependents(rows, a))
<1>1. GoodRows(Invalidate(rows, Dependents(rows, a)))
  BY GoodInvalidate
<1>2. /\ DOMAIN BlockDependents(rows, a) = DOMAIN Invalidate(rows, Dependents(rows, a))
      /\ BlockDependents(rows, a).reviews = Invalidate(rows, Dependents(rows, a)).reviews
  BY <1>1 DEF BlockDependents, GoodRows, RowNames
<1> QED
  BY <1>1, <1>2, SameReviews

LEMMA GoodPublish ==
    ASSUME NEW rows, GoodRows(rows), NEW view, NEW asked
    PROVE  GoodRows(Publish(rows, view, asked))
<1>1. /\ DOMAIN Publish(rows, view, asked) = DOMAIN rows
      /\ Publish(rows, view, asked).reviews = rows.reviews
  BY DEF Publish, GoodRows, RowNames
<1> QED
  BY <1>1, SameReviews

\* A scan makes rows of files, and keeps rows, that have this form.
LEMMA GoodRebuilt ==
    ASSUME NEW f, GoodFiles(f), NEW rows, GoodRows(rows)
    PROVE  GoodRows(Rebuilt(f, rows))
<1> DEFINE new == Scanned(f)
           old == Kept(f, rows)
<1>1. DOMAIN new = RowNames /\ new.reviews = Known(f)
  BY DEF Scanned, RowNames
<1>2. old.reviews = rows.reviews
  BY DEF Kept
<1>3. Dated(Known(f))
  BY DatedPart DEF Known, GoodFiles
<1>4. Dated(new.reviews \cup old.reviews)
  BY <1>1, <1>2, <1>3, FS_Union DEF Dated, GoodRows
<1>5. CASE ScanErrors(f) = {}
  BY <1>1, <1>3, <1>5 DEF Rebuilt, GoodRows
<1>6. CASE ScanErrors(f) # {}
  <2>1. /\ DOMAIN Rebuilt(f, rows) = RowNames
        /\ Rebuilt(f, rows).reviews = new.reviews \cup old.reviews
    <3> HIDE DEF new, old
    <3> QED
      BY <1>6 DEF Rebuilt, RowNames, new, old
  <2> QED
    BY <1>4, <2>1 DEF GoodRows
<1> QED
  BY <1>5, <1>6

-----------------------------------------------------------------------------
(* The files a request has still to write *)

LEMMA TodoOf ==
    ASSUME NEW S, NEW todo \in Seq(S), \A e \in S : GoodEntry(e)
    PROVE  GoodTodo(todo)
BY SeqOfRange, RangeOfSeq DEF GoodTodo

LEMMA NothingToDo == GoodTodo(<<>>)
<1> DEFINE S == {}
<1>1. <<>> \in Seq(S) /\ \A e \in S : GoodEntry(e)
  BY EmptySeq
<1> HIDE DEF S
<1> QED
  BY <1>1, TodoOf

LEMMA TodoRest ==
    ASSUME NEW todo, GoodTodo(todo), todo # <<>>
    PROVE  GoodEntry(Head(todo)) /\ GoodTodo(Tail(todo))
<1>1. Head(todo) \in Range(todo) /\ Tail(todo) \in Seq(Range(todo))
  BY HeadTailProperties DEF GoodTodo
<1> QED
  BY <1>1, TodoOf DEF GoodTodo

LEMMA TodoMore ==
    ASSUME NEW todo, GoodTodo(todo), NEW more, GoodTodo(more)
    PROVE  GoodTodo(todo \o more)
<1> DEFINE S == Range(todo) \cup Range(more)
<1>1. todo \in Seq(S) /\ more \in Seq(S)
  BY SeqMonotonic DEF GoodTodo
<1>2. todo \o more \in Seq(S)
  BY <1>1, ConcatProperties
<1>3. \A e \in S : GoodEntry(e)
  BY DEF GoodTodo
<1> HIDE DEF S
<1> QED
  BY <1>2, <1>3, TodoOf

LEMMA TodoOne ==
    ASSUME NEW e, GoodEntry(e)
    PROVE  GoodTodo(<<e>>)
<1> DEFINE S == {e}
<1>1. <<e>> \in Seq(S) /\ \A x \in S : GoodEntry(x)
  OBVIOUS
<1> HIDE DEF S
<1> QED
  BY <1>1, TodoOf

LEMMA TodoTwo ==
    ASSUME NEW e, GoodEntry(e), NEW f, GoodEntry(f)
    PROVE  GoodTodo(<<e, f>>)
<1> DEFINE S == {e, f}
<1>1. <<e, f>> \in Seq(S) /\ \A x \in S : GoodEntry(x)
  OBVIOUS
<1> HIDE DEF S
<1> QED
  BY <1>1, TodoOf

\* The elements of a sequence made of a finite set are those of the set.
LEMMA ListOf ==
    ASSUME NEW S, IsFiniteSet(S)
    PROVE  SetToSeq(S) \in Seq(S)
<1>1. PICK f \in [1..Cardinality(S) -> S] : IsInjective(f)
  BY FS_CardinalityType DEF ExistsBijection, Bijection, Injection
<1>2. SetToSeq(S) \in [1..Cardinality(S) -> S]
  BY <1>1 DEF SetToSeq
<1> QED
  BY <1>2, FS_CardinalityType, SeqDef

LEMMA RangeIsFinite ==
    ASSUME NEW todo, GoodTodo(todo)
    PROVE  IsFiniteSet(Range(todo))
<1>1. DOMAIN todo = 1..Len(todo) /\ Len(todo) \in Nat
  BY LenProperties DEF GoodTodo
<1>2. IsFiniteSet(DOMAIN todo)
  BY <1>1, FS_Interval
<1>3. Range(todo) = {todo[i] : i \in DOMAIN todo}
  BY DEF Range
<1> QED
  BY <1>2, <1>3, ImageIsFinite

LEMMA NextReviewIsNat ==
    ASSUME IInv
    PROVE  NextReview \in Nat
<1> DEFINE todos == [q \in Requests |-> Range(req[q].todo)]
           All == {todos[q] : q \in Requests}
           Waiting == UNION {Range(req[q].todo) : q \in Requests}
           New == {x \in Waiting : x.file = "review"}
           review == [e \in New |-> e.review]
           Ids == {review[e] : e \in New}
<1>1. IsFiniteSet(All)
  BY ImageIsFinite, RequestsAssumption
<1>2. \A T \in All : IsFiniteSet(T)
  BY RangeIsFinite DEF IInv, RequestInv, GoodRequest
<1>3. IsFiniteSet(Waiting)
  <2>1. All = {Range(req[q].todo) : q \in Requests}
    OBVIOUS
  <2> HIDE DEF All, todos
  <2> QED
    BY <1>1, <1>2, <2>1, FS_UNION
<1>4. IsFiniteSet(New)
  BY <1>3, FS_Subset
<1>5. IsFiniteSet(Ids)
  BY <1>4, ImageIsFinite
<1>6. Ids = {e.review : e \in New}
  OBVIOUS
<1>7. IsFiniteSet(files.reviews \cup db.reviews)
  BY FS_Union DEF IInv, FilesInv, RowsInv, GoodFiles, GoodRows, Dated
<1>8. IsFiniteSet(files.reviews \cup db.reviews \cup Ids)
  BY <1>5, <1>7, FS_Union
<1>9. Cardinality(files.reviews \cup db.reviews \cup Ids) \in Nat
  BY <1>8, FS_CardinalityType
<1>10. NextReview = 1 + Cardinality(files.reviews \cup db.reviews \cup Ids)
  BY <1>6 DEF NextReview
<1> HIDE DEF Ids
<1> QED
  BY <1>9, <1>10

-----------------------------------------------------------------------------
(* Steps *)

\* Only p goes on.
MovesOnly(p) == DOMAIN req' = Requests /\ \A q \in Requests \ {p} : req'[q] = req[q]

LEMMA OneRequestMoves ==
    ASSUME IInv, NEW p \in Requests, MovesOnly(p),
           GoodRequest(req'[p]), GoodLock(req'[p]),
           GoodOrder(req'[p].op, req'[p].locked, req'[p].todo, files'.manifests),
           \A q \in Requests \ {p} :
              req[q].locked => ~req'[p].locked /\ files.manifests \subseteq files'.manifests
    PROVE  RequestInv' /\ LockInv'
<1>1. ASSUME NEW q \in Requests \ {p}
      PROVE  GoodOrder(req[q].op, req[q].locked, req[q].todo, files'.manifests)
  <2>1. GoodOrder(req[q].op, req[q].locked, req[q].todo, files.manifests)
    BY DEF IInv, RequestInv
  <2> QED
    BY <2>1 DEF GoodOrder
<1>2. ASSUME NEW q \in Requests
      PROVE  /\ GoodRequest(req'[q]) /\ GoodLock(req'[q])
             /\ GoodOrder(req'[q].op, req'[q].locked, req'[q].todo, files'.manifests)
  BY <1>1 DEF IInv, RequestInv, MovesOnly
<1>3. RequestInv'
  BY <1>2 DEF RequestInv, MovesOnly
<1>4. LockInv'
  BY DEF IInv, LockInv, MovesOnly
<1> QED
  BY <1>3, <1>4

\* A request that ends, or dies, leaves nothing behind.
LEMMA IdleIsGood ==
    ASSUME NEW manifests
    PROVE  GoodRequest(Idle) /\ GoodLock(Idle) /\ GoodOrder(Idle.op, Idle.locked, Idle.todo, manifests)
<1>1. GoodRequest(Idle)
  BY NothingToDo DEF GoodRequest, Idle, RequestNames
<1> QED
  BY <1>1 DEF GoodLock, GoodOrder, Writes, Idle

LEMMA EndsWell ==
    ASSUME IInv, NEW p \in Requests, req' = [req EXCEPT ![p] = Idle],
           FilesInv', RowsInv',
           \A q \in Requests \ {p} : req[q].locked => files.manifests \subseteq files'.manifests
    PROVE  IInv'
<1>1. req'[p] = Idle /\ MovesOnly(p)
  BY DEF MovesOnly, IInv, RequestInv
<1>2. ~req'[p].locked
  BY <1>1 DEF Idle
<1>3. /\ GoodRequest(req'[p]) /\ GoodLock(req'[p])
      /\ GoodOrder(req'[p].op, req'[p].locked, req'[p].todo, files'.manifests)
  BY <1>1, IdleIsGood
<1> QED
  BY <1>1, <1>2, <1>3, OneRequestMoves DEF IInv

\* A request begins: it has read the rows and holds nothing.
LEMMA BeginsWell ==
    ASSUME IInv, NEW p \in Requests, NEW request, NEW kind, Begin(p, request, kind),
           DOMAIN request = RequestNames, request.todo = <<>>, request.locked = FALSE,
           request.rows = None,
           request.pc \in {"history", "rebuild"} => GoodFiles(request.data),
           request.pc # "files",
           request.op = "release" => request.asked \subseteq Assets /\ Preflight(db, request.asked),
           UNCHANGED <<files, db>>
    PROVE  IInv'
<1> DEFINE r == [request EXCEPT !.view = db]
<1>1. req'[p] = r /\ MovesOnly(p)
  BY DEF MovesOnly, IInv, RequestInv, Begin
<1>2. /\ DOMAIN r = RequestNames /\ r.todo = <<>> /\ r.locked = FALSE /\ r.rows = None
      /\ r.pc = request.pc /\ r.op = request.op /\ r.data = request.data
      /\ r.asked = request.asked /\ r.view = db
  BY DEF RequestNames
<1> HIDE DEF r
<1>3. GoodRequest(r)
  BY <1>2, NothingToDo DEF GoodRequest, IInv, RowsInv
<1>4. GoodLock(r) /\ GoodOrder(r.op, r.locked, r.todo, files'.manifests)
  BY <1>2 DEF GoodLock, GoodOrder, Writes
<1>5. RequestInv' /\ LockInv'
  BY <1>1, <1>2, <1>3, <1>4, OneRequestMoves
<1> QED
  BY <1>5 DEF IInv, FilesInv, RowsInv

\* A request takes the writer lock, with rows and files of the right form.
LEMMA HoldsWell ==
    ASSUME IInv, NEW p \in Requests, NEW rows, NEW todo, Hold(p, rows, todo),
           req[p].pc = "read", req[p].op # "approve_media",
           GoodRows(rows), GoodTodo(todo),
           GoodOrder(req[p].op, FALSE, todo, files.manifests)
    PROVE  IInv'
<1>1. /\ MovesOnly(p) /\ UNCHANGED <<files, db>>
      /\ DOMAIN req'[p] = DOMAIN req[p]
      /\ req'[p].pc = "files" /\ req'[p].rows = rows /\ req'[p].todo = todo
      /\ req'[p].op = req[p].op /\ req'[p].locked = req[p].locked
      /\ req'[p].view = req[p].view
  BY DEF MovesOnly, IInv, RequestInv, GoodRequest, RequestNames, Hold
<1>2. ~req[p].locked /\ req[p].locked \in BOOLEAN
  BY DEF IInv, RequestInv, GoodRequest, GoodLock
<1>3. GoodRequest(req'[p])
  BY <1>1, <1>2 DEF GoodRequest, IInv, RequestInv
<1>4. GoodLock(req'[p]) /\ GoodOrder(req'[p].op, req'[p].locked, req'[p].todo, files'.manifests)
  BY <1>1, <1>2 DEF GoodLock
<1>5. RequestInv' /\ LockInv'
  BY <1>1, <1>2, <1>3, <1>4, OneRequestMoves
<1> QED
  BY <1>1, <1>5 DEF IInv, FilesInv, RowsInv

LEMMA StartsKeep ==
    ASSUME IInv, NEW p \in Requests
    PROVE  /\ \A a \in Assets : StartCreate(p, a) => IInv'
           /\ \A r, v : v \in {"approve", "reject"} /\ StartReview(p, r, v) => IInv'
           /\ \A rel : StartRelate(p, rel) => IInv'
           /\ \A asked \in SUBSET Assets : StartRelease(p, asked) => IInv'
           /\ StartScan(p) => IInv'
<1>1. ASSUME NEW a \in Assets, StartCreate(p, a) PROVE IInv'
  <2> DEFINE r == [Idle EXCEPT !.op = "create", !.pc = "read", !.asset = a]
  <2>1. /\ DOMAIN r = RequestNames /\ r.todo = <<>> /\ r.locked = FALSE /\ r.rows = None
        /\ r.pc = "read" /\ r.op = "create"
    BY DEF Idle, RequestNames
  <2>2. Begin(p, r, "revisions") /\ UNCHANGED <<files, db>>
    BY <1>1 DEF StartCreate
  <2> HIDE DEF r
  <2> QED
    BY <2>1, <2>2, BeginsWell
<1>2. ASSUME NEW r, NEW v \in {"approve", "reject"}, StartReview(p, r, v) PROVE IInv'
  <2> DEFINE media == v = "approve" /\ AssetOf(r) \in Media
             q == [Idle EXCEPT !.op = IF media THEN "approve_media" ELSE v,
                               !.pc = IF media THEN "promote" ELSE "read",
                               !.asset = AssetOf(r), !.revision = r]
  <2>1. /\ DOMAIN q = RequestNames /\ q.todo = <<>> /\ q.locked = FALSE /\ q.rows = None
        /\ q.pc \in {"promote", "read"} /\ q.op \in {"approve_media", "approve", "reject"}
    BY DEF Idle, RequestNames
  <2>2. Begin(p, q, "reviews") /\ UNCHANGED <<files, db>>
    BY <1>2 DEF StartReview
  <2> HIDE DEF q
  <2> QED
    BY <2>1, <2>2, BeginsWell
<1>3. ASSUME NEW rel, StartRelate(p, rel) PROVE IInv'
  <2> DEFINE r == [Idle EXCEPT !.op = "relate", !.pc = "read", !.data = rel]
  <2>1. /\ DOMAIN r = RequestNames /\ r.todo = <<>> /\ r.locked = FALSE /\ r.rows = None
        /\ r.pc = "read" /\ r.op = "relate"
    BY DEF Idle, RequestNames
  <2>2. Begin(p, r, "relations") /\ UNCHANGED <<files, db>>
    BY <1>3 DEF StartRelate
  <2> HIDE DEF r
  <2> QED
    BY <2>1, <2>2, BeginsWell
<1>4. ASSUME NEW asked \in SUBSET Assets, StartRelease(p, asked) PROVE IInv'
  <2> DEFINE r == [Idle EXCEPT !.op = "release", !.pc = "read", !.asked = asked]
  <2>1. /\ DOMAIN r = RequestNames /\ r.todo = <<>> /\ r.locked = FALSE /\ r.rows = None
        /\ r.pc = "read" /\ r.op = "release" /\ r.asked = asked
    BY DEF Idle, RequestNames
  <2>2. Begin(p, r, "releases") /\ Preflight(db, asked) /\ UNCHANGED <<files, db>>
    BY <1>4 DEF StartRelease
  <2> HIDE DEF r
  <2> QED
    BY <2>1, <2>2, BeginsWell
<1>5. ASSUME StartScan(p) PROVE IInv'
  <2> DEFINE r == [Idle EXCEPT !.op = "scan", !.pc = "history", !.data = files]
  <2>1. /\ DOMAIN r = RequestNames /\ r.todo = <<>> /\ r.locked = FALSE /\ r.rows = None
        /\ r.pc = "history" /\ r.op = "scan" /\ r.data = files
    BY DEF Idle, RequestNames
  <2>2. Begin(p, r, "scans") /\ UNCHANGED <<files, db>>
    BY <1>5 DEF StartScan
  <2> HIDE DEF r
  <2> QED
    BY <2>1, <2>2, BeginsWell DEF IInv, FilesInv
<1> QED
  BY <1>1, <1>2, <1>3, <1>4, <1>5

\* The operations but the release never write a manifest or the pointer.
Plain(todo) == GoodTodo(todo) /\ \A e \in Range(todo) : e.file \notin {"manifest", "pointer"}

LEMMA PlainOrder ==
    ASSUME NEW todo, Plain(todo), NEW op, NEW locked, NEW manifests
    PROVE  GoodOrder(op, locked, todo, manifests)
<1>1. \A i \in 1..Len(todo) : todo[i] \in Range(todo)
  BY RangeEquality DEF Plain, GoodTodo
<1> QED
  BY <1>1 DEF Plain, GoodTodo, GoodEntry, GoodOrder, Writes

PlainEntry(e) == GoodEntry(e) /\ e.file \notin {"manifest", "pointer"}

LEMMA PlainOf ==
    ASSUME NEW S, \A e \in S : PlainEntry(e), NEW todo \in Seq(S)
    PROVE  Plain(todo)
<1>1. \A e \in S : GoodEntry(e)
  BY DEF PlainEntry
<1> QED
  BY <1>1, TodoOf, RangeOfSeq DEF Plain, PlainEntry

LEMMA PlainMore ==
    ASSUME NEW todo, Plain(todo), NEW S, \A e \in S : PlainEntry(e), NEW more \in Seq(S)
    PROVE  Plain(todo \o more)
<1> DEFINE T == Range(todo) \cup S
<1>1. todo \in Seq(T) /\ more \in Seq(T)
  BY SeqMonotonic DEF Plain, GoodTodo
<1>2. todo \o more \in Seq(T)
  BY <1>1, ConcatProperties
<1>3. \A e \in T : PlainEntry(e)
  BY DEF Plain, GoodTodo, PlainEntry
<1> HIDE DEF T
<1> QED
  BY <1>2, <1>3, PlainOf

LEMMA PlainTwo ==
    ASSUME NEW e, PlainEntry(e), NEW f, PlainEntry(f)
    PROVE  Plain(<<e, f>>)
<1> DEFINE S == {e, f}
<1>1. <<e, f>> \in Seq(S) /\ \A x \in S : PlainEntry(x)
  OBVIOUS
<1> HIDE DEF S
<1> QED
  BY <1>1, PlainOf

LEMMA CatalogEntry ==
    ASSUME NEW a, NEW fields, NEW superseded
    PROVE  PlainEntry(InCatalog(a, fields, superseded))
BY DEF PlainEntry, GoodEntry, InCatalog, Kinds

LEMMA ReviewEntry ==
    ASSUME NEW review, review.id \in Nat
    PROVE  PlainEntry([file |-> "review", review |-> review])
BY DEF PlainEntry, GoodEntry, Kinds

LEMMA CreateRevisionKeeps ==
    ASSUME IInv, NEW p \in Requests, CreateRevision(p)
    PROVE  IInv'
<1> DEFINE a == req[p].asset
           r == Len(made) + 1
           old == Pending(req[p].view, a)
           new == IF req[p].view.asset[a].current = None
                  THEN [candidate |-> r, content |-> "candidate", publication |-> "unpublished"]
                  ELSE [candidate |-> r]
           status == Updated(Assign(db, req[p].view, a, new).status,
                             [x \in old \cup {r} |-> IF x = r THEN "pending" ELSE "superseded"])
           rows == [Assign(db, req[p].view, a, new) EXCEPT !.status = status]
           first == [file |-> "revision", revision |-> r]
           last == InCatalog(a, [candidate |-> r], old)
           todo == <<first, last>>
<1>1. CASE SameSequence(p)
  BY <1>1, EndsWell DEF CreateRevision, IInv, FilesInv, RowsInv
<1>2. CASE ~SameSequence(p)
  <2>1. Hold(p, rows, todo) /\ req[p].pc = "read" /\ req[p].op = "create"
    BY <1>2 DEF CreateRevision
  <2>2. GoodRows(rows)
    <3> HIDE DEF new, status
    <3>1. GoodRows(Assign(db, req[p].view, a, new))
      BY GoodAssign DEF IInv, RowsInv
    <3> QED
      BY <3>1, SameReviews DEF GoodRows, RowNames
  <2>3. PlainEntry(first)
    BY DEF PlainEntry, GoodEntry, Kinds
  <2>4. PlainEntry(last)
    BY CatalogEntry
  <2>5. Plain(todo)
    BY <2>3, <2>4, PlainTwo
  <2> HIDE DEF rows, todo
  <2> QED
    BY <2>1, <2>2, <2>5, PlainOrder, HoldsWell DEF Plain
<1> QED
  BY <1>1, <1>2

\* A decision: the review is recorded after the earlier ones lost their force.
LEMMA GoodDecision ==
    ASSUME IInv, NEW assets, NEW review, review.id \in Nat, NEW r, NEW status
    PROVE  GoodRows([Decide(Invalidate(db, assets), review) EXCEPT !.status[r] = status])
<1>1. GoodRows(Decide(Invalidate(db, assets), review))
  BY GoodInvalidate, GoodDecide DEF IInv, RowsInv
<1> QED
  BY <1>1, SameReviews DEF GoodRows, RowNames

LEMMA RejectRevisionKeeps ==
    ASSUME IInv, NEW p \in Requests, RejectRevision(p)
    PROVE  IInv'
<1> DEFINE a == req[p].asset
           r == req[p].revision
           view == req[p].view
           review == Review(NextReview, r, "reject", Dependencies(db, a))
           decided == [Decide(Invalidate(db, {a}), review) EXCEPT !.status[r] = "rejected"]
           next == NewestPending(decided, a)
           new == IF view.asset[a].current = None
                  THEN [candidate |-> next, content |-> "rejected", publication |-> "blocked"]
                  ELSE [candidate |-> next]
           first == [file |-> "review", review |-> review]
           last == InCatalog(a, Fields(view, a, new), {})
           todo == <<first, last>>
<1>1. Hold(p, Assign(decided, view, a, new), todo) /\ req[p].pc = "read" /\ req[p].op = "reject"
  BY DEF RejectRevision
<1>2. review.id \in Nat
  BY NextReviewIsNat DEF Review
<1>3. GoodRows(decided)
  <2> HIDE DEF review
  <2> QED
    BY <1>2, GoodDecision
<1>4. GoodRows(Assign(decided, view, a, new))
  <2> HIDE DEF decided, new
  <2> QED
    BY <1>3, GoodAssign
<1>5. PlainEntry(first) /\ PlainEntry(last)
  <2> HIDE DEF review
  <2> QED
    BY <1>2, ReviewEntry, CatalogEntry
<1>6. Plain(todo)
  BY <1>5, PlainTwo
<1> HIDE DEF decided, new, todo
<1> QED
  BY <1>1, <1>4, <1>6, PlainOrder, HoldsWell DEF Plain

\* The renewed approvals have numbers for ids, and are finitely many.
LEMMA RenewalsAreDated ==
    ASSUME IInv, NEW p \in Requests, NEW rows, NEW todo, Plain(todo),
           NEW sources, IsFiniteSet(sources)
    PROVE  /\ DOMAIN Renewals(p, rows, todo, sources) = 1..Len(SetToSeq(sources))
           /\ Dated(Range(Renewals(p, rows, todo, sources)))
<1> DEFINE order == SetToSeq(sources)
           known == {e \in Range(todo) : e.file = "review"}
           renewals == Renewals(p, rows, todo, sources)
<1>1. Cardinality(known) \in Nat
  <2>1. IsFiniteSet(Range(todo))
    BY RangeIsFinite DEF Plain
  <2>2. IsFiniteSet(known)
    BY <2>1, FS_Subset
  <2> QED
    BY <2>2, FS_CardinalityType
<1>2. DOMAIN order = 1..Len(order) /\ Len(order) \in Nat
  BY ListOf, LenProperties
<1>3. DOMAIN renewals = DOMAIN order
  BY DEF Renewals
<1>4. \A i \in DOMAIN renewals : renewals[i].id = NextReview + Cardinality(known) + i - 1
  BY DEF Renewals, Review
<1> HIDE DEF order, known, renewals
<1>5. \A i \in DOMAIN renewals : renewals[i].id \in Nat
  BY <1>1, <1>2, <1>3, <1>4, NextReviewIsNat
<1>6. Range(renewals) = {renewals[i] : i \in DOMAIN renewals}
  BY DEF Range
<1>7. IsFiniteSet(Range(renewals))
  <2>1. IsFiniteSet(DOMAIN renewals)
    BY <1>2, <1>3, FS_Interval
  <2> QED
    BY <1>6, <2>1, ImageIsFinite
<1> QED
  BY <1>2, <1>3, <1>5, <1>6, <1>7 DEF Dated, order, renewals

\* Renewed approvals add a review and a catalog each to what is written.
LEMMA RefreshIsGood ==
    ASSUME IInv, NEW p \in Requests, NEW rows, GoodRows(rows), NEW todo, Plain(todo),
           NEW sources, IsFiniteSet(sources)
    PROVE  /\ GoodRows(Refresh(p, rows, todo, sources).rows)
           /\ Plain(Refresh(p, rows, todo, sources).todo)
<1> DEFINE order == SetToSeq(sources)
           renewals == Renewals(p, rows, todo, sources)
           renewed == RenewalFiles(p, sources, renewals)
           all == Refresh(p, rows, todo, sources)
<1>1. DOMAIN renewals = 1..Len(order) /\ Dated(Range(renewals))
  BY RenewalsAreDated
<1>2. Len(order) \in Nat
  BY ListOf, LenProperties
<1>3. GoodRows(all.rows)
  <2>1. /\ DOMAIN all.rows = RowNames
        /\ all.rows.reviews = rows.reviews \cup Range(renewals)
    <3> HIDE DEF renewals
    <3> QED
      BY DEF Refresh, GoodRows, RowNames, renewals
  <2>2. Dated(rows.reviews \cup Range(renewals))
    BY <1>1, FS_Union DEF Dated, GoodRows
  <2> QED
    BY <2>1, <2>2 DEF GoodRows
<1>4. ASSUME NEW k \in 1 .. 2 * Len(order)
      PROVE  PlainEntry(renewed[k])
  <2>1. CASE k % 2 = 1
    <3> DEFINE i == (k + 1) \div 2
    <3>1. i \in 1..Len(order)
      BY <1>2, <1>4, <2>1
    <3>2. renewed[k] = [file |-> "review", review |-> renewals[i]]
      BY <2>1 DEF RenewalFiles
    <3> HIDE DEF i, renewals
    <3>3. renewals[i] \in Range(renewals)
      BY <1>1, <3>1 DEF Range
    <3>4. renewals[i].id \in Nat
      BY <1>1, <3>3 DEF Dated
    <3> QED
      BY <3>2, <3>4, ReviewEntry
  <2>2. CASE k % 2 # 1
    <3>1. \E a, fields : renewed[k] = InCatalog(a, fields, {})
      BY <2>2 DEF RenewalFiles
    <3> QED
      BY <3>1, CatalogEntry
  <2> QED
    BY <2>1, <2>2
<1>5. DOMAIN renewed = 1 .. 2 * Len(order)
  BY DEF RenewalFiles
<1>6. all.todo = todo \o renewed
  BY DEF Refresh
<1> HIDE DEF order, renewals, renewed, all
<1>7. Plain(todo \o renewed)
  <2> DEFINE S == {renewed[k] : k \in 1 .. 2 * Len(order)}
             n == 2 * Len(order)
  <2>1. n \in Nat
    BY <1>2
  <2>2. renewed = [k \in 1..n |-> renewed[k]]
    BY <1>5 DEF renewed, RenewalFiles, order
  <2>3. renewed \in [1..n -> S]
    BY <2>2
  <2>4. renewed \in Seq(S)
    <3> HIDE DEF S, n
    <3> QED
      BY <2>1, <2>3, SeqDef
  <2>5. \A e \in S : PlainEntry(e)
    BY <1>4
  <2> HIDE DEF S
  <2> QED
    BY <2>4, <2>5, PlainMore
<1> QED
  BY <1>3, <1>6, <1>7 DEF all

LEMMA ApproveRevisionKeeps ==
    ASSUME IInv, NEW p \in Requests, ApproveRevision(p)
    PROVE  IInv'
<1> DEFINE a == req[p].asset
           r == req[p].revision
           view == req[p].view
           review == Review(NextReview, r, "approve", Dependencies(db, a))
           decided == [Decide(Invalidate(db, {a}), review) EXCEPT !.status[r] = "approved"]
           new == [current |-> r, content |-> "approved", publication |-> "ready",
                   candidate |-> NewestPending(decided, a)]
           rows == BlockDependents(Assign(decided, view, a, new), a)
           file == [file |-> "review", review |-> review]
           last == InCatalog(a, Fields(view, a, new), {})
           todo == <<file, last>>
           sources == IF view.asset[a].current = None THEN Depicting(view, a) ELSE {}
           all == Refresh(p, rows, todo, sources)
<1>1. req[p].pc = "read" /\ req[p].op = "approve" /\ Hold(p, all.rows, all.todo)
  BY DEF ApproveRevision
<1>2. review.id \in Nat
  BY NextReviewIsNat DEF Review
<1>3. GoodRows(decided)
  <2> HIDE DEF review
  <2> QED
    BY <1>2, GoodDecision
<1>4. GoodRows(rows)
  <2> HIDE DEF decided, new
  <2> QED
    BY <1>3, GoodAssign, GoodBlock
<1>5. PlainEntry(file) /\ PlainEntry(last)
  <2> HIDE DEF review
  <2> QED
    BY <1>2, ReviewEntry, CatalogEntry
<1>6. Plain(todo)
  BY <1>5, PlainTwo
<1>7. IsFiniteSet(sources)
  <2>1. Depicting(view, a) \subseteq Assets
    BY MediaAssumption DEF Depicting
  <2> QED
    BY <2>1, AssetsAssumption, FS_Subset, FS_EmptySet
<1> HIDE DEF rows, todo, sources
<1>8. GoodRows(all.rows) /\ Plain(all.todo)
  BY <1>4, <1>6, <1>7, RefreshIsGood
<1> HIDE DEF all
<1> QED
  BY <1>1, <1>8, PlainOrder, HoldsWell DEF Plain

LEMMA CreateRelationKeeps ==
    ASSUME IInv, NEW p \in Requests, CreateRelation(p)
    PROVE  IInv'
<1> DEFINE rel == req[p].data
           rows == [db EXCEPT !.relations = @ \cup {rel}]
           write == [file |-> "relations", relations |-> rows.relations]
           all == Refresh(p, rows, <<>>, {rel.source})
<1>1. /\ req[p].pc = "read" /\ req[p].op = "relate"
      /\ \/ req' = [req EXCEPT ![p] = Idle] /\ UNCHANGED <<files, db>>
         \/ Hold(p, all.rows, Append(all.todo, write))
         \/ Hold(p, rows, <<write>>)
  BY DEF CreateRelation
<1>2. GoodRows(rows)
  BY SameReviews DEF IInv, RowsInv, GoodRows, RowNames
<1>3. PlainEntry(write)
  BY DEF PlainEntry, GoodEntry, Kinds
<1>4. Plain(<<>>) /\ Plain(<<write>>)
  <2> DEFINE S == {write}
  <2>1. <<>> \in Seq(S) /\ <<write>> \in Seq(S) /\ \A e \in S : PlainEntry(e)
    BY <1>3
  <2> HIDE DEF S, write
  <2> QED
    BY <2>1, PlainOf
<1>5. GoodRows(all.rows) /\ Plain(all.todo)
  <2>1. IsFiniteSet({rel.source})
    BY FS_Singleton
  <2> HIDE DEF rows, rel
  <2> QED
    BY <1>2, <1>4, <2>1, RefreshIsGood
<1>6. Plain(Append(all.todo, write))
  <2> DEFINE S == {write}
  <2>1. <<write>> \in Seq(S) /\ \A e \in S : PlainEntry(e)
    BY <1>3
  <2> HIDE DEF S, write
  <2>2. Plain(all.todo \o <<write>>)
    <3> HIDE DEF all
    <3> QED
      BY <1>5, <2>1, PlainMore
  <2>3. Append(all.todo, write) = all.todo \o <<write>>
    <3> HIDE DEF all
    <3> QED
      BY <1>5 DEF Plain, GoodTodo
  <2> QED
    BY <2>2, <2>3
<1> HIDE DEF rows, write, all
<1>7. CASE req' = [req EXCEPT ![p] = Idle] /\ UNCHANGED <<files, db>>
  BY <1>7, EndsWell DEF IInv, FilesInv, RowsInv
<1>8. CASE Hold(p, all.rows, Append(all.todo, write))
  BY <1>1, <1>5, <1>6, <1>8, PlainOrder, HoldsWell DEF Plain
<1>9. CASE Hold(p, rows, <<write>>)
  BY <1>1, <1>2, <1>4, <1>9, PlainOrder, HoldsWell DEF Plain
<1> QED
  BY <1>1, <1>7, <1>8, <1>9

LEMMA PromoteKeeps ==
    ASSUME IInv, NEW p \in Requests, Promote(p)
    PROVE  IInv'
<1> DEFINE a == req[p].asset
           r == req[p].revision
           view == req[p].view
           review == Review(NextReview, -r, "approve", Dependencies(view, a))
           next == NewestPending([view EXCEPT !.status[r] = "superseded"], a)
           new == [current |-> -r, content |-> "approved", publication |-> "ready",
                   candidate |-> next]
           e1 == [file |-> "artifacts", revision |-> -r]
           e2 == [file |-> "revision", revision |-> -r]
           e3 == [file |-> "review", review |-> review]
           e4 == InCatalog(a, new, {r})
           todo == PromotionFiles(r, review, a, new)
           data == [review |-> review, new |-> new]
<1>1. /\ req[p].pc = "promote"
      /\ req' = [req EXCEPT ![p].pc = "files", ![p].todo = todo, ![p].data = data]
      /\ UNCHANGED <<files, db>>
  BY DEF Promote
<1>2. review.id \in Nat /\ data.review = review
  BY NextReviewIsNat DEF Review
<1>3. PlainEntry(e1) /\ PlainEntry(e2) /\ PlainEntry(e3) /\ PlainEntry(e4)
  <2>1. PlainEntry(e1) /\ PlainEntry(e2)
    BY DEF PlainEntry, GoodEntry, Kinds
  <2> HIDE DEF review, new
  <2> QED
    BY <1>2, <2>1, ReviewEntry, CatalogEntry
<1>4. Plain(todo)
  <2> DEFINE S == {e1, e2, e3, e4}
  <2>1. todo = <<e1, e2, e3, e4>>
    BY DEF PromotionFiles
  <2>2. <<e1, e2, e3, e4>> \in Seq(S) /\ \A e \in S : PlainEntry(e)
    BY <1>3
  <2> HIDE DEF S, e1, e2, e3, e4, todo
  <2> QED
    BY <2>1, <2>2, PlainOf
<1> HIDE DEF todo, data, review
<1>5. /\ MovesOnly(p) /\ DOMAIN req'[p] = DOMAIN req[p]
      /\ req'[p].pc = "files" /\ req'[p].todo = todo /\ req'[p].data = data
      /\ req'[p].op = req[p].op /\ req'[p].locked = req[p].locked
      /\ req'[p].rows = req[p].rows /\ req'[p].view = req[p].view
  BY <1>1 DEF MovesOnly, IInv, RequestInv, GoodRequest, RequestNames
<1>6. ~req[p].locked
  BY <1>1 DEF IInv, RequestInv, GoodLock
<1>7. GoodRequest(req'[p])
  BY <1>1, <1>2, <1>4, <1>5 DEF GoodRequest, IInv, RequestInv, Plain
<1>8. GoodLock(req'[p]) /\ GoodOrder(req'[p].op, req'[p].locked, req'[p].todo, files'.manifests)
  BY <1>4, <1>5, <1>6, PlainOrder DEF GoodLock
<1>9. RequestInv' /\ LockInv'
  BY <1>1, <1>5, <1>6, <1>7, <1>8, OneRequestMoves
<1> QED
  BY <1>1, <1>9 DEF IInv, FilesInv, RowsInv

LEMMA CommitMediaKeeps ==
    ASSUME IInv, NEW p \in Requests, CommitMedia(p)
    PROVE  IInv'
<1> DEFINE a == req[p].asset
           r == req[p].revision
           decided == Decide(Invalidate(db, {a}), req[p].data.review)
           assigned == Assign(decided, req[p].view, a, req[p].data.new)
           status == Updated(assigned.status,
                             [x \in {r, -r} |-> IF x = r THEN "superseded" ELSE "approved"])
           rows == [assigned EXCEPT !.status = status, !.passed = @ \cup {-r}]
<1>1. /\ db' = IF SameSequence(p) THEN db ELSE BlockDependents(rows, a)
      /\ req[p].pc = "files" /\ req[p].op = "approve_media"
      /\ req' = [req EXCEPT ![p] = Idle]
      /\ UNCHANGED files
  BY DEF CommitMedia
<1>2. req[p].data.review.id \in Nat
  BY <1>1 DEF IInv, RequestInv, GoodRequest
<1>3. GoodRows(assigned)
  BY <1>2, GoodInvalidate, GoodDecide, GoodAssign DEF IInv, RowsInv
<1>4. GoodRows(BlockDependents(rows, a))
  <2> HIDE DEF assigned, status
  <2>1. GoodRows(rows)
    BY <1>3, SameReviews DEF GoodRows, RowNames
  <2> HIDE DEF rows
  <2> QED
    BY <2>1, GoodBlock
<1> HIDE DEF rows
<1>5. RowsInv'
  BY <1>1, <1>4 DEF IInv, RowsInv
<1> QED
  BY <1>1, <1>5, EndsWell DEF IInv, FilesInv

\* The assets of a release fit together because one preflight has checked them
\* all against the same rows.
LEMMA ManifestFits ==
    ASSUME NEW view, GoodRows(view), NEW asked \in SUBSET Assets, Preflight(view, asked), NEW id
    PROVE  Fits([id |-> id, entries |-> {Entry(view, a) : a \in asked}])
<1> DEFINE Valid(a) == Approvals(view, a)
<1>1. ASSUME NEW a \in asked
      PROVE  \A d \in Latest(Valid(a)).dependencies : d[2] = view.asset[d[1]].current
  <2>1. Valid(a) # {} /\ Dated(Valid(a))
    BY DatedPart DEF Preflight, Approvals, GoodRows
  <2>2. Latest(Valid(a)) \in Valid(a)
    BY <2>1, LatestIsOne
  <2>3. Latest(Valid(a)).dependencies = Dependencies(view, a)
    BY <2>2 DEF Approvals
  <2> QED
    BY <2>3 DEF Dependencies
<1>2. ASSUME NEW a \in asked, NEW b \in asked, NEW d \in Entry(view, a).dependencies,
             d[1] = Entry(view, b).asset
      PROVE  d[2] = Entry(view, b).revision
  BY <1>1, <1>2 DEF Entry
<1> QED
  BY <1>2 DEF Fits

LEMMA ReleaseFilesOrder ==
    ASSUME NEW manifest, Fits(manifest), NEW asked \in SUBSET Assets, NEW manifests
    PROVE  /\ GoodTodo(ReleaseFiles(manifest, asked))
           /\ GoodOrder("release", FALSE, ReleaseFiles(manifest, asked), manifests)
<1> DEFINE C == {InCatalog(a, [publication |-> "published"], {}) : a \in asked}
           e1 == [file |-> "manifest", manifest |-> manifest]
           e2 == [file |-> "pointer", id |-> manifest.id]
           list == SetToSeq(C)
           todo == <<e1, e2>> \o list
<1>1. todo = ReleaseFiles(manifest, asked)
  BY DEF ReleaseFiles
<1>2. \A e \in C : e.file = "catalog" /\ GoodEntry(e)
  BY CatalogEntry DEF PlainEntry, InCatalog
<1>3. GoodEntry(e1) /\ GoodEntry(e2)
  BY DEF GoodEntry, Kinds
<1>4. IsFiniteSet(C)
  <2> DEFINE f == [a \in asked |-> InCatalog(a, [publication |-> "published"], {})]
  <2>1. IsFiniteSet(asked)
    BY AssetsAssumption, FS_Subset
  <2>2. IsFiniteSet({f[a] : a \in asked})
    BY <2>1, ImageIsFinite
  <2>3. C = {f[a] : a \in asked}
    OBVIOUS
  <2> HIDE DEF f, C
  <2> QED
    BY <2>2, <2>3
<1>5. list \in Seq(C)
  <2> HIDE DEF C
  <2> QED
    BY <1>4, ListOf
<1> DEFINE S == C \cup {e1, e2}
<1>6. list \in Seq(S) /\ <<e1, e2>> \in Seq(S) /\ \A e \in S : GoodEntry(e)
  <2>1. <<e1, e2>> \in Seq({e1, e2})
    OBVIOUS
  <2> HIDE DEF C, list, e1, e2
  <2> QED
    BY <1>2, <1>3, <1>5, <2>1, SeqMonotonic
<1> HIDE DEF C, list, S
<1>7. /\ todo \in Seq(S) /\ Len(todo) = 2 + Len(list) /\ Len(list) \in Nat
      /\ todo[1] = e1 /\ todo[2] = e2
      /\ \A i \in 3..Len(todo) : todo[i] = list[i - 2]
  <2> HIDE DEF e1, e2
  <2>1. Len(<<e1, e2>>) = 2 /\ <<e1, e2>>[1] = e1 /\ <<e1, e2>>[2] = e2
    OBVIOUS
  <2> QED
    BY <1>6, <2>1, ConcatProperties, LenProperties
<1>8. \A i \in 3..Len(todo) : todo[i].file = "catalog"
  <2> HIDE DEF todo
  <2>1. ASSUME NEW i \in 3..Len(todo)
        PROVE  list[i - 2] \in C
    BY <1>5, <1>7, ElementOfSeq
  <2> QED
    BY <1>2, <1>7, <2>1
<1>9. e1.file = "manifest" /\ e2.file = "pointer" /\ e2.id = e1.manifest.id
  OBVIOUS
<1> HIDE DEF e1, e2, todo
<1>10. GoodTodo(todo)
  BY <1>6, <1>7, TodoOf
<1>11. GoodOrder("release", FALSE, todo, manifests)
  BY <1>7, <1>8, <1>9 DEF GoodOrder
<1> QED
  BY <1>1, <1>10, <1>11

LEMMA CreateReleaseKeeps ==
    ASSUME IInv, NEW p \in Requests, CreateRelease(p)
    PROVE  IInv'
<1> DEFINE view == req[p].view
           asked == req[p].asked
           manifest == [id |-> 1 + Cardinality(files.manifests),
                        entries |-> {Entry(view, a) : a \in asked}]
           rows == [Publish(db, view, asked) EXCEPT !.releases = @ \cup {manifest.id}]
           todo == ReleaseFiles(manifest, asked)
<1>1. Hold(p, rows, todo) /\ req[p].pc = "read" /\ req[p].op = "release"
  BY DEF CreateRelease
<1>2. GoodRows(view) /\ asked \in SUBSET Assets /\ Preflight(view, asked)
  BY <1>1 DEF IInv, RequestInv, GoodRequest
<1>3. Fits(manifest)
  BY <1>2, ManifestFits
<1>4. GoodTodo(todo) /\ GoodOrder("release", FALSE, todo, files.manifests)
  <2> HIDE DEF manifest
  <2> QED
    BY <1>2, <1>3, ReleaseFilesOrder
<1>5. GoodRows(rows)
  <2>1. GoodRows(Publish(db, view, asked))
    BY GoodPublish DEF IInv, RowsInv
  <2> HIDE DEF manifest
  <2> QED
    BY <2>1, SameReviews DEF GoodRows, RowNames
<1> HIDE DEF rows, todo
<1> QED
  BY <1>1, <1>4, <1>5, HoldsWell

\* Written keeps the form of the files and takes no manifest away.
LEMMA WrittenIsGood ==
    ASSUME GoodFiles(files), NEW e, GoodEntry(e),
           e.file = "pointer" => \E m \in files.manifests : m.id = e.id
    PROVE  /\ GoodFiles(Written(e))
           /\ files.manifests \subseteq Written(e).manifests
           /\ e.file = "manifest" => e.manifest \in Written(e).manifests
<1> DEFINE f == Written(e)
<1>1. CASE e.file = "review"
  <2>1. /\ DOMAIN f = FileNames /\ f.reviews = files.reviews \cup {e.review}
        /\ f.manifests = files.manifests /\ f.pointer = files.pointer
    BY <1>1 DEF Written, GoodFiles, FileNames
  <2>2. Dated(f.reviews)
    BY <1>1, <2>1, DatedWithOne DEF GoodFiles, GoodEntry
  <2> QED
    BY <1>1, <2>1, <2>2 DEF GoodFiles
<1>2. CASE e.file = "manifest"
  <2>1. /\ DOMAIN f = FileNames /\ f.reviews = files.reviews
        /\ f.manifests = files.manifests \cup {e.manifest} /\ f.pointer = files.pointer
    BY <1>2 DEF Written, GoodFiles, FileNames
  <2> QED
    BY <1>2, <2>1 DEF GoodFiles, GoodEntry, Named
<1>3. CASE e.file = "pointer"
  <2>1. /\ DOMAIN f = FileNames /\ f.reviews = files.reviews
        /\ f.manifests = files.manifests /\ f.pointer = e.id
    BY <1>3 DEF Written, GoodFiles, FileNames
  <2> QED
    BY <1>3, <2>1 DEF GoodFiles, Named
<1>4. CASE e.file \in {"artifacts", "revision", "relations", "catalog"}
  <2>1. /\ DOMAIN f = FileNames /\ f.reviews = files.reviews
        /\ f.manifests = files.manifests /\ f.pointer = files.pointer
    <3>1. CASE e.file = "artifacts"
      BY <3>1 DEF Written, GoodFiles, FileNames
    <3>2. CASE e.file = "revision"
      BY <3>2 DEF Written, GoodFiles, FileNames
    <3>3. CASE e.file = "relations"
      BY <3>3 DEF Written, GoodFiles, FileNames
    <3>4. CASE e.file = "catalog"
      <4> DEFINE fields == Updated(files.catalog[e.asset], e.fields)
      <4>1. Written(e) = [files EXCEPT !.catalog[e.asset] = fields,
                                       !.superseded = @ \cup e.superseded]
        BY <3>4 DEF Written
      <4> HIDE DEF fields
      <4> QED
        BY <4>1 DEF GoodFiles, FileNames
    <3> QED
      BY <1>4, <3>1, <3>2, <3>3, <3>4
  <2> QED
    BY <1>4, <2>1 DEF GoodFiles
<1> QED
  BY <1>1, <1>2, <1>3, <1>4 DEF GoodEntry, Kinds

LEMMA SequenceParts ==
    ASSUME NEW todo, GoodTodo(todo), todo # <<>>
    PROVE  /\ Len(todo) \in Nat /\ Len(todo) > 0 /\ Head(todo) = todo[1]
           /\ Len(Tail(todo)) = Len(todo) - 1
           /\ \A i \in 1..Len(Tail(todo)) : Tail(todo)[i] = todo[i + 1]
           /\ (Tail(todo) = <<>>) <=> (Len(todo) = 1)
<1> DEFINE S == Range(todo)
           rest == Tail(todo)
<1>1. todo \in Seq(S)
  BY DEF GoodTodo
<1> HIDE DEF S
<1>2. Len(todo) \in Nat /\ Len(todo) > 0 /\ Head(todo) = todo[1]
  BY <1>1, EmptySeq
<1>3. /\ rest \in Seq(S) /\ Len(rest) = Len(todo) - 1
      /\ \A i \in 1..Len(rest) : rest[i] = todo[i + 1]
  BY <1>1, HeadTailProperties
<1>4. (rest = <<>>) <=> (Len(rest) = 0)
  <2> HIDE DEF rest
  <2> QED
    BY <1>3, EmptySeq
<1> HIDE DEF rest
<1>5. (rest = <<>>) <=> (Len(todo) = 1)
  BY <1>2, <1>3, <1>4
<1> QED
  BY <1>2, <1>3, <1>5 DEF rest

LEMMA PointerIsNamed ==
    ASSUME NEW todo, GoodTodo(todo), todo # <<>>, NEW op, NEW locked, NEW manifests,
           GoodOrder(op, locked, todo, manifests), Head(todo).file = "pointer"
    PROVE  \E m \in manifests : m.id = Head(todo).id
<1>1. Len(todo) \in Nat /\ Len(todo) > 0 /\ Head(todo) = todo[1]
  BY SequenceParts
<1> QED
  BY <1>1 DEF GoodOrder, Writes

\* After the first file the rest is still in order: the manifest was written
\* under the lock that the pointer is written under.
LEMMA OrderOfRest ==
    ASSUME NEW op, NEW locked \in BOOLEAN, NEW todo, GoodTodo(todo), todo # <<>>, NEW manifests, NEW more,
           GoodOrder(op, locked, todo, manifests), manifests \subseteq more,
           Head(todo).file = "manifest" => Head(todo).manifest \in more,
           NEW goesOn \in BOOLEAN, op = "release" => (goesOn <=> Tail(todo) # <<>>)
    PROVE  GoodOrder(op, goesOn, Tail(todo), more)
<1> DEFINE rest == Tail(todo)
<1>1. /\ Len(todo) \in Nat /\ Len(todo) > 0 /\ Head(todo) = todo[1]
      /\ Len(rest) = Len(todo) - 1
      /\ \A i \in 1..Len(rest) : rest[i] = todo[i + 1]
      /\ (rest = <<>>) <=> (Len(todo) = 1)
  BY SequenceParts
<1> HIDE DEF rest
<1>2. CASE Writes(todo, Kinds \ {"manifest", "pointer"})
  <2>1. Writes(rest, Kinds \ {"manifest", "pointer"})
    BY <1>1, <1>2 DEF Writes
  <2> QED
    BY <1>1, <1>2, <2>1 DEF GoodOrder, rest, Writes
<1>3. CASE /\ op = "release" /\ ~locked
           /\ Len(todo) > 1 /\ todo[1].file = "manifest" /\ todo[2].file = "pointer"
           /\ todo[2].id = todo[1].manifest.id
           /\ \A i \in 3..Len(todo) : todo[i].file = "catalog"
  <2>1. goesOn /\ Len(rest) > 0
    BY <1>1, <1>3 DEF rest
  <2>2. rest[1] = todo[2] /\ \A i \in 2..Len(rest) : rest[i].file = "catalog"
    <3>1. rest[1] = todo[2]
      BY <1>1, <1>3
    <3>2. ASSUME NEW i \in 2..Len(rest)
          PROVE  rest[i] = todo[i + 1] /\ i + 1 \in 3..Len(todo)
      BY <1>1
    <3> QED
      BY <1>3, <3>1, <3>2
  <2>3. todo[1].manifest \in more
    BY <1>1, <1>3
  <2> QED
    BY <1>1, <1>3, <2>1, <2>2, <2>3 DEF GoodOrder, rest
<1>4. CASE /\ locked
           /\ Len(todo) > 0 /\ todo[1].file = "pointer"
           /\ \E m \in manifests : m.id = todo[1].id
           /\ \A i \in 2..Len(todo) : todo[i].file = "catalog"
  <2>1. Writes(rest, Kinds \ {"manifest", "pointer"})
    BY <1>1, <1>4 DEF Writes, Kinds
  <2> QED
    BY <1>1, <1>4, <2>1 DEF GoodOrder, rest
<1> QED
  BY <1>2, <1>3, <1>4 DEF GoodOrder

LEMMA WriteFileKeeps ==
    ASSUME IInv, NEW p \in Requests, WriteFile(p)
    PROVE  IInv'
<1> DEFINE todo == req[p].todo
           goesOn == Transaction(p) /\ Tail(todo) # <<>>
           saved == IF ~goesOn THEN None ELSE IF req[p].locked THEN req[p].saved ELSE files
<1>1. /\ req[p].pc = "files" /\ todo # <<>>
      /\ ~ProjectLocked(p)
      /\ files' = Written(Head(todo))
      /\ req' = [req EXCEPT ![p].todo = Tail(todo), ![p].locked = goesOn, ![p].saved = saved]
      /\ db' = db
  BY DEF WriteFile
<1>2. GoodTodo(todo) /\ GoodOrder(req[p].op, req[p].locked, todo, files.manifests)
      /\ req[p].locked \in BOOLEAN
  BY DEF IInv, RequestInv, GoodRequest
<1>3. GoodEntry(Head(todo)) /\ GoodTodo(Tail(todo))
  BY <1>1, <1>2, TodoRest
<1>4. goesOn \in BOOLEAN /\ (req[p].op = "release" => (goesOn <=> Tail(todo) # <<>>))
  BY DEF Transaction
<1>5. Head(todo).file = "pointer" => \E m \in files.manifests : m.id = Head(todo).id
  <2> HIDE DEF todo
  <2> QED
    BY <1>1, <1>2, PointerIsNamed
<1>6. /\ GoodFiles(files') /\ files.manifests \subseteq files'.manifests
      /\ Head(todo).file = "manifest" => Head(todo).manifest \in files'.manifests
  BY <1>1, <1>3, <1>5, WrittenIsGood DEF IInv, FilesInv
<1>7. GoodOrder(req[p].op, goesOn, Tail(todo), files'.manifests)
  <2> HIDE DEF todo, goesOn
  <2> QED
    BY <1>1, <1>2, <1>4, <1>6, OrderOfRest
<1>8. /\ MovesOnly(p) /\ DOMAIN req'[p] = DOMAIN req[p]
      /\ req'[p].todo = Tail(todo) /\ req'[p].locked = goesOn /\ req'[p].saved = saved
      /\ req'[p].pc = "files" /\ req'[p].op = req[p].op /\ req'[p].data = req[p].data
      /\ req'[p].rows = req[p].rows /\ req'[p].view = req[p].view
  <2> HIDE DEF goesOn, saved
  <2> QED
    BY <1>1 DEF MovesOnly, IInv, RequestInv, GoodRequest, RequestNames
<1>9. GoodRequest(req'[p])
  <2> HIDE DEF goesOn, saved, todo
  <2> QED
    BY <1>1, <1>3, <1>4, <1>8 DEF GoodRequest, IInv, RequestInv
<1>10. GoodLock(req'[p])
  <2>1. goesOn => GoodFiles(saved)
    BY DEF IInv, FilesInv, RequestInv, GoodLock
  <2> HIDE DEF saved
  <2> QED
    BY <1>8, <2>1 DEF GoodLock
<1>11. \A q \in Requests \ {p} : ~req[q].locked
  BY <1>1 DEF ProjectLocked
<1>12. RequestInv' /\ LockInv'
  <2> HIDE DEF goesOn, saved, todo
  <2> QED
    BY <1>6, <1>7, <1>8, <1>9, <1>10, <1>11, OneRequestMoves
<1> QED
  BY <1>1, <1>6, <1>12 DEF IInv, FilesInv, RowsInv

LEMMA CommitKeeps ==
    ASSUME IInv, NEW p \in Requests, Commit(p)
    PROVE  IInv'
<1>1. /\ req[p].rows # None /\ db' = req[p].rows
      /\ req' = [req EXCEPT ![p] = Idle] /\ files' = files
  BY DEF Commit
<1>2. RowsInv' /\ FilesInv'
  BY <1>1 DEF IInv, RowsInv, FilesInv, RequestInv, GoodRequest
<1> QED
  BY <1>1, <1>2, EndsWell

\* What a failing transaction puts back has the form of files; nobody else
\* holds the lock then.
LEMMA FileFailsKeeps ==
    ASSUME IInv, NEW p \in Requests, FileFails(p)
    PROVE  IInv'
<1>1. /\ ~ProjectLocked(p) /\ db' = db
      /\ files' = IF req[p].locked THEN req[p].saved ELSE files
      /\ req' = [req EXCEPT ![p] = Idle]
  BY DEF FileFails
<1>2. RowsInv' /\ FilesInv'
  BY <1>1 DEF IInv, RowsInv, FilesInv, RequestInv, GoodLock
<1>3. \A q \in Requests \ {p} : ~req[q].locked
  BY <1>1 DEF ProjectLocked
<1> QED
  BY <1>1, <1>2, <1>3, EndsWell

LEMMA ReadHistoryKeeps ==
    ASSUME IInv, NEW p \in Requests, ReadHistory(p)
    PROVE  IInv'
<1> DEFINE data == [files EXCEPT !.catalog = req[p].data.catalog,
                                 !.superseded = req[p].data.superseded,
                                 !.relations = req[p].data.relations]
<1>1. /\ req[p].pc = "history" /\ UNCHANGED <<files, db>>
      /\ req' = [req EXCEPT ![p].pc = "rebuild", ![p].data = data]
  BY DEF ReadHistory
<1>2. GoodFiles(data)
  BY DEF IInv, FilesInv, GoodFiles, FileNames
<1> HIDE DEF data
<1>3. /\ MovesOnly(p) /\ DOMAIN req'[p] = DOMAIN req[p]
      /\ req'[p].pc = "rebuild" /\ req'[p].data = data
      /\ req'[p].todo = req[p].todo /\ req'[p].locked = req[p].locked
      /\ req'[p].op = req[p].op /\ req'[p].rows = req[p].rows /\ req'[p].view = req[p].view
  BY <1>1 DEF MovesOnly, IInv, RequestInv, GoodRequest, RequestNames
<1>4. ~req[p].locked /\ req[p].rows = None
  BY <1>1 DEF IInv, RequestInv, GoodLock, GoodRequest
<1>5. GoodRequest(req'[p]) /\ GoodLock(req'[p])
  BY <1>1, <1>2, <1>3, <1>4 DEF GoodRequest, GoodLock, IInv, RequestInv
<1>6. GoodOrder(req'[p].op, req'[p].locked, req'[p].todo, files'.manifests)
  BY <1>1, <1>3 DEF IInv, RequestInv
<1>7. RequestInv' /\ LockInv'
  BY <1>1, <1>3, <1>4, <1>5, <1>6, OneRequestMoves
<1> QED
  BY <1>1, <1>7 DEF IInv, FilesInv, RowsInv

LEMMA RebuildKeeps ==
    ASSUME IInv, NEW p \in Requests, Rebuild(p)
    PROVE  IInv'
<1>1. /\ req[p].pc = "rebuild" /\ db' = Rebuilt(req[p].data, db)
      /\ req' = [req EXCEPT ![p] = Idle] /\ files' = files
  BY DEF Rebuild
<1>2. RowsInv' /\ FilesInv'
  BY <1>1, GoodRebuilt DEF IInv, RowsInv, FilesInv, RequestInv, GoodRequest
<1> QED
  BY <1>1, <1>2, EndsWell

LEMMA RunQaKeeps ==
    ASSUME IInv, NEW r, RunQa(r)
    PROVE  IInv'
<1>1. PICK new, old \in {{}, {r}} :
          /\ db' = [db EXCEPT !.passed = (@ \cup new) \ old]
          /\ files' = [files EXCEPT !.passed = (@ \cup new) \ old]
  BY DEF RunQa
<1>2. RowsInv' /\ FilesInv' /\ files'.manifests = files.manifests
  BY <1>1 DEF IInv, RowsInv, FilesInv, GoodRows, GoodFiles, RowNames, FileNames
<1>3. req' = req
  BY DEF RunQa
<1> QED
  BY <1>2, <1>3 DEF IInv, RequestInv, LockInv

LEMMA CrashKeeps ==
    ASSUME IInv, Crash
    PROVE  IInv'
<1>1. req' = [p \in Requests |-> Idle] /\ UNCHANGED <<files, db>>
  BY DEF Crash
<1>2. \A p \in Requests : req'[p] = Idle /\ ~req'[p].locked
  BY <1>1 DEF Idle
<1> QED
  BY <1>1, <1>2, IdleIsGood DEF IInv, FilesInv, RowsInv, RequestInv, LockInv

LEMMA StartUpKeeps ==
    ASSUME IInv, StartUp
    PROVE  IInv'
BY GoodRebuilt DEF StartUp, IInv, FilesInv, RowsInv, RequestInv, LockInv

LEMMA InitHolds ==
    ASSUME Init
    PROVE  IInv
<1>1. Dated({})
  BY FS_EmptySet DEF Dated
<1>2. GoodFiles(files) /\ GoodRows(db)
  BY <1>1 DEF Init, GoodFiles, GoodRows, NewFiles, NewRows, FileNames, RowNames, Named
<1>3. \A p \in Requests : req[p] = Idle /\ ~req[p].locked
  BY DEF Init, Idle
<1> QED
  BY <1>2, <1>3, IdleIsGood DEF Init, IInv, FilesInv, RowsInv, RequestInv, LockInv

\* IInv is inductive.
THEOREM Invariant == Spec => []IInv
<1>1. ASSUME IInv, [Next]_vars
      PROVE  IInv'
  <2>1. CASE UNCHANGED vars
    BY <1>1, <2>1 DEF vars, IInv, FilesInv, RowsInv, RequestInv, LockInv
  <2>2. ASSUME NEW p \in Requests, Step(p)
        PROVE  IInv'
    BY <1>1, <2>2, CreateRevisionKeeps, RejectRevisionKeeps, ApproveRevisionKeeps, PromoteKeeps,
       CommitMediaKeeps, CreateRelationKeeps, CreateReleaseKeeps, WriteFileKeeps, CommitKeeps,
       ReadHistoryKeeps, RebuildKeeps DEF Step
  <2>3. ASSUME NEW p \in Requests,
               \/ \E a \in Assets : StartCreate(p, a)
               \/ \E r \in DOMAIN db.status, v \in {"approve", "reject"} : StartReview(p, r, v)
               \/ \E rel \in Relations : StartRelate(p, rel)
               \/ \E asked \in SUBSET Assets : StartRelease(p, asked)
               \/ StartScan(p)
        PROVE  IInv'
    BY <1>1, <2>3, StartsKeep
  <2>4. ASSUME NEW p \in Requests, FileFails(p)
        PROVE  IInv'
    BY <1>1, <2>4, FileFailsKeeps
  <2>5. CASE (\E r \in DOMAIN db.status : RunQa(r)) \/ Crash \/ StartUp
    BY <1>1, <2>5, RunQaKeeps, CrashKeeps, StartUpKeeps
  <2> QED
    BY <1>1, <2>1, <2>2, <2>3, <2>4, <2>5 DEF Next
<1> QED
  BY <1>1, InitHolds, PTL DEF Spec

-----------------------------------------------------------------------------
(* Results *)

\* Whoever overlaps, fails or dies, the pointer names a manifest that is there:
\* commit_release writes both under one lock, in this order.
THEOREM PointerNamesManifest == Spec => []PointerHasManifest
<1>1. IInv => PointerHasManifest
  BY DEF IInv, FilesInv, GoodFiles, Named, PointerHasManifest
<1> QED
  BY <1>1, Invariant, PTL

\* The assets of every release ever written fit together, although the
\* approvals are read before anything is locked: all are read at once.
THEOREM ReleasesConsistent == Spec => []ReleaseConsistent
<1>1. IInv => ReleaseConsistent
  BY DEF IInv, FilesInv, GoodFiles, Fits, ReleaseConsistent
<1> QED
  BY <1>1, Invariant, PTL

\* Who holds the lock of the project is never blocked, nor is who has only to
\* commit: some running request can always go on, for any number of them.
THEOREM LocksDoNotDeadlock == Spec => []NoDeadlock
<1>1. ASSUME IInv
      PROVE  NoDeadlock
  <2>1. SUFFICES ASSUME NEW p \in Requests, Running(p), \A q \in Requests : Running(q) => Blocked(q)
                 PROVE  FALSE
    BY DEF NoDeadlock
  <2>2. ASSUME NEW q \in Requests, req[q].locked
        PROVE  FALSE
    <3>1. req[q].pc = "files" /\ req[q].todo # <<>> /\ Blocked(q)
      BY <1>1, <2>1, <2>2 DEF IInv, RequestInv, GoodLock, Running
    <3>2. ProjectLocked(q)
      BY <3>1 DEF Blocked
    <3> QED
      BY <1>1, <2>2, <3>2 DEF ProjectLocked, IInv, LockInv
  <2>3. ASSUME NEW q \in Requests, req[q].rows # None
        PROVE  FALSE
    <3>1. req[q].pc = "files" /\ Blocked(q)
      BY <1>1, <2>1, <2>3 DEF IInv, RequestInv, GoodRequest, Running
    <3> QED
      BY <2>2, <2>3, <3>1 DEF Blocked, ProjectLocked
  <2> QED
    BY <2>1, <2>2, <2>3 DEF Blocked, ProjectLocked, WriterFree
<1> QED
  BY <1>1, Invariant, PTL

=============================================================================
