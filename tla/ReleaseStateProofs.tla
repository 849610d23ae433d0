------------------------- MODULE ReleaseStateProofs -------------------------
(***************************************************************************)
(* What the rows of ReviewRelease say, for any number of requests, assets  *)
(* and relations.                                                          *)
(*                                                                         *)
(* First, rows, files and what requests carry have their types, whatever   *)
(* overlaps, fails or dies.                                                *)
(*                                                                         *)
(* Then, while no file failed and no request overlapped another, what is   *)
(* current is approved and what is published is released.  Crashes and     *)
(* scans are allowed, so the invariant is about the files: between any two *)
(* writes they are sound by themselves, and the writes that are left bring *)
(* them to the rows that will be committed.  A crash drops the rows and    *)
(* the writes, and a scan of sound files gives sound rows.                 *)
(***************************************************************************)
EXTENDS ReviewReleaseProofs

-----------------------------------------------------------------------------
(* Types *)

\* Numbers of revisions when n have been asked for.
Numbers(n) == (-n .. n) \ {0}

AssetFields == {"current", "candidate", "content", "publication"}

GoodAsset(row) ==
    DOMAIN row = AssetFields /\ row.content \in Content /\ row.publication \in Publication

\* Some fields of an asset.
GoodFields(new) ==
    /\ DOMAIN new \subseteq AssetFields
    /\ "content" \in DOMAIN new => new.content \in Content
    /\ "publication" \in DOMAIN new => new.publication \in Publication

GoodCatalog(catalog) == DOMAIN catalog = Assets /\ \A a \in Assets : GoodAsset(catalog[a])

TypedFiles(n, f) == GoodCatalog(f.catalog) /\ f.revisions \subseteq Numbers(n)

Ids(reviews) == {v.id : v \in reviews}

TypedRows(n, rows) ==
    /\ GoodCatalog(rows.asset)
    /\ \A r \in DOMAIN rows.status : r \in Numbers(n) /\ rows.status[r] \in Status
    /\ rows.valid \subseteq Ids(rows.reviews)

TypedEntry(n, e) ==
    /\ e.file = "catalog" => GoodFields(e.fields)
    /\ e.file = "revision" => e.revision \in Numbers(n)

Reviewing == {"approve", "reject", "approve_media"}

TypedRequest(n, r) ==
    /\ \A e \in Range(r.todo) : TypedEntry(n, e)
    /\ r.pc # "idle" => TypedRows(n, r.view)
    /\ r.rows # None => TypedRows(n, r.rows)
    /\ r.pc \in {"history", "rebuild"} => TypedFiles(n, r.data)
    /\ r.locked => TypedFiles(n, r.saved)
    /\ r.op \in Reviewing \cup {"create"} => r.asset \in Assets
    /\ r.op \in Reviewing => r.revision \in Numbers(n)
    /\ r.op = "approve_media" /\ r.pc = "files" => GoodFields(r.data.new)
    /\ r.op = "relate" /\ r.pc = "read" => r.data \in Relations
    /\ r.pc = "promote" => r.op = "approve_media"

TypeInv ==
    /\ made \in Seq(Assets)
    /\ TypedFiles(Len(made), files) /\ TypedRows(Len(made), db)
    /\ \A p \in Requests : TypedRequest(Len(made), req[p])
    /\ up \in BOOLEAN

-----------------------------------------------------------------------------
(* Fields, rows and files have their types *)

\* Numbers of revisions stay numbers when one more is asked for.
LEMMA NumbersGrow ==
    ASSUME NEW n \in Nat
    PROVE  Numbers(n) \subseteq Numbers(n + 1) /\ n + 1 \in Numbers(n + 1)
BY DEF Numbers

\* A durable revision is numbered as the pending one it is made of.
LEMMA Opposite ==
    ASSUME NEW n \in Nat, NEW r \in Numbers(n)
    PROVE  -r \in Numbers(n)
BY DEF Numbers

\* A whole row gives some fields.
LEMMA FieldsOfAsset ==
    ASSUME NEW row, GoodAsset(row)
    PROVE  GoodFields(row)
BY DEF GoodAsset, GoodFields, AssetFields

\* Fields with some replaced are fields.
LEMMA UpdatedIsGood ==
    ASSUME NEW row, GoodAsset(row), NEW new, GoodFields(new)
    PROVE  GoodAsset(Updated(row, new))
BY DEF GoodAsset, GoodFields, AssetFields, Updated

\* So is a row into which some fields are flushed.
LEMMA FlushIsGood ==
    ASSUME NEW row, GoodAsset(row), NEW loaded, NEW new, GoodFields(new)
    PROVE  GoodAsset(Flush(row, loaded, new))
BY DEF GoodAsset, GoodFields, AssetFields, Flush

\* An asset whose publication is changed.
LEMMA RepublishedIsGood ==
    ASSUME NEW row, GoodAsset(row), NEW publication \in Publication
    PROVE  GoodAsset([row EXCEPT !.publication = publication])
BY DEF GoodAsset, AssetFields

\* Rows with other assets, or of which fewer reviews are valid.
LEMMA TypedAssets ==
    ASSUME NEW n, NEW rows, TypedRows(n, rows), NEW x, GoodCatalog(x.asset),
           x.status = rows.status, x.reviews = rows.reviews, x.valid \subseteq rows.valid
    PROVE  TypedRows(n, x)
BY DEF TypedRows

\* Rows with one asset assigned keep their types,
LEMMA TypedAssign ==
    ASSUME NEW n, NEW rows, GoodRows(rows), TypedRows(n, rows), NEW view, NEW a \in Assets,
           NEW new, GoodFields(new)
    PROVE  TypedRows(n, Assign(rows, view, a, new))
<1> DEFINE x == Assign(rows, view, a, new)
           row == Flush(rows.asset[a], view.asset[a], new)
<1>1. x.status = rows.status /\ x.reviews = rows.reviews /\ x.valid = rows.valid
  BY DEF Assign, GoodRows, RowNames
<1>2. GoodAsset(row)
  BY FlushIsGood DEF TypedRows, GoodCatalog
<1>3. x.asset = [rows.asset EXCEPT ![a] = row]
  BY DEF Assign, GoodRows, RowNames
<1> HIDE DEF row
<1>4. GoodCatalog(x.asset)
  BY <1>2, <1>3 DEF TypedRows, GoodCatalog
<1> HIDE DEF x
<1>5. TypedRows(n, x)
  BY <1>1, <1>4, TypedAssets
<1> QED
  BY <1>5 DEF x

\* as they do without some valid approvals,
LEMMA TypedInvalidate ==
    ASSUME NEW n, NEW rows, GoodRows(rows), TypedRows(n, rows), NEW assets
    PROVE  TypedRows(n, Invalidate(rows, assets))
<1> DEFINE x == Invalidate(rows, assets)
<1>1. /\ x.asset = rows.asset /\ x.status = rows.status /\ x.reviews = rows.reviews
      /\ x.valid \subseteq rows.valid
  BY DEF Invalidate, GoodRows, RowNames
<1> HIDE DEF x
<1>2. TypedRows(n, x)
  BY <1>1, TypedAssets DEF TypedRows
<1> QED
  BY <1>2 DEF x

\* with one more review,
LEMMA TypedDecide ==
    ASSUME NEW n, NEW rows, GoodRows(rows), TypedRows(n, rows), NEW review
    PROVE  TypedRows(n, Decide(rows, review))
<1> DEFINE x == Decide(rows, review)
<1>1. /\ x.asset = rows.asset /\ x.status = rows.status
      /\ x.reviews = rows.reviews \cup {review} /\ x.valid = rows.valid \cup {review.id}
  BY DEF Decide, GoodRows, RowNames
<1> HIDE DEF x
<1>2. TypedRows(n, x)
  BY <1>1 DEF TypedRows, Ids
<1> QED
  BY <1>2 DEF x

\* with dependents blocked,
LEMMA TypedBlock ==
    ASSUME NEW n, NEW rows, GoodRows(rows), TypedRows(n, rows), NEW a
    PROVE  TypedRows(n, BlockDependents(rows, a))
<1> DEFINE x == BlockDependents(rows, a)
           blocked == Dependents(rows, a)
           valid == Invalidate(rows, blocked)
<1>1. GoodRows(valid) /\ TypedRows(n, valid)
  BY GoodInvalidate, TypedInvalidate
<1>2. /\ x.status = valid.status /\ x.reviews = valid.reviews /\ x.valid = valid.valid
      /\ x.asset = [b \in Assets |-> IF b \in blocked
                                     THEN [valid.asset[b] EXCEPT !.publication = "blocked"]
                                     ELSE valid.asset[b]]
  <2> HIDE DEF valid, blocked
  <2> QED
    BY <1>1 DEF BlockDependents, GoodRows, RowNames, valid, blocked
<1> HIDE DEF x, valid, blocked
<1>3. ASSUME NEW b \in Assets
      PROVE  GoodAsset(x.asset[b])
  <2>1. GoodAsset(valid.asset[b]) /\ "blocked" \in Publication
    BY <1>1 DEF TypedRows, GoodCatalog, Publication
  <2> QED
    BY <1>2, <2>1, RepublishedIsGood
<1>4. GoodCatalog(x.asset)
  BY <1>2, <1>3 DEF GoodCatalog
<1>5. TypedRows(n, x)
  BY <1>1, <1>2, <1>4, TypedAssets
<1> QED
  BY <1>5 DEF x

\* with assets published,
LEMMA TypedPublish ==
    ASSUME NEW n, NEW rows, GoodRows(rows), TypedRows(n, rows), NEW view, NEW asked
    PROVE  TypedRows(n, Publish(rows, view, asked))
<1> DEFINE x == Publish(rows, view, asked)
           new == [publication |-> "published"]
<1>1. /\ x.status = rows.status /\ x.reviews = rows.reviews /\ x.valid = rows.valid
      /\ x.asset = [a \in Assets |-> IF a \in asked THEN Flush(rows.asset[a], view.asset[a], new)
                                     ELSE rows.asset[a]]
  BY DEF Publish, GoodRows, RowNames
<1>2. GoodFields(new)
  BY DEF GoodFields, AssetFields, Publication
<1> HIDE DEF x, new
<1>3. ASSUME NEW a \in Assets
      PROVE  GoodAsset(x.asset[a])
  BY <1>1, <1>2, FlushIsGood DEF TypedRows, GoodCatalog
<1>4. GoodCatalog(x.asset)
  BY <1>1, <1>3 DEF GoodCatalog
<1>5. TypedRows(n, x)
  BY <1>1, <1>4, TypedAssets
<1> QED
  BY <1>5 DEF x

\* Some statuses are given, to revisions that there are.
LEMMA TypedStatus ==
    ASSUME NEW n, NEW rows, GoodRows(rows), TypedRows(n, rows), NEW new,
           \A r \in DOMAIN new : r \in Numbers(n) /\ new[r] \in Status
    PROVE  TypedRows(n, [rows EXCEPT !.status = Updated(@, new)])
<1> DEFINE x == [rows EXCEPT !.status = Updated(@, new)]
<1>1. /\ x.asset = rows.asset /\ x.reviews = rows.reviews /\ x.valid = rows.valid
      /\ x.status = Updated(rows.status, new)
  BY DEF GoodRows, RowNames
<1> HIDE DEF x
<1>2. \A r \in DOMAIN x.status : r \in Numbers(n) /\ x.status[r] \in Status
  BY <1>1 DEF Updated, TypedRows
<1>3. TypedRows(n, x)
  BY <1>1, <1>2 DEF TypedRows
<1> QED
  BY <1>3 DEF x

\* and with a status decided.
LEMMA TypedDecision ==
    ASSUME NEW n, NEW rows, GoodRows(rows), TypedRows(n, rows), NEW assets, NEW review,
           review.id \in Nat, NEW r, NEW status \in Status
    PROVE  TypedRows(n, [Decide(Invalidate(rows, assets), review) EXCEPT !.status[r] = status])
<1> DEFINE x == Decide(Invalidate(rows, assets), review)
           y == [x EXCEPT !.status[r] = status]
<1>1. GoodRows(x) /\ TypedRows(n, x)
  BY GoodInvalidate, TypedInvalidate, GoodDecide, TypedDecide
<1> HIDE DEF x
<1>2. /\ y.asset = x.asset /\ y.reviews = x.reviews /\ y.valid = x.valid
      /\ y.status = [x.status EXCEPT ![r] = status]
  BY <1>1 DEF GoodRows, RowNames
<1> HIDE DEF y
<1>3. TypedRows(n, y)
  BY <1>1, <1>2 DEF TypedRows
<1> QED
  BY <1>3 DEF x, y

\* A scan makes rows that have their types of files that have theirs.
LEMMA TypedRebuilt ==
    ASSUME NEW n, NEW f, TypedFiles(n, f), NEW rows, TypedRows(n, rows)
    PROVE  TypedRows(n, Rebuilt(f, rows))
<1> DEFINE new == Scanned(f)
           old == Kept(f, rows)
           x == Rebuilt(f, rows)
<1>1. GoodCatalog(new.asset)
  <2>1. ASSUME NEW a \in Assets
        PROVE  GoodAsset(ScannedAsset(f, a))
    <3>1. GoodAsset(f.catalog[a]) /\ "blocked" \in Publication
      BY DEF TypedFiles, GoodCatalog, Publication
    <3> QED
      BY <3>1, RepublishedIsGood DEF ScannedAsset
  <2> QED
    BY <2>1 DEF Scanned, GoodCatalog
<1>2. \A r \in DOMAIN new.status : r \in Numbers(n) /\ new.status[r] \in Status
  <2>1. \A r : ScannedStatus(f, r) \in Status
    BY DEF ScannedStatus, Status
  <2> QED
    BY <2>1 DEF Scanned, TypedFiles
<1>3. new.valid \subseteq Ids(new.reviews)
  BY DEF Scanned, Deciding, Ids
<1>4. CASE ScanErrors(f) = {}
  BY <1>1, <1>2, <1>3, <1>4 DEF Rebuilt, TypedRows
<1>5. CASE ScanErrors(f) # {}
  <2>1. /\ \A r \in DOMAIN old.status : r \in Numbers(n) /\ old.status[r] \in Status
        /\ old.valid \subseteq Ids(old.reviews)
    BY DEF Kept, TypedRows, Restrict
  <2> HIDE DEF new, old
  <2>2. /\ x.asset = new.asset /\ x.status = Updated(old.status, new.status)
        /\ x.reviews = new.reviews \cup old.reviews /\ x.valid = new.valid \cup old.valid
    BY <1>5 DEF Rebuilt, new, old
  <2> HIDE DEF x
  <2>3. \A r \in DOMAIN x.status : r \in Numbers(n) /\ x.status[r] \in Status
    BY <1>2, <2>1, <2>2 DEF Updated
  <2>4. x.valid \subseteq Ids(x.reviews)
    BY <1>3, <2>1, <2>2 DEF Ids
  <2> QED
    BY <1>1, <2>2, <2>3, <2>4 DEF TypedRows, x
<1> QED
  BY <1>4, <1>5

\* A typed write keeps the types of the files.
LEMMA TypedWritten ==
    ASSUME NEW n, GoodFiles(files), TypedFiles(n, files), NEW e, GoodEntry(e), TypedEntry(n, e)
    PROVE  TypedFiles(n, Written(e))
<1> DEFINE f == Written(e)
<1>1. CASE e.file = "revision"
  <2>1. f.catalog = files.catalog /\ f.revisions = files.revisions \cup {e.revision}
    BY <1>1 DEF Written, GoodFiles, FileNames
  <2> QED
    BY <1>1, <2>1 DEF TypedFiles, TypedEntry
<1>2. CASE e.file = "catalog"
  <2> DEFINE row == Updated(files.catalog[e.asset], e.fields)
  <2>1. f.catalog = [files.catalog EXCEPT ![e.asset] = row] /\ f.revisions = files.revisions
    BY <1>2 DEF Written, GoodFiles, FileNames
  <2>2. e.asset \in Assets => GoodAsset(row)
    BY <1>2, UpdatedIsGood DEF TypedEntry, TypedFiles, GoodCatalog
  <2> HIDE DEF row, f
  <2>3. GoodCatalog(f.catalog)
    BY <2>1, <2>2 DEF TypedFiles, GoodCatalog
  <2> QED
    BY <2>1, <2>3 DEF TypedFiles, f
<1>3. CASE e.file \in Kinds \ {"revision", "catalog"}
  <2>1. f.catalog = files.catalog /\ f.revisions = files.revisions
    BY <1>3 DEF Written, GoodFiles, FileNames, Kinds
  <2> QED
    BY <2>1 DEF TypedFiles
<1> QED
  BY <1>1, <1>2, <1>3 DEF GoodEntry

-----------------------------------------------------------------------------
(* Steps keep the types *)

\* What was typed stays so when one more revision has a number.
LEMMA TypesGrow ==
    ASSUME NEW n \in Nat
    PROVE  /\ \A f : TypedFiles(n, f) => TypedFiles(n + 1, f)
           /\ \A rows : TypedRows(n, rows) => TypedRows(n + 1, rows)
           /\ \A e : TypedEntry(n, e) => TypedEntry(n + 1, e)
           /\ \A r : TypedRequest(n, r) => TypedRequest(n + 1, r)
<1>1. Numbers(n) \subseteq Numbers(n + 1)
  BY NumbersGrow
<1>2. \A f : TypedFiles(n, f) => TypedFiles(n + 1, f)
  BY <1>1 DEF TypedFiles
<1>3. \A rows : TypedRows(n, rows) => TypedRows(n + 1, rows)
  BY <1>1 DEF TypedRows
<1>4. \A e : TypedEntry(n, e) => TypedEntry(n + 1, e)
  BY <1>1 DEF TypedEntry
<1>5. \A r : TypedRequest(n, r) => TypedRequest(n + 1, r)
  BY <1>1, <1>2, <1>3, <1>4 DEF TypedRequest
<1> QED
  BY <1>2, <1>3, <1>4, <1>5

\* What is still to be written, entry by entry.
LEMMA TypedEntries ==
    ASSUME NEW n, NEW S, \A e \in S : TypedEntry(n, e), NEW todo \in Seq(S)
    PROVE  \A e \in Range(todo) : TypedEntry(n, e)
BY RangeOfSeq

\* A catalog entry has the type of its fields.
LEMMA TypedCatalogEntry ==
    ASSUME NEW n, NEW a, NEW fields, GoodFields(fields), NEW superseded
    PROVE  TypedEntry(n, InCatalog(a, fields, superseded))
BY DEF TypedEntry, InCatalog

\* Two writes.
LEMMA TypedTwo ==
    ASSUME NEW n, NEW e, TypedEntry(n, e), NEW f, TypedEntry(n, f)
    PROVE  \A x \in Range(<<e, f>>) : TypedEntry(n, x)
<1> DEFINE S == {e, f}
<1>1. <<e, f>> \in Seq(S) /\ \A x \in S : TypedEntry(n, x)
  OBVIOUS
<1> HIDE DEF S
<1> QED
  BY <1>1, TypedEntries

\* None.
LEMMA NothingTyped == \A n : \A e \in Range(<<>>) : TypedEntry(n, e)
BY DEF Range

\* Only p goes on, with files and rows that have their types.
LEMMA TypedMove ==
    ASSUME IInv, TypeInv, NEW p \in Requests, MovesOnly(p), made' = made,
           TypedRequest(Len(made), req'[p]),
           TypedFiles(Len(made), files'), TypedRows(Len(made), db'), up' = up
    PROVE  TypeInv'
<1>1. ASSUME NEW q \in Requests
      PROVE  TypedRequest(Len(made), req'[q])
  BY DEF TypeInv, MovesOnly
<1> QED
  BY <1>1 DEF TypeInv

\* A request that does not run has its types.
LEMMA TypedIdle == \A n : TypedRequest(n, Idle)
BY NothingTyped DEF TypedRequest, Idle, Reviewing

\* A request ends and the types stay.
LEMMA TypedEnd ==
    ASSUME IInv, TypeInv, NEW p \in Requests, req' = [req EXCEPT ![p] = Idle], made' = made,
           TypedFiles(Len(made), files'), TypedRows(Len(made), db'), up' = up
    PROVE  TypeInv'
<1>1. req'[p] = Idle /\ MovesOnly(p)
  BY DEF MovesOnly, IInv, RequestInv
<1> QED
  BY <1>1, TypedIdle, TypedMove

\* What a request that begins and one that takes the writer lock look like.
LEMMA BeginMoves ==
    ASSUME IInv, NEW p \in Requests, NEW request, DOMAIN request = RequestNames, NEW kind,
           Begin(p, request, kind)
    PROVE  /\ MovesOnly(p) /\ DOMAIN req'[p] = RequestNames
           /\ \A x \in RequestNames \ {"view"} : req'[p][x] = request[x]
           /\ req'[p].view = db
BY DEF MovesOnly, IInv, RequestInv, Begin, RequestNames

\* A request that holds rows moves alone.
LEMMA HoldMoves ==
    ASSUME IInv, NEW p \in Requests, NEW rows, NEW todo, Hold(p, rows, todo)
    PROVE  /\ MovesOnly(p) /\ DOMAIN req'[p] = RequestNames
           /\ \A x \in RequestNames \ {"pc", "rows", "todo"} : req'[p][x] = req[p][x]
           /\ req'[p].pc = "files" /\ req'[p].rows = rows /\ req'[p].todo = todo
           /\ UNCHANGED <<files, db, up>>
BY DEF MovesOnly, IInv, RequestInv, GoodRequest, Hold, RequestNames

\* A request begins with the rows it reads.
LEMMA TypedBegin ==
    ASSUME IInv, TypeInv, NEW p \in Requests, NEW request, NEW kind, Begin(p, request, kind),
           DOMAIN request = RequestNames, request.todo = <<>>, request.locked = FALSE,
           request.rows = None, request.pc \in {"read", "promote", "history"},
           request.pc = "promote" => request.op = "approve_media",
           request.pc = "history" => request.data = files,
           request.op \in Reviewing \cup {"create"} => request.asset \in Assets,
           request.op \in Reviewing => request.revision \in Numbers(Len(made)),
           request.op = "relate" => request.data \in Relations,
           UNCHANGED <<made, files, db, up>>
    PROVE  TypeInv'
<1>1. /\ MovesOnly(p) /\ req'[p].view = db
      /\ req'[p].todo = <<>> /\ req'[p].locked = FALSE /\ req'[p].rows = None
      /\ req'[p].pc = request.pc /\ req'[p].data = request.data /\ req'[p].op = request.op
      /\ req'[p].asset = request.asset /\ req'[p].revision = request.revision
  BY BeginMoves DEF RequestNames
<1>2. TypedRequest(Len(made), req'[p])
  BY <1>1, NothingTyped DEF TypedRequest, TypeInv
<1> QED
  BY <1>1, <1>2, TypedMove DEF TypeInv

\* It holds rows and files that have their types.
LEMMA TypedHold ==
    ASSUME IInv, TypeInv, NEW p \in Requests, NEW rows, NEW todo, Hold(p, rows, todo),
           req[p].pc = "read", req[p].op # "approve_media", made' = made,
           TypedRows(Len(made), rows), \A e \in Range(todo) : TypedEntry(Len(made), e)
    PROVE  TypeInv'
<1>1. /\ MovesOnly(p) /\ UNCHANGED <<files, db, up>>
      /\ req'[p].pc = "files" /\ req'[p].rows = rows /\ req'[p].todo = todo
      /\ req'[p].view = req[p].view /\ req'[p].op = req[p].op /\ req'[p].asset = req[p].asset
      /\ req'[p].revision = req[p].revision /\ req'[p].locked = req[p].locked
  BY HoldMoves DEF RequestNames
<1>2. ~req[p].locked
  BY DEF IInv, RequestInv, GoodLock
<1>3. TypedRequest(Len(made), req'[p])
  BY <1>1, <1>2 DEF TypedRequest, TypeInv
<1> QED
  BY <1>1, <1>3, TypedMove DEF TypeInv

\* Every start of a request keeps the types.
LEMMA TypedStarts ==
    ASSUME IInv, TypeInv, NEW p \in Requests
    PROVE  /\ \A a \in Assets : StartCreate(p, a) => TypeInv'
           /\ \A r \in DOMAIN db.status, v \in {"approve", "reject"} : StartReview(p, r, v) => TypeInv'
           /\ \A rel \in Relations : StartRelate(p, rel) => TypeInv'
           /\ \A asked \in SUBSET Assets : StartRelease(p, asked) => TypeInv'
           /\ StartScan(p) => TypeInv'
<1>1. ASSUME NEW a \in Assets, StartCreate(p, a) PROVE TypeInv'
  <2> DEFINE r == [Idle EXCEPT !.op = "create", !.pc = "read", !.asset = a]
  <2>1. /\ DOMAIN r = RequestNames /\ r.todo = <<>> /\ r.locked = FALSE /\ r.rows = None
        /\ r.pc = "read" /\ r.op = "create" /\ r.asset = a
    BY DEF Idle, RequestNames
  <2>2. Begin(p, r, "revisions") /\ UNCHANGED <<made, files, db, up>>
    BY <1>1 DEF StartCreate
  <2> HIDE DEF r
  <2> QED
    BY <2>1, <2>2, TypedBegin DEF Reviewing
<1>2. ASSUME NEW r \in DOMAIN db.status, NEW v \in {"approve", "reject"}, StartReview(p, r, v)
      PROVE  TypeInv'
  <2> DEFINE media == v = "approve" /\ AssetOf(r) \in Media
             q == [Idle EXCEPT !.op = IF media THEN "approve_media" ELSE v,
                               !.pc = IF media THEN "promote" ELSE "read",
                               !.asset = AssetOf(r), !.revision = r]
  <2>1. /\ DOMAIN q = RequestNames /\ q.todo = <<>> /\ q.locked = FALSE /\ q.rows = None
        /\ q.pc \in {"promote", "read"} /\ q.op \in Reviewing
        /\ q.pc = "promote" => q.op = "approve_media"
        /\ q.asset = AssetOf(r) /\ q.revision = r
    BY DEF Idle, RequestNames, Reviewing
  <2>2. Begin(p, q, "reviews") /\ UNCHANGED <<made, files, db, up>>
    BY <1>2 DEF StartReview
  <2>3. r \in Numbers(Len(made)) /\ AssetOf(r) \in Assets
    <3>1. r \in Numbers(Len(made)) /\ made \in Seq(Assets)
      BY DEF TypeInv, TypedRows
    <3>2. Len(made) \in Nat
      BY <3>1
    <3> DEFINE i == IF r < 0 THEN -r ELSE r
    <3>3. i \in 1..Len(made)
      BY <3>1, <3>2 DEF Numbers
    <3> HIDE DEF i
    <3>4. made[i] \in Assets
      BY <3>1, <3>3, ElementOfSeq
    <3> QED
      BY <3>1, <3>4 DEF AssetOf, i
  <2> HIDE DEF q
  <2> QED
    BY <2>1, <2>2, <2>3, TypedBegin DEF Reviewing
<1>3. ASSUME NEW rel \in Relations, StartRelate(p, rel) PROVE TypeInv'
  <2> DEFINE r == [Idle EXCEPT !.op = "relate", !.pc = "read", !.data = rel]
  <2>1. /\ DOMAIN r = RequestNames /\ r.todo = <<>> /\ r.locked = FALSE /\ r.rows = None
        /\ r.pc = "read" /\ r.op = "relate" /\ r.data = rel
    BY DEF Idle, RequestNames
  <2>2. Begin(p, r, "relations") /\ UNCHANGED <<made, files, db, up>>
    BY <1>3 DEF StartRelate
  <2> HIDE DEF r
  <2> QED
    BY <2>1, <2>2, TypedBegin DEF Reviewing
<1>4. ASSUME NEW asked \in SUBSET Assets, StartRelease(p, asked) PROVE TypeInv'
  <2> DEFINE r == [Idle EXCEPT !.op = "release", !.pc = "read", !.asked = asked]
  <2>1. /\ DOMAIN r = RequestNames /\ r.todo = <<>> /\ r.locked = FALSE /\ r.rows = None
        /\ r.pc = "read" /\ r.op = "release"
    BY DEF Idle, RequestNames
  <2>2. Begin(p, r, "releases") /\ UNCHANGED <<made, files, db, up>>
    BY <1>4 DEF StartRelease
  <2> HIDE DEF r
  <2> QED
    BY <2>1, <2>2, TypedBegin DEF Reviewing
<1>5. ASSUME StartScan(p) PROVE TypeInv'
  <2> DEFINE r == [Idle EXCEPT !.op = "scan", !.pc = "history", !.data = files]
  <2>1. /\ DOMAIN r = RequestNames /\ r.todo = <<>> /\ r.locked = FALSE /\ r.rows = None
        /\ r.pc = "history" /\ r.op = "scan" /\ r.data = files
    BY DEF Idle, RequestNames
  <2>2. Begin(p, r, "scans") /\ UNCHANGED <<made, files, db, up>>
    BY <1>5 DEF StartScan
  <2> HIDE DEF r
  <2> QED
    BY <2>1, <2>2, TypedBegin DEF Reviewing
<1> QED
  BY <1>1, <1>2, <1>3, <1>4, <1>5

\* One more revision is asked for.
LEMMA MadeGrows ==
    ASSUME TypeInv, NEW a \in Assets
    PROVE  /\ Len(made) \in Nat
           /\ Append(made, a) \in Seq(Assets) /\ Len(Append(made, a)) = Len(made) + 1
BY AppendProperties, LenProperties DEF TypeInv

\* A new revision,
LEMMA CreateRevisionTyped ==
    ASSUME IInv, TypeInv, NEW p \in Requests, CreateRevision(p)
    PROVE  TypeInv'
<1> DEFINE a == req[p].asset
           n == Len(made)
           r == n + 1
           old == Pending(req[p].view, a)
           new == IF req[p].view.asset[a].current = None
                  THEN [candidate |-> r, content |-> "candidate", publication |-> "unpublished"]
                  ELSE [candidate |-> r]
           assigned == Assign(db, req[p].view, a, new)
           status == [x \in old \cup {r} |-> IF x = r THEN "pending" ELSE "superseded"]
           rows == [assigned EXCEPT !.status = Updated(@, status)]
           first == [file |-> "revision", revision |-> r]
           last == InCatalog(a, [candidate |-> r], old)
           todo == <<first, last>>
<1>1. CASE SameSequence(p)
  BY <1>1, TypedEnd DEF CreateRevision, TypeInv
<1>2. CASE ~SameSequence(p)
  <2>1. Hold(p, rows, todo) /\ made' = Append(made, a) /\ req[p].pc = "read" /\ req[p].op = "create"
    BY <1>2 DEF CreateRevision
  <2>2. a \in Assets /\ GoodRows(db) /\ GoodRows(req[p].view) /\ TypedRows(n, req[p].view)
    BY <2>1 DEF IInv, RowsInv, RequestInv, GoodRequest, TypeInv, TypedRequest
  <2>3. n \in Nat /\ made' \in Seq(Assets) /\ Len(made') = r
    BY <2>1, <2>2, MadeGrows
  <2>4. TypedRows(r, db) /\ TypedFiles(r, files) /\ \A q \in Requests : TypedRequest(r, req[q])
    BY <2>3, TypesGrow DEF TypeInv
  <2>5. r \in Numbers(r) /\ Numbers(n) \subseteq Numbers(r)
    BY <2>3, NumbersGrow
  <2>6. GoodFields(new)
    BY DEF GoodFields, AssetFields, Content, Publication
  <2>7. \A x \in DOMAIN status : x \in Numbers(r) /\ status[x] \in Status
    BY <2>2, <2>5 DEF Pending, TypedRows, Status
  <2>8. GoodRows(assigned) /\ TypedRows(r, assigned)
    <3> HIDE DEF new, r
    <3> QED
      BY <2>2, <2>4, <2>6, GoodAssign, TypedAssign
  <2>9. TypedRows(r, rows)
    <3> HIDE DEF assigned, status, r
    <3> QED
      BY <2>7, <2>8, TypedStatus
  <2>10. TypedEntry(r, first) /\ TypedEntry(r, last)
    <3>1. TypedEntry(r, first)
      BY <2>5 DEF TypedEntry
    <3>2. GoodFields([candidate |-> r])
      BY DEF GoodFields, AssetFields
    <3> QED
      BY <3>1, <3>2, TypedCatalogEntry
  <2>11. \A e \in Range(todo) : TypedEntry(r, e)
    <3> HIDE DEF first, last
    <3> QED
      BY <2>10, TypedTwo
  <2> HIDE DEF rows, todo
  <2>12. /\ MovesOnly(p) /\ UNCHANGED <<files, db, up>>
         /\ req'[p].pc = "files" /\ req'[p].rows = rows /\ req'[p].todo = todo
         /\ req'[p].view = req[p].view /\ req'[p].op = req[p].op /\ req'[p].asset = req[p].asset
         /\ req'[p].revision = req[p].revision /\ req'[p].locked = req[p].locked
    BY <2>1, HoldMoves DEF RequestNames
  <2>13. ~req[p].locked
    BY <2>1 DEF IInv, RequestInv, GoodLock
  <2>14. TypedRequest(r, req'[p])
    BY <2>1, <2>4, <2>9, <2>11, <2>12, <2>13 DEF TypedRequest
  <2> HIDE DEF r
  <2>15. \A q \in Requests : TypedRequest(Len(made'), req'[q])
    BY <2>3, <2>4, <2>12, <2>14 DEF MovesOnly
  <2> QED
    BY <2>3, <2>4, <2>12, <2>15 DEF TypeInv
<1> QED
  BY <1>1, <1>2

\* a rejection,
LEMMA RejectRevisionTyped ==
    ASSUME IInv, TypeInv, NEW p \in Requests, RejectRevision(p)
    PROVE  TypeInv'
<1> DEFINE a == req[p].asset
           r == req[p].revision
           n == Len(made)
           view == req[p].view
           review == Review(NextReview, r, "reject", Dependencies(db, a))
           decided == [Decide(Invalidate(db, {a}), review) EXCEPT !.status[r] = "rejected"]
           next == NewestPending(decided, a)
           new == IF view.asset[a].current = None
                  THEN [candidate |-> next, content |-> "rejected", publication |-> "blocked"]
                  ELSE [candidate |-> next]
           first == [file |-> "review", review |-> review]
           last == InCatalog(a, Fields(view, a, new), {})
           todo == <<first, last>>
<1>1. /\ Hold(p, Assign(decided, view, a, new), todo) /\ req[p].pc = "read" /\ req[p].op = "reject"
      /\ made' = made
  BY DEF RejectRevision
<1>2. /\ a \in Assets /\ GoodRows(db) /\ TypedRows(n, db) /\ TypedRows(n, view)
  BY <1>1 DEF IInv, RowsInv, TypeInv, TypedRequest, Reviewing
<1>3. review.id \in Nat
  BY NextReviewIsNat DEF Review
<1>4. GoodRows(decided) /\ TypedRows(n, decided)
  <2>1. "rejected" \in Status
    BY DEF Status
  <2> HIDE DEF review, n
  <2> QED
    BY <1>2, <1>3, <2>1, GoodDecision, TypedDecision
<1>5. GoodFields(new)
  BY DEF GoodFields, AssetFields, Content, Publication
<1>6. TypedRows(n, Assign(decided, view, a, new))
  <2> HIDE DEF decided, new, n
  <2> QED
    BY <1>2, <1>4, <1>5, TypedAssign
<1>7. TypedEntry(n, first)
  BY DEF TypedEntry
<1>8. TypedEntry(n, last)
  <2> HIDE DEF new
  <2>1. GoodFields(Fields(view, a, new))
    BY <1>2, <1>5, UpdatedIsGood, FieldsOfAsset DEF Fields, TypedRows, GoodCatalog
  <2> QED
    BY <2>1, TypedCatalogEntry
<1>9. \A e \in Range(todo) : TypedEntry(n, e)
  <2> HIDE DEF first, last
  <2> QED
    BY <1>7, <1>8, TypedTwo
<1> HIDE DEF decided, new, todo
<1> QED
  BY <1>1, <1>6, <1>9, TypedHold

\* Renewed approvals.
LEMMA RefreshIsTyped ==
    ASSUME IInv, TypeInv, NEW p \in Requests, TypedRows(Len(made), req[p].view),
           NEW rows, GoodRows(rows), TypedRows(Len(made), rows),
           NEW S, NEW todo \in Seq(S), \A e \in S : TypedEntry(Len(made), e),
           NEW sources \in SUBSET Assets
    PROVE  /\ TypedRows(Len(made), Refresh(p, rows, todo, sources).rows)
           /\ \A e \in Range(Refresh(p, rows, todo, sources).todo) : TypedEntry(Len(made), e)
           /\ Refresh(p, rows, todo, sources).todo \in Seq(Range(Refresh(p, rows, todo, sources).todo))
<1> DEFINE order == SetToSeq(sources)
           view == req[p].view
           n == Len(made)
           renewals == Renewals(p, rows, todo, sources)
           renewed == RenewalFiles(p, sources, renewals)
           all == Refresh(p, rows, todo, sources)
           valid == Invalidate(rows, sources)
<1>1. order \in Seq(sources) /\ Len(order) \in Nat
  <2>1. IsFiniteSet(sources)
    BY AssetsAssumption, FS_Subset
  <2> QED
    BY <2>1, ListOf, LenProperties
<1>2. \A a \in Assets : view.asset[a].publication \in Publication /\ GoodAsset(view.asset[a])
  BY DEF TypedRows, GoodCatalog, GoodAsset
<1>3. TypedRows(n, all.rows)
  <2>1. TypedRows(n, valid) /\ valid.reviews = rows.reviews
    <3>1. TypedRows(n, valid)
      BY TypedInvalidate
    <3>2. valid.reviews = rows.reviews
      BY DEF Invalidate, GoodRows, RowNames
    <3> QED
      BY <3>1, <3>2
  <2> HIDE DEF valid, renewals
  <2>2. /\ all.rows.status = rows.status
        /\ all.rows.reviews = rows.reviews \cup Range(renewals)
        /\ all.rows.valid = valid.valid \cup Ids(Range(renewals))
        /\ all.rows.asset = [a \in Assets |->
               IF a \in sources THEN [rows.asset[a] EXCEPT !.publication = view.asset[a].publication]
               ELSE rows.asset[a]]
    BY DEF Refresh, GoodRows, RowNames, Ids, valid, renewals
  <2> HIDE DEF all, n, view
  <2>3. GoodCatalog(all.rows.asset)
    BY <1>2, <2>2, RepublishedIsGood DEF TypedRows, GoodCatalog
  <2>4. valid.valid \subseteq Ids(rows.reviews)
    BY <2>1 DEF TypedRows
  <2>5. all.rows.valid \subseteq Ids(all.rows.reviews)
    BY <2>2, <2>4 DEF Ids
  <2>6. \A r \in DOMAIN all.rows.status : r \in Numbers(n) /\ all.rows.status[r] \in Status
    BY <2>2 DEF TypedRows, n
  <2> QED
    BY <2>3, <2>5, <2>6 DEF TypedRows
<1>4. ASSUME NEW k \in 1 .. 2 * Len(order)
      PROVE  TypedEntry(n, renewed[k])
  <2>1. CASE k % 2 = 1
    BY <2>1 DEF RenewalFiles, TypedEntry
  <2>2. CASE k % 2 # 1
    <3> DEFINE a == order[k \div 2]
               kept == [publication |-> view.asset[a].publication]
    <3>1. renewed[k] = InCatalog(a, Fields(view, a, kept), {})
      BY <2>2 DEF RenewalFiles
    <3>2. a \in Assets
      <4>1. k \div 2 \in 1..Len(order)
        BY <1>1, <1>4, <2>2
      <4> HIDE DEF order
      <4> QED
        BY <1>1, <4>1, ElementOfSeq
    <3> HIDE DEF a, view, renewed
    <3>3. GoodFields(kept)
      BY <1>2, <3>2 DEF GoodFields, AssetFields
    <3> HIDE DEF kept
    <3>4. GoodFields(Fields(view, a, kept))
      BY <1>2, <3>2, <3>3, UpdatedIsGood, FieldsOfAsset DEF Fields
    <3> QED
      BY <3>1, <3>4, TypedCatalogEntry
  <2> QED
    BY <2>1, <2>2
<1>5. all.todo = todo \o renewed
  BY DEF Refresh
<1>6. renewed = [k \in 1 .. 2 * Len(order) |-> renewed[k]]
  BY DEF RenewalFiles
<1> HIDE DEF order, renewed, all
<1> DEFINE m == 2 * Len(order)
           T == {renewed[k] : k \in 1..m}
           U == S \cup T
<1>7. renewed \in Seq(T)
  <2>1. m \in Nat /\ renewed \in [1..m -> T]
    BY <1>1, <1>6
  <2> HIDE DEF m, T
  <2> QED
    BY <2>1, SeqDef
<1>8. \A e \in U : TypedEntry(n, e)
  BY <1>4
<1> HIDE DEF T
<1>9. todo \o renewed \in Seq(U)
  BY <1>7, SeqMonotonic, ConcatProperties
<1> HIDE DEF U
<1>10. /\ \A e \in Range(todo \o renewed) : TypedEntry(n, e)
       /\ todo \o renewed \in Seq(Range(todo \o renewed))
  BY <1>8, <1>9, TypedEntries, SeqOfRange
<1> QED
  BY <1>3, <1>5, <1>10 DEF all

\* an approval with the renewed approvals of what depicts the asset,
LEMMA ApproveRevisionTyped ==
    ASSUME IInv, TypeInv, NEW p \in Requests, ApproveRevision(p)
    PROVE  TypeInv'
<1> DEFINE a == req[p].asset
           r == req[p].revision
           n == Len(made)
           view == req[p].view
           review == Review(NextReview, r, "approve", Dependencies(db, a))
           decided == [Decide(Invalidate(db, {a}), review) EXCEPT !.status[r] = "approved"]
           new == [current |-> r, content |-> "approved", publication |-> "ready",
                   candidate |-> NewestPending(decided, a)]
           rows == BlockDependents(Assign(decided, view, a, new), a)
           first == [file |-> "review", review |-> review]
           last == InCatalog(a, Fields(view, a, new), {})
           todo == <<first, last>>
           sources == IF view.asset[a].current = None THEN Depicting(view, a) ELSE {}
           all == Refresh(p, rows, todo, sources)
<1>1. /\ Hold(p, all.rows, all.todo) /\ req[p].pc = "read" /\ req[p].op = "approve"
      /\ made' = made
  BY DEF ApproveRevision
<1>2. /\ a \in Assets /\ GoodRows(db) /\ TypedRows(n, db) /\ TypedRows(n, view)
  BY <1>1 DEF IInv, RowsInv, TypeInv, TypedRequest, Reviewing
<1>3. review.id \in Nat
  BY NextReviewIsNat DEF Review
<1>4. GoodRows(decided) /\ TypedRows(n, decided)
  <2>1. "approved" \in Status
    BY DEF Status
  <2> HIDE DEF review, n
  <2> QED
    BY <1>2, <1>3, <2>1, GoodDecision, TypedDecision
<1>5. GoodFields(new)
  BY DEF GoodFields, AssetFields, Content, Publication
<1>6. GoodRows(rows) /\ TypedRows(n, rows)
  <2> HIDE DEF decided, new, n
  <2>1. GoodRows(Assign(decided, view, a, new)) /\ TypedRows(n, Assign(decided, view, a, new))
    BY <1>2, <1>4, <1>5, GoodAssign, TypedAssign
  <2> QED
    BY <2>1, GoodBlock, TypedBlock
<1>7. TypedEntry(n, first)
  BY DEF TypedEntry
<1>8. TypedEntry(n, last)
  <2> HIDE DEF new
  <2>1. GoodFields(Fields(view, a, new))
    BY <1>2, <1>5, UpdatedIsGood, FieldsOfAsset DEF Fields, TypedRows, GoodCatalog
  <2> QED
    BY <2>1, TypedCatalogEntry
<1> DEFINE S == {first, last}
<1>9. todo \in Seq(S) /\ \A e \in S : TypedEntry(n, e)
  <2> HIDE DEF first, last
  <2> QED
    BY <1>7, <1>8
<1>10. sources \in SUBSET Assets
  BY MediaAssumption DEF Depicting
<1> HIDE DEF rows, todo, sources, S
<1>11. /\ TypedRows(n, all.rows) /\ \A e \in Range(all.todo) : TypedEntry(n, e)
  BY <1>2, <1>6, <1>9, <1>10, RefreshIsTyped
<1> HIDE DEF all
<1> QED
  BY <1>1, <1>11, TypedHold

\* a relation with the renewed approval of its source,
LEMMA CreateRelationTyped ==
    ASSUME IInv, TypeInv, NEW p \in Requests, CreateRelation(p)
    PROVE  TypeInv'
<1> DEFINE rel == req[p].data
           n == Len(made)
           rows == [db EXCEPT !.relations = @ \cup {rel}]
           write == [file |-> "relations", relations |-> rows.relations]
           all == Refresh(p, rows, <<>>, {rel.source})
<1>1. /\ req[p].pc = "read" /\ req[p].op = "relate" /\ made' = made
      /\ \/ req' = [req EXCEPT ![p] = Idle] /\ UNCHANGED <<files, db, up>>
         \/ Hold(p, all.rows, Append(all.todo, write))
         \/ Hold(p, rows, <<write>>)
  BY DEF CreateRelation
<1>2. GoodRows(rows) /\ TypedRows(n, rows) /\ TypedRows(n, req[p].view)
  <2>1. GoodRows(rows)
    BY SameReviews DEF IInv, RowsInv, GoodRows, RowNames
  <2>2. /\ rows.asset = db.asset /\ rows.status = db.status /\ rows.reviews = db.reviews
        /\ rows.valid = db.valid
    BY DEF IInv, RowsInv, GoodRows, RowNames
  <2> HIDE DEF rows
  <2>3. TypedRows(n, rows)
    BY <2>2 DEF TypeInv, TypedRows
  <2>4. TypedRows(n, req[p].view)
    BY <1>1 DEF TypeInv, TypedRequest
  <2> QED
    BY <2>1, <2>3, <2>4
<1>3. TypedEntry(n, write)
  BY DEF TypedEntry
<1> DEFINE S == {write}
<1>4. <<>> \in Seq(S) /\ <<write>> \in Seq(S) /\ \A e \in S : TypedEntry(n, e)
  BY <1>3
<1>5. {rel.source} \in SUBSET Assets
  BY <1>1, RelationsAssumption DEF TypeInv, TypedRequest
<1> HIDE DEF rows, write, S, rel
<1>6. /\ TypedRows(n, all.rows) /\ \A e \in Range(all.todo) : TypedEntry(n, e)
      /\ all.todo \in Seq(Range(all.todo))
  BY <1>2, <1>4, <1>5, RefreshIsTyped
<1> HIDE DEF all
<1>7. \A e \in Range(Append(all.todo, write)) : TypedEntry(n, e)
  <2> DEFINE T == Range(all.todo) \cup {write}
  <2>1. all.todo \in Seq(T) /\ write \in T
    BY <1>6, SeqMonotonic
  <2>2. \A e \in T : TypedEntry(n, e)
    BY <1>3, <1>6
  <2> HIDE DEF T
  <2>3. Append(all.todo, write) \in Seq(T)
    BY <2>1, AppendProperties
  <2> QED
    BY <2>2, <2>3, TypedEntries
<1>8. \A e \in Range(<<write>>) : TypedEntry(n, e)
  BY <1>4, TypedEntries
<1>9. CASE req' = [req EXCEPT ![p] = Idle] /\ UNCHANGED <<files, db, up>>
  BY <1>1, <1>9, TypedEnd DEF TypeInv
<1>10. CASE Hold(p, all.rows, Append(all.todo, write))
  BY <1>1, <1>6, <1>7, <1>10, TypedHold
<1>11. CASE Hold(p, rows, <<write>>)
  BY <1>1, <1>2, <1>8, <1>11, TypedHold
<1> QED
  BY <1>1, <1>9, <1>10, <1>11

\* and the promotion of media keep the types.
LEMMA PromoteTyped ==
    ASSUME IInv, TypeInv, NEW p \in Requests, Promote(p)
    PROVE  TypeInv'
<1> DEFINE a == req[p].asset
           r == req[p].revision
           n == Len(made)
           view == req[p].view
           review == Review(NextReview, -r, "approve", Dependencies(view, a))
           next == NewestPending([view EXCEPT !.status[r] = "superseded"], a)
           new == [current |-> -r, content |-> "approved", publication |-> "ready",
                   candidate |-> next]
           e1 == [file |-> "artifacts", revision |-> -r]
           e2 == [file |-> "revision", revision |-> -r]
           e3 == [file |-> "review", review |-> review]
           e4 == InCatalog(a, new, {r})
           todo == PromotionFiles(r, review, a, new)
           data == [review |-> review, new |-> new]
<1>1. /\ req[p].pc = "promote"
      /\ req' = [req EXCEPT ![p].pc = "files", ![p].todo = todo, ![p].data = data]
      /\ UNCHANGED <<made, files, db, up>>
  BY DEF Promote
<1>2. n \in Nat /\ r \in Numbers(n) /\ -r \in Numbers(n)
  BY <1>1, Opposite, LenProperties DEF TypeInv, TypedRequest, Reviewing
<1>3. GoodFields(new) /\ data.new = new
  BY DEF GoodFields, AssetFields, Content, Publication
<1>4. TypedEntry(n, e1) /\ TypedEntry(n, e2) /\ TypedEntry(n, e3) /\ TypedEntry(n, e4)
  <2>1. TypedEntry(n, e1) /\ TypedEntry(n, e2) /\ TypedEntry(n, e3)
    BY <1>2 DEF TypedEntry
  <2> HIDE DEF new
  <2> QED
    BY <1>3, <2>1, TypedCatalogEntry
<1>5. \A e \in Range(todo) : TypedEntry(n, e)
  <2> DEFINE S == {e1, e2, e3, e4}
  <2>1. todo = <<e1, e2, e3, e4>>
    BY DEF PromotionFiles
  <2>2. <<e1, e2, e3, e4>> \in Seq(S) /\ \A e \in S : TypedEntry(n, e)
    BY <1>4
  <2> HIDE DEF S, e1, e2, e3, e4, todo
  <2> QED
    BY <2>1, <2>2, TypedEntries
<1> HIDE DEF todo, data, new
<1>6. /\ MovesOnly(p)
      /\ req'[p].pc = "files" /\ req'[p].todo = todo /\ req'[p].data = data
      /\ req'[p].op = req[p].op /\ req'[p].locked = req[p].locked
      /\ req'[p].asset = req[p].asset /\ req'[p].revision = req[p].revision
      /\ req'[p].rows = req[p].rows /\ req'[p].view = req[p].view
      /\ req'[p].saved = req[p].saved
  BY <1>1 DEF MovesOnly, IInv, RequestInv, GoodRequest, RequestNames
<1>7. TypedRequest(n, req[p])
  BY DEF TypeInv
<1>8. TypedRequest(n, req'[p])
  BY <1>1, <1>3, <1>5, <1>6, <1>7 DEF TypedRequest
<1> QED
  BY <1>1, <1>6, <1>8, TypedMove DEF TypeInv

\* The rows that a media approval will commit.
MediaRows(p) ==
    LET a == req[p].asset
        r == req[p].revision
        rows == [Assign(Decide(Invalidate(db, {a}), req[p].data.review),
                        req[p].view, a, req[p].data.new) EXCEPT
                    !.status = Updated(@, [x \in {r, -r} |->
                                              IF x = r THEN "superseded" ELSE "approved"]),
                    !.passed = @ \cup {-r}]
    IN  BlockDependents(rows, a)

\* So do the rows that the promotion commits,
LEMMA MediaRowsTyped ==
    ASSUME IInv, TypeInv, NEW p \in Requests, req[p].pc = "files", req[p].op = "approve_media"
    PROVE  GoodRows(MediaRows(p)) /\ TypedRows(Len(made), MediaRows(p))
<1> DEFINE a == req[p].asset
           r == req[p].revision
           n == Len(made)
           decided == Decide(Invalidate(db, {a}), req[p].data.review)
           assigned == Assign(decided, req[p].view, a, req[p].data.new)
           status == [x \in {r, -r} |-> IF x = r THEN "superseded" ELSE "approved"]
           labelled == [assigned EXCEPT !.status = Updated(@, status)]
           rows == [assigned EXCEPT !.status = Updated(@, status), !.passed = @ \cup {-r}]
<1>1. req[p].data.review.id \in Nat
  BY DEF IInv, RequestInv, GoodRequest
<1>2. a \in Assets /\ GoodFields(req[p].data.new) /\ r \in Numbers(n) /\ -r \in Numbers(n)
  BY Opposite, LenProperties DEF TypeInv, TypedRequest, Reviewing
<1>3. GoodRows(db) /\ TypedRows(n, db)
  BY DEF IInv, RowsInv, TypeInv
<1>4. GoodRows(decided) /\ TypedRows(n, decided)
  <2> HIDE DEF n
  <2> QED
    BY <1>1, <1>3, GoodInvalidate, GoodDecide, TypedInvalidate, TypedDecide
<1>5. GoodRows(assigned) /\ TypedRows(n, assigned)
  <2> HIDE DEF decided, n
  <2> QED
    BY <1>2, <1>4, GoodAssign, TypedAssign
<1>6. \A x \in DOMAIN status : x \in Numbers(n) /\ status[x] \in Status
  BY <1>2 DEF Status
<1> HIDE DEF assigned, status, n
<1>7. TypedRows(n, labelled)
  BY <1>5, <1>6, TypedStatus
<1>8. /\ rows.asset = labelled.asset /\ rows.status = labelled.status
      /\ rows.reviews = labelled.reviews /\ rows.valid = labelled.valid
      /\ GoodRows(rows)
  BY <1>5 DEF GoodRows, RowNames
<1> HIDE DEF labelled, rows
<1>9. TypedRows(n, rows)
  BY <1>7, <1>8 DEF TypedRows
<1>10. GoodRows(BlockDependents(rows, a)) /\ TypedRows(n, BlockDependents(rows, a))
  BY <1>8, <1>9, GoodBlock, TypedBlock
<1> QED
  BY <1>10 DEF MediaRows, rows, status, assigned, n

\* when it commits them,
LEMMA CommitMediaTyped ==
    ASSUME IInv, TypeInv, NEW p \in Requests, CommitMedia(p)
    PROVE  TypeInv'
<1>1. /\ db' = IF SameSequence(p) THEN db ELSE MediaRows(p)
      /\ req[p].pc = "files" /\ req[p].op = "approve_media"
      /\ req' = [req EXCEPT ![p] = Idle] /\ UNCHANGED <<made, files, up>>
  BY DEF CommitMedia, MediaRows
<1>2. TypedRows(Len(made), db')
  BY <1>1, MediaRowsTyped DEF TypeInv
<1> QED
  BY <1>1, <1>2, TypedEnd DEF TypeInv

\* and a release.
LEMMA CreateReleaseTyped ==
    ASSUME IInv, TypeInv, NEW p \in Requests, CreateRelease(p)
    PROVE  TypeInv'
<1> DEFINE view == req[p].view
           asked == req[p].asked
           n == Len(made)
           manifest == [id |-> 1 + Cardinality(files.manifests),
                        entries |-> {Entry(view, a) : a \in asked}]
           published == Publish(db, view, asked)
           rows == [published EXCEPT !.releases = @ \cup {manifest.id}]
           todo == ReleaseFiles(manifest, asked)
           C == {InCatalog(a, [publication |-> "published"], {}) : a \in asked}
           e1 == [file |-> "manifest", manifest |-> manifest]
           e2 == [file |-> "pointer", id |-> manifest.id]
<1>1. /\ Hold(p, rows, todo) /\ req[p].pc = "read" /\ req[p].op = "release" /\ made' = made
  BY DEF CreateRelease
<1>2. GoodRows(published) /\ TypedRows(n, published)
  BY GoodPublish, TypedPublish DEF IInv, RowsInv, TypeInv
<1>3. TypedRows(n, rows)
  <2> HIDE DEF published, manifest, n
  <2>1. /\ rows.asset = published.asset /\ rows.status = published.status
        /\ rows.reviews = published.reviews /\ rows.valid = published.valid
    BY <1>2 DEF GoodRows, RowNames
  <2> QED
    BY <1>2, <2>1 DEF TypedRows
<1>4. TypedEntry(n, e1) /\ TypedEntry(n, e2) /\ \A e \in C : TypedEntry(n, e)
  <2>1. GoodFields([publication |-> "published"])
    BY DEF GoodFields, AssetFields, Publication
  <2>2. \A e \in C : TypedEntry(n, e)
    BY <2>1, TypedCatalogEntry
  <2>3. TypedEntry(n, e1) /\ TypedEntry(n, e2)
    BY DEF TypedEntry
  <2> QED
    BY <2>2, <2>3
<1>5. SetToSeq(C) \in Seq(C)
  <2> DEFINE f == [a \in asked |-> InCatalog(a, [publication |-> "published"], {})]
  <2>1. IsFiniteSet(asked)
    BY <1>1, AssetsAssumption, FS_Subset DEF IInv, RequestInv, GoodRequest
  <2>2. IsFiniteSet({f[a] : a \in asked})
    BY <2>1, ImageIsFinite
  <2>3. C = {f[a] : a \in asked}
    OBVIOUS
  <2> HIDE DEF f, C
  <2> QED
    BY <2>2, <2>3, ListOf
<1>6. todo = <<e1, e2>> \o SetToSeq(C)
  BY DEF ReleaseFiles
<1>7. \A e \in Range(todo) : TypedEntry(n, e)
  <2> DEFINE S == C \cup {e1, e2}
  <2>1. <<e1, e2>> \in Seq({e1, e2})
    OBVIOUS
  <2> HIDE DEF C, e1, e2, todo
  <2>2. <<e1, e2>> \in Seq(S) /\ SetToSeq(C) \in Seq(S)
    BY <1>5, <2>1, SeqMonotonic
  <2>3. \A e \in S : TypedEntry(n, e)
    BY <1>4
  <2> HIDE DEF S
  <2>4. todo \in Seq(S)
    BY <1>6, <2>2, ConcatProperties
  <2> QED
    BY <2>3, <2>4, TypedEntries
<1> HIDE DEF rows, todo
<1> QED
  BY <1>1, <1>3, <1>7, TypedHold

\* A file is written: what was saved before is as typed as the files.
LEMMA WriteFileTyped ==
    ASSUME IInv, TypeInv, NEW p \in Requests, WriteFile(p)
    PROVE  TypeInv'
<1> DEFINE todo == req[p].todo
           n == Len(made)
           goesOn == Transaction(p) /\ Tail(todo) # <<>>
           saved == IF ~goesOn THEN None ELSE IF req[p].locked THEN req[p].saved ELSE files
<1>1. /\ req[p].pc = "files" /\ todo # <<>>
      /\ files' = Written(Head(todo))
      /\ req' = [req EXCEPT ![p].todo = Tail(todo), ![p].locked = goesOn, ![p].saved = saved]
      /\ UNCHANGED <<made, db, up>>
  BY DEF WriteFile
<1>2. GoodTodo(todo) /\ req[p].locked \in BOOLEAN /\ TypedRequest(n, req[p])
  BY DEF IInv, RequestInv, GoodRequest, TypeInv
<1>3. /\ GoodEntry(Head(todo)) /\ Head(todo) \in Range(todo)
      /\ Tail(todo) \in Seq(Range(todo))
  BY <1>1, <1>2, TodoRest, HeadTailProperties DEF GoodTodo
<1>4. TypedEntry(n, Head(todo)) /\ \A e \in Range(Tail(todo)) : TypedEntry(n, e)
  <2>1. \A e \in Range(todo) : TypedEntry(n, e)
    BY <1>2 DEF TypedRequest
  <2> QED
    BY <1>3, <2>1, TypedEntries
<1>5. TypedFiles(n, files')
  <2> HIDE DEF todo, n
  <2> QED
    BY <1>1, <1>3, <1>4, TypedWritten DEF IInv, FilesInv, TypeInv, n
<1>6. /\ MovesOnly(p)
      /\ req'[p].todo = Tail(todo) /\ req'[p].locked = goesOn /\ req'[p].saved = saved
      /\ req'[p].pc = "files" /\ req'[p].op = req[p].op /\ req'[p].data = req[p].data
      /\ req'[p].asset = req[p].asset /\ req'[p].revision = req[p].revision
      /\ req'[p].rows = req[p].rows /\ req'[p].view = req[p].view
  <2> HIDE DEF goesOn, saved
  <2> QED
    BY <1>1 DEF MovesOnly, IInv, RequestInv, GoodRequest, RequestNames
<1>7. goesOn => TypedFiles(n, saved)
  BY <1>2 DEF TypeInv, TypedRequest
<1>8. TypedRequest(n, req'[p])
  <2> HIDE DEF goesOn, saved, todo
  <2> QED
    BY <1>1, <1>2, <1>4, <1>6, <1>7 DEF TypedRequest
<1> HIDE DEF goesOn, saved, todo
<1> QED
  BY <1>1, <1>5, <1>6, <1>8, TypedMove DEF TypeInv

\* A scan reads the history.
LEMMA ReadHistoryTyped ==
    ASSUME IInv, TypeInv, NEW p \in Requests, ReadHistory(p)
    PROVE  TypeInv'
<1> DEFINE n == Len(made)
           data == [files EXCEPT !.catalog = req[p].data.catalog,
                                 !.superseded = req[p].data.superseded,
                                 !.relations = req[p].data.relations]
<1>1. /\ req[p].pc = "history" /\ UNCHANGED <<made, files, db, up>>
      /\ req' = [req EXCEPT ![p].pc = "rebuild", ![p].data = data]
  BY DEF ReadHistory
<1>2. TypedRequest(n, req[p])
  BY DEF TypeInv
<1>3. TypedFiles(n, data)
  <2>1. data.catalog = req[p].data.catalog /\ data.revisions = files.revisions
    BY DEF IInv, FilesInv, GoodFiles, FileNames
  <2> QED
    BY <1>1, <1>2, <2>1 DEF TypeInv, TypedFiles, TypedRequest
<1> HIDE DEF data
<1>4. /\ MovesOnly(p)
      /\ req'[p].pc = "rebuild" /\ req'[p].data = data
      /\ req'[p].todo = req[p].todo /\ req'[p].locked = req[p].locked
      /\ req'[p].op = req[p].op /\ req'[p].rows = req[p].rows /\ req'[p].view = req[p].view
      /\ req'[p].asset = req[p].asset /\ req'[p].revision = req[p].revision
      /\ req'[p].saved = req[p].saved
  BY <1>1 DEF MovesOnly, IInv, RequestInv, GoodRequest, RequestNames
<1>5. TypedRequest(n, req'[p])
  BY <1>1, <1>2, <1>3, <1>4 DEF TypedRequest
<1> QED
  BY <1>1, <1>4, <1>5, TypedMove DEF TypeInv

\* A commit, a failure, a rebuild: the request ends.
LEMMA EndsTyped ==
    ASSUME IInv, TypeInv, NEW p \in Requests, Commit(p) \/ FileFails(p) \/ Rebuild(p)
    PROVE  TypeInv'
<1>1. req' = [req EXCEPT ![p] = Idle] /\ UNCHANGED <<made, up>>
  BY DEF Commit, FileFails, Rebuild
<1>2. TypedRequest(Len(made), req[p])
  BY DEF TypeInv
<1>3. TypedFiles(Len(made), files') /\ TypedRows(Len(made), db')
  <2>1. CASE Commit(p)
    BY <1>2, <2>1 DEF Commit, TypedRequest, TypeInv
  <2>2. CASE FileFails(p)
    BY <1>2, <2>2 DEF FileFails, TypedRequest, TypeInv
  <2>3. CASE Rebuild(p)
    BY <1>2, <2>3, TypedRebuilt DEF Rebuild, TypedRequest, TypeInv
  <2> QED
    BY <2>1, <2>2, <2>3
<1> QED
  BY <1>1, <1>3, TypedEnd

\* QA changes who passed, which is no part of a type.
LEMMA RunQaTyped ==
    ASSUME IInv, TypeInv, NEW r, RunQa(r)
    PROVE  TypeInv'
<1>1. PICK new, old \in {{}, {r}} :
          /\ db' = [db EXCEPT !.passed = (@ \cup new) \ old]
          /\ files' = [files EXCEPT !.passed = (@ \cup new) \ old]
  BY DEF RunQa
<1>2. /\ db'.asset = db.asset /\ db'.status = db.status /\ db'.reviews = db.reviews
      /\ db'.valid = db.valid /\ files'.catalog = files.catalog /\ files'.revisions = files.revisions
  BY <1>1 DEF IInv, RowsInv, FilesInv, GoodRows, GoodFiles, RowNames, FileNames
<1>3. UNCHANGED <<made, req, up>>
  BY DEF RunQa
<1> QED
  BY <1>2, <1>3 DEF TypeInv, TypedRows, TypedFiles

\* A crash leaves the files, and the start a scan of them.
LEMMA CrashTyped ==
    ASSUME IInv, TypeInv, Crash \/ StartUp
    PROVE  TypeInv'
<1>1. CASE Crash
  BY <1>1, TypedIdle DEF Crash, TypeInv
<1>2. CASE StartUp
  BY <1>2, TypedRebuilt DEF StartUp, TypeInv
<1> QED
  BY <1>1, <1>2

\* The first state is typed.
LEMMA InitTyped ==
    ASSUME Init
    PROVE  TypeInv
<1>1. GoodAsset(NewAsset)
  BY DEF GoodAsset, NewAsset, AssetFields, Content, Publication
<1>2. made \in Seq(Assets) /\ up \in BOOLEAN
  BY EmptySeq DEF Init
<1>3. TypedFiles(Len(made), files)
  BY <1>1 DEF Init, TypedFiles, GoodCatalog, NewFiles
<1>4. TypedRows(Len(made), db)
  BY <1>1 DEF Init, TypedRows, GoodCatalog, NewRows, Ids
<1>5. \A p \in Requests : req[p] = Idle
  BY DEF Init
<1> QED
  BY <1>2, <1>3, <1>4, <1>5, TypedIdle DEF TypeInv

\* TypeInv is inductive, beside IInv.
LEMMA TypesHold == Spec => []TypeInv
<1>1. ASSUME IInv, TypeInv, [Next]_vars
      PROVE  TypeInv'
  <2>1. CASE UNCHANGED vars
    BY <1>1, <2>1 DEF vars, TypeInv
  <2>2. ASSUME NEW p \in Requests, Step(p)
        PROVE  TypeInv'
    BY <1>1, <2>2, CreateRevisionTyped, RejectRevisionTyped, ApproveRevisionTyped, PromoteTyped,
       CommitMediaTyped, CreateRelationTyped, CreateReleaseTyped, WriteFileTyped,
       ReadHistoryTyped, EndsTyped DEF Step
  <2>3. ASSUME NEW p \in Requests,
               \/ \E a \in Assets : StartCreate(p, a)
               \/ \E r \in DOMAIN db.status, v \in {"approve", "reject"} : StartReview(p, r, v)
               \/ \E rel \in Relations : StartRelate(p, rel)
               \/ \E asked \in SUBSET Assets : StartRelease(p, asked)
               \/ StartScan(p)
        PROVE  TypeInv'
    BY <1>1, <2>3, TypedStarts
  <2>4. ASSUME NEW p \in Requests, FileFails(p)
        PROVE  TypeInv'
    BY <1>1, <2>4, EndsTyped
  <2>5. CASE (\E r \in DOMAIN db.status : RunQa(r)) \/ Crash \/ StartUp
    BY <1>1, <2>5, RunQaTyped, CrashTyped
  <2> QED
    BY <1>1, <2>1, <2>2, <2>3, <2>4, <2>5 DEF Next
<1> QED
  BY <1>1, InitTyped, Invariant, PTL DEF Spec

\* Whatever overlaps, fails or dies, rows have their types, and a review that
\* is valid is one that the rows have.
THEOREM TypeCorrect == Spec => []TypeOK
<1>1. TypeInv => TypeOK
  BY DEF TypeInv, TypedRows, GoodCatalog, GoodAsset, Ids, TypeOK
<1> QED
  BY <1>1, TypesHold, PTL

-----------------------------------------------------------------------------
(* The state, while no file fails and no request overlaps another *)

Approves(v, r) == v.revision = r /\ v.verdict = "approve"
Releases(m, a, r) == \E e \in m.entries : e.asset = a /\ e.revision = r

\* What the files will have before the k-th of the writes in todo.
RevisionBy(f, todo, k, r) ==
    \/ r \in f.revisions
    \/ \E i \in 1 .. k - 1 : todo[i].file = "revision" /\ todo[i].revision = r

ReviewBy(f, todo, k, v) ==
    \/ v \in f.reviews
    \/ \E i \in 1 .. k - 1 : todo[i].file = "review" /\ todo[i].review = v

ApprovedBy(f, todo, k, r) ==
    \/ \E v \in f.reviews : Approves(v, r)
    \/ \E i \in 1 .. k - 1 : todo[i].file = "review" /\ Approves(todo[i].review, r)

ReleasedBy(f, todo, k, a, r) ==
    \/ \E m \in f.manifests : Releases(m, a, r)
    \/ \E i \in 1 .. k - 1 : todo[i].file = "manifest" /\ Releases(todo[i].manifest, a, r)

\* And when all are written.
Superseding(f, todo, r) ==
    \/ r \in f.superseded
    \/ \E i \in 1 .. Len(todo) : todo[i].file = "catalog" /\ r \in todo[i].superseded

Reviewed(f, todo, r) ==
    \/ \E v \in f.reviews : v.revision = r
    \/ \E i \in 1 .. Len(todo) : todo[i].file = "review" /\ todo[i].review.revision = r

Agree(v, w) == v.revision = w.revision => v.verdict = w.verdict

GoodReview(n, v) == v.revision \in Numbers(n) /\ (v.revision < 0 => v.verdict = "approve")

\* What is current is recorded and approved, and what is published released.
FilesSound(n, f) ==
    /\ \A v \in f.reviews : GoodReview(n, v) /\ \A w \in f.reviews : Agree(v, w)
    /\ f.superseded \subseteq 1 .. n
    /\ \A a \in Assets :
          LET r == f.catalog[a].current
          IN  /\ r # None => /\ r \in f.revisions /\ r \notin f.superseded
                             /\ \E v \in f.reviews : Approves(v, r)
              /\ f.catalog[a].publication = "published" => \E m \in f.manifests : Releases(m, a, r)

\* The same of the rows, when the files in todo are written.
RowsSound(f, todo, rows) ==
    /\ \A a \in Assets :
          LET r == rows.asset[a].current
          IN  /\ r # None => /\ r \in DOMAIN rows.status /\ rows.status[r] = "approved"
                             /\ \E v \in rows.reviews : Approves(v, r)
              /\ rows.asset[a].publication = "published" =>
                    ReleasedBy(f, todo, Len(todo) + 1, a, r)
    /\ \A r \in DOMAIN rows.status :
          /\ RevisionBy(f, todo, Len(todo) + 1, r)
          /\ rows.status[r] = "pending" =>
                r > 0 /\ ~Superseding(f, todo, r) /\ ~Reviewed(f, todo, r)
    /\ \A v \in rows.reviews : ReviewBy(f, todo, Len(todo) + 1, v)

\* Writing e, the k-th of todo, keeps the files sound and nearer to the rows.
HasCurrent(e) == e.file = "catalog" /\ "current" \in DOMAIN e.fields

ReviewSound(n, f, todo, v) ==
    /\ GoodReview(n, v)
    /\ \A w \in f.reviews : Agree(v, w)
    /\ \A i \in 1 .. Len(todo) : todo[i].file = "review" => Agree(v, todo[i].review)

CatalogSound(n, f, todo, rows, k, e) ==
    /\ e.asset \in Assets
    /\ e.superseded \subseteq 1 .. n
    /\ "current" \in DOMAIN e.fields =>
          /\ "publication" \in DOMAIN e.fields
          /\ e.fields.current = rows.asset[e.asset].current
          /\ e.fields.current # None =>
                /\ RevisionBy(f, todo, k, e.fields.current)
                /\ ApprovedBy(f, todo, k, e.fields.current)
                /\ ~Superseding(f, todo, e.fields.current)
    /\ "publication" \in DOMAIN e.fields /\ e.fields.publication = "published" =>
          ReleasedBy(f, todo, k, e.asset, rows.asset[e.asset].current)

TodoSound(n, f, todo, rows) ==
    /\ \A k \in 1 .. Len(todo) :
          /\ todo[k].file = "review" => ReviewSound(n, f, todo, todo[k].review)
          /\ todo[k].file = "catalog" => CatalogSound(n, f, todo, rows, k, todo[k])
    /\ \A j, k \in 1 .. Len(todo) :
          todo[j].file = "catalog" /\ todo[k].file = "catalog" =>
              (HasCurrent(todo[j]) <=> HasCurrent(todo[k]))
    /\ \A a \in Assets :
          LET r == f.catalog[a].current
          IN  /\ r # None => ~Superseding(f, todo, r)
              /\ r # rows.asset[a].current =>
                    \E k \in 1 .. Len(todo) : HasCurrent(todo[k]) /\ todo[k].asset = a

Sound(n, f, todo, rows) == RowsSound(f, todo, rows) /\ TodoSound(n, f, todo, rows)

\* After t the files in u are written too, for rows that become x: reviews that
\* decide nothing, and catalogs that t has prepared.
GoesOn(n, f, t, u, rows, x) ==
    /\ x.status = rows.status
    /\ \A a \in Assets :
          /\ x.asset[a].current = rows.asset[a].current
          /\ x.asset[a].publication = "published" =>
                ReleasedBy(f, t, Len(t) + 1, a, x.asset[a].current)
    /\ rows.reviews \subseteq x.reviews
    /\ \A v \in x.reviews : \/ v \in rows.reviews
                            \/ \E k \in 1 .. Len(u) : u[k].file = "review" /\ u[k].review = v
    /\ \A k \in 1 .. Len(u) : u[k].file = "review" =>
          /\ ReviewSound(n, f, t, u[k].review) /\ ReviewSound(n, f, u, u[k].review)
          /\ \A r \in DOMAIN x.status : x.status[r] = "pending" => u[k].review.revision # r
    /\ \A k \in 1 .. Len(u) : u[k].file = "catalog" =>
          /\ CatalogSound(n, f, t, x, Len(t) + 1, u[k]) /\ u[k].superseded = {}
          /\ \A i \in 1 .. Len(t) : t[i].file = "catalog" => (HasCurrent(t[i]) <=> HasCurrent(u[k]))
          /\ \A i \in 1 .. Len(u) : u[i].file = "catalog" => (HasCurrent(u[i]) <=> HasCurrent(u[k]))

\* Files and rows when nothing is left to write.
AtRest(f, rows) ==
    /\ \A a \in Assets :
          LET r == rows.asset[a].current
          IN  /\ f.catalog[a].current = r
              /\ r # None => /\ r \in DOMAIN rows.status /\ rows.status[r] = "approved"
                             /\ \E v \in rows.reviews : Approves(v, r)
                             /\ r \notin f.superseded
              /\ rows.asset[a].publication = "published" => \E m \in f.manifests : Releases(m, a, r)
    /\ \A r \in DOMAIN rows.status :
          /\ r \in f.revisions
          /\ rows.status[r] = "pending" =>
                r > 0 /\ r \notin f.superseded /\ \A v \in f.reviews : v.revision # r
    /\ rows.reviews \subseteq f.reviews

\* The rows that a request will commit.
Outcome(p) == IF req[p].op = "approve_media" THEN MediaRows(p) ELSE req[p].rows

\* A scan has read the files there are.
Read(data) ==
    /\ data.catalog = files.catalog /\ data.superseded = files.superseded
    /\ data.revisions = files.revisions /\ data.reviews = files.reviews
    /\ data.manifests = files.manifests

\* The only request that runs.
Progress(p) ==
    /\ up /\ req[p].view = db
    /\ req[p].op = "approve_media" => req[p].rows = None
    /\ IF req[p].pc = "files" THEN Sound(Len(made), files, req[p].todo, Outcome(p))
       ELSE /\ Sound(Len(made), files, <<>>, db)
            /\ req[p].op \in Reviewing =>
                  /\ req[p].revision \in DOMAIN db.status
                  /\ db.status[req[p].revision] = "pending"
            /\ req[p].op = "approve" => req[p].asset \notin Media
            /\ req[p].pc \in {"history", "rebuild"} => Read(req[p].data)

Calm == count.faults = 0 /\ count.overlaps = 0

CountInv ==
    /\ DOMAIN count = {"revisions", "reviews", "releases", "relations", "scans", "qa",
                       "overlaps", "faults", "crashes"}
    /\ count.faults \in Nat /\ count.overlaps \in Nat

CalmInv ==
    Calm =>
       /\ FilesSound(Len(made), files)
       /\ DOMAIN db.status \subseteq files.revisions /\ db.reviews \subseteq files.reviews
       /\ \A p, q \in Requests : Running(p) /\ Running(q) => p = q
       /\ \A p \in Requests : Running(p) => Progress(p)
       /\ Quiet => Sound(Len(made), files, <<>>, db)

-----------------------------------------------------------------------------
(* One file after another *)

\* What a write adds to the files, and the one catalog it changes.
LEMMA WrittenFields ==
    ASSUME NEW n, GoodFiles(files), TypedFiles(n, files), NEW e, GoodEntry(e)
    PROVE  /\ Written(e).revisions =
                  IF e.file = "revision" THEN files.revisions \cup {e.revision} ELSE files.revisions
           /\ Written(e).reviews =
                  IF e.file = "review" THEN files.reviews \cup {e.review} ELSE files.reviews
           /\ Written(e).manifests =
                  IF e.file = "manifest" THEN files.manifests \cup {e.manifest} ELSE files.manifests
           /\ Written(e).superseded =
                  IF e.file = "catalog" THEN files.superseded \cup e.superseded ELSE files.superseded
           /\ \A a \in Assets : Written(e).catalog[a] =
                  IF e.file = "catalog" /\ e.asset = a THEN Updated(files.catalog[a], e.fields)
                  ELSE files.catalog[a]
<1> DEFINE f == Written(e)
<1>1. CASE e.file = "artifacts"
  BY <1>1 DEF Written, GoodFiles, FileNames
<1>2. CASE e.file = "revision"
  BY <1>2 DEF Written, GoodFiles, FileNames
<1>3. CASE e.file = "review"
  BY <1>3 DEF Written, GoodFiles, FileNames
<1>4. CASE e.file = "relations"
  BY <1>4 DEF Written, GoodFiles, FileNames
<1>5. CASE e.file = "manifest"
  BY <1>5 DEF Written, GoodFiles, FileNames
<1>6. CASE e.file = "pointer"
  BY <1>6 DEF Written, GoodFiles, FileNames
<1>7. CASE e.file = "catalog"
  <2> DEFINE row == Updated(files.catalog[e.asset], e.fields)
  <2>1. /\ f.revisions = files.revisions /\ f.reviews = files.reviews
        /\ f.manifests = files.manifests /\ f.superseded = files.superseded \cup e.superseded
        /\ f.catalog = [files.catalog EXCEPT ![e.asset] = row]
    BY <1>7 DEF Written, GoodFiles, FileNames
  <2>2. \A a \in Assets : f.catalog[a] = IF e.asset = a THEN row ELSE files.catalog[a]
    <3> HIDE DEF row, f
    <3> QED
      BY <2>1 DEF TypedFiles, GoodCatalog
  <2> HIDE DEF f
  <2> QED
    BY <1>7, <2>1, <2>2 DEF f
<1> QED
  BY <1>1, <1>2, <1>3, <1>4, <1>5, <1>6, <1>7 DEF GoodEntry, Kinds

\* After the first write the files have what they would have before the second.
LEMMA WrittenBy ==
    ASSUME NEW n, GoodFiles(files), TypedFiles(n, files), NEW todo, GoodTodo(todo), todo # <<>>,
           NEW f, f = Written(Head(todo)), NEW rest, rest = Tail(todo)
    PROVE  /\ \A k \in 1 .. Len(rest) + 1 :
                 /\ \A r : RevisionBy(f, rest, k, r) <=> RevisionBy(files, todo, k + 1, r)
                 /\ \A v : ReviewBy(f, rest, k, v) <=> ReviewBy(files, todo, k + 1, v)
                 /\ \A r : ApprovedBy(f, rest, k, r) <=> ApprovedBy(files, todo, k + 1, r)
                 /\ \A a, r : ReleasedBy(f, rest, k, a, r) <=> ReleasedBy(files, todo, k + 1, a, r)
           /\ \A r : Superseding(f, rest, r) <=> Superseding(files, todo, r)
           /\ \A r : Reviewed(f, rest, r) <=> Reviewed(files, todo, r)
<1> DEFINE e == todo[1]
<1>1. /\ Len(todo) \in Nat /\ Len(todo) > 0 /\ Head(todo) = e
      /\ Len(rest) = Len(todo) - 1
      /\ \A i \in 1..Len(rest) : rest[i] = todo[i + 1]
  BY SequenceParts
<1>2. GoodEntry(e)
  BY <1>1, TodoRest
<1>3. /\ f.revisions =
             IF e.file = "revision" THEN files.revisions \cup {e.revision} ELSE files.revisions
      /\ f.reviews =
             IF e.file = "review" THEN files.reviews \cup {e.review} ELSE files.reviews
      /\ f.manifests =
             IF e.file = "manifest" THEN files.manifests \cup {e.manifest} ELSE files.manifests
      /\ f.superseded =
             IF e.file = "catalog" THEN files.superseded \cup e.superseded ELSE files.superseded
  BY <1>1, <1>2, WrittenFields
<1>4. ASSUME NEW k \in 1 .. Len(rest) + 1
      PROVE  /\ \A i \in 1 .. (k + 1) - 1 : i = 1 \/ (i - 1 \in 1 .. k - 1 /\ todo[i] = rest[i - 1])
             /\ 1 \in 1 .. (k + 1) - 1
             /\ \A i \in 1 .. k - 1 : i + 1 \in 1 .. (k + 1) - 1 /\ rest[i] = todo[i + 1]
  BY <1>1
<1>5. /\ \A i \in 1 .. Len(todo) : i = 1 \/ (i - 1 \in 1 .. Len(rest) /\ todo[i] = rest[i - 1])
      /\ 1 \in 1 .. Len(todo)
      /\ \A i \in 1 .. Len(rest) : i + 1 \in 1 .. Len(todo) /\ rest[i] = todo[i + 1]
  BY <1>1
<1>6. ASSUME NEW k \in 1 .. Len(rest) + 1
      PROVE  /\ \A r : RevisionBy(f, rest, k, r) <=> RevisionBy(files, todo, k + 1, r)
             /\ \A v : ReviewBy(f, rest, k, v) <=> ReviewBy(files, todo, k + 1, v)
             /\ \A r : ApprovedBy(f, rest, k, r) <=> ApprovedBy(files, todo, k + 1, r)
             /\ \A a, r : ReleasedBy(f, rest, k, a, r) <=> ReleasedBy(files, todo, k + 1, a, r)
  <2> HIDE DEF e
  <2>1. \A r : RevisionBy(f, rest, k, r) <=> RevisionBy(files, todo, k + 1, r)
    BY <1>3, <1>4 DEF RevisionBy, e
  <2>2. \A v : ReviewBy(f, rest, k, v) <=> ReviewBy(files, todo, k + 1, v)
    <3>1. ASSUME NEW v, ReviewBy(f, rest, k, v)
          PROVE  ReviewBy(files, todo, k + 1, v)
      BY <1>3, <1>4, <3>1 DEF ReviewBy, e
    <3>2. ASSUME NEW v, ReviewBy(files, todo, k + 1, v)
          PROVE  ReviewBy(f, rest, k, v)
      <4>1. CASE v \in files.reviews
        BY <1>3, <4>1 DEF ReviewBy
      <4>2. ASSUME NEW i \in 1 .. (k + 1) - 1, todo[i].file = "review" /\ todo[i].review = v
            PROVE  ReviewBy(f, rest, k, v)
        BY <1>3, <1>4, <4>2 DEF ReviewBy, e
      <4> QED
        BY <3>2, <4>1, <4>2 DEF ReviewBy
    <3> QED
      BY <3>1, <3>2
  <2>3. \A r : ApprovedBy(f, rest, k, r) <=> ApprovedBy(files, todo, k + 1, r)
    BY <1>3, <1>4 DEF ApprovedBy, e
  <2>4. \A a, r : ReleasedBy(f, rest, k, a, r) <=> ReleasedBy(files, todo, k + 1, a, r)
    BY <1>3, <1>4 DEF ReleasedBy, e
  <2> QED
    BY <2>1, <2>2, <2>3, <2>4
<1>7. \A r : Superseding(f, rest, r) <=> Superseding(files, todo, r)
  BY <1>3, <1>5 DEF Superseding
<1>8. \A r : Reviewed(f, rest, r) <=> Reviewed(files, todo, r)
  BY <1>3, <1>5 DEF Reviewed
<1> QED
  BY <1>6, <1>7, <1>8

\* Each write keeps the files sound, and nearer to the rows.
LEMMA WriteKeepsSound ==
    ASSUME NEW n \in Nat, GoodFiles(files), TypedFiles(n, files), FilesSound(n, files),
           NEW todo, GoodTodo(todo), todo # <<>>, \A e \in Range(todo) : TypedEntry(n, e),
           NEW rows, Sound(n, files, todo, rows)
    PROVE  /\ FilesSound(n, Written(Head(todo))) /\ Sound(n, Written(Head(todo)), Tail(todo), rows)
           /\ files.revisions \subseteq Written(Head(todo)).revisions
           /\ files.reviews \subseteq Written(Head(todo)).reviews
<1> DEFINE e == todo[1]
           f == Written(Head(todo))
           rest == Tail(todo)
<1>1. /\ Len(todo) \in Nat /\ Len(todo) > 0 /\ Head(todo) = e
      /\ Len(rest) = Len(todo) - 1
      /\ \A i \in 1..Len(rest) : rest[i] = todo[i + 1]
  BY SequenceParts
<1>2. GoodEntry(e) /\ TypedEntry(n, e)
  <2>1. Head(todo) \in Range(todo)
    BY HeadTailProperties DEF GoodTodo
  <2> QED
    BY <1>1, <2>1 DEF GoodTodo
<1>3. /\ f.revisions =
             IF e.file = "revision" THEN files.revisions \cup {e.revision} ELSE files.revisions
      /\ f.reviews =
             IF e.file = "review" THEN files.reviews \cup {e.review} ELSE files.reviews
      /\ f.manifests =
             IF e.file = "manifest" THEN files.manifests \cup {e.manifest} ELSE files.manifests
      /\ f.superseded =
             IF e.file = "catalog" THEN files.superseded \cup e.superseded ELSE files.superseded
      /\ \A a \in Assets : f.catalog[a] =
             IF e.file = "catalog" /\ e.asset = a THEN Updated(files.catalog[a], e.fields)
             ELSE files.catalog[a]
  <2> DEFINE g == Written(e)
  <2>1. f = g
    BY <1>1
  <2> HIDE DEF f, e
  <2>2. /\ g.revisions =
              IF e.file = "revision" THEN files.revisions \cup {e.revision} ELSE files.revisions
        /\ g.reviews =
              IF e.file = "review" THEN files.reviews \cup {e.review} ELSE files.reviews
        /\ g.manifests =
              IF e.file = "manifest" THEN files.manifests \cup {e.manifest} ELSE files.manifests
        /\ g.superseded =
              IF e.file = "catalog" THEN files.superseded \cup e.superseded ELSE files.superseded
        /\ \A a \in Assets : g.catalog[a] =
              IF e.file = "catalog" /\ e.asset = a THEN Updated(files.catalog[a], e.fields)
              ELSE files.catalog[a]
    BY <1>2, WrittenFields
  <2> HIDE DEF g
  <2> QED
    BY <2>1, <2>2
<1>4. /\ \A k \in 1 .. Len(rest) + 1 :
            /\ \A r : RevisionBy(f, rest, k, r) <=> RevisionBy(files, todo, k + 1, r)
            /\ \A v : ReviewBy(f, rest, k, v) <=> ReviewBy(files, todo, k + 1, v)
            /\ \A r : ApprovedBy(f, rest, k, r) <=> ApprovedBy(files, todo, k + 1, r)
            /\ \A a, r : ReleasedBy(f, rest, k, a, r) <=> ReleasedBy(files, todo, k + 1, a, r)
      /\ \A r : Superseding(f, rest, r) <=> Superseding(files, todo, r)
      /\ \A r : Reviewed(f, rest, r) <=> Reviewed(files, todo, r)
  BY WrittenBy
<1> HIDE DEF f, rest, e
\* What is current and published in the one catalog that is written.
<1>5. ASSUME NEW a \in Assets
      PROVE  \/ /\ HasCurrent(e) /\ e.asset = a
                /\ CatalogSound(n, files, todo, rows, 1, e)
                /\ f.catalog[a].current = e.fields.current
                /\ f.catalog[a].publication = e.fields.publication
             \/ /\ ~(HasCurrent(e) /\ e.asset = a)
                /\ f.catalog[a].current = files.catalog[a].current
                /\ \/ f.catalog[a].publication = files.catalog[a].publication
                   \/ /\ e.file = "catalog" /\ e.asset = a /\ ~HasCurrent(e)
                      /\ "publication" \in DOMAIN e.fields
                      /\ CatalogSound(n, files, todo, rows, 1, e)
                      /\ f.catalog[a].publication = e.fields.publication
  <2>1. e.file = "catalog" => CatalogSound(n, files, todo, rows, 1, e)
    BY <1>1 DEF Sound, TodoSound, e
  <2>2. GoodAsset(files.catalog[a])
    BY DEF TypedFiles, GoodCatalog
  <2>3. CASE e.file = "catalog" /\ e.asset = a
    <3>1. f.catalog[a] = Updated(files.catalog[a], e.fields)
      BY <1>3, <2>3
    <3>2. /\ f.catalog[a].current = IF "current" \in DOMAIN e.fields THEN e.fields.current
                                    ELSE files.catalog[a].current
          /\ f.catalog[a].publication = IF "publication" \in DOMAIN e.fields THEN e.fields.publication
                                        ELSE files.catalog[a].publication
      BY <2>2, <3>1 DEF Updated, GoodAsset, AssetFields
    <3> QED
      BY <2>1, <2>3, <3>2 DEF HasCurrent, CatalogSound
  <2>4. CASE ~(e.file = "catalog" /\ e.asset = a)
    BY <1>3, <2>4 DEF HasCurrent
  <2> QED
    BY <2>3, <2>4
<1>6. ASSUME NEW a \in Assets
      PROVE  LET r == f.catalog[a].current
             IN  /\ r # None => ~Superseding(f, rest, r)
                 /\ r # rows.asset[a].current =>
                       \E k \in 1 .. Len(rest) : HasCurrent(rest[k]) /\ rest[k].asset = a
  <2>1. CASE HasCurrent(e) /\ e.asset = a
    BY <1>4, <1>5, <2>1 DEF CatalogSound, HasCurrent
  <2>2. CASE ~(HasCurrent(e) /\ e.asset = a)
    <3>1. f.catalog[a].current = files.catalog[a].current
      BY <1>5, <2>2
    <3>2. f.catalog[a].current # None => ~Superseding(f, rest, f.catalog[a].current)
      BY <1>4, <3>1 DEF Sound, TodoSound
    <3>3. ASSUME f.catalog[a].current # rows.asset[a].current
          PROVE  \E k \in 1 .. Len(rest) : HasCurrent(rest[k]) /\ rest[k].asset = a
      <4>1. PICK k \in 1 .. Len(todo) : HasCurrent(todo[k]) /\ todo[k].asset = a
        BY <3>1, <3>3 DEF Sound, TodoSound
      <4>2. k # 1
        BY <2>2, <4>1 DEF e
      <4>3. k - 1 \in 1 .. Len(rest) /\ rest[k - 1] = todo[k]
        BY <1>1, <4>2
      <4> QED
        BY <4>1, <4>3
    <3> QED
      BY <3>2, <3>3
  <2> QED
    BY <2>1, <2>2
<1>7. FilesSound(n, f)
  <2>1. \A v \in f.reviews : GoodReview(n, v) /\ \A w \in f.reviews : Agree(v, w)
    <3>1. e.file = "review" => ReviewSound(n, files, todo, e.review)
      BY <1>1 DEF Sound, TodoSound, e
    <3> QED
      BY <1>3, <3>1 DEF FilesSound, ReviewSound, Agree
  <2>2. f.superseded \subseteq 1 .. n
    <3>1. e.file = "catalog" => CatalogSound(n, files, todo, rows, 1, e)
      BY <1>1 DEF Sound, TodoSound, e
    <3> QED
      BY <1>3, <3>1 DEF FilesSound, CatalogSound
  <2>3. ASSUME NEW a \in Assets, NEW r, r = f.catalog[a].current, r # None
        PROVE  r \in f.revisions /\ r \notin f.superseded /\ \E v \in f.reviews : Approves(v, r)
    <3>1. r \notin f.superseded
      BY <1>6, <2>3 DEF Superseding
    <3>2. r \in files.revisions /\ \E v \in files.reviews : Approves(v, r)
      <4>1. CASE HasCurrent(e) /\ e.asset = a
        <5>1. RevisionBy(files, todo, 1, r) /\ ApprovedBy(files, todo, 1, r)
          BY <1>5, <2>3, <4>1 DEF CatalogSound, HasCurrent
        <5> QED
          BY <5>1 DEF RevisionBy, ApprovedBy
      <4>2. CASE ~(HasCurrent(e) /\ e.asset = a)
        BY <1>5, <2>3, <4>2 DEF FilesSound
      <4> QED
        BY <4>1, <4>2
    <3> QED
      BY <1>3, <3>1, <3>2
  <2>4. ASSUME NEW a \in Assets, f.catalog[a].publication = "published"
        PROVE  \E m \in f.manifests : Releases(m, a, f.catalog[a].current)
    <3>1. \E m \in files.manifests : Releases(m, a, f.catalog[a].current)
      <4>1. CASE HasCurrent(e) /\ e.asset = a
        <5>1. ReleasedBy(files, todo, 1, a, f.catalog[a].current)
          BY <1>5, <2>4, <4>1 DEF CatalogSound, HasCurrent
        <5> QED
          BY <5>1 DEF ReleasedBy
      <4>2. CASE ~(HasCurrent(e) /\ e.asset = a) /\ f.catalog[a].publication = files.catalog[a].publication
        BY <1>5, <2>4, <4>2 DEF FilesSound
      <4>3. CASE /\ e.file = "catalog" /\ e.asset = a /\ ~HasCurrent(e)
                 /\ "publication" \in DOMAIN e.fields
                 /\ CatalogSound(n, files, todo, rows, 1, e)
                 /\ f.catalog[a].publication = e.fields.publication
                 /\ f.catalog[a].current = files.catalog[a].current
        <5>1. \A k \in 1 .. Len(todo) : ~HasCurrent(todo[k])
          BY <1>1, <4>3 DEF Sound, TodoSound, HasCurrent, e
        <5>2. files.catalog[a].current = rows.asset[a].current
          BY <5>1 DEF Sound, TodoSound
        <5>3. ReleasedBy(files, todo, 1, a, f.catalog[a].current)
          BY <2>4, <4>3, <5>2 DEF CatalogSound
        <5> QED
          BY <5>3 DEF ReleasedBy
      <4> QED
        BY <1>5, <4>1, <4>2, <4>3
    <3> QED
      BY <1>3, <3>1
  <2> QED
    BY <2>1, <2>2, <2>3, <2>4 DEF FilesSound
<1>8. RowsSound(f, rest, rows)
  <2>1. Len(rest) + 1 \in 1 .. Len(rest) + 1 /\ Len(rest) + 1 + 1 = Len(todo) + 1
    BY <1>1
  <2>2. RowsSound(files, todo, rows)
    BY DEF Sound
  <2>3. /\ \A r : RevisionBy(f, rest, Len(rest) + 1, r) <=> RevisionBy(files, todo, Len(todo) + 1, r)
        /\ \A v : ReviewBy(f, rest, Len(rest) + 1, v) <=> ReviewBy(files, todo, Len(todo) + 1, v)
        /\ \A a, r : ReleasedBy(f, rest, Len(rest) + 1, a, r)
                        <=> ReleasedBy(files, todo, Len(todo) + 1, a, r)
    BY <1>4, <2>1
  <2> QED
    BY <1>4, <2>2, <2>3 DEF RowsSound
<1>9. ASSUME NEW k \in 1 .. Len(rest), rest[k].file = "review"
      PROVE  ReviewSound(n, f, rest, rest[k].review)
  <2>1. rest[k] = todo[k + 1] /\ k + 1 \in 1 .. Len(todo) /\ 1 \in 1 .. Len(todo)
    BY <1>1
  <2>2. ReviewSound(n, files, todo, rest[k].review)
    BY <1>9, <2>1 DEF Sound, TodoSound
  <2>3. e.file = "review" => Agree(rest[k].review, e.review)
    BY <2>1, <2>2 DEF ReviewSound, e
  <2>4. \A i \in 1 .. Len(rest) : rest[i].file = "review" => Agree(rest[k].review, rest[i].review)
    <3>1. \A i \in 1 .. Len(rest) : rest[i] = todo[i + 1] /\ i + 1 \in 1 .. Len(todo)
      BY <1>1
    <3> QED
      BY <2>2, <3>1 DEF ReviewSound
  <2> QED
    BY <1>3, <2>2, <2>3, <2>4 DEF ReviewSound
<1>10. ASSUME NEW k \in 1 .. Len(rest), rest[k].file = "catalog"
       PROVE  CatalogSound(n, f, rest, rows, k, rest[k])
  <2>1. rest[k] = todo[k + 1] /\ k + 1 \in 1 .. Len(todo) /\ k \in 1 .. Len(rest) + 1
    BY <1>1
  <2>2. CatalogSound(n, files, todo, rows, k + 1, rest[k])
    BY <1>10, <2>1 DEF Sound, TodoSound
  <2> QED
    BY <1>4, <2>1, <2>2 DEF CatalogSound
<1>11. ASSUME NEW j \in 1 .. Len(rest), NEW k \in 1 .. Len(rest),
              rest[j].file = "catalog", rest[k].file = "catalog"
       PROVE  HasCurrent(rest[j]) <=> HasCurrent(rest[k])
  <2>1. /\ rest[j] = todo[j + 1] /\ j + 1 \in 1 .. Len(todo)
        /\ rest[k] = todo[k + 1] /\ k + 1 \in 1 .. Len(todo)
    BY <1>1
  <2> QED
    BY <1>11, <2>1 DEF Sound, TodoSound
<1>12. TodoSound(n, f, rest, rows)
  BY <1>6, <1>9, <1>10, <1>11 DEF TodoSound
<1> QED
  BY <1>3, <1>7, <1>8, <1>12 DEF Sound, f, rest

-----------------------------------------------------------------------------
(* At rest *)

LEMMA RestIsSound ==
    ASSUME NEW n, NEW f, NEW rows
    PROVE  Sound(n, f, <<>>, rows) <=> AtRest(f, rows)
<1>1. Len(<<>>) = 0 /\ 1 .. 0 = {} /\ 1 .. (0 + 1) - 1 = {}
  OBVIOUS
<1>2. /\ \A r : RevisionBy(f, <<>>, Len(<<>>) + 1, r) <=> r \in f.revisions
      /\ \A v : ReviewBy(f, <<>>, Len(<<>>) + 1, v) <=> v \in f.reviews
      /\ \A a, r : ReleasedBy(f, <<>>, Len(<<>>) + 1, a, r) <=> \E m \in f.manifests : Releases(m, a, r)
      /\ \A r : Superseding(f, <<>>, r) <=> r \in f.superseded
      /\ \A r : Reviewed(f, <<>>, r) <=> \E v \in f.reviews : v.revision = r
  BY <1>1 DEF RevisionBy, ReviewBy, ReleasedBy, Superseding, Reviewed
<1>3. TodoSound(n, f, <<>>, rows) <=>
          \A a \in Assets : /\ f.catalog[a].current = rows.asset[a].current
                            /\ f.catalog[a].current # None => f.catalog[a].current \notin f.superseded
  BY <1>1, <1>2 DEF TodoSound
<1>4. ASSUME Sound(n, f, <<>>, rows)
      PROVE  AtRest(f, rows)
  BY <1>2, <1>3, <1>4 DEF Sound, RowsSound, AtRest
<1>5. ASSUME AtRest(f, rows)
      PROVE  Sound(n, f, <<>>, rows)
  BY <1>2, <1>3, <1>5 DEF Sound, RowsSound, AtRest
<1> QED
  BY <1>4, <1>5

\* Only these fields matter.
LEMMA RestFrame ==
    ASSUME NEW f, NEW rows, AtRest(f, rows), NEW g, NEW x,
           g.catalog = f.catalog, g.superseded = f.superseded, g.revisions = f.revisions,
           g.reviews = f.reviews, g.manifests = f.manifests,
           x.asset = rows.asset, x.status = rows.status, x.reviews = rows.reviews
    PROVE  AtRest(g, x)
BY DEF AtRest

\* And of the files only these.
LEMMA FilesFrame ==
    ASSUME NEW n, NEW f, FilesSound(n, f), NEW g,
           g.catalog = f.catalog, g.superseded = f.superseded, g.revisions = f.revisions,
           g.reviews = f.reviews, g.manifests = f.manifests
    PROVE  FilesSound(n, g)
BY DEF FilesSound

\* Files stay sound when one more revision is asked for.
LEMMA FilesGrow ==
    ASSUME NEW n \in Nat, NEW f, FilesSound(n, f)
    PROVE  FilesSound(n + 1, f)
<1>1. Numbers(n) \subseteq Numbers(n + 1) /\ 1 .. n \subseteq 1 .. n + 1
  BY NumbersGrow
<1> QED
  BY <1>1 DEF FilesSound, GoodReview

\* A scan of sound files, when the rows have nothing that the files have not.
LEMMA RebuiltRests ==
    ASSUME NEW n \in Nat, NEW f, GoodFiles(f), TypedFiles(n, f), FilesSound(n, f),
           NEW rows, DOMAIN rows.status \subseteq f.revisions, rows.reviews \subseteq f.reviews
    PROVE  AtRest(f, Rebuilt(f, rows))
<1> DEFINE new == Scanned(f)
           x == Rebuilt(f, rows)
<1>1. /\ new.asset = [a \in Assets |-> ScannedAsset(f, a)]
      /\ new.status = [r \in f.revisions |-> ScannedStatus(f, r)]
      /\ new.reviews = Known(f)
  BY DEF Scanned
<1>2. x.asset = new.asset /\ x.status = new.status /\ Known(f) \subseteq x.reviews /\ x.reviews \subseteq f.reviews
  <2>1. Known(f) \subseteq f.reviews
    BY DEF Known
  <2>2. CASE ScanErrors(f) = {}
    BY <1>1, <2>1, <2>2 DEF Rebuilt
  <2>3. CASE ScanErrors(f) # {}
    <3> DEFINE old == Kept(f, rows)
    <3>1. DOMAIN old.status = {} /\ old.reviews = rows.reviews
      BY DEF Kept, Restrict
    <3> HIDE DEF old, new
    <3>2. /\ x.asset = new.asset /\ x.status = Updated(old.status, new.status)
          /\ x.reviews = new.reviews \cup old.reviews
      BY <2>3 DEF Rebuilt, old, new
    <3>3. Updated(old.status, new.status) = new.status
      BY <1>1, <3>1 DEF Updated
    <3> QED
      BY <1>1, <2>1, <3>1, <3>2, <3>3
  <2> QED
    BY <2>2, <2>3
<1> HIDE DEF x, new
<1>3. ASSUME NEW a \in Assets
      PROVE  /\ x.asset[a].current = f.catalog[a].current
             /\ x.asset[a].publication \in {f.catalog[a].publication, "blocked"}
  <2>1. GoodAsset(f.catalog[a])
    BY DEF TypedFiles, GoodCatalog
  <2> QED
    BY <1>1, <1>2, <2>1 DEF ScannedAsset, GoodAsset, AssetFields
<1>4. ASSUME NEW r \in f.revisions
      PROVE  /\ r \in Int /\ r # 0
             /\ r \in f.superseded => ScannedStatus(f, r) = "superseded"
             /\ (\E v \in f.reviews : v.revision = r) /\ r \notin f.superseded =>
                   ScannedStatus(f, r) = IF \E v \in f.reviews : Approves(v, r)
                                         THEN "approved" ELSE "rejected"
             /\ (\A v \in f.reviews : v.revision # r) /\ r \notin f.superseded =>
                   ScannedStatus(f, r) = IF r < 0 THEN "approved" ELSE "pending"
  <2> DEFINE reviews == {v \in f.reviews : v.revision = r}
  <2>1. r \in Int /\ r # 0
    BY DEF TypedFiles, Numbers
  <2>2. reviews # {} => Latest(reviews) \in reviews
    <3>1. Dated(reviews)
      BY DatedPart DEF GoodFiles
    <3> HIDE DEF reviews
    <3> QED
      BY <3>1, LatestIsOne
  <2>3. reviews # {} =>
           (Latest(reviews).verdict = "approve" <=> \E v \in f.reviews : Approves(v, r))
    BY <2>2 DEF FilesSound, Agree, Approves
  <2> QED
    BY <2>1, <2>3 DEF ScannedStatus
<1>5. ASSUME NEW a \in Assets, NEW r, r = x.asset[a].current
      PROVE  /\ f.catalog[a].current = r
             /\ r # None => /\ r \in DOMAIN x.status /\ x.status[r] = "approved"
                            /\ \E v \in x.reviews : Approves(v, r)
                            /\ r \notin f.superseded
             /\ x.asset[a].publication = "published" => \E m \in f.manifests : Releases(m, a, r)
  <2>1. f.catalog[a].current = r
    BY <1>3, <1>5
  <2>2. ASSUME r # None
        PROVE  /\ r \in DOMAIN x.status /\ x.status[r] = "approved"
               /\ \E v \in x.reviews : Approves(v, r)
               /\ r \notin f.superseded
    <3>1. PICK v \in f.reviews : Approves(v, r)
      BY <2>1, <2>2 DEF FilesSound
    <3>2. r \in f.revisions /\ r \notin f.superseded
      BY <2>1, <2>2 DEF FilesSound
    <3>3. v \in Known(f) /\ v.revision = r
      BY <3>1, <3>2 DEF Known, Approves
    <3> QED
      BY <1>1, <1>2, <1>4, <3>1, <3>2, <3>3
  <2>3. x.asset[a].publication = "published" => \E m \in f.manifests : Releases(m, a, r)
    BY <1>3, <2>1 DEF FilesSound
  <2> QED
    BY <2>1, <2>2, <2>3
<1>6. ASSUME NEW r \in DOMAIN x.status
      PROVE  /\ r \in f.revisions
             /\ x.status[r] = "pending" =>
                   r > 0 /\ r \notin f.superseded /\ \A v \in f.reviews : v.revision # r
  BY <1>1, <1>2, <1>4
<1> QED
  BY <1>2, <1>5, <1>6 DEF AtRest, x

-----------------------------------------------------------------------------
(* Troubles are counted *)

CountNames == {"revisions", "reviews", "releases", "relations", "scans", "qa",
               "overlaps", "faults", "crashes"}

\* A call that overlaps another is counted.
LEMMA CountCalled ==
    ASSUME CountInv, NEW kind \in CountNames \ {"overlaps", "faults", "crashes"}, Called(kind)
    PROVE  CountInv' /\ (Calm' => Calm /\ \A q \in Requests : ~Running(q))
<1> DEFINE other == \E q \in Requests : Running(q)
           overlaps == IF other THEN count.overlaps + 1 ELSE count.overlaps
<1>1. /\ count' = [count EXCEPT ![kind] = @ + 1,
                                !.overlaps = IF other THEN @ + 1 ELSE @]
      /\ DOMAIN count = CountNames
  BY DEF Called, CountInv, CountNames
<1> HIDE DEF other
<1>2. kind # "overlaps" /\ kind # "faults" /\ "overlaps" \in CountNames /\ "faults" \in CountNames
  BY DEF CountNames
<1>3. /\ DOMAIN count' = CountNames
      /\ count'.faults = count.faults /\ count'.overlaps = overlaps
  BY <1>1, <1>2
<1>4. CountInv'
  BY <1>3 DEF CountInv, CountNames
<1>5. ASSUME Calm'
      PROVE  Calm /\ ~other
  BY <1>3, <1>5 DEF Calm, CountInv
<1> QED
  BY <1>4, <1>5 DEF other

\* No trouble is forgotten.
LEMMA CountHolds ==
    ASSUME CountInv, [Next]_vars
    PROVE  CountInv' /\ (Calm' => Calm)
<1>1. CASE UNCHANGED count
  BY <1>1 DEF CountInv, Calm
<1>2. ASSUME NEW p \in Requests, FileFails(p)
      PROVE  CountInv' /\ (Calm' => Calm)
  BY <1>2 DEF FileFails, CountInv, Calm
<1>3. CASE Crash
  BY <1>3 DEF Crash, CountInv, Calm
<1>4. ASSUME NEW kind \in CountNames \ {"overlaps", "faults", "crashes"}, Called(kind)
      PROVE  CountInv' /\ (Calm' => Calm)
  BY <1>4, CountCalled
<1>5. ASSUME NEW p \in Requests,
             \/ \E a \in Assets : StartCreate(p, a)
             \/ \E r \in DOMAIN db.status, v \in {"approve", "reject"} : StartReview(p, r, v)
             \/ \E rel \in Relations : StartRelate(p, rel)
             \/ \E asked \in SUBSET Assets : StartRelease(p, asked)
             \/ StartScan(p)
      PROVE  \E kind \in CountNames \ {"overlaps", "faults", "crashes"} : Called(kind)
  BY <1>5 DEF StartCreate, StartReview, StartRelate, StartRelease, StartScan, Begin, CountNames
<1>6. ASSUME NEW r, RunQa(r)
      PROVE  \E kind \in CountNames \ {"overlaps", "faults", "crashes"} : Called(kind)
  BY <1>6 DEF RunQa, CountNames
<1>7. ASSUME NEW p \in Requests, Step(p)
      PROVE  UNCHANGED count
  BY <1>7 DEF Step, CreateRevision, RejectRevision, ApproveRevision, Promote, CommitMedia,
              CreateRelation, CreateRelease, WriteFile, Commit, ReadHistory, Rebuild
<1>8. CASE StartUp \/ UNCHANGED vars
  BY <1>1, <1>8 DEF StartUp, vars
<1> QED
  BY <1>1, <1>2, <1>3, <1>4, <1>5, <1>6, <1>7, <1>8 DEF Next

-----------------------------------------------------------------------------
(* One request after another *)

\* The one request that runs, and what holds while it does.
Alone(p) ==
    /\ Calm /\ FilesSound(Len(made), files)
    /\ DOMAIN db.status \subseteq files.revisions /\ db.reviews \subseteq files.reviews
    /\ \A q \in Requests \ {p} : ~Running(q)
    /\ Progress(p)

\* Who runs, runs alone.
LEMMA RunsAlone ==
    ASSUME CalmInv, Calm, NEW p \in Requests, Running(p)
    PROVE  Alone(p)
BY DEF CalmInv, Alone

\* It has begun or goes on.
LEMMA CalmGoesOn ==
    ASSUME NEW p \in Requests, MovesOnly(p), \A q \in Requests \ {p} : ~Running(q),
           FilesSound(Len(made), files)', (DOMAIN db.status \subseteq files.revisions)',
           (db.reviews \subseteq files.reviews)', Progress(p)', Running(p)'
    PROVE  CalmInv'
<1>1. \A q \in Requests \ {p} : ~Running(q)'
  BY DEF MovesOnly, Running
<1> QED
  BY <1>1 DEF CalmInv, Quiet

\* It ends, and nothing is left to write.
LEMMA CalmEnds ==
    ASSUME IInv, NEW p \in Requests, req' = [req EXCEPT ![p] = Idle],
           \A q \in Requests \ {p} : ~Running(q),
           FilesSound(Len(made), files)', AtRest(files, db)'
    PROVE  CalmInv'
<1>1. \A q \in Requests : ~Running(q)'
  BY DEF IInv, RequestInv, Running, Idle
<1>2. (DOMAIN db.status \subseteq files.revisions)' /\ (db.reviews \subseteq files.reviews)'
  BY DEF AtRest
<1>3. Sound(Len(made), files, <<>>, db)'
  <2>1. \A n, f, rows : AtRest(f, rows) => Sound(n, f, <<>>, rows)
    BY RestIsSound
  <2> QED
    BY <2>1
<1> QED
  BY <1>1, <1>2, <1>3 DEF CalmInv

\* A request that begins finds files and rows at rest.
LEMMA CalmBegin ==
    ASSUME IInv, CalmInv, CountInv, NEW p \in Requests, NEW request, DOMAIN request = RequestNames,
           NEW kind \in CountNames \ {"overlaps", "faults", "crashes"}, Begin(p, request, kind),
           UNCHANGED <<made, files, db, up>>, Calm',
           request.pc \in {"read", "promote", "history"}, request.rows = None,
           request.op \in Reviewing =>
              request.revision \in DOMAIN db.status /\ db.status[request.revision] = "pending",
           request.op = "approve" => request.asset \notin Media,
           request.pc = "history" => request.data = files
    PROVE  CalmInv'
<1>1. Calm /\ up /\ \A q \in Requests : ~Running(q)
  BY CountCalled DEF Begin, Called
<1>2. /\ Sound(Len(made), files, <<>>, db)
      /\ FilesSound(Len(made), files)
      /\ DOMAIN db.status \subseteq files.revisions /\ db.reviews \subseteq files.reviews
  BY <1>1 DEF CalmInv, Quiet
<1>3. /\ MovesOnly(p) /\ req'[p].view = db /\ req'[p].pc = request.pc /\ req'[p].op = request.op
      /\ req'[p].rows = None /\ req'[p].revision = request.revision
      /\ req'[p].asset = request.asset /\ req'[p].data = request.data
  BY BeginMoves DEF RequestNames
<1>4. Progress(p)' /\ Running(p)'
  BY <1>1, <1>2, <1>3 DEF Progress, Running, Read
<1> QED
  BY <1>1, <1>2, <1>3, <1>4, CalmGoesOn

\* Every start.
LEMMA CalmStarts ==
    ASSUME IInv, CalmInv, CountInv, Calm', NEW p \in Requests
    PROVE  /\ \A a \in Assets : StartCreate(p, a) => CalmInv'
           /\ \A r \in DOMAIN db.status, v \in {"approve", "reject"} : StartReview(p, r, v) => CalmInv'
           /\ \A rel \in Relations : StartRelate(p, rel) => CalmInv'
           /\ \A asked \in SUBSET Assets : StartRelease(p, asked) => CalmInv'
           /\ StartScan(p) => CalmInv'
<1>1. ASSUME NEW a \in Assets, StartCreate(p, a) PROVE CalmInv'
  <2> DEFINE r == [Idle EXCEPT !.op = "create", !.pc = "read", !.asset = a]
  <2>1. DOMAIN r = RequestNames /\ r.rows = None /\ r.pc = "read" /\ r.op = "create"
    BY DEF Idle, RequestNames
  <2>2. Begin(p, r, "revisions") /\ UNCHANGED <<made, files, db, up>>
    BY <1>1 DEF StartCreate
  <2> HIDE DEF r
  <2> QED
    BY <2>1, <2>2, CalmBegin DEF Reviewing, CountNames
<1>2. ASSUME NEW r \in DOMAIN db.status, NEW v \in {"approve", "reject"}, StartReview(p, r, v)
      PROVE  CalmInv'
  <2> DEFINE media == v = "approve" /\ AssetOf(r) \in Media
             q == [Idle EXCEPT !.op = IF media THEN "approve_media" ELSE v,
                               !.pc = IF media THEN "promote" ELSE "read",
                               !.asset = AssetOf(r), !.revision = r]
  <2>1. /\ DOMAIN q = RequestNames /\ q.rows = None /\ q.pc \in {"promote", "read"}
        /\ q.asset = AssetOf(r) /\ q.revision = r
        /\ q.op = "approve" => AssetOf(r) \notin Media
    BY DEF Idle, RequestNames
  <2>2. Begin(p, q, "reviews") /\ UNCHANGED <<made, files, db, up>> /\ db.status[r] = "pending"
    BY <1>2 DEF StartReview
  <2> HIDE DEF q
  <2> QED
    BY <2>1, <2>2, CalmBegin DEF CountNames
<1>3. ASSUME NEW rel \in Relations, StartRelate(p, rel) PROVE CalmInv'
  <2> DEFINE r == [Idle EXCEPT !.op = "relate", !.pc = "read", !.data = rel]
  <2>1. DOMAIN r = RequestNames /\ r.rows = None /\ r.pc = "read" /\ r.op = "relate"
    BY DEF Idle, RequestNames
  <2>2. Begin(p, r, "relations") /\ UNCHANGED <<made, files, db, up>>
    BY <1>3 DEF StartRelate
  <2> HIDE DEF r
  <2> QED
    BY <2>1, <2>2, CalmBegin DEF Reviewing, CountNames
<1>4. ASSUME NEW asked \in SUBSET Assets, StartRelease(p, asked) PROVE CalmInv'
  <2> DEFINE r == [Idle EXCEPT !.op = "release", !.pc = "read", !.asked = asked]
  <2>1. DOMAIN r = RequestNames /\ r.rows = None /\ r.pc = "read" /\ r.op = "release"
    BY DEF Idle, RequestNames
  <2>2. Begin(p, r, "releases") /\ UNCHANGED <<made, files, db, up>>
    BY <1>4 DEF StartRelease
  <2> HIDE DEF r
  <2> QED
    BY <2>1, <2>2, CalmBegin DEF Reviewing, CountNames
<1>5. ASSUME StartScan(p) PROVE CalmInv'
  <2> DEFINE r == [Idle EXCEPT !.op = "scan", !.pc = "history", !.data = files]
  <2>1. DOMAIN r = RequestNames /\ r.rows = None /\ r.pc = "history" /\ r.op = "scan" /\ r.data = files
    BY DEF Idle, RequestNames
  <2>2. Begin(p, r, "scans") /\ UNCHANGED <<made, files, db, up>>
    BY <1>5 DEF StartScan
  <2> HIDE DEF r
  <2> QED
    BY <2>1, <2>2, CalmBegin DEF Reviewing, CountNames
<1> QED
  BY <1>1, <1>2, <1>3, <1>4, <1>5

\* A running request works on the rows there are.
LEMMA SameRows ==
    ASSUME NEW p, Progress(p)
    PROVE  ~SameSequence(p)
BY DEF Progress, SameSequence

\* A file is written.
LEMMA CalmWriteFile ==
    ASSUME IInv, TypeInv, NEW p \in Requests, Alone(p), WriteFile(p)
    PROVE  CalmInv'
<1> DEFINE todo == req[p].todo
           n == Len(made)
           goesOn == Transaction(p) /\ Tail(todo) # <<>>
           saved == IF ~goesOn THEN None ELSE IF req[p].locked THEN req[p].saved ELSE files
<1>1. /\ req[p].pc = "files" /\ todo # <<>> /\ files' = Written(Head(todo))
      /\ req' = [req EXCEPT ![p].todo = Tail(@), ![p].locked = goesOn, ![p].saved = saved]
      /\ UNCHANGED <<made, db, up, count>>
  BY DEF WriteFile
<1>2. /\ n \in Nat /\ GoodFiles(files) /\ TypedFiles(n, files) /\ GoodTodo(todo)
      /\ \A e \in Range(todo) : TypedEntry(n, e)
  BY LenProperties DEF IInv, FilesInv, RequestInv, GoodRequest, TypeInv, TypedRequest
<1>3. FilesSound(n, files) /\ Sound(n, files, todo, Outcome(p))
  BY <1>1 DEF Alone, Progress
<1>4. /\ MovesOnly(p)
      /\ req'[p].todo = Tail(todo) /\ req'[p].pc = "files" /\ req'[p].op = req[p].op
      /\ req'[p].rows = req[p].rows /\ req'[p].view = req[p].view /\ req'[p].data = req[p].data
      /\ req'[p].asset = req[p].asset /\ req'[p].revision = req[p].revision
  <2> HIDE DEF goesOn, saved, todo
  <2>1. todo = req[p].todo
    BY DEF todo
  <2> QED
    BY <1>1, <2>1 DEF MovesOnly, IInv, RequestInv, GoodRequest, RequestNames
<1>5. Outcome(p)' = Outcome(p)
  <2>1. MediaRows(p)' = MediaRows(p)
    <3>1. \A x, S : Invalidate(x, S)' = Invalidate(x, S)
      BY <1>1 DEF Invalidate, AssetOf
    <3>2. \A x, b : BlockDependents(x, b)' = BlockDependents(x, b)
      BY <3>1 DEF BlockDependents
    <3>3. db' = db
      BY <1>1
    <3> QED
      BY <1>4, <3>1, <3>2, <3>3 DEF MediaRows
  <2> QED
    BY <1>4, <2>1 DEF Outcome
<1> HIDE DEF todo, n, goesOn, saved
<1>6. /\ FilesSound(n, files') /\ Sound(n, files', Tail(todo), Outcome(p))
      /\ files.revisions \subseteq files'.revisions /\ files.reviews \subseteq files'.reviews
  BY <1>1, <1>2, <1>3, WriteKeepsSound
<1>7. (DOMAIN db.status \subseteq files.revisions)' /\ (db.reviews \subseteq files.reviews)'
  BY <1>1, <1>6 DEF Alone
<1>8. Len(made)' = n
  BY <1>1 DEF n
<1>9. Progress(p)'
  BY <1>1, <1>4, <1>5, <1>6, <1>8 DEF Alone, Progress
<1>10. FilesSound(Len(made), files)'
  BY <1>6, <1>8
<1>11. Running(p)' /\ \A q \in Requests \ {p} : ~Running(q)
  BY <1>4 DEF Running, Alone
<1> QED
  BY <1>4, <1>7, <1>9, <1>10, <1>11, CalmGoesOn

\* The last file is written and the rows are committed.
LEMMA CalmCommit ==
    ASSUME IInv, NEW p \in Requests, Alone(p), Commit(p) \/ CommitMedia(p)
    PROVE  CalmInv'
<1>1. /\ req[p].todo = <<>> /\ req[p].pc = "files" /\ db' = Outcome(p)
      /\ req' = [req EXCEPT ![p] = Idle] /\ UNCHANGED <<made, files>>
  <2>1. CASE Commit(p)
    BY <2>1 DEF Commit, IInv, RequestInv, GoodRequest, Alone, Progress, Outcome
  <2>2. CASE CommitMedia(p)
    BY <2>2, SameRows DEF CommitMedia, Alone, Outcome, MediaRows
  <2> QED
    BY <2>1, <2>2
<1>2. Sound(Len(made), files, <<>>, db')
  BY <1>1 DEF Alone, Progress
<1>3. AtRest(files, db')
  BY <1>2, RestIsSound
<1> QED
  BY <1>1, <1>3, CalmEnds DEF Alone

\* A scan reads the history: the same files as before.
LEMMA CalmReadHistory ==
    ASSUME IInv, NEW p \in Requests, Alone(p), ReadHistory(p)
    PROVE  CalmInv'
<1> DEFINE data == [files EXCEPT !.catalog = req[p].data.catalog,
                                 !.superseded = req[p].data.superseded,
                                 !.relations = req[p].data.relations]
<1>1. /\ req[p].pc = "history" /\ UNCHANGED <<made, files, db, up, count>>
      /\ req' = [req EXCEPT ![p].pc = "rebuild", ![p].data = data]
  BY DEF ReadHistory
<1>2. Read(data)
  BY <1>1 DEF IInv, FilesInv, GoodFiles, FileNames, Alone, Progress, Read
<1> HIDE DEF data
<1>3. /\ MovesOnly(p)
      /\ req'[p].pc = "rebuild" /\ req'[p].data = data
      /\ req'[p].op = req[p].op /\ req'[p].rows = req[p].rows /\ req'[p].view = req[p].view
      /\ req'[p].asset = req[p].asset /\ req'[p].revision = req[p].revision
  BY <1>1 DEF MovesOnly, IInv, RequestInv, GoodRequest, RequestNames
<1>4. Progress(p)' /\ Running(p)'
  BY <1>1, <1>2, <1>3 DEF Alone, Progress, Running, Read
<1> QED
  BY <1>1, <1>3, <1>4, CalmGoesOn DEF Alone

\* It replaces the rows by what it read.
LEMMA CalmRebuild ==
    ASSUME IInv, TypeInv, NEW p \in Requests, Alone(p), Rebuild(p)
    PROVE  CalmInv'
<1> DEFINE data == req[p].data
           n == Len(made)
<1>1. /\ req[p].pc = "rebuild" /\ db' = Rebuilt(data, db)
      /\ req' = [req EXCEPT ![p] = Idle] /\ UNCHANGED <<made, files>>
  BY DEF Rebuild
<1>2. n \in Nat /\ GoodFiles(data) /\ TypedFiles(n, data)
  BY <1>1, LenProperties DEF IInv, RequestInv, GoodRequest, TypeInv, TypedRequest
<1>3. Read(data) /\ FilesSound(n, files)
  BY <1>1 DEF Alone, Progress
<1> HIDE DEF data, n
<1>4. FilesSound(n, data)
  BY <1>3, FilesFrame DEF Read
<1>5. AtRest(data, db')
  BY <1>1, <1>2, <1>3, <1>4, RebuiltRests DEF Alone, Read
<1>6. AtRest(files, db')
  BY <1>3, <1>5, RestFrame DEF Read
<1> QED
  BY <1>1, <1>6, CalmEnds DEF Alone

\* A scan at the next start, of the files a death has left.
LEMMA CalmCrash ==
    ASSUME IInv, TypeInv, CalmInv, Calm, Crash \/ StartUp
    PROVE  CalmInv'
<1>1. CASE Crash
  BY <1>1 DEF Crash, CalmInv, Running, Idle, Quiet
<1>2. CASE StartUp
  <2> DEFINE n == Len(made)
  <2>1. ~up /\ db' = Rebuilt(files, db) /\ UNCHANGED <<made, files, req>>
    BY <1>2 DEF StartUp
  <2>2. \A p \in Requests : ~Running(p)
    BY <2>1 DEF CalmInv, Progress
  <2>3. n \in Nat /\ GoodFiles(files) /\ TypedFiles(n, files) /\ FilesSound(n, files)
    BY LenProperties DEF IInv, FilesInv, TypeInv, CalmInv
  <2> HIDE DEF n
  <2>4. AtRest(files, db')
    BY <2>1, <2>3, RebuiltRests DEF CalmInv
  <2>5. Sound(n, files, <<>>, db')
    BY <2>4, RestIsSound
  <2>6. DOMAIN db'.status \subseteq files.revisions /\ db'.reviews \subseteq files.reviews
    BY <2>4 DEF AtRest
  <2>7. \A p \in Requests : ~Running(p)'
    BY <2>1, <2>2 DEF Running
  <2> QED
    BY <2>1, <2>3, <2>5, <2>6, <2>7 DEF CalmInv, n
<1> QED
  BY <1>1, <1>2

\* QA decides nothing about reviews, files or what is current.
LEMMA CalmRunQa ==
    ASSUME IInv, CalmInv, CountInv, Calm', NEW r, RunQa(r)
    PROVE  CalmInv'
<1>1. PICK new, old \in {{}, {r}} :
          /\ db' = [db EXCEPT !.passed = (@ \cup new) \ old]
          /\ files' = [files EXCEPT !.passed = (@ \cup new) \ old]
  BY DEF RunQa
<1>2. /\ db'.asset = db.asset /\ db'.status = db.status /\ db'.reviews = db.reviews
      /\ files'.catalog = files.catalog /\ files'.superseded = files.superseded
      /\ files'.revisions = files.revisions /\ files'.reviews = files.reviews
      /\ files'.manifests = files.manifests
  BY <1>1 DEF IInv, RowsInv, FilesInv, GoodRows, GoodFiles, RowNames, FileNames
<1>3. /\ UNCHANGED <<made, req, up>> /\ Calm /\ up /\ \A q \in Requests : ~Running(q)
  <2>1. "qa" \in CountNames \ {"overlaps", "faults", "crashes"}
    BY DEF CountNames
  <2>2. Called("qa") /\ UNCHANGED <<made, req, up>>
    BY DEF RunQa
  <2>3. Calm /\ \A q \in Requests : ~Running(q)
    BY <2>1, <2>2, CountCalled
  <2> QED
    BY <2>2, <2>3 DEF Called
<1>4. FilesSound(Len(made), files) /\ AtRest(files, db)
  BY <1>3, RestIsSound DEF CalmInv, Quiet
<1>5. FilesSound(Len(made), files') /\ AtRest(files', db')
  BY <1>2, <1>4, RestFrame, FilesFrame
<1>6. Sound(Len(made), files', <<>>, db')
  BY <1>5, RestIsSound
<1>7. DOMAIN db'.status \subseteq files'.revisions /\ db'.reviews \subseteq files'.reviews
  BY <1>5 DEF AtRest
<1>8. \A q \in Requests : ~Running(q)'
  BY <1>3 DEF Running
<1> QED
  BY <1>3, <1>5, <1>6, <1>7, <1>8 DEF CalmInv

\* The first state is calm and at rest.
LEMMA CalmInit ==
    ASSUME Init
    PROVE  CountInv /\ CalmInv
<1>1. CountInv
  BY DEF Init, CountInv
<1>2. \A q \in Requests : ~Running(q)
  BY DEF Init, Running, Idle
<1>3. FilesSound(Len(made), files) /\ AtRest(files, db)
  BY DEF Init, NewFiles, NewRows, NewAsset, FilesSound, AtRest
<1>4. Sound(Len(made), files, <<>>, db)
  BY <1>3, RestIsSound
<1> QED
  BY <1>1, <1>2, <1>3, <1>4 DEF CalmInv, AtRest

-----------------------------------------------------------------------------
(* What is still to be written is sound *)

LEMMA CalmHold ==
    ASSUME IInv, NEW p \in Requests, Alone(p), NEW rows, NEW todo, Hold(p, rows, todo),
           req[p].op # "approve_media", FilesSound(Len(made'), files), Sound(Len(made'), files, todo, rows)
    PROVE  CalmInv'
<1>1. /\ MovesOnly(p) /\ UNCHANGED <<files, db, up>>
      /\ req'[p].pc = "files" /\ req'[p].rows = rows /\ req'[p].todo = todo
      /\ req'[p].view = req[p].view /\ req'[p].op = req[p].op
  BY HoldMoves DEF RequestNames
<1>2. Progress(p)' /\ Running(p)'
  BY <1>1 DEF Alone, Progress, Running, Outcome
<1> QED
  BY <1>1, <1>2, CalmGoesOn DEF Alone

\* Before it holds the lock a request sees files and rows that are at rest.
LEMMA ReadAtRest ==
    ASSUME NEW p \in Requests, Alone(p), req[p].pc # "files"
    PROVE  /\ AtRest(files, db) /\ FilesSound(Len(made), files) /\ req[p].view = db
           /\ req[p].op \in Reviewing =>
                 req[p].revision \in DOMAIN db.status /\ db.status[req[p].revision] = "pending"
           /\ req[p].op = "approve" => req[p].asset \notin Media
BY RestIsSound DEF Alone, Progress

\* It assigns to the row that it has read.
LEMMA AssignOwn ==
    ASSUME NEW rows, GoodRows(rows), GoodCatalog(rows.asset), NEW view, view.asset = rows.asset,
           NEW a \in Assets, NEW new
    PROVE  /\ Assign(rows, view, a, new).status = rows.status
           /\ Assign(rows, view, a, new).reviews = rows.reviews
           /\ \A b \in Assets :
                 /\ Assign(rows, view, a, new).asset[b].current =
                       IF b = a /\ "current" \in DOMAIN new THEN new.current
                       ELSE rows.asset[b].current
                 /\ Assign(rows, view, a, new).asset[b].publication =
                       IF b = a /\ "publication" \in DOMAIN new THEN new.publication
                       ELSE rows.asset[b].publication
<1> DEFINE x == Assign(rows, view, a, new)
           row == Flush(rows.asset[a], rows.asset[a], new)
<1>1. /\ x.status = rows.status /\ x.reviews = rows.reviews
      /\ x.asset = [rows.asset EXCEPT ![a] = row]
  BY DEF Assign, GoodRows, RowNames
<1>2. /\ row.current = IF "current" \in DOMAIN new THEN new.current ELSE rows.asset[a].current
      /\ row.publication = IF "publication" \in DOMAIN new THEN new.publication
                           ELSE rows.asset[a].publication
  BY DEF Flush, GoodCatalog, GoodAsset, AssetFields
<1> HIDE DEF x, row
<1>3. \A b \in Assets : x.asset[b] = IF b = a THEN row ELSE rows.asset[b]
  BY <1>1 DEF GoodCatalog
<1>4. ASSUME NEW b \in Assets
      PROVE  /\ x.asset[b].current = IF b = a /\ "current" \in DOMAIN new THEN new.current
                                     ELSE rows.asset[b].current
             /\ x.asset[b].publication = IF b = a /\ "publication" \in DOMAIN new
                                         THEN new.publication ELSE rows.asset[b].publication
  BY <1>2, <1>3
<1> QED
  BY <1>1, <1>4 DEF x

\* The catalog it writes has the fields of its row.
LEMMA UpdatedOwn ==
    ASSUME NEW row, GoodAsset(row), NEW new
    PROVE  /\ "current" \in DOMAIN Updated(row, new) /\ "publication" \in DOMAIN Updated(row, new)
           /\ Updated(row, new).current =
                 IF "current" \in DOMAIN new THEN new.current ELSE row.current
           /\ Updated(row, new).publication =
                 IF "publication" \in DOMAIN new THEN new.publication ELSE row.publication
BY DEF Updated, GoodAsset, AssetFields

\* Two files.
LEMMA TwoBy ==
    ASSUME NEW f, NEW e, NEW g, NEW todo, todo = <<e, g>>
    PROVE  /\ Len(todo) = 2 /\ todo[1] = e /\ todo[2] = g
           /\ \A r : RevisionBy(f, todo, 3, r) <=>
                 \/ r \in f.revisions
                 \/ e.file = "revision" /\ e.revision = r
                 \/ g.file = "revision" /\ g.revision = r
           /\ \A v : ReviewBy(f, todo, 3, v) <=>
                 \/ v \in f.reviews
                 \/ e.file = "review" /\ e.review = v
                 \/ g.file = "review" /\ g.review = v
           /\ \A r : RevisionBy(f, todo, 2, r) <=>
                 r \in f.revisions \/ (e.file = "revision" /\ e.revision = r)
           /\ \A r : ApprovedBy(f, todo, 2, r) <=>
                 \/ \E v \in f.reviews : Approves(v, r)
                 \/ e.file = "review" /\ Approves(e.review, r)
           /\ \A a, r : (\E m \in f.manifests : Releases(m, a, r)) =>
                 ReleasedBy(f, todo, 2, a, r) /\ ReleasedBy(f, todo, 3, a, r)
           /\ \A r : Superseding(f, todo, r) <=>
                 \/ r \in f.superseded
                 \/ e.file = "catalog" /\ r \in e.superseded
                 \/ g.file = "catalog" /\ r \in g.superseded
           /\ \A r : Reviewed(f, todo, r) <=>
                 \/ \E v \in f.reviews : v.revision = r
                 \/ e.file = "review" /\ e.review.revision = r
                 \/ g.file = "review" /\ g.review.revision = r
<1>1. Len(todo) = 2 /\ todo[1] = e /\ todo[2] = g
  OBVIOUS
<1>2. (\A i : i \in 1 .. 3 - 1 <=> i = 1 \/ i = 2) /\ (\A i : i \in 1 .. 2 - 1 <=> i = 1)
  OBVIOUS
<1>3. \A i : i \in 1 .. Len(todo) <=> i = 1 \/ i = 2
  BY <1>1
<1>4. \A r : RevisionBy(f, todo, 3, r) <=>
         \/ r \in f.revisions
         \/ e.file = "revision" /\ e.revision = r
         \/ g.file = "revision" /\ g.revision = r
  BY <1>1, <1>2 DEF RevisionBy
<1>5. \A v : ReviewBy(f, todo, 3, v) <=>
         \/ v \in f.reviews
         \/ e.file = "review" /\ e.review = v
         \/ g.file = "review" /\ g.review = v
  BY <1>1, <1>2 DEF ReviewBy
<1>6. \A r : RevisionBy(f, todo, 2, r) <=>
         r \in f.revisions \/ (e.file = "revision" /\ e.revision = r)
  BY <1>1, <1>2 DEF RevisionBy
<1>7. \A r : ApprovedBy(f, todo, 2, r) <=>
         \/ \E v \in f.reviews : Approves(v, r)
         \/ e.file = "review" /\ Approves(e.review, r)
  BY <1>1, <1>2 DEF ApprovedBy
<1>8. \A a, r : (\E m \in f.manifests : Releases(m, a, r)) =>
         ReleasedBy(f, todo, 2, a, r) /\ ReleasedBy(f, todo, 3, a, r)
  BY DEF ReleasedBy
<1>9. \A r : Superseding(f, todo, r) <=>
         \/ r \in f.superseded
         \/ e.file = "catalog" /\ r \in e.superseded
         \/ g.file = "catalog" /\ r \in g.superseded
  BY <1>1, <1>3 DEF Superseding
<1>10. \A r : Reviewed(f, todo, r) <=>
         \/ \E v \in f.reviews : v.revision = r
         \/ e.file = "review" /\ e.review.revision = r
         \/ g.file = "review" /\ g.review.revision = r
  BY <1>1, <1>3 DEF Reviewed
<1> QED
  BY <1>1, <1>4, <1>5, <1>6, <1>7, <1>8, <1>9, <1>10

\* A candidate: the pending ones are superseded.
LEMMA CalmCreateRevision ==
    ASSUME IInv, TypeInv, NEW p \in Requests, Alone(p), CreateRevision(p)
    PROVE  CalmInv'
<1> DEFINE a == req[p].asset
           n == Len(made)
           r == n + 1
           old == Pending(db, a)
           new == IF db.asset[a].current = None
                  THEN [candidate |-> r, content |-> "candidate", publication |-> "unpublished"]
                  ELSE [candidate |-> r]
           assigned == Assign(db, db, a, new)
           status == [x \in old \cup {r} |-> IF x = r THEN "pending" ELSE "superseded"]
           rows == [assigned EXCEPT !.status = Updated(@, status)]
           first == [file |-> "revision", revision |-> r]
           fields == [candidate |-> r]
           last == InCatalog(a, fields, old)
           todo == <<first, last>>
<1>1. /\ AtRest(files, db) /\ FilesSound(n, files) /\ req[p].view = db
      /\ ~SameSequence(p) /\ req[p].op = "create"
  BY ReadAtRest, SameRows DEF CreateRevision, Alone
<1>2. Hold(p, rows, todo) /\ made' = Append(made, a)
  BY <1>1 DEF CreateRevision
<1>3. a \in Assets /\ GoodRows(db) /\ TypedRows(n, db)
  BY <1>1 DEF IInv, RowsInv, TypeInv, TypedRequest
<1>4. n \in Nat /\ Len(made') = r
  BY <1>2, <1>3, MadeGrows
<1>5. /\ assigned.status = db.status /\ assigned.reviews = db.reviews /\ GoodRows(assigned)
      /\ \A b \in Assets :
            /\ assigned.asset[b].current = db.asset[b].current
            /\ assigned.asset[b].publication = "published" => db.asset[b].publication = "published"
  <2>1. /\ "current" \notin DOMAIN new
        /\ "publication" \in DOMAIN new => new.publication = "unpublished"
    OBVIOUS
  <2> HIDE DEF new, r
  <2>2. assigned.status = db.status /\ assigned.reviews = db.reviews /\ GoodRows(assigned)
    BY <1>3, AssignOwn, GoodAssign DEF TypedRows
  <2> HIDE DEF a
  <2>3. \A b \in Assets :
           /\ assigned.asset[b].current =
                 IF b = a /\ "current" \in DOMAIN new THEN new.current ELSE db.asset[b].current
           /\ assigned.asset[b].publication =
                 IF b = a /\ "publication" \in DOMAIN new THEN new.publication
                 ELSE db.asset[b].publication
    <3>1. GoodCatalog(db.asset)
      BY <1>3 DEF TypedRows
    <3> QED
      BY <1>3, <3>1, AssignOwn
  <2> HIDE DEF assigned
  <2> QED
    BY <2>1, <2>2, <2>3
<1>6. /\ rows.asset = assigned.asset /\ rows.reviews = db.reviews
      /\ rows.status = Updated(db.status, status)
  <2> HIDE DEF assigned, status
  <2> QED
    BY <1>5 DEF GoodRows, RowNames
<1>7. old \subseteq 1 .. r /\ \A x \in old : x \in DOMAIN db.status /\ db.status[x] = "pending"
  BY <1>1, <1>3, <1>4 DEF Pending, AtRest, TypedRows, Numbers
<1>8. /\ DOMAIN rows.status = DOMAIN db.status \cup {r}
      /\ rows.status[r] = "pending"
      /\ \A x \in DOMAIN db.status : x # r
      /\ \A x \in old : rows.status[x] = "superseded"
      /\ \A x \in DOMAIN db.status \ old : rows.status[x] = db.status[x]
  <2>1. \A x \in DOMAIN db.status : x # r
    BY <1>3, <1>4 DEF TypedRows, Numbers
  <2>2. DOMAIN status = old \cup {r} /\ status[r] = "pending" /\ \A x \in old : x # r /\ status[x] = "superseded"
    BY <1>7, <2>1
  <2> HIDE DEF rows, status, old, r
  <2> QED
    BY <1>6, <1>7, <2>1, <2>2 DEF Updated
<1>9. /\ first.file = "revision" /\ first.revision = r
      /\ last.file = "catalog" /\ last.asset = a /\ last.superseded = old
      /\ "current" \notin DOMAIN last.fields /\ "publication" \notin DOMAIN last.fields
  BY DEF InCatalog
<1> HIDE DEF rows, status, assigned, new, fields, first, last, a
<1>10. /\ Len(todo) = 2 /\ todo[1] = first /\ todo[2] = last
       /\ \A x : RevisionBy(files, todo, 3, x) <=> x \in files.revisions \/ x = r
       /\ \A v : ReviewBy(files, todo, 3, v) <=> v \in files.reviews
       /\ \A b, x : (\E m \in files.manifests : Releases(m, b, x)) => ReleasedBy(files, todo, 3, b, x)
       /\ \A x : Superseding(files, todo, x) <=> x \in files.superseded \/ x \in old
       /\ \A x : Reviewed(files, todo, x) <=> \E v \in files.reviews : v.revision = x
  <2>1. todo = <<first, last>>
    OBVIOUS
  <2> HIDE DEF r, old, todo
  <2> QED
    BY <1>9, <2>1, TwoBy
<1> HIDE DEF todo, old
<1>11. FilesSound(r, files)
  BY <1>1, <1>4, FilesGrow
<1>12. \A b \in Assets : LET x == db.asset[b].current
                         IN  x # None => x \in DOMAIN db.status \ old /\ db.status[x] = "approved"
  BY <1>1, <1>7 DEF AtRest
<1>13. RowsSound(files, todo, rows)
  <2>1. ASSUME NEW b \in Assets, NEW x, x = rows.asset[b].current
        PROVE  /\ x # None => /\ x \in DOMAIN rows.status /\ rows.status[x] = "approved"
                              /\ \E v \in rows.reviews : Approves(v, x)
               /\ rows.asset[b].publication = "published" => ReleasedBy(files, todo, Len(todo) + 1, b, x)
    BY <1>1, <1>5, <1>6, <1>8, <1>10, <1>12, <2>1 DEF AtRest
  <2>2. ASSUME NEW x \in DOMAIN rows.status
        PROVE  /\ RevisionBy(files, todo, Len(todo) + 1, x)
               /\ rows.status[x] = "pending" =>
                     x > 0 /\ ~Superseding(files, todo, x) /\ ~Reviewed(files, todo, x)
    <3>1. CASE x = r
      <4>1. r > 0 /\ r \notin files.superseded /\ r \notin Numbers(n)
        BY <1>1, <1>4 DEF FilesSound, Numbers
      <4>2. r \notin old /\ \A v \in files.reviews : v.revision # r
        BY <1>1, <1>7, <1>8, <4>1 DEF FilesSound, GoodReview
      <4> QED
        BY <1>10, <3>1, <4>1, <4>2
    <3>2. CASE x # r
      BY <1>1, <1>8, <1>10, <3>2 DEF AtRest
    <3> QED
      BY <3>1, <3>2
  <2>3. \A v \in rows.reviews : ReviewBy(files, todo, Len(todo) + 1, v)
    BY <1>1, <1>6, <1>10 DEF AtRest
  <2> QED
    BY <2>1, <2>2, <2>3 DEF RowsSound
<1>14. TodoSound(r, files, todo, rows)
  <2>1. \A k \in 1 .. Len(todo) : k = 1 \/ k = 2
    BY <1>10
  <2>2. CatalogSound(r, files, todo, rows, 2, last)
    BY <1>3, <1>7, <1>9 DEF CatalogSound
  <2>3. \A k \in 1 .. Len(todo) :
            /\ todo[k].file = "review" => ReviewSound(r, files, todo, todo[k].review)
            /\ todo[k].file = "catalog" => CatalogSound(r, files, todo, rows, k, todo[k])
    BY <1>9, <1>10, <2>1, <2>2
  <2>4. \A k \in 1 .. Len(todo) : ~HasCurrent(todo[k])
    BY <1>9, <1>10, <2>1 DEF HasCurrent
  <2>5. \A b \in Assets : LET x == files.catalog[b].current
                          IN  /\ x = rows.asset[b].current
                              /\ x # None => ~Superseding(files, todo, x)
    BY <1>1, <1>5, <1>6, <1>10, <1>12 DEF AtRest
  <2> QED
    BY <2>3, <2>4, <2>5 DEF TodoSound
<1> HIDE DEF r
<1> QED
  BY <1>1, <1>2, <1>4, <1>11, <1>13, <1>14, CalmHold DEF Sound

\* A pending revision is decided: its review, and then the catalog.
LEMMA DecisionSound ==
    ASSUME NEW n \in Nat, FilesSound(n, files), AtRest(files, db), TypedRows(n, db),
           NEW a \in Assets, NEW r \in DOMAIN db.status, db.status[r] = "pending",
           NEW review, review.revision = r,
           NEW fields, "current" \in DOMAIN fields, "publication" \in DOMAIN fields,
           NEW rows, DOMAIN rows.status = DOMAIN db.status,
           \A x \in DOMAIN db.status \ {r} : rows.status[x] = db.status[x],
           rows.status[r] # "pending",
           rows.reviews = db.reviews \cup {review},
           \A b \in Assets \ {a} : rows.asset[b].current = db.asset[b].current,
           \A b \in Assets : rows.asset[b].publication = "published" =>
                 /\ db.asset[b].publication = "published"
                 /\ rows.asset[b].current = db.asset[b].current,
           fields.current = rows.asset[a].current,
           \/ fields.current = db.asset[a].current
           \/ fields.current = r /\ review.verdict = "approve" /\ rows.status[r] = "approved",
           fields.publication = "published" =>
                 /\ db.asset[a].publication = "published"
                 /\ fields.current = db.asset[a].current,
           NEW todo, todo = <<[file |-> "review", review |-> review], InCatalog(a, fields, {})>>
    PROVE  Sound(n, files, todo, rows)
<1> DEFINE first == [file |-> "review", review |-> review]
           last == InCatalog(a, fields, {})
<1>1. /\ first.file = "review" /\ first.review = review
      /\ last.file = "catalog" /\ last.asset = a /\ last.fields = fields /\ last.superseded = {}
      /\ todo = <<first, last>>
  BY DEF InCatalog
<1> HIDE DEF first, last
<1>2. /\ Len(todo) = 2 /\ todo[1] = first /\ todo[2] = last
      /\ \A x : RevisionBy(files, todo, 3, x) <=> x \in files.revisions
      /\ \A x : RevisionBy(files, todo, 2, x) <=> x \in files.revisions
      /\ \A v : ReviewBy(files, todo, 3, v) <=> v \in files.reviews \/ v = review
      /\ \A x : ApprovedBy(files, todo, 2, x) <=>
            (\E v \in files.reviews : Approves(v, x)) \/ Approves(review, x)
      /\ \A b, x : (\E m \in files.manifests : Releases(m, b, x)) =>
            ReleasedBy(files, todo, 2, b, x) /\ ReleasedBy(files, todo, 3, b, x)
      /\ \A x : Superseding(files, todo, x) <=> x \in files.superseded
      /\ \A x : Reviewed(files, todo, x) <=> (\E v \in files.reviews : v.revision = x) \/ x = r
  <2>1. /\ Len(todo) = 2 /\ todo[1] = first /\ todo[2] = last
        /\ \A x : RevisionBy(files, todo, 3, x) <=> x \in files.revisions
        /\ \A x : RevisionBy(files, todo, 2, x) <=> x \in files.revisions
        /\ \A x : Superseding(files, todo, x) <=> x \in files.superseded
    BY <1>1, TwoBy
  <2>2. \A x : Reviewed(files, todo, x) <=> (\E v \in files.reviews : v.revision = x) \/ x = r
    <3>1. Len(todo) = 2 /\ todo[1] = first /\ todo[2] = last /\ \A i \in 1 .. 2 : i = 1 \/ i = 2
      BY <1>1
    <3> QED
      BY <1>1, <3>1 DEF Reviewed
  <2>3. /\ \A x : ApprovedBy(files, todo, 2, x) <=>
              (\E v \in files.reviews : Approves(v, x)) \/ Approves(review, x)
        /\ \A b, x : (\E m \in files.manifests : Releases(m, b, x)) =>
              ReleasedBy(files, todo, 2, b, x) /\ ReleasedBy(files, todo, 3, b, x)
    BY <1>1, TwoBy
  <2>4. \A v : ReviewBy(files, todo, 3, v) <=> v \in files.reviews \/ v = review
    <3>1. \A v : ReviewBy(files, todo, 3, v) <=>
             \/ v \in files.reviews
             \/ first.file = "review" /\ first.review = v
             \/ last.file = "review" /\ last.review = v
      BY <1>1, TwoBy
    <3> QED
      BY <1>1, <3>1
  <2> QED
    BY <2>1, <2>2, <2>3, <2>4
<1>3. /\ r \in Numbers(n) /\ r > 0 /\ r \in files.revisions /\ r \notin files.superseded
      /\ \A v \in files.reviews : v.revision # r
  BY DEF AtRest, TypedRows
<1>4. \A b \in Assets : LET x == db.asset[b].current
                        IN  x # None => x \in DOMAIN db.status /\ x # r /\ db.status[x] = "approved"
  BY DEF AtRest
<1>5. RowsSound(files, todo, rows)
  <2>1. ASSUME NEW b \in Assets, NEW x, x = rows.asset[b].current
        PROVE  /\ x # None => /\ x \in DOMAIN rows.status /\ rows.status[x] = "approved"
                              /\ \E v \in rows.reviews : Approves(v, x)
               /\ rows.asset[b].publication = "published" => ReleasedBy(files, todo, Len(todo) + 1, b, x)
    <3>1. CASE x = db.asset[b].current
      BY <1>2, <1>4, <2>1, <3>1 DEF AtRest
    <3>2. CASE x # db.asset[b].current
      <4>1. b = a /\ x = r /\ review.verdict = "approve" /\ rows.status[r] = "approved"
        BY <2>1, <3>2
      <4>2. Approves(review, x)
        BY <4>1 DEF Approves
      <4> QED
        BY <2>1, <3>2, <4>1, <4>2
    <3> QED
      BY <3>1, <3>2
  <2>2. ASSUME NEW x \in DOMAIN rows.status
        PROVE  /\ RevisionBy(files, todo, Len(todo) + 1, x)
               /\ rows.status[x] = "pending" =>
                     x > 0 /\ ~Superseding(files, todo, x) /\ ~Reviewed(files, todo, x)
    BY <1>2, <1>3 DEF AtRest
  <2>3. \A v \in rows.reviews : ReviewBy(files, todo, Len(todo) + 1, v)
    BY <1>2 DEF AtRest
  <2> QED
    BY <2>1, <2>2, <2>3 DEF RowsSound
<1>6. \A k \in 1 .. Len(todo) : k = 1 \/ k = 2
  BY <1>2
<1>7. ReviewSound(n, files, todo, review)
  <2>1. GoodReview(n, review)
    BY <1>3 DEF GoodReview, Numbers
  <2>2. \A w \in files.reviews : Agree(review, w)
    BY <1>3 DEF Agree
  <2>3. \A i \in 1 .. Len(todo) : todo[i].file = "review" => Agree(review, todo[i].review)
    BY <1>1, <1>2, <1>6 DEF Agree
  <2> QED
    BY <2>1, <2>2, <2>3 DEF ReviewSound
<1>8. CatalogSound(n, files, todo, rows, 2, last)
  <2> DEFINE x == fields.current
  <2>1. ASSUME x # None
        PROVE  RevisionBy(files, todo, 2, x) /\ ApprovedBy(files, todo, 2, x) /\ ~Superseding(files, todo, x)
    <3>1. CASE x = db.asset[a].current
      BY <1>2, <2>1, <3>1 DEF AtRest
    <3>2. CASE x = r /\ review.verdict = "approve"
      BY <1>2, <1>3, <3>2 DEF Approves
    <3> QED
      BY <3>1, <3>2
  <2>2. ASSUME fields.publication = "published"
        PROVE  ReleasedBy(files, todo, 2, a, rows.asset[a].current)
    BY <1>2, <2>2 DEF AtRest
  <2> QED
    BY <1>1, <2>1, <2>2 DEF CatalogSound
<1>9. TodoSound(n, files, todo, rows)
  <2>1. \A k \in 1 .. Len(todo) :
            /\ todo[k].file = "review" => ReviewSound(n, files, todo, todo[k].review)
            /\ todo[k].file = "catalog" => CatalogSound(n, files, todo, rows, k, todo[k])
    BY <1>1, <1>2, <1>6, <1>7, <1>8
  <2>2. \A j, k \in 1 .. Len(todo) :
            todo[j].file = "catalog" /\ todo[k].file = "catalog" =>
                (HasCurrent(todo[j]) <=> HasCurrent(todo[k]))
    BY <1>1, <1>2, <1>6
  <2>3. ASSUME NEW b \in Assets, NEW x, x = files.catalog[b].current
        PROVE  /\ x # None => ~Superseding(files, todo, x)
               /\ x # rows.asset[b].current =>
                     \E k \in 1 .. Len(todo) : HasCurrent(todo[k]) /\ todo[k].asset = b
    <3>1. x = db.asset[b].current /\ (x # None => ~Superseding(files, todo, x))
      BY <1>2, <2>3 DEF AtRest
    <3>2. HasCurrent(todo[2]) /\ todo[2].asset = a /\ 2 \in 1 .. Len(todo)
      BY <1>1, <1>2 DEF HasCurrent
    <3> QED
      BY <3>1, <3>2
  <2> QED
    BY <2>1, <2>2, <2>3 DEF TodoSound
<1> QED
  BY <1>5, <1>9 DEF Sound

\* A rejection.
LEMMA CalmRejectRevision ==
    ASSUME IInv, TypeInv, NEW p \in Requests, Alone(p), RejectRevision(p)
    PROVE  CalmInv'
<1> DEFINE a == req[p].asset
           r == req[p].revision
           n == Len(made)
           review == Review(NextReview, r, "reject", Dependencies(db, a))
           decided == [Decide(Invalidate(db, {a}), review) EXCEPT !.status[r] = "rejected"]
           next == NewestPending(decided, a)
           new == IF db.asset[a].current = None
                  THEN [candidate |-> next, content |-> "rejected", publication |-> "blocked"]
                  ELSE [candidate |-> next]
           rows == Assign(decided, db, a, new)
           fields == Updated(db.asset[a], new)
           todo == <<[file |-> "review", review |-> review], InCatalog(a, fields, {})>>
<1>1. /\ AtRest(files, db) /\ FilesSound(n, files) /\ req[p].view = db /\ req[p].op = "reject"
      /\ r \in DOMAIN db.status /\ db.status[r] = "pending"
  BY ReadAtRest DEF RejectRevision, Reviewing
<1>2. Hold(p, rows, todo) /\ made' = made
  BY <1>1 DEF RejectRevision, Fields
<1>3. /\ a \in Assets /\ GoodRows(db) /\ TypedRows(n, db) /\ n \in Nat
      /\ GoodCatalog(db.asset) /\ GoodAsset(db.asset[a])
  BY <1>1, LenProperties DEF IInv, RowsInv, TypeInv, TypedRequest, Reviewing, TypedRows, GoodCatalog
<1>4. review.id \in Nat /\ review.revision = r
  BY NextReviewIsNat DEF Review
<1>5. /\ "current" \notin DOMAIN new
      /\ "publication" \in DOMAIN new => new.publication = "blocked"
  OBVIOUS
<1> HIDE DEF review, new, next, a, r, n
<1>6. /\ GoodRows(decided) /\ decided.asset = db.asset /\ decided.reviews = db.reviews \cup {review}
      /\ DOMAIN decided.status = DOMAIN db.status /\ decided.status[r] = "rejected"
      /\ \A y \in DOMAIN db.status \ {r} : decided.status[y] = db.status[y]
  <2>1. GoodRows(decided)
    BY <1>4, GoodDecision
  <2>2. /\ decided.asset = db.asset /\ decided.reviews = db.reviews \cup {review}
        /\ decided.status = [db.status EXCEPT ![r] = "rejected"]
    BY <1>3 DEF Decide, Invalidate, GoodRows, RowNames
  <2> HIDE DEF decided
  <2> QED
    BY <1>1, <2>1, <2>2
<1> HIDE DEF decided
<1>7. /\ rows.status = decided.status /\ rows.reviews = decided.reviews
      /\ \A b \in Assets :
            /\ rows.asset[b].current =
                  IF b = a /\ "current" \in DOMAIN new THEN new.current ELSE decided.asset[b].current
            /\ rows.asset[b].publication =
                  IF b = a /\ "publication" \in DOMAIN new THEN new.publication
                  ELSE decided.asset[b].publication
  <2>1. GoodCatalog(decided.asset) /\ db.asset = decided.asset /\ GoodRows(decided) /\ a \in Assets
    BY <1>3, <1>6
  <2>2. Assign(decided, db, a, new).status = decided.status
    BY <2>1, AssignOwn
  <2>3. Assign(decided, db, a, new).reviews = decided.reviews
    BY <2>1, AssignOwn
  <2>4. ASSUME NEW b \in Assets
        PROVE  Assign(decided, db, a, new).asset[b].current =
                  IF b = a /\ "current" \in DOMAIN new THEN new.current ELSE decided.asset[b].current
    BY <2>1, AssignOwn
  <2>5. ASSUME NEW b \in Assets
        PROVE  Assign(decided, db, a, new).asset[b].publication =
                  IF b = a /\ "publication" \in DOMAIN new THEN new.publication
                  ELSE decided.asset[b].publication
    BY <2>1, AssignOwn
  <2> QED
    BY <2>2, <2>3, <2>4, <2>5
<1>8. /\ "current" \in DOMAIN fields /\ "publication" \in DOMAIN fields
      /\ fields.current = IF "current" \in DOMAIN new THEN new.current ELSE db.asset[a].current
      /\ fields.publication = IF "publication" \in DOMAIN new THEN new.publication
                              ELSE db.asset[a].publication
  BY <1>3, UpdatedOwn
<1> HIDE DEF rows, fields
<1>9. /\ \A b \in Assets : rows.asset[b].current = db.asset[b].current
      /\ \A b \in Assets : rows.asset[b].publication = "published" => db.asset[b].publication = "published"
      /\ fields.current = db.asset[a].current
      /\ fields.publication = "published" => db.asset[a].publication = "published"
  BY <1>5, <1>6, <1>7, <1>8
<1>10. Sound(n, files, todo, rows)
  <2>1. todo = <<[file |-> "review", review |-> review], InCatalog(a, fields, {})>>
    OBVIOUS
  <2> HIDE DEF todo
  <2> QED
    BY <1>1, <1>3, <1>4, <1>6, <1>7, <1>8, <1>9, <2>1, DecisionSound
<1> HIDE DEF todo
<1> QED
  BY <1>1, <1>2, <1>10, CalmHold DEF n

\* More files after those in t.
LEMMA ConcatBy ==
    ASSUME NEW f, NEW S, NEW t \in Seq(S), NEW T, NEW u \in Seq(T), NEW todo, todo = t \o u
    PROVE  /\ Len(t) \in Nat /\ Len(u) \in Nat /\ Len(todo) = Len(t) + Len(u)
           /\ \A i \in 1 .. Len(t) : i \in 1 .. Len(todo) /\ todo[i] = t[i]
           /\ \A j \in 1 .. Len(u) : Len(t) + j \in 1 .. Len(todo) /\ todo[Len(t) + j] = u[j]
           /\ \A i \in 1 .. Len(todo) :
                 \/ i \in 1 .. Len(t)
                 \/ i - Len(t) \in 1 .. Len(u) /\ todo[i] = u[i - Len(t)]
           /\ \A k \in 1 .. Len(t) + 1, m \in 1 .. Len(todo) + 1 : k <= m =>
                 /\ \A r : RevisionBy(f, t, k, r) => RevisionBy(f, todo, m, r)
                 /\ \A v : ReviewBy(f, t, k, v) => ReviewBy(f, todo, m, v)
                 /\ \A r : ApprovedBy(f, t, k, r) => ApprovedBy(f, todo, m, r)
                 /\ \A a, r : ReleasedBy(f, t, k, a, r) => ReleasedBy(f, todo, m, a, r)
<1>1. Len(t) \in Nat /\ Len(u) \in Nat /\ Len(todo) = Len(t) + Len(u)
  BY ConcatProperties, LenProperties
<1>2. \A i \in 1 .. Len(t) : i \in 1 .. Len(todo) /\ todo[i] = t[i]
  BY <1>1, ConcatProperties
<1>3. \A j \in 1 .. Len(u) : Len(t) + j \in 1 .. Len(todo) /\ todo[Len(t) + j] = u[j]
  BY <1>1, ConcatProperties
<1>4. ASSUME NEW i \in 1 .. Len(todo), i \notin 1 .. Len(t)
      PROVE  i - Len(t) \in 1 .. Len(u) /\ todo[i] = u[i - Len(t)]
  <2>1. i - Len(t) \in 1 .. Len(u) /\ Len(t) + (i - Len(t)) = i
    BY <1>1, <1>4
  <2> QED
    BY <1>3, <2>1
<1>5. ASSUME NEW k \in 1 .. Len(t) + 1, NEW m \in 1 .. Len(todo) + 1, k <= m
      PROVE  /\ \A r : RevisionBy(f, t, k, r) => RevisionBy(f, todo, m, r)
             /\ \A v : ReviewBy(f, t, k, v) => ReviewBy(f, todo, m, v)
             /\ \A r : ApprovedBy(f, t, k, r) => ApprovedBy(f, todo, m, r)
             /\ \A a, r : ReleasedBy(f, t, k, a, r) => ReleasedBy(f, todo, m, a, r)
  <2>1. \A i \in 1 .. k - 1 : i \in 1 .. m - 1 /\ todo[i] = t[i]
    BY <1>1, <1>2, <1>5
  <2>2. \A r : RevisionBy(f, t, k, r) => RevisionBy(f, todo, m, r)
    BY <2>1 DEF RevisionBy
  <2>3. \A v : ReviewBy(f, t, k, v) => ReviewBy(f, todo, m, v)
    BY <2>1 DEF ReviewBy
  <2>4. \A r : ApprovedBy(f, t, k, r) => ApprovedBy(f, todo, m, r)
    BY <2>1 DEF ApprovedBy
  <2>5. \A a, r : ReleasedBy(f, t, k, a, r) => ReleasedBy(f, todo, m, a, r)
    BY <2>1 DEF ReleasedBy
  <2> QED
    BY <2>2, <2>3, <2>4, <2>5
<1> QED
  BY <1>1, <1>2, <1>3, <1>4, <1>5

\* Reviews that decide nothing else, and catalogs that t has prepared.
LEMMA MoreSound ==
    ASSUME NEW n, NEW f, NEW S, NEW t \in Seq(S), NEW T, NEW u \in Seq(T),
           NEW rows, Sound(n, f, t, rows), NEW x, GoesOn(n, f, t, u, rows, x),
           NEW todo, todo = t \o u
    PROVE  Sound(n, f, todo, x)
<1>1. /\ Len(t) \in Nat /\ Len(u) \in Nat /\ Len(todo) = Len(t) + Len(u)
      /\ \A i \in 1 .. Len(t) : i \in 1 .. Len(todo) /\ todo[i] = t[i]
      /\ \A j \in 1 .. Len(u) : Len(t) + j \in 1 .. Len(todo) /\ todo[Len(t) + j] = u[j]
      /\ \A i \in 1 .. Len(todo) :
            \/ i \in 1 .. Len(t)
            \/ i - Len(t) \in 1 .. Len(u) /\ todo[i] = u[i - Len(t)]
  BY ConcatBy
<1>2. ASSUME NEW k \in 1 .. Len(t) + 1, NEW m \in 1 .. Len(todo) + 1, k <= m
      PROVE  /\ \A r : RevisionBy(f, t, k, r) => RevisionBy(f, todo, m, r)
             /\ \A v : ReviewBy(f, t, k, v) => ReviewBy(f, todo, m, v)
             /\ \A r : ApprovedBy(f, t, k, r) => ApprovedBy(f, todo, m, r)
             /\ \A a, r : ReleasedBy(f, t, k, a, r) => ReleasedBy(f, todo, m, a, r)
  BY <1>2, ConcatBy
<1>3. \A r : Superseding(f, todo, r) <=> Superseding(f, t, r)
  <2>1. ASSUME NEW r, Superseding(f, t, r)
        PROVE  Superseding(f, todo, r)
    BY <1>1, <2>1 DEF Superseding
  <2>2. ASSUME NEW r, Superseding(f, todo, r)
        PROVE  Superseding(f, t, r)
    BY <1>1, <2>2 DEF Superseding, GoesOn
  <2> QED
    BY <2>1, <2>2
<1>4. ASSUME NEW r \in DOMAIN x.status, x.status[r] = "pending", Reviewed(f, todo, r)
      PROVE  Reviewed(f, t, r)
  BY <1>1, <1>4 DEF Reviewed, GoesOn
<1>5. RowsSound(f, todo, x)
  <2>1. /\ Len(t) + 1 \in 1 .. Len(t) + 1 /\ Len(todo) + 1 \in 1 .. Len(todo) + 1
        /\ Len(t) + 1 <= Len(todo) + 1
    BY <1>1
  <2>2. RowsSound(f, t, rows)
    BY DEF Sound
  <2>3. ASSUME NEW a \in Assets, NEW r, r = x.asset[a].current
        PROVE  /\ r # None => /\ r \in DOMAIN x.status /\ x.status[r] = "approved"
                              /\ \E v \in x.reviews : Approves(v, r)
               /\ x.asset[a].publication = "published" => ReleasedBy(f, todo, Len(todo) + 1, a, r)
    BY <1>2, <2>1, <2>2, <2>3 DEF RowsSound, GoesOn
  <2>4. ASSUME NEW r \in DOMAIN x.status
        PROVE  /\ RevisionBy(f, todo, Len(todo) + 1, r)
               /\ x.status[r] = "pending" =>
                     r > 0 /\ ~Superseding(f, todo, r) /\ ~Reviewed(f, todo, r)
    BY <1>2, <1>3, <1>4, <2>1, <2>2 DEF RowsSound, GoesOn
  <2>5. ASSUME NEW v \in x.reviews
        PROVE  ReviewBy(f, todo, Len(todo) + 1, v)
    <3>1. CASE v \in rows.reviews
      BY <1>2, <2>1, <2>2, <3>1 DEF RowsSound, GoesOn
    <3>2. ASSUME NEW k \in 1 .. Len(u), u[k].file = "review" /\ u[k].review = v
          PROVE  ReviewBy(f, todo, Len(todo) + 1, v)
      <4>1. Len(t) + k \in 1 .. (Len(todo) + 1) - 1 /\ todo[Len(t) + k] = u[k]
        BY <1>1
      <4> QED
        BY <3>2, <4>1 DEF ReviewBy
    <3> QED
      BY <3>1, <3>2 DEF GoesOn
  <2> QED
    BY <2>3, <2>4, <2>5 DEF RowsSound
<1>6. ASSUME NEW k \in 1 .. Len(todo), todo[k].file = "review"
      PROVE  ReviewSound(n, f, todo, todo[k].review)
  <2> DEFINE v == todo[k].review
  <2>1. CASE k \in 1 .. Len(t)
    <3>1. ReviewSound(n, f, t, v) /\ todo[k] = t[k]
      BY <1>1, <1>6, <2>1 DEF Sound, TodoSound
    <3>2. \A i \in 1 .. Len(u) : u[i].file = "review" => Agree(v, u[i].review)
      BY <1>6, <2>1, <3>1 DEF ReviewSound, Agree, GoesOn
    <3> QED
      BY <1>1, <3>1, <3>2 DEF ReviewSound
  <2>2. CASE k - Len(t) \in 1 .. Len(u) /\ todo[k] = u[k - Len(t)]
    <3>1. ReviewSound(n, f, t, v) /\ ReviewSound(n, f, u, v)
      BY <1>6, <2>2 DEF GoesOn
    <3>2. ASSUME NEW i \in 1 .. Len(todo), todo[i].file = "review"
          PROVE  Agree(v, todo[i].review)
      <4> HIDE DEF v
      <4>1. CASE i \in 1 .. Len(t)
        <5>1. todo[i] = t[i]
          BY <1>1, <4>1
        <5> QED
          BY <3>1, <3>2, <4>1, <5>1 DEF ReviewSound
      <4>2. CASE i - Len(t) \in 1 .. Len(u) /\ todo[i] = u[i - Len(t)]
        BY <3>1, <3>2, <4>2 DEF ReviewSound
      <4> QED
        BY <1>1, <4>1, <4>2
    <3> HIDE DEF v
    <3>3. ReviewSound(n, f, todo, v)
      BY <3>1, <3>2 DEF ReviewSound
    <3> QED
      BY <3>3 DEF v
  <2> QED
    BY <1>1, <2>1, <2>2
<1>7. ASSUME NEW k \in 1 .. Len(todo), todo[k].file = "catalog"
      PROVE  CatalogSound(n, f, todo, x, k, todo[k])
  <2>1. CASE k \in 1 .. Len(t)
    <3>1. CatalogSound(n, f, t, rows, k, todo[k])
      BY <1>1, <1>7, <2>1 DEF Sound, TodoSound
    <3>2. k \in 1 .. Len(t) + 1 /\ k \in 1 .. Len(todo) + 1 /\ k <= k
      BY <1>1, <2>1
    <3> QED
      BY <1>2, <1>3, <3>1, <3>2 DEF CatalogSound, GoesOn
  <2>2. CASE k - Len(t) \in 1 .. Len(u) /\ todo[k] = u[k - Len(t)]
    <3>1. CatalogSound(n, f, t, x, Len(t) + 1, todo[k])
      BY <1>7, <2>2 DEF GoesOn
    <3>2. Len(t) + 1 \in 1 .. Len(t) + 1 /\ k \in 1 .. Len(todo) + 1 /\ Len(t) + 1 <= k
      BY <1>1, <2>2
    <3> QED
      BY <1>2, <1>3, <3>1, <3>2 DEF CatalogSound
  <2> QED
    BY <1>1, <2>1, <2>2
<1>8. ASSUME NEW j \in 1 .. Len(todo), NEW k \in 1 .. Len(todo),
             todo[j].file = "catalog", todo[k].file = "catalog"
      PROVE  HasCurrent(todo[j]) <=> HasCurrent(todo[k])
  <2>1. CASE j \in 1 .. Len(t) /\ k \in 1 .. Len(t)
    BY <1>1, <1>8, <2>1 DEF Sound, TodoSound
  <2>2. CASE k \notin 1 .. Len(t)
    <3>1. k - Len(t) \in 1 .. Len(u) /\ todo[k] = u[k - Len(t)]
      BY <1>1, <2>2
    <3> DEFINE e == u[k - Len(t)]
    <3>2. e.file = "catalog" /\ todo[k] = e
      BY <1>8, <3>1
    <3>3. /\ \A i \in 1 .. Len(t) : t[i].file = "catalog" => (HasCurrent(t[i]) <=> HasCurrent(e))
          /\ \A i \in 1 .. Len(u) : u[i].file = "catalog" => (HasCurrent(u[i]) <=> HasCurrent(e))
      BY <3>1, <3>2 DEF GoesOn
    <3> HIDE DEF e
    <3> QED
      BY <1>1, <1>8, <3>2, <3>3
  <2>3. CASE j \notin 1 .. Len(t) /\ k \in 1 .. Len(t)
    <3>1. j - Len(t) \in 1 .. Len(u) /\ todo[j] = u[j - Len(t)] /\ todo[k] = t[k]
      BY <1>1, <2>3
    <3> QED
      BY <1>8, <2>3, <3>1 DEF GoesOn
  <2> QED
    BY <2>1, <2>2, <2>3
<1>9. ASSUME NEW a \in Assets, NEW r, r = f.catalog[a].current
      PROVE  /\ r # None => ~Superseding(f, todo, r)
             /\ r # x.asset[a].current =>
                   \E k \in 1 .. Len(todo) : HasCurrent(todo[k]) /\ todo[k].asset = a
  <2>1. r # None => ~Superseding(f, todo, r)
    BY <1>3, <1>9 DEF Sound, TodoSound
  <2>2. ASSUME r # x.asset[a].current
        PROVE  \E k \in 1 .. Len(todo) : HasCurrent(todo[k]) /\ todo[k].asset = a
    <3>1. PICK k \in 1 .. Len(t) : HasCurrent(t[k]) /\ t[k].asset = a
      BY <1>9, <2>2 DEF Sound, TodoSound, GoesOn
    <3> QED
      BY <1>1, <3>1
  <2> QED
    BY <2>1, <2>2
<1>10. TodoSound(n, f, todo, x)
  BY <1>6, <1>7, <1>8, <1>9 DEF TodoSound
<1> QED
  BY <1>5, <1>10 DEF Sound

\* Renewed approvals: of what was approved before, by the same verdict.
LEMMA RefreshSound ==
    ASSUME NEW n \in Nat, FilesSound(n, files), AtRest(files, db), GoodCatalog(db.asset),
           NEW p, req[p].view = db,
           NEW rows, GoodRows(rows), GoodCatalog(rows.asset),
           NEW S, NEW t \in Seq(S), Sound(n, files, t, rows),
           NEW sources \in SUBSET Assets,
           \A s \in sources : /\ Approvals(db, s) # {}
                              /\ rows.asset[s].current = db.asset[s].current,
           \A k \in 1 .. Len(t) : t[k].file = "review" => t[k].review.verdict = "approve",
           \A k \in 1 .. Len(t) : t[k].file = "catalog" => HasCurrent(t[k]),
           \A r : Superseding(files, t, r) => r \in files.superseded,
           \A r \in DOMAIN rows.status : rows.status[r] = "pending" =>
                 r \in DOMAIN db.status /\ db.status[r] = "pending"
    PROVE  Sound(n, files, Refresh(p, rows, t, sources).todo, Refresh(p, rows, t, sources).rows)
<1> DEFINE order == SetToSeq(sources)
           renewals == Renewals(p, rows, t, sources)
           u == RenewalFiles(p, sources, renewals)
           x == Refresh(p, rows, t, sources).rows
           current(s) == db.asset[s].current
<1>1. order \in Seq(sources) /\ Len(order) \in Nat /\ DOMAIN order = 1 .. Len(order)
  <2>1. IsFiniteSet(sources)
    BY AssetsAssumption, FS_Subset
  <2> QED
    BY <2>1, ListOf, LenProperties
<1>2. ASSUME NEW i \in 1 .. Len(order)
      PROVE  order[i] \in sources
  <2> HIDE DEF order
  <2> QED
    BY <1>1, <1>2, ElementOfSeq
<1>3. /\ DOMAIN renewals = 1 .. Len(order)
      /\ \A i \in 1 .. Len(order) :
            renewals[i].revision = current(order[i]) /\ renewals[i].verdict = "approve"
  BY <1>1 DEF Renewals, Review
<1>4. ASSUME NEW s \in sources
      PROVE  /\ current(s) \in Numbers(n) /\ current(s) \in files.revisions
             /\ current(s) \notin files.superseded /\ current(s) # None
             /\ current(s) \in DOMAIN db.status /\ db.status[current(s)] = "approved"
             /\ \E v \in files.reviews : Approves(v, current(s))
  <2>1. PICK v \in db.reviews : v.revision = current(s) /\ v.verdict = "approve"
    BY DEF Approvals
  <2>2. v \in files.reviews /\ Approves(v, current(s)) /\ current(s) \in Numbers(n)
    BY <2>1 DEF AtRest, Approves, FilesSound, GoodReview
  <2>3. current(s) # None
    BY <2>2, NoneAssumption DEF Numbers
  <2> QED
    BY <2>2, <2>3 DEF AtRest
<1>5. /\ x.status = rows.status /\ x.reviews = rows.reviews \cup Range(renewals)
      /\ \A a \in Assets :
            /\ x.asset[a].current = rows.asset[a].current
            /\ x.asset[a].publication = IF a \in sources THEN db.asset[a].publication
                                        ELSE rows.asset[a].publication
  <2>1. /\ x.status = rows.status /\ x.reviews = rows.reviews \cup Range(renewals)
        /\ x.asset = [a \in Assets |->
              IF a \in sources THEN [rows.asset[a] EXCEPT !.publication = db.asset[a].publication]
              ELSE rows.asset[a]]
    <3> HIDE DEF renewals
    <3> QED
      BY DEF Refresh, GoodRows, RowNames, renewals
  <2> HIDE DEF x
  <2> QED
    BY <2>1 DEF GoodCatalog, GoodAsset, AssetFields
<1>6. /\ u = [k \in 1 .. 2 * Len(order) |-> u[k]]
      /\ Refresh(p, rows, t, sources).todo = t \o u
  BY DEF RenewalFiles, Refresh
<1>7. ASSUME NEW k \in 1 .. 2 * Len(order)
      PROVE  \/ /\ u[k].file = "review" /\ u[k].review.verdict = "approve"
                /\ \E s \in sources : u[k].review.revision = current(s)
             \/ /\ u[k].file = "catalog" /\ u[k].superseded = {} /\ u[k].asset \in sources
                /\ HasCurrent(u[k]) /\ "publication" \in DOMAIN u[k].fields
                /\ u[k].fields.current = current(u[k].asset)
                /\ u[k].fields.publication = db.asset[u[k].asset].publication
  <2>1. CASE k % 2 = 1
    <3> DEFINE i == (k + 1) \div 2
    <3>1. i \in 1 .. Len(order)
      BY <1>1, <1>7, <2>1
    <3>2. u[k] = [file |-> "review", review |-> renewals[i]]
      BY <1>7, <2>1 DEF RenewalFiles
    <3> HIDE DEF i, u, order, renewals
    <3> QED
      BY <1>2, <1>3, <3>1, <3>2
  <2>2. CASE k % 2 # 1
    <3> DEFINE a == order[k \div 2]
               kept == [publication |-> db.asset[a].publication]
               fields == Updated(db.asset[a], kept)
    <3>1. u[k] = InCatalog(a, fields, {})
      BY <1>7, <2>2 DEF RenewalFiles, Fields
    <3>2. a \in sources
      <4>1. k \div 2 \in 1 .. Len(order)
        BY <1>1, <1>7, <2>2
      <4> QED
        BY <1>2, <4>1
    <3>3. "current" \notin DOMAIN kept /\ "publication" \in DOMAIN kept
          /\ kept.publication = db.asset[a].publication
      OBVIOUS
    <3> HIDE DEF a, kept, u
    <3>4. /\ "current" \in DOMAIN fields /\ "publication" \in DOMAIN fields
          /\ fields.current = current(a) /\ fields.publication = db.asset[a].publication
      BY <3>2, <3>3, UpdatedOwn DEF GoodCatalog
    <3> HIDE DEF fields
    <3>5. u[k].file = "catalog" /\ u[k].asset = a /\ u[k].fields = fields /\ u[k].superseded = {}
      BY <3>1 DEF InCatalog
    <3> QED
      BY <3>2, <3>4, <3>5 DEF HasCurrent
  <2> QED
    BY <2>1, <2>2
<1>8. ASSUME NEW v \in Range(renewals)
      PROVE  \E k \in 1 .. 2 * Len(order) : u[k].file = "review" /\ u[k].review = v
  <2>1. PICK i \in 1 .. Len(order) : v = renewals[i]
    BY <1>3 DEF Range
  <2> DEFINE k == 2 * i - 1
  <2>2. k \in 1 .. 2 * Len(order) /\ k % 2 = 1 /\ (k + 1) \div 2 = i
    BY <1>1
  <2>3. u[k] = [file |-> "review", review |-> renewals[(k + 1) \div 2]]
    BY <2>2 DEF RenewalFiles
  <2> HIDE DEF k, u, renewals, order
  <2> QED
    BY <2>1, <2>2, <2>3
<1> HIDE DEF order, renewals, u, x
<1> DEFINE m == 2 * Len(order)
           T == {u[k] : k \in 1 .. m}
<1>9. u \in Seq(T) /\ Len(u) = m
  <2>1. m \in Nat /\ u \in [1 .. m -> T] /\ DOMAIN u = 1 .. m
    BY <1>1, <1>6
  <2> HIDE DEF m, T
  <2> QED
    BY <2>1, SeqDef, LenProperties
<1> HIDE DEF T
<1>10. \A k \in 1 .. Len(u) :
          \/ /\ u[k].file = "review" /\ u[k].review.verdict = "approve"
             /\ \E s \in sources : u[k].review.revision = current(s)
          \/ /\ u[k].file = "catalog" /\ u[k].superseded = {} /\ u[k].asset \in sources
             /\ HasCurrent(u[k]) /\ "publication" \in DOMAIN u[k].fields
             /\ u[k].fields.current = current(u[k].asset)
             /\ u[k].fields.publication = db.asset[u[k].asset].publication
  BY <1>7, <1>9
<1>11. \A v \in x.reviews : \/ v \in rows.reviews
                            \/ \E k \in 1 .. Len(u) : u[k].file = "review" /\ u[k].review = v
  BY <1>5, <1>8, <1>9
<1> HIDE DEF current, m
<1>12. ASSUME NEW k \in 1 .. Len(u), u[k].file = "review"
       PROVE  /\ ReviewSound(n, files, t, u[k].review) /\ ReviewSound(n, files, u, u[k].review)
              /\ \A r \in DOMAIN x.status : x.status[r] = "pending" => u[k].review.revision # r
  <2>1. PICK s \in sources : u[k].review.revision = current(s)
    BY <1>10, <1>12
  <2>2. u[k].review.verdict = "approve"
    BY <1>10, <1>12
  <2>3. GoodReview(n, u[k].review)
    BY <1>4, <2>1, <2>2 DEF GoodReview
  <2>4. \A w \in files.reviews : Agree(u[k].review, w)
    <3>1. PICK v \in files.reviews : Approves(v, current(s))
      BY <1>4
    <3>2. \A w \in files.reviews : Agree(v, w)
      BY DEF FilesSound
    <3> QED
      BY <2>1, <2>2, <3>1, <3>2 DEF Agree, Approves
  <2>5. /\ \A i \in 1 .. Len(t) : t[i].file = "review" => Agree(u[k].review, t[i].review)
        /\ \A i \in 1 .. Len(u) : u[i].file = "review" => Agree(u[k].review, u[i].review)
    BY <1>10, <2>2 DEF Agree
  <2>6. \A r \in DOMAIN x.status : x.status[r] = "pending" => u[k].review.revision # r
    BY <1>4, <1>5, <2>1
  <2> QED
    BY <2>3, <2>4, <2>5, <2>6 DEF ReviewSound
<1>13. ASSUME NEW k \in 1 .. Len(u), u[k].file = "catalog"
       PROVE  /\ CatalogSound(n, files, t, x, Len(t) + 1, u[k]) /\ u[k].superseded = {}
              /\ \A i \in 1 .. Len(t) : t[i].file = "catalog" => (HasCurrent(t[i]) <=> HasCurrent(u[k]))
              /\ \A i \in 1 .. Len(u) : u[i].file = "catalog" => (HasCurrent(u[i]) <=> HasCurrent(u[k]))
  <2> DEFINE a == u[k].asset
  <2>1. /\ u[k].superseded = {} /\ a \in sources /\ HasCurrent(u[k])
        /\ "publication" \in DOMAIN u[k].fields /\ u[k].fields.current = current(a)
        /\ u[k].fields.publication = db.asset[a].publication
    BY <1>10, <1>13
  <2>2. \A i \in 1 .. Len(u) : u[i].file = "catalog" => HasCurrent(u[i])
    BY <1>10
  <2>3. x.asset[a].current = current(a)
    BY <1>5, <2>1 DEF current
  <2>4. /\ RevisionBy(files, t, Len(t) + 1, current(a))
        /\ ApprovedBy(files, t, Len(t) + 1, current(a))
        /\ ~Superseding(files, t, current(a))
    BY <1>4, <2>1 DEF RevisionBy, ApprovedBy
  <2>5. db.asset[a].publication = "published" =>
            ReleasedBy(files, t, Len(t) + 1, a, current(a))
    BY <2>1 DEF AtRest, ReleasedBy, current
  <2>6. CatalogSound(n, files, t, x, Len(t) + 1, u[k])
    BY <2>1, <2>3, <2>4, <2>5 DEF CatalogSound
  <2> QED
    BY <2>1, <2>2, <2>6
<1>14. ASSUME NEW a \in Assets, x.asset[a].publication = "published"
       PROVE  ReleasedBy(files, t, Len(t) + 1, a, x.asset[a].current)
  <2>1. CASE a \in sources
    BY <1>5, <1>14, <2>1 DEF AtRest, ReleasedBy
  <2>2. CASE a \notin sources
    BY <1>5, <1>14, <2>2 DEF Sound, RowsSound
  <2> QED
    BY <2>1, <2>2
<1>15. GoesOn(n, files, t, u, rows, x)
  BY <1>5, <1>11, <1>12, <1>13, <1>14 DEF GoesOn
<1> DEFINE todo == t \o u
<1>16. Sound(n, files, todo, x)
  BY <1>9, <1>15, MoreSound
<1> QED
  BY <1>6, <1>16 DEF x

\* Blocking dependents decides nothing about what is current.
LEMMA BlockedRows ==
    ASSUME NEW rows, GoodRows(rows), GoodCatalog(rows.asset), NEW a
    PROVE  /\ BlockDependents(rows, a).status = rows.status
           /\ BlockDependents(rows, a).reviews = rows.reviews
           /\ \A b \in Assets :
                 /\ BlockDependents(rows, a).asset[b].current = rows.asset[b].current
                 /\ BlockDependents(rows, a).asset[b].publication \in
                       {rows.asset[b].publication, "blocked"}
<1> DEFINE x == BlockDependents(rows, a)
           blocked == Dependents(rows, a)
           valid == Invalidate(rows, blocked)
<1>1. /\ valid.asset = rows.asset /\ valid.status = rows.status /\ valid.reviews = rows.reviews
      /\ GoodRows(valid)
  BY GoodInvalidate DEF Invalidate, GoodRows, RowNames
<1>2. /\ x.status = rows.status /\ x.reviews = rows.reviews
      /\ x.asset = [b \in Assets |-> IF b \in blocked
                                     THEN [rows.asset[b] EXCEPT !.publication = "blocked"]
                                     ELSE rows.asset[b]]
  <2> HIDE DEF valid, blocked
  <2> QED
    BY <1>1 DEF BlockDependents, GoodRows, RowNames, valid, blocked
<1> HIDE DEF x, blocked
<1>3. ASSUME NEW b \in Assets
      PROVE  /\ x.asset[b].current = rows.asset[b].current
             /\ x.asset[b].publication \in {rows.asset[b].publication, "blocked"}
  BY <1>2 DEF GoodCatalog, GoodAsset, AssetFields
<1> QED
  BY <1>2, <1>3 DEF x

\* An approval, and the approvals of what depicts the asset.
LEMMA CalmApproveRevision ==
    ASSUME IInv, TypeInv, NEW p \in Requests, Alone(p), ApproveRevision(p)
    PROVE  CalmInv'
<1> DEFINE a == req[p].asset
           r == req[p].revision
           n == Len(made)
           review == Review(NextReview, r, "approve", Dependencies(db, a))
           decided == [Decide(Invalidate(db, {a}), review) EXCEPT !.status[r] = "approved"]
           new == [current |-> r, content |-> "approved", publication |-> "ready",
                   candidate |-> NewestPending(decided, a)]
           assigned == Assign(decided, db, a, new)
           rows == BlockDependents(assigned, a)
           fields == Updated(db.asset[a], new)
           first == [file |-> "review", review |-> review]
           last == InCatalog(a, fields, {})
           todo == <<first, last>>
           sources == IF db.asset[a].current = None THEN Depicting(db, a) ELSE {}
           all == Refresh(p, rows, todo, sources)
<1>1. /\ AtRest(files, db) /\ FilesSound(n, files) /\ req[p].view = db /\ req[p].op = "approve"
      /\ r \in DOMAIN db.status /\ db.status[r] = "pending" /\ a \notin Media
  BY ReadAtRest DEF ApproveRevision, Reviewing
<1>2. Hold(p, all.rows, all.todo) /\ made' = made
  BY <1>1 DEF ApproveRevision, Fields
<1>3. /\ a \in Assets /\ GoodRows(db) /\ TypedRows(n, db) /\ n \in Nat
      /\ GoodCatalog(db.asset) /\ GoodAsset(db.asset[a])
  BY <1>1, LenProperties DEF IInv, RowsInv, TypeInv, TypedRequest, Reviewing, TypedRows, GoodCatalog
<1>4. review.id \in Nat /\ review.revision = r /\ review.verdict = "approve"
  BY NextReviewIsNat DEF Review
<1>5. /\ "current" \in DOMAIN new /\ new.current = r
      /\ "publication" \in DOMAIN new /\ new.publication = "ready" /\ GoodFields(new)
  BY DEF GoodFields, AssetFields, Content, Publication
<1>6. /\ sources \in SUBSET Assets
      /\ \A s \in sources : Approvals(db, s) # {} /\ s # a
  BY <1>1, MediaAssumption DEF Depicting
<1> HIDE DEF review, new, a, r, n, sources
<1>7. /\ GoodRows(decided) /\ decided.asset = db.asset /\ decided.reviews = db.reviews \cup {review}
      /\ DOMAIN decided.status = DOMAIN db.status /\ decided.status[r] = "approved"
      /\ \A y \in DOMAIN db.status \ {r} : decided.status[y] = db.status[y]
  <2>1. GoodRows(decided)
    BY <1>4, GoodDecision
  <2>2. /\ decided.asset = db.asset /\ decided.reviews = db.reviews \cup {review}
        /\ decided.status = [db.status EXCEPT ![r] = "approved"]
    BY <1>3 DEF Decide, Invalidate, GoodRows, RowNames
  <2> HIDE DEF decided
  <2> QED
    BY <1>1, <2>1, <2>2
<1>8. TypedRows(n, decided)
  <2>1. "approved" \in Status
    BY DEF Status
  <2> QED
    BY <1>3, <1>4, <2>1, TypedDecision
<1> HIDE DEF decided
<1>9. GoodRows(assigned) /\ TypedRows(n, assigned)
  BY <1>3, <1>5, <1>7, <1>8, GoodAssign, TypedAssign
<1>10. /\ assigned.status = decided.status /\ assigned.reviews = decided.reviews
       /\ assigned.asset[a].current = r /\ assigned.asset[a].publication = "ready"
       /\ \A b \in Assets \ {a} : /\ assigned.asset[b].current = db.asset[b].current
                                  /\ assigned.asset[b].publication = db.asset[b].publication
  <2>1. GoodCatalog(decided.asset) /\ db.asset = decided.asset /\ GoodRows(decided) /\ a \in Assets
    BY <1>3, <1>7
  <2>2. assigned.status = decided.status
    BY <2>1, AssignOwn
  <2>3. assigned.reviews = decided.reviews
    BY <2>1, AssignOwn
  <2>4. ASSUME NEW b \in Assets
        PROVE  assigned.asset[b].current =
                  IF b = a /\ "current" \in DOMAIN new THEN new.current ELSE decided.asset[b].current
    BY <2>1, AssignOwn
  <2>5. ASSUME NEW b \in Assets
        PROVE  assigned.asset[b].publication =
                  IF b = a /\ "publication" \in DOMAIN new THEN new.publication
                  ELSE decided.asset[b].publication
    BY <2>1, AssignOwn
  <2> HIDE DEF assigned
  <2> QED
    BY <1>3, <1>5, <2>1, <2>2, <2>3, <2>4, <2>5
<1> HIDE DEF assigned
<1>11. GoodRows(rows) /\ TypedRows(n, rows) /\ GoodCatalog(rows.asset)
  <2>1. GoodRows(rows) /\ TypedRows(n, rows)
    BY <1>9, GoodBlock, TypedBlock
  <2> QED
    BY <2>1 DEF TypedRows
<1>12. /\ rows.status = decided.status /\ rows.reviews = decided.reviews
       /\ \A b \in Assets : /\ rows.asset[b].current = assigned.asset[b].current
                            /\ rows.asset[b].publication \in {assigned.asset[b].publication, "blocked"}
  <2>1. GoodCatalog(assigned.asset)
    BY <1>9 DEF TypedRows
  <2> QED
    BY <1>9, <1>10, <2>1, BlockedRows
<1>13. /\ "current" \in DOMAIN fields /\ "publication" \in DOMAIN fields
       /\ fields.current = r /\ fields.publication = "ready"
  BY <1>3, <1>5, UpdatedOwn
<1> HIDE DEF rows, fields
<1>14. /\ rows.asset[a].current = r
       /\ \A b \in Assets \ {a} : rows.asset[b].current = db.asset[b].current
       /\ \A b \in Assets : rows.asset[b].publication = "published" =>
             /\ db.asset[b].publication = "published"
             /\ rows.asset[b].current = db.asset[b].current
  BY <1>3, <1>10, <1>12
<1>15. Sound(n, files, todo, rows)
  <2>1. todo = <<[file |-> "review", review |-> review], InCatalog(a, fields, {})>>
    OBVIOUS
  <2> HIDE DEF todo
  <2> QED
    BY <1>1, <1>3, <1>4, <1>7, <1>12, <1>13, <1>14, <2>1, DecisionSound
<1>16. /\ first.file = "review" /\ first.review = review
       /\ last.file = "catalog" /\ HasCurrent(last) /\ last.superseded = {}
  BY <1>13 DEF InCatalog, HasCurrent
<1> HIDE DEF first, last
<1> DEFINE S == {first, last}
<1>17. /\ todo \in Seq(S) /\ Len(todo) = 2 /\ todo[1] = first /\ todo[2] = last
       /\ \A x : Superseding(files, todo, x) => x \in files.superseded
  <2>1. todo = <<first, last>> /\ todo \in Seq(S) /\ Len(todo) = 2
    OBVIOUS
  <2> HIDE DEF todo
  <2>2. \A x : Superseding(files, todo, x) => x \in files.superseded
    BY <1>16, <2>1, TwoBy
  <2> QED
    BY <2>1, <2>2
<1> HIDE DEF todo, S
<1>18. /\ \A k \in 1 .. Len(todo) : todo[k].file = "review" => todo[k].review.verdict = "approve"
       /\ \A k \in 1 .. Len(todo) : todo[k].file = "catalog" => HasCurrent(todo[k])
  <2>1. \A k \in 1 .. Len(todo) : todo[k] = first \/ todo[k] = last
    BY <1>17
  <2> QED
    BY <1>4, <1>16, <2>1
<1>19. \A s \in sources : Approvals(db, s) # {} /\ rows.asset[s].current = db.asset[s].current
  BY <1>6, <1>14
<1>20. \A x \in DOMAIN rows.status : rows.status[x] = "pending" =>
          x \in DOMAIN db.status /\ db.status[x] = "pending"
  BY <1>7, <1>12
<1>21. Sound(n, files, all.todo, all.rows)
  BY <1>1, <1>3, <1>6, <1>11, <1>15, <1>17, <1>18, <1>19, <1>20, RefreshSound
<1> HIDE DEF all
<1> QED
  BY <1>1, <1>2, <1>21, CalmHold DEF n

\* A relation, and the approval of its source.
LEMMA CalmCreateRelation ==
    ASSUME IInv, TypeInv, NEW p \in Requests, Alone(p), CreateRelation(p)
    PROVE  CalmInv'
<1> DEFINE rel == req[p].data
           n == Len(made)
           rows == [db EXCEPT !.relations = @ \cup {rel}]
           write == [file |-> "relations", relations |-> rows.relations]
           all == Refresh(p, rows, <<>>, {rel.source})
<1>1. /\ AtRest(files, db) /\ FilesSound(n, files) /\ req[p].view = db
      /\ req[p].pc = "read" /\ req[p].op = "relate" /\ made' = made
  BY ReadAtRest DEF CreateRelation
<1>2. \/ req' = [req EXCEPT ![p] = Idle] /\ UNCHANGED <<files, db, up>>
      \/ Approvals(db, rel.source) # {} /\ Hold(p, all.rows, Append(all.todo, write))
      \/ Hold(p, rows, <<write>>)
  BY <1>1 DEF CreateRelation
<1>3. /\ rows.asset = db.asset /\ rows.status = db.status /\ rows.reviews = db.reviews
      /\ rows.valid = db.valid /\ GoodRows(rows) /\ GoodCatalog(db.asset) /\ n \in Nat /\ rel.source \in Assets
  <2>1. GoodRows(rows)
    BY SameReviews DEF IInv, RowsInv, GoodRows, RowNames
  <2>2. GoodCatalog(db.asset) /\ n \in Nat /\ rel.source \in Assets
    BY <1>1, RelationsAssumption, LenProperties DEF TypeInv, TypedRows, TypedRequest
  <2> QED
    BY <2>1, <2>2 DEF IInv, RowsInv, GoodRows, RowNames
<1>4. write.file = "relations"
  OBVIOUS
<1> HIDE DEF rows, write, rel, n
<1>5. AtRest(files, rows)
  BY <1>1, <1>3, RestFrame
<1>6. Sound(n, files, <<>>, rows)
  BY <1>5, RestIsSound
\* The relations themselves say nothing of assets and revisions.
<1>7. ASSUME NEW x, NEW S, NEW t \in Seq(S), Sound(n, files, t, x)
      PROVE  Sound(n, files, Append(t, write), x)
  <2> DEFINE u == <<write>>
             T == {write}
  <2>1. u \in Seq(T) /\ Len(u) = 1 /\ \A k \in 1 .. Len(u) : u[k].file = "relations"
    BY <1>4
  <2>2. Append(t, write) = t \o u
    BY AppendIsConcat
  <2> HIDE DEF u, T
  <2>3. GoesOn(n, files, t, u, x, x)
    BY <1>7, <2>1 DEF GoesOn, Sound, RowsSound
  <2> QED
    BY <1>7, <2>1, <2>2, <2>3, MoreSound
<1>8. CASE req' = [req EXCEPT ![p] = Idle] /\ UNCHANGED <<files, db, up>>
  BY <1>1, <1>8, CalmEnds DEF Alone
<1>9. CASE Approvals(db, rel.source) # {} /\ Hold(p, all.rows, Append(all.todo, write))
  <2> DEFINE sources == {rel.source}
             empty == <<>>
  <2>1. /\ empty \in Seq({}) /\ Len(empty) = 0 /\ 1 .. 0 = {}
        /\ \A r : Superseding(files, empty, r) => r \in files.superseded
    BY DEF Superseding
  <2>2. sources \in SUBSET Assets /\ GoodCatalog(rows.asset)
    BY <1>3
  <2>3. \A s \in sources : Approvals(db, s) # {} /\ rows.asset[s].current = db.asset[s].current
    BY <1>3, <1>9
  <2>4. Sound(n, files, empty, rows)
    BY <1>6
  <2> HIDE DEF empty, sources
  <2>5. Sound(n, files, Refresh(p, rows, empty, sources).todo, Refresh(p, rows, empty, sources).rows)
    BY <1>1, <1>3, <2>1, <2>2, <2>3, <2>4, RefreshSound
  <2>6. Sound(n, files, all.todo, all.rows)
    BY <2>5 DEF empty, sources
  <2>7. all.todo \in Seq(Range(all.todo))
    <3>1. TypedRows(Len(made), req[p].view)
      BY <1>1 DEF TypeInv, TypedRequest
    <3>2. TypedRows(Len(made), rows)
      BY <1>3 DEF TypeInv, TypedRows
    <3>3. empty \in Seq({}) /\ \A e \in {} : TypedEntry(Len(made), e)
      BY <2>1
    <3>4. Refresh(p, rows, empty, sources).todo \in Seq(Range(Refresh(p, rows, empty, sources).todo))
      BY <1>3, <2>2, <3>1, <3>2, <3>3, RefreshIsTyped
    <3> QED
      BY <3>4 DEF empty, sources
  <2> HIDE DEF all
  <2>8. Sound(n, files, Append(all.todo, write), all.rows)
    BY <1>7, <2>6, <2>7
  <2> QED
    BY <1>1, <1>9, <2>8, CalmHold DEF n
<1>10. CASE Hold(p, rows, <<write>>)
  <2>1. <<>> \in Seq({}) /\ Append(<<>>, write) = <<write>>
    OBVIOUS
  <2>2. Sound(n, files, <<write>>, rows)
    BY <1>6, <1>7, <2>1
  <2> QED
    BY <1>1, <1>10, <2>2, CalmHold DEF n
<1> QED
  BY <1>2, <1>8, <1>9, <1>10

\* The promotion of media: its revision, its review, and at last the catalog.
LEMMA CalmPromote ==
    ASSUME IInv, TypeInv, NEW p \in Requests, Alone(p), Promote(p)
    PROVE  CalmInv'
<1> DEFINE a == req[p].asset
           r == req[p].revision
           n == Len(made)
           review == Review(NextReview, -r, "approve", Dependencies(db, a))
           next == NewestPending([db EXCEPT !.status[r] = "superseded"], a)
           new == [current |-> -r, content |-> "approved", publication |-> "ready",
                   candidate |-> next]
           e1 == [file |-> "artifacts", revision |-> -r]
           e2 == [file |-> "revision", revision |-> -r]
           e3 == [file |-> "review", review |-> review]
           e4 == InCatalog(a, new, {r})
           todo == <<e1, e2, e3, e4>>
           data == [review |-> review, new |-> new]
           decided == Decide(Invalidate(db, {a}), review)
           assigned == Assign(decided, db, a, new)
           status == [x \in {r, -r} |-> IF x = r THEN "superseded" ELSE "approved"]
           promoted == [assigned EXCEPT !.status = Updated(@, status), !.passed = @ \cup {-r}]
           rows == BlockDependents(promoted, a)
<1>1. req[p].pc = "promote" /\ req[p].op = "approve_media"
  BY DEF Promote, TypeInv, TypedRequest
<1>2. /\ AtRest(files, db) /\ FilesSound(n, files) /\ req[p].view = db
      /\ r \in DOMAIN db.status /\ db.status[r] = "pending"
  BY <1>1, ReadAtRest DEF Reviewing
<1>3. /\ req' = [req EXCEPT ![p].pc = "files", ![p].todo = todo, ![p].data = data]
      /\ UNCHANGED <<made, files, db, up>>
  BY <1>2 DEF Promote, PromotionFiles
<1>4. /\ a \in Assets /\ GoodRows(db) /\ TypedRows(n, db) /\ n \in Nat /\ GoodCatalog(db.asset)
  BY <1>1, LenProperties DEF IInv, RowsInv, TypeInv, TypedRequest, Reviewing, TypedRows
<1>5. r \in Numbers(n) /\ -r \in Numbers(n) /\ r > 0 /\ -r < 0 /\ r \in 1 .. n /\ -r # r
      /\ -r # None /\ -r \notin 1 .. n
  <2>1. r \in Numbers(n) /\ r > 0
    BY <1>2, <1>4 DEF AtRest, TypedRows
  <2> HIDE DEF r
  <2> QED
    BY <1>4, <2>1, NoneAssumption DEF Numbers
<1>6. review.id \in Nat /\ review.revision = -r /\ review.verdict = "approve"
  BY NextReviewIsNat DEF Review
<1>7. /\ "current" \in DOMAIN new /\ new.current = -r
      /\ "publication" \in DOMAIN new /\ new.publication = "ready"
  OBVIOUS
<1>8. /\ MovesOnly(p) /\ req'[p].pc = "files" /\ req'[p].todo = todo /\ req'[p].data = data
      /\ req'[p].op = req[p].op /\ req'[p].rows = req[p].rows /\ req'[p].view = req[p].view
      /\ req'[p].asset = a /\ req'[p].revision = r
  <2> HIDE DEF todo, data
  <2> QED
    BY <1>3 DEF MovesOnly, IInv, RequestInv, GoodRequest, RequestNames
<1>9. Outcome(p)' = rows
  <2>1. data.review = review /\ data.new = new
    OBVIOUS
  <2> HIDE DEF data, review, new, a, r
  <2>2. \A x, S : Invalidate(x, S)' = Invalidate(x, S)
    BY <1>3 DEF Invalidate, AssetOf
  <2>3. \A x, b : BlockDependents(x, b)' = BlockDependents(x, b)
    BY <2>2 DEF BlockDependents
  <2>4. db' = db
    BY <1>3
  <2> QED
    BY <1>1, <1>2, <1>8, <2>1, <2>2, <2>3, <2>4 DEF Outcome, MediaRows
<1>10. req[p].rows = None
  BY <1>1 DEF Alone, Progress
<1> HIDE DEF review, new, data, a, r, n
<1>11. /\ GoodRows(decided) /\ decided.asset = db.asset /\ decided.reviews = db.reviews \cup {review}
       /\ decided.status = db.status
  BY <1>4, <1>6, GoodInvalidate, GoodDecide DEF Decide, Invalidate, GoodRows, RowNames
<1> HIDE DEF decided
<1>12. GoodRows(assigned)
  BY <1>11, GoodAssign
<1>13. /\ assigned.status = db.status /\ assigned.reviews = decided.reviews
       /\ assigned.asset[a].current = -r /\ assigned.asset[a].publication = "ready"
       /\ \A b \in Assets \ {a} : /\ assigned.asset[b].current = db.asset[b].current
                                  /\ assigned.asset[b].publication = db.asset[b].publication
  <2>1. GoodCatalog(decided.asset) /\ db.asset = decided.asset /\ GoodRows(decided) /\ a \in Assets
    BY <1>4, <1>11
  <2>2. assigned.status = decided.status
    BY <2>1, AssignOwn
  <2>3. assigned.reviews = decided.reviews
    BY <2>1, AssignOwn
  <2>4. ASSUME NEW b \in Assets
        PROVE  assigned.asset[b].current =
                  IF b = a /\ "current" \in DOMAIN new THEN new.current ELSE decided.asset[b].current
    BY <2>1, AssignOwn
  <2>5. ASSUME NEW b \in Assets
        PROVE  assigned.asset[b].publication =
                  IF b = a /\ "publication" \in DOMAIN new THEN new.publication
                  ELSE decided.asset[b].publication
    BY <2>1, AssignOwn
  <2> HIDE DEF assigned
  <2> QED
    BY <1>4, <1>7, <1>11, <2>1, <2>2, <2>3, <2>4, <2>5
<1>14. GoodCatalog(assigned.asset)
  <2>1. TypedRows(n, decided)
    <3>1. TypedRows(n, Invalidate(db, {a})) /\ GoodRows(Invalidate(db, {a}))
      BY <1>4, GoodInvalidate, TypedInvalidate
    <3> QED
      BY <3>1, TypedDecide DEF decided
  <2>2. GoodFields(new)
    BY DEF new, GoodFields, AssetFields, Content, Publication
  <2>3. TypedRows(n, assigned)
    BY <1>4, <1>11, <2>1, <2>2, TypedAssign
  <2> QED
    BY <2>3 DEF TypedRows
<1> HIDE DEF assigned
<1>15. /\ promoted.asset = assigned.asset /\ promoted.reviews = assigned.reviews
       /\ promoted.status = Updated(db.status, status) /\ GoodRows(promoted)
  <2> HIDE DEF status
  <2> QED
    BY <1>12, <1>13 DEF GoodRows, RowNames
<1>16. /\ DOMAIN promoted.status = DOMAIN db.status \cup {-r}
       /\ promoted.status[r] = "superseded" /\ promoted.status[-r] = "approved"
       /\ \A x \in DOMAIN db.status \ {r, -r} : promoted.status[x] = db.status[x]
  <2>1. DOMAIN status = {r, -r} /\ status[r] = "superseded" /\ status[-r] = "approved"
    BY <1>5
  <2> HIDE DEF promoted, status
  <2> QED
    BY <1>2, <1>15, <2>1 DEF Updated
<1> HIDE DEF promoted
<1>17. /\ rows.status = promoted.status /\ rows.reviews = promoted.reviews
       /\ \A b \in Assets : /\ rows.asset[b].current = promoted.asset[b].current
                            /\ rows.asset[b].publication \in {promoted.asset[b].publication, "blocked"}
  BY <1>14, <1>15, BlockedRows
<1> HIDE DEF rows
<1>18. /\ rows.reviews = db.reviews \cup {review}
       /\ rows.asset[a].current = -r
       /\ \A b \in Assets \ {a} : rows.asset[b].current = db.asset[b].current
       /\ \A b \in Assets : rows.asset[b].publication = "published" =>
             b # a /\ db.asset[b].publication = "published"
  <2>1. rows.reviews = db.reviews \cup {review}
    BY <1>11, <1>13, <1>15, <1>17
  <2>2. \A b \in Assets : /\ rows.asset[b].current = assigned.asset[b].current
                          /\ rows.asset[b].publication = "published" =>
                                assigned.asset[b].publication = "published"
    BY <1>15, <1>17
  <2>3. rows.asset[a].current = -r /\ rows.asset[a].publication # "published"
    BY <1>4, <1>13, <2>2
  <2>4. \A b \in Assets \ {a} : /\ rows.asset[b].current = db.asset[b].current
                                /\ rows.asset[b].publication = "published" =>
                                      db.asset[b].publication = "published"
    BY <1>13, <2>2
  <2> QED
    BY <2>1, <2>3, <2>4
<1>19. /\ e1.file = "artifacts"
       /\ e2.file = "revision" /\ e2.revision = -r
       /\ e3.file = "review" /\ e3.review = review
       /\ e4.file = "catalog" /\ e4.asset = a /\ e4.fields = new /\ e4.superseded = {r}
  BY DEF InCatalog
<1> HIDE DEF e1, e2, e3, e4
<1>20. /\ Len(todo) = 4 /\ todo[1] = e1 /\ todo[2] = e2 /\ todo[3] = e3 /\ todo[4] = e4
       /\ \A k \in 1 .. Len(todo) : k = 1 \/ k = 2 \/ k = 3 \/ k = 4
  OBVIOUS
<1> HIDE DEF todo
<1>21. /\ \A x : x \in files.revisions \/ x = -r =>
              RevisionBy(files, todo, 4, x) /\ RevisionBy(files, todo, 5, x)
       /\ \A v : v \in files.reviews \/ v = review => ReviewBy(files, todo, 5, v)
       /\ ApprovedBy(files, todo, 4, -r)
       /\ \A b, x : (\E m \in files.manifests : Releases(m, b, x)) => ReleasedBy(files, todo, 5, b, x)
       /\ \A x : Superseding(files, todo, x) <=> x \in files.superseded \/ x = r
       /\ \A x : Reviewed(files, todo, x) <=> (\E v \in files.reviews : v.revision = x) \/ x = -r
  <2>1. 2 \in 1 .. 4 - 1 /\ 3 \in 1 .. 4 - 1 /\ 2 \in 1 .. 5 - 1 /\ 3 \in 1 .. 5 - 1
    OBVIOUS
  <2>2. \A x : x \in files.revisions \/ x = -r =>
              RevisionBy(files, todo, 4, x) /\ RevisionBy(files, todo, 5, x)
    BY <1>19, <1>20, <2>1 DEF RevisionBy
  <2>3. \A v : v \in files.reviews \/ v = review => ReviewBy(files, todo, 5, v)
    BY <1>19, <1>20, <2>1 DEF ReviewBy
  <2>4. ApprovedBy(files, todo, 4, -r)
    BY <1>6, <1>19, <1>20, <2>1 DEF ApprovedBy, Approves
  <2>5. \A x : Superseding(files, todo, x) <=> x \in files.superseded \/ x = r
    BY <1>19, <1>20 DEF Superseding
  <2>6. \A x : Reviewed(files, todo, x) <=> (\E v \in files.reviews : v.revision = x) \/ x = -r
    BY <1>6, <1>19, <1>20 DEF Reviewed
  <2> QED
    BY <2>2, <2>3, <2>4, <2>5, <2>6 DEF ReleasedBy
<1>22. \A b \in Assets : LET x == db.asset[b].current
                         IN  x # None => x \in DOMAIN db.status /\ x # r /\ db.status[x] = "approved"
  BY <1>2 DEF AtRest
<1>23. RowsSound(files, todo, rows)
  <2>1. ASSUME NEW b \in Assets, NEW x, x = rows.asset[b].current
        PROVE  /\ x # None => /\ x \in DOMAIN rows.status /\ rows.status[x] = "approved"
                              /\ \E v \in rows.reviews : Approves(v, x)
               /\ rows.asset[b].publication = "published" => ReleasedBy(files, todo, Len(todo) + 1, b, x)
    <3>1. CASE b = a
      BY <1>6, <1>16, <1>17, <1>18, <2>1, <3>1 DEF Approves
    <3>2. CASE b # a
      <4>1. x = db.asset[b].current
        BY <1>18, <2>1, <3>2
      <4>2. x # None => rows.status[x] = "approved" /\ x \in DOMAIN rows.status
        BY <1>16, <1>17, <1>22, <4>1
      <4> QED
        BY <1>2, <1>18, <1>20, <1>21, <4>1, <4>2 DEF AtRest
    <3> QED
      BY <3>1, <3>2
  <2>2. ASSUME NEW x \in DOMAIN rows.status
        PROVE  /\ RevisionBy(files, todo, Len(todo) + 1, x)
               /\ rows.status[x] = "pending" =>
                     x > 0 /\ ~Superseding(files, todo, x) /\ ~Reviewed(files, todo, x)
    <3>1. CASE x = r \/ x = -r
      BY <1>2, <1>16, <1>17, <1>20, <1>21, <3>1 DEF AtRest
    <3>2. CASE x # r /\ x # -r
      BY <1>2, <1>16, <1>17, <1>20, <1>21, <3>2 DEF AtRest
    <3> QED
      BY <3>1, <3>2
  <2>3. \A v \in rows.reviews : ReviewBy(files, todo, Len(todo) + 1, v)
    BY <1>2, <1>18, <1>20, <1>21 DEF AtRest
  <2> QED
    BY <2>1, <2>2, <2>3 DEF RowsSound
<1>24. ReviewSound(n, files, todo, review)
  <2>1. \A w \in files.reviews : Agree(review, w)
    BY <1>2, <1>5, <1>6 DEF FilesSound, GoodReview, Agree
  <2>2. \A i \in 1 .. Len(todo) : todo[i].file = "review" => Agree(review, todo[i].review)
    BY <1>19, <1>20 DEF Agree
  <2> QED
    BY <1>5, <1>6, <2>1, <2>2 DEF ReviewSound, GoodReview
<1>25. CatalogSound(n, files, todo, rows, 4, e4)
  <2>1. -r \notin files.superseded
    BY <1>2, <1>5 DEF FilesSound
  <2> QED
    BY <1>4, <1>5, <1>7, <1>18, <1>19, <1>21, <2>1 DEF CatalogSound
<1>26. TodoSound(n, files, todo, rows)
  <2>1. \A k \in 1 .. Len(todo) :
            /\ todo[k].file = "review" => ReviewSound(n, files, todo, todo[k].review)
            /\ todo[k].file = "catalog" => CatalogSound(n, files, todo, rows, k, todo[k])
    BY <1>19, <1>20, <1>24, <1>25
  <2>2. \A j, k \in 1 .. Len(todo) :
            todo[j].file = "catalog" /\ todo[k].file = "catalog" =>
                (HasCurrent(todo[j]) <=> HasCurrent(todo[k]))
    BY <1>19, <1>20
  <2>3. ASSUME NEW b \in Assets, NEW x, x = files.catalog[b].current
        PROVE  /\ x # None => ~Superseding(files, todo, x)
               /\ x # rows.asset[b].current =>
                     \E k \in 1 .. Len(todo) : HasCurrent(todo[k]) /\ todo[k].asset = b
    <3>1. x = db.asset[b].current /\ (x # None => ~Superseding(files, todo, x))
      BY <1>2, <1>21, <1>22, <2>3 DEF AtRest
    <3>2. HasCurrent(todo[4]) /\ todo[4].asset = a /\ 4 \in 1 .. Len(todo)
      BY <1>7, <1>19, <1>20 DEF HasCurrent
    <3> QED
      BY <1>18, <3>1, <3>2
  <2> QED
    BY <2>1, <2>2, <2>3 DEF TodoSound
<1>27. Sound(n, files, todo, rows)
  BY <1>23, <1>26 DEF Sound
<1>28. Progress(p)' /\ Running(p)'
  BY <1>2, <1>3, <1>8, <1>9, <1>10, <1>27 DEF Alone, Progress, Running, n
<1> QED
  BY <1>3, <1>8, <1>28, CalmGoesOn DEF Alone

\* A release: the manifest, the pointer, and the catalogs of what is in it.
LEMMA CalmCreateRelease ==
    ASSUME IInv, TypeInv, NEW p \in Requests, Alone(p), CreateRelease(p)
    PROVE  CalmInv'
<1> DEFINE asked == req[p].asked
           n == Len(made)
           manifest == [id |-> 1 + Cardinality(files.manifests),
                        entries |-> {Entry(db, a) : a \in asked}]
           published == Publish(db, db, asked)
           rows == [published EXCEPT !.releases = @ \cup {manifest.id}]
           e1 == [file |-> "manifest", manifest |-> manifest]
           e2 == [file |-> "pointer", id |-> manifest.id]
           new == [publication |-> "published"]
           C == {InCatalog(a, new, {}) : a \in asked}
           t == <<e1, e2>>
           u == SetToSeq(C)
           todo == ReleaseFiles(manifest, asked)
<1>1. /\ req[p].pc = "read" /\ req[p].op = "release" /\ req[p].view = db
      /\ AtRest(files, db) /\ FilesSound(n, files)
  BY ReadAtRest DEF CreateRelease
<1>2. Hold(p, rows, todo) /\ made' = made
  BY <1>1 DEF CreateRelease
<1>3. GoodRows(db) /\ GoodCatalog(db.asset) /\ asked \in SUBSET Assets /\ n \in Nat
  BY <1>1, LenProperties DEF IInv, RowsInv, RequestInv, GoodRequest, TypeInv, TypedRows
<1>4. \A a \in asked : Releases(manifest, a, db.asset[a].current)
  <2>1. ASSUME NEW a \in asked
        PROVE  /\ Entry(db, a) \in manifest.entries
               /\ Entry(db, a).asset = a /\ Entry(db, a).revision = db.asset[a].current
    BY DEF Entry
  <2> HIDE DEF manifest
  <2> QED
    BY <2>1 DEF Releases
<1>5. /\ rows.status = db.status /\ rows.reviews = db.reviews
      /\ \A b \in Assets : /\ rows.asset[b].current = db.asset[b].current
                           /\ b \notin asked => rows.asset[b].publication = db.asset[b].publication
  <2> HIDE DEF manifest
  <2>1. /\ rows.status = db.status /\ rows.reviews = db.reviews
        /\ rows.asset = [b \in Assets |-> IF b \in asked
                                          THEN Flush(db.asset[b], db.asset[b], new)
                                          ELSE db.asset[b]]
    BY <1>3 DEF Publish, GoodRows, RowNames
  <2> HIDE DEF rows, asked
  <2>2. ASSUME NEW b \in Assets
        PROVE  Flush(db.asset[b], db.asset[b], new).current = db.asset[b].current
    BY <1>3 DEF Flush, GoodCatalog, GoodAsset, AssetFields
  <2> HIDE DEF new
  <2> QED
    BY <2>1, <2>2
<1>6. u \in Seq(C)
  <2> DEFINE f == [a \in asked |-> InCatalog(a, new, {})]
  <2>1. IsFiniteSet(asked)
    BY <1>3, AssetsAssumption, FS_Subset
  <2>2. IsFiniteSet({f[a] : a \in asked})
    BY <2>1, ImageIsFinite
  <2>3. C = {f[a] : a \in asked}
    OBVIOUS
  <2> HIDE DEF f, C
  <2> QED
    BY <2>2, <2>3, ListOf
<1>7. \A k \in 1 .. Len(u) : /\ u[k].file = "catalog" /\ u[k].asset \in asked
                             /\ u[k].fields = new /\ u[k].superseded = {}
  <2>1. \A e \in C : /\ e.file = "catalog" /\ e.asset \in asked
                     /\ e.fields = new /\ e.superseded = {}
    BY DEF InCatalog
  <2> HIDE DEF C, u, new
  <2> QED
    BY <1>6, <2>1
<1>8. todo = t \o u
  BY DEF ReleaseFiles
<1>9. e1.file = "manifest" /\ e1.manifest = manifest /\ e2.file = "pointer"
  OBVIOUS
<1> HIDE DEF e1, e2, manifest, rows, u, C, todo, asked
<1>10. /\ t \in Seq({e1, e2}) /\ Len(t) = 2 /\ t[1] = e1 /\ t[2] = e2
       /\ \A i \in 1 .. Len(t) : i = 1 \/ i = 2
  OBVIOUS
<1>11. "publication" \in DOMAIN new /\ "current" \notin DOMAIN new
  OBVIOUS
<1> HIDE DEF t, new, n
<1>12. \A k \in 1 .. Len(t) : t[k].file \notin {"revision", "review", "catalog"}
  BY <1>9, <1>10
<1>13. /\ \A x : RevisionBy(files, t, Len(t) + 1, x) <=> x \in files.revisions
       /\ \A v : ReviewBy(files, t, Len(t) + 1, v) <=> v \in files.reviews
       /\ \A x : Superseding(files, t, x) <=> x \in files.superseded
       /\ \A x : Reviewed(files, t, x) <=> \E v \in files.reviews : v.revision = x
  <2>1. \A k \in 1 .. (Len(t) + 1) - 1 : k \in 1 .. Len(t)
    BY <1>10
  <2> QED
    BY <1>12, <2>1 DEF RevisionBy, ReviewBy, Superseding, Reviewed
<1>14. ASSUME NEW a, NEW x, (a \in asked /\ x = db.asset[a].current)
                            \/ (\E m \in files.manifests : Releases(m, a, x))
       PROVE  ReleasedBy(files, t, Len(t) + 1, a, x)
  <2>1. 1 \in 1 .. (Len(t) + 1) - 1 /\ t[1].file = "manifest" /\ t[1].manifest = manifest
    BY <1>9, <1>10
  <2> QED
    BY <1>4, <1>14, <2>1 DEF ReleasedBy
<1>15. Sound(n, files, t, db)
  <2>1. RowsSound(files, t, db)
    BY <1>1, <1>13, <1>14 DEF AtRest, RowsSound
  <2>2. TodoSound(n, files, t, db)
    BY <1>1, <1>12, <1>13 DEF AtRest, TodoSound
  <2> QED
    BY <2>1, <2>2 DEF Sound
<1>16. GoesOn(n, files, t, u, db, rows)
  <2>1. ASSUME NEW a \in Assets
        PROVE  /\ rows.asset[a].current = db.asset[a].current
               /\ rows.asset[a].publication = "published" =>
                     ReleasedBy(files, t, Len(t) + 1, a, rows.asset[a].current)
    BY <1>1, <1>5, <1>14 DEF AtRest
  <2>2. ASSUME NEW k \in 1 .. Len(u)
        PROVE  /\ CatalogSound(n, files, t, rows, Len(t) + 1, u[k])
               /\ ~HasCurrent(u[k])
    <3>1. ReleasedBy(files, t, Len(t) + 1, u[k].asset, rows.asset[u[k].asset].current)
      BY <1>3, <1>5, <1>7, <1>14
    <3> QED
      BY <1>3, <1>7, <1>11, <3>1 DEF CatalogSound, HasCurrent
  <2> QED
    BY <1>5, <1>7, <1>12, <2>1, <2>2 DEF GoesOn
<1>17. Sound(n, files, todo, rows)
  BY <1>6, <1>8, <1>10, <1>15, <1>16, MoreSound
<1> QED
  BY <1>1, <1>2, <1>17, CalmHold DEF n

-----------------------------------------------------------------------------
(* Every step *)

\* Every step of a request that runs.
LEMMA CalmStep ==
    ASSUME IInv, TypeInv, CalmInv, Calm, NEW p \in Requests, Step(p)
    PROVE  CalmInv'
<1>1. Running(p)
  <2>1. CASE CreateRevision(p)
    BY <2>1 DEF CreateRevision, Running
  <2>2. CASE RejectRevision(p) \/ ApproveRevision(p)
    BY <2>2 DEF RejectRevision, ApproveRevision, Running
  <2>3. CASE Promote(p) \/ CommitMedia(p)
    BY <2>3 DEF Promote, CommitMedia, Running
  <2>4. CASE CreateRelation(p) \/ CreateRelease(p)
    BY <2>4 DEF CreateRelation, CreateRelease, Running
  <2>5. CASE WriteFile(p)
    BY <2>5 DEF WriteFile, Running
  <2>6. CASE Commit(p)
    BY <2>6 DEF Commit, IInv, RequestInv, GoodRequest, Running
  <2>7. CASE ReadHistory(p) \/ Rebuild(p)
    BY <2>7 DEF ReadHistory, Rebuild, Running
  <2> QED
    BY <2>1, <2>2, <2>3, <2>4, <2>5, <2>6, <2>7 DEF Step
<1>2. Alone(p)
  BY <1>1, RunsAlone
<1> QED
  BY <1>2, CalmCreateRevision, CalmRejectRevision, CalmApproveRevision, CalmPromote, CalmCommit,
     CalmCreateRelation, CalmCreateRelease, CalmWriteFile, CalmReadHistory, CalmRebuild DEF Step

\* CalmInv is inductive, beside IInv, TypeInv and CountInv.
LEMMA CalmHolds ==
    ASSUME IInv, TypeInv, CountInv, CalmInv, [Next]_vars
    PROVE  CalmInv'
<1>1. SUFFICES ASSUME Calm'
               PROVE  CalmInv'
  BY DEF CalmInv
<1>2. Calm
  BY <1>1, CountHolds
<1>3. CASE UNCHANGED vars
  <2>1. \A x, S : Invalidate(x, S)' = Invalidate(x, S)
    BY <1>3 DEF Invalidate, AssetOf, vars
  <2>2. \A x, b : BlockDependents(x, b)' = BlockDependents(x, b)
    BY <2>1 DEF BlockDependents
  <2>3. \A p : Outcome(p)' = Outcome(p)
    BY <1>3, <2>1, <2>2 DEF Outcome, MediaRows, vars
  <2>4. \A p : (Progress(p)' <=> Progress(p)) /\ (Running(p)' <=> Running(p))
    BY <1>3, <2>3 DEF Progress, Running, Read, vars
  <2> QED
    BY <1>3, <2>4 DEF CalmInv, Calm, Quiet, vars
<1>4. ASSUME NEW p \in Requests, FileFails(p)
      PROVE  FALSE
  BY <1>1, <1>2, <1>4 DEF FileFails, CountInv, Calm
<1>5. ASSUME NEW p \in Requests,
             \/ \E a \in Assets : StartCreate(p, a)
             \/ \E r \in DOMAIN db.status, v \in {"approve", "reject"} : StartReview(p, r, v)
             \/ \E rel \in Relations : StartRelate(p, rel)
             \/ \E asked \in SUBSET Assets : StartRelease(p, asked)
             \/ StartScan(p)
      PROVE  CalmInv'
  BY <1>1, <1>5, CalmStarts
<1>6. ASSUME NEW p \in Requests, Step(p)
      PROVE  CalmInv'
  BY <1>2, <1>6, CalmStep
<1>7. ASSUME NEW r, RunQa(r)
      PROVE  CalmInv'
  BY <1>1, <1>7, CalmRunQa
<1>8. CASE Crash \/ StartUp
  BY <1>2, <1>8, CalmCrash
<1> QED
  BY <1>3, <1>4, <1>5, <1>6, <1>7, <1>8 DEF Next

\* So it holds in every state.
LEMMA CalmInvariant == Spec => [](CountInv /\ CalmInv)
<1>1. Init => CountInv /\ CalmInv
  BY CalmInit
<1>2. IInv /\ TypeInv /\ CountInv /\ CalmInv /\ [Next]_vars => CountInv' /\ CalmInv'
  BY CountHolds, CalmHolds
<1> QED
  BY <1>1, <1>2, Invariant, TypesHold, PTL DEF Spec

-----------------------------------------------------------------------------
(* Results *)

\* When nothing runs, files and rows are at rest.
LEMMA UndisturbedRests ==
    ASSUME CountInv, CalmInv, Undisturbed
    PROVE  AtRest(files, db)
<1>1. Sound(Len(made), files, <<>>, db)
  BY DEF Undisturbed, CalmInv, Calm
<1> QED
  BY <1>1, RestIsSound

\* While no file fails and no request overlaps another, what is current is
\* approved, whoever crashes and whatever is scanned: reviews are written
\* before the catalog that makes a revision current, and superseded revisions
\* are named with the catalog that replaces them.
THEOREM CurrentIsApproved == Spec => []CurrentWasApproved
<1>1. CountInv /\ CalmInv => CurrentWasApproved
  BY UndisturbedRests DEF AtRest, Approves, CurrentWasApproved
<1> QED
  BY <1>1, CalmInvariant, PTL

\* And what is published is in a release: the manifest is written before any
\* of its catalogs, and whatever makes another revision current unpublishes.
THEOREM PublishedWasReleased == Spec => []PublishedIsReleased
<1>1. CountInv /\ CalmInv => PublishedIsReleased
  BY UndisturbedRests DEF AtRest, Releases, PublishedIsReleased
<1> QED
  BY <1>1, CalmInvariant, PTL
=============================================================================
