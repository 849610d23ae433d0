--------------------------- MODULE ReviewRelease ---------------------------
(***************************************************************************)
(* create_revision, create_review, create_relation, run_qa, create_release *)
(* and the scan, as the requests of several people.  A request reads its   *)
(* rows without a lock, takes the SQLite writer lock at its first flush,   *)
(* writes its files one by one and commits; approving media writes its     *)
(* files first.  The server may die between any two of these steps, and    *)
(* scans every project when it starts again.                               *)
(***************************************************************************)
EXTENDS ProjectIndex

CONSTANTS Requests,
          Relations,     \* the relations that may be created: [source, target, depicts]
          MaxRevisions, MaxReviews, MaxReleases,  \* bounds: calls of each kind
          MaxRelations, MaxScans, MaxQa,
          MaxTroubles    \* bound: requests started while another one runs, file
                         \* operations that fail and deaths of the server

ASSUME RequestsAssumption == IsFiniteSet(Requests)
ASSUME RelationsAssumption ==
    \A rel \in Relations :
        /\ rel.source \in Assets /\ rel.target \in Assets
        /\ rel.depicts => rel.source \in Media /\ rel.target \notin Media

VARIABLES req,    \* what each request is doing
          up,     \* FALSE between a death and the scan at the next start
          count   \* what the bounds bound

vars == <<made, files, db, req, up, count>>

\* view: the rows it read; rows: those it will commit; todo: its file writes;
\* locked: a file transaction holds the lock of the project, and has saved what
\* was there before; data: a relation, a promotion or the files a scan has read.
Idle == [op |-> "none", pc |-> "idle", asset |-> None, revision |-> None, asked |-> {},
         data |-> None, view |-> None, rows |-> None, todo |-> <<>>,
         locked |-> FALSE, saved |-> None]

Running(p) == req[p].pc # "idle"
WriterFree == \A p \in Requests : req[p].rows = None
ProjectLocked(p) == \E q \in Requests \ {p} : req[q].locked

Trouble == count.overlaps + count.faults + count.crashes < MaxTroubles

\* A call is counted, and as an overlap if another request is running.
Called(kind) ==
    LET other == \E q \in Requests : Running(q)
    IN  /\ up
        /\ other => Trouble
        /\ count' = [count EXCEPT ![kind] = @ + 1,
                                  !.overlaps = IF other THEN @ + 1 ELSE @]

\* A request begins: it reads the rows it decides by.
Begin(p, request, kind) ==
    /\ ~Running(p) /\ Called(kind)
    /\ req' = [req EXCEPT ![p] = [request EXCEPT !.view = db]]

\* It holds the writer lock, with these rows to commit and files to write.
Hold(p, rows, todo) ==
    /\ WriterFree
    /\ req' = [req EXCEPT ![p].pc = "files", ![p].rows = rows, ![p].todo = todo]
    /\ UNCHANGED <<files, db, up>>

InCatalog(a, fields, superseded) ==
    [file |-> "catalog", asset |-> a, fields |-> fields, superseded |-> superseded]

\* Rows and fields of an asset of which a request changes some fields.
Assign(rows, view, a, new) == [rows EXCEPT !.asset[a] = Flush(@, view.asset[a], new)]
Fields(view, a, new) == Updated(view.asset[a], new)

Invalidate(rows, assets) ==
    [rows EXCEPT !.valid = @ \ {v.id : v \in {w \in rows.reviews :
                                                   AssetOf(w.revision) \in assets}}]

\* Mutant: the row of the review is forgotten.
DecideUnrecorded(rows, review) == [rows EXCEPT !.valid = @ \cup {review.id}]

Decide(rows, review) ==
    [rows EXCEPT !.reviews = @ \cup {review}, !.valid = @ \cup {review.id}]

Pending(rows, a) == {r \in DOMAIN rows.status : AssetOf(r) = a /\ rows.status[r] = "pending"}
NewestPending(rows, a) ==
    IF Pending(rows, a) = {} THEN None
    ELSE CHOOSE r \in Pending(rows, a) : \A s \in Pending(rows, a) : s <= r

Dependents(rows, a) == {rel.source : rel \in {x \in rows.relations : x.target = a}}

\* Approving a blocks what depends on it.
BlockDependents(rows, a) ==
    LET blocked == Dependents(rows, a)
    IN  [Invalidate(rows, blocked) EXCEPT
            !.asset = [b \in Assets |-> IF b \in blocked
                                        THEN [@[b] EXCEPT !.publication = "blocked"] ELSE @[b]]]

-----------------------------------------------------------------------------
(* Candidates *)

StartCreate(p, a) ==
    /\ count.revisions < MaxRevisions
    /\ Begin(p, [Idle EXCEPT !.op = "create", !.pc = "read", !.asset = a], "revisions")
    /\ UNCHANGED <<made, files, db, up>>

\* Two requests that numbered their revision alike: the second one fails.
SameSequence(p) ==
    LET known(rows) == {r \in DOMAIN rows.status : AssetOf(r) = req[p].asset}
    IN  known(db) # known(req[p].view)

\* Every pending candidate is superseded by the new one, which the catalog
\* points to; the record of the revision is written before the catalog.
CreateRevision(p) ==
    LET a == req[p].asset
        r == Len(made) + 1
        old == Pending(req[p].view, a)
        new == IF req[p].view.asset[a].current = None
               THEN [candidate |-> r, content |-> "candidate", publication |-> "unpublished"]
               ELSE [candidate |-> r]
        rows == [Assign(db, req[p].view, a, new) EXCEPT
                    !.status = Updated(@, [x \in old \cup {r} |->
                                              IF x = r THEN "pending" ELSE "superseded"])]
    IN  /\ req[p].pc = "read" /\ req[p].op = "create"
        /\ IF SameSequence(p)
           THEN req' = [req EXCEPT ![p] = Idle] /\ UNCHANGED <<made, files, db, up>>
           ELSE /\ made' = Append(made, a)
                /\ Hold(p, rows, <<[file |-> "revision", revision |-> r],
                                   InCatalog(a, [candidate |-> r], old)>>)
        /\ UNCHANGED count

\* run_qa of a rendition: record and row; the latest verdict counts.
RunQa(r) ==
    /\ WriterFree /\ count.qa < MaxQa /\ Called("qa")
    /\ \A p \in Requests : ~req[p].locked
    /\ r \in DOMAIN db.status /\ AssetOf(r) \in Media
    /\ \E new, old \in {{}, {r}} :
          /\ new # old
          /\ db' = [db EXCEPT !.passed = (@ \cup new) \ old]
          /\ files' = [files EXCEPT !.passed = (@ \cup new) \ old]
    /\ UNCHANGED <<made, req, up>>

-----------------------------------------------------------------------------
(* Reviews *)

Review(id, r, verdict, dependencies) ==
    [id |-> id, revision |-> r, verdict |-> verdict, dependencies |-> dependencies]

\* Ids follow created_at; reviews that are still to be written count.
NextReview ==
    LET waiting == UNION {Range(req[q].todo) : q \in Requests}
    IN  1 + Cardinality(files.reviews \cup db.reviews \cup
                        {e.review : e \in {x \in waiting : x.file = "review"}})

StartReview(p, r, verdict) ==
    /\ count.reviews < MaxReviews
    /\ r \in DOMAIN db.status /\ db.status[r] = "pending"
    /\ LET media == verdict = "approve" /\ AssetOf(r) \in Media
       IN  /\ media => r \in db.passed
           /\ Begin(p, [Idle EXCEPT !.op = IF media THEN "approve_media" ELSE verdict,
                                    !.pc = IF media THEN "promote" ELSE "read",
                                    !.asset = AssetOf(r), !.revision = r], "reviews")
    /\ UNCHANGED <<made, files, db, up>>

RejectRevision(p) ==
    LET a == req[p].asset
        r == req[p].revision
        view == req[p].view
        review == Review(NextReview, r, "reject", Dependencies(db, a))
        decided == [Decide(Invalidate(db, {a}), review) EXCEPT !.status[r] = "rejected"]
        next == NewestPending(decided, a)
        new == IF view.asset[a].current = None
               THEN [candidate |-> next, content |-> "rejected", publication |-> "blocked"]
               ELSE [candidate |-> next]
    IN  /\ req[p].pc = "read" /\ req[p].op = "reject"
        /\ Hold(p, Assign(decided, view, a, new),
                <<[file |-> "review", review |-> review],
                  InCatalog(a, Fields(view, a, new), {})>>)
        /\ UNCHANGED <<made, count>>

\* _refresh_media_relation_approval: the approvals of media that depict the
\* target are renewed for their new dependencies, one after another.
Renewals(p, rows, todo, sources) ==
    LET order == SetToSeq(sources)
        first == NextReview + Cardinality({e \in Range(todo) : e.file = "review"})
    IN  [i \in DOMAIN order |->
            Review(first + i - 1, req[p].view.asset[order[i]].current, "approve",
                   Dependencies(rows, order[i]))]

\* For each source its review, and its catalog with the publication it had.
RenewalFiles(p, sources, renewals) ==
    LET view == req[p].view
        order == SetToSeq(sources)
        kept(a) == [publication |-> view.asset[a].publication]
    IN  [k \in 1 .. 2 * Len(order) |->
            IF k % 2 = 1 THEN [file |-> "review", review |-> renewals[(k + 1) \div 2]]
            ELSE InCatalog(order[k \div 2],
                           Fields(view, order[k \div 2], kept(order[k \div 2])), {})]

\* Mutant: only in the files.
RefreshFilesOnly(p, rows, todo, sources) ==
    [rows |-> rows,
     todo |-> todo \o RenewalFiles(p, sources, Renewals(p, rows, todo, sources))]

Refresh(p, rows, todo, sources) ==
    LET renewals == Renewals(p, rows, todo, sources)
        view == req[p].view
    IN  [rows |-> [rows EXCEPT
                      !.reviews = @ \cup Range(renewals),
                      !.valid = Invalidate(rows, sources).valid \cup {v.id : v \in Range(renewals)},
                      !.asset = [a \in Assets |->
                                    IF a \in sources
                                    THEN [@[a] EXCEPT !.publication = view.asset[a].publication]
                                    ELSE @[a]]],
         todo |-> todo \o RenewalFiles(p, sources, renewals)]

Depicting(rows, a) ==
    {rel.source : rel \in {x \in rows.relations :
        /\ x.target = a /\ x.depicts /\ x.source \in Media
        /\ Approvals(rows, x.source) # {}}}

ApproveRevision(p) ==
    LET a == req[p].asset
        r == req[p].revision
        view == req[p].view
        review == Review(NextReview, r, "approve", Dependencies(db, a))
        decided == [Decide(Invalidate(db, {a}), review) EXCEPT !.status[r] = "approved"]
        new == [current |-> r, content |-> "approved", publication |-> "ready",
                candidate |-> NewestPending(decided, a)]
        rows == BlockDependents(Assign(decided, view, a, new), a)
        todo == <<[file |-> "review", review |-> review],
                  InCatalog(a, Fields(view, a, new), {})>>
        first == IF view.asset[a].current = None THEN Depicting(view, a) ELSE {}
        all == Refresh(p, rows, todo, first)
    IN  /\ req[p].pc = "read" /\ req[p].op = "approve"
        /\ Hold(p, all.rows, all.todo)
        /\ UNCHANGED <<made, count>>

\* commit_media_approval: the artifacts of the durable revision, the revision
\* with its QA record, the review, and at last the catalog.
\* Mutant: the catalog before the review.
PromotionFilesCatalogFirst(r, review, a, new) ==
    <<[file |-> "artifacts", revision |-> -r], [file |-> "revision", revision |-> -r],
      InCatalog(a, new, {r}), [file |-> "review", review |-> review]>>

PromotionFiles(r, review, a, new) ==
    <<[file |-> "artifacts", revision |-> -r], [file |-> "revision", revision |-> -r],
      [file |-> "review", review |-> review], InCatalog(a, new, {r})>>

\* _approve_media_revision: the blobs and records of the promoted revision,
\* its review and the catalog, as one file transaction, before any row.
Promote(p) ==
    LET a == req[p].asset
        r == req[p].revision
        view == req[p].view
        review == Review(NextReview, -r, "approve", Dependencies(view, a))
        next == NewestPending([view EXCEPT !.status[r] = "superseded"], a)
        new == [current |-> -r, content |-> "approved", publication |-> "ready",
                candidate |-> next]
    IN  /\ req[p].pc = "promote"
        /\ req' = [req EXCEPT ![p].pc = "files", ![p].todo = PromotionFiles(r, review, a, new),
              ![p].data = [review |-> review, new |-> new]]
        /\ UNCHANGED <<made, files, db, up, count>>

\* Then the rows, unless a revision of that number appeared meanwhile.
CommitMedia(p) ==
    LET a == req[p].asset
        r == req[p].revision
        rows == [Assign(Decide(Invalidate(db, {a}), req[p].data.review),
                        req[p].view, a, req[p].data.new) EXCEPT
                    !.status = Updated(@, [x \in {r, -r} |->
                                              IF x = r THEN "superseded" ELSE "approved"]),
                    !.passed = @ \cup {-r}]
    IN  /\ req[p].pc = "files" /\ req[p].op = "approve_media" /\ req[p].todo = <<>>
        /\ WriterFree
        /\ db' = IF SameSequence(p) THEN db ELSE BlockDependents(rows, a)
        /\ req' = [req EXCEPT ![p] = Idle]
        /\ UNCHANGED <<made, files, up, count>>

StartRelate(p, relation) ==
    /\ count.relations < MaxRelations
    /\ Begin(p, [Idle EXCEPT !.op = "relate", !.pc = "read", !.data = relation], "relations")
    /\ UNCHANGED <<made, files, db, up>>

CreateRelation(p) ==
    LET rel == req[p].data
        rows == [db EXCEPT !.relations = @ \cup {rel}]
        write == [file |-> "relations", relations |-> rows.relations]
    IN  /\ req[p].pc = "read" /\ req[p].op = "relate"
        /\ IF rel \in db.relations
           THEN req' = [req EXCEPT ![p] = Idle] /\ UNCHANGED <<files, db, up>>
           ELSE IF rel.depicts /\ Approvals(req[p].view, rel.source) # {}
           THEN LET all == Refresh(p, rows, <<>>, {rel.source})
                IN  Hold(p, all.rows, Append(all.todo, write))
           ELSE Hold(p, rows, <<write>>)
        /\ UNCHANGED <<made, count>>

-----------------------------------------------------------------------------
(* Releases *)

\* The preflight reads what it checks before anything is locked.
StartRelease(p, asked) ==
    /\ count.releases < MaxReleases
    /\ Preflight(db, asked)
    /\ Begin(p, [Idle EXCEPT !.op = "release", !.pc = "read", !.asked = asked], "releases")
    /\ UNCHANGED <<made, files, db, up>>

Entry(rows, a) == [asset |-> a, revision |-> rows.asset[a].current,
                   dependencies |-> Latest(Approvals(rows, a)).dependencies]

\* Mutant: every approved asset is marked, not only those released.
PublishAll(rows, view, asked) ==
    [rows EXCEPT !.asset = [a \in Assets |->
        IF a \in Approved(view) THEN Flush(@[a], view.asset[a], [publication |-> "published"])
        ELSE @[a]]]

Publish(rows, view, asked) ==
    [rows EXCEPT !.asset = [a \in Assets |->
        IF a \in asked THEN Flush(@[a], view.asset[a], [publication |-> "published"]) ELSE @[a]]]

\* The versioned manifest, then the pointer, then the catalogs.
\* Mutant: the pointer first.
ReleaseFilesPointerFirst(manifest, asked) ==
    <<[file |-> "pointer", id |-> manifest.id],
      [file |-> "manifest", manifest |-> manifest]>> \o
    SetToSeq({InCatalog(a, [publication |-> "published"], {}) : a \in asked})

ReleaseFiles(manifest, asked) ==
    <<[file |-> "manifest", manifest |-> manifest],
      [file |-> "pointer", id |-> manifest.id]>> \o
    SetToSeq({InCatalog(a, [publication |-> "published"], {}) : a \in asked})

CreateRelease(p) ==
    LET view == req[p].view
        asked == req[p].asked
        manifest == [id |-> 1 + Cardinality(files.manifests),
                     entries |-> {Entry(view, a) : a \in asked}]
        rows == [Publish(db, view, asked) EXCEPT !.releases = @ \cup {manifest.id}]
    IN  /\ req[p].pc = "read" /\ req[p].op = "release"
        /\ Hold(p, rows, ReleaseFiles(manifest, asked))
        /\ UNCHANGED <<made, count>>

-----------------------------------------------------------------------------
(* Files, commits and failures *)

Written(e) ==
    CASE e.file = "artifacts" -> [files EXCEPT !.artifacts = @ \cup {e.revision}]
      [] e.file = "revision" -> [files EXCEPT !.revisions = @ \cup {e.revision},
              !.passed = IF e.revision < 0 THEN @ \cup {e.revision} ELSE @]
      [] e.file = "review" -> [files EXCEPT !.reviews = @ \cup {e.review}]
      [] e.file = "relations" -> [files EXCEPT !.relations = e.relations]
      [] e.file = "manifest" -> [files EXCEPT !.manifests = @ \cup {e.manifest}]
      [] e.file = "pointer" -> [files EXCEPT !.pointer = e.id]
      [] e.file = "catalog" -> [files EXCEPT !.catalog[e.asset] = Updated(@, e.fields),
                                             !.superseded = @ \cup e.superseded]

\* commit_media_approval and commit_release hold the lock of the project for
\* all their files; the other requests take it for one file at a time.
Transaction(p) == req[p].op \in {"approve_media", "release"}

\* Mutant: media approval keeps it until its rows are committed.
WriteFileLockKept(p) ==
    /\ req[p].pc = "files" /\ req[p].todo # <<>>
    /\ ~ProjectLocked(p)
    /\ files' = Written(Head(req[p].todo))
    /\ req' = [req EXCEPT ![p].todo = Tail(@),
                  ![p].locked = Transaction(p),
                  ![p].saved = IF ~Transaction(p) THEN None
                               ELSE IF req[p].locked THEN @ ELSE files]
    /\ UNCHANGED <<made, db, up, count>>

WriteFile(p) ==
    LET goesOn == Transaction(p) /\ Tail(req[p].todo) # <<>>
    IN  /\ req[p].pc = "files" /\ req[p].todo # <<>>
        /\ ~ProjectLocked(p)
        /\ files' = Written(Head(req[p].todo))
        /\ req' = [req EXCEPT ![p].todo = Tail(@),
                      ![p].locked = goesOn,
                      ![p].saved = IF ~goesOn THEN None ELSE IF req[p].locked THEN @ ELSE files]
        /\ UNCHANGED <<made, db, up, count>>

Commit(p) ==
    /\ req[p].rows # None /\ req[p].todo = <<>>
    /\ db' = req[p].rows
    /\ req' = [req EXCEPT ![p] = Idle]
    /\ UNCHANGED <<made, files, up, count>>

\* A write fails: the rows are rolled back; a file transaction puts back what
\* it replaced and removes what it created, other files stay.
FileFails(p) ==
    /\ req[p].pc = "files" /\ req[p].todo # <<>>
    /\ Trouble /\ ~ProjectLocked(p)
    /\ count' = [count EXCEPT !.faults = @ + 1]
    /\ files' = IF req[p].locked THEN req[p].saved ELSE files
    /\ req' = [req EXCEPT ![p] = Idle]
    /\ UNCHANGED <<made, db, up>>

\* The scan reads catalogs and relations, then the history, then writes.
StartScan(p) ==
    /\ count.scans < MaxScans
    /\ \A q \in Requests : req[q].op # "scan"
    /\ Begin(p, [Idle EXCEPT !.op = "scan", !.pc = "history", !.data = files], "scans")
    /\ UNCHANGED <<made, files, db, up>>

ReadHistory(p) ==
    /\ req[p].pc = "history"
    /\ req' = [req EXCEPT ![p].pc = "rebuild",
           ![p].data = [files EXCEPT !.catalog = req[p].data.catalog,
                                         !.superseded = req[p].data.superseded,
                                         !.relations = req[p].data.relations]]
    /\ UNCHANGED <<made, files, db, up, count>>

Rebuild(p) ==
    /\ req[p].pc = "rebuild" /\ WriterFree
    /\ db' = Rebuilt(req[p].data, db)
    /\ req' = [req EXCEPT ![p] = Idle]
    /\ UNCHANGED <<made, files, up, count>>

Crash ==
    /\ up /\ Trouble
    /\ \E p \in Requests : Running(p)
    /\ up' = FALSE
    /\ req' = [p \in Requests |-> Idle]
    /\ count' = [count EXCEPT !.crashes = @ + 1]
    /\ UNCHANGED <<made, files, db>>

StartUp ==
    /\ ~up /\ up' = TRUE
    /\ db' = Rebuilt(files, db)
    /\ UNCHANGED <<made, files, req, count>>

Init ==
    /\ made = <<>> /\ files = NewFiles /\ db = NewRows
    /\ req = [p \in Requests |-> Idle] /\ up = TRUE
    /\ count = [k \in {"revisions", "reviews", "releases", "relations", "scans", "qa",
                       "overlaps", "faults", "crashes"} |-> 0]

Step(p) ==
    \/ CreateRevision(p) \/ RejectRevision(p) \/ ApproveRevision(p)
    \/ Promote(p) \/ CommitMedia(p) \/ CreateRelation(p) \/ CreateRelease(p)
    \/ WriteFile(p) \/ Commit(p) \/ ReadHistory(p) \/ Rebuild(p)

Next ==
    \/ \E p \in Requests :
          \/ \E a \in Assets : StartCreate(p, a)
          \/ \E r \in DOMAIN db.status, v \in {"approve", "reject"} : StartReview(p, r, v)
          \/ \E rel \in Relations : StartRelate(p, rel)
          \/ \E asked \in SUBSET Assets : StartRelease(p, asked)
          \/ StartScan(p) \/ Step(p) \/ FileFails(p)
    \/ \E r \in DOMAIN db.status : RunQa(r)
    \/ Crash \/ StartUp

Spec == Init /\ [][Next]_vars

-----------------------------------------------------------------------------
(* Properties *)

Quiet == up /\ \A p \in Requests : ~Running(p)
Undisturbed == Quiet /\ count.faults = 0 /\ count.overlaps = 0

TypeOK ==
    /\ made \in Seq(Assets)
    /\ \A a \in Assets : /\ db.asset[a].content \in Content
                         /\ db.asset[a].publication \in Publication
    /\ \A r \in DOMAIN db.status : db.status[r] \in Status
    /\ db.valid \subseteq {v.id : v \in db.reviews}
    /\ up \in BOOLEAN

\* architecture.md: SQLite is an index that a scan rebuilds.  Without lost
\* writes, what may be released is the same before and after a scan.  Only a
\* crash may leave an approval that waits for its relation in the files: when
\* the relation is made again the scan accepts it, and the rows do not.
RebuildAgrees ==
    Undisturbed =>
        \A a \in Assets :
            /\ Preflight(db, {a}) => Preflight(Rebuilt(files, db), {a})
            /\ Preflight(Rebuilt(files, db), {a}) =>
                  \/ Preflight(db, {a})
                  \/ count.crashes > 0 /\ \E rel \in db.relations : rel.source = a

\* The current revision was approved and is still so: no crash, failed file
\* or scan makes current what was rejected, superseded or never reviewed.
CurrentWasApproved ==
    Undisturbed =>
        \A a \in Assets : db.asset[a].current # None =>
            /\ db.status[db.asset[a].current] = "approved"
            /\ \E v \in db.reviews : v.revision = db.asset[a].current /\ v.verdict = "approve"

\* Whatever overlaps, fails or dies: the assets of one release fit together;
\* each was approved with the very revisions the release has of the others.
ReleaseConsistent ==
    \A m \in files.manifests : \A e, g \in m.entries :
        \A d \in e.dependencies : d[1] = g.asset => d[2] = g.revision

\* The pointer names a complete manifest at every instant.
PointerHasManifest == files.pointer # None => \E m \in files.manifests : m.id = files.pointer

\* The SQLite writer lock and the lock of the project never wait for each other.
Blocked(p) ==
    \/ req[p].pc = "files" /\ req[p].todo # <<>> /\ ProjectLocked(p)
    \/ /\ \/ req[p].pc \in {"read", "rebuild"}
          \/ req[p].pc = "files" /\ req[p].todo = <<>> /\ req[p].rows = None
       /\ ~WriterFree

NoDeadlock ==
    (\E p \in Requests : Running(p)) => \E p \in Requests : Running(p) /\ ~Blocked(p)

\* What is marked published is in a release.
PublishedIsReleased ==
    Undisturbed =>
        \A a \in Assets : db.asset[a].publication = "published" =>
            \E m \in files.manifests : \E e \in m.entries :
                e.asset = a /\ e.revision = db.asset[a].current
=============================================================================
