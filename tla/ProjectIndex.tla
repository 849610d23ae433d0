---------------------------- MODULE ProjectIndex ----------------------------
(***************************************************************************)
(* A project twice: its files, which hold the facts, and the SQLite rows   *)
(* that services._scan_project rebuilds from what storage.scan_full reads. *)
(*                                                                         *)
(* A candidate revision is a number, in creation order; -r is the durable  *)
(* revision that the approval of media candidate r promotes it to.  A      *)
(* dependency hash is the set it is computed from: the current revisions   *)
(* of the assets a relation points to.  Left out: revision content, blobs, *)
(* deliveries, agent records.                                              *)
(***************************************************************************)
EXTENDS Integers, FiniteSets, Sequences, SequencesExt, Functions

CONSTANTS Assets, Media, None

ASSUME MediaAssumption == Media \subseteq Assets
ASSUME AssetsAssumption == IsFiniteSet(Assets)
ASSUME NoneAssumption == None \notin Int

VARIABLES made,   \* the asset of each revision ever asked for, in order
          files,  \* catalog, relations, and the immutable history
          db      \* the committed rows

Status == {"pending", "approved", "rejected", "superseded"}
Content == {"draft", "candidate", "approved", "rejected"}
Publication == {"unpublished", "ready", "blocked", "published"}

AssetOf(r) == made[IF r < 0 THEN -r ELSE r]

NewAsset == [current |-> None, candidate |-> None, content |-> "draft",
             publication |-> "unpublished"]

NewFiles == [catalog |-> [a \in Assets |-> NewAsset], superseded |-> {}, relations |-> {},
             artifacts |-> {}, revisions |-> {}, reviews |-> {}, passed |-> {},
             manifests |-> {}, pointer |-> None]

NewRows == [asset |-> [a \in Assets |-> NewAsset], status |-> <<>>, relations |-> {},
            reviews |-> {}, valid |-> {}, passed |-> {}, releases |-> {}]

\* old, with the values of new where it has any.
Updated(old, new) ==
    [x \in DOMAIN old \cup DOMAIN new |-> IF x \in DOMAIN new THEN new[x] ELSE old[x]]

Latest(reviews) == CHOOSE v \in reviews : \A w \in reviews : w.id <= v.id

-----------------------------------------------------------------------------
(* Approvals, as the rows tell them *)

\* dependency_hash of the current revision of a, or of one of its candidates.
Dependencies(rows, a) ==
    {<<rel.target, rows.asset[rel.target].current, rel.depicts>> :
        rel \in {x \in rows.relations : x.source = a}}

\* The valid approval of a's current revision, if it is not stale.
\* Mutant: nobody compares the dependency hashes.
ApprovalsUnhashed(rows, a) ==
    {v \in rows.reviews :
        /\ v.id \in rows.valid /\ v.verdict = "approve"
        /\ v.revision = rows.asset[a].current}

Approvals(rows, a) ==
    {v \in rows.reviews :
        /\ v.id \in rows.valid /\ v.verdict = "approve"
        /\ v.revision = rows.asset[a].current
        /\ v.dependencies = Dependencies(rows, a)}

Approved(rows) == {a \in Assets : rows.asset[a].content = "approved"}

\* _release_preflight of the assets asked for: all of them, or none.
Preflight(rows, asked) ==
    /\ asked # {}
    /\ \A a \in asked :
          /\ rows.asset[a].content = "approved"
          /\ Approvals(rows, a) # {}
          /\ a \in Media => rows.asset[a].current \in rows.passed

\* ORM: an attribute is written when it differs from the one that was loaded.
Flush(row, loaded, new) ==
    [f \in DOMAIN row |->
        IF f \in DOMAIN new /\ new[f] # loaded[f] THEN new[f] ELSE row[f]]

-----------------------------------------------------------------------------
(* The scan *)

\* scan_full: what the files say of a revision.
ScannedStatus(f, r) ==
    LET reviews == {v \in f.reviews : v.revision = r}
    IN  CASE r \in f.superseded -> "superseded"
          [] r \notin f.superseded /\ reviews # {} ->
                IF Latest(reviews).verdict = "approve" THEN "approved" ELSE "rejected"
          [] OTHER -> IF r < 0 THEN "approved" ELSE "pending"

\* Every scan reports an artifact whose revision was never written.
ScanErrors(f) == f.artifacts \ f.revisions

\* QA runs and reviews of known revisions.
IndexedPassed(f) == f.passed \cap f.revisions

Known(f) == {v \in f.reviews : v.revision \in f.revisions}

\* Of each asset only the latest review can be valid.
Deciding(f) == {v \in Known(f) :
    \A w \in Known(f) : AssetOf(w.revision) = AssetOf(v.revision) => w.id <= v.id}

StillValid(f, v) ==
    \/ v.verdict = "reject"
    \/ /\ f.catalog[AssetOf(v.revision)].current = v.revision
       /\ v.dependencies = Dependencies([relations |-> f.relations, asset |-> f.catalog],
                                        AssetOf(v.revision))

\* An asset whose current revision has lost its approval is blocked.
ScannedAsset(f, a) ==
    IF \E v \in Deciding(f) : /\ AssetOf(v.revision) = a
                              /\ f.catalog[a].current = v.revision
                              /\ ~StillValid(f, v)
    THEN [f.catalog[a] EXCEPT !.publication = "blocked"]
    ELSE f.catalog[a]

\* The rows that the files bear out.
Scanned(f) ==
    [asset     |-> [a \in Assets |-> ScannedAsset(f, a)],
     status    |-> [r \in f.revisions |-> ScannedStatus(f, r)],
     relations |-> f.relations,
     reviews   |-> Known(f),
     valid     |-> {v.id : v \in {w \in Deciding(f) : StillValid(f, w)}},
     passed    |-> IndexedPassed(f),
     releases  |-> {m.id : m \in f.manifests}]

\* Rows that no file bears out: they stay as long as the scan has an error.
Kept(f, rows) ==
    [status    |-> Restrict(rows.status, DOMAIN rows.status \ f.revisions),
     relations |-> rows.relations,
     reviews   |-> rows.reviews,
     valid     |-> rows.valid \ {v.id : v \in Known(f)},
     passed    |-> rows.passed \ f.revisions,
     releases  |-> rows.releases]

\* _scan_project
Rebuilt(f, rows) ==
    LET new == Scanned(f)
        old == Kept(f, rows)
    IN  IF ScanErrors(f) = {} THEN new
        ELSE [asset     |-> new.asset,
              status    |-> Updated(old.status, new.status),
              relations |-> new.relations \cup old.relations,
              reviews   |-> new.reviews \cup old.reviews,
              valid     |-> new.valid \cup old.valid,
              passed    |-> new.passed \cup old.passed,
              releases  |-> new.releases \cup old.releases]
=============================================================================
