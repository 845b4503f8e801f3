---------------------------- MODULE SnapshotStore ----------------------------
(***************************************************************************)
(* The catalog half of the SQLite store and the commands around it:        *)
(* `deals sync` (walk, gate, SaveDealSnapshot, PruneSnapshots), `deals     *)
(* diff` (SnapshotIDs, two LoadSnapshots, DiffDeals), run as separate      *)
(* processes over one file.                                                *)
(*                                                                         *)
(* A walk is one step here: CatalogWalk has the detail, and shows that a   *)
(* certified walk hands over the catalog it began with unless deals both   *)
(* joined and left under it, a case left out here.  A statement is one     *)
(* step, since SQLite runs each atomically; a transaction works on its own *)
(* copy until it commits.  A version stands for the fields                 *)
(* comparePricesAndStock compares.                                         *)
(***************************************************************************)
EXTENDS Integers, FiniteSets

CONSTANTS
  Slugs,      \* deals, by slug
  Versions,   \* what the price, stock and end-date fields of a deal can say
  Syncers,    \* processes running `deals sync`
  Differs,    \* processes running `deals diff`
  Keep,       \* --keep: snapshots to keep, 0 for all
  MaxSyncs,   \* bound: snapshots stamped
  MaxMoves,   \* bound: changes of the live catalog
  NoOne       \* nobody

ASSUME KeepAssumption == Keep \in Nat
ASSUME StoreBounds == MaxSyncs \in Nat /\ MaxMoves \in Nat
ASSUME NoOneAssumption == NoOne \notin Syncers

VARIABLES
  \* the world
  catalog,    \* the deals listed now
  moves,      \* how often it changed
  clock,      \* time.Now(), in nanoseconds that never repeat
  \* the database file
  deals,      \* table deals: one row per slug
  snapshots,  \* table deal_snapshots: one row per stamp and slug
  writer,     \* the process that holds SQLite's write lock
  \* the processes
  sync, diff,
  \* history, read by the properties only
  taken,      \* what each stamp was given: the walk, its verdict, the catalog it walked
  commits,    \* snapshots committed
  overlapped  \* some sync was stamped while another was between stamp and commit

worldVars == <<catalog, moves, clock>>
dbVars == <<deals, snapshots, writer>>
historyVars == <<taken, commits, overlapped>>
vars == <<worldVars, dbVars, sync, diff, historyVars>>

DealRows == [slug : Slugs, version : Versions]
SnapshotRows == [slug : Slugs, version : Versions, at : Nat]

\* Sets of rows with at most one row per slug.
OnePerSlug(rows) == \A r, q \in rows : r.slug = q.slug => r = q
Catalogs == {c \in SUBSET DealRows : OnePerSlug(c)}
DealTables == {t \in SUBSET SnapshotRows : OnePerSlug(t)}

SlugsOf(rows) == {r.slug : r \in rows}

------------------------------------------------------------------------------
(* Queries of the store. *)

\* Mutants: no conflict clause; "on conflict do nothing"; a column missing from
\* the update list.
InsertDeal(table, row) == table \cup {row}
InsertOrIgnoreDeal(table, row) ==
  IF row.slug \in SlugsOf(table) THEN table ELSE table \cup {row}
UpsertAllButVersion(table, row) ==
  {r \in table : r.slug # row.slug}
    \cup {IF row.slug \in SlugsOf(table)
          THEN [row EXCEPT !.version = (CHOOSE r \in table : r.slug = row.slug).version]
          ELSE row}

\* insert ... on conflict do update: by slug in deals, by stamp and slug in
\* deal_snapshots.
UpsertDeal(table, row) == {r \in table : r.slug # row.slug} \cup {row}
UpsertSnapshot(table, row) ==
  {r \in table : ~(r.slug = row.slug /\ r.at = row.at)} \cup {row}

\* select snapshot_at from deal_snapshots group by snapshot_at
StampsIn(table) == {r.at : r \in table}
SnapshotIDs == StampsIn(snapshots)

After(stamps, t) == {x \in stamps : x > t}

\* order by snapshot_at desc limit n
Newest(stamps, n) == {t \in stamps : Cardinality(After(stamps, t)) < n}

LoadSnapshot(stamp) ==
  {[slug |-> r.slug, version |-> r.version] : r \in {q \in snapshots : q.at = stamp}}

\* appsumo.DiffDeals.
DiffDeals(before, after) ==
  [new     |-> SlugsOf(after) \ SlugsOf(before),
   gone    |-> SlugsOf(before) \ SlugsOf(after),
   changed |-> {s \in Slugs : \E r \in before, q \in after :
                                r.slug = s /\ q.slug = s /\ r.version # q.version}]

------------------------------------------------------------------------------
(* deals sync: what a process remembers depends on how far it got. *)

Idle == [phase |-> "idle"]

WalkedStates == [phase : {"walked"}, walk : SUBSET DealRows, was : SUBSET DealRows,
                 verdict : {"complete", "incomplete", "unknown"}]
SavingStates == [phase : {"saving"}, stamp : Nat, todo : SUBSET DealRows,
                 txDeals : DealTables, txSnapshots : SUBSET SnapshotRows]
PruningStates == [phase : {"pruning"}, cutoff : Nat]

SyncStates ==
  {Idle} \cup WalkedStates \cup SavingStates \cup {[phase |-> "saved"]} \cup PruningStates

Becomes(p, state) == sync' = [sync EXCEPT ![p] = state]

\* What FetchAllDeals can hand over: a certified walk is the catalog it walked
\* (CatalogWalk!CertifiedMeansServed), one that could not be checked may have
\* missed any row, and nothing of one known to be incomplete is ever read.
\* Bounded by the stamps that are left.
FetchAllDeals(p) ==
  /\ sync[p].phase = "idle" /\ clock <= MaxSyncs
  /\ \E walk \in SUBSET catalog, verdict \in {"complete", "incomplete", "unknown"} :
       /\ verdict = "complete" => walk = catalog
       /\ verdict = "incomplete" => walk = {}
       /\ Becomes(p, [phase |-> "walked", walk |-> walk, was |-> catalog, verdict |-> verdict])
  /\ UNCHANGED <<worldVars, dbVars, diff, historyVars>>

\* complete != nil && !*complete: only a verdict of "incomplete" is refused.
Refuses(p) == sync[p].verdict = "incomplete"

Refuse(p) ==
  /\ sync[p].phase = "walked" /\ Refuses(p)
  /\ Becomes(p, Idle)
  /\ UNCHANGED <<worldVars, dbVars, diff, historyVars>>

\* SaveDealSnapshot is called with time.Now(), before its transaction begins.
Stamp(p) ==
  /\ sync[p].phase = "walked" /\ ~Refuses(p)
  /\ clock <= MaxSyncs
  /\ clock' = clock + 1
  /\ Becomes(p, [phase |-> "saving", stamp |-> clock, todo |-> sync[p].walk,
                 txDeals |-> {}, txSnapshots |-> {}])
  /\ taken' = [taken EXCEPT ![clock] =
                 [rows |-> sync[p].walk, was |-> sync[p].was,
                  verified |-> sync[p].verdict = "complete"]]
  /\ overlapped' = (overlapped \/ \E q \in Syncers : sync[q].phase = "saving")
  /\ UNCHANGED <<catalog, moves, dbVars, diff, commits>>

\* The tables as a transaction of p sees them: as committed until its first
\* write takes the lock, then its own copy.
DealsSeenBy(p) == IF writer = p THEN sync[p].txDeals ELSE deals
SnapshotsSeenBy(p) == IF writer = p THEN sync[p].txSnapshots ELSE snapshots

\* One turn of the loop: both upserts of a deal.
WriteRow(p) ==
  /\ sync[p].phase = "saving" /\ writer \in {NoOne, p}
  /\ \E deal \in sync[p].todo :
       LET row == [slug |-> deal.slug, version |-> deal.version, at |-> sync[p].stamp]
       IN  Becomes(p, [phase |-> "saving", stamp |-> sync[p].stamp,
                       todo |-> sync[p].todo \ {deal},
                       txDeals |-> UpsertDeal(DealsSeenBy(p), row),
                       txSnapshots |-> UpsertSnapshot(SnapshotsSeenBy(p), row)])
  /\ writer' = p
  /\ UNCHANGED <<worldVars, deals, snapshots, diff, historyVars>>

\* An empty walk commits a transaction that wrote nothing.  --keep 0 does not
\* prune.
Commit(p) ==
  /\ sync[p].phase = "saving" /\ sync[p].todo = {}
  /\ deals' = DealsSeenBy(p) /\ snapshots' = SnapshotsSeenBy(p)
  /\ writer' = IF writer = p THEN NoOne ELSE writer
  /\ Becomes(p, IF Keep > 0 THEN [phase |-> "saved"] ELSE Idle)
  /\ commits' = commits + 1
  /\ UNCHANGED <<worldVars, diff, taken, overlapped>>

\* A mutant: the cutoff is the Keep-th newest stamp.
PruneReadOneShort(p) ==
  /\ sync[p].phase = "saved"
  /\ IF Cardinality(SnapshotIDs) < Keep
       THEN Becomes(p, Idle)
       ELSE \E c \in SnapshotIDs :
              /\ Cardinality(After(SnapshotIDs, c)) = Keep - 1
              /\ Becomes(p, [phase |-> "pruning", cutoff |-> c])
  /\ UNCHANGED <<worldVars, dbVars, diff, historyVars>>

\* PruneSnapshots reads the newest Keep + 1 stamps; with that many, the oldest
\* of them is the cutoff.
PruneRead(p) ==
  /\ sync[p].phase = "saved"
  /\ IF Cardinality(SnapshotIDs) <= Keep
       THEN Becomes(p, Idle)
       ELSE \E c \in SnapshotIDs :
              /\ Cardinality(After(SnapshotIDs, c)) = Keep
              /\ Becomes(p, [phase |-> "pruning", cutoff |-> c])
  /\ UNCHANGED <<worldVars, dbVars, diff, historyVars>>

\* delete from deal_snapshots where snapshot_at <= cutoff
PruneDelete(p) ==
  /\ sync[p].phase = "pruning" /\ writer = NoOne
  /\ snapshots' = {r \in snapshots : r.at > sync[p].cutoff}
  /\ Becomes(p, Idle)
  /\ UNCHANGED <<worldVars, deals, writer, diff, historyVars>>

\* Mutants: no rollback, so that the rows done so far stay; a transaction that
\* is never closed.
FailWithoutRollback(p) ==
  /\ sync[p].phase # "idle"
  /\ deals' = DealsSeenBy(p) /\ snapshots' = SnapshotsSeenBy(p)
  /\ writer' = IF writer = p THEN NoOne ELSE writer
  /\ Becomes(p, Idle)
  /\ UNCHANGED <<worldVars, diff, historyVars>>

FailLeavesOpen(p) ==
  /\ sync[p].phase # "idle"
  /\ Becomes(p, Idle)
  /\ UNCHANGED <<worldVars, dbVars, diff, historyVars>>

\* Any call may fail: the request, a locked database (no busy timeout is set,
\* so a lock held elsewhere is an error at once), a full disk, a kill.  The
\* open transaction rolls back and the lock is free again.
Fail(p) ==
  /\ sync[p].phase # "idle"
  /\ writer' = IF writer = p THEN NoOne ELSE writer
  /\ Becomes(p, Idle)
  /\ UNCHANGED <<worldVars, deals, snapshots, diff, historyVars>>

SyncStep(p) ==
  \/ FetchAllDeals(p) \/ Refuse(p) \/ Stamp(p) \/ WriteRow(p) \/ Commit(p)
  \/ PruneRead(p) \/ PruneDelete(p) \/ Fail(p)

------------------------------------------------------------------------------
(* deals diff: three statements, each reading the tables of its own moment. *)

NamedStates == [phase : {"named"}, newer : Nat, older : Nat, since : Nat]
HalfStates == [phase : {"half"}, newer : Nat, older : Nat, since : Nat,
               after : SUBSET DealRows]
ReportStates == [phase : {"report"}, newer : Nat, older : Nat, since : Nat,
                 after : SUBSET DealRows, before : SUBSET DealRows]

DiffStates == {Idle} \cup NamedStates \cup HalfStates \cup ReportStates

\* SnapshotIDs(2); with fewer than two the command gives up.
NameSnapshots(f) ==
  /\ diff[f].phase = "idle"
  /\ \E newer, older \in Newest(SnapshotIDs, 2) :
       /\ newer > older
       /\ diff' = [diff EXCEPT ![f] = [phase |-> "named", newer |-> newer, older |-> older,
                                       since |-> commits]]
  /\ UNCHANGED <<worldVars, dbVars, sync, historyVars>>

LoadNewer(f) ==
  /\ diff[f].phase = "named"
  /\ diff' = [diff EXCEPT ![f] = [phase |-> "half", newer |-> diff[f].newer,
                                  older |-> diff[f].older, since |-> diff[f].since,
                                  after |-> LoadSnapshot(diff[f].newer)]]
  /\ UNCHANGED <<worldVars, dbVars, sync, historyVars>>

LoadOlder(f) ==
  /\ diff[f].phase = "half"
  /\ diff' = [diff EXCEPT ![f] = [phase |-> "report", newer |-> diff[f].newer,
                                  older |-> diff[f].older, since |-> diff[f].since,
                                  after |-> diff[f].after,
                                  before |-> LoadSnapshot(diff[f].older)]]
  /\ UNCHANGED <<worldVars, dbVars, sync, historyVars>>

Report(f) ==
  /\ diff[f].phase = "report"
  /\ diff' = [diff EXCEPT ![f] = Idle]
  /\ UNCHANGED <<worldVars, dbVars, sync, historyVars>>

------------------------------------------------------------------------------

\* Deals are listed, repriced and delisted.
Move ==
  /\ moves < MaxMoves
  /\ moves' = moves + 1
  /\ \E s \in Slugs :
       LET rest == {r \in catalog : r.slug # s}
       IN  catalog' \in {rest} \cup {rest \cup {[slug |-> s, version |-> v]} : v \in Versions}
  /\ UNCHANGED <<clock, dbVars, sync, diff, historyVars>>

Nothing == [rows |-> {}, verified |-> FALSE, was |-> {}]

Init ==
  /\ catalog \in Catalogs
  /\ moves = 0
  /\ clock = 1
  /\ deals = {} /\ snapshots = {} /\ writer = NoOne
  /\ sync = [p \in Syncers |-> Idle]
  /\ diff = [f \in Differs |-> Idle]
  /\ taken = [t \in 1..MaxSyncs |-> Nothing]
  /\ commits = 0
  /\ overlapped = FALSE

Next ==
  \/ \E p \in Syncers : SyncStep(p)
  \/ \E f \in Differs : NameSnapshots(f) \/ LoadNewer(f) \/ LoadOlder(f) \/ Report(f)
  \/ Move

Spec == Init /\ [][Next]_vars

------------------------------------------------------------------------------
(* Properties *)

\* The tables hold rows stamped by a sync, one per key, and only a sync inside
\* its transaction holds the lock.
TypeOK ==
  /\ catalog \subseteq DealRows /\ moves \in 0..MaxMoves /\ clock \in 1..(MaxSyncs + 1)
  /\ deals \in DealTables /\ snapshots \subseteq SnapshotRows
  /\ writer \in Syncers \cup {NoOne}
  /\ sync \in [Syncers -> SyncStates] /\ diff \in [Differs -> DiffStates]
  /\ taken \in [1..MaxSyncs -> [rows : SUBSET DealRows, verified : BOOLEAN,
                                was : SUBSET DealRows]]
  /\ commits \in Nat /\ overlapped \in BOOLEAN

\* A reader finds every row of a walk or none: no crash, busy database or
\* second sync leaves a snapshot half written (store/deals.go:91-100).
SnapshotIsWholeWalk ==
  \A t \in SnapshotIDs : LoadSnapshot(t) = taken[t].rows

\* No step removes one of the Keep newest snapshots, although the stamps are
\* read and the rows deleted in two statements with other syncs in between
\* (PruneSnapshots, store/deals.go:260-271).
PruneKeepsNewest ==
  [][\A t \in SnapshotIDs :
       Keep = 0 \/ t \in Newest(SnapshotIDs, Keep) => t \in SnapshotIDs']_vars

\* deals and deal_snapshots tell one story: a row of deals is the row its
\* snapshot recorded, as long as that snapshot is kept.
TablesAgree == \A r \in deals : r.at \in SnapshotIDs => r \in snapshots

\* deals holds the latest known state of every slug (store/deals.go:7).
DealsHoldLatest ==
  \A r \in deals, h \in snapshots : h.slug = r.slug => h.at <= r.at

\* It does as long as no two syncs were between stamp and commit at once.
DealsLatestWhenSerial == overlapped \/ DealsHoldLatest

\* A diff none of whose snapshots can have been pruned under it: fewer than
\* Keep - 1 syncs committed since it read their names.
Steady(f) == Keep = 0 \/ commits - diff[f].since <= Keep - 2

Changes(f) == DiffDeals(diff[f].before, diff[f].after)

\* A steady diff between two certified snapshots reports what really changed
\* between the two catalogs that were walked, nothing else.
DiffIsTruthful ==
  \A f \in Differs :
    diff[f].phase = "report" /\ Steady(f) =>
      LET from == taken[diff[f].older]
          to   == taken[diff[f].newer]
      IN  from.verified /\ to.verified => Changes(f) = DiffDeals(from.was, to.was)

\* A deal reported gone had left the catalog when the later walk ran: "An
\* incomplete walk must not be recorded as a snapshot: the next diff would
\* report every unserved deal as gone" (cli/deals.go:447).
GoneMeansDelisted ==
  \A f \in Differs :
    diff[f].phase = "report" /\ Steady(f)
    => Changes(f).gone \cap SlugsOf(taken[diff[f].newer].was) = {}

\* A sync that fails, is killed or finds the database busy leaves it writable:
\* only a sync between its first row and its commit holds the lock
\* (the deferred Rollback, store/deals.go:96).
LockHeldWhileSaving == writer # NoOne => sync[writer].phase = "saving"

=============================================================================
