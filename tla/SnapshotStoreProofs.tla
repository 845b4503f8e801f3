------------------------- MODULE SnapshotStoreProofs -------------------------
(***************************************************************************)
(* Proofs about SnapshotStore for every number of syncs, diffs, deals and  *)
(* kept snapshots.                                                         *)
(***************************************************************************)
EXTENDS SnapshotStore, FiniteSetTheorems, TLAPS

------------------------------------------------------------------------------
(* Type correctness. *)

\* The phase of a process tells which fields it has.
LEMMA SyncFields ==
  ASSUME TypeOK, NEW p \in Syncers
  PROVE  /\ sync[p] \in SyncStates
         /\ sync[p].phase = "walked" => sync[p] \in WalkedStates
         /\ sync[p].phase = "saving" => sync[p] \in SavingStates
         /\ sync[p].phase = "pruning" => sync[p] \in PruningStates
<1>1. sync[p] \in SyncStates
  BY DEF TypeOK
<1> QED BY <1>1 DEF SyncStates, Idle, WalkedStates, SavingStates, PruningStates

LEMMA DiffFields ==
  ASSUME TypeOK, NEW f \in Differs
  PROVE  /\ diff[f] \in DiffStates
         /\ diff[f].phase = "named" => diff[f] \in NamedStates
         /\ diff[f].phase = "half" => diff[f] \in HalfStates
         /\ diff[f].phase = "report" => diff[f] \in ReportStates
<1>1. diff[f] \in DiffStates
  BY DEF TypeOK
<1> QED BY <1>1 DEF DiffStates, Idle, NamedStates, HalfStates, ReportStates

LEMMA InitType == Init => TypeOK
<1> SUFFICES ASSUME Init PROVE TypeOK
  OBVIOUS
<1>1. MaxSyncs \in Nat /\ MaxMoves \in Nat
  BY StoreBounds
<1>2. catalog \subseteq DealRows /\ moves \in 0..MaxMoves /\ clock \in 1..(MaxSyncs + 1)
  BY <1>1 DEF Init, Catalogs
<1>3. sync \in [Syncers -> SyncStates] /\ diff \in [Differs -> DiffStates]
  BY DEF Init, SyncStates, DiffStates
<1>4. taken \in [1..MaxSyncs -> [rows : SUBSET DealRows, verified : BOOLEAN,
                                 was : SUBSET DealRows]]
  BY DEF Init, Nothing
<1>5. /\ deals \in DealTables /\ snapshots \subseteq SnapshotRows
      /\ writer \in Syncers \cup {NoOne} /\ commits \in Nat /\ overlapped \in BOOLEAN
  BY DEF Init, DealTables, OnePerSlug
<1> QED BY <1>2, <1>3, <1>4, <1>5 DEF TypeOK

\* What a transaction sees are tables.
LEMMA SeenTables ==
  ASSUME TypeOK, NEW p \in Syncers, sync[p].phase = "saving"
  PROVE  /\ DealsSeenBy(p) \in DealTables
         /\ SnapshotsSeenBy(p) \subseteq SnapshotRows
<1>1. sync[p].txDeals \in DealTables /\ sync[p].txSnapshots \subseteq SnapshotRows
  BY SyncFields DEF SavingStates
<1> QED BY <1>1 DEF DealsSeenBy, SnapshotsSeenBy, TypeOK

LEMMA NextType == TypeOK /\ [Next]_vars => TypeOK'
<1> SUFFICES ASSUME TypeOK, [Next]_vars PROVE TypeOK'
  OBVIOUS
<1>0. MaxSyncs \in Nat /\ MaxMoves \in Nat
  BY StoreBounds
<1>1. ASSUME NEW p \in Syncers, NEW state \in SyncStates, Becomes(p, state)
      PROVE  sync' \in [Syncers -> SyncStates]
  BY <1>1 DEF TypeOK, Becomes
<1>2. Idle \in SyncStates
  BY DEF SyncStates
<1>3. ASSUME NEW p \in Syncers, FetchAllDeals(p) PROVE TypeOK'
  <2>1. PICK walk \in SUBSET catalog, verdict \in {"complete", "incomplete", "unknown"} :
          Becomes(p, [phase |-> "walked", walk |-> walk, was |-> catalog, verdict |-> verdict])
    BY <1>3 DEF FetchAllDeals
  <2>2. [phase |-> "walked", walk |-> walk, was |-> catalog, verdict |-> verdict] \in SyncStates
    BY DEF SyncStates, WalkedStates, TypeOK
  <2> QED BY <1>1, <1>3, <2>1, <2>2 DEF FetchAllDeals, TypeOK, worldVars, dbVars, historyVars
<1>4. ASSUME NEW p \in Syncers, Refuse(p) PROVE TypeOK'
  BY <1>1, <1>2, <1>4 DEF Refuse, TypeOK, worldVars, dbVars, historyVars
<1>5. ASSUME NEW p \in Syncers, Stamp(p) PROVE TypeOK'
  <2>1. clock \in 1..MaxSyncs
    BY <1>0, <1>5 DEF Stamp, TypeOK
  <2>2. sync[p].walk \in SUBSET DealRows /\ sync[p].was \in SUBSET DealRows
    BY <1>5, SyncFields DEF Stamp, WalkedStates
  <2>3. [phase |-> "saving", stamp |-> clock, todo |-> sync[p].walk,
         txDeals |-> {}, txSnapshots |-> {}] \in SyncStates
    <3>1. {} \in DealTables
      BY DEF DealTables, OnePerSlug
    <3> QED BY <2>1, <2>2, <3>1 DEF SyncStates, SavingStates
  <2>4. sync' \in [Syncers -> SyncStates]
    BY <1>1, <1>5, <2>3 DEF Stamp
  <2>5. taken' \in [1..MaxSyncs -> [rows : SUBSET DealRows, verified : BOOLEAN,
                                    was : SUBSET DealRows]]
    BY <1>5, <2>1, <2>2 DEF Stamp, TypeOK
  <2>6. clock' \in 1..(MaxSyncs + 1) /\ overlapped' \in BOOLEAN
    BY <1>0, <1>5, <2>1 DEF Stamp, TypeOK
  <2> QED BY <1>5, <2>4, <2>5, <2>6 DEF Stamp, TypeOK, dbVars
<1>6. ASSUME NEW p \in Syncers, WriteRow(p) PROVE TypeOK'
  <2>1. PICK deal \in sync[p].todo :
          LET row == [slug |-> deal.slug, version |-> deal.version, at |-> sync[p].stamp]
          IN  Becomes(p, [phase |-> "saving", stamp |-> sync[p].stamp,
                          todo |-> sync[p].todo \ {deal},
                          txDeals |-> UpsertDeal(DealsSeenBy(p), row),
                          txSnapshots |-> UpsertSnapshot(SnapshotsSeenBy(p), row)])
    BY <1>6 DEF WriteRow
  <2> DEFINE row == [slug |-> deal.slug, version |-> deal.version, at |-> sync[p].stamp]
  <2>2. sync[p].todo \subseteq DealRows /\ sync[p].stamp \in Nat
    BY <1>6, SyncFields DEF WriteRow, SavingStates
  <2>3. row \in SnapshotRows
    BY <2>2 DEF DealRows, SnapshotRows
  <2>4. UpsertDeal(DealsSeenBy(p), row) \in DealTables
    BY <1>6, <2>3, SeenTables DEF UpsertDeal, WriteRow, DealTables, OnePerSlug
  <2>5. UpsertSnapshot(SnapshotsSeenBy(p), row) \subseteq SnapshotRows
    BY <1>6, <2>3, SeenTables DEF UpsertSnapshot, WriteRow
  <2> HIDE DEF row
  <2>6. [phase |-> "saving", stamp |-> sync[p].stamp, todo |-> sync[p].todo \ {deal},
         txDeals |-> UpsertDeal(DealsSeenBy(p), row),
         txSnapshots |-> UpsertSnapshot(SnapshotsSeenBy(p), row)] \in SyncStates
    BY <2>2, <2>4, <2>5 DEF SyncStates, SavingStates
  <2>7. sync' \in [Syncers -> SyncStates]
    BY <1>1, <2>1, <2>6 DEF row
  <2> QED BY <1>6, <2>7 DEF WriteRow, TypeOK, worldVars, historyVars
<1>7. ASSUME NEW p \in Syncers, Commit(p) PROVE TypeOK'
  <2>1. (IF Keep > 0 THEN [phase |-> "saved"] ELSE Idle) \in SyncStates
    BY DEF SyncStates
  <2>2. sync' \in [Syncers -> SyncStates]
    BY <1>1, <1>7, <2>1 DEF Commit
  <2>3. /\ deals' \in DealTables /\ snapshots' \subseteq SnapshotRows
        /\ writer' \in Syncers \cup {NoOne}
    BY <1>7, SeenTables DEF Commit, TypeOK
  <2>4. commits' \in Nat
    BY <1>7 DEF Commit, TypeOK
  <2> QED BY <1>7, <2>2, <2>3, <2>4 DEF Commit, TypeOK, worldVars
<1>8. ASSUME NEW p \in Syncers, PruneRead(p) PROVE TypeOK'
  <2>1. \A c \in SnapshotIDs : [phase |-> "pruning", cutoff |-> c] \in SyncStates
    BY DEF SyncStates, PruningStates, SnapshotIDs, StampsIn, TypeOK, SnapshotRows
  <2>2. sync' \in [Syncers -> SyncStates]
    BY <1>1, <1>2, <1>8, <2>1 DEF PruneRead
  <2> QED BY <1>8, <2>2 DEF PruneRead, TypeOK, worldVars, dbVars, historyVars
<1>9. ASSUME NEW p \in Syncers, PruneDelete(p) PROVE TypeOK'
  <2>1. snapshots' \subseteq SnapshotRows
    BY <1>9 DEF PruneDelete, TypeOK
  <2> QED BY <1>1, <1>2, <1>9, <2>1 DEF PruneDelete, TypeOK, worldVars, historyVars
<1>10. ASSUME NEW p \in Syncers, Fail(p) PROVE TypeOK'
  <2>1. writer' \in Syncers \cup {NoOne}
    BY <1>10 DEF Fail, TypeOK
  <2> QED BY <1>1, <1>2, <1>10, <2>1 DEF Fail, TypeOK, worldVars, historyVars
<1>11. ASSUME NEW f \in Differs, NameSnapshots(f) PROVE TypeOK'
  <2>1. \A t \in SnapshotIDs : t \in Nat
    BY DEF SnapshotIDs, StampsIn, TypeOK, SnapshotRows
  <2>2. diff' \in [Differs -> DiffStates]
    BY <1>11, <2>1 DEF NameSnapshots, Newest, TypeOK, DiffStates, NamedStates
  <2> QED BY <1>11, <2>2 DEF NameSnapshots, TypeOK, worldVars, dbVars, historyVars
<1>12. \A t : LoadSnapshot(t) \in SUBSET DealRows
  BY DEF LoadSnapshot, TypeOK, SnapshotRows, DealRows
<1>13. ASSUME NEW f \in Differs, LoadNewer(f) PROVE TypeOK'
  <2>1. diff[f] \in NamedStates
    BY <1>13, DiffFields DEF LoadNewer
  <2>2. diff' \in [Differs -> DiffStates]
    BY <1>12, <1>13, <2>1 DEF LoadNewer, TypeOK, DiffStates, NamedStates, HalfStates
  <2> QED BY <1>13, <2>2 DEF LoadNewer, TypeOK, worldVars, dbVars, historyVars
<1>14. ASSUME NEW f \in Differs, LoadOlder(f) PROVE TypeOK'
  <2>1. diff[f] \in HalfStates
    BY <1>14, DiffFields DEF LoadOlder
  <2>2. diff' \in [Differs -> DiffStates]
    BY <1>12, <1>14, <2>1 DEF LoadOlder, TypeOK, DiffStates, HalfStates, ReportStates
  <2> QED BY <1>14, <2>2 DEF LoadOlder, TypeOK, worldVars, dbVars, historyVars
<1>15. ASSUME NEW f \in Differs, Report(f) PROVE TypeOK'
  <2>1. diff' \in [Differs -> DiffStates]
    BY <1>15 DEF Report, TypeOK, DiffStates
  <2> QED BY <1>15, <2>1 DEF Report, TypeOK, worldVars, dbVars, historyVars
<1>16. CASE Move
  <2>1. moves' \in 0..MaxMoves
    BY <1>0, <1>16 DEF Move, TypeOK
  <2>2. catalog' \subseteq DealRows
    BY <1>16 DEF Move, TypeOK, DealRows
  <2> QED BY <1>16, <2>1, <2>2 DEF Move, TypeOK, dbVars, historyVars
<1>17. CASE UNCHANGED vars
  BY <1>17 DEF vars, worldVars, dbVars, historyVars, TypeOK
<1> QED
  BY <1>3, <1>4, <1>5, <1>6, <1>7, <1>8, <1>9, <1>10, <1>11, <1>13, <1>14, <1>15, <1>16, <1>17
  DEF Next, SyncStep

\* The tables only ever hold rows of a known slug, version and stamp, and only
\* a sync holds the write lock.
THEOREM TypeCorrect == Spec => []TypeOK
BY InitType, NextType, PTL DEF Spec

------------------------------------------------------------------------------
(* The inductive invariant. *)

Saving(p) == sync[p].phase = "saving"

\* Stamps in the tables and in transactions come from the past of the clock,
\* and the stamp of an open transaction is in no table yet.
StampOrder ==
  /\ SnapshotIDs \subseteq 1..(clock - 1)
  /\ \A p \in Syncers : Saving(p) =>
       /\ sync[p].stamp \in 1..(clock - 1)
       /\ sync[p].stamp \notin SnapshotIDs
       /\ \A r \in deals : r.at # sync[p].stamp
  /\ \A r \in deals : r.at < clock
  /\ \A p, q \in Syncers : Saving(p) /\ Saving(q) /\ sync[p].stamp = sync[q].stamp => p = q

\* What is known of a walk: one row per slug, the catalog itself if certified.
Walks ==
  /\ catalog \in Catalogs
  /\ \A p \in Syncers : sync[p].phase = "walked" =>
       /\ sync[p].walk \in Catalogs
       /\ sync[p].verdict = "complete" => sync[p].walk = sync[p].was
  /\ \A t \in 1..MaxSyncs :
       /\ taken[t].rows \in Catalogs
       /\ taken[t].verified => taken[t].rows = taken[t].was

Stamped(rows, stamp) == {[slug |-> r.slug, version |-> r.version, at |-> stamp] : r \in rows}

\* The copy a transaction works on: the tables plus the rows done so far.
Done(p) == Stamped(taken[sync[p].stamp].rows \ sync[p].todo, sync[p].stamp)

InTransaction ==
  \A p \in Syncers : Saving(p) =>
    /\ sync[p].todo \subseteq taken[sync[p].stamp].rows
    /\ writer # p => sync[p].todo = taken[sync[p].stamp].rows
    /\ writer = p => /\ sync[p].txSnapshots = snapshots \cup Done(p)
                     /\ sync[p].txDeals \subseteq deals \cup Done(p)

\* What a pruner holds on to: Keep snapshots lie beyond its cutoff.
Pruners ==
  \A p \in Syncers :
    /\ sync[p].phase \in {"saved", "pruning"} => Keep > 0
    /\ sync[p].phase = "pruning" => Cardinality(After(SnapshotIDs, sync[p].cutoff)) >= Keep

\* What a diff holds on to, while it is steady.
Diffs ==
  \A f \in Differs : diff[f].phase # "idle" =>
    /\ diff[f].newer \in 1..(clock - 1) /\ diff[f].older \in 1..(clock - 1)
    /\ diff[f].since <= commits
    /\ Steady(f) =>
         /\ diff[f].newer \in SnapshotIDs /\ diff[f].older \in SnapshotIDs
         /\ diff[f].newer > diff[f].older
         /\ Keep # 0 =>
              Cardinality(After(SnapshotIDs, diff[f].older)) <= 1 + (commits - diff[f].since)
         /\ diff[f].phase # "named" => diff[f].after = taken[diff[f].newer].rows
         /\ diff[f].phase = "report" => diff[f].before = taken[diff[f].older].rows

Core == TypeOK /\ LockHeldWhileSaving /\ StampOrder /\ Walks /\ InTransaction

LEMMA BecomesFacts ==
  ASSUME TypeOK, NEW p \in Syncers, NEW state, Becomes(p, state)
  PROVE  /\ sync'[p] = state
         /\ \A q \in Syncers : q # p => sync'[q] = sync[q]
BY DEF TypeOK, Becomes

LEMMA StampsFacts ==
  /\ \A s, t : StampsIn(s \cup t) = StampsIn(s) \cup StampsIn(t)
  /\ \A rows, t : StampsIn(Stamped(rows, t)) \subseteq {t}
  /\ \A rows, t : \A r \in Stamped(rows, t) : r.at = t
  /\ \A t : Stamped({}, t) = {}
BY DEF StampsIn, Stamped

\* What a commit installs: the tables plus the whole walk.
LEMMA CommitEffect ==
  ASSUME Core, NEW p \in Syncers, Commit(p)
  PROVE  LET stamp == sync[p].stamp
             rows  == Stamped(taken[stamp].rows, stamp)
         IN  /\ snapshots' = snapshots \cup rows
             /\ deals' \subseteq deals \cup rows
             /\ UNCHANGED <<worldVars, diff, taken>> /\ commits' = commits + 1
             /\ stamp \in 1..(clock - 1) /\ Saving(p)
<1> DEFINE stamp == sync[p].stamp
           all   == taken[stamp].rows
<1>1. /\ Saving(p) /\ sync[p].todo = {}
      /\ deals' = DealsSeenBy(p) /\ snapshots' = SnapshotsSeenBy(p)
  BY DEF Commit, Saving
<1>2. CASE writer = p
  <2>1. /\ sync[p].txSnapshots = snapshots \cup Done(p)
        /\ sync[p].txDeals \subseteq deals \cup Done(p)
    BY <1>1, <1>2 DEF Core, InTransaction
  <2>2. all \ sync[p].todo = all
    BY <1>1
  <2>3. Done(p) = Stamped(all, stamp)
    BY <2>2 DEF Done
  <2> QED BY <1>1, <1>2, <2>1, <2>3 DEF Commit, Core, StampOrder, DealsSeenBy, SnapshotsSeenBy
<1>3. CASE writer # p
  <2>1. all = {}
    BY <1>1, <1>3 DEF Core, InTransaction
  <2>2. Stamped(all, stamp) = {}
    BY <2>1, StampsFacts
  <2> QED BY <1>1, <1>3, <2>2 DEF Commit, Core, StampOrder, DealsSeenBy, SnapshotsSeenBy
<1> QED BY <1>2, <1>3

\* One turn of the save loop adds one row to the transaction's copy.
LEMMA WriteRowEffect ==
  ASSUME Core, NEW p \in Syncers, WriteRow(p)
  PROVE  LET stamp == sync[p].stamp
             done  == Stamped(taken[stamp].rows \ sync'[p].todo, stamp)
         IN  /\ Saving(p) /\ Saving(p)' /\ sync'[p].stamp = stamp
             /\ sync'[p].todo \subseteq taken[stamp].rows
             /\ sync'[p].txSnapshots = snapshots \cup done
             /\ sync'[p].txDeals \subseteq deals \cup done
             /\ \A q \in Syncers : q # p => sync'[q] = sync[q]
             /\ UNCHANGED <<worldVars, deals, snapshots, diff, historyVars>>
             /\ writer \in {NoOne, p} /\ writer' = p
<1> DEFINE stamp == sync[p].stamp
           all   == taken[stamp].rows
<1>1. PICK deal \in sync[p].todo :
        LET row == [slug |-> deal.slug, version |-> deal.version, at |-> stamp]
        IN  Becomes(p, [phase |-> "saving", stamp |-> stamp,
                        todo |-> sync[p].todo \ {deal},
                        txDeals |-> UpsertDeal(DealsSeenBy(p), row),
                        txSnapshots |-> UpsertSnapshot(SnapshotsSeenBy(p), row)])
  BY DEF WriteRow
<1> DEFINE row == [slug |-> deal.slug, version |-> deal.version, at |-> stamp]
           done == Stamped(all \ sync[p].todo, stamp)
<1>2. /\ sync'[p] = [phase |-> "saving", stamp |-> stamp,
                     todo |-> sync[p].todo \ {deal},
                     txDeals |-> UpsertDeal(DealsSeenBy(p), row),
                     txSnapshots |-> UpsertSnapshot(SnapshotsSeenBy(p), row)]
      /\ \A q \in Syncers : q # p => sync'[q] = sync[q]
  BY <1>1, BecomesFacts DEF Core
<1>3. Saving(p) /\ sync[p].todo \subseteq all /\ all \in Catalogs /\ stamp \notin SnapshotIDs
  <2>1. Saving(p)
    BY DEF WriteRow, Saving
  <2>2. stamp \in 1..MaxSyncs
    <3>1. stamp \in 1..(clock - 1) /\ clock \in 1..(MaxSyncs + 1) /\ MaxSyncs \in Nat
      BY <2>1, StoreBounds DEF Core, StampOrder, TypeOK
    <3> QED BY <3>1
  <2> QED BY <2>1, <2>2 DEF Core, StampOrder, InTransaction, Walks
<1>4. SnapshotsSeenBy(p) = snapshots \cup done
  <2>1. CASE writer = p
    BY <1>3, <2>1 DEF Core, InTransaction, SnapshotsSeenBy, Done
  <2>2. CASE writer # p
    <3>1. all \ sync[p].todo = {}
      BY <1>3, <2>2 DEF Core, InTransaction
    <3> QED BY <2>2, <3>1, StampsFacts DEF SnapshotsSeenBy
  <2> QED BY <2>1, <2>2
<1>5. DealsSeenBy(p) \subseteq deals \cup done
  <2>1. CASE writer = p
    BY <1>3, <2>1 DEF Core, InTransaction, DealsSeenBy, Done
  <2>2. CASE writer # p
    BY <2>2 DEF DealsSeenBy
  <2> QED BY <2>1, <2>2
<1>6. Stamped(all \ (sync[p].todo \ {deal}), stamp) = done \cup {row}
  <2>1. all \ (sync[p].todo \ {deal}) = (all \ sync[p].todo) \cup {deal}
    BY <1>3
  <2> QED BY <2>1 DEF Stamped
<1>7. UpsertSnapshot(snapshots \cup done, row) = snapshots \cup done \cup {row}
  <2>1. ASSUME NEW r \in snapshots \cup done
        PROVE  ~(r.slug = row.slug /\ r.at = row.at)
    <3>1. CASE r \in snapshots
      BY <1>3, <3>1 DEF SnapshotIDs, StampsIn
    <3>2. CASE r \in done
      <4>1. PICK q \in all \ sync[p].todo : r.slug = q.slug
        BY <3>2 DEF Stamped
      <4>2. q # deal /\ deal \in all
        BY <1>3, <4>1
      <4>3. q.slug # deal.slug
        BY <1>3, <4>1, <4>2 DEF Catalogs, OnePerSlug
      <4> QED BY <4>1, <4>3
    <3> QED BY <2>1, <3>1, <3>2
  <2> QED BY <2>1 DEF UpsertSnapshot
<1>8. UpsertDeal(DealsSeenBy(p), row) \subseteq deals \cup done \cup {row}
  BY <1>5 DEF UpsertDeal
<1> HIDE DEF done, row
<1>9. /\ sync'[p].todo = sync[p].todo \ {deal} /\ sync'[p].stamp = stamp
      /\ sync'[p].phase = "saving"
      /\ sync'[p].txDeals = UpsertDeal(DealsSeenBy(p), row)
      /\ sync'[p].txSnapshots = UpsertSnapshot(SnapshotsSeenBy(p), row)
  BY <1>2
<1>10. Stamped(all \ sync'[p].todo, stamp) = done \cup {row}
  BY <1>6, <1>9
<1> QED BY <1>2, <1>3, <1>4, <1>7, <1>8, <1>9, <1>10 DEF WriteRow, Saving

LEMMA InitCore == Init => Core
<1> SUFFICES ASSUME Init PROVE Core
  OBVIOUS
<1>1. /\ sync = [p \in Syncers |-> Idle] /\ snapshots = {} /\ deals = {} /\ writer = NoOne
      /\ catalog \in Catalogs /\ taken = [t \in 1..MaxSyncs |-> Nothing]
  BY DEF Init
<1>2. \A p \in Syncers : sync[p].phase = "idle"
  BY <1>1 DEF Idle
<1>3. StampOrder /\ InTransaction /\ LockHeldWhileSaving
  BY <1>1, <1>2
  DEF StampOrder, InTransaction, LockHeldWhileSaving, Saving, SnapshotIDs, StampsIn
<1>4. Walks
  <2>1. {} \in Catalogs
    BY DEF Catalogs, OnePerSlug
  <2> QED BY <1>1, <1>2, <2>1 DEF Walks, Nothing
<1> QED BY <1>3, <1>4, InitType DEF Core

\* Steps of one sync that leave tables, clock and history alone and end in a
\* phase without a transaction.
Quiet(p) == FetchAllDeals(p) \/ Refuse(p) \/ PruneRead(p) \/ Fail(p)

LEMMA QuietEffect ==
  ASSUME Core, NEW p \in Syncers, Quiet(p)
  PROVE  /\ \A q \in Syncers : q # p => sync'[q] = sync[q]
         /\ sync'[p].phase \in {"idle", "walked", "pruning"}
         /\ ~Saving(p)'
         /\ sync'[p].phase = "walked" => FetchAllDeals(p)
         /\ sync'[p].phase = "pruning" => PruneRead(p)
         /\ UNCHANGED <<worldVars, deals, snapshots, diff, historyVars>>
         /\ writer' = writer \/ (writer = p /\ writer' = NoOne)
         /\ Saving(p) => writer' # p
<1>0. TypeOK /\ (writer = p => Saving(p))
  BY NoOneAssumption DEF Core, LockHeldWhileSaving, Saving
<1>1. CASE FetchAllDeals(p)
  <2>1. PICK walk \in SUBSET catalog, verdict \in {"complete", "incomplete", "unknown"} :
          Becomes(p, [phase |-> "walked", walk |-> walk, was |-> catalog, verdict |-> verdict])
    BY <1>1 DEF FetchAllDeals
  <2>2. /\ sync'[p].phase = "walked" /\ \A q \in Syncers : q # p => sync'[q] = sync[q]
    BY <1>0, <2>1, BecomesFacts
  <2> QED BY <1>1, <2>2 DEF FetchAllDeals, dbVars, Saving
<1>2. Idle.phase = "idle"
  BY DEF Idle
<1>3. CASE Refuse(p)
  <2>1. /\ sync'[p] = Idle /\ \A q \in Syncers : q # p => sync'[q] = sync[q]
    BY <1>0, <1>3, BecomesFacts DEF Refuse
  <2> QED BY <1>2, <1>3, <2>1 DEF Refuse, dbVars, Saving
<1>4. CASE PruneRead(p)
  <2>1. PICK state : /\ Becomes(p, state) /\ state.phase \in {"idle", "pruning"}
    <3>1. CASE Cardinality(SnapshotIDs) <= Keep
      BY <1>2, <1>4, <3>1 DEF PruneRead
    <3>2. CASE ~(Cardinality(SnapshotIDs) <= Keep)
      <4>1. PICK c \in SnapshotIDs : Becomes(p, [phase |-> "pruning", cutoff |-> c])
        BY <1>4, <3>2 DEF PruneRead
      <4> QED BY <4>1
    <3> QED BY <3>1, <3>2
  <2>2. /\ sync'[p] = state /\ \A q \in Syncers : q # p => sync'[q] = sync[q]
    BY <1>0, <2>1, BecomesFacts
  <2> QED BY <1>4, <2>1, <2>2 DEF PruneRead, dbVars, Saving
<1>5. CASE Fail(p)
  <2>1. /\ sync'[p] = Idle /\ \A q \in Syncers : q # p => sync'[q] = sync[q]
    BY <1>0, <1>5, BecomesFacts DEF Fail
  <2>2. p # NoOne
    BY NoOneAssumption
  <2> QED BY <1>2, <1>5, <2>1, <2>2 DEF Fail, Saving
<1> QED BY <1>1, <1>3, <1>4, <1>5 DEF Quiet

LEMMA StampEffect ==
  ASSUME Core, NEW p \in Syncers, Stamp(p)
  PROVE  /\ sync[p] \in WalkedStates /\ ~Saving(p) /\ clock \in 1..MaxSyncs
         /\ Saving(p)' /\ sync'[p].stamp = clock /\ sync'[p].todo = sync[p].walk
         /\ \A q \in Syncers : q # p => sync'[q] = sync[q]
         /\ clock' = clock + 1 /\ UNCHANGED <<catalog, moves, dbVars, diff, commits>>
         /\ taken'[clock] = [rows |-> sync[p].walk, was |-> sync[p].was,
                             verified |-> sync[p].verdict = "complete"]
         /\ \A t \in 1..MaxSyncs : t # clock => taken'[t] = taken[t]
         /\ writer # p
<1>1. TypeOK /\ sync[p].phase = "walked" /\ MaxSyncs \in Nat
  BY StoreBounds DEF Core, Stamp
<1>2. sync[p] \in WalkedStates /\ ~Saving(p) /\ writer # p
  BY <1>1, SyncFields, NoOneAssumption DEF Core, LockHeldWhileSaving, Saving
<1>3. clock \in 1..MaxSyncs
  BY <1>1 DEF Stamp, TypeOK
<1>4. Becomes(p, [phase |-> "saving", stamp |-> clock, todo |-> sync[p].walk,
                  txDeals |-> {}, txSnapshots |-> {}])
  BY DEF Stamp
<1>5. /\ sync'[p] = [phase |-> "saving", stamp |-> clock, todo |-> sync[p].walk,
                     txDeals |-> {}, txSnapshots |-> {}]
      /\ \A q \in Syncers : q # p => sync'[q] = sync[q]
  BY <1>1, <1>4, BecomesFacts
<1>6. taken' = [taken EXCEPT ![clock] = [rows |-> sync[p].walk, was |-> sync[p].was,
                                         verified |-> sync[p].verdict = "complete"]]
  BY DEF Stamp
<1>7. taken \in [1..MaxSyncs -> [rows : SUBSET DealRows, verified : BOOLEAN,
                                 was : SUBSET DealRows]]
  BY <1>1 DEF TypeOK
<1> QED BY <1>2, <1>3, <1>5, <1>6, <1>7 DEF Stamp, Saving

LEMMA CommitPhase ==
  ASSUME Core, NEW p \in Syncers, Commit(p)
  PROVE  /\ sync'[p].phase \in {"idle", "saved"}
         /\ \A q \in Syncers : q # p => sync'[q] = sync[q]
         /\ writer' # p /\ (writer # p => writer' = writer)
         /\ writer = p => writer' = NoOne
<1>1. Becomes(p, IF Keep > 0 THEN [phase |-> "saved"] ELSE Idle)
  BY DEF Commit
<1>2. /\ sync'[p] = IF Keep > 0 THEN [phase |-> "saved"] ELSE Idle
      /\ \A q \in Syncers : q # p => sync'[q] = sync[q]
  BY <1>1, BecomesFacts DEF Core
<1>3. p # NoOne
  BY NoOneAssumption
<1> QED BY <1>2, <1>3 DEF Commit, Idle

LEMMA PruneEffect ==
  ASSUME Core, NEW p \in Syncers, PruneDelete(p)
  PROVE  /\ sync[p] \in PruningStates /\ sync[p].phase = "pruning"
         /\ sync'[p] = Idle /\ sync'[p].phase = "idle"
         /\ \A q \in Syncers : q # p => sync'[q] = sync[q]
         /\ writer = NoOne /\ UNCHANGED <<worldVars, deals, writer, diff, historyVars>>
         /\ snapshots' = {r \in snapshots : r.at > sync[p].cutoff}
         /\ SnapshotIDs' = {t \in SnapshotIDs : t > sync[p].cutoff}
<1>1. TypeOK /\ sync[p].phase = "pruning" /\ Becomes(p, Idle)
  BY DEF Core, PruneDelete
<1>2. sync[p] \in PruningStates
  BY <1>1, SyncFields
<1>3. /\ sync'[p] = Idle /\ \A q \in Syncers : q # p => sync'[q] = sync[q]
  BY <1>1, BecomesFacts
<1>4. snapshots' = {r \in snapshots : r.at > sync[p].cutoff}
  BY DEF PruneDelete
<1>5. SnapshotIDs' = {t \in SnapshotIDs : t > sync[p].cutoff}
  BY <1>4 DEF SnapshotIDs, StampsIn
<1> QED BY <1>1, <1>2, <1>3, <1>4, <1>5 DEF PruneDelete, Idle

\* The other steps touch neither the tables nor the syncs.
Elsewhere == Move \/ \E f \in Differs :
               NameSnapshots(f) \/ LoadNewer(f) \/ LoadOlder(f) \/ Report(f)

LEMMA ElsewhereEffect ==
  Elsewhere => UNCHANGED <<clock, dbVars, sync, historyVars>>
BY DEF Elsewhere, Move, NameSnapshots, LoadNewer, LoadOlder, Report, worldVars

LEMMA NextCases ==
  ASSUME [Next]_vars
  PROVE  \/ \E p \in Syncers : Quiet(p) \/ Stamp(p) \/ WriteRow(p) \/ Commit(p) \/ PruneDelete(p)
         \/ Elsewhere
         \/ UNCHANGED vars
BY DEF Next, SyncStep, Quiet, Elsewhere

LEMMA NextLock == Core /\ [Next]_vars => LockHeldWhileSaving'
<1> SUFFICES ASSUME Core, [Next]_vars, writer' # NoOne
             PROVE  sync'[writer'].phase = "saving"
  BY DEF LockHeldWhileSaving
<1>0. TypeOK /\ (writer # NoOne => writer \in Syncers /\ Saving(writer))
  BY DEF Core, LockHeldWhileSaving, TypeOK, Saving
<1>1. CASE \E p \in Syncers : Quiet(p)
  BY <1>0, <1>1, QuietEffect DEF Saving
<1>2. CASE \E p \in Syncers : Stamp(p)
  BY <1>0, <1>2, StampEffect DEF Saving, dbVars
<1>3. CASE \E p \in Syncers : WriteRow(p)
  BY <1>0, <1>3, WriteRowEffect DEF Saving
<1>4. CASE \E p \in Syncers : Commit(p)
  BY <1>0, <1>4, CommitPhase DEF Saving
<1>5. CASE \E p \in Syncers : PruneDelete(p)
  BY <1>5, PruneEffect
<1>6. CASE Elsewhere \/ UNCHANGED vars
  BY <1>0, <1>6, ElsewhereEffect DEF vars, dbVars, Saving
<1> QED BY <1>1, <1>2, <1>3, <1>4, <1>5, <1>6, NextCases

LEMMA NextStampOrder == Core /\ [Next]_vars => StampOrder'
<1> SUFFICES ASSUME Core, [Next]_vars PROVE StampOrder'
  OBVIOUS
<1>0. TypeOK /\ StampOrder /\ clock \in Nat
  BY DEF Core, TypeOK
<1>1. ASSUME NEW p \in Syncers, Quiet(p) PROVE StampOrder'
  <2>1. SnapshotIDs' = SnapshotIDs /\ deals' = deals /\ clock' = clock
    BY <1>1, QuietEffect DEF SnapshotIDs, worldVars
  <2>2. \A q \in Syncers : Saving(q)' => q # p /\ Saving(q) /\ sync'[q].stamp = sync[q].stamp
    BY <1>1, QuietEffect DEF Saving
  <2> QED BY <1>0, <2>1, <2>2 DEF StampOrder
<1>2. ASSUME NEW p \in Syncers, Stamp(p) PROVE StampOrder'
  <2>1. /\ SnapshotIDs' = SnapshotIDs /\ deals' = deals /\ clock' = clock + 1
        /\ clock \in 1..MaxSyncs
    BY <1>2, StampEffect DEF SnapshotIDs, dbVars
  <2>2. \A q \in Syncers : Saving(q)' =>
          \/ q = p /\ sync'[q].stamp = clock
          \/ q # p /\ Saving(q) /\ sync'[q].stamp = sync[q].stamp
    BY <1>2, StampEffect DEF Saving
  <2>3. \A r \in deals : r.at \in Nat
    BY <1>0 DEF TypeOK, DealTables, SnapshotRows
  <2>4. \A r \in deals : r.at < clock /\ r.at # clock /\ r.at < clock'
    BY <1>0, <2>1, <2>3 DEF StampOrder
  <2>5. SnapshotIDs \subseteq 1..(clock' - 1) /\ clock \notin SnapshotIDs
    BY <1>0, <2>1 DEF StampOrder
  <2>6. ASSUME NEW q \in Syncers, Saving(q)'
        PROVE  /\ sync'[q].stamp \in 1..(clock' - 1) /\ sync'[q].stamp \notin SnapshotIDs
               /\ \A r \in deals : r.at # sync'[q].stamp
    BY <1>0, <2>1, <2>2, <2>4, <2>5, <2>6 DEF StampOrder
  <2>7. ASSUME NEW q \in Syncers, NEW u \in Syncers, Saving(q)', Saving(u)',
               sync'[q].stamp = sync'[u].stamp
        PROVE  q = u
    <3>1. \A v \in Syncers : Saving(v) => sync[v].stamp # clock
      BY <1>0 DEF StampOrder
    <3> QED BY <1>0, <2>2, <2>7, <3>1 DEF StampOrder
  <2> QED BY <2>1, <2>4, <2>5, <2>6, <2>7 DEF StampOrder
<1>3. ASSUME NEW p \in Syncers, WriteRow(p) PROVE StampOrder'
  <2>1. SnapshotIDs' = SnapshotIDs /\ deals' = deals /\ clock' = clock
    BY <1>3, WriteRowEffect DEF SnapshotIDs, worldVars
  <2>2. \A q \in Syncers : Saving(q)' => Saving(q) /\ sync'[q].stamp = sync[q].stamp
    BY <1>3, WriteRowEffect DEF Saving
  <2> QED BY <1>0, <2>1, <2>2 DEF StampOrder
<1>4. ASSUME NEW p \in Syncers, Commit(p) PROVE StampOrder'
  <2> DEFINE stamp == sync[p].stamp
             rows  == Stamped(taken[stamp].rows, stamp)
  <2>1. /\ snapshots' = snapshots \cup rows /\ deals' \subseteq deals \cup rows
        /\ clock' = clock /\ Saving(p) /\ stamp \in 1..(clock - 1)
    BY <1>4, CommitEffect DEF worldVars
  <2>2. \A q \in Syncers : Saving(q)' =>
          q # p /\ Saving(q) /\ sync'[q].stamp = sync[q].stamp /\ sync[q].stamp # stamp
    BY <1>0, <1>4, <2>1, CommitPhase DEF Saving, StampOrder
  <2>3. SnapshotIDs' \subseteq SnapshotIDs \cup {stamp}
    BY <2>1, StampsFacts DEF SnapshotIDs
  <2>4. \A r \in deals' : r \in deals \/ r.at = stamp
    BY <2>1, StampsFacts
  <2> HIDE DEF stamp, rows
  <2>5. SnapshotIDs' \subseteq 1..(clock' - 1) /\ \A r \in deals' : r.at < clock'
    BY <1>0, <2>1, <2>3, <2>4 DEF StampOrder
  <2>6. ASSUME NEW q \in Syncers, Saving(q)'
        PROVE  /\ sync'[q].stamp \in 1..(clock' - 1) /\ sync'[q].stamp \notin SnapshotIDs'
               /\ \A r \in deals' : r.at # sync'[q].stamp
    BY <1>0, <2>1, <2>2, <2>3, <2>4, <2>6 DEF StampOrder
  <2> QED BY <1>0, <2>2, <2>5, <2>6 DEF StampOrder
<1>5. ASSUME NEW p \in Syncers, PruneDelete(p) PROVE StampOrder'
  <2>1. SnapshotIDs' \subseteq SnapshotIDs /\ deals' = deals /\ clock' = clock
    BY <1>5, PruneEffect DEF worldVars
  <2>2. \A q \in Syncers : Saving(q)' => Saving(q) /\ sync'[q].stamp = sync[q].stamp
    BY <1>5, PruneEffect DEF Saving
  <2> QED BY <1>0, <2>1, <2>2 DEF StampOrder
<1>6. CASE Elsewhere \/ UNCHANGED vars
  BY <1>0, <1>6, ElsewhereEffect DEF vars, dbVars, worldVars, StampOrder, SnapshotIDs, Saving
<1> QED BY <1>1, <1>2, <1>3, <1>4, <1>5, <1>6, NextCases

LEMMA NextWalks == Core /\ [Next]_vars => Walks'
<1> SUFFICES ASSUME Core, [Next]_vars PROVE Walks'
  OBVIOUS
<1>0. TypeOK /\ Walks
  BY DEF Core
<1>1. ASSUME NEW p \in Syncers, Quiet(p) PROVE Walks'
  <2>1. UNCHANGED <<catalog, taken>>
    BY <1>1, QuietEffect DEF worldVars, historyVars
  <2>2. CASE sync'[p].phase = "walked"
    <3>1. PICK walk \in SUBSET catalog, verdict \in {"complete", "incomplete", "unknown"} :
            /\ verdict = "complete" => walk = catalog
            /\ Becomes(p, [phase |-> "walked", walk |-> walk, was |-> catalog,
                           verdict |-> verdict])
      BY <1>1, <2>2, QuietEffect DEF FetchAllDeals
    <3>2. /\ sync'[p] = [phase |-> "walked", walk |-> walk, was |-> catalog, verdict |-> verdict]
          /\ \A q \in Syncers : q # p => sync'[q] = sync[q]
      BY <1>0, <3>1, BecomesFacts
    <3>3. walk \in Catalogs
      BY <1>0 DEF Walks, Catalogs, OnePerSlug
    <3>4. /\ sync'[p].walk \in Catalogs
          /\ sync'[p].verdict = "complete" => sync'[p].walk = sync'[p].was
      BY <3>1, <3>2, <3>3
    <3> QED BY <1>0, <2>1, <3>2, <3>4 DEF Walks
  <2>3. CASE sync'[p].phase # "walked"
    BY <1>0, <1>1, <2>1, <2>3, QuietEffect DEF Walks
  <2> QED BY <2>2, <2>3
<1>2. ASSUME NEW p \in Syncers, Stamp(p) PROVE Walks'
  <2>1. /\ catalog' = catalog /\ clock \in 1..MaxSyncs /\ sync'[p].phase = "saving"
        /\ \A q \in Syncers : q # p => sync'[q] = sync[q]
        /\ taken'[clock] = [rows |-> sync[p].walk, was |-> sync[p].was,
                            verified |-> sync[p].verdict = "complete"]
        /\ \A t \in 1..MaxSyncs : t # clock => taken'[t] = taken[t]
    BY <1>2, StampEffect DEF Saving
  <2>2. /\ sync[p].walk \in Catalogs
        /\ sync[p].verdict = "complete" => sync[p].walk = sync[p].was
    BY <1>0, <1>2 DEF Stamp, Walks
  <2>3. ASSUME NEW t \in 1..MaxSyncs
        PROVE  /\ taken'[t].rows \in Catalogs
               /\ taken'[t].verified => taken'[t].rows = taken'[t].was
    <3>1. CASE t = clock
      <4>1. /\ taken'[t].rows = sync[p].walk /\ taken'[t].was = sync[p].was
            /\ taken'[t].verified = (sync[p].verdict = "complete")
        BY <2>1, <3>1
      <4> QED BY <2>2, <4>1
    <3>2. CASE t # clock
      BY <1>0, <2>1, <3>2 DEF Walks
    <3> QED BY <3>1, <3>2
  <2> QED BY <1>0, <2>1, <2>3 DEF Walks
<1>3. ASSUME NEW p \in Syncers, WriteRow(p) PROVE Walks'
  BY <1>0, <1>3, WriteRowEffect DEF Walks, Saving, worldVars, historyVars
<1>4. ASSUME NEW p \in Syncers, Commit(p) PROVE Walks'
  BY <1>0, <1>4, CommitPhase, CommitEffect DEF Walks, worldVars
<1>5. ASSUME NEW p \in Syncers, PruneDelete(p) PROVE Walks'
  BY <1>0, <1>5, PruneEffect DEF Walks, worldVars, historyVars
<1>6. CASE Elsewhere
  <2>1. sync' = sync /\ taken' = taken
    BY <1>6, ElsewhereEffect DEF historyVars
  <2>2. catalog' \in Catalogs
    <3>1. CASE Move
      <4>1. PICK s \in Slugs :
              catalog' \in {{r \in catalog : r.slug # s}}
                \cup {{r \in catalog : r.slug # s} \cup {[slug |-> s, version |-> v]} : v \in Versions}
        BY <3>1 DEF Move
      <4>2. CASE catalog' = {r \in catalog : r.slug # s}
        BY <1>0, <4>2 DEF Walks, Catalogs, OnePerSlug
      <4>3. ASSUME NEW v \in Versions,
                   catalog' = {r \in catalog : r.slug # s} \cup {[slug |-> s, version |-> v]}
            PROVE  catalog' \in Catalogs
        BY <1>0, <4>3 DEF Walks, Catalogs, OnePerSlug, DealRows
      <4> QED BY <4>1, <4>2, <4>3
    <3>2. CASE ~Move
      BY <1>0, <1>6, <3>2
      DEF Elsewhere, NameSnapshots, LoadNewer, LoadOlder, Report, worldVars, Walks
    <3> QED BY <3>1, <3>2
  <2> QED BY <1>0, <2>1, <2>2 DEF Walks
<1>7. CASE UNCHANGED vars
  BY <1>0, <1>7 DEF vars, worldVars, historyVars, Walks
<1> QED BY <1>1, <1>2, <1>3, <1>4, <1>5, <1>6, <1>7, NextCases

\* What InTransaction asks of one sync.
InTx(p) ==
  Saving(p) =>
    /\ sync[p].todo \subseteq taken[sync[p].stamp].rows
    /\ writer # p => sync[p].todo = taken[sync[p].stamp].rows
    /\ writer = p => /\ sync[p].txSnapshots = snapshots \cup Done(p)
                     /\ sync[p].txDeals \subseteq deals \cup Done(p)

\* It is undisturbed by a step that leaves this sync, the lock as it sees it,
\* its stamp's record and, while it holds the lock, the tables alone.
LEMMA InTxFrame ==
  ASSUME NEW q \in Syncers, InTx(q), sync'[q] = sync[q],
         Saving(q) => taken'[sync[q].stamp] = taken[sync[q].stamp],
         Saving(q) => (writer' = q <=> writer = q),
         Saving(q) /\ writer = q => UNCHANGED <<deals, snapshots>>
  PROVE  InTx(q)'
BY DEF InTx, Saving, Done

LEMMA NextInTransaction == Core /\ [Next]_vars => InTransaction'
<1> SUFFICES ASSUME Core, [Next]_vars, NEW q \in Syncers PROVE InTx(q)'
  BY DEF InTransaction, InTx
<1>0. /\ TypeOK /\ StampOrder /\ InTx(q) /\ q # NoOne
      /\ writer = q => Saving(q)
  BY NoOneAssumption DEF Core, InTransaction, InTx, LockHeldWhileSaving, Saving
<1>1. ASSUME NEW p \in Syncers, Quiet(p) PROVE InTx(q)'
  <2>1. UNCHANGED <<deals, snapshots, taken>>
    BY <1>1, QuietEffect DEF historyVars
  <2>2. CASE q = p
    BY <1>1, <2>2, QuietEffect DEF InTx
  <2>3. CASE q # p
    <3>1. sync'[q] = sync[q] /\ (writer' = q <=> writer = q)
      BY <1>0, <1>1, <2>3, QuietEffect
    <3> QED BY <1>0, <2>1, <3>1, InTxFrame
  <2> QED BY <2>2, <2>3
<1>2. ASSUME NEW p \in Syncers, Stamp(p) PROVE InTx(q)'
  <2>1. UNCHANGED <<deals, snapshots, writer>>
    BY <1>2, StampEffect DEF dbVars
  <2>2. CASE q = p
    <3>1. /\ sync'[p].stamp = clock /\ sync'[p].todo = sync[p].walk
          /\ writer' # p
          /\ taken'[clock] = [rows |-> sync[p].walk, was |-> sync[p].was,
                              verified |-> sync[p].verdict = "complete"]
      BY <1>2, <2>1, StampEffect
    <3>2. taken'[clock].rows = sync[p].walk
      BY <3>1
    <3> QED BY <2>2, <3>1, <3>2 DEF InTx
  <2>3. CASE q # p
    <3>1. sync'[q] = sync[q]
      BY <1>2, <2>3, StampEffect
    <3>2. Saving(q) => sync[q].stamp \in 1..MaxSyncs /\ sync[q].stamp # clock
      <4>1. clock \in 1..MaxSyncs /\ MaxSyncs \in Nat
        BY <1>2, StampEffect, StoreBounds
      <4>2. Saving(q) => sync[q].stamp \in 1..(clock - 1)
        BY <1>0 DEF StampOrder
      <4> QED BY <4>1, <4>2
    <3>3. Saving(q) => taken'[sync[q].stamp] = taken[sync[q].stamp]
      BY <1>2, <3>2, StampEffect
    <3> QED BY <1>0, <2>1, <3>1, <3>3, InTxFrame
  <2> QED BY <2>2, <2>3
<1>3. ASSUME NEW p \in Syncers, WriteRow(p) PROVE InTx(q)'
  <2>1. UNCHANGED <<deals, snapshots, taken>> /\ writer \in {NoOne, p} /\ writer' = p
    BY <1>3, WriteRowEffect DEF historyVars
  <2>2. CASE q = p
    <3> DEFINE stamp == sync[p].stamp
               done  == Stamped(taken[stamp].rows \ sync'[p].todo, stamp)
    <3>1. /\ sync'[p].stamp = stamp /\ sync'[p].todo \subseteq taken[stamp].rows
          /\ sync'[p].txSnapshots = snapshots \cup done
          /\ sync'[p].txDeals \subseteq deals \cup done
      BY <1>3, WriteRowEffect
    <3>2. Done(p)' = done
      BY <2>1, <3>1 DEF Done
    <3> HIDE DEF done
    <3> QED BY <2>1, <2>2, <3>1, <3>2 DEF InTx
  <2>3. CASE q # p
    <3>1. sync'[q] = sync[q]
      BY <1>3, <2>3, WriteRowEffect
    <3> QED BY <1>0, <2>1, <2>3, <3>1, InTxFrame
  <2> QED BY <2>2, <2>3
<1>4. ASSUME NEW p \in Syncers, Commit(p) PROVE InTx(q)'
  <2>1. CASE q = p
    BY <1>4, <2>1, CommitPhase DEF InTx, Saving
  <2>2. CASE q # p
    <3>1. sync'[q] = sync[q] /\ taken' = taken
      BY <1>4, <2>2, CommitPhase, CommitEffect
    <3>2. writer' = q <=> writer = q
      BY <1>0, <1>4, <2>2, CommitPhase
    <3>3. writer = q => UNCHANGED <<deals, snapshots>>
      BY <1>4, <2>2 DEF Commit, DealsSeenBy, SnapshotsSeenBy
    <3> QED BY <1>0, <3>1, <3>2, <3>3, InTxFrame
  <2> QED BY <2>1, <2>2
<1>5. ASSUME NEW p \in Syncers, PruneDelete(p) PROVE InTx(q)'
  <2>1. CASE q = p
    BY <1>5, <2>1, PruneEffect DEF InTx, Saving
  <2>2. CASE q # p
    <3>1. sync'[q] = sync[q] /\ taken' = taken /\ writer = NoOne /\ writer' = writer
      BY <1>5, <2>2, PruneEffect DEF historyVars
    <3> QED BY <1>0, <3>1, InTxFrame
  <2> QED BY <2>1, <2>2
<1>6. CASE Elsewhere \/ UNCHANGED vars
  <2>1. UNCHANGED <<deals, snapshots, writer, sync, taken>>
    BY <1>6, ElsewhereEffect DEF vars, dbVars, historyVars
  <2> QED BY <1>0, <2>1, InTxFrame
<1> QED BY <1>1, <1>2, <1>3, <1>4, <1>5, <1>6, NextCases

LEMMA NextCore == Core /\ [Next]_vars => Core'
BY NextType, NextLock, NextStampOrder, NextWalks, NextInTransaction DEF Core

------------------------------------------------------------------------------
(* What readers see. *)

LEMMA NextWholeWalk == Core /\ SnapshotIsWholeWalk /\ [Next]_vars => SnapshotIsWholeWalk'
<1> SUFFICES ASSUME Core, SnapshotIsWholeWalk, [Next]_vars, NEW t \in SnapshotIDs'
             PROVE  LoadSnapshot(t)' = taken'[t].rows
  BY DEF SnapshotIsWholeWalk
<1>0. TypeOK /\ StampOrder /\ Walks /\ SnapshotIDs \subseteq 1..(clock - 1)
  BY DEF Core, StampOrder
<1>1. CASE snapshots' = snapshots /\ (t \in SnapshotIDs => taken'[t] = taken[t])
  BY <1>1 DEF SnapshotIDs, LoadSnapshot, SnapshotIsWholeWalk
<1>2. ASSUME NEW p \in Syncers, Stamp(p) PROVE LoadSnapshot(t)' = taken'[t].rows
  <2>1. snapshots' = snapshots /\ clock \in 1..MaxSyncs /\ MaxSyncs \in Nat
    BY <1>2, StampEffect, StoreBounds DEF dbVars
  <2>2. t \in SnapshotIDs
    BY <2>1 DEF SnapshotIDs
  <2>3. t \in 1..MaxSyncs /\ t # clock
    BY <1>0, <2>1, <2>2
  <2> QED BY <1>1, <1>2, <2>1, <2>3, StampEffect
<1>3. ASSUME NEW p \in Syncers, Commit(p) PROVE LoadSnapshot(t)' = taken'[t].rows
  <2> DEFINE stamp == sync[p].stamp
             all   == taken[stamp].rows
  <2>1. /\ snapshots' = snapshots \cup Stamped(all, stamp) /\ taken' = taken
        /\ stamp \in 1..(clock - 1) /\ Saving(p)
    BY <1>3, CommitEffect
  <2>2. stamp \in 1..MaxSyncs
    BY <1>0, <2>1, StoreBounds DEF TypeOK
  <2>3. all \subseteq DealRows
    BY <1>0, <2>2 DEF TypeOK
  <2>4. \A r \in snapshots : r.at # stamp
    BY <1>0, <2>1 DEF StampOrder, SnapshotIDs, StampsIn
  <2>5. CASE t = stamp
    <3>1. {q \in snapshots' : q.at = t} = Stamped(all, stamp)
      BY <2>1, <2>4, <2>5, StampsFacts
    <3>2. {[slug |-> r.slug, version |-> r.version] : r \in Stamped(all, stamp)}
            = {[slug |-> r.slug, version |-> r.version] : r \in all}
      <4>1. ASSUME NEW r \in Stamped(all, stamp)
            PROVE  \E q \in all : r.slug = q.slug /\ r.version = q.version
        BY DEF Stamped
      <4>2. ASSUME NEW q \in all
            PROVE  \E r \in Stamped(all, stamp) : r.slug = q.slug /\ r.version = q.version
        <5>1. [slug |-> q.slug, version |-> q.version, at |-> stamp] \in Stamped(all, stamp)
          BY DEF Stamped
        <5> QED BY <5>1
      <4> QED BY <4>1, <4>2
    <3>3. {[slug |-> r.slug, version |-> r.version] : r \in all} = all
      <4>1. \A r \in all : [slug |-> r.slug, version |-> r.version] = r
        BY <2>3 DEF DealRows
      <4> QED BY <4>1
    <3> QED BY <2>1, <2>5, <3>1, <3>2, <3>3 DEF LoadSnapshot
  <2>6. CASE t # stamp
    <3>1. {q \in snapshots' : q.at = t} = {q \in snapshots : q.at = t}
      BY <2>1, <2>6, StampsFacts
    <3>2. t \in SnapshotIDs
      BY <2>1, <2>6, StampsFacts DEF SnapshotIDs
    <3> QED BY <2>1, <3>1, <3>2 DEF LoadSnapshot, SnapshotIsWholeWalk
  <2> QED BY <2>5, <2>6
<1>4. ASSUME NEW p \in Syncers, PruneDelete(p) PROVE LoadSnapshot(t)' = taken'[t].rows
  <2>1. /\ snapshots' = {r \in snapshots : r.at > sync[p].cutoff} /\ taken' = taken
        /\ t \in SnapshotIDs /\ t > sync[p].cutoff
    BY <1>4, PruneEffect DEF historyVars
  <2>2. {q \in snapshots' : q.at = t} = {q \in snapshots : q.at = t}
    BY <2>1
  <2> QED BY <2>1, <2>2 DEF LoadSnapshot, SnapshotIsWholeWalk
<1>5. ASSUME NEW p \in Syncers, Quiet(p) PROVE LoadSnapshot(t)' = taken'[t].rows
  BY <1>1, <1>5, QuietEffect DEF historyVars
<1>6. ASSUME NEW p \in Syncers, WriteRow(p) PROVE LoadSnapshot(t)' = taken'[t].rows
  BY <1>1, <1>6, WriteRowEffect DEF historyVars
<1>7. CASE Elsewhere \/ UNCHANGED vars
  BY <1>1, <1>7, ElsewhereEffect DEF vars, dbVars, historyVars
<1> QED BY <1>2, <1>3, <1>4, <1>5, <1>6, <1>7, NextCases

\* How cutoffs compare.
LEMMA AfterOrder ==
  ASSUME NEW S \in SUBSET Nat, NEW c \in Nat, NEW d \in Nat
  PROVE  /\ c <= d => After(S, d) \subseteq After(S, c)
         /\ c <= d => After({x \in S : x > c}, d) = After(S, d)
         /\ c <= d => After({x \in S : x > d}, c) = After(S, d)
<1>1. ASSUME c <= d, NEW x \in S, x > d PROVE x > c
  <2>1. x \in Nat
    OBVIOUS
  <2> QED BY <1>1, <2>1
<1> QED BY <1>1 DEF After

LEMMA StampSets ==
  ASSUME Core
  PROVE  /\ IsFiniteSet(SnapshotIDs) /\ SnapshotIDs \subseteq Nat
         /\ \A t : IsFiniteSet(After(SnapshotIDs, t))
         /\ \A t : Cardinality(After(SnapshotIDs, t)) \in Nat
<1>1. SnapshotIDs \subseteq 1..(clock - 1) /\ clock \in Int
  BY DEF Core, StampOrder, TypeOK
<1>2. IsFiniteSet(1..(clock - 1))
  BY <1>1, FS_Interval
<1>3. IsFiniteSet(SnapshotIDs)
  BY <1>1, <1>2, FS_Subset
<1>4. ASSUME NEW t PROVE IsFiniteSet(After(SnapshotIDs, t))
  BY <1>3, FS_Subset DEF After
<1> QED BY <1>1, <1>3, <1>4, FS_CardinalityType

\* A prune whose cutoff leaves Keep snapshots takes none that has fewer than
\* Keep snapshots after it.
LEMMA PruneSpares ==
  ASSUME Core, Pruners, NEW p \in Syncers, PruneDelete(p), NEW t \in SnapshotIDs,
         Cardinality(After(SnapshotIDs, t)) < Keep
  PROVE  /\ t \in SnapshotIDs'
         /\ After(SnapshotIDs, t)' = After(SnapshotIDs, t)
<1>1. /\ sync[p].cutoff \in Nat /\ Keep \in Nat
      /\ Cardinality(After(SnapshotIDs, sync[p].cutoff)) >= Keep
  BY PruneEffect, KeepAssumption DEF Pruners, PruningStates
<1>2. /\ IsFiniteSet(After(SnapshotIDs, t)) /\ t \in Nat /\ SnapshotIDs \subseteq Nat
      /\ Cardinality(After(SnapshotIDs, t)) \in Nat
      /\ Cardinality(After(SnapshotIDs, sync[p].cutoff)) \in Nat
  BY StampSets
<1>3. t > sync[p].cutoff
  <2>1. SUFFICES ASSUME t <= sync[p].cutoff PROVE FALSE
    BY <1>1, <1>2
  <2>2. After(SnapshotIDs, sync[p].cutoff) \subseteq After(SnapshotIDs, t)
    BY <1>1, <1>2, <2>1, AfterOrder
  <2>3. Cardinality(After(SnapshotIDs, sync[p].cutoff)) <= Cardinality(After(SnapshotIDs, t))
    BY <1>2, <2>2, FS_Subset
  <2> QED BY <1>1, <1>2, <2>3
<1>4. SnapshotIDs' = {x \in SnapshotIDs : x > sync[p].cutoff}
  BY PruneEffect
<1>5. t \in SnapshotIDs'
  BY <1>3, <1>4
<1>6. After(SnapshotIDs', t) = After(SnapshotIDs, t)
  <2>1. sync[p].cutoff <= t
    BY <1>1, <1>2, <1>3
  <2> QED BY <1>1, <1>2, <1>4, <2>1, AfterOrder
<1> QED BY <1>5, <1>6 DEF After

\* Every step but a prune leaves the snapshots there are.
LEMMA OnlyPrunesDelete ==
  ASSUME Core, [Next]_vars, \A p \in Syncers : ~PruneDelete(p)
  PROVE  SnapshotIDs \subseteq SnapshotIDs'
<1>1. ASSUME NEW p \in Syncers, Commit(p) PROVE SnapshotIDs \subseteq SnapshotIDs'
  BY <1>1, CommitEffect, StampsFacts DEF SnapshotIDs
<1>2. ASSUME snapshots' = snapshots PROVE SnapshotIDs \subseteq SnapshotIDs'
  BY <1>2 DEF SnapshotIDs
<1>3. ASSUME NEW p \in Syncers, Quiet(p) \/ Stamp(p) \/ WriteRow(p)
      PROVE  SnapshotIDs \subseteq SnapshotIDs'
  BY <1>2, <1>3, QuietEffect, StampEffect, WriteRowEffect DEF dbVars
<1>4. CASE Elsewhere \/ UNCHANGED vars
  BY <1>2, <1>4, ElsewhereEffect DEF vars, dbVars
<1> QED BY <1>1, <1>3, <1>4, NextCases

LEMMA NextPruners == Core /\ Core' /\ Pruners /\ [Next]_vars => Pruners'
<1> SUFFICES ASSUME Core, Core', Pruners, [Next]_vars, NEW q \in Syncers
             PROVE  /\ sync'[q].phase \in {"saved", "pruning"} => Keep > 0
                    /\ sync'[q].phase = "pruning" =>
                         Cardinality(After(SnapshotIDs', sync'[q].cutoff)) >= Keep
  BY DEF Pruners, After
<1> DEFINE Held == /\ sync'[q].phase \in {"saved", "pruning"} => Keep > 0
                   /\ sync'[q].phase = "pruning" =>
                         Cardinality(After(SnapshotIDs', sync'[q].cutoff)) >= Keep
<1>0. /\ TypeOK /\ Keep \in Nat
      /\ \A t : /\ IsFiniteSet(After(SnapshotIDs, t)) /\ IsFiniteSet(After(SnapshotIDs', t))
                /\ Cardinality(After(SnapshotIDs, t)) \in Nat
                /\ Cardinality(After(SnapshotIDs', t)) \in Nat
  <2>1. Core' => \A t : /\ IsFiniteSet(After(SnapshotIDs', t))
                        /\ Cardinality(After(SnapshotIDs', t)) \in Nat
    <3>1. Core' => SnapshotIDs' \subseteq 1..(clock' - 1) /\ clock' \in Int
      <4>1. Core' => clock' \in Int
        BY StoreBounds DEF Core, TypeOK
      <4>2. StampOrder' => SnapshotIDs' \subseteq 1..(clock' - 1)
        BY DEF StampOrder
      <4> QED BY <4>1, <4>2 DEF Core
    <3>2. Core' => IsFiniteSet(SnapshotIDs')
      BY <3>1, FS_Interval, FS_Subset
    <3>3. ASSUME Core', NEW t PROVE IsFiniteSet(After(SnapshotIDs', t))
      BY <3>2, <3>3, FS_Subset DEF After
    <3> QED BY <3>3, FS_CardinalityType
  <2> QED BY <2>1, StampSets, KeepAssumption DEF Core
<1>1. ASSUME sync'[q] = sync[q], SnapshotIDs \subseteq SnapshotIDs' PROVE Held
  <2>1. SUFFICES ASSUME sync[q].phase = "pruning"
                 PROVE  Cardinality(After(SnapshotIDs', sync[q].cutoff)) >= Keep
    BY <1>1 DEF Pruners
  <2>2. After(SnapshotIDs, sync[q].cutoff) \subseteq After(SnapshotIDs', sync[q].cutoff)
    BY <1>1 DEF After
  <2>3. Cardinality(After(SnapshotIDs, sync[q].cutoff))
          <= Cardinality(After(SnapshotIDs', sync[q].cutoff))
    BY <1>0, <2>2, FS_Subset
  <2>4. Cardinality(After(SnapshotIDs, sync[q].cutoff)) >= Keep
    BY <2>1 DEF Pruners
  <2> QED BY <1>0, <2>3, <2>4
<1>2. ASSUME sync'[q].phase \in {"idle", "walked", "saving"} PROVE Held
  BY <1>2
<1>3. ASSUME NEW p \in Syncers, Quiet(p) PROVE Held
  <2>1. SnapshotIDs' = SnapshotIDs
    BY <1>3, QuietEffect DEF SnapshotIDs
  <2>2. CASE q # p
    BY <1>1, <1>3, <2>1, <2>2, QuietEffect
  <2>3. CASE q = p /\ sync'[p].phase # "pruning"
    BY <1>2, <1>3, <2>3, QuietEffect
  <2>4. CASE q = p /\ sync'[p].phase = "pruning"
    <3>1. PruneRead(p)
      BY <1>3, <2>4, QuietEffect
    <3>2. ~(Cardinality(SnapshotIDs) <= Keep)
      <4>1. Becomes(p, Idle) => sync'[p] = Idle
        BY <1>0, BecomesFacts
      <4> QED BY <2>4, <3>1, <4>1 DEF PruneRead, Idle
    <3>3. PICK c \in SnapshotIDs : /\ Cardinality(After(SnapshotIDs, c)) = Keep
                                   /\ Becomes(p, [phase |-> "pruning", cutoff |-> c])
      BY <3>1, <3>2 DEF PruneRead
    <3>4. sync'[p].cutoff = c
      BY <1>0, <3>3, BecomesFacts
    <3>5. Keep > 0
      BY <3>1 DEF PruneRead, Pruners
    <3> QED BY <1>0, <2>1, <2>4, <3>3, <3>4, <3>5
  <2> QED BY <2>2, <2>3, <2>4
<1>4. ASSUME NEW p \in Syncers, Stamp(p) \/ WriteRow(p) PROVE Held
  <2>1. SnapshotIDs' = SnapshotIDs
    BY <1>4, StampEffect, WriteRowEffect DEF SnapshotIDs, dbVars
  <2>2. sync'[p].phase = "saving" /\ (q # p => sync'[q] = sync[q])
    BY <1>4, StampEffect, WriteRowEffect DEF Saving
  <2> QED BY <1>1, <1>2, <2>1, <2>2
<1>5. ASSUME NEW p \in Syncers, Commit(p) PROVE Held
  <2>1. SnapshotIDs \subseteq SnapshotIDs'
    BY <1>5, CommitEffect, StampsFacts DEF SnapshotIDs
  <2>2. sync'[p].phase \in {"idle", "saved"} /\ (q # p => sync'[q] = sync[q])
    BY <1>5, CommitPhase
  <2>3. Becomes(p, IF Keep > 0 THEN [phase |-> "saved"] ELSE Idle)
    BY <1>5 DEF Commit
  <2>4. sync'[p] = IF Keep > 0 THEN [phase |-> "saved"] ELSE Idle
    BY <1>0, <2>3, BecomesFacts
  <2>5. sync'[p].phase = "saved" => Keep > 0
    BY <2>4 DEF Idle
  <2> QED BY <1>1, <2>1, <2>2, <2>5
<1>6. ASSUME NEW p \in Syncers, PruneDelete(p) PROVE Held
  <2>1. CASE q = p
    BY <1>2, <1>6, <2>1, PruneEffect
  <2>2. CASE q # p
    <3>1. sync'[q] = sync[q]
      BY <1>6, <2>2, PruneEffect
    <3>2. SUFFICES ASSUME sync[q].phase = "pruning"
                   PROVE  Cardinality(After(SnapshotIDs', sync[q].cutoff)) >= Keep
      BY <3>1 DEF Pruners
    <3> DEFINE c == sync[q].cutoff
               d == sync[p].cutoff
    <3>3. c \in Nat /\ d \in Nat /\ SnapshotIDs \subseteq Nat
      BY <1>0, <1>6, <3>2, SyncFields, PruneEffect, StampSets DEF PruningStates
    <3>4. /\ Cardinality(After(SnapshotIDs, c)) >= Keep
          /\ Cardinality(After(SnapshotIDs, d)) >= Keep
      BY <1>6, <3>2, PruneEffect DEF Pruners
    <3>5. SnapshotIDs' = {t \in SnapshotIDs : t > d}
      BY <1>6, PruneEffect
    <3> HIDE DEF c, d
    <3>6. CASE d <= c
      <4>1. After(SnapshotIDs', c) = After(SnapshotIDs, c)
        BY <3>3, <3>5, <3>6, AfterOrder
      <4> QED BY <3>4, <4>1 DEF c
    <3>7. CASE d > c
      <4>1. c <= d
        BY <3>3, <3>7
      <4>2. After(SnapshotIDs', c) = After(SnapshotIDs, d)
        BY <3>3, <3>5, <4>1, AfterOrder
      <4> QED BY <3>4, <4>2 DEF c
    <3> QED BY <3>3, <3>6, <3>7
  <2> QED BY <2>1, <2>2
<1>7. CASE Elsewhere \/ UNCHANGED vars
  <2>1. sync' = sync /\ snapshots' = snapshots
    BY <1>7, ElsewhereEffect DEF vars, dbVars
  <2> QED BY <1>1, <2>1 DEF SnapshotIDs
<1> QED BY <1>3, <1>4, <1>5, <1>6, <1>7, NextCases

\* What Diffs asks of one diff.
DiffHolds(f) ==
  diff[f].phase # "idle" =>
    /\ diff[f].newer \in 1..(clock - 1) /\ diff[f].older \in 1..(clock - 1)
    /\ diff[f].since <= commits
    /\ Steady(f) =>
         /\ diff[f].newer \in SnapshotIDs /\ diff[f].older \in SnapshotIDs
         /\ diff[f].newer > diff[f].older
         /\ Keep # 0 =>
              Cardinality(After(SnapshotIDs, diff[f].older)) <= 1 + (commits - diff[f].since)
         /\ diff[f].phase # "named" => diff[f].after = taken[diff[f].newer].rows
         /\ diff[f].phase = "report" => diff[f].before = taken[diff[f].older].rows

LEMMA DiffTypes ==
  ASSUME TypeOK, NEW f \in Differs, diff[f].phase # "idle"
  PROVE  diff[f].newer \in Nat /\ diff[f].older \in Nat /\ diff[f].since \in Nat
<1>1. diff[f] \in NamedStates \/ diff[f] \in HalfStates \/ diff[f] \in ReportStates
  BY DiffFields DEF DiffStates, Idle
<1> QED BY <1>1 DEF NamedStates, HalfStates, ReportStates

LEMMA EarlierStays ==
  \A now, then \in Nat : now <= then => \A t \in 1..(now - 1) : t \in 1..(then - 1)
OBVIOUS

\* A step that leaves a diff, the tables and the records of past stamps alone.
LEMMA DiffFrame ==
  ASSUME NEW f \in Differs, DiffHolds(f), diff'[f] = diff[f],
         clock \in Nat, clock' \in Nat, clock <= clock',
         snapshots' = snapshots, commits' = commits,
         \A t \in 1..(clock - 1) : taken'[t] = taken[t]
  PROVE  DiffHolds(f)'
<1>1. SnapshotIDs' = SnapshotIDs /\ (Steady(f)' <=> Steady(f))
  BY DEF SnapshotIDs, Steady
<1>2. \A t \in 1..(clock - 1) : t \in 1..(clock' - 1)
  BY EarlierStays
<1>3. SUFFICES ASSUME diff[f].phase # "idle" PROVE DiffHolds(f)'
  BY DEF DiffHolds
<1>4. /\ diff[f].newer \in 1..(clock - 1) /\ diff[f].older \in 1..(clock - 1)
  BY <1>3 DEF DiffHolds
<1>5. After(SnapshotIDs', diff'[f].older) = After(SnapshotIDs, diff[f].older)
  BY <1>1
<1> QED BY <1>1, <1>2, <1>4, <1>5 DEF DiffHolds, After

LEMMA NextDiffs ==
  Core /\ SnapshotIsWholeWalk /\ Pruners /\ Diffs /\ [Next]_vars => Diffs'
<1> SUFFICES ASSUME Core, SnapshotIsWholeWalk, Pruners, Diffs, [Next]_vars, NEW f \in Differs
             PROVE  DiffHolds(f)'
  BY DEF Diffs, DiffHolds
<1>0. /\ TypeOK /\ DiffHolds(f) /\ Keep \in Nat
      /\ clock \in Nat /\ commits \in Nat /\ SnapshotIDs \subseteq 1..(clock - 1)
  BY KeepAssumption DEF Core, TypeOK, StampOrder, Diffs, DiffHolds
<1>1. ASSUME NEW p \in Syncers, Quiet(p) \/ WriteRow(p) PROVE DiffHolds(f)'
  <2>1. UNCHANGED <<diff, clock, snapshots, commits, taken>>
    BY <1>1, QuietEffect, WriteRowEffect DEF worldVars, historyVars
  <2> QED BY <1>0, <2>1, DiffFrame
<1>2. ASSUME NEW p \in Syncers, Stamp(p) PROVE DiffHolds(f)'
  <2>1. /\ UNCHANGED <<diff, snapshots, commits>> /\ clock' = clock + 1
        /\ clock \in 1..MaxSyncs /\ MaxSyncs \in Nat
        /\ \A t \in 1..MaxSyncs : t # clock => taken'[t] = taken[t]
    BY <1>2, StampEffect, StoreBounds DEF dbVars
  <2>2. \A t \in 1..(clock - 1) : taken'[t] = taken[t]
    BY <2>1
  <2> QED BY <1>0, <2>1, <2>2, DiffFrame
<1>3. ASSUME NEW p \in Syncers, Commit(p) PROVE DiffHolds(f)'
  <2> DEFINE stamp == sync[p].stamp
  <2>1. /\ UNCHANGED <<diff, clock, taken>> /\ commits' = commits + 1
        /\ snapshots' = snapshots \cup Stamped(taken[stamp].rows, stamp)
    BY <1>3, CommitEffect DEF worldVars
  <2>2. SnapshotIDs \subseteq SnapshotIDs' /\ SnapshotIDs' \subseteq SnapshotIDs \cup {stamp}
    BY <2>1, StampsFacts DEF SnapshotIDs
  <2>3. SUFFICES ASSUME diff[f].phase # "idle" PROVE DiffHolds(f)'
    BY <2>1 DEF DiffHolds
  <2>4. diff[f].newer \in Nat /\ diff[f].older \in Nat /\ diff[f].since \in Nat
    BY <1>0, <2>3, DiffTypes
  <2>5. Steady(f)' => Steady(f)
    BY <1>0, <2>1, <2>4 DEF Steady
  <2> DEFINE old == After(SnapshotIDs, diff[f].older)
             now == After(SnapshotIDs', diff[f].older)
  <2>6. now \subseteq old \cup {stamp}
    BY <2>2 DEF After
  <2>7. IsFiniteSet(old) /\ Cardinality(old) \in Nat
    BY StampSets
  <2> HIDE DEF old, now, stamp
  <2>8. /\ IsFiniteSet(old \cup {stamp}) /\ Cardinality(old \cup {stamp}) <= Cardinality(old) + 1
        /\ Cardinality(old \cup {stamp}) \in Nat
    <3>1. /\ IsFiniteSet(old \cup {stamp})
          /\ \/ Cardinality(old \cup {stamp}) = Cardinality(old)
             \/ Cardinality(old \cup {stamp}) = Cardinality(old) + 1
      BY <2>7, FS_AddElement
    <3> QED BY <2>7, <3>1
  <2>9. Cardinality(now) \in Nat /\ Cardinality(now) <= Cardinality(old) + 1
    <3>1. IsFiniteSet(now) /\ Cardinality(now) <= Cardinality(old \cup {stamp})
      BY <2>6, <2>8, FS_Subset
    <3>2. Cardinality(now) \in Nat
      BY <3>1, FS_CardinalityType
    <3> QED BY <2>7, <2>8, <3>1, <3>2
  <2>10. ASSUME Steady(f)', Keep # 0
         PROVE  Cardinality(now) <= 1 + (commits' - diff[f].since)
    <3>1. Cardinality(old) <= 1 + (commits - diff[f].since)
      BY <1>0, <2>3, <2>5, <2>10 DEF DiffHolds, old
    <3> QED BY <1>0, <2>1, <2>4, <2>7, <2>9, <3>1
  <2>11. diff[f].since <= commits'
    BY <1>0, <2>1, <2>3, <2>4 DEF DiffHolds
  <2>12. /\ diff[f].newer \in 1..(clock - 1) /\ diff[f].older \in 1..(clock - 1)
    BY <1>0, <2>3 DEF DiffHolds
  <2>13. ASSUME Steady(f)'
         PROVE  /\ diff[f].newer \in SnapshotIDs' /\ diff[f].older \in SnapshotIDs'
                /\ diff[f].newer > diff[f].older
                /\ diff[f].phase # "named" => diff[f].after = taken[diff[f].newer].rows
                /\ diff[f].phase = "report" => diff[f].before = taken[diff[f].older].rows
    BY <1>0, <2>2, <2>3, <2>5, <2>13 DEF DiffHolds
  <2>14. Steady(f)' /\ Keep # 0 =>
           Cardinality(After(SnapshotIDs', diff[f].older)) <= 1 + (commits' - diff[f].since)
    BY <2>10 DEF now
  <2> QED BY <2>1, <2>11, <2>12, <2>13, <2>14 DEF DiffHolds, After
<1>4. ASSUME NEW p \in Syncers, PruneDelete(p) PROVE DiffHolds(f)'
  <2>1. UNCHANGED <<diff, clock, commits, taken>> /\ sync[p].phase = "pruning"
    BY <1>4, PruneEffect DEF worldVars, historyVars
  <2>2. Keep > 0
    BY <2>1 DEF Pruners
  <2>3. SUFFICES ASSUME diff[f].phase # "idle" PROVE DiffHolds(f)'
    BY <2>1 DEF DiffHolds
  <2>4. diff[f].newer \in Nat /\ diff[f].older \in Nat /\ diff[f].since \in Nat
    BY <1>0, <2>3, DiffTypes
  <2>5. Steady(f)' <=> Steady(f)
    BY <2>1 DEF Steady
  <2>6. CASE ~Steady(f)
    BY <1>0, <2>1, <2>3, <2>5, <2>6 DEF DiffHolds
  <2>7. CASE Steady(f)
    <3>1. /\ diff[f].newer \in SnapshotIDs /\ diff[f].older \in SnapshotIDs
          /\ diff[f].newer > diff[f].older
          /\ Cardinality(After(SnapshotIDs, diff[f].older)) <= 1 + (commits - diff[f].since)
          /\ diff[f].phase # "named" => diff[f].after = taken[diff[f].newer].rows
          /\ diff[f].phase = "report" => diff[f].before = taken[diff[f].older].rows
      BY <1>0, <2>2, <2>3, <2>7 DEF DiffHolds
    <3>2. Cardinality(After(SnapshotIDs, diff[f].older)) < Keep
      <4>1. commits - diff[f].since <= Keep - 2
        BY <2>2, <2>7 DEF Steady
      <4>2. Cardinality(After(SnapshotIDs, diff[f].older)) \in Nat
        BY StampSets
      <4> QED BY <1>0, <2>4, <3>1, <4>1, <4>2
    <3>3. /\ diff[f].older \in SnapshotIDs'
          /\ After(SnapshotIDs', diff[f].older) = After(SnapshotIDs, diff[f].older)
      <4>1. /\ diff[f].older \in SnapshotIDs'
            /\ After(SnapshotIDs, diff[f].older)' = After(SnapshotIDs, diff[f].older)
        BY <1>4, <2>1, <3>1, <3>2, PruneSpares
      <4> QED BY <2>1, <4>1 DEF After
    <3>4. diff[f].newer \in SnapshotIDs'
      BY <3>1, <3>3 DEF After
    <3> QED BY <1>0, <2>1, <2>3, <3>1, <3>3, <3>4 DEF DiffHolds, After
  <2> QED BY <2>6, <2>7
<1>5. ASSUME UNCHANGED <<clock, snapshots, commits, taken>>, diff'[f] = diff[f]
      PROVE  DiffHolds(f)'
  BY <1>0, <1>5, DiffFrame
<1>6. CASE Elsewhere
  <2>1. UNCHANGED <<clock, snapshots, commits, taken>>
    BY <1>6, ElsewhereEffect DEF dbVars, historyVars
  <2>2. SnapshotIDs' = SnapshotIDs
    BY <2>1 DEF SnapshotIDs
  <2>3. CASE Move
    BY <1>5, <2>1, <2>3 DEF Move
  <2>4. ASSUME NEW g \in Differs, g # f,
               NameSnapshots(g) \/ LoadNewer(g) \/ LoadOlder(g) \/ Report(g)
        PROVE  DiffHolds(f)'
    <3>1. diff'[f] = diff[f]
      BY <1>0, <2>4 DEF NameSnapshots, LoadNewer, LoadOlder, Report, TypeOK
    <3> QED BY <1>5, <2>1, <3>1
  <2>5. CASE NameSnapshots(f)
    <3>1. PICK newer, older \in Newest(SnapshotIDs, 2) :
            /\ newer > older
            /\ diff' = [diff EXCEPT ![f] = [phase |-> "named", newer |-> newer,
                                             older |-> older, since |-> commits]]
      BY <2>5 DEF NameSnapshots
    <3>2. diff'[f] = [phase |-> "named", newer |-> newer, older |-> older, since |-> commits]
      BY <1>0, <3>1 DEF TypeOK
    <3>3. /\ newer \in SnapshotIDs /\ older \in SnapshotIDs
          /\ Cardinality(After(SnapshotIDs, older)) < 2
          /\ Cardinality(After(SnapshotIDs, older)) \in Nat
      BY <3>1, StampSets DEF Newest
    <3>4. Cardinality(After(SnapshotIDs, older)) <= 1 + (commits - commits)
      BY <1>0, <3>3
    <3>5. /\ diff'[f].phase = "named" /\ diff'[f].newer = newer /\ diff'[f].older = older
          /\ diff'[f].since = commits
      BY <3>2
    <3>6. /\ newer \in 1..(clock' - 1) /\ older \in 1..(clock' - 1) /\ commits <= commits'
          /\ newer \in SnapshotIDs' /\ older \in SnapshotIDs'
          /\ Cardinality(After(SnapshotIDs', older)) <= 1 + (commits' - commits)
      BY <1>0, <2>1, <2>2, <3>3, <3>4
    <3> QED BY <3>1, <3>5, <3>6 DEF DiffHolds, After
  <2>6. CASE LoadNewer(f)
    <3>1. diff'[f] = [phase |-> "half", newer |-> diff[f].newer, older |-> diff[f].older,
                      since |-> diff[f].since, after |-> LoadSnapshot(diff[f].newer)]
      BY <1>0, <2>6 DEF LoadNewer, TypeOK
    <3>2. diff[f].phase = "named"
      BY <2>6 DEF LoadNewer
    <3>3. /\ diff'[f].phase = "half" /\ diff'[f].newer = diff[f].newer
          /\ diff'[f].older = diff[f].older /\ diff'[f].since = diff[f].since
          /\ diff'[f].after = LoadSnapshot(diff[f].newer)
      BY <3>1
    <3>4. Steady(f)' <=> Steady(f)
      BY <2>1, <3>3 DEF Steady
    <3>5. Steady(f) => LoadSnapshot(diff[f].newer) = taken[diff[f].newer].rows
      BY <1>0, <3>2 DEF DiffHolds, SnapshotIsWholeWalk
    <3> QED BY <1>0, <2>1, <2>2, <3>2, <3>3, <3>4, <3>5 DEF DiffHolds, After
  <2>7. CASE LoadOlder(f)
    <3>1. diff'[f] = [phase |-> "report", newer |-> diff[f].newer, older |-> diff[f].older,
                      since |-> diff[f].since, after |-> diff[f].after,
                      before |-> LoadSnapshot(diff[f].older)]
      BY <1>0, <2>7 DEF LoadOlder, TypeOK
    <3>2. diff[f].phase = "half"
      BY <2>7 DEF LoadOlder
    <3>3. /\ diff'[f].phase = "report" /\ diff'[f].newer = diff[f].newer
          /\ diff'[f].older = diff[f].older /\ diff'[f].since = diff[f].since
          /\ diff'[f].after = diff[f].after /\ diff'[f].before = LoadSnapshot(diff[f].older)
      BY <3>1
    <3>4. Steady(f)' <=> Steady(f)
      BY <2>1, <3>3 DEF Steady
    <3>5. Steady(f) => LoadSnapshot(diff[f].older) = taken[diff[f].older].rows
      BY <1>0, <3>2 DEF DiffHolds, SnapshotIsWholeWalk
    <3> QED BY <1>0, <2>1, <2>2, <3>2, <3>3, <3>4, <3>5 DEF DiffHolds, After
  <2>8. CASE Report(f)
    <3>1. diff'[f] = Idle
      BY <1>0, <2>8 DEF Report, TypeOK
    <3> QED BY <3>1 DEF DiffHolds, Idle
  <2> QED BY <1>6, <2>3, <2>4, <2>5, <2>6, <2>7, <2>8 DEF Elsewhere
<1>7. CASE UNCHANGED vars
  BY <1>5, <1>7 DEF vars, worldVars, dbVars, historyVars
<1> QED BY <1>1, <1>2, <1>3, <1>4, <1>6, <1>7, NextCases

LEMMA NextTablesAgree == Core /\ TablesAgree /\ [Next]_vars => TablesAgree'
<1> SUFFICES ASSUME Core, TablesAgree, [Next]_vars, NEW r \in deals', r.at \in SnapshotIDs'
             PROVE  r \in snapshots'
  BY DEF TablesAgree
<1>1. ASSUME deals' = deals, snapshots' = snapshots PROVE r \in snapshots'
  BY <1>1 DEF TablesAgree, SnapshotIDs
<1>2. ASSUME NEW p \in Syncers, Quiet(p) \/ Stamp(p) \/ WriteRow(p) PROVE r \in snapshots'
  BY <1>1, <1>2, QuietEffect, StampEffect, WriteRowEffect DEF dbVars
<1>3. ASSUME NEW p \in Syncers, Commit(p) PROVE r \in snapshots'
  <2> DEFINE stamp == sync[p].stamp
             rows  == Stamped(taken[stamp].rows, stamp)
  <2>1. snapshots' = snapshots \cup rows /\ deals' \subseteq deals \cup rows /\ Saving(p)
    BY <1>3, CommitEffect
  <2>2. CASE r \in rows
    BY <2>1, <2>2
  <2>3. CASE r \in deals
    <3>1. r.at # stamp
      BY <2>1, <2>3 DEF Core, StampOrder
    <3>2. SnapshotIDs' \subseteq SnapshotIDs \cup {stamp}
      BY <2>1, StampsFacts DEF SnapshotIDs
    <3> QED BY <2>1, <2>3, <3>1, <3>2 DEF TablesAgree
  <2> QED BY <2>1, <2>2, <2>3
<1>4. ASSUME NEW p \in Syncers, PruneDelete(p) PROVE r \in snapshots'
  BY <1>4, PruneEffect DEF TablesAgree
<1>5. CASE Elsewhere \/ UNCHANGED vars
  BY <1>1, <1>5, ElsewhereEffect DEF vars, dbVars
<1> QED BY <1>2, <1>3, <1>4, <1>5, NextCases

------------------------------------------------------------------------------
(* The theorems. *)

IndInv == Core /\ SnapshotIsWholeWalk /\ TablesAgree /\ Pruners /\ Diffs

LEMMA InitInv == Init => IndInv
<1> SUFFICES ASSUME Init PROVE IndInv
  OBVIOUS
<1>1. /\ sync = [p \in Syncers |-> Idle] /\ diff = [f \in Differs |-> Idle]
      /\ snapshots = {} /\ deals = {}
  BY DEF Init
<1>2. Idle.phase = "idle"
  BY DEF Idle
<1>3. SnapshotIsWholeWalk /\ TablesAgree
  BY <1>1 DEF SnapshotIsWholeWalk, TablesAgree, SnapshotIDs, StampsIn
<1>4. Pruners /\ Diffs
  BY <1>1, <1>2 DEF Pruners, Diffs
<1> QED BY <1>3, <1>4, InitCore DEF IndInv

LEMMA NextInv == IndInv /\ [Next]_vars => IndInv'
BY NextCore, NextWholeWalk, NextTablesAgree, NextPruners, NextDiffs DEF IndInv

\* The invariant behind every theorem below.
THEOREM Inductive == Spec => []IndInv
BY InitInv, NextInv, PTL DEF Spec

\* A snapshot in the store is the whole of one walk, whatever syncs and prunes
\* overlap and wherever they fail (SaveDealSnapshot, store/deals.go:85-177).
THEOREM SnapshotsAreWhole == Spec => []SnapshotIsWholeWalk
<1>1. IndInv => SnapshotIsWholeWalk
  BY DEF IndInv
<1> QED BY <1>1, Inductive, PTL

\* The two tables never contradict each other about a snapshot that is kept.
THEOREM TablesAlwaysAgree == Spec => []TablesAgree
<1>1. IndInv => TablesAgree
  BY DEF IndInv
<1> QED BY <1>1, Inductive, PTL

\* The write lock is never left behind by a sync that is no longer saving.
THEOREM LockIsReleased == Spec => []LockHeldWhileSaving
<1>1. IndInv => LockHeldWhileSaving
  BY DEF IndInv, Core
<1> QED BY <1>1, Inductive, PTL

\* No prune, however late its delete, removes one of the Keep newest snapshots
\* (PruneSnapshots, store/deals.go:257-273).
THEOREM NewestAreKept == Spec => PruneKeepsNewest
<1>1. ASSUME IndInv, [Next]_vars, NEW t \in SnapshotIDs,
             Keep = 0 \/ t \in Newest(SnapshotIDs, Keep)
      PROVE  t \in SnapshotIDs'
  <2>1. CASE \A p \in Syncers : ~PruneDelete(p)
    BY <1>1, <2>1, OnlyPrunesDelete DEF IndInv
  <2>2. ASSUME NEW p \in Syncers, PruneDelete(p) PROVE t \in SnapshotIDs'
    <3>1. Keep > 0
      BY <1>1, <2>2 DEF IndInv, Pruners, PruneDelete
    <3>2. Cardinality(After(SnapshotIDs, t)) < Keep
      BY <1>1, <3>1, KeepAssumption DEF Newest
    <3> QED BY <1>1, <2>2, <3>2, PruneSpares DEF IndInv
  <2> QED BY <2>1, <2>2
<1>2. IndInv /\ [Next]_vars =>
        [\A t \in SnapshotIDs :
           Keep = 0 \/ t \in Newest(SnapshotIDs, Keep) => t \in SnapshotIDs']_vars
  BY <1>1
<1> QED BY <1>2, Inductive, PTL DEF Spec, PruneKeepsNewest

\* `deals diff` between two certified snapshots reports exactly what changed
\* between the catalogs that were walked, although its three reads run between
\* other processes' commits and prunes, as long as fewer than Keep - 1 syncs
\* commit meanwhile (cli/deals.go:506-531).
THEOREM DiffsAreTruthful == Spec => []DiffIsTruthful
<1>1. IndInv => DiffIsTruthful
  <2> SUFFICES ASSUME IndInv, NEW f \in Differs, diff[f].phase = "report", Steady(f),
                      taken[diff[f].older].verified, taken[diff[f].newer].verified
               PROVE  Changes(f) = DiffDeals(taken[diff[f].older].was, taken[diff[f].newer].was)
    BY DEF DiffIsTruthful
  <2>1. DiffHolds(f)
    BY DEF IndInv, Diffs, DiffHolds
  <2>2. /\ diff[f].after = taken[diff[f].newer].rows
        /\ diff[f].before = taken[diff[f].older].rows
        /\ diff[f].newer \in 1..(clock - 1) /\ diff[f].older \in 1..(clock - 1)
    BY <2>1 DEF DiffHolds
  <2>3. clock \in 1..(MaxSyncs + 1) /\ MaxSyncs \in Nat
    BY StoreBounds DEF IndInv, Core, TypeOK
  <2>4. diff[f].newer \in 1..MaxSyncs /\ diff[f].older \in 1..MaxSyncs
    BY <2>2, <2>3
  <2>5. /\ taken[diff[f].newer].rows = taken[diff[f].newer].was
        /\ taken[diff[f].older].rows = taken[diff[f].older].was
    BY <2>4 DEF IndInv, Core, Walks
  <2> QED BY <2>2, <2>5 DEF Changes
<1> QED BY <1>1, Inductive, PTL

------------------------------------------------------------------------------
(* Serial syncs: while no two were between stamp and commit at once, the one *)
(* that saves is stamped after everything stored, and each row it has done   *)
(* replaces the deal's earlier row in its copy of deals.                     *)

NewestStamp(p) ==
  /\ \A t \in SnapshotIDs : t < sync[p].stamp
  /\ \A r \in deals : r.at < sync[p].stamp

Superseded(p) ==
  \A r \in sync[p].txDeals, d \in Done(p) : r.slug = d.slug => r.at = sync[p].stamp

Serial ==
  ~overlapped =>
    /\ DealsHoldLatest
    /\ \A p \in Syncers : Saving(p) =>
         /\ \A q \in Syncers : Saving(q) => q = p
         /\ NewestStamp(p)
         /\ writer = p => Superseded(p)

\* Steps that write no deal and open no transaction.
LEMMA SerialFrame ==
  ASSUME Serial, UNCHANGED <<deals, taken, overlapped>>, snapshots' \subseteq snapshots,
         \A q \in Syncers : Saving(q)' => sync'[q] = sync[q] /\ (writer' = q => writer = q)
  PROVE  Serial'
<1> SUFFICES ASSUME ~overlapped
             PROVE  /\ DealsHoldLatest'
                    /\ \A p \in Syncers : Saving(p)' =>
                         /\ \A q \in Syncers : Saving(q)' => q = p
                         /\ NewestStamp(p)'
                         /\ writer' = p => Superseded(p)'
  BY DEF Serial
<1>1. DealsHoldLatest'
  BY DEF Serial, DealsHoldLatest
<1>2. \A q \in Syncers : Saving(q)' => Saving(q)
  BY DEF Saving
<1>3. SnapshotIDs' \subseteq SnapshotIDs
  BY DEF SnapshotIDs, StampsIn
<1>4. ASSUME NEW p \in Syncers, Saving(p)'
      PROVE  NewestStamp(p)' /\ (writer' = p => Superseded(p)')
  <2>1. sync'[p] = sync[p] /\ Saving(p) /\ NewestStamp(p) /\ (writer = p => Superseded(p))
    BY <1>2, <1>4 DEF Serial
  <2>2. NewestStamp(p)'
    BY <1>3, <2>1 DEF NewestStamp
  <2>3. Superseded(p) => Superseded(p)'
    BY <2>1 DEF Superseded, Done
  <2> QED BY <1>4, <2>1, <2>2, <2>3
<1> QED BY <1>1, <1>2, <1>4 DEF Serial

\* One turn of the save loop: the row written replaces the deal's earlier one.
LEMMA WriteRowSupersedes ==
  ASSUME Core, NEW p \in Syncers, WriteRow(p), writer = p => Superseded(p)
  PROVE  Superseded(p)'
<1> DEFINE stamp == sync[p].stamp
           all   == taken[stamp].rows
<1>1. PICK deal \in sync[p].todo :
        LET row == [slug |-> deal.slug, version |-> deal.version, at |-> stamp]
        IN  Becomes(p, [phase |-> "saving", stamp |-> stamp,
                        todo |-> sync[p].todo \ {deal},
                        txDeals |-> UpsertDeal(DealsSeenBy(p), row),
                        txSnapshots |-> UpsertSnapshot(SnapshotsSeenBy(p), row)])
  BY DEF WriteRow
<1> DEFINE row == [slug |-> deal.slug, version |-> deal.version, at |-> stamp]
<1>2. sync'[p] = [phase |-> "saving", stamp |-> stamp,
                  todo |-> sync[p].todo \ {deal},
                  txDeals |-> UpsertDeal(DealsSeenBy(p), row),
                  txSnapshots |-> UpsertSnapshot(SnapshotsSeenBy(p), row)]
  BY <1>1, BecomesFacts DEF Core
<1>3. row.slug = deal.slug /\ row.at = stamp
  OBVIOUS
<1>4. Stamped(all \ (sync[p].todo \ {deal}), stamp)
        \subseteq Stamped(all \ sync[p].todo, stamp) \cup {row}
  BY DEF Stamped
<1>5. writer # p => Stamped(all \ sync[p].todo, stamp) = {}
  <2>1. ASSUME writer # p PROVE all \ sync[p].todo = {}
    BY <2>1 DEF Core, InTransaction, WriteRow, Saving
  <2> QED BY <2>1, StampsFacts
<1> HIDE DEF row
<1>6. /\ sync'[p].stamp = stamp /\ sync'[p].todo = sync[p].todo \ {deal}
      /\ sync'[p].txDeals = UpsertDeal(DealsSeenBy(p), row) /\ taken' = taken
  BY <1>2 DEF WriteRow, historyVars
<1>7. Done(p)' \subseteq Done(p) \cup {row}
  BY <1>4, <1>6 DEF Done
<1>8. \A r \in sync'[p].txDeals : r = row \/ (r \in DealsSeenBy(p) /\ r.slug # deal.slug)
  BY <1>3, <1>6 DEF UpsertDeal
<1> SUFFICES ASSUME NEW r \in sync'[p].txDeals, NEW d \in Done(p)', r.slug = d.slug
             PROVE  r.at = stamp
  BY <1>6 DEF Superseded
<1>9. CASE r = row
  BY <1>3, <1>9
<1>10. CASE r # row
  <2>1. r \in DealsSeenBy(p) /\ d \in Done(p)
    BY <1>3, <1>7, <1>8, <1>10
  <2>2. writer = p
    BY <1>5, <2>1 DEF Done
  <2> QED BY <2>1, <2>2 DEF DealsSeenBy, Superseded
<1> QED BY <1>9, <1>10

\* What a serial commit installs is the latest of everything.
LEMMA CommitHoldsLatest ==
  ASSUME Core, NEW p \in Syncers, Commit(p), DealsHoldLatest, NewestStamp(p),
         writer = p => Superseded(p)
  PROVE  DealsHoldLatest'
<1> DEFINE stamp == sync[p].stamp
           rows  == Stamped(taken[stamp].rows, stamp)
<1>1. /\ snapshots' = snapshots \cup rows /\ deals' \subseteq deals \cup rows
      /\ Saving(p) /\ stamp \in 1..(clock - 1) /\ clock \in Nat
  BY CommitEffect DEF Core, TypeOK
<1>2. \A r \in rows : r.at = stamp
  BY StampsFacts
<1>3. \A h \in snapshots : h.at < stamp /\ h.at \in Nat
  BY DEF NewestStamp, SnapshotIDs, StampsIn, Core, TypeOK, SnapshotRows
<1> SUFFICES ASSUME NEW r \in deals', NEW h \in snapshots', h.slug = r.slug
             PROVE  h.at <= r.at
  BY DEF DealsHoldLatest
<1>4. CASE r \in rows
  <2>1. r.at = stamp /\ stamp \in Nat
    BY <1>1, <1>2, <1>4
  <2>2. h.at = stamp \/ (h.at < stamp /\ h.at \in Nat)
    BY <1>1, <1>2, <1>3
  <2> QED BY <2>1, <2>2
<1>5. CASE r \in deals /\ h \in snapshots
  BY <1>5 DEF DealsHoldLatest
<1>6. CASE r \notin rows /\ h \in rows
  <2>1. writer = p
    <3>1. ASSUME writer # p PROVE taken[stamp].rows = {}
      BY <1>1, <3>1 DEF Core, InTransaction, Commit
    <3> QED BY <1>6, <3>1, StampsFacts
  <2>2. r \in sync[p].txDeals
    BY <2>1 DEF Commit, DealsSeenBy
  <2>3. h \in Done(p)
    <3>1. taken[stamp].rows \ sync[p].todo = taken[stamp].rows
      BY DEF Commit
    <3> QED BY <1>6, <3>1 DEF Done
  <2>4. r.at = stamp
    BY <2>1, <2>2, <2>3 DEF Superseded
  <2> QED BY <1>1, <1>2, <1>6, <2>4
<1> QED BY <1>1, <1>4, <1>5, <1>6

LEMMA NextSerial == Core /\ Serial /\ [Next]_vars => Serial'
<1> SUFFICES ASSUME Core, Serial, [Next]_vars PROVE Serial'
  OBVIOUS
<1>1. ASSUME NEW p \in Syncers, Quiet(p) PROVE Serial'
  <2>1. ASSUME NEW q \in Syncers, Saving(q)'
        PROVE  sync'[q] = sync[q] /\ (writer' = q => writer = q)
    <3>1. q # p /\ q # NoOne
      BY <1>1, <2>1, QuietEffect, NoOneAssumption
    <3> QED BY <1>1, <3>1, QuietEffect
  <2> QED BY <1>1, <2>1, QuietEffect, SerialFrame DEF historyVars
<1>2. ASSUME NEW p \in Syncers, Stamp(p) PROVE Serial'
  <2>1. /\ UNCHANGED <<deals, snapshots, writer>> /\ Saving(p)' /\ sync'[p].stamp = clock
        /\ \A q \in Syncers : q # p => sync'[q] = sync[q]
        /\ writer # p
    BY <1>2, StampEffect DEF dbVars
  <2>2. overlapped' = (overlapped \/ \E q \in Syncers : Saving(q))
    BY <1>2 DEF Stamp, Saving
  <2> SUFFICES ASSUME ~overlapped' PROVE Serial'
    BY DEF Serial
  <2>3. ~overlapped /\ \A q \in Syncers : ~Saving(q)
    BY <2>2
  <2>4. \A q \in Syncers : Saving(q)' => q = p
    BY <2>1, <2>3 DEF Saving
  <2>5. DealsHoldLatest'
    BY <2>1, <2>3 DEF Serial, DealsHoldLatest
  <2>6. NewestStamp(p)'
    <3>1. clock \in Nat /\ SnapshotIDs \subseteq 1..(clock - 1) /\ \A r \in deals : r.at < clock
      BY DEF Core, TypeOK, StampOrder
    <3>2. SnapshotIDs' = SnapshotIDs
      BY <2>1 DEF SnapshotIDs
    <3>3. \A t \in SnapshotIDs : t < clock
      BY <3>1
    <3> QED BY <2>1, <3>1, <3>2, <3>3 DEF NewestStamp
  <2> QED BY <2>1, <2>4, <2>5, <2>6 DEF Serial
<1>3. ASSUME NEW p \in Syncers, WriteRow(p) PROVE Serial'
  <2>1. /\ Saving(p) /\ sync'[p].stamp = sync[p].stamp
        /\ \A q \in Syncers : q # p => sync'[q] = sync[q]
        /\ UNCHANGED <<deals, snapshots, taken, overlapped>>
    BY <1>3, WriteRowEffect DEF historyVars
  <2> SUFFICES ASSUME ~overlapped PROVE Serial'
    BY <2>1 DEF Serial
  <2>2. /\ DealsHoldLatest /\ NewestStamp(p) /\ (writer = p => Superseded(p))
        /\ \A q \in Syncers : Saving(q) => q = p
    BY <2>1 DEF Serial
  <2>3. \A q \in Syncers : Saving(q)' => q = p
    BY <2>1, <2>2 DEF Saving
  <2>4. DealsHoldLatest'
    BY <2>1, <2>2 DEF DealsHoldLatest
  <2>5. NewestStamp(p)'
    BY <2>1, <2>2 DEF NewestStamp, SnapshotIDs
  <2>6. Superseded(p)'
    BY <1>3, <2>2, WriteRowSupersedes
  <2> QED BY <2>3, <2>4, <2>5, <2>6 DEF Serial
<1>4. ASSUME NEW p \in Syncers, Commit(p) PROVE Serial'
  <2>1. /\ sync'[p].phase \in {"idle", "saved"} /\ Saving(p)
        /\ \A q \in Syncers : q # p => sync'[q] = sync[q]
        /\ overlapped' = overlapped
    BY <1>4, CommitPhase, CommitEffect DEF Commit
  <2> SUFFICES ASSUME ~overlapped PROVE Serial'
    BY <2>1 DEF Serial
  <2>2. /\ DealsHoldLatest /\ NewestStamp(p) /\ (writer = p => Superseded(p))
        /\ \A q \in Syncers : Saving(q) => q = p
    BY <2>1 DEF Serial
  <2>3. \A q \in Syncers : ~Saving(q)'
    BY <2>1, <2>2 DEF Saving
  <2>4. DealsHoldLatest'
    BY <1>4, <2>2, CommitHoldsLatest
  <2> QED BY <2>3, <2>4 DEF Serial
<1>5. ASSUME NEW p \in Syncers, PruneDelete(p) PROVE Serial'
  <2>1. /\ UNCHANGED <<deals, taken, overlapped, writer>> /\ snapshots' \subseteq snapshots
        /\ sync'[p].phase = "idle" /\ \A q \in Syncers : q # p => sync'[q] = sync[q]
    BY <1>5, PruneEffect DEF historyVars
  <2>2. \A q \in Syncers : Saving(q)' => sync'[q] = sync[q] /\ (writer' = q => writer = q)
    BY <2>1 DEF Saving
  <2> QED BY <2>1, <2>2, SerialFrame
<1>6. CASE Elsewhere \/ UNCHANGED vars
  <2>1. UNCHANGED <<deals, snapshots, writer, sync, taken, overlapped>>
    BY <1>6, ElsewhereEffect DEF vars, dbVars, historyVars
  <2> QED BY <2>1, SerialFrame
<1> QED BY <1>1, <1>2, <1>3, <1>4, <1>5, <1>6, NextCases

\* While no sync is stamped during another's save, a deal's row is never older
\* than any snapshot of it: each upsert of a transaction replaces the row of an
\* earlier stamp, and a commit installs them all at once (store/deals.go:7,
\* 104-167).
THEOREM DealsAreLatest == Spec => []DealsLatestWhenSerial
<1>1. Init => IndInv /\ Serial
  <2>1. ASSUME Init PROVE Serial
    <3>1. sync = [p \in Syncers |-> Idle] /\ deals = {} /\ Idle.phase = "idle"
      BY <2>1 DEF Init, Idle
    <3> QED BY <3>1 DEF Serial, DealsHoldLatest, Saving
  <2> QED BY <2>1, InitInv
<1>2. IndInv /\ Serial /\ [Next]_vars => (IndInv /\ Serial)'
  <2>1. IndInv => Core
    BY DEF IndInv
  <2> QED BY <2>1, NextInv, NextSerial
<1>3. IndInv /\ Serial => DealsLatestWhenSerial
  BY DEF Serial, DealsLatestWhenSerial
<1> QED BY <1>1, <1>2, <1>3, PTL DEF Spec

=============================================================================
