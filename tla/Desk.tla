---------------------------------- MODULE Desk ----------------------------------
(***************************************************************************)
(* One machine on which `sync`, `reviews`, `questions`, `scrape` and       *)
(* `deals sync-notion` run side by side: from cron, from the advisor and   *)
(* by hand.  They share the SQLite file, data/<slug> and the Notion page.  *)
(* Any command may be killed at any point.                                 *)
(***************************************************************************)
EXTENDS ProductSync, ScrapeArchive, NotionPush

vars == <<job, writer, table, lost, account, moves, stayed, dir, cards>>

Init ==
  /\ job = [p \in Procs |-> Idle]
  /\ writer = None
  /\ table = {}
  /\ lost = 0
  /\ account = [i \in 1..Bought |-> i]
  /\ moves = 0
  /\ stayed = [p \in Procs |-> {}]
  /\ dir = NoDir
  /\ cards = <<>>

Next ==
  \/ \E p \in Procs :
       \/ SyncStep(p) /\ UNCHANGED <<dir, cards>>
       \/ ThreadStep(p) /\ UNCHANGED <<accountVars, dir, cards>>
       \/ ScrapeStep(p) /\ UNCHANGED <<accountVars, cards>>
       \/ PushStep(p) /\ UNCHANGED <<accountVars, dir>>
       \/ SaveStep(p) /\ UNCHANGED <<accountVars, dir, cards>>
       \/ Kill(p) /\ UNCHANGED <<accountVars, dir, cards>>
  \/ (Buy \/ Refund) /\ UNCHANGED <<dir, cards>>

Spec == Init /\ [][Next]_vars

------------------------------------------------------------------------------

Rows == {ProductRow(x) : x \in 1..Products} \cup Comments

\* Types; and the bounds of the loops: no command asks for a page beyond the cap
\* of FetchAllProducts, opens a ninth file or holds the lock when it does not save.
TypeOK ==
  /\ \A p \in Procs :
       LET j == job[p]
       IN  /\ j.cmd \in {"none", "sync", "thread", "scrape", "push"}
           /\ j.pc \in Over \cup {"idle", "asking", "resolving", "crawling", "writing",
                                  "filling", "saving", "pushing"}
           /\ j.tries \in 0..Attempts /\ j.streak \in 0..Attempts
           /\ j.got \subseteq Rows /\ j.todo \subseteq j.got
           /\ j.cmd = "sync" => j.at \in 1..MaxPages
           /\ j.cmd = "scrape" => j.at \in 1..Len(Files)
  /\ writer = None \/ job[writer].pc = "saving"
  /\ \A t \in table : t.row \in Rows /\ t.by \in Procs
  /\ DOMAIN dir = DOMAIN NoDir
  /\ moves \in 0..MaxMoves /\ lost \in 0..MaxLost

\* A `sync` that succeeds has stored every product that the account held when it
\* began, whatever was bought while FetchAllProducts went through the pages, unless
\* the account lost a product on the way: then what follows moves to a page that
\* was read already, and nothing compares the rows with the API's total.
SyncHoldsAccount ==
  \A p \in Procs : In(p, "sync", "done") => {ProductRow(x) : x \in stayed[p]} \subseteq Stored

\* getJSON and getHTML give up for want of an answer after Attempts losses in a row,
\* neither sooner, in a command of many requests, nor later.
ThreeAttempts ==
  \A p \in Procs : (job[p].why = "lost") <=> (job[p].streak = Attempts)

\* A crawl or a sync is in the database whole or not at all, also when it is killed
\* or meets another writer in saveComments or UpsertProducts: a row that it wrote
\* stands beside all the rows it fetched of that kind, and a command that reports
\* "saved" has them there.
SavesAreWhole ==
  /\ \A t \in table : OfKind(job[t.by].got, t.row.kind) \subseteq Stored
  /\ \A p \in Procs : job[p].cmd \in {"sync", "thread"} /\ job[p].pc = "done"
                        => job[p].got \subseteq Stored

\* DOSSIER.md is the last of SaveToDirectory's files that matters.  When it is whole
\* and of the same scrape as deal.json, so is every file between them, after
\* whatever crashes, full disks and further scrapes; not after two have written at
\* the same time.
DossierSealsArchive ==
  LET seal == dir["DOSSIER.md"]
  IN  seal.of # None /\ ~seal.torn /\ dir["deal.json"].of = seal.of
        => \A f \in DOMAIN dir \ {"SUMMARY.md"} : dir[f] = seal

\* Places on the page of the runs that a push has appended.
Runs(p) == {i \in 1..Len(cards) : cards[i].by = p}

\* The blocks that a push has on the page are the first of its list, each once and
\* in order, however pushes interleave; all of them if pushNotionBlocks succeeded.
PushesStayWhole ==
  \A p \in Procs :
    /\ \A i \in Runs(p) :
         /\ cards[i].from = 1 \/ \E k \in Runs(p) : k < i /\ cards[i].from = cards[k].to + 1
         /\ \A k \in Runs(p) : k < i => cards[k].to < cards[i].from
    /\ job[p].blocks > 0 /\ job[p].pc = "done"
         => \E i \in Runs(p) : cards[i].to = job[p].blocks

=============================================================================
