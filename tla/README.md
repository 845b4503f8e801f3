# A verification of appsumo-cli

`appsumo-cli` walks the public AppSumo catalog, the buyer's own products and the
comment threads of a deal, keeps what it collects in a SQLite file, diffs one day
against another and pushes recommendations to Notion. The commands are short-lived
processes. What makes them hard to get right is outside them: a catalog that moves
while it is being read page by page, an endpoint whose answers are only partly
trustworthy, several processes over one database file, and failures between two
steps. This directory models those parts in TLA+, checks the models with TLC on small
instances, and proves the main safety properties with TLAPS for every instance.

Paths below are relative to the repository (`src/`).

## 1. Inventory

| Component | State it keeps | Operations | What is hard | What makes it correct |
|---|---|---|---|---|
| Catalog walk (`internal/appsumo/deals.go`) | deals seen, deals kept, declared total, flags, warnings, one request counter | `FetchAllDealsQuery`, `DealsResult.Complete` | the catalog moves between pages; unsorted pages overlap; `page` may be ignored; five ways to stop | a certified walk really holds the catalog; a doubtful one says so; it ends |
| Comment threads (`internal/appsumo/threads.go`, `reviews.go`, `questions.go`) | comments held, offset, declared total, flags, warnings | `fetchThread`, `threadCompleteness` | offsets into a list people post to and delete from; windows shorter than asked for; `from` may be ignored | the same, and that paging oldest first is stable |
| Catalog snapshot store (`internal/store/deals.go`, `store.go`) | tables `deals`, `deal_snapshots` | `SaveDealSnapshot`, `SnapshotIDs`, `LoadSnapshot`, `PruneSnapshots`, read-only list queries | crash or busy database in the middle of hundreds of upserts; a prune in two statements; two processes | snapshots are whole; both tables agree; the newest snapshots survive |
| `deals sync`, `deals diff` (`internal/cli/deals.go`) | what the process remembers between two statements | walk, gate on the verdict, stamp, save, prune; name two snapshots, load each, diff | two syncs overlap; a diff reads in three statements | a diff reports what really changed |
| Comment store (`internal/store/threads.go`) | table `product_comments` | `SaveReviews`, `SaveQuestions`, `CountComments` | one transaction over replies at two levels, rows never deleted | a save is all or nothing and can be repeated |
| HTTP client (`internal/appsumo/client.go`) | attempt counter | `getJSON`, `getHTML`, `FetchAllProducts` | what is retried and what is not; the counter belongs to a request, not to a command | a request is given up after three losses, neither sooner nor later |
| Account products (`internal/store/store.go`, `internal/cli/root.go`) | table `products` | `sync`, `search`, `sql` | an account that changes between pages nobody reconciles; the page cap | what the account held throughout a sync is stored |
| Local queries (`internal/cli/deals.go`, `internal/store/deals.go`) | none | `deals list`, `ideal`, `explain` with `--local` or live | rows of `deals` outlive their deals | what the advisor may take for a candidate |
| Product detail and scrape archive (`internal/appsumo/product_detail.go`, `internal/cli/scrape.go`) | a directory of files | `ScrapeProductArchive`, `SaveToDirectory` | eight files written in turn over an older archive | which files may be taken for one generation |
| Notion push (`internal/cli/notion.go`, `scripts/sync_notion_recommendations.py`) | blocks on a remote page | `pushNotionBlocks` in chunks of 40 | chunk boundaries; a chunk fails in the middle; no marker of what was sent | a push is on the page from its beginning, without gap or repeat |
| Advisor runs and the Notion hub (`scripts/appsumo_buy_advisor.py`, its wrapper) | weekly marker, receipt, `state.json`, a Notion page people edit | `run_advisor`, `sync_co_maintained_notion_doc`, `_execute_notion_request` | a kill between marker and push; a timed-out request sent again; people and a second run on the same page | a week is pushed once and not silently lost; people's text survives; one verdict on the page, the others in the archive |
| Deal audit (same file) | asset base, directives, candidates | `fetch_cloud_doc_directives`, `fetch_candidate_deals`, `enrich_deals_with_raw_metadata`, `audit_deal_steps`, `fetch_deal_by_slug`, `explain_deal` | a deal reaches the rules by six ways that give it different fields, while all of its sources change | vetoes that are read hold whatever the way; a run and `explain` agree; "unresolved" means missing |
| Account, portfolio, redaction (`account.go`, `portfolio.go`, `redact.go`) | none | pure functions | | |
| Decoding helpers (`flex.go`, `types.go`) | none | lenient JSON types | | |
| Wrappers, batch tests, CI | none of their own | | | |

How they interact. `deals sync` calls the catalog walk, looks at its verdict, and
calls the snapshot store; `deals list`, `search` and `ideal` call either the walk or
the store's local tables. `reviews` and `questions` call `fetchThread` and, with
`--save`, the comment store. Walks and crawls go through the HTTP client. The advisor
runs the CLI as a child process, reads its database and the files of `scrape`, and talks
to Notion itself. Within a process calls are
sequential: every interleaving the models explore is between a process and the
endpoint it reads, or between processes that share the database file, an archive
directory or a Notion page.

The hazards this code is exposed to are listed, with the line where each bites and the
properties that cover it, in `PROJECT.json` under `hazards`. A hazard that no property
covers carries the reason.

## 2. Modules

| Module | Models | Lines of code behind it |
|---|---|---|
| `ReconciledCrawl` | the promise any paginated crawl here makes, abstractly | the contract of `DealsResult.Complete` and `threadCompleteness` |
| `CatalogWalk` | the catalog walk against a moving catalog | `appsumo/deals.go` |
| `ThreadCrawl` | a comment crawl against a moving thread | `appsumo/threads.go` |
| `SnapshotStore` | syncs and diffs over one SQLite file | `store/deals.go`, `cli/deals.go` |
| `AdvisorHub` | advisor runs, their local files and the shared Notion page | `scripts/appsumo_buy_advisor.py` |
| `DealAudit`, `BuyAdvice` | the rules of the audit; a run of the advisor up to its verdict and an `explain`, over sources that change | `scripts/appsumo_buy_advisor.py` |
| `Jobs` | what commands share: requests, transactions, being killed | `appsumo/client.go`, `store/store.go`, `store/threads.go` |
| `ProductSync`, `CommentSave`, `ScrapeArchive`, `NotionPush` | the commands `sync`; `reviews` and `questions`; `scrape`; `deals sync-notion` | `cli/root.go`, `cli/reviews.go`, `cli/questions.go`, `cli/scrape.go`, `appsumo/product_detail.go`, `cli/notion.go` |
| `Desk` | these commands side by side on one machine | |
| `CatalogWalkProofs`, `ThreadCrawlProofs`, `SnapshotStoreProofs`, `AdvisorHubProofs`, `AdvisorPageProofs`, `BuyAdviceProofs`, `DeskProofs` | theorems about these modules; the hub has two, for files and people's text and for its page | |
| `ListLemmas` | lemmas about sequences, and the least of a set of numbers | |
| `MCCatalogWalk`, `MCThreadCrawl`, `MCSnapshotStore`, `MCAdvisorHub`, `MCBuyAdvice`, `MCDesk` | the instances TLC checks | |

`PROJECT.json` maps every definition to the lines it stands for.

### CatalogWalk

The variables after `query` are the local variables of `FetchAllDealsQuery`:
`requests` counts pages, `seen` is the `seen` map, `kept` is `result.Deals` before the
limit is applied, `declared` is the first total any response carried, `overlap` is the
duplicate flag, `truncated`/`capped`/`warnings` are the flags and messages of the result.
A deal is represented by the key the walk deduplicates by. Names, prices and links do not
exist in the model; a filter is the set of deals it lets through (`matching`) and a rank
is a number, because the control depends on nothing else.

* `FetchPage` is one turn of the loop: the request, the total, the inner loop over the
  rows with its stop at `--limit`, and the decision after the page in the order the code
  takes it (`AfterPage`: empty page, limit, no new deal, short page, next page) with the
  cap of the loop condition (`WithinCap`). It is one step because the goroutine touches
  only its own variables between two requests.
* `FetchFails` is a request whose retries are used up: nothing is returned.
* `Reconcile` is everything after the loop: the cap, the ranked slice of a filtered walk
  (`Best`), the warnings. `Complete` is the method of that name.
* `Publish` and `Withdraw` are the catalog. `Orders` and `ServedPage` are the endpoint:
  without a sort any order may be served (this is why the code substitutes one), with
  `honoursPage = FALSE` it always serves the first window, and each response carries the
  length of the list or no total. The initial order is arbitrary, so which rows shift past
  the cursor is arbitrary too.

A change of a deal's price or rating during a walk is not modelled: it moves a row from
one place to another without arriving or leaving.

### ThreadCrawl

The same shape over offsets. `offset`, `requests`, `items` and `expectedTotal` are
`fetchThread`'s; `Post` appends at the young end of the thread, `Delete` removes
anywhere, and the order asked for decides which end the offset counts from. The endpoint
may serve fewer rows than asked for (`ServerWindow`), which is why the code advances by
the rows received and ends on an empty window only. The thread holds top-level comments;
replies arrive inside them and have no paging of their own.

### SnapshotStore

`deals`, `snapshots` are the two tables; `writer` is SQLite's write lock. Every process
keeps what its Go variables keep between two statements: the walk and its verdict, the
stamp and the rows still to write with the transaction's own copy of both tables, the
prune's cutoff; for a diff the two names and the rows loaded so far.

* `FetchAllDeals`, `Refuse`, `Stamp`, `WriteRow`, `Commit`, `PruneRead`, `PruneDelete`
  are the steps of `deals sync` in program order. The stamp is taken before the
  transaction begins, the lock by its first write, the cutoff of a prune in a statement
  of its own.
* `Fail` is every way a step ends a sync early: an error from the walk, a locked database
  (the driver is opened with no busy timeout, so a lock held elsewhere is an error at
  once), a full disk, a kill. The open transaction rolls back.
* `NameSnapshots`, `LoadNewer`, `LoadOlder`, `Report` are `deals diff`.
* `Move` is the live catalog.

The walk is one step here, and `CatalogWalk` has its detail: `FetchAllDeals` may hand over
exactly what `CatalogWalk!CertifiedMeansServed` says a certified walk holds, and any
subset when the verdict is "unknown". The case that theorem excludes (deals joined *and*
left during the walk) is left out here as well. Other abstractions: a deal has one key
(blank slugs, which share a row, are not modelled), all syncs are given the same `--keep`,
and the clock never gives the same nanosecond twice.

### AdvisorHub

`markers`, `receipts` and `state` are the files below `.run/cadence/`; `page` is the set of
top-level blocks of the Notion page, in the order of their ids (blocks are only added at the end
and never move), `archived` the entries below its archive toggle. A block
is known by its id and by what its text looks like to `sync_co_maintained_notion_doc`, which
tells blocks apart by text alone: a person's line that starts with a bullet looks like a part of a
verdict (`LooksLikeVerdict`: it is deleted), and with a price or a star like a recommendation (`LooksLikeItem`:
it goes into the archive entry as well). Hence three kinds of people's lines: plain, `bullet` and
`priced`. `run[p]` is what a run keeps between two requests.

* `Start` is the weekly gate, `Leave` a run without candidates (or a dry run: it writes
  nothing), `WriteReceipt`, `WriteState`, `MarkWeek` the three files in program order.
* `ReadPage` reads the first `Window` blocks and decides everything the later steps do;
  `InitZone`, `DeletePrior` (one block per step), `AppendVerdict`, `ArchivePrior` and
  `SetTitle` are the requests that follow, in order, each going on whatever the one before
  it did. `ReadFails` is a missing token or an unanswered read: the sync gives up, and
  `run_advisor` does not look at its result.
* A request that adds blocks takes effect up to `Attempts` times (`TimesApplied`), because
  `_execute_notion_request` sends it again whenever it sees no answer.
* `Crash`, `NewWeek`, `WriteNote`, `Rewrite` are the world; two runs may overlap, since
  nothing in the code prevents it.

`trouble` names what has gone wrong so far, so that a property can say which disturbances
it tolerates. Abstractions: a verdict always recommends something and is two blocks, a date
is its week, what people write *inside* the zone is not modelled (runs never touch it), and each of the three
files is written at once: `write_text` truncates and then writes, so that a kill in between leaves a file that is
there and empty, which the model does not tell from one not yet replaced.

### DealAudit and BuyAdvice

`DealAudit` is `audit_deal_steps`: `Rules` lists its conditions in their order and `Verdict`
is the first that hits. The tables of the script are constants. What the rules ask of a text
is whether one phrase occurs in another, how long it is, what its words are, and what it
becomes without punctuation; so a text is a phrase, and `Lexicon` records the answers. Scores,
reasons and the trace are left out: a wish on the page only raises the score.

`BuyAdvice` has two clients of these rules.

* A run (`run`): `ReadPage` and `ReadZone` are `fetch_cloud_doc_directives`, one request for the
  page and one for each list below it. A note has its place in its list, and a request brings the first
  `ZoneWindow` lines (`Legible`), the template's among them; the code asks for 50 and never follows `has_more`.
  `IndexAssets` is the loop that stores declared assets;
  `FetchLocal` and `FetchLive` are `fetch_candidate_deals`; `Enrich` is `enrich_deals_with_raw_metadata`,
  which changes deals in place, so an error leaves the rest bare; `Recommended` is the audit.
  `AdvisorHub` takes over from there.
* An explain (`look`): `LookInTable`, `LookInArchive`, `LookInQuery` and `LookInBrowse` are the four places
  `fetch_deal_by_slug` tries, each passing over its errors; without any, the deal is a
  placeholder called `Unresolved`. The query and the browse page bring the first `Hits` rows served, the
  newest first, whatever their rating (`Served`): the query has a limit and no filter, so the walk stops
  there (`deals.go:420`) and ranks nothing. The first of them whose slug is the one looked for but for
  punctuation is taken (`FirstMatch`).

A deal arrives in five forms, which differ in the fields that decide: `Columns`, `Raw`,
`Scraped`, `Enriched` and `Unresolved`. The world is `Relist` (the catalog), `SaveDeals` and
`SaveArchive` (other commands, in one step) and `Write` (people). Of a placeholder the text
that fills its description is left out, and the order of recommendations with their scores. The lists are
taken to be found once each; that a list does not begin among the first hundred blocks of the page is a read of
it without an answer.

### Jobs, ProductSync, CommentSave, ScrapeArchive, NotionPush, Desk

`job[p]` is what the Go variables of a command hold: `at` is the page, kind, file or block it
has come to, `got` the rows fetched, `todo` those the open transaction has not inserted. `Jobs`
has what they share:

* `Answer`, `Lose` and `Refuse` are the three outcomes of an attempt in `getJSON` and
  `getHTML`: used, sent again (an error of the transport or of reading the body), or final
  (status, content type, JSON). Waits between attempts take no time.
* `Insert`, `Commit` and `Locked` are `UpsertProducts` and `saveComments`: the first insert takes
  SQLite's writer lock, another process that holds it is an error at once, and `scrape --save-db`
  drops that error. `table` holds each row with the process that wrote it last.
* `Kill` ends a command anywhere and rolls its transaction back.

The commands add their own steps: `StartSync`, `FetchProductsPage`; `StartReviews`,
`StartQuestions`, `ResolveProduct`, `CrawlPage`; `StartScrape`, `FetchProductDeal`, the crawls
again, then `CreateFile`, `FillFile` and `FileFails` for each of the eight files; `StartPush`,
`PushChunk`. `Desk` composes them over shared state: any two may run together, and each process
runs one command.

Abstractions. The product site is external: a page brings any threads not yet seen and may be
the last, because how a crawl is checked is the subject of `ThreadCrawl`. The account changes
only while a sync goes through its pages; at other times it would be the account that the next
sync begins with. All scrapes are of one product. Where two scrapes write at the same time any
file may hold a mixture: the directory becomes `Muddle`, and the property says nothing of it.
The ignored error of `Close` (`product_detail.go:347`), by which a full disk can tear a file unnoticed, is left out.
Of a command that is over only what the properties need is kept. What a block or a file says is
left out; how many blocks a deal makes is not, because chunks depend on it.

### History variables

`live0`, `arrivals`, `departures`, `totalOn` (and `posted`, `deleted`), `taken`,
`commits`, `overlapped`, and `written`, `pushers`, `published`, `trouble`, and
`leading`, with the fields `heard`, `of`, `place`, `errors`, `crowded`, `listed`, `stored`,
`streak` and `by` are history: no guard reads them.

### ReconciledCrawl

An abstract crawl gathers rows that are never dropped, takes over a total once, and ends
with a verdict: "complete" only if it was not cut short and holds as many rows as
declared, "unknown" exactly when nothing was declared, or a failure that hands over
nothing. `CatalogWalk` and `ThreadCrawl` implement it with the refinement mappings at
their ends (`KeepsPromise`).

## 3. Runs

| Run | Instance | What it shows |
|---|---|---|
| `catalog_walk` | 4 deals, pages of 1 to 3, cap of 4 requests, 2 catalog changes, 7 queries | all properties of `CatalogWalk`, with liveness |
| `thread_crawl` | 5 comments, windows of 1 to 3 of which at most 2 rows are served, cap 4, 2 changes, 8 queries | all properties of `ThreadCrawl`, with liveness |
| `snapshot_store` | 2 slugs, 2 versions, 2 syncs, 1 diff, `--keep 2`, 3 stamps, 1 catalog change | all properties of `SnapshotStore` |
| `advisor_hub` | 2 processes, 3 runs, 2 weeks, 1 edit by a person, 1 fault, pages of 6 blocks read, 2 attempts | all properties of `AdvisorHub` |
| `persons_lines`, `lost_verdict`, `marked_week` | as `advisor_hub` | three sentences the code does not keep |
| `buy_advice` | 3 slugs with 4 listings, 2 notes of one list, of which 1 line is read, 1 tool bought, 1 hit per query, 1 change of the world | all properties of `BuyAdvice` |
| `declared_asset` | as `buy_advice`, with one declared asset for a note | a sentence the code does not keep (section 6); such a run ends before it judges anything, which is why `buy_advice` has no declared assets |
| `desk` | 2 commands, 3 attempts, 3 losses, 3 products of which 2 are bought, pages of 1 and a cap of 2, 3 comments, 2 deals pushed in chunks of 6 | all properties of `Desk` |
| `unchecked_walk`, `overlapping_syncs` | as `snapshot_store` | two sentences of the sources that the code does not keep (section 6) |

Why the bounds are enough. *Walk*: four deals with pages of one reach the cap and the
natural end on the same request; pages of two and three give full, short and empty last
pages; two changes are the least in which one deal leaves and another joins, the only
case the verdict can get wrong. *Thread*: five comments and two served at once make the
served window differ from the asked one and put a post or deletion on either side of the
cursor. *Store*: three stamps with `Keep = 2` are the least with which a prune deletes
something, two syncs the least that overlap, and one diff can be overtaken by both;
versions let a deal change without coming or going. *Hub*: three runs are the least that
archive twice; six blocks hold a full page (prompt, zone, verdict, archive, a note), so that a
page outgrows what is read only when something was repeated; one fault suffices for every
lost, repeated or killed step, and one edit for every clash with a person. *Advice*: the three deals are found by one
another's slugs, so that with one hit per query a newer one crowds out an older, better rated or not, and two slugs
differ by a hyphen only; the listings of one slug differ in the category that columns and raw JSON take from
different places, the others in name, competitor and price, and one is free with a plan that is not; the veto is
written with a hyphen where the deal's text has a blank, and the other note is a line of the template that can
stand above it: with a window of one line it pushes the veto out, and as one of the two comes or goes during a run
the veto is read or missed. One
change lets each source change once under a run or a lookup, at any point. *Desk*: the account
begins with exactly as many pages as the cap, so a purchase takes it beyond, and a refund and a
purchase together shift an unread product past the cursor; three losses exhaust a request or are spread
over several of a command; one review has a reply; pushes of one and two deals make 7 to 18 blocks, hence
two or three chunks, exact multiples among them. Two commands are the least that meet at the lock, on the page
or in the directory. Slugs, versions and syncs are
interchangeable, and so are the processes of the advisor and of the desk: those runs use symmetry (they check
safety only).

The bounds by name: `MaxChurn` (changes during a crawl), `MaxSyncs` (stamps), `MaxMoves`
(catalog changes), `MaxRuns`, `MaxWeeks`, `MaxEdits`, `MaxFaults` (advisor), `MaxLost` (requests), `MaxDeals` (deals in
a push). `MaxRequests`, `Window`, `ZoneWindow`, `Attempts`, `Hits`, `PageSize`, `MaxPages` and `Chunk` are the code's
own constants, made small (except the three `Attempts` of `Desk`).

Deadlock checking is off because every command ends: a state with nothing left to do is
the normal outcome.

**Fairness.** `CatalogWalk` and `ThreadCrawl` assume weak fairness of the request step
(answer or failure) and of `Reconcile`. The command is one goroutine that blocks only on
its own request, and the HTTP client gives every request a timeout and at most three
attempts, so one of the two outcomes comes. Nothing is assumed of the endpoint or of the
catalog: `Terminates` holds although both may do anything within the bounds.
`SnapshotStore`, `AdvisorHub`, `BuyAdvice` and `Desk` have safety properties only and assume no fairness: a
process may be killed.

## 4. What the properties say

*Catalog walk and threads.*
`CertifiedMeansServed`: a certified crawl whose total came first holds what was there at
its start, unless rows both joined and left; without that exception the property is false,
since `Complete` compares counts.
`QuietWalkIsComplete`: on a catalog that stands still only `--limit` and the cap keep a
walk from being complete and saying so. It fails when the sort is not substituted.
`PostsHideNothing`, `LimitTakesTheOldest`: paging oldest first loses nothing to new posts
and a limit takes the oldest.
`NoWastedRequest`: every request but the last is useful, also behind an endpoint that
repeats itself.
`UncertifiedIsAnnounced`: there is no gap between the five warnings.
`FilteredLimitTakesTheBest`: a filtered walk ranks all matches before it cuts.
`KeepsPromise`, `Terminates`.

*Snapshot store.*
`SnapshotIsWholeWalk`: all rows of a walk or none, whatever fails.
`TablesAgree`: both tables tell one story.
`LockHeldWhileSaving`: no failure leaves the database locked.
`PruneKeepsNewest`: the two statements of a prune never remove one of the newest
snapshots, although others commit and prune in between.
`DealsLatestWhenSerial`: `deals` is the latest state if no two syncs overlapped.
`DiffIsTruthful`: a diff of two certified snapshots is the difference of the two catalogs
walked, unless `Keep - 1` or more syncs committed under it. That exception is real: with
`--keep 2` one sync between the names and the loads may prune the older snapshot, and the
diff then reports every deal as new.

*Advisor hub.*
`MarkedMeansRecorded`: a marked week has its receipt and state, wherever a run was killed.
`OncePerWeek`: unless runs overlap, a week is pushed once without `--force`.
`PlainTextSurvives`: people's text survives lost, repeated and overlapping requests, long
pages and kills, unless it looks like a verdict or replaced a block a run was about to delete.
`PageShowsLatest`, `ArchiveIsFaithful`: undisturbed runs leave the latest verdict alone on the
page, one zone, and every earlier verdict once in the archive, with its own items and nothing of another's.
Beside these an entry can hold a priced line that a person wrote (line 1696); that no other line of a person gets
there is part of the property.
`ArchivedOnce`: kills never make the archive repeat itself.

*Advice.*
`DirectivesAreHeeded`: a veto that stood on the page, within the window of its list, throughout a run whose
reads were answered keeps every deal it speaks of off the list, wherever the deal's fields came from. It fails when the line is looked for
only as it was written.
`ExplainAgrees`: a run and an explain that saw the same listing say the same, with three exceptions
stated in the property: a veto speaks of the deal (explain reads none), columns and raw JSON take category
and price from different places, and a deal with nothing but its `deal.json` lacks half of its fields.
`MissMeansAbsent`: a deal said to be unresolved was missing from the table and the catalog, or had as
many others in front of it as a query brings, both times, or an error was passed over.

*Desk.*
`SyncHoldsAccount`: a `sync` that succeeds has stored all the account held when it began, unless
the account lost a product under it; that exception is real, since nothing compares the rows with
the API's total.
`ThreeAttempts`: losses are counted per request.
`SavesAreWhole`: a crawl or sync is stored whole or not at all, also beside another writer.
`DossierSealsArchive`: when `deal.json` and `DOSSIER.md` are whole and of one scrape, so is every
file between them; a reader who wants one generation can check these two.
`PushesStayWhole`: a push is on the page from its first block without gap or repeat, whatever
else is pushed in between.

Each property is broken by a plausible bug in the definition it depends on; the mutated
definitions stand next to the originals and `PROJECT.json` pairs them under `mutants`.

## 5. Proofs

The theorems hold for every set of deals, slugs, comments, listings, queries
and processes, every cap, every `Keep`, every `Window`, every `ZoneWindow`, any number of attempts and every bound. They
assume what the constants' `ASSUME`s say, which TLC evaluates in the runs: the sets of deals, comments and
listings are finite; numbers are natural (ranks and the user's limits integers) and page sizes, caps and
attempts not zero; queries and tables have the fields the code gives them; the comment a reply answers
exists; a slug is found when a text is searched for it; a place of a list is one note's; and the values that stand for "none" are none
of the others (`Unknown` is no number, `NoOne` and `None` no process, `Nothing` no archive entry).

| Theorem | Statement |
|---|---|
| `CatalogWalkProofs!TypeCorrect` | `Spec => []TypeOK` |
| `CertificateIsSound` | `Spec => []CertifiedMeansServed` |
| `QuietWalksAreComplete` | `Spec => []QuietWalkIsComplete` |
| `LimitIsRanked` | `Spec => []FilteredLimitTakesTheBest` |
| `RequestsAreUseful` | `Spec => []NoWastedRequest` |
| `DoubtIsAnnounced` | `Spec => []UncertifiedIsAnnounced` |
| `KeepsThePromise` | `Spec => KeepsPromise` (refinement of `ReconciledCrawl`) |
| `ThreadCrawlProofs!TypeCorrect` | `Spec => []TypeOK` |
| `CertificateIsSound` | `Spec => []CertifiedMeansServed` |
| `PostsDoNotHide` | `Spec => []PostsHideNothing` |
| `LimitIsTheOldest` | `Spec => []LimitTakesTheOldest` |
| `RequestsAreUseful` | `Spec => []NoWastedRequest` |
| `DoubtIsAnnounced` | `Spec => []UncertifiedIsAnnounced` |
| `KeepsThePromise` | `Spec => KeepsPromise` (refinement of `ReconciledCrawl`) |
| `SnapshotStoreProofs!TypeCorrect` | `Spec => []TypeOK` |
| `SnapshotsAreWhole` | `Spec => []SnapshotIsWholeWalk` |
| `TablesAlwaysAgree` | `Spec => []TablesAgree` |
| `LockIsReleased` | `Spec => []LockHeldWhileSaving` |
| `NewestAreKept` | `Spec => PruneKeepsNewest` |
| `DiffsAreTruthful` | `Spec => []DiffIsTruthful` |
| `DealsAreLatest` | `Spec => []DealsLatestWhenSerial` |
| `AdvisorHubProofs!MarkedWeeksAreRecorded` | `Spec => []MarkedMeansRecorded` |
| `OneVisitAWeek` | `Spec => []OncePerWeek` |
| `PeoplesTextSurvives` | `Spec => []PlainTextSurvives` |
| `AdvisorPageProofs!TypeCorrect` | `Spec => []TypeOK` |
| `ArchiveNeverRepeats` | `Spec => []ArchivedOnce` |
| `PageIsCurrent` | `Spec => []PageShowsLatest` |
| `ArchiveIsComplete` | `Spec => []ArchiveIsFaithful` |
| `BuyAdviceProofs!TypeCorrect` | `Spec => []TypeOK` |
| `VetoesAreHeeded` | `Spec => []DirectivesAreHeeded` |
| `ExplainsAgree` | `Spec => []ExplainAgrees` |
| `MissesAreReal` | `Spec => []MissMeansAbsent` |
| `DeskProofs!Inductive` | `Spec => []IndInv`, the invariant of the next six |
| `TypeCorrect` | `Spec => []TypeOK` |
| `SyncIsComplete` | `Spec => []SyncHoldsAccount` |
| `AttemptsAreCounted` | `Spec => []ThreeAttempts` |
| `SavesAreAtomic` | `Spec => []SavesAreWhole` |
| `DossierVouches` | `Spec => []DossierSealsArchive` |
| `PushesAreWhole` | `Spec => []PushesStayWhole` |

*The walk.* `CertifiedMeansServed` is about the end of a walk and says nothing of its
middle, so it is not inductive. `History` relates the listing and the deals seen to
`live0`, `arrivals` and `departures`, and says that a total that came with the first page
is the size of `live0`. If nothing arrived, the deals seen are some of `live0` and as many
as it had: all of it. If nothing left, `Behind` says that no deal of the start is on a
place already read without having been seen (arrivals only push deals towards the end),
and `RanDry` that a walk which ended with neither an early stop nor the cap has seen all
of `live0`; being as many as declared, it has seen nothing else. `Progress` is the
stronger form of `NoWastedRequest`: while walking, every request so far brought a deal.
`Accounted` says that every early stop left a warning and that without filters every deal
seen is kept. For a catalog that does not move `StandsStill` adds that what has been seen lies on the
pages asked for, so that a later page is new and a walk never stalls; `Quiet` that a walk with
filters keeps exactly the matches it has seen, whence the limit is cut from all of them.

*The thread.* The same parts carry over, with `At(i)` for the i-th comment in the order asked for. New is
`Oldest`: oldest first and without deletions, what a crawl holds is exactly the first `offset`
comments of the thread, because posts go to the other end. From it follow that no window is taken for a
repeated one, that nothing is lost to a post, and that a limit cuts off the oldest. `PostsHideNothing` also
needs `RanDry`: a crawl that ends by itself has reached the thread's end.

*The store.* `StampOrder` says that a stamp being saved belongs to one process and is in
neither table yet, `Walks` that a walked set has one row per slug and a certified one is
its catalog, and `InTransaction` that a transaction's copy is the committed tables with the
rows done so far. That copy stays right because nobody else writes while the lock is held
(`LockHeldWhileSaving`). These and the types are `Core`. `Pruners` says that a cutoff once
read has at least `Keep` newer snapshots for ever: other syncs only add newer ones or ones
that do not matter, and other prunes never remove one of the newest `Keep`. `Diffs` says
that what a diff holds is what its stamps were given, as long as it is steady: its two
snapshots were the newest, every later commit pushes the older one back by at most one
place, and so before `Keep - 1` commits no prune reaches it. `Serial` holds until two syncs
overlap: the one that saves has a stamp above all that is stored (`NewestStamp`), and in its copy
every row it has done has replaced the deal's earlier one (`Superseded`), so that at the commit no
snapshot knows a deal better than `deals` does.

*The advisor's files and visits.* `Typed` says which fields a run has in which phase; most steps are alike to
the first two theorems, and `RunStepKinds` sorts them by what they leave alone. `Recorded`
says what a run has written before it gets to a phase, and files are replaced but never
removed. `Orderly` holds until runs overlap: one run at a time, whoever has been to the page
left its week marked, and a run that was not forced found its week unmarked, so nobody has
been there for it. `PlainInv` says that ids are unique and never used again, and that no id a
run holds is that of a plain block: it read them off blocks that looked like a verdict's,
blocks are added with new ids only, and the one step that turns such a block into plain text
(`Rewrite`) is the exception the property names.

*The advisor's page.* Three invariants, each a part of the next. `TypesInv` adds the types of blocks and
archive entries to `PlainInv`. `OnceInv` is about runs that follow each other with every
request answered, killed or not: the run under way is the last that started, its number is on no block and in
no entry before it publishes, there is at most one headline and that one is not archived yet, and a run that is
about to write a verdict has every headline among the blocks it deletes. So what it carries to the archive is of another run,
and the archive never gets the same one twice. A page within the window is read whole (`ReadWhole`: the prompt
comes first and is what the code skips). `QuietInv` is about runs that nothing disturbs. `Settled` says
what page and archive hold between two syncs, `Replacing` what they hold up to the new verdict (the
old one is what the run recalls and will have deleted; its zone is not), `Replaced` what they hold until
the old one is archived. In all of them an entry `Fits`: it has its own verdict's item, because the
verdict it is taken from was whole on the page, and besides at most what priced lines give (`Strangers`), because a priced
block is a person's (`Priced`). `PageShowsLatest` and `ArchiveIsFaithful` look at the page only when every run is
over and are not inductive without these.

*Advice.* `Told` says that the lines a run was told have all vetoes that were always within the window among
them once the list of vetoes is read (what leaves the page or the window does so by `Write`, and leaves `leading` with it),
and that no run gets past a declared asset; `Judged` that what a run judges is one listing a slug, enriched or not with rows of
the same deal. That a veto then keeps a deal off the list is a matter of the chain of rules: the first rule that hits decides
(`FirstPlace` of `ListLemmas`), and a rule's place before the recommending one. For `ExplainAgrees`,
forms of one unambiguous listing are `Alike`, and deals that are alike pass the same
rules. `Missed` says which places of a lookup were passed over so far and why: an
answer of fewer than `Hits` rows has all that was found, and a full one without the deal has only rows at least as
new in front of it.

*The desk.* Every property is about one process among others, so `IndInv` has a part for what a job is by itself
(`Good`: its fields, where in its command it may be, how its losses are counted) and one for each thing
processes share: the lock, the table (`RowsInv`), the account, the directory, the page. A step of a process
changes its own job and at most one of them; four relations (`KeepsRows`, `KeepsAccount`, `KeepsFiles`,
`KeepsCards`) say when a job's step leaves a part's claims alone, and each action but the few that use the part
satisfies all four. `AccountInv` is the argument for `SyncHoldsAccount`: a product that stayed and is not
fetched yet lies on a page still to come, since a purchase can only push it back and a refund ends the claim.
`InOrder` is that for the directory: a process in the middle of its files wrote all before, and
those of a process behind its place are not there. `CardsInv` says that a push's next chunk
begins where its last one ended.

Model-checked only: the two `Terminates`, because liveness under fairness is beyond the prover; and that the
sentences of section 6 fail, which is a matter of one behaviour, found by TLC.

## 6. Where the code and its own words differ

* `unchecked_walk`. `cli/deals.go:447` says an incomplete walk must not be recorded,
  because the next diff would report every unserved deal as gone. The gate at 449 refuses
  a verdict of "incomplete" only; a walk for which no total was declared is recorded
  however short, and the next diff does exactly that.
* `overlapping_syncs`. `store/deals.go:7` says `deals` holds the latest known state of
  every slug. The stamp is taken before the transaction begins and the upsert looks at no
  stamp, so of two overlapping syncs the older may write last.
* `persons_lines`. The docstring at `scripts/appsumo_buy_advisor.py:1607` says the page is
  maintained without erasing human inputs. Line 1689 takes any block that starts with a
  bullet for its own, and deletes it; one with a price or a star also goes into the archive, as if it
  had been recommended (line 1696).
* `lost_verdict`. Line 1610 says prior verdicts are archived. They are deleted first, and
  neither a kill in between nor a failed request is made good.
* `marked_week`. The cadence card (line 43) ends a week when the page has been maintained and
  the marker touched. The marker comes first and the push's result is dropped, so a week can
  stay marked, and skipped, without a verdict on the page.
* `declared_asset`. The cadence card (line 75) lets people declare new assets on the page, which
  are to count as purchased. Line 2006 of the script stores one in the list `kb.tools` under a string: a
  `TypeError` that ends the run.

Read in the code and not the subject of a run:

* `CHANGELOG.md:12` has every deal intercepted that matches a term of the blacklist.
  `fetch_cloud_doc_directives` reads one page of 50 lines of each list (`appsumo_buy_advisor.py:1421`) and
  never asks for the next: a veto below them is as if it were not there. `DirectivesAreHeeded` fails in
  `buy_advice` when it is stated of all that stood on the page instead of `leading`.
* No row ever leaves `deals`, so `deals search`, `list` and `ideal` with `--local`, and the advisor,
  return deals that left the catalog. `store/deals.go:309` calls the table the latest snapshot, and
  `deals list --local` (`cli/deals.go:92`) reports itself complete.
* `scrape --save-db` drops the error of a save, and its summary names all eight files even if
  `SUMMARY.md` failed.
* `sync` prints the number of rows and the API's total side by side and compares them nowhere.
* A second `deals sync-notion` repeats every card of the first.
* `CHANGELOG.md:106` says that audit and explain cannot drift apart. They share the rules; the
  exceptions of `ExplainAgrees` are where their inputs differ.
* The script reads the variable `APPSUMO_DB`, the CLI `APPSUMO_DB_PATH`, so the two may look at different
  databases; `LookInTable` and `Enrich` may therefore miss a row that is there.
* A purchased tool of several words, none longer than two letters, owns every deal
  (`appsumo_buy_advisor.py:366`: `all` of nothing).

## 7. Not modelled, and the plan

Next, in this order:

1. Proofs: every invariant the runs check is proved. Left are statements above the components: an
   abstract snapshot store (commits and prunes as single steps) that `SnapshotStore` implements while no two
   syncs overlap, and an abstract page that `AdvisorHub` implements in undisturbed runs.
2. One `Desk` for all writers: `deals sync` (`SnapshotStore`) under the same lock as the other commands.
3. Different `--keep`s in `SnapshotStore`, and the size of a verdict in `AdvisorHub`.

Not modelled: `search`, `sql`, `products`, `export` and `SearchDeals` (they only read); account, portfolio
and redaction, decoding and output (pure functions with nothing to interleave);
`sync_notion_recommendations.py` (the loop of `NotionPush` once more); wrappers and batch scripts.
