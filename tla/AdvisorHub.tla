------------------------------ MODULE AdvisorHub ------------------------------
(***************************************************************************)
(* run_advisor and sync_co_maintained_notion_doc: a weekly run that is     *)
(* skipped once the week is marked, records its verdict in local files,    *)
(* marks the week and then replaces its part of a Notion page that people  *)
(* write on as well.  Nothing stops two runs from overlapping, every       *)
(* request may be lost or be applied without an answer and sent again, and *)
(* a run may be killed between any two steps.                              *)
(*                                                                         *)
(* The page is the set of its top-level blocks: one is only ever added at  *)
(* the end and keeps its place for good, so that ids tell their order.  A  *)
(* verdict is a headline with its date and one item that stands for its    *)
(* other blocks, which list at least one recommendation; the six blocks of *)
(* the human zone are one.  A person's line is plain, a bullet or a priced *)
(* bullet, one with a price or stars.  A date stands for its week.         *)
(***************************************************************************)
EXTENDS Integers, FiniteSets, Sequences

CONSTANTS
  Procs,      \* processes that can run the advisor at the same time
  Window,     \* page_size of the request that reads the page
  Attempts,   \* max_retries of a request
  MaxRuns,    \* bound: runs that get past the weekly gate
  MaxWeeks,   \* bound: weeks
  MaxEdits,   \* bound: edits by people
  MaxFaults,  \* bound: requests that go wrong, and kills
  Nothing     \* no earlier verdict found

ASSUME HubBounds ==
  /\ Window \in Nat \ {0} /\ Attempts \in Nat \ {0}
  /\ MaxRuns \in Nat /\ MaxWeeks \in Nat \ {0} /\ MaxEdits \in Nat /\ MaxFaults \in Nat

VARIABLES
  week,       \* the current week
  \* local files
  markers,    \* weeks with a <week>.success file
  receipts,   \* receipts[w]: the run whose receipt of w is on disk, 0 for none
  state,      \* the run state.json tells of, 0 for none
  \* the page
  page,       \* its top-level blocks, in the order of their ids
  archived,   \* the entries below its archive blocks
  made,       \* blocks ever made, the source of their ids
  done,       \* the page's status is "Done"
  \* the processes
  run,
  runs,       \* runs that got past the gate
  \* bounds and history, read by the properties only
  edits, faults,
  written,    \* what people wrote or rewrote
  pushers,    \* runs that got as far as the page
  published,  \* runs whose verdict reached the page
  trouble     \* what went wrong so far

fileVars == <<markers, receipts, state>>
pageVars == <<page, archived, made, done>>
vars == <<week, fileVars, pageVars, run, runs, edits, faults, written, pushers, published,
          trouble>>

Kinds == {"prompt", "zone", "headline", "item", "archive", "plain", "bullet", "priced"}
Blocks == [id : Nat, kind : Kinds, of : 0..MaxRuns]
Entries == [of : 0..MaxRuns, items : SUBSET (0..MaxRuns)]
Troubles == {"overlap", "request", "crash", "long_page", "rewrite", "race"}

\* None is no entry.
ASSUME NothingAssumption == Nothing \notin Entries

------------------------------------------------------------------------------
(* Requests (_execute_notion_request): a request may be applied and still   *)
(* look failed, and is then sent again.                                     *)

\* How often a request that adds something takes effect.
TimesApplied == {n \in 0..Attempts : n = 1 \/ faults < MaxFaults}

Disturbs(kind) == faults' = faults + 1 /\ trouble' = trouble \cup {kind}

Goes(wrong) ==
  IF wrong THEN faults < MaxFaults /\ Disturbs("request") ELSE UNCHANGED <<faults, trouble>>

\* blocks, added n times at the end of the page.
AddToPage(blocks, n) ==
  LET size     == n * Len(blocks)
      Added(i) == blocks[((i - 1) % Len(blocks)) + 1]
  IN  /\ page' = page \cup {[id |-> made + i, kind |-> Added(i).kind, of |-> Added(i).of] :
                             i \in 1..size}
      /\ made' = made + size

Block(kind, of) == [kind |-> kind, of |-> of]

------------------------------------------------------------------------------
(* run_advisor. *)

Idle == [phase |-> "idle"]

Underway(p) == run[p].phase # "idle"
Becomes(p, s) == run' = [run EXCEPT ![p] = s]
MovesTo(p, phase) == run' = [run EXCEPT ![p].phase = phase]

\* An unmarked week lets every run pass, a marked one only a forced run; where
\* the gate is open --force changes nothing.
Start(p) ==
  /\ run[p].phase = "idle" /\ runs < MaxRuns
  /\ Becomes(p, [phase |-> "auditing", n |-> runs + 1, week |-> week,
                 forced |-> week \in markers])
  /\ runs' = runs + 1
  /\ trouble' = trouble \cup {t \in {"overlap"} : \E q \in Procs : Underway(q)}
  /\ UNCHANGED <<week, fileVars, pageVars, edits, faults, written, pushers, published>>

\* No candidate deals, or a dry run: the run ends and leaves nothing.
Leave(p) ==
  /\ run[p].phase = "auditing"
  /\ Becomes(p, Idle)
  /\ UNCHANGED <<week, fileVars, pageVars, runs, edits, faults, written, pushers,
                 published, trouble>>

\* Mutants: a run that recommends nothing writes no receipt, or no marker; the
\* marker is of the coming week.
ReceiptIfAny(p) ==
  /\ run[p].phase = "auditing"
  /\ receipts' \in {receipts, [receipts EXCEPT ![run[p].week] = run[p].n]}
  /\ MovesTo(p, "receipt")
  /\ UNCHANGED <<week, markers, state, pageVars, runs, edits, faults, written, pushers,
                 published, trouble>>

MarkIfAny(p) ==
  /\ run[p].phase = "state"
  /\ markers' \in {markers, markers \cup {run[p].week}}
  /\ MovesTo(p, "marked")
  /\ UNCHANGED <<week, receipts, state, pageVars, runs, edits, faults, written, pushers,
                 published, trouble>>

MarkComingWeek(p) ==
  /\ run[p].phase = "state"
  /\ markers' = markers \cup {run[p].week + 1}
  /\ MovesTo(p, "marked")
  /\ UNCHANGED <<week, receipts, state, pageVars, runs, edits, faults, written, pushers,
                 published, trouble>>

\* Receipt, state.json and marker, in this order, each a write of its own.
WriteReceipt(p) ==
  /\ run[p].phase = "auditing"
  /\ receipts' = [receipts EXCEPT ![run[p].week] = run[p].n]
  /\ MovesTo(p, "receipt")
  /\ UNCHANGED <<week, markers, state, pageVars, runs, edits, faults, written, pushers,
                 published, trouble>>

WriteState(p) ==
  /\ run[p].phase = "receipt"
  /\ state' = run[p].n
  /\ MovesTo(p, "state")
  /\ UNCHANGED <<week, markers, receipts, pageVars, runs, edits, faults, written, pushers,
                 published, trouble>>

\* The marker is of the week the run began in.
MarkWeek(p) ==
  /\ run[p].phase = "state"
  /\ markers' = markers \cup {run[p].week}
  /\ MovesTo(p, "marked")
  /\ UNCHANGED <<week, receipts, state, pageVars, runs, edits, faults, written, pushers,
                 published, trouble>>

------------------------------------------------------------------------------
(* sync_co_maintained_notion_doc. *)

\* The page is read by one request and its cursor never followed; block 0 is
\* never looked at.
Read == {b \in page : Cardinality({c \in page : c.id < b.id}) \in 1..(Window - 1)}

\* Mutants: whatever is not a zone or the archive is an earlier run's; only the
\* headline is.
LooksForeign(block) == block.kind \notin {"zone", "archive"}
LooksLikeHeadline(block) == block.kind = "headline"

\* Blocks are told apart by their text, whoever wrote them.  A line that starts
\* with a bullet passes for a verdict's, and with a price for a recommendation.
LooksLikeVerdict(block) == block.kind \in {"headline", "item", "bullet", "priced"}
LooksLikeItem(block) == block.kind \in {"item", "priced"}

AgentBlocks == {b \in Read : LooksLikeVerdict(b)}

HasZone == \E b \in Read : b.kind = "zone"
HasArchive == \E b \in Read : b.kind = "archive"

Headlines == {b \in Read : b.kind = "headline"}
LastHeadline == CHOOSE b \in Headlines : \A c \in Headlines : c.id <= b.id

\* A mutant: every bullet is taken for a recommendation.
PriorOfBullets ==
  IF Headlines = {} THEN Nothing
  ELSE [of    |-> LastHeadline.of,
        items |-> {b.of : b \in {c \in Read : LooksLikeItem(c) \/ c.kind = "bullet"}}]

\* The archive entry: the date of the last headline, and whatever passes for a
\* recommendation (0: a person's line).
Prior ==
  IF Headlines = {} THEN Nothing
  ELSE [of    |-> LastHeadline.of,
        items |-> {b.of : b \in {c \in Read : LooksLikeItem(c)}}]

\* No token, or no answer: the sync gives up, and run_advisor does not ask.
ReadFails(p) ==
  /\ run[p].phase = "marked"
  /\ Goes(TRUE)
  /\ Becomes(p, Idle)
  /\ UNCHANGED <<week, fileVars, pageVars, runs, edits, written, pushers, published>>

ReadPage(p) ==
  /\ run[p].phase = "marked"
  /\ Becomes(p, [phase   |-> IF HasZone THEN "clearing" ELSE "zoning",
                 n       |-> run[p].n,
                 archive |-> HasArchive,
                 doomed  |-> {b.id : b \in AgentBlocks},
                 prior   |-> Prior])
  /\ pushers' = pushers \cup {[n |-> run[p].n, week |-> run[p].week,
                               forced |-> run[p].forced]}
  /\ trouble' = trouble \cup {t \in {"long_page"} : Cardinality(page) > Window}
  /\ UNCHANGED <<week, fileVars, pageVars, runs, edits, faults, written, published>>

\* Without a human zone on the page one is made.
InitZone(p) ==
  /\ run[p].phase = "zoning"
  /\ \E n \in TimesApplied : Goes(n # 1) /\ AddToPage(<<Block("zone", 0)>>, n)
  /\ MovesTo(p, "clearing")
  /\ UNCHANGED <<week, fileVars, archived, done, runs, edits, written, pushers, published>>

\* Delete the earlier verdict's blocks one by one, in their order; a failure is
\* passed over.
DeletePrior(p) ==
  /\ run[p].phase = "clearing"
  /\ \E id \in run[p].doomed :
       /\ \A other \in run[p].doomed : id <= other
       /\ \/ Goes(FALSE) /\ page' = {b \in page : b.id # id}
          \/ Goes(TRUE) /\ UNCHANGED page
       /\ run' = [run EXCEPT ![p].doomed = @ \ {id}]
  /\ UNCHANGED <<week, fileVars, archived, made, done, runs, edits, written, pushers,
                 published>>

\* Where a sync goes after its verdict, whether that reached the page or not.
AfterVerdict(p) == IF run[p].prior = Nothing THEN "titling" ELSE "archiving"

AppendVerdict(p) ==
  /\ run[p].phase = "clearing" /\ run[p].doomed = {}
  /\ \E n \in TimesApplied :
       /\ Goes(n # 1)
       /\ AddToPage(<<Block("headline", run[p].n), Block("item", run[p].n)>>, n)
       /\ published' = IF n = 0 THEN published ELSE published \cup {run[p].n}
  /\ MovesTo(p, AfterVerdict(p))
  /\ UNCHANGED <<week, fileVars, archived, done, runs, edits, written, pushers>>

\* A mutant: an archive block made with its first entry is given it once more.
ArchivePriorTwice(p) ==
  /\ run[p].phase = "archiving"
  /\ \E n \in TimesApplied :
       /\ Goes(n # 1)
       /\ archived' = archived \o [i \in 1..(IF run[p].archive THEN n ELSE 2 * n) |-> run[p].prior]
       /\ IF run[p].archive THEN UNCHANGED <<page, made>>
                            ELSE AddToPage(<<Block("archive", 0)>>, n)
  /\ MovesTo(p, "titling")
  /\ UNCHANGED <<week, fileVars, done, runs, edits, written, pushers, published>>

\* The entry goes below the archive block, which is made with it if there is none.
ArchivePrior(p) ==
  /\ run[p].phase = "archiving"
  /\ \E n \in TimesApplied :
       /\ Goes(n # 1)
       /\ archived' = archived \o [i \in 1..n |-> run[p].prior]
       /\ IF run[p].archive THEN UNCHANGED <<page, made>>
                            ELSE AddToPage(<<Block("archive", 0)>>, n)
  /\ MovesTo(p, "titling")
  /\ UNCHANGED <<week, fileVars, done, runs, edits, written, pushers, published>>

\* Title and status are set, whatever became of the verdict.
SetTitle(p) ==
  /\ run[p].phase = "titling"
  /\ \/ Goes(FALSE) /\ done' = TRUE
     \/ Goes(TRUE) /\ UNCHANGED done
  /\ Becomes(p, Idle)
  /\ UNCHANGED <<week, fileVars, page, archived, made, runs, edits, written, pushers,
                 published>>

------------------------------------------------------------------------------
(* The world: a run is killed, a week passes, people write. *)

\* Before its first write a kill is a Leave.
Crash(p) ==
  /\ run[p].phase \notin {"idle", "auditing"} /\ faults < MaxFaults
  /\ Becomes(p, Idle)
  /\ Disturbs("crash")
  /\ UNCHANGED <<week, fileVars, pageVars, runs, edits, written, pushers, published>>

NewWeek ==
  /\ week < MaxWeeks
  /\ week' = week + 1
  /\ UNCHANGED <<fileVars, pageVars, run, runs, edits, faults, written, pushers, published,
                 trouble>>

\* A person adds a line at the end of the page.
WriteNote ==
  /\ edits < MaxEdits /\ edits' = edits + 1
  /\ \E kind \in {"plain", "bullet", "priced"} :
       /\ AddToPage(<<Block(kind, 0)>>, 1)
       /\ written' = written \cup {[id |-> made + 1, kind |-> kind, of |-> 0]}
  /\ UNCHANGED <<week, fileVars, archived, done, run, runs, faults, pushers, published, trouble>>

\* A run holds the id of a block it is going to delete.
Doomed(id) ==
  \E p \in Procs :
    run[p].phase \in {"zoning", "clearing"} /\ id \in run[p].doomed

\* A person writes over a block of a verdict.
Rewrite ==
  /\ edits < MaxEdits /\ edits' = edits + 1
  /\ \E old \in page :
       LET new == [id |-> old.id, kind |-> "plain", of |-> 0]
       IN  /\ old.kind \in {"headline", "item"}
           /\ page' = (page \ {old}) \cup {new}
           /\ written' = written \cup {new}
           /\ trouble' = trouble \cup {"rewrite"} \cup {t \in {"race"} : Doomed(old.id)}
  /\ UNCHANGED <<week, fileVars, archived, made, done, run, runs, faults, pushers, published>>

------------------------------------------------------------------------------

Init ==
  /\ week = 1
  /\ markers = {} /\ receipts = [w \in 1..MaxWeeks |-> 0] /\ state = 0
  /\ page = {[id |-> 1, kind |-> "prompt", of |-> 0]}
  /\ archived = <<>> /\ made = 1 /\ done = FALSE
  /\ run = [p \in Procs |-> Idle] /\ runs = 0
  /\ edits = 0 /\ faults = 0
  /\ written = {} /\ pushers = {} /\ published = {} /\ trouble = {}

RunStep(p) ==
  \/ Start(p) \/ Leave(p) \/ WriteReceipt(p) \/ WriteState(p) \/ MarkWeek(p)
  \/ ReadFails(p) \/ ReadPage(p) \/ InitZone(p) \/ DeletePrior(p) \/ AppendVerdict(p)
  \/ ArchivePrior(p) \/ SetTitle(p) \/ Crash(p)

Next == (\E p \in Procs : RunStep(p)) \/ NewWeek \/ WriteNote \/ Rewrite

Spec == Init /\ [][Next]_vars

------------------------------------------------------------------------------
(* Properties *)

\* Files, page and runs hold what the code can put there, and the blocks of
\* the page can be told apart by their ids.
TypeOK ==
  /\ week \in 1..MaxWeeks /\ markers \subseteq 1..week
  /\ receipts \in [1..MaxWeeks -> 0..MaxRuns] /\ state \in 0..MaxRuns
  /\ page \subseteq Blocks /\ made \in Nat /\ done \in BOOLEAN
  /\ \A b, c \in page : b.id <= made /\ (b.id = c.id => b = c)
  /\ archived \in Seq(Entries)
  /\ runs \in 0..MaxRuns /\ edits \in 0..MaxEdits /\ faults \in 0..MaxFaults
  /\ \A p \in Procs : Underway(p) => run[p].n \in 1..runs
  /\ written \subseteq Blocks /\ published \subseteq 1..runs
  /\ trouble \subseteq Troubles

\* A marked week has its receipt and its state.json, wherever the run was
\* killed: the marker is written last (appsumo_buy_advisor.py:2130-2148).
MarkedMeansRecorded ==
  markers # {} => state # 0 /\ \A w \in markers : receipts[w] # 0

\* As long as no two runs overlap, at most one run of a week that was not
\* forced touches the page, however many are killed and started again.
OncePerWeek ==
  "overlap" \in trouble \/
  \A a, b \in pushers :
    a.week = b.week /\ ~a.forced /\ ~b.forced => a = b

\* What a person writes stays on the page ("Strictly preserving human and
\* archive blocks", 1713), whatever requests fail, repeat or overlap, unless
\* it reads like a verdict's line or replaced one a run was about to delete.
PlainTextSurvives ==
  "race" \in trouble \/ {b \in written : b.kind = "plain"} \subseteq page

\* "without erasing human manual inputs" (1607): everything a person wrote stays.
EditsSurvive == written \subseteq page

Resting == \A p \in Procs : ~Underway(p)
Quiet == Resting /\ trouble = {}

Shown == {n \in published : \E b \in page : b.of = n}
Latest == {n \in published : \A m \in published : m <= n}

\* After runs that nothing disturbed the page shows exactly one verdict, the
\* latest, once, and one human zone.
PageShowsLatest ==
  Quiet =>
    /\ Shown = Latest
    /\ \A kind \in {"headline", "item", "zone"} :
         Cardinality({b \in page : b.kind = kind}) = IF published = {} THEN 0 ELSE 1

\* After runs that nothing disturbed every earlier verdict is in the archive,
\* once, with its own items, and beside them at most a priced line that a person
\* did write (1696): no plain line or bullet, and nothing of another verdict.
ArchiveIsFaithful ==
  LET lines == {b \in written : b.kind = "priced"}
  IN  Quiet =>
        /\ {archived[i].of : i \in 1..Len(archived)} = published \ Latest
        /\ \A i, j \in 1..Len(archived) : archived[i].of = archived[j].of => i = j
        /\ \A i \in 1..Len(archived) :
             /\ archived[i].of \in archived[i].items
             /\ archived[i].items \subseteq {archived[i].of} \cup {b.of : b \in lines}

\* Killing runs cannot make the archive repeat itself: a run archives the last
\* headline it read, and puts its own in that place first (1692, 1719, 1726).
ArchivedOnce ==
  trouble \cap {"request", "overlap", "long_page"} = {} =>
    \A i, j \in 1..Len(archived) : archived[i].of = archived[j].of => i = j

\* "Archives prior agent run summaries" (1610): a verdict that was published is
\* on the page, in the archive, or in the hands of a run, unless a person
\* wrote over it.
VerdictsAreKept ==
  Resting /\ "rewrite" \notin trouble =>
    \A n \in published \ Shown : \E i \in 1..Len(archived) : archived[i].of = n

\* A week is done, and its marker touched, when the page has been brought up to
\* date (docs/cadence/CAD-20261007-appsumo-weekly-buy-advisor.md:43).
WeekDoneMeansPublished ==
  Resting => \A w \in markers : \E a \in pushers : a.week = w /\ a.n \in published

=============================================================================
