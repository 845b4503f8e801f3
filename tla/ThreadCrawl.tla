----------------------------- MODULE ThreadCrawl -----------------------------
(***************************************************************************)
(* fetchThread: the walk over the comment windows (reviews, questions) of  *)
(* one deal by offset, and threadCompleteness, against a thread that       *)
(* people post to and delete from while the walk is under way.             *)
(*                                                                         *)
(* A comment stands for its id.  A window is processed in one step; the    *)
(* thread moves between the steps.                                         *)
(***************************************************************************)
EXTENDS Integers, FiniteSets, Sequences, SequencesExt

CONSTANTS
  Comments,         \* comments the thread can ever hold
  Queries,          \* the --limit, --page-size and --order the commands are given
  DefaultPageSize,  \* DefaultThreadPageSize
  MaxRequests,      \* maxThreadRequests
  ServerWindow,     \* the most rows the endpoint serves at once
  MaxChurn,         \* bound: changes of the thread during one crawl
  Unknown           \* a total the server did not send

ASSUME CommentsAssumption == IsFiniteSet(Comments)
ASSUME CrawlBounds ==
  /\ DefaultPageSize \in Nat \ {0} /\ MaxRequests \in Nat \ {0}
  /\ ServerWindow \in Nat \ {0} /\ MaxChurn \in Nat
ASSUME UnknownAssumption == Unknown \notin Int
ASSUME QueriesAssumption ==
  Queries \subseteq [limit : Int, pageSize : Int, order : {"", "asc", "desc"}]

VARIABLES
  \* the endpoint
  thread,      \* its comments, oldest first
  honoursFrom, \* FALSE: it ignores `from` and always serves the first window
  churn,       \* how often the thread has changed during the crawl
  \* the crawl
  query, offset, requests, items, expectedTotal, truncated, capped, warnings, phase,
  \* history, read by the properties only
  live0,       \* comments there when the first window was served
  posted,      \* comments posted after that
  deleted,     \* comments deleted after that
  totalOn      \* the request whose response declared the total, 0 if none

serverVars == <<thread, honoursFrom, churn>>
crawlVars == <<query, offset, requests, items, expectedTotal, truncated, capped,
               warnings, phase>>
historyVars == <<live0, posted, deleted, totalOn>>
vars == <<serverVars, crawlVars, historyVars>>

Live == ToSet(thread)

Least(m, n) == IF m <= n THEN m ELSE n

------------------------------------------------------------------------------
(* What is sent: ThreadQuery.resolve substitutes page sizes and orders. *)

PageSize == IF query.pageSize <= 0 THEN DefaultPageSize ELSE query.pageSize

\* A mutant: the default order of the site itself.
NewestFirstByDefault == IF query.order = "" THEN "desc" ELSE query.order

OrderSent == IF query.order = "" THEN "asc" ELSE query.order

HasLimit == query.limit > 0

LimitReached(rows) == HasLimit /\ Cardinality(rows) >= query.limit

------------------------------------------------------------------------------
(* The endpoint (external). *)

ServedWindow ==
  LET rows == IF OrderSent = "asc" THEN thread ELSE Reverse(thread)
      from == IF honoursFrom THEN offset ELSE 0
  IN  SubSeq(rows, from + 1, Least(Len(rows), from + Least(PageSize, ServerWindow)))

Totals == {Len(thread), Unknown}

Moving == phase = "crawling" /\ requests > 0 /\ churn < MaxChurn

\* Ids are never used again: a deleted comment does not come back.
Post ==
  /\ Moving
  /\ \E c \in Comments \ (live0 \cup posted) :
       thread' = Append(thread, c) /\ posted' = posted \cup {c}
  /\ churn' = churn + 1
  /\ UNCHANGED <<honoursFrom, crawlVars, live0, deleted, totalOn>>

Delete ==
  /\ Moving
  /\ \E i \in 1..Len(thread) :
       thread' = RemoveAt(thread, i) /\ deleted' = deleted \cup {thread[i]}
  /\ churn' = churn + 1
  /\ UNCHANGED <<honoursFrom, crawlVars, live0, posted, totalOn>>

------------------------------------------------------------------------------
(* The crawl. *)

\* The rows of a window that are not held yet, up to the one that fills --limit.
Taken(rows) ==
  LET Before(n) == {rows[k] : k \in 1..(n - 1)}
      read      == {n \in 1..Len(rows) : ~LimitReached(items \cup Before(n))}
  IN  {rows[n] : n \in read} \ items

\* A mutant: windows without a new comment do not stop the crawl.
AfterWindowUnguarded(rows) ==
  IF rows = <<>> THEN "empty"
  ELSE IF LimitReached(items \cup Taken(rows)) THEN "limit"
  ELSE "next_window"

\* What the crawl does after a window, in the order the code decides it.  A
\* window that is not full does not end it: only an empty one does.
AfterWindow(rows) ==
  IF rows = <<>> THEN "empty"
  ELSE IF LimitReached(items \cup Taken(rows)) THEN "limit"
  ELSE IF Taken(rows) = {} THEN "stalled"
  ELSE "next_window"

\* Mutants: the next offset assumes a full window; the cap is off by one.
NextOffsetByPageSize(rows) == offset + PageSize
WithinCapAndOne(made) == made <= MaxRequests

NextOffset(rows) == offset + Len(rows)

WithinCap(made) == made < MaxRequests

FetchWindow ==
  /\ phase = "crawling"
  /\ \E total \in Totals :
       LET rows  == ServedWindow
           after == AfterWindow(rows)
       IN  /\ requests' = requests + 1
           /\ expectedTotal' = IF expectedTotal = Unknown THEN total ELSE expectedTotal
           /\ totalOn' = IF expectedTotal = Unknown /\ total # Unknown
                         THEN requests' ELSE totalOn
           /\ items' = items \cup Taken(rows)
           /\ offset' = IF after = "next_window" THEN NextOffset(rows) ELSE offset
           /\ truncated' = (after \in {"limit", "stalled"})
           /\ capped' = (after = "limit")
           /\ warnings' = {after} \cap {"limit", "stalled"}
           /\ phase' = IF after = "next_window" /\ WithinCap(requests')
                       THEN "crawling" ELSE "ended"
  /\ UNCHANGED <<serverVars, query, live0, posted, deleted>>

\* A request that fails for good ends the crawl, and nothing of it is returned.
FetchFails ==
  /\ phase = "crawling"
  /\ phase' = "failed"
  /\ UNCHANGED <<serverVars, query, offset, requests, items, expectedTotal, truncated,
                 capped, warnings, historyVars>>

\* Mutants: a surplus counts as complete; a crawl cut short may be complete.
CompleteAtLeast ==
  IF expectedTotal = Unknown THEN "unknown"
  ELSE IF ~truncated /\ Cardinality(items) >= expectedTotal THEN "complete"
  ELSE "incomplete"

CompleteByCount ==
  IF expectedTotal = Unknown THEN "unknown"
  ELSE IF Cardinality(items) = expectedTotal THEN "complete"
  ELSE "incomplete"

\* threadCompleteness.
Complete ==
  IF expectedTotal = Unknown THEN "unknown"
  ELSE IF ~truncated /\ Cardinality(items) = expectedTotal THEN "complete"
  ELSE "incomplete"

\* Mutants: a crawl that is not certified is repeated until one is; the count is
\* compared only when nothing stopped the crawl.
CrawlAgain ==
  /\ phase = "ended"
  /\ IF Complete = "complete" THEN phase' = "returned" /\ UNCHANGED <<requests, offset>>
     ELSE phase' = "crawling" /\ requests' = 0 /\ offset' = 0
  /\ UNCHANGED <<serverVars, query, items, expectedTotal, truncated, capped, warnings,
                 historyVars>>

FewerThanExpected(stopped) ==
  /\ expectedTotal # Unknown /\ ~stopped
  /\ Cardinality(items) < expectedTotal

\* The count is not the declared one, and nobody asked for that.
Mismatch(stopped) ==
  /\ expectedTotal # Unknown /\ ~stopped
  /\ Cardinality(items) # expectedTotal

\* Everything after the loop: the request cap and the warnings.
Reconcile ==
  LET capHit == requests >= MaxRequests
  IN  /\ phase = "ended"
      /\ phase' = "returned"
      /\ truncated' = (truncated \/ capHit)
      /\ capped' = (capped \/ capHit)
      /\ warnings' = warnings
           \cup {w \in {"cap"} : capHit}
           \cup {w \in {"no_total"} : expectedTotal = Unknown}
           \cup {w \in {"mismatch"} : Mismatch(capped')}
      /\ UNCHANGED <<serverVars, query, offset, requests, items, expectedTotal, historyVars>>

------------------------------------------------------------------------------

Init ==
  /\ thread \in {s \in BoundedSeq(Comments, Cardinality(Comments)) : IsInjective(s)}
  /\ honoursFrom \in BOOLEAN
  /\ churn = 0
  /\ query \in Queries
  /\ offset = 0 /\ requests = 0
  /\ items = {} /\ expectedTotal = Unknown
  /\ truncated = FALSE /\ capped = FALSE /\ warnings = {}
  /\ phase = "crawling"
  /\ live0 = Live /\ posted = {} /\ deleted = {} /\ totalOn = 0

Next == FetchWindow \/ FetchFails \/ Reconcile \/ Post \/ Delete

\* The command blocks on its own requests, each of which the HTTP client bounds.
Fairness == WF_vars(FetchWindow \/ FetchFails) /\ WF_vars(Reconcile)

Spec == Init /\ [][Next]_vars /\ Fairness

------------------------------------------------------------------------------
(* Properties *)

\* Every variable holds a value the code can hold; a crawl under way has not
\* filled its limit.
TypeOK ==
  /\ thread \in Seq(Comments) /\ honoursFrom \in BOOLEAN /\ churn \in 0..MaxChurn
  /\ query \in Queries
  /\ offset \in Nat /\ requests \in 0..MaxRequests
  /\ items \subseteq Comments
  /\ expectedTotal \in Nat \cup {Unknown}
  /\ truncated \in BOOLEAN /\ capped \in BOOLEAN
  /\ warnings \subseteq {"limit", "stalled", "cap", "no_total", "mismatch"}
  /\ phase \in {"crawling", "ended", "returned", "failed"}
  /\ phase = "crawling" => ~LimitReached(items)
  /\ live0 \subseteq Comments /\ posted \subseteq Comments /\ deleted \subseteq Comments
  /\ totalOn \in 0..requests

Certified == phase = "returned" /\ Complete = "complete"

\* A crawl whose total came with its first window and that is certified complete
\* holds the thread of that moment, unless comments were both posted and deleted
\* under it (threadCompleteness compares counts, cli/questions.go:121-128).
CertifiedMeansServed ==
  Certified /\ totalOn = 1 /\ (posted = {} \/ deleted = {}) => items = live0

\* Paging oldest first is stable (threads.go:30-33): however many comments are
\* posted meanwhile and however few rows the endpoint serves at once, a crawl in
\* the default order that nothing stopped on purpose holds every comment that
\* was there, and takes no window for a repeated one.
PostsHideNothing ==
  /\ phase = "returned" /\ query.order # "desc" /\ honoursFrom /\ deleted = {}
  /\ warnings \cap {"limit", "cap"} = {}
  => live0 \subseteq items /\ "stalled" \notin warnings

\* --limit N in the default order gives the N oldest comments, also while others
\* are posted.
LimitTakesTheOldest ==
  /\ phase = "returned" /\ query.order # "desc" /\ honoursFrom /\ deleted = {}
  /\ "limit" \in warnings
  => items = {thread[i] : i \in 1..query.limit}

\* The guard against an endpoint that ignores `from` (threads.go:181-193) works
\* in either order and under any churn: every request but the last brings a
\* comment not held yet.
NoWastedRequest == requests <= Cardinality(items) + 1

\* A crawl that is not certified never comes without a warning.
UncertifiedIsAnnounced ==
  phase = "returned" /\ Complete # "complete" => warnings # {}

\* The crawl implements the promise every crawl of this program makes.
Verdict == IF phase = "returned" THEN Complete
           ELSE IF phase = "failed" THEN "failed" ELSE "open"

Promise == INSTANCE ReconciledCrawl WITH
  Rows      <- Comments,
  collected <- IF phase = "failed" THEN {} ELSE items,
  declared  <- expectedTotal,
  cut       <- truncated,
  verdict   <- Verdict
KeepsPromise == Promise!Spec

\* Every crawl ends, whatever the endpoint serves and however the thread moves.
Terminates == <>(phase \in {"returned", "failed"})

=============================================================================
