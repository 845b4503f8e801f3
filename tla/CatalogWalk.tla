----------------------------- MODULE CatalogWalk -----------------------------
(***************************************************************************)
(* Client.FetchAllDealsQuery: the walk over every browse page of the       *)
(* public catalog, its early stops, and the verdict of                     *)
(* DealsResult.Complete, against a catalog that deals join and leave while *)
(* the walk is under way.                                                  *)
(*                                                                         *)
(* A deal stands for the key the walk deduplicates by (its slug, or its id *)
(* when the slug is blank).  A page is processed in one step, because the  *)
(* goroutine touches only its own state between two requests; the catalog  *)
(* moves between the steps.                                                *)
(***************************************************************************)
EXTENDS Integers, FiniteSets, Sequences, SequencesExt

CONSTANTS
  Deals,           \* deals the catalog can ever list
  Rank,            \* Rank[d]: the place rating, reviews and price give d (higher first)
  Queries,         \* the DealsQuery values the commands issue
  DefaultPerPage,  \* DefaultDealsPageSize
  MaxRequests,     \* maxDealsRequests
  MaxChurn,        \* bound: catalog changes during one walk
  Unknown          \* a total the server did not send

ASSUME DealsAssumption == IsFiniteSet(Deals)
ASSUME RankAssumption == Rank \in [Deals -> Int]
ASSUME BoundsAssumption ==
  /\ DefaultPerPage \in Nat \ {0}
  /\ MaxRequests \in Nat \ {0}
  /\ MaxChurn \in Nat
ASSUME UnknownAssumption == Unknown \notin Int
ASSUME QueriesAssumption ==
  Queries \subseteq [limit    : Int,           \* --limit; <= 0 collects all
                     perPage  : Int,           \* --page-size
                     sort     : {"", "newest", "rating"},
                     filtered : BOOLEAN,       \* hasClientFilter
                     matching : SUBSET Deals,  \* the deals that pass those filters
                     keyword  : BOOLEAN]       \* Query # ""

VARIABLES
  \* the endpoint
  listing,     \* the deals it lists, in its order
  honoursPage, \* FALSE: it ignores `page` and always serves the first window
  churn,       \* how often the catalog has changed during the walk
  \* the walk
  query, requests, seen, kept, declared, overlap, truncated, capped, warnings, phase,
  \* history, read by the properties only
  live0,       \* deals listed when the first page was served
  arrivals,    \* deals that joined the catalog after that
  departures,  \* deals that left it after that
  totalOn      \* the request whose response declared the total, 0 if none

serverVars == <<listing, honoursPage, churn>>
walkVars == <<query, requests, seen, kept, declared, overlap, truncated, capped,
              warnings, phase>>
historyVars == <<live0, arrivals, departures, totalOn>>
vars == <<serverVars, walkVars, historyVars>>

\* Orders the endpoint can list some of the deals in.
Listings == {s \in BoundedSeq(Deals, Cardinality(Deals)) : IsInjective(s)}
WarningKinds == {"limit", "stalled", "cap", "duplicates", "no_total", "short"}

Live == ToSet(listing)

------------------------------------------------------------------------------
(* What is sent: blank sorts and page sizes are substituted, never forwarded. *)

PerPage == IF query.perPage <= 0 THEN DefaultPerPage ELSE query.perPage

\* A mutant: the sort is forwarded as it was given.
SortForwarded == query.sort

SortSent == IF query.sort = "" THEN "newest" ELSE query.sort

HasLimit == query.limit > 0

\* A mutant: every walk stops at its limit, filtered or not.
StopsAtAnyLimit(rows) == HasLimit /\ Cardinality(rows) >= query.limit

\* Only an unfiltered walk may stop as soon as it holds `limit` deals.
StopsAtLimit(rows) == /\ ~query.filtered
                      /\ HasLimit
                      /\ Cardinality(rows) >= query.limit

Passing(rows) == IF query.filtered THEN rows \cap query.matching ELSE rows

------------------------------------------------------------------------------
(* The endpoint (external), as the code and its discovery notes use it. *)

\* One request sees one order of the catalog.  Without a sort the backing
\* search has no tiebreak, so two requests may see two different orders.
Orders == IF SortSent # "" THEN {listing}
          ELSE {s \in Listings : Len(s) = Len(listing) /\ ToSet(s) = Live}

ServedPage(order) ==
  LET from == IF honoursPage THEN requests * PerPage + 1 ELSE 1
      upTo == from + PerPage - 1
  IN  SubSeq(order, from, IF upTo <= Len(order) THEN upTo ELSE Len(order))

Totals == {Len(listing), Unknown}

\* The catalog moves while a walk is between two requests.
Moving == phase = "walking" /\ requests > 0 /\ churn < MaxChurn

Publish ==
  /\ Moving
  /\ \E d \in Deals \ Live, i \in 1..(Len(listing) + 1) :
       /\ listing' = InsertAt(listing, i, d)
       /\ arrivals' = arrivals \cup {d}
  /\ churn' = churn + 1
  /\ UNCHANGED <<honoursPage, walkVars, live0, departures, totalOn>>

Withdraw ==
  /\ Moving
  /\ \E i \in 1..Len(listing) :
       /\ listing' = RemoveAt(listing, i)
       /\ departures' = departures \cup {listing[i]}
  /\ churn' = churn + 1
  /\ UNCHANGED <<honoursPage, walkVars, live0, arrivals, totalOn>>

------------------------------------------------------------------------------
(* The walk. *)

\* The inner loop stops after the row that fills --limit: row n is read only
\* when the rows before it left room.
NewBefore(rows, n) == {rows[i] : i \in 1..(n - 1)} \ seen

RowsTaken(rows) ==
  {n \in 1..Len(rows) : ~StopsAtLimit(kept \cup Passing(NewBefore(rows, n)))}

Fresh(rows) == {rows[n] : n \in RowsTaken(rows)} \ seen

FillsLimit(rows) == StopsAtLimit(kept \cup Passing(NewBefore(rows, Len(rows) + 1)))

\* A mutant: pages without a new deal do not stop the walk.
AfterPageUnguarded(rows) ==
  IF rows = <<>> THEN "empty"
  ELSE IF FillsLimit(rows) THEN "limit"
  ELSE IF Len(rows) < PerPage THEN "short_page"
  ELSE "next_page"

\* What the walk does after a page, in the order the code decides it.
AfterPage(rows) ==
  IF rows = <<>> THEN "empty"
  ELSE IF FillsLimit(rows) THEN "limit"
  ELSE IF Fresh(rows) = {} THEN "stalled"
  ELSE IF Len(rows) < PerPage THEN "short_page"
  ELSE "next_page"

\* A mutant: the cap is off by one.
WithinCapAndOne(made) == made <= MaxRequests

\* The loop condition: another page may be asked for after so many requests.
WithinCap(made) == made < MaxRequests

FetchPage ==
  /\ phase = "walking"
  /\ \E order \in Orders, total \in Totals :
       LET rows  == ServedPage(order)
           fresh == Fresh(rows)
           after == AfterPage(rows)
       IN  /\ requests' = requests + 1
           /\ declared' = IF declared = Unknown THEN total ELSE declared
           /\ totalOn' = IF declared = Unknown /\ total # Unknown THEN requests' ELSE totalOn
           /\ seen' = seen \cup fresh
           /\ kept' = kept \cup Passing(fresh)
           /\ overlap' = (overlap \/ Cardinality(fresh) < Cardinality(RowsTaken(rows)))
           /\ truncated' = (after \in {"limit", "stalled"})
           /\ capped' = (after = "limit")
           /\ warnings' = {after} \cap {"limit", "stalled"}
           /\ phase' = IF after = "next_page" /\ WithinCap(requests')
                       THEN "walking" ELSE "ended"
  /\ UNCHANGED <<serverVars, query, live0, arrivals, departures>>

\* A request that fails for good ends the walk, and nothing of it is returned.
FetchFails ==
  /\ phase = "walking"
  /\ phase' = "failed"
  /\ UNCHANGED <<serverVars, query, requests, seen, kept, declared, overlap, truncated,
                 capped, warnings, historyVars>>

\* The best `limit` of rows by rank; deals of equal rank keep the order they were served in,
\* which this model leaves open.
Best(rows, limit) ==
  {top \in SUBSET rows : /\ Cardinality(top) = limit
                         /\ \A x \in top, y \in rows \ top : Rank[x] >= Rank[y]}

SlicesToLimit == query.filtered /\ HasLimit /\ Cardinality(kept) > query.limit

\* A mutant: only a count below the total is worth a warning.
FewerThanDeclared(rows, stopped) ==
  /\ declared # Unknown
  /\ ~stopped /\ ~query.filtered /\ ~query.keyword
  /\ Cardinality(rows) < declared

\* The rows returned are not as many as declared, and nothing asked for that.
Short(rows, stopped) ==
  /\ declared # Unknown
  /\ ~stopped /\ ~query.filtered /\ ~query.keyword
  /\ Cardinality(rows) # declared

\* Mutants: a surplus counts as complete; a walk cut short may be complete.
CompleteAtLeast ==
  IF declared = Unknown THEN "unknown"
  ELSE IF ~truncated /\ Cardinality(seen) >= declared THEN "complete"
  ELSE "incomplete"

CompleteByCount ==
  IF declared = Unknown THEN "unknown"
  ELSE IF Cardinality(seen) = declared THEN "complete"
  ELSE "incomplete"

\* DealsResult.Complete: unknown without a total, otherwise a verdict.
Complete ==
  IF declared = Unknown THEN "unknown"
  ELSE IF ~truncated /\ Cardinality(seen) = declared THEN "complete"
  ELSE "incomplete"

\* A mutant: an uncertified walk is repeated until one is complete.
WalkAgain ==
  /\ phase = "ended"
  /\ IF Complete = "complete" THEN phase' = "returned" /\ requests' = requests
                              ELSE phase' = "walking" /\ requests' = 0
  /\ UNCHANGED <<serverVars, query, seen, kept, declared, overlap, truncated, capped,
                 warnings, historyVars>>

\* Everything after the loop: the request cap, the ranked slice of a filtered
\* walk, and the warnings.
Reconcile ==
  LET capHit == requests >= MaxRequests
  IN  /\ phase = "ended"
      /\ phase' = "returned"
      /\ kept' \in IF SlicesToLimit THEN Best(kept, query.limit) ELSE {kept}
      /\ truncated' = (truncated \/ capHit \/ SlicesToLimit)
      /\ capped' = (capped \/ capHit \/ SlicesToLimit)
      /\ warnings' = warnings
           \cup {w \in {"cap"} : capHit}
           \cup {w \in {"duplicates"} : overlap}
           \cup {w \in {"limit"} : SlicesToLimit}
           \cup {w \in {"no_total"} : declared = Unknown}
           \cup {w \in {"short"} : Short(kept', capped')}
      /\ UNCHANGED <<serverVars, query, requests, seen, declared, overlap, historyVars>>

------------------------------------------------------------------------------

WalkInit ==
  /\ requests = 0
  /\ seen = {} /\ kept = {}
  /\ declared = Unknown
  /\ overlap = FALSE /\ truncated = FALSE /\ capped = FALSE
  /\ warnings = {}
  /\ phase = "walking"

Init ==
  /\ listing \in Listings
  /\ honoursPage \in BOOLEAN
  /\ churn = 0
  /\ query \in Queries
  /\ WalkInit
  /\ live0 = Live
  /\ arrivals = {} /\ departures = {}
  /\ totalOn = 0

Next == FetchPage \/ FetchFails \/ Reconcile \/ Publish \/ Withdraw

\* The command blocks on its own requests and nothing else: the HTTP client
\* bounds every one of them, so the walk always gets to its next step.
Fairness == WF_vars(FetchPage \/ FetchFails) /\ WF_vars(Reconcile)

Spec == Init /\ [][Next]_vars /\ Fairness

------------------------------------------------------------------------------
(* Properties *)

\* Every variable holds a value the code can hold: sets of deals, a count of
\* requests within the cap, a known or unknown total, the named phases.
TypeOK ==
  /\ listing \in Seq(Deals) /\ honoursPage \in BOOLEAN /\ churn \in 0..MaxChurn
  /\ query \in Queries
  /\ requests \in 0..MaxRequests
  /\ seen \subseteq Deals /\ kept \subseteq seen
  /\ declared \in Nat \cup {Unknown}
  /\ overlap \in BOOLEAN /\ truncated \in BOOLEAN /\ capped \in BOOLEAN
  /\ warnings \subseteq WarningKinds
  /\ phase \in {"walking", "ended", "returned", "failed"}
  /\ live0 \subseteq Deals /\ arrivals \subseteq Deals /\ departures \subseteq Deals
  /\ totalOn \in 0..requests

Certified == phase = "returned" /\ Complete = "complete"

\* A walk whose total came with its first page and that certifies itself
\* complete collected the catalog of that moment, unless deals both joined and
\* left while it ran: then one that slid past the cursor can be made up for by
\* one that was never counted (Complete compares counts, deals.go:227).
CertifiedMeansServed ==
  Certified /\ totalOn = 1 /\ (arrivals = {} \/ departures = {}) => seen = live0

\* On a catalog that does not move, behind an endpoint that honours `page` and
\* sends a total, only --limit and the request cap can keep a walk from
\* collecting everything and saying so.  This is what sending a sort buys
\* (deals.go:11-30).
QuietWalkIsComplete ==
  /\ phase = "returned" /\ honoursPage /\ churn = 0 /\ declared # Unknown
  /\ warnings \cap {"limit", "cap"} = {}
  => seen = live0 /\ Complete = "complete"

\* The guard against an endpoint that repeats itself (deals.go:433) works:
\* every request but the last brings at least one deal nobody had served yet.
NoWastedRequest == requests <= Cardinality(seen) + 1

\* A result that cannot be certified never comes without a warning, when no
\* filter or keyword makes a short count normal.
UncertifiedIsAnnounced ==
  /\ phase = "returned" /\ ~query.filtered /\ ~query.keyword
  /\ Complete # "complete"
  => warnings # {}

\* A filtered walk over a quiet catalog returns the best `limit` of ALL deals
\* that match, never of a prefix: the limit of a filtered walk is applied after
\* ranking (deals.go:420, 484), not where the walk happens to be.
FilteredLimitTakesTheBest ==
  /\ phase = "returned" /\ query.filtered /\ honoursPage /\ churn = 0
  /\ "cap" \notin warnings
  => LET matching == live0 \cap query.matching
     IN  /\ kept \subseteq matching
         /\ Cardinality(kept) = IF HasLimit /\ query.limit < Cardinality(matching)
                                THEN query.limit ELSE Cardinality(matching)
         /\ \A x \in kept, y \in matching \ kept : Rank[x] >= Rank[y]

\* The walk implements the promise every crawl of this program makes.
Verdict == IF phase = "returned" THEN Complete
           ELSE IF phase = "failed" THEN "failed" ELSE "open"

Promise == INSTANCE ReconciledCrawl WITH
  Rows      <- Deals,
  collected <- IF phase = "failed" THEN {} ELSE seen,
  cut       <- truncated,
  verdict   <- Verdict
KeepsPromise == Promise!Spec

\* Every walk ends, whatever the endpoint serves and however the catalog moves.
Terminates == <>(phase \in {"returned", "failed"})

=============================================================================
