--------------------------- MODULE ReconciledCrawl ---------------------------
(***************************************************************************)
(* What every paginated crawl of this program promises its caller,         *)
(* whatever the endpoint does: the rows it hands over were all gathered    *)
(* during the crawl, an aborted crawl hands over nothing, and the verdict  *)
(* "complete" is given only to a crawl that was not cut short and whose    *)
(* distinct rows are as many as the server declared.  CatalogWalk (browse  *)
(* pages) and ThreadCrawl (comment windows) are shown to implement it.     *)
(***************************************************************************)
EXTENDS Integers, FiniteSets

CONSTANTS
  Rows,       \* every row the endpoint can serve
  Unknown     \* an absent total: never a number

VARIABLES
  collected,  \* distinct rows gathered so far; {} once the crawl has failed
  declared,   \* the server's own count, Unknown while no response carried one
  cut,        \* TRUE once the crawl stopped for any reason but running dry
  verdict     \* "open" while crawling, then what the caller is told

vars == <<collected, declared, cut, verdict>>

Verdicts == {"complete", "incomplete", "unknown"}

Init ==
  /\ collected = {}
  /\ declared = Unknown
  /\ cut = FALSE
  /\ verdict = "open"

\* One more response: rows are only ever added, and a total once declared stays.
Gather ==
  /\ verdict = "open"
  /\ collected \subseteq collected' /\ collected' \subseteq Rows
  /\ declared # Unknown => declared' = declared
  /\ cut => cut'
  /\ UNCHANGED verdict

\* The crawl ends and is reconciled against the declared total.
Return ==
  /\ verdict = "open"
  /\ cut => cut'
  /\ verdict' \in Verdicts
  /\ verdict' = "unknown" <=> declared = Unknown
  /\ verdict' = "complete" => ~cut' /\ Cardinality(collected) = declared
  /\ UNCHANGED <<collected, declared>>

\* A request failed for good: the caller gets an error and no rows.
Abandon ==
  /\ verdict = "open"
  /\ verdict' = "failed"
  /\ collected' = {}
  /\ UNCHANGED <<declared, cut>>

Next == Gather \/ Return \/ Abandon

Spec == Init /\ [][Next]_vars

=============================================================================
