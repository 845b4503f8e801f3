------------------------------- MODULE BuyAdvice -------------------------------
(***************************************************************************)
(* The two commands of appsumo_buy_advisor.py that judge deals: a run      *)
(* (directives from the page, purchased assets, candidates, audit) and     *)
(* `explain` (one deal, looked up in four places), while deals come and    *)
(* go, `deals sync` and `scrape` replace what is stored, and people write  *)
(* on the page.  DealAudit has the rules, AdvisorHub what a run does with  *)
(* its verdict; the weekly gate is there, too.                             *)
(*                                                                         *)
(* A listing is a deal as the API lists it.  A row of the table deals is   *)
(* made of one listing (its columns and its raw_json), and a deal under    *)
(* audit remembers in "of" which listings its fields came from: no action  *)
(* looks at that.                                                          *)
(***************************************************************************)
EXTENDS DealAudit

CONSTANTS
  Listings,     \* what the API can list
  Notes,        \* lines people may write, each with its place in a list: [zone, line, at]
  Placeholders, \* lines of the page's own template
  ZoneWindow,   \* page_size of the request that reads a list, the code's 50
  Hits,         \* deals a query brings, the code's 10
  MaxMoves      \* bound: changes of the world

ASSUME AdviceBounds == Hits \in Nat \ {0} /\ ZoneWindow \in Nat \ {0} /\ MaxMoves \in Nat

\* A slug is found when a text is searched for it.
ASSUME ListingAssumption ==
  /\ IsFiniteSet(Listings)
  /\ \A w \in Listings :
       /\ w.price \in Nat /\ w.plans \in Seq(Nat) /\ w.free \in BOOLEAN /\ w.since \in Nat
       /\ Occurs(w.slug, w.slug)

\* A place of a list is one line's.
ASSUME NotesAssumption ==
  \A m, n \in Notes : n.at \in Nat /\ (m.zone = n.zone /\ m.at = n.at => m = n)

VARIABLES
  catalog,  \* listings live now, one per slug
  table,    \* table deals, by the listing each row was made of
  archive,  \* data/<slug>/deal.json: absent, torn, or of the listing it was scraped from
  page,     \* notes on the page
  moves,    \* changes of the world so far
  run,      \* a run of the advisor
  look,     \* an explain
  leading   \* history: notes always within the window of their list since the run began

worldVars == <<catalog, table, archive, page, moves, leading>>
vars == <<worldVars, run, look>>

Slugs == {w.slug : w \in Listings}
OnePerSlug(rows) == \A v, w \in rows : v.slug = w.slug => v = w

Zones == <<"wishlist", "blacklist", "new_assets">>
Untold == [z \in {Zones[i] : i \in 1..Len(Zones)} |-> {}]

------------------------------------------------------------------------------
(* The forms a listing is given. *)

\* A text that is missing.
Blank == ""

\* normaliseDeal, and a row of the table: the category is the taxonomy's.
Columns(w) ==
  [name |-> w.name, slug |-> w.slug, says |-> w.says, alt |-> w.alt, sub |-> w.sub,
   cat |-> w.tax, price |-> w.price, free |-> w.free, rating |-> w.rating,
   reviews |-> w.reviews, unresolved |-> FALSE, of |-> {w}]

\* The first plan's price, unless there is none.
PlanPrice(w, otherwise) == IF w.plans # <<>> THEN Head(w.plans) ELSE otherwise

\* _normalize_scraped_deal of raw_json: the first plan's price and the category
\* of the attributes come first.
Raw(w) ==
  [Columns(w) EXCEPT !.price = PlanPrice(w, w.price),
                     !.cat = IF w.cat # Blank THEN w.cat ELSE w.tax]

\* The same of deal.json: no description, attributes or taxonomy.
Scraped(w) ==
  [Columns(w) EXCEPT !.says = {}, !.alt = {}, !.sub = Blank, !.cat = Blank, !.free = FALSE,
                     !.price = PlanPrice(w, 0)]

Unresolved(slug) ==
  [name |-> Lexicon[slug].spaced, slug |-> slug, says |-> {}, alt |-> {}, sub |-> Blank,
   cat |-> Blank, price |-> 0, free |-> FALSE, rating |-> 0, reviews |-> 0,
   unresolved |-> TRUE, of |-> {}]

\* What raw_json says of kind and content comes first, of the rest only what the
\* deal lacks.
Enriched(deal, w) ==
  LET raw == Raw(w)
      Or(a, b, blank) == IF a # blank THEN a ELSE b
  IN  [deal EXCEPT !.says = Or(raw.says, @, {}), !.alt = Or(raw.alt, @, {}),
                   !.sub = Or(raw.sub, @, Blank), !.cat = Or(raw.cat, @, Blank),
                   !.price = Or(@, raw.price, 0), !.rating = Or(@, raw.rating, 0),
                   !.reviews = Or(@, raw.reviews, 0), !.free = @ \/ raw.free,
                   !.of = @ \cup {w}]

RowsOf(slug, rows) == {w \in rows : w.slug = slug}

------------------------------------------------------------------------------
(* Queries of the store and the CLI. *)

IsIdeal(w) == w.rating >= 45 /\ w.reviews >= 10

\* deals list|ideal --local
ListDealsQuery(rows) == rows
IdealDealsQuery(rows) == {w \in rows : IsIdeal(w)}

Candidates(rows) == IF run.ideal THEN IdealDealsQuery(rows) ELSE ListDealsQuery(rows)

\* Deals a text query finds.
Found(query) ==
  {w \in catalog : Occurs(query, w.slug) \/ Occurs(query, w.name) \/ query \in w.says}

\* An answer begins with the newest and is cut after its first rows, whatever
\* their rating: without a filter of its own the CLI stops there, and the
\* endpoint's page is as long.  Of equal age either may come first.
Served(query, got) ==
  /\ got \subseteq Found(query)
  /\ Cardinality(got) = IF Cardinality(Found(query)) < Hits
                          THEN Cardinality(Found(query)) ELSE Hits
  /\ \A v \in got, w \in Found(query) \ got : v.since >= w.since

\* The rows whose slug is the one looked for but for punctuation, and the first of them.
Matches(slug, rows) == {w \in rows : Lexicon[w.slug].squeezed = Lexicon[slug].squeezed}
FirstMatch(slug, rows) ==
  {w \in Matches(slug, rows) : \A v \in Matches(slug, rows) : w.since >= v.since}

------------------------------------------------------------------------------
(* run_advisor, as far as its verdict. *)

NoRun == [phase |-> "idle", ideal |-> FALSE, zone |-> 1, told |-> Untold, heard |-> TRUE,
          deals |-> {}]

\* The lines of a list that one request brings, the template's among them.
Legible ==
  {n \in page : Cardinality({m \in page : m.zone = n.zone /\ m.at < n.at}) < ZoneWindow}

\* fetch_cloud_doc_directives: with no token or no answer there are no directives.
ReadPage ==
  /\ run.phase = "idle"
  /\ \E ideal \in BOOLEAN, heard \in BOOLEAN :
       run' = [NoRun EXCEPT !.phase = IF heard THEN "reading" ELSE "assets",
                            !.ideal = ideal, !.heard = heard]
  /\ leading' = Legible
  /\ UNCHANGED <<catalog, table, archive, page, moves, look>>

Written(zone) == {n.line : n \in {m \in Legible : m.zone = zone}} \ Placeholders

\* The lists of the page in turn, a request each, whose cursor is not followed.
\* One that has no answer, or does not begin among the page's first hundred
\* blocks, stays empty; an answer that cannot be parsed ends the reading.
ReadZone ==
  LET next == IF run.zone < Len(Zones) THEN "reading" ELSE "assets"
  IN  /\ run.phase = "reading"
      /\ \/ run' = [run EXCEPT !.told[Zones[run.zone]] = Written(Zones[run.zone]),
                               !.zone = @ + 1, !.phase = next]
         \/ run' = [run EXCEPT !.heard = FALSE, !.zone = @ + 1, !.phase = next]
         \/ run' = [run EXCEPT !.heard = FALSE, !.phase = "assets"]
      /\ UNCHANGED <<worldVars, look>>

\* kb.tools is a list, and a declared asset is stored under its name as if it
\* were a dictionary: a TypeError that nothing catches.
IndexAssets ==
  /\ run.phase = "assets"
  /\ run' = [run EXCEPT !.phase = IF run.told["new_assets"] # {} THEN "crashed" ELSE "listing"]
  /\ UNCHANGED <<worldVars, look>>

\* The local table first; an error or an empty answer is passed over.
FetchLocal ==
  /\ run.phase = "listing"
  /\ \/ run' = [run EXCEPT !.phase = "live"]
     \/ /\ Candidates(table) # {}
        /\ run' = [run EXCEPT !.phase = "enriching",
                              !.deals = {Columns(w) : w \in Candidates(table)}]
  /\ UNCHANGED <<worldVars, look>>

\* A live walk may bring less than the catalog (CatalogWalk) and is taken as it
\* is; without a deal the run ends.
FetchLive ==
  /\ run.phase = "live"
  /\ \E got \in SUBSET Candidates(catalog) :
       run' = [run EXCEPT !.phase = IF got = {} THEN "done" ELSE "enriching",
                          !.deals = {Columns(w) : w \in got}]
  /\ UNCHANGED <<worldVars, look>>

\* With its row, if it has one.
EnrichedSet(deal) ==
  LET rows == RowsOf(deal.slug, table)
  IN  IF rows = {} THEN {deal} ELSE {Enriched(deal, w) : w \in rows}

\* A mutant: an enriched deal goes beside the bare one.
EnrichBeside ==
  /\ run.phase = "enriching"
  /\ run' = [run EXCEPT !.phase = "done", !.deals = @ \cup UNION {EnrichedSet(d) : d \in @}]
  /\ UNCHANGED <<worldVars, look>>

\* Deals are enriched in place, so that an error leaves the rest bare.
Enrich ==
  /\ run.phase = "enriching"
  /\ \E some \in SUBSET run.deals :
       run' = [run EXCEPT !.phase = "done",
                          !.deals = (@ \ some) \cup UNION {EnrichedSet(d) : d \in some}]
  /\ UNCHANGED <<worldVars, look>>

\* The result: every deal is audited, the recommended ones by falling score.
Recommended == {d \in run.deals : Verdict(d, run.told) = "recommended"}

------------------------------------------------------------------------------
(* explain_deal: fetch_deal_by_slug tries four places in turn. *)

NoLook == [phase |-> "idle", slug |-> Blank, errors |-> FALSE, crowded |-> 0, listed |-> FALSE,
           stored |-> FALSE, deal |-> {}, place |-> "nowhere"]

Explain ==
  /\ look.phase = "idle"
  /\ \E slug \in Slugs :
       look' = [NoLook EXCEPT !.phase = "table", !.slug = slug,
                              !.listed = RowsOf(slug, catalog) # {},
                              !.stored = RowsOf(slug, table) # {}]
  /\ UNCHANGED <<worldVars, run>>

Finds(deal) ==
  look' = [look EXCEPT !.phase = "done", !.deal = {deal}, !.place = look.phase]

\* What becomes of a place without the deal, or with an error (passed over).
GoesOn(next, wrong, full) ==
  look' = [look EXCEPT !.phase = next, !.errors = @ \/ wrong,
                       !.crowded = IF full THEN @ + 1 ELSE @]

\* A mutant: only what a scrape knows is selected.
LookInTableBarely ==
  /\ look.phase = "table"
  /\ \/ \E w \in RowsOf(look.slug, table) : Finds(Scraped(w))
     \/ RowsOf(look.slug, table) = {} /\ GoesOn("archive", FALSE, FALSE)
     \/ GoesOn("archive", TRUE, FALSE)
  /\ UNCHANGED <<worldVars, run>>

\* Every database file there is, in turn; an error of one is passed over.
LookInTable ==
  /\ look.phase = "table"
  /\ \/ \E w \in RowsOf(look.slug, table) : Finds(Columns(w))
     \/ RowsOf(look.slug, table) = {} /\ GoesOn("archive", FALSE, FALSE)
     \/ GoesOn("archive", TRUE, FALSE)
  /\ UNCHANGED <<worldVars, run>>

LookInArchive ==
  /\ look.phase = "archive"
  /\ LET json == archive[look.slug]
     IN  \/ \E w \in json.of : Finds(Scraped(w))
         \/ json.of = {} /\ GoesOn("query", json.torn, FALSE)
  /\ UNCHANGED <<worldVars, run>>

\* The deal is live, and as many others as a query brings come before it.
CrowdedOut ==
  \E w \in RowsOf(look.slug, catalog) :
    Cardinality({v \in Found(look.slug) \ {w} : v.since >= w.since}) >= Hits

GiveUp(wrong, full) ==
  look' = [look EXCEPT !.phase = "done", !.deal = {Unresolved(look.slug)},
                       !.errors = @ \/ wrong, !.crowded = IF full THEN @ + 1 ELSE @]

\* A mutant: what the query does not bring is given up.
LookInQueryOnly ==
  /\ look.phase = "query"
  /\ \/ \E got \in SUBSET Found(look.slug) :
          /\ Served(look.slug, got)
          /\ \/ \E w \in FirstMatch(look.slug, got) : Finds(Columns(w))
             \/ Matches(look.slug, got) = {} /\ GiveUp(FALSE, CrowdedOut)
     \/ GoesOn("browse", TRUE, FALSE)
  /\ UNCHANGED <<worldVars, run>>

\* deals list --query: the first ten of the live deals found.  An answer that
\* lacks rows (CatalogWalk) counts as an error.
LookInQuery ==
  /\ look.phase = "query"
  /\ \/ \E got \in SUBSET Found(look.slug) :
          /\ Served(look.slug, got)
          /\ \/ \E w \in FirstMatch(look.slug, got) : Finds(Columns(w))
             \/ Matches(look.slug, got) = {} /\ GoesOn("browse", FALSE, CrowdedOut)
     \/ GoesOn("browse", TRUE, FALSE)
  /\ UNCHANGED <<worldVars, run>>

\* The endpoint itself: its first page of ten.
LookInBrowse ==
  /\ look.phase = "browse"
  /\ \/ \E got \in SUBSET Found(look.slug) :
          /\ Served(look.slug, got)
          /\ \/ \E w \in FirstMatch(look.slug, got) : Finds(Raw(w))
             \/ Matches(look.slug, got) = {} /\ GiveUp(FALSE, CrowdedOut)
     \/ GiveUp(TRUE, FALSE)
  /\ UNCHANGED <<worldVars, run>>

\* audit without directives
Explanation == {Verdict(d, Untold) : d \in look.deal}

------------------------------------------------------------------------------
(* The world. *)

Moves == moves < MaxMoves /\ moves' = moves + 1

\* A deal is listed, changed or withdrawn.
Relist ==
  /\ Moves
  /\ \E slug \in Slugs :
       LET rest == catalog \ RowsOf(slug, catalog)
       IN  /\ \/ \E w \in RowsOf(slug, Listings) : catalog' = rest \cup {w}
              \/ catalog' = rest
           /\ look' = [look EXCEPT !.listed = @ /\ RowsOf(look.slug, catalog') # {}]
  /\ UNCHANGED <<table, archive, page, run, leading>>

\* deals sync (SnapshotStore has the detail): rows are replaced, never removed.
SaveDeals ==
  /\ Moves
  /\ table' = catalog \cup {w \in table : RowsOf(w.slug, catalog) = {}}
  /\ UNCHANGED <<catalog, archive, page, run, look, leading>>

\* scrape, which may be killed while it writes.
SaveArchive ==
  /\ Moves
  /\ \E w \in catalog, torn \in BOOLEAN :
       archive' = [archive EXCEPT ![w.slug] =
                     [torn |-> torn, of |-> IF torn THEN {} ELSE {w}]]
  /\ UNCHANGED <<catalog, table, page, run, look, leading>>

Write ==
  /\ Moves
  /\ \E n \in Notes : page' = page \cup {n} \/ page' = page \ {n}
  /\ leading' = leading \cap Legible'
  /\ UNCHANGED <<catalog, table, archive, run, look>>

Init ==
  /\ catalog \in SUBSET Listings /\ OnePerSlug(catalog)
  /\ table \in {{}, catalog}
  /\ archive = [s \in Slugs |-> [torn |-> FALSE, of |-> {}]]
  /\ page \in SUBSET Notes
  /\ moves = 0 /\ run = NoRun /\ look = NoLook /\ leading = {}

Next ==
  \/ ReadPage \/ ReadZone \/ IndexAssets \/ FetchLocal \/ FetchLive \/ Enrich
  \/ Explain \/ LookInTable \/ LookInArchive \/ LookInQuery \/ LookInBrowse
  \/ Relist \/ SaveDeals \/ SaveArchive \/ Write

Spec == Init /\ [][Next]_vars

------------------------------------------------------------------------------
(* Properties *)

\* Table, archive and page hold what can be put there, and a run judges every
\* deal once, put together from listings of that deal alone.
TypeOK ==
  /\ catalog \subseteq Listings /\ OnePerSlug(catalog)
  /\ table \subseteq Listings /\ OnePerSlug(table)
  /\ archive \in [Slugs -> [torn : BOOLEAN, of : SUBSET Listings]]
  /\ page \subseteq Notes /\ leading \subseteq page
  /\ moves \in 0..MaxMoves
  /\ run.told \in [DOMAIN Untold -> SUBSET {n.line : n \in Notes}]
  /\ OnePerSlug(run.deals) /\ Cardinality(look.deal) <= 1
  /\ \A d \in run.deals \cup look.deal : \A w \in d.of : w \in Listings /\ w.slug = d.slug

\* A veto that stood on the page from the start of a run, always within the window
\* of its list, keeps every deal it speaks of off the list of a run that found and
\* read all lists, wherever the deal came from, whatever was enriched under it, and
\* whatever was written above, below and elsewhere meanwhile: "Instant one-strike
\* veto" (CHANGELOG.md:12), of the lines that one request can bring.  The veto speaks
\* of the deals whose text has its line with blanks for hyphens.
DirectivesAreHeeded ==
  run.phase = "done" /\ run.heard =>
    \A n \in leading : n.zone = "blacklist" /\ n.line \notin Placeholders =>
      \A d \in Recommended : Lexicon[n.line].spaced \notin Text(d)

\* Listings of which the columns say what raw_json says.
Unambiguous(w) ==
  w.cat \in {Blank, w.tax} /\ (w.price = 0 <=> PlanPrice(w, w.price) = 0)

\* "audit_deal() and explain_deal() both deriving from the same single source of
\* truth" (CHANGELOG.md:106): of a deal seen as the same listing both say the
\* same, unless a veto speaks of it (explain reads none), its category or price
\* differs between columns and raw_json, or explain had only deal.json.
ExplainAgrees ==
  run.phase = "done" /\ look.phase = "done" /\ look.place \in {"table", "query", "browse"} =>
    \A d \in run.deals, e \in look.deal :
      /\ d.of = e.of
      /\ \A w \in d.of : Unambiguous(w)
      /\ \A line \in run.told["blacklist"] : ~Vetoed(d, line)
      => Verdict(d, run.told) = Verdict(e, Untold)

\* "Unresolved" is said only of a deal that was not stored when the lookup began
\* and was off the catalog at some time during it, or had as many others in front
\* of it as a query brings both times, or when an error was passed over.
MissMeansAbsent ==
  look.phase = "done" /\ ~look.errors /\ (\E d \in look.deal : d.unresolved) =>
    ~look.stored /\ (look.listed => look.crowded = 2)

\* "New assets are recorded (and count as purchased in the comparison)"
\* (docs/cadence/CAD-20261007-appsumo-weekly-buy-advisor.md:75): a run that has
\* read some goes on to its verdict.
DeclaredAssetsCount == run.phase # "crashed"

=============================================================================
