---------------------------- MODULE BuyAdviceProofs ----------------------------
(***************************************************************************)
(* Proofs about BuyAdvice for every catalog, lexicon and set of tables of  *)
(* the audit, any notes, any window of a list, any number of hits a query  *)
(* brings and any number of changes of the world.                          *)
(***************************************************************************)
EXTENDS BuyAdvice, ListLemmas

------------------------------------------------------------------------------
(* The chain of rules. *)

\* The first rule that hits decides; the last one always hits.
LEMMA FirstHitDecides ==
  ASSUME NEW d, NEW told
  PROVE  \E i \in 1..12 :
           /\ Rules(d, told)[i].hit
           /\ \A j \in 1..(i - 1) : ~Rules(d, told)[j].hit
           /\ Verdict(d, told) = Rules(d, told)[i].rule
<1> DEFINE rules == Rules(d, told)
           hits == {i \in 1..12 : rules[i].hit}
<1>1. Len(rules) = 12 /\ rules[12].hit
  BY DEF Rules
<1> HIDE DEF rules
<1>2. 12 \in hits /\ hits \subseteq Nat
  BY <1>1
<1>3. PICK i \in hits : \A j \in hits : i <= j
  BY <1>2, FirstPlace
<1>4. rules[i].hit /\ \A j \in 1..(i - 1) : ~rules[j].hit
  BY <1>3
<1>5. Verdict(d, told) =
        rules[CHOOSE k \in 1..12 : rules[k].hit /\ \A j \in 1..(k - 1) : ~rules[j].hit].rule
  BY <1>1 DEF Verdict, rules
<1>6. \A k \in 1..12 : rules[k].hit /\ (\A j \in 1..(k - 1) : ~rules[j].hit) => k = i
  BY <1>3, <1>4
<1>7. (CHOOSE k \in 1..12 : rules[k].hit /\ \A j \in 1..(k - 1) : ~rules[j].hit) = i
  BY <1>3, <1>4, <1>6
<1> QED BY <1>3, <1>4, <1>5, <1>7 DEF rules

\* The veto comes first, so that nothing recommended is vetoed.
LEMMA RecommendedIsNotVetoed ==
  ASSUME NEW d, NEW told, Verdict(d, told) = "recommended", NEW line \in told["blacklist"]
  PROVE  ~Vetoed(d, line)
<1>1. /\ Rules(d, told)[1].rule = "vetoed"
      /\ Rules(d, told)[1].hit <=> \E x \in told["blacklist"] : Vetoed(d, x)
  BY DEF Rules
<1>2. PICK i \in 1..12 : /\ \A j \in 1..(i - 1) : ~Rules(d, told)[j].hit
                         /\ Verdict(d, told) = Rules(d, told)[i].rule
  BY FirstHitDecides
<1>3. i # 1
  BY <1>1, <1>2
<1>4. ~Rules(d, told)[1].hit
  BY <1>2, <1>3
<1> QED BY <1>1, <1>4

\* What the rules look at, apart from the lines of the page.
Alike(d, e) ==
  /\ d.name = e.name /\ d.slug = e.slug /\ d.says = e.says /\ d.alt = e.alt
  /\ d.sub = e.sub /\ d.cat = e.cat /\ d.rating = e.rating /\ d.reviews = e.reviews
  /\ d.unresolved = e.unresolved /\ IsFree(d) = IsFree(e)

\* Deals alike are judged alike when no line of the page speaks of them.
LEMMA AlikeIsJudgedAlike ==
  ASSUME NEW d, NEW e, NEW told, Alike(d, e),
         \A line \in told["blacklist"] : ~Vetoed(d, line), told["new_assets"] = {}
  PROVE  Verdict(d, told) = Verdict(e, Untold)
<1>1. Untold["blacklist"] = {} /\ Untold["new_assets"] = {}
  <2>1. Zones[2] = "blacklist" /\ Zones[3] = "new_assets" /\ Len(Zones) = 3
    BY DEF Zones
  <2>2. "blacklist" \in {Zones[i] : i \in 1..Len(Zones)}
        /\ "new_assets" \in {Zones[i] : i \in 1..Len(Zones)}
    BY <2>1
  <2> QED BY <2>2 DEF Untold
<1>2. /\ (\E line \in told["blacklist"] : Vetoed(d, line)) = FALSE
      /\ (\E line \in Untold["blacklist"] : Vetoed(e, line)) = FALSE
      /\ (\E line \in told["new_assets"] : Declared(d, line)) = FALSE
      /\ (\E line \in Untold["new_assets"] : Declared(e, line)) = FALSE
  BY <1>1
<1>3. IsOwned(d) = IsOwned(e)
  BY DEF Alike, IsOwned, OwnedAs
<1>4. HasCompetitor(d) = HasCompetitor(e) /\ IsSaturated(d) = IsSaturated(e)
      /\ LacksReviews(d) = LacksReviews(e)
  BY DEF Alike, HasCompetitor, IsSaturated, LacksReviews
<1>5. Text(d) = Text(e)
  BY DEF Alike, Text
<1>6. IsCovered(d) = IsCovered(e) /\ IsNoSoftware(d) = IsNoSoftware(e)
      /\ IsOffStrategy(d) = IsOffStrategy(e)
  BY <1>5 DEF Alike, IsCovered, IsNoSoftware, IsOffStrategy
<1>7. Rules(d, told) = Rules(e, Untold)
  BY <1>2, <1>3, <1>4, <1>6 DEF Rules, Alike
<1> QED BY <1>7 DEF Verdict

------------------------------------------------------------------------------
(* The forms of a deal. *)

LEMMA ColumnsIs ==
  ASSUME NEW w
  PROVE  LET c == Columns(w) IN
         /\ c.name = w.name /\ c.slug = w.slug /\ c.says = w.says /\ c.alt = w.alt
         /\ c.sub = w.sub /\ c.cat = w.tax /\ c.price = w.price /\ c.free = w.free
         /\ c.rating = w.rating /\ c.reviews = w.reviews
         /\ c.unresolved = FALSE /\ c.of = {w}
         /\ DOMAIN c = {"name", "slug", "says", "alt", "sub", "cat", "price", "free", "rating",
                        "reviews", "unresolved", "of"}
BY DEF Columns

LEMMA RawIs ==
  ASSUME NEW w
  PROVE  LET c == Columns(w)
             r == Raw(w)
         IN
         /\ r.name = c.name /\ r.slug = c.slug /\ r.says = c.says /\ r.alt = c.alt
         /\ r.sub = c.sub /\ r.free = c.free /\ r.rating = c.rating /\ r.reviews = c.reviews
         /\ r.unresolved = FALSE /\ r.of = {w}
         /\ r.price = PlanPrice(w, w.price)
         /\ r.cat = (IF w.cat # Blank THEN w.cat ELSE w.tax)
<1> DEFINE c == Columns(w)
<1>1. DOMAIN c = {"name", "slug", "says", "alt", "sub", "cat", "price", "free", "rating",
                  "reviews", "unresolved", "of"}
      /\ c.unresolved = FALSE /\ c.of = {w}
  BY ColumnsIs
<1>2. Raw(w) = [c EXCEPT !.price = PlanPrice(w, w.price),
                         !.cat = IF w.cat # Blank THEN w.cat ELSE w.tax]
  BY DEF Raw
<1> HIDE DEF c
<1> QED BY <1>1, <1>2 DEF c

LEMMA ScrapedIs ==
  ASSUME NEW w
  PROVE  Scraped(w).slug = w.slug /\ Scraped(w).unresolved = FALSE /\ Scraped(w).of = {w}
<1> DEFINE c == Columns(w)
<1>1. DOMAIN c = {"name", "slug", "says", "alt", "sub", "cat", "price", "free", "rating",
                  "reviews", "unresolved", "of"}
      /\ c.slug = w.slug /\ c.unresolved = FALSE /\ c.of = {w}
  BY ColumnsIs
<1>2. Scraped(w) = [c EXCEPT !.says = {}, !.alt = {}, !.sub = Blank, !.cat = Blank,
                             !.free = FALSE, !.price = PlanPrice(w, 0)]
  BY DEF Scraped
<1> HIDE DEF c
<1> QED BY <1>1, <1>2

LEMMA PlanPriceIs ==
  ASSUME NEW w \in Listings
  PROVE  PlanPrice(w, w.price) \in Nat
<1>1. w.price \in Nat /\ w.plans \in Seq(Nat)
  BY ListingAssumption
<1>2. ASSUME w.plans # <<>> PROVE Head(w.plans) \in Nat
  BY <1>1, <1>2
<1> QED BY <1>1, <1>2 DEF PlanPrice

\* An enriched deal is the deal it was, with what its row knows better.
BetterKnown(x, c, r) ==
  /\ x.name = c.name /\ x.slug = c.slug /\ x.unresolved = FALSE /\ x.of = c.of \cup r.of
  /\ x.says = (IF r.says # {} THEN r.says ELSE c.says)
  /\ x.alt = (IF r.alt # {} THEN r.alt ELSE c.alt)
  /\ x.sub = (IF r.sub # Blank THEN r.sub ELSE c.sub)
  /\ x.cat = (IF r.cat # Blank THEN r.cat ELSE c.cat)
  /\ x.price = (IF c.price # 0 THEN c.price ELSE r.price)
  /\ x.rating = (IF c.rating # 0 THEN c.rating ELSE r.rating)
  /\ x.reviews = (IF c.reviews # 0 THEN c.reviews ELSE r.reviews)
  /\ x.free = (c.free \/ r.free)

LEMMA EnrichedIs ==
  ASSUME NEW v, NEW w
  PROVE  BetterKnown(Enriched(Columns(v), w), Columns(v), Raw(w))
<1> DEFINE c == Columns(v)
           r == Raw(w)
<1>1. DOMAIN c = {"name", "slug", "says", "alt", "sub", "cat", "price", "free", "rating",
                  "reviews", "unresolved", "of"}
      /\ c.unresolved = FALSE /\ c.of = {v}
  BY ColumnsIs
<1>2. Enriched(c, w) =
        [c EXCEPT !.says = IF r.says # {} THEN r.says ELSE c.says,
                  !.alt = IF r.alt # {} THEN r.alt ELSE c.alt,
                  !.sub = IF r.sub # Blank THEN r.sub ELSE c.sub,
                  !.cat = IF r.cat # Blank THEN r.cat ELSE c.cat,
                  !.price = IF c.price # 0 THEN c.price ELSE r.price,
                  !.rating = IF c.rating # 0 THEN c.rating ELSE r.rating,
                  !.reviews = IF c.reviews # 0 THEN c.reviews ELSE r.reviews,
                  !.free = c.free \/ r.free,
                  !.of = c.of \cup {w}]
  BY DEF Enriched
<1>3. r.of = {w}
  BY RawIs
<1> HIDE DEF c, r
<1>4. BetterKnown(Enriched(c, w), c, r)
  BY <1>1, <1>2, <1>3 DEF BetterKnown
<1> QED BY <1>4 DEF c, r

\* Of a listing whose columns say what its raw_json says, the three forms that a
\* run and an explain compare differ in the price at most, and never between
\* free and paid.
LEMMA FormsAreAlike ==
  ASSUME NEW w \in Listings, Unambiguous(w)
  PROVE  /\ Alike(Columns(w), Columns(w)) /\ Alike(Columns(w), Raw(w))
         /\ Alike(Enriched(Columns(w), w), Columns(w))
         /\ Alike(Enriched(Columns(w), w), Raw(w))
<1> DEFINE c == Columns(w)
           r == Raw(w)
           x == Enriched(c, w)
<1>0. BetterKnown(x, c, r)
  BY EnrichedIs
<1> DEFINE plan == PlanPrice(w, w.price)
<1>1. w.price \in Nat /\ plan \in Nat /\ w.free \in BOOLEAN
  BY ListingAssumption, PlanPriceIs
<1>2. w.cat \in {Blank, w.tax} /\ (w.price = 0 <=> plan = 0)
  BY DEF Unambiguous
<1>3. r.cat = c.cat
  <2>1. c.cat = w.tax
    BY ColumnsIs
  <2>2. r.cat = IF w.cat # Blank THEN w.cat ELSE w.tax
    BY RawIs
  <2> HIDE DEF c, r
  <2> QED BY <1>2, <2>1, <2>2
<1>4. /\ c.price \in Nat /\ r.price \in Nat /\ x.price \in Nat
      /\ c.price <= 0 <=> r.price <= 0
      /\ c.price <= 0 <=> x.price <= 0
  <2>1. c.price = w.price
    BY ColumnsIs
  <2>2. r.price = plan
    BY RawIs
  <2>3. x.price = IF c.price # 0 THEN c.price ELSE r.price
    BY <1>0 DEF BetterKnown
  <2> HIDE DEF c, r, x, plan
  <2> QED BY <1>1, <1>2, <2>1, <2>2, <2>3
<1>5. c.free \in BOOLEAN /\ r.free = c.free /\ x.free = c.free
  <2>1. c.free = w.free
    BY ColumnsIs
  <2>2. r.free = c.free
    BY RawIs
  <2> HIDE DEF c, r, x
  <2> QED BY <1>0, <1>1, <2>1, <2>2 DEF BetterKnown
<1>6. c.unresolved = FALSE /\ r.unresolved = FALSE /\ x.unresolved = FALSE
  <2>1. c.unresolved = FALSE
    BY ColumnsIs
  <2>2. r.unresolved = FALSE
    BY RawIs
  <2> HIDE DEF c, r, x
  <2> QED BY <1>0, <2>1, <2>2 DEF BetterKnown
<1>7. IsFree(c) = IsFree(r) /\ IsFree(c) = IsFree(x)
  <2> HIDE DEF c, r, x
  <2> QED BY <1>4, <1>5, <1>6 DEF IsFree
<1>8. /\ r.name = c.name /\ r.slug = c.slug /\ r.says = c.says /\ r.alt = c.alt
      /\ r.sub = c.sub /\ r.rating = c.rating /\ r.reviews = c.reviews
  BY RawIs
<1>9. /\ x.name = c.name /\ x.slug = c.slug
      /\ x.says = (IF r.says # {} THEN r.says ELSE c.says)
      /\ x.alt = (IF r.alt # {} THEN r.alt ELSE c.alt)
      /\ x.sub = (IF r.sub # Blank THEN r.sub ELSE c.sub)
      /\ x.cat = (IF r.cat # Blank THEN r.cat ELSE c.cat)
      /\ x.rating = (IF c.rating # 0 THEN c.rating ELSE r.rating)
      /\ x.reviews = (IF c.reviews # 0 THEN c.reviews ELSE r.reviews)
  BY <1>0 DEF BetterKnown
<1> HIDE DEF c, r, x
<1>10. /\ x.says = c.says /\ x.alt = c.alt /\ x.sub = c.sub /\ x.cat = c.cat
       /\ x.rating = c.rating /\ x.reviews = c.reviews
  BY <1>3, <1>8, <1>9
<1>11. Alike(c, c) /\ Alike(c, r) /\ Alike(x, c) /\ Alike(x, r)
  BY <1>3, <1>6, <1>7, <1>8, <1>9, <1>10 DEF Alike
<1> QED BY <1>11 DEF c, r, x

------------------------------------------------------------------------------
(* The inductive invariant. *)

Lines == {n.line : n \in Notes}

\* What a run judges: a listing, enriched with a row of the same deal or bare.
RunDeals ==
  UNION {{Columns(v)} \cup {Enriched(Columns(v), w) : w \in RowsOf(v.slug, Listings)} :
         v \in Listings}

Runs ==
  [phase : {"idle", "reading", "assets", "crashed", "listing", "live", "enriching", "done"},
   ideal : BOOLEAN, zone : 1..4, told : [DOMAIN Untold -> SUBSET Lines], heard : BOOLEAN,
   deals : SUBSET RunDeals]

LookDeals ==
  (UNION {{Columns(w), Raw(w), Scraped(w)} : w \in Listings})
    \cup {Unresolved(slug) : slug \in Slugs}

Looks ==
  [phase : {"idle", "table", "archive", "query", "browse", "done"}, slug : Slugs \cup {Blank},
   errors : BOOLEAN, crowded : Nat, listed : BOOLEAN, stored : BOOLEAN,
   deal : SUBSET LookDeals, place : {"nowhere", "table", "archive", "query", "browse"}]

WorldInv ==
  /\ catalog \subseteq Listings /\ OnePerSlug(catalog)
  /\ table \subseteq Listings /\ OnePerSlug(table)
  /\ archive \in [Slugs -> [torn : BOOLEAN, of : SUBSET Listings]]
  /\ page \subseteq Notes /\ leading \subseteq page /\ moves \in 0..MaxMoves
  /\ leading \subseteq Legible

\* Every veto that led its list throughout is among the lines told, once the list
\* of vetoes has been read; a run that was answered throughout has read all lists; and no run gets
\* past a declared asset.
Told ==
  /\ run.phase = "reading" => run.zone <= 3
  /\ run.heard /\ run.phase \notin {"idle", "reading"} => run.zone = 4
  /\ run.heard /\ run.zone > 2 =>
       \A n \in leading : n.zone = "blacklist" /\ n.line \notin Placeholders =>
         n.line \in run.told["blacklist"]
  /\ run.phase \in {"listing", "live", "enriching", "done"} => run.told["new_assets"] = {}

Judged ==
  /\ run.phase = "enriching" => run.deals \subseteq {Columns(w) : w \in Listings}
  /\ OnePerSlug(run.deals)

\* A deal that is on the catalog or in the table, and stayed there, is not in
\* either only if a place was passed over for an error or for others.
Missed ==
  /\ look.listed => RowsOf(look.slug, catalog) # {}
  /\ look.stored => RowsOf(look.slug, table) # {}
  /\ look.phase \in {"archive", "query", "browse"} /\ ~look.errors => ~look.stored
  /\ look.phase \in {"table", "archive", "query"} => look.crowded = 0
  /\ look.phase = "browse" /\ ~look.errors /\ look.listed => look.crowded = 1
  /\ MissMeansAbsent

Seen ==
  /\ look.phase # "idle" => look.slug \in Slugs
  /\ look.phase # "done" => look.place = "nowhere"
  /\ look.deal = {} \/ \E e \in LookDeals : look.deal = {e}
  /\ look.place \in {"table", "query", "browse"} =>
       \A e \in look.deal : \E w \in Listings : e \in {Columns(w), Raw(w)}

RunInv == run \in Runs /\ Told /\ Judged
LookInv == look \in Looks /\ Missed /\ Seen
IndInv == WorldInv /\ RunInv /\ LookInv

------------------------------------------------------------------------------
(* Helpers. *)

LEMMA ZonesAre ==
  /\ Len(Zones) = 3 /\ Zones[1] = "wishlist" /\ Zones[2] = "blacklist"
  /\ Zones[3] = "new_assets"
  /\ DOMAIN Untold = {"wishlist", "blacklist", "new_assets"}
  /\ Untold \in [DOMAIN Untold -> SUBSET Lines]
<1>1. Len(Zones) = 3 /\ Zones[1] = "wishlist" /\ Zones[2] = "blacklist"
      /\ Zones[3] = "new_assets"
  BY DEF Zones
<1>2. {Zones[i] : i \in 1..Len(Zones)} = {"wishlist", "blacklist", "new_assets"}
  <2>1. \A i : i \in 1..3 <=> i = 1 \/ i = 2 \/ i = 3
    OBVIOUS
  <2> QED BY <1>1, <2>1
<1> QED BY <1>1, <1>2 DEF Untold

LEMMA RunDealIs ==
  ASSUME NEW d \in RunDeals
  PROVE  \E v, w \in Listings :
           /\ v.slug = w.slug /\ d.slug = v.slug
           /\ \/ d = Columns(v) /\ d.of = {v}
              \/ d = Enriched(Columns(v), w) /\ d.of = {v, w}
<1>1. PICK v \in Listings :
        d \in {Columns(v)} \cup {Enriched(Columns(v), w) : w \in RowsOf(v.slug, Listings)}
  BY DEF RunDeals
<1>2. CASE d = Columns(v)
  <2>1. d.slug = v.slug /\ d.of = {v}
    BY <1>2, ColumnsIs
  <2> QED BY <1>2, <2>1
<1>3. CASE d \in {Enriched(Columns(v), w) : w \in RowsOf(v.slug, Listings)}
  <2>1. PICK w \in Listings : w.slug = v.slug /\ d = Enriched(Columns(v), w)
    BY <1>3 DEF RowsOf
  <2>2. d.slug = Columns(v).slug /\ d.of = Columns(v).of \cup Raw(w).of
    BY <2>1, EnrichedIs DEF BetterKnown
  <2>3. Columns(v).slug = v.slug /\ Columns(v).of = {v}
    BY ColumnsIs
  <2>4. Raw(w).of = {w}
    BY RawIs
  <2>5. d.slug = v.slug /\ d.of = {v, w}
    BY <2>2, <2>3, <2>4
  <2> QED BY <2>1, <2>5
<1> QED BY <1>1, <1>2, <1>3

LEMMA LookDealIs ==
  ASSUME NEW e \in LookDeals
  PROVE  /\ \/ e.of = {}
            \/ \E w \in Listings : e \in {Columns(w), Raw(w), Scraped(w)} /\ e.of = {w}
         /\ \A w \in e.of : w \in Listings /\ w.slug = e.slug
<1>1. CASE \E w \in Listings : e \in {Columns(w), Raw(w), Scraped(w)}
  <2>1. PICK w \in Listings : e \in {Columns(w), Raw(w), Scraped(w)}
    BY <1>1
  <2>2. Columns(w).of = {w} /\ Columns(w).slug = w.slug
    BY ColumnsIs
  <2>3. Raw(w).of = {w} /\ Raw(w).slug = Columns(w).slug
    BY RawIs
  <2>4. Scraped(w).of = {w} /\ Scraped(w).slug = w.slug
    BY ScrapedIs
  <2>5. e.of = {w} /\ e.slug = w.slug
    BY <2>1, <2>2, <2>3, <2>4
  <2> QED BY <2>1, <2>5
<1>2. CASE e \in {Unresolved(slug) : slug \in Slugs}
  <2>1. e.of = {}
    BY <1>2 DEF Unresolved
  <2> QED BY <2>1
<1>3. \/ \E w \in Listings : e \in {Columns(w), Raw(w), Scraped(w)}
      \/ e \in {Unresolved(slug) : slug \in Slugs}
  BY DEF LookDeals
<1> QED BY <1>1, <1>2, <1>3

\* Only a placeholder is called unresolved.
LEMMA FoundIsResolved ==
  ASSUME NEW w, NEW e \in {Columns(w), Raw(w), Scraped(w)}
  PROVE  e.unresolved = FALSE
<1>1. Columns(w).unresolved = FALSE
  BY ColumnsIs
<1>2. Raw(w).unresolved = FALSE
  BY RawIs
<1>3. Scraped(w).unresolved = FALSE
  BY ScrapedIs
<1> QED BY <1>1, <1>2, <1>3

LEMMA SlugsAre == \A w \in Listings : w.slug \in Slugs
BY DEF Slugs

------------------------------------------------------------------------------
(* The initial state. *)

LEMMA NoRunIs ==
  /\ NoRun \in Runs /\ NoRun.phase = "idle" /\ NoRun.zone = 1 /\ NoRun.deals = {}
  /\ NoRun.told = Untold /\ NoRun.heard = TRUE
BY ZonesAre DEF NoRun, Runs

LEMMA InitInv == Init => IndInv
<1> SUFFICES ASSUME Init PROVE IndInv
  OBVIOUS
<1>1. WorldInv
  <2>1. archive \in [Slugs -> [torn : BOOLEAN, of : SUBSET Listings]]
    BY DEF Init
  <2>2. table \subseteq Listings /\ OnePerSlug(table) /\ catalog \subseteq Listings
    BY DEF Init, OnePerSlug
  <2>3. moves \in 0..MaxMoves
    BY AdviceBounds DEF Init
  <2> QED BY <2>1, <2>2, <2>3 DEF WorldInv, Init
<1>2. RunInv
  <2>1. run = NoRun
    BY DEF Init
  <2>2. Told
    BY <2>1, NoRunIs DEF Told
  <2>3. Judged
    BY <2>1, NoRunIs DEF Judged, OnePerSlug
  <2> QED BY <2>1, <2>2, <2>3, NoRunIs DEF RunInv
<1>3. LookInv
  <2>1. look = NoLook
    BY DEF Init
  <2>2. /\ look \in Looks /\ look.phase = "idle" /\ look.listed = FALSE
        /\ look.stored = FALSE /\ look.deal = {} /\ look.place = "nowhere"
    BY <2>1 DEF NoLook, Looks
  <2> QED BY <2>2 DEF LookInv, Missed, Seen, MissMeansAbsent
<1> QED BY <1>1, <1>2, <1>3 DEF IndInv

------------------------------------------------------------------------------
(* A run. *)

LEMMA RunTypes ==
  ASSUME NEW r \in Runs
  PROVE  /\ r.phase \in {"idle", "reading", "assets", "crashed", "listing", "live",
                         "enriching", "done"}
         /\ r.ideal \in BOOLEAN /\ r.zone \in 1..4 /\ r.heard \in BOOLEAN
         /\ r.told \in [DOMAIN Untold -> SUBSET Lines] /\ r.deals \subseteq RunDeals
BY DEF Runs

LEMMA ReadPageKeeps == RunInv /\ ReadPage => RunInv'
<1> SUFFICES ASSUME RunInv, ReadPage PROVE RunInv'
  OBVIOUS
<1>1. PICK ideal \in BOOLEAN, heard \in BOOLEAN :
        run' = [NoRun EXCEPT !.phase = IF heard THEN "reading" ELSE "assets",
                             !.ideal = ideal, !.heard = heard]
  BY DEF ReadPage
<1>2. /\ run' \in Runs /\ run'.phase = (IF heard THEN "reading" ELSE "assets")
      /\ run'.heard = heard /\ run'.zone = 1 /\ run'.deals = {}
  BY <1>1, NoRunIs DEF Runs
<1>3. Told'
  BY <1>2 DEF Told
<1>4. Judged'
  BY <1>2 DEF Judged, OnePerSlug
<1> QED BY <1>2, <1>3, <1>4 DEF RunInv

LEMMA ReadZoneKeeps == WorldInv /\ RunInv /\ ReadZone => RunInv'
<1> SUFFICES ASSUME WorldInv, RunInv, ReadZone PROVE RunInv'
  OBVIOUS
<1> DEFINE next == IF run.zone < 3 THEN "reading" ELSE "assets"
           zone == Zones[run.zone]
<1>1. run \in Runs /\ run.phase = "reading" /\ run.zone \in 1..3 /\ leading' = leading
  BY RunTypes DEF RunInv, ReadZone, Told, worldVars
<1>2. zone \in DOMAIN Untold /\ (run.zone = 2 <=> zone = "blacklist")
  BY <1>1, ZonesAre
<1>3. Written(zone) \in SUBSET Lines
  BY DEF Written, Legible, Lines, WorldInv
<1>4. \/ run' = [run EXCEPT !.told[zone] = Written(zone), !.zone = run.zone + 1, !.phase = next]
      \/ run' = [run EXCEPT !.heard = FALSE, !.zone = run.zone + 1, !.phase = next]
      \/ run' = [run EXCEPT !.heard = FALSE, !.phase = "assets"]
  BY ZonesAre DEF ReadZone
<1>9. next \in {"reading", "assets"} /\ (next = "reading" <=> run.zone < 3)
      /\ run.zone + 1 \in 1..4
  BY <1>1
<1> HIDE DEF zone, next
<1>5. Judged'
  <2>1. run'.deals = run.deals /\ run'.phase \in {"reading", "assets"}
    BY <1>1, <1>4, <1>9 DEF Runs
  <2> QED BY <2>1 DEF RunInv, Judged, OnePerSlug
<1>6. CASE run' = [run EXCEPT !.told[zone] = Written(zone), !.zone = run.zone + 1, !.phase = next]
  <2>1. [run.told EXCEPT ![zone] = Written(zone)] \in [DOMAIN Untold -> SUBSET Lines]
    BY <1>1, <1>2, <1>3, RunTypes
  <2>2. /\ run' \in Runs /\ run'.zone = run.zone + 1 /\ run'.phase = next
        /\ run'.heard = run.heard /\ run'.told = [run.told EXCEPT ![zone] = Written(zone)]
    BY <1>1, <1>6, <1>9, <2>1 DEF Runs
  <2>3. ASSUME run'.heard, run'.zone > 2, NEW n \in leading', n.zone = "blacklist",
               n.line \notin Placeholders
        PROVE  n.line \in run'.told["blacklist"]
    <3>0. n \in leading /\ n \in Legible /\ run.told \in [DOMAIN Untold -> SUBSET Lines]
          /\ "blacklist" \in DOMAIN Untold
      BY <1>1, <2>3, RunTypes, ZonesAre DEF WorldInv
    <3>1. CASE run.zone = 2
      <4>1. run'.told["blacklist"] = Written("blacklist")
        BY <1>2, <2>2, <3>0, <3>1
      <4> QED BY <2>3, <3>0, <4>1 DEF Written
    <3>2. CASE run.zone = 3
      <4>1. run'.told["blacklist"] = run.told["blacklist"]
        BY <1>2, <2>2, <3>0, <3>2
      <4>2. run.heard /\ run.zone > 2
        BY <2>2, <2>3, <3>2
      <4> QED BY <2>3, <3>0, <4>1, <4>2 DEF RunInv, Told
    <3> QED BY <1>1, <2>2, <2>3, <3>1, <3>2
  <2>4. Told'
    BY <1>1, <1>9, <2>2, <2>3 DEF Told
  <2> QED BY <1>5, <2>2, <2>4 DEF RunInv
<1>7. CASE run' = [run EXCEPT !.heard = FALSE, !.zone = run.zone + 1, !.phase = next]
  <2>1. /\ run' \in Runs /\ run'.heard = FALSE /\ run'.zone = run.zone + 1
        /\ run'.phase = next
    BY <1>1, <1>7, <1>9 DEF Runs
  <2>2. Told'
    BY <1>1, <1>9, <2>1 DEF Told
  <2> QED BY <1>5, <2>1, <2>2 DEF RunInv
<1>8. CASE run' = [run EXCEPT !.heard = FALSE, !.phase = "assets"]
  <2>1. run' \in Runs /\ run'.heard = FALSE /\ run'.phase = "assets"
    BY <1>1, <1>8 DEF Runs
  <2>2. Told'
    BY <2>1 DEF Told
  <2> QED BY <1>5, <2>1, <2>2 DEF RunInv
<1> QED BY <1>4, <1>6, <1>7, <1>8

\* The later steps of a run go on with what was told.
LEMMA GoesOnTold ==
  ASSUME RunInv, leading' = leading, run.phase \notin {"idle", "reading"},
         run'.heard = run.heard, run'.zone = run.zone, run'.told = run.told,
         \/ run'.phase = "crashed"
         \/ /\ run'.phase \in {"listing", "live", "enriching", "done"}
            /\ run.told["new_assets"] = {}
  PROVE  Told'
BY DEF RunInv, Told

LEMMA IndexAssetsKeeps == RunInv /\ IndexAssets => RunInv'
<1> SUFFICES ASSUME RunInv, IndexAssets PROVE RunInv'
  OBVIOUS
<1>1. run \in Runs /\ run.phase = "assets" /\ leading' = leading
  BY DEF RunInv, IndexAssets, worldVars
<1>2. PICK phase \in {"crashed", "listing"} :
        /\ phase = "listing" => run.told["new_assets"] = {}
        /\ run' = [run EXCEPT !.phase = phase]
  BY DEF IndexAssets
<1>3. /\ run' \in Runs /\ run'.phase = phase /\ run'.heard = run.heard
      /\ run'.zone = run.zone /\ run'.told = run.told /\ run'.deals = run.deals
  BY <1>1, <1>2 DEF Runs
<1>4. Told'
  BY <1>1, <1>2, <1>3, GoesOnTold
<1>5. Judged'
  BY <1>2, <1>3 DEF RunInv, Judged, OnePerSlug
<1> QED BY <1>3, <1>4, <1>5 DEF RunInv

\* The candidates of a list without duplicates are deals without duplicates.
LEMMA ListedOnce ==
  ASSUME NEW rows, rows \subseteq Listings, OnePerSlug(rows)
  PROVE  LET deals == {Columns(w) : w \in rows} IN
         /\ deals \subseteq RunDeals /\ deals \subseteq {Columns(w) : w \in Listings}
         /\ OnePerSlug(deals)
<1> DEFINE deals == {Columns(w) : w \in rows}
<1>1. ASSUME NEW d \in deals PROVE d \in RunDeals /\ d \in {Columns(w) : w \in Listings}
  <2>1. PICK w \in Listings : d = Columns(w)
    BY <1>1
  <2>2. d \in {Columns(w)} \cup {Enriched(Columns(w), x) : x \in RowsOf(w.slug, Listings)}
    BY <2>1
  <2> QED BY <2>1, <2>2, Zenon DEF RunDeals
<1>2. ASSUME NEW d \in deals, NEW e \in deals, d.slug = e.slug PROVE d = e
  <2>1. PICK v \in rows : d = Columns(v)
    OBVIOUS
  <2>2. PICK w \in rows : e = Columns(w)
    OBVIOUS
  <2>3. d.slug = v.slug /\ e.slug = w.slug
    BY <2>1, <2>2, ColumnsIs
  <2> QED BY <1>2, <2>1, <2>2, <2>3 DEF OnePerSlug
<1>3. deals \subseteq RunDeals /\ deals \subseteq {Columns(w) : w \in Listings}
  BY <1>1
<1>4. OnePerSlug(deals)
  BY <1>2 DEF OnePerSlug
<1> QED BY <1>3, <1>4

LEMMA CandidatesAre ==
  ASSUME NEW rows
  PROVE  Candidates(rows) \subseteq rows
BY DEF Candidates, IdealDealsQuery, ListDealsQuery

LEMMA FetchKeeps ==
  ASSUME RunInv, NEW phase \in {"live", "enriching", "done"}, NEW rows, leading' = leading,
         rows \subseteq Listings, OnePerSlug(rows), run.phase \in {"listing", "live"},
         run' = [run EXCEPT !.phase = phase, !.deals = {Columns(w) : w \in rows}]
  PROVE  RunInv'
<1> DEFINE deals == {Columns(w) : w \in rows}
<1>1. deals \subseteq RunDeals /\ deals \subseteq {Columns(w) : w \in Listings}
      /\ OnePerSlug(deals)
  BY ListedOnce
<1>2. run \in Runs /\ run.told["new_assets"] = {}
  BY DEF RunInv, Told
<1>3. run' = [run EXCEPT !.phase = phase, !.deals = deals]
  OBVIOUS
<1> HIDE DEF deals
<1>4. /\ run' \in Runs /\ run'.phase = phase /\ run'.heard = run.heard
      /\ run'.zone = run.zone /\ run'.told = run.told /\ run'.deals = deals
  BY <1>1, <1>2, <1>3 DEF Runs
<1>5. Told'
  BY <1>2, <1>4, GoesOnTold
<1>6. Judged'
  BY <1>1, <1>4 DEF Judged, OnePerSlug
<1> QED BY <1>4, <1>5, <1>6 DEF RunInv

LEMMA FetchLocalKeeps == WorldInv /\ RunInv /\ FetchLocal => RunInv'
<1> SUFFICES ASSUME WorldInv, RunInv, FetchLocal PROVE RunInv'
  OBVIOUS
<1>1. run \in Runs /\ run.phase = "listing" /\ leading' = leading
  BY DEF RunInv, FetchLocal, worldVars
<1>2. CASE run' = [run EXCEPT !.phase = "live"]
  <2>1. /\ run' \in Runs /\ run'.phase = "live" /\ run'.heard = run.heard
        /\ run'.zone = run.zone /\ run'.told = run.told /\ run'.deals = run.deals
    BY <1>1, <1>2 DEF Runs
  <2>2. Told'
    BY <1>1, <2>1, GoesOnTold DEF RunInv, Told
  <2>3. Judged'
    BY <2>1 DEF RunInv, Judged, OnePerSlug
  <2> QED BY <2>1, <2>2, <2>3 DEF RunInv
<1>3. CASE run' = [run EXCEPT !.phase = "enriching",
                              !.deals = {Columns(w) : w \in Candidates(table)}]
  <2>1. Candidates(table) \subseteq Listings /\ OnePerSlug(Candidates(table))
    BY CandidatesAre DEF WorldInv, OnePerSlug
  <2> QED BY <1>1, <1>3, <2>1, FetchKeeps
<1> QED BY <1>2, <1>3 DEF FetchLocal

LEMMA FetchLiveKeeps == WorldInv /\ RunInv /\ FetchLive => RunInv'
<1> SUFFICES ASSUME WorldInv, RunInv, FetchLive PROVE RunInv'
  OBVIOUS
<1>1. run \in Runs /\ run.phase = "live" /\ leading' = leading
  BY DEF RunInv, FetchLive, worldVars
<1>2. PICK got \in SUBSET Candidates(catalog) :
        run' = [run EXCEPT !.phase = IF got = {} THEN "done" ELSE "enriching",
                           !.deals = {Columns(w) : w \in got}]
  BY DEF FetchLive
<1>3. PICK phase \in {"enriching", "done"} :
        run' = [run EXCEPT !.phase = phase, !.deals = {Columns(w) : w \in got}]
  BY <1>2
<1>4. got \subseteq Listings /\ OnePerSlug(got)
  BY CandidatesAre DEF WorldInv, OnePerSlug
<1> QED BY <1>1, <1>3, <1>4, FetchKeeps

\* Enriching a deal leaves one deal, of the same slug.
LEMMA EnrichedSetIs ==
  ASSUME WorldInv, NEW v \in Listings
  PROVE  \E x \in RunDeals : x.slug = v.slug /\ EnrichedSet(Columns(v)) = {x}
<1> DEFINE rows == RowsOf(v.slug, table)
           forms == {Columns(v)} \cup {Enriched(Columns(v), w) : w \in RowsOf(v.slug, Listings)}
<1>1. Columns(v).slug = v.slug
  BY ColumnsIs
<1>2. forms \subseteq RunDeals
  BY Zenon DEF RunDeals
<1>3. CASE rows = {}
  <2>1. EnrichedSet(Columns(v)) = {Columns(v)} /\ Columns(v) \in RunDeals
    BY <1>1, <1>2, <1>3 DEF EnrichedSet
  <2> QED BY <1>1, <2>1
<1>4. CASE rows # {}
  <2>1. PICK w \in rows : TRUE
    BY <1>4
  <2>2. w \in table /\ w.slug = v.slug /\ rows = {w}
    BY <2>1 DEF RowsOf, WorldInv, OnePerSlug
  <2>3. EnrichedSet(Columns(v)) = {Enriched(Columns(v), w)}
    BY <1>1, <2>2 DEF EnrichedSet
  <2>4. Enriched(Columns(v), w) \in RunDeals
    BY <1>2, <2>2 DEF WorldInv, RowsOf
  <2>5. Enriched(Columns(v), w).slug = v.slug
    BY <1>1, EnrichedIs DEF BetterKnown
  <2> QED BY <2>3, <2>4, <2>5
<1> QED BY <1>3, <1>4

LEMMA EnrichKeeps == WorldInv /\ RunInv /\ Enrich => RunInv'
<1> SUFFICES ASSUME WorldInv, RunInv, Enrich PROVE RunInv'
  OBVIOUS
<1>1. run \in Runs /\ run.phase = "enriching" /\ leading' = leading
      /\ run.told["new_assets"] = {}
  BY DEF RunInv, Told, Enrich, worldVars
<1>2. PICK some \in SUBSET run.deals :
        run' = [run EXCEPT !.phase = "done",
                  !.deals = (run.deals \ some) \cup UNION {EnrichedSet(d) : d \in some}]
  BY DEF Enrich
<1> DEFINE deals == (run.deals \ some) \cup UNION {EnrichedSet(d) : d \in some}
\* each new deal comes from one of the old ones, of the same slug
<1>3. \A d \in run.deals : \E x \in RunDeals : x.slug = d.slug /\ EnrichedSet(d) = {x}
  <2>1. ASSUME NEW d \in run.deals PROVE \E v \in Listings : d = Columns(v) /\ d.slug = v.slug
    <3>1. PICK v \in Listings : d = Columns(v)
      BY <1>1 DEF RunInv, Judged
    <3>2. d.slug = v.slug
      BY <3>1, ColumnsIs
    <3> QED BY <3>1, <3>2
  <2> QED BY <2>1, EnrichedSetIs
<1>4. ASSUME NEW x \in deals
      PROVE  x \in RunDeals /\ \E d \in run.deals :
               x.slug = d.slug /\ (d \in some => EnrichedSet(d) = {x})
                               /\ (d \notin some => x = d)
  <2>1. CASE x \in run.deals \ some
    BY <1>1, <2>1, RunTypes
  <2>2. CASE x \in UNION {EnrichedSet(d) : d \in some}
    <3>1. PICK d \in some : x \in EnrichedSet(d)
      BY <2>2
    <3>2. PICK y \in RunDeals : y.slug = d.slug /\ EnrichedSet(d) = {y}
      BY <1>3
    <3> QED BY <3>1, <3>2
  <2> QED BY <2>1, <2>2
<1>5. OnePerSlug(run.deals)
  BY DEF RunInv, Judged
<1>6. ASSUME NEW x \in deals, NEW y \in deals, x.slug = y.slug PROVE x = y
  <2>1. PICK d \in run.deals : x.slug = d.slug /\ (d \in some => EnrichedSet(d) = {x})
                               /\ (d \notin some => x = d)
    BY <1>4
  <2>2. PICK e \in run.deals : y.slug = e.slug /\ (e \in some => EnrichedSet(e) = {y})
                               /\ (e \notin some => y = e)
    BY <1>4
  <2>3. d = e
    BY <1>5, <1>6, <2>1, <2>2 DEF OnePerSlug
  <2>4. CASE d \in some
    BY <2>1, <2>2, <2>3, <2>4
  <2>5. CASE d \notin some
    BY <2>1, <2>2, <2>3, <2>5
  <2> QED BY <2>4, <2>5
<1>7. deals \subseteq RunDeals /\ run' = [run EXCEPT !.phase = "done", !.deals = deals]
  BY <1>2, <1>4
<1> HIDE DEF deals
<1>8. /\ run' \in Runs /\ run'.phase = "done" /\ run'.heard = run.heard
      /\ run'.zone = run.zone /\ run'.told = run.told /\ run'.deals = deals
  BY <1>1, <1>7 DEF Runs
<1>9. Told'
  BY <1>1, <1>8, GoesOnTold
<1>10. Judged'
  BY <1>6, <1>8 DEF Judged, OnePerSlug
<1> QED BY <1>8, <1>9, <1>10 DEF RunInv

------------------------------------------------------------------------------
(* An explain. *)

LEMMA LookTypes ==
  ASSUME NEW k \in Looks
  PROVE  /\ k.phase \in {"idle", "table", "archive", "query", "browse", "done"}
         /\ k.slug \in Slugs \cup {Blank} /\ k.errors \in BOOLEAN /\ k.crowded \in Nat
         /\ k.listed \in BOOLEAN /\ k.stored \in BOOLEAN /\ k.deal \subseteq LookDeals
         /\ k.place \in {"nowhere", "table", "archive", "query", "browse"}
BY DEF Looks

LEMMA ListedForms ==
  ASSUME NEW w \in Listings
  PROVE  Columns(w) \in LookDeals /\ Raw(w) \in LookDeals /\ Scraped(w) \in LookDeals
BY DEF LookDeals

LEMMA PlaceholderIs ==
  ASSUME NEW slug \in Slugs
  PROVE  Unresolved(slug) \in LookDeals
BY DEF LookDeals

\* A deal that a place has ends the lookup.
LEMMA FindsKeeps ==
  ASSUME LookInv, NEW w \in Listings, NEW e \in {Columns(w), Raw(w), Scraped(w)},
         Finds(e), UNCHANGED <<catalog, table>>,
         look.phase \in {"table", "archive", "query", "browse"},
         look.phase # "archive" => e \in {Columns(w), Raw(w)}
  PROVE  LookInv'
<1>1. e \in LookDeals /\ e.unresolved = FALSE
  BY ListedForms, FoundIsResolved
<1>2. look \in Looks
  BY DEF LookInv
<1>3. look' = [look EXCEPT !.phase = "done", !.deal = {e}, !.place = look.phase]
  BY DEF Finds
<1>4. /\ look' \in Looks /\ look'.phase = "done" /\ look'.deal = {e}
      /\ look'.place = look.phase /\ look'.slug = look.slug
      /\ look'.listed = look.listed /\ look'.stored = look.stored
  BY <1>1, <1>2, <1>3 DEF Looks
<1>5. Seen'
  BY <1>1, <1>4 DEF LookInv, Seen
<1>6. MissMeansAbsent'
  BY <1>1, <1>4 DEF MissMeansAbsent
<1>7. Missed'
  BY <1>4, <1>6 DEF LookInv, Missed, RowsOf
<1> QED BY <1>4, <1>5, <1>7 DEF LookInv

\* A place that is passed over leaves the look without a deal.
LEMMA GoesOnFields ==
  ASSUME LookInv, NEW next \in {"archive", "query", "browse"}, NEW wrong \in BOOLEAN,
         NEW full \in BOOLEAN, GoesOn(next, wrong, full)
  PROVE  /\ look' \in Looks /\ look'.phase = next /\ look'.slug = look.slug
         /\ look'.errors = (look.errors \/ wrong)
         /\ look'.crowded = (IF full THEN look.crowded + 1 ELSE look.crowded)
         /\ look'.listed = look.listed /\ look'.stored = look.stored
         /\ look'.deal = look.deal /\ look'.place = look.place
<1>1. look \in Looks
  BY DEF LookInv
<1> DEFINE errors == look.errors \/ wrong
           crowded == IF full THEN look.crowded + 1 ELSE look.crowded
<1>2. errors \in BOOLEAN /\ crowded \in Nat
  BY <1>1, LookTypes
<1>3. look' = [look EXCEPT !.phase = next, !.errors = errors, !.crowded = crowded]
  BY DEF GoesOn
<1> HIDE DEF errors, crowded
<1>4. /\ look' \in Looks /\ look'.phase = next /\ look'.slug = look.slug
      /\ look'.errors = errors /\ look'.crowded = crowded
      /\ look'.listed = look.listed /\ look'.stored = look.stored
      /\ look'.deal = look.deal /\ look'.place = look.place
  BY <1>1, <1>2, <1>3 DEF Looks
<1> QED BY <1>4 DEF errors, crowded

LEMMA GoesOnKeeps ==
  ASSUME LookInv, NEW next \in {"archive", "query", "browse"}, NEW wrong \in BOOLEAN,
         NEW full \in BOOLEAN, GoesOn(next, wrong, full), UNCHANGED <<catalog, table>>,
         look.phase \in {"table", "archive", "query"},
         look.phase = "table" => next = "archive" /\ (wrong \/ RowsOf(look.slug, table) = {}),
         look.phase = "archive" => next = "query",
         look.phase = "query" => next = "browse" /\ (wrong \/ ~look.listed \/ full),
         next # "browse" => ~full
  PROVE  LookInv'
<1>1. /\ look' \in Looks /\ look'.phase = next /\ look'.slug = look.slug
      /\ look'.errors = (look.errors \/ wrong)
      /\ look'.crowded = (IF full THEN look.crowded + 1 ELSE look.crowded)
      /\ look'.listed = look.listed /\ look'.stored = look.stored
      /\ look'.deal = look.deal /\ look'.place = look.place
  BY GoesOnFields
<1>2. Seen'
  BY <1>1 DEF LookInv, Seen
<1>3. look.errors \in BOOLEAN /\ look.crowded \in Nat /\ look.crowded = 0
      /\ look.listed \in BOOLEAN /\ look.stored \in BOOLEAN
  BY LookTypes DEF LookInv, Missed
<1>4. MissMeansAbsent'
  BY <1>1 DEF MissMeansAbsent
<1>5. ~look'.errors => ~look'.stored
  BY <1>1, <1>3 DEF LookInv, Missed
<1>6. look'.phase = "browse" /\ ~look'.errors /\ look'.listed => look'.crowded = 1
  BY <1>1, <1>3
<1>7. look'.phase \in {"archive", "query"} => look'.crowded = 0
  BY <1>1, <1>3
<1>8. /\ look'.listed => RowsOf(look'.slug, catalog') # {}
      /\ look'.stored => RowsOf(look'.slug, table') # {}
  BY <1>1 DEF LookInv, Missed
<1>9. Missed'
  BY <1>1, <1>4, <1>5, <1>6, <1>7, <1>8 DEF Missed
<1> QED BY <1>1, <1>2, <1>9 DEF LookInv

\* What a query does not bring although it is live was crowded out.
LEMMA Crowding ==
  ASSUME WorldInv, LookInv, look.phase # "idle", look.listed,
         NEW got \in SUBSET Found(look.slug), Served(look.slug, got),
         Matches(look.slug, got) = {}
  PROVE  CrowdedOut
<1> DEFINE found == Found(look.slug)
<1>1. PICK w \in catalog : w.slug = look.slug
  BY DEF LookInv, Missed, RowsOf
<1>2. w \in found /\ w \notin got
  BY <1>1, ListingAssumption DEF Found, WorldInv, Matches
<1>3. found \subseteq Listings /\ IsFiniteSet(found)
  <2>1. found \subseteq Listings
    BY DEF Found, WorldInv
  <2> QED BY <2>1, ListingAssumption, FS_Subset
<1> DEFINE ahead == {v \in found \ {w} : v.since >= w.since}
<1>4. got \subseteq ahead
  BY <1>2 DEF Served
<1>5. IsFiniteSet(ahead) /\ ahead \subseteq found
  BY <1>3, FS_Subset
<1>6. /\ Cardinality(got) \in Nat /\ Cardinality(found) \in Nat
      /\ Cardinality(ahead) \in Nat /\ Cardinality(got) <= Cardinality(ahead)
      /\ Cardinality(got) = Cardinality(found) => got = found
  BY <1>3, <1>4, <1>5, FS_Subset, FS_CardinalityType
<1>7. Cardinality(got) # Cardinality(found)
  BY <1>2, <1>6
<1>8. Cardinality(got) = IF Cardinality(found) < Hits THEN Cardinality(found) ELSE Hits
  BY DEF Served
<1>9. Cardinality(got) = Hits
  BY <1>7, <1>8
<1>10. Cardinality(ahead) >= Hits
  BY <1>6, <1>9
<1>11. w \in RowsOf(look.slug, catalog)
  BY <1>1 DEF RowsOf
<1> QED BY <1>10, <1>11 DEF CrowdedOut

\* A lookup that gives up calls its deal unresolved.
LEMMA GiveUpKeeps ==
  ASSUME LookInv, NEW wrong \in BOOLEAN, NEW full \in BOOLEAN, GiveUp(wrong, full),
         UNCHANGED <<catalog, table>>, look.phase = "browse",
         wrong \/ ~look.listed \/ full
  PROVE  LookInv'
<1>1. look \in Looks /\ look.slug \in Slugs
  BY DEF LookInv, Seen
<1> DEFINE errors == look.errors \/ wrong
           crowded == IF full THEN look.crowded + 1 ELSE look.crowded
           e == Unresolved(look.slug)
<1>2. errors \in BOOLEAN /\ crowded \in Nat /\ look.errors \in BOOLEAN /\ look.crowded \in Nat
      /\ look.listed \in BOOLEAN /\ look.stored \in BOOLEAN
  BY <1>1, LookTypes
<1>3. e \in LookDeals
  BY <1>1, PlaceholderIs
<1>4. look' = [look EXCEPT !.phase = "done", !.deal = {e}, !.errors = errors,
                           !.crowded = crowded]
  BY DEF GiveUp
<1>5. errors = (look.errors \/ wrong) /\ crowded = (IF full THEN look.crowded + 1 ELSE look.crowded)
  OBVIOUS
<1> HIDE DEF errors, crowded, e
<1>6. /\ look' \in Looks /\ look'.phase = "done" /\ look'.slug = look.slug
      /\ look'.errors = errors /\ look'.crowded = crowded
      /\ look'.listed = look.listed /\ look'.stored = look.stored
      /\ look'.deal = {e} /\ look'.place = look.place
  BY <1>1, <1>2, <1>3, <1>4 DEF Looks
<1>7. Seen'
  <2>1. look.place = "nowhere"
    BY DEF LookInv, Seen
  <2> QED BY <1>1, <1>3, <1>6, <2>1 DEF Seen
<1>8. MissMeansAbsent'
  <2>1. ASSUME ~look.errors, ~wrong, look.stored PROVE FALSE
    BY <2>1 DEF LookInv, Missed
  <2>2. ASSUME ~look.errors, ~wrong, look.listed PROVE crowded = 2
    <3>1. look.crowded = 1
      BY <2>2 DEF LookInv, Missed
    <3> QED BY <1>5, <2>2, <3>1
  <2> QED BY <1>2, <1>5, <1>6, <2>1, <2>2 DEF MissMeansAbsent
<1>9. Missed'
  BY <1>6, <1>8 DEF LookInv, Missed, RowsOf
<1> QED BY <1>6, <1>7, <1>9 DEF LookInv

LEMMA ExplainKeeps == LookInv /\ Explain => LookInv'
<1> SUFFICES ASSUME LookInv, Explain PROVE LookInv'
  OBVIOUS
<1>1. PICK slug \in Slugs :
        look' = [NoLook EXCEPT !.phase = "table", !.slug = slug,
                               !.listed = RowsOf(slug, catalog) # {},
                               !.stored = RowsOf(slug, table) # {}]
  BY DEF Explain
<1>2. catalog' = catalog /\ table' = table
  BY DEF Explain, worldVars
<1>3. PICK listed \in BOOLEAN, stored \in BOOLEAN :
        /\ listed <=> RowsOf(slug, catalog) # {}
        /\ stored <=> RowsOf(slug, table) # {}
        /\ look' = [NoLook EXCEPT !.phase = "table", !.slug = slug, !.listed = listed,
                                  !.stored = stored]
  BY <1>1
<1>4. /\ look' \in Looks /\ look'.phase = "table" /\ look'.slug = slug /\ look'.crowded = 0
      /\ look'.listed = listed /\ look'.stored = stored /\ look'.deal = {}
      /\ look'.place = "nowhere"
  BY <1>3 DEF NoLook, Looks
<1>5. Seen'
  BY <1>4 DEF Seen
<1>6. MissMeansAbsent'
  BY <1>4 DEF MissMeansAbsent
<1>7. Missed'
  BY <1>2, <1>3, <1>4, <1>6 DEF Missed, RowsOf
<1> QED BY <1>4, <1>5, <1>7 DEF LookInv

LEMMA LookInTableKeeps == WorldInv /\ LookInv /\ LookInTable => LookInv'
<1> SUFFICES ASSUME WorldInv, LookInv, LookInTable PROVE LookInv'
  OBVIOUS
<1>1. look.phase = "table" /\ UNCHANGED <<catalog, table>>
  BY DEF LookInTable, worldVars
<1>2. ASSUME NEW w \in RowsOf(look.slug, table), Finds(Columns(w)) PROVE LookInv'
  <2>1. w \in Listings
    BY DEF RowsOf, WorldInv
  <2> QED BY <1>1, <1>2, <2>1, FindsKeeps
<1>3. CASE RowsOf(look.slug, table) = {} /\ GoesOn("archive", FALSE, FALSE)
  BY <1>1, <1>3, GoesOnKeeps
<1>4. CASE GoesOn("archive", TRUE, FALSE)
  BY <1>1, <1>4, GoesOnKeeps
<1> QED BY <1>2, <1>3, <1>4 DEF LookInTable

LEMMA LookInArchiveKeeps == WorldInv /\ LookInv /\ LookInArchive => LookInv'
<1> SUFFICES ASSUME WorldInv, LookInv, LookInArchive PROVE LookInv'
  OBVIOUS
<1> DEFINE json == archive[look.slug]
<1>1. look.phase = "archive" /\ UNCHANGED <<catalog, table>>
  BY DEF LookInArchive, worldVars
<1>2. json.of \subseteq Listings /\ json.torn \in BOOLEAN
  BY <1>1 DEF LookInv, Seen, WorldInv
<1>3. ASSUME NEW w \in json.of, Finds(Scraped(w)) PROVE LookInv'
  BY <1>1, <1>2, <1>3, FindsKeeps
<1>4. CASE GoesOn("query", json.torn, FALSE)
  <2> HIDE DEF json
  <2> QED BY <1>1, <1>2, <1>4, GoesOnKeeps
<1> QED BY <1>3, <1>4 DEF LookInArchive

LEMMA LookInQueryKeeps == WorldInv /\ LookInv /\ LookInQuery => LookInv'
<1> SUFFICES ASSUME WorldInv, LookInv, LookInQuery PROVE LookInv'
  OBVIOUS
<1>1. look.phase = "query" /\ UNCHANGED <<catalog, table>> /\ look.listed \in BOOLEAN
  BY LookTypes DEF LookInQuery, worldVars, LookInv
<1>2. ASSUME NEW got \in SUBSET Found(look.slug), NEW w \in FirstMatch(look.slug, got),
             Finds(Columns(w))
      PROVE  LookInv'
  <2>1. w \in Listings
    BY DEF FirstMatch, Matches, Found, WorldInv
  <2> QED BY <1>1, <1>2, <2>1, FindsKeeps
<1>3. ASSUME NEW got \in SUBSET Found(look.slug), Served(look.slug, got),
             Matches(look.slug, got) = {}, GoesOn("browse", FALSE, CrowdedOut)
      PROVE  LookInv'
  <2>1. CrowdedOut \in BOOLEAN
    BY DEF CrowdedOut
  <2>2. ~look.listed \/ CrowdedOut
    BY <1>1, <1>3, Crowding
  <2> QED BY <1>1, <1>3, <2>1, <2>2, GoesOnKeeps
<1>4. CASE GoesOn("browse", TRUE, FALSE)
  BY <1>1, <1>4, GoesOnKeeps
<1> QED BY <1>2, <1>3, <1>4 DEF LookInQuery

LEMMA LookInBrowseKeeps == WorldInv /\ LookInv /\ LookInBrowse => LookInv'
<1> SUFFICES ASSUME WorldInv, LookInv, LookInBrowse PROVE LookInv'
  OBVIOUS
<1>1. look.phase = "browse" /\ UNCHANGED <<catalog, table>> /\ look.listed \in BOOLEAN
  BY LookTypes DEF LookInBrowse, worldVars, LookInv
<1>2. ASSUME NEW got \in SUBSET Found(look.slug), NEW w \in FirstMatch(look.slug, got),
             Finds(Raw(w))
      PROVE  LookInv'
  <2>1. w \in Listings
    BY DEF FirstMatch, Matches, Found, WorldInv
  <2> QED BY <1>1, <1>2, <2>1, FindsKeeps
<1>3. ASSUME NEW got \in SUBSET Found(look.slug), Served(look.slug, got),
             Matches(look.slug, got) = {}, GiveUp(FALSE, CrowdedOut)
      PROVE  LookInv'
  <2>1. CrowdedOut \in BOOLEAN
    BY DEF CrowdedOut
  <2>2. ~look.listed \/ CrowdedOut
    BY <1>1, <1>3, Crowding
  <2> QED BY <1>1, <1>3, <2>1, <2>2, GiveUpKeeps
<1>4. CASE GiveUp(TRUE, FALSE)
  BY <1>1, <1>4, GiveUpKeeps
<1> QED BY <1>2, <1>3, <1>4 DEF LookInBrowse

------------------------------------------------------------------------------
(* The world. *)

LEMMA RelistKeeps == WorldInv /\ LookInv /\ Relist => WorldInv' /\ LookInv'
<1> SUFFICES ASSUME WorldInv, LookInv, Relist PROVE WorldInv' /\ LookInv'
  OBVIOUS
<1>1. /\ UNCHANGED <<table, archive, page, run, leading>>
      /\ moves' = moves + 1 /\ moves < MaxMoves
  BY DEF Relist, Moves
<1>2. PICK slug \in Slugs :
        \/ \E w \in RowsOf(slug, Listings) :
             catalog' = (catalog \ RowsOf(slug, catalog)) \cup {w}
        \/ catalog' = catalog \ RowsOf(slug, catalog)
  BY DEF Relist
<1>3. catalog' \subseteq Listings /\ OnePerSlug(catalog)'
  BY <1>2 DEF RowsOf, OnePerSlug, WorldInv
<1>4. moves' \in 0..MaxMoves
  BY <1>1, AdviceBounds DEF WorldInv
<1>5. WorldInv'
  BY <1>1, <1>3, <1>4 DEF WorldInv, OnePerSlug, Legible
<1>6. PICK listed \in BOOLEAN :
        /\ listed <=> look.listed /\ RowsOf(look.slug, catalog') # {}
        /\ look' = [look EXCEPT !.listed = listed]
  BY DEF Relist
<1>7. look \in Looks /\ look.listed \in BOOLEAN
  BY LookTypes DEF LookInv
<1>8. /\ look' \in Looks /\ look'.phase = look.phase /\ look'.slug = look.slug
      /\ look'.errors = look.errors /\ look'.crowded = look.crowded
      /\ look'.listed = listed /\ look'.stored = look.stored
      /\ look'.deal = look.deal /\ look'.place = look.place
  BY <1>6, <1>7 DEF Looks
<1>9. Seen'
  BY <1>8 DEF LookInv, Seen
<1>10. MissMeansAbsent'
  BY <1>6, <1>8 DEF LookInv, Missed, MissMeansAbsent
<1>11. Missed'
  BY <1>1, <1>6, <1>8, <1>10 DEF LookInv, Missed, RowsOf
<1> QED BY <1>5, <1>8, <1>9, <1>11 DEF LookInv

LEMMA SaveDealsKeeps == WorldInv /\ LookInv /\ SaveDeals => WorldInv' /\ LookInv'
<1> SUFFICES ASSUME WorldInv, LookInv, SaveDeals PROVE WorldInv' /\ LookInv'
  OBVIOUS
<1>1. /\ UNCHANGED <<catalog, archive, page, run, look, leading>>
      /\ moves' = moves + 1 /\ moves < MaxMoves
      /\ table' = catalog \cup {w \in table : RowsOf(w.slug, catalog) = {}}
  BY DEF SaveDeals, Moves
<1>2. table' \subseteq Listings /\ OnePerSlug(table)'
  BY <1>1 DEF RowsOf, OnePerSlug, WorldInv
<1>3. moves' \in 0..MaxMoves
  BY <1>1, AdviceBounds DEF WorldInv
<1>4. WorldInv'
  BY <1>1, <1>2, <1>3 DEF WorldInv, OnePerSlug, Legible
\* rows are never removed
<1>5. RowsOf(look.slug, table) # {} => RowsOf(look.slug, table') # {}
  <2>1. CASE RowsOf(look.slug, catalog) # {}
    BY <1>1, <2>1 DEF RowsOf
  <2>2. CASE RowsOf(look.slug, catalog) = {}
    BY <1>1, <2>2 DEF RowsOf
  <2> QED BY <2>1, <2>2
<1>6. Missed'
  BY <1>1, <1>5 DEF LookInv, Missed, MissMeansAbsent
<1>7. Seen' /\ look' \in Looks
  BY <1>1 DEF LookInv, Seen
<1> QED BY <1>4, <1>6, <1>7 DEF LookInv

LEMMA SaveArchiveKeeps == WorldInv /\ SaveArchive => WorldInv'
<1> SUFFICES ASSUME WorldInv, SaveArchive PROVE WorldInv'
  OBVIOUS
<1>1. PICK w \in catalog, torn \in BOOLEAN :
        archive' = [archive EXCEPT ![w.slug] =
                      [torn |-> torn, of |-> IF torn THEN {} ELSE {w}]]
  BY DEF SaveArchive
<1>2. w \in Listings /\ [torn |-> torn, of |-> IF torn THEN {} ELSE {w}]
                          \in [torn : BOOLEAN, of : SUBSET Listings]
  BY DEF WorldInv
<1>3. archive' \in [Slugs -> [torn : BOOLEAN, of : SUBSET Listings]]
  BY <1>1, <1>2, SlugsAre DEF WorldInv
<1>4. moves' \in 0..MaxMoves
  BY AdviceBounds DEF WorldInv, SaveArchive, Moves
<1> QED BY <1>3, <1>4 DEF WorldInv, SaveArchive, OnePerSlug, Legible

LEMMA WriteKeeps == WorldInv /\ RunInv /\ Write => WorldInv' /\ RunInv'
<1> SUFFICES ASSUME WorldInv, RunInv, Write PROVE WorldInv' /\ RunInv'
  OBVIOUS
<1>1. /\ UNCHANGED <<catalog, table, archive, run, look>>
      /\ leading' = leading \cap Legible' /\ page' \subseteq Notes
  BY DEF Write, WorldInv
<1>2. moves' \in 0..MaxMoves
  BY AdviceBounds DEF WorldInv, Write, Moves
<1>3. WorldInv'
  <2>1. Legible' \subseteq page'
    BY DEF Legible
  <2>2. leading' \subseteq Legible' /\ leading' \subseteq page'
    BY <1>1, <2>1 DEF WorldInv
  <2> QED BY <1>1, <1>2, <2>2 DEF WorldInv, OnePerSlug
\* fewer notes have led their list throughout
<1>4. RunInv'
  BY <1>1 DEF RunInv, Told, Judged, OnePerSlug
<1> QED BY <1>3, <1>4

------------------------------------------------------------------------------
(* The theorems. *)

LEMMA WorldStands == WorldInv /\ UNCHANGED worldVars => WorldInv'
BY DEF WorldInv, worldVars, OnePerSlug, Legible

LEMMA RunStands == RunInv /\ UNCHANGED <<run, leading>> => RunInv'
BY DEF RunInv, Told, Judged, OnePerSlug

LEMMA LookStands == LookInv /\ UNCHANGED <<catalog, table, look>> => LookInv'
BY DEF LookInv, Missed, Seen, MissMeansAbsent, RowsOf

LEMMA NextKeeps == IndInv /\ [Next]_vars => IndInv'
<1> SUFFICES ASSUME IndInv, [Next]_vars PROVE IndInv'
  OBVIOUS
<1> USE DEF IndInv
<1>1. CASE ReadPage
  <2>1. catalog' = catalog /\ table' = table /\ look' = look
    BY <1>1 DEF ReadPage
  <2>2. WorldInv'
    <3>1. leading' = Legible /\ Legible' = Legible
          /\ UNCHANGED <<catalog, table, archive, page, moves>>
      BY <1>1 DEF ReadPage, Legible
    <3>2. Legible \subseteq page
      BY DEF Legible
    <3> QED BY <3>1, <3>2 DEF WorldInv, OnePerSlug
  <2> QED BY <1>1, <2>1, <2>2, ReadPageKeeps, LookStands
<1>2. CASE ReadZone \/ IndexAssets \/ FetchLocal \/ FetchLive \/ Enrich
  <2>1. UNCHANGED <<worldVars, look>>
    BY <1>2 DEF ReadZone, IndexAssets, FetchLocal, FetchLive, Enrich
  <2>2. WorldInv' /\ LookInv'
    BY <2>1, WorldStands, LookStands DEF worldVars
  <2>3. RunInv'
    BY <1>2, ReadZoneKeeps, IndexAssetsKeeps, FetchLocalKeeps, FetchLiveKeeps, EnrichKeeps
  <2> QED BY <2>2, <2>3
<1>3. CASE Explain \/ LookInTable \/ LookInArchive \/ LookInQuery \/ LookInBrowse
  <2>1. UNCHANGED <<worldVars, run>>
    BY <1>3 DEF Explain, LookInTable, LookInArchive, LookInQuery, LookInBrowse
  <2>2. WorldInv' /\ RunInv'
    BY <2>1, WorldStands, RunStands DEF worldVars
  <2>3. LookInv'
    BY <1>3, ExplainKeeps, LookInTableKeeps, LookInArchiveKeeps, LookInQueryKeeps,
       LookInBrowseKeeps
  <2> QED BY <2>2, <2>3
<1>4. CASE Relist
  <2>1. RunInv'
    BY <1>4, RunStands DEF Relist
  <2> QED BY <1>4, <2>1, RelistKeeps
<1>5. CASE SaveDeals
  <2>1. RunInv'
    BY <1>5, RunStands DEF SaveDeals
  <2> QED BY <1>5, <2>1, SaveDealsKeeps
<1>6. CASE SaveArchive
  <2>1. RunInv' /\ LookInv'
    BY <1>6, RunStands, LookStands DEF SaveArchive
  <2> QED BY <1>6, <2>1, SaveArchiveKeeps
<1>7. CASE Write
  <2>1. LookInv'
    BY <1>7, LookStands DEF Write
  <2> QED BY <1>7, <2>1, WriteKeeps
<1>8. CASE UNCHANGED vars
  BY <1>8, WorldStands, RunStands, LookStands DEF vars, worldVars
<1> QED BY <1>1, <1>2, <1>3, <1>4, <1>5, <1>6, <1>7, <1>8 DEF Next

THEOREM Inductive == Spec => []IndInv
<1>1. IndInv /\ [Next]_vars => IndInv'
  BY NextKeeps
<1> QED BY <1>1, InitInv, PTL DEF Spec

\* Whatever the catalog, the table, the archive and the page hold and however
\* they change meanwhile: a run judges every deal once, put together from
\* listings of that deal alone (enrich_deals_with_raw_metadata), and an explain finds one.
THEOREM TypeCorrect == Spec => []TypeOK
<1>1. ASSUME IndInv PROVE TypeOK
  <2>1. run \in Runs /\ look \in Looks /\ OnePerSlug(run.deals)
    BY <1>1 DEF IndInv, RunInv, Judged, LookInv
  <2>2. Cardinality(look.deal) <= 1
    <3>1. CASE look.deal = {}
      BY <3>1, FS_EmptySet
    <3>2. CASE \E e \in LookDeals : look.deal = {e}
      BY <3>2, FS_Singleton
    <3> QED BY <1>1, <3>1, <3>2 DEF IndInv, LookInv, Seen
  <2>3. ASSUME NEW d \in run.deals, NEW w \in d.of PROVE w \in Listings /\ w.slug = d.slug
    BY <2>1, <2>3, RunTypes, RunDealIs
  <2>4. ASSUME NEW d \in look.deal, NEW w \in d.of PROVE w \in Listings /\ w.slug = d.slug
    BY <2>1, <2>4, LookTypes, LookDealIs
  <2>5. run.told \in [DOMAIN Untold -> SUBSET {n.line : n \in Notes}]
    BY <2>1, RunTypes DEF Lines
  <2> QED BY <1>1, <2>1, <2>2, <2>3, <2>4, <2>5 DEF IndInv, WorldInv, TypeOK
<1> QED BY <1>1, Inductive, PTL

\* A veto that stood within the window of its list throughout a run whose reads
\* were all answered keeps each deal it speaks of off the list
\* (fetch_cloud_doc_directives, audit_deal_steps), for any lexicon, whatever form
\* the deal was given and however the list grew and shrank around the veto.
THEOREM VetoesAreHeeded == Spec => []DirectivesAreHeeded
<1>1. ASSUME IndInv PROVE DirectivesAreHeeded
  <2> SUFFICES ASSUME run.phase = "done", run.heard, NEW n \in leading, n.zone = "blacklist",
                      n.line \notin Placeholders, NEW d \in Recommended
               PROVE  Lexicon[n.line].spaced \notin Text(d)
    BY DEF DirectivesAreHeeded
  <2>1. run.zone > 2
    BY <1>1 DEF IndInv, RunInv, Told
  <2>2. n.line \in run.told["blacklist"]
    BY <1>1, <2>1 DEF IndInv, RunInv, Told
  <2>3. Verdict(d, run.told) = "recommended"
    BY DEF Recommended
  <2>4. ~Vetoed(d, n.line)
    BY <2>2, <2>3, RecommendedIsNotVetoed
  <2> QED BY <2>4 DEF Vetoed
<1> QED BY <1>1, Inductive, PTL

\* A run and an explain that saw a deal as the same listing give it the same
\* verdict, although one may have read its columns and the other its raw_json
\* and the run may have enriched it, unless a veto speaks of it or the listing's
\* own fields disagree (CHANGELOG.md:106).
THEOREM ExplainsAgree == Spec => []ExplainAgrees
<1>1. ASSUME IndInv PROVE ExplainAgrees
  <2> SUFFICES ASSUME run.phase = "done", look.phase = "done",
                      look.place \in {"table", "query", "browse"},
                      NEW d \in run.deals, NEW e \in look.deal, d.of = e.of,
                      \A w \in d.of : Unambiguous(w),
                      \A line \in run.told["blacklist"] : ~Vetoed(d, line)
               PROVE  Verdict(d, run.told) = Verdict(e, Untold)
    BY DEF ExplainAgrees
  <2>1. run.told["new_assets"] = {} /\ d \in RunDeals
    BY <1>1, RunTypes DEF IndInv, RunInv, Told
  <2>2. PICK w \in Listings : e \in {Columns(w), Raw(w)}
    BY <1>1 DEF IndInv, LookInv, Seen
  <2>3. e.of = {w}
    <3>1. Columns(w).of = {w}
      BY ColumnsIs
    <3>2. Raw(w).of = {w}
      BY RawIs
    <3> QED BY <2>2, <3>1, <3>2
  <2>4. d \in {Columns(w), Enriched(Columns(w), w)}
    <3>1. PICK v \in Listings, x \in Listings :
            \/ d = Columns(v) /\ d.of = {v}
            \/ d = Enriched(Columns(v), x) /\ d.of = {v, x}
      BY <2>1, RunDealIs
    <3> QED BY <2>3, <3>1
  <2>5. Alike(d, e)
    BY <2>2, <2>3, <2>4, FormsAreAlike
  <2> QED BY <2>1, <2>5, AlikeIsJudgedAlike
<1> QED BY <1>1, Inductive, PTL

\* "Unresolved" is said of a deal only if it was not stored when the lookup
\* began and off the catalog at some time during it, or had as many others as a
\* query brings in front of it each time, or if an error was passed over
\* (fetch_deal_by_slug; deals.go:420 cuts the answer).
THEOREM MissesAreReal == Spec => []MissMeansAbsent
<1>1. IndInv => MissMeansAbsent
  BY DEF IndInv, LookInv, Missed
<1> QED BY <1>1, Inductive, PTL

=============================================================================
