-------------------------- MODULE CatalogWalkProofs --------------------------
(***************************************************************************)
(* Proofs about CatalogWalk for every catalog, query, page size, request   *)
(* cap and number of changes to the catalog.                               *)
(***************************************************************************)
EXTENDS CatalogWalk, ListLemmas, FiniteSetTheorems, SequenceTheorems, TLAPS

------------------------------------------------------------------------------
(* The endpoint's sequences. *)

LEMMA QueryFields ==
  ASSUME query \in Queries
  PROVE  /\ query.limit \in Int /\ query.perPage \in Int
         /\ query.sort \in {"", "newest", "rating"}
         /\ query.filtered \in BOOLEAN /\ query.keyword \in BOOLEAN
<1>1. query \in [limit : Int, perPage : Int, sort : {"", "newest", "rating"},
                 filtered : BOOLEAN, matching : SUBSET Deals, keyword : BOOLEAN]
  BY QueriesAssumption
<1> QED BY <1>1

\* Every command sends a sort: SortSent is never blank.
LEMMA SortIsSent == query \in Queries => Orders = {listing}
BY QueryFields DEF Orders, SortSent

\* The page size that is sent is a positive number.
LEMMA PerPagePositive == query \in Queries => PerPage \in Nat \ {0}
<1> SUFFICES ASSUME query \in Queries PROVE PerPage \in Nat \ {0}
  OBVIOUS
<1>1. query.perPage \in Int /\ DefaultPerPage \in Nat \ {0}
  BY QueryFields, BoundsAssumption
<1> QED BY <1>1 DEF PerPage

\* The window a page request asks for, as indexes into the listing.
From == IF honoursPage THEN requests * PerPage + 1 ELSE 1
UpTo == IF From + PerPage - 1 <= Len(listing) THEN From + PerPage - 1 ELSE Len(listing)

LEMMA PageIsWindow ==
  ASSUME query \in Queries, requests \in Nat, listing \in Seq(Deals)
  PROVE  /\ From \in Nat \ {0} /\ UpTo \in Nat
         /\ ServedPage(listing) \in Seq(Deals)
         /\ Len(ServedPage(listing)) = IF From <= UpTo THEN UpTo - From + 1 ELSE 0
         /\ \A i \in 1..Len(ServedPage(listing)) :
              ServedPage(listing)[i] = listing[From + i - 1]
<1>1. PerPage \in Nat \ {0}
  BY PerPagePositive
<1>2. From \in Nat \ {0}
  <2>1. requests * PerPage \in Nat
    BY <1>1
  <2> QED BY <2>1 DEF From
<1>3. UpTo \in Nat /\ UpTo <= Len(listing)
  BY <1>1, <1>2 DEF UpTo
<1>4. \A i \in From..UpTo : listing[i] \in Deals
  BY <1>2, <1>3, ElementOfSeq
<1>5. ServedPage(listing) = SubSeq(listing, From, UpTo)
  BY DEF ServedPage, From, UpTo
<1>6. /\ SubSeq(listing, From, UpTo) \in Seq(Deals)
      /\ Len(SubSeq(listing, From, UpTo)) = IF From <= UpTo THEN UpTo - From + 1 ELSE 0
      /\ \A i \in 1..(UpTo - From + 1) : SubSeq(listing, From, UpTo)[i] = listing[From + i - 1]
  BY <1>2, <1>3, <1>4, SubSeqProperties
<1> QED BY <1>2, <1>3, <1>5, <1>6

------------------------------------------------------------------------------
(* One page. *)

\* Rows that a page adds are rows it served.
LEMMA FreshFacts ==
  ASSUME NEW rows \in Seq(Deals)
  PROVE  /\ ToSet(rows) \subseteq Deals
         /\ Fresh(rows) \subseteq ToSet(rows)
         /\ Fresh(rows) \cap seen = {}
<1>1. DOMAIN rows = 1..Len(rows) /\ rows \in [1..Len(rows) -> Deals]
  BY LenProperties
<1>2. ToSet(rows) = {rows[i] : i \in 1..Len(rows)}
  BY <1>1 DEF ToSet
<1> QED BY <1>1, <1>2 DEF Fresh, RowsTaken

\* A page that does not fill --limit is read to its last row.
LEMMA WholePageTaken ==
  ASSUME NEW rows \in Seq(Deals), query \in Queries,
         seen \subseteq Deals, kept \subseteq Deals,
         ~FillsLimit(rows)
  PROVE  ToSet(rows) \subseteq seen \cup Fresh(rows)
<1>1. /\ DOMAIN rows = 1..Len(rows) /\ rows \in [1..Len(rows) -> Deals]
      /\ Len(rows) \in Nat
  BY LenProperties
<1>2. ToSet(rows) = {rows[i] : i \in 1..Len(rows)}
  BY <1>1 DEF ToSet
<1>3. ASSUME NEW n \in 1..Len(rows)
      PROVE  n \in RowsTaken(rows)
  <2> DEFINE upto   == kept \cup Passing(NewBefore(rows, n))
             whole == kept \cup Passing(NewBefore(rows, Len(rows) + 1))
  <2>1. ~StopsAtLimit(whole)
    BY DEF FillsLimit
  <2>2. SUFFICES ASSUME StopsAtLimit(upto) PROVE FALSE
    BY DEF RowsTaken
  <2>3. 1..(n - 1) \subseteq 1..(Len(rows) + 1 - 1)
    BY <1>1
  <2>4. NewBefore(rows, n) \subseteq NewBefore(rows, Len(rows) + 1)
    BY <2>3 DEF NewBefore
  <2>5. upto \subseteq whole
    BY <2>4 DEF Passing
  <2>6. NewBefore(rows, Len(rows) + 1) \subseteq Deals
    BY <1>1 DEF NewBefore
  <2>7. whole \subseteq Deals
    BY <2>6 DEF Passing
  <2> HIDE DEF upto, whole
  <2>8. IsFiniteSet(whole)
    BY <2>7, DealsAssumption, FS_Subset
  <2>9. /\ Cardinality(upto) <= Cardinality(whole)
        /\ Cardinality(whole) \in Nat /\ Cardinality(upto) \in Nat
    BY <2>5, <2>8, FS_Subset, FS_CardinalityType
  <2>10. query.limit \in Int
    BY QueryFields
  <2>11. ~query.filtered /\ HasLimit /\ Cardinality(upto) >= query.limit
    BY <2>2 DEF StopsAtLimit
  <2>12. Cardinality(whole) >= query.limit
    BY <2>9, <2>10, <2>11
  <2> QED BY <2>1, <2>11, <2>12 DEF StopsAtLimit
<1> QED BY <1>2, <1>3 DEF Fresh

\* A server total is a number or absent.
LEMMA TotalsType ==
  listing \in Seq(Deals) => Totals \subseteq Nat \cup {Unknown}
BY LenProperties DEF Totals

\* A page request, once the order of a sorted listing is fixed.
FetchEffect(total) ==
  LET rows  == ServedPage(listing)
      fresh == Fresh(rows)
      after == AfterPage(rows)
  IN  /\ requests' = requests + 1
      /\ declared' = IF declared = Unknown THEN total ELSE declared
      /\ totalOn' = IF declared = Unknown /\ total # Unknown THEN requests' ELSE totalOn
      /\ seen' = seen \cup fresh
      /\ kept' = kept \cup Passing(fresh)
      /\ overlap' = (overlap \/ Cardinality(fresh) < Cardinality(RowsTaken(rows)))
      /\ truncated' = (after \in {"limit", "stalled"})
      /\ capped' = (after = "limit")
      /\ warnings' = {after} \cap {"limit", "stalled"}
      /\ phase' = IF after = "next_page" /\ requests' < MaxRequests
                  THEN "walking" ELSE "ended"

LEMMA FetchPageEffect ==
  ASSUME query \in Queries, FetchPage
  PROVE  /\ phase = "walking"
         /\ UNCHANGED <<listing, honoursPage, churn, query, live0, arrivals, departures>>
         /\ \E total \in Totals : FetchEffect(total)
BY SortIsSent DEF FetchPage, FetchEffect, WithinCap, serverVars

------------------------------------------------------------------------------
(* Type correctness. *)

\* A walk that is still asking has requests left under the cap.
RequestsLeft == phase = "walking" => requests < MaxRequests

TypeInv == TypeOK /\ RequestsLeft

LEMMA TypeInit == Init => TypeInv
<1> SUFFICES ASSUME Init PROVE TypeInv
  OBVIOUS
<1>1. listing \in Seq(Deals)
  BY DEF Init, Listings, BoundedSeq, SeqOf
<1>2. Live \subseteq Deals
  BY <1>1, FreshFacts DEF Live
<1>3. MaxRequests \in Nat \ {0} /\ MaxChurn \in Nat
  BY BoundsAssumption
<1>4. /\ churn = 0 /\ honoursPage \in BOOLEAN /\ query \in Queries /\ live0 = Live
      /\ arrivals = {} /\ departures = {} /\ totalOn = 0 /\ WalkInit
  BY DEF Init
<1>5. TypeOK
  <2>1. requests \in 0..MaxRequests /\ churn \in 0..MaxChurn /\ totalOn \in 0..requests
    BY <1>3, <1>4 DEF WalkInit
  <2>2. /\ seen \subseteq Deals /\ kept \subseteq seen
        /\ declared \in Nat \cup {Unknown} /\ warnings \subseteq WarningKinds
        /\ overlap \in BOOLEAN /\ truncated \in BOOLEAN /\ capped \in BOOLEAN
        /\ phase \in {"walking", "ended", "returned", "failed"}
    BY <1>4 DEF WalkInit
  <2>3. live0 \subseteq Deals /\ arrivals \subseteq Deals /\ departures \subseteq Deals
    BY <1>2, <1>4
  <2> QED BY <1>1, <1>4, <2>1, <2>2, <2>3 DEF TypeOK
<1> QED BY <1>3, <1>4, <1>5 DEF WalkInit, TypeInv, RequestsLeft

LEMMA TypeNext == TypeInv /\ [Next]_vars => TypeInv'
<1> SUFFICES ASSUME TypeInv, [Next]_vars PROVE TypeInv'
  OBVIOUS
<1> USE DEF TypeInv, TypeOK, RequestsLeft
<1>0. MaxRequests \in Nat \ {0} /\ MaxChurn \in Nat
  BY BoundsAssumption
<1>1. CASE FetchPage
  <2>1. phase = "walking" /\ UNCHANGED <<serverVars, query, live0, arrivals, departures>>
    BY <1>1 DEF FetchPage
  <2>2. PICK total \in Totals : FetchEffect(total)
    BY <1>1, FetchPageEffect
  <2>3. total \in Nat \cup {Unknown}
    BY TotalsType
  <2>4. ServedPage(listing) \in Seq(Deals)
    BY PageIsWindow
  <2>5. Fresh(ServedPage(listing)) \subseteq Deals
    BY <2>4, FreshFacts
  <2>6. Passing(Fresh(ServedPage(listing))) \subseteq Fresh(ServedPage(listing))
    BY DEF Passing
  <2>7. requests' \in 0..MaxRequests /\ totalOn' \in 0..requests'
    BY <2>1, <2>2, <1>0 DEF FetchEffect
  <2>8. phase' \in {"walking", "ended"} /\ (phase' = "walking" => requests' < MaxRequests)
    BY <2>2 DEF FetchEffect
  <2>9. seen' \subseteq Deals /\ kept' \subseteq seen' /\ declared' \in Nat \cup {Unknown}
    BY <2>2, <2>3, <2>5, <2>6 DEF FetchEffect
  <2>10. /\ overlap' \in BOOLEAN /\ truncated' \in BOOLEAN /\ capped' \in BOOLEAN
         /\ warnings' \subseteq WarningKinds
    BY <2>2 DEF WarningKinds, FetchEffect
  <2> QED BY <2>1, <2>7, <2>8, <2>9, <2>10 DEF serverVars
<1>2. CASE FetchFails
  BY <1>2 DEF FetchFails, serverVars, historyVars
<1>3. CASE Reconcile
  <2>1. kept' \subseteq kept
    BY <1>3 DEF Reconcile, Best
  <2>2. truncated' \in BOOLEAN /\ capped' \in BOOLEAN /\ warnings' \subseteq WarningKinds
    BY <1>3 DEF Reconcile, WarningKinds
  <2> QED BY <1>3, <2>1, <2>2 DEF Reconcile, serverVars, historyVars
<1>4. CASE Publish
  <2>1. PICK d \in Deals \ Live, i \in 1..(Len(listing) + 1) :
          listing' = InsertAt(listing, i, d) /\ arrivals' = arrivals \cup {d}
    BY <1>4 DEF Publish
  <2>2. listing' \in Seq(Deals)
    BY <2>1, InsertAtIndexes
  <2>3. churn' \in 0..MaxChurn
    BY <1>4, <1>0 DEF Publish, Moving
  <2> QED BY <1>4, <2>1, <2>2, <2>3 DEF Publish, walkVars
<1>5. CASE Withdraw
  <2>1. PICK i \in 1..Len(listing) :
          listing' = RemoveAt(listing, i) /\ departures' = departures \cup {listing[i]}
    BY <1>5 DEF Withdraw
  <2>2. listing' \in Seq(Deals) /\ listing[i] \in Deals
    BY <2>1, RemoveAtIndexes, ElementOfSeq
  <2>3. churn' \in 0..MaxChurn
    BY <1>5, <1>0 DEF Withdraw, Moving
  <2> QED BY <1>5, <2>1, <2>2, <2>3 DEF Withdraw, walkVars
<1>6. CASE UNCHANGED vars
  BY <1>6 DEF vars, serverVars, walkVars, historyVars
<1> QED BY <1>1, <1>2, <1>3, <1>4, <1>5, <1>6 DEF Next

\* Whatever the endpoint serves, the walk's state stays well formed: in
\* particular it never sends more than maxDealsRequests requests (deals.go:374)
\* and returns no deal it has not seen.
THEOREM TypeCorrect == Spec => []TypeOK
<1>1. TypeInv => TypeOK
  BY DEF TypeInv
<1> QED BY <1>1, TypeInit, TypeNext, PTL DEF Spec

------------------------------------------------------------------------------
(* The inductive invariant. *)

\* The catalog as it was when the walk began, and what the walk knows of it.
History ==
  /\ IsInjective(listing)
  /\ Live \subseteq live0 \cup arrivals
  /\ live0 \subseteq Live \cup departures
  /\ seen \subseteq live0 \cup arrivals
  /\ requests = 0 => Live = live0 /\ declared = Unknown
  /\ totalOn = 1 => declared = Cardinality(live0)

\* While nothing leaves, no deal of the first moment slips behind the cursor.
Behind ==
  phase = "walking" /\ departures = {} /\ honoursPage =>
    \A i \in 1..Len(listing) :
      i <= requests * PerPage /\ listing[i] \in live0 => listing[i] \in seen

\* A walk that ran dry while nothing left has collected the first moment.
RanDry ==
  /\ phase \in {"ended", "returned"} /\ departures = {} =>
       truncated \/ requests >= MaxRequests \/ live0 \subseteq seen
  /\ phase = "returned" /\ requests >= MaxRequests => truncated

\* Every request that let the walk go on brought a new deal.
Progress ==
  /\ phase = "walking" => requests <= Cardinality(seen)
  /\ NoWastedRequest

\* An early stop always leaves a warning behind, and without filters every
\* deal seen is kept.
Accounted ==
  /\ phase = "walking" => ~truncated
  /\ phase \in {"ended", "returned"} /\ (truncated \/ capped) => warnings # {}
  /\ ~query.filtered => kept = seen
  /\ UncertifiedIsAnnounced

IndInv == TypeInv /\ History /\ Behind /\ RanDry /\ Progress /\ Accounted

LEMMA FiniteSeen ==
  ASSUME TypeOK
  PROVE  /\ IsFiniteSet(seen) /\ Cardinality(seen) \in Nat
         /\ IsFiniteSet(live0) /\ Cardinality(live0) \in Nat
BY DealsAssumption, FS_Subset, FS_CardinalityType DEF TypeOK

LEMMA IndInit == Init => IndInv
<1> SUFFICES ASSUME Init PROVE IndInv
  OBVIOUS
<1>1. TypeInv /\ TypeOK
  BY TypeInit DEF TypeInv
<1>2. /\ live0 = Live /\ requests = 0 /\ declared = Unknown /\ totalOn = 0 /\ seen = {}
      /\ kept = {} /\ phase = "walking" /\ IsInjective(listing) /\ departures = {}
      /\ listing \in Seq(Deals)
  BY <1>1 DEF Init, WalkInit, Listings, TypeOK
<1>3. History
  BY <1>2 DEF History
<1>4. Behind
  <2>1. PerPage \in Nat
    BY <1>1, PerPagePositive DEF TypeOK
  <2> QED BY <1>2, <2>1 DEF Behind
<1>5. RanDry /\ Accounted
  BY <1>1, <1>2 DEF Init, WalkInit, RanDry, Accounted, UncertifiedIsAnnounced
<1>6. Progress
  <2>1. Cardinality(seen) = 0
    BY <1>2, FS_EmptySet
  <2> QED BY <1>2, <2>1 DEF Progress, NoWastedRequest
<1> QED BY <1>1, <1>3, <1>4, <1>5, <1>6 DEF IndInv

LEMMA HistoryNext == IndInv /\ TypeInv' /\ [Next]_vars => History'
<1> SUFFICES ASSUME IndInv, TypeInv', [Next]_vars PROVE History'
  OBVIOUS
<1>0. TypeOK /\ TypeOK' /\ History
  BY DEF IndInv, TypeInv
<1> USE DEF History
<1>1. CASE FetchPage
  <2>1. /\ UNCHANGED <<listing, live0, arrivals, departures>> /\ query \in Queries
        /\ requests \in Nat /\ listing \in Seq(Deals)
    BY <1>0, <1>1, FetchPageEffect DEF TypeOK
  <2>2. PICK total \in Totals : FetchEffect(total)
    BY <1>1, <2>1, FetchPageEffect
  <2>3. seen' \subseteq live0 \cup arrivals
    <3> DEFINE rows == ServedPage(listing)
    <3>1. /\ rows \in Seq(Deals)
          /\ \A i \in 1..Len(rows) : rows[i] = listing[From + i - 1]
          /\ From \in Nat \ {0} /\ UpTo \in Nat
          /\ Len(rows) = IF From <= UpTo THEN UpTo - From + 1 ELSE 0
      BY <2>1, PageIsWindow
    <3>2. Len(listing) \in Nat /\ DOMAIN listing = 1..Len(listing) /\ UpTo <= Len(listing)
      <4>1. Len(listing) \in Nat /\ DOMAIN listing = 1..Len(listing)
        BY <2>1, LenProperties
      <4>2. PerPage \in Nat
        BY <2>1, PerPagePositive
      <4> QED BY <3>1, <4>1, <4>2 DEF UpTo
    <3>3. Fresh(rows) \subseteq ToSet(rows)
      BY <3>1, FreshFacts
    <3>4. DOMAIN rows = 1..Len(rows)
      BY <3>1, LenProperties
    <3> HIDE DEF rows
    <3>5. ASSUME NEW i \in 1..Len(rows) PROVE rows[i] \in Live
      <4>1. From + i - 1 \in 1..Len(listing)
        BY <3>1, <3>2
      <4>2. listing[From + i - 1] \in Live
        BY <4>1, <3>2 DEF Live, ToSet
      <4> QED BY <3>1, <4>2
    <3>6. ToSet(rows) \subseteq Live
      BY <3>4, <3>5 DEF ToSet
    <3>7. seen' = seen \cup Fresh(rows)
      BY <2>2 DEF FetchEffect, rows
    <3> QED BY <1>0, <3>3, <3>6, <3>7
  <2>4. totalOn' = 1 => declared' = Cardinality(live0)
    <3>1. CASE requests = 0 /\ total # Unknown
      <4>1. Live = live0 /\ declared = Unknown /\ declared' = total
        BY <1>0, <2>2, <3>1 DEF FetchEffect
      <4>2. total = Len(listing)
        BY <3>1 DEF Totals
      <4>3. Cardinality(Live) = Len(listing)
        BY <1>0, InjectiveLength DEF TypeOK, Live
      <4> QED BY <4>1, <4>2, <4>3
    <3>2. CASE totalOn' = totalOn
      <4>1. totalOn = 1 => declared # Unknown
        BY <1>0, UnknownAssumption, FiniteSeen
      <4> QED BY <1>0, <2>2, <3>2, <4>1 DEF FetchEffect
    <3>3. totalOn' = totalOn \/ (totalOn' = requests + 1 /\ total # Unknown)
      BY <2>2 DEF FetchEffect
    <3>4. requests + 1 = 1 => requests = 0
      BY <2>1
    <3> QED BY <3>1, <3>2, <3>3, <3>4
  <2>5. requests' # 0
    BY <2>1, <2>2 DEF FetchEffect
  <2>6. Live' = Live
    BY <2>1 DEF Live
  <2> QED BY <1>0, <2>1, <2>3, <2>4, <2>5, <2>6
<1>2. CASE FetchFails \/ UNCHANGED vars
  BY <1>0, <1>2 DEF FetchFails, vars, serverVars, walkVars, historyVars, Live
<1>3. CASE Reconcile
  BY <1>0, <1>3 DEF Reconcile, serverVars, historyVars, Live
<1>4. CASE Publish
  <2>1. PICK d \in Deals \ Live, i \in 1..(Len(listing) + 1) :
          listing' = InsertAt(listing, i, d) /\ arrivals' = arrivals \cup {d}
    BY <1>4 DEF Publish
  <2>2. IsInjective(listing') /\ Live' = Live \cup {d}
    BY <1>0, <2>1, InsertAtSet DEF TypeOK, Live
  <2>3. UNCHANGED <<requests, seen, declared, live0, departures, totalOn>> /\ requests # 0
    BY <1>0, <1>4 DEF Publish, walkVars, Moving, TypeOK
  <2> QED BY <1>0, <2>1, <2>2, <2>3
<1>5. CASE Withdraw
  <2>1. PICK i \in 1..Len(listing) :
          listing' = RemoveAt(listing, i) /\ departures' = departures \cup {listing[i]}
    BY <1>5 DEF Withdraw
  <2>2. /\ IsInjective(listing') /\ Live' \subseteq Live
        /\ Live \subseteq Live' \cup {listing[i]}
    BY <1>0, <2>1, RemoveAtSet DEF TypeOK, Live
  <2>3. UNCHANGED <<requests, seen, declared, live0, arrivals, totalOn>> /\ requests # 0
    BY <1>0, <1>5 DEF Withdraw, walkVars, Moving, TypeOK
  <2> QED BY <1>0, <2>1, <2>2, <2>3
<1> QED BY <1>1, <1>2, <1>3, <1>4, <1>5 DEF Next

\* What a page that neither fills --limit nor repeats itself adds to the walk.
LEMMA CoversWindow ==
  ASSUME TypeOK, NEW total \in Totals, FetchEffect(total), ~truncated'
  PROVE  \A j \in 1..Len(listing) :
           From <= j /\ j <= From + PerPage - 1 => listing[j] \in seen'
<1> DEFINE rows == ServedPage(listing)
<1>1. /\ query \in Queries /\ requests \in Nat /\ listing \in Seq(Deals)
      /\ seen \subseteq Deals /\ kept \subseteq Deals
  BY DEF TypeOK
<1>2. /\ rows \in Seq(Deals)
      /\ \A i \in 1..Len(rows) : rows[i] = listing[From + i - 1]
      /\ From \in Nat \ {0} /\ UpTo \in Nat
      /\ Len(rows) = IF From <= UpTo THEN UpTo - From + 1 ELSE 0
  BY <1>1, PageIsWindow
<1>3. Len(listing) \in Nat /\ DOMAIN rows = 1..Len(rows) /\ PerPage \in Nat \ {0}
  BY <1>1, <1>2, LenProperties, PerPagePositive
<1>4. rows = <<>> \/ ~FillsLimit(rows)
  BY DEF FetchEffect, AfterPage
<1>5. rows # <<>> => ToSet(rows) \subseteq seen \cup Fresh(rows)
  BY <1>1, <1>2, <1>4, WholePageTaken
<1>6. seen' = seen \cup Fresh(rows)
  BY DEF FetchEffect
<1>7. rows = <<>> => Len(rows) = 0
  OBVIOUS
<1> HIDE DEF rows
<1>8. ASSUME NEW j \in 1..Len(listing), From <= j, j <= From + PerPage - 1
      PROVE  listing[j] \in seen'
  <2>1. j <= UpTo
    BY <1>2, <1>3, <1>8 DEF UpTo
  <2>2. j - From + 1 \in 1..Len(rows) /\ From + (j - From + 1) - 1 = j
    BY <1>2, <1>8, <2>1
  <2>3. rows[j - From + 1] = listing[j]
    BY <1>2, <2>2
  <2>4. listing[j] \in ToSet(rows)
    BY <1>3, <2>2, <2>3 DEF ToSet
  <2>5. rows # <<>>
    BY <1>7, <2>2
  <2> QED BY <1>5, <1>6, <2>4, <2>5
<1> QED BY <1>8

\* What lies on each place once d has joined at place i.
LEMMA JoinedAt ==
  ASSUME listing \in Seq(Deals), NEW d \in Deals, NEW i \in 1..(Len(listing) + 1),
         NEW k \in 1..(Len(listing) + 1)
  PROVE  InsertAt(listing, i, d)[k] =
           IF k < i THEN listing[k] ELSE IF k = i THEN d ELSE listing[k - 1]
BY InsertAtIndexes

LEMMA BehindNext == IndInv /\ TypeInv' /\ [Next]_vars => Behind'
<1> SUFFICES ASSUME IndInv, TypeInv', [Next]_vars,
                    phase' = "walking", departures' = {}, honoursPage',
                    NEW k \in 1..Len(listing'),
                    k <= requests' * PerPage', listing'[k] \in live0'
             PROVE  listing'[k] \in seen'
  BY DEF Behind
<1>0. TypeOK /\ History /\ Behind
  BY DEF IndInv, TypeInv
<1>1. /\ query \in Queries /\ requests \in Nat /\ listing \in Seq(Deals)
      /\ PerPage \in Nat \ {0} /\ Len(listing) \in Nat
  BY <1>0, PerPagePositive, LenProperties DEF TypeOK
<1>2. DOMAIN listing = 1..Len(listing)
  BY <1>1, LenProperties
<1>3. CASE FetchPage
  <2>1. /\ phase = "walking"
        /\ UNCHANGED <<listing, honoursPage, churn, query, live0, arrivals, departures>>
    BY <1>1, <1>3, FetchPageEffect
  <2>2. PICK total \in Totals : FetchEffect(total)
    BY <1>1, <1>3, FetchPageEffect
  <2>3. ~truncated' /\ requests' = requests + 1 /\ seen \subseteq seen'
    BY <2>2 DEF FetchEffect
  <2>4. PerPage' = PerPage
    BY <2>1 DEF PerPage
  <2>5. k <= requests * PerPage + PerPage
    <3>1. (requests + 1) * PerPage = requests * PerPage + PerPage
      BY <1>1
    <3> QED BY <2>3, <2>4, <3>1
  <2>6. From = requests * PerPage + 1 /\ requests * PerPage \in Nat
    BY <1>1, <2>1 DEF From
  <2>7. CASE k <= requests * PerPage
    BY <1>0, <2>1, <2>3, <2>7 DEF Behind
  <2>8. CASE k > requests * PerPage
    <3>1. k \in 1..Len(listing) /\ listing' = listing
      BY <2>1
    <3>2. From <= k /\ k <= From + PerPage - 1
      BY <1>1, <2>5, <2>6, <2>8, <3>1
    <3>3. listing[k] \in seen'
      BY <1>0, <2>2, <2>3, <3>1, <3>2, CoversWindow
    <3> QED BY <3>1, <3>3
  <2>9. k \in Int
    BY <2>1, <1>1
  <2> QED BY <2>6, <2>7, <2>8, <2>9
<1>4. CASE Publish
  <2>1. PICK d \in Deals \ Live, i \in 1..(Len(listing) + 1) :
          listing' = InsertAt(listing, i, d) /\ arrivals' = arrivals \cup {d}
    BY <1>4 DEF Publish
  <2>2. /\ UNCHANGED <<honoursPage, query, requests, seen, live0, departures>>
        /\ phase = "walking"
    BY <1>4 DEF Publish, walkVars, Moving
  <2>3. PerPage' = PerPage
    BY <2>2 DEF PerPage
  <2>4. Len(listing') = Len(listing) + 1
    BY <1>1, <2>1, InsertAtIndexes
  <2>5. k \in 1..(Len(listing) + 1)
    BY <2>4
  <2>6. listing'[k] = IF k < i THEN listing[k] ELSE IF k = i THEN d ELSE listing[k - 1]
    <3>1. listing \in Seq(Deals) /\ d \in Deals
      BY <1>1
    <3> QED BY <2>1, <2>5, <3>1, JoinedAt
  <2>7. k # i
    <3>1. d \notin live0
      BY <1>0, <2>1, <2>2 DEF History
    <3> QED BY <1>1, <2>2, <2>6, <3>1
  <2>8. requests * PerPage \in Nat
    BY <1>1
  <2>9. CASE k < i
    <3>1. k \in 1..Len(listing) /\ listing'[k] = listing[k]
      BY <1>1, <2>4, <2>6, <2>9
    <3> QED BY <1>0, <2>2, <2>3, <3>1 DEF Behind
  <2>10. CASE k > i
    <3>1. k - 1 \in 1..Len(listing) /\ listing'[k] = listing[k - 1]
      BY <1>1, <2>4, <2>5, <2>6, <2>10
    <3>2. k - 1 <= requests * PerPage
      BY <1>1, <2>2, <2>3, <2>8, <2>4
    <3> QED BY <1>0, <2>2, <3>1, <3>2 DEF Behind
  <2>11. k < i \/ k > i
    BY <1>1, <2>5, <2>7
  <2> QED BY <2>9, <2>10, <2>11
<1>5. CASE Withdraw
  BY <1>5 DEF Withdraw
<1>6. CASE FetchFails \/ Reconcile
  BY <1>6 DEF FetchFails, Reconcile
<1>7. CASE UNCHANGED vars
  BY <1>0, <1>7 DEF Behind, vars, serverVars, walkVars, historyVars, PerPage
<1> QED BY <1>3, <1>4, <1>5, <1>6, <1>7 DEF Next

LEMMA RanDryNext == IndInv /\ TypeInv' /\ [Next]_vars => RanDry'
<1> SUFFICES ASSUME IndInv, TypeInv', [Next]_vars PROVE RanDry'
  OBVIOUS
<1>0. TypeOK /\ History /\ Behind /\ RanDry
  BY DEF IndInv, TypeInv
<1>1. /\ query \in Queries /\ requests \in Nat /\ listing \in Seq(Deals)
      /\ PerPage \in Nat \ {0} /\ Len(listing) \in Nat
      /\ DOMAIN listing = 1..Len(listing)
  BY <1>0, PerPagePositive, LenProperties DEF TypeOK
<1>2. CASE FetchPage
  <2>1. /\ phase = "walking"
        /\ UNCHANGED <<listing, honoursPage, churn, query, live0, arrivals, departures>>
    BY <1>1, <1>2, FetchPageEffect
  <2>2. PICK total \in Totals : FetchEffect(total)
    BY <1>1, <1>2, FetchPageEffect
  <2>3. phase' # "returned"
    BY <2>2 DEF FetchEffect
  <2>4. SUFFICES ASSUME phase' = "ended", departures = {}, ~truncated', ~(requests' >= MaxRequests)
                 PROVE  live0 \subseteq seen'
    BY <2>1, <2>3 DEF RanDry
  <2>5. Len(ServedPage(listing)) < PerPage
    <3>1. requests' < MaxRequests
      BY <1>1, <2>2, <2>4, BoundsAssumption DEF FetchEffect
    <3>2. AfterPage(ServedPage(listing)) # "next_page"
      BY <2>2, <2>4, <3>1 DEF FetchEffect
    <3>3. ServedPage(listing) = <<>> \/ Len(ServedPage(listing)) < PerPage
      BY <2>2, <2>4, <3>2 DEF FetchEffect, AfterPage
    <3> QED BY <1>1, <3>3
  <2>6. UpTo = Len(listing)
    BY <1>1, <2>5, PageIsWindow DEF UpTo
  <2>7. Len(listing) <= From + PerPage - 1
    <3>1. From \in Nat
      BY <1>1, PageIsWindow
    <3>2. ~(From + PerPage - 1 <= Len(listing)) \/ From + PerPage - 1 = Len(listing)
      BY <2>6 DEF UpTo
    <3> QED BY <1>1, <3>1, <3>2
  <2>8. ASSUME NEW x \in live0 PROVE x \in seen'
    <3>1. x \in Live
      BY <1>0, <2>4 DEF History
    <3>2. PICK j \in 1..Len(listing) : x = listing[j]
      BY <1>1, <3>1 DEF Live, ToSet
    <3>3. CASE From <= j
      <4>1. From \in Nat
        BY <1>1, PageIsWindow
      <4>2. j <= From + PerPage - 1
        BY <1>1, <2>7, <4>1
      <4> QED BY <1>0, <2>2, <2>4, <3>2, <3>3, <4>2, CoversWindow
    <3>4. CASE ~(From <= j)
      <4>1. honoursPage /\ From = requests * PerPage + 1 /\ requests * PerPage \in Nat
        BY <1>1, <3>4 DEF From
      <4>2. j <= requests * PerPage
        BY <1>1, <3>4, <4>1
      <4>3. listing[j] \in seen
        BY <1>0, <2>1, <2>4, <3>2, <4>1, <4>2 DEF Behind
      <4> QED BY <2>2, <3>2, <4>3 DEF FetchEffect
    <3> QED BY <3>3, <3>4
  <2> QED BY <2>8
<1>3. CASE Reconcile
  <2>1. /\ phase = "ended" /\ UNCHANGED <<seen, live0, departures, requests>>
        /\ (truncated \/ requests >= MaxRequests => truncated')
    BY <1>3 DEF Reconcile, historyVars
  <2> QED BY <1>0, <2>1 DEF RanDry
<1>4. CASE FetchFails
  BY <1>4 DEF FetchFails, RanDry
<1>5. CASE Publish \/ Withdraw
  BY <1>5 DEF Publish, Withdraw, Moving, walkVars, RanDry
<1>6. CASE UNCHANGED vars
  BY <1>0, <1>6 DEF RanDry, vars, serverVars, walkVars, historyVars
<1> QED BY <1>2, <1>3, <1>4, <1>5, <1>6 DEF Next

LEMMA ProgressNext == IndInv /\ TypeInv' /\ [Next]_vars => Progress'
<1> SUFFICES ASSUME IndInv, TypeInv', [Next]_vars PROVE Progress'
  OBVIOUS
<1>0. TypeOK /\ TypeOK' /\ Progress
  BY DEF IndInv, TypeInv
<1>1. /\ query \in Queries /\ requests \in Nat /\ listing \in Seq(Deals)
      /\ IsFiniteSet(seen) /\ Cardinality(seen) \in Nat
  BY <1>0, FiniteSeen DEF TypeOK
<1>2. IsFiniteSet(seen') /\ Cardinality(seen') \in Nat
  BY <1>0, DealsAssumption, FS_Subset, FS_CardinalityType DEF TypeOK
<1>3. CASE FetchPage
  <2>1. phase = "walking"
    BY <1>1, <1>3, FetchPageEffect
  <2>2. PICK total \in Totals : FetchEffect(total)
    BY <1>1, <1>3, FetchPageEffect
  <2>3. requests <= Cardinality(seen)
    BY <1>0, <2>1 DEF Progress
  <2>4. /\ seen' = seen \cup Fresh(ServedPage(listing)) /\ requests' = requests + 1
    BY <2>2 DEF FetchEffect
  <2>5. Cardinality(seen) <= Cardinality(seen')
    BY <1>2, <2>4, FS_Subset
  <2>6. phase' = "walking" => Cardinality(seen) # Cardinality(seen')
    <3>1. SUFFICES ASSUME phase' = "walking", Cardinality(seen) = Cardinality(seen') PROVE FALSE
      OBVIOUS
    <3>2. Fresh(ServedPage(listing)) # {}
      BY <2>2, <3>1 DEF FetchEffect, AfterPage
    <3>3. Fresh(ServedPage(listing)) \cap seen = {}
      BY <1>1, PageIsWindow, FreshFacts
    <3>4. seen = seen'
      BY <1>2, <2>4, <3>1, FS_Subset
    <3> QED BY <2>4, <3>2, <3>3, <3>4
  <2> QED BY <1>1, <1>2, <2>3, <2>4, <2>5, <2>6 DEF Progress, NoWastedRequest
<1>4. CASE FetchFails \/ Reconcile \/ UNCHANGED vars
  BY <1>0, <1>4 DEF FetchFails, Reconcile, Progress, NoWastedRequest, vars, walkVars
<1>5. CASE Publish \/ Withdraw
  BY <1>0, <1>5 DEF Publish, Withdraw, walkVars, Progress, NoWastedRequest
<1> QED BY <1>3, <1>4, <1>5 DEF Next

LEMMA AccountedNext == IndInv /\ TypeInv' /\ [Next]_vars => Accounted'
<1> SUFFICES ASSUME IndInv, TypeInv', [Next]_vars PROVE Accounted'
  OBVIOUS
<1>0. TypeOK /\ TypeOK' /\ Accounted /\ RanDry
  BY DEF IndInv, TypeInv
<1>1. query \in Queries
  BY <1>0 DEF TypeOK
<1>2. CASE FetchPage
  <2>1. query' = query /\ phase = "walking"
    BY <1>1, <1>2, FetchPageEffect
  <2>2. PICK total \in Totals : FetchEffect(total)
    BY <1>1, <1>2, FetchPageEffect
  <2>3. phase' # "returned" /\ (phase' = "walking" => ~truncated')
    BY <2>2 DEF FetchEffect
  <2>4. truncated' \/ capped' => warnings' # {}
    BY <2>2 DEF FetchEffect
  <2>5. ~query.filtered /\ kept = seen => kept' = seen'
    BY <2>2 DEF FetchEffect, Passing
  <2> QED BY <1>0, <2>1, <2>3, <2>4, <2>5 DEF Accounted, UncertifiedIsAnnounced
<1>3. CASE Reconcile
  <2>1. /\ phase = "ended" /\ phase' = "returned"
        /\ UNCHANGED <<query, requests, seen, declared>>
    BY <1>3 DEF Reconcile
  <2>2. ~query.filtered => kept' = kept
    BY <1>3 DEF Reconcile, SlicesToLimit
  <2>3. truncated' \/ capped' => warnings' # {}
    BY <1>0, <1>3 DEF Reconcile, Accounted
  <2>4. declared = Unknown => warnings' # {}
    BY <1>3 DEF Reconcile
  <2>5. declared # Unknown /\ ~capped' /\ ~query.filtered /\ ~query.keyword
        /\ Cardinality(kept') # declared => warnings' # {}
    BY <1>3 DEF Reconcile, Short
  <2>6. UncertifiedIsAnnounced'
    BY <1>0, <2>1, <2>2, <2>3, <2>4, <2>5 DEF UncertifiedIsAnnounced, Complete, Accounted
  <2> QED BY <1>0, <2>1, <2>2, <2>3, <2>6 DEF Accounted
<1>4. CASE FetchFails
  BY <1>0, <1>4 DEF FetchFails, Accounted, UncertifiedIsAnnounced
<1>5. CASE Publish \/ Withdraw
  BY <1>0, <1>5 DEF Publish, Withdraw, walkVars, Moving, Accounted, UncertifiedIsAnnounced
<1>6. CASE UNCHANGED vars
  BY <1>0, <1>6 DEF vars, walkVars, Accounted, UncertifiedIsAnnounced, Complete
<1> QED BY <1>2, <1>3, <1>4, <1>5, <1>6 DEF Next

LEMMA IndNext == IndInv /\ [Next]_vars => IndInv'
<1>1. IndInv /\ [Next]_vars => TypeInv'
  BY TypeNext DEF IndInv
<1> QED
  BY <1>1, HistoryNext, BehindNext, RanDryNext, ProgressNext, AccountedNext DEF IndInv

THEOREM Inductive == Spec => []IndInv
BY IndInit, IndNext, PTL DEF Spec

------------------------------------------------------------------------------
(* What follows from it. *)

\* For every catalog, page size and interleaving of catalog changes: a
\* certificate obtained against a total declared by the first page means the
\* walk collected exactly the catalog of that moment, if deals only joined or
\* only left meanwhile (DealsResult.Complete, deals.go:219).
THEOREM CertificateIsSound == Spec => []CertifiedMeansServed
<1>1. ASSUME IndInv PROVE CertifiedMeansServed
  <2> SUFFICES ASSUME phase = "returned", Complete = "complete", totalOn = 1,
                      arrivals = {} \/ departures = {}
               PROVE  seen = live0
    BY DEF CertifiedMeansServed, Certified
  <2>1. TypeOK /\ History /\ RanDry
    BY <1>1 DEF IndInv, TypeInv
  <2>2. /\ IsFiniteSet(seen) /\ IsFiniteSet(live0)
    BY <2>1, FiniteSeen
  <2>3. ~truncated /\ Cardinality(seen) = declared /\ declared = Cardinality(live0)
    BY <2>1 DEF Complete, History
  <2>4. CASE arrivals = {}
    <3>1. seen \subseteq live0
      BY <2>1, <2>4 DEF History
    <3> QED BY <2>2, <2>3, <3>1, FS_Subset
  <2>5. CASE departures = {}
    <3>1. live0 \subseteq seen
      BY <2>1, <2>3, <2>5 DEF RanDry
    <3> QED BY <2>2, <2>3, <3>1, FS_Subset
  <2> QED BY <2>4, <2>5
<1> QED BY <1>1, Inductive, PTL

\* The walk never spends a request that brings nothing new, but for the last.
THEOREM RequestsAreUseful == Spec => []NoWastedRequest
<1>1. IndInv => NoWastedRequest
  BY DEF IndInv, Progress
<1> QED BY <1>1, Inductive, PTL

\* An unfiltered result without a certificate always carries a warning.
THEOREM DoubtIsAnnounced == Spec => []UncertifiedIsAnnounced
<1>1. IndInv => UncertifiedIsAnnounced
  BY DEF IndInv, Accounted
<1> QED BY <1>1, Inductive, PTL

\* The walk implements the promise of every crawl: gathered rows are never
\* lost before the end, a failed walk hands over nothing, and "complete" is
\* said only of an uncut walk that gathered as many rows as were declared.
THEOREM KeepsThePromise == Spec => KeepsPromise
<1>1. Init => Promise!Init
  BY DEF Init, WalkInit, Promise!Init, Verdict
<1>2. ASSUME IndInv, TypeInv', [Next]_vars
      PROVE  [Promise!Next]_(Promise!vars)
  <2>0. TypeOK /\ TypeOK' /\ Accounted
    BY <1>2 DEF IndInv, TypeInv
  <2>1. CASE FetchPage
    <3>1. /\ phase = "walking" /\ query \in Queries
      BY <2>0, <2>1, FetchPageEffect DEF TypeOK
    <3>2. PICK total \in Totals : FetchEffect(total)
      BY <2>1, <3>1, FetchPageEffect
    <3>3. phase' \in {"walking", "ended"}
      BY <3>2 DEF FetchEffect
    <3>4. seen \subseteq seen' /\ seen' \subseteq Deals
      BY <2>0, <3>2 DEF FetchEffect, TypeOK
    <3>5. declared # Unknown => declared' = declared
      BY <3>2 DEF FetchEffect
    <3>6. ~truncated
      BY <2>0, <3>1 DEF Accounted
    <3>7. Promise!Gather
      BY <3>1, <3>3, <3>4, <3>5, <3>6 DEF Promise!Gather, Verdict
    <3> QED BY <3>7 DEF Promise!Next
  <2>2. CASE FetchFails
    <3>1. Promise!Abandon
      BY <2>2 DEF FetchFails, Promise!Abandon, Verdict
    <3> QED BY <3>1 DEF Promise!Next
  <2>3. CASE Reconcile
    <3>1. /\ phase = "ended" /\ phase' = "returned"
          /\ UNCHANGED <<seen, declared>> /\ (truncated => truncated')
      BY <2>3 DEF Reconcile
    <3>2. /\ Complete' \in {"complete", "incomplete", "unknown"}
          /\ Complete' = "unknown" <=> declared' = Unknown
          /\ Complete' = "complete" => ~truncated' /\ Cardinality(seen') = declared'
      BY DEF Complete
    <3>3. Verdict = "open" /\ Verdict' = Complete'
      BY <3>1 DEF Verdict
    <3>4. Promise!Cardinality(seen) = Cardinality(seen)
      BY DEF Promise!Cardinality, Cardinality
    <3>5. Promise!Return
      BY <3>1, <3>2, <3>3, <3>4 DEF Promise!Return, Promise!Verdicts
    <3> QED BY <3>5 DEF Promise!Next
  <2>4. CASE Publish \/ Withdraw
    <3>1. UNCHANGED <<seen, declared, truncated, phase>> /\ phase = "walking"
      BY <2>4 DEF Publish, Withdraw, Moving, walkVars
    <3> QED BY <3>1 DEF Promise!vars, Verdict
  <2>5. CASE UNCHANGED vars
    <3>1. UNCHANGED <<seen, declared, truncated, phase>>
      BY <2>5 DEF vars, walkVars
    <3>2. Complete' = Complete
      BY <3>1 DEF Complete
    <3> QED BY <3>1, <3>2 DEF Promise!vars, Verdict
  <2> QED BY <1>2, <2>1, <2>2, <2>3, <2>4, <2>5 DEF Next
<1>3. IndInv => TypeInv
  BY DEF IndInv
<1> QED BY <1>1, <1>2, <1>3, Inductive, PTL DEF Spec, KeepsPromise, Promise!Spec

------------------------------------------------------------------------------
(* A catalog that stands still. *)

\* Every page of an endpoint that honours `page` is new, so that only a limit
\* and the cap stop the walk before the end; a filtered walk keeps all that
\* matches of what it saw.
StandsStill ==
  /\ arrivals = {} /\ departures = {} /\ Live = live0
  /\ declared \in {Unknown, Cardinality(live0)}
  /\ honoursPage =>
       /\ phase = "walking" =>
            \A i \in 1..Len(listing) : listing[i] \in seen => i <= requests * PerPage
       /\ "stalled" \notin warnings
       /\ phase = "ended" /\ query.filtered => ~truncated

Quiet ==
  /\ phase = "walking" => ~StopsAtLimit(kept)
  /\ phase \in {"walking", "ended"} /\ query.filtered => kept = seen \cap query.matching
  /\ truncated => warnings \cap {"limit", "stalled", "cap"} # {}
  /\ phase = "returned" /\ requests >= MaxRequests => "cap" \in warnings
  /\ churn = 0 => StandsStill
  /\ FilteredLimitTakesTheBest

LEMMA QuietInit == Init => Quiet
<1> SUFFICES ASSUME Init PROVE Quiet
  OBVIOUS
<1>1. /\ phase = "walking" /\ kept = {} /\ seen = {} /\ ~truncated /\ warnings = {}
      /\ declared = Unknown /\ arrivals = {} /\ departures = {} /\ live0 = Live
      /\ query \in Queries
  BY DEF Init, WalkInit
<1>2. ~StopsAtLimit({})
  <2>1. Cardinality({}) = 0 /\ query.limit \in Int
    BY <1>1, QueryFields, FS_EmptySet
  <2> QED BY <2>1 DEF StopsAtLimit, HasLimit
<1>3. StandsStill
  BY <1>1 DEF StandsStill
<1> QED BY <1>1, <1>2, <1>3 DEF Quiet, FilteredLimitTakesTheBest

\* A walk that has room for more deals had room for fewer.
LEMMA RoomBefore ==
  ASSUME query \in Queries, NEW few, NEW many, few \subseteq many, many \subseteq Deals,
         ~StopsAtLimit(many)
  PROVE  ~StopsAtLimit(few)
<1>1. IsFiniteSet(many) /\ IsFiniteSet(few)
  BY DealsAssumption, FS_Subset
<1>2. Cardinality(few) <= Cardinality(many) /\ Cardinality(many) \in Nat
      /\ Cardinality(few) \in Nat /\ query.limit \in Int
  BY <1>1, FS_Subset, FS_CardinalityType, QueryFields
<1> QED BY <1>2 DEF StopsAtLimit

\* The first row of a page is read as long as the limit leaves room.
LEMMA FirstRowTaken ==
  ASSUME NEW rows \in Seq(Deals), rows # <<>>, ~StopsAtLimit(kept), rows[1] \notin seen
  PROVE  rows[1] \in Fresh(rows)
<1>1. 1 \in 1..Len(rows)
  BY LenProperties, EmptySeq
<1>2. NewBefore(rows, 1) = {}
  BY DEF NewBefore
<1>3. kept \cup Passing(NewBefore(rows, 1)) = kept
  BY <1>2 DEF Passing
<1>4. 1 \in RowsTaken(rows)
  BY <1>1, <1>3 DEF RowsTaken
<1> QED BY <1>4 DEF Fresh

\* On a catalog that stands still a page is a window no deal of which was seen.
LEMMA PageIsNew ==
  ASSUME TypeOK, History, Quiet, phase = "walking", churn = 0, honoursPage,
         ServedPage(listing) # <<>>
  PROVE  Fresh(ServedPage(listing)) # {}
<1> DEFINE rows == ServedPage(listing)
<1>1. query \in Queries /\ requests \in Nat /\ listing \in Seq(Deals)
      /\ PerPage \in Nat \ {0} /\ Len(listing) \in Nat
  BY PerPagePositive, LenProperties DEF TypeOK
<1>2. /\ rows \in Seq(Deals) /\ From \in Nat \ {0} /\ UpTo \in Nat
      /\ Len(rows) = IF From <= UpTo THEN UpTo - From + 1 ELSE 0
      /\ \A i \in 1..Len(rows) : rows[i] = listing[From + i - 1]
  BY <1>1, PageIsWindow
<1>3. Len(rows) # 0
  BY <1>2, EmptySeq
<1>4. rows[1] = listing[From] /\ From \in 1..Len(listing)
  <2>1. 1 \in 1..Len(rows) /\ From <= UpTo
    BY <1>2, <1>3
  <2>2. UpTo <= Len(listing)
    BY <1>1, <1>2 DEF UpTo
  <2>3. rows[1] = listing[From + 1 - 1]
    BY <1>2, <2>1
  <2> QED BY <1>1, <1>2, <2>1, <2>2, <2>3
<1>5. From = requests * PerPage + 1 /\ requests * PerPage \in Nat
  BY <1>1 DEF From
<1>6. listing[From] \notin seen
  BY <1>1, <1>4, <1>5 DEF Quiet, StandsStill
<1> HIDE DEF rows
<1>7. rows[1] \in Fresh(rows)
  BY <1>2, <1>4, <1>6, FirstRowTaken DEF Quiet, rows
<1> QED BY <1>7 DEF rows

LEMMA QuietFetch == IndInv /\ Quiet /\ FetchPage => Quiet'
<1> SUFFICES ASSUME IndInv, Quiet, FetchPage PROVE Quiet'
  OBVIOUS
<1> DEFINE rows == ServedPage(listing)
           fresh == Fresh(rows)
<1>1. TypeOK /\ History
  BY DEF IndInv, TypeInv
<1>2. /\ query \in Queries /\ requests \in Nat /\ listing \in Seq(Deals)
      /\ PerPage \in Nat \ {0} /\ Len(listing) \in Nat
      /\ DOMAIN listing = 1..Len(listing)
      /\ seen \subseteq Deals /\ kept \subseteq Deals
  BY <1>1, PerPagePositive, LenProperties DEF TypeOK
<1>3. /\ phase = "walking"
      /\ UNCHANGED <<listing, honoursPage, churn, query, live0, arrivals, departures>>
  BY <1>2, FetchPageEffect
<1>4. PICK total \in Totals : FetchEffect(total)
  BY <1>2, FetchPageEffect
<1>5. /\ rows \in Seq(Deals) /\ From \in Nat \ {0} /\ UpTo \in Nat
      /\ Len(rows) = IF From <= UpTo THEN UpTo - From + 1 ELSE 0
      /\ \A i \in 1..Len(rows) : rows[i] = listing[From + i - 1]
  BY <1>2, PageIsWindow
<1>6. DOMAIN rows = 1..Len(rows) /\ Len(rows) \in Nat
      /\ fresh \subseteq {rows[i] : i \in 1..Len(rows)} /\ fresh \cap seen = {}
      /\ {rows[i] : i \in 1..Len(rows)} \subseteq Deals
  <2>1. rows \in [1..Len(rows) -> Deals] /\ Len(rows) \in Nat
    BY <1>5, LenProperties
  <2> HIDE DEF rows
  <2> QED BY <2>1 DEF Fresh, RowsTaken
<1>7. /\ requests' = requests + 1 /\ seen' = seen \cup fresh
      /\ kept' = kept \cup Passing(fresh)
      /\ truncated' = (AfterPage(rows) \in {"limit", "stalled"})
      /\ warnings' = {AfterPage(rows)} \cap {"limit", "stalled"}
      /\ declared' \in {declared, total}
      /\ phase' \in {"walking", "ended"}
      /\ phase' = "walking" => AfterPage(rows) = "next_page"
  BY <1>4 DEF FetchEffect
<1> HIDE DEF rows, fresh
<1>8. phase' = "walking" => ~StopsAtLimit(kept)'
  <2> SUFFICES ASSUME phase' = "walking" PROVE ~StopsAtLimit(kept)'
    OBVIOUS
  <2> DEFINE all == kept \cup Passing(NewBefore(rows, Len(rows) + 1))
  <2>1. ~StopsAtLimit(all)
    BY <1>7 DEF AfterPage, FillsLimit
  <2>2. Len(rows) + 1 - 1 = Len(rows)
    BY <1>6
  <2>3. NewBefore(rows, Len(rows) + 1) = {rows[i] : i \in 1..Len(rows)} \ seen
    BY <2>2 DEF NewBefore
  <2>4. kept' \subseteq all /\ all \subseteq Deals
    BY <1>2, <1>6, <1>7, <2>3 DEF Passing
  <2> HIDE DEF all
  <2>5. ~StopsAtLimit(kept')
    BY <1>2, <2>1, <2>4, RoomBefore
  <2> QED BY <1>3, <2>5 DEF StopsAtLimit, HasLimit
<1>9. query'.filtered => kept' = seen' \cap query'.matching
  BY <1>3, <1>7 DEF Quiet, Passing
<1>10. truncated' => warnings' \cap {"limit", "stalled", "cap"} # {}
  BY <1>7
<1>11. ASSUME churn' = 0 PROVE StandsStill'
  <2>1. churn = 0 /\ StandsStill
    BY <1>3, <1>11 DEF Quiet
  <2>2. declared' \in {Unknown, Cardinality(live0)}
    <3>1. Len(listing) = Cardinality(live0)
      BY <1>1, <1>2, <2>1, InjectiveLength DEF History, StandsStill, Live
    <3> QED BY <1>7, <2>1, <3>1 DEF Totals, StandsStill
  <2>3. ASSUME honoursPage PROVE AfterPage(rows) # "stalled"
    <3>1. rows # <<>> => fresh # {}
      BY <1>1, <1>3, <2>1, <2>3, PageIsNew DEF rows, fresh
    <3> QED BY <3>1 DEF AfterPage, fresh
  <2>4. query.filtered => AfterPage(rows) # "limit"
    BY DEF AfterPage, FillsLimit, StopsAtLimit
  <2>5. ASSUME honoursPage, NEW i \in 1..Len(listing), listing[i] \in seen', phase' = "walking"
        PROVE  i <= (requests + 1) * PerPage
    <3>1. (requests + 1) * PerPage = requests * PerPage + PerPage
          /\ requests * PerPage \in Nat
      BY <1>2
    <3>2. CASE listing[i] \in seen
      <4>1. i <= requests * PerPage
        BY <1>3, <2>1, <2>5, <3>2 DEF StandsStill
      <4> QED BY <1>2, <3>1, <4>1
    <3>3. CASE listing[i] \in fresh
      <4>1. PICK k \in 1..Len(rows) : listing[i] = rows[k]
        BY <1>6, <3>3
      <4>2. From = requests * PerPage + 1
        BY <2>5 DEF From
      <4>3. From <= UpTo /\ k <= UpTo - From + 1
        BY <1>5, <4>1
      <4>4. UpTo <= Len(listing) /\ UpTo <= From + PerPage - 1
        BY <1>2, <1>5 DEF UpTo
      <4>5. From + k - 1 \in 1..Len(listing) /\ From + k - 1 <= requests * PerPage + PerPage
        BY <1>2, <1>5, <3>1, <4>2, <4>3, <4>4
      <4>6. listing[i] = listing[From + k - 1]
        BY <1>5, <4>1
      <4>7. i = From + k - 1
        BY <1>1, <1>2, <4>5, <4>6 DEF History, IsInjective
      <4> QED BY <3>1, <4>5, <4>7
    <3> QED BY <1>7, <2>5, <3>2, <3>3
  <2>6. PerPage' = PerPage /\ Live' = Live
    BY <1>3 DEF PerPage, Live
  <2>7. honoursPage' => "stalled" \notin warnings'
                        /\ (phase' = "ended" /\ query'.filtered => ~truncated')
    BY <1>3, <1>7, <2>3, <2>4
  <2>8. honoursPage' /\ phase' = "walking" =>
          \A i \in 1..Len(listing') : listing'[i] \in seen' => i <= requests' * PerPage'
    BY <1>3, <1>7, <2>5, <2>6
  <2> QED BY <1>3, <2>1, <2>2, <2>6, <2>7, <2>8 DEF StandsStill
<1>12. phase' # "returned"
  BY <1>7
<1> QED BY <1>8, <1>9, <1>10, <1>11, <1>12 DEF Quiet, FilteredLimitTakesTheBest

\* The ranked slice is taken from everything that matches.
LEMMA QuietReconcile == IndInv /\ Quiet /\ Reconcile => Quiet'
<1> SUFFICES ASSUME IndInv, Quiet, Reconcile PROVE Quiet'
  OBVIOUS
<1>1. TypeOK /\ History /\ RanDry
  BY DEF IndInv, TypeInv
<1>2. /\ phase = "ended" /\ phase' = "returned"
      /\ UNCHANGED <<listing, honoursPage, churn, query, requests, seen, declared, live0,
                     arrivals, departures>>
  BY DEF Reconcile, serverVars, historyVars
<1>3. /\ warnings \subseteq warnings' /\ (requests >= MaxRequests => "cap" \in warnings')
      /\ ("stalled" \in warnings' => "stalled" \in warnings)
      /\ (SlicesToLimit => "limit" \in warnings')
      /\ (truncated' => truncated \/ requests >= MaxRequests \/ SlicesToLimit)
  BY DEF Reconcile
<1>4. truncated' => warnings' \cap {"limit", "stalled", "cap"} # {}
  BY <1>3 DEF Quiet
<1>5. churn' = 0 => StandsStill'
  BY <1>2, <1>3 DEF Quiet, StandsStill, Live
<1>6. FilteredLimitTakesTheBest'
  <2> SUFFICES ASSUME query.filtered, honoursPage, churn = 0, "cap" \notin warnings'
               PROVE  LET matching == live0 \cap query.matching
                      IN  /\ kept' \subseteq matching
                          /\ Cardinality(kept') = IF HasLimit /\ query.limit < Cardinality(matching)
                                                  THEN query.limit ELSE Cardinality(matching)
                          /\ \A x \in kept', y \in matching \ kept' : Rank[x] >= Rank[y]
    BY <1>2 DEF FilteredLimitTakesTheBest, HasLimit
  <2> DEFINE matching == live0 \cap query.matching
  <2>1. ~truncated /\ departures = {} /\ arrivals = {}
    BY <1>2 DEF Quiet, StandsStill
  <2>2. live0 \subseteq seen
    BY <1>1, <1>2, <1>3, <2>1 DEF RanDry
  <2>3. kept = matching
    BY <1>1, <1>2, <2>1, <2>2 DEF Quiet, History
  <2>4. query.limit \in Int /\ Cardinality(matching) \in Nat
    <3>1. IsFiniteSet(live0)
      BY <1>1, FiniteSeen
    <3>2. IsFiniteSet(matching)
      BY <3>1, FS_Subset
    <3> QED BY <1>1, <3>2, FS_CardinalityType, QueryFields DEF TypeOK
  <2> HIDE DEF matching
  <2>5. CASE SlicesToLimit
    <3>1. HasLimit /\ query.limit < Cardinality(matching)
      BY <2>3, <2>4, <2>5 DEF SlicesToLimit
    <3>2. kept' \in Best(matching, query.limit)
      BY <2>3, <2>5 DEF Reconcile
    <3> QED BY <3>1, <3>2 DEF Best, matching
  <2>6. CASE ~SlicesToLimit
    <3>1. ~(HasLimit /\ query.limit < Cardinality(matching))
      BY <2>3, <2>4, <2>6 DEF SlicesToLimit
    <3>2. kept' = matching
      BY <2>3, <2>6 DEF Reconcile
    <3> QED BY <3>1, <3>2 DEF matching
  <2> QED BY <2>5, <2>6
<1> QED BY <1>2, <1>3, <1>4, <1>5, <1>6 DEF Quiet

LEMMA QuietNext == IndInv /\ Quiet /\ [Next]_vars => Quiet'
<1> SUFFICES ASSUME IndInv, Quiet, [Next]_vars PROVE Quiet'
  OBVIOUS
<1>1. CASE FetchFails
  BY <1>1 DEF FetchFails, Quiet, StandsStill, FilteredLimitTakesTheBest, serverVars,
              historyVars, Live, PerPage
<1>2. CASE Publish \/ Withdraw
  <2>1. /\ churn' = churn + 1 /\ churn \in Nat /\ phase = "walking"
        /\ UNCHANGED walkVars
    BY <1>2 DEF Publish, Withdraw, Moving, IndInv, TypeInv, TypeOK
  <2>2. churn' # 0
    BY <2>1
  <2> QED BY <2>1, <2>2 DEF Quiet, FilteredLimitTakesTheBest, walkVars, StopsAtLimit, HasLimit
<1>3. CASE UNCHANGED vars
  <2>1. UNCHANGED <<serverVars, walkVars, historyVars>>
    BY <1>3 DEF vars
  <2>2. StandsStill' <=> StandsStill
    BY <2>1 DEF StandsStill, Live, PerPage, serverVars, walkVars, historyVars
  <2>3. FilteredLimitTakesTheBest'
    BY <2>1 DEF Quiet, FilteredLimitTakesTheBest, HasLimit, serverVars, walkVars, historyVars
  <2> QED BY <2>1, <2>2, <2>3 DEF Quiet, StopsAtLimit, HasLimit, serverVars, walkVars
<1> QED BY <1>1, <1>2, <1>3, QuietFetch, QuietReconcile DEF Next

LEMMA AlwaysQuiet == Spec => [](IndInv /\ Quiet)
<1>1. Init => IndInv /\ Quiet
  BY IndInit, QuietInit
<1>2. IndInv /\ Quiet /\ [Next]_vars => (IndInv /\ Quiet)'
  BY IndNext, QuietNext
<1> QED BY <1>1, <1>2, PTL DEF Spec

\* Because a sort is always sent, a walk over a catalog that stands still, behind
\* an endpoint that honours `page` and sends a total, collects everything and is
\* certified unless --limit or the cap stopped it (deals.go:11-30, 447), however
\* many deals and pages there are.
THEOREM QuietWalksAreComplete == Spec => []QuietWalkIsComplete
<1>1. ASSUME IndInv, Quiet PROVE QuietWalkIsComplete
  <2> SUFFICES ASSUME phase = "returned", honoursPage, churn = 0, declared # Unknown,
                      warnings \cap {"limit", "cap"} = {}
               PROVE  seen = live0 /\ Complete = "complete"
    BY DEF QuietWalkIsComplete
  <2>1. TypeOK /\ History /\ RanDry /\ StandsStill
    BY <1>1 DEF IndInv, TypeInv, Quiet
  <2>2. ~truncated
    BY <1>1, <2>1 DEF Quiet, StandsStill
  <2>3. seen = live0
    BY <1>1, <2>1, <2>2 DEF RanDry, History, StandsStill
  <2>4. Cardinality(seen) = declared
    BY <2>1, <2>3 DEF StandsStill
  <2> QED BY <2>2, <2>3, <2>4 DEF Complete
<1> QED BY <1>1, AlwaysQuiet, PTL

\* A filtered walk over a catalog that stands still returns the best `limit` of
\* all deals that match, for every ranking, filter and page size (deals.go:484).
THEOREM LimitIsRanked == Spec => []FilteredLimitTakesTheBest
<1>1. IndInv /\ Quiet => FilteredLimitTakesTheBest
  BY DEF Quiet
<1> QED BY <1>1, AlwaysQuiet, PTL

=============================================================================
