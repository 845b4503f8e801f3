-------------------------- MODULE ThreadCrawlProofs --------------------------
(***************************************************************************)
(* Proofs about ThreadCrawl for every thread, query, window size, request  *)
(* cap and number of changes to the thread.  They follow CatalogWalkProofs *)
(* where a thread behaves like a catalog; Oldest is what only a thread     *)
(* has: it grows at one end, and a crawl can begin at the other.           *)
(***************************************************************************)
EXTENDS ThreadCrawl, ListLemmas, FiniteSetTheorems, SequenceTheorems, TLAPS

------------------------------------------------------------------------------
(* The endpoint's windows. *)

LEMMA QueryFields ==
  ASSUME query \in Queries
  PROVE  /\ query.limit \in Int /\ query.pageSize \in Int
         /\ query.order \in {"", "asc", "desc"}
         /\ OrderSent \in {"asc", "desc"}
         /\ OrderSent = "asc" <=> query.order # "desc"
<1>1. query \in [limit : Int, pageSize : Int, order : {"", "asc", "desc"}]
  BY QueriesAssumption
<1> QED BY <1>1 DEF OrderSent

LEMMA PageSizePositive == query \in Queries => PageSize \in Nat \ {0}
<1> SUFFICES ASSUME query \in Queries PROVE PageSize \in Nat \ {0}
  OBVIOUS
<1>1. query.pageSize \in Int /\ DefaultPageSize \in Nat \ {0}
  BY QueryFields, CrawlBounds
<1> QED BY <1>1 DEF PageSize

\* The i-th comment in the order asked for, the places a request asks for and
\* the last of them that exists.
At(i) == IF OrderSent = "asc" THEN thread[i] ELSE thread[Len(thread) + 1 - i]
From == IF honoursFrom THEN offset ELSE 0
Size == Least(PageSize, ServerWindow)
UpTo == Least(Len(thread), From + Size)

LEMMA SizePositive == query \in Queries => Size \in Nat \ {0}
BY PageSizePositive, CrawlBounds DEF Size, Least

LEMMA ServedWindowIs ==
  ASSUME query \in Queries, offset \in Nat, thread \in Seq(Comments)
  PROVE  /\ From \in Nat /\ UpTo \in Nat /\ UpTo <= Len(thread)
         /\ ServedWindow \in Seq(Comments)
         /\ Len(ServedWindow) = IF From < UpTo THEN UpTo - From ELSE 0
         /\ \A i \in 1..Len(ServedWindow) : ServedWindow[i] = At(From + i)
<1> DEFINE rows == IF OrderSent = "asc" THEN thread ELSE Reverse(thread)
<1>1. Len(thread) \in Nat /\ thread \in [1..Len(thread) -> Comments]
  BY LenProperties
<1>2. Size \in Nat \ {0}
  BY SizePositive
<1>3. From \in Nat
  BY DEF From
<1>4. UpTo \in Nat /\ UpTo <= Len(thread)
  BY <1>1, <1>2, <1>3 DEF UpTo, Least
<1>5. rows \in [1..Len(thread) -> Comments] /\ \A i \in 1..Len(thread) : rows[i] = At(i)
  <2>1. CASE OrderSent = "asc"
    BY <2>1, <1>1 DEF At
  <2>2. CASE OrderSent # "asc"
    <3>1. rows = [i \in 1..Len(thread) |-> thread[(Len(thread) - i) + 1]]
      BY <2>2 DEF Reverse
    <3>2. \A i \in 1..Len(thread) : (Len(thread) - i) + 1 \in 1..Len(thread)
                                    /\ (Len(thread) - i) + 1 = Len(thread) + 1 - i
      BY <1>1
    <3> QED BY <1>1, <2>2, <3>1, <3>2 DEF At
  <2> QED BY <2>1, <2>2
<1>6. rows \in Seq(Comments) /\ Len(rows) = Len(thread)
  BY <1>1, <1>5
<1>7. ServedWindow = SubSeq(rows, From + 1, UpTo)
  BY <1>6 DEF ServedWindow, From, UpTo, Size
<1> HIDE DEF rows
<1>8. \A i \in (From + 1)..UpTo : rows[i] \in Comments
  BY <1>1, <1>3, <1>4, <1>5
<1>9. /\ SubSeq(rows, From + 1, UpTo) \in Seq(Comments)
      /\ Len(SubSeq(rows, From + 1, UpTo)) =
           IF From + 1 <= UpTo THEN UpTo - (From + 1) + 1 ELSE 0
      /\ \A i \in 1..(UpTo - (From + 1) + 1) :
           SubSeq(rows, From + 1, UpTo)[i] = rows[(From + 1) + i - 1]
  BY <1>3, <1>4, <1>8, SubSeqProperties
<1>10. Len(ServedWindow) = IF From < UpTo THEN UpTo - From ELSE 0
  BY <1>3, <1>4, <1>7, <1>9
<1>11. ASSUME NEW i \in 1..Len(ServedWindow) PROVE ServedWindow[i] = At(From + i)
  <2>1. i \in 1..(UpTo - From) /\ From < UpTo
    BY <1>3, <1>4, <1>10
  <2>2. From + i \in 1..Len(thread) /\ (From + 1) + i - 1 = From + i
    BY <2>1, <1>1, <1>3, <1>4
  <2>3. i \in 1..(UpTo - (From + 1) + 1)
    BY <2>1, <1>3, <1>4
  <2> QED BY <1>5, <1>7, <1>9, <2>2, <2>3
<1> QED BY <1>3, <1>4, <1>7, <1>9, <1>10, <1>11

\* The places of the order asked for are the places of the thread.
LEMMA AtIsPlace ==
  ASSUME query \in Queries, thread \in Seq(Comments)
  PROVE  /\ \A i \in 1..Len(thread) : At(i) \in Live /\ At(i) \in Comments
         /\ \A x \in Live : \E i \in 1..Len(thread) : x = At(i)
<1>1. Len(thread) \in Nat /\ DOMAIN thread = 1..Len(thread)
      /\ thread \in [1..Len(thread) -> Comments]
  BY LenProperties
<1>2. Live = {thread[i] : i \in 1..Len(thread)}
  BY <1>1 DEF Live, ToSet
<1>3. ASSUME NEW i \in 1..Len(thread) PROVE At(i) \in Live /\ At(i) \in Comments
  <2>1. Len(thread) + 1 - i \in 1..Len(thread)
    BY <1>1
  <2> QED BY <1>1, <1>2, <2>1 DEF At
<1>4. ASSUME NEW x \in Live PROVE \E i \in 1..Len(thread) : x = At(i)
  <2>1. PICK j \in 1..Len(thread) : x = thread[j]
    BY <1>2
  <2>2. CASE OrderSent = "asc"
    BY <2>1, <2>2 DEF At
  <2>3. CASE OrderSent # "asc"
    <3>1. Len(thread) + 1 - j \in 1..Len(thread)
          /\ Len(thread) + 1 - (Len(thread) + 1 - j) = j
      BY <1>1
    <3>2. At(Len(thread) + 1 - j) = x
      BY <2>1, <2>3, <3>1 DEF At
    <3> QED BY <3>1, <3>2
  <2> QED BY <2>2, <2>3
<1> QED BY <1>3, <1>4

------------------------------------------------------------------------------
(* One window. *)

\* Rows that a window adds are rows it served.
LEMMA TakenFacts ==
  ASSUME NEW rows \in Seq(Comments)
  PROVE  /\ Taken(rows) \subseteq {rows[i] : i \in 1..Len(rows)}
         /\ Taken(rows) \subseteq Comments
         /\ Taken(rows) \cap items = {}
<1>1. rows \in [1..Len(rows) -> Comments]
  BY LenProperties
<1> QED BY <1>1 DEF Taken

\* A window that does not fill --limit is read to its last row.
LEMMA WholeWindowTaken ==
  ASSUME NEW rows \in Seq(Comments), query \in Queries, items \subseteq Comments,
         ~LimitReached(items \cup Taken(rows))
  PROVE  \A i \in 1..Len(rows) : rows[i] \in items \cup Taken(rows)
<1>1. rows \in [1..Len(rows) -> Comments] /\ Len(rows) \in Nat
  BY LenProperties
<1>2. query.limit \in Int
  BY QueryFields
<1> DEFINE Before(n) == {rows[k] : k \in 1..(n - 1)}
           read == {n \in 1..Len(rows) : ~LimitReached(items \cup Before(n))}
           whole == items \cup Taken(rows)
<1>3. Taken(rows) = {rows[n] : n \in read} \ items
  BY DEF Taken
<1>4. whole \subseteq Comments
  BY TakenFacts
<1>5. IsFiniteSet(whole)
  BY <1>4, CommentsAssumption, FS_Subset
<1> DEFINE unread == {n \in 1..Len(rows) : n \notin read}
<1>6. CASE unread = {}
  BY <1>1, <1>3, <1>6
\* The first row that is not read comes after rows that all are, and these fill
\* the limit.
<1>7. CASE unread # {}
  <2>1. unread \subseteq Nat
    OBVIOUS
  <2>2. PICK m \in unread : \A n \in unread : m <= n
    BY <1>7, <2>1, FirstPlace
  <2>3. ASSUME NEW k \in 1..(m - 1) PROVE rows[k] \in whole
    <3>0. m \in 1..Len(rows)
      OBVIOUS
    <3>1. k \in 1..Len(rows) /\ k < m
      BY <1>1, <3>0
    <3>2. k \in read
      BY <3>0, <3>1, <2>2
    <3> HIDE DEF read
    <3> QED BY <1>3, <3>2
  <2>4. items \cup Before(m) \subseteq whole
    BY <2>3
  <2>5. LimitReached(items \cup Before(m))
    BY <2>2
  <2> HIDE DEF whole
  <2>6. /\ Cardinality(items \cup Before(m)) <= Cardinality(whole)
        /\ Cardinality(items \cup Before(m)) \in Nat /\ Cardinality(whole) \in Nat
    BY <1>5, <2>4, FS_Subset, FS_CardinalityType
  <2>7. LimitReached(whole)
    BY <1>2, <2>5, <2>6 DEF LimitReached
  <2> QED BY <2>7 DEF whole
<1> QED BY <1>6, <1>7

\* A window request.
FetchEffect(total) ==
  LET rows  == ServedWindow
      after == AfterWindow(rows)
  IN  /\ requests' = requests + 1
      /\ expectedTotal' = IF expectedTotal = Unknown THEN total ELSE expectedTotal
      /\ totalOn' = IF expectedTotal = Unknown /\ total # Unknown THEN requests' ELSE totalOn
      /\ items' = items \cup Taken(rows)
      /\ offset' = IF after = "next_window" THEN offset + Len(rows) ELSE offset
      /\ truncated' = (after \in {"limit", "stalled"})
      /\ capped' = (after = "limit")
      /\ warnings' = {after} \cap {"limit", "stalled"}
      /\ phase' = IF after = "next_window" /\ requests' < MaxRequests
                  THEN "crawling" ELSE "ended"

LEMMA FetchWindowEffect ==
  ASSUME FetchWindow
  PROVE  /\ phase = "crawling"
         /\ UNCHANGED <<thread, honoursFrom, churn, query, live0, posted, deleted>>
         /\ \E total \in Totals : FetchEffect(total)
BY DEF FetchWindow, FetchEffect, NextOffset, WithinCap, serverVars

\* The code decides in this order.
LEMMA AfterWindowCases ==
  ASSUME NEW rows
  PROVE  /\ AfterWindow(rows) \in {"empty", "limit", "stalled", "next_window"}
         /\ AfterWindow(rows) = "empty" => rows = <<>>
         /\ AfterWindow(rows) # "empty" => rows # <<>>
         /\ AfterWindow(rows) = "limit" => LimitReached(items \cup Taken(rows))
         /\ AfterWindow(rows) \in {"stalled", "next_window"} =>
              ~LimitReached(items \cup Taken(rows))
         /\ AfterWindow(rows) = "stalled" => Taken(rows) = {}
         /\ AfterWindow(rows) = "next_window" => Taken(rows) # {}
BY DEF AfterWindow

\* A total is a number or absent.
LEMMA TotalsType ==
  thread \in Seq(Comments) => Totals \subseteq Nat \cup {Unknown}
BY LenProperties DEF Totals

\* What a window adds was in the thread when it was served.
LEMMA TakenIsLive ==
  ASSUME query \in Queries, offset \in Nat, thread \in Seq(Comments)
  PROVE  Taken(ServedWindow) \subseteq Live
<1>1. /\ From \in Nat /\ UpTo \in Nat /\ UpTo <= Len(thread)
      /\ ServedWindow \in Seq(Comments) /\ Len(thread) \in Nat
      /\ Len(ServedWindow) = IF From < UpTo THEN UpTo - From ELSE 0
      /\ \A i \in 1..Len(ServedWindow) : ServedWindow[i] = At(From + i)
  BY ServedWindowIs, LenProperties
<1>2. ASSUME NEW i \in 1..Len(ServedWindow) PROVE ServedWindow[i] \in Live
  <2>1. From + i \in 1..Len(thread)
    BY <1>1
  <2> QED BY <1>1, <2>1, AtIsPlace
<1> QED BY <1>1, <1>2, TakenFacts

------------------------------------------------------------------------------
(* Type correctness. *)

\* A crawl that is still asking has requests left under the cap.
RequestsLeft == phase = "crawling" => requests < MaxRequests

TypeInv == TypeOK /\ RequestsLeft

LEMMA TypeInit == Init => TypeInv
<1> SUFFICES ASSUME Init PROVE TypeInv
  OBVIOUS
<1>1. thread \in Seq(Comments)
  BY DEF Init, BoundedSeq, SeqOf
<1>2. Live \subseteq Comments
  <2>1. DOMAIN thread = 1..Len(thread) /\ thread \in [1..Len(thread) -> Comments]
    BY <1>1, LenProperties
  <2> QED BY <2>1 DEF Live, ToSet
<1>3. MaxRequests \in Nat \ {0} /\ MaxChurn \in Nat
  BY CrawlBounds
<1>4. requests \in 0..MaxRequests /\ churn \in 0..MaxChurn /\ totalOn \in 0..requests
  BY <1>3 DEF Init
<1>5. ~LimitReached(items)
  <2>1. Cardinality(items) = 0 /\ query.limit \in Int
    BY FS_EmptySet, QueryFields DEF Init
  <2> QED BY <2>1 DEF LimitReached, HasLimit
<1>6. TypeOK
  BY <1>1, <1>2, <1>4, <1>5 DEF Init, TypeOK
<1> QED BY <1>3, <1>6 DEF Init, TypeInv, RequestsLeft

LEMMA TypeNext == TypeInv /\ [Next]_vars => TypeInv'
<1> SUFFICES ASSUME TypeInv, [Next]_vars PROVE TypeInv'
  OBVIOUS
<1> USE DEF TypeInv, TypeOK, RequestsLeft
<1>0. MaxRequests \in Nat \ {0} /\ MaxChurn \in Nat
  BY CrawlBounds
<1>1. CASE FetchWindow
  <2>1. /\ phase = "crawling"
        /\ UNCHANGED <<thread, honoursFrom, churn, query, live0, posted, deleted>>
    BY <1>1, FetchWindowEffect
  <2>2. PICK total \in Totals : FetchEffect(total)
    BY <1>1, FetchWindowEffect
  <2>3. total \in Nat \cup {Unknown}
    BY TotalsType
  <2>4. ServedWindow \in Seq(Comments) /\ Len(ServedWindow) \in Nat
    BY ServedWindowIs, LenProperties
  <2>5. Taken(ServedWindow) \subseteq Comments
    BY <2>4, TakenFacts
  <2>6. requests' \in 0..MaxRequests /\ totalOn' \in 0..requests'
    BY <2>1, <2>2, <1>0 DEF FetchEffect
  <2>7. phase' \in {"crawling", "ended"} /\ (phase' = "crawling" => requests' < MaxRequests)
    BY <2>2 DEF FetchEffect
  <2>8. items' \subseteq Comments /\ expectedTotal' \in Nat \cup {Unknown} /\ offset' \in Nat
    BY <2>2, <2>3, <2>4, <2>5 DEF FetchEffect
  <2>9. /\ truncated' \in BOOLEAN /\ capped' \in BOOLEAN
        /\ warnings' \subseteq {"limit", "stalled", "cap", "no_total", "mismatch"}
    BY <2>2 DEF FetchEffect
  <2>10. phase' = "crawling" => ~LimitReached(items')
    BY <2>2, AfterWindowCases DEF FetchEffect
  <2>11. phase' = "crawling" => ~LimitReached(items)'
    BY <2>1, <2>10 DEF LimitReached, HasLimit
  <2> QED BY <2>1, <2>6, <2>7, <2>8, <2>9, <2>11
<1>2. CASE FetchFails
  BY <1>2 DEF FetchFails, serverVars, historyVars
<1>3. CASE Reconcile
  <2>1. /\ phase' = "returned" /\ truncated' \in BOOLEAN /\ capped' \in BOOLEAN
        /\ warnings' \subseteq {"limit", "stalled", "cap", "no_total", "mismatch"}
    BY <1>3 DEF Reconcile
  <2> QED BY <1>3, <2>1 DEF Reconcile, serverVars, historyVars
<1>4. CASE Post \/ Delete
  <2>1. /\ UNCHANGED <<honoursFrom, crawlVars, live0, totalOn>>
        /\ churn' \in 0..MaxChurn
    BY <1>4, <1>0 DEF Post, Delete, Moving
  <2>2. CASE Post
    <3>1. PICK c \in Comments \ (live0 \cup posted) :
            thread' = Append(thread, c) /\ posted' = posted \cup {c}
      BY <2>2 DEF Post
    <3>2. thread' \in Seq(Comments) /\ deleted' = deleted
      BY <2>2, <3>1 DEF Post
    <3> QED BY <2>1, <3>1, <3>2 DEF crawlVars, LimitReached, HasLimit
  <2>3. CASE Delete
    <3>1. PICK i \in 1..Len(thread) :
            thread' = RemoveAt(thread, i) /\ deleted' = deleted \cup {thread[i]}
      BY <2>3 DEF Delete
    <3>2. thread' \in Seq(Comments) /\ thread[i] \in Comments /\ posted' = posted
      BY <2>3, <3>1, RemoveAtIndexes, ElementOfSeq DEF Delete
    <3> QED BY <2>1, <3>1, <3>2 DEF crawlVars, LimitReached, HasLimit
  <2> QED BY <1>4, <2>2, <2>3
<1>5. CASE UNCHANGED vars
  BY <1>5 DEF vars, serverVars, crawlVars, historyVars, LimitReached, HasLimit
<1> QED BY <1>1, <1>2, <1>3, <1>4, <1>5 DEF Next

\* Whatever the endpoint serves, the crawl's state stays well formed: it never
\* sends more than maxThreadRequests requests (threads.go:37,143), and it asks for
\* another window only while --limit is not filled.
THEOREM TypeCorrect == Spec => []TypeOK
<1>1. TypeInv => TypeOK
  BY DEF TypeInv
<1> QED BY <1>1, TypeInit, TypeNext, PTL DEF Spec

------------------------------------------------------------------------------
(* The inductive invariant. *)

\* The thread as it was when the crawl began, and what the crawl knows of it.
History ==
  /\ IsInjective(thread)
  /\ Live \subseteq live0 \cup posted
  /\ live0 \subseteq Live \cup deleted
  /\ items \subseteq live0 \cup posted
  /\ requests = 0 => Live = live0 /\ expectedTotal = Unknown
  /\ totalOn = 1 => expectedTotal = Cardinality(live0)

\* While nothing is deleted, no comment of the first moment slips behind the
\* offset, in either order.
Behind ==
  phase = "crawling" /\ deleted = {} /\ honoursFrom =>
    \A i \in 1..Len(thread) : i <= offset /\ At(i) \in live0 => At(i) \in items

\* A crawl that ran dry while nothing was deleted has collected the first moment.
RanDry ==
  /\ phase \in {"ended", "returned"} /\ deleted = {} =>
       truncated \/ requests >= MaxRequests \/ live0 \subseteq items
  /\ phase = "returned" /\ requests >= MaxRequests => truncated

\* Oldest first and without deletions, what is held is the oldest part of the
\* thread, and nothing is served twice.
Oldest ==
  OrderSent = "asc" /\ honoursFrom /\ deleted = {} =>
    /\ phase = "crawling" =>
         offset <= Len(thread) /\ items = {thread[i] : i \in 1..offset}
    /\ phase \in {"ended", "returned"} =>
         /\ "stalled" \notin warnings
         /\ "limit" \in warnings =>
              /\ query.limit \in 1..Len(thread)
              /\ items = {thread[i] : i \in 1..query.limit}

\* Every request that let the crawl go on brought a new comment.
Progress ==
  /\ phase = "crawling" => requests <= Cardinality(items)
  /\ NoWastedRequest

\* An early stop is told by a warning of its own.
Accounted ==
  /\ phase = "crawling" => ~truncated
  /\ phase \in {"ended", "returned"} /\ truncated =>
       warnings \cap {"limit", "stalled", "cap"} # {}
  /\ phase \in {"ended", "returned"} /\ capped => warnings # {}
  /\ phase = "returned" /\ requests >= MaxRequests => "cap" \in warnings
  /\ UncertifiedIsAnnounced

IndInv == TypeInv /\ History /\ Behind /\ RanDry /\ Oldest /\ Progress /\ Accounted

LEMMA FiniteItems ==
  ASSUME TypeOK
  PROVE  /\ IsFiniteSet(items) /\ Cardinality(items) \in Nat
         /\ IsFiniteSet(live0) /\ Cardinality(live0) \in Nat
BY CommentsAssumption, FS_Subset, FS_CardinalityType DEF TypeOK

LEMMA IndInit == Init => IndInv
<1> SUFFICES ASSUME Init PROVE IndInv
  OBVIOUS
<1>1. TypeInv /\ TypeOK
  BY TypeInit DEF TypeInv
<1>2. /\ live0 = Live /\ requests = 0 /\ expectedTotal = Unknown /\ totalOn = 0
      /\ items = {} /\ offset = 0 /\ phase = "crawling" /\ IsInjective(thread)
      /\ deleted = {} /\ Len(thread) \in Nat
  BY <1>1, LenProperties DEF Init, TypeOK
<1>3. History
  BY <1>2 DEF History
<1>4. Behind /\ Oldest
  BY <1>2 DEF Behind, Oldest
<1>5. RanDry /\ Accounted
  BY <1>2 DEF Init, RanDry, Accounted, UncertifiedIsAnnounced
<1>6. Progress
  <2>1. Cardinality(items) = 0
    BY <1>2, FS_EmptySet
  <2> QED BY <1>2, <2>1 DEF Progress, NoWastedRequest
<1> QED BY <1>1, <1>3, <1>4, <1>5, <1>6 DEF IndInv

\* A comment that is posted is new to the thread, and comes last.
LEMMA PostEffect ==
  ASSUME TypeOK, History, Post
  PROVE  /\ UNCHANGED <<honoursFrom, crawlVars, live0, deleted, totalOn>>
         /\ phase = "crawling" /\ requests > 0
         /\ IsInjective(thread') /\ Len(thread') = Len(thread) + 1
         /\ \A i \in 1..Len(thread) : thread'[i] = thread[i]
         /\ thread'[Len(thread) + 1] \notin live0
         /\ Live' = Live \cup {thread'[Len(thread) + 1]}
         /\ posted' = posted \cup {thread'[Len(thread) + 1]}
<1>1. PICK c \in Comments \ (live0 \cup posted) :
        thread' = Append(thread, c) /\ posted' = posted \cup {c}
  BY DEF Post
<1>2. c \in Comments \ ToSet(thread)
  BY <1>1 DEF History, Live
<1>3. /\ IsInjective(thread') /\ Len(thread') = Len(thread) + 1
      /\ \A i \in 1..Len(thread) : thread'[i] = thread[i]
      /\ thread'[Len(thread) + 1] = c
      /\ ToSet(thread') = ToSet(thread) \cup {c}
  BY <1>1, <1>2, AppendSet DEF TypeOK, History
<1>4. /\ UNCHANGED <<honoursFrom, crawlVars, live0, deleted, totalOn>>
      /\ phase = "crawling" /\ requests > 0
  BY DEF Post, Moving
<1> QED BY <1>1, <1>3, <1>4 DEF Live

LEMMA HistoryNext == IndInv /\ TypeInv' /\ [Next]_vars => History'
<1> SUFFICES ASSUME IndInv, TypeInv', [Next]_vars PROVE History'
  OBVIOUS
<1>0. TypeOK /\ TypeOK' /\ History
  BY DEF IndInv, TypeInv
<1> USE DEF History
<1>1. CASE FetchWindow
  <2>1. /\ UNCHANGED <<thread, live0, posted, deleted>> /\ query \in Queries
        /\ requests \in Nat /\ thread \in Seq(Comments) /\ offset \in Nat
    BY <1>0, <1>1, FetchWindowEffect DEF TypeOK
  <2>2. PICK total \in Totals : FetchEffect(total)
    BY <1>1, FetchWindowEffect
  <2>3. items' \subseteq live0 \cup posted
    <3>1. Taken(ServedWindow) \subseteq Live
      BY <2>1, TakenIsLive
    <3> QED BY <1>0, <2>2, <3>1 DEF FetchEffect
  <2>4. totalOn' = 1 => expectedTotal' = Cardinality(live0)
    <3>1. CASE requests = 0 /\ total # Unknown
      <4>1. Live = live0 /\ expectedTotal = Unknown /\ expectedTotal' = total
        BY <1>0, <2>2, <3>1 DEF FetchEffect
      <4>2. total = Len(thread)
        BY <3>1 DEF Totals
      <4>3. Cardinality(Live) = Len(thread)
        BY <1>0, InjectiveLength DEF TypeOK, Live
      <4> QED BY <4>1, <4>2, <4>3
    <3>2. CASE totalOn' = totalOn
      <4>1. totalOn = 1 => expectedTotal # Unknown
        BY <1>0, UnknownAssumption, FiniteItems
      <4> QED BY <1>0, <2>2, <3>2, <4>1 DEF FetchEffect
    <3>3. totalOn' = totalOn \/ (totalOn' = requests + 1 /\ total # Unknown)
      BY <2>2 DEF FetchEffect
    <3>4. requests + 1 = 1 => requests = 0
      BY <2>1
    <3> QED BY <3>1, <3>2, <3>3, <3>4
  <2>5. requests' # 0
    BY <2>1, <2>2 DEF FetchEffect
  <2>6. Live' = Live
    BY <2>1 DEF Live
  <2> QED BY <1>0, <2>1, <2>3, <2>4, <2>5, <2>6
<1>2. CASE FetchFails \/ UNCHANGED vars
  BY <1>0, <1>2 DEF FetchFails, vars, serverVars, crawlVars, historyVars, Live
<1>3. CASE Reconcile
  BY <1>0, <1>3 DEF Reconcile, serverVars, historyVars, Live
<1>4. CASE Post
  <2>1. UNCHANGED <<requests, items, expectedTotal, live0, deleted, totalOn>> /\ requests # 0
    BY <1>0, <1>4, PostEffect DEF crawlVars, TypeOK
  <2> QED BY <1>0, <1>4, <2>1, PostEffect
<1>5. CASE Delete
  <2>1. PICK i \in 1..Len(thread) :
          thread' = RemoveAt(thread, i) /\ deleted' = deleted \cup {thread[i]}
    BY <1>5 DEF Delete
  <2>2. /\ IsInjective(thread') /\ Live' \subseteq Live
        /\ Live \subseteq Live' \cup {thread[i]}
    BY <1>0, <2>1, RemoveAtSet DEF TypeOK, Live
  <2>3. UNCHANGED <<requests, items, expectedTotal, live0, posted, totalOn>> /\ requests # 0
    BY <1>0, <1>5 DEF Delete, crawlVars, Moving, TypeOK
  <2> QED BY <1>0, <2>1, <2>2, <2>3
<1> QED BY <1>1, <1>2, <1>3, <1>4, <1>5 DEF Next

\* A window that does not fill --limit is held from its first row to its last.
LEMMA WindowIsHeld ==
  ASSUME TypeOK, NEW total \in Totals, FetchEffect(total),
         ~LimitReached(items \cup Taken(ServedWindow))
  PROVE  /\ From \in Nat /\ Len(ServedWindow) \in Nat
         /\ From + Len(ServedWindow) <= UpTo \/ Len(ServedWindow) = 0
         /\ UpTo <= Len(thread)
         /\ \A j \in 1..Len(thread) :
              From < j /\ j <= From + Len(ServedWindow) => At(j) \in items'
<1>1. /\ query \in Queries /\ offset \in Nat /\ thread \in Seq(Comments)
      /\ items \subseteq Comments
  BY DEF TypeOK
<1>2. /\ From \in Nat /\ UpTo \in Nat /\ UpTo <= Len(thread)
      /\ ServedWindow \in Seq(Comments)
      /\ Len(ServedWindow) = IF From < UpTo THEN UpTo - From ELSE 0
      /\ \A i \in 1..Len(ServedWindow) : ServedWindow[i] = At(From + i)
  BY <1>1, ServedWindowIs
<1>3. Len(ServedWindow) \in Nat
  BY <1>2
<1>4. \A i \in 1..Len(ServedWindow) : ServedWindow[i] \in items \cup Taken(ServedWindow)
  BY <1>1, <1>2, WholeWindowTaken
<1>5. items' = items \cup Taken(ServedWindow)
  BY DEF FetchEffect
<1>6. ASSUME NEW j \in 1..Len(thread), From < j, j <= From + Len(ServedWindow)
      PROVE  At(j) \in items'
  <2>1. j - From \in 1..Len(ServedWindow) /\ From + (j - From) = j
    BY <1>2, <1>3, <1>6
  <2>2. ServedWindow[j - From] = At(j)
    BY <1>2, <2>1
  <2> QED BY <1>4, <1>5, <2>1, <2>2
<1> QED BY <1>2, <1>3, <1>6

LEMMA BehindNext == IndInv /\ TypeInv' /\ [Next]_vars => Behind'
<1> SUFFICES ASSUME IndInv, TypeInv', [Next]_vars,
                    phase' = "crawling", deleted' = {}, honoursFrom',
                    NEW k \in 1..Len(thread'), k <= offset', At(k)' \in live0'
             PROVE  At(k)' \in items'
  BY DEF Behind
<1>0. TypeOK /\ History /\ Behind
  BY DEF IndInv, TypeInv
<1>1. /\ query \in Queries /\ offset \in Nat /\ thread \in Seq(Comments)
      /\ Len(thread) \in Nat
  BY <1>0, LenProperties DEF TypeOK
<1>2. CASE FetchWindow
  <2>1. /\ phase = "crawling"
        /\ UNCHANGED <<thread, honoursFrom, churn, query, live0, posted, deleted>>
    BY <1>2, FetchWindowEffect
  <2>2. PICK total \in Totals : FetchEffect(total)
    BY <1>2, FetchWindowEffect
  <2>3. At(k)' = At(k) /\ k \in 1..Len(thread)
    BY <2>1 DEF At, OrderSent
  <2>4. /\ AfterWindow(ServedWindow) = "next_window" /\ items \subseteq items'
        /\ offset' = offset + Len(ServedWindow)
    BY <2>2 DEF FetchEffect
  <2>5. ~LimitReached(items \cup Taken(ServedWindow))
    BY <2>4, AfterWindowCases
  <2>6. From = offset
    BY <2>1 DEF From
  <2>7. CASE k <= offset
    BY <1>0, <2>1, <2>3, <2>4, <2>7 DEF Behind
  <2>8. CASE ~(k <= offset)
    <3>1. From < k /\ k <= From + Len(ServedWindow)
      BY <1>1, <2>3, <2>4, <2>6, <2>8
    <3> QED BY <1>0, <2>2, <2>3, <2>5, <3>1, WindowIsHeld
  <2> QED BY <2>7, <2>8
<1>3. CASE Post
  <2>1. /\ UNCHANGED <<honoursFrom, query, offset, items, live0, deleted>>
        /\ phase = "crawling" /\ Len(thread') = Len(thread) + 1
        /\ \A i \in 1..Len(thread) : thread'[i] = thread[i]
        /\ thread'[Len(thread) + 1] \notin live0
    BY <1>0, <1>3, PostEffect DEF crawlVars
  <2>2. \A i \in 1..Len(thread) : i <= offset /\ At(i) \in live0 => At(i) \in items
    BY <1>0, <2>1 DEF Behind
  <2>3. OrderSent' = OrderSent
    BY <2>1 DEF OrderSent
  <2>4. CASE OrderSent = "asc"
    <3>1. At(k)' = thread'[k]
      BY <2>3, <2>4 DEF At
    <3>2. k # Len(thread) + 1
      BY <2>1, <3>1
    <3>3. k \in 1..Len(thread)
      BY <1>1, <2>1, <3>2
    <3>4. At(k)' = At(k)
      BY <2>1, <2>4, <3>1, <3>3 DEF At
    <3> QED BY <2>1, <2>2, <3>3, <3>4
  \* Newest first, what was served slides one place further from the start.
  <2>5. CASE OrderSent # "asc"
    <3>1. At(k)' = thread'[Len(thread') + 1 - k]
      BY <2>3, <2>5 DEF At
    <3>2. k # 1
      <4>1. k = 1 => Len(thread') + 1 - k = Len(thread) + 1
        BY <1>1, <2>1
      <4> QED BY <2>1, <3>1, <4>1
    <3>3. /\ k - 1 \in 1..Len(thread) /\ k - 1 <= offset
          /\ Len(thread') + 1 - k = Len(thread) + 1 - (k - 1)
          /\ Len(thread) + 1 - (k - 1) \in 1..Len(thread)
      BY <1>1, <2>1, <3>2
    <3>4. At(k)' = At(k - 1)
      BY <2>1, <2>5, <3>1, <3>3 DEF At
    <3> QED BY <2>1, <2>2, <3>3, <3>4
  <2> QED BY <2>4, <2>5
<1>4. CASE Delete
  BY <1>4 DEF Delete
<1>5. CASE FetchFails \/ Reconcile
  BY <1>5 DEF FetchFails, Reconcile
<1>6. CASE UNCHANGED vars
  BY <1>0, <1>6 DEF Behind, At, OrderSent, vars, serverVars, crawlVars, historyVars
<1> QED BY <1>2, <1>3, <1>4, <1>5, <1>6 DEF Next

LEMMA RanDryNext == IndInv /\ TypeInv' /\ [Next]_vars => RanDry'
<1> SUFFICES ASSUME IndInv, TypeInv', [Next]_vars PROVE RanDry'
  OBVIOUS
<1>0. TypeOK /\ History /\ Behind /\ RanDry
  BY DEF IndInv, TypeInv
<1>1. /\ query \in Queries /\ offset \in Nat /\ thread \in Seq(Comments)
      /\ Len(thread) \in Nat /\ requests \in Nat /\ MaxRequests \in Nat
  BY <1>0, LenProperties, CrawlBounds DEF TypeOK
<1>2. CASE FetchWindow
  <2>1. /\ phase = "crawling"
        /\ UNCHANGED <<thread, honoursFrom, churn, query, live0, posted, deleted>>
    BY <1>2, FetchWindowEffect
  <2>2. PICK total \in Totals : FetchEffect(total)
    BY <1>2, FetchWindowEffect
  <2>3. phase' # "returned" /\ items \subseteq items' /\ requests' = requests + 1
    BY <2>2 DEF FetchEffect
  <2>4. SUFFICES ASSUME phase' = "ended", deleted = {}, ~truncated', ~(requests' >= MaxRequests)
                 PROVE  live0 \subseteq items
    BY <2>1, <2>3 DEF RanDry
  <2>5. AfterWindow(ServedWindow) \notin {"limit", "stalled"}
    BY <2>2, <2>4 DEF FetchEffect
  <2>6. AfterWindow(ServedWindow) # "next_window"
    <3>1. requests' < MaxRequests
      BY <1>1, <2>3, <2>4
    <3> QED BY <2>2, <2>4, <3>1 DEF FetchEffect
  <2>7. ServedWindow = <<>>
    BY <2>5, <2>6, AfterWindowCases
  \* An empty window: the offset is past the end of the thread.
  <2>8. Len(thread) <= From
    <3>1. Len(ServedWindow) = 0
      BY <2>7
    <3>2. From \in Nat /\ UpTo \in Nat
          /\ Len(ServedWindow) = IF From < UpTo THEN UpTo - From ELSE 0
      BY <1>1, ServedWindowIs
    <3>3. ~(From < UpTo)
      BY <3>1, <3>2
    <3>4. Size \in Nat \ {0}
      BY <1>1, SizePositive
    <3> QED BY <1>1, <3>2, <3>3, <3>4 DEF UpTo, Least
  <2>9. ASSUME NEW x \in live0 PROVE x \in items
    <3>1. x \in Live
      BY <1>0, <2>4 DEF History
    <3>2. PICK i \in 1..Len(thread) : x = At(i)
      BY <1>1, <3>1, AtIsPlace
    <3>3. honoursFrom /\ i <= offset
      BY <1>1, <2>8, <3>2 DEF From
    <3> QED BY <1>0, <2>1, <2>4, <3>2, <3>3 DEF Behind
  <2> QED BY <2>9
<1>3. CASE Reconcile
  <2>1. /\ phase = "ended" /\ UNCHANGED <<items, live0, deleted, requests>>
        /\ (truncated \/ requests >= MaxRequests => truncated')
    BY <1>3 DEF Reconcile, historyVars
  <2> QED BY <1>0, <2>1 DEF RanDry
<1>4. CASE FetchFails
  BY <1>4 DEF FetchFails, RanDry
<1>5. CASE Post \/ Delete
  BY <1>5 DEF Post, Delete, Moving, crawlVars, RanDry
<1>6. CASE UNCHANGED vars
  BY <1>0, <1>6 DEF RanDry, vars, serverVars, crawlVars, historyVars
<1> QED BY <1>2, <1>3, <1>4, <1>5, <1>6 DEF Next

\* Oldest first, a window continues where the crawl is: it holds the next
\* comments of the thread, and fills --limit exactly.
LEMMA NextOldest ==
  ASSUME TypeOK, IsInjective(thread), OrderSent = "asc", honoursFrom,
         offset <= Len(thread), items = {thread[i] : i \in 1..offset},
         ServedWindow # <<>>
  PROVE  /\ offset + Len(ServedWindow) <= Len(thread)
         /\ ~LimitReached(items \cup Taken(ServedWindow)) =>
              /\ Taken(ServedWindow) # {}
              /\ items \cup Taken(ServedWindow)
                   = {thread[i] : i \in 1..(offset + Len(ServedWindow))}
         /\ LimitReached(items \cup Taken(ServedWindow)) /\ ~LimitReached(items) =>
              /\ query.limit \in 1..Len(thread)
              /\ items \cup Taken(ServedWindow) = {thread[i] : i \in 1..query.limit}
<1> DEFINE rows == ServedWindow
           n == Len(rows)
<1>1. /\ query \in Queries /\ offset \in Nat /\ thread \in Seq(Comments)
      /\ items \subseteq Comments /\ Len(thread) \in Nat
      /\ DOMAIN thread = 1..Len(thread) /\ query.limit \in Int
  BY LenProperties, QueryFields DEF TypeOK
<1>2. /\ rows \in Seq(Comments) /\ n \in Nat /\ n > 0
      /\ offset + n <= Len(thread)
      /\ \A i \in 1..n : rows[i] = thread[offset + i]
  <2>1. /\ From \in Nat /\ UpTo \in Nat /\ UpTo <= Len(thread)
        /\ ServedWindow \in Seq(Comments)
        /\ Len(ServedWindow) = IF From < UpTo THEN UpTo - From ELSE 0
        /\ \A i \in 1..Len(ServedWindow) : ServedWindow[i] = At(From + i)
    BY <1>1, ServedWindowIs
  <2>2. From = offset
    BY DEF From
  <2>3. Len(ServedWindow) # 0
    BY <2>1
  <2> QED BY <1>1, <2>1, <2>2, <2>3 DEF At
<1> HIDE DEF rows
<1>3. \A i, j \in 1..Len(thread) : thread[i] = thread[j] => i = j
  BY <1>1 DEF IsInjective
\* The rows before the m-th, with what is held, are the oldest offset + m - 1.
<1>4. ASSUME NEW m \in 1..(n + 1)
      PROVE  /\ items \cup {rows[k] : k \in 1..(m - 1)}
                  = {thread[i] : i \in 1..(offset + m - 1)}
             /\ Cardinality(items \cup {rows[k] : k \in 1..(m - 1)}) = offset + m - 1
  <2>1. items \cup {rows[k] : k \in 1..(m - 1)} \subseteq {thread[i] : i \in 1..(offset + m - 1)}
    <3>1. \A i \in 1..offset : i \in 1..(offset + m - 1)
      BY <1>1
    <3>2. ASSUME NEW k \in 1..(m - 1)
          PROVE  rows[k] = thread[offset + k] /\ offset + k \in 1..(offset + m - 1)
      <4>1. k \in 1..n
        BY <1>2
      <4>2. offset + k \in 1..(offset + m - 1)
        BY <1>1, <1>2
      <4> QED BY <1>2, <4>1, <4>2
    <3> QED BY <3>1, <3>2
  <2>2. ASSUME NEW i \in 1..(offset + m - 1)
        PROVE  thread[i] \in items \cup {rows[k] : k \in 1..(m - 1)}
    <3>1. CASE i <= offset
      BY <1>1, <3>1
    <3>2. CASE ~(i <= offset)
      <4>1. i - offset \in 1..(m - 1) /\ i - offset \in 1..n /\ offset + (i - offset) = i
        BY <1>1, <1>2, <3>2
      <4>2. rows[i - offset] = thread[i]
        BY <1>2, <4>1
      <4> QED BY <4>1, <4>2
    <3> QED BY <3>1, <3>2
  <2>3. offset + m - 1 \in 0..Len(thread)
    BY <1>1, <1>2
  <2>4. Cardinality({thread[i] : i \in 1..(offset + m - 1)}) = offset + m - 1
    BY <1>1, <2>3, InjectivePrefix
  <2> QED BY <2>1, <2>2, <2>4
<1> DEFINE Before(m) == {rows[k] : k \in 1..(m - 1)}
           read == {m \in 1..n : ~LimitReached(items \cup Before(m))}
<1>5. Taken(rows) = {rows[m] : m \in read} \ items
  BY DEF Taken
<1>6. read = {m \in 1..n : ~(HasLimit /\ offset + m - 1 >= query.limit)}
  <2>1. \A m \in 1..n : m \in 1..(n + 1)
    BY <1>2
  <2>2. \A m \in 1..n : Cardinality(items \cup Before(m)) = offset + m - 1
    BY <1>4, <2>1
  <2> QED BY <2>2 DEF LimitReached
<1> HIDE DEF read
<1>7. CASE ~LimitReached(items \cup Taken(rows))
  <2>1. \A i \in 1..n : rows[i] \in items \cup Taken(rows)
    BY <1>1, <1>2, <1>7, WholeWindowTaken
  <2>2. items \cup Taken(rows) = items \cup {rows[k] : k \in 1..n}
    <3>1. Taken(rows) \subseteq {rows[k] : k \in 1..n}
      BY <1>2, TakenFacts
    <3> QED BY <2>1, <3>1
  <2>3. items \cup Taken(rows) = {thread[i] : i \in 1..(offset + n)}
    <3>1. n + 1 \in 1..(n + 1) /\ (n + 1) - 1 = n /\ offset + (n + 1) - 1 = offset + n
      BY <1>1, <1>2
    <3> QED BY <1>4, <2>2, <3>1
  <2>4. rows[1] = thread[offset + 1] /\ offset + 1 \in 1..Len(thread)
    BY <1>1, <1>2
  <2>5. rows[1] \notin items
    BY <1>1, <1>3, <2>4
  <2>6. Taken(rows) # {}
    BY <1>2, <2>1, <2>5
  <2> QED BY <1>2, <1>7, <2>3, <2>6 DEF rows
<1>8. CASE LimitReached(items \cup Taken(rows)) /\ ~LimitReached(items)
  <2>1. HasLimit /\ query.limit \in Nat \ {0} /\ offset < query.limit
    <3>1. Cardinality(items) = offset
      <4>1. offset \in 0..Len(thread)
        BY <1>1
      <4>2. Cardinality({thread[i] : i \in 1..offset}) = offset
        BY <1>1, <4>1, InjectivePrefix
      <4> QED BY <4>2
    <3>2. HasLimit /\ ~(Cardinality(items) >= query.limit)
      BY <1>8 DEF LimitReached
    <3> QED BY <1>1, <3>1, <3>2 DEF HasLimit
  <2> DEFINE q == Least(n, query.limit - offset)
  <2>2. q \in 1..n /\ q <= query.limit - offset
    BY <1>1, <1>2, <2>1 DEF Least
  <2>3. read = 1..q
    <3>1. \A m \in 1..n : (offset + m - 1 >= query.limit) <=> ~(m <= q)
      BY <1>1, <1>2, <2>1 DEF Least
    <3> QED BY <1>2, <1>6, <2>1, <2>2, <3>1
  <2>4. items \cup Taken(rows) = items \cup {rows[k] : k \in 1..q}
    BY <1>5, <2>3
  <2>5. /\ items \cup Taken(rows) = {thread[i] : i \in 1..(offset + q)}
        /\ Cardinality(items \cup Taken(rows)) = offset + q
    <3>1. q + 1 \in 1..(n + 1) /\ (q + 1) - 1 = q /\ offset + (q + 1) - 1 = offset + q
      BY <1>1, <1>2, <2>2
    <3> HIDE DEF q
    <3> QED BY <1>4, <2>4, <3>1
  <2>6. offset + q = query.limit
    <3>1. offset + q >= query.limit
      BY <1>8, <2>5 DEF LimitReached
    <3> HIDE DEF q
    <3> QED BY <1>1, <1>2, <2>1, <2>2, <3>1
  <2>7. query.limit \in 1..Len(thread)
    <3> HIDE DEF q
    <3> QED BY <1>1, <1>2, <2>1, <2>2, <2>6
  <2> QED BY <1>2, <1>8, <2>5, <2>6, <2>7 DEF rows
<1>9. CASE LimitReached(items \cup Taken(rows)) /\ LimitReached(items)
  BY <1>2, <1>9 DEF rows
<1> QED BY <1>7, <1>8, <1>9

LEMMA OldestNext == IndInv /\ TypeInv' /\ [Next]_vars => Oldest'
<1> SUFFICES ASSUME IndInv, TypeInv', [Next]_vars,
                    (OrderSent = "asc")', honoursFrom', deleted' = {}
             PROVE  /\ phase' = "crawling" =>
                         offset' <= Len(thread') /\ items' = {thread'[i] : i \in 1..offset'}
                    /\ phase' \in {"ended", "returned"} =>
                         /\ "stalled" \notin warnings'
                         /\ "limit" \in warnings' =>
                              /\ query'.limit \in 1..Len(thread')
                              /\ items' = {thread'[i] : i \in 1..query'.limit}
  BY DEF Oldest
<1>0. TypeOK /\ History /\ Oldest
  BY DEF IndInv, TypeInv
<1>1. /\ offset \in Nat /\ Len(thread) \in Nat
  BY <1>0, LenProperties DEF TypeOK
<1>2. CASE FetchWindow
  <2>1. /\ phase = "crawling"
        /\ UNCHANGED <<thread, honoursFrom, churn, query, live0, posted, deleted>>
    BY <1>2, FetchWindowEffect
  <2>2. PICK total \in Totals : FetchEffect(total)
    BY <1>2, FetchWindowEffect
  <2>3. OrderSent = "asc" /\ honoursFrom /\ deleted = {}
    BY <2>1 DEF OrderSent
  <2>4. /\ offset <= Len(thread) /\ items = {thread[i] : i \in 1..offset}
        /\ ~LimitReached(items) /\ IsInjective(thread)
    BY <1>0, <2>1, <2>3 DEF Oldest, TypeOK, History
  <2>5. /\ phase' \in {"crawling", "ended"}
        /\ phase' = "crawling" => AfterWindow(ServedWindow) = "next_window"
        /\ items' = items \cup Taken(ServedWindow)
    BY <2>2 DEF FetchEffect
  <2>6. CASE AfterWindow(ServedWindow) = "empty"
    <3>1. warnings' = {}
      BY <2>2, <2>6 DEF FetchEffect
    <3> QED BY <2>5, <2>6, <3>1
  <2>7. CASE AfterWindow(ServedWindow) = "limit"
    <3>1. LimitReached(items \cup Taken(ServedWindow)) /\ ServedWindow # <<>>
      BY <2>7, AfterWindowCases
    <3>2. /\ query.limit \in 1..Len(thread)
          /\ items \cup Taken(ServedWindow) = {thread[i] : i \in 1..query.limit}
      BY <1>0, <2>3, <2>4, <3>1, NextOldest
    <3>3. "stalled" \notin warnings'
      BY <2>2, <2>7 DEF FetchEffect
    <3> QED BY <2>1, <2>5, <2>7, <3>2, <3>3
  <2>8. CASE AfterWindow(ServedWindow) = "stalled"
    <3>1. /\ ~LimitReached(items \cup Taken(ServedWindow)) /\ ServedWindow # <<>>
          /\ Taken(ServedWindow) = {}
      BY <2>8, AfterWindowCases
    <3> QED BY <1>0, <2>3, <2>4, <3>1, NextOldest
  <2>9. CASE AfterWindow(ServedWindow) = "next_window"
    <3>1. ~LimitReached(items \cup Taken(ServedWindow)) /\ ServedWindow # <<>>
      BY <2>9, AfterWindowCases
    <3>2. /\ offset + Len(ServedWindow) <= Len(thread)
          /\ items \cup Taken(ServedWindow)
               = {thread[i] : i \in 1..(offset + Len(ServedWindow))}
      BY <1>0, <2>3, <2>4, <3>1, NextOldest
    <3>3. warnings' = {} /\ offset' = offset + Len(ServedWindow)
      BY <2>2, <2>9 DEF FetchEffect
    <3> QED BY <2>1, <2>5, <3>2, <3>3
  <2> QED BY <2>6, <2>7, <2>8, <2>9, AfterWindowCases
<1>3. CASE Reconcile
  <2>1. /\ phase = "ended" /\ phase' = "returned"
        /\ UNCHANGED <<thread, honoursFrom, query, items, deleted>>
        /\ warnings' \subseteq warnings \cup {"cap", "no_total", "mismatch"}
    BY <1>3 DEF Reconcile, serverVars, historyVars
  <2>2. OrderSent = "asc"
    BY <2>1 DEF OrderSent
  <2>3. /\ "stalled" \notin warnings
        /\ "limit" \in warnings =>
             /\ query.limit \in 1..Len(thread)
             /\ items = {thread[i] : i \in 1..query.limit}
    BY <1>0, <2>1, <2>2 DEF Oldest
  <2> QED BY <2>1, <2>3
<1>4. CASE FetchFails
  BY <1>4 DEF FetchFails
<1>5. CASE Post
  <2>1. /\ UNCHANGED <<honoursFrom, query, offset, items, live0, deleted, phase>>
        /\ phase = "crawling" /\ Len(thread') = Len(thread) + 1
        /\ \A i \in 1..Len(thread) : thread'[i] = thread[i]
    BY <1>0, <1>5, PostEffect DEF crawlVars
  <2>2. OrderSent = "asc"
    BY <2>1 DEF OrderSent
  <2>3. offset <= Len(thread) /\ items = {thread[i] : i \in 1..offset}
    BY <1>0, <2>1, <2>2 DEF Oldest
  <2>4. \A i \in 1..offset : thread'[i] = thread[i]
    BY <1>1, <2>1, <2>3
  <2> QED BY <1>1, <2>1, <2>3, <2>4
<1>6. CASE Delete
  <2>1. PICK i \in 1..Len(thread) : deleted' = deleted \cup {thread[i]}
    BY <1>6 DEF Delete
  <2> QED BY <2>1
<1>7. CASE UNCHANGED vars
  BY <1>0, <1>7 DEF Oldest, OrderSent, vars, serverVars, crawlVars, historyVars
<1> QED BY <1>2, <1>3, <1>4, <1>5, <1>6, <1>7 DEF Next

LEMMA ProgressNext == IndInv /\ TypeInv' /\ [Next]_vars => Progress'
<1> SUFFICES ASSUME IndInv, TypeInv', [Next]_vars PROVE Progress'
  OBVIOUS
<1>0. TypeOK /\ TypeOK' /\ Progress
  BY DEF IndInv, TypeInv
<1>1. /\ query \in Queries /\ requests \in Nat /\ offset \in Nat /\ thread \in Seq(Comments)
      /\ IsFiniteSet(items) /\ Cardinality(items) \in Nat
  BY <1>0, FiniteItems DEF TypeOK
<1>2. IsFiniteSet(items') /\ Cardinality(items') \in Nat
  BY <1>0, CommentsAssumption, FS_Subset, FS_CardinalityType DEF TypeOK
<1>3. CASE FetchWindow
  <2>1. phase = "crawling"
    BY <1>3, FetchWindowEffect
  <2>2. PICK total \in Totals : FetchEffect(total)
    BY <1>3, FetchWindowEffect
  <2>3. requests <= Cardinality(items)
    BY <1>0, <2>1 DEF Progress
  <2>4. items' = items \cup Taken(ServedWindow) /\ requests' = requests + 1
    BY <2>2 DEF FetchEffect
  <2>5. Cardinality(items) <= Cardinality(items')
    BY <1>2, <2>4, FS_Subset
  <2>6. phase' = "crawling" => Cardinality(items) # Cardinality(items')
    <3>1. SUFFICES ASSUME phase' = "crawling", Cardinality(items) = Cardinality(items')
                   PROVE  FALSE
      OBVIOUS
    <3>2. Taken(ServedWindow) # {}
      BY <2>2, <3>1, AfterWindowCases DEF FetchEffect
    <3>3. Taken(ServedWindow) \cap items = {}
      BY <1>1, ServedWindowIs, TakenFacts
    <3>4. items = items'
      BY <1>2, <2>4, <3>1, FS_Subset
    <3> QED BY <2>4, <3>2, <3>3, <3>4
  <2> QED BY <1>1, <1>2, <2>3, <2>4, <2>5, <2>6 DEF Progress, NoWastedRequest
<1>4. CASE FetchFails \/ Reconcile \/ UNCHANGED vars
  BY <1>0, <1>4 DEF FetchFails, Reconcile, Progress, NoWastedRequest, vars, crawlVars
<1>5. CASE Post \/ Delete
  BY <1>0, <1>5 DEF Post, Delete, crawlVars, Progress, NoWastedRequest
<1> QED BY <1>3, <1>4, <1>5 DEF Next

LEMMA AccountedNext == IndInv /\ TypeInv' /\ [Next]_vars => Accounted'
<1> SUFFICES ASSUME IndInv, TypeInv', [Next]_vars PROVE Accounted'
  OBVIOUS
<1>0. TypeOK /\ TypeOK' /\ Accounted
  BY DEF IndInv, TypeInv
<1>1. CASE FetchWindow
  <2>1. PICK total \in Totals : FetchEffect(total)
    BY <1>1, FetchWindowEffect
  <2>2. phase' # "returned" /\ (phase' = "crawling" => ~truncated')
    BY <2>1 DEF FetchEffect
  <2>3. truncated' => warnings' \cap {"limit", "stalled", "cap"} # {}
    BY <2>1 DEF FetchEffect
  <2>4. capped' => warnings' # {}
    BY <2>1 DEF FetchEffect
  <2> QED BY <2>2, <2>3, <2>4 DEF Accounted, UncertifiedIsAnnounced
<1>2. CASE Reconcile
  <2>1. /\ phase = "ended" /\ phase' = "returned"
        /\ UNCHANGED <<requests, items, expectedTotal>>
        /\ warnings \subseteq warnings'
        /\ requests >= MaxRequests => "cap" \in warnings'
    BY <1>2 DEF Reconcile
  <2>2. truncated' => warnings' \cap {"limit", "stalled", "cap"} # {}
    <3>1. truncated' => truncated \/ requests >= MaxRequests
      BY <1>2 DEF Reconcile
    <3> QED BY <1>0, <2>1, <3>1 DEF Accounted
  <2>3. capped' => warnings' # {}
    <3>1. capped' => capped \/ requests >= MaxRequests
      BY <1>2 DEF Reconcile
    <3> QED BY <1>0, <2>1, <3>1 DEF Accounted
  <2>4. expectedTotal = Unknown => warnings' # {}
    BY <1>2 DEF Reconcile
  <2>5. expectedTotal # Unknown /\ ~capped' /\ Cardinality(items) # expectedTotal
          => warnings' # {}
    BY <1>2 DEF Reconcile, Mismatch
  <2>6. UncertifiedIsAnnounced'
    BY <2>1, <2>2, <2>3, <2>4, <2>5 DEF UncertifiedIsAnnounced, Complete
  <2> QED BY <2>1, <2>2, <2>3, <2>6 DEF Accounted
<1>3. CASE FetchFails
  BY <1>0, <1>3 DEF FetchFails, Accounted, UncertifiedIsAnnounced
<1>4. CASE Post \/ Delete
  BY <1>0, <1>4 DEF Post, Delete, Moving, crawlVars, Accounted, UncertifiedIsAnnounced
<1>5. CASE UNCHANGED vars
  BY <1>0, <1>5 DEF vars, crawlVars, Accounted, UncertifiedIsAnnounced, Complete
<1> QED BY <1>1, <1>2, <1>3, <1>4, <1>5 DEF Next

LEMMA IndNext == IndInv /\ [Next]_vars => IndInv'
<1>1. IndInv /\ [Next]_vars => TypeInv'
  BY TypeNext DEF IndInv
<1> QED
  BY <1>1, HistoryNext, BehindNext, RanDryNext, OldestNext, ProgressNext, AccountedNext
  DEF IndInv

THEOREM Inductive == Spec => []IndInv
BY IndInit, IndNext, PTL DEF Spec

------------------------------------------------------------------------------
(* What follows from it. *)

\* For every thread, window size and interleaving of posts and deletions: a
\* certificate obtained against a total that the first window declared means the
\* crawl holds exactly the thread of that moment, if comments were only posted
\* or only deleted meanwhile (threadCompleteness, cli/questions.go:121).
THEOREM CertificateIsSound == Spec => []CertifiedMeansServed
<1>1. ASSUME IndInv PROVE CertifiedMeansServed
  <2> SUFFICES ASSUME phase = "returned", Complete = "complete", totalOn = 1,
                      posted = {} \/ deleted = {}
               PROVE  items = live0
    BY DEF CertifiedMeansServed, Certified
  <2>1. TypeOK /\ History /\ RanDry
    BY <1>1 DEF IndInv, TypeInv
  <2>2. /\ IsFiniteSet(items) /\ IsFiniteSet(live0)
    BY <2>1, FiniteItems
  <2>3. ~truncated /\ Cardinality(items) = expectedTotal /\ expectedTotal = Cardinality(live0)
    BY <2>1 DEF Complete, History
  <2>4. CASE posted = {}
    <3>1. items \subseteq live0
      BY <2>1, <2>4 DEF History
    <3> QED BY <2>2, <2>3, <3>1, FS_Subset
  <2>5. CASE deleted = {}
    <3>1. live0 \subseteq items
      BY <2>1, <2>3, <2>5 DEF RanDry
    <3> QED BY <2>2, <2>3, <3>1, FS_Subset
  <2> QED BY <2>4, <2>5
<1> QED BY <1>1, Inductive, PTL

\* Paging oldest first is stable (threads.go:30-33): without deletions a crawl
\* in the default order that nothing stopped on purpose holds every comment of
\* its first moment and takes no window for a repeated one, however many
\* comments are posted under it and however few rows are served at once.
THEOREM PostsDoNotHide == Spec => []PostsHideNothing
<1>1. ASSUME IndInv PROVE PostsHideNothing
  <2> SUFFICES ASSUME phase = "returned", query.order # "desc", honoursFrom, deleted = {},
                      warnings \cap {"limit", "cap"} = {}
               PROVE  live0 \subseteq items /\ "stalled" \notin warnings
    BY DEF PostsHideNothing
  <2>1. TypeOK /\ RanDry /\ Oldest /\ Accounted
    BY <1>1 DEF IndInv, TypeInv
  <2>2. OrderSent = "asc"
    BY <2>1, QueryFields DEF TypeOK
  <2>3. "stalled" \notin warnings
    BY <2>1, <2>2 DEF Oldest
  <2>4. ~truncated
    BY <2>1, <2>3 DEF Accounted
  <2>5. ~(requests >= MaxRequests)
    BY <2>1 DEF Accounted
  <2> QED BY <2>1, <2>3, <2>4, <2>5 DEF RanDry
<1> QED BY <1>1, Inductive, PTL

\* Without deletions --limit N in the default order returns the N oldest
\* comments of the thread, neither more nor others.
THEOREM LimitIsTheOldest == Spec => []LimitTakesTheOldest
<1>1. ASSUME IndInv PROVE LimitTakesTheOldest
  <2> SUFFICES ASSUME phase = "returned", query.order # "desc", honoursFrom, deleted = {},
                      "limit" \in warnings
               PROVE  items = {thread[i] : i \in 1..query.limit}
    BY DEF LimitTakesTheOldest
  <2>1. TypeOK /\ Oldest
    BY <1>1 DEF IndInv, TypeInv
  <2>2. OrderSent = "asc"
    BY <2>1, QueryFields DEF TypeOK
  <2> QED BY <2>1, <2>2 DEF Oldest
<1> QED BY <1>1, Inductive, PTL

\* Every request but the last brings a comment that was not held, also from an
\* endpoint that ignores `from` (threads.go:181-193).
THEOREM RequestsAreUseful == Spec => []NoWastedRequest
<1>1. IndInv => NoWastedRequest
  BY DEF IndInv, Progress
<1> QED BY <1>1, Inductive, PTL

\* A result without a certificate always carries a warning.
THEOREM DoubtIsAnnounced == Spec => []UncertifiedIsAnnounced
<1>1. IndInv => UncertifiedIsAnnounced
  BY DEF IndInv, Accounted
<1> QED BY <1>1, Inductive, PTL

\* The crawl implements the promise of every crawl: gathered comments are never
\* lost before the end, a failed crawl hands over nothing, and "complete" is
\* said only of an uncut crawl that gathered as many as were declared.
THEOREM KeepsThePromise == Spec => KeepsPromise
<1>1. Init => Promise!Init
  BY DEF Init, Promise!Init, Verdict
<1>2. ASSUME IndInv, TypeInv', [Next]_vars
      PROVE  [Promise!Next]_(Promise!vars)
  <2>0. TypeOK /\ TypeOK' /\ Accounted
    BY <1>2 DEF IndInv, TypeInv
  <2>1. CASE FetchWindow
    <3>1. phase = "crawling"
      BY <2>1, FetchWindowEffect
    <3>2. PICK total \in Totals : FetchEffect(total)
      BY <2>1, FetchWindowEffect
    <3>3. phase' \in {"crawling", "ended"}
      BY <3>2 DEF FetchEffect
    <3>4. items \subseteq items' /\ items' \subseteq Comments
      BY <2>0, <3>2 DEF FetchEffect, TypeOK
    <3>5. expectedTotal # Unknown => expectedTotal' = expectedTotal
      BY <3>2 DEF FetchEffect
    <3>6. ~truncated
      BY <2>0, <3>1 DEF Accounted
    <3>7. Promise!Gather
      BY <3>1, <3>3, <3>4, <3>5, <3>6 DEF Promise!Gather, Verdict
    <3> QED BY <3>7 DEF Promise!Next
  <2>2. CASE FetchFails
    <3>1. Promise!Abandon
      BY <2>2 DEF FetchFails, Promise!Abandon, Verdict
    <3> QED BY <3>1 DEF Promise!Next
  <2>3. CASE Reconcile
    <3>1. /\ phase = "ended" /\ phase' = "returned"
          /\ UNCHANGED <<items, expectedTotal>> /\ (truncated => truncated')
      BY <2>3 DEF Reconcile
    <3>2. /\ Complete' \in {"complete", "incomplete", "unknown"}
          /\ Complete' = "unknown" <=> expectedTotal' = Unknown
          /\ Complete' = "complete" => ~truncated' /\ Cardinality(items') = expectedTotal'
      BY DEF Complete
    <3>3. Verdict = "open" /\ Verdict' = Complete'
      BY <3>1 DEF Verdict
    <3>4. Promise!Cardinality(items) = Cardinality(items)
      BY DEF Promise!Cardinality, Cardinality
    <3>5. Promise!Return
      BY <3>1, <3>2, <3>3, <3>4 DEF Promise!Return, Promise!Verdicts
    <3> QED BY <3>5 DEF Promise!Next
  <2>4. CASE Post \/ Delete
    <3>1. UNCHANGED <<items, expectedTotal, truncated, phase>> /\ phase = "crawling"
      BY <2>4 DEF Post, Delete, Moving, crawlVars
    <3> QED BY <3>1 DEF Promise!vars, Verdict
  <2>5. CASE UNCHANGED vars
    <3>1. UNCHANGED <<items, expectedTotal, truncated, phase>>
      BY <2>5 DEF vars, crawlVars
    <3>2. Complete' = Complete
      BY <3>1 DEF Complete
    <3> QED BY <3>1, <3>2 DEF Promise!vars, Verdict
  <2> QED BY <1>2, <2>1, <2>2, <2>3, <2>4, <2>5 DEF Next
<1>3. IndInv => TypeInv
  BY DEF IndInv
<1> QED BY <1>1, <1>2, <1>3, Inductive, PTL DEF Spec, KeepsPromise, Promise!Spec

=============================================================================
