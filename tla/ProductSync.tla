------------------------------ MODULE ProductSync ------------------------------
(***************************************************************************)
(* `sync`: every page of the account's products, then the table products.  *)
(* Meanwhile the account gains and loses products, and what is listed      *)
(* behind them moves.                                                      *)
(***************************************************************************)
EXTENDS Jobs

CONSTANTS
  Products, \* how many products there are to buy
  Bought,   \* how many of them the account holds at first
  PageSize, \* products on a page of the API
  MaxPages, \* the code's 200
  MaxMoves  \* bound: purchases and refunds

ASSUME ProductSyncAssumption ==
  /\ Products \in Nat
  /\ Bought \in 0..Products
  /\ PageSize \in Nat \ {0}
  /\ MaxPages \in Nat \ {0}
  /\ MaxMoves \in Nat

VARIABLES
  account, \* the account's products, in the API's order
  moves,   \* purchases and refunds so far
  stayed   \* history: what a sync found at its start, {} once the account shrank during its walk

accountVars == <<account, moves, stayed>>

Owned == {account[i] : i \in 1..Len(account)}
ProductRow(x) == [kind |-> "product", id |-> x, parent |-> 0]

\* The database is opened after the last page.
StartSync(p) ==
  /\ StartJob(p, [Idle EXCEPT !.cmd = "sync", !.pc = "asking", !.kinds = <<"product">>,
                              !.save = TRUE])
  /\ stayed' = [stayed EXCEPT ![p] = Owned]
  /\ UNCHANGED <<account, moves>>

OnPage(n) == {account[i] : i \in {k \in 1..Len(account) :
                                    (n - 1) * PageSize < k /\ k <= n * PageSize}}
HasNext(n) == Len(account) > n * PageSize

\* A mutant: the cap is as good an end as the last page.
CapIsEnough(j) ==
  CASE ~HasNext(j.at) \/ j.at = MaxPages -> Saving(j, 1)
    [] HasNext(j.at) /\ j.at < MaxPages   -> [j EXCEPT !.at = @ + 1]

\* A mutant: one page too many.
CapComesLate(j) ==
  CASE ~HasNext(j.at)                    -> Saving(j, 1)
    [] HasNext(j.at) /\ j.at <= MaxPages -> [j EXCEPT !.at = @ + 1]
    [] HasNext(j.at) /\ j.at > MaxPages  -> Failed(j, "cap")

\* What FetchAllProducts does after a page: the last one ends it, page MaxPages
\* with another behind it is an error.
TurnPage(j) ==
  CASE ~HasNext(j.at)                    -> Saving(j, 1)
    [] HasNext(j.at) /\ j.at < MaxPages -> [j EXCEPT !.at = @ + 1]
    [] HasNext(j.at) /\ j.at = MaxPages -> Failed(j, "cap")

Gained(j) == [j EXCEPT !.got = @ \cup {ProductRow(x) : x \in OnPage(j.at)}]

FetchProductsPage(p) ==
  /\ In(p, "sync", "asking")
  /\ \/ Unanswered(p)
     \/ Answer(p, TurnPage(Gained(job[p])))
  /\ UNCHANGED accountVars

------------------------------------------------------------------------------
(* The account, with its owner at AppSumo's own pages: what happens between the pages of a sync. *)

Walked == \E p \in Procs : In(p, "sync", "asking")

Buy ==
  /\ Walked
  /\ moves < MaxMoves
  /\ \E x \in (1..Products) \ Owned, i \in 0..Len(account) :
       account' = SubSeq(account, 1, i) \o <<x>> \o SubSeq(account, i + 1, Len(account))
  /\ moves' = moves + 1
  /\ UNCHANGED <<stayed, job, storeVars, lost>>

Refund ==
  /\ Walked
  /\ moves < MaxMoves
  /\ \E i \in 1..Len(account) :
       account' = SubSeq(account, 1, i - 1) \o SubSeq(account, i + 1, Len(account))
  /\ moves' = moves + 1
  /\ stayed' = [p \in Procs |-> IF In(p, "sync", "asking") THEN {} ELSE stayed[p]]
  /\ UNCHANGED <<job, storeVars, lost>>

SyncStep(p) == StartSync(p) \/ FetchProductsPage(p)

=============================================================================
