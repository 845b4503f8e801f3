-------------------------- MODULE AdvisorPageProofs --------------------------
(***************************************************************************)
(* Proofs about the page AdvisorHub keeps, for every number of processes,  *)
(* runs, weeks, edits and faults: its types, that the archive never        *)
(* repeats itself, and what page and archive hold after undisturbed runs.  *)
(***************************************************************************)
EXTENDS AdvisorHubProofs, ListLemmas

------------------------------------------------------------------------------
(* Types. *)

\* A run that has read the page.
SyncRuns == [phase : SyncPhases, n : 1..MaxRuns, archive : BOOLEAN, doomed : SUBSET Nat,
             prior : Entries \cup {Nothing}]

RunFits(p) ==
  /\ run[p].phase \in SyncPhases => run[p] \in SyncRuns
  /\ run[p].phase \in EarlyPhases => run[p].week <= week
  /\ run[p].phase = "archiving" => run[p].prior # Nothing
  /\ Underway(p) => run[p].n \in 1..runs

SmallTyped ==
  /\ markers \subseteq 1..week /\ done \in BOOLEAN
  /\ edits \in 0..MaxEdits /\ faults \in 0..MaxFaults
  /\ trouble \subseteq Troubles /\ published \subseteq 1..runs

BlocksTyped == page \subseteq Blocks /\ written \subseteq Blocks /\ archived \in Seq(Entries)

TypesInv == PlainInv /\ SmallTyped /\ BlocksTyped /\ \A p \in Procs : RunFits(p)

LEMMA TypesSuffice == TypesInv => TypeOK
<1> SUFFICES ASSUME TypesInv PROVE TypeOK
  OBVIOUS
<1>1. Typed /\ PageTyped
  BY DEF TypesInv, PlainInv
<1>2. made \in Nat /\ \A b, c \in page : b.id <= made /\ (b.id = c.id => b = c)
  BY <1>1 DEF PageTyped
<1>3. /\ week \in 1..MaxWeeks /\ receipts \in [1..MaxWeeks -> 0..MaxRuns]
      /\ state \in 0..MaxRuns /\ runs \in 0..MaxRuns
  BY <1>1 DEF Typed, FilesTyped
<1> QED BY <1>2, <1>3 DEF TypesInv, SmallTyped, BlocksTyped, RunFits, TypeOK

LEMMA TypesInit == Init => TypesInv
<1> SUFFICES ASSUME Init PROVE TypesInv
  OBVIOUS
<1>0. MaxRuns \in Nat /\ MaxEdits \in Nat /\ MaxFaults \in Nat
  BY HubBounds
<1>1. SmallTyped
  <2>1. edits \in 0..MaxEdits /\ faults \in 0..MaxFaults
    BY <1>0 DEF Init
  <2>2. /\ markers \subseteq 1..week /\ done \in BOOLEAN
        /\ trouble \subseteq Troubles /\ published \subseteq 1..runs
    BY DEF Init
  <2> QED BY <2>1, <2>2 DEF SmallTyped
<1>2. BlocksTyped
  BY <1>0 DEF Init, BlocksTyped, Blocks, Kinds
<1>3. \A p \in Procs : RunFits(p)
  BY DEF Init, Idle, RunFits, Underway, SyncPhases, EarlyPhases
<1> QED BY <1>1, <1>2, <1>3, PlainInit DEF TypesInv

\* A nonempty set of positions has a last one.
LEMMA LastOfPositions ==
  ASSUME NEW N \in Nat, NEW S, S \subseteq 1..N, S # {}
  PROVE  \E x \in S : \A y \in S : y <= x
<1> DEFINE places == {N - x : x \in S}
<1>1. \A x \in S : N - x \in Nat
  OBVIOUS
<1>2. places \subseteq Nat /\ places # {}
  BY <1>1
<1>3. PICK m \in places : \A n \in places : m <= n
  <2> HIDE DEF places
  <2> QED BY <1>2, FirstPlace
<1>4. PICK x \in S : m = N - x
  OBVIOUS
<1>5. \A y \in S : N - x <= N - y
  BY <1>3, <1>4
<1>6. \A y \in S : y <= x
  BY <1>5
<1> QED BY <1>6

\* The last headline is one.
LEMMA LastHeadlineIsLast ==
  ASSUME PageTyped, Headlines # {}
  PROVE  LastHeadline \in Headlines /\ \A c \in Headlines : c.id <= LastHeadline.id
<1> DEFINE ids == {b.id : b \in Headlines}
<1>1. \A b \in Headlines : b.id \in 1..made
  BY DEF Headlines, Read, PageTyped
<1>2. ids \subseteq 1..made /\ ids # {} /\ made \in Nat
  BY <1>1 DEF PageTyped
<1>3. PICK last \in ids : \A i \in ids : i <= last
  <2> HIDE DEF ids
  <2> QED BY <1>2, LastOfPositions
<1>4. PICK b \in Headlines : \A c \in Headlines : c.id <= b.id
  BY <1>3
<1> QED BY <1>4 DEF LastHeadline

LEMMA PriorTyped ==
  ASSUME PageTyped, page \subseteq Blocks
  PROVE  /\ Prior \in Entries \cup {Nothing}
         /\ Headlines # {} => Prior \in Entries
<1>1. \A b \in Read : b.of \in 0..MaxRuns
  BY DEF Read, Blocks
<1>2. CASE Headlines = {}
  BY <1>2 DEF Prior
<1>3. CASE Headlines # {}
  <2>1. LastHeadline.of \in 0..MaxRuns
    BY <1>1, <1>3, LastHeadlineIsLast DEF Headlines
  <2> DEFINE items == {b.of : b \in {c \in Read : LooksLikeItem(c)}}
  <2>2. items \subseteq 0..MaxRuns
    BY <1>1
  <2>3. Prior = [of |-> LastHeadline.of, items |-> items]
    BY <1>3 DEF Prior
  <2> HIDE DEF items
  <2> QED BY <2>1, <2>2, <2>3 DEF Entries
<1> QED BY <1>2, <1>3

------------------------------------------------------------------------------
(* What steps do to runs and page. *)

LEMMA BecomesAt ==
  ASSUME Typed, NEW p \in Procs, NEW r, Becomes(p, r)
  PROVE  run'[p] = r /\ \A q \in Procs : q # p => run'[q] = run[q]
BY DEF Becomes, Typed, RunsTyped

\* A run that has read the page keeps what it holds when it moves.
LEMMA MovesAt ==
  ASSUME Typed, NEW p \in Procs, run[p] \in SyncRuns, NEW phase \in SyncPhases,
         MovesTo(p, phase)
  PROVE  /\ run'[p] \in SyncRuns /\ run'[p].phase = phase
         /\ run'[p].n = run[p].n /\ run'[p].archive = run[p].archive
         /\ run'[p].doomed = run[p].doomed /\ run'[p].prior = run[p].prior
         /\ \A q \in Procs : q # p => run'[q] = run[q]
<1>1. run' = [run EXCEPT ![p] = [run[p] EXCEPT !.phase = phase]]
  BY DEF MovesTo
<1>2. /\ run'[p] = [run[p] EXCEPT !.phase = phase]
      /\ \A q \in Procs : q # p => run'[q] = run[q]
  BY <1>1 DEF Typed, RunsTyped
<1> QED BY <1>2 DEF SyncRuns

LEMMA SpendsAt ==
  ASSUME Typed, NEW p \in Procs, run[p] \in SyncRuns, NEW id,
         run' = [run EXCEPT ![p].doomed = @ \ {id}]
  PROVE  /\ run'[p] \in SyncRuns /\ run'[p].phase = run[p].phase
         /\ run'[p].n = run[p].n /\ run'[p].archive = run[p].archive
         /\ run'[p].doomed = run[p].doomed \ {id} /\ run'[p].prior = run[p].prior
         /\ \A q \in Procs : q # p => run'[q] = run[q]
<1>1. /\ run'[p] = [run[p] EXCEPT !.doomed = run[p].doomed \ {id}]
      /\ \A q \in Procs : q # p => run'[q] = run[q]
  BY DEF Typed, RunsTyped
<1> QED BY <1>1 DEF SyncRuns

\* A request to append, applied n times.
LEMMA AddOne ==
  ASSUME made \in Nat, NEW n \in Nat, NEW kind, NEW of, AddToPage(<<Block(kind, of)>>, n)
  PROVE  /\ made' = made + n
         /\ page' = page \cup {[id |-> made + i, kind |-> kind, of |-> of] : i \in 1..n}
<1> DEFINE blocks == <<Block(kind, of)>>
           Added(i) == blocks[((i - 1) % Len(blocks)) + 1]
<1>1. Len(blocks) = 1 /\ blocks[1] = [kind |-> kind, of |-> of]
  BY DEF Block
<1>2. AddToPage(blocks, n)
  OBVIOUS
<1> HIDE DEF blocks
<1>3. n * Len(blocks) = n
  BY <1>1
<1>4. \A i \in 1..n : ((i - 1) % 1) + 1 = 1
  OBVIOUS
<1>5. \A i \in 1..n : Added(i).kind = kind /\ Added(i).of = of
  BY <1>1, <1>4
<1>6. page' = page \cup {[id |-> made + i, kind |-> Added(i).kind, of |-> Added(i).of] :
                          i \in 1..n}
  BY <1>2, <1>3 DEF AddToPage
<1> HIDE DEF Added
<1>7. {[id |-> made + i, kind |-> Added(i).kind, of |-> Added(i).of] : i \in 1..n} =
        {[id |-> made + i, kind |-> kind, of |-> of] : i \in 1..n}
  BY <1>5
<1> QED BY <1>2, <1>3, <1>6, <1>7 DEF AddToPage

\* Blocks that n times a verdict of a run may add.
Verdicts(n, of) ==
  {[id |-> made + i, kind |-> kind, of |-> of] : i \in 1..(2 * n), kind \in {"headline", "item"}}

LEMMA AddTwo ==
  ASSUME made \in Nat, NEW n \in Nat, NEW of,
         AddToPage(<<Block("headline", of), Block("item", of)>>, n)
  PROVE  /\ made' = made + 2 * n
         /\ page \subseteq page' /\ page' \subseteq page \cup Verdicts(n, of)
<1> DEFINE blocks == <<Block("headline", of), Block("item", of)>>
           Added(i) == blocks[((i - 1) % Len(blocks)) + 1]
           new == {[id |-> made + i, kind |-> Added(i).kind, of |-> Added(i).of] :
                     i \in 1..(2 * n)}
<1>1. /\ Len(blocks) = 2 /\ blocks[1] = [kind |-> "headline", of |-> of]
      /\ blocks[2] = [kind |-> "item", of |-> of]
  BY DEF Block
<1>2. AddToPage(blocks, n)
  OBVIOUS
<1> HIDE DEF blocks
<1>3. n * Len(blocks) = 2 * n
  BY <1>1
<1>4. page' = page \cup new /\ made' = made + 2 * n
  BY <1>2, <1>3 DEF AddToPage
<1>5. ASSUME NEW i \in 1..(2 * n)
      PROVE  Added(i).kind \in {"headline", "item"} /\ Added(i).of = of
  <2>1. (i - 1) % 2 \in {0, 1}
    OBVIOUS
  <2> QED BY <1>1, <2>1
<1>6. \A b \in new : \E i \in 1..(2 * n) :
        b = [id |-> made + i, kind |-> Added(i).kind, of |-> Added(i).of]
  OBVIOUS
<1> HIDE DEF Added, new
<1>7. \A b \in new : b \in Verdicts(n, of)
  BY <1>5, <1>6 DEF Verdicts
<1> QED BY <1>4, <1>7

LEMMA AddTwoOnce ==
  ASSUME made \in Nat, NEW of, AddToPage(<<Block("headline", of), Block("item", of)>>, 1)
  PROVE  /\ made' = made + 2
         /\ page' = page \cup {[id |-> made + 1, kind |-> "headline", of |-> of],
                               [id |-> made + 2, kind |-> "item", of |-> of]}
<1> DEFINE blocks == <<Block("headline", of), Block("item", of)>>
           Added(i) == blocks[((i - 1) % Len(blocks)) + 1]
<1>1. /\ Len(blocks) = 2 /\ blocks[1] = [kind |-> "headline", of |-> of]
      /\ blocks[2] = [kind |-> "item", of |-> of]
  BY DEF Block
<1>2. AddToPage(blocks, 1)
  OBVIOUS
<1> HIDE DEF blocks
<1>3. 1 * Len(blocks) = 2 /\ 1..2 = {1, 2}
  BY <1>1
<1>4. Added(1) = blocks[1] /\ Added(2) = blocks[2]
  <2>1. (1 - 1) % 2 = 0 /\ (2 - 1) % 2 = 1
    OBVIOUS
  <2> QED BY <1>1, <2>1
<1>5. page' = page \cup {[id |-> made + i, kind |-> Added(i).kind, of |-> Added(i).of] :
                          i \in {1, 2}}
  BY <1>2, <1>3 DEF AddToPage
<1> HIDE DEF Added
<1>6. page' = page \cup {[id |-> made + 1, kind |-> Added(1).kind, of |-> Added(1).of],
                         [id |-> made + 2, kind |-> Added(2).kind, of |-> Added(2).of]}
  BY <1>5
<1> QED BY <1>1, <1>2, <1>3, <1>4, <1>6 DEF AddToPage

------------------------------------------------------------------------------
(* Types are kept. *)

LEMMA SyncAt ==
  ASSUME TypesInv, NEW p \in Procs, run[p].phase \in SyncPhases
  PROVE  /\ run[p] \in SyncRuns /\ run[p].n \in 1..runs /\ runs \in 0..MaxRuns
         /\ MaxRuns \in Nat /\ run[p].n \in 1..MaxRuns
<1>1. run[p] \in SyncRuns /\ run[p].n \in 1..runs
  BY DEF TypesInv, RunFits, Underway, SyncPhases
<1>2. runs \in 0..MaxRuns /\ MaxRuns \in Nat
  BY HubBounds DEF TypesInv, PlainInv, Typed, FilesTyped
<1> QED BY <1>1, <1>2

\* Faults and troubles stay within their bounds.
LEMMA GoesTyped ==
  ASSUME SmallTyped, \E wrong \in BOOLEAN : Goes(wrong)
  PROVE  faults' \in 0..MaxFaults /\ trouble' \subseteq Troubles
<1>1. MaxFaults \in Nat /\ faults \in 0..MaxFaults /\ trouble \subseteq Troubles
  BY HubBounds DEF SmallTyped
<1>2. "request" \in Troubles
  BY DEF Troubles
<1> QED BY <1>1, <1>2 DEF Goes, Disturbs

LEMMA NextSmall == TypesInv /\ [Next]_vars => SmallTyped'
<1> SUFFICES ASSUME TypesInv, [Next]_vars PROVE SmallTyped'
  OBVIOUS
<1>0. /\ SmallTyped /\ runs \in 0..MaxRuns /\ MaxRuns \in Nat /\ MaxFaults \in Nat
      /\ week \in 1..MaxWeeks /\ MaxWeeks \in Nat /\ MaxEdits \in Nat
  BY HubBounds DEF TypesInv, PlainInv, Typed, FilesTyped
<1>1. {"overlap", "long_page", "crash", "rewrite", "race"} \subseteq Troubles
  BY DEF Troubles
<1>2. ASSUME NEW p \in Procs, RunStep(p) PROVE SmallTyped'
  <2>1. CASE Start(p)
    <3>1. runs' = runs + 1 /\ UNCHANGED <<week, markers, done, edits, faults, published>>
      BY <2>1 DEF Start, fileVars, pageVars
    <3>2. trouble' \subseteq Troubles
      BY <1>0, <1>1, <2>1 DEF Start, SmallTyped
    <3>3. published \subseteq 1..runs'
      BY <1>0, <3>1 DEF SmallTyped
    <3> QED BY <1>0, <3>1, <3>2, <3>3 DEF SmallTyped
  <2>2. CASE Leave(p)
    BY <1>0, <2>2 DEF Leave, SmallTyped, fileVars, pageVars
  <2>3. CASE WriteReceipt(p)
    BY <1>0, <2>3 DEF WriteReceipt, SmallTyped, pageVars
  <2>4. CASE WriteState(p)
    BY <1>0, <2>4 DEF WriteState, SmallTyped, pageVars
  <2>5. CASE MarkWeek(p)
    <3>1. run[p].phase \in EarlyPhases
      BY <2>5 DEF MarkWeek, EarlyPhases
    <3>2. run[p].week \in 1..MaxWeeks /\ run[p].week <= week
      BY <3>1, EarlyFields DEF TypesInv, PlainInv, RunFits
    <3>3. run[p].week \in 1..week
      BY <1>0, <3>2
    <3> QED BY <1>0, <2>5, <3>3 DEF MarkWeek, SmallTyped, pageVars
  <2>6. CASE ReadFails(p)
    BY <1>0, <2>6, GoesTyped DEF ReadFails, SmallTyped, fileVars, pageVars
  <2>7. CASE ReadPage(p)
    BY <1>0, <1>1, <2>7 DEF ReadPage, SmallTyped, fileVars, pageVars
  <2>8. CASE InitZone(p)
    <3>1. faults' \in 0..MaxFaults /\ trouble' \subseteq Troubles
      BY <1>0, <2>8, GoesTyped DEF InitZone
    <3> QED BY <1>0, <2>8, <3>1 DEF InitZone, SmallTyped, fileVars
  <2>9. CASE DeletePrior(p)
    <3>1. faults' \in 0..MaxFaults /\ trouble' \subseteq Troubles
      BY <1>0, <2>9, GoesTyped DEF DeletePrior
    <3> QED BY <1>0, <2>9, <3>1 DEF DeletePrior, SmallTyped, fileVars
  <2>10. CASE AppendVerdict(p)
    <3>1. faults' \in 0..MaxFaults /\ trouble' \subseteq Troubles
      BY <1>0, <2>10, GoesTyped DEF AppendVerdict
    <3>2. run[p].n \in 1..runs
      BY <2>10, SyncAt DEF AppendVerdict, SyncPhases
    <3>3. published' \subseteq 1..runs
      BY <1>0, <2>10, <3>2 DEF AppendVerdict, SmallTyped
    <3> QED BY <1>0, <2>10, <3>1, <3>3 DEF AppendVerdict, SmallTyped, fileVars
  <2>11. CASE ArchivePrior(p)
    <3>1. faults' \in 0..MaxFaults /\ trouble' \subseteq Troubles
      BY <1>0, <2>11, GoesTyped DEF ArchivePrior
    <3> QED BY <1>0, <2>11, <3>1 DEF ArchivePrior, SmallTyped, fileVars
  <2>12. CASE SetTitle(p)
    <3>1. faults' \in 0..MaxFaults /\ trouble' \subseteq Troubles
      BY <1>0, <2>12, GoesTyped DEF SetTitle
    <3>2. done' \in BOOLEAN
      BY <1>0, <2>12 DEF SetTitle, SmallTyped
    <3> QED BY <1>0, <2>12, <3>1, <3>2 DEF SetTitle, SmallTyped, fileVars
  <2>13. CASE Crash(p)
    <3>1. faults' \in 0..MaxFaults /\ trouble' \subseteq Troubles
      BY <1>0, <1>1, <2>13 DEF Crash, Disturbs, SmallTyped
    <3> QED BY <1>0, <2>13, <3>1 DEF Crash, SmallTyped, fileVars, pageVars
  <2> QED BY <1>2, <2>1, <2>2, <2>3, <2>4, <2>5, <2>6, <2>7, <2>8, <2>9, <2>10, <2>11,
             <2>12, <2>13 DEF RunStep
<1>3. CASE NewWeek
  <2>1. week' = week + 1 /\ markers \subseteq 1..week'
    BY <1>0, <1>3 DEF NewWeek, SmallTyped
  <2> QED BY <1>0, <1>3, <2>1 DEF NewWeek, SmallTyped, fileVars, pageVars
<1>4. CASE WriteNote
  <2>1. edits' \in 0..MaxEdits
    BY <1>0, <1>4 DEF WriteNote, SmallTyped
  <2> QED BY <1>0, <1>4, <2>1 DEF WriteNote, SmallTyped, fileVars
<1>5. CASE Rewrite
  <2>1. edits' \in 0..MaxEdits
    BY <1>0, <1>5 DEF Rewrite, SmallTyped
  <2>2. trouble' \subseteq Troubles
    BY <1>0, <1>1, <1>5 DEF Rewrite, SmallTyped
  <2> QED BY <1>0, <1>5, <2>1, <2>2 DEF Rewrite, SmallTyped, fileVars
<1>6. CASE UNCHANGED vars
  BY <1>0, <1>6 DEF vars, SmallTyped, fileVars, pageVars
<1> QED BY <1>2, <1>3, <1>4, <1>5, <1>6 DEF Next

\* What a step adds to the page is made of blocks.
LEMMA AddedBlocks ==
  ASSUME BlocksTyped, made \in Nat, NEW n \in Nat,
         \/ \E kind \in Kinds, of \in 0..MaxRuns : AddToPage(<<Block(kind, of)>>, n)
         \/ \E of \in 0..MaxRuns : AddToPage(<<Block("headline", of), Block("item", of)>>, n)
  PROVE  page' \subseteq Blocks
<1>1. ASSUME NEW kind \in Kinds, NEW of \in 0..MaxRuns, AddToPage(<<Block(kind, of)>>, n)
      PROVE  page' \subseteq Blocks
  <2>1. page' = page \cup {[id |-> made + i, kind |-> kind, of |-> of] : i \in 1..n}
    BY <1>1, AddOne
  <2>2. \A i \in 1..n : [id |-> made + i, kind |-> kind, of |-> of] \in Blocks
    BY DEF Blocks
  <2> QED BY <2>1, <2>2 DEF BlocksTyped
<1>2. ASSUME NEW of \in 0..MaxRuns,
             AddToPage(<<Block("headline", of), Block("item", of)>>, n)
      PROVE  page' \subseteq Blocks
  <2>1. page' \subseteq page \cup Verdicts(n, of)
    BY <1>2, AddTwo
  <2>2. \A i \in 1..(2 * n), kind \in {"headline", "item"} :
          [id |-> made + i, kind |-> kind, of |-> of] \in Blocks
    BY DEF Blocks, Kinds
  <2>3. ASSUME NEW b \in Verdicts(n, of) PROVE b \in Blocks
    <3>1. PICK i \in 1..(2 * n), kind \in {"headline", "item"} :
            b = [id |-> made + i, kind |-> kind, of |-> of]
      BY DEF Verdicts
    <3> QED BY <2>2, <3>1
  <2> QED BY <2>1, <2>3 DEF BlocksTyped
<1> QED BY <1>1, <1>2

LEMMA NextBlocks == TypesInv /\ [Next]_vars => BlocksTyped'
<1> SUFFICES ASSUME TypesInv, [Next]_vars PROVE BlocksTyped'
  OBVIOUS
<1>0. BlocksTyped /\ made \in Nat /\ MaxRuns \in Nat
  BY HubBounds DEF TypesInv, PlainInv, PageTyped
<1>1. ASSUME UNCHANGED <<page, written, archived>> PROVE BlocksTyped'
  BY <1>0, <1>1 DEF BlocksTyped
<1>2. \A n \in TimesApplied : n \in Nat
  BY AttemptsAreNat
<1>3. ASSUME NEW p \in Procs, RunStep(p) PROVE BlocksTyped'
  <2>1. CASE \/ Start(p) \/ Leave(p) \/ WriteReceipt(p) \/ WriteState(p) \/ MarkWeek(p)
             \/ ReadFails(p) \/ ReadPage(p) \/ Crash(p)
    BY <1>1, <2>1 DEF Start, Leave, WriteReceipt, WriteState, MarkWeek, ReadFails, ReadPage,
                      Crash, pageVars
  <2>2. CASE SetTitle(p)
    BY <1>1, <2>2 DEF SetTitle
  <2>3. CASE InitZone(p)
    <3>1. PICK n \in TimesApplied : AddToPage(<<Block("zone", 0)>>, n)
      BY <2>3 DEF InitZone
    <3>2. "zone" \in Kinds /\ 0 \in 0..MaxRuns
      BY <1>0 DEF Kinds
    <3>3. page' \subseteq Blocks
      BY <1>0, <1>2, <3>1, <3>2, AddedBlocks
    <3> QED BY <1>0, <2>3, <3>3 DEF InitZone, BlocksTyped
  <2>4. CASE DeletePrior(p)
    BY <1>0, <2>4 DEF DeletePrior, BlocksTyped
  <2>5. CASE AppendVerdict(p)
    <3>1. PICK n \in TimesApplied :
            AddToPage(<<Block("headline", run[p].n), Block("item", run[p].n)>>, n)
      BY <2>5 DEF AppendVerdict
    <3>2. run[p].n \in 1..MaxRuns
      BY <2>5, SyncAt DEF AppendVerdict, SyncPhases
    <3>3. run[p].n \in 0..MaxRuns
      BY <1>0, <3>2
    <3>4. page' \subseteq Blocks
      BY <1>0, <1>2, <3>1, <3>3, AddedBlocks
    <3> QED BY <1>0, <2>5, <3>4 DEF AppendVerdict, BlocksTyped
  <2>6. CASE ArchivePrior(p)
    <3>1. PICK n \in TimesApplied :
            /\ archived' = archived \o [i \in 1..n |-> run[p].prior]
            /\ IF run[p].archive THEN UNCHANGED <<page, made>>
                                 ELSE AddToPage(<<Block("archive", 0)>>, n)
      BY <2>6 DEF ArchivePrior
    <3>2. "archive" \in Kinds /\ 0 \in 0..MaxRuns
      BY <1>0 DEF Kinds
    <3>3. page' \subseteq Blocks
      BY <1>0, <1>2, <3>1, <3>2, AddedBlocks DEF BlocksTyped
    <3>4. run[p].prior \in Entries
      <4>1. run[p] \in SyncRuns /\ run[p].prior # Nothing
        BY <2>6, SyncAt DEF ArchivePrior, SyncPhases, TypesInv, RunFits
      <4> QED BY <4>1 DEF SyncRuns
    <3>5. [i \in 1..n |-> run[p].prior] \in Seq(Entries)
      BY <1>2, <3>4
    <3>6. archived' \in Seq(Entries)
      <4> DEFINE more == [i \in 1..n |-> run[p].prior]
      <4>1. archived' = archived \o more /\ more \in Seq(Entries) /\ archived \in Seq(Entries)
        BY <1>0, <3>1, <3>5 DEF BlocksTyped
      <4> HIDE DEF more
      <4> QED BY <4>1
    <3> QED BY <1>0, <2>6, <3>3, <3>6 DEF ArchivePrior, BlocksTyped
  <2> QED BY <1>3, <2>1, <2>2, <2>3, <2>4, <2>5, <2>6 DEF RunStep
<1>4. CASE NewWeek \/ UNCHANGED vars
  BY <1>1, <1>4 DEF NewWeek, vars, pageVars
<1>5. CASE WriteNote
  <2>1. PICK kind \in {"plain", "bullet", "priced"} :
          /\ AddToPage(<<Block(kind, 0)>>, 1)
          /\ written' = written \cup {[id |-> made + 1, kind |-> kind, of |-> 0]}
    BY <1>5 DEF WriteNote
  <2>2. kind \in Kinds /\ 0 \in 0..MaxRuns
    BY <1>0 DEF Kinds
  <2>3. page' \subseteq Blocks
    BY <1>0, <2>1, <2>2, AddedBlocks
  <2>4. [id |-> made + 1, kind |-> kind, of |-> 0] \in Blocks
    BY <1>0, <2>2 DEF Blocks
  <2> QED BY <1>0, <1>5, <2>1, <2>3, <2>4 DEF WriteNote, BlocksTyped
<1>6. CASE Rewrite
  <2>1. PICK old \in page :
          LET new == [id |-> old.id, kind |-> "plain", of |-> 0]
          IN  page' = (page \ {old}) \cup {new} /\ written' = written \cup {new}
    BY <1>6 DEF Rewrite
  <2>2. [id |-> old.id, kind |-> "plain", of |-> 0] \in Blocks
    BY <1>0 DEF BlocksTyped, Blocks, Kinds
  <2> QED BY <1>0, <1>6, <2>1, <2>2 DEF Rewrite, BlocksTyped
<1> QED BY <1>3, <1>4, <1>5, <1>6 DEF Next

LEMMA NextFits ==
  TypesInv /\ [Next]_vars => \A q \in Procs : RunFits(q)'
<1> SUFFICES ASSUME TypesInv, [Next]_vars, NEW q \in Procs PROVE RunFits(q)'
  OBVIOUS
<1>0. /\ Typed /\ Typed' /\ \A p \in Procs : RunFits(p)
      /\ runs \in 0..MaxRuns /\ MaxRuns \in Nat /\ week \in 1..MaxWeeks /\ week \in Nat
  <2>1. Typed /\ Typed' /\ \A p \in Procs : RunFits(p)
    BY TypedNext DEF TypesInv, PlainInv
  <2>2. MaxRuns \in Nat /\ MaxWeeks \in Nat
    BY HubBounds
  <2>3. runs \in 0..MaxRuns /\ week \in 1..MaxWeeks
    BY <2>1 DEF Typed, FilesTyped
  <2> QED BY <2>1, <2>2, <2>3
<1>1. /\ EarlyPhases \cap SyncPhases = {} /\ "idle" \notin EarlyPhases \cup SyncPhases
      /\ "archiving" \in SyncPhases /\ Idle.phase = "idle"
  BY DEF EarlyPhases, SyncPhases, Idle
<1>2. ASSUME run'[q] = run[q], week' \in {week, week + 1}, runs' \in {runs, runs + 1}
      PROVE  RunFits(q)'
  <2>1. run[q].phase \in EarlyPhases => run[q].week \in 1..MaxWeeks
    BY <1>0, EarlyFields
  <2>2. run[q].phase \in EarlyPhases => run[q].week <= week'
    BY <1>0, <1>2, <2>1 DEF RunFits
  <2>3. Underway(q) => run[q].n \in 1..runs'
    BY <1>0, <1>2 DEF RunFits
  <2> QED BY <1>0, <1>2, <2>2, <2>3 DEF RunFits, Underway
<1>3. ASSUME run'[q] = Idle PROVE RunFits(q)'
  BY <1>1, <1>3 DEF RunFits, Underway
<1>4. ASSUME NEW p \in Procs, RunStep(p) PROVE RunFits(q)'
  <2>1. ASSUME NEW r, Becomes(p, r), week' = week, runs' \in {runs, runs + 1},
               p = q /\ run'[p] = r => RunFits(p)'
        PROVE  RunFits(q)'
    <3>1. run'[p] = r /\ (q # p => run'[q] = run[q])
      BY <1>0, <2>1, BecomesAt
    <3> QED BY <1>2, <2>1, <3>1
  <2>2. ASSUME run[p].phase \in EarlyPhases, NEW phase \in EarlyPhases, MovesTo(p, phase),
               week' = week, runs' = runs
        PROVE  RunFits(q)'
    <3>1. /\ run'[p].phase = phase /\ run'[p].n = run[p].n /\ run'[p].week = run[p].week
      <4>1. run'[p] = [phase |-> phase, n |-> run[p].n, week |-> run[p].week,
                       forced |-> run[p].forced]
        BY <1>0, <2>2, EarlyMoves
      <4> QED BY <4>1
    <3>2. run[p].n \in 1..runs /\ run[p].week <= week
      BY <1>0, <1>1, <2>2 DEF RunFits, Underway
    <3>3. RunFits(p)'
      BY <1>1, <2>2, <3>1, <3>2 DEF RunFits
    <3>4. q # p => run'[q] = run[q]
      BY <1>0, <2>2 DEF MovesTo, Typed, RunsTyped
    <3> QED BY <1>2, <2>2, <3>3, <3>4
  <2>3. ASSUME run[p].phase \in SyncPhases, run'[p] \in SyncRuns, run'[p].n = run[p].n,
               run'[p].phase = "archiving" => run'[p].prior # Nothing,
               week' = week, runs' = runs, q # p => run'[q] = run[q]
        PROVE  RunFits(q)'
    <3>1. run[p].n \in 1..runs /\ run'[p].phase \in SyncPhases
      BY <2>3, SyncAt DEF SyncRuns
    <3>2. RunFits(p)'
      BY <1>1, <2>3, <3>1 DEF RunFits
    <3> QED BY <1>2, <2>3, <3>2
  <2>4. CASE Start(p)
    <3> DEFINE r == [phase |-> "auditing", n |-> runs + 1, week |-> week,
                     forced |-> week \in markers]
    <3>1. Becomes(p, r) /\ runs' = runs + 1 /\ week' = week
      BY <2>4 DEF Start
    <3>2. r.phase = "auditing" /\ r.n = runs + 1 /\ r.week = week
      OBVIOUS
    <3> HIDE DEF r
    <3>3. run'[p] = r => RunFits(p)'
      BY <1>0, <1>1, <3>1, <3>2 DEF RunFits, EarlyPhases
    <3> QED BY <2>1, <3>1, <3>3
  <2>5. CASE Leave(p) \/ ReadFails(p) \/ SetTitle(p) \/ Crash(p)
    <3>1. Becomes(p, Idle) /\ week' = week /\ runs' = runs
      BY <2>5 DEF Leave, ReadFails, SetTitle, Crash
    <3>2. run'[p] = Idle /\ (q # p => run'[q] = run[q])
      BY <1>0, <3>1, BecomesAt
    <3> QED BY <1>2, <1>3, <3>1, <3>2
  <2>6. CASE WriteReceipt(p) \/ WriteState(p) \/ MarkWeek(p)
    <3>1. /\ run[p].phase \in EarlyPhases /\ week' = week /\ runs' = runs
          /\ \E phase \in EarlyPhases : MovesTo(p, phase)
      BY <2>6 DEF WriteReceipt, WriteState, MarkWeek, EarlyPhases
    <3> QED BY <2>2, <3>1
  <2>7. CASE ReadPage(p)
    <3> DEFINE r == [phase   |-> IF HasZone THEN "clearing" ELSE "zoning",
                     n       |-> run[p].n,
                     archive |-> HasArchive,
                     doomed  |-> {b.id : b \in AgentBlocks},
                     prior   |-> Prior]
    <3>1. Becomes(p, r) /\ week' = week /\ runs' = runs /\ run[p].phase \in EarlyPhases
      BY <2>7 DEF ReadPage, EarlyPhases
    <3>2. Prior \in Entries \cup {Nothing}
      BY PriorTyped DEF TypesInv, PlainInv, BlocksTyped
    <3>3. {b.id : b \in AgentBlocks} \in SUBSET Nat
      BY DEF AgentBlocks, Read, TypesInv, BlocksTyped, Blocks
    <3>4. HasArchive \in BOOLEAN
      BY DEF HasArchive
    <3>5. run[p].n \in 1..MaxRuns /\ run[p].n \in 1..runs
      BY <1>0, <1>1, <3>1, EarlyFields DEF RunFits, Underway
    <3>6. (IF HasZone THEN "clearing" ELSE "zoning") \in SyncPhases
      BY DEF SyncPhases
    <3>7. r \in SyncRuns /\ r.n = run[p].n /\ r.phase \in {"zoning", "clearing"}
      BY <3>2, <3>3, <3>4, <3>5, <3>6 DEF SyncRuns
    <3> HIDE DEF r
    <3>8. r.phase \in SyncPhases
      BY <3>7 DEF SyncRuns
    <3>9. run'[p] = r => RunFits(p)'
      BY <1>1, <3>1, <3>5, <3>7, <3>8 DEF RunFits
    <3> QED BY <2>1, <3>1, <3>9
  <2>8. CASE InitZone(p)
    <3>1. /\ run[p].phase \in SyncPhases /\ "clearing" \in SyncPhases
          /\ MovesTo(p, "clearing") /\ week' = week /\ runs' = runs
      BY <2>8 DEF InitZone, SyncPhases
    <3>2. run[p] \in SyncRuns
      BY <3>1, SyncAt
    <3> QED BY <1>0, <2>3, <3>1, <3>2, MovesAt
  <2>9. CASE DeletePrior(p)
    <3>1. /\ run[p].phase \in SyncPhases /\ run[p].phase = "clearing"
          /\ week' = week /\ runs' = runs
      BY <2>9 DEF DeletePrior, SyncPhases
    <3>2. PICK id : run' = [run EXCEPT ![p].doomed = @ \ {id}]
      BY <2>9 DEF DeletePrior
    <3>3. run[p] \in SyncRuns
      BY <3>1, SyncAt
    <3>4. /\ run'[p] \in SyncRuns /\ run'[p].n = run[p].n /\ run'[p].phase = "clearing"
          /\ (q # p => run'[q] = run[q])
      BY <1>0, <3>1, <3>2, <3>3, SpendsAt
    <3> QED BY <2>3, <3>1, <3>4
  <2>10. CASE AppendVerdict(p)
    <3>1. /\ run[p].phase \in SyncPhases /\ MovesTo(p, AfterVerdict(p))
          /\ week' = week /\ runs' = runs
      BY <2>10 DEF AppendVerdict, SyncPhases
    <3>2. /\ AfterVerdict(p) \in SyncPhases
          /\ AfterVerdict(p) = "archiving" => run[p].prior # Nothing
      BY DEF AfterVerdict, SyncPhases
    <3>3. run[p] \in SyncRuns
      BY <3>1, SyncAt
    <3>4. /\ run'[p] \in SyncRuns /\ run'[p].n = run[p].n
          /\ run'[p].phase = "archiving" => run'[p].prior # Nothing
          /\ (q # p => run'[q] = run[q])
      BY <1>0, <3>1, <3>2, <3>3, MovesAt
    <3> QED BY <2>3, <3>1, <3>4
  <2>11. CASE ArchivePrior(p)
    <3>1. /\ run[p].phase \in SyncPhases /\ "titling" \in SyncPhases
          /\ MovesTo(p, "titling") /\ week' = week /\ runs' = runs
      BY <2>11 DEF ArchivePrior, SyncPhases
    <3>2. run[p] \in SyncRuns
      BY <3>1, SyncAt
    <3> QED BY <1>0, <2>3, <3>1, <3>2, MovesAt
  <2> QED BY <1>4, <2>4, <2>5, <2>6, <2>7, <2>8, <2>9, <2>10, <2>11 DEF RunStep
<1>5. CASE NewWeek \/ WriteNote \/ Rewrite \/ UNCHANGED vars
  <2>1. run' = run /\ runs' = runs /\ week' \in {week, week + 1}
    BY <1>5 DEF NewWeek, WriteNote, Rewrite, vars
  <2> QED BY <1>2, <2>1
<1> QED BY <1>4, <1>5 DEF Next

LEMMA TypesNext == TypesInv /\ [Next]_vars => TypesInv'
<1>1. TypesInv /\ [Next]_vars => PlainInv'
  BY PlainNext DEF TypesInv
<1> QED BY <1>1, NextSmall, NextBlocks, NextFits DEF TypesInv

\* Files, page, archive and runs only ever hold what the code puts there.
THEOREM TypeCorrect == Spec => []TypeOK
BY TypesInit, TypesNext, TypesSuffice, PTL DEF Spec

------------------------------------------------------------------------------
(* What a step of a run does to the page when its request goes right.        *)

LEMMA RightOnce ==
  ASSUME "request" \notin trouble', NEW n, Goes(n # 1)
  PROVE  n = 1
BY DEF Goes, Disturbs

\* What a run takes with it through a step of its own.
Carries(p) ==
  /\ run'[p].n = run[p].n /\ run'[p].archive = run[p].archive
  /\ run'[p].prior = run[p].prior
  /\ \A q \in Procs : q # p => run'[q] = run[q]

\* The page is finite, its blocks being told apart by ids below made.
LEMMA PageIsFinite ==
  ASSUME PageTyped
  PROVE  IsFiniteSet(page) /\ Cardinality(page) \in Nat
<1> DEFINE ids == {b.id : b \in page}
           at == [i \in ids |-> CHOOSE b \in page : b.id = i]
<1>1. ids \subseteq 1..made /\ made \in Nat
  BY DEF PageTyped
<1>2. IsFiniteSet(ids)
  <2>1. IsFiniteSet(1..made)
    BY <1>1, FS_Interval
  <2> QED BY <1>1, <2>1, FS_Subset
<1>3. \A b \in page : b.id \in ids /\ at[b.id] = b
  BY DEF PageTyped
<1>4. \A i \in ids : at[i] \in page
  OBVIOUS
<1>5. at \in Surjection(ids, page)
  <2>1. at \in [ids -> page]
    BY <1>4
  <2> HIDE DEF at, ids
  <2> QED BY <1>3, <2>1 DEF Surjection
<1>6. IsFiniteSet(page)
  <2> HIDE DEF at, ids
  <2> QED BY <1>2, <1>5, FS_Surjection
<1> QED BY <1>6, FS_CardinalityType

LEMMA ReadEffect ==
  ASSUME TypesInv, NEW p \in Procs, ReadPage(p), "long_page" \notin trouble'
  PROVE  /\ run[p].phase \in EarlyPhases /\ Cardinality(page) <= Window
         /\ UNCHANGED <<page, made, archived, runs, published>>
         /\ run'[p].phase = (IF HasZone THEN "clearing" ELSE "zoning")
         /\ run'[p].n = run[p].n /\ run'[p].doomed = {b.id : b \in AgentBlocks}
         /\ run'[p].prior = Prior /\ run'[p].archive = HasArchive
<1> DEFINE r == [phase   |-> IF HasZone THEN "clearing" ELSE "zoning",
                 n       |-> run[p].n,
                 archive |-> HasArchive,
                 doomed  |-> {b.id : b \in AgentBlocks},
                 prior   |-> Prior]
<1>1. run'[p] = r
  BY BecomesAt DEF ReadPage, TypesInv, PlainInv
<1>2. /\ r.phase = (IF HasZone THEN "clearing" ELSE "zoning") /\ r.n = run[p].n
      /\ r.doomed = {b.id : b \in AgentBlocks} /\ r.prior = Prior /\ r.archive = HasArchive
  OBVIOUS
<1> HIDE DEF r
<1>3. ~(Cardinality(page) > Window)
  BY DEF ReadPage
<1>4. Cardinality(page) <= Window
  BY <1>3, PageIsFinite, HubBounds DEF TypesInv, PlainInv
<1> QED BY <1>1, <1>2, <1>4 DEF ReadPage, EarlyPhases, pageVars

LEMMA ZoneEffect ==
  ASSUME TypesInv, NEW p \in Procs, InitZone(p), "request" \notin trouble'
  PROVE  /\ run[p].phase = "zoning" /\ run'[p].phase = "clearing"
         /\ run'[p].doomed = run[p].doomed /\ Carries(p)
         /\ page' = page \cup {[id |-> made + 1, kind |-> "zone", of |-> 0]}
         /\ UNCHANGED <<archived, runs, published>>
<1>1. run[p].phase = "zoning" /\ MovesTo(p, "clearing")
  BY DEF InitZone
<1>2. run[p] \in SyncRuns /\ "clearing" \in SyncPhases
  BY <1>1, SyncAt DEF SyncPhases
<1>3. PICK n \in TimesApplied : Goes(n # 1) /\ AddToPage(<<Block("zone", 0)>>, n)
  BY DEF InitZone
<1>4. AddToPage(<<Block("zone", 0)>>, 1) /\ made \in Nat
  BY <1>3, RightOnce DEF TypesInv, PlainInv, PageTyped
<1>5. page' = page \cup {[id |-> made + i, kind |-> "zone", of |-> 0] : i \in 1..1}
  BY <1>4, AddOne
<1>6. page' = page \cup {[id |-> made + 1, kind |-> "zone", of |-> 0]}
  BY <1>5
<1> QED BY <1>1, <1>2, <1>6, MovesAt DEF InitZone, Carries, TypesInv, PlainInv

LEMMA DeleteEffect ==
  ASSUME TypesInv, NEW p \in Procs, DeletePrior(p), "request" \notin trouble'
  PROVE  /\ run[p].phase = "clearing" /\ run'[p].phase = "clearing" /\ Carries(p)
         /\ \E id \in run[p].doomed : /\ run'[p].doomed = run[p].doomed \ {id}
                                      /\ page' = {b \in page : b.id # id}
         /\ UNCHANGED <<archived, runs, published>>
<1>1. run[p].phase = "clearing"
  BY DEF DeletePrior
<1>2. run[p] \in SyncRuns
  BY <1>1, SyncAt DEF SyncPhases
<1>3. PICK id \in run[p].doomed :
        /\ \/ Goes(FALSE) /\ page' = {b \in page : b.id # id}
           \/ Goes(TRUE) /\ UNCHANGED page
        /\ run' = [run EXCEPT ![p].doomed = @ \ {id}]
  BY DEF DeletePrior
<1>4. page' = {b \in page : b.id # id}
  BY <1>3 DEF Goes, Disturbs
<1>5. /\ run'[p].phase = run[p].phase /\ run'[p].doomed = run[p].doomed \ {id} /\ Carries(p)
  BY <1>2, <1>3, SpendsAt DEF Carries, TypesInv, PlainInv
<1> QED BY <1>1, <1>4, <1>5 DEF DeletePrior

LEMMA AppendEffect ==
  ASSUME TypesInv, NEW p \in Procs, AppendVerdict(p), "request" \notin trouble'
  PROVE  /\ run[p].phase = "clearing" /\ run[p].doomed = {} /\ Carries(p)
         /\ run'[p].phase = AfterVerdict(p)
         /\ page' = page \cup {[id |-> made + 1, kind |-> "headline", of |-> run[p].n],
                               [id |-> made + 2, kind |-> "item", of |-> run[p].n]}
         /\ published' = published \cup {run[p].n} /\ UNCHANGED <<archived, runs>>
<1>1. run[p].phase = "clearing" /\ MovesTo(p, AfterVerdict(p))
  BY DEF AppendVerdict
<1>2. run[p] \in SyncRuns /\ AfterVerdict(p) \in SyncPhases
  BY <1>1, SyncAt DEF SyncPhases, AfterVerdict
<1>3. PICK n \in TimesApplied :
        /\ Goes(n # 1)
        /\ AddToPage(<<Block("headline", run[p].n), Block("item", run[p].n)>>, n)
        /\ published' = IF n = 0 THEN published ELSE published \cup {run[p].n}
  BY DEF AppendVerdict
<1>4. n = 1 /\ made \in Nat
  BY <1>3, RightOnce DEF TypesInv, PlainInv, PageTyped
<1>5. AddToPage(<<Block("headline", run[p].n), Block("item", run[p].n)>>, 1)
  BY <1>3, <1>4
<1>6. page' = page \cup {[id |-> made + 1, kind |-> "headline", of |-> run[p].n],
                         [id |-> made + 2, kind |-> "item", of |-> run[p].n]}
  BY <1>4, <1>5, AddTwoOnce
<1>7. run'[p].phase = AfterVerdict(p) /\ Carries(p)
  BY <1>1, <1>2, MovesAt DEF Carries, TypesInv, PlainInv
<1> QED BY <1>1, <1>3, <1>4, <1>6, <1>7 DEF AppendVerdict

LEMMA ArchiveEffect ==
  ASSUME TypesInv, NEW p \in Procs, ArchivePrior(p), "request" \notin trouble'
  PROVE  /\ run[p].phase = "archiving" /\ run'[p].phase = "titling" /\ Carries(p)
         /\ run[p].prior \in Entries
         /\ \/ page' = page
            \/ page' = page \cup {[id |-> made + 1, kind |-> "archive", of |-> 0]}
         /\ Len(archived') = Len(archived) + 1
         /\ \A i \in 1..Len(archived) : archived'[i] = archived[i]
         /\ archived'[Len(archived) + 1] = run[p].prior
         /\ UNCHANGED <<runs, published>>
<1>1. run[p].phase = "archiving" /\ MovesTo(p, "titling")
  BY DEF ArchivePrior
<1>2. run[p] \in SyncRuns /\ "titling" \in SyncPhases
  BY <1>1, SyncAt DEF SyncPhases
<1>3. run[p].prior \in Entries
  BY <1>1, <1>2 DEF TypesInv, RunFits, SyncRuns
<1>4. PICK n \in TimesApplied :
        /\ Goes(n # 1)
        /\ archived' = archived \o [i \in 1..n |-> run[p].prior]
        /\ IF run[p].archive THEN UNCHANGED <<page, made>>
                             ELSE AddToPage(<<Block("archive", 0)>>, n)
  BY DEF ArchivePrior
<1>5. n = 1 /\ made \in Nat /\ archived \in Seq(Entries)
  BY <1>4, RightOnce DEF TypesInv, PlainInv, PageTyped, BlocksTyped
<1>6. page' = page \/ page' = page \cup {[id |-> made + 1, kind |-> "archive", of |-> 0]}
  <2>1. CASE run[p].archive
    BY <1>4, <2>1
  <2>2. CASE ~run[p].archive
    <3>1. AddToPage(<<Block("archive", 0)>>, 1)
      BY <1>4, <1>5, <2>2
    <3>2. page' = page \cup {[id |-> made + i, kind |-> "archive", of |-> 0] : i \in 1..1}
      BY <1>5, <3>1, AddOne
    <3> QED BY <3>2
  <2> QED BY <2>1, <2>2
<1> DEFINE more == [i \in 1..1 |-> run[p].prior]
<1>7. more \in Seq(Entries) /\ Len(more) = 1 /\ more[1] = run[p].prior
  BY <1>3
<1>8. archived' = archived \o more
  BY <1>4, <1>5
<1> HIDE DEF more
<1>9. /\ Len(archived') = Len(archived) + 1
      /\ \A i \in 1..Len(archived) : archived'[i] = archived[i]
      /\ archived'[Len(archived) + 1] = run[p].prior
  <2>1. Len(archived) \in Nat
    BY <1>5
  <2>2. /\ Len(archived \o more) = Len(archived) + Len(more)
        /\ \A i \in 1..(Len(archived) + Len(more)) : (archived \o more)[i] =
             IF i <= Len(archived) THEN archived[i] ELSE more[i - Len(archived)]
    BY <1>5, <1>7, ConcatProperties
  <2>3. \A i \in 1..Len(archived) : (archived \o more)[i] = archived[i]
    BY <1>7, <2>1, <2>2
  <2>4. (archived \o more)[Len(archived) + 1] = more[(Len(archived) + 1) - Len(archived)]
    BY <1>7, <2>1, <2>2
  <2>5. (Len(archived) + 1) - Len(archived) = 1
    BY <2>1
  <2> QED BY <1>7, <1>8, <2>2, <2>3, <2>4, <2>5
<1>10. run'[p].phase = "titling" /\ Carries(p)
  BY <1>1, <1>2, MovesAt DEF Carries, TypesInv, PlainInv
<1> QED BY <1>1, <1>3, <1>6, <1>9, <1>10 DEF ArchivePrior

LEMMA NoteEffect ==
  ASSUME TypesInv, WriteNote
  PROVE  /\ \E kind \in {"plain", "bullet", "priced"} :
              /\ page' = page \cup {[id |-> made + 1, kind |-> kind, of |-> 0]}
              /\ written' = written \cup {[id |-> made + 1, kind |-> kind, of |-> 0]}
         /\ UNCHANGED <<run, archived, runs, published, trouble>>
<1>1. PICK kind \in {"plain", "bullet", "priced"} :
        /\ AddToPage(<<Block(kind, 0)>>, 1)
        /\ written' = written \cup {[id |-> made + 1, kind |-> kind, of |-> 0]}
  BY DEF WriteNote
<1>2. page' = page \cup {[id |-> made + i, kind |-> kind, of |-> 0] : i \in 1..1}
  BY <1>1, AddOne DEF TypesInv, PlainInv, PageTyped
<1>3. page' = page \cup {[id |-> made + 1, kind |-> kind, of |-> 0]}
  BY <1>2
<1> QED BY <1>1, <1>3 DEF WriteNote

\* The other steps of a run leave the page and everything about it alone.
Apart(p) ==
  \/ Start(p) \/ Leave(p) \/ WriteReceipt(p) \/ WriteState(p) \/ MarkWeek(p)
  \/ ReadFails(p) \/ SetTitle(p) \/ Crash(p)

LEMMA ApartEffect ==
  ASSUME TypesInv, NEW p \in Procs, Apart(p)
  PROVE  /\ UNCHANGED <<page, made, archived, published>>
         /\ \A q \in Procs : q # p => run'[q] = run[q]
         /\ \/ run'[p] = Idle /\ runs' = runs /\ Underway(p)
            \/ /\ run[p].phase \in EarlyPhases /\ run'[p].phase \in EarlyPhases
               /\ run'[p].n = run[p].n /\ runs' = runs
            \/ /\ Start(p) /\ run'[p].phase = "auditing"
               /\ run'[p].n = runs + 1 /\ runs' = runs + 1
         /\ "request" \notin trouble' /\ run[p].phase # "titling" /\ run'[p] = Idle
              => run[p].phase \in EarlyPhases \/ "crash" \in trouble'
<1>0. Typed /\ Idle.phase = "idle"
  BY DEF TypesInv, PlainInv, Idle
<1>1. CASE Leave(p) \/ ReadFails(p) \/ SetTitle(p) \/ Crash(p)
  <2>1. Becomes(p, Idle) /\ runs' = runs /\ Underway(p)
    BY <1>1 DEF Leave, ReadFails, SetTitle, Crash, Underway
  <2>2. UNCHANGED <<page, made, archived, published>>
    BY <1>1 DEF Leave, ReadFails, SetTitle, Crash, pageVars
  <2>3. run'[p] = Idle /\ \A q \in Procs : q # p => run'[q] = run[q]
    BY <1>0, <2>1, BecomesAt
  <2>4. run[p].phase \in EarlyPhases \cup {"titling"} \/ "crash" \in trouble'
    BY <1>1 DEF Leave, ReadFails, SetTitle, Crash, Disturbs, EarlyPhases
  <2> QED BY <2>1, <2>2, <2>3, <2>4
<1>2. CASE WriteReceipt(p) \/ WriteState(p) \/ MarkWeek(p)
  <2>1. PICK phase \in EarlyPhases :
          MovesTo(p, phase) /\ run[p].phase \in EarlyPhases /\ runs' = runs
    BY <1>2 DEF WriteReceipt, WriteState, MarkWeek, EarlyPhases
  <2>2. UNCHANGED <<page, made, archived, published>>
    BY <1>2 DEF WriteReceipt, WriteState, MarkWeek, pageVars
  <2>3. run'[p] = [phase |-> phase, n |-> run[p].n, week |-> run[p].week,
                   forced |-> run[p].forced]
    BY <1>0, <2>1, EarlyMoves
  <2>4. run'[p].phase = phase /\ run'[p].n = run[p].n
    BY <2>3
  <2>5. \A q \in Procs : q # p => run'[q] = run[q]
    BY <1>0, <2>1 DEF MovesTo, Typed, RunsTyped
  <2>6. run'[p] # Idle
    BY <1>0, <2>1, <2>4 DEF EarlyPhases
  <2> QED BY <2>1, <2>2, <2>4, <2>5, <2>6
<1>3. CASE Start(p)
  <2> DEFINE r == [phase |-> "auditing", n |-> runs + 1, week |-> week,
                   forced |-> week \in markers]
  <2>1. Becomes(p, r) /\ runs' = runs + 1 /\ UNCHANGED <<page, made, archived, published>>
    BY <1>3 DEF Start, pageVars
  <2>2. r.phase = "auditing" /\ r.n = runs + 1
    OBVIOUS
  <2> HIDE DEF r
  <2>3. run'[p] = r /\ \A q \in Procs : q # p => run'[q] = run[q]
    BY <1>0, <2>1, BecomesAt
  <2>4. run'[p] # Idle
    BY <1>0, <2>2, <2>3
  <2> QED BY <1>3, <2>1, <2>2, <2>3, <2>4
<1> QED BY <1>1, <1>2, <1>3 DEF Apart

------------------------------------------------------------------------------
(* One run at a time and every request as it should be, whatever is killed   *)
(* or rewritten.                                                             *)

Clean == trouble \cap {"request", "overlap", "long_page"} = {}

Prompt == [id |-> 1, kind |-> "prompt", of |-> 0]
VerdictKinds == {"headline", "item"}
Headed == {b \in page : b.kind = "headline"}
Listed == {archived[i].of : i \in 1..Len(archived)}

\* The prompt stays, only a verdict's blocks are of a run, and there is at most
\* one headline, of a run not archived yet.
PageSays ==
  /\ Prompt \in page
  /\ \A b \in page : b.of \in 0..runs /\ (b.kind \notin VerdictKinds => b.of = 0)
  /\ \A b, c \in Headed : b = c
  /\ \A b \in Headed : b.of \notin Listed

NoRepeats == \A i, j \in 1..Len(archived) : archived[i].of = archived[j].of => i = j

ArchiveSays == Listed \subseteq 0..runs /\ NoRepeats

Syncing(p) == run[p].phase \in {"zoning", "clearing", "archiving"}
NotYet(p) == run[p].phase \in EarlyPhases \/ Holds(p)

\* The run under way is the last one, and on no block and in no entry until it
\* publishes; it deletes the headline before it writes its own, and archives
\* another's.
Tells(p) ==
  /\ Underway(p) => run[p].n = runs
  /\ NotYet(p) => /\ runs \notin Listed \cup published
                  /\ \A b \in page : b.of # runs
  /\ Holds(p) => /\ 1 \notin run[p].doomed
                 /\ \A b \in Headed : b.id \in run[p].doomed
  /\ Syncing(p) /\ run[p].prior # Nothing =>
       run[p].prior.of \in (0..runs) \ Listed /\ run[p].prior.of # run[p].n
  /\ run[p].phase = "archiving" => \A b \in Headed : b.of = run[p].n

Once == PageSays /\ ArchiveSays /\ \A p \in Procs : Tells(p)

OnceInv == TypesInv /\ VisitsInv /\ (Clean => Once)

LEMMA OnceInit == Init => OnceInv
<1> SUFFICES ASSUME Init PROVE OnceInv
  OBVIOUS
<1>1. PageSays
  BY DEF Init, PageSays, Prompt, VerdictKinds, Headed
<1>2. ArchiveSays
  BY DEF Init, ArchiveSays, Listed, NoRepeats
<1>3. \A p \in Procs : Tells(p)
  BY DEF Init, Idle, Tells, Underway, NotYet, Holds, Syncing, EarlyPhases
<1> QED BY <1>1, <1>2, <1>3, TypesInit, VisitsInit DEF OnceInv, Once

\* Ids are of one block.
LEMMA SameId ==
  ASSUME TypesInv, NEW b \in page, NEW c \in page, b.id = c.id
  PROVE  b = c
BY DEF TypesInv, PlainInv, PageTyped

\* A page no longer than the request's window is read whole, but for the prompt.
LEMMA ReadWhole ==
  ASSUME TypesInv, Prompt \in page, Cardinality(page) <= Window, NEW b \in page, b # Prompt
  PROVE  b \in Read
<1> DEFINE before == {c \in page : c.id < b.id}
<1>1. IsFiniteSet(page) /\ Cardinality(page) \in Nat
  BY PageIsFinite DEF TypesInv, PlainInv
<1>2. Prompt.id = 1 /\ b.id \in Nat /\ b.id >= 1
  BY DEF Prompt, TypesInv, PlainInv, PageTyped
<1>3. b.id # 1
  BY <1>2, SameId
<1>4. Prompt \in before
  BY <1>2, <1>3
<1>5. before \subseteq page \ {b}
  BY <1>2
<1> HIDE DEF before
<1>6. IsFiniteSet(page \ {b}) /\ Cardinality(page \ {b}) = Cardinality(page) - 1
  BY <1>1, FS_RemoveElement
<1>7. IsFiniteSet(before) /\ Cardinality(before) <= Cardinality(page \ {b})
  BY <1>5, <1>6, FS_Subset
<1>8. Cardinality(before) \in Nat /\ Cardinality(before) # 0
  BY <1>4, <1>7, FS_CardinalityType, FS_EmptySet
<1>9. Cardinality(before) \in 1..(Window - 1)
  BY <1>1, <1>6, <1>7, <1>8, HubBounds
<1> QED BY <1>9 DEF Read, before

\* What a run finds on such a page.
LEMMA FindsWhole ==
  ASSUME TypesInv, Prompt \in page, Cardinality(page) <= Window
  PROVE  /\ AgentBlocks = {b \in page : b.kind \in {"headline", "item", "bullet", "priced"}}
         /\ Headlines = Headed
         /\ HasZone <=> \E b \in page : b.kind = "zone"
         /\ {c \in Read : c.kind = "item"} = {c \in page : c.kind = "item"}
<1>1. Read \subseteq page
  BY DEF Read
<1>2. Prompt.kind = "prompt"
  BY DEF Prompt
<1>3. \A b \in page : b.kind # "prompt" => b \in Read
  BY <1>2, ReadWhole
<1> QED BY <1>1, <1>3 DEF AgentBlocks, LooksLikeVerdict, Headlines, Headed, HasZone

\* Alone, whoever takes a step leaves the others idle.
LEMMA OthersIdle ==
  ASSUME TypesInv, Alone, NEW p \in Procs, RunStep(p), "overlap" \notin trouble',
         NEW q \in Procs, q # p
  PROVE  run'[q] = run[q] /\ run[q].phase = "idle"
<1>1. CASE Apart(p)
  <2>1. run'[q] = run[q]
    BY <1>1, ApartEffect
  <2>2. Underway(p) \/ Start(p)
    BY <1>1, ApartEffect DEF Underway, EarlyPhases
  <2>3. Start(p) => ~Underway(q)
    BY DEF Start
  <2> QED BY <2>1, <2>2, <2>3 DEF Alone, Underway
<1>2. CASE ~Apart(p)
  <2>1. Underway(p)
    BY <1>2 DEF RunStep, Apart, ReadPage, InitZone, DeletePrior, AppendVerdict, ArchivePrior,
                Underway
  <2>2. run[q].phase = "idle"
    BY <2>1 DEF Alone, Underway
  <2>3. Syncs(p) \/ Reads(p) \/ Ends(p)
    BY <1>2, RunStepKinds DEF Apart, TypesInv, PlainInv
  <2>4. run'[q] = run[q]
    BY <2>3 DEF Syncs, Reads, Ends, Becomes, TypesInv, PlainInv, Typed, RunsTyped
  <2> QED BY <2>2, <2>4
<1> QED BY <1>1, <1>2

\* The others are idle before and after a step of p.
Solo(p) == \A q \in Procs : q # p => run'[q] = run[q] /\ run[q].phase = "idle"

LEMMA OthersTell ==
  ASSUME NEW p \in Procs, Solo(p), Tells(p)'
  PROVE  \A q \in Procs : Tells(q)'
<1>1. ASSUME NEW q \in Procs, q # p PROVE Tells(q)'
  <2>1. run'[q].phase = "idle"
    BY <1>1 DEF Solo
  <2> QED BY <2>1 DEF Tells, Underway, NotYet, Holds, Syncing, EarlyPhases
<1> QED BY <1>1

LEMMA OnceApart ==
  ASSUME TypesInv, Once, NEW p \in Procs, Apart(p), Solo(p)
  PROVE  Once'
<1>1. runs \in Nat
  BY DEF TypesInv, PlainInv, Typed, FilesTyped
<1>2. UNCHANGED <<page, made, archived, published>> /\ runs' \in {runs, runs + 1}
  BY ApartEffect
<1>3. Headed' = Headed /\ Listed' = Listed /\ 0..runs \subseteq 0..runs'
  BY <1>1, <1>2 DEF Headed, Listed
<1>4. PageSays' /\ ArchiveSays'
  BY <1>2, <1>3 DEF Once, PageSays, ArchiveSays, NoRepeats
<1>5. Tells(p)'
  <2>1. CASE run'[p] = Idle
    <3>1. run'[p].phase = "idle"
      BY <2>1 DEF Idle
    <3> QED BY <3>1 DEF Tells, Underway, NotYet, Holds, Syncing, EarlyPhases
  <2>2. CASE /\ run[p].phase \in EarlyPhases /\ run'[p].phase \in EarlyPhases
             /\ run'[p].n = run[p].n /\ runs' = runs
    <3>1. run[p].n = runs /\ runs \notin Listed \cup published /\ \A b \in page : b.of # runs
      BY <2>2 DEF Once, Tells, Underway, NotYet, EarlyPhases
    <3> QED BY <1>2, <1>3, <2>2, <3>1 DEF Tells, NotYet, Holds, Syncing, EarlyPhases
  <2>3. CASE run'[p].phase = "auditing" /\ run'[p].n = runs + 1 /\ runs' = runs + 1
    <3>1. runs + 1 \notin 0..runs /\ published \subseteq 0..runs
      BY <1>1 DEF TypesInv, SmallTyped
    <3>2. runs' \notin Listed \cup published /\ \A b \in page : b.of # runs'
      BY <2>3, <3>1 DEF Once, PageSays, ArchiveSays
    <3> QED BY <1>2, <1>3, <2>3, <3>2 DEF Tells, Holds, Syncing
  <2> QED BY <2>1, <2>2, <2>3, ApartEffect
<1> QED BY <1>4, <1>5, OthersTell DEF Once

LEMMA OnceRead ==
  ASSUME TypesInv, Once, NEW p \in Procs, ReadPage(p), Solo(p), "long_page" \notin trouble'
  PROVE  Once'
<1>1. /\ run[p].phase \in EarlyPhases /\ UNCHANGED <<page, made, archived, runs, published>>
      /\ run'[p].phase \in {"clearing", "zoning"} /\ run'[p].n = run[p].n
      /\ run'[p].doomed = {b.id : b \in AgentBlocks} /\ run'[p].prior = Prior
  BY ReadEffect
<1>2. Prompt \in page /\ Cardinality(page) <= Window
  BY ReadEffect DEF Once, PageSays
<1>3. /\ AgentBlocks = {b \in page : b.kind \in {"headline", "item", "bullet", "priced"}}
      /\ Headlines = Headed
  BY <1>2, FindsWhole
<1>4. Headed' = Headed /\ Listed' = Listed
  BY <1>1 DEF Headed, Listed
<1>5. PageSays' /\ ArchiveSays'
  BY <1>1, <1>4 DEF Once, PageSays, ArchiveSays, NoRepeats
<1>6. run[p].n = runs /\ runs \notin Listed \cup published /\ \A b \in page : b.of # runs
  BY <1>1 DEF Once, Tells, Underway, NotYet, EarlyPhases
<1>7. 1 \notin run'[p].doomed
  <2>1. Prompt.id = 1 /\ Prompt.kind = "prompt"
    BY DEF Prompt
  <2>2. \A b \in AgentBlocks : b.id # 1
    BY <1>2, <1>3, <2>1, SameId
  <2> QED BY <1>1, <2>2
<1>8. \A b \in Headed : b.id \in run'[p].doomed
  BY <1>1, <1>3 DEF Headed
<1>9. Prior # Nothing => Prior.of \in (0..runs) \ Listed /\ Prior.of # runs
  <2> SUFFICES ASSUME Prior # Nothing
               PROVE  Prior.of \in (0..runs) \ Listed /\ Prior.of # runs
    OBVIOUS
  <2>1. Headlines # {} /\ Prior.of = LastHeadline.of
    BY DEF Prior
  <2>2. LastHeadline \in Headed
    BY <1>3, <2>1, LastHeadlineIsLast DEF TypesInv, PlainInv
  <2> QED BY <1>6, <2>1, <2>2 DEF Once, PageSays, Headed
<1>10. Tells(p)'
  BY <1>1, <1>4, <1>6, <1>7, <1>8, <1>9 DEF Tells, NotYet, Holds
<1> QED BY <1>5, <1>10, OthersTell DEF Once

LEMMA OnceZone ==
  ASSUME TypesInv, Once, NEW p \in Procs, InitZone(p), Solo(p), "request" \notin trouble'
  PROVE  Once'
<1> DEFINE new == [id |-> made + 1, kind |-> "zone", of |-> 0]
<1>1. /\ run[p].phase = "zoning" /\ run'[p].phase = "clearing"
      /\ run'[p].doomed = run[p].doomed /\ run'[p].n = run[p].n /\ run'[p].prior = run[p].prior
      /\ page' = page \cup {new} /\ UNCHANGED <<archived, runs, published>>
  BY ZoneEffect DEF Carries
<1>2. new.kind = "zone" /\ new.of = 0 /\ runs \in Nat
  BY DEF TypesInv, PlainInv, Typed, FilesTyped
<1> HIDE DEF new
<1>3. Headed' = Headed /\ Listed' = Listed
  BY <1>1, <1>2 DEF Headed, Listed
<1>4. PageSays' /\ ArchiveSays'
  BY <1>1, <1>2, <1>3 DEF Once, PageSays, ArchiveSays, NoRepeats, VerdictKinds
<1>5. runs # 0
  BY <1>1, <1>2 DEF TypesInv, RunFits, Underway, Once, Tells
<1>6. Tells(p)'
  BY <1>1, <1>2, <1>3, <1>5 DEF Once, Tells, Underway, NotYet, Holds, Syncing, EarlyPhases
<1> QED BY <1>4, <1>6, OthersTell DEF Once

LEMMA OnceDelete ==
  ASSUME TypesInv, Once, NEW p \in Procs, DeletePrior(p), Solo(p), "request" \notin trouble'
  PROVE  Once'
<1>1. PICK id \in run[p].doomed : /\ run'[p].doomed = run[p].doomed \ {id}
                                  /\ page' = {b \in page : b.id # id}
  BY DeleteEffect
<1>2. /\ run[p].phase = "clearing" /\ run'[p].phase = "clearing"
      /\ run'[p].n = run[p].n /\ run'[p].prior = run[p].prior
      /\ UNCHANGED <<archived, runs, published>>
  BY DeleteEffect DEF Carries
<1>3. Headed' = {b \in Headed : b.id # id} /\ Listed' = Listed /\ page' \subseteq page
  BY <1>1, <1>2 DEF Headed, Listed
<1>4. Prompt.id = 1 /\ id # 1
  BY <1>1, <1>2 DEF Once, Tells, Holds, Prompt
<1>5. PageSays' /\ ArchiveSays'
  BY <1>1, <1>2, <1>3, <1>4 DEF Once, PageSays, ArchiveSays, NoRepeats
<1>6. Tells(p)'
  BY <1>1, <1>2, <1>3 DEF Once, Tells, Underway, NotYet, Holds, Syncing, EarlyPhases
<1> QED BY <1>5, <1>6, OthersTell DEF Once

LEMMA OnceAppend ==
  ASSUME TypesInv, Once, NEW p \in Procs, AppendVerdict(p), Solo(p), "request" \notin trouble'
  PROVE  Once'
<1> DEFINE head == [id |-> made + 1, kind |-> "headline", of |-> run[p].n]
           item == [id |-> made + 2, kind |-> "item", of |-> run[p].n]
<1>1. /\ run[p].phase = "clearing" /\ run[p].doomed = {} /\ run'[p].phase = AfterVerdict(p)
      /\ run'[p].n = run[p].n /\ run'[p].prior = run[p].prior
      /\ page' = page \cup {head, item} /\ UNCHANGED <<archived, runs>>
  BY AppendEffect DEF Carries
<1>2. /\ head.kind = "headline" /\ head.of = run[p].n
      /\ item.kind = "item" /\ item.of = run[p].n /\ runs \in Nat
  BY DEF TypesInv, PlainInv, Typed, FilesTyped
<1> HIDE DEF head, item
<1>3. run[p].n = runs /\ runs \notin Listed /\ Headed = {}
  BY <1>1 DEF Once, Tells, Underway, NotYet, Holds
<1>4. Headed' = {head} /\ Listed' = Listed
  BY <1>1, <1>2, <1>3 DEF Headed, Listed
<1>5. PageSays' /\ ArchiveSays'
  BY <1>1, <1>2, <1>3, <1>4 DEF Once, PageSays, ArchiveSays, NoRepeats, VerdictKinds
<1>6. run[p].prior # Nothing => run[p].prior.of \in (0..runs) \ Listed /\ run[p].prior.of # runs
  BY <1>1, <1>3 DEF Once, Tells, Syncing
<1>7. AfterVerdict(p) \in {"titling", "archiving"}
  BY DEF AfterVerdict
<1>8. Tells(p)'
  BY <1>1, <1>2, <1>3, <1>4, <1>6, <1>7 DEF Tells, NotYet, Holds, EarlyPhases
<1> QED BY <1>5, <1>8, OthersTell DEF Once

LEMMA OnceArchive ==
  ASSUME TypesInv, Once, NEW p \in Procs, ArchivePrior(p), Solo(p), "request" \notin trouble'
  PROVE  Once'
<1> DEFINE new == [id |-> made + 1, kind |-> "archive", of |-> 0]
           last == Len(archived) + 1
<1>1. /\ run[p].phase = "archiving" /\ run'[p].phase = "titling" /\ run'[p].n = run[p].n
      /\ page' = page \/ page' = page \cup {new}
      /\ Len(archived') = last /\ archived'[last] = run[p].prior
      /\ \A i \in 1..Len(archived) : archived'[i] = archived[i]
      /\ UNCHANGED <<runs, published>>
  BY ArchiveEffect DEF Carries
<1>2. new.kind = "archive" /\ new.of = 0 /\ runs \in Nat /\ Len(archived) \in Nat
  BY DEF TypesInv, PlainInv, Typed, FilesTyped, BlocksTyped
<1>3. last \in Nat /\ last \notin 1..Len(archived) /\ 1..last = (1..Len(archived)) \cup {last}
  BY <1>2
<1> HIDE DEF new, last
<1>4. run[p].prior # Nothing
  BY <1>1 DEF TypesInv, RunFits
<1>5. /\ run[p].prior.of \in (0..runs) \ Listed /\ run[p].prior.of # run[p].n
      /\ \A b \in Headed : b.of = run[p].n
      /\ run[p].n = runs
  BY <1>1, <1>4 DEF Once, Tells, Syncing, Underway
<1>6. Listed' = Listed \cup {run[p].prior.of}
  BY <1>1, <1>3 DEF Listed
<1>7. Headed' = Headed
  BY <1>1, <1>2 DEF Headed
<1>8. PageSays'
  BY <1>1, <1>2, <1>5, <1>6, <1>7 DEF Once, PageSays, VerdictKinds
<1>9. ArchiveSays'
  <2>1. \A i \in 1..Len(archived) : archived'[i].of \in Listed
    BY <1>1 DEF Listed
  <2>2. archived'[last].of \notin Listed
    BY <1>1, <1>5
  <2>3. NoRepeats'
    BY <1>1, <1>3, <2>1, <2>2 DEF Once, ArchiveSays, NoRepeats
  <2> QED BY <1>1, <1>5, <1>6, <2>3 DEF Once, ArchiveSays
<1>10. Tells(p)'
  BY <1>1, <1>5 DEF Tells, NotYet, Holds, Syncing, EarlyPhases
<1> QED BY <1>8, <1>9, <1>10, OthersTell DEF Once

\* People add lines and write over a verdict's.
LEMMA OncePeople ==
  ASSUME TypesInv, Once, WriteNote \/ Rewrite
  PROVE  Once'
<1>1. UNCHANGED <<run, archived, runs, published>> /\ Listed' = Listed /\ runs \in Nat
  BY NoteEffect DEF Rewrite, Listed, TypesInv, PlainInv, Typed, FilesTyped
<1>2. /\ Prompt \in page' /\ Headed' \subseteq Headed
      /\ \A b \in page' \ page : b.kind \notin VerdictKinds /\ b.of = 0
  <2>1. CASE WriteNote
    <3>1. PICK kind \in {"plain", "bullet", "priced"} :
            page' = page \cup {[id |-> made + 1, kind |-> kind, of |-> 0]}
      BY <2>1, NoteEffect
    <3> QED BY <3>1 DEF Once, PageSays, Headed, VerdictKinds
  <2>2. CASE Rewrite
    <3>1. PICK old \in page : /\ old.kind \in {"headline", "item"}
                              /\ page' = (page \ {old}) \cup
                                           {[id |-> old.id, kind |-> "plain", of |-> 0]}
      BY <2>2 DEF Rewrite
    <3>2. old # Prompt
      BY <3>1 DEF Prompt
    <3> QED BY <3>1, <3>2 DEF Once, PageSays, Headed, VerdictKinds
  <2> QED BY <2>1, <2>2
<1>3. \A b \in page' : b \in page \/ b.of = 0
  BY <1>2
<1>4. PageSays' /\ ArchiveSays'
  BY <1>1, <1>2 DEF Once, PageSays, ArchiveSays, NoRepeats
<1>5. ASSUME NEW q \in Procs PROVE Tells(q)'
  <2>1. Underway(q) => run[q].n = runs /\ runs # 0
    BY DEF Once, Tells, TypesInv, RunFits
  <2>2. NotYet(q) => Underway(q)
    BY DEF NotYet, Underway, Holds, EarlyPhases
  <2>3. NotYet(q) => runs \notin Listed \cup published /\ \A b \in page' : b.of # runs
    BY <1>3, <2>1, <2>2 DEF Once, Tells
  <2> QED BY <1>1, <1>2, <2>1, <2>3 DEF Once, Tells, Underway, NotYet, Holds, Syncing
<1> QED BY <1>4, <1>5 DEF Once

LEMMA OnceNext == OnceInv /\ [Next]_vars => OnceInv'
<1> SUFFICES ASSUME OnceInv, [Next]_vars PROVE OnceInv'
  OBVIOUS
<1>1. TypesInv' /\ VisitsInv'
  BY TypesNext, VisitsNext DEF OnceInv
<1>2. ASSUME Clean' PROVE Once'
  <2>1. Clean /\ \A t \in {"request", "overlap", "long_page"} : t \notin trouble \cup trouble'
    BY <1>2, TroubleStays DEF Clean
  <2>2. TypesInv /\ Once /\ Alone
    BY <2>1 DEF OnceInv, VisitsInv, Orderly
  <2>3. ASSUME NEW p \in Procs, RunStep(p) PROVE Once'
    <3>1. Solo(p)
      BY <2>1, <2>2, <2>3, OthersIdle DEF Solo
    <3> QED BY <2>1, <2>2, <2>3, <3>1, OnceApart, OnceRead, OnceZone, OnceDelete, OnceAppend,
               OnceArchive DEF RunStep, Apart
  <2>4. CASE WriteNote \/ Rewrite
    BY <2>2, <2>4, OncePeople
  <2>5. CASE UNCHANGED <<page, archived, run, runs, published, trouble>>
    <3>1. Headed' = Headed /\ Listed' = Listed
      BY <2>5 DEF Headed, Listed
    <3>2. PageSays' /\ ArchiveSays'
      BY <2>2, <2>5, <3>1 DEF Once, PageSays, ArchiveSays, NoRepeats
    <3>3. \A q \in Procs : Tells(q)'
      BY <2>2, <2>5, <3>1 DEF Once, Tells, Underway, NotYet, Holds, Syncing
    <3> QED BY <3>2, <3>3 DEF Once
  <2> QED BY <2>3, <2>4, <2>5 DEF Next, NewWeek, vars, pageVars
<1> QED BY <1>1, <1>2 DEF OnceInv

\* However runs are killed and page is rewritten, no verdict is archived twice.
THEOREM ArchiveNeverRepeats == Spec => []ArchivedOnce
<1>1. OnceInv => ArchivedOnce
  BY DEF OnceInv, Clean, Once, ArchiveSays, NoRepeats, ArchivedOnce
<1> QED BY <1>1, OnceInit, OnceNext, PTL DEF Spec

------------------------------------------------------------------------------
(* Runs that nothing disturbs: one after the other, each verdict taking the  *)
(* place of the one before.                                                  *)

Top(P) == {n \in P : \A m \in P : m <= n}

PageOf(kinds) == {b \in page : b.kind \in kinds}
Verdict == PageOf(VerdictKinds)
Sole(kind) == \E b \in page : PageOf({kind}) = {b}

\* The page shows the verdict of the latest run of P, and nothing of another.
Presents(P) ==
  IF P = {} THEN Verdict = {}
  ELSE Sole("headline") /\ Sole("item") /\ \A b \in Verdict : b.of \in Top(P)

Zoned(P) == IF P = {} THEN PageOf({"zone"}) = {} ELSE Sole("zone")

\* The runs of people's lines that pass for recommendations, 0 if any; whatever
\* else passes for one is of a verdict.
Strangers == {b.of : b \in {c \in written : c.kind = "priced"}}
Priced == PageOf({"priced"}) \subseteq written

\* An entry has its own verdict's items, and beside them people's at most.
Fits(e) == e.of \in e.items /\ e.items \subseteq {e.of} \cup Strangers

\* The archive has an entry of every run of P but the latest.
Filed == {archived[i] : i \in 1..Len(archived)}
Archives(P) == {e.of : e \in Filed} = P \ Top(P) /\ \A e \in Filed : Fits(e)

\* prior is the entry of the latest run of P.
Recalls(prior, P) ==
  IF P = {} THEN prior = Nothing ELSE prior # Nothing /\ prior.of \in Top(P) /\ Fits(prior)

\* Between syncs page and archive are as they should be.
Settled ==
  (\A p \in Procs : ~Syncing(p)) =>
    Presents(published) /\ Zoned(published) /\ Archives(published)

\* Up to its verdict a run deletes the old one, which it recalls, and no zone.
Replacing(p) ==
  Holds(p) =>
    /\ Archives(published) /\ Recalls(run[p].prior, published)
    /\ \A b \in Verdict : b.id \in run[p].doomed
    /\ \A b \in PageOf({"zone"}) : b.id \notin run[p].doomed
    /\ IF run[p].phase = "zoning" THEN published = {} /\ Zoned({}) ELSE Sole("zone")

\* Then its own is on the page, and the old one still to be archived.
Replaced(p) ==
  run[p].phase = "archiving" =>
    /\ runs \in published /\ Presents(published) /\ Sole("zone")
    /\ Archives(published \ {runs}) /\ Recalls(run[p].prior, published \ {runs})

Orderliness == Settled /\ Priced /\ \A p \in Procs : Replacing(p) /\ Replaced(p)

QuietInv == OnceInv /\ (trouble = {} => Orderliness)

LEMMA QuietInit == Init => QuietInv
<1> SUFFICES ASSUME Init PROVE QuietInv
  OBVIOUS
<1>1. PageOf({"zone"}) = {} /\ Verdict = {} /\ Filed = {} /\ published = {}
  BY DEF Init, PageOf, Verdict, VerdictKinds, Filed
<1>2. Settled
  BY <1>1 DEF Settled, Presents, Zoned, Archives, Top
<1>3. \A p \in Procs : Replacing(p) /\ Replaced(p)
  BY DEF Init, Idle, Replacing, Replaced, Holds
<1>4. Priced
  BY DEF Init, Priced, PageOf
<1> QED BY <1>2, <1>3, <1>4, OnceInit DEF QuietInv, Orderliness

LEMMA TopOne ==
  ASSUME NEW P, P \subseteq Nat, NEW m \in Top(P), NEW n \in Top(P)
  PROVE  m = n
<1>1. m \in Nat /\ n \in Nat /\ m <= n /\ n <= m
  BY DEF Top
<1> QED BY <1>1

LEMMA TopIsLast ==
  ASSUME NEW N \in Nat, NEW P, P \subseteq 1..N, N \in P
  PROVE  Top(P) = {N}
<1>1. N \in Top(P)
  BY DEF Top
<1>2. P \subseteq Nat
  OBVIOUS
<1> QED BY <1>1, <1>2, TopOne

LEMMA PublishedRuns ==
  ASSUME TypesInv
  PROVE  runs \in Nat /\ published \subseteq 1..runs /\ published \subseteq Nat
BY HubBounds DEF TypesInv, PlainInv, Typed, FilesTyped, SmallTyped

\* Runs write nothing in people's place.
LEMMA RunsWriteNone ==
  ASSUME NEW p \in Procs, RunStep(p)
  PROVE  written' = written /\ Strangers' = Strangers
<1>1. written' = written
  BY DEF RunStep, Start, Leave, WriteReceipt, WriteState, MarkWeek, ReadFails, ReadPage,
         InitZone, DeletePrior, AppendVerdict, ArchivePrior, SetTitle, Crash
<1> QED BY <1>1 DEF Strangers

\* While the one run under way is no sync, none is.
LEMMA NoneSyncing ==
  ASSUME NEW p \in Procs, Solo(p), Orderliness, ~Syncing(p)
  PROVE  Presents(published) /\ Zoned(published) /\ Archives(published)
<1>1. \A q \in Procs : ~Syncing(q)
  BY DEF Solo, Syncing
<1> QED BY <1>1 DEF Orderliness, Settled

\* After a step of p only p and the page matter.
LEMMA OthersOrderly ==
  ASSUME NEW p \in Procs, Solo(p), Replacing(p)', Replaced(p)',
         Orderliness, written' = written, \A b \in page' \ page : b.kind # "priced",
         ~Syncing(p)' => Presents(published)' /\ Zoned(published)' /\ Archives(published)'
  PROVE  Orderliness'
<1>1. ASSUME NEW q \in Procs, q # p PROVE Replacing(q)' /\ Replaced(q)'
  BY <1>1 DEF Solo, Replacing, Replaced, Holds
<1>2. Priced'
  BY DEF Orderliness, Priced, PageOf
<1> QED BY <1>1, <1>2 DEF Orderliness, Settled

LEMMA QuietApart ==
  ASSUME TypesInv, Orderliness, NEW p \in Procs, Apart(p), Solo(p), trouble' = {}
  PROVE  Orderliness'
<1>1. UNCHANGED <<page, made, archived, published, written>> /\ Strangers' = Strangers
  BY ApartEffect, RunsWriteNone DEF Apart, RunStep
<1>2. ~Syncing(p) /\ ~Syncing(p)' /\ ~Holds(p)'
  <2>1. CASE run'[p] = Idle /\ runs' = runs /\ Underway(p)
    <3>1. run[p].phase \in EarlyPhases \/ run[p].phase = "titling"
      BY <2>1, ApartEffect
    <3> QED BY <2>1, <3>1 DEF Syncing, Holds, Idle, EarlyPhases
  <2>2. CASE run[p].phase \in EarlyPhases /\ run'[p].phase \in EarlyPhases
    BY <2>2 DEF Syncing, Holds, EarlyPhases
  <2>3. CASE Start(p) /\ run'[p].phase = "auditing"
    BY <2>3 DEF Syncing, Holds, Start
  <2> QED BY <2>1, <2>2, <2>3, ApartEffect
<1>3. Presents(published) /\ Zoned(published) /\ Archives(published)
  BY <1>2, NoneSyncing
<1>4. Presents(published)' /\ Zoned(published)' /\ Archives(published)'
  BY <1>1, <1>3 DEF Presents, Zoned, Archives, Fits, Filed, Sole, PageOf, Verdict
<1>5. Replacing(p)' /\ Replaced(p)'
  BY <1>2 DEF Replacing, Replaced, Syncing
<1> QED BY <1>1, <1>4, <1>5, OthersOrderly

\* A run recalls the verdict that the page presents.
LEMMA RecallsPresented ==
  ASSUME TypesInv, Presents(published), Priced, Headlines = Headed,
         {c \in Read : c.kind = "item"} = {c \in page : c.kind = "item"}
  PROVE  Recalls(Prior, published)
<1>1. CASE published = {}
  <2>1. Headlines = {}
    BY <1>1 DEF Presents, Verdict, PageOf, VerdictKinds, Headed
  <2> QED BY <1>1, <2>1 DEF Prior, Recalls
<1>2. CASE published # {}
  <2>1. PICK h \in page : PageOf({"headline"}) = {h}
    BY <1>2 DEF Presents, Sole
  <2>2. PICK i \in page : PageOf({"item"}) = {i}
    BY <1>2 DEF Presents, Sole
  <2>3. Headlines = {h} /\ {c \in Read : c.kind = "item"} = {i}
    BY <2>1, <2>2 DEF Headed, PageOf
  <2>4. LastHeadline = h
    BY <2>3, LastHeadlineIsLast DEF TypesInv, PlainInv
  <2>5. h \in Verdict /\ i \in Verdict
    BY <2>1, <2>2 DEF Verdict, PageOf, VerdictKinds
  <2>6. h.of \in Top(published) /\ i.of \in Top(published)
    BY <1>2, <2>5 DEF Presents
  <2>7. h.of = i.of
    BY <2>6, PublishedRuns, TopOne
  <2> DEFINE items == {b.of : b \in {c \in Read : LooksLikeItem(c)}}
  <2>8. i.of \in items /\ items \subseteq {i.of} \cup Strangers
    <3>1. i \in Read /\ i.kind = "item"
      BY <2>3
    <3>2. ASSUME NEW b \in Read, LooksLikeItem(b) PROVE b.of \in {i.of} \cup Strangers
      <4>1. CASE b.kind = "item"
        BY <2>3, <4>1
      <4>2. CASE b.kind = "priced"
        BY <4>2 DEF Priced, PageOf, Strangers, Read
      <4> QED BY <3>2, <4>1, <4>2 DEF LooksLikeItem
    <3> QED BY <3>1, <3>2 DEF LooksLikeItem
  <2>9. Prior = [of |-> h.of, items |-> items]
    BY <2>3, <2>4 DEF Prior
  <2>10. Prior # Nothing
    BY <2>3, PriorTyped, NothingAssumption DEF TypesInv, PlainInv, BlocksTyped
  <2> HIDE DEF items
  <2>11. Prior.of = h.of /\ Fits(Prior)
    BY <2>7, <2>8, <2>9 DEF Fits
  <2> QED BY <1>2, <2>6, <2>10, <2>11 DEF Recalls
<1> QED BY <1>1, <1>2

LEMMA QuietRead ==
  ASSUME TypesInv, Once, Orderliness, NEW p \in Procs, ReadPage(p), Solo(p), trouble' = {}
  PROVE  Orderliness'
<1>1. /\ run[p].phase \in EarlyPhases /\ UNCHANGED <<page, archived, runs, published>>
      /\ run'[p].phase = (IF HasZone THEN "clearing" ELSE "zoning")
      /\ run'[p].doomed = {b.id : b \in AgentBlocks} /\ run'[p].prior = Prior
      /\ Cardinality(page) <= Window
  BY ReadEffect
<1>2. Presents(published) /\ Zoned(published) /\ Archives(published)
  BY <1>1, NoneSyncing DEF Syncing, EarlyPhases
<1>3. /\ AgentBlocks = {b \in page : b.kind \in {"headline", "item", "bullet", "priced"}}
      /\ Headlines = Headed
      /\ HasZone <=> \E b \in page : b.kind = "zone"
      /\ {c \in Read : c.kind = "item"} = {c \in page : c.kind = "item"}
  BY <1>1, FindsWhole DEF Once, PageSays
<1>4. Recalls(Prior, published)
  BY <1>2, <1>3, RecallsPresented DEF Orderliness
<1>10. written' = written /\ Strangers' = Strangers
  BY RunsWriteNone DEF RunStep
<1>5. \A b \in Verdict : b.id \in run'[p].doomed
  BY <1>1, <1>3 DEF Verdict, PageOf, VerdictKinds
<1>6. \A b \in PageOf({"zone"}) : b.id \notin run'[p].doomed
  <2>1. \A b \in PageOf({"zone"}) : b \in page /\ b \notin AgentBlocks
    BY <1>3 DEF PageOf
  <2>2. AgentBlocks \subseteq page
    BY <1>3
  <2> QED BY <1>1, <2>1, <2>2, SameId
<1>7. IF run'[p].phase = "zoning" THEN published = {} /\ Zoned({}) ELSE Sole("zone")
  <2>1. HasZone <=> published # {}
    BY <1>2, <1>3 DEF Zoned, Sole, PageOf
  <2> QED BY <1>1, <1>2, <2>1 DEF Zoned
<1>11. Archives(published)' /\ Recalls(run[p].prior, published)'
  BY <1>1, <1>2, <1>4, <1>10 DEF Archives, Filed, Fits, Recalls
<1>8. Replacing(p)'
  BY <1>1, <1>2, <1>5, <1>6, <1>7, <1>11 DEF Replacing, Verdict, PageOf, Zoned, Sole
<1>9. Syncing(p)' /\ run'[p].phase # "archiving"
  BY <1>1 DEF Syncing
<1> QED BY <1>1, <1>8, <1>9, <1>10, OthersOrderly DEF Replaced

LEMMA QuietZone ==
  ASSUME TypesInv, Orderliness, NEW p \in Procs, InitZone(p), Solo(p), trouble' = {}
  PROVE  Orderliness'
<1> DEFINE new == [id |-> made + 1, kind |-> "zone", of |-> 0]
<1>1. /\ run[p].phase = "zoning" /\ run'[p].phase = "clearing"
      /\ run'[p].doomed = run[p].doomed /\ run'[p].prior = run[p].prior
      /\ page' = page \cup {new} /\ UNCHANGED <<archived, runs, published>>
  BY ZoneEffect DEF Carries
<1>2. new.kind = "zone" /\ new.id = made + 1 /\ made \in Nat
  BY DEF TypesInv, PlainInv, PageTyped
<1> HIDE DEF new
<1>3. /\ Archives(published) /\ Recalls(run[p].prior, published)
      /\ \A b \in Verdict : b.id \in run[p].doomed
      /\ published = {} /\ PageOf({"zone"}) = {}
  BY <1>1 DEF Orderliness, Replacing, Holds, Zoned
<1>4. new.id \notin run[p].doomed
  BY <1>1, <1>2 DEF TypesInv, PlainInv, IdsTyped, Holds
<1>5. PageOf({"zone"})' = {new} /\ new \in page'
  BY <1>1, <1>2, <1>3 DEF PageOf
<1>6. Verdict' = Verdict /\ Filed' = Filed
  BY <1>1, <1>2 DEF Verdict, PageOf, VerdictKinds, Filed
<1>8. written' = written /\ Strangers' = Strangers
  BY RunsWriteNone DEF RunStep
<1>9. Archives(published)' /\ Recalls(run[p].prior, published)'
  BY <1>1, <1>3, <1>6, <1>8 DEF Archives, Fits, Recalls
<1>7. Replacing(p)'
  BY <1>1, <1>3, <1>4, <1>5, <1>6, <1>9 DEF Replacing, Sole
<1> QED BY <1>1, <1>2, <1>7, <1>8, OthersOrderly DEF Replaced, Syncing

LEMMA QuietDelete ==
  ASSUME TypesInv, Orderliness, NEW p \in Procs, DeletePrior(p), Solo(p), trouble' = {}
  PROVE  Orderliness'
<1>1. PICK id \in run[p].doomed : /\ run'[p].doomed = run[p].doomed \ {id}
                                  /\ page' = {b \in page : b.id # id}
  BY DeleteEffect
<1>2. /\ run[p].phase = "clearing" /\ run'[p].phase = "clearing"
      /\ run'[p].prior = run[p].prior /\ UNCHANGED <<archived, runs, published>>
  BY DeleteEffect DEF Carries
<1>3. /\ Archives(published) /\ Recalls(run[p].prior, published)
      /\ \A b \in Verdict : b.id \in run[p].doomed
      /\ \A b \in PageOf({"zone"}) : b.id \notin run[p].doomed
      /\ Sole("zone")
  BY <1>2 DEF Orderliness, Replacing, Holds
<1>4. Verdict' = {b \in Verdict : b.id # id} /\ Filed' = Filed
  BY <1>1, <1>2 DEF Verdict, PageOf, Filed
<1>5. PageOf({"zone"})' = PageOf({"zone"}) /\ Sole("zone")'
  BY <1>1, <1>3 DEF PageOf, Sole
<1>7. written' = written /\ Strangers' = Strangers
  BY RunsWriteNone DEF RunStep
<1>8. Archives(published)' /\ Recalls(run[p].prior, published)'
  BY <1>2, <1>3, <1>4, <1>7 DEF Archives, Fits, Recalls
<1>6. Replacing(p)'
  BY <1>1, <1>2, <1>3, <1>4, <1>5, <1>8 DEF Replacing
<1> QED BY <1>1, <1>2, <1>6, <1>7, OthersOrderly DEF Replaced, Syncing

LEMMA QuietAppend ==
  ASSUME TypesInv, Once, Orderliness, NEW p \in Procs, AppendVerdict(p), Solo(p),
         trouble' = {}
  PROVE  Orderliness'
<1> DEFINE head == [id |-> made + 1, kind |-> "headline", of |-> run[p].n]
           item == [id |-> made + 2, kind |-> "item", of |-> run[p].n]
<1>1. /\ run[p].phase = "clearing" /\ run[p].doomed = {} /\ run'[p].phase = AfterVerdict(p)
      /\ run'[p].n = run[p].n /\ run'[p].prior = run[p].prior
      /\ page' = page \cup {head, item} /\ UNCHANGED <<archived, runs>>
      /\ published' = published \cup {run[p].n}
  BY AppendEffect DEF Carries
<1>2. /\ head.kind = "headline" /\ head.of = run[p].n
      /\ item.kind = "item" /\ item.of = run[p].n
  OBVIOUS
<1> HIDE DEF head, item
<1>3. /\ run[p].n = runs /\ runs \notin published /\ runs \in 1..runs
  BY <1>1 DEF Once, Tells, Underway, NotYet, Holds, TypesInv, RunFits
<1>4. /\ Archives(published) /\ Recalls(run[p].prior, published)
      /\ Verdict = {} /\ Sole("zone")
  BY <1>1 DEF Orderliness, Replacing, Holds
<1>5. /\ PageOf({"headline"})' = {head} /\ PageOf({"item"})' = {item}
      /\ Verdict' = {head, item} /\ PageOf({"zone"})' = PageOf({"zone"})
  BY <1>1, <1>2, <1>4 DEF Verdict, PageOf, VerdictKinds
<1>6. published' # {} /\ Top(published') = {runs} /\ published' \ {runs} = published
  BY <1>1, <1>3, PublishedRuns, TopIsLast
<1>7. Sole("headline")' /\ Sole("item")' /\ Sole("zone")' /\ Filed' = Filed
  BY <1>1, <1>4, <1>5 DEF Sole, Filed
<1>8. Presents(published)' /\ Zoned(published)'
  BY <1>1, <1>2, <1>3, <1>5, <1>6, <1>7 DEF Presents, Zoned, Top
<1>11. written' = written /\ Strangers' = Strangers
  BY RunsWriteNone DEF RunStep
<1>12. \A b \in page' \ page : b.kind # "priced"
  BY <1>1, <1>2
<1>9. CASE run[p].prior = Nothing
  <2>1. published = {}
    BY <1>4, <1>9 DEF Recalls
  <2>2. Filed = {} /\ published' \ Top(published') = {}
    BY <1>4, <1>6, <2>1 DEF Archives
  <2>3. Archives(published)'
    BY <1>7, <2>2 DEF Archives, Top
  <2>4. run'[p].phase = "titling"
    BY <1>1, <1>9 DEF AfterVerdict
  <2> QED BY <1>8, <1>11, <1>12, <2>3, <2>4, OthersOrderly DEF Replacing, Replaced, Holds
<1>10. CASE run[p].prior # Nothing
  <2>1. run'[p].phase = "archiving"
    BY <1>1, <1>10 DEF AfterVerdict
  <2>2. Archives(published \ {runs})' /\ Recalls(run[p].prior, published \ {runs})'
    BY <1>1, <1>4, <1>6, <1>7, <1>11 DEF Archives, Recalls, Fits, Top
  <2>3. Replaced(p)'
    BY <1>1, <1>3, <1>7, <1>8, <2>2 DEF Replaced
  <2> QED BY <1>11, <1>12, <2>1, <2>3, OthersOrderly DEF Replacing, Holds, Syncing
<1> QED BY <1>9, <1>10

LEMMA QuietArchive ==
  ASSUME TypesInv, Orderliness, NEW p \in Procs, ArchivePrior(p), Solo(p), trouble' = {}
  PROVE  Orderliness'
<1> DEFINE new == [id |-> made + 1, kind |-> "archive", of |-> 0]
           last == Len(archived) + 1
           before == published \ {runs}
<1>1. /\ run[p].phase = "archiving" /\ run'[p].phase = "titling"
      /\ page' = page \/ page' = page \cup {new}
      /\ Len(archived') = last /\ archived'[last] = run[p].prior
      /\ \A i \in 1..Len(archived) : archived'[i] = archived[i]
      /\ UNCHANGED <<runs, published>>
  BY ArchiveEffect
<1>2. new.kind = "archive" /\ Len(archived) \in Nat
  BY DEF TypesInv, BlocksTyped
<1>3. 1..last = (1..Len(archived)) \cup {last}
  BY <1>2
<1> HIDE DEF new, last
<1>4. /\ runs \in published /\ Presents(published) /\ Sole("zone")
      /\ Archives(before) /\ Recalls(run[p].prior, before)
  BY <1>1 DEF Orderliness, Replaced
<1>5. Filed' = Filed \cup {run[p].prior}
  BY <1>1, <1>3 DEF Filed
<1>6. Top(published) = {runs} /\ before \subseteq Nat
  BY <1>4, PublishedRuns, TopIsLast
<1>7. run[p].prior # Nothing
  BY <1>1 DEF TypesInv, RunFits
<1>8. PICK t \in Top(before) : run[p].prior.of = t /\ Fits(run[p].prior)
  BY <1>4, <1>7 DEF Recalls
<1>9. Top(before) = {t} /\ t \in before
  <2> HIDE DEF before
  <2>1. t \in before
    BY DEF Top
  <2>2. \A m \in Top(before) : m = t
    BY <1>6, TopOne
  <2> QED BY <2>1, <2>2
<1>16. written' = written /\ Strangers' = Strangers
  BY RunsWriteNone DEF RunStep
<1>10. {e.of : e \in Filed'} = before /\ \A e \in Filed' : Fits(e)'
  <2> HIDE DEF before
  <2>1. {e.of : e \in Filed} = before \ {t} /\ \A e \in Filed : Fits(e)
    BY <1>4, <1>9 DEF Archives
  <2>2. {e.of : e \in Filed \cup {run[p].prior}} = {e.of : e \in Filed} \cup {t}
    BY <1>8
  <2>3. \A e \in Filed \cup {run[p].prior} : Fits(e)'
    BY <1>8, <1>16, <2>1 DEF Fits
  <2> QED BY <1>5, <1>9, <2>1, <2>2, <2>3
<1>11. Archives(published)'
  BY <1>1, <1>6, <1>10 DEF Archives, Top
<1>12. \A kind \in VerdictKinds \cup {"zone"} : PageOf({kind})' = PageOf({kind})
  BY <1>1, <1>2 DEF PageOf, VerdictKinds
<1>13. Verdict' = Verdict
  BY <1>1, <1>2 DEF Verdict, PageOf, VerdictKinds
<1>14. \A kind \in VerdictKinds \cup {"zone"} : Sole(kind) => Sole(kind)'
  BY <1>1, <1>12 DEF Sole
<1>15. Presents(published)' /\ Zoned(published)'
  BY <1>1, <1>4, <1>13, <1>14 DEF Presents, Zoned, VerdictKinds, Top
<1>17. \A b \in page' \ page : b.kind # "priced"
  BY <1>1, <1>2
<1> QED BY <1>1, <1>11, <1>15, <1>16, <1>17, OthersOrderly DEF Replacing, Replaced, Holds

\* A person's line is no verdict's, and no zone.
LEMMA QuietNote ==
  ASSUME TypesInv, Orderliness, WriteNote
  PROVE  Orderliness'
<1>1. PICK kind \in {"plain", "bullet", "priced"} :
        /\ page' = page \cup {[id |-> made + 1, kind |-> kind, of |-> 0]}
        /\ written' = written \cup {[id |-> made + 1, kind |-> kind, of |-> 0]}
  BY NoteEffect
<1>2. UNCHANGED <<run, archived, runs, published>>
  BY NoteEffect
<1>3. /\ \A k \in VerdictKinds \cup {"zone"} : PageOf({k})' = PageOf({k})
      /\ Verdict' = Verdict
  BY <1>1 DEF PageOf, VerdictKinds, Verdict
<1>4. \A k \in VerdictKinds \cup {"zone"} : Sole(k) => Sole(k)'
  BY <1>1, <1>3 DEF Sole
<1>5. Filed' = Filed
  BY <1>2 DEF Filed
<1>6. Presents(published) => Presents(published)'
  BY <1>2, <1>3, <1>4 DEF Presents, VerdictKinds, Top
<1>7. Zoned(published) => Zoned(published)'
  BY <1>2, <1>3, <1>4 DEF Zoned
<1>10. \A e : Fits(e) => Fits(e)'
  BY <1>1 DEF Fits, Strangers
<1>11. \A P : Archives(P) => {e.of : e \in Filed'} = P \ Top(P) /\ \A e \in Filed' : Fits(e)'
  BY <1>5, <1>10 DEF Archives
<1>12. Priced'
  BY <1>1 DEF Orderliness, Priced, PageOf
<1>8. Settled'
  BY <1>2, <1>6, <1>7, <1>11 DEF Orderliness, Settled, Archives, Syncing, Top
<1>9. ASSUME NEW p \in Procs PROVE Replacing(p)' /\ Replaced(p)'
  <2>1. Replacing(p)'
    <3> SUFFICES ASSUME Holds(p)' PROVE Replacing(p)'
      BY DEF Replacing
    <3>1. Holds(p) /\ Replacing(p)
      BY <1>2 DEF Holds, Orderliness
    <3>2. Archives(published)'
      BY <1>2, <1>11, <3>1 DEF Replacing, Archives, Top
    <3>3. Recalls(run[p].prior, published)'
      BY <1>2, <1>10, <3>1 DEF Replacing, Recalls, Top
    <3>4. /\ \A b \in Verdict' : b.id \in run'[p].doomed
          /\ \A b \in PageOf({"zone"})' : b.id \notin run'[p].doomed
      BY <1>2, <1>3, <3>1 DEF Replacing
    <3>5. IF run'[p].phase = "zoning" THEN published' = {} /\ Zoned({})' ELSE Sole("zone")'
      BY <1>2, <1>3, <1>4, <3>1 DEF Replacing, Zoned
    <3> QED BY <3>2, <3>3, <3>4, <3>5 DEF Replacing
  <2>2. Replaced(p)'
    BY <1>2, <1>4, <1>6, <1>10, <1>11 DEF Orderliness, Replaced, Archives, Recalls, Top
  <2> QED BY <2>1, <2>2
<1> QED BY <1>8, <1>9, <1>12 DEF Orderliness

LEMMA QuietNext == QuietInv /\ [Next]_vars => QuietInv'
<1> SUFFICES ASSUME QuietInv, [Next]_vars PROVE QuietInv'
  OBVIOUS
<1>1. OnceInv'
  BY OnceNext DEF QuietInv
<1>2. ASSUME trouble' = {} PROVE Orderliness'
  <2>1. trouble = {}
    BY <1>2, TroubleStays
  <2>2. TypesInv /\ Once /\ Alone /\ Orderliness
    BY <2>1 DEF QuietInv, OnceInv, Clean, VisitsInv, Orderly
  <2>3. ASSUME NEW p \in Procs, RunStep(p) PROVE Orderliness'
    <3>1. Solo(p)
      BY <1>2, <2>2, <2>3, OthersIdle DEF Solo
    <3> QED BY <1>2, <2>2, <2>3, <3>1, QuietApart, QuietRead, QuietZone, QuietDelete,
               QuietAppend, QuietArchive DEF RunStep, Apart
  <2>4. CASE WriteNote
    BY <2>2, <2>4, QuietNote
  <2>5. ~Rewrite
    BY <1>2 DEF Rewrite
  <2>6. CASE UNCHANGED <<page, archived, run, runs, published, trouble, written>>
    <3>1. /\ Strangers' = Strangers /\ (Priced => Priced') /\ Filed' = Filed /\ Verdict' = Verdict
          /\ \A kind \in VerdictKinds \cup {"zone"} :
               PageOf({kind})' = PageOf({kind}) /\ (Sole(kind) => Sole(kind)')
      BY <2>6 DEF Strangers, Priced, Filed, Verdict, PageOf, Sole
    <3>2. /\ Presents(published) => Presents(published)'
          /\ Zoned(published) => Zoned(published)'
      BY <2>6, <3>1 DEF Presents, Zoned, VerdictKinds, Top
    <3>3. Settled'
      BY <2>2, <2>6, <3>1, <3>2 DEF Orderliness, Settled, Archives, Fits, Syncing, Top
    <3>4. ASSUME NEW p \in Procs PROVE Replacing(p)' /\ Replaced(p)'
      <4>1. Replacing(p)'
        BY <2>2, <2>6, <3>1
           DEF Orderliness, Replacing, Holds, Archives, Fits, Recalls, Zoned, Top
      <4>2. Replaced(p)'
        BY <2>2, <2>6, <3>1, <3>2 DEF Orderliness, Replaced, Archives, Fits, Recalls, Top
      <4> QED BY <4>1, <4>2
    <3> QED BY <2>2, <3>1, <3>3, <3>4 DEF Orderliness
  <2> QED BY <2>3, <2>4, <2>5, <2>6 DEF Next, NewWeek, vars, pageVars
<1> QED BY <1>1, <1>2 DEF QuietInv

\* After runs that nothing disturbed the page shows the latest verdict alone.
THEOREM PageIsCurrent == Spec => []PageShowsLatest
<1>1. ASSUME QuietInv PROVE PageShowsLatest
  <2> SUFFICES ASSUME Quiet
               PROVE  /\ Shown = Latest
                      /\ \A kind \in {"headline", "item", "zone"} :
                           Cardinality({b \in page : b.kind = kind}) =
                             IF published = {} THEN 0 ELSE 1
    BY DEF PageShowsLatest
  <2>1. Presents(published) /\ Zoned(published)
    BY <1>1 DEF Quiet, Resting, Underway, Syncing, QuietInv, Orderliness, Settled
  <2>2. /\ \A b \in page : b.kind \notin VerdictKinds => b.of = 0
        /\ published \subseteq Nat /\ 0 \notin published
    BY <1>1, PublishedRuns DEF Quiet, QuietInv, OnceInv, Clean, Once, PageSays
  <2>3. Latest = Top(published)
    BY DEF Latest, Top
  <2>4. CASE published = {}
    <3>1. \A kind \in {"headline", "item", "zone"} : {b \in page : b.kind = kind} = {}
      BY <2>1, <2>4 DEF Presents, Zoned, Verdict, PageOf, VerdictKinds
    <3> QED BY <2>3, <2>4, <3>1, FS_EmptySet DEF Shown, Top
  <2>5. CASE published # {}
    <3>1. Sole("headline") /\ Sole("item") /\ Sole("zone")
      BY <2>1, <2>5 DEF Presents, Zoned
    <3>2. \A kind \in {"headline", "item", "zone"} :
            \E b \in page : {c \in page : c.kind = kind} = {b}
      BY <3>1 DEF Sole, PageOf
    <3>3. \A kind \in {"headline", "item", "zone"} :
            Cardinality({c \in page : c.kind = kind}) = 1
      BY <3>2, FS_Singleton
    <3>4. \A b \in Verdict : b.of \in Top(published)
      BY <2>1, <2>5 DEF Presents
    <3>5. Shown \subseteq Top(published)
      BY <2>2, <3>4 DEF Shown, Verdict, PageOf
    <3>6. PICK h \in page : PageOf({"headline"}) = {h}
      BY <3>1 DEF Sole
    <3>7. h.of \in Top(published)
      BY <3>4, <3>6 DEF Verdict, PageOf, VerdictKinds
    <3>8. Top(published) \subseteq {h.of}
      BY <2>2, <3>7, TopOne
    <3>9. h.of \in Shown
      BY <3>7 DEF Shown, Top
    <3> QED BY <2>3, <2>5, <3>3, <3>5, <3>8, <3>9
  <2> QED BY <2>4, <2>5
<1> QED BY <1>1, QuietInit, QuietNext, PTL DEF Spec

\* And the archive has every earlier one, once, with its own items, and beside
\* them nothing but a priced line that a person did write.
THEOREM ArchiveIsComplete == Spec => []ArchiveIsFaithful
<1>1. ASSUME QuietInv PROVE ArchiveIsFaithful
  <2> SUFFICES ASSUME Quiet
               PROVE  /\ Listed = published \ Top(published)
                      /\ NoRepeats
                      /\ \A i \in 1..Len(archived) : Fits(archived[i])
    BY DEF ArchiveIsFaithful, Listed, NoRepeats, Fits, Strangers, Latest, Top
  <2>1. Archives(published)
    BY <1>1 DEF Quiet, Resting, Underway, Syncing, QuietInv, Orderliness, Settled
  <2>2. NoRepeats
    BY <1>1 DEF Quiet, QuietInv, OnceInv, Clean, Once, ArchiveSays
  <2>3. Listed = {e.of : e \in Filed}
    BY DEF Listed, Filed
  <2>4. \A i \in 1..Len(archived) : archived[i] \in Filed
    BY DEF Filed
  <2> QED BY <2>1, <2>2, <2>3, <2>4 DEF Archives
<1> QED BY <1>1, QuietInit, QuietNext, PTL DEF Spec

=============================================================================
