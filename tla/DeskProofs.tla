------------------------------- MODULE DeskProofs -------------------------------
(***************************************************************************)
(* Proofs about Desk for any number of processes, comments, products,      *)
(* attempts, pages and chunks: what a command may count on, whatever the   *)
(* other commands do and whenever one of them is killed.                   *)
(***************************************************************************)
EXTENDS Desk, ListLemmas, FiniteSetTheorems, SequenceTheorems, TLAPS

------------------------------------------------------------------------------
(* The inductive invariant. *)

Commands == {"none", "sync", "thread", "scrape", "push"}
Requesting == {"asking", "resolving", "crawling"}
RowKinds == Kinds \cup {"product"}

Phases == Over \cup Requesting \cup {"idle", "writing", "filling", "saving", "pushing"}
Reasons == {"none", "lost", "refused", "cap", "disk", "locked"}
Fields == {"cmd", "pc", "at", "tries", "streak", "why", "kinds", "got", "todo", "save", "blocks"}

Typed(j) ==
  /\ DOMAIN j = Fields
  /\ j.cmd \in Commands /\ j.pc \in Phases /\ j.why \in Reasons
  /\ j.at \in Nat /\ j.tries \in Nat /\ j.streak \in Nat /\ j.blocks \in Nat
  /\ j.kinds \in Seq(RowKinds) /\ j.got \subseteq Rows /\ j.todo \subseteq Rows
  /\ j.save \in BOOLEAN

\* Where in its command a job may be, and what it holds there.
Placed(j) ==
  /\ j.pc = "idle" => j.cmd = "none" /\ j.at = 1
  /\ j.pc = "asking" => j.cmd = "sync" /\ j.at \in 1..MaxPages /\ j.kinds[1] = "product"
  /\ j.pc = "resolving" => j.cmd \in {"thread", "scrape"} /\ j.at = 1
  /\ j.pc = "crawling" => j.cmd \in {"thread", "scrape"} /\ j.at \in 1..Len(j.kinds)
  /\ j.pc \in {"writing", "filling"} => j.cmd = "scrape" /\ j.at \in 1..Len(Files)
  /\ j.pc = "saving" => /\ j.cmd \in {"sync", "thread", "scrape"}
                        /\ j.at \in 1..Len(j.kinds)
                        /\ j.todo \subseteq Batch(j)
  /\ j.pc = "pushing" => j.cmd = "push" /\ j.at \in 1..j.blocks
  /\ j.pc \in Over => j.cmd # "none" /\ j.at = 1
  /\ j.pc # "saving" => j.todo = {}
  /\ j.cmd = "scrape" => Len(j.kinds) <= 2
  /\ j.cmd # "push" => j.blocks = 0

\* The rows of a command that saves one kind are of that kind.
OneKind(j) ==
  j.cmd \in {"sync", "thread"} /\ j.pc \notin Over =>
    /\ Len(j.kinds) = 1
    /\ \A r \in j.got : r.kind = j.kinds[1]

\* Losses count from the last answer, and only the last of Attempts ends a command.
Counted(j) ==
  /\ j.pc \notin Over => j.why = "none" /\ j.streak = j.tries /\ j.streak < Attempts
  /\ j.pc \in Over => j.tries = 0 /\ (j.why = "lost" <=> j.streak = Attempts)
  /\ j.streak <= Attempts

Good(j) == Typed(j) /\ Placed(j) /\ OneKind(j) /\ Counted(j)

JobsInv ==
  /\ DOMAIN job = Procs
  /\ \A p \in Procs : Good(job[p])

\* SQLite's writer lock is held for a transaction.
SharedInv ==
  /\ writer \in Procs \cup {None}
  /\ writer # None => job[writer].pc = "saving"
  /\ lost \in 0..MaxLost

\* Rows get into the table with all of their kind, and while a command still
\* fetches none of its rows is there.
RowsInv ==
  \A t \in table :
    /\ t.row \in Rows /\ t.by \in Procs
    /\ job[t.by].pc \in {"saving"} \cup Over
    /\ OfKind(job[t.by].got, t.row.kind) \subseteq Stored

\* What is not fetched yet lies on the pages to come.
Ahead(list, at, x) == \E i \in 1..Len(list) : list[i] = x /\ (at - 1) * PageSize < i

AccountInv ==
  /\ account \in Seq(1..Products)
  /\ stayed \in [Procs -> SUBSET (1..Products)]
  /\ moves \in 0..MaxMoves
  /\ \A p \in Procs : In(p, "sync", "asking") =>
       \A x \in stayed[p] : ProductRow(x) \in job[p].got \/ Ahead(account, job[p].at, x)
  /\ \A p \in Procs : job[p].cmd = "sync" /\ job[p].pc \in {"saving", "done"} =>
       \A x \in stayed[p] : ProductRow(x) \in job[p].got

Whole(p) == [torn |-> FALSE, of |-> p]

\* Of a process that is at its n-th file, or was when it ended, no later one is there.
Reached(j, i) ==
  /\ j.cmd = "scrape" /\ j.pc \notin {"resolving", "crawling"}
  /\ j.pc = "writing" => i < j.at
  /\ j.pc = "filling" => i <= j.at

\* Unless two have written at the same time, one process at most is in the middle
\* of its files, and those behind it are its own.
InOrder ==
  /\ \A p, q \in Procs : MidFiles(p) /\ MidFiles(q) => p = q
  /\ \A p \in Procs, i \in 1..Len(Files) : dir[Files[i]].of = p => Reached(job[p], i)
  /\ \A p \in Procs : MidFiles(p) => \A i \in 1..(job[p].at - 1) : dir[Files[i]] = Whole(p)
  /\ \A p \in Procs : job[p].pc = "filling" => dir[Files[job[p].at]].of = p

FilesInv ==
  /\ dir \in [DOMAIN NoDir -> [torn : BOOLEAN, of : Procs \cup {None}]]
  /\ dir # Muddle => InOrder /\ DossierSealsArchive

\* The runs of a push end where its next chunk begins.
CardsInv ==
  /\ cards \in Seq([by : Procs, from : Nat, to : Nat])
  /\ \A p \in Procs :
       /\ Runs(p) # {} => job[p].cmd = "push"
       /\ job[p].pc = "pushing" =>
            /\ \A i \in Runs(p) : cards[i].to < job[p].at
            /\ job[p].at = 1 \/ \E i \in Runs(p) : cards[i].to + 1 = job[p].at

IndInv ==
  /\ JobsInv /\ SharedInv /\ RowsInv /\ AccountInv /\ FilesInv /\ CardsInv
  /\ SavesAreWhole /\ PushesStayWhole

------------------------------------------------------------------------------
(* What a step of one command leaves alone.  Each action but those named keeps all *)
(* four.                                                                           *)

Becomes(p, k) == job' = [job EXCEPT ![p] = k]

\* Commit apart, nothing is saved.
KeepsRows(j, k) ==
  /\ j.pc \notin Over
  /\ j.pc = "saving" => k.pc \in {"saving"} \cup Over /\ k.got = j.got
  /\ k.pc = "done" /\ k.cmd \in {"sync", "thread"} => k.got = {}

\* StartSync and FetchProductsPage apart, a sync is where it was.
KeepsAccount(j, k) ==
  /\ k.cmd = "sync" /\ k.pc = "asking" =>
       j.cmd = "sync" /\ j.pc = "asking" /\ k.got = j.got /\ k.at = j.at
  /\ k.cmd = "sync" /\ k.pc \in {"saving", "done"} =>
       j.cmd = "sync" /\ j.pc = "saving" /\ k.got = j.got

\* CreateFile, FillFile and FileFails apart, nobody gets on with the files.
KeepsFiles(j, k) ==
  /\ k.pc # "filling" /\ (k.pc = "writing" => k.at = 1)
  /\ \A i \in Nat : Reached(j, i) => Reached(k, i)

\* PushChunk apart, a push is where it was.
KeepsCards(j, k) ==
  /\ j.cmd = "push" => k.cmd = "push"
  /\ k.pc = "pushing" => j.cmd = "none" /\ k.at = 1
  /\ k.pc = "done" => k.blocks = 0

------------------------------------------------------------------------------
(* Jobs: the records a step of a command makes of another. *)

LEMMA FilesFacts ==
  /\ Len(Files) = 8 /\ Files[1] = "deal.json" /\ Files[7] = "DOSSIER.md"
  /\ Files[8] = "SUMMARY.md"
  /\ \A i, j \in 1..8 : Files[i] = Files[j] => i = j
  /\ DOMAIN NoDir = {Files[i] : i \in 1..8}
  /\ DOMAIN NoDir \ {"SUMMARY.md"} = {Files[i] : i \in 1..7}
<1>1. Len(Files) = 8
  BY DEF Files
<1>2. /\ Files[1] = "deal.json" /\ Files[2] = "reviews.json" /\ Files[3] = "questions.json"
      /\ Files[4] = "faqs.json" /\ Files[5] = "founders.json"
      /\ Files[6] = "full_archive.json" /\ Files[7] = "DOSSIER.md"
      /\ Files[8] = "SUMMARY.md"
  BY DEF Files
<1>3. \A i \in 1..8 : i = 1 \/ i = 2 \/ i = 3 \/ i = 4 \/ i = 5 \/ i = 6 \/ i = 7 \/ i = 8
  OBVIOUS
<1>4. \A i, j \in 1..8 : Files[i] = Files[j] => i = j
  BY <1>2, <1>3
<1>5. DOMAIN NoDir = {Files[i] : i \in 1..8}
  BY <1>1 DEF NoDir
<1>6. \A i \in 1..8 : Files[i] # "SUMMARY.md" <=> i \in 1..7
  BY <1>2, <1>3
<1>7. DOMAIN NoDir \ {"SUMMARY.md"} = {Files[i] : i \in 1..7}
  BY <1>5, <1>6
<1> QED BY <1>1, <1>2, <1>4, <1>5, <1>7

LEMMA IdleGood == Good(Idle)
<1>1. Typed(Idle)
  BY DEF Idle, Typed, Fields, Commands, Phases, Reasons
<1> QED
  BY <1>1, JobsAssumption, FilesFacts
  DEF Idle, Good, Placed, OneKind, Counted, Requesting, Over

\* A command that is over keeps its name, and what it pushed or was saving.
IsOver(k, j, pc, streak, why) ==
  /\ DOMAIN k = Fields
  /\ k.cmd = j.cmd /\ k.pc = pc /\ k.at = 1 /\ k.tries = 0 /\ k.streak = streak
  /\ k.why = why /\ k.kinds = <<>> /\ k.todo = {} /\ k.save = FALSE
  /\ k.blocks = j.blocks /\ k.got = (IF j.pc = "saving" THEN j.got ELSE {})

LEMMA EndedIs ==
  ASSUME NEW j, NEW pc
  PROVE  IsOver(Ended(j, pc), j, pc, j.streak, "none")
BY DEF IsOver, Ended, Idle, Fields

LEMMA FailedIs ==
  ASSUME NEW j, NEW why
  PROVE  IsOver(Failed(j, why), j, "failed", j.streak, why)
<1> DEFINE e == Ended(j, "failed")
<1>1. IsOver(e, j, "failed", j.streak, "none")
  BY EndedIs
<1>2. Failed(j, why) = [e EXCEPT !.why = why]
  BY DEF Failed
<1> HIDE DEF e
<1> QED BY <1>1, <1>2 DEF IsOver, Fields

\* However a command ends that is under way, it ends well formed.
LEMMA OverTyped ==
  ASSUME NEW j, Typed(j), j.cmd # "none", j.cmd # "push" => j.blocks = 0,
         NEW pc \in Over, NEW streak \in Nat, NEW why \in Reasons,
         NEW k, IsOver(k, j, pc, streak, why)
  PROVE  Typed(k) /\ Placed(k) /\ OneKind(k)
<1>1. Typed(k)
  <2>1. k.cmd \in Commands /\ k.pc \in Phases /\ k.why \in Reasons
    BY DEF Typed, Phases, IsOver
  <2>2. k.at \in Nat /\ k.tries \in Nat /\ k.streak \in Nat /\ k.blocks \in Nat
    BY DEF Typed, IsOver
  <2>3. k.kinds \in Seq(RowKinds)
    BY DEF IsOver
  <2>4. k.got \subseteq Rows /\ k.todo \subseteq Rows /\ k.save \in BOOLEAN
    BY DEF Typed, IsOver
  <2> QED BY <2>1, <2>2, <2>3, <2>4 DEF Typed, IsOver
<1>2. Placed(k) /\ OneKind(k)
  BY FilesFacts DEF Placed, OneKind, Over, IsOver
<1> QED BY <1>1, <1>2

LEMMA OverGood ==
  ASSUME NEW j, Typed(j), Placed(j), j.cmd # "none",
         NEW pc \in Over, NEW streak \in 0..Attempts, NEW why \in Reasons,
         why = "lost" <=> streak = Attempts,
         NEW k, IsOver(k, j, pc, streak, why)
  PROVE  Good(k)
<1>1. Attempts \in Nat /\ streak \in Nat
  BY JobsAssumption
<1>2. Typed(k) /\ Placed(k) /\ OneKind(k)
  BY <1>1, OverTyped DEF Placed
<1>3. Counted(k)
  BY <1>1 DEF Counted, IsOver
<1> QED BY <1>2, <1>3 DEF Good

\* A command that fails or is killed keeps everything that was done.
LEMMA OverKeeps ==
  ASSUME NEW j, Good(j), j.pc \notin Over \cup {"idle"}, NEW k,
         NEW pc \in {"failed", "killed"}, NEW streak, NEW why, IsOver(k, j, pc, streak, why)
  PROVE  KeepsRows(j, k) /\ KeepsAccount(j, k) /\ KeepsFiles(j, k) /\ KeepsCards(j, k)
BY DEF KeepsRows, KeepsAccount, KeepsFiles, KeepsCards, Over, Reached, IsOver

LEMMA CommandNamed ==
  ASSUME NEW j, Good(j), j.pc # "idle"
  PROVE  j.cmd # "none"
BY DEF Good, Placed, Typed, Phases, Over, Requesting

\* getJSON and getHTML: a request that brings nothing.
LEMMA UnansweredStep ==
  ASSUME JobsInv, NEW p \in Procs, job[p].pc \in Requesting, Unanswered(p)
  PROVE  \E k : /\ Becomes(p, k) /\ Good(k)
                /\ KeepsRows(job[p], k) /\ KeepsAccount(job[p], k)
                /\ KeepsFiles(job[p], k) /\ KeepsCards(job[p], k)
<1> DEFINE j == job[p]
<1>1. Good(j) /\ Typed(j) /\ Placed(j) /\ OneKind(j) /\ Counted(j) /\ j.cmd # "none"
  BY CommandNamed DEF JobsInv, Good, Requesting
<1>2. j.pc \notin Over \cup {"idle"}
  BY DEF Requesting, Over
<1>3. Attempts \in Nat \ {0} /\ j.tries \in Nat /\ j.streak = j.tries /\ j.streak < Attempts
      /\ j.why = "none" /\ DOMAIN j = Fields
  BY <1>1, <1>2, JobsAssumption DEF Typed, Counted
<1>4. CASE Refuse(p)
  <2> DEFINE k == Failed(j, "refused")
  <2>1. Becomes(p, k)
    BY <1>4 DEF Refuse, Becomes
  <2>2. IsOver(k, j, "failed", j.streak, "refused")
    BY FailedIs
  <2> HIDE DEF k, j
  <2>3. /\ "failed" \in Over /\ "refused" \in Reasons /\ j.streak \in 0..Attempts
        /\ ("refused" = "lost" <=> j.streak = Attempts)
    BY <1>3 DEF Over, Reasons
  <2>4. Good(k)
    BY <1>1, <2>2, <2>3, OverGood
  <2>5. KeepsRows(j, k) /\ KeepsAccount(j, k) /\ KeepsFiles(j, k) /\ KeepsCards(j, k)
    BY <1>1, <1>2, <2>2, OverKeeps
  <2> QED BY <2>1, <2>4, <2>5 DEF j
<1>5. CASE Lose(p)
  <2> DEFINE l == [j EXCEPT !.tries = @ + 1, !.streak = @ + 1]
             k == IF l.tries = Attempts THEN Failed(l, "lost") ELSE l
  <2>1. Becomes(p, k)
    BY <1>5 DEF Lose, Becomes
  <2>2. /\ DOMAIN l = Fields /\ l.tries = j.tries + 1 /\ l.streak = j.tries + 1
        /\ l.cmd = j.cmd /\ l.pc = j.pc /\ l.at = j.at /\ l.why = j.why
        /\ l.kinds = j.kinds /\ l.got = j.got /\ l.todo = j.todo /\ l.save = j.save
        /\ l.blocks = j.blocks
    BY <1>3 DEF Fields
  <2> HIDE DEF l, j
  <2>3. CASE l.tries = Attempts
    <3>0. k = Failed(l, "lost")
      BY <2>3
    <3> HIDE DEF k
    <3>1. IsOver(k, l, "failed", l.streak, "lost")
      BY <3>0, FailedIs
    <3>2. IsOver(k, j, "failed", Attempts, "lost")
      BY <2>2, <2>3, <3>1 DEF IsOver
    <3>3. /\ "failed" \in Over /\ "lost" \in Reasons /\ Attempts \in 0..Attempts
      BY <1>3 DEF Over, Reasons
    <3>4. Good(k)
      BY <1>1, <3>2, <3>3, OverGood
    <3>5. KeepsRows(j, k) /\ KeepsAccount(j, k) /\ KeepsFiles(j, k) /\ KeepsCards(j, k)
      BY <1>1, <1>2, <3>2, OverKeeps
    <3> QED BY <2>1, <3>4, <3>5 DEF j
  <2>4. CASE l.tries # Attempts
    <3>1. k = l
      BY <2>4
    <3> HIDE DEF k
    <3>2. Typed(l)
      <4>1. l.tries \in Nat /\ l.streak \in Nat
        BY <1>3, <2>2
      <4> QED BY <1>1, <2>2, <4>1 DEF Typed
    <3>3. Placed(l) /\ OneKind(l)
      BY <1>1, <2>2 DEF Placed, OneKind, Batch
    <3>4. Counted(l)
      <4>1. l.tries < Attempts /\ l.pc \notin Over
        BY <1>2, <1>3, <2>2, <2>4
      <4> QED BY <1>3, <2>2, <4>1 DEF Counted
    <3>5. KeepsRows(j, l) /\ KeepsAccount(j, l)
      BY <1>2, <2>2 DEF KeepsRows, KeepsAccount, Requesting, Over, j
    <3>6. KeepsFiles(j, l) /\ KeepsCards(j, l)
      BY <2>2 DEF KeepsFiles, KeepsCards, Requesting, Reached, j
    <3> QED BY <2>1, <3>1, <3>2, <3>3, <3>4, <3>5, <3>6 DEF Good, j
  <2> QED BY <2>3, <2>4
<1> QED BY <1>4, <1>5 DEF Unanswered

\* An answer starts the count of losses again, and leaves the rest as the
\* command makes it.
Same(k, l) ==
  /\ k.cmd = l.cmd /\ k.pc = l.pc /\ k.at = l.at /\ k.kinds = l.kinds /\ k.got = l.got
  /\ k.todo = l.todo /\ k.blocks = l.blocks

LEMMA AnswerStep ==
  ASSUME NEW p, NEW l, Answer(p, l), Typed(l), Placed(l), OneKind(l),
         l.why # "lost", l.pc \notin Over => l.why = "none"
  PROVE  /\ Becomes(p, Answered(l)) /\ Good(Answered(l)) /\ Same(Answered(l), l)
         /\ UNCHANGED <<storeVars, lost>>
<1> DEFINE k == Answered(l)
<1>1. Becomes(p, k) /\ UNCHANGED <<storeVars, lost>>
  BY DEF Answer, Becomes
<1>2. DOMAIN l = Fields
  BY DEF Typed
<1>3. /\ DOMAIN k = Fields /\ k.tries = 0 /\ k.streak = 0 /\ k.why = l.why /\ k.save = l.save
      /\ k.cmd = l.cmd /\ k.pc = l.pc /\ k.at = l.at /\ k.kinds = l.kinds /\ k.got = l.got
      /\ k.todo = l.todo /\ k.blocks = l.blocks
  BY <1>2 DEF Answered, Fields
<1> HIDE DEF k
<1>4. Typed(k)
  BY <1>3 DEF Typed
<1>5. Placed(k) /\ OneKind(k)
  BY <1>3 DEF Placed, OneKind, Batch
<1>6. Counted(k)
  BY <1>3, JobsAssumption DEF Counted
<1>7. Same(k, l)
  BY <1>3 DEF Same
<1> QED BY <1>1, <1>4, <1>5, <1>6, <1>7 DEF Good, k

\* A transaction that begins has the rows of its kind to insert.
LEMMA SavingIs ==
  ASSUME NEW j, Typed(j), NEW at \in 1..Len(j.kinds), j.cmd \in {"sync", "thread", "scrape"},
         j.blocks = 0, j.cmd = "scrape" => Len(j.kinds) <= 2,
         j.cmd \in {"sync", "thread"} =>
           Len(j.kinds) = 1 /\ \A r \in j.got : r.kind = j.kinds[1]
  PROVE  LET k == Saving(j, at)
         IN  /\ Typed(k) /\ Placed(k) /\ OneKind(k)
             /\ k.cmd = j.cmd /\ k.pc = "saving" /\ k.at = at /\ k.got = j.got
             /\ k.why = j.why /\ k.tries = j.tries /\ k.streak = j.streak /\ k.blocks = 0
<1> DEFINE l == [j EXCEPT !.pc = "saving", !.at = at]
           k == [l EXCEPT !.todo = Batch(l)]
<1>0. at \in Nat /\ at >= 1 /\ DOMAIN j = Fields
  BY LenProperties DEF Typed
<1>1. /\ DOMAIN l = Fields /\ l.pc = "saving" /\ l.at = at /\ l.cmd = j.cmd /\ l.why = j.why
      /\ l.tries = j.tries /\ l.streak = j.streak /\ l.blocks = j.blocks
      /\ l.kinds = j.kinds /\ l.got = j.got /\ l.todo = j.todo /\ l.save = j.save
  BY <1>0 DEF Fields
<1>2. Batch(l) \subseteq j.got
  BY <1>1 DEF Batch, OfKind
<1> DEFINE b == Batch(l)
<1> HIDE DEF l, b
<1>3. /\ DOMAIN k = Fields /\ k.pc = "saving" /\ k.at = at /\ k.cmd = j.cmd /\ k.why = j.why
      /\ k.tries = j.tries /\ k.streak = j.streak /\ k.blocks = j.blocks
      /\ k.kinds = j.kinds /\ k.got = j.got /\ k.todo = b /\ k.save = j.save
  BY <1>1 DEF Fields, b
<1>4. Saving(j, at) = k
  BY DEF Saving, l
<1> HIDE DEF k
<1>5. b = Batch(k)
  BY <1>1, <1>3 DEF Batch, b
<1>6. Typed(k)
  <2>1. k.pc \in Phases /\ k.at \in Nat /\ k.todo \subseteq Rows
    BY <1>0, <1>2, <1>3 DEF Phases, Typed, b
  <2> QED BY <1>3, <2>1 DEF Typed
<1>7. Placed(k) /\ OneKind(k)
  BY <1>3, <1>5 DEF Placed, OneKind, Over
<1> QED BY <1>3, <1>4, <1>6, <1>7

\* Behind a crawl comes the next one, the files of a scrape, the save or the end.
LEMMA CrawledIs ==
  ASSUME NEW j, Typed(j), j.cmd \in {"thread", "scrape"}, j.at \in 0..Len(j.kinds),
         j.pc \in {"resolving", "crawling"}, j.blocks = 0, j.todo = {}, j.why = "none",
         j.streak \in 0..Attempts,
         j.cmd = "scrape" => Len(j.kinds) <= 2,
         j.cmd = "thread" => Len(j.kinds) = 1 /\ \A r \in j.got : r.kind = j.kinds[1]
  PROVE  LET k == Crawled(j)
         IN  /\ Typed(k) /\ Placed(k) /\ OneKind(k)
             /\ k.cmd = j.cmd /\ k.why = "none" /\ k.blocks = 0
             /\ k.pc \in {"crawling", "writing", "saving", "done"}
             /\ k.pc = "done" => k.got = {}
             /\ k.pc = "writing" => k.at = 1
<1> DEFINE k == Crawled(j)
<1>0. DOMAIN j = Fields /\ Len(j.kinds) \in Nat /\ j.at \in Nat
  BY LenProperties DEF Typed
<1>1. CASE j.at < Len(j.kinds)
  <2>1. k = [j EXCEPT !.pc = "crawling", !.at = @ + 1]
    BY <1>0, <1>1 DEF Crawled
  <2>2. /\ DOMAIN k = Fields /\ k.pc = "crawling" /\ k.at = j.at + 1 /\ k.cmd = j.cmd
        /\ k.why = j.why /\ k.tries = j.tries /\ k.streak = j.streak /\ k.blocks = j.blocks
        /\ k.kinds = j.kinds /\ k.got = j.got /\ k.todo = j.todo /\ k.save = j.save
    BY <1>0, <2>1 DEF Fields
  <2> HIDE DEF k
  <2>3. Typed(k)
    <3>1. k.pc \in Phases /\ k.at \in Nat
      BY <1>0, <2>2 DEF Phases, Requesting
    <3> QED BY <2>2, <3>1 DEF Typed
  <2>4. Placed(k) /\ OneKind(k)
    <3>1. k.at \in 1..Len(k.kinds)
      BY <1>0, <1>1, <2>2
    <3> QED BY <2>2, <3>1 DEF Placed, OneKind, Over
  <2> QED BY <2>2, <2>3, <2>4 DEF k
<1>2. CASE j.at >= Len(j.kinds) /\ j.cmd = "scrape"
  <2>1. k = [j EXCEPT !.pc = "writing", !.at = 1]
    BY <1>0, <1>2 DEF Crawled
  <2>2. /\ DOMAIN k = Fields /\ k.pc = "writing" /\ k.at = 1 /\ k.cmd = j.cmd
        /\ k.why = j.why /\ k.tries = j.tries /\ k.streak = j.streak /\ k.blocks = j.blocks
        /\ k.kinds = j.kinds /\ k.got = j.got /\ k.todo = j.todo /\ k.save = j.save
    BY <1>0, <2>1 DEF Fields
  <2> HIDE DEF k
  <2>3. Typed(k)
    <3>1. k.pc \in Phases /\ k.at \in Nat
      BY <2>2 DEF Phases
    <3> QED BY <2>2, <3>1 DEF Typed
  <2>4. Placed(k) /\ OneKind(k)
    <3>1. k.at \in 1..Len(Files)
      BY <2>2, FilesFacts
    <3> QED BY <1>2, <2>2, <3>1 DEF Placed, OneKind, Over
  <2> QED BY <2>2, <2>3, <2>4 DEF k
<1>3. CASE j.at >= Len(j.kinds) /\ j.cmd = "thread" /\ j.save
  <2>1. k = Saving(j, 1)
    BY <1>0, <1>3 DEF Crawled
  <2>2. 1 \in 1..Len(j.kinds)
    <3>1. Len(j.kinds) = 1
      BY <1>3
    <3> QED BY <3>1
  <2>3. LET m == Saving(j, 1)
        IN  /\ Typed(m) /\ Placed(m) /\ OneKind(m)
            /\ m.cmd = j.cmd /\ m.pc = "saving" /\ m.at = 1 /\ m.got = j.got
            /\ m.why = j.why /\ m.tries = j.tries /\ m.streak = j.streak /\ m.blocks = 0
    BY <1>3, <2>2, SavingIs
  <2> HIDE DEF k
  <2> QED BY <2>1, <2>3 DEF k
<1>4. CASE j.at >= Len(j.kinds) /\ j.cmd = "thread" /\ ~j.save
  <2>1. k = Ended(j, "done")
    BY <1>0, <1>4 DEF Crawled, Done
  <2> HIDE DEF k
  <2>2. IsOver(k, j, "done", j.streak, "none")
    BY <2>1, EndedIs
  <2>3. "done" \in Over /\ "none" \in Reasons /\ j.streak \in Nat
    BY JobsAssumption DEF Over, Reasons
  <2>4. Typed(k) /\ Placed(k) /\ OneKind(k)
    BY <1>4, <2>2, <2>3, OverTyped
  <2> QED BY <2>2, <2>4 DEF IsOver, k
<1>5. j.at < Len(j.kinds) \/ j.at >= Len(j.kinds)
  BY <1>0
<1> QED BY <1>1, <1>2, <1>3, <1>4, <1>5

------------------------------------------------------------------------------
(* The steps of the commands, up to the files, the save and the push. *)

Quiet(j, k) == KeepsRows(j, k) /\ KeepsAccount(j, k) /\ KeepsFiles(j, k) /\ KeepsCards(j, k)

\* What a command starts with.
Starting(k) ==
  \/ k.cmd = "sync" /\ k.pc = "asking" /\ k.kinds = <<"product">> /\ k.blocks = 0 /\ k.why = "none"
  \/ k.cmd = "thread" /\ k.pc = "resolving" /\ Len(k.kinds) = 1 /\ k.blocks = 0 /\ k.why = "none"
  \/ k.cmd = "scrape" /\ k.pc = "resolving" /\ Len(k.kinds) <= 2 /\ k.blocks = 0 /\ k.why = "none"
  \/ k.cmd = "push" /\ k.pc = "pushing" /\ k.blocks > 0 /\ k.why = "none"
  \/ k.cmd = "push" /\ k.pc = "done" /\ k.blocks = 0 /\ k.why = "none"
  \/ k.cmd = "push" /\ k.pc = "failed" /\ k.blocks = 0 /\ k.why = "refused"

Fresh(k) ==
  /\ DOMAIN k = Fields /\ k.at = 1 /\ k.tries = 0 /\ k.streak = 0 /\ k.got = {} /\ k.todo = {}
  /\ k.save \in BOOLEAN /\ k.kinds \in Seq(RowKinds) /\ k.blocks \in Nat

LEMMA StartedGood ==
  ASSUME NEW j, Good(j), j.pc = "idle", NEW k, Fresh(k), Starting(k)
  PROVE  /\ Good(k) /\ KeepsRows(j, k) /\ KeepsFiles(j, k) /\ KeepsCards(j, k)
         /\ k.cmd # "sync" => KeepsAccount(j, k)
<1>0. Attempts \in Nat \ {0} /\ MaxPages \in Nat \ {0}
  BY JobsAssumption, ProductSyncAssumption
<1>1. Typed(k)
  <2>1. k.cmd \in Commands /\ k.pc \in Phases /\ k.why \in Reasons
    BY DEF Commands, Phases, Over, Requesting, Reasons, Starting
  <2> QED BY <2>1 DEF Typed, Fresh
<1>2. Placed(k)
  BY <1>0 DEF Placed, Over, Fresh, Starting
<1>3. k.cmd \in {"sync", "thread"} => Len(k.kinds) = 1
  <2>1. Len(<<"product">>) = 1
    OBVIOUS
  <2> QED BY <2>1 DEF Starting
<1>7. OneKind(k)
  BY <1>3 DEF OneKind, Fresh
<1>8. Counted(k)
  BY <1>0 DEF Counted, Over, Fresh, Starting
<1>4. j.cmd = "none"
  BY DEF Good, Placed
<1>5. KeepsRows(j, k) /\ KeepsFiles(j, k) /\ KeepsCards(j, k)
  BY <1>4 DEF KeepsRows, KeepsFiles, KeepsCards, Over, Reached, Fresh, Starting
<1>6. k.cmd # "sync" => KeepsAccount(j, k)
  BY DEF KeepsAccount, Starting
<1> QED BY <1>1, <1>2, <1>5, <1>6, <1>7, <1>8 DEF Good

LEMMA StartSyncStep ==
  ASSUME JobsInv, NEW p \in Procs, StartSync(p)
  PROVE  \E k : /\ Becomes(p, k) /\ Good(k)
                /\ KeepsRows(job[p], k) /\ KeepsFiles(job[p], k) /\ KeepsCards(job[p], k)
                /\ k.cmd = "sync" /\ k.pc = "asking" /\ k.at = 1 /\ job[p].pc = "idle"
<1> DEFINE k == [Idle EXCEPT !.cmd = "sync", !.pc = "asking", !.kinds = <<"product">>,
                             !.save = TRUE]
<1>1. Becomes(p, k) /\ job[p].pc = "idle" /\ Good(job[p])
  BY DEF StartSync, StartJob, Becomes, JobsInv
<1>2. /\ DOMAIN k = Fields /\ k.cmd = "sync" /\ k.pc = "asking" /\ k.at = 1 /\ k.tries = 0
      /\ k.streak = 0 /\ k.why = "none" /\ k.kinds = <<"product">> /\ k.got = {}
      /\ k.todo = {} /\ k.save = TRUE /\ k.blocks = 0
  BY DEF Idle, Fields
<1> HIDE DEF k
<1>3. Fresh(k) /\ Starting(k)
  <2>1. k.kinds \in Seq(RowKinds) /\ Len(k.kinds) = 1
    BY <1>2 DEF RowKinds
  <2>2. k.save \in BOOLEAN
    BY <1>2, Zenon
  <2>3. k.blocks \in Nat
    BY <1>2
  <2> QED BY <1>2, <2>1, <2>2, <2>3 DEF Fresh, Starting
<1>4. Good(k) /\ KeepsRows(job[p], k) /\ KeepsFiles(job[p], k) /\ KeepsCards(job[p], k)
  BY <1>1, <1>3, StartedGood
<1> QED BY <1>1, <1>2, <1>4

LEMMA StartThreadStep ==
  ASSUME JobsInv, NEW p \in Procs, NEW kind \in Kinds, StartThread(p, kind)
  PROVE  \E k : Becomes(p, k) /\ Good(k) /\ Quiet(job[p], k) /\ job[p].pc = "idle"
<1>0. PICK save \in BOOLEAN :
        StartJob(p, [Idle EXCEPT !.cmd = "thread", !.pc = "resolving", !.kinds = <<kind>>,
                                 !.save = save])
  BY DEF StartThread
<1> DEFINE k == [Idle EXCEPT !.cmd = "thread", !.pc = "resolving", !.kinds = <<kind>>,
                             !.save = save]
<1>1. Becomes(p, k) /\ job[p].pc = "idle" /\ Good(job[p])
  BY <1>0 DEF StartJob, Becomes, JobsInv
<1>2. /\ DOMAIN k = Fields /\ k.cmd = "thread" /\ k.pc = "resolving" /\ k.at = 1 /\ k.tries = 0
      /\ k.streak = 0 /\ k.why = "none" /\ k.kinds = <<kind>> /\ k.got = {}
      /\ k.todo = {} /\ k.save = save /\ k.blocks = 0
  BY DEF Idle, Fields
<1> HIDE DEF k
<1>3. Fresh(k) /\ Starting(k)
  <2>1. k.kinds \in Seq(RowKinds) /\ Len(k.kinds) = 1
    BY <1>2 DEF RowKinds
  <2>2. k.save \in BOOLEAN
    BY <1>2, Zenon
  <2>3. k.blocks \in Nat
    BY <1>2
  <2> QED BY <1>2, <2>1, <2>2, <2>3 DEF Fresh, Starting
<1>4. Good(k) /\ Quiet(job[p], k)
  BY <1>1, <1>2, <1>3, StartedGood DEF Quiet
<1> QED BY <1>1, <1>4

LEMMA StartScrapeStep ==
  ASSUME JobsInv, NEW p \in Procs, StartScrape(p)
  PROVE  \E k : Becomes(p, k) /\ Good(k) /\ Quiet(job[p], k) /\ job[p].pc = "idle"
<1>0. PICK kinds \in {<<>>, <<"review">>, <<"question">>, <<"review", "question">>},
           save \in BOOLEAN :
        StartJob(p, [Idle EXCEPT !.cmd = "scrape", !.pc = "resolving", !.kinds = kinds,
                                 !.save = save])
  BY DEF StartScrape
<1> DEFINE k == [Idle EXCEPT !.cmd = "scrape", !.pc = "resolving", !.kinds = kinds,
                             !.save = save]
<1>1. Becomes(p, k) /\ job[p].pc = "idle" /\ Good(job[p])
  BY <1>0 DEF StartJob, Becomes, JobsInv
<1>2. /\ DOMAIN k = Fields /\ k.cmd = "scrape" /\ k.pc = "resolving" /\ k.at = 1 /\ k.tries = 0
      /\ k.streak = 0 /\ k.why = "none" /\ k.kinds = kinds /\ k.got = {}
      /\ k.todo = {} /\ k.save = save /\ k.blocks = 0
  BY DEF Idle, Fields
<1> HIDE DEF k
<1>3. Fresh(k) /\ Starting(k)
  <2>1. kinds \in Seq(RowKinds) /\ Len(kinds) <= 2
    <3>1. "review" \in RowKinds /\ "question" \in RowKinds
      BY DEF RowKinds, Kinds
    <3>2. CASE kinds = <<>>
      BY <3>2
    <3>3. CASE kinds = <<"review">>
      BY <3>1, <3>3
    <3>5. CASE kinds = <<"question">>
      BY <3>1, <3>5
    <3>4. CASE kinds = <<"review", "question">>
      BY <3>1, <3>4
    <3> QED BY <3>2, <3>3, <3>4, <3>5
  <2>2. k.save \in BOOLEAN
    BY <1>2, Zenon
  <2>3. k.blocks \in Nat
    BY <1>2
  <2> QED BY <1>2, <2>1, <2>2, <2>3 DEF Fresh, Starting
<1>4. Good(k) /\ Quiet(job[p], k)
  BY <1>1, <1>2, <1>3, StartedGood DEF Quiet
<1> QED BY <1>1, <1>4

LEMMA StartPushStep ==
  ASSUME JobsInv, NEW p \in Procs, StartPush(p)
  PROVE  \E k : Becomes(p, k) /\ Good(k) /\ Quiet(job[p], k) /\ job[p].pc = "idle"
<1>1. CASE \E deals \in 1..MaxDeals : \E blocks \in BlockCounts(deals) :
             StartJob(p, [Idle EXCEPT !.cmd = "push", !.pc = "pushing", !.blocks = blocks])
  <2>0. PICK deals \in 1..MaxDeals : \E blocks \in BlockCounts(deals) :
             StartJob(p, [Idle EXCEPT !.cmd = "push", !.pc = "pushing", !.blocks = blocks])
    BY <1>1
  <2>1. PICK blocks \in BlockCounts(deals) :
             StartJob(p, [Idle EXCEPT !.cmd = "push", !.pc = "pushing", !.blocks = blocks])
    BY <2>0
  <2> DEFINE k == [Idle EXCEPT !.cmd = "push", !.pc = "pushing", !.blocks = blocks]
  <2>2. Becomes(p, k) /\ job[p].pc = "idle" /\ Good(job[p])
    BY <2>1 DEF StartJob, Becomes, JobsInv
  <2>3. blocks \in Nat /\ blocks > 0
    BY NotionPushAssumption DEF BlockCounts
  <2>4. /\ DOMAIN k = Fields /\ k.cmd = "push" /\ k.pc = "pushing" /\ k.at = 1 /\ k.tries = 0
        /\ k.streak = 0 /\ k.why = "none" /\ k.kinds = <<>> /\ k.got = {}
        /\ k.todo = {} /\ k.save = FALSE /\ k.blocks = blocks
    BY DEF Idle, Fields
  <2> HIDE DEF k
  <2>5. Fresh(k) /\ Starting(k)
    <3>1. k.save \in BOOLEAN
      BY <2>4, Zenon
    <3>2. k.kinds \in Seq(RowKinds) /\ k.blocks \in Nat
      BY <2>3, <2>4
    <3> QED BY <2>3, <2>4, <3>1, <3>2 DEF Fresh, Starting
  <2>6. Good(k) /\ Quiet(job[p], k)
    BY <2>2, <2>4, <2>5, StartedGood DEF Quiet
  <2> QED BY <2>2, <2>6
<1>2. CASE StartJob(p, [Idle EXCEPT !.cmd = "push", !.pc = "done"])
  <2> DEFINE k == [Idle EXCEPT !.cmd = "push", !.pc = "done"]
  <2>2. Becomes(p, k) /\ job[p].pc = "idle" /\ Good(job[p])
    BY <1>2 DEF StartJob, Becomes, JobsInv
  <2>4. /\ DOMAIN k = Fields /\ k.cmd = "push" /\ k.pc = "done" /\ k.at = 1 /\ k.tries = 0
        /\ k.streak = 0 /\ k.why = "none" /\ k.kinds = <<>> /\ k.got = {}
        /\ k.todo = {} /\ k.save = FALSE /\ k.blocks = 0
    BY DEF Idle, Fields
  <2> HIDE DEF k
  <2>5. Fresh(k) /\ Starting(k)
    <3>1. k.save \in BOOLEAN
      BY <2>4, Zenon
    <3>2. k.kinds \in Seq(RowKinds) /\ k.blocks \in Nat
      BY <2>4
    <3> QED BY <2>4, <3>1, <3>2 DEF Fresh, Starting
  <2>6. Good(k) /\ Quiet(job[p], k)
    BY <2>2, <2>4, <2>5, StartedGood DEF Quiet
  <2> QED BY <2>2, <2>6
<1>3. CASE StartJob(p, Failed([Idle EXCEPT !.cmd = "push"], "refused"))
  <2> DEFINE l == [Idle EXCEPT !.cmd = "push"]
             k == Failed(l, "refused")
  <2>2. Becomes(p, k) /\ job[p].pc = "idle" /\ Good(job[p])
    BY <1>3 DEF StartJob, Becomes, JobsInv
  <2>3. l.cmd = "push" /\ l.pc = "idle" /\ l.streak = 0 /\ l.blocks = 0
    BY DEF Idle
  <2> HIDE DEF l
  <2>4. IsOver(k, l, "failed", l.streak, "refused")
    BY FailedIs
  <2> HIDE DEF k
  <2>5. /\ DOMAIN k = Fields /\ k.cmd = "push" /\ k.pc = "failed" /\ k.at = 1 /\ k.tries = 0
        /\ k.streak = 0 /\ k.why = "refused" /\ k.kinds = <<>> /\ k.got = {}
        /\ k.todo = {} /\ k.save = FALSE /\ k.blocks = 0
    BY <2>3, <2>4 DEF IsOver
  <2>6. Fresh(k) /\ Starting(k)
    <3>1. k.save \in BOOLEAN
      BY <2>5, Zenon
    <3>2. k.kinds \in Seq(RowKinds) /\ k.blocks \in Nat
      BY <2>5
    <3> QED BY <2>5, <3>1, <3>2 DEF Fresh, Starting
  <2>7. Good(k) /\ Quiet(job[p], k)
    BY <2>2, <2>5, <2>6, StartedGood DEF Quiet
  <2> QED BY <2>2, <2>7
<1> QED BY <1>1, <1>2, <1>3 DEF StartPush

\* What comes behind a page or a crawl keeps what was done before.
LEMMA CrawledKeeps ==
  ASSUME NEW j, Good(j), j.pc \in {"resolving", "crawling"}, NEW l, NEW k, Same(k, l),
         l.cmd = j.cmd, l.blocks = 0, l.pc \in {"crawling", "writing", "saving", "done"},
         l.pc = "done" => l.got = {}, l.pc = "writing" => l.at = 1
  PROVE  Quiet(j, k)
<1>1. j.cmd \in {"thread", "scrape"}
  BY DEF Good, Placed
<1>2. KeepsRows(j, k)
  BY DEF KeepsRows, Same, Over
<1>3. KeepsAccount(j, k)
  BY <1>1 DEF KeepsAccount, Same
<1>4. KeepsFiles(j, k)
  BY DEF KeepsFiles, Same, Reached
<1>5. KeepsCards(j, k)
  BY <1>1 DEF KeepsCards, Same
<1> QED BY <1>2, <1>3, <1>4, <1>5 DEF Quiet

LEMMA ReadPageStep ==
  ASSUME JobsInv, NEW p \in Procs, NEW cmd \in {"thread", "scrape"}, ReadProductPage(p, cmd)
  PROVE  \E k : Becomes(p, k) /\ Good(k) /\ Quiet(job[p], k) /\ job[p].pc = "resolving"
<1> DEFINE j == job[p]
<1>1. Good(j) /\ Typed(j) /\ Placed(j) /\ OneKind(j) /\ Counted(j) /\ j.pc = "resolving"
      /\ j.cmd = cmd
  BY DEF JobsInv, Good, ReadProductPage, In
<1>2. CASE Unanswered(p)
  BY <1>1, <1>2, UnansweredStep DEF Quiet, Requesting
<1>3. CASE Answer(p, Crawled([job[p] EXCEPT !.at = 0]))
  <2> DEFINE m == [j EXCEPT !.at = 0]
             l == Crawled(m)
  <2>1. /\ DOMAIN m = Fields /\ m.cmd = j.cmd /\ m.pc = j.pc /\ m.at = 0 /\ m.tries = j.tries
        /\ m.streak = j.streak /\ m.why = j.why /\ m.kinds = j.kinds /\ m.got = j.got
        /\ m.todo = j.todo /\ m.save = j.save /\ m.blocks = j.blocks
    BY <1>1 DEF Typed, Fields
  <2>2. Answer(p, l)
    BY <1>3
  <2> HIDE DEF m, j
  <2>3. Typed(m)
    BY <1>1, <2>1 DEF Typed
  <2>4. /\ m.cmd \in {"thread", "scrape"} /\ m.at \in 0..Len(m.kinds)
        /\ m.pc \in {"resolving", "crawling"} /\ m.blocks = 0 /\ m.todo = {}
        /\ m.why = "none" /\ m.streak \in 0..Attempts
        /\ (m.cmd = "scrape" => Len(m.kinds) <= 2)
        /\ (m.cmd = "thread" => Len(m.kinds) = 1 /\ \A r \in m.got : r.kind = m.kinds[1])
    <3>1. Len(m.kinds) \in Nat /\ m.streak \in Nat /\ Attempts \in Nat
      BY <2>3, JobsAssumption, LenProperties DEF Typed
    <3> QED BY <1>1, <2>1, <3>1 DEF Placed, OneKind, Counted, Over
  <2>5. /\ Typed(l) /\ Placed(l) /\ OneKind(l)
        /\ l.cmd = m.cmd /\ l.why = "none" /\ l.blocks = 0
        /\ l.pc \in {"crawling", "writing", "saving", "done"}
        /\ (l.pc = "done" => l.got = {})
        /\ (l.pc = "writing" => l.at = 1)
    BY <2>3, <2>4, CrawledIs
  <2> HIDE DEF l
  <2>6. Becomes(p, Answered(l)) /\ Good(Answered(l)) /\ Same(Answered(l), l)
    BY <2>2, <2>5, AnswerStep
  <2>7. Quiet(j, Answered(l))
    BY <1>1, <2>1, <2>5, <2>6, CrawledKeeps
  <2> QED BY <1>1, <2>6, <2>7 DEF j
<1> QED BY <1>2, <1>3 DEF ReadProductPage

LEMMA CrawlPageStep ==
  ASSUME JobsInv, NEW p \in Procs, CrawlPage(p)
  PROVE  \E k : Becomes(p, k) /\ Good(k) /\ Quiet(job[p], k) /\ job[p].pc = "crawling"
<1> DEFINE j == job[p]
<1>1. Good(j) /\ Typed(j) /\ Placed(j) /\ OneKind(j) /\ Counted(j) /\ j.pc = "crawling"
  BY DEF JobsInv, Good, CrawlPage
<1>2. CASE Unanswered(p)
  BY <1>1, <1>2, UnansweredStep DEF Quiet, Requesting
<1>3. CASE \E new \in Threads(OfKind(Comments, job[p].kinds[job[p].at]) \ job[p].got) :
             LET l == [job[p] EXCEPT !.got = @ \cup new]
             IN  Answer(p, Crawled(l)) \/ (new # {} /\ Answer(p, l))
  <2>0. PICK new \in Threads(OfKind(Comments, j.kinds[j.at]) \ j.got) :
             LET l == [j EXCEPT !.got = @ \cup new]
             IN  Answer(p, Crawled(l)) \/ (new # {} /\ Answer(p, l))
    BY <1>3
  <2> DEFINE m == [j EXCEPT !.got = @ \cup new]
             l == Crawled(m)
  <2>1. /\ DOMAIN m = Fields /\ m.cmd = j.cmd /\ m.pc = j.pc /\ m.at = j.at /\ m.tries = j.tries
        /\ m.streak = j.streak /\ m.why = j.why /\ m.kinds = j.kinds
        /\ m.got = j.got \cup new /\ m.todo = j.todo /\ m.save = j.save
        /\ m.blocks = j.blocks
    BY <1>1 DEF Typed, Fields
  <2>2. Answer(p, l) \/ Answer(p, m)
    BY <2>0
  <2> HIDE DEF m, j
  <2>3. new \subseteq Comments /\ \A r \in new : r.kind = j.kinds[j.at]
    BY DEF Threads, OfKind
  <2>4. Typed(m)
    <3>1. m.got \subseteq Rows
      BY <1>1, <2>1, <2>3 DEF Typed, Rows
    <3> QED BY <1>1, <2>1, <3>1 DEF Typed
  <2>5. /\ m.cmd \in {"thread", "scrape"} /\ m.at \in 1..Len(m.kinds) /\ Len(m.kinds) \in Nat
        /\ m.blocks = 0 /\ m.todo = {}
        /\ m.why = "none" /\ m.streak \in 0..Attempts
        /\ (m.cmd = "scrape" => Len(m.kinds) <= 2)
    <3>1. Len(m.kinds) \in Nat /\ m.streak \in Nat /\ Attempts \in Nat
      BY <2>4, JobsAssumption, LenProperties DEF Typed
    <3> QED BY <1>1, <2>1, <3>1 DEF Placed, Counted, Over
  <2>6. m.cmd = "thread" => Len(m.kinds) = 1 /\ \A r \in m.got : r.kind = m.kinds[1]
    <3>1. ASSUME m.cmd = "thread"
          PROVE  Len(j.kinds) = 1 /\ \A r \in j.got : r.kind = j.kinds[1]
      BY <1>1, <2>1, <3>1 DEF OneKind, Over
    <3>2. m.cmd = "thread" => j.at = 1
      BY <2>1, <2>5, <3>1
    <3> QED BY <2>1, <2>3, <3>1, <3>2
  <2>7. CASE Answer(p, l)
    <3>1. m.at \in 0..Len(m.kinds) /\ m.pc \in {"resolving", "crawling"}
      BY <1>1, <2>1, <2>5
    <3>2. /\ Typed(l) /\ Placed(l) /\ OneKind(l)
          /\ l.cmd = m.cmd /\ l.why = "none" /\ l.blocks = 0
          /\ l.pc \in {"crawling", "writing", "saving", "done"}
          /\ (l.pc = "done" => l.got = {})
          /\ (l.pc = "writing" => l.at = 1)
      BY <2>4, <2>5, <2>6, <3>1, CrawledIs
    <3> HIDE DEF l
    <3>3. Becomes(p, Answered(l)) /\ Good(Answered(l)) /\ Same(Answered(l), l)
      BY <2>7, <3>2, AnswerStep
    <3>4. Quiet(j, Answered(l))
      BY <1>1, <2>1, <3>2, <3>3, CrawledKeeps
    <3> QED BY <1>1, <3>3, <3>4 DEF j
  <2>8. CASE Answer(p, m)
    <3>1. Placed(m)
      BY <1>1, <2>1 DEF Placed
    <3>2. OneKind(m)
      BY <1>1, <2>1, <2>5, <2>6 DEF OneKind
    <3>3. Becomes(p, Answered(m)) /\ Good(Answered(m)) /\ Same(Answered(m), m)
      BY <2>4, <2>5, <2>8, <3>1, <3>2, AnswerStep
    <3>4. Quiet(j, Answered(m))
      BY <1>1, <2>1, <2>5, <3>3, CrawledKeeps
    <3> QED BY <1>1, <3>3, <3>4 DEF j
  <2> QED BY <2>2, <2>7, <2>8
<1> QED BY <1>2, <1>3 DEF CrawlPage

\* FetchAllProducts: a page is taken in, and the next one follows, the save or an error.
Turned(j, k) ==
  \/ /\ HasNext(j.at) /\ k.pc = "asking" /\ k.at = j.at + 1
     /\ k.got = j.got \cup {ProductRow(x) : x \in OnPage(j.at)}
  \/ /\ ~HasNext(j.at) /\ k.pc = "saving"
     /\ k.got = j.got \cup {ProductRow(x) : x \in OnPage(j.at)}
  \/ k.pc = "failed" /\ k.got = {}

LEMMA ProductsPageStep ==
  ASSUME JobsInv, AccountInv, NEW p \in Procs, In(p, "sync", "asking"),
         Answer(p, TurnPage(Gained(job[p])))
  PROVE  \E k : /\ Becomes(p, k) /\ Good(k) /\ k.cmd = "sync" /\ Turned(job[p], k)
                /\ KeepsRows(job[p], k) /\ KeepsFiles(job[p], k) /\ KeepsCards(job[p], k)
<1> DEFINE j == job[p]
           new == {ProductRow(x) : x \in OnPage(j.at)}
           g == Gained(j)
           l == TurnPage(g)
<1>1. Good(j) /\ Typed(j) /\ Placed(j) /\ OneKind(j) /\ Counted(j) /\ j.pc = "asking"
      /\ j.cmd = "sync"
  BY DEF JobsInv, Good, In
<1>2. /\ DOMAIN g = Fields /\ g.cmd = j.cmd /\ g.pc = j.pc /\ g.at = j.at /\ g.tries = j.tries
      /\ g.streak = j.streak /\ g.why = j.why /\ g.kinds = j.kinds
      /\ g.got = j.got \cup new /\ g.todo = j.todo /\ g.save = j.save
      /\ g.blocks = j.blocks
  BY <1>1 DEF Typed, Fields, Gained
<1>3. new \subseteq Rows /\ \A r \in new : r.kind = "product"
  <2>0. \A i \in 1..Len(account) : account[i] \in 1..Products
    BY ElementOfSeq DEF AccountInv
  <2>1. OnPage(j.at) \subseteq 1..Products
    BY <2>0 DEF OnPage
  <2> QED BY <2>1 DEF Rows, ProductRow
<1>a. Answer(p, l)
  OBVIOUS
<1> HIDE DEF new, g, l
<1>4. Typed(g)
  <2>1. g.got \subseteq Rows
    BY <1>1, <1>2, <1>3 DEF Typed
  <2> QED BY <1>1, <1>2, <2>1 DEF Typed
<1>5. /\ j.at \in 1..MaxPages /\ j.at \in Nat /\ MaxPages \in Nat /\ j.todo = {} /\ j.blocks = 0
      /\ j.why = "none" /\ j.streak \in Nat /\ Len(j.kinds) = 1
      /\ \A r \in j.got : r.kind = j.kinds[1]
  BY <1>1, ProductSyncAssumption DEF Placed, OneKind, Counted, Over, Typed
<1>6. \A r \in g.got : r.kind = j.kinds[1]
  <2>1. j.kinds[1] = "product"
    BY <1>1 DEF Placed
  <2> QED BY <1>2, <1>3, <1>5, <2>1
<1>7. CASE ~HasNext(j.at)
  <2>1. l = Saving(g, 1)
    BY <1>2, <1>7 DEF l, TurnPage
  <2>2. 1 \in 1..Len(g.kinds)
    BY <1>2, <1>5
  <2>3. LET k == Saving(g, 1)
        IN  /\ Typed(k) /\ Placed(k) /\ OneKind(k)
            /\ k.cmd = g.cmd /\ k.pc = "saving" /\ k.at = 1 /\ k.got = g.got
            /\ k.why = g.why /\ k.tries = g.tries /\ k.streak = g.streak /\ k.blocks = 0
    BY <1>1, <1>2, <1>4, <1>5, <1>6, <2>2, SavingIs
  <2>4. /\ Typed(l) /\ Placed(l) /\ OneKind(l) /\ l.cmd = "sync" /\ l.pc = "saving"
        /\ l.why = "none" /\ l.blocks = 0 /\ l.got = g.got
    BY <1>1, <1>2, <1>5, <2>1, <2>3
  <2>5. Becomes(p, Answered(l)) /\ Good(Answered(l)) /\ Same(Answered(l), l)
    BY <1>a, <2>4, AnswerStep
  <2>6. Turned(j, Answered(l))
    BY <1>2, <1>7, <2>4, <2>5 DEF Turned, Same, new
  <2>7. /\ KeepsRows(j, Answered(l)) /\ KeepsFiles(j, Answered(l))
        /\ KeepsCards(j, Answered(l))
    BY <1>1, <2>4, <2>5 DEF KeepsRows, KeepsFiles, KeepsCards, Same, Over, Reached
  <2> QED BY <2>4, <2>5, <2>6, <2>7 DEF Same
<1>8. CASE HasNext(j.at) /\ j.at < MaxPages
  <2>1. l = [g EXCEPT !.at = @ + 1]
    BY <1>2, <1>5, <1>8 DEF l, TurnPage
  <2>2. /\ DOMAIN l = Fields /\ l.cmd = g.cmd /\ l.pc = g.pc /\ l.at = g.at + 1
        /\ l.tries = g.tries /\ l.streak = g.streak /\ l.why = g.why /\ l.kinds = g.kinds
        /\ l.got = g.got /\ l.todo = g.todo /\ l.save = g.save /\ l.blocks = g.blocks
    BY <1>2, <2>1 DEF Fields
  <2>3. l.at \in Nat /\ l.at \in 1..MaxPages
    BY <1>2, <1>5, <1>8, <2>2
  <2>4. Typed(l)
    BY <1>4, <2>2, <2>3 DEF Typed
  <2>5. Placed(l) /\ OneKind(l)
    BY <1>1, <1>2, <1>5, <1>6, <2>2, <2>3 DEF Placed, OneKind, Over
  <2>6. Becomes(p, Answered(l)) /\ Good(Answered(l)) /\ Same(Answered(l), l)
    BY <1>a, <1>2, <1>5, <2>2, <2>4, <2>5, AnswerStep
  <2>7. Turned(j, Answered(l))
    BY <1>1, <1>2, <1>8, <2>2, <2>6 DEF Turned, Same, new
  <2>8. /\ KeepsRows(j, Answered(l)) /\ KeepsFiles(j, Answered(l))
        /\ KeepsCards(j, Answered(l))
    BY <1>1, <1>2, <2>2, <2>6 DEF KeepsRows, KeepsFiles, KeepsCards, Same, Over, Reached
  <2> QED BY <1>1, <1>2, <2>2, <2>6, <2>7, <2>8 DEF Same
<1>9. CASE HasNext(j.at) /\ j.at = MaxPages
  <2>1. l = Failed(g, "cap")
    BY <1>2, <1>5, <1>9 DEF l, TurnPage
  <2>2. IsOver(l, g, "failed", g.streak, "cap")
    BY <2>1, FailedIs
  <2>3. "failed" \in Over /\ "cap" \in Reasons /\ g.streak \in Nat
    BY <1>2, <1>5 DEF Over, Reasons
  <2>4. Typed(l) /\ Placed(l) /\ OneKind(l)
    BY <1>1, <1>2, <1>4, <1>5, <2>2, <2>3, OverTyped
  <2>5. l.pc = "failed" /\ l.why = "cap" /\ l.cmd = "sync" /\ l.blocks = 0 /\ l.got = {}
    BY <1>1, <1>2, <1>5, <2>2 DEF IsOver
  <2>6. Becomes(p, Answered(l)) /\ Good(Answered(l)) /\ Same(Answered(l), l)
    BY <1>a, <2>4, <2>5, AnswerStep DEF Over
  <2>7. Turned(j, Answered(l))
    BY <2>5, <2>6 DEF Turned, Same
  <2>8. /\ KeepsRows(j, Answered(l)) /\ KeepsFiles(j, Answered(l))
        /\ KeepsCards(j, Answered(l))
    BY <1>1, <2>5, <2>6 DEF KeepsRows, KeepsFiles, KeepsCards, Same, Over, Reached
  <2> QED BY <2>5, <2>6, <2>7, <2>8 DEF Same
<1>10. j.at < MaxPages \/ j.at = MaxPages
  BY <1>5
<1> QED BY <1>7, <1>8, <1>9, <1>10

\* A transaction that ends is followed by the next one or by the end of the command.
LEMMA SavedIs ==
  ASSUME NEW j, Good(j), j.pc = "saving", NEW k, k = Saved(j)
  PROVE  /\ Good(k) /\ k.cmd = j.cmd /\ k.got = j.got /\ k.blocks = 0
         /\ k.pc \in {"saving", "done"}
         /\ j.cmd \in {"sync", "thread"} => j.at = 1 /\ Len(j.kinds) = 1 /\ k.pc = "done"
         /\ KeepsAccount(j, k) /\ KeepsFiles(j, k) /\ KeepsCards(j, k)
<1>1. Typed(j) /\ Placed(j) /\ OneKind(j) /\ Counted(j)
  BY DEF Good
<1>2. /\ j.cmd \in {"sync", "thread", "scrape"} /\ j.at \in 1..Len(j.kinds) /\ j.blocks = 0
      /\ (j.cmd = "scrape" => Len(j.kinds) <= 2)
      /\ (j.cmd \in {"sync", "thread"} =>
            Len(j.kinds) = 1 /\ \A r \in j.got : r.kind = j.kinds[1])
      /\ j.why = "none" /\ j.streak = j.tries /\ j.streak < Attempts /\ j.streak \in Nat
      /\ Attempts \in Nat /\ Len(j.kinds) \in Nat
  BY <1>1, JobsAssumption, LenProperties DEF Typed, Placed, OneKind, Counted, Over
<1>3. ASSUME j.cmd \in {"sync", "thread"}
      PROVE  j.at = 1 /\ Len(j.kinds) = 1 /\ ~(j.at < Len(j.kinds))
  <2>1. Len(j.kinds) = 1 /\ j.at \in 1..1
    BY <1>2, <1>3
  <2> QED BY <2>1
<1>4. CASE j.at < Len(j.kinds)
  <2>1. k = Saving(j, j.at + 1) /\ j.at + 1 \in 1..Len(j.kinds)
    BY <1>2, <1>4 DEF Saved
  <2>2. LET m == Saving(j, j.at + 1)
        IN  /\ Typed(m) /\ Placed(m) /\ OneKind(m)
            /\ m.cmd = j.cmd /\ m.pc = "saving" /\ m.at = j.at + 1 /\ m.got = j.got
            /\ m.why = j.why /\ m.tries = j.tries /\ m.streak = j.streak /\ m.blocks = 0
    BY <1>1, <1>2, <2>1, SavingIs
  <2>3. /\ Typed(k) /\ Placed(k) /\ OneKind(k)
        /\ k.cmd = j.cmd /\ k.pc = "saving" /\ k.got = j.got
        /\ k.why = j.why /\ k.tries = j.tries /\ k.streak = j.streak /\ k.blocks = 0
    BY <2>1, <2>2
  <2>4. Counted(k)
    BY <1>2, <2>3 DEF Counted, Over
  <2>5. KeepsAccount(j, k) /\ KeepsFiles(j, k) /\ KeepsCards(j, k)
    BY <1>2, <2>3 DEF KeepsAccount, KeepsFiles, KeepsCards, Reached
  <2> QED BY <1>2, <1>3, <1>4, <2>3, <2>4, <2>5 DEF Good
<1>5. CASE ~(j.at < Len(j.kinds))
  <2>1. k = Ended(j, "done")
    BY <1>5 DEF Saved, Done
  <2>2. IsOver(k, j, "done", j.streak, "none")
    BY <2>1, EndedIs
  <2>3. /\ "done" \in Over /\ "none" \in Reasons /\ j.streak \in 0..Attempts
        /\ ("none" = "lost" <=> j.streak = Attempts) /\ j.cmd # "none"
    BY <1>2 DEF Over, Reasons
  <2>4. Good(k)
    BY <1>1, <2>2, <2>3, OverGood
  <2>5. KeepsAccount(j, k) /\ KeepsFiles(j, k) /\ KeepsCards(j, k)
    BY <1>2, <2>2 DEF KeepsAccount, KeepsFiles, KeepsCards, Reached, IsOver
  <2> QED BY <1>2, <1>3, <2>2, <2>4, <2>5 DEF IsOver
<1> QED BY <1>4, <1>5

LEMMA InsertStep ==
  ASSUME JobsInv, NEW p \in Procs, Insert(p)
  PROVE  \E k : /\ Becomes(p, k) /\ Good(k) /\ Quiet(job[p], k) /\ k.pc = "saving"
                /\ writer' = p /\ table' = table
<1> DEFINE j == job[p]
<1>1. Good(j) /\ Typed(j) /\ Placed(j) /\ OneKind(j) /\ Counted(j) /\ j.pc = "saving"
  BY DEF JobsInv, Good, Insert
<1>2. PICK r \in j.todo : job' = [job EXCEPT ![p].todo = @ \ {r}]
  BY DEF Insert
<1> DEFINE k == [j EXCEPT !.todo = @ \ {r}]
<1>3. Becomes(p, k)
  BY <1>2 DEF Becomes
<1>4. /\ DOMAIN k = Fields /\ k.cmd = j.cmd /\ k.pc = j.pc /\ k.at = j.at /\ k.tries = j.tries
      /\ k.streak = j.streak /\ k.why = j.why /\ k.kinds = j.kinds /\ k.got = j.got
      /\ k.todo = j.todo \ {r} /\ k.save = j.save /\ k.blocks = j.blocks
  BY <1>1 DEF Typed, Fields
<1> HIDE DEF k, j
<1>5. Typed(k)
  <2>1. k.todo \subseteq Rows
    BY <1>1, <1>4 DEF Typed
  <2> QED BY <1>1, <1>4, <2>1 DEF Typed
<1>6. Placed(k) /\ OneKind(k)
  BY <1>1, <1>4 DEF Placed, OneKind, Batch
<1>7. Counted(k)
  BY <1>1, <1>4 DEF Counted
<1>8. Quiet(j, k)
  BY <1>1, <1>4
  DEF Quiet, KeepsRows, KeepsAccount, KeepsFiles, KeepsCards, Placed, Over, Reached
<1> QED BY <1>1, <1>3, <1>4, <1>5, <1>6, <1>7, <1>8 DEF Good, Insert, j

LEMMA LockedStep ==
  ASSUME JobsInv, NEW p \in Procs, Locked(p)
  PROVE  \E k : Becomes(p, k) /\ Good(k) /\ Quiet(job[p], k)
<1> DEFINE j == job[p]
           k == IF j.cmd = "scrape" THEN Saved(j) ELSE Failed(j, "locked")
<1>1. Good(j) /\ Typed(j) /\ Placed(j) /\ Counted(j) /\ j.pc = "saving"
  BY DEF JobsInv, Good, Locked
<1>2. Becomes(p, k)
  BY DEF Locked, Becomes
<1>3. CASE j.cmd = "scrape"
  <2>1. k = Saved(j)
    BY <1>3
  <2> HIDE DEF k, j
  <2>2. /\ Good(k) /\ k.cmd = j.cmd /\ k.got = j.got /\ k.blocks = 0
        /\ k.pc \in {"saving", "done"}
        /\ KeepsAccount(j, k) /\ KeepsFiles(j, k) /\ KeepsCards(j, k)
    BY <1>1, <2>1, SavedIs
  <2>3. KeepsRows(j, k)
    BY <1>1, <1>3, <2>2 DEF KeepsRows, Over
  <2> QED BY <1>2, <2>2, <2>3 DEF Quiet, j
<1>4. CASE j.cmd # "scrape"
  <2>1. k = Failed(j, "locked")
    BY <1>4
  <2> HIDE DEF k, j
  <2>2. IsOver(k, j, "failed", j.streak, "locked")
    BY <2>1, FailedIs
  <2>3. /\ "failed" \in Over /\ "locked" \in Reasons /\ j.streak \in 0..Attempts
        /\ ("locked" = "lost" <=> j.streak = Attempts) /\ j.cmd # "none"
    <3>1. j.streak \in Nat /\ Attempts \in Nat /\ j.streak < Attempts
      BY <1>1, JobsAssumption DEF Typed, Counted, Over
    <3> QED BY <1>1, <3>1 DEF Over, Reasons, Placed
  <2>4. Good(k)
    BY <1>1, <2>2, <2>3, OverGood
  <2>5. KeepsRows(j, k) /\ KeepsAccount(j, k) /\ KeepsFiles(j, k) /\ KeepsCards(j, k)
    BY <1>1, <2>2, OverKeeps DEF Over
  <2> QED BY <1>2, <2>4, <2>5 DEF Quiet, j
<1> QED BY <1>3, <1>4

LEMMA KillStep ==
  ASSUME JobsInv, NEW p \in Procs, Kill(p)
  PROVE  \E k : Becomes(p, k) /\ Good(k) /\ Quiet(job[p], k)
<1> DEFINE j == job[p]
           l == [j EXCEPT !.streak = 0]
           k == Ended(l, "killed")
<1>1. Good(j) /\ Typed(j) /\ Placed(j) /\ j.pc \notin Over \cup {"idle"} /\ j.cmd # "none"
  BY CommandNamed DEF JobsInv, Good, Kill
<1>2. Becomes(p, k)
  BY DEF Kill, Becomes
<1>3. /\ DOMAIN l = Fields /\ l.cmd = j.cmd /\ l.pc = j.pc /\ l.streak = 0 /\ l.got = j.got
      /\ l.blocks = j.blocks
  BY <1>1 DEF Typed, Fields
<1> HIDE DEF l
<1>4. IsOver(k, l, "killed", l.streak, "none")
  BY EndedIs
<1> HIDE DEF k, j
<1>5. IsOver(k, j, "killed", 0, "none")
  BY <1>3, <1>4 DEF IsOver
<1>6. /\ "killed" \in Over /\ "none" \in Reasons /\ 0 \in 0..Attempts
      /\ ("none" = "lost" <=> 0 = Attempts)
  BY JobsAssumption DEF Over, Reasons
<1>7. Good(k)
  BY <1>1, <1>5, <1>6, OverGood
<1>8. KeepsRows(j, k) /\ KeepsAccount(j, k) /\ KeepsFiles(j, k) /\ KeepsCards(j, k)
  BY <1>1, <1>5, OverKeeps
<1> QED BY <1>2, <1>7, <1>8 DEF Quiet, j

\* SaveToDirectory goes from file to file, and behind the last to the save or the end.
LEMMA FileDoneIs ==
  ASSUME NEW j, Good(j), j.pc \in {"writing", "filling"}, NEW k, k = FileDone(j)
  PROVE  /\ Good(k) /\ KeepsRows(j, k) /\ KeepsAccount(j, k) /\ KeepsCards(j, k)
         /\ k.cmd = "scrape" /\ j.at \in 1..8
         /\ \/ j.at < 8 /\ k.pc = "writing" /\ k.at = j.at + 1
            \/ j.at = 8 /\ k.pc \in {"saving", "done"}
<1>1. Typed(j) /\ Placed(j) /\ OneKind(j) /\ Counted(j)
  BY DEF Good
<1>2. /\ j.cmd = "scrape" /\ j.at \in 1..8 /\ j.blocks = 0 /\ Len(j.kinds) <= 2
      /\ j.why = "none" /\ j.streak = j.tries /\ j.streak < Attempts /\ j.streak \in Nat
      /\ Attempts \in Nat /\ j.todo = {}
  BY <1>1, JobsAssumption, FilesFacts DEF Typed, Placed, Counted, Over
<1>3. j.at < 8 \/ j.at = 8
  BY <1>2
<1>4. CASE j.at < 8
  <2>1. k = [j EXCEPT !.pc = "writing", !.at = @ + 1]
    BY <1>4, FilesFacts DEF FileDone
  <2>2. /\ DOMAIN k = Fields /\ k.cmd = j.cmd /\ k.pc = "writing" /\ k.at = j.at + 1
        /\ k.tries = j.tries /\ k.streak = j.streak /\ k.why = j.why /\ k.kinds = j.kinds
        /\ k.got = j.got /\ k.todo = j.todo /\ k.save = j.save /\ k.blocks = j.blocks
    BY <1>1, <2>1 DEF Typed, Fields
  <2>3. k.at \in 1..8 /\ k.at \in Nat
    BY <1>2, <1>4, <2>2
  <2>4. Typed(k)
    <3>1. k.pc \in Phases
      BY <2>2 DEF Phases
    <3> QED BY <1>1, <2>2, <2>3, <3>1 DEF Typed
  <2>5. Placed(k) /\ OneKind(k) /\ Counted(k)
    BY <1>1, <1>2, <2>2, <2>3, FilesFacts DEF Placed, OneKind, Counted, Over
  <2>6. KeepsRows(j, k) /\ KeepsAccount(j, k) /\ KeepsCards(j, k)
    BY <1>2, <2>2 DEF KeepsRows, KeepsAccount, KeepsCards, Over
  <2> QED BY <1>2, <1>4, <2>2, <2>4, <2>5, <2>6 DEF Good
<1>5. CASE j.at = 8 /\ j.save /\ j.kinds # <<>>
  <2>0. ~(j.at < Len(Files)) /\ j.at = Len(Files)
    BY <1>5, FilesFacts
  <2>1. k = Saving(j, 1)
    BY <1>5, <2>0 DEF FileDone
  <2>2. 1 \in 1..Len(j.kinds)
    BY <1>1, <1>5, EmptySeq, LenProperties DEF Typed
  <2>3. LET m == Saving(j, 1)
        IN  /\ Typed(m) /\ Placed(m) /\ OneKind(m)
            /\ m.cmd = j.cmd /\ m.pc = "saving" /\ m.at = 1 /\ m.got = j.got
            /\ m.why = j.why /\ m.tries = j.tries /\ m.streak = j.streak /\ m.blocks = 0
    BY <1>1, <1>2, <2>2, SavingIs
  <2>4. /\ Typed(k) /\ Placed(k) /\ OneKind(k)
        /\ k.cmd = j.cmd /\ k.pc = "saving" /\ k.at = 1 /\ k.got = j.got
        /\ k.why = j.why /\ k.tries = j.tries /\ k.streak = j.streak /\ k.blocks = 0
    BY <2>1, <2>3
  <2>5. Counted(k)
    BY <1>2, <2>4 DEF Counted, Over
  <2>6. KeepsRows(j, k) /\ KeepsAccount(j, k) /\ KeepsCards(j, k)
    BY <1>2, <2>4 DEF KeepsRows, KeepsAccount, KeepsCards, Over
  <2> QED BY <1>2, <1>5, <2>4, <2>5, <2>6 DEF Good
<1>6. CASE j.at = 8 /\ ~(j.save /\ j.kinds # <<>>)
  <2>0. ~(j.at < Len(Files)) /\ j.at = Len(Files)
    BY <1>6, FilesFacts
  <2>1. k = Ended(j, "done")
    BY <1>6, <2>0 DEF FileDone, Done
  <2>2. IsOver(k, j, "done", j.streak, "none")
    BY <2>1, EndedIs
  <2>3. /\ "done" \in Over /\ "none" \in Reasons /\ j.streak \in 0..Attempts
        /\ ("none" = "lost" <=> j.streak = Attempts) /\ j.cmd # "none"
    BY <1>2 DEF Over, Reasons
  <2>4. Good(k)
    BY <1>1, <2>2, <2>3, OverGood
  <2>5. KeepsRows(j, k) /\ KeepsAccount(j, k) /\ KeepsCards(j, k)
    BY <1>2, <2>2 DEF KeepsRows, KeepsAccount, KeepsCards, IsOver, Over
  <2> QED BY <1>2, <1>6, <2>2, <2>4, <2>5 DEF IsOver
<1> QED BY <1>3, <1>4, <1>5, <1>6

LEMMA CreateIs ==
  ASSUME NEW j, Good(j), j.pc = "writing", NEW k, k = [j EXCEPT !.pc = "filling"]
  PROVE  /\ Good(k) /\ KeepsRows(j, k) /\ KeepsAccount(j, k) /\ KeepsCards(j, k)
         /\ k.cmd = "scrape" /\ k.pc = "filling" /\ k.at = j.at /\ j.at \in 1..8
<1>1. Typed(j) /\ Placed(j) /\ OneKind(j) /\ Counted(j)
  BY DEF Good
<1>2. j.cmd = "scrape" /\ j.at \in 1..8
  BY <1>1, FilesFacts DEF Placed
<1>3. /\ DOMAIN k = Fields /\ k.cmd = j.cmd /\ k.pc = "filling" /\ k.at = j.at
      /\ k.tries = j.tries /\ k.streak = j.streak /\ k.why = j.why /\ k.kinds = j.kinds
      /\ k.got = j.got /\ k.todo = j.todo /\ k.save = j.save /\ k.blocks = j.blocks
  BY <1>1 DEF Typed, Fields
<1>4. Typed(k)
  <2>1. k.pc \in Phases
    BY <1>3 DEF Phases
  <2> QED BY <1>1, <1>3, <2>1 DEF Typed
<1>5. Placed(k) /\ OneKind(k) /\ Counted(k)
  BY <1>1, <1>2, <1>3, FilesFacts DEF Placed, OneKind, Counted, Over
<1>6. KeepsRows(j, k) /\ KeepsAccount(j, k) /\ KeepsCards(j, k)
  BY <1>2, <1>3 DEF KeepsRows, KeepsAccount, KeepsCards, Over
<1> QED BY <1>2, <1>3, <1>4, <1>5, <1>6 DEF Good

\* A command that fails or is killed in the middle of its files.
LEMMA FileFailedIs ==
  ASSUME NEW j, Good(j), j.pc \in {"writing", "filling"}, NEW k, k = Failed(j, "disk")
  PROVE  Good(k) /\ Quiet(j, k)
<1>1. Typed(j) /\ Placed(j) /\ Counted(j)
  BY DEF Good
<1>2. IsOver(k, j, "failed", j.streak, "disk")
  BY FailedIs
<1>3. /\ "failed" \in Over /\ "disk" \in Reasons /\ j.streak \in 0..Attempts
      /\ ("disk" = "lost" <=> j.streak = Attempts) /\ j.cmd # "none"
  <2>1. j.streak \in Nat /\ Attempts \in Nat /\ j.streak < Attempts
    BY <1>1, JobsAssumption DEF Typed, Counted, Over
  <2> QED BY <1>1, <2>1 DEF Over, Reasons, Placed
<1>4. Good(k)
  BY <1>1, <1>2, <1>3, OverGood
<1>5. KeepsRows(j, k) /\ KeepsAccount(j, k) /\ KeepsFiles(j, k) /\ KeepsCards(j, k)
  BY <1>2, OverKeeps DEF Over
<1> QED BY <1>4, <1>5 DEF Quiet

\* pushNotionBlocks: the next chunk begins behind the last, or the push is over.
LEMMA PushedIs ==
  ASSUME NEW j, Good(j), j.pc = "pushing", NEW k, k \in {NextChunk(j), Failed(j, "refused")}
  PROVE  /\ Good(k) /\ KeepsRows(j, k) /\ KeepsAccount(j, k) /\ KeepsFiles(j, k)
         /\ k.cmd = "push" /\ j.at \in 1..j.blocks /\ k.blocks = j.blocks /\ j.blocks \in Nat
         /\ \/ /\ k.pc = "pushing" /\ k.at = j.at + Chunk /\ k.at <= j.blocks
               /\ k = NextChunk(j)
            \/ k.pc = "done" /\ j.at + Chunk > j.blocks /\ k = NextChunk(j)
            \/ k.pc = "failed"
<1>1. Typed(j) /\ Placed(j) /\ OneKind(j) /\ Counted(j)
  BY DEF Good
<1>2. /\ j.cmd = "push" /\ j.at \in 1..j.blocks /\ j.blocks \in Nat /\ j.at \in Nat
      /\ j.why = "none" /\ j.streak = j.tries /\ j.streak < Attempts /\ j.streak \in Nat
      /\ Attempts \in Nat /\ j.todo = {} /\ Chunk \in Nat \ {0}
  BY <1>1, JobsAssumption, NotionPushAssumption DEF Typed, Placed, Counted, Over
<1>3. CASE k = NextChunk(j) /\ j.at + Chunk <= j.blocks
  <2>1. k = [j EXCEPT !.at = @ + Chunk]
    BY <1>3 DEF NextChunk
  <2>2. /\ DOMAIN k = Fields /\ k.cmd = j.cmd /\ k.pc = j.pc /\ k.at = j.at + Chunk
        /\ k.tries = j.tries /\ k.streak = j.streak /\ k.why = j.why /\ k.kinds = j.kinds
        /\ k.got = j.got /\ k.todo = j.todo /\ k.save = j.save /\ k.blocks = j.blocks
    BY <1>1, <2>1 DEF Typed, Fields
  <2>3. k.at \in Nat /\ k.at \in 1..j.blocks
    BY <1>2, <1>3, <2>2
  <2>4. Typed(k)
    BY <1>1, <2>2, <2>3 DEF Typed
  <2>5. Placed(k) /\ OneKind(k) /\ Counted(k)
    BY <1>1, <1>2, <2>2, <2>3 DEF Placed, OneKind, Counted, Over
  <2>6. KeepsRows(j, k) /\ KeepsAccount(j, k) /\ KeepsFiles(j, k)
    BY <1>2, <2>2 DEF KeepsRows, KeepsAccount, KeepsFiles, Over, Reached
  <2> QED BY <1>2, <1>3, <2>2, <2>4, <2>5, <2>6 DEF Good
<1>4. CASE k = NextChunk(j) /\ ~(j.at + Chunk <= j.blocks)
  <2>1. k = Ended(j, "done")
    BY <1>4 DEF NextChunk, Done
  <2>2. IsOver(k, j, "done", j.streak, "none")
    BY <2>1, EndedIs
  <2>3. /\ "done" \in Over /\ "none" \in Reasons /\ j.streak \in 0..Attempts
        /\ ("none" = "lost" <=> j.streak = Attempts) /\ j.cmd # "none"
    BY <1>2 DEF Over, Reasons
  <2>4. Good(k)
    BY <1>1, <2>2, <2>3, OverGood
  <2>5. KeepsRows(j, k) /\ KeepsAccount(j, k) /\ KeepsFiles(j, k)
    BY <1>2, <2>2 DEF KeepsRows, KeepsAccount, KeepsFiles, IsOver, Over, Reached
  <2> QED BY <1>2, <1>4, <2>2, <2>4, <2>5 DEF IsOver
<1>5. CASE k = Failed(j, "refused")
  <2>2. IsOver(k, j, "failed", j.streak, "refused")
    BY <1>5, FailedIs
  <2>3. /\ "failed" \in Over /\ "refused" \in Reasons /\ j.streak \in 0..Attempts
        /\ ("refused" = "lost" <=> j.streak = Attempts) /\ j.cmd # "none"
    BY <1>2 DEF Over, Reasons
  <2>4. Good(k)
    BY <1>1, <2>2, <2>3, OverGood
  <2>5. KeepsRows(j, k) /\ KeepsAccount(j, k) /\ KeepsFiles(j, k) /\ KeepsCards(j, k)
    BY <2>2, OverKeeps DEF Over
  <2> QED BY <1>2, <2>2, <2>4, <2>5 DEF IsOver
<1> QED BY <1>3, <1>4, <1>5

------------------------------------------------------------------------------
(* What a step does to the invariant, part by part: first when it keeps what the  *)
(* part is about, then when it is the step that changes it.                        *)

LEMMA JobsKept ==
  ASSUME JobsInv, NEW p \in Procs, NEW k, Becomes(p, k), Good(k)
  PROVE  /\ JobsInv' /\ job'[p] = k
         /\ \A q \in Procs \ {p} : job'[q] = job[q]
BY DEF JobsInv, Becomes

\* The lock goes with the transaction.
LockFollows(p, k) ==
  /\ writer' \in Procs \cup {None}
  /\ writer' = p => k.pc = "saving"
  /\ writer' \notin {p, None} => writer' = writer
  /\ lost' \in 0..MaxLost

LEMMA SharedKept ==
  ASSUME JobsInv, SharedInv, NEW p \in Procs, NEW k, Becomes(p, k), LockFollows(p, k)
  PROVE  SharedInv'
<1>1. job'[p] = k /\ \A q \in Procs \ {p} : job'[q] = job[q]
  BY DEF JobsInv, Becomes
<1>2. writer' # None => job'[writer'].pc = "saving"
  BY <1>1 DEF LockFollows, SharedInv
<1> QED BY <1>2 DEF SharedInv, LockFollows

LEMMA RowsKept ==
  ASSUME JobsInv, RowsInv, SavesAreWhole, NEW p \in Procs, NEW k, Becomes(p, k),
         KeepsRows(job[p], k), table' = table
  PROVE  RowsInv' /\ SavesAreWhole'
<1>1. job'[p] = k /\ \A q \in Procs \ {p} : job'[q] = job[q]
  BY DEF JobsInv, Becomes
<1>2. Stored' = Stored
  BY DEF Stored
<1>3. ASSUME NEW t \in table
      PROVE  /\ t.row \in Rows /\ t.by \in Procs /\ job'[t.by].pc \in {"saving"} \cup Over
             /\ job'[t.by].got = job[t.by].got
  BY <1>1 DEF RowsInv, KeepsRows
<1>4. RowsInv'
  BY <1>2, <1>3 DEF RowsInv
<1>5. \A q \in Procs : job'[q].cmd \in {"sync", "thread"} /\ job'[q].pc = "done"
                         => job'[q].got \subseteq Stored
  BY <1>1 DEF SavesAreWhole, KeepsRows
<1> QED BY <1>2, <1>4, <1>5 DEF SavesAreWhole, RowsInv

\* A commit brings all rows of one kind at once, over whatever stood there.
LEMMA RowsCommitted ==
  ASSUME JobsInv, RowsInv, SavesAreWhole, NEW p \in Procs, job[p].pc = "saving",
         NEW k, Becomes(p, k), k = Saved(job[p]), table' = Upserted(Batch(job[p]), p)
  PROVE  RowsInv' /\ SavesAreWhole'
<1> DEFINE j == job[p]
           b == Batch(j)
<1>1. job'[p] = k /\ \A q \in Procs \ {p} : job'[q] = job[q]
  BY DEF JobsInv, Becomes
<1>2. Good(j)
  BY DEF JobsInv
<1> HIDE DEF j
<1>3. /\ k.got = j.got /\ k.cmd = j.cmd /\ k.pc \in {"saving", "done"}
      /\ (j.cmd \in {"sync", "thread"} => j.at = 1)
  BY <1>2, SavedIs DEF j
<1>4. b = {r \in j.got : r.kind = j.kinds[j.at]} /\ j.got \subseteq Rows
  BY <1>2 DEF Batch, OfKind, Good, Typed
<1>a. table' = {t \in table : t.row \notin b} \cup {[row |-> r, by |-> p] : r \in b}
  BY DEF Upserted, j
<1> HIDE DEF b
<1>5. b \subseteq Stored'
  <2>1. ASSUME NEW r \in b PROVE r \in Stored'
    <3>1. [row |-> r, by |-> p] \in table' /\ [row |-> r, by |-> p].row = r
      BY <1>a
    <3> QED BY <3>1 DEF Stored
  <2> QED BY <2>1
<1>6. Stored \subseteq Stored'
  <2>1. ASSUME NEW t \in table, t.row \notin b PROVE t.row \in Stored'
    BY <1>a, <2>1 DEF Stored
  <2> QED BY <1>5, <2>1 DEF Stored
<1>7. ASSUME NEW t \in table'
      PROVE  /\ t.row \in Rows /\ t.by \in Procs /\ job'[t.by].pc \in {"saving"} \cup Over
             /\ OfKind(job'[t.by].got, t.row.kind) \subseteq Stored'
  <2>1. CASE t \in table
    <3>1. /\ t.row \in Rows /\ t.by \in Procs /\ job[t.by].pc \in {"saving"} \cup Over
          /\ OfKind(job[t.by].got, t.row.kind) \subseteq Stored'
      BY <1>6, <2>1 DEF RowsInv
    <3>2. job'[t.by].got = job[t.by].got /\ job'[t.by].pc \in {"saving"} \cup Over
      BY <1>1, <1>3, <3>1 DEF j, Over
    <3> QED BY <3>1, <3>2
  <2>2. CASE t \notin table
    <3>1. PICK r \in b : t = [row |-> r, by |-> p]
      BY <1>a, <2>2
    <3>2. t.row = r /\ t.by = p
      BY <3>1
    <3>3. OfKind(k.got, r.kind) = b
      BY <1>3, <1>4 DEF OfKind
    <3> QED BY <1>1, <1>3, <1>4, <1>5, <3>2, <3>3 DEF Over
  <2> QED BY <2>1, <2>2
<1>8. RowsInv'
  BY <1>7 DEF RowsInv
<1>9. ASSUME NEW q \in Procs, job'[q].cmd \in {"sync", "thread"}, job'[q].pc = "done"
      PROVE  job'[q].got \subseteq Stored'
  <2>1. CASE q = p
    <3>1. j.cmd \in {"sync", "thread"} /\ j.at = 1
      BY <1>1, <1>3, <1>9, <2>1
    <3>2. \A r \in j.got : r.kind = j.kinds[1]
      BY <1>2, <3>1 DEF Good, OneKind, Over, j
    <3> QED BY <1>1, <1>3, <1>4, <1>5, <2>1, <3>1, <3>2
  <2>2. CASE q # p
    BY <1>1, <1>6, <1>9, <2>2 DEF SavesAreWhole
  <2> QED BY <2>1, <2>2
<1>10. \A t \in table' : OfKind(job'[t.by].got, t.row.kind) \subseteq Stored'
  BY <1>7
<1>11. \A q \in Procs : job'[q].cmd \in {"sync", "thread"} /\ job'[q].pc = "done"
                          => job'[q].got \subseteq Stored'
  BY <1>9
<1> QED BY <1>8, <1>10, <1>11 DEF SavesAreWhole

LEMMA AccountKept ==
  ASSUME JobsInv, AccountInv, NEW p \in Procs, NEW k, Becomes(p, k), KeepsAccount(job[p], k),
         UNCHANGED accountVars
  PROVE  AccountInv'
<1>1. job'[p] = k /\ \A q \in Procs \ {p} : job'[q] = job[q]
  BY DEF JobsInv, Becomes
<1>2. account' = account /\ stayed' = stayed /\ moves' = moves
  BY DEF accountVars
<1>4. ASSUME NEW q \in Procs, job'[q].cmd = "sync", job'[q].pc = "asking", NEW x \in stayed[q]
      PROVE  ProductRow(x) \in job'[q].got \/ Ahead(account, job'[q].at, x)
  <2>1. /\ job[q].cmd = "sync" /\ job[q].pc = "asking" /\ job'[q].got = job[q].got
        /\ job'[q].at = job[q].at
    BY <1>1, <1>4 DEF KeepsAccount
  <2> QED BY <2>1 DEF AccountInv, In
<1>5. ASSUME NEW q \in Procs, job'[q].cmd = "sync", job'[q].pc \in {"saving", "done"}
      PROVE  \A x \in stayed[q] : ProductRow(x) \in job'[q].got
  <2>1. /\ job[q].cmd = "sync" /\ job[q].pc \in {"saving", "done"} /\ job'[q].got = job[q].got
    BY <1>1, <1>5 DEF KeepsAccount
  <2> QED BY <2>1 DEF AccountInv
<1> QED BY <1>2, <1>4, <1>5 DEF AccountInv, In

\* A sync begins with the whole account ahead of it.
LEMMA AccountAtStart ==
  ASSUME JobsInv, AccountInv, NEW p \in Procs, NEW k, Becomes(p, k),
         k.cmd = "sync", k.pc = "asking", k.at = 1,
         stayed' = [stayed EXCEPT ![p] = Owned], UNCHANGED <<account, moves>>
  PROVE  AccountInv'
<1>1. job'[p] = k /\ \A q \in Procs \ {p} : job'[q] = job[q]
  BY DEF JobsInv, Becomes
<1>2. \A i \in 1..Len(account) : account[i] \in 1..Products
  BY ElementOfSeq DEF AccountInv
<1>3. stayed' \in [Procs -> SUBSET (1..Products)]
  BY <1>2 DEF AccountInv, Owned
<1>4. stayed'[p] = Owned /\ \A q \in Procs \ {p} : stayed'[q] = stayed[q]
  BY DEF AccountInv
<1>5. ASSUME NEW x \in Owned PROVE Ahead(account, 1, x)
  <2>1. PICK i \in 1..Len(account) : account[i] = x
    BY DEF Owned
  <2>2. (1 - 1) * PageSize = 0 /\ 0 < i
    BY ProductSyncAssumption
  <2> QED BY <2>1, <2>2 DEF Ahead
<1>6. ASSUME NEW q \in Procs, job'[q].cmd = "sync", job'[q].pc = "asking", NEW x \in stayed'[q]
      PROVE  ProductRow(x) \in job'[q].got \/ Ahead(account, job'[q].at, x)
  BY <1>1, <1>4, <1>5, <1>6 DEF AccountInv, In
<1>7. ASSUME NEW q \in Procs, job'[q].cmd = "sync", job'[q].pc \in {"saving", "done"}
      PROVE  \A x \in stayed'[q] : ProductRow(x) \in job'[q].got
  BY <1>1, <1>4, <1>7 DEF AccountInv
<1> QED BY <1>3, <1>6, <1>7 DEF AccountInv, In

\* What lies ahead of a page is on it or ahead of the next; behind the last page is nothing.
LEMMA PageTurn ==
  ASSUME NEW at \in Nat, NEW x, Ahead(account, at, x), account \in Seq(1..Products)
  PROVE  x \in OnPage(at) \/ (HasNext(at) /\ Ahead(account, at + 1, x))
<1>1. PICK i \in 1..Len(account) : account[i] = x /\ (at - 1) * PageSize < i
  BY DEF Ahead
<1>2. at * PageSize \in Nat /\ (at + 1) - 1 = at /\ Len(account) \in Nat
  BY ProductSyncAssumption, LenProperties
<1>3. CASE i <= at * PageSize
  BY <1>1, <1>3 DEF OnPage
<1>4. CASE at * PageSize < i
  <2>1. Len(account) > at * PageSize
    BY <1>2, <1>4
  <2> QED BY <1>1, <1>2, <1>4, <2>1 DEF HasNext, Ahead
<1> QED BY <1>2, <1>3, <1>4

LEMMA AccountPaged ==
  ASSUME JobsInv, AccountInv, NEW p \in Procs, In(p, "sync", "asking"),
         NEW k, Becomes(p, k), k.cmd = "sync", Turned(job[p], k), UNCHANGED accountVars
  PROVE  AccountInv'
<1>1. job'[p] = k /\ \A q \in Procs \ {p} : job'[q] = job[q]
  BY DEF JobsInv, Becomes
<1>2. account' = account /\ stayed' = stayed /\ moves' = moves
  BY DEF accountVars
<1>3. ASSUME NEW x \in stayed[p], k.pc \in {"asking", "saving"}
      PROVE  ProductRow(x) \in k.got \/ (HasNext(job[p].at) /\ Ahead(account, job[p].at + 1, x))
  <2>1. k.got = job[p].got \cup {ProductRow(y) : y \in OnPage(job[p].at)}
    BY <1>3 DEF Turned
  <2>2. ProductRow(x) \in job[p].got \/ Ahead(account, job[p].at, x)
    BY DEF AccountInv
  <2>3. CASE ProductRow(x) \in job[p].got
    BY <2>1, <2>3
  <2>4. CASE Ahead(account, job[p].at, x)
    <3>1. job[p].at \in Nat /\ account \in Seq(1..Products)
      BY DEF JobsInv, Good, Typed, AccountInv
    <3>2. x \in OnPage(job[p].at) \/ (HasNext(job[p].at) /\ Ahead(account, job[p].at + 1, x))
      BY <2>4, <3>1, PageTurn
    <3> QED BY <2>1, <3>2
  <2> QED BY <2>2, <2>3, <2>4
<1>4. ASSUME NEW q \in Procs, job'[q].cmd = "sync", job'[q].pc = "asking", NEW x \in stayed[q]
      PROVE  ProductRow(x) \in job'[q].got \/ Ahead(account, job'[q].at, x)
  <2>1. CASE q = p
    BY <1>1, <1>3, <1>4, <2>1 DEF Turned
  <2>2. CASE q # p
    BY <1>1, <1>4, <2>2 DEF AccountInv, In
  <2> QED BY <2>1, <2>2
<1>5. ASSUME NEW q \in Procs, job'[q].cmd = "sync", job'[q].pc \in {"saving", "done"}
      PROVE  \A x \in stayed[q] : ProductRow(x) \in job'[q].got
  <2>1. CASE q = p
    BY <1>1, <1>3, <1>5, <2>1 DEF Turned
  <2>2. CASE q # p
    BY <1>1, <1>5, <2>2 DEF AccountInv
  <2> QED BY <2>1, <2>2
<1> QED BY <1>2, <1>4, <1>5 DEF AccountInv, In

\* A purchase moves products to later places only.
LEMMA AccountBought ==
  ASSUME JobsInv, AccountInv, Buy
  PROVE  AccountInv'
<1>1. PICK x \in (1..Products) \ Owned, i \in 0..Len(account) :
        account' = SubSeq(account, 1, i) \o <<x>> \o SubSeq(account, i + 1, Len(account))
  BY DEF Buy
<1>2. stayed' = stayed /\ job' = job /\ moves' \in 0..MaxMoves
  BY ProductSyncAssumption DEF Buy, AccountInv
<1>3. account \in Seq(1..Products) /\ Len(account) \in Nat
  BY LenProperties DEF AccountInv
<1> DEFINE m == i + 1
<1>4. m \in 1..(Len(account) + 1) /\ m - 1 = i /\ m \in Nat
  BY <1>3
<1>5. account' = InsertAt(account, m, x) /\ x \in 1..Products
  BY <1>1, <1>4 DEF InsertAt
<1> HIDE DEF m
<1>6. /\ account' \in Seq(1..Products)
      /\ Len(account') = Len(account) + 1
      /\ \A n \in 1..(Len(account) + 1) :
           account'[n] = IF n < m THEN account[n] ELSE IF n = m THEN x ELSE account[n - 1]
  <2> DEFINE S == 1..Products
  <2>0. account \in Seq(S) /\ x \in S
    BY <1>3, <1>5
  <2> HIDE DEF S
  <2>1. /\ InsertAt(account, m, x) \in Seq(S)
        /\ Len(InsertAt(account, m, x)) = Len(account) + 1
        /\ \A n \in 1..(Len(account) + 1) :
             InsertAt(account, m, x)[n] =
               IF n < m THEN account[n] ELSE IF n = m THEN x ELSE account[n - 1]
    BY <1>4, <2>0, InsertAtIndexes
  <2> QED BY <1>5, <2>1 DEF S
<1>7. ASSUME NEW at \in Nat, NEW y, Ahead(account, at, y) PROVE Ahead(account', at, y)
  <2>1. PICK n \in 1..Len(account) : account[n] = y /\ (at - 1) * PageSize < n
    BY <1>7 DEF Ahead
  <2>2. (at - 1) * PageSize \in Int
    BY ProductSyncAssumption
  <2>3. CASE n < m
    BY <1>3, <1>6, <2>1, <2>3 DEF Ahead
  <2>4. CASE n >= m
    <3>1. n + 1 \in 1..Len(account') /\ account'[n + 1] = account[n]
      BY <1>3, <1>4, <1>6, <2>4
    <3>2. (at - 1) * PageSize < n + 1
      BY <2>1, <2>2
    <3> QED BY <2>1, <3>1, <3>2 DEF Ahead
  <2> QED BY <1>4, <2>3, <2>4
<1>8. ASSUME NEW q \in Procs, job'[q].cmd = "sync", job'[q].pc = "asking", NEW y \in stayed[q]
      PROVE  ProductRow(y) \in job'[q].got \/ Ahead(account', job'[q].at, y)
  <2>1. job[q].at \in Nat
    BY DEF JobsInv, Good, Typed
  <2>2. ProductRow(y) \in job[q].got \/ Ahead(account, job[q].at, y)
    BY <1>2, <1>8 DEF AccountInv, In
  <2> QED BY <1>2, <1>7, <2>1, <2>2
<1>9. ASSUME NEW q \in Procs, job'[q].cmd = "sync", job'[q].pc \in {"saving", "done"}
      PROVE  \A y \in stayed[q] : ProductRow(y) \in job'[q].got
  BY <1>2, <1>9 DEF AccountInv
<1> QED BY <1>2, <1>6, <1>8, <1>9 DEF AccountInv, In

\* A refund ends what a walk may count on.
LEMMA AccountRefunded ==
  ASSUME JobsInv, AccountInv, Refund
  PROVE  AccountInv'
<1>1. PICK i \in 1..Len(account) :
        account' = SubSeq(account, 1, i - 1) \o SubSeq(account, i + 1, Len(account))
  BY DEF Refund
<1>2. /\ stayed' = [p \in Procs |-> IF In(p, "sync", "asking") THEN {} ELSE stayed[p]]
      /\ job' = job /\ moves' \in 0..MaxMoves
  BY ProductSyncAssumption DEF Refund, AccountInv
<1>3. account' = RemoveAt(account, i)
  BY <1>1 DEF RemoveAt
<1>4. account' \in Seq(1..Products)
  BY <1>3, RemoveAtIndexes DEF AccountInv
<1>5. stayed' \in [Procs -> SUBSET (1..Products)]
  BY <1>2 DEF AccountInv
<1>6. \A q \in Procs : In(q, "sync", "asking") => stayed'[q] = {}
  BY <1>2
<1>7. ASSUME NEW q \in Procs, job'[q].cmd = "sync", job'[q].pc \in {"saving", "done"}
      PROVE  \A y \in stayed'[q] : ProductRow(y) \in job'[q].got
  <2>1. stayed'[q] = stayed[q]
    BY <1>2, <1>7 DEF In
  <2> QED BY <1>2, <1>7, <2>1 DEF AccountInv
<1>8. \A q \in Procs : job'[q].cmd = "sync" /\ job'[q].pc = "asking" => stayed'[q] = {}
  BY <1>2, <1>6 DEF In
<1> QED BY <1>2, <1>4, <1>5, <1>7, <1>8 DEF AccountInv, In

LEMMA FilesKept ==
  ASSUME JobsInv, FilesInv, NEW p \in Procs, NEW k, Becomes(p, k), KeepsFiles(job[p], k),
         dir' = dir
  PROVE  FilesInv'
<1>1. job'[p] = k /\ \A q \in Procs \ {p} : job'[q] = job[q]
  BY DEF JobsInv, Becomes
<1>2. ASSUME NEW q \in Procs, job'[q].pc = "filling" \/ (job'[q].pc = "writing" /\ job'[q].at > 1)
      PROVE  q # p /\ job'[q] = job[q]
  BY <1>1, <1>2 DEF KeepsFiles
<1>3. ASSUME NEW q \in Procs, NEW i \in 1..Len(Files), Reached(job[q], i)
      PROVE  Reached(job'[q], i)
  BY <1>1, <1>3, FilesFacts DEF KeepsFiles
<1>4. ASSUME InOrder PROVE InOrder'
  BY <1>2, <1>3, <1>4 DEF InOrder, MidFiles
<1>5. DossierSealsArchive => DossierSealsArchive'
  BY DEF DossierSealsArchive
<1> QED BY <1>4, <1>5 DEF FilesInv

LEMMA CardsKept ==
  ASSUME JobsInv, CardsInv, PushesStayWhole, NEW p \in Procs, NEW k, Becomes(p, k), Good(k),
         KeepsCards(job[p], k), cards' = cards
  PROVE  CardsInv' /\ PushesStayWhole'
<1>1. job'[p] = k /\ \A q \in Procs \ {p} : job'[q] = job[q]
  BY DEF JobsInv, Becomes
<1>2. \A q \in Procs : Runs(q)' = Runs(q)
  BY DEF Runs
<1>3. ASSUME NEW q \in Procs
      PROVE  /\ Runs(q) # {} => job'[q].cmd = "push"
             /\ job'[q].pc = "pushing" =>
                  /\ \A i \in Runs(q) : cards[i].to < job'[q].at
                  /\ job'[q].at = 1 \/ \E i \in Runs(q) : cards[i].to + 1 = job'[q].at
             /\ job'[q].blocks > 0 /\ job'[q].pc = "done"
                  => \E i \in Runs(q) : cards[i].to = job'[q].blocks
  <2>1. CASE q = p
    <3>1. Runs(q) # {} => job[q].cmd = "push"
      BY DEF CardsInv
    <3>2. k.pc = "pushing" => Runs(q) = {} /\ k.at = 1
      BY <2>1, <3>1 DEF KeepsCards
    <3> QED BY <1>1, <2>1, <3>1, <3>2 DEF KeepsCards
  <2>2. CASE q # p
    BY <1>1, <2>2 DEF CardsInv, PushesStayWhole
  <2> QED BY <2>1, <2>2
<1>4. CardsInv'
  BY <1>2, <1>3 DEF CardsInv
<1>5. PushesStayWhole'
  BY <1>2, <1>3 DEF PushesStayWhole
<1> QED BY <1>4, <1>5

\* What is true of one file after one of them was written.
LEMMA DirWritten ==
  ASSUME dir \in [DOMAIN NoDir -> [torn : BOOLEAN, of : Procs \cup {None}]],
         NEW n \in 1..8, NEW r \in [torn : BOOLEAN, of : Procs \cup {None}],
         dir' = [dir EXCEPT ![Files[n]] = r]
  PROVE  /\ dir' \in [DOMAIN NoDir -> [torn : BOOLEAN, of : Procs \cup {None}]]
         /\ DOMAIN dir' = DOMAIN NoDir
         /\ dir'[Files[n]] = r
         /\ \A i \in 1..8 : i # n => dir'[Files[i]] = dir[Files[i]]
<1>1. Files[n] \in DOMAIN NoDir /\ \A i \in 1..8 : Files[i] \in DOMAIN NoDir
  BY FilesFacts
<1>2. \A i \in 1..8 : Files[i] = Files[n] => i = n
  BY FilesFacts
<1> QED BY <1>1, <1>2

LEMMA FilledWhole ==
  ASSUME NEW S, NEW r \in [torn : BOOLEAN, of : S]
  PROVE  [r EXCEPT !.torn = FALSE] = Whole(r.of)
<1> DEFINE t == [r EXCEPT !.torn = FALSE]
<1>1. DOMAIN t = {"torn", "of"} /\ t["torn"] = FALSE /\ t["of"] = r.of
  OBVIOUS
<1>2. t = [f \in {"torn", "of"} |-> t[f]]
  OBVIOUS
<1> HIDE DEF t
<1>3. t = [torn |-> FALSE, of |-> r.of]
  BY <1>1, <1>2
<1> QED BY <1>3 DEF Whole, t

LEMMA MuddleTyped == Muddle \in [DOMAIN NoDir -> [torn : BOOLEAN, of : Procs \cup {None}]]
BY DEF Muddle

LEMMA FilesCreated ==
  ASSUME JobsInv, FilesInv, NEW p \in Procs, job[p].pc = "writing",
         NEW k, Becomes(p, k), k.cmd = "scrape", k.pc = "filling", k.at = job[p].at,
         job[p].at \in 1..8,
         dir' = IF dir = Muddle \/ \E q \in Procs \ {p} : MidFiles(q)
                  THEN Muddle
                  ELSE [dir EXCEPT ![Files[job[p].at]] = [torn |-> TRUE, of |-> p]]
  PROVE  FilesInv'
<1> DEFINE n == job[p].at
           r == [torn |-> TRUE, of |-> p]
<1>1. job'[p] = k /\ \A q \in Procs \ {p} : job'[q] = job[q]
  BY DEF JobsInv, Becomes
<1>2. Muddle' = Muddle /\ (DOMAIN NoDir)' = DOMAIN NoDir
  BY DEF Muddle, NoDir, Files
<1>3. CASE dir = Muddle \/ \E q \in Procs \ {p} : MidFiles(q)
  BY <1>2, <1>3, MuddleTyped DEF FilesInv
<1>4. CASE dir # Muddle /\ \A q \in Procs \ {p} : ~MidFiles(q)
  <2>1. dir' = [dir EXCEPT ![Files[n]] = r]
    BY <1>4
  <2>2. r \in [torn : BOOLEAN, of : Procs \cup {None}] /\ r.of = p /\ r.torn = TRUE
    OBVIOUS
  <2>3. n \in 1..8
    OBVIOUS
  <2> HIDE DEF n, r
  <2>4. /\ dir' \in [DOMAIN NoDir -> [torn : BOOLEAN, of : Procs \cup {None}]]
        /\ DOMAIN dir' = DOMAIN NoDir
        /\ dir'[Files[n]] = r
        /\ \A i \in 1..8 : i # n => dir'[Files[i]] = dir[Files[i]]
    BY <2>1, <2>2, <2>3, DirWritten DEF FilesInv
  <2>5. InOrder /\ DossierSealsArchive
    BY <1>4 DEF FilesInv
  <2>6. \A q \in Procs : job'[q].pc = "filling" \/ (job'[q].pc = "writing" /\ job'[q].at > 1)
                           => q = p
    BY <1>1, <1>4 DEF MidFiles
  <2>7. ASSUME NEW q \in Procs, NEW i \in 1..8, dir'[Files[i]].of = q
        PROVE  Reached(job'[q], i)
    <3>1. CASE i = n
      BY <1>1, <2>2, <2>4, <2>7, <3>1 DEF Reached, n
    <3>2. CASE i # n
      <4>1. Reached(job[q], i)
        BY <2>4, <2>5, <2>7, <3>2, FilesFacts DEF InOrder
      <4>2. CASE q = p
        BY <1>1, <4>1, <4>2 DEF Reached
      <4> QED BY <1>1, <4>1, <4>2
    <3> QED BY <3>1, <3>2
  <2>8. ASSUME NEW i \in 1..(n - 1) PROVE dir'[Files[i]] = Whole(p)
    <3>1. MidFiles(p) /\ i \in 1..8 /\ i # n
      BY <2>3 DEF MidFiles, n
    <3> QED BY <2>4, <2>5, <3>1 DEF InOrder, n
  <2>9. InOrder'
    <3>1. \A q \in Procs : job'[q].pc = "filling" => dir'[Files[job'[q].at]].of = q
      BY <1>1, <2>2, <2>4, <2>6 DEF n
    <3>2. \A q \in Procs : job'[q].pc = "filling" \/ (job'[q].pc = "writing" /\ job'[q].at > 1)
            => \A i \in 1..(job'[q].at - 1) : dir'[Files[i]] = Whole(q)
      BY <1>1, <2>6, <2>8 DEF n
    <3> QED BY <2>6, <2>7, <3>1, <3>2, FilesFacts DEF InOrder, MidFiles, Whole
  <2>10. DossierSealsArchive'
    <3>1. CASE n < 7
      <4>1. dir'["deal.json"].of = p
        <5>1. CASE n = 1
          BY <2>2, <2>4, <5>1, FilesFacts
        <5>2. CASE n # 1
          <6>1. dir'[Files[1]] = Whole(p)
            BY <2>3, <2>8, <5>2
          <6> QED BY <6>1, FilesFacts DEF Whole
        <5> QED BY <5>1, <5>2
      <4>2. dir'["DOSSIER.md"].of # p
        <5>1. 7 \in 1..8 /\ 7 # n
          BY <3>1
        <5>2. dir'["DOSSIER.md"] = dir[Files[7]]
          BY <2>4, <5>1, FilesFacts
        <5>3. dir[Files[7]].of = p => Reached(job[p], 7)
          BY <2>5, <5>1, FilesFacts DEF InOrder
        <5>4. ~Reached(job[p], 7)
          BY <3>1 DEF Reached, n
        <5> QED BY <5>2, <5>3, <5>4
      <4> QED BY <4>1, <4>2 DEF DossierSealsArchive
    <3>2. CASE n = 7
      BY <2>2, <2>4, <3>2, FilesFacts DEF DossierSealsArchive
    <3>3. CASE n = 8
      <4>1. \A f \in DOMAIN dir' \ {"SUMMARY.md"} : dir'[f] = dir[f]
        <5>1. \A i \in 1..7 : dir'[Files[i]] = dir[Files[i]]
          BY <2>4, <3>3
        <5> QED BY <2>4, <5>1, FilesFacts
      <4>2. /\ "DOSSIER.md" \in DOMAIN dir' \ {"SUMMARY.md"}
            /\ "deal.json" \in DOMAIN dir' \ {"SUMMARY.md"}
            /\ DOMAIN dir = DOMAIN dir'
        <5>1. 1 \in 1..7 /\ 7 \in 1..7
          OBVIOUS
        <5> QED BY <2>4, <5>1, FilesFacts DEF FilesInv
      <4> QED BY <2>5, <4>1, <4>2 DEF DossierSealsArchive
    <3> QED BY <2>3, <3>1, <3>2, <3>3
  <2> QED BY <1>2, <2>4, <2>9, <2>10 DEF FilesInv
<1> QED BY <1>3, <1>4

LEMMA FilesFilled ==
  ASSUME JobsInv, FilesInv, NEW p \in Procs, job[p].pc = "filling", job[p].cmd = "scrape",
         NEW k, Becomes(p, k), k.cmd = "scrape", job[p].at \in 1..8,
         \/ job[p].at < 8 /\ k.pc = "writing" /\ k.at = job[p].at + 1
         \/ job[p].at = 8 /\ k.pc \in {"saving", "done"},
         dir' = IF dir = Muddle THEN dir ELSE [dir EXCEPT ![Files[job[p].at]].torn = FALSE]
  PROVE  FilesInv'
<1> DEFINE n == job[p].at
           r == [dir[Files[n]] EXCEPT !.torn = FALSE]
<1>1. job'[p] = k /\ \A q \in Procs \ {p} : job'[q] = job[q]
  BY DEF JobsInv, Becomes
<1>2. Muddle' = Muddle /\ (DOMAIN NoDir)' = DOMAIN NoDir
  BY DEF Muddle, NoDir, Files
<1>3. CASE dir = Muddle
  BY <1>2, <1>3, MuddleTyped DEF FilesInv
<1>4. CASE dir # Muddle
  <2>1. dir' = [dir EXCEPT ![Files[n]] = r]
    BY <1>4
  <2>2. InOrder /\ DossierSealsArchive
    BY <1>4 DEF FilesInv
  <2>3. n \in 1..8
    OBVIOUS
  <2>4. r = Whole(p) /\ r \in [torn : BOOLEAN, of : Procs \cup {None}]
    <3>1. dir[Files[n]] \in [torn : BOOLEAN, of : Procs \cup {None}] /\ dir[Files[n]].of = p
      BY <2>2, FilesFacts DEF FilesInv, InOrder
    <3>2. r = Whole(p)
      BY <3>1, FilledWhole
    <3> QED BY <3>2 DEF Whole
  <2> HIDE DEF n, r
  <2>5. /\ dir' \in [DOMAIN NoDir -> [torn : BOOLEAN, of : Procs \cup {None}]]
        /\ DOMAIN dir' = DOMAIN NoDir
        /\ dir'[Files[n]] = Whole(p)
        /\ \A i \in 1..8 : i # n => dir'[Files[i]] = dir[Files[i]]
    BY <2>1, <2>3, <2>4, DirWritten DEF FilesInv
  <2>6. \A q \in Procs \ {p} : ~MidFiles(q)
    BY <2>2 DEF InOrder, MidFiles
  <2>7. \A q \in Procs : job'[q].pc = "filling" \/ (job'[q].pc = "writing" /\ job'[q].at > 1)
                           => q = p
    BY <1>1, <2>6 DEF MidFiles
  <2>8. ASSUME NEW q \in Procs, NEW i \in 1..8, dir'[Files[i]].of = q
        PROVE  Reached(job'[q], i)
    <3>1. Reached(job[q], i)
      <4>1. CASE i = n
        BY <2>5, <2>8, <4>1 DEF Reached, Whole, n
      <4>2. CASE i # n
        BY <2>2, <2>5, <2>8, <4>2, FilesFacts DEF InOrder
      <4> QED BY <4>1, <4>2
    <3>2. CASE q = p
      BY <1>1, <2>3, <3>1, <3>2 DEF Reached, n
    <3> QED BY <1>1, <3>1, <3>2
  <2>9. ASSUME NEW i \in 1..n PROVE dir'[Files[i]] = Whole(p)
    <3>1. CASE i = n
      BY <2>5, <3>1
    <3>2. CASE i # n
      <4>1. MidFiles(p) /\ i \in 1..(n - 1) /\ i \in 1..8
        BY <2>3, <3>2 DEF MidFiles
      <4> QED BY <2>2, <2>5, <3>2, <4>1 DEF InOrder, n
    <3> QED BY <3>1, <3>2
  <2>10. InOrder'
    <3>1. \A q \in Procs : job'[q].pc = "filling" => dir'[Files[job'[q].at]].of = q
      BY <1>1, <2>7
    <3>2. \A q \in Procs : job'[q].pc = "filling" \/ (job'[q].pc = "writing" /\ job'[q].at > 1)
            => \A i \in 1..(job'[q].at - 1) : dir'[Files[i]] = Whole(q)
      BY <1>1, <2>3, <2>7, <2>9 DEF n
    <3> QED BY <2>7, <2>8, <3>1, <3>2, FilesFacts DEF InOrder, MidFiles, Whole
  <2>11. DossierSealsArchive'
    <3>1. CASE n < 7
      <4>1. dir'["deal.json"].of = p
        <5>1. dir'[Files[1]] = Whole(p)
          BY <2>3, <2>9
        <5> QED BY <5>1, FilesFacts DEF Whole
      <4>2. dir'["DOSSIER.md"].of # p
        <5>1. 7 \in 1..8 /\ 7 # n
          BY <3>1
        <5>2. dir'["DOSSIER.md"] = dir[Files[7]]
          BY <2>5, <5>1, FilesFacts
        <5>3. dir[Files[7]].of = p => Reached(job[p], 7)
          BY <2>2, <5>1, FilesFacts DEF InOrder
        <5>4. ~Reached(job[p], 7)
          BY <3>1 DEF Reached, n
        <5> QED BY <5>2, <5>3, <5>4
      <4> QED BY <4>1, <4>2 DEF DossierSealsArchive
    <3>2. CASE n = 7
      <4>1. ASSUME NEW f \in DOMAIN dir' \ {"SUMMARY.md"} PROVE dir'[f] = Whole(p)
        <5>1. DOMAIN dir' \ {"SUMMARY.md"} = {Files[i] : i \in 1..7}
          BY <2>5, FilesFacts
        <5>2. PICK i \in 1..7 : f = Files[i]
          BY <4>1, <5>1
        <5>3. i \in 1..n
          BY <3>2
        <5> QED BY <2>9, <5>2, <5>3
      <4>2. "DOSSIER.md" \in DOMAIN dir' \ {"SUMMARY.md"}
        <5>1. 7 \in 1..7
          OBVIOUS
        <5> QED BY <2>5, <5>1, FilesFacts
      <4> QED BY <4>1, <4>2 DEF DossierSealsArchive
    <3>3. CASE n = 8
      <4>1. \A i \in 1..7 : dir'[Files[i]] = dir[Files[i]]
        BY <2>5, <3>3
      <4>2. DOMAIN dir' \ {"SUMMARY.md"} = {Files[i] : i \in 1..7} /\ DOMAIN dir = DOMAIN dir'
        BY <2>5, FilesFacts DEF FilesInv
      <4>3. \A f \in DOMAIN dir' \ {"SUMMARY.md"} : dir'[f] = dir[f]
        BY <4>1, <4>2
      <4>4. dir'["DOSSIER.md"] = dir["DOSSIER.md"] /\ dir'["deal.json"] = dir["deal.json"]
        BY <4>1, FilesFacts
      <4> QED BY <2>2, <4>2, <4>3, <4>4 DEF DossierSealsArchive
    <3> QED BY <2>3, <3>1, <3>2, <3>3
  <2> QED BY <1>2, <2>5, <2>10, <2>11 DEF FilesInv
<1> QED BY <1>3, <1>4

\* A chunk continues what its own push has on the page, wherever that is.
LEMMA CardsPushed ==
  ASSUME JobsInv, CardsInv, PushesStayWhole, NEW p \in Procs, job[p].cmd = "push",
         job[p].pc = "pushing",
         NEW k, Becomes(p, k), k.cmd = "push", k.blocks = job[p].blocks,
         job[p].at \in 1..job[p].blocks, job[p].blocks \in Nat,
         \/ k.pc = "pushing" /\ k.at = job[p].at + Chunk /\ k.at <= job[p].blocks
         \/ k.pc = "done" /\ job[p].at + Chunk > job[p].blocks
         \/ k.pc = "failed",
         cards' = Appended(p)
  PROVE  CardsInv' /\ PushesStayWhole'
<1> DEFINE at == job[p].at
           blocks == job[p].blocks
           end == ChunkEnd(job[p])
           n == Len(cards) + 1
           run == [by |-> p, from |-> at, to |-> end]
<1>1. job'[p] = k /\ \A q \in Procs \ {p} : job'[q] = job[q]
  BY DEF JobsInv, Becomes
<1>2. /\ at \in Nat /\ blocks \in Nat /\ Chunk \in Nat \ {0} /\ end \in Nat /\ at <= end
      /\ end = IF at + Chunk - 1 < blocks THEN at + Chunk - 1 ELSE blocks
  BY NotionPushAssumption DEF ChunkEnd
<1>3. run \in [by : Procs, from : Nat, to : Nat] /\ run.by = p /\ run.from = at /\ run.to = end
  BY <1>2
<1>4. cards' = Append(cards, run) /\ cards \in Seq([by : Procs, from : Nat, to : Nat])
  BY DEF Appended, CardsInv
<1> HIDE DEF end, run
<1>5. /\ cards' \in Seq([by : Procs, from : Nat, to : Nat])
      /\ Len(cards') = n /\ Len(cards) \in Nat /\ cards'[n] = run
      /\ \A i \in 1..Len(cards) : cards'[i] = cards[i]
  BY <1>3, <1>4, LenProperties, AppendProperties
<1>6. \A q \in Procs \ {p} : Runs(q)' = Runs(q)
  BY <1>3, <1>5 DEF Runs
<1>7. Runs(p)' = Runs(p) \cup {n} /\ Runs(p) \subseteq 1..Len(cards)
  BY <1>3, <1>5 DEF Runs
<1>a. \A q \in Procs : Runs(q) \subseteq 1..Len(cards)
  BY DEF Runs
<1>b. /\ \A i \in Runs(p) : cards'[i] = cards[i] /\ cards[i].to < at /\ cards[i].to \in Nat /\ i < n
      /\ at = 1 \/ \E i \in Runs(p) : cards[i].to + 1 = at
  <2>1. \A i \in 1..Len(cards) : cards[i].to \in Nat
    <3>1. \A i \in 1..Len(cards) : cards[i] \in [by : Procs, from : Nat, to : Nat]
      BY <1>4, ElementOfSeq
    <3> QED BY <3>1
  <2>2. \A i \in Runs(p) : cards'[i] = cards[i] /\ cards[i].to \in Nat /\ i < n
    BY <1>5, <1>7, <2>1
  <2>3. /\ \A i \in Runs(p) : cards[i].to < at
        /\ at = 1 \/ \E i \in Runs(p) : cards[i].to + 1 = at
    BY DEF CardsInv
  <2> QED BY <2>2, <2>3
<1> HIDE DEF at, blocks, n
<1>8. ASSUME NEW q \in Procs \ {p}
      PROVE  /\ Runs(q)' # {} => job'[q].cmd = "push"
             /\ job'[q].pc = "pushing" =>
                  /\ \A i \in Runs(q)' : cards'[i].to < job'[q].at
                  /\ job'[q].at = 1 \/ \E i \in Runs(q)' : cards'[i].to + 1 = job'[q].at
             /\ \A i \in Runs(q)' :
                  /\ cards'[i].from = 1
                     \/ \E j \in Runs(q)' : j < i /\ cards'[i].from = cards'[j].to + 1
                  /\ \A j \in Runs(q)' : j < i => cards'[j].to < cards'[i].from
             /\ job'[q].blocks > 0 /\ job'[q].pc = "done"
                  => \E i \in Runs(q)' : cards'[i].to = job'[q].blocks
  <2>1. Runs(q)' = Runs(q) /\ job'[q] = job[q] /\ \A i \in Runs(q) : cards'[i] = cards[i]
    BY <1>1, <1>5, <1>6, <1>a
  <2>2. /\ Runs(q) # {} => job[q].cmd = "push"
        /\ job[q].pc = "pushing" =>
             /\ \A i \in Runs(q) : cards[i].to < job[q].at
             /\ job[q].at = 1 \/ \E i \in Runs(q) : cards[i].to + 1 = job[q].at
    BY DEF CardsInv
  <2>3. /\ \A i \in Runs(q) :
             /\ cards[i].from = 1 \/ \E j \in Runs(q) : j < i /\ cards[i].from = cards[j].to + 1
             /\ \A j \in Runs(q) : j < i => cards[j].to < cards[i].from
        /\ job[q].blocks > 0 /\ job[q].pc = "done"
             => \E i \in Runs(q) : cards[i].to = job[q].blocks
    BY DEF PushesStayWhole
  <2>4. /\ Runs(q)' # {} => job'[q].cmd = "push"
        /\ job'[q].pc = "pushing" =>
             /\ \A i \in Runs(q)' : cards'[i].to < job'[q].at
             /\ job'[q].at = 1 \/ \E i \in Runs(q)' : cards'[i].to + 1 = job'[q].at
    BY <2>1, <2>2
  <2>5. ASSUME NEW i \in Runs(q)'
        PROVE  /\ cards'[i].from = 1
                  \/ \E j \in Runs(q)' : j < i /\ cards'[i].from = cards'[j].to + 1
               /\ \A j \in Runs(q)' : j < i => cards'[j].to < cards'[i].from
    BY <2>1, <2>3
  <2>6. job'[q].blocks > 0 /\ job'[q].pc = "done"
          => \E i \in Runs(q)' : cards'[i].to = job'[q].blocks
    BY <2>1, <2>3
  <2> QED BY <2>4, <2>5, <2>6
<1>9. /\ job'[p].cmd = "push"
      /\ job'[p].pc = "pushing" =>
           /\ \A i \in Runs(p)' : cards'[i].to < job'[p].at
           /\ \E i \in Runs(p)' : cards'[i].to + 1 = job'[p].at
  <2>1. ASSUME k.pc = "pushing" PROVE end + 1 = k.at /\ at < k.at
    BY <1>2, <2>1 DEF at, blocks
  <2>2. k.pc = "pushing" => k.at \in Nat
    BY <1>2 DEF at
  <2>3. ASSUME k.pc = "pushing", NEW i \in Runs(p)' PROVE cards'[i].to < k.at
    <3>1. CASE i = n
      BY <1>2, <1>3, <1>5, <2>1, <2>3, <3>1
    <3>2. CASE i \in Runs(p)
      <4>1. cards'[i].to \in Nat /\ cards'[i].to < at
        BY <1>b, <3>2
      <4> QED BY <1>2, <2>1, <2>2, <2>3, <4>1
    <3> QED BY <1>7, <3>1, <3>2
  <2>4. ASSUME k.pc = "pushing" PROVE \E i \in Runs(p)' : cards'[i].to + 1 = k.at
    BY <1>3, <1>5, <1>7, <2>1, <2>4
  <2> QED BY <1>1, <2>3, <2>4
<1>10. ASSUME NEW i \in Runs(p)'
       PROVE  /\ cards'[i].from = 1
                 \/ \E j \in Runs(p)' : j < i /\ cards'[i].from = cards'[j].to + 1
              /\ \A j \in Runs(p)' : j < i => cards'[j].to < cards'[i].from
  <2>1. CASE i = n
    BY <1>3, <1>5, <1>7, <1>b, <2>1
  <2>2. CASE i # n
    <3>0. i \in Runs(p) /\ i < n
      BY <1>7, <1>b, <2>2
    <3>1. i \in Runs(p) /\ \A j \in Runs(p)' : j < i => j \in Runs(p)
      <4>1. n \in Nat /\ i \in Nat /\ ~(n < i)
        BY <1>5, <1>7, <3>0 DEF n
      <4> QED BY <1>7, <3>0, <4>1
    <3>2. /\ cards[i].from = 1 \/ \E j \in Runs(p) : j < i /\ cards[i].from = cards[j].to + 1
          /\ \A j \in Runs(p) : j < i => cards[j].to < cards[i].from
      BY <3>1 DEF PushesStayWhole
    <3> QED BY <1>7, <1>b, <3>1, <3>2
  <2> QED BY <2>1, <2>2
<1>11. job'[p].blocks > 0 /\ job'[p].pc = "done"
         => \E i \in Runs(p)' : cards'[i].to = job'[p].blocks
  <2>1. ASSUME k.pc = "done" PROVE end = blocks
    BY <1>2, <2>1 DEF at, blocks
  <2> QED BY <1>1, <1>3, <1>5, <1>7, <2>1 DEF blocks
<1>12. CardsInv'
  BY <1>5, <1>8, <1>9 DEF CardsInv
<1>13. PushesStayWhole'
  BY <1>8, <1>10, <1>11 DEF PushesStayWhole
<1> QED BY <1>12, <1>13

------------------------------------------------------------------------------
(* Every step keeps the invariant. *)

LEMMA QuietStep ==
  ASSUME IndInv, NEW p \in Procs, NEW k, Becomes(p, k), Good(k), Quiet(job[p], k),
         LockFollows(p, k), table' = table, UNCHANGED accountVars, dir' = dir, cards' = cards
  PROVE  IndInv'
<1>1. JobsInv' /\ SharedInv'
  BY JobsKept, SharedKept DEF IndInv
<1>2. RowsInv' /\ SavesAreWhole'
  BY RowsKept DEF IndInv, Quiet
<1>3. AccountInv' /\ FilesInv'
  BY AccountKept, FilesKept DEF IndInv, Quiet
<1>4. CardsInv' /\ PushesStayWhole'
  BY CardsKept DEF IndInv, Quiet
<1> QED BY <1>1, <1>2, <1>3, <1>4 DEF IndInv

\* Outside a transaction a command does not have the lock.
LEMMA LockElsewhere ==
  ASSUME SharedInv, NEW p \in Procs, job[p].pc # "saving", NEW k, writer' = writer,
         lost' \in 0..MaxLost
  PROVE  LockFollows(p, k)
BY JobsAssumption DEF SharedInv, LockFollows

LEMMA UnansweredShares ==
  ASSUME SharedInv, NEW p, Unanswered(p)
  PROVE  writer' = writer /\ table' = table /\ lost' \in 0..MaxLost
<1>1. lost \in 0..MaxLost /\ MaxLost \in Nat
  BY JobsAssumption DEF SharedInv
<1> QED BY <1>1 DEF Unanswered, Lose, Refuse, storeVars

LEMMA SyncStepKeeps ==
  ASSUME IndInv, NEW p \in Procs, SyncStep(p), UNCHANGED <<dir, cards>>
  PROVE  IndInv'
<1>0. JobsInv /\ SharedInv /\ AccountInv /\ lost \in 0..MaxLost
  BY DEF IndInv, SharedInv
<1>1. CASE StartSync(p)
  <2>1. PICK k :
          /\ Becomes(p, k) /\ Good(k)
          /\ KeepsRows(job[p], k) /\ KeepsFiles(job[p], k) /\ KeepsCards(job[p], k)
          /\ k.cmd = "sync" /\ k.pc = "asking" /\ k.at = 1 /\ job[p].pc = "idle"
    BY <1>0, <1>1, StartSyncStep
  <2>2. /\ writer' = writer /\ table' = table /\ lost' = lost
        /\ stayed' = [stayed EXCEPT ![p] = Owned] /\ UNCHANGED <<account, moves>>
    BY <1>1 DEF StartSync, StartJob, storeVars
  <2>3. LockFollows(p, k)
    BY <1>0, <2>1, <2>2, LockElsewhere
  <2>4. JobsInv' /\ SharedInv'
    BY <2>1, <2>3, JobsKept, SharedKept DEF IndInv
  <2>5. RowsInv' /\ SavesAreWhole'
    BY <2>1, <2>2, RowsKept DEF IndInv
  <2>6. AccountInv' /\ FilesInv'
    BY <2>1, <2>2, AccountAtStart, FilesKept DEF IndInv
  <2>7. CardsInv' /\ PushesStayWhole'
    BY <2>1, CardsKept DEF IndInv
  <2> QED BY <2>4, <2>5, <2>6, <2>7 DEF IndInv
<1>2. CASE FetchProductsPage(p)
  <2>1. In(p, "sync", "asking") /\ job[p].pc = "asking" /\ UNCHANGED accountVars
    BY <1>2 DEF FetchProductsPage, In
  <2>2. CASE Unanswered(p)
    <3>1. PICK k : /\ Becomes(p, k) /\ Good(k)
                   /\ KeepsRows(job[p], k) /\ KeepsAccount(job[p], k)
                   /\ KeepsFiles(job[p], k) /\ KeepsCards(job[p], k)
      BY <1>0, <2>1, <2>2, UnansweredStep DEF Requesting
    <3>2. writer' = writer /\ table' = table /\ lost' \in 0..MaxLost
      BY <1>0, <2>2, UnansweredShares
    <3>3. LockFollows(p, k)
      BY <1>0, <2>1, <3>2, LockElsewhere
    <3> QED BY <2>1, <3>1, <3>2, <3>3, QuietStep DEF Quiet
  <2>3. CASE Answer(p, TurnPage(Gained(job[p])))
    <3>1. PICK k :
            /\ Becomes(p, k) /\ Good(k) /\ k.cmd = "sync" /\ Turned(job[p], k)
            /\ KeepsRows(job[p], k) /\ KeepsFiles(job[p], k) /\ KeepsCards(job[p], k)
      BY <1>0, <2>1, <2>3, ProductsPageStep
    <3>2. writer' = writer /\ table' = table /\ lost' = lost
      BY <2>3 DEF Answer, storeVars
    <3>3. LockFollows(p, k)
      BY <1>0, <2>1, <3>2, LockElsewhere
    <3>4. JobsInv' /\ SharedInv'
      BY <3>1, <3>3, JobsKept, SharedKept DEF IndInv
    <3>5. RowsInv' /\ SavesAreWhole'
      BY <3>1, <3>2, RowsKept DEF IndInv
    <3>6. AccountInv' /\ FilesInv'
      BY <2>1, <3>1, <3>2, AccountPaged, FilesKept DEF IndInv
    <3>7. CardsInv' /\ PushesStayWhole'
      BY <3>1, CardsKept DEF IndInv
    <3> QED BY <3>4, <3>5, <3>6, <3>7 DEF IndInv
  <2> QED BY <1>2, <2>2, <2>3 DEF FetchProductsPage
<1> QED BY <1>1, <1>2 DEF SyncStep

\* Of the requests behind a command's start, none touches the database.
LEMMA PageShares ==
  ASSUME SharedInv, NEW p, Unanswered(p) \/ \E l : Answer(p, l)
  PROVE  writer' = writer /\ table' = table /\ lost' \in 0..MaxLost
BY UnansweredShares DEF SharedInv, Answer, storeVars

LEMMA ThreadStepKeeps ==
  ASSUME IndInv, NEW p \in Procs, ThreadStep(p), UNCHANGED <<accountVars, dir, cards>>
  PROVE  IndInv'
<1>0. JobsInv /\ SharedInv /\ lost \in 0..MaxLost
  BY DEF IndInv, SharedInv
<1>1. CASE StartReviews(p) \/ StartQuestions(p)
  <2>1. PICK kind \in Kinds : StartThread(p, kind)
    BY <1>1 DEF StartReviews, StartQuestions, Kinds
  <2>2. PICK k : Becomes(p, k) /\ Good(k) /\ Quiet(job[p], k) /\ job[p].pc = "idle"
    BY <1>0, <2>1, StartThreadStep
  <2>3. writer' = writer /\ table' = table /\ lost' = lost
    BY <2>1 DEF StartThread, StartJob, storeVars
  <2>4. LockFollows(p, k)
    BY <1>0, <2>2, <2>3, LockElsewhere
  <2> QED BY <2>2, <2>3, <2>4, QuietStep
<1>2. CASE ResolveProduct(p)
  <2>1. PICK k : Becomes(p, k) /\ Good(k) /\ Quiet(job[p], k) /\ job[p].pc = "resolving"
    BY <1>0, <1>2, ReadPageStep DEF ResolveProduct
  <2>2. writer' = writer /\ table' = table /\ lost' \in 0..MaxLost
    BY <1>0, <1>2, PageShares DEF ResolveProduct, ReadProductPage
  <2>3. LockFollows(p, k)
    BY <1>0, <2>1, <2>2, LockElsewhere
  <2> QED BY <2>1, <2>2, <2>3, QuietStep
<1>3. CASE CrawlPage(p)
  <2>1. PICK k : Becomes(p, k) /\ Good(k) /\ Quiet(job[p], k) /\ job[p].pc = "crawling"
    BY <1>0, <1>3, CrawlPageStep
  <2>2. writer' = writer /\ table' = table /\ lost' \in 0..MaxLost
    BY <1>0, <1>3, PageShares DEF CrawlPage
  <2>3. LockFollows(p, k)
    BY <1>0, <2>1, <2>2, LockElsewhere
  <2> QED BY <2>1, <2>2, <2>3, QuietStep
<1> QED BY <1>1, <1>2, <1>3 DEF ThreadStep

\* What a step at the files keeps apart from them.
LEMMA FilesStep ==
  ASSUME IndInv, NEW p \in Procs, NEW k, Becomes(p, k), Good(k), job[p].pc # "saving",
         KeepsRows(job[p], k), KeepsAccount(job[p], k), KeepsCards(job[p], k), FilesInv',
         UNCHANGED <<storeVars, lost, accountVars, cards>>
  PROVE  IndInv'
<1>1. writer' = writer /\ table' = table /\ lost' = lost
  BY DEF storeVars
<1>2. LockFollows(p, k)
  BY <1>1, LockElsewhere DEF IndInv, SharedInv
<1>3. JobsInv' /\ SharedInv'
  BY <1>2, JobsKept, SharedKept DEF IndInv
<1>4. RowsInv' /\ SavesAreWhole'
  BY <1>1, RowsKept DEF IndInv
<1>5. AccountInv'
  BY AccountKept DEF IndInv
<1>6. CardsInv' /\ PushesStayWhole'
  BY CardsKept DEF IndInv
<1> QED BY <1>3, <1>4, <1>5, <1>6 DEF IndInv

LEMMA ScrapeStepKeeps ==
  ASSUME IndInv, NEW p \in Procs, ScrapeStep(p), UNCHANGED <<accountVars, cards>>
  PROVE  IndInv'
<1> DEFINE j == job[p]
<1>0. JobsInv /\ SharedInv /\ FilesInv /\ lost \in 0..MaxLost /\ Good(j)
  BY DEF IndInv, SharedInv, JobsInv
<1>1. CASE StartScrape(p)
  <2>1. PICK k : Becomes(p, k) /\ Good(k) /\ Quiet(job[p], k) /\ job[p].pc = "idle"
    BY <1>0, <1>1, StartScrapeStep
  <2>2. writer' = writer /\ table' = table /\ lost' = lost /\ dir' = dir
    BY <1>1 DEF StartScrape, StartJob, storeVars
  <2>3. LockFollows(p, k)
    BY <1>0, <2>1, <2>2, LockElsewhere
  <2> QED BY <2>1, <2>2, <2>3, QuietStep
<1>2. CASE FetchProductDeal(p)
  <2>1. PICK k : Becomes(p, k) /\ Good(k) /\ Quiet(job[p], k) /\ job[p].pc = "resolving"
    BY <1>0, <1>2, ReadPageStep DEF FetchProductDeal
  <2>2. writer' = writer /\ table' = table /\ lost' \in 0..MaxLost /\ dir' = dir
    BY <1>0, <1>2, PageShares DEF FetchProductDeal, ReadProductPage
  <2>3. LockFollows(p, k)
    BY <1>0, <2>1, <2>2, LockElsewhere
  <2> QED BY <2>1, <2>2, <2>3, QuietStep
<1>3. CASE CreateFile(p)
  <2> DEFINE k == [j EXCEPT !.pc = "filling"]
  <2>1. Becomes(p, k) /\ j.pc = "writing" /\ UNCHANGED <<storeVars, lost>>
    BY <1>3 DEF CreateFile, Becomes
  <2>2. /\ Good(k) /\ KeepsRows(j, k) /\ KeepsAccount(j, k) /\ KeepsCards(j, k)
        /\ k.cmd = "scrape" /\ k.pc = "filling" /\ k.at = j.at /\ j.at \in 1..8
    BY <1>0, <2>1, CreateIs
  <2> HIDE DEF k
  <2>3. FilesInv'
    BY <1>0, <1>3, <2>1, <2>2, FilesCreated DEF CreateFile
  <2> QED BY <2>1, <2>2, <2>3, FilesStep
<1>4. CASE FillFile(p)
  <2> DEFINE k == FileDone(j)
  <2>1. Becomes(p, k) /\ j.pc = "filling" /\ UNCHANGED <<storeVars, lost>>
    BY <1>4 DEF FillFile, Becomes
  <2> HIDE DEF k
  <2>2. /\ Good(k) /\ KeepsRows(j, k) /\ KeepsAccount(j, k) /\ KeepsCards(j, k)
        /\ k.cmd = "scrape" /\ j.at \in 1..8
        /\ \/ j.at < 8 /\ k.pc = "writing" /\ k.at = j.at + 1
           \/ j.at = 8 /\ k.pc \in {"saving", "done"}
    BY <1>0, <2>1, FileDoneIs DEF k
  <2>3. j.cmd = "scrape"
    BY <1>0, <2>1 DEF Good, Placed
  <2>4. FilesInv'
    BY <1>0, <1>4, <2>1, <2>2, <2>3, FilesFilled DEF FillFile
  <2> QED BY <2>1, <2>2, <2>4, FilesStep
<1>5. CASE FileFails(p)
  <2> DEFINE k == IF j.at < Len(Files) THEN Failed(j, "disk") ELSE FileDone(j)
  <2>1. Becomes(p, k) /\ j.pc \in {"writing", "filling"} /\ UNCHANGED <<storeVars, lost, dir>>
    BY <1>5 DEF FileFails, Becomes
  <2>2. writer' = writer /\ table' = table /\ lost' = lost /\ dir' = dir
    BY <2>1 DEF storeVars
  <2>3. Good(k) /\ Quiet(j, k)
    <3>1. CASE j.at < Len(Files)
      <4>1. k = Failed(j, "disk")
        BY <3>1
      <4> HIDE DEF k
      <4> QED BY <1>0, <2>1, <4>1, FileFailedIs
    <3>2. CASE ~(j.at < Len(Files))
      <4>1. k = FileDone(j)
        BY <3>2
      <4> HIDE DEF k
      <4>2. /\ Good(k) /\ KeepsRows(j, k) /\ KeepsAccount(j, k) /\ KeepsCards(j, k)
            /\ k.cmd = "scrape" /\ j.at \in 1..8
            /\ \/ j.at < 8 /\ k.pc = "writing" /\ k.at = j.at + 1
               \/ j.at = 8 /\ k.pc \in {"saving", "done"}
        BY <1>0, <2>1, <4>1, FileDoneIs
      <4>3. k.pc \in {"saving", "done"}
        BY <3>2, <4>2, FilesFacts
      <4>4. KeepsFiles(j, k)
        BY <4>2, <4>3 DEF KeepsFiles, Reached
      <4> QED BY <4>2, <4>4 DEF Quiet
    <3> QED BY <3>1, <3>2
  <2> HIDE DEF k
  <2>4. LockFollows(p, k)
    BY <1>0, <2>1, <2>2, LockElsewhere
  <2> QED BY <2>1, <2>2, <2>3, <2>4, QuietStep
<1> QED BY <1>1, <1>2, <1>3, <1>4, <1>5 DEF ScrapeStep

LEMMA PushStepKeeps ==
  ASSUME IndInv, NEW p \in Procs, PushStep(p), UNCHANGED <<accountVars, dir>>
  PROVE  IndInv'
<1> DEFINE j == job[p]
<1>0. JobsInv /\ SharedInv /\ lost \in 0..MaxLost /\ Good(j)
  BY DEF IndInv, SharedInv, JobsInv
<1>1. CASE StartPush(p)
  <2>1. PICK k : Becomes(p, k) /\ Good(k) /\ Quiet(job[p], k) /\ job[p].pc = "idle"
    BY <1>0, <1>1, StartPushStep
  <2>2. writer' = writer /\ table' = table /\ lost' = lost /\ cards' = cards
    BY <1>1 DEF StartPush, StartJob, storeVars
  <2>3. LockFollows(p, k)
    BY <1>0, <2>1, <2>2, LockElsewhere
  <2> QED BY <2>1, <2>2, <2>3, QuietStep
<1>2. CASE PushChunk(p)
  <2>1. PICK k \in {NextChunk(j), Failed(j, "refused")} :
          /\ Becomes(p, k)
          /\ cards' = Appended(p) \/ (cards' = cards /\ k = Failed(j, "refused"))
    BY <1>2 DEF PushChunk, Becomes
  <2>2. j.cmd = "push" /\ j.pc = "pushing" /\ UNCHANGED <<storeVars, lost>>
    BY <1>2 DEF PushChunk, In
  <2>3. /\ Good(k) /\ KeepsRows(j, k) /\ KeepsAccount(j, k) /\ KeepsFiles(j, k)
        /\ k.cmd = "push" /\ j.at \in 1..j.blocks /\ k.blocks = j.blocks /\ j.blocks \in Nat
        /\ \/ k.pc = "pushing" /\ k.at = j.at + Chunk /\ k.at <= j.blocks
           \/ k.pc = "done" /\ j.at + Chunk > j.blocks
           \/ k.pc = "failed"
    BY <1>0, <2>2, PushedIs
  <2>4. writer' = writer /\ table' = table /\ lost' = lost
    BY <2>2 DEF storeVars
  <2>5. LockFollows(p, k)
    BY <1>0, <2>2, <2>4, LockElsewhere
  <2>6. CASE cards' = Appended(p)
    <3>1. CardsInv' /\ PushesStayWhole'
      BY <1>0, <2>1, <2>2, <2>3, <2>6, CardsPushed DEF IndInv
    <3>2. JobsInv' /\ SharedInv'
      BY <2>1, <2>3, <2>5, JobsKept, SharedKept DEF IndInv
    <3>3. RowsInv' /\ SavesAreWhole'
      BY <2>1, <2>3, <2>4, RowsKept DEF IndInv
    <3>4. AccountInv' /\ FilesInv'
      BY <2>1, <2>3, AccountKept, FilesKept DEF IndInv
    <3> QED BY <3>1, <3>2, <3>3, <3>4 DEF IndInv
  <2>7. CASE cards' = cards /\ k = Failed(j, "refused")
    <3>1. IsOver(k, j, "failed", j.streak, "refused")
      BY <2>7, FailedIs
    <3>2. KeepsCards(j, k)
      BY <2>2, <3>1 DEF KeepsCards, IsOver
    <3> QED BY <2>1, <2>3, <2>4, <2>5, <2>7, <3>2, QuietStep DEF Quiet
  <2> QED BY <2>1, <2>6, <2>7
<1> QED BY <1>1, <1>2 DEF PushStep

LEMMA SaveStepKeeps ==
  ASSUME IndInv, NEW p \in Procs, SaveStep(p), UNCHANGED <<accountVars, dir, cards>>
  PROVE  IndInv'
<1> DEFINE j == job[p]
<1>0. JobsInv /\ SharedInv /\ lost \in 0..MaxLost /\ writer \in Procs \cup {None} /\ p # None
  BY JobsAssumption DEF IndInv, SharedInv
<1>1. CASE Insert(p)
  <2>1. PICK k : /\ Becomes(p, k) /\ Good(k) /\ Quiet(job[p], k) /\ k.pc = "saving"
                 /\ writer' = p /\ table' = table
    BY <1>0, <1>1, InsertStep
  <2>2. lost' = lost
    BY <1>1 DEF Insert
  <2>3. LockFollows(p, k)
    BY <1>0, <2>1, <2>2 DEF LockFollows
  <2> QED BY <2>1, <2>3, QuietStep
<1>2. CASE Commit(p)
  <2> DEFINE k == Saved(j)
  <2>1. /\ Becomes(p, k) /\ j.pc = "saving" /\ table' = Upserted(Batch(j), p)
        /\ writer' = (IF writer = p THEN None ELSE writer) /\ lost' = lost
    BY <1>2 DEF Commit, Becomes
  <2>2. /\ Good(k) /\ KeepsAccount(j, k) /\ KeepsFiles(j, k) /\ KeepsCards(j, k)
    <3>1. Good(j)
      BY <1>0 DEF JobsInv
    <3> QED BY <2>1, <3>1, SavedIs
  <2> HIDE DEF k
  <2>3. LockFollows(p, k)
    BY <1>0, <2>1 DEF LockFollows
  <2>4. JobsInv' /\ SharedInv'
    BY <2>1, <2>2, <2>3, JobsKept, SharedKept DEF IndInv
  <2>5. RowsInv' /\ SavesAreWhole'
    BY <2>1, RowsCommitted DEF IndInv, k
  <2>6. AccountInv' /\ FilesInv'
    BY <2>1, <2>2, AccountKept, FilesKept DEF IndInv
  <2>7. CardsInv' /\ PushesStayWhole'
    BY <2>1, <2>2, CardsKept DEF IndInv
  <2> QED BY <2>4, <2>5, <2>6, <2>7 DEF IndInv
<1>3. CASE Locked(p)
  <2>1. PICK k : Becomes(p, k) /\ Good(k) /\ Quiet(job[p], k)
    BY <1>0, <1>3, LockedStep
  <2>2. writer' = writer /\ table' = table /\ lost' = lost /\ writer # p
    BY <1>3 DEF Locked, storeVars
  <2>3. LockFollows(p, k)
    BY <1>0, <2>2 DEF LockFollows
  <2> QED BY <2>1, <2>2, <2>3, QuietStep
<1> QED BY <1>1, <1>2, <1>3 DEF SaveStep

LEMMA KillKeeps ==
  ASSUME IndInv, NEW p \in Procs, Kill(p), UNCHANGED <<accountVars, dir, cards>>
  PROVE  IndInv'
<1>0. JobsInv /\ SharedInv /\ lost \in 0..MaxLost /\ writer \in Procs \cup {None} /\ p # None
  BY JobsAssumption DEF IndInv, SharedInv
<1>1. PICK k : Becomes(p, k) /\ Good(k) /\ Quiet(job[p], k)
  BY <1>0, KillStep
<1>2. table' = table /\ lost' = lost /\ writer' = IF writer = p THEN None ELSE writer
  BY DEF Kill
<1>3. LockFollows(p, k)
  BY <1>0, <1>2 DEF LockFollows
<1> QED BY <1>1, <1>2, <1>3, QuietStep

\* While no command steps, nothing but the account moves.
LEMMA AccountStepKeeps ==
  ASSUME IndInv, Buy \/ Refund, UNCHANGED <<dir, cards>>
  PROVE  IndInv'
<1>1. job' = job /\ writer' = writer /\ table' = table /\ lost' = lost
  BY DEF Buy, Refund, storeVars
<1>2. AccountInv'
  BY AccountBought, AccountRefunded DEF IndInv
<1>3. JobsInv' /\ SharedInv'
  BY <1>1 DEF IndInv, JobsInv, SharedInv
<1>4. RowsInv' /\ SavesAreWhole'
  BY <1>1 DEF IndInv, RowsInv, SavesAreWhole, Stored
<1>5. FilesInv'
  BY <1>1 DEF IndInv, FilesInv, InOrder, DossierSealsArchive, MidFiles
<1>6. CardsInv' /\ PushesStayWhole'
  BY <1>1 DEF IndInv, CardsInv, PushesStayWhole, Runs
<1> QED BY <1>2, <1>3, <1>4, <1>5, <1>6 DEF IndInv

LEMMA InitGood == Init => IndInv
<1> SUFFICES ASSUME Init PROVE IndInv
  OBVIOUS
<1>1. \A p \in Procs : job[p] = Idle
  BY DEF Init
<1>2. /\ Idle.cmd = "none" /\ Idle.pc = "idle" /\ Idle.at = 1 /\ Idle.blocks = 0
  BY DEF Idle
<1>3. JobsInv /\ SharedInv
  BY <1>1, IdleGood, JobsAssumption DEF Init, JobsInv, SharedInv
<1>4. RowsInv /\ SavesAreWhole
  BY <1>1, <1>2 DEF Init, RowsInv, SavesAreWhole
<1>5. AccountInv
  <2>1. account \in Seq(1..Products)
    <3>1. \A i \in 1..Bought : i \in 1..Products
      BY ProductSyncAssumption
    <3> QED BY <3>1, ProductSyncAssumption DEF Init
  <2>2. moves \in 0..MaxMoves /\ stayed \in [Procs -> SUBSET (1..Products)]
    BY ProductSyncAssumption DEF Init
  <2> QED BY <1>1, <1>2, <2>1, <2>2 DEF AccountInv, In
<1>6. FilesInv
  <2>1. /\ dir \in [DOMAIN NoDir -> [torn : BOOLEAN, of : Procs \cup {None}]]
        /\ \A f \in DOMAIN NoDir : dir[f].of = None
    BY DEF Init, NoDir
  <2>2. \A i \in 1..8 : Files[i] \in DOMAIN NoDir
    BY FilesFacts
  <2>3. InOrder
    BY <1>1, <1>2, <2>1, <2>2, FilesFacts, JobsAssumption DEF InOrder, MidFiles
  <2>4. DossierSealsArchive
    <3>1. 7 \in 1..8
      OBVIOUS
    <3> QED BY <2>1, <2>2, <3>1, FilesFacts DEF DossierSealsArchive
  <2> QED BY <2>1, <2>3, <2>4 DEF FilesInv
<1>7. CardsInv /\ PushesStayWhole
  BY <1>1, <1>2 DEF Init, CardsInv, PushesStayWhole, Runs
<1> QED BY <1>3, <1>4, <1>5, <1>6, <1>7 DEF IndInv

LEMMA NextKeeps == IndInv /\ [Next]_vars => IndInv'
<1> SUFFICES ASSUME IndInv, [Next]_vars PROVE IndInv'
  OBVIOUS
<1>1. ASSUME NEW p \in Procs, SyncStep(p), UNCHANGED <<dir, cards>> PROVE IndInv'
  BY <1>1, SyncStepKeeps
<1>2. ASSUME NEW p \in Procs, ThreadStep(p), UNCHANGED <<accountVars, dir, cards>> PROVE IndInv'
  BY <1>2, ThreadStepKeeps
<1>3. ASSUME NEW p \in Procs, ScrapeStep(p), UNCHANGED <<accountVars, cards>> PROVE IndInv'
  BY <1>3, ScrapeStepKeeps
<1>4. ASSUME NEW p \in Procs, PushStep(p), UNCHANGED <<accountVars, dir>> PROVE IndInv'
  BY <1>4, PushStepKeeps
<1>5. ASSUME NEW p \in Procs, SaveStep(p), UNCHANGED <<accountVars, dir, cards>> PROVE IndInv'
  BY <1>5, SaveStepKeeps
<1>6. ASSUME NEW p \in Procs, Kill(p), UNCHANGED <<accountVars, dir, cards>> PROVE IndInv'
  BY <1>6, KillKeeps
<1>7. CASE (Buy \/ Refund) /\ UNCHANGED <<dir, cards>>
  BY <1>7, AccountStepKeeps
<1>8. CASE UNCHANGED vars
  <2>1. UNCHANGED <<job, writer, table, lost, account, moves, stayed, dir, cards>>
    BY <1>8 DEF vars
  <2>2. JobsInv' /\ SharedInv' /\ RowsInv' /\ SavesAreWhole'
    BY <2>1 DEF IndInv, JobsInv, SharedInv, RowsInv, SavesAreWhole, Stored
  <2>3. AccountInv' /\ FilesInv'
    BY <2>1
    DEF IndInv, AccountInv, In, FilesInv, InOrder, DossierSealsArchive, MidFiles
  <2>4. CardsInv' /\ PushesStayWhole'
    <3>1. job' = job /\ cards' = cards
      BY <2>1
    <3>2. \A p : Runs(p)' = Runs(p)
      BY <3>1 DEF Runs
    <3>3. CardsInv'
      BY <3>1, <3>2 DEF IndInv, CardsInv
    <3>4. PushesStayWhole'
      BY <3>1, <3>2 DEF IndInv, PushesStayWhole
    <3> QED BY <3>3, <3>4
  <2> QED BY <2>2, <2>3, <2>4 DEF IndInv
<1> QED BY <1>1, <1>2, <1>3, <1>4, <1>5, <1>6, <1>7, <1>8 DEF Next

------------------------------------------------------------------------------
(* The theorems. *)

\* Every reachable state of a machine satisfies the inductive invariant.
THEOREM Inductive == Spec => []IndInv
BY InitGood, NextKeeps, PTL DEF Spec

\* The commands' states are well formed: no page beyond the cap of
\* FetchAllProducts, no file beyond SaveToDirectory's eight, no lock outside a save.
THEOREM TypeCorrect == Spec => []TypeOK
<1>1. ASSUME NEW j, Good(j)
      PROVE  /\ j.cmd \in {"none", "sync", "thread", "scrape", "push"}
             /\ j.pc \in Over \cup {"idle", "asking", "resolving", "crawling", "writing",
                                    "filling", "saving", "pushing"}
             /\ j.tries \in 0..Attempts /\ j.streak \in 0..Attempts
             /\ j.got \subseteq Rows /\ j.todo \subseteq j.got
             /\ j.cmd = "sync" => j.at \in 1..MaxPages
             /\ j.cmd = "scrape" => j.at \in 1..Len(Files)
  <2>1. Typed(j) /\ Placed(j) /\ OneKind(j) /\ Counted(j)
    BY <1>1 DEF Good
  <2>2. Attempts \in Nat /\ MaxPages \in Nat \ {0} /\ j.at \in Nat /\ j.tries \in Nat
        /\ j.streak \in Nat /\ Len(j.kinds) \in Nat
    BY <2>1, JobsAssumption, ProductSyncAssumption, LenProperties DEF Typed
  <2>3. j.cmd \in Commands /\ j.pc \in Phases
    BY <2>1 DEF Typed
  <2>4. j.tries \in 0..Attempts /\ j.streak \in 0..Attempts
    BY <2>1, <2>2 DEF Counted
  <2>5. j.got \subseteq Rows /\ j.todo \subseteq j.got
    BY <2>1 DEF Typed, Placed, Batch, OfKind
  <2>6. ASSUME j.cmd = "sync" PROVE j.at \in 1..MaxPages
    <3>1. j.pc \in {"asking", "saving"} \cup Over
      BY <2>1, <2>3, <2>6 DEF Placed, Phases, Requesting
    <3>2. CASE j.pc = "saving"
      <4>1. Len(j.kinds) = 1 /\ j.at \in 1..Len(j.kinds)
        BY <2>1, <2>6, <3>2 DEF OneKind, Placed, Over
      <4> QED BY <2>2, <4>1
    <3> QED BY <2>1, <2>2, <3>1, <3>2 DEF Placed
  <2>7. ASSUME j.cmd = "scrape" PROVE j.at \in 1..Len(Files)
    <3>1. j.pc \in {"resolving", "crawling", "writing", "filling", "saving"} \cup Over
      BY <2>1, <2>3, <2>7 DEF Placed, Phases, Requesting
    <3>2. CASE j.pc \in {"crawling", "saving"}
      <4>1. j.at \in 1..Len(j.kinds) /\ Len(j.kinds) <= 2
        BY <2>1, <2>7, <3>2 DEF Placed
      <4> QED BY <2>2, <4>1, FilesFacts
    <3>3. CASE j.pc \in {"resolving"} \cup Over
      <4>1. j.at = 1
        BY <2>1, <3>3 DEF Placed
      <4> QED BY <4>1, FilesFacts
    <3>4. CASE j.pc \in {"writing", "filling"}
      BY <2>1, <3>4 DEF Placed
    <3> QED BY <3>1, <3>2, <3>3, <3>4
  <2> QED BY <2>3, <2>4, <2>5, <2>6, <2>7 DEF Commands, Phases, Requesting
<1>2. ASSUME IndInv PROVE TypeOK
  <2>1. \A p \in Procs : Good(job[p])
    BY <1>2 DEF IndInv, JobsInv
  <2>2. writer = None \/ job[writer].pc = "saving"
    BY <1>2 DEF IndInv, SharedInv
  <2>3. \A t \in table : t.row \in Rows /\ t.by \in Procs
    BY <1>2 DEF IndInv, RowsInv
  <2>4. DOMAIN dir = DOMAIN NoDir
    BY <1>2 DEF IndInv, FilesInv
  <2>5. moves \in 0..MaxMoves /\ lost \in 0..MaxLost
    BY <1>2 DEF IndInv, SharedInv, AccountInv
  <2> QED BY <1>1, <2>1, <2>2, <2>3, <2>4, <2>5 DEF TypeOK
<1> QED BY <1>2, Inductive, PTL

\* A `sync` that succeeds has stored every product the account held at its start
\* and kept: nothing slips between two pages while products are bought, whatever
\* runs beside it.  Any page size, any cap, any number of purchases and refunds.
THEOREM SyncIsComplete == Spec => []SyncHoldsAccount
<1>1. ASSUME IndInv PROVE SyncHoldsAccount
  <2>1. ASSUME NEW p \in Procs, In(p, "sync", "done")
        PROVE  {ProductRow(x) : x \in stayed[p]} \subseteq Stored
    <3>1. job[p].cmd = "sync" /\ job[p].pc = "done"
      BY <2>1 DEF In
    <3>2. \A x \in stayed[p] : ProductRow(x) \in job[p].got
      BY <1>1, <3>1 DEF IndInv, AccountInv
    <3>3. job[p].got \subseteq Stored
      BY <1>1, <3>1 DEF IndInv, SavesAreWhole
    <3> QED BY <3>2, <3>3
  <2> QED BY <2>1 DEF SyncHoldsAccount
<1> QED BY <1>1, Inductive, PTL

\* A request is given up for want of an answer after Attempts losses in a row,
\* neither sooner nor later, however many requests a command makes.
THEOREM AttemptsAreCounted == Spec => []ThreeAttempts
<1>1. ASSUME IndInv PROVE ThreeAttempts
  <2>1. ASSUME NEW p \in Procs PROVE job[p].why = "lost" <=> job[p].streak = Attempts
    <3>1. Counted(job[p]) /\ job[p].streak \in Nat /\ Attempts \in Nat
      BY <1>1, JobsAssumption DEF IndInv, JobsInv, Good, Typed
    <3> QED BY <3>1 DEF Counted
  <2> QED BY <2>1 DEF ThreeAttempts
<1> QED BY <1>1, Inductive, PTL

\* saveComments and UpsertProducts are all or nothing under any overlap of
\* commands and any kill.
THEOREM SavesAreAtomic == Spec => []SavesAreWhole
<1>1. IndInv => SavesAreWhole
  BY DEF IndInv
<1> QED BY <1>1, Inductive, PTL

\* A whole dossier of the scrape that wrote deal.json vouches for the archive,
\* however many scrapes and crashes there were before, one at a time.
THEOREM DossierVouches == Spec => []DossierSealsArchive
<1>1. ASSUME IndInv PROVE DossierSealsArchive
  <2>1. CASE dir # Muddle
    BY <1>1, <2>1 DEF IndInv, FilesInv
  <2>2. CASE dir = Muddle
    <3>1. 7 \in 1..8
      OBVIOUS
    <3>2. "DOSSIER.md" \in DOMAIN NoDir
      BY <3>1, FilesFacts
    <3> QED BY <2>2, <3>2 DEF DossierSealsArchive, Muddle
  <2> QED BY <2>1, <2>2
<1> QED BY <1>1, Inductive, PTL

\* What a push has on the page is a prefix of its blocks without gap or repetition,
\* for any number of pushes at once and any chunk size.
THEOREM PushesAreWhole == Spec => []PushesStayWhole
<1>1. IndInv => PushesStayWhole
  BY DEF IndInv
<1> QED BY <1>1, Inductive, PTL

=============================================================================
