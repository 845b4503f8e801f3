-------------------------- MODULE AdvisorHubProofs --------------------------
(***************************************************************************)
(* Proofs about AdvisorHub for every number of processes, runs, weeks and  *)
(* faults: what the local files and the page's visitors say of a week, and *)
(* that people's text survives.                                            *)
(***************************************************************************)
EXTENDS AdvisorHub, TLAPS

EarlyPhases == {"auditing", "receipt", "state", "marked"}
SyncPhases == {"zoning", "clearing", "archiving", "titling"}

\* A run up to the moment it reads the page.
EarlyRuns == [phase : EarlyPhases, n : 1..MaxRuns, week : 1..MaxWeeks, forced : BOOLEAN]

\* Of a run that has read the page only its phase matters.
IsSync(r) == "phase" \in DOMAIN r /\ r.phase \in SyncPhases

\* A run is idle, early or late.
RunsTyped ==
  /\ DOMAIN run = Procs
  /\ \A p \in Procs : run[p] = Idle \/ run[p] \in EarlyRuns \/ IsSync(run[p])

Visits == [n : 1..MaxRuns, week : 1..MaxWeeks, forced : BOOLEAN]

FilesTyped ==
  /\ week \in 1..MaxWeeks /\ runs \in 0..MaxRuns
  /\ markers \subseteq 1..MaxWeeks
  /\ receipts \in [1..MaxWeeks -> 0..MaxRuns] /\ state \in 0..MaxRuns
  /\ pushers \subseteq Visits

Typed == RunsTyped /\ FilesTyped

------------------------------------------------------------------------------
(* What steps do to the runs and the files. *)

Elsewhere == UNCHANGED <<week, fileVars, runs, pushers>>

Passes == UNCHANGED <<fileVars, run, runs, pushers>> /\ week' \in {week, week + 1}
            /\ week' <= MaxWeeks

Ends(p) == Underway(p) /\ Becomes(p, Idle) /\ Elsewhere

Syncs(p) ==
  /\ IsSync(run[p])
  /\ \E r : IsSync(r) /\ Becomes(p, r)
  /\ Elsewhere

Reads(p) ==
  /\ run[p].phase = "marked"
  /\ \E r : IsSync(r) /\ Becomes(p, r)
  /\ pushers' = pushers \cup {[n |-> run[p].n, week |-> run[p].week,
                               forced |-> run[p].forced]}
  /\ UNCHANGED <<week, fileVars, runs>>

\* What happened cannot be undone.
LEMMA TroubleStays == [Next]_vars => trouble \subseteq trouble'
<1> SUFFICES ASSUME [Next]_vars PROVE trouble \subseteq trouble'
  OBVIOUS
<1> USE DEF Goes, Disturbs
<1>1. ASSUME NEW p \in Procs, RunStep(p) PROVE trouble \subseteq trouble'
  <2>1. CASE Start(p) BY <2>1 DEF Start
  <2>2. CASE Leave(p) BY <2>2 DEF Leave
  <2>3. CASE WriteReceipt(p) BY <2>3 DEF WriteReceipt
  <2>4. CASE WriteState(p) BY <2>4 DEF WriteState
  <2>5. CASE MarkWeek(p) BY <2>5 DEF MarkWeek
  <2>6. CASE ReadFails(p) BY <2>6 DEF ReadFails
  <2>7. CASE ReadPage(p) BY <2>7 DEF ReadPage
  <2>8. CASE InitZone(p) BY <2>8 DEF InitZone
  <2>9. CASE DeletePrior(p) BY <2>9 DEF DeletePrior
  <2>10. CASE AppendVerdict(p) BY <2>10 DEF AppendVerdict
  <2>11. CASE ArchivePrior(p) BY <2>11 DEF ArchivePrior
  <2>12. CASE SetTitle(p) BY <2>12 DEF SetTitle
  <2>13. CASE Crash(p) BY <2>13 DEF Crash
  <2> QED BY <1>1, <2>1, <2>2, <2>3, <2>4, <2>5, <2>6, <2>7, <2>8, <2>9, <2>10, <2>11,
             <2>12, <2>13 DEF RunStep
<1>2. CASE NewWeek BY <1>2 DEF NewWeek
<1>3. CASE WriteNote BY <1>3 DEF WriteNote
<1>4. CASE Rewrite BY <1>4 DEF Rewrite
<1>5. CASE UNCHANGED vars BY <1>5 DEF vars
<1> QED BY <1>1, <1>2, <1>3, <1>4, <1>5 DEF Next

\* A move of a run that has read the page leaves it such a run.
LEMMA SyncMoves ==
  ASSUME NEW r, IsSync(r), NEW phase \in SyncPhases
  PROVE  IsSync([r EXCEPT !.phase = phase])
BY DEF IsSync

\* A step of a run starts it, writes a file, ends it, works on the page or reads it.
LEMMA RunStepKinds ==
  ASSUME Typed, NEW p \in Procs, RunStep(p)
  PROVE  \/ Start(p) \/ WriteReceipt(p) \/ WriteState(p) \/ MarkWeek(p)
         \/ Ends(p) \/ Syncs(p) \/ Reads(p)
<1>1. run[p] = Idle \/ run[p] \in EarlyRuns \/ IsSync(run[p])
  BY DEF Typed, RunsTyped
<1>2. run[p] \in EarlyRuns => run[p].phase \in EarlyPhases
  BY DEF EarlyRuns
<1>3. run[p].phase \in SyncPhases => IsSync(run[p])
  BY <1>1, <1>2 DEF Idle, EarlyPhases, SyncPhases
<1>4. ASSUME NEW phase \in SyncPhases, IsSync(run[p]), MovesTo(p, phase), Elsewhere
      PROVE  Syncs(p)
  <2>1. Becomes(p, [run[p] EXCEPT !.phase = phase])
    BY <1>4 DEF MovesTo, Becomes, Typed, RunsTyped
  <2>2. IsSync([run[p] EXCEPT !.phase = phase])
    BY <1>4, SyncMoves
  <2> QED BY <1>4, <2>1, <2>2 DEF Syncs
<1>5. CASE Leave(p)
  BY <1>5 DEF Leave, Ends, Underway, Elsewhere
<1>6. CASE ReadFails(p)
  BY <1>6 DEF ReadFails, Ends, Underway, Elsewhere
<1>7. CASE SetTitle(p)
  BY <1>7 DEF SetTitle, Ends, Underway, Elsewhere
<1>8. CASE Crash(p)
  BY <1>8 DEF Crash, Ends, Underway, Elsewhere
<1>9. CASE ReadPage(p)
  <2> DEFINE r == [phase   |-> IF HasZone THEN "clearing" ELSE "zoning",
                   n       |-> run[p].n,
                   archive |-> HasArchive,
                   doomed  |-> {b.id : b \in AgentBlocks},
                   prior   |-> Prior]
  <2>1. IsSync(r)
    BY DEF IsSync, SyncPhases
  <2>2. Becomes(p, r)
    BY <1>9 DEF ReadPage
  <2> HIDE DEF r
  <2> QED BY <1>9, <2>1, <2>2 DEF ReadPage, Reads
<1>10. CASE InitZone(p)
  <2>1. IsSync(run[p]) /\ MovesTo(p, "clearing") /\ Elsewhere
    BY <1>10, <1>3 DEF InitZone, SyncPhases, Elsewhere
  <2> QED BY <2>1, <1>4 DEF SyncPhases
<1>11. CASE DeletePrior(p)
  <2>1. IsSync(run[p]) /\ Elsewhere
    BY <1>11, <1>3 DEF DeletePrior, SyncPhases, Elsewhere
  <2>2. PICK id \in run[p].doomed : run' = [run EXCEPT ![p].doomed = @ \ {id}]
    BY <1>11 DEF DeletePrior
  <2> DEFINE r == [run[p] EXCEPT !.doomed = @ \ {id}]
  <2>3. IsSync(r)
    BY <2>1 DEF IsSync
  <2>4. Becomes(p, r)
    BY <2>2 DEF Becomes, Typed, RunsTyped
  <2> HIDE DEF r
  <2> QED BY <2>1, <2>3, <2>4 DEF Syncs
<1>12. CASE AppendVerdict(p)
  <2>1. IsSync(run[p]) /\ MovesTo(p, AfterVerdict(p)) /\ Elsewhere
    BY <1>12, <1>3 DEF AppendVerdict, SyncPhases, Elsewhere
  <2>2. AfterVerdict(p) \in SyncPhases
    BY DEF AfterVerdict, SyncPhases
  <2> QED BY <2>1, <2>2, <1>4
<1>13. CASE ArchivePrior(p)
  <2>1. IsSync(run[p]) /\ MovesTo(p, "titling") /\ Elsewhere
    BY <1>13, <1>3 DEF ArchivePrior, SyncPhases, Elsewhere
  <2> QED BY <2>1, <1>4 DEF SyncPhases
<1> QED BY <1>5, <1>6, <1>7, <1>8, <1>9, <1>10, <1>11, <1>12, <1>13 DEF RunStep

\* Every other step leaves runs and files as they are.
LEMMA WorldPasses ==
  ASSUME Typed, NewWeek \/ WriteNote \/ Rewrite \/ UNCHANGED vars
  PROVE  Passes
<1>1. MaxWeeks \in Nat /\ week \in 1..MaxWeeks
  BY HubBounds DEF Typed, FilesTyped
<1>2. CASE NewWeek BY <1>1, <1>2 DEF NewWeek, Passes
<1>3. CASE WriteNote BY <1>1, <1>3 DEF WriteNote, Passes
<1>4. CASE Rewrite BY <1>1, <1>4 DEF Rewrite, Passes
<1>5. CASE UNCHANGED vars BY <1>1, <1>5 DEF vars, Passes, fileVars
<1> QED BY <1>2, <1>3, <1>4, <1>5

------------------------------------------------------------------------------
(* Types. *)

LEMMA TypedInit == Init => Typed
<1> SUFFICES ASSUME Init PROVE Typed
  OBVIOUS
<1>1. MaxRuns \in Nat /\ MaxWeeks \in Nat \ {0}
  BY HubBounds
<1>2. RunsTyped
  BY DEF Init, RunsTyped
<1>3. FilesTyped
  BY <1>1 DEF Init, FilesTyped
<1> QED BY <1>2, <1>3 DEF Typed

\* The fields of an early run.
LEMMA EarlyFields ==
  ASSUME Typed, NEW p \in Procs, run[p].phase \in EarlyPhases
  PROVE  /\ run[p] \in EarlyRuns
         /\ run[p].n \in 1..MaxRuns /\ run[p].week \in 1..MaxWeeks /\ run[p].forced \in BOOLEAN
<1>1. run[p] \in EarlyRuns
  BY DEF Typed, RunsTyped, IsSync, SyncPhases, EarlyPhases, Idle
<1> QED BY <1>1 DEF EarlyRuns

\* An early run that moves keeps what it is.
LEMMA EarlyMoves ==
  ASSUME Typed, NEW p \in Procs, run[p].phase \in EarlyPhases,
         NEW phase \in EarlyPhases, MovesTo(p, phase)
  PROVE  /\ run' = [run EXCEPT ![p] = run'[p]]
         /\ run'[p] \in EarlyRuns
         /\ run'[p] = [phase |-> phase, n |-> run[p].n, week |-> run[p].week,
                       forced |-> run[p].forced]
<1>1. run[p] \in EarlyRuns
  BY EarlyFields
<1>2. run' = [run EXCEPT ![p] = [run[p] EXCEPT !.phase = phase]]
  BY DEF MovesTo
<1>3. p \in DOMAIN run
  BY DEF Typed, RunsTyped
<1>4. run'[p] = [run[p] EXCEPT !.phase = phase]
  BY <1>2, <1>3
<1>5. [run[p] EXCEPT !.phase = phase] =
        [phase |-> phase, n |-> run[p].n, week |-> run[p].week, forced |-> run[p].forced]
  BY <1>1 DEF EarlyRuns
<1>6. run[p].n \in 1..MaxRuns /\ run[p].week \in 1..MaxWeeks /\ run[p].forced \in BOOLEAN
  BY EarlyFields
<1>7. run'[p] \in EarlyRuns
  BY <1>4, <1>5, <1>6 DEF EarlyRuns
<1> QED BY <1>2, <1>4, <1>5, <1>7

\* A run that becomes one of the three kinds keeps the runs typed.
LEMMA BecomesTyped ==
  ASSUME RunsTyped, NEW p \in Procs, NEW r, Becomes(p, r),
         r = Idle \/ r \in EarlyRuns \/ IsSync(r)
  PROVE  RunsTyped'
<1>1. DOMAIN run' = Procs /\ run'[p] = r /\ \A q \in Procs \ {p} : run'[q] = run[q]
  BY DEF Becomes, RunsTyped
<1>2. ASSUME NEW q \in Procs
      PROVE  run'[q] = Idle \/ run'[q] \in EarlyRuns \/ IsSync(run'[q])
  <2>1. CASE q = p BY <1>1, <2>1
  <2>2. CASE q # p BY <1>1, <2>2 DEF RunsTyped
  <2> QED BY <2>1, <2>2
<1> QED BY <1>1, <1>2 DEF RunsTyped

LEMMA TypedStep ==
  ASSUME Typed, NEW p \in Procs,
         \/ Start(p) \/ WriteReceipt(p) \/ WriteState(p) \/ MarkWeek(p)
         \/ Ends(p) \/ Syncs(p) \/ Reads(p)
  PROVE  Typed'
<1> USE DEF Typed
<1>0. MaxRuns \in Nat /\ MaxWeeks \in Nat
  BY HubBounds
<1>1. CASE Start(p)
  <2> DEFINE r == [phase |-> "auditing", n |-> runs + 1, week |-> week,
                   forced |-> week \in markers]
  <2>1. runs' \in 1..MaxRuns /\ runs' = runs + 1
    BY <1>0, <1>1 DEF Start, FilesTyped
  <2>2. r \in EarlyRuns
    <3>1. (week \in markers) \in BOOLEAN
      OBVIOUS
    <3> QED BY <2>1, <3>1 DEF FilesTyped, EarlyRuns, EarlyPhases
  <2>3. Becomes(p, r)
    BY <1>1 DEF Start
  <2> HIDE DEF r
  <2>4. RunsTyped'
    BY <2>2, <2>3, BecomesTyped
  <2>5. FilesTyped'
    BY <1>0, <1>1, <2>1 DEF Start, fileVars, FilesTyped
  <2> QED BY <2>4, <2>5
<1>2. ASSUME NEW phase \in EarlyPhases, MovesTo(p, phase), run[p].phase \in EarlyPhases
      PROVE  RunsTyped'
  <2>1. Becomes(p, run'[p]) /\ run'[p] \in EarlyRuns
    BY <1>2, EarlyMoves DEF Becomes
  <2> QED BY <2>1, BecomesTyped
<1>3. CASE WriteReceipt(p)
  <2>1. run[p].phase \in EarlyPhases /\ MovesTo(p, "receipt")
    BY <1>3 DEF WriteReceipt, EarlyPhases
  <2>2. RunsTyped'
    BY <2>1, <1>2 DEF EarlyPhases
  <2>3. run[p].n \in 1..MaxRuns
    BY <2>1, EarlyFields
  <2>4. FilesTyped'
    <3>1. run[p].n \in 0..MaxRuns
      BY <1>0, <2>3
    <3>2. receipts' = [receipts EXCEPT ![run[p].week] = run[p].n]
      BY <1>3 DEF WriteReceipt
    <3>3. receipts' \in [1..MaxWeeks -> 0..MaxRuns]
      BY <3>1, <3>2 DEF FilesTyped
    <3> QED BY <1>3, <3>3 DEF WriteReceipt, FilesTyped
  <2> QED BY <2>2, <2>4
<1>4. CASE WriteState(p)
  <2>1. run[p].phase \in EarlyPhases /\ MovesTo(p, "state")
    BY <1>4 DEF WriteState, EarlyPhases
  <2>2. RunsTyped'
    BY <2>1, <1>2 DEF EarlyPhases
  <2>3. run[p].n \in 1..MaxRuns
    BY <2>1, EarlyFields
  <2>4. FilesTyped'
    BY <1>0, <1>4, <2>3 DEF WriteState, FilesTyped
  <2> QED BY <2>2, <2>4
<1>5. CASE MarkWeek(p)
  <2>1. run[p].phase \in EarlyPhases /\ MovesTo(p, "marked")
    BY <1>5 DEF MarkWeek, EarlyPhases
  <2>2. RunsTyped'
    BY <2>1, <1>2 DEF EarlyPhases
  <2>3. run[p].week \in 1..MaxWeeks
    BY <2>1, EarlyFields
  <2>4. FilesTyped'
    BY <1>0, <1>5, <2>3 DEF MarkWeek, FilesTyped
  <2> QED BY <2>2, <2>4
<1>6. CASE Ends(p)
  BY <1>6, BecomesTyped DEF Ends, Elsewhere, fileVars, FilesTyped
<1>7. CASE Syncs(p)
  BY <1>7, BecomesTyped DEF Syncs, Elsewhere, fileVars, FilesTyped
<1>8. CASE Reads(p)
  <2>1. RunsTyped'
    BY <1>8, BecomesTyped DEF Reads
  <2>2. /\ run[p].n \in 1..MaxRuns /\ run[p].week \in 1..MaxWeeks
        /\ run[p].forced \in BOOLEAN
    BY <1>8, EarlyFields DEF Reads, EarlyPhases
  <2>3. pushers' \subseteq Visits
    <3>1. [n |-> run[p].n, week |-> run[p].week, forced |-> run[p].forced] \in Visits
      BY <2>2 DEF Visits
    <3> QED BY <1>8, <3>1 DEF Reads, FilesTyped
  <2>4. FilesTyped'
    BY <1>8, <2>3 DEF Reads, fileVars, FilesTyped
  <2> QED BY <2>1, <2>4
<1> QED BY <1>1, <1>3, <1>4, <1>5, <1>6, <1>7, <1>8

LEMMA TypedPasses ==
  ASSUME Typed, Passes
  PROVE  Typed'
<1>1. MaxWeeks \in Nat
  BY HubBounds
<1> QED BY <1>1 DEF Typed, Passes, RunsTyped, FilesTyped, fileVars

LEMMA TypedNext == Typed /\ [Next]_vars => Typed'
BY RunStepKinds, TypedStep, WorldPasses, TypedPasses DEF Next

------------------------------------------------------------------------------
(* The marker is written last. *)

\* What a run has written before it gets to a phase.
Recorded ==
  \A p \in Procs :
    /\ run[p].phase \in {"receipt", "state", "marked"} => receipts[run[p].week] # 0
    /\ run[p].phase \in {"state", "marked"} => state # 0

RecordsInv == Typed /\ Recorded /\ MarkedMeansRecorded

LEMMA RecordsInit == Init => RecordsInv
<1> SUFFICES ASSUME Init PROVE RecordsInv
  OBVIOUS
<1>1. Recorded
  BY DEF Init, Recorded, Idle
<1>2. MarkedMeansRecorded
  BY DEF Init, MarkedMeansRecorded
<1> QED BY <1>1, <1>2, TypedInit DEF RecordsInv

\* A receipt is replaced, never removed, and a state.json too.
LEMMA RecordsStay ==
  ASSUME Typed, NEW p \in Procs,
         \/ Start(p) \/ WriteReceipt(p) \/ WriteState(p) \/ MarkWeek(p)
         \/ Ends(p) \/ Syncs(p) \/ Reads(p)
  PROVE  /\ \A w \in 1..MaxWeeks : receipts[w] # 0 => receipts'[w] # 0
         /\ state # 0 => state' # 0
<1>1. CASE WriteReceipt(p)
  <2>1. run[p].n # 0
    BY <1>1, EarlyFields, HubBounds DEF WriteReceipt, EarlyPhases
  <2> QED BY <1>1, <2>1 DEF WriteReceipt, Typed, FilesTyped
<1>2. CASE WriteState(p)
  <2>1. run[p].n # 0
    BY <1>2, EarlyFields, HubBounds DEF WriteState, EarlyPhases
  <2> QED BY <1>2, <2>1 DEF WriteState
<1> QED BY <1>1, <1>2 DEF Start, MarkWeek, Ends, Syncs, Reads, Elsewhere, fileVars

LEMMA RecordedStep ==
  ASSUME Typed, Recorded, NEW p \in Procs,
         \/ Start(p) \/ WriteReceipt(p) \/ WriteState(p) \/ MarkWeek(p)
         \/ Ends(p) \/ Syncs(p) \/ Reads(p)
  PROVE  Recorded'
<1> USE DEF EarlyPhases
<1> DEFINE Holds(q) ==
      /\ run[q].phase \in {"receipt", "state", "marked"} => receipts[run[q].week] # 0
      /\ run[q].phase \in {"state", "marked"} => state # 0
<1>1. \A w \in 1..MaxWeeks : receipts[w] # 0 => receipts'[w] # 0
  BY RecordsStay
<1>2. state # 0 => state' # 0
  BY RecordsStay
<1>3. ASSUME NEW q \in Procs, run'[q] = run[q] PROVE Holds(q)'
  <2>1. Holds(q)
    BY DEF Recorded
  <2>2. run[q].phase \in {"receipt", "state", "marked"} => run[q].week \in 1..MaxWeeks
    BY EarlyFields
  <2> QED BY <1>1, <1>2, <1>3, <2>1, <2>2
<1>4. \A q \in Procs \ {p} : run'[q] = run[q]
  BY DEF Start, WriteReceipt, WriteState, MarkWeek, Ends, Syncs, Reads, Becomes, MovesTo,
         Typed, RunsTyped
<1>5. p \in DOMAIN run /\ Holds(p)
  BY DEF Typed, RunsTyped, Recorded
<1>6. Holds(p)'
  <2>1. CASE Start(p)
    <3>1. run'[p].phase = "auditing"
      BY <2>1, <1>5 DEF Start, Becomes
    <3> QED BY <3>1
  <2>2. CASE WriteReceipt(p)
    <3>0. MovesTo(p, "receipt") /\ run[p].phase \in EarlyPhases
      BY <2>2 DEF WriteReceipt
    <3>1. run'[p].phase = "receipt" /\ run'[p].week = run[p].week
      <4>1. run'[p] = [phase |-> "receipt", n |-> run[p].n, week |-> run[p].week,
                       forced |-> run[p].forced]
        BY <3>0, EarlyMoves
      <4> QED BY <4>1
    <3>2. run[p].n # 0 /\ run[p].week \in 1..MaxWeeks
      BY <2>2, EarlyFields, HubBounds DEF WriteReceipt
    <3>3. receipts'[run[p].week] = run[p].n
      BY <2>2, <3>2 DEF WriteReceipt, Typed, FilesTyped
    <3> QED BY <3>1, <3>2, <3>3
  <2>3. CASE WriteState(p)
    <3>0. MovesTo(p, "state") /\ run[p].phase \in EarlyPhases
      BY <2>3 DEF WriteState
    <3>1. run'[p].phase = "state" /\ run'[p].week = run[p].week
      <4>1. run'[p] = [phase |-> "state", n |-> run[p].n, week |-> run[p].week,
                       forced |-> run[p].forced]
        BY <3>0, EarlyMoves
      <4> QED BY <4>1
    <3>2. run[p].n # 0 /\ run[p].week \in 1..MaxWeeks
      BY <2>3, EarlyFields, HubBounds DEF WriteState
    <3>3. state' # 0 /\ receipts' = receipts /\ run[p].phase = "receipt"
      BY <2>3, <3>2 DEF WriteState
    <3> QED BY <1>5, <3>1, <3>3
  <2>4. CASE MarkWeek(p)
    <3>0. MovesTo(p, "marked") /\ run[p].phase \in EarlyPhases
      BY <2>4 DEF MarkWeek
    <3>1. run'[p].phase = "marked" /\ run'[p].week = run[p].week
      <4>1. run'[p] = [phase |-> "marked", n |-> run[p].n, week |-> run[p].week,
                       forced |-> run[p].forced]
        BY <3>0, EarlyMoves
      <4> QED BY <4>1
    <3>2. receipts' = receipts /\ state' = state /\ run[p].phase = "state"
      BY <2>4 DEF MarkWeek
    <3> QED BY <1>5, <3>1, <3>2
  <2>5. CASE Ends(p)
    <3>1. run'[p].phase = "idle"
      BY <2>5, <1>5 DEF Ends, Becomes, Idle
    <3> QED BY <3>1
  <2>6. CASE Syncs(p) \/ Reads(p)
    <3>1. run'[p].phase \in SyncPhases
      BY <2>6, <1>5 DEF Syncs, Reads, Becomes, IsSync
    <3> QED BY <3>1 DEF SyncPhases
  <2> QED BY <2>1, <2>2, <2>3, <2>4, <2>5, <2>6
<1> HIDE DEF Holds
<1>7. \A q \in Procs : Holds(q)'
  BY <1>3, <1>4, <1>6
<1> QED BY <1>7 DEF Recorded, Holds

LEMMA MarkedStep ==
  ASSUME Typed, Recorded, MarkedMeansRecorded, NEW p \in Procs,
         \/ Start(p) \/ WriteReceipt(p) \/ WriteState(p) \/ MarkWeek(p)
         \/ Ends(p) \/ Syncs(p) \/ Reads(p)
  PROVE  MarkedMeansRecorded'
<1>1. /\ \A w \in 1..MaxWeeks : receipts[w] # 0 => receipts'[w] # 0
      /\ state # 0 => state' # 0
  BY RecordsStay
<1>2. markers \subseteq 1..MaxWeeks
  BY DEF Typed, FilesTyped
<1>3. CASE MarkWeek(p)
  <2>1. receipts' = receipts /\ state' = state /\ markers' = markers \cup {run[p].week}
    BY <1>3 DEF MarkWeek
  <2>2. receipts[run[p].week] # 0 /\ state # 0
    BY <1>3 DEF MarkWeek, Recorded
  <2> QED BY <2>1, <2>2 DEF MarkedMeansRecorded
<1>4. CASE ~MarkWeek(p)
  <2>1. markers' = markers
    BY <1>4 DEF Start, WriteReceipt, WriteState, Ends, Syncs, Reads, Elsewhere, fileVars
  <2> QED BY <1>1, <1>2, <2>1 DEF MarkedMeansRecorded
<1> QED BY <1>3, <1>4

LEMMA RecordsNext == RecordsInv /\ [Next]_vars => RecordsInv'
<1> SUFFICES ASSUME RecordsInv, [Next]_vars PROVE RecordsInv'
  OBVIOUS
<1> USE DEF RecordsInv
<1>1. Typed'
  BY TypedNext
<1>2. ASSUME NEW p \in Procs, RunStep(p)
      PROVE  Recorded' /\ MarkedMeansRecorded'
  BY <1>2, RunStepKinds, RecordedStep, MarkedStep
<1>3. ASSUME Passes PROVE Recorded' /\ MarkedMeansRecorded'
  BY <1>3 DEF Passes, fileVars, Recorded, MarkedMeansRecorded
<1> QED BY <1>1, <1>2, <1>3, WorldPasses DEF Next

\* A marked week has its receipt and a state.json, for any number of runs, however
\* they overlap and wherever they are killed: run_advisor marks the week last.
THEOREM MarkedWeeksAreRecorded == Spec => []MarkedMeansRecorded
<1>1. RecordsInv => MarkedMeansRecorded
  BY DEF RecordsInv
<1> QED BY <1>1, RecordsInit, RecordsNext, PTL DEF Spec

------------------------------------------------------------------------------
(* One visit a week. *)

\* One run at a time; whoever has been to the page left its week marked; a run
\* that was not forced found its week unmarked, so nobody has been there for it.
Alone == \A p, q \in Procs : Underway(p) /\ Underway(q) => p = q
VisitsMarked == \A a \in pushers : a.week \in markers
MarkedMarked == \A p \in Procs : run[p].phase = "marked" => run[p].week \in markers
FirstVisit ==
  \A p \in Procs : run[p].phase \in EarlyPhases /\ ~run[p].forced =>
    \A a \in pushers : a.week # run[p].week
Single ==
  \A a, b \in pushers : a.week = b.week /\ ~a.forced /\ ~b.forced => a = b

Orderly == Alone /\ VisitsMarked /\ MarkedMarked /\ FirstVisit /\ Single

VisitsInv == Typed /\ ("overlap" \in trouble \/ Orderly)

LEMMA VisitsInit == Init => VisitsInv
<1> SUFFICES ASSUME Init PROVE VisitsInv
  OBVIOUS
<1>1. Alone /\ MarkedMarked /\ FirstVisit
  BY DEF Init, Idle, Alone, Underway, MarkedMarked, FirstVisit, EarlyPhases
<1>2. VisitsMarked /\ Single
  BY DEF Init, VisitsMarked, Single
<1> QED BY <1>1, <1>2, TypedInit DEF VisitsInv, Orderly

\* A run that starts alone.
LEMMA OrderlyStart ==
  ASSUME Typed, Orderly, NEW p \in Procs, Start(p), "overlap" \notin trouble'
  PROVE  Orderly'
<1> DEFINE r == [phase |-> "auditing", n |-> runs + 1, week |-> week,
                 forced |-> week \in markers]
<1>1. /\ r.phase = "auditing" /\ r.week = week
      /\ r.forced = (week \in markers)
  OBVIOUS
<1>2. Becomes(p, r) /\ pushers' = pushers /\ markers' = markers
  BY DEF Start, fileVars
<1> HIDE DEF r
<1>3. run'[p] = r /\ \A q \in Procs \ {p} : run'[q] = run[q]
  BY <1>2 DEF Becomes, Typed, RunsTyped
<1>4. \A q \in Procs : run[q].phase = "idle"
  BY DEF Start, Underway
<1>5. \A q \in Procs : run'[q].phase = "idle" \/ q = p
  BY <1>3, <1>4
<1>6. Alone'
  BY <1>5 DEF Alone, Underway
<1>7. VisitsMarked' /\ Single'
  BY <1>2 DEF Orderly, VisitsMarked, Single
<1>8. MarkedMarked'
  BY <1>1, <1>3, <1>5 DEF MarkedMarked
<1>9. FirstVisit'
  <2>1. ~r.forced => \A a \in pushers : a.week # week
    BY <1>1 DEF Orderly, VisitsMarked
  <2> QED BY <1>1, <1>2, <1>3, <1>5, <2>1 DEF FirstVisit, EarlyPhases
<1> QED BY <1>6, <1>7, <1>8, <1>9 DEF Orderly

\* A run that writes one of its files.
LEMMA OrderlyWrite ==
  ASSUME Typed, Orderly, NEW p \in Procs, run[p].phase \in EarlyPhases,
         NEW phase \in EarlyPhases, MovesTo(p, phase), pushers' = pushers,
         markers \subseteq markers', phase = "marked" => run[p].week \in markers'
  PROVE  Orderly'
<1>1. run'[p] = [phase |-> phase, n |-> run[p].n, week |-> run[p].week,
                 forced |-> run[p].forced]
  BY EarlyMoves
<1>2. run'[p].phase = phase /\ run'[p].week = run[p].week /\ run'[p].forced = run[p].forced
  BY <1>1
<1>3. \A q \in Procs \ {p} : run'[q] = run[q]
  BY DEF MovesTo, Typed, RunsTyped
<1>4. Alone'
  <2>1. \A q \in Procs : Underway(q)' => Underway(q)
    BY <1>3 DEF Underway, EarlyPhases
  <2> QED BY <2>1 DEF Orderly, Alone
<1>5. VisitsMarked' /\ Single'
  BY DEF Orderly, VisitsMarked, Single
<1>6. MarkedMarked'
  BY <1>2, <1>3 DEF Orderly, MarkedMarked
<1>7. FirstVisit'
  BY <1>2, <1>3 DEF Orderly, FirstVisit
<1> QED BY <1>4, <1>5, <1>6, <1>7 DEF Orderly

\* A run that ends, or works on the page.
LEMMA OrderlyAfter ==
  ASSUME Typed, Orderly, NEW p \in Procs, Ends(p) \/ Syncs(p)
  PROVE  Orderly'
<1>1. /\ pushers' = pushers /\ markers' = markers
      /\ \A q \in Procs \ {p} : run'[q] = run[q]
      /\ p \in DOMAIN run
  BY DEF Ends, Syncs, Elsewhere, fileVars, Becomes, Typed, RunsTyped
<1>2. run'[p].phase \in SyncPhases \cup {"idle"} /\ Underway(p)
  BY <1>1 DEF Ends, Syncs, Becomes, IsSync, Idle, SyncPhases, Underway
<1>3. Alone'
  <2>1. \A q \in Procs : Underway(q)' => Underway(q)
    BY <1>1, <1>2 DEF Underway
  <2> QED BY <2>1 DEF Orderly, Alone
<1>4. VisitsMarked' /\ Single'
  BY <1>1 DEF Orderly, VisitsMarked, Single
<1>5. MarkedMarked'
  BY <1>1, <1>2 DEF Orderly, MarkedMarked, SyncPhases
<1>6. FirstVisit'
  BY <1>1, <1>2 DEF Orderly, FirstVisit, SyncPhases, EarlyPhases
<1> QED BY <1>3, <1>4, <1>5, <1>6 DEF Orderly

\* A run that comes to the page: nobody unforced has been there for its week,
\* unless it is a forced one itself.
LEMMA OrderlyRead ==
  ASSUME Typed, Orderly, NEW p \in Procs, Reads(p)
  PROVE  Orderly'
<1> DEFINE v == [n |-> run[p].n, week |-> run[p].week, forced |-> run[p].forced]
<1>1. v.week = run[p].week /\ v.forced = run[p].forced
  OBVIOUS
<1>2. pushers' = pushers \cup {v} /\ markers' = markers
  BY DEF Reads, fileVars
<1> HIDE DEF v
<1>3. \A q \in Procs \ {p} : run'[q] = run[q]
  BY DEF Reads, Becomes, Typed, RunsTyped
<1>4. run'[p].phase \in SyncPhases /\ Underway(p)
  BY DEF Reads, Becomes, IsSync, Underway, Typed, RunsTyped
<1>5. \A q \in Procs \ {p} : run'[q].phase = "idle"
  BY <1>3, <1>4 DEF Orderly, Alone, Underway
<1>6. Alone'
  BY <1>5 DEF Alone, Underway
<1>7. VisitsMarked'
  BY <1>1, <1>2 DEF Orderly, VisitsMarked, MarkedMarked, Reads
<1>8. MarkedMarked' /\ FirstVisit'
  BY <1>4, <1>5 DEF MarkedMarked, FirstVisit, SyncPhases, EarlyPhases
<1>9. Single'
  <2>1. ~v.forced => \A a \in pushers : a.week # v.week
    BY <1>1 DEF Orderly, FirstVisit, Reads, EarlyPhases
  <2> QED BY <1>2, <2>1 DEF Orderly, Single
<1> QED BY <1>6, <1>7, <1>8, <1>9 DEF Orderly

LEMMA VisitsNext == VisitsInv /\ [Next]_vars => VisitsInv'
<1> SUFFICES ASSUME VisitsInv, [Next]_vars, "overlap" \notin trouble' PROVE Orderly'
  BY TypedNext DEF VisitsInv
<1>1. Typed /\ Orderly
  BY TroubleStays DEF VisitsInv
<1>2. ASSUME NEW p \in Procs, RunStep(p) PROVE Orderly'
  <2>1. CASE Start(p)
    BY <1>1, <2>1, OrderlyStart
  <2>2. CASE WriteReceipt(p)
    <3>1. /\ run[p].phase \in EarlyPhases /\ "receipt" \in EarlyPhases /\ MovesTo(p, "receipt")
          /\ pushers' = pushers /\ markers \subseteq markers'
      BY <2>2 DEF WriteReceipt, EarlyPhases
    <3> QED BY <1>1, <3>1, OrderlyWrite
  <2>3. CASE WriteState(p)
    <3>1. /\ run[p].phase \in EarlyPhases /\ "state" \in EarlyPhases /\ MovesTo(p, "state")
          /\ pushers' = pushers /\ markers \subseteq markers'
      BY <2>3 DEF WriteState, EarlyPhases
    <3> QED BY <1>1, <3>1, OrderlyWrite
  <2>4. CASE MarkWeek(p)
    <3>1. /\ run[p].phase \in EarlyPhases /\ "marked" \in EarlyPhases /\ MovesTo(p, "marked")
          /\ pushers' = pushers /\ markers \subseteq markers' /\ run[p].week \in markers'
      BY <2>4 DEF MarkWeek, EarlyPhases
    <3> QED BY <1>1, <3>1, OrderlyWrite
  <2>5. CASE Ends(p) \/ Syncs(p)
    BY <1>1, <2>5, OrderlyAfter
  <2>6. CASE Reads(p)
    BY <1>1, <2>6, OrderlyRead
  <2> QED BY <1>1, <1>2, <2>1, <2>2, <2>3, <2>4, <2>5, <2>6, RunStepKinds
<1>3. ASSUME Passes PROVE Orderly'
  BY <1>1, <1>3 DEF Passes, fileVars, Orderly, Alone, Underway, VisitsMarked, MarkedMarked,
                    FirstVisit, Single
<1> QED BY <1>1, <1>2, <1>3, WorldPasses DEF Next

\* However many runs of a week are killed and started again, at most one that
\* was not forced touches the page, as long as no two overlap.
THEOREM OneVisitAWeek == Spec => []OncePerWeek
<1>1. VisitsInv => OncePerWeek
  BY DEF VisitsInv, Orderly, Single, OncePerWeek
<1> QED BY <1>1, VisitsInit, VisitsNext, PTL DEF Spec

------------------------------------------------------------------------------
(* People's text. *)

\* A run that holds ids of blocks it is going to delete.
Holds(p) == run[p].phase \in {"zoning", "clearing"}

PageTyped ==
  /\ made \in Nat
  /\ \A b \in page : b.id \in 1..made
  /\ \A b, c \in page : b.id = c.id => b = c

IdsTyped ==
  \A p \in Procs : Holds(p) => /\ "doomed" \in DOMAIN run[p]
                               /\ run[p].doomed \subseteq 1..made

\* No run is about to delete a plain block.
PlainIsSafe ==
  \A p \in Procs : Holds(p) =>
    \A b \in page : b.id \in run[p].doomed => b.kind # "plain"

PlainStays == \A b \in written : b.kind = "plain" => b \in page

PlainInv ==
  /\ Typed /\ PageTyped /\ IdsTyped
  /\ "race" \in trouble \/ (PlainIsSafe /\ PlainStays)

\* Steps that add blocks only, and steps that doom none.
IsFresh(new) ==
  /\ \A b \in new : b.id \in (made + 1)..made'
  /\ \A b, c \in new : b.id = c.id => b = c

Grows ==
  /\ made' \in Nat /\ made <= made'
  /\ \E new : page' = page \cup new /\ IsFresh(new)

DoomsNone ==
  \A p \in Procs : Holds(p)' =>
    /\ Holds(p)
    /\ "doomed" \in DOMAIN run'[p]
    /\ run'[p].doomed \subseteq run[p].doomed

LEMMA GrowsByNothing == made \in Nat /\ UNCHANGED <<page, made>> => Grows
<1> SUFFICES ASSUME made \in Nat, UNCHANGED <<page, made>> PROVE Grows
  OBVIOUS
<1>1. made' \in Nat /\ made <= made'
  OBVIOUS
<1>2. page' = page \cup {} /\ IsFresh({})
  BY DEF IsFresh
<1> QED BY <1>1, <1>2 DEF Grows

\* What AddToPage adds has ids of its own.
LEMMA Adding ==
  ASSUME made \in Nat, NEW n \in Nat, NEW blocks, Len(blocks) \in Nat, AddToPage(blocks, n)
  PROVE  Grows
<1> DEFINE size == n * Len(blocks)
           Added(i) == blocks[((i - 1) % Len(blocks)) + 1]
           new == {[id |-> made + i, kind |-> Added(i).kind, of |-> Added(i).of] :
                     i \in 1..size}
<1>1. page' = page \cup new /\ made' = made + size
  BY DEF AddToPage
<1>2. size \in Nat
  OBVIOUS
<1> HIDE DEF size
<1>3. \A b \in new : \E i \in 1..size :
        b = [id |-> made + i, kind |-> Added(i).kind, of |-> Added(i).of]
  OBVIOUS
<1> HIDE DEF Added, new
<1>4. \A b \in new : b.id \in (made + 1)..(made + size)
  BY <1>2, <1>3
<1>5. ASSUME NEW b \in new, NEW c \in new, b.id = c.id PROVE b = c
  <2>1. PICK i \in 1..size :
          b = [id |-> made + i, kind |-> Added(i).kind, of |-> Added(i).of]
    BY <1>3
  <2>2. PICK j \in 1..size :
          c = [id |-> made + j, kind |-> Added(j).kind, of |-> Added(j).of]
    BY <1>3
  <2>3. b.id = made + i /\ c.id = made + j
    BY <2>1, <2>2
  <2>4. i = j
    <3>1. made + i = made + j
      BY <1>5, <2>3
    <3>2. i \in Int /\ j \in Int
      BY <1>2
    <3> QED BY <3>1, <3>2
  <2> QED BY <2>1, <2>2, <2>4
<1>6. made' \in Nat /\ made <= made'
  BY <1>1, <1>2
<1>7. IsFresh(new)
  BY <1>1, <1>4, <1>5 DEF IsFresh
<1> QED BY <1>1, <1>6, <1>7 DEF Grows

LEMMA AttemptsAreNat == ASSUME NEW n \in TimesApplied PROVE n \in Nat
BY HubBounds DEF TimesApplied

\* A page that grows keeps its blocks apart and what is on it.
LEMMA GrownPage ==
  ASSUME PageTyped, IdsTyped, Grows, DoomsNone
  PROVE  /\ PageTyped' /\ IdsTyped' /\ page \subseteq page'
         /\ PlainIsSafe => PlainIsSafe'
<1>0. PICK new : page' = page \cup new /\ IsFresh(new)
  BY DEF Grows
<1>1. /\ page' = page \cup new
      /\ \A b \in new : b.id \in (made + 1)..made'
      /\ \A b, c \in new : b.id = c.id => b = c
  BY <1>0 DEF IsFresh
<1>2. made \in Nat /\ made' \in Nat /\ made <= made'
  BY DEF Grows, PageTyped
<1>3. \A b \in page : b.id \in 1..made
  BY DEF PageTyped
<1>4. \A b \in page' : b.id \in 1..made'
  BY <1>1, <1>2, <1>3
<1>5. \A b \in page, c \in new : b.id # c.id
  BY <1>1, <1>2, <1>3
<1>6. \A b, c \in page' : b.id = c.id => b = c
  BY <1>1, <1>5 DEF PageTyped
<1>7. IdsTyped'
  BY <1>2 DEF IdsTyped, DoomsNone
<1>8. ASSUME PlainIsSafe PROVE PlainIsSafe'
  <2> SUFFICES ASSUME NEW p \in Procs, Holds(p)', NEW b \in page', b.id \in run'[p].doomed
               PROVE  b.kind # "plain"
    BY DEF PlainIsSafe
  <2>1. Holds(p) /\ b.id \in run[p].doomed /\ b.id \in 1..made
    BY DEF DoomsNone, IdsTyped
  <2>2. b \in page
    BY <1>1, <1>2, <2>1
  <2> QED BY <1>8, <2>1, <2>2 DEF PlainIsSafe
<1> QED BY <1>1, <1>2, <1>4, <1>6, <1>7, <1>8 DEF PageTyped

\* A step that adds blocks and dooms none keeps the invariant.
LEMMA PlainGrows ==
  ASSUME PlainInv, Typed', Grows, DoomsNone, trouble \subseteq trouble',
         \A b \in written' : b \in written \/ b \in page'
  PROVE  PlainInv'
<1>1. PageTyped' /\ IdsTyped' /\ page \subseteq page' /\ (PlainIsSafe => PlainIsSafe')
  BY GrownPage DEF PlainInv
<1>2. PlainStays => PlainStays'
  BY <1>1 DEF PlainStays
<1> QED BY <1>1, <1>2 DEF PlainInv

LEMMA PlainInit == Init => PlainInv
<1> SUFFICES ASSUME Init PROVE PlainInv
  OBVIOUS
<1>1. PageTyped
  BY DEF Init, PageTyped
<1>2. IdsTyped /\ PlainIsSafe
  BY DEF Init, Idle, IdsTyped, PlainIsSafe, Holds
<1>3. PlainStays
  BY DEF Init, PlainStays
<1> QED BY <1>1, <1>2, <1>3, TypedInit DEF PlainInv

\* A move of one run that gives it no ids dooms no block.
LEMMA BecomesHarmless ==
  ASSUME Typed, NEW p \in Procs, NEW r, Becomes(p, r), IdsTyped,
         r.phase \in {"zoning", "clearing"} =>
           Holds(p) /\ "doomed" \in DOMAIN r /\ r.doomed \subseteq run[p].doomed
  PROVE  DoomsNone
<1>1. run'[p] = r /\ \A q \in Procs \ {p} : run'[q] = run[q]
  BY DEF Becomes, Typed, RunsTyped
<1> QED BY <1>1 DEF DoomsNone, Holds, IdsTyped

\* The phase is all a move changes.
LEMMA MovesHarmless ==
  ASSUME Typed, IdsTyped, NEW p \in Procs, NEW phase, MovesTo(p, phase),
         phase \in {"zoning", "clearing"} => Holds(p),
         phase \in EarlyPhases \cup SyncPhases, "phase" \in DOMAIN run[p]
  PROVE  DoomsNone
<1> DEFINE r == [run[p] EXCEPT !.phase = phase]
<1>1. r.phase = phase
  OBVIOUS
<1>2. "doomed" \in DOMAIN run[p] => "doomed" \in DOMAIN r /\ r.doomed = run[p].doomed
  OBVIOUS
<1>3. Becomes(p, r)
  BY DEF MovesTo, Becomes, Typed, RunsTyped
<1> HIDE DEF r
<1>4. r.phase \in {"zoning", "clearing"} =>
        Holds(p) /\ "doomed" \in DOMAIN r /\ r.doomed \subseteq run[p].doomed
  BY <1>1, <1>2 DEF IdsTyped
<1> QED BY <1>3, <1>4, BecomesHarmless

\* A run that starts, ends, writes a file or works on the page gets no ids.
LEMMA RunsHarmless ==
  ASSUME Typed, IdsTyped, NEW p \in Procs,
         \/ Start(p) \/ Leave(p) \/ WriteReceipt(p) \/ WriteState(p) \/ MarkWeek(p)
         \/ ReadFails(p) \/ InitZone(p) \/ DeletePrior(p) \/ AppendVerdict(p)
         \/ ArchivePrior(p) \/ SetTitle(p) \/ Crash(p)
  PROVE  DoomsNone
<1>1. run[p].phase \in EarlyPhases \cup SyncPhases => "phase" \in DOMAIN run[p]
  BY DEF Typed, RunsTyped, EarlyRuns, IsSync, Idle, EarlyPhases, SyncPhases
<1>2. ASSUME NEW phase, phase \in EarlyPhases \cup SyncPhases, MovesTo(p, phase),
             run[p].phase \in EarlyPhases \cup SyncPhases,
             phase \in {"zoning", "clearing"} => Holds(p)
      PROVE  DoomsNone
  BY <1>1, <1>2, MovesHarmless
<1>3. ASSUME Becomes(p, Idle) PROVE DoomsNone
  <2>1. Idle.phase \notin {"zoning", "clearing"}
    BY DEF Idle
  <2> QED BY <1>3, <2>1, BecomesHarmless
<1>4. CASE Start(p)
  <2> DEFINE r == [phase |-> "auditing", n |-> runs + 1, week |-> week,
                   forced |-> week \in markers]
  <2>1. Becomes(p, r) /\ r.phase \notin {"zoning", "clearing"}
    BY <1>4 DEF Start
  <2> HIDE DEF r
  <2> QED BY <2>1, BecomesHarmless
<1>5. CASE Leave(p) \/ ReadFails(p) \/ SetTitle(p) \/ Crash(p)
  BY <1>3, <1>5 DEF Leave, ReadFails, SetTitle, Crash
<1>6. CASE WriteReceipt(p)
  <2>1. MovesTo(p, "receipt") /\ run[p].phase \in EarlyPhases
    BY <1>6 DEF WriteReceipt, EarlyPhases
  <2> QED BY <1>2, <2>1 DEF EarlyPhases
<1>7. CASE WriteState(p)
  <2>1. MovesTo(p, "state") /\ run[p].phase \in EarlyPhases
    BY <1>7 DEF WriteState, EarlyPhases
  <2> QED BY <1>2, <2>1 DEF EarlyPhases
<1>8. CASE MarkWeek(p)
  <2>1. MovesTo(p, "marked") /\ run[p].phase \in EarlyPhases
    BY <1>8 DEF MarkWeek, EarlyPhases
  <2> QED BY <1>2, <2>1 DEF EarlyPhases
<1>9. CASE InitZone(p)
  <2>1. MovesTo(p, "clearing") /\ run[p].phase \in SyncPhases /\ Holds(p)
    BY <1>9 DEF InitZone, SyncPhases, Holds
  <2> QED BY <1>2, <2>1 DEF SyncPhases
<1>10. CASE DeletePrior(p)
  <2>1. PICK id \in run[p].doomed : run' = [run EXCEPT ![p].doomed = @ \ {id}]
    BY <1>10 DEF DeletePrior
  <2>2. Holds(p) /\ run[p].phase = "clearing"
    BY <1>10 DEF DeletePrior, Holds
  <2>3. "doomed" \in DOMAIN run[p]
    BY <2>2 DEF IdsTyped
  <2> DEFINE r == [run[p] EXCEPT !.doomed = @ \ {id}]
  <2>4. "doomed" \in DOMAIN r /\ r.doomed \subseteq run[p].doomed
    BY <2>3
  <2>5. Becomes(p, r)
    BY <2>1 DEF Becomes, Typed, RunsTyped
  <2> HIDE DEF r
  <2> QED BY <2>2, <2>4, <2>5, BecomesHarmless
<1>11. CASE AppendVerdict(p)
  <2>1. MovesTo(p, AfterVerdict(p)) /\ run[p].phase \in SyncPhases
    BY <1>11 DEF AppendVerdict, SyncPhases
  <2>2. AfterVerdict(p) \in SyncPhases /\ AfterVerdict(p) \notin {"zoning", "clearing"}
    BY DEF AfterVerdict, SyncPhases
  <2> QED BY <1>2, <2>1, <2>2
<1>12. CASE ArchivePrior(p)
  <2>1. MovesTo(p, "titling") /\ run[p].phase \in SyncPhases
    BY <1>12 DEF ArchivePrior, SyncPhases
  <2> QED BY <1>2, <2>1 DEF SyncPhases
<1> QED BY <1>4, <1>5, <1>6, <1>7, <1>8, <1>9, <1>10, <1>11, <1>12

\* Every such step but a deletion adds blocks to the page, or none.
LEMMA RunsGrow ==
  ASSUME PageTyped, NEW p \in Procs,
         \/ Start(p) \/ Leave(p) \/ WriteReceipt(p) \/ WriteState(p) \/ MarkWeek(p)
         \/ ReadFails(p) \/ InitZone(p) \/ AppendVerdict(p)
         \/ ArchivePrior(p) \/ SetTitle(p) \/ Crash(p)
  PROVE  Grows /\ written' = written
<1>1. made \in Nat
  BY DEF PageTyped
<1>2. ASSUME NEW n \in TimesApplied, NEW blocks, Len(blocks) \in Nat, AddToPage(blocks, n)
      PROVE  Grows
  BY <1>1, <1>2, Adding, AttemptsAreNat
<1>3. ASSUME UNCHANGED <<page, made>> PROVE Grows
  BY <1>1, <1>3, GrowsByNothing
<1>4. CASE Start(p) BY <1>3, <1>4 DEF Start, pageVars
<1>5. CASE Leave(p) BY <1>3, <1>5 DEF Leave, pageVars
<1>6. CASE WriteReceipt(p) BY <1>3, <1>6 DEF WriteReceipt, pageVars
<1>7. CASE WriteState(p) BY <1>3, <1>7 DEF WriteState, pageVars
<1>8. CASE MarkWeek(p) BY <1>3, <1>8 DEF MarkWeek, pageVars
<1>9. CASE ReadFails(p) BY <1>3, <1>9 DEF ReadFails, pageVars
<1>10. CASE SetTitle(p) BY <1>3, <1>10 DEF SetTitle
<1>11. CASE Crash(p) BY <1>3, <1>11 DEF Crash, pageVars
<1>12. CASE InitZone(p)
  <2>1. PICK n \in TimesApplied : AddToPage(<<Block("zone", 0)>>, n)
    BY <1>12 DEF InitZone
  <2>2. Len(<<Block("zone", 0)>>) \in Nat
    OBVIOUS
  <2> QED BY <1>2, <1>12, <2>1, <2>2 DEF InitZone
<1>13. CASE AppendVerdict(p)
  <2> DEFINE blocks == <<Block("headline", run[p].n), Block("item", run[p].n)>>
  <2>1. PICK n \in TimesApplied : AddToPage(blocks, n)
    BY <1>13 DEF AppendVerdict
  <2>2. Len(blocks) \in Nat
    OBVIOUS
  <2> HIDE DEF blocks
  <2> QED BY <1>2, <1>13, <2>1, <2>2 DEF AppendVerdict
<1>14. CASE ArchivePrior(p)
  <2>1. PICK n \in TimesApplied : IF run[p].archive THEN UNCHANGED <<page, made>>
                                  ELSE AddToPage(<<Block("archive", 0)>>, n)
    BY <1>14 DEF ArchivePrior
  <2>2. Len(<<Block("archive", 0)>>) \in Nat
    OBVIOUS
  <2>3. Grows
    BY <1>2, <1>3, <2>1, <2>2
  <2> QED BY <1>14, <2>3 DEF ArchivePrior
<1> QED BY <1>4, <1>5, <1>6, <1>7, <1>8, <1>9, <1>10, <1>11, <1>12, <1>13, <1>14

\* The ids a run takes with it are of blocks that read like a verdict's.
LEMMA PlainRead ==
  ASSUME PlainInv, Typed', NEW p \in Procs, ReadPage(p), trouble \subseteq trouble'
  PROVE  PlainInv'
<1> DEFINE ids == {b.id : b \in AgentBlocks}
           r == [phase   |-> IF HasZone THEN "clearing" ELSE "zoning",
                 n       |-> run[p].n,
                 archive |-> HasArchive,
                 doomed  |-> ids,
                 prior   |-> Prior]
<1>1. "doomed" \in DOMAIN r /\ r.doomed = ids
  OBVIOUS
<1>2. Becomes(p, r) /\ UNCHANGED <<page, made, written>>
  BY DEF ReadPage, pageVars
<1> HIDE DEF r
<1>3. run'[p] = r /\ \A q \in Procs \ {p} : run'[q] = run[q]
  BY <1>2 DEF Becomes, PlainInv, Typed, RunsTyped
<1>4. AgentBlocks \subseteq page /\ \A b \in AgentBlocks : b.kind # "plain"
  BY DEF AgentBlocks, Read, LooksLikeVerdict
<1>5. ids \subseteq 1..made
  BY <1>4 DEF PlainInv, PageTyped
<1>6. \A b \in page : b.id \in ids => b.kind # "plain"
  <2> SUFFICES ASSUME NEW b \in page, b.id \in ids PROVE b.kind # "plain"
    OBVIOUS
  <2>1. PICK c \in AgentBlocks : b.id = c.id
    OBVIOUS
  <2>2. b = c
    BY <1>4, <2>1 DEF PlainInv, PageTyped
  <2> QED BY <1>4, <2>2
<1> HIDE DEF ids
<1>7. PageTyped'
  BY <1>2 DEF PlainInv, PageTyped
<1>8. IdsTyped'
  BY <1>1, <1>2, <1>3, <1>5 DEF PlainInv, IdsTyped, Holds
<1>9. PlainIsSafe => PlainIsSafe'
  BY <1>1, <1>2, <1>3, <1>6 DEF PlainIsSafe, Holds
<1>10. PlainStays => PlainStays'
  BY <1>2 DEF PlainStays
<1> QED BY <1>7, <1>8, <1>9, <1>10 DEF PlainInv

\* A deletion takes no plain block.
LEMMA PlainDelete ==
  ASSUME PlainInv, Typed', NEW p \in Procs, DeletePrior(p), trouble \subseteq trouble'
  PROVE  PlainInv'
<1>1. PICK id \in run[p].doomed : page' = {b \in page : b.id # id} \/ page' = page
  BY DEF DeletePrior
<1>2. made' = made /\ written' = written /\ Holds(p)
  BY DEF DeletePrior, Holds
<1>3. DoomsNone
  BY RunsHarmless DEF PlainInv
<1>4. page' \subseteq page
  BY <1>1
<1>5. PageTyped'
  BY <1>2, <1>4 DEF PlainInv, PageTyped
<1>6. IdsTyped'
  BY <1>2, <1>3 DEF PlainInv, IdsTyped, DoomsNone
<1>7. PlainIsSafe => PlainIsSafe'
  BY <1>3, <1>4 DEF PlainIsSafe, DoomsNone
<1>8. PlainIsSafe /\ PlainStays => PlainStays'
  BY <1>1, <1>2 DEF PlainIsSafe, PlainStays
<1> QED BY <1>5, <1>6, <1>7, <1>8 DEF PlainInv

\* A block a person writes over is in nobody's hands, or "race" tells.
LEMMA PlainRewrite ==
  ASSUME PlainInv, Typed', Rewrite
  PROVE  PlainInv'
<1>1. PICK old \in page :
        LET new == [id |-> old.id, kind |-> "plain", of |-> 0]
        IN  /\ old.kind \in {"headline", "item"}
            /\ page' = (page \ {old}) \cup {new}
            /\ written' = written \cup {new}
            /\ trouble' = trouble \cup {"rewrite"} \cup {t \in {"race"} : Doomed(old.id)}
  BY DEF Rewrite
<1> DEFINE new == [id |-> old.id, kind |-> "plain", of |-> 0]
<1>2. /\ old.kind # "plain" /\ new.id = old.id
      /\ page' = (page \ {old}) \cup {new}
      /\ written' = written \cup {new}
      /\ "race" \notin trouble' => "race" \notin trouble /\ ~Doomed(old.id)
  BY <1>1
<1>3. made' = made /\ run' = run
  BY DEF Rewrite
<1> HIDE DEF new
<1>4. PageTyped'
  BY <1>2, <1>3 DEF PlainInv, PageTyped
<1>5. IdsTyped'
  BY <1>3 DEF PlainInv, IdsTyped, Holds
<1>6. ~Doomed(old.id) /\ PlainIsSafe => PlainIsSafe'
  BY <1>2, <1>3 DEF PlainIsSafe, Holds, Doomed
<1>7. PlainStays => PlainStays'
  BY <1>2 DEF PlainStays
<1> QED BY <1>2, <1>4, <1>5, <1>6, <1>7 DEF PlainInv

\* A note is a new block.
LEMMA NoteGrows ==
  ASSUME made \in Nat, WriteNote
  PROVE  Grows /\ \A b \in written' : b \in written \/ b \in page'
<1>1. PICK kind \in {"plain", "bullet", "priced"} :
        /\ AddToPage(<<Block(kind, 0)>>, 1)
        /\ written' = written \cup {[id |-> made + 1, kind |-> kind, of |-> 0]}
  BY DEF WriteNote
<1> DEFINE blocks == <<Block(kind, 0)>>
<1>2. Len(blocks) = 1 /\ blocks[1] = [kind |-> kind, of |-> 0]
  BY DEF Block
<1>3. AddToPage(blocks, 1)
  BY <1>1
<1> HIDE DEF blocks
<1>4. Grows
  BY <1>2, <1>3, Adding
<1>5. [id |-> made + 1, kind |-> kind, of |-> 0] \in page'
  <2> DEFINE place(i) == ((i - 1) % Len(blocks)) + 1
             added(i) == [id |-> made + i, kind |-> blocks[place(i)].kind,
                          of |-> blocks[place(i)].of]
  <2>1. page' = page \cup {added(i) : i \in 1..(1 * Len(blocks))}
    BY <1>3 DEF AddToPage
  <2>2. 1 \in 1..(1 * Len(blocks)) /\ place(1) = 1
    BY <1>2
  <2>3. added(1) = [id |-> made + 1, kind |-> kind, of |-> 0]
    BY <1>2, <2>2
  <2> HIDE DEF added
  <2>4. added(1) \in page'
    BY <2>1, <2>2
  <2> QED BY <2>3, <2>4
<1> QED BY <1>1, <1>4, <1>5

LEMMA PlainNext == PlainInv /\ [Next]_vars => PlainInv'
<1> SUFFICES ASSUME PlainInv, [Next]_vars PROVE PlainInv'
  OBVIOUS
<1>1. Typed' /\ trouble \subseteq trouble'
  BY TypedNext, TroubleStays DEF PlainInv
<1>2. ASSUME UNCHANGED run PROVE DoomsNone
  BY <1>2 DEF PlainInv, IdsTyped, DoomsNone, Holds
<1>3. made \in Nat
  BY DEF PlainInv, PageTyped
<1>4. ASSUME NEW p \in Procs, RunStep(p) PROVE PlainInv'
  <2>1. CASE ReadPage(p)
    BY <1>1, <2>1, PlainRead
  <2>2. CASE DeletePrior(p)
    BY <1>1, <2>2, PlainDelete
  <2>3. CASE ~ReadPage(p) /\ ~DeletePrior(p)
    <3>1. DoomsNone
      BY <1>4, <2>3, RunsHarmless DEF RunStep, PlainInv
    <3>2. Grows /\ written' = written
      BY <1>4, <2>3, RunsGrow DEF RunStep, PlainInv
    <3> QED BY <1>1, <3>1, <3>2, PlainGrows
  <2> QED BY <2>1, <2>2, <2>3
<1>5. CASE Rewrite
  BY <1>1, <1>5, PlainRewrite
<1>6. CASE WriteNote
  <2>1. UNCHANGED run
    BY <1>6 DEF WriteNote
  <2> QED BY <1>1, <1>2, <1>3, <1>6, <2>1, NoteGrows, PlainGrows
<1>7. CASE NewWeek \/ UNCHANGED vars
  <2>1. UNCHANGED <<run, page, made, written>>
    BY <1>7 DEF NewWeek, vars, pageVars
  <2> QED BY <1>1, <1>2, <1>3, <2>1, GrowsByNothing, PlainGrows
<1> QED BY <1>4, <1>5, <1>6, <1>7 DEF Next

\* People's text stays on the page for any number of runs, requests that fail or
\* repeat, long pages and kills: sync_co_maintained_notion_doc deletes only what
\* reads like a verdict, and only by the ids it read.
THEOREM PeoplesTextSurvives == Spec => []PlainTextSurvives
<1>1. PlainInv => PlainTextSurvives
  BY DEF PlainInv, PlainStays, PlainTextSurvives
<1> QED BY <1>1, PlainInit, PlainNext, PTL DEF Spec

=============================================================================
