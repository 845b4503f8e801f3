---------------------------------- MODULE Jobs ----------------------------------
(***************************************************************************)
(* What the commands of one machine share: a command's own state, the      *)
(* requests of internal/appsumo/client.go, and the transactions of         *)
(* internal/store on the one SQLite file.  ProductSync, CommentSave,       *)
(* ScrapeArchive and NotionPush are the commands, Desk runs them side by   *)
(* side.                                                                   *)
(***************************************************************************)
EXTENDS Naturals, Sequences, FiniteSets

CONSTANTS
  Procs,    \* command processes
  None,
  Attempts, \* the code's 3: times a request is sent before it is given up
  MaxLost   \* bound: requests that are lost

ASSUME JobsAssumption ==
  /\ None \notin Procs
  /\ Attempts \in Nat \ {0}
  /\ MaxLost \in Nat

VARIABLES
  job,    \* the command each process runs
  writer, \* process that holds SQLite's writer lock
  table,  \* rows of products and product_comments: [row, by], by the saving process
  lost    \* requests lost so far

storeVars == <<writer, table>>

\* at: the page, kind, file or block a command has come to; got: rows it has
\* fetched; todo: rows its transaction still has to insert; streak: history, the
\* losses since the last answer; why: what a failure was.
Idle == [cmd |-> "none", pc |-> "idle", at |-> 1, tries |-> 0, streak |-> 0, why |-> "none",
         kinds |-> <<>>, got |-> {}, todo |-> {}, save |-> FALSE, blocks |-> 0]

Over == {"done", "failed", "killed"}
In(p, cmd, pc) == job[p].cmd = cmd /\ job[p].pc = pc

\* Of a command that is over the properties need its name, the rows it meant to
\* save, the blocks it meant to push and the losses it met last.
Ended(j, pc) ==
  [Idle EXCEPT !.cmd = j.cmd, !.pc = pc, !.streak = j.streak, !.blocks = j.blocks,
               !.got = IF j.pc = "saving" THEN j.got ELSE {}]
Done(j) == Ended(j, "done")
Failed(j, why) == [Ended(j, "failed") EXCEPT !.why = why]

StartJob(p, j) ==
  /\ job[p].pc = "idle"
  /\ job' = [job EXCEPT ![p] = j]
  /\ UNCHANGED <<storeVars, lost>>

------------------------------------------------------------------------------
(* A request: getJSON and getHTML. *)

\* A mutant: tries are counted from the start of the command.
AnsweredOnce(j) == [j EXCEPT !.streak = 0]

\* An answer in time that says what it should.  Every request counts its own tries.
Answered(j) == [j EXCEPT !.tries = 0, !.streak = 0]

Answer(p, j) ==
  /\ job' = [job EXCEPT ![p] = Answered(j)]
  /\ UNCHANGED <<storeVars, lost>>

\* No connection, or a body that breaks off or is too long.
Lose(p) ==
  LET j == [job[p] EXCEPT !.tries = @ + 1, !.streak = @ + 1]
  IN  /\ lost < MaxLost
      /\ lost' = lost + 1
      /\ job' = [job EXCEPT ![p] = IF j.tries = Attempts THEN Failed(j, "lost") ELSE j]
      /\ UNCHANGED storeVars

\* A status other than 2xx, another content type, a body that does not decode.
Refuse(p) ==
  /\ job' = [job EXCEPT ![p] = Failed(@, "refused")]
  /\ UNCHANGED <<storeVars, lost>>

Unanswered(p) == Lose(p) \/ Refuse(p)

------------------------------------------------------------------------------
(* A transaction: UpsertProducts and saveComments. *)

OfKind(rows, kind) == {r \in rows : r.kind = kind}
Stored == {t.row : t \in table}

\* The rows of one kind, a transaction each.
Batch(j) == OfKind(j.got, j.kinds[j.at])
Saving(j, at) == LET k == [j EXCEPT !.pc = "saving", !.at = at]
                 IN  [k EXCEPT !.todo = Batch(k)]

Saved(j) == IF j.at < Len(j.kinds) THEN Saving(j, j.at + 1)
                                   ELSE Done(j)

\* insert ... on conflict do update
Upserted(rows, p) == {t \in table : t.row \notin rows} \cup {[row |-> r, by |-> p] : r \in rows}

\* A mutant: no transaction around the inserts.
InsertAtOnce(p) ==
  /\ job[p].pc = "saving"
  /\ writer \in {None, p}
  /\ \E r \in job[p].todo :
       /\ \A q \in job[p].todo : q.kind = r.kind => q.id # r.parent
       /\ job' = [job EXCEPT ![p].todo = @ \ {r}]
       /\ table' = Upserted({r}, p)
  /\ writer' = p
  /\ UNCHANGED lost

\* The first insert takes the lock; a comment comes before its replies.
Insert(p) ==
  /\ job[p].pc = "saving"
  /\ writer \in {None, p}
  /\ \E r \in job[p].todo :
       /\ \A q \in job[p].todo : q.kind = r.kind => q.id # r.parent
       /\ job' = [job EXCEPT ![p].todo = @ \ {r}]
  /\ writer' = p
  /\ UNCHANGED <<table, lost>>

\* Commit.  Nothing to save takes no lock.
Commit(p) ==
  /\ job[p].pc = "saving"
  /\ job[p].todo = {}
  /\ table' = Upserted(Batch(job[p]), p)
  /\ writer' = IF writer = p THEN None ELSE writer
  /\ job' = [job EXCEPT ![p] = Saved(@)]
  /\ UNCHANGED lost

\* Another process writes: an error.  scrape --save-db takes no notice.
Locked(p) ==
  /\ job[p].pc = "saving"
  /\ job[p].todo # {}
  /\ writer \notin {None, p}
  /\ job' = [job EXCEPT ![p] = IF @.cmd = "scrape" THEN Saved(@) ELSE Failed(@, "locked")]
  /\ UNCHANGED <<storeVars, lost>>

SaveStep(p) == Insert(p) \/ Commit(p) \/ Locked(p)

\* Ctrl-C, a closed lid: an open transaction is rolled back with its lock.
Kill(p) ==
  /\ job[p].pc \notin Over \cup {"idle"}
  /\ job' = [job EXCEPT ![p] = Ended([@ EXCEPT !.streak = 0], "killed")]
  /\ writer' = IF writer = p THEN None ELSE writer
  /\ UNCHANGED <<table, lost>>

=============================================================================
