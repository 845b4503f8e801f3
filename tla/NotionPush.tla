------------------------------- MODULE NotionPush -------------------------------
(***************************************************************************)
(* `deals sync-notion`: cards for the best deals, appended to a Notion     *)
(* page in chunks.  Nothing on the page says which run appended a block,   *)
(* and nothing is sent twice.                                              *)
(***************************************************************************)
EXTENDS Jobs

CONSTANTS
  MaxDeals, \* bound: deals pushed, the code's --limit
  Chunk     \* the code's 40: blocks in one request

ASSUME NotionPushAssumption == MaxDeals \in Nat /\ Chunk \in Nat \ {0}

VARIABLE cards \* the page: runs of blocks [by, from, to], in order

\* Title, heading, filter, divider; and of each deal a heading, the price and a
\* divider, with up to four bullets between.
BlockCounts(deals) == (4 + 3 * deals)..(4 + 7 * deals)

\* The deals come from a walk or from the table; without a token, without deals
\* or with an error of theirs nothing is sent.
StartPush(p) ==
  /\ \/ \E deals \in 1..MaxDeals : \E blocks \in BlockCounts(deals) :
          StartJob(p, [Idle EXCEPT !.cmd = "push", !.pc = "pushing", !.blocks = blocks])
     \/ StartJob(p, [Idle EXCEPT !.cmd = "push", !.pc = "done"])
     \/ StartJob(p, Failed([Idle EXCEPT !.cmd = "push"], "refused"))
  /\ UNCHANGED cards

ChunkEnd(j) == IF j.at + Chunk - 1 < j.blocks THEN j.at + Chunk - 1 ELSE j.blocks

Appended(p) == Append(cards, [by |-> p, from |-> job[p].at, to |-> ChunkEnd(job[p])])

\* A mutant: the end of a chunk taken for a block that was sent.
Next40Inclusive(j) ==
  IF j.at + Chunk < j.blocks THEN [j EXCEPT !.at = @ + Chunk + 1] ELSE Done(j)

NextChunk(j) ==
  IF j.at + Chunk <= j.blocks THEN [j EXCEPT !.at = @ + Chunk] ELSE Done(j)

\* pushNotionBlocks, a chunk at a time: an error ends it, and an answer that is
\* lost is one, though the page has the blocks.
PushChunk(p) ==
  /\ In(p, "push", "pushing")
  /\ \/ cards' = Appended(p) /\ job' = [job EXCEPT ![p] = NextChunk(@)]
     \/ cards' \in {cards, Appended(p)} /\ job' = [job EXCEPT ![p] = Failed(@, "refused")]
  /\ UNCHANGED <<storeVars, lost>>

PushStep(p) == StartPush(p) \/ PushChunk(p)

=============================================================================
