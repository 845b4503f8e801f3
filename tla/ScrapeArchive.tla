----------------------------- MODULE ScrapeArchive -----------------------------
(***************************************************************************)
(* `scrape`: the product page, both crawls unless they are declined, the   *)
(* eight files of data/<slug>, and with --save-db the comments.  The page  *)
(* and the crawls are CommentSave's actions, the save is Jobs's.           *)
(***************************************************************************)
EXTENDS CommentSave

VARIABLE dir \* each file: whole or torn, and the process that wrote it last

\* A mutant: the dossier before the last of the JSON files.
FilesDossierEarly == <<"deal.json", "reviews.json", "questions.json", "faqs.json", "founders.json",
                       "DOSSIER.md", "full_archive.json", "SUMMARY.md">>
\* SaveToDirectory's files, in its order.
Files == <<"deal.json", "reviews.json", "questions.json", "faqs.json", "founders.json",
           "full_archive.json", "DOSSIER.md", "SUMMARY.md">>

NoDir == [f \in {Files[i] : i \in 1..Len(Files)} |-> [torn |-> FALSE, of |-> None]]

\* Two scrapes have written at the same time: any file may hold a mixture, and what
\* becomes of them is not followed further.
Muddle == [f \in DOMAIN NoDir |-> [torn |-> TRUE, of |-> None]]

StartScrape(p) ==
  /\ \E kinds \in {<<>>, <<"review">>, <<"question">>, <<"review", "question">>},
        save \in BOOLEAN :
       StartJob(p, [Idle EXCEPT !.cmd = "scrape", !.pc = "resolving", !.kinds = kinds,
                                !.save = save])
  /\ UNCHANGED dir

FetchProductDeal(p) == ReadProductPage(p, "scrape") /\ UNCHANGED dir

MidFiles(q) == job[q].pc = "filling" \/ (job[q].pc = "writing" /\ job[q].at > 1)

\* os.Create, or the O_TRUNC of os.WriteFile
CreateFile(p) ==
  /\ job[p].pc = "writing"
  /\ dir' = IF dir = Muddle \/ \E q \in Procs \ {p} : MidFiles(q)
              THEN Muddle ELSE [dir EXCEPT ![Files[job[p].at]] = [torn |-> TRUE, of |-> p]]
  /\ job' = [job EXCEPT ![p].pc = "filling"]
  /\ UNCHANGED <<storeVars, lost>>

FileDone(j) ==
  CASE j.at < Len(Files)                                  -> [j EXCEPT !.pc = "writing", !.at = @ + 1]
    [] j.at = Len(Files) /\ j.save /\ j.kinds # <<>>      -> Saving(j, 1)
    [] OTHER                                              -> Done(j)

FillFile(p) ==
  /\ job[p].pc = "filling"
  /\ dir' = IF dir = Muddle THEN dir ELSE [dir EXCEPT ![Files[job[p].at]].torn = FALSE]
  /\ job' = [job EXCEPT ![p] = FileDone(@)]
  /\ UNCHANGED <<storeVars, lost>>

\* A full disk, at the creation or in the middle: the command ends.  The error of
\* SUMMARY.md is not looked at.
FileFails(p) ==
  /\ job[p].pc \in {"writing", "filling"}
  /\ job' = [job EXCEPT ![p] = IF @.at < Len(Files) THEN Failed(@, "disk") ELSE FileDone(@)]
  /\ UNCHANGED <<storeVars, lost, dir>>

ScrapeStep(p) ==
  StartScrape(p) \/ FetchProductDeal(p) \/ CreateFile(p) \/ FillFile(p) \/ FileFails(p)

=============================================================================
