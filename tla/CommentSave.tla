------------------------------ MODULE CommentSave ------------------------------
(***************************************************************************)
(* `reviews` and `questions`: the product page for the deal's id, a crawl, *)
(* and with --save its comments in product_comments.  What a crawl may     *)
(* claim of its completeness is ThreadCrawl's; here a page brings some     *)
(* threads that the crawl has not seen, and any page may be the last: by   *)
(* --limit, by the total, or by a stop that only a warning tells of.       *)
(***************************************************************************)
EXTENDS Jobs

CONSTANT Comments \* what AppSumo may serve: rows [kind, id, parent], 0 for no parent

Kinds == {"review", "question"}

ASSUME CommentSaveAssumption ==
  \A c \in Comments :
    /\ c.kind \in Kinds
    /\ c.parent # 0 => \E d \in Comments : d.kind = c.kind /\ d.id = c.parent

StartThread(p, kind) ==
  \E save \in BOOLEAN :
    StartJob(p, [Idle EXCEPT !.cmd = "thread", !.pc = "resolving", !.kinds = <<kind>>,
                             !.save = save])

StartReviews(p) == StartThread(p, "review")
StartQuestions(p) == StartThread(p, "question")

\* Behind a crawl: the next one, and behind the last the files of scrape or the save.
Crawled(j) ==
  CASE j.at < Len(j.kinds) -> [j EXCEPT !.pc = "crawling", !.at = @ + 1]
    [] j.at >= Len(j.kinds) /\ j.cmd = "scrape" -> [j EXCEPT !.pc = "writing", !.at = 1]
    [] j.at >= Len(j.kinds) /\ j.cmd = "thread" -> IF j.save THEN Saving(j, 1) ELSE Done(j)

\* The page a command starts from; one without a deal's id is refused.
ReadProductPage(p, cmd) ==
  /\ In(p, cmd, "resolving")
  /\ \/ Unanswered(p)
     \/ Answer(p, Crawled([job[p] EXCEPT !.at = 0]))

ResolveProduct(p) == ReadProductPage(p, "thread")

\* Threads come whole, a top comment with its replies.
Threads(rows) ==
  {s \in SUBSET rows : \A r \in s : r.parent = 0 \/ \E q \in s : q.id = r.parent}

CrawlPage(p) ==
  /\ job[p].pc = "crawling"
  /\ \/ Unanswered(p)
     \/ \E new \in Threads(OfKind(Comments, job[p].kinds[job[p].at]) \ job[p].got) :
          LET j == [job[p] EXCEPT !.got = @ \cup new]
          IN  Answer(p, Crawled(j)) \/ (new # {} /\ Answer(p, j))

ThreadStep(p) == StartReviews(p) \/ StartQuestions(p) \/ ResolveProduct(p) \/ CrawlPage(p)

=============================================================================
