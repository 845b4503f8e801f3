---------------------------- MODULE MCThreadCrawl ----------------------------
(* ThreadCrawl on five comments, windows of one to three rows of which the   *)
(* endpoint serves at most two, and a request cap four comments can hit.     *)
EXTENDS ThreadCrawl

CONSTANTS c1, c2, c3, c4, c5

MCComments == {c1, c2, c3, c4, c5}

MCQueries ==
  { [limit |-> 0, pageSize |-> 2, order |-> ""],
    [limit |-> 0, pageSize |-> 1, order |-> "desc"],
    [limit |-> 0, pageSize |-> 2, order |-> "desc"],
    [limit |-> 0, pageSize |-> 0, order |-> "asc"],   \* substituted by the default
    [limit |-> 0, pageSize |-> 1, order |-> "asc"],
    [limit |-> 2, pageSize |-> 1, order |-> ""],
    [limit |-> 3, pageSize |-> 2, order |-> "desc"],
    [limit |-> 3, pageSize |-> 2, order |-> "asc"] }

=============================================================================
