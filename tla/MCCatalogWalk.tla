---------------------------- MODULE MCCatalogWalk ----------------------------
(* CatalogWalk on four deals: windows of one to three rows, a request cap a  *)
(* four-deal walk can hit, with and without limits, filters and keywords.    *)
EXTENDS CatalogWalk

CONSTANTS d1, d2, d3, d4

MCDeals == {d1, d2, d3, d4}
MCRank == [d \in MCDeals |-> CASE d = d1 -> 1 [] d = d2 -> 3 [] d = d3 -> 3 [] OTHER -> 2]

Plain == [limit |-> 0, perPage |-> 2, sort |-> "newest", filtered |-> FALSE,
          matching |-> {}, keyword |-> FALSE]

\* What `deals list`, `search`, `ideal` and `sync` can ask for.
MCQueries ==
  { Plain,
    [Plain EXCEPT !.perPage = 0],                    \* substituted by the default
    [Plain EXCEPT !.perPage = 1, !.sort = ""],       \* substituted sort
    [Plain EXCEPT !.limit = 2, !.sort = "rating"],
    [Plain EXCEPT !.keyword = TRUE],
    [Plain EXCEPT !.filtered = TRUE, !.matching = {d1, d2, d3}, !.limit = 2],
    [Plain EXCEPT !.filtered = TRUE, !.matching = {d1, d4}] }

=============================================================================
