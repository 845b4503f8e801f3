------------------------------- MODULE DealAudit -------------------------------
(***************************************************************************)
(* DealAuditor.audit_deal_steps and AssetKnowledgeBase.is_owned: the chain *)
(* of rules a deal goes through, of which the first that hits decides.     *)
(*                                                                         *)
(* A text is a phrase, and Lexicon says what Python's string operations    *)
(* find in each phrase.  The tables of the script (competitors, saturated  *)
(* categories, what local tools can do, ...) are constants, sets of        *)
(* phrases.  The reason, the trace and the score of a verdict are left out *)
(* (a wish on the page changes the score only).                            *)
(***************************************************************************)
EXTENDS Integers, Sequences, FiniteSets

CONSTANTS
  Lexicon,       \* of each phrase: its size, the phrases it has, its parts (words),
                 \* and itself squeezed (letters and digits only) and spaced (no - or _)
  Tools,         \* clean names in the file of purchased assets
  Competitors,   \* keys of COMPETITOR_TO_OWNED_ASSET
  Saturated,     \* keys of SATURATED_SUBCATEGORIES
  Capabilities,  \* Step 4: sets of phrases; all of one in a deal's text is a hit
  CoveredSubs,   \* Step 4: phrases; one of them in the subcategory is a hit
  NonSoftware,   \* NON_SOFTWARE_PATTERNS
  Strategic      \* STRATEGIC_DOMAINS

ASSUME LexiconAssumption ==
  \A p \in DOMAIN Lexicon :
    /\ Lexicon[p].size \in Nat
    /\ Lexicon[p].has \subseteq DOMAIN Lexicon
    /\ {Lexicon[p].squeezed, Lexicon[p].spaced} \subseteq DOMAIN Lexicon
    /\ Lexicon[p].parts \in Seq(DOMAIN Lexicon)

Occurs(p, text) == p \in Lexicon[text].has
Words(p) == {Lexicon[p].parts[i] : i \in 1..Len(Lexicon[p].parts)}

\* text_to_check: name, description, subcategory and category with - and _ as blanks.
Text(deal) ==
  deal.says \cup UNION {Lexicon[Lexicon[p].spaced].has : p \in {deal.name, deal.sub, deal.cat}}

------------------------------------------------------------------------------
(* What people wrote on the page. *)

\* A long enough name may also be part of the line.
PartOf(deal, line) ==
  \E own \in {deal.name, deal.slug} : Lexicon[own].size >= 4 /\ Occurs(own, line)

NamedBy(deal, line) == Occurs(line, deal.name) \/ Occurs(line, deal.slug)

\* A mutant: only the line as written is looked for.
VetoedVerbatim(deal, line) == line \in Text(deal) \/ NamedBy(deal, line)

Vetoed(deal, line) ==
  {line, Lexicon[line].spaced} \cap Text(deal) # {} \/ NamedBy(deal, line) \/ PartOf(deal, line)

Declared(deal, line) ==
  line \in Text(deal) \/ NamedBy(deal, line) \/ PartOf(deal, line)
    \/ Occurs(Lexicon[line].spaced, deal.name)

------------------------------------------------------------------------------
(* The other rules. *)

IsFree(deal) == ~deal.unresolved /\ (deal.free \/ deal.price <= 0)

\* One word must be one of the deal's words, or occur in its slug if long; of
\* several words only those longer than two letters are looked for.
OwnedAs(deal, tool) ==
  LET parts == Lexicon[tool].parts
      mine  == Words(deal.name) \cup Words(deal.slug)
      slug  == Lexicon[deal.slug].squeezed
  IN  /\ parts # <<>>
      /\ \/ Lexicon[tool].squeezed \in {Lexicon[deal.name].squeezed, slug}
         \/ /\ Len(parts) = 1
            /\ \/ Lexicon[parts[1]].size >= 3 /\ parts[1] \in mine
               \/ Lexicon[parts[1]].size > 4 /\ Occurs(parts[1], slug)
         \/ /\ Len(parts) > 1
            /\ \A w \in Words(tool) : Lexicon[w].size > 2 => w \in mine

IsOwned(deal) == \E tool \in Tools : OwnedAs(deal, tool)

HasCompetitor(deal) == \E a \in deal.alt, key \in Competitors : Occurs(key, a)

IsSaturated(deal) == {deal.sub, deal.cat} \cap Saturated # {}

IsCovered(deal) ==
  \/ \E phrases \in Capabilities : phrases \subseteq Text(deal)
  \/ \E p \in CoveredSubs : Occurs(p, deal.sub)

IsNoSoftware(deal) ==
  NonSoftware \cap Text(deal) # {} /\ {"software", "api", "platform"} \cap Text(deal) = {}

LacksReviews(deal) == deal.rating < 45 \/ deal.reviews < 10

IsOffStrategy(deal) == Strategic \cap Text(deal) = {}

\* The rules in their order; the last one always hits.
Rules(deal, told) == <<
  [rule |-> "vetoed",      hit |-> \E line \in told.blacklist : Vetoed(deal, line)],
  [rule |-> "declared",    hit |-> \E line \in told.new_assets : Declared(deal, line)],
  [rule |-> "free",        hit |-> IsFree(deal)],
  [rule |-> "owned",       hit |-> IsOwned(deal)],
  [rule |-> "competitor",  hit |-> HasCompetitor(deal)],
  [rule |-> "saturated",   hit |-> IsSaturated(deal)],
  [rule |-> "covered",     hit |-> IsCovered(deal)],
  [rule |-> "no software", hit |-> IsNoSoftware(deal)],
  [rule |-> "unresolved",  hit |-> deal.unresolved],
  [rule |-> "reviews",     hit |-> LacksReviews(deal)],
  [rule |-> "off track",   hit |-> IsOffStrategy(deal)],
  [rule |-> "recommended", hit |-> TRUE] >>

Verdict(deal, told) ==
  LET rules == Rules(deal, told)
      first == CHOOSE i \in 1..Len(rules) :
                 rules[i].hit /\ \A j \in 1..(i - 1) : ~rules[j].hit
  IN  rules[first].rule

=============================================================================
