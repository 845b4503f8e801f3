----------------------------- MODULE MCBuyAdvice -----------------------------
(* A small catalog in which the hard cases meet: two deals whose names share a *)
(* word, the newer crowding the older out, a third that is owned and whose     *)
(* slug is another's but for the hyphen, categories and prices that differ     *)
(* between columns and raw_json, a veto written with a hyphen, and a list of   *)
(* which the window of one line shows the first.                               *)
EXTENDS BuyAdvice

Phrase(size, has, parts, squeezed, spaced) ==
  [size |-> size, has |-> has, parts |-> parts, squeezed |-> squeezed, spaced |-> spaced]
Word(size, p) == Phrase(size, {p}, <<p>>, p, p)

MCLexicon ==
  [p \in {"", "pad", "pro", "padpro", "pad-pro", "pad pro", "taku", "taku pad", "takupad", "ai", "crm", "writing",
          "e-commerce", "e commerce", "commerce", "zapier", "template", "software",
          "api", "platform", "(example", "client management"} |->
     CASE p = ""           -> Phrase(0, {}, <<>>, "", "")
       [] p = "pad-pro"    -> Phrase(7, {"pad-pro", "pad", "pro"}, <<"pad", "pro">>, "padpro", "pad pro")
       [] p = "pad pro"    -> Phrase(7, {"pad pro", "pad", "pro"}, <<"pad", "pro">>, "padpro", "pad pro")
       [] p = "taku pad"   -> Phrase(8, {"taku pad", "taku", "pad"}, << "taku", "pad">>, "takupad", "taku pad")
       [] p = "padpro"     -> Phrase(6, {"padpro", "pad", "pro"}, <<"padpro">>, "padpro", "padpro")
       [] p = "e-commerce" -> Phrase(10, {"e-commerce", "commerce"}, <<"commerce">>, "commerce", "e commerce")
       [] p = "e commerce" -> Phrase(10, {"e commerce", "commerce"}, <<"commerce">>, "commerce", "e commerce")
       [] OTHER            -> Word(CASE p \in {"ai"} -> 2 [] p \in {"pad", "pro", "crm", "api"} -> 3
                                     [] p = "taku" -> 4 [] OTHER -> 8, p)]

Pad == [slug |-> "pad", name |-> "pad", says |-> {"ai"}, alt |-> {}, sub |-> "", cat |-> "",
        tax |-> "writing", price |-> 59, plans |-> <<59>>, free |-> FALSE, rating |-> 46,
        reviews |-> 20, since |-> 1]
PadPro == [Pad EXCEPT !.slug = "pad-pro", !.name = "pad pro", !.says = {"ai", "e commerce"},
                      !.price = 99, !.plans = <<99>>, !.rating = 49, !.reviews = 80,
                      !.since = 2]
MCListings ==
  {Pad, [Pad EXCEPT !.sub = "client management", !.cat = "crm"], PadPro,
   [PadPro EXCEPT !.slug = "padpro", !.name = "taku pad", !.says = {"ai", "pad-pro"},
                  !.alt = {"zapier"}, !.price = 0, !.since = 3]}
MCTools == { "taku"}
MCCompetitors == {"zapier"}
MCSaturated == {"crm"}
MCCapabilities == {{"template", "pad"}}
MCCoveredSubs == {"client management"}
MCNonSoftware == {"template"}
MCStrategic == {"ai"}
MCPlaceholders == {"(example"}
MCNotes == {[zone |-> "blacklist", line |-> "e-commerce", at |-> 2],
            [zone |-> "blacklist", line |-> "(example", at |-> 1]}
MCAssetNotes == {[zone |-> "new_assets", line |-> "pro", at |-> 1]}

=============================================================================
