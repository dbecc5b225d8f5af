-------------------------- MODULE MCListingModeration --------------------------
(* ListingModeration for TLC *)
EXTENDS ListingModerationProps, TLC

Says(t) == [NoEdit EXCEPT !.first = "given", !.text = t]

\* Texts with and without a status, a status alone, and variants behind an empty
\* price, which requiresRemoderation does not see
Ordinary ==
    {Says("clean"), Says("banned"), [Says("banned") EXCEPT !.status = "PUBLISHED"],
     [NoEdit EXCEPT !.status = "PUBLISHED"], [NoEdit EXCEPT !.status = "DRAFT"],
     [NoEdit EXCEPT !.first = "", !.variants = TRUE]}

\* A status behind an empty location, a text behind an empty title
Blind ==
    Ordinary \cup {[NoEdit EXCEPT !.location = "", !.status = "PUBLISHED"],
                   [Says("banned") EXCEPT !.first = ""]}

Symmetry == Permutations(Requests) \cup Permutations(Workers)
================================================================================
