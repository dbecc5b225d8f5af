----------------------------- MODULE ListingForm -----------------------------
(***************************************************************************)
(* The form that creates and edits listings in the web app                 *)
(* (apps/web/src/app/listings/_components/listing-form.tsx).               *)
(*                                                                         *)
(* A submission saves the listing with its variants and then uploads the   *)
(* chosen files, one after the other.  Each call may be carried out and    *)
(* its answer lost, or be refused; the form then stays as it was filled    *)
(* in, in its mode, and can be submitted again.                            *)
(***************************************************************************)
EXTENDS Naturals, Sequences, FiniteSetsExt

CONSTANTS
    Labels,         \* the labels of variants
    Files,          \* the files to choose from, in their order
    Places,         \* the locations to name
    NoPlace,        \* the location is empty
    MaxListings,    \* bound: listings
    MaxSubmits      \* bound: submissions

VARIABLES
    store,          \* the backend's listings
    opened,         \* the listing the form was opened with, 0 in create mode
    drafts,         \* the labels of the variants in the form
    chosen,         \* the files in the form
    place,          \* the location in the form
    work,           \* the submission under way, or the one that was saved
    message,        \* "none", "saved" or "failed"
    submits         \* bound: submissions made

formVars == <<store, opened, drafts, chosen, place, work, message, submits>>

Locations == Places \cup {NoPlace}
Listing(variants, at) == [variants |-> variants, location |-> at, images |-> {}]

(* The values of a submission and the listing it is of.  History: the      *)
(* location that listing had before it was saved.                          *)
Idle == [stage |-> "idle", variants |-> {}, location |-> NoPlace, files |-> {}, left |-> {},
         listing |-> 0, had |-> NoPlace]

(* The backend has no listing yet, or one of variants and a location.      *)
FormInit ==
    /\ store \in {<<>>} \cup {<<Listing(Labels, l)>> : l \in Places}
    /\ opened = 0 /\ drafts = {} /\ chosen = {} /\ place = NoPlace
    /\ work = Idle
    /\ message = "none"
    /\ submits = 0

Create == opened = 0
Answering == work.stage \in {"saved", "attached"}

(* The new page, or the edit page with the listing it fetched.             *)
Open(n) ==
    /\ n \in 0..Len(store)
    /\ work.stage = "idle"
    /\ opened' = n
    /\ drafts' = IF n = 0 THEN {} ELSE store[n].variants
    /\ place' = IF n = 0 THEN NoPlace ELSE store[n].location
    /\ chosen' = {}
    /\ work' = Idle /\ message' = "none"
    /\ UNCHANGED <<store, submits>>

(* The fields stay editable while the form is submitted.                   *)
EditVariants(d) ==
    /\ d # drafts /\ drafts' = d
    /\ UNCHANGED <<store, opened, chosen, place, work, message, submits>>
Choose(files) ==
    /\ files # chosen /\ chosen' = files
    /\ UNCHANGED <<store, opened, drafts, place, work, message, submits>>
EditLocation(l) ==
    /\ l # place /\ place' = l
    /\ UNCHANGED <<store, opened, drafts, chosen, work, message, submits>>

(* handleSubmit: a field is missing or not a number.                       *)
Invalid ==
    /\ work.stage = "idle" /\ message # "none"
    /\ work' = Idle /\ message' = "none"
    /\ UNCHANGED <<store, opened, drafts, chosen, place, submits>>

(* handleSubmit up to its first call: the payload and the files are those  *)
(* of the form at that moment.                                             *)
Submit ==
    /\ work.stage = "idle"
    /\ submits < MaxSubmits /\ submits' = submits + 1
    /\ work' = [stage |-> "saving", variants |-> drafts, location |-> place, files |-> chosen,
                left |-> chosen, listing |-> opened, had |-> NoPlace]
    /\ message' = "none"
    /\ UNCHANGED <<store, opened, drafts, chosen, place>>

(* The payload names variants when there are some ...                      *)
NamesSomeVariants == work.variants # {}

(* ... and, in edit mode, also when there are none: the page's listing     *)
(* always has a list of variants.                                          *)
NamesVariants == work.variants # {} \/ ~Create

(* The payload leaves an empty location out, and the backend then keeps    *)
(* the one the listing has.                                                *)
Given(listing) ==
    [listing EXCEPT !.variants = IF NamesVariants THEN work.variants ELSE @,
                    !.location = IF work.location # NoPlace THEN work.location ELSE @]

(* The backend creates the listing, or gives it what the payload names.    *)
Save ==
    /\ work.stage = "saving"
    /\ \/ /\ Create /\ Len(store) < MaxListings
          /\ store' = Append(store, Listing(work.variants, work.location))
          /\ work' = [work EXCEPT !.stage = "saved", !.listing = Len(store) + 1]
       \/ /\ ~Create
          /\ store' = [store EXCEPT ![opened] = Given(@)]
          /\ work' = [work EXCEPT !.stage = "saved", !.had = store[opened].location]
    /\ UNCHANGED <<opened, drafts, chosen, place, message, submits>>

Upload ==
    /\ work.stage = "uploading"
    /\ store' = [store EXCEPT ![work.listing].images = @ \cup {Min(work.left)}]
    /\ work' = [work EXCEPT !.stage = "attached"]
    /\ UNCHANGED <<opened, drafts, chosen, place, message, submits>>

(* An answer: the next file is sent, or the form says "Listing saved!".    *)
(* Until the listing's page has loaded the form can be submitted again.    *)
Proceed(left) ==
    IF left = {}
    THEN /\ work' = [work EXCEPT !.stage = "idle", !.left = {}]
         /\ message' = "saved"
    ELSE /\ work' = [work EXCEPT !.stage = "uploading", !.left = left]
         /\ UNCHANGED message

Answered ==
    /\ Answering
    /\ Proceed(IF work.stage = "saved" THEN work.left ELSE work.left \ {Min(work.left)})
    /\ UNCHANGED <<store, opened, drafts, chosen, place, submits>>

(* A call is refused, or it or its answer is lost.                         *)
Failed ==
    /\ work.stage # "idle"
    /\ work' = Idle
    /\ message' = "failed"
    /\ UNCHANGED <<store, opened, drafts, chosen, place, submits>>

FormNext ==
    \/ \E n \in 0..MaxListings : Open(n)
    \/ \E d \in SUBSET Labels : EditVariants(d)
    \/ \E files \in SUBSET Files : Choose(files)
    \/ \E l \in Locations : EditLocation(l)
    \/ Invalid \/ Submit \/ Save \/ Upload \/ Answered \/ Failed
-----------------------------------------------------------------------------
(* A form that says "Listing saved!" has saved what was submitted: the     *)
(* listing has those variants, also when the last one was taken away, and  *)
(* every file chosen, whatever failed and was submitted again before, and  *)
(* it has the location, except for one that was taken away: the listing    *)
(* still has the location it had.  The status is not the form's to give    *)
(* (ListingModeration).                                                    *)
SavedFormsAreComplete ==
    message = "saved" =>
        LET saved == store[work.listing]
        IN  /\ saved.variants = work.variants
            /\ work.files \subseteq saved.images
            /\ saved.location = IF work.location # NoPlace THEN work.location ELSE work.had
=============================================================================
