------------------------------- MODULE Cards -------------------------------
(***************************************************************************)
(* A visitor of the public card pages: CardsController.getCard             *)
(* (businesses/cards.controller.ts) over BusinessService.resolveSlug and   *)
(* GlobalExceptionFilter (common/filters/global-exception.filter.ts),      *)
(* composed with everything that BusinessLifecycle does to the tables.     *)
(*                                                                         *)
(* The visitor keeps the address of a listing that was on the air and asks *)
(* there at any later time.  resolveSlug reads two tables, one after the   *)
(* other, and handlers run between the two reads.                          *)
(***************************************************************************)
EXTENDS BusinessRefinement

tables == <<db, audit, now, req, job, fails, past>>

OnAir(b) == Live(b) /\ biz[b].status = "active"

----------------------------------------------------------------------------
(* What resolveSlug asks of the tables. *)

\* findOne({slug, status: ACTIVE, deleted_at: IsNull()})
ShownAt(slug) == {b \in BizIds : OnAir(b) /\ biz[b].slug = slug}

\* findOne({old_slug: slug}), of any listing and without an order; the mutation
\* asks only for redirects that lead to a listing on the air.
MovedFromToShown(slug) == {rd \in redirects : rd.old = slug /\ ShownAt(rd.new) # {}}
MovedFrom(slug)        == {rd \in redirects : rd.old = slug}

----------------------------------------------------------------------------
(* What the visitor gets. *)

Card    == [status |-> 200, url |-> Null]
Missing == [status |-> 404, url |-> Null]

\* Having no answer yet is not an answer.
ASSUME AnswerAssumption == Null \notin {Card, Missing}

\* What getCard throws when the slug has moved: status 301 and the new address.
Moved(slug) == [status |-> 301, url |-> slug]

\* What resolveSlug may say when it finds no listing.
Answers(slug) == IF MovedFrom(slug) = {} THEN {Missing}
                                         ELSE {Moved(rd.new) : rd \in MovedFrom(slug)}

\* GlobalExceptionFilter.catch: the status of the exception, and of its response
\* only message and error.
Filtered(answer) == [answer EXCEPT !.url = Null]

----------------------------------------------------------------------------
(* The visitor *)

Bookmark(b) ==
    /\ visit.pc = "away" /\ OnAir(b)
    /\ visit' = [Away EXCEPT !.pc = "marked", !.b = b, !.slug = biz[b].slug]
    /\ UNCHANGED tables

GetCard ==
    /\ visit.pc = "marked"
    /\ visit' = [visit EXCEPT !.pc = "find"]
    /\ UNCHANGED tables

\* seen is history: whether the listing was on the air at this read.
FindListing ==
    /\ visit.pc = "find"
    /\ visit' = IF ShownAt(visit.slug) # {}
                  THEN [visit EXCEPT !.pc = "answered", !.got = Card]
                  ELSE [visit EXCEPT !.pc = "moved", !.seen = OnAir(visit.b)]
    /\ UNCHANGED tables

FindRedirect ==
    /\ visit.pc = "moved"
    /\ \E answer \in Answers(visit.slug) :
         visit' = [visit EXCEPT !.pc = "answered", !.got = Filtered(answer)]
    /\ UNCHANGED tables

\* The address is kept for another visit.
Leave ==
    /\ visit.pc = "answered"
    /\ visit' = [visit EXCEPT !.pc = "marked", !.seen = FALSE, !.got = Null]
    /\ UNCHANGED tables

Visitor == \/ \E b \in BizIds : Bookmark(b)
           \/ GetCard \/ FindListing \/ FindRedirect \/ Leave

CardsSpec     == Init /\ [][Next \/ Visitor]_vars
FairCardsSpec == CardsSpec /\ WF_vars(JobProgress)

----------------------------------------------------------------------------
(* Properties *)

\* A listing on the air is never "not found" at an address it once had, although it
\* is renamed between the two reads of resolveSlug and although renames are rejected
\* or die half-way: the redirect is stored before the slug changes, and read after it
\* (resolveSlug, update).
KnownAddressIsAnswered ==
    [][visit.pc = "moved" /\ visit.seen /\ OnAir(visit.b) => visit'.got # Missing]_vars

\* The slugs that following redirects can lead to from a slug.
LeadsTo(from, to) ==
    \A reached \in SUBSET Slugs :
        from \in reached /\ (\A rd \in redirects : rd.old \in reached => rd.new \in reached)
            => to \in reached

\* However often a listing was renamed, back and forth and with renames that never
\* came to be, the redirects from any address it had on the air still lead to the
\* one it has now (update, generateUniqueSlug, slug_redirects).
OldAddressLeadsHome ==
    visit.b # Null /\ OnAir(visit.b) => LeadsTo(visit.slug, biz[visit.b].slug)
=============================================================================
