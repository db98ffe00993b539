------------------------------ MODULE Listings ------------------------------
(***************************************************************************)
(* The two paginated listings, read page by page by a client while they    *)
(* change: the upcoming events of the event service, which leave the list  *)
(* from the front as their dates pass, and the purchase history of a user  *)
(* of the ticket service, where newly committed tickets join.              *)
(*                                                                         *)
(* Each response is two statements, a COUNT and a SELECT ... ORDER BY ...  *)
(* LIMIT ? OFFSET ?, outside of any transaction.  Neither ORDER BY is      *)
(* unique, and the server orders equal rows as it likes, differently every *)
(* time.  The client asks for pages as long as the pagination it got       *)
(* promises more.  Pages and sizes are small: products past 63 bits are    *)
(* left out.                                                               *)
(***************************************************************************)
EXTENDS Integers, FiniteSets, Sequences, SequencesExt

CONSTANTS
  Items,     \* events, or tickets of the user
  Ranks,     \* values of the ORDER BY column, first to last
  Sizes,     \* values of per_page a client may ask for
  Default,   \* page size when it asks for none, 10
  Cap        \* largest page of the event listing, 100

ASSUME ListingsAssumption ==
  /\ IsFiniteSet(Items)
  /\ Ranks \subseteq Int /\ Sizes \subseteq Int
  /\ Default \in Nat \ {0} /\ Cap \in Nat \ {0}

VARIABLES
  listing,  \* "events" or "tickets"
  rank,     \* ORDER BY value of each item
  listed,   \* items that the WHERE clause selects now
  perPage,  \* per_page as asked
  stage,    \* what the service does next for the client
  page,     \* the page it is working on
  total,    \* the COUNT of that page
  pages,    \* the items of each page answered so far
  start,    \* history: items listed when the first page was counted
  split     \* history: a ticket joined between a COUNT and its SELECT

vars == <<listing, rank, listed, perPage, stage, page, total, pages, start, split>>

Init ==
  /\ listing \in {"events", "tickets"}
  /\ rank \in [Items -> Ranks]
  /\ listed \in SUBSET Items
  /\ listing = "events" => listed = Items
  /\ perPage \in Sizes
  /\ stage = "count"
  /\ page = 1
  /\ total = 0
  /\ pages = <<>>
  /\ start = {}
  /\ split = FALSE

-----------------------------------------------------------------------------
(* The page size the service uses, and tells the client. *)
PageSize ==
  IF perPage < 1 THEN Default
  ELSE IF listing = "events" /\ perPage > Cap THEN Cap ELSE perPage

(* Mutant: pages are taken to start at 0. *)
OffsetFromZero == page * PageSize

Offset == (page - 1) * PageSize

(* Where ORDER BY may place an item: behind those of smaller rank, anywhere *)
(* among its equals.                                                       *)
Before(i) == Cardinality({j \in listed : rank[j] < rank[i]})

Equal(i) == {j \in listed : rank[j] = rank[i]}

Positions(i) == Before(i) + 1 .. Before(i) + Cardinality(Equal(i))

(* Rows at positions Offset + 1 to Offset + size of some order of the list *)
(* that agrees with the ranks: as many of each group of equal rows as the  *)
(* group has positions there.                                              *)
Slices(size) ==
  LET There(i) == Positions(i) \cap (Offset + 1 .. Offset + size)
  IN {S \in SUBSET listed :
        \A i \in listed : Cardinality(S \cap Equal(i)) = Cardinality(There(i))}

(* Mutant: the COUNT has no WHERE clause. *)
CountAll ==
  /\ stage = "count"
  /\ total' = Cardinality(Items)
  /\ stage' = "select"
  /\ start' = IF pages = <<>> THEN listed ELSE start
  /\ UNCHANGED <<listing, rank, listed, perPage, page, pages, split>>

Count ==
  /\ stage = "count"
  /\ total' = Cardinality(listed)
  /\ stage' = "select"
  /\ start' = IF pages = <<>> THEN listed ELSE start
  /\ UNCHANGED <<listing, rank, listed, perPage, page, pages, split>>

(* The answer, and the next page if there is one. *)
Answer(S) ==
  /\ stage = "select"
  /\ pages' = Append(pages, S)
  /\ IF page * PageSize < total
     THEN stage' = "count" /\ page' = page + 1
     ELSE stage' = "done" /\ UNCHANGED page
  /\ UNCHANGED <<listing, rank, listed, perPage, total, start, split>>

(* Mutant: one row more, to know whether there is a next page. *)
SelectOneMore == \E S \in Slices(PageSize + 1) : Answer(S)

Select == \E S \in Slices(PageSize) : Answer(S)

(* Either statement fails; the client asks for the page again. *)
Fail ==
  /\ stage = "select"
  /\ stage' = "count"
  /\ UNCHANGED <<listing, rank, listed, perPage, page, total, pages, start, split>>

-----------------------------------------------------------------------------
(* The dates of the next events pass. *)
EventsBegin ==
  /\ listing = "events" /\ stage # "done"
  /\ \E i \in listed :
       /\ \A j \in listed : rank[i] <= rank[j]
       /\ listed' = {j \in listed : rank[j] > rank[i]}
  /\ UNCHANGED <<listing, rank, perPage, stage, page, total, pages, start, split>>

(* A purchase commits.  Its created_at was taken before, so it need not be *)
(* the newest ticket.                                                      *)
TicketJoins ==
  /\ listing = "tickets" /\ stage # "done"
  /\ \E i \in Items \ listed : listed' = listed \cup {i}
  /\ split' = (split \/ stage = "select")
  /\ UNCHANGED <<listing, rank, perPage, stage, page, total, pages, start>>

Next == Count \/ Select \/ Fail \/ EventsBegin \/ TicketJoins

Spec == Init /\ [][Next]_vars

-----------------------------------------------------------------------------
(***************************************************************************)
(* Properties.                                                             *)
(***************************************************************************)

Seen == UNION ToSet(pages)

Untied(i) == \A j \in Items : rank[j] = rank[i] => j = i

(* A user who pages through the history to its end has seen every ticket   *)
(* that was in it at the beginning, however many join meanwhile, unless a  *)
(* ticket joined between the two statements of one response or shares its  *)
(* second with another (FindByUserID, ticket_repo_mysql.go:86-121).        *)
HistoryComplete ==
  listing = "tickets" /\ stage = "done" /\ ~split =>
    \A i \in start : Untied(i) => i \in Seen

(* Events that begin while a visitor pages through the list hide at most   *)
(* as many others from him: without ties, what is still to come and was    *)
(* shown on no page is never more than what has begun meanwhile            *)
(* (FindUpcoming, event_repo_mysql.go:18-44).                              *)
FewEventsHidden ==
  listing = "events" /\ stage = "done" /\ (\A i \in Items : Untied(i)) =>
    Cardinality(listed \ Seen) <= Cardinality(start \ listed)

(* No event is shown on two pages, save one that shares its date.          *)
EventsShownOnce ==
  listing = "events" =>
    \A p, q \in DOMAIN pages : \A i \in pages[p] \cap pages[q] :
      Untied(i) => p = q

(* The count and the page are taken at two moments and still agree in one  *)
(* direction: a page of the history is never shorter than its total        *)
(* promises, a page of events never longer (service and repository of      *)
(* both listings).                                                         *)
PageAgreesWithTotal ==
  [][stage = "select" /\ pages' # pages =>
       LET shown == Cardinality(Last(pages'))
           rest == IF total > Offset THEN total - Offset ELSE 0
           promised == IF rest < PageSize THEN rest ELSE PageSize
       IN IF listing = "tickets" THEN shown >= promised
                                 ELSE shown <= promised]_vars

-----------------------------------------------------------------------------
(***************************************************************************)
(* The invariant that the proofs in ListingsProofs.tla rest on.            *)
(***************************************************************************)

ListingsTypeOK ==
  /\ listing \in {"events", "tickets"}
  /\ rank \in [Items -> Ranks]
  /\ listed \subseteq Items
  /\ perPage \in Sizes
  /\ stage \in {"count", "select", "done"}
  /\ page \in Nat \ {0}
  /\ total \in Nat
  /\ pages \in Seq(SUBSET Items)
  /\ start \subseteq Items
  /\ split \in BOOLEAN
  /\ Len(pages) = IF stage = "done" THEN page ELSE page - 1

(* Events leave the list and tickets join it, after a COUNT and after the  *)
(* first.                                                                  *)
CountsStale ==
  /\ listing = "tickets" => start \subseteq listed
  /\ listing = "events" /\ (stage = "select" \/ pages # <<>>) => listed \subseteq start
  /\ stage = "select" =>
       /\ listing = "tickets" /\ ~split => total = Cardinality(listed)
       /\ listing = "tickets" => total <= Cardinality(listed)
       /\ listing = "events" => total >= Cardinality(listed)

(* What was shown on a page has not moved behind it.                       *)
ShownStaysBehind ==
  listing = "events" =>
    \A p \in DOMAIN pages : \A i \in pages[p] \cap listed :
      Untied(i) => Before(i) < p * PageSize

(* The tickets of the beginning that were not shown are still to come.     *)
UnseenToCome ==
  listing = "tickets" /\ stage # "done" =>
    \A i \in start \ Seen : Untied(i) => Before(i) >= Offset

(* Only as many events as have begun have slipped to pages shown already.  *)
Slipped == {i \in listed \ Seen : Before(i) < Offset}

FewSlipped ==
  listing = "events" /\ stage # "done" /\ (\A i \in Items : Untied(i)) =>
    Cardinality(Slipped) <= Cardinality(start \ listed)

(* What the pages hold, what the list holds and how far the client has     *)
(* come agree (ticket_repo_mysql.go:86-121, event_repo_mysql.go:18-44).    *)
ListingsInv ==
  /\ ListingsTypeOK
  /\ CountsStale
  /\ ShownStaysBehind
  /\ UnseenToCome
  /\ FewSlipped
  /\ EventsShownOnce
  /\ HistoryComplete
  /\ FewEventsHidden

=============================================================================
