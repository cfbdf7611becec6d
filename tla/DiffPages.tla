----------------------------- MODULE DiffPages ------------------------------
(***************************************************************************)
(* The preview's differences, page by page (StoredDataPlan::diff_page):    *)
(* the operations of all tables lie in one spool; a page starts at the     *)
(* cursor, skips other tables, and ends when it is full, when the next     *)
(* item would exceed the answer's budget, or with the spool.  An operation *)
(* is [table, size], its size that of its encoded item.                    *)
(***************************************************************************)
EXTENDS Sums, SequencesExt

CONSTANTS
  Operations,   \* the spools considered: sequences of [table, size]
  PageSizes,    \* the page sizes a caller asks for
  MaxPageSize,  \* 200
  PageBudget    \* the bytes of an answer

\* The operations lie in a spool, each with the size of its encoded item.
ASSUME PagesConstants ==
  PageBudget \in Nat /\ Operations \subseteq Seq([table : Nat, size : Nat])

VARIABLES
  spool,        \* the operations of the plan
  cursor,       \* where the next page starts
  shown,        \* the positions the caller received, in order
  pages         \* "more", "end" or "error"

pageVars == <<spool, cursor, shown, pages>>

PageTable == 1

(* The positions of the table's operations behind "from", up to "to", and  *)
(* the bytes of their items.                                               *)
Mine(ops, from, to) ==
  LET items[n \in 0..Len(ops)] ==
        IF n <= from THEN <<>>
        ELSE IF ops[n].table = PageTable THEN Append(items[n - 1], n) ELSE items[n - 1]
  IN  items[to]
Bytes(ops, items) == Sum([i \in DOMAIN items |-> ops[items[i]].size])

PagesInit ==
  /\ spool \in Operations
  /\ cursor = 0 /\ shown = <<>> /\ pages = "more"

(* Where a page of at most size items ends: at the item that fills it, or  *)
(* before the one that exceeds the budget, which the next page shows.      *)
PageEnd(size) ==
  LET fits == {to \in cursor..Len(spool) :
                 /\ Bytes(spool, Mine(spool, cursor, to)) <= PageBudget
                 /\ \/ Len(Mine(spool, cursor, to)) < size
                    \/ Len(Mine(spool, cursor, to)) = size /\ (to = cursor \/ spool[to].table = PageTable)} IN
  CHOOSE to \in fits : \A n \in fits : n <= to

(* Faulty: the item that did not fit counts as read. *)
PositionSkipping(end, size) ==
  IF end < Len(spool) /\ Len(Mine(spool, cursor, end)) < size THEN end + 1 ELSE end

(* Where the next page starts: the item that did not fit is read again. *)
Position(end, size) == end

(* A page is refused when its size is out of range or one of its items     *)
(* alone exceeds the budget.                                               *)
diff_page(size) ==
  /\ pages # "end"
  /\ LET end == PageEnd(size)
         blocked == end < Len(spool) /\ spool[end + 1].table = PageTable /\ spool[end + 1].size > PageBudget
                    /\ Len(Mine(spool, cursor, end)) < size IN
     IF size \notin 1..MaxPageSize \/ blocked
     THEN pages' = (IF blocked /\ size \in 1..MaxPageSize THEN "error" ELSE pages) /\ UNCHANGED <<cursor, shown>>
     ELSE /\ shown' = shown \o Mine(spool, cursor, end)
          /\ cursor' = Position(end, size)
          /\ pages' = IF cursor' < Len(spool) THEN "more" ELSE "end"
  /\ UNCHANGED spool

PagesNext == \E size \in PageSizes : diff_page(size)

PagesSpec == PagesInit /\ [][PagesNext]_pageVars

(* plan.rs: once the last page was answered, the caller has seen every     *)
(* operation of the table once and in order, whatever page sizes it mixed  *)
(* and wherever the budget cut a page; an error appears only for an item   *)
(* that no page can hold.                                                  *)
PagesComplete ==
  /\ pages = "end" => shown = Mine(spool, 0, Len(spool))
  /\ IsPrefix(shown, Mine(spool, 0, Len(spool)))
  /\ pages = "error" => \E i \in 1..Len(spool) : spool[i].table = PageTable /\ spool[i].size > PageBudget
=============================================================================
