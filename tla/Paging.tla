------------------------------- MODULE Paging -------------------------------
(***************************************************************************)
(* The int64 arithmetic of the paged lists: which pages a query may ask    *)
(* for, the OFFSET computed from them, and totalPages of the answer.       *)
(***************************************************************************)
EXTENDS Integers

CONSTANTS
    MaxInt,       \* math.MaxInt64
    MaxPageSize   \* maxCampaignListPageSize and its two namesakes

ASSUME PagingAssumption == MaxPageSize \in Nat \ {0} /\ MaxInt \in Nat /\ MaxInt >= MaxPageSize

(* Two's complement: what an int64 operation leaves of the exact result. *)
Wrap(n) == ((n + MaxInt + 1) % (2 * (MaxInt + 1))) - (MaxInt + 1)

(* parsePositiveInt64 *)
PositiveInt64 == 1 .. MaxInt

(* Variant: only the page itself is bounded. *)
PageAccepted_pageOnly(page, pageSize) ==
    /\ page \in PositiveInt64
    /\ pageSize \in PositiveInt64 /\ pageSize <= MaxPageSize

(* The checks of page and pageSize in the three ...ListOptionsFromQuery. *)
PageAccepted(page, pageSize) ==
    /\ page \in PositiveInt64
    /\ pageSize \in PositiveInt64 /\ pageSize <= MaxPageSize
    /\ ~(page - 1 > MaxInt \div pageSize)

Offset(page, pageSize) == Wrap(Wrap(page - 1) * pageSize)

(* Variant: the last, incomplete page is not counted. *)
TotalPages_floor(pageSize, totalItems) == totalItems \div pageSize

(* NewPagination *)
TotalPages(pageSize, totalItems) ==
    IF pageSize > 0 /\ totalItems > 0
      THEN Wrap(Wrap(totalItems + pageSize) - 1) \div pageSize
      ELSE 0
=============================================================================
