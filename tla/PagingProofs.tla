---------------------------- MODULE PagingProofs ----------------------------
(* The paging arithmetic for every width of integers. *)
EXTENDS Paging, TLAPS

(* No 64-bit operation changes a result that fits. *)
LEMMA WrapExact ==
    ASSUME NEW n \in Int, 0 - (MaxInt + 1) <= n, n <= MaxInt
    PROVE  Wrap(n) = n
  <1>1. MaxInt \in Nat
    BY PagingAssumption
  <1>2. n + MaxInt + 1 \in 0 .. (2 * (MaxInt + 1) - 1)
    BY <1>1
  <1>3. (n + MaxInt + 1) % (2 * (MaxInt + 1)) = n + MaxInt + 1
    <2>1. \A k, m \in Int : m > 0 /\ k \in 0 .. m - 1 => k % m = k
      BY SMT
    <2>2. 2 * (MaxInt + 1) > 0 /\ 2 * (MaxInt + 1) \in Int
      BY <1>1
    <2> QED BY <1>1, <1>2, <2>1, <2>2
  <1> QED BY <1>1, <1>3 DEF Wrap

(* A product bounded through a division does not exceed the bound. *)
LEMMA DivisionBounds ==
    ASSUME NEW k \in Nat, NEW s \in Nat \ {0}, NEW m \in Nat, k <= m \div s
    PROVE  k * s \in Nat /\ k * s <= m
  <1>1. (m \div s) \in Int /\ s * (m \div s) <= m
    BY SMT
  <1>2. \A a, b \in Int : a <= b => a * s <= b * s
    BY SMT
  <1>3. k * s <= (m \div s) * s
    BY <1>1, <1>2
  <1>4. (m \div s) * s = s * (m \div s)
    BY <1>1, SMT
  <1>5. k * s \in Nat
    BY SMT
  <1> QED BY <1>1, <1>3, <1>4, <1>5

(***************************************************************************)
(* The check page - 1 > math.MaxInt64/pageSize is exactly what keeps       *)
(* (Page - 1) * PageSize from overflowing: the offset of an accepted page  *)
(* is the mathematical product, and not negative.                          *)
(***************************************************************************)
THEOREM AcceptedOffset ==
    ASSUME NEW page, NEW pageSize, PageAccepted(page, pageSize)
    PROVE  /\ Offset(page, pageSize) = (page - 1) * pageSize
           /\ Offset(page, pageSize) \in 0 .. MaxInt
  <1>1. /\ MaxInt \in Nat
        /\ page \in 1 .. MaxInt /\ pageSize \in 1 .. MaxInt
        /\ page - 1 <= MaxInt \div pageSize
    BY PagingAssumption DEF PageAccepted, PositiveInt64
  <1>2. page - 1 \in Nat /\ pageSize \in Nat \ {0} /\ page - 1 <= MaxInt
    BY <1>1
  <1>3. (page - 1) * pageSize \in Nat /\ (page - 1) * pageSize <= MaxInt
    BY <1>1, <1>2, DivisionBounds
  <1>4. Wrap(page - 1) = page - 1
    BY <1>1, <1>2, WrapExact
  <1>5. Wrap((page - 1) * pageSize) = (page - 1) * pageSize
    BY <1>1, <1>3, WrapExact
  <1>6. Offset(page, pageSize) = (page - 1) * pageSize
    BY Zenon, <1>4, <1>5 DEF Offset
  <1>7. (page - 1) * pageSize \in 0 .. MaxInt
    BY <1>1, <1>3
  <1> QED BY Zenon, <1>6, <1>7

(***************************************************************************)
(* And it refuses nothing that would fit: a page whose exact offset is     *)
(* representable is accepted.                                              *)
(***************************************************************************)
THEOREM RefusedOffsetOverflows ==
    ASSUME NEW page \in PositiveInt64, NEW pageSize \in PositiveInt64,
           pageSize <= MaxPageSize, (page - 1) * pageSize <= MaxInt
    PROVE  PageAccepted(page, pageSize)
  <1>1. /\ MaxInt \in Nat /\ page - 1 \in Nat /\ pageSize \in Nat \ {0}
    BY PagingAssumption DEF PositiveInt64
  <1> DEFINE q == MaxInt \div pageSize
  <1>2. q \in Int /\ MaxInt < pageSize * (q + 1)
    BY <1>1, SMT
  <1>3. ASSUME page - 1 > q PROVE FALSE
    <2>1. q + 1 <= page - 1
      BY <1>1, <1>2, <1>3
    <2> HIDE DEF q
    <2>2. \A a, b \in Int : a <= b => pageSize * a <= b * pageSize
      BY <1>1, SMT
    <2>3. pageSize * (q + 1) <= (page - 1) * pageSize
      BY <1>1, <1>2, <2>1, <2>2
    <2>4. pageSize * (q + 1) \in Int /\ (page - 1) * pageSize \in Int
      BY <1>1, <1>2
    <2> QED BY <1>1, <1>2, <2>3, <2>4
  <1> QED BY <1>1, <1>3 DEF PageAccepted, PositiveInt64

(***************************************************************************)
(* totalPages of NewPagination is the number of pages needed: the last     *)
(* page it counts holds an item, and none lies beyond it, as long as the   *)
(* count leaves room for one page below MaxInt.                            *)
(***************************************************************************)
THEOREM TotalPagesExact ==
    ASSUME NEW pageSize \in PositiveInt64, NEW totalItems \in Nat,
           totalItems + pageSize <= MaxInt
    PROVE  LET n == TotalPages(pageSize, totalItems) IN
           /\ n \in Nat
           /\ totalItems <= n * pageSize
           /\ n > 0 => (n - 1) * pageSize < totalItems
  <1>1. MaxInt \in Nat /\ pageSize \in Nat \ {0}
    BY PagingAssumption DEF PositiveInt64
  <1>2. CASE totalItems = 0
    BY <1>1, <1>2 DEF TotalPages
  <1>3. CASE totalItems > 0
    <2> DEFINE m == totalItems + pageSize - 1
               n == m \div pageSize
    <2>1. Wrap(Wrap(totalItems + pageSize) - 1) = m
      <3>1. Wrap(totalItems + pageSize) = totalItems + pageSize
        BY <1>1, WrapExact
      <3> QED BY <1>1, <1>3, <3>1, WrapExact
    <2>2. TotalPages(pageSize, totalItems) = n
      BY <1>1, <1>3, <2>1 DEF TotalPages
    <2>3. m \in Nat
      BY <1>1, <1>3
    <2>4. n \in Nat /\ pageSize * n <= m /\ m < pageSize * n + pageSize
      <3> HIDE DEF m
      <3> QED BY <1>1, <2>3, SMT
    <2>5. n * pageSize = pageSize * n /\ (n - 1) * pageSize = pageSize * n - pageSize
              /\ pageSize * n \in Int
      <3> HIDE DEF n
      <3> QED BY <1>1, <2>4, SMT
    <2> QED BY <1>1, <2>2, <2>4, <2>5
  <1> QED BY <1>2, <1>3
=============================================================================
