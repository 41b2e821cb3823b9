------------------------ MODULE CampaignListsProofs ------------------------
(***************************************************************************)
(* Proofs about the paged lists: no accepted request runs a query with a   *)
(* wrapped offset, totalPages is truthful, an undisturbed walk shows every *)
(* row once, and a disturbed one misses no row that kept its place.        *)
(***************************************************************************)
EXTENDS CampaignLists, PagingProofs, FiniteSetTheorems, SequenceTheorems,
        WellFoundedInduction

-----------------------------------------------------------------------------
(***************************************************************************)
(* The tables.  The type of a donation rests on the latest one having a    *)
(* time (HasLatest) and the donations being finitely many, their order on  *)
(* the places being distinct (Placed), and the donor list on a wallet      *)
(* having one live profile (OneProfile).                                   *)
(***************************************************************************)
Supporter == [wallet : Donors \cup {None}, live : BOOLEAN]

Tables == [campaigns : [Campaigns -> Row], deleted : SUBSET Fundraisers,
           supporters : [Profiles -> Supporter], donations : SUBSET Donation]

Times(D) == {0} \cup {x.at : x \in D}

HasLatest(D) == \E m \in Times(D) : \A y \in Times(D) : m >= y

Placed(D) ==
    /\ \A x, y \in D : x.log = y.log => x = y
    /\ \A x \in D : x.log <= Cardinality(D)

OneProfile(d) ==
    \A u, v \in Profiles : /\ d.supporters[u].live /\ d.supporters[v].live
                           /\ d.supporters[u].wallet = d.supporters[v].wallet
                           => u = v

Sound(d) ==
    /\ d \in Tables /\ IsFiniteSet(d.donations)
    /\ HasLatest(d.donations) /\ Placed(d.donations) /\ OneProfile(d)

LEMMA InitSound == Init => Sound(db)
  <1> SUFFICES ASSUME Init PROVE Sound(db)
    OBVIOUS
  <1>1. db.donations = {} /\ db.deleted = {}
    BY DEF Init
  <1>2. \A u \in Profiles : db.supporters[u] = [wallet |-> None, live |-> FALSE]
    BY DEF Init
  <1>3. db \in Tables
    BY DEF Init, Tables, Row, Supporter
  <1>4. HasLatest(db.donations)
    BY <1>1 DEF HasLatest, Times
  <1> QED BY <1>1, <1>2, <1>3, <1>4, FS_EmptySet DEF Sound, OneProfile, Placed

(* A write of one campaigns row. *)
LEMMA RowWritten ==
    ASSUME Sound(db), NEW c \in Campaigns, NEW row \in Row
    PROVE  Sound([db EXCEPT !.campaigns[c] = row])
  <1>1. /\ db \in Tables /\ [db EXCEPT !.campaigns[c] = row] \in Tables
        /\ [db EXCEPT !.campaigns[c] = row].donations = db.donations
        /\ [db EXCEPT !.campaigns[c] = row].supporters = db.supporters
    BY DEF Sound, Tables
  <1> QED BY <1>1 DEF Sound, OneProfile

LEMMA StatusWritten ==
    ASSUME Sound(db), NEW c \in Campaigns, NEW status \in Statuses, SetStatus(c, status)
    PROVE  Sound(db')
  <1> DEFINE row == [db.campaigns[c] EXCEPT !.status = status]
  <1>1. db.campaigns[c] \in Row /\ db \in Tables
    BY DEF Sound, Tables
  <1>2. row \in Row
    BY <1>1 DEF Row
  <1>3. db' = [db EXCEPT !.campaigns[c] = row]
    BY <1>1 DEF SetStatus, Write
  <1> HIDE DEF row
  <1> QED BY <1>2, <1>3, RowWritten

(* A donation is at the latest time or later, and has the next place. *)
LEMMA DonationWritten ==
    ASSUME Sound(db), NEW c \in Campaigns, NEW a \in Donors, NEW amount \in 1 .. MaxAmount,
           Donate(c, a, amount)
    PROVE  Sound(db')
  <1> DEFINE latest == Max({0} \cup {x.at : x \in db.donations})
  <1>1. db.campaigns[c] \in Row /\ db \in Tables /\ IsFiniteSet(db.donations)
        /\ db.donations \subseteq Donation
    BY DEF Sound, Tables
  <1>2. /\ latest \in Nat /\ latest \in Times(db.donations)
        /\ \A y \in Times(db.donations) : latest >= y
    <2>1. PICK m \in Times(db.donations) : \A y \in Times(db.donations) : m >= y
      BY DEF Sound, HasLatest
    <2>2. latest \in Times(db.donations) /\ \A y \in Times(db.donations) : latest >= y
      BY <2>1 DEF Max, Times
    <2>3. Times(db.donations) \subseteq Nat
      BY <1>1 DEF Times, Donation
    <2> QED BY <2>2, <2>3
  <1> HIDE DEF latest
  <1>3. PICK t \in Ticks :
            db' = [db EXCEPT !.campaigns[c].raised = @ + amount,
                     !.donations = @ \cup {[campaign |-> c, donor |-> a, amount |-> amount,
                         at |-> latest + t, log |-> Cardinality(db.donations) + 1]}]
    BY DEF Donate, Write, latest
  <1>4. t \in Nat /\ amount \in Nat
    BY ListAssumption
  <1> DEFINE row == [db.campaigns[c] EXCEPT !.raised = @ + amount]
             new == [campaign |-> c, donor |-> a, amount |-> amount,
                     at |-> latest + t, log |-> Cardinality(db.donations) + 1]
             D   == db.donations \cup {new}
  <1>5. row \in Row
    BY <1>1, <1>4 DEF Row
  <1>6. /\ new \in Donation /\ new.at = latest + t
        /\ new.log = Cardinality(db.donations) + 1 /\ Cardinality(db.donations) \in Nat
    BY <1>1, <1>2, <1>4, FS_CardinalityType DEF Donation
  <1>7. db' = [db EXCEPT !.campaigns[c] = row, !.donations = D]
    BY <1>1, <1>3
  <1> HIDE DEF row, new
  <1>8. IsFiniteSet(D)
    BY <1>1, FS_AddElement
  <1>9. HasLatest(D)
    <2>1. latest + t \in Times(D)
      BY <1>6 DEF Times
    <2>2. ASSUME NEW y \in Times(D) PROVE latest + t >= y
      <3>1. y \in Times(db.donations) \/ y = latest + t
        BY <1>6 DEF Times
      <3>2. y \in Times(db.donations) => latest >= y /\ y \in Nat
        BY <1>1, <1>2 DEF Times, Donation
      <3> QED BY <1>2, <1>4, <3>1, <3>2
    <2> QED BY <2>1, <2>2 DEF HasLatest
  <1>10. D \in SUBSET Donation
    BY <1>1, <1>6
  <1>p. Placed(D)
    <2>1. \A x \in db.donations : x.log \in Nat /\ x.log <= Cardinality(db.donations)
      BY <1>1 DEF Sound, Placed, Donation
    <2>2. new \notin db.donations
      BY <1>6, <2>1
    <2>3. Cardinality(D) = Cardinality(db.donations) + 1
      BY <1>1, <2>2, FS_AddElement
    <2>4. \A x, y \in db.donations : x.log = y.log => x = y
      BY DEF Sound, Placed
    <2> QED BY <1>6, <2>1, <2>3, <2>4 DEF Placed
  <1> HIDE DEF D
  <1>11. db' \in Tables /\ db'.donations = D /\ db'.supporters = db.supporters
    BY <1>1, <1>5, <1>7, <1>10 DEF Tables
  <1> QED BY <1>8, <1>9, <1>11, <1>p DEF Sound, OneProfile

(* The account writes. *)
LEMMA AccountWritten ==
    ASSUME Sound(db),
           \/ \E f \in Fundraisers : DeleteFundraiser(f)
           \/ \E u \in Profiles : DeleteSupporter(u) \/ \E a \in Donors : RegisterSupporter(u, a)
    PROVE  Sound(db')
  <1>1. db \in Tables
    BY DEF Sound
  <1>2. ASSUME NEW f \in Fundraisers, DeleteFundraiser(f) PROVE Sound(db')
    <2>1. db' = [db EXCEPT !.deleted = @ \cup {f}]
      BY <1>2 DEF DeleteFundraiser, Write
    <2>2. db' \in Tables /\ db'.donations = db.donations /\ db'.supporters = db.supporters
      BY <1>1, <2>1 DEF Tables
    <2> QED BY <2>2 DEF Sound, OneProfile
  <1>3. ASSUME NEW u \in Profiles, NEW p \in Supporter, db' = [db EXCEPT !.supporters[u] = p],
               \A v \in Profiles : db.supporters[v].live /\ p.live
                                       => db.supporters[v].wallet # p.wallet
        PROVE  Sound(db')
    <2>1. /\ db' \in Tables /\ db'.donations = db.donations
          /\ db'.supporters = [db.supporters EXCEPT ![u] = p]
      BY <1>1, <1>3 DEF Tables
    <2>2. db'.supporters[u] = p /\ \A v \in Profiles \ {u} : db'.supporters[v] = db.supporters[v]
      BY <1>1, <2>1 DEF Tables
    <2>3. OneProfile(db')
      BY <1>3, <2>2 DEF Sound, OneProfile
    <2> QED BY <2>1, <2>3 DEF Sound
  <1>4. ASSUME NEW u \in Profiles, NEW a \in Donors, RegisterSupporter(u, a) PROVE Sound(db')
    <2> DEFINE p == [wallet |-> a, live |-> TRUE]
    <2>1. p \in Supporter /\ p.wallet = a
      BY DEF Supporter
    <2>2. db' = [db EXCEPT !.supporters[u] = p]
      BY <1>4 DEF RegisterSupporter, Write
    <2>3. \A v \in Profiles : db.supporters[v].live => db.supporters[v].wallet # a
      BY <1>4 DEF RegisterSupporter
    <2> HIDE DEF p
    <2> QED BY <1>3, <2>1, <2>2, <2>3
  <1>5. ASSUME NEW u \in Profiles, DeleteSupporter(u) PROVE Sound(db')
    <2> DEFINE p == [db.supporters[u] EXCEPT !.live = FALSE]
    <2>1. db.supporters[u] \in Supporter
      BY <1>1 DEF Tables
    <2>2. p \in Supporter /\ ~p.live
      BY <2>1 DEF Supporter
    <2>3. db' = [db EXCEPT !.supporters[u] = p]
      BY <1>1, <1>5 DEF DeleteSupporter, Write, Tables
    <2> HIDE DEF p
    <2> QED BY <1>3, <2>2, <2>3
  <1> QED BY <1>2, <1>4, <1>5

LEMMA WriteSound ==
    ASSUME Sound(db), WriteStep
    PROVE  Sound(db')
  <1>1. ASSUME NEW c \in Campaigns, NEW f \in Fundraisers, NEW t \in 1 .. 2,
               CreateCampaign(c, f, t)
        PROVE  Sound(db')
    <2> DEFINE row == [status |-> "pending", created |-> t, raised |-> 0, fundraiser |-> f]
    <2>1. row \in Row
      BY DEF Row, Statuses
    <2>2. db' = [db EXCEPT !.campaigns[c] = row]
      BY <1>1 DEF CreateCampaign, Write
    <2> HIDE DEF row
    <2> QED BY <2>1, <2>2, RowWritten
  <1>2. ASSUME NEW c \in Campaigns, FinishDeployment(c) \/ EndCampaign(c)
        PROVE  Sound(db')
    BY <1>2, StatusWritten DEF FinishDeployment, EndCampaign, Statuses
  <1>3. ASSUME NEW c \in Campaigns, NEW a \in Donors, NEW amount \in 1 .. MaxAmount,
               Donate(c, a, amount)
        PROVE  Sound(db')
    BY <1>3, DonationWritten
  <1>4. CASE \/ \E f \in Fundraisers : DeleteFundraiser(f)
             \/ \E u \in Profiles : DeleteSupporter(u) \/ \E a \in Donors : RegisterSupporter(u, a)
    BY <1>4, AccountWritten
  <1> QED BY <1>1, <1>2, <1>3, <1>4 DEF WriteStep

-----------------------------------------------------------------------------
(***************************************************************************)
(* The queries: what is counted and what is cut out of the list.           *)
(***************************************************************************)
LEMMA ListKinds ==
    ASSUME NEW l \in Lists
    PROVE  l # None /\ l.kind \in {"public", "fundraiser", "donors", "donations"}
  <1>1. l \in ListType
    BY ListAssumption
  <1> QED BY <1>1, ListAssumption DEF ListType

(* A donor has one row, with the live profile or without one. *)
LEMMA DonorRowsCounted ==
    ASSUME NEW d, Sound(d), NEW l
    PROVE  /\ IsFiniteSet(DonorsOf(d, l.of)) /\ IsFiniteSet(DonorRows(d, l))
           /\ Cardinality(DonorRows(d, l)) = Cardinality(DonorsOf(d, l.of))
  <1> DEFINE D == DonorsOf(d, l.of)
             R == DonorRows(d, l)
             profile(a) == IF ProfilesOf(d, a) = {} THEN None
                           ELSE CHOOSE u \in ProfilesOf(d, a) : TRUE
             f == [a \in D |-> <<a, profile(a)>>]
  <1>1. D \subseteq Donors
    BY DEF DonorsOf, Sound, Tables, Donation
  <1>2. IsFiniteSet(D)
    BY <1>1, ListAssumption, FS_Subset
  <1>3. \A a \in D : \A u : (u \in IF ProfilesOf(d, a) = {} THEN {None} ELSE ProfilesOf(d, a))
                               <=> u = profile(a)
    BY DEF Sound, OneProfile, ProfilesOf
  <1> HIDE DEF D, profile
  <1>4. R = {<<a, profile(a)>> : a \in D}
    <2>1. ASSUME NEW x \in R PROVE \E a \in D : x = <<a, profile(a)>>
      <3>1. PICK a \in D : x \in {<<a, u>> : u \in IF ProfilesOf(d, a) = {} THEN {None}
                                                     ELSE ProfilesOf(d, a)}
        BY DEF DonorRows, D
      <3> QED BY <3>1, <1>3
    <2>2. ASSUME NEW a \in D PROVE <<a, profile(a)>> \in R
      <3>1. <<a, profile(a)>> \in {<<a, u>> : u \in IF ProfilesOf(d, a) = {} THEN {None}
                                                     ELSE ProfilesOf(d, a)}
        BY <1>3
      <3> QED BY <3>1 DEF DonorRows, D
    <2> QED BY <2>1, <2>2
  <1> HIDE DEF R
  <1>5. f \in Bijection(D, R)
    <2>1. f \in [D -> R]
      BY <1>4
    <2>2. \A a, b \in D : f[a] = f[b] => a = b
      OBVIOUS
    <2>3. \A x \in R : \E a \in D : f[a] = x
      BY <1>4
    <2> QED BY <2>1, <2>2, <2>3 DEF Bijection, Injection, Surjection, IsInjective
  <1>6. ExistsBijection(D, R)
    BY <1>5 DEF ExistsBijection
  <1>7. IsFiniteSet(R) /\ Cardinality(R) = Cardinality(D)
    BY <1>2, <1>6, FS_Bijection
  <1> QED BY <1>2, <1>7 DEF D, R

(* SELECT COUNT( * ) counts the rows the pages are cut from. *)
LEMMA CountIsRows ==
    ASSUME NEW d, Sound(d), NEW l \in Lists
    PROVE  /\ IsFiniteSet(Rows(d, l))
           /\ CountQuery(d, l) = Cardinality(Rows(d, l)) /\ CountQuery(d, l) \in Nat
  <1>1. CASE l.kind = "donors"
    <2>1. Rows(d, l) = DonorRows(d, l)
      BY <1>1 DEF Rows
    <2> QED BY <1>1, <2>1, DonorRowsCounted, FS_CardinalityType DEF CountQuery
  <1>2. CASE l.kind # "donors"
    <2>1. IsFiniteSet(Rows(d, l))
      <3>1. CASE l.kind \in {"public", "fundraiser"}
        <4>1. Rows(d, l) \subseteq Campaigns
          BY <3>1 DEF Rows, publicCampaignListFromWhere, fundraiserCampaignListFromWhere
        <4> QED BY <4>1, ListAssumption, FS_Subset
      <3>2. CASE l.kind = "donations"
        <4>1. Rows(d, l) \subseteq d.donations
          BY <3>2 DEF Rows, DonationRows
        <4> QED BY <4>1, FS_Subset DEF Sound
      <3> QED BY <1>2, <3>1, <3>2, ListKinds
    <2> QED BY <1>2, <2>1, FS_CardinalityType DEF CountQuery
  <1> QED BY <1>1, <1>2

(* The rows that LIMIT pageSize OFFSET offset leaves of an enumeration q of S. *)
IsPage(S, q, offset, pageSize, rows) ==
    LET n == Cardinality(S) IN
    /\ n \in Nat /\ rows \in Seq(S) /\ Len(rows) \in 0 .. pageSize
    /\ Len(rows) = 0 <=> offset >= n
    /\ Len(rows) < pageSize <=> offset + pageSize > n
    /\ Len(rows) < pageSize /\ offset <= n => offset + Len(rows) = n
    /\ \A i \in 1 .. Len(rows) : offset + i <= n /\ rows[i] = q[offset + i]

LEMMA PageCut ==
    ASSUME NEW S, IsFiniteSet(S), NEW q \in SetToSeqs(S), NEW offset \in Nat,
           NEW pageSize \in Nat \ {0}
    PROVE  IsPage(S, q, offset, pageSize,
                  SubSeq(q, offset + 1, Min({offset + pageSize, Len(q)})))
  <1> DEFINE n == Cardinality(S)
             last == Min({offset + pageSize, Len(q)})
             rows == SubSeq(q, offset + 1, last)
  <1>1. n \in Nat
    BY FS_CardinalityType
  <1>2. q \in [1 .. n -> S]
    BY DEF SetToSeqs
  <1>3. q \in Seq(S) /\ Len(q) = n
    BY <1>1, <1>2
  <1>4. last = IF offset + pageSize <= n THEN offset + pageSize ELSE n
    BY <1>1, <1>3 DEF Min
  <1> HIDE DEF n, last
  <1>5. last \in Nat /\ last <= n
    BY <1>1, <1>4
  <1>6. \A i \in offset + 1 .. last : q[i] \in S
    BY <1>1, <1>2, <1>5
  <1>7. /\ rows \in Seq(S) /\ Len(rows) = IF offset + 1 <= last THEN last - (offset + 1) + 1 ELSE 0
        /\ \A i \in 1 .. last - (offset + 1) + 1 : rows[i] = q[(offset + 1) + i - 1]
    BY <1>5, <1>6, SubSeqProperties
  <1> HIDE DEF rows
  <1>8. Len(rows) = IF offset < last THEN last - offset ELSE 0
    BY <1>5, <1>7
  <1>9. \A i \in 1 .. Len(rows) : offset + i <= n /\ rows[i] = q[offset + i]
    BY <1>1, <1>5, <1>7, <1>8
  <1>10. /\ Len(rows) \in 0 .. pageSize
         /\ Len(rows) = 0 <=> offset >= n
         /\ Len(rows) < pageSize <=> offset + pageSize > n
         /\ Len(rows) < pageSize /\ offset <= n => offset + Len(rows) = n
    BY <1>1, <1>4, <1>8
  <1> QED BY <1>1, <1>3, <1>7, <1>9, <1>10 DEF IsPage, n, last, rows

-----------------------------------------------------------------------------
(***************************************************************************)
(* Sums over finite sets.  MapThenSumSet is a recursive function; that it  *)
(* is a sum is shown here, by looking at a smallest counterexample.        *)
(***************************************************************************)
LEMMA LeastNatural ==
    ASSUME NEW T, T \subseteq Nat, T # {}
    PROVE  \E n \in T : \A m \in T : n <= m
  <1>1. PICK n \in T : \A m \in T : ~(<<m, n>> \in OpToRel(<, Nat))
    BY WFMin, NatLessThanWellFounded
  <1>2. \A m \in T : ~(m < n)
    BY <1>1 DEF OpToRel
  <1> QED BY <1>2

(* A family of finite sets that is not empty has a smallest member. *)
LEMMA SmallestSet ==
    ASSUME NEW F, F # {}, \A s \in F : IsFiniteSet(s)
    PROVE  \E s \in F : \A t \in F : t \subseteq s => t = s
  <1> DEFINE T == {Cardinality(s) : s \in F}
  <1>1. T \subseteq Nat /\ T # {}
    BY FS_CardinalityType
  <1>2. PICK n \in T : \A m \in T : n <= m
    BY <1>1, LeastNatural
  <1>3. PICK s \in F : n = Cardinality(s)
    BY <1>2
  <1>4. ASSUME NEW t \in F, t \subseteq s, t # s PROVE FALSE
    <2>1. Cardinality(t) < Cardinality(s) /\ Cardinality(t) \in Nat /\ Cardinality(s) \in Nat
      BY <1>4, FS_Subset, FS_CardinalityType
    <2>2. Cardinality(s) <= Cardinality(t)
      BY <1>2, <1>3
    <2> QED BY <2>1, <2>2
  <1> QED BY <1>4

Total(S) == MapThenSumSet(LAMBDA x : x.amount, S)

Pick(s) == CHOOSE x \in s : TRUE

Step(g, s) == IF s = {} THEN 0 ELSE Pick(s).amount + g[s \ {Pick(s)}]

(* g is the sum of the amounts on every subset of S. *)
Adds(g, S) == g = [s \in SUBSET S |-> Step(g, s)]

Amounts(S) == IsFiniteSet(S) /\ \A x \in S : x.amount \in Nat

LEMMA TotalDef ==
    ASSUME NEW S
    PROVE  Total(S) = (CHOOSE g : Adds(g, S))[S]
  BY DEF Total, MapThenSumSet, MapThenFoldSet, Adds, Step, Pick

LEMMA Picked ==
    ASSUME NEW s, s # {}
    PROVE  Pick(s) \in s
  BY DEF Pick

(* Two such functions agree where both are defined. *)
LEMMA AddsUnique ==
    ASSUME NEW S, NEW T, NEW g, NEW h, Adds(g, S), Adds(h, T),
           NEW U, U \subseteq S, U \subseteq T, IsFiniteSet(U)
    PROVE  g[U] = h[U]
  <1> DEFINE F == {s \in SUBSET U : g[s] # h[s]}
  <1> SUFFICES ASSUME F # {} PROVE FALSE
    OBVIOUS
  <1>1. \A s \in F : IsFiniteSet(s)
    BY FS_Subset
  <1>2. PICK s \in F : \A t \in F : t \subseteq s => t = s
    <2>1. \A t \in F : IsFiniteSet(t)
      BY <1>1 DEF Amounts
    <2> HIDE DEF F
    <2> QED BY <2>1, SmallestSet
  <1>3. s \in SUBSET S /\ s \in SUBSET T /\ g[s] # h[s]
    BY <1>2
  <1>4. g[s] = Step(g, s) /\ h[s] = Step(h, s)
    BY <1>3 DEF Adds
  <1>5. CASE s = {}
    BY <1>3, <1>4, <1>5 DEF Step
  <1>6. CASE s # {}
    <2>1. Pick(s) \in s
      BY <1>6, Picked
    <2>2. g[s \ {Pick(s)}] = h[s \ {Pick(s)}]
      BY <1>2, <2>1
    <2> QED BY <1>3, <1>4, <1>6, <2>2 DEF Step
  <1> QED BY <1>5, <1>6

(* There is such a function on the subsets of every finite set. *)
LEMMA AddsExists ==
    ASSUME NEW S, Amounts(S)
    PROVE  \E g : Adds(g, S) /\ g[S] \in Nat
  <1> DEFINE F == {s \in SUBSET S : ~\E g : Adds(g, s) /\ g[s] \in Nat}
  <1> SUFFICES ASSUME F # {} PROVE FALSE
    OBVIOUS
  <1>1. \A s \in SUBSET S : IsFiniteSet(s)
    BY FS_Subset DEF Amounts
  <1>2. PICK s \in F : \A t \in F : t \subseteq s => t = s
    <2>1. \A t \in F : IsFiniteSet(t)
      BY <1>1 DEF Amounts
    <2> HIDE DEF F
    <2> QED BY <2>1, SmallestSet
  <1>3. s \in SUBSET S /\ ~\E g : Adds(g, s) /\ g[s] \in Nat
    BY <1>2
  <1>4. CASE s = {}
    <2> DEFINE g == [t \in SUBSET s |-> 0]
    <2>1. \A t \in SUBSET s : Step(g, t) = 0
      BY <1>4 DEF Step
    <2>2. g = [t \in SUBSET s |-> Step(g, t)]
      BY <2>1
    <2>3. Adds(g, s) /\ g[s] \in Nat
      BY <2>2 DEF Adds
    <2> HIDE DEF g
    <2> QED BY <1>3, <2>3
  <1>5. CASE s # {}
    <2> DEFINE r    == s \ {Pick(s)}
               H(t) == CHOOSE h : Adds(h, t) /\ h[t] \in Nat
               g    == [t \in SUBSET s |-> IF t = s THEN Pick(s).amount + H(r)[r] ELSE H(t)[t]]
    <2>1. Pick(s) \in s /\ Pick(s).amount \in Nat
      BY <1>3, <1>5, Picked DEF Amounts
    <2>2. \A t \in SUBSET s : t # s => Adds(H(t), t) /\ H(t)[t] \in Nat
      BY <1>2, <1>3
    <2> HIDE DEF H
    <2>3. r \in SUBSET s /\ r # s
      BY <2>1
    <2>4. g[s] = Pick(s).amount + H(r)[r] /\ \A t \in SUBSET s : t # s => g[t] = H(t)[t]
      OBVIOUS
    <2>5. DOMAIN g = SUBSET s
      OBVIOUS
    <2> HIDE DEF g, r
    <2>6. ASSUME NEW t \in SUBSET s PROVE g[t] = Step(g, t)
      <3>1. CASE t = s
        BY <1>5, <2>3, <2>4, <3>1 DEF Step, r
      <3>2. CASE t # s
        <4>1. Adds(H(t), t) /\ g[t] = H(t)[t]
          BY <2>2, <2>4, <3>2
        <4>2. H(t)[t] = Step(H(t), t)
          BY <4>1 DEF Adds
        <4>3. CASE t = {}
          BY <4>1, <4>2, <4>3 DEF Step
        <4>4. CASE t # {}
          <5> DEFINE u == t \ {Pick(t)}
          <5>1. u \in SUBSET t /\ u # t /\ u \in SUBSET s /\ u # s
            BY <4>4, Picked
          <5>2. Adds(H(u), u) /\ g[u] = H(u)[u] /\ IsFiniteSet(u)
            BY <1>1, <1>3, <2>2, <2>4, <5>1
          <5>3. H(u)[u] = H(t)[u]
            BY <4>1, <5>1, <5>2, AddsUnique
          <5> QED BY <4>1, <4>2, <4>4, <5>2, <5>3 DEF Step
        <4> QED BY <4>3, <4>4
      <3> QED BY <3>1, <3>2
    <2>7. Adds(g, s)
      <3>1. g = [t \in SUBSET s |-> g[t]]
        BY <2>4, <2>5 DEF g
      <3> QED BY <2>6, <3>1 DEF Adds
    <2>8. g[s] \in Nat
      BY <2>1, <2>2, <2>3, <2>4
    <2> QED BY <1>3, <2>7, <2>8
  <1> QED BY <1>4, <1>5

(* The sum is a number, and every element contributes its amount. *)
LEMMA TotalType ==
    ASSUME NEW S, Amounts(S)
    PROVE  Total(S) \in Nat
  <1>1. PICK g : Adds(g, S) /\ g[S] \in Nat
    BY AddsExists
  <1>2. Adds(CHOOSE h : Adds(h, S), S)
    BY <1>1
  <1>3. (CHOOSE h : Adds(h, S))[S] = g[S]
    BY <1>1, <1>2, AddsUnique DEF Amounts
  <1> QED BY <1>1, <1>3, TotalDef

LEMMA TotalPicked ==
    ASSUME NEW S, Amounts(S), S # {}
    PROVE  Total(S) = Pick(S).amount + Total(S \ {Pick(S)})
  <1> DEFINE r == S \ {Pick(S)}
             G(s) == CHOOSE h : Adds(h, s)
  <1>1. Amounts(r) /\ r \subseteq S
    BY FS_Subset DEF Amounts
  <1>2. Adds(G(S), S) /\ Adds(G(r), r)
    BY <1>1, AddsExists
  <1>3. Total(S) = G(S)[S] /\ Total(r) = G(r)[r]
    BY TotalDef
  <1> HIDE DEF G
  <1>4. G(S)[r] = G(r)[r]
    BY <1>1, <1>2, AddsUnique DEF Amounts
  <1>5. G(S)[S] = Step(G(S), S)
    BY <1>2 DEF Adds
  <1> QED BY <1>3, <1>4, <1>5 DEF Step

LEMMA TotalWithout ==
    ASSUME NEW S, Amounts(S), NEW y \in S
    PROVE  Total(S) = y.amount + Total(S \ {y})
  <1> DEFINE F == {s \in SUBSET S : ~\A z \in s : Total(s) = z.amount + Total(s \ {z})}
  <1> SUFFICES ASSUME F # {} PROVE FALSE
    OBVIOUS
  <1>1. \A s \in SUBSET S : Amounts(s)
    BY FS_Subset DEF Amounts
  <1>2. PICK s \in F : \A t \in F : t \subseteq s => t = s
    <2>1. \A t \in F : IsFiniteSet(t)
      BY <1>1 DEF Amounts
    <2> HIDE DEF F
    <2> QED BY <2>1, SmallestSet
  <1>3. PICK z \in s : Total(s) # z.amount + Total(s \ {z})
    BY <1>2
  <1> DEFINE x == Pick(s)
             r == s \ {x, z}
  <1>4. s \in SUBSET S /\ x \in s
    BY <1>2, <1>3, Picked
  <1>5. Total(s) = x.amount + Total(s \ {x})
    BY <1>1, <1>3, <1>4, TotalPicked
  <1>6. x # z
    BY <1>3, <1>5
  <1>7. \A t \in SUBSET s : t # s => \A w \in t : Total(t) = w.amount + Total(t \ {w})
    BY <1>2, <1>4
  <1> HIDE DEF x
  <1>8. Total(s \ {x}) = z.amount + Total((s \ {x}) \ {z}) /\ (s \ {x}) \ {z} = r
    BY <1>4, <1>6, <1>7
  <1>9. Total(s \ {z}) = x.amount + Total((s \ {z}) \ {x}) /\ (s \ {z}) \ {x} = r
    BY <1>3, <1>4, <1>6, <1>7
  <1>10. x.amount \in Nat /\ z.amount \in Nat /\ Total(r) \in Nat
    BY <1>1, <1>4, TotalType DEF Amounts
  <1>11. Total(s) = x.amount + (z.amount + Total(r)) /\ Total(s \ {z}) = x.amount + Total(r)
    BY <1>5, <1>8, <1>9
  <1> QED BY <1>3, <1>10, <1>11

-----------------------------------------------------------------------------
(***************************************************************************)
(* The orders.                                                             *)
(***************************************************************************)
Sorted(l) == l.sort # "random"

Rank(d, l, x) == Cardinality({y \in Rows(d, l) : Before(d, l, y, x)})

(* What the rows of a list are. *)
LEMMA RowKinds ==
    ASSUME NEW d, Sound(d), NEW l \in Lists
    PROVE  /\ l.kind \in {"public", "fundraiser"} => Rows(d, l) \subseteq Campaigns
           /\ l.kind = "donations" => Rows(d, l) \subseteq d.donations
           /\ l.kind = "donors" => \A x \in Rows(d, l) : x[1] \in DonorsOf(d, l.of)
           /\ l.kind # "donors" => \A x : Subject(l, x) = x
  <1>1. ASSUME l.kind = "donors", NEW x \in Rows(d, l) PROVE x[1] \in DonorsOf(d, l.of)
    <2>1. x \in DonorRows(d, l)
      BY <1>1 DEF Rows
    <2>2. PICK a \in DonorsOf(d, l.of) :
              x \in {<<a, u>> : u \in IF ProfilesOf(d, a) = {} THEN {None} ELSE ProfilesOf(d, a)}
      BY <2>1 DEF DonorRows
    <2> QED BY <2>2
  <1> QED BY <1>1 DEF Rows, publicCampaignListFromWhere, fundraiserCampaignListFromWhere,
        DonationRows, Subject

(* A donor has one row. *)
LEMMA SubjectsDistinct ==
    ASSUME NEW d, Sound(d), NEW l \in Lists, NEW x \in Rows(d, l), NEW y \in Rows(d, l),
           Subject(l, x) = Subject(l, y)
    PROVE  x = y
  <1>1. CASE l.kind = "donors"
    <2> DEFINE row(a, z) == z \in {<<a, u>> : u \in IF ProfilesOf(d, a) = {} THEN {None}
                                                   ELSE ProfilesOf(d, a)}
    <2>1. x \in DonorRows(d, l) /\ y \in DonorRows(d, l) /\ x[1] = y[1]
      BY <1>1 DEF Rows, Subject
    <2>2. PICK a, b : row(a, x) /\ row(b, y)
      BY <2>1 DEF DonorRows
    <2>3. a = b
      BY <2>1, <2>2
    <2>4. \A u, v \in ProfilesOf(d, a) : u = v
      BY DEF ProfilesOf, Sound, OneProfile
    <2> QED BY <2>2, <2>3, <2>4
  <1>2. CASE l.kind # "donors"
    BY <1>2 DEF Subject
  <1> QED BY <1>1, <1>2

(* The group of a donor: its sum and its latest donation. *)
LEMMA GreatestOfBounded ==
    ASSUME NEW T, T \subseteq Nat, T # {}, NEW m \in Nat, \A y \in T : m >= y
    PROVE  Max(T) \in T /\ \A y \in T : Max(T) >= y
  <1> DEFINE U == {m - y : y \in T}
  <1>1. U \subseteq Nat /\ U # {}
    OBVIOUS
  <1>2. PICK n \in U : \A k \in U : n <= k
    BY <1>1, LeastNatural
  <1>3. PICK t \in T : n = m - t
    BY <1>2
  <1>4. \A y \in T : t >= y
    <2> TAKE y \in T
    <2>1. m - t <= m - y
      BY <1>2, <1>3
    <2> QED BY <2>1
  <1> QED BY <1>4 DEF Max

LEMMA DonorNumbers ==
    ASSUME NEW d, Sound(d), NEW c, NEW a \in DonorsOf(d, c)
    PROVE  /\ a \in Nat /\ Amounts(DonationsOf(d, c, a))
           /\ Amount(d, c, a) = Total(DonationsOf(d, c, a)) /\ Amount(d, c, a) \in Nat
           /\ DonatedAt(d, c, a) \in {x.at : x \in DonationsOf(d, c, a)}
           /\ \A x \in DonationsOf(d, c, a) : DonatedAt(d, c, a) >= x.at
           /\ DonatedAt(d, c, a) \in Nat
  <1> DEFINE D == DonationsOf(d, c, a)
             T == {x.at : x \in D}
  <1>1. /\ d.donations \subseteq Donation /\ IsFiniteSet(d.donations)
        /\ D \subseteq d.donations /\ D # {}
    BY DEF Sound, Tables, DonationsOf, DonorsOf
  <1>2. \A x \in D : x.donor \in Donors /\ x.amount \in Nat /\ x.at \in Nat /\ x.donor = a
    BY <1>1 DEF Donation, DonationsOf
  <1>3. Amounts(D)
    BY <1>1, <1>2, FS_Subset DEF Amounts
  <1>4. Amount(d, c, a) = Total(D)
    BY DEF Amount, Total
  <1>5. PICK m \in Times(d.donations) : \A y \in Times(d.donations) : m >= y
    BY DEF Sound, HasLatest
  <1>6. m \in Nat /\ T \subseteq Times(d.donations) /\ T \subseteq Nat /\ T # {}
    BY <1>1, <1>2, <1>5 DEF Times, Donation
  <1>7. DonatedAt(d, c, a) = Max(T)
    BY DEF DonatedAt
  <1> HIDE DEF D
  <1>8. Max(T) \in T /\ \A y \in T : Max(T) >= y
    <2> HIDE DEF T
    <2> QED BY <1>5, <1>6, GreatestOfBounded
  <1>9. a \in Nat
    BY <1>1, <1>2, ListAssumption
  <1> QED BY <1>3, <1>4, <1>6, <1>7, <1>8, <1>9, TotalType DEF D

(* The first of two pairs of keys comes first, or the ids decide. *)
Precedes(p, q, r, s, a, b) == p > r \/ (p = r /\ (q > s \/ (q = s /\ a < b)))

LEMMA DonorOrder ==
    ASSUME NEW d, NEW l, NEW a, NEW b
    PROVE  campaignDonorListOrderBy(d, l, a, b) <=>
               IF l.sort = "top"
                 THEN Precedes(Amount(d, l.of, a), DonatedAt(d, l.of, a),
                               Amount(d, l.of, b), DonatedAt(d, l.of, b), a, b)
                 ELSE Precedes(DonatedAt(d, l.of, a), Amount(d, l.of, a),
                               DonatedAt(d, l.of, b), Amount(d, l.of, b), a, b)
  BY DEF campaignDonorListOrderBy, Precedes

(* The places of the campaigns: what the orders compare. *)
LEMMA CampaignNumbers ==
    ASSUME NEW d, Sound(d), NEW x \in Campaigns, NEW y \in Campaigns
    PROVE  /\ x \in Nat /\ Goal[x] \in Nat \ {0}
           /\ d.campaigns[x].created \in Nat /\ d.campaigns[x].raised \in Nat
           /\ d.campaigns[x].raised * Goal[y] \in Nat
  <1>1. d.campaigns[x] \in Row /\ x \in Nat /\ Goal[x] \in Nat \ {0} /\ Goal[y] \in Nat
    BY ListAssumption DEF Sound, Tables
  <1>2. d.campaigns[x].created \in Nat /\ d.campaigns[x].raised \in Nat
    BY <1>1 DEF Row
  <1>3. \A m, n \in Nat : m * n \in Nat
    BY SMT
  <1> QED BY <1>1, <1>2, <1>3

LEMMA NewerTotal ==
    ASSUME NEW d, Sound(d), NEW x \in Campaigns, NEW y \in Campaigns
    PROVE  /\ ~Newer(d, x, x)
           /\ x # y => (Newer(d, x, y) <=> ~Newer(d, y, x))
  <1>1. x \in Nat /\ y \in Nat /\ d.campaigns[x].created \in Nat /\ d.campaigns[y].created \in Nat
    BY CampaignNumbers
  <1> QED BY <1>1 DEF Newer

(* Of two rows exactly one comes first: the id completes every order. *)
LEMMA BeforeTotal ==
    ASSUME NEW d, Sound(d), NEW l \in Lists, Sorted(l), NEW x \in Rows(d, l), NEW y \in Rows(d, l)
    PROVE  /\ ~Before(d, l, x, x)
           /\ x # y => (Before(d, l, x, y) <=> ~Before(d, l, y, x))
  <1>1. CASE l.kind \in {"public", "fundraiser"}
    <2>1. x \in Campaigns /\ y \in Campaigns
      BY <1>1, RowKinds
    <2>2. /\ ~Newer(d, x, x) /\ ~Newer(d, y, y)
          /\ x # y => (Newer(d, x, y) <=> ~Newer(d, y, x))
      BY <2>1, NewerTotal
    <2>3. /\ d.campaigns[x].raised \in Nat /\ d.campaigns[y].raised \in Nat
          /\ d.campaigns[x].raised * Goal[y] \in Nat /\ d.campaigns[y].raised * Goal[x] \in Nat
          /\ d.campaigns[x].raised * Goal[x] \in Nat
      BY <2>1, CampaignNumbers
    <2>4. \A a, b : Before(d, l, a, b) <=> campaignListOrderBy(d, l.sort, a, b)
      BY <1>1 DEF Before
    <2>5. CASE l.sort = "oldest"
      BY <2>2, <2>4, <2>5 DEF campaignListOrderBy
    <2>6. CASE l.sort = "close-to-goal"
      <3>1. \A a, b : campaignListOrderBy(d, l.sort, a, b) <=>
                \/ d.campaigns[a].raised * Goal[b] > d.campaigns[b].raised * Goal[a]
                \/ /\ d.campaigns[a].raised * Goal[b] = d.campaigns[b].raised * Goal[a]
                   /\ Newer(d, a, b)
        BY <2>6 DEF campaignListOrderBy
      <3> QED BY <2>2, <2>3, <2>4, <3>1
    <2>7. CASE l.sort = "most-donated"
      <3>1. \A a, b : campaignListOrderBy(d, l.sort, a, b) <=>
                \/ d.campaigns[a].raised > d.campaigns[b].raised
                \/ d.campaigns[a].raised = d.campaigns[b].raised /\ Newer(d, a, b)
        BY <2>7 DEF campaignListOrderBy
      <3> QED BY <2>2, <2>3, <2>4, <3>1
    <2>8. CASE l.sort \notin {"random", "oldest", "close-to-goal", "most-donated"}
      BY <2>2, <2>4, <2>8 DEF campaignListOrderBy
    <2> QED BY <2>5, <2>6, <2>7, <2>8 DEF Sorted
  <1>2. CASE l.kind = "donations"
    <2>1. x \in Donation /\ y \in Donation /\ (x.log = y.log => x = y)
      BY <1>2, RowKinds DEF Sound, Tables, Placed
    <2>2. x.at \in Nat /\ y.at \in Nat /\ x.log \in Nat /\ y.log \in Nat
      BY <2>1 DEF Donation
    <2> QED BY <1>2, <2>1, <2>2 DEF Before, DonationBefore
  <1>3. CASE l.kind = "donors"
    <2> DEFINE a == x[1]
               b == y[1]
               A(z) == Amount(d, l.of, z)
               T(z) == DonatedAt(d, l.of, z)
    <2>1. a \in DonorsOf(d, l.of) /\ b \in DonorsOf(d, l.of)
      BY <1>3, RowKinds
    <2>2. /\ a \in Nat /\ b \in Nat /\ A(a) \in Nat /\ A(b) \in Nat
          /\ T(a) \in Nat /\ T(b) \in Nat
      BY <2>1, DonorNumbers
    <2>3. x # y => a # b
      BY <1>3, SubjectsDistinct DEF Subject
    <2>4. /\ Before(d, l, x, y) <=> campaignDonorListOrderBy(d, l, a, b)
          /\ Before(d, l, y, x) <=> campaignDonorListOrderBy(d, l, b, a)
          /\ Before(d, l, x, x) <=> campaignDonorListOrderBy(d, l, a, a)
      BY <1>3 DEF Before
    <2>5. \A p, q, r, s, i, j \in Nat :
              /\ ~Precedes(p, q, p, q, i, i)
              /\ i # j => (Precedes(p, q, r, s, i, j) <=> ~Precedes(r, s, p, q, j, i))
      BY DEF Precedes
    <2> HIDE DEF a, b, A, T
    <2>6. /\ campaignDonorListOrderBy(d, l, a, b) <=>
                 IF l.sort = "top" THEN Precedes(A(a), T(a), A(b), T(b), a, b)
                                   ELSE Precedes(T(a), A(a), T(b), A(b), a, b)
          /\ campaignDonorListOrderBy(d, l, b, a) <=>
                 IF l.sort = "top" THEN Precedes(A(b), T(b), A(a), T(a), b, a)
                                   ELSE Precedes(T(b), A(b), T(a), A(a), b, a)
          /\ campaignDonorListOrderBy(d, l, a, a) <=>
                 IF l.sort = "top" THEN Precedes(A(a), T(a), A(a), T(a), a, a)
                                   ELSE Precedes(T(a), A(a), T(a), A(a), a, a)
      BY DonorOrder DEF A, T
    <2> QED BY <2>2, <2>3, <2>4, <2>5, <2>6
  <1> QED BY <1>1, <1>2, <1>3, ListKinds

(* An enumeration has every row, and the i-th one has i - 1 rows before it. *)
LEMMA EnumerationRank ==
    ASSUME NEW d, Sound(d), NEW l \in Lists, Sorted(l), NEW q \in Enumerations(d, l)
    PROVE  LET n == Cardinality(Rows(d, l)) IN
           /\ n \in Nat /\ q \in [1 .. n -> Rows(d, l)]
           /\ \A x \in Rows(d, l) : \E i \in 1 .. n : q[i] = x
           /\ \A i \in 1 .. n : Rank(d, l, q[i]) = i - 1
  <1> DEFINE R == Rows(d, l)
             n == Cardinality(R)
  <1>1. IsFiniteSet(R) /\ n \in Nat
    BY CountIsRows, FS_CardinalityType
  <1>2. /\ q \in [1 .. n -> R] /\ DOMAIN q = 1 .. n
        /\ \A i, j \in 1 .. n : i # j => q[i] # q[j]
        /\ \A i, j \in 1 .. n : i < j => ~Before(d, l, q[j], q[i])
    BY DEF Enumerations, SetToSeqs
  <1>3. \A x \in R : \E i \in 1 .. n : q[i] = x
    <2>1. q \in Injection(1 .. n, R)
      BY <1>2 DEF Injection, IsInjective
    <2>2. Cardinality(1 .. n) = n
      BY <1>1, FS_Interval
    <2>3. q \in Surjection(1 .. n, R)
      BY <1>1, <2>1, <2>2, FS_Injection
    <2> QED BY <2>3 DEF Surjection
  <1>4. ASSUME NEW i \in 1 .. n PROVE Rank(d, l, q[i]) = i - 1
    <2> DEFINE B == {y \in R : Before(d, l, y, q[i])}
               f == [j \in 1 .. i - 1 |-> q[j]]
    <2>1. i - 1 \in Nat /\ 1 .. i - 1 \subseteq 1 .. n
      BY <1>1
    <2>2. \A j \in 1 .. n : q[j] \in B <=> j < i
      <3> SUFFICES ASSUME NEW j \in 1 .. n PROVE Before(d, l, q[j], q[i]) <=> j < i
        BY <1>2
      <3>1. q[i] \in R /\ q[j] \in R
        BY <1>2
      <3>2. CASE j < i
        BY <1>2, <3>1, <3>2, BeforeTotal
      <3>3. CASE j = i
        BY <3>1, <3>3, BeforeTotal
      <3>4. CASE j > i
        BY <1>2, <3>4
      <3> QED BY <1>1, <3>2, <3>3, <3>4
    <2>3. f \in Bijection(1 .. i - 1, B)
      <3>1. f \in [1 .. i - 1 -> B]
        BY <2>1, <2>2
      <3>2. \A j, k \in 1 .. i - 1 : f[j] = f[k] => j = k
        BY <1>2, <2>1
      <3>3. \A y \in B : \E j \in 1 .. i - 1 : f[j] = y
        BY <1>3, <2>1, <2>2
      <3> HIDE DEF f, B
      <3> QED BY <3>1, <3>2, <3>3 DEF Bijection, Injection, Surjection, IsInjective
    <2>4. ExistsBijection(1 .. i - 1, B)
      BY <2>3 DEF ExistsBijection
    <2>5. Cardinality(B) = i - 1
      <3> HIDE DEF B
      <3> QED BY <2>1, <2>4, FS_CountingElements
    <2> QED BY <2>5 DEF Rank
  <1> QED BY <1>1, <1>2, <1>3, <1>4

-----------------------------------------------------------------------------
(***************************************************************************)
(* The walk: its types, and what it knows of the list while nothing has    *)
(* changed since it began: the count it was given is the number of rows,   *)
(* and a page is empty when the offset lies behind them.                   *)
(***************************************************************************)
WalkFields ==
    walk = [pc |-> walk.pc, list |-> walk.list, pageSize |-> walk.pageSize,
            first |-> walk.first, page |-> walk.page, total |-> walk.total,
            rows |-> walk.rows, last |-> walk.last, quiet |-> walk.quiet,
            shrunk |-> walk.shrunk, unmoved |-> walk.unmoved]

WalkTypes ==
    /\ WalkFields
    /\ walk.pc \in {"idle", "find", "count", "page", "next", "done", "gone"}
    /\ walk.list \in Lists \cup {None} /\ (walk.list = None <=> walk.pc = "idle")
    /\ walk.pc = "find" => walk.list.kind \in {"donors", "donations"}
    /\ walk.page \in PositiveInt64 /\ walk.pageSize \in 1 .. MaxPageSize
    /\ walk.pc # "idle" => PageAccepted(walk.page, walk.pageSize)
    /\ walk.total \in Nat /\ walk.last \in 0 .. walk.pageSize

CountFresh ==
    walk.pc \in {"page", "next", "done"} /\ walk.quiet /\ walk.list.kind # "donations"
        => walk.total = CountQuery(db, walk.list)

LastFresh ==
    walk.pc \in {"next", "done"} /\ walk.quiet /\ walk.list.kind # "donations"
        => (walk.last = 0 <=> (walk.page - 1) * walk.pageSize >= walk.total)

ListInv ==
    /\ Sound(db) /\ writes \in 0 .. MaxWrites
    /\ WalkTypes /\ CountFresh /\ LastFresh

(* What a page of the walk is: pageSize rows at the exact offset. *)
LEMMA PageFetched ==
    ASSUME Sound(db), WalkTypes, FetchPage
    PROVE  \E q \in Enumerations(db, walk.list) :
               LET offset == (walk.page - 1) * walk.pageSize
                   rows == SubSeq(q, offset + 1, Min({offset + walk.pageSize, Len(q)})) IN
               /\ walk.list \in Lists /\ offset \in Nat
               /\ walk' = [walk EXCEPT !.rows = @ \o rows, !.last = Len(rows),
                              !.pc = IF Len(rows) < walk.pageSize THEN "done" ELSE "next"]
               /\ IsPage(Rows(db, walk.list), q, offset, walk.pageSize, rows)
  <1> DEFINE offset == (walk.page - 1) * walk.pageSize
             rows(q) == SubSeq(q, offset + 1, Min({offset + walk.pageSize, Len(q)}))
             S == Rows(db, walk.list)
  <1>1. /\ walk.pc = "page" /\ walk.list \in Lists /\ walk.pageSize \in Nat \ {0}
        /\ PageAccepted(walk.page, walk.pageSize)
    BY PagingAssumption DEF FetchPage, WalkTypes
  <1>2. Offset(walk.page, walk.pageSize) = offset /\ offset \in Nat
    BY <1>1, AcceptedOffset, PagingAssumption
  <1>3. PICK q \in Enumerations(db, walk.list) :
            walk' = [walk EXCEPT !.rows = @ \o rows(q), !.last = Len(rows(q)),
                        !.pc = IF Len(rows(q)) < walk.pageSize THEN "done" ELSE "next"]
    BY <1>2 DEF FetchPage
  <1>4. IsFiniteSet(S) /\ q \in SetToSeqs(S)
    BY <1>1, CountIsRows DEF Enumerations
  <1>5. IsPage(S, q, offset, walk.pageSize, rows(q))
    <2> HIDE DEF offset, S
    <2> QED BY <1>1, <1>2, <1>4, PageCut
  <1> QED BY <1>1, <1>2, <1>3, <1>5

LEMMA ListInvInit == Init => ListInv
  <1> SUFFICES ASSUME Init PROVE ListInv
    OBVIOUS
  <1>1. Sound(db) /\ writes \in 0 .. MaxWrites
    BY InitSound, ListAssumption DEF Init
  <1>2. WalkTypes
    BY PagingAssumption DEF Init, NoWalk, WalkTypes, WalkFields, PositiveInt64
  <1> QED BY <1>1, <1>2 DEF ListInv, CountFresh, LastFresh, Init, NoWalk

(* A write leaves the parameters, the pages and the position of the walk. *)
LEMMA WriteAndWalk ==
    ASSUME WalkTypes, WriteStep
    PROVE  /\ walk.pc = "idle" \/ Reading
           /\ writes < MaxWrites /\ writes' = writes + 1
           /\ walk.list = None => walk' = walk
           /\ walk.list # None =>
                \E a, b : walk' = [walk EXCEPT !.quiet = FALSE, !.shrunk = a, !.unmoved = b]
  <1>1. PICK d : Write(d)
    BY DEF WriteStep, CreateCampaign, FinishDeployment, EndCampaign, SetStatus, Donate,
       DeleteFundraiser, RegisterSupporter, DeleteSupporter
  <1> QED BY <1>1 DEF Write

LEMMA ListInvStep == ListInv /\ [Next]_vars => ListInv'
  <1> SUFFICES ASSUME ListInv, [Next]_vars PROVE ListInv'
    OBVIOUS
  <1>0. /\ Sound(db) /\ writes \in 0 .. MaxWrites /\ WalkTypes /\ WalkFields
        /\ CountFresh /\ LastFresh
    BY DEF ListInv, WalkTypes
  <1>1. ASSUME NEW l \in Lists, NEW page \in Pages, NEW pageSize \in 1 .. MaxPageSize,
               HandleList(l, page, pageSize)
        PROVE  ListInv'
    <2> DEFINE u == Subjects(db, l)
    <2>1. /\ walk' = [NoWalk EXCEPT !.pc = FirstQuery(l), !.list = l, !.pageSize = pageSize,
                              !.first = page, !.page = page, !.unmoved = u]
          /\ PageAccepted(page, pageSize) /\ db' = db /\ writes' = writes
      BY <1>1 DEF HandleList
    <2> HIDE DEF u
    <2>2. /\ WalkFields' /\ walk'.pc = FirstQuery(l) /\ walk'.list = l /\ walk'.page = page
          /\ walk'.pageSize = pageSize /\ walk'.total = 0 /\ walk'.last = 0
      BY <2>1 DEF WalkFields, NoWalk
    <2>3. l # None /\ page \in PositiveInt64
      BY <2>1, ListKinds DEF PageAccepted
    <2>4. WalkTypes'
      BY <2>1, <2>2, <2>3 DEF WalkTypes, FirstQuery
    <2> QED BY <1>0, <2>1, <2>2, <2>4 DEF ListInv, CountFresh, LastFresh, FirstQuery
  <1>2. CASE FindOwner
    <2>1. PICK p \in {"gone", "count", "page"} :
              /\ walk' = [walk EXCEPT !.pc = p] /\ walk.pc = "find"
              /\ db' = db /\ writes' = writes
              /\ p = "page" => walk.list.kind # "donors"
      BY <1>2 DEF FindOwner
    <2>2. walk.list.kind \in {"donors", "donations"}
      BY <1>0, <2>1 DEF WalkTypes
    <2>3. /\ WalkFields' /\ walk'.pc = p /\ walk'.list = walk.list /\ walk'.page = walk.page
          /\ walk'.pageSize = walk.pageSize /\ walk'.total = walk.total /\ walk'.last = walk.last
      BY <1>0, <2>1 DEF WalkFields
    <2>4. WalkTypes'
      BY <1>0, <2>1, <2>3 DEF WalkTypes
    <2> QED BY <1>0, <2>1, <2>2, <2>3, <2>4 DEF ListInv, CountFresh, LastFresh
  <1>3. CASE CountRows
    <2>1. /\ walk' = [walk EXCEPT !.pc = "page", !.total = CountQuery(db, walk.list)]
          /\ walk.pc = "count" /\ db' = db /\ writes' = writes
      BY <1>3 DEF CountRows
    <2>2. walk.list \in Lists /\ CountQuery(db, walk.list) \in Nat
      BY <1>0, <2>1, CountIsRows DEF WalkTypes
    <2>3. /\ WalkFields' /\ walk'.pc = "page" /\ walk'.list = walk.list /\ walk'.page = walk.page
          /\ walk'.pageSize = walk.pageSize /\ walk'.total = CountQuery(db, walk.list)
          /\ walk'.last = walk.last
      BY <1>0, <2>1 DEF WalkFields
    <2>4. WalkTypes'
      BY <1>0, <2>1, <2>2, <2>3 DEF WalkTypes
    <2>5. CountQuery(db', walk'.list) = CountQuery(db, walk.list)
      BY <2>1, <2>3
    <2> QED BY <1>0, <2>1, <2>3, <2>4, <2>5 DEF ListInv, CountFresh, LastFresh
  <1>4. CASE FetchPage
    <2> DEFINE n == Cardinality(Rows(db, walk.list))
               offset == (walk.page - 1) * walk.pageSize
    <2>1. PICK q, rows :
              /\ walk.list \in Lists /\ offset \in Nat
              /\ walk' = [walk EXCEPT !.rows = @ \o rows, !.last = Len(rows),
                             !.pc = IF Len(rows) < walk.pageSize THEN "done" ELSE "next"]
              /\ IsPage(Rows(db, walk.list), q, offset, walk.pageSize, rows)
      BY <1>0, <1>4, PageFetched
    <2>p. n \in Nat /\ Len(rows) \in 0 .. walk.pageSize /\ (Len(rows) = 0 <=> offset >= n)
      BY <2>1 DEF IsPage
    <2>2. walk.pc = "page" /\ db' = db /\ writes' = writes
      BY <1>4 DEF FetchPage
    <2>3. PICK p \in {"done", "next"} : \E r :
              walk' = [walk EXCEPT !.rows = r, !.last = Len(rows), !.pc = p]
      BY <2>1
    <2>4. /\ WalkFields' /\ walk'.pc = p /\ walk'.list = walk.list /\ walk'.page = walk.page
          /\ walk'.pageSize = walk.pageSize /\ walk'.total = walk.total
          /\ walk'.last = Len(rows) /\ walk'.quiet = walk.quiet
      BY <1>0, <2>3 DEF WalkFields
    <2>5. WalkTypes'
      BY <1>0, <2>1, <2>p, <2>2, <2>4 DEF WalkTypes
    <2>6. CountQuery(db', walk'.list) = CountQuery(db, walk.list)
      BY <2>2, <2>4
    <2>7. CountQuery(db, walk.list) = n
      BY <1>0, <2>1, CountIsRows
    <2>8. CountFresh'
      BY <1>0, <2>2, <2>4, <2>6 DEF CountFresh
    <2>9. LastFresh'
      BY <1>0, <2>p, <2>2, <2>4, <2>7 DEF CountFresh, LastFresh
    <2> QED BY <1>0, <2>2, <2>5, <2>8, <2>9 DEF ListInv
  <1>5. CASE NextPage
    <2>1. PICK p \in {"find", "count"} :
              /\ walk' = [walk EXCEPT !.page = @ + 1, !.pc = p]
              /\ p = FirstQuery(walk.list)
              /\ walk.pc = "next" /\ PageAccepted(walk.page + 1, walk.pageSize)
              /\ db' = db /\ writes' = writes
      BY <1>5 DEF NextPage, FirstQuery
    <2>2. /\ WalkFields' /\ walk'.pc = p /\ walk'.list = walk.list /\ walk'.page = walk.page + 1
          /\ walk'.pageSize = walk.pageSize /\ walk'.total = walk.total /\ walk'.last = walk.last
      BY <1>0, <2>1 DEF WalkFields
    <2>3. walk.page + 1 \in PositiveInt64
      BY <2>1 DEF PageAccepted
    <2>4. WalkTypes'
      BY <1>0, <2>1, <2>2, <2>3 DEF WalkTypes, FirstQuery
    <2> QED BY <1>0, <2>1, <2>2, <2>4 DEF ListInv, CountFresh, LastFresh
  <1>6. CASE WriteStep
    <2>1. Sound(db') /\ writes' \in 0 .. MaxWrites
      <3>1. writes < MaxWrites /\ writes' = writes + 1
        BY <1>0, <1>6, WriteAndWalk
      <3> QED BY <1>0, <1>6, <3>1, WriteSound, ListAssumption
    <2>2. CASE walk.list = None
      BY <1>0, <1>6, <2>1, <2>2, WriteAndWalk DEF ListInv, WalkTypes, WalkFields, CountFresh,
         LastFresh
    <2>3. CASE walk.list # None
      <3>1. PICK a, b : walk' = [walk EXCEPT !.quiet = FALSE, !.shrunk = a, !.unmoved = b]
        BY <1>0, <1>6, <2>3, WriteAndWalk
      <3>2. /\ WalkFields' /\ walk'.pc = walk.pc /\ walk'.list = walk.list
            /\ walk'.page = walk.page /\ walk'.pageSize = walk.pageSize
            /\ walk'.total = walk.total /\ walk'.last = walk.last /\ ~walk'.quiet
        BY <1>0, <3>1 DEF WalkFields
      <3>3. WalkTypes'
        BY <1>0, <3>2 DEF WalkTypes
      <3> QED BY <2>1, <3>2, <3>3 DEF ListInv, CountFresh, LastFresh
    <2> QED BY <2>2, <2>3
  <1>7. CASE UNCHANGED vars
    <2>1. db' = db /\ walk' = walk /\ writes' = writes
      BY <1>7 DEF vars
    <2>2. CountQuery(db', walk'.list) = CountQuery(db, walk.list)
      BY <2>1
    <2>3. WalkTypes' /\ CountFresh' /\ LastFresh'
      BY <1>0, <2>1, <2>2 DEF WalkTypes, WalkFields, CountFresh, LastFresh
    <2> QED BY <1>0, <2>1, <2>3 DEF ListInv
  <1> QED BY <1>1, <1>2, <1>3, <1>4, <1>5, <1>6, <1>7 DEF Next, ReadStep

(***************************************************************************)
(* The inductive invariant of the tables and the walk holds throughout.    *)
(***************************************************************************)
THEOREM ListsInvariant == Spec => []ListInv
  BY ListInvInit, ListInvStep, PTL DEF Spec

(***************************************************************************)
(* The tables, the parameters of a walk and what it was answered have      *)
(* their types in every state.                                             *)
(***************************************************************************)
THEOREM ListTypes == Spec => []TypeOK
  <1>1. ListInv => TypeOK
    <2> SUFFICES ASSUME ListInv PROVE TypeOK
      OBVIOUS
    <2>1. db \in Tables /\ WalkTypes /\ writes \in 0 .. MaxWrites
      BY DEF ListInv, Sound
    <2> QED BY <2>1 DEF TypeOK, WalkTypes, Tables, Supporter
  <1> QED BY <1>1, ListsInvariant, PTL

(***************************************************************************)
(* Every query of every list runs with the exact offset of its page.       *)
(***************************************************************************)
THEOREM OffsetCorrect == Spec => []OffsetIsExact
  <1>1. ListInv => OffsetIsExact
    <2> SUFFICES ASSUME ListInv, Reading
                 PROVE  Offset(walk.page, walk.pageSize) = (walk.page - 1) * walk.pageSize
      BY DEF OffsetIsExact
    <2>1. PageAccepted(walk.page, walk.pageSize)
      BY DEF ListInv, WalkTypes, Reading
    <2> QED BY <2>1, AcceptedOffset
  <1> QED BY <1>1, ListsInvariant, PTL

(* No list is as long as the largest int64 minus a page. *)
ListsFit ==
    /\ Cardinality(Campaigns) + MaxPageSize <= MaxInt
    /\ Cardinality(Donors) + MaxPageSize <= MaxInt

LEMMA ListLength ==
    ASSUME NEW d, Sound(d), NEW l \in Lists, l.kind # "donations", ListsFit
    PROVE  CountQuery(d, l) \in Nat /\ CountQuery(d, l) + MaxPageSize <= MaxInt
  <1>0. MaxPageSize \in Nat /\ MaxInt \in Nat /\ CountQuery(d, l) \in Nat
    BY PagingAssumption, CountIsRows
  <1>1. CASE l.kind = "donors"
    <2>1. DonorsOf(d, l.of) \subseteq Donors
      BY DEF DonorsOf, Sound, Tables, Donation
    <2>2. Cardinality(DonorsOf(d, l.of)) <= Cardinality(Donors) /\ Cardinality(Donors) \in Nat
      BY <2>1, ListAssumption, FS_Subset, FS_CardinalityType
    <2> QED BY <1>0, <1>1, <2>2 DEF CountQuery, ListsFit
  <1>2. CASE l.kind # "donors"
    <2>1. Rows(d, l) \subseteq Campaigns
      BY <1>2, ListKinds DEF Rows, publicCampaignListFromWhere, fundraiserCampaignListFromWhere
    <2>2. Cardinality(Rows(d, l)) <= Cardinality(Campaigns) /\ Cardinality(Campaigns) \in Nat
      BY <2>1, ListAssumption, FS_Subset, FS_CardinalityType
    <2> QED BY <1>0, <1>2, <2>2 DEF CountQuery, ListsFit
  <1> QED BY <1>1, <1>2

(***************************************************************************)
(* totalPages of the answer tells which pages are empty, for every list    *)
(* that is counted, as long as nothing was written between the count and   *)
(* the page: NewPagination rounds up, and the count leaves no row out and  *)
(* counts none twice.                                                      *)
(***************************************************************************)
THEOREM TotalPagesTruthful ==
    ASSUME ListsFit
    PROVE  Spec => []TotalPagesTellsEmpty
  <1>1. ListInv => TotalPagesTellsEmpty
    <2> SUFFICES ASSUME ListInv, walk.pc \in {"next", "done"}, walk.quiet,
                        walk.list.kind # "donations"
                 PROVE  walk.last = 0 <=> walk.page > TotalPages(walk.pageSize, walk.total)
      BY DEF TotalPagesTellsEmpty
    <2> DEFINE page == walk.page
               size == walk.pageSize
               n    == TotalPages(size, walk.total)
    <2>1. /\ walk.list \in Lists /\ page \in PositiveInt64 /\ size \in 1 .. MaxPageSize
          /\ Sound(db) /\ walk.total = CountQuery(db, walk.list)
          /\ walk.last = 0 <=> (page - 1) * size >= walk.total
      BY DEF ListInv, WalkTypes, CountFresh, LastFresh
    <2>2. walk.total \in Nat /\ walk.total + MaxPageSize <= MaxInt
      BY <2>1, ListLength
    <2>3. /\ page \in Nat /\ page - 1 \in Nat /\ size \in Nat \ {0} /\ size \in PositiveInt64
          /\ walk.total + size <= MaxInt
      BY <2>1, <2>2, PagingAssumption DEF PositiveInt64
    <2>4. n \in Nat /\ walk.total <= n * size /\ (n > 0 => (n - 1) * size < walk.total)
      BY <2>2, <2>3, TotalPagesExact
    <2>5. \A a, b \in Int : a <= b => a * size <= b * size /\ a * size \in Int /\ b * size \in Int
      BY <2>3
    <2> HIDE DEF page, size, n
    <2>6. page > n => (page - 1) * size >= walk.total
      <3> SUFFICES ASSUME page > n PROVE (page - 1) * size >= walk.total
        OBVIOUS
      <3>1. n <= page - 1 /\ n \in Int /\ page - 1 \in Int
        BY <2>3, <2>4
      <3>2. n * size <= (page - 1) * size /\ n * size \in Int /\ (page - 1) * size \in Int
        BY <2>5, <3>1
      <3> QED BY <2>2, <2>4, <3>2
    <2>7. page <= n => (page - 1) * size < walk.total
      <3> SUFFICES ASSUME page <= n PROVE (page - 1) * size < walk.total
        OBVIOUS
      <3>1. page - 1 <= n - 1 /\ n - 1 \in Int /\ page - 1 \in Int /\ n > 0
        BY <2>3, <2>4
      <3>2. /\ (page - 1) * size <= (n - 1) * size
            /\ (n - 1) * size \in Int /\ (page - 1) * size \in Int
        BY <2>5, <3>1
      <3> QED BY <2>2, <2>4, <3>1, <3>2
    <2>8. (page - 1) * size \in Int /\ page \in Int
      BY <2>3
    <2> QED BY <2>1, <2>2, <2>4, <2>6, <2>7, <2>8 DEF page, size, n
  <1> QED BY <1>1, ListsInvariant, PTL

-----------------------------------------------------------------------------
(***************************************************************************)
(* What the client has been shown.  While nothing was written, its i-th    *)
(* row is the one with Start + i - 1 rows before it; Ahead is how much of  *)
(* the list the pages so far have covered.                                 *)
(***************************************************************************)
Start == (walk.first - 1) * walk.pageSize

Ahead == IF walk.pc = "next" THEN walk.page * walk.pageSize ELSE (walk.page - 1) * walk.pageSize

ShownFresh ==
    walk.pc # "idle" /\ walk.quiet /\ Sorted(walk.list) =>
        LET n == Cardinality(Rows(db, walk.list)) IN
        /\ walk.rows \in Seq(Rows(db, walk.list))
        /\ \A i \in 1 .. Len(walk.rows) : Rank(db, walk.list, walk.rows[i]) = Start + i - 1
        /\ Reading => Start + Len(walk.rows) = Ahead /\ (Ahead <= n \/ Ahead = Start)
        /\ walk.pc = "done" => /\ Start + Len(walk.rows) = n \/ (Start >= n /\ Len(walk.rows) = 0)
                               /\ Enumerations(db, walk.list) # {}

(* From page 1, whatever is written, a row that kept its key has been      *)
(* shown, or is still ahead, or the owner of the list is gone.             *)
Passed ==
    walk.pc # "idle" /\ walk.first = 1 /\ ~walk.shrunk /\ Sorted(walk.list) =>
        \A s \in walk.unmoved :
            \E x \in Rows(db, walk.list) :
                /\ Subject(walk.list, x) = s
                /\ \/ \E i \in 1 .. Len(walk.rows) : Subject(walk.list, walk.rows[i]) = s
                   \/ Reading /\ Rank(db, walk.list, x) >= Ahead
                   \/ walk.pc = "gone"

RowsShown == walk.first \in PositiveInt64 /\ walk.rows \in Seq(Range(walk.rows))

(* The next page of a walk. *)
LEMMA PageAppended ==
    ASSUME NEW s, s \in Seq(Range(s)), NEW S, NEW r \in Seq(S)
    PROVE  /\ s \o r \in Seq(Range(s \o r)) /\ Len(s) \in Nat /\ Len(r) \in Nat
           /\ Len(s \o r) = Len(s) + Len(r)
           /\ \A i \in 1 .. Len(s) : (s \o r)[i] = s[i]
           /\ \A i \in 1 .. Len(r) : (s \o r)[Len(s) + i] = r[i]
           /\ \A i \in Len(s) + 1 .. Len(s) + Len(r) : (s \o r)[i] = r[i - Len(s)]
           /\ s \in Seq(S) => s \o r \in Seq(S)
  <1> DEFINE T == Range(s) \cup S
             c == s \o r
  <1>1. s \in Seq(T) /\ r \in Seq(T)
    BY SMT
  <1>2. Len(s) \in Nat /\ Len(r) \in Nat
    BY <1>1
  <1> HIDE DEF T
  <1>3. /\ c \in Seq(T) /\ Len(c) = Len(s) + Len(r)
        /\ \A i \in 1 .. Len(s) + Len(r) : c[i] = IF i <= Len(s) THEN s[i] ELSE r[i - Len(s)]
    BY <1>1
  <1>4. s \in Seq(S) => c \in Seq(S)
    BY SMT
  <1> HIDE DEF c
  <1>5. c \in Seq(Range(c))
    <2>1. DOMAIN c = 1 .. Len(c) /\ Len(c) \in Nat /\ c = [i \in 1 .. Len(c) |-> c[i]]
      BY <1>3
    <2>2. \A i \in 1 .. Len(c) : c[i] \in Range(c)
      BY <2>1 DEF Range
    <2>3. c \in [1 .. Len(c) -> Range(c)]
      BY <2>1, <2>2
    <2> QED BY <2>1, <2>3
  <1>6. \A i \in 1 .. Len(s) : c[i] = s[i]
    BY <1>2, <1>3
  <1>7. \A i \in 1 .. Len(r) : c[Len(s) + i] = r[i]
    <2> TAKE i \in 1 .. Len(r)
    <2>1. Len(s) + i \in 1 .. Len(s) + Len(r) /\ ~(Len(s) + i <= Len(s)) /\ Len(s) + i - Len(s) = i
      BY <1>2
    <2> QED BY <1>3, <2>1
  <1>8. \A i \in Len(s) + 1 .. Len(s) + Len(r) : c[i] = r[i - Len(s)]
    BY <1>2, <1>3
  <1> QED BY <1>2, <1>3, <1>4, <1>5, <1>6, <1>7, <1>8 DEF c

LEMMA ShownInit == Init => ShownFresh /\ Passed /\ RowsShown
  <1> SUFFICES ASSUME Init PROVE RowsShown
    BY DEF Init, NoWalk, ShownFresh, Passed
  <1>1. walk.rows = <<>> /\ walk.first = 1
    BY DEF Init, NoWalk
  <1> QED BY <1>1, PagingAssumption DEF RowsShown, PositiveInt64

(* A page of a sorted list: the rows with offset, offset + 1, ... before   *)
(* them, and every row with fewer before it than the page reaches to.      *)
LEMMA PageRanks ==
    ASSUME NEW d, Sound(d), NEW l \in Lists, Sorted(l), NEW q \in Enumerations(d, l),
           NEW offset \in Nat, NEW pageSize \in Nat \ {0}, NEW rows,
           IsPage(Rows(d, l), q, offset, pageSize, rows)
    PROVE  /\ \A i \in 1 .. Len(rows) : Rank(d, l, rows[i]) = offset + i - 1
           /\ \A x \in Rows(d, l) :
                 /\ Rank(d, l, x) \in Nat /\ Rank(d, l, x) < Cardinality(Rows(d, l))
                 /\ Rank(d, l, x) >= offset /\ Rank(d, l, x) < offset + Len(rows)
                        => \E i \in 1 .. Len(rows) : rows[i] = x
  <1> DEFINE n == Cardinality(Rows(d, l))
  <1>1. /\ n \in Nat /\ \A x \in Rows(d, l) : \E i \in 1 .. n : q[i] = x
        /\ \A i \in 1 .. n : Rank(d, l, q[i]) = i - 1
    BY EnumerationRank
  <1>2. /\ rows \in Seq(Rows(d, l)) /\ Len(rows) \in 0 .. pageSize
        /\ \A i \in 1 .. Len(rows) : offset + i <= n /\ rows[i] = q[offset + i]
    BY DEF IsPage
  <1> HIDE DEF n
  <1>3. ASSUME NEW i \in 1 .. Len(rows) PROVE Rank(d, l, rows[i]) = offset + i - 1
    <2>1. offset + i \in 1 .. n /\ rows[i] = q[offset + i]
      BY <1>1, <1>2
    <2> QED BY <1>1, <2>1
  <1>4. ASSUME NEW x \in Rows(d, l)
        PROVE  /\ Rank(d, l, x) \in Nat /\ Rank(d, l, x) < n
               /\ Rank(d, l, x) >= offset /\ Rank(d, l, x) < offset + Len(rows)
                        => \E i \in 1 .. Len(rows) : rows[i] = x
    <2>1. PICK k \in 1 .. n : q[k] = x
      BY <1>1
    <2>2. Rank(d, l, x) = k - 1
      BY <1>1, <2>1
    <2>3. ASSUME k - 1 >= offset, k - 1 < offset + Len(rows)
          PROVE  \E i \in 1 .. Len(rows) : rows[i] = x
      <3>1. k - offset \in 1 .. Len(rows) /\ offset + (k - offset) = k
        BY <1>1, <1>2, <2>3
      <3> QED BY <1>2, <2>1, <3>1
    <2> QED BY <1>1, <2>1, <2>2, <2>3
  <1> QED BY <1>3, <1>4 DEF n

(* The page in front of the walk is appended to what was shown. *)
LEMMA ShownFetch ==
    ASSUME Sound(db), WalkTypes, ShownFresh, Passed, RowsShown, FetchPage
    PROVE  ShownFresh' /\ Passed' /\ RowsShown'
  <1> DEFINE l == walk.list
             R == Rows(db, l)
             n == Cardinality(R)
             size == walk.pageSize
             offset == (walk.page - 1) * size
             s == walk.rows
             start == (walk.first - 1) * size
  <1>1. PICK q, r :
            /\ q \in Enumerations(db, l)
            /\ l \in Lists /\ offset \in Nat /\ IsPage(R, q, offset, size, r)
            /\ walk' = [walk EXCEPT !.rows = @ \o r, !.last = Len(r),
                           !.pc = IF Len(r) < size THEN "done" ELSE "next"]
    BY PageFetched
  <1>2. walk.pc = "page" /\ db' = db
    BY DEF FetchPage
  <1>3. PICK p \in {"done", "next"} : p = IF Len(r) < size THEN "done" ELSE "next"
    OBVIOUS
  <1>4. /\ walk'.pc = p /\ walk'.list = l /\ walk'.page = walk.page /\ walk'.pageSize = size
        /\ walk'.first = walk.first /\ walk'.rows = s \o r /\ walk'.quiet = walk.quiet
        /\ walk'.shrunk = walk.shrunk /\ walk'.unmoved = walk.unmoved
    BY <1>1, <1>3 DEF WalkTypes, WalkFields
  <1>5. /\ n \in Nat /\ r \in Seq(R) /\ Len(r) \in 0 .. size
        /\ Len(r) = 0 <=> offset >= n
        /\ Len(r) < size <=> offset + size > n
        /\ Len(r) < size /\ offset <= n => offset + Len(r) = n
    BY <1>1 DEF IsPage
  <1>6. /\ size \in Nat \ {0} /\ walk.page \in Nat \ {0} /\ walk.first \in Nat \ {0}
        /\ start \in Nat
    <2>1. size \in Nat \ {0} /\ walk.page \in Nat \ {0} /\ walk.first \in Nat \ {0}
      BY PagingAssumption DEF WalkTypes, RowsShown, PositiveInt64
    <2>2. \A a, b \in Nat : a * b \in Nat
      BY SMT
    <2> QED BY <2>1, <2>2
  <1>7. walk.page * size = offset + size
    <2>1. \A a, b \in Nat \ {0} : a * b = (a - 1) * b + b
      BY SMT
    <2> QED BY <1>6, <2>1
  <1>8. Start = start /\ Start' = start /\ Ahead = offset
        /\ Ahead' = (IF p = "next" THEN walk.page * size ELSE offset)
    BY <1>2, <1>4 DEF Start, Ahead
  <1>9. /\ s \o r \in Seq(Range(s \o r)) /\ Len(s) \in Nat /\ Len(r) \in Nat
        /\ Len(s \o r) = Len(s) + Len(r)
        /\ \A i \in 1 .. Len(s) : (s \o r)[i] = s[i]
        /\ \A i \in 1 .. Len(r) : (s \o r)[Len(s) + i] = r[i]
        /\ \A i \in Len(s) + 1 .. Len(s) + Len(r) : (s \o r)[i] = r[i - Len(s)]
        /\ s \in Seq(R) => s \o r \in Seq(R)
    BY <1>5, PageAppended DEF RowsShown
  <1>10. Reading /\ walk.pc # "idle"
    BY <1>2 DEF Reading
  <1> HIDE DEF l, R, n, size, offset, s, start
  <1>11. RowsShown'
    BY <1>4, <1>9 DEF RowsShown
  <1>12. Sorted(l) =>
            /\ \A i \in 1 .. Len(r) : Rank(db, l, r[i]) = offset + i - 1
            /\ \A x \in R : /\ Rank(db, l, x) \in Nat /\ Rank(db, l, x) < n
                            /\ Rank(db, l, x) >= offset /\ Rank(db, l, x) < offset + Len(r)
                                   => \E i \in 1 .. Len(r) : r[i] = x
    BY <1>1, <1>6, PageRanks DEF R, n
  <1>13. ShownFresh'
    <2> SUFFICES ASSUME walk.quiet, Sorted(l)
                 PROVE  /\ s \o r \in Seq(R)
                        /\ \A i \in 1 .. Len(s \o r) : Rank(db, l, (s \o r)[i]) = start + i - 1
                        /\ p = "next" => /\ start + Len(s \o r) = offset + size
                                         /\ offset + size <= n
                        /\ p = "done" => \/ start + Len(s \o r) = n
                                         \/ start >= n /\ Len(s \o r) = 0
      BY <1>1, <1>2, <1>3, <1>4, <1>7, <1>8 DEF ShownFresh, Reading, R, n
    <2>1. /\ s \in Seq(R) /\ \A i \in 1 .. Len(s) : Rank(db, l, s[i]) = start + i - 1
          /\ start + Len(s) = offset /\ (offset <= n \/ offset = start)
      BY <1>8, <1>10 DEF ShownFresh, l, R, n, s
    <2>2. ASSUME NEW i \in 1 .. Len(s \o r) PROVE Rank(db, l, (s \o r)[i]) = start + i - 1
      <3>1. CASE i <= Len(s)
        BY <1>9, <2>1, <3>1
      <3>2. CASE i > Len(s)
        <4>1. i - Len(s) \in 1 .. Len(r) /\ i \in Len(s) + 1 .. Len(s) + Len(r)
          BY <1>9, <3>2
        <4>2. Rank(db, l, r[i - Len(s)]) = offset + (i - Len(s)) - 1
          BY <1>12, <4>1
        <4> QED BY <1>6, <1>9, <2>1, <4>1, <4>2
      <3> QED BY <1>9, <3>1, <3>2
    <2>3. p = "next" => start + Len(s \o r) = offset + size /\ offset + size <= n
      <3>1. p = "next" => Len(r) = size /\ offset + size <= n
        <4>1. p = "next" => ~(Len(r) < size)
          BY <1>3
        <4> QED BY <1>1, <1>5, <1>6, <4>1
      <3>2. start + (Len(s) + Len(r)) = offset + Len(r)
        BY <1>1, <1>6, <1>9, <2>1
      <3>3. Len(s \o r) = Len(s) + Len(r)
        BY <1>9
      <3> QED BY <3>1, <3>2, <3>3
    <2>4. p = "done" => start + Len(s \o r) = n \/ (start >= n /\ Len(s \o r) = 0)
      BY <1>1, <1>3, <1>5, <1>6, <1>9, <2>1
    <2> QED BY <1>9, <2>1, <2>2, <2>3, <2>4
  <1>14. Passed'
    <2> SUFFICES ASSUME walk.first = 1, ~walk.shrunk, Sorted(l), NEW u \in walk.unmoved
                 PROVE  \E x \in R :
                            /\ Subject(l, x) = u
                            /\ \/ \E i \in 1 .. Len(s \o r) : Subject(l, (s \o r)[i]) = u
                               \/ p = "next" /\ Rank(db, l, x) >= offset + size
      BY <1>2, <1>3, <1>4, <1>7, <1>8 DEF Passed, Reading, R
    <2>1. PICK x \in R :
              /\ Subject(l, x) = u
              /\ (\E i \in 1 .. Len(s) : Subject(l, s[i]) = u) \/ Rank(db, l, x) >= offset
      BY <1>2, <1>8, <1>10 DEF Passed, l, R, s
    <2>2. CASE \E i \in 1 .. Len(s) : Subject(l, s[i]) = u
      <3>1. PICK i \in 1 .. Len(s) : Subject(l, s[i]) = u
        BY <2>2
      <3>2. i \in 1 .. Len(s \o r) /\ (s \o r)[i] = s[i]
        BY <1>9, <3>1
      <3> QED BY <2>1, <3>1, <3>2
    <2>3. CASE Rank(db, l, x) >= offset
      <3>1. Rank(db, l, x) \in Nat /\ Rank(db, l, x) < n
        BY <1>12, <2>1
      <3>2. CASE Rank(db, l, x) < offset + Len(r)
        <4>1. PICK i \in 1 .. Len(r) : r[i] = x
          BY <1>12, <2>1, <2>3, <3>2
        <4>2. Len(s) + i \in 1 .. Len(s \o r) /\ (s \o r)[Len(s) + i] = x
          BY <1>9, <4>1
        <4> QED BY <2>1, <4>2
      <3>3. CASE Rank(db, l, x) >= offset + Len(r)
        BY <1>1, <1>3, <1>5, <1>6, <2>1, <2>3, <3>1, <3>3
      <3> QED BY <1>1, <1>9, <3>1, <3>2, <3>3
    <2> QED BY <2>1, <2>2, <2>3
  <1> QED BY <1>11, <1>13, <1>14

(* The other steps of a walk change neither the list nor what was shown. *)
LEMMA ShownRead ==
    ASSUME Sound(db), WalkTypes, ShownFresh, Passed, RowsShown,
           \/ \E ll \in Lists, page \in Pages, pageSize \in 1 .. MaxPageSize :
                  HandleList(ll, page, pageSize)
           \/ FindOwner \/ CountRows \/ NextPage
    PROVE  ShownFresh' /\ Passed' /\ RowsShown'
  <1>1. ASSUME NEW l \in Lists, NEW page \in Pages, NEW size \in 1 .. MaxPageSize,
               HandleList(l, page, size)
        PROVE  ShownFresh' /\ Passed' /\ RowsShown'
    <2>1. /\ walk' = [NoWalk EXCEPT !.pc = FirstQuery(l), !.list = l, !.pageSize = size,
                              !.first = page, !.page = page, !.unmoved = Subjects(db, l)]
          /\ db' = db /\ PageAccepted(page, size)
      BY <1>1 DEF HandleList
    <2>2. /\ walk'.pc \in {"find", "count"} /\ walk'.list = l /\ walk'.pageSize = size
          /\ walk'.first = page /\ walk'.page = page /\ walk'.rows = <<>>
          /\ walk'.unmoved = Subjects(db, l)
      BY <2>1 DEF NoWalk, FirstQuery
    <2>3. page \in Nat \ {0} /\ page \in PositiveInt64 /\ size \in Nat \ {0}
      BY <2>1, PagingAssumption DEF PageAccepted, PositiveInt64
    <2>4. Reading' /\ Start' = (page - 1) * size /\ Ahead' = (page - 1) * size
      BY <2>2 DEF Reading, Start, Ahead
    <2>5. (page - 1) * size \in Int
      BY <2>3
    <2>6. RowsShown'
      BY <2>2, <2>3 DEF RowsShown
    <2>7. ShownFresh'
      <3>1. <<>> \in Seq(Rows(db, l)) /\ Len(<<>>) = 0 /\ \A i \in 1 .. 0 : FALSE
        BY SMT
      <3>2. (page - 1) * size + 0 = (page - 1) * size
        BY <2>5
      <3> QED BY <2>1, <2>2, <2>4, <3>1, <3>2 DEF ShownFresh
    <2>8. Passed'
      <3> SUFFICES ASSUME page = 1, Sorted(l), NEW u \in Subjects(db, l)
                   PROVE  \E x \in Rows(db, l) : /\ Subject(l, x) = u
                                                 /\ Rank(db, l, x) >= (page - 1) * size
        BY <2>1, <2>2, <2>4 DEF Passed
      <3>1. PICK x \in Rows(db, l) : Subject(l, x) = u
        BY DEF Subjects
      <3>2. Rank(db, l, x) \in Nat
        <4> DEFINE B == {y \in Rows(db, l) : Before(db, l, y, x)}
        <4>1. IsFiniteSet(Rows(db, l)) /\ B \subseteq Rows(db, l)
          BY CountIsRows
        <4>2. IsFiniteSet(B)
          BY <4>1, FS_Subset
        <4> HIDE DEF B
        <4>3. Cardinality(B) \in Nat
          BY <4>2, FS_CardinalityType
        <4> QED BY <4>3 DEF Rank, B
      <3>3. (page - 1) * size = 0
        BY <2>3
      <3> QED BY <3>1, <3>2, <3>3
    <2> QED BY <2>6, <2>7, <2>8
  <1>2. ASSUME FindOwner \/ CountRows
        PROVE  ShownFresh' /\ Passed' /\ RowsShown'
    <2>1. PICK p \in {"gone", "count", "page"} : \E t :
              /\ walk.pc \in {"find", "count"} /\ db' = db
              /\ walk' = [walk EXCEPT !.pc = p, !.total = t]
      <3>1. CASE FindOwner
        <4>1. PICK p \in {"gone", "count", "page"} : walk' = [walk EXCEPT !.pc = p]
          BY <3>1 DEF FindOwner
        <4>2. walk' = [walk EXCEPT !.pc = p, !.total = walk.total]
          BY <4>1 DEF WalkTypes, WalkFields
        <4>3. walk.pc = "find" /\ db' = db
          BY <3>1 DEF FindOwner
        <4> QED BY <4>2, <4>3
      <3>2. CASE CountRows
        BY <3>2 DEF CountRows
      <3> QED BY <1>2, <3>1, <3>2
    <2>2. /\ walk'.pc = p /\ walk'.list = walk.list /\ walk'.page = walk.page
          /\ walk'.pageSize = walk.pageSize /\ walk'.first = walk.first /\ walk'.rows = walk.rows
          /\ walk'.quiet = walk.quiet /\ walk'.shrunk = walk.shrunk
          /\ walk'.unmoved = walk.unmoved
      BY <2>1 DEF WalkTypes, WalkFields
    <2>3. Reading /\ walk.pc # "idle" /\ Start' = Start /\ Ahead' = Ahead
      BY <2>1, <2>2 DEF Reading, Start, Ahead
    <2>4. ShownFresh'
      BY <2>1, <2>2, <2>3 DEF ShownFresh
    <2>5. Passed'
      BY <2>1, <2>2, <2>3 DEF Passed, Reading
    <2> QED BY <2>2, <2>4, <2>5 DEF RowsShown
  <1>3. ASSUME NextPage
        PROVE  ShownFresh' /\ Passed' /\ RowsShown'
    <2>1. PICK p \in {"find", "count"} :
              /\ walk.pc = "next" /\ db' = db
              /\ walk' = [walk EXCEPT !.page = @ + 1, !.pc = p]
      BY <1>3 DEF NextPage, FirstQuery
    <2>2. /\ walk'.pc = p /\ walk'.list = walk.list /\ walk'.page = walk.page + 1
          /\ walk'.pageSize = walk.pageSize /\ walk'.first = walk.first /\ walk'.rows = walk.rows
          /\ walk'.quiet = walk.quiet /\ walk'.shrunk = walk.shrunk
          /\ walk'.unmoved = walk.unmoved
      BY <2>1 DEF WalkTypes, WalkFields
    <2>3. walk.page \in Nat
      BY PagingAssumption DEF WalkTypes, PositiveInt64
    <2>4. Reading /\ Reading' /\ walk.pc # "idle" /\ Start' = Start /\ Ahead' = Ahead
      BY <2>1, <2>2, <2>3 DEF Reading, Start, Ahead
    <2>5. ShownFresh'
      BY <2>1, <2>2, <2>4 DEF ShownFresh
    <2>6. Passed'
      BY <2>1, <2>2, <2>4 DEF Passed
    <2> QED BY <2>2, <2>5, <2>6 DEF RowsShown
  <1> QED BY <1>1, <1>2, <1>3

-----------------------------------------------------------------------------
(***************************************************************************)
(* The writers.  A campaign keeps its created_at and only gains donations, *)
(* and a donor only gains donations, the latest last; so a row that keeps  *)
(* its key never comes before one it was behind.                           *)
(***************************************************************************)
LEMMA RowsOnlyGain ==
    ASSUME Sound(db), WriteStep
    PROVE  /\ db.donations \subseteq db'.donations
           /\ \A c \in Campaigns : db.campaigns[c].status # "none" =>
                  /\ db'.campaigns[c].created = db.campaigns[c].created
                  /\ db'.campaigns[c].raised >= db.campaigns[c].raised
  <1> DEFINE Gain == /\ db.donations \subseteq db'.donations
                     /\ \A c \in Campaigns : db.campaigns[c].status # "none" =>
                           /\ db'.campaigns[c].created = db.campaigns[c].created
                           /\ db'.campaigns[c].raised >= db.campaigns[c].raised
  <1>1. db \in Tables /\ \A c \in Campaigns : db.campaigns[c] \in Row
    BY DEF Sound, Tables
  <1>2. \A c \in Campaigns : db.campaigns[c].raised \in Nat
    BY <1>1 DEF Row
  <1>3. ASSUME NEW c \in Campaigns, NEW row, NEW D,
               db.donations \subseteq D,
               db'.campaigns = [db.campaigns EXCEPT ![c] = row], db'.donations = D,
               db.campaigns[c].status # "none" =>
                  /\ row.created = db.campaigns[c].created
                  /\ row.raised >= db.campaigns[c].raised
        PROVE  Gain
    <2>1. db'.campaigns[c] = row /\ \A b \in Campaigns \ {c} : db'.campaigns[b] = db.campaigns[b]
      BY <1>1, <1>3 DEF Tables
    <2> QED BY <1>2, <1>3, <2>1
  <1>4. ASSUME NEW c \in Campaigns, NEW f, NEW t, CreateCampaign(c, f, t)
        PROVE  Gain
    <2> DEFINE row == [status |-> "pending", created |-> t, raised |-> 0, fundraiser |-> f]
    <2>1. db' = [db EXCEPT !.campaigns[c] = row] /\ db.campaigns[c].status = "none"
      BY <1>4 DEF CreateCampaign, Write
    <2> HIDE DEF row
    <2>2. db'.campaigns = [db.campaigns EXCEPT ![c] = row] /\ db'.donations = db.donations
      BY <1>1, <2>1 DEF Tables
    <2> HIDE DEF Gain
    <2> QED BY <1>3, <2>1, <2>2
  <1>5. ASSUME NEW c \in Campaigns, NEW status, SetStatus(c, status)
        PROVE  Gain
    <2> DEFINE row == [db.campaigns[c] EXCEPT !.status = status]
    <2>1. db' = [db EXCEPT !.campaigns[c] = row]
      BY <1>1, <1>5 DEF SetStatus, Write, Tables
    <2>2. row.created = db.campaigns[c].created /\ row.raised = db.campaigns[c].raised
      BY <1>1 DEF Row
    <2> HIDE DEF row
    <2>3. db'.campaigns = [db.campaigns EXCEPT ![c] = row] /\ db'.donations = db.donations
      BY <1>1, <2>1 DEF Tables
    <2>4. row.raised >= db.campaigns[c].raised
      BY <1>2, <2>2
    <2> HIDE DEF Gain
    <2> QED BY <1>3, <2>2, <2>3, <2>4
  <1>6. ASSUME NEW c \in Campaigns, NEW a, NEW amount \in 1 .. MaxAmount, Donate(c, a, amount)
        PROVE  Gain
    <2> DEFINE row == [db.campaigns[c] EXCEPT !.raised = @ + amount]
    <2>1. PICK new : db' = [db EXCEPT !.campaigns[c].raised = @ + amount,
                                      !.donations = @ \cup {new}]
      BY <1>6 DEF Donate, Write
    <2>2. db' = [db EXCEPT !.campaigns[c] = row, !.donations = db.donations \cup {new}]
      BY <1>1, <2>1 DEF Tables
    <2>3. /\ row.created = db.campaigns[c].created
          /\ row.raised = db.campaigns[c].raised + amount
      BY <1>1 DEF Row
    <2>4. row.raised >= db.campaigns[c].raised
      BY <1>2, <2>3
    <2> HIDE DEF row
    <2>5. /\ db'.campaigns = [db.campaigns EXCEPT ![c] = row]
          /\ db'.donations = db.donations \cup {new}
      BY <1>1, <2>2 DEF Tables
    <2> HIDE DEF Gain
    <2>6. db.donations \subseteq db.donations \cup {new}
      OBVIOUS
    <2> QED BY <1>3, <2>3, <2>4, <2>5, <2>6
  <1>7. ASSUME db'.campaigns = db.campaigns, db'.donations = db.donations
        PROVE  Gain
    BY <1>2, <1>7
  <1>8. ASSUME \/ \E f \in Fundraisers : DeleteFundraiser(f)
               \/ \E u \in Profiles : DeleteSupporter(u) \/ \E a \in Donors : RegisterSupporter(u, a)
        PROVE  db'.campaigns = db.campaigns /\ db'.donations = db.donations
    BY <1>1, <1>8 DEF DeleteFundraiser, DeleteSupporter, RegisterSupporter, Write, Tables
  <1> HIDE DEF Gain
  <1>9. Gain
    BY <1>4, <1>5, <1>6, <1>7, <1>8 DEF WriteStep, FinishDeployment, EndCampaign
  <1> QED BY <1>9 DEF Gain

(* A donor's sum and latest time only grow. *)
LEMMA DonationsOnlyGain ==
    ASSUME Sound(db), WriteStep
    PROVE  \E new : db'.donations \in {db.donations, db.donations \cup {new}}
  <1>1. db \in Tables
    BY DEF Sound
  <1>2. ASSUME NEW c \in Campaigns, NEW a, NEW amount, Donate(c, a, amount)
        PROVE  \E new : db'.donations = db.donations \cup {new}
    <2>1. PICK new : db' = [db EXCEPT !.campaigns[c].raised = @ + amount,
                                      !.donations = @ \cup {new}]
      BY <1>2 DEF Donate, Write
    <2>2. db'.donations = db.donations \cup {new}
      BY <1>1, <2>1 DEF Tables
    <2> QED BY <2>2
  <1>3. ASSUME NEW c \in Campaigns,
               \/ \E f, t : CreateCampaign(c, f, t)
               \/ FinishDeployment(c) \/ EndCampaign(c)
        PROVE  db'.donations = db.donations
    BY <1>1, <1>3 DEF CreateCampaign, FinishDeployment, EndCampaign, SetStatus, Write, Tables
  <1>4. ASSUME \/ \E f \in Fundraisers : DeleteFundraiser(f)
               \/ \E u \in Profiles : DeleteSupporter(u) \/ \E a \in Donors : RegisterSupporter(u, a)
        PROVE  db'.donations = db.donations
    BY <1>1, <1>4 DEF DeleteFundraiser, DeleteSupporter, RegisterSupporter, Write, Tables
  <1> QED BY <1>2, <1>3, <1>4 DEF WriteStep

LEMMA DonorsOnlyGain ==
    ASSUME Sound(db), Sound(db'), WriteStep, NEW c, NEW a \in DonorsOf(db, c)
    PROVE  /\ a \in DonorsOf(db', c)
           /\ Amount(db', c, a) >= Amount(db, c, a)
           /\ DonatedAt(db', c, a) >= DonatedAt(db, c, a)
  <1> DEFINE D == DonationsOf(db, c, a)
             E == DonationsOf(db', c, a)
  <1>1. PICK new : db'.donations \in {db.donations, db.donations \cup {new}}
    BY DonationsOnlyGain
  <1>2. a \in DonorsOf(db', c) /\ D \subseteq E
    BY <1>1 DEF DonorsOf, DonationsOf
  <1>3. E = D \/ (E = D \cup {new} /\ new \notin D)
    BY <1>1 DEF DonationsOf
  <1>4. /\ Amount(db, c, a) = Total(D) /\ Amount(db, c, a) \in Nat
        /\ DonatedAt(db, c, a) \in {x.at : x \in D} /\ DonatedAt(db, c, a) \in Nat
    BY DonorNumbers
  <1>5. /\ Amounts(E) /\ Amount(db', c, a) = Total(E)
        /\ \A x \in E : DonatedAt(db', c, a) >= x.at
    BY <1>2, DonorNumbers
  <1> HIDE DEF D, E
  <1>6. Total(E) >= Total(D)
    <2>1. CASE E = D
      BY <1>4, <2>1
    <2>2. CASE E = D \cup {new} /\ new \notin D
      <3>1. new \in E /\ E \ {new} = D /\ new.amount \in Nat
        BY <1>5, <2>2 DEF Amounts
      <3>2. Total(E) = new.amount + Total(D)
        BY <1>5, <3>1, TotalWithout
      <3> QED BY <1>4, <3>1, <3>2
    <2> QED BY <1>3, <2>1, <2>2
  <1> QED BY <1>2, <1>4, <1>5, <1>6

(* What comes before a row that keeps its key goes on coming before it. *)
LEMMA BeforeKept ==
    ASSUME Sound(db), Sound(db'), WriteStep, NEW l \in Lists, Sorted(l),
           NEW x \in Rows(db, l), NEW y \in Rows(db, l),
           NEW xn \in Rows(db', l), NEW yn \in Rows(db', l),
           Subject(l, xn) = Subject(l, x), Subject(l, yn) = Subject(l, y),
           Key(db', l, xn) = Key(db, l, xn), Before(db, l, y, x)
    PROVE  Before(db', l, yn, xn)
  <1>1. CASE l.kind = "donations"
    BY <1>1 DEF Before, Subject
  <1>2. CASE l.kind \in {"public", "fundraiser"}
    <2>0. xn = x /\ yn = y
      BY <1>2 DEF Subject
    <2>1. x \in Campaigns /\ y \in Campaigns
      BY <1>2, RowKinds
    <2>2. db.campaigns[x].status # "none" /\ db.campaigns[y].status # "none"
      BY <1>2 DEF Rows, publicCampaignListFromWhere, fundraiserCampaignListFromWhere, IsPublic,
         Owned
    <2> DEFINE X == db.campaigns[x]
               Y == db.campaigns[y]
               Xn == db'.campaigns[x]
               Yn == db'.campaigns[y]
    <2>3. Xn.created = X.created /\ Yn.created = Y.created /\ Yn.raised >= Y.raised
      BY <2>1, <2>2, RowsOnlyGain
    <2>4. l.sort \notin {"newest", "oldest"} => Xn.raised = X.raised
      BY <1>2, <2>0 DEF Key
    <2>5. /\ \A b \in {x, y} : /\ db.campaigns[b].raised \in Nat
                               /\ db'.campaigns[b].raised \in Nat /\ Goal[b] \in Nat
      BY <2>1, CampaignNumbers
    <2>6. /\ Newer(db', y, x) <=> Newer(db, y, x)
          /\ Newer(db', x, y) <=> Newer(db, x, y)
      BY <2>3 DEF Newer
    <2>7. /\ Before(db, l, y, x) <=> campaignListOrderBy(db, l.sort, y, x)
          /\ Before(db', l, yn, xn) <=> campaignListOrderBy(db', l.sort, y, x)
      BY <1>2, <2>0 DEF Before
    <2>8. CASE l.sort = "oldest"
      BY <2>6, <2>7, <2>8 DEF campaignListOrderBy
    <2>9. CASE l.sort = "close-to-goal"
      <3>1. \/ Y.raised * Goal[x] > X.raised * Goal[y]
            \/ Y.raised * Goal[x] = X.raised * Goal[y] /\ Newer(db, y, x)
        BY <2>7, <2>9 DEF campaignListOrderBy
      <3>2. \A m, n, k \in Nat : m >= n => m * k >= n * k
        BY SMT
      <3>3. \A m, n \in Nat : m * n \in Nat
        BY SMT
      <3>4. Yn.raised * Goal[x] >= Y.raised * Goal[x] /\ Xn.raised * Goal[y] = X.raised * Goal[y]
        BY <2>3, <2>4, <2>5, <2>9, <3>2
      <3>5. /\ Y.raised * Goal[x] \in Nat /\ Yn.raised * Goal[x] \in Nat
            /\ X.raised * Goal[y] \in Nat
        BY <2>5, <3>3
      <3>6. \/ Yn.raised * Goal[x] > Xn.raised * Goal[y]
            \/ Yn.raised * Goal[x] = Xn.raised * Goal[y] /\ Newer(db', y, x)
        BY <2>6, <3>1, <3>4, <3>5
      <3> QED BY <2>7, <2>9, <3>6 DEF campaignListOrderBy
    <2>10. CASE l.sort = "most-donated"
      <3>1. Y.raised > X.raised \/ (Y.raised = X.raised /\ Newer(db, y, x))
        BY <2>7, <2>10 DEF campaignListOrderBy
      <3>2. Yn.raised > Xn.raised \/ (Yn.raised = Xn.raised /\ Newer(db', y, x))
        BY <2>3, <2>4, <2>5, <2>6, <2>10, <3>1
      <3> QED BY <2>7, <2>10, <3>2 DEF campaignListOrderBy
    <2>11. CASE l.sort \notin {"random", "oldest", "close-to-goal", "most-donated"}
      BY <2>6, <2>7, <2>11 DEF campaignListOrderBy
    <2> QED BY <2>8, <2>9, <2>10, <2>11 DEF Sorted
  <1>3. CASE l.kind = "donors"
    <2> DEFINE a == x[1]
               b == y[1]
               A(z)  == Amount(db, l.of, z)
               T(z)  == DonatedAt(db, l.of, z)
               An(z) == Amount(db', l.of, z)
               Tn(z) == DonatedAt(db', l.of, z)
    <2>1. xn[1] = a /\ yn[1] = b
      BY <1>3 DEF Subject
    <2>2. a \in DonorsOf(db, l.of) /\ b \in DonorsOf(db, l.of)
      BY <1>3, RowKinds
    <2>3. /\ a \in DonorsOf(db', l.of) /\ b \in DonorsOf(db', l.of)
          /\ An(b) >= A(b) /\ Tn(b) >= T(b)
      BY <2>2, DonorsOnlyGain
    <2>4. /\ a \in Nat /\ b \in Nat /\ A(a) \in Nat /\ A(b) \in Nat
          /\ T(a) \in Nat /\ T(b) \in Nat /\ An(b) \in Nat /\ Tn(b) \in Nat
      BY <2>2, <2>3, DonorNumbers
    <2>5. An(a) = A(a) /\ Tn(a) = T(a)
      BY <1>3, <2>1 DEF Key
    <2>6. /\ Before(db, l, y, x) <=> campaignDonorListOrderBy(db, l, b, a)
          /\ Before(db', l, yn, xn) <=> campaignDonorListOrderBy(db', l, b, a)
      BY <1>3, <2>1 DEF Before
    <2>7. \A p, q, r, s, i, j, pn, qn \in Nat :
              pn >= p /\ qn >= q /\ Precedes(p, q, r, s, i, j) => Precedes(pn, qn, r, s, i, j)
      BY DEF Precedes
    <2> HIDE DEF a, b, A, T, An, Tn
    <2>8. campaignDonorListOrderBy(db, l, b, a) <=>
              IF l.sort = "top" THEN Precedes(A(b), T(b), A(a), T(a), b, a)
                                ELSE Precedes(T(b), A(b), T(a), A(a), b, a)
      BY DonorOrder DEF A, T
    <2>9. campaignDonorListOrderBy(db', l, b, a) <=>
              IF l.sort = "top" THEN Precedes(An(b), Tn(b), An(a), Tn(a), b, a)
                                ELSE Precedes(Tn(b), An(b), Tn(a), An(a), b, a)
      BY DonorOrder DEF An, Tn
    <2>10. CASE l.sort = "top"
      BY <2>3, <2>4, <2>5, <2>6, <2>7, <2>8, <2>9, <2>10
    <2>11. CASE l.sort # "top"
      BY <2>3, <2>4, <2>5, <2>6, <2>7, <2>8, <2>9, <2>11
    <2> QED BY <2>10, <2>11
  <1> QED BY <1>1, <1>2, <1>3, ListKinds

LEMMA RankGrows ==
    ASSUME Sound(db), Sound(db'), WriteStep, NEW l \in Lists, Sorted(l),
           Subjects(db, l) \subseteq Subjects(db', l),
           NEW x \in Rows(db, l), NEW xn \in Rows(db', l), Subject(l, xn) = Subject(l, x),
           Key(db', l, xn) = Key(db, l, xn)
    PROVE  /\ Rank(db, l, x) \in Nat /\ Rank(db', l, xn) \in Nat
           /\ Rank(db, l, x) <= Rank(db', l, xn)
  <1> DEFINE A == {y \in Rows(db, l) : Before(db, l, y, x)}
             B == {y \in Rows(db', l) : Before(db', l, y, xn)}
             same(y) == CHOOSE z \in Rows(db', l) : Subject(l, z) = Subject(l, y)
             f == [y \in A |-> same(y)]
  <1>1. \A y \in Rows(db, l) : same(y) \in Rows(db', l) /\ Subject(l, same(y)) = Subject(l, y)
    BY DEF Subjects
  <1> HIDE DEF same
  <1>2. \A y \in A : same(y) \in B
    BY <1>1, BeforeKept
  <1>3. \A y, z \in A : same(y) = same(z) => y = z
    BY <1>1, SubjectsDistinct
  <1>4. IsFiniteSet(Rows(db', l)) /\ B \subseteq Rows(db', l)
    BY CountIsRows
  <1>5. IsFiniteSet(B)
    BY <1>4, FS_Subset
  <1>6. Rank(db, l, x) = Cardinality(A) /\ Rank(db', l, xn) = Cardinality(B)
    BY DEF Rank
  <1> HIDE DEF A, B
  <1>7. f \in Injection(A, B)
    BY <1>2, <1>3 DEF Injection, IsInjective
  <1>8. IsFiniteSet(A) /\ Cardinality(A) <= Cardinality(B)
    BY <1>5, <1>7, FS_Injection
  <1>9. Cardinality(A) \in Nat /\ Cardinality(B) \in Nat
    BY <1>5, <1>8, FS_CardinalityType
  <1> QED BY <1>6, <1>8, <1>9

(* What the walk notes of a write. *)
LEMMA WriteNoted ==
    ASSUME WalkTypes, WriteStep, walk.list # None
    PROVE  LET l == walk.list IN
           /\ Reading
           /\ walk'.pc = walk.pc /\ walk'.list = l /\ walk'.page = walk.page
           /\ walk'.pageSize = walk.pageSize /\ walk'.first = walk.first
           /\ walk'.rows = walk.rows /\ ~walk'.quiet
           /\ ~walk'.shrunk => ~walk.shrunk /\ Subjects(db, l) \subseteq Subjects(db', l)
           /\ \A s \in walk'.unmoved :
                 \E x \in Rows(db', l) : /\ s = Subject(l, x) /\ s \in walk.unmoved
                                         /\ Key(db', l, x) = Key(db, l, x)
  <1>1. PICK d : Write(d)
    BY DEF WriteStep, CreateCampaign, FinishDeployment, EndCampaign, SetStatus, Donate,
       DeleteFundraiser, RegisterSupporter, DeleteSupporter
  <1> DEFINE l == walk.list
             a == walk.shrunk \/ ~(Subjects(db, l) \subseteq Subjects(d, l))
             b == {Subject(l, x) : x \in {x \in Rows(d, l) :
                     Subject(l, x) \in walk.unmoved /\ Key(d, l, x) = Key(db, l, x)}}
  <1>2. /\ walk' = [walk EXCEPT !.quiet = FALSE, !.shrunk = a, !.unmoved = b]
        /\ db' = d /\ (walk.pc = "idle" \/ Reading)
    BY <1>1 DEF Write
  <1>3. Reading
    BY <1>2 DEF WalkTypes
  <1> HIDE DEF a, b
  <1>4. /\ walk'.pc = walk.pc /\ walk'.list = l /\ walk'.page = walk.page
        /\ walk'.pageSize = walk.pageSize /\ walk'.first = walk.first
        /\ walk'.rows = walk.rows /\ walk'.quiet = FALSE /\ walk'.shrunk = a /\ walk'.unmoved = b
    BY <1>2 DEF WalkTypes, WalkFields
  <1>5. ~a => ~walk.shrunk /\ Subjects(db, l) \subseteq Subjects(d, l)
    BY DEF a
  <1>6. \A s \in b : \E x \in Rows(d, l) : /\ s = Subject(l, x) /\ s \in walk.unmoved
                                           /\ Key(d, l, x) = Key(db, l, x)
    BY DEF b
  <1> QED BY <1>2, <1>3, <1>4, <1>5, <1>6

LEMMA ShownWrite ==
    ASSUME Sound(db), Sound(db'), WalkTypes, ShownFresh, Passed, RowsShown, WriteStep
    PROVE  ShownFresh' /\ Passed' /\ RowsShown'
  <1>1. CASE walk.list = None
    <2>1. walk' = walk /\ walk.pc = "idle"
      BY <1>1, WriteAndWalk DEF WalkTypes
    <2> QED BY <2>1 DEF ShownFresh, Passed, RowsShown
  <1>2. CASE walk.list # None
    <2> DEFINE l == walk.list
    <2>0. l \in Lists
      BY <1>2 DEF WalkTypes
    <2>1. /\ Reading
          /\ walk'.pc = walk.pc /\ walk'.list = l /\ walk'.page = walk.page
          /\ walk'.pageSize = walk.pageSize /\ walk'.first = walk.first
          /\ walk'.rows = walk.rows /\ ~walk'.quiet
      BY <1>2, WriteNoted
    <2>2. /\ ~walk'.shrunk => ~walk.shrunk /\ Subjects(db, l) \subseteq Subjects(db', l)
          /\ \A s \in walk'.unmoved :
                \E x \in Rows(db', l) : /\ s = Subject(l, x) /\ s \in walk.unmoved
                                        /\ Key(db', l, x) = Key(db, l, x)
      BY <1>2, WriteNoted
    <2>3. ShownFresh' /\ RowsShown'
      BY <2>1 DEF ShownFresh, RowsShown
    <2>4. Passed'
      <3> SUFFICES ASSUME walk.first = 1, ~walk'.shrunk, Sorted(l), NEW s \in walk'.unmoved
                   PROVE  \E x \in Rows(db', l) :
                              /\ Subject(l, x) = s
                              /\ \/ \E i \in 1 .. Len(walk.rows) : Subject(l, walk.rows[i]) = s
                                 \/ Rank(db', l, x) >= Ahead
        <4>1. Ahead' = Ahead /\ Reading' /\ Reading
          BY <2>1 DEF Ahead, Reading
        <4> QED BY <2>1, <4>1 DEF Passed
      <3>1. PICK xn \in Rows(db', l) : /\ s = Subject(l, xn) /\ s \in walk.unmoved
                                       /\ Key(db', l, xn) = Key(db, l, xn)
        BY <2>2
      <3>2. Subjects(db, l) \subseteq Subjects(db', l)
        BY <2>2
      <3>3. PICK x \in Rows(db, l) :
                /\ Subject(l, x) = s
                /\ \/ \E i \in 1 .. Len(walk.rows) : Subject(l, walk.rows[i]) = s
                   \/ Rank(db, l, x) >= Ahead
        <4>1. walk.pc \notin {"idle", "gone"} /\ ~walk.shrunk
          BY <2>1, <2>2 DEF Reading
        <4> QED BY <3>1, <4>1 DEF Passed
      <3>4. /\ Rank(db, l, x) \in Nat /\ Rank(db', l, xn) \in Nat
            /\ Rank(db, l, x) <= Rank(db', l, xn)
        BY <2>0, <3>1, <3>2, <3>3, RankGrows
      <3>5. Ahead \in Int
        <4>1. walk.page \in Int /\ walk.pageSize \in Int
          BY DEF WalkTypes, PositiveInt64
        <4> QED BY <4>1 DEF Ahead
      <3>6. Rank(db, l, x) >= Ahead => Rank(db', l, xn) >= Ahead
        BY <3>4, <3>5
      <3> QED BY <3>1, <3>3, <3>6
    <2> QED BY <2>3, <2>4
  <1> QED BY <1>1, <1>2

ShownInv == ListInv /\ ShownFresh /\ Passed /\ RowsShown

LEMMA ShownStep == ShownInv /\ [Next]_vars => ShownInv'
  <1> SUFFICES ASSUME ShownInv, [Next]_vars PROVE ShownInv'
    OBVIOUS
  <1>1. ListInv' /\ Sound(db) /\ Sound(db') /\ WalkTypes /\ ShownFresh /\ Passed /\ RowsShown
    <2>1. ListInv'
      BY ListInvStep DEF ShownInv
    <2> QED BY <2>1 DEF ShownInv, ListInv
  <1>2. CASE FetchPage
    BY <1>1, <1>2, ShownFetch DEF ShownInv
  <1>3. CASE \/ \E ll \in Lists, page \in Pages, pageSize \in 1 .. MaxPageSize :
                    HandleList(ll, page, pageSize)
             \/ FindOwner \/ CountRows \/ NextPage
    BY <1>1, <1>3, ShownRead DEF ShownInv
  <1>4. CASE WriteStep
    BY <1>1, <1>4, ShownWrite DEF ShownInv
  <1>5. CASE UNCHANGED vars
    <2>1. db' = db /\ walk' = walk
      BY <1>5 DEF vars
    <2> QED BY <1>1, <2>1 DEF ShownInv, ShownFresh, Passed, RowsShown, Reading, Start, Ahead
  <1> QED BY <1>2, <1>3, <1>4, <1>5 DEF Next, ReadStep

(***************************************************************************)
(* The invariant behind the two theorems below holds in every state: what  *)
(* an undisturbed walk has shown are the rows from Start on, in order, and *)
(* what kept its key is never behind a walk that did not show it.          *)
(***************************************************************************)
THEOREM WalksInvariant == Spec => []ShownInv
  <1>1. Init => ShownInv
    BY ListInvInit, ShownInit DEF ShownInv
  <1> QED BY <1>1, ShownStep, PTL DEF Spec

(***************************************************************************)
(* A walk of any list, sorted in any order but random, shows every row     *)
(* from its first page on exactly once when nothing is written meanwhile:  *)
(* the orders leave no tie and no donor has two rows.                      *)
(***************************************************************************)
THEOREM QuietWalksExact == Spec => []QuietWalkIsExact
  <1>1. ShownInv => QuietWalkIsExact
    <2> SUFFICES ASSUME ShownInv, walk.pc = "done", walk.quiet, Deterministic
                 PROVE  /\ IsInjective(Shown)
                        /\ Range(Shown) = {Subject(walk.list, x) : x \in
                               {x \in Rows(db, walk.list) : Rank(db, walk.list, x) >= Start}}
      BY DEF QuietWalkIsExact, Rank, Start
    <2> DEFINE l == walk.list
               s == walk.rows
               n == Cardinality(Rows(db, l))
    <2>1. l \in Lists /\ Sorted(l) /\ Sound(db)
      BY DEF ShownInv, ListInv, WalkTypes, Sorted, Deterministic
    <2>2. /\ s \in Seq(Rows(db, l))
          /\ \A i \in 1 .. Len(s) : Rank(db, l, s[i]) = Start + i - 1
          /\ Start + Len(s) = n \/ (Start >= n /\ Len(s) = 0)
          /\ Enumerations(db, l) # {}
      BY <2>1 DEF ShownInv, ShownFresh
    <2>3. PICK q \in Enumerations(db, l) : TRUE
      BY <2>2
    <2>4. /\ n \in Nat /\ q \in [1 .. n -> Rows(db, l)]
          /\ \A x \in Rows(db, l) : \E i \in 1 .. n : q[i] = x
          /\ \A i \in 1 .. n : Rank(db, l, q[i]) = i - 1
      BY <2>1, <2>3, EnumerationRank
    <2>5. Start \in Nat /\ Len(s) \in Nat /\ DOMAIN s = 1 .. Len(s)
          /\ \A i \in 1 .. Len(s) : s[i] \in Rows(db, l)
      <3>1. walk.first - 1 \in Nat /\ walk.pageSize \in Nat
        BY DEF ShownInv, ListInv, WalkTypes, RowsShown, PositiveInt64
      <3>2. \A a, b \in Nat : a * b \in Nat
        BY SMT
      <3>3. Start \in Nat
        BY <3>1, <3>2 DEF Start
      <3> QED BY <2>2, <3>3
    <2>6. DOMAIN Shown = 1 .. Len(s) /\ \A i \in 1 .. Len(s) : Shown[i] = Subject(l, s[i])
      BY <2>5 DEF Shown
    <2> HIDE DEF l, s, n
    <2>7. IsInjective(Shown)
      <3> SUFFICES ASSUME NEW i \in 1 .. Len(s), NEW j \in 1 .. Len(s),
                          Subject(l, s[i]) = Subject(l, s[j])
                   PROVE  i = j
        BY <2>6 DEF IsInjective
      <3>1. s[i] = s[j]
        BY <2>1, <2>5, SubjectsDistinct
      <3>2. Rank(db, l, s[i]) = Start + i - 1 /\ Rank(db, l, s[j]) = Start + j - 1
        BY <2>2
      <3> QED BY <2>5, <3>1, <3>2
    <2>8. ASSUME NEW i \in 1 .. Len(s)
          PROVE  s[i] \in Rows(db, l) /\ Rank(db, l, s[i]) >= Start
      <3>1. Rank(db, l, s[i]) = Start + i - 1
        BY <2>2
      <3> QED BY <2>5, <3>1
    <2>9. ASSUME NEW x \in Rows(db, l), Rank(db, l, x) >= Start
          PROVE  \E i \in 1 .. Len(s) : s[i] = x
      <3>1. PICK k \in 1 .. n : q[k] = x
        BY <2>4
      <3>2. Rank(db, l, x) = k - 1
        BY <2>4, <3>1
      <3>3. Start + Len(s) = n /\ k - Start \in 1 .. Len(s)
        BY <2>2, <2>4, <2>5, <2>9, <3>2
      <3>4. PICK m \in 1 .. n : q[m] = s[k - Start]
        BY <2>4, <2>5, <3>3
      <3>5. Rank(db, l, q[m]) = m - 1 /\ Rank(db, l, s[k - Start]) = Start + (k - Start) - 1
        BY <2>2, <2>4, <3>3
      <3>6. m = k
        BY <2>4, <2>5, <3>4, <3>5
      <3> QED BY <3>1, <3>3, <3>4, <3>6
    <2>10. Range(Shown) = {Subject(l, x) : x \in {x \in Rows(db, l) : Rank(db, l, x) >= Start}}
      <3>1. Range(Shown) = {Subject(l, s[i]) : i \in 1 .. Len(s)}
        BY <2>6 DEF Range
      <3> QED BY <2>8, <2>9, <3>1
    <2> QED BY <2>7, <2>10 DEF l
  <1> QED BY <1>1, WalksInvariant, PTL

(***************************************************************************)
(* A walk from page 1 of any list, sorted in any order but random, shows   *)
(* every row that kept its sort key, whatever else is written meanwhile,   *)
(* as long as no row leaves the list.                                      *)
(***************************************************************************)
THEOREM UnmovedRowsReached == Spec => []UnmovedRowsShown
  <1>1. ShownInv => UnmovedRowsShown
    <2> SUFFICES ASSUME ShownInv, walk.pc = "done", walk.first = 1, ~walk.shrunk, Deterministic,
                        NEW u \in walk.unmoved
                 PROVE  u \in Range(Shown)
      BY DEF UnmovedRowsShown
    <2>1. Sorted(walk.list)
      BY DEF Sorted, Deterministic
    <2>2. PICK i \in 1 .. Len(walk.rows) : Subject(walk.list, walk.rows[i]) = u
      BY <2>1 DEF ShownInv, Passed, Reading
    <2>3. DOMAIN walk.rows = 1 .. Len(walk.rows)
      BY DEF ShownInv, RowsShown
    <2>4. i \in DOMAIN Shown /\ Shown[i] = u
      BY <2>2, <2>3 DEF Shown
    <2> QED BY <2>4 DEF Range
  <1> QED BY <1>1, WalksInvariant, PTL

============================================================================
