---------------------------- MODULE CampaignLists ----------------------------
(***************************************************************************)
(* The paged lists of the API (public campaigns, a fundraiser's campaigns, *)
(* the donors of a campaign, a supporter's donations), read page by page   *)
(* while campaigns, donations and accounts change.  Every request runs its *)
(* queries one after the other without a transaction, and every page is    *)
(* cut out of the list as it is at that moment.                            *)
(*                                                                         *)
(* Donations are written by an indexer outside this repository.  A search  *)
(* term selects on columns that never change; Campaigns are the ones that  *)
(* match.                                                                  *)
(***************************************************************************)
EXTENDS Paging, FiniteSets, SequencesExt, FiniteSetsExt, Functions

CONSTANTS
    Campaigns,    \* campaigns.id, ordered like UUIDs
    Goal,         \* Goal[c]: goal_amount
    Fundraisers,  \* users.id of the fundraisers
    Donors,       \* donor addresses, ordered like strings
    Profiles,     \* users.id of supporters, one per registration
    Lists,        \* the lists that are asked for
    Pages,        \* the pages a client starts from
    Ticks,        \* how much later the next donation may be: 0 is a tie
    MaxAmount,    \* bound on the amount of a donation
    MaxWrites,    \* bound on the changes of the database
    None          \* SQL NULL

Statuses == {"pending", "active", "completed", "cancelled", "failed"}

ListType ==
    [kind : {"public"}, sort : {"random", "newest", "oldest", "close-to-goal", "most-donated"},
     of : {None}, status : {"active", "completed", "cancelled", None}]
    \cup [kind : {"fundraiser"}, sort : {"newest", "oldest", "close-to-goal", "most-donated"},
          of : Fundraisers, status : Statuses \cup {None}]
    \cup [kind : {"donors"}, sort : {"recent", "top"}, of : Campaigns, status : {None}]
    \cup [kind : {"donations"}, sort : {"recent"}, of : Donors, status : {None}]

ASSUME ListAssumption ==
    /\ Campaigns \subseteq Nat /\ IsFiniteSet(Campaigns)
    /\ Donors \subseteq Nat /\ IsFiniteSet(Donors)
    /\ Goal \in [Campaigns -> Nat \ {0}]
    /\ Lists \subseteq ListType /\ None \notin Lists
    /\ Pages \subseteq PositiveInt64
    /\ Ticks \subseteq Nat
    /\ MaxAmount \in Nat /\ MaxWrites \in Nat

VARIABLES
    db,     \* the tables
    walk,   \* a client that reads one list, page after page
    writes  \* changes so far

vars == <<db, walk, writes>>

(* A campaigns row; contract_address is set together with the status       *)
(* active and kept, as campaigns_live_chain_data_check demands.            *)
Row == [status : Statuses \cup {"none"}, created : Nat, raised : Nat,
        fundraiser : Fundraisers \cup {None}]

(* A donations row with its event: created_at and the position on chain. *)
Donation == [campaign : Campaigns, donor : Donors, amount : Nat, at : Nat, log : Nat]

(***************************************************************************)
(* The walk: rows are the rows of the pages so far and last the length of  *)
(* the latest one.  quiet, shrunk and unmoved describe what the writers    *)
(* did meanwhile: nothing; removed a row from the list; left these rows in *)
(* the list, with the same sort key.                                       *)
(***************************************************************************)
NoWalk == [pc |-> "idle", list |-> None, pageSize |-> 1, first |-> 1, page |-> 1,
           total |-> 0, rows |-> <<>>, last |-> 0,
           quiet |-> TRUE, shrunk |-> FALSE, unmoved |-> {}]

Init ==
    /\ db = [campaigns  |-> [c \in Campaigns |->
                 [status |-> "none", created |-> 0, raised |-> 0, fundraiser |-> None]],
             deleted    |-> {},
             supporters |-> [u \in Profiles |-> [wallet |-> None, live |-> FALSE]],
             donations  |-> {}]
    /\ walk = NoWalk
    /\ writes = 0

-----------------------------------------------------------------------------
(***************************************************************************)
(* What the queries select from the tables d.                              *)
(***************************************************************************)
Deployed == {"active", "completed", "cancelled"}

(* Joined with a fundraiser that is not deleted. *)
Owned(d, c) == d.campaigns[c].status # "none" /\ d.campaigns[c].fundraiser \notin d.deleted

(* FindPublicByContractAddress, and findCampaign of the donor list. *)
IsPublic(d, c) == Owned(d, c) /\ d.campaigns[c].status \in Deployed

HasStatus(d, c, status) == status = None \/ d.campaigns[c].status = status

publicCampaignListFromWhere(d, l) ==
    {c \in Campaigns : IsPublic(d, c) /\ HasStatus(d, c, l.status)}

fundraiserCampaignListFromWhere(d, l) ==
    {c \in Campaigns : /\ Owned(d, c) /\ d.campaigns[c].fundraiser = l.of
                       /\ HasStatus(d, c, l.status)}

(* donor_totals: the donations grouped by donor. *)
DonationsOf(d, c, a) == {x \in d.donations : x.campaign = c /\ x.donor = a}
DonorsOf(d, c) == {x.donor : x \in {x \in d.donations : x.campaign = c}}
Amount(d, c, a) == MapThenSumSet(LAMBDA x : x.amount, DonationsOf(d, c, a))
DonatedAt(d, c, a) == Max({x.at : x \in DonationsOf(d, c, a)})

(* The LEFT JOIN with users and supporters. *)
ProfilesOf(d, a) == {u \in Profiles : d.supporters[u].wallet = a /\ d.supporters[u].live}

DonorRows(d, l) ==
    UNION {{<<a, u>> : u \in IF ProfilesOf(d, a) = {} THEN {None} ELSE ProfilesOf(d, a)} :
           a \in DonorsOf(d, l.of)}

DonationRows(d, l) == {x \in d.donations : x.donor = l.of}

Rows(d, l) ==
    CASE l.kind = "public"     -> publicCampaignListFromWhere(d, l)
      [] l.kind = "fundraiser" -> fundraiserCampaignListFromWhere(d, l)
      [] l.kind = "donors"     -> DonorRows(d, l)
      [] l.kind = "donations"  -> DonationRows(d, l)

(* What a row is about: for donors, the donor whoever is registered. *)
Subject(l, x) == IF l.kind = "donors" THEN x[1] ELSE x

Subjects(d, l) == {Subject(l, x) : x \in Rows(d, l)}

-----------------------------------------------------------------------------
(***************************************************************************)
(* ORDER BY: row a comes before row b.                                     *)
(***************************************************************************)
Newer(d, a, b) ==
    LET A == d.campaigns[a].created
        B == d.campaigns[b].created IN A > B \/ (A = B /\ a > b)

(* Variant: the order is not completed by the id. *)
campaignListOrderBy_noTiebreak(d, sort, a, b) ==
    LET A == d.campaigns[a]
        B == d.campaigns[b] IN
    CASE sort = "random" -> FALSE
      [] sort = "oldest" -> A.created < B.created
      [] sort = "close-to-goal" -> A.raised * Goal[b] > B.raised * Goal[a]
      [] sort = "most-donated" -> A.raised > B.raised
      [] OTHER -> A.created > B.created

campaignListOrderBy(d, sort, a, b) ==
    LET A == d.campaigns[a]
        B == d.campaigns[b]
        before(x, y) == x > y \/ (x = y /\ Newer(d, a, b)) IN
    CASE sort = "random" -> FALSE
      [] sort = "oldest" -> Newer(d, b, a)
      [] sort = "close-to-goal" -> before(A.raised * Goal[b], B.raised * Goal[a])
      [] sort = "most-donated" -> before(A.raised, B.raised)
      [] OTHER -> Newer(d, a, b)

(* Variant: the donor who gave least comes first. *)
campaignDonorListOrderBy_ascending(d, l, a, b) ==
    LET A == <<Amount(d, l.of, a), DonatedAt(d, l.of, a)>>
        B == <<Amount(d, l.of, b), DonatedAt(d, l.of, b)>>
        before(i, j) == A[i] < B[i] \/ (A[i] = B[i] /\ (A[j] < B[j] \/ (A[j] = B[j] /\ a < b))) IN
    IF l.sort = "top" THEN before(1, 2) ELSE before(2, 1)

campaignDonorListOrderBy(d, l, a, b) ==
    LET A == <<Amount(d, l.of, a), DonatedAt(d, l.of, a)>>
        B == <<Amount(d, l.of, b), DonatedAt(d, l.of, b)>>
        before(i, j) == A[i] > B[i] \/ (A[i] = B[i] /\ (A[j] > B[j] \/ (A[j] = B[j] /\ a < b))) IN
    IF l.sort = "top" THEN before(1, 2) ELSE before(2, 1)

DonationBefore(x, y) == x.at > y.at \/ (x.at = y.at /\ x.log > y.log)

Before(d, l, x, y) ==
    CASE l.kind \in {"public", "fundraiser"} -> campaignListOrderBy(d, l.sort, x, y)
      [] l.kind = "donors"    -> campaignDonorListOrderBy(d, l, x[1], y[1])
      [] l.kind = "donations" -> DonationBefore(x, y)

(* What the place of a row depends on. *)
Key(d, l, x) ==
    CASE l.kind = "donors"    -> <<Amount(d, l.of, x[1]), DonatedAt(d, l.of, x[1])>>
      [] l.kind = "donations" -> <<x.at, x.log>>
      [] OTHER -> <<d.campaigns[x].created,
                    IF l.sort \in {"newest", "oldest"} THEN 0 ELSE d.campaigns[x].raised>>

(* The orders in which PostgreSQL may return the rows. *)
Enumerations(d, l) ==
    {q \in SetToSeqs(Rows(d, l)) :
        \A i, j \in DOMAIN q : i < j => ~Before(d, l, q[j], q[i])}

-----------------------------------------------------------------------------
(***************************************************************************)
(* The client and the handlers.                                            *)
(***************************************************************************)
Reading == walk.pc \in {"find", "count", "page", "next"}

(* The first query of a request. *)
FirstQuery(l) == IF l.kind \in {"donors", "donations"} THEN "find" ELSE "count"

(* A request with valid parameters; any other one is answered 422.  One    *)
(* walk is enough: a second one would see what a later first one sees.     *)
HandleList(l, page, pageSize) ==
    /\ walk.pc = "idle"
    /\ PageAccepted(page, pageSize)
    /\ walk' = [NoWalk EXCEPT !.pc = FirstQuery(l), !.list = l, !.pageSize = pageSize,
                              !.first = page, !.page = page,
                              !.unmoved = Subjects(db, l)]
    /\ UNCHANGED <<db, writes>>

(* findCampaign and findSupporter; 404 when there is none. *)
FindOwner ==
    LET l == walk.list
        found == IF l.kind = "donors" THEN IsPublic(db, l.of)
                 ELSE ProfilesOf(db, l.of) # {} IN
    /\ walk.pc = "find"
    /\ walk' = [walk EXCEPT !.pc = IF ~found THEN "gone"
                                   ELSE IF l.kind = "donors" THEN "count" ELSE "page"]
    /\ UNCHANGED <<db, writes>>

(* SELECT COUNT( * ); countDonors does not join the profiles. *)
CountQuery(d, l) ==
    IF l.kind = "donors" THEN Cardinality(DonorsOf(d, l.of)) ELSE Cardinality(Rows(d, l))

CountRows ==
    /\ walk.pc = "count"
    /\ walk' = [walk EXCEPT !.pc = "page", !.total = CountQuery(db, walk.list)]
    /\ UNCHANGED <<db, writes>>

(* Variant: one row more is fetched, to know whether there is a next page. *)
FetchPage_lookahead ==
    LET offset == Offset(walk.page, walk.pageSize) IN
    /\ walk.pc = "page"
    /\ \E q \in Enumerations(db, walk.list) :
           LET rows == SubSeq(q, offset + 1, Min({offset + walk.pageSize + 1, Len(q)})) IN
           walk' = [walk EXCEPT !.rows = @ \o rows, !.last = Len(rows),
                       !.pc = IF Len(rows) < walk.pageSize THEN "done" ELSE "next"]
    /\ UNCHANGED <<db, writes>>

(* ORDER BY ... LIMIT pageSize OFFSET offset, which PostgreSQL refuses to  *)
(* run with a negative offset (see OffsetIsExact).  A page that is not     *)
(* full tells the client that it is the last.                              *)
FetchPage ==
    LET offset == Offset(walk.page, walk.pageSize) IN
    /\ walk.pc = "page"
    /\ offset >= 0
    /\ \E q \in Enumerations(db, walk.list) :
           LET rows == SubSeq(q, offset + 1, Min({offset + walk.pageSize, Len(q)})) IN
           walk' = [walk EXCEPT !.rows = @ \o rows, !.last = Len(rows),
                       !.pc = IF Len(rows) < walk.pageSize THEN "done" ELSE "next"]
    /\ UNCHANGED <<db, writes>>

(* The client asks for the next page. *)
NextPage ==
    /\ walk.pc = "next"
    /\ PageAccepted(walk.page + 1, walk.pageSize)
    /\ walk' = [walk EXCEPT !.page = @ + 1, !.pc = FirstQuery(walk.list)]
    /\ UNCHANGED <<db, writes>>

-----------------------------------------------------------------------------
(***************************************************************************)
(* The writers: each commits one change, and the walk takes note.          *)
(***************************************************************************)
Write(d) ==
    /\ walk.pc = "idle" \/ Reading
    /\ writes < MaxWrites
    /\ writes' = writes + 1
    /\ db' = d
    /\ walk' = IF walk.list = None THEN walk ELSE
         LET l == walk.list IN
         [walk EXCEPT !.quiet = FALSE,
             !.shrunk = @ \/ ~(Subjects(db, l) \subseteq Subjects(d, l)),
             !.unmoved = {Subject(l, x) : x \in {x \in Rows(d, l) :
                 /\ Subject(l, x) \in walk.unmoved
                 /\ Key(d, l, x) = Key(db, l, x)}}]

SetStatus(c, status) == Write([db EXCEPT !.campaigns[c].status = status])

(* created_at is the time the transaction began. *)
CreateCampaign(c, f, t) ==
    /\ db.campaigns[c].status = "none"
    /\ f \notin db.deleted
    /\ Write([db EXCEPT !.campaigns[c] =
                  [status |-> "pending", created |-> t, raised |-> 0, fundraiser |-> f]])

(* CompleteDeployment *)
FinishDeployment(c) ==
    /\ db.campaigns[c].status = "pending"
    /\ SetStatus(c, "active")

(* A deployment is given up, or the chain ends the campaign; no statement  *)
(* of this repository writes these statuses.                               *)
EndCampaign(c) ==
    \/ db.campaigns[c].status = "pending" /\ SetStatus(c, "failed")
    \/ /\ db.campaigns[c].status = "active"
       /\ SetStatus(c, "completed") \/ SetStatus(c, "cancelled")

(* A donation, recorded by the indexer in the order of the chain. *)
Donate(c, a, amount) ==
    LET latest == Max({0} \cup {x.at : x \in db.donations}) IN
    /\ db.campaigns[c].status = "active"
    /\ \E t \in Ticks :
           Write([db EXCEPT !.campaigns[c].raised = @ + amount,
                     !.donations = @ \cup {[campaign |-> c, donor |-> a, amount |-> amount,
                         at |-> latest + t, log |-> Cardinality(db.donations) + 1]}])

(* DeleteProfile of a fundraiser without open campaigns. *)
DeleteFundraiser(f) ==
    /\ f \notin db.deleted
    /\ \A c \in Campaigns : db.campaigns[c].fundraiser = f
                               => db.campaigns[c].status \notin {"pending", "active"}
    /\ Write([db EXCEPT !.deleted = @ \cup {f}])

(* Register and DeleteProfile of a supporter. *)
RegisterSupporter(u, a) ==
    /\ db.supporters[u].wallet = None
    /\ \A v \in Profiles : db.supporters[v].live => db.supporters[v].wallet # a
    /\ Write([db EXCEPT !.supporters[u] = [wallet |-> a, live |-> TRUE]])

DeleteSupporter(u) ==
    /\ db.supporters[u].live
    /\ Write([db EXCEPT !.supporters[u].live = FALSE])

-----------------------------------------------------------------------------
ReadStep ==
    \/ \E l \in Lists, page \in Pages, pageSize \in 1 .. MaxPageSize :
           HandleList(l, page, pageSize)
    \/ FindOwner \/ CountRows \/ FetchPage \/ NextPage

WriteStep ==
    \/ \E c \in Campaigns :
           \/ \E f \in Fundraisers, t \in 1 .. 2 : CreateCampaign(c, f, t)
           \/ FinishDeployment(c) \/ EndCampaign(c)
           \/ \E a \in Donors, amount \in 1 .. MaxAmount : Donate(c, a, amount)
    \/ \E f \in Fundraisers : DeleteFundraiser(f)
    \/ \E u \in Profiles : DeleteSupporter(u) \/ \E a \in Donors : RegisterSupporter(u, a)

Next == ReadStep \/ WriteStep

Spec == Init /\ [][Next]_vars

-----------------------------------------------------------------------------
TypeOK ==
    /\ db.campaigns \in [Campaigns -> Row]
    /\ db.deleted \subseteq Fundraisers
    /\ db.supporters \in [Profiles -> [wallet : Donors \cup {None}, live : BOOLEAN]]
    /\ db.donations \subseteq Donation
    /\ walk.list \in Lists \cup {None}
    /\ walk.page \in PositiveInt64 /\ walk.pageSize \in 1 .. MaxPageSize
    /\ walk.total \in Nat /\ walk.last \in 0 .. walk.pageSize
    /\ writes \in 0 .. MaxWrites

(* What the client has been shown, in order. *)
Shown == [i \in DOMAIN walk.rows |-> Subject(walk.list, walk.rows[i])]

Deterministic == walk.list # None /\ walk.list.sort # "random"

(***************************************************************************)
(* When nothing changes meanwhile, walking from a page to the end shows    *)
(* every row of the list that belongs to that page or a later one, once:   *)
(* the sort orders leave no tie and no join doubles a row.                 *)
(***************************************************************************)
QuietWalkIsExact ==
    walk.pc = "done" /\ walk.quiet /\ Deterministic =>
        LET l == walk.list
            rank(x) == Cardinality({y \in Rows(db, l) : Before(db, l, y, x)}) IN
        /\ IsInjective(Shown)
        /\ Range(Shown) = {Subject(l, x) : x \in
               {x \in Rows(db, l) : rank(x) >= (walk.first - 1) * walk.pageSize}}

(***************************************************************************)
(* Whatever becomes visible, is donated or changes hands during a walk     *)
(* from page 1, it shows every row that kept its sort key, as long as no   *)
(* row leaves the list: rows move towards the front only, and what they    *)
(* push back is read again rather than skipped.                            *)
(***************************************************************************)
UnmovedRowsShown ==
    walk.pc = "done" /\ walk.first = 1 /\ ~walk.shrunk /\ Deterministic
        => walk.unmoved \subseteq Range(Shown)

(***************************************************************************)
(* While nothing is written during a walk, the totalPages of every answer  *)
(* tells which pages are empty: the count and the page, two queries with   *)
(* texts of their own, agree on the rows.                                  *)
(***************************************************************************)
TotalPagesTellsEmpty ==
    /\ walk.pc \in {"next", "done"} /\ walk.quiet
    /\ walk.list.kind # "donations"
    => (walk.last = 0 <=> walk.page > TotalPages(walk.pageSize, walk.total))

(***************************************************************************)
(* The offset of an accepted page is the exact product.                    *)
(***************************************************************************)
OffsetIsExact ==
    Reading => Offset(walk.page, walk.pageSize) = (walk.page - 1) * walk.pageSize
=============================================================================
