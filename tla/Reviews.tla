-------------------------------- MODULE Reviews --------------------------------
(***************************************************************************)
(* Reviews of products, the purchase they are gated on, helpful votes,       *)
(* moderation, and the aggregate that a trigger keeps on the product row      *)
(* (internal/review, migrations 000026, 000034, 000036).  A write is a        *)
(* transaction of one statement: the trigger's UPDATE takes its snapshot at   *)
(* the statement, waits for the product row, and writes what the snapshot     *)
(* held of the other reviews (READ COMMITTED).                                *)
(***************************************************************************)
EXTENDS Integers, FiniteSets

CONSTANTS Authors,          \* users who may review and vote
          Reviewed,         \* product ids
          Stars,            \* ratings used, a set of numbers
          ReviewCalls,      \* requests in flight at once
          MaxReviewEdits,   \* bound: requests begun and orders settled or undone
          MaxReviewFaults   \* bound: transactions that fail

ASSUME ReviewAssumption ==
    /\ IsFiniteSet(Authors) /\ IsFiniteSet(Reviewed)
    /\ Stars \subseteq 1..5 /\ MaxReviewEdits \in Nat /\ MaxReviewFaults \in Nat

VARIABLES review,   \* review[u][p]: status and rating of the row, NoReview if there is none
          votes,    \* review_votes: <<author, product, voter>>
          rating,   \* products.rating_count and the sum behind rating_avg
          bought,   \* <<u, p>>: u has a paid, processing, shipped or delivered order of p
          reviewing,\* requests in flight
          behind,   \* ghost: products whose aggregate was written from an old snapshot
          reviewEdits, reviewFaults

reviewVars == <<review, votes, rating, bought, reviewing, behind, reviewEdits, reviewFaults>>

StatusPending == "pending"
StatusApproved == "approved"
StatusHidden == "hidden"
ReviewStatuses == {StatusPending, StatusApproved, StatusHidden}
NoReview == [status |-> "none", stars |-> 0]
ReviewRows == [status : ReviewStatuses, stars : Stars] \cup {NoReview}
Aggregates == [count : Nat, sum : Nat]
NoReviewCall == [pc |-> "idle"]
\* insert: gated, not written.  refresh: row is written, uncommitted, and seen is what
\* the trigger's snapshot makes of the product.
ReviewRequests ==
    [pc : {"insert"}, user : Authors, product : Reviewed, stars : Stars]
    \cup [pc : {"refresh"}, user : Authors, product : Reviewed, row : ReviewRows, seen : Aggregates]

ReviewInit ==
    /\ review = [u \in Authors |-> [p \in Reviewed |-> NoReview]]
    /\ votes = {}
    /\ rating = [p \in Reviewed |-> [count |-> 0, sum |-> 0]]
    /\ bought = {} /\ behind = {}
    /\ reviewing = [c \in ReviewCalls |-> NoReviewCall]
    /\ reviewEdits = 0 /\ reviewFaults = 0

ReviewStep(c, s) == reviewing' = [reviewing EXCEPT ![c] = s]
ReviewEnds(c) == ReviewStep(c, NoReviewCall)
ReviewBegins == reviewEdits < MaxReviewEdits /\ reviewEdits' = reviewEdits + 1 /\ UNCHANGED reviewFaults
ReviewGoes == UNCHANGED <<reviewEdits, reviewFaults>>

\* Another transaction has written u's row for p: this statement would wait.
RowLocked(u, p) == \E d \in ReviewCalls : /\ reviewing[d].pc = "refresh"
                                          /\ reviewing[d].user = u /\ reviewing[d].product = p

-----------------------------------------------------------------------------
(* The trigger                                                             *)

\* Mutant: hidden reviews count as well.
Counted_HiddenToo(r, p) == {u \in Authors : r[u][p].status # "none"}

\* The reviews of p that the aggregate counts.
Counted(r, p) == {u \in Authors : r[u][p].status = StatusApproved}

\* products_rating_refresh over the rows r: how many there are and the stars they give.
Aggregate(r, p) ==
    [count |-> Cardinality(Counted(r, p)),
     sum   |-> Cardinality({given \in Counted(r, p) \X (1..5) : given[2] <= r[given[1]][p].stars})]

\* u's row for p becomes row: the statement and its trigger's snapshot.
WriteReview(c, u, p, row) ==
    /\ ~RowLocked(u, p)
    /\ ReviewStep(c, [pc |-> "refresh", user |-> u, product |-> p, row |-> row,
                      seen |-> Aggregate([review EXCEPT ![u][p] = row], p)])

\* The product row is free: the aggregate is written and the transaction commits.
Refresh(c) ==
    LET r == reviewing[c]
        rows == [review EXCEPT ![r.user][r.product] = r.row] IN
    /\ r.pc = "refresh"
    /\ review' = rows
    /\ rating' = [rating EXCEPT ![r.product] = r.seen]
    /\ behind' = IF r.seen = Aggregate(rows, r.product) THEN behind \ {r.product}
                 ELSE behind \cup {r.product}
    /\ votes' = IF r.row = NoReview
                THEN {v \in votes : v[1] # r.user \/ v[2] # r.product} ELSE votes
    /\ ReviewEnds(c)
    /\ UNCHANGED bought /\ ReviewGoes

\* The transaction fails, and the row with it.
ReviewFails(c) ==
    /\ reviewing[c] # NoReviewCall /\ ReviewEnds(c)
    /\ reviewFaults < MaxReviewFaults /\ reviewFaults' = reviewFaults + 1
    /\ UNCHANGED <<review, votes, rating, bought, behind, reviewEdits>>

-----------------------------------------------------------------------------
(* Requests                                                                *)

HasPurchased(u, p) == <<u, p>> \in bought

\* Create: HasPurchased, then the INSERT; the order may be refunded in between.
CreateReview(c, u, p, n) ==
    /\ reviewing[c] = NoReviewCall /\ HasPurchased(u, p)
    /\ ReviewStep(c, [pc |-> "insert", user |-> u, product |-> p, stars |-> n])
    /\ ReviewBegins
    /\ UNCHANGED <<review, votes, rating, bought, behind>>

\* UNIQUE (user_id, product_id): a second review is refused.
InsertReview(c) ==
    LET r == reviewing[c] IN
    /\ r.pc = "insert" /\ ~RowLocked(r.user, r.product)
    /\ IF review[r.user][r.product] = NoReview
       THEN WriteReview(c, r.user, r.product, [status |-> StatusApproved, stars |-> r.stars])
       ELSE ReviewEnds(c)
    /\ UNCHANGED <<review, votes, rating, bought, behind>> /\ ReviewGoes

\* Moderation: UpdateStatus and Delete of an existing review.
SetStatus(c, u, p, s) ==
    /\ reviewing[c] = NoReviewCall /\ review[u][p] # NoReview
    /\ WriteReview(c, u, p, [review[u][p] EXCEPT !.status = s])
    /\ ReviewBegins
    /\ UNCHANGED <<review, votes, rating, bought, behind>>

DeleteReview(c, u, p) ==
    /\ reviewing[c] = NoReviewCall /\ review[u][p] # NoReview
    /\ WriteReview(c, u, p, NoReview)
    /\ ReviewBegins
    /\ UNCHANGED <<review, votes, rating, bought, behind>>

\* The foreign key of a vote waits for this.
BeingDeleted(u, p) == \E d \in ReviewCalls : /\ reviewing[d].pc = "refresh" /\ reviewing[d].row = NoReview
                                             /\ reviewing[d].user = u /\ reviewing[d].product = p

\* One statement: the vote is added if the review is approved and not voted yet.
AddVote(u, p, v) ==
    /\ review[u][p].status = StatusApproved /\ ~BeingDeleted(u, p)
    /\ votes' = votes \cup {<<u, p, v>>}
    /\ ReviewBegins
    /\ UNCHANGED <<review, rating, bought, reviewing, behind>>

RemoveVote(u, p, v) ==
    /\ <<u, p, v>> \in votes
    /\ votes' = votes \ {<<u, p, v>>}
    /\ ReviewBegins
    /\ UNCHANGED <<review, rating, bought, reviewing, behind>>

\* An order of p by u is paid, or refunded later.
OrderSettled(u, p) ==
    /\ bought' = IF <<u, p>> \in bought THEN bought \ {<<u, p>>} ELSE bought \cup {<<u, p>>}
    /\ ReviewBegins
    /\ UNCHANGED <<review, votes, rating, reviewing, behind>>

ReviewNext ==
    \/ \E c \in ReviewCalls :
          \/ InsertReview(c) \/ Refresh(c) \/ ReviewFails(c)
          \/ \E u \in Authors, p \in Reviewed :
                \/ \E n \in Stars : CreateReview(c, u, p, n)
                \/ \E s \in ReviewStatuses : SetStatus(c, u, p, s)
                \/ DeleteReview(c, u, p)
    \/ \E u \in Authors, p \in Reviewed :
          \/ OrderSettled(u, p)
          \/ \E v \in Authors : AddVote(u, p, v) \/ RemoveVote(u, p, v)

ReviewSpec == ReviewInit /\ [][ReviewNext]_reviewVars

-----------------------------------------------------------------------------
(* Properties                                                              *)

ReviewTypeOK ==
    /\ review \in [Authors -> [Reviewed -> ReviewRows]]
    /\ votes \subseteq Authors \X Reviewed \X Authors
    /\ rating \in [Reviewed -> Aggregates]
    /\ bought \subseteq Authors \X Reviewed
    /\ reviewing \in [ReviewCalls -> ReviewRequests \cup {NoReviewCall}]
    /\ behind \subseteq Reviewed
    /\ reviewEdits \in 0..MaxReviewEdits /\ reviewFaults \in 0..MaxReviewFaults

\* The rating and the count on a product are those of its approved reviews: what
\* migrations/000034 says of the trigger.  Two transactions on one product break it.
RatingsInSync == \A p \in Reviewed : rating[p] = Aggregate(review, p)

\* However reviews are written, hidden, deleted or rolled back, a product's rating
\* is made of the approved reviews a shopper can see, unless two transactions
\* on its reviews overlapped; the next one alone mends it.
\* (products_rating_refresh of migrations/000034.)
RatingFollowsReviews ==
    \A p \in Reviewed \ behind :
        /\ rating[p].count = Cardinality({u \in Authors : review[u][p].status = StatusApproved})
        /\ rating[p] = Aggregate(review, p)
=============================================================================
