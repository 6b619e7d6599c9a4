------------------------------ MODULE Seeding ------------------------------
(* The history seeder (cmd/seedhistory, internal/seed/history.go): users,     *)
(* orders with their items, abandoned carts, reviews and the activity that    *)
(* leads to them, written statement by statement over a database that earlier *)
(* runs may have filled in part.  Rows have fixed ids 1..n; what a row holds  *)
(* comes from one generator with a fixed seed.  Its stream still depends on   *)
(* when the run starts: dayWeighted draws again for weekend days, and an      *)
(* order that would lie in the future has its time drawn again.               *)
EXTENDS Naturals, FiniteSets

CONSTANTS Seeders,        \* operators' shells
          Streams,        \* the streams a run may draw, by its time of start
          SeedLines,      \* products as lines of an order or cart
          People, SeedOrders, SeedCarts,  \* historyUsers, historyOrders, historyCarts
          Drawn,          \* the lines each stream gives an order or cart
          DrawnReviews,   \* the (user, product) pairs it reviews
          MaxSeedRuns,    \* bound: runs started
          MaxInterrupts   \* bound: runs that end early

Rows(kind, n) == {kind} \X (1..n)
OrderRows == Rows("order", SeedOrders)
CartRows == Rows("cart", SeedCarts)

ASSUME SeedingAssumption ==
    /\ People \in Nat \ {0} /\ SeedOrders \in Nat \ {0} /\ SeedCarts \in Nat \ {0}
    /\ Drawn \in [Streams -> [OrderRows \cup CartRows -> (SUBSET SeedLines) \ {{}}]]
    /\ DrawnReviews \in [Streams -> SUBSET ((1..People) \X SeedLines)]
    /\ MaxSeedRuns \in Nat /\ MaxInterrupts \in Nat

VARIABLES people,     \* seeded users
          holder,     \* seeded orders and carts that are in the database
          holds,      \* and the lines each has
          opinions,   \* seeded reviews
          journeys,   \* how often the activity of an order's line was written
          sentinels,  \* sentinel rows of user_activity
          seeder,     \* the runs
          torn,       \* ghost: orders whose run ended between two of its items
          finished,   \* ghost: streams of the runs that came to their end
          together,   \* ghost: two runs were under way at once
          seedRuns, interrupts

history == <<people, holder, holds, opinions, journeys, sentinels>>
seedGhosts == <<torn, finished, together>>
seedingVars == <<history, seeder, seedGhosts, seedRuns, interrupts>>

SeedSteps == {"users", "orders", "order_items", "carts", "cart_items", "reviews", "check", "load", "commit"}
AtRest == [pc |-> "idle"]
Highest == CHOOSE n \in {People, SeedOrders, SeedCarts} : n >= People /\ n >= SeedOrders /\ n >= SeedCarts
\* row: the loop's index; left: the lines still to be inserted; read: the
\* lines of the orders that the activity transaction has read.
SeedRuns == [pc : SeedSteps, stream : Streams, row : 1..Highest,
             left : SUBSET SeedLines,
             read : [OrderRows -> SUBSET SeedLines]]

NothingRead == [o \in OrderRows |-> {}]
SeedingInit ==
    /\ people = {} /\ holder = {} /\ holds = [k \in OrderRows \cup CartRows |-> {}]
    /\ opinions = {}
    /\ journeys = [k \in OrderRows \X SeedLines |-> 0] /\ sentinels = 0
    /\ seeder = [s \in Seeders |-> AtRest]
    /\ torn = {} /\ finished = {} /\ together = FALSE
    /\ seedRuns = 0 /\ interrupts = 0

SeedStep(s, r) == seeder' = [seeder EXCEPT ![s] = r]
Running == {s \in Seeders : seeder[s] # AtRest}
\* The next row of a loop of n, or what follows the loop.
NextRow(r, loop, n, after) ==
    IF r.row < n THEN [r EXCEPT !.pc = loop, !.row = @ + 1] ELSE [r EXCEPT !.pc = after, !.row = 1]
\* What the generator yields for the row: dayWeighted, pickProduct, orderStatus.
Draws(r, k) == Drawn[r.stream][k]
OrderOfRun(s) == <<"order", seeder[s].row>>
CartOfRun(s) == <<"cart", seeder[s].row>>
SeedGoes == UNCHANGED <<seedGhosts, seedRuns, interrupts>>

-----------------------------------------------------------------------------

\* loadCatalog has found products.
History(s, d) ==
    /\ seeder[s] = AtRest /\ seedRuns < MaxSeedRuns
    /\ seedRuns' = seedRuns + 1
    /\ SeedStep(s, [pc |-> "users", stream |-> d, row |-> 1, left |-> {}, read |-> NothingRead])
    /\ together' = (together \/ Running # {})
    /\ UNCHANGED <<history, torn, finished, interrupts>>

seedUsers(s) ==
    /\ seeder[s].pc = "users"
    /\ people' = people \cup {seeder[s].row}
    /\ SeedStep(s, NextRow(seeder[s], "users", People, "orders"))
    /\ UNCHANGED <<holder, holds, opinions, journeys, sentinels>> /\ SeedGoes

\* The order's row; RowsAffected() == 0 means "already seeded on a previous run".
seedOrders(s) ==
    LET o == OrderOfRun(s)  r == seeder[s] IN
    /\ r.pc = "orders"
    /\ holder' = holder \cup {o}
    /\ IF o \in holder THEN SeedStep(s, NextRow(r, "orders", SeedOrders, "carts"))
       ELSE SeedStep(s, [r EXCEPT !.pc = "order_items", !.left = Draws(r, o)])
    /\ UNCHANGED <<people, holds, opinions, journeys, sentinels>> /\ SeedGoes

\* One line of the row, a statement of its own.
InsertLine(s, k, l, loop, n, after) ==
    LET r == [seeder[s] EXCEPT !.left = @ \ {l}] IN
    /\ l \in seeder[s].left
    /\ holds' = [holds EXCEPT ![k] = @ \cup {l}]
    /\ SeedStep(s, IF r.left = {} THEN NextRow(r, loop, n, after) ELSE r)
    /\ UNCHANGED <<people, holder, opinions, journeys, sentinels>> /\ SeedGoes

seedOrderItem(s, l) ==
    /\ seeder[s].pc = "order_items"
    /\ InsertLine(s, OrderOfRun(s), l, "orders", SeedOrders, "carts")

\* Mutant: a cart that is there is taken for a whole one, as an order is.
seedAbandonedCarts_SkipsSeeded(s) ==
    LET k == CartOfRun(s)  r == seeder[s] IN
    /\ r.pc = "carts"
    /\ holder' = holder \cup {k}
    /\ IF k \in holder THEN SeedStep(s, NextRow(r, "carts", SeedCarts, "reviews"))
       ELSE SeedStep(s, [r EXCEPT !.pc = "cart_items", !.left = Draws(r, k)])
    /\ UNCHANGED <<people, holds, opinions, journeys, sentinels>> /\ SeedGoes

\* Whether the cart was there or not, its lines are inserted if they are missing.
seedAbandonedCarts(s) ==
    LET k == CartOfRun(s)  r == seeder[s] IN
    /\ r.pc = "carts"
    /\ holder' = holder \cup {k}
    /\ SeedStep(s, [r EXCEPT !.pc = "cart_items", !.left = Draws(r, k)])
    /\ UNCHANGED <<people, holds, opinions, journeys, sentinels>> /\ SeedGoes

seedCartItem(s, l) ==
    /\ seeder[s].pc = "cart_items"
    /\ InsertLine(s, CartOfRun(s), l, "carts", SeedCarts, "reviews")

\* UNIQUE (user_id, product_id).
seedReviews(s) ==
    LET missing == DrawnReviews[seeder[s].stream] \ opinions IN
    /\ seeder[s].pc = "reviews"
    /\ IF missing = {} THEN SeedStep(s, [seeder[s] EXCEPT !.pc = "check"]) /\ UNCHANGED opinions
       ELSE \E x \in missing : opinions' = opinions \cup {x} /\ UNCHANGED seeder
    /\ UNCHANGED <<people, holder, holds, journeys, sentinels>> /\ SeedGoes

-----------------------------------------------------------------------------
(* seedActivity                                                            *)

RunEnds(s) == SeedStep(s, AtRest) /\ finished' = finished \cup {seeder[s].stream}

\* Mutant: activity is written again without asking for the sentinel.
CheckSentinel_Never(s) ==
    /\ seeder[s].pc = "check"
    /\ SeedStep(s, [seeder[s] EXCEPT !.pc = "load"])
    /\ UNCHANGED <<history, seedGhosts, seedRuns, interrupts>>

\* "a sentinel row marks a completed run"
CheckSentinel(s) ==
    /\ seeder[s].pc = "check"
    /\ IF sentinels > 0 THEN RunEnds(s)
       ELSE SeedStep(s, [seeder[s] EXCEPT !.pc = "load"]) /\ UNCHANGED finished
    /\ UNCHANGED <<history, torn, together, seedRuns, interrupts>>

\* Mutant: the activity inserts are not in a transaction.
LoadJourneys_Autocommit(s) ==
    /\ seeder[s].pc = "load"
    /\ SeedStep(s, [seeder[s] EXCEPT !.pc = "commit"])
    /\ journeys' = [k \in OrderRows \X SeedLines |->
                       IF k[2] \in holds[k[1]] THEN journeys[k] + 1 ELSE journeys[k]]
    /\ UNCHANGED <<people, holder, holds, opinions, sentinels>> /\ SeedGoes

\* Begin, and the query for the seeded orders' items.
LoadJourneys(s) ==
    /\ seeder[s].pc = "load"
    /\ SeedStep(s, [seeder[s] EXCEPT !.pc = "commit", !.read = [o \in OrderRows |-> holds[o]]])
    /\ UNCHANGED history /\ SeedGoes

\* The inserts, the sentinel and COMMIT.
CommitActivity(s) ==
    /\ seeder[s].pc = "commit"
    /\ journeys' = [k \in OrderRows \X SeedLines |->
                       IF k[2] \in seeder[s].read[k[1]] THEN journeys[k] + 1 ELSE journeys[k]]
    /\ sentinels' = sentinels + 1
    /\ RunEnds(s)
    /\ UNCHANGED <<people, holder, holds, opinions, torn, together, seedRuns, interrupts>>

\* A statement fails, the five minutes are over, the operator stops it.
Interrupted(s) ==
    /\ seeder[s] # AtRest /\ interrupts < MaxInterrupts
    /\ interrupts' = interrupts + 1
    /\ SeedStep(s, AtRest)
    /\ torn' = IF seeder[s].pc = "order_items" THEN torn \cup {OrderOfRun(s)} ELSE torn
    /\ UNCHANGED <<history, finished, together, seedRuns>>

SeedingNext ==
    \E s \in Seeders :
        \/ \E d \in Streams : History(s, d)
        \/ seedUsers(s) \/ seedOrders(s) \/ seedAbandonedCarts(s) \/ seedReviews(s)
        \/ \E l \in SeedLines : seedOrderItem(s, l) \/ seedCartItem(s, l)
        \/ CheckSentinel(s) \/ LoadJourneys(s) \/ CommitActivity(s) \/ Interrupted(s)

SeedingSpec == SeedingInit /\ [][SeedingNext]_seedingVars

-----------------------------------------------------------------------------
(* Properties                                                              *)

SeedingTypeOK ==
    /\ people \subseteq 1..People
    /\ holder \subseteq OrderRows \cup CartRows
    /\ holds \in [OrderRows \cup CartRows -> SUBSET SeedLines]
    /\ opinions \subseteq (1..People) \X SeedLines
    /\ journeys \in [OrderRows \X SeedLines -> Nat] /\ sentinels \in Nat
    /\ seeder \in [Seeders -> SeedRuns \cup {AtRest}]
    /\ torn \subseteq OrderRows /\ finished \subseteq Streams /\ together \in BOOLEAN
    /\ seedRuns \in 0..MaxSeedRuns /\ interrupts \in 0..MaxInterrupts

\* A run that came to its end leaves a whole history behind, however many before it
\* were interrupted and wherever: every order has the lines of one draw, every cart
\* at least those of that stream.  Except for the orders an interruption tore apart:
\* their rows are there, so no later run looks at their items (history.go:256).
HistoryComplete ==
    finished # {} =>
        /\ people = 1..People /\ holder = OrderRows \cup CartRows
        /\ \A o \in OrderRows : \/ \E d \in Streams : holds[o] = Drawn[d][o]
                                \/ o \in torn
                                \/ \E s \in Running : seeder[s].pc = "order_items" /\ OrderOfRun(s) = o
        /\ \A d \in finished : /\ \A k \in CartRows : Drawn[d][k] \subseteq holds[k]
                               /\ DrawnReviews[d] \subseteq opinions

\* "Deterministic and idempotent ... safe to re-run" (history.go:11-12): once a run has
\* ended, another that draws the same stream changes nothing, unless two ran at once.
SafeToRerun ==
    [][\A s \in Running : (seeder[s].stream \in finished /\ seeder'[s] # seeder[s])
          => history' = history \/ together]_seedingVars

\* "an interrupted run leaves no partial rows to duplicate on retry" (history.go:372-374):
\* the funnel counts every line of every seeded order once, unless two ran at once.
FunnelMatchesOrders ==
    together \/ \A o \in OrderRows, l \in SeedLines :
        journeys[<<o, l>>] = IF sentinels > 0 /\ l \in holds[o] THEN 1 ELSE 0

\* The rows and the activity of a seeded history, after whatever runs there were.
HistoryStands == HistoryComplete /\ FunnelMatchesOrders
=============================================================================
