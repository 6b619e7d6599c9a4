------------------------------- MODULE Categories -------------------------------
(***************************************************************************)
(* The category table and the cache in front of it: readers that miss fill   *)
(* the two cached forms, the flat list and the tree, with what they read;     *)
(* admin edits drop both after the statement (internal/category,             *)
(* internal/cache).  One step per statement and per cache call.               *)
(***************************************************************************)
EXTENDS Integers, FiniteSets

CONSTANTS Cats,             \* category ids
          Top,              \* parent_id NULL
          NoCat,            \* no such row; nothing cached
          CategoryCalls,    \* requests in flight at once
          MaxCategoryEdits, \* bound: admin requests begun
          MaxCacheFaults    \* bound: cache calls and statements that fail

ASSUME CategoryAssumption ==
    /\ IsFiniteSet(Cats) /\ Top \notin Cats /\ NoCat \notin Cats \cup {Top} /\ Top # NoCat
    /\ MaxCategoryEdits \in Nat /\ MaxCacheFaults \in Nat

VARIABLES parent,   \* parent[c]: parent_id of row c, NoCat if there is no such row
          cached,   \* the cache's entry under each key: the rows it was made from
          catCall,  \* requests in flight
          outdated, \* ghost: keys filled with rows read before an edit, or not dropped after one
          looped,   \* ghost: a category was moved under one of its own descendants
          catEdits, cacheFaults

categoryVars == <<parent, cached, catCall, outdated, looped, catEdits, cacheFaults>>

Keys == {"list", "tree"}
Forest == [Cats -> Cats \cup {Top, NoCat}]
NoRows == [c \in Cats |-> NoCat]
NoEntry == [hit |-> FALSE, rows |-> NoRows]
Entries == [hit : BOOLEAN, rows : Forest]
CategoryIdle == [pc |-> "idle", key |-> "list", cat |-> NoCat, rows |-> NoRows]
CategoryRequests == [pc : {"idle", "query", "fill", "delete", "dropList", "dropTree"},
                     key : Keys, cat : Cats \cup {NoCat}, rows : Forest]

CategoryInit ==
    /\ \E c \in Cats : parent = [d \in Cats |-> IF d = c THEN Top ELSE NoCat]
    /\ cached = [k \in Keys |-> NoEntry]
    /\ catCall = [r \in CategoryCalls |-> CategoryIdle]
    /\ outdated = {} /\ looped = FALSE
    /\ catEdits = 0 /\ cacheFaults = 0

CategoryStep(r, s) == catCall' = [catCall EXCEPT ![r] = s]
CategoryEnds(r) == CategoryStep(r, CategoryIdle)
Exists(c) == parent[c] # NoCat
EditBegins == catEdits < MaxCategoryEdits /\ catEdits' = catEdits + 1

\* The requests whose edit is in the table and which have still to drop key k.
Dropping(k) == {r \in CategoryCalls :
                   catCall[r].pc \in (IF k = "list" THEN {"dropList"} ELSE {"dropList", "dropTree"})}

-----------------------------------------------------------------------------
(* Readers                                                                 *)

\* List and ListTree: a hit is answered, a miss goes to the table.
ReadMisses(r, k) ==
    /\ catCall[r].pc = "idle" /\ ~cached[k].hit
    /\ CategoryStep(r, [CategoryIdle EXCEPT !.pc = "query", !.key = k])
    /\ UNCHANGED <<parent, cached, outdated, looped, catEdits, cacheFaults>>

QueryList(r) ==
    /\ catCall[r].pc = "query"
    /\ CategoryStep(r, [catCall[r] EXCEPT !.pc = "fill", !.rows = parent])
    /\ UNCHANGED <<parent, cached, outdated, looped, catEdits, cacheFaults>>

\* SetJSON, whatever happened since the query.
Fill(r) ==
    LET k == catCall[r].key IN
    /\ catCall[r].pc = "fill"
    /\ cached' = [cached EXCEPT ![k] = [hit |-> TRUE, rows |-> catCall[r].rows]]
    /\ outdated' = IF catCall[r].rows = parent THEN outdated \ {k} ELSE outdated \cup {k}
    /\ CategoryEnds(r)
    /\ UNCHANGED <<parent, looped, catEdits, cacheFaults>>

\* The TTL, in Get and in the sweep.
Expire(k) ==
    /\ cached[k].hit
    /\ cached' = [cached EXCEPT ![k] = NoEntry]
    /\ outdated' = outdated \ {k}
    /\ UNCHANGED <<parent, catCall, looped, catEdits, cacheFaults>>

-----------------------------------------------------------------------------
(* Edits                                                                   *)

CreateCategory(r, c, up) ==
    /\ catCall[r].pc = "idle" /\ ~Exists(c) /\ EditBegins
    /\ up = Top \/ (up \in Cats /\ Exists(up))
    /\ parent' = [parent EXCEPT ![c] = up]
    /\ CategoryStep(r, [CategoryIdle EXCEPT !.pc = "dropList"])
    /\ UNCHANGED <<cached, outdated, looped, cacheFaults>>

\* c and its ancestors, up to Top or a parent that is not there: the least set with c
\* in it and every parent of its members.
Above(rows, c) ==
    LET Places == Cats \cup {Top, NoCat} IN
    {a \in Places : \A S \in SUBSET Places : c \in S /\ (\A d \in S \cap Cats : rows[d] \in S) => a \in S}

\* A category cannot be its own parent; a descendant is not looked for.
UpdateCategory(r, c, up) ==
    /\ catCall[r].pc = "idle" /\ Exists(c) /\ EditBegins
    /\ up # c /\ (up = Top \/ (up \in Cats /\ Exists(up)))
    /\ parent' = [parent EXCEPT ![c] = up]
    /\ looped' = (looped \/ c \in Above(parent, up))
    /\ CategoryStep(r, [CategoryIdle EXCEPT !.pc = "dropList"])
    /\ UNCHANGED <<cached, outdated, cacheFaults>>

\* Delete first looks whether the category is in use ...
DeleteCheck(r, c) ==
    /\ catCall[r].pc = "idle" /\ Exists(c) /\ EditBegins
    /\ \A d \in Cats : parent[d] # c
    /\ CategoryStep(r, [CategoryIdle EXCEPT !.pc = "delete", !.cat = c])
    /\ UNCHANGED <<parent, cached, outdated, looped, cacheFaults>>

\* Mutant: a deleted category leaves the cache as it is.
DeleteRow_KeepsCache(r) ==
    LET c == catCall[r].cat IN
    /\ catCall[r].pc = "delete"
    /\ IF Exists(c) /\ \A d \in Cats : parent[d] # c
       THEN parent' = [parent EXCEPT ![c] = NoCat] ELSE UNCHANGED parent
    /\ CategoryEnds(r)
    /\ UNCHANGED <<cached, outdated, looped, catEdits, cacheFaults>>

\* ... and by then it may have got a child (the foreign key refuses) or be gone.
DeleteRow(r) ==
    LET c == catCall[r].cat IN
    /\ catCall[r].pc = "delete"
    /\ IF Exists(c) /\ \A d \in Cats : parent[d] # c
       THEN /\ parent' = [parent EXCEPT ![c] = NoCat]
            /\ CategoryStep(r, [CategoryIdle EXCEPT !.pc = "dropList"])
       ELSE CategoryEnds(r) /\ UNCHANGED parent
    /\ UNCHANGED <<cached, outdated, looped, catEdits, cacheFaults>>

\* invalidate drops the list, then the tree; an error of the cache is ignored.
Drop(r, pc, k, s) ==
    /\ catCall[r].pc = pc
    /\ CategoryStep(r, s)
    /\ \/ /\ cached' = [cached EXCEPT ![k] = NoEntry]
          /\ outdated' = outdated \ {k}
          /\ UNCHANGED cacheFaults
       \/ /\ cacheFaults < MaxCacheFaults /\ cacheFaults' = cacheFaults + 1
          /\ outdated' = outdated \cup {k}
          /\ UNCHANGED cached
    /\ UNCHANGED <<parent, looped, catEdits>>

DropList(r) == Drop(r, "dropList", "list", [CategoryIdle EXCEPT !.pc = "dropTree"])
DropTree(r) == Drop(r, "dropTree", "tree", CategoryIdle)

CategoryNext ==
    \/ \E r \in CategoryCalls :
          \/ QueryList(r) \/ Fill(r) \/ DeleteRow(r) \/ DropList(r) \/ DropTree(r)
          \/ \E k \in Keys : ReadMisses(r, k)
          \/ \E c \in Cats : \/ DeleteCheck(r, c)
                             \/ \E up \in Cats \cup {Top} : CreateCategory(r, c, up) \/ UpdateCategory(r, c, up)
    \/ \E k \in Keys : Expire(k)

CategorySpec == CategoryInit /\ [][CategoryNext]_categoryVars

-----------------------------------------------------------------------------
(* Properties                                                              *)

\* Mutant: only children of top-level categories are linked.
Placed_TwoLevels(rows) == {c \in Cats : rows[c] # NoCat /\ Top \in {rows[c]} \cup
                              {rows[d] : d \in {rows[c]} \cap Cats}}

\* buildTree: the categories the tree shows are those under a root, which is one
\* without a parent or whose parent is not in the list.
Placed(rows) ==
    {c \in Cats : rows[c] # NoCat /\
        \E a \in Above(rows, c) : a \in Cats /\
            (rows[a] = Top \/ (rows[a] \in Cats /\ rows[rows[a]] = NoCat))}

CategoryTypeOK ==
    /\ parent \in Forest /\ cached \in [Keys -> Entries]
    /\ catCall \in [CategoryCalls -> CategoryRequests]
    /\ outdated \subseteq Keys /\ looped \in BOOLEAN
    /\ catEdits \in 0..MaxCategoryEdits /\ cacheFaults \in 0..MaxCacheFaults

\* After an edit is answered the cache serves what the table holds, in both forms,
\* however readers and edits overlap.  The exceptions are the code's, and last a TTL
\* at most: an entry filled with rows read before the edit, and a failed drop.
\* (List, ListTree, invalidate of category/service.go.)
CacheTellsTheTable ==
    \A k \in Keys : cached[k].hit /\ k \notin outdated /\ Dropping(k) = {} => cached[k].rows = parent

\* A category in the table is in the tree, at any depth, unless it was moved under
\* its own descendant, and no edit leaves one with a parent that is gone.
\* (Update, Delete and buildTree.)
TreeShowsAll ==
    /\ \A c \in Cats : Exists(c) => parent[c] = Top \/ Exists(parent[c])
    /\ looped \/ Placed(parent) = {c \in Cats : Exists(c)}
=============================================================================
