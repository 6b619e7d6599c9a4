------------------------------ MODULE AddressBook ------------------------------
(***************************************************************************)
(* The saved addresses of one user and which of them is the default          *)
(* (internal/address).  Create, Update and SetDefault are READ COMMITTED      *)
(* transactions of two or three statements; what one has written shows when   *)
(* it commits, and a row it has written is locked until then.                 *)
(***************************************************************************)
EXTENDS Integers, FiniteSets

CONSTANTS Addresses,      \* ids
          NoAddress,
          BookCalls,      \* requests in flight at once
          MaxBookEdits,   \* bound: requests begun
          MaxBookFaults   \* bound: transactions that fail

ASSUME AddressAssumption ==
    NoAddress \notin Addresses /\ MaxBookEdits \in Nat /\ MaxBookFaults \in Nat

VARIABLES book,        \* book[a]: "none", "plain" or "default"
          tx,          \* requests in flight
          crossed,     \* ghost: a row was inserted past the snapshot of another request's
                       \* reset, or is being while that reset goes through
          undefaulted, \* ghost: the user has deleted the default address
          bookEdits, bookFaults

bookVars == <<book, tx, crossed, undefaulted, bookEdits, bookFaults>>

NoTx == [pc |-> "idle", id |-> NoAddress, new |-> FALSE, default |-> FALSE, cleared |-> {}]
\* new: the row is to be inserted; default: it is to be the default; cleared: the rows
\* that the reset has in its snapshot, then those it has locked.
Transactions == [pc : {"idle", "count", "reset", "lock", "write"}, id : Addresses \cup {NoAddress},
                 new : BOOLEAN, default : BOOLEAN, cleared : SUBSET Addresses]

AddressInit ==
    /\ book = [a \in Addresses |-> "none"]
    /\ tx = [t \in BookCalls |-> NoTx]
    /\ crossed = FALSE /\ undefaulted = FALSE
    /\ bookEdits = 0 /\ bookFaults = 0

Saved == {a \in Addresses : book[a] # "none"}
TxStep(t, r) == tx' = [tx EXCEPT ![t] = r]
TxEnds(t) == TxStep(t, NoTx)
BookBegins == bookEdits < MaxBookEdits /\ bookEdits' = bookEdits + 1 /\ UNCHANGED bookFaults
BookGoes == UNCHANGED <<bookEdits, bookFaults>>
Held == UNION {tx[t].cleared : t \in {o \in BookCalls : tx[o].pc = "write"}}

-----------------------------------------------------------------------------

\* Create: an address with a new id.
CreateAddress(t, a, isDefault) ==
    /\ tx[t] = NoTx /\ book[a] = "none" /\ \A o \in BookCalls : tx[o].id # a
    /\ TxStep(t, [NoTx EXCEPT !.pc = "count", !.id = a, !.new = TRUE, !.default = isDefault])
    /\ BookBegins
    /\ UNCHANGED <<book, crossed, undefaulted>>

\* Mutant: the first address is the default only when the user says so.
MakeDefault_AsAsked(t) == tx[t].default

\* makeDefault := req.IsDefault || count == 0
MakeDefault(t) == tx[t].default \/ Saved = {}

CountAddresses(t) ==
    /\ tx[t].pc = "count"
    /\ TxStep(t, [tx[t] EXCEPT !.default = MakeDefault(t), !.pc = IF MakeDefault(t) THEN "reset" ELSE "write"])
    /\ UNCHANGED <<book, crossed, undefaulted>> /\ BookGoes

\* SetDefault, and Update of an address that is to be the default; NoAddress stands
\* for an id that is not the user's.
SetDefault(t, a) ==
    /\ tx[t] = NoTx /\ a \in Saved \cup {NoAddress}
    /\ TxStep(t, [NoTx EXCEPT !.pc = "reset", !.id = a, !.default = TRUE])
    /\ BookBegins
    /\ UNCHANGED <<book, crossed, undefaulted>>

\* UPDATE ... SET is_default = false: the statement has the rows committed so far ...
ResetDefaults(t) ==
    /\ tx[t].pc = "reset"
    /\ TxStep(t, [tx[t] EXCEPT !.cleared = Saved, !.pc = "lock"])
    /\ UNCHANGED <<book, crossed, undefaulted>> /\ BookGoes

\* ... waits for those that another transaction holds, and passes over the deleted.
LockRows(t) ==
    /\ tx[t].pc = "lock"
    /\ tx[t].cleared \cap Held = {}
    /\ TxStep(t, [tx[t] EXCEPT !.cleared = @ \cap Saved, !.pc = "write"])
    /\ crossed' = (crossed \/ \E o \in BookCalls \ {t} : tx[o].pc = "write" /\ tx[o].new /\ tx[o].default)
    /\ UNCHANGED <<book, undefaulted>> /\ BookGoes

\* INSERT, or UPDATE of the row itself, and COMMIT.
WriteAddress(t) ==
    LET r == tx[t] IN
    /\ r.pc = "write" /\ (r.new \/ r.id \in Saved)
    /\ book' = [a \in Addresses |-> IF a = r.id THEN IF r.default THEN "default" ELSE "plain"
                                    ELSE IF a \in r.cleared THEN "plain" ELSE book[a]]
    /\ undefaulted' = (undefaulted /\ ~r.default)
    /\ crossed' = (crossed \/ (r.new /\ \E o \in BookCalls : tx[o].pc = "lock"))
    /\ TxEnds(t)
    /\ BookGoes

\* No row is updated: ErrNotFound, and the reset is rolled back.
NoSuchAddress(t) ==
    /\ tx[t].pc = "write" /\ ~tx[t].new /\ tx[t].id \notin Saved
    /\ TxEnds(t)
    /\ UNCHANGED <<book, crossed, undefaulted>> /\ BookGoes

\* The next address is not made the default in its place.
DeleteAddress(a) ==
    /\ a \in Saved \ Held
    /\ book' = [book EXCEPT ![a] = "none"]
    /\ undefaulted' = (undefaulted \/ book[a] = "default")
    /\ BookBegins
    /\ UNCHANGED <<tx, crossed>>

BookFails(t) ==
    /\ tx[t] # NoTx /\ TxEnds(t)
    /\ bookFaults < MaxBookFaults /\ bookFaults' = bookFaults + 1
    /\ UNCHANGED <<book, crossed, undefaulted, bookEdits>>

AddressNext ==
    \/ \E t \in BookCalls :
          \/ CountAddresses(t) \/ ResetDefaults(t) \/ LockRows(t) \/ WriteAddress(t)
          \/ NoSuchAddress(t) \/ BookFails(t)
          \/ \E a \in Addresses \cup {NoAddress} : SetDefault(t, a)
          \/ \E a \in Addresses, isDefault \in BOOLEAN : CreateAddress(t, a, isDefault)
    \/ \E a \in Addresses : DeleteAddress(a)

AddressSpec == AddressInit /\ [][AddressNext]_bookVars

-----------------------------------------------------------------------------
(* Properties                                                              *)

AddressTypeOK ==
    /\ book \in [Addresses -> {"none", "plain", "default"}]
    /\ tx \in [BookCalls -> Transactions]
    /\ crossed \in BOOLEAN /\ undefaulted \in BOOLEAN
    /\ bookEdits \in 0..MaxBookEdits /\ bookFaults \in 0..MaxBookFaults

\* A user who has addresses has one default among them, whatever requests overlap,
\* fail or name an address that is gone.  The exceptions are the code's: an address
\* inserted while another request's reset has its snapshot and waits, or a default
\* being inserted that a reset going through cannot see; and the default deleted.
\* (Create, Update, SetDefault, Delete of address/repository.go.)
OneDefaultAddress ==
    ~crossed /\ ~undefaulted /\ Saved # {} => Cardinality({a \in Addresses : book[a] = "default"}) = 1
=============================================================================
