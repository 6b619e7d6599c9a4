------------------------------- MODULE Catalogue -------------------------------
(***************************************************************************)
(* The admin's side of the product table, over the stock ledger: the edit   *)
(* form that sends back an absolute stock, products created and deleted     *)
(* while orders hold their units, and images, whose files and rows are      *)
(* written one after the other (internal/product, internal/imageproc).      *)
(***************************************************************************)
EXTENDS StockLedger

CONSTANTS Forms,             \* admin pages with an edit form
          ImageCalls,        \* image requests in flight at once
          Urls,              \* image urls
          NoUrl,
          MaxChanges,        \* bound: admin requests begun
          MaxCatalogueFaults \* bound: failed statements and file writes

ASSUME CatalogueAssumption ==
    NoUrl \notin Urls /\ MaxChanges \in Nat /\ MaxCatalogueFaults \in Nat

VARIABLES listed,      \* rows of products
          form,        \* the product and the stock a form shows
          image,       \* product_images: is there a row for url u of product p
          written,     \* variants of an upload on disk
          upload,      \* image requests in flight
          owned,       \* ghost: units of each product the shop should account for
          overwritten, \* ghost: products saved from a form whose stock was out of date
          lead,        \* ghost: the primary image last asked for and not deleted since
          clashed,     \* ghost: products where a primary was unset and not replaced in turn
          changes, catalogueFaults

catalogueVars == <<ledgerVars, listed, form, image, written, upload, owned, overwritten, lead,
                   clashed, changes, catalogueFaults>>
stockSide == <<listed, form, owned, overwritten>>
imageSide == <<image, written, upload, lead, clashed>>

Variants == 3   \* thumb, card, full
ImageStates == {"none", "plain", "primary"}
NoForm == [open |-> FALSE]
FormsOpen == [open : {TRUE}, product : Products, shown : Nat]
NoUpload == [pc |-> "idle"]
Uploads == [pc : {"file", "unset", "insert"}, product : Products, url : Urls, primary : BOOLEAN]

CatalogueInit ==
    /\ Init
    /\ listed = {p \in Products : InitialStock[p] > 0}
    /\ form = [a \in Forms |-> NoForm]
    /\ image = [p \in Products |-> [u \in Urls |-> "none"]]
    /\ written = [u \in Urls |-> 0]
    /\ upload = [c \in ImageCalls |-> NoUpload]
    /\ owned = InitialStock /\ overwritten = {}
    /\ lead = [p \in Products |-> NoUrl] /\ clashed = {}
    /\ changes = 0 /\ catalogueFaults = 0

Begins == changes < MaxChanges /\ changes' = changes + 1 /\ UNCHANGED catalogueFaults
Faults == catalogueFaults < MaxCatalogueFaults /\ catalogueFaults' = catalogueFaults + 1 /\ UNCHANGED changes
Goes == UNCHANGED <<changes, catalogueFaults>>

-----------------------------------------------------------------------------
(* Orders, as the ledger has them                                          *)

OrderPlaced == /\ \E o \in Orders, want \in Baskets : Reserve(o, want)
               /\ UNCHANGED <<stockSide, imageSide>> /\ Goes

OrderAdvances == /\ \E o \in Orders, s \in PostPayment : Advance(o, s)
                 /\ UNCHANGED <<stockSide, imageSide>> /\ Goes

\* Mutant: the loop stops at an item whose product is gone.
Restocked_StopsAtDeleted(o) ==
    IF \E p \in Products \ listed : items[o][p] > 0 THEN stock
    ELSE [p \in Products |-> stock[p] + items[o][p]]

\* Deleting a product sets product_id of its items to NULL; those are skipped.
Restocked(o) == [p \in Products |-> IF p \in listed THEN stock[p] + items[o][p] ELSE stock[p]]

OrderDies(o, s) ==
    /\ \/ status[o] = StatusPendingPayment /\ s \in {StatusPaymentFailed, StatusCancelled}
       \/ status[o] \in PostPayment /\ s = StatusRefunded
    /\ status' = [status EXCEPT ![o] = s]
    /\ stock' = Restocked(o)
    /\ UNCHANGED items
    /\ UNCHANGED <<stockSide, imageSide>> /\ Goes

-----------------------------------------------------------------------------
(* Products                                                                *)

\* Create, and each row of BulkCreate: a new id.
CreateProduct(p, n) ==
    /\ p \notin listed /\ owned[p] = 0
    /\ listed' = listed \cup {p}
    /\ stock' = [stock EXCEPT ![p] = n] /\ owned' = [owned EXCEPT ![p] = n]
    /\ Begins
    /\ UNCHANGED <<status, items, form, overwritten, imageSide>>

\* beginEdit: the form is filled from the list the page has loaded.
BeginEdit(a, p) ==
    /\ ~form[a].open /\ p \in listed
    /\ form' = [form EXCEPT ![a] = [open |-> TRUE, product |-> p, shown |-> stock[p]]]
    /\ Begins
    /\ UNCHANGED <<ledgerVars, listed, owned, overwritten, imageSide>>

\* saveEdit: the form always sends stock_quantity, as an absolute number; the
\* admin meant to change it by n - shown.
Update(a, n) ==
    LET p == form[a].product IN
    /\ form[a].open
    /\ form' = [form EXCEPT ![a] = NoForm]
    /\ IF p \in listed
       THEN /\ stock' = [stock EXCEPT ![p] = n]
            /\ owned' = [owned EXCEPT ![p] = @ + (n - form[a].shown)]
            /\ overwritten' = IF stock[p] = form[a].shown THEN overwritten ELSE overwritten \cup {p}
       ELSE UNCHANGED <<stock, owned, overwritten>>
    /\ UNCHANGED <<status, items, listed, imageSide>> /\ Goes

\* product_images has no ON DELETE rule: a product with images stays.
Delete(p) ==
    /\ p \in listed
    /\ \A u \in Urls : image[p][u] = "none"
    /\ listed' = listed \ {p}
    /\ stock' = [stock EXCEPT ![p] = 0]
    /\ Begins
    /\ UNCHANGED <<status, items, form, owned, overwritten, imageSide>>

-----------------------------------------------------------------------------
(* Images                                                                  *)

ImageStarts(c, r) == upload[c] = NoUpload /\ upload' = [upload EXCEPT ![c] = r] /\ Begins
ImageStep(c, pc) == upload' = [upload EXCEPT ![c].pc = pc]
ImageEnds(c) == upload' = [upload EXCEPT ![c] = NoUpload]
RowStep(primary) == IF primary THEN "unset" ELSE "insert"

\* AddImage: a url of the admin's, which the product may have already.
AddImage(c, p, u, primary) ==
    /\ written[u] = 0
    /\ \A d \in ImageCalls : upload[d].pc = "file" => upload[d].url # u
    /\ ImageStarts(c, [pc |-> RowStep(primary), product |-> p, url |-> u, primary |-> primary])
    /\ UNCHANGED <<ledgerVars, stockSide, image, written, lead, clashed>>

\* UploadImage: the product's id is only parsed; the url is a new token.
UploadImage(c, p, u, primary) ==
    /\ written[u] = 0 /\ \A q \in Products : image[q][u] = "none"
    /\ \A d \in ImageCalls : upload[d] # NoUpload => upload[d].url # u
    /\ ImageStarts(c, [pc |-> "file", product |-> p, url |-> u, primary |-> primary])
    /\ UNCHANGED <<ledgerVars, stockSide, image, written, lead, clashed>>

\* Mutant: the row is written while the last variant is still missing.
Process_OneShort(c) ==
    LET u == upload[c].url IN
    /\ upload[c].pc = "file"
    /\ written' = [written EXCEPT ![u] = @ + 1]
    /\ ImageStep(c, IF written[u] + 1 = Variants - 1 THEN RowStep(upload[c].primary) ELSE "file")
    /\ UNCHANGED <<ledgerVars, stockSide, image, lead, clashed>> /\ Goes

\* One variant after the other, then the row.
Process(c) ==
    LET u == upload[c].url IN
    /\ upload[c].pc = "file"
    /\ written' = [written EXCEPT ![u] = @ + 1]
    /\ ImageStep(c, IF written[u] + 1 = Variants THEN RowStep(upload[c].primary) ELSE "file")
    /\ UNCHANGED <<ledgerVars, stockSide, image, lead, clashed>> /\ Goes

\* Mutant: the image that was primary keeps its flag.
UnsetPrimary_Skipped(c) ==
    /\ upload[c].pc = "unset" /\ ImageStep(c, "insert")
    /\ UNCHANGED <<ledgerVars, stockSide, image, written, lead, clashed>> /\ Goes

\* UPDATE ... SET is_primary = false, a statement of its own.
UnsetPrimary(c) ==
    LET p == upload[c].product IN
    /\ upload[c].pc = "unset"
    /\ image' = [image EXCEPT ![p] = [u \in Urls |-> IF @[u] = "primary" THEN "plain" ELSE @[u]]]
    /\ clashed' = IF \E d \in ImageCalls : /\ upload[d] # NoUpload /\ upload[d].product = p
                                           /\ upload[d].primary /\ upload[d].pc = "insert"
                  THEN clashed \cup {p} ELSE clashed
    /\ ImageStep(c, "insert")
    /\ UNCHANGED <<ledgerVars, stockSide, written, lead>> /\ Goes

\* A url that had to become the primary image has not.
Unreplaced(c) == IF upload[c].primary THEN clashed \cup {upload[c].product} ELSE clashed

\* The product must exist and not have the url (UNIQUE (product_id, url)).
InsertImage(c) ==
    LET p == upload[c].product  u == upload[c].url  primary == upload[c].primary IN
    /\ upload[c].pc = "insert" /\ ImageEnds(c)
    /\ IF p \in listed /\ image[p][u] = "none"
       THEN /\ image' = [image EXCEPT ![p][u] = IF primary THEN "primary" ELSE "plain"]
            /\ lead' = IF primary THEN [lead EXCEPT ![p] = u] ELSE lead
            /\ UNCHANGED clashed
       ELSE clashed' = Unreplaced(c) /\ UNCHANGED <<image, lead>>
    /\ UNCHANGED <<ledgerVars, stockSide, written>> /\ Goes

\* A variant cannot be saved, a statement fails, the client goes away.
ImageFails(c) ==
    /\ upload[c] # NoUpload /\ ImageEnds(c)
    /\ clashed' = IF upload[c].pc = "insert" THEN Unreplaced(c) ELSE clashed
    /\ Faults
    /\ UNCHANGED <<ledgerVars, stockSide, image, written, lead>>

\* The row goes, its files stay.
DeleteImage(p, u) ==
    /\ image[p][u] # "none"
    /\ image' = [image EXCEPT ![p][u] = "none"]
    /\ lead' = IF lead[p] = u THEN [lead EXCEPT ![p] = NoUrl] ELSE lead
    /\ Begins
    /\ UNCHANGED <<ledgerVars, stockSide, written, upload, clashed>>

CatalogueNext ==
    \/ OrderPlaced \/ OrderAdvances
    \/ \E o \in Orders, s \in Released : OrderDies(o, s)
    \/ \E p \in Products : \/ \E n \in 1..MaxQty : CreateProduct(p, n)
                           \/ \E a \in Forms : BeginEdit(a, p)
                           \/ Delete(p)
                           \/ \E u \in Urls : DeleteImage(p, u)
    \/ \E a \in Forms, n \in 0..(MaxQty + 1) : Update(a, n)
    \/ \E c \in ImageCalls :
          \/ \E p \in Products, u \in Urls, primary \in BOOLEAN :
                AddImage(c, p, u, primary) \/ UploadImage(c, p, u, primary)
          \/ Process(c) \/ UnsetPrimary(c) \/ InsertImage(c) \/ ImageFails(c)

CatalogueSpec == CatalogueInit /\ [][CatalogueNext]_catalogueVars

-----------------------------------------------------------------------------
(* Properties                                                              *)

CatalogueTypeOK ==
    /\ LedgerTypeOK
    /\ listed \subseteq Products
    /\ form \in [Forms -> FormsOpen \cup {NoForm}]
    /\ image \in [Products -> [Urls -> ImageStates]]
    /\ written \in [Urls -> 0..Variants]
    /\ upload \in [ImageCalls -> Uploads \cup {NoUpload}]
    /\ owned \in [Products -> Int] /\ overwritten \subseteq Products
    /\ lead \in [Products -> Urls \cup {NoUrl}] /\ clashed \subseteq Products
    /\ changes \in 0..MaxChanges /\ catalogueFaults \in 0..MaxCatalogueFaults

\* Whatever admins edit and delete while orders come and go, the stock of a product
\* and the units live orders hold of it are what the shop started with and its
\* admins added or took, a deleted sister product or not.  The exception is the
\* code's: a form saved when the stock was no longer the one it showed.
\* (Update of product/repository.go against checkout and every restock loop.)
StockAccounted ==
    \A p \in listed \ overwritten : stock[p] + Cardinality(HeldUnits(p)) = owned[p]

\* With no image request half-way, a product's primary image is the one last asked
\* for: never two, and none only when it was deleted.  The exceptions are the
\* code's: two requests between their UPDATE and their INSERT at once, and an INSERT
\* that fails after the UPDATE, as for a url the product has already.
\* (AddImage, AddImageWithVariants: two statements, no transaction.)
PrimaryAsAsked ==
    \A p \in listed \ clashed :
        (\A c \in ImageCalls : upload[c] = NoUpload \/ upload[c].product # p)
            => {u \in Urls : image[p][u] = "primary"} = {lead[p]} \ {NoUrl}

\* No shopper is sent to a missing file: a row that an upload wrote has all three
\* variants on disk, though a file write can fail half-way.  (UploadImage, Process.)
ImagesHaveFiles ==
    \A p \in Products, u \in Urls : image[p][u] # "none" => written[u] \in {0, Variants}

\* What a product page shows: the image asked for, with its files.
ImagesAsAsked == PrimaryAsAsked /\ ImagesHaveFiles
=============================================================================
