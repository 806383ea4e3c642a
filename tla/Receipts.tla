------------------------------ MODULE Receipts ------------------------------
(***************************************************************************)
(* Receipts of transactions (transactions/service.py, core/storage.py): a  *)
(* file on disk, named after the transaction and the kind of picture, and  *)
(* the column receipt_path that names it.  The file is written before the  *)
(* row commits and is not undone when it does not.                         *)
(***************************************************************************)
EXTENDS Requests

CONSTANTS
    Txn,            \* transactions
    Extension,      \* allowed extensions
    Picture         \* contents of files

VARIABLES
    receipts,       \* table transactions: id -> deleted?, receipt_path (its extension)
    disk,           \* the storage directory: transaction -> extension -> content
    receiptReq,     \* client -> its request in flight
    attached,       \* history: transaction -> the picture whose upload succeeded last
    disturbed       \* history: transactions where uploads overlapped, or one failed after it wrote

receiptVars == <<receipts, disk, receiptReq, attached, disturbed>>

Nothing == "none"

Upload == [op : {"upload"}, at : {"loaded", "written"}, txn : Txn, ext : Extension,
           picture : Picture, path : Extension \union {Nothing}, alone : BOOLEAN]

ReceiptsTypeOK ==
    /\ receipts \in [Txn -> [deleted : BOOLEAN, path : Extension \union {Nothing}]]
    /\ disk \in [Txn -> [Extension -> Picture \union {Nothing}]]
    /\ receiptReq \in [Client -> {NoRequest} \union Upload]
    /\ attached \in [Txn -> Picture \union {Nothing}]
    /\ disturbed \subseteq Txn

ReceiptsInit ==
    /\ receipts = [t \in Txn |-> [deleted |-> FALSE, path |-> Nothing]]
    /\ disk = [t \in Txn |-> [e \in Extension |-> Nothing]]
    /\ receiptReq = [c \in Client |-> NoRequest]
    /\ attached = [t \in Txn |-> Nothing]
    /\ disturbed = {}

-----------------------------------------------------------------------------
Uploads(t) == {c \in Client : receiptReq[c] # NoRequest /\ receiptReq[c].txn = t}

\* Mutation of Replaced: the old file is removed after the new one is written.
Replaced_UnlinkLast(files, old, ext, picture) ==
    [e \in Extension |-> IF e = old THEN Nothing ELSE IF e = ext THEN picture ELSE files[e]]

\* The old file goes, if its name is known, and the new one is written over what is there.
Replaced(files, old, ext, picture) ==
    [e \in Extension |-> IF e = ext THEN picture ELSE IF e = old THEN Nothing ELSE files[e]]

\* attach_receipt: the row is read; then the request waits for the upload.
LoadUpload(c, t, ext, picture) ==
    /\ receiptReq[c] = NoRequest
    /\ ~receipts[t].deleted
    /\ receiptReq' =
         [d \in Client |->
            CASE d = c -> [op |-> "upload", at |-> "loaded", txn |-> t, ext |-> ext, picture |-> picture,
                           path |-> receipts[t].path, alone |-> Uploads(t) = {}]
              [] d \in Uploads(t) -> [receiptReq[d] EXCEPT !.alone = FALSE]
              [] OTHER -> receiptReq[d]]
    /\ disturbed' = disturbed \union (IF Uploads(t) = {} THEN {} ELSE {t})
    /\ UNCHANGED <<receipts, disk, attached>>

\* unlink and write_bytes, with nothing awaited in between.
WriteReceipt(c) ==
    LET r == receiptReq[c] IN
    /\ r.op = "upload"
    /\ r.at = "loaded"
    /\ disk' = [disk EXCEPT ![r.txn] = Replaced(@, r.path, r.ext, r.picture)]
    /\ receiptReq' = [receiptReq EXCEPT ![c].at = "written"]
    /\ UNCHANGED <<receipts, attached, disturbed>>

\* The process dies between the two.
DieUnlinking(c) ==
    LET r == receiptReq[c] IN
    /\ r.op = "upload"
    /\ r.at = "loaded"
    /\ r.path # Nothing
    /\ disk' = [disk EXCEPT ![r.txn][r.path] = Nothing]
    /\ receiptReq' = [receiptReq EXCEPT ![c] = NoRequest]
    /\ disturbed' = disturbed \union {r.txn}
    /\ UNCHANGED <<receipts, attached>>

CommitUpload(c) ==
    LET r == receiptReq[c]
        loaded == [deleted |-> FALSE, path |-> r.path] IN
    /\ r.op = "upload"
    /\ r.at = "written"
    /\ receipts' = [receipts EXCEPT ![r.txn] = Flush(@, loaded, [loaded EXCEPT !.path = r.ext])]
    /\ attached' = [attached EXCEPT ![r.txn] = r.picture]
    /\ receiptReq' = [receiptReq EXCEPT ![c] = NoRequest]
    /\ disturbed' = IF r.alone THEN disturbed \ {r.txn} ELSE disturbed
    /\ UNCHANGED disk

RollBackUpload(c) ==
    LET r == receiptReq[c] IN
    /\ r.op = "upload"
    /\ receiptReq' = [receiptReq EXCEPT ![c] = NoRequest]
    /\ disturbed' = disturbed \union (IF r.at = "written" THEN {r.txn} ELSE {})
    /\ UNCHANGED <<receipts, disk, attached>>

\* delete_transaction leaves the file where it is.
DeleteTxn(t) ==
    /\ ~receipts[t].deleted
    /\ receipts' = [receipts EXCEPT ![t].deleted = TRUE]
    /\ UNCHANGED <<disk, receiptReq, attached, disturbed>>

ReceiptsNext ==
    \/ \E c \in Client, t \in Txn, ext \in Extension, picture \in Picture : LoadUpload(c, t, ext, picture)
    \/ \E c \in Client : WriteReceipt(c) \/ DieUnlinking(c) \/ CommitUpload(c) \/ RollBackUpload(c)
    \/ \E t \in Txn : DeleteTxn(t)

ReceiptsSpec == ReceiptsInit /\ [][ReceiptsNext]_receiptVars

-----------------------------------------------------------------------------
\* receipt_file_path: what a download of the receipt answers.
Download(t) == disk[t][receipts[t].path]

\* A transaction shows the receipt whose upload succeeded last, whatever kinds of picture
\* came before and whatever earlier uploads left behind.  An upload that failed after it
\* wrote, or overlapped another, may leave no file or a wrong one, until the next upload.
ReceiptIsThere ==
    \A t \in Txn : receipts[t].path # Nothing /\ t \notin disturbed /\ Uploads(t) = {}
                     => Download(t) = attached[t]
=============================================================================
