----------------------------- MODULE ImportJobs -----------------------------
(***************************************************************************)
(* Bank statements (api/v1/import_jobs): a file is parsed into the rows of *)
(* a job, the user reviews the rows and confirms, and every row that is    *)
(* not ignored becomes an expense.  A client that misses an answer sends   *)
(* the request again.  The taxonomy always has a category for a row.       *)
(***************************************************************************)
EXTENDS Requests

CONSTANTS
    Job,            \* ids of import jobs
    Line,           \* lines of the statement file
    Valid,          \* of them, lines with a date, a merchant and an amount
    MaxConfirms     \* bound: confirmations of a job

ASSUME ImportAssumption == Valid \subseteq Line /\ MaxConfirms \in Nat

VARIABLES
    jobs,           \* table import_jobs: id -> status, "none" for no row
    rows,           \* table import_rows: job -> line -> state, "none" for no row
    imported,       \* transactions recorded: job -> line -> number
    importReq,      \* client -> its request in flight
    confirms,       \* history: job -> confirmations that committed
    edited          \* history: jobs with a row edited while, or after, they were confirmed

importVars == <<jobs, rows, imported, importReq, confirms, edited>>

RowState == {"ready", "duplicate", "ignored"}

Edit == [op : {"edit"}, job : Job, line : Line, loaded : RowState, state : RowState]
Confirm == [op : {"confirm"}, job : Job, lines : SUBSET Line]

ImportsTypeOK ==
    /\ jobs \in [Job -> {"none", "parsed", "confirmed"}]
    /\ rows \in [Job -> [Line -> RowState \union {"none"}]]
    /\ imported \in [Job -> [Line -> 0 .. MaxConfirms]]
    /\ importReq \in [Client -> {NoRequest} \union Edit \union Confirm]
    /\ confirms \in [Job -> 0 .. MaxConfirms]
    /\ edited \subseteq Job

ImportsInit ==
    /\ jobs = [j \in Job |-> "none"]
    /\ rows = [j \in Job |-> [l \in Line |-> "none"]]
    /\ imported = [j \in Job |-> [l \in Line |-> 0]]
    /\ importReq = [c \in Client |-> NoRequest]
    /\ confirms = [j \in Job |-> 0]
    /\ edited = {}

-----------------------------------------------------------------------------
\* _parse_csv: the lines it cannot read are passed over.
ParsedLines(file) == file \intersect Valid

\* upload_file, in one commit; a second upload of a file makes a second job.
UploadFile(j, file) ==
    /\ jobs[j] = "none"
    /\ ParsedLines(file) # {}
    /\ jobs' = [jobs EXCEPT ![j] = "parsed"]
    /\ rows' = [rows EXCEPT ![j] = [l \in Line |-> IF l \in ParsedLines(file) THEN "ready" ELSE "none"]]
    /\ UNCHANGED <<imported, importReq, confirms, edited>>

RowsOf(j) == {l \in Line : rows[j][l] # "none"}
Confirming(j) == \E c \in Client : importReq[c].op = "confirm" /\ importReq[c].job = j

\* update_row.
LoadEdit(c, j, line, state) ==
    /\ importReq[c] = NoRequest
    /\ line \in RowsOf(j)
    /\ importReq' = [importReq EXCEPT ![c] =
         [op |-> "edit", job |-> j, line |-> line, loaded |-> rows[j][line], state |-> state]]
    /\ UNCHANGED <<jobs, rows, imported, confirms, edited>>

CommitEdit(c) ==
    LET r == importReq[c] IN
    /\ r.op = "edit"
    /\ rows' = [rows EXCEPT ![r.job][r.line] =
         Flush([state |-> @], [state |-> r.loaded], [state |-> r.state]).state]
    /\ edited' = edited \union (IF rows' # rows /\ (Confirming(r.job) \/ confirms[r.job] > 0)
                                  THEN {r.job} ELSE {})
    /\ importReq' = [importReq EXCEPT ![c] = NoRequest]
    /\ UNCHANGED <<jobs, imported, confirms>>

\* Mutation of ToImport: the rows the user ignored are imported, too.
ToImport_All(j) == RowsOf(j)

\* confirm_import: the rows that are not ignored; a "duplicate" is not.
ToImport(j) == {l \in RowsOf(j) : rows[j][l] # "ignored"}

\* The job's status is not looked at.
LoadConfirm(c, j) ==
    /\ importReq[c] = NoRequest
    /\ jobs[j] # "none"
    /\ importReq' = [importReq EXCEPT ![c] = [op |-> "confirm", job |-> j, lines |-> ToImport(j)]]
    /\ UNCHANGED <<jobs, rows, imported, confirms, edited>>

CommitConfirm(c) ==
    LET r == importReq[c] IN
    /\ r.op = "confirm"
    /\ confirms[r.job] < MaxConfirms
    /\ imported' = [imported EXCEPT ![r.job] = [l \in Line |-> IF l \in r.lines THEN @[l] + 1 ELSE @[l]]]
    /\ jobs' = [jobs EXCEPT ![r.job] = "confirmed"]
    /\ confirms' = [confirms EXCEPT ![r.job] = @ + 1]
    /\ importReq' = [importReq EXCEPT ![c] = NoRequest]
    /\ UNCHANGED <<rows, edited>>

RollBackImport(c) ==
    /\ importReq[c] # NoRequest
    /\ importReq' = [importReq EXCEPT ![c] = NoRequest]
    /\ UNCHANGED <<jobs, rows, imported, confirms, edited>>

ImportsNext ==
    \/ \E j \in Job, file \in SUBSET Line : UploadFile(j, file)
    \/ \E c \in Client, j \in Job :
          \/ LoadConfirm(c, j)
          \/ \E line \in Line, state \in RowState : LoadEdit(c, j, line, state)
    \/ \E c \in Client : CommitEdit(c) \/ CommitConfirm(c) \/ RollBackImport(c)

ImportsSpec == ImportsInit /\ [][ImportsNext]_importVars

-----------------------------------------------------------------------------
\* The books agree with the review: once a job is confirmed, its rows are in the books as
\* often as it was confirmed (a client that sends the confirmation again imports them again),
\* and the ignored ones are not; nothing of an unconfirmed job is.  The exception is a job
\* with a row that was edited while, or after, the job was confirmed.
ImportedAsReviewed ==
    \A j \in Job \ edited, l \in Line :
        imported[j][l] = IF rows[j][l] \in {"ready", "duplicate"} THEN confirms[j] ELSE 0
=============================================================================
