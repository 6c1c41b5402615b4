----------------------------- MODULE Documents -----------------------------
(***************************************************************************)
(* The document store of the front end (state/documentStore.ts): the       *)
(* upload checklist of the submission wizard, the uploads and the loads in *)
(* flight, and the documents the server holds.                             *)
(***************************************************************************)
EXTENDS Naturals, FiniteSets

CONSTANTS
    DocLoans,     \* loans with a row on the server
    NoLoan,       \* the loanId of a checklist made for no loan
    Required,     \* program -> the document types its checklist requires
    Unchosen      \* the program of a draft that has none yet

VARIABLES
    docLoan,      \* loanId: the loan the checklist was made for
    checklist,    \* document type -> "not_started" or "uploaded"
    uploading,    \* POST /documents/upload in flight: type -> loan, NoLoan if none
    loading,      \* GET /documents in flight, with the answer it carries
    held,         \* the documents on the server: pairs <<loan, type>>
    archived,     \* those that were taken away again
    uploads,      \* count of uploads started
    stray         \* loans whose checklist took a mark that another loan earned

docVars == <<docLoan, checklist, uploading, loading, held, archived, uploads, stray>>

Types == UNION {Required[p] : p \in DOMAIN Required}

(* generateDocumentChecklist: nothing started. *)
Fresh(product) == [t \in Required[product] |-> "not_started"]

DocInit ==
    /\ docLoan = NoLoan /\ checklist = Fresh(Unchosen)
    /\ uploading = [t \in Types |-> NoLoan]
    /\ loading = {} /\ held = {} /\ archived = {} /\ uploads = 0 /\ stray = {}

MadeKeepingMarks(list, owner, product, l) ==
    [t \in Required[product] |-> IF t \in DOMAIN list THEN list[t] ELSE "not_started"]

(* The checklist of loan l, after a list that was made for owner: another  *)
(* loan starts clean; the same loan keeps the files already uploaded for   *)
(* the types that stay.                                                    *)
Made(list, owner, product, l) ==
    [t \in Required[product] |-> IF l = owner /\ t \in DOMAIN list THEN list[t] ELSE "not_started"]

GenerateChecklist(product, l) ==
    /\ checklist' = Made(checklist, docLoan, product, l)
    /\ docLoan' = l
    /\ UNCHANGED <<uploading, held, archived, uploads, stray>>

(* The step is mounted over the draft of loan was, and the draft of loan l *)
(* follows at once: the list is made for each of them in turn.             *)
GenerateTwice(before, was, product, l) ==
    /\ checklist' = Made(Made(checklist, docLoan, before, was), was, product, l)
    /\ docLoan' = l
    /\ UNCHANGED <<uploading, held, archived, uploads, stray>>

(* loadDocumentsForLoan, for each of the loans ls that the server knows.   *)
AskDocuments(ls) == loading' = loading \cup (ls \cap DocLoans)

Marked(ts) == [t \in DOMAIN checklist |-> IF t \in ts THEN "uploaded" ELSE checklist[t]]

(* A mark lands on the checklist on show, whichever loan that is for. *)
Strays(l, ts) ==
    IF l # docLoan /\ ts \cap DOMAIN checklist # {} THEN stray \cup {docLoan} ELSE stray

(* Its answer, applied when it comes: some of what the loan holds by now   *)
(* or held before, none of it when the load fails.  It only adds marks.    *)
DocumentsLoaded(l) ==
    /\ l \in loading /\ loading' = loading \ {l}
    /\ \E types \in SUBSET {t \in Types : <<l, t>> \in held \cup archived} :
         checklist' = Marked(types) /\ stray' = Strays(l, types)
    /\ UNCHANGED <<docLoan, uploading, held, archived, uploads>>

(* uploadDocument: without a server loan the mark is made without a server. *)
StartUpload(t, l) ==
    /\ t \in DOMAIN checklist /\ uploading[t] = NoLoan
    /\ uploads' = uploads + 1
    /\ IF l \in DocLoans
       THEN uploading' = [uploading EXCEPT ![t] = l] /\ UNCHANGED <<checklist, stray>>
       ELSE checklist' = Marked({t}) /\ stray' = Strays(l, {t}) /\ UNCHANGED uploading
    /\ UNCHANGED <<docLoan, loading, held, archived>>

Uploaded(t) ==
    /\ uploading[t] # NoLoan
    /\ held' = held \cup {<<uploading[t], t>>}
    /\ checklist' = Marked({t})
    /\ stray' = Strays(uploading[t], {t})
    /\ uploading' = [uploading EXCEPT ![t] = NoLoan]
    /\ UNCHANGED <<docLoan, loading, archived, uploads>>

(* The upload fails, before or after the server stored the file. *)
UploadFails(t) ==
    /\ uploading[t] # NoLoan
    /\ held' \in {held, held \cup {<<uploading[t], t>>}}
    /\ uploading' = [uploading EXCEPT ![t] = NoLoan]
    /\ UNCHANGED <<docLoan, checklist, loading, archived, uploads, stray>>

(* removeDocument: the mark goes, the server keeps the file. *)
RemoveDocument(t) ==
    /\ t \in DOMAIN checklist /\ checklist[t] = "uploaded" /\ uploading[t] = NoLoan
    /\ checklist' = [checklist EXCEPT ![t] = "not_started"]
    /\ UNCHANGED <<docLoan, uploading, loading, held, archived, uploads, stray>>

(* archive_document, from the documents page of the loan: the document is  *)
(* no longer the loan's, and no checklist is told.                         *)
ArchiveDocument(l, t) ==
    /\ <<l, t>> \in held
    /\ held' = held \ {<<l, t>>} /\ archived' = archived \cup {<<l, t>>}
    /\ UNCHANGED <<docLoan, checklist, uploading, loading, uploads, stray>>

(* A reload keeps the checklist, and drops what was in flight. *)
DocReload ==
    /\ uploading' = [t \in Types |-> NoLoan] /\ loading' = {}
    /\ UNCHANGED <<docLoan, checklist, held, archived, uploads, stray>>

(* missingRequiredDocs *)
MissingDocs == {t \in DOMAIN checklist : checklist[t] # "uploaded"}
===========================================================================
