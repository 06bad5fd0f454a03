------------------------------- MODULE Documents -------------------------------
(***************************************************************************)
(* The invoice of an order: its row in order_service, its number and the   *)
(* PDF on disk (document_service, routers/documents).                      *)
(*                                                                         *)
(* A request computes the amount of the order, looks for the invoice,      *)
(* takes a number for a new one, writes the PDF and commits the row.  The  *)
(* disk is not part of the transaction.  Only the row of the order and the *)
(* counter of numbers are locked: an edit and a delivery hold the row of   *)
(* the order, a manual issue does not.                                     *)
(***************************************************************************)
EXTENDS Integers, FiniteSets

CONSTANTS
    Orders, DocRequests, Names,
    Amounts,     \* amounts an order may have
    MaxDoc,      \* bound: numbers of documents
    MaxDocReqs   \* bound: requests that begin

ASSUME DocumentsAssumption == MaxDoc \in Nat /\ MaxDocReqs \in Nat /\ Amounts \subseteq Nat \ {0}

Absent      == -1   \* no such order yet
NotComputed == 0
Numbers     == 1..MaxDoc
NoNumber    == 0
NoDocument  == [state |-> "none"]
NoPdf       == [state |-> "none"]
LinkInChat  == [state |-> "link"]   \* a message with the path of the download
Free        == [kind |-> "free"]

VARIABLES
    amount,      \* order -> final_amount or expected_amount, as committed
    docs,        \* number -> the row of the document
    disk,        \* order, file name -> the PDF
    orderLock,   \* order -> its row is locked
    numberLock,  \* the row of DocNumberCounter is locked
    numbered,    \* doc_number_counters.last_seq, as committed
    begunDocs,   \* how many requests have begun
    docReqs,     \* request -> what it works on
    received,    \* number -> what was sent to the client last
    loose,       \* the orders whose row and PDF were written apart, until the next good issue
    penciled,    \* the orders a client has changed since the last good issue
    unkept,      \* history: the orders whose creation failed after it was announced
    crowded      \* history: the orders with two requests about the invoice at a time

docVars == <<amount, docs, disk, orderLock, numberLock, numbered, begunDocs, docReqs, received, loose, penciled, unkept, crowded>>

\* document_display_name: the name that was given by hand, or the number and the buyer.
DisplayName(n, name) == IF name = "" THEN [number |-> n] ELSE [number |-> 0, name |-> name]

FileNames == [number: Numbers] \cup [number: {0}, name: Names]

Files == [order: Orders, label: FileNames]

Pdf == [state: {"file"}, order: Orders, number: Numbers, amount: Amounts]

DocRow == [state: {"draft", "ready", "sent"}, order: Orders, amount: Amounts, name: Names \cup {""},
           file: Files \cup {NoPdf}]

DocsInit ==
    /\ amount = [o \in Orders |-> Absent]
    /\ docs = [n \in Numbers |-> NoDocument]
    /\ disk = [f \in Files |-> NoPdf]
    /\ orderLock = [o \in Orders |-> FALSE] /\ numberLock = FALSE /\ numbered = 0 /\ begunDocs = 0
    /\ docReqs = [q \in DocRequests |-> Free]
    /\ received = [n \in Numbers |-> NoPdf]
    /\ loose = {} /\ penciled = {} /\ unkept = {} /\ crowded = {}

Exists(n) == docs[n] # NoDocument

\* _existing_document, list_for_order: the document of the order that is not cancelled.
InvoicesOf(o) == {n \in Numbers : Exists(n) /\ docs[n].order = o}

\* get_document and the download: resolve_media_path of the row's file.
PdfOf(n) == IF docs[n].file \in Files THEN disk[docs[n].file] ELSE NoPdf

\* _next_doc_number: after the last that was committed.
NextDocNumber == numbered + 1

\* GET .../export, build_export_ctx: from the row, of READY and SENT documents.
Exported(n) ==
    IF docs[n].state \in {"ready", "sent"}
    THEN [state |-> "file", order |-> docs[n].order, number |-> n, amount |-> docs[n].amount] ELSE NoPdf

-----------------------------------------------------------------------------
WorkingOn(o) == {q \in DocRequests : docReqs[q] # Free /\ docReqs[q].order = o}

\* Two requests about one invoice at a time; after that the order is left alone.
Counted == begunDocs < MaxDocReqs /\ begunDocs' = begunDocs + 1

Crowd(o) ==
    /\ Counted /\ o \notin crowded
    /\ crowded' = IF WorkingOn(o) # {} THEN crowded \cup {o} ELSE crowded

Request(kind, o, new, step, n) ==
    [kind |-> kind, order |-> o, amount |-> new, step |-> step, doc |-> n, fresh |-> FALSE,
     file |-> NoPdf, sent |-> FALSE]

Holders == {"create", "edit", "deliver"}

\* create_order of a large volume, without a price or of another kind: no invoice is made.
CreateWithout(o, new) ==
    /\ Counted
    /\ amount[o] = Absent /\ WorkingOn(o) = {}
    /\ amount' = [amount EXCEPT ![o] = new]
    /\ UNCHANGED <<docs, disk, orderLock, numberLock, numbered, docReqs, received, loose, penciled, unkept, crowded>>

\* A request about the order's invoice: a creation, an edit by the staff or a delivery computes
\* an amount and holds the order's row, a manual issue reads what is committed.
IssueBegin(q, o, kind, new) ==
    /\ docReqs[q] = Free /\ (kind = "create") = (amount[o] = Absent)
    /\ kind \in Holders => ~orderLock[o]
    /\ kind = "issue" => new = amount[o]
    /\ orderLock' = [orderLock EXCEPT ![o] = @ \/ kind \in Holders]
    /\ docReqs' = [docReqs EXCEPT ![q] = Request(kind, o, new, "look", NoNumber)]
    /\ Crowd(o)
    /\ UNCHANGED <<amount, docs, disk, numberLock, numbered, received, loose, penciled, unkept>>

At(q, step) == docReqs[q] # Free /\ docReqs[q].step = step

\* regenerate_invoice: the invoice that is there keeps its number.
LookFound(q, n) ==
    /\ At(q, "look") /\ n \in InvoicesOf(docReqs[q].order) /\ docReqs[q].amount # NotComputed
    /\ docReqs' = [docReqs EXCEPT ![q].doc = n, ![q].step = "render"]
    /\ UNCHANGED <<amount, docs, disk, orderLock, numberLock, numbered, received, loose, penciled, unkept, crowded, begunDocs>>

\* Mutant: a new invoice beside the one that is there.
LookNoneAlways(q) ==
    /\ At(q, "look") /\ docReqs[q].amount # NotComputed
    /\ numbered < MaxDoc /\ ~numberLock
    /\ numberLock' = TRUE
    /\ docReqs' = [docReqs EXCEPT ![q].doc = NextDocNumber, ![q].fresh = TRUE, ![q].step = "render"]
    /\ UNCHANGED <<amount, docs, disk, orderLock, numbered, received, loose, penciled, unkept, crowded, begunDocs>>

\* generate_invoice: none; _next_doc_number, whose row stays locked until the transaction ends.
LookNone(q) ==
    /\ At(q, "look") /\ InvoicesOf(docReqs[q].order) = {} /\ docReqs[q].amount # NotComputed
    /\ numbered < MaxDoc /\ ~numberLock
    /\ numberLock' = TRUE
    /\ docReqs' = [docReqs EXCEPT ![q].doc = NextDocNumber, ![q].fresh = TRUE, ![q].step = "render"]
    /\ UNCHANGED <<amount, docs, disk, orderLock, numbered, received, loose, penciled, unkept, crowded, begunDocs>>

FileOf(q) ==
    LET r == docReqs[q] IN
    [order |-> r.order, label |-> DisplayName(r.doc, IF r.fresh THEN "" ELSE docs[r.doc].name)]

\* _render_pdf and _save_pdf.
Render(q) ==
    /\ At(q, "render")
    /\ disk' = [disk EXCEPT ![FileOf(q)] =
                    [state |-> "file", order |-> docReqs[q].order, number |-> docReqs[q].doc,
                     amount |-> docReqs[q].amount]]
    /\ docReqs' = [docReqs EXCEPT ![q].file = FileOf(q), ![q].step = "write"]
    /\ UNCHANGED <<amount, docs, orderLock, numberLock, numbered, received, loose, penciled, unkept, crowded, begunDocs>>

\* The rendering fails: a draft without a file, or the previous file beside the new sums.
RenderFails(q) ==
    /\ At(q, "render")
    /\ docReqs' = [docReqs EXCEPT ![q].step = "write"]
    /\ loose' = loose \cup {docReqs[q].order}
    /\ UNCHANGED <<amount, docs, disk, orderLock, numberLock, numbered, received, penciled, unkept, crowded, begunDocs>>

\* Mutant: the sum of the row is not written again.
WrittenOldSum(q) ==
    LET r == docReqs[q] IN
    [state |-> IF r.file \in Files THEN "ready" ELSE "draft", order |-> r.order, name |-> "", file |-> r.file,
     amount |-> IF r.fresh THEN r.amount ELSE docs[r.doc].amount]

\* Mutant: the mark of what was sent stays.
WrittenStillSent(q) ==
    LET r == docReqs[q] IN
    IF r.fresh
    THEN [state |-> IF r.file \in Files THEN "ready" ELSE "draft", order |-> r.order, name |-> "", file |-> r.file,
          amount |-> r.amount]
    ELSE [docs[r.doc] EXCEPT !.amount = r.amount, !.file = IF r.file \in Files THEN r.file ELSE @]

WrittenRow(q) ==
    LET r == docReqs[q] IN
    CASE r.file \in Files ->
            [state |-> IF r.sent THEN "sent" ELSE "ready", order |-> r.order, amount |-> r.amount,
             name |-> IF r.fresh THEN "" ELSE docs[r.doc].name, file |-> r.file]
      [] r.fresh /\ r.file = NoPdf ->
            [state |-> "draft", order |-> r.order, amount |-> r.amount, name |-> "", file |-> NoPdf]
      [] OTHER -> [docs[r.doc] EXCEPT !.amount = r.amount]

Released(q) ==
    /\ docReqs' = [docReqs EXCEPT ![q] = Free]
    /\ orderLock' = [orderLock EXCEPT ![docReqs[q].order] = @ /\ docReqs[q].kind \notin Holders]
    /\ numberLock' = (numberLock /\ ~docReqs[q].fresh)

\* A good issue brings the row, the file and the order together again.
Settled(set, q) == IF docReqs[q].file \in Files THEN set \ {docReqs[q].order} ELSE set

\* The flush and the commit, with the order's amount.
IssueCommit(q) ==
    /\ At(q, "write")
    /\ docs' = [docs EXCEPT ![docReqs[q].doc] = WrittenRow(q)]
    /\ amount' = [amount EXCEPT ![docReqs[q].order] = IF docReqs[q].kind = "issue" THEN @ ELSE docReqs[q].amount]
    /\ numbered' = IF docReqs[q].fresh THEN docReqs[q].doc ELSE numbered
    /\ loose' = Settled(loose, q) /\ penciled' = Settled(penciled, q)
    /\ Released(q)
    /\ UNCHANGED <<disk, received, unkept, crowded, begunDocs>>

\* _order_amount refuses an amount that is not computed: an error to a manual issue; a
\* creation, an edit and a delivery are committed without the invoice.
NoAmount(q) ==
    /\ At(q, "look") /\ docReqs[q].amount = NotComputed
    /\ amount' = [amount EXCEPT ![docReqs[q].order] = IF docReqs[q].kind = "issue" THEN @ ELSE NotComputed]
    /\ Released(q)
    /\ UNCHANGED <<docs, disk, numbered, received, loose, penciled, unkept, crowded, begunDocs>>

\* The transaction is rolled back after the rendering: the trip of a delivery is refused,
\* a request is cut, the database refuses the commit.  The file stays.
IssueRollback(q) ==
    /\ At(q, "write")
    /\ loose' = IF docReqs[q].file \in Files THEN loose \cup {docReqs[q].order} ELSE loose
    /\ unkept' = IF docReqs[q].sent THEN unkept \cup {docReqs[q].order} ELSE unkept
    /\ Released(q)
    /\ UNCHANGED <<amount, docs, disk, numbered, received, penciled, crowded, begunDocs>>

\* create_order for a company: the invoice goes to the chat and by e-mail before the commit, each
\* if it can.
SendAtCreation(q, way) ==
    /\ At(q, "write") /\ docReqs[q].kind = "create" /\ docReqs[q].file \in Files /\ ~docReqs[q].sent
    /\ docReqs' = [docReqs EXCEPT ![q].sent = TRUE]
    /\ received' = [received EXCEPT ![docReqs[q].doc] = IF way = "mail" THEN disk[docReqs[q].file] ELSE LinkInChat]
    /\ UNCHANGED <<amount, docs, disk, orderLock, numberLock, numbered, loose, penciled, unkept, crowded, begunDocs>>

\* Mutant: a draft may be sent.
SendBeginDraft(q, n, way) ==
    /\ docReqs[q] = Free
    /\ Exists(n)
    /\ way = "mail" => PdfOf(n) # NoPdf
    /\ docReqs' = [docReqs EXCEPT ![q] = Request(way, docs[n].order, docs[n].amount, "post", n)]
    /\ Crowd(docs[n].order)
    /\ UNCHANGED <<amount, docs, disk, orderLock, numberLock, numbered, received, loose, penciled, unkept>>

\* send_document_to_chat and send_document_by_email: the row is read, and for a letter the file
\* must be there, ...
SendBegin(q, n, way) ==
    /\ docReqs[q] = Free
    /\ Exists(n) /\ docs[n].state # "draft"
    /\ way = "mail" => PdfOf(n) # NoPdf
    /\ docReqs' = [docReqs EXCEPT ![q] = Request(way, docs[n].order, docs[n].amount, "post", n)]
    /\ Crowd(docs[n].order)
    /\ UNCHANGED <<amount, docs, disk, orderLock, numberLock, numbered, received, loose, penciled, unkept>>

\* ... the client receives the file or a message that names the document, ...
Post(q) ==
    /\ At(q, "post")
    /\ received' = [received EXCEPT ![docReqs[q].doc] =
                        IF docReqs[q].kind = "mail" THEN PdfOf(docReqs[q].doc) ELSE LinkInChat]
    /\ docReqs' = [docReqs EXCEPT ![q].step = "mark"]
    /\ UNCHANGED <<amount, docs, disk, orderLock, numberLock, numbered, loose, penciled, unkept, crowded, begunDocs>>

\* (or the chat or the mail refuses it: nothing is written)
PostFails(q) ==
    /\ At(q, "post")
    /\ Released(q)
    /\ UNCHANGED <<amount, docs, disk, numbered, received, loose, penciled, unkept, crowded, begunDocs>>

\* ... and the row is marked.
MarkSent(q) ==
    /\ At(q, "mark")
    /\ docs' = [docs EXCEPT ![docReqs[q].doc].state = "sent"]
    /\ Released(q)
    /\ UNCHANGED <<amount, disk, numbered, received, loose, penciled, unkept, crowded, begunDocs>>

\* update_order by the client or the driver: _recompute_expected_amount, and no new invoice.
PencilEdit(o, new) ==
    /\ Counted
    /\ amount[o] \notin {Absent, new} /\ ~orderLock[o] /\ WorkingOn(o) = {}
    /\ amount' = [amount EXCEPT ![o] = new]
    /\ penciled' = penciled \cup {o}
    /\ UNCHANGED <<docs, disk, orderLock, numberLock, numbered, docReqs, received, loose, unkept, crowded>>

\* rename_document: the file keeps its name until the invoice is issued again.
RenameDocument(n, name) ==
    /\ Counted
    /\ Exists(n) /\ docs[n].name # name /\ WorkingOn(docs[n].order) = {}
    /\ docs' = [docs EXCEPT ![n].name = name]
    /\ UNCHANGED <<amount, disk, orderLock, numberLock, numbered, docReqs, received, loose, penciled, unkept, crowded>>

DocsNext ==
    \/ \E o \in Orders, new \in Amounts \cup {NotComputed} : CreateWithout(o, new)
    \/ \E q \in DocRequests, o \in Orders, kind \in Holders \cup {"issue"}, new \in Amounts \cup {NotComputed} :
            IssueBegin(q, o, kind, new)
    \/ \E o \in Orders, new \in Amounts \cup {NotComputed} : PencilEdit(o, new)
    \/ \E q \in DocRequests :
            \/ LookNone(q) \/ NoAmount(q) \/ Render(q) \/ RenderFails(q) \/ IssueCommit(q)
            \/ IssueRollback(q) \/ Post(q) \/ PostFails(q) \/ MarkSent(q)
            \/ \E n \in Numbers : LookFound(q, n)
            \/ \E way \in {"mail", "chat"} :
                    \/ SendAtCreation(q, way)
                    \/ \E n \in Numbers : SendBegin(q, n, way)
    \/ \E n \in Numbers, name \in Names \cup {""} : RenameDocument(n, name)

DocsSpec == DocsInit /\ [][DocsNext]_docVars

-----------------------------------------------------------------------------
\* The rows and the files keep the shape that the models of the database give them, and what
\* is ready or sent has a file.
DocsTypeOK ==
    /\ amount \in [Orders -> Amounts \cup {Absent, NotComputed}]
    /\ docs \in [Numbers -> DocRow \cup {NoDocument}]
    /\ disk \in [Files -> Pdf \cup {NoPdf}] /\ received \in [Numbers -> Pdf \cup {NoPdf, LinkInChat}]
    /\ \A n \in Numbers : Exists(n) /\ docs[n].state # "draft" => docs[n].file \in Files
    /\ numbered \in 0..MaxDoc /\ loose \cup penciled \cup unkept \cup crowded \subseteq Orders

\* generate_invoice: an order has one invoice, whatever creates, edits, deliveries and manual
\* issues come after each other; only two of them at a time, of which neither sees the
\* other's row, may number two.
InvoiceOnce == \A o \in Orders \ crowded : Cardinality(InvoicesOf(o)) <= 1

\* regenerate_invoice: between requests the invoice says what the order costs, in its row and
\* on its PDF, unless its last rendering failed, a transaction was rolled back after the file
\* was written, the client changed the order, or two requests met.
InvoiceFollowsOrder ==
    \A n \in Numbers :
        Exists(n) /\ docs[n].order \notin loose \cup crowded /\ WorkingOn(docs[n].order) = {} =>
            /\ docs[n].order \notin penciled /\ amount[docs[n].order] # NotComputed
                    => docs[n].amount = amount[docs[n].order]
            /\ PdfOf(n) = Exported(n)

\* send_document_by_email, send_document_to_chat: a document that is SENT was named in the chat, or
\* went to the client with the number and the sum that it has now.
SentWasReceived ==
    \A n \in Numbers :
        Exists(n) /\ docs[n].state = "sent" /\ docs[n].order \notin loose \cup crowded /\ WorkingOn(docs[n].order) = {}
            => received[n] \in {Exported(n), LinkInChat}

\* _next_doc_number: the number under which a client got an invoice stands for a document of
\* that client's order, unless the creation failed after the invoice was sent.
PaperIsOwn ==
    \A n \in Numbers :
        received[n] \in Pdf /\ received[n].order \notin unkept /\ Exists(n) => received[n].order = docs[n].order
=============================================================================
