------------------------------- MODULE Contracts -------------------------------
(***************************************************************************)
(* The supply contracts of the companies (contract_service,                *)
(* routers/contracts): one active contract for a client and an             *)
(* organization, its number, its PDF in the client's folder.               *)
(*                                                                         *)
(* A request holds an advisory lock on the pair, takes the next number of  *)
(* the counter, or the one that the staff typed, writes the PDF and        *)
(* inserts the row.  create_order does it inside the order's transaction.  *)
(***************************************************************************)
EXTENDS Integers, FiniteSets

CONSTANTS
    Clients, Organizations, ContractReqs,
    MaxContractNo,   \* bound: the counter
    MaxMonth,        \* bound: the months that pass
    MaxContractReqs  \* bound: requests that begin

ASSUME ContractsAssumption ==
    MaxContractNo \in Nat /\ MaxMonth \in Nat /\ MaxContractReqs \in Nat

Pairs     == Clients \X Organizations
\* The number of a contract: NNN/MM.
ContractNos == (1..MaxContractNo) \X (0..MaxMonth)
Folder    == Clients \X ContractNos
NoRow     == [state |-> "none"]
NoFile    == [state |-> "none"]
Quiet     == [step |-> "quiet"]
Automatic == <<0, 0>>

VARIABLES
    contracts,    \* id -> the row
    cabinet,      \* client, number -> the PDF
    lastSeq,      \* contract_month_counters.last_seq, as committed
    seqLock,      \* the request that has incremented the counter
    pairLock,     \* pair -> the advisory lock is held
    month,        \* the month of today
    contractReqs, \* request -> what it works on
    begunCon,     \* how many requests have begun
    contestedNos, \* history: the numbers whose file was written or removed for another contract
    crossed,      \* history: the pairs whose contract was changed by two requests at a time
    lostOrders    \* history: how many orders were not created because of the contract

contractVars == <<contracts, cabinet, lastSeq, seqLock, pairLock, month, contractReqs, begunCon,
                  contestedNos, crossed, lostOrders>>

\* Contracts and their terms are named by the request that wrote them.
ContractIds == 0..(MaxContractReqs - 1)

ContractRow == [pair: Pairs, no: ContractNos, terms: ContractIds, file: Folder]

ConInit ==
    /\ contracts = [c \in ContractIds |-> NoRow]
    /\ cabinet = [f \in Folder |-> NoFile]
    /\ lastSeq = 0 /\ seqLock = FALSE /\ pairLock = [p \in Pairs |-> FALSE] /\ month = 0
    /\ contractReqs = [q \in ContractReqs |-> Quiet]
    /\ begunCon = 0 /\ contestedNos = {} /\ crossed = {} /\ lostOrders = 0

Rows == {c \in ContractIds : contracts[c] # NoRow}

\* get_active_contract, list_contracts.
ActiveContracts(p) == {c \in Rows : contracts[c].pair = p}

\* _ensure_number_free, and the unique index: by what is committed.
NumberFree(n) == \A c \in Rows : contracts[c].no # n

\* The file of a contract: the folder of the client, the number.
PathOf(p, n) == <<p[1], n>>

\* download_contract; what send_contract_by_email attaches.
PdfOfContract(c) == cabinet[contracts[c].file]

Step(q) == contractReqs[q].step

-----------------------------------------------------------------------------
BeginCon(q, r) ==
    /\ Step(q) = "quiet" /\ begunCon < MaxContractReqs
    /\ begunCon' = begunCon + 1
    /\ contractReqs' = [contractReqs EXCEPT ![q] = r]

OthersOn(q, p) == {x \in ContractReqs \ {q} : Step(x) # "quiet" /\ contractReqs[x].pair = p}

NewRequest(kind, p, n) == 
    [step |-> "lock", kind |-> kind, pair |-> p, no |-> n, old |-> n, terms |-> begunCon, id |-> begunCon]

\* create_contract by the staff, with a number of their own or the next one.
StaffBegin(q, p, n) ==
    /\ BeginCon(q, NewRequest("staff", p, n))
    /\ UNCHANGED <<contracts, cabinet, lastSeq, seqLock, pairLock, month, contestedNos, crossed, lostOrders>>

\* get_org_contract: the organization's card, when nobody has a contract for the organization.
CardBegin(q, p) ==
    /\ \A c \in Rows : contracts[c].pair[2] # p[2]
    /\ StaffBegin(q, p, Automatic)

\* create_order, for a company without an active contract.
OrderBegin(q, p) ==
    /\ ActiveContracts(p) = {}
    /\ BeginCon(q, NewRequest("order", p, Automatic))
    /\ UNCHANGED <<contracts, cabinet, lastSeq, seqLock, pairLock, month, contestedNos, crossed, lostOrders>>

\* Mutant: no lock on the pair.
CreateLockFree(q) ==
    /\ Step(q) = "lock"
    /\ contractReqs' = [contractReqs EXCEPT ![q] =
           IF ActiveContracts(@.pair) # {} THEN Quiet ELSE [@ EXCEPT !.step = "number"]]
    /\ UNCHANGED <<contracts, cabinet, lastSeq, seqLock, pairLock, month, begunCon, contestedNos, crossed, lostOrders>>

\* pg_advisory_xact_lock, and the contract that is there is the answer.
CreateLock(q) ==
    /\ Step(q) = "lock" /\ ~pairLock[contractReqs[q].pair]
    /\ LET p == contractReqs[q].pair IN
       IF ActiveContracts(p) # {}
       THEN /\ contractReqs' = [contractReqs EXCEPT ![q] = Quiet] /\ UNCHANGED pairLock
       ELSE /\ contractReqs' = [contractReqs EXCEPT ![q].step = "number"]
            /\ pairLock' = [pairLock EXCEPT ![p] = TRUE]
    /\ UNCHANGED <<contracts, cabinet, lastSeq, seqLock, month, begunCon, contestedNos, crossed, lostOrders>>

Ended(q) ==
    /\ contractReqs' = [contractReqs EXCEPT ![q] = Quiet]
    /\ pairLock' = [pairLock EXCEPT ![contractReqs[q].pair] = @ /\ contractReqs[q].kind = "regenerate"]

\* No requisites of the buyer or of the seller, or the auth service away: the staff get an
\* error, an order goes on without a contract.
CreateRefused(q) ==
    /\ Step(q) = "number"
    /\ Ended(q)
    /\ UNCHANGED <<contracts, cabinet, lastSeq, seqLock, month, begunCon, contestedNos, crossed, lostOrders>>

\* _ensure_number_free.
TypedNumber(q) ==
    /\ Step(q) = "number" /\ contractReqs[q].no # Automatic
    /\ IF NumberFree(contractReqs[q].no)
       THEN contractReqs' = [contractReqs EXCEPT ![q].step = "save"] /\ UNCHANGED pairLock
       ELSE Ended(q)
    /\ UNCHANGED <<contracts, cabinet, lastSeq, seqLock, month, begunCon, contestedNos, crossed, lostOrders>>

\* _next_contract_number; the row of the counter is locked until the transaction ends.
NextNumber(q) ==
    /\ Step(q) = "number" /\ contractReqs[q].no = Automatic
    /\ ~seqLock /\ lastSeq < MaxContractNo
    /\ seqLock' = TRUE
    /\ contractReqs' = [contractReqs EXCEPT ![q].step = "save", ![q].no = <<lastSeq + 1, month>>]
    /\ UNCHANGED <<contracts, cabinet, lastSeq, pairLock, month, begunCon, contestedNos, crossed, lostOrders>>

FromCounter(q) == contractReqs[q].old = Automatic

Says(q) == [pair |-> contractReqs[q].pair, no |-> contractReqs[q].no, terms |-> contractReqs[q].terms]

\* Another contract has the number, or a request is about to print one under it.
OfAnother(q, n) ==
    \/ \E c \in Rows \ {contractReqs[q].id} : contracts[c].no = n
    \/ \E x \in ContractReqs \ {q} : Step(x) \in {"save", "insert", "reprint"} /\ contractReqs[x].no = n

\* The file of each number of the request is written or removed.
Touched(q, nos) == contestedNos \cup {n \in nos : OfAnother(q, n)}

\* _save_contract_pdf: before the row is written.
SavePdf(q) ==
    /\ Step(q) = "save"
    /\ cabinet' = [cabinet EXCEPT ![PathOf(contractReqs[q].pair, contractReqs[q].no)] = Says(q)]
    /\ contractReqs' = [contractReqs EXCEPT ![q].step = "insert"]
    /\ contestedNos' = Touched(q, {contractReqs[q].no})
    /\ UNCHANGED <<contracts, lastSeq, seqLock, pairLock, month, begunCon, crossed, lostOrders>>

\* The flush and the commit; the counter is committed with the row.
InsertContract(q) ==
    LET r == contractReqs[q] IN
    /\ Step(q) = "insert" /\ NumberFree(r.no)
    /\ contracts' = [contracts EXCEPT ![r.id] =
           [pair |-> r.pair, no |-> r.no, terms |-> r.terms, file |-> PathOf(r.pair, r.no)]]
    /\ lastSeq' = IF FromCounter(q) THEN r.no[1] ELSE lastSeq
    /\ seqLock' = (seqLock /\ ~FromCounter(q))
    /\ Ended(q)
    /\ UNCHANGED <<cabinet, month, begunCon, contestedNos, crossed, lostOrders>>

\* The unique index refuses the number.  The session that flushed it can only be rolled back:
\* create_order, which goes on after the error, fails at its next statement.
InsertRefused(q) ==
    LET r == contractReqs[q] IN
    /\ Step(q) = "insert" /\ ~NumberFree(r.no)
    /\ seqLock' = (seqLock /\ ~FromCounter(q))
    /\ lostOrders' = IF r.kind = "order" THEN lostOrders + 1 ELSE lostOrders
    /\ Ended(q)
    /\ UNCHANGED <<contracts, cabinet, lastSeq, month, begunCon, contestedNos, crossed>>

\* A request that is cut after the PDF was written.
CreateCut(q) ==
    /\ Step(q) = "insert"
    /\ seqLock' = (seqLock /\ ~FromCounter(q))
    /\ Ended(q)
    /\ UNCHANGED <<contracts, cabinet, lastSeq, month, begunCon, contestedNos, crossed, lostOrders>>

-----------------------------------------------------------------------------
\* regenerate_contract: the row is read and not locked, a new number is checked.
RegenerateBegin(q, c, new) ==
    LET row == contracts[c] IN
    /\ c \in Rows
    /\ new # row.no => NumberFree(new)
    /\ BeginCon(q, [step |-> "reprint", kind |-> "regenerate", pair |-> row.pair, no |-> new, old |-> row.no,
                    terms |-> begunCon, id |-> c])
    /\ crossed' = IF OthersOn(q, row.pair) # {} THEN crossed \cup {row.pair} ELSE crossed
    /\ UNCHANGED <<contracts, cabinet, lastSeq, seqLock, pairLock, month, contestedNos, lostOrders>>

\* Mutant: the file of the old number is removed after the new one is written, of whatever name.
PrintedThenRemoved(q) ==
    LET r == contractReqs[q] IN
    [[cabinet EXCEPT ![PathOf(r.pair, r.no)] = Says(q)] EXCEPT ![PathOf(r.pair, r.old)] = NoFile]

\* _save_contract_pdf, and the file of the old number, if it is another, is removed.
Printed(q) ==
    LET r == contractReqs[q] IN
    [[cabinet EXCEPT ![PathOf(r.pair, r.old)] = NoFile] EXCEPT ![PathOf(r.pair, r.no)] = Says(q)]

\* The UPDATE of the row is flushed by the next select, so that the unique index speaks before
\* the PDF is written; it writes the columns that the request has changed.
Regenerate(q) ==
    LET r == contractReqs[q] IN
    /\ Step(q) = "reprint"
    /\ r.no # r.old => NumberFree(r.no)
    /\ cabinet' = Printed(q)
    /\ contracts' = [contracts EXCEPT
           ![r.id].terms = r.terms,
           ![r.id].no    = IF r.no # r.old THEN r.no ELSE @,
           ![r.id].file  = IF r.no # r.old THEN PathOf(r.pair, r.no) ELSE @]
    /\ contestedNos' = Touched(q, {r.no, r.old})
    /\ Ended(q)
    /\ UNCHANGED <<lastSeq, seqLock, month, begunCon, crossed, lostOrders>>

\* The number has been taken meanwhile, or the rendering fails: nothing is written.
RegenerateFails(q) ==
    /\ Step(q) = "reprint"
    /\ Ended(q)
    /\ UNCHANGED <<contracts, cabinet, lastSeq, seqLock, month, begunCon, contestedNos, crossed, lostOrders>>

MonthPasses ==
    /\ month < MaxMonth
    /\ month' = month + 1
    /\ UNCHANGED <<contracts, cabinet, lastSeq, seqLock, pairLock, contractReqs, begunCon, contestedNos, crossed, lostOrders>>

ConNext ==
    \/ \E q \in ContractReqs, p \in Pairs :
            \/ \E n \in ContractNos \cup {Automatic} : StaffBegin(q, p, n)
            \/ CardBegin(q, p) \/ OrderBegin(q, p)
    \/ \E q \in ContractReqs :
            \/ CreateLock(q) \/ CreateRefused(q) \/ TypedNumber(q) \/ NextNumber(q) \/ SavePdf(q)
            \/ InsertContract(q) \/ InsertRefused(q) \/ CreateCut(q) \/ Regenerate(q) \/ RegenerateFails(q)
    \/ \E q \in ContractReqs, c \in ContractIds, n \in ContractNos : RegenerateBegin(q, c, n)
    \/ MonthPasses

ConSpec == ConInit /\ [][ConNext]_contractVars

-----------------------------------------------------------------------------
\* The rows and the files keep the shape that the models of the database give them.
ConTypeOK ==
    /\ contracts \in [ContractIds -> ContractRow \cup {NoRow}]
    /\ cabinet \in [Folder -> [pair: Pairs, no: ContractNos, terms: ContractIds] \cup {NoFile}]
    /\ lastSeq \in 0..MaxContractNo /\ seqLock \in BOOLEAN /\ pairLock \in [Pairs -> BOOLEAN]

\* models/contract.py: a client and an organization have one active contract, however many
\* orders and managers ask for it at the same moment.
OneActivePerPair == \A p \in Pairs : Cardinality(ActiveContracts(p)) <= 1

\* download_contract: the PDF of a contract is its own, with the terms of its row, through
\* creations and new numbers, unless a second contract was printed under its number, or moved away
\* from it, meanwhile, or two requests changed the contract at a time.
FileSaysContract ==
    \A c \in Rows :
        contracts[c].no \notin contestedNos /\ contracts[c].pair \notin crossed =>
            PdfOfContract(c) = [pair |-> contracts[c].pair, no |-> contracts[c].no, terms |-> contracts[c].terms]

\* order_service.py: the contract does not block the order, any error is only logged.
OrderGoesThrough == lostOrders = 0
=============================================================================
